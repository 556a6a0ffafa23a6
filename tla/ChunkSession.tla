---------------------------- MODULE ChunkSession ----------------------------
(***************************************************************************)
(* A host with a Forge session pushes chunks into an InteractiveVm         *)
(* (crates/eldr/src/interactive.rs, vm.rs, crates/forge/src/codegen.rs and *)
(* the input loop of crates/xldr/src/repl/logic/core.rs).  A push verifies *)
(* the chunk, takes a checkpoint, appends to the loaded image, boots the   *)
(* singletons of the boot plan, runs the chunk, and on any error rolls     *)
(* image and process runtime back; the host rolls its Forge session back.  *)
(*                                                                         *)
(* The entries of a table are abstracted to the chunk they came from, the  *)
(* boot plan to the names of its singletons, a process to its pid.         *)
(***************************************************************************)
EXTENDS Integers, FiniteSets, SequencesExt

CONSTANTS
  MaxChunk,   \* bound on the chunks generated
  MaxItems,   \* bound on what one chunk brings along
  MaxPid,     \* bound on next_pid
  Singletons  \* names of singleton processes

ASSUME ChunkAssumption == MaxChunk \in Nat /\ MaxItems \in Nat /\ MaxPid \in Nat

Pid == 1..MaxPid

\* The growing tables of Bytecode; `functions` is a variable of its own.
Tables == {"opcodes", "constants", "types", "errors", "dbg", "callables", "docs", "specs",
           "singletons", "standard", "handlers", "supervisors"}

\* The tables a ForgeSession extends along with the VM.
ForgeTables == {"constants", "types", "errors", "dbg", "callables", "functions"}

\* What rollback_to_checkpoint truncates.
Truncated == {"opcodes", "constants", "types", "errors", "callables", "docs", "specs",
              "singletons", "standard", "handlers"}

\* What execute_chunk extends.
Extended == Tables \ {"supervisors"}

VARIABLES
  image,     \* bytecode: the entries of each table
  functions, \* bytecode.functions: the chunk that defined each slot
  runtime,   \* process_runtime: allocator, ids given out, singleton_by_name, boot_completed
  last,      \* last_result: the chunk it came from
  saved,     \* VmCheckpoint
  bootSaved, \* saved_runtime of ensure_root_supervisor_booted
  todo,      \* singletons still to boot
  forge,     \* ForgeSession: the length of each table
  forgeCp,   \* ForgeCheckpoint
  chunk,     \* the chunk being pushed
  phase,     \* where the push is
  made,      \* chunks generated so far
  committed  \* chunks whose push returned Ok, the loaded image first

vmVars == <<image, functions, runtime, last>>
pushVars == <<saved, bootSaved, todo>>
forgeVars == <<forge, forgeCp>>
vars == <<vmVars, pushVars, forgeVars, chunk, phase, made, committed>>

\* What a chunk may bring: table entries, boot entries, one function (its
\* slot; 0 for none; below the length of the table it replaces).
BootLists == {<<>>} \cup {<<s>> : s \in Singletons}
               \cup {<<s, u>> : s, u \in Singletons}

Chunks ==
  {c \in [id : {made + 1},
          preload : BOOLEAN,
          adds : UNION {kSubset(k, Tables \ {"singletons"}) : k \in 0..MaxItems},
          boot : BootLists,
          fn : 0..(Len(functions) + 1)] :
     Cardinality(c.adds) + Len(c.boot) + (IF c.fn = 0 THEN 0 ELSE 1) <= MaxItems}

Loaded(b) == [id |-> 0, preload |-> TRUE, adds |-> {}, boot |-> b, fn |-> 0]

\* The entries that chunk c adds to table t.
Entries(c, t) ==
  IF t = "singletons" THEN c.boot ELSE IF t \in c.adds THEN <<c.id>> ELSE <<>>

\* checkpoint_for_chunk: lengths, and the functions the chunk will replace.
Checkpoint ==
  [len |-> [t \in Truncated |-> Len(image[t])],
   functionLen |-> Len(functions),
   overwritten |-> [i \in {chunk.fn} \cap 1..Len(functions) |-> functions[i]],
   runtime |-> runtime, last |-> last]

NoChunk == Loaded(<<>>)

FreshRuntime ==
  [nextPid |-> 1, processes |-> {}, singletons |-> [s \in Singletons |-> 0], booted |-> FALSE]

NoCheckpoint ==
  [len |-> [t \in Truncated |-> 0], functionLen |-> 0, overwritten |-> <<>>,
   runtime |-> FreshRuntime, last |-> 0]

Init ==
  /\ \E b \in {<<>>} \cup {<<s>> : s \in Singletons} :
       /\ image = [t \in Tables |-> Entries(Loaded(b), t)]
       /\ committed = <<Loaded(b)>>
  /\ functions = <<>>
  /\ runtime = FreshRuntime
  /\ last = 0
  /\ saved = NoCheckpoint
  /\ bootSaved = FreshRuntime
  /\ todo = <<>>
  /\ forge = [t \in ForgeTables |-> 0]
  /\ forgeCp = forge
  /\ chunk = NoChunk
  /\ phase = "Idle"
  /\ made = 0

-----------------------------------------------------------------------------
(* The host *)

\* ForgeSession::checkpoint, then codegen_chunk.
Generate ==
  /\ phase = "Idle" /\ made < MaxChunk
  /\ \E c \in Chunks :
       /\ chunk' = c
       /\ forge' = [t \in ForgeTables |->
                      forge[t] + IF \/ t \in c.adds
                                    \/ t = "functions" /\ c.fn = Len(functions) + 1
                                 THEN 1 ELSE 0]
  /\ forgeCp' = forge
  /\ made' = made + 1
  /\ phase' = "Generated"
  /\ UNCHANGED <<vmVars, pushVars, committed>>

\* The push is over; the checkpoint and the chunk are dropped.
Finished ==
  /\ saved' = NoCheckpoint /\ bootSaved' = FreshRuntime /\ todo' = <<>>
  /\ chunk' = NoChunk
  /\ phase' = "Idle"

\* codegen_chunk fails after it has extended its state.
CodegenFail ==
  /\ phase = "Generated"
  /\ forge' = forgeCp
  /\ Finished
  /\ UNCHANGED <<vmVars, forgeCp, made, committed>>

-----------------------------------------------------------------------------
(* InteractiveVm::push_chunk *)

\* verify_chunk_policy
PolicyRefuses(c) ==
  /\ ~ c.preload
  /\ \/ c.fn \in 1..Len(functions)
     \/ c.adds \cap {"types", "specs", "standard", "handlers", "supervisors"} # {}
     \/ c.boot # <<>>

\* The base that codegen recorded for table t is not the length of the VM's.
BaseMismatch(t) == forgeCp[t] # Len(image[t])

\* verify_chunk: the dbg base is not among those compared.
VerifyRefuses == \E t \in {"constants", "types", "errors"} : BaseMismatch(t)

\* Refused before the checkpoint is taken.
Refuse ==
  /\ phase = "Generated"
  /\ PolicyRefuses(chunk) \/ VerifyRefuses
  /\ forge' = forgeCp
  /\ Finished
  /\ UNCHANGED <<vmVars, forgeCp, made, committed>>

\* The singletons of the plan that are not running.
Unbooted(plan) == SelectSeq(plan, LAMBDA s : runtime.singletons[s] = 0)

\* push_atomic takes the checkpoint; execute_chunk first boots what is loaded.
Apply ==
  /\ phase = "Generated"
  /\ ~ PolicyRefuses(chunk) /\ ~ VerifyRefuses
  /\ saved' = Checkpoint
  /\ bootSaved' = runtime
  /\ todo' = IF runtime.booted THEN <<>> ELSE Unbooted(image["singletons"])
  /\ phase' = "BootLoaded"
  /\ UNCHANGED <<vmVars, forgeVars, chunk, made, committed>>

\* Mutant: the functions are cut to their length, replaced ones stay.
RestoredCut == SubSeq(functions, 1, saved.functionLen)

\* The function table cut to its length, with the replaced entries put back.
Restored == [i \in 1..saved.functionLen |->
               IF i \in DOMAIN saved.overwritten THEN saved.overwritten[i] ELSE functions[i]]

\* rollback_to_checkpoint; the allocator's high water survives.
Rollback(high) ==
  /\ image' = [t \in Tables |->
                 IF t \in Truncated THEN SubSeq(image[t], 1, saved.len[t]) ELSE image[t]]
  /\ functions' = Restored
  /\ runtime' = [saved.runtime EXCEPT !.nextPid = IF @ < high THEN high ELSE @]
  /\ last' = saved.last

\* Mutant: the host keeps its Forge session.
PushFailsKeepsForge(high) ==
  /\ Rollback(high)
  /\ UNCHANGED forge
  /\ Finished
  /\ UNCHANGED <<forgeCp, made, committed>>

\* The push returns Err, and the host rolls its Forge session back.
PushFails(high) ==
  /\ Rollback(high)
  /\ forge' = forgeCp
  /\ Finished
  /\ UNCHANGED <<forgeCp, made, committed>>

\* execute_chunk reports "Chunk dbg template base mismatch".
Mismatch ==
  /\ phase = "Append"
  /\ BaseMismatch("dbg")
  /\ PushFails(runtime.nextPid)

\* The function table with the entry of chunk c appended or replaced.
FunctionsWith(c) ==
  IF c.fn = 0 THEN functions
  ELSE [i \in DOMAIN functions \cup {c.fn} |-> IF i = c.fn THEN c.id ELSE functions[i]]

\* execute_chunk extends the image and starts the boot of its plan.
ExtendImage ==
  /\ phase = "Append"
  /\ ~ BaseMismatch("dbg")
  /\ image' = [t \in Tables |->
                 IF t \in Extended THEN image[t] \o Entries(chunk, t) ELSE image[t]]
  /\ functions' = FunctionsWith(chunk)
  /\ runtime' = [runtime EXCEPT !.booted = FALSE]
  /\ bootSaved' = runtime'
  /\ todo' = Unbooted(image'["singletons"])
  /\ phase' = "BootPlan"
  /\ UNCHANGED <<last, saved, forgeVars, chunk, made, committed>>

-----------------------------------------------------------------------------
(* The process runtime during a push *)

Booting == phase \in {"BootLoaded", "BootPlan"}

\* Mutant: the allocator is not advanced.
BootOneStill ==
  /\ Booting /\ todo # <<>>
  /\ runtime.singletons[Head(todo)] = 0
  /\ runtime.nextPid <= MaxPid
  /\ runtime' = [runtime EXCEPT !.processes = @ \cup {runtime.nextPid},
                                !.singletons[Head(todo)] = runtime.nextPid]
  /\ todo' = Tail(todo)
  /\ UNCHANGED <<image, functions, last, saved, bootSaved, forgeVars, chunk, phase, made, committed>>

\* Mutant: the slot of the singleton is not filled.
BootOneUnnamed ==
  /\ Booting /\ todo # <<>>
  /\ runtime.singletons[Head(todo)] = 0
  /\ runtime.nextPid <= MaxPid
  /\ runtime' = [runtime EXCEPT !.nextPid = @ + 1, !.processes = @ \cup {runtime.nextPid}]
  /\ todo' = Tail(todo)
  /\ UNCHANGED <<image, functions, last, saved, bootSaved, forgeVars, chunk, phase, made, committed>>

\* The init of the next singleton succeeds and gets its pid.
BootOne ==
  /\ Booting /\ todo # <<>>
  /\ runtime.singletons[Head(todo)] = 0
  /\ runtime.nextPid <= MaxPid
  /\ runtime' = [runtime EXCEPT !.nextPid = @ + 1,
                                !.processes = @ \cup {runtime.nextPid},
                                !.singletons[Head(todo)] = runtime.nextPid]
  /\ todo' = Tail(todo)
  /\ UNCHANGED <<image, functions, last, saved, bootSaved, forgeVars, chunk, phase, made, committed>>

\* A name that occurs twice in the plan finds its singleton running.
BootAgain ==
  /\ Booting /\ todo # <<>>
  /\ runtime.singletons[Head(todo)] # 0
  /\ todo' = Tail(todo)
  /\ UNCHANGED <<vmVars, saved, bootSaved, forgeVars, chunk, phase, made, committed>>

\* An init fails: the runtime goes back to saved_runtime, allocator included,
\* before the error reaches push_atomic.
BootFail ==
  /\ Booting /\ todo # <<>>
  /\ PushFails(bootSaved.nextPid)

BootDone ==
  /\ Booting /\ todo = <<>>
  /\ runtime' = [runtime EXCEPT !.booted = TRUE]
  /\ phase' = IF phase = "BootLoaded" THEN "Append" ELSE "Running"
  /\ UNCHANGED <<image, functions, last, pushVars, forgeVars, chunk, made, committed>>

\* allocate_process_instance, from an init, from the chunk, or from a task
\* that the host pumps between pushes.
Spawn ==
  /\ (Booting /\ todo # <<>>) \/ phase \in {"Running", "Idle"}
  /\ runtime.nextPid <= MaxPid
  /\ runtime' = [runtime EXCEPT !.nextPid = @ + 1, !.processes = @ \cup {runtime.nextPid}]
  /\ UNCHANGED <<image, functions, last, pushVars, forgeVars, chunk, phase, made, committed>>

Commit ==
  /\ phase = "Running"
  /\ last' = chunk.id
  /\ committed' = Append(committed, chunk)
  /\ Finished
  /\ UNCHANGED <<image, functions, runtime, forgeVars, made>>

\* The chunk ends in a RuntimeError, or the image no longer verifies.
Fail ==
  /\ phase = "Running"
  /\ PushFails(runtime.nextPid)

Next ==
  \/ Generate \/ CodegenFail \/ Refuse \/ Apply \/ Mismatch \/ ExtendImage
  \/ BootOne \/ BootAgain \/ BootFail \/ BootDone \/ Spawn \/ Commit \/ Fail

Spec == Init /\ [][Next]_vars

-----------------------------------------------------------------------------
(* Properties *)

\* What the committed chunks say table t holds.
Expected(t) == FlattenSeq([i \in DOMAIN committed |-> Entries(committed[i], t)])

\* The last committed chunk that defines slot i.
Definer(i) == committed[Max({k \in DOMAIN committed : committed[k].fn = i})].id

(* Between pushes the image, the function table and last_result are what   *)
(* the committed chunks made them: whatever a failed push appended,        *)
(* replaced or set is gone, and nothing committed is.  (Not said of the    *)
(* dbg templates, which a rollback leaves in place, nor of the supervisor  *)
(* overrides, which execute_chunk does not append.)                        *)
ImageIsCommitted ==
  phase = "Idle" =>
    /\ \A t \in Tables \ {"dbg", "supervisors"} : image[t] = Expected(t)
    /\ \A i \in DOMAIN functions : functions[i] = Definer(i)
    /\ Len(functions) = Cardinality({committed[k].fn : k \in DOMAIN committed} \ {0})
    /\ last = Last(committed).id

TableLen(t) == IF t = "functions" THEN Len(functions) ELSE Len(image[t])
Uncommitted == (1..made) \ {committed[i].id : i \in DOMAIN committed}

(* Code of a chunk, and inits of its singletons, only run when Forge and   *)
(* the VM agree on the length of every table both keep, also of those      *)
(* whose bases nothing compares.  Between pushes they agree on all of them *)
(* but the dbg templates: neither a failed codegen, nor a refused, nor a   *)
(* failed push lets them drift.  Forge counts the committed dbg templates, *)
(* while the VM also keeps those of a push that failed after it extended   *)
(* the image (vm.rs:4055; rollback_to_checkpoint does not cut them).  That *)
(* happens once: from then on vm.rs:4035 refuses every chunk.              *)
SessionInStep ==
  /\ phase \in {"BootPlan", "Running"} =>
       \A t \in ForgeTables : forge[t] = TableLen(t)
  /\ phase = "Idle" =>
       /\ \A t \in ForgeTables \ {"dbg"} : forge[t] = TableLen(t)
       /\ forge["dbg"] = Len(Expected("dbg"))
       /\ image["dbg"] \in {Expected("dbg")} \cup
                           {Append(Expected("dbg"), n) : n \in Uncommitted}

(* allocate_process_instance never hands out the id of a process that      *)
(* exists, in the running VM or in what a rollback would bring back.       *)
LiveIdsNotReissued ==
  \A r \in {runtime, saved.runtime, bootSaved} :
    r.processes \subseteq 1..(r.nextPid - 1) \cap 1..(runtime.nextPid - 1)

(* A singleton of the plan has its process whenever top-level code or a    *)
(* background task can call it, also after a push that failed.             *)
PlanIsUp ==
  phase = "Running" \/ (phase = "Idle" /\ runtime.booted) =>
    \A s \in Range(image["singletons"]) : runtime.singletons[s] \in runtime.processes

(* The allocator's high water is not given up by a rollback; only a boot   *)
(* that fails lowers it.                                                   *)
HighWaterKept == [][runtime'.nextPid >= runtime.nextPid \/ Booting]_vars
=============================================================================
