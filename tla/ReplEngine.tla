----------------------------- MODULE ReplEngine -----------------------------
(***************************************************************************)
(* The engine behind the REPL (crates/xldr/src/repl/logic/core.rs) and the *)
(* compiler sessions it keeps between lines: the scope of Sigil, the       *)
(* function indices, generic templates and cached instances of Scar, the   *)
(* function table of Forge and the table of the VM.  A line goes through   *)
(* resolve, typecheck, codegen and execution; every stage may fail, and    *)
(* the sessions are then rolled back.  Scar numbers functions as it meets  *)
(* them, Forge renumbers the ones it emits to table positions, and after   *)
(* an executed line Scar is brought back in step by name.                  *)
(*                                                                         *)
(* Functions are what matters of a line: it defines some, calls some, and  *)
(* may bind a value to the name of one, after which the name may be        *)
(* defined again.  Each function calls at most one other (Callee).  Table  *)
(* positions are counted from 1 after the standard library, of which only  *)
(* the number of generic templates is kept.                                *)
(***************************************************************************)
EXTENDS Integers, Sequences, FiniteSets, SequencesExt, FiniteSetsExt

CONSTANTS
  Mono,         \* names defined as ordinary functions
  Generic,      \* names defined as functions that need specialisation
  Types,        \* types an instance can be made for
  NoType,       \* the type of an ordinary function
  AnyType,      \* the type of a template
  Nothing,      \* no callee, no saved engine, no line
  Callee,       \* what the body of each function calls
  CallType,     \* the type at which ordinary functions call generic ones
  Redefinable,  \* names lines bind values to, and then define again
  Script,       \* the statements of the preload script that run at start
  StdTemplates, \* number of generic templates of the standard library
  MaxItems,     \* bound: definitions, calls and values of a line
  MaxLines      \* bound: lines and reloads of a session

Names == Mono \cup Generic

ASSUME ReplAssumption ==
  /\ Mono \cap Generic = {}
  /\ Callee \in [Names -> Names \cup {Nothing}] /\ Nothing \notin Names
  /\ CallType \in Types /\ {NoType, AnyType} \cap Types = {}
  /\ Redefinable \subseteq Names
  /\ {StdTemplates, MaxItems, MaxLines} \subseteq Nat

VARIABLES
  eng,    \* the engine: its compiler sessions, its VM and its records
  old,    \* the engine a reload will fall back to, or Nothing
  mode,   \* "startup", "live", "all" or "defs" (a reload of that kind)
  queue,  \* inputs still to be fed to the engine by startup or reload
  pc,     \* where the line being handled is
  work,   \* the line being handled, or Nothing
  lines   \* lines and reloads so far
vars == <<eng, old, mode, queue, pc, work, lines>>

-----------------------------------------------------------------------------
(* Lines.                                                                  *)

Uses == [name : Mono, ty : {NoType}] \cup [name : Generic, ty : Types]

Line(defs, uses, values) == [defs |-> defs, uses |-> uses, values |-> values]

Size(c) == Len(c.defs) + Len(c.uses) + Cardinality(c.values)

(* The lines a user can enter, cut to MaxItems items.                      *)
Lines ==
  { c \in { Line(d, u, v) : d \in SeqOf(Names, 2), u \in SeqOf(Uses, 2),
                            v \in SUBSET Redefinable } :
      Size(c) \in 1..MaxItems /\ IsInjective(c.defs) }

(* Only lines made of definitions are kept for :reload.                    *)
chunk_is_replayable(c) == c.defs # << >> /\ c.uses = << >> /\ c.values = {}

-----------------------------------------------------------------------------
(* The engine.  A function is [name, ver, ty]; ver tells the definitions   *)
(* of one name apart (they share Sigil's unique id).  An entry is a        *)
(* function with the function its body means to call and the index it      *)
(* calls (0: none).                                                        *)

Fn(n, v, t) == [name |-> n, ver |-> v, ty |-> t]
Entry(fn, wants, callee) == [fn |-> fn, wants |-> wants, callee |-> callee]

Empty == [k \in {} |-> 0]
Join(f, g) == g @@ f

(* An engine built from the preload: standard library templates only, of   *)
(* which from_preloaded_state has moved every index above the table.       *)
Seed ==
  [ scope   |-> [n \in Names |-> 0],  \* Sigil: version a name calls, or 0
    decl    |-> [n \in Names |-> 0],  \* Sigil: last declared version
    env     |-> Empty,                \* Scar: index of each known name
    tmpl    |-> Empty,                \* Scar: specializable_defs
    cache   |-> Empty,                \* Scar: specialization_fun_idxs
    next    |-> StdTemplates + 1,     \* Scar: next_fun_idx
    forge   |-> << >>,                \* Forge: functions
    vm      |-> << >>,                \* VM: functions
    records |-> {},                   \* def_records
    replay  |-> << >>,                \* replay_inputs
    pending |-> FALSE ]               \* an incomplete line is held

Init ==
  /\ eng = Seed /\ old = Nothing /\ mode = "startup" /\ queue = Script
  /\ pc = "input" /\ work = Nothing /\ lines = 0

(* The three checkpoints taken before a line, and going back to them.      *)
Checkpoint(e) ==
  [k \in {"scope", "decl", "env", "tmpl", "cache", "next", "forge"} |-> e[k]]

\* Mutant: Sigil is not rolled back.
RolledBackWithoutSigil(e) ==
  [k \in DOMAIN e |-> IF k \in DOMAIN work.cp \ {"scope", "decl"}
                        THEN work.cp[k] ELSE e[k]]

RolledBack(e) == [k \in DOMAIN e |-> IF k \in DOMAIN work.cp
                                       THEN work.cp[k] ELSE e[k]]

Begin(c) ==
  /\ work' = [line |-> c, cp |-> Checkpoint(eng), means |-> eng.scope,
              emit |-> Empty, main |-> << >>]
  /\ pc' = "parsed"

(* How a line ends.  While the engine is being built a line that does not  *)
(* succeed ends the building: startup fails, a reload drops the new        *)
(* engine.                                                                 *)
Succeeded(e) ==
  /\ eng' = [e EXCEPT !.pending = FALSE]
  /\ pc' = IF mode = "live" THEN "prompt" ELSE "input"
  /\ work' = Nothing
  /\ UNCHANGED <<old, mode, queue, lines>>

\* Mutant: a failed reload keeps the new engine.
ReportedKeepsNew(e, exit) ==
  /\ work' = Nothing
  /\ eng' = [e EXCEPT !.pending = FALSE]
  /\ pc' = IF exit \/ mode = "startup" THEN "exited" ELSE "prompt"
  /\ mode' = IF mode = "startup" THEN mode ELSE "live"
  /\ queue' = << >> /\ old' = Nothing
  /\ UNCHANGED lines

Reported(e, exit) ==
  /\ work' = Nothing
  /\ UNCHANGED lines
  /\ IF mode \in {"all", "defs"}
       THEN eng' = old /\ old' = Nothing /\ mode' = "live"
            /\ queue' = << >> /\ pc' = "prompt"
       ELSE /\ eng' = [e EXCEPT !.pending = FALSE]
            /\ pc' = IF exit \/ mode = "startup" THEN "exited" ELSE "prompt"
            /\ UNCHANGED <<old, mode, queue>>

-----------------------------------------------------------------------------
(* Sigil.  A definition is refused while its name still denotes the        *)
(* definition before it; a call needs a name that denotes a function.      *)

reject_duplicate_current_module_defs(c) ==
  \E n \in Range(c.defs) : eng.scope[n] # 0 /\ eng.scope[n] = eng.decl[n]

ScopeAfter(c) ==
  [n \in Names |-> IF n \in Range(c.defs) THEN eng.decl[n] + 1 ELSE eng.scope[n]]

Referenced(c) ==
  ({ u.name : u \in Range(c.uses) } \cup { Callee[n] : n \in Range(c.defs) })
    \ {Nothing}

resolve ==
  LET c == work.line IN
  /\ pc = "parsed"
  /\ ~ reject_duplicate_current_module_defs(c)
  /\ \A n \in Referenced(c) : ScopeAfter(c)[n] # 0
  /\ eng' = [eng EXCEPT
       !.scope = [n \in Names |-> IF n \in c.values THEN 0 ELSE ScopeAfter(c)[n]],
       !.decl = [n \in Names |-> IF n \in Range(c.defs) THEN @[n] + 1 ELSE @[n]]]
  /\ work' = [work EXCEPT !.means = ScopeAfter(c)]
  /\ pc' = "resolved"
  /\ UNCHANGED <<old, mode, queue, lines>>

-----------------------------------------------------------------------------
(* Scar.  Definitions get indices in order; calls of templates are turned  *)
(* into calls of instances, made on demand and cached by the callable's    *)
(* unique id (one for all definitions of a name) and its type.             *)

(* What a body or a statement that calls n at type t means.                *)
Meant(n, t) ==
  IF n = Nothing THEN Nothing
  ELSE Fn(n, work.means[n], IF n \in Generic THEN t ELSE NoType)

predeclare_functions(c) ==
  [n \in DOMAIN eng.env \cup Range(c.defs) |->
     IF n \in Range(c.defs)
       THEN eng.next + (CHOOSE i \in DOMAIN c.defs : c.defs[i] = n) - 1
       ELSE eng.env[n]]

(* The definitions of the line at their indices, calls not yet rewritten.  *)
Declared(c, env) ==
  [k \in { env[n] : n \in Range(c.defs) } |->
     LET n == CHOOSE m \in Range(c.defs) : env[m] = k
         t == IF n \in Generic THEN AnyType ELSE NoType
     IN Entry(Fn(n, work.means[n], t),
              Meant(Callee[n], IF n \in Generic THEN AnyType ELSE CallType),
              IF Callee[n] = Nothing THEN 0 ELSE env[Callee[n]])]

(* The index a call of index k at type t becomes; st carries the next      *)
(* index, the cache and the instances generated so far, defs is            *)
(* defs_by_fun_idx.                                                        *)
RECURSIVE ensure_specialized_def(_, _, _, _)
ensure_specialized_def(st, defs, k, t) ==
  IF k \notin DOMAIN defs \/ defs[k].fn.ty # AnyType
    THEN [st EXCEPT !.idx = k]
    ELSE
      LET original == defs[k]
          key == <<original.fn.name, t>>
          known == key \in DOMAIN st.cache
                   /\ st.cache[key] \in DOMAIN defs \cup DOMAIN st.made
          idx == st.next
          wants == IF original.wants = Nothing \/ original.wants.ty # AnyType
                     THEN original.wants
                     ELSE [original.wants EXCEPT !.ty = t]
          reserved ==
            [ next |-> idx + 1, idx |-> idx,
              cache |-> Join(st.cache, [x \in {key} |-> idx]),
              made |-> Join(st.made, [x \in {idx} |->
                Entry([original.fn EXCEPT !.ty = t], wants, 0)]) ]
          inner == ensure_specialized_def(reserved, defs, original.callee, t)
      IN IF known THEN [st EXCEPT !.idx = st.cache[key]]
         ELSE [inner EXCEPT !.idx = idx, !.made[idx].callee = inner.idx]

(* specialize_program: the ordinary definitions, then the statements.      *)
Calls(c, env, declared) ==
  [i \in 1..Len(SelectSeq(c.defs, LAMBDA n : n \in Mono)) |->
     LET n == SelectSeq(c.defs, LAMBDA m : m \in Mono)[i]
     IN [at |-> env[n], callee |-> declared[env[n]].callee,
         wants |-> declared[env[n]].wants, ty |-> CallType]]
  \o [i \in DOMAIN c.uses |->
        [at |-> 0, callee |-> env[c.uses[i].name],
         wants |-> Meant(c.uses[i].name, c.uses[i].ty), ty |-> c.uses[i].ty]]

Specialized(st, defs, call) ==
  LET r == ensure_specialized_def(st.st, defs, call.callee, call.ty)
  IN IF call.at = 0
       THEN [st EXCEPT !.st = r,
               !.main = Append(@, [wants |-> call.wants, callee |-> r.idx])]
       ELSE [st EXCEPT !.st = r, !.emit[call.at].callee = r.idx]

typecheck ==
  LET c == work.line
      env == predeclare_functions(c)
      declared == Declared(c, env)
      generic == { k \in DOMAIN declared : declared[k].fn.ty = AnyType }
      start ==
        [ st |-> [ next |-> eng.next + Len(c.defs), idx |-> 0,
                   cache |-> eng.cache, made |-> Empty ],
          emit |-> [k \in DOMAIN declared \ generic |-> declared[k]],
          main |-> << >> ]
      done == FoldLeft(
                LAMBDA s, call : Specialized(s, Join(eng.tmpl, declared), call),
                start, Calls(c, env, declared))
  IN
  /\ pc = "resolved"
  /\ eng' = [eng EXCEPT
       !.env = env, !.next = done.st.next, !.cache = done.st.cache,
       !.tmpl = Join(Join(@, [k \in generic |-> declared[k]]), done.st.made)]
  /\ work' = [work EXCEPT !.emit = Join(done.emit, done.st.made), !.main = done.main]
  /\ pc' = "typed"
  /\ UNCHANGED <<old, mode, queue, lines>>

-----------------------------------------------------------------------------
(* Forge.  The functions of the line follow the table in the order of      *)
(* their indices and are renumbered to their positions, and so is every    *)
(* call in the code of the line.  An index that is neither in the table    *)
(* nor emitted, or one that is both, is an error of codegen.               *)

Resolvable(k) == k \in 0..Len(eng.forge) \cup DOMAIN work.emit

\* Mutant: the calls of the top level keep Scar's numbers.
NormalizedFunctionsOnly ==
  LET order == SetToSortSeq(DOMAIN work.emit, <)
      remap(k) == IF k \in DOMAIN work.emit
                    THEN Len(eng.forge) + (CHOOSE i \in DOMAIN order : order[i] = k)
                    ELSE k
  IN [ table |-> eng.forge \o [i \in DOMAIN order |->
                   [work.emit[order[i]] EXCEPT !.callee = remap(@)]],
       main |-> work.main ]

normalize_function_table ==
  LET order == SetToSortSeq(DOMAIN work.emit, <)
      remap(k) == IF k \in DOMAIN work.emit
                    THEN Len(eng.forge) + (CHOOSE i \in DOMAIN order : order[i] = k)
                    ELSE k
  IN [ table |-> eng.forge \o [i \in DOMAIN order |->
                   [work.emit[order[i]] EXCEPT !.callee = remap(@)]],
       main |-> [i \in DOMAIN work.main |->
                   [work.main[i] EXCEPT !.callee = remap(@)]] ]

CallsOf(w) == { w.emit[k].callee : k \in DOMAIN w.emit }
                \cup { w.main[i].callee : i \in DOMAIN w.main }

codegen_chunk_repl_result ==
  /\ pc = "typed"
  /\ DOMAIN work.emit \cap 1..Len(eng.forge) = {}
  /\ \A k \in CallsOf(work) : Resolvable(k)
  /\ eng' = [eng EXCEPT !.forge = normalize_function_table.table]
  /\ work' = [work EXCEPT !.main = normalize_function_table.main]
  /\ pc' = "emitted"
  /\ UNCHANGED <<old, mode, queue, lines>>

-----------------------------------------------------------------------------
(* After execution Scar takes over the numbers of the VM, by name.         *)

Rewritten(k, rewrites) == IF k \in DOMAIN rewrites THEN rewrites[k] ELSE k

(* The index of the last function in the table with each name.             *)
Named(table) ==
  [n \in { table[i].fn.name : i \in DOMAIN table } |->
     Max({ i \in DOMAIN table : table[i].fn.name = n })]

(* Every definition leaves its old key before any takes its new one.       *)
rekey_specializable_defs(tmpl, rekeys) ==
  LET take(s, r) ==
        IF r[1] \notin DOMAIN s.left THEN s
        ELSE [ left |-> [k \in DOMAIN s.left \ {r[1]} |-> s.left[k]],
               moved |-> Append(s.moved, <<r[2], s.left[r[1]]>>) ]
      taken == FoldLeft(take, [left |-> tmpl, moved |-> << >>], rekeys)
  IN FoldLeft(LAMBDA f, m : Join(f, [k \in {m[1]} |-> m[2]]), taken.left, taken.moved)

rewrite_fun_indices_in_node(tmpl, rewrites) ==
  [k \in DOMAIN tmpl |-> [tmpl[k] EXCEPT !.callee = Rewritten(@, rewrites)]]

(* Templates get fresh indices above the table, the standard library's     *)
(* first; ordinary functions the index the table has under their name.     *)
(* Cached instances stay if their index is then one of those.              *)
reconcile_function_indices(e) ==
  LET named == Named(e.vm)
      known == DOMAIN e.env
      order == SetToSortSeq({ n \in known : /\ e.env[n] \in DOMAIN e.tmpl
                                            /\ e.tmpl[e.env[n]].fn.name = n },
                            LAMBDA m, n : e.env[m] < e.env[n])
      base == Max({Len(e.vm) + 1, e.next}) + StdTemplates
      rekeys == [i \in DOMAIN order |-> <<e.env[order[i]], base + i - 1>>]
      env == [n \in known |->
                IF n \in Range(order)
                  THEN base - 1 + (CHOOSE i \in DOMAIN order : order[i] = n)
                ELSE IF n \in DOMAIN named THEN named[n] ELSE e.env[n]]
      rewrites == [k \in Range(e.env) |->
                          env[CHOOSE n \in known : e.env[n] = k]]
      cache == [x \in DOMAIN e.cache |-> Rewritten(e.cache[x], rewrites)]
  IN [e EXCEPT
        !.env = env,
        !.next = base + Len(order),
        !.tmpl = rewrite_fun_indices_in_node(
                   rekey_specializable_defs(@, rekeys), rewrites),
        !.cache = [x \in { y \in DOMAIN cache : cache[y] \in Range(named) } |-> cache[x]]]

(* For each function the line emitted, instances of templates included,    *)
(* its name gets the index of the last one of that name.                   *)
reconcile_visible_function_indices(e, chunk) ==
  LET named == Named(e.vm)
      visible == SelectSeq([i \in DOMAIN chunk |-> chunk[i].fn.name],
                           LAMBDA n : e.scope[n] # 0)
      again(i) == \E j \in 1..(i - 1) : visible[j] = visible[i]
      rekeys == [i \in DOMAIN visible |->
                   LET n == visible[i]
                   IN <<IF again(i) THEN named[n] ELSE e.env[n], named[n]>>]
      rewrites == [k \in { e.env[n] : n \in Range(visible) } |->
                           named[CHOOSE n \in Range(visible) : e.env[n] = k]]
  IN [e EXCEPT
        !.env = [n \in DOMAIN @ |-> IF n \in Range(visible) THEN named[n] ELSE @[n]],
        !.next = Max({@} \cup { named[n] + 1 : n \in Range(visible) }),
        !.tmpl = rewrite_fun_indices_in_node(
                   rekey_specializable_defs(@, rekeys), rewrites),
        !.cache = [x \in DOMAIN @ |-> Rewritten(@[x], rewrites)]]

(* sync_scar_fun_index_with_vm, then sync_repl_chunk_function_indices, for *)
(* an engine whose VM has executed the chunk.                              *)
Synced(e, chunk) ==
  reconcile_visible_function_indices(reconcile_function_indices(e), chunk)

-----------------------------------------------------------------------------
(* A stage that fails, for one of the reasons above or one of the data,    *)
(* rolls the three sessions back and reports.                              *)

StageFails ==
  /\ pc \in {"parsed", "resolved", "typed"}
  /\ Reported(RolledBack(eng), FALSE)

(* Execution.  The VM takes the chunk when it has run; a failing chunk     *)
(* leaves the VM as it was.                                                *)
Executed == [eng EXCEPT !.vm = eng.forge]
Chunk == SubSeq(eng.forge, Len(eng.vm) + 1, Len(eng.forge))

RuntimeFails ==
  /\ pc = "emitted"
  /\ Reported(RolledBack(eng), TRUE)

(* The chunk ran, its Result could not be inspected: the sessions go back, *)
(* the VM does not, and the REPL ends.                                     *)
InspectFails ==
  /\ pc = "emitted"
  /\ Reported(RolledBack(Executed), TRUE)

(* The chunk ran and its value is an error, or could not be rendered: its  *)
(* functions stay, nothing is recorded.                                    *)
MainError ==
  /\ pc = "emitted"
  /\ Reported(Synced(Executed, Chunk), FALSE)

RenderFails ==
  /\ pc = "emitted"
  /\ Reported(Synced(Executed, Chunk), TRUE)

Commit ==
  LET c == work.line IN
  /\ pc = "emitted"
  /\ Succeeded([Synced(Executed, Chunk) EXCEPT
       !.records = @ \cup Range(c.defs),
       !.replay = IF chunk_is_replayable(c) THEN Append(@, c) ELSE @])

-----------------------------------------------------------------------------
(* The prompt.  Commands are only looked for when no incomplete input is   *)
(* held; the ones that only show something are left out.                   *)

Submit(c) ==
  /\ pc = "prompt" /\ lines < MaxLines
  /\ Begin(c)
  /\ lines' = lines + 1
  /\ UNCHANGED <<eng, old, mode, queue>>

(* Input that does not parse is held if it is incomplete, else dropped.    *)
Unparsed(incomplete) ==
  /\ pc = "prompt"
  /\ eng' = [eng EXCEPT !.pending = incomplete]
  /\ UNCHANGED <<old, mode, queue, pc, work, lines>>

(* :reload builds a new engine from the preload and, unless only the       *)
(* preload is wanted, feeds it the lines kept for it.                      *)
handle_reload(kind) ==
  /\ pc = "prompt" /\ ~ eng.pending /\ lines < MaxLines
  /\ eng' = Seed /\ old' = eng /\ mode' = kind
  /\ queue' = IF kind = "all" THEN Script \o eng.replay ELSE Script
  /\ pc' = "input" /\ lines' = lines + 1
  /\ UNCHANGED work

Quit ==
  /\ pc = "prompt" /\ ~ eng.pending
  /\ pc' = "exited"
  /\ UNCHANGED <<eng, old, mode, queue, work, lines>>

(* The loops over the script's statements and over the lines to replay.    *)
NextInput ==
  /\ pc = "input"
  /\ \/ /\ queue # << >>
        /\ Begin(Head(queue)) /\ queue' = Tail(queue)
        /\ UNCHANGED <<old, mode>>
     \/ /\ queue = << >>
        /\ mode' = "live" /\ old' = Nothing /\ pc' = "prompt"
        /\ UNCHANGED <<queue, work>>
  /\ UNCHANGED <<eng, lines>>

LineStep ==
  \/ NextInput \/ StageFails \/ RuntimeFails \/ InspectFails
  \/ resolve \/ typecheck \/ codegen_chunk_repl_result
  \/ MainError \/ RenderFails \/ Commit

Next ==
  \/ LineStep
  \/ \E c \in Lines : Submit(c)
  \/ \E incomplete \in BOOLEAN : Unparsed(incomplete)
  \/ \E kind \in {"all", "defs"} : handle_reload(kind)
  \/ Quit

Spec == Init /\ [][Next]_vars

-----------------------------------------------------------------------------
(* Properties.                                                             *)

Reaches(table, k, wants) ==
  IF wants = Nothing THEN k = 0 ELSE k \in DOMAIN table /\ table[k].fn = wants

AllReach(table) ==
  \A i \in DOMAIN table : Reaches(table, table[i].callee, table[i].wants)

(* Renumbering never crosses calls: every function in the VM, whichever    *)
(* lines were rolled back, failed after running or came between, calls the *)
(* very definition it was written against, also when that has since been   *)
(* shadowed and defined anew; so does the code of the line about to run;   *)
(* and what Scar hands to Forge can always be resolved.                    *)
CallsReach ==
  /\ AllReach(eng.vm)
  /\ pc = "typed" =>
       /\ DOMAIN work.emit \cap 1..Len(eng.forge) = {}
       /\ \A k \in CallsOf(work) : Resolvable(k)
  /\ pc = "emitted" =>
       /\ AllReach(eng.forge)
       /\ \A i \in DOMAIN work.main :
            Reaches(eng.forge, work.main[i].callee, work.main[i].wants)

(* At the prompt the four sessions agree: Forge and the VM have the same   *)
(* functions, every name in scope is known to Scar by the index of its     *)
(* latest definition (a VM function, or a template whose own call is good),*)
(* and no two names share an index.                                        *)
SessionsAgree ==
  pc = "prompt" =>
    /\ eng.forge = eng.vm
    /\ \A n \in Names : eng.scope[n] # 0 => n \in DOMAIN eng.env /\
         LET k == eng.env[n] IN
         /\ n \in Mono => Reaches(eng.vm, k, Fn(n, eng.scope[n], NoType))
         /\ n \in Generic =>
              /\ k \in DOMAIN eng.tmpl
              /\ eng.tmpl[k].fn = Fn(n, eng.scope[n], AnyType)
              /\ LET w == eng.tmpl[k].wants IN
                 IF w # Nothing /\ w.ty = AnyType
                   THEN Reaches(eng.tmpl, eng.tmpl[k].callee, w)
                   ELSE Reaches(eng.vm, eng.tmpl[k].callee, w)
    /\ IsInjective(eng.env)

Restored == eng' = old
Rebuilt ==
  /\ pc = "input" /\ eng' = eng
  /\ eng.replay = IF mode = "all" THEN old.replay ELSE << >>
  /\ eng.records = UNION { Range(c.defs) : c \in Range(eng.replay) }
  /\ \A n \in eng.records : eng.scope[n] # 0

(* A reload that completes has an engine with exactly the definitions that *)
(* were kept for it, each in scope; one that does not complete leaves the  *)
(* old engine as it was.                                                   *)
ReloadRebuilds ==
  [][(mode \in {"all", "defs"} /\ mode' = "live") => (Restored \/ Rebuilt)]_vars

(* "Keep the outer scope at the most recent declaration, so forward        *)
(* references resolve to the latest top-level definition": each statement  *)
(* of a line calls the definition its name denotes.                        *)
UsesReachLatest ==
  pc = "emitted" => \A i \in DOMAIN work.main :
    Reaches(eng.forge, work.main[i].callee, work.main[i].wants)
=============================================================================
