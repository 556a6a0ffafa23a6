------------------------------ MODULE WorkerPool ------------------------------
(***************************************************************************)
(* Worker sets and supervisors of the Eldr process runtime, on top of what *)
(* ProcessContract promises of each process.  A worker set is created one  *)
(* init callback at a time, hands out its accepting members round robin,   *)
(* drops a member when that process is reclaimed and refills itself with a *)
(* detached task whose init callbacks interleave with everything else.     *)
(* Supervisors keep a table of children, which an adoption rewrites.       *)
(***************************************************************************)
EXTENDS ProcessContract, Integers, Sequences

CONSTANTS
  Workers,     \* ids of worker sets (next_workers_id)
  Supervisor,  \* supervisor names
  Adopters,    \* supervisors whose policy has allow_adopt
  Strategies,  \* WorkerStrategy values user code passes, legal or not
  NoSupervisor

ASSUME PoolAssumption ==
  /\ Adopters \subseteq Supervisor
  /\ NoSupervisor \notin Supervisor
  /\ Strategies \subseteq [init : Int, min : Int, max : Int, fix : Int]

VARIABLES
  sink,       \* lifecycle_sink of each process
  children,   \* child_table of the root supervisor
  held,       \* pids and leases that user code holds
  phase,      \* of each worker set: not created, being created, registered, given up
  owner,      \* supervisor_name of each worker set
  target,     \* its target size
  members,    \* its members, in order (of a creation: the workers made so far)
  nextIndex,  \* its round robin cursor, from 0
  picked,     \* the last worker it handed out (history)
  refilling,  \* refilling_worker_sets
  starting,   \* its refill tasks that have not been resumed yet
  initing,    \* its refill tasks that wait for an init callback
  failed,     \* sets whose last refill failed (history)
  cast        \* the last broadcast: its queue, whether it waits for an answer, and
              \* (history) the set it goes to and the pids it has asked

setVars == <<phase, owner, target, members, nextIndex, refilling, starting, initing, failed>>
poolVars == <<sink, children, held, setVars, picked, cast>>
vars == <<contractVars, poolVars>>

Live(p) == status[p] \in {"Accepting", "Stopping"}
Phases == {"Unused", "Building", "Ready", "Failed"}
NoCast == [asked |-> <<>>, queue |-> <<>>, waiting |-> FALSE, to |-> {}]

PoolTypeOK ==
  /\ ContractTypeOK
  /\ sink \in [Pid -> Supervisor \cup {NoSupervisor}]
  /\ children \in [Supervisor -> SUBSET Pid]
  /\ held \in SUBSET Pid
  /\ phase \in [Workers -> Phases]
  /\ owner \in [Workers -> Supervisor \cup {NoSupervisor}]
  /\ target \in [Workers -> Nat]
  /\ members \in [Workers -> Seq(Pid)]
  /\ nextIndex \in [Workers -> Nat]
  /\ picked \in [Workers -> SUBSET Pid]
  /\ refilling \in SUBSET Workers
  /\ failed \in SUBSET Workers
  /\ starting \in [Workers -> Nat]
  /\ initing \in [Workers -> Nat]
  /\ cast \in [asked : Seq(Pid), queue : Seq(Pid), waiting : BOOLEAN,
             to : SUBSET Workers]

PoolInit ==
  /\ ContractInit
  /\ sink = [p \in Pid |-> NoSupervisor]
  /\ children = [s \in Supervisor |-> {}]
  /\ held = {}
  /\ phase = [w \in Workers |-> "Unused"]
  /\ owner = [w \in Workers |-> NoSupervisor]
  /\ target = [w \in Workers |-> 0]
  /\ members = [w \in Workers |-> <<>>]
  /\ nextIndex = [w \in Workers |-> 0]
  /\ picked = [w \in Workers |-> {}]
  /\ refilling = {}
  /\ failed = {}
  /\ starting = [w \in Workers |-> 0]
  /\ initing = [w \in Workers |-> 0]
  /\ cast = NoCast

-----------------------------------------------------------------------------
(* Supervisors.                                                            *)

\* allocate_supervised_worker: the init callback has returned a state.
NewWorker(p, s) ==
  /\ Allocate(p)
  /\ sink' = [sink EXCEPT ![p] = s]
  /\ children' = [children EXCEPT ![s] = @ \cup {p}]

\* start_supervisor_spawn, start_process_spawn: the caller gets the pid.
SpawnWorker(p, s) ==
  /\ NewWorker(p, s)
  /\ held' = held \cup {p}
  /\ UNCHANGED <<setVars, picked, cast>>

\* Mutant: the worker stays with its old supervisor too.
AdoptTwice(p, s) ==
  /\ p \in held /\ s \in Adopters /\ status[p] = "Accepting"
  /\ sink' = [sink EXCEPT ![p] = s]
  /\ children' = [children EXCEPT ![s] = @ \cup {p}]
  /\ UNCHANGED <<contractVars, held, setVars, picked, cast>>

\* supervisor_adopt, when the policy and the worker allow it.
Adopt(p, s) ==
  /\ p \in held /\ s \in Adopters /\ status[p] = "Accepting"
  /\ sink' = [sink EXCEPT ![p] = s]
  /\ children' = [t \in Supervisor |-> IF t = s THEN children[t] \cup {p}
                                       ELSE children[t] \ (IF t = sink[p] THEN {p} ELSE {})]
  /\ UNCHANGED <<contractVars, held, setVars, picked, cast>>

-----------------------------------------------------------------------------
(* Creating a worker set.                                                  *)

\* start_supervisor_workers rejects every other strategy with an Err.
Valid(st) == st.init = st.fix /\ 0 <= st.min /\ st.min <= st.fix /\ st.fix <= st.max

\* The continuation starts: a target of 0 registers the set at once.
StartWorkers(w, s, st) ==
  /\ phase[w] = "Unused"
  /\ Valid(st)
  /\ phase' = [phase EXCEPT ![w] = IF st.fix = 0 THEN "Ready" ELSE "Building"]
  /\ owner' = [owner EXCEPT ![w] = s]
  /\ target' = [target EXCEPT ![w] = st.fix]
  /\ UNCHANGED <<contractVars, sink, children, held, members, nextIndex, refilling,
                 starting, initing, failed, picked, cast>>

\* One more init callback has succeeded.
BuildOne(w, p) ==
  /\ phase[w] = "Building"
  /\ NewWorker(p, owner[w])
  /\ members' = [members EXCEPT ![w] = Append(@, p)]
  /\ phase' = [phase EXCEPT ![w] = IF Len(members[w]) + 1 < target[w] THEN @ ELSE "Ready"]
  /\ UNCHANGED <<held, owner, target, nextIndex, refilling, starting, initing, failed, picked, cast>>

\* An init callback has failed: the creator gets the error, and the workers
\* made so far stay behind as children of the supervisor.
BuildFail(w) ==
  /\ phase[w] = "Building"
  /\ phase' = [phase EXCEPT ![w] = "Failed"]
  /\ members' = [members EXCEPT ![w] = <<>>]
  /\ UNCHANGED <<contractVars, sink, children, held, owner, target, nextIndex, refilling,
                 starting, initing, failed, picked, cast>>

-----------------------------------------------------------------------------
(* Handing out members.                                                    *)

Accepting(p) == status[p] = "Accepting"

\* The position, from 1, that is k places after the cursor.
Slot(w, k) == ((nextIndex[w] + k) % Len(members[w])) + 1

\* k is the first offset from the cursor whose member accepts requests.
FirstAccepting(w, k) ==
  /\ k \in 0..(Len(members[w]) - 1)
  /\ Accepting(members[w][Slot(w, k)])
  /\ \A j \in 0..(k - 1) : ~ Accepting(members[w][Slot(w, j)])

\* Mutant: the cursor moves on, but the scan starts at the head of the list.
ReserveFromHead(w) ==
  /\ phase[w] = "Ready"
  /\ \E i \in DOMAIN members[w] :
       /\ Accepting(members[w][i]) /\ \A j \in 1..(i - 1) : ~ Accepting(members[w][j])
       /\ picked' = [picked EXCEPT ![w] = {members[w][i]}]
       /\ held' = held \cup {members[w][i]}
       /\ nextIndex' = [nextIndex EXCEPT ![w] = (@ + 1) % Len(members[w])]
  /\ UNCHANGED <<contractVars, sink, children, phase, owner, target, members, refilling,
                 starting, initing, failed, cast>>

\* next_workers_pid, for Workers::reserve and Workers::submit.  Neither has
\* started a request yet: the wrapper does, later, and may be refused.
Reserve(w) ==
  /\ phase[w] = "Ready"
  /\ \E k \in 0..(Len(members[w]) - 1) :
       /\ FirstAccepting(w, k)
       /\ picked' = [picked EXCEPT ![w] = {members[w][Slot(w, k)]}]
       /\ held' = held \cup {members[w][Slot(w, k)]}
       /\ nextIndex' = [nextIndex EXCEPT ![w] = Slot(w, k) % Len(members[w])]
  /\ UNCHANGED <<contractVars, sink, children, phase, owner, target, members, refilling,
                 starting, initing, failed, cast>>

\* The elements of s at the positions A, in the order of s (a singleton set).
Chosen(s, A) ==
  {[i \in DOMAIN at |-> s[at[i]]] :
     at \in {f \in [1..Cardinality(A) -> A] : \A i, j \in DOMAIN f : i < j => f[i] < f[j]}}

AcceptingPositions(w) == {i \in DOMAIN members[w] : Accepting(members[w][i])}

\* start_workers_broadcast enumerates the members that accept requests now.
Broadcast(w) ==
  /\ phase[w] = "Ready"
  /\ cast.queue = <<>> /\ ~ cast.waiting
  /\ \E now \in Chosen(members[w], AcceptingPositions(w)) :
       cast' = [asked |-> <<>>, queue |-> now, waiting |-> FALSE, to |-> {w}]
  /\ UNCHANGED <<contractVars, sink, children, held, setVars, picked>>

\* Mutant: the continuation keeps an index into the list and not its own copy.
BroadcastNextByIndex ==
  /\ cast.queue # <<>> /\ ~ cast.waiting
  /\ \E w \in cast.to :
       LET k == Len(cast.asked) + 1
           p == IF k <= Len(members[w]) THEN members[w][k] ELSE Head(cast.queue)
       IN /\ cast' = [cast EXCEPT !.asked = Append(@, p), !.queue = Tail(@), !.waiting = Accepting(p)]
          /\ IF Accepting(p) THEN \E r \in Request : Begin(r, p) ELSE UNCHANGED contractVars
  /\ UNCHANGED <<sink, children, held, setVars, picked>>

\* The Broadcast continuation asks the next target.  One that has stopped
\* since answers at once, with ProcessStopped.
BroadcastNext ==
  /\ cast.queue # <<>> /\ ~ cast.waiting
  /\ LET p == Head(cast.queue)
     IN /\ cast' = [asked |-> Append(cast.asked, p), queue |-> Tail(cast.queue),
                    waiting |-> Accepting(p), to |-> cast.to]
        /\ IF Accepting(p) THEN \E r \in Request : Begin(r, p) ELSE UNCHANGED contractVars
  /\ UNCHANGED <<sink, children, held, setVars, picked>>

\* Its reply, its timeout or the end of its process resumes the broadcast.
BroadcastAnswer ==
  /\ cast.waiting
  /\ cast' = [cast EXCEPT !.waiting = FALSE]
  /\ UNCHANGED <<contractVars, sink, children, held, setVars, picked>>

\* A request that user code makes through a pid or a lease it holds.
BeginRequest(r, p) ==
  /\ p \in held
  /\ Begin(r, p)
  /\ UNCHANGED poolVars

\* A handler asks for the end of its process: the membership stays.
Stop(r, p) == RequestStop(r, p) /\ UNCHANGED poolVars

-----------------------------------------------------------------------------
(* Losing and replacing members.                                           *)

\* Vec::retain on a list in which p occurs at most once.
Without(s, p) ==
  IF \E i \in DOMAIN s : s[i] = p
  THEN LET k == CHOOSE i \in DOMAIN s : s[i] = p
       IN [i \in 1..(Len(s) - 1) |-> s[IF i < k THEN i ELSE i + 1]]
  ELSE s

\* Mutant: a set that is being refilled is not looked at.
HasMemberIdle(w, p) ==
  phase[w] = "Ready" /\ w \notin refilling /\ \E i \in DOMAIN members[w] : members[w][i] = p

HasMember(w, p) == phase[w] = "Ready" /\ \E i \in DOMAIN members[w] : members[w][i] = p

\* Mutant: nobody checks that a refill is already running.
DepletedAgain(p) ==
  {w \in Workers : HasMember(w, p) /\ Len(members[w]) <= target[w]}

\* The sets that losing p leaves below target and that no task refills yet.
Depleted(p) ==
  {w \in Workers : HasMember(w, p) /\ Len(members[w]) <= target[w] /\ w \notin refilling}

\* The supervisor and worker set parts of reclaim_stopped_process
\* (remove_supervisor_child, remove_worker_from_sets, refill_worker_set).
Leave(p) ==
  /\ children' = [s \in Supervisor |-> IF s = sink[p] THEN children[s] \ {p} ELSE children[s]]
  /\ sink' = [sink EXCEPT ![p] = NoSupervisor]
  /\ members' = [w \in Workers |-> IF HasMember(w, p) THEN Without(members[w], p) ELSE members[w]]
  /\ nextIndex' = [w \in Workers |->
                     IF phase[w] = "Ready" /\ nextIndex[w] >= Len(members'[w]) THEN 0
                     ELSE nextIndex[w]]
  /\ refilling' = refilling \cup Depleted(p)
  /\ starting' = [w \in Workers |-> IF w \in Depleted(p) THEN starting[w] + 1 ELSE starting[w]]
  /\ failed' = failed \ Depleted(p)
  /\ UNCHANGED <<held, phase, owner, target, initing, picked, cast>>

\* A request ends, or fails and takes its process down; the last one of a
\* closing process reclaims it.
End(r, p) ==
  /\ Finish(r, p) \/ Crash(r, p)
  /\ IF status'[p] = "Stopped" THEN Leave(p) ELSE UNCHANGED poolVars

\* start_worker_spawn for a refill task, beside others that wait: an init
\* callback is under way, or the handler bindings of the worker could not be
\* had, which ends the task with an error and leaves its flag set.
StartSpawn(w, others) ==
  /\ \/ initing' = [initing EXCEPT ![w] = others + 1] /\ UNCHANGED failed
     \/ initing' = [initing EXCEPT ![w] = others] /\ failed' = failed \cup {w}
  /\ UNCHANGED refilling

\* The refill task is resumed for the first time.
RefillStart(w) ==
  /\ starting[w] > 0
  /\ starting' = [starting EXCEPT ![w] = @ - 1]
  /\ IF Len(members[w]) >= target[w]
     THEN refilling' = refilling \ {w} /\ UNCHANGED <<initing, failed>>
     ELSE StartSpawn(w, initing[w])
  /\ UNCHANGED <<contractVars, sink, children, held, phase, owner, target, members, nextIndex,
                 picked, cast>>

\* Mutant: one worker is taken to be enough.
RefillOneOnly(w, p) ==
  /\ initing[w] > 0
  /\ NewWorker(p, owner[w])
  /\ members' = [members EXCEPT ![w] = Append(@, p)]
  /\ refilling' = refilling \ {w}
  /\ initing' = [initing EXCEPT ![w] = @ - 1]
  /\ UNCHANGED <<held, phase, owner, target, nextIndex, starting, failed, picked, cast>>

\* Its init callback has succeeded: the task goes on until the target is met,
\* whatever has left the set in the meantime.
RefillOne(w, p) ==
  /\ initing[w] > 0
  /\ NewWorker(p, owner[w])
  /\ members' = [members EXCEPT ![w] = Append(@, p)]
  /\ IF Len(members[w]) + 1 >= target[w]
     THEN /\ refilling' = refilling \ {w}
          /\ initing' = [initing EXCEPT ![w] = @ - 1]
          /\ UNCHANGED failed
     ELSE StartSpawn(w, initing[w] - 1)
  /\ UNCHANGED <<held, phase, owner, target, nextIndex, starting, picked, cast>>

\* Its init callback trapped: the task ends and clears its flag.
RefillTrap(w) ==
  /\ initing[w] > 0
  /\ refilling' = refilling \ {w}
  /\ initing' = [initing EXCEPT ![w] = @ - 1]
  /\ failed' = failed \cup {w}
  /\ UNCHANGED <<contractVars, sink, children, held, phase, owner, target, members, nextIndex,
                 starting, picked, cast>>

\* Its init callback returned an Err.  A standalone task has no call site, so
\* language_error_outcome fails, pid_handle_like_from_result leaves by "?" and
\* the line that would clear the flag is not reached.
RefillErr(w) ==
  /\ initing[w] > 0
  /\ initing' = [initing EXCEPT ![w] = @ - 1]
  /\ failed' = failed \cup {w}
  /\ UNCHANGED <<contractVars, sink, children, held, phase, owner, target, members, nextIndex,
                 refilling, starting, picked, cast>>

-----------------------------------------------------------------------------
PoolNext ==
  \/ \E p \in Pid, s \in Supervisor : SpawnWorker(p, s) \/ Adopt(p, s)
  \/ \E w \in Workers, s \in Supervisor, st \in Strategies : StartWorkers(w, s, st)
  \/ \E w \in Workers, p \in Pid : BuildOne(w, p) \/ RefillOne(w, p)
  \/ \E w \in Workers : BuildFail(w) \/ Reserve(w) \/ Broadcast(w)
  \/ \E w \in Workers : RefillStart(w) \/ RefillTrap(w) \/ RefillErr(w)
  \/ BroadcastNext \/ BroadcastAnswer
  \/ \E r \in Request, p \in Pid : BeginRequest(r, p) \/ Stop(r, p) \/ End(r, p)

PoolSpec == PoolInit /\ [][PoolNext]_vars

\* The driver resumes ready detached tasks, and init callbacks return: one
\* of the three outcomes of a refill's init happens.
Refilled(w) ==
  RefillStart(w) \/ RefillTrap(w) \/ RefillErr(w) \/ \E p \in Pid : RefillOne(w, p)

FairPoolSpec == PoolSpec /\ \A w \in Workers : WF_vars(Refilled(w))

-----------------------------------------------------------------------------
(* Every member of a registered set has a body and is listed once, in one  *)
(* set: next_workers_pid and start_workers_broadcast never run into their  *)
(* "is not registered" errors, however stops, refills and creations mix.   *)
MembersAreLive ==
  \A w \in Workers : \A i \in DOMAIN members[w] :
    /\ Live(members[w][i])
    /\ \A v \in Workers : \A j \in DOMAIN members[v] :
          members[v][j] = members[w][i] => v = w /\ j = i

(* A set never holds more than its target, a stopping member included, has *)
(* at most one refill task, and holds less only while it has one or after  *)
(* that task has failed.  The flag in refilling_worker_sets alone would    *)
(* not do: it outlives a task whose init returned an Err.                  *)
TargetKept ==
  \A w \in Workers : phase[w] = "Ready" =>
    /\ Len(members[w]) <= target[w]
    /\ starting[w] + initing[w] <= 1
    /\ Len(members[w]) < target[w] => starting[w] + initing[w] = 1 \/ w \in failed

(* The child table is exact: a process is a child of its lifecycle sink    *)
(* and of no other supervisor, from its allocation until its body is       *)
(* reclaimed, adoptions included.                                          *)
ChildTableExact ==
  \A p \in Pid, s \in Supervisor : p \in children[s] <=> Live(p) /\ sink[p] = s

(* The targets a broadcast noted at its start stay right while the set     *)
(* changes under it: each is listed once and is still a member or has been *)
(* reclaimed (asking it is refused), and no accepting member is passed     *)
(* over for a later one: whoever stands before a target in the list is a   *)
(* target itself, with an earlier turn.  Only workers that a refill has    *)
(* added behind all targets are left out.                                  *)
BroadcastCovers ==
  \A w \in cast.to :
    LET turn == cast.asked \o cast.queue
    IN /\ \A i, j \in DOMAIN turn : turn[i] = turn[j] => i = j
       /\ \A i \in DOMAIN turn :
            status[turn[i]] = "Stopped" \/ \E k \in DOMAIN members[w] : members[w][k] = turn[i]
       /\ \A k, l \in DOMAIN members[w], j \in DOMAIN turn :
            k < l /\ turn[j] = members[w][l] /\ Accepting(members[w][k])
              => \E i \in 1..(j - 1) : turn[i] = members[w][k]

(* Under the refill task's own fairness a set below target is brought back *)
(* to it unless its refill fails (or the model has no process ids left).   *)
(* A set whose refill trapped gets a new one with the next member it       *)
(* loses; one whose refill met an Err stays in failed, since Leave finds   *)
(* its flag set and starts no other task.                                  *)
TargetRestored ==
  \A w \in Workers :
    (phase[w] = "Ready" /\ Len(members[w]) < target[w])
      ~> (Len(members[w]) = target[w] \/ w \in failed \/ \A p \in Pid : status[p] # "Unborn")

(* While a set keeps being asked for workers, a member that goes on        *)
(* accepting requests is handed out: removals shift the cursor past it     *)
(* only finitely often, since new workers join behind it.                  *)
EveryMemberInTurn ==
  \A w \in Workers, p \in Pid :
    []<><<Reserve(w)>>_vars =>
      []((\E i \in DOMAIN members[w] : members[w][i] = p) =>
           <>(picked[w] = {p} \/ ~ Accepting(p)))
=============================================================================
