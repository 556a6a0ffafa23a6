-------------------------- MODULE HandlerBindings ---------------------------
(***************************************************************************)
(* File output handlers of processes and tasks                             *)
(* (crates/eldr/src/vm/handler_bindings.rs and its users in vm.rs and      *)
(* process_continuation.rs).  A file is opened once and shared: a sink.    *)
(* Processes, tasks and accepted writes own sinks through counted binding  *)
(* contexts; the descriptor is closed when the last context that names it  *)
(* goes.  Writes to a sink are queued.                                     *)
(*                                                                         *)
(* The registry is part of the process runtime and is rolled back with it, *)
(* the leases on descriptors (active_file_sinks) and the identity counters *)
(* are not.  An error that leaves the driver of the tasks fails the chunk  *)
(* in the foreground, or is only reported when the REPL pumps in the       *)
(* background.                                                             *)
(***************************************************************************)
EXTENDS Naturals, FiniteSets, Sequences, SequencesExt

CONSTANTS
  Paths,        \* canonical paths
  Procs,        \* processes
  HandlersOf,   \* the paths a process declares, in slot order
  MaxSinks, MaxContexts, MaxTasks, MaxChunks,   \* bounds on identities and chunks
  NoProc, NoRequest, NoCheckpoint

ASSUME HandlerAssumption ==
  /\ IsFiniteSet(Procs) /\ NoProc \notin Procs
  /\ {MaxSinks, MaxContexts, MaxTasks, MaxChunks} \subseteq Nat
  /\ HandlersOf \in [Procs -> Seq(Paths)]
  /\ \A p \in Procs : IsInjective(HandlersOf[p])

Sinks == 1..MaxSinks
Contexts == 1..MaxContexts
Tasks == 1..MaxTasks       \* independent tasks and handler executions
Fg == 0                    \* the chunk in the foreground
Callers == Tasks \cup {Fg}

VARIABLES
  rt,         \* the registry with its owners: what a checkpoint saves
  active,     \* active_file_sinks: sinks whose descriptor is open
  pathOf,     \* the path of every sink created so far; HandlerIds.binding is its length
  contexts,   \* HandlerIds.context
  stack,      \* failed executions that wait for the rest of their process
  saved,      \* the checkpoint of the running chunk
  chunks      \* chunks pushed so far

vars == <<rt, active, pathOf, contexts, stack, saved, chunks>>

Idle == [state |-> "off", ctx |-> 0, owner |-> NoProc]
Absent == [state |-> "none", ctx |-> 0, by |-> Fg]

Init ==
  /\ rt = [refs   |-> [c \in Contexts |-> 0],   \* 0: no such context
           sinks  |-> [c \in Contexts |-> {}],
           count  |-> [s \in Sinks |-> 0],      \* file_contexts
           target |-> [f \in Paths |-> 0],      \* by_target, 0: none
           queue  |-> [s \in Sinks |-> <<>>],
           req    |-> [c \in Callers |-> NoRequest],
           proc   |-> [p \in Procs |-> Absent],
           task   |-> [t \in Tasks |-> Idle],
           tasks  |-> 0,                        \* next_detached_task_id
           lost   |-> [c \in Contexts |-> 0]]   \* references nobody will release
  /\ active = {}
  /\ pathOf = <<>>
  /\ contexts = 0
  /\ stack = <<>>
  /\ saved = NoCheckpoint
  /\ chunks = 0

InChunk == saved # NoCheckpoint

-----------------------------------------------------------------------------
(* Contexts *)

Retain(r, c) == IF c = 0 THEN r ELSE [r EXCEPT !.refs[c] = @ + 1]

\* HandlerState::release: the last reference to a context gives up its sinks.
Release(r, c) ==
  IF c = 0 THEN r
  ELSE LET given == IF r.refs[c] > 1 THEN {} ELSE r.sinks[c]
           left == [s \in Sinks |-> IF s \in given THEN r.count[s] - 1 ELSE r.count[s]]
       IN [r EXCEPT !.refs[c] = @ - 1, !.sinks[c] = @ \ given, !.count = left,
                    !.target = [f \in Paths |->
                                  IF @[f] \in given /\ left[@[f]] = 0 THEN 0 ELSE @[f]]]

\* A context with one reference that names the given sinks.
NewContext(r, c, sinks) ==
  [r EXCEPT !.refs[c] = 1, !.sinks[c] = sinks,
            !.count = [s \in Sinks |-> IF s \in sinks THEN @[s] + 1 ELSE @[s]]]

\* Sinks of which the last owner left between two registries.
Closed(r) == {s \in Sinks : rt.count[s] > 0 /\ r.count[s] = 0}

\* Mutant: a rollback restores the registry and reopens nothing.
EscapeKeepsClosed(r, act) ==
  /\ IF InChunk
       THEN rt' = saved.rt /\ active' = saved.active \cap active
       ELSE rt' = r /\ active' = act
  /\ stack' = <<>>
  /\ saved' = NoCheckpoint
  /\ UNCHANGED <<pathOf, contexts, chunks>>

\* An error leaves drive_ready_detached_tasks.  A chunk restores the registry
\* and takes the saved descriptors back; in the background the executions that
\* were waiting in outer drives are dropped with what they hold.
Escape(r, act) ==
  /\ IF InChunk
       THEN rt' = saved.rt /\ active' = saved.active
       ELSE /\ rt' = [r EXCEPT !.task = [t \in Tasks |->
                                 IF t \in ToSet(stack) THEN Idle ELSE @[t]],
                               !.lost = [c \in Contexts |-> @[c] +
                                 Cardinality({t \in ToSet(stack) : r.task[t].ctx = c})]]
            /\ active' = act
  /\ stack' = <<>>
  /\ saved' = NoCheckpoint
  /\ UNCHANGED <<pathOf, contexts, chunks>>

Continue(r) ==
  /\ rt' = r
  /\ active' = active \ Closed(r)
  /\ UNCHANGED <<pathOf, contexts, stack, saved, chunks>>

\* A release that closes a descriptor flushes it, which may fail.  In the
\* driver the failure escapes; in running code it is an error of that code.
Settle(r) ==
  \/ Continue(r)
  \/ Closed(r) # {} /\ Escape(r, active \ Closed(r))

-----------------------------------------------------------------------------
(* Processes *)

\* A caller can run code: the chunk, unless a failed execution is being waited
\* for, or a task.
Runs(c) ==
  /\ rt.req[c] = NoRequest
  /\ IF c = Fg THEN InChunk /\ stack = <<>> ELSE rt.task[c].state = "run"

\* The process whose init the caller runs; an init spawns nothing itself.
Spawning(r, c) == {p \in Procs : r.proc[p].state = "init" /\ r.proc[p].by = c}
Free(c) == Runs(c) /\ Spawning(rt, c) = {}

\* current_handler_bindings of a caller.
Bindings(c) ==
  IF Spawning(rt, c) # {} THEN rt.proc[CHOOSE p \in Spawning(rt, c) : TRUE].ctx
  ELSE IF c = Fg THEN 0 ELSE rt.task[c].ctx

\* The files an acquisition has to open.
Missing(p) == SelectSeq(HandlersOf[p], LAMBDA f : rt.target[f] = 0)

\* HandlerState::acquire for p; then its init runs with the bindings.
Spawn(p, by) ==
  LET new == Missing(p)
      files == ToSet(HandlersOf[p])
      id(f) == IF rt.target[f] # 0 THEN rt.target[f]
               ELSE Len(pathOf) + CHOOSE i \in DOMAIN new : new[i] = f
      owned == {id(f) : f \in files}
      c == contexts + 1
      r == [rt EXCEPT !.target = [f \in Paths |-> IF f \in files THEN id(f) ELSE @[f]],
                      !.proc[p] = [state |-> "init", ctx |-> c, by |-> by]]
  IN /\ rt.proc[p].state = "none" /\ Free(by)
     /\ Len(pathOf \o new) <= MaxSinks /\ c <= MaxContexts
     /\ rt' = NewContext(r, c, owned)
     /\ active' = active \cup owned
     /\ pathOf' = pathOf \o new
     /\ contexts' = c
     /\ UNCHANGED <<stack, saved, chunks>>

\* The k-th file that has to be opened cannot be: those opened before it are
\* closed again, only identities are spent.
SpawnFails(p, by) ==
  \E k \in DOMAIN Missing(p) :
    /\ rt.proc[p].state = "none" /\ Free(by)
    /\ Len(pathOf) + k <= MaxSinks /\ contexts < MaxContexts
    /\ pathOf' = pathOf \o SubSeq(Missing(p), 1, k)
    /\ contexts' = contexts + 1
    /\ UNCHANGED <<rt, active, stack, saved, chunks>>

\* SpawnInit::resume: the process takes the context over, or it is released.
InitOk(p) ==
  /\ rt.proc[p].state = "init" /\ Runs(rt.proc[p].by)
  /\ Continue([rt EXCEPT !.proc[p].state = "live"])

\* Mutant: the context of a failed init is forgotten.
AbandonInitKeeps(r, c) ==
  [r EXCEPT !.proc = [p \in Procs |-> IF p \in Spawning(r, c) THEN Absent ELSE @[p]]]

\* Also on the way of an error or a cancellation through the caller.
AbandonInit(r, c) ==
  IF Spawning(r, c) = {} THEN r
  ELSE LET p == CHOOSE p \in Spawning(r, c) : TRUE
       IN Release([r EXCEPT !.proc[p] = Absent], r.proc[p].ctx)

InitErr(c) == Runs(c) /\ ~Free(c) /\ Continue(AbandonInit(rt, c))

Executions(r, p) == {t \in Tasks : r.task[t].owner = p /\ r.task[t].state \in {"run", "cancel"}}

\* reclaim_stopped_process, when no execution is left.
Reclaim(r, p) ==
  IF p # NoProc /\ r.proc[p].state = "stopping" /\ Executions(r, p) = {}
    THEN Release([r EXCEPT !.proc[p] = Absent], r.proc[p].ctx)
    ELSE r

Stop(p) ==
  /\ rt.proc[p].state = "live" /\ \E c \in Callers : Runs(c)
  /\ Continue(Reclaim([rt EXCEPT !.proc[p].state = "stopping"], p))

-----------------------------------------------------------------------------
(* Tasks *)

\* A handler execution shares the context of its process.
StartExecution(p) ==
  LET t == rt.tasks + 1
      c == rt.proc[p].ctx
  IN /\ rt.proc[p].state = "live" /\ \E d \in Callers : Runs(d)
     /\ t <= MaxTasks
     /\ Continue(Retain([rt EXCEPT !.tasks = t,
                                   !.task[t] = [state |-> "run", ctx |-> c, owner |-> p]], c))

\* schedule_callback and derive: a task owns what its origin owns and the
\* handlers its closure captured; a closed one is refused.
StartTask(by, captured) ==
  LET t == rt.tasks + 1
      origin == Bindings(by)
      inherited == IF origin = 0 THEN {} ELSE rt.sinks[origin]
      owned == inherited \cup captured
      c == contexts + 1
      task(k) == [rt EXCEPT !.tasks = t,
                             !.task[t] = [state |-> "run", ctx |-> k, owner |-> NoProc]]
  IN /\ t <= MaxTasks /\ Runs(by) /\ captured \subseteq active
     /\ IF owned = inherited
          THEN Continue(Retain(task(origin), origin))
          ELSE /\ c <= MaxContexts
               /\ rt' = NewContext(task(c), c, owned)
               /\ contexts' = c
               /\ UNCHANGED <<active, pathOf, stack, saved, chunks>>

\* The task returns: its reference goes, then its execution ends.
EndTask(t) ==
  /\ Free(t)
  /\ Settle(Reclaim(Release([rt EXCEPT !.task[t] = Idle], rt.task[t].ctx), rt.task[t].owner))

\* The deadline of an independent task passes.
CancelTask(t) ==
  /\ rt.task[t].state = "run" /\ rt.task[t].owner = NoProc
  /\ Continue([rt EXCEPT !.task[t].state = "cancel"])

\* An error in an independent task.
TaskFails(t) ==
  /\ Runs(t) /\ rt.task[t].owner = NoProc
  /\ LET r == Release([AbandonInit(rt, t) EXCEPT !.task[t] = Idle], rt.task[t].ctx)
     IN Escape(r, active \ Closed(r))

\* An error in a handler: the process stops, its other executions are
\* cancelled, and the failed one keeps its reference until they are gone.
ExecutionFails(t) ==
  /\ Runs(t) /\ rt.task[t].owner # NoProc
  /\ LET p == rt.task[t].owner
         others == Executions(rt, p) \ {t}
         r == [AbandonInit(rt, t) EXCEPT
                         !.proc[p].state = "stopping",
                         !.task = [u \in Tasks |->
                           IF u = t THEN [@[u] EXCEPT !.state = "failed"]
                           ELSE IF u \in others THEN [@[u] EXCEPT !.state = "cancel"] ELSE @[u]]]
     IN /\ rt' = Reclaim(r, p)
        /\ active' = active \ Closed(rt')
        /\ stack' = Append(stack, t)
        /\ UNCHANGED <<pathOf, contexts, saved, chunks>>

\* The innermost failed execution has nothing left to wait for.
FailureLeaves ==
  /\ stack # <<>>
  /\ LET t == Last(stack)
         r == Release([rt EXCEPT !.task[t] = Idle], rt.task[t].ctx)
     IN /\ Executions(rt, rt.task[t].owner) = {}
        /\ Escape(r, active \ Closed(r))

-----------------------------------------------------------------------------
(* Writes *)

\* accept_file_write: the request owns the sink through a context of its own.
Accept(c, s) ==
  LET k == contexts + 1 IN
  /\ Runs(c) /\ s \in active /\ k <= MaxContexts
  /\ rt' = NewContext([rt EXCEPT !.req[c] = [sink |-> s, ctx |-> k, started |-> FALSE],
                                 !.queue[s] = Append(@, c)], k, {s})
  /\ contexts' = k
  /\ UNCHANGED <<active, pathOf, stack, saved, chunks>>

Driven(c) == rt.req[c] # NoRequest /\ (c = Fg => stack = <<>>)

\* resume_file_write of the request at the head of its queue.
BeginWrite(c) ==
  /\ Driven(c) /\ ~rt.req[c].started /\ Head(rt.queue[rt.req[c].sink]) = c
  /\ Continue([rt EXCEPT !.req[c].started = TRUE])

\* Mutant: the front of the queue goes, whoever it is.
DropFront(r, c) ==
  LET q == r.req[c] IN
  IF q = NoRequest THEN r
  ELSE Release([r EXCEPT !.req[c] = NoRequest, !.queue[q.sink] = Tail(@)], q.ctx)

\* remove_request and the release of its context.
Drop(r, c) ==
  LET q == r.req[c] IN
  IF q = NoRequest THEN r
  ELSE Release([r EXCEPT !.req[c] = NoRequest,
                         !.queue[q.sink] = SelectSeq(@, LAMBDA d : d # c)], q.ctx)

\* The bytes are written once the request has started, whether or not the
\* caller is still interested.
EndWrite(c) ==
  /\ Driven(c) /\ rt.req[c].started
  /\ c # Fg => rt.task[c].state = "run"
  /\ Continue(Drop(rt, c))

\* A cancelled task unwinds: its request ends, written if it had started, then
\* its reference goes.  A failed write or flush is kept for whoever waits for
\* an independent task; that of an execution escapes.
Unwind(t) ==
  /\ rt.task[t].state = "cancel"
  /\ LET p == rt.task[t].owner
         r == Reclaim(Release([AbandonInit(Drop(rt, t), t) EXCEPT !.task[t] = Idle], rt.task[t].ctx), p)
         written == rt.req[t] # NoRequest /\ rt.req[t].started
     IN \/ Continue(r)
        \/ p # NoProc /\ (written \/ Closed(r) # {}) /\ Escape(r, active \ Closed(r))

-----------------------------------------------------------------------------
(* The foreground *)

StartChunk ==
  /\ ~InChunk /\ stack = <<>> /\ chunks < MaxChunks
  /\ saved' = [rt |-> rt, active |-> active]
  /\ chunks' = chunks + 1
  /\ UNCHANGED <<rt, active, pathOf, contexts, stack>>

EndChunk ==
  /\ Free(Fg)
  /\ saved' = NoCheckpoint
  /\ UNCHANGED <<rt, active, pathOf, contexts, stack, chunks>>

FailChunk == Runs(Fg) /\ Escape(rt, active)

Next ==
  \/ StartChunk \/ EndChunk \/ FailChunk \/ FailureLeaves
  \/ \E p \in Procs :
       \/ \E by \in Callers : Spawn(p, by) \/ SpawnFails(p, by)
       \/ InitOk(p) \/ Stop(p) \/ StartExecution(p)
  \/ \E t \in Tasks :
       \/ EndTask(t) \/ CancelTask(t) \/ TaskFails(t) \/ ExecutionFails(t) \/ Unwind(t)
  \/ \E c \in Callers :
       \/ \E captured \in SUBSET (DOMAIN pathOf) : StartTask(c, captured)
       \/ \E s \in DOMAIN pathOf : Accept(c, s)
       \/ InitErr(c) \/ BeginWrite(c) \/ EndWrite(c)

Spec == Init /\ [][Next]_vars

-----------------------------------------------------------------------------
(* Properties *)

Owners(c) ==
  Cardinality({p \in Procs : rt.proc[p].ctx = c})
    + Cardinality({t \in Tasks : rt.task[t].ctx = c})
    + Cardinality({d \in Callers : rt.req[d] # NoRequest /\ rt.req[d].ctx = c})

\* Every reference to a context belongs to a process, a task or an accepted
\* write that has still to release it, or to a failed execution that an error
\* of another task cut off: across transfers from init to process, shared and
\* derived contexts, cancellation, failing handlers and rollback.
OwnersCounted == \A c \in Contexts : rt.refs[c] = Owners(c) + rt.lost[c]

\* A descriptor is open exactly while some context names its sink, and by_target
\* leads from the file to it exactly as long: a file is never open twice.
OpenWhileOwned ==
  \A s \in Sinks :
    /\ rt.count[s] = Cardinality({c \in Contexts : s \in rt.sinks[c]})
    /\ s \in active <=> rt.count[s] > 0
    /\ s \in active <=> s \in DOMAIN pathOf /\ rt.target[pathOf[s]] = s

\* The queue of a file holds exactly the callers that wait to write to it, each
\* once and never one that was cancelled or rolled back, the descriptor stays
\* open for them, and a write that has begun is not overtaken.
WritesInTurn ==
  /\ \A s \in Sinks :
       /\ IsInjective(rt.queue[s])
       /\ ToSet(rt.queue[s]) = {c \in Callers : rt.req[c] # NoRequest /\ rt.req[c].sink = s}
  /\ \A c \in Callers : rt.req[c] # NoRequest =>
       /\ rt.req[c].sink \in active
       /\ rt.req[c].started => Head(rt.queue[rt.req[c].sink]) = c

=============================================================================
