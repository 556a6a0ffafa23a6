-------------------------- MODULE ProcessLifecycle --------------------------
(***************************************************************************)
(* The execution half of Eldr's process runtime (crates/eldr/src/vm.rs and *)
(* vm/process_continuation.rs): every message to an Agent or GenServer is  *)
(* an execution record driven by a detached task; drive_ready_detached_    *)
(* tasks gives each ready task one quantum, in task-id order, over a       *)
(* snapshot of the ready ids; Stop, a failing handler and a cancelled      *)
(* caller race with executions that have already started.                  *)
(*                                                                         *)
(* The value of a process is abstracted to the execution that stored it    *)
(* (0: the value init returned).  Messages, replies and errors carry no    *)
(* data beyond what the properties tell apart.                             *)
(***************************************************************************)
EXTENDS Naturals, FiniteSets

CONSTANTS
  MaxPid,   \* bound on next_pid
  MaxExec,  \* bound on next_execution_id
  Clients   \* detached tasks that call processes (Task::launch and friends)

ASSUME BoundsAssumption ==
  /\ MaxPid \in Nat
  /\ MaxExec \in Nat

Pid == 1..MaxPid
ExecId == 1..MaxExec

\* A detached task, named by what its completion refers to.
ClientTask == {"client"} \X Clients
ExecTask == {"wrapper", "callback"} \X ExecId
ErrorTask == {"error"} \X ExecId
Task == ClientTask \cup ExecTask \cup ErrorTask
NoTask == <<"none", 0>>

Wrapper(e) == <<"wrapper", e>>
Callback(e) == <<"callback", e>>

VARIABLES
  \* ProcessInstance
  nextPid, status, reason, value,
  \* ProcessExecutionRecord
  nextExec, target, stage, read, outcome, finishes,
  \* FutureRecord of result_future
  reply,
  \* DetachedTask
  live, born, nextTask, wait, cancelling,
  \* drive_ready_detached_tasks
  todo, current, abort

procVars == <<nextPid, status, reason, value>>
execVars == <<nextExec, target, stage, read, outcome, finishes>>
taskVars == <<live, born, nextTask, wait, cancelling>>
vars == <<procVars, execVars, reply, taskVars, todo, current, abort>>

\* ProcessExecutionStage of a record in `executions`.
ActiveStage == {"Handling", "Postprocessing", "Callback"}
Active == {e \in ExecId : stage[e] \in ActiveStage}
ActiveOf(p) == {e \in Active : target[e] = p}

\* FutureState: "DownPending" is Running with error_generation_pending.
Settled == {"Value", "Down"}
ReplyState == {"None", "Running", "DownPending", "Forgotten"} \cup Settled

NoAbort == [pid |-> 0, replies |-> {}]

Init ==
  /\ nextPid = 1
  /\ status = [p \in Pid |-> "Unborn"]
  /\ reason = [p \in Pid |-> "None"]
  /\ value = [p \in Pid |-> 0]
  /\ nextExec = 1
  /\ target = [e \in ExecId |-> 0]
  /\ stage = [e \in ExecId |-> "Free"]
  /\ read = [e \in ExecId |-> FALSE]
  /\ outcome = [e \in ExecId |-> "None"]
  /\ finishes = [e \in ExecId |-> 0]
  /\ reply = [e \in ExecId |-> "None"]
  /\ live = {}
  /\ born = [n \in Task |-> 0]
  /\ nextTask = 1
  /\ wait = [n \in Task |-> 0]
  /\ cancelling = {}
  /\ todo = {}
  /\ current = NoTask
  /\ abort = NoAbort

TypeOK ==
  /\ nextPid \in 1..(MaxPid + 1)
  /\ status \in [Pid -> {"Unborn", "Accepting", "Stopping", "Stopped"}]
  /\ reason \in [Pid -> {"None", "Normal", "Error"}]
  /\ value \in [Pid -> 0..MaxExec]
  /\ nextExec \in 1..(MaxExec + 1)
  /\ target \in [ExecId -> 0..MaxPid]
  /\ stage \in [ExecId -> ActiveStage \cup {"Free", "Finished"}]
  /\ read \in [ExecId -> BOOLEAN]
  /\ outcome \in [ExecId -> {"None", "Stored", "Stop"}]
  /\ finishes \in [ExecId -> Nat]
  /\ reply \in [ExecId -> ReplyState]
  /\ live \in SUBSET Task
  /\ born \in [Task -> Nat]
  /\ nextTask \in Nat \ {0}
  /\ wait \in [Task -> 0..MaxExec]
  /\ cancelling \in SUBSET Task
  /\ todo \in SUBSET Task
  /\ current \in Task \cup {NoTask}
  /\ abort \in [pid : 0..MaxPid, replies : SUBSET ExecId]

-----------------------------------------------------------------------------
(* Detached tasks *)

\* register_runtime_task: the next id; ids are never reused.
Register(n) ==
  /\ live' = live \cup {n}
  /\ born' = [born EXCEPT ![n] = nextTask]
  /\ nextTask' = nextTask + 1

\* The task was taken from detached_tasks and is not put back.
Drop(n) ==
  /\ live' = live \ {n}
  /\ cancelling' = cancelling \ {n}
  /\ UNCHANGED <<born, nextTask>>

\* has_runnable_detached_tasks, and the filter that starts a round.
Ready ==
  {n \in live : n \in cancelling \/ wait[n] = 0 \/ reply[wait[n]] \in Settled}

\* The VM is between rounds; the host or the top-level code may act.
Idle == current = NoTask /\ todo = {}

IsNext(n) ==
  /\ current = NoTask
  /\ n \in todo
  /\ \A m \in todo : born[n] <= born[m]

\* ProcessAwait: the waiter forgets the future when it is resumed, with a
\* value or with the error that cancels it.
Forget(n) ==
  /\ reply' = IF wait[n] = 0 THEN reply ELSE [reply EXCEPT ![wait[n]] = "Forgotten"]
  /\ wait' = [wait EXCEPT ![n] = 0]

-----------------------------------------------------------------------------
(* Host and top-level steps, between rounds *)

\* The deadline of a client's completion future passes: the task is ready,
\* and its next turn cancels it (poll_runtime_deadlines runs whenever no
\* task does; task_completion_ready).
Timeout(c) ==
  /\ current = NoTask
  /\ <<"client", c>> \in live \ cancelling
  /\ cancelling' = cancelling \cup {<<"client", c>>}
  /\ UNCHANGED <<procVars, execVars, reply, live, born, nextTask, wait, todo, current, abort>>

\* Task::launch from the top-level code.
Launch(c) ==
  /\ Idle /\ abort = NoAbort
  /\ born[<<"client", c>>] = 0
  /\ Register(<<"client", c>>)
  /\ UNCHANGED <<procVars, execVars, reply, wait, cancelling, todo, current, abort>>

\* Mutant: the round also takes tasks whose future is not ready.
StartRoundUnfiltered ==
  /\ Idle /\ abort = NoAbort
  /\ Ready # {}
  /\ todo' = live
  /\ UNCHANGED <<procVars, execVars, reply, taskVars, current, abort>>

\* The set of ready tasks is fixed when the round starts.
StartRound ==
  /\ Idle /\ abort = NoAbort
  /\ Ready # {}
  /\ todo' = Ready
  /\ UNCHANGED <<procVars, execVars, reply, taskVars, current, abort>>

-----------------------------------------------------------------------------
(* Turns: take a task, run it, put it back *)

\* A wrapper whose record is already in stage Callback has nothing left to run.
Handed(n) == n[1] = "wrapper" /\ stage[n[2]] = "Callback"

TakeRunnable(n) ==
  /\ IsNext(n)
  /\ n \notin cancelling /\ wait[n] = 0 /\ ~ Handed(n)
  /\ current' = n
  /\ todo' = todo \ {n}
  /\ UNCHANGED <<procVars, execVars, reply, taskVars, abort>>

\* The awaited reply is there: the waiter consumes it.
TakeResumed(n) ==
  /\ IsNext(n)
  /\ n \notin cancelling /\ wait[n] # 0 /\ reply[wait[n]] \in Settled
  /\ Forget(n)
  /\ current' = n
  /\ todo' = todo \ {n}
  /\ UNCHANGED <<procVars, execVars, live, born, nextTask, cancelling, abort>>

\* QuantumExpired: the budget is checked after every step.
Yield(n) ==
  /\ current = n
  /\ current' = NoTask
  /\ UNCHANGED <<procVars, execVars, reply, taskVars, todo, abort>>

\* A wrapper halts on its own result_future after ReplyLater: it is dropped,
\* in the turn that registered the callback or in its next one.
DropHanded(n) ==
  /\ n \in ExecTask /\ Handed(n)
  /\ current = n \/ (IsNext(n) /\ n \notin cancelling)
  /\ Drop(n)
  /\ current' = NoTask
  /\ todo' = todo \ {n}
  /\ UNCHANGED <<procVars, execVars, reply, wait, abort>>

-----------------------------------------------------------------------------
(* What a running task does *)

\* Code the program's author wrote: a client, a handler, a callback.
UserCode(n) ==
  /\ current = n
  /\ n \notin ErrorTask
  /\ n[1] = "wrapper" => stage[n[2]] = "Handling" /\ read[n[2]]

\* allocate_process_instance
Spawn(n) ==
  /\ UserCode(n)
  /\ nextPid <= MaxPid
  /\ status' = [status EXCEPT ![nextPid] = "Accepting"]
  /\ nextPid' = nextPid + 1
  /\ UNCHANGED <<reason, value, execVars, reply, taskVars, todo, current, abort>>

\* Mutant: the execution allocator does not notice that it is exhausted.
CallUnbounded(n, p) ==
  /\ UserCode(n)
  /\ status[p] = "Accepting"
  /\ nextExec' = nextExec + 1
  /\ UNCHANGED <<procVars, target, stage, read, outcome, finishes, reply, taskVars, todo,
                 current, abort>>

\* start_process_execution_at: a new record and its wrapper task; the caller
\* waits for the reply.  A process that is stopping or stopped refuses with
\* ProcessStopped, which changes nothing here.
Call(n, p) ==
  /\ UserCode(n)
  /\ status[p] = "Accepting"
  /\ nextExec <= MaxExec
  /\ nextExec' = nextExec + 1
  /\ target' = [target EXCEPT ![nextExec] = p]
  /\ stage' = [stage EXCEPT ![nextExec] = "Handling"]
  /\ reply' = [reply EXCEPT ![nextExec] = "Running"]
  /\ Register(Wrapper(nextExec))
  /\ wait' = [wait EXCEPT ![n] = nextExec]
  /\ current' = NoTask
  /\ UNCHANGED <<procVars, read, outcome, finishes, cancelling, todo, abort>>

\* process_state: the snapshot taken when the record was made is consumed.
ReadState(e) ==
  /\ current = Wrapper(e)
  /\ stage[e] = "Handling" /\ ~ read[e]
  /\ read' = [read EXCEPT ![e] = TRUE]
  /\ UNCHANGED <<procVars, nextExec, target, stage, outcome, finishes, reply, taskVars,
                 todo, current, abort>>

\* process_postprocess
Postprocess(e) ==
  /\ current = Wrapper(e)
  /\ stage[e] = "Handling" /\ read[e]
  /\ stage' = [stage EXCEPT ![e] = "Postprocessing"]
  /\ UNCHANGED <<procVars, nextExec, target, read, outcome, finishes, reply, taskVars,
                 todo, current, abort>>

\* process_store, for Agent updates, Reply and Next.
Store(e) ==
  /\ current = Wrapper(e)
  /\ stage[e] = "Postprocessing" /\ outcome[e] = "None"
  /\ outcome' = [outcome EXCEPT ![e] = "Stored"]
  /\ value' = [value EXCEPT ![target[e]] = e]
  /\ UNCHANGED <<nextPid, status, reason, nextExec, target, stage, read, finishes, reply,
                 taskVars, todo, current, abort>>

\* genserver_call_reply_later: store, then a callback task that owns the reply.
ReplyLater(e) ==
  /\ current = Wrapper(e)
  /\ stage[e] = "Postprocessing" /\ outcome[e] = "None"
  /\ outcome' = [outcome EXCEPT ![e] = "Stored"]
  /\ value' = [value EXCEPT ![target[e]] = e]
  /\ stage' = [stage EXCEPT ![e] = "Callback"]
  /\ Register(Callback(e))
  /\ UNCHANGED <<nextPid, status, reason, nextExec, target, read, finishes, reply,
                 wait, cancelling, todo, current, abort>>

\* request_process_stop: the first reason stays.
RequestStop(e, why) ==
  /\ current = Wrapper(e)
  /\ stage[e] = "Postprocessing" /\ outcome[e] = "None"
  /\ outcome' = [outcome EXCEPT ![e] = "Stop"]
  /\ IF status[target[e]] = "Accepting"
       THEN /\ status' = [status EXCEPT ![target[e]] = "Stopping"]
            /\ reason' = [reason EXCEPT ![target[e]] = why]
       ELSE UNCHANGED <<status, reason>>
  /\ UNCHANGED <<nextPid, value, nextExec, target, stage, read, finishes, reply, taskVars,
                 todo, current, abort>>

-----------------------------------------------------------------------------
(* How a task ends *)

\* Mutant: a stopping process is reclaimed under its other executions.
FinishReclaimsEarly(e) ==
  /\ stage' = [stage EXCEPT ![e] = "Finished"]
  /\ finishes' = [finishes EXCEPT ![e] = @ + 1]
  /\ status' = [status EXCEPT ![target[e]] = IF @ = "Stopping" THEN "Stopped" ELSE @]

\* Mutant: the body of a stopping process is never reclaimed.
FinishNoReclaim(e) ==
  /\ stage' = [stage EXCEPT ![e] = "Finished"]
  /\ finishes' = [finishes EXCEPT ![e] = @ + 1]
  /\ UNCHANGED status

\* finish_process_execution: the record is removed, and the last one of a
\* stopping process takes the body with it (reclaim_stopped_process).
FinishExecution(e) ==
  /\ stage' = [stage EXCEPT ![e] = "Finished"]
  /\ finishes' = [finishes EXCEPT ![e] = @ + 1]
  /\ status' = [status EXCEPT ![target[e]] =
                  IF @ = "Stopping" /\ ActiveOf(target[e]) = {e} THEN "Stopped" ELSE @]

\* complete_runtime_task of a Process completion: a wrapper returns (possibly
\* early, with a language Err) or a callback does.
Complete(n, e) ==
  /\ current = n
  /\ \/ n = Callback(e)
     \/ n = Wrapper(e) /\ stage[e] # "Callback" /\ read[e]
  /\ FinishExecution(e)
  /\ reply' = [reply EXCEPT ![e] = IF @ = "Running" THEN "Value" ELSE @]
  /\ Drop(n)
  /\ current' = NoTask
  /\ UNCHANGED <<nextPid, reason, value, nextExec, target, read, outcome, wait, todo, abort>>

\* Mutant: the replies are marked, but nothing is registered to settle them.
ErrorTasksForgotten(dead) ==
  /\ live' = live \ {current}
  /\ UNCHANGED <<born, nextTask>>

\* schedule_future_error for the replies still running: one task each, that
\* makes the ProcessReplyTargetStopped value.
ErrorTasks(dead) ==
  /\ live' = (live \ {current}) \cup {<<"error", x>> : x \in dead}
  /\ born' = [m \in Task |->
                IF m \in ErrorTask /\ m[2] \in dead
                THEN nextTask + Cardinality({x \in dead : x < m[2]})
                ELSE born[m]]
  /\ nextTask' = nextTask + Cardinality(dead)

\* Mutant: the other executions of the process are left running.
OwnedTasksKept(n, p) == {}

\* remove_process_detached_tasks: the tasks of the process, cancelled in place.
OwnedTasks(n, p) == {m \in live \ {n} : m \in ExecTask /\ target[m[2]] = p}

\* A RuntimeError in a handler or a callback: abort_process_executions, then
\* finish_process_execution of the failed one, then the loop of AbortRound.
\* Every level of drive_ready_detached_tasks above is unwound by the error.
Fail(n, e) ==
  LET p == target[e]
      dead == {x \in ActiveOf(p) : reply[x] = "Running"}
  IN /\ n \in {Wrapper(e), Callback(e)}
     /\ UserCode(n)
     /\ stage' = [stage EXCEPT ![e] = "Finished"]
     /\ finishes' = [finishes EXCEPT ![e] = @ + 1]
     /\ status' = [status EXCEPT ![p] =
                     IF ActiveOf(p) = {e} THEN "Stopped" ELSE "Stopping"]
     /\ reply' = [x \in ExecId |-> IF x \in dead THEN "DownPending" ELSE reply[x]]
     /\ ErrorTasks(dead)
     /\ cancelling' = cancelling \cup OwnedTasks(n, p)
     /\ abort' = [pid |-> p, replies |-> ActiveOf(p)]
     /\ current' = NoTask
     /\ todo' = {}
     /\ UNCHANGED <<nextPid, reason, value, nextExec, target, read, outcome, wait>>

\* Mutant: the error is delivered to a reply that was given up.
CompleteErrorAnyway(e) ==
  /\ current = <<"error", e>>
  /\ reply' = [reply EXCEPT ![e] = "Down"]
  /\ Drop(current)
  /\ current' = NoTask
  /\ UNCHANGED <<procVars, execVars, wait, todo, abort>>

\* Mutant: the generated error is lost.
CompleteErrorLost(e) ==
  /\ current = <<"error", e>>
  /\ Drop(current)
  /\ current' = NoTask
  /\ UNCHANGED <<procVars, execVars, reply, wait, todo, abort>>

\* complete_runtime_task of an ErrorFuture completion.
CompleteError(e) ==
  /\ current = <<"error", e>>
  /\ reply' = [reply EXCEPT ![e] = IF @ = "DownPending" THEN "Down" ELSE @]
  /\ Drop(current)
  /\ current' = NoTask
  /\ UNCHANGED <<procVars, execVars, wait, todo, abort>>

\* A client returns.
Exit(n) ==
  /\ current = n /\ n \in ClientTask
  /\ Drop(n)
  /\ current' = NoTask
  /\ UNCHANGED <<procVars, execVars, reply, wait, todo, abort>>

\* A RuntimeError in a client ends every round that is being driven.
ClientFail(n) ==
  /\ current = n /\ n \in ClientTask
  /\ Drop(n)
  /\ current' = NoTask
  /\ todo' = {}
  /\ abort' = NoAbort
  /\ UNCHANGED <<procVars, execVars, reply, wait>>

\* The turn of a client that is being cancelled.
CancelClient(n) ==
  /\ IsNext(n) /\ n \in cancelling \cap ClientTask
  /\ Forget(n)
  /\ Drop(n)
  /\ todo' = todo \ {n}
  /\ UNCHANGED <<procVars, execVars, current, abort>>

\* Mutant: a cancelled execution is dropped without the common exit path.
CancelUnfinished(n, e) ==
  /\ IsNext(n) /\ n \in cancelling /\ n \in {Wrapper(e), Callback(e)}
  /\ e \in Active
  /\ Forget(n)
  /\ Drop(n)
  /\ todo' = todo \ {n}
  /\ UNCHANGED <<procVars, execVars, current, abort>>

\* The turn of a wrapper or callback that is being cancelled.
CancelExecution(n, e) ==
  /\ IsNext(n) /\ n \in cancelling /\ n \in {Wrapper(e), Callback(e)}
  /\ e \in Active
  /\ Forget(n)
  /\ Drop(n)
  /\ FinishExecution(e)
  /\ todo' = todo \ {n}
  /\ UNCHANGED <<nextPid, reason, value, nextExec, target, read, outcome, current, abort>>

\* The same turn when the record is already gone: finish_process_execution
\* reports "process execution finished twice or disappeared", which replaces
\* the error being handled.
CancelFinished(n, e) ==
  /\ IsNext(n) /\ n \in cancelling /\ n \in {Wrapper(e), Callback(e)}
  /\ e \notin Active
  /\ Forget(n)
  /\ Drop(n)
  /\ finishes' = [finishes EXCEPT ![e] = @ + 1]
  /\ todo' = {}
  /\ abort' = NoAbort
  /\ UNCHANGED <<procVars, nextExec, target, stage, read, outcome, current>>

-----------------------------------------------------------------------------
(* The loop that follows abort_process_executions *)

AbortPending ==
  \/ ActiveOf(abort.pid) # {}
  \/ \E x \in abort.replies : reply[x] = "DownPending"

\* An empty round here would be repeated forever (AbortNeverSpins).
AbortRound ==
  /\ Idle /\ abort # NoAbort /\ AbortPending
  /\ Ready # {}
  /\ todo' = Ready
  /\ UNCHANGED <<procVars, execVars, reply, taskVars, current, abort>>

\* The RuntimeError reaches the driver.
AbortDone ==
  /\ Idle /\ abort # NoAbort /\ ~ AbortPending
  /\ abort' = NoAbort
  /\ UNCHANGED <<procVars, execVars, reply, taskVars, todo, current>>

-----------------------------------------------------------------------------
ClientStep(c) ==
  LET n == <<"client", c>>
  IN Launch(c) \/ Timeout(c) \/ Exit(n) \/ ClientFail(n) \/ CancelClient(n)

ExecStep(e) ==
  \/ ReadState(e) \/ Postprocess(e) \/ Store(e) \/ ReplyLater(e)
  \/ \E why \in {"Normal", "Error"} : RequestStop(e, why)
  \/ DropHanded(Wrapper(e))
  \/ CompleteError(e)
  \/ \E n \in {Wrapper(e), Callback(e)} :
       Complete(n, e) \/ Fail(n, e) \/ CancelExecution(n, e) \/ CancelFinished(n, e)

TaskStep(n) ==
  \/ TakeRunnable(n) \/ TakeResumed(n) \/ Yield(n) \/ Spawn(n)
  \/ \E p \in Pid : Call(n, p)

Next ==
  \/ StartRound \/ AbortRound \/ AbortDone
  \/ \E c \in Clients : ClientStep(c)
  \/ \E e \in ExecId : ExecStep(e)
  \/ \E n \in Task : TaskStep(n)

Spec == Init /\ [][Next]_vars

\* What drive_ready_detached_tasks itself does: start rounds while something
\* is ready, give every scheduled task its turn, end the turn.
DriverStep ==
  \/ StartRound \/ AbortRound \/ AbortDone
  \/ \E n \in Task : TakeRunnable(n) \/ TakeResumed(n) \/ Yield(n)
  \/ \E n \in ClientTask : CancelClient(n)
  \/ \E e \in ExecId :
       \/ DropHanded(Wrapper(e))
       \/ \E n \in {Wrapper(e), Callback(e)} : CancelExecution(n, e) \/ CancelFinished(n, e)

\* The task gets on with its work.
Advance(n) ==
  \/ Exit(n)
  \/ \E e \in ExecId : \/ n = Wrapper(e) /\ ReadState(e)
                       \/ Complete(n, e)
                       \/ n = <<"error", e>> /\ CompleteError(e)

\* The driver is one thread that keeps running; handlers, callbacks and
\* clients return if they are given turns forever.
Fairness == WF_vars(DriverStep) /\ \A n \in Task : SF_vars(Advance(n))

FairSpec == Spec /\ Fairness

-----------------------------------------------------------------------------
(* Properties *)

(* The loop of the Failed arm of drive_ready_detached_tasks always finds a *)
(* task to run while it has something to wait for: the abort of a process  *)
(* never turns into a busy loop.                                           *)
AbortNeverSpins == Idle /\ abort # NoAbort /\ AbortPending => Ready # {}

(* "scheduled waiting task has no ready future" cannot be reported: what   *)
(* was ready when the round started is still ready at its turn, whatever   *)
(* the tasks before it did.                                                *)
ScheduledStaysReady == todo \subseteq Ready

(* Every unfinished execution is carried by a task that will finish it: no *)
(* abort, nested abort or unwound round leaves a record in `executions`    *)
(* that nothing drives.  So a caller that waits is owed an answer: its     *)
(* reply is settled, or such an execution or an error task will settle it. *)
NoOrphanExecution ==
  /\ \A e \in Active : \E n \in {Wrapper(e), Callback(e)} : n \in live /\ ~ Handed(n)
  /\ \A n \in live : wait[n] # 0 =>
       \/ reply[wait[n]] \in Settled
       \/ reply[wait[n]] = "Running" /\ wait[n] \in Active
       \/ reply[wait[n]] = "DownPending" /\ <<"error", wait[n]>> \in live

(* A caller that has seen its answer knows that the execution no longer    *)
(* changes the process: process_store is only reached with the reply still *)
(* open, or given up by a cancelled caller.                                *)
StoreBeforeReply ==
  [][\A p \in Pid : value'[p] # value[p] =>
        /\ status[p] \in {"Accepting", "Stopping"}
        /\ reply[value'[p]] \in {"Running", "Forgotten"}]_vars

(* A settled reply is never settled again: a late completion, the abort of *)
(* the process and a cancelled caller do not replace each other's result.  *)
ReplySettledOnce ==
  [][\A e \in ExecId : reply[e] \in Settled \cup {"Forgotten"} =>
        reply'[e] \in {reply[e], "Forgotten"}]_vars

(* A process that was asked to stop, or one of whose executions failed, is *)
(* reclaimed in the end.                                                   *)
StopCompletes ==
  \A p \in Pid : (status[p] = "Stopping") ~> (status[p] = "Stopped")

(* A caller of a process does not wait forever: it gets the reply, or the  *)
(* ProcessReplyTargetStopped error, or is cancelled.                       *)
WaitersWake == \A n \in Task : (wait[n] # 0) ~> (wait[n] = 0)

(* Every started execution is finished once, along the common exit path    *)
(* (docs/dev/ProcessRuntime_spec.md, section 3.10.1).                      *)
FinishedOnce == \A e \in ExecId : finishes[e] <= 1

Contract ==
  INSTANCE ProcessContract WITH
    Request <- ExecId,
    running <- [p \in Pid |-> ActiveOf(p)],
    used <- {e \in ExecId : stage[e] # "Free"}

(* The runtime implements the contract of a process.                       *)
ImplementsContract == Contract!ContractSpec
=============================================================================
