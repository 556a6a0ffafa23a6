-------------------------- MODULE ProcessContract --------------------------
(***************************************************************************)
(* What the Eldr process runtime promises of one process, whatever the     *)
(* scheduler does: requests are started only while the process accepts     *)
(* them, a Stop closes the door but lets started requests run to their     *)
(* end, and the body is reclaimed exactly when the last of them finishes.  *)
(* ProcessLifecycle.tla, which has the tasks, the futures and the          *)
(* scheduler, implements this module; WorkerPool.tla builds on it.         *)
(***************************************************************************)
EXTENDS Naturals, FiniteSets

CONSTANTS
  Pid,     \* process ids that may ever be allocated
  Request  \* ids of process executions (next_execution_id)

VARIABLES
  status,  \* presence in `processes` and its acceptance, per pid
  running, \* unfinished execution records, per pid
  used     \* requests that have been started

contractVars == <<status, running, used>>

\* "Unborn": not allocated yet; "Stopped": the body is gone and only the
\* weak identity remains in stopped_identities.
Status == {"Unborn", "Accepting", "Stopping", "Stopped"}

ContractTypeOK ==
  /\ status \in [Pid -> Status]
  /\ running \in [Pid -> SUBSET Request]
  /\ used \in SUBSET Request

ContractInit ==
  /\ status = [p \in Pid |-> "Unborn"]
  /\ running = [p \in Pid |-> {}]
  /\ used = {}

\* allocate_process_instance: a fresh process accepts requests.
Allocate(p) ==
  /\ status[p] = "Unborn"
  /\ status' = [status EXCEPT ![p] = "Accepting"]
  /\ UNCHANGED <<running, used>>

\* start_process_execution_at: the check and the registration of the record
\* are one step; a stopping or stopped process refuses with ProcessStopped.
Begin(r, p) ==
  /\ status[p] = "Accepting"
  /\ r \notin used
  /\ running' = [running EXCEPT ![p] = @ \cup {r}]
  /\ used' = used \cup {r}
  /\ UNCHANGED status

\* request_process_stop: only an unfinished request of p can ask for it.
RequestStop(r, p) ==
  /\ r \in running[p]
  /\ status[p] = "Accepting"
  /\ status' = [status EXCEPT ![p] = "Stopping"]
  /\ UNCHANGED <<running, used>>

\* finish_process_execution with reclaim_stopped_process.
Finish(r, p) ==
  /\ r \in running[p]
  /\ running' = [running EXCEPT ![p] = @ \ {r}]
  /\ status' = [status EXCEPT ![p] =
                  IF @ = "Stopping" /\ running[p] = {r} THEN "Stopped" ELSE @]
  /\ UNCHANGED used

\* abort_process_executions followed by finish_process_execution of the
\* request that failed.
Crash(r, p) ==
  /\ r \in running[p]
  /\ running' = [running EXCEPT ![p] = @ \ {r}]
  /\ status' = [status EXCEPT ![p] =
                  IF running[p] = {r} THEN "Stopped" ELSE "Stopping"]
  /\ UNCHANGED used

ContractNext ==
  \E p \in Pid :
    \/ Allocate(p)
    \/ \E r \in Request : Begin(r, p) \/ RequestStop(r, p) \/ Finish(r, p) \/ Crash(r, p)

ContractSpec == ContractInit /\ [][ContractNext]_contractVars

-----------------------------------------------------------------------------
(* A process that is closing still has an unfinished request: nothing else *)
(* would ever reclaim it (finish_process_execution is the only caller of   *)
(* reclaim_stopped_process).  A process without body has none.             *)
ReclaimedOnTime ==
  \A p \in Pid : /\ status[p] = "Stopping" => running[p] # {}
                 /\ status[p] \in {"Unborn", "Stopped"} => running[p] = {}

(* A request belongs to one process and is started at most once.           *)
OneTarget ==
  \A p \in Pid : /\ running[p] \subseteq used
                 /\ \A q \in Pid : p # q => running[p] \cap running[q] = {}

(* No step reopens a process that is stopping or stopped, and none adds a  *)
(* request to it: the receive/stop race is decided at the start boundary.  *)
ClosedForGood ==
  [][\A p \in Pid : status[p] \in {"Stopping", "Stopped"} =>
        /\ status'[p] \in {"Stopping", "Stopped"}
        /\ status[p] = "Stopped" => status'[p] = "Stopped"
        /\ running'[p] \subseteq running[p]]_contractVars
=============================================================================
