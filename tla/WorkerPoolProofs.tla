-------------------------- MODULE WorkerPoolProofs --------------------------
(* What reclaiming a process leaves of the worker sets, and the theorems   *)
(* about WorkerPool.                                                       *)
EXTENDS PoolRequestProofs

(* What remove_worker_from_sets leaves of the sets: a set that had p loses *)
(* it and nothing else, the other sets stay as they are.                   *)
LEMMA LeaveMembers ==
  ASSUME PoolInv, NEW p \in Pid, Leave(p), NEW w \in Workers
  PROVE  /\ members'[w] \in Seq(Pid)
         /\ Len(members'[w]) = IF HasMember(w, p) THEN Len(members[w]) - 1 ELSE Len(members[w])
         /\ \A i \in DOMAIN members'[w] : \E j \in DOMAIN members[w] :
               /\ members'[w][i] = members[w][j]
               /\ HasMember(w, p) => members[w][j] # p
         /\ \A i, j \in DOMAIN members'[w] : members'[w][i] = members'[w][j] => i = j
<1>1. members[w] \in Seq(Pid) /\ \A i, j \in DOMAIN members[w] : members[w][i] = members[w][j] => i = j
  BY Zenon DEF PoolInv, PoolTypeOK, MembersAreLive
<1>2. members'[w] = IF HasMember(w, p) THEN Without(members[w], p) ELSE members[w]
  BY Zenon DEF Leave
<1>3. CASE ~ HasMember(w, p)
  BY <1>1, <1>2, <1>3, Zenon
<1>4. CASE HasMember(w, p)
  <2>1. PICK k \in DOMAIN members[w] : members[w][k] = p
    BY <1>4, Zenon DEF HasMember
  <2> DEFINE s == members[w]
             t == members'[w]
  <2>2. s \in Seq(Pid) /\ k \in DOMAIN s /\ \A i, j \in DOMAIN s : s[i] = s[j] => i = j
    BY <1>1, Zenon
  <2>3. t = Without(s, s[k])
    BY <1>2, <1>4, <2>1, Zenon
  <2>4. s[k] = p
    BY <2>1, Zenon
  <2> HIDE DEF s, t
  <2>5. /\ t \in Seq(Pid)
        /\ Len(t) = Len(s) - 1
        /\ \A i \in 1..(Len(s) - 1) : t[i] = s[IF i < k THEN i ELSE i + 1]
    BY <2>2, <2>3, WithoutFacts
  <2>6. DOMAIN t = 1..(Len(s) - 1) /\ DOMAIN s = 1..Len(s) /\ Len(s) \in Nat /\ k \in 1..Len(s)
    BY <2>2, <2>5
  <2>7. \A i \in DOMAIN t : (IF i < k THEN i ELSE i + 1) \in DOMAIN s \ {k}
    BY <2>6
  <2>8. \A i \in DOMAIN t : \E j \in DOMAIN s : t[i] = s[j] /\ s[j] # s[k]
    BY <2>2, <2>5, <2>6, <2>7, Zenon
  <2>9. \A i, j \in DOMAIN t : t[i] = t[j] => i = j
    <3> SUFFICES ASSUME NEW i \in DOMAIN t, NEW j \in DOMAIN t, t[i] = t[j] PROVE i = j
        BY Zenon
    <3>1. (IF i < k THEN i ELSE i + 1) = (IF j < k THEN j ELSE j + 1)
      BY <2>2, <2>5, <2>6, <2>7, Zenon
    <3> QED BY <3>1, <2>6
  <2> QED BY <1>4, <2>4, <2>5, <2>8, <2>9 DEF s, t
<1> QED
  BY <1>3, <1>4, Zenon

(* A reclaimed process leaves every set and every child list, and a set    *)
(* that falls below its target has a refill task from then on.             *)
LEMMA LeaveKeeps ==
  ASSUME PoolInv, ContractTypeOK', NEW p \in Pid, Leave(p),
         running[p] # {}, status'[p] = "Stopped",
         \A q \in Pid : q # p => status'[q] = status[q] /\ running'[q] = running[q]
  PROVE  /\ PoolTypeOK' /\ Reach' /\ Sizes' /\ MembersAreLive' /\ TargetKept' /\ ChildTableExact'
<1>0. /\ \A v \in Workers : /\ Len(members[v]) \in Nat /\ target[v] \in Nat
                            /\ starting[v] \in Nat /\ initing[v] \in Nat /\ nextIndex[v] \in Nat
      /\ members \in [Workers -> Seq(Pid)] /\ held \subseteq Pid
      /\ refilling \in SUBSET Workers /\ failed \in SUBSET Workers
  BY DEF PoolInv, PoolTypeOK
<1>1. /\ UNCHANGED <<held, phase, owner, target, initing, picked, cast>>
      /\ refilling' = refilling \cup Depleted(p) /\ failed' = failed \ Depleted(p)
      /\ \A v \in Workers : starting'[v] = IF v \in Depleted(p) THEN starting[v] + 1 ELSE starting[v]
  BY Zenon DEF Leave
<1>2. \A v \in Workers : p \in Inside(members[v]) => HasMember(v, p)
  <2> SUFFICES ASSUME NEW v \in Workers, p \in Inside(members[v]) PROVE HasMember(v, p)
      BY Zenon
  <2>1. phase[v] # "Building"
    BY Zenon DEF PoolInv, Reach
  <2>2. phase[v] \in Phases /\ members[v] # <<>>
    BY DEF PoolInv, PoolTypeOK, Inside
  <2>3. phase[v] = "Ready"
    BY <2>1, <2>2, Zenon DEF PoolInv, Sizes, Phases
  <2> QED BY <2>3, Zenon DEF HasMember, Inside
<1>3. \A v \in Workers : HasMember(v, p) => phase[v] = "Ready" /\ Len(members[v]) > 0
  BY <1>0 DEF HasMember
<1>4. /\ members' \in [Workers -> Seq(Pid)]
      /\ nextIndex' \in [Workers -> Nat] /\ starting' \in [Workers -> Nat]
      /\ refilling' \in SUBSET Workers /\ failed' \in SUBSET Workers
  <2>1. \A v \in Workers : members'[v] \in Seq(Pid)
    BY LeaveMembers, Zenon
  <2>2. DOMAIN members' = Workers /\ members' = [v \in Workers |-> members'[v]]
    BY Zenon DEF Leave
  <2>3. members' \in [Workers -> Seq(Pid)]
    BY <2>1, <2>2, Zenon
  <2>4. nextIndex' \in [Workers -> Nat] /\ starting' \in [Workers -> Nat]
    BY <1>0 DEF Leave
  <2> QED BY <1>0, <1>1, <2>3, <2>4, Zenon DEF Depleted
<1>5. /\ sink' \in [Pid -> Supervisor \cup {NoSupervisor}]
      /\ children' \in [Supervisor -> SUBSET Pid]
  BY Zenon DEF Leave, PoolInv, PoolTypeOK
<1>6. PoolTypeOK'
  BY <1>1, <1>4, <1>5, Zenon DEF PoolInv, PoolTypeOK
<1>7. \A v \in Workers : \A i \in DOMAIN members'[v] :
         \E j \in DOMAIN members[v] : members'[v][i] = members[v][j] /\ members[v][j] # p
  <2> SUFFICES ASSUME NEW v \in Workers, NEW i \in DOMAIN members'[v]
               PROVE  \E j \in DOMAIN members[v] : members'[v][i] = members[v][j] /\ members[v][j] # p
      BY Zenon
  <2>1. PICK j \in DOMAIN members[v] : members'[v][i] = members[v][j]
                                       /\ (HasMember(v, p) => members[v][j] # p)
    BY LeaveMembers
  <2>2. members[v][j] \in Inside(members[v])
    BY Zenon DEF Inside
  <2>3. members[v][j] # p
    BY <1>2, <2>1, <2>2, Zenon
  <2> QED BY <2>1, <2>3, Zenon
<1>8. \A v \in Workers : Inside(members'[v]) \subseteq Inside(members[v]) \ {p}
  BY <1>7 DEF Inside
<1>9. Reach'
  <2>1. Inside(cast.queue) \subseteq Pid /\ \A v \in Workers : Inside(members[v]) \subseteq Pid
    BY InsideTypes, Zenon DEF PoolInv
  <2>2. \A q \in held \cup Inside(cast.queue) : status'[q] # "Unborn"
    BY <1>0, <2>1, Zenon DEF PoolInv, Reach
  <2>3. \A v \in Workers : phase[v] = "Building" =>
          \A q \in Inside(members'[v]) : q \notin held \cup Inside(cast.queue) /\ running'[q] = {}
    BY <1>8, <2>1, Zenon DEF PoolInv, Reach
  <2> QED BY <1>1, <2>2, <2>3, Zenon DEF Reach
<1>10. \A v \in Workers : Len(members'[v]) = IF HasMember(v, p) THEN Len(members[v]) - 1
                                             ELSE Len(members[v])
  BY LeaveMembers, Zenon
<1>11. \A v \in Workers : v \in Depleted(p) <=>
          HasMember(v, p) /\ Len(members[v]) <= target[v] /\ v \notin refilling
  BY Zenon DEF Depleted
<1>12. Sizes'
  <2> SUFFICES ASSUME NEW v \in Workers
               PROVE  /\ phase[v] \in {"Unused", "Failed"} => members'[v] = <<>>
                      /\ phase[v] \in {"Building", "Ready"} => owner[v] \in Supervisor
                      /\ phase[v] = "Building" => Len(members'[v]) < target[v]
                      /\ starting'[v] + initing[v] <= (IF v \in refilling' THEN 1 ELSE 0)
                      /\ v \in refilling' => /\ phase[v] = "Ready"
                                             /\ starting'[v] + initing[v] = 1 \/ v \in failed'
                      /\ initing[v] > 0 => Len(members'[v]) < target[v]
      BY <1>1, Zenon DEF Sizes
  <2>1. phase[v] \in {"Unused", "Failed"} => members'[v] = <<>>
    BY <1>3, Zenon DEF PoolInv, Sizes, Leave
  <2>2. /\ phase[v] \in {"Building", "Ready"} => owner[v] \in Supervisor
        /\ phase[v] = "Building" => Len(members'[v]) < target[v]
    BY <1>3, <1>10, Zenon DEF PoolInv, Sizes
  <2>3. starting'[v] + initing[v] <= (IF v \in refilling' THEN 1 ELSE 0)
    BY <1>0, <1>1, <1>11 DEF PoolInv, Sizes
  <2>4. v \in refilling' => phase[v] = "Ready" /\ (starting'[v] + initing[v] = 1 \/ v \in failed')
    BY <1>0, <1>1, <1>3, <1>11 DEF PoolInv, Sizes
  <2>5. initing[v] > 0 => Len(members'[v]) < target[v]
    <3>1. initing[v] > 0 => Len(members[v]) < target[v]
      BY Zenon DEF PoolInv, Sizes
    <3>2. Len(members'[v]) <= Len(members[v])
      BY <1>0, <1>10
    <3>3. Len(members'[v]) \in Int /\ Len(members[v]) \in Nat /\ target[v] \in Nat
      BY <1>0, <1>10
    <3> QED BY <3>1, <3>2, <3>3
  <2> QED BY <2>1, <2>2, <2>3, <2>4, <2>5, Zenon
<1>13. TargetKept'
  <2> SUFFICES ASSUME NEW v \in Workers, phase[v] = "Ready"
               PROVE  /\ Len(members'[v]) <= target[v] /\ starting'[v] + initing[v] <= 1
                      /\ Len(members'[v]) < target[v] => starting'[v] + initing[v] = 1 \/ v \in failed'
      BY <1>1, Zenon DEF TargetKept
  <2>1. /\ Len(members[v]) <= target[v] /\ starting[v] + initing[v] <= 1
        /\ Len(members[v]) < target[v] => starting[v] + initing[v] = 1 \/ v \in failed
        /\ starting[v] + initing[v] <= (IF v \in refilling THEN 1 ELSE 0)
        /\ v \in refilling => starting[v] + initing[v] = 1 \/ v \in failed
    BY Zenon DEF PoolInv, TargetKept, Sizes
  <2>2. CASE HasMember(v, p)
    BY <2>1, <2>2, <1>0, <1>1, <1>10, <1>11
  <2>3. CASE ~ HasMember(v, p)
    BY <2>1, <2>3, <1>1, <1>10, <1>11, Zenon
  <2> QED BY <2>2, <2>3, Zenon
<1>14. MembersAreLive'
  <2>1. \A v \in Workers : \A i \in DOMAIN members[v] : members[v][i] \in Pid
    BY <1>0
  <2>2. \A v \in Workers : \A i \in DOMAIN members'[v] :
           status'[members'[v][i]] \in {"Accepting", "Stopping"}
    BY <1>7, <2>1 DEF PoolInv, MembersAreLive, Live
  <2>3. ASSUME NEW v \in Workers, NEW i \in DOMAIN members'[v],
               NEW u \in Workers, NEW j \in DOMAIN members'[u], members'[u][j] = members'[v][i]
        PROVE  u = v /\ j = i
    <3>1. u = v
      BY <1>7, <2>3 DEF PoolInv, MembersAreLive
    <3> QED BY <3>1, <2>3, LeaveMembers, Zenon
  <2> QED BY <2>2, <2>3 DEF MembersAreLive, Live
<1>15. ChildTableExact'
  <2> SUFFICES ASSUME NEW q \in Pid, NEW s \in Supervisor
               PROVE  q \in children'[s] <=> status'[q] \in {"Accepting", "Stopping"} /\ sink'[q] = s
      BY Zenon DEF ChildTableExact, Live
  <2>1. q \in children[s] <=> status[q] \in {"Accepting", "Stopping"} /\ sink[q] = s
    BY Zenon DEF PoolInv, ChildTableExact, Live
  <2>2. p \in children[s] => s = sink[p]
    BY Zenon DEF PoolInv, ChildTableExact
  <2>3. children'[s] = IF s = sink[p] THEN children[s] \ {p} ELSE children[s]
    BY Zenon DEF Leave
  <2>4. q # p => sink'[q] = sink[q]
    BY Zenon DEF Leave, PoolInv, PoolTypeOK
  <2>5. CASE q = p
    BY <2>2, <2>3, <2>5, Zenon
  <2>6. CASE q # p
    BY <2>1, <2>3, <2>4, <2>6, Zenon
  <2> QED BY <2>5, <2>6, Zenon
<1> QED
  BY <1>6, <1>9, <1>12, <1>13, <1>14, <1>15, Zenon

(* A request that ends or fails keeps the invariant, whether or not it is  *)
(* the last one of a closing process.                                      *)
LEMMA EndKeeps ==
  ASSUME PoolInv, ContractTypeOK', NEW r \in Request, NEW p \in Pid, End(r, p)
  PROVE  /\ PoolTypeOK' /\ Reach' /\ Sizes' /\ MembersAreLive' /\ TargetKept' /\ ChildTableExact'
<1>1. /\ r \in running[p]
      /\ \A q \in Pid : /\ q # p => status'[q] = status[q] /\ running'[q] = running[q]
                        /\ running'[q] \subseteq running[q]
      /\ status'[p] \in {"Stopping", "Stopped", status[p]}
  BY DEF End, Finish, Crash, PoolInv, ContractInv, ContractTypeOK
<1>2. CASE status'[p] = "Stopped"
  <2>1. Leave(p)
    BY <1>2, Zenon DEF End
  <2> QED BY <1>1, <1>2, <2>1, LeaveKeeps, Zenon
<1>3. CASE status'[p] # "Stopped"
  <2>1. UNCHANGED poolVars
    BY <1>3, Zenon DEF End
  <2>2. UNCHANGED <<sink, children, held, setVars, picked, cast>> /\ members' = members
    BY <2>1, Zenon DEF poolVars, setVars
  <2>3. PoolTypeOK'
    BY <2>2, Zenon DEF PoolInv, PoolTypeOK, setVars
  <2>4. Sizes' /\ TargetKept'
    BY <2>2, SizesFrame, Zenon DEF PoolInv
  <2>5. status[p] \in {"Accepting", "Stopping"}
    BY <1>1, Zenon DEF PoolInv, ContractInv, ContractTypeOK, ReclaimedOnTime, Status
  <2>6. \A q \in Pid : status'[q] \in {"Accepting", "Stopping"} <=> status[q] \in {"Accepting", "Stopping"}
    BY <1>1, <1>3, <2>5, Zenon
  <2>7. MembersAreLive'
    BY <2>2, <2>6, MembersFrame, Zenon DEF PoolInv, Live
  <2>8. ChildTableExact'
    BY <2>2, <2>6, Zenon DEF PoolInv, ChildTableExact, Live
  <2>9. Reach'
    <3>1. Inside(cast.queue) \subseteq Pid /\ held \subseteq Pid
          /\ \A v \in Workers : Inside(members[v]) \subseteq Pid
      BY InsideTypes, Zenon DEF PoolInv, PoolTypeOK
    <3>2. \A q \in held \cup Inside(cast.queue) : status'[q] # "Unborn"
      BY <1>1, <2>5, <3>1, Zenon DEF PoolInv, Reach
    <3>3. \A v \in Workers : phase[v] = "Building" =>
            \A q \in Inside(members[v]) : q \notin held \cup Inside(cast.queue) /\ running'[q] = {}
      BY <1>1, <3>1, Zenon DEF PoolInv, Reach
    <3>4. phase' = phase
      BY <2>2, Zenon DEF setVars
    <3> QED BY <2>2, <3>2, <3>3, <3>4 DEF Reach
  <2> QED BY <2>3, <2>4, <2>7, <2>8, <2>9, Zenon
<1> QED BY <1>2, <1>3, Zenon

(* Every step of the pool keeps its invariant.                             *)
LEMMA PoolInductive == PoolInv /\ [PoolNext]_vars => PoolInv'
<1> DEFINE Kept == /\ PoolTypeOK' /\ Reach' /\ Sizes'
                   /\ MembersAreLive' /\ TargetKept' /\ ChildTableExact'
<1> SUFFICES ASSUME PoolInv, [PoolNext]_vars PROVE PoolInv'
    BY Zenon
<1>1. ContractInv'
  BY PoolStepIsContractStep, ContractInductive, Zenon DEF PoolInv
<1>2. ContractTypeOK'
  BY <1>1, Zenon DEF ContractInv
<1>3. CASE UNCHANGED vars
  <2>1. UNCHANGED <<status, running, used, sink, children, held, setVars, picked, cast>>
        /\ members' = members /\ phase' = phase
    BY <1>3, Zenon DEF vars, contractVars, poolVars, setVars
  <2>2. PoolTypeOK'
    BY <1>2, <2>1, Zenon DEF PoolInv, PoolTypeOK, setVars
  <2>3. Reach' /\ MembersAreLive' /\ ChildTableExact'
    BY <2>1, MembersFrame, Zenon DEF PoolInv, Reach, ChildTableExact, Live
  <2> QED BY <1>1, <2>1, <2>2, <2>3, SizesFrame DEF PoolInv
<1>4. ASSUME PoolNext PROVE Kept
  <2>1. ASSUME NEW p \in Pid, NEW s \in Supervisor, SpawnWorker(p, s) \/ Adopt(p, s) PROVE Kept
    BY <1>2, <2>1, SpawnWorkerKeeps, AdoptKeeps
  <2>2. ASSUME NEW w \in Workers, NEW s \in Supervisor, NEW st \in Strategies, StartWorkers(w, s, st)
        PROVE  Kept
    BY <2>2, StartWorkersKeeps, Zenon
  <2>3. ASSUME NEW w \in Workers, NEW p \in Pid, BuildOne(w, p) \/ RefillOne(w, p) PROVE Kept
    BY <1>2, <2>3, BuildOneKeeps, RefillOneKeeps, Zenon
  <2>4. ASSUME NEW w \in Workers, BuildFail(w) \/ Reserve(w) \/ Broadcast(w) PROVE Kept
    BY <2>4, BuildFailKeeps, ReserveKeeps, BroadcastKeeps
  <2>5. ASSUME NEW w \in Workers, RefillStart(w) \/ RefillTrap(w) \/ RefillErr(w) PROVE Kept
    BY <2>5, RefillStepsKeep, Zenon
  <2>6. ASSUME BroadcastNext \/ BroadcastAnswer PROVE Kept
    BY <1>2, <2>6, BroadcastNextKeeps, AnswerKeeps
  <2>7. ASSUME NEW r \in Request, NEW p \in Pid, BeginRequest(r, p) \/ Stop(r, p) \/ End(r, p)
        PROVE  Kept
    BY <1>2, <2>7, RequestsKeep, EndKeeps
  <2> QED BY <1>4, <2>1, <2>2, <2>3, <2>4, <2>5, <2>6, <2>7 DEF PoolNext
<1> QED BY <1>1, <1>3, <1>4, Zenon DEF PoolInv

(* The inductive invariant holds in every state.                           *)
THEOREM PoolInvariance == PoolSpec => []PoolInv
BY PoolInitially, PoolInductive, PTL DEF PoolSpec

(* However stops, refills, adoptions and creations mix, every member of a  *)
(* worker set has a body and is listed once, in one set: selection and     *)
(* broadcast never meet an unregistered pid.                               *)
THEOREM MembersSafe == PoolSpec => []MembersAreLive
<1>1. PoolInv => MembersAreLive
  BY Zenon DEF PoolInv
<1> QED BY <1>1, PoolInvariance, PTL

(* A set never grows past its target or has two refill tasks, and one that *)
(* is below has a task or has seen its refill fail: remove_worker_from_sets *)
(* forgets to start one only where a failed task has left its flag behind. *)
THEOREM TargetSafe == PoolSpec => []TargetKept
<1>1. PoolInv => TargetKept
  BY Zenon DEF PoolInv
<1> QED BY <1>1, PoolInvariance, PTL

(* A supervisor's child list holds exactly the live processes whose        *)
(* lifecycle sink it is, through adoptions and reclamations.               *)
THEOREM ChildTableSafe == PoolSpec => []ChildTableExact
<1>1. PoolInv => ChildTableExact
  BY Zenon DEF PoolInv
<1> QED BY <1>1, PoolInvariance, PTL

(* The pool with its sets, child lists and refill tasks implements the     *)
(* contract of the single process: nothing it does reopens a process or    *)
(* reclaims one that still runs a request.                                 *)
THEOREM PoolImplementsContract == PoolSpec => ContractSpec
<1>1. PoolInit => ContractInit
  BY Zenon DEF PoolInit
<1>2. PoolInv => PoolTypeOK
  BY Zenon DEF PoolInv
<1> QED BY <1>1, <1>2, PoolStepIsContractStep, PoolInvariance, PTL DEF PoolSpec, ContractSpec
=============================================================================
