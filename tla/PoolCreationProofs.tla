------------------------- MODULE PoolCreationProofs -------------------------
(* Proofs about ProcessContract, for any sets of processes and requests;   *)
(* then the inductive invariant of WorkerPool, and the proof that          *)
(* supervised spawns and the steps of creations and refills that add a     *)
(* worker keep it, for any number of processes, requests, worker sets and  *)
(* supervisors and any strategies.                                         *)
EXTENDS WorkerPool, FiniteSetTheorems, TLAPS

ContractInv == ContractTypeOK /\ ReclaimedOnTime /\ OneTarget

(* The contract starts in a state that satisfies its invariant.            *)
LEMMA ContractInitially == ContractInit => ContractInv
BY Zenon DEF ContractInit, ContractInv, ContractTypeOK, Status, ReclaimedOnTime, OneTarget

(* Every operation of a process (allocation, start, stop, finish, failure) *)
(* keeps the invariant.                                                    *)
LEMMA ContractInductive == ContractInv /\ [ContractNext]_contractVars => ContractInv'
<1> SUFFICES ASSUME ContractInv, [ContractNext]_contractVars
             PROVE  ContractInv'
    BY Zenon
<1> USE DEF ContractInv, ContractTypeOK, Status, ReclaimedOnTime, OneTarget
<1>1. CASE UNCHANGED contractVars
  BY <1>1, Zenon DEF contractVars
<1>2. ASSUME NEW p \in Pid, Allocate(p)
      PROVE  ContractInv'
  BY <1>2, Zenon DEF Allocate
<1>3. ASSUME NEW p \in Pid, NEW r \in Request, Begin(r, p)
      PROVE  ContractInv'
  BY <1>3 DEF Begin
<1>4. ASSUME NEW p \in Pid, NEW r \in Request, RequestStop(r, p)
      PROVE  ContractInv'
  BY <1>4, Zenon DEF RequestStop
<1>5. ASSUME NEW p \in Pid, NEW r \in Request, Finish(r, p)
      PROVE  ContractInv'
  BY <1>5 DEF Finish
<1>6. ASSUME NEW p \in Pid, NEW r \in Request, Crash(r, p)
      PROVE  ContractInv'
  BY <1>6 DEF Crash
<1> QED
  BY <1>1, <1>2, <1>3, <1>4, <1>5, <1>6, Zenon DEF ContractNext

(* The invariant holds in every state of the contract.                     *)
THEOREM ContractInvariance == ContractSpec => []ContractInv
BY ContractInitially, ContractInductive, PTL DEF ContractSpec

(* finish_process_execution reclaims a closing process exactly when its    *)
(* last request ends: a closing process still has one, a gone one has none.*)
THEOREM Reclamation == ContractSpec => []ReclaimedOnTime
<1>1. ContractInv => ReclaimedOnTime
  BY Zenon DEF ContractInv
<1> QED
  BY <1>1, ContractInvariance, PTL

(* No execution id is shared by two processes or handed out twice.         *)
THEOREM RequestsHaveOneTarget == ContractSpec => []OneTarget
<1>1. ContractInv => OneTarget
  BY Zenon DEF ContractInv
<1> QED
  BY <1>1, ContractInvariance, PTL

(* A process that is stopping or stopped stays so, and no step adds a      *)
(* request to it: the race of a receive and a Stop is decided when the     *)
(* record is registered.                                                   *)
THEOREM NeverReopened == ContractSpec => ClosedForGood
<1> DEFINE Closed(p) == status[p] \in {"Stopping", "Stopped"} =>
              /\ status'[p] \in {"Stopping", "Stopped"}
              /\ status[p] = "Stopped" => status'[p] = "Stopped"
              /\ running'[p] \subseteq running[p]
<1>1. ContractInv /\ [ContractNext]_contractVars => [\A p \in Pid : Closed(p)]_contractVars
  <2> SUFFICES ASSUME ContractInv, ContractNext, NEW q \in Pid
               PROVE  Closed(q)
      BY Zenon DEF contractVars
  <2> USE DEF ContractInv, ContractTypeOK, Status, ReclaimedOnTime
  <2>1. ASSUME NEW p \in Pid, Allocate(p)
        PROVE  Closed(q)
    BY <2>1, Zenon DEF Allocate
  <2>2. ASSUME NEW p \in Pid, NEW r \in Request, Begin(r, p)
        PROVE  Closed(q)
    BY <2>2, Zenon DEF Begin
  <2>3. ASSUME NEW p \in Pid, NEW r \in Request, RequestStop(r, p)
        PROVE  Closed(q)
    BY <2>3, Zenon DEF RequestStop
  <2>4. ASSUME NEW p \in Pid, NEW r \in Request, Finish(r, p)
        PROVE  Closed(q)
    BY <2>4, Zenon DEF Finish
  <2>5. ASSUME NEW p \in Pid, NEW r \in Request, Crash(r, p)
        PROVE  Closed(q)
    BY <2>5, Zenon DEF Crash
  <2> QED
    BY <2>1, <2>2, <2>3, <2>4, <2>5, Zenon DEF ContractNext
<1> QED
  BY <1>1, ContractInvariance, PTL DEF ContractSpec, ClosedForGood

-----------------------------------------------------------------------------
Inside(s) == {s[i] : i \in DOMAIN s}

\* What the pool can reach: everything user code holds or a broadcast will
\* ask exists, and the workers of an unfinished creation are known to nobody.
Reach ==
  /\ \A p \in held \cup Inside(cast.queue) : status[p] # "Unborn"
  /\ \A w \in Workers : phase[w] = "Building" =>
       \A p \in Inside(members[w]) : p \notin held \cup Inside(cast.queue) /\ running[p] = {}

\* A creation holds fewer workers than its target; a set that is not there
\* has none; only a set in refilling_worker_sets has a refill task, it has
\* one, and it stays there without one only after the task has failed; a task
\* that waits for an init found the set below target.
Sizes ==
  \A w \in Workers :
    /\ phase[w] \in {"Unused", "Failed"} => members[w] = <<>>
    /\ phase[w] \in {"Building", "Ready"} => owner[w] \in Supervisor
    /\ phase[w] = "Building" => Len(members[w]) < target[w]
    /\ starting[w] + initing[w] <= (IF w \in refilling THEN 1 ELSE 0)
    /\ w \in refilling => phase[w] = "Ready" /\ (starting[w] + initing[w] = 1 \/ w \in failed)
    /\ initing[w] > 0 => Len(members[w]) < target[w]

PoolInv ==
  /\ PoolTypeOK /\ ContractInv
  /\ Reach /\ Sizes /\ MembersAreLive /\ TargetKept /\ ChildTableExact

(* Dropping an element that occurs once closes the gap and keeps the order. *)
LEMMA WithoutFacts ==
  ASSUME NEW S, NEW s \in Seq(S), NEW k \in DOMAIN s,
         \A i, j \in DOMAIN s : s[i] = s[j] => i = j
  PROVE  /\ Without(s, s[k]) \in Seq(S)
         /\ Len(Without(s, s[k])) = Len(s) - 1
         /\ \A i \in 1..(Len(s) - 1) : Without(s, s[k])[i] = s[IF i < k THEN i ELSE i + 1]
<1>1. k \in 1..Len(s) /\ Len(s) \in Nat
  OBVIOUS
<1>2. (CHOOSE i \in DOMAIN s : s[i] = s[k]) = k
  BY Zenon
<1>3. Without(s, s[k]) = [i \in 1..(Len(s) - 1) |-> s[IF i < k THEN i ELSE i + 1]]
  BY <1>2, Zenon DEF Without
<1>4. \A i \in 1..(Len(s) - 1) : s[IF i < k THEN i ELSE i + 1] \in S
  BY <1>1
<1>5. Len(s) - 1 \in Nat
  BY <1>1
<1> QED
  BY <1>3, <1>4, <1>5

(* Every step of the pool is a step of the processes it is made of, or     *)
(* leaves them alone.                                                      *)
LEMMA PoolStepIsContractStep == PoolTypeOK /\ [PoolNext]_vars => [ContractNext]_contractVars
<1> SUFFICES ASSUME PoolTypeOK, [PoolNext]_vars PROVE [ContractNext]_contractVars
    BY Zenon
<1>1. CASE UNCHANGED vars
  BY <1>1, Zenon DEF vars
<1>2. ASSUME NEW p \in Pid, NEW s, NewWorker(p, s) PROVE ContractNext
  BY <1>2, Zenon DEF NewWorker, ContractNext
<1>3. ASSUME NEW r \in Request, NEW p \in Pid, BeginRequest(r, p) \/ Stop(r, p) \/ End(r, p)
      PROVE  ContractNext
  BY <1>3, Zenon DEF BeginRequest, Stop, End, ContractNext
<1>4. CASE BroadcastNext
  <2>1. Head(cast.queue) \in Pid
    BY <1>4 DEF BroadcastNext, PoolTypeOK
  <2> QED BY <1>4, <2>1, Zenon DEF BroadcastNext, ContractNext
<1> QED
  BY <1>1, <1>2, <1>3, <1>4
  DEF PoolNext, SpawnWorker, Adopt, StartWorkers, BuildOne, RefillOne, BuildFail, Reserve,
      Broadcast, RefillStart, RefillTrap, RefillErr, BroadcastAnswer

(* No process and no worker set exists at the start.                       *)
LEMMA PoolInitially == PoolInit => PoolInv
<1> SUFFICES ASSUME PoolInit PROVE PoolInv
    BY Zenon
<1>1. ContractInv
  BY ContractInitially, Zenon DEF PoolInit
<1>2. <<>> \in Seq(Pid)
  OBVIOUS
<1>3. PoolTypeOK
  BY <1>1, <1>2, Zenon DEF PoolInit, ContractInv, PoolTypeOK, NoCast, Phases
<1>4. Reach /\ Sizes
  BY DEF PoolInit, ContractInit, Reach, Sizes, Inside, NoCast
<1>5. MembersAreLive /\ TargetKept /\ ChildTableExact
  BY DEF PoolInit, ContractInit, MembersAreLive, TargetKept, ChildTableExact, Live
<1> QED
  BY <1>1, <1>3, <1>4, <1>5, Zenon DEF PoolInv

(* Members and targets of a broadcast are process ids.                     *)
LEMMA InsideTypes ==
  ASSUME PoolTypeOK
  PROVE  /\ Inside(cast.queue) \subseteq Pid
         /\ \A w \in Workers : Inside(members[w]) \subseteq Pid
<1>1. cast.queue \in Seq(Pid) /\ \A w \in Workers : members[w] \in Seq(Pid)
  BY Zenon DEF PoolTypeOK
<1> QED
  BY <1>1 DEF Inside

(* A step that changes at most the broadcast keeps every other type.       *)
LEMMA TypesFrame ==
  ASSUME PoolTypeOK, UNCHANGED <<status, running, used, sink, children, held, setVars, picked>>,
         cast' \in [asked : Seq(Pid), queue : Seq(Pid), waiting : BOOLEAN, to : SUBSET Workers]
  PROVE  PoolTypeOK'
<1>1. ContractTypeOK'
  BY Zenon DEF PoolTypeOK, ContractTypeOK
<1>2. UNCHANGED <<phase, owner, target, members, nextIndex, refilling, starting, initing, failed>>
  BY Zenon DEF setVars
<1> QED
  BY <1>1, <1>2, Zenon DEF PoolTypeOK

(* Steps that do not touch the sets keep what is said of their sizes.      *)
LEMMA SizesFrame ==
  ASSUME Sizes, TargetKept, UNCHANGED setVars
  PROVE  Sizes' /\ TargetKept'
<1>1. UNCHANGED <<phase, owner, target, members, refilling, starting, initing, failed>>
  BY Zenon DEF setVars
<1>2. Sizes'
  BY <1>1, Zenon DEF Sizes
<1>3. TargetKept'
  BY <1>1, Zenon DEF TargetKept
<1> QED
  BY <1>2, <1>3, Zenon

(* Members stay live in a step that ends no process.                       *)
LEMMA MembersFrame ==
  ASSUME PoolTypeOK, MembersAreLive, UNCHANGED members,
         \A p \in Pid : Live(p) => status'[p] \in {"Accepting", "Stopping"}
  PROVE  MembersAreLive'
<1>1. \A w \in Workers : members[w] \in Seq(Pid)
  BY Zenon DEF PoolTypeOK
<1>2. \A w \in Workers : \A i \in DOMAIN members[w] : members[w][i] \in Pid
  BY <1>1
<1> QED
  BY <1>2 DEF MembersAreLive, Live

(* A new worker is nobody's member, nobody's child and in nobody's hands.  *)
LEMMA FreshWorker ==
  ASSUME PoolInv, NEW p \in Pid, NEW s \in Supervisor, NewWorker(p, s)
  PROVE  /\ p \notin held \cup Inside(cast.queue) /\ running[p] = {}
         /\ \A w \in Workers : p \notin Inside(members[w])
         /\ \A q \in Pid : status'[q] = IF q = p THEN "Accepting" ELSE status[q]
         /\ running' = running
         /\ sink' \in [Pid -> Supervisor \cup {NoSupervisor}]
         /\ children' \in [Supervisor -> SUBSET Pid]
         /\ ChildTableExact'
<1>1. status[p] = "Unborn" /\ status' = [status EXCEPT ![p] = "Accepting"] /\ running' = running
  BY Zenon DEF NewWorker, Allocate
<1>2. status \in [Pid -> Status]
  BY Zenon DEF PoolInv, PoolTypeOK, ContractTypeOK
<1>3. p \notin held \cup Inside(cast.queue) /\ running[p] = {}
  BY <1>1, Zenon DEF PoolInv, Reach, ContractInv, ReclaimedOnTime
<1>4. \A w \in Workers : p \notin Inside(members[w])
  BY <1>1, Zenon DEF PoolInv, MembersAreLive, Live, Inside
<1>5. \A q \in Pid : status'[q] = IF q = p THEN "Accepting" ELSE status[q]
  BY <1>1, <1>2, Zenon
<1>6. /\ sink' \in [Pid -> Supervisor \cup {NoSupervisor}]
      /\ children' \in [Supervisor -> SUBSET Pid]
  BY Zenon DEF NewWorker, PoolInv, PoolTypeOK
<1>7. ChildTableExact'
  BY <1>1, <1>5 DEF NewWorker, PoolInv, PoolTypeOK, ChildTableExact, Live
<1> QED
  BY <1>1, <1>3, <1>4, <1>5, <1>6, <1>7, Zenon

(* Spawning a worker of its own leaves the sets alone.                     *)
LEMMA SpawnWorkerKeeps ==
  ASSUME PoolInv, ContractTypeOK', NEW p \in Pid, NEW s \in Supervisor, SpawnWorker(p, s)
  PROVE  /\ PoolTypeOK' /\ Reach' /\ Sizes' /\ MembersAreLive' /\ TargetKept' /\ ChildTableExact'
<1>1. NewWorker(p, s) /\ held' = held \cup {p} /\ UNCHANGED <<setVars, picked, cast>>
  BY Zenon DEF SpawnWorker
<1>2. PoolTypeOK'
  BY <1>1, FreshWorker DEF PoolInv, PoolTypeOK, setVars
<1>3. Reach'
  <2>1. /\ held \subseteq Pid /\ Inside(cast.queue) \subseteq Pid
        /\ cast' = cast /\ members' = members /\ phase' = phase
    BY <1>1, InsideTypes, Zenon DEF PoolInv, PoolTypeOK, setVars
  <2>2. \A q \in held' \cup Inside(cast'.queue) : status'[q] # "Unborn"
    BY <1>1, <2>1, FreshWorker, Zenon DEF PoolInv, Reach
  <2>3. \A w \in Workers : phase'[w] = "Building" =>
          \A q \in Inside(members'[w]) : q \notin held' \cup Inside(cast'.queue) /\ running'[q] = {}
    BY <1>1, <2>1, FreshWorker DEF PoolInv, Reach
  <2> QED BY <2>2, <2>3, Zenon DEF Reach
<1>4. Sizes' /\ TargetKept'
  BY <1>1, SizesFrame, Zenon DEF PoolInv
<1>5. MembersAreLive'
  <2>1. members' = members
    BY <1>1, Zenon DEF setVars
  <2>2. \A q \in Pid : Live(q) => status'[q] \in {"Accepting", "Stopping"}
    BY <1>1, FreshWorker, Zenon DEF Live
  <2> QED BY <2>1, <2>2, MembersFrame, Zenon DEF PoolInv
<1>6. ChildTableExact'
  BY <1>1, FreshWorker, Zenon
<1> QED
  BY <1>2, <1>3, <1>4, <1>5, <1>6, Zenon

(* A new worker can be appended to a set.                                  *)
LEMMA AddedMember ==
  ASSUME PoolInv, NEW w \in Workers, NEW p \in Pid, NEW s \in Supervisor, NewWorker(p, s),
         members' = [members EXCEPT ![w] = Append(@, p)]
  PROVE  /\ members' \in [Workers -> Seq(Pid)]
         /\ \A v \in Workers : Len(members'[v]) = IF v = w THEN Len(members[v]) + 1 ELSE Len(members[v])
         /\ \A v \in Workers : Inside(members'[v]) = IF v = w THEN Inside(members[v]) \cup {p}
                                                     ELSE Inside(members[v])
         /\ MembersAreLive'
<1>1. members \in [Workers -> Seq(Pid)]
  BY Zenon DEF PoolInv, PoolTypeOK
<1>2. \A v \in Workers : members[v] \in Seq(Pid) /\ Len(members[v]) \in Nat
                         /\ DOMAIN members[v] = 1..Len(members[v])
  BY <1>1
<1>3. members' \in [Workers -> Seq(Pid)]
  BY <1>1
<1>4. \A v \in Workers : members'[v] = IF v = w THEN Append(members[v], p) ELSE members[v]
  BY <1>1, Zenon
<1>5. /\ DOMAIN members'[w] = 1..(Len(members[w]) + 1)
      /\ Len(members'[w]) = Len(members[w]) + 1
      /\ \A i \in 1..(Len(members[w]) + 1) :
            members'[w][i] = IF i = Len(members[w]) + 1 THEN p ELSE members[w][i]
  <2>1. members'[w] = Append(members[w], p)
    BY <1>4, Zenon
  <2> QED BY <2>1, <1>2
<1>6. Inside(members'[w]) = Inside(members[w]) \cup {p}
  BY <1>2, <1>5 DEF Inside
<1>7. MembersAreLive'
  <2> SUFFICES ASSUME NEW v \in Workers, NEW i \in DOMAIN members'[v]
               PROVE  /\ status'[members'[v][i]] \in {"Accepting", "Stopping"}
                      /\ \A u \in Workers : \A j \in DOMAIN members'[u] :
                            members'[u][j] = members'[v][i] => u = v /\ j = i
      BY Zenon DEF MembersAreLive, Live
  <2>1. \A u \in Workers : \A j \in DOMAIN members'[u] :
          \/ members'[u][j] = p /\ u = w /\ j = Len(members[w]) + 1
          \/ members'[u][j] # p /\ j \in DOMAIN members[u] /\ members'[u][j] = members[u][j]
    <3> SUFFICES ASSUME NEW u \in Workers, NEW j \in DOMAIN members'[u]
                 PROVE  \/ members'[u][j] = p /\ u = w /\ j = Len(members[w]) + 1
                        \/ /\ members'[u][j] # p /\ j \in DOMAIN members[u]
                           /\ members'[u][j] = members[u][j]
        BY Zenon
    <3>1. p \notin Inside(members[u])
      BY FreshWorker, Zenon
    <3>2. CASE u # w
      BY <3>1, <3>2, <1>4, Zenon DEF Inside
    <3>3. CASE u = w
      BY <3>1, <3>3, <1>2, <1>5 DEF Inside
    <3> QED BY <3>2, <3>3, Zenon
  <2>2. \A u \in Workers : \A j \in DOMAIN members[u] : members[u][j] \in Pid
    BY <1>2
  <2>3. \A q \in Pid : status'[q] = IF q = p THEN "Accepting" ELSE status[q]
    BY FreshWorker, Zenon
  <2>4. status'[members'[v][i]] \in {"Accepting", "Stopping"}
    <3>1. CASE members'[v][i] = p
      BY <3>1, <2>3, Zenon
    <3>2. CASE members'[v][i] # p
      BY <3>2, <2>1, <2>2, <2>3 DEF PoolInv, MembersAreLive, Live
    <3> QED BY <3>1, <3>2, Zenon
  <2>5. ASSUME NEW u \in Workers, NEW j \in DOMAIN members'[u], members'[u][j] = members'[v][i]
        PROVE  u = v /\ j = i
    BY <2>1, <2>5 DEF PoolInv, MembersAreLive
  <2> QED BY <2>4, <2>5, Zenon
<1> QED
  BY <1>3, <1>4, <1>5, <1>6, <1>7, Zenon

(* One more worker of a set that is being created.                         *)
LEMMA BuildOneKeeps ==
  ASSUME PoolInv, ContractTypeOK', NEW w \in Workers, NEW p \in Pid, BuildOne(w, p)
  PROVE  /\ PoolTypeOK' /\ Reach' /\ Sizes' /\ MembersAreLive' /\ TargetKept' /\ ChildTableExact'
<1>1. owner[w] \in Supervisor /\ NewWorker(p, owner[w])
  BY Zenon DEF BuildOne, PoolInv, Sizes
<1>2. members' = [members EXCEPT ![w] = Append(@, p)]
  BY Zenon DEF BuildOne
<1>3. MembersAreLive' /\ ChildTableExact'
  BY <1>1, <1>2, AddedMember, FreshWorker, Zenon
<1>4. PoolTypeOK'
  BY <1>1, <1>2, AddedMember, FreshWorker, Zenon DEF BuildOne, PoolInv, PoolTypeOK, Phases
<1>5. Reach'
  <2>1. /\ held \subseteq Pid /\ Inside(cast.queue) \subseteq Pid
        /\ cast' = cast /\ held' = held
        /\ \A v \in Workers : Inside(members[v]) \subseteq Pid
        /\ \A v \in Workers : phase'[v] = "Building" => phase[v] = "Building"
    BY InsideTypes, Zenon DEF PoolInv, PoolTypeOK, BuildOne
  <2>2. \A q \in held' \cup Inside(cast'.queue) : status'[q] # "Unborn"
    BY <1>1, <2>1, FreshWorker DEF PoolInv, Reach
  <2>3. \A v \in Workers : phase'[v] = "Building" =>
          \A q \in Inside(members'[v]) : q \notin held' \cup Inside(cast'.queue) /\ running'[q] = {}
    <3>1. \A v \in Workers : Inside(members'[v]) \subseteq Inside(members[v]) \cup {p}
      BY <1>1, <1>2, AddedMember, Zenon
    <3>2. p \notin held \cup Inside(cast.queue) /\ running[p] = {} /\ running' = running
      BY <1>1, FreshWorker, Zenon
    <3> QED BY <2>1, <3>1, <3>2 DEF PoolInv, Reach
  <2> QED BY <2>2, <2>3, Zenon DEF Reach
<1>6. Sizes' /\ TargetKept'
  <2>1. \A v \in Workers : Len(members[v]) \in Nat /\ target[v] \in Nat
    BY DEF PoolInv, PoolTypeOK
  <2>2. /\ phase[w] = "Building" /\ Len(members[w]) < target[w]
        /\ w \notin refilling
        /\ UNCHANGED <<owner, target, refilling, starting, initing, failed>>
        /\ \A v \in Workers : phase'[v] = IF v = w THEN (IF Len(members[w]) + 1 < target[w]
                                                         THEN "Building" ELSE "Ready")
                                          ELSE phase[v]
        /\ \A v \in Workers : v # w => members'[v] = members[v]
    BY Zenon DEF BuildOne, PoolInv, Sizes, PoolTypeOK
  <2>3. \A v \in Workers : Len(members'[v]) = IF v = w THEN Len(members[v]) + 1 ELSE Len(members[v])
    BY <1>1, <1>2, AddedMember, Zenon
  <2>4. starting \in [Workers -> Nat] /\ initing \in [Workers -> Nat]
    BY Zenon DEF PoolInv, PoolTypeOK
  <2>5. Sizes'
    <3> SUFFICES ASSUME NEW v \in Workers
                 PROVE  /\ phase'[v] \in {"Unused", "Failed"} => members'[v] = <<>>
                        /\ phase'[v] \in {"Building", "Ready"} => owner[v] \in Supervisor
                        /\ phase'[v] = "Building" => Len(members'[v]) < target[v]
                        /\ starting[v] + initing[v] <= (IF v \in refilling THEN 1 ELSE 0)
                        /\ v \in refilling => /\ phase'[v] = "Ready"
                                              /\ starting[v] + initing[v] = 1 \/ v \in failed
                        /\ initing[v] > 0 => Len(members'[v]) < target[v]
        BY <2>2, Zenon DEF Sizes
    <3>1. CASE v = w
      <4>1. starting[w] + initing[w] <= 0 /\ starting[w] \in Nat /\ initing[w] \in Nat
        BY <2>2, <2>4, Zenon DEF PoolInv, Sizes
      <4>2. initing[w] = 0
        BY <4>1
      <4> QED BY <3>1, <4>1, <4>2, <1>1, <2>1, <2>2, <2>3
    <3>2. CASE v # w
      BY <3>2, <2>2, Zenon DEF PoolInv, Sizes
    <3> QED BY <3>1, <3>2, Zenon
  <2>6. TargetKept'
    <3> SUFFICES ASSUME NEW v \in Workers, phase'[v] = "Ready"
                 PROVE  /\ Len(members'[v]) <= target[v] /\ starting[v] + initing[v] <= 1
                        /\ Len(members'[v]) < target[v] => starting[v] + initing[v] = 1 \/ v \in failed
        BY <2>2, Zenon DEF TargetKept
    <3>1. CASE v = w
      <4>1. starting[w] + initing[w] <= 0 /\ starting[w] \in Nat /\ initing[w] \in Nat
        BY <2>2, <2>4, Zenon DEF PoolInv, Sizes
      <4> QED BY <3>1, <4>1, <2>1, <2>2, <2>3
    <3>2. CASE v # w
      BY <3>2, <2>2, <2>3, Zenon DEF PoolInv, TargetKept
    <3> QED BY <3>1, <3>2, Zenon
  <2> QED BY <2>5, <2>6, Zenon
<1> QED
  BY <1>3, <1>4, <1>5, <1>6, Zenon

(* One more worker of a set that is being refilled.                        *)
LEMMA RefillOneKeeps ==
  ASSUME PoolInv, ContractTypeOK', NEW w \in Workers, NEW p \in Pid, RefillOne(w, p)
  PROVE  /\ PoolTypeOK' /\ Reach' /\ Sizes' /\ MembersAreLive' /\ TargetKept' /\ ChildTableExact'
<1>0. /\ \A v \in Workers : Len(members[v]) \in Nat /\ target[v] \in Nat
      /\ starting \in [Workers -> Nat] /\ initing \in [Workers -> Nat]
  BY DEF PoolInv, PoolTypeOK
<1>1. /\ initing[w] = 1 /\ starting[w] = 0 /\ w \in refilling
      /\ phase[w] = "Ready" /\ Len(members[w]) < target[w] /\ owner[w] \in Supervisor
  BY <1>0 DEF RefillOne, PoolInv, Sizes
<1>2. NewWorker(p, owner[w]) /\ members' = [members EXCEPT ![w] = Append(@, p)]
  BY Zenon DEF RefillOne
<1>3. MembersAreLive' /\ ChildTableExact'
  BY <1>1, <1>2, AddedMember, FreshWorker, Zenon
<1>4. /\ initing' \in [Workers -> Nat]
      /\ refilling' \in SUBSET Workers /\ failed' \in SUBSET Workers /\ failed \subseteq failed'
      /\ \A v \in Workers \ {w} : initing'[v] = initing[v] /\ (v \in refilling' <=> v \in refilling)
      /\ \/ Len(members[w]) + 1 >= target[w] /\ w \notin refilling' /\ initing'[w] = 0
         \/ /\ ~ (Len(members[w]) + 1 >= target[w]) /\ w \in refilling'
            /\ initing'[w] = 1 \/ (initing'[w] = 0 /\ w \in failed')
  <2>1. refilling \in SUBSET Workers /\ failed \in SUBSET Workers
    BY Zenon DEF PoolInv, PoolTypeOK
  <2>2. \/ /\ Len(members[w]) + 1 >= target[w] /\ refilling' = refilling \ {w}
           /\ initing' = [initing EXCEPT ![w] = 0] /\ failed' = failed
        \/ /\ ~ (Len(members[w]) + 1 >= target[w]) /\ refilling' = refilling
           /\ \/ initing' = [initing EXCEPT ![w] = 1] /\ failed' = failed
              \/ initing' = [initing EXCEPT ![w] = 0] /\ failed' = failed \cup {w}
    BY <1>0, <1>1 DEF RefillOne, StartSpawn
  <2> QED BY <1>0, <1>1, <2>1, <2>2, Zenon
<1>5. PoolTypeOK'
  BY <1>1, <1>2, <1>4, AddedMember, FreshWorker, Zenon DEF RefillOne, PoolInv, PoolTypeOK
<1>6. Reach'
  <2>1. /\ held \subseteq Pid /\ Inside(cast.queue) \subseteq Pid
        /\ cast' = cast /\ held' = held /\ phase' = phase
    BY InsideTypes, Zenon DEF PoolInv, PoolTypeOK, RefillOne
  <2>2. \A q \in held' \cup Inside(cast'.queue) : status'[q] # "Unborn"
    BY <1>1, <1>2, <2>1, FreshWorker, Zenon DEF PoolInv, Reach
  <2>3. \A v \in Workers : phase'[v] = "Building" =>
          \A q \in Inside(members'[v]) : q \notin held' \cup Inside(cast'.queue) /\ running'[q] = {}
    <3>1. \A v \in Workers : v # w => Inside(members'[v]) = Inside(members[v])
      BY <1>1, <1>2, AddedMember, Zenon
    <3>2. running' = running
      BY <1>1, <1>2, FreshWorker, Zenon
    <3> QED BY <1>1, <2>1, <3>1, <3>2, Zenon DEF PoolInv, Reach
  <2> QED BY <2>2, <2>3 DEF Reach
<1>7. \A v \in Workers : Len(members'[v]) = IF v = w THEN Len(members[v]) + 1 ELSE Len(members[v])
  BY <1>1, <1>2, AddedMember, Zenon
<1>8. UNCHANGED <<phase, owner, target, starting>>
  BY Zenon DEF RefillOne
<1>9. \A v \in Workers : v # w => members'[v] = members[v]
  BY <1>2, Zenon DEF PoolInv, PoolTypeOK
<1>10. Sizes'
  <2> SUFFICES ASSUME NEW v \in Workers
               PROVE  /\ phase[v] \in {"Unused", "Failed"} => members'[v] = <<>>
                      /\ phase[v] \in {"Building", "Ready"} => owner[v] \in Supervisor
                      /\ phase[v] = "Building" => Len(members'[v]) < target[v]
                      /\ starting[v] + initing'[v] <= (IF v \in refilling' THEN 1 ELSE 0)
                      /\ v \in refilling' => /\ phase[v] = "Ready"
                                             /\ starting[v] + initing'[v] = 1 \/ v \in failed'
                      /\ initing'[v] > 0 => Len(members'[v]) < target[v]
      BY <1>8, Zenon DEF Sizes
  <2>1. CASE v = w
    BY <2>1, <1>0, <1>1, <1>4, <1>7
  <2>2. CASE v # w
    BY <2>2, <1>4, <1>9, Zenon DEF PoolInv, Sizes
  <2> QED BY <2>1, <2>2, Zenon
<1>11. TargetKept'
  <2> SUFFICES ASSUME NEW v \in Workers, phase[v] = "Ready"
               PROVE  /\ Len(members'[v]) <= target[v] /\ starting[v] + initing'[v] <= 1
                      /\ Len(members'[v]) < target[v] => starting[v] + initing'[v] = 1 \/ v \in failed'
      BY <1>8, Zenon DEF TargetKept
  <2>1. CASE v = w
    BY <2>1, <1>0, <1>1, <1>4, <1>7
  <2>2. CASE v # w
    BY <2>2, <1>4, <1>9, Zenon DEF PoolInv, TargetKept
  <2> QED BY <2>1, <2>2, Zenon
<1> QED
  BY <1>3, <1>5, <1>6, <1>10, <1>11, Zenon

=============================================================================
