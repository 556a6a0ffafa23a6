------------------------- MODULE PoolRequestProofs --------------------------
(* The steps of WorkerPool that adopt children, end a creation, select     *)
(* workers, broadcast, start requests and stop, and the refill tasks, keep *)
(* the invariant of PoolCreationProofs.                                    *)
EXTENDS PoolCreationProofs

(* Adopting a worker moves it from one list of children to another.        *)
LEMMA AdoptKeeps ==
  ASSUME PoolInv, NEW p \in Pid, NEW s \in Supervisor, Adopt(p, s)
  PROVE  /\ PoolTypeOK' /\ Reach' /\ Sizes' /\ MembersAreLive' /\ TargetKept' /\ ChildTableExact'
<1>1. UNCHANGED <<status, running, used, held, setVars, picked, cast>>
  BY Zenon DEF Adopt, contractVars
<1>2. sink \in [Pid -> Supervisor \cup {NoSupervisor}] /\ children \in [Supervisor -> SUBSET Pid]
  BY Zenon DEF PoolInv, PoolTypeOK
<1>3. /\ sink' = [sink EXCEPT ![p] = s]
      /\ children' = [t \in Supervisor |-> IF t = s THEN children[t] \cup {p}
                                       ELSE children[t] \ (IF t = sink[p] THEN {p} ELSE {})]
      /\ Live(p)
  BY Zenon DEF Adopt, Live
<1>4. /\ sink' \in [Pid -> Supervisor \cup {NoSupervisor}]
      /\ children' \in [Supervisor -> SUBSET Pid]
  BY <1>2, <1>3, Zenon
<1>5. ChildTableExact'
  BY <1>1, <1>2, <1>3 DEF PoolInv, ChildTableExact, Live
<1>6. PoolTypeOK'
  BY <1>1, <1>4, Zenon DEF PoolInv, PoolTypeOK, ContractTypeOK, setVars
<1>7. Reach' /\ Sizes' /\ TargetKept'
  BY <1>1, SizesFrame DEF PoolInv, Reach, Inside, setVars
<1>8. MembersAreLive'
  <2>1. members' = members /\ status' = status
    BY <1>1, Zenon DEF setVars
  <2> QED BY <2>1, MembersFrame, Zenon DEF PoolInv, Live
<1> QED
  BY <1>5, <1>6, <1>7, <1>8, Zenon

(* Only a legal strategy starts a creation, and its target is a natural.   *)
LEMMA StartWorkersKeeps ==
  ASSUME PoolInv, NEW w \in Workers, NEW s \in Supervisor, NEW st \in Strategies,
         StartWorkers(w, s, st)
  PROVE  /\ PoolTypeOK' /\ Reach' /\ Sizes' /\ MembersAreLive' /\ TargetKept' /\ ChildTableExact'
<1>1. UNCHANGED <<status, running, used, sink, children, held, members, nextIndex, refilling,
                  starting, initing, failed, picked, cast>>
  BY Zenon DEF StartWorkers, contractVars
<1>2. st.fix \in Nat
  BY PoolAssumption DEF StartWorkers, Valid
<1>3. /\ phase \in [Workers -> Phases] /\ target \in [Workers -> Nat]
      /\ owner \in [Workers -> Supervisor \cup {NoSupervisor}]
      /\ \A v \in Workers : Len(members[v]) \in Nat
  BY DEF PoolInv, PoolTypeOK
<1>4. /\ phase[w] = "Unused"
      /\ \A v \in Workers : phase'[v] = IF v = w THEN (IF st.fix = 0 THEN "Ready" ELSE "Building")
                                        ELSE phase[v]
      /\ \A v \in Workers : owner'[v] = IF v = w THEN s ELSE owner[v]
      /\ \A v \in Workers : target'[v] = IF v = w THEN st.fix ELSE target[v]
      /\ phase' \in [Workers -> Phases] /\ target' \in [Workers -> Nat]
      /\ owner' \in [Workers -> Supervisor \cup {NoSupervisor}]
  BY <1>2, <1>3, Zenon DEF StartWorkers, Phases
<1>5. members[w] = <<>> /\ Len(members[w]) = 0 /\ Inside(members[w]) = {} /\ w \notin refilling
  BY <1>4 DEF PoolInv, Sizes, Inside
<1>6. PoolTypeOK'
  BY <1>1, <1>4, Zenon DEF PoolInv, PoolTypeOK, ContractTypeOK
<1>7. Reach'
  BY <1>1, <1>4, <1>5 DEF PoolInv, Reach
<1>8. Sizes' /\ TargetKept'
  <2>1. Sizes /\ TargetKept /\ starting \in [Workers -> Nat] /\ initing \in [Workers -> Nat]
    BY Zenon DEF PoolInv, PoolTypeOK
  <2>2. Sizes'
    <3> SUFFICES ASSUME NEW v \in Workers
                 PROVE  /\ phase'[v] \in {"Unused", "Failed"} => members[v] = <<>>
                        /\ phase'[v] \in {"Building", "Ready"} => owner'[v] \in Supervisor
                        /\ phase'[v] = "Building" => Len(members[v]) < target'[v]
                        /\ starting[v] + initing[v] <= (IF v \in refilling THEN 1 ELSE 0)
                        /\ v \in refilling => /\ phase'[v] = "Ready"
                                              /\ starting[v] + initing[v] = 1 \/ v \in failed
                        /\ initing[v] > 0 => Len(members[v]) < target'[v]
        BY <1>1, Zenon DEF Sizes
    <3>1. CASE v # w
      BY <3>1, <1>4, <2>1, Zenon DEF Sizes
    <3>2. CASE v = w
      <4>1. starting[w] + initing[w] <= 0 /\ starting[w] \in Nat /\ initing[w] \in Nat
        BY <2>1, <1>5, Zenon DEF Sizes
      <4>2. starting[w] = 0 /\ initing[w] = 0
        BY <4>1
      <4> QED BY <3>2, <4>2, <1>2, <1>4, <1>5
    <3> QED BY <3>1, <3>2, Zenon
  <2>3. TargetKept'
    <3> SUFFICES ASSUME NEW v \in Workers, phase'[v] = "Ready"
                 PROVE  /\ Len(members[v]) <= target'[v] /\ starting[v] + initing[v] <= 1
                        /\ Len(members[v]) < target'[v] => starting[v] + initing[v] = 1 \/ v \in failed
        BY <1>1, Zenon DEF TargetKept
    <3>1. CASE v = w
      <4>1. starting[w] + initing[w] <= 0
        BY <2>1, <1>5, Zenon DEF Sizes
      <4>2. starting[w] + initing[w] <= 1
        BY <4>1, <2>1
      <4> QED BY <3>1, <4>2, <1>4, <1>5, <1>2
    <3>2. CASE v # w
      BY <3>2, <1>4, <2>1, Zenon DEF TargetKept
    <3> QED BY <3>1, <3>2, Zenon
  <2> QED BY <2>2, <2>3, Zenon
<1>9. MembersAreLive' /\ ChildTableExact'
  BY <1>1 DEF PoolInv, MembersAreLive, ChildTableExact, Live
<1> QED
  BY <1>6, <1>7, <1>8, <1>9, Zenon

(* A creation that fails forgets its workers, which stay children.         *)
LEMMA BuildFailKeeps ==
  ASSUME PoolInv, NEW w \in Workers, BuildFail(w)
  PROVE  /\ PoolTypeOK' /\ Reach' /\ Sizes' /\ MembersAreLive' /\ TargetKept' /\ ChildTableExact'
<1>1. UNCHANGED <<status, running, used, sink, children, held, owner, target, nextIndex,
                  refilling, starting, initing, failed, picked, cast>>
  BY Zenon DEF BuildFail, contractVars
<1>2. /\ phase \in [Workers -> Phases] /\ members \in [Workers -> Seq(Pid)]
      /\ \A v \in Workers : Len(members[v]) \in Nat
  BY DEF PoolInv, PoolTypeOK
<1>3. /\ phase[w] = "Building"
      /\ phase' \in [Workers -> Phases] /\ members' \in [Workers -> Seq(Pid)]
      /\ phase'[w] = "Failed" /\ members'[w] = <<>>
      /\ \A v \in Workers \ {w} : phase'[v] = phase[v] /\ members'[v] = members[v]
  BY <1>2 DEF BuildFail, Phases
<1>4. w \notin refilling /\ initing[w] = 0
  <2>1. starting[w] \in Nat /\ initing[w] \in Nat
    BY Zenon DEF PoolInv, PoolTypeOK
  <2> QED BY <2>1, <1>3 DEF PoolInv, Sizes
<1>5. PoolTypeOK'
  BY <1>1, <1>3, Zenon DEF PoolInv, PoolTypeOK, ContractTypeOK
<1>6. Reach'
  BY <1>1, <1>3, Zenon DEF PoolInv, Reach
<1>7. Sizes'
  BY <1>1, <1>3, <1>4 DEF PoolInv, Sizes
<1>8. TargetKept'
  BY <1>1, <1>3, Zenon DEF PoolInv, TargetKept
<1>9. MembersAreLive'
  <2>1. \A v \in Workers : \A i \in DOMAIN members'[v] :
           v # w /\ members'[v] = members[v] /\ i \in DOMAIN members[v]
    BY <1>3
  <2> QED BY <1>1, <2>1 DEF PoolInv, MembersAreLive, Live
<1>10. ChildTableExact'
  BY <1>1, Zenon DEF PoolInv, ChildTableExact, Live
<1> QED
  BY <1>5, <1>6, <1>7, <1>8, <1>9, <1>10, Zenon

(* What a set hands out is one of its members.                             *)
LEMMA ReserveKeeps ==
  ASSUME PoolInv, NEW w \in Workers, Reserve(w)
  PROVE  /\ PoolTypeOK' /\ Reach' /\ Sizes' /\ MembersAreLive' /\ TargetKept' /\ ChildTableExact'
<1>1. UNCHANGED <<status, running, used, sink, children, phase, owner, target, members,
                  refilling, starting, initing, failed, cast>>
  BY Zenon DEF Reserve, contractVars
<1>2. /\ members[w] \in Seq(Pid) /\ Len(members[w]) \in Nat /\ nextIndex[w] \in Nat
      /\ nextIndex \in [Workers -> Nat] /\ picked \in [Workers -> SUBSET Pid] /\ held \subseteq Pid
  BY DEF PoolInv, PoolTypeOK
<1>3. PICK k \in 0..(Len(members[w]) - 1) :
        /\ picked' = [picked EXCEPT ![w] = {members[w][Slot(w, k)]}]
        /\ held' = held \cup {members[w][Slot(w, k)]}
        /\ nextIndex' = [nextIndex EXCEPT ![w] = Slot(w, k) % Len(members[w])]
  BY Zenon DEF Reserve
<1> DEFINE p == members[w][Slot(w, k)]
<1>4. Slot(w, k) \in 1..Len(members[w])
  <2> DEFINE n == Len(members[w])
             a == nextIndex[w] + k
  <2>1. n \in Nat \ {0} /\ a \in Nat
    BY <1>2
  <2> HIDE DEF n, a
  <2>2. a % n \in 0..(n - 1)
    BY <2>1
  <2> QED BY <2>1, <2>2 DEF Slot, n, a
<1>5. p \in Pid /\ Live(p) /\ p \in Inside(members[w])
  BY <1>2, <1>4 DEF PoolInv, MembersAreLive, Inside
<1>6. Slot(w, k) % Len(members[w]) \in Nat
  BY <1>2, <1>4
<1> HIDE DEF p
<1>7. nextIndex' \in [Workers -> Nat] /\ picked' \in [Workers -> SUBSET Pid] /\ held' = held \cup {p}
  BY <1>2, <1>3, <1>5, <1>6, Zenon DEF p
<1>8. PoolTypeOK'
  BY <1>1, <1>5, <1>7, Zenon DEF PoolInv, PoolTypeOK, ContractTypeOK
<1>9. Reach'
  <2>1. \A v \in Workers : phase[v] = "Building" => p \notin Inside(members[v])
    <3>1. phase[w] = "Ready"
      BY Zenon DEF Reserve
    <3>2. \A v \in Workers : v # w => p \notin Inside(members[v])
      BY <1>5, Zenon DEF PoolInv, MembersAreLive, Inside
    <3> QED BY <3>1, <3>2, Zenon
  <2>2. status[p] # "Unborn"
    BY <1>5, Zenon DEF Live
  <2> QED BY <1>1, <1>7, <2>1, <2>2, Zenon DEF PoolInv, Reach
<1>10. Sizes'
  BY <1>1, Zenon DEF PoolInv, Sizes
<1>11. TargetKept'
  BY <1>1, Zenon DEF PoolInv, TargetKept
<1>12. MembersAreLive' /\ ChildTableExact'
  BY <1>1, MembersFrame, Zenon DEF PoolInv, ChildTableExact, Live
<1> QED
  BY <1>8, <1>9, <1>10, <1>11, <1>12, Zenon

(* The targets of a broadcast are members.                                 *)
LEMMA ChosenInside ==
  ASSUME NEW s \in Seq(Pid), NEW A \in SUBSET DOMAIN s, NEW now \in Chosen(s, A)
  PROVE  now \in Seq(Pid) /\ Inside(now) \subseteq Inside(s)
<1>1. IsFiniteSet(A)
  <2>1. IsFiniteSet(1..Len(s)) /\ DOMAIN s = 1..Len(s)
    BY FS_Interval
  <2> QED BY <2>1, FS_Subset, Zenon
<1>2. Cardinality(A) \in Nat
  BY <1>1, FS_CardinalityType, Zenon
<1>3. PICK at \in [1..Cardinality(A) -> A] : now = [i \in DOMAIN at |-> s[at[i]]]
  BY Zenon DEF Chosen
<1>4. now = [i \in 1..Cardinality(A) |-> s[at[i]]]
  BY <1>3, Zenon
<1>5. \A i \in 1..Cardinality(A) : at[i] \in DOMAIN s /\ s[at[i]] \in Pid
  OBVIOUS
<1>6. now \in Seq(Pid)
  BY <1>2, <1>4, <1>5
<1>7. DOMAIN now = 1..Cardinality(A) /\ \A i \in DOMAIN now : now[i] = s[at[i]]
  BY <1>4, Zenon
<1>8. Inside(now) \subseteq Inside(s)
  BY <1>5, <1>7 DEF Inside
<1> QED
  BY <1>6, <1>8, Zenon

(* A broadcast takes note of the members and changes nothing else.         *)
LEMMA BroadcastKeeps ==
  ASSUME PoolInv, NEW w \in Workers, Broadcast(w)
  PROVE  /\ PoolTypeOK' /\ Reach' /\ Sizes' /\ MembersAreLive' /\ TargetKept' /\ ChildTableExact'
<1>1. UNCHANGED <<status, running, used, sink, children, held, setVars, picked>>
  BY Zenon DEF Broadcast, contractVars
<1>2. PICK now \in Chosen(members[w], AcceptingPositions(w)) :
        cast' = [asked |-> <<>>, queue |-> now, waiting |-> FALSE, to |-> {w}]
  BY Zenon DEF Broadcast
<1>3. members[w] \in Seq(Pid) /\ AcceptingPositions(w) \in SUBSET DOMAIN members[w]
  BY Zenon DEF PoolInv, PoolTypeOK, AcceptingPositions
<1>4. now \in Seq(Pid) /\ Inside(now) \subseteq Inside(members[w])
  BY <1>2, <1>3, ChosenInside, Zenon
<1>5. PoolTypeOK'
  <2>1. cast' \in [asked : Seq(Pid), queue : Seq(Pid), waiting : BOOLEAN, to : SUBSET Workers]
    BY <1>2, <1>4
  <2>2. PoolTypeOK
    BY Zenon DEF PoolInv
  <2> QED BY <1>1, <2>1, <2>2, TypesFrame, Zenon
<1>6. Reach'
  <2>1. phase[w] = "Ready" /\ phase' = phase /\ members' = members /\ cast'.queue = now
    BY <1>1, <1>2, Zenon DEF Broadcast, setVars
  <2>2. \A v \in Workers : v # w => Inside(now) \cap Inside(members[v]) = {}
    <3>1. \A v \in Workers : v # w => Inside(members[w]) \cap Inside(members[v]) = {}
      BY DEF PoolInv, MembersAreLive, Inside
    <3> QED BY <1>4, <3>1, Zenon
  <2>3. \A q \in Inside(now) : status[q] # "Unborn"
    BY <1>4 DEF PoolInv, MembersAreLive, Inside, Live
  <2> QED BY <1>1, <2>1, <2>2, <2>3, Zenon DEF PoolInv, Reach
<1>7. Sizes' /\ TargetKept'
  BY <1>1, SizesFrame, Zenon DEF PoolInv
<1>8. MembersAreLive' /\ ChildTableExact'
  <2>1. members' = members
    BY <1>1, Zenon DEF setVars
  <2> QED BY <1>1, <2>1, MembersFrame, Zenon DEF PoolInv, ChildTableExact, Live
<1> QED
  BY <1>5, <1>6, <1>7, <1>8, Zenon

(* Starting a request on a process that user code or a broadcast can reach *)
(* ends nobody and finds no worker of an unfinished creation.              *)
LEMMA BeginKeeps ==
  ASSUME PoolInv, NEW p \in Pid, p \in held \cup Inside(cast.queue),
         NEW r \in Request, Begin(r, p), UNCHANGED <<sink, children, held, setVars, picked>>,
         Inside(cast'.queue) \subseteq Inside(cast.queue)
  PROVE  Reach' /\ Sizes' /\ MembersAreLive' /\ TargetKept' /\ ChildTableExact'
<1>1. /\ status' = status /\ phase' = phase /\ members' = members
      /\ sink' = sink /\ children' = children /\ held' = held
  BY Zenon DEF Begin, setVars
<1>2. running \in [Pid -> SUBSET Request]
  BY Zenon DEF PoolInv, PoolTypeOK, ContractTypeOK
<1>3. \A q \in Pid : q # p => running'[q] = running[q]
  BY <1>2, Zenon DEF Begin
<1>4. \A w \in Workers : Inside(members[w]) \subseteq Pid
  BY InsideTypes, Zenon DEF PoolInv
<1>5. Reach'
  BY <1>1, <1>3, <1>4 DEF PoolInv, Reach
<1>6. Sizes' /\ TargetKept'
  BY SizesFrame, Zenon DEF PoolInv
<1>7. MembersAreLive' /\ ChildTableExact'
  BY <1>1, MembersFrame, Zenon DEF PoolInv, ChildTableExact, Live
<1> QED
  BY <1>5, <1>6, <1>7, Zenon

(* The next target of a broadcast.                                         *)
LEMMA BroadcastNextKeeps ==
  ASSUME PoolInv, ContractTypeOK', BroadcastNext
  PROVE  /\ PoolTypeOK' /\ Reach' /\ Sizes' /\ MembersAreLive' /\ TargetKept' /\ ChildTableExact'
<1> DEFINE p == Head(cast.queue)
<1>1. /\ cast \in [asked : Seq(Pid), queue : Seq(Pid), waiting : BOOLEAN, to : SUBSET Workers]
      /\ cast.queue \in Seq(Pid) /\ cast.queue # <<>>
  BY Zenon DEF PoolInv, PoolTypeOK, BroadcastNext
<1>2. p \in Inside(cast.queue) /\ p \in Pid /\ Tail(cast.queue) \in Seq(Pid)
  BY <1>1 DEF Inside
<1>3. Inside(Tail(cast.queue)) \subseteq Inside(cast.queue)
  BY <1>1 DEF Inside
<1>4. /\ cast' = [asked |-> Append(cast.asked, p), queue |-> Tail(cast.queue),
                  waiting |-> Accepting(p), to |-> cast.to]
      /\ UNCHANGED <<sink, children, held, setVars, picked>>
      /\ (\E r \in Request : Begin(r, p)) \/ UNCHANGED contractVars
  BY Zenon DEF BroadcastNext
<1> HIDE DEF p
<1>5. Append(cast.asked, p) \in Seq(Pid) /\ cast.to \in SUBSET Workers /\ Accepting(p) \in BOOLEAN
  BY <1>1, <1>2 DEF Accepting
<1>6. cast' \in [asked : Seq(Pid), queue : Seq(Pid), waiting : BOOLEAN, to : SUBSET Workers]
  BY <1>2, <1>4, <1>5, Zenon
<1>7. PoolTypeOK'
  BY <1>4, <1>6, Zenon DEF PoolInv, PoolTypeOK, setVars
<1>8. cast'.queue = Tail(cast.queue)
  BY <1>4, Zenon
<1>9. CASE \E r \in Request : Begin(r, p)
  BY <1>2, <1>3, <1>4, <1>7, <1>8, <1>9, BeginKeeps, Zenon
<1>10. CASE UNCHANGED contractVars
  <2>1. /\ UNCHANGED <<status, running, phase, members, sink, children, held>>
    BY <1>4, <1>10, Zenon DEF contractVars, setVars
  <2>2. Reach'
    BY <2>1, <1>3, <1>8, Zenon DEF PoolInv, Reach
  <2>3. Sizes' /\ TargetKept'
    BY <1>4, SizesFrame, Zenon DEF PoolInv
  <2>4. MembersAreLive' /\ ChildTableExact'
    BY <2>1, MembersFrame, Zenon DEF PoolInv, ChildTableExact, Live
  <2> QED BY <1>7, <2>2, <2>3, <2>4, Zenon
<1> QED
  BY <1>4, <1>9, <1>10, Zenon

(* An answer a broadcast waited for touches no member and no child.        *)
LEMMA AnswerKeeps ==
  ASSUME PoolInv, BroadcastAnswer
  PROVE  /\ PoolTypeOK' /\ Reach' /\ Sizes' /\ MembersAreLive' /\ TargetKept' /\ ChildTableExact'
<1>1. /\ UNCHANGED <<status, running, used, sink, children, held, setVars, picked>>
      /\ phase' = phase /\ members' = members
      /\ cast' \in [asked : Seq(Pid), queue : Seq(Pid), waiting : BOOLEAN, to : SUBSET Workers]
      /\ cast'.queue = cast.queue
  BY Zenon DEF BroadcastAnswer, contractVars, setVars, PoolInv, PoolTypeOK
<1>2. PoolTypeOK'
  BY <1>1, Zenon DEF PoolInv, PoolTypeOK, ContractTypeOK, setVars
<1>3. Reach' /\ MembersAreLive' /\ ChildTableExact'
  BY <1>1, MembersFrame DEF PoolInv, Reach, ChildTableExact, Live
<1> QED BY <1>1, <1>2, <1>3, SizesFrame, Zenon DEF PoolInv

(* A refill task that starts, finds its set full, or fails, keeps the      *)
(* number of tasks and the target of its set.                              *)
LEMMA RefillStepsKeep ==
  ASSUME PoolInv, NEW w \in Workers, RefillStart(w) \/ RefillTrap(w) \/ RefillErr(w)
  PROVE  /\ PoolTypeOK' /\ Reach' /\ Sizes' /\ MembersAreLive' /\ TargetKept' /\ ChildTableExact'
<1>0. /\ \A v \in Workers : /\ Len(members[v]) \in Nat /\ target[v] \in Nat
                            /\ starting[v] \in Nat /\ initing[v] \in Nat
      /\ starting \in [Workers -> Nat] /\ initing \in [Workers -> Nat]
      /\ refilling \in SUBSET Workers /\ failed \in SUBSET Workers
  BY DEF PoolInv, PoolTypeOK
<1>1. /\ UNCHANGED <<status, running, used, sink, children, held, phase, owner, target, members,
                     nextIndex, picked, cast>>
  BY Zenon DEF RefillStart, RefillTrap, RefillErr, contractVars
<1>2. Reach' /\ MembersAreLive' /\ ChildTableExact'
  BY <1>1, MembersFrame DEF PoolInv, Reach, ChildTableExact, Live
<1>3. /\ starting[w] > 0 =>
           starting[w] = 1 /\ initing[w] = 0 /\ w \in refilling /\ phase[w] = "Ready"
      /\ initing[w] > 0 =>
           starting[w] = 0 /\ initing[w] = 1 /\ w \in refilling /\ phase[w] = "Ready"
  <2>1. /\ starting[w] + initing[w] <= (IF w \in refilling THEN 1 ELSE 0)
        /\ w \in refilling => phase[w] = "Ready"
        /\ starting[w] \in Nat /\ initing[w] \in Nat
    BY <1>0, Zenon DEF PoolInv, Sizes
  <2> QED BY <2>1
<1>4. /\ starting' \in [Workers -> Nat] /\ initing' \in [Workers -> Nat]
      /\ refilling' \in SUBSET Workers /\ failed' \in SUBSET Workers
      /\ w \in refilling /\ phase[w] = "Ready" /\ failed \subseteq failed'
      /\ \A v \in Workers \ {w} : /\ starting'[v] = starting[v] /\ initing'[v] = initing[v]
                                  /\ (v \in refilling' <=> v \in refilling)
      /\ starting'[w] = 0
      /\ \/ Len(members[w]) >= target[w] /\ w \notin refilling' /\ initing'[w] = 0
         \/ Len(members[w]) < target[w] /\ w \in refilling' /\ initing'[w] = 1
         \/ initing'[w] = 0 /\ w \in failed'
  <2>1. CASE RefillStart(w)
    <3>1. starting[w] = 1 /\ initing[w] = 0 /\ w \in refilling /\ phase[w] = "Ready"
      BY <1>3, <2>1, Zenon DEF RefillStart
    <3>2. starting' = [starting EXCEPT ![w] = 0]
      BY <2>1, <3>1 DEF RefillStart
    <3>3. \/ Len(members[w]) >= target[w] /\ refilling' = refilling \ {w} /\ initing' = initing
             /\ failed' = failed
          \/ /\ Len(members[w]) < target[w] /\ refilling' = refilling
             /\ initing' = [initing EXCEPT ![w] = 1] /\ failed' = failed
          \/ /\ refilling' = refilling
             /\ initing' = [initing EXCEPT ![w] = 0] /\ failed' = failed \cup {w}
      BY <1>0, <2>1, <3>1 DEF RefillStart, StartSpawn
    <3> QED BY <1>0, <3>1, <3>2, <3>3, Zenon
  <2>2. CASE RefillTrap(w) \/ RefillErr(w)
    <3>1. starting[w] = 0 /\ initing[w] = 1 /\ w \in refilling /\ phase[w] = "Ready"
      BY <1>3, <2>2, Zenon DEF RefillTrap, RefillErr
    <3>2. /\ starting' = starting /\ initing' = [initing EXCEPT ![w] = 0]
          /\ refilling' = refilling \ {w} \/ refilling' = refilling
          /\ failed' = failed \cup {w}
      BY <2>2, <3>1 DEF RefillTrap, RefillErr
    <3> QED BY <1>0, <3>1, <3>2, Zenon
  <2> QED BY <2>1, <2>2, Zenon
<1>5. PoolTypeOK'
  BY <1>1, <1>4, Zenon DEF PoolInv, PoolTypeOK, ContractTypeOK
<1>6. Sizes'
  <2> SUFFICES ASSUME NEW v \in Workers
               PROVE  /\ phase[v] \in {"Unused", "Failed"} => members[v] = <<>>
                      /\ phase[v] \in {"Building", "Ready"} => owner[v] \in Supervisor
                      /\ phase[v] = "Building" => Len(members[v]) < target[v]
                      /\ starting'[v] + initing'[v] <= (IF v \in refilling' THEN 1 ELSE 0)
                      /\ v \in refilling' => /\ phase[v] = "Ready"
                                             /\ starting'[v] + initing'[v] = 1 \/ v \in failed'
                      /\ initing'[v] > 0 => Len(members[v]) < target[v]
      BY <1>1, Zenon DEF Sizes
  <2>1. CASE v # w
    BY <2>1, <1>4 DEF PoolInv, Sizes
  <2>2. CASE v = w
    BY <2>2, <1>0, <1>4 DEF PoolInv, Sizes
  <2> QED BY <2>1, <2>2, Zenon
<1>7. TargetKept'
  <2> SUFFICES ASSUME NEW v \in Workers, phase[v] = "Ready"
               PROVE  /\ Len(members[v]) <= target[v]
                      /\ starting'[v] + initing'[v] <= 1
                      /\ Len(members[v]) < target[v] =>
                           starting'[v] + initing'[v] = 1 \/ v \in failed'
    BY <1>1, Zenon DEF TargetKept
  <2>1. /\ Len(members[v]) <= target[v] /\ starting[v] + initing[v] <= 1
        /\ Len(members[v]) < target[v] => starting[v] + initing[v] = 1 \/ v \in failed
    BY Zenon DEF PoolInv, TargetKept
  <2>2. CASE v # w
    BY <2>1, <2>2, <1>4, Zenon
  <2>3. CASE v = w
    BY <2>1, <2>3, <1>0, <1>4
  <2> QED BY <2>2, <2>3, Zenon
<1> QED
  BY <1>2, <1>5, <1>6, <1>7, Zenon

(* A request through a held pid, and a stop, touch the contract only.      *)
LEMMA RequestsKeep ==
  ASSUME PoolInv, ContractTypeOK', NEW r \in Request, NEW p \in Pid, BeginRequest(r, p) \/ Stop(r, p)
  PROVE  /\ PoolTypeOK' /\ Reach' /\ Sizes' /\ MembersAreLive' /\ TargetKept' /\ ChildTableExact'
<1>1. UNCHANGED <<sink, children, held, setVars, picked, cast>>
  BY Zenon DEF BeginRequest, Stop, poolVars
<1>2. PoolTypeOK'
  BY <1>1, Zenon DEF PoolInv, PoolTypeOK, setVars
<1>3. CASE BeginRequest(r, p)
  BY <1>1, <1>2, <1>3, BeginKeeps, Zenon DEF BeginRequest
<1>4. CASE Stop(r, p)
  <2>1. /\ running' = running /\ status[p] = "Accepting"
        /\ status' = [status EXCEPT ![p] = "Stopping"]
    BY <1>4, Zenon DEF Stop, RequestStop
  <2>2. \A q \in Pid : status'[q] = IF q = p THEN "Stopping" ELSE status[q]
    BY <2>1, Zenon DEF PoolInv, PoolTypeOK, ContractTypeOK
  <2>3. /\ phase' = phase /\ members' = members /\ held' = held /\ cast' = cast
        /\ held \subseteq Pid /\ Inside(cast.queue) \subseteq Pid
    BY <1>1, InsideTypes, Zenon DEF PoolInv, PoolTypeOK, setVars
  <2>4. Reach'
    <3>1. Reach /\ status[p] # "Unborn"
      BY <2>1, Zenon DEF PoolInv
    <3>2. \A q \in held \cup Inside(cast.queue) : status'[q] # "Unborn"
      BY <3>1, <2>2, <2>3, Zenon DEF Reach
    <3>3. /\ Inside(cast.queue)' = Inside(cast.queue)
          /\ \A v \in Workers : Inside(members[v])' = Inside(members[v])
      BY <2>3, Zenon DEF Inside
    <3> QED BY <2>1, <2>3, <3>1, <3>2, <3>3 DEF Reach
  <2>5. Sizes' /\ TargetKept'
    BY <1>1, SizesFrame, Zenon DEF PoolInv
  <2>6. MembersAreLive'
    BY <2>2, <2>3, MembersFrame, Zenon DEF PoolInv, Live
  <2>7. ChildTableExact'
    <3>1. \A q \in Pid : Live(q)' <=> Live(q)
      BY <2>1, <2>2, Zenon DEF Live
    <3> QED BY <1>1, <3>1, Zenon DEF PoolInv, ChildTableExact
  <2> QED BY <1>2, <2>4, <2>5, <2>6, <2>7, Zenon
<1> QED
  BY <1>3, <1>4, Zenon
=============================================================================
