------------------------- MODULE ArtifactCacheTypes -------------------------
(***************************************************************************)
(* Proofs about the caches on disk, for any number of processes, keys,     *)
(* paths and blocks: their types, and who holds the locks.                 *)
(***************************************************************************)
EXTENDS ArtifactCache, TLAPS

LEMMA Constants ==
  /\ NB \in Nat /\ 1 \in Blocks /\ Blocks \subseteq Nat /\ Shared \subseteq Semantic
  /\ None \notin Keys /\ None \notin Procs /\ None \notin Files
  /\ \A n \in 1..NB + 1 : n # NB + 1 => n \in Blocks /\ n + 1 \in 1..NB + 1
  BY CacheAssumption, NoneIsNoFile DEF Blocks

Owner(i) == i[1]

LEMMA Owners == \A i \in Files : Owner(i) \in Procs
  BY Zenon DEF Files, Owner

LEMMA FilesOf ==
  \A p \in Procs : /\ Temp(p) \in Files /\ Owner(Temp(p)) = p
                   /\ CopyOf(p) \in Files /\ Owner(CopyOf(p)) = p
  BY Zenon DEF Files, Temp, CopyOf, Owner

LEMMA JobFacts ==
  ASSUME job \in Jobs
  PROVE  /\ \A p \in Procs : Path(p) \in Paths /\ Key(p) \in Keys /\ job[p].copies \in BOOLEAN
         /\ \A p, q \in Procs :
              Path(p) = Path(q) /\ Path(p) \notin Shared => Key(p) = Key(q)
  <1>1. job \in [Procs -> Job]
    BY CacheAssumption, Zenon
  <1>2. \A p \in Procs : Path(p) \in Paths /\ Key(p) \in Keys /\ job[p].copies \in BOOLEAN
    BY <1>1, Zenon DEF Job, Path, Key
  <1>3. \A p, q \in Procs :
          Path(p) = Path(q) /\ Path(p) \notin Shared => Key(p) = Key(q)
    BY CacheAssumption, Zenon DEF Path, Key
  <1> QED
    BY <1>2, <1>3, Zenon

-----------------------------------------------------------------------------
(* The type invariant.  Beside it, who reads or copies has a file open. *)

States == {"start"} \cup Active \cup Ended
Contents == [Blocks -> Keys \cup {None}]
OpenFile == \A p \in Procs : pc[p] \in {"read", "copy"} => fd[p] # None
Holders == \A f \in Paths : lock[f] # None => lock[f] \in Running /\ Path(lock[f]) = f
TypeInv == TypeOK /\ OpenFile

\* How the state of a process changes.
LEMMA GotoFacts ==
  ASSUME NEW p \in Procs, NEW l \in States, pc \in [Procs -> States], Goto(p, l)
  PROVE  /\ pc' \in [Procs -> States]
         /\ pc'[p] = l /\ \A q \in Procs : q # p => pc'[q] = pc[q]
  BY Zenon DEF Goto

LEMMA FinishFacts ==
  ASSUME NEW p \in Procs, NEW how \in Ended, TypeOK, Finish(p, how), job' = job
  PROVE  /\ pc' \in [Procs -> States] /\ fd' \in [Procs -> Files \cup {None}]
         /\ pos' \in [Procs -> 1..NB + 1] /\ lock' \in [Paths -> Procs \cup {None}]
         /\ pc'[p] = how /\ fd'[p] = None /\ pos'[p] = 1
         /\ \A q \in Procs : q # p => pc'[q] = pc[q] /\ fd'[q] = fd[q] /\ pos'[q] = pos[q]
         /\ \A f \in Paths : lock'[f] = IF lock[f] = p THEN None ELSE lock[f]
         /\ Holders'
  <1>t. /\ job \in Jobs /\ pc \in [Procs -> States] /\ fd \in [Procs -> Files \cup {None}]
        /\ pos \in [Procs -> 1..NB + 1] /\ lock \in [Paths -> Procs \cup {None}] /\ Holders
    BY Zenon DEF TypeOK, States, Holders
  <1>g. Goto(p, how) /\ Closes(p) /\ lock' = Released(p)
    BY Zenon DEF Finish
  <1>1. pc' \in [Procs -> States] /\ pc'[p] = how /\ \A q \in Procs : q # p => pc'[q] = pc[q]
    BY <1>t, <1>g, GotoFacts, Zenon DEF States
  <1>2. /\ fd' \in [Procs -> Files \cup {None}] /\ fd'[p] = None
        /\ \A q \in Procs : q # p => fd'[q] = fd[q]
    BY <1>t, <1>g, Zenon DEF Closes
  <1>3. /\ pos' \in [Procs -> 1..NB + 1] /\ pos'[p] = 1
        /\ \A q \in Procs : q # p => pos'[q] = pos[q]
    BY <1>t, <1>g, Constants DEF Closes
  <1>p. Path(p) \in Paths
    BY <1>t, JobFacts, Zenon
  <1>4. /\ lock' \in [Paths -> Procs \cup {None}]
        /\ \A f \in Paths : lock'[f] = IF f = Path(p) /\ lock[f] = p THEN None ELSE lock[f]
    BY <1>t, <1>g, <1>p, Zenon DEF Released
  <1>5. \A f \in Paths : lock[f] = p => f = Path(p)
    BY <1>t, Constants, Zenon DEF Holders
  <1>6. \A f \in Paths : lock'[f] = IF lock[f] = p THEN None ELSE lock[f]
    BY <1>4, <1>5, Zenon
  <1>7. Holders'
    BY <1>t, <1>1, <1>6 DEF Holders, Running, Path
  <1> QED
    BY <1>1, <1>2, <1>3, <1>4, <1>6, <1>7, Zenon

LEMMA TargetFacts ==
  ASSUME TypeOK, NEW p \in Procs
  PROVE  CopyTarget(p) \in Files /\ CopyTarget(p) \in {dir[Path(p)], CopyOf(p)}
  <1>1. Path(p) \in Paths /\ dir \in [Paths -> Files \cup {None}]
    BY JobFacts, Zenon DEF TypeOK
  <1> QED
    BY <1>1, FilesOf, Zenon DEF CopyTarget

LEMMA WriteFacts ==
  ASSUME TypeOK, NEW p \in Procs, NEW i \in Files, WriteBlock(p, i)
  PROVE  /\ pos[p] \in Blocks /\ pos'[p] = pos[p] + 1
         /\ pos' \in [Procs -> 1..NB + 1]
         /\ \A q \in Procs : q # p => pos'[q] = pos[q]
         /\ file' \in [Files -> Contents]
         /\ \A j \in Files : j # i => file'[j] = file[j]
         /\ \A b \in Blocks : file'[i][b] = IF b = pos[p] THEN Key(p) ELSE file[i][b]
  <1>t. job \in Jobs /\ pos \in [Procs -> 1..NB + 1] /\ file \in [Files -> Contents]
    BY Zenon DEF TypeOK, Contents
  <1>k. Key(p) \in Keys
    BY <1>t, JobFacts, Zenon
  <1>1. pos[p] \in Blocks /\ pos[p] + 1 \in 1..NB + 1
    BY <1>t, Constants, Zenon DEF WriteBlock, AtEnd
  <1>2. /\ pos'[p] = pos[p] + 1 /\ pos' \in [Procs -> 1..NB + 1]
        /\ \A q \in Procs : q # p => pos'[q] = pos[q]
    BY <1>t, <1>1, Zenon DEF WriteBlock
  <1>3. file' = [file EXCEPT ![i] = [@ EXCEPT ![pos[p]] = Key(p)]]
    BY Zenon DEF WriteBlock
  <1>4. [file[i] EXCEPT ![pos[p]] = Key(p)] \in Contents
    BY <1>t, <1>k, <1>1, Zenon DEF Contents
  <1>5. file' \in [Files -> Contents] /\ \A j \in Files : j # i => file'[j] = file[j]
    BY <1>t, <1>3, <1>4, Zenon
  <1>6. \A b \in Blocks : file'[i][b] = IF b = pos[p] THEN Key(p) ELSE file[i][b]
    BY <1>t, <1>3, Zenon DEF Contents
  <1> QED
    BY <1>1, <1>2, <1>5, <1>6, Zenon

LEMMA TypeInit == Init => TypeInv
  <1> SUFFICES ASSUME Init PROVE TypeInv
    BY Zenon
  <1>1. Empty \in [Blocks -> Keys \cup {None}]
    BY Zenon DEF Empty
  <1>2. /\ job \in Jobs /\ dir \in [Paths -> Files \cup {None}]
        /\ lock \in [Paths -> Procs \cup {None}] /\ fd \in [Procs -> Files \cup {None}]
        /\ clean \subseteq Procs /\ lockless \subseteq Procs /\ crashed \in BOOLEAN
    BY Zenon DEF Init
  <1>3. pc \in [Procs -> {"start"} \cup Active \cup Ended] /\ pos \in [Procs -> 1..NB + 1]
    BY Constants DEF Init
  <1>4. /\ file \in [Files -> [Blocks -> Keys \cup {None}]]
        /\ buf \in [Procs -> [Blocks -> Keys \cup {None}]]
    BY <1>1, Zenon DEF Init
  <1>5. (\A f \in Paths : lock[f] = None) /\ \A p \in Procs : pc[p] = "start"
    BY Zenon DEF Init
  <1> QED
    BY <1>2, <1>3, <1>4, <1>5, Zenon DEF TypeInv, TypeOK, OpenFile

\* The conjuncts of TypeInv, and a step that a process takes without ending.
LEMMA TypeSplit ==
  TypeInv <=>
    /\ job \in Jobs /\ file \in [Files -> Contents]
    /\ dir \in [Paths -> Files \cup {None}] /\ lock \in [Paths -> Procs \cup {None}]
    /\ pc \in [Procs -> States] /\ fd \in [Procs -> Files \cup {None}]
    /\ buf \in [Procs -> Contents] /\ pos \in [Procs -> 1..NB + 1]
    /\ clean \subseteq Procs /\ lockless \subseteq Procs /\ crashed \in BOOLEAN
    /\ Holders /\ OpenFile
  BY Zenon DEF TypeInv, TypeOK, Holders, Contents, States

LEMMA HoldersKept ==
  ASSUME Holders, job' = job, lock' = lock, NEW p \in Procs, pc'[p] \in Active,
         \A q \in Procs : q # p => pc'[q] = pc[q]
  PROVE  Holders'
  BY Zenon DEF Holders, Running, Path

LEMMA LoadTypes ==
  ASSUME TypeInv, NEW p \in Procs,
         Open(p) \/ Read(p) \/ EndRead(p) \/ TakeLock(p) \/ LockFails(p)
  PROVE  TypeInv'
  <1>t. /\ job \in Jobs /\ file \in [Files -> Contents]
        /\ dir \in [Paths -> Files \cup {None}] /\ lock \in [Paths -> Procs \cup {None}]
        /\ pc \in [Procs -> States] /\ fd \in [Procs -> Files \cup {None}]
        /\ buf \in [Procs -> Contents] /\ pos \in [Procs -> 1..NB + 1]
        /\ clean \subseteq Procs /\ lockless \subseteq Procs /\ crashed \in BOOLEAN
        /\ Holders /\ OpenFile
    BY TypeSplit, Zenon
  <1>f. Path(p) \in Paths
    BY <1>t, JobFacts, Zenon
  <1>m. AfterMiss(p) \in {"lock", "build"}
    BY Zenon DEF AfterMiss
  <1>e. Empty \in Contents
    BY Zenon DEF Empty, Contents
  <1>s. {"again", "read", "lock", "build"} \subseteq States \cap Active /\ Ended \subseteq States
    BY Zenon DEF States, Active
  <1>1. CASE Open(p)
    <2>1. \E l \in {"lock", "build", "read"} : Goto(p, l) /\ (l = "read" => fd'[p] # None)
      BY <1>1, <1>t, <1>m, Zenon DEF Open
    <2>2. PICK l \in {"lock", "build", "read"} : Goto(p, l) /\ (l = "read" => fd'[p] # None)
      BY <2>1, Zenon
    <2>3. pc' \in [Procs -> States] /\ pc'[p] = l /\ \A q \in Procs : q # p => pc'[q] = pc[q]
      BY <2>2, <1>t, <1>s, GotoFacts, Zenon
    <2>4. /\ fd' \in [Procs -> Files \cup {None}]
          /\ \A q \in Procs : q # p => fd'[q] = fd[q]
      BY <1>1, <1>t, <1>f, Zenon DEF Open
    <2>5. UNCHANGED <<job, file, dir, lock, buf, pos, lockless, crashed>> /\ clean' \subseteq Procs
      BY <1>1, <1>t, Zenon DEF Open
    <2>6. Holders'
      BY <2>3, <2>5, <1>t, <1>s, HoldersKept, Zenon
    <2>7. OpenFile'
      BY <2>2, <2>3, <2>4, <1>t, Zenon DEF OpenFile
    <2> QED
      BY <2>3, <2>4, <2>5, <2>6, <2>7, <1>t, Zenon DEF TypeInv, TypeOK, Contents, States, Holders
  <1>2. CASE Read(p)
    <2>1. /\ UNCHANGED <<job, file, dir, lock, pc, fd, clean, lockless, crashed>>
          /\ pc[p] = "read" /\ ~AtEnd(p) /\ fd[p] \in Files
      BY <1>2, <1>t, Zenon DEF Read, EndOfFile, OpenFile
    <2>2. pos[p] \in Blocks /\ pos[p] + 1 \in 1..NB + 1
      BY <2>1, <1>t, Constants, Zenon DEF AtEnd
    <2>3. pos' \in [Procs -> 1..NB + 1]
      BY <2>2, <1>2, <1>t, Zenon DEF Read
    <2>4. [buf[p] EXCEPT ![pos[p]] = file[fd[p]][pos[p]]] \in Contents
      BY <2>1, <2>2, <1>t DEF Contents
    <2>5. buf' \in [Procs -> Contents]
      BY <2>4, <1>2, <1>t, Zenon DEF Read
    <2>6. Holders' /\ OpenFile'
      BY <2>1, <1>t, Zenon DEF Holders, OpenFile, Running, Path
    <2> QED
      BY <2>1, <2>3, <2>5, <2>6, <1>t, Zenon DEF TypeInv, TypeOK, Contents, States, Holders
  <1>3. CASE EndRead(p) /\ Decodes(p)
    <2>1. UNCHANGED <<job, file, dir, buf, clean, lockless, crashed>> /\ Finish(p, "hit")
      BY <1>3, Zenon DEF EndRead
    <2>2. TypeOK /\ "hit" \in Ended
      BY Zenon DEF TypeInv, Ended
    <2>3. /\ pc' \in [Procs -> States] /\ fd' \in [Procs -> Files \cup {None}]
          /\ pos' \in [Procs -> 1..NB + 1] /\ lock' \in [Paths -> Procs \cup {None}] /\ Holders'
          /\ pc'[p] = "hit" /\ \A q \in Procs : q # p => pc'[q] = pc[q] /\ fd'[q] = fd[q]
      BY <2>1, <2>2, FinishFacts
    <2>4. OpenFile'
      BY <2>3, <1>t, Zenon DEF OpenFile
    <2> QED
      BY <2>1, <2>3, <2>4, <1>t, Zenon DEF TypeInv, TypeOK, Contents, States, Holders
  <1>4. CASE EndRead(p) /\ ~Decodes(p)
    <2>1. UNCHANGED <<job, file, lock, clean, lockless, crashed>> /\ Goto(p, AfterMiss(p)) /\ Closes(p)
      BY <1>4, Zenon DEF EndRead
    <2>2. /\ pc' \in [Procs -> States] /\ pc'[p] = AfterMiss(p)
          /\ \A q \in Procs : q # p => pc'[q] = pc[q]
      BY <2>1, <1>m, <1>s, <1>t, GotoFacts, Zenon
    <2>3. /\ fd' \in [Procs -> Files \cup {None}] /\ pos' \in [Procs -> 1..NB + 1]
          /\ \A q \in Procs : q # p => fd'[q] = fd[q]
      BY <2>1, <1>t, Constants DEF Closes
    <2>4. buf' \in [Procs -> Contents] /\ dir' \in [Paths -> Files \cup {None}]
      BY <1>4, <1>t, <1>e, <1>f, Zenon DEF EndRead
    <2>5. Holders'
      BY <2>1, <2>2, <1>m, <1>s, <1>t, HoldersKept
    <2>6. OpenFile'
      BY <2>2, <2>3, <1>m, <1>t, Zenon DEF OpenFile
    <2> QED
      BY <2>1, <2>2, <2>3, <2>4, <2>5, <2>6, <1>t, Zenon DEF TypeInv, TypeOK, Contents, States, Holders
  <1>5. CASE TakeLock(p)
    <2>1. UNCHANGED <<job, file, dir, fd, buf, pos, clean, lockless, crashed>> /\ Goto(p, "again")
      BY <1>5, Zenon DEF TakeLock
    <2>2. pc' \in [Procs -> States] /\ pc'[p] = "again" /\ \A q \in Procs : q # p => pc'[q] = pc[q]
      BY <2>1, <1>s, <1>t, GotoFacts, Zenon
    <2>3. /\ lock' \in [Paths -> Procs \cup {None}] /\ lock'[Path(p)] = p
          /\ \A f \in Paths : f # Path(p) => lock'[f] = lock[f]
      BY <1>5, <1>t, <1>f, Zenon DEF TakeLock
    <2>4. Holders'
      BY <2>1, <2>2, <2>3, <1>s, <1>t DEF Holders, Running, Path
    <2>5. OpenFile'
      BY <2>1, <2>2, <1>t, Zenon DEF OpenFile
    <2> QED
      BY <2>1, <2>2, <2>3, <2>4, <2>5, <1>t, Zenon DEF TypeInv, TypeOK, Contents, States, Holders
  <1>6. CASE LockFails(p)
    <2>1. /\ UNCHANGED <<job, file, dir, lock, fd, buf, pos, clean, crashed>> /\ Goto(p, "build")
          /\ lockless' \subseteq Procs
      BY <1>6, <1>t, Zenon DEF LockFails
    <2>2. pc' \in [Procs -> States] /\ pc'[p] = "build" /\ \A q \in Procs : q # p => pc'[q] = pc[q]
      BY <2>1, <1>s, <1>t, GotoFacts, Zenon
    <2>3. Holders'
      BY <2>1, <2>2, <1>s, <1>t, HoldersKept, Zenon
    <2>4. OpenFile'
      BY <2>1, <2>2, <1>t, Zenon DEF OpenFile
    <2> QED
      BY <2>1, <2>2, <2>3, <2>4, <1>t, Zenon DEF TypeInv, TypeOK, Contents, States, Holders
  <1> QED
    BY <1>1, <1>2, <1>3, <1>4, <1>5, <1>6, Zenon

LEMMA StoreTypes ==
  ASSUME TypeInv, NEW p \in Procs,
         \/ Build(p) \/ Write(p) \/ Rename(p) \/ StartCopy(p) \/ Copy(p) \/ EndCopy(p)
         \/ StoreFails(p) \/ Kill(p)
  PROVE  TypeInv'
  <1>t. /\ job \in Jobs /\ file \in [Files -> Contents]
        /\ dir \in [Paths -> Files \cup {None}] /\ lock \in [Paths -> Procs \cup {None}]
        /\ pc \in [Procs -> States] /\ fd \in [Procs -> Files \cup {None}]
        /\ buf \in [Procs -> Contents] /\ pos \in [Procs -> 1..NB + 1]
        /\ clean \subseteq Procs /\ lockless \subseteq Procs /\ crashed \in BOOLEAN
        /\ Holders /\ OpenFile
    BY TypeSplit, Zenon
  <1>o. TypeOK
    BY Zenon DEF TypeInv
  <1>f. Path(p) \in Paths /\ Temp(p) \in Files /\ CopyOf(p) \in Files
    BY <1>t, JobFacts, FilesOf, Zenon
  <1>e. Empty \in Contents
    BY Zenon DEF Empty, Contents
  <1>s. {"write", "copy"} \subseteq States \cap Active /\ {"stored", "failed", "dead"} \subseteq Ended
    BY Zenon DEF States, Active, Ended
  <1>1. CASE Build(p)
    <2>1. UNCHANGED <<job, dir, lock, fd, buf, pos, clean, lockless, crashed>> /\ Goto(p, "write")
      BY <1>1, Zenon DEF Build
    <2>2. pc' \in [Procs -> States] /\ pc'[p] = "write" /\ \A q \in Procs : q # p => pc'[q] = pc[q]
      BY <2>1, <1>s, <1>t, GotoFacts, Zenon
    <2>3. file' \in [Files -> Contents]
      BY <1>1, <1>e, <1>f, <1>t, Zenon DEF Build
    <2>4. Holders'
      BY <2>1, <2>2, <1>s, <1>t, HoldersKept, Zenon
    <2>5. OpenFile'
      BY <2>1, <2>2, <1>t, Zenon DEF OpenFile
    <2> QED
      BY <2>1, <2>2, <2>3, <2>4, <2>5, <1>t, Zenon DEF TypeInv, TypeOK, Contents, States, Holders
  <1>2. CASE Write(p) \/ Copy(p)
    <2>1. \E i \in Files : WriteBlock(p, i)
      BY <1>2, <1>f, <1>t, Zenon DEF Write, Copy, OpenFile
    <2>2. PICK i \in Files : WriteBlock(p, i)
      BY <2>1, Zenon
    <2>3. UNCHANGED <<job, dir, lock, pc, fd, buf, clean, lockless, crashed>>
      BY <2>2, Zenon DEF WriteBlock
    <2>4. pos' \in [Procs -> 1..NB + 1] /\ file' \in [Files -> Contents]
      BY <2>2, <1>o, WriteFacts, Zenon
    <2>5. Holders' /\ OpenFile'
      BY <2>3, <1>t, Zenon DEF Holders, OpenFile, Running, Path
    <2> QED
      BY <2>3, <2>4, <2>5, <1>t, Zenon DEF TypeInv, TypeOK, Contents, States, Holders
  <1>3. CASE StartCopy(p)
    <2>1. UNCHANGED <<job, lock, buf, clean, lockless, crashed>> /\ Goto(p, "copy")
      BY <1>3, Zenon DEF StartCopy
    <2>2. CopyTarget(p) \in Files
      BY <1>o, TargetFacts, Zenon
    <2>3. pc' \in [Procs -> States] /\ pc'[p] = "copy" /\ \A q \in Procs : q # p => pc'[q] = pc[q]
      BY <2>1, <1>s, <1>t, GotoFacts, Zenon
    <2>4. /\ dir' \in [Paths -> Files \cup {None}] /\ file' \in [Files -> Contents]
          /\ fd' \in [Procs -> Files \cup {None}] /\ pos' \in [Procs -> 1..NB + 1]
          /\ fd'[p] # None /\ \A q \in Procs : q # p => fd'[q] = fd[q]
      BY <1>3, <2>2, <1>e, <1>f, <1>t, Constants DEF StartCopy
    <2>5. Holders'
      BY <2>1, <2>3, <1>s, <1>t, HoldersKept, Zenon
    <2>6. OpenFile'
      BY <2>3, <2>4, <1>t, Zenon DEF OpenFile
    <2> QED
      BY <2>1, <2>3, <2>4, <2>5, <2>6, <1>t, Zenon DEF TypeInv, TypeOK, Contents, States, Holders
  <1>4. CASE Rename(p) \/ EndCopy(p) \/ StoreFails(p) \/ Kill(p)
    <2>1. UNCHANGED <<job, buf, lockless, crashed>> /\ \E how \in Ended : Finish(p, how)
      BY <1>4, <1>s, Zenon DEF Rename, EndCopy, StoreFails, Kill
    <2>2. clean' \subseteq Procs
      BY <1>4, <1>t, Zenon DEF Rename, EndCopy, StoreFails, Kill
    <2>3. dir' \in [Paths -> Files \cup {None}] /\ file' \in [Files -> Contents]
      BY <1>4, <1>e, <1>f, <1>t DEF Rename, EndCopy, StoreFails, Kill
    <2>4. PICK how \in Ended : Finish(p, how)
      BY <2>1, Zenon
    <2>5. /\ pc' \in [Procs -> States] /\ fd' \in [Procs -> Files \cup {None}]
          /\ pos' \in [Procs -> 1..NB + 1] /\ lock' \in [Paths -> Procs \cup {None}] /\ Holders'
          /\ pc'[p] = how /\ \A q \in Procs : q # p => pc'[q] = pc[q] /\ fd'[q] = fd[q]
      BY <2>1, <2>4, <1>o, FinishFacts
    <2>6. OpenFile'
      BY <2>5, <1>t, Zenon DEF OpenFile, Ended
    <2> QED
      BY <2>1, <2>2, <2>3, <2>5, <2>6, <1>t, Zenon DEF TypeInv, TypeOK, Contents, States, Holders
  <1> QED
    BY <1>1, <1>2, <1>3, <1>4, Zenon

LEMMA CrashFacts ==
  ASSUME TypeInv, MachineCrash
  PROVE  /\ TypeInv' /\ UNCHANGED <<job, dir, fd, buf, pos, lockless>> /\ crashed'
         /\ \A p \in Procs : pc'[p] = IF pc[p] \in Active THEN "dead" ELSE pc[p]
         /\ \A f \in Paths : lock'[f] = None
         /\ \A i \in Files, b \in Blocks : file'[i][b] \in {file[i][b], None}
  <1>t. file \in [Files -> Contents] /\ pc \in [Procs -> States] /\ OpenFile
    BY TypeSplit, Zenon
  <1>1. /\ UNCHANGED <<job, dir, fd, buf, pos, lockless>> /\ crashed' = TRUE
        /\ lock' = [f \in Paths |-> None] /\ clean' = {}
    BY Zenon DEF MachineCrash
  <1>2. /\ pc' \in [Procs -> States]
        /\ \A p \in Procs : pc'[p] = IF pc[p] \in Active THEN "dead" ELSE pc[p]
    BY <1>t, Zenon DEF MachineCrash, Running, States, Ended
  <1>3. /\ file' \in [Files -> Contents]
        /\ \A i \in Files, b \in Blocks : file'[i][b] \in {file[i][b], None}
    <2>1. PICK n \in 0..NB :
            file' = [i \in Files |-> [b \in Blocks |-> IF b <= n THEN file[i][b] ELSE None]]
      BY Zenon DEF MachineCrash
    <2>2. \A i \in Files : file[i] \in [Blocks -> Keys \cup {None}]
      BY <1>t, Zenon DEF Contents
    <2> QED
      BY <2>1, <2>2, Zenon DEF Contents
  <1>4. Holders' /\ OpenFile'
    BY <1>1, <1>2, <1>t, Zenon DEF Holders, OpenFile, Active
  <1> QED
    BY <1>1, <1>2, <1>3, <1>4, Zenon DEF TypeInv, TypeOK, Contents, States, Holders

LEMMA TypeNext == TypeInv /\ [Next]_vars => TypeInv'
  <1> SUFFICES ASSUME TypeInv, [Next]_vars PROVE TypeInv'
    BY Zenon
  <1>1. CASE \E p \in Procs : Step(p) \/ LockFails(p) \/ StoreFails(p) \/ Kill(p)
    BY <1>1, LoadTypes, StoreTypes, Zenon DEF Step
  <1>2. CASE MachineCrash
    BY <1>2, CrashFacts, Zenon
  <1>3. CASE UNCHANGED vars
    BY <1>3, Zenon DEF vars, TypeInv, TypeOK, OpenFile, Running, Path
  <1> QED
    BY <1>1, <1>2, <1>3, Zenon DEF Next

\* The caches keep their types, and a lock is held only by a process that runs
\* and works on the path: nobody dies or ends with a lock (the lock file is
\* released with the process, SemanticCacheLockGuard).
THEOREM CacheTypes == Spec => []TypeOK
  <1>1. Spec => []TypeInv
    BY TypeInit, TypeNext, PTL DEF Spec
  <1>2. TypeInv => TypeOK
    BY Zenon DEF TypeInv
  <1> QED
    BY <1>1, <1>2, PTL

-----------------------------------------------------------------------------
(* Locks are for the semantic caches, and whoever stores there holds one,    *)
(* unless its lock call failed.                                              *)

Guarded ==
  /\ \A p \in Procs : pc[p] = "lock" => Path(p) \in Semantic
  /\ \A f \in Paths : lock[f] # None => f \in Semantic
  /\ \A p \in Procs : Path(p) \in Semantic /\ pc[p] \in {"again", "build", "write", "copy"} =>
                        p \in lockless \/ lock[Path(p)] = p

LEMMA GuardedInit == Init => Guarded
  BY DEF Init, Guarded

LEMMA GuardedNext == TypeInv /\ Guarded /\ [Next]_vars => Guarded'
  <1> SUFFICES ASSUME TypeInv, Guarded, [Next]_vars PROVE Guarded'
    BY Zenon
  <1>t. /\ job \in Jobs /\ lock \in [Paths -> Procs \cup {None}] /\ pc \in [Procs -> States]
        /\ Holders /\ TypeOK
    BY TypeSplit, Zenon DEF TypeInv
  <1>f. \A p \in Procs : Path(p) \in Paths
    BY <1>t, JobFacts, Zenon
  <1>1. ASSUME NEW p \in Procs, Open(p) \/ (EndRead(p) /\ ~Decodes(p)) PROVE Guarded'
    <2>1. UNCHANGED <<job, lock, lockless>> /\ \A q \in Procs : q # p => pc'[q] = pc[q]
      BY <1>1, <1>t, Zenon DEF Open, EndRead, Goto
    <2>2. pc'[p] \in {"read", AfterMiss(p)}
      BY <1>1, <1>t, Zenon DEF Open, EndRead, Goto
    <2> QED
      BY <2>1, <2>2, Zenon DEF Guarded, AfterMiss, Path
  <1>2. ASSUME NEW p \in Procs, TakeLock(p) PROVE Guarded'
    <2>1. /\ UNCHANGED <<job, lockless>> /\ pc'[p] = "again" /\ \A q \in Procs : q # p => pc'[q] = pc[q]
          /\ pc[p] = "lock" /\ lock[Path(p)] = None /\ lock'[Path(p)] = p
          /\ \A f \in Paths : f # Path(p) => lock'[f] = lock[f]
      BY <1>2, <1>t, <1>f, Zenon DEF TakeLock, Goto
    <2> QED
      BY <2>1, <1>f, Constants DEF Guarded, Path
  <1>3. ASSUME NEW p \in Procs, LockFails(p) \/ Build(p) \/ StartCopy(p) PROVE Guarded'
    <2>1. /\ UNCHANGED <<job, lock>> /\ \A q \in Procs : q # p => pc'[q] = pc[q]
          /\ lockless \subseteq lockless'
      BY <1>3, <1>t, Zenon DEF LockFails, Build, StartCopy, Goto
    <2>2. \/ p \in lockless' /\ pc'[p] = "build"
          \/ pc[p] \in {"build", "write"} /\ pc'[p] \in {"write", "copy"}
      BY <1>3, <1>t, Zenon DEF LockFails, Build, StartCopy, Goto
    <2> QED
      BY <2>1, <2>2, Zenon DEF Guarded, Path
  <1>4. ASSUME NEW p \in Procs, Read(p) \/ Write(p) \/ Copy(p) PROVE Guarded'
    BY <1>4, Zenon DEF Read, Write, Copy, WriteBlock, Guarded, Path
  <1>5. ASSUME NEW p \in Procs,
               \/ EndRead(p) /\ Decodes(p)
               \/ Rename(p) \/ EndCopy(p) \/ StoreFails(p) \/ Kill(p)
        PROVE  Guarded'
    <2>1. UNCHANGED <<job, lockless>> /\ \E how \in Ended : Finish(p, how)
      BY <1>5, Zenon DEF EndRead, Rename, EndCopy, StoreFails, Kill, Ended
    <2>2. PICK how \in Ended : Finish(p, how)
      BY <2>1, Zenon
    <2>3. /\ pc'[p] = how /\ \A q \in Procs : q # p => pc'[q] = pc[q]
          /\ \A f \in Paths : lock'[f] = IF lock[f] = p THEN None ELSE lock[f]
      BY <2>1, <2>2, <1>t, FinishFacts
    <2> QED
      BY <2>1, <2>3, <1>f, Zenon DEF Guarded, Path, Ended
  <1>6. CASE MachineCrash
    <2>1. /\ UNCHANGED job /\ \A f \in Paths : lock'[f] = None
          /\ \A p \in Procs : pc'[p] = IF pc[p] \in Active THEN "dead" ELSE pc[p]
      BY <1>6, CrashFacts, Zenon
    <2> QED
      BY <2>1, Zenon DEF Guarded, Active
  <1>7. CASE UNCHANGED vars
    BY <1>7, Zenon DEF vars, Guarded, Path
  <1> QED
    BY <1>1, <1>2, <1>3, <1>4, <1>5, <1>6, <1>7, Zenon DEF Next, Step

=============================================================================
