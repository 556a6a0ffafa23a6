------------------------ MODULE ArtifactReadProofs --------------------------
(***************************************************************************)
(* Proofs about the caches on disk: a path leads to complete artifacts     *)
(* only, and a file holds blocks of one artifact.                          *)
(***************************************************************************)
EXTENDS ArtifactCacheTypes

(* Whoever created the file under a path, or the file a process has open,    *)
(* worked on that path.                                                      *)

DirOwned == \A f \in Paths : dir[f] # None => Path(Owner(dir[f])) = f
ProcOwned(p) ==
  /\ fd[p] # None => Path(Owner(fd[p])) = Path(p)
  /\ pc[p] = "copy" => job[p].copies
  /\ pc[p] \in {"start", "again", "lock", "build"} => pos[p] = 1
Owned == DirOwned /\ \A p \in Procs : ProcOwned(p)

LEMMA OwnedFrame ==
  ASSUME Owned, job' = job, DirOwned', NEW p \in Procs, ProcOwned(p)',
         \A q \in Procs : q # p => pc'[q] = pc[q] /\ fd'[q] = fd[q] /\ pos'[q] = pos[q]
  PROVE  Owned'
  <1>1. ASSUME NEW q \in Procs, q # p PROVE ProcOwned(q)'
    BY <1>1 DEF Owned, ProcOwned, Path
  <1> QED
    BY <1>1, Zenon DEF Owned

LEMMA OwnedLoad ==
  ASSUME TypeInv, Owned, NEW p \in Procs,
         Open(p) \/ Read(p) \/ EndRead(p) \/ TakeLock(p) \/ LockFails(p)
  PROVE  Owned'
  <1>t. /\ job \in Jobs /\ dir \in [Paths -> Files \cup {None}] /\ pc \in [Procs -> States]
        /\ fd \in [Procs -> Files \cup {None}] /\ pos \in [Procs -> 1..NB + 1] /\ TypeOK
    BY TypeSplit, Zenon DEF TypeInv
  <1>o. DirOwned /\ ProcOwned(p)
    BY Zenon DEF Owned
  <1>f. Path(p) \in Paths
    BY <1>t, JobFacts, Zenon
  <1>m. AfterMiss(p) \in {"lock", "build"}
    BY Zenon DEF AfterMiss
  <1>g. job' = job
    BY Zenon DEF Open, Read, EndRead, TakeLock, LockFails
  <1>i. DirOwned'
    BY <1>g, <1>o, <1>f, <1>t, Zenon DEF DirOwned, Path, Open, Read, EndRead, TakeLock, LockFails
  <1>q. \A q \in Procs : q # p => pc'[q] = pc[q] /\ fd'[q] = fd[q] /\ pos'[q] = pos[q]
    BY <1>t DEF Open, Read, EndRead, TakeLock, LockFails, Finish, Closes, Goto
  <1>1. CASE Open(p)
    <2>1. pos'[p] = 1 /\ pc'[p] \in {"lock", "build", "read"}
      BY <1>1, <1>m, <1>o, <1>t, Zenon DEF Open, ProcOwned, Goto
    <2>2. fd'[p] \in {fd[p], dir[Path(p)]}
      BY <1>1, <1>t, Zenon DEF Open
    <2>3. fd'[p] # None => Path(Owner(fd'[p])) = Path(p)
      BY <2>2, <1>o, <1>f DEF ProcOwned, DirOwned
    <2>4. ProcOwned(p)'
      BY <2>1, <2>3, <1>g, Zenon DEF ProcOwned, Path
    <2> QED
      BY <2>4, <1>g, <1>i, <1>q, OwnedFrame, Zenon
  <1>2. CASE Read(p)
    <2>1. UNCHANGED <<pc, fd>> /\ pc[p] = "read"
      BY <1>2, Zenon DEF Read
    <2>2. ProcOwned(p)'
      BY <2>1, <1>g, <1>o, Zenon DEF ProcOwned, Path
    <2> QED
      BY <2>2, <1>g, <1>i, <1>q, OwnedFrame
  <1>3. CASE EndRead(p)
    <2>1. pc'[p] \in {"hit", "lock", "build"} /\ fd'[p] = None /\ pos'[p] = 1
      BY <1>3, <1>m, <1>t DEF EndRead, Finish, Goto, Closes
    <2>2. ProcOwned(p)'
      BY <2>1, Zenon DEF ProcOwned
    <2> QED
      BY <2>2, <1>g, <1>i, <1>q, OwnedFrame
  <1>4. CASE TakeLock(p) \/ LockFails(p)
    <2>1. pc'[p] \in {"again", "build"} /\ pc[p] = "lock" /\ UNCHANGED <<fd, pos>>
      BY <1>4, <1>t, Zenon DEF TakeLock, LockFails, Goto
    <2>2. ProcOwned(p)'
      BY <2>1, <1>g, <1>o, Zenon DEF ProcOwned, Path
    <2> QED
      BY <2>2, <1>g, <1>i, <1>q, OwnedFrame
  <1> QED
    BY <1>1, <1>2, <1>3, <1>4, Zenon

LEMMA OwnedStore ==
  ASSUME TypeInv, Owned, NEW p \in Procs,
         \/ Build(p) \/ Write(p) \/ Rename(p) \/ StartCopy(p) \/ Copy(p) \/ EndCopy(p)
         \/ StoreFails(p) \/ Kill(p)
  PROVE  Owned'
  <1>t. /\ job \in Jobs /\ dir \in [Paths -> Files \cup {None}] /\ pc \in [Procs -> States]
        /\ fd \in [Procs -> Files \cup {None}] /\ pos \in [Procs -> 1..NB + 1] /\ TypeOK
    BY TypeSplit, Zenon DEF TypeInv
  <1>o. DirOwned /\ ProcOwned(p)
    BY Zenon DEF Owned
  <1>f. Path(p) \in Paths /\ Owner(Temp(p)) = p
    BY <1>t, JobFacts, FilesOf, Zenon
  <1>g. job' = job
    BY Zenon DEF Build, Write, Rename, StartCopy, Copy, EndCopy, StoreFails, Kill, WriteBlock
  <1>q. \A q \in Procs : q # p => pc'[q] = pc[q] /\ fd'[q] = fd[q] /\ pos'[q] = pos[q]
    BY <1>t DEF Build, Write, Rename, StartCopy, Copy, EndCopy, StoreFails, Kill, WriteBlock,
                Finish, Closes, Goto
  <1>1. CASE Build(p) \/ Write(p) \/ Copy(p)
    <2>1. /\ UNCHANGED <<dir, fd>> /\ pc'[p] \in {"write", "copy"}
          /\ pc'[p] = "copy" => pc[p] = "copy"
      BY <1>1, <1>t, Zenon DEF Build, Write, Copy, WriteBlock, Goto
    <2>2. DirOwned' /\ ProcOwned(p)'
      BY <2>1, <1>g, <1>o, Zenon DEF DirOwned, ProcOwned, Path
    <2> QED
      BY <2>2, <1>g, <1>q, OwnedFrame, Zenon
  <1>2. CASE StartCopy(p)
    <2>1. Path(Owner(CopyTarget(p))) = Path(p)
      BY <1>f, <1>o, FilesOf, Zenon DEF CopyTarget, DirOwned
    <2>2. DirOwned'
      BY <1>2, <2>1, <1>f, <1>g, <1>o, <1>t, Zenon DEF StartCopy, DirOwned, Path
    <2>3. ProcOwned(p)'
      BY <1>2, <2>1, <1>g, <1>t, Zenon DEF StartCopy, Goto, ProcOwned, Path
    <2> QED
      BY <2>2, <2>3, <1>g, <1>q, OwnedFrame, Zenon
  <1>3. CASE Rename(p) \/ EndCopy(p) \/ StoreFails(p) \/ Kill(p)
    <2>1. \E how \in {"stored", "failed", "dead"} : Finish(p, how)
      BY <1>3, Zenon DEF Rename, EndCopy, StoreFails, Kill
    <2>2. pc'[p] \in {"stored", "failed", "dead"} /\ fd'[p] = None
      BY <2>1, <1>t, Zenon DEF Finish, Goto, Closes
    <2>3. ProcOwned(p)'
      BY <2>2, Zenon DEF ProcOwned
    <2>4. DirOwned'
      BY <1>3, <1>f, <1>g, <1>o, <1>t DEF Rename, EndCopy, StoreFails, Kill, DirOwned, Path
    <2> QED
      BY <2>3, <2>4, <1>g, <1>q, OwnedFrame, Zenon
  <1> QED
    BY <1>1, <1>2, <1>3, Zenon

LEMMA OwnedInit == Init => Owned
  <1> SUFFICES ASSUME Init PROVE Owned
    BY Zenon
  <1>1. DirOwned
    BY Zenon DEF Init, DirOwned
  <1>2. \A p \in Procs : pc[p] = "start" /\ fd[p] = None /\ pos[p] = 1
    BY Zenon DEF Init
  <1> QED
    BY <1>1, <1>2, Zenon DEF Owned, ProcOwned

LEMMA OwnedNext == TypeInv /\ Owned /\ [Next]_vars => Owned'
  <1> SUFFICES ASSUME TypeInv, Owned, [Next]_vars PROVE Owned'
    BY Zenon
  <1>1. CASE \E p \in Procs : Step(p) \/ LockFails(p) \/ StoreFails(p) \/ Kill(p)
    BY <1>1, OwnedLoad, OwnedStore, Zenon DEF Step
  <1>2. CASE MachineCrash
    <2>1. /\ UNCHANGED <<job, dir, fd, pos>>
          /\ \A p \in Procs : pc'[p] = IF pc[p] \in Active THEN "dead" ELSE pc[p]
      BY <1>2, CrashFacts, Zenon
    <2>2. DirOwned'
      BY <2>1, Zenon DEF Owned, DirOwned, Path
    <2>3. \A p \in Procs : ProcOwned(p)'
      BY <2>1, Zenon DEF Owned, ProcOwned, Active, Path
    <2> QED
      BY <2>2, <2>3, Zenon DEF Owned
  <1>3. CASE UNCHANGED vars
    BY <1>3, Zenon DEF vars, Owned, DirOwned, ProcOwned, Path
  <1> QED
    BY <1>1, <1>2, <1>3, Zenon DEF Next

-----------------------------------------------------------------------------
(* What a path leads to.  A temporary file is found there only when its      *)
(* process has stored it, so no later write or failure of that process cuts  *)
(* it, and it was complete when it got there.                                *)

Uncopied(f) == \A p \in Procs : Path(p) = f => ~job[p].copies
LinkedIsStored == \A f \in Paths : \A p \in Procs : dir[f] = Temp(p) => pc[p] = "stored"
Prefix == \A p \in Procs : pc[p] = "write" =>
            \A b \in Blocks : b < pos[p] => file[Temp(p)][b] = Key(p)
StoredWhole == \A f \in Paths :
  ~crashed /\ dir[f] # None /\ Uncopied(f) =>
    \E p \in Procs : dir[f] = Temp(p) /\ \A b \in Blocks : file[Temp(p)][b] = Key(p)
OpenIsStored == \A p, q \in Procs : fd[p] = Temp(q) => pc[q] = "stored"
Published == LinkedIsStored /\ OpenIsStored /\ Prefix /\ StoredWhole

LEMMA TempIsFile == \A p \in Procs : Temp(p) \in Files /\ Temp(p) # None
  BY FilesOf, Constants, Zenon

LEMMA TempIsOwn == \A p, q \in Procs : Temp(p) = Temp(q) => p = q
  BY Zenon DEF Temp

LEMMA CopyIsNoTemp == \A p, q \in Procs : CopyOf(p) # Temp(q)
  BY Zenon DEF Temp, CopyOf

LEMMA PublishedInit == Init => Published
  <1> SUFFICES ASSUME Init PROVE Published
    OBVIOUS
  <1>1. /\ \A p \in Procs : pc[p] = "start" /\ fd[p] = None
        /\ \A f \in Paths : dir[f] = None
    BY Zenon DEF Init
  <1> QED
    BY <1>1, TempIsFile, Zenon DEF Published, LinkedIsStored, OpenIsStored, Prefix, StoredWhole

\* Steps that write no file and put none in place.
\* A stored file stays so: links and open files lead to stored files only.
LEMMA LinksFrame ==
  ASSUME Published,
         \A q \in Procs : pc[q] = "stored" => pc'[q] = "stored",
         \A f \in Paths : \A q \in Procs :
           dir'[f] = Temp(q) => dir[f] = Temp(q) \/ pc'[q] = "stored",
         \A r, q \in Procs :
           fd'[r] = Temp(q) => fd[r] = Temp(q) \/ \E f \in Paths : dir[f] = Temp(q)
  PROVE  LinkedIsStored' /\ OpenIsStored'
  <1>l. LinkedIsStored /\ OpenIsStored
    BY Zenon DEF Published
  <1>1. LinkedIsStored'
    BY <1>l, Zenon DEF LinkedIsStored
  <1>2. OpenIsStored'
    BY <1>l, Zenon DEF LinkedIsStored, OpenIsStored
  <1> QED
    BY <1>1, <1>2, Zenon

LEMMA PublishedNext == TypeInv /\ Owned /\ Published /\ [Next]_vars => Published'
  <1> SUFFICES ASSUME TypeInv, Owned, Published, [Next]_vars PROVE Published'
    BY Zenon
  <1>t. /\ job \in Jobs /\ file \in [Files -> Contents] /\ dir \in [Paths -> Files \cup {None}]
        /\ pc \in [Procs -> States] /\ fd \in [Procs -> Files \cup {None}]
        /\ pos \in [Procs -> 1..NB + 1] /\ TypeOK /\ OpenFile
    BY TypeSplit, Zenon DEF TypeInv
  <1>l. LinkedIsStored /\ OpenIsStored /\ Prefix /\ StoredWhole
    BY Zenon DEF Published
  <1>f. \A p \in Procs : Path(p) \in Paths
    BY <1>t, JobFacts, Zenon
  <1>1. ASSUME NEW p \in Procs,
               Open(p) \/ Read(p) \/ EndRead(p) \/ TakeLock(p) \/ LockFails(p) \/ EndCopy(p) \/ Kill(p)
        PROVE  Published'
    <2>1. UNCHANGED <<job, file, crashed>> /\ pc[p] # "stored"
      BY <1>1, Zenon DEF Open, Read, EndRead, TakeLock, LockFails, EndCopy, Kill, Running, Active
    <2>2. pc'[p] # "write" /\ \A q \in Procs : q # p => pc'[q] = pc[q] /\ pos'[q] = pos[q] /\ fd'[q] = fd[q]
      BY <1>1, <1>t DEF Open, Read, EndRead, TakeLock, LockFails, EndCopy, Kill, Finish, Closes,
                        Goto, AfterMiss
    <2>3. (\A f \in Paths : dir'[f] \in {dir[f], None}) /\ fd'[p] \in {fd[p], None, dir[Path(p)]}
      BY <1>1, <1>t, <1>f, Zenon DEF Open, Read, EndRead, TakeLock, LockFails, EndCopy, Kill, Finish, Closes
    <2>4. LinkedIsStored' /\ OpenIsStored'
      BY <2>1, <2>2, <2>3, <1>f, TempIsFile, LinksFrame
    <2>5. Prefix'
      BY <2>1, <2>2, <1>l, Zenon DEF Prefix, Key
    <2>6. StoredWhole'
      BY <2>1, <2>3, <1>l DEF StoredWhole, Uncopied, Key, Path
    <2> QED
      BY <2>4, <2>5, <2>6, Zenon DEF Published
  <1>2. ASSUME NEW p \in Procs, Build(p) \/ StoreFails(p) PROVE Published'
    <2>1. UNCHANGED <<job, dir, crashed>> /\ file' = [file EXCEPT ![Temp(p)] = Empty] /\ pc[p] # "stored"
      BY <1>2, Zenon DEF Build, StoreFails
    <2>2. \A q \in Procs : q # p => pc'[q] = pc[q] /\ pos'[q] = pos[q] /\ fd'[q] = fd[q]
      BY <1>2, <1>t DEF Build, StoreFails, Finish, Closes, Goto
    <2>3. \A q \in Procs : q # p => file'[Temp(q)] = file[Temp(q)]
      BY <2>1, <1>t, TempIsFile, TempIsOwn, Zenon
    <2>4. (pc'[p] = "write" => pos'[p] = 1) /\ fd'[p] \in {fd[p], None}
      BY <1>2, <1>t, Zenon DEF Build, StoreFails, Finish, Closes, Goto, Owned, ProcOwned
    <2>5. LinkedIsStored' /\ OpenIsStored'
      BY <2>1, <2>2, <2>4, TempIsFile, LinksFrame, Zenon
    <2>6. \A b \in Blocks : ~(b < 1)
      BY DEF Blocks
    <2>7. Prefix'
      BY <2>1, <2>2, <2>3, <2>4, <2>6, <1>l DEF Prefix, Key
    <2>8. StoredWhole'
      BY <2>1, <2>3, <1>l DEF LinkedIsStored, StoredWhole, Uncopied, Key, Path
    <2> QED
      BY <2>5, <2>7, <2>8 DEF Published
  <1>3. ASSUME NEW p \in Procs, Write(p) PROVE Published'
    <2>1. UNCHANGED <<job, dir, crashed, pc, fd>> /\ WriteBlock(p, Temp(p)) /\ pc[p] = "write"
      BY <1>3, Zenon DEF Write, WriteBlock
    <2>2. /\ pos[p] \in Blocks /\ pos'[p] = pos[p] + 1
          /\ \A q \in Procs : q # p => pos'[q] = pos[q]
          /\ \A j \in Files : j # Temp(p) => file'[j] = file[j]
          /\ \A b \in Blocks : file'[Temp(p)][b] = IF b = pos[p] THEN Key(p) ELSE file[Temp(p)][b]
      BY <2>1, <1>t, TempIsFile, WriteFacts
    <2>3. \A q \in Procs : q # p => file'[Temp(q)] = file[Temp(q)]
      BY <2>2, TempIsFile, TempIsOwn, Zenon
    <2>4. LinkedIsStored' /\ OpenIsStored'
      BY <2>1, LinksFrame, Zenon
    <2>5. \A b \in Blocks : b < pos'[p] => file'[Temp(p)][b] = Key(p)
      BY <2>1, <2>2, <1>l, Constants DEF Prefix, Blocks
    <2>6. Prefix'
      BY <2>1, <2>2, <2>3, <2>5, <1>l DEF Prefix, Key
    <2>7. StoredWhole'
      BY <2>1, <2>3, <1>l DEF LinkedIsStored, StoredWhole, Uncopied, Key, Path
    <2> QED
      BY <2>4, <2>6, <2>7 DEF Published
  <1>4. ASSUME NEW p \in Procs, Rename(p) PROVE Published'
    <2>1. /\ UNCHANGED <<job, file, crashed>> /\ dir' = [dir EXCEPT ![Path(p)] = Temp(p)]
          /\ pc[p] = "write" /\ pos[p] = NB + 1 /\ pc'[p] = "stored" /\ fd'[p] = None
          /\ \A q \in Procs : q # p => pc'[q] = pc[q] /\ pos'[q] = pos[q] /\ fd'[q] = fd[q]
      BY <1>4, <1>t, Zenon DEF Rename, AtEnd, Finish, Closes, Goto
    <2>2. \A b \in Blocks : file[Temp(p)][b] = Key(p)
      BY <2>1, <1>l, Constants DEF Prefix, Blocks
    <2>3. dir'[Path(p)] = Temp(p) /\ \A f \in Paths : f # Path(p) => dir'[f] = dir[f]
      BY <2>1, <1>t, <1>f, Zenon
    <2>4. LinkedIsStored' /\ OpenIsStored'
      BY <2>1, <2>3, <1>f, TempIsOwn, TempIsFile, LinksFrame
    <2>5. Prefix'
      BY <2>1, <1>l, Zenon DEF Prefix, Key
    <2>6. StoredWhole'
      BY <2>1, <2>2, <2>3, <1>l DEF StoredWhole, Uncopied, Key, Path
    <2> QED
      BY <2>4, <2>5, <2>6 DEF Published
  <1>5. ASSUME NEW p \in Procs, StartCopy(p) \/ Copy(p) PROVE Published'
    <2>1. /\ UNCHANGED <<job, crashed>> /\ job[p].copies /\ pc[p] # "stored" /\ pc'[p] # "write"
          /\ \A q \in Procs : q # p => pc'[q] = pc[q] /\ pos'[q] = pos[q] /\ fd'[q] = fd[q]
      BY <1>5, <1>t, Zenon DEF StartCopy, Copy, WriteBlock, Goto, Owned, ProcOwned
    <2>2. /\ dir'[Path(p)] \in {dir[Path(p)], CopyOf(p)}
          /\ \A f \in Paths : f # Path(p) => dir'[f] = dir[f]
          /\ fd'[p] \in {fd[p], dir[Path(p)], CopyOf(p)}
      BY <1>5, <1>t, <1>f, TargetFacts, Zenon DEF StartCopy, Copy, WriteBlock
    <2>3. LinkedIsStored' /\ OpenIsStored'
      BY <2>1, <2>2, <1>f, CopyIsNoTemp, LinksFrame
    <2>4. \E i \in Files : /\ Path(Owner(i)) = Path(p) /\ \A j \in Files : j # i => file'[j] = file[j]
                           /\ i \in {fd[p], dir[Path(p)], CopyOf(p)}
      <3>1. CASE StartCopy(p)
        <4>1. CopyTarget(p) \in Files /\ CopyTarget(p) \in {dir[Path(p)], CopyOf(p)}
          BY <1>t, TargetFacts, Zenon
        <4>2. Path(Owner(CopyTarget(p))) = Path(p)
          BY <1>f, FilesOf, Zenon DEF CopyTarget, Owned, DirOwned
        <4> QED
          BY <3>1, <4>1, <4>2, <1>t, Zenon DEF StartCopy
      <3>2. CASE Copy(p)
        BY <3>2, <1>t, WriteFacts DEF Copy, OpenFile, Owned, ProcOwned
      <3> QED
        BY <1>5, <3>1, <3>2, Zenon
    <2>5. PICK i \in Files : /\ Path(Owner(i)) = Path(p) /\ \A j \in Files : j # i => file'[j] = file[j]
                             /\ i \in {fd[p], dir[Path(p)], CopyOf(p)}
      BY <2>4, Zenon
    <2>6. \A q \in Procs : i = Temp(q) => pc[q] = "stored"
      BY <2>5, <1>f, <1>l, CopyIsNoTemp DEF LinkedIsStored, OpenIsStored
    <2>7. Prefix'
      BY <2>1, <2>5, <2>6, <1>l, TempIsFile DEF Prefix, Key
    <2>8. \A f \in Paths : Uncopied(f) => f # Path(p)
      BY <2>1, Zenon DEF Uncopied
    <2>9. \A f \in Paths : dir[f] = i => f = Path(p)
      BY <2>5, Constants, Zenon DEF Owned, DirOwned
    <2>10. StoredWhole'
      BY <2>1, <2>2, <2>5, <2>8, <2>9, <1>l, TempIsFile DEF StoredWhole, Uncopied, Key, Path
    <2> QED
      BY <2>3, <2>7, <2>10, Zenon DEF Published
  <1>6. CASE MachineCrash
    <2>1. /\ UNCHANGED <<job, dir, fd>> /\ crashed'
          /\ \A p \in Procs : pc'[p] = IF pc[p] \in Active THEN "dead" ELSE pc[p]
      BY <1>6, CrashFacts, Zenon
    <2>2. \A p \in Procs : pc'[p] # "write" /\ (pc[p] = "stored" => pc'[p] = "stored")
      BY <2>1, Zenon DEF Active
    <2>3. LinkedIsStored' /\ OpenIsStored'
      BY <2>1, <2>2, LinksFrame, Zenon
    <2>4. Prefix' /\ StoredWhole'
      BY <2>1, <2>2, Zenon DEF Prefix, StoredWhole
    <2> QED
      BY <2>3, <2>4, Zenon DEF Published
  <1>7. CASE UNCHANGED vars
    BY <1>7, Zenon DEF vars, Published, LinkedIsStored, OpenIsStored, Prefix, StoredWhole, Uncopied, Path, Key
  <1> QED
    BY <1>1, <1>2, <1>3, <1>4, <1>5, <1>6, <1>7, Zenon DEF Next, Step

\* Where renames succeed and the machine stays up, a path leads to a complete
\* artifact at every moment, however many processes store to it: storing
\* writes a temporary file and renames it (store in run_cache.rs,
\* store_cached_stdlib_semantic_snapshot).
THEOREM PublishedIsWhole == Spec => []PublishedWhole
  <1>1. Spec => [](TypeInv /\ Owned /\ Published)
    BY TypeInit, OwnedInit, PublishedInit, TypeNext, OwnedNext, PublishedNext, PTL DEF Spec
  <1>2. TypeInv /\ Published => PublishedWhole
    <2> SUFFICES ASSUME TypeInv, Published, NEW f \in Paths, ~crashed, dir[f] # None, Uncopied(f)
                 PROVE  \E k \in Keys : Whole(dir[f], k)
      BY Zenon DEF PublishedWhole, Uncopied, CopiesTo
    <2>1. PICK p \in Procs : dir[f] = Temp(p) /\ \A b \in Blocks : file[Temp(p)][b] = Key(p)
      BY Zenon DEF Published, StoredWhole
    <2>2. Key(p) \in Keys
      BY TypeSplit, JobFacts, Zenon
    <2> QED
      BY <2>1, <2>2, Zenon DEF Whole
  <1> QED
    BY <1>1, <1>2, PTL

-----------------------------------------------------------------------------
(* What a file holds.  Where the copies to a path are of one key, or follow  *)
(* one another under the lock, a file holds blocks of one key: a copy begins *)
(* by cutting the file.  A reader whose first block is its own then reads on *)
(* in its own artifact, unless somebody copies another key's over it.        *)

Orderly(f) ==
  \/ \A q, r \in CopiesTo(f) : Key(q) = Key(r)
  \/ f \in Semantic /\ \A q \in lockless : Path(q) # f
Of(i, k) == \A b \in Blocks : file[i][b] \in {None, k}

Temps == \A p \in Procs : pc[p] = "write" => Of(Temp(p), Key(p))
Copied == \A p \in Procs : pc[p] = "copy" /\ Orderly(Path(p)) => Of(fd[p], Key(p))
Uniform == \A i \in Files :
  Orderly(Path(Owner(i))) => \E q \in Procs : Path(q) = Path(Owner(i)) /\ Of(i, Key(q))
OwnSoFar(p) == \A b \in Blocks : b < pos[p] => buf[p][b] = Key(p)
Reading(p) == pc[p] = "read" /\ NoForeignCopy(p) /\ pos[p] # 1 =>
  /\ Path(p) \notin Shared => buf[p][1] = Key(p)
  /\ buf[p][1] = Key(p) => Of(fd[p], Key(p)) /\ OwnSoFar(p)
Hit(p) == pc[p] = "hit" /\ NoForeignCopy(p) => \A b \in Blocks : buf[p][b] = Key(p)
Pure == Temps /\ Copied /\ Uniform /\ \A p \in Procs : Reading(p) /\ Hit(p)

\* The conditions depend on the jobs, and on the lock calls that failed so far.
LEMMA OrderKept ==
  ASSUME job' = job, lockless \subseteq lockless'
  PROVE  /\ \A f \in Paths : Orderly(f)' => Orderly(f)
         /\ \A p \in Procs : NoForeignCopy(p)' <=> NoForeignCopy(p)
         /\ \A p \in Procs : Path(p)' = Path(p) /\ Key(p)' = Key(p)
         /\ \A i \in Files : Path(Owner(i))' = Path(Owner(i))
  <1>1. \A p : Path(p)' = Path(p) /\ Key(p)' = Key(p)
    BY Zenon DEF Path, Key
  <1>2. \A f : CopiesTo(f)' = CopiesTo(f)
    BY <1>1, Zenon DEF CopiesTo
  <1>3. \A f \in Paths : Orderly(f)' => Orderly(f)
    BY <1>1, <1>2, Zenon DEF Orderly
  <1>4. \A p \in Procs : NoForeignCopy(p)' <=> NoForeignCopy(p)
    BY <1>1, <1>2, Zenon DEF NoForeignCopy, CopiesTo
  <1> QED
    BY <1>1, <1>3, <1>4, Zenon

\* A reader that meets no foreign copy finds the files of its path in order.
LEMMA OwnIsOrderly ==
  ASSUME NEW p \in Procs, NoForeignCopy(p)
  PROVE  Orderly(Path(p))
  BY Zenon DEF NoForeignCopy, Orderly

\* Steps that write no file: all that is left is the process that takes them.
LEMMA PureFrame ==
  ASSUME TypeInv, Pure, job' = job, file' = file, lockless \subseteq lockless', NEW p \in Procs,
         \A q \in Procs : q # p => /\ pc'[q] = pc[q] /\ fd'[q] = fd[q]
                                   /\ pos'[q] = pos[q] /\ buf'[q] = buf[q],
         pc'[p] \notin {"write", "copy"}, Reading(p)', Hit(p)'
  PROVE  Pure'
  <1>k. /\ \A f \in Paths : Orderly(f)' => Orderly(f)
        /\ \A q \in Procs : NoForeignCopy(q)' <=> NoForeignCopy(q)
        /\ \A q \in Procs : Path(q)' = Path(q) /\ Key(q)' = Key(q)
        /\ \A i \in Files : Path(Owner(i))' = Path(Owner(i))
    BY OrderKept, Zenon
  <1>f. \A q \in Procs : Path(q) \in Paths
    BY TypeSplit, JobFacts, Zenon
  <1>1. Temps' /\ Copied'
    BY <1>k, <1>f DEF Pure, Temps, Copied, Of
  <1>2. Uniform'
    BY <1>k, <1>f, Owners DEF Pure, Uniform, Of
  <1>3. ASSUME NEW q \in Procs, q # p PROVE Reading(q)' /\ Hit(q)'
    BY <1>3, <1>k DEF Pure, Reading, Hit, Of, OwnSoFar
  <1> QED
    BY <1>1, <1>2, <1>3, Zenon DEF Pure

LEMMA PureQuiet ==
  ASSUME TypeInv, Owned, Pure, NEW p \in Procs,
         \/ Open(p) \/ Read(p) \/ EndRead(p) \/ TakeLock(p) \/ LockFails(p)
         \/ Rename(p) \/ EndCopy(p) \/ Kill(p)
  PROVE  Pure'
  <1>t. /\ job \in Jobs /\ file \in [Files -> Contents] /\ pc \in [Procs -> States]
        /\ fd \in [Procs -> Files \cup {None}] /\ buf \in [Procs -> Contents]
        /\ pos \in [Procs -> 1..NB + 1] /\ OpenFile
    BY TypeSplit, Zenon
  <1>g. job' = job /\ file' = file /\ lockless \subseteq lockless'
    BY Zenon DEF Open, Read, EndRead, TakeLock, LockFails, Rename, EndCopy, Kill
  <1>q. \A q \in Procs : q # p => /\ pc'[q] = pc[q] /\ fd'[q] = fd[q]
                                  /\ pos'[q] = pos[q] /\ buf'[q] = buf[q]
    BY <1>t DEF Open, Read, EndRead, TakeLock, LockFails, Rename, EndCopy, Kill, Finish, Closes, Goto
  <1>k. /\ NoForeignCopy(p)' <=> NoForeignCopy(p)
        /\ Path(p)' = Path(p) /\ Key(p)' = Key(p)
    BY <1>g, OrderKept, Zenon
  <1>1. CASE Open(p) \/ TakeLock(p) \/ LockFails(p) \/ Rename(p) \/ EndCopy(p) \/ Kill(p)
    <2>1. /\ pc'[p] \in {"read", "lock", "build", "again", "stored", "dead"}
          /\ pc'[p] = "read" => pos'[p] = 1
      BY <1>1, <1>t, Zenon DEF Open, TakeLock, LockFails, Rename, EndCopy, Kill, Finish, Goto, AfterMiss,
                        Owned, ProcOwned
    <2>2. Reading(p)' /\ Hit(p)'
      BY <2>1, Zenon DEF Reading, Hit
    <2> QED
      BY <2>1, <2>2, <1>g, <1>q, PureFrame, Zenon
  <1>2. CASE Read(p)
    <2>1. /\ UNCHANGED <<pc, fd>> /\ pc[p] = "read" /\ ~AtEnd(p) /\ fd[p] \in Files
          /\ file[fd[p]][pos[p]] # None
      BY <1>2, <1>t, Zenon DEF Read, EndOfFile, OpenFile
    <2>2. pos[p] \in Blocks /\ pos'[p] = pos[p] + 1
      BY <1>2, <2>1, <1>t, Constants, Zenon DEF AtEnd, Read
    <2>3. \A b \in Blocks : buf'[p][b] = IF b = pos[p] THEN file[fd[p]][pos[p]] ELSE buf[p][b]
      BY <1>2, <1>t, Zenon DEF Read, Contents
    <2>4. ASSUME NoForeignCopy(p)
          PROVE  /\ Path(p) \notin Shared => buf'[p][1] = Key(p)
                 /\ buf'[p][1] = Key(p) =>
                      Of(fd[p], Key(p)) /\ \A b \in Blocks : b < pos'[p] => buf'[p][b] = Key(p)
      <3>1. CASE pos[p] = 1
        <4>1. Path(Owner(fd[p])) = Path(p)
          BY <2>1, Constants, Zenon DEF Owned, ProcOwned
        <4>2. PICK q \in Procs : Path(q) = Path(p) /\ Of(fd[p], Key(q))
          BY <2>1, <2>4, <4>1, OwnIsOrderly, Zenon DEF Pure, Uniform
        <4>3. buf'[p][1] = Key(q)
          BY <4>2, <3>1, <2>1, <2>2, <2>3, Constants, Zenon DEF Of
        <4>4. Path(p) \notin Shared => Key(q) = Key(p)
          BY <4>2, <1>t, JobFacts, Zenon
        <4>5. \A b \in Blocks : b < pos'[p] => b = 1
          BY <3>1, <2>2 DEF Blocks
        <4> QED
          BY <4>2, <4>3, <4>4, <4>5, Zenon
      <3>2. CASE pos[p] # 1
        <4>1. /\ Path(p) \notin Shared => buf[p][1] = Key(p)
              /\ buf[p][1] = Key(p) => Of(fd[p], Key(p)) /\ OwnSoFar(p)
          BY <3>2, <2>1, <2>4, Zenon DEF Pure, Reading
        <4>2. buf'[p][1] = buf[p][1]
          BY <3>2, <2>3, Constants, Zenon
        <4>3. \A b \in Blocks : b < pos'[p] => b < pos[p] \/ b = pos[p]
          BY <2>2, Constants DEF Blocks
        <4>4. Of(fd[p], Key(p)) => file[fd[p]][pos[p]] = Key(p)
          BY <2>1, <2>2, Zenon DEF Of
        <4> QED
          BY <4>1, <4>2, <4>3, <4>4, <2>3, Zenon DEF OwnSoFar
      <3> QED
        BY <3>1, <3>2, Zenon
    <2>5. Reading(p)' /\ Hit(p)'
      BY <2>1, <2>4, <1>g, <1>k, Zenon DEF Reading, Hit, Of, OwnSoFar
    <2> QED
      BY <2>1, <2>5, <1>g, <1>q, PureFrame, Zenon
  <1>3. CASE EndRead(p) /\ Decodes(p)
    <2>1. pc[p] = "read" /\ pc'[p] = "hit" /\ buf' = buf
      BY <1>3, <1>t, Zenon DEF EndRead, Finish, Goto
    <2>2. ASSUME NoForeignCopy(p), NEW b \in Blocks PROVE buf[p][b] = Key(p)
      <3>1. pos[p] = NB + 1 /\ pos[p] # 1 /\ b < pos[p]
        BY <1>3, CacheAssumption DEF Decodes, AtEnd, Blocks
      <3>2. buf[p][1] = Key(p)
        BY <3>1, <2>1, <2>2, <1>3, Constants, Zenon DEF Decodes, Pure, Reading
      <3> QED
        BY <3>1, <3>2, <2>1, <2>2, Zenon DEF Pure, Reading, OwnSoFar
    <2>3. Reading(p)' /\ Hit(p)'
      BY <2>1, <2>2, <1>k, Zenon DEF Reading, Hit
    <2> QED
      BY <2>1, <2>3, <1>g, <1>q, PureFrame, Zenon
  <1>4. CASE EndRead(p) /\ ~Decodes(p)
    <2>1. pc'[p] \in {"lock", "build"}
      BY <1>4, <1>t, Zenon DEF EndRead, Goto, AfterMiss
    <2>2. Reading(p)' /\ Hit(p)'
      BY <2>1, Zenon DEF Reading, Hit
    <2> QED
      BY <2>1, <2>2, <1>g, <1>q, PureFrame, Zenon
  <1> QED
    BY <1>1, <1>2, <1>3, <1>4, Zenon

\* A step of p that writes file i and no other.
WritesOnly(p, i) ==
  /\ job' = job /\ buf' = buf /\ lockless' = lockless
  /\ \A j \in Files : j # i => file'[j] = file[j]
  /\ \A q \in Procs : q # p => pc'[q] = pc[q] /\ fd'[q] = fd[q] /\ pos'[q] = pos[q]
  /\ pc'[p] \notin {"read", "hit"}

\* What p itself has to see to, and what those who have i open expect of it.
WritesOwn(p, i) ==
  /\ pc'[p] = "write" => Of(Temp(p), Key(p))'
  /\ pc'[p] = "copy" /\ Orderly(Path(p)) => Of(fd[p], Key(p))'
  /\ Orderly(Path(Owner(i))) => \E q \in Procs : Path(q) = Path(Owner(i)) /\ Of(i, Key(q))'
Disturbs(q, i) ==
  \/ pc[q] = "write" /\ i = Temp(q)
  \/ /\ fd[q] = i /\ Of(i, Key(q)) /\ ~Of(i, Key(q))'
     /\ \/ pc[q] = "copy" /\ Orderly(Path(q))
        \/ pc[q] = "read" /\ NoForeignCopy(q)

LEMMA PureWriteFrame ==
  ASSUME TypeInv, Owned, Pure, NEW p \in Procs, NEW i \in Files,
         WritesOnly(p, i), WritesOwn(p, i), \A q \in Procs : q # p => ~Disturbs(q, i)
  PROVE  Pure'
  <1>a. /\ job' = job /\ buf' = buf /\ lockless' = lockless
        /\ \A j \in Files : j # i => file'[j] = file[j]
        /\ \A q \in Procs : q # p => pc'[q] = pc[q] /\ fd'[q] = fd[q] /\ pos'[q] = pos[q]
        /\ pc'[p] \notin {"read", "hit"}
    BY Zenon DEF WritesOnly
  <1>b. /\ pc'[p] = "write" => Of(Temp(p), Key(p))'
        /\ pc'[p] = "copy" /\ Orderly(Path(p)) => Of(fd[p], Key(p))'
        /\ Orderly(Path(Owner(i))) => \E q \in Procs : Path(q) = Path(Owner(i)) /\ Of(i, Key(q))'
    BY Zenon DEF WritesOwn
  <1>c. ASSUME NEW q \in Procs, q # p
        PROVE  /\ pc[q] = "write" => i # Temp(q)
               /\ fd[q] = i /\ pc[q] = "copy" /\ Orderly(Path(q)) /\ Of(i, Key(q)) => Of(i, Key(q))'
               /\ fd[q] = i /\ pc[q] = "read" /\ NoForeignCopy(q) /\ Of(i, Key(q)) => Of(i, Key(q))'
    BY <1>c, Zenon DEF Disturbs
  <1>k. /\ \A f \in Paths : Orderly(f)' => Orderly(f)
        /\ \A q \in Procs : NoForeignCopy(q)' <=> NoForeignCopy(q)
        /\ \A q \in Procs : Path(q)' = Path(q) /\ Key(q)' = Key(q)
        /\ \A j \in Files : Path(Owner(j))' = Path(Owner(j))
    BY <1>a, OrderKept, Zenon
  <1>f. \A q \in Procs : Path(q) \in Paths
    BY TypeSplit, JobFacts, Zenon
  <1>o. \A q \in Procs : pc[q] \in {"read", "copy"} => fd[q] \in Files
    BY TypeSplit, Zenon DEF OpenFile
  <1>1. ASSUME NEW q \in Procs, q # p, pc[q] = "write" PROVE Of(Temp(q), Key(q))'
    <2>1. Of(Temp(q), Key(q)) /\ Temp(q) \in Files /\ Temp(q) # i
      BY <1>1, <1>c, TempIsFile, Zenon DEF Pure, Temps
    <2> QED
      BY <2>1, <1>a, <1>k, Zenon DEF Of
  <1>2. Temps'
    BY <1>1, <1>a, <1>b, Zenon DEF Temps
  <1>3. ASSUME NEW q \in Procs, q # p, pc[q] = "copy", Orderly(Path(q)) PROVE Of(fd[q], Key(q))'
    <2>1. Of(fd[q], Key(q)) /\ fd[q] \in Files
      BY <1>3, <1>o, Zenon DEF Pure, Copied
    <2>2. fd'[q] = fd[q]
      BY <1>3, <1>a, Zenon
    <2>3. CASE fd[q] = i
      BY <2>1, <2>2, <2>3, <1>3, <1>c, Zenon DEF Of
    <2>4. CASE fd[q] # i
      BY <2>1, <2>2, <2>4, <1>a, <1>k DEF Of
    <2> QED
      BY <2>3, <2>4, Zenon
  <1>4. Copied'
    BY <1>3, <1>a, <1>b, <1>k, <1>f, Zenon DEF Copied
  <1>5. ASSUME NEW j \in Files, Orderly(Path(Owner(j)))
        PROVE  \E q \in Procs : Path(q) = Path(Owner(j)) /\ Of(j, Key(q))'
    <2>1. CASE j = i
      BY <2>1, <1>5, <1>b, Zenon
    <2>2. CASE j # i
      BY <2>2, <1>5, <1>a, <1>k, Zenon DEF Pure, Uniform, Of
    <2> QED
      BY <2>1, <2>2, Zenon
  <1>6. Uniform'
    BY <1>5, <1>k, <1>f, Owners, Zenon DEF Uniform
  <1>7. ASSUME NEW q \in Procs PROVE Reading(q)' /\ Hit(q)'
    <2>1. CASE q = p
      BY <2>1, <1>a, Zenon DEF Reading, Hit
    <2>2. CASE q # p
      <3>1. Reading(q) /\ Hit(q) /\ pc'[q] = pc[q] /\ fd'[q] = fd[q] /\ pos'[q] = pos[q]
        BY <2>2, <1>a, Zenon DEF Pure
      <3>2. Hit(q)'
        BY <3>1, <1>a, <1>k, Zenon DEF Hit
      <3>3. pc[q] = "read" /\ NoForeignCopy(q) /\ Of(fd[q], Key(q)) => Of(fd[q], Key(q))'
        <4>1. CASE fd[q] = i
          BY <2>2, <3>1, <4>1, <1>c, Zenon DEF Of
        <4>2. CASE fd[q] # i
          BY <3>1, <4>2, <1>a, <1>k, <1>o DEF Of
        <4> QED
          BY <4>1, <4>2, Zenon
      <3>4. Reading(q)'
        BY <3>1, <3>3, <1>a, <1>k DEF Reading, OwnSoFar
      <3> QED
        BY <3>2, <3>4, Zenon
    <2> QED
      BY <2>1, <2>2, Zenon
  <1> QED
    BY <1>2, <1>4, <1>6, <1>7, Zenon DEF Pure

LEMMA PureWrites ==
  ASSUME TypeInv, Guarded, Owned, Published, Pure, NEW p \in Procs,
         Build(p) \/ StoreFails(p) \/ Write(p) \/ StartCopy(p) \/ Copy(p)
  PROVE  Pure'
  <1>t. /\ job \in Jobs /\ file \in [Files -> Contents] /\ pc \in [Procs -> States]
        /\ fd \in [Procs -> Files \cup {None}] /\ dir \in [Paths -> Files \cup {None}]
        /\ pos \in [Procs -> 1..NB + 1] /\ OpenFile /\ TypeOK
    BY TypeSplit, Zenon DEF TypeInv
  <1>f. (\A q \in Procs : Path(q) \in Paths) /\ Temp(p) \in Files /\ Owner(Temp(p)) = p
    BY <1>t, JobFacts, FilesOf, Zenon
  <1>l. LinkedIsStored /\ OpenIsStored
    BY Zenon DEF Published
  <1>e. \A b \in Blocks : Empty[b] = None
    BY Zenon DEF Empty
  <1>g. job' = job /\ buf' = buf /\ lockless' = lockless
    BY Zenon DEF Build, StoreFails, Write, StartCopy, Copy, WriteBlock
  <1>k. \A q \in Procs : Key(q)' = Key(q)
    BY <1>g, Zenon DEF Key
  <1>q. \A q \in Procs : q # p => pc'[q] = pc[q] /\ fd'[q] = fd[q] /\ pos'[q] = pos[q]
    BY <1>t DEF Build, StoreFails, Write, StartCopy, Copy, WriteBlock, Finish, Closes, Goto
  <1>1. CASE Build(p) \/ StoreFails(p) \/ Write(p)
    <2>1. pc[p] # "stored" /\ pc'[p] \in {"write", "failed"}
      BY <1>1, <1>t, Zenon DEF Build, StoreFails, Write, WriteBlock, Finish, Goto
    <2>2. \A q \in Procs : fd[q] # Temp(p) /\ (q # p => Temp(p) # Temp(q))
      BY <2>1, <1>l, TempIsOwn, Zenon DEF OpenIsStored
    <2>3. (\A j \in Files : j # Temp(p) => file'[j] = file[j]) /\ Of(Temp(p), Key(p))'
      <3>1. CASE Build(p) \/ StoreFails(p)
        BY <3>1, <1>e, <1>f, <1>t, Zenon DEF Build, StoreFails, Of
      <3>2. CASE Write(p)
        <4>1. /\ \A j \in Files : j # Temp(p) => file'[j] = file[j]
              /\ \A b \in Blocks : file'[Temp(p)][b] = IF b = pos[p] THEN Key(p) ELSE file[Temp(p)][b]
          BY <3>2, <1>f, <1>t, WriteFacts DEF Write
        <4>2. Of(Temp(p), Key(p))
          BY <3>2, Zenon DEF Write, Pure, Temps
        <4> QED
          BY <4>1, <4>2, <1>k, Zenon DEF Of
      <3> QED
        BY <1>1, <3>1, <3>2, Zenon
    <2>4. WritesOnly(p, Temp(p))
      BY <2>1, <2>3, <1>g, <1>q, Zenon DEF WritesOnly
    <2>5. WritesOwn(p, Temp(p))
      BY <2>1, <2>3, <1>f, Zenon DEF WritesOwn
    <2>6. \A q \in Procs : q # p => ~Disturbs(q, Temp(p))
      BY <2>2, Zenon DEF Disturbs
    <2> QED
      BY <2>4, <2>5, <2>6, <1>f, PureWriteFrame, Zenon
  <1>2. CASE StartCopy(p)
    <2>1. PICK i \in Files : i = CopyTarget(p) /\ i \in {dir[Path(p)], CopyOf(p)}
      BY <1>t, TargetFacts, Zenon
    <2>2. pc'[p] = "copy" /\ fd'[p] = i
      BY <1>2, <2>1, <1>t, Zenon DEF StartCopy, Goto
    <2>3. \A q \in Procs : pc[q] = "write" => i # Temp(q)
      BY <2>1, <1>f, <1>l, CopyIsNoTemp, Zenon DEF LinkedIsStored
    <2>4. (\A j \in Files : j # i => file'[j] = file[j]) /\ file'[i] = Empty
      BY <1>2, <2>1, <1>t, Zenon DEF StartCopy
    <2>5. \A q \in Procs : Of(i, Key(q))'
      BY <2>4, <1>e, Zenon DEF Of
    <2>6. Of(fd[p], Key(p))'
      BY <2>2, <2>5, Zenon DEF Of
    <2>7. \E q \in Procs : Path(q) = Path(Owner(i)) /\ Of(i, Key(q))'
      BY <2>5, Owners, Zenon
    <2>8. WritesOnly(p, i)
      BY <2>2, <2>4, <1>g, <1>q, Zenon DEF WritesOnly
    <2>9. WritesOwn(p, i)
      BY <2>2, <2>6, <2>7, Zenon DEF WritesOwn
    <2>10. \A q \in Procs : q # p => ~Disturbs(q, i)
      BY <2>3, <2>5, Zenon DEF Disturbs
    <2> QED
      BY <2>8, <2>9, <2>10, PureWriteFrame, Zenon
  <1>3. CASE Copy(p)
    <2>1. PICK i \in Files : i = fd[p]
      BY <1>3, <1>t, Zenon DEF Copy, OpenFile
    <2>2. /\ Path(Owner(i)) = Path(p) /\ WriteBlock(p, i) /\ pc' = pc /\ fd' = fd
          /\ pc[p] = "copy" /\ job[p].copies /\ p \in CopiesTo(Path(p))
      BY <1>3, <2>1, Constants, Zenon DEF Copy, WriteBlock, Owned, ProcOwned, CopiesTo
    <2>3. /\ \A j \in Files : j # i => file'[j] = file[j]
          /\ \A b \in Blocks : file'[i][b] = IF b = pos[p] THEN Key(p) ELSE file[i][b]
      BY <2>2, <1>t, WriteFacts
    <2>4. \A q \in Procs : Key(q) = Key(p) /\ Of(i, Key(q)) => Of(i, Key(q))'
      BY <2>3, <1>k, Zenon DEF Of
    <2>5. Orderly(Path(p)) => Of(i, Key(p))'
      BY <2>1, <2>2, <2>4, Zenon DEF Pure, Copied
    <2>6. \A q \in Procs : pc[q] = "write" => i # Temp(q)
      BY <2>1, <1>l, Zenon DEF OpenIsStored
    <2>7. \A q \in Procs : fd[q] = i => Path(q) = Path(p)
      BY <2>2, Constants, Zenon DEF Owned, ProcOwned
    <2>8. \A q \in Procs : fd[q] = i /\ NoForeignCopy(q) => Key(q) = Key(p)
      BY <2>2, <2>7, Zenon DEF NoForeignCopy
    <2>9. ASSUME NEW q \in Procs, q # p, fd[q] = i, pc[q] = "copy", Orderly(Path(q))
          PROVE  Key(q) = Key(p)
      <3>1. Path(q) = Path(p) /\ q \in CopiesTo(Path(p))
        BY <2>7, <2>9, Zenon DEF Owned, ProcOwned, CopiesTo
      <3>2. CASE \A u, r \in CopiesTo(Path(q)) : Key(u) = Key(r)
        BY <3>1, <3>2, <2>2
      <3>3. CASE Path(q) \in Semantic /\ \A r \in lockless : Path(r) # Path(q)
        BY <3>1, <3>3, <2>2, <2>9, Zenon DEF Guarded
      <3> QED
        BY <3>2, <3>3, <2>9, Zenon DEF Orderly
    <2>10. Of(fd[p], Key(p))' <=> Of(i, Key(p))'
      BY <2>1, <2>2, Zenon DEF Of
    <2>11. Orderly(Path(Owner(i))) => \E q \in Procs : Path(q) = Path(Owner(i)) /\ Of(i, Key(q))'
      BY <2>2, <2>5, Zenon
    <2>12. pc'[p] = "copy"
      BY <2>2, Zenon
    <2>13. WritesOnly(p, i)
      BY <2>3, <2>12, <1>g, <1>q, Zenon DEF WritesOnly
    <2>14. WritesOwn(p, i)
      BY <2>5, <2>10, <2>11, <2>12, Zenon DEF WritesOwn
    <2>15. \A q \in Procs : q # p => ~Disturbs(q, i)
      BY <2>4, <2>6, <2>8, <2>9, Zenon DEF Disturbs
    <2> QED
      BY <2>13, <2>14, <2>15, PureWriteFrame
  <1> QED
    BY <1>1, <1>2, <1>3, Zenon

LEMMA PureInit == Init => Pure
  <1> SUFFICES ASSUME Init PROVE Pure
    OBVIOUS
  <1>1. (\A p \in Procs : pc[p] = "start") /\ \A i \in Files, b \in Blocks : file[i][b] = None
    BY Zenon DEF Init, Empty
  <1> QED
    BY <1>1, Owners, Zenon DEF Pure, Temps, Copied, Uniform, Reading, Hit, Of

LEMMA PureNext == TypeInv /\ Guarded /\ Owned /\ Published /\ Pure /\ [Next]_vars => Pure'
  <1> SUFFICES ASSUME TypeInv, Guarded, Owned, Published, Pure, [Next]_vars PROVE Pure'
    BY Zenon
  <1>1. CASE \E p \in Procs : Step(p) \/ LockFails(p) \/ StoreFails(p) \/ Kill(p)
    BY <1>1, PureQuiet, PureWrites, Zenon DEF Step
  <1>2. CASE MachineCrash
    <2>1. /\ UNCHANGED <<job, fd, buf, pos, lockless>>
          /\ \A p \in Procs : pc'[p] = IF pc[p] \in Active THEN "dead" ELSE pc[p]
          /\ \A i \in Files, b \in Blocks : file'[i][b] \in {file[i][b], None}
      BY <1>2, CrashFacts, Zenon
    <2>2. /\ \A f \in Paths : Orderly(f)' => Orderly(f)
          /\ \A q \in Procs : NoForeignCopy(q)' <=> NoForeignCopy(q)
          /\ \A q \in Procs : Path(q)' = Path(q) /\ Key(q)' = Key(q)
          /\ \A i \in Files : Path(Owner(i))' = Path(Owner(i))
      BY <2>1, OrderKept, Zenon
    <2>3. \A p \in Procs : pc'[p] \notin {"write", "copy", "read"} /\ (pc'[p] = "hit" => pc[p] = "hit")
      BY <2>1, Zenon DEF Active
    <2>4. \A p \in Procs : Path(p) \in Paths
      BY TypeSplit, JobFacts, Zenon
    <2>5. \A i \in Files, k \in {Key(q) : q \in Procs} : Of(i, k) =>
            \A b \in Blocks : file'[i][b] \in {None, k}
      BY <2>1, Zenon DEF Of
    <2>6. Uniform'
      BY <2>2, <2>4, <2>5, Owners DEF Pure, Uniform, Of
    <2>7. \A p \in Procs : Reading(p)' /\ Hit(p)'
      BY <2>1, <2>2, <2>3, Zenon DEF Pure, Reading, Hit
    <2> QED
      BY <2>3, <2>6, <2>7, Zenon DEF Pure, Temps, Copied
  <1>3. CASE UNCHANGED vars
    <2>1. UNCHANGED <<job, file, pc, fd, buf, pos, lockless>>
      BY <1>3, Zenon DEF vars
    <2>2. /\ \A f \in Paths : Orderly(f)' => Orderly(f)
          /\ \A q \in Procs : NoForeignCopy(q)' <=> NoForeignCopy(q)
          /\ \A q \in Procs : Path(q)' = Path(q) /\ Key(q)' = Key(q)
          /\ \A i \in Files : Path(Owner(i))' = Path(Owner(i))
      BY <2>1, OrderKept, Zenon
    <2>3. \A p \in Procs : Path(p) \in Paths
      BY TypeSplit, JobFacts
    <2>4. Temps' /\ Copied'
      BY <2>1, <2>2, <2>3, Zenon DEF Pure, Temps, Copied, Of
    <2>5. Uniform'
      BY <2>1, <2>2, <2>3, Owners DEF Pure, Uniform, Of
    <2>6. \A p \in Procs : Reading(p)' /\ Hit(p)'
      BY <2>1, <2>2 DEF Pure, Reading, Hit, Of, OwnSoFar
    <2> QED
      BY <2>4, <2>5, <2>6, Zenon DEF Pure
  <1> QED
    BY <1>1, <1>2, <1>3, Zenon DEF Next

=============================================================================
