------------------------ MODULE ArtifactBuildProofs -------------------------
(***************************************************************************)
(* Proofs about the caches on disk: what is built is missing, and what is  *)
(* loaded is what would have been built.                                   *)
(***************************************************************************)
EXTENDS ArtifactReadProofs

(* Who builds under the lock has looked: what the path led to when the lock  *)
(* was taken is what it leads to now, and that is not the artifact.          *)

Looked(p) == Alone(p) =>
  /\ pc[p] = "read" => /\ fd[p] = dir[Path(p)]
                       /\ \A b \in Blocks : b < pos[p] =>
                            buf[p][b] = file[fd[p]][b] /\ buf[p][b] # None
  /\ pc[p] \in {"build", "write"} => ~Whole(dir[Path(p)], Key(p))

\* The path of a lock holder is left alone by everybody else, and by the
\* holder until it renames.
LEMMA Undisturbed ==
  ASSUME TypeInv, Guarded, Owned, Published, NEW p \in Procs, NEW q \in Procs, Alone(p),
         \/ Step(q) \/ LockFails(q) \/ StoreFails(q) \/ Kill(q),
         q = p => ~Rename(q) /\ ~StartCopy(q) /\ ~Copy(q)
  PROVE  /\ dir'[Path(p)] = dir[Path(p)]
         /\ dir[Path(p)] # None => file'[dir[Path(p)]] = file[dir[Path(p)]]
  <1>t. /\ job \in Jobs /\ file \in [Files -> Contents] /\ dir \in [Paths -> Files \cup {None}]
        /\ pc \in [Procs -> States] /\ fd \in [Procs -> Files \cup {None}] /\ TypeOK /\ OpenFile
    BY TypeSplit, Zenon DEF TypeInv
  <1>f. Path(p) \in Paths /\ Path(q) \in Paths /\ Path(p) \in Semantic
    BY <1>t, JobFacts, Constants, Zenon DEF Alone, Guarded
  <1>g. q # p /\ Path(q) = Path(p) => pc[q] \notin {"build", "write", "copy"}
    BY <1>f, Zenon DEF Alone, Guarded
  <1>l. \A r \in Procs : dir[Path(p)] = Temp(r) => pc[r] = "stored"
    BY <1>f, Zenon DEF Published, LinkedIsStored
  <1>1. CASE Open(q) \/ Read(q) \/ EndRead(q) \/ TakeLock(q) \/ LockFails(q) \/ EndCopy(q) \/ Kill(q)
    <2>1. file' = file
      BY <1>1, Zenon DEF Open, Read, EndRead, TakeLock, LockFails, EndCopy, Kill
    <2>2. dir' \in {dir, IF Path(q) \in Semantic THEN dir ELSE [dir EXCEPT ![Path(q)] = None]}
      BY <1>1, Zenon DEF Open, Read, EndRead, TakeLock, LockFails, EndCopy, Kill
    <2> QED
      BY <2>1, <2>2, <1>f, <1>t, Zenon
  <1>2. CASE Build(q) \/ StoreFails(q)
    <2>1. dir' = dir /\ file' = [file EXCEPT ![Temp(q)] = Empty] /\ pc[q] # "stored"
      BY <1>2, Zenon DEF Build, StoreFails
    <2> QED
      BY <2>1, <1>l, <1>f, <1>t, Zenon
  <1>3. CASE Write(q)
    <2>1. dir' = dir /\ pc[q] # "stored" /\ WriteBlock(q, Temp(q))
      BY <1>3, Zenon DEF Write, WriteBlock
    <2>2. \A j \in Files : j # Temp(q) => file'[j] = file[j]
      BY <2>1, <1>t, TempIsFile, WriteFacts
    <2> QED
      BY <2>1, <2>2, <1>l, <1>f, <1>t, Zenon
  <1>4. CASE Rename(q)
    <2>1. Path(q) # Path(p) /\ file' = file /\ dir' = [dir EXCEPT ![Path(q)] = Temp(q)]
      BY <1>4, <1>g, Zenon DEF Rename
    <2> QED
      BY <2>1, <1>f, <1>t, Zenon
  <1>5. CASE StartCopy(q)
    <2>1. Path(q) # Path(p) /\ CopyTarget(q) \in Files
      BY <1>5, <1>g, <1>t, TargetFacts, Zenon DEF StartCopy
    <2>2. Path(Owner(CopyTarget(q))) = Path(q)
      BY <1>f, FilesOf, Zenon DEF CopyTarget, Owned, DirOwned
    <2>3. dir[Path(p)] # None => Path(Owner(dir[Path(p)])) = Path(p)
      BY <1>f, Zenon DEF Owned, DirOwned
    <2> QED
      BY <1>5, <2>1, <2>2, <2>3, <1>f, <1>t, Zenon DEF StartCopy
  <1>6. CASE Copy(q)
    <2>1. /\ Path(q) # Path(p) /\ dir' = dir /\ fd[q] \in Files /\ Path(Owner(fd[q])) = Path(q)
          /\ WriteBlock(q, fd[q])
      BY <1>6, <1>g, <1>t, Zenon DEF Copy, WriteBlock, OpenFile, Owned, ProcOwned
    <2>2. \A j \in Files : j # fd[q] => file'[j] = file[j]
      BY <2>1, <1>t, WriteFacts
    <2>3. dir[Path(p)] # None => Path(Owner(dir[Path(p)])) = Path(p)
      BY <1>f DEF Owned, DirOwned
    <2> QED
      BY <2>1, <2>2, <2>3, <1>f, <1>t, Zenon
  <1> QED
    BY <1>1, <1>2, <1>3, <1>4, <1>5, <1>6, Zenon DEF Step

LEMMA LookedOther ==
  ASSUME TypeInv, Guarded, Owned, Published, NEW p \in Procs, NEW q \in Procs, q # p, Looked(p),
         Step(q) \/ LockFails(q) \/ StoreFails(q) \/ Kill(q)
  PROVE  Looked(p)'
  <1>t. /\ job \in Jobs /\ lock \in [Paths -> Procs \cup {None}] /\ pc \in [Procs -> States]
        /\ fd \in [Procs -> Files \cup {None}] /\ pos \in [Procs -> 1..NB + 1]
        /\ buf \in [Procs -> Contents] /\ TypeOK /\ OpenFile
    BY TypeSplit, Zenon DEF TypeInv
  <1>f. Path(p) \in Paths /\ Path(q) \in Paths
    BY <1>t, JobFacts, Zenon
  <1>1. /\ job' = job /\ pc'[p] = pc[p] /\ fd'[p] = fd[p] /\ pos'[p] = pos[p] /\ buf'[p] = buf[p]
        /\ lockless \subseteq lockless'
    BY <1>t DEF Step, Open, Read, EndRead, TakeLock, LockFails, Build, Write, Rename, StartCopy, Copy,
                EndCopy, StoreFails, Kill, WriteBlock, Finish, Closes, Goto
  <1>2. lock'[Path(p)] \in {lock[Path(p)], q, None}
    BY <1>f, <1>t, Zenon DEF Step, Open, Read, EndRead, TakeLock, LockFails, Build, Write, Rename, StartCopy,
                Copy, EndCopy, StoreFails, Kill, WriteBlock, Finish, Released
  <1>3. Alone(p)' => Alone(p)
    BY <1>1, <1>2, Constants, Zenon DEF Alone, Path
  <1>4. Alone(p) => /\ dir'[Path(p)] = dir[Path(p)]
                    /\ dir[Path(p)] # None => file'[dir[Path(p)]] = file[dir[Path(p)]]
    BY Undisturbed, Zenon
  <1>5. pc[p] = "read" => fd[p] # None
    BY <1>t, Zenon DEF OpenFile
  <1> QED
    BY <1>1, <1>3, <1>4, <1>5 DEF Looked, Whole, Path, Key

LEMMA LookedOwn ==
  ASSUME TypeInv, Guarded, Owned, Published, NEW p \in Procs, Looked(p),
         Step(p) \/ LockFails(p) \/ StoreFails(p) \/ Kill(p)
  PROVE  Looked(p)'
  <1>t. /\ job \in Jobs /\ lock \in [Paths -> Procs \cup {None}] /\ pc \in [Procs -> States]
        /\ fd \in [Procs -> Files \cup {None}] /\ pos \in [Procs -> 1..NB + 1]
        /\ buf \in [Procs -> Contents] /\ file \in [Files -> Contents] /\ TypeOK /\ OpenFile /\ Holders
    BY TypeSplit, Zenon DEF TypeInv
  <1>f. Path(p) \in Paths /\ Key(p) \in Keys /\ Key(p) # None
    BY <1>t, JobFacts, Constants
  <1>g. job' = job
    BY Zenon DEF Step, Open, Read, EndRead, TakeLock, LockFails, Build, Write, Rename, StartCopy, Copy,
           EndCopy, StoreFails, Kill, WriteBlock
  <1>1. CASE Open(p)
    <2>1. /\ UNCHANGED <<file, dir, lock, pos, lockless>> /\ pc'[p] \in {"read", "lock", "build"}
          /\ pc'[p] = "read" => fd'[p] = dir[Path(p)]
          /\ pc'[p] = "build" => dir[Path(p)] = None
          /\ pc[p] \in {"start", "again"}
      BY <1>1, <1>t, Zenon DEF Open, Goto, AfterMiss
    <2>2. pos[p] = 1
      BY <2>1, Zenon DEF Owned, ProcOwned
    <2>3. \A b \in Blocks : ~(b < 1)
      BY DEF Blocks
    <2> QED
      BY <2>1, <2>2, <2>3, <1>g, Zenon DEF Looked, Whole, Path
  <1>2. CASE Read(p)
    <2>1. /\ UNCHANGED <<file, dir, lock, pc, fd, lockless>> /\ pc[p] = "read"
          /\ pos'[p] = pos[p] + 1 /\ pos[p] \in Blocks /\ file[fd[p]][pos[p]] # None
      BY <1>2, <1>t, Constants, Zenon DEF Read, EndOfFile, AtEnd
    <2>2. \A b \in Blocks : buf'[p][b] = IF b = pos[p] THEN file[fd[p]][pos[p]] ELSE buf[p][b]
      BY <1>2, <1>t, Zenon DEF Read, Contents
    <2>3. \A b \in Blocks : b < pos'[p] => b < pos[p] \/ b = pos[p]
      BY <2>1, Constants DEF Blocks
    <2>4. Alone(p)' <=> Alone(p)
      BY <2>1, <1>g, Zenon DEF Alone, Path
    <2> QED
      BY <2>1, <2>2, <2>3, <2>4, <1>g DEF Looked, Path
  <1>3. CASE EndRead(p)
    <2>1. /\ UNCHANGED <<file, lockless>> /\ pc[p] = "read" /\ pc'[p] \in {"hit", "lock", "build"}
          /\ pc'[p] = "build" => ~Decodes(p) /\ EndOfFile(p) /\ lock' = lock
      BY <1>3, <1>t, Zenon DEF EndRead, Finish, Goto, AfterMiss
    <2>2. CASE Alone(p) /\ pc'[p] = "build"
      <3>1. Path(p) \in Semantic
        BY <2>2, <1>f, Constants, Zenon DEF Alone, Guarded
      <3>2. dir' = dir
        BY <3>1, <2>1, <2>2, <1>3, Zenon DEF EndRead
      <3>3. /\ fd[p] = dir[Path(p)] /\ \A b \in Blocks : b < pos[p] => buf[p][b] = file[fd[p]][b]
        BY <2>1, <2>2, Zenon DEF Looked
      <3>4. \E b \in Blocks : file[fd[p]][b] # Key(p)
        <4>1. CASE AtEnd(p)
          <5>1. buf[p][1] # Key(p)
            BY <4>1, <2>1, <2>2, Zenon DEF Decodes
          <5>2. 1 \in Blocks /\ 1 < pos[p]
            BY <4>1, CacheAssumption DEF AtEnd, Blocks
          <5> QED
            BY <5>1, <5>2, <3>3, Zenon
        <4>2. CASE ~AtEnd(p)
          <5>1. pos[p] \in Blocks /\ file[fd[p]][pos[p]] = None
            BY <4>2, <2>1, <2>2, <1>t, Constants, Zenon DEF AtEnd, EndOfFile
          <5> QED
            BY <5>1, <1>f, Zenon
        <4> QED
          BY <4>1, <4>2, Zenon
      <3>5. ~Whole(dir[Path(p)], Key(p))
        BY <3>3, <3>4, Zenon DEF Whole
      <3> QED
        BY <3>2, <3>5, <2>1, <2>2, <1>g, Zenon DEF Looked, Whole, Path, Key
    <2>3. CASE ~(Alone(p) /\ pc'[p] = "build")
      BY <2>3, <2>1, <1>g, Zenon DEF Looked, Alone, Path
    <2> QED
      BY <2>2, <2>3, Zenon
  <1>4. CASE Build(p) \/ Write(p)
    <2>1. UNCHANGED <<dir, lock, lockless>> /\ pc[p] \in {"build", "write"} /\ pc'[p] = "write"
      BY <1>4, <1>t, Zenon DEF Build, Write, WriteBlock, Goto
    <2>2. ~Rename(p) /\ ~StartCopy(p) /\ ~Copy(p)
      BY <1>4, <2>1, <1>t, Zenon DEF Build, Write, WriteBlock, Rename, StartCopy, Copy, AtEnd
    <2>3. Alone(p) /\ dir[Path(p)] # None => file'[dir[Path(p)]] = file[dir[Path(p)]]
      BY <1>4, <2>2, Undisturbed, Zenon DEF Step
    <2> QED
      BY <2>1, <2>3, <1>g DEF Looked, Alone, Whole, Path, Key
  <1>5. CASE LockFails(p)
    BY <1>5, <1>g, Zenon DEF LockFails, Looked, Alone, Path
  <1>6. CASE TakeLock(p) \/ Rename(p) \/ StartCopy(p) \/ Copy(p) \/ EndCopy(p) \/ StoreFails(p) \/ Kill(p)
    <2>1. pc'[p] \in {"again", "stored", "copy", "failed", "dead"}
      BY <1>6, <1>t, Zenon DEF TakeLock, Rename, StartCopy, Copy, WriteBlock, EndCopy,
                              StoreFails, Kill, Finish, Goto
    <2> QED
      BY <2>1, Zenon DEF Looked
  <1> QED
    BY <1>1, <1>2, <1>3, <1>4, <1>5, <1>6, Zenon DEF Step

AllLooked == \A p \in Procs : Looked(p)
CacheInv == TypeInv /\ Guarded /\ Owned /\ Published /\ Pure /\ AllLooked

LEMMA LookedNext == CacheInv /\ [Next]_vars => AllLooked'
  <1> SUFFICES ASSUME CacheInv, [Next]_vars, NEW p \in Procs PROVE Looked(p)'
    BY Zenon DEF AllLooked
  <1>i. TypeInv /\ Guarded /\ Owned /\ Published /\ Looked(p)
    BY Zenon DEF CacheInv, AllLooked
  <1>1. CASE \E q \in Procs : Step(q) \/ LockFails(q) \/ StoreFails(q) \/ Kill(q)
    BY <1>1, <1>i, LookedOther, LookedOwn, Zenon
  <1>2. CASE MachineCrash
    <2>1. job' = job /\ \A f \in Paths : lock'[f] = None
      BY <1>2, <1>i, CrashFacts, Zenon
    <2>2. Path(p) \in Paths
      BY <1>i, TypeSplit, JobFacts, Zenon
    <2> QED
      BY <2>1, <2>2, Constants, Zenon DEF Looked, Alone, Path
  <1>3. CASE UNCHANGED vars
    BY <1>3, <1>i, Zenon DEF vars, Looked, Alone, Whole, Path, Key
  <1> QED
    BY <1>1, <1>2, <1>3, Zenon DEF Next

LEMMA AlwaysCacheInv == Spec => []CacheInv
  <1>1. Init => AllLooked
    BY Zenon DEF Init, AllLooked, Looked
  <1> QED
    BY <1>1, TypeInit, GuardedInit, OwnedInit, PublishedInit, PureInit, TypeNext, GuardedNext,
       OwnedNext, PublishedNext, PureNext, LookedNext, PTL DEF Spec, CacheInv

\* Nobody builds under the lock what is already there, for any number of
\* processes that wait for it: after the lock is taken the cache is read again
\* (build_stdlib_snapshot), and as long as every lock call
\* succeeds nobody else changes what it found.
THEOREM BuildsAreNeeded == Spec => []BuildIsNeeded
  <1>1. CacheInv => BuildIsNeeded
    BY Zenon DEF CacheInv, AllLooked, Looked, BuildIsNeeded
  <1> QED
    BY <1>1, AlwaysCacheInv, PTL

\* What a process loads from a cache is what it would have built, for any
\* number of processes that load, build, copy, remove and die.  It is so where
\* nobody copies another key's artifact to the path, and on the snapshot's
\* shared path too when the file is read under the lock and all lock calls
\* succeed: the key in a semantic snapshot is compared
\* (load_cached_stdlib_semantic_snapshot), the path of any other artifact is
\* its key (cache_key in run_cache.rs), and a cut file does not decode.
THEOREM HitsAreOwn == Spec => []HitIsOwn
  <1>1. ASSUME CacheInv, NEW p \in Procs, pc[p] = "hit", NoForeignCopy(p) \/ Alone(p)
        PROVE  \A b \in Blocks : buf[p][b] = Key(p)
    <2>1. Path(p) \in Paths /\ Holders
      BY <1>1, TypeSplit, JobFacts, Zenon DEF CacheInv
    <2>2. lock[Path(p)] # p
      BY <1>1, <2>1, Constants, Zenon DEF Holders, Running, Active
    <2> QED
      BY <1>1, <2>2, Zenon DEF CacheInv, Pure, Hit, Alone
  <1>2. ASSUME CacheInv, NEW p \in Procs, pc[p] = "read", Decodes(p), NoForeignCopy(p)
        PROVE  \A b \in Blocks : buf[p][b] = Key(p)
    <2>1. pos[p] # 1 /\ \A b \in Blocks : b < pos[p]
      BY <1>2, CacheAssumption DEF Decodes, AtEnd, Blocks
    <2>2. Reading(p)
      BY <1>2, Zenon DEF CacheInv, Pure
    <2>3. buf[p][1] = Key(p)
      BY <1>2, <2>1, <2>2, Constants, Zenon DEF Decodes, Reading
    <2> QED
      BY <1>2, <2>1, <2>2, <2>3, Zenon DEF Reading, OwnSoFar
  <1>3. ASSUME CacheInv, NEW p \in Procs, pc[p] = "read", Decodes(p), Alone(p)
        PROVE  \A b \in Blocks : buf[p][b] = Key(p)
    <2>1. Path(p) \in Semantic
      <3>1. Path(p) \in Paths
        BY <1>3, TypeSplit, JobFacts, Zenon DEF CacheInv
      <3> QED
        BY <1>3, <3>1, Constants, Zenon DEF CacheInv, Guarded, Alone
    <2>2. \A b \in Blocks : b < pos[p]
      BY <1>3, Constants DEF Decodes, AtEnd, Blocks
    <2>3. fd[p] \in Files /\ Path(Owner(fd[p])) = Path(p)
      <3>1. fd[p] \in Files \cup {None} /\ fd[p] # None
        BY <1>3, TypeSplit, Zenon DEF CacheInv, OpenFile
      <3> QED
        BY <1>3, <3>1, Zenon DEF CacheInv, Owned, ProcOwned
    <2>4. \A b \in Blocks : buf[p][b] = file[fd[p]][b] /\ buf[p][b] # None
      BY <1>3, <2>2, Zenon DEF CacheInv, AllLooked, Looked
    <2>5. Orderly(Path(p))
      BY <1>3, <2>1, Zenon DEF Orderly, Alone
    <2>6. PICK q \in Procs : Of(fd[p], Key(q))
      BY <1>3, <2>3, <2>5, Zenon DEF CacheInv, Pure, Uniform
    <2>7. buf[p][1] = Key(p) /\ Key(p) # None
      <3>1. Key(p) \in Keys
        BY <1>3, TypeSplit, JobFacts, Zenon DEF CacheInv
      <3> QED
        BY <1>3, <2>1, <3>1, Constants, Zenon DEF Decodes
    <2>8. Key(q) = Key(p)
      BY <2>4, <2>6, <2>7, Constants, Zenon DEF Of
    <2> QED
      BY <2>4, <2>6, <2>8, Zenon DEF Of
  <1>4. CacheInv => HitIsOwn
    BY <1>1, <1>2, <1>3, Zenon DEF HitIsOwn
  <1> QED
    BY <1>4, AlwaysCacheInv, PTL

=============================================================================
