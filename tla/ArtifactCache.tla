--------------------------- MODULE ArtifactCache ----------------------------
(***************************************************************************)
(* The compilation caches on disk: final bytecode of `rune run`            *)
(* (crates/rune/src/run_cache.rs), the standard library snapshot and the   *)
(* test prefix (crates/xldr/src/lib.rs, crates/rune/src/compile.rs).       *)
(* Operating system processes load an artifact, or build and store it.     *)
(*                                                                         *)
(* The two semantic caches check the key in the file and guard a miss with *)
(* a file lock, after which they look again.  The run cache does neither;  *)
(* its path is the key, and a file that does not decode is removed.  An    *)
(* artifact is written to a temporary file and renamed, or copied where    *)
(* the rename fails.  Reads and writes go block by block; rename is atomic *)
(* and a reader keeps the file it has opened.  A process may be killed at  *)
(* any step; a crash of the machine kills all of them and cuts files that  *)
(* were never synced.                                                      *)
(***************************************************************************)
EXTENDS Naturals

CONSTANTS
  Procs,     \* operating system processes
  Keys,      \* cache keys: everything an artifact is built from
  Paths,     \* cache files
  Semantic,  \* the paths of the two semantic caches
  Shared,    \* the paths that do not name a key: standard library snapshots
  Jobs,      \* of each process: path, key, and whether its rename fails
  NB,        \* blocks of an artifact; the first one holds the key
  None

Job == [path : Paths, key : Keys, copies : BOOLEAN]

\* Except for the snapshots of the standard library, a path is named after its
\* key.  Any rename may fail, on any path.
ASSUME CacheAssumption ==
  /\ NB \in Nat \ {0} /\ Shared \subseteq Semantic /\ Semantic \subseteq Paths
  /\ None \notin Keys /\ None \notin Procs
  /\ Jobs \subseteq [Procs -> Job]
  /\ \A j \in Jobs, p, q \in Procs :
       j[p].path = j[q].path /\ j[p].path \notin Shared => j[p].key = j[q].key

Blocks == 1..NB
Files == Procs \X {"temp", "copy"}    \* files by who creates them
ASSUME NoneIsNoFile == None \notin Files

VARIABLES
  job,
  file,      \* contents: the key each block was written for, or None
  dir,       \* the file each path leads to
  lock,      \* who holds the lock file of a path
  pc, fd, buf, pos,   \* of each process: step, open file, blocks read, next block
  clean,     \* processes that began after the last fault
  lockless,  \* processes whose lock call failed
  crashed    \* the machine has crashed

vars == <<job, file, dir, lock, pc, fd, buf, pos, clean, lockless, crashed>>

Path(p) == job[p].path
Key(p) == job[p].key
Empty == [b \in Blocks |-> None]
Temp(p) == <<p, "temp">>
CopyOf(p) == <<p, "copy">>

Ended == {"hit", "stored", "failed", "dead"}
Active == {"again", "read", "lock", "build", "write", "copy"}
Running == {p \in Procs : pc[p] \in Active}

Init ==
  /\ job \in Jobs
  /\ file = [i \in Files |-> Empty]
  /\ dir = [f \in Paths |-> None]
  /\ lock = [f \in Paths |-> None]
  /\ pc = [p \in Procs |-> "start"]
  /\ fd = [p \in Procs |-> None]
  /\ buf = [p \in Procs |-> Empty]
  /\ pos = [p \in Procs |-> 1]
  /\ clean = {} /\ lockless = {} /\ crashed = FALSE

Goto(p, l) == pc' = [pc EXCEPT ![p] = l]
Released(p) == [lock EXCEPT ![Path(p)] = IF @ = p THEN None ELSE @]
Closes(p) == fd' = [fd EXCEPT ![p] = None] /\ pos' = [pos EXCEPT ![p] = 1]
Finish(p, how) == Goto(p, how) /\ Closes(p) /\ lock' = Released(p)

-----------------------------------------------------------------------------
(* Loading *)

\* Mutant: a process that has the lock asks for it again.
AfterMissRelocks(p) == IF Path(p) \in Semantic THEN "lock" ELSE "build"

\* A miss under the lock, or without one, leads to a build.
AfterMiss(p) == IF Path(p) \in Semantic /\ lock[Path(p)] # p THEN "lock" ELSE "build"

Open(p) ==
  /\ pc[p] \in {"start", "again"}
  /\ clean' = clean \cup (IF pc[p] = "start" THEN {p} ELSE {})
  /\ IF dir[Path(p)] = None
       THEN Goto(p, AfterMiss(p)) /\ UNCHANGED fd
       ELSE Goto(p, "read") /\ fd' = [fd EXCEPT ![p] = dir[Path(p)]]
  /\ UNCHANGED <<job, file, dir, lock, buf, pos, lockless, crashed>>

AtEnd(p) == pos[p] = NB + 1
EndOfFile(p) == ~AtEnd(p) => file[fd[p]][pos[p]] = None

Read(p) ==
  /\ pc[p] = "read" /\ ~EndOfFile(p)
  /\ buf' = [buf EXCEPT ![p] = [@ EXCEPT ![pos[p]] = file[fd[p]][pos[p]]]]
  /\ pos' = [pos EXCEPT ![p] = @ + 1]
  /\ UNCHANGED <<job, file, dir, lock, pc, fd, clean, lockless, crashed>>

\* Mutant: the key in the file is not compared.
DecodesAny(p) == AtEnd(p)

\* A file that was cut short does not decode.
Decodes(p) == AtEnd(p) /\ (Path(p) \in Semantic => buf[p][1] = Key(p))

EndRead(p) ==
  /\ pc[p] = "read" /\ EndOfFile(p)
  /\ IF Decodes(p)
       THEN Finish(p, "hit") /\ UNCHANGED <<dir, buf>>
       ELSE /\ Goto(p, AfterMiss(p)) /\ Closes(p)
            /\ buf' = [buf EXCEPT ![p] = Empty]
            /\ dir' = IF Path(p) \in Semantic THEN dir ELSE [dir EXCEPT ![Path(p)] = None]
            /\ UNCHANGED lock
  /\ UNCHANGED <<job, file, clean, lockless, crashed>>

\* Mutant: the cache is not read again under the lock.
TakeLockAndBuild(p) ==
  /\ pc[p] = "lock" /\ lock[Path(p)] = None
  /\ lock' = [lock EXCEPT ![Path(p)] = p]
  /\ Goto(p, "build")
  /\ UNCHANGED <<job, file, dir, fd, buf, pos, clean, lockless, crashed>>

\* acquire_semantic_cache_lock waits for the lock file, or fails.
TakeLock(p) ==
  /\ pc[p] = "lock" /\ lock[Path(p)] = None
  /\ lock' = [lock EXCEPT ![Path(p)] = p]
  /\ Goto(p, "again")
  /\ UNCHANGED <<job, file, dir, fd, buf, pos, clean, lockless, crashed>>

LockFails(p) ==
  /\ pc[p] = "lock"
  /\ lockless' = lockless \cup {p}
  /\ Goto(p, "build")
  /\ UNCHANGED <<job, file, dir, lock, fd, buf, pos, clean, crashed>>

-----------------------------------------------------------------------------
(* Storing *)

\* Mutant: the artifact is written in place.
BuildInPlace(p) ==
  /\ pc[p] = "build"
  /\ Goto(p, "write")
  /\ file' = [file EXCEPT ![Temp(p)] = Empty]
  /\ dir' = [dir EXCEPT ![Path(p)] = Temp(p)]
  /\ UNCHANGED <<job, lock, fd, buf, pos, clean, lockless, crashed>>

\* Compile, and create the temporary file.  A compile error ends the process
\* as Kill does.
Build(p) ==
  /\ pc[p] = "build"
  /\ Goto(p, "write")
  /\ file' = [file EXCEPT ![Temp(p)] = Empty]
  /\ UNCHANGED <<job, dir, lock, fd, buf, pos, clean, lockless, crashed>>

WriteBlock(p, i) ==
  /\ ~AtEnd(p)
  /\ file' = [file EXCEPT ![i] = [@ EXCEPT ![pos[p]] = Key(p)]]
  /\ pos' = [pos EXCEPT ![p] = @ + 1]
  /\ UNCHANGED <<job, dir, lock, pc, fd, buf, clean, lockless, crashed>>

Write(p) == pc[p] = "write" /\ WriteBlock(p, Temp(p))

\* Mutant: an existing file is never replaced.
RenameNoReplace(p) ==
  /\ pc[p] = "write" /\ AtEnd(p) /\ ~job[p].copies
  /\ dir' = IF dir[Path(p)] = None THEN [dir EXCEPT ![Path(p)] = Temp(p)] ELSE dir
  /\ Finish(p, "stored")
  /\ UNCHANGED <<job, file, buf, clean, lockless, crashed>>

Rename(p) ==
  /\ pc[p] = "write" /\ AtEnd(p) /\ ~job[p].copies
  /\ dir' = [dir EXCEPT ![Path(p)] = Temp(p)]
  /\ Finish(p, "stored")
  /\ UNCHANGED <<job, file, buf, clean, lockless, crashed>>

\* The rename fails: open the path for copying, which cuts what is there.
CopyTarget(p) == IF dir[Path(p)] = None THEN CopyOf(p) ELSE dir[Path(p)]

StartCopy(p) ==
  /\ pc[p] = "write" /\ AtEnd(p) /\ job[p].copies
  /\ Goto(p, "copy")
  /\ dir' = [dir EXCEPT ![Path(p)] = CopyTarget(p)]
  /\ file' = [file EXCEPT ![CopyTarget(p)] = Empty]
  /\ fd' = [fd EXCEPT ![p] = CopyTarget(p)]
  /\ pos' = [pos EXCEPT ![p] = 1]
  /\ UNCHANGED <<job, lock, buf, clean, lockless, crashed>>

Copy(p) == pc[p] = "copy" /\ WriteBlock(p, fd[p])

EndCopy(p) ==
  /\ pc[p] = "copy" /\ AtEnd(p)
  /\ Finish(p, "stored")
  /\ UNCHANGED <<job, file, dir, buf, clean, lockless, crashed>>

-----------------------------------------------------------------------------
(* Faults *)

\* Writing or copying fails and the temporary file is removed; what a copy
\* has cut stays cut.
StoreFails(p) ==
  /\ pc[p] \in {"write", "copy"}
  /\ Finish(p, "failed")
  /\ file' = [file EXCEPT ![Temp(p)] = Empty]
  /\ clean' = {}
  /\ UNCHANGED <<job, dir, buf, lockless, crashed>>

Kill(p) ==
  /\ p \in Running
  /\ Finish(p, "dead")
  /\ clean' = {}
  /\ UNCHANGED <<job, file, dir, buf, lockless, crashed>>

MachineCrash ==
  /\ ~crashed /\ crashed' = TRUE
  /\ pc' = [p \in Procs |-> IF p \in Running THEN "dead" ELSE pc[p]]
  /\ lock' = [f \in Paths |-> None]
  /\ \E n \in 0..NB :
       file' = [i \in Files |-> [b \in Blocks |-> IF b <= n THEN file[i][b] ELSE None]]
  /\ clean' = {}
  /\ UNCHANGED <<job, dir, fd, buf, pos, lockless>>

-----------------------------------------------------------------------------
Step(p) ==
  \/ Open(p) \/ Read(p) \/ EndRead(p) \/ TakeLock(p)
  \/ Build(p) \/ Write(p) \/ Rename(p) \/ StartCopy(p) \/ Copy(p) \/ EndCopy(p)

Next ==
  \/ \E p \in Procs : Step(p) \/ LockFails(p) \/ StoreFails(p) \/ Kill(p)
  \/ MachineCrash

Spec == Init /\ [][Next]_vars

\* The operating system runs every process.
FairSpec == Spec /\ \A p \in Procs : WF_vars(Step(p))

-----------------------------------------------------------------------------
(* Properties *)

Whole(i, k) == i # None /\ \A b \in Blocks : file[i][b] = k

\* Values stay in their ranges, and a lock is held by a process that is still
\* at work on the path.
TypeOK ==
  /\ job \in Jobs
  /\ file \in [Files -> [Blocks -> Keys \cup {None}]]
  /\ dir \in [Paths -> Files \cup {None}]
  /\ lock \in [Paths -> Procs \cup {None}]
  /\ pc \in [Procs -> {"start"} \cup Active \cup Ended]
  /\ fd \in [Procs -> Files \cup {None}]
  /\ buf \in [Procs -> [Blocks -> Keys \cup {None}]]
  /\ pos \in [Procs -> 1..NB + 1]
  /\ clean \subseteq Procs /\ lockless \subseteq Procs /\ crashed \in BOOLEAN
  /\ \A f \in Paths : lock[f] # None => lock[f] \in Running /\ Path(lock[f]) = f

\* A process holds the lock, and no other goes without on its path.
Alone(p) == lock[Path(p)] = p /\ \A q \in lockless : Path(q) # Path(p)
CopiesTo(f) == {q \in Procs : Path(q) = f /\ job[q].copies}
NoForeignCopy(p) == \A q \in CopiesTo(Path(p)) : Key(q) = Key(p)

\* What a process decodes is the artifact it would have built itself, whatever
\* other builds share the path, replace, cut or remove the file while it is
\* read.  Under the lock this holds without condition, as long as all lock
\* calls succeed.  The first look is without the lock: there nobody may be
\* copying another key's artifact to the path, which only the standard
\* library's snapshots have.  Of such a copy the reader may get the first
\* blocks of one artifact and the last ones of the other, and it checks no more
\* than the key (load_cached_stdlib_semantic_snapshot).
HitIsOwn ==
  \A p \in Procs :
    (/\ pc[p] = "hit" \/ (pc[p] = "read" /\ Decodes(p))
     /\ NoForeignCopy(p) \/ Alone(p)) =>
      \A b \in Blocks : buf[p][b] = Key(p)

\* Where nothing is copied and the machine did not crash, whoever opens a path
\* finds a complete artifact of one build.
PublishedWhole ==
  \A f \in Paths :
    (/\ ~crashed /\ dir[f] # None
     /\ CopiesTo(f) = {}) =>
      \E k \in Keys : Whole(dir[f], k)

\* A process builds under the lock only what the cache does not hold: of those
\* that wait for the lock the first one builds and the others find its result.
BuildIsNeeded ==
  \A p \in Procs :
    pc[p] \in {"build", "write"} /\ Alone(p) => ~Whole(dir[Path(p)], Key(p))

\* Two copies of different keys may write to one file at a time, as one of the
\* processes has no lock.
Torn(f) == \E q \in lockless, r \in Procs :
             {q, r} \subseteq CopiesTo(f) /\ Key(q) # Key(r)

\* When everybody has ended, a process that began after the last fault has left
\* a complete artifact behind or found one: what a fault left does not stay, and
\* no process removes or cuts the result of another for good, also where
\* several of them copy.
FaultsHeal ==
  Running = {} =>
    \A p \in clean : Torn(Path(p)) \/ \E k \in Keys : Whole(dir[Path(p)], k)

\* Nobody waits for a lock forever.
EveryoneEnds == <>(\A p \in Procs : pc[p] \in Ended)

=============================================================================
