------------------------- MODULE ChunkSessionProofs -------------------------
(* Proofs about ChunkSession, for any bounds and any set of singletons. *)
EXTENDS ChunkSession, TLAPS

AnyRuntime ==
  [nextPid : Nat \ {0}, processes : SUBSET Nat, singletons : [Singletons -> Nat], booted : BOOLEAN]

\* The ids a runtime has given out are below its allocator.
Below(r) == r.processes \subseteq 1..(r.nextPid - 1)

\* The allocator is past the ids it gave out, in the runtime and in both
\* checkpoints, and the checkpoints are older than what runs.
AllocatorInv ==
  /\ runtime \in AnyRuntime /\ saved.runtime \in AnyRuntime /\ bootSaved \in AnyRuntime
  /\ Below(runtime) /\ Below(saved.runtime) /\ Below(bootSaved)
  /\ saved.runtime.nextPid <= bootSaved.nextPid
  /\ bootSaved.nextPid <= runtime.nextPid

(* A VM starts with an allocator that has given out nothing.               *)
LEMMA AllocatorInitially == Init => AllocatorInv
BY DEF Init, NoCheckpoint, FreshRuntime, AllocatorInv, AnyRuntime, Below

(* rollback_to_checkpoint keeps the larger of two allocators, so it cannot *)
(* fall behind the processes it brings back.                               *)
LEMMA RollbackKeepsAllocator ==
  ASSUME AllocatorInv, NEW high \in Nat, PushFails(high)
  PROVE  AllocatorInv' /\ runtime'.nextPid >= high
<1>1. runtime' = [saved.runtime EXCEPT !.nextPid = IF @ < high THEN high ELSE @]
  BY Zenon DEF PushFails, Rollback
<1>2. /\ runtime' \in AnyRuntime
      /\ Below(runtime')
      /\ 1 <= runtime'.nextPid
      /\ runtime'.nextPid >= high
  BY <1>1 DEF AllocatorInv, AnyRuntime, Below
<1>3. saved' = NoCheckpoint /\ bootSaved' = FreshRuntime
  BY Zenon DEF PushFails, Finished
<1> QED
  BY <1>2, <1>3 DEF AllocatorInv, NoCheckpoint, FreshRuntime, AnyRuntime, Below

(* An allocation moves the allocator past the id it gives out.             *)
LEMMA AllocationStaysBelow ==
  ASSUME NEW r \in AnyRuntime, NEW q \in AnyRuntime, Below(r),
         q.nextPid = r.nextPid + 1, q.processes = r.processes \cup {r.nextPid}
  PROVE  Below(q)
BY DEF AnyRuntime, Below

(* Every step of a push, and every spawn, keeps the allocator past the ids *)
(* in use.                                                                 *)
LEMMA AllocatorInductive == AllocatorInv /\ [Next]_vars => AllocatorInv'
<1> SUFFICES ASSUME AllocatorInv, [Next]_vars
             PROVE  AllocatorInv'
    BY Zenon
<1>1. CASE UNCHANGED vars
  BY <1>1, Zenon DEF vars, vmVars, pushVars, AllocatorInv
<1>2. CASE Generate
  BY <1>2, Zenon DEF Generate, vmVars, pushVars, AllocatorInv
<1>3. CASE CodegenFail \/ Refuse
  <2>1. /\ UNCHANGED runtime
        /\ saved' = NoCheckpoint /\ bootSaved' = FreshRuntime
    BY <1>3, Zenon DEF CodegenFail, Refuse, Finished, vmVars
  <2> QED
    BY <2>1 DEF AllocatorInv, NoCheckpoint, FreshRuntime, AnyRuntime, Below
<1>4. CASE Apply
  <2>1. saved'.runtime = runtime /\ bootSaved' = runtime /\ runtime' = runtime
    BY <1>4, Zenon DEF Apply, Checkpoint, vmVars
  <2> QED
    BY <2>1 DEF AllocatorInv, AnyRuntime
<1>5. CASE Mismatch
  BY <1>5, RollbackKeepsAllocator, Zenon DEF Mismatch, AllocatorInv, AnyRuntime
<1>6. CASE ExtendImage
  <2>1. /\ runtime' = [runtime EXCEPT !.booted = FALSE]
        /\ bootSaved' = runtime' /\ saved' = saved
    BY <1>6, Zenon DEF ExtendImage
  <2>2. /\ runtime' \in AnyRuntime
        /\ runtime'.nextPid = runtime.nextPid /\ runtime'.processes = runtime.processes
    BY <2>1, Zenon DEF AllocatorInv, AnyRuntime
  <2>3. Below(runtime')
    BY <2>2, Zenon DEF AllocatorInv, Below
  <2> QED
    BY <2>1, <2>2, <2>3 DEF AllocatorInv, AnyRuntime
<1>7. CASE BootOne
  <2>1. /\ runtime' = [runtime EXCEPT !.nextPid = @ + 1,
                                     !.processes = @ \cup {runtime.nextPid},
                                     !.singletons[Head(todo)] = runtime.nextPid]
        /\ saved' = saved /\ bootSaved' = bootSaved
    BY <1>7, Zenon DEF BootOne
  <2>0. /\ runtime.nextPid + 1 \in Nat \ {0}
        /\ runtime.processes \cup {runtime.nextPid} \in SUBSET Nat
        /\ runtime.nextPid \in Nat
    BY DEF AllocatorInv, AnyRuntime
  <2>2. /\ runtime' \in AnyRuntime
        /\ runtime'.nextPid = runtime.nextPid + 1
        /\ runtime'.processes = runtime.processes \cup {runtime.nextPid}
    BY <2>0, <2>1, Zenon DEF AllocatorInv, AnyRuntime
  <2>3. Below(runtime')
    BY <2>2, AllocationStaysBelow, Zenon DEF AllocatorInv
  <2>4. bootSaved.nextPid <= runtime'.nextPid
    BY <2>2 DEF AllocatorInv, AnyRuntime
  <2> QED
    BY <2>1, <2>2, <2>3, <2>4, Zenon DEF AllocatorInv
<1>8. CASE BootAgain
  BY <1>8, Zenon DEF BootAgain, vmVars, AllocatorInv
<1>9. CASE BootFail
  BY <1>9, RollbackKeepsAllocator, Zenon DEF BootFail, AllocatorInv, AnyRuntime
<1>10. CASE BootDone
  <2>1. /\ runtime' = [runtime EXCEPT !.booted = TRUE]
        /\ saved' = saved /\ bootSaved' = bootSaved
    BY <1>10, Zenon DEF BootDone, pushVars
  <2> QED
    BY <2>1, Zenon DEF AllocatorInv, AnyRuntime, Below
<1>11. CASE Spawn
  <2>1. /\ runtime' = [runtime EXCEPT !.nextPid = @ + 1,
                                     !.processes = @ \cup {runtime.nextPid}]
        /\ saved' = saved /\ bootSaved' = bootSaved
    BY <1>11 DEF Spawn, pushVars
  <2>0. /\ runtime.nextPid + 1 \in Nat \ {0}
        /\ runtime.processes \cup {runtime.nextPid} \in SUBSET Nat
        /\ runtime.nextPid \in Nat
    BY DEF AllocatorInv, AnyRuntime
  <2>2. /\ runtime' \in AnyRuntime
        /\ runtime'.nextPid = runtime.nextPid + 1
        /\ runtime'.processes = runtime.processes \cup {runtime.nextPid}
    BY <2>0, <2>1 DEF AllocatorInv, AnyRuntime
  <2>3. Below(runtime')
    BY <2>2, AllocationStaysBelow DEF AllocatorInv
  <2>4. bootSaved.nextPid <= runtime'.nextPid
    BY <2>2 DEF AllocatorInv, AnyRuntime
  <2> QED
    BY <2>1, <2>2, <2>3, <2>4, Zenon DEF AllocatorInv
<1>12. CASE Commit
  <2>1. /\ UNCHANGED runtime
        /\ saved' = NoCheckpoint /\ bootSaved' = FreshRuntime
    BY <1>12, Zenon DEF Commit, Finished
  <2> QED
    BY <2>1 DEF AllocatorInv, NoCheckpoint, FreshRuntime, AnyRuntime, Below
<1>13. CASE Fail
  BY <1>13, RollbackKeepsAllocator DEF Fail, AllocatorInv, AnyRuntime
<1> QED
  BY <1>1, <1>2, <1>3, <1>4, <1>5, <1>6, <1>7, <1>8, <1>9, <1>10, <1>11, <1>12, <1>13, Zenon DEF Next

(* The id of a process that exists, or that a rollback would bring back,   *)
(* is never handed out again.                                              *)
THEOREM LiveIdsSafe == Spec => []LiveIdsNotReissued
<1>1. AllocatorInv => LiveIdsNotReissued
  BY DEF AllocatorInv, AnyRuntime, Below, LiveIdsNotReissued
<1> QED
  BY <1>1, AllocatorInitially, AllocatorInductive, PTL DEF Spec

(* A rollback keeps the allocator's high water unless a boot has failed.   *)
THEOREM HighWaterSafe == Spec => HighWaterKept
<1>1. AllocatorInv /\ [Next]_vars => [runtime'.nextPid >= runtime.nextPid \/ Booting]_vars
  <2> SUFFICES ASSUME AllocatorInv, Next, ~ Booting
               PROVE  runtime'.nextPid >= runtime.nextPid
      BY Zenon
  <2>1. CASE Mismatch \/ Fail
    BY <2>1, RollbackKeepsAllocator, Zenon DEF Mismatch, Fail, AllocatorInv, AnyRuntime
  <2>2. CASE UNCHANGED runtime
    BY <2>2 DEF AllocatorInv, AnyRuntime
  <2>3. CASE ExtendImage
    BY <2>3 DEF ExtendImage, AllocatorInv, AnyRuntime
  <2>4. CASE Spawn
    BY <2>4 DEF Spawn, AllocatorInv, AnyRuntime
  <2> QED
    BY <2>1, <2>2, <2>3, <2>4, Zenon
    DEF Next, Generate, CodegenFail, Refuse, Apply, BootOne, BootAgain, BootFail, BootDone,
        Commit, vmVars
<1> QED
  BY <1>1, AllocatorInitially, AllocatorInductive, PTL DEF Spec, HighWaterKept
=============================================================================
