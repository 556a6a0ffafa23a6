---------------------------- MODULE MCWorkerPool ----------------------------
(* Small instances of WorkerPool for TLC. *)
EXTENDS WorkerPool, TLC

(* Legal strategies of size 0, 1 and 2, and ones that must be refused:     *)
(* init differs from the size, a bound is violated, the size is negative.  *)
SmallStrategies ==
  {[init |-> n, min |-> n, max |-> n, fix |-> n] : n \in 0..2}
    \cup {[init |-> 2, min |-> 0, max |-> 2, fix |-> 1],
          [init |-> 1, min |-> 2, max |-> 2, fix |-> 1],
          [init |-> 2, min |-> 0, max |-> 1, fix |-> 2],
          [init |-> -1, min |-> -1, max |-> 1, fix |-> -1]}

(* A pool of two workers. *)
PairStrategies == {[init |-> 2, min |-> 1, max |-> 2, fix |-> 2]}

PoolSymmetry == Permutations(Pid) \cup Permutations(Request)
=============================================================================
