-------------------------- MODULE MCArtifactCache ---------------------------
(* Small instances of ArtifactCache for TLC. *)
EXTENDS ArtifactCache

CONSTANTS std, prefix, run, k1, k2

(* Builds of two versions of the compiler share the snapshot of the        *)
(* standard library; otherwise all processes want the same artifact.  The  *)
(* rename of none, one or two of them may fail.  Processes are alike but   *)
(* for that, so it does not matter which one is the odd one.               *)
Odd == CHOOSE p \in Procs : TRUE
Other == CHOOSE p \in Procs : p # Odd
Want(f, odd, fails) ==
  [p \in Procs |-> [path |-> f, key |-> IF p = Odd THEN odd ELSE k1, copies |-> p \in fails]]

SmallJobs ==
  {Want(std, k2, fails) : fails \in {{}, Procs \ {Odd}, {Odd, Other}}} \cup
  {Want(prefix, k1, {Odd})} \cup
  {Want(run, k1, fails) : fails \in {{}, {Odd}, {Odd, Other}}}
=============================================================================
