---------------------------- MODULE MCReplEngine ----------------------------
(* Two instances of ReplEngine.  In the first an ordinary function f calls *)
(* a generic g, which calls an ordinary h that may be shadowed and defined *)
(* again; in the second a generic t calls a generic g that may be.         *)
EXTENDS ReplEngine

CalleeChain == [n \in {"f", "g", "h"} |->
                  CASE n = "f" -> "g" [] n = "g" -> "h" [] OTHER -> Nothing]

CalleeGeneric == [n \in {"t", "g"} |-> IF n = "t" THEN "g" ELSE Nothing]

(* A script that binds a value.                                            *)
BindingScript == << Line(<< >>, << >>, {"h"}) >>

NoScript == << >>
=============================================================================
