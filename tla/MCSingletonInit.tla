-------------------------- MODULE MCSingletonInit ---------------------------
(* Small instances of SingletonInit for TLC. *)
EXTENDS SingletonInit

CONSTANTS a, b

\* The plan boots a; b is started by the first request for it.
OnlyA == <<a>>
=============================================================================
