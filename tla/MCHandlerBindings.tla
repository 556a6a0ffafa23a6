------------------------ MODULE MCHandlerBindings ---------------------------
(* A small instance of HandlerBindings for TLC. *)
EXTENDS HandlerBindings

CONSTANTS Writer, Log, Report

(* The process writes two files. *)
Declared == Writer :> <<Log, Report>>
=============================================================================
