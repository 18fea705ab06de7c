---------------------------- MODULE MCWSTransport ----------------------------
(* The WebSocket transport on small instances.                              *)
EXTENDS WSTransport, TLC

(* Calls with the same kind of context are interchangeable.                 *)
CallerSymmetry == Permutations(Caller)
==============================================================================
