----------------------------- MODULE MCThrottle -----------------------------
(* Throttle on small instances. *)
EXTENDS Throttle, TLC

CONSTANTS k1, c1, c2
=============================================================================
