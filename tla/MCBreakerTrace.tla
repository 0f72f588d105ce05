--------------------------- MODULE MCBreakerTrace ---------------------------
(* TLC instance of BreakerTrace. *)
EXTENDS BreakerTrace
=============================================================================
