--------------------------- MODULE MCSessionSync ---------------------------
(* The instances of SessionSync that TLC checks. *)
EXTENDS SessionSync
=============================================================================
