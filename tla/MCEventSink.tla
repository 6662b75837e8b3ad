---------------------------- MODULE MCEventSink ----------------------------
(* The instances of EventSink that TLC checks. *)
EXTENDS EventSink
=============================================================================
