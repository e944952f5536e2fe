---------------------------- MODULE MCEventReorder ----------------------------
(* TLC instances of EventReorder. *)
EXTENDS EventReorder
=============================================================================
