---------------------------- MODULE MCCancelScope ----------------------------
(* The cancellation scope on a small instance. *)
EXTENDS CancelScope
=============================================================================
