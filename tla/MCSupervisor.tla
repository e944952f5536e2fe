---------------------------- MODULE MCSupervisor ----------------------------
(* The sidecar supervisor on small instances. *)
EXTENDS Supervisor
=============================================================================
