---------------------------- MODULE MCLocalProve ----------------------------
(* One run on small instances. *)
EXTENDS LocalProve
=============================================================================
