----------------------------- MODULE MCApproval -----------------------------
(* The approval lifecycle for TLC: two requests at a time, two pauses, one *)
(* replacement of the generation.                                          *)
EXTENDS ApprovalLifecycle
=============================================================================
