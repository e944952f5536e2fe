---------------------------- MODULE MCChatStream ----------------------------
(* The chat stream for TLC.  MCChatStream.cfg: one turn, two sessions, one *)
(* crash.  MCChatLive.cfg: one session, with timeouts and retries, for     *)
(* liveness.                                                               *)
EXTENDS ChatStream
=============================================================================
