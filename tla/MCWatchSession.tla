--------------------------- MODULE MCWatchSession ---------------------------
(* The watch session on small instances: three commits, HEAD moving twice. *)
EXTENDS WatchSession
=============================================================================
