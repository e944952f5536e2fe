---------------------------- MODULE MCBundleStore ----------------------------
(* The bundle store on a small instance: five runs, bundles of two sizes. *)
EXTENDS BundleStore

CONSTANTS d1, d2, d3

\* Runs 1, 3 and 5 carry the same bytes, so that a collection can take a blob
\* that was committed again, and an import restore it; 2 and 4 have their own.
MCBytes ==
  [r \in Runs |-> CASE r = 2 -> {d2} [] r = 4 -> {d3} [] OTHER -> {d1}]
MCSize == [d \in Digests |-> IF d = d1 THEN 2 ELSE 1]
=============================================================================
