----------------------------- MODULE BundleStore -----------------------------
(***************************************************************************)
(* The content-addressed bundle store (tempest_api/bundlestore.py) under   *)
(* the transactions that fill it: ingest_zip_bytes (ingest.py), called by  *)
(* the upload and import endpoints (routers/runs.py) and by local proves.  *)
(*                                                                         *)
(* Run rows live in SQLite, blobs in the file system.  An ingest takes     *)
(* SQLite's write lock with its first flush, before put(), and holds it to *)
(* the commit; reads outside a transaction see what is committed.  The     *)
(* collection of garbage runs after the commit, without the lock.          *)
(*                                                                         *)
(* Runs are numbered in the order of their ids, which is their age.        *)
(***************************************************************************)
EXTENDS Naturals, FiniteSets, FiniteSetsExt

CONSTANTS Runs,      \* run ids
          Imports,   \* those whose row an import creates; the rest are PENDING
          Digests,   \* contents of bundles
          Bytes,     \* Bytes[r]: the digests the bundle of run r may have
          Size,      \* Size[d]: the size of a bundle
          Budget,    \* the budget of the store
          NoDigest   \* a row without bundle

ASSUME StoreAssumption ==
  /\ Runs \subseteq Nat /\ IsFiniteSet(Runs) /\ Imports \subseteq Runs
  /\ Bytes \in [Runs -> SUBSET Digests] /\ NoDigest \notin Digests
  /\ Size \in [Digests -> Nat] /\ Budget \in Nat \ {0}

VARIABLES
  row,      \* row[r]: absent, pending, done, pruned: the committed rows
  digest,   \* digest[r]: the committed runs.bundle_digest
  blobs,    \* the digests whose blob is on disk
  writer,   \* the run whose ingest holds SQLite's write lock, or {}
  at,       \* at[r]: where the ingest of r is
  mine,     \* mine[r]: the digest of the bytes it ingests
  doomed,   \* doomed[r]: rows its transaction deletes
  cand,     \* cand[r]: pruned digests it has still to collect
  seen,     \* seen[r]: the digests it saw referenced
  counted   \* history: the blobs that were there when the open transaction pruned

vars == <<row, digest, blobs, writer, at, mine, doomed, cand, seen, counted>>

Bearing == {r \in Runs : digest[r] # NoDigest}
Referenced == {digest[r] : r \in Bearing}
Busy == {r \in Runs : at[r] \notin {"idle", "over"}}

Init ==
  /\ row = [r \in Runs |-> IF r \in Imports THEN "absent" ELSE "pending"]
  /\ digest = [r \in Runs |-> NoDigest]
  /\ blobs = {} /\ writer = {}
  /\ at = [r \in Runs |-> "idle"]
  /\ mine = [r \in Runs |-> NoDigest]
  /\ doomed = [r \in Runs |-> {}] /\ cand = [r \in Runs |-> {}]
  /\ seen = [r \in Runs |-> {}] /\ counted = {}

-----------------------------------------------------------------------------
(* The import endpoint looks for a run that holds the same bytes. *)

\* One exists: put() restores its blob and the existing run is returned.
ImportKnown(r, d) ==
  /\ r \in Imports /\ at[r] = "idle" /\ d \in Bytes[r] /\ d \in Referenced
  /\ blobs' = blobs \cup {d}
  /\ at' = [at EXCEPT ![r] = "over"]
  /\ UNCHANGED <<row, digest, writer, mine, doomed, cand, seen, counted>>

\* None does: go on to create a run.
ImportNew(r, d) ==
  /\ r \in Imports /\ at[r] = "idle" /\ d \in Bytes[r] /\ d \notin Referenced
  /\ mine' = [mine EXCEPT ![r] = d]
  /\ at' = [at EXCEPT ![r] = "checked"]
  /\ UNCHANGED <<row, digest, blobs, writer, doomed, cand, seen, counted>>

\* The import's row is inserted: its id follows every id there is.
ImportBegin(r) ==
  /\ at[r] = "checked" /\ writer = {}
  /\ \A x \in Imports : x > r => row[x] = "absent"
  /\ writer' = {r}
  /\ at' = [at EXCEPT ![r] = "put"]
  /\ UNCHANGED <<row, digest, blobs, mine, doomed, cand, seen, counted>>

\* An upload or a finished local prove: the first flush of ingest_bundle.
UploadBegin(r, d) ==
  /\ r \notin Imports /\ at[r] = "idle" /\ row[r] = "pending" /\ d \in Bytes[r]
  /\ writer = {}
  /\ writer' = {r}
  /\ mine' = [mine EXCEPT ![r] = d]
  /\ at' = [at EXCEPT ![r] = "put"]
  /\ UNCHANGED <<row, digest, blobs, doomed, cand, seen, counted>>

-----------------------------------------------------------------------------
(* ingest_zip_bytes and the caller's commit. *)

\* Mutant of Put: the blob is left to be written after the commit.
PutNothing(r) ==
  /\ at[r] = "put"
  /\ at' = [at EXCEPT ![r] = "prune"]
  /\ UNCHANGED <<row, digest, blobs, writer, mine, doomed, cand, seen, counted>>

\* put(): an existing blob is left alone, a new one written and renamed.
Put(r) ==
  /\ at[r] = "put"
  /\ blobs' = blobs \cup {mine[r]}
  /\ at' = [at EXCEPT ![r] = "prune"]
  /\ UNCHANGED <<row, digest, writer, mine, doomed, cand, seen, counted>>

\* The rows as the ingest of r sees them, itself included.
Own(r) == [digest EXCEPT ![r] = mine[r]]
Candidates(r) == Bearing \cup {r}

\* store.size(d), over the digests in D, when the blobs in B are on disk.
Weight(B, D) == MapThenSumSet(LAMBDA d : IF d \in B THEN Size[d] ELSE 0, D)
Total(r, S) == Weight(blobs, {Own(r)[x] : x \in S})

\* Neither the newest bundle-bearing run nor the one being completed.
Prunable(r) == Candidates(r) \ {r, Max(Candidates(r))}

\* Mutant of Doomed: the loop stops one run too early.
DoomedOneShort(r) ==
  {x \in Prunable(r) : \A y \in Prunable(r) :
     y <= x => Total(r, Candidates(r) \ {z \in Prunable(r) : z <= y}) > Budget}

\* The loop deletes the oldest prunable run while what is left is over budget:
\* it gets to x if it was over budget at x, and at every one before.
Doomed(r) ==
  {x \in Prunable(r) : \A y \in Prunable(r) :
     y <= x => Total(r, Candidates(r) \ {z \in Prunable(r) : z < y}) > Budget}

\* prune_over_budget: rows only, in the transaction; the blobs are candidates.
Prune(r) ==
  /\ at[r] = "prune"
  /\ doomed' = [doomed EXCEPT ![r] = Doomed(r)]
  /\ cand' = [cand EXCEPT ![r] = {digest[x] : x \in Doomed(r)}]
  /\ counted' = blobs
  /\ at' = [at EXCEPT ![r] = "commit"]
  /\ UNCHANGED <<row, digest, blobs, writer, mine, seen>>

Commit(r) ==
  /\ at[r] = "commit"
  /\ row' = [x \in Runs |-> IF x = r THEN "done"
                            ELSE IF x \in doomed[r] THEN "pruned" ELSE row[x]]
  /\ digest' = [x \in Runs |-> IF x = r THEN mine[r]
                               ELSE IF x \in doomed[r] THEN NoDigest ELSE digest[x]]
  /\ writer' = {} /\ counted' = {}
  /\ doomed' = [doomed EXCEPT ![r] = {}]
  /\ at' = [at EXCEPT ![r] = "collect"]
  /\ UNCHANGED <<blobs, mine, cand, seen>>

\* An exception before the commit: the rows roll back, a written blob stays.
Rollback(r) ==
  /\ at[r] \in {"checked", "put", "prune", "commit"}
  /\ writer' = writer \ {r}
  /\ counted' = IF r \in writer THEN {} ELSE counted
  /\ doomed' = [doomed EXCEPT ![r] = {}] /\ cand' = [cand EXCEPT ![r] = {}]
  /\ at' = [at EXCEPT ![r] = "over"]
  /\ UNCHANGED <<row, digest, blobs, mine, seen>>

-----------------------------------------------------------------------------
(* collect_garbage(candidates), after the commit. *)

CollectRead(r) ==
  /\ at[r] = "collect"
  /\ seen' = [seen EXCEPT ![r] = Referenced]
  /\ at' = [at EXCEPT ![r] = "unlink"]
  /\ UNCHANGED <<row, digest, blobs, writer, mine, doomed, cand, counted>>

Unlink(r, d) ==
  /\ at[r] = "unlink" /\ d \in cand[r]
  /\ blobs' = IF d \in seen[r] THEN blobs ELSE blobs \ {d}
  /\ cand' = [cand EXCEPT ![r] = @ \ {d}]
  /\ UNCHANGED <<row, digest, writer, at, mine, doomed, seen, counted>>

CollectDone(r) ==
  /\ at[r] = "unlink" /\ cand[r] = {}
  /\ at' = [at EXCEPT ![r] = "over"]
  /\ seen' = [seen EXCEPT ![r] = {}]
  /\ UNCHANGED <<row, digest, blobs, writer, mine, doomed, cand, counted>>

\* The process dies: open transactions roll back, pending collections are lost.
Crash ==
  /\ Busy # {}
  /\ writer' = {} /\ counted' = {}
  /\ at' = [r \in Runs |-> IF r \in Busy THEN "over" ELSE at[r]]
  /\ doomed' = [r \in Runs |-> {}] /\ cand' = [r \in Runs |-> {}]
  /\ seen' = [r \in Runs |-> {}]
  /\ UNCHANGED <<row, digest, blobs, mine>>

Begin(r, d) == ImportKnown(r, d) \/ ImportNew(r, d) \/ UploadBegin(r, d)
Ingest(r) ==
  \/ ImportBegin(r) \/ Put(r) \/ Prune(r) \/ Commit(r) \/ Rollback(r)
  \/ CollectRead(r) \/ CollectDone(r)
  \/ \E d \in Digests : Unlink(r, d)

Next ==
  \/ \E r \in Runs, d \in Digests : Begin(r, d)
  \/ \E r \in Runs : Ingest(r)
  \/ Crash

Spec == Init /\ [][Next]_vars

-----------------------------------------------------------------------------
(* Properties. *)

TypeOK ==
  /\ row \in [Runs -> {"absent", "pending", "done", "pruned"}]
  /\ digest \in [Runs -> Digests \cup {NoDigest}]
  /\ blobs \subseteq Digests /\ counted \subseteq Digests /\ writer \subseteq Runs
  /\ at \in [Runs -> {"idle", "checked", "put", "prune", "commit", "collect", "unlink", "over"}]
  /\ mine \in [Runs -> Digests \cup {NoDigest}]
  /\ doomed \in [Runs -> SUBSET Runs]
  /\ cand \in [Runs -> SUBSET Digests] /\ seen \in [Runs -> SUBSET Digests]

\* A run whose bytes no other run can carry.
Unshared(r) == \A x \in Runs \ {r} : Bytes[x] \cap Bytes[r] = {}

\* "Every surviving run keeps its evidence", whatever is pruned, rolled back,
\* crashed or collected around it: of the runs with bytes of their own.
OwnEvidenceKept == \A r \in Bearing : Unshared(r) => digest[r] \in blobs

\* "The newest run is never pruned": whatever ingest prunes, and whatever others
\* commit between its count and its commit, the newest bundle-bearing run keeps
\* its row.
NewestKept ==
  [][\A r \in Bearing \cup Bearing' :
       (\A x \in Bearing \cup Bearing' : x <= r) => r \in Bearing']_vars

\* "Until the store fits the budget": a commit leaves the referenced bundles
\* within it, at the sizes its own prune counted, unless all that is left is the
\* run just completed and the newest one.
FitsAfterCommit ==
  [][\A r \in Runs : at[r] = "commit" /\ at'[r] = "collect" =>
       \/ ~(Weight(counted, Referenced') > Budget)
       \/ Bearing' \subseteq {r, Max(Bearing')}]_vars

\* The same sentence at the sizes of the commit.  It does NOT hold when a blob that
\* the prune counted as missing is put back before (README, section 4).
FitsAtCommit ==
  [][\A r \in Runs : at[r] = "commit" /\ at'[r] = "collect" =>
       \/ ~(Weight(blobs', Referenced') > Budget)
       \/ Bearing' \subseteq {r, Max(Bearing')}]_vars

\* "Every surviving run keeps its evidence", of every run: a committed digest has its blob.  It does NOT
\* hold of runs that carry the same bytes (README, section 4).
NoDangling == Referenced \subseteq blobs

(* The inductive strengthening of OwnEvidenceKept. *)
Ingesting == {"put", "prune", "commit"}
WriterShape ==
  /\ \A r \in Runs : at[r] \in Ingesting <=> r \in writer
  /\ \A r, x \in writer : r = x
BytesShape ==
  \A r \in Runs :
    /\ at[r] \in Ingesting \cup {"checked"} => mine[r] \in Bytes[r] /\ digest[r] = NoDigest
    /\ at[r] \in {"prune", "commit"} /\ Unshared(r) => mine[r] \in blobs
    /\ at[r] = "idle" => digest[r] = NoDigest
    /\ digest[r] # NoDigest => digest[r] \in Bytes[r]
    /\ digest[r] # NoDigest /\ Unshared(r) => digest[r] \in blobs
Retired(x) == at[x] \in {"collect", "unlink", "over"} /\ digest[x] = NoDigest
CandShape ==
  \A r \in Runs :
    /\ at[r] \in {"idle", "checked", "put", "prune"} => cand[r] = {}
    /\ at[r] = "commit" =>
         /\ doomed[r] \subseteq Bearing \ {r}
         /\ cand[r] = {digest[x] : x \in doomed[r]}
    /\ at[r] \in {"collect", "unlink"} =>
         \A d \in cand[r] : \E x \in Runs : d \in Bytes[x] /\ Retired(x)
    /\ at[r] = "over" => cand[r] = {}
IInv == TypeOK /\ WriterShape /\ BytesShape /\ CandShape

\* What the write lock keeps true from the prune to the commit: what would be left
\* fits the budget as it was counted, or nothing more could be deleted.
Kept(r) == Candidates(r) \ doomed[r]
FitShape ==
  \A r \in Runs : at[r] = "commit" =>
    \/ ~(Weight(counted, {Own(r)[x] : x \in Kept(r)}) > Budget)
    \/ Kept(r) \subseteq {r, Max(Candidates(r))}
=============================================================================
