-------------------------- MODULE BundleStoreProofs --------------------------
(***************************************************************************)
(* For any runs, bundles, sizes and budget: a committed run whose bytes no *)
(* other run can carry never loses its blob, however ingests, prunes,      *)
(* rollbacks, crashes and collections interleave.                          *)
(***************************************************************************)
EXTENDS BundleStore, FiniteSetTheorems, TLAPS

USE StoreAssumption

LEMMA InitIInv == Init => IInv
  BY DEF Init, IInv, TypeOK, WriterShape, Ingesting, BytesShape, CandShape

LEMMA DoomedFact == ASSUME NEW r \in Runs PROVE Doomed(r) \subseteq Bearing \ {r}
  BY DEF Doomed, Prunable, Candidates

LEMMA NextIInv == IInv /\ [Next]_vars => IInv'
<1> SUFFICES ASSUME IInv, [Next]_vars PROVE IInv'
  OBVIOUS
<1> USE DEF IInv, TypeOK, WriterShape, Ingesting, BytesShape, CandShape, Retired, Bearing
<1>1. ASSUME NEW r \in Runs, NEW d \in Digests, ImportKnown(r, d) PROVE IInv'
  BY <1>1 DEF ImportKnown
<1>2. ASSUME NEW r \in Runs, NEW d \in Digests, ImportNew(r, d) PROVE IInv'
  BY <1>2 DEF ImportNew
<1>3. ASSUME NEW r \in Runs, NEW d \in Digests, UploadBegin(r, d) PROVE IInv'
  BY <1>3 DEF UploadBegin
<1>4. ASSUME NEW r \in Runs, ImportBegin(r) PROVE IInv'
  BY <1>4 DEF ImportBegin
<1>5. ASSUME NEW r \in Runs, Put(r) PROVE IInv'
  BY <1>5 DEF Put
<1>6. ASSUME NEW r \in Runs, Prune(r) PROVE IInv'
  BY <1>6, DoomedFact DEF Prune
<1>7. ASSUME NEW r \in Runs, Commit(r) PROVE IInv'
  BY <1>7 DEF Commit
<1>8. ASSUME NEW r \in Runs, Rollback(r) PROVE IInv'
  BY <1>8 DEF Rollback
<1>9. ASSUME NEW r \in Runs, CollectRead(r) PROVE IInv'
  BY <1>9 DEF CollectRead, Referenced
<1>10. ASSUME NEW r \in Runs, CollectDone(r) PROVE IInv'
  BY <1>10 DEF CollectDone
<1>11. ASSUME NEW r \in Runs, NEW d \in Digests, Unlink(r, d) PROVE IInv'
  <2>1. TypeOK' /\ WriterShape'
    BY <1>11 DEF Unlink
  <2>2. BytesShape'
    <3>1. PICK x \in Runs : d \in Bytes[x] /\ Retired(x)
      BY <1>11 DEF Unlink
    <3>2. \A y \in Runs : Unshared(y) /\ d \in Bytes[y] => y = x
      BY <3>1 DEF Unshared
    <3>3. UNCHANGED <<digest, at, mine>> /\ blobs \ {d} \subseteq blobs'
      BY <1>11 DEF Unlink
    <3>4. QED
      BY <3>1, <3>2, <3>3
  <2>3. CandShape'
    BY <1>11 DEF Unlink
  <2>4. QED
    BY <2>1, <2>2, <2>3
<1>12. CASE Crash
  BY <1>12 DEF Crash, Busy
<1>13. CASE UNCHANGED vars
  BY <1>13 DEF vars
<1>14. QED
  BY <1>1, <1>2, <1>3, <1>4, <1>5, <1>6, <1>7, <1>8, <1>9, <1>10, <1>11, <1>12, <1>13
  DEF Next, Begin, Ingest

\* The type invariant of the bundle store.
THEOREM StoreTypeCorrect == Spec => []TypeOK
<1>1. IInv => TypeOK
  BY DEF IInv
<1>2. QED
  BY <1>1, InitIInv, NextIInv, PTL DEF Spec

\* No run with bytes of its own loses its evidence to another ingest's
\* collection (collect_garbage).
THEOREM EvidenceSurvives == Spec => []OwnEvidenceKept
<1>1. IInv => OwnEvidenceKept
  BY DEF IInv, BytesShape, OwnEvidenceKept, Bearing
<1>2. QED
  BY <1>1, InitIInv, NextIInv, PTL DEF Spec

\* What an ingest is about to delete does not include the newest run that bears
\* a bundle: the write lock keeps the others from committing since it counted.
NewestSpared == \A r \in Runs : at[r] = "commit" => Max(Candidates(r)) \notin doomed[r]

\* The steps that commit nothing keep the rows, and with them the candidates.
LEMMA SparedKept ==
  ASSUME NewestSpared, digest' = digest,
         \A r \in Runs : at'[r] = "commit" => at[r] = "commit" /\ doomed'[r] = doomed[r]
  PROVE  NewestSpared'
BY DEF NewestSpared, Candidates, Bearing

\* The write lock keeps the count true until the commit.
LEMMA SparedStep == IInv /\ NewestSpared /\ [Next]_vars => NewestSpared'
<1> SUFFICES ASSUME IInv, NewestSpared, [Next]_vars PROVE NewestSpared'
  OBVIOUS
<1> USE DEF IInv, TypeOK
<1>1. ASSUME NEW r \in Runs, NEW d \in Digests, Begin(r, d) PROVE NewestSpared'
  BY <1>1, SparedKept DEF Begin, ImportKnown, ImportNew, UploadBegin
<1>2. ASSUME NEW r \in Runs, ImportBegin(r) PROVE NewestSpared'
  BY <1>2, SparedKept DEF ImportBegin
<1>3. ASSUME NEW r \in Runs, Put(r) PROVE NewestSpared'
  BY <1>3, SparedKept DEF Put
<1>4. ASSUME NEW r \in Runs, Prune(r) PROVE NewestSpared'
  <2>1. Max(Candidates(r)) \notin Doomed(r)
    BY DEF Doomed, Prunable
  <2>2. \A x \in Runs : Candidates(x)' = Candidates(x)
    BY <1>4 DEF Prune, Candidates, Bearing
  <2>3. doomed'[r] = Doomed(r) /\ \A x \in Runs \ {r} : doomed'[x] = doomed[x] /\ at'[x] = at[x]
    BY <1>4 DEF Prune
  <2>4. QED
    BY <2>1, <2>2, <2>3 DEF NewestSpared
<1>5. ASSUME NEW r \in Runs, Commit(r) PROVE NewestSpared'
  <2>1. \A x \in Runs : at'[x] # "commit"
    BY <1>5 DEF Commit, WriterShape, Ingesting
  <2>2. QED
    BY <2>1 DEF NewestSpared
<1>6. ASSUME NEW r \in Runs, Rollback(r) PROVE NewestSpared'
  BY <1>6, SparedKept DEF Rollback
<1>7. ASSUME NEW r \in Runs, CollectRead(r) \/ CollectDone(r) PROVE NewestSpared'
  BY <1>7, SparedKept DEF CollectRead, CollectDone
<1>8. ASSUME NEW r \in Runs, NEW d \in Digests, Unlink(r, d) PROVE NewestSpared'
  BY <1>8, SparedKept DEF Unlink
<1>9. CASE Crash
  BY <1>9, SparedKept DEF Crash, Busy
<1>10. CASE UNCHANGED vars
  BY <1>10, SparedKept DEF vars
<1>11. QED
  BY <1>1, <1>2, <1>3, <1>4, <1>5, <1>6, <1>7, <1>8, <1>9, <1>10 DEF Next, Ingest

\* Only a commit changes which runs bear a bundle.
LEMMA NewestStep ==
  IInv /\ NewestSpared /\ [Next]_vars =>
    [\A r \in Bearing \cup Bearing' :
       (\A x \in Bearing \cup Bearing' : x <= r) => r \in Bearing']_vars
<1> SUFFICES ASSUME IInv, NewestSpared, Next, NEW r \in Bearing \cup Bearing',
                    \A x \in Bearing \cup Bearing' : x <= r
             PROVE  r \in Bearing'
  BY DEF vars
<1>1. CASE \E q \in Runs : Commit(q)
  <2>1. PICK q \in Runs : Commit(q)
    BY <1>1
  <2>2. mine[q] # NoDigest /\ q \notin doomed[q]
    BY <2>1 DEF Commit, IInv, TypeOK, BytesShape, CandShape, Ingesting
  <2>3. Bearing' = Candidates(q) \ doomed[q]
    BY <2>1, <2>2 DEF Commit, Bearing, Candidates, IInv, TypeOK
  <2>4. Bearing \cup Bearing' = Candidates(q)
    BY <2>1, <2>2, <2>3 DEF Candidates
  <2>5. Candidates(q) \subseteq Nat
    BY DEF Candidates, Bearing
  <2>6. Max(Candidates(q)) = r
    BY <2>4, <2>5 DEF Max
  <2>7. QED
    BY <2>1, <2>3, <2>4, <2>6 DEF NewestSpared, Commit
<1>2. CASE ~\E q \in Runs : Commit(q)
  <2>1. digest' = digest
    BY <1>2 DEF Next, Begin, Ingest, ImportKnown, ImportNew, UploadBegin, ImportBegin, Put, Prune,
                Rollback, CollectRead, CollectDone, Unlink, Crash
  <2>2. QED
    BY <2>1 DEF Bearing
<1>3. QED
  BY <1>1, <1>2

\* The newest run that bears a bundle is never pruned, whatever overlaps
\* (prune_over_budget spares the newest id, in the transaction that commits).
THEOREM NewestSurvives == Spec => NewestKept
<1>1. Init => NewestSpared
  BY DEF Init, NewestSpared
<1>2. QED
  BY <1>1, InitIInv, NextIInv, SparedStep, NewestStep, PTL DEF Spec, NewestKept

-----------------------------------------------------------------------------
(* The budget. *)

\* A set of naturals has a least element.
LEMMA LeastRun ==
  ASSUME NEW T, T \subseteq Nat, T # {}
  PROVE  \E m \in T : \A n \in T : m <= n
<1> DEFINE R == {ss \in Nat \X Nat : ss[1] < ss[2]}
<1>1. IsWellFoundedOn(R, Nat)
  BY NatLessThanWellFounded DEF OpToRel
<1>2. PICK x \in T : \A y \in T : ~(<<y, x>> \in R)
  BY ONLY <1>1, T \subseteq Nat, T # {}, WFMin
<1>3. \A y \in T : <<y, x>> \in R <=> y < x
  OBVIOUS
<1>4. \A y \in T : ~(y < x)
  BY <1>2, <1>3
<1>5. QED
  BY <1>4

\* A set of runs that is not empty has a newest one.
LEMMA NewestExists ==
  ASSUME NEW S \in SUBSET Runs, S # {}
  PROVE  Max(S) \in S /\ \A x \in S : x <= Max(S)
<1> DEFINE Topped(A) == \E m \in A : \A x \in A : x <= m
           Bad == {n \in Nat : \E A \in SUBSET Runs : A # {} /\ Cardinality(A) = n /\ ~Topped(A)}
<1>1. \A A \in SUBSET Runs : IsFiniteSet(A) /\ Cardinality(A) \in Nat
  BY FS_Subset, FS_CardinalityType
<1>2. Bad = {}
  <2> SUFFICES ASSUME Bad # {} PROVE FALSE
    OBVIOUS
  <2>1. PICK n \in Bad : \A k \in Bad : n <= k
    BY LeastRun
  <2>2. PICK A \in SUBSET Runs : A # {} /\ Cardinality(A) = n /\ ~Topped(A)
    BY <2>1
  <2>3. PICK a \in A : TRUE
    BY <2>2
  <2> DEFINE B == A \ {a}
  <2>4. B \in SUBSET Runs /\ Cardinality(B) = n - 1 /\ n \in Nat /\ Cardinality(B) \in Nat
    BY <1>1, <2>1, <2>2, <2>3, FS_RemoveElement
  <2>5. B # {}
    <3>1. B = {} => A = {a} /\ a \in Nat
      BY <2>3
    <3>2. QED
      BY <2>2, <3>1
  <2>6. n - 1 \notin Bad
    BY <2>1, <2>4
  <2>7. Topped(B)
    BY <2>4, <2>5, <2>6
  <2>8. PICK m \in B : \A x \in B : x <= m
    BY <2>7
  <2>9. m \in Nat /\ a \in Nat /\ \A x \in A : x \in Nat /\ (x = a \/ x \in B)
    BY <2>3, <2>4, <2>8
  <2>10. CASE a <= m
    <3>1. \A x \in A : x <= m
      BY <2>8, <2>9, <2>10
    <3>2. QED
      BY <2>2, <2>8, <3>1
  <2>11. CASE m < a
    <3>1. \A x \in A : x <= a
      BY <2>8, <2>9, <2>11
    <3>2. QED
      BY <2>2, <2>3, <3>1
  <2>12. QED
    BY <2>9, <2>10, <2>11
<1>3. Topped(S)
  BY <1>1, <1>2
<1>4. PICK m \in S : \A x \in S : m >= x
  <2>1. \A x, y \in S : x <= y <=> y >= x
    OBVIOUS
  <2>2. QED
    BY <1>3, <2>1
<1>5. Max(S) \in S /\ \A x \in S : Max(S) >= x
  BY <1>4 DEF Max
<1>6. QED
  BY <1>5

\* The loop of prune_over_budget deletes the oldest prunable runs, up to the
\* first at which what is left fits; or all of them.
LEMMA LoopStops ==
  ASSUME IInv, NEW r \in Runs
  PROVE  LET K == Candidates(r) \ Doomed(r)
         IN ~(Total(r, K) > Budget) \/ K \subseteq {r, Max(Candidates(r))}
<1> DEFINE C == Candidates(r)
           P == Prunable(r)
           D == Doomed(r)
           Over(y) == Total(r, C \ {z \in P : z < y}) > Budget
<1>1. /\ P \subseteq Nat /\ P \subseteq C /\ C \ P \subseteq {r, Max(C)}
      /\ D = {x \in P : \A y \in P : y <= x => Over(y)}
  BY DEF Prunable, Doomed, Candidates, Bearing
<1> HIDE DEF C, P, D, Over
<1>2. CASE P \subseteq D
  BY <1>1, <1>2 DEF C, D
<1>3. CASE ~(P \subseteq D)
  <2>1. PICK x \in P \ D : \A y \in P \ D : x <= y
    <3>1. P \ D \subseteq Nat /\ P \ D # {}
      BY <1>1, <1>3
    <3>2. QED
      BY ONLY <3>1, LeastRun
  <2>2. ~Over(x)
    <3>1. PICK y \in P : y <= x /\ ~Over(y)
      BY <1>1, <2>1
    <3>2. y \notin D
      BY <1>1, <3>1
    <3>3. y = x
      BY <1>1, <2>1, <3>1, <3>2
    <3>4. QED
      BY <3>1, <3>3
  <2>3. D = {z \in P : z < x}
    <3>1. ASSUME NEW z \in P, z < x PROVE z \in D
      BY <1>1, <2>1, <3>1
    <3>2. ASSUME NEW z \in D PROVE z \in P /\ z < x
      BY <1>1, <2>1, <2>2
    <3>3. QED
      BY <3>1, <3>2, <1>1
  <2>4. ~(Total(r, C \ D) > Budget)
    BY <2>2, <2>3 DEF Over
  <2>5. QED
    BY <2>4 DEF C, D
<1>4. QED
  BY <1>2, <1>3

\* The steps that neither prune nor commit leave the count alone.
LEMMA FitKept ==
  ASSUME FitShape, digest' = digest,
         \A r \in Runs : at'[r] = "commit" =>
           at[r] = "commit" /\ doomed'[r] = doomed[r] /\ mine'[r] = mine[r] /\ counted' = counted
  PROVE  FitShape'
<1> SUFFICES ASSUME NEW r \in Runs, at'[r] = "commit"
             PROVE  \/ ~(Weight(counted', {Own(r)'[x] : x \in Kept(r)'}) > Budget)
                    \/ Kept(r)' \subseteq {r, Max(Candidates(r)')}
  BY DEF FitShape
<1>1. Own(r)' = Own(r) /\ Kept(r)' = Kept(r) /\ Candidates(r)' = Candidates(r)
  BY DEF Own, Kept, Candidates, Bearing
<1>2. QED
  BY <1>1 DEF FitShape

\* The write lock keeps the count true until the commit.
LEMMA FitStep == IInv /\ FitShape /\ [Next]_vars => FitShape'
<1> SUFFICES ASSUME IInv, FitShape, [Next]_vars PROVE FitShape'
  OBVIOUS
<1> USE DEF IInv, TypeOK
<1>1. ASSUME NEW r \in Runs, NEW d \in Digests, Begin(r, d) PROVE FitShape'
  BY <1>1, FitKept DEF Begin, ImportKnown, ImportNew, UploadBegin
<1>2. ASSUME NEW r \in Runs, ImportBegin(r) PROVE FitShape'
  BY <1>2, FitKept DEF ImportBegin
<1>3. ASSUME NEW r \in Runs, Put(r) PROVE FitShape'
  BY <1>3, FitKept DEF Put
<1>4. ASSUME NEW r \in Runs, Prune(r) PROVE FitShape'
  <2>1. \A x \in Runs : at'[x] = "commit" => x = r
    BY <1>4 DEF Prune, WriterShape, Ingesting
  <2>2. doomed'[r] = Doomed(r) /\ digest' = digest /\ mine' = mine /\ counted' = blobs
    BY <1>4 DEF Prune
  <2>3. /\ Own(r)' = Own(r) /\ Candidates(r)' = Candidates(r)
        /\ Kept(r)' = Candidates(r) \ Doomed(r)
    BY <2>2 DEF Own, Kept, Candidates, Bearing
  <2>4. \/ ~(Weight(counted', {Own(r)'[x] : x \in Kept(r)'}) > Budget)
        \/ Kept(r)' \subseteq {r, Max(Candidates(r)')}
    <3> DEFINE K == Candidates(r) \ Doomed(r)
               E == {Own(r)[x] : x \in K}
    <3>1. {Own(r)'[x] : x \in Kept(r)'} = E /\ Kept(r)' = K
      BY <2>3
    <3>2. ~(Total(r, K) > Budget) \/ K \subseteq {r, Max(Candidates(r))}
      BY LoopStops
    <3>3. Total(r, K) = Weight(blobs, E)
      BY DEF Total
    <3> HIDE DEF K, E
    <3>4. QED
      BY <2>2, <2>3, <3>1, <3>2, <3>3
  <2>5. QED
    BY <2>1, <2>4 DEF FitShape
<1>5. ASSUME NEW r \in Runs, Commit(r) PROVE FitShape'
  <2>1. \A x \in Runs : at'[x] # "commit"
    BY <1>5 DEF Commit, WriterShape, Ingesting
  <2>2. QED
    BY <2>1 DEF FitShape
<1>6. ASSUME NEW r \in Runs, Rollback(r) PROVE FitShape'
  BY <1>6, FitKept DEF Rollback, WriterShape, Ingesting
<1>7. ASSUME NEW r \in Runs, CollectRead(r) \/ CollectDone(r) PROVE FitShape'
  BY <1>7, FitKept DEF CollectRead, CollectDone
<1>8. ASSUME NEW r \in Runs, NEW d \in Digests, Unlink(r, d) PROVE FitShape'
  BY <1>8, FitKept DEF Unlink
<1>9. CASE Crash
  <2>1. \A x \in Runs : at'[x] # "commit"
    BY <1>9 DEF Crash, Busy
  <2>2. QED
    BY <2>1 DEF FitShape
<1>10. CASE UNCHANGED vars
  BY <1>10, FitKept DEF vars
<1>11. QED
  BY <1>1, <1>2, <1>3, <1>4, <1>5, <1>6, <1>7, <1>8, <1>9, <1>10 DEF Next, Ingest

\* Nothing but a commit takes a transaction to its collection.
LEMMA OnlyCommitCollects ==
  ASSUME IInv, Next, NEW r \in Runs, at[r] = "commit", at'[r] = "collect"
  PROVE  Commit(r)
BY DEF IInv, TypeOK, Next, Begin, Ingest, ImportKnown, ImportNew, UploadBegin, ImportBegin, Put,
       Prune, Commit, Rollback, CollectRead, CollectDone, Unlink, Crash, Busy

\* The commit leaves what its prune kept.
LEMMA CommitStep ==
  IInv /\ NewestSpared /\ FitShape /\ [Next]_vars =>
    [\A r \in Runs : at[r] = "commit" /\ at'[r] = "collect" =>
       \/ ~(Weight(counted, Referenced') > Budget)
       \/ Bearing' \subseteq {r, Max(Bearing')}]_vars
<1> SUFFICES ASSUME IInv, NewestSpared, FitShape, Next, NEW r \in Runs,
                    at[r] = "commit", at'[r] = "collect"
             PROVE  \/ ~(Weight(counted, Referenced') > Budget)
                    \/ Bearing' \subseteq {r, Max(Bearing')}
  BY DEF vars
<1>1. Commit(r)
  BY OnlyCommitCollects
<1>2. mine[r] # NoDigest /\ r \notin doomed[r]
  BY <1>1 DEF Commit, IInv, TypeOK, BytesShape, CandShape, Ingesting
<1>3. Bearing' = Kept(r)
  BY <1>1, <1>2 DEF Commit, Bearing, Candidates, Kept, IInv, TypeOK
<1>4. Referenced' = {Own(r)[x] : x \in Kept(r)}
  <2>1. \A x \in Kept(r) : digest'[x] = Own(r)[x]
    BY <1>1, <1>2 DEF Commit, Kept, Candidates, Bearing, Own, IInv, TypeOK
  <2>2. Referenced' = {digest'[x] : x \in Bearing'}
    BY DEF Referenced
  <2>3. QED
    BY <1>3, <2>1, <2>2
<1>5. CASE Kept(r) \subseteq {r, Max(Candidates(r))}
  <2>1. Candidates(r) \in SUBSET Runs /\ Candidates(r) # {}
    BY DEF Candidates, Bearing
  <2>2. /\ Max(Candidates(r)) \in Kept(r) /\ Kept(r) \subseteq Candidates(r)
        /\ \A x \in Candidates(r) : x <= Max(Candidates(r))
    BY <2>1, NewestExists DEF NewestSpared, Kept
  <2>3. Max(Kept(r)) \in Kept(r) /\ \A x \in Kept(r) : x <= Max(Kept(r))
    BY <2>1, <2>2, NewestExists
  <2>4. Max(Kept(r)) = Max(Candidates(r))
    <3>1. Max(Kept(r)) <= Max(Candidates(r)) /\ Max(Candidates(r)) <= Max(Kept(r))
      BY <2>2, <2>3
    <3>2. Max(Kept(r)) \in Nat /\ Max(Candidates(r)) \in Nat
      BY <2>1, <2>2, <2>3
    <3>3. QED
      BY ONLY <3>1, <3>2
  <2>5. QED
    BY <1>3, <1>5, <2>4
<1>6. CASE ~(Weight(counted, {Own(r)[x] : x \in Kept(r)}) > Budget)
  BY <1>4, <1>6
<1>7. QED
  BY <1>5, <1>6 DEF FitShape

\* prune_over_budget keeps its word: what a commit leaves is within the budget,
\* as its own transaction counted it, or nothing was left to delete; for any
\* runs, sizes and budget, and whatever others do since it counted.
THEOREM CommitFits == Spec => FitsAfterCommit
<1>1. Init => NewestSpared /\ FitShape
  BY DEF Init, NewestSpared, FitShape
<1>2. QED
  BY <1>1, InitIInv, NextIInv, SparedStep, FitStep, CommitStep, PTL DEF Spec, FitsAfterCommit
=============================================================================
