----------------------------- MODULE WebviewProofs -----------------------------
(***************************************************************************)
(* What the webview's two sources of text keep, for every value of the     *)
(* constants: the inline completion of the editor (InlineCompletion) and   *)
(* the chat stream with the chat turn whose frames it reads (ChatStream,   *)
(* ChatTurns).                                                             *)
(***************************************************************************)
EXTENDS InlineCompletion, ChatStream, FiniteSetTheorems, NaturalsInduction, TLAPS

-----------------------------------------------------------------------------
(* The inline completion, for any texts, carets and number of questions.  Each *)
(* invariant is inductive on top of EditorTypeOK, with one step per key,       *)
(* transaction and promise.                                                    *)

\* Every step is a key, a transaction or the settling of one promise.
LEMMA Steps ==
  ASSUME EditorNext
  PROVE  \/ Request \/ Dismiss
         \/ \E p \in Places : Edit(p)
         \/ \E p \in Places : Accept(p)
         \/ \E c \in Carets : MoveCaret(c)
         \/ \E g \in Gens : SourceFails(g)
         \/ \E g \in Gens, a \in Answers : Answered(g, a)
         \/ \E g \in Gens : RiskFound(g)
  BY DEF EditorNext, Settles

\* EditorTypeOK but for the history flag, which every step sets to a truth value.
Shapes ==
  /\ place \in Places
  /\ policy \in [phase : {"idle", "pending", "showing"}, gen : 0..MaxAsks]
  /\ badge \in [gen : 0..MaxAsks, kind : {"none", "nosymbol", "record"}]
  /\ generation \in 0..MaxAsks
  /\ ask \in [Gens -> [at : {"none", "source", "risk", "done"}, place : Places]]
  /\ metrics \in [shown : Nat, accepted : Nat, stale : Nat]

\* The steps keep the types.
LEMMA TypeStep ==
  ASSUME EditorTypeOK, [EditorNext]_editor
  PROVE  EditorTypeOK'
  <1>1. Shapes
    BY DEF EditorTypeOK, Shapes
  <1>2. late' \in BOOLEAN
    BY Steps DEF EditorTypeOK, editor, Request, Dismiss, Edit, Accept, MoveCaret,
                 SourceFails, Answered, RiskFound
  <1>3. Shapes'
    <2> USE <1>1, AsksBound DEF Shapes, Gens, Resting, NoBadge, SetPolicy
    <2>1. CASE Request
      BY <2>1 DEF Request, Pending
    <2>2. CASE Dismiss
      BY <2>2 DEF Dismiss
    <2>3. ASSUME NEW p \in Places, Edit(p) PROVE Shapes'
      BY <2>3 DEF Edit
    <2>4. ASSUME NEW p \in Places, Accept(p) PROVE Shapes'
      <3>1. metrics' \in [shown : Nat, accepted : Nat, stale : Nat]
        <4>1. metrics' = [metrics EXCEPT !.accepted = metrics.accepted + 1]
          BY <2>4 DEF Accept
        <4>2. metrics.accepted + 1 \in Nat
          OBVIOUS
        <4>3. QED
          BY <4>1, <4>2
      <3>2. policy' = Resting /\ badge' = NoBadge /\ place' = p /\ UNCHANGED <<generation, ask>>
        BY <2>4 DEF Accept
      <3>3. QED
        BY <3>1, <3>2
    <2>5. ASSUME NEW c \in Carets, MoveCaret(c) PROVE Shapes'
      BY <2>5 DEF MoveCaret, Places
    <2>6. ASSUME NEW g \in Gens, SourceFails(g) PROVE Shapes'
      <3>1. ask' \in [Gens -> [at : {"none", "source", "risk", "done"}, place : Places]]
        BY <2>6 DEF SourceFails
      <3>2. QED
        BY <2>6, <3>1 DEF SourceFails
    <2>7. ASSUME NEW g \in Gens, NEW a \in Answers, Answered(g, a) PROVE Shapes'
      <3>1. policy' \in [phase : {"idle", "pending", "showing"}, gen : 0..MaxAsks]
        BY <2>7 DEF Answered, OnSuggestion, Showing
      <3>2. badge' \in [gen : 0..MaxAsks, kind : {"none", "nosymbol", "record"}]
        BY <2>7 DEF Answered, Badge
      <3>3. metrics' \in [shown : Nat, accepted : Nat, stale : Nat]
        <4>1. metrics' = Counted(g, a)
          BY <2>7 DEF Answered
        <4>2. CASE Believed(g) /\ ~a.empty
          BY <4>1, <4>2 DEF Counted
        <4>3. CASE Believed(g) /\ a.empty
          BY <4>1, <4>3 DEF Counted
        <4>4. CASE ~Believed(g)
          BY <4>1, <4>4 DEF Counted
        <4>5. QED
          BY <4>2, <4>3, <4>4
      <3>4. ask' \in [Gens -> [at : {"none", "source", "risk", "done"}, place : Places]]
        BY <2>7 DEF Answered
      <3>5. place' = place /\ generation' = generation
        BY <2>7 DEF Answered
      <3>6. QED
        BY <3>1, <3>2, <3>3, <3>4, <3>5
    <2>8. ASSUME NEW g \in Gens, RiskFound(g) PROVE Shapes'
      <3>1. badge' \in [gen : 0..MaxAsks, kind : {"none", "nosymbol", "record"}]
        BY <2>8 DEF RiskFound, Badge
      <3>2. ask' \in [Gens -> [at : {"none", "source", "risk", "done"}, place : Places]]
        BY <2>8 DEF RiskFound
      <3>3. QED
        BY <2>8, <3>1, <3>2 DEF RiskFound
    <2>9. CASE UNCHANGED editor
      BY <2>9 DEF editor
    <2>10. QED
      BY <2>1, <2>2, <2>3, <2>4, <2>5, <2>6, <2>7, <2>8, <2>9, Steps
  <1>4. QED
    BY <1>2, <1>3 DEF EditorTypeOK, Shapes

\* The type invariant of the completion.
THEOREM CompletionTypeCorrect == EditorSpec => []EditorTypeOK
  <1>1. EditorInit => EditorTypeOK
    <2> SUFFICES ASSUME EditorInit PROVE EditorTypeOK
      OBVIOUS
    <2>1. ask \in [Gens -> [at : {"none", "source", "risk", "done"}, place : Places]]
      BY DEF EditorInit
    <2>2. Shapes
      BY <2>1, AsksBound DEF EditorInit, Shapes, Resting, NoBadge
    <2>3. QED
      BY <2>2 DEF EditorInit, EditorTypeOK, Shapes
  <1>2. QED
    BY <1>1, TypeStep, PTL DEF EditorSpec

-----------------------------------------------------------------------------
\* Whatever leaves the policy alone, or clears it, keeps ShownFits; a request
\* makes it true of the new question.
LEMMA FitsStep ==
  ASSUME EditorTypeOK, ShownFits, [EditorNext]_editor
  PROVE  ShownFits'
  <1> USE AsksBound DEF EditorTypeOK, ShownFits, Gens, Resting, SetPolicy
  <1>1. CASE Request
    BY <1>1 DEF Request, Pending
  <1>2. CASE Dismiss
    BY <1>2 DEF Dismiss
  <1>3. ASSUME NEW p \in Places, Edit(p) PROVE ShownFits'
    BY <1>3 DEF Edit
  <1>4. ASSUME NEW p \in Places, Accept(p) PROVE ShownFits'
    BY <1>4 DEF Accept
  <1>5. ASSUME NEW c \in Carets, MoveCaret(c) PROVE ShownFits'
    BY <1>5 DEF MoveCaret
  <1>6. ASSUME NEW g \in Gens, SourceFails(g) PROVE ShownFits'
    BY <1>6 DEF SourceFails
  <1>7. ASSUME NEW g \in Gens, NEW a \in Answers, Answered(g, a) PROVE ShownFits'
    <2>1. \/ policy' = policy
          \/ policy' = Resting
          \/ policy' = Showing(g) /\ policy = Pending(g)
      BY <1>7 DEF Answered, OnSuggestion, Believed
    <2>2. QED
      BY <1>7, <2>1 DEF Answered, Pending, Showing
  <1>8. ASSUME NEW g \in Gens, RiskFound(g) PROVE ShownFits'
    BY <1>8 DEF RiskFound
  <1>9. CASE UNCHANGED editor
    BY <1>9 DEF editor
  <1>10. QED
    BY <1>1, <1>2, <1>3, <1>4, <1>5, <1>6, <1>7, <1>8, <1>9, Steps

\* request, onSuggestion, onDocumentChanged and dismissOnCursorMove together:
\* what Tab would insert was asked of this text at this caret.
THEOREM SuggestionFits == EditorSpec => []ShownFits
  <1>1. EditorInit => ShownFits
    BY DEF EditorInit, ShownFits, Resting
  <1>2. QED
    BY <1>1, CompletionTypeCorrect, FitsStep, PTL DEF EditorSpec

-----------------------------------------------------------------------------
\* Only the two setRisk dispatches add a badge; every setPolicy drops it.
LEMMA BadgeStep ==
  ASSUME EditorTypeOK, BadgeIsItsOwn, [EditorNext]_editor
  PROVE  BadgeIsItsOwn'
  <1> USE AsksBound DEF EditorTypeOK, BadgeIsItsOwn, Gens, NoBadge, SetPolicy
  <1>1. CASE Request
    BY <1>1 DEF Request
  <1>2. CASE Dismiss
    BY <1>2 DEF Dismiss
  <1>3. ASSUME NEW p \in Places, Edit(p) PROVE BadgeIsItsOwn'
    BY <1>3 DEF Edit
  <1>4. ASSUME NEW p \in Places, Accept(p) PROVE BadgeIsItsOwn'
    BY <1>4 DEF Accept
  <1>5. ASSUME NEW c \in Carets, MoveCaret(c) PROVE BadgeIsItsOwn'
    BY <1>5 DEF MoveCaret
  <1>6. ASSUME NEW g \in Gens, SourceFails(g) PROVE BadgeIsItsOwn'
    BY <1>6 DEF SourceFails
  <1>7. ASSUME NEW g \in Gens, NEW a \in Answers, Answered(g, a) PROVE BadgeIsItsOwn'
    <2>1. CASE policy'.phase = "showing"
      <3>1. policy' = Showing(policy'.gen)
        BY <1>7, <2>1 DEF Answered, OnSuggestion, Showing, Resting
      <3>2. policy'.gen = g \/ late'
        <4>1. CASE policy' = Showing(g)
          BY <4>1 DEF Showing
        <4>2. CASE policy' # Showing(g)
          <5>1. late' = (policy'.phase = "showing" /\ (late \/ policy' # Showing(g)))
            BY <1>7 DEF Answered
          <5>2. QED
            BY <2>1, <4>2, <5>1, Zenon
        <4>3. QED
          BY <4>1, <4>2
      <3>3. badge' = NoBadge \/ badge' = Badge(g, "nosymbol")
        BY <1>7 DEF Answered
      <3>4. QED
        BY <2>1, <3>2, <3>3 DEF Badge
    <2>2. CASE policy'.phase # "showing"
      BY <1>7, <2>2 DEF Answered
    <2>3. QED
      BY <2>1, <2>2
  <1>8. ASSUME NEW g \in Gens, RiskFound(g) PROVE BadgeIsItsOwn'
    BY <1>8 DEF RiskFound, Badge, Showing
  <1>9. CASE UNCHANGED editor
    BY <1>9 DEF editor
  <1>10. QED
    BY <1>1, <1>2, <1>3, <1>4, <1>5, <1>6, <1>7, <1>8, <1>9, Steps

\* riskField and the guards of lookupRisk's callbacks: a symbol's history is
\* never shown beside a suggestion that did not name the symbol.
THEOREM BadgesAreOwned == EditorSpec => []BadgeIsItsOwn
  <1>1. EditorInit => BadgeIsItsOwn
    BY DEF EditorInit, BadgeIsItsOwn
  <1>2. QED
    BY <1>1, CompletionTypeCorrect, BadgeStep, PTL DEF EditorSpec

-----------------------------------------------------------------------------
\* A suggestion is counted as shown in the step that shows it, and as accepted
\* in a step that takes it off the screen.
LEMMA RateStep ==
  ASSUME EditorTypeOK, RateIsARate, [EditorNext]_editor
  PROVE  RateIsARate'
  <1> USE DEF EditorTypeOK, RateIsARate, Resting, SetPolicy
  <1>1. CASE Request
    BY <1>1 DEF Request, Pending
  <1>2. CASE Dismiss
    BY <1>2 DEF Dismiss
  <1>3. ASSUME NEW p \in Places, Edit(p) PROVE RateIsARate'
    BY <1>3 DEF Edit
  <1>4. ASSUME NEW p \in Places, Accept(p) PROVE RateIsARate'
    BY <1>4 DEF Accept
  <1>5. ASSUME NEW c \in Carets, MoveCaret(c) PROVE RateIsARate'
    BY <1>5 DEF MoveCaret
  <1>6. ASSUME NEW g \in Gens, SourceFails(g) PROVE RateIsARate'
    BY <1>6 DEF SourceFails
  <1>7. ASSUME NEW g \in Gens, NEW a \in Answers, Answered(g, a) PROVE RateIsARate'
    BY <1>7 DEF Answered, OnSuggestion, Counted, Believed, Pending, Showing, Answers
  <1>8. ASSUME NEW g \in Gens, RiskFound(g) PROVE RateIsARate'
    BY <1>8 DEF RiskFound
  <1>9. CASE UNCHANGED editor
    BY <1>9 DEF editor
  <1>10. QED
    BY <1>1, <1>2, <1>3, <1>4, <1>5, <1>6, <1>7, <1>8, <1>9, Steps

\* onSuggestion and onAccept: the acceptance rate never exceeds one.
THEOREM RateBounded == EditorSpec => []RateIsARate
  <1>1. EditorInit => RateIsARate
    BY DEF EditorInit, RateIsARate, Resting
  <1>2. QED
    BY <1>1, CompletionTypeCorrect, RateStep, PTL DEF EditorSpec

-----------------------------------------------------------------------------
(* The chat turn: what is stored is a part of one turn, and the thread that    *)
(* runs the turn knows which part is missing.                                  *)

(* What the steps of the stream do to the engine: a reader that finds no job  *)
(* settles a dead turn, and nothing else of the host touches it.              *)
Reads ==
  /\ alive /\ ~HasJob /\ Reconcile
  /\ UNCHANGED <<alive, crashes, turn, job, worker, batch, outcome, unsaved>>
EngineStep ==
  \/ Reserve \/ Thread \/ CancelTurn \/ EvictSettled \/ Restart \/ Crash \/ Reads
  \/ UNCHANGED engine

(* A step of the whole system is a step of the engine, or leaves it alone. *)
LEMMA StreamSteps == [Next]_vars => EngineStep
<1> SUFFICES ASSUME [Next]_vars PROVE EngineStep
  OBVIOUS
<1>1. CASE NewTurn \/ TurnThread \/ EngineRest \/ EngineDies
  BY <1>1 DEF NewTurn, TurnThread, EngineRest, EngineDies, EngineStep
<1>2. CASE Connect \/ Close
  BY <1>2 DEF Connect, Close, EngineStep
<1>3. ASSUME NEW r, Serve(r) PROVE EngineStep
  BY <1>3 DEF Serve, ServeJob, ServeRow, ServeDocs, CallFails, EngineStep, Reads
<1>4. CASE Command
  BY <1>3, <1>4 DEF Command, CmdStart, CmdGot, CmdFailed, EngineStep
<1>5. CASE Webview
  BY <1>5 DEF Webview, Listen, ListenFails, Receive, Attached, EngineStep
<1>6. ASSUME NEW g \in Sessions, Poller(g) PROVE EngineStep
  BY <1>3, <1>6 DEF Poller, PollCheck, PollGot, PollFailed, PollEmit, EngineStep
<1>7. CASE UNCHANGED vars
  BY <1>7 DEF vars, EngineStep
<1> QED BY <1>1, <1>2, <1>4, <1>5, <1>6, <1>7 DEF Next

(* A turn's body is its opening frame and then deltas: n frames of it, as the *)
(* store keeps them, and with a final frame behind them.                      *)
BodySizes == 1 .. MaxDeltas + 2
KindAt(i) == IF i = 1 THEN "open" ELSE "delta"
Doc(t, i, k) == [turn |-> t, seq |-> i, kind |-> k]
Prefix(t, n) == {Doc(t, i, KindAt(i)) : i \in 1 .. n}
Ended(t, n) == Prefix(t, n) \cup {Doc(t, n + 1, "final")}

RowOf(status) == [turn |-> job.turn, status |-> status]

(* The store holds a part of one turn: with the final frame iff it is settled. *)
StoreFits ==
  \/ row = NoRow /\ ledger = {}
  \/ /\ row \in [turn : 1 .. MaxTurns, status : {"active"}]
     /\ \E n \in BodySizes : ledger = Prefix(row.turn, n)
  \/ /\ row \in [turn : 1 .. MaxTurns, status : Settled]
     /\ \E n \in BodySizes : ledger = Ended(row.turn, n)

(* The frames of a job: a body, and the final frame once it is settled. *)
FramesFit ==
  HasJob =>
    /\ job.status = "active" =>
         /\ Len(job.frames) \in BodySizes
         /\ \A i \in 1 .. Len(job.frames) : job.frames[i] = KindAt(i)
    /\ job.status # "active" =>
         /\ Len(job.frames) - 1 \in BodySizes
         /\ \A i \in 1 .. Len(job.frames) - 1 : job.frames[i] = KindAt(i)
         /\ job.frames[Len(job.frames)] = "final"

(* The store lacks exactly these frames of the turn. *)
Lacks(seqs) ==
  /\ row = RowOf("active")
  /\ \E n \in 1 .. Len(job.frames) :
       seqs = (n + 1) .. Len(job.frames) /\ ledger = Prefix(job.turn, n)

(* Where the turn's thread is, and what it has still to commit. *)
WorkerFits ==
  /\ worker # "none" <=> Active
  /\ worker = "open" => job.pending = {1} /\ Len(job.frames) = 1
  /\ worker = "run" => Lacks(job.pending)
  /\ worker \in {"flush", "commit"} => Lacks(batch) /\ job.pending = {}
  /\ worker \notin {"flush", "commit"} => batch = {}
  /\ worker = "publish" =>
       /\ job.pending = {}
       /\ row = RowOf(outcome) /\ ledger = Ended(job.turn, Len(job.frames))
  /\ HasJob /\ job.status \in {"complete", "aborted"} =>
       row = RowOf(job.status) /\ ledger = Ended(job.turn, Len(job.frames) - 1)

EInv == EngineTypeOK /\ StoreFits /\ FramesFit /\ WorkerFits

-----------------------------------------------------------------------------
(* A document's fields. *)
LEMMA DocFields ==
  ASSUME NEW t, NEW i, NEW k
  PROVE  Doc(t, i, k).turn = t /\ Doc(t, i, k).seq = i /\ Doc(t, i, k).kind = k
BY DEF Doc

(* What is in a body of n frames. *)
LEMMA PrefixFacts ==
  ASSUME NEW t, NEW n \in Nat
  PROVE  /\ \A d \in Prefix(t, n) : /\ d.turn = t /\ d.kind # "final" /\ d.seq \in 1 .. n
                                    /\ d = Doc(t, d.seq, KindAt(d.seq))
         /\ \A i \in 1 .. n : Doc(t, i, KindAt(i)) \in Prefix(t, n)
<1>1. \A i : KindAt(i) # "final"
  BY DEF KindAt
<1>2. ASSUME NEW d \in Prefix(t, n)
      PROVE  /\ d.turn = t /\ d.kind # "final" /\ d.seq \in 1 .. n
             /\ d = Doc(t, d.seq, KindAt(d.seq))
  <2>1. PICK i \in 1 .. n : d = Doc(t, i, KindAt(i))
    BY DEF Prefix
  <2>2. d.turn = t /\ d.seq = i /\ d.kind = KindAt(i)
    BY <2>1, DocFields
  <2> QED BY <1>1, <2>1, <2>2
<1> QED BY <1>2 DEF Prefix

(* What is in a body of n frames with its final frame. *)
LEMMA EndedFacts ==
  ASSUME NEW t, NEW n \in Nat
  PROVE  /\ \A d \in Ended(t, n) :
              /\ d.turn = t /\ d.seq \in 1 .. n + 1 /\ (d.kind = "final" => d.seq = n + 1)
              /\ d = Doc(t, d.seq, IF d.seq = n + 1 THEN "final" ELSE KindAt(d.seq))
         /\ \A i \in 1 .. n : Doc(t, i, KindAt(i)) \in Ended(t, n)
         /\ Doc(t, n + 1, "final") \in Ended(t, n)
<1>1. ASSUME NEW d \in Prefix(t, n)
      PROVE  /\ d.turn = t /\ d.seq \in 1 .. n + 1 /\ (d.kind = "final" => d.seq = n + 1)
             /\ d = Doc(t, d.seq, IF d.seq = n + 1 THEN "final" ELSE KindAt(d.seq))
  <2>1. d.seq # n + 1 /\ d.seq \in 1 .. n + 1
    BY PrefixFacts
  <2> QED BY <2>1, PrefixFacts
<1>2. ASSUME NEW d, d = Doc(t, n + 1, "final")
      PROVE  /\ d.turn = t /\ d.seq \in 1 .. n + 1 /\ (d.kind = "final" => d.seq = n + 1)
             /\ d = Doc(t, d.seq, IF d.seq = n + 1 THEN "final" ELSE KindAt(d.seq))
  BY <1>2, DocFields
<1> QED BY <1>1, <1>2, PrefixFacts DEF Ended

(* A ledger whose documents have the seqs 1 .. n, one each. *)
Runs(S, n) ==
  /\ \A d \in S : d.seq \in 1 .. n
  /\ \A i \in 1 .. n : \E d \in S : d.seq = i
  /\ \A d, e \in S : d.seq = e.seq => d = e

(* Such a ledger has n documents. *)
LEMMA CountDocs ==
  ASSUME NEW n \in Nat, NEW S, Runs(S, n)
  PROVE  IsFiniteSet(S) /\ Cardinality(S) = n
<1> DEFINE f == [d \in S |-> d.seq]
<1>1. f \in [S -> 1 .. n]
  BY DEF Runs
<1>2. \A d, e \in S : f[d] = f[e] => d = e
  BY DEF Runs
<1>3. \A i \in 1 .. n : \E d \in S : f[d] = i
  BY DEF Runs
<1> HIDE DEF f
<1>4. f \in Injection(S, 1 .. n)
  BY <1>1, <1>2 DEF Injection, IsInjective
<1>5. f \in Surjection(S, 1 .. n)
  BY <1>1, <1>3 DEF Surjection
<1>6. IsFiniteSet(1 .. n) /\ Cardinality(1 .. n) = n
  BY FS_Interval
<1> QED BY <1>4, <1>5, <1>6, FS_Injection

(* The seq of the last document, and all of them. *)
LEMMA LastFound ==
  ASSUME NEW n \in Nat, Runs(ledger, n)
  PROVE  LastSeq = n /\ {d.seq : d \in ledger} = 1 .. n
<1>0. {d.seq : d \in ledger} = 1 .. n
  <2>1. \A i : i \in {d.seq : d \in ledger} <=> \E d \in ledger : i = d.seq
    OBVIOUS
  <2> QED BY <2>1 DEF Runs
<1>1. CASE n = 0
  <2>1. ledger = {}
    <3>1. \A d \in ledger : d.seq \in 1 .. 0
      BY <1>1 DEF Runs
    <3> QED BY <3>1
  <2> QED BY <1>0, <1>1, <2>1 DEF LastSeq
<1>2. CASE n # 0
  <2>1. ledger # {} /\ n \in {d.seq : d \in ledger}
    BY <1>0, <1>2
  <2>2. \A d \in ledger : d.seq <= n
    BY DEF Runs
  <2>3. \A i \in {d.seq : d \in ledger} : (\A d \in ledger : d.seq <= i) => i = n
    <3> SUFFICES ASSUME NEW i \in 1 .. n, \A d \in ledger : d.seq <= i PROVE i = n
      BY <1>0
    <3>1. PICK d \in ledger : d.seq = n
      BY <1>2 DEF Runs
    <3> QED BY <3>1
  <2> QED BY <1>0, <2>1, <2>2, <2>3 DEF LastSeq
<1> QED BY <1>1, <1>2

(* A body of n frames numbers them 1 .. n. *)
LEMMA PrefixRuns ==
  ASSUME NEW t, NEW n \in Nat
  PROVE  Runs(Prefix(t, n), n)
BY PrefixFacts, DocFields DEF Runs

(* With the final frame behind it, 1 .. n + 1. *)
LEMMA EndedRuns ==
  ASSUME NEW t, NEW n \in Nat
  PROVE  Runs(Ended(t, n), n + 1)
<1>1. \A d \in Ended(t, n) : d.seq \in 1 .. n + 1
  BY EndedFacts
<1>2. \A d, e \in Ended(t, n) : d.seq = e.seq => d = e
  BY EndedFacts
<1>3. ASSUME NEW i \in 1 .. n + 1 PROVE \E d \in Ended(t, n) : d.seq = i
  <2>1. CASE i \in 1 .. n
    BY <2>1, EndedFacts, DocFields
  <2>2. CASE i = n + 1
    BY <2>2, EndedFacts, DocFields
  <2> QED BY <2>1, <2>2
<1> QED BY <1>1, <1>2, <1>3 DEF Runs

(* StoreFits is what LedgerWhole says, of one turn. *)
LEMMA StoreIsWhole == StoreFits => LedgerWhole
<1> SUFFICES ASSUME StoreFits PROVE LedgerWhole
  OBVIOUS
<1>1. CASE row = NoRow /\ ledger = {}
  <2>1. Runs(ledger, 0)
    BY <1>1 DEF Runs
  <2>2. LastSeq = 0 /\ {d.seq : d \in ledger} = 1 .. 0 /\ Cardinality(ledger) = 0
    BY <2>1, LastFound, CountDocs
  <2> QED BY <1>1, <2>2 DEF LedgerWhole, NoRow, Settled
<1>2. ASSUME row.status = "active", NEW n \in BodySizes, ledger = Prefix(row.turn, n)
      PROVE  LedgerWhole
  <2>1. n \in Nat
    BY ChatBounds DEF BodySizes
  <2>2. {d.seq : d \in ledger} = 1 .. n /\ LastSeq = n /\ Cardinality(ledger) = n
    BY <1>2, <2>1, PrefixRuns, LastFound, CountDocs
  <2>5. \A d \in ledger : d.turn = row.turn /\ d.kind # "final"
    BY <1>2, <2>1, PrefixFacts
  <2> QED BY <1>2, <2>2, <2>5 DEF LedgerWhole, Settled
<1>3. ASSUME row.status \in Settled, NEW n \in BodySizes, ledger = Ended(row.turn, n)
      PROVE  LedgerWhole
  <2>1. n \in Nat
    BY ChatBounds DEF BodySizes
  <2>2. {d.seq : d \in ledger} = 1 .. n + 1 /\ LastSeq = n + 1 /\ Cardinality(ledger) = n + 1
    BY <1>3, <2>1, EndedRuns, LastFound, CountDocs
  <2>6. \A d \in ledger : d.turn = row.turn /\ (d.kind = "final" => d.seq = n + 1)
    BY <1>3, <2>1, EndedFacts
  <2>7. \E d \in ledger : d.kind = "final"
    BY <1>3, <2>1, EndedFacts, DocFields
  <2> QED BY <1>3, <2>2, <2>6, <2>7 DEF LedgerWhole
<1> QED BY <1>1, <1>2, <1>3 DEF StoreFits

(* The documents of a job's frames. *)
LEMMA DocsOfBody ==
  ASSUME NEW n \in Nat, NEW m \in Nat, n <= m, \A i \in 1 .. m : job.frames[i] = KindAt(i)
  PROVE  Prefix(job.turn, n) \cup Docs((n + 1) .. m) = Prefix(job.turn, m)
<1>1. Docs((n + 1) .. m) = {Doc(job.turn, i, job.frames[i]) : i \in (n + 1) .. m}
  BY DEF Docs, Doc
<1>2. Docs((n + 1) .. m) = {Doc(job.turn, i, KindAt(i)) : i \in (n + 1) .. m}
  BY <1>1
<1>3. 1 .. m = (1 .. n) \cup ((n + 1) .. m)
  OBVIOUS
<1> QED BY <1>2, <1>3 DEF Prefix

-----------------------------------------------------------------------------
(* The types of the engine. *)

(* A job that is there has all its fields. *)
LEMMA JobTyped ==
  ASSUME EInv, HasJob
  PROVE  /\ job \in Job /\ job.turn \in 1 .. MaxTurns /\ job.frames \in Seq(Kinds)
         /\ Len(job.frames) \in Nat /\ job.pending \subseteq 1 .. MaxSeq
BY DEF EInv, EngineTypeOK, HasJob, Job

(* A thread works on an active job, whose frames are a body. *)
LEMMA WorkerHasJob ==
  ASSUME EInv, worker # "none"
  PROVE  /\ HasJob /\ job.status = "active" /\ Len(job.frames) \in BodySizes
         /\ \A i \in 1 .. Len(job.frames) : job.frames[i] = KindAt(i)
BY DEF EInv, WorkerFits, Active, FramesFit

(* All but the first frame of a turn under way are deltas. *)
LEMMA DeltasCounted ==
  ASSUME EInv, worker # "none"
  PROVE  Deltas = Len(job.frames) - 1
<1>1. Len(job.frames) \in Nat \ {0}
  BY WorkerHasJob, ChatBounds DEF BodySizes
<1>2. {i \in 1 .. Len(job.frames) : job.frames[i] = "delta"} = 2 .. Len(job.frames)
  <2>1. \A i \in 1 .. Len(job.frames) : job.frames[i] = "delta" <=> i # 1
    BY WorkerHasJob DEF KindAt
  <2> QED BY <1>1, <2>1
<1>3. Cardinality(2 .. Len(job.frames)) = Len(job.frames) - 1
  BY <1>1, FS_Interval
<1> QED BY <1>2, <1>3 DEF Deltas

(* A delta joins a job. *)
LEMMA AppendedFacts ==
  ASSUME EInv, worker # "none", Len(job.frames) < MaxDeltas + 2,
         NEW j, j = Appended(job, "delta")
  PROVE  /\ j \in Job /\ j.turn = job.turn /\ j.status = "active"
         /\ j.pending = job.pending \cup {Len(job.frames) + 1}
         /\ j.frames = Append(job.frames, "delta")
         /\ Len(j.frames) = Len(job.frames) + 1
         /\ \A i \in 1 .. Len(j.frames) : j.frames[i] = KindAt(i)
<1>1. /\ job \in Job /\ Len(job.frames) \in Nat \ {0} /\ job.frames \in Seq(Kinds)
      /\ job.pending \subseteq 1 .. MaxSeq
  BY JobTyped, WorkerHasJob, ChatBounds DEF BodySizes
<1>2. PICK f, p : /\ f = Append(job.frames, "delta") /\ p = job.pending \cup {Len(job.frames) + 1}
                  /\ j = [job EXCEPT !.frames = f, !.pending = p]
  BY DEF Appended
<1>3. f \in Seq(Kinds) /\ Len(f) = Len(job.frames) + 1
  BY <1>1, <1>2 DEF Kinds
<1>4. p \subseteq 1 .. MaxSeq
  BY <1>1, <1>2, ChatBounds DEF MaxSeq
<1>5. /\ j \in Job /\ j.turn = job.turn /\ j.status = job.status /\ j.frames = f
      /\ j.pending = p
  BY <1>1, <1>2, <1>3, <1>4 DEF Job
<1>6. ASSUME NEW i \in 1 .. Len(f) PROVE f[i] = KindAt(i)
  <2>1. CASE i \in 1 .. Len(job.frames)
    BY <1>1, <1>2, <2>1, WorkerHasJob
  <2>2. CASE i = Len(job.frames) + 1
    BY <1>1, <1>2, <2>2 DEF KindAt
  <2> QED BY <1>1, <1>3, <2>1, <2>2
<1> QED BY <1>2, <1>3, <1>5, <1>6, WorkerHasJob

(* Documents of a body, and its final frame, are documents. *)
LEMMA BodyDocs ==
  ASSUME NEW t \in 1 .. MaxTurns, NEW n \in BodySizes
  PROVE  Prefix(t, n) \subseteq EventDoc /\ Ended(t, n) \subseteq EventDoc
<1>1. n \in Nat /\ 1 .. n + 1 \subseteq 1 .. MaxSeq
  BY ChatBounds DEF BodySizes, MaxSeq
<1>2. ASSUME NEW i \in 1 .. n + 1, NEW k \in Kinds PROVE Doc(t, i, k) \in EventDoc
  BY <1>1 DEF Doc, EventDoc
<1>3. \A i : KindAt(i) \in Kinds
  BY DEF KindAt, Kinds
<1>4. Prefix(t, n) \subseteq EventDoc
  BY <1>1, <1>2, <1>3, PrefixFacts
<1>5. Doc(t, n + 1, "final") \in EventDoc
  BY <1>1, <1>2 DEF Kinds
<1> QED BY <1>4, <1>5 DEF Ended

(* The types of what is stored follow from its shape. *)
LEMMA StoreTyped ==
  ASSUME StoreFits'
  PROVE  /\ row' \in [turn : 1 .. MaxTurns, status : {"active"} \cup Settled] \cup {NoRow}
         /\ ledger' \subseteq EventDoc
<1>1. CASE row' = NoRow /\ ledger' = {}
  BY <1>1
<1>2. ASSUME row' \in [turn : 1 .. MaxTurns, status : {"active"}],
             NEW n \in BodySizes, ledger' = Prefix(row'.turn, n)
      PROVE  /\ row' \in [turn : 1 .. MaxTurns, status : {"active"} \cup Settled] \cup {NoRow}
             /\ ledger' \subseteq EventDoc
  BY <1>2, BodyDocs
<1>3. ASSUME row' \in [turn : 1 .. MaxTurns, status : Settled],
             NEW n \in BodySizes, ledger' = Ended(row'.turn, n)
      PROVE  /\ row' \in [turn : 1 .. MaxTurns, status : {"active"} \cup Settled] \cup {NoRow}
             /\ ledger' \subseteq EventDoc
  BY <1>3, BodyDocs
<1> QED BY <1>1, <1>2, <1>3 DEF StoreFits

(* A dead turn gets its final frame. *)
LEMMA ReconcileKeeps ==
  ASSUME StoreFits, Reconcile
  PROVE  StoreFits'
<1>1. CASE row.status = "active"
  <2>1. row \in [turn : 1 .. MaxTurns, status : {"active"}]
    BY <1>1 DEF StoreFits, NoRow, Settled
  <2>2. PICK n \in BodySizes : ledger = Prefix(row.turn, n)
    BY <1>1 DEF StoreFits, NoRow, Settled
  <2>3. n \in Nat
    BY ChatBounds DEF BodySizes
  <2>4. LastSeq = n
    BY <2>2, <2>3, PrefixRuns, LastFound
  <2>5. row' = [row EXCEPT !.status = "aborted"]
    BY <1>1 DEF Reconcile
  <2>6. row' \in [turn : 1 .. MaxTurns, status : Settled] /\ row'.turn = row.turn
    BY <2>1, <2>5 DEF Settled
  <2>7. ledger' = Ended(row.turn, n)
    BY <1>1, <2>2, <2>4 DEF Reconcile, Ended, Doc
  <2> QED BY <2>6, <2>7 DEF StoreFits
<1>2. CASE row.status # "active"
  BY <1>2 DEF Reconcile, StoreFits
<1> QED BY <1>1, <1>2

-----------------------------------------------------------------------------
(* One lemma for each thing that the engine does. *)

(* EInv from its parts, the store's types being part of the store's shape. *)
Rest ==
  /\ alive \in BOOLEAN /\ unsaved \in BOOLEAN
  /\ crashes \in 0 .. MaxCrashes /\ turn \in 0 .. MaxTurns
  /\ worker \in {"none", "open", "run", "flush", "commit", "publish"}
  /\ batch \subseteq 1 .. MaxSeq /\ outcome \in Settled

(* The invariant of the next state, part by part. *)
LEMMA Parts ==
  ASSUME Rest', job' \in Job \cup {NoJob}, StoreFits', FramesFit', WorkerFits'
  PROVE  EInv'
BY StoreTyped DEF EInv, EngineTypeOK, Rest

(* A turn is reserved: a job with an opening frame, a thread, nothing stored. *)
LEMMA ReserveKeeps ==
  ASSUME EInv, Reserve
  PROVE  EInv'
<1>1. PICK c : c = FALSE /\ job' = [turn |-> turn + 1, status |-> "active", frames |-> <<"open">>,
                                    pending |-> {1}, cancel |-> c]
  BY DEF Reserve
<1>2. /\ job'.turn = turn + 1 /\ job'.status = "active" /\ job'.frames = <<"open">>
      /\ job'.pending = {1}
  BY <1>1
<1>3. job' \in Job
  <2>1. turn + 1 \in 1 .. MaxTurns
    BY ChatBounds DEF Reserve, EInv, EngineTypeOK
  <2>2. <<"open">> \in Seq(Kinds)
    BY DEF Kinds
  <2>3. {1} \in SUBSET (1 .. MaxSeq)
    BY ChatBounds DEF MaxSeq
  <2>4. c \in BOOLEAN
    BY <1>1
  <2> QED BY <1>1, <2>1, <2>2, <2>3, <2>4 DEF Job
<1>4. HasJob'
  <2>1. turn + 1 # 0
    BY ChatBounds DEF EInv, EngineTypeOK
  <2> QED BY <1>2, <2>1 DEF HasJob, NoJob
<1>5. Rest'
  BY ChatBounds DEF Reserve, EInv, EngineTypeOK, Rest
<1>6. StoreFits'
  BY DEF Reserve, EInv, StoreFits
<1>7. FramesFit'
  BY <1>2, ChatBounds DEF FramesFit, BodySizes, KindAt
<1>8. WorkerFits'
  <2>1. worker' = "open" /\ Active' /\ batch' = {}
    BY <1>2, <1>4 DEF Reserve, Active, EInv, WorkerFits
  <2>2. Len(job'.frames) = 1
    BY <1>2
  <2> QED BY <1>2, <2>1, <2>2 DEF WorkerFits
<1> QED BY <1>3, <1>5, <1>6, <1>7, <1>8, Parts

(* The opening transaction: the row, and the turn's first document. *)
LEMMA OpeningCommitKeeps ==
  ASSUME EInv, OpeningCommit
  PROVE  EInv'
<1>0. /\ HasJob /\ job \in Job /\ job.turn \in 1 .. MaxTurns /\ job.status = "active"
      /\ job.pending = {1} /\ Len(job.frames) = 1 /\ job.frames[1] = KindAt(1)
  BY JobTyped, WorkerHasJob DEF OpeningCommit, EInv, WorkerFits
<1>1. job' = [job EXCEPT !.pending = {}]
  BY DEF OpeningCommit
<1>2. /\ job' \in Job /\ job'.turn = job.turn /\ job'.status = "active"
      /\ job'.frames = job.frames /\ job'.pending = {}
  BY <1>0, <1>1 DEF Job
<1>3. HasJob'
  BY <1>0, <1>2 DEF HasJob, NoJob
<1>4. ledger' = Prefix(job.turn, 1)
  <2>1. 1 .. 1 = {1}
    OBVIOUS
  <2>2. ledger' = {Doc(job.turn, i, job.frames[i]) : i \in {1}}
    BY <1>0 DEF OpeningCommit, Docs, Doc
  <2> QED BY <1>0, <2>1, <2>2 DEF Prefix
<1>5. row' = [turn |-> job.turn, status |-> "active"] /\ worker' = "run" /\ batch' = batch
  BY DEF OpeningCommit
<1>6. Rest'
  BY DEF OpeningCommit, EInv, EngineTypeOK, Rest
<1>7. StoreFits'
  <2>1. 1 \in BodySizes
    BY ChatBounds DEF BodySizes
  <2>2. row' \in [turn : 1 .. MaxTurns, status : {"active"}] /\ row'.turn = job.turn
    BY <1>0, <1>5
  <2> QED BY <1>4, <2>1, <2>2 DEF StoreFits
<1>8. FramesFit'
  BY <1>2, WorkerHasJob DEF FramesFit, OpeningCommit
<1>9. WorkerFits'
  <2>1. batch = {}
    BY DEF OpeningCommit, EInv, WorkerFits
  <2>2. Lacks(job.pending)'
    <3>1. (1 + 1) .. 1 = {} /\ 1 \in 1 .. 1
      OBVIOUS
    <3> QED BY <1>0, <1>2, <1>4, <1>5, <3>1 DEF Lacks, RowOf
  <2> QED BY <1>2, <1>3, <1>5, <2>1, <2>2 DEF WorkerFits, Active
<1> QED BY <1>2, <1>6, <1>7, <1>8, <1>9, Parts

(* The job is gone: the store is what it is. *)
LEMMA JobGone ==
  ASSUME EInv, job' = NoJob, worker' = "none", batch' = {}, row' = row, ledger' = ledger, Rest'
  PROVE  EInv'
<1>1. ~HasJob' /\ ~Active'
  BY DEF HasJob, Active
<1>2. StoreFits'
  BY DEF EInv, StoreFits
<1>3. FramesFit' /\ WorkerFits'
  BY <1>1 DEF FramesFit, WorkerFits
<1> QED BY <1>2, <1>3, Parts

(* The opening transaction fails, and the reservation is released. *)
LEMMA OpeningFailsKeeps ==
  ASSUME EInv, OpeningFails
  PROVE  EInv'
<1>1. batch = {}
  BY DEF OpeningFails, EInv, WorkerFits
<1>2. Rest'
  BY DEF OpeningFails, EInv, EngineTypeOK, Rest
<1> QED BY <1>1, <1>2, JobGone DEF OpeningFails

(* A settled job is dropped from memory. *)
LEMMA EvictKeeps ==
  ASSUME EInv, EvictSettled
  PROVE  EInv'
<1>1. worker = "none"
  BY DEF EvictSettled, EInv, WorkerFits, Active, Settled
<1>2. batch = {}
  BY <1>1 DEF EInv, WorkerFits
<1>3. Rest'
  BY DEF EvictSettled, EInv, EngineTypeOK, Rest
<1> QED BY <1>1, <1>2, <1>3, JobGone DEF EvictSettled

(* The engine dies: the store is all that is left. *)
LEMMA CrashKeeps ==
  ASSUME EInv, Crash
  PROVE  EInv'
<1>1. alive' \in BOOLEAN /\ unsaved' \in BOOLEAN
  BY Zenon DEF Crash, EInv, EngineTypeOK
<1>2. Rest'
  BY <1>1, ChatBounds DEF Crash, EInv, EngineTypeOK, Rest, Settled
<1> QED BY <1>2, JobGone DEF Crash

(* The engine starts again, and settles the turn it finds active. *)
LEMMA RestartKeeps ==
  ASSUME EInv, Restart
  PROVE  EInv'
<1>1. alive' \in BOOLEAN /\ unsaved' \in BOOLEAN
  BY Zenon DEF Restart, EInv, EngineTypeOK
<1>2. Rest' /\ job' \in Job \cup {NoJob}
  BY <1>1 DEF Restart, EInv, EngineTypeOK, Rest
<1>3. StoreFits' /\ FramesFit' /\ WorkerFits'
  BY DEF Restart, EInv, StoreFits, FramesFit, WorkerFits, HasJob, Active, Lacks, RowOf
<1> QED BY <1>2, <1>3, Parts

(* A reader that finds no job settles a dead turn. *)
LEMMA ReadsKeeps ==
  ASSUME EInv, ~HasJob, Reconcile,
         UNCHANGED <<alive, crashes, turn, job, worker, batch, outcome, unsaved>>
  PROVE  EInv'
<1>1. Rest' /\ job' \in Job \cup {NoJob}
  BY DEF EInv, EngineTypeOK, Rest
<1>2. StoreFits'
  BY ReconcileKeeps DEF EInv
<1>3. ~HasJob' /\ ~Active /\ ~Active'
  BY DEF HasJob, Active
<1>4. FramesFit'
  BY <1>3 DEF FramesFit
<1>5. WorkerFits'
  BY <1>3 DEF EInv, WorkerFits
<1> QED BY <1>1, <1>2, <1>4, <1>5, Parts

(* Cancelling marks the job, or settles a turn that has none. *)
LEMMA CancelKeeps ==
  ASSUME EInv, CancelTurn
  PROVE  EInv'
<1>1. CASE ~HasJob
  BY <1>1, ReadsKeeps DEF CancelTurn
<1>2. CASE HasJob
  <2>1. PICK c : c = TRUE /\ job' = [job EXCEPT !.cancel = c]
    BY <1>2 DEF CancelTurn
  <2>2. job \in Job /\ c \in BOOLEAN /\ job.turn \in 1 .. MaxTurns
    BY <1>2, <2>1, JobTyped
  <2>3. /\ job' \in Job /\ job'.turn = job.turn /\ job'.status = job.status
        /\ job'.frames = job.frames /\ job'.pending = job.pending
    BY <2>1, <2>2 DEF Job
  <2>4. HasJob' /\ (Active' <=> Active)
    BY <1>2, <2>2, <2>3 DEF HasJob, NoJob, Active
  <2>5. Rest'
    BY DEF CancelTurn, EInv, EngineTypeOK, Rest
  <2>6. row' = row /\ ledger' = ledger /\ worker' = worker /\ batch' = batch /\ outcome' = outcome
    BY <1>2 DEF CancelTurn
  <2>7. StoreFits' /\ FramesFit'
    BY <1>2, <2>3, <2>6 DEF EInv, StoreFits, FramesFit
  <2>8. WorkerFits'
    BY <1>2, <2>3, <2>4, <2>6 DEF EInv, WorkerFits, Lacks, RowOf
  <2> QED BY <2>3, <2>5, <2>7, <2>8, Parts
<1> QED BY <1>1, <1>2

(* One more frame is pending. *)
LEMMA IntervalGrows ==
  ASSUME NEW m \in Nat, NEW n \in 1 .. m
  PROVE  ((n + 1) .. m) \cup {m + 1} = (n + 1) .. (m + 1)
OBVIOUS

(* A delta, and perhaps the batch for a flush. *)
LEMMA DeltaKeeps ==
  ASSUME EInv, Delta
  PROVE  EInv'
<1> DEFINE j == Appended(job, "delta")
<1>0. /\ HasJob /\ job.turn \in 1 .. MaxTurns /\ Len(job.frames) \in BodySizes
      /\ Len(job.frames) \in Nat
  BY JobTyped, WorkerHasJob DEF Delta
<1>1. Len(job.frames) + 1 \in BodySizes /\ Len(job.frames) < MaxDeltas + 2
  BY <1>0, DeltasCounted, ChatBounds DEF Delta, BodySizes
<1>2. /\ j \in Job /\ j.turn = job.turn /\ j.status = "active"
      /\ j.pending = job.pending \cup {Len(job.frames) + 1}
      /\ Len(j.frames) = Len(job.frames) + 1
      /\ \A i \in 1 .. Len(j.frames) : j.frames[i] = KindAt(i)
  BY <1>1, AppendedFacts DEF Delta
<1>3. /\ row = RowOf("active") /\ batch = {}
      /\ \E n \in 1 .. Len(j.frames) :
           j.pending = (n + 1) .. Len(j.frames) /\ ledger = Prefix(j.turn, n)
  <2>1. Lacks(job.pending) /\ batch = {}
    BY DEF Delta, EInv, WorkerFits
  <2>2. PICK n \in 1 .. Len(job.frames) :
          job.pending = (n + 1) .. Len(job.frames) /\ ledger = Prefix(job.turn, n)
    BY <2>1 DEF Lacks
  <2>3. j.pending = (n + 1) .. Len(j.frames)
    BY <1>0, <1>2, <2>2, IntervalGrows
  <2> QED BY <1>0, <1>2, <2>1, <2>2, <2>3 DEF Lacks
<1> HIDE DEF j
<1>4. /\ job' \in Job /\ job'.turn = job.turn /\ job'.status = "active" /\ job'.frames = j.frames
      /\ \/ job'.pending = j.pending /\ batch' = {} /\ worker' = "run"
         \/ job'.pending = {} /\ batch' = j.pending /\ worker' = "flush"
  <2>1. CASE job' = j /\ UNCHANGED <<worker, batch>>
    BY <1>2, <1>3, <2>1 DEF Delta
  <2>2. CASE job' = [j EXCEPT !.pending = {}] /\ batch' = j.pending /\ worker' = "flush"
    BY <1>2, <2>2 DEF Job
  <2> QED BY <2>1, <2>2 DEF Delta, j
<1>5. row' = row /\ ledger' = ledger
  BY DEF Delta
<1>6. HasJob' /\ Active'
  BY <1>0, <1>4 DEF HasJob, NoJob, Active
<1>7. Rest'
  <2>1. j.pending \subseteq 1 .. MaxSeq
    BY <1>2 DEF Job
  <2> QED BY <1>4, <2>1 DEF Delta, EInv, EngineTypeOK, Rest
<1>8. StoreFits' /\ FramesFit'
  BY <1>1, <1>2, <1>4, <1>5 DEF EInv, StoreFits, FramesFit
<1>9. WorkerFits'
  BY <1>2, <1>3, <1>4, <1>5, <1>6 DEF WorkerFits, Lacks, RowOf
<1> QED BY <1>4, <1>7, <1>8, <1>9, Parts

(* The flush's transaction. *)
LEMMA FlushCommitKeeps ==
  ASSUME EInv, FlushCommit
  PROVE  EInv'
<1>0. /\ HasJob /\ job \in Job /\ job.turn \in 1 .. MaxTurns /\ Len(job.frames) \in BodySizes
      /\ Len(job.frames) \in Nat
  BY JobTyped, WorkerHasJob DEF FlushCommit
<1>1. PICK n \in 1 .. Len(job.frames) :
        batch = (n + 1) .. Len(job.frames) /\ ledger = Prefix(job.turn, n)
  BY DEF FlushCommit, EInv, WorkerFits, Lacks
<1>2. row = RowOf("active") /\ job.pending = {}
  BY DEF FlushCommit, EInv, WorkerFits, Lacks
<1>3. ledger' = Prefix(job.turn, Len(job.frames))
  BY <1>0, <1>1, DocsOfBody, WorkerHasJob DEF FlushCommit
<1>4. row' = row /\ job' = job /\ worker' = "run" /\ batch' = {}
  BY DEF FlushCommit
<1>5. Rest'
  BY DEF FlushCommit, EInv, EngineTypeOK, Rest
<1>6. StoreFits'
  <2>1. row' \in [turn : 1 .. MaxTurns, status : {"active"}] /\ row'.turn = job.turn
    BY <1>0, <1>2, <1>4 DEF RowOf
  <2> QED BY <1>0, <1>3, <2>1 DEF StoreFits
<1>7. FramesFit'
  BY <1>4 DEF EInv, FramesFit, HasJob
<1>8. WorkerFits'
  <2>1. Lacks(job.pending)'
    <3>1. Len(job.frames) \in 1 .. Len(job.frames)
      BY <1>0, ChatBounds DEF BodySizes
    <3>2. (Len(job.frames) + 1) .. Len(job.frames) = {}
      BY <1>0
    <3> QED BY <1>2, <1>3, <1>4, <3>1, <3>2 DEF Lacks, RowOf
  <2>2. Active' /\ job'.status = "active"
    BY <1>0, <1>4, WorkerHasJob DEF Active, HasJob, FlushCommit
  <2> QED BY <1>4, <2>1, <2>2 DEF WorkerFits
<1> QED BY <1>0, <1>4, <1>5, <1>6, <1>7, <1>8, Parts

(* A flush that failed: its batch is pending again. *)
LEMMA FlushFailsKeeps ==
  ASSUME EInv, FlushFails
  PROVE  EInv'
<1>0. /\ HasJob /\ job \in Job /\ job.turn \in 1 .. MaxTurns /\ job.status = "active"
  BY JobTyped, WorkerHasJob DEF FlushFails
<1>1. Lacks(batch) /\ job.pending = {} /\ batch \subseteq 1 .. MaxSeq
  BY DEF FlushFails, EInv, WorkerFits, EngineTypeOK
<1>2. job' = [job EXCEPT !.pending = batch]
  BY <1>1 DEF FlushFails
<1>3. /\ job' \in Job /\ job'.turn = job.turn /\ job'.status = "active"
      /\ job'.frames = job.frames /\ job'.pending = batch
  BY <1>0, <1>1, <1>2 DEF Job
<1>4. row' = row /\ ledger' = ledger /\ worker' = "run" /\ batch' = {}
  BY DEF FlushFails
<1>5. HasJob' /\ Active'
  BY <1>0, <1>3 DEF HasJob, NoJob, Active
<1>6. Rest'
  BY DEF FlushFails, EInv, EngineTypeOK, Rest
<1>7. StoreFits' /\ FramesFit'
  BY <1>0, <1>3, <1>4 DEF EInv, StoreFits, FramesFit
<1>8. WorkerFits'
  BY <1>1, <1>3, <1>4, <1>5 DEF WorkerFits, Lacks, RowOf
<1> QED BY <1>3, <1>6, <1>7, <1>8, Parts

(* The stream is over; a complete turn without an answer gets a note. *)
LEMMA StreamEndsKeeps ==
  ASSUME EInv, StreamEnds
  PROVE  EInv'
<1>0. /\ HasJob /\ job \in Job /\ job.turn \in 1 .. MaxTurns /\ Len(job.frames) \in BodySizes
      /\ Len(job.frames) \in Nat /\ job.status = "active"
      /\ \A i \in 1 .. Len(job.frames) : job.frames[i] = KindAt(i)
  BY JobTyped, WorkerHasJob DEF StreamEnds
<1>1. PICK n \in 1 .. Len(job.frames) :
        job.pending = (n + 1) .. Len(job.frames) /\ ledger = Prefix(job.turn, n)
  BY DEF StreamEnds, EInv, WorkerFits, Lacks
<1>2. row = RowOf("active")
  BY DEF StreamEnds, EInv, WorkerFits, Lacks
<1>3. PICK j : /\ \/ j = job
                  \/ j = Appended(job, "delta") /\ Deltas = 0
               /\ batch' = j.pending /\ job' = [j EXCEPT !.pending = {}] /\ outcome' \in Settled
  BY DEF StreamEnds
<1>4. /\ j \in Job /\ j.turn = job.turn /\ j.status = "active"
      /\ Len(j.frames) \in BodySizes /\ n \in 1 .. Len(j.frames)
      /\ j.pending = (n + 1) .. Len(j.frames)
      /\ \A i \in 1 .. Len(j.frames) : j.frames[i] = KindAt(i)
  <2>1. CASE j = job
    BY <1>0, <1>1, <2>1
  <2>2. CASE j = Appended(job, "delta") /\ Deltas = 0
    <3>1. Len(job.frames) = 1 /\ Len(job.frames) < MaxDeltas + 2
      BY <1>0, <2>2, DeltasCounted, ChatBounds DEF StreamEnds
    <3>2. /\ j \in Job /\ j.turn = job.turn /\ j.status = "active"
          /\ j.pending = job.pending \cup {Len(job.frames) + 1}
          /\ Len(j.frames) = Len(job.frames) + 1
          /\ \A i \in 1 .. Len(j.frames) : j.frames[i] = KindAt(i)
      BY <2>2, <3>1, AppendedFacts DEF StreamEnds
    <3>3. Len(j.frames) \in BodySizes
      BY <3>1, <3>2, ChatBounds DEF BodySizes
    <3> QED BY <1>0, <1>1, <3>2, <3>3
  <2> QED BY <1>3, <2>1, <2>2
<1>5. /\ job' \in Job /\ job'.turn = job.turn /\ job'.status = "active"
      /\ job'.frames = j.frames /\ job'.pending = {}
  BY <1>3, <1>4 DEF Job
<1>6. row' = row /\ ledger' = ledger /\ worker' = "commit"
  BY DEF StreamEnds
<1>7. HasJob' /\ Active'
  BY <1>0, <1>5 DEF HasJob, NoJob, Active
<1>8. Rest'
  <2>1. j.pending \subseteq 1 .. MaxSeq
    BY <1>4 DEF Job
  <2> QED BY <1>3, <2>1 DEF StreamEnds, EInv, EngineTypeOK, Rest
<1>9. StoreFits' /\ FramesFit'
  BY <1>4, <1>5, <1>6 DEF EInv, StoreFits, FramesFit
<1>10. WorkerFits'
  BY <1>1, <1>2, <1>3, <1>4, <1>5, <1>6, <1>7 DEF WorkerFits, Lacks, RowOf
<1> QED BY <1>5, <1>8, <1>9, <1>10, Parts

(* The terminal transaction. *)
LEMMA CommitTerminalKeeps ==
  ASSUME EInv, CommitTerminal
  PROVE  EInv'
<1>0. /\ HasJob /\ job \in Job /\ job.turn \in 1 .. MaxTurns /\ Len(job.frames) \in BodySizes
      /\ Len(job.frames) \in Nat /\ job.status = "active"
  BY JobTyped, WorkerHasJob DEF CommitTerminal
<1>1. PICK n \in 1 .. Len(job.frames) :
        batch = (n + 1) .. Len(job.frames) /\ ledger = Prefix(job.turn, n)
  BY DEF CommitTerminal, EInv, WorkerFits, Lacks
<1>2. row = RowOf("active") /\ job.pending = {} /\ outcome \in Settled
  BY DEF CommitTerminal, EInv, WorkerFits, Lacks, EngineTypeOK
<1>3. ledger' = Ended(job.turn, Len(job.frames))
  <2>1. ledger \cup Docs(batch) = Prefix(job.turn, Len(job.frames))
    BY <1>0, <1>1, DocsOfBody, WorkerHasJob DEF CommitTerminal
  <2> QED BY <2>1 DEF CommitTerminal, Ended, Doc
<1>4. /\ row' = RowOf(outcome) /\ job' = job /\ worker' = "publish" /\ batch' = {}
      /\ outcome' = outcome
  BY <1>2 DEF CommitTerminal, RowOf
<1>5. Rest'
  BY DEF CommitTerminal, EInv, EngineTypeOK, Rest
<1>6. StoreFits'
  <2>1. row' \in [turn : 1 .. MaxTurns, status : Settled] /\ row'.turn = job.turn
    BY <1>0, <1>2, <1>4 DEF RowOf
  <2> QED BY <1>0, <1>3, <2>1 DEF StoreFits
<1>7. FramesFit'
  BY <1>4 DEF EInv, FramesFit, HasJob
<1>8. WorkerFits'
  <2>1. Active' /\ job'.status = "active"
    BY <1>0, <1>4 DEF Active, HasJob
  <2> QED BY <1>2, <1>3, <1>4, <2>1 DEF WorkerFits, RowOf
<1> QED BY <1>0, <1>4, <1>5, <1>6, <1>7, <1>8, Parts

(* The final frame appears in memory. *)
LEMMA FinalShown ==
  ASSUME EInv, worker # "none", NEW s \in Settled, NEW c, c = FALSE,
         NEW p, p \subseteq 1 .. MaxSeq,
         job' = [job EXCEPT !.frames = Append(@, "final"), !.status = s, !.cancel = c,
                            !.pending = p]
  PROVE  /\ job' \in Job /\ job'.turn = job.turn /\ job'.status = s /\ s # "active"
         /\ HasJob' /\ ~Active' /\ FramesFit' /\ Len(job'.frames) - 1 = Len(job.frames)
<1>0. /\ HasJob /\ job \in Job /\ job.turn \in 1 .. MaxTurns /\ Len(job.frames) \in BodySizes
      /\ Len(job.frames) \in Nat /\ job.status = "active" /\ job.frames \in Seq(Kinds)
      /\ \A i \in 1 .. Len(job.frames) : job.frames[i] = KindAt(i)
  BY JobTyped, WorkerHasJob
<1>1. PICK f : f = Append(job.frames, "final")
  OBVIOUS
<1>2. /\ f \in Seq(Kinds) /\ Len(f) = Len(job.frames) + 1 /\ f[Len(f)] = "final"
      /\ \A i \in 1 .. Len(job.frames) : f[i] = KindAt(i)
  BY <1>0, <1>1 DEF Kinds
<1>3. /\ job' \in Job /\ job'.turn = job.turn /\ job'.status = s /\ job'.frames = f
  <2>1. c \in BOOLEAN
    OBVIOUS
  <2>2. job' = [job EXCEPT !.frames = f, !.status = s, !.cancel = c, !.pending = p]
    BY <1>0, <1>1
  <2> QED BY <1>0, <1>2, <2>1, <2>2 DEF Job
<1>4. s # "active"
  BY DEF Settled
<1>5. HasJob' /\ ~Active'
  <2>1. job'.turn # 0
    BY <1>0, <1>3
  <2>2. HasJob'
    BY ONLY <2>1 DEF HasJob, NoJob
  <2> QED BY ONLY <2>2, <1>3, <1>4 DEF Active
<1>6. Len(f) - 1 = Len(job.frames)
  BY <1>0, <1>2
<1>7. FramesFit'
  BY <1>0, <1>2, <1>3, <1>4, <1>6 DEF FramesFit
<1> QED BY <1>3, <1>4, <1>5, <1>6, <1>7

(* The final frame is published after its transaction. *)
LEMMA PublishKeeps ==
  ASSUME EInv, PublishTerminal
  PROVE  EInv'
<1>0. job \in Job /\ job.pending \subseteq 1 .. MaxSeq
  BY JobTyped, WorkerHasJob DEF PublishTerminal
<1>1. PICK c : /\ c = FALSE
               /\ job' = [job EXCEPT !.frames = Append(@, "final"), !.status = outcome,
                                     !.cancel = c]
  BY DEF PublishTerminal
<1>11. PICK p : p = job.pending
  OBVIOUS
<1>9. p \subseteq 1 .. MaxSeq
  BY <1>0, <1>11
<1>10. job' = [job EXCEPT !.frames = Append(@, "final"), !.status = outcome, !.cancel = c,
                          !.pending = p]
  BY <1>0, <1>1, <1>11 DEF Job
<1>2. outcome \in Settled
  BY DEF EInv, EngineTypeOK
<1>3. /\ job' \in Job /\ job'.turn = job.turn /\ job'.status = outcome
      /\ HasJob' /\ ~Active' /\ FramesFit' /\ Len(job'.frames) - 1 = Len(job.frames)
  <2>1. worker # "none"
    BY DEF PublishTerminal
  <2> QED BY <1>1, <1>2, <1>9, <1>10, <2>1, FinalShown
<1>4. /\ row = RowOf(outcome) /\ ledger = Ended(job.turn, Len(job.frames)) /\ batch = {}
  BY DEF PublishTerminal, EInv, WorkerFits
<1>5. row' = row /\ ledger' = ledger /\ worker' = "none" /\ batch' = batch
  BY DEF PublishTerminal
<1>6. Rest'
  BY DEF PublishTerminal, EInv, EngineTypeOK, Rest, Settled
<1>7. StoreFits'
  BY <1>5 DEF EInv, StoreFits
<1>8. WorkerFits'
  BY <1>3, <1>4, <1>5 DEF WorkerFits, RowOf
<1> QED BY <1>3, <1>6, <1>7, <1>8, Parts

(* The terminal transaction fails: the job ends in error, the store stays active. *)
LEMMA CommitFailsKeeps ==
  ASSUME EInv, CommitFails
  PROVE  EInv'
<1>0. job.pending \cup batch \subseteq 1 .. MaxSeq
  BY JobTyped, WorkerHasJob DEF CommitFails, EInv, EngineTypeOK
<1>1. PICK c, p : /\ c = FALSE /\ p = job.pending \cup batch
                  /\ job' = [job EXCEPT !.frames = Append(@, "final"), !.status = "error",
                                        !.cancel = c, !.pending = p]
  BY DEF CommitFails
<1>2. "error" \in Settled
  BY DEF Settled
<1>3. /\ job' \in Job /\ job'.turn = job.turn /\ job'.status = "error"
      /\ HasJob' /\ ~Active' /\ FramesFit'
  BY <1>0, <1>1, <1>2, FinalShown DEF CommitFails
<1>4. row' = row /\ ledger' = ledger /\ worker' = "none" /\ batch' = {}
  BY DEF CommitFails
<1>5. Rest'
  <2>1. unsaved' \in BOOLEAN /\ alive' \in BOOLEAN
    BY Zenon DEF CommitFails, EInv, EngineTypeOK
  <2> QED BY <2>1 DEF CommitFails, EInv, EngineTypeOK, Rest, Settled
<1>6. StoreFits'
  BY <1>4 DEF EInv, StoreFits
<1>7. WorkerFits'
  BY <1>3, <1>4 DEF WorkerFits
<1> QED BY <1>3, <1>5, <1>6, <1>7, Parts

(* Every step of the engine keeps its invariant. *)
LEMMA EngineKeeps ==
  ASSUME EInv, EngineStep
  PROVE  EInv'
<1>1. CASE Thread
  BY <1>1, OpeningCommitKeeps, OpeningFailsKeeps, DeltaKeeps, FlushCommitKeeps, FlushFailsKeeps,
     StreamEndsKeeps, CommitTerminalKeeps, PublishKeeps, CommitFailsKeeps DEF Thread
<1>2. CASE UNCHANGED engine
  BY <1>2 DEF engine, EInv, EngineTypeOK, StoreFits, FramesFit, WorkerFits, HasJob, Active,
              Lacks, RowOf
<1> QED
  BY <1>1, <1>2, ReserveKeeps, CancelKeeps, EvictKeeps, RestartKeeps, CrashKeeps, ReadsKeeps
     DEF EngineStep, Reads

(* The invariant holds at the start. *)
LEMMA InitEInv == Init => EInv
<1> SUFFICES ASSUME Init PROVE EInv
  OBVIOUS
<1>1. alive \in BOOLEAN /\ unsaved \in BOOLEAN
  BY Zenon DEF Init, EngineInit
<1>2. EngineTypeOK
  BY <1>1, ChatBounds DEF Init, EngineInit, EngineTypeOK, Settled
<1>3. ~HasJob /\ ~Active
  BY DEF Init, EngineInit, HasJob, Active
<1>4. StoreFits
  BY DEF Init, EngineInit, StoreFits
<1>5. FramesFit /\ WorkerFits
  BY <1>3 DEF Init, EngineInit, FramesFit, WorkerFits
<1> QED BY <1>2, <1>4, <1>5 DEF EInv

(* Every step of the stream keeps the engine's invariant. *)
LEMMA NextEInv == EInv /\ [Next]_vars => EInv'
BY StreamSteps, EngineKeeps

(* chatturn.py, _flush_if_due, _finish and _reconcile_dead: for any number of *)
(* turns, deltas, failed flushes, failed transactions and crashes, the stored *)
(* documents of a turn are numbered from one without a gap, belong to the row *)
(* that is stored, and hold a final frame, the last, iff the row is settled.  *)
THEOREM LedgerIsWhole == Spec => []LedgerWhole
<1>1. EInv => LedgerWhole
  BY StoreIsWhole DEF EInv
<1> QED BY <1>1, InitEInv, NextEInv, PTL DEF Spec

(* _finish: a turn whose end the engine shows as complete or aborted is in    *)
(* the store, row and every frame of it, and no later step takes it away.     *)
THEOREM PublishedStays == Spec => []PublishedIsDurable
<1>1. EInv => PublishedIsDurable
  <2> SUFFICES ASSUME EInv, HasJob, job.status \in {"complete", "aborted"}
               PROVE  /\ row = [turn |-> job.turn, status |-> job.status]
                      /\ ledger = Docs(1 .. Len(job.frames))
    BY DEF PublishedIsDurable
  <2> DEFINE n == Len(job.frames) - 1
  <2>1. row = RowOf(job.status) /\ ledger = Ended(job.turn, n)
    BY DEF EInv, WorkerFits
  <2>2. /\ n \in BodySizes /\ n \in Nat /\ job.frames[Len(job.frames)] = "final"
        /\ \A i \in 1 .. n : job.frames[i] = KindAt(i) /\ Len(job.frames) = n + 1
    BY ChatBounds, JobTyped DEF EInv, FramesFit, BodySizes
  <2>3. Prefix(job.turn, n) = {Doc(job.turn, i, job.frames[i]) : i \in 1 .. n}
    BY <2>2 DEF Prefix
  <2>4. 1 .. Len(job.frames) = (1 .. n) \cup {n + 1} /\ Len(job.frames) = n + 1
    BY <2>2, JobTyped
  <2>5. Docs(1 .. Len(job.frames)) = {Doc(job.turn, i, job.frames[i]) : i \in 1 .. Len(job.frames)}
    BY DEF Docs, Doc
  <2>6. Docs(1 .. Len(job.frames))
          = {Doc(job.turn, i, job.frames[i]) : i \in 1 .. n} \cup {Doc(job.turn, n + 1, "final")}
    BY <2>2, <2>4, <2>5
  <2> QED BY <2>1, <2>3, <2>6 DEF RowOf, Ended
<1> QED BY <1>1, InitEInv, NextEInv, PTL DEF Spec

(* A set of naturals has a least element. *)
LEMMA LeastOf ==
  ASSUME NEW T, T \subseteq Nat, T # {}
  PROVE  \E m \in T : \A n \in T : m <= n
<1> DEFINE R == {ss \in Nat \X Nat : ss[1] < ss[2]}
<1>1. IsWellFoundedOn(R, Nat)
  BY NatLessThanWellFounded DEF OpToRel
<1>2. PICK x \in T : \A y \in T : ~(<<y, x>> \in R)
  BY ONLY <1>1, T \subseteq Nat, T # {}, WFMin
<1>3. \A y \in T : <<y, x>> \in R <=> y < x
  OBVIOUS
<1>4. \A y \in T : ~(y < x)
  BY <1>2, <1>3
<1> QED BY <1>4

(* A set of naturals with a bound has a greatest element. *)
LEMMA GreatestOf ==
  ASSUME NEW T, T \subseteq Nat, T # {}, NEW b \in Nat, \A n \in T : n <= b
  PROVE  \E m \in T : \A n \in T : n <= m
<1> DEFINE U == {k \in Nat : \E n \in T : n = b - k}
<1>1. U # {}
  <2>1. PICK n \in T : TRUE
    OBVIOUS
  <2>2. b - n \in U
    BY <2>1
  <2> QED BY <2>2
<1>2. PICK k \in U : \A j \in U : k <= j
  BY <1>1, LeastOf
<1>3. PICK m \in T : m = b - k
  BY <1>2
<1>4. ASSUME NEW n \in T PROVE n <= m
  <2>1. b - n \in U
    OBVIOUS
  <2> QED BY <1>2, <1>3, <2>1
<1> QED BY <1>3, <1>4

(* Induction over an initial segment of the naturals. *)
LEMMA Climb ==
  ASSUME NEW n \in Nat, NEW T, 0 \in T, \A i \in 1 .. n : i - 1 \in T => i \in T
  PROVE  \A i \in 0 .. n : i \in T
<1> DEFINE Bad == {i \in 0 .. n : i \notin T}
<1>1. CASE Bad = {}
  BY <1>1
<1>2. CASE Bad # {}
  <2>0. Bad \subseteq Nat
    OBVIOUS
  <2>1. PICK m \in Bad : \A k \in Bad : m <= k
    BY <1>2, <2>0, LeastOf
  <2>2. m \in 1 .. n /\ m - 1 \notin Bad
    BY <2>1
  <2> QED BY <2>1, <2>2
<1> QED BY <1>1, <1>2

-----------------------------------------------------------------------------
(* The pages of the ledger. *)

(* The documents of the frames a + 1 .. b of turn t. *)
Slice(docs, t, a, b) ==
  /\ \A d \in docs : d.turn = t /\ d.seq \in (a + 1) .. b
  /\ \A i \in (a + 1) .. b : \E d \in docs : d.seq = i
  /\ \A d, e \in docs : d.seq = e.seq => d = e
  /\ \A d \in docs : d.kind = "final" => d.seq = b

(* Events that stand for the frames lo .. hi of turn t, each of them once, and *)
(* with a final frame only at the end.                                         *)
Chain(evs, lo, hi, t) ==
  /\ lo <= hi + 1
  /\ \A e \in evs : e.turn = t /\ lo <= e.from /\ e.from <= e.seq /\ e.seq <= hi
  /\ \A k \in lo .. hi : \E e \in evs : e.from <= k /\ k <= e.seq
  /\ \A e, f \in evs : e # f => e.seq < f.from \/ f.seq < e.from
  /\ \A e \in evs : e.final => e.seq = hi

HasFinal(evs) == \E e \in evs : e.final

(* No two events of a page have one seq, and a final frame ends it. *)
Sortable(evs) ==
  /\ evs \subseteq Event
  /\ \A e, f \in evs : e.seq = f.seq => e = f
  /\ \A e, f \in evs : f.final => e.seq <= f.seq

(* _coalesce_deltas loses no frame and shows none twice. *)
LEMMA CoalescedChains ==
  ASSUME NEW docs, NEW t \in 1 .. MaxTurns, NEW a \in Nat, NEW b \in 0 .. MaxSeq,
         Slice(docs, t, a, b)
  PROVE  /\ Chain(Coalesced(docs), a + 1, IF b < a THEN a ELSE b, t)
         /\ HasFinal(Coalesced(docs)) <=> \E d \in docs : d.kind = "final"
         /\ Coalesced(docs) \subseteq Event
<1> DEFINE IsDelta(i) == \E d \in docs : d.seq = i /\ d.kind = "delta"
           Ending(d) == ~(d.kind = "delta" /\ IsDelta(d.seq + 1))
           From(d) == IF d.kind # "delta" THEN d.seq
                      ELSE CHOOSE i \in 1 .. d.seq :
                               /\ \A k \in i .. d.seq : IsDelta(k)
                               /\ ~IsDelta(i - 1)
           Ev(d) == [turn |-> d.turn, from |-> From(d), seq |-> d.seq,
                     final |-> d.kind = "final"]
           E == {Ev(d) : d \in {e \in docs : Ending(e)}}
<1>0. MaxSeq \in Nat /\ b \in Nat /\ MaxTurns \in Nat
  BY ChatBounds DEF MaxSeq
<1>1. Coalesced(docs) = E
  BY DEF Coalesced
<1>2. \A d \in docs : d.turn = t /\ d.seq \in (a + 1) .. b /\ d.seq \in Nat /\ d.seq <= b
  BY <1>0 DEF Slice
<1>3. \A i : IsDelta(i) => i \in (a + 1) .. b
  BY <1>2
<1>4. ASSUME NEW d \in docs
      PROVE  /\ From(d) \in (a + 1) .. d.seq
             /\ d.kind # "delta" => From(d) = d.seq
             /\ d.kind = "delta" => /\ \A k \in From(d) .. d.seq : IsDelta(k)
                                    /\ ~IsDelta(From(d) - 1)
  <2>1. CASE d.kind # "delta"
    BY <1>2, <2>1
  <2>2. CASE d.kind = "delta"
    <3> DEFINE T == {i \in 1 .. d.seq : \A k \in i .. d.seq : IsDelta(k)}
    <3>1. d.seq \in T
      BY <1>2, <2>2
    <3>2. T \subseteq Nat
      BY <1>2
    <3>3. PICK i \in T : \A j \in T : i <= j
      BY <3>1, <3>2, LeastOf
    <3>4. ~IsDelta(i - 1)
      <4> SUFFICES ASSUME IsDelta(i - 1) PROVE FALSE
        OBVIOUS
      <4>1. i - 1 \in (a + 1) .. b /\ i - 1 \in 1 .. d.seq
        BY <1>2, <1>3, <3>3
      <4>2. \A k \in (i - 1) .. d.seq : k = i - 1 \/ k \in i .. d.seq
        BY <1>2, <3>3
      <4>3. i - 1 \in T
        BY <3>3, <4>1, <4>2
      <4> QED BY <3>3, <4>1, <4>3
    <3>5. /\ From(d) \in 1 .. d.seq
          /\ \A k \in From(d) .. d.seq : IsDelta(k)
          /\ ~IsDelta(From(d) - 1)
      <4>1. \E x \in 1 .. d.seq : (\A k \in x .. d.seq : IsDelta(k)) /\ ~IsDelta(x - 1)
        BY <3>3, <3>4
      <4> HIDE DEF IsDelta
      <4> QED BY <2>2, <4>1
    <3>6. From(d) \in From(d) .. d.seq
      BY <1>2, <3>5
    <3>7. From(d) \in (a + 1) .. b
      <4> HIDE DEF From, IsDelta
      <4> QED BY <1>3, <3>5, <3>6
    <3> HIDE DEF From, IsDelta
    <3> QED BY <1>2, <2>2, <3>5, <3>7
  <2> QED BY <2>1, <2>2
<1> HIDE DEF From
<1>5. \A d : Ev(d).turn = d.turn /\ Ev(d).from = From(d) /\ Ev(d).seq = d.seq
             /\ Ev(d).final = (d.kind = "final")
  OBVIOUS
<1>6. \A e \in E : \E d \in docs : e = Ev(d) /\ Ending(d)
  OBVIOUS
<1>7. \A d \in docs : Ending(d) => Ev(d) \in E
  OBVIOUS
<1>8. ASSUME NEW e \in E PROVE e \in Event /\ e.turn = t /\ a + 1 <= e.from
                               /\ e.from <= e.seq /\ e.seq <= b /\ (e.final => e.seq = b)
                               /\ e.seq \in Nat /\ e.from \in Nat
  <2>1. PICK d \in docs : e = Ev(d)
    BY <1>6
  <2>2. d.turn = t /\ d.seq \in (a + 1) .. b /\ From(d) \in (a + 1) .. d.seq
    BY <1>2, <1>4
  <2>3. d.seq \in 1 .. MaxSeq /\ From(d) \in 1 .. MaxSeq
    BY <1>0, <2>2
  <2>4. e \in Event
    <3>1. (d.kind = "final") \in BOOLEAN
      OBVIOUS
    <3>2. e = [turn |-> t, from |-> From(d), seq |-> d.seq, final |-> d.kind = "final"]
      BY <2>1, <2>2
    <3>3. \A f \in BOOLEAN : [turn |-> t, from |-> From(d), seq |-> d.seq, final |-> f] \in Event
      BY <2>3 DEF Event
    <3> QED BY ONLY <3>1, <3>2, <3>3, Zenon
  <2>5. e.turn = t /\ e.from = From(d) /\ e.seq = d.seq /\ (e.final => d.kind = "final")
    BY <1>5, <2>1, <2>2
  <2>6. e.final => e.seq = b
    BY <2>5 DEF Slice
  <2> QED BY <1>0, <2>2, <2>4, <2>5, <2>6
<1>9. ASSUME NEW k \in (a + 1) .. b PROVE \E e \in E : e.from <= k /\ k <= e.seq
  <2>1. PICK d \in docs : d.seq = k
    BY DEF Slice
  <2>2. CASE d.kind # "delta"
    <3>1. Ev(d) \in E
      BY <1>7, <2>2
    <3>2. Ev(d).from = k /\ Ev(d).seq = k
      BY <1>4, <1>5, <2>1, <2>2
    <3>3. k <= k
      OBVIOUS
    <3> HIDE DEF E, Ev
    <3> QED BY <3>1, <3>2, <3>3
  <2>3. CASE d.kind = "delta"
    <3> DEFINE T == {j \in k .. b : ~IsDelta(j + 1)}
    <3>1. b \in T
      BY <1>0, <1>3
    <3>2. T \subseteq Nat
      BY <1>0
    <3>3. PICK j \in T : \A i \in T : j <= i
      BY <3>1, <3>2, LeastOf
    <3>4. ASSUME NEW m \in k .. j PROVE IsDelta(m)
      <4>1. CASE m = k
        BY <2>1, <2>3, <4>1
      <4>2. CASE m # k
        <5>1. m - 1 \in k .. b /\ m - 1 \notin T /\ (m - 1) + 1 = m
          BY <1>0, <3>3, <4>2
        <5> QED BY <5>1
      <4> QED BY <4>1, <4>2
    <3>5. j \in k .. j /\ j \in k .. b /\ ~IsDelta(j + 1)
      BY <3>3
    <3>6. PICK f \in docs : f.seq = j /\ f.kind = "delta"
      BY <3>4, <3>5
    <3>7. Ev(f) \in E
      BY <1>7, <3>5, <3>6
    <3>8. From(f) \in Nat /\ ~IsDelta(From(f) - 1) /\ From(f) \in (a + 1) .. j
      BY <1>4, <3>6
    <3>9. From(f) <= k
      <4> SUFFICES ASSUME k < From(f) PROVE FALSE
        BY <3>8
      <4>1. From(f) - 1 \in k .. j
        BY <3>8
      <4> QED BY <3>4, <3>8, <4>1
    <3> QED BY <1>5, <3>5, <3>6, <3>7, <3>9
  <2> QED BY <2>2, <2>3
<1>10. ASSUME NEW d \in docs, NEW f \in docs, Ending(d), d.seq < f.seq
       PROVE  d.seq < From(f)
  <2> SUFFICES ASSUME From(f) <= d.seq PROVE FALSE
    BY <1>2, <1>4
  <2>1. From(f) \in (a + 1) .. f.seq /\ d.seq \in Nat /\ f.seq \in Nat
    BY <1>2, <1>4
  <2>2. f.kind = "delta"
    BY <1>4, <1>10, <2>1
  <2>3. d.seq \in From(f) .. f.seq /\ d.seq + 1 \in From(f) .. f.seq
    BY <1>10, <2>1
  <2>4. IsDelta(d.seq) /\ IsDelta(d.seq + 1)
    BY <1>4, <2>2, <2>3
  <2>5. d.kind = "delta"
    BY <2>4 DEF Slice
  <2> QED BY <1>10, <2>4, <2>5
<1>11. ASSUME NEW e \in E, NEW f \in E, e # f PROVE e.seq < f.from \/ f.seq < e.from
  <2>1. PICK d \in docs : e = Ev(d) /\ Ending(d)
    BY <1>6
  <2>2. PICK g \in docs : f = Ev(g) /\ Ending(g)
    BY <1>6
  <2>3. d.seq # g.seq
    BY <1>11, <2>1, <2>2 DEF Slice
  <2>4. d.seq < g.seq \/ g.seq < d.seq
    BY <1>2, <2>3
  <2> QED BY <1>5, <1>10, <2>1, <2>2, <2>4
<1>12. HasFinal(E) <=> \E d \in docs : d.kind = "final"
  <2>1. ASSUME NEW e \in E, e.final PROVE \E d \in docs : d.kind = "final"
    BY <1>5, <1>6, <2>1
  <2>2. ASSUME NEW d \in docs, d.kind = "final" PROVE \E e \in E : e.final
    <3>1. Ending(d)
      BY <2>2
    <3> QED BY <1>5, <1>7, <2>2, <3>1
  <2> QED BY <2>1, <2>2 DEF HasFinal
<1> HIDE DEF E
<1>13. Chain(E, a + 1, IF b < a THEN a ELSE b, t)
  <2>1. CASE b < a
    <3>1. E = {}
      BY <1>0, <1>8, <2>1
    <3> QED BY <1>0, <2>1, <3>1 DEF Chain
  <2>2. CASE ~(b < a)
    BY <1>0, <1>8, <1>9, <1>11, <2>2 DEF Chain
  <2> QED BY <2>1, <2>2
<1> QED BY <1>1, <1>8, <1>12, <1>13

(* Events in a chain have different seqs. *)
LEMMA ChainSorts ==
  ASSUME NEW evs, evs \subseteq Event, NEW lo \in Nat, NEW hi \in Nat, NEW t,
         Chain(evs, lo, hi, t)
  PROVE  Sortable(evs)
<1>1. \A e \in evs : e.seq \in Nat /\ e.from \in Nat /\ e.from <= e.seq
  BY ChatBounds DEF Event, Chain, MaxSeq
<1>2. \A e, f \in evs : f.final => e.seq <= f.seq
  BY <1>1 DEF Chain
<1> QED BY <1>1, <1>2 DEF Sortable, Chain

(* The cursor behind a page. *)
LEMMA EndOfChain ==
  ASSUME NEW evs, evs \subseteq Event, NEW lo \in Nat, NEW hi \in Nat, NEW t,
         Chain(evs, lo, hi, t)
  PROVE  EndOf(evs, lo - 1) = hi /\ (evs = {} <=> hi = lo - 1)
<1>1. \A e \in evs : e.seq \in Nat /\ e.from \in Nat /\ lo <= e.from /\ e.from <= e.seq /\ e.seq <= hi
  BY ChatBounds DEF Event, Chain, MaxSeq
<1>2. CASE evs = {}
  <2>1. lo .. hi = {}
    BY <1>2 DEF Chain
  <2>2. hi = lo - 1
    BY <2>1 DEF Chain
  <2> QED BY <1>2, <2>2 DEF EndOf
<1>3. CASE evs # {}
  <2>1. PICK e \in evs : TRUE
    BY <1>3
  <2>2. hi \in lo .. hi
    BY <1>1, <2>1
  <2>3. PICK f \in evs : f.from <= hi /\ hi <= f.seq
    BY <2>2 DEF Chain
  <2>4. f.seq = hi
    BY <1>1, <2>3
  <2> DEFINE Q == {g.seq : g \in evs}
  <2>5. hi \in Q /\ \A g \in evs : g.seq <= hi
    BY <1>1, <2>4
  <2>6. \A i \in Q : (\A g \in evs : g.seq <= i) => i = hi
    <3> SUFFICES ASSUME NEW i \in Q, \A g \in evs : g.seq <= i PROVE i = hi
      OBVIOUS
    <3>1. PICK g \in evs : i = g.seq
      OBVIOUS
    <3> QED BY <1>1, <2>4, <3>1
  <2>7. EndOf(evs, lo - 1) = CHOOSE i \in Q : \A g \in evs : g.seq <= i
    BY <1>3 DEF EndOf
  <2> HIDE DEF Q
  <2>8. EndOf(evs, lo - 1) = hi
    BY <2>5, <2>6, <2>7
  <2> QED BY <1>1, <1>3, <2>1, <2>2, <2>8
<1> QED BY <1>2, <1>3

-----------------------------------------------------------------------------
(* A batch in the order of its seqs. *)

Sorted(evs, q) ==
  /\ q \in [1 .. Cardinality(evs) -> evs]
  /\ \A i, j \in 1 .. Cardinality(evs) : i < j => q[i].seq < q[j].seq

(* Every part of a page is finite. *)
LEMMA PageFinite ==
  ASSUME NEW evs, Sortable(evs)
  PROVE  \A A \in SUBSET evs : IsFiniteSet(A) /\ Cardinality(A) \in Nat
<1> DEFINE f == [e \in evs |-> e.seq]
<1>1. MaxSeq \in Nat
  BY ChatBounds DEF MaxSeq
<1>2. f \in [evs -> 1 .. MaxSeq]
  BY DEF Sortable, Event
<1>3. \A d, e \in evs : f[d] = f[e] => d = e
  BY DEF Sortable
<1> HIDE DEF f
<1>4. f \in Injection(evs, 1 .. MaxSeq)
  BY <1>2, <1>3 DEF Injection, IsInjective
<1>5. IsFiniteSet(1 .. MaxSeq)
  BY <1>1, FS_Interval
<1>6. IsFiniteSet(evs)
  BY <1>4, <1>5, FS_Injection
<1> QED BY <1>6, FS_Subset, FS_CardinalityType

(* It can be sorted: least counterexample, without its last event. *)
LEMMA SortedExists ==
  ASSUME NEW evs, Sortable(evs)
  PROVE  \E q : Sorted(evs, q)
<1> DEFINE Bad == {n \in Nat : \E A \in SUBSET evs : Cardinality(A) = n /\ ~\E q : Sorted(A, q)}
<1>0. MaxSeq \in Nat /\ \A e \in evs : e.seq \in Nat /\ e.seq <= MaxSeq
  BY ChatBounds DEF MaxSeq, Sortable, Event
<1>1. \A A \in SUBSET evs : IsFiniteSet(A) /\ Cardinality(A) \in Nat
  BY PageFinite
<1>2. CASE Bad = {}
  BY <1>1, <1>2
<1>3. CASE Bad # {}
  <2>1. PICK n \in Bad : \A k \in Bad : n <= k
    BY <1>3, LeastOf
  <2>2. PICK A \in SUBSET evs : Cardinality(A) = n /\ ~\E q : Sorted(A, q)
    BY <2>1
  <2>3. n \in Nat
    BY <2>1
  <2>4. A # {}
    <3> SUFFICES ASSUME A = {} PROVE FALSE
      OBVIOUS
    <3>1. Cardinality(A) = 0
      BY FS_EmptySet
    <3>2. Sorted(A, [i \in 1 .. 0 |-> 0])
      BY <3>1 DEF Sorted
    <3> QED BY <2>2, <3>2
  <2> DEFINE Q == {e.seq : e \in A}
  <2>5. Q \subseteq Nat /\ Q # {} /\ \A k \in Q : k <= MaxSeq
    BY <1>0, <2>4
  <2>6. PICK m \in Q : \A k \in Q : k <= m
    BY <1>0, <2>5, GreatestOf
  <2>7. PICK z \in A : z.seq = m
    BY <2>6
  <2> DEFINE B == A \ {z}
  <2>8. B \in SUBSET evs /\ Cardinality(B) = n - 1 /\ Cardinality(B) \in Nat
    BY <1>1, <2>2, <2>7, FS_RemoveElement
  <2>9. n - 1 \notin Bad
    BY <2>1, <2>8, <2>3
  <2>10. PICK q : Sorted(B, q)
    BY <2>8, <2>9
  <2>11. \A e \in B : e.seq < z.seq
    <3> SUFFICES ASSUME NEW e \in B PROVE e.seq < z.seq
      OBVIOUS
    <3>1. e.seq \in Q
      OBVIOUS
    <3>2. e.seq # z.seq
      BY DEF Sortable
    <3>3. e.seq <= m /\ e.seq \in Nat /\ z.seq \in Nat
      BY <1>0, <2>6, <2>7, <3>1
    <3> QED BY <2>7, <3>2, <3>3
  <2> DEFINE p == [i \in 1 .. n |-> IF i = n THEN z ELSE q[i]]
  <2>12. \A i \in 1 .. n : i # n => i \in 1 .. n - 1
    BY <2>3
  <2>13. p \in [1 .. n -> A]
    BY <2>7, <2>8, <2>10, <2>12 DEF Sorted
  <2>14. ASSUME NEW i \in 1 .. n, NEW j \in 1 .. n, i < j PROVE p[i].seq < p[j].seq
    <3>1. i \in 1 .. n - 1 /\ p[i] = q[i] /\ q[i] \in B
      <4>1. i \in 1 .. n - 1 /\ i # n
        BY <2>3, <2>14
      <4>2. q \in [1 .. n - 1 -> B]
        BY <2>8, <2>10 DEF Sorted
      <4> QED BY <4>1, <4>2
    <3>2. CASE j = n
      BY <2>11, <3>1, <3>2
    <3>3. CASE j # n
      <4>1. j \in 1 .. n - 1 /\ p[j] = q[j]
        BY <2>12, <3>3
      <4> QED BY <2>8, <2>10, <2>14, <3>1, <4>1 DEF Sorted
    <3> QED BY <3>2, <3>3
  <2> HIDE DEF p
  <2>15. Sorted(A, p)
    BY <2>2, <2>13, <2>14 DEF Sorted
  <2> QED BY <2>2, <2>15
<1> QED BY <1>2, <1>3

(* What InSeqOrder is: all of the page, each event once, in the order of seqs. *)
LEMMA OrderFacts ==
  ASSUME NEW evs, Sortable(evs), NEW q, q = InSeqOrder(evs)
  PROVE  /\ q \in Seq(Event) /\ Len(q) \in Nat
         /\ \A i \in 1 .. Len(q) : q[i] \in evs
         /\ \A i, j \in 1 .. Len(q) : i < j => q[i].seq < q[j].seq
         /\ \A e \in evs : \E i \in 1 .. Len(q) : q[i] = e
<1> DEFINE n == Cardinality(evs)
<1>1. n \in Nat /\ IsFiniteSet(evs)
  BY PageFinite
<1>2. Sorted(evs, q)
  <2>1. \E p \in [1 .. n -> evs] : \A i, j \in 1 .. n : i < j => p[i].seq < p[j].seq
    BY SortedExists DEF Sorted
  <2> QED BY <2>1 DEF InSeqOrder, Sorted
<1>3. q \in [1 .. n -> evs] /\ \A i, j \in 1 .. n : i < j => q[i].seq < q[j].seq
  BY <1>2 DEF Sorted
<1>4. \A i \in 1 .. n : q[i] \in evs /\ q[i] \in Event /\ q[i].seq \in Nat
  BY <1>3, ChatBounds DEF Sortable, Event, MaxSeq
<1> HIDE DEF n
<1>5. q \in Injection(1 .. n, evs)
  <2>1. ASSUME NEW i \in 1 .. n, NEW j \in 1 .. n, q[i] = q[j] PROVE i = j
    <3>1. ~(i < j) /\ ~(j < i)
      BY <1>3, <1>4, <2>1
    <3> QED BY <1>1, <3>1
  <2> QED BY <1>3, <2>1 DEF Injection, IsInjective
<1>6. Cardinality(1 .. n) = n
  BY <1>1, FS_Interval
<1>7. q \in Surjection(1 .. n, evs)
  BY <1>1, <1>5, <1>6, FS_Injection DEF n
<1>8. q \in Seq(Event) /\ Len(q) = n
  BY <1>1, <1>3, <1>4
<1> QED BY <1>1, <1>3, <1>4, <1>7, <1>8 DEF Surjection

-----------------------------------------------------------------------------
(* release, one held push after the other. *)
Above(push, covered) == [push EXCEPT !.evs = {e \in @ : e.seq > covered}]
Opened(c) == [c EXCEPT !.held = <<>>, !.phase = IF @ = "closed" THEN @ ELSE "live"]
Released(c, tr) ==
  /\ tr[0] = Opened(c)
  /\ \A i \in 1 .. Len(c.held) : tr[i] = Deliver(tr[i - 1], Above(c.held[i], HighWater(c)))

(* The held pushes one after the other, as a sequence of sessions. *)
LEMMA ReleaseSteps ==
  ASSUME NEW c, Len(c.held) \in Nat
  PROVE  \E tr : Released(c, tr) /\ Release(c) = tr[Len(c.held)]
<1> DEFINE N == Len(c.held)
           D(x, i) == Deliver(x, Above(c.held[i], HighWater(c)))
           Fits(n, f) == f = [i \in 0 .. n |-> IF i = 0 THEN Opened(c) ELSE D(f[i - 1], i)]
           T == {n \in 0 .. N : \E f : Fits(n, f)}
<1>1. 0 \in T
  <2>1. Fits(0, [i \in 0 .. 0 |-> Opened(c)])
    OBVIOUS
  <2>2. 0 \in 0 .. N
    OBVIOUS
  <2> HIDE DEF Fits
  <2> QED BY <2>1, <2>2
<1> HIDE DEF D
<1>2. ASSUME NEW n \in 1 .. N, n - 1 \in T PROVE n \in T
  <2>1. PICK f : Fits(n - 1, f)
    BY <1>2
  <2> DEFINE g == [i \in 0 .. n |-> IF i = n THEN D(f[n - 1], n) ELSE f[i]]
  <2>2. ASSUME NEW i \in 0 .. n PROVE g[i] = IF i = 0 THEN Opened(c) ELSE D(g[i - 1], i)
    <3>1. CASE i = n
      <4>1. n - 1 \in 0 .. n /\ n - 1 # n /\ n # 0
        OBVIOUS
      <4>2. g[n - 1] = f[n - 1] /\ g[n] = D(f[n - 1], n)
        BY <4>1
      <4> QED BY <3>1, <4>1, <4>2
    <3>2. CASE i # n
      <4>1. i \in 0 .. n - 1 /\ g[i] = f[i]
        BY <3>2
      <4>2. f[i] = IF i = 0 THEN Opened(c) ELSE D(f[i - 1], i)
        BY <2>1, <4>1
      <4>3. i # 0 => i - 1 \in 0 .. n /\ i - 1 # n
        BY <4>1
      <4> QED BY <4>1, <4>2, <4>3
    <3> QED BY <3>1, <3>2
  <2>3. Fits(n, g)
    BY <2>2
  <2>4. n \in 0 .. N
    OBVIOUS
  <2> HIDE DEF Fits, g
  <2> QED BY <2>3, <2>4
<1>3. N \in T
  <2> HIDE DEF T
  <2>1. \A i \in 0 .. N : i \in T
    BY <1>1, <1>2, Climb
  <2> QED BY <2>1
<1> DEFINE tr == CHOOSE f : Fits(N, f)
<1>4. Fits(N, tr)
  BY <1>3
<1>5. Release(c) = tr[N]
  BY DEF Release, D, Above, Opened
<1> HIDE DEF tr
<1>6. Released(c, tr)
  <2>1. tr[0] = Opened(c)
    BY <1>4
  <2>2. \A i \in 1 .. N : i \in 0 .. N /\ i # 0
    OBVIOUS
  <2>3. \A i \in 1 .. N : tr[i] = D(tr[i - 1], i)
    BY <1>4, <2>2
  <2> QED BY <2>1, <2>3 DEF Released, D
<1> QED BY <1>5, <1>6

-----------------------------------------------------------------------------
(* deliver. *)

(* A sequence behind another. *)
LEMMA BehindFacts ==
  ASSUME NEW S, NEW x \in Seq(S), NEW y \in Seq(S)
  PROVE  /\ x \o y \in Seq(S) /\ Len(x) \in Nat /\ Len(y) \in Nat
         /\ Len(x \o y) = Len(x) + Len(y)
         /\ \A i \in 1 .. Len(x) : (x \o y)[i] = x[i]
         /\ \A i \in 1 .. Len(y) : (x \o y)[Len(x) + i] = y[i]
         /\ \A i \in 1 .. Len(x) + Len(y) : i \in 1 .. Len(x) \/ i - Len(x) \in 1 .. Len(y)
OBVIOUS

(* An event's numbers. *)
LEMMA EventNumbers ==
  ASSUME NEW e \in Event
  PROVE  e.seq \in Nat /\ e.from \in Nat /\ 1 <= e.seq /\ 1 <= e.from /\ e.final \in BOOLEAN
BY ChatBounds DEF Event, MaxSeq

(* A session that closes. *)
LEMMA ClosedFacts ==
  ASSUME NEW c \in Session, NEW why \in {"final", "error", "abort"}, NEW x, x = Closed(c, why)
  PROVE  /\ x \in Session /\ x.id = c.id /\ x.phase = "closed" /\ x.screen = c.screen
         /\ x.heard = c.heard /\ x.end = why /\ x.held = <<>> /\ x.opened = c.opened
<1>1. <<>> \in Seq(Push)
  OBVIOUS
<1>2. PICK h \in Seq(Push) : h = <<>>
  BY <1>1
<1>3. x = [c EXCEPT !.phase = "closed", !.held = h, !.end = why]
  BY <1>2 DEF Closed
<1>4. /\ x \in Session /\ x.id = c.id /\ x.phase = "closed" /\ x.screen = c.screen
      /\ x.heard = c.heard /\ x.end = why /\ x.held = h /\ x.opened = c.opened
  BY <1>3 DEF Session
<1> QED BY <1>2, <1>4

(* What deliver shows of a push. *)
Fresh(c, push) == {e \in push.evs : \A i \in 1 .. Len(c.screen) : c.screen[i].seq # e.seq}
Shown(c, push) == {e \in Fresh(c, push) : \A f \in Fresh(c, push) : f.final => e.seq <= f.seq}

(* What deliver makes of a session that is not closed. *)
Takes(c, push, d) ==
  /\ d.screen = c.screen \o InSeqOrder(Shown(c, push))
  /\ d.heard = c.heard \cup {push.gen}
  /\ d.phase = IF HasFinal(Shown(c, push)) \/ (push.st # "active" /\ push.evs = {})
               THEN "closed" ELSE c.phase
  /\ d.end = IF HasFinal(Shown(c, push)) THEN "final"
             ELSE IF push.st # "active" /\ push.evs = {} THEN "error" ELSE c.end
  /\ d.held = IF d.phase = "closed" THEN <<>> ELSE c.held

(* deliver, for a session that is open and for one that is closed. *)
LEMMA DeliverFacts ==
  ASSUME NEW c \in Session, NEW push \in Push, Sortable(push.evs), NEW d, d = Deliver(c, push)
  PROVE  /\ d \in Session /\ d.id = c.id /\ d.opened = c.opened
         /\ c.phase = "closed" => d = c
         /\ c.phase # "closed" => Takes(c, push, d)
<1> DEFINE shown == Shown(c, push)
           q == InSeqOrder(shown)
           c2 == [c EXCEPT !.screen = @ \o q, !.heard = @ \cup {push.gen}]
<1>1. Sortable(shown)
  BY DEF Sortable, Shown, Fresh
<1>2. q \in Seq(Event)
  BY <1>1, OrderFacts
<1>3. c.screen \in Seq(Event) /\ c.heard \subseteq Sessions /\ push.gen \in Sessions
  BY DEF Session, Push
<1>4. c.screen \o q \in Seq(Event) /\ c.heard \cup {push.gen} \subseteq Sessions
  BY <1>2, <1>3
<1>5. d = CASE c.phase = "closed" -> c
            [] c.phase # "closed" /\ HasFinal(shown) -> Closed(c2, "final")
            [] OTHER -> IF push.st # "active" /\ push.evs = {} THEN Closed(c2, "error") ELSE c2
  BY DEF Deliver, Shown, Fresh, HasFinal
<1> HIDE DEF q, shown
<1>6. /\ c2 \in Session /\ c2.id = c.id /\ c2.phase = c.phase /\ c2.screen = c.screen \o q
      /\ c2.heard = c.heard \cup {push.gen} /\ c2.end = c.end /\ c2.held = c.held
      /\ c2.opened = c.opened
  BY <1>4 DEF Session
<1> HIDE DEF c2
<1>7. ASSUME NEW w \in {"final", "error"}, NEW x, x = Closed(c2, w)
      PROVE  /\ x \in Session /\ x.id = c.id /\ x.phase = "closed" /\ x.screen = c.screen \o q
             /\ x.heard = c.heard \cup {push.gen} /\ x.end = w /\ x.held = <<>>
             /\ x.opened = c.opened
  BY <1>6, <1>7, ClosedFacts
<1>8. CASE c.phase = "closed"
  BY <1>5, <1>8
<1>9. CASE c.phase # "closed" /\ HasFinal(shown)
  <2>1. d = Closed(c2, "final")
    BY <1>5, <1>9
  <2> QED BY <1>7, <1>9, <2>1 DEF q, shown, Takes
<1>10. CASE c.phase # "closed" /\ ~HasFinal(shown)
  <2>1. d = IF push.st # "active" /\ push.evs = {} THEN Closed(c2, "error") ELSE c2
    BY <1>5, <1>10
  <2>2. CASE push.st # "active" /\ push.evs = {}
    <3>1. d = Closed(c2, "error")
      BY <2>1, <2>2
    <3> QED BY <1>7, <1>10, <2>2, <3>1 DEF q, shown, Takes
  <2>3. CASE ~(push.st # "active" /\ push.evs = {})
    <3>1. d = c2
      BY <2>1, <2>3
    <3> QED BY <1>6, <1>10, <2>3, <3>1 DEF q, shown, Takes
  <2> QED BY <2>2, <2>3
<1> QED BY <1>8, <1>9, <1>10

(* A screen that shows the frames 1 .. n of turn t, each of them once and in order. *)
Exact(screen, n, t) ==
  /\ \A i \in 1 .. Len(screen) :
       /\ screen[i].turn = t /\ screen[i].from <= screen[i].seq /\ screen[i].seq <= n
       /\ screen[i].from = IF i = 1 THEN 1 ELSE screen[i - 1].seq + 1
  /\ \A i, j \in 1 .. Len(screen) : i < j => screen[i].seq < screen[j].from
  /\ IF screen = <<>> THEN n = 0 ELSE screen[Len(screen)].seq = n

(* highWater of such a screen. *)
LEMMA HighWaterExact ==
  ASSUME NEW c, c.screen \in Seq(Event), NEW n \in Nat, NEW t, Exact(c.screen, n, t)
  PROVE  HighWater(c) = n
<1> DEFINE x == c.screen
           S == ToSet(x)
           Q == {e.seq : e \in S}
<1>1. x \in Seq(Event) /\ Len(x) \in Nat /\ S = {x[i] : i \in 1 .. Len(x)}
  BY DEF ToSet
<1>2. CASE x = <<>>
  <2>1. S = {}
    BY <1>1, <1>2
  <2> QED BY <1>2, <2>1 DEF HighWater, EndOf, Exact
<1>3. CASE x # <<>>
  <2>1. Len(x) \in 1 .. Len(x) /\ x[Len(x)].seq = n
    BY <1>1, <1>3 DEF Exact
  <2>2. n \in Q /\ S # {}
    BY <1>1, <2>1
  <2>3. \A e \in S : e.seq <= n
    BY <1>1 DEF Exact
  <2>4. \A e \in S : e.seq \in Nat
    BY <1>1, EventNumbers
  <2>5. \A i \in Q : (\A e \in S : e.seq <= i) => i = n
    <3> SUFFICES ASSUME NEW i \in Q, \A e \in S : e.seq <= i PROVE i = n
      OBVIOUS
    <3>1. i \in Nat /\ i <= n
      BY <2>3, <2>4
    <3>2. n <= i
      BY <1>1, <2>1
    <3> QED BY <3>1, <3>2
  <2>6. HighWater(c) = CHOOSE i \in Q : \A e \in S : e.seq <= i
    BY <2>2 DEF HighWater, EndOf
  <2> HIDE DEF Q, S
  <2> QED BY <2>2, <2>3, <2>5, <2>6
<1> QED BY <1>2, <1>3

(* A chain in order: each event begins where the one before it ends. *)
Abuts(q, evs, n, m, t) ==
  /\ q \in Seq(Event) /\ Len(q) \in Nat
  /\ \A i \in 1 .. Len(q) :
       /\ q[i] \in evs /\ q[i].turn = t /\ q[i].from <= q[i].seq /\ q[i].seq <= m
       /\ q[i].from = IF i = 1 THEN n + 1 ELSE q[i - 1].seq + 1
  /\ \A i, j \in 1 .. Len(q) : i < j => q[i].seq < q[j].from
  /\ \A i \in 1 .. Len(q) : n < q[i].from
  /\ IF q = <<>> THEN m = n ELSE q[Len(q)].seq = m

(* InSeqOrder puts it in that order. *)
LEMMA ChainOrder ==
  ASSUME NEW evs, evs \subseteq Event, NEW n \in Nat, NEW m \in Nat, NEW t,
         Chain(evs, n + 1, m, t), NEW q, q = InSeqOrder(evs)
  PROVE  Abuts(q, evs, n, m, t)
<1>1. Sortable(evs)
  BY ChainSorts
<1>2. /\ q \in Seq(Event) /\ Len(q) \in Nat
      /\ \A i \in 1 .. Len(q) : q[i] \in evs
      /\ \A i, j \in 1 .. Len(q) : i < j => q[i].seq < q[j].seq
      /\ \A e \in evs : \E i \in 1 .. Len(q) : q[i] = e
  BY <1>1, OrderFacts
<1>3. \A e \in evs : /\ e.seq \in Nat /\ e.from \in Nat /\ e.turn = t /\ n + 1 <= e.from
                     /\ e.from <= e.seq /\ e.seq <= m
  BY EventNumbers DEF Chain
<1>4. ASSUME NEW i \in 1 .. Len(q), NEW j \in 1 .. Len(q), i < j PROVE q[i].seq < q[j].from
  <2>1. q[i] \in evs /\ q[j] \in evs /\ q[i].seq < q[j].seq
    BY <1>2, <1>4
  <2>2. q[i] # q[j]
    BY <1>3, <2>1
  <2>3. q[i].seq < q[j].from \/ q[j].seq < q[i].from
    BY <2>1, <2>2 DEF Chain
  <2> QED BY <1>3, <2>1, <2>3
<1>5. ASSUME NEW j \in 1 .. Len(q)
      PROVE  q[j].from = IF j = 1 THEN n + 1 ELSE q[j - 1].seq + 1
  <2> DEFINE prev == IF j = 1 THEN n ELSE q[j - 1].seq
  <2>1. j # 1 => j - 1 \in 1 .. Len(q) /\ j - 1 < j
    BY <1>2
  <2>2. prev \in Nat /\ prev < q[j].from /\ n <= prev /\ q[j].from \in Nat /\ q[j].from <= q[j].seq
        /\ q[j].seq <= m /\ q[j].seq \in Nat /\ q[j] \in evs
    <3>1. q[j] \in evs /\ q[j].from \in Nat /\ q[j].from <= q[j].seq /\ q[j].seq <= m
          /\ q[j].seq \in Nat /\ n + 1 <= q[j].from
      BY <1>2, <1>3
    <3>2. CASE j = 1
      BY <3>1, <3>2
    <3>3. CASE j # 1
      <4>1. q[j - 1].seq < q[j].from
        BY <1>4, <2>1, <3>3
      <4>2. q[j - 1] \in evs
        BY <1>2, <2>1, <3>3
      <4>3. q[j - 1].seq \in Nat /\ n <= q[j - 1].seq
        BY <1>3, <4>2
      <4> QED BY <3>1, <3>3, <4>1, <4>3
    <3> QED BY <3>2, <3>3
  <2>3. \A l \in 1 .. Len(q) : prev < q[l].seq => j <= l
    <3> SUFFICES ASSUME NEW l \in 1 .. Len(q), l < j PROVE ~(prev < q[l].seq)
      BY <1>2
    <3>1. j # 1 /\ prev = q[j - 1].seq /\ (l = j - 1 \/ l < j - 1)
      BY <1>2
    <3>2. q[l] \in evs /\ q[j - 1] \in evs
      BY <1>2, <2>1, <3>1
    <3>3. l < j - 1 => q[l].seq < q[j - 1].seq
      BY <1>2, <2>1, <3>1
    <3> QED BY <1>3, <3>1, <3>2, <3>3
  <2> HIDE DEF prev
  <2>4. ~(prev + 1 < q[j].from)
    <3> SUFFICES ASSUME prev + 1 < q[j].from PROVE FALSE
      OBVIOUS
    <3>1. prev + 1 \in (n + 1) .. m
      BY <2>2
    <3>2. PICK e \in evs : e.from <= prev + 1 /\ prev + 1 <= e.seq
      BY <3>1 DEF Chain
    <3>3. PICK l \in 1 .. Len(q) : q[l] = e
      BY <1>2
    <3>4. e.seq \in Nat /\ e.from \in Nat /\ e.from <= e.seq
      BY <1>3
    <3>5. prev < q[l].seq
      BY <2>2, <3>2, <3>3, <3>4
    <3>6. j <= l
      BY <2>3, <3>5
    <3>7. l # j
      BY <2>2, <3>2, <3>3, <3>4
    <3>8. q[j].seq < q[l].from
      BY <1>2, <1>4, <3>6, <3>7
    <3> QED BY <2>2, <3>2, <3>3, <3>4, <3>8
  <2>5. q[j].from = prev + 1
    BY <2>2, <2>4
  <2> QED BY <2>5 DEF prev
<1>6. IF q = <<>> THEN m = n ELSE q[Len(q)].seq = m
  <2>1. CASE q = <<>>
    <3>1. evs = {}
      BY <1>2, <2>1
    <3> QED BY <2>1, <3>1, EndOfChain
  <2>2. CASE q # <<>>
    <3>1. Len(q) \in 1 .. Len(q)
      BY <1>2, <2>2
    <3>2. q[Len(q)] \in evs
      BY <1>2, <3>1
    <3>3. m \in (n + 1) .. m
      BY <1>3, <3>2
    <3>4. PICK e \in evs : e.from <= m /\ m <= e.seq
      BY <3>3 DEF Chain
    <3>5. PICK l \in 1 .. Len(q) : q[l] = e
      BY <1>2
    <3>6. l = Len(q) \/ q[l].seq < q[Len(q)].seq
      BY <1>2, <3>1
    <3> QED BY <1>3, <2>2, <3>2, <3>4, <3>5, <3>6
  <2> QED BY <2>1, <2>2
<1>7. \A i \in 1 .. Len(q) : n < q[i].from /\ q[i].turn = t /\ q[i].from <= q[i].seq /\ q[i].seq <= m
  BY <1>2, <1>3
<1> QED BY <1>2, <1>4, <1>5, <1>6, <1>7 DEF Abuts

(* Behind an exact screen. *)
LEMMA ExactGrows ==
  ASSUME NEW x \in Seq(Event), NEW evs, evs \subseteq Event, NEW n \in Nat, NEW m \in Nat, NEW t,
         Exact(x, n, t), Chain(evs, n + 1, m, t)
  PROVE  Exact(x \o InSeqOrder(evs), m, t)
<1>0. PICK q : q = InSeqOrder(evs)
  OBVIOUS
<1> DEFINE y == x \o q
<1>1. /\ q \in Seq(Event) /\ Len(q) \in Nat
      /\ \A i \in 1 .. Len(q) :
           /\ q[i] \in evs /\ q[i].turn = t /\ q[i].from <= q[i].seq /\ q[i].seq <= m
           /\ q[i].from = IF i = 1 THEN n + 1 ELSE q[i - 1].seq + 1
      /\ \A i, j \in 1 .. Len(q) : i < j => q[i].seq < q[j].from
      /\ \A i \in 1 .. Len(q) : n < q[i].from
      /\ IF q = <<>> THEN m = n ELSE q[Len(q)].seq = m
  <2>1. Abuts(q, evs, n, m, t)
    BY <1>0, ChainOrder
  <2> QED BY <2>1 DEF Abuts
<1>2. /\ y \in Seq(Event) /\ Len(x) \in Nat /\ Len(y) = Len(x) + Len(q)
      /\ \A i \in 1 .. Len(x) : y[i] = x[i]
      /\ \A i \in 1 .. Len(q) : y[Len(x) + i] = q[i]
      /\ \A i \in 1 .. Len(y) : i \in 1 .. Len(x) \/ i - Len(x) \in 1 .. Len(q)
  BY <1>1, BehindFacts
<1> HIDE DEF y
<1>3. n <= m
  BY DEF Chain
<1>4. \A i \in 1 .. Len(x) : x[i].seq \in Nat /\ x[i].from \in Nat
  BY EventNumbers
<1>5. \A i \in 1 .. Len(q) : q[i].seq \in Nat /\ q[i].from \in Nat
  BY <1>1, EventNumbers
<1>6. \A i \in 1 .. Len(y) : i \notin 1 .. Len(x) =>
         i - Len(x) \in 1 .. Len(q) /\ y[i] = q[i - Len(x)]
  <2> SUFFICES ASSUME NEW i \in 1 .. Len(y), i \notin 1 .. Len(x)
               PROVE  i - Len(x) \in 1 .. Len(q) /\ y[i] = q[i - Len(x)]
    OBVIOUS
  <2>1. i - Len(x) \in 1 .. Len(q) /\ Len(x) + (i - Len(x)) = i
    BY <1>2
  <2> QED BY <1>2, <2>1
<1>7. ASSUME NEW i \in 1 .. Len(y)
      PROVE  /\ y[i].turn = t /\ y[i].from <= y[i].seq /\ y[i].seq <= m
             /\ y[i].from = IF i = 1 THEN 1 ELSE y[i - 1].seq + 1
  <2>1. CASE i \in 1 .. Len(x)
    <3>1. i # 1 => i - 1 \in 1 .. Len(x)
      BY <1>2, <2>1
    <3>2. y[i] = x[i] /\ (i # 1 => y[i - 1] = x[i - 1])
      BY <1>2, <2>1, <3>1
    <3>3. x[i].turn = t /\ x[i].from <= x[i].seq /\ x[i].seq <= n
          /\ x[i].from = IF i = 1 THEN 1 ELSE x[i - 1].seq + 1
      BY <2>1 DEF Exact
    <3>4. x[i].seq <= m
      BY <1>3, <1>4, <2>1, <3>3
    <3> QED BY <3>2, <3>3, <3>4
  <2>2. CASE i \notin 1 .. Len(x)
    <3>1. i - Len(x) \in 1 .. Len(q) /\ y[i] = q[i - Len(x)]
      BY <1>6, <2>2
    <3>2. CASE i - Len(x) = 1
      <4>1. y[i].from = n + 1
        BY <1>1, <3>1, <3>2
      <4>2. CASE x = <<>>
        <5>1. i = 1 /\ n = 0
          BY <1>2, <3>2, <4>2 DEF Exact
        <5> QED BY <1>1, <3>1, <4>1, <5>1
      <4>3. CASE x # <<>>
        <5>1. Len(x) \in 1 .. Len(x) /\ i # 1 /\ i - 1 = Len(x)
          BY <1>2, <3>2, <4>3
        <5>2. y[i - 1].seq = n
          BY <1>2, <4>3, <5>1 DEF Exact
        <5> QED BY <1>1, <3>1, <4>1, <5>1, <5>2
      <4> QED BY <4>2, <4>3
    <3>3. CASE i - Len(x) # 1
      <4>1. i # 1 /\ (i - 1) - Len(x) \in 1 .. Len(q) /\ i - 1 \in 1 .. Len(y) /\ i - 1 \notin 1 .. Len(x)
            /\ (i - 1) - Len(x) = (i - Len(x)) - 1
        <5>1. Len(q) \in Nat /\ Len(x) \in Nat /\ i \in Nat /\ Len(y) = Len(x) + Len(q)
          BY <1>1, <1>2
        <5> QED BY <3>1, <3>3, <5>1
      <4>2. y[i - 1] = q[(i - Len(x)) - 1]
        BY <1>6, <4>1
      <4> QED BY <1>1, <3>1, <3>3, <4>1, <4>2
    <3> QED BY <3>2, <3>3
  <2> QED BY <2>1, <2>2
<1>8. ASSUME NEW i \in 1 .. Len(y), NEW j \in 1 .. Len(y), i < j PROVE y[i].seq < y[j].from
  <2>1. CASE j \in 1 .. Len(x)
    <3>1. i \in 1 .. Len(x)
      BY <1>2, <1>8, <2>1
    <3> QED BY <1>2, <1>8, <2>1, <3>1 DEF Exact
  <2>2. CASE j \notin 1 .. Len(x) /\ i \in 1 .. Len(x)
    <3>1. y[i] = x[i] /\ x[i].seq <= n
      BY <1>2, <2>2 DEF Exact
    <3>2. j - Len(x) \in 1 .. Len(q) /\ y[j] = q[j - Len(x)]
      BY <1>6, <2>2
    <3>3. n < q[j - Len(x)].from /\ q[j - Len(x)].from \in Nat /\ x[i].seq \in Nat
      BY <1>1, <1>4, <1>5, <2>2, <3>2
    <3>4. x[i].seq < q[j - Len(x)].from
      BY <3>1, <3>3
    <3> QED BY <3>1, <3>2, <3>4
  <2>3. CASE j \notin 1 .. Len(x) /\ i \notin 1 .. Len(x)
    <3>1. j - Len(x) \in 1 .. Len(q) /\ y[j] = q[j - Len(x)]
      BY <1>6, <2>3
    <3>2. i - Len(x) \in 1 .. Len(q) /\ y[i] = q[i - Len(x)]
      BY <1>6, <2>3
    <3>3. i - Len(x) < j - Len(x)
      BY <1>2, <1>8
    <3> QED BY <1>1, <3>1, <3>2, <3>3
  <2> QED BY <2>1, <2>2, <2>3
<1>9. IF y = <<>> THEN m = 0 ELSE y[Len(y)].seq = m
  <2>1. CASE q = <<>>
    <3>1. y = x
      BY <2>1 DEF y
    <3> QED BY <1>1, <2>1, <3>1 DEF Exact
  <2>2. CASE q # <<>>
    <3>1. Len(q) \in 1 .. Len(q) /\ Len(y) = Len(x) + Len(q) /\ y # <<>>
      BY <1>1, <1>2, <2>2
    <3>2. y[Len(y)] = q[Len(q)]
      BY <1>2, <3>1
    <3> QED BY <1>1, <2>2, <3>1, <3>2
  <2> QED BY <2>1, <2>2
<1>10. Exact(y, m, t)
  BY <1>7, <1>8, <1>9 DEF Exact
<1> QED BY <1>0, <1>10 DEF y

(* A push that goes on where an exact screen ends is shown whole. *)
LEMMA ShownWhole ==
  ASSUME NEW c, c.screen \in Seq(Event), NEW push, push.evs \subseteq Event,
         NEW n \in Nat, NEW m \in Nat, NEW t,
         Exact(c.screen, n, t), Chain(push.evs, n + 1, m, t)
  PROVE  Shown(c, push) = push.evs
<1>1. \A e \in push.evs : e.seq \in Nat /\ e.from \in Nat /\ n + 1 <= e.from /\ e.from <= e.seq
                          /\ e.seq <= m /\ (e.final => e.seq = m)
  BY EventNumbers DEF Chain
<1>2. \A i \in 1 .. Len(c.screen) : c.screen[i].seq \in Nat /\ c.screen[i].seq <= n
  BY EventNumbers DEF Exact
<1>3. Fresh(c, push) = push.evs
  BY <1>1, <1>2 DEF Fresh
<1> QED BY <1>1, <1>3 DEF Shown

-----------------------------------------------------------------------------
(* The held pushes. *)

(* Something went wrong that a stream may report. *)
Trouble == crashes > 0 \/ faults > 0 \/ unsaved

(* The pushes of poller g in a line go on where the one before ends: cut[i] is *)
(* how far the first i of the line reach.                                      *)
Strung(line, cut, g, t) ==
  /\ cut \in [0 .. Len(line) -> Nat]
  /\ \A i \in 1 .. Len(line) :
       IF line[i].gen = g THEN Chain(line[i].evs, cut[i - 1] + 1, cut[i], t)
       ELSE cut[i] = cut[i - 1]

(* Among the first i of a line, poller g pushes a final frame. *)
FinalIn(line, i, g) == \E k \in 1 .. i : line[k].gen = g /\ HasFinal(line[k].evs)

(* An empty verdict in the line comes after the final frame, or from trouble. *)
Verdicts(line, g, ended) ==
  \A i \in 1 .. Len(line) :
    line[i].gen = g /\ line[i].st # "active" /\ line[i].evs = {} =>
      Trouble \/ ended \/ FinalIn(line, i, g)

(* A line of pushes only goes forward. *)
LEMMA StrungGrows ==
  ASSUME NEW line, Len(line) \in Nat, NEW cut, NEW g, NEW t, Strung(line, cut, g, t)
  PROVE  \A i \in 0 .. Len(line) : cut[i] \in Nat /\ cut[0] <= cut[i]
<1> DEFINE T == {i \in 0 .. Len(line) : cut[0] <= cut[i]}
<1>1. \A i \in 0 .. Len(line) : cut[i] \in Nat
  BY DEF Strung
<1>2. 0 \in T
  BY <1>1
<1>3. ASSUME NEW i \in 1 .. Len(line), i - 1 \in T PROVE i \in T
  <2>1. cut[i] \in Nat /\ cut[i - 1] \in Nat /\ cut[0] \in Nat /\ i \in 0 .. Len(line)
    BY <1>1
  <2>2. cut[i - 1] + 1 <= cut[i] + 1 \/ cut[i] = cut[i - 1]
    <3>1. IF line[i].gen = g THEN Chain(line[i].evs, cut[i - 1] + 1, cut[i], t)
          ELSE cut[i] = cut[i - 1]
      BY DEF Strung
    <3>2. Chain(line[i].evs, cut[i - 1] + 1, cut[i], t) => cut[i - 1] + 1 <= cut[i] + 1
      BY DEF Chain
    <3> QED BY <3>1, <3>2
  <2> QED BY <1>3, <2>1, <2>2
<1> HIDE DEF T
<1>4. \A i \in 0 .. Len(line) : i \in T
  BY <1>2, <1>3, Climb
<1> QED BY <1>1, <1>4 DEF T

(* A held push without what the page covers. *)
LEMMA AboveFacts ==
  ASSUME NEW push \in Push, Sortable(push.evs), NEW k \in Nat, NEW p, p = Above(push, k)
  PROVE  /\ p \in Push /\ p.gen = push.gen /\ p.st = push.st /\ Sortable(p.evs)
         /\ p.evs = {e \in push.evs : e.seq > k}
<1>1. PICK x : x = {e \in push.evs : e.seq > k}
  OBVIOUS
<1>2. p = [push EXCEPT !.evs = x]
  BY <1>1 DEF Above
<1>3. x \subseteq push.evs /\ push.evs \subseteq Event
  BY <1>1 DEF Push
<1>4. p \in Push /\ p.gen = push.gen /\ p.st = push.st /\ p.evs = x
  BY <1>2, <1>3 DEF Push
<1> QED BY <1>1, <1>3, <1>4 DEF Sortable

(* A screen's high water is a number. *)
LEMMA HighWaterNat ==
  ASSUME NEW c, c.screen \in Seq(Event)
  PROVE  HighWater(c) \in Nat
<1> DEFINE S == ToSet(c.screen)
           Q == {e.seq : e \in S}
<1>1. S \subseteq Event
  BY DEF ToSet
<1>2. CASE S = {}
  BY <1>2 DEF HighWater, EndOf
<1>3. CASE S # {}
  <2>1. Q \subseteq Nat /\ Q # {} /\ MaxSeq \in Nat /\ \A k \in Q : k <= MaxSeq
    BY <1>1, <1>3, ChatBounds DEF Event, MaxSeq
  <2>2. PICK m \in Q : \A k \in Q : k <= m
    BY <2>1, GreatestOf
  <2>3. m \in Q /\ \A e \in S : e.seq <= m
    BY <2>2
  <2>4. HighWater(c) = CHOOSE i \in Q : \A e \in S : e.seq <= i
    BY <1>3 DEF HighWater, EndOf
  <2> HIDE DEF Q, S
  <2>5. HighWater(c) \in Q
    BY <2>3, <2>4
  <2> QED BY <2>1, <2>5
<1> QED BY <1>2, <1>3

(* What is held, sorted or not, leaves a session. *)
Loose(c, x) ==
  /\ x \in Session /\ x.id = c.id /\ x.held = <<>> /\ x.opened = c.opened
  /\ x.phase \in {"live", "closed"}
  /\ x.phase = "live" => x.end = "none"
  /\ x.phase = "closed" => x.end \in {"final", "error"}

(* Induction over the held pushes: types and phase. *)
LEMMA ReleaseLoose ==
  ASSUME NEW c \in Session, c.phase # "closed", c.end = "none",
         \A i \in 1 .. Len(c.held) : Sortable(c.held[i].evs),
         NEW tr, Released(c, tr)
  PROVE  \A i \in 0 .. Len(c.held) : Loose(c, tr[i])
<1> DEFINE N == Len(c.held)
           T == {i \in 0 .. N : Loose(c, tr[i])}
<1>0. c.held \in Seq(Push) /\ N \in Nat /\ c.screen \in Seq(Event)
  BY DEF Session
<1>1. 0 \in T
  <2>0. <<>> \in Seq(Push)
    OBVIOUS
  <2>1. PICK h \in Seq(Push) : h = <<>>
    BY <2>0
  <2>2. tr[0] = [c EXCEPT !.held = h, !.phase = "live"]
    BY <2>1 DEF Released, Opened
  <2>3. /\ tr[0] \in Session /\ tr[0].id = c.id /\ tr[0].held = h /\ tr[0].opened = c.opened
        /\ tr[0].phase = "live" /\ tr[0].end = "none"
    BY <2>2 DEF Session
  <2>4. 0 \in 0 .. N
    BY <1>0
  <2> QED BY <2>1, <2>3, <2>4 DEF Loose
<1>2. ASSUME NEW i \in 1 .. N, i - 1 \in T PROVE i \in T
  <2> DEFINE p == Above(c.held[i], HighWater(c))
  <2>1. tr[i] = Deliver(tr[i - 1], p)
    BY DEF Released
  <2>2. p \in Push /\ Sortable(p.evs)
    BY <1>0, HighWaterNat, AboveFacts
  <2>3. Loose(c, tr[i - 1]) /\ tr[i - 1] \in Session /\ i \in 0 .. N
    BY <1>0, <1>2 DEF Loose
  <2> HIDE DEF p
  <2>4. CASE tr[i - 1].phase = "closed"
    BY <2>1, <2>2, <2>3, <2>4, DeliverFacts
  <2>5. CASE tr[i - 1].phase # "closed"
    <3>1. tr[i - 1].phase = "live" /\ tr[i - 1].end = "none" /\ tr[i - 1].held = <<>> /\ tr[i - 1].id = c.id
          /\ tr[i - 1].opened = c.opened
      BY <2>3, <2>5 DEF Loose
    <3>2. /\ tr[i] \in Session /\ tr[i].id = c.id /\ tr[i].held = <<>> /\ tr[i].opened = c.opened
          /\ tr[i].phase = IF HasFinal(Shown(tr[i - 1], p)) \/ (p.st # "active" /\ p.evs = {})
                           THEN "closed" ELSE "live"
          /\ tr[i].end = IF HasFinal(Shown(tr[i - 1], p)) THEN "final"
                         ELSE IF p.st # "active" /\ p.evs = {} THEN "error" ELSE "none"
      <4>1. /\ Takes(tr[i - 1], p, tr[i]) /\ tr[i] \in Session /\ tr[i].id = tr[i - 1].id
            /\ tr[i].opened = tr[i - 1].opened
        BY <2>1, <2>2, <2>3, <2>5, DeliverFacts
      <4> QED BY <3>1, <4>1 DEF Takes
    <3>3. Loose(c, tr[i])
      BY <3>2 DEF Loose
    <3> QED BY <2>3, <3>3
  <2> QED BY <2>4, <2>5
<1> HIDE DEF T
<1>3. \A i \in 0 .. N : i \in T
  BY <1>0, <1>1, <1>2, Climb
<1> QED BY <1>3 DEF T

(* What is held by a session that hears only its own poller goes on the screen *)
(* behind what is there, and an error has a reason.                            *)
Tidy(c, x, cut, i, t) ==
  x.heard \subseteq {c.id} =>
    /\ \E n \in Nat : Exact(x.screen, n, t)
    /\ x.phase = "live" => Exact(x.screen, cut[i], t) /\ ~FinalIn(c.held, i, c.id)
    /\ x.end = "error" => Trouble

(* Induction over the held pushes: the screen stays exact. *)
LEMMA ReleaseTidy ==
  ASSUME NEW c \in Session, c.phase # "closed", c.end = "none",
         \A i \in 1 .. Len(c.held) : Sortable(c.held[i].evs),
         NEW tr, Released(c, tr), NEW t, NEW cut, Strung(c.held, cut, c.id, t),
         Exact(c.screen, cut[0], t), Verdicts(c.held, c.id, FALSE)
  PROVE  \A i \in 0 .. Len(c.held) : Tidy(c, tr[i], cut, i, t)
<1> DEFINE N == Len(c.held)
           T == {i \in 0 .. N : Tidy(c, tr[i], cut, i, t)}
<1>0. c.held \in Seq(Push) /\ N \in Nat /\ c.screen \in Seq(Event) /\ cut[0] \in Nat
  BY StrungGrows DEF Session, Strung
<1>1. 0 \in T
  <2>1. tr[0] = [c EXCEPT !.held = <<>>, !.phase = "live"]
    BY DEF Released, Opened
  <2>2. tr[0].screen = c.screen /\ tr[0].end = "none"
    BY <2>1 DEF Session
  <2>3. 0 \in 0 .. N /\ ~FinalIn(c.held, 0, c.id)
    BY <1>0 DEF FinalIn
  <2>4. Tidy(c, tr[0], cut, 0, t)
    BY <1>0, <2>2, <2>3 DEF Tidy
  <2> QED BY <2>3, <2>4
<1>2. HighWater(c) = cut[0]
  BY <1>0, HighWaterExact
<1>3. \A i \in 0 .. N : Loose(c, tr[i])
  BY ReleaseLoose
<1>4. ASSUME NEW i \in 1 .. N, i - 1 \in T PROVE i \in T
  <2> DEFINE x == tr[i - 1]
             y == tr[i]
             h == c.held[i]
             p == Above(h, HighWater(c))
  <2>0. i \in 0 .. N /\ i - 1 \in 0 .. N
    BY <1>0
  <2>1. y = Deliver(x, p)
    BY DEF Released
  <2>2. /\ p \in Push /\ Sortable(p.evs) /\ p.gen = h.gen /\ p.st = h.st
        /\ p.evs = {e \in h.evs : e.seq > HighWater(c)} /\ h.evs \subseteq Event
    <3>1. PICK k \in Nat : k = HighWater(c)
      BY <1>0, HighWaterNat
    <3>2. h \in Push /\ Sortable(h.evs) /\ p = Above(h, k)
      BY <1>0, <3>1
    <3>3. h.evs \subseteq Event
      BY <3>2 DEF Sortable
    <3> HIDE DEF h, p
    <3> QED BY <3>1, <3>2, <3>3, AboveFacts
  <2>3. x \in Session /\ x.id = c.id /\ x.phase \in {"live", "closed"} /\ Tidy(c, x, cut, i - 1, t)
        /\ (x.phase = "live" => x.end = "none")
    BY <1>3, <1>4, <2>0 DEF Loose
  <2> HIDE DEF x, y, p, h
  <2>4. CASE x.phase = "closed"
    <3>1. y = x
      BY <2>1, <2>2, <2>3, <2>4, DeliverFacts
    <3>2. Tidy(c, y, cut, i, t)
      BY <2>3, <2>4, <3>1 DEF Tidy
    <3> QED BY <2>0, <3>2 DEF y
  <2>5. CASE x.phase = "live"
    <3>1. /\ y.screen = x.screen \o InSeqOrder(Shown(x, p))
          /\ y.heard = x.heard \cup {p.gen}
          /\ y.phase = IF HasFinal(Shown(x, p)) \/ (p.st # "active" /\ p.evs = {})
                       THEN "closed" ELSE x.phase
          /\ y.end = IF HasFinal(Shown(x, p)) THEN "final"
                     ELSE IF p.st # "active" /\ p.evs = {} THEN "error" ELSE x.end
      <4>1. Takes(x, p, y)
        BY <2>1, <2>2, <2>3, <2>5, DeliverFacts
      <4> QED BY <4>1 DEF Takes
    <3>2. SUFFICES ASSUME y.heard \subseteq {c.id}
                   PROVE  /\ \E n \in Nat : Exact(y.screen, n, t)
                          /\ y.phase = "live" => Exact(y.screen, cut[i], t) /\ ~FinalIn(c.held, i, c.id)
                          /\ y.end = "error" => Trouble
      BY <2>0 DEF Tidy, y
    <3>3. h.gen = c.id /\ x.heard \subseteq {c.id}
      BY <2>2, <3>1, <3>2
    <3>4. Exact(x.screen, cut[i - 1], t) /\ ~FinalIn(c.held, i - 1, c.id)
      BY <2>3, <2>5, <3>3 DEF Tidy
    <3>5. Chain(h.evs, cut[i - 1] + 1, cut[i], t)
      BY <3>3 DEF Strung, h
    <3>6. cut[i - 1] \in Nat /\ cut[i] \in Nat /\ cut[0] <= cut[i - 1]
      BY <1>0, <2>0, StrungGrows
    <3>7. p.evs = h.evs
      <4>1. \A e \in h.evs : e.seq \in Nat /\ e.from \in Nat /\ cut[i - 1] + 1 <= e.from /\ e.from <= e.seq
        BY <2>2, <3>5, EventNumbers DEF Chain
      <4>2. \A e \in h.evs : e.seq > HighWater(c)
        BY <1>0, <1>2, <3>6, <4>1
      <4> QED BY <2>2, <4>2
    <3>8. x.screen \in Seq(Event) /\ p.evs \subseteq Event
      BY <2>2, <2>3, <3>7 DEF Session
    <3>9. Shown(x, p) = p.evs
      BY <3>4, <3>5, <3>6, <3>7, <3>8, ShownWhole
    <3>10. Exact(y.screen, cut[i], t)
      BY <3>1, <3>4, <3>5, <3>6, <3>7, <3>8, <3>9, ExactGrows
    <3>11. y.phase = "live" => ~FinalIn(c.held, i, c.id)
      <4> SUFFICES ASSUME y.phase = "live", FinalIn(c.held, i, c.id) PROVE FALSE
        OBVIOUS
      <4>1. PICK k \in 1 .. i : c.held[k].gen = c.id /\ HasFinal(c.held[k].evs)
        BY DEF FinalIn
      <4>2. k = i
        BY <1>0, <3>4, <4>1 DEF FinalIn
      <4> QED BY <3>1, <3>7, <3>9, <4>1, <4>2 DEF h
    <3>12. y.end = "error" => Trouble
      <4> SUFFICES ASSUME y.end = "error" PROVE Trouble
        OBVIOUS
      <4>1. p.st # "active" /\ p.evs = {}
        BY <2>3, <2>5, <3>1
      <4>2. Trouble \/ FinalIn(c.held, i, c.id)
        BY <2>2, <3>3, <3>7, <4>1 DEF Verdicts, h
      <4>3. ~FinalIn(c.held, i, c.id)
        <5> SUFFICES ASSUME NEW k \in 1 .. i, c.held[k].gen = c.id, HasFinal(c.held[k].evs) PROVE FALSE
          BY DEF FinalIn
        <5>1. k # i
          BY <3>7, <4>1 DEF HasFinal, h
        <5> QED BY <1>0, <3>4, <5>1 DEF FinalIn
      <4> QED BY <4>2, <4>3
    <3> QED BY <3>6, <3>10, <3>11, <3>12
  <2> QED BY <2>3, <2>4, <2>5
<1> HIDE DEF T
<1>5. \A i \in 0 .. N : i \in T
  BY <1>0, <1>1, <1>4, Climb
<1> QED BY <1>5 DEF T

(* Both, of release as a whole. *)
LEMMA ReleaseLeaves ==
  ASSUME NEW c \in Session, c.phase # "closed", c.end = "none",
         \A i \in 1 .. Len(c.held) : Sortable(c.held[i].evs)
  PROVE  Loose(c, Release(c))
<1>1. Len(c.held) \in Nat
  BY DEF Session
<1>2. PICK tr : Released(c, tr) /\ Release(c) = tr[Len(c.held)]
  BY <1>1, ReleaseSteps
<1>3. Len(c.held) \in 0 .. Len(c.held)
  BY <1>1
<1> QED BY <1>2, <1>3, ReleaseLoose

(* What release makes of an exact screen. *)
LEMMA ReleaseTidies ==
  ASSUME NEW c \in Session, c.phase # "closed", c.end = "none",
         \A i \in 1 .. Len(c.held) : Sortable(c.held[i].evs),
         NEW t, NEW cut, Strung(c.held, cut, c.id, t), Exact(c.screen, cut[0], t),
         Verdicts(c.held, c.id, FALSE)
  PROVE  Tidy(c, Release(c), cut, Len(c.held), t)
<1>1. Len(c.held) \in Nat
  BY DEF Session
<1>2. PICK tr : Released(c, tr) /\ Release(c) = tr[Len(c.held)]
  BY <1>1, ReleaseSteps
<1>3. Len(c.held) \in 0 .. Len(c.held)
  BY <1>1
<1> QED BY <1>2, <1>3, ReleaseTidy

(* A session that the page closed holds nothing. *)
LEMMA ReleaseClosed ==
  ASSUME NEW c \in Session, c.phase = "closed", c.held = <<>>
  PROVE  Release(c) = c
<1>1. Len(c.held) = 0
  OBVIOUS
<1>2. PICK tr : Released(c, tr) /\ Release(c) = tr[Len(c.held)]
  BY <1>1, ReleaseSteps
<1>3. Release(c) = [c EXCEPT !.held = <<>>, !.phase = "closed"]
  BY <1>1, <1>2 DEF Released, Opened
<1> QED BY <1>3 DEF Session

-----------------------------------------------------------------------------
(* What the engine serves, and what its steps leave alone while a stream is    *)
(* open.                                                                       *)

(* The frames of the turn before its final one. *)
BodyLen == IF HasJob THEN IF job.status = "active" THEN Len(job.frames) ELSE Len(job.frames) - 1
           ELSE LastSeq - 1

(* A row is that of the job, once the turn is open; only an engine that died   *)
(* or a commit that failed leaves a row behind that claims to be active.       *)
TurnFits ==
  /\ HasJob /\ worker # "open" => row.turn = job.turn
  /\ ~alive => crashes > 0
  /\ crashes = 0 /\ ~unsaved /\ row.status = "active" => Active /\ worker # "open"
  /\ HasJob /\ job.status = "error" /\ ~unsaved =>
       row = RowOf("error") /\ ledger = Ended(job.turn, Len(job.frames) - 1)

(* The numbers of a job. *)
LEMMA JobNumbers ==
  ASSUME EInv, HasJob
  PROVE  /\ job.turn \in 1 .. MaxTurns /\ Len(job.frames) \in 1 .. MaxSeq /\ MaxSeq \in Nat
         /\ job.status \in {"active"} \cup Settled
         /\ \A i \in 1 .. Len(job.frames) : job.frames[i] = "final" <=> (job.status # "active" /\ i = Len(job.frames))
<1>1. /\ job \in Job /\ job.turn \in 1 .. MaxTurns /\ Len(job.frames) \in Nat /\ MaxSeq \in Nat
      /\ job.status \in {"active"} \cup Settled
  BY JobTyped, ChatBounds DEF MaxSeq, Job
<1>2. \A i : KindAt(i) # "final"
  BY DEF KindAt
<1>3. CASE job.status = "active"
  BY <1>1, <1>2, <1>3, ChatBounds DEF EInv, FramesFit, BodySizes, MaxSeq
<1>4. CASE job.status # "active"
  <2>1. /\ Len(job.frames) - 1 \in BodySizes
        /\ \A i \in 1 .. Len(job.frames) - 1 : job.frames[i] = KindAt(i)
        /\ job.frames[Len(job.frames)] = "final"
    BY <1>4 DEF EInv, FramesFit
  <2>2. Len(job.frames) \in 1 .. MaxSeq
    BY <1>1, <2>1, ChatBounds DEF BodySizes, MaxSeq
  <2>3. \A i \in 1 .. Len(job.frames) : i = Len(job.frames) \/ i \in 1 .. Len(job.frames) - 1
    BY <1>1
  <2> QED BY <1>1, <1>2, <1>4, <2>1, <2>2, <2>3
<1> QED BY <1>3, <1>4

(* A page of a job. *)
LEMMA JobPage ==
  ASSUME EInv, HasJob, NEW a \in Nat, NEW evs, evs = JobEvents(a), NEW n, n = Len(job.frames)
  PROVE  /\ Chain(evs, a + 1, IF n < a THEN a ELSE n, job.turn) /\ Sortable(evs)
         /\ HasFinal(evs) <=> (job.status # "active" /\ a < n)
<1> DEFINE docs == Docs((a + 1) .. n)
<1>1. /\ job.turn \in 1 .. MaxTurns /\ n \in 1 .. MaxSeq /\ MaxSeq \in Nat
      /\ \A i \in 1 .. n : job.frames[i] = "final" <=> (job.status # "active" /\ i = n)
  BY JobNumbers
<1>2. docs = {Doc(job.turn, i, job.frames[i]) : i \in (a + 1) .. n}
  BY DEF Docs, Doc
<1>3. \A d \in docs : /\ d.seq \in (a + 1) .. n /\ d = Doc(job.turn, d.seq, job.frames[d.seq])
                      /\ d.turn = job.turn /\ d.kind = job.frames[d.seq]
  <2> SUFFICES ASSUME NEW d \in docs
               PROVE  /\ d.seq \in (a + 1) .. n /\ d = Doc(job.turn, d.seq, job.frames[d.seq])
                      /\ d.turn = job.turn /\ d.kind = job.frames[d.seq]
    OBVIOUS
  <2>1. PICK i \in (a + 1) .. n : d = Doc(job.turn, i, job.frames[i])
    BY <1>2
  <2> QED BY <2>1, DocFields
<1>4. \A i \in (a + 1) .. n : Doc(job.turn, i, job.frames[i]) \in docs /\ i \in 1 .. n
  BY <1>1, <1>2
<1> HIDE DEF docs
<1>5. Slice(docs, job.turn, a, n)
  <2>1. \A i \in (a + 1) .. n : \E d \in docs : d.seq = i
    BY <1>4, DocFields
  <2>2. \A d \in docs : d.kind = "final" => d.seq = n
    BY <1>1, <1>3
  <2>3. \A d, e \in docs : d.seq = e.seq => d = e
    BY <1>3
  <2> QED BY <1>3, <2>1, <2>2, <2>3 DEF Slice
<1>6. n \in 0 .. MaxSeq /\ evs = Coalesced(docs)
  BY <1>1 DEF JobEvents, docs
<1>7. /\ Chain(evs, a + 1, IF n < a THEN a ELSE n, job.turn)
      /\ HasFinal(evs) <=> \E d \in docs : d.kind = "final"
      /\ evs \subseteq Event
  BY <1>1, <1>5, <1>6, CoalescedChains
<1>8. (\E d \in docs : d.kind = "final") <=> (job.status # "active" /\ a < n)
  <2>1. ASSUME NEW d \in docs, d.kind = "final" PROVE job.status # "active" /\ a < n
    BY <1>1, <1>3, <1>4, <2>1
  <2>2. ASSUME job.status # "active", a < n PROVE \E d \in docs : d.kind = "final"
    <3>1. n \in (a + 1) .. n
      BY <1>1, <2>2
    <3>2. Doc(job.turn, n, job.frames[n]) \in docs /\ job.frames[n] = "final"
      BY <1>1, <1>4, <2>2, <3>1
    <3> QED BY <3>2, DocFields
  <2> QED BY <2>1, <2>2
<1>9. Sortable(evs)
  <2>1. a + 1 \in Nat /\ (IF n < a THEN a ELSE n) \in Nat
    BY <1>1
  <2> QED BY <1>7, <2>1, ChainSorts
<1> QED BY <1>7, <1>8, <1>9

(* The shape of a store that holds a turn. *)
LEMMA StoreShape ==
  ASSUME EInv, row # NoRow
  PROVE  /\ row.turn \in 1 .. MaxTurns /\ row.status \in {"active"} \cup Settled
         /\ LastSeq \in 1 .. MaxSeq /\ MaxSeq \in Nat
         /\ Slice(ledger, row.turn, 0, LastSeq)
         /\ (\E d \in ledger : d.kind = "final") <=> row.status \in Settled
<1>0. MaxSeq \in Nat
  BY ChatBounds DEF MaxSeq
<1>1. ASSUME NEW n \in BodySizes, row \in [turn : 1 .. MaxTurns, status : {"active"}],
             ledger = Prefix(row.turn, n)
      PROVE  /\ row.turn \in 1 .. MaxTurns /\ row.status \in {"active"} \cup Settled
             /\ LastSeq \in 1 .. MaxSeq
             /\ Slice(ledger, row.turn, 0, LastSeq)
             /\ (\E d \in ledger : d.kind = "final") <=> row.status \in Settled
  <2>1. n \in Nat /\ n \in 1 .. MaxSeq /\ row.status = "active" /\ row.turn \in 1 .. MaxTurns
    BY <1>1, ChatBounds DEF BodySizes, MaxSeq
  <2>2. Runs(ledger, n) /\ LastSeq = n
    BY <1>1, <2>1, PrefixRuns, LastFound
  <2>3. \A d \in ledger : d.turn = row.turn /\ d.kind # "final"
    BY <1>1, <2>1, PrefixFacts
  <2>4. Slice(ledger, row.turn, 0, LastSeq)
    BY <2>1, <2>2, <2>3 DEF Slice, Runs
  <2> QED BY <2>1, <2>2, <2>3, <2>4 DEF Settled
<1>2. ASSUME NEW n \in BodySizes, row \in [turn : 1 .. MaxTurns, status : Settled],
             ledger = Ended(row.turn, n)
      PROVE  /\ row.turn \in 1 .. MaxTurns /\ row.status \in {"active"} \cup Settled
             /\ LastSeq \in 1 .. MaxSeq
             /\ Slice(ledger, row.turn, 0, LastSeq)
             /\ (\E d \in ledger : d.kind = "final") <=> row.status \in Settled
  <2>1. n \in Nat /\ n + 1 \in 1 .. MaxSeq /\ row.status \in Settled /\ row.turn \in 1 .. MaxTurns
    BY <1>2, ChatBounds DEF BodySizes, MaxSeq
  <2>2. Runs(ledger, n + 1) /\ LastSeq = n + 1
    BY <1>2, <2>1, EndedRuns, LastFound
  <2>3. \A d \in ledger : d.turn = row.turn /\ (d.kind = "final" => d.seq = n + 1)
    BY <1>2, <2>1, EndedFacts
  <2>4. Slice(ledger, row.turn, 0, LastSeq)
    BY <2>1, <2>2, <2>3 DEF Slice, Runs
  <2>5. \E d \in ledger : d.kind = "final"
    BY <1>2, <2>1, EndedFacts, DocFields
  <2> QED BY <2>1, <2>2, <2>4, <2>5
<1> QED BY <1>0, <1>1, <1>2 DEF EInv, StoreFits

(* A page of the store. *)
LEMMA StorePage ==
  ASSUME EInv, row # NoRow, NEW a \in Nat, NEW evs, evs = StoreEvents(a)
  PROVE  /\ Chain(evs, a + 1, IF LastSeq < a THEN a ELSE LastSeq, row.turn) /\ Sortable(evs)
         /\ HasFinal(evs) <=> (row.status \in Settled /\ a < LastSeq)
<1> DEFINE docs == {d \in ledger : d.seq > a}
<1>1. /\ row.turn \in 1 .. MaxTurns /\ LastSeq \in 1 .. MaxSeq /\ MaxSeq \in Nat
      /\ Slice(ledger, row.turn, 0, LastSeq)
      /\ (\E d \in ledger : d.kind = "final") <=> row.status \in Settled
  BY StoreShape
<1>2. \A d \in ledger : d.seq \in 1 .. LastSeq /\ d.turn = row.turn /\ (d.kind = "final" => d.seq = LastSeq)
  BY <1>1 DEF Slice
<1>3. Slice(docs, row.turn, a, LastSeq)
  <2>1. \A d \in docs : d.turn = row.turn /\ d.seq \in (a + 1) .. LastSeq
    BY <1>1, <1>2
  <2>2. ASSUME NEW i \in (a + 1) .. LastSeq PROVE \E d \in docs : d.seq = i
    <3>1. i \in (0 + 1) .. LastSeq /\ i > a
      BY <1>1
    <3>2. PICK d \in ledger : d.seq = i
      BY <1>1, <3>1 DEF Slice
    <3> QED BY <3>1, <3>2
  <2>3. \A d, e \in docs : d.seq = e.seq => d = e
    BY <1>1 DEF Slice
  <2> QED BY <1>2, <2>1, <2>2, <2>3 DEF Slice
<1>4. evs = Coalesced(docs) /\ LastSeq \in 0 .. MaxSeq
  BY <1>1 DEF StoreEvents
<1> HIDE DEF docs
<1>5. /\ Chain(evs, a + 1, IF LastSeq < a THEN a ELSE LastSeq, row.turn)
      /\ HasFinal(evs) <=> \E d \in docs : d.kind = "final"
      /\ evs \subseteq Event
  BY <1>1, <1>3, <1>4, CoalescedChains
<1>6. (\E d \in docs : d.kind = "final") <=> (row.status \in Settled /\ a < LastSeq)
  <2>1. ASSUME NEW d \in docs, d.kind = "final" PROVE row.status \in Settled /\ a < LastSeq
    BY <1>1, <1>2, <2>1 DEF docs
  <2>2. ASSUME row.status \in Settled, a < LastSeq PROVE \E d \in docs : d.kind = "final"
    <3>1. PICK d \in ledger : d.kind = "final"
      BY <1>1, <2>2
    <3>2. d.seq > a
      BY <1>1, <1>2, <2>2, <3>1
    <3> QED BY <3>1, <3>2 DEF docs
  <2> QED BY <2>1, <2>2
<1>7. Sortable(evs)
  <2>1. a + 1 \in Nat /\ (IF LastSeq < a THEN a ELSE LastSeq) \in Nat
    BY <1>1
  <2> QED BY <1>5, <2>1, ChainSorts
<1> QED BY <1>5, <1>6, <1>7

(* No turn yet, no page. *)
LEMMA EmptyStorePage ==
  ASSUME EInv, row = NoRow, NEW a \in Nat
  PROVE  StoreEvents(a) = {} /\ Sortable(StoreEvents(a))
<1>1. ledger = {}
  BY DEF EInv, StoreFits, NoRow, Settled
<1>2. {d \in ledger : d.seq > a} = {}
  BY <1>1
<1>3. StoreEvents(a) = {}
  BY <1>2 DEF StoreEvents, Coalesced
<1> QED BY <1>3 DEF Sortable

(* How far a turn is, as a number. *)
LEMMA BodyNat ==
  ASSUME EInv, row # NoRow
  PROVE  BodyLen \in Nat
<1>1. CASE HasJob
  <2>1. PICK n \in 1 .. MaxSeq : n = Len(job.frames)
    BY <1>1, JobNumbers
  <2>2. BodyLen = n \/ BodyLen = n - 1
    BY <1>1, <2>1 DEF BodyLen
  <2>3. MaxSeq \in Nat
    BY <1>1, JobNumbers
  <2> QED BY <2>1, <2>2, <2>3
<1>2. CASE ~HasJob
  <2>1. PICK n \in 1 .. MaxSeq : n = LastSeq
    BY StoreShape
  <2>2. BodyLen = n - 1 /\ MaxSeq \in Nat
    BY <1>2, <2>1, StoreShape DEF BodyLen
  <2> QED BY <2>1, <2>2
<1> QED BY <1>1, <1>2

(* What a step of the turn's thread does once the turn is open. *)
Writes ==
  /\ HasJob /\ HasJob' /\ job'.turn = job.turn /\ job.status = "active"
  /\ row.turn = job.turn /\ row'.turn = row.turn /\ row # NoRow /\ row' # NoRow
  /\ alive' = alive /\ crashes' = crashes /\ worker' # "open"
  /\ \/ /\ job'.status = "active" /\ Len(job.frames) <= Len(job'.frames)
        /\ unsaved' = unsaved /\ Active'
     \/ /\ job'.status = outcome /\ Len(job'.frames) = Len(job.frames) + 1
        /\ row' = row /\ row = RowOf(outcome) /\ unsaved' = unsaved
        /\ outcome \in Settled
        /\ ledger' = Ended(job.turn, Len(job.frames))
     \/ unsaved' /\ Len(job'.frames) = Len(job.frames) + 1

(* The turn's thread, step by step. *)
LEMMA ThreadWrites ==
  ASSUME EInv, Thread, worker # "open"
  PROVE  Writes
<1>1. worker \in {"run", "flush", "commit", "publish"} /\ worker # "none"
  BY DEF Thread, OpeningCommit, OpeningFails, Delta, FlushCommit, FlushFails, StreamEnds,
         CommitTerminal, PublishTerminal, CommitFails
<1>2. /\ HasJob /\ job.status = "active" /\ job \in Job /\ Len(job.frames) \in Nat
      /\ job.turn \in 1 .. MaxTurns /\ job.frames \in Seq(Kinds)
  BY <1>1, WorkerHasJob, JobTyped
<1>3. row.turn = job.turn
  BY <1>1 DEF EInv, WorkerFits, Lacks, RowOf
<1>4. row # NoRow
  BY <1>2, <1>3, ChatBounds DEF NoRow
<1>5. ASSUME Delta PROVE Writes
  <2>1. Len(job.frames) < MaxDeltas + 2
    BY <1>2, <1>5, DeltasCounted, ChatBounds DEF Delta
  <2>2. PICK j : j = Appended(job, "delta")
    OBVIOUS
  <2>3. j \in Job /\ j.turn = job.turn /\ j.status = "active" /\ Len(j.frames) = Len(job.frames) + 1
    BY <1>1, <2>1, <2>2, AppendedFacts
  <2>4. job' = j \/ job' = [j EXCEPT !.pending = {}]
    BY <1>5, <2>2 DEF Delta
  <2>5. job' \in Job /\ job'.turn = job.turn /\ job'.status = "active" /\ Len(job'.frames) = Len(job.frames) + 1
    BY <2>3, <2>4 DEF Job
  <2>6. HasJob' /\ Active'
    BY <1>2, <2>5 DEF HasJob, NoJob, Active
  <2> QED BY <1>2, <1>3, <1>4, <1>5, <2>5, <2>6 DEF Delta, Writes
<1>6. ASSUME StreamEnds PROVE Writes
  <2>1. PICK j : /\ \/ j = job
                    \/ j = Appended(job, "delta") /\ Deltas = 0
                 /\ job' = [j EXCEPT !.pending = {}]
    BY <1>6 DEF StreamEnds
  <2>2. j \in Job /\ j.turn = job.turn /\ j.status = "active" /\ Len(job.frames) <= Len(j.frames)
    <3>1. CASE j = job
      BY <1>2, <3>1
    <3>2. CASE j = Appended(job, "delta") /\ Deltas = 0
      <4>0. Len(job.frames) \in Nat /\ Deltas = 0
        BY <1>2, <3>2
      <4>a. PICK n \in Nat : n = Len(job.frames)
        BY <4>0
      <4>b. n - 1 = 0
        BY <1>1, <4>0, <4>a, DeltasCounted
      <4>c. n < MaxDeltas + 2
        BY <4>b, ChatBounds
      <4>1. Len(job.frames) < MaxDeltas + 2
        BY <4>a, <4>c
      <4> QED BY <1>1, <1>2, <3>2, <4>1, AppendedFacts
    <3> QED BY <2>1, <3>1, <3>2
  <2>3. job' \in Job /\ job'.turn = job.turn /\ job'.status = "active" /\ Len(job.frames) <= Len(job'.frames)
    BY <2>1, <2>2 DEF Job
  <2>4. HasJob' /\ Active'
    BY <1>2, <2>3 DEF HasJob, NoJob, Active
  <2> QED BY <1>2, <1>3, <1>4, <1>6, <2>3, <2>4 DEF StreamEnds, Writes
<1>7. ASSUME FlushCommit PROVE Writes
  <2>1. HasJob' /\ Active' /\ Len(job.frames) <= Len(job.frames)
    BY <1>2, <1>7 DEF FlushCommit, HasJob, Active
  <2> QED BY <1>2, <1>3, <1>4, <1>7, <2>1 DEF FlushCommit, Writes
<1>8. ASSUME FlushFails PROVE Writes
  <2>1. job' = [job EXCEPT !.pending = job.pending \cup batch]
    BY <1>8 DEF FlushFails
  <2>2. job'.turn = job.turn /\ job'.status = job.status /\ job'.frames = job.frames
    BY <1>2, <2>1 DEF Job
  <2>3. HasJob' /\ Active' /\ Len(job.frames) <= Len(job'.frames)
    BY <1>2, <2>2 DEF HasJob, NoJob, Active
  <2> QED BY <1>2, <1>3, <1>4, <1>8, <2>2, <2>3 DEF FlushFails, Writes
<1>9. ASSUME CommitTerminal PROVE Writes
  <2>1. row \in [turn : 1 .. MaxTurns, status : {"active"} \cup Settled]
    BY <1>4 DEF EInv, EngineTypeOK
  <2>2. row'.turn = row.turn
    BY <1>9, <2>1 DEF CommitTerminal
  <2>3. HasJob' /\ Active' /\ Len(job.frames) <= Len(job.frames)
    BY <1>2, <1>9 DEF CommitTerminal, HasJob, Active
  <2>4. row' # NoRow
    BY <1>2, <1>3, <2>2, ChatBounds DEF NoRow
  <2> QED BY <1>2, <1>3, <1>4, <1>9, <2>2, <2>3, <2>4 DEF CommitTerminal, Writes
<1>10. ASSUME PublishTerminal PROVE Writes
  <2>1. row = RowOf(outcome) /\ ledger = Ended(job.turn, Len(job.frames)) /\ outcome \in Settled
    BY <1>10 DEF PublishTerminal, EInv, WorkerFits, EngineTypeOK
  <2>2. job'.turn = job.turn /\ job'.status = outcome /\ Len(job'.frames) = Len(job.frames) + 1
    BY <1>2, <1>10 DEF PublishTerminal, Job, Kinds
  <2>3. HasJob'
    BY <1>2, <2>2 DEF HasJob, NoJob
  <2> QED BY <1>2, <1>3, <1>4, <1>10, <2>1, <2>2, <2>3 DEF PublishTerminal, Writes
<1>11. ASSUME CommitFails PROVE Writes
  <2>1. job'.turn = job.turn /\ Len(job'.frames) = Len(job.frames) + 1
    BY <1>2, <1>11 DEF CommitFails, Job, Kinds
  <2>2. HasJob'
    BY <1>2, <2>1 DEF HasJob, NoJob
  <2> QED BY <1>2, <1>3, <1>4, <1>11, <2>1, <2>2 DEF CommitFails, Writes
<1> QED BY <1>5, <1>6, <1>7, <1>8, <1>9, <1>10, <1>11 DEF Thread, OpeningCommit, OpeningFails

(* A store that is settled stays as it is. *)
LEMMA ReconcileFacts ==
  ASSUME EInv, Reconcile
  PROVE  /\ row'.turn = row.turn /\ row'.status # "active"
         /\ row # NoRow => row' # NoRow
         /\ row.status # "active" => row' = row /\ ledger' = ledger
<1>1. CASE row.status = "active"
  <2>1. row \in [turn : 1 .. MaxTurns, status : {"active"} \cup Settled]
    BY <1>1 DEF EInv, EngineTypeOK, NoRow
  <2>2. row' = [row EXCEPT !.status = "aborted"]
    BY <1>1 DEF Reconcile
  <2>3. row'.turn = row.turn /\ row'.status = "aborted" /\ row.turn \in 1 .. MaxTurns
    BY <2>1, <2>2
  <2> QED BY <1>1, <2>3, ChatBounds DEF NoRow
<1>2. CASE row.status # "active"
  BY <1>2 DEF Reconcile
<1> QED BY <1>1, <1>2

(* TurnFits, over the engine's steps. *)
LEMMA TurnStep ==
  ASSUME EInv, EInv', TurnFits, EngineStep
  PROVE  TurnFits'
<1>0. crashes \in Nat
  BY ChatBounds DEF EInv, EngineTypeOK
<1>1. CASE Reserve
  <2>1. ~Active /\ alive' = alive /\ crashes' = crashes /\ unsaved' = unsaved /\ row' = row /\ worker' = "open"
    BY <1>1 DEF Reserve
  <2>2. job' = [turn |-> turn + 1, status |-> "active", frames |-> <<"open">>,
               pending |-> {1}, cancel |-> FALSE]
    BY <1>1 DEF Reserve
  <2>3. job'.status = "active"
    BY <2>2
  <2> QED BY <2>1, <2>3 DEF TurnFits
<1>2. CASE OpeningCommit
  <2>1. worker # "none" /\ HasJob /\ job.status = "active" /\ job \in Job
    BY <1>2, WorkerHasJob, JobTyped DEF OpeningCommit
  <2>2. job'.turn = job.turn /\ job'.status = "active" /\ row'.turn = job.turn /\ worker' = "run"
        /\ alive' = alive /\ crashes' = crashes
    BY <1>2, <2>1 DEF OpeningCommit, Job
  <2>3. HasJob' /\ Active'
    BY <2>1, <2>2, JobTyped DEF HasJob, NoJob, Active
  <2> QED BY <2>2, <2>3 DEF TurnFits
<1>3. CASE OpeningFails
  <2>1. ~HasJob' /\ row' = row /\ alive' = alive /\ crashes' = crashes /\ unsaved' = unsaved
    BY <1>3 DEF OpeningFails, HasJob
  <2>2. worker = "open"
    BY <1>3 DEF OpeningFails
  <2> QED BY <2>1, <2>2 DEF TurnFits
<1>4. CASE Thread /\ worker # "open"
  <2>1. Writes
    BY <1>4, ThreadWrites
  <2>2. row'.turn = job'.turn /\ (~alive' => crashes' > 0)
    BY <2>1 DEF Writes, TurnFits
  <2>3. CASE job'.status = "active" /\ Active'
    BY <2>1, <2>2, <2>3 DEF TurnFits, Writes
  <2>4. CASE /\ job'.status = outcome /\ Len(job'.frames) = Len(job.frames) + 1
             /\ row' = row /\ row = RowOf(outcome) /\ outcome \in Settled
             /\ ledger' = Ended(job.turn, Len(job.frames))
    <3>1. row'.status # "active" /\ (outcome = "error" => row' = RowOf("error")')
      BY <2>1, <2>4 DEF RowOf, Settled, Writes
    <3>2. Len(job'.frames) - 1 = Len(job.frames) /\ job'.turn = job.turn
      BY <2>1, <2>4, JobTyped DEF Writes
    <3> QED BY <2>2, <2>4, <3>1, <3>2 DEF TurnFits
  <2>5. CASE unsaved'
    BY <2>2, <2>5 DEF TurnFits
  <2> QED BY <2>1, <2>3, <2>4, <2>5 DEF Writes
<1>5. CASE CancelTurn
  <2>1. CASE HasJob
    <3>1. Active /\ job' = [job EXCEPT !.cancel = TRUE] /\ row' = row /\ worker' = worker
          /\ alive' = alive /\ crashes' = crashes /\ unsaved' = unsaved
      BY <1>5, <2>1 DEF CancelTurn
    <3>2. job'.turn = job.turn /\ job'.status = "active"
      BY <2>1, <3>1, JobTyped DEF Job, Active
    <3>3. HasJob' /\ Active'
      BY <2>1, <3>2, JobTyped DEF HasJob, NoJob, Active
    <3> QED BY <2>1, <3>1, <3>2, <3>3 DEF TurnFits
  <2>2. CASE ~HasJob
    <3>1. Reconcile /\ ~HasJob' /\ alive' = alive /\ crashes' = crashes
      BY <1>5, <2>2 DEF CancelTurn, HasJob
    <3> QED BY <3>1, ReconcileFacts DEF TurnFits
  <2> QED BY <2>1, <2>2
<1>6. CASE EvictSettled
  <2>1. ~HasJob' /\ row' = row /\ alive' = alive /\ crashes' = crashes /\ unsaved' = unsaved
        /\ HasJob /\ job.status \in Settled
    BY <1>6 DEF EvictSettled, HasJob
  <2>2. ~Active
    BY <2>1 DEF Active, Settled
  <2> QED BY <2>1, <2>2 DEF TurnFits
<1>7. CASE Restart
  BY <1>7 DEF Restart, TurnFits, HasJob, Active, RowOf
<1>8. CASE Crash
  <2>1. ~HasJob' /\ crashes' = crashes + 1
    BY <1>8 DEF Crash, HasJob
  <2> QED BY <1>0, <2>1 DEF TurnFits
<1>9. CASE Reads
  <2>1. Reconcile /\ ~HasJob' /\ alive' = alive /\ crashes' = crashes
    BY <1>9 DEF Reads, HasJob
  <2> QED BY <2>1, ReconcileFacts DEF TurnFits
<1>10. CASE UNCHANGED engine
  BY <1>10 DEF engine, TurnFits, HasJob, Active, RowOf
<1> QED BY <1>1, <1>2, <1>3, <1>4, <1>5, <1>6, <1>7, <1>8, <1>9, <1>10 DEF EngineStep, Thread,
           Delta, FlushCommit, FlushFails, StreamEnds, CommitTerminal, PublishTerminal, CommitFails

(* What a step of the engine does under an open stream: the turn stays, and    *)
(* unless something went wrong its frames only grow.                           *)
Calm ==
  /\ row'.turn = row.turn /\ row' # NoRow /\ worker' # "open"
  /\ crashes > 0 \/ unsaved => crashes' > 0 \/ unsaved'
  /\ ~HasJob => ~HasJob'
  /\ ~HasJob /\ row.status \in Settled => row'.status \in Settled
  /\ crashes' > 0 \/ unsaved' \/ BodyLen <= BodyLen'

(* Every step of the engine but Reserve is calm. *)
LEMMA EngineCalm ==
  ASSUME EInv, EInv', TurnFits, TurnFits', EngineStep, ~Reserve, worker # "open", row # NoRow
  PROVE  Calm
<1>0. crashes \in Nat /\ BodyLen \in Int
  BY ChatBounds, BodyNat DEF EInv, EngineTypeOK
<1>1. CASE Thread
  <2>1. Writes
    BY <1>1, ThreadWrites
  <2>2. Len(job.frames) \in Nat /\ BodyLen = Len(job.frames)
    BY <2>1, JobTyped DEF BodyLen, Writes
  <2>3. CASE job'.status = "active" /\ Len(job.frames) <= Len(job'.frames) /\ unsaved' = unsaved
    <3>1. BodyLen' = Len(job'.frames)
      BY <2>1, <2>3 DEF BodyLen, Writes
    <3> QED BY <2>1, <2>2, <2>3, <3>1 DEF Writes, Calm
  <2>4. CASE /\ job'.status = outcome /\ Len(job'.frames) = Len(job.frames) + 1
             /\ unsaved' = unsaved /\ outcome \in Settled
    <3>1. BodyLen' = Len(job'.frames) - 1
      BY <2>1, <2>4 DEF BodyLen, Writes, Settled
    <3>2. BodyLen <= BodyLen'
      BY <2>2, <2>4, <3>1
    <3> QED BY <2>1, <2>4, <3>2 DEF Writes, Calm
  <2>5. CASE unsaved'
    BY <2>1, <2>5 DEF Writes, Calm
  <2> QED BY <2>1, <2>3, <2>4, <2>5 DEF Writes
<1>2. CASE CancelTurn \/ Reads
  <2>1. CASE HasJob
    <3>1. job' = [job EXCEPT !.cancel = TRUE] /\ row' = row /\ crashes' = crashes /\ unsaved' = unsaved
          /\ worker' = worker /\ ledger' = ledger
      BY <1>2, <2>1 DEF CancelTurn, Reads
    <3>2. job'.status = job.status /\ job'.frames = job.frames /\ job'.turn = job.turn
      BY <2>1, <3>1, JobTyped DEF Job
    <3>3. HasJob'
      BY <2>1, <3>2, JobTyped DEF HasJob, NoJob
    <3>4. BodyLen' = BodyLen
      BY <2>1, <3>2, <3>3 DEF BodyLen
    <3> QED BY <1>0, <2>1, <3>1, <3>4 DEF Calm
  <2>2. CASE ~HasJob
    <3>1. Reconcile /\ job' = job /\ crashes' = crashes /\ unsaved' = unsaved /\ worker' = worker
      BY <1>2, <2>2 DEF CancelTurn, Reads
    <3>2. ~HasJob'
      BY <2>2, <3>1 DEF HasJob
    <3>3. row'.turn = row.turn /\ row' # NoRow /\ (row.status # "active" => row' = row /\ ledger' = ledger)
      BY <3>1, ReconcileFacts
    <3>4. crashes' > 0 \/ unsaved' \/ row.status # "active"
      BY <1>0, <2>2, <3>1 DEF TurnFits, Active
    <3>5. ASSUME row.status # "active" PROVE BodyLen' = BodyLen
      <4>1. ledger' = ledger
        BY <3>3, <3>5
      <4>2. LastSeq' = LastSeq
        BY <4>1 DEF LastSeq
      <4> QED BY <2>2, <3>2, <4>2 DEF BodyLen
    <3>6. row.status \in Settled => row.status # "active"
      BY DEF Settled
    <3> QED BY <1>0, <3>1, <3>2, <3>3, <3>4, <3>5, <3>6 DEF Calm
  <2> QED BY <2>1, <2>2
<1>3. CASE EvictSettled
  <2>1. ~HasJob' /\ row' = row /\ ledger' = ledger /\ crashes' = crashes /\ unsaved' = unsaved
        /\ HasJob /\ job.status \in Settled /\ worker' = worker
    BY <1>3 DEF EvictSettled, HasJob
  <2> DEFINE n == Len(job.frames) - 1
  <2>2. n \in Nat /\ BodyLen = n
    BY <2>1, JobNumbers DEF BodyLen, Settled
  <2>3. unsaved \/ ledger = Ended(job.turn, n)
    <3>1. CASE job.status = "error"
      BY <2>1, <3>1 DEF TurnFits
    <3>2. CASE job.status # "error"
      BY <2>1, <3>2 DEF EInv, WorkerFits, Settled
    <3> QED BY <3>1, <3>2
  <2>4. ledger = Ended(job.turn, n) => LastSeq = n + 1
    BY <2>2, EndedRuns, LastFound
  <2>5. BodyLen' = LastSeq - 1
    BY <2>1 DEF BodyLen, LastSeq
  <2> HIDE DEF n
  <2>6. unsaved' \/ BodyLen <= BodyLen'
    BY <2>1, <2>2, <2>3, <2>4, <2>5
  <2> QED BY <2>1, <2>6 DEF Calm
<1>4. CASE Restart \/ UNCHANGED engine
  <2>1. /\ row' = row /\ job' = job /\ ledger' = ledger /\ crashes' = crashes /\ unsaved' = unsaved
        /\ worker' = worker
    BY <1>4 DEF Restart, engine
  <2>2. BodyLen' = BodyLen /\ (HasJob' <=> HasJob)
    BY <2>1 DEF BodyLen, LastSeq, HasJob
  <2> QED BY <1>0, <2>1, <2>2 DEF Calm
<1>5. CASE Crash
  <2>1. ~HasJob' /\ crashes' = crashes + 1 /\ row' = row /\ worker' = "none"
    BY <1>5 DEF Crash, HasJob
  <2> QED BY <1>0, <2>1 DEF Calm
<1> QED BY <1>1, <1>2, <1>3, <1>4, <1>5 DEF EngineStep

-----------------------------------------------------------------------------
(* The host and the webview: types, and whose turn it is. *)

(* The first of a queue and the rest of it; a queue that grows. *)
LEMMA QueueFacts ==
  ASSUME NEW S, NEW x \in Seq(S), x # <<>>
  PROVE  /\ Len(x) \in Nat \ {0} /\ Head(x) \in S /\ Head(x) = x[1]
         /\ Tail(x) \in Seq(S) /\ Len(Tail(x)) = Len(x) - 1
         /\ \A i \in 1 .. Len(x) - 1 : Tail(x)[i] = x[i + 1]
  OBVIOUS

(* A queue that grows by one. *)
LEMMA GrownFacts ==
  ASSUME NEW S, NEW x \in Seq(S), NEW e \in S
  PROVE  /\ Append(x, e) \in Seq(S) /\ Len(x) \in Nat /\ Len(Append(x, e)) = Len(x) + 1
         /\ \A i \in 1 .. Len(x) : Append(x, e)[i] = x[i]
         /\ Append(x, e)[Len(x) + 1] = e
  OBVIOUS

Typed ==
  /\ claim \in Readers /\ rd \in [Readers -> Reader] /\ calls \in Seq(Sessions)
  /\ replies \in Seq(Reply) /\ inbox \in Seq(Push) /\ sse \in Session
  /\ faults \in 0 .. MaxFaults

(* No two events of a page, a push or an answer have one seq. *)
Sorts ==
  /\ \A r \in Readers : Sortable(rd[r].evs)
  /\ \A i \in 1 .. Len(inbox) : Sortable(inbox[i].evs)
  /\ \A i \in 1 .. Len(sse.held) : Sortable(sse.held[i].evs)
  /\ \A i \in 1 .. Len(replies) : Sortable(replies[i].evs)

(* The open session's replay call waits for, or has, the main thread. *)
Called == \E i \in 1 .. Len(calls) : calls[i] = sse.id

(* The sessions call in turn, each of them once, and a session has either its  *)
(* call, its answer or its screen.                                             *)
CallFits ==
  /\ \A i \in 1 .. Len(calls) : calls[i] <= sse.id
  /\ \A i, j \in 1 .. Len(calls) : i < j => calls[i] < calls[j]
  /\ \A g \in Sessions : g > sse.id => rd[g] = Idle
  /\ rd[0].pc \in {"off", "asked", "row", "got", "failed"} /\ rd[0].after = 0
  /\ rd[0].pc # "off" => calls # <<>>
PhaseFits ==
  /\ Open => sse.end = "none" /\ sse.id > 0 /\ row # NoRow /\ worker # "open"
  /\ ~Open => replies = <<>>
  /\ ~Listening => inbox = <<>> /\ sse.held = <<>>
  /\ sse.phase = "connecting" => ~Called /\ replies = <<>> /\ rd[sse.id] = Idle
  /\ sse.phase \in {"connecting", "waiting"} => sse.screen = <<>> /\ sse.heard = {}
  /\ sse.phase = "waiting" => (Called <=> replies = <<>>)
  /\ sse.phase = "live" => ~Called /\ replies = <<>> /\ sse.held = <<>>
  /\ Called => rd[sse.id] = Idle
  /\ replies # <<>> => Len(replies) = 1 /\ replies[1].gen = sse.id

(* Two readers at most change in a step, and one that is idle starts only by   *)
(* the call of its session.                                                    *)
LEMMA ReaderStep ==
  ASSUME Typed, Sorts, CallFits, NEW r \in Readers, NEW p \in Reader, Sortable(p.evs),
         rd' = [rd EXCEPT ![r] = p], claim' \in Readers, faults' \in 0 .. MaxFaults,
         UNCHANGED <<calls, replies, sse>>,
         \/ inbox' = inbox
         \/ inbox' \in Seq(Push) /\ \A i \in 1 .. Len(inbox') : Sortable(inbox'[i].evs),
         r = 0 => /\ p.pc \in {"off", "asked", "row", "got", "failed"} /\ p.after = 0
                  /\ p.pc # "off" => calls # <<>>,
         r # 0 => rd[r] # Idle
  PROVE  /\ Typed' /\ Sorts' /\ CallFits'
         /\ \A g \in Sessions : rd[g] = Idle => rd'[g] = Idle
<1>0. /\ rd \in [Readers -> Reader] /\ 0 \in Readers
      /\ calls' = calls /\ replies' = replies /\ sse' = sse
      /\ Sessions \subseteq Readers /\ 0 \notin Sessions
  BY StreamBounds DEF Typed, Readers, Sessions
<1>1. rd' \in [Readers -> Reader] /\ rd'[r] = p /\ \A g \in Readers : g # r => rd'[g] = rd[g]
  BY <1>0
<1>2. Typed'
  BY <1>0, <1>1 DEF Typed
<1>3. Sorts'
  BY <1>0, <1>1 DEF Sorts
<1>4. \A g \in Sessions : rd[g] = Idle => rd'[g] = Idle
  BY <1>0, <1>1
<1>5. rd'[0].pc \in {"off", "asked", "row", "got", "failed"} /\ rd'[0].after = 0
      /\ (rd'[0].pc # "off" => calls # <<>>)
  <2>1. CASE r = 0
    BY <1>1, <2>1
  <2>2. CASE r # 0
    BY <1>0, <1>1, <2>2 DEF CallFits
  <2> QED BY <2>1, <2>2
<1>6. CallFits'
  BY <1>0, <1>4, <1>5 DEF CallFits
<1> QED BY <1>2, <1>3, <1>4, <1>6

(* PhaseFits, when the session and its mail stay as they are. *)
LEMMA PhaseStays ==
  ASSUME Typed, PhaseFits, UNCHANGED <<calls, replies, sse>>, ~Listening => inbox' = inbox,
         \A g \in Sessions : rd[g] = Idle => rd'[g] = Idle,
         Open => row' # NoRow /\ worker' # "open"
  PROVE  PhaseFits'
<1>0. calls' = calls /\ replies' = replies /\ sse' = sse
  OBVIOUS
<1>1. (Open' <=> Open) /\ (Listening' <=> Listening) /\ (Called' <=> Called)
  BY <1>0 DEF Open, Listening, Called
<1>2. sse.id > 0 => sse.id \in Sessions
  BY StreamBounds DEF Typed, Session, Sessions
<1>3. Called => sse.id \in Sessions
  BY DEF Called, Typed
<1>4. sse.phase = "connecting" => Open
  BY DEF Open
<1>5. /\ sse.phase = "connecting" => rd'[sse.id] = Idle
      /\ Called => rd'[sse.id] = Idle
  BY <1>2, <1>3, <1>4 DEF PhaseFits
<1> QED BY <1>0, <1>1, <1>5 DEF PhaseFits

HostFits == Typed /\ Sorts /\ CallFits /\ PhaseFits

(* A reader's fields. *)
LEMMA ReaderFacts ==
  ASSUME Typed, NEW r \in Readers
  PROVE  /\ rd[r] \in Reader /\ rd[r].after \in 0 .. MaxSeq /\ rd[r].after \in Nat
         /\ rd[r].evs \subseteq Event /\ MaxSeq \in Nat
         /\ rd[r].st \in Statuses /\ rd[r].fails \in 0 .. MaxRetries
         /\ rd[r].pc # "off" => rd[r] # Idle
<1>1. MaxSeq \in Nat /\ rd[r] \in Reader
  BY ChatBounds DEF MaxSeq, Typed
<1>2. rd[r].pc # "off" => rd[r] # Idle
  BY DEF Idle
<1> QED BY <1>1, <1>2 DEF Reader

(* A reader that gets a page, the row's status, an error; one that starts over. *)
Made(p, pc, st, evs) == [p EXCEPT !.pc = pc, !.st = st, !.evs = evs]

(* Its fields. *)
LEMMA ReaderMade ==
  ASSUME NEW p \in Reader, NEW pc \in {"off", "check", "asked", "row", "got", "failed", "emit"},
         NEW st \in Statuses, NEW evs \in SUBSET Event, NEW q, q = Made(p, pc, st, evs)
  PROVE  q \in Reader /\ q.pc = pc /\ q.st = st /\ q.evs = evs /\ q.after = p.after /\ q.fails = p.fails
  BY DEF Reader, Made

(* The idle reader. *)
LEMMA IdleFacts ==
  /\ Idle \in Reader /\ Sortable(Idle.evs) /\ Idle.pc = "off" /\ Idle.after = 0 /\ Idle.evs = {}
  /\ Sortable({})
<1>1. MaxSeq \in Nat
  BY ChatBounds DEF MaxSeq
<1>2. {} \in SUBSET Event /\ Sortable({})
  BY DEF Sortable
<1> QED BY <1>1, <1>2, StreamBounds DEF Idle, Reader, Statuses

(* The last seq of a page. *)
LEMMA EndNumber ==
  ASSUME NEW evs, evs \subseteq Event, NEW d \in 0 .. MaxSeq
  PROVE  EndOf(evs, d) \in 0 .. MaxSeq
<1> DEFINE Q == {e.seq : e \in evs}
<1>1. CASE evs = {}
  BY <1>1 DEF EndOf
<1>2. CASE evs # {}
  <2>1. Q \subseteq Nat /\ Q # {} /\ MaxSeq \in Nat /\ \A k \in Q : k <= MaxSeq
    BY <1>2, ChatBounds DEF Event, MaxSeq
  <2>2. PICK m \in Q : \A k \in Q : k <= m
    BY <2>1, GreatestOf
  <2>3. m \in Q /\ \A e \in evs : e.seq <= m
    BY <2>2
  <2>4. EndOf(evs, d) = CHOOSE i \in Q : \A e \in evs : e.seq <= i
    BY <1>2 DEF EndOf
  <2>5. PICK x : x = EndOf(evs, d)
    OBVIOUS
  <2> HIDE DEF Q
  <2>6. x \in Q
    BY <2>3, <2>4, <2>5
  <2> QED BY <2>1, <2>5, <2>6
<1> QED BY <1>1, <1>2

(* What an answer of the engine makes of a reader. *)

(* What an answer, or its failure, makes of the reader that asked. *)
LEMMA ServeMakes ==
  ASSUME EInv, EInv', Typed, Sorts, NEW r \in Readers, Serve(r)
  PROVE  \E p \in Reader :
           /\ rd' = [rd EXCEPT ![r] = p] /\ Sortable(p.evs) /\ p.after = rd[r].after
           /\ p.pc \in {"row", "got", "failed"}
           /\ rd[r].pc \in {"asked", "row"} /\ claim' = claim /\ faults' \in 0 .. MaxFaults
           /\ UNCHANGED <<calls, replies, inbox, sse>>
<1>0. /\ rd \in [Readers -> Reader] /\ rd[r] \in Reader /\ rd[r].after \in Nat
      /\ rd[r].evs \in SUBSET Event /\ rd[r].st \in Statuses
      /\ Sortable(rd[r].evs) /\ faults \in 0 .. MaxFaults
  BY ReaderFacts DEF Typed, Sorts
<1>1. CASE ServeJob(r)
  <2>0. PICK evs : evs = JobEvents(rd[r].after)
    OBVIOUS
  <2>a. HasJob
    BY <1>1 DEF ServeJob
  <2>b. Sortable(evs)
    BY <1>0, <2>0, <2>a, JobPage
  <2>1. Sortable(evs) /\ evs \in SUBSET Event
    BY <2>b DEF Sortable
  <2>2. job.status \in Statuses
    BY <1>1, JobNumbers DEF ServeJob, Statuses
  <2>3. rd' = [rd EXCEPT ![r] = Made(rd[r], "got", job.status, evs)]
    BY <1>0, <1>1, <2>0 DEF ServeJob, Made, Reader
  <2>4. PICK p : p = Made(rd[r], "got", job.status, evs)
    OBVIOUS
  <2>5. p \in Reader /\ p.pc = "got" /\ p.evs = evs /\ p.after = rd[r].after
    BY <1>0, <2>1, <2>2, <2>4, ReaderMade
  <2> QED BY <1>0, <1>1, <2>1, <2>3, <2>4, <2>5 DEF ServeJob
<1>2. CASE ServeRow(r)
  <2>1. row'.status \in Statuses
    BY DEF EInv, EngineTypeOK, Statuses, NoRow
  <2>2. rd' = [rd EXCEPT ![r] = Made(rd[r], "row", row'.status, rd[r].evs)]
    BY <1>0, <1>2 DEF ServeRow, Made, Reader
  <2>3. PICK p : p = Made(rd[r], "row", row'.status, rd[r].evs)
    OBVIOUS
  <2>4. p \in Reader /\ p.pc = "row" /\ p.evs = rd[r].evs /\ p.after = rd[r].after
    BY <1>0, <2>1, <2>3, ReaderMade
  <2> QED BY <1>0, <1>2, <2>2, <2>3, <2>4 DEF ServeRow
<1>3. CASE ServeDocs(r)
  <2>0. PICK evs : evs = StoreEvents(rd[r].after)
    OBVIOUS
  <2>b. Sortable(evs)
    BY <1>0, <2>0, StorePage, EmptyStorePage
  <2>1. Sortable(evs) /\ evs \in SUBSET Event
    BY <2>b DEF Sortable
  <2>3. rd' = [rd EXCEPT ![r] = Made(rd[r], "got", rd[r].st, evs)]
    BY <1>0, <1>3, <2>0 DEF ServeDocs, Made, Reader
  <2>4. PICK p : p = Made(rd[r], "got", rd[r].st, evs)
    OBVIOUS
  <2>5. p \in Reader /\ p.pc = "got" /\ p.evs = evs /\ p.after = rd[r].after
    BY <1>0, <2>1, <2>4, ReaderMade
  <2> QED BY <1>0, <1>3, <2>1, <2>3, <2>4, <2>5 DEF ServeDocs
<1>4. CASE CallFails(r)
  <2>1. rd' = [rd EXCEPT ![r] = Made(rd[r], "failed", "unknown", rd[r].evs)]
    BY <1>0, <1>4 DEF CallFails, Failing, Made, Reader
  <2>2. "unknown" \in Statuses /\ faults' \in 0 .. MaxFaults
    BY <1>0, <1>4, StreamBounds DEF CallFails, Statuses, EInv, EngineTypeOK
  <2>3. PICK p : p = Made(rd[r], "failed", "unknown", rd[r].evs)
    OBVIOUS
  <2>4. p \in Reader /\ p.pc = "failed" /\ p.evs = rd[r].evs /\ p.after = rd[r].after
    BY <1>0, <2>2, <2>3, ReaderMade
  <2> QED BY <1>0, <1>4, <2>1, <2>2, <2>3, <2>4 DEF CallFails
<1> QED BY <1>1, <1>2, <1>3, <1>4 DEF Serve

(* One reader's step, as a whole. *)
LEMMA ReaderKeeps ==
  ASSUME HostFits, NEW r \in Readers, NEW p \in Reader, Sortable(p.evs),
         rd' = [rd EXCEPT ![r] = p], claim' \in Readers, faults' \in 0 .. MaxFaults,
         UNCHANGED <<calls, replies, sse>>,
         \/ inbox' = inbox
         \/ /\ Listening /\ inbox' \in Seq(Push)
            /\ \A i \in 1 .. Len(inbox') : Sortable(inbox'[i].evs),
         r = 0 => /\ p.pc \in {"off", "asked", "row", "got", "failed"} /\ p.after = 0
                  /\ p.pc # "off" => calls # <<>>,
         r # 0 => rd[r] # Idle,
         Open => row' # NoRow /\ worker' # "open"
  PROVE  HostFits'
<1>1. /\ Typed' /\ Sorts' /\ CallFits'
      /\ \A g \in Sessions : rd[g] = Idle => rd'[g] = Idle
  BY ReaderStep DEF HostFits
<1>2. PhaseFits'
  BY <1>1, PhaseStays DEF HostFits
<1> QED BY <1>1, <1>2 DEF HostFits

(* The engine's answers keep HostFits. *)
LEMMA ServeKeeps ==
  ASSUME EInv, EInv', HostFits, NEW r \in Readers, Serve(r),
         Open => row' # NoRow /\ worker' # "open"
  PROVE  HostFits'
<1>1. PICK p \in Reader :
           /\ rd' = [rd EXCEPT ![r] = p] /\ Sortable(p.evs) /\ p.after = rd[r].after
           /\ p.pc \in {"row", "got", "failed"}
           /\ rd[r].pc \in {"asked", "row"} /\ claim' = claim /\ faults' \in 0 .. MaxFaults
           /\ UNCHANGED <<calls, replies, inbox, sse>>
  BY ServeMakes DEF HostFits
<1>2. rd[r] # Idle /\ claim \in Readers
  BY <1>1, ReaderFacts DEF HostFits, Typed
<1>3. r = 0 => p.after = 0 /\ calls # <<>>
  BY <1>1 DEF HostFits, CallFits
<1>4. UNCHANGED <<calls, replies, sse>> /\ inbox' = inbox
  BY <1>1
<1>5. p.pc \in {"off", "asked", "row", "got", "failed"}
  BY <1>1
<1> QED BY <1>1, <1>2, <1>3, <1>4, <1>5, ReaderKeeps

(* What a poller's step makes of it. *)
LEMMA PollMakes ==
  ASSUME Typed, Sorts, NEW g \in Sessions, PollCheck(g) \/ PollGot(g) \/ PollFailed(g)
  PROVE  \E p \in Reader :
           /\ rd' = [rd EXCEPT ![g] = p] /\ Sortable(p.evs) /\ rd[g].pc # "off"
           /\ UNCHANGED <<engine, claim, calls, replies, inbox, sse, faults>>
<1>0. /\ g \in Readers /\ rd \in [Readers -> Reader] /\ rd[g] \in Reader /\ rd[g].after \in 0 .. MaxSeq
      /\ rd[g].evs \subseteq Event /\ Sortable(rd[g].evs) /\ MaxSeq \in Nat /\ Sortable({})
      /\ {} \in SUBSET Event /\ Idle \in Reader /\ Sortable(Idle.evs)
  BY ReaderFacts, IdleFacts DEF Typed, Sorts, Sessions, Readers
<1>1. CASE PollCheck(g)
  <2>1. PICK p : p = IF claim = g THEN [rd[g] EXCEPT !.pc = "asked"] ELSE Idle
    OBVIOUS
  <2>2. rd' = [rd EXCEPT ![g] = p]
    BY <1>0, <1>1, <2>1 DEF PollCheck
  <2>3. p = Idle \/ (p \in Reader /\ p.evs = rd[g].evs)
    BY <1>0, <2>1 DEF Reader
  <2> QED BY <1>0, <1>1, <2>2, <2>3 DEF PollCheck
<1>2. CASE PollGot(g)
  <2>1. PICK q : q = [rd[g] EXCEPT !.after = EndOf(rd[g].evs, @), !.fails = 0]
    OBVIOUS
  <2>2. PICK n \in 0 .. MaxSeq : n = EndOf(rd[g].evs, rd[g].after)
    BY <1>0, EndNumber
  <2>a. q = [rd[g] EXCEPT !.after = n, !.fails = 0]
    BY <2>1, <2>2
  <2>b. 0 \in 0 .. MaxRetries /\ rd[g] \in Reader
    BY <1>0, StreamBounds
  <2>3. q \in Reader /\ q.evs = rd[g].evs
    BY <2>a, <2>b DEF Reader
  <2>4. PICK p : /\ rd' = [rd EXCEPT ![g] = p]
                 /\ p \in {Again(q), [q EXCEPT !.pc = "emit"], Idle}
    <3> DEFINE silent == q.evs = {} /\ q.st = "active"
    <3>1. rd' = [rd EXCEPT ![g] = CASE silent -> Again(q)
                                    [] ~silent /\ claim = g -> [q EXCEPT !.pc = "emit"]
                                    [] OTHER -> Idle]
      BY <1>2, <2>1 DEF PollGot
    <3> HIDE DEF silent
    <3>2. CASE silent
      BY <3>1, <3>2
    <3>3. CASE ~silent /\ claim = g
      BY <3>1, <3>3
    <3>4. CASE ~silent /\ claim # g
      BY <3>1, <3>4
    <3> QED BY <3>2, <3>3, <3>4
  <2>5. Again(q) \in Reader /\ Again(q).evs = {}
    BY <2>3 DEF Again, Reader, Statuses
  <2>6. [q EXCEPT !.pc = "emit"] \in Reader /\ [q EXCEPT !.pc = "emit"].evs = rd[g].evs
    BY <2>3 DEF Reader
  <2>7. p \in Reader /\ Sortable(p.evs)
    BY <1>0, <2>4, <2>5, <2>6
  <2> QED BY <1>0, <1>2, <2>4, <2>7 DEF PollGot
<1>3. CASE PollFailed(g)
  <2>1. CASE rd[g].fails < MaxRetries /\ rd' = [rd EXCEPT ![g] = Again([rd[g] EXCEPT !.fails = rd[g].fails + 1])]
    <3>1. PICK q : q = [rd[g] EXCEPT !.fails = rd[g].fails + 1]
      OBVIOUS
    <3>2. rd[g].fails + 1 \in 0 .. MaxRetries
      BY <1>0, <2>1, StreamBounds DEF Reader
    <3>3. q \in Reader
      BY <1>0, <3>1, <3>2 DEF Reader
    <3>4. PICK p : p = Again(q)
      OBVIOUS
    <3>5. p \in Reader /\ p.evs = {}
      BY <3>3, <3>4 DEF Again, Reader, Statuses
    <3> QED BY <1>0, <1>3, <2>1, <3>1, <3>4, <3>5 DEF PollFailed
  <2>2. CASE rd' = [rd EXCEPT ![g] = IF claim = g
                                  THEN [rd[g] EXCEPT !.pc = "emit", !.st = "error", !.evs = {}]
                                  ELSE Idle]
    <3>1. PICK p : p = IF claim = g
                       THEN [rd[g] EXCEPT !.pc = "emit", !.st = "error", !.evs = {}]
                       ELSE Idle
      OBVIOUS
    <3>2. p = Idle \/ (p \in Reader /\ p.evs = {})
      BY <1>0, <3>1 DEF Reader, Statuses, Settled
    <3> QED BY <1>0, <1>3, <2>2, <3>1, <3>2 DEF PollFailed
  <2>3. \/ rd[g].fails < MaxRetries /\ rd' = [rd EXCEPT ![g] = Again([rd[g] EXCEPT !.fails = rd[g].fails + 1])]
        \/ rd' = [rd EXCEPT ![g] = IF claim = g
                                  THEN [rd[g] EXCEPT !.pc = "emit", !.st = "error", !.evs = {}]
                                  ELSE Idle]
    BY <1>3 DEF PollFailed
  <2> QED BY <2>1, <2>2, <2>3
<1> QED BY <1>1, <1>2, <1>3

(* A poller's steps keep HostFits. *)
LEMMA PollKeeps ==
  ASSUME HostFits, NEW g \in Sessions, PollCheck(g) \/ PollGot(g) \/ PollFailed(g)
  PROVE  HostFits'
<1>1. PICK p \in Reader :
           /\ rd' = [rd EXCEPT ![g] = p] /\ Sortable(p.evs) /\ rd[g].pc # "off"
           /\ UNCHANGED <<engine, claim, calls, replies, inbox, sse, faults>>
  BY PollMakes DEF HostFits
<1>2. g \in Readers /\ g # 0
  BY DEF Sessions, Readers
<1>3. rd[g] # Idle /\ claim' \in Readers /\ faults' \in 0 .. MaxFaults
  BY <1>1, <1>2, ReaderFacts DEF HostFits, Typed
<1>4. UNCHANGED <<calls, replies, sse>> /\ inbox' = inbox
  BY <1>1
<1>5. Open => row' # NoRow /\ worker' # "open"
  BY <1>1 DEF HostFits, PhaseFits, engine
<1> QED BY <1>1, <1>2, <1>3, <1>4, <1>5, ReaderKeeps

(* An emit keeps HostFits. *)
LEMMA EmitKeeps ==
  ASSUME HostFits, NEW g \in Sessions, PollEmit(g)
  PROVE  HostFits'
<1>0. g \in Readers /\ g # 0 /\ rd[g] \in Reader /\ rd[g] # Idle /\ Sortable(rd[g].evs) /\ 0 \in Readers
  <2>1. g \in Readers /\ g # 0 /\ 0 \in Readers
    BY StreamBounds DEF Sessions, Readers
  <2> QED BY <2>1, ReaderFacts DEF PollEmit, HostFits, Sorts
<1>1. PICK p : rd' = [rd EXCEPT ![g] = p] /\ p \in {Idle, Again(rd[g])}
  BY DEF PollEmit
<1>2. Again(rd[g]) \in Reader /\ Again(rd[g]).evs = {}
  BY <1>0 DEF Again, Reader, Statuses
<1>3. p \in Reader /\ Sortable(p.evs)
  BY <1>1, <1>2, IdleFacts
<1>4. claim' \in Readers /\ faults' \in 0 .. MaxFaults
  BY <1>0 DEF PollEmit, HostFits, Typed
<1>5. \/ inbox' = inbox
      \/ /\ Listening /\ inbox' \in Seq(Push)
         /\ \A i \in 1 .. Len(inbox') : Sortable(inbox'[i].evs)
  <2>1. CASE ~Listening
    BY <2>1 DEF PollEmit
  <2>2. CASE Listening
    <3>1. PICK x : x = [gen |-> g, st |-> rd[g].st, evs |-> rd[g].evs]
      OBVIOUS
    <3>2. x \in Push /\ x.evs = rd[g].evs
      BY <1>0, <3>1 DEF Push, Reader
    <3>3. inbox' = Append(inbox, x) /\ inbox \in Seq(Push)
      BY <2>2, <3>1 DEF PollEmit, HostFits, Typed
    <3>4. /\ inbox' \in Seq(Push) /\ Len(inbox) \in Nat /\ Len(inbox') = Len(inbox) + 1
          /\ \A i \in 1 .. Len(inbox) : inbox'[i] = inbox[i]
          /\ inbox'[Len(inbox) + 1] = x
      BY <3>2, <3>3, GrownFacts
    <3>5. ASSUME NEW i \in 1 .. Len(inbox') PROVE Sortable(inbox'[i].evs)
      <4>1. i \in 1 .. Len(inbox) \/ i = Len(inbox) + 1
        BY <3>4
      <4> QED BY <1>0, <3>2, <3>4, <4>1 DEF HostFits, Sorts
    <3> QED BY <2>2, <3>4, <3>5
  <2> QED BY <2>1, <2>2
<1>6. UNCHANGED <<calls, replies, sse>> /\ (Open => row' # NoRow /\ worker' # "open")
  BY DEF PollEmit, HostFits, PhaseFits, engine
<1> QED BY <1>0, <1>1, <1>3, <1>4, <1>5, <1>6, ReaderKeeps

(* The command takes the first call. *)
LEMMA CmdStartKeeps ==
  ASSUME HostFits, CmdStart
  PROVE  HostFits'
<1>0. 0 \in Readers /\ rd[0] \in Reader /\ rd \in [Readers -> Reader] /\ Sortable(rd[0].evs) /\ rd[0].after = 0
  <2>1. 0 \in Readers
    BY StreamBounds DEF Readers
  <2> QED BY <2>1, ReaderFacts DEF HostFits, Typed, Sorts, CallFits
<1>1. PICK p : p = [rd[0] EXCEPT !.pc = "asked"]
  OBVIOUS
<1>2. p \in Reader /\ p.pc = "asked" /\ p.evs = rd[0].evs /\ p.after = rd[0].after
  BY <1>0, <1>1 DEF Reader
<1>3. rd' = [rd EXCEPT ![0] = p]
  BY <1>0, <1>1 DEF CmdStart
<1>4. UNCHANGED <<calls, replies, sse>> /\ (Open => row' # NoRow /\ worker' # "open") /\ inbox' = inbox
      /\ calls # <<>> /\ claim' \in Readers /\ faults' \in 0 .. MaxFaults
  BY DEF CmdStart, HostFits, PhaseFits, engine, Typed
<1> QED BY <1>0, <1>2, <1>3, <1>4, ReaderKeeps

(* The engine dies: calls fail. *)
LEMMA DiesKeeps ==
  ASSUME HostFits, EngineDies
  PROVE  HostFits'
<1>0. /\ claim' = claim /\ calls' = calls /\ replies' = replies /\ inbox' = inbox
      /\ sse' = sse /\ faults' = faults /\ row' = row /\ worker' = "none"
  BY DEF EngineDies, Crash
<1>1. ASSUME NEW r \in Readers
      PROVE  /\ rd'[r] \in Reader /\ Sortable(rd'[r].evs) /\ rd'[r].after = rd[r].after
             /\ rd'[r].pc = rd[r].pc \/ (rd[r].pc \in {"asked", "row"} /\ rd'[r].pc = "failed")
             /\ rd[r] = Idle => rd'[r] = Idle
  <2>1. rd'[r] = IF rd[r].pc \in {"asked", "row"} THEN Failing(rd[r]) ELSE rd[r]
    BY DEF EngineDies
  <2>2. rd[r] \in Reader /\ Sortable(rd[r].evs) /\ (rd[r].pc # "off" => rd[r] # Idle)
    BY ReaderFacts DEF HostFits, Sorts
  <2>3. CASE rd[r].pc \in {"asked", "row"}
    <3>1. Failing(rd[r]) \in Reader /\ Failing(rd[r]).evs = rd[r].evs /\ Failing(rd[r]).pc = "failed"
          /\ Failing(rd[r]).after = rd[r].after
      BY <2>2 DEF Failing, Reader, Statuses
    <3> QED BY <2>1, <2>2, <2>3, <3>1
  <2>4. CASE rd[r].pc \notin {"asked", "row"}
    BY <2>1, <2>2, <2>4
  <2> QED BY <2>3, <2>4
<1>2. rd' \in [Readers -> Reader]
  <2>1. rd' = [r \in Readers |-> rd'[r]]
    BY DEF EngineDies
  <2> QED BY <1>1, <2>1
<1>3. Typed' /\ Sorts'
  BY <1>0, <1>1, <1>2 DEF HostFits, Typed, Sorts
<1>4. 0 \in Readers /\ Sessions \subseteq Readers
  BY StreamBounds DEF Readers, Sessions
<1>5. \A g \in Sessions : rd[g] = Idle => rd'[g] = Idle
  BY <1>1, <1>4
<1>6. /\ rd'[0].pc \in {"off", "asked", "row", "got", "failed"} /\ rd'[0].after = 0
      /\ rd'[0].pc # "off" => calls # <<>>
  BY <1>1, <1>4 DEF HostFits, CallFits
<1>7. CallFits'
  BY <1>0, <1>5, <1>6 DEF HostFits, CallFits
<1>8. Open => row' # NoRow /\ worker' # "open"
  BY <1>0 DEF HostFits, PhaseFits
<1>9. PhaseFits'
  BY <1>0, <1>5, <1>8, PhaseStays DEF HostFits
<1> QED BY <1>3, <1>7, <1>9 DEF HostFits

(* The host and the webview stay. *)
LEMMA HostStays ==
  ASSUME HostFits, UNCHANGED host, Open => row' # NoRow /\ worker' # "open"
  PROVE  HostFits'
<1>0. /\ claim' = claim /\ calls' = calls /\ replies' = replies /\ inbox' = inbox
      /\ sse' = sse /\ faults' = faults /\ rd' = rd
  BY DEF host
<1>1. Typed' /\ Sorts' /\ CallFits'
  BY <1>0 DEF HostFits, Typed, Sorts, CallFits
<1>2. PhaseFits'
  BY <1>0, PhaseStays DEF HostFits
<1> QED BY <1>1, <1>2 DEF HostFits

(* The first call leaves the queue. *)
LEMMA CallLeaves ==
  ASSUME Typed, CallFits, calls # <<>>, calls' = Tail(calls), sse' = sse
  PROVE  /\ Head(calls) \in Sessions /\ Head(calls) \in Readers /\ Head(calls) # 0
         /\ Head(calls) <= sse.id
         /\ calls' \in Seq(Sessions)
         /\ \A i \in 1 .. Len(calls)' : calls'[i] <= sse.id
         /\ \A i, j \in 1 .. Len(calls)' : i < j => calls'[i] < calls'[j]
         /\ Head(calls) = sse.id => Called /\ ~Called'
         /\ Head(calls) # sse.id => (Called' <=> Called)
<1>0. calls \in Seq(Sessions)
  BY DEF Typed
<1>1. /\ Len(calls) \in Nat \ {0} /\ Head(calls) \in Sessions /\ Head(calls) = calls[1]
      /\ calls' \in Seq(Sessions) /\ Len(calls)' = Len(calls) - 1
      /\ \A i \in 1 .. Len(calls) - 1 : calls'[i] = calls[i + 1]
  BY <1>0, QueueFacts
<1>2. Head(calls) \in Readers /\ Head(calls) # 0
  BY <1>1 DEF Sessions, Readers
<1>3. 1 \in 1 .. Len(calls) /\ \A i \in 1 .. Len(calls)' : i \in 1 .. Len(calls) - 1 /\ i + 1 \in 1 .. Len(calls) /\ 1 < i + 1
  BY <1>1
<1>4. \A i \in 1 .. Len(calls)' : calls'[i] <= sse.id
  BY <1>1, <1>3 DEF CallFits
<1>5. ASSUME NEW i \in 1 .. Len(calls)', NEW j \in 1 .. Len(calls)', i < j PROVE calls'[i] < calls'[j]
  <2>1. i + 1 < j + 1
    BY <1>1, <1>5
  <2> QED BY <1>1, <1>3, <2>1 DEF CallFits
<1>6. Head(calls) <= sse.id
  BY <1>1, <1>3 DEF CallFits
<1>7. ASSUME Head(calls) = sse.id PROVE Called /\ ~Called'
  <2>1. Called
    BY <1>1, <1>3, <1>7 DEF Called
  <2>2. \A i \in 1 .. Len(calls)' : calls[1] < calls[i + 1] /\ calls'[i] = calls[i + 1]
    BY <1>1, <1>3 DEF CallFits
  <2>3. sse.id \in Nat /\ calls[1] = sse.id
    BY <1>1, <1>7 DEF Sessions
  <2>4. \A i \in 1 .. Len(calls)' : calls'[i] # sse.id
    <3> SUFFICES ASSUME NEW i \in 1 .. Len(calls)', calls'[i] = sse.id PROVE FALSE
      OBVIOUS
    <3> QED BY <2>2, <2>3
  <2> QED BY <2>1, <2>4 DEF Called
<1>8. ASSUME Head(calls) # sse.id PROVE Called' <=> Called
  <2>1. ASSUME Called PROVE Called'
    <3>1. PICK i \in 1 .. Len(calls) : calls[i] = sse.id
      BY <2>1 DEF Called
    <3>2. i # 1
      BY <1>1, <1>8, <3>1
    <3>3. i - 1 \in 1 .. Len(calls) - 1 /\ calls'[i - 1] = calls[(i - 1) + 1] /\ (i - 1) + 1 = i
      BY <1>1, <3>2
    <3>4. i - 1 \in 1 .. Len(calls)' /\ calls'[i - 1] = sse'.id
      BY <1>1, <3>1, <3>3
    <3> QED BY <3>4 DEF Called
  <2>2. ASSUME Called' PROVE Called
    <3>1. PICK i \in 1 .. Len(calls)' : calls'[i] = sse.id
      BY <2>2 DEF Called
    <3> QED BY <1>1, <1>3, <3>1 DEF Called
  <2> QED BY <2>1, <2>2
<1> QED BY <1>1, <1>2, <1>4, <1>5, <1>6, <1>7, <1>8

(* What the command leaves: its reader, the poller of the session it served,   *)
(* and the answer, when somebody waits for it.                                 *)
LEMMA CommandKeeps ==
  ASSUME HostFits, calls # <<>>, calls' = Tail(calls), sse' = sse, inbox' = inbox, faults' = faults,
         claim' \in Readers, row' = row, worker' = worker, NEW s, s = Head(calls),
         rd' \in [Readers -> Reader], rd'[0] = Idle, Sortable(rd'[s].evs),
         \A r \in Readers : r # 0 /\ r # s => rd'[r] = rd[r],
         NEW page \in Reply, page.gen = s, Sortable(page.evs), Answer(page)
  PROVE  HostFits'
<1>0. HostFits /\ Typed /\ Sorts /\ CallFits /\ PhaseFits
  BY DEF HostFits
<1>1. /\ s \in Sessions /\ s \in Readers /\ s # 0 /\ s <= sse.id
      /\ calls' \in Seq(Sessions)
      /\ \A i \in 1 .. Len(calls)' : calls'[i] <= sse.id
      /\ \A i, j \in 1 .. Len(calls)' : i < j => calls'[i] < calls'[j]
      /\ s = sse.id => Called /\ ~Called'
      /\ s # sse.id => (Called' <=> Called)
  BY <1>0, CallLeaves
<1>2. 0 \in Readers /\ Sessions \subseteq Readers /\ sse \in Session /\ sse.id \in Nat
  <2>1. sse \in Session /\ sse.id \in 0 .. MaxSessions
    BY <1>0 DEF Typed, Session
  <2> QED BY <2>1, StreamBounds DEF Readers, Sessions
<1>3. replies' \in Seq(Reply) /\ \A i \in 1 .. Len(replies') : Sortable(replies'[i].evs)
  <2>1. CASE Open /\ s = sse.id
    <3>1. replies' = <<page>>
      BY <2>1 DEF Answer
    <3> QED BY <3>1
  <2>2. CASE ~(Open /\ s = sse.id)
    <3>1. replies' = replies
      BY <2>2 DEF Answer
    <3> QED BY <1>0, <3>1 DEF Typed, Sorts
  <2> QED BY <2>1, <2>2
<1>4. Typed'
  BY <1>0, <1>1, <1>2, <1>3 DEF Typed
<1>5. \A r \in Readers : Sortable(rd'[r].evs)
  BY <1>0, <1>2, IdleFacts DEF Sorts
<1>6. Sorts'
  BY <1>0, <1>3, <1>5 DEF Sorts
<1>7. \A g \in Sessions : g > sse.id => rd'[g] = Idle
  <2> SUFFICES ASSUME NEW g \in Sessions, g > sse.id PROVE rd'[g] = Idle
    OBVIOUS
  <2>1. g # s /\ g # 0 /\ g \in Readers
    BY <1>1, <1>2 DEF Sessions
  <2>2. rd'[g] = rd[g]
    BY <2>1
  <2> QED BY <1>0, <2>2 DEF CallFits
<1>8. CallFits'
  BY <1>1, <1>7, IdleFacts DEF CallFits
<1>9. PhaseFits'
  <2>1. CASE s = sse.id
    <3>1. Called /\ ~Called'
      BY <1>1, <2>1
    <3>2. sse.phase # "connecting" /\ sse.phase # "live"
      BY <1>0, <3>1 DEF PhaseFits
    <3>3. CASE Open
      <4>1. replies' = <<page>>
        BY <2>1, <3>3 DEF Answer
      <4>2. replies' # <<>> /\ Len(replies') = 1 /\ replies'[1].gen = sse.id
        BY <2>1, <4>1
      <4>3. Open' /\ (Listening' <=> Listening)
        BY <3>3 DEF Open, Listening
      <4> QED BY <1>0, <3>1, <3>2, <3>3, <4>2, <4>3 DEF PhaseFits
    <3>4. CASE ~Open
      <4>1. replies' = replies
        BY <3>4 DEF Answer
      <4>2. ~Open' /\ (Listening' <=> Listening) /\ sse.phase = "closed"
        BY <3>4 DEF Open, Listening
      <4> QED BY <1>0, <3>1, <3>4, <4>1, <4>2 DEF PhaseFits
    <3> QED BY <3>3, <3>4
  <2>2. CASE s # sse.id
    <3>1. replies' = replies
      BY <2>2 DEF Answer
    <3>2. (Open' <=> Open) /\ (Listening' <=> Listening) /\ (Called' <=> Called)
      BY <1>1, <2>2 DEF Open, Listening
    <3>3. sse.id > 0 => rd'[sse.id] = rd[sse.id]
      <4>1. sse.id > 0 => sse.id \in Readers /\ sse.id # 0
        BY <1>2 DEF Session, Readers
      <4> QED BY <2>2, <4>1
    <3>4. (Called => sse.id > 0) /\ (sse.phase = "connecting" => sse.id > 0)
      <4>1. Called => sse.id \in Sessions
        BY <1>0 DEF Called, Typed
      <4> QED BY <1>0, <4>1 DEF PhaseFits, Open, Sessions
    <3> QED BY <1>0, <3>1, <3>2, <3>3, <3>4 DEF PhaseFits
  <2> QED BY <2>1, <2>2
<1> QED BY <1>4, <1>6, <1>8, <1>9 DEF HostFits

(* The command ends with a page. *)
LEMMA CmdGotKeeps ==
  ASSUME HostFits, CmdGot
  PROVE  HostFits'
<1>0. Typed /\ Sorts /\ CallFits /\ 0 \in Readers /\ calls # <<>> /\ calls \in Seq(Sessions)
  BY StreamBounds DEF HostFits, CmdGot, CallFits, Readers, Typed
<1>1. PICK s : s = Head(calls)
  OBVIOUS
<1>2. s \in Sessions /\ s \in Readers /\ s # 0
  <2>1. s \in Sessions
    BY <1>0, <1>1, QueueFacts
  <2> QED BY <2>1 DEF Sessions, Readers
<1>3. /\ rd \in [Readers -> Reader] /\ rd[0].evs \subseteq Event /\ rd[0].st \in Statuses
      /\ Sortable(rd[0].evs) /\ MaxSeq \in Nat
  BY <1>0, ReaderFacts DEF Typed, Sorts
<1>4. PICK n \in 0 .. MaxSeq : n = ResumeCursor(rd[0].evs)
  BY <1>3, EndNumber DEF ResumeCursor
<1>5. PICK p : p = [Idle EXCEPT !.pc = "check", !.after = n]
  OBVIOUS
<1>6. p \in Reader /\ p.evs = {}
  BY <1>4, <1>5, IdleFacts DEF Reader
<1>7. rd' = [rd EXCEPT ![0] = Idle, ![s] = p]
  BY <1>1, <1>4, <1>5 DEF CmdGot
<1>8. /\ rd' \in [Readers -> Reader] /\ rd'[0] = Idle /\ rd'[s] = p
      /\ \A r \in Readers : r # 0 /\ r # s => rd'[r] = rd[r]
  BY <1>0, <1>2, <1>3, <1>6, <1>7, IdleFacts
<1>9. PICK page : page = [gen |-> s, st |-> rd[0].st, evs |-> rd[0].evs]
  OBVIOUS
<1>10. page \in Reply /\ page.gen = s /\ Sortable(page.evs)
  BY <1>2, <1>3, <1>9 DEF Reply
<1>11. Answer(page)
  BY <1>1, <1>9 DEF CmdGot
<1>12. /\ calls' = Tail(calls) /\ sse' = sse /\ inbox' = inbox /\ faults' = faults
       /\ claim' = s /\ row' = row /\ worker' = worker
  BY <1>1 DEF CmdGot, engine
<1>13. Sortable(rd'[s].evs)
  BY <1>6, <1>8, IdleFacts
<1> QED BY <1>0, <1>1, <1>2, <1>8, <1>10, <1>11, <1>12, <1>13, CommandKeeps

(* The command ends with a failure. *)
LEMMA CmdFailedKeeps ==
  ASSUME HostFits, CmdFailed
  PROVE  HostFits'
<1>0. Typed /\ Sorts /\ CallFits /\ 0 \in Readers /\ calls # <<>> /\ calls \in Seq(Sessions)
      /\ rd \in [Readers -> Reader]
  BY StreamBounds DEF HostFits, CmdFailed, CallFits, Readers, Typed
<1>1. PICK s : s = Head(calls)
  OBVIOUS
<1>2. s \in Sessions /\ s \in Readers /\ s # 0
  <2>1. s \in Sessions
    BY <1>0, <1>1, QueueFacts
  <2> QED BY <2>1 DEF Sessions, Readers
<1>3. rd' = [rd EXCEPT ![0] = Idle]
  BY DEF CmdFailed
<1>4. /\ rd' \in [Readers -> Reader] /\ rd'[0] = Idle
      /\ \A r \in Readers : r # 0 => rd'[r] = rd[r]
  BY <1>0, <1>3, IdleFacts
<1>5. PICK page : page = [gen |-> s, st |-> "failed", evs |-> {}]
  OBVIOUS
<1>6. page \in Reply /\ page.gen = s /\ Sortable(page.evs)
  BY <1>2, <1>5, IdleFacts DEF Reply
<1>7. Answer(page)
  BY <1>1, <1>5 DEF CmdFailed
<1>8. /\ calls' = Tail(calls) /\ sse' = sse /\ inbox' = inbox /\ faults' = faults
      /\ claim' \in Readers /\ row' = row /\ worker' = worker
  BY <1>0 DEF CmdFailed, engine, Typed
<1>9. Sortable(rd'[s].evs)
  BY <1>0, <1>2, <1>4 DEF Sorts
<1>10. \A r \in Readers : r # 0 /\ r # s => rd'[r] = rd[r]
  BY <1>4
<1> QED BY <1>0, <1>1, <1>4, <1>6, <1>7, <1>8, <1>9, <1>10, CommandKeeps

(* A call is a session's. *)
LEMMA CallNumbers ==
  ASSUME Typed, NEW i \in 1 .. Len(calls)
  PROVE  calls[i] \in Sessions /\ calls[i] \in Nat
<1>1. calls \in Seq(Sessions)
  BY DEF Typed
<1>2. calls[i] \in Sessions
  BY <1>1
<1> QED BY <1>2 DEF Sessions

(* A step of the webview that leaves the host alone. *)
LEMMA WebviewParts ==
  ASSUME HostFits, sse' \in Session, sse'.id = sse.id, calls' = calls, rd' = rd, claim' = claim,
         faults' \in 0 .. MaxFaults, inbox' \in Seq(Push), replies' \in {replies, <<>>},
         \A i \in 1 .. Len(inbox') : Sortable(inbox'[i].evs),
         \A i \in 1 .. Len(sse'.held) : Sortable(sse'.held[i].evs)
  PROVE  Typed' /\ Sorts' /\ CallFits' /\ (Called' <=> Called)
<1>0. Typed /\ Sorts /\ CallFits
  BY DEF HostFits
<1>1. replies' \in Seq(Reply) /\ \A i \in 1 .. Len(replies') : Sortable(replies'[i].evs)
  <2>1. CASE replies' = replies
    BY <1>0, <2>1 DEF Typed, Sorts
  <2>2. CASE replies' = <<>>
    BY <2>2
  <2> QED BY <2>1, <2>2
<1>2. Typed'
  BY <1>0, <1>1 DEF Typed
<1>3. Sorts'
  BY <1>0, <1>1 DEF Sorts
<1>4. CallFits'
  BY <1>0 DEF CallFits
<1>5. Called' <=> Called
  BY DEF Called
<1> QED BY <1>2, <1>3, <1>4, <1>5

(* A session ends. *)
LEMMA EndKeeps ==
  ASSUME HostFits, Open, sse' \in Session, sse'.id = sse.id, sse'.phase = "closed", sse'.held = <<>>,
         calls' = calls, rd' = rd, claim' = claim, faults' \in 0 .. MaxFaults,
         inbox' = <<>>, replies' = <<>>
  PROVE  HostFits'
<1>0. inbox' \in Seq(Push) /\ \A i \in 1 .. Len(inbox') : Sortable(inbox'[i].evs)
  OBVIOUS
<1>1. Typed' /\ Sorts' /\ CallFits' /\ (Called' <=> Called)
  BY <1>0, WebviewParts
<1>2. ~Open' /\ ~Listening'
  BY DEF Open, Listening
<1>3. Called' => rd'[sse'.id] = Idle
  BY <1>1 DEF HostFits, PhaseFits
<1>4. PhaseFits'
  BY <1>2, <1>3 DEF PhaseFits
<1> QED BY <1>1, <1>4 DEF HostFits

(* close keeps HostFits. *)
LEMMA CloseKeeps ==
  ASSUME HostFits, Close
  PROVE  HostFits'
<1>0. /\ sse \in Session /\ Open /\ sse' = Closed(sse, "abort") /\ calls' = calls /\ rd' = rd
      /\ claim' = claim /\ faults' \in 0 .. MaxFaults /\ replies' = <<>> /\ inbox' = <<>>
  BY DEF HostFits, Typed, Close, Becomes
<1>1. sse' \in Session /\ sse'.id = sse.id /\ sse'.phase = "closed" /\ sse'.held = <<>>
  BY <1>0, ClosedFacts
<1> QED BY <1>0, <1>1, EndKeeps

(* So does a listen that fails, *)
LEMMA ListenFailsKeeps ==
  ASSUME HostFits, ListenFails
  PROVE  HostFits'
<1>0. /\ sse \in Session /\ sse' = Closed(sse, "error") /\ calls' = calls /\ rd' = rd
      /\ claim' = claim /\ replies' = replies /\ inbox' = inbox /\ sse.phase = "connecting"
  BY DEF HostFits, Typed, ListenFails
<1>1. Open /\ replies = <<>> /\ inbox = <<>>
  BY <1>0 DEF Open, Listening, HostFits, PhaseFits
<1>2. faults' \in 0 .. MaxFaults
  BY StreamBounds DEF ListenFails, HostFits, Typed
<1>3. sse' \in Session /\ sse'.id = sse.id /\ sse'.phase = "closed" /\ sse'.held = <<>>
  BY <1>0, ClosedFacts
<1> QED BY <1>0, <1>1, <1>2, <1>3, EndKeeps

(* a new session, *)
LEMMA ConnectKeeps ==
  ASSUME EInv, HostFits, Connect
  PROVE  HostFits'
<1>0. Typed /\ Sorts /\ CallFits /\ PhaseFits /\ sse.id \in 0 .. MaxSessions /\ sse.id < MaxSessions
  BY DEF HostFits, Connect, Typed, Session
<1>a. PICK o \in [Sessions -> 0 .. MaxTurns] : o = [sse.opened EXCEPT ![sse.id + 1] = turn]
  <2>1. sse.opened \in [Sessions -> 0 .. MaxTurns] /\ turn \in 0 .. MaxTurns
    BY <1>0 DEF Typed, Session, EInv, EngineTypeOK
  <2> QED BY <2>1
<1>1. /\ calls' = calls /\ rd' = rd /\ claim' = claim /\ replies' = replies /\ inbox' = inbox
      /\ faults' = faults /\ row' # NoRow /\ worker' # "open" /\ ~Open
  BY DEF Connect, engine
<1>2. sse' = [id |-> sse.id + 1, phase |-> "connecting", held |-> <<>>, screen |-> <<>>,
              heard |-> {}, end |-> "none", opened |-> o]
  BY <1>a DEF Connect, NoSession
<1>3. /\ sse' \in Session /\ sse'.id = sse.id + 1 /\ sse'.phase = "connecting" /\ sse'.held = <<>>
      /\ sse'.screen = <<>> /\ sse'.heard = {} /\ sse'.end = "none"
  <2>1. <<>> \in Seq(Push) /\ <<>> \in Seq(Event) /\ sse.id + 1 \in 0 .. MaxSessions
    BY <1>0, StreamBounds
  <2> QED BY <1>2, <2>1 DEF Session
<1>4. replies = <<>> /\ inbox = <<>>
  BY <1>0, <1>1 DEF PhaseFits, Open, Listening
<1>5. Typed'
  BY <1>0, <1>1, <1>3 DEF Typed
<1>6. Sorts'
  BY <1>0, <1>1, <1>3 DEF Sorts
<1>7. sse'.id \in Sessions /\ sse.id \in Nat /\ sse'.id > sse.id
  BY <1>0, <1>3, StreamBounds DEF Sessions
<1>8. \A i \in 1 .. Len(calls) : calls[i] <= sse'.id /\ calls[i] # sse'.id
  <2> SUFFICES ASSUME NEW i \in 1 .. Len(calls) PROVE calls[i] <= sse'.id /\ calls[i] # sse'.id
    OBVIOUS
  <2>1. calls[i] \in Nat /\ calls[i] <= sse.id
    BY <1>0, CallNumbers DEF CallFits
  <2> QED BY <1>3, <1>7, <2>1
<1>9. \A g \in Sessions : g > sse'.id => rd[g] = Idle
  <2> SUFFICES ASSUME NEW g \in Sessions, g > sse'.id PROVE g > sse.id
    BY <1>0 DEF CallFits
  <2> QED BY <1>3, <1>7 DEF Sessions
<1>10. CallFits'
  BY <1>0, <1>1, <1>8, <1>9 DEF CallFits
<1>11. ~Called' /\ Open' /\ ~Listening'
  BY <1>1, <1>3, <1>8 DEF Called, Open, Listening
<1>12. rd[sse'.id] = Idle
  BY <1>0, <1>7 DEF CallFits
<1>13. sse'.id > 0
  BY <1>7 DEF Sessions
<1>14. PhaseFits'
  BY <1>1, <1>3, <1>4, <1>11, <1>12, <1>13 DEF PhaseFits
<1> QED BY <1>5, <1>6, <1>10, <1>14 DEF HostFits

(* a listen that succeeds, *)
LEMMA ListenKeeps ==
  ASSUME HostFits, Listen
  PROVE  HostFits'
<1>0. /\ Typed /\ Sorts /\ CallFits /\ PhaseFits /\ sse \in Session /\ sse.phase = "connecting"
      /\ calls \in Seq(Sessions)
  BY DEF HostFits, Listen, Typed
<1>1. /\ calls' = Append(calls, sse.id) /\ rd' = rd /\ claim' = claim /\ replies' = replies
      /\ inbox' = inbox /\ faults' = faults /\ row' = row /\ worker' = worker
      /\ sse' = [sse EXCEPT !.phase = "waiting"]
  BY DEF Listen, engine
<1>2. /\ sse' \in Session /\ sse'.id = sse.id /\ sse'.phase = "waiting" /\ sse'.held = sse.held
      /\ sse'.screen = sse.screen /\ sse'.heard = sse.heard /\ sse'.end = sse.end
  BY <1>0, <1>1 DEF Session
<1>3. Open /\ ~Listening /\ ~Called /\ sse.id > 0 /\ replies = <<>> /\ rd[sse.id] = Idle
  BY <1>0 DEF Open, Listening, PhaseFits
<1>4. sse.id \in Sessions
  BY <1>0, <1>3, StreamBounds DEF Session, Sessions
<1>5. /\ calls' \in Seq(Sessions) /\ Len(calls) \in Nat /\ Len(calls') = Len(calls) + 1
      /\ \A i \in 1 .. Len(calls) : calls'[i] = calls[i]
      /\ calls'[Len(calls) + 1] = sse.id
  BY <1>0, <1>1, <1>4, GrownFacts
<1>6. Typed' /\ Sorts'
  BY <1>0, <1>1, <1>2, <1>5 DEF Typed, Sorts
<1>7. \A i \in 1 .. Len(calls) : calls[i] \in Nat /\ calls[i] < sse.id
  <2> SUFFICES ASSUME NEW i \in 1 .. Len(calls) PROVE calls[i] \in Nat /\ calls[i] < sse.id
    OBVIOUS
  <2>1. calls[i] \in Nat /\ calls[i] <= sse.id /\ calls[i] # sse.id /\ sse.id \in Nat
    <3>1. calls[i] \in Nat /\ sse.id \in Nat
      BY <1>0, <1>4, CallNumbers DEF Sessions
    <3>2. calls[i] <= sse.id /\ calls[i] # sse.id
      BY <1>0, <1>3 DEF CallFits, Called
    <3> QED BY <3>1, <3>2
  <2> QED BY <2>1
<1>8. CallFits'
  <2>1. \A i \in 1 .. Len(calls') : i \in 1 .. Len(calls) \/ i = Len(calls) + 1
    BY <1>5
  <2>2. \A i \in 1 .. Len(calls') : calls'[i] <= sse.id
    BY <1>4, <1>5, <1>7, <2>1 DEF Sessions
  <2>3. ASSUME NEW i \in 1 .. Len(calls'), NEW j \in 1 .. Len(calls'), i < j PROVE calls'[i] < calls'[j]
    <3>1. i \in 1 .. Len(calls)
      BY <1>5, <2>3
    <3>2. CASE j \in 1 .. Len(calls)
      BY <1>0, <1>5, <2>3, <3>1, <3>2 DEF CallFits
    <3>3. CASE j = Len(calls) + 1
      BY <1>5, <1>7, <3>1, <3>3
    <3> QED BY <2>1, <3>2, <3>3
  <2>4. calls' # <<>>
    BY <1>5
  <2> QED BY <1>0, <1>1, <1>2, <2>2, <2>3, <2>4 DEF CallFits
<1>9. Called' /\ Open' /\ Listening'
  <2>1. Len(calls) + 1 \in 1 .. Len(calls')
    BY <1>5
  <2>2. Called'
    BY <1>2, <1>5, <2>1 DEF Called
  <2> QED BY <1>2, <2>2 DEF Open, Listening
<1>10. PhaseFits'
  BY <1>0, <1>1, <1>2, <1>3, <1>9 DEF PhaseFits
<1> QED BY <1>6, <1>8, <1>10 DEF HostFits

(* The pushes that wait, but for the first. *)
LEMMA MailFacts ==
  ASSUME Typed, Sorts, inbox # <<>>
  PROVE  /\ Head(inbox) \in Push /\ Sortable(Head(inbox).evs) /\ Tail(inbox) \in Seq(Push)
         /\ \A i \in 1 .. Len(Tail(inbox)) : Sortable(Tail(inbox)[i].evs)
<1>0. inbox \in Seq(Push)
  BY DEF Typed
<1>1. /\ Len(inbox) \in Nat \ {0} /\ Head(inbox) \in Push /\ Head(inbox) = inbox[1]
      /\ Tail(inbox) \in Seq(Push) /\ Len(Tail(inbox)) = Len(inbox) - 1
      /\ \A i \in 1 .. Len(inbox) - 1 : Tail(inbox)[i] = inbox[i + 1]
  BY <1>0, QueueFacts
<1>2. ASSUME NEW i \in 1 .. Len(Tail(inbox)) PROVE Sortable(Tail(inbox)[i].evs)
  <2>1. i + 1 \in 1 .. Len(inbox) /\ Tail(inbox)[i] = inbox[i + 1]
    BY <1>1
  <2> QED BY <2>1 DEF Sorts
<1>3. 1 \in 1 .. Len(inbox)
  BY <1>1
<1> QED BY <1>1, <1>2, <1>3 DEF Sorts

(* receive keeps HostFits: a push is held or delivered. *)
LEMMA ReceiveKeeps ==
  ASSUME HostFits, Receive
  PROVE  HostFits'
<1>0. /\ Typed /\ Sorts /\ CallFits /\ PhaseFits /\ sse \in Session /\ Listening /\ Open
      /\ faults \in 0 .. MaxFaults /\ inbox # <<>> /\ sse.held \in Seq(Push)
  BY DEF HostFits, Receive, Typed, Listening, Open, Session
<1>1. PICK push : push = Head(inbox)
  OBVIOUS
<1>2. /\ push \in Push /\ Sortable(push.evs) /\ Tail(inbox) \in Seq(Push)
      /\ \A i \in 1 .. Len(Tail(inbox)) : Sortable(Tail(inbox)[i].evs)
  BY <1>0, <1>1, MailFacts
<1>3. /\ calls' = calls /\ rd' = rd /\ claim' = claim /\ replies' = replies /\ faults' = faults
      /\ row' = row /\ worker' = worker
      /\ sse' = IF sse.phase = "live" THEN Deliver(sse, push) ELSE [sse EXCEPT !.held = Append(@, push)]
      /\ inbox' = IF sse'.phase = "closed" THEN <<>> ELSE Tail(inbox)
  BY <1>1 DEF Receive, Becomes, engine
<1>4. CASE sse.phase = "live"
  <2>1. sse' \in Session /\ sse'.id = sse.id /\ Takes(sse, push, sse')
    BY <1>0, <1>2, <1>3, <1>4, DeliverFacts DEF Open
  <2>2. CASE sse'.phase = "closed"
    <3>1. inbox' = <<>> /\ sse'.held = <<>> /\ replies' = <<>>
      BY <1>0, <1>3, <1>4, <2>1, <2>2 DEF Takes, PhaseFits
    <3> QED BY <1>0, <1>3, <2>1, <2>2, <3>1, EndKeeps
  <2>3. CASE sse'.phase # "closed"
    <3>1. sse'.phase = "live" /\ sse'.end = sse.end /\ sse'.held = <<>>
      BY <1>0, <1>4, <2>1, <2>3 DEF Takes, PhaseFits
    <3>2. inbox' = Tail(inbox)
      BY <1>3, <2>3
    <3>3. Typed' /\ Sorts' /\ CallFits' /\ (Called' <=> Called)
      <4>1. \A i \in 1 .. Len(sse'.held) : Sortable(sse'.held[i].evs)
        BY <3>1
      <4> QED BY <1>0, <1>2, <1>3, <2>1, <3>2, <4>1, WebviewParts
    <3>4. Open' /\ Listening'
      BY <3>1 DEF Open, Listening
    <3>5. PhaseFits'
      BY <1>0, <1>3, <1>4, <2>1, <3>1, <3>3, <3>4 DEF PhaseFits
    <3> QED BY <3>3, <3>5 DEF HostFits
  <2> QED BY <2>2, <2>3
<1>5. CASE sse.phase # "live"
  <2>0. sse.phase = "waiting"
    BY <1>0, <1>5 DEF Listening
  <2>1. PICK h : h = Append(sse.held, push)
    OBVIOUS
  <2>2. /\ h \in Seq(Push) /\ Len(sse.held) \in Nat /\ Len(h) = Len(sse.held) + 1
        /\ \A i \in 1 .. Len(sse.held) : h[i] = sse.held[i]
        /\ h[Len(sse.held) + 1] = push
    BY <1>0, <1>2, <2>1, GrownFacts
  <2>3. sse' = [sse EXCEPT !.held = h]
    BY <1>3, <1>5, <2>1
  <2>4. /\ sse' \in Session /\ sse'.id = sse.id /\ sse'.phase = sse.phase /\ sse'.held = h
        /\ sse'.screen = sse.screen /\ sse'.heard = sse.heard /\ sse'.end = sse.end
    BY <1>0, <2>2, <2>3 DEF Session
  <2>5. ASSUME NEW i \in 1 .. Len(sse'.held) PROVE Sortable(sse'.held[i].evs)
    <3>1. i \in 1 .. Len(sse.held) \/ i = Len(sse.held) + 1
      BY <2>2, <2>4
    <3> QED BY <1>0, <1>2, <2>2, <2>4, <3>1 DEF Sorts
  <2>6. inbox' = Tail(inbox)
    BY <1>3, <2>0, <2>4
  <2>7. Typed' /\ Sorts' /\ CallFits' /\ (Called' <=> Called)
    BY <1>0, <1>2, <1>3, <2>4, <2>5, <2>6, WebviewParts
  <2>8. Open' /\ Listening'
    BY <2>0, <2>4 DEF Open, Listening
  <2>9. PhaseFits'
    BY <1>0, <1>3, <2>0, <2>4, <2>7, <2>8 DEF PhaseFits
  <2> QED BY <2>7, <2>9 DEF HostFits
<1> QED BY <1>4, <1>5

(* An answer that is looked at. *)
LEMMA AnswerFacts ==
  ASSUME HostFits, replies # <<>>
  PROVE  /\ sse.phase = "waiting" /\ sse \in Session /\ sse.end = "none" /\ ~Called
         /\ sse.screen = <<>> /\ sse.heard = {}
         /\ Head(replies) = replies[1] /\ replies[1] \in Reply /\ replies[1].gen = sse.id
         /\ Sortable(replies[1].evs) /\ sse.id \in Sessions
         /\ replies[1].st # "failed" => replies[1] \in Push
         /\ \A i \in 1 .. Len(sse.held) : Sortable(sse.held[i].evs)
<1>1. Typed /\ Sorts /\ PhaseFits /\ replies \in Seq(Reply) /\ sse \in Session
  BY DEF HostFits, Typed
<1>2. Head(replies) = replies[1] /\ replies[1] \in Reply /\ Len(replies) = 1
  BY <1>1, QueueFacts DEF PhaseFits
<1>3. 1 \in 1 .. Len(replies)
  BY <1>2
<1>4. Open /\ sse.phase = "waiting"
  BY <1>1 DEF PhaseFits, Open, Session
<1>5. sse.id \in Sessions
  BY <1>1, <1>4, StreamBounds DEF PhaseFits, Session, Sessions
<1>6. replies[1].st # "failed" => replies[1] \in Push
  BY <1>2 DEF Reply, Push
<1> QED BY <1>1, <1>2, <1>3, <1>4, <1>5, <1>6 DEF PhaseFits, Sorts

(* attach keeps HostFits: the page, then what was held. *)
LEMMA AttachedKeeps ==
  ASSUME HostFits, Attached
  PROVE  HostFits'
<1>0. PICK page : page = replies[1]
  OBVIOUS
<1>1. /\ sse.phase = "waiting" /\ sse \in Session /\ sse.end = "none" /\ ~Called
      /\ Head(replies) = page /\ Sortable(page.evs)
      /\ page.st # "failed" => page \in Push
      /\ \A i \in 1 .. Len(sse.held) : Sortable(sse.held[i].evs)
  BY <1>0, AnswerFacts DEF Attached
<1>2. /\ calls' = calls /\ rd' = rd /\ claim' = claim /\ replies' = <<>> /\ faults' \in 0 .. MaxFaults
      /\ row' = row /\ worker' = worker
      /\ inbox' = IF sse'.phase = "closed" THEN <<>> ELSE inbox
  BY DEF Attached, Becomes, engine, HostFits, Typed
<1>3. Open /\ Listening /\ Typed /\ Sorts /\ PhaseFits
  BY <1>1 DEF Open, Listening, HostFits
<1>4. Loose(sse, sse')
  <2>1. CASE page.st # "failed"
    <3>1. PICK d : d = Deliver(sse, page)
      OBVIOUS
    <3>2. sse' = Release(d)
      BY <1>1, <2>1, <3>1 DEF Attached, Becomes
    <3>3. d \in Session /\ d.id = sse.id /\ d.opened = sse.opened /\ Takes(sse, page, d)
      BY <1>1, <2>1, <3>1, DeliverFacts
    <3>4. CASE d.phase = "closed"
      <4>1. d.held = <<>> /\ d.end \in {"final", "error"}
        BY <1>1, <3>3, <3>4 DEF Takes
      <4>2. Release(d) = d
        BY <3>3, <3>4, <4>1, ReleaseClosed
      <4> QED BY <3>2, <3>3, <3>4, <4>1, <4>2 DEF Loose
    <3>5. CASE d.phase # "closed"
      <4>1. d.held = sse.held /\ d.end = "none"
        BY <1>1, <3>3, <3>5 DEF Takes
      <4>2. Loose(d, Release(d))
        BY <1>1, <3>3, <3>5, <4>1, ReleaseLeaves
      <4> QED BY <3>2, <3>3, <4>2 DEF Loose
    <3> QED BY <3>4, <3>5
  <2>2. CASE page.st = "failed"
    <3>1. PICK d : d = Release(sse)
      OBVIOUS
    <3>2. Loose(sse, d) /\ d \in Session
      BY <1>1, <3>1, ReleaseLeaves DEF Loose
    <3>3. sse' = IF d.phase = "closed" THEN d ELSE Closed(d, "error")
      BY <1>1, <2>2, <3>1 DEF Attached, Becomes
    <3>4. PICK x : x = Closed(d, "error")
      OBVIOUS
    <3>5. x \in Session /\ x.id = d.id /\ x.phase = "closed" /\ x.held = <<>> /\ x.end = "error"
          /\ x.opened = d.opened
      BY <3>2, <3>4, ClosedFacts
    <3> QED BY <3>2, <3>3, <3>4, <3>5 DEF Loose
  <2> QED BY <2>1, <2>2
<1>5. CASE sse'.phase = "closed"
  BY <1>2, <1>3, <1>4, <1>5, EndKeeps DEF Loose
<1>6. CASE sse'.phase # "closed"
  <2>1. sse'.phase = "live" /\ sse'.end = "none" /\ sse'.held = <<>> /\ sse'.id = sse.id /\ sse' \in Session
    BY <1>4, <1>6 DEF Loose
  <2>2. inbox' = inbox /\ inbox \in Seq(Push)
    BY <1>2, <1>3, <1>6 DEF Typed
  <2>3. Typed' /\ Sorts' /\ CallFits' /\ (Called' <=> Called)
    <3>1. \A i \in 1 .. Len(sse'.held) : Sortable(sse'.held[i].evs)
      BY <2>1
    <3>2. \A i \in 1 .. Len(inbox') : Sortable(inbox'[i].evs)
      BY <1>3, <2>2 DEF Sorts
    <3> QED BY <1>2, <1>3, <2>1, <2>2, <3>1, <3>2, WebviewParts
  <2>4. Open' /\ Listening'
    BY <2>1 DEF Open, Listening
  <2>5. PhaseFits'
    BY <1>1, <1>2, <1>3, <2>1, <2>3, <2>4 DEF PhaseFits
  <2> QED BY <2>3, <2>5 DEF HostFits
<1> QED BY <1>5, <1>6

StreamInv == EInv /\ TurnFits /\ HostFits

(* What a step does to the engine: the turn stays and its frames grow, unless  *)
(* a new turn begins.                                                          *)
LEMMA EngineOn ==
  ASSUME StreamInv, [Next]_vars
  PROVE  /\ EngineStep /\ EInv' /\ TurnFits'
         /\ ~NewTurn => /\ turn' = turn /\ ~Reserve
                        /\ worker # "open" /\ row # NoRow => Calm
<1>0. turn \in Nat
  BY ChatBounds DEF StreamInv, EInv, EngineTypeOK
<1>1. EngineStep
  BY StreamSteps
<1>2. EInv' /\ TurnFits'
  BY <1>1, EngineKeeps, TurnStep DEF StreamInv
<1>3. ASSUME ~NewTurn PROVE turn' = turn
  <2>1. CASE TurnThread \/ EngineRest \/ EngineDies
    BY <2>1 DEF TurnThread, EngineRest, EngineDies, Thread, OpeningCommit, OpeningFails,
           Delta, FlushCommit, FlushFails, StreamEnds, CommitTerminal, PublishTerminal, CommitFails,
           CancelTurn, EvictSettled, Restart, Crash
  <2>2. CASE UNCHANGED engine
    BY <2>2 DEF engine
  <2>3. CASE \E r \in Readers : Serve(r)
    BY <2>3 DEF Serve, ServeJob, ServeRow, ServeDocs, CallFails, engine
  <2>4. 0 \in Readers /\ Sessions \subseteq Readers
    BY StreamBounds DEF Readers, Sessions
  <2>5. CASE Connect \/ Close \/ Webview
    BY <2>2, <2>5 DEF Connect, Close, Webview, Listen, ListenFails, Receive, Attached
  <2>6. CASE Command
    BY <2>2, <2>3, <2>4, <2>6 DEF Command, CmdStart, CmdGot, CmdFailed
  <2>7. CASE \E g \in Sessions : Poller(g)
    BY <2>2, <2>3, <2>4, <2>7 DEF Poller, PollCheck, PollGot, PollFailed, PollEmit
  <2>8. CASE UNCHANGED vars
    BY <2>2, <2>8 DEF vars
  <2> QED BY <1>3, <2>1, <2>5, <2>6, <2>7, <2>8 DEF Next
<1>4. turn' = turn => ~Reserve
  BY <1>0 DEF Reserve
<1>5. ASSUME ~NewTurn, worker # "open", row # NoRow PROVE Calm
  BY <1>1, <1>2, <1>3, <1>4, <1>5, EngineCalm DEF StreamInv
<1> QED BY <1>1, <1>2, <1>3, <1>4, <1>5

(* What the engine does under an open stream. *)
LEMMA EngineUnder ==
  ASSUME StreamInv, [Next]_vars
  PROVE  /\ EInv' /\ TurnFits'
         /\ Open => Calm
<1>1. Open => ~NewTurn /\ worker # "open" /\ row # NoRow
  BY DEF NewTurn, StreamInv, HostFits, PhaseFits
<1> QED BY <1>1, EngineOn

(* StreamInv is inductive. *)
LEMMA StreamStep == StreamInv /\ [Next]_vars => StreamInv'
<1> SUFFICES ASSUME StreamInv, [Next]_vars PROVE StreamInv'
  OBVIOUS
<1>1. EInv /\ TurnFits /\ HostFits /\ EInv' /\ TurnFits' /\ (Open => Calm)
  BY EngineUnder DEF StreamInv
<1>2. Open => row' # NoRow /\ worker' # "open"
  BY <1>1 DEF Calm
<1>3. 0 \in Readers /\ Sessions \subseteq Readers
  BY StreamBounds DEF Readers, Sessions
<1>4. CASE NewTurn \/ TurnThread \/ EngineRest
  BY <1>1, <1>2, <1>4, HostStays DEF NewTurn, TurnThread, EngineRest, StreamInv
<1>5. CASE EngineDies
  BY <1>1, <1>5, DiesKeeps DEF StreamInv
<1>6. CASE Connect \/ Close
  BY <1>1, <1>6, ConnectKeeps, CloseKeeps DEF StreamInv
<1>7. CASE Command
  BY <1>1, <1>2, <1>3, <1>7, CmdStartKeeps, CmdGotKeeps, CmdFailedKeeps, ServeKeeps DEF Command, StreamInv
<1>8. CASE Webview
  BY <1>1, <1>8, ListenKeeps, ListenFailsKeeps, ReceiveKeeps, AttachedKeeps DEF Webview, StreamInv
<1>9. ASSUME NEW g \in Sessions, Poller(g) PROVE StreamInv'
  BY <1>1, <1>2, <1>3, <1>9, PollKeeps, EmitKeeps, ServeKeeps DEF Poller, StreamInv
<1>10. CASE UNCHANGED vars
  BY <1>1, <1>2, <1>10, HostStays DEF vars, StreamInv
<1> QED BY <1>4, <1>5, <1>6, <1>7, <1>8, <1>9, <1>10 DEF Next

(* It holds at first. *)
LEMMA StreamInit == Init => StreamInv
<1> SUFFICES ASSUME Init PROVE StreamInv
  OBVIOUS
<1>1. EInv
  BY InitEInv
<1>2. TurnFits
  BY DEF Init, EngineInit, TurnFits, HasJob, NoRow
<1>3. 0 \in Readers /\ Sessions \subseteq Readers
  BY StreamBounds DEF Readers, Sessions
<1>4. /\ sse.id = 0 /\ sse.phase = "closed" /\ sse.held = <<>> /\ sse.screen = <<>> /\ sse.heard = {}
      /\ sse.end = "none" /\ sse \in Session
  <2>1. <<>> \in Seq(Push) /\ <<>> \in Seq(Event) /\ 0 \in 0 .. MaxSessions
    BY StreamBounds
  <2>2. PICK o \in [Sessions -> 0 .. MaxTurns] : o = [s \in Sessions |-> 0]
    <3>1. 0 \in 0 .. MaxTurns
      BY ChatBounds
    <3>2. [s \in Sessions |-> 0] \in [Sessions -> 0 .. MaxTurns]
      BY <3>1
    <3> QED BY <3>2
  <2>3. sse = [id |-> 0, phase |-> "closed", held |-> <<>>, screen |-> <<>>,
               heard |-> {}, end |-> "none", opened |-> o]
    BY <2>2 DEF Init, NoSession
  <2> QED BY <2>1, <2>3 DEF Session
<1>5. calls = <<>> /\ replies = <<>> /\ inbox = <<>> /\ claim = 0 /\ faults = 0
      /\ \A r \in Readers : rd[r] = Idle
  BY DEF Init
<1>6. rd \in [Readers -> Reader]
  BY IdleFacts DEF Init
<1>7. Typed
  BY <1>3, <1>4, <1>5, <1>6, StreamBounds DEF Typed
<1>8. Sorts
  <2>1. \A r \in Readers : Sortable(rd[r].evs)
    BY <1>5, IdleFacts
  <2>2. Len(inbox) = 0 /\ Len(sse.held) = 0 /\ Len(replies) = 0
    BY <1>4, <1>5
  <2> QED BY <2>1, <2>2 DEF Sorts
<1>9. CallFits
  BY <1>3, <1>5, IdleFacts DEF CallFits
<1>10. ~Open /\ ~Listening /\ ~Called
  BY <1>4, <1>5 DEF Open, Listening, Called
<1>11. PhaseFits
  BY <1>4, <1>5, <1>10 DEF PhaseFits
<1> QED BY <1>1, <1>2, <1>7, <1>8, <1>9, <1>11 DEF StreamInv, HostFits

(* It says that the types are right. *)
LEMMA StreamTypes == StreamInv => TypeOK
<1> SUFFICES ASSUME StreamInv PROVE TypeOK
  OBVIOUS
<1>1. EngineTypeOK /\ Typed /\ PhaseFits
  BY DEF StreamInv, EInv, HostFits
<1>2. \A i \in 1 .. Len(replies) : replies[i].gen = sse.id
  <2>1. CASE replies = <<>>
    BY <2>1
  <2>2. CASE replies # <<>>
    <3>1. Len(replies) = 1 /\ replies[1].gen = sse.id
      BY <1>1, <2>2 DEF PhaseFits
    <3> QED BY <3>1
  <2> QED BY <2>1, <2>2
<1> QED BY <1>1, <1>2 DEF TypeOK, Typed

(* agent_chat.rs and TempestSSE.ts: for any number of turns, deltas, crashes,  *)
(* sessions, retries and faults, the engine, the host and the webview keep     *)
(* their types, and an answer to replay_chat_turn that is still under way is   *)
(* that of the open session.                                                   *)
THEOREM StreamTypeCorrect == Spec => []TypeOK
<1>1. Spec => []StreamInv
  BY StreamInit, StreamStep, PTL DEF Spec
<1> QED BY <1>1, StreamTypes, PTL

-----------------------------------------------------------------------------
(* What is under way to an open session. *)

(* What went wrong stays on record. *)
LEMMA TroubleStays ==
  ASSUME StreamInv, [Next]_vars, Trouble
  PROVE  Trouble'
<1>0. crashes \in Nat /\ faults \in Nat
  BY ChatBounds, StreamBounds DEF StreamInv, EInv, EngineTypeOK, HostFits, Typed
<1>1. (crashes' = crashes \/ crashes' = crashes + 1) /\ (unsaved => unsaved')
  <2>1. EngineStep
    BY StreamSteps
  <2>2. CASE Thread
    BY <2>2 DEF Thread, OpeningCommit, OpeningFails, Delta, FlushCommit, FlushFails, StreamEnds,
                CommitTerminal, PublishTerminal, CommitFails
  <2>3. CASE Reserve \/ CancelTurn \/ EvictSettled \/ Restart \/ Crash \/ Reads \/ UNCHANGED engine
    BY <2>3 DEF Reserve, CancelTurn, EvictSettled, Restart, Crash, Reads, engine
  <2> QED BY <2>1, <2>2, <2>3 DEF EngineStep
<1>2. faults' = faults \/ faults' = faults + 1
  <2>1. CASE NewTurn \/ TurnThread \/ EngineRest \/ EngineDies \/ Connect \/ Close
    BY <2>1 DEF NewTurn, TurnThread, EngineRest, EngineDies, Connect, Close, host
  <2>2. ASSUME NEW r, Serve(r) PROVE faults' = faults \/ faults' = faults + 1
    BY <2>2 DEF Serve, ServeJob, ServeRow, ServeDocs, CallFails
  <2>3. CASE Command
    BY <2>2, <2>3 DEF Command, CmdStart, CmdGot, CmdFailed
  <2>4. CASE Webview
    BY <2>4 DEF Webview, Listen, ListenFails, Receive, Attached
  <2>5. ASSUME NEW g \in Sessions, Poller(g) PROVE faults' = faults \/ faults' = faults + 1
    BY <2>2, <2>5 DEF Poller, PollCheck, PollGot, PollFailed, PollEmit
  <2>6. CASE UNCHANGED vars
    BY <2>6 DEF vars, host
  <2> QED BY <2>1, <2>3, <2>4, <2>5, <2>6 DEF Next
<1>3. CASE unsaved
  BY <1>1, <1>3 DEF Trouble
<1>4. CASE crashes > 0 \/ faults > 0
  BY <1>0, <1>1, <1>2, <1>4 DEF Trouble
<1> QED BY <1>3, <1>4 DEF Trouble

(* A page's status and its end b are true to the turn: it claims an end, or    *)
(* goes past the turn's body, only behind the final frame.                     *)
Good(st, ended, b) == Trouble \/ ((st # "active" => ended) /\ (b > BodyLen => ended))

(* A reader p that has been given the frames up to tip, and by then the final  *)
(* frame or not.                                                               *)
ReaderFits(p, tip, ended) ==
  /\ p.pc \in {"check", "asked", "row", "got", "failed"} => p.after = tip
  /\ p.pc = "row" => ~HasJob /\ row.status \in Settled /\ p.st \in Settled
  /\ p.pc = "failed" => Trouble
  /\ p.pc = "got" => \E b \in Nat : /\ Chain(p.evs, tip + 1, b, row.turn)
                                    /\ Good(p.st, HasFinal(p.evs) \/ ended, b)
  /\ p.pc = "emit" => /\ Chain(p.evs, tip + 1, p.after, row.turn)
                      /\ Good(p.st, HasFinal(p.evs) \/ ended, p.after)
  /\ Trouble \/ ended \/ tip <= BodyLen

(* What every step under an open stream keeps. *)
Steady ==
  /\ Trouble => Trouble'
  /\ BodyLen \in Nat /\ BodyLen' \in Nat
  /\ Trouble' \/ BodyLen <= BodyLen'
  /\ row'.turn = row.turn
  /\ ~HasJob => ~HasJob'
  /\ ~HasJob /\ row.status \in Settled => row'.status \in Settled

(* Every step under an open stream is steady. *)
LEMMA OpenSteady ==
  ASSUME StreamInv, StreamInv', [Next]_vars, Open
  PROVE  Steady /\ Calm
<1>1. Calm /\ (Trouble => Trouble')
  BY EngineUnder, TroubleStays
<1>2. row # NoRow /\ row' # NoRow /\ EInv /\ EInv'
  BY <1>1 DEF StreamInv, HostFits, PhaseFits, Calm
<1>3. BodyLen \in Nat
  BY <1>2, BodyNat
<1>4. (EInv /\ row # NoRow => BodyLen \in Nat)'
  BY BodyNat, PTL
<1>5. BodyLen' \in Nat
  BY <1>2, <1>4
<1>6. Trouble' \/ BodyLen <= BodyLen'
  BY <1>1 DEF Calm, Trouble
<1> QED BY <1>1, <1>3, <1>5, <1>6 DEF Calm, Steady

(* A page that is true to its turn stays so while the turn goes on. *)
LEMMA GoodStays ==
  ASSUME Steady, NEW st, NEW ended \in BOOLEAN, NEW b \in Nat, Good(st, ended, b)
  PROVE  Good(st, ended, b)'
<1>1. CASE Trouble \/ Trouble'
  BY <1>1 DEF Steady, Good
<1>2. CASE ~Trouble /\ ~Trouble'
  <2>1. BodyLen \in Nat /\ BodyLen' \in Nat /\ BodyLen <= BodyLen'
    BY <1>2 DEF Steady
  <2>2. (st # "active" => ended) /\ (b > BodyLen => ended)
    BY <1>2 DEF Good
  <2>3. b > BodyLen' => ended
    BY <2>1, <2>2
  <2> QED BY <2>2, <2>3 DEF Good
<1> QED BY <1>1, <1>2

(* A reader that does nothing. *)
LEMMA ReaderWaits ==
  ASSUME Steady, NEW p \in Reader, NEW tip \in Nat, NEW ended \in BOOLEAN, ReaderFits(p, tip, ended)
  PROVE  ReaderFits(p, tip, ended)'
<1>0. p.after \in Nat /\ MaxSeq \in Nat /\ row'.turn = row.turn
  BY ChatBounds DEF Reader, MaxSeq, Steady
<1>1. PICK e \in BOOLEAN : e = (HasFinal(p.evs) \/ ended)
  OBVIOUS
<1>2. Trouble' \/ ended \/ tip <= BodyLen'
  <2>1. CASE Trouble \/ ended \/ Trouble'
    BY <2>1 DEF Steady
  <2>2. CASE ~Trouble' /\ tip <= BodyLen
    BY <2>2 DEF Steady
  <2> QED BY <2>1, <2>2 DEF ReaderFits
<1>3. ASSUME p.pc = "got"
      PROVE  \E b \in Nat : Chain(p.evs, tip + 1, b, row'.turn) /\ Good(p.st, e, b)'
  <2>1. PICK b \in Nat : Chain(p.evs, tip + 1, b, row.turn) /\ Good(p.st, e, b)
    BY <1>1, <1>3 DEF ReaderFits
  <2> QED BY <1>0, <2>1, GoodStays
<1>4. ASSUME p.pc = "emit"
      PROVE  Chain(p.evs, tip + 1, p.after, row'.turn) /\ Good(p.st, e, p.after)'
  <2>1. Chain(p.evs, tip + 1, p.after, row.turn) /\ Good(p.st, e, p.after)
    BY <1>1, <1>4 DEF ReaderFits
  <2> QED BY <1>0, <2>1, GoodStays
<1>5. (p.pc = "row" => ~HasJob' /\ row'.status \in Settled /\ p.st \in Settled) /\ (p.pc = "failed" => Trouble')
  BY DEF ReaderFits, Steady
<1>6. p.pc \in {"check", "asked", "row", "got", "failed"} => p.after = tip
  BY DEF ReaderFits
<1> QED BY <1>1, <1>2, <1>3, <1>4, <1>5, <1>6 DEF ReaderFits

(* A page of what a turn has of n frames, the last of them final or not. *)
LEMMA PageGood ==
  ASSUME NEW tip \in Nat, NEW ended \in BOOLEAN, NEW n \in Nat, NEW settled \in BOOLEAN,
         NEW last \in BOOLEAN, NEW b, NEW st, BodyLen = IF settled THEN n - 1 ELSE n,
         last <=> settled /\ tip < n, b = IF n < tip THEN tip ELSE n,
         st # "active" => settled, Trouble \/ ended \/ tip <= BodyLen
  PROVE  b \in Nat /\ Good(st, last \/ ended, b)
<1>1. b \in Nat
  OBVIOUS
<1>2. CASE Trouble \/ ended
  BY <1>1, <1>2 DEF Good
<1>3. CASE tip <= BodyLen /\ settled
  <2>1. tip < n
    BY <1>3
  <2> QED BY <1>1, <1>3, <2>1 DEF Good
<1>4. CASE tip <= BodyLen /\ ~settled
  <2>1. b = n /\ ~(b > BodyLen) /\ st = "active"
    BY <1>4
  <2> QED BY <1>1, <2>1 DEF Good
<1> QED BY <1>2, <1>3, <1>4

(* The engine's answer. *)
LEMMA ServeFits ==
  ASSUME StreamInv, StreamInv', Steady, Open, NEW r \in Readers, Serve(r),
         NEW tip \in Nat, NEW ended \in BOOLEAN, ReaderFits(rd[r], tip, ended),
         NEW q, q = rd'[r]
  PROVE  ReaderFits(q, tip, ended)'
<1>0. EInv /\ EInv' /\ TurnFits /\ Typed /\ Sorts /\ row # NoRow /\ worker # "open"
  BY DEF StreamInv, HostFits, PhaseFits
<1>1. PICK p : p = rd[r]
  OBVIOUS
<1>2. /\ p \in Reader /\ p.after \in Nat /\ p.evs \subseteq Event /\ p.st \in Statuses
      /\ rd \in [Readers -> Reader]
      /\ Trouble \/ ended \/ tip <= BodyLen
  BY <1>0, <1>1, ReaderFacts DEF Typed, ReaderFits
<1>3. p.pc \in {"asked", "row"}
  BY <1>1 DEF Serve, ServeJob, ServeRow, ServeDocs, CallFails
<1>4. p.after = tip /\ (p.pc = "row" => ~HasJob /\ row.status \in Settled /\ p.st \in Settled)
  BY <1>1, <1>3 DEF ReaderFits
<1>5. ASSUME ServeJob(r) PROVE ReaderFits(q, tip, ended)'
  <2>1. HasJob
    BY <1>5 DEF ServeJob
  <2>2. PICK evs : evs = JobEvents(tip)
    OBVIOUS
  <2>3. PICK n \in Nat : n = Len(job.frames)
    BY <1>0, <2>1, JobTyped
  <2>4. PICK b : b = IF n < tip THEN tip ELSE n
    OBVIOUS
  <2>5. Chain(evs, tip + 1, b, job.turn) /\ (HasFinal(evs) <=> (job.status # "active" /\ tip < n))
        /\ evs \subseteq Event
    BY <1>0, <2>1, <2>2, <2>3, <2>4, JobPage DEF Sortable
  <2>6. job.turn = row.turn
    BY <1>0, <2>1 DEF TurnFits
  <2>7. BodyLen = IF job.status # "active" THEN n - 1 ELSE n
    BY <2>1, <2>3 DEF BodyLen
  <2>8. b \in Nat /\ Good(job.status, HasFinal(evs) \/ ended, b)
    <3>1. PICK settled \in BOOLEAN : settled = (job.status # "active")
      OBVIOUS
    <3>2. PICK last \in BOOLEAN : last = HasFinal(evs)
      BY DEF HasFinal
    <3>3. last <=> settled /\ tip < n
      BY <2>5, <3>1, <3>2
    <3>4. BodyLen = IF settled THEN n - 1 ELSE n
      BY <2>7, <3>1
    <3>5. b \in Nat /\ Good(job.status, last \/ ended, b)
      BY <1>2, <2>4, <3>1, <3>3, <3>4, PageGood
    <3> QED BY <3>2, <3>5
  <2>9. q = Made(p, "got", job.status, evs)
    BY <1>1, <1>2, <1>4, <1>5, <2>2 DEF ServeJob, Made, Reader
  <2>10. job.status \in Statuses
    BY <1>0, <2>1, JobNumbers DEF Statuses
  <2>11. q \in Reader /\ q.pc = "got" /\ q.st = job.status /\ q.evs = evs /\ q.after = tip
    BY <1>2, <1>4, <2>5, <2>9, <2>10, ReaderMade
  <2>12. ReaderFits(q, tip, ended)
    BY <1>2, <2>5, <2>6, <2>8, <2>11 DEF ReaderFits
  <2> QED BY <2>11, <2>12, ReaderWaits
<1>6. ASSUME ServeRow(r) PROVE ReaderFits(q, tip, ended)'
  <2>1. ~HasJob /\ Reconcile /\ job' = job
    BY <1>6 DEF ServeRow
  <2>2. ~HasJob' /\ row' # NoRow /\ row'.status # "active"
    BY <1>0, <2>1, ReconcileFacts DEF HasJob
  <2>3. row'.status \in Settled
    BY <1>0, <2>2 DEF EInv, EngineTypeOK
  <2>4. q = Made(p, "row", row'.status, p.evs)
    BY <1>1, <1>2, <1>6 DEF ServeRow, Made, Reader
  <2>a. PICK st \in Statuses : st = row'.status
    BY <2>3 DEF Statuses
  <2>b. q = Made(p, "row", st, p.evs)
    BY <2>4, <2>a
  <2>5. q.pc = "row" /\ q.st = row'.status /\ q.after = tip
    BY <1>2, <1>4, <2>a, <2>b, ReaderMade
  <2>6. Trouble' \/ ended \/ tip <= BodyLen'
    <3>1. CASE Trouble \/ ended \/ Trouble'
      BY <3>1 DEF Steady
    <3>2. CASE ~Trouble' /\ tip <= BodyLen
      BY <3>2 DEF Steady
    <3> QED BY <1>2, <3>1, <3>2
  <2> QED BY <2>2, <2>3, <2>5, <2>6 DEF ReaderFits
<1>7. ASSUME ServeDocs(r) PROVE ReaderFits(q, tip, ended)'
  <2>1. ~HasJob /\ row.status \in Settled /\ p.st \in Settled
    BY <1>1, <1>4, <1>7 DEF ServeDocs
  <2>2. PICK evs : evs = StoreEvents(tip)
    OBVIOUS
  <2>3. PICK n \in Nat : n = LastSeq
    BY <1>0, StoreShape
  <2>4. PICK b : b = IF n < tip THEN tip ELSE n
    OBVIOUS
  <2>5. Chain(evs, tip + 1, b, row.turn) /\ (HasFinal(evs) <=> tip < n)
        /\ evs \subseteq Event
    BY <1>0, <2>1, <2>2, <2>3, <2>4, StorePage DEF Sortable
  <2>6. BodyLen = n - 1
    BY <2>1, <2>3 DEF BodyLen
  <2>8. b \in Nat /\ Good(p.st, HasFinal(evs) \/ ended, b)
    <3>2. PICK last \in BOOLEAN : last = HasFinal(evs)
      BY DEF HasFinal
    <3>3. last <=> TRUE /\ tip < n
      BY <2>5, <3>2
    <3>5. b \in Nat /\ Good(p.st, last \/ ended, b)
      BY <1>2, <2>4, <2>6, <3>3, PageGood
    <3> QED BY <3>2, <3>5
  <2>9. q = Made(p, "got", p.st, evs)
    BY <1>1, <1>2, <1>4, <1>7, <2>2 DEF ServeDocs, Made, Reader
  <2>11. q \in Reader /\ q.pc = "got" /\ q.st = p.st /\ q.evs = evs /\ q.after = tip
    BY <1>2, <1>4, <2>5, <2>9, ReaderMade
  <2>12. ReaderFits(q, tip, ended)
    BY <1>2, <2>5, <2>8, <2>11 DEF ReaderFits
  <2> QED BY <2>11, <2>12, ReaderWaits
<1>8. ASSUME CallFails(r) PROVE ReaderFits(q, tip, ended)'
  <2>1. q = Made(p, "failed", "unknown", p.evs)
    BY <1>1, <1>2, <1>8 DEF CallFails, Failing, Made, Reader
  <2>2. q.pc = "failed" /\ q.after = tip
    BY <1>2, <1>4, <2>1, ReaderMade DEF Statuses
  <2>3. Trouble'
    <3>1. CASE alive
      <4>1. faults' = faults + 1 /\ faults \in Nat
        BY <1>0, <1>8, <3>1, StreamBounds DEF CallFails, Typed
      <4> QED BY <4>1 DEF Trouble
    <3>2. CASE ~alive
      BY <1>0, <3>2 DEF TurnFits, Trouble, Steady
    <3> QED BY <3>1, <3>2
  <2> QED BY <2>2, <2>3 DEF ReaderFits
<1> QED BY <1>5, <1>6, <1>7, <1>8 DEF Serve

(* A reader whose call fails because the engine dies. *)
LEMMA DiesFits ==
  ASSUME StreamInv, StreamInv', Steady, EngineDies, NEW r \in Readers,
         NEW tip \in Nat, NEW ended \in BOOLEAN, ReaderFits(rd[r], tip, ended),
         NEW q, q = rd'[r]
  PROVE  ReaderFits(q, tip, ended)'
<1>1. PICK p : p = rd[r]
  OBVIOUS
<1>2. p \in Reader
  BY <1>1, ReaderFacts DEF StreamInv, HostFits
<1>3. q = IF p.pc \in {"asked", "row"} THEN Failing(p) ELSE p
  BY <1>1 DEF EngineDies
<1>4. CASE p.pc \in {"asked", "row"}
  <2>1. q = Made(p, "failed", "unknown", p.evs)
    BY <1>2, <1>3, <1>4 DEF Failing, Made, Reader
  <2>2. q.pc = "failed" /\ q.after = p.after
    BY <1>2, <2>1, ReaderMade DEF Statuses, Reader
  <2>3. p.after = tip
    BY <1>1, <1>4 DEF ReaderFits
  <2>4. Trouble'
    <3>1. crashes' = crashes + 1 /\ crashes \in Nat
      BY ChatBounds DEF EngineDies, Crash, StreamInv, EInv, EngineTypeOK
    <3> QED BY <3>1 DEF Trouble
  <2> QED BY <2>2, <2>3, <2>4 DEF ReaderFits
<1>5. CASE p.pc \notin {"asked", "row"}
  BY <1>1, <1>2, <1>3, <1>5, ReaderWaits
<1> QED BY <1>4, <1>5

(* No frames. *)
LEMMA NoFrames ==
  ASSUME NEW tip \in Nat, NEW t
  PROVE  Chain({}, tip + 1, tip, t) /\ ~HasFinal({})
  BY DEF Chain, HasFinal

(* The poller's own steps. *)
LEMMA PollFits ==
  ASSUME StreamInv, Steady, NEW g \in Sessions, PollCheck(g) \/ PollGot(g) \/ PollFailed(g),
         NEW tip \in Nat, NEW ended \in BOOLEAN, ReaderFits(rd[g], tip, ended),
         NEW q, q = rd'[g]
  PROVE  ReaderFits(q, tip, ended)'
<1>0. Typed /\ Sorts /\ g \in Readers
  BY DEF StreamInv, HostFits, Sessions, Readers
<1>1. PICK p : p = rd[g]
  OBVIOUS
<1>2. /\ p \in Reader /\ p.after \in Nat /\ p.evs \subseteq Event
      /\ rd \in [Readers -> Reader]
      /\ Trouble \/ ended \/ tip <= BodyLen
  BY <1>0, <1>1, ReaderFacts DEF Typed, ReaderFits
<1>3. q \in Reader
  <2>1. PICK x \in Reader : rd' = [rd EXCEPT ![g] = x]
    BY <1>0, PollMakes
  <2> QED BY <1>0, <1>2, <2>1
<1>4. ReaderFits(Idle, tip, ended)
  BY <1>2, IdleFacts DEF ReaderFits
<1>5. ASSUME PollCheck(g) PROVE ReaderFits(q, tip, ended)
  <2>1. q = IF claim = g THEN [p EXCEPT !.pc = "asked"] ELSE Idle
    BY <1>0, <1>1, <1>2, <1>5 DEF PollCheck
  <2>2. CASE claim = g
    <3>1. q.pc = "asked" /\ q.after = p.after
      BY <1>2, <2>1, <2>2 DEF Reader
    <3>2. p.after = tip
      BY <1>1, <1>5 DEF PollCheck, ReaderFits
    <3> QED BY <1>2, <3>1, <3>2 DEF ReaderFits
  <2> QED BY <1>4, <2>1, <2>2
<1>6. ASSUME PollGot(g) PROVE ReaderFits(q, tip, ended)
  <2>1. p.pc = "got"
    BY <1>1, <1>6 DEF PollGot
  <2>2. PICK b \in Nat : /\ Chain(p.evs, tip + 1, b, row.turn)
                         /\ Good(p.st, HasFinal(p.evs) \/ ended, b)
    BY <1>1, <2>1 DEF ReaderFits
  <2>3. p.after = tip
    BY <1>1, <2>1 DEF ReaderFits
  <2>4. EndOf(p.evs, p.after) = b /\ (p.evs = {} <=> b = tip)
    <3>1. tip + 1 \in Nat /\ (tip + 1) - 1 = tip
      OBVIOUS
    <3>2. EndOf(p.evs, (tip + 1) - 1) = b /\ (p.evs = {} <=> b = (tip + 1) - 1)
      BY <1>2, <2>2, <3>1, EndOfChain
    <3> QED BY <2>3, <3>1, <3>2
  <2>5. PICK x : x = [p EXCEPT !.after = b, !.fails = 0]
    OBVIOUS
  <2>6. x.pc = "got" /\ x.after = b /\ x.evs = p.evs /\ x.st = p.st
    BY <1>2, <2>1, <2>5 DEF Reader
  <2> DEFINE silent == x.evs = {} /\ x.st = "active"
  <2>7. q = CASE silent -> Again(x)
              [] ~silent /\ claim = g -> [x EXCEPT !.pc = "emit"]
              [] OTHER -> Idle
    <3>1. x = [rd[g] EXCEPT !.after = EndOf(rd[g].evs, @), !.fails = 0]
      BY <1>1, <2>4, <2>5
    <3>2. rd' = [rd EXCEPT ![g] = CASE silent -> Again(x)
                                    [] ~silent /\ claim = g -> [x EXCEPT !.pc = "emit"]
                                    [] OTHER -> Idle]
      BY <1>6, <3>1 DEF PollGot
    <3> HIDE DEF silent
    <3> QED BY <1>0, <1>2, <3>2
  <2>a. x \in Reader
    <3>1. b \in 0 .. MaxSeq /\ 0 \in 0 .. MaxRetries
      BY <1>0, <1>1, <1>2, <2>4, EndNumber, ReaderFacts, StreamBounds
    <3> QED BY <1>2, <2>5, <3>1 DEF Reader
  <2>8. CASE silent
    <3>1. q = Again(x)
      BY <2>7, <2>8
    <3>2. q.pc = "check" /\ q.after = b
      BY <2>6, <2>a, <3>1 DEF Again, Reader
    <3>3. b = tip
      BY <2>4, <2>6, <2>8
    <3> QED BY <1>2, <3>2, <3>3 DEF ReaderFits
  <2>9. CASE ~silent /\ claim = g
    <3>1. q = [x EXCEPT !.pc = "emit"]
      BY <2>7, <2>9
    <3>2. q.pc = "emit" /\ q.after = b /\ q.evs = p.evs /\ q.st = p.st
      BY <2>6, <2>a, <3>1 DEF Reader
    <3> QED BY <1>2, <2>2, <3>2 DEF ReaderFits
  <2>10. CASE ~silent /\ claim # g
    <3> HIDE DEF silent
    <3>1. q = Idle
      BY <2>7, <2>10
    <3> QED BY <1>4, <3>1
  <2> QED BY <2>8, <2>9, <2>10
<1>7. ASSUME PollFailed(g) PROVE ReaderFits(q, tip, ended)
  <2>1. p.pc = "failed"
    BY <1>1, <1>7 DEF PollFailed
  <2>2. Trouble /\ p.after = tip
    BY <1>1, <2>1 DEF ReaderFits
  <2>3. \/ rd' = [rd EXCEPT ![g] = Again([rd[g] EXCEPT !.fails = rd[g].fails + 1])]
        \/ rd' = [rd EXCEPT ![g] = IF claim = g
                                  THEN [rd[g] EXCEPT !.pc = "emit", !.st = "error", !.evs = {}]
                                  ELSE Idle]
    BY <1>7 DEF PollFailed
  <2>4. \/ q = Again([p EXCEPT !.fails = p.fails + 1])
        \/ q = [p EXCEPT !.pc = "emit", !.st = "error", !.evs = {}]
        \/ q = Idle
    BY <1>0, <1>1, <1>2, <2>3
  <2>5. CASE q = Again([p EXCEPT !.fails = p.fails + 1])
    <3>1. q.pc = "check" /\ q.after = p.after
      BY <1>2, <2>5 DEF Again, Reader
    <3> QED BY <1>2, <2>2, <3>1 DEF ReaderFits
  <2>6. CASE q = [p EXCEPT !.pc = "emit", !.st = "error", !.evs = {}]
    <3>1. q.pc = "emit" /\ q.after = p.after /\ q.evs = {}
      BY <1>2, <2>6 DEF Reader
    <3>2. Chain({}, tip + 1, tip, row.turn)
      BY NoFrames
    <3> QED BY <1>2, <2>2, <3>1, <3>2 DEF ReaderFits, Good
  <2> QED BY <1>4, <2>4, <2>5, <2>6
<1>8. ReaderFits(q, tip, ended)
  BY <1>5, <1>6, <1>7
<1> QED BY <1>3, <1>8, ReaderWaits

(* What is under way to session s behind a page or a screen: the pushes in the *)
(* line, of which its own go on one behind the other, and its poller p.        *)
Feed(line, cut, s, first, p) ==
  /\ Strung(line, cut, s, row.turn)
  /\ Verdicts(line, s, first)
  /\ ReaderFits(p, cut[Len(line)], first \/ FinalIn(line, Len(line), s))

(* Nothing moves but the poller. *)
LEMMA FeedStays ==
  ASSUME Steady, NEW line, Len(line) \in Nat, NEW cut, NEW s, NEW first \in BOOLEAN, NEW p, NEW q,
         Feed(line, cut, s, first, p),
         \A tip \in Nat, ended \in BOOLEAN : ReaderFits(p, tip, ended) => ReaderFits(q, tip, ended)'
  PROVE  Feed(line, cut, s, first, q)'
<1>1. row'.turn = row.turn /\ (Trouble => Trouble')
  BY DEF Steady
<1>2. Strung(line, cut, s, row'.turn)
  BY <1>1 DEF Feed
<1>3. Verdicts(line, s, first)'
  <2>1. Verdicts(line, s, first)
    BY DEF Feed
  <2> QED BY <1>1, <2>1 DEF Verdicts
<1>4. PICK tip \in Nat : tip = cut[Len(line)]
  BY DEF Feed, Strung
<1>5. PICK ended \in BOOLEAN : ended = (first \/ FinalIn(line, Len(line), s))
  BY DEF FinalIn
<1>6. ReaderFits(q, tip, ended)'
  BY <1>4, <1>5 DEF Feed
<1> QED BY <1>2, <1>3, <1>4, <1>5, <1>6 DEF Feed

(* Before the poller's first push. *)
Foreign(line, s) == \A i \in 1 .. Len(line) : line[i].gen # s

(* Such a line, with the poller behind the page. *)
LEMMA FeedStarts ==
  ASSUME NEW line, Len(line) \in Nat, NEW s, NEW first \in BOOLEAN, NEW n \in Nat, NEW p,
         Foreign(line, s), ReaderFits(p, n, first)
  PROVE  \E cut : cut[0] = n /\ Feed(line, cut, s, first, p)
<1>1. PICK cut : cut = [i \in 0 .. Len(line) |-> n]
  OBVIOUS
<1>2. cut \in [0 .. Len(line) -> Nat] /\ \A i \in 0 .. Len(line) : cut[i] = n
  BY <1>1
<1>3. 0 \in 0 .. Len(line) /\ Len(line) \in 0 .. Len(line) /\ \A i \in 1 .. Len(line) : i \in 0 .. Len(line) /\ i - 1 \in 0 .. Len(line)
  OBVIOUS
<1>4. Strung(line, cut, s, row.turn)
  BY <1>2, <1>3 DEF Strung, Foreign
<1>5. Verdicts(line, s, first)
  BY DEF Verdicts, Foreign
<1>6. ~FinalIn(line, Len(line), s)
  BY DEF FinalIn, Foreign
<1>7. cut[0] = n /\ cut[Len(line)] = n
  BY <1>2, <1>3
<1>8. ReaderFits(p, cut[Len(line)], first \/ FinalIn(line, Len(line), s))
  <2>1. (first \/ FinalIn(line, Len(line), s)) = first
    BY <1>6
  <2> QED BY <1>7, <2>1
<1> QED BY <1>4, <1>5, <1>7, <1>8 DEF Feed

(* One more push in the line. *)
LEMMA LineGrows ==
  ASSUME NEW line \in Seq(Push), NEW cut, NEW s, NEW t, Strung(line, cut, s, t),
         NEW push \in Push, NEW m \in Nat,
         IF push.gen = s THEN Chain(push.evs, cut[Len(line)] + 1, m, t) ELSE m = cut[Len(line)]
  PROVE  \E c : c[0] = cut[0] /\ c[Len(line) + 1] = m /\ Strung(Append(line, push), c, s, t)
<1> DEFINE N == Len(line)
<1>0. PICK more : more = Append(line, push)
  OBVIOUS
<1>1. /\ N \in Nat /\ Len(more) = N + 1 /\ more[N + 1] = push
      /\ \A i \in 1 .. N : more[i] = line[i]
  BY <1>0, GrownFacts
<1>2. PICK c : c = [i \in 0 .. N + 1 |-> IF i = N + 1 THEN m ELSE cut[i]]
  OBVIOUS
<1>4. \A i \in 0 .. N : cut[i] \in Nat
  BY DEF Strung
<1> HIDE DEF N
<1>5. /\ c \in [0 .. N + 1 -> Nat] /\ \A i \in 0 .. N : c[i] = cut[i]
      /\ c[N + 1] = m /\ c[0] = cut[0] /\ c[N] = cut[N]
  BY <1>1, <1>2, <1>4
<1>6. \A i \in 1 .. N + 1 : i \in 1 .. N \/ i = N + 1
  BY <1>1
<1>7. Strung(more, c, s, t)
  <2>1. ASSUME NEW i \in 1 .. N
        PROVE  IF more[i].gen = s THEN Chain(more[i].evs, c[i - 1] + 1, c[i], t)
               ELSE c[i] = c[i - 1]
    <3>1. i \in 0 .. N /\ i - 1 \in 0 .. N
      BY <1>1
    <3> QED BY <1>1, <1>5, <3>1 DEF Strung, N
  <2>2. IF more[N + 1].gen = s THEN Chain(more[N + 1].evs, c[(N + 1) - 1] + 1, c[N + 1], t)
        ELSE c[N + 1] = c[(N + 1) - 1]
    <3>1. c[(N + 1) - 1] = cut[N]
      BY <1>1, <1>5
    <3> QED BY <1>1, <1>5, <3>1 DEF N
  <2>3. \A i \in 1 .. N + 1 :
          IF more[i].gen = s THEN Chain(more[i].evs, c[i - 1] + 1, c[i], t)
          ELSE c[i] = c[i - 1]
    BY <1>6, <2>1, <2>2
  <2> QED BY <1>1, <1>5, <2>3 DEF Strung
<1> QED BY <1>0, <1>5, <1>7 DEF N

(* The final frames of a line that grows. *)
LEMMA FinalGrows ==
  ASSUME NEW line \in Seq(Push), NEW s, NEW push \in Push
  PROVE  FinalIn(Append(line, push), Len(line) + 1, s)
           <=> FinalIn(line, Len(line), s) \/ (push.gen = s /\ HasFinal(push.evs))
<1>0. PICK more : more = Append(line, push)
  OBVIOUS
<1>1. PICK N \in Nat : N = Len(line)
  OBVIOUS
<1>2. more[N + 1] = push /\ \A i \in 1 .. N : more[i] = line[i]
  BY <1>0, <1>1, GrownFacts
<1>3. /\ N + 1 \in 1 .. N + 1 /\ \A k \in 1 .. N : k \in 1 .. N + 1
      /\ \A i \in 1 .. N + 1 : i \in 1 .. N \/ i = N + 1
  BY <1>1
<1> QED BY <1>0, <1>1, <1>2, <1>3 DEF FinalIn

(* The verdicts of a line that grows. *)
LEMMA EndGrows ==
  ASSUME NEW line \in Seq(Push), NEW s, NEW first \in BOOLEAN, NEW push \in Push,
         Verdicts(line, s, first), NEW more, more = Append(line, push),
         NEW last \in BOOLEAN, last = FinalIn(more, Len(line) + 1, s),
         push.gen = s /\ push.st # "active" /\ push.evs = {} => Trouble \/ first \/ last
  PROVE  Verdicts(more, s, first)
<1> DEFINE N == Len(line)
<1>1. /\ N \in Nat /\ Len(more) = N + 1 /\ more[N + 1] = push
      /\ \A i \in 1 .. N : more[i] = line[i]
  BY GrownFacts
<1>2. \A i \in 1 .. N + 1 : i \in 1 .. N \/ i = N + 1
  BY <1>1
<1> HIDE DEF N
<1>3. \A i \in 0 .. N : FinalIn(more, i, s) <=> FinalIn(line, i, s)
  <2> SUFFICES ASSUME NEW i \in 0 .. N PROVE FinalIn(more, i, s) <=> FinalIn(line, i, s)
    OBVIOUS
  <2>1. \A k \in 1 .. i : more[k] = line[k]
    BY <1>1
  <2> QED BY <2>1 DEF FinalIn
<1>4. Verdicts(more, s, first)
  <2> SUFFICES ASSUME NEW i \in 1 .. N + 1, more[i].gen = s, more[i].st # "active", more[i].evs = {}
               PROVE  Trouble \/ first \/ FinalIn(more, i, s)
    BY <1>1 DEF Verdicts
  <2>1. CASE i \in 1 .. N
    <3>1. more[i] = line[i] /\ i \in 0 .. N
      BY <1>1, <2>1
    <3> QED BY <1>3, <2>1, <3>1 DEF Verdicts, N
  <2>2. CASE i = N + 1
    BY <1>1, <2>2 DEF N
  <2> QED BY <1>2, <2>1, <2>2
<1> QED BY <1>4

(* A push of another poller. *)
LEMMA FeedPassed ==
  ASSUME NEW line \in Seq(Push), NEW cut, NEW s, NEW first \in BOOLEAN, NEW p,
         Feed(line, cut, s, first, p), NEW push \in Push, push.gen # s
  PROVE  \E c : c[0] = cut[0] /\ Feed(Append(line, push), c, s, first, p)
<1>0. PICK more : more = Append(line, push)
  OBVIOUS
<1>1. Len(line) \in Nat /\ Len(more) = Len(line) + 1
  BY <1>0, GrownFacts
<1>2. /\ Strung(line, cut, s, row.turn) /\ Verdicts(line, s, first) /\ cut[Len(line)] \in Nat
      /\ ReaderFits(p, cut[Len(line)], first \/ FinalIn(line, Len(line), s))
  BY DEF Feed, Strung
<1>3. PICK c : c[0] = cut[0] /\ c[Len(line) + 1] = cut[Len(line)] /\ Strung(more, c, s, row.turn)
  BY <1>0, <1>2, LineGrows
<1>4. PICK last \in BOOLEAN : last = FinalIn(more, Len(line) + 1, s)
  BY DEF FinalIn
<1>5. Verdicts(more, s, first)
  <2>1. push.gen = s /\ push.st # "active" /\ push.evs = {} => Trouble \/ first \/ last
    OBVIOUS
  <2> QED BY <1>0, <1>2, <1>4, <2>1, EndGrows
<1>a. FinalIn(more, Len(line) + 1, s) <=> FinalIn(line, Len(line), s)
  BY <1>0, FinalGrows
<1>6. (first \/ FinalIn(more, Len(more), s)) = (first \/ FinalIn(line, Len(line), s))
  BY <1>1, <1>a DEF FinalIn
<1> QED BY <1>0, <1>1, <1>2, <1>3, <1>5, <1>6 DEF Feed

(* A push of its own poller, which then goes on or stops. *)
LEMMA FeedPushed ==
  ASSUME NEW line \in Seq(Push), NEW cut, NEW s, NEW first \in BOOLEAN, NEW p,
         Feed(line, cut, s, first, p), NEW push \in Push, push.gen = s, BodyLen \in Nat,
         p.pc = "emit", p.after \in Nat, push.st = p.st, push.evs = p.evs,
         NEW q, q.pc \in {"off", "check"}, q.pc = "check" => q.after = p.after
  PROVE  \E c : c[0] = cut[0] /\ Feed(Append(line, push), c, s, first, q)
<1>0. PICK more : more = Append(line, push)
  OBVIOUS
<1>1. Len(line) \in Nat /\ Len(more) = Len(line) + 1
  BY <1>0, GrownFacts
<1>2. Strung(line, cut, s, row.turn) /\ Verdicts(line, s, first)
  BY DEF Feed
<1>3. PICK ended \in BOOLEAN : ended = (first \/ FinalIn(line, Len(line), s))
  BY DEF FinalIn
<1>4. /\ Chain(push.evs, cut[Len(line)] + 1, p.after, row.turn)
      /\ Good(push.st, HasFinal(push.evs) \/ ended, p.after)
  BY <1>3 DEF Feed, ReaderFits
<1>5. PICK c : c[0] = cut[0] /\ c[Len(line) + 1] = p.after /\ Strung(more, c, s, row.turn)
  BY <1>0, <1>2, <1>4, LineGrows
<1>6. PICK last \in BOOLEAN : last = FinalIn(more, Len(line) + 1, s)
  BY DEF FinalIn
<1>7. (first \/ last) <=> (HasFinal(push.evs) \/ ended)
  <2>1. PICK f \in BOOLEAN : f = HasFinal(push.evs)
    BY DEF HasFinal
  <2>2. last <=> FinalIn(line, Len(line), s) \/ f
    BY <1>0, <1>6, <2>1, FinalGrows
  <2> QED BY <1>3, <2>1, <2>2
<1>8. Good(push.st, first \/ last, p.after)
  BY <1>4, <1>7 DEF Good
<1>9. Verdicts(more, s, first)
  <2>1. push.st # "active" => Trouble \/ first \/ last
    BY <1>8 DEF Good
  <2> QED BY <1>0, <1>2, <1>6, <2>1, EndGrows
<1>10. Trouble \/ first \/ last \/ p.after <= BodyLen
  BY <1>8 DEF Good
<1>11. ReaderFits(q, p.after, first \/ last)
  BY <1>10 DEF ReaderFits
<1> QED BY <1>0, <1>1, <1>5, <1>6, <1>9, <1>11 DEF Feed

(* The first k of the line are delivered, and no final frame was among them. *)
Leftover(line, k, y) == Len(y) = Len(line) - k /\ \A i \in 1 .. Len(line) - k : y[i] = line[k + i]

Goes(y, n, s, first, p) == \E c : c[0] = n /\ Feed(y, c, s, first, p)

(* What is left is the feed behind the new screen. *)
LEMMA FeedShifts ==
  ASSUME NEW line, Len(line) \in Nat, NEW cut, NEW s, NEW p, NEW first \in BOOLEAN, first = FALSE,
         Feed(line, cut, s, first, p), NEW k \in 0 .. Len(line), ~FinalIn(line, k, s),
         NEW y, Leftover(line, k, y)
  PROVE  Goes(y, cut[k], s, first, p)
<1>1. PICK N \in Nat : N = Len(line)
  OBVIOUS
<1>2. PICK M \in Nat : M = N - k /\ Len(y) = M
  <2>1. Len(y) = N - k
    BY <1>1 DEF Leftover
  <2>2. N - k \in Nat
    BY <1>1
  <2> QED BY <2>1, <2>2
<1>3. PICK c : c = [i \in 0 .. M |-> cut[k + i]]
  OBVIOUS
<1>4. Strung(line, cut, s, row.turn) /\ Verdicts(line, s, FALSE)
  BY DEF Feed, Verdicts
<1>5. \A i \in 0 .. M : k + i \in 0 .. N /\ cut[k + i] \in Nat
  BY <1>1, <1>2, <1>4 DEF Strung
<1>6. c \in [0 .. M -> Nat] /\ (\A i \in 0 .. M : c[i] = cut[k + i]) /\ c[0] = cut[k] /\ c[M] = cut[N]
  <2>1. 0 \in 0 .. M /\ M \in 0 .. M /\ k + 0 = k /\ k + M = N
    BY <1>1, <1>2
  <2> QED BY <1>3, <1>5, <2>1
<1>7. \A i \in 1 .. M : k + i \in 1 .. N /\ y[i] = line[k + i] /\ (k + i) - 1 = k + (i - 1) /\ i - 1 \in 0 .. M /\ i \in 0 .. M
  BY <1>1, <1>2 DEF Leftover
<1>8. Strung(y, c, s, row.turn)
  <2>1. ASSUME NEW i \in 1 .. M
        PROVE  IF y[i].gen = s THEN Chain(y[i].evs, c[i - 1] + 1, c[i], row.turn)
               ELSE c[i] = c[i - 1]
    <3>1. IF line[k + i].gen = s THEN Chain(line[k + i].evs, cut[(k + i) - 1] + 1, cut[k + i], row.turn)
          ELSE cut[k + i] = cut[(k + i) - 1]
      BY <1>1, <1>4, <1>7 DEF Strung
    <3> QED BY <1>6, <1>7, <3>1
  <2> QED BY <1>2, <1>6, <2>1 DEF Strung
<1>9. ASSUME NEW i \in 1 .. M PROVE FinalIn(line, k + i, s) => FinalIn(y, i, s)
  <2> SUFFICES ASSUME NEW j \in 1 .. k + i, line[j].gen = s /\ HasFinal(line[j].evs)
               PROVE  FinalIn(y, i, s)
    BY DEF FinalIn
  <2>1. j \notin 1 .. k
    BY DEF FinalIn
  <2>2. j - k \in 1 .. i /\ j - k \in 1 .. M /\ k + (j - k) = j
    BY <1>1, <1>2, <2>1
  <2>3. y[j - k] = line[j]
    BY <1>7, <2>2
  <2> QED BY <2>2, <2>3 DEF FinalIn
<1>10. Verdicts(y, s, FALSE)
  <2> SUFFICES ASSUME NEW i \in 1 .. M, y[i].gen = s, y[i].st # "active", y[i].evs = {}
               PROVE  Trouble \/ FinalIn(y, i, s)
    BY <1>2 DEF Verdicts
  <2>1. Trouble \/ FinalIn(line, k + i, s)
    BY <1>1, <1>4, <1>7 DEF Verdicts
  <2> QED BY <1>9, <2>1
<1>11. FinalIn(line, N, s) <=> FinalIn(y, M, s)
  <2>1. ASSUME FinalIn(line, N, s) PROVE FinalIn(y, M, s)
    <3>1. CASE M = 0
      BY <1>1, <1>2, <2>1, <3>1
    <3>2. CASE M # 0
      <4>1. M \in 1 .. M /\ k + M = N
        BY <1>1, <1>2, <3>2
      <4> QED BY <1>9, <2>1, <4>1
    <3> QED BY <3>1, <3>2
  <2>2. ASSUME FinalIn(y, M, s) PROVE FinalIn(line, N, s)
    BY <1>7, <2>2 DEF FinalIn
  <2> QED BY <2>1, <2>2
<1>12. ReaderFits(p, c[M], FALSE \/ FinalIn(y, M, s))
  <2>1. (FALSE \/ FinalIn(y, M, s)) = (FALSE \/ FinalIn(line, N, s))
    BY <1>11 DEF FinalIn
  <2>2. ReaderFits(p, cut[N], FALSE \/ FinalIn(line, N, s))
    BY <1>1 DEF Feed
  <2> QED BY <1>6, <2>1, <2>2
<1> QED BY <1>2, <1>6, <1>8, <1>10, <1>12 DEF Feed, Goes

(* All that is on its way to the open session, held or not. *)
Line == sse.held \o inbox

(* The open session's poller was not started: the call is not answered, or its *)
(* answer is a failure.                                                        *)
Unheard == Called \/ (replies # <<>> /\ replies[1].st = "failed")

(* The page on its way holds the final frame. *)
First == replies # <<>> /\ HasFinal(replies[1].evs)

(* The page that the main thread is fetching for the open session. *)
PageFits == Open /\ calls # <<>> /\ Head(calls) = sse.id => ReaderFits(rd[0], 0, FALSE)

UnheardFits ==
  Open /\ Unheard => rd[sse.id] = Idle /\ \A i \in 1 .. Len(Line) : Line[i].gen # sse.id

AnswerFits ==
  replies # <<>> /\ replies[1].st # "active" => Trouble \/ (First /\ replies[1].st # "failed")

(* The page or the screen ends at n, and what is under way goes on from there. *)
Attending == Listening /\ ~Unheard /\ sse.heard \subseteq {sse.id}
Base(n) == IF replies # <<>> THEN Chain(replies[1].evs, 1, n, row.turn)
           ELSE Exact(sse.screen, n, row.turn)
LineFits == Attending => \E cut : Base(cut[0]) /\ Feed(Line, cut, sse.id, First, rd[sse.id])

(* What is on the screen, while the session is open and when it is closed. *)
ScreenFits ==
  sse.heard \subseteq {sse.id} =>
    (\E n, t \in Nat : Exact(sse.screen, n, t)) /\ (sse.end = "error" => Trouble)

LInv == PageFits /\ UnheardFits /\ AnswerFits /\ LineFits /\ ScreenFits

(* The line is a sequence of pushes. *)
LEMMA LineTyped ==
  ASSUME Typed
  PROVE  Line \in Seq(Push) /\ Len(Line) \in Nat /\ sse.held \in Seq(Push) /\ inbox \in Seq(Push)
  BY DEF Typed, Session, Line

(* First is a truth value. *)
LEMMA FirstBool == First \in BOOLEAN
  BY DEF First, HasFinal

(* An open session's own poller. *)
LEMMA OwnReader ==
  ASSUME StreamInv, Open
  PROVE  sse.id \in Sessions /\ sse.id \in Readers /\ 0 \in Readers /\ sse.id # 0
<1>1. sse.id \in 0 .. MaxSessions /\ sse.id > 0
  BY DEF StreamInv, HostFits, Typed, PhaseFits, Session
<1> QED BY <1>1, StreamBounds DEF Sessions, Readers

(* What a step makes of a reader that fits. *)
Follows(r, tip, ended) ==
  \A q : q = rd'[r] /\ ReaderFits(rd[r], tip, ended) => ReaderFits(q, tip, ended)'

(* The session and its mail stay, and readers go on. *)
SameSession ==
  /\ sse'.id = sse.id /\ sse'.phase = sse.phase /\ sse'.screen = sse.screen
  /\ sse'.heard = sse.heard /\ sse'.end = sse.end

(* Then the whole invariant stays. *)
LEMMA MailKept ==
  ASSUME StreamInv, LInv, replies' = replies, SameSession, Line' = Line,
         Called' <=> Called, PageFits',
         Trouble => Trouble', Open => Steady, rd[sse.id] = Idle => rd'[sse.id] = Idle,
         Attending => \A tip \in Nat, ended \in BOOLEAN : Follows(sse.id, tip, ended)
  PROVE  LInv'
<1>0. /\ replies' = replies /\ sse'.id = sse.id /\ sse'.phase = sse.phase
      /\ sse'.screen = sse.screen /\ sse'.heard = sse.heard /\ sse'.end = sse.end
  BY DEF SameSession
<1>1. (Open' <=> Open) /\ (Listening' <=> Listening) /\ (Attending' <=> Attending)
  BY <1>0 DEF Open, Listening, Attending, Unheard
<1>2. Line' = Line /\ First' = First /\ (Unheard' <=> Unheard)
  BY <1>0 DEF First, HasFinal, Unheard
<1>4. UnheardFits'
  BY <1>0, <1>1, <1>2 DEF LInv, UnheardFits
<1>5. AnswerFits'
  BY <1>0, <1>2 DEF LInv, AnswerFits
<1>6. LineFits'
  <2> SUFFICES ASSUME Attending'
               PROVE  (\E cut : Base(cut[0]) /\ Feed(Line, cut, sse.id, First, rd[sse.id]))'
    BY DEF LineFits
  <2>1. Attending /\ Open /\ Steady
    BY <1>1 DEF Attending, Listening, Open
  <2>2. PICK cut : Base(cut[0]) /\ Feed(Line, cut, sse.id, First, rd[sse.id])
    BY <2>1 DEF LInv, LineFits
  <2>3. Base(cut[0])'
    <3>1. row'.turn = row.turn
      BY <2>1 DEF Steady
    <3> QED BY <1>0, <2>2, <3>1 DEF Base
  <2>4. PICK q : q = rd'[sse.id]
    OBVIOUS
  <2>5. PICK line : line = Line
    OBVIOUS
  <2>6. PICK first \in BOOLEAN : first = First
    BY FirstBool
  <2>7. PICK s : s = sse.id
    OBVIOUS
  <2>8. Len(line) \in Nat
    BY <2>5, LineTyped DEF StreamInv, HostFits
  <2>9. \A tip \in Nat, ended \in BOOLEAN : ReaderFits(rd[s], tip, ended) => ReaderFits(q, tip, ended)'
    BY <2>1, <2>4, <2>7 DEF Follows
  <2>10. Feed(line, cut, s, first, rd[s])
    BY <2>2, <2>5, <2>6, <2>7
  <2>11. Feed(line, cut, s, first, q)'
    BY <2>1, <2>8, <2>9, <2>10, FeedStays
  <2>12. line = Line' /\ s = sse'.id /\ first = First' /\ q = rd'[sse'.id]
    BY <1>0, <1>2, <2>4, <2>5, <2>6, <2>7
  <2>13. Feed(Line, cut, sse.id, First, rd[sse.id])'
    BY <2>11, <2>12
  <2> QED BY <2>3, <2>13
<1>7. ScreenFits'
  BY <1>0 DEF LInv, ScreenFits
<1> QED BY <1>4, <1>5, <1>6, <1>7 DEF LInv

(* The same, when the calls stay too. *)
LEMMA LineKept ==
  ASSUME StreamInv, LInv, UNCHANGED <<calls, replies, inbox, sse>>,
         Trouble => Trouble', Open => Steady, Follows(0, 0, FALSE),
         rd[sse.id] = Idle => rd'[sse.id] = Idle,
         Attending => \A tip \in Nat, ended \in BOOLEAN : Follows(sse.id, tip, ended)
  PROVE  LInv'
<1>1. /\ (Open' <=> Open) /\ (Called' <=> Called)
      /\ calls' = calls /\ replies' = replies /\ inbox' = inbox /\ sse' = sse
  BY DEF Open, Called
<1>2. PageFits'
  <2> SUFFICES ASSUME Open', calls' # <<>>, Head(calls)' = sse'.id PROVE ReaderFits(rd[0], 0, FALSE)'
    BY DEF PageFits
  <2>1. ReaderFits(rd[0], 0, FALSE)
    BY <1>1 DEF LInv, PageFits
  <2>2. PICK q : q = rd'[0]
    OBVIOUS
  <2>3. ReaderFits(q, 0, FALSE)'
    BY <2>1, <2>2 DEF Follows
  <2> QED BY <2>2, <2>3
<1>3. SameSession /\ Line' = Line
  BY <1>1 DEF SameSession, Line
<1> QED BY <1>1, <1>2, <1>3, MailKept

(* A reader that another step leaves alone. *)
LEMMA FollowsWaits ==
  ASSUME StreamInv, Steady, NEW r \in Readers, rd'[r] = rd[r]
  PROVE  \A tip \in Nat, ended \in BOOLEAN : Follows(r, tip, ended)
<1>1. PICK p : p = rd[r]
  OBVIOUS
<1>2. p \in Reader
  BY <1>1, ReaderFacts DEF StreamInv, HostFits
<1>3. \A tip \in Nat, ended \in BOOLEAN : ReaderFits(p, tip, ended) => ReaderFits(p, tip, ended)'
  BY <1>2, ReaderWaits
<1> QED BY <1>1, <1>3 DEF Follows

(* When no session is open only the screen matters, which stays. *)
LEMMA ClosedKept ==
  ASSUME StreamInv, LInv, UNCHANGED <<calls, replies, inbox, sse>>, Trouble => Trouble', ~Open
  PROVE  LInv'
<1>0. calls' = calls /\ replies' = replies /\ inbox' = inbox /\ sse' = sse
  OBVIOUS
<1>1. ~Open' /\ ~Attending' /\ replies' = <<>>
  BY <1>0 DEF Open, Attending, Listening, StreamInv, HostFits, PhaseFits
<1>2. PageFits' /\ UnheardFits' /\ AnswerFits' /\ LineFits'
  BY <1>1 DEF PageFits, UnheardFits, AnswerFits, LineFits
<1>3. ScreenFits'
  BY <1>0 DEF LInv, ScreenFits
<1> QED BY <1>2, <1>3 DEF LInv

(* The engine's steps. *)
LEMMA EngineLine ==
  ASSUME StreamInv, StreamInv', [Next]_vars, LInv, UNCHANGED host
  PROVE  LInv'
<1>1. (Trouble => Trouble') /\ UNCHANGED <<calls, replies, inbox, sse, rd>>
  BY TroubleStays DEF host
<1>2. CASE ~Open
  BY <1>1, <1>2, ClosedKept
<1>3. CASE Open
  <2>1. Steady
    BY <1>3, OpenSteady
  <2>2. sse.id \in Readers /\ 0 \in Readers /\ 0 \in Nat
    BY <1>3, OwnReader
  <2>3. /\ \A tip \in Nat, ended \in BOOLEAN : Follows(sse.id, tip, ended)
        /\ Follows(0, 0, FALSE)
    BY <1>1, <2>1, <2>2, FollowsWaits
  <2> QED BY <1>1, <2>1, <2>3, LineKept
<1> QED BY <1>2, <1>3

(* A step of one reader r. *)
LEMMA ReaderLine ==
  ASSUME StreamInv, StreamInv', [Next]_vars, LInv, UNCHANGED <<calls, replies, inbox, sse>>,
         NEW r \in Readers, \A h \in Readers : h # r => rd'[h] = rd[h], rd[r] # Idle,
         Open /\ Steady => \A tip \in Nat, ended \in BOOLEAN : Follows(r, tip, ended)
  PROVE  LInv'
<1>1. Trouble => Trouble'
  BY TroubleStays
<1>2. CASE ~Open
  BY <1>1, <1>2, ClosedKept
<1>3. CASE Open
  <2>1. Steady
    BY <1>3, OpenSteady
  <2>2. sse.id \in Readers /\ 0 \in Readers /\ 0 \in Nat
    BY <1>3, OwnReader
  <2>3. \A h \in Readers : \A tip \in Nat, ended \in BOOLEAN : Follows(h, tip, ended)
    <3>1. ASSUME NEW h \in Readers, h # r
          PROVE  \A tip \in Nat, ended \in BOOLEAN : Follows(h, tip, ended)
      BY <2>1, <3>1, FollowsWaits
    <3> QED BY <1>3, <2>1, <3>1
  <2>4. Follows(0, 0, FALSE) /\ \A tip \in Nat, ended \in BOOLEAN : Follows(sse.id, tip, ended)
    BY <2>2, <2>3
  <2>5. rd[sse.id] = Idle => rd'[sse.id] = Idle
    BY <2>2
  <2> QED BY <1>1, <2>1, <2>4, <2>5, LineKept
<1> QED BY <1>2, <1>3

(* An answer of the engine, or its failure. *)
LEMMA ServeLine ==
  ASSUME StreamInv, StreamInv', [Next]_vars, LInv, NEW r \in Readers, Serve(r)
  PROVE  LInv'
<1>0. EInv /\ EInv' /\ Typed /\ Sorts
  BY DEF StreamInv, HostFits
<1>1. PICK p \in Reader : /\ rd' = [rd EXCEPT ![r] = p] /\ rd[r].pc \in {"asked", "row"}
                          /\ UNCHANGED <<calls, replies, inbox, sse>>
  BY <1>0, ServeMakes
<1>2. \A h \in Readers : h # r => rd'[h] = rd[h]
  BY <1>0, <1>1 DEF Typed
<1>3. rd[r] # Idle
  BY <1>0, <1>1, ReaderFacts
<1>4. ASSUME Open, Steady PROVE \A tip \in Nat, ended \in BOOLEAN : Follows(r, tip, ended)
  BY <1>4, ServeFits DEF Follows
<1> QED BY <1>1, <1>2, <1>3, <1>4, ReaderLine

(* A poller's steps before it emits. *)
LEMMA PollLine ==
  ASSUME StreamInv, StreamInv', [Next]_vars, LInv, NEW g \in Sessions,
         PollCheck(g) \/ PollGot(g) \/ PollFailed(g)
  PROVE  LInv'
<1>0. Typed /\ Sorts /\ g \in Readers
  BY DEF StreamInv, HostFits, Sessions, Readers
<1>1. PICK p \in Reader : /\ rd' = [rd EXCEPT ![g] = p] /\ rd[g].pc # "off"
                          /\ UNCHANGED <<engine, claim, calls, replies, inbox, sse, faults>>
  BY <1>0, PollMakes
<1>2. \A h \in Readers : h # g => rd'[h] = rd[h]
  BY <1>0, <1>1 DEF Typed
<1>3. rd[g] # Idle
  BY <1>0, <1>1, ReaderFacts
<1>4. ASSUME Open, Steady PROVE \A tip \in Nat, ended \in BOOLEAN : Follows(g, tip, ended)
  BY <1>4, PollFits DEF Follows
<1> QED BY <1>0, <1>1, <1>2, <1>3, <1>4, ReaderLine

(* The engine dies. *)
LEMMA DiesLine ==
  ASSUME StreamInv, StreamInv', [Next]_vars, LInv, EngineDies
  PROVE  LInv'
<1>1. (Trouble => Trouble') /\ UNCHANGED <<calls, replies, inbox, sse>>
  BY TroubleStays DEF EngineDies
<1>2. CASE ~Open
  BY <1>1, <1>2, ClosedKept
<1>3. CASE Open
  <2>1. Steady
    BY <1>3, OpenSteady
  <2>2. sse.id \in Readers /\ 0 \in Readers /\ 0 \in Nat
    BY <1>3, OwnReader
  <2>3. \A h \in Readers : \A tip \in Nat, ended \in BOOLEAN : Follows(h, tip, ended)
    BY <2>1, DiesFits DEF Follows
  <2>4. Follows(0, 0, FALSE) /\ \A tip \in Nat, ended \in BOOLEAN : Follows(sse.id, tip, ended)
    BY <2>2, <2>3
  <2>5. rd[sse.id] = Idle => rd'[sse.id] = Idle
    BY <2>2, IdleFacts DEF EngineDies
  <2> QED BY <1>1, <2>1, <2>4, <2>5, LineKept
<1> QED BY <1>2, <1>3

(* The command asks for the page. *)
LEMMA CmdStartLine ==
  ASSUME StreamInv, StreamInv', [Next]_vars, LInv, CmdStart
  PROVE  LInv'
<1>1. /\ (Trouble => Trouble') /\ UNCHANGED <<calls, replies, inbox, sse>>
      /\ rd[0].pc = "off" /\ rd' = [rd EXCEPT ![0].pc = "asked"]
  BY TroubleStays DEF CmdStart
<1>0. rd \in [Readers -> Reader] /\ rd[0].after = 0
  BY DEF StreamInv, HostFits, Typed, CallFits
<1>2. CASE ~Open
  BY <1>1, <1>2, ClosedKept
<1>3. CASE Open
  <2>1. Steady
    BY <1>3, OpenSteady
  <2>2. sse.id \in Readers /\ 0 \in Readers /\ sse.id # 0
    BY <1>3, OwnReader
  <2>3. rd'[sse.id] = rd[sse.id]
    BY <1>0, <1>1, <2>2
  <2>4. \A tip \in Nat, ended \in BOOLEAN : Follows(sse.id, tip, ended)
    BY <2>1, <2>2, <2>3, FollowsWaits
  <2>5. PICK q : q = rd'[0]
    OBVIOUS
  <2>6. q.pc = "asked" /\ q.after = 0
    BY <1>0, <1>1, <2>2, <2>5 DEF Reader
  <2>7. Trouble' \/ 0 <= BodyLen'
    BY <2>1 DEF Steady
  <2>8. ReaderFits(q, 0, FALSE)'
    BY <2>6, <2>7 DEF ReaderFits
  <2>9. Follows(0, 0, FALSE)
    BY <2>5, <2>8 DEF Follows
  <2> QED BY <1>1, <2>1, <2>3, <2>4, <2>9, LineKept
<1> QED BY <1>2, <1>3

(* A push at the end of a line. *)
LEMMA LineAppends ==
  ASSUME NEW S, NEW x \in Seq(S), NEW y \in Seq(S), NEW e \in S
  PROVE  x \o Append(y, e) = Append(x \o y, e)
  OBVIOUS

(* A poller pushes. *)
LEMMA EmitLine ==
  ASSUME StreamInv, StreamInv', [Next]_vars, LInv, NEW g \in Sessions, PollEmit(g)
  PROVE  LInv'
<1>0. /\ Typed /\ Sorts /\ g \in Readers /\ 0 \in Readers /\ g # 0 /\ rd \in [Readers -> Reader]
      /\ rd[g].pc = "emit" /\ calls' = calls /\ replies' = replies /\ sse' = sse
      /\ engine' = engine /\ faults' = faults
  BY StreamBounds DEF StreamInv, HostFits, Sessions, Readers, PollEmit, Typed
<1>a. PICK p : p = rd[g]
  OBVIOUS
<1>b. p \in Reader /\ p.pc = "emit" /\ p # Idle /\ p.after \in Nat
  BY <1>0, <1>a, ReaderFacts
<1>c. PICK q : q = rd'[g]
  OBVIOUS
<1>d. (q = Idle \/ q = Again(p)) /\ \A h \in Readers : h # g => rd'[h] = rd[h]
  BY <1>0, <1>a, <1>c DEF PollEmit
<1>e. q.pc \in {"off", "check"} /\ (q.pc = "check" => q.after = p.after)
  <2>1. CASE q = Idle
    BY <2>1, IdleFacts
  <2>2. CASE q = Again(p)
    BY <1>b, <2>2 DEF Again, Reader
  <2> QED BY <1>d, <2>1, <2>2
<1>1. Trouble => Trouble'
  BY TroubleStays
<1>2. CASE ~Listening
  <2>1. inbox' = inbox
    BY <1>2 DEF PollEmit
  <2>2. CASE ~Open
    BY <1>0, <1>1, <2>1, <2>2, ClosedKept
  <2>3. CASE Open
    <3>1. Steady
      BY <2>3, OpenSteady
    <3>2. rd'[0] = rd[0]
      BY <1>0, <1>d
    <3>3. Follows(0, 0, FALSE)
      BY <1>0, <3>1, <3>2, FollowsWaits
    <3>4. ~Attending
      BY <1>2 DEF Attending
    <3>5. rd[sse.id] = Idle => rd'[sse.id] = Idle
      BY <1>a, <1>b, <1>d, <2>3, OwnReader
    <3> QED BY <1>0, <1>1, <2>1, <3>1, <3>3, <3>4, <3>5, LineKept
  <2> QED BY <2>2, <2>3
<1>3. CASE Listening
  <2>0. Open
    BY <1>3 DEF Open, Listening
  <2>1. Steady
    BY <2>0, OpenSteady
  <2>2. PICK push : push = [gen |-> g, st |-> p.st, evs |-> p.evs]
    OBVIOUS
  <2>3. push \in Push /\ push.gen = g /\ push.st = p.st /\ push.evs = p.evs
    BY <1>b, <2>2 DEF Push, Reader
  <2>4. inbox' = Append(inbox, push)
    BY <1>3, <1>a, <2>2 DEF PollEmit
  <2>5. Line \in Seq(Push) /\ Line' = Append(Line, push)
    <3>1. Line \in Seq(Push) /\ sse.held \in Seq(Push) /\ inbox \in Seq(Push)
      BY <1>0, LineTyped
    <3>2. PICK x \in Seq(Push), y \in Seq(Push) : x = sse.held /\ y = inbox
      BY <3>1
    <3>3. x \o Append(y, push) = Append(x \o y, push)
      BY <2>3, LineAppends
    <3>4. Line = x \o y /\ Line' = x \o Append(y, push)
      BY <1>0, <2>4, <3>2 DEF Line
    <3> QED BY <3>1, <3>3, <3>4
  <2>6. /\ Open' /\ (Unheard' <=> Unheard) /\ First' = First /\ (Attending' <=> Attending)
        /\ row'.turn = row.turn
    BY <1>0, <2>0, <2>1 DEF Open, Unheard, Called, First, HasFinal, Attending, Listening, Steady
  <2>7. PageFits'
    <3> SUFFICES ASSUME Open', calls' # <<>>, Head(calls)' = sse'.id PROVE ReaderFits(rd[0], 0, FALSE)'
      BY DEF PageFits
    <3>1. ReaderFits(rd[0], 0, FALSE)
      BY <1>0, <2>0 DEF LInv, PageFits
    <3>2. PICK z : z = rd[0]
      OBVIOUS
    <3>3. z \in Reader /\ z = rd'[0]
      BY <1>0, <1>d, <3>2
    <3>4. ReaderFits(z, 0, FALSE)'
      BY <2>1, <3>1, <3>2, <3>3, ReaderWaits
    <3> QED BY <3>3, <3>4
  <2>8. UnheardFits'
    <3> SUFFICES ASSUME Unheard'
                 PROVE  rd'[sse'.id] = Idle /\ \A i \in 1 .. Len(Line') : Line'[i].gen # sse'.id
      BY DEF UnheardFits
    <3>1. rd[sse.id] = Idle /\ \A i \in 1 .. Len(Line) : Line[i].gen # sse.id
      BY <2>0, <2>6 DEF LInv, UnheardFits
    <3>2. sse.id # g /\ rd'[sse.id] = Idle
      BY <1>0, <1>a, <1>b, <1>d, <2>0, <3>1, OwnReader
    <3>3. \A i \in 1 .. Len(Line') : Line'[i] = push \/ (i \in 1 .. Len(Line) /\ Line'[i] = Line[i])
      BY <2>3, <2>5, GrownFacts
    <3> QED BY <1>0, <2>3, <3>1, <3>2, <3>3
  <2>9. AnswerFits'
    BY <1>0, <1>1, <2>6 DEF LInv, AnswerFits
  <2>10. LineFits'
    <3> SUFFICES ASSUME Attending
                 PROVE  (\E cut : Base(cut[0]) /\ Feed(Line, cut, sse.id, First, rd[sse.id]))'
      BY <2>6 DEF LineFits
    <3>1. PICK cut : Base(cut[0]) /\ Feed(Line, cut, sse.id, First, rd[sse.id])
      BY DEF LInv, LineFits
    <3>2. PICK s : s = sse.id
      OBVIOUS
    <3>3. PICK first \in BOOLEAN : first = First
      BY FirstBool
    <3>4. PICK line : line = Line
      OBVIOUS
    <3>5. PICK z : z = rd'[s]
      OBVIOUS
    <3>6. Feed(line, cut, s, first, rd[s]) /\ BodyLen \in Nat /\ line \in Seq(Push)
      BY <2>1, <2>5, <3>1, <3>2, <3>3, <3>4 DEF Steady
    <3>7. PICK c : c[0] = cut[0] /\ Feed(Append(line, push), c, s, first, z)
      <4>1. CASE g = s
        <5>1. z = q /\ rd[s] = p
          BY <1>a, <1>c, <3>5, <4>1
        <5>2. Feed(line, cut, s, first, p)
          BY <3>6, <5>1
        <5> QED BY <1>b, <1>e, <2>3, <3>6, <4>1, <5>1, <5>2, FeedPushed
      <4>2. CASE g # s
        <5>1. z = rd[s]
          BY <1>d, <2>0, <3>2, <3>5, <4>2, OwnReader
        <5>2. Feed(line, cut, s, first, z)
          BY <3>6, <5>1
        <5> QED BY <2>3, <3>6, <4>2, <5>2, FeedPassed
      <4> QED BY <4>1, <4>2
    <3>8. PICK more : more = Append(line, push)
      OBVIOUS
    <3>9. Len(more) \in Nat /\ z \in Reader
      <4>1. s \in Readers
        BY <2>0, <3>2, OwnReader
      <4>2. rd' \in [Readers -> Reader]
        BY DEF StreamInv, HostFits, Typed
      <4> QED BY <2>3, <3>5, <3>6, <3>8, <4>1, <4>2
    <3>10. Feed(more, c, s, first, z)'
      <4>1. \A tip \in Nat, ended \in BOOLEAN : ReaderFits(z, tip, ended) => ReaderFits(z, tip, ended)'
        BY <2>1, <3>9, ReaderWaits
      <4> QED BY <2>1, <3>7, <3>8, <3>9, <4>1, FeedStays
    <3>11. more = Line' /\ s = sse'.id /\ first = First' /\ z = rd'[sse'.id]
      BY <1>0, <2>5, <2>6, <3>2, <3>3, <3>4, <3>5, <3>8
    <3>12. Feed(Line, c, sse.id, First, rd[sse.id])'
      BY <3>10, <3>11
    <3>13. Base(c[0])'
      BY <1>0, <2>6, <3>1, <3>7 DEF Base
    <3> QED BY <3>12, <3>13
  <2>11. ScreenFits'
    BY <1>0, <1>1 DEF LInv, ScreenFits
  <2> QED BY <2>7, <2>8, <2>9, <2>10, <2>11 DEF LInv
<1> QED BY <1>2, <1>3

(* A session that is closed. *)
LEMMA ShutLine ==
  ASSUME ~Open', replies' = <<>>, ScreenFits'
  PROVE  LInv'
<1>1. ~Attending'
  BY DEF Open, Attending, Listening
<1> QED BY <1>1 DEF LInv, PageFits, UnheardFits, AnswerFits, LineFits

(* The person leaves. *)
LEMMA CloseLine ==
  ASSUME StreamInv, StreamInv', [Next]_vars, LInv, Close
  PROVE  LInv'
<1>1. sse' = Closed(sse, "abort") /\ replies' = <<>> /\ sse \in Session
  BY DEF Close, Becomes, StreamInv, HostFits, Typed
<1>2. sse'.phase = "closed" /\ sse'.screen = sse.screen /\ sse'.heard = sse.heard
      /\ sse'.end = "abort" /\ sse'.id = sse.id
  BY <1>1, ClosedFacts
<1>3. ScreenFits'
  BY <1>2 DEF LInv, ScreenFits
<1> QED BY <1>1, <1>2, <1>3, ShutLine DEF Open

(* The host glue does not load. *)
LEMMA ListenFailsLine ==
  ASSUME StreamInv, StreamInv', [Next]_vars, LInv, ListenFails
  PROVE  LInv'
<1>1. sse' = Closed(sse, "error") /\ replies' = <<>> /\ sse \in Session
  BY DEF ListenFails, StreamInv, HostFits, Typed, PhaseFits
<1>2. sse'.phase = "closed" /\ sse'.screen = sse.screen /\ sse'.heard = sse.heard
      /\ sse'.id = sse.id
  BY <1>1, ClosedFacts
<1>3. faults' = faults + 1 /\ faults \in Nat
  BY StreamBounds DEF ListenFails, StreamInv, HostFits, Typed
<1>4. Trouble'
  BY <1>3 DEF Trouble
<1>5. ScreenFits'
  BY <1>2, <1>4 DEF LInv, ScreenFits
<1> QED BY <1>1, <1>2, <1>5, ShutLine DEF Open

(* The first call is the open session's only if it called. *)
LEMMA HeadCalled ==
  ASSUME Typed, calls # <<>>, Head(calls) = sse.id
  PROVE  Called
<1>1. 1 \in 1 .. Len(calls) /\ Head(calls) = calls[1]
  BY QueueFacts DEF Typed
<1> QED BY <1>1 DEF Called

(* An empty screen shows the frames 1 .. 0. *)
LEMMA EmptyExact == Exact(<<>>, 0, 0)
  BY DEF Exact

(* A new session has an empty screen. *)
LEMMA ConnectLine ==
  ASSUME StreamInv, StreamInv', [Next]_vars, LInv, Connect
  PROVE  LInv'
<1>1. PICK k \in Nat : k = sse.id
  BY StreamBounds DEF StreamInv, HostFits, Typed, Session
<1>a. PICK o : o = [sse.opened EXCEPT ![sse.id + 1] = turn]
  OBVIOUS
<1>2. sse' = [NoSession EXCEPT !.id = k + 1, !.phase = "connecting", !.opened = o] /\ replies' = <<>>
  BY <1>1, <1>a DEF Connect, StreamInv, HostFits, PhaseFits
<1>3. sse'.phase = "connecting" /\ sse'.screen = <<>> /\ sse'.heard = {} /\ sse'.end = "none"
  BY <1>2 DEF NoSession
<1>4. ~Called' /\ Typed'
  BY <1>3 DEF StreamInv, HostFits, PhaseFits
<1>5. ~Attending' /\ ~Unheard'
  BY <1>2, <1>3, <1>4 DEF Attending, Listening, Unheard
<1>6. PageFits'
  <2>1. (Typed /\ calls # <<>> /\ Head(calls) = sse.id => Called)'
    BY HeadCalled, PTL
  <2> QED BY <1>4, <2>1 DEF PageFits
<1>7. UnheardFits' /\ AnswerFits' /\ LineFits'
  BY <1>2, <1>5 DEF UnheardFits, AnswerFits, LineFits
<1>8. ScreenFits'
  BY <1>3, EmptyExact DEF ScreenFits
<1> QED BY <1>6, <1>7, <1>8 DEF LInv

(* It subscribes and calls. *)
LEMMA ListenLine ==
  ASSUME StreamInv, StreamInv', [Next]_vars, LInv, Listen
  PROVE  LInv'
<1>0. /\ Open /\ sse.phase = "connecting" /\ calls' = Append(calls, sse.id) /\ rd' = rd
      /\ replies' = <<>> /\ inbox' = <<>> /\ sse.held = <<>> /\ ~Called /\ sse.screen = <<>>
      /\ Typed /\ sse \in Session /\ calls \in Seq(Sessions)
  BY DEF Open, Listen, StreamInv, HostFits, PhaseFits, Typed, Listening
<1>1. Steady /\ sse.id \in Sessions
  BY <1>0, OpenSteady, OwnReader
<1>2. sse' = [sse EXCEPT !.phase = "waiting"]
  BY DEF Listen
<1>3. /\ sse'.id = sse.id /\ sse'.phase = "waiting" /\ sse'.held = <<>> /\ sse'.screen = sse.screen
      /\ sse'.heard = sse.heard /\ sse'.end = sse.end
  BY <1>0, <1>2 DEF Session
<1>4. Called'
  <2>1. Len(calls') \in 1 .. Len(calls') /\ calls'[Len(calls')] = sse.id
    BY <1>0, <1>1
  <2> QED BY <1>3, <2>1 DEF Called
<1>5. rd'[sse'.id] = Idle
  BY <1>4 DEF StreamInv, HostFits, PhaseFits
<1>6. Len(Line') = 0
  BY <1>0, <1>3 DEF Line
<1>7. UnheardFits'
  BY <1>5, <1>6 DEF UnheardFits
<1>8. AnswerFits'
  BY <1>0 DEF AnswerFits
<1>9. LineFits'
  BY <1>4 DEF LineFits, Attending, Unheard
<1>10. ScreenFits'
  <2>1. Trouble => Trouble'
    BY <1>1 DEF Steady
  <2> QED BY <1>3, <2>1 DEF LInv, ScreenFits
<1>11. PageFits'
  <2> SUFFICES ASSUME Head(calls)' = sse'.id PROVE ReaderFits(rd[0], 0, FALSE)'
    BY DEF PageFits
  <2>1. calls = <<>>
    <3> SUFFICES ASSUME calls # <<>> PROVE FALSE
      OBVIOUS
    <3>1. Head(calls') = Head(calls)
      BY <1>0, <1>1
    <3> QED BY <1>0, <1>3, <3>1, HeadCalled
  <2>2. rd[0].pc = "off"
    BY <2>1 DEF StreamInv, HostFits, CallFits
  <2>3. 0 <= BodyLen'
    BY <1>1 DEF Steady
  <2>4. rd'[0].pc = "off"
    BY <1>0, <2>2
  <2> QED BY <2>3, <2>4 DEF ReaderFits
<1> QED BY <1>7, <1>8, <1>9, <1>10, <1>11 DEF LInv

(* The command ends for a session that nobody looks at any more, or with its   *)
(* call before the open session's.                                             *)
LEMMA OtherCallLine ==
  ASSUME StreamInv, StreamInv', [Next]_vars, LInv, calls # <<>>, calls' = Tail(calls),
         sse' = sse, inbox' = inbox, replies' = replies, rd'[0] = Idle,
         ~Open \/ Head(calls) # sse.id,
         \A r \in Readers : r # 0 /\ r # Head(calls) => rd'[r] = rd[r]
  PROVE  LInv'
<1>0. (Trouble => Trouble') /\ Typed /\ CallFits
  BY TroubleStays DEF StreamInv, HostFits
<1>1. CASE ~Open
  <2>1. ~Open' /\ replies' = <<>>
    BY <1>1 DEF Open, StreamInv, HostFits, PhaseFits
  <2>2. ScreenFits'
    BY <1>0 DEF LInv, ScreenFits
  <2> QED BY <2>1, <2>2, ShutLine
<1>2. CASE Open /\ Head(calls) # sse.id
  <2>1. Steady /\ sse.id \in Readers /\ sse.id # 0
    BY <1>2, OpenSteady, OwnReader
  <2>2. Called' <=> Called
    BY <1>0, <1>2, CallLeaves
  <2>3. rd'[sse.id] = rd[sse.id]
    BY <1>2, <2>1
  <2>4. \A tip \in Nat, ended \in BOOLEAN : Follows(sse.id, tip, ended)
    BY <2>1, <2>3, FollowsWaits
  <2>5. PageFits'
    <3>1. 0 <= BodyLen' /\ rd'[0].pc = "off"
      BY <2>1, IdleFacts DEF Steady
    <3> QED BY <3>1 DEF PageFits, ReaderFits
  <2>6. SameSession /\ Line' = Line
    BY DEF SameSession, Line
  <2> QED BY <1>0, <2>1, <2>2, <2>3, <2>4, <2>5, <2>6, MailKept
<1> QED BY <1>1, <1>2

(* The open session's call. *)
LEMMA OwnCall ==
  ASSUME StreamInv, LInv, Open, calls # <<>>, Head(calls) = sse.id
  PROVE  /\ Called /\ sse.phase = "waiting" /\ replies = <<>> /\ rd[sse.id] = Idle
         /\ \A i \in 1 .. Len(Line) : Line[i].gen # sse.id
         /\ ReaderFits(rd[0], 0, FALSE) /\ sse.screen = <<>> /\ sse.heard = {}
<1>0. Typed /\ PhaseFits /\ sse \in Session
  BY DEF StreamInv, HostFits, Typed
<1>1. Called
  BY <1>0, HeadCalled
<1>2. sse.phase = "waiting"
  BY <1>0, <1>1 DEF PhaseFits, Open, Session
<1>3. replies = <<>> /\ rd[sse.id] = Idle /\ sse.screen = <<>> /\ sse.heard = {}
  BY <1>0, <1>1, <1>2 DEF PhaseFits
<1>4. \A i \in 1 .. Len(Line) : Line[i].gen # sse.id
  BY <1>1 DEF LInv, UnheardFits, Unheard
<1>5. ReaderFits(rd[0], 0, FALSE)
  BY DEF LInv, PageFits
<1> QED BY <1>1, <1>2, <1>3, <1>4, <1>5

(* The command fails: an error will have its reason. *)
LEMMA CmdFailedLine ==
  ASSUME StreamInv, StreamInv', [Next]_vars, LInv, CmdFailed
  PROVE  LInv'
<1>0. /\ Typed /\ CallFits /\ rd[0].pc = "failed" /\ calls # <<>> /\ calls' = Tail(calls)
      /\ sse' = sse /\ inbox' = inbox /\ rd' = [rd EXCEPT ![0] = Idle] /\ 0 \in Readers
      /\ rd \in [Readers -> Reader]
  BY StreamBounds DEF StreamInv, HostFits, CmdFailed, CallFits, Typed, Readers
<1>1. rd'[0] = Idle /\ \A r \in Readers : r # 0 => rd'[r] = rd[r]
  BY <1>0
<1>2. PICK page : page = [gen |-> Head(calls), st |-> "failed", evs |-> {}]
  OBVIOUS
<1>3. replies' = IF Open /\ page.gen = sse.id THEN <<page>> ELSE replies
  BY <1>2 DEF CmdFailed, Answer
<1>4. CASE ~Open \/ Head(calls) # sse.id
  <2>1. replies' = replies
    BY <1>2, <1>3, <1>4
  <2> QED BY <1>0, <1>1, <1>4, <2>1, OtherCallLine
<1>5. CASE Open /\ Head(calls) = sse.id
  <2>1. /\ Called /\ sse.phase = "waiting" /\ rd[sse.id] = Idle
        /\ \A i \in 1 .. Len(Line) : Line[i].gen # sse.id
        /\ ReaderFits(rd[0], 0, FALSE)
    BY <1>0, <1>5, OwnCall
  <2>2. replies' = <<page>> /\ replies' # <<>> /\ replies'[1] = page /\ page.st = "failed"
    BY <1>2, <1>3, <1>5
  <2>3. Trouble /\ Trouble'
    BY <1>0, <2>1, TroubleStays DEF ReaderFits
  <2>4. ~Called' /\ Typed'
    BY <1>0, <1>5, CallLeaves DEF StreamInv, HostFits
  <2>5. Unheard' /\ ~Attending'
    BY <2>2 DEF Unheard, Attending
  <2>6. PageFits'
    <3>1. (Typed /\ calls # <<>> /\ Head(calls) = sse.id => Called)'
      BY HeadCalled, PTL
    <3> QED BY <2>4, <3>1 DEF PageFits
  <2>7. UnheardFits'
    <3>1. rd'[sse.id] = Idle
      BY <1>1, <1>5, <2>1, OwnReader
    <3>2. Line' = Line
      BY <1>0 DEF Line
    <3> QED BY <1>0, <2>1, <3>1, <3>2 DEF UnheardFits
  <2>8. AnswerFits' /\ LineFits'
    BY <2>3, <2>5 DEF AnswerFits, LineFits
  <2>9. ScreenFits'
    BY <1>0, <2>3 DEF LInv, ScreenFits
  <2> QED BY <2>6, <2>7, <2>8, <2>9 DEF LInv
<1> QED BY <1>4, <1>5

(* The page is served, and its poller starts where the page ends. *)
LEMMA CmdGotLine ==
  ASSUME StreamInv, StreamInv', [Next]_vars, LInv, CmdGot
  PROVE  LInv'
<1>0. /\ Typed /\ CallFits /\ rd[0].pc = "got" /\ calls # <<>> /\ calls' = Tail(calls)
      /\ sse' = sse /\ inbox' = inbox /\ 0 \in Readers
      /\ rd \in [Readers -> Reader]
  BY StreamBounds DEF StreamInv, HostFits, CmdGot, CallFits, Typed, Readers
<1>a. PICK s : s = Head(calls)
  OBVIOUS
<1>b. s \in Readers /\ s # 0 /\ s \in Sessions
  BY <1>0, <1>a, CallLeaves
<1>c. PICK p : p = rd[0]
  OBVIOUS
<1>d. p \in Reader /\ p.pc = "got" /\ p.evs \subseteq Event /\ p.st \in Statuses
  BY <1>0, <1>c, ReaderFacts
<1>e. PICK n : n = ResumeCursor(p.evs)
  OBVIOUS
<1>f. PICK q : q = [Idle EXCEPT !.pc = "check", !.after = n]
  OBVIOUS
<1>g. rd' = [rd EXCEPT ![0] = Idle, ![s] = q]
  BY <1>a, <1>c, <1>e, <1>f DEF CmdGot
<1>1. rd'[0] = Idle /\ rd'[s] = q /\ \A r \in Readers : r # 0 /\ r # s => rd'[r] = rd[r]
  BY <1>0, <1>b, <1>g
<1>2. PICK page : page = [gen |-> s, st |-> p.st, evs |-> p.evs]
  OBVIOUS
<1>3. replies' = IF Open /\ page.gen = sse.id THEN <<page>> ELSE replies
  BY <1>2, <1>a, <1>c DEF CmdGot, Answer
<1>4. CASE ~Open \/ s # sse.id
  <2>1. replies' = replies
    BY <1>2, <1>3, <1>4
  <2> QED BY <1>0, <1>1, <1>4, <1>a, <2>1, OtherCallLine
<1>5. CASE Open /\ s = sse.id
  <2>1. /\ Called /\ sse.phase = "waiting"
        /\ \A i \in 1 .. Len(Line) : Line[i].gen # sse.id
        /\ ReaderFits(p, 0, FALSE) /\ sse.screen = <<>> /\ sse.heard = {}
    BY <1>0, <1>5, <1>a, <1>c, OwnCall
  <2>2. replies' # <<>> /\ replies'[1] = page /\ page.st = p.st /\ page.evs = p.evs /\ p.st # "failed"
    BY <1>2, <1>3, <1>5, <1>d DEF Statuses, Settled
  <2>3. Steady
    BY <1>5, OpenSteady
  <2>4. ~Called' /\ Typed'
    BY <1>0, <1>5, <1>a, CallLeaves DEF StreamInv, HostFits
  <2>5. ~Unheard'
    BY <2>2, <2>4 DEF Unheard
  <2>6. PageFits'
    <3>1. (Typed /\ calls # <<>> /\ Head(calls) = sse.id => Called)'
      BY HeadCalled, PTL
    <3> QED BY <2>4, <3>1 DEF PageFits
  <2>7. UnheardFits'
    BY <2>5 DEF UnheardFits
  <2>8. PICK b \in Nat : Chain(p.evs, 1, b, row.turn) /\ Good(p.st, HasFinal(p.evs), b)
    <3>1. PICK b \in Nat : Chain(p.evs, 0 + 1, b, row.turn) /\ Good(p.st, HasFinal(p.evs) \/ FALSE, b)
      BY <1>d, <2>1 DEF ReaderFits
    <3>2. Good(p.st, HasFinal(p.evs), b)
      BY <3>1 DEF Good
    <3> QED BY <3>1, <3>2
  <2>9. PICK first \in BOOLEAN : first = HasFinal(p.evs)
    BY DEF HasFinal
  <2>10. first = First'
    BY <2>2, <2>9 DEF First
  <2>11. AnswerFits'
    <3>1. p.st # "active" => Trouble \/ first
      BY <2>8, <2>9 DEF Good
    <3> QED BY <2>2, <2>3, <2>10, <3>1 DEF AnswerFits, Steady
  <2>12. n = b
    <3>1. EndOf(p.evs, 1 - 1) = b
      BY <1>d, <2>8, EndOfChain
    <3> QED BY <1>e, <3>1 DEF ResumeCursor
  <2>13. q \in Reader /\ q.pc = "check" /\ q.after = b
    <3>1. rd' \in [Readers -> Reader]
      BY <2>4 DEF Typed
    <3>2. q.pc = "check" /\ q.after = b
      BY <1>f, <2>12 DEF Idle
    <3> QED BY <1>1, <1>b, <3>1, <3>2
  <2>14. ReaderFits(q, b, first)
    <3>1. Trouble \/ first \/ b <= BodyLen
      BY <2>3, <2>8, <2>9 DEF Good, Steady
    <3> QED BY <2>13, <3>1 DEF ReaderFits
  <2>15. PICK line : line = Line
    OBVIOUS
  <2>16. Len(line) \in Nat /\ \A i \in 1 .. Len(line) : line[i].gen # s
    BY <1>0, <1>5, <2>1, <2>15, LineTyped
  <2>17. PICK cut : cut[0] = b /\ Feed(line, cut, s, first, q)
    <3>1. Foreign(line, s)
      BY <2>16 DEF Foreign
    <3> QED BY <2>14, <2>16, <3>1, FeedStarts
  <2>18. Feed(line, cut, s, first, q)'
    <3>1. \A tip \in Nat, ended \in BOOLEAN : ReaderFits(q, tip, ended) => ReaderFits(q, tip, ended)'
      BY <2>3, <2>13, ReaderWaits
    <3> QED BY <2>3, <2>16, <2>17, <3>1, FeedStays
  <2>19. Feed(Line, cut, sse.id, First, rd[sse.id])'
    <3>1. line = Line' /\ s = sse'.id /\ q = rd'[sse'.id]
      BY <1>0, <1>1, <1>5, <2>15 DEF Line
    <3> QED BY <2>10, <2>18, <3>1
  <2>20. Base(cut[0])'
    <3>1. row'.turn = row.turn
      BY <2>3 DEF Steady
    <3> QED BY <2>2, <2>8, <2>17, <3>1 DEF Base
  <2>21. LineFits'
    BY <2>19, <2>20 DEF LineFits
  <2>22. ScreenFits'
    BY <1>0, <2>3 DEF LInv, ScreenFits, Steady
  <2> QED BY <2>6, <2>7, <2>11, <2>21, <2>22 DEF LInv
<1> QED BY <1>4, <1>5

(* A session that is live behind this step. *)
LEMMA LiveLine ==
  ASSUME StreamInv, StreamInv', Steady, sse'.phase = "live", rd' = rd, NEW s \in Readers, sse'.id = s,
         NEW y, y = inbox',
         sse'.heard \subseteq {s} =>
           \E cut : Exact(sse'.screen, cut[0], row.turn) /\ Feed(y, cut, s, FALSE, rd[s])
  PROVE  LInv'
<1>1. ~Called' /\ replies' = <<>> /\ sse'.held = <<>> /\ sse'.end = "none" /\ Typed' /\ y \in Seq(Push)
  BY DEF StreamInv, HostFits, PhaseFits, Typed, Open
<1>2. ~Unheard' /\ First' = FALSE
  BY <1>1 DEF Unheard, First
<1>3. Line' = y
  BY <1>1 DEF Line
<1>4. PageFits'
  <2>1. (Typed /\ calls # <<>> /\ Head(calls) = sse.id => Called)'
    BY HeadCalled, PTL
  <2> QED BY <1>1, <2>1 DEF PageFits
<1>5. UnheardFits' /\ AnswerFits'
  BY <1>1, <1>2 DEF UnheardFits, AnswerFits
<1>6. CASE ~(sse'.heard \subseteq {s})
  BY <1>4, <1>5, <1>6 DEF LInv, LineFits, Attending, ScreenFits
<1>7. CASE sse'.heard \subseteq {s}
  <2>1. PICK cut : Exact(sse'.screen, cut[0], row.turn) /\ Feed(y, cut, s, FALSE, rd[s])
    BY <1>7
  <2>2. Len(y) \in Nat /\ row'.turn = row.turn /\ cut[0] \in Nat /\ row.turn \in Nat
    <3>1. row.turn \in Nat
      <4>1. row \in [turn : 1 .. MaxTurns, status : {"active"} \cup Settled] \cup {NoRow}
        BY DEF StreamInv, EInv, EngineTypeOK
      <4>2. NoRow.turn \in Nat
        BY DEF NoRow
      <4> QED BY <4>1, <4>2, ChatBounds
    <3>2. cut \in [0 .. Len(y) -> Nat] /\ Len(y) \in Nat
      BY <1>1, <2>1 DEF Feed, Strung
    <3> QED BY <3>1, <3>2 DEF Steady
  <2>3. PICK p : p = rd[s]
    OBVIOUS
  <2>4. p \in Reader /\ Feed(y, cut, s, FALSE, p)
    BY <2>1, <2>3, ReaderFacts DEF StreamInv, HostFits
  <2>5. Feed(y, cut, s, FALSE, p)'
    <3>1. \A tip \in Nat, ended \in BOOLEAN : ReaderFits(p, tip, ended) => ReaderFits(p, tip, ended)'
      BY <2>4, ReaderWaits
    <3> QED BY <2>2, <2>4, <3>1, FeedStays
  <2>6. Feed(Line, cut, sse.id, First, rd[sse.id])'
    <3>1. p = rd'[sse'.id]
      BY <2>3
    <3> QED BY <1>2, <1>3, <2>5, <3>1
  <2>7. Base(cut[0])'
    BY <1>1, <2>1, <2>2 DEF Base
  <2>8. LineFits'
    BY <2>6, <2>7 DEF LineFits
  <2>9. ScreenFits'
    BY <1>1, <2>1, <2>2 DEF ScreenFits
  <2> QED BY <1>4, <1>5, <2>8, <2>9 DEF LInv
<1> QED BY <1>6, <1>7

(* The first of one line moves to the end of the other. *)
LEMMA LineMoves ==
  ASSUME NEW S, NEW x \in Seq(S), NEW y \in Seq(S), y # <<>>
  PROVE  Append(x, Head(y)) \o Tail(y) = x \o y
<1>1. /\ Len(x) \in Nat /\ Len(y) \in Nat \ {0} /\ Head(y) = y[1] /\ Head(y) \in S /\ Tail(y) \in Seq(S)
      /\ Len(Tail(y)) = Len(y) - 1 /\ \A i \in 1 .. Len(y) - 1 : Tail(y)[i] = y[i + 1]
  BY QueueFacts
<1>2. PICK w : w = Append(x, Head(y))
  OBVIOUS
<1>3. w \in Seq(S) /\ Len(w) = Len(x) + 1 /\ w[Len(x) + 1] = y[1] /\ \A i \in 1 .. Len(x) : w[i] = x[i]
  BY <1>1, <1>2
<1>4. PICK z : z = Tail(y)
  OBVIOUS
<1>5. /\ w \o z \in Seq(S) /\ x \o y \in Seq(S) /\ Len(w \o z) = Len(x) + Len(y)
      /\ Len(x \o y) = Len(x) + Len(y)
  <2>1. z \in Seq(S) /\ Len(z) = Len(y) - 1
    BY <1>1, <1>4
  <2>2. w \o z \in Seq(S) /\ Len(w \o z) = Len(w) + Len(z)
    BY <1>3, <2>1, BehindFacts
  <2>3. x \o y \in Seq(S) /\ Len(x \o y) = Len(x) + Len(y)
    BY BehindFacts
  <2> QED BY <1>1, <1>3, <2>1, <2>2, <2>3
<1>6. ASSUME NEW i \in 1 .. Len(x) + Len(y) PROVE (w \o z)[i] = (x \o y)[i]
  <2>1. CASE i <= Len(x)
    BY <1>1, <1>3, <1>4, <2>1, BehindFacts
  <2>2. CASE i = Len(x) + 1
    <3>1. (w \o z)[i] = y[1]
      BY <1>1, <1>3, <1>4, <2>2, BehindFacts
    <3>2. (x \o y)[Len(x) + 1] = y[1]
      BY <1>1, BehindFacts
    <3> QED BY <2>2, <3>1, <3>2
  <2>3. CASE i > Len(x) + 1
    <3>0. PICK j : j = i - (Len(x) + 1)
      OBVIOUS
    <3>1. j \in 1 .. Len(y) - 1 /\ i = Len(w) + j /\ i = Len(x) + (j + 1) /\ j + 1 \in 1 .. Len(y)
      BY <1>1, <1>3, <2>3, <3>0
    <3>2. (w \o z)[Len(w) + j] = z[j]
      BY <1>1, <1>3, <1>4, <3>1, BehindFacts
    <3>3. (x \o y)[Len(x) + (j + 1)] = y[j + 1]
      BY <3>1, BehindFacts
    <3>4. z[j] = y[j + 1]
      BY <1>1, <1>4, <3>1
    <3>5. (w \o z)[i] = z[j]
      BY <3>1, <3>2
    <3>6. (x \o y)[i] = y[j + 1]
      BY <3>1, <3>3
    <3> QED BY <3>4, <3>5, <3>6
  <2>4. i <= Len(x) \/ i = Len(x) + 1 \/ i > Len(x) + 1
    BY <1>1
  <2> QED BY <2>1, <2>2, <2>3, <2>4
<1>7. w \o z = x \o y
  BY <1>1, <1>5, <1>6
<1> QED BY <1>2, <1>4, <1>7

(* A push reaches a session that waits for its page: it is held. *)
LEMMA HoldLine ==
  ASSUME StreamInv, StreamInv', [Next]_vars, LInv, Receive, sse.phase = "waiting"
  PROVE  LInv'
<1>0. /\ Typed /\ Open /\ inbox # <<>> /\ sse \in Session /\ rd' = rd /\ calls' = calls
      /\ replies' = replies
  BY DEF StreamInv, HostFits, Typed, Receive, Open
<1>1. sse.held \in Seq(Push) /\ inbox \in Seq(Push)
  BY <1>0, LineTyped
<1>2. PICK h : h = Append(sse.held, Head(inbox))
  OBVIOUS
<1>3. sse' = [sse EXCEPT !.held = h]
  BY <1>2 DEF Receive, Becomes
<1>4. SameSession /\ sse'.held = h /\ sse'.phase = "waiting"
  BY <1>0, <1>3 DEF Session, SameSession
<1>5. inbox' = Tail(inbox)
  BY <1>4 DEF Receive, Becomes
<1>6. Line' = Line
  BY <1>0, <1>1, <1>2, <1>4, <1>5, LineMoves DEF Line
<1>7. Steady /\ sse.id \in Readers /\ 0 \in Readers
  BY <1>0, OpenSteady, OwnReader
<1>8. /\ \A tip \in Nat, ended \in BOOLEAN : Follows(sse.id, tip, ended)
      /\ Follows(0, 0, FALSE)
  <2>1. rd'[sse.id] = rd[sse.id] /\ rd'[0] = rd[0] /\ 0 \in Nat /\ FALSE \in BOOLEAN
    BY <1>0
  <2> QED BY <1>7, <2>1, FollowsWaits
<1>9. (Called' <=> Called) /\ (Trouble => Trouble')
  BY <1>0, <1>4, <1>7 DEF Called, SameSession, Steady
<1>10. PageFits'
  <2> SUFFICES ASSUME Open', calls' # <<>>, Head(calls)' = sse'.id PROVE ReaderFits(rd[0], 0, FALSE)'
    BY DEF PageFits
  <2>1. ReaderFits(rd[0], 0, FALSE)
    BY <1>0, <1>4 DEF LInv, PageFits, SameSession
  <2>2. PICK q : q = rd'[0]
    OBVIOUS
  <2>3. ReaderFits(q, 0, FALSE)'
    BY <1>8, <2>1, <2>2 DEF Follows
  <2> QED BY <2>2, <2>3
<1> QED BY <1>0, <1>4, <1>6, <1>7, <1>8, <1>9, <1>10, MailKept

(* An exact screen takes a push that goes on behind it. *)
LEMMA ShowsOn ==
  ASSUME NEW c \in Session, NEW push \in Push, NEW d, Takes(c, push, d), NEW n \in Nat, NEW m \in Nat,
         NEW t, Exact(c.screen, n, t), Chain(push.evs, n + 1, m, t)
  PROVE  Exact(d.screen, m, t) /\ Shown(c, push) = push.evs
<1>1. c.screen \in Seq(Event) /\ push.evs \subseteq Event
  BY DEF Session, Push
<1>2. Shown(c, push) = push.evs
  BY <1>1, ShownWhole
<1>3. Exact(c.screen \o InSeqOrder(push.evs), m, t)
  BY <1>1, ExactGrows
<1> QED BY <1>2, <1>3 DEF Takes

(* A push reaches a live session: it is delivered. *)
LEMMA DeliverLine ==
  ASSUME StreamInv, StreamInv', [Next]_vars, LInv, Receive, sse.phase = "live"
  PROVE  LInv'
<1>0. /\ Typed /\ Sorts /\ Open /\ inbox # <<>> /\ sse \in Session /\ rd' = rd /\ calls' = calls
      /\ inbox \in Seq(Push) /\ Listening
      /\ replies = <<>> /\ replies' = <<>> /\ ~Called /\ sse.held = <<>> /\ sse.end = "none"
  BY DEF StreamInv, HostFits, Typed, Receive, Open, PhaseFits, Listening
<1>1. PICK push : push = Head(inbox)
  OBVIOUS
<1>2. push \in Push /\ Sortable(push.evs)
  BY <1>0, <1>1, MailFacts
<1>3. PICK d : d = sse'
  OBVIOUS
<1>4. d = Deliver(sse, push) /\ (d.phase # "closed" => inbox' = Tail(inbox))
  BY <1>1, <1>3 DEF Receive, Becomes
<1>5. d \in Session /\ d.id = sse.id /\ Takes(sse, push, d)
  BY <1>0, <1>2, <1>4, DeliverFacts
<1>6. PICK s : s = sse.id
  OBVIOUS
<1>7. s \in Readers /\ Steady
  BY <1>0, <1>6, OwnReader, OpenSteady
<1>8. ~Unheard /\ First = FALSE /\ Line = inbox
  BY <1>0 DEF Unheard, First, Line
<1>9. row.turn \in Nat /\ (Trouble => Trouble')
  <2>1. row \in [turn : 1 .. MaxTurns, status : {"active"} \cup Settled] \cup {NoRow}
    BY DEF StreamInv, EInv, EngineTypeOK
  <2>2. NoRow.turn \in Nat
    BY DEF NoRow
  <2> QED BY <1>7, <2>1, <2>2, ChatBounds DEF Steady
<1>10. CASE ~(d.heard \subseteq {s})
  <2>1. CASE d.phase = "closed"
    BY <1>0, <1>3, <1>5, <1>6, <1>10, <2>1, ShutLine DEF Open, ScreenFits
  <2>2. CASE d.phase # "closed"
    <3>1. d.phase = "live"
      BY <1>5, <2>2 DEF Takes
    <3>2. PICK y : y = inbox'
      OBVIOUS
    <3> QED BY <1>0, <1>3, <1>5, <1>6, <1>7, <1>10, <3>1, <3>2, LiveLine
  <2> QED BY <2>1, <2>2
<1>11. CASE d.heard \subseteq {s}
  <2>1. sse.heard \subseteq {s} /\ push.gen = s
    BY <1>5, <1>11 DEF Takes
  <2>2. PICK cut : Exact(sse.screen, cut[0], row.turn) /\ Feed(inbox, cut, s, FALSE, rd[s])
    <3>1. Attending
      BY <1>0, <1>6, <1>8, <2>1 DEF Attending
    <3>2. PICK cut : Base(cut[0]) /\ Feed(Line, cut, sse.id, First, rd[sse.id])
      BY <3>1 DEF LInv, LineFits
    <3>3. Feed(inbox, cut, s, FALSE, rd[s])
      BY <1>6, <1>8, <3>2
    <3> QED BY <1>0, <3>2, <3>3 DEF Base
  <2>3. PICK N \in Nat \ {0} : N = Len(inbox) /\ inbox[1] = push
    BY <1>0, <1>1, QueueFacts
  <2>4. /\ cut[0] \in Nat /\ cut[1] \in Nat /\ Chain(push.evs, cut[0] + 1, cut[1], row.turn)
        /\ Verdicts(inbox, s, FALSE)
    <3>1. 1 \in 1 .. N /\ 0 \in 0 .. N /\ 1 \in 0 .. N /\ 1 - 1 = 0
      BY <2>3
    <3>2. Strung(inbox, cut, s, row.turn) /\ Verdicts(inbox, s, FALSE)
      BY <2>2 DEF Feed
    <3> QED BY <2>1, <2>3, <3>1, <3>2 DEF Strung
  <2>5. Exact(d.screen, cut[1], row.turn) /\ Shown(sse, push) = push.evs
    BY <1>0, <1>2, <1>5, <2>2, <2>4, ShowsOn
  <2>6. FinalIn(inbox, 1, s) <=> HasFinal(push.evs)
    BY <2>1, <2>3 DEF FinalIn
  <2>7. d.end = "error" => Trouble
    <3> SUFFICES ASSUME d.end = "error" PROVE Trouble
      OBVIOUS
    <3>1. push.st # "active" /\ push.evs = {}
      BY <1>0, <1>5 DEF Takes
    <3>2. ~HasFinal(push.evs) /\ 1 \in 1 .. Len(inbox)
      BY <2>3, <3>1 DEF HasFinal
    <3> QED BY <2>1, <2>3, <2>4, <2>6, <3>1, <3>2 DEF Verdicts
  <2>8. CASE d.phase = "closed"
    <3>1. ScreenFits'
      BY <1>3, <1>9, <2>4, <2>5, <2>7 DEF ScreenFits
    <3> QED BY <1>0, <1>3, <2>8, <3>1, ShutLine DEF Open
  <2>9. CASE d.phase # "closed"
    <3>1. d.phase = "live" /\ ~HasFinal(push.evs)
      BY <1>5, <2>5, <2>9 DEF Takes
    <3>2. PICK y : y = Tail(inbox)
      OBVIOUS
    <3>3. Leftover(inbox, 1, y) /\ y = inbox'
      BY <1>0, <1>4, <2>9, <3>2, QueueFacts DEF Leftover
    <3>4. 1 \in 0 .. Len(inbox) /\ ~FinalIn(inbox, 1, s) /\ Len(inbox) \in Nat
      BY <2>3, <2>6, <3>1
    <3>5. Goes(y, cut[1], s, FALSE, rd[s])
      BY <2>2, <3>3, <3>4, FeedShifts
    <3>6. \E c : Exact(d.screen, c[0], row.turn) /\ Feed(y, c, s, FALSE, rd[s])
      BY <2>5, <3>5 DEF Goes
    <3> QED BY <1>0, <1>3, <1>5, <1>6, <1>7, <3>1, <3>3, <3>6, LiveLine
  <2> QED BY <2>8, <2>9
<1> QED BY <1>10, <1>11

(* The part of a line that is held. *)
StrungTo(x, n, m, s, t) == \E c : c[0] = n /\ c[Len(x)] = m /\ Strung(x, c, s, t)

(* Of a line that goes on, the held part does. *)
LEMMA HeldStrung ==
  ASSUME NEW x \in Seq(Push), NEW y \in Seq(Push), NEW line, line = x \o y, NEW cut, NEW s, NEW t,
         Strung(line, cut, s, t)
  PROVE  StrungTo(x, cut[0], cut[Len(x)], s, t)
<1>1. PICK N \in Nat : N = Len(x)
  OBVIOUS
<1>2. N <= Len(line) /\ Len(line) \in Nat /\ \A i \in 1 .. N : line[i] = x[i]
  BY <1>1, BehindFacts
<1>3. PICK c : c = [i \in 0 .. N |-> cut[i]]
  OBVIOUS
<1>4. \A i \in 0 .. N : i \in 0 .. Len(line) /\ cut[i] \in Nat
  <2>1. \A i \in 0 .. N : i \in 0 .. Len(line)
    BY <1>1, <1>2
  <2>2. cut \in [0 .. Len(line) -> Nat]
    BY DEF Strung
  <2> QED BY <2>1, <2>2
<1>5. c \in [0 .. N -> Nat] /\ \A i \in 0 .. N : c[i] = cut[i]
  BY <1>3, <1>4
<1>6. c[0] = cut[0] /\ c[N] = cut[N]
  BY <1>1, <1>5
<1>7. ASSUME NEW i \in 1 .. N
      PROVE  IF x[i].gen = s THEN Chain(x[i].evs, c[i - 1] + 1, c[i], t) ELSE c[i] = c[i - 1]
  <2>1. i \in 0 .. N /\ i - 1 \in 0 .. N /\ i \in 1 .. Len(line) /\ line[i] = x[i]
    BY <1>1, <1>2
  <2>2. IF line[i].gen = s THEN Chain(line[i].evs, cut[i - 1] + 1, cut[i], t) ELSE cut[i] = cut[i - 1]
    BY <2>1 DEF Strung
  <2> QED BY <1>5, <2>1, <2>2
<1>8. Strung(x, c, s, t)
  BY <1>1, <1>5, <1>7 DEF Strung
<1> QED BY <1>1, <1>6, <1>8 DEF StrungTo

(* And its verdicts are sound. *)
LEMMA HeldVerdicts ==
  ASSUME NEW x \in Seq(Push), NEW y \in Seq(Push), NEW line, line = x \o y, NEW s, Verdicts(line, s, FALSE)
  PROVE  Verdicts(x, s, FALSE) /\ (FinalIn(line, Len(x), s) <=> FinalIn(x, Len(x), s))
<1>1. PICK N \in Nat : N = Len(x)
  OBVIOUS
<1>2. N <= Len(line) /\ Len(line) \in Nat /\ \A i \in 1 .. N : line[i] = x[i]
  BY <1>1, BehindFacts
<1>3. ASSUME NEW i \in 0 .. N PROVE FinalIn(line, i, s) <=> FinalIn(x, i, s)
  <2>1. \A k \in 1 .. i : line[k] = x[k]
    BY <1>1, <1>2
  <2> QED BY <2>1 DEF FinalIn
<1>4. FinalIn(line, N, s) <=> FinalIn(x, N, s)
  <2>1. N \in 0 .. N
    BY <1>1
  <2> QED BY <1>3, <2>1
<1>5. Verdicts(x, s, FALSE)
  <2> SUFFICES ASSUME NEW i \in 1 .. N, x[i].gen = s, x[i].st # "active", x[i].evs = {}
               PROVE  Trouble \/ FinalIn(x, i, s)
    BY <1>1 DEF Verdicts
  <2>1. i \in 0 .. N /\ i \in 1 .. Len(line) /\ line[i] = x[i]
    BY <1>1, <1>2
  <2>2. Trouble \/ FinalIn(line, i, s)
    BY <2>1 DEF Verdicts
  <2> QED BY <1>3, <2>1, <2>2
<1> QED BY <1>1, <1>4, <1>5

(* The rest of the line is what is still in the inbox. *)
LEMMA LineRest ==
  ASSUME NEW x \in Seq(Push), NEW y \in Seq(Push), NEW line, line = x \o y
  PROVE  Leftover(line, Len(x), y) /\ Len(x) \in 0 .. Len(line) /\ Len(line) \in Nat
<1>1. /\ Len(x) \in Nat /\ Len(y) \in Nat /\ Len(line) = Len(x) + Len(y)
      /\ \A i \in 1 .. Len(y) : line[Len(x) + i] = y[i]
  BY BehindFacts
<1>2. Len(line) - Len(x) = Len(y)
  BY <1>1
<1> QED BY <1>1, <1>2 DEF Leftover

(* The answer is a failure: what is held has its chance, and then the error    *)
(* has its reason.                                                             *)
LEMMA RejectedLine ==
  ASSUME StreamInv, StreamInv', [Next]_vars, LInv, Attached, replies[1].st = "failed"
  PROVE  LInv'
<1>0. /\ replies # <<>> /\ replies' = <<>> /\ HostFits
  BY DEF Attached, StreamInv
<1>1. /\ sse.phase = "waiting" /\ sse \in Session /\ sse.end = "none" /\ Open
      /\ sse.screen = <<>> /\ Head(replies) = replies[1]
      /\ \A i \in 1 .. Len(sse.held) : Sortable(sse.held[i].evs)
  BY <1>0, AnswerFacts DEF Open
<1>2. Trouble /\ Trouble'
  BY <1>0, TroubleStays DEF LInv, AnswerFits
<1>3. PICK s : s = sse.id
  OBVIOUS
<1>4. \A i \in 1 .. Len(Line) : Line[i].gen # s
  BY <1>0, <1>1, <1>3 DEF LInv, UnheardFits, Unheard
<1>5. PICK x \in Seq(Push), y \in Seq(Push) : x = sse.held /\ y = inbox /\ Line = x \o y
  BY <1>0, LineTyped DEF HostFits, Line
<1>6. \A i \in 1 .. Len(x) : x[i].gen # s
  <2> SUFFICES ASSUME NEW i \in 1 .. Len(x) PROVE x[i].gen # s
    OBVIOUS
  <2>1. Len(x) \in Nat /\ Len(y) \in Nat /\ Len(Line) = Len(x) + Len(y) /\ Line[i] = x[i]
    BY <1>5, BehindFacts
  <2>2. i \in 1 .. Len(Line)
    BY <2>1
  <2> QED BY <1>4, <2>1, <2>2
<1>7. PICK cut : cut = [i \in 0 .. Len(x) |-> 0]
  OBVIOUS
<1>8. Strung(x, cut, s, 0) /\ cut[0] = 0
  <2>1. \A i \in 0 .. Len(x) : cut[i] = 0
    BY <1>7
  <2>2. Len(x) \in Nat
    OBVIOUS
  <2>3. cut \in [0 .. Len(x) -> Nat] /\ 0 \in 0 .. Len(x)
    BY <1>7, <2>2
  <2>4. \A i \in 1 .. Len(x) : i \in 0 .. Len(x) /\ i - 1 \in 0 .. Len(x)
    BY <2>2
  <2> QED BY <1>6, <2>1, <2>3, <2>4 DEF Strung
<1>9. Verdicts(x, s, FALSE)
  BY <1>2 DEF Verdicts
<1>10. Exact(sse.screen, cut[0], 0)
  BY <1>1, <1>8, EmptyExact
<1>11. PICK d : d = Release(sse)
  OBVIOUS
<1>12. Tidy(sse, d, cut, Len(x), 0)
  BY <1>1, <1>3, <1>5, <1>8, <1>9, <1>10, <1>11, ReleaseTidies
<1>13. Loose(sse, d) /\ d \in Session /\ d.id = s
  BY <1>1, <1>3, <1>11, ReleaseLeaves DEF Loose
<1>14. sse' = IF d.phase = "closed" THEN d ELSE Closed(d, "error")
  BY <1>1, <1>11 DEF Attached, Becomes
<1>15. sse'.phase = "closed" /\ sse'.screen = d.screen /\ sse'.heard = d.heard /\ sse'.id = s
  <2>1. PICK z : z = Closed(d, "error")
    OBVIOUS
  <2>2. z.phase = "closed" /\ z.screen = d.screen /\ z.heard = d.heard /\ z.id = d.id
    BY <1>13, <2>1, ClosedFacts
  <2> QED BY <1>13, <1>14, <2>1, <2>2
<1>16. ScreenFits'
  <2>1. d.heard \subseteq {s} => \E n \in Nat : Exact(d.screen, n, 0)
    BY <1>3, <1>12 DEF Tidy
  <2> QED BY <1>2, <1>15, <2>1 DEF ScreenFits
<1> QED BY <1>0, <1>15, <1>16, ShutLine DEF Open

(* The answer is a page. *)
LEMMA PageLine ==
  ASSUME StreamInv, StreamInv', [Next]_vars, LInv, Attached, replies[1].st # "failed"
  PROVE  LInv'
<1>0. /\ replies # <<>> /\ replies' = <<>> /\ HostFits /\ rd' = rd
  BY DEF Attached, StreamInv
<1>a. PICK page : page = replies[1]
  OBVIOUS
<1>b. PICK s : s = sse.id
  OBVIOUS
<1>1. /\ sse.phase = "waiting" /\ sse \in Session /\ sse.end = "none" /\ Open /\ Listening /\ ~Called
      /\ sse.screen = <<>> /\ sse.heard = {} /\ Head(replies) = page /\ page \in Push
      /\ page.gen = s /\ Sortable(page.evs)
      /\ \A i \in 1 .. Len(sse.held) : Sortable(sse.held[i].evs)
  BY <1>0, <1>a, <1>b, AnswerFacts DEF Open, Listening
<1>2. s \in Readers /\ Steady
  BY <1>1, <1>b, OwnReader, OpenSteady
<1>3. Attending
  BY <1>0, <1>1, <1>a DEF Attending, Unheard
<1>4. PICK cut : Base(cut[0]) /\ Feed(Line, cut, sse.id, First, rd[sse.id])
  BY <1>3 DEF LInv, LineFits
<1>5. PICK x \in Seq(Push), y \in Seq(Push) : x = sse.held /\ y = inbox
  BY <1>0, LineTyped DEF HostFits
<1>6. PICK line : line = x \o y /\ line = Line
  BY <1>5 DEF Line
<1>7. PICK first \in BOOLEAN : first = First /\ (first <=> HasFinal(page.evs))
  BY <1>0, <1>a, FirstBool DEF First
<1>8. /\ Feed(line, cut, s, first, rd[s]) /\ Strung(line, cut, s, row.turn) /\ Verdicts(line, s, first)
      /\ Chain(page.evs, 1, cut[0], row.turn) /\ cut[0] \in Nat
  <2>1. Feed(line, cut, s, first, rd[s])
    BY <1>4, <1>6, <1>7, <1>b
  <2>2. Strung(line, cut, s, row.turn) /\ Verdicts(line, s, first)
    BY <2>1 DEF Feed
  <2>3. Len(line) \in Nat
    BY <1>6, LineRest
  <2>4. cut[0] \in Nat
    BY <2>2, <2>3 DEF Strung
  <2> QED BY <1>0, <1>4, <1>a, <2>1, <2>2, <2>4 DEF Base
<1>9. PICK d : d = Deliver(sse, page)
  OBVIOUS
<1>10. d \in Session /\ d.id = s /\ Takes(sse, page, d)
  BY <1>1, <1>9, <1>b, DeliverFacts
<1>11. sse' = Release(d) /\ (sse'.phase # "closed" => inbox' = inbox)
  BY <1>1, <1>9, <1>a DEF Attached, Becomes
<1>12. row.turn \in Nat /\ (Trouble => Trouble')
  <2>1. row \in [turn : 1 .. MaxTurns, status : {"active"} \cup Settled] \cup {NoRow}
    BY DEF StreamInv, EInv, EngineTypeOK
  <2>2. NoRow.turn \in Nat
    BY DEF NoRow
  <2> QED BY <1>2, <2>1, <2>2, ChatBounds DEF Steady
<1>13. Exact(d.screen, cut[0], row.turn) /\ Shown(sse, page) = page.evs
  <2>1. Exact(sse.screen, 0, row.turn)
    BY <1>1 DEF Exact
  <2>2. Chain(page.evs, 0 + 1, cut[0], row.turn) /\ 0 \in Nat
    BY <1>8
  <2> QED BY <1>1, <1>8, <1>10, <2>1, <2>2, ShowsOn
<1>14. CASE d.phase = "closed"
  <2>1. d.held = <<>>
    BY <1>10, <1>14 DEF Takes
  <2>2. sse' = d
    BY <1>10, <1>11, <1>14, <2>1, ReleaseClosed
  <2>3. d.end = "error" => Trouble
    <3> SUFFICES ASSUME d.end = "error" PROVE Trouble
      OBVIOUS
    <3>1. page.st # "active" /\ page.evs = {}
      BY <1>1, <1>10 DEF Takes
    <3>2. ~First
      BY <1>7, <3>1 DEF HasFinal
    <3> QED BY <1>0, <1>a, <3>1, <3>2 DEF LInv, AnswerFits
  <2>4. ScreenFits'
    BY <1>8, <1>12, <1>13, <2>2, <2>3 DEF ScreenFits
  <2> QED BY <1>0, <1>14, <2>2, <2>4, ShutLine DEF Open
<1>15. CASE d.phase # "closed"
  <2>1. d.held = x /\ d.end = "none" /\ ~HasFinal(page.evs)
    BY <1>1, <1>5, <1>10, <1>13, <1>15 DEF Takes
  <2>2. first = FALSE /\ Verdicts(line, s, FALSE)
    BY <1>7, <1>8, <2>1
  <2>3. PICK c : c[0] = cut[0] /\ c[Len(x)] = cut[Len(x)] /\ Strung(x, c, s, row.turn)
    <3>1. StrungTo(x, cut[0], cut[Len(x)], s, row.turn)
      BY <1>6, <1>8, HeldStrung
    <3> QED BY <3>1 DEF StrungTo
  <2>4. Verdicts(x, s, FALSE) /\ (FinalIn(line, Len(x), s) <=> FinalIn(x, Len(x), s))
    BY <1>6, <2>2, HeldVerdicts
  <2>5. \A i \in 1 .. Len(d.held) : Sortable(d.held[i].evs)
    BY <1>1, <1>5, <2>1
  <2>6. PICK z : z = sse'
    OBVIOUS
  <2>7. Loose(d, z)
    BY <1>10, <1>11, <1>15, <2>1, <2>5, <2>6, ReleaseLeaves
  <2>8. Tidy(d, z, c, Len(x), row.turn)
    <3>1. Strung(d.held, c, d.id, row.turn) /\ Verdicts(d.held, d.id, FALSE) /\ Exact(d.screen, c[0], row.turn)
      BY <1>10, <1>13, <2>1, <2>3, <2>4
    <3>2. Tidy(d, Release(d), c, Len(d.held), row.turn)
      BY <1>10, <1>15, <2>1, <2>5, <3>1, ReleaseTidies
    <3> QED BY <1>11, <2>1, <2>6, <3>2
  <2>9. /\ z.id = s /\ z.phase \in {"live", "closed"}
        /\ z.heard \subseteq {s} =>
             /\ \E n \in Nat : Exact(z.screen, n, row.turn)
             /\ z.phase = "live" => Exact(z.screen, cut[Len(x)], row.turn) /\ ~FinalIn(x, Len(x), s)
             /\ z.end = "error" => Trouble
    BY <1>10, <2>1, <2>3, <2>7, <2>8 DEF Loose, Tidy
  <2>10. CASE z.phase = "closed"
    <3>1. ScreenFits'
      BY <1>12, <2>6, <2>9 DEF ScreenFits
    <3> QED BY <1>0, <2>6, <2>10, <3>1, ShutLine DEF Open
  <2>11. CASE z.phase = "live"
    <3>1. y = inbox'
      BY <1>5, <1>11, <2>6, <2>11
    <3>2. ASSUME z.heard \subseteq {s}
          PROVE  \E k : Exact(z.screen, k[0], row.turn) /\ Feed(y, k, s, FALSE, rd[s])
      <4>1. Exact(z.screen, cut[Len(x)], row.turn) /\ ~FinalIn(line, Len(x), s)
        BY <2>4, <2>9, <2>11, <3>2
      <4>2. Leftover(line, Len(x), y) /\ Len(x) \in 0 .. Len(line) /\ Len(line) \in Nat
        BY <1>6, LineRest
      <4>3. Goes(y, cut[Len(x)], s, first, rd[s])
        BY <1>8, <2>2, <4>1, <4>2, FeedShifts
      <4> QED BY <2>2, <4>1, <4>3 DEF Goes
    <3> QED BY <1>0, <1>2, <2>6, <2>9, <2>11, <3>1, <3>2, LiveLine
  <2> QED BY <2>9, <2>10, <2>11
<1> QED BY <1>14, <1>15

(* LInv is inductive on top of StreamInv. *)
LEMMA LineStep == StreamInv /\ StreamInv' /\ LInv /\ [Next]_vars => LInv'
<1> SUFFICES ASSUME StreamInv, StreamInv', LInv, [Next]_vars PROVE LInv'
  OBVIOUS
<1>1. 0 \in Readers /\ Sessions \subseteq Readers
  BY StreamBounds DEF Readers, Sessions
<1>2. CASE NewTurn \/ TurnThread \/ EngineRest
  BY <1>2, EngineLine DEF NewTurn, TurnThread, EngineRest
<1>3. CASE EngineDies
  BY <1>3, DiesLine
<1>4. CASE Connect
  BY <1>4, ConnectLine
<1>5. CASE Close
  BY <1>5, CloseLine
<1>6. CASE Command
  BY <1>1, <1>6, CmdStartLine, CmdGotLine, CmdFailedLine, ServeLine DEF Command
<1>7. CASE Listen \/ ListenFails
  BY <1>7, ListenLine, ListenFailsLine
<1>8. CASE Receive
  BY <1>8, HoldLine, DeliverLine DEF Receive, Listening
<1>9. CASE Attached
  BY <1>9, PageLine, RejectedLine
<1>10. ASSUME NEW g \in Sessions, Poller(g) PROVE LInv'
  BY <1>1, <1>10, PollLine, EmitLine, ServeLine DEF Poller
<1>11. CASE UNCHANGED vars
  BY <1>11, EngineLine DEF vars
<1> QED BY <1>2, <1>3, <1>4, <1>5, <1>6, <1>7, <1>8, <1>9, <1>10, <1>11 DEF Next, Webview

(* It holds at first. *)
LEMMA LineInit == Init => LInv
<1> SUFFICES ASSUME Init PROVE LInv
  OBVIOUS
<1>1. sse.phase = "closed" /\ sse.screen = <<>> /\ sse.end = "none" /\ replies = <<>>
  BY DEF Init, NoSession
<1>2. ~Open /\ ~Attending
  BY <1>1 DEF Open, Attending, Listening
<1>3. ScreenFits
  BY <1>1, EmptyExact DEF ScreenFits
<1> QED BY <1>1, <1>2, <1>3 DEF LInv, PageFits, UnheardFits, AnswerFits, LineFits

(* And so it always does. *)
LEMMA LineAlways == Spec => [](StreamInv /\ LInv)
<1>1. Init => StreamInv /\ LInv
  BY StreamInit, LineInit
<1>2. StreamInv /\ LInv /\ [Next]_vars => StreamInv' /\ LInv'
  BY StreamStep, LineStep
<1> QED BY <1>1, <1>2, PTL DEF Spec

(* resume_cursor, receive, release and deliver: for any number of turns,       *)
(* deltas, crashes, sessions, retries and faults, a session that heard no      *)
(* poller but its own shows the frames of one turn, from the first on, each of *)
(* them once and in order.                                                     *)
THEOREM AloneIsExact == Spec => []ExactWhenAlone
<1>1. LInv => ExactWhenAlone
  <2> SUFFICES ASSUME LInv, sse.heard \subseteq {sse.id}, NEW i \in 1 .. Len(sse.screen)
               PROVE  /\ sse.screen[i].turn = sse.screen[1].turn
                      /\ sse.screen[i].from = IF i = 1 THEN 1 ELSE sse.screen[i - 1].seq + 1
    BY DEF ExactWhenAlone
  <2>1. PICK n, t \in Nat : Exact(sse.screen, n, t)
    BY DEF LInv, ScreenFits
  <2>2. 1 \in 1 .. Len(sse.screen)
    OBVIOUS
  <2> QED BY <2>1, <2>2 DEF Exact
<1> QED BY <1>1, LineAlways, PTL

(* deliver's verdict and attach's rejection: for the same constants, a session *)
(* that heard no poller but its own ends in an error only if the engine died,  *)
(* a call or a listen failed, or the turn's terminal commit did.               *)
THEOREM AlarmsAreTrue == Spec => []NoFalseAlarm
<1>1. StreamInv /\ LInv => NoFalseAlarm
  <2> SUFFICES ASSUME StreamInv, LInv, sse.end = "error", sse.heard \subseteq {sse.id}
               PROVE  crashes + faults > 0 \/ unsaved
    BY DEF NoFalseAlarm
  <2>1. Trouble
    BY DEF LInv, ScreenFits
  <2>2. crashes \in Nat /\ faults \in Nat
    BY ChatBounds, StreamBounds DEF StreamInv, EInv, EngineTypeOK, HostFits, Typed
  <2> QED BY <2>1, <2>2 DEF Trouble
<1> QED BY <1>1, LineAlways, PTL

-----------------------------------------------------------------------------
(* Whatever pollers a session hears: what its screen covers.                  *)

(* An event of S stands for frame k; every frame up to an event of a batch is *)
(* in S or in the batch; every frame up to an event of S is in S.             *)
Covers(S, k) == \E e \in S : e.from <= k /\ k <= e.seq
Grounded(evs, S) == \A e \in evs : \A k \in 1 .. e.seq : Covers(S \cup evs, k)
Whole(S) == \A e \in S : \A k \in 1 .. e.seq : Covers(S, k)

(* S and the first j pushes of a line. *)
Stock(S, line, j) == S \cup UNION {line[m].evs : m \in 1 .. j}

(* A larger set covers more. *)
LEMMA CoversMore ==
  ASSUME NEW S, NEW T, S \subseteq T, NEW k, Covers(S, k)
  PROVE  Covers(T, k)
  BY DEF Covers

(* What a chain covers. *)
LEMMA ChainCovers ==
  ASSUME NEW evs, evs \subseteq Event, NEW a \in Nat, NEW b \in Nat, NEW t, Chain(evs, a + 1, b, t)
  PROVE  /\ \A k \in 1 .. b : k <= a \/ Covers(evs, k)
         /\ \A e \in evs : e.seq <= b
         /\ \A e \in evs : \A k \in 1 .. e.seq : k <= a \/ Covers(evs, k)
<1>1. \A e \in evs : e.seq \in Nat /\ e.from \in Nat /\ e.seq <= b /\ (e.final => e.seq = b)
  BY EventNumbers DEF Chain
<1>3. \A k \in 1 .. b : k <= a \/ Covers(evs, k)
  <2> SUFFICES ASSUME NEW k \in 1 .. b, ~(k <= a) PROVE Covers(evs, k)
    OBVIOUS
  <2>1. k \in a + 1 .. b
    OBVIOUS
  <2> QED BY <2>1 DEF Chain, Covers
<1>4. ASSUME NEW e \in evs, NEW k \in 1 .. e.seq PROVE k \in 1 .. b
  BY <1>1
<1> QED BY <1>1, <1>3, <1>4

(* A page from the first frame on. *)
LEMMA ChainWhole ==
  ASSUME NEW evs, evs \subseteq Event, NEW b \in Nat, NEW t, Chain(evs, 1, b, t)
  PROVE  Whole(evs) /\ \A k \in 1 .. b : Covers(evs, k)
<1>1. PICK a \in Nat : a = 0
  OBVIOUS
<1>2. Chain(evs, a + 1, b, t)
  BY <1>1
<1>3. /\ \A k \in 1 .. b : k <= a \/ Covers(evs, k)
      /\ \A e \in evs : \A k \in 1 .. e.seq : k <= a \/ Covers(evs, k)
  BY <1>2, ChainCovers
<1>4. \A n \in Nat : \A k \in 1 .. n : ~(k <= a)
  BY <1>1
<1>5. \A e \in evs : e.seq \in Nat
  BY EventNumbers
<1> QED BY <1>3, <1>4, <1>5 DEF Whole

(* deliver, as sets: what is not shown again was covered before. *)
LEMMA ShownCovers ==
  ASSUME NEW S, S \subseteq Event, NEW evs, evs \subseteq Event, Whole(S), Grounded(evs, S),
         NEW F, F = {e \in evs : \A s \in S : s.seq # e.seq}
  PROVE  /\ Whole(S \cup F)
         /\ \A k : Covers(S \cup evs, k) /\ k \in Nat => Covers(S \cup F, k)
<1>1. ASSUME NEW k \in Nat, Covers(S \cup evs, k) PROVE Covers(S \cup F, k)
  <2>1. PICK e \in S \cup evs : e.from <= k /\ k <= e.seq
    BY <1>1 DEF Covers
  <2>2. CASE e \in S \cup F
    BY <2>1, <2>2 DEF Covers
  <2>3. CASE e \notin S \cup F
    <3>1. PICK s \in S : s.seq = e.seq
      BY <2>1, <2>3
    <3>2. e \in Event /\ 1 <= e.from /\ e.from \in Nat /\ e.seq \in Nat
      BY <2>1, EventNumbers
    <3>3. k \in 1 .. s.seq
      BY <1>1, <2>1, <3>1, <3>2
    <3>4. Covers(S, k)
      BY <3>3 DEF Whole
    <3> QED BY <3>4 DEF Covers
  <2> QED BY <2>2, <2>3
<1>2. ASSUME NEW e \in S \cup F, NEW k \in 1 .. e.seq PROVE Covers(S \cup F, k)
  <2>1. e \in Event /\ e.seq \in Nat /\ k \in Nat
    BY EventNumbers
  <2>2. Covers(S \cup evs, k)
    <3>1. CASE e \in S
      <4>1. Covers(S, k)
        BY <3>1 DEF Whole
      <4> QED BY <4>1 DEF Covers
    <3>2. CASE e \in F
      BY <3>2 DEF Grounded
    <3> QED BY <3>1, <3>2
  <2> QED BY <1>1, <2>1, <2>2
<1> QED BY <1>1, <1>2 DEF Whole

(* A sequence behind another, as a set. *)
LEMMA SetBehind ==
  ASSUME NEW x \in Seq(Event), NEW y \in Seq(Event)
  PROVE  ToSet(x \o y) = ToSet(x) \cup ToSet(y) /\ ToSet(x) \subseteq Event
<1>1. /\ ToSet(x \o y) = {(x \o y)[i] : i \in 1 .. Len(x \o y)}
      /\ ToSet(x) = {x[i] : i \in 1 .. Len(x)} /\ ToSet(y) = {y[i] : i \in 1 .. Len(y)}
  BY DEF ToSet
<1>2. /\ Len(x) \in Nat /\ Len(y) \in Nat
      /\ Len(x \o y) = Len(x) + Len(y)
      /\ \A i \in 1 .. Len(x) : (x \o y)[i] = x[i]
      /\ \A i \in 1 .. Len(y) : (x \o y)[Len(x) + i] = y[i]
      /\ \A i \in 1 .. Len(x) + Len(y) : i \in 1 .. Len(x) \/ i - Len(x) \in 1 .. Len(y)
  BY BehindFacts
<1>3. PICK z : z = x \o y
  OBVIOUS
<1>4. ASSUME NEW i \in 1 .. Len(z) PROVE z[i] \in ToSet(x) \cup ToSet(y)
  <2>1. CASE i \in 1 .. Len(x)
    BY <1>1, <1>2, <1>3, <2>1
  <2>2. CASE i - Len(x) \in 1 .. Len(y)
    <3>1. z[Len(x) + (i - Len(x))] = y[i - Len(x)] /\ Len(x) + (i - Len(x)) = i
      BY <1>2, <1>3, <2>2
    <3> QED BY <1>1, <2>2, <3>1
  <2> QED BY <1>2, <1>3, <2>1, <2>2
<1>5. ASSUME NEW i \in 1 .. Len(x) PROVE x[i] \in ToSet(z)
  <2>1. i \in 1 .. Len(z) /\ z[i] = x[i]
    BY <1>2, <1>3
  <2> QED BY <1>1, <1>3, <2>1
<1>6. ASSUME NEW i \in 1 .. Len(y) PROVE y[i] \in ToSet(z)
  <2>1. Len(x) + i \in 1 .. Len(z) /\ z[Len(x) + i] = y[i]
    BY <1>2, <1>3
  <2> QED BY <1>1, <1>3, <2>1
<1>7. ToSet(x) \subseteq Event
  BY <1>1
<1>8. ToSet(z) \subseteq ToSet(x) \cup ToSet(y)
  BY <1>1, <1>3, <1>4
<1>9. ToSet(x) \subseteq ToSet(z)
  BY <1>1, <1>5
<1>10. ToSet(y) \subseteq ToSet(z)
  BY <1>1, <1>6
<1>11. ToSet(z) = ToSet(x) \cup ToSet(y)
  BY <1>8, <1>9, <1>10
<1> QED BY <1>3, <1>7, <1>11

(* The batch in order, as a set. *)
LEMMA SetInOrder ==
  ASSUME NEW evs, Sortable(evs), NEW q, q = InSeqOrder(evs)
  PROVE  ToSet(q) = evs /\ q \in Seq(Event)
<1>1. /\ q \in Seq(Event)
      /\ \A i \in 1 .. Len(q) : q[i] \in evs
      /\ \A e \in evs : \E i \in 1 .. Len(q) : q[i] = e
  BY OrderFacts
<1>2. ToSet(q) = {q[i] : i \in 1 .. Len(q)}
  BY DEF ToSet
<1> QED BY <1>1, <1>2

(* The screen that deliver leaves. *)
LEMMA DeliverShows ==
  ASSUME NEW c \in Session, NEW push \in Push, Sortable(push.evs),
         NEW d, d = Deliver(c, push), c.phase # "closed"
  PROVE  ToSet(d.screen) = ToSet(c.screen) \cup {e \in push.evs : \A s \in ToSet(c.screen) : s.seq # e.seq}
<1> DEFINE S == ToSet(c.screen)
           F == {e \in push.evs : \A s \in S : s.seq # e.seq}
<1>1. Takes(c, push, d)
  BY DeliverFacts
<1>2. S = {c.screen[i] : i \in 1 .. Len(c.screen)}
  <2>1. PICK x \in Seq(Event) : x = c.screen
    BY DEF Session
  <2>2. ToSet(x) = {x[i] : i \in 1 .. Len(x)}
    BY DEF ToSet
  <2> QED BY <2>1, <2>2
<1>3. Fresh(c, push) = F
  BY <1>2 DEF Fresh
<1>4. Shown(c, push) = F
  BY <1>3 DEF Shown, Sortable
<1>5. Sortable(F)
  BY DEF Sortable
<1> HIDE DEF S, F
<1>6. PICK q : q = InSeqOrder(F)
  OBVIOUS
<1>7. ToSet(q) = F /\ q \in Seq(Event)
  BY <1>5, <1>6, SetInOrder
<1>8. d.screen = c.screen \o q /\ c.screen \in Seq(Event)
  BY <1>1, <1>4, <1>6 DEF Takes, Session
<1>9. ToSet(d.screen) = ToSet(c.screen) \cup ToSet(q)
  BY <1>7, <1>8, SetBehind
<1> QED BY <1>7, <1>9 DEF S, F

(* A grounded push leaves a whole screen whole, and all it stands for is covered. *)
LEMMA DeliverCovers ==
  ASSUME NEW c \in Session, NEW push \in Push, Sortable(push.evs),
         NEW d, d = Deliver(c, push), c.phase # "closed",
         Whole(ToSet(c.screen)), Grounded(push.evs, ToSet(c.screen))
  PROVE  /\ Whole(ToSet(d.screen))
         /\ \A k \in Nat : Covers(ToSet(c.screen) \cup push.evs, k) => Covers(ToSet(d.screen), k)
<1>1. PICK S : S = ToSet(c.screen)
  OBVIOUS
<1>2. S \subseteq Event
  <2>1. c.screen \in Seq(Event)
    BY DEF Session
  <2> QED BY <1>1, <2>1 DEF ToSet
<1>3. PICK F : F = {e \in push.evs : \A s \in S : s.seq # e.seq}
  OBVIOUS
<1>4. ToSet(d.screen) = S \cup F
  BY <1>1, <1>3, DeliverShows
<1>5. push.evs \subseteq Event /\ Whole(S) /\ Grounded(push.evs, S)
  BY <1>1 DEF Push
<1>6. Whole(S \cup F) /\ \A k : Covers(S \cup push.evs, k) /\ k \in Nat => Covers(S \cup F, k)
  BY <1>2, <1>3, <1>5, ShownCovers
<1> QED BY <1>1, <1>4, <1>6

(* The last seq of a page. *)
LEMMA EndTop ==
  ASSUME NEW evs, evs \subseteq Event, NEW d \in Nat, NEW n, n = EndOf(evs, d)
  PROVE  /\ n \in Nat
         /\ evs = {} => n = d
         /\ evs # {} => (\E e \in evs : e.seq = n) /\ \A e \in evs : e.seq <= n
<1> DEFINE Q == {e.seq : e \in evs}
<1>1. CASE evs = {}
  BY <1>1 DEF EndOf
<1>2. CASE evs # {}
  <2>1. Q \subseteq Nat /\ Q # {} /\ MaxSeq \in Nat /\ \A k \in Q : k <= MaxSeq
    BY <1>2, ChatBounds DEF Event, MaxSeq
  <2>2. PICK m \in Q : \A k \in Q : k <= m
    BY <2>1, GreatestOf
  <2>3. m \in Q /\ \A e \in evs : e.seq <= m
    BY <2>2
  <2>4. n = CHOOSE i \in Q : \A e \in evs : e.seq <= i
    BY <1>2 DEF EndOf
  <2>5. n \in Q /\ \A e \in evs : e.seq <= n
    <3> HIDE DEF Q
    <3> QED BY <2>3, <2>4
  <2>6. \E e \in evs : e.seq = n
    BY <2>5
  <2> QED BY <1>2, <2>1, <2>5, <2>6
<1> QED BY <1>1, <1>2

(* A whole set covers all up to its last seq. *)
LEMMA WholeCovers ==
  ASSUME NEW S, S \subseteq Event, Whole(S), NEW n, n = EndOf(S, 0), NEW k \in 1 .. n
  PROVE  Covers(S, k)
<1>1. 0 \in Nat
  OBVIOUS
<1>2. /\ n \in Nat /\ (S = {} => n = 0)
      /\ S # {} => \E e \in S : e.seq = n
  BY <1>1, EndTop
<1>3. PICK e \in S : e.seq = n
  BY <1>2
<1> QED BY <1>3 DEF Whole

(* One more push in the stock. *)
LEMMA StockFacts ==
  ASSUME NEW S, NEW line
  PROVE  /\ Stock(S, line, 0) = S
         /\ \A i \in Nat \ {0} : Stock(S, line, i) = Stock(S, line, i - 1) \cup line[i].evs
         /\ \A i \in Nat : S \subseteq Stock(S, line, i)
<1>1. Stock(S, line, 0) = S
  BY DEF Stock
<1>2. ASSUME NEW i \in Nat \ {0} PROVE Stock(S, line, i) = Stock(S, line, i - 1) \cup line[i].evs
  <2>1. 1 .. i = (1 .. i - 1) \cup {i}
    OBVIOUS
  <2> QED BY <2>1 DEF Stock
<1> QED BY <1>1, <1>2 DEF Stock

(* release drops what the screen covers, so that what is left is grounded. *)
LEMMA AboveGrounded ==
  ASSUME NEW T, NEW D, NEW evs, NEW cut \in Nat, NEW rest, evs \subseteq Event, T \subseteq Event,
         rest = {e \in evs : e.seq > cut}, Grounded(evs, T),
         \A k \in Nat : Covers(T, k) => Covers(D, k), \A k \in 1 .. cut : Covers(D, k)
  PROVE  /\ Grounded(rest, D)
         /\ \A k \in Nat : Covers(T \cup evs, k) => Covers(D \cup rest, k)
<1>1. ASSUME NEW k \in Nat, Covers(T \cup evs, k) PROVE Covers(D \cup rest, k)
  <2>1. PICK f \in T \cup evs : f.from <= k /\ k <= f.seq
    BY <1>1 DEF Covers
  <2>2. f.from \in Nat /\ f.seq \in Nat /\ 1 <= f.from
    BY <2>1, EventNumbers
  <2>3. CASE f \in T
    <3>1. Covers(D, k)
      BY <2>1, <2>3 DEF Covers
    <3> QED BY <3>1 DEF Covers
  <2>4. CASE f \in rest
    BY <2>1, <2>4 DEF Covers
  <2>5. CASE f \notin T /\ f \notin rest
    <3>1. f.seq <= cut
      BY <2>1, <2>2, <2>5
    <3>2. k \in 1 .. cut
      BY <2>1, <2>2, <3>1
    <3>3. Covers(D, k)
      BY <3>2
    <3> QED BY <3>3 DEF Covers
  <2> QED BY <2>3, <2>4, <2>5
<1>2. ASSUME NEW e \in rest, NEW k \in 1 .. e.seq PROVE Covers(D \cup rest, k)
  <2>1. e \in evs /\ k \in Nat /\ e.seq \in Nat
    BY EventNumbers
  <2>2. Covers(T \cup evs, k)
    BY <2>1 DEF Grounded
  <2> QED BY <1>1, <2>1, <2>2
<1> QED BY <1>1, <1>2 DEF Grounded

(* A line whose pushes of the pollers P are grounded on what comes before them. *)
Rests(S, line, P) ==
  \A i \in 1 .. Len(line) : line[i].gen \in P => Grounded(line[i].evs, Stock(S, line, i - 1))

(* What release has made of a whole screen, behind the first i held pushes. *)
Kept(c, x, P, i) ==
  x.heard \subseteq P =>
    /\ Whole(ToSet(x.screen))
    /\ x.phase = "live" =>
         \A k \in Nat : Covers(Stock(ToSet(c.screen), c.held, i), k) => Covers(ToSet(x.screen), k)

(* One held push. *)
LEMMA KeptStep ==
  ASSUME NEW c \in Session, NEW x \in Session, NEW P, NEW i \in 1 .. Len(c.held),
         \A j \in 1 .. Len(c.held) : Sortable(c.held[j].evs),
         Whole(ToSet(c.screen)), Rests(ToSet(c.screen), c.held, P),
         x.phase \in {"live", "closed"}, Kept(c, x, P, i - 1),
         NEW y, y = Deliver(x, Above(c.held[i], HighWater(c)))
  PROVE  Kept(c, y, P, i)
<1>0. /\ c.held \in Seq(Push) /\ Len(c.held) \in Nat /\ c.screen \in Seq(Event) /\ c.held[i] \in Push
      /\ x.screen \in Seq(Event)
  BY DEF Session
<1>1. PICK cut \in Nat : cut = HighWater(c)
  BY <1>0, HighWaterNat
<1>2. PICK push \in Push : push = c.held[i] /\ Sortable(push.evs)
  BY <1>0
<1>3. PICK p : p = Above(push, cut)
  OBVIOUS
<1>4. p \in Push /\ p.gen = push.gen /\ Sortable(p.evs) /\ p.evs = {e \in push.evs : e.seq > cut}
  BY <1>2, <1>3, AboveFacts
<1>5. y = Deliver(x, p)
  BY <1>1, <1>2, <1>3
<1>6. CASE x.phase = "closed"
  <2>1. y = x
    BY <1>4, <1>5, <1>6, DeliverFacts
  <2> QED BY <1>6, <2>1 DEF Kept
<1>7. CASE x.phase = "live"
  <2>1. Takes(x, p, y)
    BY <1>4, <1>5, <1>7, DeliverFacts
  <2>2. y.heard = x.heard \cup {push.gen} /\ (y.phase = "live" => x.phase = "live")
    BY <1>4, <1>7, <2>1 DEF Takes
  <2> SUFFICES ASSUME y.heard \subseteq P
               PROVE  /\ Whole(ToSet(y.screen))
                      /\ \A k \in Nat : Covers(Stock(ToSet(c.screen), c.held, i), k) => Covers(ToSet(y.screen), k)
    BY DEF Kept
  <2>3. x.heard \subseteq P /\ push.gen \in P
    BY <2>2
  <2>4. PICK S : S = ToSet(c.screen)
    OBVIOUS
  <2>5. PICK T : T = Stock(S, c.held, i - 1)
    OBVIOUS
  <2>6. PICK D : D = ToSet(x.screen)
    OBVIOUS
  <2>7. Whole(D) /\ \A k \in Nat : Covers(T, k) => Covers(D, k)
    BY <1>7, <2>3, <2>4, <2>5, <2>6 DEF Kept
  <2>8. Grounded(push.evs, T)
    BY <1>2, <2>3, <2>4, <2>5 DEF Rests
  <2>9. S \subseteq Event /\ S \subseteq T /\ T \subseteq Event
    <3>1. S \subseteq Event
      BY <1>0, <2>4 DEF ToSet
    <3>2. \A j \in 1 .. i - 1 : c.held[j] \in Push
      BY <1>0
    <3>3. \A j \in 1 .. i - 1 : c.held[j].evs \subseteq Event
      BY <3>2 DEF Push
    <3> QED BY <2>5, <3>1, <3>3 DEF Stock
  <2>10. \A k \in 1 .. cut : Covers(D, k)
    <3> SUFFICES ASSUME NEW k \in 1 .. cut PROVE Covers(D, k)
      OBVIOUS
    <3>1. Covers(S, k)
      BY <1>1, <2>4, <2>9, WholeCovers DEF HighWater
    <3>2. Covers(T, k)
      BY <2>9, <3>1, CoversMore
    <3> QED BY <2>7, <3>2
  <2>11. push.evs \subseteq Event
    BY DEF Push
  <2>12. /\ Grounded(p.evs, D)
         /\ \A k \in Nat : Covers(T \cup push.evs, k) => Covers(D \cup p.evs, k)
    BY <1>4, <2>7, <2>8, <2>9, <2>10, <2>11, AboveGrounded
  <2>13. /\ Whole(ToSet(y.screen))
         /\ \A k \in Nat : Covers(D \cup p.evs, k) => Covers(ToSet(y.screen), k)
    <3>1. x.phase # "closed"
      BY <1>7
    <3>2. PICK z : z = y
      OBVIOUS
    <3>3. z = Deliver(x, p) /\ Whole(ToSet(x.screen)) /\ Grounded(p.evs, ToSet(x.screen))
      BY <1>5, <2>6, <2>7, <2>12, <3>2
    <3>4. /\ Whole(ToSet(z.screen))
          /\ \A k \in Nat : Covers(ToSet(x.screen) \cup p.evs, k) => Covers(ToSet(z.screen), k)
      BY <1>4, <3>1, <3>3, DeliverCovers
    <3> QED BY <2>6, <3>2, <3>4
  <2>14. Stock(S, c.held, i) = T \cup push.evs
    <3>1. i \in Nat \ {0}
      BY <1>0
    <3>2. PICK line : line = c.held
      OBVIOUS
    <3>3. Stock(S, line, i) = Stock(S, line, i - 1) \cup line[i].evs
      BY <3>1, StockFacts
    <3> QED BY <1>2, <2>5, <3>2, <3>3
  <2> QED BY <2>4, <2>12, <2>13, <2>14
<1> QED BY <1>6, <1>7

(* release, as a whole. *)
LEMMA ReleaseKept ==
  ASSUME NEW c \in Session, c.phase # "closed", c.end = "none", NEW P,
         \A j \in 1 .. Len(c.held) : Sortable(c.held[j].evs),
         Whole(ToSet(c.screen)), Rests(ToSet(c.screen), c.held, P)
  PROVE  Kept(c, Release(c), P, Len(c.held))
<1> DEFINE N == Len(c.held)
<1>1. N \in Nat /\ c.held \in Seq(Push)
  BY DEF Session
<1>2. PICK tr : Released(c, tr) /\ Release(c) = tr[N]
  BY <1>1, ReleaseSteps
<1>3. \A i \in 0 .. N : Loose(c, tr[i])
  BY <1>2, ReleaseLoose
<1> DEFINE T == {i \in 0 .. N : Kept(c, tr[i], P, i)}
<1>4. 0 \in T
  <2>1. tr[0].screen = c.screen /\ 0 \in 0 .. N
    <3>1. <<>> \in Seq(Push)
      OBVIOUS
    <3>2. PICK h \in Seq(Push) : h = <<>>
      BY <3>1
    <3>3. tr[0] = [c EXCEPT !.held = h, !.phase = "live"]
      BY <1>2, <3>2 DEF Released, Opened
    <3> QED BY <1>1, <3>3 DEF Session
  <2>2. Kept(c, tr[0], P, 0)
    BY <2>1, StockFacts DEF Kept
  <2> QED BY <2>1, <2>2
<1>5. ASSUME NEW i \in 1 .. N, i - 1 \in T PROVE i \in T
  <2>1. i - 1 \in 0 .. N /\ i \in 0 .. N
    BY <1>1
  <2>2. tr[i - 1] \in Session /\ tr[i - 1].phase \in {"live", "closed"}
    BY <1>3, <2>1 DEF Loose
  <2>3. tr[i] = Deliver(tr[i - 1], Above(c.held[i], HighWater(c)))
    BY <1>2 DEF Released
  <2>4. Kept(c, tr[i - 1], P, i - 1)
    BY <1>5
  <2>5. Kept(c, tr[i], P, i)
    BY <2>2, <2>3, <2>4, KeptStep
  <2> QED BY <2>1, <2>5
<1> HIDE DEF T
<1>6. \A i \in 0 .. N : i \in T
  BY <1>1, <1>4, <1>5, Climb
<1>7. N \in T
  BY <1>1, <1>6
<1> QED BY <1>2, <1>7 DEF T

(* Whom release does not let a session hear. *)
LEMMA ReleaseHears ==
  ASSUME NEW c \in Session, c.phase # "closed", c.end = "none", NEW s, s \notin c.heard,
         \A j \in 1 .. Len(c.held) : Sortable(c.held[j].evs) /\ c.held[j].gen # s
  PROVE  s \notin Release(c).heard
<1> DEFINE N == Len(c.held)
<1>1. N \in Nat /\ c.held \in Seq(Push) /\ c.screen \in Seq(Event)
  BY DEF Session
<1>2. PICK tr : Released(c, tr) /\ Release(c) = tr[N]
  BY <1>1, ReleaseSteps
<1>3. \A i \in 0 .. N : Loose(c, tr[i])
  BY <1>2, ReleaseLoose
<1> DEFINE T == {i \in 0 .. N : s \notin tr[i].heard}
<1>4. 0 \in T
  <2>1. <<>> \in Seq(Push)
    OBVIOUS
  <2>2. PICK h \in Seq(Push) : h = <<>>
    BY <2>1
  <2>3. tr[0] = [c EXCEPT !.held = h, !.phase = "live"]
    BY <1>2, <2>2 DEF Released, Opened
  <2>4. tr[0].heard = c.heard /\ 0 \in 0 .. N
    BY <1>1, <2>3 DEF Session
  <2> QED BY <2>4
<1>5. ASSUME NEW i \in 1 .. N, i - 1 \in T PROVE i \in T
  <2>1. i - 1 \in 0 .. N /\ i \in 0 .. N
    BY <1>1
  <2>2. tr[i - 1] \in Session
    BY <1>3, <2>1 DEF Loose
  <2>3. PICK p : p = Above(c.held[i], HighWater(c))
    OBVIOUS
  <2>4. p \in Push /\ Sortable(p.evs) /\ p.gen # s
    <3>1. PICK cut \in Nat : cut = HighWater(c)
      BY <1>1, HighWaterNat
    <3>2. PICK push \in Push : push = c.held[i] /\ Sortable(push.evs) /\ push.gen # s
      BY <1>1
    <3>3. p = Above(push, cut)
      BY <2>3, <3>1, <3>2
    <3> QED BY <3>2, <3>3, AboveFacts
  <2>5. tr[i] = Deliver(tr[i - 1], p)
    BY <1>2, <2>3 DEF Released
  <2>6. tr[i] = tr[i - 1] \/ Takes(tr[i - 1], p, tr[i])
    BY <2>2, <2>4, <2>5, DeliverFacts
  <2>7. s \notin tr[i].heard
    BY <1>5, <2>4, <2>6 DEF Takes
  <2> QED BY <2>1, <2>7
<1> HIDE DEF T
<1>6. \A i \in 0 .. N : i \in T
  BY <1>1, <1>4, <1>5, Climb
<1>7. N \in T
  BY <1>1, <1>6
<1> QED BY <1>2, <1>7 DEF T

(* What a reader has read before, in S or in the batch that it is about to emit. *)
Behind(p, S) == \A k \in 1 .. p.after : Covers(IF p.pc = "emit" THEN S \cup p.evs ELSE S, k)

(* The feed of a session that has its page: S is whole, the pushes of the     *)
(* pollers P are grounded, and these pollers have read nothing that is not    *)
(* there.                                                                     *)
Flows(S, line, P, R) ==
  Whole(S) /\ Rests(S, line, P) /\ \A g \in P : Behind(R[g], Stock(S, line, Len(line)))

(* A reader's step that skips nothing. *)
Trails(p, q) == \A S : Behind(p, S) => Behind(q, S)

(* Where a reader is: n frames can be read, and a turn whose row it reads is over. *)
Read(p, n, over) ==
  /\ p.after <= n
  /\ p.pc = "row" => over
  /\ p.pc = "got" => /\ \A e \in p.evs : e.seq <= n
                     /\ \A e \in p.evs : \A k \in 1 .. e.seq : k <= p.after \/ Covers(p.evs, k)
  /\ p.pc = "emit" => \A e \in p.evs : e.seq <= p.after

(* There is more to be read now. *)
LEMMA ReadMore ==
  ASSUME NEW p \in Reader, NEW n \in Nat, NEW m \in Nat, NEW o, NEW o2, n <= m, o => o2, Read(p, n, o)
  PROVE  Read(p, m, o2)
<1>1. p.after \in Nat /\ p.evs \subseteq Event
  BY ChatBounds DEF Reader, MaxSeq
<1>2. \A e \in p.evs : e.seq \in Nat
  BY <1>1, EventNumbers
<1>3. p.after <= m
  BY <1>1 DEF Read
<1>4. p.pc = "got" => \A e \in p.evs : e.seq <= m
  BY <1>2 DEF Read
<1> QED BY <1>3, <1>4 DEF Read

(* What is grounded on T is grounded on what covers as much. *)
LEMMA GroundMore ==
  ASSUME NEW evs, evs \subseteq Event, NEW T, NEW U, Grounded(evs, T),
         \A k \in Nat : Covers(T, k) => Covers(U, k)
  PROVE  Grounded(evs, U)
<1> SUFFICES ASSUME NEW e \in evs, NEW k \in 1 .. e.seq PROVE Covers(U \cup evs, k)
  BY DEF Grounded
<1>0. k \in Nat
  <2>1. e.seq \in Nat
    BY EventNumbers
  <2> QED BY <2>1
<1>1. Covers(T \cup evs, k) /\ k \in Nat
  BY <1>0 DEF Grounded
<1>2. PICK f \in T \cup evs : f.from <= k /\ k <= f.seq
  BY <1>1 DEF Covers
<1>3. CASE f \in evs
  BY <1>2, <1>3 DEF Covers
<1>4. CASE f \in T
  <2>1. Covers(U, k)
    BY <1>1, <1>2, <1>4 DEF Covers
  <2> QED BY <2>1 DEF Covers
<1> QED BY <1>2, <1>3, <1>4

(* And so is a reader behind it. *)
LEMMA BehindMore ==
  ASSUME NEW p, p.after \in Nat, NEW T, NEW U, Behind(p, T), \A k \in Nat : Covers(T, k) => Covers(U, k)
  PROVE  Behind(p, U)
<1> SUFFICES ASSUME NEW k \in 1 .. p.after PROVE Covers(IF p.pc = "emit" THEN U \cup p.evs ELSE U, k)
  BY DEF Behind
<1>0. k \in Nat
  OBVIOUS
<1>1. Covers(IF p.pc = "emit" THEN T \cup p.evs ELSE T, k) /\ k \in Nat
  BY <1>0 DEF Behind
<1>2. CASE p.pc # "emit"
  BY <1>1, <1>2
<1>3. CASE p.pc = "emit"
  <2>1. PICK f \in T \cup p.evs : f.from <= k /\ k <= f.seq
    BY <1>1, <1>3 DEF Covers
  <2>2. CASE f \in p.evs
    BY <1>3, <2>1, <2>2 DEF Covers
  <2>3. CASE f \in T
    <3>1. Covers(U, k)
      BY <1>1, <2>1, <2>3 DEF Covers
    <3> QED BY <1>3, <3>1 DEF Covers
  <2> QED BY <2>1, <2>2, <2>3
<1> QED BY <1>2, <1>3

(* Readers go on. *)
LEMMA FlowsOn ==
  ASSUME NEW S, NEW line, NEW P, NEW R, NEW Q, Flows(S, line, P, R), \A g \in P : Trails(R[g], Q[g])
  PROVE  Flows(S, line, P, Q)
  BY DEF Flows, Trails

(* A page that covers the whole turn starts a feed. *)
LEMMA FlowsStart ==
  ASSUME NEW S, NEW n \in Nat, Whole(S), \A k \in 1 .. n : Covers(S, k), NEW line \in Seq(Push),
         NEW P, NEW R, \A i \in 1 .. Len(line) : line[i].gen \in P => \A e \in line[i].evs : e.seq <= n,
         \A g \in P : R[g].after \in Nat /\ R[g].after <= n
  PROVE  Flows(S, line, P, R)
<1>1. ASSUME NEW i \in 1 .. Len(line), line[i].gen \in P
      PROVE  Grounded(line[i].evs, Stock(S, line, i - 1))
  <2> SUFFICES ASSUME NEW e \in line[i].evs, NEW k \in 1 .. e.seq
               PROVE  Covers(Stock(S, line, i - 1) \cup line[i].evs, k)
    BY DEF Grounded
  <2>1. line[i] \in Push
    OBVIOUS
  <2>2. e \in Event
    BY <2>1 DEF Push
  <2>3. e.seq \in Nat /\ e.seq <= n
    BY <1>1, <2>2, EventNumbers
  <2>4. Covers(S, k)
    BY <2>3
  <2>5. S \subseteq Stock(S, line, i - 1) \cup line[i].evs
    BY DEF Stock
  <2> QED BY <2>4, <2>5, CoversMore
<1>2. ASSUME NEW g \in P PROVE Behind(R[g], Stock(S, line, Len(line)))
  <2> SUFFICES ASSUME NEW k \in 1 .. R[g].after
               PROVE  Covers(IF R[g].pc = "emit" THEN Stock(S, line, Len(line)) \cup R[g].evs
                             ELSE Stock(S, line, Len(line)), k)
    BY DEF Behind
  <2>1. Covers(S, k)
    BY <1>2
  <2>2. S \subseteq IF R[g].pc = "emit" THEN Stock(S, line, Len(line)) \cup R[g].evs
                    ELSE Stock(S, line, Len(line))
    BY DEF Stock
  <2> QED BY <2>1, <2>2, CoversMore
<1> QED BY <1>1, <1>2 DEF Flows, Rests

(* A poller emits. *)
LEMMA FlowsPush ==
  ASSUME NEW S, NEW line \in Seq(Push), NEW P, NEW R, NEW Q, NEW x \in Push, NEW g, g = x.gen,
         Flows(S, line, P, R), \A h \in P : R[h].after \in Nat,
         g \in P => /\ R[g].pc = "emit" /\ R[g].evs = x.evs /\ \A e \in x.evs : e.seq <= R[g].after
                    /\ Q[g].pc # "emit" /\ Q[g].after \in {0, R[g].after},
         \A h \in P : h # g => Q[h] = R[h]
  PROVE  Flows(S, Append(line, x), P, Q)
<1>1. PICK n \in Nat : n = Len(line)
  OBVIOUS
<1>2. PICK line2 : line2 = Append(line, x)
  OBVIOUS
<1>3. /\ line2 \in Seq(Push) /\ Len(line2) = n + 1 /\ line2[n + 1] = x
      /\ \A i \in 1 .. n : line2[i] = line[i]
  BY <1>1, <1>2, GrownFacts
<1>4. \A j \in 0 .. n : Stock(S, line2, j) = Stock(S, line, j)
  <2> SUFFICES ASSUME NEW j \in 0 .. n PROVE Stock(S, line2, j) = Stock(S, line, j)
    OBVIOUS
  <2>1. \A m \in 1 .. j : line2[m] = line[m]
    BY <1>3
  <2> QED BY <2>1 DEF Stock
<1>5. PICK T : T = Stock(S, line, n)
  OBVIOUS
<1>6. Stock(S, line2, n + 1) = T \cup x.evs
  <2>1. n + 1 \in Nat \ {0} /\ n + 1 - 1 = n /\ n \in 0 .. n
    OBVIOUS
  <2>2. Stock(S, line2, n + 1) = Stock(S, line2, n + 1 - 1) \cup line2[n + 1].evs
    BY <2>1, StockFacts
  <2> QED BY <1>3, <1>4, <1>5, <2>1, <2>2
<1>7. \A h \in P : Behind(R[h], T)
  BY <1>1, <1>5 DEF Flows
<1>8. ASSUME g \in P PROVE Grounded(x.evs, T)
  <2> SUFFICES ASSUME NEW e \in x.evs, NEW k \in 1 .. e.seq PROVE Covers(T \cup x.evs, k)
    BY DEF Grounded
  <2>1. e.seq \in Nat /\ e.seq <= R[g].after /\ R[g].after \in Nat
    BY <1>8, EventNumbers DEF Push
  <2>2. k \in 1 .. R[g].after
    BY <2>1
  <2> QED BY <1>7, <1>8, <2>2 DEF Behind
<1>9. Rests(S, line2, P)
  <2> SUFFICES ASSUME NEW i \in 1 .. n + 1, line2[i].gen \in P
               PROVE  Grounded(line2[i].evs, Stock(S, line2, i - 1))
    BY <1>3 DEF Rests
  <2>1. CASE i = n + 1
    <3>1. i - 1 = n /\ n \in 0 .. n
      BY <2>1
    <3> QED BY <1>3, <1>4, <1>5, <1>8, <2>1, <3>1
  <2>2. CASE i \in 1 .. n
    <3>1. i - 1 \in 0 .. n
      BY <2>2
    <3> QED BY <1>1, <1>3, <1>4, <2>2, <3>1 DEF Flows, Rests
  <2> QED BY <2>1, <2>2
<1>10. ASSUME NEW h \in P PROVE Behind(Q[h], T \cup x.evs)
  <2>1. CASE h = g
    <3>1. g \in P
      BY <2>1
    <3> SUFFICES ASSUME NEW k \in 1 .. Q[g].after PROVE Covers(T \cup x.evs, k)
      BY <2>1, <3>1 DEF Behind
    <3>2. k \in 1 .. R[g].after
      BY <3>1
    <3> QED BY <1>7, <3>1, <3>2 DEF Behind
  <2>2. CASE h # g
    <3>1. \A k \in Nat : Covers(T, k) => Covers(T \cup x.evs, k)
      BY DEF Covers
    <3>2. Behind(R[h], T \cup x.evs)
      BY <1>7, <3>1, BehindMore
    <3> QED BY <2>2, <3>2
  <2> QED BY <2>1, <2>2
<1> QED BY <1>2, <1>3, <1>6, <1>9, <1>10 DEF Flows

(* The first pushes of a line are on a screen: the rest goes on from there. *)
LEMMA FlowsTake ==
  ASSUME NEW S, NEW line \in Seq(Push), NEW P, NEW R, Flows(S, line, P, R), \A g \in P : R[g].after \in Nat,
         NEW n \in 0 .. Len(line), NEW y \in Seq(Push), Leftover(line, n, y), NEW D, Whole(D),
         \A k \in Nat : Covers(Stock(S, line, n), k) => Covers(D, k)
  PROVE  Flows(D, y, P, R)
<1>1. PICK N \in Nat : N = Len(line)
  OBVIOUS
<1>2. n \in 0 .. N /\ Len(y) = N - n /\ \A i \in 1 .. N - n : y[i] = line[n + i]
  BY <1>1 DEF Leftover
<1>3. ASSUME NEW j \in 0 .. N - n, NEW k \in Nat, Covers(Stock(S, line, n + j), k)
      PROVE  Covers(Stock(D, y, j), k)
  <2>1. PICK f \in Stock(S, line, n + j) : f.from <= k /\ k <= f.seq
    BY <1>3 DEF Covers
  <2>2. CASE f \in Stock(S, line, n)
    <3>1. Covers(D, k)
      BY <2>1, <2>2 DEF Covers
    <3>2. D \subseteq Stock(D, y, j)
      BY DEF Stock
    <3> QED BY <3>1, <3>2, CoversMore
  <2>3. CASE f \notin Stock(S, line, n)
    <3>1. PICK m \in 1 .. n + j : f \in line[m].evs /\ m \notin 1 .. n
      BY <2>1, <2>3 DEF Stock
    <3>2. m - n \in 1 .. j /\ m - n \in 1 .. N - n /\ n + (m - n) = m
      BY <1>2, <3>1
    <3>3. f \in y[m - n].evs
      BY <1>2, <3>1, <3>2
    <3>4. f \in Stock(D, y, j)
      BY <3>2, <3>3 DEF Stock
    <3> QED BY <2>1, <3>4 DEF Covers
  <2> QED BY <2>2, <2>3
<1>4. Rests(D, y, P)
  <2> SUFFICES ASSUME NEW i \in 1 .. N - n, y[i].gen \in P PROVE Grounded(y[i].evs, Stock(D, y, i - 1))
    BY <1>2 DEF Rests
  <2>1. n + i \in 1 .. Len(line) /\ line[n + i] = y[i] /\ i - 1 \in 0 .. N - n /\ n + i - 1 = n + (i - 1)
    BY <1>1, <1>2
  <2>2. Grounded(y[i].evs, Stock(S, line, n + (i - 1)))
    BY <2>1 DEF Flows, Rests
  <2>3. y[i].evs \subseteq Event
    <3>1. y[i] \in Push
      BY <1>2
    <3> QED BY <3>1 DEF Push
  <2>4. \A k \in Nat : Covers(Stock(S, line, n + (i - 1)), k) => Covers(Stock(D, y, i - 1), k)
    BY <1>3, <2>1
  <2>5. PICK evs : evs = y[i].evs
    OBVIOUS
  <2>6. Grounded(evs, Stock(D, y, i - 1))
    BY <2>2, <2>3, <2>4, <2>5, GroundMore
  <2> QED BY <2>5, <2>6
<1>5. ASSUME NEW g \in P PROVE Behind(R[g], Stock(D, y, Len(y)))
  <2>1. N - n \in 0 .. N - n /\ n + (N - n) = N
    BY <1>2
  <2>2. \A k \in Nat : Covers(Stock(S, line, N), k) => Covers(Stock(D, y, N - n), k)
    BY <1>3, <2>1
  <2>3. PICK p : p = R[g]
    OBVIOUS
  <2>4. Behind(p, Stock(S, line, N)) /\ p.after \in Nat
    BY <1>1, <2>3 DEF Flows
  <2>5. Behind(p, Stock(D, y, N - n))
    BY <2>2, <2>4, BehindMore
  <2> QED BY <1>2, <2>3, <2>5
<1> QED BY <1>4, <1>5 DEF Flows

(* How many frames can be read, and a turn that only its row speaks for. *)
Reach == IF HasJob THEN Len(job.frames) ELSE MaxSeq
Over == ~HasJob /\ row.status \in Settled

(* The sessions of this turn came after its opening commit; a session that is *)
(* listening and has its answer waits behind nobody.                          *)
PeerFits ==
  /\ Peers # {} => worker # "open" /\ row # NoRow
  /\ \A g \in Sessions : sse.opened[g] <= turn
  /\ Open => sse.opened[sse.id] = turn
  /\ Listening /\ ~Called => calls = <<>>

(* The readers that this turn's sessions started. *)
Own(r) == r \in Peers \/ (r = 0 /\ calls # <<>> /\ Head(calls) \in Peers)
PeersFit == \A r \in Readers : Own(r) => Read(rd[r], Reach, Over)
LineBound == \A i \in 1 .. Len(Line) : Line[i].gen \in Peers => \A e \in Line[i].evs : e.seq <= Reach

(* The page of the open session: at the host, on its way, or on the screen. *)
Paging == calls # <<>> /\ Head(calls) = sse.id /\ rd[0].pc = "got"
Page == IF Paging THEN rd[0].evs ELSE IF replies # <<>> THEN replies[1].evs ELSE ToSet(sse.screen)
PagesWhole ==
  /\ rd[0].pc = "got" => Whole(rd[0].evs)
  /\ replies # <<>> => Whole(replies[1].evs)

(* The open session has a page, more is to come, and it heard nobody else. *)
Flowing ==
  /\ Listening /\ sse.heard \subseteq Peers
  /\ \/ sse.phase = "live"
     \/ Paging /\ ~HasFinal(rd[0].evs)
     \/ replies # <<>> /\ replies[1].st # "failed" /\ ~HasFinal(replies[1].evs)
FlowFits == Flowing => Flows(Page, Line, Peers, rd)

(* And what it leaves on the screen. *)
EndFits == ~Open /\ sse.id \in sse.heard /\ sse.heard \subseteq Peers => Whole(ToSet(sse.screen))

KInv == PeerFits /\ PeersFit /\ LineBound /\ PagesWhole /\ FlowFits /\ EndFits

(* A step within the turn. *)
Onward ==
  /\ turn' = turn
  /\ Peers # {} => /\ worker' # "open" /\ row' # NoRow /\ Reach \in Nat /\ Reach' \in Nat
                   /\ Reach <= Reach' /\ (Over => Over')

(* Reach is a number. *)
LEMMA ReachNat ==
  ASSUME EInv
  PROVE  Reach \in Nat /\ MaxSeq \in Nat /\ Reach <= MaxSeq
<1>1. MaxSeq \in Nat
  BY ChatBounds DEF MaxSeq
<1>2. HasJob => Len(job.frames) \in 1 .. MaxSeq
  BY JobNumbers
<1> QED BY <1>1, <1>2 DEF Reach

(* Frames are only added, until the job is gone. *)
LEMMA ReachGrows ==
  ASSUME EInv, EInv', EngineStep, ~Reserve, worker # "open"
  PROVE  Reach \in Nat /\ Reach' \in Nat /\ Reach <= Reach'
<1>1. Reach \in Nat /\ MaxSeq \in Nat /\ Reach <= MaxSeq
  BY ReachNat
<1>2. Reach' \in Nat
  <2>1. (EInv => Reach \in Nat)'
    BY ReachNat, PTL
  <2> QED BY <2>1
<1>3. ~HasJob' => Reach' = MaxSeq
  BY DEF Reach, MaxSeq
<1>4. ASSUME HasJob' PROVE Reach <= Reach'
  <2>1. CASE Thread
    <3>1. Writes
      BY <2>1, ThreadWrites
    <3>2. HasJob /\ Len(job.frames) \in Nat
      BY <3>1, JobTyped DEF Writes
    <3>3. Len(job.frames) <= Len(job'.frames)
      BY <3>1, <3>2 DEF Writes
    <3> QED BY <1>4, <3>2, <3>3 DEF Reach
  <2>2. CASE CancelTurn \/ Reads
    <3>1. CASE HasJob
      <4>1. job' = [job EXCEPT !.cancel = TRUE]
        BY <2>2, <3>1 DEF CancelTurn, Reads
      <4>2. job'.frames = job.frames
        BY <3>1, <4>1, JobTyped DEF Job
      <4>3. Reach' = Reach
        BY <1>4, <3>1, <4>2 DEF Reach
      <4> QED BY <1>1, <4>3
    <3>2. CASE ~HasJob
      BY <1>4, <2>2, <3>2 DEF CancelTurn, Reads, HasJob
    <3> QED BY <3>1, <3>2
  <2>3. CASE EvictSettled \/ Crash
    BY <1>4, <2>3 DEF EvictSettled, Crash, HasJob
  <2>4. CASE Restart \/ UNCHANGED engine
    <3>1. job' = job
      BY <2>4 DEF Restart, engine
    <3>2. Reach' = Reach
      BY <3>1 DEF Reach, HasJob, MaxSeq
    <3> QED BY <1>1, <3>2
  <2> QED BY <2>1, <2>2, <2>3, <2>4 DEF EngineStep
<1> QED BY <1>1, <1>2, <1>3, <1>4

(* Every step but NewTurn stays within the turn. *)
LEMMA StepOnward ==
  ASSUME StreamInv, PeerFits, [Next]_vars, ~NewTurn
  PROVE  Onward
<1>1. /\ EngineStep /\ EInv /\ EInv' /\ turn' = turn /\ ~Reserve
      /\ worker # "open" /\ row # NoRow => Calm
  BY EngineOn DEF StreamInv
<1>2. ASSUME Peers # {}
      PROVE  /\ worker' # "open" /\ row' # NoRow /\ Reach \in Nat /\ Reach' \in Nat
             /\ Reach <= Reach' /\ (Over => Over')
  <2>1. worker # "open" /\ row # NoRow
    BY <1>2 DEF PeerFits
  <2>2. Calm
    BY <1>1, <2>1
  <2>3. Reach \in Nat /\ Reach' \in Nat /\ Reach <= Reach'
    BY <1>1, <2>1, ReachGrows
  <2>4. Over => Over'
    BY <2>2 DEF Calm, Over
  <2> QED BY <2>2, <2>3, <2>4 DEF Calm
<1> QED BY <1>1, <1>2 DEF Onward

(* Who the peers are does not change. *)
LEMMA PeersStay ==
  ASSUME turn' = turn, sse'.id = sse.id, sse'.opened = sse.opened
  PROVE  Peers' = Peers
  BY DEF Peers

(* The peers are sessions. *)
LEMMA PeerFacts ==
  ASSUME Typed
  PROVE  /\ Peers \subseteq Sessions /\ Sessions \subseteq Readers /\ 0 \in Readers /\ 0 \notin Sessions
         /\ sse.id \in Nat /\ \A g \in Peers : g <= sse.id
         /\ \A r : Own(r) => Peers # {}
<1>1. sse.id \in 0 .. MaxSessions
  BY DEF Typed, Session
<1>2. \A g \in Peers : g \in 1 .. sse.id
  BY DEF Peers
<1>3. Peers \subseteq Sessions /\ sse.id \in Nat /\ \A g \in Peers : g <= sse.id
  BY <1>1, <1>2, StreamBounds DEF Sessions
<1>4. Sessions \subseteq Readers /\ 0 \in Readers /\ 0 \notin Sessions
  BY StreamBounds DEF Sessions, Readers
<1>5. \A r : Own(r) => Peers # {}
  BY DEF Own
<1> QED BY <1>3, <1>4, <1>5

(* A reader that does not move. *)
LEMMA ReadStays ==
  ASSUME Typed, PeersFit, Onward, NEW r \in Readers, Own(r), rd'[r] = rd[r]
  PROVE  Read(rd'[r], Reach', Over')
<1>1. Peers # {}
  BY DEF Own
<1>2. PICK p \in Reader : p = rd[r]
  BY ReaderFacts
<1>3. PICK n, m \in Nat : n = Reach /\ m = Reach' /\ n <= m
  BY <1>1 DEF Onward
<1>4. PICK o, o2 : o = Over /\ o2 = Over'
  OBVIOUS
<1>5. o => o2
  BY <1>1, <1>4 DEF Onward
<1>6. Read(p, n, o)
  BY <1>2, <1>3, <1>4 DEF PeersFit
<1>7. Read(p, m, o2)
  BY <1>3, <1>5, <1>6, ReadMore
<1> QED BY <1>2, <1>3, <1>4, <1>7

(* What is on its way was read, or is bounded as what was. *)
LEMMA BoundStays ==
  ASSUME Typed, LineBound, Onward, Peers' = Peers, NEW line, line = Line',
         \A i \in 1 .. Len(line) : \/ \E j \in 1 .. Len(Line) : line[i] = Line[j]
                                   \/ line[i].evs \subseteq Event /\ \A e \in line[i].evs : e.seq <= Reach
  PROVE  LineBound'
<1> SUFFICES ASSUME NEW i \in 1 .. Len(line), line[i].gen \in Peers, NEW e \in line[i].evs
             PROVE  e.seq <= Reach'
  BY DEF LineBound
<1>1. e.seq <= Reach /\ e \in Event
  <2>1. CASE \E j \in 1 .. Len(Line) : line[i] = Line[j]
    <3>1. PICK j \in 1 .. Len(Line) : line[i] = Line[j]
      BY <2>1
    <3>2. Line[j] \in Push
      BY LineTyped
    <3>3. e \in Event
      BY <3>1, <3>2 DEF Push
    <3> QED BY <3>1, <3>3 DEF LineBound
  <2>2. CASE line[i].evs \subseteq Event /\ \A x \in line[i].evs : x.seq <= Reach
    BY <2>2
  <2> QED BY <2>1, <2>2
<1>2. e.seq \in Nat
  BY <1>1, EventNumbers
<1>3. Reach \in Nat /\ Reach' \in Nat /\ Reach <= Reach'
  BY DEF Onward
<1> QED BY <1>1, <1>2, <1>3

(* Who is not called has no page at the host. *)
LEMMA PagingCalled ==
  ASSUME Typed, Paging
  PROVE  Called
  BY HeadCalled DEF Paging

(* Readers go on, and the session and its mail stay as they are. *)
LEMMA ReadersFlow ==
  ASSUME StreamInv, StreamInv', KInv, Onward, UNCHANGED <<calls, replies, inbox, sse>>,
         \A r \in Readers : Own(r) => Read(rd'[r], Reach', Over'),
         \A g \in Peers : Trails(rd[g], rd'[g]),
         rd'[0].pc = "got" => Whole(rd'[0].evs),
         Paging' /\ Listening /\ ~HasFinal(rd'[0].evs) =>
           rd'[0] = rd[0] \/ Flows(rd'[0].evs, Line, Peers, rd')
  PROVE  KInv'
<1>0. /\ calls' = calls /\ replies' = replies /\ inbox' = inbox /\ sse' = sse
      /\ Typed /\ Typed' /\ PhaseFits
  BY DEF StreamInv, HostFits
<1>1. Peers' = Peers
  BY <1>0, PeersStay DEF Onward
<1>2. /\ (Open' <=> Open) /\ (Listening' <=> Listening) /\ (Called' <=> Called) /\ Line' = Line
      /\ \A r : Own(r)' <=> Own(r)
  BY <1>0, <1>1 DEF Open, Listening, Called, Line, Own
<1>3. PeerFits'
  BY <1>0, <1>1, <1>2 DEF KInv, PeerFits, Onward
<1>4. PeersFit'
  BY <1>2 DEF PeersFit
<1>5. LineBound'
  <2>1. PICK line : line = Line' /\ line = Line
    BY <1>2
  <2>2. \A i \in 1 .. Len(line) : \E j \in 1 .. Len(Line) : line[i] = Line[j]
    BY <2>1
  <2> QED BY <1>0, <1>1, <2>1, <2>2, BoundStays DEF KInv
<1>6. PagesWhole'
  BY <1>0 DEF KInv, PagesWhole
<1>7. ASSUME Flowing' PROVE Flows(Page', Line, Peers, rd')
  <2>1. Listening /\ sse.heard \subseteq Peers
    BY <1>0, <1>1, <1>2, <1>7 DEF Flowing
  <2>2. CASE Paging'
    <3>1. Called /\ Page' = rd'[0].evs
      <4>1. (Typed /\ Paging => Called)'
        BY PagingCalled, PTL
      <4> QED BY <1>0, <1>2, <2>2, <4>1 DEF Page
    <3>2. sse.phase = "waiting" /\ replies = <<>>
      BY <1>0, <2>1, <3>1 DEF PhaseFits, Listening
    <3>3. ~HasFinal(rd'[0].evs)
      BY <1>0, <1>7, <3>2 DEF Flowing
    <3>4. CASE rd'[0] = rd[0]
      <4>1. Paging /\ Page = rd[0].evs /\ Flowing
        BY <1>0, <2>1, <2>2, <3>3, <3>4 DEF Paging, Page, Flowing
      <4>2. Flows(Page, Line, Peers, rd)
        BY <4>1 DEF KInv, FlowFits
      <4> QED BY <3>1, <3>4, <4>1, <4>2, FlowsOn
    <3>5. CASE Flows(rd'[0].evs, Line, Peers, rd')
      BY <3>1, <3>5
    <3> QED BY <2>1, <2>2, <3>3, <3>4, <3>5
  <2>3. CASE ~Paging'
    <3>1. sse.phase = "live" \/ (replies # <<>> /\ replies[1].st # "failed" /\ ~HasFinal(replies[1].evs))
      BY <1>0, <1>7, <2>3 DEF Flowing
    <3>2. ~Called
      BY <1>0, <2>1, <3>1 DEF PhaseFits, Listening
    <3>3. ~Paging
      BY <1>0, <3>2, PagingCalled
    <3>4. Page' = Page /\ Flowing
      BY <1>0, <2>1, <2>3, <3>1, <3>3 DEF Page, Flowing
    <3>5. Flows(Page, Line, Peers, rd)
      BY <3>4 DEF KInv, FlowFits
    <3> QED BY <3>4, <3>5, FlowsOn
  <2> QED BY <2>2, <2>3
<1>8. FlowFits'
  BY <1>1, <1>2, <1>7 DEF FlowFits
<1>9. EndFits'
  BY <1>0, <1>1, <1>2 DEF KInv, EndFits
<1> QED BY <1>3, <1>4, <1>5, <1>6, <1>8, <1>9 DEF KInv

(* A new turn has no peers yet. *)
LEMMA NewTurnFlow ==
  ASSUME StreamInv, KInv, NewTurn
  PROVE  KInv'
<1>1. /\ ~Open /\ sse' = sse /\ rd' = rd /\ calls' = calls /\ replies' = replies /\ inbox' = inbox
      /\ turn' = turn + 1 /\ turn \in Nat /\ sse \in Session
  BY ChatBounds DEF NewTurn, host, Reserve, StreamInv, EInv, EngineTypeOK, HostFits, Typed
<1>2. \A g \in Sessions : sse.opened[g] \in Nat /\ sse.opened[g] <= turn
  <2>1. sse.opened \in [Sessions -> 0 .. MaxTurns]
    BY <1>1 DEF Session
  <2> QED BY <2>1, ChatBounds DEF KInv, PeerFits
<1>3. Peers' = {}
  <2>1. 1 .. sse.id \subseteq Sessions
    <3>1. sse.id \in 0 .. MaxSessions
      BY <1>1 DEF Session
    <3> QED BY <3>1, StreamBounds DEF Sessions
  <2>2. \A g \in 1 .. sse.id : sse.opened[g] # turn + 1
    BY <1>1, <1>2, <2>1
  <2> QED BY <1>1, <2>2 DEF Peers
<1>4. ~Open' /\ ~Listening'
  BY <1>1 DEF Open, Listening
<1>5. PeerFits'
  <2>1. \A g \in Sessions : sse.opened[g] <= turn + 1
    BY <1>1, <1>2
  <2> QED BY <1>1, <1>3, <1>4, <2>1 DEF PeerFits
<1>6. PeersFit' /\ LineBound'
  BY <1>3 DEF PeersFit, LineBound, Own
<1>7. PagesWhole'
  BY <1>1 DEF KInv, PagesWhole
<1>8. FlowFits' /\ EndFits'
  BY <1>1, <1>3, <1>4 DEF FlowFits, EndFits, Flowing
<1> QED BY <1>5, <1>6, <1>7, <1>8 DEF KInv

(* A step of the engine alone. *)
LEMMA EngineFlow ==
  ASSUME StreamInv, StreamInv', KInv, [Next]_vars, UNCHANGED host
  PROVE  KInv'
<1>1. CASE NewTurn
  BY <1>1, NewTurnFlow
<1>2. CASE ~NewTurn
  <2>1. Onward /\ Typed
    BY <1>2, StepOnward DEF KInv, StreamInv, HostFits
  <2>2. UNCHANGED <<calls, replies, inbox, sse>> /\ rd' = rd
    BY DEF host
  <2>3. \A r \in Readers : Own(r) => Read(rd'[r], Reach', Over')
    BY <2>1, <2>2, ReadStays DEF KInv
  <2>4. \A g \in Peers : Trails(rd[g], rd'[g])
    BY <2>2 DEF Trails
  <2>5. rd'[0] = rd[0] /\ (rd'[0].pc = "got" => Whole(rd'[0].evs))
    BY <2>2 DEF KInv, PagesWhole
  <2> QED BY <2>1, <2>2, <2>3, <2>4, <2>5, ReadersFlow
<1> QED BY <1>1, <1>2

(* A reader's step that leaves its cursor; one that stops; an empty emit; a page. *)
LEMMA TrailsOn ==
  ASSUME NEW p, NEW q,
         \/ p.pc # "emit" /\ q.pc # "emit" /\ q.after = p.after
         \/ q.after = 0
         \/ p.pc # "emit" /\ q.pc = "emit" /\ q.evs = {} /\ q.after = p.after
  PROVE  Trails(p, q)
<1> SUFFICES ASSUME NEW S, Behind(p, S) PROVE Behind(q, S)
  BY DEF Trails
<1>1. CASE p.pc # "emit" /\ q.pc # "emit" /\ q.after = p.after
  BY <1>1 DEF Behind
<1>2. CASE q.after = 0
  BY <1>2 DEF Behind
<1>3. CASE p.pc # "emit" /\ q.pc = "emit" /\ q.evs = {} /\ q.after = p.after
  <2>1. S \cup q.evs = S
    BY <1>3
  <2> QED BY <1>3, <2>1 DEF Behind
<1> QED BY <1>1, <1>2, <1>3

(* The last seq of what a reader got, or its cursor. *)
LEMMA EndOfPage ==
  ASSUME NEW p \in Reader, NEW m, m = EndOf(p.evs, p.after)
  PROVE  /\ m \in Nat /\ (p.evs = {} => m = p.after)
         /\ p.evs # {} => (\E e \in p.evs : e.seq = m) /\ \A e \in p.evs : e.seq <= m
<1>1. p.after \in Nat /\ p.evs \subseteq Event
  BY ChatBounds DEF Reader, MaxSeq
<1>2. \A evs, a, n : evs \subseteq Event /\ a \in Nat /\ n = EndOf(evs, a) =>
        /\ n \in Nat /\ (evs = {} => n = a)
        /\ evs # {} => (\E e \in evs : e.seq = n) /\ \A e \in evs : e.seq <= n
  BY EndTop
<1> QED BY <1>1, <1>2

(* A poller that takes a page has read up to its last frame. *)
LEMMA TrailsGot ==
  ASSUME NEW p \in Reader, NEW q, NEW n, NEW o, p.pc = "got", Read(p, n, o),
         q.pc = "emit", q.evs = p.evs, q.after = EndOf(p.evs, p.after)
  PROVE  Trails(p, q)
<1> SUFFICES ASSUME NEW S, Behind(p, S), NEW k \in 1 .. q.after PROVE Covers(S \cup p.evs, k)
  BY DEF Trails, Behind
<1>1. p.after \in Nat /\ p.evs \subseteq Event
  BY ChatBounds DEF Reader, MaxSeq
<1>2. PICK m : m = q.after
  OBVIOUS
<1>3. /\ m \in Nat /\ (p.evs = {} => m = p.after)
      /\ p.evs # {} => \E e \in p.evs : e.seq = m
  BY <1>2, EndOfPage
<1>4. ASSUME k <= p.after PROVE Covers(S \cup p.evs, k)
  <2>1. k \in 1 .. p.after
    BY <1>1, <1>2, <1>3, <1>4
  <2>2. Covers(S, k)
    BY <2>1 DEF Behind
  <2> QED BY <2>2 DEF Covers
<1>5. ASSUME ~(k <= p.after) PROVE Covers(S \cup p.evs, k)
  <2>1. p.evs # {}
    BY <1>1, <1>2, <1>3, <1>5
  <2>2. PICK e \in p.evs : e.seq = m
    BY <1>3, <2>1
  <2>3. k \in 1 .. e.seq
    BY <1>2, <2>2
  <2>4. Covers(p.evs, k)
    BY <1>5, <2>3 DEF Read
  <2> QED BY <2>4 DEF Covers
<1> QED BY <1>4, <1>5

(* What the engine's answer is to a reader. *)
LEMMA ServeReads ==
  ASSUME StreamInv, StreamInv', KInv, Onward, NEW r \in Readers, Serve(r), NEW q, q = rd'[r]
  PROVE  /\ Own(r) => Read(q, Reach', Over')
         /\ r = 0 /\ q.pc = "got" => Whole(q.evs)
         /\ r = 0 /\ q.pc = "got" /\ Own(r) /\ ~HasFinal(q.evs) => \A k \in 1 .. Reach : Covers(q.evs, k)
<1>0. EInv /\ EInv' /\ TurnFits /\ Typed /\ Sorts /\ CallFits
  BY DEF StreamInv, HostFits
<1>1. PICK p : p = rd[r]
  OBVIOUS
<1>2. /\ p \in Reader /\ p.after \in Nat /\ p.evs \subseteq Event /\ p.st \in Statuses
      /\ rd \in [Readers -> Reader] /\ p.after <= MaxSeq
      /\ r = 0 => p.after = 0
  BY <1>0, <1>1, ReaderFacts DEF Typed, CallFits
<1>3. p.pc \in {"asked", "row"}
  BY <1>1 DEF Serve, ServeJob, ServeRow, ServeDocs, CallFails
<1>4. Own(r) => /\ p.after <= Reach /\ (p.pc = "row" => Over) /\ row # NoRow
                /\ Reach \in Nat /\ Reach' \in Nat /\ Reach <= Reach' /\ (Over => Over')
  <2>1. Own(r) => Peers # {}
    BY <1>0, PeerFacts
  <2>2. Own(r) => Read(p, Reach, Over)
    BY <1>1 DEF KInv, PeersFit
  <2> QED BY <2>1, <2>2 DEF Read, KInv, PeerFits, Onward
<1>5. ASSUME ServeJob(r)
      PROVE  /\ Own(r) => Read(q, Reach', Over')
             /\ r = 0 /\ q.pc = "got" => Whole(q.evs)
             /\ r = 0 /\ q.pc = "got" /\ Own(r) /\ ~HasFinal(q.evs) => \A k \in 1 .. Reach : Covers(q.evs, k)
  <2>1. HasJob /\ job' = job /\ row' = row
    BY <1>5 DEF ServeJob, engine
  <2>2. PICK evs : evs = JobEvents(p.after)
    OBVIOUS
  <2>3. PICK n \in Nat : n = Len(job.frames)
    BY <1>0, <2>1, JobTyped
  <2>4. PICK b \in Nat : b = IF n < p.after THEN p.after ELSE n
    BY <1>2, <2>3
  <2>5. Chain(evs, p.after + 1, b, job.turn) /\ evs \subseteq Event
    BY <1>0, <1>2, <2>1, <2>2, <2>3, <2>4, JobPage DEF Sortable
  <2>6. job.status \in Statuses
    BY <1>0, <2>1, JobNumbers DEF Statuses
  <2>7. q = Made(p, "got", job.status, evs)
    BY <1>1, <1>2, <1>5, <2>2 DEF ServeJob, Made, Reader
  <2>8. q.pc = "got" /\ q.evs = evs /\ q.after = p.after
    BY <1>2, <2>5, <2>6, <2>7, ReaderMade
  <2>9. /\ \A e \in evs : e.seq <= b
        /\ \A e \in evs : \A k \in 1 .. e.seq : k <= p.after \/ Covers(evs, k)
    BY <1>2, <2>4, <2>5, ChainCovers
  <2>10. Reach = n /\ Reach' = n
    BY <2>1, <2>3 DEF Reach, HasJob
  <2>11. Own(r) => Read(q, Reach', Over')
    <3> SUFFICES ASSUME Own(r) PROVE Read(q, Reach', Over')
      OBVIOUS
    <3>1. b = n /\ p.after <= n
      BY <1>2, <1>4, <2>3, <2>4, <2>10
    <3> QED BY <2>8, <2>9, <2>10, <3>1 DEF Read
  <2>12. ASSUME r = 0 PROVE Whole(evs) /\ \A k \in 1 .. Reach : Covers(evs, k)
    <3>1. p.after = 0 /\ p.after + 1 = 1 /\ b = n
      BY <1>2, <2>3, <2>4, <2>12
    <3>2. Chain(evs, 1, n, job.turn)
      BY <2>5, <3>1
    <3> QED BY <2>3, <2>5, <2>10, <3>2, ChainWhole
  <2> QED BY <2>8, <2>11, <2>12
<1>6. ASSUME ServeRow(r) PROVE q.pc = "row" /\ (Own(r) => Read(q, Reach', Over'))
  <2>1. ~HasJob /\ Reconcile /\ job' = job
    BY <1>6 DEF ServeRow
  <2>2. row'.status \in Statuses
    BY <1>0 DEF EInv, EngineTypeOK, Statuses, NoRow
  <2>3. q = Made(p, "row", row'.status, p.evs)
    BY <1>1, <1>2, <1>6 DEF ServeRow, Made, Reader
  <2>4. q.pc = "row" /\ q.after = p.after
    BY <1>2, <2>2, <2>3, ReaderMade
  <2>5. ASSUME Own(r) PROVE Read(q, Reach', Over')
    <3>1. ~HasJob' /\ row' # NoRow /\ row'.status # "active"
      BY <1>0, <1>4, <2>1, <2>5, ReconcileFacts DEF HasJob
    <3>2. Over'
      BY <1>0, <3>1 DEF Over, EInv, EngineTypeOK
    <3>3. p.after <= Reach'
      BY <1>2, <1>4, <2>5
    <3> QED BY <2>4, <3>2, <3>3 DEF Read
  <2> QED BY <2>4, <2>5
<1>7. ASSUME ServeDocs(r)
      PROVE  /\ Own(r) => Read(q, Reach', Over')
             /\ r = 0 /\ q.pc = "got" => Whole(q.evs)
             /\ r = 0 /\ q.pc = "got" /\ Own(r) => HasFinal(q.evs)
  <2>1. job' = job /\ row' = row /\ p.pc = "row"
    BY <1>1, <1>7 DEF ServeDocs, engine
  <2>2. PICK evs : evs = StoreEvents(p.after)
    OBVIOUS
  <2>3. Sortable(evs) /\ (row = NoRow => evs = {})
    BY <1>0, <1>2, <2>2, StorePage, EmptyStorePage
  <2>4. evs \subseteq Event
    BY <2>3 DEF Sortable
  <2>5. q = Made(p, "got", p.st, evs)
    BY <1>1, <1>2, <1>7, <2>2 DEF ServeDocs, Made, Reader
  <2>6. q.pc = "got" /\ q.evs = evs /\ q.after = p.after
    BY <1>2, <2>4, <2>5, ReaderMade
  <2>7. ASSUME row # NoRow
        PROVE  /\ \A e \in evs : \A k \in 1 .. e.seq : k <= p.after \/ Covers(evs, k)
               /\ r = 0 => Whole(evs) /\ (row.status \in Settled => HasFinal(evs))
    <3>1. PICK n \in Nat : n = LastSeq /\ n > 0
      BY <1>0, <2>7, StoreShape
    <3>2. PICK b \in Nat : b = IF n < p.after THEN p.after ELSE n
      BY <1>2, <3>1
    <3>3. Chain(evs, p.after + 1, b, row.turn) /\ (HasFinal(evs) <=> (row.status \in Settled /\ p.after < n))
      BY <1>0, <1>2, <2>2, <2>7, <3>1, <3>2, StorePage
    <3>4. \A e \in evs : \A k \in 1 .. e.seq : k <= p.after \/ Covers(evs, k)
      BY <1>2, <2>4, <3>2, <3>3, ChainCovers
    <3>5. ASSUME r = 0 PROVE Whole(evs) /\ (row.status \in Settled => HasFinal(evs))
      <4>1. p.after = 0 /\ p.after + 1 = 1 /\ b = n
        BY <1>2, <3>1, <3>2, <3>5
      <4>2. Chain(evs, 1, n, row.turn)
        BY <3>3, <4>1
      <4>3. Whole(evs)
        BY <2>4, <3>1, <4>2, ChainWhole
      <4> QED BY <3>1, <3>3, <4>1, <4>3
    <3> QED BY <3>4, <3>5
  <2>8. Own(r) => Read(q, Reach', Over')
    <3> SUFFICES ASSUME Own(r) PROVE Read(q, Reach', Over')
      OBVIOUS
    <3>1. Over /\ Reach' = MaxSeq
      BY <1>4, <2>1 DEF Over, Reach, HasJob, MaxSeq
    <3>2. \A e \in evs : e.seq <= MaxSeq
      BY <2>4, ChatBounds DEF Event, MaxSeq
    <3> QED BY <1>2, <1>4, <2>6, <2>7, <3>1, <3>2 DEF Read
  <2>9. r = 0 => Whole(evs)
    <3>1. evs = {} => Whole(evs)
      BY DEF Whole
    <3> QED BY <2>3, <2>7, <3>1
  <2>10. r = 0 /\ Own(r) => HasFinal(evs)
    BY <1>4, <2>1, <2>7 DEF Over
  <2> QED BY <2>6, <2>8, <2>9, <2>10
<1>8. ASSUME CallFails(r) PROVE q.pc = "failed" /\ (Own(r) => Read(q, Reach', Over'))
  <2>1. q = Made(p, "failed", "unknown", p.evs)
    BY <1>1, <1>2, <1>8 DEF CallFails, Failing, Made, Reader
  <2>2. "unknown" \in Statuses
    BY DEF Statuses
  <2>3. q.pc = "failed" /\ q.after = p.after
    BY <1>2, <2>1, <2>2, ReaderMade
  <2>4. Own(r) => p.after <= Reach'
    BY <1>2, <1>4
  <2> QED BY <2>3, <2>4 DEF Read
<1> QED BY <1>5, <1>6, <1>7, <1>8 DEF Serve

(* A page that holds the turn so far and no final frame starts the feed. *)
LEMMA PageStarts ==
  ASSUME StreamInv, KInv, NEW evs, NEW R, Whole(evs), \A k \in 1 .. Reach : Covers(evs, k),
         \A g \in Peers : R[g].after = rd[g].after
  PROVE  Flows(evs, Line, Peers, R)
<1>1. Typed /\ EInv
  BY DEF StreamInv, HostFits
<1>2. PICK n \in Nat : n = Reach
  BY <1>1, ReachNat
<1>3. PICK line \in Seq(Push) : line = Line
  BY <1>1, LineTyped
<1>4. \A i \in 1 .. Len(line) : line[i].gen \in Peers => \A e \in line[i].evs : e.seq <= n
  BY <1>2, <1>3 DEF KInv, LineBound
<1>5. ASSUME NEW g \in Peers PROVE R[g].after \in Nat /\ R[g].after <= n
  <2>1. g \in Readers /\ Own(g)
    BY <1>1, PeerFacts DEF Own
  <2>2. rd[g].after \in Nat
    BY <1>1, <2>1, ReaderFacts
  <2>3. rd[g].after <= n
    BY <1>2, <2>1 DEF KInv, PeersFit, Read
  <2> QED BY <2>2, <2>3
<1>6. Flows(evs, line, Peers, R)
  BY <1>2, <1>4, <1>5, FlowsStart
<1> QED BY <1>3, <1>6

(* The engine answers a reader. *)
LEMMA ServeFlow ==
  ASSUME StreamInv, StreamInv', KInv, [Next]_vars, NEW r \in Readers, Serve(r)
  PROVE  KInv'
<1>0. Typed /\ Sorts /\ EInv /\ EInv' /\ PhaseFits /\ rd \in [Readers -> Reader]
  BY DEF StreamInv, HostFits, Typed
<1>1. PICK q \in Reader :
           /\ rd' = [rd EXCEPT ![r] = q] /\ Sortable(q.evs) /\ q.after = rd[r].after
           /\ q.pc \in {"row", "got", "failed"}
           /\ rd[r].pc \in {"asked", "row"} /\ claim' = claim /\ faults' \in 0 .. MaxFaults
           /\ UNCHANGED <<calls, replies, inbox, sse>>
  BY <1>0, ServeMakes
<1>2. rd'[r] = q /\ \A h \in Readers : h # r => rd'[h] = rd[h]
  BY <1>0, <1>1
<1>3. ~NewTurn
  <2>1. turn' = turn /\ turn \in Nat
    BY <1>0, ChatBounds DEF Serve, ServeJob, ServeRow, ServeDocs, CallFails, engine, EInv, EngineTypeOK
  <2> QED BY <2>1 DEF NewTurn, Reserve
<1>4. Onward
  BY <1>3, StepOnward DEF KInv
<1>5. /\ Own(r) => Read(q, Reach', Over')
      /\ r = 0 /\ q.pc = "got" => Whole(q.evs)
      /\ r = 0 /\ q.pc = "got" /\ Own(r) /\ ~HasFinal(q.evs) => \A k \in 1 .. Reach : Covers(q.evs, k)
  BY <1>2, <1>4, ServeReads
<1>6. \A h \in Readers : Own(h) => Read(rd'[h], Reach', Over')
  BY <1>0, <1>2, <1>4, <1>5, ReadStays DEF KInv
<1>7. \A g \in Peers : Trails(rd[g], rd'[g]) /\ rd'[g].after = rd[g].after
  <2> SUFFICES ASSUME NEW g \in Peers PROVE Trails(rd[g], rd'[g]) /\ rd'[g].after = rd[g].after
    OBVIOUS
  <2>1. g \in Readers
    BY <1>0, PeerFacts
  <2>2. CASE g = r
    <3>1. rd[r].pc # "emit" /\ q.pc # "emit" /\ q.after = rd[r].after
      BY <1>1
    <3>2. Trails(rd[r], q)
      BY <3>1, TrailsOn
    <3> QED BY <1>1, <1>2, <2>2, <3>2
  <2>3. CASE g # r
    BY <1>2, <2>1, <2>3 DEF Trails
  <2> QED BY <2>2, <2>3
<1>8. 0 \in Readers /\ (r # 0 => rd'[0] = rd[0])
  BY <1>0, <1>2, PeerFacts
<1>9. rd'[0].pc = "got" => Whole(rd'[0].evs)
  BY <1>2, <1>5, <1>8 DEF KInv, PagesWhole
<1>10. ASSUME Paging', Listening, ~HasFinal(rd'[0].evs)
       PROVE  rd'[0] = rd[0] \/ Flows(rd'[0].evs, Line, Peers, rd')
  <2>1. CASE r # 0
    BY <1>8, <2>1
  <2>2. CASE r = 0
    <3>1. calls # <<>> /\ Head(calls) = sse.id /\ q.pc = "got"
      BY <1>1, <1>2, <1>10, <2>2 DEF Paging
    <3>2. sse.id \in Peers
      <4>1. Open
        BY <1>10 DEF Open, Listening
      <4>2. sse.id \in Nat /\ sse.id > 0 /\ sse.opened[sse.id] = turn
        BY <1>0, <4>1, PeerFacts DEF KInv, PeerFits, PhaseFits
      <4> QED BY <4>2 DEF Peers
    <3>3. Own(0)
      BY <3>1, <3>2 DEF Own
    <3>4. Whole(q.evs) /\ \A k \in 1 .. Reach : Covers(q.evs, k)
      BY <1>2, <1>5, <1>10, <2>2, <3>1, <3>3
    <3>5. PICK evs, R : evs = q.evs /\ R = rd'
      OBVIOUS
    <3>6. Flows(evs, Line, Peers, R)
      BY <1>7, <3>4, <3>5, PageStarts
    <3> QED BY <1>2, <2>2, <3>5, <3>6
  <2> QED BY <2>1, <2>2
<1>11. UNCHANGED <<calls, replies, inbox, sse>>
  BY <1>1
<1> QED BY <1>4, <1>6, <1>7, <1>9, <1>10, <1>11, ReadersFlow

(* What a poller's step makes of it. *)
LEMMA PollReads ==
  ASSUME Typed, NEW g \in Sessions, PollCheck(g) \/ PollGot(g) \/ PollFailed(g), NEW q, q = rd'[g],
         NEW n \in Nat, NEW o
  PROVE  /\ \A h \in Readers : h # g => rd'[h] = rd[h]
         /\ Read(rd[g], n, o) => Read(q, n, o) /\ Trails(rd[g], q)
<1>0. g \in Readers /\ rd \in [Readers -> Reader]
  BY DEF Typed, Sessions, Readers
<1>1. PICK p : p = rd[g]
  OBVIOUS
<1>2. p \in Reader /\ p.after \in Nat /\ p.evs \subseteq Event
  BY <1>0, <1>1, ReaderFacts
<1>3. /\ Read(Idle, n, o) /\ Trails(p, Idle)
  <2>1. Read(Idle, n, o)
    BY IdleFacts DEF Read
  <2>2. Trails(p, Idle)
    BY IdleFacts, TrailsOn
  <2> QED BY <2>1, <2>2
<1>4. CASE PollCheck(g)
  <2>1. q = IF claim = g THEN [p EXCEPT !.pc = "asked"] ELSE Idle
    BY <1>0, <1>1, <1>4 DEF PollCheck
  <2>2. CASE claim = g
    <3>1. q.pc = "asked" /\ q.after = p.after /\ p.pc = "check"
      BY <1>1, <1>2, <1>4, <2>1, <2>2 DEF Reader, PollCheck
    <3>2. Trails(p, q)
      BY <3>1, TrailsOn
    <3>3. Read(p, n, o) => Read(q, n, o)
      BY <3>1 DEF Read
    <3> QED BY <1>0, <1>1, <1>4, <3>2, <3>3 DEF PollCheck
  <2>3. CASE claim # g
    BY <1>0, <1>1, <1>3, <1>4, <2>1, <2>3 DEF PollCheck
  <2> QED BY <2>2, <2>3
<1>5. CASE PollGot(g)
  <2>0. p.pc = "got" /\ \A h \in Readers : h # g => rd'[h] = rd[h]
    BY <1>0, <1>1, <1>5 DEF PollGot
  <2>1. PICK m : m = EndOf(p.evs, p.after)
    OBVIOUS
  <2>2. /\ m \in Nat /\ (p.evs = {} => m = p.after)
        /\ p.evs # {} => (\E e \in p.evs : e.seq = m) /\ \A e \in p.evs : e.seq <= m
    BY <1>2, <2>1, EndOfPage
  <2>3. PICK z : z = [p EXCEPT !.after = m, !.fails = 0]
    OBVIOUS
  <2>4. /\ z.after = m /\ z.evs = p.evs /\ z.st = p.st /\ DOMAIN z = DOMAIN p
        /\ Again(z).pc = "check" /\ Again(z).after = m
        /\ [z EXCEPT !.pc = "emit"].pc = "emit" /\ [z EXCEPT !.pc = "emit"].after = m
        /\ [z EXCEPT !.pc = "emit"].evs = p.evs
    BY <1>2, <2>3 DEF Reader, Again
  <2>5. \/ q = Again(z) /\ p.evs = {}
        \/ q = [z EXCEPT !.pc = "emit"]
        \/ q = Idle
    <3> DEFINE silent == z.evs = {} /\ z.st = "active"
    <3>1. rd' = [rd EXCEPT ![g] = CASE silent -> Again(z)
                                    [] ~silent /\ claim = g -> [z EXCEPT !.pc = "emit"]
                                    [] OTHER -> Idle]
      BY <1>1, <1>5, <2>1, <2>3 DEF PollGot
    <3>2. q = CASE silent -> Again(z)
                [] ~silent /\ claim = g -> [z EXCEPT !.pc = "emit"]
                [] OTHER -> Idle
      BY <1>0, <3>1
    <3>3. silent => p.evs = {}
      BY <2>4
    <3> HIDE DEF silent
    <3>4. CASE silent
      BY <3>2, <3>3, <3>4
    <3>5. CASE ~silent /\ claim = g
      BY <3>2, <3>5
    <3>6. CASE ~silent /\ claim # g
      BY <3>2, <3>6
    <3> QED BY <3>4, <3>5, <3>6
  <2> SUFFICES ASSUME Read(p, n, o) PROVE Read(q, n, o) /\ Trails(p, q)
    BY <1>1, <2>0
  <2>6. CASE q = Again(z) /\ p.evs = {}
    <3>1. q.pc = "check" /\ q.after = p.after
      BY <2>2, <2>4, <2>6
    <3>2. Trails(p, q)
      BY <2>0, <3>1, TrailsOn
    <3> QED BY <3>1, <3>2 DEF Read
  <2>7. CASE q = [z EXCEPT !.pc = "emit"]
    <3>1. q.pc = "emit" /\ q.after = m /\ q.evs = p.evs
      BY <2>4, <2>7
    <3>2. Trails(p, q)
      BY <1>2, <2>0, <2>1, <3>1, TrailsGot
    <3>3. m <= n
      <4>1. CASE p.evs = {}
        BY <2>2, <4>1 DEF Read
      <4>2. CASE p.evs # {}
        <5>1. PICK e \in p.evs : e.seq = m
          BY <2>2, <4>2
        <5> QED BY <2>0, <5>1 DEF Read
      <4> QED BY <4>1, <4>2
    <3>4. Read(q, n, o)
      BY <2>2, <3>1, <3>3 DEF Read
    <3> QED BY <3>2, <3>4
  <2>8. CASE q = Idle
    BY <1>3, <2>8
  <2> QED BY <2>5, <2>6, <2>7, <2>8
<1>6. CASE PollFailed(g)
  <2>0. p.pc = "failed" /\ \A h \in Readers : h # g => rd'[h] = rd[h]
    BY <1>0, <1>1, <1>6 DEF PollFailed
  <2>1. PICK z : z = [p EXCEPT !.fails = p.fails + 1]
    OBVIOUS
  <2>2. PICK y : y = [p EXCEPT !.pc = "emit", !.st = "error", !.evs = {}]
    OBVIOUS
  <2>3. q = Again(z) \/ q = y \/ q = Idle
    BY <1>0, <1>1, <1>6, <2>1, <2>2 DEF PollFailed
  <2>4. /\ Again(z).pc = "check" /\ Again(z).after = p.after
        /\ y.pc = "emit" /\ y.evs = {} /\ y.after = p.after
    BY <1>2, <2>1, <2>2 DEF Reader, Again
  <2>5. CASE q = Again(z)
    <3>1. Trails(p, q)
      BY <2>0, <2>4, <2>5, TrailsOn
    <3>2. Read(p, n, o) => Read(q, n, o)
      BY <2>4, <2>5 DEF Read
    <3> QED BY <1>1, <2>0, <3>1, <3>2
  <2>6. CASE q = y
    <3>1. Trails(p, q)
      BY <2>0, <2>4, <2>6, TrailsOn
    <3>2. Read(p, n, o) => Read(q, n, o)
      BY <2>4, <2>6 DEF Read
    <3> QED BY <1>1, <2>0, <3>1, <3>2
  <2>7. CASE q = Idle
    BY <1>1, <1>3, <2>0, <2>7
  <2> QED BY <2>3, <2>5, <2>6, <2>7
<1> QED BY <1>4, <1>5, <1>6

(* A poller's own steps. *)
LEMMA PollFlow ==
  ASSUME StreamInv, StreamInv', KInv, [Next]_vars, NEW g \in Sessions,
         PollCheck(g) \/ PollGot(g) \/ PollFailed(g)
  PROVE  KInv'
<1>0. Typed /\ EInv /\ g \in Readers /\ 0 \in Readers /\ g # 0 /\ Peers \subseteq Readers
  BY PeerFacts DEF StreamInv, HostFits
<1>1. UNCHANGED engine /\ UNCHANGED <<calls, replies, inbox, sse>>
  BY DEF PollCheck, PollGot, PollFailed
<1>2. turn' = turn /\ turn \in Nat /\ Reach' = Reach /\ (Over' <=> Over)
  BY <1>0, <1>1, ChatBounds DEF engine, EInv, EngineTypeOK, Reach, Over, HasJob, MaxSeq
<1>3. Onward
  <2>1. ~NewTurn
    BY <1>2 DEF NewTurn, Reserve
  <2> QED BY <2>1, StepOnward DEF KInv
<1>4. PICK n \in Nat : n = Reach
  BY <1>0, ReachNat
<1>5. PICK o, o2 : o = Over /\ o2 = Over'
  OBVIOUS
<1>6. PICK q : q = rd'[g]
  OBVIOUS
<1>7. /\ \A h \in Readers : h # g => rd'[h] = rd[h]
      /\ Read(rd[g], n, o) => Read(q, n, o) /\ Trails(rd[g], q)
  BY <1>0, <1>6, PollReads
<1>8. Own(g) => Read(q, Reach', Over') /\ Trails(rd[g], q)
  <2> SUFFICES ASSUME Own(g) PROVE Read(q, Reach', Over') /\ Trails(rd[g], q)
    OBVIOUS
  <2>1. Read(rd[g], n, o)
    BY <1>0, <1>4, <1>5 DEF KInv, PeersFit
  <2>2. Read(q, n, o) /\ Trails(rd[g], q)
    BY <1>7, <2>1
  <2>3. Read(q, n, o2)
    BY <1>2, <1>5, <2>2 DEF Read
  <2> QED BY <1>2, <1>4, <1>5, <2>2, <2>3
<1>9. \A r \in Readers : Own(r) => Read(rd'[r], Reach', Over')
  BY <1>0, <1>3, <1>6, <1>7, <1>8, ReadStays DEF KInv
<1>10. \A h \in Peers : Trails(rd[h], rd'[h])
  <2> SUFFICES ASSUME NEW h \in Peers PROVE Trails(rd[h], rd'[h])
    OBVIOUS
  <2>1. CASE h = g
    BY <1>6, <1>8, <2>1 DEF Own
  <2>2. CASE h # g
    BY <1>0, <1>7, <2>2 DEF Trails
  <2> QED BY <2>1, <2>2
<1>11. rd'[0] = rd[0] /\ (rd'[0].pc = "got" => Whole(rd'[0].evs))
  BY <1>0, <1>7 DEF KInv, PagesWhole
<1> QED BY <1>1, <1>3, <1>9, <1>10, <1>11, ReadersFlow

(* The command takes a call. *)
LEMMA CmdStartFlow ==
  ASSUME StreamInv, StreamInv', KInv, [Next]_vars, CmdStart
  PROVE  KInv'
<1>0. /\ Typed /\ EInv /\ 0 \in Readers /\ 0 \notin Peers /\ Peers \subseteq Readers
      /\ rd \in [Readers -> Reader] /\ rd[0] \in Reader
  BY PeerFacts, ReaderFacts DEF StreamInv, HostFits, Typed
<1>1. /\ UNCHANGED engine /\ UNCHANGED <<calls, replies, inbox, sse>> /\ rd' = [rd EXCEPT ![0].pc = "asked"]
  BY DEF CmdStart
<1>2. turn' = turn /\ turn \in Nat /\ Reach' = Reach /\ (Over' <=> Over)
  BY <1>0, <1>1, ChatBounds DEF engine, EInv, EngineTypeOK, Reach, Over, HasJob, MaxSeq
<1>3. Onward
  <2>1. ~NewTurn
    BY <1>2 DEF NewTurn, Reserve
  <2> QED BY <2>1, StepOnward DEF KInv
<1>4. rd'[0].pc = "asked" /\ rd'[0].after = rd[0].after /\ \A h \in Readers : h # 0 => rd'[h] = rd[h]
  BY <1>0, <1>1 DEF Reader
<1>5. Own(0) => Read(rd'[0], Reach', Over')
  BY <1>0, <1>2, <1>4 DEF KInv, PeersFit, Read
<1>6. \A r \in Readers : Own(r) => Read(rd'[r], Reach', Over')
  BY <1>0, <1>3, <1>4, <1>5, ReadStays DEF KInv
<1>7. \A h \in Peers : Trails(rd[h], rd'[h])
  BY <1>0, <1>4 DEF Trails
<1>8. ~Paging' /\ rd'[0].pc # "got"
  BY <1>4 DEF Paging
<1> QED BY <1>1, <1>3, <1>6, <1>7, <1>8, ReadersFlow

(* The engine dies. *)
LEMMA DiesFlow ==
  ASSUME StreamInv, StreamInv', KInv, [Next]_vars, EngineDies
  PROVE  KInv'
<1>0. Typed /\ EInv /\ 0 \in Readers /\ Peers \subseteq Readers
  BY PeerFacts DEF StreamInv, HostFits
<1>1. UNCHANGED <<calls, replies, inbox, sse>> /\ turn' = turn /\ turn \in Nat
  BY <1>0, ChatBounds DEF EngineDies, Crash, EInv, EngineTypeOK
<1>2. Onward
  <2>1. ~NewTurn
    BY <1>1 DEF NewTurn, Reserve
  <2> QED BY <2>1, StepOnward DEF KInv
<1>3. ASSUME NEW r \in Readers
      PROVE  /\ Own(r) => Read(rd'[r], Reach', Over')
             /\ Trails(rd[r], rd'[r])
             /\ rd'[r] = rd[r] \/ rd'[r].pc = "failed"
  <2>1. PICK p : p = rd[r]
    OBVIOUS
  <2>2. PICK q : q = rd'[r]
    OBVIOUS
  <2>3. p \in Reader /\ p.after \in Nat
    BY <1>0, <2>1, ReaderFacts
  <2>4. q = IF p.pc \in {"asked", "row"} THEN Failing(p) ELSE p
    BY <2>1, <2>2 DEF EngineDies
  <2>5. CASE p.pc \in {"asked", "row"}
    <3>1. q.pc = "failed" /\ q.after = p.after
      BY <2>3, <2>4, <2>5 DEF Failing, Reader
    <3>2. Trails(p, q)
      BY <2>5, <3>1, TrailsOn
    <3>3. ASSUME Own(r) PROVE Read(q, Reach', Over')
      <4>1. Peers # {} /\ p.after <= Reach
        BY <1>0, <2>1, <3>3, PeerFacts DEF KInv, PeersFit, Read
      <4>2. p.after <= Reach'
        BY <1>2, <2>3, <4>1 DEF Onward
      <4> QED BY <3>1, <4>2 DEF Read
    <3> QED BY <2>1, <2>2, <3>1, <3>2, <3>3
  <2>6. CASE p.pc \notin {"asked", "row"}
    <3>1. rd'[r] = rd[r]
      BY <2>1, <2>2, <2>4, <2>6
    <3>2. Own(r) => Read(rd'[r], Reach', Over')
      BY <1>0, <1>2, <3>1, ReadStays DEF KInv
    <3> QED BY <3>1, <3>2 DEF Trails
  <2> QED BY <2>5, <2>6
<1>4. \A h \in Peers : Trails(rd[h], rd'[h])
  BY <1>0, <1>3
<1>5. rd'[0] = rd[0] \/ rd'[0].pc = "failed"
  BY <1>0, <1>3
<1>6. /\ rd'[0].pc = "got" => Whole(rd'[0].evs)
      /\ Paging' => rd'[0] = rd[0]
  BY <1>5 DEF KInv, PagesWhole, Paging
<1> QED BY <1>1, <1>2, <1>3, <1>4, <1>6, ReadersFlow

(* A poller emits. *)
LEMMA EmitFlow ==
  ASSUME StreamInv, StreamInv', KInv, [Next]_vars, NEW g \in Sessions, PollEmit(g)
  PROVE  KInv'
<1>0. /\ Typed /\ Typed' /\ EInv /\ PhaseFits /\ g \in Readers /\ 0 \in Readers /\ g # 0 /\ Peers \subseteq Readers
      /\ rd \in [Readers -> Reader]
  BY PeerFacts DEF StreamInv, HostFits, Typed
<1>1. UNCHANGED engine /\ calls' = calls /\ replies' = replies /\ sse' = sse /\ rd[g].pc = "emit"
  BY DEF PollEmit
<1>2. turn' = turn /\ turn \in Nat /\ Reach' = Reach /\ (Over' <=> Over)
  BY <1>0, <1>1, ChatBounds DEF engine, EInv, EngineTypeOK, Reach, Over, HasJob, MaxSeq
<1>3. Onward
  <2>1. ~NewTurn
    BY <1>2 DEF NewTurn, Reserve
  <2> QED BY <2>1, StepOnward DEF KInv
<1>4. PICK p : p = rd[g]
  OBVIOUS
<1>5. p \in Reader /\ p.after \in Nat /\ p.evs \subseteq Event /\ p.st \in Statuses
  BY <1>0, <1>4, ReaderFacts
<1>6. PICK q : rd' = [rd EXCEPT ![g] = q] /\ q \in {Idle, Again(p)}
  BY <1>4 DEF PollEmit
<1>7. q.pc \in {"off", "check"} /\ q.after \in {0, p.after}
  <2>1. Again(p).pc = "check" /\ Again(p).after = p.after
    BY <1>5 DEF Again, Reader
  <2> QED BY <1>6, <2>1, IdleFacts
<1>8. rd'[g] = q /\ \A h \in Readers : h # g => rd'[h] = rd[h]
  BY <1>0, <1>6
<1>9. Peers' = Peers
  BY <1>1, <1>2, PeersStay
<1>10. /\ (Open' <=> Open) /\ (Listening' <=> Listening) /\ (Called' <=> Called)
       /\ \A r : Own(r)' <=> Own(r)
  BY <1>1, <1>9 DEF Open, Listening, Called, Own
<1>11. rd'[0] = rd[0] /\ (Paging' <=> Paging) /\ Page' = Page
  BY <1>0, <1>1, <1>8 DEF Paging, Page
<1>12. PICK x : x = [gen |-> g, st |-> p.st, evs |-> p.evs]
  OBVIOUS
<1>13. x \in Push /\ x.gen = g /\ x.evs = p.evs
  BY <1>5, <1>12 DEF Push
<1>14. PICK line \in Seq(Push) : line = Line
  BY <1>0, LineTyped
<1>15. Line' = IF Listening THEN Append(line, x) ELSE line
  <2>1. sse.held \in Seq(Push) /\ inbox \in Seq(Push)
    BY <1>0, LineTyped
  <2>2. inbox' = IF Listening THEN Append(inbox, x) ELSE inbox
    BY <1>4, <1>12 DEF PollEmit
  <2>3. PICK a \in Seq(Push), b \in Seq(Push) : a = sse.held /\ b = inbox
    BY <2>1
  <2>4. x \in Push
    BY <1>13
  <2>5. a \o Append(b, x) = Append(a \o b, x)
    BY <2>4, LineAppends
  <2> QED BY <1>1, <1>14, <2>2, <2>3, <2>5 DEF Line
<1>16. Own(g) => \A e \in p.evs : e.seq <= p.after /\ e.seq <= Reach
  <2> SUFFICES ASSUME Own(g), NEW e \in p.evs PROVE e.seq <= p.after /\ e.seq <= Reach
    OBVIOUS
  <2>1. Read(p, Reach, Over)
    BY <1>0, <1>4 DEF KInv, PeersFit
  <2>2. e.seq <= p.after /\ p.after <= Reach
    BY <1>1, <1>4, <2>1 DEF Read
  <2>3. e.seq \in Nat /\ Reach \in Nat
    BY <1>0, <1>5, EventNumbers, ReachNat
  <2> QED BY <1>5, <2>2, <2>3
<1>17. PeerFits'
  BY <1>1, <1>2, <1>3, <1>9, <1>10 DEF KInv, PeerFits, Onward
<1>18. PeersFit'
  <2> SUFFICES ASSUME NEW r \in Readers, Own(r) PROVE Read(rd'[r], Reach', Over')
    BY <1>10 DEF PeersFit
  <2>1. CASE r = g
    <3>1. p.after <= Reach /\ Reach \in Nat
      BY <1>0, <1>4, <2>1, ReachNat DEF KInv, PeersFit, Read
    <3>2. Read(q, Reach, Over')
      BY <1>5, <1>7, <3>1 DEF Read
    <3> QED BY <1>2, <1>8, <2>1, <3>2
  <2>2. CASE r # g
    BY <1>0, <1>3, <1>8, <2>2, ReadStays DEF KInv
  <2> QED BY <2>1, <2>2
<1>19. LineBound'
  <2>1. CASE ~Listening
    <3>1. \A i \in 1 .. Len(line) : \E j \in 1 .. Len(Line) : line[i] = Line[j]
      BY <1>14
    <3> QED BY <1>0, <1>3, <1>9, <1>15, <2>1, <3>1, BoundStays DEF KInv
  <2>2. CASE Listening
    <3>1. PICK line2 : line2 = Append(line, x)
      OBVIOUS
    <3>2. /\ Len(line) \in Nat /\ Len(line2) = Len(line) + 1 /\ line2[Len(line) + 1] = x
          /\ \A i \in 1 .. Len(line) : line2[i] = line[i]
      BY <1>13, <3>1, GrownFacts
    <3> SUFFICES ASSUME NEW i \in 1 .. Len(line2), line2[i].gen \in Peers, NEW e \in line2[i].evs
                 PROVE  e.seq <= Reach
      BY <1>2, <1>9, <1>15, <2>2, <3>1 DEF LineBound
    <3>3. CASE i \in 1 .. Len(line)
      BY <1>14, <3>2, <3>3 DEF KInv, LineBound
    <3>4. CASE i = Len(line) + 1
      <4>1. g \in Peers /\ e \in p.evs
        BY <1>13, <3>2, <3>4
      <4> QED BY <1>16, <4>1 DEF Own
    <3> QED BY <3>2, <3>3, <3>4
  <2> QED BY <2>1, <2>2
<1>20. PagesWhole'
  BY <1>1, <1>11 DEF KInv, PagesWhole
<1>21. FlowFits'
  <2> SUFFICES ASSUME Flowing' PROVE Flows(Page', Line', Peers', rd')
    BY DEF FlowFits
  <2>1. Flowing
    BY <1>1, <1>9, <1>10, <1>11 DEF Flowing
  <2>2. Flows(Page, line, Peers, rd)
    BY <1>14, <2>1 DEF KInv, FlowFits
  <2>3. PICK S, P, R, Q : S = Page /\ P = Peers /\ R = rd /\ Q = rd'
    OBVIOUS
  <2>4. \A h \in P : R[h].after \in Nat
    BY <1>0, <2>3, ReaderFacts
  <2>5. g \in P => /\ R[g].pc = "emit" /\ R[g].evs = x.evs /\ \A e \in x.evs : e.seq <= R[g].after
                   /\ Q[g].pc # "emit" /\ Q[g].after \in {0, R[g].after}
    BY <1>1, <1>4, <1>7, <1>8, <1>13, <1>16, <2>3 DEF Own
  <2>6. \A h \in P : h # g => Q[h] = R[h]
    BY <1>0, <1>8, <2>3
  <2>7. Flows(S, line, P, R) /\ g = x.gen
    BY <1>13, <2>2, <2>3
  <2>8. Flows(S, Append(line, x), P, Q)
    BY <1>13, <2>4, <2>5, <2>6, <2>7, FlowsPush
  <2>9. Line' = Append(line, x)
    BY <1>15, <2>1 DEF Flowing
  <2> QED BY <1>9, <1>11, <2>3, <2>8, <2>9
<1>22. EndFits'
  BY <1>1, <1>9, <1>10 DEF KInv, EndFits
<1> QED BY <1>17, <1>18, <1>19, <1>20, <1>21, <1>22 DEF KInv

(* The open session's call is the last one. *)
LEMMA LastCall ==
  ASSUME Typed, CallFits, calls # <<>>, Head(calls) = sse.id, calls' = Tail(calls)
  PROVE  calls' = <<>>
<1>1. /\ Len(calls) \in Nat \ {0} /\ Head(calls) = calls[1]
      /\ calls' \in Seq(Sessions) /\ Len(Tail(calls)) = Len(calls) - 1
  BY QueueFacts DEF Typed
<1>2. Len(calls) = 1
  <2> SUFFICES ASSUME Len(calls) # 1 PROVE FALSE
    OBVIOUS
  <2>1. 1 \in 1 .. Len(calls) /\ 2 \in 1 .. Len(calls) /\ 1 < 2
    BY <1>1
  <2>2. calls[1] < calls[2] /\ calls[2] <= sse.id
    BY <2>1 DEF CallFits
  <2>3. calls[1] \in Nat /\ calls[2] \in Nat
    BY <2>1, CallNumbers
  <2> QED BY <1>1, <2>2, <2>3
<1>3. Len(calls') = 0
  BY <1>1, <1>2
<1> QED BY <1>1, <1>3

(* The command ends. *)
LEMMA CommandFlow ==
  ASSUME StreamInv, StreamInv', KInv, Onward, calls # <<>>, calls' = Tail(calls),
         sse' = sse, inbox' = inbox, rd'[0] = Idle, NEW s, s = Head(calls),
         \A r \in Readers : r # 0 /\ r # s => rd'[r] = rd[r],
         Own(s) => Read(rd'[s], Reach', Over'),
         ~Open \/ s # sse.id => replies' = replies,
         replies' # <<>> => Whole(replies'[1].evs),
         Open /\ s = sse.id /\ Flowing' => Flows(Page', Line, Peers, rd')
  PROVE  KInv'
<1>0. Typed /\ CallFits /\ PhaseFits /\ Typed' /\ EInv' /\ 0 \in Readers
  BY PeerFacts DEF StreamInv, HostFits
<1>1. Peers' = Peers /\ Line' = Line /\ (Open' <=> Open) /\ (Listening' <=> Listening)
  BY PeersStay DEF Onward, Line, Open, Listening
<1>2. /\ s = sse.id => Called /\ ~Called'
      /\ s # sse.id => (Called' <=> Called)
      /\ s \in Readers /\ s # 0
  BY <1>0, CallLeaves
<1>3. PeerFits'
  <2>1. ASSUME Listening', ~Called' PROVE calls' = <<>>
    <3>1. CASE s = sse.id
      BY <1>0, <3>1, LastCall
    <3>2. CASE s # sse.id
      BY <1>1, <1>2, <2>1, <3>2 DEF KInv, PeerFits
    <3> QED BY <3>1, <3>2
  <2> QED BY <1>1, <2>1 DEF KInv, PeerFits, Onward
<1>4. PeersFit'
  <2> SUFFICES ASSUME NEW r \in Readers, Own(r)' PROVE Read(rd'[r], Reach', Over')
    BY DEF PeersFit
  <2>1. CASE r = 0
    <3>1. (EInv => Reach \in Nat)'
      BY ReachNat, PTL
    <3>2. 0 <= Reach'
      BY <1>0, <3>1
    <3> QED BY <2>1, <3>2, IdleFacts DEF Read
  <2>2. CASE r # 0
    <3>1. Own(r)
      BY <1>1, <2>2 DEF Own
    <3> QED BY <1>0, <2>2, <3>1, ReadStays DEF KInv
  <2> QED BY <2>1, <2>2
<1>5. LineBound'
  <2>1. PICK line : line = Line' /\ line = Line
    BY <1>1
  <2>2. \A i \in 1 .. Len(line) : \E j \in 1 .. Len(Line) : line[i] = Line[j]
    BY <2>1
  <2> QED BY <1>0, <1>1, <2>1, <2>2, BoundStays DEF KInv
<1>6. PagesWhole'
  BY IdleFacts DEF PagesWhole
<1>7. FlowFits'
  <2> SUFFICES ASSUME Flowing' PROVE Flows(Page', Line, Peers, rd')
    BY <1>1 DEF FlowFits
  <2>1. ~Paging' /\ Listening /\ Open
    BY <1>1, IdleFacts DEF Paging, Flowing, Listening, Open
  <2>2. CASE s = sse.id
    BY <2>1, <2>2
  <2>3. CASE s # sse.id
    <3>1. sse.phase = "live" \/ replies # <<>>
      BY <2>1, <2>3 DEF Flowing
    <3>2. ~Called
      BY <1>0, <2>1, <3>1 DEF PhaseFits, Listening
    <3> QED BY <2>1, <3>2 DEF KInv, PeerFits
  <2> QED BY <2>2, <2>3
<1>8. EndFits'
  BY <1>1 DEF KInv, EndFits
<1> QED BY <1>3, <1>4, <1>5, <1>6, <1>7, <1>8 DEF KInv

(* Its call has ended without a page. *)
LEMMA CmdFailedFlow ==
  ASSUME StreamInv, StreamInv', KInv, [Next]_vars, CmdFailed
  PROVE  KInv'
<1>0. /\ Typed /\ EInv /\ CallFits /\ PhaseFits /\ calls # <<>> /\ calls' = Tail(calls)
      /\ sse' = sse /\ inbox' = inbox /\ 0 \in Readers
      /\ rd' = [rd EXCEPT ![0] = Idle] /\ rd \in [Readers -> Reader] /\ UNCHANGED engine
  BY PeerFacts DEF StreamInv, HostFits, CmdFailed, CallFits, Typed
<1>1. rd'[0] = Idle /\ \A r \in Readers : r # 0 => rd'[r] = rd[r]
  BY <1>0
<1>2. Onward
  <2>1. turn' = turn /\ turn \in Nat
    BY <1>0, ChatBounds DEF engine, EInv, EngineTypeOK
  <2>2. ~NewTurn
    BY <2>1 DEF NewTurn, Reserve
  <2> QED BY <2>2, StepOnward DEF KInv
<1>3. PICK s : s = Head(calls)
  OBVIOUS
<1>4. s \in Readers /\ s # 0 /\ (s = sse.id => Called)
  BY <1>0, <1>3, CallLeaves
<1>5. PICK page : page = [gen |-> s, st |-> "failed", evs |-> {}]
  OBVIOUS
<1>6. replies' = IF Open /\ page.gen = sse.id THEN <<page>> ELSE replies
  BY <1>3, <1>5 DEF CmdFailed, Answer
<1>7. page.gen = s /\ page.st = "failed" /\ page.evs = {} /\ Whole(page.evs)
  BY <1>5 DEF Whole
<1>8. Own(s) => Read(rd'[s], Reach', Over')
  BY <1>0, <1>1, <1>2, <1>4, ReadStays DEF KInv
<1>9. replies' # <<>> => Whole(replies'[1].evs)
  <2>1. <<page>>[1] = page
    OBVIOUS
  <2> QED BY <1>6, <1>7, <2>1 DEF KInv, PagesWhole
<1>10. Open /\ s = sse.id => ~Flowing'
  <2> SUFFICES ASSUME Open, s = sse.id PROVE ~Flowing'
    OBVIOUS
  <2>1. replies'[1] = page
    BY <1>6, <1>7
  <2>2. sse.phase # "live" /\ rd'[0].pc # "got"
    BY <1>0, <1>1, <1>4, IdleFacts DEF PhaseFits
  <2> QED BY <1>0, <1>7, <2>1, <2>2 DEF Flowing, Paging
<1>11. ~Open \/ s # sse.id => replies' = replies
  BY <1>6, <1>7
<1> QED BY <1>0, <1>1, <1>2, <1>3, <1>8, <1>9, <1>10, <1>11, CommandFlow

(* The new poller starts where the page ends. *)
LEMMA CmdGotFlow ==
  ASSUME StreamInv, StreamInv', KInv, [Next]_vars, CmdGot
  PROVE  KInv'
<1>0. /\ Typed /\ EInv /\ CallFits /\ PhaseFits /\ rd[0].pc = "got" /\ calls # <<>> /\ calls' = Tail(calls)
      /\ sse' = sse /\ inbox' = inbox /\ 0 \in Readers /\ Peers \subseteq Readers /\ 0 \notin Peers
      /\ rd \in [Readers -> Reader] /\ UNCHANGED engine
  BY PeerFacts DEF StreamInv, HostFits, CmdGot, CallFits, Typed
<1>1. Onward
  <2>1. turn' = turn /\ turn \in Nat
    BY <1>0, ChatBounds DEF engine, EInv, EngineTypeOK
  <2>2. ~NewTurn
    BY <2>1 DEF NewTurn, Reserve
  <2> QED BY <2>2, StepOnward DEF KInv
<1>2. PICK s : s = Head(calls)
  OBVIOUS
<1>3. s \in Readers /\ s # 0 /\ (s = sse.id => Called)
  BY <1>0, <1>2, CallLeaves
<1>4. PICK p : p = rd[0]
  OBVIOUS
<1>5. p \in Reader /\ p.pc = "got" /\ p.evs \subseteq Event /\ p.st \in Statuses /\ p.after = 0
  BY <1>0, <1>4, ReaderFacts DEF CallFits
<1>6. PICK n : n = ResumeCursor(p.evs)
  OBVIOUS
<1>7. PICK q : q = [Idle EXCEPT !.pc = "check", !.after = n]
  OBVIOUS
<1>8. q.pc = "check" /\ q.after = n
  BY <1>7 DEF Idle
<1>9. rd' = [rd EXCEPT ![0] = Idle, ![s] = q]
  BY <1>2, <1>4, <1>6, <1>7 DEF CmdGot
<1>10. rd'[0] = Idle /\ rd'[s] = q /\ \A r \in Readers : r # 0 /\ r # s => rd'[r] = rd[r]
  BY <1>0, <1>3, <1>9
<1>11. PICK page : page = [gen |-> s, st |-> p.st, evs |-> p.evs]
  OBVIOUS
<1>12. replies' = IF Open /\ page.gen = sse.id THEN <<page>> ELSE replies
  BY <1>2, <1>4, <1>11 DEF CmdGot, Answer
<1>13. page.gen = s /\ page.st = p.st /\ page.evs = p.evs /\ Whole(p.evs) /\ <<page>>[1] = page
  BY <1>4, <1>5, <1>11 DEF KInv, PagesWhole
<1>14. n \in Nat /\ n = EndOf(p.evs, 0) /\ (p.evs = {} => n = 0) /\ (p.evs # {} => \E e \in p.evs : e.seq = n)
  <2>1. n = EndOf(p.evs, p.after)
    BY <1>5, <1>6 DEF ResumeCursor
  <2>2. n \in Nat /\ (p.evs = {} => n = p.after) /\ (p.evs # {} => \E e \in p.evs : e.seq = n)
    BY <1>5, <2>1, EndOfPage
  <2> QED BY <1>5, <2>1, <2>2
<1>15. ASSUME Own(s) PROVE Read(rd'[s], Reach', Over')
  <2>1. Own(0) /\ Peers # {}
    BY <1>0, <1>2, <1>3, <1>15 DEF Own
  <2>2. Read(p, Reach, Over)
    BY <1>0, <1>4, <2>1 DEF KInv, PeersFit
  <2>3. Reach \in Nat /\ Reach' \in Nat /\ Reach <= Reach'
    BY <1>1, <2>1 DEF Onward
  <2>4. n <= Reach
    BY <1>5, <1>14, <2>2, <2>3 DEF Read
  <2>5. n <= Reach'
    BY <1>14, <2>3, <2>4
  <2> QED BY <1>8, <1>10, <2>5 DEF Read
<1>16. replies' # <<>> => Whole(replies'[1].evs)
  BY <1>12, <1>13 DEF KInv, PagesWhole
<1>17. ~Open \/ s # sse.id => replies' = replies
  BY <1>12, <1>13
<1>18. ASSUME Open, s = sse.id, Flowing' PROVE Flows(Page', Line, Peers, rd')
  <2>1. replies' # <<>> /\ replies'[1] = page
    BY <1>12, <1>13, <1>18
  <2>2. ~Paging' /\ Page' = p.evs
    BY <1>10, <1>13, <2>1, IdleFacts DEF Paging, Page
  <2>3. sse.phase # "live" /\ Listening /\ Peers' = Peers /\ sse.heard \subseteq Peers
    <3>1. Peers' = Peers
      BY <1>0, <1>1, PeersStay DEF Onward
    <3> QED BY <1>0, <1>3, <1>18, <3>1 DEF PhaseFits, Flowing, Listening
  <2>4. ~HasFinal(p.evs)
    BY <1>0, <1>13, <1>18, <2>1, <2>2, <2>3 DEF Flowing
  <2>5. Paging /\ Page = p.evs /\ Flowing
    BY <1>0, <1>2, <1>4, <1>18, <2>3, <2>4 DEF Paging, Page, Flowing
  <2>6. PICK evs, P, line, R : evs = p.evs /\ P = Peers /\ line = Line /\ R = rd'
    OBVIOUS
  <2>7. Whole(evs) /\ Rests(evs, line, P) /\ \A g \in P : Behind(rd[g], Stock(evs, line, Len(line)))
    BY <2>5, <2>6 DEF KInv, FlowFits, Flows
  <2>8. ASSUME NEW g \in P PROVE Behind(R[g], Stock(evs, line, Len(line)))
    <3>1. CASE g # s
      BY <1>0, <1>10, <2>6, <2>7, <3>1
    <3>2. CASE g = s
      <4> SUFFICES ASSUME NEW k \in 1 .. n PROVE Covers(Stock(evs, line, Len(line)), k)
        BY <1>8, <1>10, <2>6, <3>2 DEF Behind
      <4>1. Covers(evs, k)
        BY <1>5, <1>14, <2>6, <2>7, WholeCovers
      <4>2. evs \subseteq Stock(evs, line, Len(line))
        BY DEF Stock
      <4> QED BY <4>1, <4>2, CoversMore
    <3> QED BY <3>1, <3>2
  <2>9. Flows(evs, line, P, R)
    BY <2>7, <2>8 DEF Flows
  <2> QED BY <2>2, <2>6, <2>9
<1> QED BY <1>0, <1>1, <1>2, <1>10, <1>15, <1>16, <1>17, <1>18, CommandFlow

(* A step of the webview stays within the turn. *)
LEMMA WebviewOnward ==
  ASSUME StreamInv, KInv, [Next]_vars, UNCHANGED engine
  PROVE  Onward
<1>1. turn' = turn /\ turn \in Nat
  BY ChatBounds DEF engine, StreamInv, EInv, EngineTypeOK
<1>2. ~NewTurn
  BY <1>1 DEF NewTurn, Reserve
<1> QED BY <1>2, StepOnward DEF KInv

(* The readers are as they were, and so are the peers. *)
LEMMA ReadersStay ==
  ASSUME StreamInv, KInv, Onward, sse'.id = sse.id, sse'.opened = sse.opened, calls' = calls, rd' = rd
  PROVE  PeersFit' /\ Peers' = Peers
<1>1. Peers' = Peers
  BY PeersStay DEF Onward
<1>2. PeersFit'
  <2> SUFFICES ASSUME NEW r \in Readers, Own(r)' PROVE Read(rd'[r], Reach', Over')
    BY DEF PeersFit
  <2>1. Own(r)
    BY <1>1 DEF Own
  <2> QED BY <2>1, ReadStays DEF KInv, StreamInv, HostFits
<1> QED BY <1>1, <1>2

(* A session that is closed behind this step. *)
LEMMA ShutFlow ==
  ASSUME StreamInv, StreamInv', KInv, Onward, sse'.id = sse.id, sse'.opened = sse.opened,
         calls' = calls, rd' = rd, replies' = <<>>, sse'.phase = "closed", EndFits'
  PROVE  KInv'
<1>1. PeersFit' /\ Peers' = Peers
  BY ReadersStay
<1>2. ~Open' /\ ~Listening'
  BY DEF Open, Listening
<1>3. PeerFits'
  BY <1>1, <1>2 DEF KInv, PeerFits, Onward
<1>4. LineBound'
  <2>1. inbox' = <<>> /\ sse'.held = <<>>
    BY <1>2 DEF StreamInv, HostFits, PhaseFits
  <2>2. Len(Line') = 0
    BY <2>1 DEF Line
  <2> QED BY <2>2 DEF LineBound
<1>5. PagesWhole' /\ FlowFits'
  BY <1>2 DEF KInv, PagesWhole, FlowFits, Flowing
<1> QED BY <1>1, <1>3, <1>4, <1>5 DEF KInv

(* A session that is live behind this step. *)
LEMMA LiveFlow ==
  ASSUME StreamInv, StreamInv', KInv, Onward, sse'.id = sse.id, sse'.opened = sse.opened,
         calls' = calls, rd' = rd, replies' = <<>>, Listening, ~Called, sse'.phase = "live",
         NEW y, y = inbox', \A i \in 1 .. Len(y) : \E j \in 1 .. Len(Line) : y[i] = Line[j],
         sse'.heard \subseteq Peers => Flows(ToSet(sse'.screen), y, Peers, rd)
  PROVE  KInv'
<1>0. Typed /\ y \in Seq(Push) /\ sse'.held = <<>>
  BY DEF StreamInv, HostFits, PhaseFits, Typed
<1>1. PeersFit' /\ Peers' = Peers
  BY ReadersStay
<1>2. Open' /\ Open /\ calls = <<>>
  BY DEF Open, Listening, KInv, PeerFits
<1>3. PeerFits'
  BY <1>1, <1>2 DEF KInv, PeerFits, Onward
<1>4. Line' = y
  BY <1>0 DEF Line
<1>5. LineBound'
  BY <1>0, <1>1, <1>4, BoundStays DEF KInv
<1>6. ~Paging' /\ Page' = ToSet(sse'.screen)
  BY <1>2 DEF Paging, Page
<1>7. PagesWhole'
  BY DEF KInv, PagesWhole
<1>8. FlowFits'
  BY <1>1, <1>4, <1>6 DEF FlowFits, Flowing
<1>9. EndFits'
  BY <1>2 DEF EndFits
<1> QED BY <1>1, <1>3, <1>5, <1>7, <1>8, <1>9 DEF KInv

(* A live session that has heard no stranger has a whole screen. *)
LEMMA LiveScreen ==
  ASSUME StreamInv, KInv, sse.phase = "live", sse.heard \subseteq Peers
  PROVE  Flows(ToSet(sse.screen), inbox, Peers, rd) /\ Line = inbox /\ Whole(ToSet(sse.screen))
<1>1. Typed /\ ~Called /\ replies = <<>> /\ sse.held = <<>> /\ inbox \in Seq(Push)
  BY DEF StreamInv, HostFits, PhaseFits, Typed
<1>2. ~Paging
  BY <1>1, PagingCalled
<1>3. Page = ToSet(sse.screen) /\ Line = inbox
  BY <1>1, <1>2 DEF Page, Line
<1>4. Flowing
  BY DEF Flowing, Listening
<1>5. Flows(ToSet(sse.screen), inbox, Peers, rd)
  BY <1>3, <1>4 DEF KInv, FlowFits
<1> QED BY <1>3, <1>5 DEF Flows

(* The person leaves. *)
LEMMA CloseFlow ==
  ASSUME StreamInv, StreamInv', KInv, [Next]_vars, Close
  PROVE  KInv'
<1>1. /\ sse' = Closed(sse, "abort") /\ replies' = <<>> /\ sse \in Session /\ Open
      /\ UNCHANGED engine /\ rd' = rd /\ calls' = calls
  BY DEF Close, Becomes, StreamInv, HostFits, Typed
<1>2. sse'.phase = "closed" /\ sse'.screen = sse.screen /\ sse'.heard = sse.heard
      /\ sse'.id = sse.id /\ sse'.opened = sse.opened
  BY <1>1, ClosedFacts
<1>3. Onward
  BY <1>1, WebviewOnward
<1>4. Peers' = Peers
  BY <1>2, <1>3, PeersStay DEF Onward
<1>5. EndFits'
  <2> SUFFICES ASSUME sse.id \in sse.heard, sse.heard \subseteq Peers PROVE Whole(ToSet(sse.screen))
    BY <1>2, <1>4 DEF EndFits
  <2>1. sse.phase = "live"
    <3>1. sse.phase \in {"connecting", "waiting", "live"}
      BY <1>1 DEF Open, Session
    <3> QED BY <3>1 DEF StreamInv, HostFits, PhaseFits
  <2> QED BY <2>1, LiveScreen
<1> QED BY <1>1, <1>2, <1>3, <1>5, ShutFlow

(* The host glue does not load. *)
LEMMA ListenFailsFlow ==
  ASSUME StreamInv, StreamInv', KInv, [Next]_vars, ListenFails
  PROVE  KInv'
<1>1. /\ sse' = Closed(sse, "error") /\ replies' = <<>> /\ sse \in Session /\ sse.heard = {}
      /\ UNCHANGED engine /\ rd' = rd /\ calls' = calls
  BY DEF ListenFails, StreamInv, HostFits, Typed, PhaseFits
<1>2. sse'.phase = "closed" /\ sse'.heard = {} /\ sse'.id = sse.id /\ sse'.opened = sse.opened
  BY <1>1, ClosedFacts
<1>3. Onward
  BY <1>1, WebviewOnward
<1>4. EndFits'
  BY <1>2 DEF EndFits
<1> QED BY <1>1, <1>2, <1>3, <1>4, ShutFlow

(* A new session is a peer. *)
LEMMA ConnectFlow ==
  ASSUME StreamInv, StreamInv', KInv, [Next]_vars, Connect
  PROVE  KInv'
<1>0. /\ Typed /\ CallFits /\ EInv' /\ sse \in Session /\ ~Open /\ UNCHANGED engine /\ rd' = rd /\ calls' = calls
      /\ replies' = <<>> /\ inbox' = <<>> /\ row # NoRow /\ worker # "open" /\ turn' = turn
      /\ calls \in Seq(Sessions) /\ 0 \in Readers /\ Sessions \subseteq Readers
  BY PeerFacts DEF Connect, StreamInv, HostFits, PhaseFits, Typed, engine, Open, Listening
<1>1. PICK k \in Nat : k = sse.id
  BY <1>0, StreamBounds DEF Session
<1>2. k + 1 \in Sessions /\ k + 1 # 0
  BY <1>1, StreamBounds DEF Connect, Sessions
<1>3. sse.opened \in [Sessions -> 0 .. MaxTurns] /\ turn \in Nat
  BY <1>0, ChatBounds DEF Session, StreamInv, EInv, EngineTypeOK
<1>4. PICK o : o = [sse.opened EXCEPT ![k + 1] = turn]
  OBVIOUS
<1>5. o[k + 1] = turn /\ \A g \in Sessions : g # k + 1 => o[g] = sse.opened[g]
  BY <1>2, <1>3, <1>4
<1>6. sse' = [NoSession EXCEPT !.id = k + 1, !.phase = "connecting", !.opened = o]
  BY <1>1, <1>4 DEF Connect
<1>7. sse'.id = k + 1 /\ sse'.phase = "connecting" /\ sse'.opened = o /\ sse'.held = <<>>
  BY <1>6 DEF NoSession
<1>8. Open' /\ ~Listening'
  BY <1>7 DEF Open, Listening
<1>9. \A g : g \in Peers' <=> g \in Peers \/ g = k + 1
  <2>1. \A g \in 1 .. k + 1 : g \in Sessions
    BY <1>1, <1>2, StreamBounds DEF Sessions
  <2>2. \A g : g \in 1 .. k + 1 <=> g \in 1 .. k \/ g = k + 1
    OBVIOUS
  <2>3. \A g \in 1 .. k : g # k + 1 /\ g \in 1 .. k + 1
    OBVIOUS
  <2>4. \A g \in 1 .. k : o[g] = sse.opened[g]
    BY <1>5, <2>1, <2>3
  <2>5. k + 1 \in 1 .. k + 1
    OBVIOUS
  <2>6. Peers' = {g \in 1 .. k + 1 : o[g] = turn} /\ Peers = {g \in 1 .. k : sse.opened[g] = turn}
    BY <1>0, <1>1, <1>7 DEF Peers
  <2> QED BY <1>5, <2>2, <2>4, <2>5, <2>6
<1>10. PeerFits'
  <2>1. row' # NoRow /\ worker' # "open"
    BY <1>0 DEF engine
  <2>2. \A g \in Sessions : o[g] <= turn
    BY <1>3, <1>5 DEF KInv, PeerFits
  <2> QED BY <1>0, <1>5, <1>7, <1>8, <2>1, <2>2 DEF PeerFits
<1>11. PeersFit'
  <2> SUFFICES ASSUME NEW r \in Readers, Own(r)' PROVE Read(rd'[r], Reach', Over')
    BY DEF PeersFit
  <2>1. CASE Own(r)
    <3>1. Onward
      BY <1>0, WebviewOnward
    <3> QED BY <1>0, <2>1, <3>1, ReadStays DEF KInv
  <2>2. CASE ~Own(r)
    <3>1. r = k + 1
      <4>1. CASE r = 0 /\ r \notin Peers'
        <5>1. calls # <<>> /\ Head(calls) \in Peers'
          BY <1>0, <4>1 DEF Own
        <5>2. Head(calls) \in Nat /\ Head(calls) <= k
          <6>1. 1 \in 1 .. Len(calls) /\ Head(calls) = calls[1]
            BY <1>0, <5>1, QueueFacts
          <6> QED BY <1>0, <1>1, <6>1, CallNumbers DEF CallFits
        <5>3. Head(calls) # k + 1
          BY <1>1, <5>2
        <5> QED BY <1>9, <2>2, <4>1, <5>1, <5>3 DEF Own
      <4>2. CASE r \in Peers'
        BY <1>9, <2>2, <4>2 DEF Own
      <4> QED BY <4>1, <4>2 DEF Own
    <3>2. k + 1 > sse.id
      BY <1>1
    <3>3. rd'[r] = Idle
      BY <1>0, <1>2, <3>1, <3>2 DEF CallFits
    <3>4. (EInv => Reach \in Nat)'
      BY ReachNat, PTL
    <3>5. 0 <= Reach'
      BY <1>0, <3>4
    <3> QED BY <3>3, <3>5, IdleFacts DEF Read
  <2> QED BY <2>1, <2>2
<1>12. LineBound'
  <2>1. Len(Line') = 0
    BY <1>0, <1>7 DEF Line
  <2> QED BY <2>1 DEF LineBound
<1>13. PagesWhole' /\ FlowFits' /\ EndFits'
  BY <1>0, <1>8 DEF KInv, PagesWhole, FlowFits, Flowing, EndFits
<1> QED BY <1>10, <1>11, <1>12, <1>13 DEF KInv

(* It subscribes and calls. *)
LEMMA ListenFlow ==
  ASSUME StreamInv, StreamInv', KInv, [Next]_vars, Listen
  PROVE  KInv'
<1>0. /\ Open /\ sse.phase = "connecting" /\ calls' = Append(calls, sse.id) /\ rd' = rd
      /\ replies' = <<>> /\ inbox' = <<>> /\ sse.held = <<>> /\ ~Called /\ CallFits
      /\ Typed /\ EInv' /\ sse \in Session /\ calls \in Seq(Sessions) /\ UNCHANGED engine
  BY DEF Open, Listen, StreamInv, HostFits, PhaseFits, Typed, Listening
<1>1. sse.id \in Sessions
  BY <1>0, OwnReader
<1>2. sse' = [sse EXCEPT !.phase = "waiting"]
  BY DEF Listen
<1>3. /\ sse'.id = sse.id /\ sse'.phase = "waiting" /\ sse'.held = <<>> /\ sse'.opened = sse.opened
  BY <1>0, <1>2 DEF Session
<1>4. Onward
  BY <1>0, WebviewOnward
<1>5. Peers' = Peers /\ Open'
  BY <1>3, <1>4, PeersStay DEF Onward, Open
<1>6. Called'
  <2>1. Len(calls') \in 1 .. Len(calls') /\ calls'[Len(calls')] = sse.id
    BY <1>0, <1>1
  <2> QED BY <1>3, <2>1 DEF Called
<1>7. calls # <<>> => Head(calls') = Head(calls) /\ Head(calls) # sse.id
  BY <1>0, <1>1, HeadCalled
<1>8. calls = <<>> => rd'[0].pc = "off" /\ rd'[0].after = 0
  BY <1>0 DEF CallFits
<1>9. PeerFits'
  BY <1>0, <1>3, <1>4, <1>5, <1>6 DEF KInv, PeerFits, Onward
<1>10. PeersFit'
  <2> SUFFICES ASSUME NEW r \in Readers, Own(r)' PROVE Read(rd'[r], Reach', Over')
    BY DEF PeersFit
  <2>1. CASE Own(r)
    BY <1>0, <1>4, <2>1, ReadStays DEF KInv
  <2>2. CASE ~Own(r)
    <3>1. r = 0 /\ calls = <<>>
      BY <1>5, <1>7, <2>2 DEF Own
    <3>2. (EInv => Reach \in Nat)'
      BY ReachNat, PTL
    <3>3. 0 <= Reach'
      BY <1>0, <3>2
    <3> QED BY <1>8, <3>1, <3>3 DEF Read
  <2> QED BY <2>1, <2>2
<1>11. LineBound'
  <2>1. Len(Line') = 0
    BY <1>0, <1>3 DEF Line
  <2> QED BY <2>1 DEF LineBound
<1>12. PagesWhole'
  BY <1>0 DEF KInv, PagesWhole
<1>13. FlowFits'
  <2>1. ~Paging'
    BY <1>3, <1>7, <1>8 DEF Paging
  <2>2. ~Flowing'
    BY <1>0, <1>3, <2>1 DEF Flowing
  <2> QED BY <2>2 DEF FlowFits
<1>14. EndFits'
  BY <1>5 DEF EndFits
<1> QED BY <1>9, <1>10, <1>11, <1>12, <1>13, <1>14 DEF KInv

(* A push reaches a session that waits: it is held. *)
LEMMA HoldFlow ==
  ASSUME StreamInv, StreamInv', KInv, [Next]_vars, Receive, sse.phase = "waiting"
  PROVE  KInv'
<1>0. /\ Typed /\ inbox # <<>> /\ sse \in Session /\ rd' = rd /\ calls' = calls
      /\ replies' = replies /\ UNCHANGED engine
  BY DEF StreamInv, HostFits, Typed, Receive
<1>1. sse.held \in Seq(Push) /\ inbox \in Seq(Push)
  BY <1>0, LineTyped
<1>2. PICK h : h = Append(sse.held, Head(inbox))
  OBVIOUS
<1>3. sse' = [sse EXCEPT !.held = h]
  BY <1>2 DEF Receive, Becomes
<1>4. /\ sse'.held = h /\ sse'.phase = sse.phase /\ sse'.id = sse.id /\ sse'.opened = sse.opened
      /\ sse'.screen = sse.screen /\ sse'.heard = sse.heard
  BY <1>0, <1>3 DEF Session
<1>5. inbox' = Tail(inbox)
  BY <1>4 DEF Receive, Becomes
<1>6. Line' = Line
  BY <1>0, <1>1, <1>2, <1>4, <1>5, LineMoves DEF Line
<1>7. Onward
  BY <1>0, WebviewOnward
<1>8. PeersFit' /\ Peers' = Peers
  BY <1>0, <1>4, <1>7, ReadersStay
<1>9. (Open' <=> Open) /\ (Listening' <=> Listening) /\ (Called' <=> Called)
  BY <1>0, <1>4 DEF Open, Listening, Called
<1>10. PeerFits'
  BY <1>0, <1>4, <1>7, <1>8, <1>9 DEF KInv, PeerFits, Onward
<1>11. LineBound'
  <2>1. PICK line : line = Line' /\ line = Line
    BY <1>6
  <2>2. \A i \in 1 .. Len(line) : \E j \in 1 .. Len(Line) : line[i] = Line[j]
    BY <2>1
  <2> QED BY <1>0, <1>7, <1>8, <2>1, <2>2, BoundStays DEF KInv
<1>12. PagesWhole'
  BY <1>0 DEF KInv, PagesWhole
<1>13. FlowFits'
  <2>1. (Paging' <=> Paging) /\ Page' = Page
    BY <1>0, <1>4 DEF Paging, Page
  <2>2. Flowing' => Flowing
    BY <1>0, <1>4, <1>8, <1>9, <2>1 DEF Flowing
  <2> QED BY <1>0, <1>6, <1>8, <2>1, <2>2 DEF KInv, FlowFits
<1>14. EndFits'
  BY <1>4, <1>8, <1>9 DEF KInv, EndFits
<1> QED BY <1>8, <1>10, <1>11, <1>12, <1>13, <1>14 DEF KInv

(* A push reaches a live session: it is delivered. *)
LEMMA DeliverFlow ==
  ASSUME StreamInv, StreamInv', KInv, [Next]_vars, Receive, sse.phase = "live"
  PROVE  KInv'
<1>0. /\ Typed /\ Sorts /\ inbox # <<>> /\ sse \in Session /\ rd' = rd /\ calls' = calls
      /\ inbox \in Seq(Push) /\ Listening /\ UNCHANGED engine
      /\ replies' = <<>> /\ ~Called /\ sse.held = <<>>
  BY DEF StreamInv, HostFits, Typed, Receive, PhaseFits, Listening
<1>1. PICK push : push = Head(inbox)
  OBVIOUS
<1>2. push \in Push /\ Sortable(push.evs)
  BY <1>0, <1>1, MailFacts
<1>3. PICK d : d = sse'
  OBVIOUS
<1>4. d = Deliver(sse, push) /\ (d.phase # "closed" => inbox' = Tail(inbox))
  BY <1>1, <1>3 DEF Receive, Becomes
<1>5. d \in Session /\ d.id = sse.id /\ d.opened = sse.opened /\ Takes(sse, push, d)
  BY <1>0, <1>2, <1>4, DeliverFacts
<1>6. Onward
  BY <1>0, WebviewOnward
<1>7. Peers' = Peers
  BY <1>3, <1>5, <1>6, PeersStay DEF Onward
<1>8. PICK P, line, R : P = Peers /\ line = inbox /\ R = rd
  OBVIOUS
<1>9. PICK S : S = ToSet(sse.screen)
  OBVIOUS
<1>10. PICK D : D = ToSet(d.screen)
  OBVIOUS
<1>11. line \in Seq(Push) /\ Len(line) \in Nat \ {0} /\ line[1] = push /\ Line = line
  BY <1>0, <1>1, <1>8, QueueFacts DEF Line
<1>12. ASSUME d.heard \subseteq P
       PROVE  /\ Flows(S, line, P, R) /\ Whole(D)
              /\ \A k \in Nat : Covers(Stock(S, line, 1), k) => Covers(D, k)
  <2>1. sse.heard \subseteq P /\ push.gen \in P
    BY <1>5, <1>12 DEF Takes
  <2>2. Flows(S, line, P, R)
    BY <1>8, <1>9, <2>1, LiveScreen
  <2>3. Stock(S, line, 0) = S /\ Stock(S, line, 1) = S \cup push.evs
    <3>1. 1 \in Nat \ {0} /\ 1 - 1 = 0
      OBVIOUS
    <3>2. Stock(S, line, 0) = S /\ Stock(S, line, 1) = Stock(S, line, 1 - 1) \cup line[1].evs
      BY <3>1, StockFacts
    <3> QED BY <1>11, <3>1, <3>2
  <2>4. Whole(S) /\ Grounded(push.evs, S)
    <3>1. 1 \in 1 .. Len(line) /\ 1 - 1 = 0
      BY <1>11
    <3> QED BY <1>11, <2>1, <2>2, <2>3, <3>1 DEF Flows, Rests
  <2>5. Whole(D) /\ \A k \in Nat : Covers(S \cup push.evs, k) => Covers(D, k)
    <3>1. Whole(ToSet(sse.screen)) /\ Grounded(push.evs, ToSet(sse.screen)) /\ sse.phase # "closed"
      BY <1>9, <2>4
    <3>2. /\ Whole(ToSet(d.screen))
          /\ \A k \in Nat : Covers(ToSet(sse.screen) \cup push.evs, k) => Covers(ToSet(d.screen), k)
      BY <1>0, <1>2, <1>4, <3>1, DeliverCovers
    <3> QED BY <1>9, <1>10, <3>2
  <2> QED BY <2>2, <2>3, <2>5
<1>13. CASE d.phase = "closed"
  <2>1. EndFits'
    BY <1>3, <1>7, <1>8, <1>10, <1>12 DEF EndFits
  <2> QED BY <1>0, <1>3, <1>5, <1>6, <1>13, <2>1, ShutFlow
<1>14. CASE d.phase # "closed"
  <2>1. d.phase = "live"
    BY <1>5, <1>14 DEF Takes
  <2>2. PICK y : y = inbox' /\ y = Tail(line)
    BY <1>4, <1>8, <1>14
  <2>3. y \in Seq(Push) /\ Len(y) = Len(line) - 1 /\ \A i \in 1 .. Len(line) - 1 : y[i] = line[i + 1]
    BY <1>0, <1>8, <2>2, QueueFacts
  <2>4. Leftover(line, 1, y) /\ 1 \in 0 .. Len(line)
    BY <1>11, <2>3 DEF Leftover
  <2>5. \A i \in 1 .. Len(y) : \E j \in 1 .. Len(Line) : y[i] = Line[j]
    <3> SUFFICES ASSUME NEW i \in 1 .. Len(y) PROVE \E j \in 1 .. Len(line) : y[i] = line[j]
      BY <1>11
    <3>1. i + 1 \in 1 .. Len(line) /\ y[i] = line[i + 1]
      BY <1>11, <2>3
    <3> QED BY <3>1
  <2>6. ASSUME d.heard \subseteq P PROVE Flows(D, y, P, R)
    <3>1. \A g \in P : R[g].after \in Nat
      BY <1>0, <1>8, PeerFacts, ReaderFacts
    <3>2. /\ Flows(S, line, P, R) /\ Whole(D)
          /\ \A k \in Nat : Covers(Stock(S, line, 1), k) => Covers(D, k)
      BY <1>12, <2>6
    <3> QED BY <1>11, <2>3, <2>4, <3>1, <3>2, FlowsTake
  <2>7. sse'.heard \subseteq Peers => Flows(ToSet(sse'.screen), y, Peers, rd)
    BY <1>3, <1>8, <1>10, <2>6
  <2> QED BY <1>0, <1>3, <1>5, <1>6, <2>1, <2>2, <2>5, <2>7, LiveFlow
<1> QED BY <1>13, <1>14

(* The answer is a failure: the session has not heard its own poller. *)
LEMMA RejectedFlow ==
  ASSUME StreamInv, StreamInv', LInv, KInv, [Next]_vars, Attached, replies[1].st = "failed"
  PROVE  KInv'
<1>0. /\ replies # <<>> /\ replies' = <<>> /\ HostFits /\ rd' = rd /\ calls' = calls /\ UNCHANGED engine
  BY DEF Attached, StreamInv
<1>1. /\ sse.phase = "waiting" /\ sse \in Session /\ sse.end = "none" /\ Open
      /\ sse.heard = {} /\ Head(replies) = replies[1]
      /\ \A i \in 1 .. Len(sse.held) : Sortable(sse.held[i].evs)
  BY <1>0, AnswerFacts DEF Open
<1>2. PICK s : s = sse.id
  OBVIOUS
<1>3. \A i \in 1 .. Len(Line) : Line[i].gen # s
  BY <1>0, <1>1, <1>2 DEF LInv, UnheardFits, Unheard
<1>4. PICK x \in Seq(Push), y \in Seq(Push) : x = sse.held /\ y = inbox /\ Line = x \o y
  BY <1>0, LineTyped DEF HostFits, Line
<1>5. \A i \in 1 .. Len(x) : x[i].gen # s
  <2> SUFFICES ASSUME NEW i \in 1 .. Len(x) PROVE x[i].gen # s
    OBVIOUS
  <2>1. Len(x) \in Nat /\ Len(y) \in Nat /\ Len(Line) = Len(x) + Len(y) /\ Line[i] = x[i]
    BY <1>4, BehindFacts
  <2>2. i \in 1 .. Len(Line)
    BY <2>1
  <2> QED BY <1>3, <2>1, <2>2
<1>6. PICK d : d = Release(sse)
  OBVIOUS
<1>7. Loose(sse, d) /\ d \in Session /\ d.id = s /\ d.opened = sse.opened
  BY <1>1, <1>2, <1>6, ReleaseLeaves DEF Loose
<1>8. s \notin d.heard
  <2>1. \A j \in 1 .. Len(sse.held) : Sortable(sse.held[j].evs) /\ sse.held[j].gen # s
    BY <1>1, <1>4, <1>5
  <2>2. s \notin sse.heard /\ sse.phase # "closed"
    BY <1>1
  <2> QED BY <1>1, <1>6, <2>1, <2>2, ReleaseHears
<1>9. sse' = IF d.phase = "closed" THEN d ELSE Closed(d, "error")
  BY <1>1, <1>6 DEF Attached, Becomes
<1>10. sse'.phase = "closed" /\ sse'.heard = d.heard /\ sse'.id = s /\ sse'.opened = sse.opened
  <2>1. PICK z : z = Closed(d, "error")
    OBVIOUS
  <2>2. z.phase = "closed" /\ z.heard = d.heard /\ z.id = d.id /\ z.opened = d.opened
    BY <1>7, <2>1, ClosedFacts
  <2> QED BY <1>7, <1>9, <2>1, <2>2
<1>11. EndFits'
  BY <1>8, <1>10 DEF EndFits
<1>12. Onward
  BY <1>0, WebviewOnward
<1> QED BY <1>0, <1>2, <1>10, <1>11, <1>12, ShutFlow

(* The held part of a line rests on the page as the line does. *)
LEMMA HeldRests ==
  ASSUME NEW x \in Seq(Push), NEW y \in Seq(Push), NEW line, line = x \o y, NEW S, NEW P, Rests(S, line, P)
  PROVE  Rests(S, x, P) /\ Stock(S, x, Len(x)) = Stock(S, line, Len(x))
<1>1. PICK N \in Nat : N = Len(x)
  OBVIOUS
<1>2. N <= Len(line) /\ Len(line) \in Nat /\ \A i \in 1 .. N : line[i] = x[i]
  BY <1>1, BehindFacts
<1>3. ASSUME NEW j \in 0 .. N PROVE Stock(S, x, j) = Stock(S, line, j)
  <2>1. \A m \in 1 .. j : line[m] = x[m]
    BY <1>2
  <2> QED BY <2>1 DEF Stock
<1>4. Rests(S, x, P)
  <2> SUFFICES ASSUME NEW i \in 1 .. N, x[i].gen \in P PROVE Grounded(x[i].evs, Stock(S, x, i - 1))
    BY <1>1 DEF Rests
  <2>1. i \in 1 .. Len(line) /\ line[i] = x[i] /\ i - 1 \in 0 .. N
    BY <1>2
  <2>2. Grounded(line[i].evs, Stock(S, line, i - 1))
    BY <2>1 DEF Rests
  <2> QED BY <1>3, <2>1, <2>2
<1>5. N \in 0 .. N
  OBVIOUS
<1> QED BY <1>1, <1>3, <1>4, <1>5

(* The answer is a page. *)
LEMMA PageFlow ==
  ASSUME StreamInv, StreamInv', KInv, [Next]_vars, Attached, replies[1].st # "failed"
  PROVE  KInv'
<1>0. /\ replies # <<>> /\ replies' = <<>> /\ HostFits /\ Typed /\ rd' = rd /\ calls' = calls
      /\ UNCHANGED engine
  BY DEF Attached, StreamInv, HostFits
<1>a. PICK page : page = replies[1]
  OBVIOUS
<1>b. PICK s : s = sse.id
  OBVIOUS
<1>1. /\ sse.phase = "waiting" /\ sse \in Session /\ sse.end = "none" /\ Listening /\ ~Called
      /\ sse.screen = <<>> /\ sse.heard = {} /\ Head(replies) = page /\ page \in Push
      /\ page.gen = s /\ Sortable(page.evs)
      /\ \A i \in 1 .. Len(sse.held) : Sortable(sse.held[i].evs)
  BY <1>0, <1>a, <1>b, AnswerFacts DEF Listening
<1>2. Onward
  BY <1>0, WebviewOnward
<1>3. PICK d : d = Deliver(sse, page)
  OBVIOUS
<1>4. d \in Session /\ d.id = s /\ d.opened = sse.opened /\ Takes(sse, page, d)
  BY <1>1, <1>3, <1>b, DeliverFacts
<1>5. sse' = Release(d) /\ (sse'.phase # "closed" => inbox' = inbox)
  BY <1>1, <1>3, <1>a DEF Attached, Becomes
<1>6. ToSet(d.screen) = page.evs /\ Shown(sse, page) = page.evs
  <2>1. ToSet(sse.screen) = {}
    BY <1>1 DEF ToSet
  <2>2. ToSet(d.screen) = ToSet(sse.screen) \cup {e \in page.evs : \A z \in ToSet(sse.screen) : z.seq # e.seq}
    BY <1>1, <1>3, DeliverShows
  <2>3. Len(sse.screen) = 0
    BY <1>1
  <2>4. Fresh(sse, page) = page.evs
    BY <2>3 DEF Fresh
  <2> QED BY <1>1, <2>1, <2>2, <2>4 DEF Shown, Sortable
<1>7. Whole(page.evs)
  BY <1>0, <1>a DEF KInv, PagesWhole
<1>8. CASE d.phase = "closed"
  <2>1. d.held = <<>>
    BY <1>4, <1>8 DEF Takes
  <2>2. sse' = d
    BY <1>4, <1>5, <1>8, <2>1, ReleaseClosed
  <2>3. EndFits'
    BY <1>6, <1>7, <2>2 DEF EndFits
  <2> QED BY <1>0, <1>2, <1>4, <1>8, <1>b, <2>2, <2>3, ShutFlow
<1>9. CASE d.phase # "closed"
  <2>0. PICK x \in Seq(Push), y \in Seq(Push) : x = sse.held /\ y = inbox
    BY <1>0, LineTyped
  <2>1. PICK line : line = x \o y /\ line = Line
    BY <2>0 DEF Line
  <2>2. d.held = x /\ d.end = "none" /\ ~HasFinal(page.evs)
    BY <1>1, <1>4, <1>6, <1>9, <2>0 DEF Takes
  <2>3. PICK S, P, R : S = page.evs /\ P = Peers /\ R = rd
    OBVIOUS
  <2>4. Flows(S, line, P, R)
    <3>1. ~Paging
      BY <1>0, <1>1, PagingCalled
    <3>2. Page = page.evs
      BY <1>0, <1>a, <3>1 DEF Page
    <3>3. Flowing
      BY <1>0, <1>1, <1>a, <2>2 DEF Flowing
    <3> QED BY <2>1, <2>3, <3>2, <3>3 DEF KInv, FlowFits
  <2>5. Rests(S, x, P) /\ Stock(S, x, Len(x)) = Stock(S, line, Len(x))
    <3>1. Rests(S, line, P)
      BY <2>4 DEF Flows
    <3> QED BY <2>1, <3>1, HeldRests
  <2>6. \A i \in 1 .. Len(d.held) : Sortable(d.held[i].evs)
    BY <1>1, <2>0, <2>2
  <2>7. PICK z : z = sse'
    OBVIOUS
  <2>8. Loose(d, z)
    BY <1>4, <1>5, <1>9, <2>2, <2>6, <2>7, ReleaseLeaves
  <2>9. Kept(d, z, P, Len(x))
    <3>1. Whole(ToSet(d.screen)) /\ Rests(ToSet(d.screen), d.held, P)
      BY <1>6, <1>7, <2>2, <2>3, <2>5
    <3>2. Kept(d, Release(d), P, Len(d.held))
      BY <1>4, <1>9, <2>2, <2>6, <3>1, ReleaseKept
    <3> QED BY <1>5, <2>2, <2>7, <3>2
  <2>10. z.id = s /\ z.opened = sse.opened /\ z.phase \in {"live", "closed"}
    BY <1>4, <2>8 DEF Loose
  <2>11. PICK D : D = ToSet(z.screen)
    OBVIOUS
  <2>12. z.heard \subseteq P =>
           /\ Whole(D)
           /\ z.phase = "live" => \A k \in Nat : Covers(Stock(S, line, Len(x)), k) => Covers(D, k)
    BY <1>6, <2>2, <2>3, <2>5, <2>9, <2>11 DEF Kept
  <2>13. CASE z.phase = "closed"
    <3>1. Peers' = Peers
      BY <1>2, <1>b, <2>7, <2>10, PeersStay DEF Onward
    <3>2. EndFits'
      BY <2>3, <2>7, <2>11, <2>12, <3>1 DEF EndFits
    <3> QED BY <1>0, <1>2, <1>b, <2>7, <2>10, <2>13, <3>2, ShutFlow
  <2>14. CASE z.phase = "live"
    <3>1. y = inbox'
      BY <1>5, <2>0, <2>7, <2>14
    <3>2. Leftover(line, Len(x), y) /\ Len(x) \in 0 .. Len(line) /\ Len(line) \in Nat
      BY <2>1, LineRest
    <3>3. \A i \in 1 .. Len(y) : \E j \in 1 .. Len(Line) : y[i] = Line[j]
      <4>1. PICK n \in Nat, N \in Nat : n = Len(x) /\ N = Len(line) /\ n <= N
        BY <3>2
      <4>2. Len(y) = N - n /\ \A i \in 1 .. N - n : y[i] = line[n + i]
        BY <3>2, <4>1 DEF Leftover
      <4>3. \A i \in 1 .. N - n : n + i \in 1 .. N
        BY <4>1
      <4> QED BY <2>1, <4>1, <4>2, <4>3
    <3>4. ASSUME z.heard \subseteq P PROVE Flows(D, y, P, R)
      <4>1. \A g \in P : R[g].after \in Nat
        BY <1>0, <2>3, PeerFacts, ReaderFacts
      <4>2. Whole(D) /\ \A k \in Nat : Covers(Stock(S, line, Len(x)), k) => Covers(D, k)
        BY <2>12, <2>14, <3>4
      <4>3. line \in Seq(Push)
        BY <2>1, BehindFacts
      <4>4. PICK n \in 0 .. Len(line) : n = Len(x)
        BY <3>2
      <4>5. Leftover(line, n, y) /\ \A k \in Nat : Covers(Stock(S, line, n), k) => Covers(D, k)
        BY <3>2, <4>2, <4>4
      <4> QED BY <2>4, <4>1, <4>2, <4>3, <4>5, FlowsTake
    <3>5. sse'.heard \subseteq Peers => Flows(ToSet(sse'.screen), y, Peers, rd)
      BY <2>3, <2>7, <2>11, <3>4
    <3> QED BY <1>0, <1>1, <1>2, <1>b, <2>7, <2>10, <2>14, <3>1, <3>3, <3>5, LiveFlow
  <2> QED BY <2>10, <2>13, <2>14
<1> QED BY <1>8, <1>9

(* KInv is inductive on top of StreamInv and LInv. *)
LEMMA FlowStep == StreamInv /\ StreamInv' /\ LInv /\ KInv /\ [Next]_vars => KInv'
<1> SUFFICES ASSUME StreamInv, StreamInv', LInv, KInv, [Next]_vars PROVE KInv'
  OBVIOUS
<1>1. 0 \in Readers /\ Sessions \subseteq Readers
  BY StreamBounds DEF Readers, Sessions
<1>2. CASE NewTurn \/ TurnThread \/ EngineRest
  BY <1>2, EngineFlow DEF NewTurn, TurnThread, EngineRest
<1>3. CASE EngineDies
  BY <1>3, DiesFlow
<1>4. CASE Connect
  BY <1>4, ConnectFlow
<1>5. CASE Close
  BY <1>5, CloseFlow
<1>6. CASE Command
  BY <1>1, <1>6, CmdStartFlow, CmdGotFlow, CmdFailedFlow, ServeFlow DEF Command
<1>7. CASE Listen \/ ListenFails
  BY <1>7, ListenFlow, ListenFailsFlow
<1>8. CASE Receive
  BY <1>8, HoldFlow, DeliverFlow DEF Receive, Listening
<1>9. CASE Attached
  BY <1>9, PageFlow, RejectedFlow
<1>10. ASSUME NEW g \in Sessions, Poller(g) PROVE KInv'
  BY <1>1, <1>10, PollFlow, EmitFlow, ServeFlow DEF Poller
<1>11. CASE UNCHANGED vars
  BY <1>11, EngineFlow DEF vars
<1> QED BY <1>2, <1>3, <1>4, <1>5, <1>6, <1>7, <1>8, <1>9, <1>10, <1>11 DEF Next, Webview

(* It holds at first. *)
LEMMA FlowInit == Init => KInv
<1> SUFFICES ASSUME Init PROVE KInv
  OBVIOUS
<1>1. /\ sse = NoSession /\ replies = <<>> /\ inbox = <<>> /\ calls = <<>>
      /\ rd = [r \in Readers |-> Idle] /\ turn \in Nat /\ 0 \in Readers
  BY StreamBounds DEF Init, EngineInit, Readers
<1>2. /\ sse.phase = "closed" /\ sse.id = 0 /\ sse.held = <<>> /\ sse.heard = {}
      /\ \A g \in Sessions : sse.opened[g] = 0
  BY <1>1 DEF NoSession
<1>3. ~Open /\ ~Listening
  BY <1>2 DEF Open, Listening
<1>4. Peers = {}
  BY <1>2 DEF Peers
<1>5. PeerFits
  BY <1>1, <1>2, <1>3, <1>4 DEF PeerFits
<1>6. PeersFit /\ LineBound
  BY <1>1, <1>4 DEF PeersFit, LineBound, Own
<1>7. PagesWhole
  BY <1>1, IdleFacts DEF PagesWhole
<1>8. FlowFits /\ EndFits
  BY <1>2, <1>3 DEF FlowFits, EndFits, Flowing
<1> QED BY <1>5, <1>6, <1>7, <1>8 DEF KInv

(* And so it always does. *)
LEMMA FlowAlways == Spec => [](StreamInv /\ LInv /\ KInv)
<1>1. Init => StreamInv /\ LInv /\ KInv
  BY StreamInit, LineInit, FlowInit
<1>2. StreamInv /\ LInv /\ KInv /\ [Next]_vars => StreamInv' /\ LInv' /\ KInv'
  BY StreamStep, LineStep, FlowStep
<1> QED BY <1>1, <1>2, PTL DEF Spec

(* receive, release, deliver and resume_cursor: for any number of turns,      *)
(* deltas, crashes, sessions, retries and faults, a session that got its page, *)
(* heard only pollers of this turn's sessions and ended on the final frame    *)
(* shows the whole turn, whichever of these pollers it heard, in which order. *)
THEOREM TurnShownWhole == Spec => []NothingLost
<1>1. StreamInv /\ KInv => NothingLost
  <2> SUFFICES ASSUME StreamInv, KInv, sse.end = "final", sse.id \in sse.heard, sse.heard \subseteq Peers
               PROVE  Covered(sse.screen) = 1 .. HighWater(sse)
    BY DEF NothingLost
  <2>1. PICK x \in Seq(Event) : x = sse.screen
    BY DEF StreamInv, HostFits, Typed, Session
  <2>2. PICK S : S = ToSet(x)
    OBVIOUS
  <2>3. S = {x[i] : i \in 1 .. Len(x)} /\ S \subseteq Event
    BY <2>1, <2>2 DEF ToSet
  <2>4. Whole(S)
    <3>1. ~Open
      BY DEF StreamInv, HostFits, PhaseFits
    <3> QED BY <2>1, <2>2, <3>1 DEF KInv, EndFits
  <2>5. PICK n : n = EndOf(S, 0)
    OBVIOUS
  <2>6. n = HighWater(sse)
    BY <2>1, <2>2, <2>5 DEF HighWater
  <2>7. n \in Nat /\ (S # {} => \A e \in S : e.seq <= n)
    <3>1. \A evs, a, m : evs \subseteq Event /\ a \in Nat /\ m = EndOf(evs, a) =>
            m \in Nat /\ (evs # {} => \A e \in evs : e.seq <= m)
      BY EndTop
    <3>2. 0 \in Nat
      OBVIOUS
    <3> QED BY <2>3, <2>5, <3>1, <3>2
  <2>8. Covered(x) = UNION {x[i].from .. x[i].seq : i \in 1 .. Len(x)}
    <3>1. Len(x) \in Nat
      OBVIOUS
    <3>2. PICK f : f = [i \in 1 .. Len(x) |-> x[i].from .. x[i].seq]
      OBVIOUS
    <3>3. Len(f) = Len(x) /\ \A i \in 1 .. Len(x) : f[i] = x[i].from .. x[i].seq
      BY <3>1, <3>2
    <3>4. ToSet(f) = {f[i] : i \in 1 .. Len(f)}
      BY DEF ToSet
    <3>5. ToSet(f) = {x[i].from .. x[i].seq : i \in 1 .. Len(x)}
      BY <3>3, <3>4
    <3> QED BY <3>2, <3>5 DEF Covered, Ranges
  <2>9. ASSUME NEW k \in Covered(x) PROVE k \in 1 .. n
    <3>1. PICK i \in 1 .. Len(x) : k \in x[i].from .. x[i].seq
      BY <2>8, <2>9
    <3>2. x[i] \in S
      BY <2>3
    <3>3. x[i].from \in Nat /\ x[i].seq \in Nat /\ 1 <= x[i].from /\ x[i].seq <= n
      BY <2>3, <2>7, <3>2, EventNumbers
    <3> QED BY <2>7, <3>1, <3>3
  <2>10. ASSUME NEW k \in 1 .. n PROVE k \in Covered(x)
    <3>1. Covers(S, k)
      BY <2>3, <2>4, <2>5, WholeCovers
    <3>2. PICK i \in 1 .. Len(x) : x[i].from <= k /\ k <= x[i].seq
      BY <2>3, <3>1 DEF Covers
    <3>3. x[i] \in Event
      OBVIOUS
    <3>4. k \in x[i].from .. x[i].seq
      BY <2>7, <3>2, <3>3, EventNumbers
    <3> QED BY <2>8, <3>4
  <2>11. Covered(x) = 1 .. n
    BY <2>9, <2>10
  <2> QED BY <2>1, <2>6, <2>11
<1> QED BY <1>1, FlowAlways, PTL
=============================================================================
