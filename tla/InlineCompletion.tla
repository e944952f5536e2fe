--------------------------- MODULE InlineCompletion ---------------------------
(***************************************************************************)
(* F11, the editor's inline completion: inlineCompletion.ts (requests,     *)
(* keys, the two CodeMirror state fields), completionPolicy.ts (which      *)
(* answer to believe and what to count) and modelSource.ts (an answer that *)
(* comes from another process, at any time and in any order).              *)
(*                                                                         *)
(* The document is one of a few texts and the caret one of a few offsets,  *)
(* so that an edit and its undo bring an old text back.  An answer is      *)
(* known by the question it answers, by whether it is empty, and by        *)
(* whether symbolNamedBy finds a symbol in it at the caret of that moment. *)
(* The specification's names say Editor: WebviewProofs extends this module *)
(* and the chat stream's.                                                  *)
(***************************************************************************)
EXTENDS Naturals

CONSTANTS
  Texts,      \* the texts the document may have
  Carets,    \* the offsets of the caret
  MaxAsks    \* bound: F11 keydowns that ask

ASSUME AsksBound == MaxAsks \in Nat \ {0}

VARIABLES
  place,     \* view.state: the document and selection.main.head
  policy,    \* policyField: the phase, and the generation it is about
  badge,     \* riskField: the generation it was computed for, and what it says
  generation,
  ask,       \* per generation: where its promise chain is, and where it was asked
  metrics,   \* sessionMetrics: shown, accepted, stale
  late       \* history: a stale answer landed on the suggestion now on screen

editor == <<place, policy, badge, generation, ask, metrics, late>>

Places == [doc : Texts, caret : Carets]
Gens == 1..MaxAsks
Answers == [empty : BOOLEAN, named : BOOLEAN]

Resting == [phase |-> "idle", gen |-> 0]
Pending(g) == [phase |-> "pending", gen |-> g]
Showing(g) == [phase |-> "showing", gen |-> g]

NoBadge == [gen |-> 0, kind |-> "none"]
Badge(g, kind) == [gen |-> g, kind |-> kind]

EditorInit ==
  /\ place \in Places
  /\ policy = Resting /\ badge = NoBadge
  /\ generation = 0
  /\ ask = [g \in Gens |-> [at |-> "none", place |-> place]]
  /\ metrics = [shown |-> 0, accepted |-> 0, stale |-> 0]
  /\ late = FALSE

\* view.dispatch({ effects: setPolicy.of(next) }): riskField drops the badge on
\* every such effect, whatever the policy it sets.
SetPolicy(next) ==
  /\ policy' = next
  /\ badge' = NoBadge

-----------------------------------------------------------------------------
(* The user. *)

\* F11, with `request` refusing a second question while one is pending.
Request ==
  /\ policy.phase # "pending"
  /\ generation < MaxAsks
  /\ generation' = generation + 1
  /\ SetPolicy(Pending(generation + 1))
  /\ ask' = [ask EXCEPT ![generation + 1] = [at |-> "source", place |-> place]]
  /\ late' = FALSE
  /\ UNCHANGED <<place, metrics>>

\* Any transaction that changes the document: policyField runs
\* onDocumentChanged and riskField forgets the badge.
Edit(p) ==
  /\ p.doc # place.doc
  /\ place' = p
  /\ SetPolicy(Resting)
  /\ metrics' = [metrics EXCEPT !.stale = IF policy.phase = "pending" THEN @ + 1 ELSE @]
  /\ late' = FALSE
  /\ UNCHANGED <<generation, ask>>

\* Mutant of MoveCaret: only Escape dismisses.
MoveCaretOnly(c) ==
  /\ place' = [place EXCEPT !.caret = c]
  /\ UNCHANGED <<policy, badge, generation, ask, metrics, late>>

\* A transaction that sets the selection and nothing else; dismissOnCursorMove
\* adds the dismissal to it.
MoveCaret(c) ==
  /\ place' = [place EXCEPT !.caret = c]
  /\ IF policy.phase = "idle" THEN UNCHANGED <<policy, badge>> ELSE SetPolicy(Resting)
  /\ late' = FALSE
  /\ UNCHANGED <<generation, ask, metrics>>

\* Tab: onAccept, then one transaction inserts the text, moves the caret behind
\* it and sets the policy.
Accept(p) ==
  /\ policy.phase = "showing"
  /\ p.doc # place.doc
  /\ place' = p
  /\ SetPolicy(Resting)
  /\ metrics' = [metrics EXCEPT !.accepted = @ + 1]
  /\ late' = FALSE
  /\ UNCHANGED <<generation, ask>>

\* Escape, and blur.
Dismiss ==
  /\ policy.phase # "idle"
  /\ SetPolicy(Resting)
  /\ late' = FALSE
  /\ UNCHANGED <<place, generation, ask, metrics>>

-----------------------------------------------------------------------------
(* The promises. *)

\* onSuggestion: an answer is believed only if it answers the question pending.
Believed(g) == policy = Pending(g)

OnSuggestion(g, a) ==
  CASE ~Believed(g) -> policy
    [] Believed(g) /\ a.empty -> Resting
    [] OTHER -> Showing(g)

Counted(g, a) ==
  CASE ~Believed(g) -> [metrics EXCEPT !.stale = @ + 1]
    [] Believed(g) /\ a.empty -> metrics
    [] OTHER -> [metrics EXCEPT !.shown = @ + 1]

\* source().then: the policy is set again even for a stale answer, and the rest
\* of the handler looks only at its phase, so a stale answer that finds another
\* suggestion on screen drops that suggestion's badge and goes on to its own.
Answered(g, a) ==
  LET next == OnSuggestion(g, a)
      shows == next.phase = "showing"
  IN /\ ask[g].at = "source"
     /\ policy' = next
     /\ badge' = IF shows /\ ~a.named THEN Badge(g, "nosymbol") ELSE NoBadge
     /\ metrics' = Counted(g, a)
     /\ ask' = [ask EXCEPT ![g].at = IF shows /\ a.named THEN "risk" ELSE "done"]
     /\ late' = (shows /\ (late \/ next # Showing(g)))
     /\ UNCHANGED <<place, generation>>

\* Mutant of SourceFails: nothing catches the rejected promise.
SourceFailsUncaught(g) ==
  /\ ask[g].at = "source"
  /\ ask' = [ask EXCEPT ![g].at = "done"]
  /\ UNCHANGED <<place, policy, badge, generation, metrics, late>>

\* The .catch of the whole chain: idle, whatever is pending or on screen by now.
SourceFails(g) ==
  /\ ask[g].at = "source"
  /\ SetPolicy(Resting)
  /\ ask' = [ask EXCEPT ![g].at = "done"]
  /\ late' = FALSE
  /\ UNCHANGED <<place, generation, metrics>>

\* Mutant of RiskFound: any suggestion on screen takes the badge.
RiskForAnyone(g) ==
  /\ ask[g].at = "risk"
  /\ badge' = IF policy.phase = "showing" THEN Badge(g, "record") ELSE badge
  /\ ask' = [ask EXCEPT ![g].at = "done"]
  /\ UNCHANGED <<place, policy, generation, metrics, late>>

\* Mutant of RiskFound: a failed lookup says nothing.
RiskOrSilence(g) ==
  /\ ask[g].at = "risk"
  /\ badge' \in {badge, IF policy = Showing(g) THEN Badge(g, "record") ELSE badge}
  /\ ask' = [ask EXCEPT ![g].at = "done"]
  /\ UNCHANGED <<place, policy, generation, metrics, late>>

\* lookupRisk().then and .catch: records or "unmeasured", if this suggestion is
\* still the one on screen.
RiskFound(g) ==
  /\ ask[g].at = "risk"
  /\ badge' = IF policy = Showing(g) THEN Badge(g, "record") ELSE badge
  /\ ask' = [ask EXCEPT ![g].at = "done"]
  /\ UNCHANGED <<place, policy, generation, metrics, late>>

-----------------------------------------------------------------------------
Settles(g) == SourceFails(g) \/ \E a \in Answers : Answered(g, a)

EditorNext ==
  \/ Request \/ Dismiss
  \/ \E p \in Places : Edit(p) \/ Accept(p)
  \/ \E c \in Carets : MoveCaret(c)
  \/ \E g \in Gens : Settles(g) \/ RiskFound(g)

EditorSpec == EditorInit /\ [][EditorNext]_editor

\* local_completion has a deadline and every other call returns or fails.
FairSpec ==
  /\ EditorSpec
  /\ \A g \in Gens : WF_editor(Settles(g)) /\ WF_editor(RiskFound(g))

-----------------------------------------------------------------------------
(* Properties. *)

\* The shape of the state: the two fields, the promises, the counters.
EditorTypeOK ==
  /\ place \in Places
  /\ policy \in [phase : {"idle", "pending", "showing"}, gen : 0..MaxAsks]
  /\ badge \in [gen : 0..MaxAsks, kind : {"none", "nosymbol", "record"}]
  /\ generation \in 0..MaxAsks
  /\ ask \in [Gens -> [at : {"none", "source", "risk", "done"}, place : Places]]
  /\ metrics \in [shown : Nat, accepted : Nat, stale : Nat]
  /\ late \in BOOLEAN

\* What Tab would insert answers a question asked of this very text at this very
\* caret, and so does the answer being waited for, whatever was typed, undone,
\* clicked or answered late since ("the completion for one prefix landing after
\* a different one").
ShownFits ==
  policy.phase # "idle" =>
    /\ policy.gen \in 1..generation
    /\ ask[policy.gen].place = place

\* A badge stands beside a suggestion, and one that reports a symbol's recorded
\* history beside the suggestion that named the symbol ("showing the old badge
\* beside new text would attribute one symbol's history to another").  Only a
\* late answer that names no symbol can put its badge beside another suggestion.
BadgeIsItsOwn ==
  badge # NoBadge =>
    /\ policy.phase = "showing"
    /\ policy.gen = badge.gen \/ (badge.kind = "nosymbol" /\ late)

\* The acceptance rate is a rate: every acceptance is of a suggestion that was
\* counted as shown, and no suggestion is accepted twice.
RateIsARate ==
  metrics.accepted + (IF policy.phase = "showing" THEN 1 ELSE 0) <= metrics.shown

\* "It must not leave the editor pending forever, which would make Tab do
\* nothing with no explanation."
PendingResolves ==
  \A g \in Gens : (policy = Pending(g)) ~> (policy # Pending(g))

\* "A missing badge and a safe badge are indistinguishable to a reader": a
\* suggestion that stays on screen gets a badge, unless a late answer to an
\* older question took it away.
BadgeArrives ==
  \A g \in Gens :
    (policy = Showing(g)) ~> (policy # Showing(g) \/ badge # NoBadge \/ late)
=============================================================================
