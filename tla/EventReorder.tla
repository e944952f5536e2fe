----------------------------- MODULE EventReorder -----------------------------
(***************************************************************************)
(* One generation's events on the way to its first subscriber in Redis     *)
(* mode: RedisEventTransport.ts (coalescing, sequence and publish in one   *)
(* script, the reorder buffer of the subscribing side) and the part of     *)
(* GenerationJobManager.ts that buffers events emitted before anybody      *)
(* listens, replays them to the first subscriber and tells the transport   *)
(* how far the replay went.                                                *)
(*                                                                         *)
(* Events are numbered as they are emitted; the last one is DONE.  Scripts *)
(* and reads run in the order in which they were issued (one connection,   *)
(* one slot); what they publish arrives in any order, or never.  A         *)
(* coalesced frame is unpacked at ingress, so that messages are events.    *)
(***************************************************************************)
EXTENDS Integers, Sequences, FiniteSets, FiniteSetsExt

CONSTANTS
  N,          \* events of the generation, DONE included
  Base,       \* the stream's counter when the generation starts: earlier turns
  EarlyMax,   \* EARLY_EVENT_BUFFER_MAX_EVENTS
  BufferMax,  \* MAX_BUFFER_SIZE
  MaxFails,   \* bound: commands whose promise rejects
  MaxLosses   \* bound: messages the channel loses

ASSUME TransportBounds ==
  /\ N \in Nat \ {0} /\ Base \in Nat /\ EarlyMax \in Nat /\ BufferMax \in Nat \ {0}
  /\ MaxFails \in Nat /\ MaxLosses \in Nat

VARIABLES
  emitted,   \* events emitted so far
  batch,     \* pendingBatches: deltas waiting for their window
  wire,      \* commands issued to Redis: frames, and the GET of the counter (Get)
  replies,   \* what Redis answered, on its way back
  counter,   \* stream:{id}:seq
  seqOf,     \* the sequence each event was given, or None
  receipt,   \* the producer's publication promises
  flying,    \* published messages on their way
  early,     \* earlyEventBuffer, earlyEventBufferClosed, earlyEventBufferOverflowed
  att,       \* the subscriber: where its attachment is, and how it ended
  buf,       \* the reorder buffer
  seen,      \* what reached the client
  fails, hist

vars == <<emitted, batch, wire, replies, counter, seqOf, receipt, flying, early, att, buf,
          seen, fails, hist>>

Events == 1..N
Done == N
None == -1
Get == {}

Cold == [next |-> 0, pending |-> {}, timer |-> FALSE, deferred |-> FALSE]
Attached == att.at \in {"ready", "fence", "sync", "check", "live"}
HasSubscriber == att.at \in {"fence", "sync", "check", "live"}

Seqs(S) == {seqOf[e] : e \in S}

Init ==
  /\ emitted = 0 /\ batch = {} /\ wire = <<>> /\ replies = <<>>
  /\ counter = Base
  /\ seqOf = [e \in Events |-> None]
  /\ receipt = [e \in Events |-> "none"]
  /\ flying = {}
  /\ early = [evs |-> {}, closed |-> FALSE, overflowed |-> FALSE]
  /\ att = [at |-> "off", frontier |-> None, end |-> "none"]
  /\ buf = Cold
  /\ seen = {}
  /\ fails = 0
  /\ hist = [twice |-> {}, unsure |-> {}, unpublished |-> {}, lost |-> {}, skipped |-> {},
             passed |-> {}, cut |-> {}]

-----------------------------------------------------------------------------
(* The producer. *)

\* Mutant: the bound is checked after one event too many.
BufferEarlyOneMore(e) ==
  early' = CASE HasSubscriber \/ att.at = "closed" \/ early.closed -> early
             [] ~(HasSubscriber \/ att.at = "closed" \/ early.closed)
                  /\ Cardinality(early.evs) > EarlyMax ->
                  [evs |-> {}, closed |-> TRUE, overflowed |-> TRUE]
             [] OTHER -> [early EXCEPT !.evs = @ \cup {e}]

\* bufferEarlyEvent and overflowEarlyEventBuffer
BufferEarly(e) ==
  early' = CASE HasSubscriber \/ att.at = "closed" \/ early.closed -> early
             [] ~(HasSubscriber \/ att.at = "closed" \/ early.closed)
                  /\ Cardinality(early.evs) >= EarlyMax ->
                  [evs |-> {}, closed |-> TRUE, overflowed |-> TRUE]
             [] OTHER -> [early EXCEPT !.evs = @ \cup {e}]

\* flushCoalescedChunks takes the batch off and issues it as one frame.
Flushed == IF batch = {} THEN wire ELSE Append(wire, batch)

\* A streaming delta joins the batch of the current window.
EmitDelta ==
  /\ emitted + 1 < N
  /\ emitted' = emitted + 1
  /\ BufferEarly(emitted + 1)
  /\ batch' = batch \cup {emitted + 1}
  /\ receipt' = [receipt EXCEPT ![emitted + 1] = "pending"]
  /\ UNCHANGED <<wire, replies, counter, seqOf, flying, att, buf, seen, fails, hist>>

\* Mutant: a chunk overtakes the deltas of the open window.
EmitChunkAhead ==
  /\ emitted + 1 < N
  /\ emitted' = emitted + 1
  /\ BufferEarly(emitted + 1)
  /\ wire' = Append(wire, {emitted + 1})
  /\ receipt' = [receipt EXCEPT ![emitted + 1] = "pending"]
  /\ UNCHANGED <<batch, replies, counter, seqOf, flying, att, buf, seen, fails, hist>>

\* Any other chunk is a barrier: the batch is issued first.
EmitChunk ==
  /\ emitted + 1 < N
  /\ emitted' = emitted + 1
  /\ BufferEarly(emitted + 1)
  /\ wire' = Append(Flushed, {emitted + 1})
  /\ batch' = {}
  /\ receipt' = [receipt EXCEPT ![emitted + 1] = "pending"]
  /\ UNCHANGED <<replies, counter, seqOf, flying, att, buf, seen, fails, hist>>

\* emitDone: behind the coalesced tail, and never in the early buffer.  The
\* terminal row and runtime.finalEvent are written before.
EmitDone ==
  /\ emitted + 1 = N
  /\ emitted' = N
  /\ wire' = Append(Flushed, {Done})
  /\ batch' = {}
  /\ receipt' = [receipt EXCEPT ![Done] = "pending"]
  /\ UNCHANGED <<replies, counter, seqOf, flying, early, att, buf, seen, fails, hist>>

\* The window closes.
FlushWindow ==
  /\ batch # {}
  /\ wire' = Flushed
  /\ batch' = {}
  /\ UNCHANGED <<emitted, replies, counter, seqOf, receipt, flying, early, att, buf, seen,
                 fails, hist>>

-----------------------------------------------------------------------------
(* Redis. *)

Reply(c, ok) == [cmd |-> c, ok |-> ok, val |-> counter]

\* PUBLISH_SEQ_LUA: consecutive sequences for the frame's events, and the message.
Publish(c) ==
  /\ seqOf' = [e \in Events |-> IF e \in c
                                THEN counter + Cardinality({f \in c : f < e}) ELSE seqOf[e]]
  /\ counter' = counter + Cardinality(c)
  /\ flying' = flying \cup c

Execute ==
  /\ wire # <<>>
  /\ wire' = Tail(wire)
  /\ replies' = Append(replies, Reply(Head(wire), TRUE))
  /\ Publish(Head(wire))
  /\ UNCHANGED <<emitted, batch, receipt, early, att, buf, seen, fails, hist>>

\* The command is rejected without having run ...
Refuse ==
  /\ wire # <<>> /\ fails < MaxFails
  /\ wire' = Tail(wire)
  /\ replies' = Append(replies, Reply(Head(wire), FALSE))
  /\ fails' = fails + 1
  /\ hist' = [hist EXCEPT !.unpublished = @ \cup Head(wire)]
  /\ UNCHANGED <<emitted, batch, counter, seqOf, receipt, flying, early, att, buf, seen>>

\* ... or it ran, and its answer never comes.
ReplyLost ==
  /\ wire # <<>> /\ fails < MaxFails
  /\ wire' = Tail(wire)
  /\ replies' = Append(replies, Reply(Head(wire), FALSE))
  /\ Publish(Head(wire))
  /\ fails' = fails + 1
  /\ hist' = [hist EXCEPT !.unsure = @ \cup Head(wire)]
  /\ UNCHANGED <<emitted, batch, receipt, early, att, buf, seen>>

Closed(how) ==
  /\ att' = [att EXCEPT !.at = "closed", !.end = how]
  /\ buf' = Cold

\* Mutant: a DONE that could not be published is only logged.
SettleQuietly ==
  LET r == Head(replies)
  IN /\ replies # <<>> /\ r.cmd # Get
     /\ replies' = Tail(replies)
     /\ receipt' = [e \in Events |->
                      IF e \notin r.cmd THEN receipt[e]
                      ELSE IF r.ok THEN "number" ELSE "undefined"]
     /\ UNCHANGED <<emitted, batch, wire, counter, seqOf, flying, early, att, buf, seen,
                    fails, hist>>

\* The receipts of a frame's events settle: a sequence each, or undefined.  A
\* DONE that could not be published sends the local subscriber away to resume.
Settle ==
  LET r == Head(replies)
  IN /\ replies # <<>> /\ r.cmd # Get
     /\ replies' = Tail(replies)
     /\ receipt' = [e \in Events |->
                      IF e \notin r.cmd THEN receipt[e]
                      ELSE IF r.ok THEN "number" ELSE "undefined"]
     /\ IF Done \in r.cmd /\ ~r.ok /\ Attached THEN Closed("reconnect")
        ELSE UNCHANGED <<att, buf>>
     /\ UNCHANGED <<emitted, batch, wire, counter, seqOf, flying, early, seen, fails, hist>>

Lose(e) ==
  /\ e \in flying /\ Cardinality(hist.lost) < MaxLosses
  /\ flying' = flying \ {e}
  /\ hist' = [hist EXCEPT !.lost = @ \cup {e}]
  /\ UNCHANGED <<emitted, batch, wire, replies, counter, seqOf, receipt, early, att, buf,
                 seen, fails>>

-----------------------------------------------------------------------------
(* The reorder buffer. *)

\* flushPendingMessages: what is pending from b.next on without a gap.
Ready(b) == {e \in b.pending : b.next..seqOf[e] \subseteq Seqs(b.pending)}

Drained(b) ==
  LET rest == b.pending \ Ready(b)
  IN [b EXCEPT !.pending = rest,
               !.next = @ + Cardinality(Ready(b)),
               !.timer = @ /\ rest # {}]

\* forceFlushBuffer: everything pending, whatever is missing in between.
Forced(b) ==
  [b EXCEPT !.pending = {}, !.next = Max(Seqs(b.pending)) + 1, !.timer = FALSE]

\* The events that a force flush of b gives up.
GivenUp(b) ==
  {e \in Events : seqOf[e] \in b.next..Max(Seqs(b.pending)) /\ e \notin b.pending}

\* deliverMessage to the client; DONE ends the subscription, which resets the buffer.
Deliver(S, b) ==
  /\ seen' = seen \cup S
  /\ IF Done \in S THEN Closed("done") ELSE UNCHANGED att /\ buf' = b

Again(S) == [hist EXCEPT !.twice = @ \cup (S \cap seen)]

\* handleMessage without a subscriber.
Unheard(e) ==
  /\ e \in flying /\ ~Attached
  /\ flying' = flying \ {e}
  /\ UNCHANGED <<emitted, batch, wire, replies, counter, seqOf, receipt, early, att, buf,
                 seen, fails, hist>>

\* handleOrderedChunk and handleTerminalEvent: held while delivery is deferred,
\* or because something is missing; too late; or next.
Hold(b) == [b EXCEPT !.timer = @ \/ ~b.deferred]

Overfull(e, b) == ~b.deferred /\ e # Done /\ Cardinality(b.pending) >= BufferMax

HandleOrdered(e) ==
  LET b == [buf EXCEPT !.pending = @ \cup {e}]
      late == ~buf.deferred /\ seqOf[e] < buf.next
      next == ~buf.deferred /\ seqOf[e] = buf.next
  IN /\ e \in flying /\ Attached
     /\ flying' = flying \ {e}
     /\ \/ late /\ UNCHANGED <<att, buf, seen, hist>>
        \/ next /\ Deliver(Ready(b), Drained(b)) /\ hist' = Again(Ready(b))
        \/ ~late /\ ~next /\ ~Overfull(e, b) /\ buf' = Hold(b)
             /\ UNCHANGED <<att, seen, hist>>
        \/ ~late /\ ~next /\ Overfull(e, b) /\ Deliver(b.pending, Forced(b))
             /\ hist' = [Again(b.pending) EXCEPT !.skipped = @ \cup GivenUp(b)]
     /\ UNCHANGED <<emitted, batch, wire, replies, counter, seqOf, receipt, early, fails>>

\* scheduleFlushTimeout's callback.
FlushTimeout ==
  /\ buf.timer /\ buf.pending # {}
  /\ Deliver(buf.pending, Forced(buf))
  /\ hist' = [Again(buf.pending) EXCEPT !.skipped = @ \cup GivenUp(buf)]
  /\ UNCHANGED <<emitted, batch, wire, replies, counter, seqOf, receipt, flying, early,
                 fails>>

-----------------------------------------------------------------------------
(* The first attachment. *)

\* eventTransport.subscribe with deferSequenceDelivery
Subscribe ==
  /\ att.at = "off"
  /\ att' = [att EXCEPT !.at = "ready"]
  /\ buf' = [Cold EXCEPT !.deferred = TRUE]
  /\ UNCHANGED <<emitted, batch, wire, replies, counter, seqOf, receipt, flying, early, seen,
                 fails, hist>>

\* The channel is active: from here on nothing is buffered locally.
MarkSubscriber ==
  /\ att.at = "ready"
  /\ att' = [att EXCEPT !.at = "fence"]
  /\ UNCHANGED <<emitted, batch, wire, replies, counter, seqOf, receipt, flying, early, buf,
                 seen, fails, hist>>

Assigned == {e \in early.evs : receipt[e] = "number"}

\* Mutant: the replay does not wait for the sequences of what it replays.
ReplayUnfenced ==
  /\ att.at = "fence"
  /\ att' = [att EXCEPT !.at = "sync",
                        !.frontier = IF Assigned = {} THEN None
                                     ELSE Max(Seqs(Assigned)) + 1]
  /\ seen' = seen \cup early.evs
  /\ early' = [early EXCEPT !.evs = {}, !.closed = TRUE]
  /\ wire' = Append(wire, Get)
  /\ UNCHANGED <<emitted, batch, replies, counter, seqOf, receipt, flying, buf, fails, hist>>

\* waitForEarlyEventPublications let the subscriber through: the buffer is
\* replayed and closed, its highest sequence is the frontier, and the counter
\* is asked for.
Replay ==
  /\ att.at = "fence"
  /\ \A e \in early.evs : receipt[e] # "pending"
  /\ att' = [att EXCEPT !.at = "sync",
                        !.frontier = IF Assigned = {} THEN None
                                     ELSE Max(Seqs(Assigned)) + 1]
  /\ seen' = seen \cup early.evs
  /\ early' = [early EXCEPT !.evs = {}, !.closed = TRUE]
  /\ wire' = Append(wire, Get)
  /\ UNCHANGED <<emitted, batch, replies, counter, seqOf, receipt, flying, buf, fails, hist>>

\* syncReorderBuffer's frontier.  Nothing replayed: the counter is trusted; no
\* counter either: the buffer stays where it is.
Synced(reply) ==
  LET f == att.frontier
      pruned == {e \in buf.pending : f = None \/ seqOf[e] >= f}
      trust == IF f # None THEN f ELSE IF reply.ok THEN reply.val ELSE buf.next
      floor == IF reply.ok /\ pruned # {} THEN Min({trust} \cup Seqs(pruned)) ELSE trust
  IN [buf EXCEPT !.pending = pruned, !.next = Max({@, floor}), !.deferred = FALSE]

\* Mutant: an attachment whose early events overflowed goes on as if it were whole.
SyncStays ==
  LET b == Synced(Head(replies))
      out == Ready(b)
      rest == [Drained(b) EXCEPT !.timer = b.pending # out]
      over == IF att.frontier = None THEN {e \in flying : seqOf[e] < b.next} ELSE {}
      gone == IF early.overflowed /\ emitted = N
              THEN {e \in Events \ flying : seqOf[e] \in 0..(b.next - 1)} ELSE {}
  IN /\ att.at = "sync"
     /\ replies # <<>> /\ Head(replies).cmd = Get
     /\ replies' = Tail(replies)
     /\ seen' = seen \cup out
     /\ IF Done \in out THEN Closed("done")
        ELSE att' = [att EXCEPT !.at = "check"] /\ buf' = rest
     /\ hist' = [Again(out) EXCEPT !.passed = over, !.cut = gone]
     /\ UNCHANGED <<emitted, batch, wire, counter, seqOf, receipt, flying, early, fails>>

\* The answer to the GET: release what was held, arm the timer for what is not
\* complete, and send a subscriber whose early events overflowed away to resume
\* unless the generation is over.
Sync ==
  LET b == Synced(Head(replies))
      out == Ready(b)
      rest == [Drained(b) EXCEPT !.timer = b.pending # out]
      \* what the trusted counter passed over while it was still on its way
      over == IF att.frontier = None THEN {e \in flying : seqOf[e] < b.next} ELSE {}
      \* what was published below it and is only in the buffer that overflowed, when the
      \* generation is over and nobody is sent away
      gone == IF early.overflowed /\ emitted = N
              THEN {e \in Events \ flying : seqOf[e] \in 0..(b.next - 1)} ELSE {}
  IN /\ att.at = "sync"
     /\ replies # <<>> /\ Head(replies).cmd = Get
     /\ replies' = Tail(replies)
     /\ seen' = seen \cup out
     /\ IF Done \in out THEN Closed("done")
        ELSE IF early.overflowed /\ emitted < N THEN Closed("reconnect")
        ELSE att' = [att EXCEPT !.at = "check"] /\ buf' = rest
     /\ hist' = [Again(out) EXCEPT !.passed = over, !.cut = gone]
     /\ UNCHANGED <<emitted, batch, wire, counter, seqOf, receipt, flying, early, fails>>

\* The answer comes back to an attachment that is gone.
SyncGone ==
  /\ att.at = "closed"
  /\ replies # <<>> /\ Head(replies).cmd = Get
  /\ replies' = Tail(replies)
  /\ UNCHANGED <<emitted, batch, wire, counter, seqOf, receipt, flying, early, att, buf, seen,
                 fails, hist>>

\* deliverStoredTerminal, once, when the attachment is complete: a terminal row
\* ends the subscription with the stored final event.
StoredTerminal ==
  /\ att.at = "check"
  /\ IF emitted = N THEN Closed("stored")
     ELSE att' = [att EXCEPT !.at = "live"] /\ UNCHANGED buf
  /\ UNCHANGED <<emitted, batch, wire, replies, counter, seqOf, receipt, flying, early, seen,
                 fails, hist>>

-----------------------------------------------------------------------------
Next ==
  \/ EmitDelta \/ EmitChunk \/ EmitDone \/ FlushWindow
  \/ Execute \/ Refuse \/ ReplyLost \/ Settle
  \/ \E e \in Events : Lose(e) \/ Unheard(e) \/ HandleOrdered(e)
  \/ FlushTimeout
  \/ Subscribe \/ MarkSubscriber \/ Replay \/ Sync \/ SyncGone \/ StoredTerminal

Spec == Init /\ [][Next]_vars

\* Redis answers, timers fire, a published message is delivered unless it is
\* lost, and an attachment that began goes on.  Nothing makes the model emit or
\* the client subscribe.
FairSpec ==
  /\ Spec
  /\ WF_vars(FlushWindow) /\ WF_vars(Execute) /\ WF_vars(Settle)
  /\ \A e \in Events : WF_vars(Unheard(e)) /\ WF_vars(HandleOrdered(e))
  /\ WF_vars(FlushTimeout)
  /\ WF_vars(MarkSubscriber) /\ WF_vars(Replay) /\ WF_vars(Sync) /\ WF_vars(SyncGone)
  /\ WF_vars(StoredTerminal)

-----------------------------------------------------------------------------
(* Properties. *)

\* The shape of the state; the early buffer never outgrows its bound.
TypeOK ==
  /\ emitted \in 0..N /\ batch \subseteq Events
  /\ wire \in Seq(SUBSET Events)
  /\ replies \in Seq([cmd : SUBSET Events, ok : BOOLEAN, val : Nat])
  /\ counter \in Nat
  /\ seqOf \in [Events -> Nat \cup {None}]
  /\ receipt \in [Events -> {"none", "pending", "number", "undefined"}]
  /\ flying \subseteq Events
  /\ early \in [evs : SUBSET Events, closed : BOOLEAN, overflowed : BOOLEAN]
  /\ Cardinality(early.evs) <= EarlyMax
  /\ att \in [at : {"off", "ready", "fence", "sync", "check", "live", "closed"},
              frontier : Nat \cup {None}, end : {"none", "done", "reconnect", "stored"}]
  /\ buf \in [next : Nat, pending : SUBSET Events, timer : BOOLEAN, deferred : BOOLEAN]
  /\ seen \subseteq Events /\ fails \in 0..MaxFails
  /\ hist \in [twice : SUBSET Events, unsure : SUBSET Events, unpublished : SUBSET Events,
               lost : SUBSET Events, skipped : SUBSET Events, passed : SUBSET Events,
               cut : SUBSET Events]

\* The client gets no event twice (syncReorderBuffer prunes what the replay
\* delivered, and the replay waits for its sequences) unless its publication ran
\* and its answer was lost, so that the producer could not know its sequence.
NoDuplicates == hist.twice \subseteq hist.unsure

\* A client whose stream ended with DONE misses an event only if it never reached
\* Redis, the channel lost it, the reorder buffer gave up waiting for it, an
\* attachment that had nothing to replay trusted the counter past it, or the early
\* buffer had overflowed and the generation was over before the client attached: as
\* long as it runs, a client that cannot be made whole is sent away to resume
\* (GenerationJobManager.ts, subscribe) and never sees DONE behind a gap.
NoSilentLoss ==
  att.end = "done"
    => Events \ seen \subseteq hist.unpublished \cup hist.lost \cup hist.skipped
                              \cup hist.passed \cup hist.cut

\* The client sees events in the order of emission, whatever the order of
\* arrival: replay, ordered delivery and force flush never step back.
InOrder == [][\A e \in seen' \ seen, f \in seen : f < e]_vars

\* A message that waits in the reorder buffer waits for something: delivery is
\* deferred by an attachment still under way, or a flush timeout is armed.
NothingParked == buf.pending # {} => buf.deferred \/ buf.timer

\* An attached client of a finished generation is told so, unless the channel
\* lost the DONE: by the event, by the stored row, or by being sent to resume.
StreamEnds ==
  (Attached /\ emitted = N) ~> (att.at = "closed" \/ Done \in hist.lost)
=============================================================================
