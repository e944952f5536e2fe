-------------------------- MODULE EventReorderProofs --------------------------
(***************************************************************************)
(* The event transport, for any number of events, any bounds and any       *)
(* losses, failures and order of arrival: the reorder buffer never strands *)
(* a message, the client sees events in the order of emission, it gets one *)
(* twice only where the producer could not know, and misses one only for a *)
(* reason the model records.                                               *)
(***************************************************************************)
EXTENDS EventReorder, FiniteSetTheorems, TLAPS

(* The shape of the reorder buffer. *)
BufShape ==
  /\ buf = [next |-> buf.next, pending |-> buf.pending, timer |-> buf.timer,
            deferred |-> buf.deferred]
  /\ buf.timer \in BOOLEAN /\ buf.deferred \in BOOLEAN

(* ... and nothing is parked in it. *)
PInv == BufShape /\ NothingParked

(* What gives every event an integer for its sequence. *)
NumInv ==
  /\ emitted \in Nat
  /\ batch \subseteq Events
  /\ wire \in Seq(SUBSET Events)
  /\ counter \in Int
  /\ seqOf \in [Events -> Int]

(* The inductive invariant. *)
IInv == PInv /\ NumInv

-----------------------------------------------------------------------------
(* The buffer of an attachment that ended, or has not begun. *)
LEMMA ColdFits ==
  ASSUME buf' = Cold
  PROVE  PInv'
BY DEF Cold, PInv, BufShape, NothingParked

(* The buffer of an attachment that begins. *)
LEMMA DeferredFits ==
  ASSUME buf' = [Cold EXCEPT !.deferred = TRUE]
  PROVE  PInv'
<1>1. buf' = [next |-> 0, pending |-> {}, timer |-> FALSE, deferred |-> TRUE]
  BY DEF Cold
<1>2. buf'.pending = {} /\ buf'.timer = FALSE /\ buf'.deferred = TRUE
  BY <1>1
<1>3. BufShape'
  BY <1>1, <1>2 DEF BufShape
<1>4. NothingParked'
  BY <1>2 DEF NothingParked
<1>5. QED
  BY <1>3, <1>4 DEF PInv

(* A buffer that is left alone. *)
LEMMA KeptFits ==
  ASSUME PInv, buf' = buf
  PROVE  PInv'
BY DEF PInv, BufShape, NothingParked

(* A force flush leaves nothing behind. *)
LEMMA ForcedFits ==
  ASSUME NEW b, b = [next |-> b.next, pending |-> b.pending, timer |-> b.timer,
                     deferred |-> b.deferred],
         b.deferred \in BOOLEAN, buf' = Forced(b)
  PROVE  PInv'
<1>1. buf' = [next |-> Max(Seqs(b.pending)) + 1, pending |-> {}, timer |-> FALSE,
              deferred |-> b.deferred]
  BY DEF Forced
<1>2. QED
  BY <1>1 DEF PInv, BufShape, NothingParked

(* What a delivery leaves: the buffer after DONE, or the one that is named. *)
LEMMA Delivered ==
  ASSUME NEW S, NEW b, Deliver(S, b)
  PROVE  buf' = Cold \/ buf' = b
BY DEF Deliver, Closed

(* The message that comes next releases itself, so that what is left was there *)
(* before, and the timer with it.                                              *)
LEMMA DrainedFits ==
  ASSUME PInv, NEW e, ~buf.deferred, seqOf[e] = buf.next, seqOf[e] \in Int,
         NEW b, b = [buf EXCEPT !.pending = @ \cup {e}], buf' = Drained(b)
  PROVE  PInv'
<1>1. b = [next |-> buf.next, pending |-> buf.pending \cup {e}, timer |-> buf.timer,
           deferred |-> buf.deferred]
  BY DEF PInv, BufShape
<1>2. e \in Ready(b)
  <2>1. b.next..seqOf[e] = {seqOf[e]} /\ e \in b.pending
    BY <1>1
  <2>2. QED
    BY <2>1 DEF Ready, Seqs
<1> DEFINE rest == b.pending \ Ready(b)
<1>3. rest \subseteq buf.pending
  BY <1>1, <1>2
<1>4. buf' = [next |-> b.next + Cardinality(Ready(b)), pending |-> rest,
              timer |-> (buf.timer /\ rest # {}), deferred |-> buf.deferred]
  BY <1>1 DEF Drained
<1>5. buf'.pending = rest /\ buf'.timer = (buf.timer /\ rest # {}) /\ buf'.deferred = buf.deferred
  BY <1>4
<1>6. BufShape'
  BY <1>4, <1>5 DEF BufShape, PInv
<1>7. rest # {} => buf.timer
  BY <1>3 DEF PInv, NothingParked
<1>8. NothingParked'
  BY <1>5, <1>7 DEF NothingParked
<1>9. QED
  BY <1>6, <1>8 DEF PInv

(* A message that must wait arms the timer, unless delivery is deferred. *)
LEMMA HeldFits ==
  ASSUME PInv, NEW e, NEW b, b = [buf EXCEPT !.pending = @ \cup {e}], buf' = Hold(b)
  PROVE  PInv'
<1>1. b = [next |-> buf.next, pending |-> buf.pending \cup {e}, timer |-> buf.timer,
           deferred |-> buf.deferred]
  BY DEF PInv, BufShape
<1>2. buf' = [next |-> buf.next, pending |-> buf.pending \cup {e},
              timer |-> (buf.timer \/ ~buf.deferred), deferred |-> buf.deferred]
  BY <1>1 DEF Hold
<1>3. buf'.timer = (buf.timer \/ ~buf.deferred) /\ buf'.deferred = buf.deferred
  BY <1>2
<1>4. BufShape'
  BY <1>2, <1>3 DEF BufShape, PInv
<1>5. NothingParked'
  BY <1>3, Zenon DEF NothingParked
<1>6. QED
  BY <1>4, <1>5 DEF PInv

(* How the end of an attachment sets the timer. *)
LEMMA TimerWritten ==
  ASSUME NEW n, NEW p, NEW t, NEW d, NEW b,
         b = [next |-> n, pending |-> p, timer |-> t, deferred |-> d],
         NEW x, NEW c, c = [b EXCEPT !.timer = x]
  PROVE  c = [next |-> n, pending |-> p, timer |-> x, deferred |-> d]
OBVIOUS

(* An attachment that completes arms the timer for what it could not release. *)
LEMMA SyncedFits ==
  ASSUME PInv, NEW r, NEW b, b = Synced(r),
         buf' = [Drained(b) EXCEPT !.timer = b.pending # Ready(b)]
  PROVE  PInv'
<1>1. \E n, p, t, d : b = [next |-> n, pending |-> p, timer |-> t, deferred |-> d] /\ d = FALSE
  BY DEF PInv, BufShape, Synced
<1>2. PICK n, p, t, d : b = [next |-> n, pending |-> p, timer |-> t, deferred |-> d] /\ d = FALSE
  BY <1>1
<1> DEFINE rest == b.pending \ Ready(b)
<1>3. PICK c, m, q, u : /\ c = Drained(b) /\ q = rest
                        /\ c = [b EXCEPT !.pending = q, !.next = m, !.timer = u]
  <2>1. PICK m, u : /\ m = b.next + Cardinality(Ready(b))
                    /\ u = (b.timer /\ rest # {})
    OBVIOUS
  <2>2. Drained(b) = [b EXCEPT !.pending = rest, !.next = m, !.timer = u]
    BY <2>1 DEF Drained
  <2>3. QED
    BY <2>2
<1>4. c = [next |-> m, pending |-> q, timer |-> u, deferred |-> d]
  <2>1. b = [next |-> n, pending |-> p, timer |-> t, deferred |-> d]
    BY <1>2
  <2>2. c = [b EXCEPT !.pending = q, !.next = m, !.timer = u]
    BY <1>3
  <2>3. QED
    BY ONLY <2>1, <2>2
<1>5. PICK x, a : x = (b.pending # Ready(b)) /\ a = buf' /\ a = [c EXCEPT !.timer = x]
  BY <1>3
<1>6. a = [next |-> m, pending |-> q, timer |-> x, deferred |-> d]
  BY <1>4, <1>5, TimerWritten
<1>7. buf'.pending = rest /\ buf'.timer = (b.pending # Ready(b)) /\ buf'.deferred = FALSE
  <2>1. a.pending = q /\ a.timer = x /\ a.deferred = d
    BY <1>6
  <2>2. QED
    BY <2>1, <1>2, <1>3, <1>5
<1>8. BufShape'
  BY <1>6, <1>7, <1>5 DEF BufShape
<1>9. rest # {} => b.pending # Ready(b)
  OBVIOUS
<1>10. NothingParked'
  BY <1>7, <1>9 DEF NothingParked
<1>11. QED
  BY <1>8, <1>10 DEF PInv

-----------------------------------------------------------------------------
(* Whatever is a part of a frame is counted by a number. *)
LEMMA PartsCounted ==
  ASSUME NEW c \in SUBSET Events
  PROVE  Cardinality(c) \in Int /\ \A e : Cardinality({f \in c : f < e}) \in Int
<1>1. IsFiniteSet(Events)
  BY FS_Interval, TransportBounds DEF Events
<1>2. \A d \in SUBSET Events : Cardinality(d) \in Nat
  BY <1>1, FS_Subset, FS_CardinalityType
<1>3. \A e : {f \in c : f < e} \in SUBSET Events
  OBVIOUS
<1>4. QED
  BY <1>2, <1>3

(* PUBLISH_SEQ_LUA gives numbers, and leaves a number in the counter. *)
LEMMA PublishNumbers ==
  ASSUME NumInv, NEW c \in SUBSET Events, Publish(c)
  PROVE  counter' \in Int /\ seqOf' \in [Events -> Int]
<1>1. counter' \in Int
  BY PartsCounted DEF NumInv, Publish
<1>2. \A e \in Events : (IF e \in c THEN counter + Cardinality({f \in c : f < e})
                                     ELSE seqOf[e]) \in Int
  BY PartsCounted DEF NumInv
<1>3. seqOf' \in [Events -> Int]
  BY <1>2 DEF Publish
<1>4. QED
  BY <1>1, <1>3

(* The head of what was issued is a set of events, and the rest are too. *)
LEMMA HeadIsFrame ==
  ASSUME NumInv, wire # <<>>
  PROVE  Head(wire) \in SUBSET Events /\ Tail(wire) \in Seq(SUBSET Events)
BY DEF NumInv

(* Flushing the window issues sets of events. *)
LEMMA FlushedFits ==
  ASSUME NumInv
  PROVE  Flushed \in Seq(SUBSET Events)
<1>1. batch \in SUBSET Events /\ wire \in Seq(SUBSET Events)
  BY DEF NumInv
<1>2. Append(wire, batch) \in Seq(SUBSET Events)
  BY <1>1
<1>3. QED
  BY <1>1, <1>2 DEF Flushed

(* Every step keeps the numbers. *)
LEMMA NumStep ==
  ASSUME NumInv, [Next]_vars
  PROVE  NumInv'
<1> USE DEF NumInv
<1>1. CASE EmitDelta
  <2>1. emitted + 1 \in Events
    BY <1>1, TransportBounds DEF EmitDelta, Events
  <2>2. batch' \subseteq Events
    BY <1>1, <2>1 DEF EmitDelta
  <2>3. QED
    BY <1>1, <2>2 DEF EmitDelta
<1>2. CASE EmitChunk
  <2>1. {emitted + 1} \in SUBSET Events
    BY <1>2, TransportBounds DEF EmitChunk, Events
  <2>2. wire' \in Seq(SUBSET Events)
    BY <1>2, <2>1, FlushedFits DEF EmitChunk
  <2>3. QED
    BY <1>2, <2>2 DEF EmitChunk
<1>3. CASE EmitDone
  <2>1. Done \in Events
    BY TransportBounds DEF Done, Events
  <2>2. QED
    BY <1>3, <2>1, FlushedFits, TransportBounds DEF EmitDone
<1>4. CASE FlushWindow
  BY <1>4, FlushedFits DEF FlushWindow
<1>5. CASE Execute
  BY <1>5, HeadIsFrame, PublishNumbers DEF Execute
<1>6. CASE Refuse
  BY <1>6, HeadIsFrame DEF Refuse
<1>7. CASE ReplyLost
  BY <1>7, HeadIsFrame, PublishNumbers DEF ReplyLost
<1>8. CASE Settle
  BY <1>8 DEF Settle
<1>9. ASSUME NEW e \in Events, Lose(e) \/ Unheard(e) \/ HandleOrdered(e)
      PROVE  NumInv'
  BY <1>9 DEF Lose, Unheard, HandleOrdered
<1>10. CASE FlushTimeout \/ Subscribe \/ MarkSubscriber \/ Sync \/ SyncGone \/ StoredTerminal
  BY <1>10 DEF FlushTimeout, Subscribe, MarkSubscriber, Sync, SyncGone, StoredTerminal
<1>11. CASE Replay
  <2>1. Get \in SUBSET Events
    BY DEF Get
  <2>2. QED
    BY <1>11, <2>1 DEF Replay
<1>12. CASE UNCHANGED vars
  BY <1>12 DEF vars
<1>13. QED
  BY <1>1, <1>2, <1>3, <1>4, <1>5, <1>6, <1>7, <1>8, <1>9, <1>10, <1>11, <1>12 DEF Next

(* Every step leaves the reorder buffer with nothing parked. *)
LEMMA ParkStep ==
  ASSUME IInv, [Next]_vars
  PROVE  PInv'
<1>0. PInv
  BY DEF IInv
<1>1. CASE EmitDelta \/ EmitChunk \/ EmitDone \/ FlushWindow \/ Execute \/ Refuse \/ ReplyLost
  BY <1>0, <1>1, KeptFits
     DEF EmitDelta, EmitChunk, EmitDone, FlushWindow, Execute, Refuse, ReplyLost
<1>2. CASE Settle
  <2>1. buf' = Cold \/ buf' = buf
    BY <1>2 DEF Settle, Closed
  <2>2. QED
    BY <1>0, <2>1, ColdFits, KeptFits
<1>3. ASSUME NEW e \in Events, Lose(e) \/ Unheard(e)
      PROVE  PInv'
  BY <1>0, <1>3, KeptFits DEF Lose, Unheard
<1>4. ASSUME NEW e \in Events, HandleOrdered(e)
      PROVE  PInv'
  <2> DEFINE b == [buf EXCEPT !.pending = @ \cup {e}]
             late == ~buf.deferred /\ seqOf[e] < buf.next
             next == ~buf.deferred /\ seqOf[e] = buf.next
  <2>1. \/ buf' = buf
        \/ next /\ Deliver(Ready(b), Drained(b))
        \/ buf' = Hold(b)
        \/ Deliver(b.pending, Forced(b))
    BY <1>4 DEF HandleOrdered
  <2>2. seqOf[e] \in Int
    BY DEF IInv, NumInv
  <2>3. CASE next /\ Deliver(Ready(b), Drained(b))
    <3>1. buf' = Cold \/ buf' = Drained(b)
      BY <2>3, Delivered
    <3>2. QED
      BY <1>0, <2>2, <2>3, <3>1, ColdFits, DrainedFits
  <2>4. CASE Deliver(b.pending, Forced(b))
    <3>1. buf' = Cold \/ buf' = Forced(b)
      BY <2>4, Delivered
    <3>2. b = [next |-> b.next, pending |-> b.pending, timer |-> b.timer,
               deferred |-> b.deferred] /\ b.deferred \in BOOLEAN
      BY <1>0 DEF PInv, BufShape
    <3>3. QED
      BY <3>1, <3>2, ColdFits, ForcedFits
  <2>5. QED
    BY <1>0, <2>1, <2>3, <2>4, KeptFits, HeldFits
<1>5. CASE FlushTimeout
  <2>1. buf' = Cold \/ buf' = Forced(buf)
    BY <1>5, Delivered DEF FlushTimeout
  <2>2. QED
    BY <1>0, <2>1, ColdFits, ForcedFits DEF PInv, BufShape
<1>6. CASE Subscribe
  BY <1>6, DeferredFits DEF Subscribe
<1>7. CASE MarkSubscriber \/ Replay \/ SyncGone
  BY <1>0, <1>7, KeptFits DEF MarkSubscriber, Replay, SyncGone
<1>8. CASE Sync
  <2> DEFINE b == Synced(Head(replies))
  <2>1. buf' = Cold \/ buf' = [Drained(b) EXCEPT !.timer = b.pending # Ready(b)]
    BY <1>8 DEF Sync, Closed
  <2>2. QED
    BY <1>0, <2>1, ColdFits, SyncedFits
<1>9. CASE StoredTerminal
  <2>1. buf' = Cold \/ buf' = buf
    BY <1>9 DEF StoredTerminal, Closed
  <2>2. QED
    BY <1>0, <2>1, ColdFits, KeptFits
<1>10. CASE UNCHANGED vars
  BY <1>0, <1>10, KeptFits DEF vars
<1>11. QED
  BY <1>1, <1>2, <1>3, <1>4, <1>5, <1>6, <1>7, <1>8, <1>9, <1>10 DEF Next

(* handleOrderedChunk, flushPendingMessages, forceFlushBuffer and             *)
(* syncReorderBuffer: in every reachable state, a message that waits in the   *)
(* reorder buffer has a flush timeout armed, or its attachment is still       *)
(* deferring delivery.                                                        *)
THEOREM NothingStranded == Spec => []NothingParked
<1>1. Init => IInv
  <2>1. ASSUME Init PROVE PInv
    BY <2>1 DEF Init, Cold, PInv, BufShape, NothingParked
  <2>2. ASSUME Init PROVE NumInv
    BY <2>2, TransportBounds DEF Init, NumInv, None
  <2>3. QED
    BY <2>1, <2>2 DEF IInv
<1>2. IInv /\ [Next]_vars => IInv'
  BY ParkStep, NumStep DEF IInv
<1>3. IInv => NothingParked
  BY DEF IInv, PInv
<1>4. QED
  BY <1>1, <1>2, <1>3, PTL DEF Spec

-----------------------------------------------------------------------------
(* Order, duplicates and losses: the invariant. *)

(* Whether event e is in a frame of w, or in the open window b. *)
InQueue(w, b, e) == e \in b \/ \E i \in 1 .. Len(w) : e \in w[i]

(* The frames of w, and the window b behind them, are in order of emission. *)
Ordered(w, b) ==
  /\ \A i, j \in 1 .. Len(w) : i < j => \A e \in w[i], f \in w[j] : e < f
  /\ \A i \in 1 .. Len(w) : \A e \in w[i], f \in b : e < f

(* An event waits for Redis, has been executed or refused, has a sequence. *)
Waits(e) == InQueue(wire, batch, e)
Processed(e) == e <= emitted /\ ~Waits(e)
Given(e) == seqOf[e] # None

(* The producer's queue: what waits was emitted after all that was processed, *)
(* and what was processed has a sequence or was refused.                      *)
QueueFits ==
  /\ Ordered(wire, batch)
  /\ \A e \in Events : Waits(e) => e <= emitted /\ ~Given(e) /\ receipt[e] = "pending"
  /\ \A e, f \in Events : Processed(e) /\ Waits(f) => e < f
  /\ \A e \in Events : e <= emitted => receipt[e] # "none"
  /\ \A e \in Events : Given(e) => e <= emitted
  /\ \A e \in Events : Processed(e) /\ ~Given(e) => e \in hist.unpublished

(* Sequences follow the order of emission, below the counter. *)
SeqFits ==
  /\ \A e \in Events : Given(e) => seqOf[e] \in Nat /\ seqOf[e] < counter
  /\ \A e, f \in Events : Given(e) /\ Given(f) /\ e < f => seqOf[e] < seqOf[f]
  /\ \A e \in flying \cup buf.pending : Given(e)

(* What an answer of Redis may say. *)
ReplyFits(r) ==
  /\ r.val <= counter
  /\ \A e \in r.cmd : /\ Processed(e) /\ (r.ok => Given(e))
                      /\ ~r.ok /\ Given(e) => e \in hist.unsure

(* A receipt tells the truth, unless the answer was lost. *)
ReceiptFits ==
  /\ \A e \in Events : receipt[e] = "number" => Given(e)
  /\ \A e \in Events : receipt[e] = "undefined" /\ Given(e) => e \in hist.unsure
  /\ \A i \in 1 .. Len(replies) : ReplyFits(replies[i])

(* The first events, up to some one. *)
Segment(S) == \A e \in S, f \in Events : f < e => f \in S

(* The early buffer holds the first events, or has overflowed. *)
EarlyFits ==
  /\ att.at \in {"off", "ready"} =>
       /\ early.closed => early.overflowed
       /\ ~early.overflowed => \A e \in Events : e \in early.evs <=> e <= emitted /\ e < N
  /\ early.overflowed => early.evs = {} /\ early.closed
  /\ att.at = "fence" => Segment(early.evs) /\ \A e \in early.evs : e <= emitted
  /\ att.at \in {"sync", "check", "live"} => early.evs = {}

(* The reorder buffer is behind the counter, and holds nothing it has passed. *)
BufFits ==
  /\ buf.next \in Nat /\ buf.next <= counter
  /\ \A e \in buf.pending : seqOf[e] >= buf.next
  /\ att.at \in {"off", "closed"} => buf.pending = {} /\ ~buf.timer
  /\ att.at \in {"ready", "fence", "sync"} => buf.deferred /\ ~buf.timer /\ buf.next = 0
  /\ att.at \in {"check", "live"} => ~buf.deferred

(* Before n the client has what was replayed and what was delivered; a        *)
(* replayed event with a sequence from n on is one the producer is unsure of. *)
Replayed(n) ==
  \E R \in SUBSET seen :
    /\ Segment(R)
    /\ \A e \in R : Processed(e)
    /\ \A e \in R : Given(e) /\ seqOf[e] >= n => e \in hist.unsure
    /\ \A e \in seen \ R : Given(e) /\ seqOf[e] < n

(* What the replay delivered, and what its frontier says of it. *)
ReplayFits ==
  /\ att.at \in {"off", "ready", "fence"} => seen = {}
  /\ att.at = "sync" =>
       /\ Segment(seen) /\ \A e \in seen : Processed(e)
       /\ att.frontier # None =>
            /\ att.frontier \in Nat /\ att.frontier <= counter
            /\ \A e \in Events : Given(e) /\ seqOf[e] < att.frontier => e \in seen
       /\ \A e \in seen : Given(e) /\ (att.frontier # None => seqOf[e] >= att.frontier)
                             => e \in hist.unsure
  /\ att.at \in {"check", "live"} => Replayed(buf.next)

(* What the client may miss although it was published. *)
Excused == hist.lost \cup hist.skipped \cup hist.passed \cup hist.cut

(* Below n, whatever the client misses is accounted for. *)
Covered(n) ==
  \A e \in Events : Given(e) /\ e < N /\ seqOf[e] < n => e \in seen \cup Excused

(* Nothing that was published disappears without a trace: before the replay   *)
(* unless the early buffer overflowed, after it in any case.                  *)
LossFits ==
  /\ ~early.overflowed /\ att.at \in {"off", "ready", "fence", "sync"} =>
       \A e \in Events : Given(e) /\ e < N =>
         e \in flying \cup buf.pending \cup seen \cup early.evs \cup hist.lost
  /\ att.at \in {"check", "live"} => Covered(buf.next)

(* Only an attachment that is over has ended. *)
EndFits == att.end # "none" => att.at = "closed"

(* The transport's side, the subscriber's side, and the inductive invariant. *)
PipeInv == QueueFits /\ SeqFits /\ ReceiptFits
ClientInv == EarlyFits /\ BufFits /\ ReplayFits /\ LossFits /\ EndFits
OrderInv == TypeOK /\ PipeInv /\ ClientInv /\ NoDuplicates /\ NoSilentLoss

-----------------------------------------------------------------------------
(* The queue. *)

(* A frame joins the queue behind everything in it. *)
LEMMA FrameJoins ==
  ASSUME NEW w \in Seq(SUBSET Events), NEW b \in SUBSET Events, NEW c \in SUBSET Events,
         Ordered(w, b), NEW d \in SUBSET Events, d = b \/ d = {},
         \A e \in Events, f \in c : (\E i \in 1 .. Len(w) : e \in w[i]) => e < f,
         \A e \in c, f \in d : e < f
  PROVE  /\ Append(w, c) \in Seq(SUBSET Events) /\ Ordered(Append(w, c), d)
         /\ \A e \in Events : InQueue(Append(w, c), d, e) <=> InQueue(w, d, e) \/ e \in c
<1> DEFINE v == Append(w, c)
<1>1. /\ v \in Seq(SUBSET Events) /\ Len(v) = Len(w) + 1 /\ Len(w) \in Nat
      /\ v[Len(w) + 1] = c /\ \A i \in 1 .. Len(w) : v[i] = w[i]
  OBVIOUS
<1> HIDE DEF v
<1>2. \A i \in 1 .. Len(v) : i \in 1 .. Len(w) \/ i = Len(w) + 1
  BY <1>1
<1>3. \A i \in 1 .. Len(w) : w[i] \subseteq Events /\ i \in 1 .. Len(v)
  BY <1>1
<1>4. Len(w) + 1 \in 1 .. Len(v)
  BY <1>1
<1>5. ASSUME NEW i \in 1 .. Len(v), NEW j \in 1 .. Len(v), i < j, NEW e \in v[i], NEW f \in v[j]
      PROVE  e < f
  <2>1. i \in 1 .. Len(w) /\ e \in w[i]
    BY <1>1, <1>2, <1>5
  <2>2. CASE j \in 1 .. Len(w)
    BY <1>1, <1>5, <2>1, <2>2 DEF Ordered
  <2>3. CASE j = Len(w) + 1
    BY <1>1, <1>3, <1>5, <2>1, <2>3
  <2> QED BY <1>2, <2>2, <2>3
<1>6. ASSUME NEW i \in 1 .. Len(v), NEW e \in v[i], NEW f \in d
      PROVE  e < f
  BY <1>1, <1>2, <1>6 DEF Ordered
<1>7. ASSUME NEW e \in Events
      PROVE  InQueue(v, d, e) <=> InQueue(w, d, e) \/ e \in c
  BY <1>1, <1>2, <1>3, <1>4 DEF InQueue
<1> QED BY <1>1, <1>5, <1>6, <1>7 DEF Ordered, v

(* The head of the queue leaves it, and everything behind it is later. *)
LEMMA FrameLeaves ==
  ASSUME NEW w \in Seq(SUBSET Events), w # <<>>, NEW b \in SUBSET Events, Ordered(w, b)
  PROVE  /\ Head(w) \in SUBSET Events /\ Tail(w) \in Seq(SUBSET Events) /\ Ordered(Tail(w), b)
         /\ \A e \in Events : InQueue(w, b, e) <=> InQueue(Tail(w), b, e) \/ e \in Head(w)
         /\ \A e \in Head(w), f \in Events : InQueue(Tail(w), b, f) => e < f
<1> DEFINE v == Tail(w)
<1>1. /\ v \in Seq(SUBSET Events) /\ Len(w) \in Nat \ {0} /\ Len(v) = Len(w) - 1 /\ Head(w) = w[1]
      /\ \A i \in 1 .. Len(v) : v[i] = w[i + 1]
  OBVIOUS
<1> HIDE DEF v
<1>2. \A i \in 1 .. Len(v) : i + 1 \in 1 .. Len(w) /\ i \in Int
  BY <1>1
<1>3. \A i \in 1 .. Len(w) : i = 1 \/ (i - 1 \in 1 .. Len(v) /\ w[i] = v[i - 1])
  BY <1>1
<1>4. 1 \in 1 .. Len(w) /\ \A i \in 1 .. Len(w) : w[i] \subseteq Events
  BY <1>1
<1>5. Ordered(v, b)
  <2>1. ASSUME NEW i \in 1 .. Len(v), NEW j \in 1 .. Len(v), i < j, NEW e \in v[i], NEW f \in v[j]
        PROVE  e < f
    <3>1. i + 1 < j + 1 /\ e \in w[i + 1] /\ f \in w[j + 1]
      BY <1>1, <1>2, <2>1
    <3> QED BY <1>2, <3>1 DEF Ordered
  <2>2. ASSUME NEW i \in 1 .. Len(v), NEW e \in v[i], NEW f \in b
        PROVE  e < f
    BY <1>1, <1>2, <2>2 DEF Ordered
  <2> QED BY <2>1, <2>2 DEF Ordered
<1>6. ASSUME NEW e \in Events
      PROVE  InQueue(w, b, e) <=> InQueue(v, b, e) \/ e \in Head(w)
  <2>1. ASSUME NEW i \in 1 .. Len(w), e \in w[i] PROVE InQueue(v, b, e) \/ e \in Head(w)
    BY <1>1, <1>3, <2>1 DEF InQueue
  <2>2. ASSUME NEW i \in 1 .. Len(v), e \in v[i] PROVE InQueue(w, b, e)
    BY <1>1, <1>2, <2>2 DEF InQueue
  <2>3. e \in Head(w) => InQueue(w, b, e)
    BY <1>1, <1>4 DEF InQueue
  <2> QED BY <2>1, <2>2, <2>3 DEF InQueue
<1>7. ASSUME NEW e \in Head(w), NEW f \in Events, InQueue(v, b, f)
      PROVE  e < f
  <2>1. CASE f \in b
    BY <1>1, <1>4, <2>1 DEF Ordered
  <2>2. ASSUME NEW i \in 1 .. Len(v), f \in v[i] PROVE e < f
    <3>1. f \in w[i + 1] /\ 1 < i + 1 /\ e \in w[1]
      BY <1>1, <1>2, <2>2
    <3> QED BY <1>2, <1>4, <3>1 DEF Ordered
  <2> QED BY <1>7, <2>1, <2>2 DEF InQueue
<1> QED BY <1>1, <1>4, <1>5, <1>6, <1>7 DEF v

(* What no step undoes: sequences, the counter, and what was processed.  An   *)
(* event that gets its sequence was waiting, gets one past the counter, and   *)
(* is on its way.                                                             *)
Advances ==
  /\ counter <= counter'
  /\ \A e \in Events : Processed(e) => Processed(e)'
  /\ \A e \in Events : Given(e) => seqOf'[e] = seqOf[e]
  /\ \A e \in Events : ~Given(e) /\ Given(e)' =>
       ~Processed(e) /\ seqOf'[e] \in Nat /\ seqOf'[e] >= counter /\ e \in flying'
  /\ hist.unsure \subseteq hist'.unsure

(* The facts about types that the proofs use. *)
LEMMA Types ==
  ASSUME TypeOK
  PROVE  /\ emitted \in 0 .. N /\ emitted \in Int /\ batch \in SUBSET Events
         /\ wire \in Seq(SUBSET Events) /\ counter \in Nat
         /\ \A e \in Events : seqOf[e] \in Nat \cup {None}
         /\ \A e \in Events : e \in Nat /\ 1 <= e /\ e <= N
         /\ N \in Nat \ {0} /\ Done \in Events
BY TransportBounds DEF TypeOK, Events, Done

(* What an answer looks like. *)
ReplyType == [cmd : SUBSET Events, ok : BOOLEAN, val : Nat]

(* Every answer on its way looks like that. *)
LEMMA RepliesTyped ==
  ASSUME TypeOK
  PROVE  /\ replies \in Seq(ReplyType)
         /\ \A i \in 1 .. Len(replies) :
              /\ replies[i] \in ReplyType
              /\ replies[i].cmd \subseteq Events /\ replies[i].val \in Nat
<1>1. replies \in Seq(ReplyType)
  BY DEF TypeOK, ReplyType
<1>2. \A i \in 1 .. Len(replies) : replies[i] \in ReplyType
  BY <1>1
<1>3. \A r \in ReplyType : r.cmd \subseteq Events /\ r.val \in Nat
  BY DEF ReplyType
<1> QED BY <1>1, <1>2, <1>3

(* A step of the producer: a window that closes, and perhaps a new event. *)
Queues ==
  /\ wire' \in Seq(SUBSET Events) /\ batch' \in SUBSET Events
  /\ Ordered(wire', batch')
  /\ emitted' \in {emitted, emitted + 1} /\ emitted' <= N
  /\ \A e \in Events : InQueue(wire', batch', e)
                         <=> Waits(e) \/ (emitted' = emitted + 1 /\ e = emitted + 1)
  /\ receipt' = [e \in Events |-> IF emitted' = emitted + 1 /\ e = emitted + 1 THEN "pending"
                                  ELSE receipt[e]]
  /\ UNCHANGED <<replies, counter, seqOf, flying, hist>>

(* Such a step keeps the transport's side of the invariant. *)
LEMMA QueuesKeeps ==
  ASSUME TypeOK, PipeInv, Queues, buf' = buf
  PROVE  PipeInv' /\ Advances
<1> USE Types
<1>1. ASSUME NEW e \in Events
      PROVE  /\ Waits(e)' <=> Waits(e) \/ (emitted' = emitted + 1 /\ e = emitted + 1)
             /\ Given(e)' <=> Given(e)
             /\ Waits(e) => e <= emitted
             /\ Processed(e) => Processed(e)'
             /\ Processed(e)' => Processed(e)
  <2>1. Waits(e)' <=> Waits(e) \/ (emitted' = emitted + 1 /\ e = emitted + 1)
    BY DEF Queues, Waits
  <2>2. Waits(e) => e <= emitted
    BY DEF PipeInv, QueueFits
  <2>3. Given(e)' <=> Given(e)
    BY DEF Queues, Given
  <2>4. Processed(e) => Processed(e)'
    BY <2>1 DEF Queues, Processed
  <2>5. Processed(e)' => Processed(e)
    BY <2>1 DEF Queues, Processed
  <2> QED BY <2>1, <2>2, <2>3, <2>4, <2>5
<1>2. Advances
  BY <1>1 DEF Advances, Queues
<1>3. QueueFits'
  <2>1. Ordered(wire', batch')
    BY DEF Queues
  <2>2. ASSUME NEW e \in Events, Waits(e)'
        PROVE  e <= emitted' /\ ~Given(e)' /\ receipt'[e] = "pending"
    <3>1. CASE Waits(e)
      BY <1>1, <3>1 DEF PipeInv, QueueFits, Queues
    <3>2. CASE emitted' = emitted + 1 /\ e = emitted + 1
      BY <1>1, <3>2 DEF PipeInv, QueueFits, Queues
    <3> QED BY <1>1, <2>2, <3>1, <3>2
  <2>3. ASSUME NEW e \in Events, NEW f \in Events, Processed(e)', Waits(f)'
        PROVE  e < f
    <3>1. Processed(e)
      BY <1>1, <2>3
    <3>2. CASE Waits(f)
      BY <3>1, <3>2 DEF PipeInv, QueueFits
    <3>3. CASE emitted' = emitted + 1 /\ f = emitted + 1
      BY <3>1, <3>3 DEF Processed
    <3> QED BY <1>1, <2>3, <3>2, <3>3
  <2>4. ASSUME NEW e \in Events, e <= emitted'
        PROVE  receipt'[e] # "none"
    BY <2>4 DEF Queues, PipeInv, QueueFits
  <2>5. ASSUME NEW e \in Events, Given(e)'
        PROVE  e <= emitted'
    BY <1>1, <2>5 DEF Queues, PipeInv, QueueFits
  <2>6. ASSUME NEW e \in Events, Processed(e)', ~Given(e)'
        PROVE  e \in hist'.unpublished
    BY <1>1, <2>6 DEF Queues, PipeInv, QueueFits
  <2> QED BY <2>1, <2>2, <2>3, <2>4, <2>5, <2>6 DEF QueueFits
<1>4. SeqFits'
  BY DEF Queues, PipeInv, SeqFits, Given
<1>5. ReceiptFits'
  <2>1. ASSUME NEW e \in Events
        PROVE  /\ receipt'[e] = "number" => Given(e)'
               /\ receipt'[e] = "undefined" /\ Given(e)' => e \in hist'.unsure
    BY <1>1 DEF Queues, PipeInv, ReceiptFits
  <2>2. ASSUME NEW i \in 1 .. Len(replies)
        PROVE  ReplyFits(replies[i])'
    <3>1. ReplyFits(replies[i]) /\ replies[i].cmd \subseteq Events
      BY RepliesTyped DEF PipeInv, ReceiptFits
    <3> QED BY <1>1, <3>1 DEF ReplyFits, Queues
  <2> QED BY <2>1, <2>2 DEF ReceiptFits, Queues
<1> QED BY <1>2, <1>3, <1>4, <1>5 DEF PipeInv

(* Closing the window changes nothing about what waits. *)
LEMMA WindowCloses ==
  ASSUME TypeOK, PipeInv
  PROVE  /\ Flushed \in Seq(SUBSET Events) /\ Ordered(Flushed, {})
         /\ \A e \in Events : InQueue(Flushed, {}, e) <=> Waits(e)
<1> USE Types
<1>1. Ordered(wire, batch)
  BY DEF PipeInv, QueueFits
<1>2. CASE batch = {}
  BY <1>1, <1>2 DEF Flushed, Waits
<1>3. CASE batch # {}
  <2>1. \A e \in Events, f \in batch : (\E i \in 1 .. Len(wire) : e \in wire[i]) => e < f
    BY <1>1 DEF Ordered
  <2>2. /\ Append(wire, batch) \in Seq(SUBSET Events) /\ Ordered(Append(wire, batch), {})
        /\ \A e \in Events : InQueue(Append(wire, batch), {}, e)
                                <=> InQueue(wire, {}, e) \/ e \in batch
    BY <1>1, <2>1, FrameJoins
  <2> QED BY <1>3, <2>2 DEF Flushed, Waits, InQueue
<1> QED BY <1>2, <1>3

(* Every step of the producer is such a step, and so is asking for the counter. *)
LEMMA ProducerQueues ==
  ASSUME TypeOK, PipeInv, EmitDelta \/ EmitChunk \/ EmitDone \/ FlushWindow \/ Replay
  PROVE  Queues
<1> USE Types
<1>0. /\ Ordered(wire, batch) /\ receipt = [e \in Events |-> receipt[e]]
      /\ \A e \in Events : Waits(e) => e < emitted + 1
  <2>1. \A e \in Events : Waits(e) => e <= emitted
    BY DEF PipeInv, QueueFits
  <2> QED BY <2>1 DEF PipeInv, QueueFits, TypeOK
<1>1. ASSUME emitted + 1 \in Events,
             wire' = Append(Flushed, {emitted + 1}), batch' = {}, emitted' = emitted + 1,
             receipt' = [receipt EXCEPT ![emitted + 1] = "pending"],
             UNCHANGED <<replies, counter, seqOf, flying, hist>>
      PROVE  Queues
  <2> DEFINE c == {emitted + 1}
  <2>1. \A e \in Events, f \in c : (\E i \in 1 .. Len(Flushed) : e \in Flushed[i]) => e < f
    BY <1>0, WindowCloses DEF InQueue
  <2>2. c \in SUBSET Events
    BY <1>1
  <2> HIDE DEF c
  <2>3. /\ Append(Flushed, c) \in Seq(SUBSET Events) /\ Ordered(Append(Flushed, c), {})
        /\ \A e \in Events : InQueue(Append(Flushed, c), {}, e)
                                <=> InQueue(Flushed, {}, e) \/ e \in c
    BY <2>1, <2>2, WindowCloses, FrameJoins
  <2>4. \A e \in Events : InQueue(wire', batch', e) <=> Waits(e) \/ e = emitted + 1
    BY <1>1, <2>3, WindowCloses DEF c
  <2>5. receipt' = [e \in Events |-> IF e = emitted + 1 THEN "pending" ELSE receipt[e]]
    BY <1>0, <1>1
  <2>6. wire' \in Seq(SUBSET Events) /\ Ordered(wire', batch') /\ batch' \in SUBSET Events
    BY <1>1, <2>3 DEF c
  <2> QED BY <1>1, <2>4, <2>5, <2>6 DEF Queues
<1>2. CASE EmitDelta
  <2>1. emitted + 1 \in Events /\ batch' = batch \cup {emitted + 1} /\ wire' = wire
    BY <1>2 DEF EmitDelta, Events
  <2>2. Ordered(wire', batch')
    <3>1. \A i \in 1 .. Len(wire) : \A e \in wire[i] : e \in Events /\ Waits(e)
      BY DEF Waits, InQueue
    <3>2. \A i \in 1 .. Len(wire) : \A e \in wire[i] : e < emitted + 1
      BY <1>0, <3>1
    <3> QED BY <1>0, <2>1, <3>2 DEF Ordered
  <2>3. \A e \in Events : InQueue(wire', batch', e) <=> Waits(e) \/ e = emitted + 1
    BY <2>1 DEF InQueue, Waits
  <2>4. receipt' = [e \in Events |-> IF e = emitted + 1 THEN "pending" ELSE receipt[e]]
    BY <1>0, <1>2 DEF EmitDelta
  <2> QED BY <1>2, <2>1, <2>2, <2>3, <2>4 DEF EmitDelta, Queues
<1>3. CASE EmitChunk
  BY <1>1, <1>3 DEF EmitChunk, Events
<1>4. CASE EmitDone
  <2>1. Done = emitted + 1
    BY <1>4 DEF EmitDone, Done
  <2> QED BY <1>1, <1>4, <2>1 DEF EmitDone, Done
<1>5. CASE FlushWindow
  <2>1. emitted' # emitted + 1
    BY <1>5 DEF FlushWindow
  <2> QED BY <1>0, <1>5, <2>1, WindowCloses DEF FlushWindow, Queues
<1>6. CASE Replay
  <2>1. emitted' # emitted + 1
    BY <1>6 DEF Replay
  <2>2. wire' = Append(wire, {}) /\ batch' = batch
    BY <1>6 DEF Replay, Get
  <2>3. /\ Append(wire, {}) \in Seq(SUBSET Events) /\ Ordered(Append(wire, {}), batch)
        /\ \A e \in Events : InQueue(Append(wire, {}), batch, e) <=> InQueue(wire, batch, e)
    BY <1>0, FrameJoins
  <2> QED BY <1>0, <1>6, <2>1, <2>2, <2>3 DEF Replay, Queues, Waits
<1> QED BY <1>2, <1>3, <1>4, <1>5, <1>6

-----------------------------------------------------------------------------
(* Redis. *)

(* The head of the queue is processed, whatever becomes of it. *)
LEMMA HeadProcessed ==
  ASSUME TypeOK, PipeInv, wire # <<>>, wire' = Tail(wire), batch' = batch, emitted' = emitted
  PROVE  /\ Head(wire) \in SUBSET Events /\ wire' \in Seq(SUBSET Events) /\ Ordered(wire', batch')
         /\ \A e \in Events : Waits(e) <=> Waits(e)' \/ e \in Head(wire)
         /\ \A e \in Events : e \in Head(wire) =>
              ~Waits(e)' /\ ~Processed(e) /\ ~Given(e) /\ e <= emitted /\ receipt[e] = "pending"
         /\ \A e \in Events : Processed(e)' <=> Processed(e) \/ e \in Head(wire)
         /\ \A e, f \in Events : Processed(e)' /\ Waits(f)' => e < f
<1> USE Types
<1>1. Ordered(wire, batch)
  BY DEF PipeInv, QueueFits
<1>2. /\ Head(wire) \in SUBSET Events /\ wire' \in Seq(SUBSET Events) /\ Ordered(wire', batch')
      /\ \A e \in Events : Waits(e) <=> Waits(e)' \/ e \in Head(wire)
      /\ \A e \in Head(wire), f \in Events : Waits(f)' => e < f
  BY <1>1, FrameLeaves DEF Waits
<1>3. ASSUME NEW e \in Events, e \in Head(wire)
      PROVE  ~Waits(e)' /\ ~Processed(e) /\ ~Given(e) /\ e <= emitted /\ receipt[e] = "pending"
  <2>1. ~Waits(e)'
    BY <1>2, <1>3
  <2>2. Waits(e)
    BY <1>2, <1>3
  <2> QED BY <2>1, <2>2 DEF Processed, PipeInv, QueueFits
<1>4. ASSUME NEW e \in Events
      PROVE  Processed(e)' <=> Processed(e) \/ e \in Head(wire)
  BY <1>2, <1>3 DEF Processed
<1>5. ASSUME NEW e \in Events, NEW f \in Events, Processed(e)', Waits(f)'
      PROVE  e < f
  BY <1>2, <1>4, <1>5 DEF PipeInv, QueueFits
<1> QED BY <1>2, <1>3, <1>4, <1>5

(* PUBLISH_SEQ_LUA: the frame's events get consecutive sequences, in their order. *)
LEMMA PublishFacts ==
  ASSUME TypeOK, NEW c \in SUBSET Events, Publish(c)
  PROVE  /\ counter' \in Nat /\ counter <= counter'
         /\ \A e \in c : seqOf'[e] \in Nat /\ counter <= seqOf'[e] /\ seqOf'[e] < counter'
         /\ \A e, f \in c : e < f => seqOf'[e] < seqOf'[f]
         /\ \A e \in Events : e \notin c => seqOf'[e] = seqOf[e]
         /\ seqOf' \in [Events -> Nat \cup {None}]
<1> USE Types
<1> DEFINE P(e) == {f \in c : f < e}
<1>1. IsFiniteSet(c)
  <2>1. IsFiniteSet(Events)
    BY FS_Interval DEF Events
  <2> QED BY <2>1, FS_Subset
<1>2. \A d : d \subseteq c => IsFiniteSet(d) /\ Cardinality(d) \in Nat
  BY <1>1, FS_Subset, FS_CardinalityType
<1>3. \A d, g : d \subseteq g /\ g \subseteq c /\ d # g => Cardinality(d) < Cardinality(g)
  <2> SUFFICES ASSUME NEW d, NEW g, d \subseteq g, g \subseteq c, d # g
               PROVE  Cardinality(d) < Cardinality(g)
    OBVIOUS
  <2>1. IsFiniteSet(g) /\ Cardinality(g) \in Nat /\ Cardinality(d) \in Nat
    BY <1>2
  <2>2. Cardinality(d) <= Cardinality(g) /\ (Cardinality(d) = Cardinality(g) => d = g)
    BY <2>1, FS_Subset
  <2> QED BY <2>1, <2>2
<1>4. \A e : P(e) \subseteq c
  OBVIOUS
<1>5. \A e \in c : P(e) # c
  <2> SUFFICES ASSUME NEW e \in c PROVE e \notin P(e)
    OBVIOUS
  <2>1. ~(e < e)
    OBVIOUS
  <2> QED BY <2>1
<1>6. \A e, f \in c : e < f => P(e) \subseteq P(f) /\ P(e) # P(f)
  <2> SUFFICES ASSUME NEW e \in c, NEW f \in c, e < f
               PROVE  P(e) \subseteq P(f) /\ P(e) # P(f)
    OBVIOUS
  <2>1. e \in P(f)
    OBVIOUS
  <2>2. e \notin P(e)
    <3>1. ~(e < e)
      OBVIOUS
    <3> QED BY <3>1
  <2>3. ASSUME NEW x \in P(e) PROVE x \in P(f)
    <3>1. x \in c /\ x < e /\ x \in Nat /\ e \in Nat /\ f \in Nat
      OBVIOUS
    <3>2. x < f
      BY <3>1
    <3> QED BY <3>1, <3>2
  <2> QED BY <2>1, <2>2, <2>3
<1>7. /\ seqOf' = [e \in Events |-> IF e \in c THEN counter + Cardinality(P(e)) ELSE seqOf[e]]
      /\ counter' = counter + Cardinality(c)
  BY DEF Publish
<1> HIDE DEF P
<1>8. \A e \in c : Cardinality(P(e)) \in Nat /\ Cardinality(P(e)) < Cardinality(c)
  BY <1>2, <1>3, <1>4, <1>5
<1>9. \A e, f \in c : e < f => Cardinality(P(e)) < Cardinality(P(f))
  BY <1>3, <1>4, <1>6
<1>10. counter \in Nat /\ Cardinality(c) \in Nat
  BY <1>2
<1>11. \A e \in c : seqOf'[e] = counter + Cardinality(P(e))
  BY <1>7
<1>12. \A e \in Events : e \notin c => seqOf'[e] = seqOf[e]
  BY <1>7
<1>13. \A e \in c : seqOf'[e] \in Nat /\ counter <= seqOf'[e] /\ seqOf'[e] < counter'
  BY <1>7, <1>8, <1>10, <1>11
<1>14. \A e, f \in c : e < f => seqOf'[e] < seqOf'[f]
  BY <1>8, <1>9, <1>10, <1>11
<1>15. seqOf' \in [Events -> Nat \cup {None}]
  <2>1. DOMAIN seqOf' = Events /\ seqOf' = [e \in Events |-> seqOf'[e]]
    BY <1>7
  <2>2. \A e \in Events : seqOf'[e] \in Nat \cup {None}
    BY <1>12, <1>13
  <2> QED BY <2>1, <2>2
<1>16. counter' \in Nat /\ counter <= counter'
  BY <1>7, <1>10
<1> HIDE DEF P
<1> QED BY ONLY <1>12, <1>13, <1>14, <1>15, <1>16

(* An answer on its way says no more than what happened. *)
LEMMA RepliesGrow ==
  ASSUME TypeOK, PipeInv, Advances, counter' \in Nat,
         \A i \in 1 .. Len(replies) : \A e \in replies[i].cmd : Given(e)' => Given(e),
         NEW r, r.cmd \subseteq Events, ReplyFits(r)', replies' = Append(replies, r)
  PROVE  \A i \in 1 .. Len(replies') : ReplyFits(replies[i])'
<1> USE Types
<1>1. ASSUME NEW i \in 1 .. Len(replies), NEW q, q = replies[i]
      PROVE  ReplyFits(q)'
  <2>1. ReplyFits(q) /\ q.cmd \subseteq Events /\ q.val \in Nat
    BY <1>1, RepliesTyped DEF PipeInv, ReceiptFits
  <2>2. q.val <= counter'
    BY <2>1 DEF ReplyFits, Advances
  <2>3. ASSUME NEW e \in q.cmd
        PROVE  Processed(e)' /\ (q.ok => Given(e)') /\ (~q.ok /\ Given(e)' => e \in hist'.unsure)
    <3>1. e \in Events /\ Processed(e) /\ (q.ok => Given(e)) /\ (~q.ok /\ Given(e) => e \in hist.unsure)
      BY <2>1, <2>3 DEF ReplyFits
    <3>2. Given(e) <=> Given(e)'
      BY <1>1, <3>1 DEF Advances, Given
    <3> QED BY <3>1, <3>2 DEF Advances
  <2> QED BY <2>2, <2>3 DEF ReplyFits
<1>2. /\ Len(replies') = Len(replies) + 1 /\ Len(replies) \in Nat /\ replies'[Len(replies) + 1] = r
      /\ \A i \in 1 .. Len(replies) : replies'[i] = replies[i]
  <2> DEFINE A == Append(replies, r)
  <2>1. replies \in Seq(ReplyType)
    BY RepliesTyped
  <2>2. /\ Len(A) = Len(replies) + 1 /\ Len(replies) \in Nat /\ A[Len(replies) + 1] = r
        /\ \A i \in 1 .. Len(replies) : A[i] = replies[i]
    BY ONLY <2>1
  <2> QED BY <2>2
<1>3. ASSUME NEW i \in 1 .. Len(replies')
      PROVE  ReplyFits(replies[i])'
  <2>1. PICK q : q = replies'[i]
    OBVIOUS
  <2>2. ReplyFits(q)'
    <3>1. i \in 1 .. Len(replies) \/ i = Len(replies) + 1
      BY <1>2
    <3>2. CASE i \in 1 .. Len(replies)
      BY <1>1, <1>2, <2>1, <3>2
    <3>3. CASE i = Len(replies) + 1
      BY <1>2, <2>1, <3>3
    <3> QED BY <3>1, <3>2, <3>3
  <2> QED BY <2>1, <2>2 DEF ReplyFits
<1> QED BY <1>3

(* What every command that leaves the queue has in common. *)
LEMMA CommandLeaves ==
  ASSUME TypeOK, PipeInv, NEW ok \in BOOLEAN, wire # <<>>, wire' = Tail(wire),
         replies' = Append(replies, Reply(Head(wire), ok)),
         UNCHANGED <<emitted, batch, receipt, early, att, buf, seen>>,
         counter' \in Nat, Advances,
         \A e \in Events : e \notin Head(wire) => seqOf'[e] = seqOf[e],
         \A e \in Head(wire) : ok => Given(e)',
         \A e \in Head(wire) : ~ok /\ Given(e)' => e \in hist'.unsure,
         \A e \in Head(wire) : ~Given(e)' => e \in hist'.unpublished,
         hist.unpublished \subseteq hist'.unpublished
  PROVE  QueueFits' /\ ReceiptFits'
<1> USE Types
<1>0. /\ Head(wire) \in SUBSET Events /\ Ordered(wire', batch')
      /\ \A e \in Events : Waits(e) <=> Waits(e)' \/ e \in Head(wire)
      /\ \A e \in Events : e \in Head(wire) =>
           ~Waits(e)' /\ ~Processed(e) /\ ~Given(e) /\ e <= emitted /\ receipt[e] = "pending"
      /\ \A e \in Events : Processed(e)' <=> Processed(e) \/ e \in Head(wire)
      /\ \A e, f \in Events : Processed(e)' /\ Waits(f)' => e < f
  BY HeadProcessed
<1>1. \A e \in Events : e \notin Head(wire) => (Given(e)' <=> Given(e))
  BY DEF Given
<1>2. QueueFits'
  <2>1. ASSUME NEW e \in Events, Waits(e)'
        PROVE  e <= emitted' /\ ~Given(e)' /\ receipt'[e] = "pending"
    <3>1. Waits(e) /\ e \notin Head(wire)
      BY <1>0, <2>1
    <3> QED BY <1>1, <3>1 DEF PipeInv, QueueFits
  <2>2. ASSUME NEW e \in Events, e <= emitted' PROVE receipt'[e] # "none"
    BY <2>2 DEF PipeInv, QueueFits
  <2>3. ASSUME NEW e \in Events, Given(e)' PROVE e <= emitted'
    BY <1>0, <1>1, <2>3 DEF PipeInv, QueueFits
  <2>4. ASSUME NEW e \in Events, Processed(e)', ~Given(e)' PROVE e \in hist'.unpublished
    BY <1>0, <1>1, <2>4 DEF PipeInv, QueueFits
  <2> QED BY <1>0, <2>1, <2>2, <2>3, <2>4 DEF QueueFits
<1>3. ASSUME NEW e \in Events
      PROVE  /\ receipt'[e] = "number" => Given(e)'
             /\ receipt'[e] = "undefined" /\ Given(e)' => e \in hist'.unsure
  <2>1. CASE e \in Head(wire)
    BY <1>0, <2>1
  <2>2. CASE e \notin Head(wire)
    BY <1>1, <2>2 DEF PipeInv, ReceiptFits, Advances
  <2> QED BY <2>1, <2>2
<1>4. PICK r : r = Reply(Head(wire), ok)
  OBVIOUS
<1>5. r.cmd = Head(wire) /\ r.ok = ok /\ r.val = counter
  BY <1>4 DEF Reply
<1>6. ReplyFits(r)'
  BY <1>0, <1>5 DEF ReplyFits, Advances
<1>7. \A i \in 1 .. Len(replies) : \A e \in replies[i].cmd : Given(e)' => Given(e)
  <2> SUFFICES ASSUME NEW i \in 1 .. Len(replies), NEW e \in replies[i].cmd, Given(e)'
               PROVE  Given(e)
    OBVIOUS
  <2>1. e \in Events /\ Processed(e)
    BY RepliesTyped DEF PipeInv, ReceiptFits, ReplyFits
  <2> QED BY <1>0, <1>1, <2>1
<1>8. \A i \in 1 .. Len(replies') : ReplyFits(replies[i])'
  BY <1>0, <1>4, <1>5, <1>6, <1>7, RepliesGrow
<1> QED BY <1>2, <1>3, <1>8 DEF ReceiptFits

(* A frame that is published. *)
LEMMA PublishedFits ==
  ASSUME TypeOK, PipeInv, wire # <<>>, wire' = Tail(wire), Publish(Head(wire)),
         UNCHANGED <<emitted, batch, buf>>, hist.unsure \subseteq hist'.unsure
  PROVE  /\ Advances /\ SeqFits' /\ counter' \in Nat
         /\ \A e \in Events : e \notin Head(wire) => seqOf'[e] = seqOf[e]
         /\ \A e \in Head(wire) : Given(e)'
<1> USE Types
<1> DEFINE c == Head(wire)
<1>0. /\ c \in SUBSET Events
      /\ \A e \in c : ~Processed(e) /\ ~Given(e) /\ Waits(e)
      /\ \A e \in Events : Processed(e) => Processed(e)'
  BY HeadProcessed
<1>1. /\ counter' \in Nat /\ counter <= counter'
      /\ \A e \in c : seqOf'[e] \in Nat /\ counter <= seqOf'[e] /\ seqOf'[e] < counter'
      /\ \A e, f \in c : e < f => seqOf'[e] < seqOf'[f]
      /\ \A e \in Events : e \notin c => seqOf'[e] = seqOf[e]
      /\ seqOf' \in [Events -> Nat \cup {None}]
  BY <1>0, PublishFacts
<1>2. flying' = flying \cup c
  BY DEF Publish
<1> HIDE DEF c
<1>3. \A e \in c : Given(e)'
  BY <1>1 DEF Given, None
<1>4. \A e \in Events : e \notin c => (Given(e)' <=> Given(e))
  BY <1>1 DEF Given
<1>5. Advances
  BY <1>0, <1>1, <1>2, <1>4 DEF Advances
<1>6. SeqFits'
  <2>1. ASSUME NEW e \in Events, Given(e)' PROVE seqOf'[e] \in Nat /\ seqOf'[e] < counter'
    <3>1. CASE e \in c
      BY <1>1, <3>1
    <3>2. CASE e \notin c
      <4>1. seqOf[e] \in Nat /\ seqOf[e] < counter /\ seqOf'[e] = seqOf[e]
        BY <1>1, <1>4, <2>1, <3>2 DEF PipeInv, SeqFits
      <4> QED BY <1>1, <4>1
    <3> QED BY <3>1, <3>2
  <2>2. ASSUME NEW e \in Events, NEW f \in Events, Given(e)', Given(f)', e < f
        PROVE  seqOf'[e] < seqOf'[f]
    <3>1. CASE e \in c /\ f \in c
      BY <1>1, <2>2, <3>1
    <3>2. CASE e \notin c /\ f \notin c
      BY <1>1, <1>4, <2>2, <3>2 DEF PipeInv, SeqFits
    <3>3. CASE e \notin c /\ f \in c
      <4>1. seqOf[e] \in Nat /\ seqOf[e] < counter /\ seqOf'[e] = seqOf[e]
        BY <1>1, <1>4, <2>2, <3>3 DEF PipeInv, SeqFits
      <4> QED BY <1>1, <3>3, <4>1
    <3>4. CASE e \in c /\ f \notin c
      <4>1. Given(f) /\ f <= emitted /\ ~Waits(f)
        BY <1>4, <2>2, <3>4 DEF PipeInv, QueueFits
      <4>2. Processed(f) /\ Waits(e)
        BY <1>0, <3>4, <4>1 DEF Processed
      <4>3. f < e
        BY <4>2 DEF PipeInv, QueueFits
      <4> QED BY <2>2, <4>3
    <3> QED BY <3>1, <3>2, <3>3, <3>4
  <2>3. ASSUME NEW e \in flying' \cup buf'.pending PROVE Given(e)'
    <3>1. e \in c \/ (e \in Events /\ Given(e))
      BY <1>2, <2>3 DEF PipeInv, SeqFits, TypeOK
    <3> QED BY <1>3, <1>4, <3>1
  <2> QED BY <2>1, <2>2, <2>3 DEF SeqFits
<1> QED BY <1>1, <1>3, <1>5, <1>6 DEF c

(* Execute, Refuse and ReplyLost keep the transport's side. *)
LEMMA RedisKeeps ==
  ASSUME TypeOK, PipeInv, Execute \/ Refuse \/ ReplyLost
  PROVE  PipeInv' /\ Advances
<1> USE Types
<1>1. CASE Execute
  <2>1. /\ Advances /\ SeqFits' /\ counter' \in Nat
        /\ \A e \in Events : e \notin Head(wire) => seqOf'[e] = seqOf[e]
        /\ \A e \in Head(wire) : Given(e)'
    BY <1>1, PublishedFits DEF Execute
  <2>2. /\ UNCHANGED <<emitted, batch, receipt, early, att, buf, seen>>
        /\ hist' = hist /\ wire # <<>> /\ wire' = Tail(wire)
        /\ replies' = Append(replies, Reply(Head(wire), TRUE))
    BY <1>1 DEF Execute
  <2>3. QueueFits' /\ ReceiptFits'
    BY <2>1, <2>2, CommandLeaves
  <2> QED BY <2>1, <2>3 DEF PipeInv
<1>2. CASE ReplyLost
  <2>0. /\ hist'.unsure = hist.unsure \cup Head(wire) /\ hist'.unpublished = hist.unpublished
    BY <1>2 DEF ReplyLost, TypeOK
  <2>1. /\ Advances /\ SeqFits' /\ counter' \in Nat
        /\ \A e \in Events : e \notin Head(wire) => seqOf'[e] = seqOf[e]
        /\ \A e \in Head(wire) : Given(e)'
    BY <1>2, <2>0, PublishedFits DEF ReplyLost
  <2>2. /\ UNCHANGED <<emitted, batch, receipt, early, att, buf, seen>>
        /\ wire # <<>> /\ wire' = Tail(wire)
        /\ replies' = Append(replies, Reply(Head(wire), FALSE))
    BY <1>2 DEF ReplyLost
  <2>3. QueueFits' /\ ReceiptFits'
    BY <2>0, <2>1, <2>2, CommandLeaves
  <2> QED BY <2>1, <2>3 DEF PipeInv
<1>3. CASE Refuse
  <2>0. /\ hist'.unsure = hist.unsure /\ hist'.unpublished = hist.unpublished \cup Head(wire)
    BY <1>3 DEF Refuse, TypeOK
  <2>1. /\ UNCHANGED <<emitted, batch, receipt, early, att, buf, seen, counter, seqOf, flying>>
        /\ wire # <<>> /\ wire' = Tail(wire)
        /\ replies' = Append(replies, Reply(Head(wire), FALSE))
    BY <1>3 DEF Refuse
  <2>2. \A e : Given(e)' <=> Given(e)
    BY <2>1 DEF Given
  <2>3. /\ \A e \in Events : Processed(e) => Processed(e)'
        /\ \A e \in Head(wire) : e \in Events /\ ~Given(e)
    BY <2>1, HeadProcessed
  <2>4. Advances
    BY <2>0, <2>1, <2>2, <2>3 DEF Advances
  <2>5. SeqFits'
    BY <2>1, <2>2 DEF PipeInv, SeqFits
  <2>6. QueueFits' /\ ReceiptFits'
    BY <2>0, <2>1, <2>2, <2>3, <2>4, CommandLeaves
  <2> QED BY <2>4, <2>5, <2>6 DEF PipeInv
<1> QED BY <1>1, <1>2, <1>3

(* What a step leaves of the queue and the sequences. *)
LEMMA SameQueue ==
  ASSUME UNCHANGED <<emitted, batch, wire, seqOf>>
  PROVE  \A e : /\ Waits(e)' <=> Waits(e)
                /\ Processed(e)' <=> Processed(e)
                /\ Given(e)' <=> Given(e)
BY DEF Waits, Processed, Given

(* The answer at the head is consumed. *)
LEMMA RepliesShrink ==
  ASSUME TypeOK, PipeInv, replies # <<>>, replies' = Tail(replies),
         UNCHANGED <<emitted, batch, wire, seqOf, counter>>, hist'.unsure = hist.unsure
  PROVE  /\ \A i \in 1 .. Len(replies') : ReplyFits(replies[i])'
         /\ Head(replies) \in ReplyType /\ Head(replies).cmd \subseteq Events
         /\ Head(replies).val \in Nat /\ ReplyFits(Head(replies))
         /\ replies' \in Seq(ReplyType)
<1>1. /\ Len(replies) \in Nat \ {0} /\ Len(replies') = Len(replies) - 1 /\ Head(replies) = replies[1]
      /\ \A i \in 1 .. Len(replies') : replies'[i] = replies[i + 1]
      /\ replies' \in Seq(ReplyType)
  <2>1. replies \in Seq(ReplyType)
    BY RepliesTyped
  <2>2. /\ Len(replies) \in Nat \ {0} /\ Len(Tail(replies)) = Len(replies) - 1
        /\ Head(replies) = replies[1] /\ Tail(replies) \in Seq(ReplyType)
        /\ \A i \in 1 .. Len(Tail(replies)) : Tail(replies)[i] = replies[i + 1]
    BY ONLY <2>1, replies # <<>>
  <2> QED BY <2>2
<1>2. \A i \in 1 .. Len(replies) : ReplyFits(replies[i])
  BY DEF PipeInv, ReceiptFits
<1>3. ASSUME NEW i \in 1 .. Len(replies')
      PROVE  ReplyFits(replies[i])'
  <2>1. PICK q : q = replies'[i]
    OBVIOUS
  <2>2. i + 1 \in 1 .. Len(replies) /\ q = replies[i + 1]
    BY <1>1, <2>1
  <2>3. ReplyFits(q)
    BY <1>2, <2>2
  <2>4. ReplyFits(q)'
    BY <2>3, SameQueue DEF ReplyFits
  <2> QED BY <2>1, <2>4 DEF ReplyFits
<1>4. 1 \in 1 .. Len(replies)
  BY <1>1
<1> QED BY <1>1, <1>2, <1>3, <1>4, RepliesTyped

(* Settle keeps the transport's side. *)
LEMMA SettlePipe ==
  ASSUME TypeOK, PipeInv, Settle, buf'.pending \subseteq buf.pending
  PROVE  PipeInv' /\ Advances
<1> USE Types
<1>1. /\ UNCHANGED <<emitted, batch, wire, counter, seqOf, flying, hist>>
      /\ replies # <<>> /\ replies' = Tail(replies)
  BY DEF Settle
<1>2. \A e : /\ Waits(e)' <=> Waits(e)
             /\ Processed(e)' <=> Processed(e)
             /\ Given(e)' <=> Given(e)
  BY <1>1, SameQueue
<1>3. PICK r : r = Head(replies)
  OBVIOUS
<1>4. /\ \A i \in 1 .. Len(replies') : ReplyFits(replies[i])'
      /\ r.cmd \subseteq Events /\ ReplyFits(r)
  BY <1>1, <1>3, RepliesShrink
<1>5. \A e \in Events : receipt'[e] = IF e \notin r.cmd THEN receipt[e]
                                      ELSE IF r.ok THEN "number" ELSE "undefined"
  BY <1>3 DEF Settle
<1>6. QueueFits'
  <2>1. ASSUME NEW e \in Events, Waits(e)'
        PROVE  e <= emitted' /\ ~Given(e)' /\ receipt'[e] = "pending"
    <3>1. Waits(e) /\ e \notin r.cmd
      BY <1>2, <1>4, <2>1 DEF ReplyFits, Processed
    <3> QED BY <1>1, <1>2, <1>5, <3>1 DEF PipeInv, QueueFits
  <2>2. ASSUME NEW e \in Events, e <= emitted' PROVE receipt'[e] # "none"
    BY <1>1, <1>5, <2>2 DEF PipeInv, QueueFits
  <2> QED BY <1>1, <1>2, <2>1, <2>2 DEF PipeInv, QueueFits
<1>7. SeqFits'
  BY <1>1, <1>2 DEF PipeInv, SeqFits
<1>8. ASSUME NEW e \in Events
      PROVE  /\ receipt'[e] = "number" => Given(e)'
             /\ receipt'[e] = "undefined" /\ Given(e)' => e \in hist'.unsure
  <2>1. CASE e \in r.cmd
    BY <1>1, <1>2, <1>4, <1>5, <2>1 DEF ReplyFits
  <2>2. CASE e \notin r.cmd
    BY <1>1, <1>2, <1>5, <2>2 DEF PipeInv, ReceiptFits
  <2> QED BY <2>1, <2>2
<1>9. Advances
  BY <1>1, <1>2 DEF Advances
<1> QED BY <1>4, <1>6, <1>7, <1>8, <1>9 DEF PipeInv, ReceiptFits

-----------------------------------------------------------------------------
(* The subscriber, while the transport moves. *)

(* A step of the subscriber that leaves the transport alone. *)
LEMMA PipeKept ==
  ASSUME TypeOK, PipeInv, UNCHANGED <<emitted, batch, wire, counter, seqOf, receipt>>,
         replies' = replies \/ (replies # <<>> /\ replies' = Tail(replies)),
         hist'.unsure = hist.unsure, hist'.unpublished = hist.unpublished,
         flying' \cup buf'.pending \subseteq flying \cup buf.pending
  PROVE  PipeInv' /\ Advances
<1> USE Types
<1>1. \A e : /\ Waits(e)' <=> Waits(e)
             /\ Processed(e)' <=> Processed(e)
             /\ Given(e)' <=> Given(e)
  BY SameQueue
<1>2. QueueFits'
  BY <1>1 DEF PipeInv, QueueFits
<1>3. SeqFits'
  BY <1>1 DEF PipeInv, SeqFits
<1>4. \A i \in 1 .. Len(replies') : ReplyFits(replies[i])'
  <2>1. CASE replies' = replies
    <3>1. \A i \in 1 .. Len(replies) : ReplyFits(replies[i])
      BY DEF PipeInv, ReceiptFits
    <3>2. ASSUME NEW i \in 1 .. Len(replies) PROVE ReplyFits(replies[i])'
      BY <1>1, <2>1, <3>1 DEF ReplyFits
    <3> QED BY <2>1, <3>2
  <2>2. CASE replies # <<>> /\ replies' = Tail(replies)
    BY <2>2, RepliesShrink
  <2> QED BY <2>1, <2>2
<1>5. ReceiptFits'
  BY <1>1, <1>4 DEF PipeInv, ReceiptFits
<1>6. Advances
  BY <1>1 DEF Advances
<1> QED BY <1>2, <1>3, <1>5, <1>6 DEF PipeInv

(* The histories only grow. *)
HistGrows ==
  /\ hist.unsure \subseteq hist'.unsure /\ hist.unpublished \subseteq hist'.unpublished
  /\ hist.lost \subseteq hist'.lost /\ hist.skipped \subseteq hist'.skipped
  /\ hist.passed \subseteq hist'.passed /\ hist.cut \subseteq hist'.cut
  /\ hist'.twice = hist.twice

(* What was below a sequence stays as it was. *)
LEMMA ReplayedKept ==
  ASSUME TypeOK, PipeInv, Advances, seen' = seen, NEW n \in Nat, n <= counter, Replayed(n)
  PROVE  Replayed(n)'
<1> USE Types
<1>1. PICK R \in SUBSET seen :
        /\ Segment(R)
        /\ \A e \in R : Processed(e)
        /\ \A e \in R : Given(e) /\ seqOf[e] >= n => e \in hist.unsure
        /\ \A e \in seen \ R : Given(e) /\ seqOf[e] < n
  BY DEF Replayed
<1>2. R \subseteq Events /\ seen \subseteq Events
  BY DEF TypeOK
<1>3. \A e \in R : Processed(e)'
  BY <1>1, <1>2 DEF Advances
<1>4. \A e \in R : Given(e)' /\ seqOf'[e] >= n => e \in hist'.unsure
  BY <1>1, <1>2 DEF Advances
<1>5. \A e \in seen \ R : Given(e)' /\ seqOf'[e] < n
  BY <1>1, <1>2 DEF Advances, Given
<1> QED BY <1>1, <1>3, <1>4, <1>5 DEF Replayed, Segment

(* And so does what the client misses. *)
LEMMA CoveredKept ==
  ASSUME TypeOK, Advances, HistGrows, seen' = seen, NEW n \in Nat, n <= counter, Covered(n)
  PROVE  Covered(n)'
<1> USE Types
<1> SUFFICES ASSUME NEW e \in Events, Given(e)', e < N, seqOf'[e] < n
             PROVE  e \in seen \cup Excused'
  BY DEF Covered
<1>1. Given(e)
  <2>1. CASE ~Given(e)
    <3>1. seqOf'[e] >= counter /\ seqOf'[e] \in Nat /\ counter \in Nat
      BY <2>1 DEF Advances
    <3> QED BY <3>1
  <2> QED BY <2>1
<1>2. seqOf[e] < n
  BY <1>1 DEF Advances
<1> QED BY <1>1, <1>2 DEF Covered, Excused, HistGrows

(* While the attachment stands still. *)
LEMMA ClientKept ==
  ASSUME TypeOK, PipeInv, ClientInv, NoDuplicates, NoSilentLoss,
         Advances, HistGrows, counter' \in Nat,
         UNCHANGED <<att, buf, seen>>, EarlyFits',
         early.overflowed => early'.overflowed,
         ~early'.overflowed => early.evs \subseteq early'.evs,
         att.at \in {"off", "ready", "fence", "sync"} /\ ~early.overflowed =>
           \A e \in flying : Given(e) /\ e < N => e \in flying' \cup early'.evs \cup hist'.lost
  PROVE  ClientInv' /\ NoDuplicates' /\ NoSilentLoss'
<1> USE Types
<1>0. buf.pending \subseteq Events /\ seen \subseteq Events /\ flying \subseteq Events
  BY DEF TypeOK
<1>1. BufFits'
  <2>1. \A e \in buf.pending : Given(e) /\ seqOf'[e] = seqOf[e]
    BY <1>0 DEF PipeInv, SeqFits, Advances
  <2>2. buf.next \in Nat /\ buf.next <= counter'
    BY DEF ClientInv, BufFits, Advances
  <2> QED BY <2>1, <2>2 DEF ClientInv, BufFits
<1>2. ReplayFits'
  <2>1. ASSUME att.at \in {"check", "live"} PROVE Replayed(buf.next)'
    <3>1. PICK n : n = buf.next
      OBVIOUS
    <3>2. n \in Nat /\ n <= counter /\ Replayed(n)
      BY <2>1, <3>1 DEF ClientInv, BufFits, ReplayFits
    <3>3. Replayed(n)'
      BY <3>2, ReplayedKept
    <3> QED BY <3>1, <3>3 DEF Replayed
  <2>2. ASSUME att.at = "sync"
        PROVE  /\ Segment(seen) /\ \A e \in seen : Processed(e)'
               /\ att.frontier # None =>
                    /\ att.frontier \in Nat /\ att.frontier <= counter'
                    /\ \A e \in Events : Given(e)' /\ seqOf'[e] < att.frontier => e \in seen
               /\ \A e \in seen : Given(e)' /\ (att.frontier # None => seqOf'[e] >= att.frontier)
                                     => e \in hist'.unsure
    <3>1. /\ Segment(seen) /\ \A e \in seen : Processed(e)
          /\ att.frontier # None =>
               /\ att.frontier \in Nat /\ att.frontier <= counter
               /\ \A e \in Events : Given(e) /\ seqOf[e] < att.frontier => e \in seen
          /\ \A e \in seen : Given(e) /\ (att.frontier # None => seqOf[e] >= att.frontier)
                                => e \in hist.unsure
      BY <2>2 DEF ClientInv, ReplayFits
    <3>2. \A e \in seen : Processed(e)'
      BY <1>0, <3>1 DEF Advances
    <3>3. \A e \in seen : Given(e)' => Given(e) /\ seqOf'[e] = seqOf[e]
      BY <1>0, <3>1 DEF Advances
    <3>4. ASSUME att.frontier # None PROVE att.frontier \in Nat /\ att.frontier <= counter'
      BY <3>1, <3>4 DEF Advances
    <3>5. ASSUME att.frontier # None, NEW e \in Events, Given(e)', seqOf'[e] < att.frontier
          PROVE  e \in seen
      <4>1. CASE Given(e)
        BY <3>1, <3>5, <4>1 DEF Advances
      <4>2. CASE ~Given(e)
        <5>1. seqOf'[e] \in Nat /\ seqOf'[e] >= counter /\ att.frontier \in Nat /\ att.frontier <= counter
          BY <3>1, <3>5, <4>2 DEF Advances
        <5> QED BY <3>5, <5>1
      <4> QED BY <4>1, <4>2
    <3>6. ASSUME NEW e \in seen, Given(e)', att.frontier # None => seqOf'[e] >= att.frontier
          PROVE  e \in hist'.unsure
      BY <3>1, <3>3, <3>6 DEF Advances
    <3> QED BY <3>1, <3>2, <3>4, <3>5, <3>6
  <2> QED BY <2>1, <2>2 DEF ClientInv, ReplayFits, Segment
<1>3. LossFits'
  <2>1. ASSUME att.at \in {"check", "live"} PROVE Covered(buf.next)'
    <3>1. PICK n : n = buf.next
      OBVIOUS
    <3>2. n \in Nat /\ n <= counter /\ Covered(n)
      BY <2>1, <3>1 DEF ClientInv, BufFits, LossFits
    <3>3. Covered(n)'
      BY <3>2, CoveredKept
    <3> QED BY <3>1, <3>3 DEF Covered
  <2>2. ASSUME ~early'.overflowed, att.at \in {"off", "ready", "fence", "sync"},
               NEW e \in Events, Given(e)', e < N
        PROVE  e \in flying' \cup buf.pending \cup seen \cup early'.evs \cup hist'.lost
    <3>1. CASE ~Given(e)
      BY <2>2, <3>1 DEF Advances
    <3>2. CASE Given(e)
      <4>1. e \in flying \cup buf.pending \cup seen \cup early.evs \cup hist.lost
        BY <2>2, <3>2 DEF ClientInv, LossFits
      <4> QED BY <2>2, <3>2, <4>1 DEF HistGrows
    <3> QED BY <3>1, <3>2
  <2> QED BY <2>1, <2>2 DEF LossFits
<1>4. EndFits' /\ NoDuplicates' /\ NoSilentLoss'
  BY DEF ClientInv, EndFits, NoDuplicates, NoSilentLoss, HistGrows
<1> QED BY <1>1, <1>2, <1>3, <1>4 DEF ClientInv

-----------------------------------------------------------------------------
(* The reorder buffer. *)

(* A set of numbers has a least one. *)
LEMMA Least ==
  ASSUME NEW T, T \subseteq Nat, T # {}
  PROVE  \E m \in T : \A n \in T : m <= n
<1> DEFINE R == {ss \in Nat \X Nat : ss[1] < ss[2]}
<1>1. IsWellFoundedOn(R, Nat)
  BY NatLessThanWellFounded DEF OpToRel
<1>2. \E x \in T : \A y \in T : ~ (<<y, x>> \in R)
  BY ONLY <1>1, T \subseteq Nat, T # {}, WFMin
<1>3. PICK x \in T : \A y \in T : ~ (<<y, x>> \in R)
  BY <1>2
<1>4. \A y \in T : <<y, x>> \in R <=> y < x
  OBVIOUS
<1>5. \A y \in T : ~(y < x)
  BY <1>3, <1>4
<1> HIDE DEF R
<1>6. \A y \in T : x <= y
  BY ONLY <1>5, T \subseteq Nat, x \in T
<1> QED BY <1>6

(* A set of numbers that stays below a bound has a greatest one. *)
LEMMA Greatest ==
  ASSUME NEW T, T \subseteq Nat, T # {}, NEW k \in Nat, \A n \in T : n < k
  PROVE  /\ Max(T) \in T /\ \A n \in T : n <= Max(T)
         /\ Max(T) \in Nat /\ Max(T) < k
<1> DEFINE U == {i \in Nat : \E n \in T : i = k - n}
<1>1. U \subseteq Nat /\ U # {}
  <2>1. \A n \in T : k - n \in Nat
    OBVIOUS
  <2> QED BY <2>1
<1>2. PICK i \in U : \A j \in U : i <= j
  BY <1>1, Least
<1>3. PICK m \in T : i = k - m
  OBVIOUS
<1>4. ASSUME NEW n \in T PROVE n <= m
  <2>1. k - n \in U
    OBVIOUS
  <2>2. i <= k - n
    BY <1>2, <2>1
  <2> QED BY <1>3, <2>2
<1>5. \E x \in T : \A y \in T : x >= y
  BY <1>4
<1>6. Max(T) \in T /\ \A n \in T : Max(T) >= n
  BY <1>5 DEF Max
<1> QED BY <1>6

(* The last sequence among events that have one. *)
LEMMA LastSeq ==
  ASSUME TypeOK, PipeInv, NEW S \in SUBSET Events, S # {}, \A e \in S : Given(e)
  PROVE  /\ Max(Seqs(S)) \in Nat /\ Max(Seqs(S)) < counter
         /\ \E e \in S : seqOf[e] = Max(Seqs(S))
         /\ \A e \in S : seqOf[e] <= Max(Seqs(S))
<1>1. \A e \in S : seqOf[e] \in Nat /\ seqOf[e] < counter
  BY DEF PipeInv, SeqFits
<1>2. Seqs(S) \subseteq Nat /\ Seqs(S) # {} /\ \A n \in Seqs(S) : n < counter
  BY <1>1 DEF Seqs
<1>3. /\ Max(Seqs(S)) \in Seqs(S) /\ \A n \in Seqs(S) : n <= Max(Seqs(S))
      /\ Max(Seqs(S)) \in Nat /\ Max(Seqs(S)) < counter
  BY <1>2, Greatest, Types
<1> QED BY <1>3 DEF Seqs

(* A buffer as flushPendingMessages and forceFlushBuffer find it. *)
Holds(b) ==
  /\ b.next \in Nat /\ b.next <= counter
  /\ b.pending \subseteq Events
  /\ \A e \in b.pending : Given(e) /\ seqOf[e] >= b.next

(* flushPendingMessages releases what comes before the first gap. *)
LEMMA ReadyShape ==
  ASSUME TypeOK, PipeInv, NEW b, Holds(b)
  PROVE  \E m \in Nat :
           /\ b.next <= m /\ m <= counter
           /\ Ready(b) = {e \in b.pending : seqOf[e] < m}
           /\ b.next + Cardinality(Ready(b)) = m
           /\ \A e \in Events : Given(e) /\ b.next <= seqOf[e] /\ seqOf[e] < m => e \in Ready(b)
<1> USE Types
<1>0. /\ b.next \in Nat /\ counter \in Nat /\ b.next <= counter
      /\ \A e \in b.pending : /\ e \in Events /\ Given(e) /\ seqOf[e] \in Nat
                              /\ seqOf[e] < counter /\ seqOf[e] >= b.next
  BY DEF Holds, PipeInv, SeqFits
<1> DEFINE G == {k \in Nat : b.next <= k /\ k \notin Seqs(b.pending)}
<1>1. counter \in G
  <2>1. counter \notin Seqs(b.pending)
    BY <1>0 DEF Seqs
  <2> QED BY <1>0, <2>1
<1>2. PICK m \in G : \A k \in G : m <= k
  BY <1>1, Least
<1>3. /\ m \in Nat /\ b.next <= m /\ m <= counter /\ m \notin Seqs(b.pending)
  BY <1>1, <1>2
<1>4. \A k \in Nat : b.next <= k /\ k < m => k \in Seqs(b.pending)
  BY <1>0, <1>2, <1>3
<1> HIDE DEF G
<1>5. Ready(b) = {e \in b.pending : seqOf[e] < m}
  <2>1. ASSUME NEW e \in b.pending, seqOf[e] < m PROVE e \in Ready(b)
    <3>1. \A k \in b.next .. seqOf[e] : k \in Nat /\ b.next <= k /\ k < m
      BY <1>0, <1>3, <2>1
    <3> QED BY <1>4, <3>1 DEF Ready
  <2>2. ASSUME NEW e \in Ready(b) PROVE e \in b.pending /\ seqOf[e] < m
    <3>1. e \in b.pending /\ b.next .. seqOf[e] \subseteq Seqs(b.pending)
      BY DEF Ready
    <3>2. CASE ~(seqOf[e] < m)
      <4>1. m \in b.next .. seqOf[e]
        BY <1>0, <1>3, <3>1, <3>2
      <4> QED BY <1>3, <3>1, <4>1
    <3> QED BY <3>1, <3>2
  <2> QED BY <2>1, <2>2
<1>6. \A k \in b.next .. m - 1 : \E e \in Ready(b) : seqOf[e] = k
  <2> SUFFICES ASSUME NEW k \in b.next .. m - 1 PROVE \E e \in Ready(b) : seqOf[e] = k
    OBVIOUS
  <2>1. k \in Nat /\ b.next <= k /\ k < m
    BY <1>0, <1>3
  <2>2. PICK e \in b.pending : seqOf[e] = k
    BY <1>4, <2>1 DEF Seqs
  <2> QED BY <1>5, <2>1, <2>2
<1>7. \A e, f \in Events : Given(e) /\ Given(f) /\ seqOf[e] = seqOf[f] => e = f
  <2> SUFFICES ASSUME NEW e \in Events, NEW f \in Events, Given(e), Given(f), seqOf[e] = seqOf[f]
               PROVE  e = f
    OBVIOUS
  <2>1. e < f => seqOf[e] < seqOf[f]
    BY DEF PipeInv, SeqFits
  <2>2. f < e => seqOf[f] < seqOf[e]
    BY DEF PipeInv, SeqFits
  <2>3. seqOf[e] \in Nat
    BY DEF PipeInv, SeqFits
  <2> QED BY <2>1, <2>2, <2>3
<1>8. ASSUME NEW e \in Events, Given(e), b.next <= seqOf[e], seqOf[e] < m
      PROVE  e \in Ready(b)
  <2>1. seqOf[e] \in Nat
    BY <1>8 DEF PipeInv, SeqFits
  <2>2. PICK f \in b.pending : seqOf[f] = seqOf[e]
    BY <1>4, <1>8, <2>1 DEF Seqs
  <2>3. f = e
    BY <1>0, <1>7, <1>8, <2>2
  <2> QED BY <1>5, <1>8, <2>2, <2>3
<1>9. Cardinality(Ready(b)) = m - b.next
  <2> DEFINE f == [e \in Ready(b) |-> seqOf[e]]
             I == b.next .. m - 1
  <2>1. f \in [Ready(b) -> I]
    BY <1>0, <1>3, <1>5
  <2>2. \A d, e \in Ready(b) : f[d] = f[e] => d = e
    BY <1>0, <1>5, <1>7
  <2>3. \A i \in I : \E d \in Ready(b) : f[d] = i
    BY <1>6
  <2>4. IsFiniteSet(I) /\ Cardinality(I) = m - b.next
    <3>1. b.next \in Int /\ m - 1 \in Int /\ b.next <= m
      BY <1>0, <1>3
    <3>2. /\ IsFiniteSet(b.next .. m - 1)
          /\ Cardinality(b.next .. m - 1) = IF b.next > m - 1 THEN 0 ELSE (m - 1) - b.next + 1
      BY ONLY <3>1, FS_Interval
    <3> HIDE DEF I
    <3>3. (IF b.next > m - 1 THEN 0 ELSE (m - 1) - b.next + 1) = m - b.next
      BY ONLY <1>3, <3>1
    <3> QED BY <3>2, <3>3 DEF I
  <2> HIDE DEF f, I
  <2>5. f \in Injection(Ready(b), I)
    BY <2>1, <2>2 DEF Injection, IsInjective
  <2>6. f \in Surjection(Ready(b), I)
    BY <2>1, <2>3 DEF Surjection
  <2> QED BY <2>4, <2>5, <2>6, FS_Injection
<1>10. b.next + Cardinality(Ready(b)) = m
  BY <1>0, <1>3, <1>9
<1> QED BY <1>3, <1>5, <1>8, <1>10

-----------------------------------------------------------------------------
(* Delivery. *)

(* The steps of the subscriber leave these alone. *)
Undisturbed == UNCHANGED <<emitted, batch, wire, counter, seqOf>>

(* Events with sequences from n on, below m, reach the client: in order, and  *)
(* a second time only if the producer was unsure of them.                     *)
LEMMA DeliveredInOrder ==
  ASSUME TypeOK, PipeInv, NEW n \in Nat, Replayed(n), NEW m \in Nat, n <= m,
         NEW S \in SUBSET Events,
         \A e \in S : Given(e) /\ n <= seqOf[e] /\ seqOf[e] < m,
         seen' = seen \cup S, Undisturbed, hist'.unsure = hist.unsure
  PROVE  /\ Replayed(m)'
         /\ S \cap seen \subseteq hist.unsure
         /\ \A e \in seen' \ seen, f \in seen : f < e
<1> USE Types
<1>0. \A e : /\ Processed(e)' <=> Processed(e)
             /\ Given(e)' <=> Given(e)
  BY SameQueue DEF Undisturbed
<1>1. PICK R \in SUBSET seen :
        /\ Segment(R)
        /\ \A e \in R : Processed(e)
        /\ \A e \in R : Given(e) /\ seqOf[e] >= n => e \in hist.unsure
        /\ \A e \in seen \ R : Given(e) /\ seqOf[e] < n
  BY DEF Replayed
<1>2. seen \subseteq Events /\ R \subseteq Events
  BY DEF TypeOK
<1>3. \A e \in Events : Given(e) => seqOf[e] \in Nat
  BY DEF PipeInv, SeqFits
<1>4. Replayed(m)'
  <2>1. R \in SUBSET (seen \cup S)
    OBVIOUS
  <2>2. ASSUME NEW e \in R, Given(e), seqOf[e] >= m PROVE e \in hist.unsure
    BY <1>1, <1>2, <1>3, <2>2
  <2>3. ASSUME NEW e \in (seen \cup S) \ R PROVE Given(e) /\ seqOf[e] < m
    <3>1. CASE e \in S
      BY <3>1
    <3>2. CASE e \in seen
      BY <1>1, <1>2, <1>3, <2>3, <3>2
    <3> QED BY <3>1, <3>2
  <2> QED BY <1>0, <1>1, <2>1, <2>2, <2>3 DEF Replayed, Segment, Undisturbed
<1>5. ASSUME NEW e \in S \cap seen PROVE e \in hist.unsure
  <2>1. e \in Events /\ Given(e) /\ seqOf[e] \in Nat /\ n <= seqOf[e]
    BY <1>3
  <2>2. e \in R
    BY <1>1, <2>1
  <2> QED BY <1>1, <2>1, <2>2
<1>6. ASSUME NEW e \in seen' \ seen, NEW f \in seen PROVE f < e
  <2>1. e \in S /\ e \in Events /\ f \in Events /\ e \notin seen
    BY <1>2
  <2>2. Given(e) /\ seqOf[e] \in Nat /\ n <= seqOf[e]
    BY <1>3, <2>1
  <2>3. CASE f \in R
    <3>1. ~(e < f) /\ e # f
      BY <1>1, <2>1, <2>3 DEF Segment
    <3> QED BY <2>1, <3>1
  <2>4. CASE f \notin R
    <3>1. Given(f) /\ seqOf[f] < n /\ seqOf[f] \in Nat
      BY <1>1, <1>3, <2>1, <2>4
    <3>2. e # f
      BY <2>1
    <3>3. ~(e < f)
      <4>1. e < f => seqOf[e] < seqOf[f]
        BY <2>1, <2>2, <3>1 DEF PipeInv, SeqFits
      <4> QED BY <2>2, <3>1, <4>1
    <3> QED BY <2>1, <3>2, <3>3
  <2> QED BY <2>3, <2>4
<1> QED BY <1>4, <1>5, <1>6

(* Once DONE has reached the client, what it misses is accounted for. *)
LEMMA NothingElseComes ==
  ASSUME TypeOK, PipeInv, NEW m \in Nat, Covered(m)', Undisturbed, Done \in seen',
         Given(Done), seqOf[Done] < m, hist'.unpublished = hist.unpublished
  PROVE  Events \ seen' \subseteq hist'.unpublished \cup Excused'
<1> USE Types
<1> SUFFICES ASSUME NEW e \in Events, e \notin seen'
             PROVE  e \in hist'.unpublished \cup Excused'
  OBVIOUS
<1>1. \A f : Given(f)' <=> Given(f)
  BY SameQueue DEF Undisturbed
<1>2. Done = N /\ N \in Events /\ e < N
  BY DEF Done
<1>3. N <= emitted /\ ~Waits(N)
  BY <1>2 DEF PipeInv, QueueFits
<1>4. Processed(N)
  BY <1>3 DEF Processed
<1>5. ~Waits(e)
  <2>1. Waits(e) => N < e
    BY <1>2, <1>4 DEF PipeInv, QueueFits
  <2> QED BY <1>2, <2>1
<1>6. Processed(e)
  BY <1>2, <1>3, <1>5 DEF Processed
<1>7. CASE ~Given(e)
  BY <1>6, <1>7 DEF PipeInv, QueueFits
<1>8. CASE Given(e)
  <2>1. seqOf[e] < seqOf[N] /\ seqOf[e] \in Nat /\ seqOf[N] \in Nat
    BY <1>2, <1>8 DEF PipeInv, SeqFits
  <2>2. seqOf[e] < m
    BY <1>2, <2>1
  <2>3. e \in seen' \cup Excused'
    BY <1>1, <1>2, <1>8, <2>2 DEF Covered, Undisturbed
  <2> QED BY <2>3
<1> QED BY <1>7, <1>8

(* How a step of the subscriber leaves the attachment: over, or with a buffer *)
(* that stands at m.                                                          *)
Leaves(S, m) ==
  \/ att'.at = "closed" /\ att'.end = "done" /\ Done \in S /\ buf' = Cold
  \/ att'.at = "closed" /\ att'.end # "done" /\ buf' = Cold
  \/ /\ att'.at \in {"check", "live"} /\ att'.end = "none"
     /\ buf'.next = m /\ ~buf'.deferred
     /\ buf'.pending \subseteq Events /\ \A e \in buf'.pending : seqOf[e] >= m

(* It goes on, or it ended with DONE: what the client missed has to be known. *)
Answers == att'.at \in {"check", "live"} \/ att'.end = "done"

(* Any delivery keeps the subscriber's side. *)
LEMMA DeliveryKeeps ==
  ASSUME TypeOK, PipeInv, ClientInv, NoDuplicates, att.at \in {"sync", "check", "live"},
         NEW n \in Nat, Replayed(n), NEW m \in Nat, n <= m, m <= counter,
         NEW S \in SUBSET Events,
         \A e \in S : Given(e) /\ n <= seqOf[e] /\ seqOf[e] < m,
         Answers =>
           /\ \A e \in Events : Given(e) /\ e < N /\ seqOf[e] < n => e \in seen \cup Excused'
           /\ \A e \in Events : Given(e) /\ n <= seqOf[e] /\ seqOf[e] < m => e \in S \cup Excused',
         seen' = seen \cup S, Undisturbed, early' = early,
         hist'.unsure = hist.unsure, hist'.unpublished = hist.unpublished,
         hist'.twice = hist.twice \cup (S \cap seen), Leaves(S, m)
  PROVE  /\ ClientInv' /\ NoDuplicates' /\ NoSilentLoss'
         /\ \A e \in seen' \ seen, f \in seen : f < e
<1> USE Types
<1>1. /\ Replayed(m)'
      /\ S \cap seen \subseteq hist.unsure
      /\ \A e \in seen' \ seen, f \in seen : f < e
  BY DeliveredInOrder
<1>2. Answers => Covered(m)'
  <2> SUFFICES ASSUME Answers, NEW e \in Events, Given(e)', e < N, seqOf'[e] < m
               PROVE  e \in seen' \cup Excused'
    BY DEF Covered
  <2>1. Given(e) /\ seqOf[e] < m
    BY SameQueue DEF Undisturbed
  <2>2. seqOf[e] \in Nat
    BY <2>1 DEF PipeInv, SeqFits
  <2>3. CASE seqOf[e] < n
    BY <2>1, <2>3
  <2>4. CASE n <= seqOf[e]
    BY <2>1, <2>4
  <2> QED BY <2>2, <2>3, <2>4
<1>3. NoDuplicates'
  BY <1>1 DEF NoDuplicates
<1>4. early'.evs = {} /\ (att'.at \in {"check", "live", "closed"})
  BY DEF ClientInv, EarlyFits, Leaves
<1>5. EarlyFits'
  BY <1>4 DEF ClientInv, EarlyFits
<1>6. EndFits'
  BY DEF EndFits, Leaves
<1>7. BufFits'
  <2>1. CASE att'.at = "closed" /\ buf' = Cold
    <3>1. buf'.next = 0 /\ buf'.pending = {} /\ buf'.timer = FALSE
      BY <2>1 DEF Cold
    <3> QED BY <2>1, <3>1 DEF BufFits, Undisturbed
  <2>2. CASE /\ att'.at \in {"check", "live"}
             /\ buf'.next = m /\ ~buf'.deferred
             /\ buf'.pending \subseteq Events /\ \A e \in buf'.pending : seqOf[e] >= m
    BY <2>2 DEF BufFits, Undisturbed
  <2> QED BY <2>1, <2>2 DEF Leaves
<1>8. ReplayFits'
  <2>1. att'.at \in {"check", "live"} => buf'.next = m
    BY DEF Leaves
  <2>2. ASSUME att'.at \in {"check", "live"} PROVE Replayed(buf.next)'
    BY <1>1, <2>1, <2>2 DEF Replayed
  <2> QED BY <1>4, <2>2 DEF ReplayFits
<1>9. LossFits'
  <2>1. att'.at \in {"check", "live"} => buf'.next = m
    BY DEF Leaves
  <2>2. ASSUME att'.at \in {"check", "live"} PROVE Covered(buf.next)'
    BY <1>2, <2>1, <2>2 DEF Answers, Covered
  <2> QED BY <1>4, <2>2 DEF LossFits
<1>10. NoSilentLoss'
  <2>1. ASSUME att'.end = "done"
        PROVE  Events \ seen' \subseteq hist'.unpublished \cup Excused'
    <3>1. Done \in S
      BY <2>1 DEF Leaves
    <3> QED BY <1>2, <2>1, <3>1, NothingElseComes DEF Answers
  <2> QED BY <2>1 DEF NoSilentLoss, Excused
<1> QED BY <1>1, <1>3, <1>5, <1>6, <1>7, <1>8, <1>9, <1>10 DEF ClientInv

-----------------------------------------------------------------------------
(* The steps of the subscriber. *)

(* The fields of a buffer. *)
IsBuffer(b) ==
  b = [next |-> b.next, pending |-> b.pending, timer |-> b.timer, deferred |-> b.deferred]

(* What flushPendingMessages, forceFlushBuffer and holding do to a buffer. *)
LEMMA BufferSteps ==
  ASSUME NEW b, IsBuffer(b)
  PROVE  /\ Drained(b).next = b.next + Cardinality(Ready(b))
         /\ Drained(b).pending = b.pending \ Ready(b)
         /\ Drained(b).deferred = b.deferred
         /\ Forced(b).next = Max(Seqs(b.pending)) + 1
         /\ Forced(b).pending = {}
         /\ Forced(b).deferred = b.deferred
         /\ Hold(b).next = b.next /\ Hold(b).pending = b.pending
         /\ Hold(b).deferred = b.deferred /\ Hold(b).timer = (b.timer \/ ~b.deferred)
<1>1. PICK n, p, t, d : b = [next |-> n, pending |-> p, timer |-> t, deferred |-> d]
  BY DEF IsBuffer
<1>2. PICK u : u = (b.timer /\ (b.pending \ Ready(b)) # {})
  OBVIOUS
<1>3. Drained(b) = [b EXCEPT !.pending = b.pending \ Ready(b),
                             !.next = b.next + Cardinality(Ready(b)), !.timer = u]
  BY <1>1, <1>2 DEF Drained
<1>4. PICK v : v = FALSE
  OBVIOUS
<1>5. Forced(b) = [b EXCEPT !.pending = {}, !.next = Max(Seqs(b.pending)) + 1, !.timer = v]
  BY <1>4 DEF Forced
<1>6. PICK w : w = (b.timer \/ ~b.deferred)
  OBVIOUS
<1>7. Hold(b) = [b EXCEPT !.timer = w]
  BY <1>1, <1>6 DEF Hold
<1>8. /\ Hold(b).next = b.next /\ Hold(b).pending = b.pending
      /\ Hold(b).deferred = b.deferred /\ Hold(b).timer = w
  BY <1>1, <1>7
<1>9. /\ Drained(b).next = b.next + Cardinality(Ready(b))
      /\ Drained(b).pending = b.pending \ Ready(b)
      /\ Drained(b).deferred = b.deferred
  BY <1>1, <1>3
<1>10. /\ Forced(b).next = Max(Seqs(b.pending)) + 1
       /\ Forced(b).pending = {}
       /\ Forced(b).deferred = b.deferred
  BY <1>1, <1>5
<1> QED BY <1>6, <1>8, <1>9, <1>10, Zenon

(* The buffer of the state, and with one more message in it. *)
LEMMA BufferHere ==
  ASSUME TypeOK
  PROVE  /\ IsBuffer(buf) /\ buf.pending \subseteq Events /\ buf.next \in Nat
         /\ \A e : LET b == [buf EXCEPT !.pending = @ \cup {e}]
                   IN /\ IsBuffer(b) /\ b.next = buf.next /\ b.pending = buf.pending \cup {e}
                      /\ b.timer = buf.timer /\ b.deferred = buf.deferred
<1>1. IsBuffer(buf) /\ buf.pending \subseteq Events /\ buf.next \in Nat
  BY DEF TypeOK, IsBuffer
<1>2. PICK n, p, t, d : buf = [next |-> n, pending |-> p, timer |-> t, deferred |-> d]
  BY <1>1 DEF IsBuffer
<1>3. ASSUME NEW e, NEW b, b = [buf EXCEPT !.pending = @ \cup {e}]
      PROVE  /\ IsBuffer(b) /\ b.next = buf.next /\ b.pending = buf.pending \cup {e}
             /\ b.timer = buf.timer /\ b.deferred = buf.deferred
  <2>1. b = [next |-> n, pending |-> p \cup {e}, timer |-> t, deferred |-> d]
    BY <1>2, <1>3
  <2> QED BY <1>2, <2>1 DEF IsBuffer
<1> QED BY <1>1, <1>3

(* What a delivery does to the histories. *)
LEMMA AgainFields ==
  ASSUME TypeOK, NEW S
  PROVE  /\ Again(S).twice = hist.twice \cup (S \cap seen)
         /\ Again(S).unsure = hist.unsure /\ Again(S).unpublished = hist.unpublished
         /\ Again(S).lost = hist.lost /\ Again(S).skipped = hist.skipped
         /\ Again(S).passed = hist.passed /\ Again(S).cut = hist.cut
         /\ \A X : LET h == [Again(S) EXCEPT !.skipped = @ \cup X]
                   IN /\ h.twice = hist.twice \cup (S \cap seen)
                      /\ h.unsure = hist.unsure /\ h.unpublished = hist.unpublished
                      /\ h.lost = hist.lost /\ h.skipped = hist.skipped \cup X
                      /\ h.passed = hist.passed /\ h.cut = hist.cut
         /\ \A X, Y : LET h == [Again(S) EXCEPT !.passed = X, !.cut = Y]
                      IN /\ h.twice = hist.twice \cup (S \cap seen)
                         /\ h.unsure = hist.unsure /\ h.unpublished = hist.unpublished
                         /\ h.lost = hist.lost /\ h.skipped = hist.skipped
                         /\ h.passed = X /\ h.cut = Y
BY DEF TypeOK, Again

(* What a delivery does to the attachment. *)
LEMMA DeliverLeaves ==
  ASSUME TypeOK, EndFits, att.at \in {"check", "live"}, NEW S, NEW b, NEW m, Deliver(S, b),
         b.next = m, ~b.deferred, b.pending \subseteq Events, \A e \in b.pending : seqOf[e] >= m
  PROVE  Leaves(S, m) /\ seen' = seen \cup S
<1>1. CASE Done \in S
  BY <1>1 DEF Deliver, Closed, Leaves, TypeOK
<1>2. CASE Done \notin S
  BY <1>2 DEF Deliver, Leaves, EndFits
<1> QED BY <1>1, <1>2 DEF Deliver

(* The buffer that stands at what the client has. *)
LEMMA BufferHolds ==
  ASSUME TypeOK, PipeInv, ClientInv, att.at \in {"check", "live"}
  PROVE  Holds(buf) /\ Replayed(buf.next) /\ ~buf.deferred /\ Covered(buf.next)
BY BufferHere DEF ClientInv, BufFits, ReplayFits, LossFits, PipeInv, SeqFits, Holds

(* flushPendingMessages after the message that came next. *)
LEMMA NextKeeps ==
  ASSUME TypeOK, PipeInv, ClientInv, NoDuplicates, att.at \in {"check", "live"},
         NEW b, IsBuffer(b), Holds(b), b.next = buf.next, b.deferred = buf.deferred,
         b.pending \subseteq buf.pending \cup flying,
         Deliver(Ready(b), Drained(b)), hist' = Again(Ready(b)),
         flying' \subseteq flying, early' = early, Undisturbed,
         receipt' = receipt, replies' = replies
  PROVE  /\ PipeInv' /\ ClientInv' /\ NoDuplicates' /\ NoSilentLoss'
         /\ \A e \in seen' \ seen, f \in seen : f < e
<1> USE Types
<1>1. PICK m \in Nat :
        /\ b.next <= m /\ m <= counter
        /\ Ready(b) = {e \in b.pending : seqOf[e] < m}
        /\ b.next + Cardinality(Ready(b)) = m
        /\ \A e \in Events : Given(e) /\ b.next <= seqOf[e] /\ seqOf[e] < m => e \in Ready(b)
  BY ReadyShape
<1>2. Holds(buf) /\ Replayed(b.next) /\ ~buf.deferred /\ Covered(b.next)
  BY BufferHolds
<1> DEFINE S == Ready(b)
<1>3. S \in SUBSET Events /\ \A e \in S : Given(e) /\ b.next <= seqOf[e] /\ seqOf[e] < m
  <2>1. \A e \in b.pending : e \in Events /\ Given(e) /\ seqOf[e] \in Nat /\ seqOf[e] >= b.next
    BY DEF Holds, PipeInv, SeqFits
  <2> QED BY <1>1, <2>1
<1>4. /\ Drained(b).next = m /\ Drained(b).pending = b.pending \ S
      /\ Drained(b).deferred = b.deferred
  BY <1>1, BufferSteps
<1>5. /\ Drained(b).pending \subseteq Events
      /\ \A e \in Drained(b).pending : seqOf[e] >= m
  <2>1. \A e \in b.pending \ S : e \in Events /\ seqOf[e] \in Nat /\ ~(seqOf[e] < m)
    BY <1>1 DEF Holds, PipeInv, SeqFits
  <2> QED BY <1>4, <2>1
<1>6. Leaves(S, m) /\ seen' = seen \cup S
  <2>1. EndFits
    BY DEF ClientInv
  <2> HIDE DEF S
  <2>2. PICK D : D = Drained(b)
    OBVIOUS
  <2> QED BY <1>2, <1>4, <1>5, <2>1, <2>2, DeliverLeaves DEF S
<1>7. /\ hist'.twice = hist.twice \cup (S \cap seen)
      /\ hist'.unsure = hist.unsure /\ hist'.unpublished = hist.unpublished
      /\ Excused' = Excused
  BY AgainFields DEF Excused
<1> HIDE DEF S
<1>8. /\ ClientInv' /\ NoDuplicates' /\ NoSilentLoss'
      /\ \A e \in seen' \ seen, f \in seen : f < e
  <2>1. b.next \in Nat
    BY DEF Holds
  <2>2. /\ \A e \in Events : Given(e) /\ e < N /\ seqOf[e] < b.next => e \in seen \cup Excused'
        /\ \A e \in Events : Given(e) /\ b.next <= seqOf[e] /\ seqOf[e] < m
             => e \in S \cup Excused'
    BY <1>1, <1>2, <1>7 DEF Covered, S
  <2>3. PICK n : n = b.next
    OBVIOUS
  <2> QED BY <1>1, <1>2, <1>3, <1>6, <1>7, <2>1, <2>2, <2>3, DeliveryKeeps
<1>9. buf'.pending \subseteq buf.pending \cup flying
  <2>1. buf' = Cold \/ buf' = Drained(b)
    BY Delivered
  <2> QED BY <1>4, <2>1 DEF Cold
<1>10. PipeInv'
  BY <1>7, <1>9, PipeKept DEF Undisturbed
<1> QED BY <1>8, <1>10

(* forceFlushBuffer. *)
LEMMA ForceKeeps ==
  ASSUME TypeOK, PipeInv, ClientInv, NoDuplicates, att.at \in {"check", "live"},
         NEW b, IsBuffer(b), Holds(b), b.next = buf.next, b.deferred = buf.deferred,
         b.pending # {},
         Deliver(b.pending, Forced(b)),
         hist' = [Again(b.pending) EXCEPT !.skipped = @ \cup GivenUp(b)],
         flying' \subseteq flying, early' = early, Undisturbed,
         receipt' = receipt, replies' = replies
  PROVE  /\ PipeInv' /\ ClientInv' /\ NoDuplicates' /\ NoSilentLoss'
         /\ \A e \in seen' \ seen, f \in seen : f < e
<1> USE Types
<1> DEFINE S == b.pending
           m == Max(Seqs(b.pending)) + 1
<1>0. S \in SUBSET Events /\ \A e \in S : Given(e) /\ seqOf[e] \in Nat /\ b.next <= seqOf[e]
  BY DEF Holds, PipeInv, SeqFits
<1>1. /\ Max(Seqs(S)) \in Nat /\ Max(Seqs(S)) < counter
      /\ \E e \in S : seqOf[e] = Max(Seqs(S))
      /\ \A e \in S : seqOf[e] <= Max(Seqs(S))
  BY <1>0, LastSeq
<1>2. /\ m \in Nat /\ b.next <= m /\ m <= counter /\ b.next \in Nat
      /\ \A e \in S : Given(e) /\ b.next <= seqOf[e] /\ seqOf[e] < m
  BY <1>0, <1>1 DEF Holds
<1>3. Replayed(b.next) /\ ~buf.deferred /\ Covered(b.next)
  BY BufferHolds
<1>4. Forced(b).next = m /\ Forced(b).pending = {} /\ Forced(b).deferred = b.deferred
  BY BufferSteps
<1>5. \A e \in Events : seqOf[e] \in Nat /\ b.next <= seqOf[e] /\ seqOf[e] < m
        => e \in S \cup GivenUp(b)
  <2> SUFFICES ASSUME NEW e \in Events, seqOf[e] \in Nat, b.next <= seqOf[e], seqOf[e] < m,
                      e \notin S
               PROVE  e \in GivenUp(b)
    OBVIOUS
  <2>1. seqOf[e] \in b.next .. Max(Seqs(S))
    BY <1>1, <1>2
  <2> QED BY <2>1 DEF GivenUp
<1>6. /\ hist'.twice = hist.twice \cup (S \cap seen)
      /\ hist'.unsure = hist.unsure /\ hist'.unpublished = hist.unpublished
      /\ Excused \subseteq Excused' /\ GivenUp(b) \subseteq Excused'
  BY AgainFields DEF Excused
<1> HIDE DEF S, m
<1>7. Leaves(S, m) /\ seen' = seen \cup S
  <2>1. EndFits
    BY DEF ClientInv
  <2>2. PICK D : D = Forced(b)
    OBVIOUS
  <2> QED BY <1>3, <1>4, <2>1, <2>2, DeliverLeaves DEF S
<1>8. /\ ClientInv' /\ NoDuplicates' /\ NoSilentLoss'
      /\ \A e \in seen' \ seen, f \in seen : f < e
  <2>1. \A e \in Events : Given(e) => seqOf[e] \in Nat
    BY DEF PipeInv, SeqFits
  <2>2. /\ \A e \in Events : Given(e) /\ e < N /\ seqOf[e] < b.next => e \in seen \cup Excused'
        /\ \A e \in Events : Given(e) /\ b.next <= seqOf[e] /\ seqOf[e] < m
             => e \in S \cup Excused'
    BY <1>3, <1>5, <1>6, <2>1 DEF Covered
  <2>3. PICK n : n = b.next
    OBVIOUS
  <2> QED BY <1>0, <1>2, <1>3, <1>6, <1>7, <2>2, <2>3, DeliveryKeeps
<1>9. buf'.pending = {}
  <2>1. buf' = Cold \/ buf' = Forced(b)
    BY Delivered
  <2> QED BY <1>4, <2>1 DEF Cold
<1>10. PipeInv'
  BY <1>6, <1>9, PipeKept DEF Undisturbed
<1> QED BY <1>8, <1>10

(* The steps leave the client with nothing out of order. *)
OrderStep == \A e \in seen' \ seen, f \in seen : f < e

(* handleOrderedChunk and handleTerminalEvent. *)
LEMMA HandleKeeps ==
  ASSUME TypeOK, PipeInv, ClientInv, NoDuplicates, NoSilentLoss,
         NEW e \in Events, HandleOrdered(e)
  PROVE  PipeInv' /\ ClientInv' /\ NoDuplicates' /\ NoSilentLoss' /\ OrderStep
<1> USE Types
<1>1. PICK b : b = [buf EXCEPT !.pending = @ \cup {e}]
  OBVIOUS
<1>2. /\ IsBuffer(b) /\ b.next = buf.next /\ b.pending = buf.pending \cup {e}
      /\ b.timer = buf.timer /\ b.deferred = buf.deferred
      /\ buf.pending \subseteq Events
  BY <1>1, BufferHere
<1>3. /\ e \in flying /\ Attached /\ flying' = flying \ {e}
      /\ UNCHANGED <<emitted, batch, wire, replies, counter, seqOf, receipt, early, fails>>
  BY DEF HandleOrdered
<1>4. Given(e) /\ seqOf[e] \in Nat /\ Undisturbed
  BY <1>3 DEF PipeInv, SeqFits, Undisturbed
<1>5. ~buf.deferred => att.at \in {"check", "live"}
  BY <1>3 DEF Attached, ClientInv, BufFits
<1>6. ASSUME ~buf.deferred => ~(seqOf[e] < buf.next) PROVE Holds(b)
  <2>1. seqOf[e] >= buf.next
    <3>1. CASE buf.deferred
      <4>1. att.at \in {"ready", "fence", "sync"}
        BY <1>3, <3>1 DEF Attached, ClientInv, BufFits
      <4>2. buf.next = 0
        BY <4>1 DEF ClientInv, BufFits
      <4> QED BY <1>4, <4>2
    <3>2. CASE ~buf.deferred
      BY <1>4, <1>6, <3>2, BufferHere
    <3> QED BY <3>1, <3>2
  <2> QED BY <1>2, <1>4, <2>1 DEF Holds, ClientInv, BufFits, PipeInv, SeqFits
<1>7. CASE ~buf.deferred /\ seqOf[e] < buf.next /\ UNCHANGED <<att, buf, seen, hist>>
  <2>1. PipeInv' /\ Advances
    BY <1>3, <1>7, PipeKept
  <2>2. att.at \in {"check", "live"} /\ HistGrows /\ EarlyFits'
    BY <1>3, <1>5, <1>7 DEF HistGrows, ClientInv, EarlyFits
  <2>3. ClientInv' /\ NoDuplicates' /\ NoSilentLoss'
    BY <1>3, <1>7, <2>1, <2>2, ClientKept
  <2> QED BY <1>7, <2>1, <2>3 DEF OrderStep
<1>8. CASE /\ ~buf.deferred /\ seqOf[e] = buf.next
           /\ Deliver(Ready(b), Drained(b)) /\ hist' = Again(Ready(b))
  <2>1. Holds(b)
    BY <1>4, <1>6, <1>8
  <2>2. b.pending \subseteq buf.pending \cup flying
    BY <1>2, <1>3
  <2> QED BY <1>2, <1>3, <1>4, <1>5, <1>8, <2>1, <2>2, NextKeeps DEF OrderStep
<1>9. CASE /\ ~buf.deferred /\ ~(seqOf[e] < buf.next)
           /\ Deliver(b.pending, Forced(b))
           /\ hist' = [Again(b.pending) EXCEPT !.skipped = @ \cup GivenUp(b)]
  <2>1. Holds(b)
    BY <1>6, <1>9
  <2>2. b.pending # {}
    BY <1>2
  <2> QED BY <1>2, <1>3, <1>4, <1>5, <1>9, <2>1, <2>2, ForceKeeps DEF OrderStep
<1>10. CASE /\ ~buf.deferred => ~(seqOf[e] < buf.next)
            /\ buf' = Hold(b) /\ UNCHANGED <<att, seen, hist>>
  <2>1. /\ buf'.next = buf.next /\ buf'.pending = buf.pending \cup {e}
        /\ buf'.deferred = buf.deferred /\ buf'.timer = (buf.timer \/ ~buf.deferred)
    BY <1>2, <1>10, BufferSteps, Zenon
  <2>2. PipeInv' /\ Advances
    BY <1>3, <1>10, <2>1, PipeKept
  <2>3. Holds(b)
    BY <1>6, <1>10
  <2>4. BufFits'
    <3>1. att.at \notin {"off", "closed"}
      BY <1>3 DEF Attached
    <3>2. \A f \in buf'.pending : seqOf[f] >= buf'.next
      BY <1>2, <2>1, <2>3 DEF Holds
    <3>3. buf'.next \in Nat /\ buf'.next <= counter
      BY <2>1 DEF ClientInv, BufFits
    <3>4. ASSUME att.at \in {"ready", "fence", "sync"}
          PROVE  buf'.deferred /\ ~buf'.timer /\ buf'.next = 0
      <4>1. buf.deferred /\ ~buf.timer /\ buf.next = 0
        BY <3>4 DEF ClientInv, BufFits
      <4>2. ~buf'.timer
        BY <2>1, <4>1, Zenon
      <4> QED BY <2>1, <4>1, <4>2
    <3>5. ASSUME att.at \in {"check", "live"} PROVE ~buf'.deferred
      BY <2>1, <3>5 DEF ClientInv, BufFits
    <3> QED BY <1>3, <1>10, <3>1, <3>2, <3>3, <3>4, <3>5 DEF BufFits
  <2>5. ReplayFits' /\ LossFits' /\ EarlyFits' /\ EndFits'
    <3>1. \A f : /\ Waits(f)' <=> Waits(f)
                 /\ Processed(f)' <=> Processed(f)
                 /\ Given(f)' <=> Given(f)
      BY <1>3, SameQueue
    <3>2. ReplayFits'
      BY <1>3, <1>10, <2>1, <3>1 DEF ClientInv, ReplayFits, Replayed, Segment
    <3>3. LossFits'
      BY <1>3, <1>10, <2>1, <3>1 DEF ClientInv, LossFits, Covered, Excused
    <3> QED BY <1>3, <1>10, <3>2, <3>3 DEF ClientInv, EarlyFits, EndFits, Segment
  <2>6. NoDuplicates' /\ NoSilentLoss' /\ OrderStep
    BY <1>3, <1>10 DEF NoDuplicates, NoSilentLoss, OrderStep
  <2> QED BY <2>2, <2>4, <2>5, <2>6 DEF ClientInv
<1>11. \/ ~buf.deferred /\ seqOf[e] < buf.next /\ UNCHANGED <<att, buf, seen, hist>>
       \/ ~buf.deferred /\ seqOf[e] = buf.next /\ Deliver(Ready(b), Drained(b))
            /\ hist' = Again(Ready(b))
       \/ (~buf.deferred => ~(seqOf[e] < buf.next)) /\ buf' = Hold(b)
            /\ UNCHANGED <<att, seen, hist>>
       \/ ~b.deferred /\ (~buf.deferred => ~(seqOf[e] < buf.next))
            /\ Deliver(b.pending, Forced(b))
            /\ hist' = [Again(b.pending) EXCEPT !.skipped = @ \cup GivenUp(b)]
  BY <1>1, Zenon DEF HandleOrdered, Overfull
<1>12. b.deferred = buf.deferred
  BY <1>2
<1> QED BY <1>7, <1>8, <1>9, <1>10, <1>11, <1>12

(* scheduleFlushTimeout's callback. *)
LEMMA TimeoutKeeps ==
  ASSUME TypeOK, PipeInv, ClientInv, NoDuplicates, NoSilentLoss, FlushTimeout
  PROVE  PipeInv' /\ ClientInv' /\ NoDuplicates' /\ NoSilentLoss' /\ OrderStep
<1>1. att.at \in {"check", "live"}
  <2>1. att.at \in {"off", "ready", "fence", "sync", "check", "live", "closed"}
    BY DEF TypeOK
  <2> QED BY <2>1 DEF FlushTimeout, ClientInv, BufFits
<1>2. IsBuffer(buf) /\ Holds(buf)
  BY <1>1, BufferHere, BufferHolds
<1>3. /\ UNCHANGED <<emitted, batch, wire, replies, counter, seqOf, receipt, flying, early, fails>>
      /\ buf.pending # {} /\ Deliver(buf.pending, Forced(buf))
      /\ hist' = [Again(buf.pending) EXCEPT !.skipped = @ \cup GivenUp(buf)]
  BY DEF FlushTimeout
<1>4. PICK b : b = buf
  OBVIOUS
<1>5. Holds(b)
  BY <1>2, <1>4 DEF Holds
<1>6. Undisturbed
  BY <1>3 DEF Undisturbed
<1> QED BY <1>1, <1>2, <1>3, <1>4, <1>5, <1>6, ForceKeeps DEF OrderStep

(* eventTransport.subscribe. *)
LEMMA SubscribeKeeps ==
  ASSUME TypeOK, PipeInv, ClientInv, NoDuplicates, NoSilentLoss, Subscribe
  PROVE  PipeInv' /\ ClientInv' /\ NoDuplicates' /\ NoSilentLoss' /\ OrderStep
<1> USE Types
<1>1. /\ UNCHANGED <<emitted, batch, wire, replies, counter, seqOf, receipt, flying, early, seen,
                     fails, hist>>
      /\ att.at = "off" /\ att'.at = "ready" /\ att'.end = att.end
  BY DEF Subscribe, TypeOK
<1>2. buf'.next = 0 /\ buf'.pending = {} /\ buf'.timer = FALSE /\ buf'.deferred = TRUE
  <2>1. buf' = [next |-> 0, pending |-> {}, timer |-> FALSE, deferred |-> TRUE]
    BY DEF Subscribe, Cold
  <2> QED BY <2>1
<1>3. PipeInv'
  BY <1>1, <1>2, PipeKept
<1>4. \A f : Given(f)' <=> Given(f)
  BY <1>1, SameQueue
<1>5. EarlyFits' /\ BufFits' /\ ReplayFits' /\ EndFits'
  BY <1>1, <1>2 DEF ClientInv, EarlyFits, BufFits, ReplayFits, EndFits
<1>6. LossFits'
  BY <1>1, <1>2, <1>4 DEF ClientInv, LossFits, BufFits
<1>7. NoDuplicates' /\ NoSilentLoss' /\ OrderStep
  BY <1>1 DEF NoDuplicates, NoSilentLoss, OrderStep, ClientInv, EndFits
<1> QED BY <1>3, <1>5, <1>6, <1>7 DEF ClientInv

(* The channel is active. *)
LEMMA MarkKeeps ==
  ASSUME TypeOK, PipeInv, ClientInv, NoDuplicates, NoSilentLoss, MarkSubscriber
  PROVE  PipeInv' /\ ClientInv' /\ NoDuplicates' /\ NoSilentLoss' /\ OrderStep
<1> USE Types
<1>1. /\ UNCHANGED <<emitted, batch, wire, replies, counter, seqOf, receipt, flying, early, buf,
                     seen, fails, hist>>
      /\ att.at = "ready" /\ att'.at = "fence" /\ att'.end = att.end
  BY DEF MarkSubscriber, TypeOK
<1>2. PipeInv'
  BY <1>1, PipeKept
<1>3. \A f : Given(f)' <=> Given(f)
  BY <1>1, SameQueue
<1>4. EarlyFits'
  <2>1. early.evs \subseteq Events
    BY DEF TypeOK
  <2>2. CASE early.overflowed
    BY <1>1, <2>2 DEF ClientInv, EarlyFits, Segment
  <2>3. CASE ~early.overflowed
    <3>1. \A e \in Events : e \in early.evs <=> e <= emitted /\ e < N
      BY <1>1, <2>3 DEF ClientInv, EarlyFits
    <3>2. Segment(early.evs)
      <4> SUFFICES ASSUME NEW e \in early.evs, NEW f \in Events, f < e PROVE f \in early.evs
        BY DEF Segment
      <4>1. e \in Events /\ e <= emitted /\ e < N
        BY <2>1, <3>1
      <4>2. f <= emitted /\ f < N
        BY <4>1
      <4> QED BY <3>1, <4>2
    <3> QED BY <1>1, <2>1, <2>3, <3>1, <3>2 DEF EarlyFits, Segment
  <2> QED BY <2>2, <2>3
<1>5. BufFits' /\ ReplayFits' /\ EndFits'
  BY <1>1 DEF ClientInv, BufFits, ReplayFits, EndFits
<1>6. LossFits'
  BY <1>1, <1>3 DEF ClientInv, LossFits
<1>7. NoDuplicates' /\ NoSilentLoss' /\ OrderStep
  BY <1>1 DEF NoDuplicates, NoSilentLoss, OrderStep, ClientInv, EndFits
<1> QED BY <1>2, <1>4, <1>5, <1>6, <1>7 DEF ClientInv

(* A set of numbers has a minimum. *)
LEMMA LeastIsMin ==
  ASSUME NEW T, T \subseteq Nat, T # {}
  PROVE  Min(T) \in T /\ \A n \in T : Min(T) <= n
<1>1. \E x \in T : \A y \in T : x <= y
  BY Least
<1> QED BY <1>1 DEF Min

(* What syncReorderBuffer makes of the buffer it finds: it goes on from the   *)
(* frontier of the replay, or, without one, from a point that is not past     *)
(* anything it holds.                                                         *)
LEMMA SyncedShape ==
  ASSUME TypeOK, PipeInv, ClientInv, att.at = "sync", NEW r, r.val \in Nat, r.val <= counter,
         NEW b, b = Synced(r)
  PROVE  /\ IsBuffer(b) /\ Holds(b) /\ b.deferred = FALSE
         /\ b.pending \subseteq buf.pending
         /\ att.frontier # None => b.next = att.frontier
         /\ att.frontier = None => b.pending = buf.pending
<1> USE Types
<1> DEFINE f == att.frontier
           pruned == {e \in buf.pending : f = None \/ seqOf[e] >= f}
           trust == IF f # None THEN f ELSE IF r.ok THEN r.val ELSE buf.next
           floor == IF r.ok /\ pruned # {} THEN Min({trust} \cup Seqs(pruned)) ELSE trust
           nx == Max({buf.next, floor})
<1>0. /\ IsBuffer(buf) /\ buf.pending \subseteq Events /\ buf.next = 0
      /\ \A e \in buf.pending : Given(e) /\ seqOf[e] \in Nat
      /\ f # None => f \in Nat /\ f <= counter
  <2>1. \A e \in buf.pending : e \in Events /\ Given(e)
    BY BufferHere DEF PipeInv, SeqFits
  <2> QED BY <2>1, BufferHere DEF ClientInv, BufFits, ReplayFits, PipeInv, SeqFits
<1>1. pruned \subseteq buf.pending /\ \A e \in pruned : seqOf[e] \in Nat
  BY <1>0
<1>2. trust \in Nat /\ trust <= counter
  BY <1>0
<1>3. f # None => \A e \in pruned : seqOf[e] >= trust
  OBVIOUS
<1>4. Seqs(pruned) \subseteq Nat /\ \A n : n \in Seqs(pruned) <=> \E e \in pruned : n = seqOf[e]
  BY <1>1 DEF Seqs
<1> HIDE DEF pruned, trust
<1>5. PICK mn : mn = Min({trust} \cup Seqs(pruned))
  OBVIOUS
<1>6. /\ mn \in Nat /\ mn <= trust /\ (mn = trust \/ \E e \in pruned : mn = seqOf[e])
       /\ \A e \in pruned : mn <= seqOf[e]
  <2>1. {trust} \cup Seqs(pruned) \subseteq Nat /\ {trust} \cup Seqs(pruned) # {}
    BY <1>2, <1>4
  <2>2. /\ mn \in {trust} \cup Seqs(pruned)
        /\ \A n \in {trust} \cup Seqs(pruned) : mn <= n
    BY <1>5, <2>1, LeastIsMin
  <2>3. \A e \in pruned : seqOf[e] \in Seqs(pruned)
    BY <1>4
  <2> QED BY <1>4, <2>1, <2>2, <2>3
<1>7. /\ floor \in Nat /\ floor <= counter
      /\ f # None => floor = f
      /\ \A e \in pruned : seqOf[e] >= floor
  <2>1. CASE r.ok /\ pruned # {}
    <3>1. floor = mn
      BY <1>5, <2>1
    <3> HIDE DEF floor, nx
    <3>2. mn <= counter /\ \A e \in pruned : seqOf[e] >= mn
      BY <1>1, <1>2, <1>6
    <3>3. ASSUME f # None PROVE mn = f
      <4>1. trust = f
        BY <3>3 DEF trust
      <4>2. mn >= trust
        BY <1>2, <1>3, <1>6, <3>3
      <4> QED BY <1>2, <1>6, <4>1, <4>2
    <3> QED BY <1>6, <3>1, <3>2, <3>3
  <2>2. CASE ~(r.ok /\ pruned # {})
    <3>1. floor = trust
      BY <2>2
    <3>2. ASSUME NEW e \in pruned PROVE seqOf[e] >= floor
      <4>1. CASE f # None
        BY <1>3, <3>1, <4>1
      <4>2. CASE f = None
        <5>1. ~r.ok
          BY <2>2
        <5>2. trust = 0
          BY <1>0, <4>2, <5>1 DEF trust
        <5> QED BY <1>1, <3>1, <5>2
      <4> QED BY <4>1, <4>2
    <3>3. f # None => floor = f
      BY <3>1 DEF trust
    <3> QED BY <1>2, <3>1, <3>2, <3>3
  <2> QED BY <2>1, <2>2
<1> HIDE DEF floor
<1>8. nx = floor
  <2>1. nx = Max({0, floor})
    BY <1>0
  <2>2. \A x \in {0, floor} : (\A y \in {0, floor} : x >= y) => x = floor
    BY <1>7
  <2>3. \E x \in {0, floor} : \A y \in {0, floor} : x >= y
    BY <1>7
  <2> HIDE DEF nx
  <2> QED BY <2>1, <2>2, <2>3 DEF Max
<1> HIDE DEF nx
<1>9. PICK v : v = FALSE
  OBVIOUS
<1>10. b = [buf EXCEPT !.pending = pruned, !.next = nx, !.deferred = v]
  BY <1>9 DEF Synced, nx, floor, trust, pruned
<1>11. IsBuffer(b) /\ b.next = nx /\ b.pending = pruned /\ b.deferred = v
  <2>1. PICK n, p, t, d : buf = [next |-> n, pending |-> p, timer |-> t, deferred |-> d]
    BY <1>0 DEF IsBuffer
  <2>2. b = [next |-> nx, pending |-> pruned, timer |-> t, deferred |-> v]
    BY <1>10, <2>1
  <2> QED BY <2>2 DEF IsBuffer
<1>12. Holds(b)
  BY <1>0, <1>1, <1>7, <1>8, <1>11 DEF Holds
<1>13. f = None => pruned = buf.pending
  BY DEF pruned
<1>14. /\ b.pending \subseteq buf.pending
       /\ att.frontier # None => b.next = att.frontier
       /\ att.frontier = None => b.pending = buf.pending
  BY <1>1, <1>7, <1>8, <1>11, <1>13
<1> QED BY <1>9, <1>11, <1>12, <1>14

(* syncReorderBuffer, and the end of the attachment. *)
LEMMA SyncKeeps ==
  ASSUME TypeOK, PipeInv, ClientInv, NoDuplicates, NoSilentLoss, Sync
  PROVE  /\ PipeInv' /\ ClientInv' /\ NoDuplicates' /\ NoSilentLoss' /\ OrderStep
         /\ buf'.pending \subseteq buf.pending
         /\ seen' \subseteq Events /\ hist'.twice \subseteq Events
<1> USE Types
<1>1. PICK r, b : r = Head(replies) /\ b = Synced(r)
  OBVIOUS
<1> DEFINE S == Ready(b)
           over == IF att.frontier = None THEN {e \in flying : seqOf[e] < b.next} ELSE {}
           gone == IF early.overflowed /\ emitted = N
                   THEN {e \in Events \ flying : seqOf[e] \in 0 .. (b.next - 1)} ELSE {}
           rest == [Drained(b) EXCEPT !.timer = b.pending # S]
<1>2. /\ att.at = "sync" /\ replies # <<>> /\ replies' = Tail(replies)
      /\ seen' = seen \cup S
      /\ hist' = [Again(S) EXCEPT !.passed = over, !.cut = gone]
      /\ UNCHANGED <<emitted, batch, wire, counter, seqOf, receipt, flying, early, fails>>
      /\ \/ Done \in S /\ Closed("done")
         \/ Closed("reconnect")
         \/ /\ early.overflowed => ~(emitted < N)
            /\ att' = [att EXCEPT !.at = "check"] /\ buf' = rest
  BY <1>1 DEF Sync
<1>3. /\ hist'.twice = hist.twice \cup (S \cap seen)
      /\ hist'.unsure = hist.unsure /\ hist'.unpublished = hist.unpublished
      /\ hist'.lost = hist.lost /\ hist'.passed = over /\ hist'.cut = gone
  BY <1>2, AgainFields
<1>4. r.val \in Nat /\ r.val <= counter
  <2>1. 1 \in 1 .. Len(replies) /\ Head(replies) = replies[1]
    <3>1. replies \in Seq(ReplyType)
      BY RepliesTyped
    <3> QED BY ONLY <3>1, <1>2
  <2> QED BY <1>1, <2>1, RepliesTyped DEF PipeInv, ReceiptFits, ReplyFits
<1>5. /\ IsBuffer(b) /\ Holds(b) /\ b.deferred = FALSE
      /\ b.pending \subseteq buf.pending
      /\ att.frontier # None => b.next = att.frontier
      /\ att.frontier = None => b.pending = buf.pending
  BY <1>1, <1>2, <1>4, SyncedShape
<1>6. PICK m \in Nat :
        /\ b.next <= m /\ m <= counter
        /\ Ready(b) = {e \in b.pending : seqOf[e] < m}
        /\ b.next + Cardinality(Ready(b)) = m
        /\ \A e \in Events : Given(e) /\ b.next <= seqOf[e] /\ seqOf[e] < m => e \in Ready(b)
  BY <1>5, ReadyShape
<1>7. S \in SUBSET Events /\ \A e \in S : Given(e) /\ b.next <= seqOf[e] /\ seqOf[e] < m
  <2>1. \A e \in b.pending : e \in Events /\ Given(e) /\ seqOf[e] \in Nat /\ seqOf[e] >= b.next
    BY <1>5 DEF Holds, PipeInv, SeqFits
  <2> QED BY <1>6, <2>1
<1>8. b.next \in Nat /\ seen \subseteq Events
  BY <1>5 DEF Holds, TypeOK
<1>9. /\ Segment(seen) /\ \A e \in seen : Processed(e)
      /\ att.frontier # None =>
           \A e \in Events : Given(e) /\ seqOf[e] < att.frontier => e \in seen
      /\ \A e \in seen : Given(e) /\ (att.frontier # None => seqOf[e] >= att.frontier)
                            => e \in hist.unsure
  BY <1>2 DEF ClientInv, ReplayFits
<1>10. Replayed(b.next)
  <2>1. \A e \in seen : Given(e) /\ seqOf[e] >= b.next => e \in hist.unsure
    BY <1>5, <1>9
  <2>2. seen \in SUBSET seen /\ seen \ seen = {}
    OBVIOUS
  <2> QED BY <1>9, <2>1, <2>2 DEF Replayed
<1>11. ASSUME early.overflowed => emitted = N,
              NEW e \in Events, Given(e), e < N, seqOf[e] < b.next
       PROVE  e \in seen \cup Excused'
  <2>0. e \in flying /\ att.frontier = None => e \in over
    BY <1>11
  <2>1. CASE att.frontier # None
    BY <1>5, <1>9, <1>11, <2>1
  <2>3. CASE att.frontier = None /\ early.overflowed
    <3>1. seqOf[e] \in Nat
      BY <1>11 DEF PipeInv, SeqFits
    <3>2. seqOf[e] \in 0 .. (b.next - 1)
      BY <1>8, <1>11, <3>1
    <3>3. e \notin flying => e \in gone
      BY <1>11, <2>3, <3>2
    <3> QED BY <1>3, <2>0, <2>3, <3>3 DEF Excused
  <2>2. CASE att.frontier = None /\ ~early.overflowed
    <3>1. e \in flying \cup buf.pending \cup seen \cup early.evs \cup hist.lost
      BY <1>2, <1>11, <2>2 DEF ClientInv, LossFits
    <3>2. early.evs = {}
      BY <1>2 DEF ClientInv, EarlyFits
    <3>3. e \notin buf.pending
      <4>1. e \in buf.pending => seqOf[e] >= b.next
        BY <1>5, <2>2 DEF Holds
      <4>2. seqOf[e] \in Nat
        BY <1>11 DEF PipeInv, SeqFits
      <4> QED BY <1>8, <1>11, <4>1, <4>2
    <3> QED BY <1>3, <2>0, <2>2, <3>1, <3>2, <3>3 DEF Excused
  <2> QED BY <2>1, <2>2, <2>3
<1>12. \A e \in Events : Given(e) /\ b.next <= seqOf[e] /\ seqOf[e] < m => e \in S \cup Excused'
  BY <1>6
<1>13. /\ Drained(b).next = m /\ Drained(b).pending = b.pending \ S
       /\ Drained(b).deferred = FALSE
  BY <1>5, <1>6, BufferSteps
<1>14. rest.next = m /\ rest.pending = b.pending \ S /\ rest.deferred = FALSE
  <2>1. PICK n, p, t, d : b = [next |-> n, pending |-> p, timer |-> t, deferred |-> d]
    BY <1>5 DEF IsBuffer
  <2>2. PICK u, nn : u = (b.timer /\ (b.pending \ Ready(b)) # {})
                       /\ nn = b.next + Cardinality(Ready(b))
    OBVIOUS
  <2>3. Drained(b) = [next |-> nn, pending |-> b.pending \ Ready(b), timer |-> u, deferred |-> d]
    <3>1. PICK q, c : q = b.pending \ Ready(b) /\ c = Drained(b)
      OBVIOUS
    <3>2. c = [b EXCEPT !.pending = q, !.next = nn, !.timer = u]
      BY <2>2, <3>1 DEF Drained
    <3>3. c = [next |-> nn, pending |-> q, timer |-> u, deferred |-> d]
      BY ONLY <2>1, <3>2
    <3> QED BY <3>1, <3>3
  <2>4. PICK x : x = (b.pending # S)
    OBVIOUS
  <2>5. rest = [Drained(b) EXCEPT !.timer = x]
    BY <2>4
  <2> HIDE DEF rest, S
  <2>6. /\ rest.next = Drained(b).next /\ rest.pending = Drained(b).pending
        /\ rest.deferred = Drained(b).deferred
    BY <2>3, <2>5
  <2> QED BY <1>13, <2>6
<1>15. \A e \in b.pending \ S : e \in Events /\ seqOf[e] >= m
  <2>1. \A e \in b.pending : e \in Events /\ seqOf[e] \in Nat
    BY <1>5 DEF Holds, PipeInv, SeqFits
  <2> QED BY <1>6, <2>1
<1>16. att.end = "none"
  BY <1>2 DEF ClientInv, EndFits
<1> HIDE DEF S, over, gone, rest
<1>17. Leaves(S, m)
  <2>1. CASE Done \in S /\ Closed("done")
    BY <2>1 DEF Closed, Leaves, TypeOK
  <2>2. CASE Closed("reconnect")
    BY <2>2 DEF Closed, Leaves, TypeOK
  <2>3. CASE /\ early.overflowed => ~(emitted < N)
             /\ att' = [att EXCEPT !.at = "check"] /\ buf' = rest
    <3>1. att'.at = "check" /\ att'.end = "none"
      BY <1>16, <2>3 DEF TypeOK
    <3> QED BY <1>14, <1>15, <2>3, <3>1 DEF Leaves
  <2> QED BY <1>2, <2>1, <2>2, <2>3
<1>18. Undisturbed /\ early' = early
  BY <1>2 DEF Undisturbed
<1>23. ASSUME Answers PROVE early.overflowed => emitted = N
  <2>1. CASE Done \in S
    <3>1. N \in Events /\ Given(N)
      BY <1>7, <2>1 DEF Done
    <3>2. N <= emitted /\ emitted \in 0 .. N
      BY <3>1 DEF PipeInv, QueueFits, TypeOK
    <3> QED BY <3>2
  <2>2. CASE Done \notin S
    <3>1. ~Closed("reconnect")
      BY <1>23 DEF Closed, Answers, TypeOK
    <3>2. emitted \in 0 .. N
      BY DEF TypeOK
    <3> QED BY <1>2, <2>2, <3>1, <3>2
  <2> QED BY <2>1, <2>2
<1>19. /\ ClientInv' /\ NoDuplicates' /\ NoSilentLoss'
       /\ \A e \in seen' \ seen, f \in seen : f < e
  <2>1. PICK n : n = b.next
    OBVIOUS
  <2>2. Answers =>
          \A e \in Events : Given(e) /\ e < N /\ seqOf[e] < b.next => e \in seen \cup Excused'
    BY <1>11, <1>23
  <2> QED BY <1>2, <1>3, <1>6, <1>7, <1>8, <1>10, <1>12, <1>17, <1>18, <2>1, <2>2, DeliveryKeeps
<1>20. buf'.pending \subseteq buf.pending
  <2>1. buf' = Cold \/ buf' = rest
    BY <1>2 DEF Closed
  <2> QED BY <1>5, <1>14, <2>1 DEF Cold
<1>21. PipeInv'
  BY <1>2, <1>3, <1>20, PipeKept
<1>22. seen' \subseteq Events /\ hist'.twice \subseteq Events
  BY <1>2, <1>3, <1>7, <1>8 DEF TypeOK
<1> QED BY <1>19, <1>20, <1>21, <1>22 DEF OrderStep

(* The replay of the early buffer. *)
LEMMA ReplayKeeps ==
  ASSUME TypeOK, PipeInv, ClientInv, NoDuplicates, NoSilentLoss, Replay
  PROVE  PipeInv' /\ ClientInv' /\ NoDuplicates' /\ NoSilentLoss' /\ OrderStep
<1> USE Types
<1>1. /\ att.at = "fence" /\ \A e \in early.evs : receipt[e] # "pending"
      /\ seen' = seen \cup early.evs
      /\ UNCHANGED <<emitted, batch, replies, counter, seqOf, receipt, flying, buf, fails, hist>>
  BY DEF Replay
<1>2. /\ att'.at = "sync" /\ att'.end = att.end
      /\ att'.frontier = IF Assigned = {} THEN None ELSE Max(Seqs(Assigned)) + 1
      /\ early'.evs = {} /\ early'.overflowed = early.overflowed /\ early'.closed = TRUE
  BY DEF Replay, TypeOK
<1>3. PipeInv' /\ Advances
  BY <1>1, ProducerQueues, QueuesKeeps
<1>4. seen = {} /\ seen' = early.evs
  BY <1>1 DEF ClientInv, ReplayFits
<1>5. early.evs \subseteq Events /\ Segment(early.evs) /\ \A e \in early.evs : e <= emitted
  BY <1>1 DEF TypeOK, ClientInv, EarlyFits
<1>6. \A e : Given(e)' <=> Given(e)
  BY <1>1 DEF Given
<1>7. \A e \in early.evs : Processed(e)'
  <2> SUFFICES ASSUME NEW e \in early.evs PROVE Processed(e)
    BY <1>3, <1>5 DEF Advances
  <2>1. ~Waits(e)
    BY <1>1, <1>5 DEF PipeInv, QueueFits
  <2> QED BY <1>5, <2>1 DEF Processed
<1>8. \A e \in Assigned : e \in early.evs /\ e \in Events /\ Given(e)
  BY <1>5 DEF Assigned, PipeInv, ReceiptFits
<1>9. ASSUME Assigned # {}
      PROVE  /\ att'.frontier \in Nat /\ att'.frontier <= counter
             /\ \A e \in Events : Given(e) /\ seqOf[e] < att'.frontier => e \in early.evs
             /\ \A e \in Assigned : seqOf[e] < att'.frontier
  <2> DEFINE M == Max(Seqs(Assigned))
  <2>1. Assigned \in SUBSET Events
    BY <1>8
  <2>2. /\ M \in Nat /\ M < counter
        /\ \E e \in Assigned : seqOf[e] = M
        /\ \A e \in Assigned : seqOf[e] <= M
    BY <1>8, <1>9, <2>1, LastSeq
  <2>3. att'.frontier = M + 1
    BY <1>2, <1>9
  <2> HIDE DEF M
  <2>4. \A e \in Assigned : seqOf[e] \in Nat
    BY <1>8 DEF PipeInv, SeqFits
  <2>5. ASSUME NEW e \in Events, Given(e), seqOf[e] < att'.frontier PROVE e \in early.evs
    <3>1. PICK a \in Assigned : seqOf[a] = M
      BY <2>2
    <3>2. a \in Events /\ Given(a) /\ a \in early.evs
      BY <1>8
    <3>3. seqOf[e] \in Nat
      BY <2>5 DEF PipeInv, SeqFits
    <3>4. a < e => seqOf[a] < seqOf[e]
      BY <2>5, <3>2 DEF PipeInv, SeqFits
    <3>5. ~(a < e)
      BY <2>2, <2>3, <2>5, <3>1, <3>3, <3>4
    <3>6. e = a \/ e < a
      BY <3>2, <3>5
    <3> QED BY <1>5, <3>2, <3>6 DEF Segment
  <2> QED BY <2>2, <2>3, <2>4, <2>5
<1>10. att'.frontier # None <=> Assigned # {}
  BY <1>2, <1>9 DEF None
<1>11. ASSUME NEW e \in early.evs, Given(e), att'.frontier # None => seqOf[e] >= att'.frontier
       PROVE  e \in hist.unsure
  <2>1. e \in Events /\ e <= emitted
    BY <1>5
  <2>2. receipt[e] \in {"number", "undefined"}
    <3>1. receipt[e] \in {"none", "pending", "number", "undefined"}
      BY <2>1 DEF TypeOK
    <3> QED BY <1>1, <2>1, <3>1 DEF PipeInv, QueueFits
  <2>3. CASE receipt[e] = "number"
    <3>1. e \in Assigned
      BY <2>3 DEF Assigned
    <3>2. seqOf[e] < att'.frontier /\ seqOf[e] >= att'.frontier /\ att'.frontier \in Nat
      BY <1>9, <1>10, <1>11, <3>1
    <3>3. seqOf[e] \in Nat
      BY <1>11, <2>1 DEF PipeInv, SeqFits
    <3> QED BY <3>2, <3>3
  <2>4. CASE receipt[e] = "undefined"
    BY <1>11, <2>1, <2>4 DEF PipeInv, ReceiptFits
  <2> QED BY <2>2, <2>3, <2>4
<1>12. ReplayFits'
  <2>1. Segment(seen')
    BY <1>4, <1>5
  <2>2. att'.frontier # None =>
          /\ att'.frontier \in Nat /\ att'.frontier <= counter'
          /\ \A e \in Events : Given(e)' /\ seqOf'[e] < att'.frontier => e \in seen'
    BY <1>1, <1>4, <1>6, <1>9, <1>10
  <2>3. \A e \in seen' : Given(e)' /\ (att'.frontier # None => seqOf'[e] >= att'.frontier)
                            => e \in hist'.unsure
    BY <1>1, <1>4, <1>6, <1>11
  <2> QED BY <1>2, <1>4, <1>7, <2>1, <2>2, <2>3 DEF ReplayFits, Segment
<1>13. LossFits'
  <2> SUFFICES ASSUME ~early.overflowed, NEW e \in Events, Given(e), e < N
               PROVE  e \in flying \cup buf.pending \cup seen' \cup hist.lost
    BY <1>1, <1>2, <1>6 DEF LossFits
  <2>1. e \in flying \cup buf.pending \cup seen \cup early.evs \cup hist.lost
    BY <1>1 DEF ClientInv, LossFits
  <2> QED BY <1>1, <2>1
<1>14. EarlyFits' /\ BufFits' /\ EndFits'
  BY <1>1, <1>2 DEF ClientInv, EarlyFits, BufFits, EndFits
<1>15. NoDuplicates' /\ NoSilentLoss' /\ OrderStep
  <2>1. att'.end # "done"
    BY <1>1, <1>2 DEF ClientInv, EndFits
  <2> QED BY <1>1, <1>4, <2>1 DEF NoDuplicates, NoSilentLoss, OrderStep
<1> QED BY <1>3, <1>12, <1>13, <1>14, <1>15 DEF ClientInv

(* An attachment that ends without DONE. *)
LEMMA ClosedKeeps ==
  ASSUME TypeOK, PipeInv', ClientInv, NoDuplicates, NEW how, how # "done", Closed(how),
         early' = early, seen' = seen, hist' = hist, counter' = counter
  PROVE  ClientInv' /\ NoDuplicates' /\ NoSilentLoss' /\ OrderStep
<1>1. att'.at = "closed" /\ att'.end = how
  BY DEF Closed, TypeOK
<1>2. buf'.next = 0 /\ buf'.pending = {} /\ buf'.timer = FALSE
  BY DEF Closed, Cold
<1>3. BufFits'
  BY <1>1, <1>2, Types DEF BufFits
<1>4. EarlyFits' /\ ReplayFits' /\ LossFits' /\ EndFits'
  BY <1>1 DEF ClientInv, EarlyFits, ReplayFits, LossFits, EndFits
<1>5. NoDuplicates' /\ NoSilentLoss' /\ OrderStep
  BY <1>1 DEF NoDuplicates, NoSilentLoss, OrderStep
<1> QED BY <1>3, <1>4, <1>5 DEF ClientInv

(* The steps of the transport that move nothing of the subscriber's. *)
LEMMA TransportKeeps ==
  ASSUME TypeOK, PipeInv, ClientInv, NoDuplicates, NoSilentLoss, PipeInv', Advances,
         counter' \in Nat, emitted' = emitted, HistGrows, flying \subseteq flying',
         UNCHANGED <<att, buf, seen, early>>
  PROVE  ClientInv' /\ NoDuplicates' /\ NoSilentLoss' /\ OrderStep
<1>1. EarlyFits'
  BY DEF ClientInv, EarlyFits, Segment
<1>2. ClientInv' /\ NoDuplicates' /\ NoSilentLoss'
  BY <1>1, ClientKept
<1> QED BY <1>2 DEF OrderStep

(* Execute, Refuse and ReplyLost. *)
LEMMA CommandsKeep ==
  ASSUME TypeOK, PipeInv, ClientInv, NoDuplicates, NoSilentLoss, Execute \/ Refuse \/ ReplyLost
  PROVE  PipeInv' /\ ClientInv' /\ NoDuplicates' /\ NoSilentLoss' /\ OrderStep
<1>1. PipeInv' /\ Advances
  BY RedisKeeps
<1>2. /\ UNCHANGED <<att, buf, seen, early>> /\ emitted' = emitted /\ flying \subseteq flying'
      /\ wire # <<>>
  BY DEF Execute, Refuse, ReplyLost, Publish
<1>3. HistGrows
  <2>1. CASE Execute
    BY <2>1 DEF Execute, HistGrows
  <2>2. CASE Refuse
    BY <2>2 DEF Refuse, HistGrows, TypeOK
  <2>3. CASE ReplyLost
    BY <2>3 DEF ReplyLost, HistGrows, TypeOK
  <2> QED BY <2>1, <2>2, <2>3
<1>4. counter' \in Nat
  <2>1. Head(wire) \in SUBSET Events
    BY <1>2 DEF TypeOK
  <2> QED BY <2>1, PublishFacts, Types DEF Execute, Refuse, ReplyLost
<1> QED BY <1>1, <1>2, <1>3, <1>4, TransportKeeps

(* The receipts settle. *)
LEMMA SettleKeeps ==
  ASSUME TypeOK, PipeInv, ClientInv, NoDuplicates, NoSilentLoss, Settle
  PROVE  PipeInv' /\ ClientInv' /\ NoDuplicates' /\ NoSilentLoss' /\ OrderStep
<1>1. UNCHANGED <<emitted, batch, wire, counter, seqOf, flying, early, seen, fails, hist>>
  BY DEF Settle
<1>2. Closed("reconnect") \/ UNCHANGED <<att, buf>>
  BY DEF Settle
<1>3. buf'.pending \subseteq buf.pending
  BY <1>2 DEF Closed, Cold
<1>4. PipeInv' /\ Advances
  BY <1>3, SettlePipe
<1>5. CASE Closed("reconnect")
  BY <1>1, <1>4, <1>5, ClosedKeeps
<1>6. CASE UNCHANGED <<att, buf>>
  BY <1>1, <1>4, <1>6, Types, TransportKeeps DEF HistGrows
<1> QED BY <1>2, <1>4, <1>5, <1>6

(* A message that nobody gets: lost, or without a subscriber. *)
LEMMA DropKeeps ==
  ASSUME TypeOK, PipeInv, ClientInv, NoDuplicates, NoSilentLoss, NEW e \in Events,
         Lose(e) \/ Unheard(e)
  PROVE  PipeInv' /\ ClientInv' /\ NoDuplicates' /\ NoSilentLoss' /\ OrderStep
<1> USE Types
<1>1. /\ UNCHANGED <<emitted, batch, wire, replies, counter, seqOf, receipt, early, att, buf,
                     seen, fails>>
      /\ flying' = flying \ {e}
  BY DEF Lose, Unheard
<1>2. /\ hist'.unsure = hist.unsure /\ hist'.unpublished = hist.unpublished /\ HistGrows
      /\ Lose(e) => e \in hist'.lost
  <2>1. CASE Lose(e)
    BY <2>1 DEF Lose, HistGrows, TypeOK
  <2>2. CASE Unheard(e) /\ ~Lose(e)
    BY <2>2 DEF Unheard, HistGrows
  <2> QED BY <2>1, <2>2
<1>3. PipeInv' /\ Advances
  BY <1>1, <1>2, PipeKept
<1>4. EarlyFits'
  BY <1>1 DEF ClientInv, EarlyFits, Segment
<1>5. ASSUME att.at \in {"off", "ready", "fence", "sync"}, ~early.overflowed,
             NEW f \in flying, Given(f), f < N
      PROVE  f \in flying' \cup early'.evs \cup hist'.lost
  <2>1. CASE f # e
    BY <1>1, <2>1
  <2>2. CASE f = e /\ Lose(e)
    BY <1>2, <2>2
  <2>3. CASE f = e /\ Unheard(e)
    <3>1. att.at = "off"
      BY <1>5, <2>3 DEF Unheard, Attached
    <3>2. f <= emitted
      BY <1>5, <2>3 DEF PipeInv, QueueFits
    <3>3. f \in early.evs
      BY <1>5, <2>3, <3>1, <3>2 DEF ClientInv, EarlyFits
    <3> QED BY <1>1, <3>3
  <2> QED BY <2>1, <2>2, <2>3
<1>6. ClientInv' /\ NoDuplicates' /\ NoSilentLoss'
  BY <1>1, <1>2, <1>3, <1>4, <1>5, ClientKept
<1> QED BY <1>1, <1>3, <1>6 DEF OrderStep

(* An answer to an attachment that is gone, and the stored terminal row. *)
LEMMA AfterwardsKeeps ==
  ASSUME TypeOK, PipeInv, ClientInv, NoDuplicates, NoSilentLoss, SyncGone \/ StoredTerminal
  PROVE  PipeInv' /\ ClientInv' /\ NoDuplicates' /\ NoSilentLoss' /\ OrderStep
<1> USE Types
<1>1. CASE SyncGone
  <2>1. PipeInv' /\ Advances
    BY <1>1, PipeKept DEF SyncGone
  <2> QED BY <1>1, <2>1, TransportKeeps DEF SyncGone, HistGrows
<1>2. CASE StoredTerminal
  <2>1. /\ UNCHANGED <<emitted, batch, wire, replies, counter, seqOf, receipt, flying, early,
                       seen, fails, hist>>
        /\ att.at = "check"
    BY <1>2 DEF StoredTerminal
  <2>2. Closed("stored") \/ (att' = [att EXCEPT !.at = "live"] /\ buf' = buf)
    BY <1>2 DEF StoredTerminal
  <2>3. buf'.pending \subseteq buf.pending
    BY <2>2 DEF Closed, Cold
  <2>4. PipeInv' /\ Advances
    BY <2>1, <2>3, PipeKept
  <2>5. CASE Closed("stored")
    BY <2>1, <2>4, <2>5, ClosedKeeps
  <2>6. CASE att' = [att EXCEPT !.at = "live"] /\ buf' = buf
    <3>1. att'.at = "live" /\ att'.end = att.end
      BY <2>6 DEF TypeOK
    <3>2. \A f : /\ Waits(f)' <=> Waits(f)
                 /\ Processed(f)' <=> Processed(f)
                 /\ Given(f)' <=> Given(f)
      BY <2>1, SameQueue
    <3>3. ReplayFits'
      BY <2>1, <2>6, <3>1, <3>2 DEF ClientInv, ReplayFits, Replayed, Segment
    <3>4. LossFits'
      BY <2>1, <2>6, <3>1, <3>2 DEF ClientInv, LossFits, Covered, Excused
    <3>5. EarlyFits' /\ BufFits' /\ EndFits'
      BY <2>1, <2>6, <3>1 DEF ClientInv, EarlyFits, BufFits, EndFits
    <3>6. NoDuplicates' /\ NoSilentLoss' /\ OrderStep
      BY <2>1, <3>1 DEF NoDuplicates, NoSilentLoss, OrderStep
    <3> QED BY <2>4, <3>3, <3>4, <3>5, <3>6 DEF ClientInv
  <2> QED BY <2>2, <2>4, <2>5, <2>6
<1> QED BY <1>1, <1>2

(* What bufferEarlyEvent does. *)
LEMMA EarlyGrows ==
  ASSUME TypeOK, BufferEarly(emitted + 1)
  PROVE  \/ early' = early /\ (HasSubscriber \/ att.at = "closed" \/ early.closed)
         \/ /\ early'.evs = {} /\ early'.closed = TRUE /\ early'.overflowed = TRUE
            /\ ~HasSubscriber /\ att.at # "closed"
         \/ /\ early'.evs = early.evs \cup {emitted + 1} /\ early'.closed = early.closed
            /\ early'.overflowed = early.overflowed
            /\ ~HasSubscriber /\ att.at # "closed" /\ ~early.closed
            /\ ~(Cardinality(early.evs) >= EarlyMax)
<1> DEFINE A == HasSubscriber \/ att.at = "closed" \/ early.closed
           B == Cardinality(early.evs) >= EarlyMax
<1>1. CASE A
  BY <1>1 DEF BufferEarly
<1>2. CASE ~A /\ B
  <2>1. early' = [evs |-> {}, closed |-> TRUE, overflowed |-> TRUE]
    BY <1>2 DEF BufferEarly
  <2> QED BY <1>2, <2>1
<1>3. CASE ~A /\ ~B
  <2>1. early' = [early EXCEPT !.evs = @ \cup {emitted + 1}]
    BY <1>3 DEF BufferEarly
  <2>2. /\ early'.evs = early.evs \cup {emitted + 1} /\ early'.closed = early.closed
        /\ early'.overflowed = early.overflowed
    BY <2>1 DEF TypeOK
  <2> QED BY <1>3, <2>2
<1> QED BY <1>1, <1>2, <1>3

(* The producer. *)
LEMMA ProducerKeeps ==
  ASSUME TypeOK, PipeInv, ClientInv, NoDuplicates, NoSilentLoss,
         EmitDelta \/ EmitChunk \/ EmitDone \/ FlushWindow
  PROVE  PipeInv' /\ ClientInv' /\ NoDuplicates' /\ NoSilentLoss' /\ OrderStep
<1> USE Types
<1>1. UNCHANGED <<replies, counter, seqOf, flying, att, buf, seen, fails, hist>>
  BY DEF EmitDelta, EmitChunk, EmitDone, FlushWindow
<1>2. PipeInv' /\ Advances
  BY <1>1, ProducerQueues, QueuesKeeps
<1>3. \/ /\ BufferEarly(emitted + 1) /\ emitted' = emitted + 1 /\ emitted + 1 < N
      \/ /\ early' = early /\ (emitted' = emitted \/ (emitted' = N /\ emitted + 1 = N))
  BY DEF EmitDelta, EmitChunk, EmitDone, FlushWindow
<1>4. early.evs \subseteq Events
  BY DEF TypeOK
<1>5. /\ EarlyFits' /\ (early.overflowed => early'.overflowed)
      /\ ~early'.overflowed => early.evs \subseteq early'.evs
  <2>1. CASE early' = early /\ (emitted' = emitted \/ (emitted' = N /\ emitted + 1 = N))
    <3>1. emitted <= emitted' /\ \A e \in Events : (e <= emitted' /\ e < N) <=> (e <= emitted /\ e < N)
      BY <2>1
    <3>2. \A e \in early.evs : e <= emitted => e <= emitted'
      BY <1>4, <3>1
    <3> QED BY <1>1, <2>1, <3>1, <3>2 DEF ClientInv, EarlyFits, Segment
  <2>2. CASE BufferEarly(emitted + 1) /\ emitted' = emitted + 1 /\ emitted + 1 < N
    <3>0. \A e \in early.evs : e <= emitted => e <= emitted'
      BY <1>4, <2>2
    <3>1. CASE early' = early /\ (HasSubscriber \/ att.at = "closed" \/ early.closed)
      BY <1>1, <3>0, <3>1 DEF HasSubscriber, ClientInv, EarlyFits, Segment
    <3>2. CASE /\ early'.evs = {} /\ early'.closed = TRUE /\ early'.overflowed = TRUE
               /\ ~HasSubscriber /\ att.at # "closed"
      BY <1>1, <3>2 DEF HasSubscriber, EarlyFits
    <3>3. CASE /\ early'.evs = early.evs \cup {emitted + 1} /\ early'.closed = early.closed
               /\ early'.overflowed = early.overflowed /\ ~early.closed
               /\ ~HasSubscriber /\ att.at # "closed"
      <4>1. att.at \in {"off", "ready"}
        BY <3>3 DEF HasSubscriber, TypeOK
      <4>2. \A e \in Events : e <= emitted + 1 <=> e <= emitted \/ e = emitted + 1
        OBVIOUS
      <4>3. ~early.overflowed => \A e \in Events : e \in early'.evs <=> e <= emitted' /\ e < N
        BY <2>2, <3>3, <4>1, <4>2 DEF ClientInv, EarlyFits
      <4>4. ~early.overflowed
        BY <3>3 DEF ClientInv, EarlyFits
      <4> QED BY <1>1, <3>3, <4>1, <4>3, <4>4 DEF ClientInv, EarlyFits
    <3> QED BY <2>2, <3>1, <3>2, <3>3, EarlyGrows
  <2> QED BY <1>3, <2>1, <2>2
<1>6. ClientInv' /\ NoDuplicates' /\ NoSilentLoss'
  BY <1>1, <1>2, <1>5, ClientKept DEF HistGrows
<1> QED BY <1>1, <1>2, <1>6 DEF OrderStep

-----------------------------------------------------------------------------
(* Types. *)

(* The part of TypeOK that is about the producer, Redis and the channel. *)
PipeTypes ==
  /\ emitted \in 0 .. N /\ batch \subseteq Events
  /\ wire \in Seq(SUBSET Events)
  /\ replies \in Seq(ReplyType)
  /\ counter \in Nat
  /\ seqOf \in [Events -> Nat \cup {None}]
  /\ receipt \in [Events -> {"none", "pending", "number", "undefined"}]
  /\ flying \subseteq Events
  /\ fails \in 0 .. MaxFails

(* The part that is about the subscriber. *)
ClientTypes ==
  /\ early \in [evs : SUBSET Events, closed : BOOLEAN, overflowed : BOOLEAN]
  /\ Cardinality(early.evs) <= EarlyMax
  /\ att \in [at : {"off", "ready", "fence", "sync", "check", "live", "closed"},
              frontier : Nat \cup {None}, end : {"none", "done", "reconnect", "stored"}]
  /\ buf \in [next : Nat, pending : SUBSET Events, timer : BOOLEAN, deferred : BOOLEAN]
  /\ seen \subseteq Events

(* The part that is about what the model records. *)
HistTypes ==
  hist \in [twice : SUBSET Events, unsure : SUBSET Events, unpublished : SUBSET Events,
            lost : SUBSET Events, skipped : SUBSET Events, passed : SUBSET Events,
            cut : SUBSET Events]

(* Together they are TypeOK. *)
LEMMA TypeParts == TypeOK <=> PipeTypes /\ ClientTypes /\ HistTypes
BY DEF TypeOK, PipeTypes, ClientTypes, HistTypes, ReplyType

(* What is left of the answers when the first one is taken. *)
LEMMA RepliesShorten ==
  ASSUME TypeOK, replies # <<>>
  PROVE  Tail(replies) \in Seq(ReplyType)
<1>1. replies \in Seq(ReplyType)
  BY RepliesTyped
<1> QED BY ONLY <1>1, replies # <<>>

(* Steps of the producer, Redis and the channel. *)
LEMMA PipeTypesStep ==
  ASSUME TypeOK, PipeInv, Next
  PROVE  PipeTypes'
<1> USE Types
<1>0. PipeTypes
  BY TypeParts
<1>1. CASE EmitDelta \/ EmitChunk \/ EmitDone \/ FlushWindow \/ Replay
  <2>1. Queues
    BY <1>1, ProducerQueues
  <2>2. fails' = fails
    BY <1>1 DEF EmitDelta, EmitChunk, EmitDone, FlushWindow, Replay
  <2>3. emitted' \in 0 .. N
    BY <2>1 DEF Queues
  <2>4. receipt' \in [Events -> {"none", "pending", "number", "undefined"}]
    BY <1>0, <2>1 DEF Queues, PipeTypes
  <2> QED BY <1>0, <2>1, <2>2, <2>3, <2>4 DEF Queues, PipeTypes
<1>2. CASE Execute \/ Refuse \/ ReplyLost
  <2>1. Head(wire) \in SUBSET Events /\ Tail(wire) \in Seq(SUBSET Events) /\ wire' = Tail(wire)
    <3>1. wire # <<>> /\ wire' = Tail(wire)
      BY <1>2 DEF Execute, Refuse, ReplyLost
    <3> QED BY <3>1, FrameLeaves DEF PipeInv, QueueFits
  <2>2. PICK ok \in BOOLEAN : replies' = Append(replies, Reply(Head(wire), ok))
    BY <1>2 DEF Execute, Refuse, ReplyLost
  <2>3. Reply(Head(wire), ok) \in ReplyType
    BY <2>1 DEF Reply, ReplyType
  <2>4. replies' \in Seq(ReplyType)
    BY <1>0, <2>2, <2>3 DEF PipeTypes
  <2>5. UNCHANGED <<emitted, batch, receipt>>
    BY <1>2 DEF Execute, Refuse, ReplyLost
  <2>6. fails' \in 0 .. MaxFails
    <3>1. fails' = fails \/ (fails < MaxFails /\ fails' = fails + 1)
      BY <1>2 DEF Execute, Refuse, ReplyLost
    <3> QED BY ONLY <1>0, <3>1, TransportBounds DEF PipeTypes
  <2>7. Publish(Head(wire)) \/ UNCHANGED <<counter, seqOf, flying>>
    BY <1>2 DEF Execute, Refuse, ReplyLost
  <2>8. counter' \in Nat /\ seqOf' \in [Events -> Nat \cup {None}] /\ flying' \subseteq Events
    <3>1. CASE Publish(Head(wire))
      BY <1>0, <2>1, <3>1, PublishFacts DEF Publish, PipeTypes
    <3>2. CASE UNCHANGED <<counter, seqOf, flying>>
      BY <1>0, <3>2 DEF PipeTypes
    <3> QED BY <2>7, <3>1, <3>2
  <2> QED BY <1>0, <2>1, <2>4, <2>5, <2>6, <2>8 DEF PipeTypes
<1>3. CASE Settle
  <2>1. replies' \in Seq(ReplyType)
    BY <1>3, RepliesShorten DEF Settle
  <2>2. receipt' \in [Events -> {"none", "pending", "number", "undefined"}]
    BY <1>0, <1>3 DEF Settle, PipeTypes
  <2> QED BY <1>0, <1>3, <2>1, <2>2 DEF Settle, PipeTypes
<1>4. ASSUME NEW e \in Events, Lose(e) \/ Unheard(e) \/ HandleOrdered(e) PROVE PipeTypes'
  BY <1>0, <1>4 DEF Lose, Unheard, HandleOrdered, PipeTypes
<1>5. CASE Sync \/ SyncGone
  <2>1. replies' \in Seq(ReplyType)
    BY <1>5, RepliesShorten DEF Sync, SyncGone
  <2> QED BY <1>0, <1>5, <2>1 DEF Sync, SyncGone, PipeTypes
<1>6. CASE FlushTimeout \/ Subscribe \/ MarkSubscriber \/ StoredTerminal
  BY <1>0, <1>6 DEF FlushTimeout, Subscribe, MarkSubscriber, StoredTerminal, PipeTypes
<1> QED BY <1>1, <1>2, <1>3, <1>4, <1>5, <1>6 DEF Next

(* The histories are sets of events. *)
LEMMA HistTypesStep ==
  ASSUME TypeOK, PipeInv, ClientInv, NoDuplicates, NoSilentLoss, Next
  PROVE  HistTypes'
<1> USE Types
<1>0. /\ HistTypes /\ seen \subseteq Events /\ flying \subseteq Events
      /\ \A b : GivenUp(b) \subseteq Events
  BY DEF TypeOK, HistTypes, GivenUp
<1>1. ASSUME hist' = hist PROVE HistTypes'
  BY <1>0, <1>1 DEF HistTypes
<1>2. CASE Refuse \/ ReplyLost
  <2>1. Head(wire) \in SUBSET Events
    BY <1>2, FrameLeaves DEF Refuse, ReplyLost, PipeInv, QueueFits
  <2> QED BY <1>0, <1>2, <2>1 DEF Refuse, ReplyLost, HistTypes
<1>3. ASSUME NEW e \in Events, Lose(e) PROVE HistTypes'
  BY <1>0, <1>3 DEF Lose, HistTypes
<1>4. ASSUME NEW S, hist' = Again(S) PROVE HistTypes'
  BY <1>0, <1>4 DEF Again, HistTypes
<1>5. ASSUME NEW S, NEW b, hist' = [Again(S) EXCEPT !.skipped = @ \cup GivenUp(b)]
      PROVE  HistTypes'
  <2>1. GivenUp(b) \subseteq Events
    BY <1>0
  <2>2. PICK h : h = Again(S)
    OBVIOUS
  <2>3. h \in [twice : SUBSET Events, unsure : SUBSET Events, unpublished : SUBSET Events,
               lost : SUBSET Events, skipped : SUBSET Events, passed : SUBSET Events,
               cut : SUBSET Events]
    BY <1>0, <2>2 DEF Again, HistTypes
  <2> QED BY <1>5, <2>1, <2>2, <2>3 DEF HistTypes
<1>6. ASSUME NEW e \in Events, HandleOrdered(e) PROVE HistTypes'
  BY <1>1, <1>4, <1>5, <1>6 DEF HandleOrdered
<1>7. CASE FlushTimeout
  BY <1>5, <1>7 DEF FlushTimeout
<1>8. ASSUME NEW S, NEW X \in SUBSET Events, NEW Y \in SUBSET Events,
             hist' = [Again(S) EXCEPT !.passed = X, !.cut = Y]
      PROVE  HistTypes'
  <2>1. PICK h : h = Again(S)
    OBVIOUS
  <2>2. h \in [twice : SUBSET Events, unsure : SUBSET Events, unpublished : SUBSET Events,
               lost : SUBSET Events, skipped : SUBSET Events, passed : SUBSET Events,
               cut : SUBSET Events]
    BY <1>0, <2>1 DEF Again, HistTypes
  <2> QED BY <1>8, <2>1, <2>2 DEF HistTypes
<1>9. CASE Sync
  <2> DEFINE c == Synced(Head(replies))
             over == IF att.frontier = None THEN {e \in flying : seqOf[e] < c.next} ELSE {}
             gone == IF early.overflowed /\ emitted = N
                     THEN {e \in Events \ flying : seqOf[e] \in 0 .. (c.next - 1)} ELSE {}
  <2>1. hist' = [Again(Ready(c)) EXCEPT !.passed = over, !.cut = gone]
    BY <1>9 DEF Sync
  <2>2. over \in SUBSET Events /\ gone \in SUBSET Events
    BY <1>0
  <2> HIDE DEF c, over, gone
  <2> QED BY <1>8, <2>1, <2>2
<1>10. CASE \/ EmitDelta \/ EmitChunk \/ EmitDone \/ FlushWindow \/ Execute \/ Settle
           \/ Subscribe \/ MarkSubscriber \/ Replay \/ SyncGone \/ StoredTerminal
           \/ \E e \in Events : Unheard(e)
  BY <1>1, <1>10 DEF EmitDelta, EmitChunk, EmitDone, FlushWindow, Execute, Settle, Subscribe,
                    MarkSubscriber, Replay, SyncGone, StoredTerminal, Unheard
<1> QED BY <1>2, <1>3, <1>6, <1>7, <1>9, <1>10 DEF Next

(* The early buffer keeps its shape, and its bound. *)
LEMMA EarlyTypesStep ==
  ASSUME TypeOK, Next
  PROVE  /\ early' \in [evs : SUBSET Events, closed : BOOLEAN, overflowed : BOOLEAN]
         /\ Cardinality(early'.evs) <= EarlyMax
<1> USE Types
<1>0. /\ early \in [evs : SUBSET Events, closed : BOOLEAN, overflowed : BOOLEAN]
      /\ Cardinality(early.evs) <= EarlyMax
  BY DEF TypeOK
<1>1. CASE early' = early
  BY <1>0, <1>1
<1>2. IsFiniteSet(early.evs) /\ Cardinality(early.evs) \in Nat /\ EarlyMax \in Nat
  <2>1. IsFiniteSet(Events)
    BY FS_Interval DEF Events
  <2>2. early.evs \in SUBSET Events
    BY <1>0
  <2>3. IsFiniteSet(early.evs)
    BY <2>1, <2>2, FS_Subset
  <2> QED BY <2>3, FS_CardinalityType, TransportBounds
<1>3. Cardinality({}) = 0
  BY FS_EmptySet
<1>4. CASE BufferEarly(emitted + 1) /\ emitted + 1 < N
  <2> DEFINE A == HasSubscriber \/ att.at = "closed" \/ early.closed
             B == Cardinality(early.evs) >= EarlyMax
  <2>0. emitted + 1 \in Events
    BY <1>4 DEF Events
  <2>1. CASE A
    BY <1>1, <1>4, <2>1 DEF BufferEarly
  <2>2. CASE ~A /\ B
    <3>1. early' = [evs |-> {}, closed |-> TRUE, overflowed |-> TRUE]
      BY <1>4, <2>2 DEF BufferEarly
    <3> QED BY <1>2, <1>3, <3>1
  <2>3. CASE ~A /\ ~B
    <3>1. early' = [early EXCEPT !.evs = @ \cup {emitted + 1}]
      BY <1>4, <2>3 DEF BufferEarly
    <3>2. /\ early' \in [evs : SUBSET Events, closed : BOOLEAN, overflowed : BOOLEAN]
          /\ early'.evs = early.evs \cup {emitted + 1}
      BY <1>0, <2>0, <3>1
    <3>3. PICK T : T = early.evs
      OBVIOUS
    <3>4. \/ Cardinality(T \cup {emitted + 1}) = Cardinality(T)
          \/ Cardinality(T \cup {emitted + 1}) = Cardinality(T) + 1
      <4>1. IsFiniteSet(T)
        BY <1>2, <3>3
      <4> QED BY ONLY <4>1, FS_AddElement
    <3>5. Cardinality(early'.evs) <= EarlyMax
      BY ONLY <1>2, <2>3, <3>2, <3>3, <3>4
    <3> QED BY <3>2, <3>5
  <2> QED BY <2>1, <2>2, <2>3
<1>5. CASE early' = [early EXCEPT !.evs = {}, !.closed = TRUE]
  <2>1. early' = [evs |-> {}, closed |-> TRUE, overflowed |-> early.overflowed]
    BY <1>0, <1>5
  <2>2. early'.evs = {}
    BY <2>1
  <2>3. early' \in [evs : SUBSET Events, closed : BOOLEAN, overflowed : BOOLEAN]
    BY <1>0, <2>1
  <2> QED BY <1>2, <1>3, <2>2, <2>3
<1>6. \/ early' = early \/ (BufferEarly(emitted + 1) /\ emitted + 1 < N)
      \/ early' = [early EXCEPT !.evs = {}, !.closed = TRUE]
  BY DEF Next, EmitDelta, EmitChunk, EmitDone, FlushWindow, Execute, Refuse, ReplyLost, Settle,
         Lose, Unheard, HandleOrdered, FlushTimeout, Subscribe, MarkSubscriber, Replay, Sync,
         SyncGone, StoredTerminal
<1> QED BY <1>1, <1>4, <1>5, <1>6

(* Where the attachment may be. *)
AttType == [at : {"off", "ready", "fence", "sync", "check", "live", "closed"},
            frontier : Nat \cup {None}, end : {"none", "done", "reconnect", "stored"}]

(* The attachment keeps its type; the frontier is a sequence, or none. *)
LEMMA AttTypesStep ==
  ASSUME TypeOK, Next, ClientInv'
  PROVE  att' \in AttType
<1>0. att \in AttType
  BY DEF TypeOK, AttType
<1>1. CASE att' = att
  BY <1>0, <1>1
<1>2. ASSUME NEW how \in {"done", "reconnect", "stored"}, Closed(how) PROVE att' \in AttType
  BY <1>0, <1>2 DEF Closed, AttType
<1>3. ASSUME NEW x \in {"ready", "fence", "check", "live"}, att' = [att EXCEPT !.at = x]
      PROVE  att' \in AttType
  BY <1>0, <1>3 DEF AttType
<1>4. CASE Replay
  <2>1. PICK f : att' = [att EXCEPT !.at = "sync", !.frontier = f]
    BY <1>4 DEF Replay
  <2>2. att'.at = "sync" /\ att'.frontier = f
    BY <1>0, <2>1 DEF AttType
  <2>3. f \in Nat \cup {None}
    BY <2>2 DEF ClientInv, ReplayFits
  <2> QED BY <1>0, <2>1, <2>3 DEF AttType
<1>5. CASE Settle
  BY <1>1, <1>2, <1>5 DEF Settle
<1>6. ASSUME NEW S, NEW b, Deliver(S, b) PROVE att' \in AttType
  BY <1>1, <1>2, <1>6 DEF Deliver
<1>7. ASSUME NEW e \in Events, Lose(e) \/ Unheard(e) \/ HandleOrdered(e) PROVE att' \in AttType
  BY <1>1, <1>6, <1>7 DEF Lose, Unheard, HandleOrdered
<1>8. CASE FlushTimeout
  BY <1>6, <1>8 DEF FlushTimeout
<1>9. CASE Sync
  BY <1>2, <1>3, <1>9 DEF Sync
<1>10. CASE StoredTerminal
  BY <1>2, <1>3, <1>10 DEF StoredTerminal
<1>11. CASE Subscribe \/ MarkSubscriber
  BY <1>3, <1>11 DEF Subscribe, MarkSubscriber
<1>12. CASE \/ EmitDelta \/ EmitChunk \/ EmitDone \/ FlushWindow \/ Execute \/ Refuse \/ ReplyLost
            \/ SyncGone
  BY <1>1, <1>12 DEF EmitDelta, EmitChunk, EmitDone, FlushWindow, Execute, Refuse, ReplyLost,
                     SyncGone
<1> QED BY <1>4, <1>5, <1>7, <1>8, <1>9, <1>10, <1>11, <1>12 DEF Next

(* The buffer holds events, and the client gets events. *)
LEMMA DeliveryTypes ==
  ASSUME TypeOK, Next, Sync => buf'.pending \subseteq buf.pending /\ seen' \subseteq Events
  PROVE  buf'.pending \subseteq Events /\ seen' \subseteq Events
<1>0. /\ IsBuffer(buf) /\ buf.pending \subseteq Events /\ seen \subseteq Events
      /\ early.evs \subseteq Events
  BY BufferHere DEF TypeOK
<1>1. ASSUME UNCHANGED <<buf, seen>> PROVE buf'.pending \subseteq Events /\ seen' \subseteq Events
  BY <1>0, <1>1
<1>2. Cold.pending = {}
  BY DEF Cold
<1>3. ASSUME NEW S, S \subseteq Events, NEW b, b.pending \subseteq Events, Deliver(S, b)
      PROVE  buf'.pending \subseteq Events /\ seen' \subseteq Events
  <2>1. buf' = Cold \/ buf' = b
    BY <1>3, Delivered
  <2> QED BY <1>0, <1>2, <1>3, <2>1 DEF Deliver
<1>4. ASSUME NEW e \in Events, HandleOrdered(e)
      PROVE  buf'.pending \subseteq Events /\ seen' \subseteq Events
  <2>1. PICK b : b = [buf EXCEPT !.pending = @ \cup {e}]
    OBVIOUS
  <2>2. IsBuffer(b) /\ b.pending \subseteq Events
    BY <1>0, <2>1, BufferHere
  <2>3. /\ Drained(b).pending \subseteq Events /\ Forced(b).pending \subseteq Events
        /\ Hold(b).pending \subseteq Events /\ Ready(b) \subseteq Events
    <3>1. /\ Drained(b).pending = b.pending \ Ready(b) /\ Forced(b).pending = {}
          /\ Hold(b).pending = b.pending
      BY <2>2, BufferSteps
    <3>2. Ready(b) \subseteq b.pending
      BY DEF Ready
    <3> QED BY <2>2, <3>1, <3>2
  <2>4. \/ UNCHANGED <<buf, seen>> \/ Deliver(Ready(b), Drained(b))
        \/ (buf' = Hold(b) /\ seen' = seen) \/ Deliver(b.pending, Forced(b))
    BY <1>4, <2>1 DEF HandleOrdered
  <2> QED BY <1>0, <1>1, <1>3, <2>2, <2>3, <2>4
<1>5. CASE FlushTimeout
  <2>1. Forced(buf).pending \subseteq Events
    BY <1>0, BufferSteps
  <2> QED BY <1>0, <1>3, <1>5, <2>1 DEF FlushTimeout
<1>6. CASE Settle \/ StoredTerminal
  <2>1. (buf' = Cold \/ buf' = buf) /\ seen' = seen
    BY <1>6 DEF Settle, StoredTerminal, Closed
  <2> QED BY <1>0, <1>2, <2>1
<1>7. CASE Subscribe
  <2>1. buf'.pending = {} /\ seen' = seen
    BY <1>7 DEF Subscribe, Cold
  <2> QED BY <1>0, <2>1
<1>8. CASE Replay
  BY <1>0, <1>8 DEF Replay
<1>9. CASE Sync
  BY <1>0, <1>9
<1>10. ASSUME NEW e \in Events, Lose(e) \/ Unheard(e)
       PROVE  buf'.pending \subseteq Events /\ seen' \subseteq Events
  BY <1>1, <1>10 DEF Lose, Unheard
<1>11. CASE \/ EmitDelta \/ EmitChunk \/ EmitDone \/ FlushWindow \/ Execute \/ Refuse \/ ReplyLost
            \/ SyncGone \/ MarkSubscriber
  BY <1>1, <1>11 DEF EmitDelta, EmitChunk, EmitDone, FlushWindow, Execute, Refuse, ReplyLost,
                     SyncGone, MarkSubscriber
<1> QED BY <1>4, <1>5, <1>6, <1>7, <1>8, <1>9, <1>10, <1>11 DEF Next

-----------------------------------------------------------------------------
(* The theorems. *)

(* Every step keeps the invariant, and delivers in the order of emission. *)
LEMMA OrderKept ==
  ASSUME OrderInv, IInv, Next
  PROVE  OrderInv' /\ OrderStep
<1>0. TypeOK /\ PipeInv /\ ClientInv /\ NoDuplicates /\ NoSilentLoss
  BY DEF OrderInv
<1>1. PipeInv' /\ ClientInv' /\ NoDuplicates' /\ NoSilentLoss' /\ OrderStep
  <2>1. CASE EmitDelta \/ EmitChunk \/ EmitDone \/ FlushWindow
    BY <1>0, <2>1, ProducerKeeps
  <2>2. CASE Execute \/ Refuse \/ ReplyLost
    BY <1>0, <2>2, CommandsKeep
  <2>3. CASE Settle
    BY <1>0, <2>3, SettleKeeps
  <2>4. ASSUME NEW e \in Events, Lose(e) \/ Unheard(e) \/ HandleOrdered(e)
        PROVE  PipeInv' /\ ClientInv' /\ NoDuplicates' /\ NoSilentLoss' /\ OrderStep
    BY <1>0, <2>4, DropKeeps, HandleKeeps
  <2>5. CASE FlushTimeout
    BY <1>0, <2>5, TimeoutKeeps
  <2>6. CASE Subscribe \/ MarkSubscriber
    BY <1>0, <2>6, SubscribeKeeps, MarkKeeps
  <2>7. CASE Replay
    BY <1>0, <2>7, ReplayKeeps
  <2>8. CASE Sync
    BY <1>0, <2>8, SyncKeeps
  <2>9. CASE SyncGone \/ StoredTerminal
    BY <1>0, <2>9, AfterwardsKeeps
  <2> QED BY <2>1, <2>2, <2>3, <2>4, <2>5, <2>6, <2>7, <2>8, <2>9 DEF Next
<1>2. PipeTypes' /\ HistTypes'
  BY <1>0, PipeTypesStep, HistTypesStep
<1>3. ClientTypes'
  <2>1. buf'.pending \subseteq Events /\ seen' \subseteq Events
    BY <1>0, DeliveryTypes, SyncKeeps
  <2>2. buf' \in [next : Nat, pending : SUBSET Events, timer : BOOLEAN, deferred : BOOLEAN]
    <3>1. BufShape' /\ buf'.next \in Nat
      BY <1>1, ParkStep DEF PInv, ClientInv, BufFits
    <3> QED BY <2>1, <3>1 DEF BufShape
  <2> QED BY <1>0, <1>1, <2>1, <2>2, EarlyTypesStep, AttTypesStep DEF ClientTypes, AttType
<1>4. (PipeTypes /\ ClientTypes /\ HistTypes)' => TypeOK'
  BY DEF TypeOK, PipeTypes, ClientTypes, HistTypes, ReplyType
<1> QED BY <1>1, <1>2, <1>3, <1>4 DEF OrderInv

(* Nothing happens to what nothing touches. *)
LEMMA OrderStutters ==
  ASSUME OrderInv, UNCHANGED vars
  PROVE  OrderInv' /\ OrderStep
<1>1. TypeOK' /\ NoDuplicates' /\ NoSilentLoss'
  BY DEF OrderInv, vars, TypeOK, NoDuplicates, NoSilentLoss
<1>2. PipeInv'
  BY DEF OrderInv, PipeInv, QueueFits, SeqFits, ReceiptFits, ReplyFits, Waits, Processed, Given,
         vars
<1>3. ClientInv'
  BY DEF OrderInv, ClientInv, EarlyFits, BufFits, ReplayFits, Replayed, LossFits, Covered, Excused,
         EndFits, Segment, Waits, Processed, Given, vars
<1>4. OrderStep
  BY DEF OrderStep, vars
<1> QED BY <1>1, <1>2, <1>3, <1>4 DEF OrderInv

(* A generation that has emitted nothing. *)
LEMMA OrderBegins ==
  ASSUME Init
  PROVE  OrderInv
<1>1. TypeOK
  BY TransportBounds, FS_EmptySet DEF Init, TypeOK, Cold, None
<1>2. \A e \in Events : ~Waits(e) /\ ~Processed(e) /\ ~Given(e) /\ e > emitted
  BY TransportBounds DEF Init, Waits, InQueue, Processed, Given, Events
<1>3. QueueFits
  BY <1>2 DEF Init, QueueFits, Ordered, Events
<1>4. SeqFits /\ ReceiptFits
  BY <1>2 DEF Init, SeqFits, ReceiptFits, Cold
<1>5. EarlyFits
  BY <1>2 DEF Init, EarlyFits, Events
<1>6. BufFits
  BY TransportBounds DEF Init, BufFits, Cold
<1>7. ReplayFits /\ LossFits /\ EndFits /\ NoDuplicates /\ NoSilentLoss
  BY <1>2 DEF Init, ReplayFits, LossFits, EndFits, NoDuplicates, NoSilentLoss
<1> QED BY <1>1, <1>3, <1>4, <1>5, <1>6, <1>7 DEF OrderInv, PipeInv, ClientInv

(* The invariant holds in every reachable state. *)
LEMMA OrderHolds == Spec => []OrderInv /\ [][OrderStep]_vars
<1>1. Init => OrderInv /\ IInv
  <2>1. ASSUME Init PROVE PInv
    BY <2>1 DEF Init, Cold, PInv, BufShape, NothingParked
  <2>2. ASSUME Init PROVE NumInv
    BY <2>2, TransportBounds DEF Init, NumInv, None
  <2> QED BY <2>1, <2>2, OrderBegins DEF IInv
<1>2. OrderInv /\ IInv /\ [Next]_vars => OrderInv' /\ IInv' /\ [OrderStep]_vars
  <2>1. ASSUME OrderInv, IInv, [Next]_vars PROVE OrderInv' /\ [OrderStep]_vars
    BY <2>1, OrderKept, OrderStutters
  <2>2. IInv /\ [Next]_vars => IInv'
    BY ParkStep, NumStep DEF IInv
  <2> QED BY <2>1, <2>2
<1> QED BY <1>1, <1>2, PTL DEF Spec

(* Every variable of the transport keeps its type; bufferEarlyEvent never    *)
(* holds more than EARLY_EVENT_BUFFER_MAX_EVENTS.                             *)
THEOREM TransportTypeCorrect == Spec => []TypeOK
<1>1. OrderInv => TypeOK
  BY DEF OrderInv
<1> QED BY <1>1, OrderHolds, PTL

(* syncReorderBuffer and the replay fence: whatever the order of arrival, the *)
(* losses and the failures, an event reaches the client twice only if its     *)
(* publication ran and its answer was lost.                                   *)
THEOREM DeliveredOnce == Spec => []NoDuplicates
<1>1. OrderInv => NoDuplicates
  BY DEF OrderInv
<1> QED BY <1>1, OrderHolds, PTL

(* A stream that ended with DONE misses only what was never published, was    *)
(* lost by the channel, was given up by forceFlushBuffer, was passed over by  *)
(* a trusted counter, or was in an early buffer that overflowed before the    *)
(* client attached to a generation that was over.                             *)
THEOREM LossIsExcused == Spec => []NoSilentLoss
<1>1. OrderInv => NoSilentLoss
  BY DEF OrderInv
<1> QED BY <1>1, OrderHolds, PTL

(* Replay, flushPendingMessages and forceFlushBuffer: what the client gets is *)
(* always later in the order of emission than all that it has.                *)
THEOREM ClientInOrder == Spec => InOrder
<1>1. OrderStep <=> (\A e \in seen' \ seen, f \in seen : f < e)
  BY DEF OrderStep
<1> QED BY <1>1, OrderHolds, PTL DEF InOrder
=============================================================================
