----------------------------- MODULE ChatStream -----------------------------
(***************************************************************************)
(* How a chat turn's frames reach the screen of the desktop app.  The host *)
(* (agent_chat.rs, commands.rs) polls the engine's ledger on one thread    *)
(* per replay and pushes batches to the webview; the webview's transport   *)
(* (TempestSSE.ts) subscribes first, then asks for a replay of what the    *)
(* turn has emitted so far, and holds pushes until that page is on screen. *)
(*                                                                         *)
(* Sessions are numbered: session s is the s-th TempestSSE on this stream  *)
(* id.  It makes one replay call, and replay calls run one after another   *)
(* on the host's main thread, so that the generation which a call draws    *)
(* is compared, for equality only, as the session number.                  *)
(***************************************************************************)
EXTENDS ChatTurns, SequencesExt

CONSTANTS MaxSessions,  \* sessions opened on this stream id
          MaxRetries,   \* failed polls in a row before the grace window is over
          MaxFaults     \* calls of a live engine that time out, and listens that fail

ASSUME StreamBounds == MaxSessions \in Nat /\ MaxRetries \in Nat /\ MaxFaults \in Nat

VARIABLES claim,   \* pollers()[stream_id]: the poller that owns the stream, or 0
          rd,      \* the readers: the main thread's command (0) and the pollers
          calls,   \* sessions whose replay call waits for the main thread
          replies, \* the answer under way to the open session, if any
          inbox,   \* pushes under way to the webview's listener
          sse,     \* the newest session's TempestSSE
          faults   \* how many timeouts and failed listens there were

host == <<claim, rd, calls, replies, inbox, sse, faults>>
vars == <<engine, host>>

Sessions == 1 .. MaxSessions
Readers == 0 .. MaxSessions

Event == [turn : 1 .. MaxTurns, from : 1 .. MaxSeq, seq : 1 .. MaxSeq, final : BOOLEAN]
Statuses == {"active", "unknown"} \cup Settled

\* What is pushed, or answered, to the webview; a reader; a TempestSSE, with the history of
\* which turn was the newest when each session was opened.
Push == [gen : Sessions, st : Statuses, evs : SUBSET Event]
Reply == [gen : Sessions, st : Statuses \cup {"failed"}, evs : SUBSET Event]
Reader == [pc : {"off", "check", "asked", "row", "got", "failed", "emit"},
           after : 0 .. MaxSeq, st : Statuses, evs : SUBSET Event, fails : 0 .. MaxRetries]
Session == [id : 0 .. MaxSessions, phase : {"connecting", "waiting", "live", "closed"},
            held : Seq(Push), screen : Seq(Event), heard : SUBSET Sessions,
            end : {"none", "final", "error", "abort"}, opened : [Sessions -> 0 .. MaxTurns]]

Idle == [pc |-> "off", after |-> 0, st |-> "unknown", evs |-> {}, fails |-> 0]
NoSession == [id |-> 0, phase |-> "closed", held |-> <<>>, screen |-> <<>>,
              heard |-> {}, end |-> "none", opened |-> [s \in Sessions |-> 0]]

EndOf(evs, default) == IF evs = {} THEN default
                       ELSE CHOOSE i \in {e.seq : e \in evs} : \A e \in evs : e.seq <= i

Open == sse.phase # "closed"
Listening == sse.phase \in {"waiting", "live"}

(***************************************************************************)
(* The engine answers listChatTurnEvents (ChatTurns.events_after).         *)
(***************************************************************************)
\* Mutant of ServeJob: the status is read after the frames, without the lock.
ServeJobTorn(r) ==
    /\ rd[r].pc = "asked" /\ alive /\ HasJob
    /\ \E evs \in {JobEvents(rd[r].after), {e \in JobEvents(rd[r].after) : ~e.final}} :
        rd' = [rd EXCEPT ![r].pc = "got", ![r].st = job.status, ![r].evs = evs]
    /\ UNCHANGED <<engine, claim, calls, replies, inbox, sse, faults>>

\* The job is in the registry: its frames and its status under the job's lock.
ServeJob(r) ==
    /\ rd[r].pc = "asked" /\ alive /\ HasJob
    /\ rd' = [rd EXCEPT ![r].pc = "got", ![r].st = job.status,
                        ![r].evs = JobEvents(rd[r].after)]
    /\ UNCHANGED <<engine, claim, calls, replies, inbox, sse, faults>>

\* It is not: reconcile a dead turn, read the turns row ...
ServeRow(r) ==
    /\ rd[r].pc = "asked" /\ alive /\ ~HasJob
    /\ Reconcile
    /\ rd' = [rd EXCEPT ![r].pc = "row", ![r].st = row'.status]
    /\ UNCHANGED <<alive, crashes, turn, job, worker, batch, outcome, unsaved>>
    /\ UNCHANGED <<claim, calls, replies, inbox, sse, faults>>

\* ... and then, in a read of its own, the events.
ServeDocs(r) ==
    /\ rd[r].pc = "row" /\ alive
    /\ rd' = [rd EXCEPT ![r].pc = "got", ![r].evs = StoreEvents(rd[r].after)]
    /\ UNCHANGED <<engine, claim, calls, replies, inbox, sse, faults>>

Failing(p) == [p EXCEPT !.pc = "failed", !.st = "unknown"]
Again(p) == [p EXCEPT !.pc = "check", !.st = "unknown", !.evs = {}]

\* The engine is down, or did not answer in time.
CallFails(r) ==
    /\ rd[r].pc \in {"asked", "row"}
    /\ alive => faults < MaxFaults
    /\ rd' = [rd EXCEPT ![r] = Failing(@)]
    /\ faults' = IF alive THEN faults + 1 ELSE faults
    /\ UNCHANGED <<engine, claim, calls, replies, inbox, sse>>

(***************************************************************************)
(* spawn_poller's thread                                                   *)
(***************************************************************************)
PollCheck(g) ==
    /\ rd[g].pc = "check"
    /\ rd' = [rd EXCEPT ![g] = IF claim = g THEN [@ EXCEPT !.pc = "asked"] ELSE Idle]
    /\ UNCHANGED <<engine, claim, calls, replies, inbox, sse, faults>>

\* A page: the cursor moves to its last seq.  The claim is checked again before the emit,
\* under the poller lock, which the emit itself does not hold.
PollGot(g) ==
    /\ rd[g].pc = "got"
    /\ LET p == [rd[g] EXCEPT !.after = EndOf(rd[g].evs, @), !.fails = 0]
           silent == p.evs = {} /\ p.st = "active"
       IN rd' = [rd EXCEPT ![g] = CASE silent -> Again(p)
                                    [] ~silent /\ claim = g -> [p EXCEPT !.pc = "emit"]
                                    [] OTHER -> Idle]
    /\ UNCHANGED <<engine, claim, calls, replies, inbox, sse, faults>>

\* A failed call: back off and try again, or, when the grace window is over, a distress
\* push, again only for the owner of the claim.
PollFailed(g) ==
    /\ rd[g].pc = "failed"
    /\ \/ /\ rd[g].fails < MaxRetries
          /\ rd' = [rd EXCEPT ![g] = Again([rd[g] EXCEPT !.fails = rd[g].fails + 1])]
       \/ rd' = [rd EXCEPT ![g] = IF claim = g
                                  THEN [@ EXCEPT !.pc = "emit", !.st = "error", !.evs = {}]
                                  ELSE Idle]
    /\ UNCHANGED <<engine, claim, calls, replies, inbox, sse, faults>>

\* A push reaches whoever listens now.  A terminal and drained one is the thread's last.
PollEmit(g) ==
    /\ rd[g].pc = "emit"
    /\ inbox' = IF Listening
                THEN Append(inbox, [gen |-> g, st |-> rd[g].st, evs |-> rd[g].evs])
                ELSE inbox
    /\ IF rd[g].st # "active" /\ rd[g].evs = {}
       THEN /\ rd' = [rd EXCEPT ![g] = Idle]
            /\ claim' = IF claim = g THEN 0 ELSE claim
       ELSE /\ rd' = [rd EXCEPT ![g] = Again(@)]
            /\ UNCHANGED claim
    /\ UNCHANGED <<engine, calls, replies, sse, faults>>

(***************************************************************************)
(* The replay_chat_turn command, on the main thread                        *)
(***************************************************************************)
CmdStart ==
    /\ calls # <<>> /\ rd[0].pc = "off"
    /\ rd' = [rd EXCEPT ![0].pc = "asked"]
    /\ UNCHANGED <<engine, claim, calls, replies, inbox, sse, faults>>

\* Mutant of ResumeCursor: the live feed starts at the beginning.
ResumeFromZero(evs) == 0

\* resume_cursor: where the live feed has to start to be disjoint from the page.
ResumeCursor(evs) == EndOf(evs, 0)

\* The promise resolves into the closure of the session that made the call: page.gen is
\* that session.  One that is closed by then is still settled, and nobody looks at it.
Answer(page) == replies' = IF Open /\ page.gen = sse.id THEN <<page>> ELSE replies

\* The page is served, the new poller is positioned behind it and owns the stream.
CmdGot ==
    /\ rd[0].pc = "got"
    /\ LET s == Head(calls)
       IN /\ claim' = s
          /\ rd' = [rd EXCEPT ![0] = Idle,
                              ![s] = [Idle EXCEPT !.pc = "check",
                                                  !.after = ResumeCursor(rd[0].evs)]]
          /\ Answer([gen |-> s, st |-> rd[0].st, evs |-> rd[0].evs])
    /\ calls' = Tail(calls)
    /\ UNCHANGED <<engine, inbox, sse, faults>>

\* The command returns the failure; the promise rejects.
CmdFailed ==
    /\ rd[0].pc = "failed"
    /\ rd' = [rd EXCEPT ![0] = Idle]
    /\ Answer([gen |-> Head(calls), st |-> "failed", evs |-> {}])
    /\ calls' = Tail(calls)
    /\ UNCHANGED <<engine, claim, inbox, sse, faults>>

(***************************************************************************)
(* TempestSSE                                                              *)
(***************************************************************************)
HighWater(c) == EndOf(ToSet(c.screen), 0)

\* detach, with the reason
Closed(c, why) == [c EXCEPT !.phase = "closed", !.held = <<>>, !.end = why]

\* The events of a batch, sorted.
InSeqOrder(evs) ==
    CHOOSE q \in [1 .. Cardinality(evs) -> evs] :
        \A i, j \in 1 .. Cardinality(evs) : i < j => q[i].seq < q[j].seq

\* Mutant of Deliver: the final frame is handled before the rest of its batch.
DeliverFinalFirst(c, push) ==
    LET fresh == {e \in push.evs : \A i \in 1 .. Len(c.screen) : c.screen[i].seq # e.seq}
        final == {e \in fresh : e.final}
        c2 == [c EXCEPT !.screen = @ \o InSeqOrder(IF final = {} THEN fresh ELSE final), !.heard = @ \cup {push.gen}]
    IN CASE c.phase = "closed" -> c
         [] c.phase # "closed" /\ final # {} -> Closed(c2, "final")
         [] OTHER -> IF push.st # "active" /\ push.evs = {} THEN Closed(c2, "error") ELSE c2

\* Mutant of Deliver: the host's verdict on the feed is ignored.
DeliverNoVerdict(c, push) ==
    LET fresh == {e \in push.evs : \A i \in 1 .. Len(c.screen) : c.screen[i].seq # e.seq}
        shown == {e \in fresh : \A f \in fresh : f.final => e.seq <= f.seq}
        c2 == [c EXCEPT !.screen = @ \o InSeqOrder(shown), !.heard = @ \cup {push.gen}]
    IN CASE c.phase = "closed" -> c
         [] c.phase # "closed" /\ (\E e \in shown : e.final) -> Closed(c2, "final")
         [] OTHER -> c2

\* deliver: new seqs in seq order up to a final; then the host's verdict on the feed.
Deliver(c, push) ==
    LET fresh == {e \in push.evs : \A i \in 1 .. Len(c.screen) : c.screen[i].seq # e.seq}
        shown == {e \in fresh : \A f \in fresh : f.final => e.seq <= f.seq}
        c2 == [c EXCEPT !.screen = @ \o InSeqOrder(shown), !.heard = @ \cup {push.gen}]
    IN CASE c.phase = "closed" -> c
         [] c.phase # "closed" /\ (\E e \in shown : e.final) -> Closed(c2, "final")
         [] OTHER -> IF push.st # "active" /\ push.evs = {} THEN Closed(c2, "error") ELSE c2

\* release: the held pushes in arrival order, without what the page already covers.
Release(c) ==
    LET covered == HighWater(c)
        Above(push) == [push EXCEPT !.evs = {e \in @ : e.seq > covered}]
        after[i \in 0 .. Len(c.held)] ==
            IF i = 0
            THEN [c EXCEPT !.held = <<>>, !.phase = IF @ = "closed" THEN @ ELSE "live"]
            ELSE Deliver(after[i - 1], Above(c.held[i]))
    IN after[Len(c.held)]

\* The session's next state.  What is under way to a closed one will not be looked at.
Becomes(c, pushes) ==
    /\ sse' = c
    /\ inbox' = IF c.phase = "closed" THEN <<>> ELSE pushes

\* new SSE(...).stream() once the turn's ack is in, or again on the same turn.
Connect ==
    /\ ~Open /\ sse.id < MaxSessions
    /\ row # NoRow /\ worker # "open"
    /\ sse' = [NoSession EXCEPT !.id = sse.id + 1, !.phase = "connecting",
                                !.opened = [sse.opened EXCEPT ![sse.id + 1] = turn]]
    /\ UNCHANGED <<engine, claim, rd, calls, replies, inbox, faults>>

\* listen() resolved: subscribed, and the replay call is made in the same task.
Listen ==
    /\ sse.phase = "connecting"
    /\ sse' = [sse EXCEPT !.phase = "waiting"]
    /\ calls' = Append(calls, sse.id)
    /\ UNCHANGED <<engine, claim, rd, replies, inbox, faults>>

\* Loading the host glue or listen() rejected: release (nothing is held) and fail.
ListenFails ==
    /\ sse.phase = "connecting" /\ faults < MaxFaults
    /\ sse' = Closed(sse, "error")
    /\ faults' = faults + 1
    /\ UNCHANGED <<engine, claim, rd, calls, replies, inbox>>

\* receive
Receive ==
    /\ Listening /\ inbox # <<>>
    /\ LET push == Head(inbox)
       IN Becomes(IF sse.phase = "live" THEN Deliver(sse, push)
                  ELSE [sse EXCEPT !.held = Append(@, push)], Tail(inbox))
    /\ UNCHANGED <<engine, claim, rd, calls, replies, faults>>

\* The replay call's answer reaches attach(): the page, then what was held; or a rejection,
\* and what was held has its chance to end the stream honestly before the error does.
Attached ==
    /\ replies # <<>>
    /\ LET page == Head(replies)
           failed == Release(sse)
       IN Becomes(IF page.st # "failed" THEN Release(Deliver(sse, page))
                  ELSE IF failed.phase = "closed" THEN failed
                  ELSE Closed(failed, "error"), inbox)
    /\ replies' = <<>>
    /\ UNCHANGED <<engine, claim, rd, calls, faults>>

\* close(): the person leaves the conversation.
Close ==
    /\ Open
    /\ Becomes(Closed(sse, "abort"), <<>>)
    /\ replies' = <<>>
    /\ UNCHANGED <<engine, claim, rd, calls, faults>>

(***************************************************************************)
(* The whole                                                               *)
(***************************************************************************)
Init ==
    /\ EngineInit
    /\ claim = 0
    /\ rd = [r \in Readers |-> Idle]
    /\ calls = <<>>
    /\ replies = <<>>
    /\ inbox = <<>>
    /\ sse = NoSession
    /\ faults = 0

\* The composer is locked while a stream is open, so a new turn starts with none.
NewTurn == ~Open /\ Reserve /\ UNCHANGED host

TurnThread == Thread /\ UNCHANGED host
EngineRest == (CancelTurn \/ EvictSettled \/ Restart) /\ UNCHANGED host

\* The death of the process fails every call it had not answered.
EngineDies ==
    /\ Crash
    /\ rd' = [r \in Readers |-> IF rd[r].pc \in {"asked", "row"}
                                THEN Failing(rd[r]) ELSE rd[r]]
    /\ UNCHANGED <<claim, calls, replies, inbox, sse, faults>>

Serve(r) == ServeJob(r) \/ ServeRow(r) \/ ServeDocs(r) \/ CallFails(r)
Poller(g) == PollCheck(g) \/ PollGot(g) \/ PollFailed(g) \/ PollEmit(g) \/ Serve(g)
Command == CmdStart \/ CmdGot \/ CmdFailed \/ Serve(0)
Webview == Listen \/ ListenFails \/ Receive \/ Attached

Next == NewTurn \/ TurnThread \/ EngineRest \/ EngineDies \/ Connect \/ Close \/ Command \/ Webview
            \/ \E g \in Sessions : Poller(g)

\* The turn's thread, the pollers and the main thread run, and the webview handles what
\* was sent to it.  Nothing makes the engine come back, and nobody has to close a stream.
Fairness ==
    /\ WF_vars(TurnThread) /\ WF_vars(Command)
    /\ WF_vars(Listen \/ ListenFails) /\ WF_vars(Receive) /\ WF_vars(Attached)
    /\ \A g \in Sessions : WF_vars(Poller(g))

Spec == Init /\ [][Next]_vars /\ Fairness

(***************************************************************************)
(* Properties                                                              *)
(***************************************************************************)
\* Types of the engine's, the host's and the webview's state; an answer that waits to be
\* looked at is the open session's.
TypeOK ==
    /\ EngineTypeOK
    /\ claim \in Readers /\ rd \in [Readers -> Reader] /\ calls \in Seq(Sessions)
    /\ replies \in Seq(Reply) /\ \A i \in 1 .. Len(replies) : replies[i].gen = sse.id
    /\ inbox \in Seq(Push) /\ sse \in Session /\ faults \in 0 .. MaxFaults

\* What the store holds is a prefix of one turn's frames without a hole, whatever flush or
\* commit failed and whenever the process died; the row is settled exactly when the final
\* frame is there, and it is the last (_flush_if_due, _finish, _reconcile_dead).
LedgerWhole ==
    /\ {d.seq : d \in ledger} = 1 .. LastSeq
    /\ Cardinality(ledger) = LastSeq
    /\ \A d \in ledger : d.turn = row.turn
    /\ \A d \in ledger : d.kind = "final" => d.seq = LastSeq
    /\ row.status \in Settled <=> \E d \in ledger : d.kind = "final"

\* A turn that a reader of the registry sees complete or aborted is so in the store, frame
\* for frame: a reader cannot see an end that a restart would take back (_finish).
PublishedIsDurable ==
    HasJob /\ job.status \in {"complete", "aborted"} =>
        /\ row = [turn |-> job.turn, status |-> job.status]
        /\ ledger = Docs(1 .. Len(job.frames))

Ranges(screen) == [i \in 1 .. Len(screen) |-> screen[i].from .. screen[i].seq]
Covered(screen) == UNION ToSet(Ranges(screen))

\* A session that heard no poller but its own shows every frame of one turn once, in order
\* and without a hole, however the page, the pushes, the held pushes and their merged
\* deltas fell together (resume_cursor, receive, release, deliver).
ExactWhenAlone ==
    sse.heard \subseteq {sse.id} =>
        \A i \in 1 .. Len(sse.screen) :
            /\ sse.screen[i].turn = sse.screen[1].turn
            /\ sse.screen[i].from = IF i = 1 THEN 1 ELSE sse.screen[i - 1].seq + 1

\* The sessions opened since the newest turn began.
Peers == {g \in 1 .. sse.id : sse.opened[g] = turn}

\* Whichever pollers of this turn's sessions it heard: a session that got its page and ended
\* on the final frame shows the whole turn (receive holds a push and release delivers it
\* behind the page).  A poller left over from an earlier turn keeps that turn's cursor.
NothingLost ==
    sse.end = "final" /\ sse.id \in sse.heard /\ sse.heard \subseteq Peers =>
        Covered(sse.screen) = 1 .. HighWater(sse)

\* A stream reports an error only if something failed: a call, the engine, the terminal
\* commit, or another session's poller that was still emitting.
NoFalseAlarm ==
    sse.end = "error" => crashes + faults > 0 \/ unsaved \/ ~(sse.heard \subseteq {sse.id})

\* No frozen spinner: every stream ends, by a final frame or by an error, also when the
\* engine died under the turn and never came back (deliver's verdict, the grace window).
StreamsEnd == Open ~> ~Open

\* Exactly once, whatever sessions came before: "a held push can only contain frames the
\* page does not, and releasing the queue afterwards can neither duplicate nor lose".
\* It does NOT hold once another session's poller was heard (README, section 4).
RenderedOnce ==
    \A i, j \in 1 .. Len(sse.screen) :
        i # j => Ranges(sse.screen)[i] \cap Ranges(sse.screen)[j] = {}
=============================================================================
