----------------------------- MODULE LocalProve -----------------------------
(***************************************************************************)
(* One run row and its ledger, from the request that creates it to its     *)
(* terminal status (tempest_api/localprove.py, ledger.py, ingest.py and    *)
(* the upload and cancel endpoints of routers/runs.py).                    *)
(*                                                                         *)
(* The prove thread runs one event loop with two kinds of task: MAIN, the  *)
(* coroutine _prove_and_ingest, and a PAUSE task for each battery pause.   *)
(* Uploads and cancel requests come from the server's own event loop.      *)
(*                                                                         *)
(* SQLite: a SELECT outside a transaction reads what is committed then; a  *)
(* transaction takes the write lock with its first UPDATE or INSERT and    *)
(* its own SELECTs come after that, so from the first write to the commit  *)
(* a transaction is one step here.  The two reads that come BEFORE the     *)
(* first write are steps of their own: session.get(Run), and max(seq) when *)
(* an event is all that is written.                                        *)
(***************************************************************************)
EXTENDS Naturals, Sequences

CONSTANTS Pauses,        \* pause tasks (a bound on the battery pauses)
          Uploaders,     \* requests that upload a bundle into this run
          Cancellers,    \* requests that cancel it
          EmptyBundles,  \* bundles may have no target at all
          CollectFails,  \* what follows the commit of the ingest may raise
          StoreFails     \* SQLite may raise on a write (database is locked)

ASSUME ProveAssumption ==
  /\ "main" \notin Pauses
  /\ {EmptyBundles, CollectFails, StoreFails} \subseteq BOOLEAN

VARIABLES
  row,      \* [status, verdict, stored, targets]: the committed run row
  ledger,   \* the committed run_events, by seq
  creator,  \* the creating request: new, created, over
  active,   \* the run is in _active_proves
  cut,      \* its CancelScope is cancelled
  main,     \* [at, stage, seq]: the coroutine
  queue,    \* ledger_lock: its holder, then the tasks waiting, in order
  pause,    \* pause[p]: [at, seq], the task of the p-th pause
  upload,   \* upload[u]: idle, read, accepted, refused
  cancel    \* cancel[c]: idle, found, accepted, refused

store == <<row, ledger>>
requests == <<creator, upload, cancel>>
vars == <<row, ledger, creator, active, cut, main, queue, pause, upload, cancel>>

Verdicts == {"proved", "uploaded", "ERROR"}
NoVerdict == "none"
Gone == [status |-> "gone", verdict |-> NoVerdict, stored |-> FALSE, targets |-> FALSE]

Init ==
  /\ row = [Gone EXCEPT !.status = "absent"] /\ ledger = <<>>
  /\ creator = "new" /\ active = FALSE /\ cut = FALSE
  /\ main = [at |-> "off", stage |-> "none", seq |-> 0]
  /\ queue = <<>> /\ pause = [p \in Pauses |-> [at |-> "off", seq |-> 0]]
  /\ upload = [u \in Uploaders |-> "idle"]
  /\ cancel = [c \in Cancellers |-> "idle"]

\* append_run_event with the seq read before: the unique (run_id, seq) and the
\* foreign key refuse a seq that is taken and a run that is gone.
Lands(seq) == seq = Len(ledger) + 1 /\ row.status # "gone"

Main(a, s) == main' = [at |-> a, stage |-> s, seq |-> 0]
Raises == Main("get", "error")       \* except Exception: _mark_error
Returns == Main("leave", "none")     \* finally: engine.dispose()

-----------------------------------------------------------------------------
(* The request that creates the run: startLocalProve, or the watch loop. *)

Create ==
  /\ creator = "new"
  /\ row' = [row EXCEPT !.status = "PENDING"] /\ ledger' = <<"started">>
  /\ creator' = "created"
  /\ UNCHANGED <<active, cut, main, queue, pause, upload, cancel>>

\* spawn_prove_thread: registered and started under the registry's lock.
Spawn ==
  /\ creator = "created"
  /\ creator' = "over" /\ active' = TRUE
  /\ Main("call", "proving")
  /\ UNCHANGED <<store, cut, queue, pause, upload, cancel>>

\* thread.start() raised: the registration is undone, the row stays.
SpawnRaises ==
  /\ creator = "created"
  /\ creator' = "over"
  /\ UNCHANGED <<store, active, cut, main, queue, pause, upload, cancel>>

-----------------------------------------------------------------------------
(* _event(stage, lock) of the coroutine. *)

\* async with lock: asyncio.Lock is granted first come, first served.
MainQueues ==
  /\ main.at = "call"
  /\ queue' = Append(queue, "main")
  /\ main' = [main EXCEPT !.at = "wait"]
  /\ UNCHANGED <<store, requests, active, cut, pause>>

EventReads ==
  /\ main.at = "wait" /\ Head(queue) = "main" /\ main.stage \in {"proving", "ingesting"}
  /\ main' = [main EXCEPT !.at = "insert", !.seq = Len(ledger) + 1]
  /\ UNCHANGED <<store, requests, active, cut, queue, pause>>

EventInserts ==
  /\ main.at = "insert"
  /\ \/ /\ Lands(main.seq)
        /\ ledger' = Append(ledger, main.stage)
        /\ IF main.stage = "proving" THEN Main("running", "none") ELSE Main("call", "ingest")
     \/ /\ ~Lands(main.seq) \/ StoreFails
        /\ ledger' = ledger
        /\ Raises
  /\ queue' = Tail(queue)
  /\ UNCHANGED <<row, requests, active, cut, pause>>

-----------------------------------------------------------------------------
(* run_prove, in a worker thread of the loop. *)

\* on_pause: the loop starts a task that asks for the ledger lock.
RunPauses(p) ==
  /\ main.at = "running" /\ pause[p].at = "off"
  /\ pause' = [pause EXCEPT ![p].at = "wait"]
  /\ queue' = Append(queue, p)
  /\ UNCHANGED <<store, requests, active, cut, main>>

RunReturns ==
  /\ main.at = "running"
  /\ Main("call", "ingesting")
  /\ UNCHANGED <<store, requests, active, cut, queue, pause>>

\* ProveCancelled, from a checkpoint, a spawn or the battery hold.
RunCancelled ==
  /\ main.at = "running" /\ cut
  /\ Main("get", "cancelled")
  /\ UNCHANGED <<store, requests, active, cut, queue, pause>>

RunRaises ==
  /\ main.at = "running"
  /\ Raises
  /\ UNCHANGED <<store, requests, active, cut, queue, pause>>

-----------------------------------------------------------------------------
(* The ingest of the local bundle, under the ledger lock. *)

\* session.get(Run): a vanished run ends the coroutine, a run that is no
\* longer PENDING is refused (409).
IngestGets ==
  /\ main.at = "wait" /\ Head(queue) = "main" /\ main.stage = "ingest"
  /\ \/ row.status = "PENDING" /\ Main("commit", "ingest") /\ queue' = queue
     \/ row.status = "gone" /\ Returns /\ queue' = Tail(queue)
     \/ row.status \notin {"PENDING", "gone"} /\ Raises /\ queue' = Tail(queue)
  /\ UNCHANGED <<store, requests, active, cut, pause>>

\* What ingest_zip_bytes commits for a bundle with verdict v: t says that it
\* has targets, whose positions are unique in a run.
Ingests(v, t, events) ==
  /\ t \/ EmptyBundles
  /\ row.status # "gone" /\ ~(t /\ row.targets)
  /\ row' = [status |-> "COMPLETE", verdict |-> v, stored |-> TRUE, targets |-> t \/ row.targets]
  /\ ledger' = ledger \o events

\* Mutant of IngestCommits: the complete event is left for after the commit.
IngestCommitsBare ==
  /\ main.at = "commit"
  /\ \E t \in BOOLEAN : Ingests("proved", t, <<>>)
  /\ Main("collect", "none")
  /\ UNCHANGED <<requests, active, cut, queue, pause>>

\* The status, the targets and both events are one transaction.
IngestCommits ==
  /\ main.at = "commit"
  /\ \E t \in BOOLEAN : Ingests("proved", t, <<"ingested", "complete">>)
  /\ Main("collect", "none")
  /\ UNCHANGED <<requests, active, cut, queue, pause>>

\* A bundle that does not parse or match, a conflict, a vanished row: rollback.
IngestRaises ==
  /\ main.at = "commit"
  /\ Raises
  /\ queue' = Tail(queue)
  /\ UNCHANGED <<store, requests, active, cut, pause>>

\* Mutant of CollectDone: a cancel that came too late unwinds after all.
CollectUnwinds ==
  /\ main.at = "collect"
  /\ IF cut THEN Main("get", "cancelled") ELSE Returns
  /\ queue' = Tail(queue)
  /\ UNCHANGED <<store, requests, active, cut, pause>>

\* collect_garbage and record_run_aggregate.
CollectDone ==
  /\ main.at = "collect"
  /\ Returns
  /\ queue' = Tail(queue)
  /\ UNCHANGED <<store, requests, active, cut, pause>>

CollectRaises ==
  /\ CollectFails /\ main.at = "collect"
  /\ Raises
  /\ queue' = Tail(queue)
  /\ UNCHANGED <<store, requests, active, cut, pause>>

-----------------------------------------------------------------------------
(* _mark_cancelled and _mark_error, which do not take the ledger lock. *)

MarkGets ==
  /\ main.at = "get"
  /\ IF row.status = "gone" THEN Returns ELSE main' = [main EXCEPT !.at = "mark"]
  /\ UNCHANGED <<store, requests, active, cut, queue, pause>>

MarkCommits ==
  /\ main.at = "mark" /\ row.status # "gone"
  /\ row' = IF main.stage = "cancelled"
              THEN [row EXCEPT !.status = "CANCELLED"]
              ELSE [row EXCEPT !.status = "COMPLETE", !.verdict = "ERROR"]
  /\ ledger' = Append(ledger, main.stage)
  /\ Returns
  /\ UNCHANGED <<requests, active, cut, queue, pause>>

\* The row vanished since it was read, or the write failed.
MarkRaises ==
  /\ main.at = "mark" /\ (row.status = "gone" \/ StoreFails)
  /\ Returns
  /\ UNCHANGED <<store, requests, active, cut, queue, pause>>

\* asyncio.run cancels the tasks that are left; _thread_main unregisters.
ThreadEnds ==
  /\ main.at = "leave"
  /\ Main("over", "none") /\ active' = FALSE
  /\ queue' = <<>>
  /\ pause' = [p \in Pauses |-> IF pause[p].at \in {"wait", "insert"}
                                  THEN [at |-> "lost", seq |-> 0] ELSE pause[p]]
  /\ UNCHANGED <<store, requests, cut>>

-----------------------------------------------------------------------------
(* A pause task: _event("paused", lock). *)

\* Mutant of PauseReads: the task does not wait for the lock.
PauseReadsUnlocked(p) ==
  /\ pause[p].at = "wait"
  /\ pause' = [pause EXCEPT ![p] = [at |-> "insert", seq |-> Len(ledger) + 1]]
  /\ UNCHANGED <<store, requests, active, cut, main, queue>>

PauseReads(p) ==
  /\ pause[p].at = "wait" /\ Head(queue) = p
  /\ pause' = [pause EXCEPT ![p] = [at |-> "insert", seq |-> Len(ledger) + 1]]
  /\ UNCHANGED <<store, requests, active, cut, main, queue>>

\* Nobody looks at the task's result: an event that does not land is lost.
PauseInserts(p) ==
  /\ pause[p].at = "insert"
  /\ \/ /\ Lands(pause[p].seq)
        /\ ledger' = Append(ledger, "paused")
        /\ pause' = [pause EXCEPT ![p] = [at |-> "done", seq |-> 0]]
     \/ /\ ~Lands(pause[p].seq) \/ StoreFails
        /\ ledger' = ledger
        /\ pause' = [pause EXCEPT ![p] = [at |-> "lost", seq |-> 0]]
  /\ queue' = Tail(queue)
  /\ UNCHANGED <<row, requests, active, cut, main>>

-----------------------------------------------------------------------------
(* The other requests, and the rest of the store. *)

\* uploadRunBundle reads the row: 404, 409 unless PENDING.
UploadGets(u) ==
  /\ upload[u] = "idle" /\ row.status # "absent"
  /\ upload' = [upload EXCEPT ![u] = IF row.status = "PENDING" THEN "read" ELSE "refused"]
  /\ UNCHANGED <<store, creator, cancel, active, cut, main, queue, pause>>

\* Mutant of UploadCommits: target positions are not unique.
UploadCommitsAgain(u) ==
  /\ upload[u] = "read" /\ row.status # "gone"
  /\ row' = [status |-> "COMPLETE", verdict |-> "uploaded", stored |-> TRUE, targets |-> TRUE]
  /\ ledger' = Append(ledger, "ingested")
  /\ upload' = [upload EXCEPT ![u] = "accepted"]
  /\ UNCHANGED <<creator, cancel, active, cut, main, queue, pause>>

UploadCommits(u) ==
  /\ upload[u] = "read"
  /\ \E t \in BOOLEAN : Ingests("uploaded", t, <<"ingested">>)
  /\ upload' = [upload EXCEPT ![u] = "accepted"]
  /\ UNCHANGED <<creator, cancel, active, cut, main, queue, pause>>

\* A bad bundle, or the loser of a double submit: rolled back.
UploadRaises(u) ==
  /\ upload[u] = "read"
  /\ upload' = [upload EXCEPT ![u] = "refused"]
  /\ UNCHANGED <<store, creator, cancel, active, cut, main, queue, pause>>

\* cancelRun: the run must exist and be registered (404, 409).
CancelFinds(c) ==
  /\ cancel[c] = "idle" /\ row.status # "absent"
  /\ cancel' = [cancel EXCEPT ![c] = IF active /\ row.status # "gone" THEN "found" ELSE "refused"]
  /\ UNCHANGED <<store, creator, upload, active, cut, main, queue, pause>>

\* scope.cancel(), after the registry's lock is released.
CancelCuts(c) ==
  /\ cancel[c] = "found"
  /\ cut' = TRUE
  /\ cancel' = [cancel EXCEPT ![c] = "accepted"]
  /\ UNCHANGED <<store, creator, upload, active, main, queue, pause>>

\* The ingest of another run prunes this one: its events go with the row.
Pruned ==
  /\ row.status = "COMPLETE" /\ row.stored
  /\ row' = Gone /\ ledger' = <<>>
  /\ UNCHANGED <<requests, active, cut, main, queue, pause>>

\* The process dies; nothing at the next start looks for the run.
Crash ==
  /\ active
  /\ active' = FALSE /\ cut' = FALSE
  /\ Main("died", "none") /\ queue' = <<>>
  /\ pause' = [p \in Pauses |-> IF pause[p].at \in {"wait", "insert"}
                                  THEN [at |-> "lost", seq |-> 0] ELSE pause[p]]
  /\ upload' = [u \in Uploaders |-> IF upload[u] = "read" THEN "refused" ELSE upload[u]]
  /\ cancel' = [c \in Cancellers |-> IF cancel[c] = "found" THEN "refused" ELSE cancel[c]]
  /\ UNCHANGED <<store, creator>>

Creator == Create \/ Spawn \/ SpawnRaises
MainStep ==
  \/ MainQueues \/ EventReads \/ EventInserts
  \/ IngestGets \/ IngestCommits \/ IngestRaises \/ CollectDone \/ CollectRaises
  \/ MarkGets \/ MarkCommits \/ MarkRaises \/ ThreadEnds
Run == RunReturns \/ RunRaises \/ \E p \in Pauses : RunPauses(p)
Pause(p) == PauseReads(p) \/ PauseInserts(p)
Upload(u) == UploadGets(u) \/ UploadCommits(u) \/ UploadRaises(u)
Cancel(c) == CancelFinds(c) \/ CancelCuts(c)

Next ==
  \/ Creator \/ MainStep \/ Run \/ RunCancelled \/ Pruned \/ Crash
  \/ \E p \in Pauses : Pause(p)
  \/ \E u \in Uploaders : Upload(u)
  \/ \E c \in Cancellers : Cancel(c)

Spec == Init /\ [][Next]_vars

-----------------------------------------------------------------------------
(* Properties. *)

Last == ledger[Len(ledger)]

Rows == [status : {"absent", "PENDING", "COMPLETE", "CANCELLED", "gone"},
         verdict : Verdicts \cup {NoVerdict}, stored : BOOLEAN, targets : BOOLEAN]

TypeOK ==
  /\ row \in Rows
  /\ main \in [at : {"off", "call", "wait", "insert", "running", "commit", "collect", "get",
                     "mark", "leave", "over", "died"},
               stage : {"none", "proving", "ingesting", "ingest", "cancelled", "error"},
               seq : Nat]
  /\ ledger \in Seq({"started", "proving", "paused", "ingesting", "ingested", "complete",
                     "cancelled", "error"})
  /\ creator \in {"new", "created", "over"}
  /\ active \in BOOLEAN /\ cut \in BOOLEAN
  /\ queue \in Seq(Pauses \cup {"main"})
  /\ pause \in [Pauses -> [at : {"off", "wait", "insert", "done", "lost"}, seq : Nat]]
  /\ upload \in [Uploaders -> {"idle", "read", "accepted", "refused"}]
  /\ cancel \in [Cancellers -> {"idle", "found", "accepted", "refused"}]

\* The run row keeps its lifecycle, with uploads, cancels, pauses, prunes, failing
\* writes, a failure after the commit of the ingest and a crash in any order: the
\* prove's verdict is never claimed for a run that was cancelled, and a run that
\* claims it, or its error, is never marked CANCELLED (localprove.py,
\* _prove_and_ingest and its marks; RunLifecycle says what is NOT kept).
Lifecycle == INSTANCE RunLifecycle WITH status <- row.status, verdict <- row.verdict
KeepsLifecycle == Lifecycle!Spec

\* "A poller that reads COMPLETE must never read a timeline that still ends
\* mid-ingestion": for the runs that claim the verdict of a local prove, though
\* pauses of that prove may still be on their way to the ledger.
ProvedEndsTimeline ==
  row.status = "COMPLETE" /\ row.verdict = "proved" => Last = "complete"

\* At most one bundle is ever ingested into a run, however uploads and the
\* run's own prove overlap.
OneIngest ==
  \A i, j \in 1 .. Len(ledger) : ledger[i] = "ingested" /\ ledger[j] = "ingested" => i = j

\* ledger.py: "the read-then-insert cannot race itself": the seq an event is
\* about to be inserted with is still free, as long as the run is PENDING.  (Once
\* _mark_cancelled or _mark_error, which take no lock, has committed, it is not.)
SeqStaysFree ==
  row.status = "PENDING" =>
    /\ main.at = "insert" => Lands(main.seq)
    /\ \A p \in Pauses : pause[p].at = "insert" => Lands(pause[p].seq)

\* cancelRun: "the prove thread unwinds into the CANCELLED state - no verdict
\* claimed": a prove that was cancelled while its run was still PENDING does not
\* go on to claim its verdict.  It does NOT hold: nothing looks at the scope after
\* the last checkpoint (README, section 4).
CancelIsKept ==
  [][cut /\ row.status = "PENDING" => row'.verdict # "proved"]_vars

(* The invariant under which the row keeps its lifecycle: as long as the coroutine *)
(* may still claim the verdict or mark the run CANCELLED, nobody has claimed the   *)
(* verdict, failed or cancelled; and where it may mark an error it has not        *)
(* cancelled.                                                                      *)
Claimless == row.verdict \in {NoVerdict, "uploaded"} /\ row.status # "CANCELLED"
LInv ==
  /\ main.at \in {"off", "call", "wait", "insert", "running", "commit"} => Claimless
  /\ main.at \in {"get", "mark"} /\ main.stage = "cancelled" => Claimless
  /\ main.at \in {"get", "mark", "collect"} => row.status # "CANCELLED"
=============================================================================
