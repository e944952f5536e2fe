-------------------------- MODULE LocalProveProofs --------------------------
(***************************************************************************)
(* What LocalProve keeps for any number of pauses, uploads and cancel      *)
(* requests, whatever fails.  TInv: types, the ledger lock and the ledger's *)
(* timeline.  IngestFits: one ingest, when every bundle has targets.  LInv: *)
(* the run row implements RunLifecycle.                                    *)
(***************************************************************************)
EXTENDS LocalProve, TLAPS

-----------------------------------------------------------------------------
(***************************************************************************)
(* The ledger.  It rests on the lock being first come, first served:       *)
(* pauses are asked for while run_prove runs, so that they are all ahead   *)
(* of the coroutine when it asks for the lock to ingest, and nobody is     *)
(* left behind it.                                                         *)
(***************************************************************************)

(* Where the coroutine has asked for the ledger lock, and where it has it. *)
InQueue == {"wait", "insert", "commit", "collect"}
Holds == {"insert", "commit", "collect"}
Asking == {"wait", "insert"}

(* The coroutine is last in the queue and there once; a task that asked is in *)
(* the queue, and one that is about to insert is at its head.                 *)
QueueFits ==
  /\ main.at \in InQueue => Len(queue) > 0 /\ queue[Len(queue)] = "main"
  /\ \A i \in 1 .. Len(queue) : queue[i] = "main" => i = Len(queue) /\ main.at \in InQueue
  /\ main.at \in Holds => queue[1] = "main"
  /\ \A p \in Pauses : pause[p].at \in Asking => \E i \in 1 .. Len(queue) : queue[i] = p
  /\ \A p \in Pauses : pause[p].at = "insert" => queue[1] = p

(* Nothing but the request runs before the thread is spawned. *)
CreatorFits ==
  /\ creator = "new" => row = [Gone EXCEPT !.status = "absent"]
  /\ creator = "new" => \A u \in Uploaders : upload[u] = "idle"
  /\ creator # "new" => row.status # "absent"
  /\ creator # "over" => main.at = "off"
  /\ active => main.at # "off"
  /\ main.at = "off" => \A p \in Pauses : pause[p].at = "off"

(* What the coroutine is about to write. *)
StageFits ==
  /\ main.at = "insert" => main.stage \in {"proving", "ingesting"}
  /\ main.at \in {"get", "mark"} => main.stage \in {"cancelled", "error"}

(* The seq that was read is the next one, as long as the run is PENDING. *)
SeqFits ==
  row.status = "PENDING" =>
    /\ main.at = "insert" => main.seq = Len(ledger) + 1
    /\ \A p \in Pauses : pause[p].at = "insert" => pause[p].seq = Len(ledger) + 1

(* Once the verdict is there, the coroutine writes no more events and no pause *)
(* is on its way.                                                              *)
ProvedFits ==
  row.verdict = "proved" =>
    /\ main.at \in {"collect", "get", "mark", "leave", "over", "died"}
    /\ \A p \in Pauses : pause[p].at \notin Asking

TInv == /\ TypeOK /\ QueueFits /\ CreatorFits /\ StageFits /\ SeqFits
        /\ ProvedFits /\ ProvedEndsTimeline


Mains == [at : {"off", "call", "wait", "insert", "running", "commit", "collect", "get",
                "mark", "leave", "over", "died"},
          stage : {"none", "proving", "ingesting", "ingest", "cancelled", "error"},
          seq : Nat]
Events == {"started", "proving", "paused", "ingesting", "ingested", "complete",
           "cancelled", "error"}

(* TypeOK without the request's variables. *)
CoreTypes ==
  /\ row \in Rows /\ main \in Mains /\ ledger \in Seq(Events)
  /\ queue \in Seq(Pauses \cup {"main"})
  /\ pause \in [Pauses -> [at : {"off", "wait", "insert", "done", "lost"}, seq : Nat]]

(* The types that the proofs below need. *)
LEMMA CoreTyped == TInv => CoreTypes
BY DEF TInv, TypeOK, CoreTypes, Mains, Events

(* What a queue is after its holder leaves it. *)
LEMMA TailFacts ==
  ASSUME NEW S, NEW q \in Seq(S), Len(q) > 0
  PROVE  /\ Tail(q) \in Seq(S) /\ Len(Tail(q)) = Len(q) - 1
         /\ \A i \in 1 .. Len(Tail(q)) : Tail(q)[i] = q[i + 1]
         /\ Head(q) = q[1]
OBVIOUS

(* What a queue or a ledger is after something is added at its end. *)
LEMMA AppendFacts ==
  ASSUME NEW S, NEW q \in Seq(S), NEW x \in S
  PROVE  /\ Append(q, x) \in Seq(S) /\ Len(Append(q, x)) = Len(q) + 1
         /\ \A i \in 1 .. Len(q) : Append(q, x)[i] = q[i]
         /\ Append(q, x)[Len(q) + 1] = x
OBVIOUS

(* The holder of the lock is one task: the coroutine alone, when it holds it. *)
LEMMA Alone ==
  ASSUME TInv, main.at \in InQueue, Head(queue) = "main"
  PROVE  Len(queue) = 1 /\ \A p \in Pauses : pause[p].at \notin Asking
<1>1. CoreTypes /\ Len(queue) > 0
  BY CoreTyped DEF TInv, QueueFits
<1>2. queue[1] = "main"
  BY <1>1 DEF CoreTypes
<1>3. Len(queue) = 1
  <2>1. 1 \in 1 .. Len(queue)
    BY <1>1 DEF CoreTypes
  <2>2. QED
    BY <1>2, <2>1 DEF TInv, QueueFits
<1>4. QED
  BY <1>2, <1>3, ProveAssumption DEF TInv, QueueFits

(* The coroutine keeps its type. *)
LEMMA MainTyped ==
  ASSUME TInv, [Next]_vars
  PROVE  main' \in Mains
<1> USE CoreTyped DEF TInv, CoreTypes, Mains
<1>1. CASE Create
  BY <1>1 DEF Create
<1>2. CASE Spawn
  BY <1>2 DEF Spawn, Main
<1>3. CASE SpawnRaises
  BY <1>3 DEF SpawnRaises
<1>4. CASE MainQueues
  BY <1>4 DEF MainQueues
<1>5. CASE EventReads
  <2>1. Len(ledger) + 1 \in Nat
    OBVIOUS
  <2>2. QED
    BY <1>5, <2>1 DEF EventReads
<1>6. CASE EventInserts
  BY <1>6 DEF EventInserts, Main, Raises
<1>7. CASE IngestGets
  BY <1>7 DEF IngestGets, Main, Raises, Returns
<1>8. CASE IngestCommits
  BY <1>8 DEF IngestCommits, Main
<1>9. CASE IngestRaises
  BY <1>9 DEF IngestRaises, Main, Raises
<1>10. CASE CollectDone
  BY <1>10 DEF CollectDone, Main, Returns
<1>11. CASE CollectRaises
  BY <1>11 DEF CollectRaises, Main, Raises
<1>12. CASE MarkGets
  BY <1>12 DEF MarkGets, Main, Returns
<1>13. CASE MarkCommits
  BY <1>13 DEF MarkCommits, Main, Returns
<1>14. CASE MarkRaises
  BY <1>14 DEF MarkRaises, Main, Returns
<1>15. CASE ThreadEnds
  BY <1>15 DEF ThreadEnds, Main
<1>16. CASE RunReturns
  BY <1>16 DEF RunReturns, Main
<1>17. CASE RunRaises
  BY <1>17 DEF RunRaises, Main, Raises
<1>18. CASE RunCancelled
  BY <1>18 DEF RunCancelled, Main
<1>19. CASE Pruned
  BY <1>19 DEF Pruned
<1>20. CASE Crash
  BY <1>20 DEF Crash, Main
<1>21. ASSUME NEW p \in Pauses, RunPauses(p) PROVE main' \in Mains
  BY <1>21 DEF RunPauses
<1>22. ASSUME NEW p \in Pauses, PauseReads(p) PROVE main' \in Mains
  BY <1>22 DEF PauseReads
<1>23. ASSUME NEW p \in Pauses, PauseInserts(p) PROVE main' \in Mains
  BY <1>23 DEF PauseInserts
<1>24. ASSUME NEW u \in Uploaders, UploadGets(u) PROVE main' \in Mains
  BY <1>24 DEF UploadGets
<1>25. ASSUME NEW u \in Uploaders, UploadCommits(u) PROVE main' \in Mains
  BY <1>25 DEF UploadCommits
<1>26. ASSUME NEW u \in Uploaders, UploadRaises(u) PROVE main' \in Mains
  BY <1>26 DEF UploadRaises
<1>27. ASSUME NEW c \in Cancellers, CancelFinds(c) PROVE main' \in Mains
  BY <1>27 DEF CancelFinds
<1>28. ASSUME NEW c \in Cancellers, CancelCuts(c) PROVE main' \in Mains
  BY <1>28 DEF CancelCuts
<1>29. CASE UNCHANGED vars
  BY <1>29 DEF vars
<1>30. QED
  BY <1>1, <1>2, <1>3, <1>4, <1>5, <1>6, <1>7, <1>8, <1>9, <1>10, <1>11, <1>12, <1>13, <1>14, <1>15, <1>16, <1>17, <1>18, <1>19, <1>20, <1>21, <1>22, <1>23, <1>24, <1>25, <1>26, <1>27, <1>28, <1>29
     DEF Next, Creator, MainStep, Run, Pause, Upload, Cancel

(* The row keeps its type. *)
LEMMA RowTyped ==
  ASSUME TInv, [Next]_vars
  PROVE  row' \in Rows
<1> USE CoreTyped DEF TInv, CoreTypes
<1>1. CASE Create
  BY <1>1 DEF Create, Rows
<1>2. CASE Spawn
  BY <1>2 DEF Spawn, Main, store
<1>3. CASE SpawnRaises
  BY <1>3 DEF SpawnRaises, store
<1>4. CASE MainQueues
  BY <1>4 DEF MainQueues, store
<1>5. CASE EventReads
  BY <1>5 DEF EventReads, store
<1>6. CASE EventInserts
  BY <1>6 DEF EventInserts, Main, Raises, store
<1>7. CASE IngestGets
  BY <1>7 DEF IngestGets, Main, Raises, Returns, store
<1>8. CASE IngestCommits
  BY <1>8 DEF IngestCommits, Ingests, Rows, Verdicts
<1>9. CASE IngestRaises
  BY <1>9 DEF IngestRaises, Main, Raises, store
<1>10. CASE CollectDone
  BY <1>10 DEF CollectDone, Main, Returns, store
<1>11. CASE CollectRaises
  BY <1>11 DEF CollectRaises, Main, Raises, store
<1>12. CASE MarkGets
  BY <1>12 DEF MarkGets, Main, Returns, store
<1>13. CASE MarkCommits
  BY <1>13 DEF MarkCommits, Rows, Verdicts
<1>14. CASE MarkRaises
  BY <1>14 DEF MarkRaises, Main, Returns, store
<1>15. CASE ThreadEnds
  BY <1>15 DEF ThreadEnds, Main, store
<1>16. CASE RunReturns
  BY <1>16 DEF RunReturns, Main, store
<1>17. CASE RunRaises
  BY <1>17 DEF RunRaises, Main, Raises, store
<1>18. CASE RunCancelled
  BY <1>18 DEF RunCancelled, Main, store
<1>19. CASE Pruned
  BY <1>19 DEF Pruned, Gone, Rows, NoVerdict
<1>20. CASE Crash
  BY <1>20 DEF Crash, Main, store
<1>21. ASSUME NEW p \in Pauses, RunPauses(p) PROVE row' \in Rows
  BY <1>21 DEF RunPauses, store
<1>22. ASSUME NEW p \in Pauses, PauseReads(p) PROVE row' \in Rows
  BY <1>22 DEF PauseReads, store
<1>23. ASSUME NEW p \in Pauses, PauseInserts(p) PROVE row' \in Rows
  BY <1>23 DEF PauseInserts, store
<1>24. ASSUME NEW u \in Uploaders, UploadGets(u) PROVE row' \in Rows
  BY <1>24 DEF UploadGets, store
<1>25. ASSUME NEW u \in Uploaders, UploadCommits(u) PROVE row' \in Rows
  BY <1>25 DEF UploadCommits, Ingests, Rows, Verdicts
<1>26. ASSUME NEW u \in Uploaders, UploadRaises(u) PROVE row' \in Rows
  BY <1>26 DEF UploadRaises, store
<1>27. ASSUME NEW c \in Cancellers, CancelFinds(c) PROVE row' \in Rows
  BY <1>27 DEF CancelFinds, store
<1>28. ASSUME NEW c \in Cancellers, CancelCuts(c) PROVE row' \in Rows
  BY <1>28 DEF CancelCuts, store
<1>29. CASE UNCHANGED vars
  BY <1>29 DEF vars
<1>30. QED
  BY <1>1, <1>2, <1>3, <1>4, <1>5, <1>6, <1>7, <1>8, <1>9, <1>10, <1>11, <1>12, <1>13, <1>14, <1>15, <1>16, <1>17, <1>18, <1>19, <1>20, <1>21, <1>22, <1>23, <1>24, <1>25, <1>26, <1>27, <1>28, <1>29
     DEF Next, Creator, MainStep, Run, Pause, Upload, Cancel

(* The ledger keeps its type. *)
LEMMA LedgerTyped ==
  ASSUME TInv, [Next]_vars
  PROVE  ledger' \in Seq(Events)
<1> USE CoreTyped DEF TInv, CoreTypes
<1>1. CASE Create
  BY <1>1 DEF Create, store, Events, Ingests
<1>2. CASE Spawn
  BY <1>2 DEF Spawn, Main, store, Events, Ingests
<1>3. CASE SpawnRaises
  BY <1>3 DEF SpawnRaises, store, Events, Ingests
<1>4. CASE MainQueues
  BY <1>4 DEF MainQueues, store, Events, Ingests
<1>5. CASE EventReads
  BY <1>5 DEF EventReads, store, Events, Ingests
<1>6. CASE EventInserts
  <2>1. main.stage \in Events
    BY <1>6 DEF EventInserts, StageFits, Events
  <2>2. Append(ledger, main.stage) \in Seq(Events)
    BY <2>1, AppendFacts
  <2>3. QED
    BY <1>6, <2>2 DEF EventInserts
<1>7. CASE IngestGets
  BY <1>7 DEF IngestGets, Main, Raises, Returns, store, Events, Ingests
<1>8. CASE IngestCommits
  BY <1>8 DEF IngestCommits, Main, store, Events, Ingests
<1>9. CASE IngestRaises
  BY <1>9 DEF IngestRaises, Main, Raises, store, Events, Ingests
<1>10. CASE CollectDone
  BY <1>10 DEF CollectDone, Main, Returns, store, Events, Ingests
<1>11. CASE CollectRaises
  BY <1>11 DEF CollectRaises, Main, Raises, store, Events, Ingests
<1>12. CASE MarkGets
  BY <1>12 DEF MarkGets, Main, Returns, store, Events, Ingests
<1>13. CASE MarkCommits
  <2>1. main.stage \in Events
    BY <1>13 DEF MarkCommits, StageFits, Events
  <2>2. Append(ledger, main.stage) \in Seq(Events)
    BY <2>1, AppendFacts
  <2>3. QED
    BY <1>13, <2>2 DEF MarkCommits
<1>14. CASE MarkRaises
  BY <1>14 DEF MarkRaises, Main, Returns, store, Events, Ingests
<1>15. CASE ThreadEnds
  BY <1>15 DEF ThreadEnds, Main, store, Events, Ingests
<1>16. CASE RunReturns
  BY <1>16 DEF RunReturns, Main, store, Events, Ingests
<1>17. CASE RunRaises
  BY <1>17 DEF RunRaises, Main, Raises, store, Events, Ingests
<1>18. CASE RunCancelled
  BY <1>18 DEF RunCancelled, Main, store, Events, Ingests
<1>19. CASE Pruned
  BY <1>19 DEF Pruned, store, Events, Ingests
<1>20. CASE Crash
  BY <1>20 DEF Crash, Main, store, Events, Ingests
<1>21. ASSUME NEW p \in Pauses, RunPauses(p) PROVE ledger' \in Seq(Events)
  BY <1>21 DEF RunPauses, store, Events, Ingests
<1>22. ASSUME NEW p \in Pauses, PauseReads(p) PROVE ledger' \in Seq(Events)
  BY <1>22 DEF PauseReads, store, Events, Ingests
<1>23. ASSUME NEW p \in Pauses, PauseInserts(p) PROVE ledger' \in Seq(Events)
  <2>1. "paused" \in Events
    BY DEF Events
  <2>2. Append(ledger, "paused") \in Seq(Events)
    BY <2>1, AppendFacts
  <2>3. QED
    BY <1>23, <2>2 DEF PauseInserts
<1>24. ASSUME NEW u \in Uploaders, UploadGets(u) PROVE ledger' \in Seq(Events)
  BY <1>24 DEF UploadGets, store, Events, Ingests
<1>25. ASSUME NEW u \in Uploaders, UploadCommits(u) PROVE ledger' \in Seq(Events)
  BY <1>25 DEF UploadCommits, store, Events, Ingests
<1>26. ASSUME NEW u \in Uploaders, UploadRaises(u) PROVE ledger' \in Seq(Events)
  BY <1>26 DEF UploadRaises, store, Events, Ingests
<1>27. ASSUME NEW c \in Cancellers, CancelFinds(c) PROVE ledger' \in Seq(Events)
  BY <1>27 DEF CancelFinds, store, Events, Ingests
<1>28. ASSUME NEW c \in Cancellers, CancelCuts(c) PROVE ledger' \in Seq(Events)
  BY <1>28 DEF CancelCuts, store, Events, Ingests
<1>29. CASE UNCHANGED vars
  BY <1>29 DEF vars
<1>30. QED
  BY <1>1, <1>2, <1>3, <1>4, <1>5, <1>6, <1>7, <1>8, <1>9, <1>10, <1>11, <1>12, <1>13, <1>14, <1>15, <1>16, <1>17, <1>18, <1>19, <1>20, <1>21, <1>22, <1>23, <1>24, <1>25, <1>26, <1>27, <1>28, <1>29
     DEF Next, Creator, MainStep, Run, Pause, Upload, Cancel

(* The queue keeps its type. *)
LEMMA QueueTyped ==
  ASSUME TInv, [Next]_vars
  PROVE  queue' \in Seq(Pauses \cup {"main"})
<1> USE CoreTyped DEF TInv, CoreTypes
<1>1. CASE Create
  BY <1>1 DEF Create
<1>2. CASE Spawn
  BY <1>2 DEF Spawn, Main
<1>3. CASE SpawnRaises
  BY <1>3 DEF SpawnRaises
<1>4. CASE MainQueues
  BY <1>4 DEF MainQueues
<1>5. CASE EventReads
  BY <1>5 DEF EventReads
<1>6. CASE EventInserts
  <2>1. Len(queue) > 0
    BY <1>6 DEF EventInserts, QueueFits, InQueue
  <2>2. QED
    BY <1>6, <2>1, TailFacts DEF EventInserts
<1>7. CASE IngestGets
  <2>1. Len(queue) > 0
    BY <1>7 DEF IngestGets, QueueFits, InQueue
  <2>2. QED
    BY <1>7, <2>1, TailFacts DEF IngestGets
<1>8. CASE IngestCommits
  BY <1>8 DEF IngestCommits, Main
<1>9. CASE IngestRaises
  <2>1. Len(queue) > 0
    BY <1>9 DEF IngestRaises, QueueFits, InQueue
  <2>2. QED
    BY <1>9, <2>1, TailFacts DEF IngestRaises
<1>10. CASE CollectDone
  <2>1. Len(queue) > 0
    BY <1>10 DEF CollectDone, QueueFits, InQueue
  <2>2. QED
    BY <1>10, <2>1, TailFacts DEF CollectDone
<1>11. CASE CollectRaises
  <2>1. Len(queue) > 0
    BY <1>11 DEF CollectRaises, QueueFits, InQueue
  <2>2. QED
    BY <1>11, <2>1, TailFacts DEF CollectRaises
<1>12. CASE MarkGets
  BY <1>12 DEF MarkGets, Main, Returns
<1>13. CASE MarkCommits
  BY <1>13 DEF MarkCommits, Main, Returns
<1>14. CASE MarkRaises
  BY <1>14 DEF MarkRaises, Main, Returns
<1>15. CASE ThreadEnds
  BY <1>15 DEF ThreadEnds, Main
<1>16. CASE RunReturns
  BY <1>16 DEF RunReturns, Main
<1>17. CASE RunRaises
  BY <1>17 DEF RunRaises, Main, Raises
<1>18. CASE RunCancelled
  BY <1>18 DEF RunCancelled, Main
<1>19. CASE Pruned
  BY <1>19 DEF Pruned
<1>20. CASE Crash
  BY <1>20 DEF Crash, Main
<1>21. ASSUME NEW p \in Pauses, RunPauses(p) PROVE queue' \in Seq(Pauses \cup {"main"})
  BY <1>21 DEF RunPauses
<1>22. ASSUME NEW p \in Pauses, PauseReads(p) PROVE queue' \in Seq(Pauses \cup {"main"})
  BY <1>22 DEF PauseReads
<1>23. ASSUME NEW p \in Pauses, PauseInserts(p) PROVE queue' \in Seq(Pauses \cup {"main"})
  <2>1. Len(queue) > 0
    BY <1>23 DEF PauseInserts, QueueFits, Asking
  <2>2. QED
    BY <1>23, <2>1, TailFacts DEF PauseInserts
<1>24. ASSUME NEW u \in Uploaders, UploadGets(u) PROVE queue' \in Seq(Pauses \cup {"main"})
  BY <1>24 DEF UploadGets
<1>25. ASSUME NEW u \in Uploaders, UploadCommits(u) PROVE queue' \in Seq(Pauses \cup {"main"})
  BY <1>25 DEF UploadCommits
<1>26. ASSUME NEW u \in Uploaders, UploadRaises(u) PROVE queue' \in Seq(Pauses \cup {"main"})
  BY <1>26 DEF UploadRaises
<1>27. ASSUME NEW c \in Cancellers, CancelFinds(c) PROVE queue' \in Seq(Pauses \cup {"main"})
  BY <1>27 DEF CancelFinds
<1>28. ASSUME NEW c \in Cancellers, CancelCuts(c) PROVE queue' \in Seq(Pauses \cup {"main"})
  BY <1>28 DEF CancelCuts
<1>29. CASE UNCHANGED vars
  BY <1>29 DEF vars
<1>30. QED
  BY <1>1, <1>2, <1>3, <1>4, <1>5, <1>6, <1>7, <1>8, <1>9, <1>10, <1>11, <1>12, <1>13, <1>14, <1>15, <1>16, <1>17, <1>18, <1>19, <1>20, <1>21, <1>22, <1>23, <1>24, <1>25, <1>26, <1>27, <1>28, <1>29
     DEF Next, Creator, MainStep, Run, Pause, Upload, Cancel

(* The pause tasks keep their types. *)
LEMMA PausesTyped ==
  ASSUME TInv, [Next]_vars
  PROVE  pause' \in [Pauses -> [at : {"off", "wait", "insert", "done", "lost"}, seq : Nat]]
<1> USE CoreTyped DEF TInv, CoreTypes
<1>1. CASE Create
  BY <1>1 DEF Create
<1>2. CASE Spawn
  BY <1>2 DEF Spawn, Main
<1>3. CASE SpawnRaises
  BY <1>3 DEF SpawnRaises
<1>4. CASE MainQueues
  BY <1>4 DEF MainQueues
<1>5. CASE EventReads
  BY <1>5 DEF EventReads
<1>6. CASE EventInserts
  BY <1>6 DEF EventInserts, Main, Raises
<1>7. CASE IngestGets
  BY <1>7 DEF IngestGets, Main, Raises, Returns
<1>8. CASE IngestCommits
  BY <1>8 DEF IngestCommits, Main
<1>9. CASE IngestRaises
  BY <1>9 DEF IngestRaises, Main, Raises
<1>10. CASE CollectDone
  BY <1>10 DEF CollectDone, Main, Returns
<1>11. CASE CollectRaises
  BY <1>11 DEF CollectRaises, Main, Raises
<1>12. CASE MarkGets
  BY <1>12 DEF MarkGets, Main, Returns
<1>13. CASE MarkCommits
  BY <1>13 DEF MarkCommits, Main, Returns
<1>14. CASE MarkRaises
  BY <1>14 DEF MarkRaises, Main, Returns
<1>15. CASE ThreadEnds
  BY <1>15 DEF ThreadEnds, Main
<1>16. CASE RunReturns
  BY <1>16 DEF RunReturns, Main
<1>17. CASE RunRaises
  BY <1>17 DEF RunRaises, Main, Raises
<1>18. CASE RunCancelled
  BY <1>18 DEF RunCancelled, Main
<1>19. CASE Pruned
  BY <1>19 DEF Pruned
<1>20. CASE Crash
  BY <1>20 DEF Crash, Main
<1>21. ASSUME NEW p \in Pauses, RunPauses(p) PROVE pause' \in [Pauses -> [at : {"off", "wait", "insert", "done", "lost"}, seq : Nat]]
  BY <1>21 DEF RunPauses
<1>22. ASSUME NEW p \in Pauses, PauseReads(p) PROVE pause' \in [Pauses -> [at : {"off", "wait", "insert", "done", "lost"}, seq : Nat]]
  BY <1>22 DEF PauseReads
<1>23. ASSUME NEW p \in Pauses, PauseInserts(p) PROVE pause' \in [Pauses -> [at : {"off", "wait", "insert", "done", "lost"}, seq : Nat]]
  <2>1. \/ pause' = [pause EXCEPT ![p] = [at |-> "done", seq |-> 0]]
        \/ pause' = [pause EXCEPT ![p] = [at |-> "lost", seq |-> 0]]
    BY <1>23 DEF PauseInserts
  <2>2. QED
    BY <2>1
<1>24. ASSUME NEW u \in Uploaders, UploadGets(u) PROVE pause' \in [Pauses -> [at : {"off", "wait", "insert", "done", "lost"}, seq : Nat]]
  BY <1>24 DEF UploadGets
<1>25. ASSUME NEW u \in Uploaders, UploadCommits(u) PROVE pause' \in [Pauses -> [at : {"off", "wait", "insert", "done", "lost"}, seq : Nat]]
  BY <1>25 DEF UploadCommits
<1>26. ASSUME NEW u \in Uploaders, UploadRaises(u) PROVE pause' \in [Pauses -> [at : {"off", "wait", "insert", "done", "lost"}, seq : Nat]]
  BY <1>26 DEF UploadRaises
<1>27. ASSUME NEW c \in Cancellers, CancelFinds(c) PROVE pause' \in [Pauses -> [at : {"off", "wait", "insert", "done", "lost"}, seq : Nat]]
  BY <1>27 DEF CancelFinds
<1>28. ASSUME NEW c \in Cancellers, CancelCuts(c) PROVE pause' \in [Pauses -> [at : {"off", "wait", "insert", "done", "lost"}, seq : Nat]]
  BY <1>28 DEF CancelCuts
<1>29. CASE UNCHANGED vars
  BY <1>29 DEF vars
<1>30. QED
  BY <1>1, <1>2, <1>3, <1>4, <1>5, <1>6, <1>7, <1>8, <1>9, <1>10, <1>11, <1>12, <1>13, <1>14, <1>15, <1>16, <1>17, <1>18, <1>19, <1>20, <1>21, <1>22, <1>23, <1>24, <1>25, <1>26, <1>27, <1>28, <1>29
     DEF Next, Creator, MainStep, Run, Pause, Upload, Cancel

(* The requests' variables keep their types. *)
LEMMA RequestsTyped ==
  ASSUME TInv, [Next]_vars
  PROVE  /\ creator' \in {"new", "created", "over"}
         /\ upload' \in [Uploaders -> {"idle", "read", "accepted", "refused"}]
         /\ cancel' \in [Cancellers -> {"idle", "found", "accepted", "refused"}]
<1> USE DEF TInv, TypeOK
<1>1. CASE Creator \/ MainStep \/ Run \/ RunCancelled \/ Pruned \/ \E p \in Pauses : Pause(p)
  BY <1>1 DEF Creator, Create, Spawn, SpawnRaises, MainStep, MainQueues, EventReads, EventInserts,
     IngestGets, IngestCommits, IngestRaises, CollectDone, CollectRaises, MarkGets, MarkCommits,
     MarkRaises, ThreadEnds, Run, RunReturns, RunRaises, RunPauses, RunCancelled, Pruned, Pause,
     PauseReads, PauseInserts, requests
<1>2. CASE Crash
  BY <1>2 DEF Crash
<1>3. ASSUME NEW u \in Uploaders, Upload(u)
      PROVE  /\ creator' = creator /\ cancel' = cancel
             /\ upload' \in [Uploaders -> {"idle", "read", "accepted", "refused"}]
  BY <1>3 DEF Upload, UploadGets, UploadCommits, UploadRaises
<1>4. ASSUME NEW c \in Cancellers, Cancel(c)
      PROVE  /\ creator' = creator /\ upload' = upload
             /\ cancel' \in [Cancellers -> {"idle", "found", "accepted", "refused"}]
  BY <1>4 DEF Cancel, CancelFinds, CancelCuts
<1>5. CASE UNCHANGED vars
  BY <1>5 DEF vars
<1>6. QED
  BY <1>1, <1>2, <1>3, <1>4, <1>5 DEF Next

(* The flags keep their types. *)
LEMMA FlagsTyped ==
  ASSUME TInv, [Next]_vars
  PROVE  active' \in BOOLEAN /\ cut' \in BOOLEAN
<1>1. active \in BOOLEAN /\ cut \in BOOLEAN
  BY DEF TInv, TypeOK
<1>2. (active' = active \/ active' = TRUE \/ active' = FALSE)
      /\ (cut' = cut \/ cut' = TRUE \/ cut' = FALSE)
  BY Zenon DEF Next, Creator, Create, Spawn, SpawnRaises, MainStep, MainQueues, EventReads, EventInserts,
     IngestGets, IngestCommits, IngestRaises, CollectDone, CollectRaises, MarkGets, MarkCommits,
     MarkRaises, ThreadEnds, Run, RunReturns, RunRaises, RunPauses, RunCancelled, Pruned, Pause,
     PauseReads, PauseInserts, Crash, Upload, UploadGets, UploadCommits, UploadRaises, Cancel,
     CancelFinds, CancelCuts, vars
<1>3. QED
  BY <1>1, <1>2, Zenon

(* The coroutine leaves an empty queue when it gives the lock back. *)
LEMMA MainLeaves ==
  ASSUME TInv, Len(queue) = 1, queue' = Tail(queue), main'.at \notin InQueue, pause' = pause,
         \A p \in Pauses : pause[p].at \notin Asking
  PROVE  QueueFits'
<1>1. Len(queue') = 0
  BY CoreTyped, TailFacts DEF CoreTypes
<1>2. \A i \in 1 .. Len(queue') : queue'[i] # "main"
  BY <1>1
<1>3. \A p \in Pauses : pause'[p].at \notin Asking /\ pause'[p].at # "insert"
  BY DEF Asking
<1>4. main'.at \notin Holds
  BY DEF InQueue, Holds
<1>5. QED
  BY <1>2, <1>3, <1>4 DEF QueueFits

(* The coroutine asks, or moves on with the lock. *)
LEMMA MainAsks ==
  ASSUME TInv, main.at \notin InQueue, main'.at = "wait", pause' = pause,
         queue' = Append(queue, "main")
  PROVE  QueueFits'
<1>1. /\ Len(queue') = Len(queue) + 1 /\ queue'[Len(queue) + 1] = "main"
      /\ \A i \in 1 .. Len(queue) : queue'[i] = queue[i]
      /\ Len(queue) \in Nat
  BY CoreTyped, AppendFacts DEF CoreTypes
<1>2. \A p \in Pauses : pause[p].at = "insert" => Len(queue) > 0
  BY DEF TInv, QueueFits, Asking
<1>3. \A i \in 1 .. Len(queue) : queue[i] # "main"
  BY DEF TInv, QueueFits
<1>4. QED
  BY <1>1, <1>2, <1>3 DEF TInv, QueueFits, InQueue, Holds

(* The order of the queue is kept. *)
LEMMA QueueStep ==
  ASSUME TInv, [Next]_vars
  PROVE  QueueFits'
<1> USE CoreTyped DEF TInv, CoreTypes
<1>1. CASE Create
  BY <1>1 DEF Create, QueueFits
<1>2. CASE Spawn
  <2>1. queue' = queue /\ pause' = pause
    BY <1>2 DEF Spawn
  <2>2. main.at \notin InQueue /\ main'.at \notin InQueue
    BY <1>2 DEF Spawn, InQueue, Main, CreatorFits
  <2>3. QED
    BY <2>1, <2>2 DEF QueueFits, InQueue, Holds
<1>3. CASE SpawnRaises
  BY <1>3 DEF SpawnRaises, QueueFits
<1>4. CASE MainQueues
  <2>1. main.at \notin InQueue /\ main'.at = "wait"
    BY <1>4 DEF MainQueues, InQueue, Mains
  <2>2. QED
    BY <1>4, <2>1, MainAsks DEF MainQueues
<1>5. CASE EventReads
  <2>1. Len(queue) > 0 /\ queue[1] = "main"
    BY <1>5 DEF EventReads, QueueFits, InQueue
  <2>2. main'.at = "insert" /\ main.at = "wait" /\ queue' = queue /\ pause' = pause
    BY <1>5 DEF EventReads, Mains
  <2>3. QED
    BY <2>1, <2>2 DEF QueueFits, InQueue
<1>6. CASE EventInserts
  <2>1. Head(queue) = "main" /\ main.at \in InQueue
    BY <1>6 DEF EventInserts, QueueFits, InQueue, Holds
  <2>2. pause' = pause /\ (queue' = Tail(queue) /\ main'.at \notin InQueue)
    BY <1>6 DEF EventInserts, InQueue, Main, Raises
  <2>3. QED
    BY <2>1, <2>2, Alone, MainLeaves
<1>7. CASE IngestGets
  <2>1. Head(queue) = "main" /\ main.at = "wait" /\ pause' = pause
    BY <1>7 DEF IngestGets
  <2>2. CASE queue' = Tail(queue) /\ main'.at \notin InQueue
    BY <2>1, <2>2, Alone, MainLeaves DEF InQueue
  <2>3. CASE queue' = queue /\ main'.at = "commit"
    <3>1. Len(queue) > 0 /\ queue[1] = "main"
      BY <2>1 DEF QueueFits, InQueue
    <3>2. QED
      BY <2>1, <2>3, <3>1 DEF QueueFits, InQueue
  <2>4. QED
    BY <1>7, <2>2, <2>3 DEF IngestGets, Main, Raises, Returns, InQueue
<1>8. CASE IngestCommits
  <2>1. main.at = "commit" /\ main'.at = "collect" /\ queue' = queue /\ pause' = pause
    BY <1>8 DEF IngestCommits, Main
  <2>2. QED
    BY <2>1 DEF QueueFits, InQueue, Holds
<1>9. CASE IngestRaises
  <2>1. Head(queue) = "main" /\ main.at \in InQueue
    BY <1>9 DEF IngestRaises, QueueFits, InQueue, Holds
  <2>2. pause' = pause /\ (queue' = Tail(queue) /\ main'.at \notin InQueue)
    BY <1>9 DEF IngestRaises, InQueue, Main, Raises
  <2>3. QED
    BY <2>1, <2>2, Alone, MainLeaves
<1>10. CASE CollectDone
  <2>1. Head(queue) = "main" /\ main.at \in InQueue
    BY <1>10 DEF CollectDone, QueueFits, InQueue, Holds
  <2>2. pause' = pause /\ (queue' = Tail(queue) /\ main'.at \notin InQueue)
    BY <1>10 DEF CollectDone, InQueue, Main, Returns
  <2>3. QED
    BY <2>1, <2>2, Alone, MainLeaves
<1>11. CASE CollectRaises
  <2>1. Head(queue) = "main" /\ main.at \in InQueue
    BY <1>11 DEF CollectRaises, QueueFits, InQueue, Holds
  <2>2. pause' = pause /\ (queue' = Tail(queue) /\ main'.at \notin InQueue)
    BY <1>11 DEF CollectRaises, InQueue, Main, Raises
  <2>3. QED
    BY <2>1, <2>2, Alone, MainLeaves
<1>12. CASE MarkGets
  <2>1. queue' = queue /\ pause' = pause
    BY <1>12 DEF MarkGets
  <2>2. main.at \notin InQueue /\ main'.at \notin InQueue
    BY <1>12 DEF MarkGets, InQueue, Main, Returns, Mains
  <2>3. QED
    BY <2>1, <2>2 DEF QueueFits, InQueue, Holds
<1>13. CASE MarkCommits
  <2>1. queue' = queue /\ pause' = pause
    BY <1>13 DEF MarkCommits
  <2>2. main.at \notin InQueue /\ main'.at \notin InQueue
    BY <1>13 DEF MarkCommits, InQueue, Main, Returns
  <2>3. QED
    BY <2>1, <2>2 DEF QueueFits, InQueue, Holds
<1>14. CASE MarkRaises
  <2>1. queue' = queue /\ pause' = pause
    BY <1>14 DEF MarkRaises
  <2>2. main.at \notin InQueue /\ main'.at \notin InQueue
    BY <1>14 DEF MarkRaises, InQueue, Main, Returns
  <2>3. QED
    BY <2>1, <2>2 DEF QueueFits, InQueue, Holds
<1>15. CASE ThreadEnds
  <2>1. main'.at \notin InQueue /\ queue' = <<>>
    BY <1>15 DEF ThreadEnds, Main, InQueue
  <2>2. \A p \in Pauses : pause'[p].at \notin Asking
    BY <1>15 DEF ThreadEnds, Asking
  <2>3. QED
    BY <2>1, <2>2 DEF QueueFits, InQueue, Holds, Asking
<1>16. CASE RunReturns
  <2>1. queue' = queue /\ pause' = pause
    BY <1>16 DEF RunReturns
  <2>2. main.at \notin InQueue /\ main'.at \notin InQueue
    BY <1>16 DEF RunReturns, InQueue, Main
  <2>3. QED
    BY <2>1, <2>2 DEF QueueFits, InQueue, Holds
<1>17. CASE RunRaises
  <2>1. queue' = queue /\ pause' = pause
    BY <1>17 DEF RunRaises
  <2>2. main.at \notin InQueue /\ main'.at \notin InQueue
    BY <1>17 DEF RunRaises, InQueue, Main, Raises
  <2>3. QED
    BY <2>1, <2>2 DEF QueueFits, InQueue, Holds
<1>18. CASE RunCancelled
  <2>1. queue' = queue /\ pause' = pause
    BY <1>18 DEF RunCancelled
  <2>2. main.at \notin InQueue /\ main'.at \notin InQueue
    BY <1>18 DEF RunCancelled, InQueue, Main
  <2>3. QED
    BY <2>1, <2>2 DEF QueueFits, InQueue, Holds
<1>19. CASE Pruned
  BY <1>19 DEF Pruned, QueueFits
<1>20. CASE Crash
  <2>1. main'.at \notin InQueue /\ queue' = <<>>
    BY <1>20 DEF Crash, Main, InQueue
  <2>2. \A p \in Pauses : pause'[p].at \notin Asking
    BY <1>20 DEF Crash, Asking
  <2>3. QED
    BY <2>1, <2>2 DEF QueueFits, InQueue, Holds, Asking
<1>21. ASSUME NEW p \in Pauses, RunPauses(p) PROVE QueueFits'
  <2>1. main.at \notin InQueue /\ main' = main /\ p # "main"
    BY <1>21, ProveAssumption DEF RunPauses, InQueue
  <2>2. /\ Len(queue') = Len(queue) + 1 /\ queue'[Len(queue) + 1] = p
        /\ \A i \in 1 .. Len(queue) : queue'[i] = queue[i]
        /\ Len(queue) \in Nat
    BY <1>21, AppendFacts DEF RunPauses
  <2>3. /\ pause'[p].at = "wait"
        /\ \A r \in Pauses : r # p => pause'[r] = pause[r]
    BY <1>21 DEF RunPauses
  <2>4. \A r \in Pauses : pause[r].at = "insert" => Len(queue) > 0
    BY DEF QueueFits, Asking
  <2>5. \A i \in 1 .. Len(queue) : queue[i] # "main"
    BY <2>1 DEF QueueFits
  <2>6. \A r \in Pauses : pause'[r].at \in Asking => \E i \in 1 .. Len(queue') : queue'[i] = r
    <3>1. \A r \in Pauses : pause[r].at \in Asking => \E i \in 1 .. Len(queue') : queue'[i] = r
      BY <2>2 DEF QueueFits
    <3>2. Len(queue) + 1 \in 1 .. Len(queue')
      BY <2>2
    <3>3. QED
      BY <2>2, <2>3, <3>1, <3>2
  <2>7. \A i \in 1 .. Len(queue') : queue'[i] # "main"
    BY <2>1, <2>2, <2>5
  <2>8. \A r \in Pauses : pause'[r].at = "insert" => queue'[1] = r
    BY <2>2, <2>3, <2>4 DEF QueueFits
  <2>9. main'.at \notin InQueue /\ main'.at \notin Holds
    BY <2>1 DEF InQueue, Holds
  <2>10. QED
    BY <2>6, <2>7, <2>8, <2>9 DEF QueueFits
<1>22. ASSUME NEW p \in Pauses, PauseReads(p) PROVE QueueFits'
  <2>1. Len(queue) > 0 /\ queue[1] = p
    BY <1>22 DEF PauseReads, QueueFits, Asking
  <2>2. /\ pause[p].at = "wait" /\ pause'[p].at = "insert"
        /\ \A r \in Pauses : r # p => pause'[r] = pause[r]
        /\ queue' = queue /\ main' = main
    BY <1>22 DEF PauseReads
  <2>3. QED
    BY <2>1, <2>2 DEF QueueFits, Asking
<1>23. ASSUME NEW p \in Pauses, PauseInserts(p) PROVE QueueFits'
  <2>1. Len(queue) > 0 /\ queue[1] = p /\ p # "main"
    BY <1>23, ProveAssumption DEF PauseInserts, QueueFits, Asking
  <2>2. /\ pause'[p].at \notin Asking
        /\ \A r \in Pauses : r # p => pause'[r] = pause[r]
        /\ queue' = Tail(queue) /\ main' = main
    BY <1>23 DEF PauseInserts, Asking
  <2>3. /\ Len(queue') = Len(queue) - 1
        /\ \A i \in 1 .. Len(queue') : queue'[i] = queue[i + 1]
    BY <2>1, <2>2, TailFacts
  <2>4. main.at \notin Holds /\ \A r \in Pauses : r # p => pause[r].at # "insert"
    BY <2>1 DEF QueueFits
  <2>5. main.at \in InQueue => Len(queue) > 1 /\ queue'[Len(queue')] = "main"
    BY <2>1, <2>2, <2>3 DEF QueueFits
  <2>6. \A r \in Pauses : r # p /\ pause[r].at \in Asking
                            => \E i \in 1 .. Len(queue') : queue'[i] = r
    <3> SUFFICES ASSUME NEW r \in Pauses, r # p, pause[r].at \in Asking
                 PROVE  \E i \in 1 .. Len(queue') : queue'[i] = r
      OBVIOUS
    <3>1. PICK i \in 1 .. Len(queue) : queue[i] = r
      BY DEF QueueFits
    <3>2. i - 1 \in 1 .. Len(queue') /\ queue'[i - 1] = r
      BY <2>1, <2>3, <3>1
    <3>3. QED
      BY <3>2
  <2>7. \A i \in 1 .. Len(queue') : queue'[i] = "main" => i = Len(queue') /\ main.at \in InQueue
    <3> SUFFICES ASSUME NEW i \in 1 .. Len(queue'), queue'[i] = "main"
                 PROVE  i = Len(queue') /\ main.at \in InQueue
      OBVIOUS
    <3>1. i + 1 \in 1 .. Len(queue) /\ queue[i + 1] = "main"
      BY <2>1, <2>3
    <3>2. QED
      BY <2>3, <3>1 DEF QueueFits
  <2>8. \A r \in Pauses : pause'[r].at \in Asking => \E i \in 1 .. Len(queue') : queue'[i] = r
    BY <2>2, <2>6
  <2>9. \A r \in Pauses : pause'[r].at # "insert"
    BY <2>2, <2>4 DEF Asking
  <2>10. main'.at \in InQueue => Len(queue') > 0
    BY <2>2, <2>3, <2>5
  <2>11. QED
    BY <2>2, <2>4, <2>5, <2>7, <2>8, <2>9, <2>10 DEF QueueFits
<1>24. ASSUME NEW u \in Uploaders, UploadGets(u) PROVE QueueFits'
  BY <1>24 DEF UploadGets, QueueFits
<1>25. ASSUME NEW u \in Uploaders, UploadCommits(u) PROVE QueueFits'
  BY <1>25 DEF UploadCommits, QueueFits
<1>26. ASSUME NEW u \in Uploaders, UploadRaises(u) PROVE QueueFits'
  BY <1>26 DEF UploadRaises, QueueFits
<1>27. ASSUME NEW c \in Cancellers, CancelFinds(c) PROVE QueueFits'
  BY <1>27 DEF CancelFinds, QueueFits
<1>28. ASSUME NEW c \in Cancellers, CancelCuts(c) PROVE QueueFits'
  BY <1>28 DEF CancelCuts, QueueFits
<1>29. CASE UNCHANGED vars
  BY <1>29 DEF vars, QueueFits
<1>30. QED
  BY <1>1, <1>2, <1>3, <1>4, <1>5, <1>6, <1>7, <1>8, <1>9, <1>10, <1>11, <1>12, <1>13, <1>14, <1>15, <1>16, <1>17, <1>18, <1>19, <1>20, <1>21, <1>22, <1>23, <1>24, <1>25, <1>26, <1>27, <1>28, <1>29
     DEF Next, Creator, MainStep, Run, Pause, Upload, Cancel

(* Before the thread there is nothing but the request. *)
LEMMA CreatorStep ==
  ASSUME TInv, [Next]_vars
  PROVE  CreatorFits'
<1> USE CoreTyped DEF TInv, CoreTypes
<1>1. CASE Create
  BY <1>1 DEF Create, CreatorFits, Gone
<1>2. CASE Spawn
  BY <1>2 DEF Spawn, Main, CreatorFits, store
<1>3. CASE SpawnRaises
  BY <1>3 DEF SpawnRaises, CreatorFits, store
<1>4. CASE MainQueues
  <2>1. main.at # "off" /\ main'.at # "off" /\ creator' = creator
    BY <1>4 DEF MainQueues, requests, Mains
  <2>2. row' = row
    BY <1>4 DEF MainQueues, store
  <2>3. creator = "over"
    BY <2>1 DEF CreatorFits, TypeOK
  <2>4. QED
    BY <2>1, <2>2, <2>3 DEF CreatorFits
<1>5. CASE EventReads
  <2>1. main.at # "off" /\ main'.at # "off" /\ creator' = creator
    BY <1>5 DEF EventReads, requests, Mains
  <2>2. row' = row
    BY <1>5 DEF EventReads, store
  <2>3. creator = "over"
    BY <2>1 DEF CreatorFits, TypeOK
  <2>4. QED
    BY <2>1, <2>2, <2>3 DEF CreatorFits
<1>6. CASE EventInserts
  <2>1. main.at # "off" /\ main'.at # "off" /\ creator' = creator
    BY <1>6 DEF EventInserts, Main, Raises, requests, Mains
  <2>2. row' = row
    BY <1>6 DEF EventInserts, store
  <2>3. creator = "over"
    BY <2>1 DEF CreatorFits, TypeOK
  <2>4. QED
    BY <2>1, <2>2, <2>3 DEF CreatorFits
<1>7. CASE IngestGets
  <2>1. main.at # "off" /\ main'.at # "off" /\ creator' = creator
    BY <1>7 DEF IngestGets, Main, Raises, Returns, requests, Mains
  <2>2. row' = row
    BY <1>7 DEF IngestGets, store
  <2>3. creator = "over"
    BY <2>1 DEF CreatorFits, TypeOK
  <2>4. QED
    BY <2>1, <2>2, <2>3 DEF CreatorFits
<1>8. CASE IngestCommits
  <2>1. main.at # "off" /\ main'.at # "off" /\ creator' = creator
    BY <1>8 DEF IngestCommits, Main, requests
  <2>2. row'.status # "absent"
    BY <1>8 DEF IngestCommits, Ingests
  <2>3. creator = "over"
    BY <2>1 DEF CreatorFits, TypeOK
  <2>4. QED
    BY <2>1, <2>2, <2>3 DEF CreatorFits
<1>9. CASE IngestRaises
  <2>1. main.at # "off" /\ main'.at # "off" /\ creator' = creator
    BY <1>9 DEF IngestRaises, Main, Raises, requests, Mains
  <2>2. row' = row
    BY <1>9 DEF IngestRaises, store
  <2>3. creator = "over"
    BY <2>1 DEF CreatorFits, TypeOK
  <2>4. QED
    BY <2>1, <2>2, <2>3 DEF CreatorFits
<1>10. CASE CollectDone
  <2>1. main.at # "off" /\ main'.at # "off" /\ creator' = creator
    BY <1>10 DEF CollectDone, Main, Returns, requests, Mains
  <2>2. row' = row
    BY <1>10 DEF CollectDone, store
  <2>3. creator = "over"
    BY <2>1 DEF CreatorFits, TypeOK
  <2>4. QED
    BY <2>1, <2>2, <2>3 DEF CreatorFits
<1>11. CASE CollectRaises
  <2>1. main.at # "off" /\ main'.at # "off" /\ creator' = creator
    BY <1>11 DEF CollectRaises, Main, Raises, requests, Mains
  <2>2. row' = row
    BY <1>11 DEF CollectRaises, store
  <2>3. creator = "over"
    BY <2>1 DEF CreatorFits, TypeOK
  <2>4. QED
    BY <2>1, <2>2, <2>3 DEF CreatorFits
<1>12. CASE MarkGets
  <2>1. main.at # "off" /\ main'.at # "off" /\ creator' = creator
    BY <1>12 DEF MarkGets, Main, Returns, requests, Mains
  <2>2. row' = row
    BY <1>12 DEF MarkGets, store
  <2>3. creator = "over"
    BY <2>1 DEF CreatorFits, TypeOK
  <2>4. QED
    BY <2>1, <2>2, <2>3 DEF CreatorFits
<1>13. CASE MarkCommits
  <2>1. main.at # "off" /\ main'.at # "off" /\ creator' = creator
    BY <1>13 DEF MarkCommits, Main, Returns, requests
  <2>2. row'.status # "absent"
    BY <1>13 DEF MarkCommits, Rows
  <2>3. creator = "over"
    BY <2>1 DEF CreatorFits, TypeOK
  <2>4. QED
    BY <2>1, <2>2, <2>3 DEF CreatorFits
<1>14. CASE MarkRaises
  <2>1. main.at # "off" /\ main'.at # "off" /\ creator' = creator
    BY <1>14 DEF MarkRaises, Main, Returns, requests, Mains
  <2>2. row' = row
    BY <1>14 DEF MarkRaises, store
  <2>3. creator = "over"
    BY <2>1 DEF CreatorFits, TypeOK
  <2>4. QED
    BY <2>1, <2>2, <2>3 DEF CreatorFits
<1>15. CASE ThreadEnds
  <2>1. main.at # "off" /\ main'.at # "off" /\ creator' = creator
    BY <1>15 DEF ThreadEnds, Main, requests, Mains
  <2>2. row' = row
    BY <1>15 DEF ThreadEnds, store
  <2>3. creator = "over"
    BY <2>1 DEF CreatorFits, TypeOK
  <2>4. QED
    BY <2>1, <2>2, <2>3 DEF CreatorFits
<1>16. CASE RunReturns
  <2>1. main.at # "off" /\ main'.at # "off" /\ creator' = creator
    BY <1>16 DEF RunReturns, Main, requests, Mains
  <2>2. row' = row
    BY <1>16 DEF RunReturns, store
  <2>3. creator = "over"
    BY <2>1 DEF CreatorFits, TypeOK
  <2>4. QED
    BY <2>1, <2>2, <2>3 DEF CreatorFits
<1>17. CASE RunRaises
  <2>1. main.at # "off" /\ main'.at # "off" /\ creator' = creator
    BY <1>17 DEF RunRaises, Main, Raises, requests, Mains
  <2>2. row' = row
    BY <1>17 DEF RunRaises, store
  <2>3. creator = "over"
    BY <2>1 DEF CreatorFits, TypeOK
  <2>4. QED
    BY <2>1, <2>2, <2>3 DEF CreatorFits
<1>18. CASE RunCancelled
  <2>1. main.at # "off" /\ main'.at # "off" /\ creator' = creator
    BY <1>18 DEF RunCancelled, Main, requests, Mains
  <2>2. row' = row
    BY <1>18 DEF RunCancelled, store
  <2>3. creator = "over"
    BY <2>1 DEF CreatorFits, TypeOK
  <2>4. QED
    BY <2>1, <2>2, <2>3 DEF CreatorFits
<1>19. CASE Pruned
  <2>1. creator # "new"
    BY <1>19 DEF Pruned, CreatorFits, Gone
  <2>2. QED
    BY <1>19, <2>1 DEF Pruned, CreatorFits, requests, Gone
<1>20. CASE Crash
  <2>1. main.at # "off" /\ main'.at # "off" /\ creator' = creator /\ row' = row
    BY <1>20 DEF Crash, Main, store, CreatorFits
  <2>2. creator = "over"
    BY <2>1 DEF CreatorFits, TypeOK
  <2>3. QED
    BY <2>1, <2>2 DEF CreatorFits
<1>21. ASSUME NEW p \in Pauses, RunPauses(p) PROVE CreatorFits'
  <2>1. main.at # "off"
    BY <1>21 DEF RunPauses, CreatorFits
  <2>2. QED
    BY <1>21, <2>1 DEF RunPauses, CreatorFits, store, requests
<1>22. ASSUME NEW p \in Pauses, PauseReads(p) PROVE CreatorFits'
  <2>1. main.at # "off"
    BY <1>22 DEF PauseReads, CreatorFits
  <2>2. QED
    BY <1>22, <2>1 DEF PauseReads, CreatorFits, store, requests
<1>23. ASSUME NEW p \in Pauses, PauseInserts(p) PROVE CreatorFits'
  <2>1. main.at # "off"
    BY <1>23 DEF PauseInserts, CreatorFits
  <2>2. QED
    BY <1>23, <2>1 DEF PauseInserts, CreatorFits, store, requests
<1>24. ASSUME NEW u \in Uploaders, UploadGets(u) PROVE CreatorFits'
  <2>1. creator # "new"
    BY <1>24 DEF UploadGets, CreatorFits, Gone
  <2>2. QED
    BY <1>24, <2>1 DEF UploadGets, CreatorFits, store
<1>25. ASSUME NEW u \in Uploaders, UploadCommits(u) PROVE CreatorFits'
  <2>1. creator # "new" /\ row'.status # "absent"
    BY <1>25 DEF UploadCommits, CreatorFits, Ingests, Gone
  <2>2. QED
    BY <1>25, <2>1 DEF UploadCommits, CreatorFits
<1>26. ASSUME NEW u \in Uploaders, UploadRaises(u) PROVE CreatorFits'
  <2>1. creator # "new"
    BY <1>26 DEF UploadRaises, CreatorFits, Gone
  <2>2. QED
    BY <1>26, <2>1 DEF UploadRaises, CreatorFits, store
<1>27. ASSUME NEW c \in Cancellers, CancelFinds(c) PROVE CreatorFits'
  BY <1>27 DEF CancelFinds, CreatorFits, store
<1>28. ASSUME NEW c \in Cancellers, CancelCuts(c) PROVE CreatorFits'
  BY <1>28 DEF CancelCuts, CreatorFits, store
<1>29. CASE UNCHANGED vars
  BY <1>29 DEF vars, CreatorFits
<1>30. QED
  BY <1>1, <1>2, <1>3, <1>4, <1>5, <1>6, <1>7, <1>8, <1>9, <1>10, <1>11, <1>12, <1>13, <1>14, <1>15, <1>16, <1>17, <1>18, <1>19, <1>20, <1>21, <1>22, <1>23, <1>24, <1>25, <1>26, <1>27, <1>28, <1>29
     DEF Next, Creator, MainStep, Run, Pause, Upload, Cancel

(* The coroutine writes the events of its stage. *)
LEMMA StageStep ==
  ASSUME TInv, [Next]_vars
  PROVE  StageFits'
<1> USE CoreTyped DEF TInv, CoreTypes, Mains, StageFits
<1>1. CASE Create
  BY <1>1 DEF Create
<1>2. CASE Spawn
  BY <1>2 DEF Spawn, Main
<1>3. CASE SpawnRaises
  BY <1>3 DEF SpawnRaises
<1>4. CASE MainQueues
  BY <1>4 DEF MainQueues
<1>5. CASE EventReads
  BY <1>5 DEF EventReads
<1>6. CASE EventInserts
  BY <1>6 DEF EventInserts, Main, Raises
<1>7. CASE IngestGets
  BY <1>7 DEF IngestGets, Main, Raises, Returns
<1>8. CASE IngestCommits
  BY <1>8 DEF IngestCommits, Main
<1>9. CASE IngestRaises
  BY <1>9 DEF IngestRaises, Main, Raises
<1>10. CASE CollectDone
  BY <1>10 DEF CollectDone, Main, Returns
<1>11. CASE CollectRaises
  BY <1>11 DEF CollectRaises, Main, Raises
<1>12. CASE MarkGets
  BY <1>12 DEF MarkGets, Main, Returns
<1>13. CASE MarkCommits
  BY <1>13 DEF MarkCommits, Main, Returns
<1>14. CASE MarkRaises
  BY <1>14 DEF MarkRaises, Main, Returns
<1>15. CASE ThreadEnds
  BY <1>15 DEF ThreadEnds, Main
<1>16. CASE RunReturns
  BY <1>16 DEF RunReturns, Main
<1>17. CASE RunRaises
  BY <1>17 DEF RunRaises, Main, Raises
<1>18. CASE RunCancelled
  BY <1>18 DEF RunCancelled, Main
<1>19. CASE Pruned
  BY <1>19 DEF Pruned
<1>20. CASE Crash
  BY <1>20 DEF Crash, Main
<1>21. ASSUME NEW p \in Pauses, RunPauses(p) PROVE StageFits'
  BY <1>21 DEF RunPauses
<1>22. ASSUME NEW p \in Pauses, PauseReads(p) PROVE StageFits'
  BY <1>22 DEF PauseReads
<1>23. ASSUME NEW p \in Pauses, PauseInserts(p) PROVE StageFits'
  BY <1>23 DEF PauseInserts
<1>24. ASSUME NEW u \in Uploaders, UploadGets(u) PROVE StageFits'
  BY <1>24 DEF UploadGets
<1>25. ASSUME NEW u \in Uploaders, UploadCommits(u) PROVE StageFits'
  BY <1>25 DEF UploadCommits
<1>26. ASSUME NEW u \in Uploaders, UploadRaises(u) PROVE StageFits'
  BY <1>26 DEF UploadRaises
<1>27. ASSUME NEW c \in Cancellers, CancelFinds(c) PROVE StageFits'
  BY <1>27 DEF CancelFinds
<1>28. ASSUME NEW c \in Cancellers, CancelCuts(c) PROVE StageFits'
  BY <1>28 DEF CancelCuts
<1>29. CASE UNCHANGED vars
  BY <1>29 DEF vars
<1>30. QED
  BY <1>1, <1>2, <1>3, <1>4, <1>5, <1>6, <1>7, <1>8, <1>9, <1>10, <1>11, <1>12, <1>13, <1>14, <1>15, <1>16, <1>17, <1>18, <1>19, <1>20, <1>21, <1>22, <1>23, <1>24, <1>25, <1>26, <1>27, <1>28, <1>29
     DEF Next, Creator, MainStep, Run, Pause, Upload, Cancel

(* Nobody else appends between the read and the insert. *)
LEMMA SeqStep ==
  ASSUME TInv, [Next]_vars
  PROVE  SeqFits'
<1> USE CoreTyped DEF TInv, CoreTypes
<1>1. CASE Create
  <2>1. main.at = "off" /\ main' = main /\ pause' = pause
    BY <1>1 DEF Create, CreatorFits
  <2>2. QED
    BY <2>1 DEF SeqFits, CreatorFits
<1>2. CASE Spawn
  <2>1. row' = row /\ ledger' = ledger /\ pause' = pause
    BY <1>2 DEF Spawn, store
  <2>2. main'.at # "insert"
    BY <1>2 DEF Spawn, Main
  <2>3. QED
    BY <2>1, <2>2 DEF SeqFits
<1>3. CASE SpawnRaises
  BY <1>3 DEF SpawnRaises, store, SeqFits
<1>4. CASE MainQueues
  <2>1. row' = row /\ ledger' = ledger /\ pause' = pause
    BY <1>4 DEF MainQueues, store
  <2>2. main'.at # "insert"
    BY <1>4 DEF MainQueues, Mains
  <2>3. QED
    BY <2>1, <2>2 DEF SeqFits
<1>5. CASE EventReads
  <2>1. Len(queue) > 0 /\ queue[1] = "main"
    BY <1>5 DEF EventReads, QueueFits, InQueue
  <2>2. \A p \in Pauses : pause[p].at # "insert"
    BY <2>1, ProveAssumption DEF QueueFits
  <2>3. main'.seq = Len(ledger) + 1 /\ ledger' = ledger /\ pause' = pause
    BY <1>5 DEF EventReads, store, Mains
  <2>4. QED
    BY <2>2, <2>3 DEF SeqFits
<1>6. CASE EventInserts
  <2>1. \A p \in Pauses : pause[p].at # "insert"
    BY <1>6, ProveAssumption DEF EventInserts, QueueFits, Holds
  <2>2. main'.at # "insert" /\ pause' = pause
    BY <1>6 DEF EventInserts, Main, Raises
  <2>3. QED
    BY <2>1, <2>2 DEF SeqFits
<1>7. CASE IngestGets
  <2>1. row' = row /\ ledger' = ledger /\ pause' = pause
    BY <1>7 DEF IngestGets, store
  <2>2. main'.at # "insert"
    BY <1>7 DEF IngestGets, Main, Raises, Returns
  <2>3. QED
    BY <2>1, <2>2 DEF SeqFits
<1>8. CASE IngestCommits
  <2>1. row'.status # "PENDING"
    BY <1>8 DEF IngestCommits, Ingests
  <2>2. QED
    BY <2>1 DEF SeqFits
<1>9. CASE IngestRaises
  <2>1. row' = row /\ ledger' = ledger /\ pause' = pause
    BY <1>9 DEF IngestRaises, store
  <2>2. main'.at # "insert"
    BY <1>9 DEF IngestRaises, Main, Raises
  <2>3. QED
    BY <2>1, <2>2 DEF SeqFits
<1>10. CASE CollectDone
  <2>1. row' = row /\ ledger' = ledger /\ pause' = pause
    BY <1>10 DEF CollectDone, store
  <2>2. main'.at # "insert"
    BY <1>10 DEF CollectDone, Main, Returns
  <2>3. QED
    BY <2>1, <2>2 DEF SeqFits
<1>11. CASE CollectRaises
  <2>1. row' = row /\ ledger' = ledger /\ pause' = pause
    BY <1>11 DEF CollectRaises, store
  <2>2. main'.at # "insert"
    BY <1>11 DEF CollectRaises, Main, Raises
  <2>3. QED
    BY <2>1, <2>2 DEF SeqFits
<1>12. CASE MarkGets
  <2>1. row' = row /\ ledger' = ledger /\ pause' = pause
    BY <1>12 DEF MarkGets, store
  <2>2. main'.at # "insert"
    BY <1>12 DEF MarkGets, Main, Returns, Mains
  <2>3. QED
    BY <2>1, <2>2 DEF SeqFits
<1>13. CASE MarkCommits
  <2>1. row'.status # "PENDING"
    BY <1>13 DEF MarkCommits, Rows
  <2>2. QED
    BY <2>1 DEF SeqFits
<1>14. CASE MarkRaises
  <2>1. row' = row /\ ledger' = ledger /\ pause' = pause
    BY <1>14 DEF MarkRaises, store
  <2>2. main'.at # "insert"
    BY <1>14 DEF MarkRaises, Main, Returns
  <2>3. QED
    BY <2>1, <2>2 DEF SeqFits
<1>15. CASE ThreadEnds
  <2>1. main'.at # "insert" /\ \A p \in Pauses : pause'[p].at # "insert"
    BY <1>15 DEF ThreadEnds, Main
  <2>2. QED
    BY <2>1 DEF SeqFits
<1>16. CASE RunReturns
  <2>1. row' = row /\ ledger' = ledger /\ pause' = pause
    BY <1>16 DEF RunReturns, store
  <2>2. main'.at # "insert"
    BY <1>16 DEF RunReturns, Main
  <2>3. QED
    BY <2>1, <2>2 DEF SeqFits
<1>17. CASE RunRaises
  <2>1. row' = row /\ ledger' = ledger /\ pause' = pause
    BY <1>17 DEF RunRaises, store
  <2>2. main'.at # "insert"
    BY <1>17 DEF RunRaises, Main, Raises
  <2>3. QED
    BY <2>1, <2>2 DEF SeqFits
<1>18. CASE RunCancelled
  <2>1. row' = row /\ ledger' = ledger /\ pause' = pause
    BY <1>18 DEF RunCancelled, store
  <2>2. main'.at # "insert"
    BY <1>18 DEF RunCancelled, Main
  <2>3. QED
    BY <2>1, <2>2 DEF SeqFits
<1>19. CASE Pruned
  <2>1. row'.status # "PENDING"
    BY <1>19 DEF Pruned, Gone
  <2>2. QED
    BY <2>1 DEF SeqFits
<1>20. CASE Crash
  <2>1. main'.at # "insert" /\ \A p \in Pauses : pause'[p].at # "insert"
    BY <1>20 DEF Crash, Main
  <2>2. QED
    BY <2>1 DEF SeqFits
<1>21. ASSUME NEW p \in Pauses, RunPauses(p) PROVE SeqFits'
  <2>1. \A r \in Pauses : pause'[r].at = "insert" => pause'[r] = pause[r]
    BY <1>21 DEF RunPauses
  <2>2. \A r \in Pauses : pause'[r].at = "insert" => pause[r].at = "insert"
    BY <2>1
  <2>3. main' = main /\ row' = row /\ ledger' = ledger
    BY <1>21 DEF RunPauses, store
  <2>4. QED
    BY <2>1, <2>2, <2>3 DEF SeqFits
<1>22. ASSUME NEW p \in Pauses, PauseReads(p) PROVE SeqFits'
  <2>1. Len(queue) > 0 /\ queue[1] = p /\ p # "main"
    BY <1>22, ProveAssumption DEF PauseReads, QueueFits, Asking
  <2>2. main.at # "insert" /\ \A r \in Pauses : r # p => pause[r].at # "insert"
    BY <2>1 DEF QueueFits, Holds
  <2>3. /\ pause'[p].seq = Len(ledger) + 1 /\ \A r \in Pauses : r # p => pause'[r] = pause[r]
        /\ ledger' = ledger /\ main' = main
    BY <1>22 DEF PauseReads, store
  <2>4. QED
    BY <2>2, <2>3 DEF SeqFits
<1>23. ASSUME NEW p \in Pauses, PauseInserts(p) PROVE SeqFits'
  <2>1. queue[1] = p /\ p # "main"
    BY <1>23, ProveAssumption DEF PauseInserts, QueueFits
  <2>2. main.at # "insert" /\ \A r \in Pauses : r # p => pause[r].at # "insert"
    BY <2>1 DEF QueueFits, Holds
  <2>3. \/ pause' = [pause EXCEPT ![p] = [at |-> "done", seq |-> 0]]
        \/ pause' = [pause EXCEPT ![p] = [at |-> "lost", seq |-> 0]]
    BY <1>23 DEF PauseInserts
  <2>4. main' = main /\ \A r \in Pauses : pause'[r].at # "insert"
    <3>1. main' = main
      BY <1>23 DEF PauseInserts
    <3>2. pause'[p].at # "insert" /\ \A r \in Pauses : r # p => pause'[r] = pause[r]
      BY <2>3
    <3>3. QED
      BY <2>2, <3>1, <3>2
  <2>5. QED
    BY <2>2, <2>4 DEF SeqFits
<1>24. ASSUME NEW u \in Uploaders, UploadGets(u) PROVE SeqFits'
  BY <1>24 DEF UploadGets, store, SeqFits
<1>25. ASSUME NEW u \in Uploaders, UploadCommits(u) PROVE SeqFits'
  <2>1. row'.status # "PENDING"
    BY <1>25 DEF UploadCommits, Ingests
  <2>2. QED
    BY <2>1 DEF SeqFits
<1>26. ASSUME NEW u \in Uploaders, UploadRaises(u) PROVE SeqFits'
  BY <1>26 DEF UploadRaises, store, SeqFits
<1>27. ASSUME NEW c \in Cancellers, CancelFinds(c) PROVE SeqFits'
  BY <1>27 DEF CancelFinds, store, SeqFits
<1>28. ASSUME NEW c \in Cancellers, CancelCuts(c) PROVE SeqFits'
  BY <1>28 DEF CancelCuts, store, SeqFits
<1>29. CASE UNCHANGED vars
  BY <1>29 DEF vars, SeqFits
<1>30. QED
  BY <1>1, <1>2, <1>3, <1>4, <1>5, <1>6, <1>7, <1>8, <1>9, <1>10, <1>11, <1>12, <1>13, <1>14, <1>15, <1>16, <1>17, <1>18, <1>19, <1>20, <1>21, <1>22, <1>23, <1>24, <1>25, <1>26, <1>27, <1>28, <1>29
     DEF Next, Creator, MainStep, Run, Pause, Upload, Cancel

(* Nothing comes after the complete event of a proved run. *)
LEMMA ProvedStep ==
  ASSUME TInv, [Next]_vars
  PROVE  (ProvedFits /\ ProvedEndsTimeline)'
<1> USE CoreTyped DEF TInv, CoreTypes
<1>1. CASE Create
  <2>1. row'.verdict # "proved"
    BY <1>1 DEF Create, Gone, NoVerdict, CreatorFits
  <2>2. QED
    BY <2>1 DEF ProvedFits, ProvedEndsTimeline
<1>2. CASE Spawn
  <2>1. row.verdict # "proved"
    BY <1>2 DEF Spawn, ProvedFits, CreatorFits
  <2>2. row' = row
    BY <1>2 DEF Spawn, store
  <2>3. QED
    BY <2>1, <2>2 DEF ProvedFits, ProvedEndsTimeline
<1>3. CASE SpawnRaises
  BY <1>3 DEF SpawnRaises, store, ProvedFits, ProvedEndsTimeline, Last
<1>4. CASE MainQueues
  <2>1. row.verdict # "proved"
    BY <1>4 DEF MainQueues, ProvedFits
  <2>2. row' = row
    BY <1>4 DEF MainQueues, store
  <2>3. QED
    BY <2>1, <2>2 DEF ProvedFits, ProvedEndsTimeline
<1>5. CASE EventReads
  <2>1. row.verdict # "proved"
    BY <1>5 DEF EventReads, ProvedFits
  <2>2. row' = row
    BY <1>5 DEF EventReads, store
  <2>3. QED
    BY <2>1, <2>2 DEF ProvedFits, ProvedEndsTimeline
<1>6. CASE EventInserts
  <2>1. row.verdict # "proved"
    BY <1>6 DEF EventInserts, ProvedFits
  <2>2. row' = row
    BY <1>6 DEF EventInserts, store
  <2>3. QED
    BY <2>1, <2>2 DEF ProvedFits, ProvedEndsTimeline
<1>7. CASE IngestGets
  <2>1. row.verdict # "proved"
    BY <1>7 DEF IngestGets, ProvedFits
  <2>2. row' = row
    BY <1>7 DEF IngestGets, store
  <2>3. QED
    BY <2>1, <2>2 DEF ProvedFits, ProvedEndsTimeline
<1>8. CASE IngestCommits
  <2>1. main.at = "commit" /\ main'.at = "collect" /\ pause' = pause
    BY <1>8 DEF IngestCommits, Main
  <2>2. \A p \in Pauses : pause[p].at \notin Asking
    <3>1. Len(queue) > 0 /\ queue[1] = "main"
      BY <2>1 DEF QueueFits, InQueue, Holds
    <3>2. QED
      BY <2>1, <3>1, Alone DEF InQueue
  <2>3. ledger' = ledger \o <<"ingested", "complete">>
    BY <1>8 DEF IngestCommits, Ingests
  <2>4. ledger'[Len(ledger')] = "complete"
    BY <2>3
  <2>5. QED
    BY <2>1, <2>2, <2>4 DEF ProvedFits, ProvedEndsTimeline, Last
<1>9. CASE IngestRaises
  <2>1. row.verdict # "proved"
    BY <1>9 DEF IngestRaises, ProvedFits
  <2>2. row' = row
    BY <1>9 DEF IngestRaises, store
  <2>3. QED
    BY <2>1, <2>2 DEF ProvedFits, ProvedEndsTimeline
<1>10. CASE CollectDone
  <2>1. row' = row /\ ledger' = ledger /\ pause' = pause
    BY <1>10 DEF CollectDone, store
  <2>2. main'.at \in {"leave", "get", "mark"}
    BY <1>10 DEF CollectDone, Main, Returns
  <2>3. QED
    BY <2>1, <2>2 DEF ProvedFits, ProvedEndsTimeline, Last
<1>11. CASE CollectRaises
  <2>1. row' = row /\ ledger' = ledger /\ pause' = pause
    BY <1>11 DEF CollectRaises, store
  <2>2. main'.at \in {"leave", "get", "mark"}
    BY <1>11 DEF CollectRaises, Main, Raises
  <2>3. QED
    BY <2>1, <2>2 DEF ProvedFits, ProvedEndsTimeline, Last
<1>12. CASE MarkGets
  <2>1. row' = row /\ ledger' = ledger /\ pause' = pause
    BY <1>12 DEF MarkGets, store
  <2>2. main'.at \in {"leave", "get", "mark"}
    BY <1>12 DEF MarkGets, Main, Mains, Returns
  <2>3. QED
    BY <2>1, <2>2 DEF ProvedFits, ProvedEndsTimeline, Last
<1>13. CASE MarkCommits
  <2>1. (row'.verdict = row.verdict /\ row'.status = "CANCELLED") \/ row'.verdict = "ERROR"
    BY <1>13 DEF MarkCommits, Rows
  <2>2. main'.at = "leave" /\ pause' = pause
    BY <1>13 DEF MarkCommits, Main, Returns
  <2>3. QED
    BY <2>1, <2>2 DEF ProvedFits, ProvedEndsTimeline
<1>14. CASE MarkRaises
  <2>1. row' = row /\ ledger' = ledger /\ pause' = pause
    BY <1>14 DEF MarkRaises, store
  <2>2. main'.at \in {"leave", "get", "mark"}
    BY <1>14 DEF MarkRaises, Main, Returns
  <2>3. QED
    BY <2>1, <2>2 DEF ProvedFits, ProvedEndsTimeline, Last
<1>15. CASE ThreadEnds
  <2>1. row' = row /\ ledger' = ledger
    BY <1>15 DEF ThreadEnds, store
  <2>2. main'.at \in {"over", "died"} /\ \A p \in Pauses : pause'[p].at \notin Asking
    BY <1>15 DEF ThreadEnds, Main, Asking
  <2>3. QED
    BY <2>1, <2>2 DEF ProvedFits, ProvedEndsTimeline, Last
<1>16. CASE RunReturns
  <2>1. row.verdict # "proved"
    BY <1>16 DEF RunReturns, ProvedFits
  <2>2. row' = row
    BY <1>16 DEF RunReturns, store
  <2>3. QED
    BY <2>1, <2>2 DEF ProvedFits, ProvedEndsTimeline
<1>17. CASE RunRaises
  <2>1. row.verdict # "proved"
    BY <1>17 DEF RunRaises, ProvedFits
  <2>2. row' = row
    BY <1>17 DEF RunRaises, store
  <2>3. QED
    BY <2>1, <2>2 DEF ProvedFits, ProvedEndsTimeline
<1>18. CASE RunCancelled
  <2>1. row.verdict # "proved"
    BY <1>18 DEF RunCancelled, ProvedFits
  <2>2. row' = row
    BY <1>18 DEF RunCancelled, store
  <2>3. QED
    BY <2>1, <2>2 DEF ProvedFits, ProvedEndsTimeline
<1>19. CASE Pruned
  <2>1. row'.verdict # "proved"
    BY <1>19 DEF Pruned, Gone, NoVerdict
  <2>2. QED
    BY <2>1 DEF ProvedFits, ProvedEndsTimeline
<1>20. CASE Crash
  <2>1. row' = row /\ ledger' = ledger
    BY <1>20 DEF Crash, store
  <2>2. main'.at \in {"over", "died"} /\ \A p \in Pauses : pause'[p].at \notin Asking
    BY <1>20 DEF Crash, Main, Asking
  <2>3. QED
    BY <2>1, <2>2 DEF ProvedFits, ProvedEndsTimeline, Last
<1>21. ASSUME NEW p \in Pauses, RunPauses(p) PROVE (ProvedFits /\ ProvedEndsTimeline)'
  <2>1. row.verdict # "proved"
    BY <1>21 DEF RunPauses, ProvedFits, Asking
  <2>2. row' = row
    BY <1>21 DEF RunPauses, store
  <2>3. QED
    BY <2>1, <2>2 DEF ProvedFits, ProvedEndsTimeline
<1>22. ASSUME NEW p \in Pauses, PauseReads(p) PROVE (ProvedFits /\ ProvedEndsTimeline)'
  <2>1. row.verdict # "proved"
    BY <1>22 DEF PauseReads, ProvedFits, Asking
  <2>2. row' = row
    BY <1>22 DEF PauseReads, store
  <2>3. QED
    BY <2>1, <2>2 DEF ProvedFits, ProvedEndsTimeline
<1>23. ASSUME NEW p \in Pauses, PauseInserts(p) PROVE (ProvedFits /\ ProvedEndsTimeline)'
  <2>1. row.verdict # "proved"
    BY <1>23 DEF PauseInserts, ProvedFits, Asking
  <2>2. row' = row
    BY <1>23 DEF PauseInserts, store
  <2>3. QED
    BY <2>1, <2>2 DEF ProvedFits, ProvedEndsTimeline
<1>24. ASSUME NEW u \in Uploaders, UploadGets(u) PROVE (ProvedFits /\ ProvedEndsTimeline)'
  BY <1>24 DEF UploadGets, store, ProvedFits, ProvedEndsTimeline, Last
<1>25. ASSUME NEW u \in Uploaders, UploadCommits(u) PROVE (ProvedFits /\ ProvedEndsTimeline)'
  <2>1. row'.verdict # "proved"
    BY <1>25 DEF UploadCommits, Ingests
  <2>2. QED
    BY <2>1 DEF ProvedFits, ProvedEndsTimeline
<1>26. ASSUME NEW u \in Uploaders, UploadRaises(u) PROVE (ProvedFits /\ ProvedEndsTimeline)'
  BY <1>26 DEF UploadRaises, store, ProvedFits, ProvedEndsTimeline, Last
<1>27. ASSUME NEW c \in Cancellers, CancelFinds(c) PROVE (ProvedFits /\ ProvedEndsTimeline)'
  BY <1>27 DEF CancelFinds, store, ProvedFits, ProvedEndsTimeline, Last
<1>28. ASSUME NEW c \in Cancellers, CancelCuts(c) PROVE (ProvedFits /\ ProvedEndsTimeline)'
  BY <1>28 DEF CancelCuts, store, ProvedFits, ProvedEndsTimeline, Last
<1>29. CASE UNCHANGED vars
  BY <1>29 DEF vars, ProvedFits, ProvedEndsTimeline, Last
<1>30. QED
  BY <1>1, <1>2, <1>3, <1>4, <1>5, <1>6, <1>7, <1>8, <1>9, <1>10, <1>11, <1>12, <1>13, <1>14, <1>15, <1>16, <1>17, <1>18, <1>19, <1>20, <1>21, <1>22, <1>23, <1>24, <1>25, <1>26, <1>27, <1>28, <1>29
     DEF Next, Creator, MainStep, Run, Pause, Upload, Cancel

(* The invariant of the ledger holds at first. *)
LEMMA InitTInv == Init => TInv
<1> SUFFICES ASSUME Init PROVE TInv
  OBVIOUS
<1>1. row = [status |-> "absent", verdict |-> "none", stored |-> FALSE, targets |-> FALSE]
  BY DEF Init, Gone, NoVerdict
<1>2. row \in Rows
  BY <1>1 DEF Rows, Verdicts, NoVerdict
<1>3. active \in BOOLEAN /\ cut \in BOOLEAN
  BY Zenon DEF Init
<1>4. TypeOK
  BY <1>2, <1>3 DEF Init, TypeOK
<1>5. QueueFits
  BY DEF Init, QueueFits, InQueue, Holds, Asking
<1>6. CreatorFits /\ StageFits /\ SeqFits
  BY DEF Init, CreatorFits, StageFits, SeqFits
<1>7. ProvedFits /\ ProvedEndsTimeline
  BY <1>1 DEF ProvedFits, ProvedEndsTimeline
<1>8. QED
  BY <1>4, <1>5, <1>6, <1>7 DEF TInv

(* And every step keeps it. *)
LEMMA NextTInv == TInv /\ [Next]_vars => TInv'
<1> SUFFICES ASSUME TInv, [Next]_vars PROVE TInv'
  OBVIOUS
<1>1. TypeOK'
  BY RowTyped, MainTyped, LedgerTyped, QueueTyped, PausesTyped, RequestsTyped, FlagsTyped
     DEF TypeOK, Mains, Events
<1>2. QED
  BY <1>1, QueueStep, CreatorStep, StageStep, SeqStep, ProvedStep DEF TInv

(* The row, the ledger, the tasks and the requests have their types, whatever  *)
(* is uploaded, cancelled, pruned or fails.                                    *)
THEOREM ProveTypeCorrect == Spec => []TypeOK
BY InitTInv, NextTInv, PTL DEF Spec, TInv

(* A COMPLETE row with the verdict of the local prove never has a timeline     *)
(* that ends mid-ingestion (ingest.py commits row and events together, and the *)
(* pauses are all ahead of the coroutine in the ledger lock).                  *)
THEOREM TimelineEnds == Spec => []ProvedEndsTimeline
BY InitTInv, NextTInv, PTL DEF Spec, TInv

(* The seq that an event read is still free when it inserts, as long as the    *)
(* run is PENDING (ledger.py, append_run_event under the ledger lock).         *)
THEOREM SeqIsFree == Spec => []SeqStaysFree
<1>1. TInv => SeqStaysFree
  BY DEF TInv, SeqFits, SeqStaysFree, Lands
<1>2. QED
  BY <1>1, InitTInv, NextTInv, PTL DEF Spec

-----------------------------------------------------------------------------
(***************************************************************************)
(* One ingest.  A bundle with targets can be ingested only into a run that *)
(* has none: what the unique positions of a run's targets refuse.          *)
(***************************************************************************)

NoneIn(evs) == \A i \in 1 .. Len(evs) : evs[i] # "ingested"

(* A run without targets has ingested nothing yet. *)
IngestFits == OneIngest /\ (~row.targets => NoneIn(ledger))

(* An event of another kind does not count. *)
LEMMA OtherEvent ==
  ASSUME IngestFits, ledger \in Seq(Events), NEW e \in Events, e # "ingested",
         ledger' = Append(ledger, e), row'.targets = row.targets
  PROVE  IngestFits'
BY AppendFacts DEF IngestFits, OneIngest, NoneIn

(* The first ingest is the only one. *)
LEMMA FirstIngest ==
  ASSUME IngestFits, TInv, ~EmptyBundles, NEW v, NEW t \in BOOLEAN,
         \/ Ingests(v, t, <<"ingested">>)
         \/ Ingests(v, t, <<"ingested", "complete">>)
  PROVE  IngestFits'
<1>1. ledger \in Seq(Events) /\ row \in Rows
  BY CoreTyped DEF CoreTypes
<1>2. t /\ ~row.targets
  BY ProveAssumption DEF Ingests
<1>3. NoneIn(ledger)
  BY <1>2 DEF IngestFits
<1>4. row'.targets = TRUE
  <2>1. PICK b, d : /\ b = TRUE /\ d = (t \/ row.targets)
                    /\ row' = [status |-> "COMPLETE", verdict |-> v, stored |-> b, targets |-> d]
    BY Zenon DEF Ingests
  <2>2. row'.targets = d
    BY <2>1
  <2>3. d = TRUE
    BY <1>2, <2>1
  <2> QED BY <2>2, <2>3
<1>5. \A i \in 1 .. Len(ledger') : ledger'[i] = "ingested" => i = Len(ledger) + 1
  <2>1. CASE ledger' = ledger \o <<"ingested">>
    BY <1>1, <1>3, <2>1 DEF NoneIn
  <2>2. CASE ledger' = ledger \o <<"ingested", "complete">>
    BY <1>1, <1>3, <2>2 DEF NoneIn
  <2> QED BY <2>1, <2>2 DEF Ingests
<1> QED BY <1>4, <1>5 DEF IngestFits, OneIngest

(* Every step keeps it. *)
LEMMA IngestStep ==
  ASSUME TInv, IngestFits, [Next]_vars, ~EmptyBundles
  PROVE  IngestFits'
<1>0. ledger \in Seq(Events) /\ row \in Rows
  BY CoreTyped DEF CoreTypes
<1>1. row' = row /\ ledger' = ledger => IngestFits'
  BY DEF IngestFits, OneIngest, NoneIn
<1>2. CASE Create
  <2>1. ledger' = <<"started">>
    BY <1>2 DEF Create
  <2> QED BY <2>1 DEF IngestFits, OneIngest, NoneIn
<1>3. CASE Spawn \/ SpawnRaises
  BY <1>1, <1>3 DEF Spawn, SpawnRaises, store
<1>4. CASE MainQueues \/ EventReads \/ IngestGets \/ IngestRaises \/ CollectDone \/ CollectRaises
  BY <1>1, <1>4 DEF MainQueues, EventReads, IngestGets, IngestRaises, CollectDone,
                    CollectRaises, store
<1>5. CASE MarkGets \/ MarkRaises \/ ThreadEnds \/ Crash \/ RunCancelled
  BY <1>1, <1>5 DEF MarkGets, MarkRaises, ThreadEnds, Crash, RunCancelled, store
<1>6. CASE Run
  BY <1>1, <1>6 DEF Run, RunReturns, RunRaises, RunPauses, store
<1>7. CASE EventInserts
  <2>1. row' = row /\ main.stage \in {"proving", "ingesting"}
    BY <1>7 DEF EventInserts, TInv, StageFits
  <2>2. ledger' = ledger \/ ledger' = Append(ledger, main.stage)
    BY <1>7 DEF EventInserts
  <2> QED BY <1>0, <1>1, <2>1, <2>2, OtherEvent DEF Events
<1>8. CASE IngestCommits
  BY <1>8, FirstIngest DEF IngestCommits
<1>9. CASE MarkCommits
  <2>1. main.stage \in {"cancelled", "error"}
    BY <1>9 DEF MarkCommits, TInv, StageFits
  <2>2. row'.targets = row.targets
    BY <1>0, <1>9 DEF MarkCommits, Rows
  <2>3. ledger' = Append(ledger, main.stage)
    BY <1>9 DEF MarkCommits
  <2> QED BY <1>0, <2>1, <2>2, <2>3, OtherEvent DEF Events
<1>10. CASE Pruned
  BY <1>10 DEF Pruned, IngestFits, OneIngest, NoneIn
<1>11. ASSUME NEW p \in Pauses, Pause(p) PROVE IngestFits'
  <2>1. row' = row /\ (ledger' = ledger \/ ledger' = Append(ledger, "paused"))
    BY <1>11 DEF Pause, PauseReads, PauseInserts, store
  <2> QED BY <1>0, <1>1, <2>1, OtherEvent DEF Events
<1>12. ASSUME NEW u \in Uploaders, Upload(u) PROVE IngestFits'
  BY <1>1, <1>12, FirstIngest DEF Upload, UploadGets, UploadCommits, UploadRaises, store
<1>13. ASSUME NEW c \in Cancellers, Cancel(c) PROVE IngestFits'
  BY <1>1, <1>13 DEF Cancel, CancelFinds, CancelCuts, store
<1>14. CASE UNCHANGED vars
  BY <1>1, <1>14 DEF vars
<1> QED
  BY <1>2, <1>3, <1>4, <1>5, <1>6, <1>7, <1>8, <1>9, <1>10, <1>11, <1>12, <1>13, <1>14
     DEF Next, Creator, MainStep

(* A run ingests at most one bundle, however many uploads read it as PENDING   *)
(* and however they overlap with its own prove (ingest.py, the unique target   *)
(* positions of _ingest_targets).  A bundle without targets collides with      *)
(* nothing, hence the assumption.                                              *)
THEOREM IngestsOnce ==
  ASSUME ~EmptyBundles
  PROVE  Spec => []OneIngest
<1>1. Init => IngestFits
  BY DEF Init, IngestFits, OneIngest, NoneIn
<1>2. TInv /\ IngestFits /\ [Next]_vars => IngestFits'
  BY IngestStep
<1>3. IngestFits => OneIngest
  BY DEF IngestFits
<1> QED
  BY <1>1, <1>2, <1>3, InitTInv, NextTInv, PTL DEF Spec

-----------------------------------------------------------------------------
(***************************************************************************)
(* The lifecycle.  Only four kinds of step write the row once it is there: *)
(* the ingest, the marks, an upload and the pruning.                       *)
(***************************************************************************)

(* Where the coroutine may still claim the verdict. *)
Working == {"off", "call", "wait", "insert", "running", "commit"}

(* The invariant holds at first. *)
LEMMA InitLInv == Init => LInv
BY DEF Init, Gone, NoVerdict, LInv, Claimless

(* What LInv asks for after a step that leaves the row alone. *)
LEMMA IdleKeeps ==
  ASSUME LInv, row' = row,
         \/ main'.at \in Working /\ main.at \in Working
         \/ main'.at = "get" /\ main.at \in Working
         \/ main'.at = "get" /\ main.at = "collect" /\ main'.stage = "error"
         \/ main'.at = "mark" /\ main.at = "get" /\ main'.stage = main.stage
         \/ main'.at \in {"leave", "over", "died"}
         \/ main' = main
  PROVE  LInv'
BY DEF LInv, Claimless, Working

(* Every step keeps it. *)
LEMMA NextLInv ==
  ASSUME TInv, LInv, [Next]_vars
  PROVE  LInv'
<1>0. row \in Rows /\ main \in Mains
  BY CoreTyped DEF CoreTypes
<1> USE DEF Working
<1>1. CASE Create
  BY <1>0, <1>1 DEF Create, TInv, CreatorFits, Gone, NoVerdict, LInv, Claimless, Rows
<1>2. CASE Spawn \/ SpawnRaises
  <2>1. main.at = "off" /\ row' = row /\ (main'.at = "call" \/ main' = main)
    BY <1>2 DEF Spawn, SpawnRaises, Main, store, TInv, CreatorFits
  <2> QED BY <2>1, IdleKeeps
<1>3. CASE MainQueues \/ EventReads
  <2>1. row' = row /\ main.at \in {"call", "wait"} /\ main'.at \in {"wait", "insert"}
    BY <1>0, <1>3 DEF MainQueues, EventReads, store, Mains
  <2> QED BY <2>1, IdleKeeps
<1>4. CASE EventInserts
  <2>1. row' = row /\ main.at = "insert" /\ main'.at \in {"running", "call", "get"}
    BY <1>4 DEF EventInserts, Main, Raises
  <2> QED BY <2>1, IdleKeeps
<1>5. CASE RunReturns \/ RunRaises \/ RunCancelled
  <2>1. row' = row /\ main.at = "running" /\ main'.at \in {"call", "get"}
    BY <1>5 DEF RunReturns, RunRaises, RunCancelled, Main, Raises, store
  <2> QED BY <2>1, IdleKeeps
<1>6. CASE IngestGets \/ IngestRaises
  <2>1. row' = row /\ main.at \in {"wait", "commit"} /\ main'.at \in {"commit", "leave", "get"}
    BY <1>6 DEF IngestGets, IngestRaises, Main, Raises, Returns, store
  <2> QED BY <2>1, IdleKeeps
<1>7. CASE IngestCommits
  <2>1. main'.at = "collect" /\ row'.status = "COMPLETE"
    BY <1>7 DEF IngestCommits, Ingests, Main
  <2> QED BY <2>1 DEF LInv
<1>8. CASE CollectDone \/ CollectRaises
  <2>1. /\ row' = row /\ main.at = "collect"
        /\ main'.at = "leave" \/ (main'.at = "get" /\ main'.stage = "error")
    BY <1>8 DEF CollectDone, CollectRaises, Main, Returns, Raises, store
  <2> QED BY <2>1, IdleKeeps
<1>9. CASE MarkGets
  <2>1. /\ row' = row /\ main.at = "get"
        /\ main'.at = "leave" \/ (main'.at = "mark" /\ main'.stage = main.stage)
    BY <1>0, <1>9 DEF MarkGets, Main, Returns, store, Mains
  <2> QED BY <2>1, IdleKeeps
<1>10. CASE MarkCommits \/ MarkRaises \/ ThreadEnds \/ Crash
  <2>1. main'.at \in {"leave", "over", "died"}
    BY <1>10 DEF MarkCommits, MarkRaises, ThreadEnds, Crash, Main, Returns
  <2> QED BY <2>1 DEF LInv
<1>11. CASE Pruned
  BY <1>11 DEF Pruned, Gone, NoVerdict, LInv, Claimless
<1>12. ASSUME NEW p \in Pauses, RunPauses(p) \/ Pause(p) PROVE LInv'
  <2>1. row' = row /\ main' = main
    BY <1>12 DEF RunPauses, Pause, PauseReads, PauseInserts, store
  <2> QED BY <2>1, IdleKeeps
<1>13. ASSUME NEW u \in Uploaders, UploadGets(u) \/ UploadRaises(u) PROVE LInv'
  <2>1. row' = row /\ main' = main
    BY <1>13 DEF UploadGets, UploadRaises, store
  <2> QED BY <2>1, IdleKeeps
<1>14. ASSUME NEW u \in Uploaders, UploadCommits(u) PROVE LInv'
  <2>1. main' = main /\ row'.status = "COMPLETE" /\ row'.verdict = "uploaded"
    BY <1>14 DEF UploadCommits, Ingests
  <2> QED BY <2>1 DEF LInv, Claimless
<1>15. ASSUME NEW c \in Cancellers, Cancel(c) PROVE LInv'
  <2>1. row' = row /\ main' = main
    BY <1>15 DEF Cancel, CancelFinds, CancelCuts, store
  <2> QED BY <2>1, IdleKeeps
<1>16. CASE UNCHANGED vars
  BY <1>16, IdleKeeps DEF vars
<1> QED
  BY <1>1, <1>2, <1>3, <1>4, <1>5, <1>6, <1>7, <1>8, <1>9, <1>10, <1>11, <1>12, <1>13, <1>14,
     <1>15, <1>16 DEF Next, Creator, MainStep, Run, Upload

(* A step is a step of the lifecycle, or leaves status and verdict alone. *)
LEMMA NextLifecycle ==
  ASSUME TInv, LInv, [Next]_vars
  PROVE  [Lifecycle!Next]_<<row.status, row.verdict>>
<1>0. row \in Rows
  BY CoreTyped DEF CoreTypes
<1> USE DEF Lifecycle!Next, Lifecycle!Live, Lifecycle!Unclaimed
<1> DEFINE Abs == [Lifecycle!Next]_<<row.status, row.verdict>>
<1>1. row' = row => Abs
  OBVIOUS
<1>2. CASE Create
  BY <1>0, <1>2 DEF Create, TInv, CreatorFits, Gone, NoVerdict, Rows, Lifecycle!Open
<1>3. CASE IngestCommits
  <2>1. row.status \in {"PENDING", "COMPLETE"} /\ row.verdict \in {NoVerdict, "uploaded"}
    BY <1>0, <1>3 DEF IngestCommits, Ingests, LInv, Claimless, TInv, CreatorFits, Rows
  <2>2. row'.status = "COMPLETE" /\ row'.verdict = "proved"
    BY <1>3 DEF IngestCommits, Ingests
  <2> QED BY <2>1, <2>2 DEF Lifecycle!Prove
<1>4. CASE MarkCommits
  <2>1. row.status \in {"PENDING", "COMPLETE"}
    BY <1>0, <1>4 DEF MarkCommits, LInv, TInv, CreatorFits, Rows
  <2>2. CASE main.stage = "cancelled"
    <3>1. row'.status = "CANCELLED" /\ row'.verdict = row.verdict
      BY <1>0, <1>4, <2>2 DEF MarkCommits, Rows
    <3>2. row.verdict \in {NoVerdict, "uploaded"}
      BY <1>4, <2>2 DEF MarkCommits, LInv, Claimless
    <3> QED BY <2>1, <3>1, <3>2 DEF Lifecycle!Cancel
  <2>3. CASE main.stage # "cancelled"
    <3>1. row'.status = "COMPLETE" /\ row'.verdict = "ERROR"
      BY <1>0, <1>4, <2>3 DEF MarkCommits, Rows
    <3> QED BY <2>1, <3>1 DEF Lifecycle!Fail
  <2> QED BY <2>2, <2>3
<1>5. CASE Pruned
  BY <1>5 DEF Pruned, Gone, NoVerdict, Lifecycle!Prune
<1>6. ASSUME NEW u \in Uploaders, UploadCommits(u) PROVE Abs
  <2>1. row.status \in {"PENDING", "COMPLETE", "CANCELLED"}
    BY <1>0, <1>6 DEF UploadCommits, Ingests, TInv, CreatorFits, Rows
  <2>2. row'.status = "COMPLETE" /\ row'.verdict = "uploaded"
    BY <1>6 DEF UploadCommits, Ingests
  <2> QED BY <2>1, <2>2 DEF Lifecycle!Upload
<1>7. CASE Spawn \/ SpawnRaises \/ MainQueues \/ EventReads \/ EventInserts \/ IngestGets
  BY <1>1, <1>7 DEF Spawn, SpawnRaises, MainQueues, EventReads, EventInserts, IngestGets, store
<1>8. CASE IngestRaises \/ CollectDone \/ CollectRaises \/ MarkGets \/ MarkRaises \/ ThreadEnds
  BY <1>1, <1>8 DEF IngestRaises, CollectDone, CollectRaises, MarkGets, MarkRaises, ThreadEnds,
                    store
<1>9. CASE Run \/ RunCancelled \/ Crash
  BY <1>1, <1>9 DEF Run, RunReturns, RunRaises, RunPauses, RunCancelled, Crash, store
<1>10. CASE \E p \in Pauses : Pause(p)
  BY <1>1, <1>10 DEF Pause, PauseReads, PauseInserts, store
<1>11. ASSUME NEW u \in Uploaders, UploadGets(u) \/ UploadRaises(u) PROVE Abs
  BY <1>1, <1>11 DEF UploadGets, UploadRaises, store
<1>12. CASE \E c \in Cancellers : Cancel(c)
  BY <1>1, <1>12 DEF Cancel, CancelFinds, CancelCuts, store
<1>13. CASE UNCHANGED vars
  BY <1>1, <1>13 DEF vars
<1> QED
  BY <1>2, <1>3, <1>4, <1>5, <1>6, <1>7, <1>8, <1>9, <1>10, <1>11, <1>12, <1>13
     DEF Next, Creator, MainStep, Upload

(* The run row implements RunLifecycle, whatever uploads, cancels, pauses,     *)
(* failures (after the commit of the ingest, too), prunes and crashes          *)
(* interleave: a run that was cancelled never claims the verdict of its prove, *)
(* and one that claims it is never marked CANCELLED (localprove.py,            *)
(* _prove_and_ingest, _mark_cancelled, _mark_error).                           *)
THEOREM ProveKeepsLifecycle == Spec => KeepsLifecycle
<1>1. Init => Lifecycle!Init
  BY DEF Init, Gone, NoVerdict, Lifecycle!Init
<1>2. TInv /\ LInv /\ [Next]_vars => LInv'
  BY NextLInv
<1>3. TInv /\ LInv /\ [Next]_vars => [Lifecycle!Next]_<<row.status, row.verdict>>
  BY NextLifecycle
<1> QED
  BY <1>1, <1>2, <1>3, InitLInv, InitTInv, NextTInv, PTL DEF Spec, KeepsLifecycle, Lifecycle!Spec
=============================================================================
