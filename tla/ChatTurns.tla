------------------------------ MODULE ChatTurns ------------------------------
(***************************************************************************)
(* The engine's streamed chat turns (tempest_api/chatturn.py) for one      *)
(* stream id: the job in the registry with its in-memory frame ledger, the *)
(* thread that streams the model's answer into it, the platform store's    *)
(* turns row and turn_events, the death of the process and the             *)
(* reconciliation that a later reader performs.                            *)
(*                                                                         *)
(* A frame is its kind: "open" stands for the opening frames, which are    *)
(* appended and committed together, "delta" for one text delta, "final"    *)
(* for the terminal frame.                                                 *)
(***************************************************************************)
EXTENDS Naturals, Sequences, FiniteSets

CONSTANTS MaxTurns,     \* turns started on this stream id
          MaxDeltas,    \* deltas of one turn
          MaxCrashes    \* deaths of the engine process

ASSUME ChatBounds == MaxTurns \in Nat /\ MaxDeltas \in Nat /\ MaxCrashes \in Nat

VARIABLES alive,      \* the engine process is up
          crashes,    \* how often it died
          turn,       \* turns started so far; the newest one's number
          job,        \* _jobs[stream_id], or NoJob
          worker,     \* where the turn's thread is
          batch,      \* seqs taken out of job.pending for a commit under way
          outcome,    \* the status that the finishing turn will have
          row,        \* the store's turns document, or NoRow
          ledger,     \* the store's turn_events documents
          unsaved     \* the commit of a terminal state has failed

engine == <<alive, crashes, turn, job, worker, batch, outcome, row, ledger, unsaved>>

Settled == {"complete", "aborted", "error"}
Kinds == {"open", "delta", "final"}
NoJob == [turn |-> 0]
NoRow == [turn |-> 0, status |-> "unknown"]

\* The opening, the deltas (the note of an empty answer counts as one), the final.
MaxSeq == 1 + (MaxDeltas + 1) + 1

Job == [turn : 1 .. MaxTurns, status : {"active"} \cup Settled,
        frames : Seq(Kinds), pending : SUBSET (1 .. MaxSeq), cancel : BOOLEAN]

EventDoc == [turn : 1 .. MaxTurns, seq : 1 .. MaxSeq, kind : Kinds]

HasJob == job # NoJob
Active == HasJob /\ job.status = "active"

\* The turn_events documents of the frames with these seqs.
Docs(seqs) == {[turn |-> job.turn, seq |-> i, kind |-> job.frames[i]] : i \in seqs}

\* _Job.append: the frame joins the memory ledger and the pending batch.
Appended(j, kind) ==
    [j EXCEPT !.frames = Append(@, kind), !.pending = @ \cup {Len(j.frames) + 1}]

(***************************************************************************)
(* Reads.  A page is a set of events [turn, from, seq, final]: seq is what *)
(* the reader sees, from..seq is the run of raw frames merged into it.     *)
(***************************************************************************)
\* _coalesce_deltas over a ledger given as documents: a run of adjacent deltas becomes one
\* event that carries the run's last seq.
Coalesced(docs) ==
    LET Delta(i) == \E d \in docs : d.seq = i /\ d.kind = "delta"
        Ends(d) == ~(d.kind = "delta" /\ Delta(d.seq + 1))
        From(d) == IF d.kind # "delta" THEN d.seq
                   ELSE CHOOSE i \in 1 .. d.seq :
                            /\ \A k \in i .. d.seq : Delta(k)
                            /\ ~Delta(i - 1)
    IN {[turn |-> d.turn, from |-> From(d), seq |-> d.seq, final |-> d.kind = "final"]
            : d \in {e \in docs : Ends(e)}}

\* events_after while the job is in the registry: frames and status under the job's lock.
JobEvents(after) == Coalesced(Docs((after + 1) .. Len(job.frames)))

\* events_after from the store.
StoreEvents(after) == Coalesced({d \in ledger : d.seq > after})

LastSeq == IF ledger = {} THEN 0 ELSE CHOOSE i \in {d.seq : d \in ledger} :
                                          \A d \in ledger : d.seq <= i

\* _job_or_reconcile found no job: a row that still claims "active" is a dead process's turn.
\* It gets an aborted final behind the last durable frame, in one transaction.
Reconcile ==
    IF row.status = "active"
    THEN /\ row' = [row EXCEPT !.status = "aborted"]
         /\ ledger' = ledger \cup
                        {[turn |-> row.turn, seq |-> LastSeq + 1, kind |-> "final"]}
    ELSE UNCHANGED <<row, ledger>>

(***************************************************************************)
(* start_turn                                                              *)
(***************************************************************************)
\* The reservation and the conflict check are one hold of the registry lock.
Reserve ==
    /\ alive /\ turn < MaxTurns /\ worker = "none" /\ ~Active
    /\ turn' = turn + 1
    /\ job' = [turn |-> turn + 1, status |-> "active", frames |-> <<"open">>,
               pending |-> {1}, cancel |-> FALSE]
    /\ worker' = "open"
    /\ UNCHANGED <<alive, crashes, batch, outcome, row, ledger, unsaved>>

\* The opening commit retires the previous turn's ledger in the same transaction.
OpeningCommit ==
    /\ worker = "open"
    /\ row' = [turn |-> job.turn, status |-> "active"]
    /\ ledger' = Docs(job.pending)
    /\ job' = [job EXCEPT !.pending = {}]
    /\ worker' = "run"
    /\ UNCHANGED <<alive, crashes, turn, batch, outcome, unsaved>>

\* The commit raised: the reservation is taken back and the caller gets the exception.
OpeningFails ==
    /\ worker = "open"
    /\ job' = NoJob
    /\ worker' = "none"
    /\ UNCHANGED <<alive, crashes, turn, batch, outcome, row, ledger, unsaved>>

(***************************************************************************)
(* The turn's thread                                                       *)
(***************************************************************************)
Deltas == Cardinality({i \in 1 .. Len(job.frames) : job.frames[i] = "delta"})

\* One chunk of the answer; _flush_if_due takes the pending batch, or finds it is not due.
Delta ==
    /\ worker = "run" /\ Deltas < MaxDeltas
    /\ LET j == Appended(job, "delta")
       IN \/ job' = j /\ UNCHANGED <<worker, batch>>
          \/ /\ job' = [j EXCEPT !.pending = {}]
             /\ batch' = j.pending
             /\ worker' = "flush"
    /\ UNCHANGED <<alive, crashes, turn, outcome, row, ledger, unsaved>>

FlushCommit ==
    /\ worker = "flush"
    /\ ledger' = ledger \cup Docs(batch)
    /\ batch' = {}
    /\ worker' = "run"
    /\ UNCHANGED <<alive, crashes, turn, job, outcome, row, unsaved>>

\* Mutant of FlushFails: the batch is gone.
FlushFailsDropping ==
    /\ worker = "flush"
    /\ batch' = {}
    /\ worker' = "run"
    /\ UNCHANGED <<alive, crashes, turn, job, outcome, row, ledger, unsaved>>

\* A failed flush puts the batch back, so that the next commit writes it.
FlushFails ==
    /\ worker = "flush"
    /\ job' = [job EXCEPT !.pending = @ \cup batch]
    /\ batch' = {}
    /\ worker' = "run"
    /\ UNCHANGED <<alive, crashes, turn, outcome, row, ledger, unsaved>>

\* The stream is over: complete, failed, or stopped by the cancel event.  A complete turn
\* without an answer gets a note.  _finish then takes everything pending for its commit.
StreamEnds ==
    /\ worker = "run"
    /\ \E how \in Settled :
        /\ how = "aborted" => job.cancel
        /\ outcome' = how
        /\ LET j == IF how = "complete" /\ Deltas = 0 THEN Appended(job, "delta") ELSE job
           IN /\ batch' = j.pending
              /\ job' = [j EXCEPT !.pending = {}]
    /\ worker' = "commit"
    /\ UNCHANGED <<alive, crashes, turn, row, ledger, unsaved>>

\* The terminal commit: what is pending, the final frame and the status, in one transaction.
CommitTerminal ==
    /\ worker = "commit"
    /\ row' = [row EXCEPT !.status = outcome]
    /\ ledger' = ledger \cup Docs(batch)
                    \cup {[turn |-> job.turn, seq |-> Len(job.frames) + 1, kind |-> "final"]}
    /\ batch' = {}
    /\ worker' = "publish"
    /\ UNCHANGED <<alive, crashes, turn, job, outcome, unsaved>>

\* Only a durable terminal state becomes visible to readers.
PublishTerminal ==
    /\ worker = "publish"
    /\ job' = [job EXCEPT !.frames = Append(@, "final"), !.status = outcome, !.cancel = FALSE]
    /\ worker' = "none"
    /\ outcome' = "complete"
    /\ UNCHANGED <<alive, crashes, turn, batch, row, ledger, unsaved>>

\* Mutant of CommitFails: the outcome is published although nothing was saved.
CommitFailsQuietly ==
    /\ worker = "commit"
    /\ job' = [job EXCEPT !.frames = Append(@, "final"), !.status = outcome, !.cancel = FALSE]
    /\ batch' = {}
    /\ worker' = "none"
    /\ outcome' = "complete"
    /\ unsaved' = TRUE
    /\ UNCHANGED <<alive, crashes, turn, row, ledger>>

\* The terminal commit raised: the batch is pending again, for nobody, and an error final
\* is there in memory only.
CommitFails ==
    /\ worker = "commit"
    /\ job' = [job EXCEPT !.frames = Append(@, "final"), !.status = "error", !.cancel = FALSE,
                          !.pending = @ \cup batch]
    /\ batch' = {}
    /\ worker' = "none"
    /\ outcome' = "complete"
    /\ unsaved' = TRUE
    /\ UNCHANGED <<alive, crashes, turn, row, ledger>>

(***************************************************************************)
(* Everything else                                                         *)
(***************************************************************************)
\* cancel_turn
CancelTurn ==
    /\ alive
    /\ IF HasJob
       THEN /\ Active
            /\ job' = [job EXCEPT !.cancel = TRUE]
            /\ UNCHANGED <<row, ledger>>
       ELSE Reconcile /\ UNCHANGED job
    /\ UNCHANGED <<alive, crashes, turn, worker, batch, outcome, unsaved>>

\* _evict_settled_locked, run when turns of other conversations start.
EvictSettled ==
    /\ HasJob /\ job.status \in Settled
    /\ job' = NoJob
    /\ UNCHANGED <<alive, crashes, turn, worker, batch, outcome, row, ledger, unsaved>>

\* The process dies: registry, memory ledger and threads are gone, the store stays.
Crash ==
    /\ alive /\ crashes < MaxCrashes
    /\ alive' = FALSE
    /\ crashes' = crashes + 1
    /\ job' = NoJob
    /\ worker' = "none"
    /\ batch' = {}
    /\ outcome' = "complete"
    /\ UNCHANGED <<turn, row, ledger, unsaved>>

\* The supervisor's respawn.
Restart ==
    /\ ~alive
    /\ alive' = TRUE
    /\ UNCHANGED <<crashes, turn, job, worker, batch, outcome, row, ledger, unsaved>>

Thread == OpeningCommit \/ OpeningFails \/ Delta \/ FlushCommit \/ FlushFails \/ StreamEnds
            \/ CommitTerminal \/ PublishTerminal \/ CommitFails

EngineInit ==
    /\ alive = TRUE
    /\ crashes = 0
    /\ turn = 0
    /\ job = NoJob
    /\ worker = "none"
    /\ batch = {}
    /\ outcome = "complete"
    /\ row = NoRow
    /\ ledger = {}
    /\ unsaved = FALSE

EngineTypeOK ==
    /\ alive \in BOOLEAN /\ unsaved \in BOOLEAN
    /\ crashes \in 0 .. MaxCrashes /\ turn \in 0 .. MaxTurns
    /\ job \in Job \cup {NoJob}
    /\ worker \in {"none", "open", "run", "flush", "commit", "publish"}
    /\ batch \subseteq 1 .. MaxSeq
    /\ outcome \in Settled
    /\ row \in [turn : 1 .. MaxTurns, status : {"active"} \cup Settled] \cup {NoRow}
    /\ ledger \subseteq EventDoc
=============================================================================
