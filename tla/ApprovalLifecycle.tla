-------------------------- MODULE ApprovalLifecycle --------------------------
(***************************************************************************)
(* A platform run that pauses for human review (stream/ApprovalLifecycle.ts)*)
(* on one stream id, with the callers that race on its job record: the     *)
(* runs that pause and persist (agents/client.js, request.js, resume.js),  *)
(* the resume requests, the stop requests (GenerationJobManager.abortJob), *)
(* the expiry sweep and the cleanup of abandoned pause barriers.           *)
(*                                                                         *)
(* The store's transitionStatus is one atomic compare-and-set, guarded by  *)
(* the status and, when given, by the action and the generation.  A read   *)
(* that precedes it is a step of its own wherever the caller keeps what it *)
(* read; where it only refuses earlier what the compare-and-set refuses,   *)
(* the two are one step.  Actions and runs get fresh numbers.              *)
(***************************************************************************)
EXTENDS Integers

CONSTANTS Clients,      \* concurrent resume, stop and expiry requests
          MaxGens,      \* generations created on this stream id
          MaxActions,   \* pauses
          MaxAttempts   \* compare-and-set attempts of one stop request

ASSUME ApprovalBounds ==
    /\ MaxGens \in Nat \ {0} /\ MaxActions \in Nat \ {0} /\ MaxAttempts \in Nat \ {0}

VARIABLES job,      \* the store's job record
          due,      \* the pause barrier is older than PAUSE_PERSISTENCE_TIMEOUT_MS
          lapsed,   \* actions whose expiresAt has passed
          saved,    \* actions whose unfinished response is in the database
          paused,   \* pauses so far; the newest action
          runs,     \* the agent runs, by number
          req,      \* the requests
          answers   \* history: which decision resumed which action, as which run

vars == <<job, due, lapsed, saved, paused, runs, req, answers>>

Terminal == {"complete", "error", "aborted"}
Actions == 1 .. MaxActions
Gens == 1 .. MaxGens

\* One run per generation and one per resumed action.
Runs == 1 .. (MaxGens + MaxActions)

\* pausePersistenceActionId: the id that nobody but the pausing run can name.
Pausing(a) == -a

NoRun == [pc |-> "off", gen |-> 0, act |-> 0]
NoReq == [pc |-> "idle", kind |-> "none", gen |-> 0, act |-> 0, from |-> "none", tries |-> 0]

\* A fresh job record of generation g; mirror is pendingActionId, barrier is
\* terminalPersistencePending.
Fresh(g) == [gen |-> g, status |-> "running", action |-> 0, mirror |-> 0, barrier |-> FALSE]

Barred == job.status = "requires_action" /\ job.barrier
Driving(r) == runs[r].pc = "run"

\* The guard of transitionStatus; 0 stands for an expectation that is not given.
Matches(from, act, gen) ==
    /\ job.status = from
    /\ act # 0 => job.mirror = act
    /\ gen # 0 => job.gen = gen

Cleared(status) == [job EXCEPT !.status = status, !.action = 0, !.mirror = 0]

\* The first run that nobody has used yet.
FreshRun(r) == runs[r].gen = 0 /\ \A q \in Runs : q < r => runs[q].gen # 0

(***************************************************************************)
(* The run                                                                 *)
(***************************************************************************)
\* createJob replaces whatever record is there; a run of the old generation goes on until
\* one of its own transitions is refused.
CreateJob ==
    /\ job.gen < MaxGens
    /\ job' = Fresh(job.gen + 1)
    /\ due' = FALSE
    /\ \E r \in Runs : FreshRun(r) /\
        runs' = [runs EXCEPT ![r] = [pc |-> "run", gen |-> job.gen + 1, act |-> 0]]
    /\ UNCHANGED <<lapsed, saved, paused, req, answers>>

\* pause(..., persistencePending) of a run that was interrupted for review.
Pause(r) ==
    /\ Driving(r) /\ paused < MaxActions
    /\ IF Matches("running", 0, runs[r].gen)
       THEN /\ paused' = paused + 1
            /\ job' = [job EXCEPT !.status = "requires_action", !.action = paused + 1,
                                  !.mirror = Pausing(paused + 1), !.barrier = TRUE]
            /\ due' = FALSE
            /\ runs' = [runs EXCEPT ![r].pc = "own", ![r].act = paused + 1]
       ELSE runs' = [runs EXCEPT ![r].pc = "off"] /\ UNCHANGED <<job, due, paused>>
    /\ UNCHANGED <<lapsed, saved, req, answers>>

\* ownsPausePersistence
Owns(r) ==
    /\ runs[r].pc = "own"
    /\ LET mine == /\ Matches("requires_action", Pausing(runs[r].act), runs[r].gen)
                   /\ job.barrier /\ job.action = runs[r].act
       IN runs' = [runs EXCEPT ![r].pc = IF mine THEN "write" ELSE "off"]
    /\ UNCHANGED <<job, due, lapsed, saved, paused, req, answers>>

\* The unfinished response is saved, or the save fails.
Write(r) ==
    /\ runs[r].pc = "write"
    /\ \/ saved' = saved \cup {runs[r].act} /\ runs' = [runs EXCEPT ![r].pc = "free"]
       \/ UNCHANGED saved /\ runs' = [runs EXCEPT ![r].pc = "fail"]
    /\ UNCHANGED <<job, due, lapsed, paused, req, answers>>

\* finishPausePersistence: the barrier goes, and the action gets its public id.
Free(r) ==
    /\ runs[r].pc = "free"
    /\ job' = IF Matches("requires_action", Pausing(runs[r].act), runs[r].gen)
              THEN [job EXCEPT !.mirror = runs[r].act, !.barrier = FALSE]
              ELSE job
    /\ runs' = [runs EXCEPT ![r].pc = "off"]
    /\ UNCHANGED <<due, lapsed, saved, paused, req, answers>>

\* failPausePersistence: from the barrier state straight to error.
FailPause(r) ==
    /\ runs[r].pc = "fail"
    /\ job' = IF Matches("requires_action", Pausing(runs[r].act), runs[r].gen) /\ job.barrier
              THEN [Cleared("error") EXCEPT !.barrier = FALSE]
              ELSE job
    /\ runs' = [runs EXCEPT ![r].pc = "off"]
    /\ UNCHANGED <<due, lapsed, saved, paused, req, answers>>

\* claimTerminalJob by the run that finished or failed.
Finish(r) ==
    /\ Driving(r)
    /\ IF Matches("running", 0, runs[r].gen)
       THEN \E status \in {"complete", "error"} : job' = [job EXCEPT !.status = status]
       ELSE UNCHANGED job
    /\ runs' = [runs EXCEPT ![r].pc = "off"]
    /\ UNCHANGED <<due, lapsed, saved, paused, req, answers>>

\* The process that the run lives in dies.
Dies(r) ==
    /\ runs[r].pc # "off"
    /\ runs' = [runs EXCEPT ![r].pc = "off"]
    /\ UNCHANGED <<job, due, lapsed, saved, paused, req, answers>>

(***************************************************************************)
(* Time and cleanup                                                        *)
(***************************************************************************)
LeaseEnds ==
    /\ Barred /\ ~due
    /\ due' = TRUE
    /\ UNCHANGED <<job, lapsed, saved, paused, runs, req, answers>>

ActionLapses ==
    /\ job.status = "requires_action" /\ job.action \notin lapsed
    /\ lapsed' = lapsed \cup {job.action}
    /\ UNCHANGED <<job, due, saved, paused, runs, req, answers>>

\* failStalePausePersistence, called by waiters, by the manager's sweep and, with the same
\* fences, by the store's own cleanup.
FailStale ==
    /\ Barred /\ due /\ job.mirror # 0
    /\ job' = [Cleared("error") EXCEPT !.barrier = FALSE]
    /\ UNCHANGED <<due, lapsed, saved, paused, runs, req, answers>>

(***************************************************************************)
(* Requests                                                                *)
(***************************************************************************)
\* A decision on the action that the card shows.
AskResolve(c) ==
    /\ req[c].pc = "idle" /\ job.status = "requires_action" /\ job.action \notin lapsed
    /\ req' = [req EXCEPT ![c] = [NoReq EXCEPT !.pc = "look", !.kind = "resolve",
                                               !.gen = job.gen, !.act = job.action]]
    /\ UNCHANGED <<job, due, lapsed, saved, paused, runs, answers>>

\* The sweep, or a submit that came too late, for the action observed as lapsed.
AskExpire(c) ==
    /\ req[c].pc = "idle" /\ job.status = "requires_action" /\ job.action \in lapsed
    /\ req' = [req EXCEPT ![c] = [NoReq EXCEPT !.pc = "look", !.kind = "expire",
                                               !.gen = job.gen, !.act = job.action]]
    /\ UNCHANGED <<job, due, lapsed, saved, paused, runs, answers>>

\* abortJob, fenced to the generation that the route observed.
AskStop(c) ==
    /\ req[c].pc = "idle" /\ job.status \in {"running", "requires_action"}
    /\ req' = [req EXCEPT ![c] = [NoReq EXCEPT !.pc = "look", !.kind = "stop",
                                               !.gen = job.gen]]
    /\ UNCHANGED <<job, due, lapsed, saved, paused, runs, answers>>

\* Mutant of Look: nobody waits for the barrier.
LookThrough(c) ==
    /\ req[c].pc = "look"
    /\ LET q == req[c]
           stops == q.kind = "stop" /\ job.status \in {"running", "requires_action"}
       IN req' = [req EXCEPT ![c] =
            CASE job.gen # q.gen -> NoReq
              [] job.gen = q.gen /\ stops ->
                    [q EXCEPT !.pc = "cas", !.from = job.status,
                              !.act = IF job.status = "requires_action" THEN job.mirror ELSE 0]
              [] job.gen = q.gen /\ ~stops /\ q.kind # "stop" ->
                    [q EXCEPT !.pc = "cas", !.from = "requires_action"]
              [] OTHER -> NoReq]
    /\ UNCHANGED <<job, due, lapsed, saved, paused, runs, answers>>

\* Mutant of Look: a caller whose job has moved on keeps waiting for it.
LookAgain(c) ==
    /\ req[c].pc = "look" /\ job.gen = req[c].gen /\ job.status = "requires_action" /\ ~job.barrier
    /\ req' = [req EXCEPT ![c].pc = "cas", ![c].from = "requires_action",
                          ![c].act = IF req[c].kind = "stop" THEN job.mirror ELSE @]
    /\ UNCHANGED <<job, due, lapsed, saved, paused, runs, answers>>

\* waitForPausePersistence let the caller through; what it read decides what comes next.
\* (A snapshot, as Redis returns it; the in-memory store hands out the live record, which
\* only makes the action id that abortJob compares with newer.)
\* A caller that meets a barrier stays, and may find the lease over (FailStale).
Look(c) ==
    /\ req[c].pc = "look"
    /\ ~(Barred /\ job.gen = req[c].gen)
    /\ LET q == req[c]
           reads == IF q.kind = "stop" THEN {"running", "requires_action"} ELSE {"requires_action"}
           lost == job.gen # q.gen \/ job.status \notin reads
           \* abortJob's second thoughts: nothing changed, so trying again is pointless
           same == q.tries > 0 /\ job.status = q.from /\ (q.from = "requires_action" => job.mirror = q.act)
       IN req' = [req EXCEPT ![c] =
            CASE lost \/ (q.kind = "stop" /\ same) -> NoReq
              [] ~lost /\ q.kind = "resolve" /\ job.action \in lapsed -> [q EXCEPT !.kind = "expire"]
              [] ~lost /\ q.kind = "stop" /\ ~same ->
                    [q EXCEPT !.pc = "cas", !.from = job.status,
                              !.act = IF job.status = "requires_action" THEN job.mirror ELSE 0]
              [] OTHER -> [q EXCEPT !.pc = "cas", !.from = "requires_action"]]
    /\ UNCHANGED <<job, due, lapsed, saved, paused, runs, answers>>

\* Mutant of Resolve: what Look read is taken for granted.
ResolveUnchecked(c) ==
    /\ req[c].pc = "cas" /\ req[c].kind = "resolve"
    /\ job' = Cleared("running")
    /\ \E r \in Runs : FreshRun(r)
        /\ runs' = [runs EXCEPT ![r] = [pc |-> "run", gen |-> job.gen, act |-> 0]]
        /\ answers' = answers \cup
                {[decided |-> req[c].act, paused |-> job.action, run |-> r]}
    /\ req' = [req EXCEPT ![c] = NoReq]
    /\ UNCHANGED <<due, lapsed, saved, paused>>

\* Mutant of Resolve: the action is not compared, only that one is open.
ResolveAnyAction(c) ==
    /\ req[c].pc = "cas" /\ req[c].kind = "resolve"
    /\ IF Matches("requires_action", 0, req[c].gen) /\ ~job.barrier
       THEN /\ job' = Cleared("running")
            /\ \E r \in Runs : FreshRun(r)
                /\ runs' = [runs EXCEPT ![r] = [pc |-> "run", gen |-> job.gen, act |-> 0]]
                /\ answers' = answers \cup
                        {[decided |-> req[c].act, paused |-> job.action, run |-> r]}
       ELSE UNCHANGED <<job, runs, answers>>
    /\ req' = [req EXCEPT ![c] = NoReq]
    /\ UNCHANGED <<due, lapsed, saved, paused>>

\* resolve's compare-and-set: the one winner becomes the next run of the generation.
Resolve(c) ==
    /\ req[c].pc = "cas" /\ req[c].kind = "resolve"
    /\ IF Matches("requires_action", req[c].act, req[c].gen)
       THEN /\ job' = Cleared("running")
            /\ \E r \in Runs : FreshRun(r)
                /\ runs' = [runs EXCEPT ![r] = [pc |-> "run", gen |-> job.gen, act |-> 0]]
                /\ answers' = answers \cup
                        {[decided |-> req[c].act, paused |-> job.action, run |-> r]}
       ELSE UNCHANGED <<job, runs, answers>>
    /\ req' = [req EXCEPT ![c] = NoReq]
    /\ UNCHANGED <<due, lapsed, saved, paused>>

\* expire's
Expire(c) ==
    /\ req[c].pc = "cas" /\ req[c].kind = "expire"
    /\ job' = IF Matches("requires_action", req[c].act, req[c].gen)
              THEN Cleared("aborted") ELSE job
    /\ req' = [req EXCEPT ![c] = NoReq]
    /\ UNCHANGED <<due, lapsed, saved, paused, runs, answers>>

\* abortJob's: the job keeps its record and owes the stopped response's persistence; a lost
\* race is looked at again, up to three attempts.
Stop(c) ==
    /\ req[c].pc = "cas" /\ req[c].kind = "stop"
    /\ IF Matches(req[c].from, req[c].act, req[c].gen)
       THEN /\ job' = [job EXCEPT !.status = "aborted", !.barrier = TRUE]
            /\ req' = [req EXCEPT ![c] = NoReq]
       ELSE /\ UNCHANGED job
            /\ req' = [req EXCEPT ![c] =
                    IF req[c].tries + 1 = MaxAttempts THEN NoReq
                    ELSE [req[c] EXCEPT !.pc = "look", !.tries = req[c].tries + 1]]
    /\ UNCHANGED <<due, lapsed, saved, paused, runs, answers>>

Init ==
    /\ job = Fresh(1)
    /\ due = FALSE
    /\ lapsed = {}
    /\ saved = {}
    /\ paused = 0
    /\ runs = [r \in Runs |-> IF r = 1 THEN [pc |-> "run", gen |-> 1, act |-> 0] ELSE NoRun]
    /\ req = [c \in Clients |-> NoReq]
    /\ answers = {}

Request(c) == Look(c) \/ Resolve(c) \/ Expire(c) \/ Stop(c)
Ask(c) == AskResolve(c) \/ AskExpire(c) \/ AskStop(c)
Run(r) == Pause(r) \/ Owns(r) \/ Write(r) \/ Free(r) \/ FailPause(r) \/ Finish(r) \/ Dies(r)

Next == CreateJob \/ LeaseEnds \/ ActionLapses \/ FailStale
            \/ (\E r \in Runs : Run(r)) \/ (\E c \in Clients : Ask(c) \/ Request(c))

\* Requests are served, time passes, and the sweep runs periodically.  A run may stay away
\* for ever: its process may be gone.
Fairness ==
    /\ \A c \in Clients : WF_vars(Request(c))
    /\ WF_vars(LeaseEnds) /\ WF_vars(FailStale)

Spec == Init /\ [][Next]_vars /\ Fairness

(***************************************************************************)
(* Properties                                                              *)
(***************************************************************************)
\* Types of the job record, the runs and the requests.
TypeOK ==
    /\ job \in [gen : Gens, status : {"running", "requires_action"} \cup Terminal,
                action : 0 .. MaxActions, mirror : -MaxActions .. MaxActions,
                barrier : BOOLEAN]
    /\ due \in BOOLEAN
    /\ lapsed \subseteq Actions /\ saved \subseteq Actions
    /\ paused \in 0 .. MaxActions
    /\ runs \in [Runs -> [pc : {"off", "run", "own", "write", "free", "fail"},
                          gen : 0 .. MaxGens, act : 0 .. MaxActions]]
    /\ req \in [Clients -> [pc : {"idle", "look", "cas"},
                            kind : {"none", "resolve", "expire", "stop"},
                            gen : 0 .. MaxGens, act : -MaxActions .. MaxActions,
                            from : {"none", "running", "requires_action"},
                            tries : 0 .. MaxAttempts]]
    /\ answers \subseteq [decided : -MaxActions .. MaxActions, paused : 0 .. MaxActions,
                          run : Runs]

\* Two approvals never both drive: of one generation at most one run is executing, whatever
\* resume, stop, expiry and replacement requests race (ApprovalLifecycle: "a double-drive
\* re-executes tools and double-bills").
OneDriver ==
    \A r, q \in Runs :
        Driving(r) /\ Driving(q) /\ runs[r].gen = runs[q].gen => r = q

\* An action is resumed by one decision only, and that decision was taken on this action,
\* not on an earlier one of the same run (resolve's expectActionId).
DecidedOnce ==
    \A x, y \in answers : x.decided = x.paused /\ (x.paused = y.paused => x = y)

\* The paused response is in the database before a resume, a stop or an expiry takes the
\* job out of review: every such path crosses waitForPausePersistence.
SavedBeforeOutcome ==
    [][job.status = "requires_action" /\ job'.gen = job.gen
            /\ job'.status \in {"running", "aborted"} => job.action \in saved]_vars

\* Nobody waits for ever: each request is answered, also when the run that owes the paused
\* response died and its barrier has to time out.
RequestsReturn == \A c \in Clients : req[c].pc # "idle" ~> req[c].pc = "idle"

=============================================================================
