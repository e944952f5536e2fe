---------------------------- MODULE WatchSession ----------------------------
(***************************************************************************)
(* The watch session of one store (tempest_api/watchsession.py): a loop    *)
(* thread polls the repository's HEAD and proves every change of it, while *)
(* the HTTP handlers start and stop the session.                           *)
(*                                                                         *)
(* start() replaces the session's _stop event and _pause_scope, and the    *)
(* loop reads both as attributes of the session.  A GENERATION numbers     *)
(* these pairs: loop g is the thread of the g-th start, and `gen' is the   *)
(* pair every loop, old or new, finds in the session.                      *)
(*                                                                         *)
(* The handlers run on one event loop and do not await inside start() or   *)
(* stop(), so they exclude each other; they interleave with the loops at   *)
(* every lock release.  Every run row carries the loop that created it and *)
(* the generation it found: history, for the properties.                   *)
(***************************************************************************)
EXTENDS Naturals, Sequences, FiniteSets

CONSTANTS Commits,    \* what HEAD can be
          Root,       \* the commit it is at first
          MaxMoves,   \* how often HEAD moves (a bound)
          MaxRuns,    \* how many run rows are created (a bound)
          MaxStarts,  \* how often the session is started (a bound)
          MaxStops    \* how often it is stopped by a handler (a bound)

ASSUME WatchAssumption ==
  /\ Root \in Commits
  /\ MaxMoves \in Nat /\ MaxRuns \in Nat /\ MaxStarts \in Nat /\ MaxStops \in Nat

VARIABLES
  repo,      \* [head, readable, moves]: the repository
  paused,    \* the machine is on battery or hot (power_pause_reason)
  gen,       \* the generation installed in the session, 0 before any start
  stopSet,   \* {gen} if the session's _stop event is set, else {}
  scopeCut,  \* generations whose _pause_scope is cancelled
  state,     \* WatchState: [watching, last, active] (its error text is left out)
  loop,      \* loop[g]: [at, scope, base, head, run], the thread of start g
  runs,      \* the run rows watch created: a sequence of [base, head, by, during]
  prove,     \* prove[r]: row (no thread), active (registered), over
  asked,     \* registered runs whose scope request_cancel() cancelled
  handler    \* [at, sha, run]: the HTTP handler; [stopped, stops]: what it did so far

env == <<repo, paused>>
vars == <<repo, paused, gen, stopSet, scopeCut, state, loop, runs, prove, asked, handler>>

Gens == 1..MaxStarts
None == 0                        \* active_run_id = None
Alive(g) == loop[g].at \notin {"unborn", "dead", "crashed"}
Held == {loop[g].scope : g \in Gens} \ {0}   \* scopes a loop has passed to its hold
Registered == {r \in DOMAIN prove : prove[r] = "active"}

\* A loop at point l whose locals hold nothing that is still used.
Fresh(l) == [at |-> l, scope |-> 0, base |-> Root, head |-> Root, run |-> None]
Idle(stopped) == [handler EXCEPT !.at = "idle", !.sha = Root, !.run = None, !.stopped = stopped]

Goto(g, l) == loop' = [loop EXCEPT ![g].at = l]
Forget(g, l) == loop' = [loop EXCEPT ![g] = Fresh(l)]

Init ==
  /\ repo = [head |-> Root, readable |-> TRUE, moves |-> 0]
  /\ paused = FALSE
  /\ gen = 0 /\ stopSet = {} /\ scopeCut = {}
  /\ state = [watching |-> FALSE, last |-> Root, active |-> None]
  /\ loop = [g \in Gens |-> Fresh("unborn")]
  /\ runs = <<>> /\ prove = <<>> /\ asked = {}
  /\ handler = [at |-> "idle", sha |-> Root, run |-> None, stopped |-> FALSE, stops |-> 0]

-----------------------------------------------------------------------------
(* The handlers. *)

\* start_watch: resolve_local_repo reads HEAD before the session lock is taken.
StartResolve ==
  /\ handler.at = "idle" /\ gen < MaxStarts /\ repo.readable
  /\ handler' = [handler EXCEPT !.at = "resolved", !.sha = repo.head]
  /\ UNCHANGED <<env, gen, stopSet, scopeCut, state, loop, runs, prove, asked>>

\* _Session.start: a fresh event and scope, a fresh state, a new loop thread.  The
\* old event is gone, and so are the old scopes no loop is holding on.
Start ==
  /\ handler.at = "resolved" /\ ~state.watching
  /\ gen' = gen + 1
  /\ state' = [watching |-> TRUE, last |-> handler.sha, active |-> None]
  /\ loop' = [loop EXCEPT ![gen + 1].at = "top"]
  /\ stopSet' = {} /\ scopeCut' = scopeCut \cap Held
  /\ handler' = Idle(FALSE)
  /\ UNCHANGED <<env, runs, prove, asked>>

\* thread.start() raises: the state is published, and no thread is behind it.
StartRaises ==
  /\ handler.at = "resolved" /\ ~state.watching
  /\ gen' = gen + 1
  /\ state' = [watching |-> TRUE, last |-> handler.sha, active |-> None]
  /\ loop' = [loop EXCEPT ![gen + 1].at = "crashed"]
  /\ stopSet' = {} /\ scopeCut' = scopeCut \cap Held
  /\ handler' = Idle(FALSE)
  /\ UNCHANGED <<env, runs, prove, asked>>

\* WatchError: a session is already watching (409).
StartRefused ==
  /\ handler.at = "resolved" /\ state.watching
  /\ handler' = Idle(handler.stopped)
  /\ UNCHANGED <<env, gen, stopSet, scopeCut, state, loop, runs, prove, asked>>

\* _Session.stop, under the lock: note the active run, publish not-watching.
StopMark ==
  /\ handler.at = "idle" /\ handler.stops < MaxStops
  /\ handler' = [handler EXCEPT !.at = "marked", !.run = state.active, !.stops = @ + 1]
  /\ state' = [state EXCEPT !.watching = FALSE]
  /\ UNCHANGED <<env, gen, stopSet, scopeCut, loop, runs, prove, asked>>

StopSet ==
  /\ handler.at = "marked"
  /\ stopSet' = stopSet \cup {gen}
  /\ handler' = [handler EXCEPT !.at = "set"]
  /\ UNCHANGED <<env, gen, scopeCut, state, loop, runs, prove, asked>>

StopScope ==
  /\ handler.at = "set"
  /\ scopeCut' = scopeCut \cup {gen}
  /\ handler' = [handler EXCEPT !.at = "cut"]
  /\ UNCHANGED <<env, gen, stopSet, state, loop, runs, prove, asked>>

\* request_cancel(active_run_id): a run that is not registered is ignored.
StopCancel ==
  /\ handler.at = "cut"
  /\ asked' = asked \cup ({handler.run} \cap Registered)
  /\ handler' = Idle(TRUE)
  /\ UNCHANGED <<env, gen, stopSet, scopeCut, state, loop, runs, prove>>

-----------------------------------------------------------------------------
(* The loop thread of start g. *)

\* while not self._stop.is_set(): the event is the session's current one.
LoopTop(g) ==
  /\ loop[g].at = "top"
  /\ loop' = IF gen \in stopSet
               THEN [loop EXCEPT ![g] = Fresh("exit")]
               ELSE [loop EXCEPT ![g].at = "hold", ![g].scope = gen]
  /\ UNCHANGED <<env, gen, stopSet, scopeCut, state, runs, prove, asked, handler>>

\* Mutant of Hold: the battery hold never looks at the session's scope.
HoldIgnoresScope(g) ==
  /\ loop[g].at = "hold"
  /\ Goto(g, "probe")
  /\ UNCHANGED <<env, gen, stopSet, scopeCut, state, runs, prove, asked, handler>>

\* wait_while_paused: raise_if_cancelled() on the scope passed in ...
Hold(g) ==
  /\ loop[g].at = "hold"
  /\ IF loop[g].scope \in scopeCut THEN Forget(g, "exit") ELSE Goto(g, "probe")
  /\ UNCHANGED <<env, gen, stopSet, scopeCut, state, runs, prove, asked, handler>>

\* ... then the power probe; a pause goes round again.
Probe(g) ==
  /\ loop[g].at = "probe"
  /\ IF paused THEN Goto(g, "hold") ELSE Forget(g, "poll")
  /\ UNCHANGED <<env, gen, stopSet, scopeCut, state, runs, prove, asked, handler>>

\* head_sha(repo); a WatchError ends the loop through _fail.
PollHead(g) ==
  /\ loop[g].at = "poll"
  /\ loop' = IF repo.readable
               THEN [loop EXCEPT ![g].at = "read", ![g].head = repo.head]
               ELSE [loop EXCEPT ![g] = Fresh("fail")]
  /\ UNCHANGED <<env, gen, stopSet, scopeCut, state, runs, prove, asked, handler>>

\* last = self._state.last_sha, compared with the head polled before.
ReadLast(g) ==
  /\ loop[g].at = "read"
  /\ IF loop[g].head # state.last
       THEN loop' = [loop EXCEPT ![g].base = state.last, ![g].at = "create"]
       ELSE Forget(g, "top")
  /\ UNCHANGED <<env, gen, stopSet, scopeCut, state, runs, prove, asked, handler>>

\* create_watch_run commits the PENDING row and its watch.commit event.
CreateWatchRun(g) ==
  /\ loop[g].at = "create" /\ Len(runs) < MaxRuns
  /\ runs' = Append(runs, [base |-> loop[g].base, head |-> loop[g].head,
                           by |-> g, during |-> gen])
  /\ prove' = Append(prove, "row")
  /\ loop' = [loop EXCEPT ![g].at = "take", ![g].run = Len(runs) + 1]
  /\ UNCHANGED <<env, gen, stopSet, scopeCut, state, asked, handler>>

\* The row could not be created: _fail, then back into the loop.
CreateFails(g) ==
  /\ loop[g].at = "create"
  /\ loop' = [loop EXCEPT ![g] = [Fresh("fail") EXCEPT !.run = Len(runs) + 1]]
  /\ UNCHANGED <<env, gen, stopSet, scopeCut, state, runs, prove, asked, handler>>

\* Mutant of Take: the commit is taken when the prove ends, not here.
TakeLater(g) ==
  /\ loop[g].at = "take"
  /\ state' = [state EXCEPT !.active = loop[g].run]
  /\ Goto(g, "spawn")
  /\ UNCHANGED <<env, gen, stopSet, scopeCut, runs, prove, asked, handler>>

\* The commit is TAKEN: last_sha and active_run_id change together.
Take(g) ==
  /\ loop[g].at = "take"
  /\ state' = [state EXCEPT !.last = loop[g].head, !.active = loop[g].run]
  /\ Goto(g, "spawn")
  /\ UNCHANGED <<env, gen, stopSet, scopeCut, runs, prove, asked, handler>>

\* Mutant of SpawnProve: the loop does not wait for the prove it started.
SpawnAndMoveOn(g) ==
  /\ loop[g].at = "spawn"
  /\ prove' = [prove EXCEPT ![loop[g].run] = "active"]
  /\ Forget(g, "clear")
  /\ UNCHANGED <<env, gen, stopSet, scopeCut, state, runs, asked, handler>>

\* spawn_prove_thread registers the run and starts its thread, in one lock.
SpawnProve(g) ==
  /\ loop[g].at = "spawn"
  /\ prove' = [prove EXCEPT ![loop[g].run] = "active"]
  /\ Goto(g, "await")
  /\ UNCHANGED <<env, gen, stopSet, scopeCut, state, runs, asked, handler>>

\* thread.start() raises: the registration is undone and nobody catches the
\* exception, so the loop thread dies as it is.
SpawnRaises(g) ==
  /\ loop[g].at = "spawn"
  /\ Forget(g, "crashed")
  /\ UNCHANGED <<env, gen, stopSet, scopeCut, state, runs, prove, asked, handler>>

\* Mutant of AwaitProve: "or" for "and", so the wait ends only on Stop.
AwaitProveOr(g) ==
  /\ loop[g].at = "await"
  /\ loop[g].run \notin Registered /\ gen \in stopSet
  /\ Forget(g, "clear")
  /\ UNCHANGED <<env, gen, stopSet, scopeCut, state, runs, prove, asked, handler>>

\* while is_prove_active(run_id) and not self._stop.is_set(): sleep
AwaitProve(g) ==
  /\ loop[g].at = "await"
  /\ loop[g].run \notin Registered \/ gen \in stopSet
  /\ Forget(g, "clear")
  /\ UNCHANGED <<env, gen, stopSet, scopeCut, state, runs, prove, asked, handler>>

\* The active run is cleared; self._stop.wait(interval) changes nothing, and
\* timed out or woken the loop goes round.
ClearActive(g) ==
  /\ loop[g].at = "clear"
  /\ state' = [state EXCEPT !.active = None]
  /\ Goto(g, "top")
  /\ UNCHANGED <<env, gen, stopSet, scopeCut, runs, prove, asked, handler>>

\* The end of _loop, which writes the session's CURRENT state.
LoopExit(g) ==
  /\ loop[g].at = "exit"
  /\ state' = [state EXCEPT !.watching = FALSE, !.active = None]
  /\ Goto(g, "dead")
  /\ UNCHANGED <<env, gen, stopSet, scopeCut, runs, prove, asked, handler>>

\* Mutant of FailMark: the active run is cleared, the session still says watching.
FailMarkStillWatching(g) ==
  /\ loop[g].at = "fail"
  /\ state' = [state EXCEPT !.active = None]
  /\ Goto(g, "failset")
  /\ UNCHANGED <<env, gen, stopSet, scopeCut, runs, prove, asked, handler>>

\* _fail: publish under the lock, then set the event, then cancel the scope.
FailMark(g) ==
  /\ loop[g].at = "fail"
  /\ state' = [state EXCEPT !.watching = FALSE, !.active = None]
  /\ Goto(g, "failset")
  /\ UNCHANGED <<env, gen, stopSet, scopeCut, runs, prove, asked, handler>>

FailSet(g) ==
  /\ loop[g].at = "failset"
  /\ stopSet' = stopSet \cup {gen}
  /\ Goto(g, "failscope")
  /\ UNCHANGED <<env, gen, scopeCut, state, runs, prove, asked, handler>>

\* After an unreadable HEAD the loop returns; after a failed row it goes round.
FailScope(g) ==
  /\ loop[g].at = "failscope"
  /\ scopeCut' = scopeCut \cup {gen}
  /\ Forget(g, IF loop[g].run = None THEN "dead" ELSE "top")
  /\ UNCHANGED <<env, gen, stopSet, state, runs, prove, asked, handler>>

-----------------------------------------------------------------------------
(* The repository, the power supply, and the prove threads. *)

HeadMoves(c) ==
  /\ repo.moves < MaxMoves /\ c # repo.head
  /\ repo' = [repo EXCEPT !.head = c, !.moves = @ + 1]
  /\ UNCHANGED <<paused, gen, stopSet, scopeCut, state, loop, runs, prove, asked, handler>>

RepoVanishes ==
  /\ repo.readable
  /\ repo' = [repo EXCEPT !.readable = FALSE]
  /\ UNCHANGED <<paused, gen, stopSet, scopeCut, state, loop, runs, prove, asked, handler>>

PowerChanges ==
  /\ paused' = ~paused
  /\ UNCHANGED <<repo, gen, stopSet, scopeCut, state, loop, runs, prove, asked, handler>>

\* _thread_main: whatever the outcome, the run leaves the registry.
ProveEnds(r) ==
  /\ r \in Registered
  /\ prove' = [prove EXCEPT ![r] = "over"]
  /\ asked' = asked \ {r}
  /\ UNCHANGED <<env, gen, stopSet, scopeCut, state, loop, runs, handler>>

Starting == StartResolve \/ Start \/ StartRaises \/ StartRefused
Stopping == StopSet \/ StopScope \/ StopCancel

LoopStep(g) ==
  \/ LoopTop(g) \/ Hold(g) \/ Probe(g) \/ PollHead(g) \/ ReadLast(g)
  \/ CreateWatchRun(g) \/ CreateFails(g) \/ Take(g)
  \/ SpawnProve(g) \/ SpawnRaises(g) \/ AwaitProve(g) \/ ClearActive(g)
  \/ LoopExit(g) \/ FailMark(g) \/ FailSet(g) \/ FailScope(g)

Next ==
  \/ Starting \/ StopMark \/ Stopping
  \/ \E g \in Gens : LoopStep(g)
  \/ \E c \in Commits : HeadMoves(c)
  \/ RepoVanishes \/ PowerChanges
  \/ \E r \in DOMAIN prove : ProveEnds(r)

Spec == Init /\ [][Next]_vars

\* Threads and handlers keep running; a prove may take as long as it likes.
FairSpec ==
  /\ Spec
  /\ WF_vars(Stopping)
  /\ \A g \in Gens : WF_vars(LoopStep(g))

-----------------------------------------------------------------------------
(* Properties. *)

Points == {"unborn", "top", "hold", "probe", "poll", "read", "create", "take", "spawn",
           "await", "clear", "exit", "fail", "failset", "failscope", "dead",
           "crashed"}

TypeOK ==
  /\ repo \in [head : Commits, readable : BOOLEAN, moves : 0..MaxMoves]
  /\ paused \in BOOLEAN
  /\ gen \in 0..MaxStarts
  /\ stopSet \subseteq 0..MaxStarts /\ scopeCut \subseteq 0..MaxStarts
  /\ state \in [watching : BOOLEAN, last : Commits, active : Nat]
  /\ loop \in [Gens -> [at : Points, scope : 0..MaxStarts, base : Commits,
                        head : Commits, run : Nat]]
  /\ runs \in Seq([base : Commits, head : Commits, by : Gens, during : 0..MaxStarts])
  /\ prove \in Seq({"row", "active", "over"})
  /\ asked \in SUBSET Nat
  /\ handler \in [at : {"idle", "resolved", "marked", "set", "cut"}, sha : Commits,
                  run : Nat, stopped : BOOLEAN, stops : 0..MaxStops]

\* However the session is stopped and started while loops are at work: one loop
\* thread never has two proves under way that it began under the same start.
OnePerLoop ==
  \A r, q \in Registered :
    runs[r].by = runs[q].by /\ runs[r].during = runs[q].during => r = q

\* "It proves one commit at a time and never overlaps" (module docstring).  It does
\* NOT hold: a loop that has not noticed a stop lives on after the next start.
OneAtATime == Cardinality(Registered) <= 1

\* A session's runs follow each other: each proves exactly what changed since
\* the run before it, whatever proves failed, were cancelled or are still
\* running, and however HEAD moved meanwhile.
RunsChain ==
  \A i \in DOMAIN runs :
    /\ runs[i].base # runs[i].head
    /\ i > 1 => runs[i].base = runs[i - 1].head

\* A session that says it is watching has a loop thread behind it, unless that
\* thread could not be started or died of an exception nobody catches.
WatchingHasLoop ==
  state.watching =>
    \E g \in Gens : Alive(g) \/ loop[g].at = "crashed"

\* Once the current event is set, by Stop or by a failure, every loop thread
\* ends, even mid-hold on battery and with a prove that never finishes, unless
\* the session is started again.
StopEndsLoops ==
  (gen \in stopSet) ~> (gen \notin stopSet \/ \A g \in Gens : ~Alive(g))

\* A session left alone with a readable repository catches up with HEAD.
Quiet ==
  /\ state.watching /\ repo.readable /\ ~paused
  /\ \A g \in Gens : loop[g].at # "crashed"
CatchesUp ==
  (<>[]Quiet /\ []<>(Registered = {})) => <>[](state.last = repo.head)

\* The docstring of stop(): "An in-flight prove is cancelled (L11)": once Stop
\* has returned, and until the next start, no prove of this session runs on
\* without having been cancelled.  It does NOT hold: stop() may read
\* active_run_id before the loop sets it (README, section 4).
StopCancelsProve ==
  handler.stopped /\ handler.at = "idle" => Registered \subseteq asked

=============================================================================
