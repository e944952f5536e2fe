----------------------------- MODULE CancelScope -----------------------------
(***************************************************************************)
(* The cancellation scope of one prove (tempest/execute/cancel.py) and the *)
(* two choke points of the runner that use it, _spawn and _kill            *)
(* (tempest/execute/runner.py), with the containers of the Docker backend  *)
(* and their registry _CONTAINERS (tempest/execute/sandbox.py).            *)
(*                                                                         *)
(* One prove thread spawns workers and retires them; any number of other   *)
(* threads call cancel().  A worker is the leader of its own process       *)
(* group, and may leave descendants in that group.  The scope's lock       *)
(* protects only the registry: the flag is raised outside it, and the      *)
(* kills of cancel() run outside it.  Under Docker the worker is only the  *)
(* client of a container, which outlives it in the daemon: every kill path *)
(* also pops the client's entry of _CONTAINERS, and the one that found it  *)
(* sends the only `docker kill` there will be.                             *)
(***************************************************************************)
EXTENDS Naturals, FiniteSets

CONSTANTS Procs,       \* the workers this prove may spawn
          Forkers,     \* those that may leave a descendant in their group
          Dockered,    \* those that are clients of a container
          Cancellers,  \* threads that call cancel(), once each
          NoProc       \* "no worker in hand"

ASSUME ScopeAssumption ==
  Forkers \subseteq Procs /\ Dockered \subseteq Procs /\ NoProc \notin Procs

VARIABLES
  leader,     \* leader[p]: none, run, zombie (exited, unreaped), reaped
  kin,        \* kin[p]: a descendant in p's group is alive
  procs,      \* CancelScope._procs, the registry
  cancelled,  \* CancelScope._cancelled
  lock,       \* CancelScope._lock is held by the prove thread
  at,         \* where the prove thread is inside _spawn / _kill
  proc,       \* the worker it has in hand there
  unwinding,  \* an exception is unwinding the prove thread
  canceller,  \* canceller[c]: idle, flagged, killing, done
  live,       \* live[c]: the snapshot cancel() took, not yet killed
  docker,     \* docker[c]: the worker whose `docker kill` c has under way
  box,        \* box[p]: the container: none, asked (of the daemon), up, down
  entries,    \* _CONTAINERS: the clients whose entry nobody has popped
  missed      \* history: the one `docker kill` failed, or came before the container

proverVars == <<at, proc, unwinding>>
cancelVars == <<canceller, live, docker>>
boxVars == <<box, entries, missed>>
vars == <<leader, kin, procs, cancelled, lock, proverVars, cancelVars, boxVars>>

LeaderStates == {"none", "run", "zombie", "reaped"}
ProverPoints == {"work", "checked", "popened", "inserted", "docker", "reaped", "done"}
BoxStates == {"none", "asked", "up", "down"}

Init ==
  /\ leader = [p \in Procs |-> "none"]
  /\ kin = [p \in Procs |-> FALSE]
  /\ procs = {}
  /\ cancelled = FALSE
  /\ lock = FALSE
  /\ at = "work" /\ proc = NoProc /\ unwinding = FALSE
  /\ canceller = [c \in Cancellers |-> "idle"]
  /\ live = [c \in Cancellers |-> {}]
  /\ docker = [c \in Cancellers |-> NoProc]
  /\ box = [p \in Procs |-> "none"]
  /\ entries = {} /\ missed = {}

\* Mutant of KillGroup: only the leader is signalled.
KillLeader(p) ==
  /\ leader' = [leader EXCEPT ![p] = IF @ = "run" THEN "zombie" ELSE @]
  /\ kin' = kin

\* _kill_group / the guarded killpg of _kill: an unreaped leader still owns its
\* pgid, so the whole group dies; after the reap nothing is signalled.
KillGroup(p) ==
  IF leader[p] \in {"run", "zombie"}
    THEN /\ leader' = [leader EXCEPT ![p] = "zombie"]
         /\ kin' = [kin EXCEPT ![p] = FALSE]
    ELSE UNCHANGED <<leader, kin>>

\* `docker kill` by name, run by the path that popped p's entry: it ends a container
\* that is up, or it fails (daemon down, timeout, no such container yet) and the
\* failure is suppressed.
DockerKill(p) ==
  \/ /\ box[p] = "up"
     /\ box' = [box EXCEPT ![p] = "down"] /\ missed' = missed
  \/ /\ missed' = IF box[p] = "down" THEN missed ELSE missed \cup {p}
     /\ box' = box

-----------------------------------------------------------------------------
(* The prove thread. *)

\* _spawn: raise_if_cancelled() passes.
SpawnCheck(p) ==
  /\ at = "work" /\ ~unwinding /\ leader[p] = "none"
  /\ ~cancelled
  /\ at' = "checked" /\ proc' = p
  /\ UNCHANGED <<leader, kin, procs, cancelled, lock, unwinding, cancelVars, boxVars>>

\* raise_if_cancelled() at a spawn or a checkpoint raises ProveCancelled; the
\* finally clauses on the way out retire what is still open.
RaiseCancelled ==
  /\ at = "work" /\ ~unwinding /\ cancelled
  /\ unwinding' = TRUE
  /\ UNCHANGED <<leader, kin, procs, cancelled, lock, at, proc, cancelVars, boxVars>>

\* sandbox.popen: the child runs, in a session of its own, not yet registered with
\* the scope; the Docker backend has entered its container's name in _CONTAINERS.
Popen ==
  /\ at = "checked"
  /\ leader' = [leader EXCEPT ![proc] = "run"]
  /\ entries' = IF proc \in Dockered THEN entries \cup {proc} ELSE entries
  /\ at' = "popened"
  /\ UNCHANGED <<kin, procs, cancelled, lock, proc, unwinding, cancelVars, box, missed>>

\* sandbox.popen raises: the exception unwinds the prove.
PopenFails ==
  /\ at = "checked"
  /\ at' = "work" /\ proc' = NoProc /\ unwinding' = TRUE
  /\ UNCHANGED <<leader, kin, procs, cancelled, lock, cancelVars, boxVars>>

\* register(), first half: take the lock, enter the child in the registry.
RegisterInsert ==
  /\ at = "popened" /\ ~lock
  /\ lock' = TRUE
  /\ procs' = procs \cup {proc}
  /\ at' = "inserted"
  /\ UNCHANGED <<leader, kin, cancelled, proc, unwinding, cancelVars, boxVars>>

\* Mutant of RegisterCheck: the flag is not looked at again after the insertion.
RegisterCheckForgetsFlag ==
  /\ at = "inserted"
  /\ lock' = FALSE
  /\ at' = "work" /\ proc' = NoProc
  /\ UNCHANGED <<leader, kin, procs, cancelled, unwinding, cancelVars, boxVars>>

\* register(), second half: a flag already raised kills the late child, container
\* first (no canceller has it in a snapshot, so nobody else can have its entry).
RegisterCheck ==
  /\ at = "inserted"
  /\ IF cancelled THEN KillGroup(proc) ELSE UNCHANGED <<leader, kin>>
  /\ IF cancelled /\ proc \in entries
       THEN DockerKill(proc) /\ entries' = entries \ {proc}
       ELSE UNCHANGED boxVars
  /\ lock' = FALSE
  /\ at' = "work" /\ proc' = NoProc
  /\ UNCHANGED <<procs, cancelled, unwinding, cancelVars>>

\* A reap that signals nothing: proc.wait() at end of stream, poll() before reuse.
ReapExited(p) ==
  /\ at = "work" /\ p \in procs /\ leader[p] = "zombie"
  /\ leader' = [leader EXCEPT ![p] = "reaped"]
  /\ UNCHANGED <<kin, procs, cancelled, lock, proverVars, cancelVars, boxVars>>

\* Mutant of KillAndReap: kill_container moved under the `returncode is None` guard.
KillAndReapGuarded(p) ==
  LET takes == p \in entries /\ leader[p] # "reaped" IN
  /\ at = "work" /\ p \in procs
  /\ kin' = [kin EXCEPT ![p] = kin[p] /\ leader[p] = "reaped"]
  /\ leader' = [leader EXCEPT ![p] = IF takes THEN "zombie" ELSE "reaped"]
  /\ entries' = IF takes THEN entries \ {p} ELSE entries
  /\ at' = IF takes THEN "docker" ELSE "reaped"
  /\ proc' = p
  /\ UNCHANGED <<procs, cancelled, lock, unwinding, cancelVars, box, missed>>

\* _kill: the guarded killpg, then kill_container pops the entry whatever the guard
\* said.  Without an entry the wait() follows at once.
KillAndReap(p) ==
  /\ at = "work" /\ p \in procs
  /\ kin' = [kin EXCEPT ![p] = kin[p] /\ leader[p] = "reaped"]
  /\ leader' = [leader EXCEPT ![p] =
                  IF p \in entries /\ @ # "reaped" THEN "zombie" ELSE "reaped"]
  /\ entries' = entries \ {p}
  /\ at' = IF p \in entries THEN "docker" ELSE "reaped"
  /\ proc' = p
  /\ UNCHANGED <<procs, cancelled, lock, unwinding, cancelVars, box, missed>>

\* _kill, when it popped the entry: the `docker kill` ends, then wait().
DockerAndReap ==
  /\ at = "docker"
  /\ DockerKill(proc)
  /\ leader' = [leader EXCEPT ![proc] = "reaped"]
  /\ at' = "reaped"
  /\ UNCHANGED <<kin, procs, cancelled, lock, proc, unwinding, cancelVars, entries>>

\* unregister(), the last line of _kill.
Unregister ==
  /\ at = "reaped" /\ ~lock
  /\ procs' = procs \ {proc}
  /\ at' = "work" /\ proc' = NoProc
  /\ UNCHANGED <<leader, kin, cancelled, lock, unwinding, cancelVars, boxVars>>

\* The prove returns, or has unwound: every worker it opened is retired.
Finish ==
  /\ at = "work" /\ procs = {}
  /\ at' = "done"
  /\ UNCHANGED <<leader, kin, procs, cancelled, lock, proc, unwinding, cancelVars, boxVars>>

-----------------------------------------------------------------------------
(* cancel(), from any thread. *)

SetFlag(c) ==
  /\ canceller[c] = "idle"
  /\ cancelled' = TRUE
  /\ canceller' = [canceller EXCEPT ![c] = "flagged"]
  /\ UNCHANGED <<leader, kin, procs, lock, proverVars, live, docker, boxVars>>

\* Under the lock: poll() every registered child, which reaps the exited ones,
\* and keep those still running.
Snapshot(c) ==
  /\ canceller[c] = "flagged" /\ ~lock
  /\ live' = [live EXCEPT ![c] = {p \in procs : leader[p] = "run"}]
  /\ leader' = [p \in Procs |->
                  IF p \in procs /\ leader[p] = "zombie" THEN "reaped" ELSE leader[p]]
  /\ canceller' = [canceller EXCEPT ![c] = "killing"]
  /\ UNCHANGED <<kin, procs, cancelled, lock, proverVars, docker, boxVars>>

\* _kill_group begins with kill_container: the entry is popped, `docker kill` begins.
TakeContainer(c, p) ==
  /\ canceller[c] = "killing" /\ p \in live[c] /\ docker[c] = NoProc
  /\ p \in entries
  /\ entries' = entries \ {p}
  /\ docker' = [docker EXCEPT ![c] = p]
  /\ UNCHANGED <<leader, kin, procs, cancelled, lock, proverVars, canceller, live, box, missed>>

\* The rest of _kill_group: the `docker kill` ends, if this thread had the entry, and
\* the group is signalled.  A thread that found no entry signals the group at once.
KillOne(c, p) ==
  /\ canceller[c] = "killing" /\ p \in live[c]
  /\ \/ docker[c] = p /\ DockerKill(p)
     \/ docker[c] = NoProc /\ p \notin entries /\ UNCHANGED <<box, missed>>
  /\ KillGroup(p)
  /\ docker' = [docker EXCEPT ![c] = NoProc]
  /\ live' = [live EXCEPT ![c] = @ \ {p}]
  /\ UNCHANGED <<procs, cancelled, lock, proverVars, canceller, entries>>

CancelReturns(c) ==
  /\ canceller[c] = "killing" /\ live[c] = {}
  /\ canceller' = [canceller EXCEPT ![c] = "done"]
  /\ UNCHANGED <<leader, kin, procs, cancelled, lock, proverVars, live, docker, boxVars>>

-----------------------------------------------------------------------------
(* The workers themselves. *)

Fork(p) ==
  /\ p \in Forkers /\ leader[p] = "run" /\ ~kin[p]
  /\ kin' = [kin EXCEPT ![p] = TRUE]
  /\ UNCHANGED <<leader, procs, cancelled, lock, proverVars, cancelVars, boxVars>>

Exit(p) ==
  /\ leader[p] = "run"
  /\ leader' = [leader EXCEPT ![p] = "zombie"]
  /\ UNCHANGED <<kin, procs, cancelled, lock, proverVars, cancelVars, boxVars>>

-----------------------------------------------------------------------------
(* The containers, in the daemon. *)

\* The client asks for its container; only a client that runs can.
AskDaemon(p) ==
  /\ p \in Dockered /\ leader[p] = "run" /\ box[p] = "none"
  /\ box' = [box EXCEPT ![p] = "asked"]
  /\ UNCHANGED <<leader, kin, procs, cancelled, lock, proverVars, cancelVars, entries, missed>>

\* The daemon starts it, whether or not the client still lives.
StartContainer(p) ==
  /\ box[p] = "asked"
  /\ box' = [box EXCEPT ![p] = "up"]
  /\ UNCHANGED <<leader, kin, procs, cancelled, lock, proverVars, cancelVars, entries, missed>>

ContainerEnds(p) ==
  /\ box[p] = "up"
  /\ box' = [box EXCEPT ![p] = "down"]
  /\ UNCHANGED <<leader, kin, procs, cancelled, lock, proverVars, cancelVars, entries, missed>>

Prover ==
  \/ \E p \in Procs : SpawnCheck(p) \/ ReapExited(p) \/ KillAndReap(p)
  \/ RaiseCancelled \/ Popen \/ PopenFails
  \/ RegisterInsert \/ RegisterCheck \/ DockerAndReap \/ Unregister \/ Finish

Cancel(c) ==
  \/ SetFlag(c) \/ Snapshot(c) \/ CancelReturns(c)
  \/ \E p \in Procs : TakeContainer(c, p) \/ KillOne(c, p)

Worker(p) == Fork(p) \/ Exit(p)

Container(p) == AskDaemon(p) \/ StartContainer(p) \/ ContainerEnds(p)

Next ==
  \/ Prover
  \/ \E c \in Cancellers : Cancel(c)
  \/ \E p \in Procs : Worker(p) \/ Container(p)

Spec == Init /\ [][Next]_vars

-----------------------------------------------------------------------------
(* Properties. *)

ScopeTypes ==
  /\ leader \in [Procs -> LeaderStates]
  /\ kin \in [Procs -> BOOLEAN]
  /\ procs \in SUBSET Procs
  /\ cancelled \in BOOLEAN /\ lock \in BOOLEAN /\ unwinding \in BOOLEAN
  /\ at \in ProverPoints /\ proc \in Procs \cup {NoProc}
  /\ canceller \in [Cancellers -> {"idle", "flagged", "killing", "done"}]
  /\ live \in [Cancellers -> SUBSET Procs]
BoxTypes ==
  /\ docker \in [Cancellers -> Procs \cup {NoProc}]
  /\ box \in [Procs -> BoxStates]
  /\ entries \in SUBSET Procs /\ missed \in SUBSET Procs
TypeOK == ScopeTypes /\ BoxTypes

\* The child the prove thread has created but whose register() is not over.
BeingRegistered(p) == at \in {"popened", "inserted"} /\ proc = p

\* Once any cancel() has returned, the only worker that can still be running is
\* one whose register() is under way, and that register() kills it: the
\* cancel/spawn race of cancel.py is closed without holding the lock over kills.
SweptOnReturn ==
  \A c \in Cancellers : canceller[c] = "done" =>
    \A p \in Procs : leader[p] = "run" => BeingRegistered(p)

\* No worker runs outside the registry, except between Popen and register():
\* unregister() comes only after the reap, so no kill path can lose sight of one.
RunningIsRegistered ==
  \A p \in Procs : leader[p] = "run" =>
    p \in procs \/ (at = "popened" /\ proc = p)

\* cancel() is meant for whole process GROUPS.  Once one has returned, the only
\* descendants still alive are those of a worker whose leader had exited by
\* itself and was reaped before anybody signalled its group.
GroupsSwept ==
  \A c \in Cancellers : canceller[c] = "done" =>
    \A p \in Procs : kin[p] => leader[p] = "reaped" \/ BeingRegistered(p)

\* kill_container consumes the entry, so each container gets one `docker kill`,
\* whichever of cancel(), register() and _kill meets it first, and a client that
\* died or was reaped alone does not take its container out of their reach.  When
\* the prove is over, a container that is up or coming up is one whose only kill
\* missed it, or whose kill a cancelling thread still has under way.
ContainersSwept ==
  at = "done" =>
    \A p \in Procs : box[p] \in {"asked", "up"} =>
      p \in missed \/ \E c \in Cancellers : docker[c] = p

(* The inductive strengthening of these invariants. *)
ThreadShape ==
  /\ lock = (at = "inserted")
  /\ at \in {"checked", "popened", "inserted", "docker", "reaped"} => proc \in Procs
  /\ at = "checked" => leader[proc] = "none"
  /\ at = "inserted" => proc \in procs
  /\ at = "docker" => leader[proc] \in {"zombie", "reaped"} /\ proc \in procs
  /\ at = "reaped" => leader[proc] = "reaped"
  /\ \A p \in Procs : kin[p] => leader[p] # "none"
  /\ \A p \in Procs : leader[p] = "zombie" => p \in procs \/ (at = "popened" /\ proc = p)
CancelShape ==
  \A c \in Cancellers :
    /\ canceller[c] # "idle" => cancelled
    /\ canceller[c] = "killing" =>
         \A p \in Procs :
           leader[p] = "run" \/ (kin[p] /\ leader[p] # "reaped")
             => p \in live[c] \/ BeingRegistered(p)
BoxShape ==
  /\ \A p \in Procs : box[p] \in {"asked", "up"} \/ (p \in Dockered /\ leader[p] = "run") =>
       \/ p \in entries \/ p \in missed
       \/ at = "docker" /\ proc = p
       \/ \E c \in Cancellers : docker[c] = p
  /\ \A p \in entries : p \in procs \/ (at = "popened" /\ proc = p)
  /\ at \in {"docker", "reaped"} => proc \notin entries
  /\ at = "done" => procs = {}
ScopeInv ==
  /\ ScopeTypes /\ ThreadShape /\ RunningIsRegistered /\ CancelShape
  /\ SweptOnReturn /\ GroupsSwept
IInv == ScopeInv /\ BoxTypes /\ BoxShape
=============================================================================
