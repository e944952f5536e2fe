----------------------------- MODULE Supervisor -----------------------------
(***************************************************************************)
(* The sidecar supervisor of the desktop host (src-tauri/src/supervisor.rs)*)
(* and the threads that use it: the thread that runs start(), the monitor  *)
(* that restarts a dead sidecar, callers of call(), and the exit handler   *)
(* that runs shutdown() (src-tauri/src/lib.rs, sweep_on_exit).             *)
(*                                                                         *)
(* The `live' mutex is held over a whole call(), from the write to the     *)
(* answer or the timeout; every other use of it is one atomic step.  The   *)
(* write of a request has no deadline: it lasts as long as the sidecar     *)
(* leaves the pipe full.  Timers (the poll interval, the backoff, the      *)
(* deadlines) are abstracted to "may fire at any time".                    *)
(***************************************************************************)
EXTENDS Naturals, FiniteSets

CONSTANTS Callers,      \* threads that call the sidecar for the UI
          MaxSpawns,    \* sidecar processes ever started (a bound)
          MaxCalls,     \* requests written to one sidecar (a bound)
          None          \* no sidecar, no thread

ASSUME SupervisorAssumption ==
  /\ MaxSpawns \in Nat /\ MaxCalls \in Nat
  /\ Callers \cap {"starter", "monitor"} = {}
  /\ None \notin Nat \cup Callers \cup {"starter", "monitor"}

VARIABLES
  leader,    \* leader[k]: the k-th sidecar: none, run, zombie, reaped, or lost
  kin,       \* kin[k]: another process of its group is alive
  spawned,   \* how many sidecars have been started
  slot,      \* Supervisor.live: the sidecar in the slot, or None
  holder,    \* the thread inside call(), which holds the live mutex, or None
  shutting,  \* Supervisor.shutting_down
  starter,   \* start(): init, ping, done, failed
  monitor,   \* monitor_loop(): where it is
  fresh,     \* the sidecar the monitor spawned and has not stored, or None
  shut,      \* shutdown(): no, flagged, took (writing its request), termed, done
  taken,     \* the sidecar shutdown() took out of the slot, or None
  call,      \* call[t]: [at, k, id, got], the last call of thread t
  stream     \* stream[k]: [sent, answered, read], request ids of sidecar k

procVars == <<leader, kin, spawned>>
callVars == <<holder, call, stream>>
vars == <<leader, kin, spawned, slot, holder, shutting, starter, monitor, fresh, shut,
          taken, call, stream>>

Children == 1..MaxSpawns
Threads == Callers \cup {"starter", "monitor"}
GroupAlive(k) == leader[k] = "run" \/ kin[k]
Calling(t) == call[t].at \in {"write", "wait"}
Quiet == [at |-> "idle", k |-> None, id |-> 0, got |-> 0]

Init ==
  /\ leader = [k \in Children |-> "none"] /\ kin = [k \in Children |-> FALSE]
  /\ spawned = 0 /\ slot = None /\ holder = None /\ shutting = FALSE
  /\ starter = "init" /\ monitor = "off" /\ fresh = None
  /\ shut = "no" /\ taken = None
  /\ call = [t \in Threads |-> Quiet]
  /\ stream = [k \in Children |-> [sent |-> 0, answered |-> 0, read |-> 0]]

\* spawn_child: the next sidecar runs, leader of a group of its own.
Spawned(k) ==
  /\ k = spawned + 1 /\ k \in Children
  /\ spawned' = k
  /\ leader' = [leader EXCEPT ![k] = "run"]
  /\ kin' = kin

\* spawn_child returns early because a helper thread cannot start: the Child is
\* dropped, which neither kills nor reaps the process.  It runs on, and nothing
\* in the supervisor refers to it any more.
Lost(k) ==
  /\ k = spawned + 1 /\ k \in Children
  /\ spawned' = k
  /\ leader' = [leader EXCEPT ![k] = "lost"]
  /\ kin' = kin

\* kill_group: SIGKILL to every process of the group; the leader is not reaped.
KillGroup(k) ==
  /\ leader' = [leader EXCEPT ![k] = IF @ = "run" THEN "zombie" ELSE @]
  /\ kin' = [kin EXCEPT ![k] = FALSE]
  /\ spawned' = spawned

\* kill_group, then child.wait().
KillAndReap(k) ==
  /\ leader' = [leader EXCEPT ![k] = "reaped"]
  /\ kin' = [kin EXCEPT ![k] = FALSE]
  /\ spawned' = spawned

-----------------------------------------------------------------------------
(* start(), in a thread of its own. *)

\* Spawn under the lock, into the empty slot.
StartSpawn ==
  /\ starter = "init" /\ holder = None /\ slot = None
  /\ \E k \in Children : Spawned(k) /\ slot' = k
  /\ starter' = "ping"
  /\ UNCHANGED <<callVars, shutting, monitor, fresh, shut, taken>>

\* spawn_child fails with the process unborn or swept.
StartSpawnFails ==
  /\ starter = "init" /\ holder = None
  /\ starter' = "failed"
  /\ UNCHANGED <<procVars, slot, callVars, shutting, monitor, fresh, shut, taken>>

\* Mutant of StartSpawnLeaks: start() leaves the retry to the monitor.
StartSpawnLeaksOn ==
  /\ starter = "init" /\ holder = None
  /\ \E k \in Children : Lost(k)
  /\ starter' = "done" /\ monitor' = "poll"
  /\ UNCHANGED <<slot, callVars, shutting, fresh, shut, taken>>

StartSpawnLeaks ==
  /\ starter = "init" /\ holder = None
  /\ \E k \in Children : Lost(k)
  /\ starter' = "failed"
  /\ UNCHANGED <<slot, callVars, shutting, monitor, fresh, shut, taken>>

\* The ping was answered: start the monitor.
StartHealthy ==
  /\ starter = "ping" /\ call["starter"].at = "ok"
  /\ starter' = "done" /\ monitor' = "poll"
  /\ UNCHANGED <<procVars, slot, callVars, shutting, fresh, shut, taken>>

\* The deadline passed, or the monitor thread cannot start: no monitor.
StartUnhealthy ==
  /\ starter = "ping" /\ ~Calling("starter")
  /\ starter' = "failed"
  /\ UNCHANGED <<procVars, slot, callVars, shutting, monitor, fresh, shut, taken>>

-----------------------------------------------------------------------------
(* monitor_loop(). *)

MonitorPoll ==
  /\ monitor = "poll"
  /\ monitor' = IF shutting THEN "end" ELSE "check"
  /\ UNCHANGED <<procVars, slot, callVars, shutting, starter, fresh, shut, taken>>

\* Mutant of MonitorCheck: an empty slot is taken for a sidecar still starting.
MonitorWaitsOnEmpty ==
  /\ monitor = "check" /\ holder = None
  /\ \/ /\ slot # None => leader[slot] = "run"
        /\ monitor' = "poll"
        /\ UNCHANGED <<procVars, slot>>
     \/ /\ slot # None /\ leader[slot] = "zombie"
        /\ KillAndReap(slot)
        /\ slot' = None /\ monitor' = "died"
  /\ UNCHANGED <<callVars, shutting, starter, fresh, shut, taken>>

\* Mutant of MonitorCheck: the dead sidecar's group is not swept.
MonitorOnlyReaps ==
  /\ monitor = "check" /\ holder = None
  /\ \/ /\ slot = None
        /\ monitor' = "died"
        /\ UNCHANGED <<procVars, slot>>
     \/ /\ slot # None /\ leader[slot] = "zombie"
        /\ leader' = [leader EXCEPT ![slot] = "reaped"]
        /\ slot' = None /\ monitor' = "died"
        /\ UNCHANGED <<kin, spawned>>
     \/ /\ slot # None /\ leader[slot] = "run"
        /\ monitor' = "poll"
        /\ UNCHANGED <<procVars, slot>>
  /\ UNCHANGED <<callVars, shutting, starter, fresh, shut, taken>>

\* Under the lock: an empty slot counts as a death; try_wait() reaps a leader
\* that exited, and its group is swept.
MonitorCheck ==
  /\ monitor = "check" /\ holder = None
  /\ \/ /\ slot = None
        /\ monitor' = "died"
        /\ UNCHANGED <<procVars, slot>>
     \/ /\ slot # None /\ leader[slot] = "zombie"
        /\ KillAndReap(slot)
        /\ slot' = None /\ monitor' = "died"
     \/ /\ slot # None /\ leader[slot] = "run"
        /\ monitor' = "poll"
        /\ UNCHANGED <<procVars, slot>>
  /\ UNCHANGED <<callVars, shutting, starter, fresh, shut, taken>>

MonitorDied ==
  /\ monitor = "died"
  /\ monitor' = IF shutting THEN "end" ELSE "backoff"
  /\ UNCHANGED <<procVars, slot, callVars, shutting, starter, fresh, shut, taken>>

\* After the backoff: spawn_child, outside the lock.
MonitorSpawn ==
  /\ monitor = "backoff"
  /\ \E k \in Children : Spawned(k) /\ fresh' = k
  /\ monitor' = "store"
  /\ UNCHANGED <<slot, callVars, shutting, starter, shut, taken>>

MonitorSpawnFails ==
  /\ monitor = "backoff"
  /\ monitor' = "poll"
  /\ UNCHANGED <<procVars, slot, callVars, shutting, starter, fresh, shut, taken>>

MonitorSpawnLeaks ==
  /\ monitor = "backoff"
  /\ \E k \in Children : Lost(k)
  /\ monitor' = "poll"
  /\ UNCHANGED <<slot, callVars, shutting, starter, fresh, shut, taken>>

MonitorStore ==
  /\ monitor = "store" /\ holder = None
  /\ slot' = fresh /\ fresh' = None
  /\ monitor' = "recheck"
  /\ UNCHANGED <<procVars, callVars, shutting, starter, shut, taken>>

\* Mutant of MonitorRecheck: the flag is not looked at again after the store.
MonitorNoRecheck ==
  /\ monitor = "recheck"
  /\ monitor' = "ping"
  /\ call' = [call EXCEPT !["monitor"] = Quiet]
  /\ UNCHANGED <<procVars, slot, holder, stream, shutting, starter, fresh, shut, taken>>

\* shutdown() may have found the slot empty before the store.
MonitorRecheck ==
  /\ monitor = "recheck"
  /\ monitor' = IF shutting THEN "sweep" ELSE "ping"
  /\ call' = [call EXCEPT !["monitor"] = Quiet]
  /\ UNCHANGED <<procVars, slot, holder, stream, shutting, starter, fresh, shut, taken>>

\* Then the fresh sidecar is the monitor's to sweep, unless shutdown() took it.
MonitorSweep ==
  /\ monitor = "sweep" /\ holder = None
  /\ \/ slot = None /\ UNCHANGED procVars
     \/ slot # None /\ KillAndReap(slot)
  /\ slot' = None /\ monitor' = "end"
  /\ UNCHANGED <<callVars, shutting, starter, fresh, shut, taken>>

\* wait_healthy() is over, one way or the other.
MonitorPinged ==
  /\ monitor = "ping" /\ ~Calling("monitor")
  /\ monitor' = "poll"
  /\ UNCHANGED <<procVars, slot, callVars, shutting, starter, fresh, shut, taken>>

-----------------------------------------------------------------------------
(* call(), by the UI's callers and by wait_healthy(). *)

MayCall(t) ==
  CASE t = "starter" -> starter = "ping" /\ call[t].at # "ok"
    [] t = "monitor" -> monitor = "ping" /\ call[t].at # "ok"
    [] OTHER -> TRUE

CallUnavailable(t) ==
  /\ MayCall(t) /\ holder = None /\ slot = None
  /\ call' = [call EXCEPT ![t] = [Quiet EXCEPT !.at = "err"]]
  /\ UNCHANGED <<procVars, slot, holder, stream, shutting, starter, monitor, fresh, shut, taken>>

\* The next id, and the write begins; the lock stays held.  (To a dead sidecar
\* beyond the bound, too: that write can only fail.)
CallWrite(t) ==
  /\ MayCall(t) /\ holder = None /\ slot # None
  /\ stream[slot].sent < MaxCalls \/ ~GroupAlive(slot)
  /\ stream' = [stream EXCEPT ![slot].sent = @ + 1]
  /\ call' = [call EXCEPT ![t] = [at |-> "write", k |-> slot, id |-> stream[slot].sent + 1,
                                  got |-> 0]]
  /\ holder' = t
  /\ UNCHANGED <<procVars, slot, shutting, starter, monitor, fresh, shut, taken>>

\* write_frame returns: only now is the deadline set.
CallWritten(t) ==
  /\ holder = t /\ call[t].at = "write" /\ GroupAlive(slot)
  /\ call' = [call EXCEPT ![t].at = "wait"]
  /\ UNCHANGED <<procVars, slot, holder, stream, shutting, starter, monitor, fresh, shut, taken>>

\* Nobody reads the pipe any more: sweep the group and empty the slot.
CallWriteFails(t) ==
  /\ holder = t /\ call[t].at = "write" /\ leader[slot] # "run"
  /\ KillGroup(slot)
  /\ slot' = None
  /\ call' = [call EXCEPT ![t].at = "err"]
  /\ holder' = None
  /\ UNCHANGED <<stream, shutting, starter, monitor, fresh, shut, taken>>

\* Mutant of CallReceive: whatever frame comes is the answer.
CallReceiveAny(t) ==
  /\ holder = t /\ call[t].at = "wait"
  /\ LET k == call[t].k
         id == stream[k].read + 1
     IN  /\ stream[k].read < stream[k].answered
         /\ stream' = [stream EXCEPT ![k].read = id]
         /\ call' = [call EXCEPT ![t].at = "ok", ![t].got = id]
         /\ holder' = None
  /\ UNCHANGED <<procVars, slot, shutting, starter, monitor, fresh, shut, taken>>

\* One frame: a stale answer is skipped, the one with the call's id returned.
CallReceive(t) ==
  /\ holder = t /\ call[t].at = "wait"
  /\ LET k == call[t].k
         id == stream[k].read + 1
     IN  /\ stream[k].read < stream[k].answered
         /\ stream' = [stream EXCEPT ![k].read = id]
         /\ \/ /\ id # call[t].id
               /\ UNCHANGED <<call, holder>>
            \/ /\ id = call[t].id
               /\ call' = [call EXCEPT ![t].at = "ok", ![t].got = id]
               /\ holder' = None
  /\ UNCHANGED <<procVars, slot, shutting, starter, monitor, fresh, shut, taken>>

\* An undecodable frame ends the call and leaves the sidecar in the slot.
CallGarbled(t) ==
  /\ holder = t /\ call[t].at = "wait"
  /\ LET k == call[t].k
     IN  /\ stream[k].read < stream[k].answered
         /\ stream' = [stream EXCEPT ![k].read = @ + 1]
  /\ call' = [call EXCEPT ![t].at = "err"]
  /\ holder' = None
  /\ UNCHANGED <<procVars, slot, shutting, starter, monitor, fresh, shut, taken>>

\* Mutant of CallTimeout: the receive has no deadline.
CallWaitsForever(t) ==
  /\ holder = t /\ call[t].at = "wait" /\ leader[call[t].k] = "reaped"
  /\ call' = [call EXCEPT ![t].at = "err"]
  /\ holder' = None
  /\ UNCHANGED <<procVars, slot, stream, shutting, starter, monitor, fresh, shut, taken>>

CallTimeout(t) ==
  /\ holder = t /\ call[t].at = "wait"
  /\ call' = [call EXCEPT ![t].at = "err"]
  /\ holder' = None
  /\ UNCHANGED <<procVars, slot, stream, shutting, starter, monitor, fresh, shut, taken>>

\* The stream broke or ended: sweep the group and empty the slot.
CallBroken(t) ==
  /\ holder = t /\ call[t].at = "wait"
  /\ LET k == call[t].k
     IN  /\ leader[k] # "run" /\ stream[k].read = stream[k].answered
         /\ KillGroup(k)
  /\ slot' = None
  /\ call' = [call EXCEPT ![t].at = "err"]
  /\ holder' = None
  /\ UNCHANGED <<stream, shutting, starter, monitor, fresh, shut, taken>>

-----------------------------------------------------------------------------
(* shutdown(), from the exit handler. *)

ShutdownFlag ==
  /\ shut = "no"
  /\ shutting' = TRUE /\ shut' = "flagged"
  /\ UNCHANGED <<procVars, slot, callVars, starter, monitor, fresh, taken>>

ShutdownTake ==
  /\ shut = "flagged" /\ holder = None
  /\ taken' = slot /\ slot' = None
  /\ shut' = IF slot = None THEN "done" ELSE "took"
  /\ UNCHANGED <<procVars, callVars, shutting, starter, monitor, fresh>>

\* The write of the shutdown request returns, written or failed (it has no deadline,
\* either); after the grace the SIGTERM: the group may go, or may not.
ShutdownTerm ==
  /\ shut = "took"
  /\ shut' = "termed"
  /\ UNCHANGED <<procVars, slot, callVars, shutting, starter, monitor, fresh, taken>>

ShutdownKill ==
  /\ shut = "termed"
  /\ KillAndReap(taken)
  /\ taken' = None /\ shut' = "done"
  /\ UNCHANGED <<slot, callVars, shutting, starter, monitor, fresh>>

-----------------------------------------------------------------------------
(* The sidecars. *)

Answer(k) ==
  /\ GroupAlive(k) /\ stream[k].answered < stream[k].sent
  /\ stream' = [stream EXCEPT ![k].answered = @ + 1]
  /\ UNCHANGED <<procVars, slot, holder, call, shutting, starter, monitor, fresh, shut, taken>>

Exit(k) ==
  /\ leader[k] = "run"
  /\ leader' = [leader EXCEPT ![k] = "zombie"]
  /\ UNCHANGED <<kin, spawned, slot, callVars, shutting, starter, monitor, fresh, shut, taken>>

KinChanges(k) ==
  /\ kin[k] \/ leader[k] = "run"
  /\ kin' = [kin EXCEPT ![k] = ~@]
  /\ UNCHANGED <<leader, spawned, slot, callVars, shutting, starter, monitor, fresh, shut, taken>>

Start == StartSpawn \/ StartSpawnFails \/ StartSpawnLeaks \/ StartHealthy \/ StartUnhealthy
Monitor ==
  \/ MonitorPoll \/ MonitorCheck \/ MonitorDied \/ MonitorSpawn \/ MonitorSpawnFails
  \/ MonitorSpawnLeaks \/ MonitorStore \/ MonitorRecheck \/ MonitorSweep \/ MonitorPinged
CallBegins(t) == CallUnavailable(t) \/ CallWrite(t) \/ CallWritten(t) \/ CallWriteFails(t)
CallEnds(t) == CallReceive(t) \/ CallGarbled(t) \/ CallTimeout(t) \/ CallBroken(t)
Shutdown == ShutdownTake \/ ShutdownTerm \/ ShutdownKill
Sidecar(k) == Answer(k) \/ Exit(k) \/ KinChanges(k)

Next ==
  \/ Start \/ Monitor \/ ShutdownFlag \/ Shutdown
  \/ \E t \in Threads : CallBegins(t) \/ CallEnds(t)
  \/ \E k \in Children : Sidecar(k)

Spec == Init /\ [][Next]_vars

\* Threads keep running, and once its request is written a call ends: by an answer,
\* an error or the timeout.  A write is only sure to return when nobody is left to
\* hold the other end of the pipe.
FairSpec ==
  /\ Spec
  /\ WF_vars(Start) /\ WF_vars(Monitor) /\ WF_vars(ShutdownTake) /\ WF_vars(ShutdownKill)
  /\ WF_vars(ShutdownTerm /\ ~GroupAlive(taken))
  /\ \A t \in Threads : WF_vars(CallEnds(t)) /\ WF_vars(CallWriteFails(t) /\ ~GroupAlive(slot))

-----------------------------------------------------------------------------
(* Properties. *)

MonitorPoints == {"off", "poll", "check", "died", "backoff", "store", "recheck", "sweep",
                  "ping", "end"}

TypeOK ==
  /\ leader \in [Children -> {"none", "run", "zombie", "reaped", "lost"}]
  /\ kin \in [Children -> BOOLEAN]
  /\ spawned \in 0..MaxSpawns
  /\ {slot, fresh, taken} \subseteq Children \cup {None}
  /\ holder \in Threads \cup {None}
  /\ shutting \in BOOLEAN
  /\ starter \in {"init", "ping", "done", "failed"}
  /\ monitor \in MonitorPoints
  /\ shut \in {"no", "flagged", "took", "termed", "done"}
  /\ call \in [Threads -> [at : {"idle", "write", "wait", "ok", "err"}, k : Children \cup {None},
                           id : Nat, got : Nat]]
  /\ stream \in [Children -> [sent : Nat, answered : Nat, read : Nat]]

\* Every living sidecar group is somebody's: in the slot, in the monitor's hand
\* on its way there, or in shutdown()'s.  A group nobody holds is an orphan no
\* later sweep can reach; the one spawn_child itself drops is the only one.
OwnedGroups == \A k \in Children : GroupAlive(k) => k \in {slot, fresh, taken}

\* Two sidecars live at once, on one store, only while shutdown() is ending one of
\* them or when one is a respawn that spawn_child itself dropped: neither a failed
\* call nor a death leaves a living group behind for the next sidecar to meet, and
\* when start()'s own sidecar is dropped no other is ever started.
Living == {k \in Children : GroupAlive(k) \/ leader[k] = "lost"}
SecondIsDropped ==
  \A j, k \in Living \ {taken} : j # k => \E d \in {j, k} \ {1} : leader[d] = "lost"

\* A call in flight owns the stream: its sidecar is the one in the slot, its
\* answer is still to come, and a call that succeeded got its own answer, not
\* the late answer of an earlier call that timed out.
CallIntegrity ==
  /\ holder # None =>
       /\ call[holder].k = slot
       /\ stream[slot].read < call[holder].id /\ call[holder].id = stream[slot].sent
  /\ \A t \in Threads : call[t].at = "ok" => call[t].got = call[t].id

\* Once shutdown() has returned and the monitor has ended, no sidecar that the
\* monitor respawned is alive (sidecar 1 is start()'s): the re-check after the
\* store closes the race with a shutdown() that found the slot empty.
RespawnsSwept ==
  shut = "done" /\ monitor = "end" => \A k \in Children \ {1} : ~GroupAlive(k)

\* A request is being written, by a call() or by shutdown(): write_frame blocks as
\* long as the pipe is full and the sidecar does not read it.
Writing == shut = "took" \/ \E t \in Threads : call[t].at = "write"

\* A sidecar that dies under the monitor is noticed, and a respawn attempted,
\* unless the app is shutting down; a call that waits for its answer only delays
\* it.  (A write that never returns does prevent it, hence the condition.)
DeathNoticed ==
  []<>~Writing =>
    ((starter = "done" /\ (slot = None \/ leader[slot] # "run"))
       ~> (monitor = "backoff" \/ shutting \/ (slot # None /\ leader[slot] = "run")))

\* shutdown() returns, whatever call is in flight, unless a write never returns: the
\* sidecar need not answer, but it, or its death, must release the pipe.
ShutdownReturns == []<>~Writing => (shutting ~> shut = "done")

\* The docstring of shutdown(): "After this returns, no process of the
\* sidecar's group exists", be it start()'s sidecar or a respawned one.  It does
\* NOT hold of a shutdown() that finds the slot empty (README, section 4).
ShutdownSweeps == shut = "done" => \A k \in Children : ~GroupAlive(k)

(* The inductive strengthenings of the safety properties. *)
CallShape ==
  /\ holder # None => slot # None /\ Calling(holder)
  /\ \A t \in Threads : Calling(t) => holder = t
  /\ Calling("monitor") => monitor = "ping"
  /\ starter # "done" => monitor = "off"
  /\ \A k \in Children : stream[k].read <= stream[k].answered
                        /\ stream[k].answered <= stream[k].sent
CInv == TypeOK /\ CallShape /\ CallIntegrity

SpawnShape ==
  /\ \A k \in Children : k > spawned => leader[k] = "none" /\ ~kin[k]
  /\ \A k \in Children : k \in {slot, fresh, taken} => k <= spawned
  /\ starter = "init" => spawned = 0 /\ slot = None
  /\ starter = "ping" => spawned # 0
  /\ monitor # "off" => spawned # 0
HandShape ==
  /\ (fresh # None) <=> (monitor = "store")
  /\ monitor \in {"died", "backoff", "store"} => slot = None
  /\ (taken # None) <=> (shut \in {"took", "termed"})
  /\ shut # "no" => shutting
AfterTake ==
  shut \in {"took", "termed", "done"} =>
    slot \in {None, 1} \/ monitor \in {"recheck", "sweep"}
\* A dropped sidecar of start() is the last one.
DropShape ==
  /\ \A k \in Children : leader[k] = "lost" => ~kin[k] /\ k \notin {slot, fresh, taken}
  /\ \A k \in Children : k = 1 /\ leader[k] = "lost" =>
       spawned = 1 /\ starter = "failed"
OInv == CInv /\ SpawnShape /\ HandShape /\ OwnedGroups /\ AfterTake /\ DropShape

=============================================================================
