-------------------------- MODULE CancelScopeProofs --------------------------
(***************************************************************************)
(* For any number of workers and of cancelling threads: the invariant IInv *)
(* of CancelScope is inductive, so SweptOnReturn, GroupsSwept,             *)
(* ContainersSwept and RunningIsRegistered hold of every behaviour.        *)
(***************************************************************************)
EXTENDS CancelScope, TLAPS

USE ScopeAssumption

LEMMA InitIInv == Init => IInv
<1>1. Init => ScopeTypes
  <2>1. Init => leader \in [Procs -> LeaderStates] /\ at \in ProverPoints
    BY DEF Init, LeaderStates, ProverPoints
  <2>2. Init => kin \in [Procs -> BOOLEAN]
    BY DEF Init
  <2>3. Init => live \in [Cancellers -> SUBSET Procs]
    BY DEF Init
  <2>4. QED BY <2>1, <2>2, <2>3 DEF Init, ScopeTypes
<1>4. Init => ThreadShape /\ RunningIsRegistered
  BY DEF Init, ThreadShape, RunningIsRegistered
<1>5. Init => CancelShape /\ SweptOnReturn /\ GroupsSwept
  BY DEF Init, CancelShape, SweptOnReturn, GroupsSwept
<1>2. Init => BoxTypes /\ BoxShape
  BY DEF Init, BoxTypes, BoxStates, BoxShape
<1>3. QED BY <1>1, <1>2, <1>4, <1>5 DEF IInv, ScopeInv

\* What KillGroup does to the leaders: at most p changes, and never to running.
LEMMA KillGroupEffect ==
  ASSUME ScopeTypes, NEW p \in Procs, KillGroup(p)
  PROVE  /\ leader' \in [Procs -> LeaderStates]
         /\ kin' \in [Procs -> BOOLEAN]
         /\ leader'[p] # "run"
         /\ kin'[p] => leader'[p] \in {"none", "reaped"} /\ kin[p]
         /\ \A q \in Procs : q # p => kin'[q] = kin[q]
         /\ \A q \in Procs : q # p => leader'[q] = leader[q]
         /\ leader[p] \in {"none", "reaped"} => leader'[p] = leader[p]
         /\ leader[p] \notin {"none", "reaped"} => leader'[p] = "zombie"
  BY DEF KillGroup, ScopeTypes, LeaderStates

\* What DockerKill does: it ends a container that is up, or it is recorded as missed.
LEMMA DockerKillEffect ==
  ASSUME BoxTypes, NEW p \in Procs, DockerKill(p)
  PROVE  /\ box' \in [Procs -> BoxStates]
         /\ missed' \in SUBSET Procs /\ missed \subseteq missed'
         /\ \A q \in Procs : q # p => box'[q] = box[q]
         /\ box'[p] \in {"asked", "up"} => p \in missed'
  BY DEF DockerKill, BoxTypes, BoxStates

\* The workers and the registry of the scope, for which the containers do not matter.
LEMMA NextScopeInv == ScopeInv /\ [Next]_vars => ScopeInv'
<1> SUFFICES ASSUME ScopeInv, [Next]_vars PROVE ScopeInv'
  OBVIOUS
<1> USE DEF ScopeInv, ScopeTypes, LeaderStates, ProverPoints, ThreadShape,
            RunningIsRegistered, CancelShape, SweptOnReturn, GroupsSwept, BeingRegistered,
            proverVars, cancelVars
<1>1. ASSUME NEW p \in Procs, SpawnCheck(p) PROVE ScopeInv'
  BY <1>1 DEF SpawnCheck
<1>2. CASE RaiseCancelled
  BY <1>2 DEF RaiseCancelled
<1>3. CASE Popen
  BY <1>3 DEF Popen
<1>4. CASE PopenFails
  BY <1>4 DEF PopenFails
<1>5. CASE RegisterInsert
  BY <1>5 DEF RegisterInsert
<1>6. CASE RegisterCheck
  <2>1. CASE cancelled
    <3>1. KillGroup(proc) /\ proc \in Procs
      BY <1>6, <2>1 DEF RegisterCheck
    <3>2. /\ leader' \in [Procs -> LeaderStates]
          /\ kin' \in [Procs -> BOOLEAN]
          /\ leader'[proc] # "run"
          /\ kin'[proc] => leader'[proc] \in {"none", "reaped"} /\ kin[proc]
          /\ \A q \in Procs : q # proc => kin'[q] = kin[q]
          /\ leader[proc] \in {"none", "reaped"} => leader'[proc] = leader[proc]
          /\ leader[proc] \notin {"none", "reaped"} => leader'[proc] = "zombie"
          /\ \A q \in Procs : q # proc => leader'[q] = leader[q]
      BY <3>1, KillGroupEffect
    <3>3. /\ at = "inserted" /\ at' = "work" /\ proc' = NoProc /\ lock' = FALSE
          /\ UNCHANGED <<procs, cancelled, unwinding, canceller, live>>
      BY <1>6 DEF RegisterCheck
    <3>4. ScopeTypes'
      BY <3>2, <3>3
    <3>5. ThreadShape' /\ RunningIsRegistered'
      BY <3>2, <3>3
    <3>6. \A p \in Procs : /\ leader'[p] = "run" => leader[p] = "run" /\ p # proc
                           /\ kin'[p] => kin[p]
                           /\ kin'[p] /\ leader'[p] # "reaped" => leader[p] # "reaped" /\ p # proc
      BY <3>2
    <3>7. CancelShape' /\ SweptOnReturn' /\ GroupsSwept'
      BY <2>1, <3>3, <3>6
    <3>8. QED BY <3>4, <3>5, <3>7
  <2>2. CASE ~cancelled
    BY <1>6, <2>2 DEF RegisterCheck
  <2>3. QED BY <2>1, <2>2
<1>7. ASSUME NEW p \in Procs, ReapExited(p) PROVE ScopeInv'
  BY <1>7 DEF ReapExited
<1>8. ASSUME NEW p \in Procs, KillAndReap(p) PROVE ScopeInv'
  BY <1>8 DEF KillAndReap
<1>18. CASE DockerAndReap
  BY <1>18 DEF DockerAndReap
<1>19. ASSUME NEW c \in Cancellers, NEW p \in Procs, TakeContainer(c, p) PROVE ScopeInv'
  BY <1>19 DEF TakeContainer
<1>20. ASSUME NEW p \in Procs, Container(p) PROVE ScopeInv'
  <2>1. UNCHANGED <<leader, kin, procs, cancelled, lock, at, proc, unwinding, canceller, live>>
    BY <1>20 DEF Container, AskDaemon, StartContainer, ContainerEnds
  <2>2. QED BY <2>1
<1>9. CASE Unregister
  BY <1>9 DEF Unregister
<1>10. CASE Finish
  BY <1>10 DEF Finish
<1>11. ASSUME NEW c \in Cancellers, SetFlag(c) PROVE ScopeInv'
  BY <1>11 DEF SetFlag
<1>12. ASSUME NEW c \in Cancellers, Snapshot(c) PROVE ScopeInv'
  BY <1>12 DEF Snapshot
<1>13. ASSUME NEW c \in Cancellers, NEW p \in Procs, KillOne(c, p) PROVE ScopeInv'
  <2>1. KillGroup(p)
    BY <1>13 DEF KillOne
  <2>2. /\ leader' \in [Procs -> LeaderStates]
        /\ kin' \in [Procs -> BOOLEAN]
        /\ leader'[p] # "run"
        /\ kin'[p] => leader'[p] \in {"none", "reaped"} /\ kin[p]
        /\ \A q \in Procs : q # p => kin'[q] = kin[q]
        /\ \A q \in Procs : q # p => leader'[q] = leader[q]
        /\ leader[p] \in {"none", "reaped"} => leader'[p] = leader[p]
        /\ leader[p] \notin {"none", "reaped"} => leader'[p] = "zombie"
    BY <2>1, KillGroupEffect
  <2>3. /\ canceller[c] = "killing" /\ p \in live[c] /\ live' = [live EXCEPT ![c] = @ \ {p}]
        /\ UNCHANGED <<procs, cancelled, lock, at, proc, unwinding, canceller>>
    BY <1>13 DEF KillOne
  <2>4. ScopeTypes'
    BY <2>2, <2>3
  <2>5. ThreadShape' /\ RunningIsRegistered'
    BY <2>2, <2>3
  <2>6. \A q \in Procs : /\ leader'[q] = "run" => leader[q] = "run" /\ q # p
                         /\ kin'[q] => kin[q]
                         /\ kin'[q] /\ leader'[q] # "reaped" => leader[q] # "reaped" /\ q # p
    BY <2>2
  <2>7. CancelShape' /\ SweptOnReturn' /\ GroupsSwept'
    BY <2>3, <2>6
  <2>8. QED BY <2>4, <2>5, <2>7
<1>14. ASSUME NEW c \in Cancellers, CancelReturns(c) PROVE ScopeInv'
  BY <1>14 DEF CancelReturns
<1>15. ASSUME NEW p \in Procs, Worker(p) PROVE ScopeInv'
  <2>1. CASE Fork(p)
    BY <2>1 DEF Fork
  <2>2. CASE Exit(p)
    BY <2>2 DEF Exit
  <2>3. QED BY <1>15, <2>1, <2>2 DEF Worker
<1>16. CASE UNCHANGED vars
  BY <1>16 DEF vars
<1>17. QED
  BY <1>1, <1>2, <1>3, <1>4, <1>5, <1>6, <1>7, <1>8, <1>9, <1>10, <1>11, <1>12,
     <1>13, <1>14, <1>15, <1>16, <1>18, <1>19, <1>20 DEF Next, Prover, Cancel

\* The containers: every one that is up or coming up is within the reach of a kill
\* path, or its one kill is under way or spent.
LEMMA NextBox == IInv /\ [Next]_vars => BoxTypes' /\ BoxShape'
<1> SUFFICES ASSUME IInv, [Next]_vars PROVE BoxTypes' /\ BoxShape'
  OBVIOUS
<1> USE DEF IInv, BoxTypes, BoxShape, BoxStates
<1>t. /\ leader \in [Procs -> LeaderStates] /\ proc \in Procs \cup {NoProc}
      /\ procs \in SUBSET Procs /\ live \in [Cancellers -> SUBSET Procs]
  BY DEF ScopeInv, ScopeTypes
<1>s. /\ at \in {"checked", "popened", "inserted", "docker", "reaped"} => proc \in Procs
      /\ at = "inserted" => proc \in procs
      /\ at = "docker" => leader[proc] \in {"zombie", "reaped"} /\ proc \in procs
      /\ at = "reaped" => leader[proc] = "reaped"
      /\ at = "checked" => leader[proc] = "none"
  BY DEF ScopeInv, ThreadShape
<1> USE DEF proverVars, cancelVars, boxVars
<1>1. ASSUME NEW p \in Procs, SpawnCheck(p) PROVE BoxTypes' /\ BoxShape'
  BY <1>1, <1>t, <1>s DEF SpawnCheck
<1>2. CASE RaiseCancelled
  BY <1>2 DEF RaiseCancelled
<1>3. CASE Popen
  BY <1>3, <1>t, <1>s DEF Popen
<1>4. CASE PopenFails
  BY <1>4 DEF PopenFails
<1>5. CASE RegisterInsert
  BY <1>5 DEF RegisterInsert
<1>6. CASE RegisterCheck
  <2>1. CASE cancelled /\ proc \in entries
    <3>1. DockerKill(proc) /\ KillGroup(proc) /\ proc \in Procs
      BY <1>6, <2>1, <1>s DEF RegisterCheck
    <3>2. /\ box' \in [Procs -> BoxStates]
          /\ missed' \in SUBSET Procs /\ missed \subseteq missed'
          /\ \A q \in Procs : q # proc => box'[q] = box[q]
          /\ box'[proc] \in {"asked", "up"} => proc \in missed'
      BY <3>1, DockerKillEffect
    <3>3. leader'[proc] # "run" /\ \A q \in Procs : q # proc => leader'[q] = leader[q]
      BY <3>1, KillGroupEffect DEF ScopeInv
    <3>4. QED BY <1>6, <2>1, <3>1, <3>2, <3>3, <1>t, <1>s DEF RegisterCheck
  <2>2. CASE ~(cancelled /\ proc \in entries)
    <3>1. \A q \in Procs : leader'[q] = "run" => leader[q] = "run"
      BY <1>6, <2>2, <1>t, <1>s, KillGroupEffect DEF RegisterCheck, ScopeInv
    <3>2. /\ at = "inserted" /\ at' = "work"
          /\ UNCHANGED <<box, entries, missed, docker, procs>>
      BY <1>6, <2>2 DEF RegisterCheck
    <3>3. QED BY <3>1, <3>2, <1>s
  <2>3. QED BY <2>1, <2>2
<1>7. ASSUME NEW p \in Procs, ReapExited(p) PROVE BoxTypes' /\ BoxShape'
  BY <1>7, <1>t DEF ReapExited
<1>8. ASSUME NEW p \in Procs, KillAndReap(p) PROVE BoxTypes' /\ BoxShape'
  BY <1>8, <1>t DEF KillAndReap
<1>9. CASE DockerAndReap
  <2>1. DockerKill(proc) /\ proc \in Procs
    BY <1>9, <1>s DEF DockerAndReap
  <2>2. /\ box' \in [Procs -> BoxStates]
        /\ missed' \in SUBSET Procs /\ missed \subseteq missed'
        /\ \A q \in Procs : q # proc => box'[q] = box[q]
        /\ box'[proc] \in {"asked", "up"} => proc \in missed'
    BY <2>1, DockerKillEffect
  <2>3. QED BY <1>9, <2>1, <2>2, <1>t, <1>s DEF DockerAndReap
<1>10. CASE Unregister
  BY <1>10, <1>t, <1>s DEF Unregister
<1>11. CASE Finish
  BY <1>11 DEF Finish
<1>12. ASSUME NEW c \in Cancellers, SetFlag(c) PROVE BoxTypes' /\ BoxShape'
  BY <1>12 DEF SetFlag
<1>13. ASSUME NEW c \in Cancellers, Snapshot(c) PROVE BoxTypes' /\ BoxShape'
  BY <1>13, <1>t DEF Snapshot
<1>14. ASSUME NEW c \in Cancellers, NEW p \in Procs, TakeContainer(c, p)
       PROVE  BoxTypes' /\ BoxShape'
  BY <1>14 DEF TakeContainer
<1>15. ASSUME NEW c \in Cancellers, NEW p \in Procs, KillOne(c, p)
       PROVE  BoxTypes' /\ BoxShape'
  <2>1. leader'[p] # "run" /\ \A q \in Procs : q # p => leader'[q] = leader[q]
    BY <1>15, KillGroupEffect DEF KillOne, ScopeInv
  <2>2. /\ docker' = [docker EXCEPT ![c] = NoProc]
        /\ UNCHANGED <<procs, at, proc, entries>>
    BY <1>15 DEF KillOne
  <2>3. CASE docker[c] = p /\ DockerKill(p)
    <3>1. /\ box' \in [Procs -> BoxStates]
          /\ missed' \in SUBSET Procs /\ missed \subseteq missed'
          /\ \A q \in Procs : q # p => box'[q] = box[q]
          /\ box'[p] \in {"asked", "up"} => p \in missed'
      BY <2>3, DockerKillEffect
    <3>2. \A q \in Procs, d \in Cancellers : q # p /\ docker[d] = q => docker'[d] = q
      BY <2>2, <2>3
    <3>3. QED BY <2>1, <2>2, <2>3, <3>1, <3>2
  <2>4. CASE docker[c] = NoProc /\ UNCHANGED <<box, missed>>
    <3>1. \A q \in Procs, d \in Cancellers : docker[d] = q => docker'[d] = q
      BY <2>2, <2>4
    <3>2. QED BY <2>1, <2>2, <2>4, <3>1
  <2>5. QED BY <1>15, <2>3, <2>4 DEF KillOne
<1>16. ASSUME NEW c \in Cancellers, CancelReturns(c) PROVE BoxTypes' /\ BoxShape'
  BY <1>16 DEF CancelReturns
<1>17. ASSUME NEW p \in Procs, Worker(p) PROVE BoxTypes' /\ BoxShape'
  BY <1>17, <1>t DEF Worker, Fork, Exit
<1>18. ASSUME NEW p \in Procs, AskDaemon(p) PROVE BoxTypes' /\ BoxShape'
  BY <1>18, <1>t DEF AskDaemon
<1>19. ASSUME NEW p \in Procs, StartContainer(p) \/ ContainerEnds(p)
       PROVE  BoxTypes' /\ BoxShape'
  BY <1>19, <1>t DEF StartContainer, ContainerEnds
<1>20. CASE UNCHANGED vars
  BY <1>20 DEF vars
<1>21. QED
  BY <1>1, <1>2, <1>3, <1>4, <1>5, <1>6, <1>7, <1>8, <1>9, <1>10, <1>11, <1>12, <1>13,
     <1>14, <1>15, <1>16, <1>17, <1>18, <1>19, <1>20 DEF Next, Prover, Cancel, Container

LEMMA NextIInv == IInv /\ [Next]_vars => IInv'
  BY NextScopeInv, NextBox DEF IInv

\* The variables always have their types, whatever the threads do.
THEOREM ScopeTypeCorrect == Spec => []TypeOK
<1>1. IInv => TypeOK
  BY DEF IInv, ScopeInv, TypeOK
<1>2. QED BY InitIInv, NextIInv, <1>1, PTL DEF Spec

\* Once any cancel() has returned, no worker runs but one whose register() is
\* still to kill it: for any number of workers and of cancelling threads.
THEOREM CancelSweeps == Spec => []SweptOnReturn
<1>1. IInv => SweptOnReturn
  BY DEF IInv, ScopeInv
<1>2. QED BY InitIInv, NextIInv, <1>1, PTL DEF Spec

\* And of its group, only what a reaped leader left behind is still alive.
THEOREM CancelSweepsGroups == Spec => []GroupsSwept
<1>1. IInv => GroupsSwept
  BY DEF IInv, ScopeInv
<1>2. QED BY InitIInv, NextIInv, <1>1, PTL DEF Spec

\* No worker ever runs outside the registry, except between Popen and register().
THEOREM NoUntrackedWorker == Spec => []RunningIsRegistered
<1>1. IInv => RunningIsRegistered
  BY DEF IInv, ScopeInv
<1>2. QED BY InitIInv, NextIInv, <1>1, PTL DEF Spec

\* When the prove is over, a container that is up or coming up is one whose only
\* `docker kill` missed it, or whose kill a cancelling thread has under way.
THEOREM ContainersAreSwept == Spec => []ContainersSwept
<1>1. IInv => ContainersSwept
  BY DEF IInv, BoxShape, ContainersSwept
<1>2. QED BY InitIInv, NextIInv, <1>1, PTL DEF Spec
=============================================================================
