-------------------------- MODULE SupervisorProofs --------------------------
(***************************************************************************)
(* For any number of callers, sidecars and requests: the calls of the      *)
(* supervisor keep the frame stream in step, and every living sidecar      *)
(* group has an owner but one that spawn_child dropped.                    *)
(***************************************************************************)
EXTENDS Supervisor, TLAPS

USE SupervisorAssumption

LEMMA ChildrenFact == Children \subseteq Nat /\ None \notin Children
  BY DEF Children

LEMMA LessSucc == \A m, n \in Nat : m < n => m + 1 <= n /\ (m + 1 # n => m + 1 < n)
  OBVIOUS

LEMMA TypeInit == Init => TypeOK
<1> SUFFICES ASSUME Init PROVE TypeOK
  OBVIOUS
<1>1. Quiet \in [at : {"idle", "write", "wait", "ok", "err"}, k : Children \cup {None},
                 id : Nat, got : Nat]
  BY DEF Quiet
<1>2. call \in [Threads -> [at : {"idle", "write", "wait", "ok", "err"}, k : Children \cup {None},
                            id : Nat, got : Nat]]
  BY <1>1 DEF Init
<1>3. stream \in [Children -> [sent : Nat, answered : Nat, read : Nat]]
  BY DEF Init
<1>4. /\ leader \in [Children -> {"none", "run", "zombie", "reaped", "lost"}]
      /\ kin \in [Children -> BOOLEAN]
      /\ spawned \in 0..MaxSpawns
  BY DEF Init
<1>5. QED
  BY <1>2, <1>3, <1>4 DEF Init, TypeOK, MonitorPoints

LEMMA TypeNext == CInv /\ [Next]_vars => TypeOK'
<1> SUFFICES ASSUME CInv, [Next]_vars PROVE TypeOK'
  OBVIOUS
<1> USE DEF CInv, TypeOK, MonitorPoints, procVars, callVars
<1>1. CASE StartSpawn
  BY <1>1 DEF StartSpawn, Spawned, Children
<1>2. CASE StartSpawnFails
  BY <1>2 DEF StartSpawnFails
<1>3. CASE StartSpawnLeaks
  BY <1>3 DEF StartSpawnLeaks, Lost, Children
<1>4. CASE StartHealthy
  BY <1>4 DEF StartHealthy
<1>5. CASE StartUnhealthy
  BY <1>5 DEF StartUnhealthy
<1>6. CASE MonitorPoll
  BY <1>6 DEF MonitorPoll
<1>7. CASE MonitorCheck
  BY <1>7 DEF MonitorCheck, KillAndReap
<1>8. CASE MonitorDied
  BY <1>8 DEF MonitorDied
<1>9. CASE MonitorSpawn
  BY <1>9 DEF MonitorSpawn, Spawned, Children
<1>10. CASE MonitorSpawnFails
  BY <1>10 DEF MonitorSpawnFails
<1>11. CASE MonitorSpawnLeaks
  BY <1>11 DEF MonitorSpawnLeaks, Lost, Children
<1>12. CASE MonitorStore
  BY <1>12 DEF MonitorStore
<1>13. CASE MonitorRecheck
  BY <1>13 DEF MonitorRecheck, Quiet
<1>14. CASE MonitorSweep
  BY <1>14 DEF MonitorSweep, KillAndReap
<1>15. CASE MonitorPinged
  BY <1>15 DEF MonitorPinged
<1>16. CASE ShutdownFlag
  BY <1>16 DEF ShutdownFlag
<1>17. CASE ShutdownTake
  BY <1>17 DEF ShutdownTake
<1>18. CASE ShutdownTerm
  BY <1>18 DEF ShutdownTerm
<1>19. CASE ShutdownKill
  BY <1>19 DEF ShutdownKill, KillAndReap
<1>20. ASSUME NEW t \in Threads, CallUnavailable(t) PROVE TypeOK'
  BY <1>20 DEF CallUnavailable, Quiet
<1>21. ASSUME NEW t \in Threads, CallWrite(t) PROVE TypeOK'
  BY <1>21 DEF CallWrite, Quiet
<1>22. ASSUME NEW t \in Threads, CallWriteFails(t) \/ CallWritten(t) PROVE TypeOK'
  <2>1. /\ leader' \in [Children -> {"none", "run", "zombie", "reaped", "lost"}]
        /\ kin' \in [Children -> BOOLEAN] /\ spawned' = spawned
    BY <1>22 DEF CallWriteFails, CallWritten, KillGroup
  <2>2. call' \in [Threads -> [at : {"idle", "write", "wait", "ok", "err"},
                               k : Children \cup {None}, id : Nat, got : Nat]]
    <3>1. CASE call' = [call EXCEPT ![t].at = "err"]
      BY <3>1
    <3>2. CASE call' = [call EXCEPT ![t].at = "wait"]
      BY <3>2
    <3>3. QED BY <1>22, <3>1, <3>2 DEF CallWriteFails, CallWritten
  <2>3. QED
    BY <1>22, <2>1, <2>2 DEF CallWriteFails, CallWritten
<1>23. ASSUME NEW t \in Threads, CallReceive(t) PROVE TypeOK'
  <2>1. call[t].k \in Children /\ stream[call[t].k] \in [sent : Nat, answered : Nat, read : Nat]
    BY <1>23 DEF CallReceive, CallShape, CallIntegrity, Threads
  <2>2. stream' \in [Children -> [sent : Nat, answered : Nat, read : Nat]]
    BY <1>23, <2>1 DEF CallReceive
  <2>3. call' \in [Threads -> [at : {"idle", "write", "wait", "ok", "err"}, k : Children \cup {None},
                               id : Nat, got : Nat]]
    BY <1>23, <2>1 DEF CallReceive
  <2>4. QED
    BY <1>23, <2>2, <2>3 DEF CallReceive
<1>24. ASSUME NEW t \in Threads, CallGarbled(t) PROVE TypeOK'
  <2>1. call[t].k \in Children /\ stream[call[t].k] \in [sent : Nat, answered : Nat, read : Nat]
    BY <1>24 DEF CallGarbled, CallShape, CallIntegrity, Threads
  <2>2. stream' \in [Children -> [sent : Nat, answered : Nat, read : Nat]]
    BY <1>24, <2>1 DEF CallGarbled
  <2>3. call' \in [Threads -> [at : {"idle", "write", "wait", "ok", "err"}, k : Children \cup {None},
                               id : Nat, got : Nat]]
    BY <1>24, <2>1 DEF CallGarbled
  <2>4. QED
    BY <1>24, <2>2, <2>3 DEF CallGarbled
<1>25. ASSUME NEW t \in Threads, CallTimeout(t) PROVE TypeOK'
  BY <1>25 DEF CallTimeout
<1>26. ASSUME NEW t \in Threads, CallBroken(t) PROVE TypeOK'
  <2>1. /\ leader' \in [Children -> {"none", "run", "zombie", "reaped", "lost"}]
        /\ kin' \in [Children -> BOOLEAN] /\ spawned' = spawned
    BY <1>26 DEF CallBroken, KillGroup
  <2>2. call' \in [Threads -> [at : {"idle", "write", "wait", "ok", "err"},
                               k : Children \cup {None}, id : Nat, got : Nat]]
    BY <1>26 DEF CallBroken
  <2>3. QED
    BY <1>26, <2>1, <2>2 DEF CallBroken
<1>27. ASSUME NEW k \in Children, Answer(k) PROVE TypeOK'
  BY <1>27 DEF Answer
<1>28. ASSUME NEW k \in Children, Exit(k) PROVE TypeOK'
  BY <1>28 DEF Exit
<1>29. ASSUME NEW k \in Children, KinChanges(k) PROVE TypeOK'
  BY <1>29 DEF KinChanges
<1>30. CASE UNCHANGED vars
  BY <1>30 DEF vars
<1>31. QED
  BY <1>1, <1>2, <1>3, <1>4, <1>5, <1>6, <1>7, <1>8, <1>9, <1>10, <1>11, <1>12, <1>13, <1>14, <1>15, <1>16, <1>17, <1>18, <1>19, <1>20, <1>21, <1>22, <1>23, <1>24, <1>25, <1>26, <1>27, <1>28, <1>29, <1>30
  DEF Next, Start, Monitor, CallBegins, CallEnds, Shutdown, Sidecar

LEMMA CallInit == Init => CInv
  BY TypeInit DEF Init, CInv, CallShape, CallIntegrity, Calling, Quiet, Threads

LEMMA CallNext == CInv /\ [Next]_vars => CInv'
<1> SUFFICES ASSUME CInv, [Next]_vars PROVE CallShape' /\ CallIntegrity'
  BY TypeNext DEF CInv
<1> USE DEF CInv, TypeOK, CallShape, CallIntegrity, Calling, procVars, callVars
<1>1. CASE StartSpawn
  BY <1>1 DEF StartSpawn, Spawned
<1>2. CASE StartSpawnFails
  BY <1>2 DEF StartSpawnFails
<1>3. CASE StartSpawnLeaks
  BY <1>3 DEF StartSpawnLeaks, Lost
<1>4. CASE StartHealthy
  BY <1>4 DEF StartHealthy
<1>5. CASE StartUnhealthy
  BY <1>5 DEF StartUnhealthy
<1>6. CASE MonitorPoll
  BY <1>6 DEF MonitorPoll
<1>7. CASE MonitorCheck
  BY <1>7 DEF MonitorCheck, KillAndReap
<1>8. CASE MonitorDied
  BY <1>8 DEF MonitorDied
<1>9. CASE MonitorSpawn
  BY <1>9 DEF MonitorSpawn, Spawned
<1>10. CASE MonitorSpawnFails
  BY <1>10 DEF MonitorSpawnFails
<1>11. CASE MonitorSpawnLeaks
  BY <1>11 DEF MonitorSpawnLeaks, Lost
<1>12. CASE MonitorStore
  BY <1>12 DEF MonitorStore
<1>13. CASE MonitorRecheck
  BY <1>13 DEF MonitorRecheck, Quiet, Threads
<1>14. CASE MonitorSweep
  BY <1>14 DEF MonitorSweep, KillAndReap
<1>15. CASE MonitorPinged
  BY <1>15 DEF MonitorPinged
<1>16. CASE ShutdownFlag
  BY <1>16 DEF ShutdownFlag
<1>17. CASE ShutdownTake
  BY <1>17 DEF ShutdownTake
<1>18. CASE ShutdownTerm
  BY <1>18 DEF ShutdownTerm
<1>19. CASE ShutdownKill
  BY <1>19 DEF ShutdownKill, KillAndReap
<1>20. ASSUME NEW t \in Threads, CallUnavailable(t) PROVE CallShape' /\ CallIntegrity'
  BY <1>20 DEF CallUnavailable, Quiet
<1>21. ASSUME NEW t \in Threads, CallWrite(t) PROVE CallShape' /\ CallIntegrity'
  <2>1. /\ slot \in Children /\ slot' = slot /\ holder' = t /\ t # None
        /\ \A k \in Children : k # slot => stream'[k] = stream[k]
        /\ stream'[slot].sent = stream[slot].sent + 1
        /\ stream'[slot].read = stream[slot].read
        /\ stream'[slot].answered = stream[slot].answered
    BY <1>21 DEF CallWrite, Threads
  <2>2. /\ \A u \in Threads : u # t => call'[u] = call[u] /\ ~Calling(u)
        /\ call'[t] = [at |-> "write", k |-> slot, id |-> stream[slot].sent + 1, got |-> 0]
    BY <1>21 DEF CallWrite, Threads
  <2>3. t = "monitor" => monitor' = "ping"
    BY <1>21 DEF CallWrite, MayCall
  <2>4. stream[slot] \in [sent : Nat, answered : Nat, read : Nat]
    BY <2>1
  <2>5. CallShape'
    BY <2>1, <2>2, <2>3, <2>4, <1>21 DEF CallWrite
  <2>6. CallIntegrity'
    BY <2>1, <2>2, <2>4
  <2>7. QED BY <2>5, <2>6
<1>22. ASSUME NEW t \in Threads, CallWriteFails(t) \/ CallWritten(t)
       PROVE CallShape' /\ CallIntegrity'
  <2>1. CASE CallWritten(t)
    BY <2>1 DEF CallWritten
  <2>2. CASE CallWriteFails(t)
    BY <2>2 DEF CallWriteFails, KillGroup
  <2>3. QED BY <1>22, <2>1, <2>2
<1>23. ASSUME NEW t \in Threads, CallReceive(t) PROVE CallShape' /\ CallIntegrity'
  <2>1. /\ holder = t /\ t # None /\ slot \in Children /\ slot' = slot /\ call[t].k = slot
        /\ monitor' = monitor
        /\ stream[slot].read < stream[slot].answered
        /\ stream' = [stream EXCEPT ![slot].read = stream[slot].read + 1]
    BY <1>23 DEF CallReceive, Threads
  <2>2. /\ \A k \in Children : k # slot => stream'[k] = stream[k]
        /\ stream'[slot].sent = stream[slot].sent
        /\ stream'[slot].read = stream[slot].read + 1
        /\ stream'[slot].answered = stream[slot].answered
    BY <2>1
  <2>3. CASE stream[slot].read + 1 # call[t].id
    <3>1. UNCHANGED <<call, holder>>
      BY <1>23, <2>1, <2>3 DEF CallReceive
    <3>2. stream[slot].read + 1 < call[t].id
      <4>1. stream[slot].read \in Nat /\ call[t].id \in Nat /\ stream[slot].read < call[t].id
        BY <2>1
      <4>2. QED BY <2>3, <4>1, LessSucc
    <3>3. starter' = starter
      BY <1>23 DEF CallReceive
    <3>4. QED BY <2>1, <2>2, <3>1, <3>2, <3>3
  <2>4. CASE stream[slot].read + 1 = call[t].id
    <3>1. /\ holder' = None
          /\ call' = [call EXCEPT ![t].at = "ok", ![t].got = call[t].id]
      BY <1>23, <2>1, <2>4 DEF CallReceive
    <3>2. starter' = starter
      BY <1>23 DEF CallReceive
    <3>3. /\ \A u \in Threads : u # t => call'[u] = call[u] /\ ~Calling(u)
          /\ call'[t].at = "ok" /\ call'[t].got = call[t].id /\ call'[t].id = call[t].id
      BY <2>1, <3>1
    <3>4. CallShape'
      <4>1. /\ stream[slot].read \in Nat /\ stream[slot].answered \in Nat
            /\ stream[slot].answered <= stream[slot].sent
        BY <2>1
      <4>2. \A k \in Children : /\ stream'[k].read <= stream'[k].answered
                               /\ stream'[k].answered <= stream'[k].sent
        BY <2>1, <2>2, <4>1, LessSucc
      <4>3. QED BY <2>1, <3>1, <3>2, <3>3, <4>2 DEF Threads
    <3>5. CallIntegrity'
      BY <3>1, <3>3
    <3>6. QED BY <3>4, <3>5
  <2>5. QED BY <2>3, <2>4
<1>24. ASSUME NEW t \in Threads, CallGarbled(t) PROVE CallShape' /\ CallIntegrity'
  BY <1>24 DEF CallGarbled
<1>25. ASSUME NEW t \in Threads, CallTimeout(t) PROVE CallShape' /\ CallIntegrity'
  BY <1>25 DEF CallTimeout
<1>26. ASSUME NEW t \in Threads, CallBroken(t) PROVE CallShape' /\ CallIntegrity'
  BY <1>26 DEF CallBroken, KillGroup
<1>27. ASSUME NEW k \in Children, Answer(k) PROVE CallShape' /\ CallIntegrity'
  BY <1>27 DEF Answer
<1>28. ASSUME NEW k \in Children, Exit(k) PROVE CallShape' /\ CallIntegrity'
  BY <1>28 DEF Exit
<1>29. ASSUME NEW k \in Children, KinChanges(k) PROVE CallShape' /\ CallIntegrity'
  BY <1>29 DEF KinChanges
<1>30. CASE UNCHANGED vars
  BY <1>30 DEF vars
<1>31. QED
  BY <1>1, <1>2, <1>3, <1>4, <1>5, <1>6, <1>7, <1>8, <1>9, <1>10, <1>11, <1>12, <1>13, <1>14, <1>15, <1>16, <1>17, <1>18, <1>19, <1>20, <1>21, <1>22, <1>23, <1>24, <1>25, <1>26, <1>27, <1>28, <1>29, <1>30
  DEF Next, Start, Monitor, CallBegins, CallEnds, Shutdown, Sidecar

Owned == SpawnShape /\ HandShape /\ OwnedGroups /\ AfterTake /\ DropShape

LEMMA OwnedInit == Init => OInv
  BY CallInit, ChildrenFact DEF Init, OInv, SpawnShape, HandShape, OwnedGroups, AfterTake, DropShape,
                                 GroupAlive

LEMMA OwnedNext == OInv /\ [Next]_vars => OInv'
<1> SUFFICES ASSUME OInv, [Next]_vars PROVE Owned'
  BY CallNext DEF OInv, Owned
<1> USE DEF OInv, CInv, TypeOK, Owned, SpawnShape, HandShape, OwnedGroups, AfterTake,
            DropShape,
            GroupAlive, procVars, callVars
<1>1. CASE StartSpawn
  BY <1>1 DEF StartSpawn, Spawned, Children
<1>2. CASE StartSpawnFails
  BY <1>2 DEF StartSpawnFails
<1>3. CASE StartSpawnLeaks
  BY <1>3 DEF StartSpawnLeaks, Lost, Children
<1>4. CASE StartHealthy
  BY <1>4 DEF StartHealthy, CallShape
<1>5. CASE StartUnhealthy
  BY <1>5 DEF StartUnhealthy
<1>6. CASE MonitorPoll
  BY <1>6 DEF MonitorPoll
<1>7. CASE MonitorCheck
  BY <1>7 DEF MonitorCheck, KillAndReap
<1>8. CASE MonitorDied
  BY <1>8 DEF MonitorDied
<1>9. CASE MonitorSpawn
  <2>1. starter = "done" /\ starter' = starter
    BY <1>9 DEF MonitorSpawn, CallShape
  <2>2. \A k \in Children : k = 1 => leader[k] # "lost"
    BY <2>1
  <2>3. PICK c \in Children : c = spawned + 1 /\ Spawned(c)
    BY <1>9 DEF MonitorSpawn, Spawned
  <2>4. c # 1
    BY <1>9, <2>3 DEF MonitorSpawn, Children
  <2>5. /\ spawned' = c /\ kin' = kin /\ leader'[c] = "run"
        /\ \A k \in Children : k # c => leader'[k] = leader[k]
    BY <2>3 DEF Spawned
  <2>6. DropShape'
    <3>1. fresh' = c /\ slot' = slot /\ taken' = taken
      BY <1>9, <2>3 DEF MonitorSpawn, Spawned
    <3>2. \A k \in Children : leader'[k] = "lost" => k # c /\ leader[k] = "lost"
      BY <2>5
    <3>3. QED BY <2>2, <2>5, <3>1, <3>2
  <2>7. (SpawnShape /\ HandShape /\ OwnedGroups /\ AfterTake)'
    BY <1>9 DEF MonitorSpawn, Spawned, Children
  <2>8. QED BY <2>6, <2>7
<1>10. CASE MonitorSpawnFails
  BY <1>10 DEF MonitorSpawnFails
<1>11. CASE MonitorSpawnLeaks
  <2>1. starter = "done" /\ starter' = starter
    BY <1>11 DEF MonitorSpawnLeaks, CallShape
  <2>2. \A k \in Children : k = 1 => leader[k] # "lost"
    BY <2>1
  <2>3. PICK c \in Children : c = spawned + 1 /\ Lost(c)
    BY <1>11 DEF MonitorSpawnLeaks, Lost
  <2>4. c # 1
    BY <1>11, <2>3 DEF MonitorSpawnLeaks, Children
  <2>5. /\ spawned' = c /\ kin' = kin /\ leader'[c] = "lost"
        /\ \A k \in Children : k # c => leader'[k] = leader[k]
    BY <2>3 DEF Lost
  <2>6. DropShape'
    <3>1. fresh' = fresh /\ slot' = slot /\ taken' = taken
      BY <1>11 DEF MonitorSpawnLeaks
    <3>2. \A k \in Children : leader'[k] = "lost" => k = c \/ leader[k] = "lost"
      BY <2>5
    <3>3. ~kin[c] /\ c \notin {slot, fresh, taken}
      BY <2>3 DEF Children
    <3>4. QED BY <2>2, <2>4, <2>5, <3>1, <3>2, <3>3
  <2>7. (SpawnShape /\ HandShape /\ OwnedGroups /\ AfterTake)'
    BY <1>11 DEF MonitorSpawnLeaks, Lost, Children
  <2>8. QED BY <2>6, <2>7
<1>12. CASE MonitorStore
  BY <1>12 DEF MonitorStore
<1>13. CASE MonitorRecheck
  BY <1>13 DEF MonitorRecheck
<1>14. CASE MonitorSweep
  <2>1. CASE slot = None
    BY <1>14, <2>1 DEF MonitorSweep, KillAndReap
  <2>2. CASE slot # None
    <3>1. slot \in Children /\ slot <= spawned
      BY <2>2
    <3>2. /\ \A k \in Children : k # slot => leader'[k] = leader[k] /\ kin'[k] = kin[k]
          /\ leader'[slot] = "reaped" /\ ~kin'[slot] /\ spawned' = spawned
      BY <1>14, <2>2, <3>1 DEF MonitorSweep, KillAndReap
    <3>3. QED BY <1>14, <3>1, <3>2, ChildrenFact DEF MonitorSweep
  <2>3. QED BY <2>1, <2>2
<1>15. CASE MonitorPinged
  BY <1>15 DEF MonitorPinged
<1>16. CASE ShutdownFlag
  BY <1>16 DEF ShutdownFlag
<1>17. CASE ShutdownTake
  BY <1>17 DEF ShutdownTake
<1>18. CASE ShutdownTerm
  BY <1>18 DEF ShutdownTerm
<1>19. CASE ShutdownKill
  <2>1. taken \in Children /\ taken <= spawned
    BY <1>19 DEF ShutdownKill
  <2>2. /\ \A k \in Children : k # taken => leader'[k] = leader[k] /\ kin'[k] = kin[k]
        /\ leader'[taken] = "reaped" /\ ~kin'[taken] /\ spawned' = spawned
    BY <1>19, <2>1 DEF ShutdownKill, KillAndReap
  <2>3. QED BY <1>19, <2>1, <2>2, ChildrenFact DEF ShutdownKill
<1>20. ASSUME NEW t \in Threads, CallUnavailable(t) PROVE Owned'
  BY <1>20 DEF CallUnavailable
<1>21. ASSUME NEW t \in Threads, CallWrite(t) PROVE Owned'
  BY <1>21 DEF CallWrite
<1>22. ASSUME NEW t \in Threads, CallWriteFails(t) \/ CallWritten(t) PROVE Owned'
  BY <1>22 DEF CallWriteFails, CallWritten, KillGroup
<1>23. ASSUME NEW t \in Threads, CallReceive(t) PROVE Owned'
  BY <1>23 DEF CallReceive
<1>24. ASSUME NEW t \in Threads, CallGarbled(t) PROVE Owned'
  BY <1>24 DEF CallGarbled
<1>25. ASSUME NEW t \in Threads, CallTimeout(t) PROVE Owned'
  BY <1>25 DEF CallTimeout
<1>26. ASSUME NEW t \in Threads, CallBroken(t) PROVE Owned'
  <2>1. slot \in Children /\ slot <= spawned /\ call[t].k = slot
    BY <1>26 DEF CallBroken, CallShape, CallIntegrity, Threads
  <2>2. /\ \A k \in Children : k # slot => leader'[k] = leader[k] /\ kin'[k] = kin[k]
        /\ leader'[slot] # "run" /\ ~kin'[slot] /\ spawned' = spawned
    BY <1>26, <2>1 DEF CallBroken, KillGroup
  <2>3. /\ slot' = None /\ UNCHANGED <<shutting, starter, monitor, fresh, shut, taken>>
    BY <1>26 DEF CallBroken
  <2>4. DropShape'
    <3>1. leader[slot] # "lost"
      BY <2>1
    <3>2. leader'[slot] # "lost"
      BY <1>26, <2>1, <3>1 DEF CallBroken, KillGroup
    <3>3. \A k \in Children : leader'[k] = "lost" => leader[k] = "lost" /\ k # slot
      BY <2>2, <3>2
    <3>4. QED BY <2>2, <2>3, <3>3, ChildrenFact
  <2>5. (SpawnShape /\ HandShape /\ OwnedGroups /\ AfterTake)'
    BY <2>1, <2>2, <2>3, ChildrenFact
  <2>6. QED BY <2>4, <2>5
<1>27. ASSUME NEW k \in Children, Answer(k) PROVE Owned'
  BY <1>27 DEF Answer
<1>28. ASSUME NEW k \in Children, Exit(k) PROVE Owned'
  BY <1>28 DEF Exit
<1>29. ASSUME NEW k \in Children, KinChanges(k) PROVE Owned'
  BY <1>29 DEF KinChanges
<1>30. CASE UNCHANGED vars
  BY <1>30 DEF vars
<1>31. QED
  BY <1>1, <1>2, <1>3, <1>4, <1>5, <1>6, <1>7, <1>8, <1>9, <1>10, <1>11, <1>12, <1>13, <1>14, <1>15, <1>16, <1>17, <1>18, <1>19, <1>20, <1>21, <1>22, <1>23, <1>24, <1>25, <1>26, <1>27, <1>28, <1>29, <1>30
  DEF Next, Start, Monitor, CallBegins, CallEnds, Shutdown, Sidecar

\* The calls of the supervisor (call(), wait_healthy()) stay in step with the
\* frame stream, and no call returns the late answer of another.
THEOREM CallsKeepStep == Spec => []CallIntegrity
<1>1. CInv => CallIntegrity
  BY DEF CInv
<1>2. QED
  BY <1>1, CallInit, CallNext, PTL DEF Spec

\* The type invariant of the supervisor.
THEOREM SupervisorTypeCorrect == Spec => []TypeOK
<1>1. CInv => TypeOK
  BY DEF CInv
<1>2. QED
  BY <1>1, CallInit, CallNext, PTL DEF Spec

\* No sidecar group that spawn_child returned is ever without an owner (slot,
\* monitor or shutdown()).
THEOREM GroupsAreOwned == Spec => []OwnedGroups
<1>1. OInv => OwnedGroups
  BY DEF OInv
<1>2. QED
  BY <1>1, OwnedInit, OwnedNext, PTL DEF Spec

\* Two sidecars live at once only while shutdown() is ending one of them, or when
\* one of them is a respawn that spawn_child dropped (supervisor.rs, spawn_child):
\* every other way out of the slot leaves no living group behind.
THEOREM SecondSidecarIsDropped == Spec => []SecondIsDropped
<1>1. OInv => SecondIsDropped
  <2> SUFFICES ASSUME OInv, NEW j \in Living, NEW k \in Living, j # taken, k # taken, j # k
               PROVE  \E d \in {j, k} \ {1} : leader[d] = "lost"
    BY DEF SecondIsDropped
  <2>1. j \in Children /\ k \in Children
    BY DEF Living
  <2>2. leader[j] # "lost" => j \in {slot, fresh}
    BY <2>1 DEF Living, OInv, OwnedGroups
  <2>3. leader[k] # "lost" => k \in {slot, fresh}
    BY <2>1 DEF Living, OInv, OwnedGroups
  <2>4. fresh = None \/ slot = None
    BY DEF OInv, HandShape
  <2>5. leader[j] = "lost" \/ leader[k] = "lost"
    BY <2>1, <2>2, <2>3, <2>4, ChildrenFact
  <2>6. \A c \in Children : leader[1] = "lost" /\ 1 \in Children /\ c \in Living => c = 1
    <3> SUFFICES ASSUME NEW c \in Children, leader[1] = "lost", 1 \in Children, c \in Living
                 PROVE  c = 1
      OBVIOUS
    <3>1. spawned = 1
      BY DEF OInv, DropShape
    <3>2. c <= spawned
      BY <3>1 DEF Living, GroupAlive, OInv, SpawnShape, CInv, TypeOK, Children
    <3>3. QED BY <3>1, <3>2 DEF Children
  <2>7. CASE leader[j] = "lost"
    BY <2>1, <2>6, <2>7
  <2>8. CASE leader[k] = "lost"
    BY <2>1, <2>6, <2>8
  <2>9. QED BY <2>5, <2>7, <2>8
<1>2. QED
  BY <1>1, OwnedInit, OwnedNext, PTL DEF Spec

\* After shutdown() and the monitor's end no respawned sidecar is left: the
\* re-check of monitor_loop closes the race with an empty slot.
THEOREM RespawnRaceClosed == Spec => []RespawnsSwept
<1>1. OInv => RespawnsSwept
  <2> SUFFICES ASSUME OInv, shut = "done", monitor = "end",
                      NEW k \in Children, k # 1, GroupAlive(k)
               PROVE  FALSE
    BY DEF RespawnsSwept
  <2>1. k \in {slot, fresh, taken}
    BY DEF OInv, OwnedGroups
  <2>2. fresh = None /\ taken = None
    BY DEF OInv, HandShape
  <2>3. slot \in {None, 1}
    BY DEF OInv, AfterTake
  <2>4. QED BY <2>1, <2>2, <2>3, ChildrenFact
<1>2. QED
  BY <1>1, OwnedInit, OwnedNext, PTL DEF Spec
=============================================================================
