------------------------- MODULE WatchSessionProofs -------------------------
(***************************************************************************)
(* The safety of the watch session.  For any number of starts: the types,  *)
(* a session that says it is watching has the thread of its newest start   *)
(* behind it, and a loop has one prove at most under the same start.  For  *)
(* one start, with any commits and any number of moves of HEAD: runs that  *)
(* follow each other.  (After a second start two loops may both take the   *)
(* same commit, so neither RunsChain nor OneAtATime holds of two.)         *)
(***************************************************************************)
EXTENDS WatchSession, TLAPS

(* A thread that has created a row is at it, and a start that was resolved is *)
(* one the session still allows.                                              *)
ThreadsFit ==
  /\ Len(prove) = Len(runs)
  /\ handler.at = "resolved" => gen < MaxStarts
  /\ \A g \in Gens : loop[g].at \in {"take", "spawn", "await"} => loop[g].run \in 1..Len(prove)

(* The thread of the newest start is where a session that watches can be. *)
WatchFits ==
  state.watching =>
    gen \in Gens /\ loop[gen].at \notin {"unborn", "dead", "failset", "failscope"}

WInv == TypeOK /\ ThreadsFit /\ WatchFits

(* Any number of starts.  A row is tagged with the loop that created it and *)
(* the generation it found.  A loop whose prove of the current generation   *)
(* still runs waits for it, or has seen the event and is on its way out; a  *)
(* row about to be proved has no brother that runs.                         *)
Tagged(r, g, d) == runs[r].by = g /\ runs[r].during = d
WayOut == {"clear", "top", "exit", "dead"}
TagsFit == \A r \in DOMAIN runs : runs[r].during <= gen
LoopFits ==
  \A r \in Registered, g \in Gens : Tagged(r, g, gen) =>
    \/ loop[g].at = "await" /\ loop[g].run = r
    \/ gen \in stopSet /\ loop[g].at \in WayOut
SpawnFits ==
  \A g \in Gens : loop[g].at \in {"take", "spawn"} =>
    /\ runs[loop[g].run].by = g
    /\ \A r \in Registered : ~Tagged(r, g, runs[loop[g].run].during)
LInv == WInv /\ TagsFit /\ LoopFits /\ SpawnFits /\ OnePerLoop

(* One start: what the only loop has taken, and what it is about to take. *)
Newest == runs[Len(runs)].head
ChainFits ==
  /\ gen = 0 => Len(runs) = 0
  /\ loop[1].at = "create" => loop[1].base = state.last /\ loop[1].head # loop[1].base
  /\ loop[1].at = "take" => Len(runs) > 0 /\ Newest = loop[1].head
  /\ loop[1].at # "take" /\ Len(runs) > 0 => state.last = Newest
  /\ RunsChain

(* One start: the loop is there once the session was started. *)
StartedFits == gen = 0 => loop[1].at = "unborn"

SInv == WInv /\ ChainFits /\ StartedFits


Repos == [head : Commits, readable : BOOLEAN, moves : 0..MaxMoves]
States == [watching : BOOLEAN, last : Commits, active : Nat]
Loops == [at : Points, scope : 0..MaxStarts, base : Commits, head : Commits, run : Nat]
Handlers == [at : {"idle", "resolved", "marked", "set", "cut"}, sha : Commits,
             run : Nat, stopped : BOOLEAN, stops : 0..MaxStops]

Rows == [base : Commits, head : Commits, by : Gens, during : 0..MaxStarts]
RowsOK ==
  /\ runs \in Seq(Rows)
  /\ prove \in Seq({"row", "active", "over"})
  /\ asked \subseteq Nat /\ Len(prove) = Len(runs)

(* TypeOK, by parts. *)
LEMMA Typed ==
  TypeOK <=> /\ repo \in Repos /\ paused \in BOOLEAN /\ state \in States /\ handler \in Handlers
             /\ gen \in 0..MaxStarts
             /\ stopSet \subseteq 0..MaxStarts /\ scopeCut \subseteq 0..MaxStarts
             /\ loop \in [Gens -> Loops]
             /\ runs \in Seq(Rows)
             /\ prove \in Seq({"row", "active", "over"})
             /\ asked \subseteq Nat
BY DEF TypeOK, Repos, States, Handlers, Loops, Rows

(* A loop at any point with locals that hold nothing. *)
LEMMA FreshTyped == ASSUME NEW l \in Points PROVE Fresh(l) \in Loops
BY WatchAssumption DEF Fresh, Loops, None

(* A loop that goes to another point with its locals. *)
LEMMA MovedTyped ==
  ASSUME TypeOK, NEW g \in Gens, NEW l \in Points
  PROVE  [loop[g] EXCEPT !.at = l] \in Loops
<1>1. loop[g] \in Loops
  BY Typed
<1>2. QED
  BY <1>1 DEF Loops

(* One loop changes. *)
LEMMA LoopPut ==
  ASSUME TypeOK, NEW g \in Gens, NEW x \in Loops, loop' = [loop EXCEPT ![g] = x]
  PROVE  loop' \in [Gens -> Loops]
BY Typed

(* The fields that others read. *)
LEMMA StateTyped ==
  ASSUME TypeOK
  PROVE  repo.head \in Commits /\ state.last \in Commits /\ state.active \in Nat
         /\ handler.sha \in Commits /\ handler.run \in Nat
BY Typed DEF Repos, States, Handlers

(* One loop. *)
LEMMA LoopTyped ==
  ASSUME TypeOK, NEW g \in Gens
  PROVE  loop[g] \in Loops
BY Typed

(* The loops keep their types. *)
LEMMA LoopsTyped ==
  ASSUME WInv, [Next]_vars
  PROVE  loop' \in [Gens -> Loops]
<1> USE Typed DEF WInv
<1>1. CASE StartResolve
  BY <1>1 DEF StartResolve
<1>2. CASE Start
  <2>1. gen + 1 \in Gens
    BY <1>2, WatchAssumption DEF Start, ThreadsFit, Gens
  <2>2. [loop[gen + 1] EXCEPT !.at = "top"] \in Loops
    BY <2>1, MovedTyped DEF Points
  <2>3. loop' = [loop EXCEPT ![gen + 1] = [loop[gen + 1] EXCEPT !.at = "top"]]
    BY <1>2 DEF Start
  <2>4. QED
    BY <2>1, <2>2, <2>3, LoopPut
<1>3. CASE StartRaises
  <2>1. gen + 1 \in Gens
    BY <1>3, WatchAssumption DEF StartRaises, ThreadsFit, Gens
  <2>2. [loop[gen + 1] EXCEPT !.at = "crashed"] \in Loops
    BY <2>1, MovedTyped DEF Points
  <2>3. loop' = [loop EXCEPT ![gen + 1] = [loop[gen + 1] EXCEPT !.at = "crashed"]]
    BY <1>3 DEF StartRaises
  <2>4. QED
    BY <2>1, <2>2, <2>3, LoopPut
<1>4. CASE StartRefused
  BY <1>4 DEF StartRefused
<1>5. CASE StopMark
  BY <1>5 DEF StopMark
<1>6. CASE StopSet
  BY <1>6 DEF StopSet
<1>7. CASE StopScope
  BY <1>7 DEF StopScope
<1>8. CASE StopCancel
  BY <1>8 DEF StopCancel
<1>9. ASSUME NEW g \in Gens, LoopTop(g) PROVE loop' \in [Gens -> Loops]
  <2>1. \A l \in Points : Fresh(l) \in Loops /\ [loop[g] EXCEPT !.at = l] \in Loops
    BY FreshTyped, MovedTyped
  <2>2. [loop[g] EXCEPT !.at = "hold", !.scope = gen] \in Loops
    BY LoopTyped, Typed DEF Loops, Points
  <2>3. \E x \in Loops : loop' = [loop EXCEPT ![g] = x]
    BY <1>9, <2>1, <2>2 DEF LoopTop, Points
  <2>4. QED
    BY <2>3, LoopPut
<1>10. ASSUME NEW g \in Gens, Hold(g) PROVE loop' \in [Gens -> Loops]
  <2>1. \A l \in Points : Fresh(l) \in Loops /\ [loop[g] EXCEPT !.at = l] \in Loops
    BY FreshTyped, MovedTyped
  <2>2. \E x \in Loops : loop' = [loop EXCEPT ![g] = x]
    BY <1>10, <2>1 DEF Hold, Forget, Goto, Points
  <2>3. QED
    BY <2>2, LoopPut
<1>11. ASSUME NEW g \in Gens, Probe(g) PROVE loop' \in [Gens -> Loops]
  <2>1. \A l \in Points : Fresh(l) \in Loops /\ [loop[g] EXCEPT !.at = l] \in Loops
    BY FreshTyped, MovedTyped
  <2>2. \E x \in Loops : loop' = [loop EXCEPT ![g] = x]
    BY <1>11, <2>1 DEF Probe, Forget, Goto, Points
  <2>3. QED
    BY <2>2, LoopPut
<1>12. ASSUME NEW g \in Gens, PollHead(g) PROVE loop' \in [Gens -> Loops]
  <2>1. \A l \in Points : Fresh(l) \in Loops /\ [loop[g] EXCEPT !.at = l] \in Loops
    BY FreshTyped, MovedTyped
  <2>2. [loop[g] EXCEPT !.at = "read", !.head = repo.head] \in Loops
    BY LoopTyped, StateTyped DEF Loops, Points
  <2>3. \E x \in Loops : loop' = [loop EXCEPT ![g] = x]
    BY <1>12, <2>1, <2>2 DEF PollHead, Points
  <2>4. QED
    BY <2>3, LoopPut
<1>13. ASSUME NEW g \in Gens, ReadLast(g) PROVE loop' \in [Gens -> Loops]
  <2>1. \A l \in Points : Fresh(l) \in Loops /\ [loop[g] EXCEPT !.at = l] \in Loops
    BY FreshTyped, MovedTyped
  <2>2. [loop[g] EXCEPT !.base = state.last, !.at = "create"] \in Loops
    BY LoopTyped, StateTyped DEF Loops, Points
  <2>3. \E x \in Loops : loop' = [loop EXCEPT ![g] = x]
    BY <1>13, <2>1, <2>2 DEF ReadLast, Forget, Points
  <2>4. QED
    BY <2>3, LoopPut
<1>14. ASSUME NEW g \in Gens, CreateWatchRun(g) PROVE loop' \in [Gens -> Loops]
  <2>1. \A l \in Points : Fresh(l) \in Loops /\ [loop[g] EXCEPT !.at = l] \in Loops
    BY FreshTyped, MovedTyped
  <2>2. [loop[g] EXCEPT !.at = "take", !.run = Len(runs) + 1] \in Loops
    <3>1. Len(runs) + 1 \in Nat
      BY Typed
    <3>2. QED
      BY <3>1, LoopTyped DEF Loops, Points
  <2>3. \E x \in Loops : loop' = [loop EXCEPT ![g] = x]
    BY <1>14, <2>1, <2>2 DEF CreateWatchRun, Points
  <2>4. QED
    BY <2>3, LoopPut
<1>15. ASSUME NEW g \in Gens, CreateFails(g) PROVE loop' \in [Gens -> Loops]
  <2>1. \A l \in Points : Fresh(l) \in Loops /\ [loop[g] EXCEPT !.at = l] \in Loops
    BY FreshTyped, MovedTyped
  <2>2. [Fresh("fail") EXCEPT !.run = Len(runs) + 1] \in Loops
    <3>1. Len(runs) + 1 \in Nat
      BY Typed
    <3>2. Fresh("fail") \in Loops
      BY <2>1 DEF Points
    <3>3. QED
      BY <3>1, <3>2 DEF Loops
  <2>3. \E x \in Loops : loop' = [loop EXCEPT ![g] = x]
    BY <1>15, <2>1, <2>2 DEF CreateFails, Points
  <2>4. QED
    BY <2>3, LoopPut
<1>16. ASSUME NEW g \in Gens, Take(g) PROVE loop' \in [Gens -> Loops]
  <2>1. \A l \in Points : Fresh(l) \in Loops /\ [loop[g] EXCEPT !.at = l] \in Loops
    BY FreshTyped, MovedTyped
  <2>2. \E x \in Loops : loop' = [loop EXCEPT ![g] = x]
    BY <1>16, <2>1 DEF Take, Goto, Points
  <2>3. QED
    BY <2>2, LoopPut
<1>17. ASSUME NEW g \in Gens, SpawnProve(g) PROVE loop' \in [Gens -> Loops]
  <2>1. \A l \in Points : Fresh(l) \in Loops /\ [loop[g] EXCEPT !.at = l] \in Loops
    BY FreshTyped, MovedTyped
  <2>2. \E x \in Loops : loop' = [loop EXCEPT ![g] = x]
    BY <1>17, <2>1 DEF SpawnProve, Goto, Points
  <2>3. QED
    BY <2>2, LoopPut
<1>18. ASSUME NEW g \in Gens, SpawnRaises(g) PROVE loop' \in [Gens -> Loops]
  <2>1. \A l \in Points : Fresh(l) \in Loops /\ [loop[g] EXCEPT !.at = l] \in Loops
    BY FreshTyped, MovedTyped
  <2>2. \E x \in Loops : loop' = [loop EXCEPT ![g] = x]
    BY <1>18, <2>1 DEF SpawnRaises, Forget, Points
  <2>3. QED
    BY <2>2, LoopPut
<1>19. ASSUME NEW g \in Gens, AwaitProve(g) PROVE loop' \in [Gens -> Loops]
  <2>1. \A l \in Points : Fresh(l) \in Loops /\ [loop[g] EXCEPT !.at = l] \in Loops
    BY FreshTyped, MovedTyped
  <2>2. \E x \in Loops : loop' = [loop EXCEPT ![g] = x]
    BY <1>19, <2>1 DEF AwaitProve, Forget, Points
  <2>3. QED
    BY <2>2, LoopPut
<1>20. ASSUME NEW g \in Gens, ClearActive(g) PROVE loop' \in [Gens -> Loops]
  <2>1. \A l \in Points : Fresh(l) \in Loops /\ [loop[g] EXCEPT !.at = l] \in Loops
    BY FreshTyped, MovedTyped
  <2>2. \E x \in Loops : loop' = [loop EXCEPT ![g] = x]
    BY <1>20, <2>1 DEF ClearActive, Goto, Points
  <2>3. QED
    BY <2>2, LoopPut
<1>22. ASSUME NEW g \in Gens, LoopExit(g) PROVE loop' \in [Gens -> Loops]
  <2>1. \A l \in Points : Fresh(l) \in Loops /\ [loop[g] EXCEPT !.at = l] \in Loops
    BY FreshTyped, MovedTyped
  <2>2. \E x \in Loops : loop' = [loop EXCEPT ![g] = x]
    BY <1>22, <2>1 DEF LoopExit, Goto, Points
  <2>3. QED
    BY <2>2, LoopPut
<1>23. ASSUME NEW g \in Gens, FailMark(g) PROVE loop' \in [Gens -> Loops]
  <2>1. \A l \in Points : Fresh(l) \in Loops /\ [loop[g] EXCEPT !.at = l] \in Loops
    BY FreshTyped, MovedTyped
  <2>2. \E x \in Loops : loop' = [loop EXCEPT ![g] = x]
    BY <1>23, <2>1 DEF FailMark, Goto, Points
  <2>3. QED
    BY <2>2, LoopPut
<1>24. ASSUME NEW g \in Gens, FailSet(g) PROVE loop' \in [Gens -> Loops]
  <2>1. \A l \in Points : Fresh(l) \in Loops /\ [loop[g] EXCEPT !.at = l] \in Loops
    BY FreshTyped, MovedTyped
  <2>2. \E x \in Loops : loop' = [loop EXCEPT ![g] = x]
    BY <1>24, <2>1 DEF FailSet, Goto, Points
  <2>3. QED
    BY <2>2, LoopPut
<1>25. ASSUME NEW g \in Gens, FailScope(g) PROVE loop' \in [Gens -> Loops]
  <2>1. \A l \in Points : Fresh(l) \in Loops /\ [loop[g] EXCEPT !.at = l] \in Loops
    BY FreshTyped, MovedTyped
  <2>2. \E x \in Loops : loop' = [loop EXCEPT ![g] = x]
    BY <1>25, <2>1 DEF FailScope, Forget, Points
  <2>3. QED
    BY <2>2, LoopPut
<1>26. ASSUME NEW c \in Commits, HeadMoves(c) PROVE loop' \in [Gens -> Loops]
  BY <1>26 DEF HeadMoves
<1>27. CASE RepoVanishes
  BY <1>27 DEF RepoVanishes
<1>28. CASE PowerChanges
  BY <1>28 DEF PowerChanges
<1>29. ASSUME NEW r \in DOMAIN prove, ProveEnds(r) PROVE loop' \in [Gens -> Loops]
  BY <1>29 DEF ProveEnds
<1>30. CASE UNCHANGED vars
  BY <1>30 DEF vars
<1>31. QED
  BY <1>1, <1>2, <1>3, <1>4, <1>5, <1>6, <1>7, <1>8, <1>9, <1>10, <1>11, <1>12, <1>13, <1>14, <1>15, <1>16, <1>17, <1>18, <1>19, <1>20, <1>22, <1>23, <1>24, <1>25, <1>26, <1>27, <1>28, <1>29, <1>30
     DEF Next, Starting, Stopping, LoopStep

(* The repository keeps its type. *)
LEMMA RepoTyped ==
  ASSUME WInv, [Next]_vars
  PROVE  repo' \in Repos
<1> USE Typed, WatchAssumption DEF WInv, Repos
<1>1. CASE StartResolve
  BY <1>1 DEF StartResolve, env
<1>2. CASE Start
  BY <1>2 DEF Start, env
<1>3. CASE StartRaises
  BY <1>3 DEF StartRaises, env
<1>4. CASE StartRefused
  BY <1>4 DEF StartRefused, env
<1>5. CASE StopMark
  BY <1>5 DEF StopMark, env
<1>6. CASE StopSet
  BY <1>6 DEF StopSet, env
<1>7. CASE StopScope
  BY <1>7 DEF StopScope, env
<1>8. CASE StopCancel
  BY <1>8 DEF StopCancel, env
<1>9. ASSUME NEW g \in Gens, LoopTop(g) PROVE repo' \in Repos
  BY <1>9 DEF LoopTop, env
<1>10. ASSUME NEW g \in Gens, Hold(g) PROVE repo' \in Repos
  BY <1>10 DEF Hold, Forget, Goto, env
<1>11. ASSUME NEW g \in Gens, Probe(g) PROVE repo' \in Repos
  BY <1>11 DEF Probe, Forget, Goto, env
<1>12. ASSUME NEW g \in Gens, PollHead(g) PROVE repo' \in Repos
  BY <1>12 DEF PollHead, env
<1>13. ASSUME NEW g \in Gens, ReadLast(g) PROVE repo' \in Repos
  BY <1>13 DEF ReadLast, Forget, env
<1>14. ASSUME NEW g \in Gens, CreateWatchRun(g) PROVE repo' \in Repos
  BY <1>14 DEF CreateWatchRun, env
<1>15. ASSUME NEW g \in Gens, CreateFails(g) PROVE repo' \in Repos
  BY <1>15 DEF CreateFails, env
<1>16. ASSUME NEW g \in Gens, Take(g) PROVE repo' \in Repos
  BY <1>16 DEF Take, Goto, env
<1>17. ASSUME NEW g \in Gens, SpawnProve(g) PROVE repo' \in Repos
  BY <1>17 DEF SpawnProve, Goto, env
<1>18. ASSUME NEW g \in Gens, SpawnRaises(g) PROVE repo' \in Repos
  BY <1>18 DEF SpawnRaises, Forget, env
<1>19. ASSUME NEW g \in Gens, AwaitProve(g) PROVE repo' \in Repos
  BY <1>19 DEF AwaitProve, Forget, env
<1>20. ASSUME NEW g \in Gens, ClearActive(g) PROVE repo' \in Repos
  BY <1>20 DEF ClearActive, Goto, env
<1>22. ASSUME NEW g \in Gens, LoopExit(g) PROVE repo' \in Repos
  BY <1>22 DEF LoopExit, Goto, env
<1>23. ASSUME NEW g \in Gens, FailMark(g) PROVE repo' \in Repos
  BY <1>23 DEF FailMark, Goto, env
<1>24. ASSUME NEW g \in Gens, FailSet(g) PROVE repo' \in Repos
  BY <1>24 DEF FailSet, Goto, env
<1>25. ASSUME NEW g \in Gens, FailScope(g) PROVE repo' \in Repos
  BY <1>25 DEF FailScope, Forget, env
<1>26. ASSUME NEW c \in Commits, HeadMoves(c) PROVE repo' \in Repos
  <2>1. repo.moves + 1 \in 0..MaxMoves
    BY <1>26 DEF HeadMoves
  <2>2. QED
    BY <1>26, <2>1 DEF HeadMoves
<1>27. CASE RepoVanishes
  BY <1>27 DEF RepoVanishes, env
<1>28. CASE PowerChanges
  BY <1>28 DEF PowerChanges, env
<1>29. ASSUME NEW r \in DOMAIN prove, ProveEnds(r) PROVE repo' \in Repos
  BY <1>29 DEF ProveEnds, env
<1>30. CASE UNCHANGED vars
  BY <1>30 DEF vars
<1>31. QED
  BY <1>1, <1>2, <1>3, <1>4, <1>5, <1>6, <1>7, <1>8, <1>9, <1>10, <1>11, <1>12, <1>13, <1>14, <1>15, <1>16, <1>17, <1>18, <1>19, <1>20, <1>22, <1>23, <1>24, <1>25, <1>26, <1>27, <1>28, <1>29, <1>30
     DEF Next, Starting, Stopping, LoopStep

(* The published state keeps its type. *)
LEMMA StatesTyped ==
  ASSUME WInv, [Next]_vars
  PROVE  state' \in States
<1> USE Typed, StateTyped, LoopTyped DEF WInv
<1>1. CASE StartResolve
  BY <1>1 DEF StartResolve
<1>2. CASE Start
  BY <1>2 DEF Start, States, None
<1>3. CASE StartRaises
  BY <1>3 DEF StartRaises, States, None
<1>4. CASE StartRefused
  BY <1>4 DEF StartRefused
<1>5. CASE StopMark
  BY <1>5 DEF StopMark, States
<1>6. CASE StopSet
  BY <1>6 DEF StopSet
<1>7. CASE StopScope
  BY <1>7 DEF StopScope
<1>8. CASE StopCancel
  BY <1>8 DEF StopCancel
<1>9. ASSUME NEW g \in Gens, LoopTop(g) PROVE state' \in States
  BY <1>9 DEF LoopTop
<1>10. ASSUME NEW g \in Gens, Hold(g) PROVE state' \in States
  BY <1>10 DEF Hold, Forget, Goto
<1>11. ASSUME NEW g \in Gens, Probe(g) PROVE state' \in States
  BY <1>11 DEF Probe, Forget, Goto
<1>12. ASSUME NEW g \in Gens, PollHead(g) PROVE state' \in States
  BY <1>12 DEF PollHead
<1>13. ASSUME NEW g \in Gens, ReadLast(g) PROVE state' \in States
  BY <1>13 DEF ReadLast, Forget
<1>14. ASSUME NEW g \in Gens, CreateWatchRun(g) PROVE state' \in States
  BY <1>14 DEF CreateWatchRun
<1>15. ASSUME NEW g \in Gens, CreateFails(g) PROVE state' \in States
  BY <1>15 DEF CreateFails
<1>16. ASSUME NEW g \in Gens, Take(g) PROVE state' \in States
  BY <1>16 DEF Take, States, Loops
<1>17. ASSUME NEW g \in Gens, SpawnProve(g) PROVE state' \in States
  BY <1>17 DEF SpawnProve, Goto
<1>18. ASSUME NEW g \in Gens, SpawnRaises(g) PROVE state' \in States
  BY <1>18 DEF SpawnRaises, Forget
<1>19. ASSUME NEW g \in Gens, AwaitProve(g) PROVE state' \in States
  BY <1>19 DEF AwaitProve, Forget
<1>20. ASSUME NEW g \in Gens, ClearActive(g) PROVE state' \in States
  BY <1>20 DEF ClearActive, States, None
<1>22. ASSUME NEW g \in Gens, LoopExit(g) PROVE state' \in States
  BY <1>22 DEF LoopExit, States, None
<1>23. ASSUME NEW g \in Gens, FailMark(g) PROVE state' \in States
  BY <1>23 DEF FailMark, States, None
<1>24. ASSUME NEW g \in Gens, FailSet(g) PROVE state' \in States
  BY <1>24 DEF FailSet, Goto
<1>25. ASSUME NEW g \in Gens, FailScope(g) PROVE state' \in States
  BY <1>25 DEF FailScope, Forget
<1>26. ASSUME NEW c \in Commits, HeadMoves(c) PROVE state' \in States
  BY <1>26 DEF HeadMoves
<1>27. CASE RepoVanishes
  BY <1>27 DEF RepoVanishes
<1>28. CASE PowerChanges
  BY <1>28 DEF PowerChanges
<1>29. ASSUME NEW r \in DOMAIN prove, ProveEnds(r) PROVE state' \in States
  BY <1>29 DEF ProveEnds
<1>30. CASE UNCHANGED vars
  BY <1>30 DEF vars
<1>31. QED
  BY <1>1, <1>2, <1>3, <1>4, <1>5, <1>6, <1>7, <1>8, <1>9, <1>10, <1>11, <1>12, <1>13, <1>14, <1>15, <1>16, <1>17, <1>18, <1>19, <1>20, <1>22, <1>23, <1>24, <1>25, <1>26, <1>27, <1>28, <1>29, <1>30
     DEF Next, Starting, Stopping, LoopStep

(* The handler keeps its type. *)
LEMMA HandlerTyped ==
  ASSUME WInv, [Next]_vars
  PROVE  handler' \in Handlers
<1> USE Typed, StateTyped, WatchAssumption DEF WInv, Handlers, Idle, None
<1>1. CASE StartResolve
  BY <1>1 DEF StartResolve
<1>2. CASE Start
  BY <1>2 DEF Start
<1>3. CASE StartRaises
  BY <1>3 DEF StartRaises
<1>4. CASE StartRefused
  BY <1>4 DEF StartRefused
<1>5. CASE StopMark
  <2>1. handler.stops + 1 \in 0..MaxStops /\ state.active \in Nat
    BY <1>5 DEF StopMark, States
  <2>2. QED BY <1>5, <2>1 DEF StopMark
<1>6. CASE StopSet
  BY <1>6 DEF StopSet
<1>7. CASE StopScope
  BY <1>7 DEF StopScope
<1>8. CASE StopCancel
  BY <1>8 DEF StopCancel
<1>9. ASSUME NEW g \in Gens, LoopTop(g) PROVE handler' \in Handlers
  BY <1>9 DEF LoopTop
<1>10. ASSUME NEW g \in Gens, Hold(g) PROVE handler' \in Handlers
  BY <1>10 DEF Hold, Forget, Goto
<1>11. ASSUME NEW g \in Gens, Probe(g) PROVE handler' \in Handlers
  BY <1>11 DEF Probe, Forget, Goto
<1>12. ASSUME NEW g \in Gens, PollHead(g) PROVE handler' \in Handlers
  BY <1>12 DEF PollHead
<1>13. ASSUME NEW g \in Gens, ReadLast(g) PROVE handler' \in Handlers
  BY <1>13 DEF ReadLast, Forget
<1>14. ASSUME NEW g \in Gens, CreateWatchRun(g) PROVE handler' \in Handlers
  BY <1>14 DEF CreateWatchRun
<1>15. ASSUME NEW g \in Gens, CreateFails(g) PROVE handler' \in Handlers
  BY <1>15 DEF CreateFails
<1>16. ASSUME NEW g \in Gens, Take(g) PROVE handler' \in Handlers
  BY <1>16 DEF Take, Goto
<1>17. ASSUME NEW g \in Gens, SpawnProve(g) PROVE handler' \in Handlers
  BY <1>17 DEF SpawnProve, Goto
<1>18. ASSUME NEW g \in Gens, SpawnRaises(g) PROVE handler' \in Handlers
  BY <1>18 DEF SpawnRaises, Forget
<1>19. ASSUME NEW g \in Gens, AwaitProve(g) PROVE handler' \in Handlers
  BY <1>19 DEF AwaitProve, Forget
<1>20. ASSUME NEW g \in Gens, ClearActive(g) PROVE handler' \in Handlers
  BY <1>20 DEF ClearActive, Goto
<1>22. ASSUME NEW g \in Gens, LoopExit(g) PROVE handler' \in Handlers
  BY <1>22 DEF LoopExit, Goto
<1>23. ASSUME NEW g \in Gens, FailMark(g) PROVE handler' \in Handlers
  BY <1>23 DEF FailMark, Goto
<1>24. ASSUME NEW g \in Gens, FailSet(g) PROVE handler' \in Handlers
  BY <1>24 DEF FailSet, Goto
<1>25. ASSUME NEW g \in Gens, FailScope(g) PROVE handler' \in Handlers
  BY <1>25 DEF FailScope, Forget
<1>26. ASSUME NEW c \in Commits, HeadMoves(c) PROVE handler' \in Handlers
  BY <1>26 DEF HeadMoves
<1>27. CASE RepoVanishes
  BY <1>27 DEF RepoVanishes
<1>28. CASE PowerChanges
  BY <1>28 DEF PowerChanges
<1>29. ASSUME NEW r \in DOMAIN prove, ProveEnds(r) PROVE handler' \in Handlers
  BY <1>29 DEF ProveEnds
<1>30. CASE UNCHANGED vars
  BY <1>30 DEF vars
<1>31. QED
  BY <1>1, <1>2, <1>3, <1>4, <1>5, <1>6, <1>7, <1>8, <1>9, <1>10, <1>11, <1>12, <1>13, <1>14, <1>15, <1>16, <1>17, <1>18, <1>19, <1>20, <1>22, <1>23, <1>24, <1>25, <1>26, <1>27, <1>28, <1>29, <1>30
     DEF Next, Starting, Stopping, LoopStep

(* The generations keep their types. *)
LEMMA CountersTyped ==
  ASSUME WInv, [Next]_vars
  PROVE  gen' \in 0..MaxStarts /\ stopSet' \subseteq 0..MaxStarts /\ scopeCut' \subseteq 0..MaxStarts
<1> USE Typed, WatchAssumption DEF WInv, ThreadsFit
<1>1. CASE StartResolve
  BY <1>1 DEF StartResolve
<1>2. CASE Start
  BY <1>2 DEF Start
<1>3. CASE StartRaises
  BY <1>3 DEF StartRaises
<1>4. CASE StartRefused
  BY <1>4 DEF StartRefused
<1>5. CASE StopMark
  BY <1>5 DEF StopMark
<1>6. CASE StopSet
  BY <1>6 DEF StopSet
<1>7. CASE StopScope
  BY <1>7 DEF StopScope
<1>8. CASE StopCancel
  BY <1>8 DEF StopCancel
<1>9. ASSUME NEW g \in Gens, LoopTop(g) PROVE gen' \in 0..MaxStarts /\ stopSet' \subseteq 0..MaxStarts /\ scopeCut' \subseteq 0..MaxStarts
  BY <1>9 DEF LoopTop
<1>10. ASSUME NEW g \in Gens, Hold(g) PROVE gen' \in 0..MaxStarts /\ stopSet' \subseteq 0..MaxStarts /\ scopeCut' \subseteq 0..MaxStarts
  BY <1>10 DEF Hold, Forget, Goto
<1>11. ASSUME NEW g \in Gens, Probe(g) PROVE gen' \in 0..MaxStarts /\ stopSet' \subseteq 0..MaxStarts /\ scopeCut' \subseteq 0..MaxStarts
  BY <1>11 DEF Probe, Forget, Goto
<1>12. ASSUME NEW g \in Gens, PollHead(g) PROVE gen' \in 0..MaxStarts /\ stopSet' \subseteq 0..MaxStarts /\ scopeCut' \subseteq 0..MaxStarts
  BY <1>12 DEF PollHead
<1>13. ASSUME NEW g \in Gens, ReadLast(g) PROVE gen' \in 0..MaxStarts /\ stopSet' \subseteq 0..MaxStarts /\ scopeCut' \subseteq 0..MaxStarts
  BY <1>13 DEF ReadLast, Forget
<1>14. ASSUME NEW g \in Gens, CreateWatchRun(g) PROVE gen' \in 0..MaxStarts /\ stopSet' \subseteq 0..MaxStarts /\ scopeCut' \subseteq 0..MaxStarts
  BY <1>14 DEF CreateWatchRun
<1>15. ASSUME NEW g \in Gens, CreateFails(g) PROVE gen' \in 0..MaxStarts /\ stopSet' \subseteq 0..MaxStarts /\ scopeCut' \subseteq 0..MaxStarts
  BY <1>15 DEF CreateFails
<1>16. ASSUME NEW g \in Gens, Take(g) PROVE gen' \in 0..MaxStarts /\ stopSet' \subseteq 0..MaxStarts /\ scopeCut' \subseteq 0..MaxStarts
  BY <1>16 DEF Take, Goto
<1>17. ASSUME NEW g \in Gens, SpawnProve(g) PROVE gen' \in 0..MaxStarts /\ stopSet' \subseteq 0..MaxStarts /\ scopeCut' \subseteq 0..MaxStarts
  BY <1>17 DEF SpawnProve, Goto
<1>18. ASSUME NEW g \in Gens, SpawnRaises(g) PROVE gen' \in 0..MaxStarts /\ stopSet' \subseteq 0..MaxStarts /\ scopeCut' \subseteq 0..MaxStarts
  BY <1>18 DEF SpawnRaises, Forget
<1>19. ASSUME NEW g \in Gens, AwaitProve(g) PROVE gen' \in 0..MaxStarts /\ stopSet' \subseteq 0..MaxStarts /\ scopeCut' \subseteq 0..MaxStarts
  BY <1>19 DEF AwaitProve, Forget
<1>20. ASSUME NEW g \in Gens, ClearActive(g) PROVE gen' \in 0..MaxStarts /\ stopSet' \subseteq 0..MaxStarts /\ scopeCut' \subseteq 0..MaxStarts
  BY <1>20 DEF ClearActive, Goto
<1>22. ASSUME NEW g \in Gens, LoopExit(g) PROVE gen' \in 0..MaxStarts /\ stopSet' \subseteq 0..MaxStarts /\ scopeCut' \subseteq 0..MaxStarts
  BY <1>22 DEF LoopExit, Goto
<1>23. ASSUME NEW g \in Gens, FailMark(g) PROVE gen' \in 0..MaxStarts /\ stopSet' \subseteq 0..MaxStarts /\ scopeCut' \subseteq 0..MaxStarts
  BY <1>23 DEF FailMark, Goto
<1>24. ASSUME NEW g \in Gens, FailSet(g) PROVE gen' \in 0..MaxStarts /\ stopSet' \subseteq 0..MaxStarts /\ scopeCut' \subseteq 0..MaxStarts
  BY <1>24 DEF FailSet, Goto
<1>25. ASSUME NEW g \in Gens, FailScope(g) PROVE gen' \in 0..MaxStarts /\ stopSet' \subseteq 0..MaxStarts /\ scopeCut' \subseteq 0..MaxStarts
  BY <1>25 DEF FailScope, Forget
<1>26. ASSUME NEW c \in Commits, HeadMoves(c) PROVE gen' \in 0..MaxStarts /\ stopSet' \subseteq 0..MaxStarts /\ scopeCut' \subseteq 0..MaxStarts
  BY <1>26 DEF HeadMoves
<1>27. CASE RepoVanishes
  BY <1>27 DEF RepoVanishes
<1>28. CASE PowerChanges
  BY <1>28 DEF PowerChanges
<1>29. ASSUME NEW r \in DOMAIN prove, ProveEnds(r) PROVE gen' \in 0..MaxStarts /\ stopSet' \subseteq 0..MaxStarts /\ scopeCut' \subseteq 0..MaxStarts
  BY <1>29 DEF ProveEnds
<1>30. CASE UNCHANGED vars
  BY <1>30 DEF vars
<1>31. QED
  BY <1>1, <1>2, <1>3, <1>4, <1>5, <1>6, <1>7, <1>8, <1>9, <1>10, <1>11, <1>12, <1>13, <1>14, <1>15, <1>16, <1>17, <1>18, <1>19, <1>20, <1>22, <1>23, <1>24, <1>25, <1>26, <1>27, <1>28, <1>29, <1>30
     DEF Next, Starting, Stopping, LoopStep

(* The rows and the registry keep their types, and their lengths agree. *)
LEMMA RowsTyped ==
  ASSUME WInv, [Next]_vars
  PROVE  RowsOK'
<1> USE Typed, StateTyped DEF WInv, ThreadsFit, RowsOK
<1>1. CASE StartResolve
  BY <1>1 DEF StartResolve
<1>2. CASE Start
  BY <1>2 DEF Start
<1>3. CASE StartRaises
  BY <1>3 DEF StartRaises
<1>4. CASE StartRefused
  BY <1>4 DEF StartRefused
<1>5. CASE StopMark
  BY <1>5 DEF StopMark
<1>6. CASE StopSet
  BY <1>6 DEF StopSet
<1>7. CASE StopScope
  BY <1>7 DEF StopScope
<1>8. CASE StopCancel
  BY <1>8 DEF StopCancel
<1>9. ASSUME NEW g \in Gens, LoopTop(g) PROVE RowsOK'
  BY <1>9 DEF LoopTop
<1>10. ASSUME NEW g \in Gens, Hold(g) PROVE RowsOK'
  BY <1>10 DEF Hold, Forget, Goto
<1>11. ASSUME NEW g \in Gens, Probe(g) PROVE RowsOK'
  BY <1>11 DEF Probe, Forget, Goto
<1>12. ASSUME NEW g \in Gens, PollHead(g) PROVE RowsOK'
  BY <1>12 DEF PollHead
<1>13. ASSUME NEW g \in Gens, ReadLast(g) PROVE RowsOK'
  BY <1>13 DEF ReadLast, Forget
<1>14. ASSUME NEW g \in Gens, CreateWatchRun(g) PROVE RowsOK'
  <2>1. [base |-> loop[g].base, head |-> loop[g].head, by |-> g, during |-> gen] \in Rows
    BY LoopTyped DEF Loops, Rows
  <2>2. QED
    BY <1>14, <2>1 DEF CreateWatchRun
<1>15. ASSUME NEW g \in Gens, CreateFails(g) PROVE RowsOK'
  BY <1>15 DEF CreateFails
<1>16. ASSUME NEW g \in Gens, Take(g) PROVE RowsOK'
  BY <1>16 DEF Take, Goto
<1>17. ASSUME NEW g \in Gens, SpawnProve(g) PROVE RowsOK'
  BY <1>17 DEF SpawnProve, Goto
<1>18. ASSUME NEW g \in Gens, SpawnRaises(g) PROVE RowsOK'
  BY <1>18 DEF SpawnRaises, Forget
<1>19. ASSUME NEW g \in Gens, AwaitProve(g) PROVE RowsOK'
  BY <1>19 DEF AwaitProve, Forget
<1>20. ASSUME NEW g \in Gens, ClearActive(g) PROVE RowsOK'
  BY <1>20 DEF ClearActive, Goto
<1>22. ASSUME NEW g \in Gens, LoopExit(g) PROVE RowsOK'
  BY <1>22 DEF LoopExit, Goto
<1>23. ASSUME NEW g \in Gens, FailMark(g) PROVE RowsOK'
  BY <1>23 DEF FailMark, Goto
<1>24. ASSUME NEW g \in Gens, FailSet(g) PROVE RowsOK'
  BY <1>24 DEF FailSet, Goto
<1>25. ASSUME NEW g \in Gens, FailScope(g) PROVE RowsOK'
  BY <1>25 DEF FailScope, Forget
<1>26. ASSUME NEW c \in Commits, HeadMoves(c) PROVE RowsOK'
  BY <1>26 DEF HeadMoves
<1>27. CASE RepoVanishes
  BY <1>27 DEF RepoVanishes
<1>28. CASE PowerChanges
  BY <1>28 DEF PowerChanges
<1>29. ASSUME NEW r \in DOMAIN prove, ProveEnds(r) PROVE RowsOK'
  BY <1>29 DEF ProveEnds
<1>30. CASE UNCHANGED vars
  BY <1>30 DEF vars
<1>31. QED
  BY <1>1, <1>2, <1>3, <1>4, <1>5, <1>6, <1>7, <1>8, <1>9, <1>10, <1>11, <1>12, <1>13, <1>14, <1>15, <1>16, <1>17, <1>18, <1>19, <1>20, <1>22, <1>23, <1>24, <1>25, <1>26, <1>27, <1>28, <1>29, <1>30
     DEF Next, Starting, Stopping, LoopStep

(* The threads stay at the rows they created. *)
LEMMA ThreadsStep ==
  ASSUME WInv, [Next]_vars
  PROVE  ThreadsFit'
<1> USE Typed DEF WInv
<1>1. CASE StartResolve
  BY <1>1 DEF StartResolve, ThreadsFit, Idle, Handlers
<1>2. CASE Start
  <2>1. gen + 1 \in Gens
    BY <1>2, WatchAssumption DEF Start, ThreadsFit, Gens
  <2>2. /\ loop'[gen + 1].at \notin {"take", "spawn", "await"}
        /\ \A h \in Gens : h # gen + 1 => loop'[h] = loop[h]
    BY <1>2, <2>1, LoopTyped DEF Start, Loops
  <2>3. handler'.at = "idle" /\ UNCHANGED <<prove, runs>>
    BY <1>2 DEF Start, Idle
  <2>4. QED
    BY <2>2, <2>3 DEF ThreadsFit
<1>3. CASE StartRaises
  <2>1. gen + 1 \in Gens
    BY <1>3, WatchAssumption DEF StartRaises, ThreadsFit, Gens
  <2>2. /\ loop'[gen + 1].at \notin {"take", "spawn", "await"}
        /\ \A h \in Gens : h # gen + 1 => loop'[h] = loop[h]
    BY <1>3, <2>1, LoopTyped DEF StartRaises, Loops
  <2>3. handler'.at = "idle" /\ UNCHANGED <<prove, runs>>
    BY <1>3 DEF StartRaises, Idle
  <2>4. QED
    BY <2>2, <2>3 DEF ThreadsFit
<1>4. CASE StartRefused
  BY <1>4 DEF StartRefused, ThreadsFit, Idle, Handlers
<1>5. CASE StopMark
  BY <1>5 DEF StopMark, ThreadsFit, Idle, Handlers
<1>6. CASE StopSet
  BY <1>6 DEF StopSet, ThreadsFit, Idle, Handlers
<1>7. CASE StopScope
  BY <1>7 DEF StopScope, ThreadsFit, Idle, Handlers
<1>8. CASE StopCancel
  BY <1>8 DEF StopCancel, ThreadsFit, Idle, Handlers
<1>9. ASSUME NEW g \in Gens, LoopTop(g) PROVE ThreadsFit'
  <2>1. loop'[g].at \notin {"take", "spawn", "await"} /\ \A h \in Gens : h # g => loop'[h] = loop[h]
    BY <1>9, LoopTyped DEF LoopTop, Fresh, Loops
  <2>2. UNCHANGED <<prove, runs, handler, gen>>
    BY <1>9 DEF LoopTop
  <2>3. QED
    BY <2>1, <2>2 DEF ThreadsFit
<1>10. ASSUME NEW g \in Gens, Hold(g) PROVE ThreadsFit'
  <2>1. loop'[g].at \notin {"take", "spawn", "await"} /\ \A h \in Gens : h # g => loop'[h] = loop[h]
    BY <1>10, LoopTyped DEF Hold, Forget, Goto, Fresh, Loops
  <2>2. UNCHANGED <<prove, runs, handler, gen>>
    BY <1>10 DEF Hold
  <2>3. QED
    BY <2>1, <2>2 DEF ThreadsFit
<1>11. ASSUME NEW g \in Gens, Probe(g) PROVE ThreadsFit'
  <2>1. loop'[g].at \notin {"take", "spawn", "await"} /\ \A h \in Gens : h # g => loop'[h] = loop[h]
    BY <1>11, LoopTyped DEF Probe, Forget, Goto, Fresh, Loops
  <2>2. UNCHANGED <<prove, runs, handler, gen>>
    BY <1>11 DEF Probe
  <2>3. QED
    BY <2>1, <2>2 DEF ThreadsFit
<1>12. ASSUME NEW g \in Gens, PollHead(g) PROVE ThreadsFit'
  <2>1. loop'[g].at \notin {"take", "spawn", "await"} /\ \A h \in Gens : h # g => loop'[h] = loop[h]
    BY <1>12, LoopTyped DEF PollHead, Fresh, Loops
  <2>2. UNCHANGED <<prove, runs, handler, gen>>
    BY <1>12 DEF PollHead
  <2>3. QED
    BY <2>1, <2>2 DEF ThreadsFit
<1>13. ASSUME NEW g \in Gens, ReadLast(g) PROVE ThreadsFit'
  <2>1. loop'[g].at \notin {"take", "spawn", "await"} /\ \A h \in Gens : h # g => loop'[h] = loop[h]
    BY <1>13, LoopTyped DEF ReadLast, Forget, Fresh, Loops
  <2>2. UNCHANGED <<prove, runs, handler, gen>>
    BY <1>13 DEF ReadLast
  <2>3. QED
    BY <2>1, <2>2 DEF ThreadsFit
<1>14. ASSUME NEW g \in Gens, CreateWatchRun(g) PROVE ThreadsFit'
  <2>1. loop'[g].run = Len(runs) + 1 /\ \A h \in Gens : h # g => loop'[h] = loop[h]
    BY <1>14, LoopTyped DEF CreateWatchRun, Loops
  <2>2. UNCHANGED <<handler, gen>> /\ Len(prove') = Len(prove) + 1 /\ Len(runs') = Len(runs) + 1
    BY <1>14 DEF CreateWatchRun
  <2>3. Len(runs) \in Nat
    OBVIOUS
  <2>4. QED
    BY <2>1, <2>2, <2>3 DEF ThreadsFit
<1>15. ASSUME NEW g \in Gens, CreateFails(g) PROVE ThreadsFit'
  <2>1. loop'[g].at \notin {"take", "spawn", "await"} /\ \A h \in Gens : h # g => loop'[h] = loop[h]
    BY <1>15, LoopTyped DEF CreateFails, Fresh, Loops
  <2>2. UNCHANGED <<prove, runs, handler, gen>>
    BY <1>15 DEF CreateFails
  <2>3. QED
    BY <2>1, <2>2 DEF ThreadsFit
<1>16. ASSUME NEW g \in Gens, Take(g) PROVE ThreadsFit'
  <2>1. loop'[g].run = loop[g].run /\ \A h \in Gens : h # g => loop'[h] = loop[h]
    BY <1>16, LoopTyped DEF Take, Goto, Loops
  <2>2. UNCHANGED <<runs, handler, gen>> /\ Len(prove') = Len(prove)
    BY <1>16 DEF Take
  <2>3. loop[g].run \in 1..Len(prove)
    BY <1>16 DEF Take, ThreadsFit
  <2>4. QED
    BY <2>1, <2>2, <2>3 DEF ThreadsFit
<1>17. ASSUME NEW g \in Gens, SpawnProve(g) PROVE ThreadsFit'
  <2>1. loop'[g].run = loop[g].run /\ \A h \in Gens : h # g => loop'[h] = loop[h]
    BY <1>17, LoopTyped DEF SpawnProve, Goto, Loops
  <2>2. UNCHANGED <<runs, handler, gen>> /\ Len(prove') = Len(prove)
    BY <1>17 DEF SpawnProve
  <2>3. loop[g].run \in 1..Len(prove)
    BY <1>17 DEF SpawnProve, ThreadsFit
  <2>4. QED
    BY <2>1, <2>2, <2>3 DEF ThreadsFit
<1>18. ASSUME NEW g \in Gens, SpawnRaises(g) PROVE ThreadsFit'
  <2>1. loop'[g].at \notin {"take", "spawn", "await"} /\ \A h \in Gens : h # g => loop'[h] = loop[h]
    BY <1>18, LoopTyped DEF SpawnRaises, Forget, Fresh, Loops
  <2>2. UNCHANGED <<prove, runs, handler, gen>>
    BY <1>18 DEF SpawnRaises
  <2>3. QED
    BY <2>1, <2>2 DEF ThreadsFit
<1>19. ASSUME NEW g \in Gens, AwaitProve(g) PROVE ThreadsFit'
  <2>1. loop'[g].at \notin {"take", "spawn", "await"} /\ \A h \in Gens : h # g => loop'[h] = loop[h]
    BY <1>19, LoopTyped DEF AwaitProve, Forget, Fresh, Loops
  <2>2. UNCHANGED <<prove, runs, handler, gen>>
    BY <1>19 DEF AwaitProve
  <2>3. QED
    BY <2>1, <2>2 DEF ThreadsFit
<1>20. ASSUME NEW g \in Gens, ClearActive(g) PROVE ThreadsFit'
  <2>1. loop'[g].at \notin {"take", "spawn", "await"} /\ \A h \in Gens : h # g => loop'[h] = loop[h]
    BY <1>20, LoopTyped DEF ClearActive, Goto, Fresh, Loops
  <2>2. UNCHANGED <<prove, runs, handler, gen>>
    BY <1>20 DEF ClearActive
  <2>3. QED
    BY <2>1, <2>2 DEF ThreadsFit
<1>22. ASSUME NEW g \in Gens, LoopExit(g) PROVE ThreadsFit'
  <2>1. loop'[g].at \notin {"take", "spawn", "await"} /\ \A h \in Gens : h # g => loop'[h] = loop[h]
    BY <1>22, LoopTyped DEF LoopExit, Goto, Fresh, Loops
  <2>2. UNCHANGED <<prove, runs, handler, gen>>
    BY <1>22 DEF LoopExit
  <2>3. QED
    BY <2>1, <2>2 DEF ThreadsFit
<1>23. ASSUME NEW g \in Gens, FailMark(g) PROVE ThreadsFit'
  <2>1. loop'[g].at \notin {"take", "spawn", "await"} /\ \A h \in Gens : h # g => loop'[h] = loop[h]
    BY <1>23, LoopTyped DEF FailMark, Goto, Fresh, Loops
  <2>2. UNCHANGED <<prove, runs, handler, gen>>
    BY <1>23 DEF FailMark
  <2>3. QED
    BY <2>1, <2>2 DEF ThreadsFit
<1>24. ASSUME NEW g \in Gens, FailSet(g) PROVE ThreadsFit'
  <2>1. loop'[g].at \notin {"take", "spawn", "await"} /\ \A h \in Gens : h # g => loop'[h] = loop[h]
    BY <1>24, LoopTyped DEF FailSet, Goto, Fresh, Loops
  <2>2. UNCHANGED <<prove, runs, handler, gen>>
    BY <1>24 DEF FailSet
  <2>3. QED
    BY <2>1, <2>2 DEF ThreadsFit
<1>25. ASSUME NEW g \in Gens, FailScope(g) PROVE ThreadsFit'
  <2>1. loop'[g].at \notin {"take", "spawn", "await"} /\ \A h \in Gens : h # g => loop'[h] = loop[h]
    BY <1>25, LoopTyped DEF FailScope, Forget, Fresh, Loops
  <2>2. UNCHANGED <<prove, runs, handler, gen>>
    BY <1>25 DEF FailScope
  <2>3. QED
    BY <2>1, <2>2 DEF ThreadsFit
<1>26. ASSUME NEW c \in Commits, HeadMoves(c) PROVE ThreadsFit'
  BY <1>26 DEF HeadMoves, ThreadsFit, env
<1>27. CASE RepoVanishes
  BY <1>27 DEF RepoVanishes, ThreadsFit, env
<1>28. CASE PowerChanges
  BY <1>28 DEF PowerChanges, ThreadsFit, env
<1>29. ASSUME NEW r \in DOMAIN prove, ProveEnds(r) PROVE ThreadsFit'
  BY <1>29 DEF ProveEnds, ThreadsFit, env
<1>30. CASE UNCHANGED vars
  BY <1>30 DEF vars, ThreadsFit
<1>31. QED
  BY <1>1, <1>2, <1>3, <1>4, <1>5, <1>6, <1>7, <1>8, <1>9, <1>10, <1>11, <1>12, <1>13, <1>14, <1>15, <1>16, <1>17, <1>18, <1>19, <1>20, <1>22, <1>23, <1>24, <1>25, <1>26, <1>27, <1>28, <1>29, <1>30
     DEF Next, Starting, Stopping, LoopStep

(* A session that watches keeps the thread of its newest start. *)
LEMMA WatchStep ==
  ASSUME WInv, [Next]_vars
  PROVE  WatchFits'
<1> USE Typed DEF WInv
<1>1. CASE StartResolve
  BY <1>1 DEF StartResolve, WatchFits, env
<1>2. CASE Start
  <2>1. gen + 1 \in Gens /\ gen' = gen + 1
    BY <1>2, WatchAssumption DEF Start, ThreadsFit, Gens
  <2>2. loop'[gen + 1].at = "top"
    BY <1>2, <2>1, LoopTyped DEF Start, Loops
  <2>3. QED
    BY <2>1, <2>2 DEF WatchFits
<1>3. CASE StartRaises
  <2>1. gen + 1 \in Gens /\ gen' = gen + 1
    BY <1>3, WatchAssumption DEF StartRaises, ThreadsFit, Gens
  <2>2. loop'[gen + 1].at = "crashed"
    BY <1>3, <2>1, LoopTyped DEF StartRaises, Loops
  <2>3. QED
    BY <2>1, <2>2 DEF WatchFits
<1>4. CASE StartRefused
  BY <1>4 DEF StartRefused, WatchFits, env
<1>5. CASE StopMark
  <2>1. ~state'.watching
    BY <1>5 DEF StopMark, States
  <2>2. QED
    BY <2>1 DEF WatchFits
<1>6. CASE StopSet
  BY <1>6 DEF StopSet, WatchFits, env
<1>7. CASE StopScope
  BY <1>7 DEF StopScope, WatchFits, env
<1>8. CASE StopCancel
  BY <1>8 DEF StopCancel, WatchFits, env
<1>9. ASSUME NEW g \in Gens, LoopTop(g) PROVE WatchFits'
  <2>1. loop'[g].at \notin {"unborn", "dead", "failset", "failscope"}
    BY <1>9, LoopTyped DEF LoopTop, Fresh, Loops
  <2>2. \A h \in Gens : h # g => loop'[h] = loop[h]
    BY <1>9 DEF LoopTop
  <2>3. state'.watching = state.watching /\ gen' = gen
    BY <1>9 DEF LoopTop, States
  <2>4. QED
    BY <2>1, <2>2, <2>3 DEF WatchFits
<1>10. ASSUME NEW g \in Gens, Hold(g) PROVE WatchFits'
  <2>1. loop'[g].at \notin {"unborn", "dead", "failset", "failscope"}
    BY <1>10, LoopTyped DEF Hold, Forget, Goto, Fresh, Loops
  <2>2. \A h \in Gens : h # g => loop'[h] = loop[h]
    BY <1>10 DEF Hold, Forget, Goto
  <2>3. state'.watching = state.watching /\ gen' = gen
    BY <1>10 DEF Hold, States
  <2>4. QED
    BY <2>1, <2>2, <2>3 DEF WatchFits
<1>11. ASSUME NEW g \in Gens, Probe(g) PROVE WatchFits'
  <2>1. loop'[g].at \notin {"unborn", "dead", "failset", "failscope"}
    BY <1>11, LoopTyped DEF Probe, Forget, Goto, Fresh, Loops
  <2>2. \A h \in Gens : h # g => loop'[h] = loop[h]
    BY <1>11 DEF Probe, Forget, Goto
  <2>3. state'.watching = state.watching /\ gen' = gen
    BY <1>11 DEF Probe, States
  <2>4. QED
    BY <2>1, <2>2, <2>3 DEF WatchFits
<1>12. ASSUME NEW g \in Gens, PollHead(g) PROVE WatchFits'
  <2>1. loop'[g].at \notin {"unborn", "dead", "failset", "failscope"}
    BY <1>12, LoopTyped DEF PollHead, Fresh, Loops
  <2>2. \A h \in Gens : h # g => loop'[h] = loop[h]
    BY <1>12 DEF PollHead
  <2>3. state'.watching = state.watching /\ gen' = gen
    BY <1>12 DEF PollHead, States
  <2>4. QED
    BY <2>1, <2>2, <2>3 DEF WatchFits
<1>13. ASSUME NEW g \in Gens, ReadLast(g) PROVE WatchFits'
  <2>1. loop'[g].at \notin {"unborn", "dead", "failset", "failscope"}
    BY <1>13, LoopTyped DEF ReadLast, Forget, Fresh, Loops
  <2>2. \A h \in Gens : h # g => loop'[h] = loop[h]
    BY <1>13 DEF ReadLast, Forget
  <2>3. state'.watching = state.watching /\ gen' = gen
    BY <1>13 DEF ReadLast, States
  <2>4. QED
    BY <2>1, <2>2, <2>3 DEF WatchFits
<1>14. ASSUME NEW g \in Gens, CreateWatchRun(g) PROVE WatchFits'
  <2>1. loop'[g].at \notin {"unborn", "dead", "failset", "failscope"}
    BY <1>14, LoopTyped DEF CreateWatchRun, Fresh, Loops
  <2>2. \A h \in Gens : h # g => loop'[h] = loop[h]
    BY <1>14 DEF CreateWatchRun
  <2>3. state'.watching = state.watching /\ gen' = gen
    BY <1>14 DEF CreateWatchRun, States
  <2>4. QED
    BY <2>1, <2>2, <2>3 DEF WatchFits
<1>15. ASSUME NEW g \in Gens, CreateFails(g) PROVE WatchFits'
  <2>1. loop'[g].at \notin {"unborn", "dead", "failset", "failscope"}
    BY <1>15, LoopTyped DEF CreateFails, Fresh, Loops
  <2>2. \A h \in Gens : h # g => loop'[h] = loop[h]
    BY <1>15 DEF CreateFails
  <2>3. state'.watching = state.watching /\ gen' = gen
    BY <1>15 DEF CreateFails, States
  <2>4. QED
    BY <2>1, <2>2, <2>3 DEF WatchFits
<1>16. ASSUME NEW g \in Gens, Take(g) PROVE WatchFits'
  <2>1. loop'[g].at \notin {"unborn", "dead", "failset", "failscope"}
    BY <1>16, LoopTyped DEF Take, Goto, Fresh, Loops
  <2>2. \A h \in Gens : h # g => loop'[h] = loop[h]
    BY <1>16 DEF Take, Goto
  <2>3. state'.watching = state.watching /\ gen' = gen
    BY <1>16 DEF Take, States
  <2>4. QED
    BY <2>1, <2>2, <2>3 DEF WatchFits
<1>17. ASSUME NEW g \in Gens, SpawnProve(g) PROVE WatchFits'
  <2>1. loop'[g].at \notin {"unborn", "dead", "failset", "failscope"}
    BY <1>17, LoopTyped DEF SpawnProve, Goto, Fresh, Loops
  <2>2. \A h \in Gens : h # g => loop'[h] = loop[h]
    BY <1>17 DEF SpawnProve, Goto
  <2>3. state'.watching = state.watching /\ gen' = gen
    BY <1>17 DEF SpawnProve, States
  <2>4. QED
    BY <2>1, <2>2, <2>3 DEF WatchFits
<1>18. ASSUME NEW g \in Gens, SpawnRaises(g) PROVE WatchFits'
  <2>1. loop'[g].at \notin {"unborn", "dead", "failset", "failscope"}
    BY <1>18, LoopTyped DEF SpawnRaises, Forget, Fresh, Loops
  <2>2. \A h \in Gens : h # g => loop'[h] = loop[h]
    BY <1>18 DEF SpawnRaises, Forget
  <2>3. state'.watching = state.watching /\ gen' = gen
    BY <1>18 DEF SpawnRaises, States
  <2>4. QED
    BY <2>1, <2>2, <2>3 DEF WatchFits
<1>19. ASSUME NEW g \in Gens, AwaitProve(g) PROVE WatchFits'
  <2>1. loop'[g].at \notin {"unborn", "dead", "failset", "failscope"}
    BY <1>19, LoopTyped DEF AwaitProve, Forget, Fresh, Loops
  <2>2. \A h \in Gens : h # g => loop'[h] = loop[h]
    BY <1>19 DEF AwaitProve, Forget
  <2>3. state'.watching = state.watching /\ gen' = gen
    BY <1>19 DEF AwaitProve, States
  <2>4. QED
    BY <2>1, <2>2, <2>3 DEF WatchFits
<1>20. ASSUME NEW g \in Gens, ClearActive(g) PROVE WatchFits'
  <2>1. loop'[g].at \notin {"unborn", "dead", "failset", "failscope"}
    BY <1>20, LoopTyped DEF ClearActive, Goto, Fresh, Loops
  <2>2. \A h \in Gens : h # g => loop'[h] = loop[h]
    BY <1>20 DEF ClearActive, Goto
  <2>3. state'.watching = state.watching /\ gen' = gen
    BY <1>20 DEF ClearActive, States
  <2>4. QED
    BY <2>1, <2>2, <2>3 DEF WatchFits
<1>22. ASSUME NEW g \in Gens, LoopExit(g) PROVE WatchFits'
  <2>1. ~state'.watching
    BY <1>22 DEF LoopExit, States
  <2>2. QED
    BY <2>1 DEF WatchFits
<1>23. ASSUME NEW g \in Gens, FailMark(g) PROVE WatchFits'
  <2>1. ~state'.watching
    BY <1>23 DEF FailMark, States
  <2>2. QED
    BY <2>1 DEF WatchFits
<1>24. ASSUME NEW g \in Gens, FailSet(g) PROVE WatchFits'
  <2>1. state.watching => g # gen
    BY <1>24 DEF FailSet, WatchFits
  <2>2. \A h \in Gens : h # g => loop'[h] = loop[h]
    BY <1>24 DEF FailSet, Goto
  <2>3. UNCHANGED <<state, gen>>
    BY <1>24 DEF FailSet
  <2>4. QED
    BY <2>1, <2>2, <2>3 DEF WatchFits
<1>25. ASSUME NEW g \in Gens, FailScope(g) PROVE WatchFits'
  <2>1. state.watching => g # gen
    BY <1>25 DEF FailScope, WatchFits
  <2>2. \A h \in Gens : h # g => loop'[h] = loop[h]
    BY <1>25 DEF FailScope, Forget
  <2>3. UNCHANGED <<state, gen>>
    BY <1>25 DEF FailScope
  <2>4. QED
    BY <2>1, <2>2, <2>3 DEF WatchFits
<1>26. ASSUME NEW c \in Commits, HeadMoves(c) PROVE WatchFits'
  BY <1>26 DEF HeadMoves, WatchFits, env
<1>27. CASE RepoVanishes
  BY <1>27 DEF RepoVanishes, WatchFits, env
<1>28. CASE PowerChanges
  BY <1>28 DEF PowerChanges, WatchFits, env
<1>29. ASSUME NEW r \in DOMAIN prove, ProveEnds(r) PROVE WatchFits'
  BY <1>29 DEF ProveEnds, WatchFits, env
<1>30. CASE UNCHANGED vars
  BY <1>30 DEF vars, WatchFits
<1>31. QED
  BY <1>1, <1>2, <1>3, <1>4, <1>5, <1>6, <1>7, <1>8, <1>9, <1>10, <1>11, <1>12, <1>13, <1>14, <1>15, <1>16, <1>17, <1>18, <1>19, <1>20, <1>22, <1>23, <1>24, <1>25, <1>26, <1>27, <1>28, <1>29, <1>30
     DEF Next, Starting, Stopping, LoopStep

(* What holds for any number of starts. *)
LEMMA InitWInv == Init => WInv
<1> SUFFICES ASSUME Init PROVE WInv
  OBVIOUS
<1> USE WatchAssumption DEF Init
<1>1. repo \in Repos /\ state \in States /\ handler \in Handlers
  BY DEF Repos, States, Handlers, Idle, None
<1>2. paused \in BOOLEAN
  BY Zenon
<1>3. loop \in [Gens -> Loops]
  BY FreshTyped DEF Points
<1>4. TypeOK
  <2>1. gen \in 0..MaxStarts /\ stopSet = {} /\ scopeCut = {} /\ asked = {}
    OBVIOUS
  <2>2. runs \in Seq(Rows) /\ prove \in Seq({"row", "active", "over"})
    OBVIOUS
  <2>3. QED
    BY <1>1, <1>2, <1>3, <2>1, <2>2, Typed
<1>5. ThreadsFit
  BY DEF ThreadsFit, Fresh, Idle
<1>6. WatchFits
  BY DEF WatchFits
<1>7. QED
  BY <1>4, <1>5, <1>6 DEF WInv

(* And every step keeps it. *)
LEMMA NextWInv == WInv /\ [Next]_vars => WInv'
<1> SUFFICES ASSUME WInv, [Next]_vars PROVE WInv'
  OBVIOUS
<1>1. paused' \in BOOLEAN
  <2>1. paused \in BOOLEAN
    BY Typed DEF WInv
  <2>2. paused' = paused \/ paused' = ~paused
    BY Zenon DEF Next, vars, env, Starting, Stopping, StartResolve, Start, StartRaises, StartRefused,
       StopMark, StopSet, StopScope, StopCancel, LoopStep, LoopTop, Hold, Probe, PollHead, ReadLast,
       CreateWatchRun, CreateFails, Take, SpawnProve, SpawnRaises, AwaitProve, ClearActive,
       LoopExit, FailMark, FailSet, FailScope, HeadMoves, RepoVanishes, PowerChanges, ProveEnds
  <2>3. QED
    BY <2>1, <2>2, Zenon
<1>2. TypeOK'
  BY <1>1, RepoTyped, StatesTyped, HandlerTyped, CountersTyped, LoopsTyped, RowsTyped
     DEF TypeOK, Repos, States, Handlers, Loops, RowsOK, Rows
<1>3. QED
  BY <1>2, ThreadsStep, WatchStep DEF WInv

(* The session's state and its threads have their types, for any number of starts. *)
THEOREM WatchTypeCorrect == Spec => []TypeOK
BY InitWInv, NextWInv, PTL DEF Spec, WInv

(* A session that says it is watching has a thread behind it, for any number of *)
(* starts: every way out of _loop but an exception unpublishes first.           *)
THEOREM WatchedByLoop == Spec => []WatchingHasLoop
<1>1. WInv => WatchingHasLoop
  BY LoopTyped DEF WInv, WatchFits, WatchingHasLoop, Alive
<1>2. QED
  BY <1>1, InitWInv, NextWInv, PTL DEF Spec

-----------------------------------------------------------------------------
(* Any number of starts: a loop's proves. *)

(* The registered runs are rows. *)
LEMMA RowsFit ==
  ASSUME LInv
  PROVE  /\ WInv /\ TypeOK /\ runs \in Seq(Rows) /\ prove \in Seq({"row", "active", "over"})
         /\ Len(prove) = Len(runs) /\ Len(runs) \in Nat
         /\ DOMAIN runs = 1..Len(runs) /\ DOMAIN prove = 1..Len(runs)
         /\ Registered \subseteq 1..Len(runs)
         /\ gen \in 0..MaxStarts /\ loop \in [Gens -> Loops]
BY Typed DEF LInv, WInv, ThreadsFit, Registered

(* Nothing of the loops, the rows and the proves changes but for proves that end. *)
LEMMA LoopsKept ==
  ASSUME LInv, UNCHANGED <<runs, gen, loop>>, Registered' \subseteq Registered,
         stopSet \subseteq stopSet'
  PROVE  (TagsFit /\ LoopFits /\ SpawnFits /\ OnePerLoop)'
BY RowsFit DEF LInv, TagsFit, LoopFits, SpawnFits, OnePerLoop, Tagged

(* Loop g moves on, neither to a row nor to a prove, and leaves no prove of the *)
(* current generation behind unless it has seen the event.                      *)
LEMMA LoopMoves ==
  ASSUME LInv, NEW g \in Gens, UNCHANGED <<runs, prove, gen>>, stopSet \subseteq stopSet',
         \A h \in Gens : h # g => loop'[h] = loop[h],
         loop'[g].at \notin {"take", "spawn", "await"},
         \/ loop[g].at \notin WayOut \cup {"await"}
         \/ loop[g].at = "await" /\ loop[g].run \notin Registered
         \/ loop[g].at \in WayOut \cup {"await"} /\ gen \in stopSet /\ loop'[g].at \in WayOut
         \/ loop[g].at \in WayOut /\ (gen \in stopSet => loop'[g].at \in WayOut)
  PROVE  (TagsFit /\ LoopFits /\ SpawnFits /\ OnePerLoop)'
<1>1. Registered' = Registered
  BY DEF Registered
<1>2. TagsFit' /\ OnePerLoop'
  BY <1>1 DEF LInv, TagsFit, OnePerLoop
<1>3. SpawnFits'
  BY <1>1 DEF LInv, SpawnFits, Tagged
<1>4. LoopFits'
  <2> SUFFICES ASSUME NEW r \in Registered, NEW h \in Gens, Tagged(r, h, gen)
               PROVE  \/ loop'[h].at = "await" /\ loop'[h].run = r
                      \/ gen \in stopSet' /\ loop'[h].at \in WayOut
    BY <1>1 DEF LoopFits, Tagged
  <2>1. \/ loop[h].at = "await" /\ loop[h].run = r
        \/ gen \in stopSet /\ loop[h].at \in WayOut
    BY DEF LInv, LoopFits
  <2>2. CASE h # g
    BY <2>1, <2>2
  <2>3. CASE h = g
    BY <2>1, <2>3 DEF WayOut
  <2>4. QED BY <2>2, <2>3
<1>5. QED BY <1>2, <1>3, <1>4

(* A start: the rows of the new generation are still to come. *)
LEMMA LoopsStarted ==
  ASSUME LInv, NEW n \in Gens, UNCHANGED <<runs, prove>>, gen' = gen + 1,
         \A h \in Gens : h # n => loop'[h] = loop[h],
         loop'[n].at \notin {"take", "spawn"}
  PROVE  (TagsFit /\ LoopFits /\ SpawnFits /\ OnePerLoop)'
<1> USE RowsFit
<1>1. Registered' = Registered
  BY DEF Registered
<1>2. \A r \in DOMAIN runs : runs[r].during \in Nat /\ runs[r].during < gen + 1
  <2>1. \A r \in DOMAIN runs : runs[r] \in Rows
    OBVIOUS
  <2>2. \A r \in DOMAIN runs : runs[r].during \in 0..MaxStarts /\ runs[r].during <= gen
    BY <2>1 DEF LInv, TagsFit, Rows
  <2>3. QED BY <2>2, WatchAssumption
<1>3. TagsFit'
  BY <1>2 DEF TagsFit
<1>4. OnePerLoop'
  BY <1>1 DEF LInv, OnePerLoop
<1>5. SpawnFits'
  BY <1>1 DEF LInv, SpawnFits, Tagged
<1>6. LoopFits'
  BY <1>1, <1>2 DEF LoopFits, Tagged
<1>7. QED BY <1>3, <1>4, <1>5, <1>6

LEMMA LoopStepKeeps ==
  ASSUME LInv, NEW g \in Gens, LoopStep(g)
  PROVE  (TagsFit /\ LoopFits /\ SpawnFits /\ OnePerLoop)'
<1> USE RowsFit
<1>0. loop[g] \in Loops
  BY LoopTyped DEF LInv, WInv
<1>1. CASE LoopTop(g)
  <2>1. /\ UNCHANGED <<runs, prove, gen, stopSet>> /\ loop[g].at = "top"
        /\ \A h \in Gens : h # g => loop'[h] = loop[h]
        /\ loop'[g].at = IF gen \in stopSet THEN "exit" ELSE "hold"
    BY <1>1, <1>0 DEF LoopTop, Fresh, Loops
  <2>2. QED BY <2>1, LoopMoves DEF WayOut
<1>2. CASE Hold(g) \/ Probe(g) \/ PollHead(g) \/ ReadLast(g) \/ CreateFails(g)
           \/ SpawnRaises(g) \/ FailMark(g) \/ FailSet(g) \/ FailScope(g)
  <2>1. /\ UNCHANGED <<runs, prove, gen>> /\ stopSet \subseteq stopSet'
        /\ loop[g].at \notin WayOut \cup {"await"}
    BY <1>2 DEF Hold, Probe, PollHead, ReadLast, CreateFails, SpawnRaises, FailMark, FailSet,
                FailScope, WayOut
  <2>2. /\ \A h \in Gens : h # g => loop'[h] = loop[h]
        /\ loop'[g].at \notin {"take", "spawn", "await"}
    <3>1. CASE Hold(g) \/ Probe(g)
      BY <3>1, <1>0 DEF Hold, Probe, Goto, Forget, Fresh, Loops
    <3>2. CASE PollHead(g) \/ ReadLast(g)
      BY <3>2, <1>0 DEF PollHead, ReadLast, Goto, Forget, Fresh, Loops
    <3>3. CASE CreateFails(g) \/ SpawnRaises(g)
      <4>1. CASE SpawnRaises(g)
        BY <4>1, <1>0 DEF SpawnRaises, Forget, Fresh
      <4>2. CASE CreateFails(g)
        BY <4>2, <1>0 DEF CreateFails, Fresh
      <4>3. QED BY <3>3, <4>1, <4>2
    <3>4. CASE FailMark(g) \/ FailSet(g) \/ FailScope(g)
      BY <3>4, <1>0 DEF FailMark, FailSet, FailScope, Goto, Forget, Fresh, Loops
    <3>5. QED BY <1>2, <3>1, <3>2, <3>3, <3>4
  <2>3. QED BY <2>1, <2>2, LoopMoves
<1>3. CASE CreateWatchRun(g)
  <2>1. /\ loop[g].at = "create" /\ UNCHANGED <<gen, stopSet>>
        /\ \A h \in Gens : h # g => loop'[h] = loop[h]
        /\ loop'[g].at = "take" /\ loop'[g].run = Len(runs) + 1
    BY <1>3, <1>0 DEF CreateWatchRun, Loops
  <2>2. /\ DOMAIN runs' = 1..(Len(runs) + 1) /\ DOMAIN prove' = 1..(Len(runs) + 1)
        /\ runs'[Len(runs) + 1].by = g /\ runs'[Len(runs) + 1].during = gen
        /\ \A r \in 1..Len(runs) : runs'[r] = runs[r]
        /\ prove'[Len(runs) + 1] = "row" /\ \A r \in 1..Len(runs) : prove'[r] = prove[r]
    BY <1>3 DEF CreateWatchRun
  <2>3. Registered' = Registered
    BY <2>2 DEF Registered
  <2>4. \A r \in Registered : ~Tagged(r, g, gen)
    BY <2>1 DEF LInv, LoopFits, WayOut
  <2>5. TagsFit'
    BY <2>1, <2>2 DEF LInv, TagsFit
  <2>6. LoopFits'
    BY <2>1, <2>2, <2>3, <2>4 DEF LInv, LoopFits, Tagged
  <2>7. OnePerLoop'
    BY <2>2, <2>3 DEF LInv, OnePerLoop
  <2>8. SpawnFits'
    <3>1. \A h \in Gens : h # g /\ loop[h].at \in {"take", "spawn"} =>
             loop[h].run \in 1..Len(runs)
      BY DEF LInv, WInv, ThreadsFit
    <3>2. QED BY <2>1, <2>2, <2>3, <2>4, <3>1 DEF LInv, SpawnFits, Tagged
  <2>9. QED BY <2>5, <2>6, <2>7, <2>8
<1>4. CASE Take(g)
  <2>1. /\ UNCHANGED <<runs, prove, gen, stopSet>> /\ loop[g].at = "take"
        /\ \A h \in Gens : h # g => loop'[h] = loop[h]
        /\ loop'[g].at = "spawn" /\ loop'[g].run = loop[g].run
    BY <1>4, <1>0 DEF Take, Goto, Loops
  <2>2. Registered' = Registered
    BY <2>1 DEF Registered
  <2>3. TagsFit' /\ OnePerLoop'
    BY <2>1, <2>2 DEF LInv, TagsFit, OnePerLoop
  <2>4. LoopFits'
    BY <2>1, <2>2 DEF LInv, LoopFits, Tagged, WayOut
  <2>5. SpawnFits'
    BY <2>1, <2>2 DEF LInv, SpawnFits, Tagged
  <2>6. QED BY <2>3, <2>4, <2>5
<1>5. CASE SpawnProve(g)
  <2>1. /\ UNCHANGED <<runs, gen, stopSet>> /\ loop[g].at = "spawn"
        /\ \A h \in Gens : h # g => loop'[h] = loop[h]
        /\ loop'[g].at = "await" /\ loop'[g].run = loop[g].run
        /\ loop[g].run \in 1..Len(runs)
    BY <1>5, <1>0 DEF SpawnProve, Goto, Loops, LInv, WInv, ThreadsFit
  <2>2. Registered' = Registered \cup {loop[g].run}
    BY <1>5, <2>1 DEF SpawnProve, Registered
  <2>3. /\ runs[loop[g].run].by = g
        /\ \A r \in Registered : ~Tagged(r, g, runs[loop[g].run].during)
    BY <2>1 DEF LInv, SpawnFits
  <2>4. TagsFit'
    BY <2>1 DEF LInv, TagsFit
  <2>5. OnePerLoop'
    BY <2>1, <2>2, <2>3 DEF LInv, OnePerLoop, Tagged
  <2>6. LoopFits'
    <3> SUFFICES ASSUME NEW r \in Registered', NEW h \in Gens, Tagged(r, h, gen)
                 PROVE  \/ loop'[h].at = "await" /\ loop'[h].run = r
                        \/ gen \in stopSet /\ loop'[h].at \in WayOut
      BY <2>1 DEF LoopFits, Tagged
    <3>1. CASE r = loop[g].run
      BY <3>1, <2>1, <2>3 DEF Tagged
    <3>2. CASE r \in Registered
      BY <3>2, <2>1 DEF LInv, LoopFits, WayOut
    <3>3. QED BY <3>1, <3>2, <2>2
  <2>7. SpawnFits'
    <3> SUFFICES ASSUME NEW h \in Gens, loop'[h].at \in {"take", "spawn"}
                 PROVE  /\ runs[loop[h].run].by = h
                        /\ \A r \in Registered' : ~Tagged(r, h, runs[loop[h].run].during)
      BY <2>1 DEF SpawnFits, Tagged
    <3>1. h # g /\ loop[h].at \in {"take", "spawn"}
      BY <2>1
    <3>2. QED BY <2>2, <2>3, <3>1 DEF LInv, SpawnFits, Tagged
  <2>8. QED BY <2>4, <2>5, <2>6, <2>7
<1>6. CASE AwaitProve(g)
  <2>1. /\ UNCHANGED <<runs, prove, gen, stopSet>> /\ loop[g].at = "await"
        /\ \A h \in Gens : h # g => loop'[h] = loop[h]
        /\ loop'[g].at = "clear"
        /\ loop[g].run \notin Registered \/ gen \in stopSet
    BY <1>6, <1>0 DEF AwaitProve, Forget, Fresh
  <2>2. QED BY <2>1, LoopMoves DEF WayOut
<1>7. CASE ClearActive(g) \/ LoopExit(g)
  <2>1. /\ UNCHANGED <<runs, prove, gen, stopSet>> /\ loop[g].at \in WayOut
        /\ \A h \in Gens : h # g => loop'[h] = loop[h]
        /\ loop'[g].at \in {"top", "dead"}
    BY <1>7, <1>0 DEF ClearActive, LoopExit, Goto, Loops, WayOut
  <2>2. QED BY <2>1, LoopMoves DEF WayOut
<1>8. QED
  BY <1>1, <1>2, <1>3, <1>4, <1>5, <1>6, <1>7 DEF LoopStep

LEMMA InitLInv == Init => LInv
<1> SUFFICES ASSUME Init PROVE LInv
  OBVIOUS
<1>1. DOMAIN runs = {} /\ Registered = {} /\ \A g \in Gens : loop[g].at = "unborn"
  BY DEF Init, Registered, Fresh
<1>2. QED
  BY <1>1, InitWInv DEF LInv, TagsFit, LoopFits, SpawnFits, OnePerLoop

LEMMA NextLInv == LInv /\ [Next]_vars => LInv'
<1> SUFFICES ASSUME LInv, [Next]_vars PROVE LInv'
  OBVIOUS
<1> USE RowsFit
<1>1. WInv'
  BY NextWInv DEF LInv
<1>2. CASE Start \/ StartRaises
  <2>1. gen + 1 \in Gens
    <3>1. handler.at = "resolved"
      BY <1>2 DEF Start, StartRaises
    <3>2. gen < MaxStarts
      BY <3>1 DEF LInv, WInv, ThreadsFit
    <3>3. QED BY <3>2, WatchAssumption DEF Gens
  <2>2. /\ UNCHANGED <<runs, prove>> /\ gen' = gen + 1
        /\ \A h \in Gens : h # gen + 1 => loop'[h] = loop[h]
        /\ loop'[gen + 1].at \notin {"take", "spawn"}
    BY <1>2, <2>1 DEF Start, StartRaises, Loops
  <2>3. QED BY <1>1, <2>1, <2>2, LoopsStarted DEF LInv
<1>3. CASE StartResolve \/ StartRefused \/ StopMark \/ Stopping
  <2>1. UNCHANGED <<runs, prove, gen, loop>> /\ stopSet \subseteq stopSet'
    BY <1>3 DEF StartResolve, StartRefused, StopMark, Stopping, StopSet, StopScope, StopCancel
  <2>2. QED BY <1>1, <2>1, LoopsKept DEF LInv, Registered
<1>4. ASSUME NEW g \in Gens, LoopStep(g) PROVE LInv'
  BY <1>1, <1>4, LoopStepKeeps DEF LInv
<1>5. ASSUME NEW c \in Commits, HeadMoves(c) PROVE LInv'
  BY <1>1, <1>5, LoopsKept DEF HeadMoves, LInv, Registered
<1>6. CASE RepoVanishes \/ PowerChanges \/ UNCHANGED vars
  <2>1. UNCHANGED <<runs, prove, gen, loop, stopSet>>
    BY <1>6 DEF RepoVanishes, PowerChanges, vars
  <2>2. QED BY <1>1, <2>1, LoopsKept DEF LInv, Registered
<1>7. ASSUME NEW r \in DOMAIN prove, ProveEnds(r) PROVE LInv'
  <2>1. UNCHANGED <<runs, gen, loop, stopSet>> /\ Registered' \subseteq Registered
    BY <1>7 DEF ProveEnds, Registered
  <2>2. QED BY <1>1, <2>1, LoopsKept DEF LInv
<1>8. QED
  BY <1>2, <1>3, <1>4, <1>5, <1>6, <1>7 DEF Next, Starting

(* For any number of starts and stops: a loop thread never has two proves under *)
(* way that it began under the same start (watchsession.py, _prove_commit waits *)
(* for its own prove, and leaves the wait early only when told to stop).        *)
THEOREM LoopProvesOneAtATime == Spec => []OnePerLoop
<1>1. LInv => OnePerLoop
  BY DEF LInv
<1>2. QED BY <1>1, InitLInv, NextLInv, PTL DEF Spec

-----------------------------------------------------------------------------
(* One start. *)

(* The loop moves on between the points where a commit is taken. *)
LEMMA ChainKept ==
  ASSUME SInv, runs' = runs, state'.last = state.last, gen' = gen, loop[1].at # "take",
         loop'[1].at \notin {"create", "take"}
  PROVE  ChainFits'
BY DEF SInv, ChainFits, RunsChain, Newest

(* The only loop. *)
LEMMA OneLoop ==
  ASSUME SInv, MaxStarts = 1
  PROVE  Gens = {1} /\ gen \in {0, 1} /\ loop[1] \in Loops /\ TypeOK /\ WInv
         /\ runs \in Seq(Rows)
         /\ prove \in Seq({"row", "active", "over"}) /\ Len(prove) = Len(runs)
<1>1. Gens = {1}
  BY DEF Gens
<1>2. WInv /\ TypeOK
  BY DEF SInv, WInv
<1>3. QED
  BY <1>1, <1>2, LoopTyped, Typed DEF WInv, ThreadsFit

(* Each run starts where the one before it ended. *)
LEMMA ChainStep ==
  ASSUME SInv, MaxStarts = 1, [Next]_vars
  PROVE  ChainFits'
<1> USE OneLoop, Typed
<1>1. CASE StartResolve
  <2>1. UNCHANGED <<runs, gen, loop>> /\ state'.last = state.last
    BY <1>1 DEF StartResolve
  <2>2. QED
    BY <2>1 DEF SInv, ChainFits, RunsChain, Newest
<1>2. CASE Start
  <2>1. gen = 0 /\ gen' = 1
    BY <1>2 DEF Start, WInv, ThreadsFit
  <2>2. loop'[1].at = "top" /\ runs' = runs /\ Len(runs) = 0
    BY <1>2, <2>1 DEF Start, Loops, SInv, ChainFits
  <2>3. QED
    BY <2>1, <2>2 DEF SInv, ChainFits, RunsChain
<1>3. CASE StartRaises
  <2>1. gen = 0 /\ gen' = 1
    BY <1>3 DEF StartRaises, WInv, ThreadsFit
  <2>2. loop'[1].at = "crashed" /\ runs' = runs /\ Len(runs) = 0
    BY <1>3, <2>1 DEF StartRaises, Loops, SInv, ChainFits
  <2>3. QED
    BY <2>1, <2>2 DEF SInv, ChainFits, RunsChain
<1>4. CASE StartRefused
  <2>1. UNCHANGED <<runs, gen, loop>> /\ state'.last = state.last
    BY <1>4 DEF StartRefused
  <2>2. QED
    BY <2>1 DEF SInv, ChainFits, RunsChain, Newest
<1>5. CASE StopMark
  <2>1. UNCHANGED <<runs, gen, loop>> /\ state'.last = state.last
    BY <1>5 DEF StopMark, States
  <2>2. QED
    BY <2>1 DEF SInv, ChainFits, RunsChain, Newest
<1>6. CASE StopSet
  <2>1. UNCHANGED <<runs, gen, loop>> /\ state'.last = state.last
    BY <1>6 DEF StopSet
  <2>2. QED
    BY <2>1 DEF SInv, ChainFits, RunsChain, Newest
<1>7. CASE StopScope
  <2>1. UNCHANGED <<runs, gen, loop>> /\ state'.last = state.last
    BY <1>7 DEF StopScope
  <2>2. QED
    BY <2>1 DEF SInv, ChainFits, RunsChain, Newest
<1>8. CASE StopCancel
  <2>1. UNCHANGED <<runs, gen, loop>> /\ state'.last = state.last
    BY <1>8 DEF StopCancel
  <2>2. QED
    BY <2>1 DEF SInv, ChainFits, RunsChain, Newest
<1>9. ASSUME NEW g \in Gens, LoopTop(g) PROVE ChainFits'
  <2>1. g = 1
    OBVIOUS
  <2>2. loop[1].at # "take" /\ loop'[1].at \notin {"create", "take"}
    BY <1>9, <2>1 DEF LoopTop, Fresh, Loops
  <2>3. runs' = runs /\ gen' = gen /\ state'.last = state.last
    BY <1>9 DEF LoopTop
  <2>4. QED
    BY <2>2, <2>3, ChainKept
<1>10. ASSUME NEW g \in Gens, Hold(g) PROVE ChainFits'
  <2>1. g = 1
    OBVIOUS
  <2>2. loop[1].at # "take" /\ loop'[1].at \notin {"create", "take"}
    BY <1>10, <2>1 DEF Hold, Forget, Goto, Fresh, Loops
  <2>3. runs' = runs /\ gen' = gen /\ state'.last = state.last
    BY <1>10 DEF Hold
  <2>4. QED
    BY <2>2, <2>3, ChainKept
<1>11. ASSUME NEW g \in Gens, Probe(g) PROVE ChainFits'
  <2>1. g = 1
    OBVIOUS
  <2>2. loop[1].at # "take" /\ loop'[1].at \notin {"create", "take"}
    BY <1>11, <2>1 DEF Probe, Forget, Goto, Fresh, Loops
  <2>3. runs' = runs /\ gen' = gen /\ state'.last = state.last
    BY <1>11 DEF Probe
  <2>4. QED
    BY <2>2, <2>3, ChainKept
<1>12. ASSUME NEW g \in Gens, PollHead(g) PROVE ChainFits'
  <2>1. g = 1
    OBVIOUS
  <2>2. loop[1].at # "take" /\ loop'[1].at \notin {"create", "take"}
    BY <1>12, <2>1 DEF PollHead, Fresh, Loops
  <2>3. runs' = runs /\ gen' = gen /\ state'.last = state.last
    BY <1>12 DEF PollHead
  <2>4. QED
    BY <2>2, <2>3, ChainKept
<1>13. ASSUME NEW g \in Gens, ReadLast(g) PROVE ChainFits'
  <2>1. g = 1 /\ loop[1].at = "read" /\ UNCHANGED <<runs, gen, state>>
    BY <1>13 DEF ReadLast
  <2>2. CASE loop[1].head = state.last
    <3>1. loop'[1].at = "top"
      BY <1>13, <2>1, <2>2 DEF ReadLast, Forget, Fresh
    <3>2. QED
      BY <2>1, <3>1, ChainKept
  <2>3. CASE loop[1].head # state.last
    <3>1. /\ loop'[1].at = "create" /\ loop'[1].base = state.last
          /\ loop'[1].head = loop[1].head
      BY <1>13, <2>1, <2>3 DEF ReadLast, Loops
    <3>2. QED
      BY <2>1, <2>3, <3>1 DEF SInv, ChainFits, RunsChain, Newest
  <2>4. QED
    BY <2>2, <2>3
<1>14. ASSUME NEW g \in Gens, CreateWatchRun(g) PROVE ChainFits'
  <2>1. g = 1 /\ loop[1].at = "create"
    BY <1>14 DEF CreateWatchRun
  <2>2. loop'[1].at = "take" /\ loop'[1].head = loop[1].head /\ UNCHANGED <<gen, state>>
    BY <1>14, <2>1 DEF CreateWatchRun, Loops
  <2>3. /\ Len(runs') = Len(runs) + 1
        /\ runs'[Len(runs) + 1].base = loop[1].base /\ runs'[Len(runs) + 1].head = loop[1].head
        /\ \A i \in 1..Len(runs) : runs'[i] = runs[i]
        /\ DOMAIN runs = 1..Len(runs) /\ DOMAIN runs' = 1..(Len(runs) + 1)
        /\ Len(runs) \in Nat
    BY <1>14, <2>1 DEF CreateWatchRun, Loops
  <2>4. loop[1].base = state.last /\ loop[1].head # loop[1].base
        /\ (Len(runs) > 0 => state.last = runs[Len(runs)].head)
    BY <2>1 DEF SInv, ChainFits, Newest
  <2>5. RunsChain'
    <3> SUFFICES ASSUME NEW i \in 1..(Len(runs) + 1)
                 PROVE  /\ runs'[i].base # runs'[i].head
                        /\ i > 1 => runs'[i].base = runs'[i - 1].head
      BY <2>3 DEF RunsChain
    <3>1. CASE i \in 1..Len(runs)
      BY <2>3, <3>1 DEF SInv, ChainFits, RunsChain
    <3>2. CASE i = Len(runs) + 1
      BY <2>3, <2>4, <3>2
    <3>3. QED
      BY <2>3, <3>1, <3>2
  <2>6. gen' # 0
    BY <2>1, <2>2 DEF SInv, StartedFits
  <2>7. QED
    BY <2>2, <2>3, <2>5, <2>6 DEF ChainFits, Newest
<1>15. ASSUME NEW g \in Gens, CreateFails(g) PROVE ChainFits'
  <2>1. g = 1
    OBVIOUS
  <2>2. loop[1].at # "take" /\ loop'[1].at \notin {"create", "take"}
    BY <1>15, <2>1 DEF CreateFails, Fresh, Loops
  <2>3. runs' = runs /\ gen' = gen /\ state'.last = state.last
    BY <1>15 DEF CreateFails
  <2>4. QED
    BY <2>2, <2>3, ChainKept
<1>16. ASSUME NEW g \in Gens, Take(g) PROVE ChainFits'
  <2>1. g = 1 /\ loop[1].at = "take" /\ UNCHANGED <<runs, gen>>
    BY <1>16 DEF Take
  <2>2. loop'[1].at = "spawn" /\ state'.last = loop[1].head
    BY <1>16, <2>1 DEF Take, Goto, Loops, States
  <2>3. QED
    BY <2>1, <2>2 DEF SInv, ChainFits, RunsChain, Newest
<1>17. ASSUME NEW g \in Gens, SpawnProve(g) PROVE ChainFits'
  <2>1. g = 1
    OBVIOUS
  <2>2. loop[1].at # "take" /\ loop'[1].at \notin {"create", "take"}
    BY <1>17, <2>1 DEF SpawnProve, Goto, Fresh, Loops
  <2>3. runs' = runs /\ gen' = gen /\ state'.last = state.last
    BY <1>17 DEF SpawnProve
  <2>4. QED
    BY <2>2, <2>3, ChainKept
<1>18. ASSUME NEW g \in Gens, SpawnRaises(g) PROVE ChainFits'
  <2>1. g = 1
    OBVIOUS
  <2>2. loop[1].at # "take" /\ loop'[1].at \notin {"create", "take"}
    BY <1>18, <2>1 DEF SpawnRaises, Forget, Fresh, Loops
  <2>3. runs' = runs /\ gen' = gen /\ state'.last = state.last
    BY <1>18 DEF SpawnRaises
  <2>4. QED
    BY <2>2, <2>3, ChainKept
<1>19. ASSUME NEW g \in Gens, AwaitProve(g) PROVE ChainFits'
  <2>1. g = 1
    OBVIOUS
  <2>2. loop[1].at # "take" /\ loop'[1].at \notin {"create", "take"}
    BY <1>19, <2>1 DEF AwaitProve, Forget, Fresh, Loops
  <2>3. runs' = runs /\ gen' = gen /\ state'.last = state.last
    BY <1>19 DEF AwaitProve
  <2>4. QED
    BY <2>2, <2>3, ChainKept
<1>20. ASSUME NEW g \in Gens, ClearActive(g) PROVE ChainFits'
  <2>1. g = 1
    OBVIOUS
  <2>2. loop[1].at # "take" /\ loop'[1].at \notin {"create", "take"}
    BY <1>20, <2>1 DEF ClearActive, Goto, Fresh, Loops
  <2>3. runs' = runs /\ gen' = gen /\ state'.last = state.last
    BY <1>20 DEF ClearActive, States
  <2>4. QED
    BY <2>2, <2>3, ChainKept
<1>22. ASSUME NEW g \in Gens, LoopExit(g) PROVE ChainFits'
  <2>1. g = 1
    OBVIOUS
  <2>2. loop[1].at # "take" /\ loop'[1].at \notin {"create", "take"}
    BY <1>22, <2>1 DEF LoopExit, Goto, Fresh, Loops
  <2>3. runs' = runs /\ gen' = gen /\ state'.last = state.last
    BY <1>22 DEF LoopExit, States
  <2>4. QED
    BY <2>2, <2>3, ChainKept
<1>23. ASSUME NEW g \in Gens, FailMark(g) PROVE ChainFits'
  <2>1. g = 1
    OBVIOUS
  <2>2. loop[1].at # "take" /\ loop'[1].at \notin {"create", "take"}
    BY <1>23, <2>1 DEF FailMark, Goto, Fresh, Loops
  <2>3. runs' = runs /\ gen' = gen /\ state'.last = state.last
    BY <1>23 DEF FailMark, States
  <2>4. QED
    BY <2>2, <2>3, ChainKept
<1>24. ASSUME NEW g \in Gens, FailSet(g) PROVE ChainFits'
  <2>1. g = 1
    OBVIOUS
  <2>2. loop[1].at # "take" /\ loop'[1].at \notin {"create", "take"}
    BY <1>24, <2>1 DEF FailSet, Goto, Fresh, Loops
  <2>3. runs' = runs /\ gen' = gen /\ state'.last = state.last
    BY <1>24 DEF FailSet
  <2>4. QED
    BY <2>2, <2>3, ChainKept
<1>25. ASSUME NEW g \in Gens, FailScope(g) PROVE ChainFits'
  <2>1. g = 1
    OBVIOUS
  <2>2. loop[1].at # "take" /\ loop'[1].at \notin {"create", "take"}
    BY <1>25, <2>1 DEF FailScope, Forget, Fresh, Loops
  <2>3. runs' = runs /\ gen' = gen /\ state'.last = state.last
    BY <1>25 DEF FailScope
  <2>4. QED
    BY <2>2, <2>3, ChainKept
<1>26. ASSUME NEW c \in Commits, HeadMoves(c) PROVE ChainFits'
  <2>1. UNCHANGED <<runs, gen, loop>> /\ state'.last = state.last
    BY <1>26 DEF HeadMoves
  <2>2. QED
    BY <2>1 DEF SInv, ChainFits, RunsChain, Newest
<1>27. CASE RepoVanishes
  <2>1. UNCHANGED <<runs, gen, loop>> /\ state'.last = state.last
    BY <1>27 DEF RepoVanishes
  <2>2. QED
    BY <2>1 DEF SInv, ChainFits, RunsChain, Newest
<1>28. CASE PowerChanges
  <2>1. UNCHANGED <<runs, gen, loop>> /\ state'.last = state.last
    BY <1>28 DEF PowerChanges
  <2>2. QED
    BY <2>1 DEF SInv, ChainFits, RunsChain, Newest
<1>29. ASSUME NEW r \in DOMAIN prove, ProveEnds(r) PROVE ChainFits'
  <2>1. UNCHANGED <<runs, gen, loop>> /\ state'.last = state.last
    BY <1>29 DEF ProveEnds
  <2>2. QED
    BY <2>1 DEF SInv, ChainFits, RunsChain, Newest
<1>30. CASE UNCHANGED vars
  BY <1>30 DEF vars, SInv, ChainFits, RunsChain, Newest
<1>31. QED
  BY <1>1, <1>2, <1>3, <1>4, <1>5, <1>6, <1>7, <1>8, <1>9, <1>10, <1>11, <1>12, <1>13, <1>14, <1>15, <1>16, <1>17, <1>18, <1>19, <1>20, <1>22, <1>23, <1>24, <1>25, <1>26, <1>27, <1>28, <1>29, <1>30
     DEF Next, Starting, Stopping, LoopStep

(* The loop is there since the start. *)
LEMMA StartedStep ==
  ASSUME SInv, MaxStarts = 1, [Next]_vars
  PROVE  StartedFits'
<1> USE OneLoop, Typed
<1>1. CASE StartResolve
  BY <1>1 DEF StartResolve, SInv, StartedFits
<1>2. CASE Start
  <2>1. gen' = gen + 1
    BY <1>2 DEF Start
  <2>2. QED
    BY <2>1 DEF StartedFits
<1>3. CASE StartRaises
  <2>1. gen' = gen + 1
    BY <1>3 DEF StartRaises
  <2>2. QED
    BY <2>1 DEF StartedFits
<1>4. CASE StartRefused
  BY <1>4 DEF StartRefused, SInv, StartedFits
<1>5. CASE StopMark
  BY <1>5 DEF StopMark, SInv, StartedFits
<1>6. CASE StopSet
  BY <1>6 DEF StopSet, SInv, StartedFits
<1>7. CASE StopScope
  BY <1>7 DEF StopScope, SInv, StartedFits
<1>8. CASE StopCancel
  BY <1>8 DEF StopCancel, SInv, StartedFits
<1>9. ASSUME NEW g \in Gens, LoopTop(g) PROVE StartedFits'
  <2>1. g = 1 /\ loop[1].at # "unborn" /\ gen' = gen
    BY <1>9 DEF LoopTop
  <2>2. QED
    BY <2>1 DEF SInv, StartedFits
<1>10. ASSUME NEW g \in Gens, Hold(g) PROVE StartedFits'
  <2>1. g = 1 /\ loop[1].at # "unborn" /\ gen' = gen
    BY <1>10 DEF Hold
  <2>2. QED
    BY <2>1 DEF SInv, StartedFits
<1>11. ASSUME NEW g \in Gens, Probe(g) PROVE StartedFits'
  <2>1. g = 1 /\ loop[1].at # "unborn" /\ gen' = gen
    BY <1>11 DEF Probe
  <2>2. QED
    BY <2>1 DEF SInv, StartedFits
<1>12. ASSUME NEW g \in Gens, PollHead(g) PROVE StartedFits'
  <2>1. g = 1 /\ loop[1].at # "unborn" /\ gen' = gen
    BY <1>12 DEF PollHead
  <2>2. QED
    BY <2>1 DEF SInv, StartedFits
<1>13. ASSUME NEW g \in Gens, ReadLast(g) PROVE StartedFits'
  <2>1. g = 1 /\ loop[1].at # "unborn" /\ gen' = gen
    BY <1>13 DEF ReadLast
  <2>2. QED
    BY <2>1 DEF SInv, StartedFits
<1>14. ASSUME NEW g \in Gens, CreateWatchRun(g) PROVE StartedFits'
  <2>1. g = 1 /\ loop[1].at # "unborn" /\ gen' = gen
    BY <1>14 DEF CreateWatchRun
  <2>2. QED
    BY <2>1 DEF SInv, StartedFits
<1>15. ASSUME NEW g \in Gens, CreateFails(g) PROVE StartedFits'
  <2>1. g = 1 /\ loop[1].at # "unborn" /\ gen' = gen
    BY <1>15 DEF CreateFails
  <2>2. QED
    BY <2>1 DEF SInv, StartedFits
<1>16. ASSUME NEW g \in Gens, Take(g) PROVE StartedFits'
  <2>1. g = 1 /\ loop[1].at # "unborn" /\ gen' = gen
    BY <1>16 DEF Take
  <2>2. QED
    BY <2>1 DEF SInv, StartedFits
<1>17. ASSUME NEW g \in Gens, SpawnProve(g) PROVE StartedFits'
  <2>1. g = 1 /\ loop[1].at # "unborn" /\ gen' = gen
    BY <1>17 DEF SpawnProve
  <2>2. QED
    BY <2>1 DEF SInv, StartedFits
<1>18. ASSUME NEW g \in Gens, SpawnRaises(g) PROVE StartedFits'
  <2>1. g = 1 /\ loop[1].at # "unborn" /\ gen' = gen
    BY <1>18 DEF SpawnRaises
  <2>2. QED
    BY <2>1 DEF SInv, StartedFits
<1>19. ASSUME NEW g \in Gens, AwaitProve(g) PROVE StartedFits'
  <2>1. g = 1 /\ loop[1].at # "unborn" /\ gen' = gen
    BY <1>19 DEF AwaitProve
  <2>2. QED
    BY <2>1 DEF SInv, StartedFits
<1>20. ASSUME NEW g \in Gens, ClearActive(g) PROVE StartedFits'
  <2>1. g = 1 /\ loop[1].at # "unborn" /\ gen' = gen
    BY <1>20 DEF ClearActive
  <2>2. QED
    BY <2>1 DEF SInv, StartedFits
<1>22. ASSUME NEW g \in Gens, LoopExit(g) PROVE StartedFits'
  <2>1. g = 1 /\ loop[1].at # "unborn" /\ gen' = gen
    BY <1>22 DEF LoopExit
  <2>2. QED
    BY <2>1 DEF SInv, StartedFits
<1>23. ASSUME NEW g \in Gens, FailMark(g) PROVE StartedFits'
  <2>1. g = 1 /\ loop[1].at # "unborn" /\ gen' = gen
    BY <1>23 DEF FailMark
  <2>2. QED
    BY <2>1 DEF SInv, StartedFits
<1>24. ASSUME NEW g \in Gens, FailSet(g) PROVE StartedFits'
  <2>1. g = 1 /\ loop[1].at # "unborn" /\ gen' = gen
    BY <1>24 DEF FailSet
  <2>2. QED
    BY <2>1 DEF SInv, StartedFits
<1>25. ASSUME NEW g \in Gens, FailScope(g) PROVE StartedFits'
  <2>1. g = 1 /\ loop[1].at # "unborn" /\ gen' = gen
    BY <1>25 DEF FailScope
  <2>2. QED
    BY <2>1 DEF SInv, StartedFits
<1>26. ASSUME NEW c \in Commits, HeadMoves(c) PROVE StartedFits'
  BY <1>26 DEF HeadMoves, SInv, StartedFits
<1>27. CASE RepoVanishes
  BY <1>27 DEF RepoVanishes, SInv, StartedFits
<1>28. CASE PowerChanges
  BY <1>28 DEF PowerChanges, SInv, StartedFits
<1>29. ASSUME NEW r \in DOMAIN prove, ProveEnds(r) PROVE StartedFits'
  BY <1>29 DEF ProveEnds, SInv, StartedFits
<1>30. CASE UNCHANGED vars
  BY <1>30 DEF vars, SInv, StartedFits
<1>31. QED
  BY <1>1, <1>2, <1>3, <1>4, <1>5, <1>6, <1>7, <1>8, <1>9, <1>10, <1>11, <1>12, <1>13, <1>14, <1>15, <1>16, <1>17, <1>18, <1>19, <1>20, <1>22, <1>23, <1>24, <1>25, <1>26, <1>27, <1>28, <1>29, <1>30
     DEF Next, Starting, Stopping, LoopStep

(* The invariant of one start. *)
LEMMA InitSInv == MaxStarts = 1 /\ Init => SInv
<1> SUFFICES ASSUME MaxStarts = 1, Init PROVE SInv
  OBVIOUS
<1>1. 1 \in Gens /\ loop[1].at = "unborn" /\ Len(runs) = 0 /\ DOMAIN runs = {} /\ DOMAIN prove = {}
  BY DEF Init, Gens, Fresh
<1>2. ChainFits /\ StartedFits
  BY <1>1 DEF ChainFits, StartedFits, RunsChain
<1>3. QED
  BY <1>2, InitWInv DEF SInv

(* And every step keeps it. *)
LEMMA NextSInv == MaxStarts = 1 /\ SInv /\ [Next]_vars => SInv'
<1> SUFFICES ASSUME MaxStarts = 1, SInv, [Next]_vars PROVE SInv'
  OBVIOUS
<1>1. WInv'
  BY NextWInv DEF SInv
<1>2. QED
  BY <1>1, ChainStep, StartedStep DEF SInv

(* Its runs follow each other: none leaves out or repeats a change of HEAD     *)
(* (last_sha and the row's base are read and written under the session lock).  *)
THEOREM RunsFollow == ASSUME MaxStarts = 1 PROVE Spec => []RunsChain
<1>1. SInv => RunsChain
  BY DEF SInv, ChainFits
<1>2. Init => SInv
  BY InitSInv
<1>3. SInv /\ [Next]_vars => SInv'
  BY NextSInv
<1>4. QED
  BY <1>1, <1>2, <1>3, PTL DEF Spec

=============================================================================
