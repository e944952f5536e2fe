--------------------------- MODULE ApprovalProofs ---------------------------
(***************************************************************************)
(* Proofs about ApprovalLifecycle, for every number of clients, of         *)
(* generations, of pauses and of attempts.                                 *)
(*                                                                         *)
(* None of the three properties is inductive.  One driver rests on the     *)
(* fact that the run of the current generation is gone once its job waits  *)
(* for review (RunsFit): a resume can then add a run without doubling one. *)
(* The other two rest on the two names of the action (ReviewFits): the     *)
(* private one is there exactly as long as the barrier, nobody but the     *)
(* pausing run can match it, and the public one is written after the       *)
(* response is saved.                                                      *)
(***************************************************************************)
EXTENDS ApprovalLifecycle, TLAPS

\* A run that goes on has a generation, which is not newer than the job's; one that pauses
\* has an action; one of the job's own generation is not executing while the job waits.
RunsFit ==
    \A r \in Runs :
        /\ runs[r].gen <= job.gen
        /\ runs[r].pc # "off" => runs[r].gen # 0
        /\ runs[r].pc \in {"own", "write", "free", "fail"} => runs[r].act \in Actions
        /\ runs[r].pc = "free" => runs[r].act \in saved
        /\ Driving(r) /\ runs[r].gen = job.gen => job.status # "requires_action"

\* While the job waits: its action is one of those handed out, answered by nobody yet, and
\* its mirror is the private id under the barrier and the public one after the save.
ReviewFits ==
    job.status = "requires_action" =>
        /\ job.action \in 1 .. paused
        /\ job.barrier => job.mirror = -job.action
        /\ ~job.barrier => job.mirror = job.action /\ job.action \in saved
        /\ \A x \in answers : x.paused # job.action

\* Answers are about actions that were handed out, and decided on the action they resumed.
AnswersFit == \A x \in answers : x.paused <= paused /\ x.decided = x.paused

\* A request that will compare an action has a public one to compare.
RequestsFit ==
    \A c \in Clients :
        /\ req[c].tries < MaxAttempts
        /\ req[c].pc # "idle" => req[c].kind # "none"
        /\ req[c].kind \in {"resolve", "expire"} => req[c].act \in Actions
        /\ req[c].pc = "cas" /\ req[c].from = "requires_action" => req[c].act \in Actions

IInv == TypeOK /\ RunsFit /\ OneDriver /\ ReviewFits /\ AnswersFit /\ DecidedOnce /\ RequestsFit

\* What the variables may hold.
JobRec == [gen : Gens, status : {"running", "requires_action"} \cup Terminal,
           action : 0 .. MaxActions, mirror : -MaxActions .. MaxActions, barrier : BOOLEAN]
RunRec == [pc : {"off", "run", "own", "write", "free", "fail"},
           gen : 0 .. MaxGens, act : 0 .. MaxActions]
ReqRec == [pc : {"idle", "look", "cas"}, kind : {"none", "resolve", "expire", "stop"},
           gen : 0 .. MaxGens, act : -MaxActions .. MaxActions,
           from : {"none", "running", "requires_action"}, tries : 0 .. MaxAttempts]
AnsRec == [decided : -MaxActions .. MaxActions, paused : 0 .. MaxActions, run : Runs]

JobOK == job \in JobRec
RunsOK == runs \in [Runs -> RunRec]
ReqOK == req \in [Clients -> ReqRec]
HistoryOK == answers \subseteq AnsRec
RestOK == /\ lapsed \subseteq Actions /\ saved \subseteq Actions
          /\ paused \in 0 .. MaxActions

\* TypeOK, variable by variable.
LEMMA TypeParts ==
  TypeOK <=> JobOK /\ RunsOK /\ ReqOK /\ HistoryOK /\ RestOK /\ due \in BOOLEAN
BY DEF TypeOK, JobOK, RunsOK, ReqOK, HistoryOK, RestOK, JobRec, RunRec, ReqRec, AnsRec

\* The same of the next state.
LEMMA TypePartsNext ==
  JobOK' /\ RunsOK' /\ ReqOK' /\ HistoryOK' /\ RestOK' /\ due' \in BOOLEAN => TypeOK'
BY DEF TypeOK, JobOK, RunsOK, ReqOK, HistoryOK, RestOK, JobRec, RunRec, ReqRec, AnsRec

\* What the paths out of review leave of the job.
LEMMA ClearedOK ==
  ASSUME JobOK, NEW s \in {"running", "error", "aborted"}
  PROVE  Cleared(s) \in JobRec /\ [Cleared(s) EXCEPT !.barrier = FALSE] \in JobRec
<1>1. 0 \in 0 .. MaxActions /\ 0 \in -MaxActions .. MaxActions
  BY ApprovalBounds
<1>2. s \in {"running", "requires_action"} \cup Terminal
  BY DEF Terminal
<1>3. Cleared(s) \in JobRec
  BY <1>1, <1>2 DEF Cleared, JobOK, JobRec
<1>4. QED
  BY <1>3 DEF JobRec

\* A caller that has nothing to do.
LEMMA NoReqOK == NoReq \in ReqRec
BY ApprovalBounds DEF NoReq, ReqRec

\* The record of one run is replaced.
LEMMA RunPut ==
  ASSUME RunsOK, NEW r \in Runs, NEW x \in RunRec, runs' = [runs EXCEPT ![r] = x]
  PROVE  RunsOK'
BY DEF RunsOK

\* The record of one request is replaced.
LEMMA ReqPut ==
  ASSUME ReqOK, NEW c \in Clients, NEW x \in ReqRec, req' = [req EXCEPT ![c] = x]
  PROVE  ReqOK'
BY DEF ReqOK

\* The job record keeps its type.
LEMMA JobStep == IInv /\ [Next]_vars => JobOK'
<1> SUFFICES ASSUME IInv, [Next]_vars PROVE JobOK'
  OBVIOUS
<1> USE ApprovalBounds, TypeParts DEF IInv, JobOK, JobRec, Gens, Terminal, RestOK
<1>1. CASE CreateJob
  BY <1>1 DEF CreateJob, Fresh
<1>2. CASE LeaseEnds
  BY <1>2 DEF LeaseEnds
<1>3. CASE ActionLapses
  BY <1>3 DEF ActionLapses
<1>4. CASE FailStale
  BY <1>4, ClearedOK DEF FailStale
<1>5. ASSUME NEW r \in Runs, Pause(r) PROVE JobOK'
  <2>1. CASE Matches("running", 0, runs[r].gen)
    <3>1. paused + 1 \in 0 .. MaxActions /\ -(paused + 1) \in -MaxActions .. MaxActions
      BY <1>5, TypeParts DEF Pause
    <3>2. job' = [job EXCEPT !.status = "requires_action", !.action = paused + 1,
                             !.mirror = -(paused + 1), !.barrier = TRUE]
      BY <1>5, <2>1 DEF Pause, Pausing
    <3>3. QED
      BY <3>1, <3>2, TypeParts
  <2>2. CASE ~Matches("running", 0, runs[r].gen)
    BY <1>5, <2>2, TypeParts DEF Pause
  <2>3. QED
    BY <2>1, <2>2
<1>6. ASSUME NEW r \in Runs, Owns(r) PROVE JobOK'
  BY <1>6 DEF Owns
<1>7. ASSUME NEW r \in Runs, Write(r) PROVE JobOK'
  BY <1>7 DEF Write
<1>8. ASSUME NEW r \in Runs, Free(r) PROVE JobOK'
  <2>1. runs[r].act \in -MaxActions .. MaxActions
    BY <1>8, TypeParts DEF RunsOK, RunRec
  <2>2. QED
    BY <1>8, <2>1, TypeParts DEF Free
<1>9. ASSUME NEW r \in Runs, FailPause(r) PROVE JobOK'
  BY <1>9, ClearedOK DEF FailPause
<1>10. ASSUME NEW r \in Runs, Finish(r) PROVE JobOK'
  BY <1>10 DEF Finish
<1>11. ASSUME NEW r \in Runs, Dies(r) PROVE JobOK'
  BY <1>11 DEF Dies
<1>12. ASSUME NEW c \in Clients, AskResolve(c) PROVE JobOK'
  BY <1>12 DEF AskResolve
<1>13. ASSUME NEW c \in Clients, AskExpire(c) PROVE JobOK'
  BY <1>13 DEF AskExpire
<1>14. ASSUME NEW c \in Clients, AskStop(c) PROVE JobOK'
  BY <1>14 DEF AskStop
<1>15. ASSUME NEW c \in Clients, Look(c) PROVE JobOK'
  BY <1>15 DEF Look
<1>16. ASSUME NEW c \in Clients, Resolve(c) PROVE JobOK'
  BY <1>16, ClearedOK DEF Resolve
<1>17. ASSUME NEW c \in Clients, Expire(c) PROVE JobOK'
  BY <1>17, ClearedOK DEF Expire
<1>18. ASSUME NEW c \in Clients, Stop(c) PROVE JobOK'
  BY <1>18 DEF Stop
<1>19. CASE UNCHANGED vars
  BY <1>19 DEF vars, Driving
<1>20. QED
  BY <1>1, <1>2, <1>3, <1>4, <1>5, <1>6, <1>7, <1>8, <1>9, <1>10, <1>11, <1>12, <1>13, <1>14, <1>15, <1>16, <1>17, <1>18, <1>19
     DEF Next, Run, Ask, Request

\* The runs keep their type.
LEMMA RunsTypeStep == IInv /\ [Next]_vars => RunsOK'
<1> SUFFICES ASSUME IInv, [Next]_vars PROVE RunsOK'
  OBVIOUS
<1> USE ApprovalBounds, TypeParts DEF IInv, RunsOK
<1>1. CASE CreateJob
  <2>1. [pc |-> "run", gen |-> job.gen + 1, act |-> 0] \in RunRec
    BY <1>1 DEF CreateJob, RunRec, JobOK, JobRec, Gens
  <2>2. PICK r \in Runs : runs' = [runs EXCEPT ![r] = [pc |-> "run", gen |-> job.gen + 1, act |-> 0]]
    BY <1>1 DEF CreateJob
  <2>3. QED
    BY <2>1, <2>2, RunPut
<1>2. CASE LeaseEnds
  BY <1>2 DEF LeaseEnds
<1>3. CASE ActionLapses
  BY <1>3 DEF ActionLapses
<1>4. CASE FailStale
  BY <1>4 DEF FailStale
<1>5. ASSUME NEW r \in Runs, Pause(r) PROVE RunsOK'
  <2>1. [runs[r] EXCEPT !.pc = "off"] \in RunRec
    BY DEF RunRec
  <2>2. [runs[r] EXCEPT !.pc = "own", !.act = paused + 1] \in RunRec
    <3>1. paused + 1 \in 0 .. MaxActions
      BY <1>5 DEF Pause, RestOK
    <3>2. QED
      BY <3>1 DEF RunRec
  <2>3. \E x \in RunRec : runs' = [runs EXCEPT ![r] = x]
    BY <1>5, <2>1, <2>2 DEF Pause
  <2>4. QED
    BY <2>3, RunPut
<1>6. ASSUME NEW r \in Runs, Owns(r) PROVE RunsOK'
  <2>1. \A p \in {"off", "write", "free", "fail"} : [runs[r] EXCEPT !.pc = p] \in RunRec
    BY DEF RunRec
  <2>2. \E x \in RunRec : runs' = [runs EXCEPT ![r] = x]
    BY <1>6, <2>1 DEF Owns
  <2>3. QED
    BY <2>2, RunPut
<1>7. ASSUME NEW r \in Runs, Write(r) PROVE RunsOK'
  <2>1. \A p \in {"off", "write", "free", "fail"} : [runs[r] EXCEPT !.pc = p] \in RunRec
    BY DEF RunRec
  <2>2. \E x \in RunRec : runs' = [runs EXCEPT ![r] = x]
    BY <1>7, <2>1 DEF Write
  <2>3. QED
    BY <2>2, RunPut
<1>8. ASSUME NEW r \in Runs, Free(r) PROVE RunsOK'
  <2>1. \A p \in {"off", "write", "free", "fail"} : [runs[r] EXCEPT !.pc = p] \in RunRec
    BY DEF RunRec
  <2>2. \E x \in RunRec : runs' = [runs EXCEPT ![r] = x]
    BY <1>8, <2>1 DEF Free
  <2>3. QED
    BY <2>2, RunPut
<1>9. ASSUME NEW r \in Runs, FailPause(r) PROVE RunsOK'
  <2>1. \A p \in {"off", "write", "free", "fail"} : [runs[r] EXCEPT !.pc = p] \in RunRec
    BY DEF RunRec
  <2>2. \E x \in RunRec : runs' = [runs EXCEPT ![r] = x]
    BY <1>9, <2>1 DEF FailPause
  <2>3. QED
    BY <2>2, RunPut
<1>10. ASSUME NEW r \in Runs, Finish(r) PROVE RunsOK'
  <2>1. \A p \in {"off", "write", "free", "fail"} : [runs[r] EXCEPT !.pc = p] \in RunRec
    BY DEF RunRec
  <2>2. \E x \in RunRec : runs' = [runs EXCEPT ![r] = x]
    BY <1>10, <2>1 DEF Finish
  <2>3. QED
    BY <2>2, RunPut
<1>11. ASSUME NEW r \in Runs, Dies(r) PROVE RunsOK'
  <2>1. \A p \in {"off", "write", "free", "fail"} : [runs[r] EXCEPT !.pc = p] \in RunRec
    BY DEF RunRec
  <2>2. \E x \in RunRec : runs' = [runs EXCEPT ![r] = x]
    BY <1>11, <2>1 DEF Dies
  <2>3. QED
    BY <2>2, RunPut
<1>12. ASSUME NEW c \in Clients, AskResolve(c) PROVE RunsOK'
  BY <1>12 DEF AskResolve
<1>13. ASSUME NEW c \in Clients, AskExpire(c) PROVE RunsOK'
  BY <1>13 DEF AskExpire
<1>14. ASSUME NEW c \in Clients, AskStop(c) PROVE RunsOK'
  BY <1>14 DEF AskStop
<1>15. ASSUME NEW c \in Clients, Look(c) PROVE RunsOK'
  BY <1>15 DEF Look
<1>16. ASSUME NEW c \in Clients, Resolve(c) PROVE RunsOK'
  <2>1. [pc |-> "run", gen |-> job.gen, act |-> 0] \in RunRec
    BY DEF RunRec, JobOK, JobRec, Gens
  <2>2. CASE Matches("requires_action", req[c].act, req[c].gen)
    <3>1. PICK r \in Runs : runs' = [runs EXCEPT ![r] = [pc |-> "run", gen |-> job.gen, act |-> 0]]
      BY <1>16, <2>2 DEF Resolve
    <3>2. QED
      BY <2>1, <3>1, RunPut
  <2>3. CASE ~Matches("requires_action", req[c].act, req[c].gen)
    BY <1>16, <2>3 DEF Resolve
  <2>4. QED
    BY <2>2, <2>3
<1>17. ASSUME NEW c \in Clients, Expire(c) PROVE RunsOK'
  BY <1>17 DEF Expire
<1>18. ASSUME NEW c \in Clients, Stop(c) PROVE RunsOK'
  BY <1>18 DEF Stop
<1>19. CASE UNCHANGED vars
  BY <1>19 DEF vars, Driving
<1>20. QED
  BY <1>1, <1>2, <1>3, <1>4, <1>5, <1>6, <1>7, <1>8, <1>9, <1>10, <1>11, <1>12, <1>13, <1>14, <1>15, <1>16, <1>17, <1>18, <1>19
     DEF Next, Run, Ask, Request

\* The requests keep their type.
LEMMA ReqTypeStep == IInv /\ [Next]_vars => ReqOK'
<1> SUFFICES ASSUME IInv, [Next]_vars PROVE ReqOK'
  OBVIOUS
<1> USE ApprovalBounds, TypeParts DEF IInv, ReqOK
<1>1. CASE CreateJob
  BY <1>1 DEF CreateJob
<1>2. CASE LeaseEnds
  BY <1>2 DEF LeaseEnds
<1>3. CASE ActionLapses
  BY <1>3 DEF ActionLapses
<1>4. CASE FailStale
  BY <1>4 DEF FailStale
<1>5. ASSUME NEW r \in Runs, Pause(r) PROVE ReqOK'
  BY <1>5 DEF Pause
<1>6. ASSUME NEW r \in Runs, Owns(r) PROVE ReqOK'
  BY <1>6 DEF Owns
<1>7. ASSUME NEW r \in Runs, Write(r) PROVE ReqOK'
  BY <1>7 DEF Write
<1>8. ASSUME NEW r \in Runs, Free(r) PROVE ReqOK'
  BY <1>8 DEF Free
<1>9. ASSUME NEW r \in Runs, FailPause(r) PROVE ReqOK'
  BY <1>9 DEF FailPause
<1>10. ASSUME NEW r \in Runs, Finish(r) PROVE ReqOK'
  BY <1>10 DEF Finish
<1>11. ASSUME NEW r \in Runs, Dies(r) PROVE ReqOK'
  BY <1>11 DEF Dies
<1>12. ASSUME NEW c \in Clients, AskResolve(c) PROVE ReqOK'
  <2>1. job.gen \in 0 .. MaxGens /\ job.action \in -MaxActions .. MaxActions
    BY DEF JobOK, JobRec, Gens
  <2>2. [NoReq EXCEPT !.pc = "look", !.kind = "resolve", !.gen = job.gen, !.act = job.action] \in ReqRec
    BY <2>1, NoReqOK DEF ReqRec
  <2>3. QED
    BY <1>12, <2>2, ReqPut DEF AskResolve
<1>13. ASSUME NEW c \in Clients, AskExpire(c) PROVE ReqOK'
  <2>1. job.gen \in 0 .. MaxGens /\ job.action \in -MaxActions .. MaxActions
    BY DEF JobOK, JobRec, Gens
  <2>2. [NoReq EXCEPT !.pc = "look", !.kind = "expire", !.gen = job.gen, !.act = job.action] \in ReqRec
    BY <2>1, NoReqOK DEF ReqRec
  <2>3. QED
    BY <1>13, <2>2, ReqPut DEF AskExpire
<1>14. ASSUME NEW c \in Clients, AskStop(c) PROVE ReqOK'
  <2>1. job.gen \in 0 .. MaxGens /\ 0 \in -MaxActions .. MaxActions
    BY DEF JobOK, JobRec, Gens
  <2>2. [NoReq EXCEPT !.pc = "look", !.kind = "stop", !.gen = job.gen] \in ReqRec
    BY <2>1, NoReqOK DEF ReqRec
  <2>3. QED
    BY <1>14, <2>2, ReqPut DEF AskStop
<1>15. ASSUME NEW c \in Clients, Look(c) PROVE ReqOK'
  <2>1. NoReq \in ReqRec
    BY NoReqOK

  <2>2. [req[c] EXCEPT !.kind = "expire"] \in ReqRec
    BY DEF ReqRec
  <2>3. [req[c] EXCEPT !.pc = "cas", !.from = "requires_action"] \in ReqRec
    BY DEF ReqRec
  <2>4. \A s \in {"running", "requires_action"}, a \in -MaxActions .. MaxActions :
            [req[c] EXCEPT !.pc = "cas", !.from = s, !.act = a] \in ReqRec
    BY DEF ReqRec
  <2>5. (IF job.status = "requires_action" THEN job.mirror ELSE 0) \in -MaxActions .. MaxActions
    BY DEF JobOK, JobRec
  <2>6. \E x \in ReqRec : req' = [req EXCEPT ![c] = x]
    BY <1>15, <2>1, <2>2, <2>3, <2>4, <2>5 DEF Look
  <2>7. QED
    BY <2>6, ReqPut
<1>16. ASSUME NEW c \in Clients, Resolve(c) PROVE ReqOK'
  <2>1. NoReq \in ReqRec
    BY NoReqOK

  <2>2. QED
    BY <1>16, <2>1, ReqPut DEF Resolve
<1>17. ASSUME NEW c \in Clients, Expire(c) PROVE ReqOK'
  <2>1. NoReq \in ReqRec
    BY NoReqOK

  <2>2. QED
    BY <1>17, <2>1, ReqPut DEF Expire
<1>18. ASSUME NEW c \in Clients, Stop(c) PROVE ReqOK'
  <2>1. NoReq \in ReqRec
    BY NoReqOK

  <2>2. req[c].tries \in 0 .. MaxAttempts /\ req[c].tries < MaxAttempts
    BY DEF ReqRec, RequestsFit
  <2>3. req[c].tries + 1 # MaxAttempts => req[c].tries + 1 \in 0 .. MaxAttempts
    BY <2>2
  <2>4. req[c].tries + 1 # MaxAttempts
            => [req[c] EXCEPT !.pc = "look", !.tries = req[c].tries + 1] \in ReqRec
    BY <2>3 DEF ReqRec
  <2>5. CASE Matches(req[c].from, req[c].act, req[c].gen)
    BY <1>18, <2>1, <2>5, ReqPut DEF Stop
  <2>6. CASE ~Matches(req[c].from, req[c].act, req[c].gen) /\ req[c].tries + 1 = MaxAttempts
    <3>1. req' = [req EXCEPT ![c] = NoReq]
      BY <1>18, <2>6 DEF Stop
    <3>2. QED
      BY <2>1, <3>1, ReqPut
  <2>7. CASE ~Matches(req[c].from, req[c].act, req[c].gen) /\ req[c].tries + 1 # MaxAttempts
    <3>1. req' = [req EXCEPT ![c] = [req[c] EXCEPT !.pc = "look", !.tries = req[c].tries + 1]]
      BY <1>18, <2>7 DEF Stop
    <3>2. QED
      BY <2>4, <2>7, <3>1, ReqPut
  <2>8. QED
    BY <2>5, <2>6, <2>7
<1>19. CASE UNCHANGED vars
  BY <1>19 DEF vars, Driving
<1>20. QED
  BY <1>1, <1>2, <1>3, <1>4, <1>5, <1>6, <1>7, <1>8, <1>9, <1>10, <1>11, <1>12, <1>13, <1>14, <1>15, <1>16, <1>17, <1>18, <1>19
     DEF Next, Run, Ask, Request

\* The sets of actions, the counter and the history keep their types.
LEMMA RestTypeStep == IInv /\ [Next]_vars => (RestOK /\ HistoryOK)'
<1> SUFFICES ASSUME IInv, [Next]_vars PROVE (RestOK /\ HistoryOK)'
  OBVIOUS
<1> USE ApprovalBounds, TypeParts DEF IInv, RestOK, HistoryOK
<1>1. CASE CreateJob
  BY <1>1 DEF CreateJob
<1>2. CASE LeaseEnds
  BY <1>2 DEF LeaseEnds
<1>3. CASE ActionLapses
  <2>1. job.action \in Actions
    BY <1>3 DEF ActionLapses, ReviewFits, Actions
  <2>2. QED
    BY <1>3, <2>1 DEF ActionLapses
<1>4. CASE FailStale
  BY <1>4 DEF FailStale
<1>5. ASSUME NEW r \in Runs, Pause(r) PROVE (RestOK /\ HistoryOK)'
  <2>1. CASE Matches("running", 0, runs[r].gen)
    BY <1>5, <2>1 DEF Pause
  <2>2. CASE ~Matches("running", 0, runs[r].gen)
    BY <1>5, <2>2 DEF Pause
  <2>3. QED
    BY <2>1, <2>2
<1>6. ASSUME NEW r \in Runs, Owns(r) PROVE (RestOK /\ HistoryOK)'
  BY <1>6 DEF Owns
<1>7. ASSUME NEW r \in Runs, Write(r) PROVE (RestOK /\ HistoryOK)'
  <2>1. runs[r].act \in Actions
    BY <1>7 DEF Write, RunsFit
  <2>2. QED
    BY <1>7, <2>1 DEF Write
<1>8. ASSUME NEW r \in Runs, Free(r) PROVE (RestOK /\ HistoryOK)'
  BY <1>8 DEF Free
<1>9. ASSUME NEW r \in Runs, FailPause(r) PROVE (RestOK /\ HistoryOK)'
  BY <1>9 DEF FailPause
<1>10. ASSUME NEW r \in Runs, Finish(r) PROVE (RestOK /\ HistoryOK)'
  BY <1>10 DEF Finish
<1>11. ASSUME NEW r \in Runs, Dies(r) PROVE (RestOK /\ HistoryOK)'
  BY <1>11 DEF Dies
<1>12. ASSUME NEW c \in Clients, AskResolve(c) PROVE (RestOK /\ HistoryOK)'
  BY <1>12 DEF AskResolve
<1>13. ASSUME NEW c \in Clients, AskExpire(c) PROVE (RestOK /\ HistoryOK)'
  BY <1>13 DEF AskExpire
<1>14. ASSUME NEW c \in Clients, AskStop(c) PROVE (RestOK /\ HistoryOK)'
  BY <1>14 DEF AskStop
<1>15. ASSUME NEW c \in Clients, Look(c) PROVE (RestOK /\ HistoryOK)'
  BY <1>15 DEF Look
<1>16. ASSUME NEW c \in Clients, Resolve(c) PROVE (RestOK /\ HistoryOK)'
  <2>1. CASE Matches("requires_action", req[c].act, req[c].gen)
    <3>1. PICK r \in Runs : answers' = answers \cup
                {[decided |-> req[c].act, paused |-> job.action, run |-> r]}
      BY <1>16, <2>1 DEF Resolve
    <3>2. [decided |-> req[c].act, paused |-> job.action, run |-> r] \in AnsRec
      BY DEF AnsRec, ReqOK, ReqRec, JobOK, JobRec
    <3>3. QED
      BY <1>16, <3>1, <3>2 DEF Resolve
  <2>2. CASE ~Matches("requires_action", req[c].act, req[c].gen)
    BY <1>16, <2>2 DEF Resolve
  <2>3. QED
    BY <2>1, <2>2
<1>17. ASSUME NEW c \in Clients, Expire(c) PROVE (RestOK /\ HistoryOK)'
  BY <1>17 DEF Expire
<1>18. ASSUME NEW c \in Clients, Stop(c) PROVE (RestOK /\ HistoryOK)'
  BY <1>18 DEF Stop
<1>19. CASE UNCHANGED vars
  BY <1>19 DEF vars, Driving
<1>20. QED
  BY <1>1, <1>2, <1>3, <1>4, <1>5, <1>6, <1>7, <1>8, <1>9, <1>10, <1>11, <1>12, <1>13, <1>14, <1>15, <1>16, <1>17, <1>18, <1>19
     DEF Next, Run, Ask, Request


\* What the types say of one run.
LEMMA RunShape ==
  ASSUME TypeOK
  PROVE  /\ job.gen \in Gens /\ job.gen \in Int
         /\ runs = [r \in Runs |-> runs[r]]
         /\ \A r \in Runs : /\ runs[r].gen \in 0 .. MaxGens /\ runs[r].gen \in Int
                            /\ runs[r].act \in 0 .. MaxActions
                            /\ runs[r] = [pc |-> runs[r].pc, gen |-> runs[r].gen, act |-> runs[r].act]
BY ApprovalBounds, TypeParts DEF JobOK, JobRec, RunsOK, RunRec, Gens

\* What is said of the runs is kept.
LEMMA RunsStep == IInv /\ [Next]_vars => RunsFit'
<1> SUFFICES ASSUME IInv, [Next]_vars PROVE RunsFit'
  OBVIOUS
<1> USE ApprovalBounds, TypeParts DEF IInv, RunsFit, Driving
<1>1. CASE CreateJob
  <2>1. PICK q \in Runs : /\ FreshRun(q)
                          /\ runs' = [runs EXCEPT ![q] = [pc |-> "run", gen |-> job.gen + 1, act |-> 0]]
    BY <1>1 DEF CreateJob
  <2>2. job' = [gen |-> job.gen + 1, status |-> "running", action |-> 0, mirror |-> 0, barrier |-> FALSE]
    BY <1>1 DEF CreateJob, Fresh

  <2>3. job.gen + 1 # 0
    BY RunShape DEF Gens
  <2>4. QED
    BY <1>1, <2>1, <2>2, <2>3, RunShape DEF CreateJob
<1>2. CASE LeaseEnds
  BY <1>2 DEF LeaseEnds
<1>3. CASE ActionLapses
  BY <1>3 DEF ActionLapses
<1>4. CASE FailStale
  BY <1>4 DEF FailStale, Cleared
<1>5. ASSUME NEW r \in Runs, Pause(r) PROVE RunsFit'
  <2>1. paused + 1 \in Actions
    BY <1>5 DEF Pause, RestOK, Actions
  <2>2. CASE Matches("running", 0, runs[r].gen)
    <3>1. runs[r].gen = job.gen
      BY <1>5, <2>2 DEF Pause, Matches
    <3>2. \A q \in Runs : q # r /\ runs[q].pc = "run" => runs[q].gen # job.gen
      BY <1>5, <3>1 DEF Pause, OneDriver
    <3>3. runs' = [runs EXCEPT ![r].pc = "own", ![r].act = paused + 1] /\ job'.gen = job.gen
      BY <1>5, <2>2 DEF Pause, JobOK, JobRec
    <3>4. QED
      BY <1>5, <2>1, <3>1, <3>2, <3>3, RunShape DEF Pause
  <2>3. CASE ~Matches("running", 0, runs[r].gen)
    BY <1>5, <2>3, RunShape DEF Pause
  <2>4. QED
    BY <2>2, <2>3
<1>6. ASSUME NEW r \in Runs, Owns(r) PROVE RunsFit'
  BY <1>6 DEF Owns
<1>7. ASSUME NEW r \in Runs, Write(r) PROVE RunsFit'
  <2>1. CASE saved' = saved \cup {runs[r].act} /\ runs' = [runs EXCEPT ![r].pc = "free"]
    BY <1>7, <2>1, RunShape DEF Write
  <2>2. CASE saved' = saved /\ runs' = [runs EXCEPT ![r].pc = "fail"]
    BY <1>7, <2>2, RunShape DEF Write
  <2>3. QED
    BY <1>7, <2>1, <2>2 DEF Write
<1>8. ASSUME NEW r \in Runs, Free(r) PROVE RunsFit'
  BY <1>8 DEF Free
<1>9. ASSUME NEW r \in Runs, FailPause(r) PROVE RunsFit'
  BY <1>9 DEF FailPause, Cleared
<1>10. ASSUME NEW r \in Runs, Finish(r) PROVE RunsFit'
  <2>1. job'.gen = job.gen /\ (job'.status = "requires_action" => job.status = "requires_action")
    BY <1>10 DEF Finish, JobOK, JobRec
  <2>2. QED
    BY <1>10, <2>1, RunShape DEF Finish
<1>11. ASSUME NEW r \in Runs, Dies(r) PROVE RunsFit'
  BY <1>11 DEF Dies
<1>12. ASSUME NEW c \in Clients, AskResolve(c) PROVE RunsFit'
  BY <1>12 DEF AskResolve
<1>13. ASSUME NEW c \in Clients, AskExpire(c) PROVE RunsFit'
  BY <1>13 DEF AskExpire
<1>14. ASSUME NEW c \in Clients, AskStop(c) PROVE RunsFit'
  BY <1>14 DEF AskStop
<1>15. ASSUME NEW c \in Clients, Look(c) PROVE RunsFit'
  BY <1>15 DEF Look
<1>16. ASSUME NEW c \in Clients, Resolve(c) PROVE RunsFit'
  <2>1. CASE ~Matches("requires_action", req[c].act, req[c].gen)
    BY <1>16, <2>1 DEF Resolve
  <2>2. CASE Matches("requires_action", req[c].act, req[c].gen)
    <3>1. PICK q \in Runs : runs' = [runs EXCEPT ![q] = [pc |-> "run", gen |-> job.gen, act |-> 0]]
      BY <1>16, <2>2 DEF Resolve
    <3>2. job.status = "requires_action" /\ job'.status = "running" /\ job'.gen = job.gen
      BY <1>16, <2>2 DEF Resolve, Matches, Cleared, JobOK, JobRec
    <3>3. job.gen # 0 /\ saved' = saved
      BY <1>16, RunShape DEF Resolve, Gens
    <3>4. \A p \in Runs : p # q => runs'[p] = runs[p]
      BY <3>1, RunShape
    <3>5. runs'[q] = [pc |-> "run", gen |-> job.gen, act |-> 0]
      BY <3>1, RunShape
    <3>6. QED
      BY <3>2, <3>3, <3>4, <3>5, RunShape
  <2>3. QED
    BY <2>1, <2>2
<1>17. ASSUME NEW c \in Clients, Expire(c) PROVE RunsFit'
  BY <1>17 DEF Expire, Cleared
<1>18. ASSUME NEW c \in Clients, Stop(c) PROVE RunsFit'
  <2>1. job'.gen = job.gen /\ (job'.status = "requires_action" => job.status = "requires_action")
    BY <1>18 DEF Stop, JobOK, JobRec
  <2>2. QED
    BY <1>18, <2>1 DEF Stop
<1>19. CASE UNCHANGED vars
  BY <1>19 DEF vars, Driving
<1>20. QED
  BY <1>1, <1>2, <1>3, <1>4, <1>5, <1>6, <1>7, <1>8, <1>9, <1>10, <1>11, <1>12, <1>13, <1>14, <1>15, <1>16, <1>17, <1>18, <1>19
     DEF Next, Run, Ask, Request

\* One driver: a resume adds a run where none is executing.
LEMMA DriverStep == IInv /\ [Next]_vars => OneDriver'
<1> SUFFICES ASSUME IInv, [Next]_vars PROVE OneDriver'
  OBVIOUS
<1> USE ApprovalBounds, TypeParts DEF IInv, OneDriver, Driving
<1>1. CASE CreateJob
  <2>1. PICK q \in Runs : /\ FreshRun(q)
                          /\ runs' = [runs EXCEPT ![q] = [pc |-> "run", gen |-> job.gen + 1, act |-> 0]]
    BY <1>1 DEF CreateJob
  <2>2. job' = [gen |-> job.gen + 1, status |-> "running", action |-> 0, mirror |-> 0, barrier |-> FALSE]
    BY <1>1 DEF CreateJob, Fresh

  <2>3. \A r \in Runs : runs[r].gen # job.gen + 1
    BY RunShape DEF RunsFit
  <2>4. QED
    BY <2>1, <2>3, RunShape
<1>2. CASE LeaseEnds
  BY <1>2 DEF LeaseEnds
<1>3. CASE ActionLapses
  BY <1>3 DEF ActionLapses
<1>4. CASE FailStale
  BY <1>4 DEF FailStale
<1>5. ASSUME NEW r \in Runs, Pause(r) PROVE OneDriver'
  <2>1. \A q \in Runs : /\ runs'[q].gen = runs[q].gen
                        /\ runs'[q].pc = "run" => runs[q].pc = "run"
    BY <1>5, RunShape DEF Pause
  <2>2. QED
    BY <2>1
<1>6. ASSUME NEW r \in Runs, Owns(r) PROVE OneDriver'
  BY <1>6 DEF Owns
<1>7. ASSUME NEW r \in Runs, Write(r) PROVE OneDriver'
  <2>1. \A q \in Runs : /\ runs'[q].gen = runs[q].gen
                        /\ runs'[q].pc = "run" => runs[q].pc = "run"
    BY <1>7, RunShape DEF Write
  <2>2. QED
    BY <2>1
<1>8. ASSUME NEW r \in Runs, Free(r) PROVE OneDriver'
  BY <1>8 DEF Free
<1>9. ASSUME NEW r \in Runs, FailPause(r) PROVE OneDriver'
  BY <1>9 DEF FailPause
<1>10. ASSUME NEW r \in Runs, Finish(r) PROVE OneDriver'
  BY <1>10 DEF Finish
<1>11. ASSUME NEW r \in Runs, Dies(r) PROVE OneDriver'
  BY <1>11 DEF Dies
<1>12. ASSUME NEW c \in Clients, AskResolve(c) PROVE OneDriver'
  BY <1>12 DEF AskResolve
<1>13. ASSUME NEW c \in Clients, AskExpire(c) PROVE OneDriver'
  BY <1>13 DEF AskExpire
<1>14. ASSUME NEW c \in Clients, AskStop(c) PROVE OneDriver'
  BY <1>14 DEF AskStop
<1>15. ASSUME NEW c \in Clients, Look(c) PROVE OneDriver'
  BY <1>15 DEF Look
<1>16. ASSUME NEW c \in Clients, Resolve(c) PROVE OneDriver'
  <2>1. CASE ~Matches("requires_action", req[c].act, req[c].gen)
    BY <1>16, <2>1 DEF Resolve
  <2>2. CASE Matches("requires_action", req[c].act, req[c].gen)
    <3>1. PICK q \in Runs : runs' = [runs EXCEPT ![q] = [pc |-> "run", gen |-> job.gen, act |-> 0]]
      BY <1>16, <2>2 DEF Resolve
    <3>2. job.status = "requires_action" /\ job'.status = "running" /\ job'.gen = job.gen
      BY <1>16, <2>2 DEF Resolve, Matches, Cleared, JobOK, JobRec
    <3>3. QED
      BY <1>16, <3>1, <3>2, RunShape DEF RunsFit
  <2>3. QED
    BY <2>1, <2>2
<1>17. ASSUME NEW c \in Clients, Expire(c) PROVE OneDriver'
  BY <1>17 DEF Expire
<1>18. ASSUME NEW c \in Clients, Stop(c) PROVE OneDriver'
  BY <1>18 DEF Stop
<1>19. CASE UNCHANGED vars
  BY <1>19 DEF vars, Driving
<1>20. QED
  BY <1>1, <1>2, <1>3, <1>4, <1>5, <1>6, <1>7, <1>8, <1>9, <1>10, <1>11, <1>12, <1>13, <1>14, <1>15, <1>16, <1>17, <1>18, <1>19
     DEF Next, Run, Ask, Request


\* What the types say of the job, of the counter and of one request.
LEMMA JobShape ==
  ASSUME TypeOK
  PROVE  /\ job = [gen |-> job.gen, status |-> job.status, action |-> job.action,
                   mirror |-> job.mirror, barrier |-> job.barrier]
         /\ job.action \in Int /\ job.mirror \in Int /\ paused \in Int
         /\ \A c \in Clients : req[c].act \in Int
         /\ \A x \in answers : x.paused \in Int
BY ApprovalBounds, TypeParts DEF JobOK, JobRec, ReqOK, ReqRec, RestOK, HistoryOK, AnsRec

\* The two names of the action follow the barrier and the save.
LEMMA ReviewStep == IInv /\ [Next]_vars => ReviewFits'
<1> SUFFICES ASSUME IInv, [Next]_vars PROVE ReviewFits'
  OBVIOUS
<1> USE ApprovalBounds, TypeParts DEF IInv, ReviewFits
<1>1. CASE CreateJob
  BY <1>1 DEF CreateJob, Fresh
<1>2. CASE LeaseEnds
  BY <1>2 DEF LeaseEnds
<1>3. CASE ActionLapses
  BY <1>3 DEF ActionLapses
<1>4. CASE FailStale
  <2>1. job'.status = "requires_action" => job' = job
    BY <1>4, JobShape DEF FailStale, Cleared
  <2>2. UNCHANGED <<saved, paused>> /\ (job' = job => answers' = answers)
    BY <1>4, JobShape DEF FailStale
  <2>3. QED
    BY <2>1, <2>2
<1>5. ASSUME NEW r \in Runs, Pause(r) PROVE ReviewFits'
  <2>1. CASE Matches("running", 0, runs[r].gen)
    <3>1. /\ job'.action = paused + 1 /\ job'.mirror = -(paused + 1) /\ job'.barrier
          /\ paused' = paused + 1 /\ answers' = answers
      BY <1>5, <2>1, JobShape DEF Pause, Pausing
    <3>2. paused + 1 \in 1 .. (paused + 1) /\ \A x \in answers : x.paused # paused + 1
      BY JobShape DEF AnswersFit, RestOK
    <3>3. QED
      BY <3>1, <3>2
  <2>2. CASE ~Matches("running", 0, runs[r].gen)
    BY <1>5, <2>2 DEF Pause
  <2>3. QED
    BY <2>1, <2>2
<1>6. ASSUME NEW r \in Runs, Owns(r) PROVE ReviewFits'
  BY <1>6 DEF Owns
<1>7. ASSUME NEW r \in Runs, Write(r) PROVE ReviewFits'
  BY <1>7 DEF Write
<1>8. ASSUME NEW r \in Runs, Free(r) PROVE ReviewFits'
  <2>1. CASE Matches("requires_action", Pausing(runs[r].act), runs[r].gen)
    <3>1. runs[r].act \in Actions /\ runs[r].act \in saved
      BY <1>8 DEF Free, RunsFit
    <3>2. job.status = "requires_action" /\ job.mirror = -runs[r].act
      BY <2>1, <3>1 DEF Matches, Pausing, Actions
    <3>3. job.action = runs[r].act
      BY <3>1, <3>2, JobShape DEF Actions
    <3>4. /\ job'.action = job.action /\ job'.mirror = runs[r].act /\ ~job'.barrier
          /\ UNCHANGED <<saved, paused, answers>>
      BY <1>8, <2>1, JobShape DEF Free
    <3>5. QED
      BY <3>1, <3>2, <3>3, <3>4
  <2>2. CASE ~Matches("requires_action", Pausing(runs[r].act), runs[r].gen)
    BY <1>8, <2>2 DEF Free
  <2>3. QED
    BY <2>1, <2>2
<1>9. ASSUME NEW r \in Runs, FailPause(r) PROVE ReviewFits'
  <2>1. job'.status = "requires_action" => job' = job
    BY <1>9, JobShape DEF FailPause, Cleared
  <2>2. UNCHANGED <<saved, paused>> /\ (job' = job => answers' = answers)
    BY <1>9, JobShape DEF FailPause
  <2>3. QED
    BY <2>1, <2>2
<1>10. ASSUME NEW r \in Runs, Finish(r) PROVE ReviewFits'
  <2>1. job'.status = "requires_action" => job' = job
    BY <1>10, JobShape DEF Finish
  <2>2. UNCHANGED <<saved, paused>> /\ (job' = job => answers' = answers)
    BY <1>10, JobShape DEF Finish
  <2>3. QED
    BY <2>1, <2>2
<1>11. ASSUME NEW r \in Runs, Dies(r) PROVE ReviewFits'
  BY <1>11 DEF Dies
<1>12. ASSUME NEW c \in Clients, AskResolve(c) PROVE ReviewFits'
  BY <1>12 DEF AskResolve
<1>13. ASSUME NEW c \in Clients, AskExpire(c) PROVE ReviewFits'
  BY <1>13 DEF AskExpire
<1>14. ASSUME NEW c \in Clients, AskStop(c) PROVE ReviewFits'
  BY <1>14 DEF AskStop
<1>15. ASSUME NEW c \in Clients, Look(c) PROVE ReviewFits'
  BY <1>15 DEF Look
<1>16. ASSUME NEW c \in Clients, Resolve(c) PROVE ReviewFits'
  <2>1. job'.status = "requires_action"
            => ~Matches("requires_action", req[c].act, req[c].gen)
    BY <1>16, JobShape DEF Resolve, Cleared
  <2>2. job'.status = "requires_action" => UNCHANGED <<job, saved, paused, answers>>
    BY <1>16, <2>1 DEF Resolve
  <2>3. QED
    BY <2>2
<1>17. ASSUME NEW c \in Clients, Expire(c) PROVE ReviewFits'
  <2>1. job'.status = "requires_action" => job' = job
    BY <1>17, JobShape DEF Expire, Cleared
  <2>2. UNCHANGED <<saved, paused>> /\ (job' = job => answers' = answers)
    BY <1>17, JobShape DEF Expire
  <2>3. QED
    BY <2>1, <2>2
<1>18. ASSUME NEW c \in Clients, Stop(c) PROVE ReviewFits'
  <2>1. job'.status = "requires_action" => job' = job
    BY <1>18, JobShape DEF Stop
  <2>2. UNCHANGED <<saved, paused>> /\ (job' = job => answers' = answers)
    BY <1>18, JobShape DEF Stop
  <2>3. QED
    BY <2>1, <2>2
<1>19. CASE UNCHANGED vars
  BY <1>19 DEF vars, Driving
<1>20. QED
  BY <1>1, <1>2, <1>3, <1>4, <1>5, <1>6, <1>7, <1>8, <1>9, <1>10, <1>11, <1>12, <1>13, <1>14, <1>15, <1>16, <1>17, <1>18, <1>19
     DEF Next, Run, Ask, Request

\* A resume is recorded under the action it was decided on, and nobody answered that one.
LEMMA AnswersStep == IInv /\ [Next]_vars => (AnswersFit /\ DecidedOnce)'
<1> SUFFICES ASSUME IInv, [Next]_vars PROVE (AnswersFit /\ DecidedOnce)'
  OBVIOUS
<1> USE ApprovalBounds, TypeParts DEF IInv, AnswersFit, DecidedOnce
<1>1. CASE CreateJob
  BY <1>1 DEF CreateJob
<1>2. CASE LeaseEnds
  BY <1>2 DEF LeaseEnds
<1>3. CASE ActionLapses
  BY <1>3 DEF ActionLapses
<1>4. CASE FailStale
  BY <1>4 DEF FailStale
<1>5. ASSUME NEW r \in Runs, Pause(r) PROVE (AnswersFit /\ DecidedOnce)'
  <2>1. answers' = answers /\ paused' \in {paused, paused + 1}
    BY <1>5 DEF Pause
  <2>2. QED
    BY <2>1, JobShape
<1>6. ASSUME NEW r \in Runs, Owns(r) PROVE (AnswersFit /\ DecidedOnce)'
  BY <1>6 DEF Owns
<1>7. ASSUME NEW r \in Runs, Write(r) PROVE (AnswersFit /\ DecidedOnce)'
  BY <1>7 DEF Write
<1>8. ASSUME NEW r \in Runs, Free(r) PROVE (AnswersFit /\ DecidedOnce)'
  BY <1>8 DEF Free
<1>9. ASSUME NEW r \in Runs, FailPause(r) PROVE (AnswersFit /\ DecidedOnce)'
  BY <1>9 DEF FailPause
<1>10. ASSUME NEW r \in Runs, Finish(r) PROVE (AnswersFit /\ DecidedOnce)'
  BY <1>10 DEF Finish
<1>11. ASSUME NEW r \in Runs, Dies(r) PROVE (AnswersFit /\ DecidedOnce)'
  BY <1>11 DEF Dies
<1>12. ASSUME NEW c \in Clients, AskResolve(c) PROVE (AnswersFit /\ DecidedOnce)'
  BY <1>12 DEF AskResolve
<1>13. ASSUME NEW c \in Clients, AskExpire(c) PROVE (AnswersFit /\ DecidedOnce)'
  BY <1>13 DEF AskExpire
<1>14. ASSUME NEW c \in Clients, AskStop(c) PROVE (AnswersFit /\ DecidedOnce)'
  BY <1>14 DEF AskStop
<1>15. ASSUME NEW c \in Clients, Look(c) PROVE (AnswersFit /\ DecidedOnce)'
  BY <1>15 DEF Look
<1>16. ASSUME NEW c \in Clients, Resolve(c) PROVE (AnswersFit /\ DecidedOnce)'
  <2>1. CASE Matches("requires_action", req[c].act, req[c].gen)
    <3>1. job.status = "requires_action" /\ job.mirror = req[c].act /\ req[c].act \in Actions
      BY <1>16, <2>1 DEF Resolve, Matches, RequestsFit, Actions
    <3>2. job.action = req[c].act /\ job.action <= paused /\ \A x \in answers : x.paused # job.action
      BY <3>1, JobShape DEF ReviewFits, Actions
    <3>3. PICK q \in Runs : answers' = answers \cup
                {[decided |-> req[c].act, paused |-> job.action, run |-> q]}
      BY <1>16, <2>1 DEF Resolve
    <3>4. paused' = paused
      BY <1>16 DEF Resolve
    <3>5. QED
      BY <3>2, <3>3, <3>4
  <2>2. CASE ~Matches("requires_action", req[c].act, req[c].gen)
    BY <1>16, <2>2 DEF Resolve
  <2>3. QED
    BY <2>1, <2>2
<1>17. ASSUME NEW c \in Clients, Expire(c) PROVE (AnswersFit /\ DecidedOnce)'
  BY <1>17 DEF Expire
<1>18. ASSUME NEW c \in Clients, Stop(c) PROVE (AnswersFit /\ DecidedOnce)'
  BY <1>18 DEF Stop
<1>19. CASE UNCHANGED vars
  BY <1>19 DEF vars, Driving
<1>20. QED
  BY <1>1, <1>2, <1>3, <1>4, <1>5, <1>6, <1>7, <1>8, <1>9, <1>10, <1>11, <1>12, <1>13, <1>14, <1>15, <1>16, <1>17, <1>18, <1>19
     DEF Next, Run, Ask, Request

\* A stop, like a decision, compares the public id, never the private one.
LEMMA RequestsStep == IInv /\ [Next]_vars => RequestsFit'
<1> SUFFICES ASSUME IInv, [Next]_vars PROVE RequestsFit'
  OBVIOUS
<1> USE ApprovalBounds, TypeParts DEF IInv, RequestsFit
<1>1. CASE CreateJob
  BY <1>1 DEF CreateJob
<1>2. CASE LeaseEnds
  BY <1>2 DEF LeaseEnds
<1>3. CASE ActionLapses
  BY <1>3 DEF ActionLapses
<1>4. CASE FailStale
  BY <1>4 DEF FailStale
<1>5. ASSUME NEW r \in Runs, Pause(r) PROVE RequestsFit'
  BY <1>5 DEF Pause
<1>6. ASSUME NEW r \in Runs, Owns(r) PROVE RequestsFit'
  BY <1>6 DEF Owns
<1>7. ASSUME NEW r \in Runs, Write(r) PROVE RequestsFit'
  BY <1>7 DEF Write
<1>8. ASSUME NEW r \in Runs, Free(r) PROVE RequestsFit'
  BY <1>8 DEF Free
<1>9. ASSUME NEW r \in Runs, FailPause(r) PROVE RequestsFit'
  BY <1>9 DEF FailPause
<1>10. ASSUME NEW r \in Runs, Finish(r) PROVE RequestsFit'
  BY <1>10 DEF Finish
<1>11. ASSUME NEW r \in Runs, Dies(r) PROVE RequestsFit'
  BY <1>11 DEF Dies
<1>12. ASSUME NEW c \in Clients, AskResolve(c) PROVE RequestsFit'
  <2>1. NoReq.tries = 0 /\ NoReq.act = 0 /\ NoReq.from = "none" /\ NoReq.kind = "none" /\ NoReq.pc = "idle"
    BY DEF NoReq
  <2>2. req'[c].tries = 0 /\ req'[c].pc = "look" /\ req'[c].kind = "resolve" /\ req'[c].act = job.action
    BY <1>12, <2>1, NoReqOK, TypeParts DEF AskResolve, ReqRec, ReqOK
  <2>3. \A d \in Clients : d # c => req'[d] = req[d]
    BY <1>12, TypeParts DEF AskResolve, ReqOK
  <2>4. job.action \in Actions
    BY <1>12 DEF AskResolve, ReviewFits, RestOK, Actions
  <2>5. QED
    BY <2>2, <2>3, <2>4
<1>13. ASSUME NEW c \in Clients, AskExpire(c) PROVE RequestsFit'
  <2>1. NoReq.tries = 0 /\ NoReq.act = 0 /\ NoReq.from = "none" /\ NoReq.kind = "none" /\ NoReq.pc = "idle"
    BY DEF NoReq
  <2>2. req'[c].tries = 0 /\ req'[c].pc = "look" /\ req'[c].kind = "expire" /\ req'[c].act = job.action
    BY <1>13, <2>1, NoReqOK, TypeParts DEF AskExpire, ReqRec, ReqOK
  <2>3. \A d \in Clients : d # c => req'[d] = req[d]
    BY <1>13, TypeParts DEF AskExpire, ReqOK
  <2>4. job.action \in Actions
    BY <1>13 DEF AskExpire, ReviewFits, RestOK, Actions
  <2>5. QED
    BY <2>2, <2>3, <2>4
<1>14. ASSUME NEW c \in Clients, AskStop(c) PROVE RequestsFit'
  <2>1. NoReq.tries = 0 /\ NoReq.act = 0 /\ NoReq.from = "none" /\ NoReq.kind = "none" /\ NoReq.pc = "idle"
    BY DEF NoReq
  <2>2. req'[c].tries = 0 /\ req'[c].pc = "look" /\ req'[c].kind = "stop"
    BY <1>14, <2>1, NoReqOK, TypeParts DEF AskStop, ReqRec, ReqOK
  <2>3. \A d \in Clients : d # c => req'[d] = req[d]
    BY <1>14, TypeParts DEF AskStop, ReqOK
  <2>4. QED
    BY <2>2, <2>3
<1>15. ASSUME NEW c \in Clients, Look(c) PROVE RequestsFit'
  <2> DEFINE q == req[c]
  <2>1. NoReq.tries = 0 /\ NoReq.kind = "none" /\ NoReq.pc = "idle"
    BY DEF NoReq
  <2>2. q \in ReqRec /\ q.tries < MaxAttempts
        /\ (q.kind \in {"resolve", "expire"} => q.act \in Actions)
    BY TypeParts DEF ReqOK
  <2>3. job.gen = q.gen /\ job.status = "requires_action" => job.mirror \in Actions
    BY <1>15, JobShape, TypeParts DEF Look, Barred, ReviewFits, RestOK, Actions
  <2>4. \A d \in Clients : d # c => req'[d] = req[d]
    BY <1>15, TypeParts DEF Look, ReqOK
  <2>5. \/ req'[c] = NoReq
        \/ q.kind = "resolve" /\ req'[c] = [q EXCEPT !.kind = "expire"]
        \/ /\ job.gen = q.gen /\ job.status \in {"running", "requires_action"} /\ q.kind = "stop"
           /\ req'[c] = [q EXCEPT !.pc = "cas", !.from = job.status,
                            !.act = IF job.status = "requires_action" THEN job.mirror ELSE 0]
        \/ /\ q.kind \in {"resolve", "expire"}
           /\ req'[c] = [q EXCEPT !.pc = "cas", !.from = "requires_action"]
    BY <1>15, <2>2, TypeParts DEF Look, ReqOK, ReqRec
  <2> DEFINE Fits(x) == /\ x.tries < MaxAttempts
                        /\ x.pc # "idle" => x.kind # "none"
                        /\ x.kind \in {"resolve", "expire"} => x.act \in Actions
                        /\ x.pc = "cas" /\ x.from = "requires_action" => x.act \in Actions
  <2>6. Fits(req'[c])
    <3>1. CASE req'[c] = NoReq
      BY <2>1, <3>1
    <3>2. CASE q.kind = "resolve" /\ req'[c] = [q EXCEPT !.kind = "expire"]
      BY <2>2, <3>2 DEF ReqRec
    <3>3. CASE /\ job.gen = q.gen /\ job.status \in {"running", "requires_action"} /\ q.kind = "stop"
               /\ req'[c] = [q EXCEPT !.pc = "cas", !.from = job.status,
                                !.act = IF job.status = "requires_action" THEN job.mirror ELSE 0]
      BY <2>2, <2>3, <3>3 DEF ReqRec
    <3>4. CASE /\ q.kind \in {"resolve", "expire"}
               /\ req'[c] = [q EXCEPT !.pc = "cas", !.from = "requires_action"]
      BY <2>2, <3>4 DEF ReqRec
    <3>5. QED
      BY <2>5, <3>1, <3>2, <3>3, <3>4
  <2>7. QED
    BY <2>4, <2>6
<1>16. ASSUME NEW c \in Clients, Resolve(c) PROVE RequestsFit'
  <2>1. NoReq.tries = 0 /\ NoReq.kind = "none" /\ NoReq.pc = "idle"
    BY DEF NoReq
  <2>2. req'[c] = NoReq /\ \A d \in Clients : d # c => req'[d] = req[d]
    BY <1>16, TypeParts DEF Resolve, ReqOK
  <2>3. QED
    BY <2>1, <2>2
<1>17. ASSUME NEW c \in Clients, Expire(c) PROVE RequestsFit'
  <2>1. NoReq.tries = 0 /\ NoReq.kind = "none" /\ NoReq.pc = "idle"
    BY DEF NoReq
  <2>2. req'[c] = NoReq /\ \A d \in Clients : d # c => req'[d] = req[d]
    BY <1>17, TypeParts DEF Expire, ReqOK
  <2>3. QED
    BY <2>1, <2>2
<1>18. ASSUME NEW c \in Clients, Stop(c) PROVE RequestsFit'
  <2>1. NoReq.tries = 0 /\ NoReq.kind = "none" /\ NoReq.pc = "idle"
    BY DEF NoReq
  <2>2. req[c] \in ReqRec /\ req[c].kind = "stop" /\ req[c].tries < MaxAttempts
    BY <1>18, TypeParts DEF ReqOK, Stop
  <2>3. \A d \in Clients : d # c => req'[d] = req[d]
    BY <1>18, TypeParts DEF Stop, ReqOK
  <2>4. \/ req'[c] = NoReq
        \/ /\ req[c].tries + 1 # MaxAttempts
           /\ req'[c] = [req[c] EXCEPT !.pc = "look", !.tries = req[c].tries + 1]
    BY <1>18, TypeParts DEF Stop, ReqOK
  <2>5. CASE req'[c] = NoReq
    BY <2>1, <2>3, <2>5
  <2>6. CASE /\ req[c].tries + 1 # MaxAttempts
             /\ req'[c] = [req[c] EXCEPT !.pc = "look", !.tries = req[c].tries + 1]
    <3>1. req'[c].tries < MaxAttempts /\ req'[c].pc = "look" /\ req'[c].kind = "stop"
      BY <2>2, <2>6 DEF ReqRec
    <3>2. QED
      BY <2>3, <3>1
  <2>7. QED
    BY <2>4, <2>5, <2>6
<1>19. CASE UNCHANGED vars
  BY <1>19 DEF vars, Driving
<1>20. QED
  BY <1>1, <1>2, <1>3, <1>4, <1>5, <1>6, <1>7, <1>8, <1>9, <1>10, <1>11, <1>12, <1>13, <1>14, <1>15, <1>16, <1>17, <1>18, <1>19
     DEF Next, Run, Ask, Request

\* The state a stream starts in.
LEMMA InitFits == Init => IInv
<1> SUFFICES ASSUME Init PROVE IInv
  OBVIOUS
<1> USE ApprovalBounds DEF Init
<1>1. JobOK
  BY DEF JobOK, JobRec, Fresh, Gens, Terminal
<1>2. RunsOK
  <2>1. NoRun \in RunRec /\ [pc |-> "run", gen |-> 1, act |-> 0] \in RunRec
    BY DEF NoRun, RunRec
  <2>2. QED
    BY <2>1 DEF RunsOK
<1>3. ReqOK
  BY NoReqOK DEF ReqOK
<1>4. HistoryOK /\ RestOK /\ due \in BOOLEAN
  <2>1. due \in BOOLEAN
    BY Zenon
  <2>2. HistoryOK /\ RestOK
    BY DEF HistoryOK, RestOK
  <2>3. QED
    BY <2>1, <2>2
<1>5. RunsFit /\ OneDriver
  BY DEF RunsFit, OneDriver, Driving, Fresh, NoRun, Runs
<1>6. ReviewFits /\ AnswersFit /\ DecidedOnce
  BY DEF ReviewFits, AnswersFit, DecidedOnce, Fresh
<1>7. RequestsFit
  <2>1. /\ NoReq.tries = 0 /\ NoReq.kind = "none" /\ NoReq.pc = "idle"
        /\ \A c \in Clients : req[c] = NoReq
    BY DEF NoReq
  <2>2. 0 < MaxAttempts
    OBVIOUS
  <2>3. \A c \in Clients : /\ req[c].tries = 0 /\ req[c].kind = "none" /\ req[c].pc = "idle"
                           /\ req[c].tries < MaxAttempts
    BY <2>1, <2>2, Zenon
  <2> HIDE DEF Init
  <2>4. QED
    BY <2>3 DEF RequestsFit
<1>8. QED
  BY <1>1, <1>2, <1>3, <1>4, <1>5, <1>6, <1>7, TypeParts DEF IInv

\* Whether the barrier's lease is over is a truth value.
LEMMA DueStep == IInv /\ [Next]_vars => due' \in BOOLEAN
BY TypeParts DEF IInv, Next, vars, Run, Ask, Request, CreateJob, LeaseEnds, ActionLapses, FailStale,
   Pause, Owns, Write, Free, FailPause, Finish, Dies, AskResolve, AskExpire, AskStop,
   Look, Resolve, Expire, Stop

\* The invariant is inductive.
LEMMA Inductive == IInv /\ [Next]_vars => IInv'
BY JobStep, RunsTypeStep, ReqTypeStep, RestTypeStep, DueStep, TypePartsNext, RunsStep,
   DriverStep, ReviewStep, AnswersStep, RequestsStep DEF IInv

\* Each step out of review into a run or an abort has compared the public id.
LEMMA OutcomeStep ==
  IInv /\ [Next]_vars =>
    [job.status = "requires_action" /\ job'.gen = job.gen
        /\ job'.status \in {"running", "aborted"} => job.action \in saved]_vars
<1> SUFFICES ASSUME IInv, Next, job.status = "requires_action", job'.gen = job.gen,
                    job'.status \in {"running", "aborted"}
             PROVE  job.action \in saved
  BY DEF vars
<1> USE ApprovalBounds DEF IInv
<1>1. job.mirror \in Actions => job.action \in saved
  BY JobShape DEF ReviewFits, Actions
<1>2. job' # job
  OBVIOUS
<1>3. job.gen + 1 # job.gen
  BY RunShape
<1>4. \E c \in Clients : Resolve(c) \/ Expire(c) \/ Stop(c)
  <2>1. ~CreateJob
    BY <1>3 DEF CreateJob, Fresh
  <2>2. ~FailStale /\ \A r \in Runs : ~FailPause(r)
    BY <1>2, JobShape DEF FailStale, FailPause, Cleared
  <2>3. \A r \in Runs : ~Pause(r) /\ ~Finish(r)
    BY <1>2 DEF Pause, Finish, Matches
  <2>4. \A r \in Runs : ~Free(r)
    BY JobShape DEF Free
  <2>5. ~LeaseEnds /\ ~ActionLapses /\ \A r \in Runs : ~Owns(r) /\ ~Write(r) /\ ~Dies(r)
    BY <1>2 DEF LeaseEnds, ActionLapses, Owns, Write, Dies
  <2>6. \A c \in Clients : ~AskResolve(c) /\ ~AskExpire(c) /\ ~AskStop(c) /\ ~Look(c)
    BY <1>2 DEF AskResolve, AskExpire, AskStop, Look
  <2>7. QED
    BY <2>1, <2>2, <2>3, <2>4, <2>5, <2>6 DEF Next, Run, Ask, Request
<1>5. PICK c \in Clients : Resolve(c) \/ Expire(c) \/ Stop(c)
  BY <1>4
<1>6. CASE Resolve(c) \/ Expire(c)
  <2>1. job.mirror = req[c].act /\ req[c].act \in Actions
    BY <1>2, <1>6 DEF Resolve, Expire, Matches, RequestsFit, Actions
  <2>2. QED
    BY <1>1, <2>1
<1>7. CASE Stop(c)
  <2>1. req[c].pc = "cas" /\ req[c].from = "requires_action"
    BY <1>2, <1>7 DEF Stop, Matches
  <2>2. job.mirror = req[c].act /\ req[c].act \in Actions
    BY <1>2, <1>7, <2>1 DEF Stop, Matches, RequestsFit, Actions
  <2>3. QED
    BY <1>1, <2>2
<1>8. QED
  BY <1>5, <1>6, <1>7

\* The job record, the runs and the requests have their types in every reachable state.
THEOREM ApprovalTypeCorrect == Spec => []TypeOK
BY InitFits, Inductive, PTL DEF Spec, IInv

\* Of one generation at most one run executes, whatever resume, stop, expiry and
\* replacement requests race (the compare-and-set of ApprovalLifecycle.resolve).
THEOREM DrivenOnce == Spec => []OneDriver
BY InitFits, Inductive, PTL DEF Spec, IInv

\* An action is resumed by one decision, which was taken on that action (expectActionId).
THEOREM AnsweredOnce == Spec => []DecidedOnce
BY InitFits, Inductive, PTL DEF Spec, IInv

\* No path takes a job from review to a run or to an abort before the paused response is
\* saved (waitForPausePersistence and the private action id).
THEOREM PersistedFirst == Spec => SavedBeforeOutcome
BY InitFits, Inductive, OutcomeStep, PTL DEF Spec, SavedBeforeOutcome

=============================================================================
