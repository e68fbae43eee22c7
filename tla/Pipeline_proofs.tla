-------------------------- MODULE Pipeline_proofs --------------------------
(***************************************************************************)
(* Proofs about Pipeline: the composed system is a run of the work queue   *)
(* and a run of the pipeline, whatever the constants, and what is proved   *)
(* of each of them holds of both together.                                 *)
(***************************************************************************)
EXTENDS Pipeline, TLAPS

QP == INSTANCE WorkQueue_proofs
PP == INSTANCE Workflow_proofs

-----------------------------------------------------------------------------
(* The work queue's part of a step.                                        *)

LEMMA QueuePart == ASSUME [Next]_vars
                   PROVE  [Q!QueueNext]_(Q!queueVars)
<1> USE DEF Q!QueueNext, Q!ThreadStep, Q!WorkerStep, Q!queueVars, queueVars, QueueIdle
<1>1. ASSUME Arrival PROVE Q!QueueNext \/ UNCHANGED Q!queueVars
  BY <1>1 DEF Arrival, LookUp, Submit, Resubmit, RecordDuplicate, GiveUp, Webhook
<1>2. ASSUME NEW e \in Event, Purge(e) PROVE Q!QueueNext
  BY <1>2 DEF Purge
<1>3. ASSUME QueueOnly PROVE Q!QueueNext
  BY <1>3 DEF QueueOnly
<1>4. ASSUME ReadFails \/ FinishRun PROVE Q!QueueNext
  BY <1>4 DEF ReadFails, FinishRun, Verdict, Q!Verdict, Q!Settled
<1>5. ASSUME BeginRun \/ LoseRun \/ RetryDone \/ Opened \/ Crash PROVE Q!QueueNext
  BY <1>5 DEF BeginRun, LoseRun, RetryDone, Opened, Crash
<1>6. ASSUME Read \/ InRun \/ StartRetry \/ InRetry \/ OnRows
      PROVE  UNCHANGED Q!queueVars
  BY <1>6 DEF Read, InRun, StartRetry, InRetry, OnRows
<1>7. ASSUME NEW c \in Cve, RetryTimeComes(c) PROVE UNCHANGED Q!queueVars
  BY <1>7 DEF RetryTimeComes
<1>8. CASE UNCHANGED vars
  BY <1>8 DEF vars
<1> QED
  BY <1>1, <1>2, <1>3, <1>4, <1>5, <1>6, <1>7, <1>8 DEF Next, Work

(* The composed system implements the work queue: payloads, known CVEs and *)
(* the pipeline only narrow what the queue may do.                         *)
THEOREM QueueOfPipeline == Spec => IsQueue
<1>1. Init => Q!QueueInit
  BY DEF Init
<1>2. [Next]_vars => [Q!QueueNext]_(Q!queueVars)
  BY QueuePart
<1> QED
  BY <1>1, <1>2, PTL DEF Spec, IsQueue, Q!QueueSpec

-----------------------------------------------------------------------------
(* What the queue's own theorems say of its variables.                     *)

HandOK == Q!TypeOK /\ Q!HandMatchesState

(* The definitions the theorems are stated with, instantiated once here    *)
(* and once in Pipeline, are the same.                                     *)
LEMMA SameInit == QP!QueueInit <=> Q!QueueInit
BY DEF QP!QueueInit, Q!QueueInit

LEMMA SameNext == QP!QueueNext <=> Q!QueueNext
BY DEF
  QP!QueueNext, QP!WorkerStep, QP!ThreadStep, QP!Submit, QP!Resubmit, QP!Reuse, QP!RecordDuplicate,
  QP!Enqueue, QP!Webhook, QP!Put, QP!Purge, QP!Take, QP!BeginRun, QP!RefuseRun, QP!SettleRun,
  QP!LoseRun, QP!Release, QP!RetryDone, QP!Timeout, QP!Rehydrate, QP!RehydrateDone, QP!Start,
  QP!Crash, QP!Serving, QP!LoopIsFree, QP!RowsIn, QP!Verdict, QP!Settled, QP!memory,
  Q!QueueNext, Q!WorkerStep, Q!ThreadStep, Q!Submit, Q!Resubmit, Q!Reuse, Q!RecordDuplicate,
  Q!Enqueue, Q!Webhook, Q!Put, Q!Purge, Q!Take, Q!BeginRun, Q!RefuseRun, Q!SettleRun,
  Q!LoseRun, Q!Release, Q!RetryDone, Q!Timeout, Q!Rehydrate, Q!RehydrateDone, Q!Start,
  Q!Crash, Q!Serving, Q!LoopIsFree, Q!RowsIn, Q!Verdict, Q!Settled, Q!memory

LEMMA QueueRuns == Spec => QP!QueueSpec
<1>1. Q!QueueInit <=> QP!QueueInit
  BY SameInit
<1>2. [Q!QueueNext]_(Q!queueVars) => [QP!QueueNext]_(QP!queueVars)
  BY SameNext DEF Q!queueVars, QP!queueVars
<1> QED
  BY <1>1, <1>2, QueueOfPipeline, PTL DEF IsQueue, Q!QueueSpec, QP!QueueSpec

LEMMA QueueParameters == QP!QueueAssumption
BY CompositionAssumption DEF QP!QueueAssumption, Q!QueueAssumption

LEMMA SameHand == QP!TypeOK /\ QP!ClaimInv => HandOK
BY DEF HandOK, QP!TypeOK, Q!TypeOK, QP!ClaimInv, QP!HandMatchesState, Q!HandMatchesState,
       QP!Status, Q!Status, QP!Settled, Q!Settled, QP!WorkerState, Q!WorkerState

LEMMA HandIsOK == Spec => []HandOK
<1>1. QP!QueueSpec => []QP!TypeOK
  BY QueueParameters, QP!Typing
<1>2. QP!QueueSpec => []QP!ClaimInv
  BY QueueParameters, QP!Claims
<1> QED
  BY <1>1, <1>2, SameHand, QueueRuns, PTL

-----------------------------------------------------------------------------
(* The coupling of the two control states.                                 *)

CoupledInv == CoupleInv /\ PayloadOK

LEMMA CoupleInit == Init => CoupledInv
BY DEF Init, CoupledInv, CoupleInv, PayloadOK, Look, NoLook, Q!QueueInit, P!PipeInit, P!Steps

LEMMA PayloadStep == ASSUME PayloadOK, [Next]_vars
                     PROVE  PayloadOK'
<1> USE DEF PayloadOK
<1>none. NoLook \in Look
  BY DEF NoLook, Look
<1>1. ASSUME NEW e \in Event, NEW S \in SUBSET Cve, NEW fresh \in BOOLEAN,
             Carry(e, S, fresh)
      PROVE  cves' \in [Event -> SUBSET Cve] /\ again' \in [Event -> BOOLEAN]
  BY <1>1 DEF Carry
<1>2. ASSUME NEW e \in Event, NEW others, NEW S \in SUBSET Cve, NEW fresh \in BOOLEAN,
             Replace(e, others, S, fresh)
      PROVE  cves' \in [Event -> SUBSET Cve] /\ again' \in [Event -> BOOLEAN]
  BY <1>2 DEF Replace
<1>3. ASSUME NEW p \in Producer, Looked(p) PROVE looked' \in [Producer -> Look]
  BY <1>none, <1>3 DEF Looked
<1>4. ASSUME NEW p \in Producer
      PROVE  looked[p].cves \in SUBSET Cve /\ looked[p].fresh \in BOOLEAN
  BY DEF Look
<1>5. ASSUME UNCHANGED payload PROVE PayloadOK'
  BY <1>5 DEF payload
<1>6. ASSUME \/ QueueOnly \/ Work \/ OnRows
             \/ \E c \in Cve : RetryTimeComes(c)
             \/ UNCHANGED vars
      PROVE  UNCHANGED payload
  BY <1>6 DEF QueueOnly, Work, BeginRun, Read, ReadFails, InRun, FinishRun, LoseRun, StartRetry,
              InRetry, RetryDone, Opened, OnRows, RetryTimeComes, vars
<1>7. ASSUME NEW e \in Event, Purge(e) PROVE PayloadOK'
  BY <1>1, <1>7 DEF Purge
<1>8. ASSUME Crash PROVE PayloadOK'
  BY <1>none, <1>8 DEF Crash
<1>9. ASSUME NEW p \in Producer, GiveUp(p) PROVE PayloadOK'
  BY <1>3, <1>9 DEF GiveUp
<1>10. ASSUME NEW p \in Producer, NEW S \in SUBSET Cve, NEW fresh \in BOOLEAN,
              LookUp(p, S, fresh)
       PROVE  PayloadOK'
  <2>1. [cves |-> S, fresh |-> fresh, news |-> IsNews(S, fresh)] \in Look
    BY Zenon DEF Look, IsNews
  <2> QED
    BY <1>10, <2>1 DEF LookUp
<1>11. ASSUME NEW p \in Producer, NEW e \in Event, Submit(p, e) \/ RecordDuplicate(p, e)
       PROVE  PayloadOK'
  BY <1>1, <1>3, <1>4, <1>11 DEF Submit, RecordDuplicate
<1>12. ASSUME NEW p \in Producer, NEW e \in Event, NEW others, Resubmit(p, e, others)
       PROVE  PayloadOK'
  <2>1. Replace(e, others, looked[p].cves, looked[p].fresh) /\ Looked(p)
    BY <1>12 DEF Resubmit
  <2>2. cves' \in [Event -> SUBSET Cve] /\ again' \in [Event -> BOOLEAN]
    BY <1>4, <2>1 DEF Replace
  <2> QED
    BY <1>3, <2>1, <2>2
<1>13. ASSUME NEW e \in Event, NEW others, NEW S \in SUBSET Cve, NEW fresh \in BOOLEAN,
              Webhook(e, others, S, fresh)
       PROVE  PayloadOK'
  BY <1>2, <1>13 DEF Webhook
<1>14. ASSUME Arrival PROVE PayloadOK'
  BY <1>9, <1>10, <1>11, <1>12, <1>13, <1>14 DEF Arrival
<1> QED
  BY <1>5, <1>6, <1>7, <1>8, <1>14 DEF Next

LEMMA CoupleStep == ASSUME CoupledInv, HandOK, [Next]_vars
                    PROVE  CoupledInv'
<1> PayloadOK'
  BY PayloadStep DEF CoupledInv
<1> SUFFICES CoupleInv'
  BY DEF CoupledInv
<1> CoupleInv /\ Q!TypeOK /\ Q!HandMatchesState
  BY DEF CoupledInv, HandOK
<1>hand. worker \in {"taken", "running", "releasing"} => cur \in Event
  BY DEF Q!TypeOK, Q!HandMatchesState
<1>table. event \in [Event -> Q!Status]
  BY DEF Q!TypeOK
<1>idle. ASSUME PipeIdle PROVE UNCHANGED <<pc, mode, live>>
  BY <1>idle DEF PipeIdle, pipeVars
<1>still. ASSUME QueueIdle PROVE UNCHANGED <<event, worker, cur>>
  BY <1>still DEF QueueIdle, queueVars
<1> USE DEF CoupleInv, P!Steps
<1>gone. ASSUME NEW gone, RunsGo(gone)
         PROVE  /\ UNCHANGED <<pc, mode>>
                /\ worker = "running" /\ cur \in gone => ~live'
                /\ ~(worker = "running" /\ cur \in gone) => UNCHANGED live
  BY <1>gone, <1>idle DEF RunsGo, P!PurgeRun, P!run
<1>0. ASSUME NEW p \in Producer,
             GiveUp(p) \/ \E S \in SUBSET Cve, fresh \in BOOLEAN : LookUp(p, S, fresh)
      PROVE  CoupleInv'
  BY <1>0, <1>idle, <1>still DEF GiveUp, LookUp
<1>1. ASSUME NEW p \in Producer, NEW e \in Event, Submit(p, e) \/ RecordDuplicate(p, e)
      PROVE  CoupleInv'
  <2>1. /\ UNCHANGED <<worker, cur, pc, mode, live>>
        /\ \E x \in {"queued", "skipped"} : event' = [event EXCEPT ![e] = x]
    BY <1>1, <1>idle DEF RecordDuplicate, Submit, Q!RecordDuplicate, Q!Submit, Q!memory
  <2> QED
    BY <1>hand, <1>table, <2>1
<1>2. ASSUME NEW e \in Event, NEW others \in SUBSET FileEvent,
             \/ \E S \in SUBSET Cve, fresh \in BOOLEAN : Webhook(e, others, S, fresh)
             \/ \E p \in Producer : Resubmit(p, e, others)
      PROVE  CoupleInv'
  <2>1. UNCHANGED <<worker, cur>> /\ RunsGo(others)
    BY <1>2 DEF Webhook, Resubmit, Q!Webhook, Q!Resubmit, Q!memory
  <2>2. \A x \in Event : event[x] # "absent" /\ x \notin others => event'[x] # "absent"
    BY <1>2, <1>table DEF Webhook, Resubmit, Q!Webhook, Q!Resubmit, Q!Reuse
  <2> QED
    BY <1>hand, <1>gone, <2>1, <2>2
<1>3. ASSUME NEW e \in Event, Purge(e) PROVE CoupleInv'
  <2>1. UNCHANGED <<worker, cur>> /\ RunsGo({e}) /\ event' = [event EXCEPT ![e] = "absent"]
    BY <1>3 DEF Purge, Q!Purge, Q!memory
  <2> QED
    BY <1>hand, <1>table, <1>gone, <2>1
<1>4. ASSUME QueueOnly PROVE CoupleInv'
  BY <1>4, <1>idle
  DEF QueueOnly, Q!Enqueue, Q!Put, Q!Rehydrate, Q!Take, Q!RefuseRun, Q!Release, Q!Timeout,
      Q!Start, Q!RehydrateDone
<1>5. ASSUME BeginRun PROVE CoupleInv'
  BY <1>5, <1>hand, <1>table DEF BeginRun, Q!BeginRun, P!StartEvent, P!run
<1>6. ASSUME Read PROVE CoupleInv'
  BY <1>6, <1>still DEF Read, P!ReadEvent, P!run
<1>7. ASSUME ReadFails \/ FinishRun \/ LoseRun PROVE CoupleInv'
  BY <1>7 DEF ReadFails, FinishRun, LoseRun, Q!SettleRun, Q!LoseRun, P!ReadRaises,
              P!FinishEvent, P!AbortEvent, P!run
<1>8. ASSUME InRun PROVE CoupleInv'
  <2>1. ASSUME NEW c \in Cve, \/ P!AcceptNew(c) \/ P!AcceptKnown(c)
                              \/ P!AcceptUpdated(c) \/ P!AcceptRaises(c)
        PROVE  /\ pc = "next" /\ mode = "event" /\ live
               /\ pc' \in {"next", "extract", "enrich"} /\ UNCHANGED <<mode, live>>
    BY <2>1 DEF P!AcceptNew, P!AcceptKnown, P!AcceptUpdated, P!AcceptRaises, P!Accepting
  <2>2. ASSUME P!StepDone
        PROVE  /\ pc \in P!Steps /\ pc' \in {"next"} \cup P!Steps
               /\ UNCHANGED <<mode, live>>
    BY <2>2 DEF P!StepDone, P!Extract, P!EnrichOff, P!EnrichGaps, P!EnrichFull, P!Match,
                P!OpenIssues, P!Record, P!ActQuietly, P!RaiseInEvent, P!RaiseInRetry, P!Step,
                P!run
  <2> QED
    BY <1>8, <1>still, <2>1, <2>2 DEF InRun
<1>9. ASSUME StartRetry PROVE CoupleInv'
  BY <1>9, <1>still DEF StartRetry, P!StartRetry
<1>10. ASSUME InRetry PROVE CoupleInv'
  BY <1>10, <1>still DEF InRetry, P!AbortRetry, P!RetryPick, P!run
<1>11. ASSUME RetryDone PROVE CoupleInv'
  BY <1>11 DEF RetryDone, Q!RetryDone, P!RetryEnd
<1>12. ASSUME Opened PROVE CoupleInv'
  BY <1>12 DEF Opened, Q!RehydrateDone, P!Restart, P!run
<1>13. ASSUME OnRows PROVE CoupleInv'
  <2>1. ASSUME NEW c \in Cve, P!DeleteCve(c)
        PROVE  UNCHANGED <<pc, mode>> /\ (live' => live)
    <3>1. UNCHANGED <<pc, mode>>
      BY <2>1 DEF P!DeleteCve, P!run
    <3>2. live' => live
      BY <2>1, Zenon DEF P!DeleteCve
    <3> QED
      BY <3>1, <3>2
  <2>2. ASSUME NEW c \in Cve, P!Unlink(c)
        PROVE  UNCHANGED <<pc, mode, live>>
    BY <2>2 DEF P!Unlink, P!run
  <2>3. ASSUME P!ToggleEnrichment PROVE UNCHANGED <<pc, mode, live>>
    BY <2>3 DEF P!ToggleEnrichment, P!run
  <2> QED
    BY <1>13, <1>still, <2>1, <2>2, <2>3 DEF OnRows
<1>14. ASSUME NEW c \in Cve, RetryTimeComes(c) PROVE CoupleInv'
  <2>1. UNCHANGED <<pc, mode, live>>
    BY <1>14 DEF RetryTimeComes, P!RetryTimeComes, P!run
  <2> QED
    BY <1>14, <1>still, <2>1 DEF RetryTimeComes
<1>15. ASSUME Crash PROVE CoupleInv'
  BY <1>15, <1>idle DEF Crash, Q!Crash, P!Crash
<1>16. CASE UNCHANGED vars
  BY <1>16 DEF vars, queueVars, pipeVars
<1> HIDE DEF CoupleInv, P!Steps
<1>17. CASE Arrival
  BY <1>0, <1>1, <1>2, <1>17 DEF Arrival
<1>18. CASE Work
  BY <1>5, <1>6, <1>7, <1>8, <1>9, <1>10, <1>11, <1>12, <1>18 DEF Work
<1> QED
  BY <1>3, <1>4, <1>13, <1>14, <1>15, <1>16, <1>17, <1>18 DEF Next

LEMMA CoupledIndInv == Spec => []CoupledInv
<1>1. Init => CoupledInv
  BY CoupleInit
<1>2. CoupledInv /\ HandOK /\ [Next]_vars => CoupledInv'
  BY CoupleStep
<1>3. Spec => []HandOK
  BY HandIsOK
<1> QED
  BY <1>1, <1>2, <1>3, PTL DEF Spec

(* The worker's place in its loop and its place in the pipeline fit        *)
(* together, purges in mid-run and crashes included.                       *)
THEOREM Coupling == Spec => []CoupleInv
<1>1. CoupledInv => CoupleInv
  BY DEF CoupledInv
<1> QED
  BY <1>1, CoupledIndInv, PTL

-----------------------------------------------------------------------------
(* The pipeline's part of a step.                                          *)

LEMMA ArrivalRuns == ASSUME Arrival
                     PROVE  PipeIdle \/ \E gone \in SUBSET FileEvent : RunsGo(gone)
BY DEF Arrival, LookUp, Submit, Resubmit, RecordDuplicate, GiveUp, Webhook

LEMMA PipePart == ASSUME CoupledInv, HandOK, [Next]_vars
                  PROVE  [P!PipeNext]_(P!pipeVars)
<1> USE DEF P!pipeVars, P!rows, P!run, P!history, pipeVars, PipeIdle
<1>1. ASSUME NEW gone, RunsGo(gone) PROVE [P!PipeNext]_(P!pipeVars)
  BY <1>1 DEF RunsGo, P!PipeNext, P!Elsewhere
<1>2. ASSUME Arrival PROVE [P!PipeNext]_(P!pipeVars)
  BY <1>1, <1>2, ArrivalRuns
<1>3. ASSUME NEW e \in Event, Purge(e) PROVE [P!PipeNext]_(P!pipeVars)
  BY <1>1, <1>3 DEF Purge
<1>4. ASSUME QueueOnly PROVE UNCHANGED P!pipeVars
  BY <1>4 DEF QueueOnly
<1>5. ASSUME LoseRun \/ Read \/ ReadFails \/ FinishRun \/ Opened PROVE P!PipeNext
  BY <1>5 DEF LoseRun, Read, ReadFails, FinishRun, Opened, P!PipeNext, P!EventStep
<1>6. ASSUME InRun PROVE P!PipeNext
  BY <1>6 DEF InRun, P!PipeNext, P!EventStep
<1>7. ASSUME StartRetry \/ InRetry \/ RetryDone PROVE P!PipeNext
  BY <1>7 DEF StartRetry, InRetry, RetryDone, P!PipeNext, P!RetryStep
<1>8. ASSUME OnRows PROVE P!PipeNext
  BY <1>8 DEF OnRows, P!PipeNext, P!Elsewhere
<1>9. ASSUME NEW c \in Cve, RetryTimeComes(c) PROVE P!PipeNext
  BY <1>9 DEF RetryTimeComes, P!PipeNext, P!Elsewhere
<1>10. ASSUME Crash PROVE [P!PipeNext]_(P!pipeVars)
  BY <1>10 DEF Crash, P!PipeNext
<1>11. CASE UNCHANGED vars
  BY <1>11 DEF vars
<1>12. ASSUME BeginRun PROVE P!PipeNext
  <2>1. worker = "taken"
    BY <1>12 DEF BeginRun, Q!BeginRun
  <2>2. cves[cur] \in SUBSET Cve /\ again[cur] \in BOOLEAN
    BY <2>1 DEF CoupledInv, PayloadOK, HandOK, Q!TypeOK, Q!HandMatchesState
  <2> QED
    BY <1>12, <2>2 DEF BeginRun, P!PipeNext
<1> QED
  BY <1>1, <1>2, <1>3, <1>4, <1>5, <1>6, <1>7, <1>8, <1>9, <1>10, <1>11, <1>12
  DEF Next, Work

(* The composed system implements the pipeline: events come one at a time  *)
(* and a purge, a retry or a crash reaches it only where it may.           *)
THEOREM PipeOfPipeline == Spec => IsPipeline
<1>1. Init => P!PipeInit
  BY DEF Init
<1>2. CoupledInv /\ HandOK /\ [Next]_vars => [P!PipeNext]_(P!pipeVars)
  BY PipePart
<1>3. Spec => []CoupledInv
  BY CoupledIndInv
<1>4. Spec => []HandOK
  BY HandIsOK
<1> QED
  BY <1>1, <1>2, <1>3, <1>4, PTL DEF Spec, IsPipeline, P!PipeSpec

-----------------------------------------------------------------------------
(* What is proved of each component holds of both together.                *)

(* Threads, the loop, purges and crashes leave _pending exact while the    *)
(* pipeline runs between a claim and its release.                          *)
THEOREM ClaimsInPipeline == Spec => [](Q!ClaimInv /\ Q!RestartInv)
<1>1. QP!QueueSpec => []QP!ClaimInv
  BY QueueParameters, QP!Claims
<1>2. QP!QueueSpec => []QP!RestartInv
  BY QueueParameters, QP!Restarts
<1>3. QP!ClaimInv <=> Q!ClaimInv
  BY DEF QP!ClaimInv, Q!ClaimInv, QP!ClaimsAreExact, Q!ClaimsAreExact, QP!ClaimedOnce,
         Q!ClaimedOnce, QP!HandMatchesState, Q!HandMatchesState, QP!InHand, Q!InHand,
         QP!Range, Q!Range, QP!IsInjective, Q!IsInjective
<1>4. QP!RestartInv <=> Q!RestartInv
  BY DEF QP!RestartInv, Q!RestartInv, QP!RowsIn, Q!RowsIn
<1> QED
  BY <1>1, <1>2, <1>3, <1>4, QueueRuns, PTL

LEMMA PipeParameters == PP!PipelineAssumption
BY CompositionAssumption DEF PP!PipelineAssumption, P!PipelineAssumption, PP!Steps, P!Steps

LEMMA SamePipeInit == PP!PipeInit <=> P!PipeInit
BY DEF PP!PipeInit, P!PipeInit

LEMMA SamePipeNext == PP!PipeNext <=> P!PipeNext
BY DEF
  PP!PipeNext, PP!EventStep, PP!StepDone, PP!RetryStep, PP!Elsewhere, PP!StartEvent,
  PP!ReadEvent, PP!ReadNothing, PP!ReadRaises, PP!AbortEvent, PP!FinishEvent, PP!AcceptNew,
  PP!AcceptKnown, PP!AcceptUpdated, PP!AcceptRaises, PP!Accepting, PP!Extract, PP!EnrichOff,
  PP!EnrichGaps, PP!EnrichFull, PP!Match, PP!OpenIssues, PP!Record, PP!ActQuietly,
  PP!RaiseInEvent, PP!RaiseInRetry, PP!StartRetry, PP!AbortRetry, PP!RetryPick, PP!RetryEnd,
  PP!PurgeRun, PP!ToggleEnrichment, PP!DeleteCve, PP!Unlink, PP!RetryTimeComes, PP!Crash,
  PP!Restart, PP!Step, PP!Steps, PP!SetStatus, PP!Exists, PP!IsWaiting, PP!DueWaiting,
  PP!FrameGone, PP!rows, PP!run, PP!history,
  P!PipeNext, P!EventStep, P!StepDone, P!RetryStep, P!Elsewhere, P!StartEvent,
  P!ReadEvent, P!ReadNothing, P!ReadRaises, P!AbortEvent, P!FinishEvent, P!AcceptNew,
  P!AcceptKnown, P!AcceptUpdated, P!AcceptRaises, P!Accepting, P!Extract, P!EnrichOff,
  P!EnrichGaps, P!EnrichFull, P!Match, P!OpenIssues, P!Record, P!ActQuietly,
  P!RaiseInEvent, P!RaiseInRetry, P!StartRetry, P!AbortRetry, P!RetryPick, P!RetryEnd,
  P!PurgeRun, P!ToggleEnrichment, P!DeleteCve, P!Unlink, P!RetryTimeComes, P!Crash,
  P!Restart, P!Step, P!Steps, P!SetStatus, P!Exists, P!IsWaiting, P!DueWaiting,
  P!FrameGone, P!rows, P!run, P!history

LEMMA PipeRuns == Spec => PP!PipeSpec
<1>1. P!PipeInit <=> PP!PipeInit
  BY SamePipeInit
<1>2. [P!PipeNext]_(P!pipeVars) => [PP!PipeNext]_(PP!pipeVars)
  BY SamePipeNext DEF P!pipeVars, PP!pipeVars, P!rows, PP!rows, P!run, PP!run, P!history,
                      PP!history
<1> QED
  BY <1>1, <1>2, PipeOfPipeline, PTL DEF IsPipeline, P!PipeSpec, PP!PipeSpec

(* Whatever the queue serves and however it is purged, restarted or fed    *)
(* twice: no step sees a CVE out of its stage, a CVE that waits says so,   *)
(* issues are opened once, and only an interrupted run strands a CVE.      *)
THEOREM StagesInPipeline ==
  Spec => [](P!StageInv /\ P!PauseInv /\ P!OpenedOnce /\ P!MidwayIsCut)
<1>1. PP!PipeSpec => []PP!StageInv
  BY PipeParameters, PP!Staging
<1>2. PP!PipeSpec => []PP!PauseInv
  BY PipeParameters, PP!Pausing
<1>3. PP!PipeSpec => []PP!OpenedOnce
  BY PipeParameters, PP!Opening
<1>4. PP!PipeSpec => []PP!MidwayIsCut
  BY PipeParameters, PP!Stranding
<1>5. PP!StageInv <=> P!StageInv
  BY DEF PP!StageInv, P!StageInv, PP!Steps, P!Steps, PP!Exists, P!Exists
<1>6. PP!PauseInv <=> P!PauseInv
  BY DEF PP!PauseInv, P!PauseInv, PP!Exists, P!Exists
<1>7. PP!OpenedOnce <=> P!OpenedOnce
  BY DEF PP!OpenedOnce, P!OpenedOnce
<1>8. PP!MidwayIsCut <=> P!MidwayIsCut
  BY DEF PP!MidwayIsCut, P!MidwayIsCut, PP!Midway, P!Midway, PP!InWork, P!InWork, PP!Steps,
         P!Steps
<1> QED
  BY <1>1, <1>2, <1>3, <1>4, <1>5, <1>6, <1>7, <1>8, PipeRuns, PTL

(* While the worker is between two runs, every CVE that stands between two *)
(* steps is one whose run was cut short: the end of run_event leaves none  *)
(* behind by any other path.                                               *)
SettledBetweenRuns ==
  worker \notin {"running", "retrying"} => \A c \in Cve : P!Midway(c) => c \in cut

THEOREM RunsEndSettled == Spec => []SettledBetweenRuns
<1>1. HandOK /\ CoupleInv /\ P!MidwayIsCut => SettledBetweenRuns
  BY DEF HandOK, Q!TypeOK, Q!WorkerState, CoupleInv, P!MidwayIsCut, P!InWork, P!Steps,
         SettledBetweenRuns
<1> QED
  BY <1>1, HandIsOK, Coupling, StagesInPipeline, PTL

(* The event table stays a serial ledger under the whole pipeline.         *)
THEOREM LedgerInPipeline == Spec => Q!RefinesLedger
<1>1. QP!QueueSpec => QP!RefinesLedger
  BY QueueParameters, QP!Refinement
<1>2. QP!Ledger!Init <=> Q!Ledger!Init
  BY DEF QP!Ledger!Init, Q!Ledger!Init
<1>3. [QP!Ledger!Next]_(QP!Ledger!ledger) <=> [Q!Ledger!Next]_(Q!Ledger!ledger)
  BY DEF QP!Ledger!Next, QP!Ledger!ledger, QP!Ledger!Abandon,
         QP!Ledger!Settle, QP!Ledger!Accept, QP!Ledger!Record,
         QP!Ledger!Begin, QP!Ledger!Discard, QP!Ledger!Settled,
         Q!Ledger!Next, Q!Ledger!ledger, Q!Ledger!Abandon, Q!Ledger!Settle,
         Q!Ledger!Accept, Q!Ledger!Record, Q!Ledger!Begin, Q!Ledger!Discard,
         Q!Ledger!Settled
<1> QED
  BY <1>1, <1>2, <1>3, QueueRuns, PTL
  DEF QP!RefinesLedger, Q!RefinesLedger, QP!Ledger!Spec, Q!Ledger!Spec

(* The statuses keep their lifecycle under every order of events, purges   *)
(* and restarts the queue allows.                                          *)
THEOREM LifecycleInPipeline == Spec => P!RefinesLifecycle
<1>1. PP!PipeSpec => PP!RefinesLifecycle
  BY PipeParameters, PP!LifecycleKept
<1>2. PP!Life!Init <=> P!Life!Init
  BY DEF PP!Life!Init, P!Life!Init, PP!Reached, P!Reached, PP!Steps, P!Steps
<1>3. PP!Reached = P!Reached /\ PP!Reached' = P!Reached' /\ PP!Steps = P!Steps
  BY Zenon DEF PP!Reached, P!Reached, PP!Steps, P!Steps
<1>4. [PP!Life!Next]_(PP!Life!lifecycle) <=> [P!Life!Next]_(P!Life!lifecycle)
  BY <1>3
  DEF PP!Life!Next, PP!Life!lifecycle, PP!Life!Abandon, PP!Life!Advance,
         PP!Life!Arrive, PP!Life!TakeUp, PP!Life!Fail, PP!Life!Delete,
         PP!Life!Known, PP!Life!Free, PP!Life!LetsGo, PP!Life!After,
         P!Life!Next, P!Life!lifecycle, P!Life!Abandon, P!Life!Advance,
         P!Life!Arrive, P!Life!TakeUp, P!Life!Fail, P!Life!Delete,
         P!Life!Known, P!Life!Free, P!Life!LetsGo, P!Life!After
<1> QED
  BY <1>1, <1>2, <1>4, PipeRuns, PTL
  DEF PP!RefinesLifecycle, P!RefinesLifecycle, PP!Life!Spec, P!Life!Spec

(* Nobody overtakes: with the whole pipeline between two takes, events are *)
(* still served in the order of the queue, and a CVE that waits for        *)
(* enrichment keeps its place in the order of the retries until one of     *)
(* them, an event or a deletion reaches it.                                *)
THEOREM OrderInPipeline ==
  Spec => [][QP!InTurn]_(QP!queueVars) /\ [][PP!SleepsOn /\ PP!WokenInTurn]_(PP!pipeVars)
<1>1. QP!QueueSpec => [][QP!InTurn]_(QP!queueVars)
  BY QueueParameters, QP!ServedInTurn
<1>2. PP!PipeSpec => [][PP!SleepsOn /\ PP!WokenInTurn]_(PP!pipeVars)
  BY PipeParameters, PP!Sleepers
<1> QED
  BY <1>1, <1>2, QueueRuns, PipeRuns, PTL

(* The pages tell the truth in the composed system: a CVE shown as in      *)
(* flight is in the worker's hand or its run was cut short, and one shown  *)
(* as waiting is found by the retry; purged and repeated events, reruns    *)
(* and restarts included.                                                  *)
THEOREM PagesInPipeline == Spec => [](PP!InFlightIsWorked /\ PP!WaitingIsTrue)
<1>1. PP!PipeSpec => []PP!InFlightIsWorked
  BY PipeParameters, PP!InFlight
<1>2. PP!PipeSpec => []PP!WaitingIsTrue
  BY PipeParameters, PP!Waiting
<1> QED
  BY <1>1, <1>2, PipeRuns, PTL
=============================================================================
