------------------------ MODULE Orchestrator_proofs ------------------------
(***************************************************************************)
(* Proofs about the pipeline for every set of CVEs, every set of steps     *)
(* that may raise and every bound on the issues: its invariants, and that  *)
(* it implements Lifecycle.                                                *)
(***************************************************************************)
EXTENDS Orchestrator, TLAPS

-----------------------------------------------------------------------------
(* Types.                                                                  *)
LEMMA PipeTypeInit == PipeInit => PipeTypeOK
<1> SUFFICES ASSUME PipeInit PROVE PipeTypeOK
  OBVIOUS
<1>1. opened \in [Cve -> 0..MaxIssues]
  BY PipelineAssumption DEF PipeInit
<1>2. vuln \in Cve \cup {NoCve} /\ pc \in Control /\ pc \notin Steps
  BY DEF PipeInit, Control, Steps
<1>3. status \in [Cve -> CveStatus] /\ todo \subseteq Cve /\ mode \in {"event", "retry"}
  BY DEF PipeInit, CveStatus
<1>4. /\ paused \in [Cve -> BOOLEAN]
      /\ waiting \in [Cve -> BOOLEAN]
      /\ due \in [Cve -> BOOLEAN]
      /\ links \in [Cve -> BOOLEAN]
      /\ tickets \in [Cve -> BOOLEAN]
  BY DEF PipeInit
<1> QED
  BY <1>1, <1>2, <1>3, <1>4 DEF PipeInit, PipeTypeOK

LEMMA PipeTypeStep == PipeTypeOK /\ [PipeNext]_pipeVars => PipeTypeOK'
<1> SUFFICES ASSUME PipeTypeOK, [PipeNext]_pipeVars PROVE PipeTypeOK'
    OBVIOUS
<1> USE PipelineAssumption DEF PipeTypeOK, CveStatus, Control, Steps
<1>1. ASSUME NEW S \in SUBSET Cve, NEW again \in BOOLEAN, StartEvent(S, again) PROVE PipeTypeOK'
  BY <1>1 DEF StartEvent, rows, history
<1>2. CASE ReadEvent
  BY <1>2 DEF ReadEvent, run, rows, history
<1>3. CASE ReadNothing
  BY <1>3 DEF ReadNothing, run, rows, history
<1>4. CASE ReadRaises
  BY <1>4 DEF ReadRaises, run, rows, history
<1>5. ASSUME NEW c \in Cve, AcceptNew(c) PROVE PipeTypeOK'
  BY <1>5 DEF AcceptNew, Accepting, SetStatus, Exists, history
<1>6. ASSUME NEW c \in Cve, AcceptKnown(c) PROVE PipeTypeOK'
  BY <1>6 DEF AcceptKnown, Accepting, Exists, rows, history
<1>7. ASSUME NEW c \in Cve, AcceptUpdated(c) PROVE PipeTypeOK'
  BY <1>7 DEF AcceptUpdated, Accepting, Exists, rows
<1>8. ASSUME NEW c \in Cve, AcceptRaises(c) PROVE PipeTypeOK'
  BY <1>8 DEF AcceptRaises, Accepting, SetStatus, history
<1>9. CASE Extract
  BY <1>9 DEF Extract, Step, SetStatus, run, history
<1>10. CASE EnrichOff
  BY <1>10 DEF EnrichOff, Step, SetStatus, run, history
<1>11. CASE EnrichGaps
  BY <1>11 DEF EnrichGaps, Step, SetStatus, run, history
<1>12. CASE EnrichFull
  BY <1>12 DEF EnrichFull, Step, SetStatus, run, history
<1>13. ASSUME NEW hit \in BOOLEAN, Match(hit) PROVE PipeTypeOK'
  BY <1>13 DEF Match, Step, SetStatus, run, history
<1>14. CASE OpenIssues
  BY <1>14 DEF OpenIssues, Step, run, rows, history
<1>15. CASE Record
  BY <1>15 DEF Record, Step, SetStatus, run, history
<1>16. CASE ActQuietly
  BY <1>16 DEF ActQuietly, Step, SetStatus, run, history
<1>17. CASE RaiseInEvent
  BY <1>17 DEF RaiseInEvent, Step, SetStatus, run, history
<1>18. CASE RaiseInRetry
  BY <1>18 DEF RaiseInRetry, Step, run, rows
<1>19. CASE AbortEvent
  BY <1>19 DEF AbortEvent, run, rows
<1>20. CASE AbortRetry
  BY <1>20 DEF AbortRetry, run, rows, history
<1>21. CASE FinishEvent
  BY <1>21 DEF FinishEvent, run, rows, history
<1>22. CASE StartRetry
  BY <1>22 DEF StartRetry, FrameGone, DueWaiting, rows, history
<1>23. ASSUME NEW c \in Cve, RetryPick(c) PROVE PipeTypeOK'
  BY <1>23 DEF RetryPick, Exists, IsWaiting, rows
<1>24. CASE RetryEnd
  BY <1>24 DEF RetryEnd, FrameGone, rows, history
<1>25. ASSUME NEW c \in Cve, DeleteCve(c) PROVE PipeTypeOK'
  BY <1>25 DEF DeleteCve, Exists, SetStatus, run
<1>26. CASE PurgeRun
  BY <1>26 DEF PurgeRun, run, rows, history
<1>27. ASSUME NEW c \in Cve, Unlink(c) PROVE PipeTypeOK'
  BY <1>27 DEF Unlink, run, history
<1>28. CASE ToggleEnrichment
  BY <1>28 DEF ToggleEnrichment, run, rows, history
<1>29. ASSUME NEW c \in Cve, RetryTimeComes(c) PROVE PipeTypeOK'
  BY <1>29 DEF RetryTimeComes, run, history
<1>30. CASE Crash
  BY <1>30 DEF Crash, FrameGone, rows
<1>31. CASE Restart
  BY <1>31 DEF Restart, run, rows, history
<1>32. CASE UNCHANGED pipeVars
  BY <1>32 DEF pipeVars, run, rows, history
<1> QED
    BY <1>1, <1>2, <1>3, <1>4, <1>5, <1>6, <1>7, <1>8, <1>9, <1>10, <1>11,
       <1>12, <1>13, <1>14, <1>15, <1>16, <1>17, <1>18, <1>19, <1>20,
       <1>21, <1>22, <1>23, <1>24, <1>25, <1>26, <1>27, <1>28, <1>29,
       <1>30, <1>31, <1>32
       DEF PipeNext, EventStep, StepDone, RetryStep, Elsewhere

(* Every variable keeps its type, and a step has a CVE to work on.         *)
THEOREM PipeTyping == PipeSpec => []PipeTypeOK
<1>1. PipeInit => PipeTypeOK
  BY PipeTypeInit
<1>2. PipeTypeOK /\ [PipeNext]_pipeVars => PipeTypeOK'
  BY PipeTypeStep
<1> QED
  BY <1>1, <1>2, PTL DEF PipeSpec

-----------------------------------------------------------------------------
(* The inductive invariant.  OpenedOnce holds because an issue that was    *)
(* opened is either recorded or being recorded, or the database forgot it; *)
(* MidwayIsCut needs that a retry finds its run gone only with its CVE.    *)
IssueInv ==
  /\ \A c \in Cve \ forgot :
       /\ opened[c] <= 1
       /\ opened[c] = 1 => tickets[c] \/ (pc = "recording" /\ vuln = c)
  /\ pc = "recording" => live

RetryInv == mode = "retry" /\ pc \in Steps /\ ~live => ~Exists(vuln)

PipeParts == PauseInv /\ StageInv /\ IssueInv /\ RetryInv /\ MidwayIsCut

PipeIInv == PipeTypeOK /\ PipeParts

LEMMA PipePartsInit == PipeInit => PipeParts
  BY DEF PipeInit, PipeParts, PauseInv, StageInv, IssueInv, RetryInv, MidwayIsCut, Midway,
     Exists, Steps

LEMMA PipePartsStep == PipeIInv /\ PipeTypeOK' /\ [PipeNext]_pipeVars => PipeParts'
<1> SUFFICES ASSUME PipeIInv, PipeTypeOK', [PipeNext]_pipeVars PROVE PipeParts'
    OBVIOUS
<1> USE PipelineAssumption DEF PipeIInv, PipeTypeOK, PipeParts, PauseInv, StageInv, IssueInv,
          RetryInv, MidwayIsCut, Midway, InWork, Exists, Steps, CveStatus, Control
<1>1. ASSUME NEW S \in SUBSET Cve, NEW again \in BOOLEAN, StartEvent(S, again) PROVE PipeParts'
  BY <1>1 DEF StartEvent, rows, history
<1>2. CASE ReadEvent
  BY <1>2 DEF ReadEvent, run, rows, history
<1>3. CASE ReadNothing
  BY <1>3 DEF ReadNothing, run, rows, history
<1>4. CASE ReadRaises
  BY <1>4 DEF ReadRaises, run, rows, history
<1>5. ASSUME NEW c \in Cve, AcceptNew(c) PROVE PipeParts'
  BY <1>5 DEF AcceptNew, Accepting, SetStatus, Exists, history
<1>6. ASSUME NEW c \in Cve, AcceptKnown(c) PROVE PipeParts'
  BY <1>6 DEF AcceptKnown, Accepting, Exists, rows, history
<1>7. ASSUME NEW c \in Cve, AcceptUpdated(c) PROVE PipeParts'
  BY <1>7 DEF AcceptUpdated, Accepting, Exists, rows
<1>8. ASSUME NEW c \in Cve, AcceptRaises(c) PROVE PipeParts'
  BY <1>8 DEF AcceptRaises, Accepting, SetStatus, history
<1>9. CASE Extract
  BY <1>9 DEF Extract, Step, SetStatus, run, history
<1>10. CASE EnrichOff
  BY <1>10 DEF EnrichOff, Step, SetStatus, run, history
<1>11. CASE EnrichGaps
  BY <1>11 DEF EnrichGaps, Step, SetStatus, run, history
<1>12. CASE EnrichFull
  BY <1>12 DEF EnrichFull, Step, SetStatus, run, history
<1>13. ASSUME NEW hit \in BOOLEAN, Match(hit) PROVE PipeParts'
  BY <1>13 DEF Match, Step, SetStatus, run, history
<1>14. CASE OpenIssues
  BY <1>14 DEF OpenIssues, Step, run, rows, history
<1>15. CASE Record
  BY <1>15 DEF Record, Step, SetStatus, run, history
<1>16. CASE ActQuietly
  BY <1>16 DEF ActQuietly, Step, SetStatus, run, history
<1>17. CASE RaiseInEvent
  <2>1. PauseInv'
    BY <1>17 DEF RaiseInEvent, Step, SetStatus, run, history
  <2>2. StageInv'
    BY <1>17 DEF RaiseInEvent, Step, SetStatus, run, history
  <2>3. IssueInv'
    <3>1. /\ vuln \in Cve /\ pc' = "next"
          /\ UNCHANGED <<opened, forgot, live>>
          /\ \A x \in Cve : x # vuln => tickets'[x] = tickets[x]
          /\ tickets[vuln] \/ pc = "recording" => tickets'[vuln]
      <4>1. /\ vuln \in Cve /\ pc' = "next"
            /\ UNCHANGED <<opened, forgot, live>>
        BY <1>17 DEF RaiseInEvent, Step, run, history
      <4>2. tickets' = [tickets EXCEPT ![vuln] = tickets[vuln] \/ pc = "recording"]
        BY <1>17 DEF RaiseInEvent
      <4>3. tickets \in [Cve -> BOOLEAN]
        OBVIOUS
      <4> HIDE DEF PipeTypeOK, PipeParts, PipeIInv
      <4>4. tickets'[vuln] = (tickets[vuln] \/ pc = "recording")
        BY <4>1, <4>2, <4>3, Zenon
      <4>5. \A x \in Cve : x # vuln => tickets'[x] = tickets[x]
        BY <4>1, <4>2, <4>3, Zenon
      <4> QED
        BY <4>1, <4>4, <4>5
    <3>2. ASSUME NEW x \in Cve \ forgot PROVE opened[x] = 1 => tickets'[x]
      BY <3>1
    <3> QED
      BY <3>1, <3>2
  <2>4. RetryInv'
    BY <1>17 DEF RaiseInEvent, Step, SetStatus, run, history
  <2>5. MidwayIsCut'
    BY <1>17 DEF RaiseInEvent, Step, SetStatus, run, history
  <2> QED
    BY <2>1, <2>2, <2>3, <2>4, <2>5
<1>18. CASE RaiseInRetry
  BY <1>18 DEF RaiseInRetry, Step, run, rows
<1>19. CASE AbortEvent
  BY <1>19 DEF AbortEvent, run, rows
<1>20. CASE AbortRetry
  BY <1>20 DEF AbortRetry, run, rows, history
<1>21. CASE FinishEvent
  BY <1>21 DEF FinishEvent, run, rows, history
<1>22. CASE StartRetry
  BY <1>22 DEF StartRetry, FrameGone, DueWaiting, rows, history
<1>23. ASSUME NEW c \in Cve, RetryPick(c) PROVE PipeParts'
  BY <1>23 DEF RetryPick, Exists, IsWaiting, rows
<1>24. CASE RetryEnd
  BY <1>24 DEF RetryEnd, FrameGone, rows, history
<1>25. ASSUME NEW c \in Cve, DeleteCve(c) PROVE PipeParts'
  <2>1. PauseInv'
    BY <1>25 DEF DeleteCve, SetStatus, run
  <2>2. StageInv'
    <3>1. CASE vuln = c
      BY <1>25, <3>1 DEF DeleteCve
    <3>2. CASE vuln # c
      <4>1. /\ UNCHANGED <<pc, vuln, live>>
            /\ vuln \in Cve => status'[vuln] = status[vuln] /\ waiting'[vuln] = waiting[vuln]
        BY <1>25, <3>2 DEF DeleteCve, SetStatus, run
      <4> QED
        BY <4>1
    <3> QED
      BY <3>1, <3>2
  <2>3. IssueInv'
    BY <1>25 DEF DeleteCve, SetStatus, run
  <2>4. RetryInv'
    BY <1>25 DEF DeleteCve, SetStatus, run
  <2>5. MidwayIsCut'
    BY <1>25 DEF DeleteCve, SetStatus, run
  <2> QED
    BY <2>1, <2>2, <2>3, <2>4, <2>5
<1>26. CASE PurgeRun
  BY <1>26 DEF PurgeRun, run, rows, history
<1>27. ASSUME NEW c \in Cve, Unlink(c) PROVE PipeParts'
  BY <1>27 DEF Unlink, run, history
<1>28. CASE ToggleEnrichment
  BY <1>28 DEF ToggleEnrichment, run, rows, history
<1>29. ASSUME NEW c \in Cve, RetryTimeComes(c) PROVE PipeParts'
  BY <1>29 DEF RetryTimeComes, run, history
<1>30. CASE Crash
  BY <1>30 DEF Crash, FrameGone, rows
<1>31. CASE Restart
  BY <1>31 DEF Restart, run, rows, history
<1>32. CASE UNCHANGED pipeVars
  BY <1>32 DEF pipeVars, run, rows, history
<1> QED
    BY <1>1, <1>2, <1>3, <1>4, <1>5, <1>6, <1>7, <1>8, <1>9, <1>10, <1>11,
       <1>12, <1>13, <1>14, <1>15, <1>16, <1>17, <1>18, <1>19, <1>20,
       <1>21, <1>22, <1>23, <1>24, <1>25, <1>26, <1>27, <1>28, <1>29,
       <1>30, <1>31, <1>32
       DEF PipeNext, EventStep, StepDone, RetryStep, Elsewhere

LEMMA PipeIndInv == PipeSpec => []PipeIInv
<1>1. PipeInit => PipeIInv
  BY PipePartsInit, PipeTypeInit DEF PipeIInv
<1>2. PipeIInv /\ [PipeNext]_pipeVars => PipeIInv'
  BY PipeTypeStep, PipePartsStep DEF PipeIInv
<1> QED
  BY <1>1, <1>2, PTL DEF PipeSpec

(* The label and the flag agree, and a deleted row leaves nothing.         *)
THEOREM Pausing == PipeSpec => []PauseInv
  BY PipeIndInv, PTL DEF PipeIInv, PipeParts

(* Matching and tickets never see a CVE that waits for enrichment.         *)
THEOREM Staging == PipeSpec => []StageInv
  BY PipeIndInv, PTL DEF PipeIInv, PipeParts

(* Issues are opened once, unless the database forgot them.                *)
THEOREM Opening == PipeSpec => []OpenedOnce
<1>1. PipeIInv => OpenedOnce
  BY DEF PipeIInv, PipeTypeOK, PipeParts, IssueInv, OpenedOnce
<1> QED
  BY PipeIndInv, <1>1, PTL

(* Only a crash, an error in a retry or a deleted run strands a CVE.       *)
THEOREM Stranding == PipeSpec => []MidwayIsCut
  BY PipeIndInv, PTL DEF PipeIInv, PipeParts

-----------------------------------------------------------------------------
(***************************************************************************)
(* The pipeline implements Lifecycle.                                      *)
(***************************************************************************)
Hand == IF pc \in Steps THEN vuln ELSE NoCve
Sleeping == {c \in Cve : paused[c]}

(* While the rows under a run are there, so is the one it took last.       *)
LiveInv == live /\ vuln # NoCve => Exists(vuln)

LEMMA LiveStep == PipeTypeOK /\ LiveInv /\ [PipeNext]_pipeVars => LiveInv'
<1> SUFFICES ASSUME PipeTypeOK, LiveInv, [PipeNext]_pipeVars PROVE LiveInv'
  OBVIOUS
<1> USE PipelineAssumption DEF LiveInv, Exists
<1>1. CASE UNCHANGED <<status, vuln, live>>
  BY <1>1
<1>2. ASSUME NEW c \in Cve, AcceptNew(c) \/ AcceptKnown(c) \/ AcceptUpdated(c) \/ AcceptRaises(c)
      PROVE  LiveInv'
  <2>1. AcceptNew(c) => LiveInv'
    BY DEF AcceptNew, Accepting, SetStatus, PipeTypeOK
  <2>2. AcceptKnown(c) \/ AcceptUpdated(c) => LiveInv'
    BY DEF AcceptKnown, AcceptUpdated, Accepting, rows
  <2>3. AcceptRaises(c) => LiveInv'
    BY DEF AcceptRaises, Accepting, SetStatus, PipeTypeOK
  <2> QED
    BY <1>2, <2>1, <2>2, <2>3
<1>3. CASE StepDone
  <2>1. UNCHANGED <<vuln, live>>
    BY <1>3 DEF StepDone, Extract, EnrichOff, EnrichGaps, EnrichFull, Match, OpenIssues, Record,
                ActQuietly, RaiseInEvent, RaiseInRetry, Step, run
  <2>2. UNCHANGED status \/ \E s \in CveStatus \ {"ABSENT"}, wait \in BOOLEAN : SetStatus(vuln, s, wait)
    BY <1>3 DEF StepDone, Extract, EnrichOff, EnrichGaps, EnrichFull, Match, OpenIssues, Record,
                ActQuietly, RaiseInEvent, RaiseInRetry, rows, CveStatus
  <2> QED
    BY <2>1, <2>2 DEF SetStatus, PipeTypeOK
<1>4. ASSUME NEW c \in Cve, RetryPick(c) PROVE LiveInv'
  BY <1>4 DEF RetryPick, rows
<1>5. ASSUME NEW c \in Cve, DeleteCve(c) PROVE LiveInv'
  BY <1>5 DEF DeleteCve, SetStatus, run, PipeTypeOK
<1>6. StartRetry \/ RetryEnd \/ Crash => LiveInv'
  BY DEF StartRetry, RetryEnd, Crash, FrameGone
<1>7. CASE PurgeRun
  BY <1>7 DEF PurgeRun
<1>8. ReadEvent \/ ReadNothing \/ ReadRaises \/ AbortEvent \/ FinishEvent \/ AbortRetry
        \/ ToggleEnrichment \/ Restart \/ UNCHANGED pipeVars => UNCHANGED <<status, vuln, live>>
  BY DEF ReadEvent, ReadNothing, ReadRaises, AbortEvent, FinishEvent, AbortRetry,
         ToggleEnrichment, Restart, pipeVars, rows, run
<1>9. ASSUME NEW c \in Cve, Unlink(c) \/ RetryTimeComes(c) PROVE UNCHANGED <<status, vuln, live>>
  BY <1>9 DEF Unlink, RetryTimeComes, run
<1>10. ASSUME NEW S \in SUBSET Cve, NEW again \in BOOLEAN, StartEvent(S, again)
       PROVE UNCHANGED <<status, vuln, live>>
  BY <1>10 DEF StartEvent, rows
<1> QED
  BY <1>1, <1>2, <1>3, <1>4, <1>5, <1>6, <1>7, <1>8, <1>9, <1>10
     DEF PipeNext, EventStep, RetryStep, Elsewhere

(* What a write of the status does to the set of the sleeping.             *)
LEMMA Relabels ==
  ASSUME PipeTypeOK, NEW c \in Cve, NEW s, NEW wait \in BOOLEAN, SetStatus(c, s, wait)
  PROVE  /\ status' = [status EXCEPT ![c] = s]
         /\ Sleeping' = IF wait THEN Sleeping \cup {c} ELSE Sleeping \ {c}
<1>1. \A d \in Cve : paused'[d] = IF d = c THEN wait ELSE paused[d]
  BY Zenon DEF SetStatus, PipeTypeOK
<1> QED
  BY <1>1 DEF SetStatus, Sleeping

LEMMA LifeInit == PipeInit => Life!Init
<1> SUFFICES ASSUME PipeInit PROVE Life!Init
  OBVIOUS
<1>1. {c \in Cve : paused[c]} = {} /\ pc = "down"
  BY DEF PipeInit
<1>2. Reached = "none" /\ pc \notin Steps
  BY <1>1 DEF Reached, Steps
<1> QED
  BY <1>1, <1>2 DEF PipeInit, Life!Init

LEMMA Phases ==
  /\ pc = "extract" => Reached = "INGESTED"
  /\ pc = "enrich" => Reached = "EXTRACTED"
  /\ pc = "match" => Reached = "ENRICHED"
  /\ pc \in {"act", "recording"} => Reached = "MATCHED"
  /\ pc \notin Steps => Reached = "none" /\ Hand = NoCve
  /\ pc \in Steps => Hand = vuln
  BY DEF Reached, Hand, Steps

LEMMA PhasesNext ==
  /\ pc' = "extract" => Reached' = "INGESTED"
  /\ pc' = "enrich" => Reached' = "EXTRACTED"
  /\ pc' = "match" => Reached' = "ENRICHED"
  /\ pc' \in {"act", "recording"} => Reached' = "MATCHED"
  /\ pc' \notin Steps => Reached' = "none" /\ Hand' = NoCve
  /\ pc' \in Steps => Hand' = vuln'
  BY DEF Reached, Hand, Steps

(* The actions of Lifecycle, in the variables they are mapped to.          *)
LEMMA Mapped ==
  /\ (Hand' = NoCve /\ Reached' = "none") <=> Life!LetsGo
  /\ Hand = NoCve <=> Life!Free
  /\ \A c \in Cve : Exists(c) <=> Life!Known(c)
  BY DEF Hand, Exists, Life!LetsGo, Life!Free, Life!Known

LEMMA ToArrive ==
  ASSUME NEW c \in Cve, Hand = NoCve, ~Exists(c), status' = [status EXCEPT ![c] = "INGESTED"],
         Sleeping' = Sleeping, Hand' = c, Reached' = "INGESTED"
  PROVE  Life!Next
<1>1. Life!Arrive(c)
  BY DEF Life!Arrive, Life!Free, Life!Known, Hand, Sleeping, Exists
<1> QED
  BY <1>1 DEF Life!Next

LEMMA ToTakeUp ==
  ASSUME NEW c \in Cve, Hand = NoCve, Exists(c), UNCHANGED status,
         Sleeping' = Sleeping, Hand' = c, Reached' = "EXTRACTED"
  PROVE  Life!Next
<1>1. Life!TakeUp(c)
  BY DEF Life!TakeUp, Life!Free, Life!Known, Hand, Sleeping, Exists
<1> QED
  BY <1>1 DEF Life!Next

LEMMA ToAdvance ==
  ASSUME NEW c \in Cve, Hand = c, c # NoCve, Exists(c), NEW s, s = Life!After[Reached],
         Reached # "EXTRACTED" => status[c] = Reached /\ c \notin Sleeping,
         status' = [status EXCEPT ![c] = s], NEW sleeps \in BOOLEAN,
         Sleeping' = IF sleeps THEN Sleeping \cup {c} ELSE Sleeping \ {c},
         sleeps => s = "ENRICHED" /\ Hand' = NoCve /\ Reached' = "none",
         \/ Hand' = NoCve /\ Reached' = "none"
         \/ s # "ACTIONED" /\ Hand' = c /\ Reached' = s
  PROVE  Life!Next
<1>1. Life!Advance(sleeps)
  BY DEF Life!Advance, Life!Free, Life!Known, Life!LetsGo, Hand, Sleeping, Exists
<1> QED
  BY <1>1 DEF Life!Next

LEMMA ToFail ==
  ASSUME NEW c \in Cve, Hand \in {c, NoCve}, Exists(c), SetStatus(c, "FAILED", FALSE),
         PipeTypeOK, Hand' = NoCve, Reached' = "none"
  PROVE  Life!Next
<1>1. status' = [status EXCEPT ![c] = "FAILED"] /\ Sleeping' = Sleeping \ {c}
  BY Relabels
<1>2. Life!Fail(c)
  BY <1>1 DEF Life!Fail, Life!Known, Life!LetsGo, Hand, Sleeping, Exists
<1> QED
  BY <1>2 DEF Life!Next

LEMMA ToAbandon ==
  ASSUME PipeTypeOK, UNCHANGED <<status, paused>>,
         \/ Hand' = NoCve /\ Reached' = "none"
         \/ UNCHANGED <<Hand, Reached>>
  PROVE  [Life!Next]_(Life!lifecycle)
<1>1. UNCHANGED Sleeping
  BY DEF Sleeping
<1>2. CASE UNCHANGED <<Hand, Reached>>
  BY <1>1, <1>2 DEF Life!lifecycle, Hand, Sleeping
<1>3. CASE Hand # NoCve /\ Hand' = NoCve /\ Reached' = "none"
  <2>1. Life!Abandon
    BY <1>1, <1>3 DEF Life!Abandon, Life!Free, Life!LetsGo, Hand, Sleeping
  <2> QED
    BY <2>1 DEF Life!Next
<1>4. Hand = NoCve => Reached = "none"
  BY PipelineAssumption DEF Hand, Reached, PipeTypeOK, Steps
<1> QED
  BY <1>2, <1>3, <1>4

LEMMA LifeStep ==
  ASSUME PipeIInv, LiveInv, [PipeNext]_pipeVars PROVE [Life!Next]_(Life!lifecycle)
<1> USE PipelineAssumption, Phases, PhasesNext
<1>0. /\ PipeTypeOK
      /\ \A c \in Cve : c # NoCve /\ status[c] \in CveStatus
      /\ pc \in Steps => vuln \in Cve
  BY DEF PipeIInv, PipeTypeOK
<1>1. ASSUME UNCHANGED <<status, paused>>, pc' \notin Steps \/ UNCHANGED <<pc, vuln>>
      PROVE  [Life!Next]_(Life!lifecycle)
  <2>1. CASE pc' \notin Steps
    BY <1>0, <1>1, <2>1, ToAbandon
  <2>2. CASE UNCHANGED <<pc, vuln>>
    <3>1. UNCHANGED <<Hand, Reached>>
      BY <2>2 DEF Hand, Reached
    <3> QED
      BY <1>0, <1>1, <3>1, ToAbandon
  <2> QED
    BY <1>1, <2>1, <2>2
<1>2. ASSUME NEW S \in SUBSET Cve, NEW again \in BOOLEAN, StartEvent(S, again)
      PROVE  [Life!Next]_(Life!lifecycle)
  BY <1>1, <1>2 DEF StartEvent, rows, Steps
<1>3. CASE ReadEvent \/ ReadNothing \/ ReadRaises \/ AbortEvent \/ FinishEvent
  <2>1. UNCHANGED <<status, paused>> /\ pc' \notin Steps
    BY <1>3 DEF ReadEvent, ReadNothing, ReadRaises, AbortEvent, FinishEvent, rows, Steps
  <2> QED
    BY <1>1, <2>1
<1>4. CASE StartRetry \/ AbortRetry \/ RetryEnd \/ Crash \/ Restart
  <2>1. UNCHANGED <<status, paused>> /\ pc' \notin Steps
    BY <1>4 DEF StartRetry, AbortRetry, RetryEnd, Crash, Restart, rows, Steps
  <2> QED
    BY <1>1, <2>1
<1>5. ASSUME NEW c,
             PurgeRun \/ ToggleEnrichment \/ Unlink(c) \/ RetryTimeComes(c) \/ UNCHANGED pipeVars
      PROVE  [Life!Next]_(Life!lifecycle)
  <2>1. UNCHANGED <<status, paused, pc, vuln>>
    BY <1>5 DEF PurgeRun, ToggleEnrichment, Unlink, RetryTimeComes, pipeVars, rows, run
  <2> QED
    BY <1>1, <2>1
<1>6. ASSUME NEW c \in Cve, AcceptNew(c) PROVE Life!Next
  <2>1. /\ ~Exists(c) /\ SetStatus(c, "INGESTED", FALSE) /\ ~paused[c]
        /\ pc = "next" /\ pc' = "extract" /\ vuln' = c
    BY <1>6 DEF AcceptNew, Accepting, PipeIInv, PipeParts, PauseInv
  <2>2. status' = [status EXCEPT ![c] = "INGESTED"] /\ Sleeping' = Sleeping \ {c}
    BY <1>0, <2>1, Relabels
  <2>3. Sleeping' = Sleeping
    BY <2>1, <2>2 DEF Sleeping
  <2> QED
    BY <2>1, <2>2, <2>3, ToArrive DEF Steps
<1>7. ASSUME NEW c \in Cve, AcceptKnown(c) PROVE [Life!Next]_(Life!lifecycle)
  BY <1>1, <1>7 DEF AcceptKnown, Accepting, rows, Steps
<1>8. ASSUME NEW c \in Cve, AcceptUpdated(c) PROVE Life!Next
  <2>1. Exists(c) /\ UNCHANGED <<status, paused>> /\ pc = "next" /\ pc' = "enrich" /\ vuln' = c
    BY <1>8 DEF AcceptUpdated, Accepting, rows
  <2>2. Sleeping' = Sleeping
    BY <2>1 DEF Sleeping
  <2> QED
    BY <2>1, <2>2, ToTakeUp DEF Steps
<1>9. ASSUME NEW c \in Cve, AcceptRaises(c) PROVE [Life!Next]_(Life!lifecycle)
  <2>1. pc = "next" /\ pc' = "next" /\ live
    BY <1>9 DEF AcceptRaises, Accepting
  <2>2. CASE vuln = NoCve
    BY <1>1, <1>9, <2>1, <2>2 DEF AcceptRaises, Steps
  <2>3. CASE vuln # NoCve
    <3>1. vuln \in Cve /\ Exists(vuln) /\ SetStatus(vuln, "FAILED", FALSE)
      BY <1>0, <1>9, <2>1, <2>3 DEF AcceptRaises, LiveInv, PipeTypeOK
    <3> QED
      BY <1>0, <2>1, <3>1, ToFail DEF Steps
  <2> QED
    BY <2>2, <2>3
<1>10. CASE StepDone
  <2>1. /\ pc \in Steps /\ live /\ vuln \in Cve /\ vuln # NoCve /\ Exists(vuln)
        /\ Hand = vuln /\ vuln' = vuln
    BY <1>0, <1>10 DEF StepDone, Extract, EnrichOff, EnrichGaps, EnrichFull, Match, OpenIssues,
       Record, ActQuietly, RaiseInEvent, RaiseInRetry, Step, run, Steps, LiveInv
  <2>2. pc \in {"extract", "match", "act", "recording"} =>
          status[vuln] = Reached /\ vuln \notin Sleeping
    BY <2>1 DEF PipeIInv, PipeParts, StageInv, PauseInv, Sleeping
  <2>3. /\ Life!After["INGESTED"] = "EXTRACTED" /\ Life!After["EXTRACTED"] = "ENRICHED"
        /\ Life!After["ENRICHED"] = "MATCHED" /\ Life!After["MATCHED"] = "ACTIONED"
    BY DEF Life!After
  <2>4. ASSUME NEW s, NEW wait \in BOOLEAN, SetStatus(vuln, s, wait)
        PROVE  /\ status' = [status EXCEPT ![vuln] = s]
               /\ Sleeping' = IF wait THEN Sleeping \cup {vuln} ELSE Sleeping \ {vuln}
    BY <1>0, <2>1, <2>4, Relabels
  <2>5. CASE Extract
    <3>1. pc = "extract" /\ pc' = "enrich" /\ SetStatus(vuln, "EXTRACTED", FALSE)
      BY <2>5 DEF Extract, Step
    <3> QED
      BY <2>1, <2>2, <2>3, <2>4, <3>1, ToAdvance DEF Steps
  <2>6. CASE EnrichOff \/ EnrichFull
    <3>1. pc = "enrich" /\ pc' \in {"next", "match"} /\ SetStatus(vuln, "ENRICHED", FALSE)
      BY <2>6 DEF EnrichOff, EnrichFull, Step
    <3> QED
      BY <2>1, <2>3, <2>4, <3>1, ToAdvance DEF Steps
  <2>7. CASE EnrichGaps
    <3>1. pc = "enrich" /\ pc' = "next" /\ SetStatus(vuln, "ENRICHED", TRUE)
      BY <2>7 DEF EnrichGaps, Step
    <3> QED
      BY <2>1, <2>3, <2>4, <3>1, ToAdvance DEF Steps
  <2>8. ASSUME NEW hit \in BOOLEAN, Match(hit) PROVE Life!Next
    <3>1. pc = "match" /\ pc' \in {"next", "act"} /\ SetStatus(vuln, "MATCHED", FALSE)
      BY <2>8 DEF Match, Step
    <3> QED
      BY <2>1, <2>2, <2>3, <2>4, <3>1, ToAdvance DEF Steps
  <2>9. CASE OpenIssues
    <3>1. /\ UNCHANGED <<status, paused>> /\ Hand' = Hand
          /\ pc = "act" /\ pc' = "recording"
      BY <2>1, <2>9 DEF OpenIssues, Step, rows, Steps
    <3> QED
      BY <1>0, <3>1, ToAbandon
  <2>10. CASE Record \/ ActQuietly
    <3>1. pc \in {"act", "recording"} /\ pc' = "next" /\ SetStatus(vuln, "ACTIONED", FALSE)
      BY <2>10 DEF Record, ActQuietly, Step
    <3> QED
      BY <2>1, <2>2, <2>3, <2>4, <3>1, ToAdvance DEF Steps
  <2>11. CASE RaiseInEvent
    <3>1. pc' = "next" /\ SetStatus(vuln, "FAILED", FALSE)
      BY <2>11 DEF RaiseInEvent
    <3> QED
      BY <1>0, <2>1, <3>1, ToFail DEF Steps
  <2>12. CASE RaiseInRetry
    BY <1>1, <2>12 DEF RaiseInRetry, rows, Steps
  <2> QED
    BY <1>10, <2>5, <2>6, <2>7, <2>8, <2>9, <2>10, <2>11, <2>12 DEF StepDone
<1>11. ASSUME NEW c \in Cve, RetryPick(c) PROVE [Life!Next]_(Life!lifecycle)
  <2>1. UNCHANGED <<status, paused>> /\ pc = "next"
    BY <1>11 DEF RetryPick, rows
  <2>2. CASE Exists(c) /\ IsWaiting(c)
    <3>1. pc' = "enrich" /\ vuln' = c /\ Sleeping' = Sleeping
      BY <1>11, <2>1, <2>2 DEF RetryPick, Sleeping
    <3> QED
      BY <2>1, <2>2, <3>1, ToTakeUp DEF Steps
  <2>3. CASE ~(Exists(c) /\ IsWaiting(c))
    BY <1>1, <1>11, <2>1, <2>3 DEF RetryPick, Steps
  <2> QED
    BY <2>2, <2>3
<1>12. ASSUME NEW c \in Cve, DeleteCve(c) PROVE Life!Next
  <2>1. SetStatus(c, "ABSENT", FALSE) /\ UNCHANGED <<pc, vuln>>
    BY <1>12 DEF DeleteCve, run
  <2>2. status' = [status EXCEPT ![c] = "ABSENT"] /\ Sleeping' = Sleeping \ {c}
    BY <1>0, <2>1, Relabels
  <2>3. UNCHANGED <<Hand, Reached>>
    BY <2>1 DEF Hand, Reached
  <2>4. Life!Delete(c)
    BY <2>2, <2>3 DEF Life!Delete, Hand, Sleeping
  <2> QED
    BY <2>4 DEF Life!Next
<1> QED
  BY <1>2, <1>3, <1>4, <1>5, <1>6, <1>7, <1>8, <1>9, <1>10, <1>11, <1>12
     DEF PipeNext, EventStep, RetryStep, Elsewhere

(* The orchestrator keeps the lifecycle of statuses that state.py and      *)
(* PipelineStatus lay down, for any CVEs and whatever steps raise.         *)
THEOREM LifecycleKept == PipeSpec => RefinesLifecycle
<1>1. PipeInit => LiveInv
  BY DEF PipeInit, LiveInv
<1>2. PipeIInv /\ LiveInv /\ [PipeNext]_pipeVars => LiveInv'
  BY LiveStep DEF PipeIInv
<1>3. PipeIInv /\ LiveInv /\ [PipeNext]_pipeVars => [Life!Next]_(Life!lifecycle)
  BY LifeStep
<1> QED
  BY <1>1, <1>2, <1>3, LifeInit, PipeIndInv, PTL DEF PipeSpec, RefinesLifecycle, Life!Spec

-----------------------------------------------------------------------------
(* What WaitingIsRetried rests on, step by step: a CVE that sleeps keeps   *)
(* its label and its due time until it is enriched again, an error is      *)
(* written on it or its row goes; a retry starts with every sleeper that   *)
(* is due, takes up each one whose turn comes and still sleeps, and does   *)
(* not end before.                                                         *)
Disturbed(c) == (pc = "enrich" /\ vuln = c) \/ status'[c] \in {"ABSENT", "FAILED"}

SleepsOn ==
  \A c \in Cve : paused[c] /\ ~Disturbed(c) => paused'[c] /\ (due[c] => due'[c])

WokenInTurn ==
  /\ mode = "event" /\ mode' = "retry" => {c \in Cve : paused[c] /\ due[c]} \subseteq todo'
  /\ mode = "retry" /\ mode' = "event" /\ pc' # "down" => todo = {}
  /\ mode = "retry" /\ pc' # "down" =>
       \A c \in todo \ todo' : paused[c] => pc' = "enrich" /\ vuln' = c

(* Nothing happens to sleepers but to c, which may lose its label.         *)
LEMMA OthersSleepOn ==
  ASSUME PipeTypeOK, NEW c, NEW s, NEW wait \in BOOLEAN, SetStatus(c, s, wait),
         c \in Cve /\ paused[c] => Disturbed(c),
         \A d \in Cve \ {c} : due[d] => due'[d]
  PROVE  SleepsOn
<1>1. \A d \in Cve \ {c} : paused[d] => paused'[d]
  BY DEF SetStatus, PipeTypeOK
<1> QED
  BY <1>1 DEF SleepsOn

LEMMA SleepStep == ASSUME PipeIInv, [PipeNext]_pipeVars PROVE SleepsOn
<1>0. /\ PipeTypeOK
      /\ \A c \in Cve : paused[c] => waiting[c] /\ status[c] = "ENRICHED"
  BY DEF PipeIInv, PipeParts, PauseInv
<1>awake. live /\ pc \in {"extract", "match", "act", "recording"} => vuln \in Cve /\ ~paused[vuln]
  BY <1>0 DEF PipeIInv, PipeParts, StageInv, Steps
<1>1. ASSUME UNCHANGED <<paused, due>> PROVE SleepsOn
  BY <1>1 DEF SleepsOn
<1>2. ASSUME NEW S, NEW again, StartEvent(S, again) PROVE SleepsOn
  BY <1>1, <1>2 DEF StartEvent, rows
<1>3. ASSUME \/ ReadEvent \/ ReadNothing \/ ReadRaises \/ AbortEvent \/ FinishEvent
             \/ StartRetry \/ AbortRetry \/ RetryEnd \/ Crash \/ Restart
             \/ PurgeRun \/ ToggleEnrichment \/ UNCHANGED pipeVars
      PROVE  SleepsOn
  <2>1. UNCHANGED <<paused, due>>
    BY <1>3 DEF ReadEvent, ReadNothing, ReadRaises, AbortEvent, FinishEvent, StartRetry,
       AbortRetry, RetryEnd, Crash, Restart, PurgeRun, ToggleEnrichment, pipeVars, rows
  <2> QED
    BY <1>1, <2>1
<1>4. ASSUME NEW c \in Cve, AcceptKnown(c) \/ AcceptUpdated(c) \/ RetryPick(c) \/ Unlink(c)
      PROVE  SleepsOn
  <2>1. UNCHANGED <<paused, due>>
    BY <1>4 DEF AcceptKnown, AcceptUpdated, RetryPick, Unlink, rows
  <2> QED
    BY <1>1, <2>1
<1>5. ASSUME NEW c \in Cve, AcceptNew(c) PROVE SleepsOn
  <2>1. SetStatus(c, "INGESTED", FALSE) /\ ~paused[c] /\ due' = due
    BY <1>0, <1>5 DEF AcceptNew, Exists
  <2> QED
    BY <1>0, <2>1, OthersSleepOn
<1>6. ASSUME NEW c \in Cve, AcceptRaises(c) PROVE SleepsOn
  <2>1. CASE vuln = NoCve
    BY <1>1, <1>6, <2>1 DEF AcceptRaises
  <2>2. CASE vuln # NoCve
    <3>1. vuln \in Cve /\ SetStatus(vuln, "FAILED", FALSE) /\ due' = due
      BY <1>0, <1>6, <2>2 DEF AcceptRaises, PipeTypeOK
    <3>2. Disturbed(vuln)
      BY <1>0, <3>1 DEF SetStatus, Disturbed, PipeTypeOK
    <3> QED
      BY <1>0, <3>1, <3>2, OthersSleepOn
  <2> QED
    BY <2>1, <2>2
<1>7. CASE Extract \/ Record \/ ActQuietly \/ \E hit \in BOOLEAN : Match(hit)
  <2>1. /\ pc \in {"extract", "match", "act", "recording"} /\ live /\ due' = due
        /\ \E s : SetStatus(vuln, s, FALSE)
    BY <1>7 DEF Extract, Record, ActQuietly, Match, Step
  <2> QED
    BY <1>0, <1>awake, <2>1, OthersSleepOn
<1>8. CASE EnrichOff \/ EnrichGaps \/ EnrichFull
  <2>1. /\ Disturbed(vuln)
        /\ \E wait \in BOOLEAN : SetStatus(vuln, "ENRICHED", wait)
        /\ \A d \in Cve \ {vuln} : due'[d] = due[d]
    BY <1>0, <1>8 DEF EnrichOff, EnrichGaps, EnrichFull, Step, Disturbed, PipeTypeOK
  <2> QED
    BY <1>0, <2>1, OthersSleepOn
<1>9. CASE RaiseInEvent
  <2>1. SetStatus(vuln, "FAILED", FALSE) /\ vuln \in Cve /\ due' = due
    BY <1>0, <1>9 DEF RaiseInEvent, PipeTypeOK
  <2>2. Disturbed(vuln)
    BY <1>0, <2>1 DEF SetStatus, Disturbed, PipeTypeOK
  <2> QED
    BY <1>0, <2>1, <2>2, OthersSleepOn
<1>10. CASE OpenIssues \/ RaiseInRetry
  BY <1>1, <1>10 DEF OpenIssues, RaiseInRetry, rows
<1>11. ASSUME NEW c \in Cve, DeleteCve(c) PROVE SleepsOn
  <2>1. SetStatus(c, "ABSENT", FALSE) /\ \A d \in Cve \ {c} : due'[d] = due[d]
    BY <1>0, <1>11 DEF DeleteCve, PipeTypeOK
  <2>2. Disturbed(c)
    BY <1>0, <2>1 DEF SetStatus, Disturbed, PipeTypeOK
  <2> QED
    BY <1>0, <2>1, <2>2, OthersSleepOn
<1>12. ASSUME NEW c \in Cve, RetryTimeComes(c) PROVE SleepsOn
  BY <1>0, <1>12 DEF RetryTimeComes, SleepsOn, PipeTypeOK
<1>13. CASE StepDone
  BY <1>7, <1>8, <1>9, <1>10, <1>13 DEF StepDone
<1> QED
  BY <1>2, <1>3, <1>4, <1>5, <1>6, <1>11, <1>12, <1>13
     DEF PipeNext, EventStep, RetryStep, Elsewhere

(* The worker leaves a retry by its end or by a crash.                     *)
ModeInv == pc \in {"down", "idle", "reading", "after"} => mode = "event"

LEMMA ModeStep == ASSUME ModeInv, [PipeNext]_pipeVars PROVE ModeInv'
<1> USE DEF ModeInv
<1>1. ASSUME UNCHANGED <<pc, mode>> PROVE ModeInv'
  BY <1>1
<1>2. ASSUME NEW S, NEW again, StartEvent(S, again) PROVE ModeInv'
  BY <1>2 DEF StartEvent
<1>3. CASE EventStep
  <2>1. ASSUME NEW c \in Cve,
               AcceptNew(c) \/ AcceptKnown(c) \/ AcceptUpdated(c) \/ AcceptRaises(c)
        PROVE  mode = "event" /\ mode' = mode
    BY <2>1 DEF AcceptNew, AcceptKnown, AcceptUpdated, AcceptRaises, Accepting
  <2>2. CASE ReadEvent \/ ReadNothing \/ ReadRaises \/ AbortEvent \/ FinishEvent
    BY <2>2 DEF ReadEvent, ReadNothing, ReadRaises, AbortEvent, FinishEvent, run
  <2> QED
    BY <1>3, <2>1, <2>2 DEF EventStep
<1>4. CASE StepDone
  <2>1. pc' \in Steps \cup {"next"}
    BY <1>4 DEF StepDone, Extract, EnrichOff, EnrichGaps, EnrichFull, Match, OpenIssues, Record,
       ActQuietly, RaiseInEvent, RaiseInRetry, Steps
  <2> QED
    BY <2>1 DEF Steps
<1>5. CASE RetryStep
  BY <1>5 DEF RetryStep, StartRetry, AbortRetry, RetryEnd, RetryPick
<1>6. CASE Elsewhere
  BY <1>1, <1>6 DEF Elsewhere, PurgeRun, ToggleEnrichment, DeleteCve, Unlink, RetryTimeComes, run
<1>7. CASE Crash \/ Restart \/ UNCHANGED pipeVars
  BY <1>7 DEF Crash, Restart, run, pipeVars
<1> QED
  BY <1>2, <1>3, <1>4, <1>5, <1>6, <1>7 DEF PipeNext

LEMMA WakingStep == ASSUME PipeIInv, ModeInv, [PipeNext]_pipeVars PROVE WokenInTurn
<1>0. /\ PipeTypeOK
      /\ \A c \in Cve : paused[c] => waiting[c] /\ Exists(c)
  BY DEF PipeIInv, PipeParts, PauseInv, Exists
<1>1. ASSUME UNCHANGED <<mode, todo>> PROVE WokenInTurn
  BY <1>0, <1>1 DEF WokenInTurn, PipeTypeOK
<1>2. ASSUME mode = "event", mode' = "event" PROVE WokenInTurn
  BY <1>2 DEF WokenInTurn
<1>3. CASE Crash
  BY <1>3 DEF Crash, WokenInTurn
<1>4. CASE StartRetry
  <2>1. mode = "event" /\ {c \in Cve : paused[c] /\ due[c]} \subseteq todo'
    BY <1>4 DEF StartRetry, DueWaiting, ModeInv
  <2> QED
    BY <2>1 DEF WokenInTurn
<1>5. CASE RetryEnd
  BY <1>5 DEF RetryEnd, WokenInTurn
<1>6. ASSUME NEW c \in Cve, RetryPick(c) PROVE WokenInTurn
  <2>1. mode = "retry" /\ mode' = "retry" /\ todo \ todo' \subseteq {c}
    BY <1>6 DEF RetryPick
  <2>2. paused[c] => pc' = "enrich" /\ vuln' = c
    BY <1>0, <1>6 DEF RetryPick, IsWaiting
  <2> QED
    BY <2>1, <2>2 DEF WokenInTurn
<1>7. ASSUME NEW S, NEW again, StartEvent(S, again) PROVE WokenInTurn
  BY <1>2, <1>7 DEF StartEvent, ModeInv
<1>8. CASE EventStep
  <2>1. ASSUME NEW c \in Cve,
               AcceptNew(c) \/ AcceptKnown(c) \/ AcceptUpdated(c) \/ AcceptRaises(c)
        PROVE  mode = "event" /\ mode' = mode
    BY <2>1 DEF AcceptNew, AcceptKnown, AcceptUpdated, AcceptRaises, Accepting
  <2>2. CASE ReadEvent \/ ReadNothing \/ ReadRaises \/ AbortEvent \/ FinishEvent
    BY <1>1, <2>2 DEF ReadEvent, ReadNothing, ReadRaises, AbortEvent, FinishEvent, run
  <2> QED
    BY <1>2, <1>8, <2>1, <2>2 DEF EventStep
<1>9. CASE StepDone
  <2>1. UNCHANGED <<mode, todo>>
    BY <1>9 DEF StepDone, Extract, EnrichOff, EnrichGaps, EnrichFull, Match, OpenIssues, Record,
       ActQuietly, RaiseInEvent, RaiseInRetry, Step, run
  <2> QED
    BY <1>1, <2>1
<1>10. ASSUME AbortRetry \/ Restart \/ UNCHANGED pipeVars PROVE WokenInTurn
  <2>1. UNCHANGED <<mode, todo>>
    BY <1>10 DEF AbortRetry, Restart, run, pipeVars
  <2> QED
    BY <1>1, <2>1
<1>11. CASE Elsewhere
  <2>1. UNCHANGED <<mode, todo>>
    BY <1>11 DEF Elsewhere, PurgeRun, ToggleEnrichment, DeleteCve, Unlink, RetryTimeComes, run
  <2> QED
    BY <1>1, <2>1
<1> QED
  BY <1>3, <1>4, <1>5, <1>6, <1>7, <1>8, <1>9, <1>10, <1>11 DEF PipeNext, RetryStep

(* A CVE that waits for intel is not forgotten: nothing but its own        *)
(* enrichment, a recorded error or its deletion ends its sleep, and no     *)
(* retry passes it over.                                                   *)
THEOREM Sleepers == PipeSpec => [][SleepsOn /\ WokenInTurn]_pipeVars
<1>1. PipeIInv /\ ModeInv /\ [PipeNext]_pipeVars => [SleepsOn /\ WokenInTurn]_pipeVars
  BY SleepStep, WakingStep
<1>2. PipeInit => ModeInv
  BY DEF PipeInit, ModeInv
<1>3. ModeInv /\ [PipeNext]_pipeVars => ModeInv'
  BY ModeStep
<1> QED
  BY <1>1, <1>2, <1>3, PipeIndInv, PTL DEF PipeSpec
=============================================================================
