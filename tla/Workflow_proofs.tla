-------------------------- MODULE Workflow_proofs --------------------------
(***************************************************************************)
(* The labels of the pages are true of the pipeline's rows.  They rest on  *)
(* the invariants of Orchestrator_proofs, and on one more: a CVE waits     *)
(* only as an enriched or failed one, so that the retry's query finds it.  *)
(***************************************************************************)
EXTENDS Workflow, Orchestrator_proofs, FiniteSetTheorems

WaitStage == \A c \in Cve : waiting[c] => status[c] \in {"ENRICHED", "FAILED"}

LEMMA SetStatusOf ==
  ASSUME PipeTypeOK, NEW c \in Cve, NEW s, NEW w, SetStatus(c, s, w)
  PROVE  status'[c] = s /\ \A d \in Cve \ {c} : status'[d] = status[d]
  BY DEF PipeTypeOK, SetStatus

(* The actions that write a status, or the flag.                           *)
LEMMA WaitStageStep ==
  ASSUME PipeIInv, WaitStage, [PipeNext]_pipeVars PROVE WaitStage'
<1> USE DEF WaitStage
<1>1. PipeTypeOK /\ PauseInv /\ StageInv
  BY DEF PipeIInv, PipeParts
<1>2. CASE UNCHANGED <<status, waiting>>
  BY <1>2
<1>3. ASSUME NEW c \in Cve, AcceptNew(c) PROVE WaitStage'
  <2>1. ~waiting[c] /\ UNCHANGED waiting
    BY <1>1, <1>3 DEF AcceptNew, PauseInv
  <2> QED
    BY <1>1, <1>3, <2>1, SetStatusOf DEF AcceptNew
<1>4. ASSUME NEW c \in Cve, AcceptRaises(c) PROVE WaitStage'
  <2>1. CASE vuln = NoCve
    BY <1>2, <1>4, <2>1 DEF AcceptRaises
  <2>2. CASE vuln # NoCve
    BY <1>1, <1>4, <2>2, SetStatusOf DEF AcceptRaises, PipeTypeOK
  <2> QED
    BY <2>1, <2>2
<1>5. ASSUME pc \in Steps, live, NEW s, NEW w, SetStatus(vuln, s, w), UNCHANGED waiting,
             s = "FAILED" \/ s = "ENRICHED" \/ ~waiting[vuln]
      PROVE  WaitStage'
  <2>1. vuln \in Cve
    BY <1>1, <1>5 DEF StageInv
  <2> QED
    BY <1>1, <1>5, <2>1, SetStatusOf
<1>6. CASE Extract
  BY <1>1, <1>5, <1>6 DEF Extract, Step, Steps, StageInv
<1>7. CASE EnrichOff
  BY <1>1, <1>5, <1>7 DEF EnrichOff, Step, Steps
<1>8. CASE EnrichGaps \/ EnrichFull
  <2>1. vuln \in Cve /\ waiting \in [Cve -> BOOLEAN]
    BY <1>1, <1>8 DEF EnrichGaps, EnrichFull, Step, Steps, StageInv, PipeTypeOK
  <2>2. \A d \in Cve \ {vuln} : waiting'[d] = waiting[d]
    BY <1>8, <2>1 DEF EnrichGaps, EnrichFull
  <2>3. status'[vuln] = "ENRICHED" /\ \A d \in Cve \ {vuln} : status'[d] = status[d]
    BY <1>1, <1>8, <2>1, SetStatusOf DEF EnrichGaps, EnrichFull
  <2> QED
    BY <2>2, <2>3
<1>9. ASSUME NEW hit \in BOOLEAN, Match(hit) PROVE WaitStage'
  BY <1>1, <1>5, <1>9 DEF Match, Step, Steps, StageInv
<1>10. CASE Record
  BY <1>1, <1>5, <1>10 DEF Record, Step, Steps, StageInv
<1>11. CASE ActQuietly
  BY <1>1, <1>5, <1>11 DEF ActQuietly, Step, Steps, StageInv
<1>12. CASE RaiseInEvent
  BY <1>5, <1>12 DEF RaiseInEvent, Step
<1>13. ASSUME NEW c \in Cve, DeleteCve(c) PROVE WaitStage'
  <2>1. ~waiting'[c] /\ \A d \in Cve \ {c} : waiting'[d] = waiting[d] /\ status'[d] = status[d]
    BY <1>1, <1>13, SetStatusOf DEF DeleteCve, PipeTypeOK
  <2> QED
    BY <2>1
<1>14. \/ ReadEvent \/ ReadNothing \/ ReadRaises \/ OpenIssues \/ RaiseInRetry \/ AbortEvent
       \/ AbortRetry \/ FinishEvent \/ StartRetry \/ RetryEnd \/ PurgeRun \/ ToggleEnrichment
       \/ Crash \/ Restart \/ UNCHANGED pipeVars
       \/ \E S \in SUBSET Cve, again \in BOOLEAN : StartEvent(S, again)
       \/ \E c \in Cve : \/ AcceptKnown(c) \/ AcceptUpdated(c) \/ RetryPick(c)
                         \/ Unlink(c) \/ RetryTimeComes(c)
       => UNCHANGED <<status, waiting>>
  BY DEF ReadEvent, ReadNothing, ReadRaises, OpenIssues, RaiseInRetry, AbortEvent, AbortRetry,
         FinishEvent, StartRetry, RetryEnd, PurgeRun, ToggleEnrichment, Crash, Restart, pipeVars,
         StartEvent, AcceptKnown, AcceptUpdated, RetryPick, Unlink, RetryTimeComes, rows
<1> QED
  BY <1>2, <1>3, <1>4, <1>6, <1>7, <1>8, <1>9, <1>10, <1>11, <1>12, <1>13, <1>14
     DEF PipeNext, EventStep, StepDone, RetryStep, Elsewhere

LEMMA WaitStaged == PipeSpec => []WaitStage
<1>1. PipeInit => WaitStage
  BY DEF PipeInit, WaitStage
<1>2. PipeIInv /\ WaitStage /\ [PipeNext]_pipeVars => WaitStage'
  BY WaitStageStep
<1> QED
  BY <1>1, <1>2, PipeIndInv, PTL DEF PipeSpec

-----------------------------------------------------------------------------
LEMMA LiveIsMidway ==
  ASSUME PipeTypeOK, NEW c \in Rows, NEW intel \in BOOLEAN, Display(c, intel) = "live"
  PROVE  Midway(c)
<1>1. c \in Cve /\ status[c] \in CveStatus \ {"ABSENT"}
  BY DEF Rows, Exists, PipeTypeOK
<1>2. ~IsFailed(c) /\ ~IsWaiting(c) /\ ~Unmatched(c, intel) /\ Current(c, intel) # "none"
  BY DEF Display
<1>3. ~waiting[c] /\ EffectiveStatus(c) = Dashboard(status[c])
  BY <1>2 DEF IsWaiting, EffectiveStatus
<1>4. CASE status[c] \in {"INGESTED", "EXTRACTED", "ENRICHED"}
  BY <1>3, <1>4 DEF Midway
<1>5. CASE status[c] = "MATCHED"
  <2>1. Current(c, intel) = "match"
    BY <1>2, <1>3, <1>5 DEF Current, Cursor, StatusIndex, Dashboard, At
  <2> QED
    BY <1>2, <1>5, <2>1 DEF Unmatched, Midway
<1>6. CASE status[c] = "ACTIONED"
  BY <1>2, <1>3, <1>6 DEF Current, Cursor, StatusIndex, Dashboard, Unmatched
<1>7. CASE status[c] = "FAILED"
  BY <1>2, <1>3, <1>7 DEF IsFailed, Dashboard
<1> QED
  BY <1>1, <1>4, <1>5, <1>6, <1>7 DEF CveStatus

(* Whatever requests, errors and crashes made of a row: a CVE shown as in  *)
(* flight is in the worker's hand, or its run was cut short.               *)
THEOREM InFlight == PipeSpec => []InFlightIsWorked
<1>1. PipeIInv => InFlightIsWorked
  BY LiveIsMidway DEF PipeIInv, PipeParts, MidwayIsCut, InFlightIsWorked, Rows
<1> QED
  BY <1>1, PipeIndInv, PTL

LEMMA WaitingShown ==
  ASSUME PipeTypeOK, WaitStage, NEW c \in Rows, NEW intel \in BOOLEAN,
         Display(c, intel) = "waiting"
  PROVE  /\ due[c] => c \in DueWaiting
         /\ Journey(c, intel)["enrich"] = "waiting"
         /\ \A s \in {"match", "act"} : Journey(c, intel)[s] \in {"pending", "done"}
<1>1. c \in Cve /\ ~IsFailed(c) /\ IsWaiting(c)
  BY DEF Rows, Display
<1>2. due[c] => c \in DueWaiting
  <2>1. CASE paused[c]
    BY <1>1, <2>1 DEF DueWaiting
  <2>2. CASE ~paused[c]
    <3>1. waiting[c] /\ status[c] # "FAILED"
      BY <1>1, <2>2 DEF IsWaiting, IsFailed, EffectiveStatus, Dashboard
    <3> QED
      BY <1>1, <3>1 DEF WaitStage, DueWaiting
  <2> QED
    BY <2>1, <2>2
<1>3. Current(c, intel) = "enrich" /\ ~Unmatched(c, intel)
  <2>1. Cursor(c, intel) # 5
    BY <1>1 DEF Cursor
  <2> QED
    BY <1>1, <2>1 DEF Current, Unmatched
<1> QED
  BY <1>1, <1>2, <1>3 DEF Journey, Station

(* A CVE shown as waiting is one the retry's query finds in its time.      *)
THEOREM Waiting == PipeSpec => []WaitingIsTrue
<1>1. PipeIInv /\ WaitStage => WaitingIsTrue
  BY WaitingShown DEF PipeIInv, WaitingIsTrue
<1> QED
  BY <1>1, PipeIndInv, WaitStaged, PTL

-----------------------------------------------------------------------------
LEMMA FailedIsLive ==
  ASSUME NEW c, NEW intel \in BOOLEAN, IsFailed(c) PROVE Current(c, intel) # "none"
<1>1. Cursor(c, intel) # 5
  BY DEF IsFailed, Cursor
<1> QED
  BY <1>1 DEF Current, At

LEMMA FourParts ==
  ASSUME NEW R, IsFiniteSet(R), NEW A \in SUBSET R, NEW B \in SUBSET R, NEW C \in SUBSET R,
         NEW D \in SUBSET R, A \cup B \cup C \cup D = R,
         A \cap B = {}, (A \cup B) \cap C = {}, (A \cup B \cup C) \cap D = {}
  PROVE  Cardinality(A) + Cardinality(B) + Cardinality(C) + Cardinality(D) = Cardinality(R)
<1>1. IsFiniteSet(A) /\ IsFiniteSet(B) /\ IsFiniteSet(C) /\ IsFiniteSet(D)
  BY FS_Subset
<1>2. \A S, T : IsFiniteSet(S) /\ IsFiniteSet(T) /\ S \cap T = {} =>
                  /\ IsFiniteSet(S \cup T)
                  /\ Cardinality(S \cup T) = Cardinality(S) + Cardinality(T)
  <2> SUFFICES ASSUME NEW S, NEW T, IsFiniteSet(S), IsFiniteSet(T), S \cap T = {}
               PROVE  /\ IsFiniteSet(S \cup T)
                      /\ Cardinality(S \cup T) = Cardinality(S) + Cardinality(T)
    OBVIOUS
  <2>1. /\ IsFiniteSet(S \cup T)
        /\ Cardinality(S \cup T) = Cardinality(S) + Cardinality(T) - Cardinality(S \cap T)
    BY FS_Union
  <2>2. Cardinality(S \cap T) = 0 /\ Cardinality(S) \in Nat /\ Cardinality(T) \in Nat
    BY FS_EmptySet, FS_CardinalityType
  <2> QED
    BY <2>1, <2>2
<1>3. /\ IsFiniteSet(A \cup B)
      /\ Cardinality(A \cup B) = Cardinality(A) + Cardinality(B)
  BY <1>1, <1>2
<1>4. /\ IsFiniteSet(A \cup B \cup C)
      /\ Cardinality(A \cup B \cup C) = Cardinality(A \cup B) + Cardinality(C)
  BY <1>1, <1>2, <1>3
<1>5. Cardinality(A \cup B \cup C \cup D) = Cardinality(A \cup B \cup C) + Cardinality(D)
  BY <1>1, <1>2, <1>4
<1> QED
  BY <1>3, <1>4, <1>5

(* The cubes add up for any finite set of CVEs, in every state the         *)
(* functions of workflow.py may be asked about.                            *)
THEOREM Cubes == ASSUME IsFiniteSet(Cve) PROVE PipeSpec => []CubesAddUp
<1>1. CubesAddUp
  <2> SUFFICES ASSUME NEW I \in SUBSET Rows
               PROVE  LET n == Counted(I)
                      IN  /\ Cardinality(n.failed) + Cardinality(n.unmatched)
                               + Cardinality(n.completed) + Cardinality(n.inflight)
                               = Cardinality(Rows)
                          /\ n.failed \cup n.unmatched \cup n.completed \cup n.inflight = Rows
                          /\ n.enriched \cup n.waiting \subseteq EnrichmentPage(I)
                          /\ n.matched \cup n.unmatched \subseteq MatchingPage(I)
                          /\ n.acting \cup n.actioned \subseteq ActionsPage(I)
    BY DEF CubesAddUp
  <2> DEFINE F == {c \in Rows : IsFailed(c)}
             U == {c \in Rows : Unmatched(c, c \in I)}
             C == {c \in Rows : Current(c, c \in I) = "none"}
             L == {c \in Rows : Current(c, c \in I) # "none" /\ ~Terminal(c, c \in I)}
  <2>1. /\ Counted(I).failed = F /\ Counted(I).unmatched = U
        /\ Counted(I).completed = C /\ Counted(I).inflight = L
    BY DEF Counted
  <2>2. IsFiniteSet(Rows)
    BY FS_Subset DEF Rows
  <2>3. F \cap U = {} /\ U \cap C = {}
    BY DEF Unmatched
  <2>4. F \cap C = {}
    <3>1. \A c \in Rows : (c \in I) \in BOOLEAN
      OBVIOUS
    <3> QED
      BY <3>1, FailedIsLive
  <2>5. (F \cup U \cup C) \cap L = {} /\ F \cup U \cup C \cup L = Rows
    BY DEF Terminal
  <2>6. Cardinality(F) + Cardinality(U) + Cardinality(C) + Cardinality(L) = Cardinality(Rows)
    <3> HIDE DEF F, U, C, L
    <3>1. F \in SUBSET Rows /\ U \in SUBSET Rows /\ C \in SUBSET Rows /\ L \in SUBSET Rows
      BY DEF F, U, C, L
    <3> QED
      BY <2>2, <2>3, <2>4, <2>5, <3>1, FourParts
  <2>7. /\ Counted(I).enriched \cup Counted(I).waiting \subseteq EnrichmentPage(I)
        /\ Counted(I).matched \cup U \subseteq MatchingPage(I)
        /\ Counted(I).acting \cup Counted(I).actioned \subseteq ActionsPage(I)
    BY DEF Counted, EnrichmentPage, MatchingPage, ActionsPage
  <2> QED
    BY <2>1, <2>5, <2>6, <2>7
<1> QED
  BY <1>1, PTL
=============================================================================
