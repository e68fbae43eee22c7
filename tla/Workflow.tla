------------------------------ MODULE Workflow ------------------------------
(***************************************************************************)
(* What the pages say of a CVE (app/services/workflow.py and the stage     *)
(* pages of app/api/pipeline.py).  Nothing of it is stored: the station, the *)
(* label and the counts are worked out from the row, its links and its     *)
(* tickets each time, whatever point the pipeline has left them at.        *)
(***************************************************************************)
EXTENDS Orchestrator, FiniteSets

Station == {"ingest", "extract", "enrich", "match", "act"}

(* _DASHBOARD_STATUS of a status; _ENUM_TO_PIPELINE is the same table.     *)
Dashboard(s) == CASE s = "INGESTED" -> "ingested"
                  [] s = "EXTRACTED" -> "extracting"
                  [] s = "ENRICHED" -> "enriching"
                  [] s = "MATCHED" -> "matching"
                  [] s = "ACTIONED" -> "completed"
                  [] OTHER -> "failed"

(* _STATUS_INDEX; "failed" has none.                                       *)
StatusIndex(raw) == CASE raw = "ingested" -> 0
                      [] raw = "extracting" -> 1
                      [] raw \in {"enriching", "waiting_enrichment"} -> 2
                      [] raw = "matching" -> 3
                      [] OTHER -> 5

EffectiveStatus(c) == IF paused[c] THEN "waiting_enrichment" ELSE Dashboard(status[c])

(* How far the CVE has come.  A failed one is placed by what it has.       *)
Cursor(c, intel) ==
  LET raw == EffectiveStatus(c)
      far == CASE raw # "failed" -> StatusIndex(raw)
               [] raw = "failed" /\ tickets[c] -> 4
               [] raw = "failed" /\ ~tickets[c] /\ links[c] -> 3
               [] OTHER -> IF intel THEN 2 ELSE 0
  IN  IF IsWaiting(c) /\ far > 2 THEN 2 ELSE far

At(n) == CASE n = 0 -> "ingest" [] n = 1 -> "extract" [] n = 2 -> "enrich"
           [] n = 3 -> "match" [] OTHER -> "act"

(* workflow_progress, for a row with scores or with enrichment skipped     *)
(* (intel), or with neither.  The live station; "none": the CVE is through. *)
Current(c, intel) ==
  LET n == Cursor(c, intel)
  IN  CASE n = 5 /\ (links[c] \/ tickets[c]) -> "none"
        [] n = 5 /\ ~links[c] /\ ~tickets[c] -> "match"
        [] OTHER -> IF IsWaiting(c) THEN "enrich" ELSE At(n)

Done(c, intel) ==
  LET n == Cursor(c, intel)
  IN  {s \in Station : \/ s = "ingest" /\ n >= 1
                       \/ s = "extract" /\ n >= 2
                       \/ s = "enrich" /\ n >= 3 /\ intel /\ ~IsWaiting(c)
                       \/ s = "match" /\ links[c] /\ (n >= 3 \/ tickets[c])
                       \/ s = "act" /\ tickets[c]}

IsFailed(c) == EffectiveStatus(c) = "failed"

(* Mutant: a CVE whose asset was removed still counts as on its way.       *)
UnmatchedOnce(c, intel) ==
  /\ Current(c, intel) = "match" /\ status[c] = "MATCHED"
  /\ ~links[c] /\ ~IsWaiting(c) /\ ~IsFailed(c)

Unmatched(c, intel) ==
  /\ Current(c, intel) = "match"
  /\ ~links[c] /\ ~IsWaiting(c) /\ ~IsFailed(c)

(* Mutant: nobody has a system the CVE is for, and it still is on its way. *)
TerminalMatched(c, intel) == Current(c, intel) = "none" \/ IsFailed(c)

Terminal(c, intel) == Current(c, intel) = "none" \/ Unmatched(c, intel) \/ IsFailed(c)

(* Mutant: waiting is looked at first.                                     *)
DisplayWaitingFirst(c, intel) ==
  CASE IsWaiting(c) -> "waiting"
    [] ~IsWaiting(c) /\ IsFailed(c) -> "failed"
    [] OTHER -> IF Unmatched(c, intel) THEN "unmatched"
                ELSE IF Current(c, intel) = "none" THEN "completed" ELSE "live"

(* display_state: the label of the run, on every page.                     *)
Display(c, intel) ==
  CASE IsFailed(c) -> "failed"
    [] ~IsFailed(c) /\ IsWaiting(c) -> "waiting"
    [] OTHER -> IF Unmatched(c, intel) THEN "unmatched"
                ELSE IF Current(c, intel) = "none" THEN "completed" ELSE "live"

(* station_journey: the state of each station on the CVE's own page.       *)
Journey(c, intel) ==
  [s \in Station |->
     CASE IsFailed(c) /\ Current(c, intel) = s -> "failed"
       [] s = "enrich" /\ IsWaiting(c) /\ ~(IsFailed(c) /\ Current(c, intel) = s) -> "waiting"
       [] s = "match" /\ Unmatched(c, intel) -> "miss"
       [] OTHER -> IF s \in Done(c, intel) THEN "done"
                   ELSE IF Current(c, intel) = s THEN "live" ELSE "pending"]

-----------------------------------------------------------------------------
(* The KPI cubes (count_workflow_states), as the sets they count.  I are   *)
(* the rows with scores or skipped.                                        *)

Rows == {c \in Cve : Exists(c)}
Counted(I) ==
  [failed |-> {c \in Rows : IsFailed(c)},
   unmatched |-> {c \in Rows : Unmatched(c, c \in I)},
   completed |-> {c \in Rows : Current(c, c \in I) = "none"},
   inflight |-> {c \in Rows : Current(c, c \in I) # "none" /\ ~Terminal(c, c \in I)},
   matched |-> {c \in Rows : "match" \in Done(c, c \in I)},
   enriched |-> {c \in Rows : "enrich" \in Done(c, c \in I)},
   acting |-> {c \in Rows : Current(c, c \in I) = "act" /\ ~IsFailed(c)},
   actioned |-> {c \in Rows : "act" \in Done(c, c \in I) /\ Current(c, c \in I) = "none"},
   waiting |-> {c \in Rows : IsWaiting(c)}]

(* The rows of the stage pages.                                            *)
EnrichmentPage(I) ==
  {c \in Rows : \/ IsWaiting(c) \/ Current(c, c \in I) = "enrich"
                \/ "extract" \in Done(c, c \in I) \/ "enrich" \in Done(c, c \in I)}
MatchingPage(I) ==
  {c \in Rows : \/ Unmatched(c, c \in I) \/ Current(c, c \in I) \in {"match", "act", "none"}
                \/ "match" \in Done(c, c \in I)}
ActionsPage(I) ==
  {c \in Rows : Current(c, c \in I) \in {"act", "none"} \/ "act" \in Done(c, c \in I)}

-----------------------------------------------------------------------------
(* "In flight" is said only of a CVE that the worker has in hand, or whose *)
(* run was cut short: rows that were unlinked, failed, skipped or fed      *)
(* again are labelled by where they ended.                                 *)
InFlightIsWorked ==
  \A c \in Rows, intel \in BOOLEAN :
    Display(c, intel) = "live" => InWork(c) \/ c \in cut

(* "Waiting for intel" is said only of a CVE that the retry looks up when  *)
(* its time comes; its journey stands still at enrichment, with matching   *)
(* and actions not under way.                                              *)
WaitingIsTrue ==
  \A c \in Rows, intel \in BOOLEAN :
    Display(c, intel) = "waiting" =>
      /\ due[c] => c \in DueWaiting
      /\ Journey(c, intel)["enrich"] = "waiting"
      /\ \A s \in {"match", "act"} : Journey(c, intel)[s] \in {"pending", "done"}

(* The cubes failed, unmatched, completed and in flight count every CVE    *)
(* once, and a stage page lists every CVE its cubes count.                 *)
CubesAddUp ==
  \A I \in SUBSET Rows :
    LET n == Counted(I)
    IN  /\ Cardinality(n.failed) + Cardinality(n.unmatched) + Cardinality(n.completed)
             + Cardinality(n.inflight) = Cardinality(Rows)
        /\ n.failed \cup n.unmatched \cup n.completed \cup n.inflight = Rows
        /\ n.enriched \cup n.waiting \subseteq EnrichmentPage(I)
        /\ n.matched \cup n.unmatched \subseteq MatchingPage(I)
        /\ n.acting \cup n.actioned \subseteq ActionsPage(I)
=============================================================================
