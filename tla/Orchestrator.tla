---------------------------- MODULE Orchestrator ----------------------------
(***************************************************************************)
(* The five-step pipeline (app/pipeline/orchestrator.py, state.py and      *)
(* step1 to step5) for one event at a time, with the retry of CVEs that    *)
(* wait for enrichment (app/workers/queue.py) and what HTTP requests do to *)
(* the same rows meanwhile.                                                *)
(*                                                                         *)
(* A step runs from one commit to the next.  Its first statement flushes   *)
(* an audit row, which takes SQLite's write lock until the commit: other   *)
(* writers come between two steps, never inside one.  A crash may come     *)
(* inside: the step is lost but for the issues it opened elsewhere, which  *)
(* is why opening and recording them are two actions.                      *)
(***************************************************************************)
EXTENDS Naturals

CONSTANTS Cve,         \* CVE ids
          NoCve,
          Raising,     \* the steps whose code may raise in this instance
          MaxIssues    \* bound: issues opened for one CVE

Steps == {"extract", "enrich", "match", "act", "recording"}

ASSUME PipelineAssumption == /\ NoCve \notin Cve
                             /\ Raising \subseteq {"read", "accept"} \cup Steps
                             /\ MaxIssues \in Nat \ {0}

VARIABLES
  enrichOn,  \* the setting ENRICHMENT_ENABLED
  status,    \* durable: vulnerabilities.status, "ABSENT" without a row
  paused,    \* durable: pipeline_status = "waiting_enrichment"
  waiting,   \* durable: the "waiting" flag in the enrichment blob
  due,       \* durable: the blob's retry_at is over
  links,     \* durable: the CVE has AssetMatch rows
  tickets,   \* durable: the CVE has ticket rows
  opened,    \* outside: how many times its issues were opened
  pc,        \* where the worker stands
  mode,      \* "event": in run_event; "retry": in _retry_waiting_enrichment
  todo,      \* the CVEs of the event, or the ids of the retry, still to come
  vuln,      \* run_event's variable of that name: the row last accepted
  kept,      \* kept_any
  refresh,   \* the event comes from a feed or a rerun: known CVEs run again
  live,      \* the PipelineRun row, and the row of vuln, still exist
  cut,       \* history: CVEs whose run was cut short by a crash or an error
             \* that was not recorded on them
  forgot     \* history: CVEs whose opened issues the database forgot

rows == <<status, paused, waiting, due, links, tickets>>
run == <<mode, todo, vuln, kept, refresh>>
history == <<cut, forgot>>
pipeVars == <<enrichOn, rows, opened, pc, run, live, history>>

CveStatus == {"ABSENT", "INGESTED", "EXTRACTED", "ENRICHED", "MATCHED", "ACTIONED", "FAILED"}

(* "reading": run_event up to its loop over the CVEs.  "next": between     *)
(* two CVEs.  "after": run_event is over, the retry comes before the next  *)
(* event.  The steps are named as in the source; "recording": issues are   *)
(* open, their rows are not committed.                                     *)
Control == {"down", "idle", "reading", "next", "after"} \cup Steps

Exists(c) == status[c] # "ABSENT"
IsWaiting(c) == waiting[c] \/ paused[c]

(* Mutant: the label of the compatibility column ends up in both.          *)
SetStatusLabel(c, s, wait) ==
  /\ status' = [status EXCEPT ![c] = IF wait THEN "WAITING_ENRICHMENT" ELSE s]
  /\ paused' = [paused EXCEPT ![c] = wait]

(* Mutant: the two columns drift.                                          *)
SetStatusDrift(c, s, wait) == /\ status' = [status EXCEPT ![c] = s]
                              /\ paused' = [paused EXCEPT ![c] = @ \/ wait]

(* apply_status: status and pipeline_status are written together.          *)
SetStatus(c, s, wait) == /\ status' = [status EXCEPT ![c] = s]
                         /\ paused' = [paused EXCEPT ![c] = wait]

-----------------------------------------------------------------------------
PipeInit ==
  /\ enrichOn = TRUE
  /\ status = [c \in Cve |-> "ABSENT"]
  /\ paused = [c \in Cve |-> FALSE]
  /\ waiting = [c \in Cve |-> FALSE]
  /\ due = [c \in Cve |-> FALSE]
  /\ links = [c \in Cve |-> FALSE]
  /\ tickets = [c \in Cve |-> FALSE]
  /\ opened = [c \in Cve |-> 0]
  /\ pc = "down"
  /\ mode = "event"
  /\ todo = {}
  /\ vuln = NoCve
  /\ kept = FALSE
  /\ refresh = FALSE
  /\ live = TRUE
  /\ cut = {}
  /\ forgot = {}

-----------------------------------------------------------------------------
(* The variables of run_event and of the retry die with their frame.       *)
FrameGone == /\ vuln' = NoCve
             /\ kept' = FALSE
             /\ refresh' = FALSE
             /\ live' = TRUE

(* run_event, up to the loop over the event's CVEs.                        *)

(* The event is loaded once: what its row says later is not looked at.  S  *)
(* are the CVE ids in it, again its feed_url or _refresh mark.             *)
StartEvent(S, again) ==
  /\ pc = "idle"
  /\ todo' = S
  /\ refresh' = again
  /\ pc' = "reading"
  /\ UNCHANGED <<enrichOn, rows, opened, mode, vuln, kept, live, history>>

(* The commit after extract_from_event.                                    *)
ReadEvent ==
  /\ pc = "reading"
  /\ live
  /\ todo # {}
  /\ pc' = "next"
  /\ UNCHANGED <<enrichOn, rows, opened, run, live, history>>

(* No complete CVE id: the event is deleted.                               *)
ReadNothing ==
  /\ pc = "reading"
  /\ live
  /\ todo = {}
  /\ pc' = "after"
  /\ UNCHANGED <<enrichOn, rows, opened, run, live, history>>

(* The outer except: the event is marked failed, there is no CVE to mark.  *)
ReadRaises ==
  /\ pc = "reading"
  /\ live
  /\ "read" \in Raising
  /\ pc' = "after"
  /\ UNCHANGED <<enrichOn, rows, opened, run, live, history>>

-----------------------------------------------------------------------------
(* accept_cve, and the commit that ties the run to the row.                *)

Accepting(c) ==
  /\ pc = "next"
  /\ mode = "event"
  /\ live
  /\ c \in todo
  /\ todo' = todo \ {c}

AcceptNew(c) ==
  /\ Accepting(c)
  /\ ~Exists(c)
  /\ SetStatus(c, "INGESTED", FALSE)
  /\ vuln' = c
  /\ kept' = TRUE
  /\ pc' = "extract"
  /\ UNCHANGED <<enrichOn, waiting, due, links, tickets, opened, mode, refresh,
                 live, history>>

AcceptKnown(c) ==
  /\ Accepting(c)
  /\ Exists(c)
  /\ ~refresh
  /\ vuln' = c
  /\ UNCHANGED <<enrichOn, rows, opened, pc, mode, kept, refresh, live, history>>

(* Mutant: a known CVE goes on to matching at once.                        *)
AcceptAsEnriched(c) ==
  /\ Accepting(c)
  /\ Exists(c)
  /\ refresh
  /\ vuln' = c
  /\ kept' = TRUE
  /\ pc' = "match"
  /\ cut' = cut \ {c}
  /\ UNCHANGED <<enrichOn, rows, opened, mode, refresh, live, forgot>>

AcceptUpdated(c) ==
  /\ Accepting(c)
  /\ Exists(c)
  /\ refresh
  /\ vuln' = c
  /\ kept' = TRUE
  /\ pc' = "enrich"
  /\ cut' = cut \ {c}
  /\ UNCHANGED <<enrichOn, rows, opened, mode, refresh, live, forgot>>

(* fail_vulnerability on whatever row the variable vuln still holds: the   *)
(* one accepted before c, or none.                                         *)
AcceptRaises(c) ==
  /\ "accept" \in Raising
  /\ Accepting(c)
  /\ IF vuln = NoCve THEN UNCHANGED <<status, paused>>
                     ELSE SetStatus(vuln, "FAILED", FALSE)
  /\ UNCHANGED <<enrichOn, waiting, due, links, tickets, opened, pc, mode, vuln, kept,
                 refresh, live, history>>

-----------------------------------------------------------------------------
(* The steps.                                                              *)

Step(s) == /\ pc = s
           /\ live
           /\ UNCHANGED <<enrichOn, run, live>>

Extract ==
  /\ Step("extract")
  /\ SetStatus(vuln, "EXTRACTED", FALSE)
  /\ pc' = "enrich"
  /\ UNCHANGED <<waiting, due, links, tickets, opened, history>>

(* Mutant: with enrichment off the step always goes on to matching.        *)
EnrichOffGoesOn ==
  /\ Step("enrich")
  /\ ~enrichOn
  /\ SetStatus(vuln, "ENRICHED", FALSE)
  /\ pc' = "match"
  /\ UNCHANGED <<waiting, due, links, tickets, opened, history>>

(* Enrichment is off: the blob is marked skipped, and nothing else in it   *)
(* changes.  A CVE that was waiting still counts as waiting.               *)
EnrichOff ==
  /\ Step("enrich")
  /\ ~enrichOn
  /\ SetStatus(vuln, "ENRICHED", FALSE)
  /\ pc' = IF waiting[vuln] THEN "next" ELSE "match"
  /\ UNCHANGED <<waiting, due, links, tickets, opened, history>>

(* NVD or EPSS left a gap: back off, match and tickets wait.               *)
EnrichGaps ==
  /\ Step("enrich")
  /\ enrichOn
  /\ SetStatus(vuln, "ENRICHED", TRUE)
  /\ waiting' = [waiting EXCEPT ![vuln] = TRUE]
  /\ due' = [due EXCEPT ![vuln] = FALSE]
  /\ pc' = "next"
  /\ UNCHANGED <<links, tickets, opened, history>>

EnrichFull ==
  /\ Step("enrich")
  /\ enrichOn
  /\ SetStatus(vuln, "ENRICHED", FALSE)
  /\ waiting' = [waiting EXCEPT ![vuln] = FALSE]
  /\ due' = [due EXCEPT ![vuln] = FALSE]
  /\ pc' = "match"
  /\ UNCHANGED <<links, tickets, opened, history>>

Match(hit) ==
  /\ Step("match")
  /\ SetStatus(vuln, "MATCHED", FALSE)
  /\ links' = [links EXCEPT ![vuln] = hit]
  /\ pc' = IF hit THEN "act" ELSE "next"
  /\ UNCHANGED <<waiting, due, tickets, opened, history>>

(* Mutant: nobody looks for tickets that exist.                            *)
OpenIssuesAgain ==
  /\ Step("act")
  /\ opened[vuln] < MaxIssues
  /\ opened' = [opened EXCEPT ![vuln] = @ + 1]
  /\ pc' = "recording"
  /\ UNCHANGED <<rows, history>>

(* take_action finds the row of every issue it would open, or of none: one *)
(* provider other than the internal CRM, settings and owners unchanged.    *)
(* Ticketing has the step in full.                                         *)
OpenIssues ==
  /\ Step("act")
  /\ ~tickets[vuln]
  /\ opened[vuln] < MaxIssues
  /\ opened' = [opened EXCEPT ![vuln] = @ + 1]
  /\ pc' = "recording"
  /\ UNCHANGED <<rows, history>>

Record ==
  /\ Step("recording")
  /\ SetStatus(vuln, "ACTIONED", FALSE)
  /\ tickets' = [tickets EXCEPT ![vuln] = TRUE]
  /\ pc' = "next"
  /\ UNCHANGED <<waiting, due, links, opened, history>>

(* Every ticket exists, no provider is on, or nobody may be written to.    *)
ActQuietly ==
  /\ Step("act")
  /\ SetStatus(vuln, "ACTIONED", FALSE)
  /\ pc' = "next"
  /\ UNCHANGED <<waiting, due, links, tickets, opened, history>>

(* Mutant: the error is logged only.                                       *)
RaiseUnmarked ==
  /\ pc \in Raising \cap Steps
  /\ Step(pc)
  /\ mode = "event"
  /\ pc' = "next"
  /\ UNCHANGED <<rows, opened, history>>

(* An error in run_event: fail_vulnerability commits, and with FAILED the  *)
(* ticket rows take_action had added.                                      *)
RaiseInEvent ==
  /\ pc \in Raising \cap Steps
  /\ Step(pc)
  /\ mode = "event"
  /\ SetStatus(vuln, "FAILED", FALSE)
  /\ tickets' = [tickets EXCEPT ![vuln] = @ \/ pc = "recording"]
  /\ pc' = "next"
  /\ UNCHANGED <<waiting, due, links, opened, history>>

(* An error in a retry: the loop logs it and the session is rolled back.   *)
RaiseInRetry ==
  /\ pc \in Raising \cap Steps
  /\ Step(pc)
  /\ mode = "retry"
  /\ pc' = "next"
  /\ cut' = cut \cup {vuln}
  /\ forgot' = IF pc = "recording" THEN forgot \cup {vuln} ELSE forgot
  /\ UNCHANGED <<rows, opened>>

(* The run's row or the CVE's row is gone: the next flush fails, and then  *)
(* so does every use of the session, fail_vulnerability's included.  In    *)
(* run_event the error reaches the worker and the event stays where it is. *)
AbortEvent ==
  /\ mode = "event"
  /\ pc \in {"reading", "next"} \cup Steps
  /\ ~live
  /\ pc' = "after"
  /\ cut' = IF pc \in Steps THEN cut \cup {vuln} ELSE cut
  /\ UNCHANGED <<enrichOn, rows, opened, run, live, forgot>>

AbortRetry ==
  /\ mode = "retry"
  /\ pc \in Steps
  /\ ~live
  /\ pc' = "next"
  /\ UNCHANGED <<enrichOn, rows, opened, run, live, history>>

-----------------------------------------------------------------------------
(* The end of run_event.                                                   *)

FinishEvent ==
  /\ pc = "next"
  /\ mode = "event"
  /\ live
  /\ todo = {}
  /\ pc' = "after"
  /\ UNCHANGED <<enrichOn, rows, opened, run, live, history>>

-----------------------------------------------------------------------------
(* _retry_waiting_enrichment, after every event and whenever idle.         *)

(* Mutant: the query for pipeline_status = "waiting_enrichment" is lost.   *)
DueUnflagged == {c \in Cve : /\ status[c] \in {"EXTRACTED", "ENRICHED"} /\ waiting[c]
                             /\ ~paused[c]
                             /\ due[c]}

DueWaiting == {c \in Cve : /\ paused[c] \/ (status[c] \in {"EXTRACTED", "ENRICHED"} /\ waiting[c])
                           /\ due[c]}

StartRetry ==
  /\ pc \in {"idle", "after"}
  /\ mode' = "retry"
  /\ todo' = DueWaiting
  /\ FrameGone
  /\ pc' = "next"
  /\ UNCHANGED <<enrichOn, rows, opened, history>>

(* The row is read again: it may be gone or no longer wait.                *)
RetryPick(c) ==
  /\ pc = "next"
  /\ mode = "retry"
  /\ c \in todo
  /\ todo' = todo \ {c}
  /\ IF Exists(c) /\ IsWaiting(c)
       THEN vuln' = c /\ live' = TRUE /\ pc' = "enrich" /\ cut' = cut \ {c}
       ELSE UNCHANGED <<vuln, live, pc, cut>>
  /\ UNCHANGED <<enrichOn, rows, opened, mode, kept, refresh, forgot>>

RetryEnd ==
  /\ pc = "next"
  /\ mode = "retry"
  /\ todo = {}
  /\ pc' = "idle"
  /\ mode' = "event"
  /\ FrameGone
  /\ UNCHANGED <<enrichOn, rows, opened, todo, history>>

-----------------------------------------------------------------------------
(* Everybody else.                                                         *)

(* delete_incoming_cves: the row, its links, its tickets, its runs.  Not   *)
(* while a step holds the write lock.                                      *)
DeleteCve(c) ==
  /\ pc \notin {"down", "recording"}
  /\ Exists(c)
  /\ SetStatus(c, "ABSENT", FALSE)
  /\ waiting' = [waiting EXCEPT ![c] = FALSE]
  /\ due' = [due EXCEPT ![c] = FALSE]
  /\ links' = [links EXCEPT ![c] = FALSE]
  /\ tickets' = [tickets EXCEPT ![c] = FALSE]
  /\ live' = (live /\ vuln # c)
  /\ cut' = cut \ {c}
  /\ forgot' = IF opened[c] > 0 THEN forgot \cup {c} ELSE forgot
  /\ UNCHANGED <<enrichOn, opened, pc, run>>

(* The event is purged, and its PipelineRun with it.                       *)
PurgeRun ==
  /\ mode = "event"
  /\ pc \in {"reading", "next"} \cup (Steps \ {"recording"})
  /\ live' = FALSE
  /\ UNCHANGED <<enrichOn, rows, opened, pc, run, history>>

(* delete_assets and wipe_internal_systems drop the links to an asset.     *)
Unlink(c) ==
  /\ pc \notin {"down", "recording"}
  /\ links[c]
  /\ links' = [links EXCEPT ![c] = FALSE]
  /\ UNCHANGED <<enrichOn, status, paused, waiting, due, tickets, opened, pc, run, live,
                 history>>

ToggleEnrichment ==
  /\ pc # "down"
  /\ enrichOn' = ~enrichOn
  /\ UNCHANGED <<rows, opened, pc, run, live, history>>

RetryTimeComes(c) ==
  /\ waiting[c]
  /\ ~due[c]
  /\ due' = [due EXCEPT ![c] = TRUE]
  /\ UNCHANGED <<enrichOn, status, paused, waiting, links, tickets, opened, pc, run, live,
                 history>>

Crash ==
  /\ pc # "down"
  /\ pc' = "down"
  /\ cut' = IF pc \in Steps THEN cut \cup {vuln} ELSE cut
  /\ forgot' = IF pc = "recording" THEN forgot \cup {vuln} ELSE forgot
  /\ mode' = "event"
  /\ todo' = {}
  /\ FrameGone
  /\ UNCHANGED <<enrichOn, rows, opened>>

Restart ==
  /\ pc = "down"
  /\ pc' = "idle"
  /\ UNCHANGED <<enrichOn, rows, opened, run, live, history>>

-----------------------------------------------------------------------------
StepDone ==
  \/ Extract \/ EnrichOff \/ EnrichGaps \/ EnrichFull
  \/ \E hit \in BOOLEAN : Match(hit)
  \/ OpenIssues \/ Record \/ ActQuietly
  \/ RaiseInEvent \/ RaiseInRetry

EventStep ==
  \/ ReadEvent \/ ReadNothing \/ ReadRaises \/ AbortEvent \/ FinishEvent
  \/ \E c \in Cve : \/ AcceptNew(c) \/ AcceptKnown(c)
                    \/ AcceptUpdated(c) \/ AcceptRaises(c)

RetryStep ==
  \/ StartRetry \/ AbortRetry \/ RetryEnd
  \/ \E c \in Cve : RetryPick(c)

Elsewhere ==
  \/ PurgeRun \/ ToggleEnrichment
  \/ \E c \in Cve : DeleteCve(c) \/ Unlink(c) \/ RetryTimeComes(c)

PipeNext ==
  \/ \E S \in SUBSET Cve, again \in BOOLEAN : StartEvent(S, again)
  \/ EventStep \/ StepDone \/ RetryStep \/ Elsewhere \/ Crash \/ Restart

PipeSpec == PipeInit /\ [][PipeNext]_pipeVars

(* The worker goes on, the process is restarted, and retry_at passes.      *)
WorkerStep == EventStep \/ StepDone \/ RetryStep

PipeFairness == /\ WF_pipeVars(WorkerStep)
                /\ WF_pipeVars(Restart)
                /\ \A c \in Cve : WF_pipeVars(RetryTimeComes(c))

FairPipeSpec == PipeSpec /\ PipeFairness

-----------------------------------------------------------------------------
(* Every variable has its type, and a step has a CVE to work on.           *)
PipeTypeOK ==
  /\ enrichOn \in BOOLEAN
  /\ status \in [Cve -> CveStatus]
  /\ paused \in [Cve -> BOOLEAN]
  /\ waiting \in [Cve -> BOOLEAN]
  /\ due \in [Cve -> BOOLEAN]
  /\ links \in [Cve -> BOOLEAN]
  /\ tickets \in [Cve -> BOOLEAN]
  /\ opened \in [Cve -> 0..MaxIssues]
  /\ pc \in Control
  /\ mode \in {"event", "retry"}
  /\ todo \subseteq Cve
  /\ vuln \in Cve \cup {NoCve}
  /\ pc \in Steps => vuln \in Cve
  /\ kept \in BOOLEAN
  /\ refresh \in BOOLEAN
  /\ live \in BOOLEAN
  /\ cut \subseteq Cve
  /\ forgot \subseteq Cve

(* The label "waiting_enrichment", which the retry query looks for, and    *)
(* the flag in the blob, which the pipeline looks at, agree whichever step *)
(* or error wrote last: a labelled row is ENRICHED and flagged.  A deleted *)
(* row leaves nothing behind.                                              *)
PauseInv ==
  \A c \in Cve :
    /\ paused[c] => waiting[c] /\ status[c] = "ENRICHED"
    /\ ~Exists(c) => ~waiting[c] /\ ~links[c] /\ ~tickets[c]

(* A step finds the CVE where the step before left it, although rows are   *)
(* deleted, unlinked and switched between them: matching and tickets never *)
(* see a CVE that waits for enrichment.                                    *)
StageInv ==
  live => /\ pc \in Steps => vuln \in Cve /\ Exists(vuln)
          /\ pc = "extract" => status[vuln] = "INGESTED" /\ ~waiting[vuln]
          /\ pc = "match" => status[vuln] = "ENRICHED" /\ ~waiting[vuln]
          /\ pc \in {"act", "recording"} => status[vuln] = "MATCHED" /\ ~waiting[vuln]

(* However often a CVE is fed again, retried or rerun, its issues are      *)
(* opened once, unless the database forgot them: in a crash between the    *)
(* call and the commit, in the rollback of a retry, or with the CVE.       *)
OpenedOnce == \A c \in Cve : opened[c] > 1 => c \in forgot

(* A CVE that stands between two steps, not waiting for intel, is the one  *)
(* in the worker's hand or was cut short: by a crash, by an error in a     *)
(* retry, or by rows deleted under the run.  No other path of the pipeline *)
(* (skip, pause, error, switch) leaves one behind.                         *)
Midway(c) == \/ status[c] \in {"INGESTED", "EXTRACTED"}
             \/ status[c] = "ENRICHED" /\ ~waiting[c]
             \/ status[c] = "MATCHED" /\ links[c]

InWork(c) == vuln = c /\ pc \in Steps

MidwayIsCut == \A c \in Cve : Midway(c) => InWork(c) \/ c \in cut

(* The statuses have a lifecycle: whatever is fed, retried, purged or      *)
(* deleted meanwhile, one CVE is in hand at a time and only it advances,   *)
(* no step is left out, none finds the CVE moved by anybody else, and none *)
(* after enrichment sees one that sleeps.                                  *)
Reached == CASE pc = "extract" -> "INGESTED"
             [] pc = "enrich" -> "EXTRACTED"
             [] pc = "match" -> "ENRICHED"
             [] pc \in {"act", "recording"} -> "MATCHED"
             [] OTHER -> "none"

Life == INSTANCE Lifecycle WITH stage <- status, asleep <- {c \in Cve : paused[c]},
          hand <- IF pc \in Steps THEN vuln ELSE NoCve, reached <- Reached

RefinesLifecycle == Life!Spec

(* A CVE labelled as waiting is looked up again, sooner or later, for as   *)
(* long as the process stays up in the end: new events, switched settings  *)
(* and errors in other CVEs do not keep it waiting for ever.               *)
WaitingIsRetried ==
  <>[](pc # "down") =>
    \A c \in Cve : paused[c] ~> (~paused[c] \/ (pc = "enrich" /\ vuln = c))

-----------------------------------------------------------------------------
(* "When off: skip lookups and continue to matching" (README.md:193), said *)
(* of every CVE that comes to its enrichment with the setting off.         *)
OffContinues ==
  [][pc = "enrich" /\ live /\ ~enrichOn /\ pc' # pc /\ status'[vuln] = "ENRICHED"
       => pc' \in {"match", "down"}]_pipeVars

(* "Unrecoverable errors set status=FAILED" (orchestrator.py:11): when the *)
(* worker turns from a CVE to the next, it has not left it midway.         *)
ErrorsFail ==
  [][live /\ pc \in Steps /\ pc' = "next" => ~Midway(vuln)']_pipeVars
=============================================================================
