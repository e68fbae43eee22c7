------------------------------ MODULE Pipeline ------------------------------
(***************************************************************************)
(* The work queue and the pipeline together: what an event carries, which  *)
(* payloads ingest_payload turns away as known, and how the end of         *)
(* run_event settles the event.                                            *)
(*                                                                         *)
(* Every action is a step of WorkQueue, a step of Orchestrator, or one of  *)
(* each: the components keep their own state and their own guards.         *)
(***************************************************************************)
EXTENDS Naturals

CONSTANTS Event, NoEvent, FileEvent, Purgeable, Producer, MaxCrashes,
          Cve, NoCve, Raising, MaxIssues

VARIABLES event, queue, pending, soon, worker, cur, batch, holding, crashes
VARIABLES enrichOn, status, paused, waiting, due, links, tickets, opened,
          pc, mode, todo, vuln, kept, refresh, live, cut, forgot
VARIABLES cves,    \* cves[e]: the CVEs extraction finds in the row's payload
          again,   \* again[e]: the payload's feed_url or _refresh mark
          looked   \* looked[p]: what thread p is about to store, and whether it
                   \* found it new when it looked

Q == INSTANCE WorkQueue
P == INSTANCE Orchestrator

ASSUME CompositionAssumption == Q!QueueAssumption /\ P!PipelineAssumption

queueVars == <<event, queue, pending, soon, worker, cur, batch, holding, crashes>>
pipeVars == <<enrichOn, status, paused, waiting, due, links, tickets, opened,
              pc, mode, todo, vuln, kept, refresh, live, cut, forgot>>
payload == <<cves, again, looked>>

Look == [cves : SUBSET Cve, fresh : BOOLEAN, news : BOOLEAN]
NoLook == [cves |-> {}, fresh |-> FALSE, news |-> FALSE]

PayloadOK == /\ cves \in [Event -> SUBSET Cve]
             /\ again \in [Event -> BOOLEAN]
             /\ looked \in [Producer -> Look]

vars == <<queueVars, pipeVars, payload>>

QueueIdle == UNCHANGED queueVars
PipeIdle == UNCHANGED pipeVars

(* take_action holds the database's write lock between opening issues and  *)
(* recording them.                                                         *)
Unlocked == pc # "recording"

(* _known_cve_ids: stored, or in an unfinished event.                      *)
Known == {c \in Cve : P!Exists(c)} \cup
         UNION {cves[e] : e \in Q!RowsIn({"queued", "processing"})}

IsNews(S, fresh) == fresh \/ ~(S \subseteq Known)

Carry(e, S, fresh) == /\ cves' = [cves EXCEPT ![e] = S]
                      /\ again' = [again EXCEPT ![e] = fresh]

Replace(e, others, S, fresh) ==
  /\ cves' = [x \in Event |-> CASE x = e -> S [] x \in others -> {} [] OTHER -> cves[x]]
  /\ again' = [x \in Event |-> CASE x = e -> fresh
                                [] x \in others -> FALSE
                                [] OTHER -> again[x]]

(* _delete_events_by_id drops the PipelineRun rows of the events as well.  *)
RunsGo(gone) == IF worker = "running" /\ cur \in gone THEN P!PurgeRun ELSE PipeIdle

-----------------------------------------------------------------------------
Init == /\ Q!QueueInit
        /\ P!PipeInit
        /\ cves = [e \in Event |-> {}]
        /\ again = [e \in Event |-> FALSE]
        /\ looked = [p \in Producer |-> NoLook]

-----------------------------------------------------------------------------
(* ingest_payload, queue_cve_rerun.  A thread looks first and commits      *)
(* after, with no transaction around the two: what it found may be out of  *)
(* date when it stores the event.                                          *)

LookUp(p, S, fresh) ==
  /\ Q!Serving
  /\ holding[p] = NoEvent
  /\ looked[p] = NoLook
  /\ S # {}
  /\ looked' = [looked EXCEPT ![p] = [cves |-> S, fresh |-> fresh, news |-> IsNews(S, fresh)]]
  /\ QueueIdle
  /\ PipeIdle
  /\ UNCHANGED <<cves, again>>

Looked(p) == looked' = [looked EXCEPT ![p] = NoLook]

Submit(p, e) ==
  /\ Unlocked
  /\ looked[p].news
  /\ Q!Submit(p, e)
  /\ Carry(e, looked[p].cves, looked[p].fresh)
  /\ Looked(p)
  /\ PipeIdle

Resubmit(p, e, others) ==
  /\ Unlocked
  /\ looked[p].news
  /\ Q!Resubmit(p, e, others)
  /\ RunsGo(others)
  /\ Replace(e, others, looked[p].cves, looked[p].fresh)
  /\ Looked(p)

RecordDuplicate(p, e) ==
  /\ Unlocked
  /\ looked[p] # NoLook /\ ~looked[p].news
  /\ Q!RecordDuplicate(e)
  /\ Carry(e, looked[p].cves, FALSE)
  /\ Looked(p)
  /\ PipeIdle

(* The row to reuse was purged, or the write lock did not come in time.    *)
GiveUp(p) ==
  /\ looked[p] # NoLook
  /\ Looked(p)
  /\ QueueIdle
  /\ PipeIdle
  /\ UNCHANGED <<cves, again>>

(* On the loop no step of the worker comes between the look and the        *)
(* commit, and the commit of a thread that does might as well come after.  *)
(* A duplicate is recorded as above.                                       *)
Webhook(e, others, S, fresh) ==
  /\ Unlocked
  /\ S # {}
  /\ IsNews(S, fresh)
  /\ Q!Webhook(e, others)
  /\ RunsGo(others)
  /\ Replace(e, others, S, fresh)
  /\ UNCHANGED looked

Purge(e) ==
  /\ Unlocked
  /\ Q!Purge(e)
  /\ RunsGo({e})
  /\ Carry(e, {}, FALSE)
  /\ UNCHANGED looked

QueueOnly ==
  /\ \/ \E p \in Producer : Q!Enqueue(p)
     \/ \E e \in Event : Q!Put(e) \/ Q!Rehydrate(e)
     \/ Q!Take \/ Q!RefuseRun \/ Q!Release \/ Q!Timeout \/ Q!Start
     \/ worker = "rehydrating" /\ Q!RehydrateDone
  /\ PipeIdle
  /\ UNCHANGED payload

-----------------------------------------------------------------------------
(* The worker in run_event.                                                *)

BeginRun ==
  /\ Q!BeginRun
  /\ P!StartEvent(cves[cur], again[cur])
  /\ UNCHANGED payload

Read ==
  /\ P!ReadEvent
  /\ QueueIdle
  /\ UNCHANGED payload

ReadFails ==
  /\ Q!SettleRun("failed")
  /\ P!ReadRaises
  /\ UNCHANGED payload

InRun ==
  /\ \/ \E c \in Cve : \/ P!AcceptNew(c) \/ P!AcceptKnown(c)
                       \/ P!AcceptUpdated(c) \/ P!AcceptRaises(c)
     \/ P!StepDone
  /\ QueueIdle
  /\ UNCHANGED payload

Verdict == CASE kept -> "done"
             [] ~kept /\ cur \in FileEvent -> "skipped"
             [] OTHER -> "absent"

FinishRun ==
  /\ Q!SettleRun(Verdict)
  /\ P!FinishEvent
  /\ UNCHANGED payload

(* Mutant: an aborted run is written down as failed, row or no row.        *)
LoseRunFailed ==
  /\ worker = "running"
  /\ event' = [event EXCEPT ![cur] = "failed"]
  /\ worker' = "releasing"
  /\ UNCHANGED <<queue, pending, soon, cur, batch, holding, crashes>>
  /\ P!AbortEvent
  /\ UNCHANGED payload

LoseRun ==
  /\ Q!LoseRun
  /\ P!AbortEvent
  /\ UNCHANGED payload

-----------------------------------------------------------------------------
(* The worker in _retry_waiting_enrichment.                                *)

StartRetry ==
  /\ worker = "retrying"
  /\ P!StartRetry
  /\ QueueIdle
  /\ UNCHANGED payload

InRetry ==
  /\ P!AbortRetry \/ \E c \in Cve : P!RetryPick(c)
  /\ QueueIdle
  /\ UNCHANGED payload

(* Mutant: the loop takes the next event while the retry still runs.       *)
RetryInBackground ==
  /\ Q!RetryDone
  /\ PipeIdle
  /\ UNCHANGED payload

RetryDone ==
  /\ Q!RetryDone
  /\ P!RetryEnd
  /\ UNCHANGED payload

-----------------------------------------------------------------------------
(* HTTP requests on the catalogue, the clock, and the process.             *)

OnRows ==
  /\ Q!Serving
  /\ \/ P!ToggleEnrichment
     \/ \E c \in Cve : P!DeleteCve(c) \/ P!Unlink(c)
  /\ QueueIdle
  /\ UNCHANGED payload

RetryTimeComes(c) ==
  /\ P!RetryTimeComes(c)
  /\ QueueIdle
  /\ UNCHANGED payload

Opened ==
  /\ worker = "starting"
  /\ Q!RehydrateDone
  /\ P!Restart
  /\ UNCHANGED payload

(* Mutant: the pipeline's variables survive the process.                   *)
CrashKeepsFrame ==
  /\ Q!Crash
  /\ IF pc = "down" THEN PipeIdle
       ELSE /\ pc' = "down"
            /\ UNCHANGED <<enrichOn, status, paused, waiting, due, links, tickets, opened,
                           mode, todo, vuln, kept, refresh, live, cut, forgot>>
  /\ looked' = [p \in Producer |-> NoLook]
  /\ UNCHANGED <<cves, again>>

Crash ==
  /\ Q!Crash
  /\ IF pc = "down" THEN PipeIdle ELSE P!Crash
  /\ looked' = [p \in Producer |-> NoLook]
  /\ UNCHANGED <<cves, again>>

-----------------------------------------------------------------------------
Arrival ==
  \/ \E p \in Producer :
       \/ GiveUp(p)
       \/ \E S \in SUBSET Cve, fresh \in BOOLEAN : LookUp(p, S, fresh)
       \/ \E e \in Event : \/ Submit(p, e) \/ RecordDuplicate(p, e)
                          \/ \E others \in SUBSET FileEvent : Resubmit(p, e, others)
  \/ \E e \in Event, others \in SUBSET FileEvent, S \in SUBSET Cve, fresh \in BOOLEAN :
       Webhook(e, others, S, fresh)

Work == \/ BeginRun \/ Read \/ ReadFails \/ InRun \/ FinishRun \/ LoseRun
        \/ StartRetry \/ InRetry \/ RetryDone \/ Opened

Next == \/ Arrival \/ QueueOnly \/ Work \/ OnRows \/ Crash
        \/ \E e \in Event : Purge(e)
        \/ \E c \in Cve : RetryTimeComes(c)

Spec == Init /\ [][Next]_vars

-----------------------------------------------------------------------------
(* Where the worker stands in its loop and where it stands in the pipeline *)
(* fit together, and a run whose rows are still there has an event row to  *)
(* settle: a purge in mid-run is never missed.                             *)
CoupleInv ==
  /\ pc = "down" <=> worker \in {"down", "starting"}
  /\ worker \in {"idle", "taken", "rehydrating"} => pc = "idle"
  /\ worker = "running" => /\ pc \in {"reading", "next"} \cup P!Steps
                           /\ live => event[cur] # "absent"
  /\ worker = "releasing" => pc \in {"idle", "after"}
  /\ worker = "retrying" => \/ pc \in {"idle", "after"}
                            \/ pc \in {"next"} \cup P!Steps /\ mode = "retry"
  /\ worker # "retrying" => mode = "event"

(* The composed system is one run of the work queue and one run of the     *)
(* pipeline: what is proved of either holds of both together.              *)
IsQueue == Q!QueueSpec
IsPipeline == P!PipeSpec

(* "Events are persisted in ingest_events first (so nothing is lost on     *)
(* restart)" (queue.py:5): when the run of an event ends, in the same      *)
(* process or after a restart, none of its CVEs stands between two steps.  *)
NothingIsLost ==
  [][worker = "running" /\ worker' = "releasing"
       => \A c \in cves[cur] : ~P!Midway(c)]_vars
=============================================================================
