----------------------------- MODULE WorkQueue -----------------------------
(***************************************************************************)
(* The in-process work queue (app/workers/queue.py): the ingest_events     *)
(* table, the asyncio queue of event ids with its set of claimed ids, the  *)
(* one pipeline worker, and the poller and HTTP threads that commit events *)
(* and then hand their ids over.                                           *)
(*                                                                         *)
(* The table outlives the process; everything else dies with it.  What the *)
(* worker does with an event is left open here: see Orchestrator and       *)
(* Pipeline.                                                               *)
(***************************************************************************)
EXTENDS Naturals, Sequences, Functions

CONSTANTS Event,        \* ids of ingest_events rows; SQLite reuses a freed id
          NoEvent,      \* no id: the worker or a thread holds nothing
          FileEvent,    \* ids of rows whose payload names a file
          Purgeable,    \* ids that the clean-ups of this instance may pick
          Producer,     \* scheduler and HTTP threads
          MaxCrashes    \* bound: how often the process dies

ASSUME QueueAssumption == /\ NoEvent \notin Event
                          /\ FileEvent \subseteq Event
                          /\ Purgeable \subseteq Event
                          /\ MaxCrashes \in Nat

VARIABLES
  event,     \* durable: the status column of each row, "absent" without a row
  queue,     \* asyncio.Queue of claimed ids
  pending,   \* _pending: ids claimed and not yet released
  soon,      \* ids whose _put waits among the loop's call_soon callbacks
  worker,    \* where the loop's worker task stands
  cur,       \* the id the worker took
  batch,     \* the rows _rehydrate read and has not handed over yet
  holding,   \* holding[p]: the id thread p committed and did not enqueue yet
  crashes    \* how often the process died

memory == <<queue, pending, soon, worker, cur, batch>>
queueVars == <<event, queue, pending, soon, worker, cur, batch, holding, crashes>>

Settled == {"done", "skipped", "failed"}
Status == {"absent", "queued", "processing"} \cup Settled

(* "down": no process.  "starting": start() rehydrates before the worker   *)
(* task, the scheduler and HTTP exist.  "idle": in queue.get().  "taken":  *)
(* an id left the queue.  "running": its row says "processing".            *)
(* "releasing": run_event is over, _release is not.  "rehydrating" and     *)
(* "retrying": the two chores of an idle worker.                           *)
WorkerState == {"down", "starting", "idle", "taken", "running", "releasing",
                "rehydrating", "retrying"}

Serving == worker \notin {"down", "starting"}

(* start(), _rehydrate and the code on both sides of run_event hold the    *)
(* loop: only in these states does it run a callback or another coroutine. *)
LoopIsFree == worker \in {"idle", "running", "retrying"}

RowsIn(statuses) == {e \in Event : event[e] \in statuses}

-----------------------------------------------------------------------------
QueueInit ==
  /\ event = [e \in Event |-> "absent"]
  /\ queue = <<>>
  /\ pending = {}
  /\ soon = {}
  /\ worker = "down"
  /\ cur = NoEvent
  /\ batch = {}
  /\ holding = [p \in Producer |-> NoEvent]
  /\ crashes = 0

-----------------------------------------------------------------------------
(* The producers.  ingest_payload commits the row first and calls enqueue  *)
(* after; anything may happen in between.                                  *)

Submit(p, e) ==
  /\ Serving
  /\ holding[p] = NoEvent
  /\ event[e] = "absent"
  /\ event' = [event EXCEPT ![e] = "queued"]
  /\ holding' = [holding EXCEPT ![p] = e]
  /\ UNCHANGED <<memory, crashes>>

(* The newest row of a file is reused, whatever its status, and the other  *)
(* rows that name the file are deleted.                                    *)
Reuse(e, others) ==
  /\ e \in FileEvent
  /\ others \subseteq FileEvent \ {e}
  /\ event[e] # "absent"
  /\ event' = [x \in Event |-> CASE x = e -> "queued"
                                 [] x \in others -> "absent"
                                 [] OTHER -> event[x]]

Resubmit(p, e, others) ==
  /\ Serving
  /\ holding[p] = NoEvent
  /\ Reuse(e, others)
  /\ holding' = [holding EXCEPT ![p] = e]
  /\ UNCHANGED <<memory, crashes>>

(* _record_duplicate_event: kept for the operator, never queued.           *)
RecordDuplicate(e) ==
  /\ Serving
  /\ event[e] = "absent"
  /\ event' = [event EXCEPT ![e] = "skipped"]
  /\ UNCHANGED <<memory, holding, crashes>>

(* Mutant: the id is claimed without a look at what is claimed already.    *)
EnqueueUnclaimed(p) ==
  /\ Serving
  /\ holding[p] # NoEvent
  /\ holding' = [holding EXCEPT ![p] = NoEvent]
  /\ pending' = pending \cup {holding[p]}
  /\ soon' = soon \cup {holding[p]}
  /\ UNCHANGED <<event, queue, worker, cur, batch, crashes>>

(* Mutant: enqueue is called whether or not a row was stored.              *)
EnqueueNothing(p) ==
  /\ Serving
  /\ holding' = [holding EXCEPT ![p] = NoEvent]
  /\ pending' = pending \cup {holding[p]}
  /\ soon' = soon \cup {holding[p]}
  /\ UNCHANGED <<event, queue, worker, cur, batch, crashes>>

(* enqueue from a thread: claim under the lock, then call_soon_threadsafe. *)
Enqueue(p) ==
  /\ Serving
  /\ holding[p] # NoEvent
  /\ holding' = [holding EXCEPT ![p] = NoEvent]
  /\ IF holding[p] \in pending
       THEN UNCHANGED <<pending, soon>>
       ELSE /\ pending' = pending \cup {holding[p]}
            /\ soon' = soon \cup {holding[p]}
  /\ UNCHANGED <<event, queue, worker, cur, batch, crashes>>

(* The webhook endpoint is a coroutine on the worker's own loop: commit,   *)
(* claim and put happen without a step of the worker in between.  A body   *)
(* with a "filename" counts as a file.                                     *)
Webhook(e, others) ==
  /\ LoopIsFree
  /\ \/ others = {} /\ event[e] = "absent" /\ event' = [event EXCEPT ![e] = "queued"]
     \/ Reuse(e, others)
  /\ IF e \in pending
       THEN UNCHANGED <<pending, queue>>
       ELSE /\ pending' = pending \cup {e}
            /\ queue' = Append(queue, e)
  /\ UNCHANGED <<soon, worker, cur, batch, holding, crashes>>

(* The loop runs a call_soon callback.                                     *)
Put(e) ==
  /\ LoopIsFree
  /\ e \in soon
  /\ soon' = soon \ {e}
  /\ queue' = Append(queue, e)
  /\ UNCHANGED <<event, pending, worker, cur, batch, holding, crashes>>

(* Deletion of rows behind the worker's back, in any status: the cleanup   *)
(* that GET /sources and GET /feeds run drops every row of an unmanaged    *)
(* source and every older row of a CVE.                                    *)
Purge(e) ==
  /\ Serving
  /\ e \in Purgeable
  /\ event[e] # "absent"
  /\ event' = [event EXCEPT ![e] = "absent"]
  /\ UNCHANGED <<memory, holding, crashes>>

-----------------------------------------------------------------------------
(* The worker loop.                                                        *)

Take ==
  /\ worker = "idle"
  /\ queue # <<>>
  /\ cur' = Head(queue)
  /\ queue' = Tail(queue)
  /\ worker' = "taken"
  /\ UNCHANGED <<event, pending, soon, batch, holding, crashes>>

(* run_event up to its first await.                                        *)
BeginRun ==
  /\ worker = "taken"
  /\ event[cur] # "absent"
  /\ event' = [event EXCEPT ![cur] = "processing"]
  /\ worker' = "running"
  /\ UNCHANGED <<queue, pending, soon, cur, batch, holding, crashes>>

(* Either there is no row to begin, or the commit that begins it failed,   *)
(* outside of run_event's try: the loop logs it and the row stays as it is.*)
RefuseRun ==
  /\ worker = "taken"
  /\ worker' = "releasing"
  /\ UNCHANGED <<event, queue, pending, soon, cur, batch, holding, crashes>>

(* Mutant: the last commit brings a purged row back (an upsert).           *)
SettleUpsert(verdict) ==
  /\ worker = "running"
  /\ event' = [event EXCEPT ![cur] = verdict]
  /\ worker' = "releasing"
  /\ UNCHANGED <<queue, pending, soon, cur, batch, holding, crashes>>

(* The last commit of run_event.  It writes over whatever status the row   *)
(* has by now; "absent" deletes a row that brought nothing new.            *)
SettleRun(verdict) ==
  /\ worker = "running"
  /\ event[cur] # "absent"
  /\ event' = [event EXCEPT ![cur] = verdict]
  /\ worker' = "releasing"
  /\ UNCHANGED <<queue, pending, soon, cur, batch, holding, crashes>>

(* An exception that run_event could not record (a poisoned session, a row *)
(* purged during the run) is logged by the loop; the row stays as it is.   *)
LoseRun ==
  /\ worker = "running"
  /\ worker' = "releasing"
  /\ UNCHANGED <<event, queue, pending, soon, cur, batch, holding, crashes>>

(* Mutant: _release is skipped.                                            *)
ReleaseNothing ==
  /\ worker = "releasing"
  /\ cur' = NoEvent
  /\ worker' = "retrying"
  /\ UNCHANGED <<event, queue, pending, soon, batch, holding, crashes>>

Release ==
  /\ worker = "releasing"
  /\ pending' = pending \ {cur}
  /\ cur' = NoEvent
  /\ worker' = "retrying"
  /\ UNCHANGED <<event, queue, soon, batch, holding, crashes>>

(* _retry_waiting_enrichment, modelled in Orchestrator, is over.           *)
RetryDone ==
  /\ worker = "retrying"
  /\ worker' = "idle"
  /\ UNCHANGED <<event, queue, pending, soon, cur, batch, holding, crashes>>

(* Mutant: the idle worker goes straight to the enrichment retry.          *)
TimeoutOnly ==
  /\ worker = "idle"
  /\ queue = <<>>
  /\ batch' = {}
  /\ worker' = "rehydrating"
  /\ UNCHANGED <<event, queue, pending, soon, cur, holding, crashes>>

(* queue.get() timed out: look for queued rows whose enqueue was missed.   *)
Timeout ==
  /\ worker = "idle"
  /\ queue = <<>>
  /\ batch' = RowsIn({"queued"})
  /\ worker' = "rehydrating"
  /\ UNCHANGED <<event, queue, pending, soon, cur, holding, crashes>>

Rehydrate(e) ==
  /\ worker \in {"starting", "rehydrating"}
  /\ e \in batch
  /\ batch' = batch \ {e}
  /\ IF e \in pending
       THEN UNCHANGED <<pending, queue>>
       ELSE /\ pending' = pending \cup {e}
            /\ queue' = Append(queue, e)
  /\ UNCHANGED <<event, soon, worker, cur, holding, crashes>>

RehydrateDone ==
  /\ worker \in {"starting", "rehydrating"}
  /\ batch = {}
  /\ worker' = IF worker = "starting" THEN "idle" ELSE "retrying"
  /\ UNCHANGED <<event, queue, pending, soon, cur, batch, holding, crashes>>

-----------------------------------------------------------------------------
(* The process.                                                            *)

(* Mutant: a restart leaves the event that was in the worker's hand.       *)
StartQueuedOnly ==
  /\ worker = "down"
  /\ queue' = <<>>
  /\ pending' = {}
  /\ batch' = RowsIn({"queued"})
  /\ worker' = "starting"
  /\ UNCHANGED <<event, soon, cur, holding, crashes>>

Start ==
  /\ worker = "down"
  /\ queue' = <<>>
  /\ pending' = {}
  /\ batch' = RowsIn({"queued", "processing"})
  /\ worker' = "starting"
  /\ UNCHANGED <<event, soon, cur, holding, crashes>>

(* stop() cancels the worker at an await; a crash may come anywhere.       *)
Crash ==
  /\ worker # "down"
  /\ crashes < MaxCrashes
  /\ crashes' = crashes + 1
  /\ queue' = <<>>
  /\ pending' = {}
  /\ soon' = {}
  /\ worker' = "down"
  /\ cur' = NoEvent
  /\ batch' = {}
  /\ holding' = [p \in Producer |-> NoEvent]
  /\ UNCHANGED event

-----------------------------------------------------------------------------
Verdict == Settled \cup {"absent"}

WorkerStep ==
  \/ Take \/ BeginRun \/ RefuseRun \/ LoseRun \/ Release \/ RetryDone
  \/ \E verdict \in Verdict : SettleRun(verdict)
  \/ Timeout \/ RehydrateDone
  \/ \E e \in Event : Rehydrate(e)

ThreadStep ==
  \/ \E p \in Producer : Enqueue(p) \/ \E e \in Event : Submit(p, e)
  \/ \E e \in Event : RecordDuplicate(e) \/ Purge(e)
  \/ \E e \in Event, others \in SUBSET FileEvent :
       Webhook(e, others) \/ \E p \in Producer : Resubmit(p, e, others)

QueueNext == WorkerStep \/ ThreadStep \/ (\E e \in Event : Put(e)) \/ Start \/ Crash

QueueSpec == QueueInit /\ [][QueueNext]_queueVars

(* The loop runs its worker task and, at its next turn, every callback;    *)
(* the process is restarted; a thread that committed an event does call    *)
(* enqueue.                                                                *)
QueueFairness ==
  /\ WF_queueVars(WorkerStep)
  /\ WF_queueVars(Start)
  /\ \A e \in Event : SF_queueVars(Put(e))
  /\ \A p \in Producer : WF_queueVars(Enqueue(p))

FairQueueSpec == QueueSpec /\ QueueFairness

-----------------------------------------------------------------------------
(* Every variable has its type.                                            *)
TypeOK ==
  /\ event \in [Event -> Status]
  /\ queue \in Seq(Event)
  /\ pending \subseteq Event
  /\ soon \subseteq Event
  /\ worker \in WorkerState
  /\ cur \in Event \cup {NoEvent}
  /\ batch \subseteq Event
  /\ holding \in [Producer -> Event \cup {NoEvent}]
  /\ crashes \in 0..MaxCrashes

(* _pending is exactly the set of ids under way: in the asyncio queue, in  *)
(* a callback on its way there, or in the worker's hand, each id in one    *)
(* place only and once only.  Two threads, the loop and the idle worker    *)
(* claim and release it in any order, and an id that fell out of step with *)
(* its claim would be run twice at a time or never be accepted again.      *)
InHand == {cur} \ {NoEvent}

ClaimsAreExact == pending = Range(queue) \cup soon \cup InHand

ClaimedOnce == /\ IsInjective(queue)
               /\ Range(queue) \cap soon = {}
               /\ cur \notin Range(queue) \cup soon

HandMatchesState ==
  cur # NoEvent <=> worker \in {"taken", "running", "releasing"}

ClaimInv == ClaimsAreExact /\ ClaimedOnce /\ HandMatchesState

(* What dies with the process is gone when it is down, and what start()    *)
(* read stays complete until it is handed over: nobody else is there yet.  *)
RestartInv ==
  /\ worker = "down" => /\ pending = {}
                        /\ batch = {}
                        /\ \A p \in Producer : holding[p] = NoEvent
  /\ worker = "starting" =>
       /\ \A p \in Producer : holding[p] = NoEvent
       /\ RowsIn({"queued", "processing"}) = batch \cup pending

(* A restart forgets no unfinished event: when start() hands over to the   *)
(* worker, every row that says "queued" or "processing" is claimed, the    *)
(* one the dead process was working on included.                           *)
RecoveredAll ==
  [][worker = "starting" /\ worker' = "idle"
       => RowsIn({"queued", "processing"}) = pending']_queueVars

(* The table is a serial ledger: whatever threads, purges, timeouts and    *)
(* restarts do, one event is in hand at a time and only its status is      *)
(* settled, and a row nobody has is never settled.                         *)
Ledger == INSTANCE EventLedger
            WITH inHand <- IF worker = "running" THEN cur ELSE NoEvent

RefinesLedger == Ledger!Spec

(* A claimed id is served: it leaves _pending again, so that a later       *)
(* payload for the same row is not turned away for ever.                   *)
PendingIsServed == \A e \in Event : e \in pending ~> e \notin pending

(* An event that says "queued" reaches the worker although its enqueue was *)
(* turned away, lost or never made, as long as the worker keeps coming to  *)
(* rest: only then does it look for rows it missed.                        *)
QueuedIsTaken ==
  ([]<>(worker = "rehydrating")) =>
     \A e \in Event : event[e] = "queued" ~> (event[e] # "queued" \/ cur = e)

-----------------------------------------------------------------------------
(* "Pick up queued events that never reached the worker (restart or missed *)
(* enqueue)" (queue.py:99): an event that was queued again while its old   *)
(* payload ran says "queued" until the worker takes it.                    *)
QueuedIsNotOverwritten ==
  [][worker = "running" /\ worker' = "releasing" /\ event[cur] = "queued"
       => event'[cur] = "queued"]_queueVars
=============================================================================
