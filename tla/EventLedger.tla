---------------------------- MODULE EventLedger ----------------------------
(***************************************************************************)
(* What the ingest_events table promises to the rest of the system,        *)
(* whatever queue, worker, poller threads or restarts stand behind it: a   *)
(* serial pipeline.  An event is accepted, the pipeline takes one event in *)
(* hand at a time, and only the event in hand is ever begun or settled.    *)
(***************************************************************************)
CONSTANTS Event,                \* ids of ingest_events rows
          NoEvent

VARIABLES event,                \* event[e]: the status column, or "absent"
          inHand                \* the event the pipeline works on, or NoEvent

ledger == <<event, inHand>>

Settled == {"done", "skipped", "failed"}
Status == {"absent", "queued", "processing"} \cup Settled

Init == /\ event = [e \in Event |-> "absent"]
        /\ inHand = NoEvent

(* A source hands in a payload: a new row, or a known file read again,     *)
(* whose other rows go.                                                    *)
Accept(e, others) == /\ e \notin others
                     /\ event' = [x \in Event |-> CASE x = e -> "queued"
                                                    [] x \in others -> "absent"
                                                    [] OTHER -> event[x]]
                     /\ UNCHANGED inHand

(* A payload whose CVEs are all known leaves a row the pipeline never sees.*)
Record(e) == /\ event[e] = "absent"
             /\ event' = [event EXCEPT ![e] = "skipped"]
             /\ UNCHANGED inHand

Begin(e) == /\ inHand = NoEvent
            /\ event[e] # "absent"
            /\ event' = [event EXCEPT ![e] = "processing"]
            /\ inHand' = e

(* The verdict on the event in hand; "absent" drops the row.               *)
Settle(verdict) == /\ inHand # NoEvent
                   /\ event[inHand] # "absent"
                   /\ event' = [event EXCEPT ![inHand] = verdict]
                   /\ inHand' = NoEvent

(* A crash, or an error nobody could record: the row keeps its status.     *)
Abandon == /\ inHand # NoEvent
           /\ inHand' = NoEvent
           /\ UNCHANGED event

Discard(e) == /\ event' = [event EXCEPT ![e] = "absent"]
              /\ UNCHANGED inHand

Next == \/ Abandon
        \/ \E verdict \in Settled \cup {"absent"} : Settle(verdict)
        \/ \E e \in Event, others \in SUBSET Event : Accept(e, others)
        \/ \E e \in Event : Record(e) \/ Begin(e) \/ Discard(e)

Spec == Init /\ [][Next]_ledger
=============================================================================
