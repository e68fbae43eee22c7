----------------------------- MODULE Lifecycle -----------------------------
(***************************************************************************)
(* What the pipeline promises of the status column, whatever events,       *)
(* retries, errors, deletions and crashes come: one CVE is in hand at a    *)
(* time, and only that one gets further, step by step in the order of      *)
(* PipelineStatus.  A known CVE that is taken up again starts over at      *)
(* enrichment.  One that sleeps, as it waits for intelligence, is not      *)
(* matched before it was enriched again.                                   *)
(***************************************************************************)
CONSTANTS Cve, NoCve

VARIABLES stage,                \* stage[c]: the status column, or "ABSENT"
          asleep,               \* CVEs labelled as waiting
          hand,                 \* the CVE the pipeline works on, or NoCve
          reached               \* the last step this work has done, or "none"

lifecycle == <<stage, asleep, hand, reached>>

After == [INGESTED |-> "EXTRACTED", EXTRACTED |-> "ENRICHED",
          ENRICHED |-> "MATCHED", MATCHED |-> "ACTIONED"]

Known(c) == stage[c] # "ABSENT"
Free == hand = NoCve
LetsGo == hand' = NoCve /\ reached' = "none"

Init == /\ stage = [c \in Cve |-> "ABSENT"]
        /\ asleep = {}
        /\ hand = NoCve
        /\ reached = "none"

(* A new CVE, and one that is fed again, rerun or woken.                   *)
Arrive(c) == /\ Free /\ ~Known(c)
             /\ stage' = [stage EXCEPT ![c] = "INGESTED"]
             /\ hand' = c /\ reached' = "INGESTED"
             /\ UNCHANGED asleep

TakeUp(c) == /\ Free /\ Known(c)
             /\ hand' = c /\ reached' = "EXTRACTED"
             /\ UNCHANGED <<stage, asleep>>

(* The next step; the CVE stands where the step before left it, except     *)
(* that enrichment takes one up wherever it stands.                        *)
Advance(sleeps) ==
  /\ ~Free /\ Known(hand)
  /\ reached # "EXTRACTED" => stage[hand] = reached /\ hand \notin asleep
  /\ stage' = [stage EXCEPT ![hand] = After[reached]]
  /\ asleep' = IF sleeps THEN asleep \cup {hand} ELSE asleep \ {hand}
  /\ sleeps => After[reached] = "ENRICHED" /\ LetsGo
  /\ \/ LetsGo
     \/ After[reached] # "ACTIONED" /\ hand' = hand /\ reached' = After[reached]

(* An error is recorded on the CVE in hand, or on one that was.            *)
Fail(c) == /\ hand \in {c, NoCve} /\ Known(c)
           /\ stage' = [stage EXCEPT ![c] = "FAILED"]
           /\ asleep' = asleep \ {c}
           /\ LetsGo

(* A crash, or an error nobody could record: the row keeps its status.     *)
Abandon == /\ ~Free
           /\ LetsGo
           /\ UNCHANGED <<stage, asleep>>

Delete(c) == /\ stage' = [stage EXCEPT ![c] = "ABSENT"]
             /\ asleep' = asleep \ {c}
             /\ UNCHANGED <<hand, reached>>

Next == \/ Abandon
        \/ \E sleeps \in BOOLEAN : Advance(sleeps)
        \/ \E c \in Cve : Arrive(c) \/ TakeUp(c) \/ Fail(c) \/ Delete(c)

Spec == Init /\ [][Next]_lifecycle
=============================================================================
