----------------------------- MODULE Enrichment -----------------------------
(***************************************************************************)
(* CVEs that wait for intelligence (app/pipeline/step3_enrich.py, the      *)
(* NVD and EPSS clients, app/services/intel_sources.py) and the loop that  *)
(* looks them up again (app/workers/queue.py).  Each round takes the Limit *)
(* labelled rows that were updated longest ago, and of these the ones      *)
(* whose back-off is over: the order of the rows decides who gets a turn.  *)
(* One attempt is one transaction; the settings may change while it waits  *)
(* for an answer.                                                          *)
(***************************************************************************)
EXTENDS Naturals, FiniteSets, Sequences, SequencesExt

CONSTANTS Cve, NoCve,
          Lookup,               \* lookups there are: "nvd", "epss"
          Limit,                \* rows a round looks at (40 in the code)
          Base, Unit,           \* ENRICHMENT_RETRY_SECONDS; seconds of a tick
          MaxAttempts,          \* attempts after which the back-off stays
          Poison,               \* CVEs whose attempt may raise
          MaxSwitches           \* bound: settings saved, CVEs fed and deleted

(* Mutant: no cap.                                                         *)
NextDelayUncapped(n, base) ==
  (IF base < 30 THEN 30 ELSE base) * 2 ^ (IF n > 5 THEN 5 ELSE n)

(* _next_retry_at, in seconds.                                             *)
NextDelay(n, base) ==
  LET d == (IF base < 30 THEN 30 ELSE base) * 2 ^ (IF n > 5 THEN 5 ELSE n)
  IN  IF d > 1800 THEN 1800 ELSE d

ASSUME EnrichmentAssumption ==
  /\ NoCve \notin Cve
  /\ Limit \in Nat \ {0}
  /\ Base \in Nat /\ Unit \in 1..1800
  /\ MaxAttempts \in Nat /\ (MaxAttempts >= 5 \/ Base * 2 ^ MaxAttempts >= 1800)
  /\ Poison \subseteq Cve
  /\ MaxSwitches \in Nat

VARIABLES
  enrichmentOn,                 \* ENRICHMENT_ENABLED
  active,                       \* lookups switched on
  answering,                    \* NVD and EPSS answer, and in full
  stage,                        \* where each CVE stands
  has,                          \* lookups whose fields the row has
  attempts, delay,              \* in the blob; delay: ticks until retry_at
  before,                       \* rows by updated_at: pairs, the older one first
  doing,                        \* what the worker does
  ours, fields, left,           \* the CVE in hand, its fields, lookups to ask
  retrying, round,              \* it is a retry; the ids of the round to come
  switches

row == <<stage, has, attempts, delay, before>>
hand == <<doing, ours, fields, left, retrying, round>>
intel == <<enrichmentOn, active, answering, switches>>
enrichVars == <<intel, row, hand>>

(* "waiting": labelled; "limbo": flagged in the blob but not labelled, as  *)
(* enrichment was off at the last attempt; "midway": neither, and not on   *)
(* its way to matching; "passed": handed to matching.                      *)
Stage == {"absent", "midway", "waiting", "limbo", "passed", "failed"}
Flagged(c) == stage[c] \in {"waiting", "limbo"}
Rows == {c \in Cve : stage[c] # "absent"}

(* Of two rows one was updated first.                                      *)
InOrder ==
  /\ before \subseteq Rows \X Rows
  /\ \A c, d \in Rows : c # d => (<<c, d>> \in before <=> <<d, c>> \notin before)
  /\ \A c, d, e \in Rows :
       <<c, d>> \in before /\ <<d, e>> \in before => <<c, e>> \in before
  /\ \A c \in Rows : <<c, c>> \notin before

EnrichTypeOK ==
  /\ enrichmentOn \in BOOLEAN /\ active \subseteq Lookup /\ answering \in BOOLEAN
  /\ stage \in [Cve -> Stage]
  /\ has \in [Cve -> SUBSET Lookup]
  /\ attempts \in [Cve -> 0..MaxAttempts]
  /\ delay \in [Cve -> 0..1800 \div Unit]
  /\ InOrder
  /\ doing \in {"idle", "round", "asking", "skipping"}
  /\ ours \in (IF doing \in {"idle", "round"} THEN {NoCve} ELSE Cve)
  /\ fields \subseteq Lookup /\ left \subseteq Lookup
  /\ retrying \in BOOLEAN
  /\ round \in Seq(Cve)
  /\ switches \in 0..MaxSwitches

EnrichInit ==
  /\ enrichmentOn = TRUE /\ active = Lookup /\ answering = FALSE
  /\ stage = [c \in Cve |-> "absent"]
  /\ has = [c \in Cve |-> {}]
  /\ attempts = [c \in Cve |-> 0]
  /\ delay = [c \in Cve |-> 0]
  /\ before = {}
  /\ doing = "idle" /\ ours = NoCve /\ fields = {} /\ left = {}
  /\ retrying = FALSE /\ round = <<>>
  /\ switches = 0

-----------------------------------------------------------------------------
(* The order of the rows other than c.                                     *)
Without(c) == before \cap ((Cve \ {c}) \X (Cve \ {c}))

(* The row is written: it is now the one updated last.                     *)
Put(c, s) == /\ stage' = [stage EXCEPT ![c] = s]
             /\ before' = Without(c) \cup ((Rows \ {c}) \X {c})

(* The attempt is over; a retry goes on with its round.                    *)
HandEmpty == /\ doing' = IF retrying THEN "round" ELSE "idle"
             /\ ours' = NoCve /\ fields' = {} /\ left' = {}
             /\ UNCHANGED <<retrying, round>>

(* lookup_active: an enabled row, or the flag in .env; none while          *)
(* enrichment is off.                                                      *)
LookupActive == IF enrichmentOn THEN active ELSE {}

(* Mutant: a lookup that is switched off leaves a gap too.                 *)
GapsOfAll(known) == Lookup \ known

(* enrichment_gaps, at this moment.                                        *)
Gaps(known) == LookupActive \ known

(* enrich_cve reads the master switch once, the lookups when it needs them. *)
Ask(c, known) == /\ doing' = IF enrichmentOn THEN "asking" ELSE "skipping"
                 /\ ours' = c
                 /\ fields' = known
                 /\ left' = LookupActive

(* run_event: a new CVE, or one that is fed again, with the fields it      *)
(* brings.                                                                 *)
Feed(c, known) ==
  /\ doing = "idle"
  /\ switches < MaxSwitches
  /\ switches' = switches + 1
  /\ Ask(c, has[c] \cup known)
  /\ retrying' = FALSE /\ round' = <<>>
  /\ IF stage[c] = "absent" THEN Put(c, "midway") ELSE UNCHANGED <<stage, before>>
  /\ UNCHANGED <<enrichmentOn, active, answering, has, attempts, delay>>

(* Enrichment is off: the flag stays as it is.                             *)
Skip ==
  /\ doing = "skipping"
  /\ Put(ours, IF Flagged(ours) THEN "limbo" ELSE "passed")
  /\ has' = [has EXCEPT ![ours] = IF Flagged(ours) THEN fields ELSE {}]
  /\ HandEmpty
  /\ UNCHANGED <<intel, attempts, delay>>

(* NVD's record replaces the fields the row had; a record may leave gaps.  *)
(* No record, or an error: the fields stay.                                *)
Answers(l) == IF answering THEN {fields \cup {l}}
              ELSE {fields \cup {l}, fields} \cup (IF l = "nvd" THEN {fields \ {l}} ELSE {})
Hear(l) ==
  /\ doing = "asking"
  /\ l \in left
  /\ l # "nvd" => "nvd" \notin left
  /\ left' = left \ {l}
  /\ fields' \in (IF l \in LookupActive THEN Answers(l) ELSE {fields})
  /\ UNCHANGED <<intel, row, doing, ours, retrying, round>>

(* AI may name vendor and product where NVD did not.                       *)
Judged == {fields} \cup (IF "nvd" \in Lookup THEN {fields \cup {"nvd"}} ELSE {})

(* Attempts are counted as far as they lengthen the back-off.              *)
Wait ==
  /\ doing = "asking" /\ left = {}
  /\ \E known \in Judged :
       /\ Gaps(known) # {}
       /\ has' = [has EXCEPT ![ours] = known]
  /\ Put(ours, "waiting")
  /\ attempts' = [attempts EXCEPT ![ours] = IF @ < MaxAttempts THEN @ + 1 ELSE @]
  /\ delay' = [delay EXCEPT ![ours] = NextDelay(attempts[ours], Base) \div Unit]
  /\ HandEmpty
  /\ UNCHANGED intel

Complete ==
  /\ doing = "asking" /\ left = {}
  /\ \E known \in Judged : Gaps(known) = {}
  /\ Put(ours, "passed")
  /\ has' = [has EXCEPT ![ours] = {}]
  /\ attempts' = [attempts EXCEPT ![ours] = 0]
  /\ delay' = [delay EXCEPT ![ours] = 0]
  /\ HandEmpty
  /\ UNCHANGED intel

(* The attempt raises: an event marks the CVE failed, a retry leaves the   *)
(* row as it was, its place among the rows included.                       *)
Raise ==
  /\ doing \in {"asking", "skipping"}
  /\ ours \in Poison
  /\ IF retrying THEN UNCHANGED row
       ELSE /\ Put(ours, "failed")
            /\ UNCHANGED <<has, attempts, delay>>
  /\ HandEmpty
  /\ UNCHANGED intel

-----------------------------------------------------------------------------
(* _retry_waiting_enrichment.                                              *)

First(S) == {c \in S : Cardinality({d \in S : <<d, c>> \in before}) < Limit}
Ready(S) == {c \in S : delay[c] = 0}

(* The one list of S that is ordered by updated_at.                        *)
Listings(S) == {s \in SeqOf(S, Limit) :
                  /\ ToSet(s) = S
                  /\ \A i, j \in DOMAIN s : i < j => <<s[i], s[j]>> \in before}

(* Mutant: the newest first.                                               *)
DueNewest ==
  LET waiting == {c \in Cve : stage[c] = "waiting"}
  IN  Listings(Ready({c \in waiting :
                        Cardinality({d \in waiting : <<c, d>> \in before}) < Limit}))

(* due_waiting_enrichment: unlabelled rows that stand at enrichment are    *)
(* looked through where there are few labelled ones.                       *)
DueEnrichment ==
  LET flagged == First({c \in Cve : stage[c] = "waiting"})
      others == First({c \in Cve : stage[c] \in {"midway", "limbo"}})
      extras == IF Cardinality(flagged) < Limit THEN {c \in others : stage[c] = "limbo"}
                                                ELSE {}
  IN  {f \o e : f \in Listings(Ready(flagged)), e \in Listings(Ready(extras))}

ListDue ==
  /\ doing = "idle"
  /\ round' \in DueEnrichment
  /\ retrying' = TRUE
  /\ doing' = "round"
  /\ UNCHANGED <<intel, row, ours, fields, left>>

RetryNext ==
  /\ doing = "round" /\ round # <<>>
  /\ round' = Tail(round)
  /\ IF Flagged(Head(round)) THEN Ask(Head(round), has[Head(round)])
                             ELSE UNCHANGED <<doing, ours, fields, left>>
  /\ UNCHANGED <<intel, row, retrying>>

RoundOver ==
  /\ doing = "round" /\ round = <<>>
  /\ doing' = "idle" /\ retrying' = FALSE
  /\ UNCHANGED <<intel, row, ours, fields, left, round>>

-----------------------------------------------------------------------------
(* The clock, the operator, the outside.                                   *)

PassTime ==
  /\ \E c \in Cve : delay[c] > 0
  /\ delay' = [c \in Cve |-> IF delay[c] > 0 THEN delay[c] - 1 ELSE 0]
  /\ UNCHANGED <<intel, stage, has, attempts, before, hand>>

Switch == switches < MaxSwitches /\ switches' = switches + 1

SaveEnrichment == /\ Switch
                  /\ enrichmentOn' = ~enrichmentOn
                  /\ UNCHANGED <<active, answering, row, hand>>

SaveIntelSources(on) == /\ Switch
                        /\ active' = on
                        /\ UNCHANGED <<enrichmentOn, answering, row, hand>>

OutageBeginsOrEnds == /\ Switch
                      /\ answering' = ~answering
                      /\ UNCHANGED <<enrichmentOn, active, row, hand>>

(* The row of the CVE in hand holds the write lock.                        *)
Delete(c) ==
  /\ Switch
  /\ doing \in {"idle", "round"}
  /\ stage[c] # "absent"
  /\ stage' = [stage EXCEPT ![c] = "absent"]
  /\ before' = Without(c)
  /\ has' = [has EXCEPT ![c] = {}]
  /\ attempts' = [attempts EXCEPT ![c] = 0]
  /\ delay' = [delay EXCEPT ![c] = 0]
  /\ UNCHANGED <<enrichmentOn, active, answering, hand>>

(* The process dies and is started again.                                  *)
Reboot ==
  /\ Switch
  /\ doing # "idle"
  /\ doing' = "idle" /\ ours' = NoCve /\ fields' = {} /\ left' = {}
  /\ retrying' = FALSE /\ round' = <<>>
  /\ UNCHANGED <<enrichmentOn, active, answering, row>>

-----------------------------------------------------------------------------
EnrichStep ==
  \/ Skip \/ Wait \/ Complete \/ Raise \/ ListDue \/ RetryNext \/ RoundOver
  \/ \E l \in Lookup : Hear(l)

EnrichNext ==
  \/ EnrichStep \/ PassTime
  \/ SaveEnrichment \/ OutageBeginsOrEnds \/ Reboot
  \/ \E on \in SUBSET Lookup : SaveIntelSources(on)
  \/ \E c \in Cve : Delete(c) \/ \E known \in SUBSET Lookup : Feed(c, known)

EnrichSpec == EnrichInit /\ [][EnrichNext]_enrichVars
EnrichFairness == WF_enrichVars(EnrichStep) /\ WF_enrichVars(PassTime)
EnrichLiveSpec == EnrichSpec /\ EnrichFairness

-----------------------------------------------------------------------------
(* Rows that wait and are not due, and rows whose attempt raises every     *)
(* time, take places among the Limit that a round looks at.  As long as    *)
(* fewer than Limit raise, a labelled CVE gets its turn all the same.      *)
EveryoneRetried ==
  \A c \in Cve \ Poison : stage[c] = "waiting" ~> (stage[c] # "waiting" \/ ours = c)

(* Once NVD and EPSS answer in full, every CVE that waits goes on to       *)
(* matching: no switch, outage or restart before leaves one behind.        *)
EveryoneReleased ==
  <>[](answering /\ enrichmentOn) =>
    \A c \in Cve \ Poison : stage[c] = "waiting" ~> stage[c] # "waiting"
=============================================================================
