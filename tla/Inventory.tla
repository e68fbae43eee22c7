----------------------------- MODULE Inventory -----------------------------
(***************************************************************************)
(* The Internal systems catalog and its teachers: the CSV file, the CMDB   *)
(* (ITNM works the same) and Sonatype IQ (app/services/inventory_sync.py,  *)
(* app/api/inventory.py).  A synchronisation looks every row of its list   *)
(* up in the catalog and stores at the end, in a session that flushes      *)
(* nothing before its commit: it sees neither the rows it is about to add  *)
(* nor those of another session.  sync_all runs under SYNC_LOCK; the       *)
(* upload of a CSV and the thread started by Settings do not.              *)
(***************************************************************************)
EXTENDS Naturals, Sequences, FiniteSets

CONSTANTS Key,                  \* vendor, product, version and name of a system
          Offers,               \* lists a teacher may hold
          MaxChanges            \* bound: changes by people and restarts

Remote == {"cmdb", "sonatype"}
Source == Remote \cup {"csv"}
Origin == Source \cup {"manual"}

ListOf(s) == IF s = "sonatype" \* harvest_catalog leaves repetitions out
               THEN {l \in Offers : \A i, j \in DOMAIN l : l[i] = l[j] => i = j}
               ELSE Offers

ASSUME InventoryAssumption ==
  /\ Offers \subseteq Seq(Key)
  /\ <<>> \in Offers
  /\ MaxChanges \in Nat

VARIABLES rows,                 \* rows[o][k]: assets rows: 0, 1, or 2 for more
          offer,                \* what each teacher holds; <<>>: no CSV file
          failed,               \* last_error of each source is set
          lock,                 \* who holds SYNC_LOCK, or "free"
          job,                  \* the synchronisations under way
          changes

inventoryVars == <<rows, offer, failed, lock, job, changes>>

(* The minute's tick, Sync now, the thread of Settings, and the upload.    *)
Locking == {"tick", "now"}
Jobs == Locking \cup {"thread", "upload"}

(* at: what it does.  left: sources to come.  src, rest, new: the source   *)
(* it is at, what it has to look up, what it will add.  held: rows it will *)
(* update; gone: one of them has been deleted.                             *)
Idle == [at |-> "idle", left |-> {}, src |-> "csv", rest |-> <<>>, new |-> <<>>,
         held |-> {}, gone |-> FALSE]

Job == [at : {"idle", "choosing", "looking"}, left : SUBSET Source, src : Source,
        rest : Seq(Key), new : Seq(Key), held : SUBSET Key, gone : BOOLEAN]

InventoryTypeOK ==
  /\ rows \in [Origin -> [Key -> 0..2]]
  /\ offer \in [Source -> Offers] /\ \A s \in Source : offer[s] \in ListOf(s)
  /\ failed \in [Source -> BOOLEAN]
  /\ lock \in Locking \cup {"free"}
  /\ job \in [Jobs -> Job]
  /\ changes \in 0..MaxChanges

InventoryInit ==
  /\ rows = [o \in Origin |-> [k \in Key |-> 0]]
  /\ offer = [s \in Source |-> <<>>]
  /\ failed = [s \in Source |-> FALSE]
  /\ lock = "free"
  /\ job = [j \in Jobs |-> Idle]
  /\ changes = 0

-----------------------------------------------------------------------------
Occurs(l, k) == Cardinality({i \in DOMAIN l : l[i] = k})

(* Mutant: counts on.                                                      *)
MoreExactly(n, l, k) == n + Occurs(l, k)

More(n, l, k) == IF n + Occurs(l, k) > 2 THEN 2 ELSE n + Occurs(l, k)
Added(s, l) == [rows EXCEPT ![s] = [k \in Key |-> More(rows[s][k], l, k)]]

Becomes(j, new) == job' = [job EXCEPT ![j] = new]

(* sync_all ends, however it ends.                                         *)
Quit(j) == /\ Becomes(j, Idle)
           /\ lock' = IF j \in Locking THEN "free" ELSE lock

(* A source is over; sync_all goes on to the next.                         *)
SourceOver(j) ==
  IF j \in Locking
    THEN /\ Becomes(j, [Idle EXCEPT !.at = "choosing", !.left = job[j].left])
         /\ lock' = lock
    ELSE Quit(j)

-----------------------------------------------------------------------------
(* Mutant: nobody asks for the lock.                                       *)
BeginUnlocked(j, wanted) ==
  /\ j \in Locking
  /\ job[j].at = "idle"
  /\ lock' = j
  /\ Becomes(j, [Idle EXCEPT !.at = "choosing", !.left = wanted])
  /\ UNCHANGED <<rows, offer, failed, changes>>

(* sync_all.  With the lock taken the request is refused, the tick does    *)
(* nothing.                                                                *)
Begin(j, wanted) ==
  /\ j \in Locking
  /\ job[j].at = "idle"
  /\ lock = "free"
  /\ lock' = j
  /\ Becomes(j, [Idle EXCEPT !.at = "choosing", !.left = wanted])
  /\ UNCHANGED <<rows, offer, failed, changes>>

(* start_sonatype_sync, after Sonatype is saved.                           *)
StartThread ==
  /\ job["thread"].at = "idle"
  /\ changes < MaxChanges
  /\ changes' = changes + 1
  /\ Becomes("thread", [Idle EXCEPT !.at = "choosing", !.left = {"sonatype"}])
  /\ UNCHANGED <<rows, offer, failed, lock>>

(* import_csv_text of an upload: the file is written first.                *)
Upload(l) ==
  /\ job["upload"].at = "idle"
  /\ changes < MaxChanges
  /\ changes' = changes + 1
  /\ l # <<>>
  /\ offer' = [offer EXCEPT !["csv"] = l]
  /\ Becomes("upload", [Idle EXCEPT !.at = "looking", !.src = "csv", !.rest = l])
  /\ UNCHANGED <<rows, failed, lock>>

Rank(s) == CASE s = "csv" -> 1 [] s = "cmdb" -> 2 [] OTHER -> 3
Turn(j, s) == /\ job[j].at = "choosing"
              /\ s \in job[j].left
              /\ \A t \in job[j].left : Rank(s) <= Rank(t)

(* The list is read, or the teacher answers with an error.                 *)
Fetch(j, s) ==
  /\ Turn(j, s)
  /\ ~(s = "csv" /\ offer[s] = <<>>)
  /\ Becomes(j, [Idle EXCEPT !.at = "looking", !.left = job[j].left \ {s},
                             !.src = s, !.rest = offer[s]])
  /\ UNCHANGED <<rows, offer, failed, lock, changes>>

NoCsvFile(j) ==
  /\ Turn(j, "csv")
  /\ offer["csv"] = <<>>
  /\ Becomes(j, [job[j] EXCEPT !.left = @ \ {"csv"}])
  /\ UNCHANGED <<rows, offer, failed, lock, changes>>

FetchFails(j, s) ==
  /\ Turn(j, s)
  /\ s \in Remote
  /\ changes < MaxChanges
  /\ changes' = changes + 1
  /\ failed' = [failed EXCEPT ![s] = TRUE]
  /\ IF j \in Locking THEN Becomes(j, [job[j] EXCEPT !.left = @ \ {s}]) /\ lock' = lock
                      ELSE Quit(j)
  /\ UNCHANGED <<rows, offer>>

-----------------------------------------------------------------------------
(* upsert_asset for the next row of the list.                              *)

Looking(j) == job[j].at = "looking" /\ job[j].rest # <<>>
Next1(j) == Head(job[j].rest)
Copies(j) == rows[job[j].src][Next1(j)]

(* An unknown row will be added, a known one updated; what a remote        *)
(* teacher knows already is left as it is.                                 *)
LookUp(j) ==
  /\ Looking(j)
  /\ Copies(j) < 2
  /\ Becomes(j, [job[j] EXCEPT
       !.rest = Tail(@),
       !.new = IF Copies(j) = 0 THEN Append(@, Next1(j)) ELSE @,
       !.held = IF Copies(j) = 1 /\ job[j].src = "csv" THEN @ \cup {Next1(j)} ELSE @])
  /\ UNCHANGED <<rows, offer, failed, lock, changes>>

(* Mutant: the error ends the whole synchronisation.                       *)
LookUpFailsHard(j) ==
  /\ Looking(j)
  /\ Copies(j) = 2
  /\ ~job[j].gone
  /\ rows' = Added(job[j].src, job[j].new)
  /\ failed' = [failed EXCEPT ![job[j].src] = TRUE]
  /\ Quit(j)
  /\ UNCHANGED <<offer, changes>>

(* one_or_none finds several: the list is given up.  _record_error commits *)
(* the error, and the rows added so far with it; an upload stores nothing. *)
LookUpFails(j) ==
  /\ Looking(j)
  /\ Copies(j) = 2
  /\ ~job[j].gone
  /\ IF j = "upload" THEN UNCHANGED <<rows, failed>>
                     ELSE /\ rows' = Added(job[j].src, job[j].new)
                          /\ failed' = [failed EXCEPT ![job[j].src] = TRUE]
  /\ SourceOver(j)
  /\ UNCHANGED <<offer, changes>>

Store(j) ==
  /\ job[j].at = "looking" /\ job[j].rest = <<>>
  /\ ~job[j].gone
  /\ rows' = Added(job[j].src, job[j].new)
  /\ failed' = [failed EXCEPT ![job[j].src] = FALSE]
  /\ SourceOver(j)
  /\ UNCHANGED <<offer, changes>>

(* An UPDATE of a deleted row fails the commit, and every use of the       *)
(* session after it: nothing is stored or recorded, sync_all gives up.     *)
StoreFails(j) ==
  /\ job[j].at = "looking"
  /\ job[j].gone
  /\ Looking(j) => Copies(j) = 2
  /\ Quit(j)
  /\ UNCHANGED <<rows, offer, failed, changes>>

Finish(j) ==
  /\ job[j].at = "choosing"
  /\ job[j].left = {}
  /\ Quit(j)
  /\ UNCHANGED <<rows, offer, failed, changes>>

-----------------------------------------------------------------------------
(* People, on the Internal systems page; the teachers' own lists change;   *)
(* the process starts again.                                               *)

ByHand == /\ changes < MaxChanges
          /\ changes' = changes + 1
          /\ UNCHANGED <<offer, lock>>

(* One row fewer; of several, there may be several still.                  *)
Fewer(n) == IF n = 2 THEN {1, 2} ELSE {n - 1}
Losing(o, gone) ==
  job' = [j \in Jobs |->
            [job[j] EXCEPT !.gone = @ \/ (job[j].src = o /\ job[j].held \cap gone # {})]]

AddAsset(k) ==
  /\ ByHand
  /\ rows' = [rows EXCEPT !["manual"][k] = More(@, <<k>>, k)]
  /\ UNCHANGED <<failed, job>>

(* save_manual_asset of a row: a remote teacher's becomes a manual one.    *)
EditAsset(o, k, l) ==
  /\ ByHand
  /\ rows[o][k] > 0
  /\ LET p == IF o \in Remote THEN "manual" ELSE o
     IN  \E n \in Fewer(rows[o][k]) :
           LET less == [rows EXCEPT ![o][k] = n]
           IN  rows' = [less EXCEPT ![p][l] = More(@, <<l>>, l)]
  /\ UNCHANGED <<failed, job>>

DeleteAssets(o, k) ==
  /\ ByHand
  /\ rows[o][k] > 0
  /\ \E n \in Fewer(rows[o][k]) : rows' = [rows EXCEPT ![o][k] = n]
  /\ Losing(o, {k})
  /\ UNCHANGED failed

(* wipe_internal_systems: the rows of inventory_sync_state go as well.     *)
WipeInternalSystems ==
  /\ ByHand
  /\ rows' = [o \in Origin |-> [k \in Key |-> 0]]
  /\ failed' = [s \in Source |-> FALSE]
  /\ job' = [j \in Jobs |-> [job[j] EXCEPT !.gone = @ \/ job[j].held # {}]]

TeacherChanges(s, l) ==
  /\ changes < MaxChanges
  /\ changes' = changes + 1
  /\ offer' = [offer EXCEPT ![s] = l]
  /\ UNCHANGED <<rows, failed, lock, job>>

RestartProcess ==
  /\ changes < MaxChanges
  /\ changes' = changes + 1
  /\ job' = [j \in Jobs |-> Idle]
  /\ lock' = "free"
  /\ UNCHANGED <<rows, offer, failed>>

-----------------------------------------------------------------------------
JobStep(j) ==
  \/ NoCsvFile(j) \/ LookUp(j) \/ LookUpFails(j) \/ Store(j) \/ StoreFails(j) \/ Finish(j)
  \/ \E s \in Source : Fetch(j, s)

Tick == Begin("tick", Source)
SyncNow == Begin("now", Source) \/ \E s \in Source : Begin("now", {s})

People ==
  \/ StartThread \/ WipeInternalSystems
  \/ \E l \in Offers : Upload(l) \/ \E s \in Remote : l \in ListOf(s) /\ TeacherChanges(s, l)
  \/ \E k \in Key : \/ AddAsset(k)
                    \/ \E o \in Origin : DeleteAssets(o, k) \/ \E l \in Key : EditAsset(o, k, l)

InventoryNext ==
  \/ Tick \/ SyncNow \/ People \/ RestartProcess
  \/ \E j \in Jobs : JobStep(j) \/ \E s \in Source : FetchFails(j, s)

InventorySpec == InventoryInit /\ [][InventoryNext]_inventoryVars

(* Threads go on, and the scheduler's job comes every minute: while Sync   *)
(* now is pressed again and again it finds the lock free again and again.  *)
InventoryFairness ==
  /\ \A j \in Jobs : WF_inventoryVars(JobStep(j))
  /\ SF_inventoryVars(Tick)
InventoryLiveSpec == InventorySpec /\ InventoryFairness

-----------------------------------------------------------------------------
(* What only sync_all teaches stays single: as long as the CMDB lists no   *)
(* system twice, no overlap of the tick, Sync now, edits, deletions and    *)
(* restarts gives a system two CMDB rows, which one_or_none would trip     *)
(* over in every synchronisation from then on.                             *)
NoTwins == \A k \in Key : rows["cmdb"][k] < 2

(* Once its list no longer changes and people leave the catalog alone,     *)
(* every system the CMDB lists is in the catalog: errors of other sources, *)
(* failed fetches and crashes on the way do not stop it.                   *)
Learned == \A k \in Key :
  <>[]((\E i \in DOMAIN offer["cmdb"] : offer["cmdb"][i] = k) => rows["cmdb"][k] > 0)
=============================================================================
