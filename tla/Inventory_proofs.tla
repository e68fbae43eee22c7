-------------------------- MODULE Inventory_proofs --------------------------
(***************************************************************************)
(* No twins in the CMDB's part of the catalog.  upsert_rows sees neither   *)
(* the rows it will add nor those of another session; that it doubles      *)
(* nothing rests on SYNC_LOCK, on lists without repetitions and on the     *)
(* fact that nobody else makes a row of the CMDB's.  And nothing is left   *)
(* out: what a list names is in the catalog once the list is over.         *)
(***************************************************************************)
EXTENDS Inventory, FiniteSetTheorems, TLAPS

LEMMA OccursType ==
  ASSUME NEW l \in Seq(Key), NEW k PROVE Occurs(l, k) \in Nat
<1>1. IsFiniteSet(1..Len(l))
  BY FS_Interval
<1>2. {i \in DOMAIN l : l[i] = k} \in SUBSET (1..Len(l))
  OBVIOUS
<1>3. IsFiniteSet({i \in DOMAIN l : l[i] = k})
  BY <1>1, <1>2, FS_Subset
<1> QED
  BY <1>3, FS_CardinalityType DEF Occurs

LEMMA OccursNever ==
  ASSUME NEW l \in Seq(Key), NEW k, \A i \in DOMAIN l : l[i] # k PROVE Occurs(l, k) = 0
<1>1. {i \in DOMAIN l : l[i] = k} = {}
  OBVIOUS
<1> QED
  BY <1>1, FS_EmptySet DEF Occurs

Distinct(l) == \A i, m \in DOMAIN l : l[i] = l[m] => i = m

LEMMA OccursOnce ==
  ASSUME NEW l \in Seq(Key), Distinct(l), NEW i \in DOMAIN l PROVE Occurs(l, l[i]) = 1
<1>1. {m \in DOMAIN l : l[m] = l[i]} = {i}
  BY DEF Distinct
<1> QED
  BY <1>1, FS_Singleton DEF Occurs

LEMMA MoreType ==
  ASSUME NEW n \in 0..2, NEW l \in Seq(Key), NEW k PROVE More(n, l, k) \in 0..2
  BY OccursType DEF More

LEMMA AddedType ==
  ASSUME InventoryTypeOK, NEW s \in Source, NEW l \in Seq(Key)
  PROVE  Added(s, l) \in [Origin -> [Key -> 0..2]]
<1>1. [k \in Key |-> More(rows[s][k], l, k)] \in [Key -> 0..2]
  BY MoreType DEF InventoryTypeOK, Origin
<1> QED
  BY <1>1 DEF InventoryTypeOK, Added

LEMMA IdleType == /\ Idle \in Job
                  /\ \A L \in SUBSET Source : [Idle EXCEPT !.at = "choosing", !.left = L] \in Job
<1>1. <<>> \in Seq(Key) /\ "csv" \in Source
  BY DEF Source
<1>2. Idle \in Job
  BY <1>1 DEF Idle, Job
<1>3. ASSUME NEW L \in SUBSET Source
      PROVE  [Idle EXCEPT !.at = "choosing", !.left = L] \in Job
  BY <1>2, <1>3 DEF Job
<1> QED
  BY <1>2, <1>3

LEMMA FewerType == ASSUME NEW n \in 0..2, n > 0 PROVE Fewer(n) \subseteq 0..2
  BY DEF Fewer

-----------------------------------------------------------------------------
(* Quit and SourceOver leave a job of the right form and free the lock.    *)
LEMMA OverType ==
  ASSUME InventoryTypeOK, NEW j \in Jobs, Quit(j) \/ SourceOver(j)
  PROVE  job' \in [Jobs -> Job] /\ lock' \in Locking \cup {"free"}
<1>1. job[j].left \in SUBSET Source
  BY DEF InventoryTypeOK, Job
<1>2. \E new \in Job : Becomes(j, new)
  BY <1>1, IdleType DEF Quit, SourceOver
<1> QED
  BY <1>2 DEF InventoryTypeOK, Quit, SourceOver, Becomes

LEMMA InventoryTypeInit == InventoryInit => InventoryTypeOK
<1>1. 0 \in 0..MaxChanges /\ <<>> \in Offers /\ \A s \in Source : <<>> \in ListOf(s)
  BY InventoryAssumption DEF ListOf
<1>2. [o \in Origin |-> [k \in Key |-> 0]] \in [Origin -> [Key -> 0..2]]
  OBVIOUS
<1> QED
  BY <1>1, <1>2, IdleType DEF InventoryInit, InventoryTypeOK

LEMMA JobTypeStep ==
  ASSUME InventoryTypeOK, NEW j \in Jobs, JobStep(j) PROVE InventoryTypeOK'
<1>1. job[j] \in Job
  BY DEF InventoryTypeOK
<1>2. CASE NoCsvFile(j)
  <2>1. [job[j] EXCEPT !.left = @ \ {"csv"}] \in Job
    BY <1>1 DEF Job
  <2> QED
    BY <1>2, <2>1 DEF NoCsvFile, Becomes, InventoryTypeOK
<1>3. CASE LookUp(j)
  <2>1. Next1(j) \in Key /\ Tail(job[j].rest) \in Seq(Key)
    BY <1>1, <1>3 DEF LookUp, Looking, Next1, Job
  <2> DEFINE new == IF Copies(j) = 0 THEN Append(job[j].new, Next1(j)) ELSE job[j].new
             held == IF Copies(j) = 1 /\ job[j].src = "csv" THEN job[j].held \cup {Next1(j)}
                                                           ELSE job[j].held
  <2>2. new \in Seq(Key) /\ held \in SUBSET Key
    BY <1>1, <2>1 DEF Job
  <2>3. job' = [job EXCEPT ![j] = [job[j] EXCEPT !.rest = Tail(job[j].rest), !.new = new, !.held = held]]
    BY <1>3 DEF LookUp, Becomes
  <2> HIDE DEF new, held
  <2>4. [job[j] EXCEPT !.rest = Tail(job[j].rest), !.new = new, !.held = held] \in Job
    BY <1>1, <2>1, <2>2 DEF Job
  <2> QED
    BY <1>3, <2>3, <2>4 DEF LookUp, InventoryTypeOK
<1>4. CASE LookUpFails(j)
  <2>1. Added(job[j].src, job[j].new) \in [Origin -> [Key -> 0..2]] /\ job[j].src \in Source
    BY <1>1, AddedType DEF Job
  <2> QED
    BY <1>4, <2>1, OverType DEF LookUpFails, InventoryTypeOK
<1>5. CASE Store(j)
  <2>1. Added(job[j].src, job[j].new) \in [Origin -> [Key -> 0..2]] /\ job[j].src \in Source
    BY <1>1, AddedType DEF Job
  <2> QED
    BY <1>5, <2>1, OverType DEF Store, InventoryTypeOK
<1>6. CASE StoreFails(j) \/ Finish(j)
  BY <1>6, OverType DEF StoreFails, Finish, InventoryTypeOK
<1>7. ASSUME NEW s \in Source, Fetch(j, s) PROVE InventoryTypeOK'
  <2>1. offer[s] \in Seq(Key)
    BY InventoryAssumption DEF InventoryTypeOK
  <2>2. [Idle EXCEPT !.at = "looking", !.left = job[j].left \ {s}, !.src = s, !.rest = offer[s]] \in Job
    BY <1>1, <2>1, IdleType DEF Job
  <2> QED
    BY <1>7, <2>2 DEF Fetch, Becomes, InventoryTypeOK
<1> QED
  BY <1>2, <1>3, <1>4, <1>5, <1>6, <1>7 DEF JobStep

LEMMA PeopleType ==
  ASSUME InventoryTypeOK, ByHand, NEW o \in Origin, NEW k \in Key,
         \/ AddAsset(k) \/ DeleteAssets(o, k) \/ \E l \in Key : EditAsset(o, k, l)
  PROVE  InventoryTypeOK'
<1>1. changes' \in 0..MaxChanges /\ UNCHANGED <<offer, lock>>
  BY InventoryAssumption DEF ByHand, InventoryTypeOK
<1>2. \A l \in Key : <<l>> \in Seq(Key)
  OBVIOUS
<1>3. CASE AddAsset(k)
  <2>1. More(rows["manual"][k], <<k>>, k) \in 0..2
    BY <1>2, MoreType DEF InventoryTypeOK, Origin
  <2> QED
    BY <1>1, <1>3, <2>1 DEF AddAsset, InventoryTypeOK
<1>4. CASE DeleteAssets(o, k)
  <2>1. PICK n \in Fewer(rows[o][k]) : rows' = [rows EXCEPT ![o][k] = n]
    BY <1>4 DEF DeleteAssets
  <2>2. n \in 0..2
    BY <1>4, <2>1, FewerType DEF DeleteAssets, InventoryTypeOK
  <2>3. rows' \in [Origin -> [Key -> 0..2]]
    BY <2>1, <2>2 DEF InventoryTypeOK
  <2>4. job' \in [Jobs -> Job]
    <3>1. ASSUME NEW j \in Jobs, NEW b
          PROVE  [job[j] EXCEPT !.gone = @ \/ b] \in Job
      <4>1. (job[j].gone \/ b) \in BOOLEAN
        BY Zenon
      <4> QED
        BY <4>1 DEF InventoryTypeOK, Job
    <3> QED
      BY <1>4, <3>1 DEF DeleteAssets, Losing
  <2> QED
    BY <1>1, <1>4, <2>3, <2>4 DEF DeleteAssets, InventoryTypeOK
<1>5. ASSUME NEW l \in Key, EditAsset(o, k, l) PROVE InventoryTypeOK'
  <2> DEFINE p == IF o \in Remote THEN "manual" ELSE o
  <2>1. PICK n \in Fewer(rows[o][k]) :
          LET less == [rows EXCEPT ![o][k] = n]
          IN  rows' = [less EXCEPT ![p][l] = More(@, <<l>>, l)]
    BY <1>5 DEF EditAsset
  <2> DEFINE less == [rows EXCEPT ![o][k] = n]
  <2>2. less \in [Origin -> [Key -> 0..2]] /\ p \in Origin
    <3>1. n \in 0..2
      BY <1>5, <2>1, FewerType DEF EditAsset, InventoryTypeOK
    <3> QED
      BY <3>1 DEF InventoryTypeOK, Origin
  <2>3. rows' = [less EXCEPT ![p][l] = More(less[p][l], <<l>>, l)]
    BY <2>1, <2>2
  <2> HIDE DEF less, p
  <2>4. More(less[p][l], <<l>>, l) \in 0..2
    BY <1>2, <2>2, MoreType
  <2>5. rows' \in [Origin -> [Key -> 0..2]]
    BY <2>2, <2>3, <2>4
  <2> QED
    BY <1>1, <1>5, <2>5 DEF EditAsset, InventoryTypeOK
<1> QED
  BY <1>3, <1>4, <1>5

LEMMA InventoryTypeStep ==
  InventoryTypeOK /\ [InventoryNext]_inventoryVars => InventoryTypeOK'
<1> SUFFICES ASSUME InventoryTypeOK, [InventoryNext]_inventoryVars PROVE InventoryTypeOK'
  OBVIOUS
<1>1. ASSUME changes < MaxChanges, changes' = changes + 1 PROVE changes' \in 0..MaxChanges
  BY <1>1, InventoryAssumption DEF InventoryTypeOK
<1>2. ASSUME NEW j \in Jobs, NEW wanted \in SUBSET Source, Begin(j, wanted) PROVE InventoryTypeOK'
  BY <1>2, IdleType DEF Begin, Becomes, InventoryTypeOK
<1>3. CASE StartThread
  <2>1. {"sonatype"} \in SUBSET Source /\ "thread" \in Jobs
    BY DEF Source, Remote, Jobs
  <2> QED
    BY <1>1, <1>3, <2>1, IdleType DEF StartThread, Becomes, InventoryTypeOK
<1>4. ASSUME NEW l \in Offers, Upload(l) PROVE InventoryTypeOK'
  <2>1. [Idle EXCEPT !.at = "looking", !.src = "csv", !.rest = l] \in Job
    <3>1. l \in Seq(Key) /\ "csv" \in Source
      BY InventoryAssumption DEF Source
    <3> QED
      BY <3>1, IdleType DEF Job
  <2>2. offer' \in [Source -> Offers] /\ \A s \in Source : offer'[s] \in ListOf(s)
    BY <1>4 DEF Upload, InventoryTypeOK, ListOf, Source
  <2> QED
    BY <1>1, <1>4, <2>1, <2>2 DEF Upload, Becomes, InventoryTypeOK
<1>5. ASSUME NEW s \in Remote, NEW l \in Offers, l \in ListOf(s), TeacherChanges(s, l)
      PROVE  InventoryTypeOK'
  BY <1>1, <1>5 DEF TeacherChanges, InventoryTypeOK
<1>6. ASSUME NEW o \in Origin, NEW k \in Key,
             \/ AddAsset(k) \/ DeleteAssets(o, k) \/ \E l \in Key : EditAsset(o, k, l)
      PROVE  InventoryTypeOK'
  BY <1>6, PeopleType DEF AddAsset, DeleteAssets, EditAsset
<1>7. CASE WipeInternalSystems
  <2>1. rows' \in [Origin -> [Key -> 0..2]] /\ failed' \in [Source -> BOOLEAN]
    BY <1>7 DEF WipeInternalSystems
  <2>2. job' \in [Jobs -> Job]
    <3>1. ASSUME NEW j \in Jobs, NEW b PROVE [job[j] EXCEPT !.gone = @ \/ b] \in Job
      <4>1. (job[j].gone \/ b) \in BOOLEAN
        BY Zenon
      <4> QED
        BY <4>1 DEF InventoryTypeOK, Job
    <3> QED
      BY <1>7, <3>1 DEF WipeInternalSystems
  <2> QED
    BY <1>1, <1>7, <2>1, <2>2 DEF WipeInternalSystems, ByHand, InventoryTypeOK
<1>8. CASE RestartProcess
  BY <1>1, <1>8, IdleType DEF RestartProcess, InventoryTypeOK
<1>9. ASSUME NEW j \in Jobs, NEW s \in Source, FetchFails(j, s) PROVE InventoryTypeOK'
  <2>1. failed' \in [Source -> BOOLEAN]
    BY <1>9 DEF FetchFails, InventoryTypeOK
  <2>2. CASE j \in Locking
    <3>1. [job[j] EXCEPT !.left = @ \ {s}] \in Job
      BY DEF InventoryTypeOK, Job
    <3> QED
      BY <1>1, <1>9, <2>1, <2>2, <3>1 DEF FetchFails, Becomes, InventoryTypeOK
  <2>3. CASE j \notin Locking
    BY <1>1, <1>9, <2>1, <2>3, OverType DEF FetchFails, InventoryTypeOK
  <2> QED
    BY <2>2, <2>3
<1>10. CASE UNCHANGED inventoryVars
  BY <1>10 DEF inventoryVars, InventoryTypeOK
<1>11. Source \in SUBSET Source /\ (\A s \in Source : {s} \in SUBSET Source)
       /\ "tick" \in Jobs /\ "now" \in Jobs /\ Remote \subseteq Source
  BY DEF Source, Jobs, Locking
<1> QED
  BY <1>2, <1>3, <1>4, <1>5, <1>6, <1>7, <1>8, <1>9, <1>10, <1>11, JobTypeStep
     DEF InventoryNext, Tick, SyncNow, People, Origin

(* Every job and every count keeps its form, for any lists and systems.    *)
THEOREM InventoryTyping == InventorySpec => []InventoryTypeOK
  BY InventoryTypeInit, InventoryTypeStep, PTL DEF InventorySpec

-----------------------------------------------------------------------------
(* What makes NoTwins inductive.  Of the jobs under the lock only the      *)
(* holder goes on; nobody else takes up the CMDB's list; and what is to be *)
(* added is in the catalog neither yet nor twice in the list.              *)
JobOK(j) ==
  /\ job[j].at # "idle" /\ j \in Locking => lock = j
  /\ j \notin Locking => "cmdb" \notin job[j].left /\ job[j].src # "cmdb"
  /\ job[j].at = "looking" /\ job[j].src = "cmdb" =>
       /\ Distinct(job[j].new) /\ Distinct(job[j].rest)
       /\ \A m \in DOMAIN job[j].new :
            /\ rows["cmdb"][job[j].new[m]] = 0
            /\ \A i \in DOMAIN job[j].rest : job[j].rest[i] # job[j].new[m]

TwinInv == NoTwins /\ \A j \in Jobs : JobOK(j)

(* The other jobs are not disturbed by a step of j.                        *)
LEMMA OthersOK ==
  ASSUME InventoryTypeOK, TwinInv, NEW j \in Jobs, NEW new, Becomes(j, new),
         lock' = lock \/ lock = "free" \/ lock = j,
         rows'["cmdb"] = rows["cmdb"] \/ lock = j
  PROVE  \A i \in Jobs \ {j} : JobOK(i)'
<1> SUFFICES ASSUME NEW i \in Jobs \ {j} PROVE JobOK(i)'
  OBVIOUS
<1>1. job'[i] = job[i] /\ JobOK(i)
  BY DEF InventoryTypeOK, TwinInv, Becomes
<1>2. CASE i \in Locking /\ job[i].at # "idle"
  <2>1. lock = i /\ i # j /\ i # "free"
    BY <1>1, <1>2 DEF JobOK, Locking
  <2>2. lock' = lock /\ rows'["cmdb"] = rows["cmdb"]
    BY <2>1
  <2> QED
    BY <1>1, <2>2 DEF JobOK
<1>3. CASE ~(i \in Locking /\ job[i].at # "idle")
  <2>1. ~(job[i].at = "looking" /\ job[i].src = "cmdb")
    BY <1>1, <1>3 DEF JobOK
  <2> QED
    BY <1>1, <1>3, <2>1 DEF JobOK
<1> QED
  BY <1>2, <1>3

(* A list's rows are added, each to a system that has none.                *)
LEMMA AddedOnce ==
  ASSUME InventoryTypeOK, NoTwins, NEW l \in Seq(Key), Distinct(l),
         \A m \in DOMAIN l : rows["cmdb"][l[m]] = 0
  PROVE  \A k \in Key : Added("cmdb", l)["cmdb"][k] < 2
<1> SUFFICES ASSUME NEW k \in Key PROVE Added("cmdb", l)["cmdb"][k] < 2
  OBVIOUS
<1>1. Added("cmdb", l)["cmdb"][k] = More(rows["cmdb"][k], l, k)
  BY DEF Added, InventoryTypeOK, Origin, Source, Remote
<1>2. rows["cmdb"][k] \in 0..2 /\ rows["cmdb"][k] < 2
  BY DEF InventoryTypeOK, NoTwins, Origin, Source, Remote
<1>3. CASE \E m \in DOMAIN l : l[m] = k
  BY <1>1, <1>3, OccursOnce DEF More
<1>4. CASE \A m \in DOMAIN l : l[m] # k
  BY <1>1, <1>2, <1>4, OccursNever DEF More
<1> QED
  BY <1>3, <1>4

LEMMA OverOK ==
  ASSUME InventoryTypeOK, TwinInv, NEW j \in Jobs, job[j].at # "idle", Quit(j) \/ SourceOver(j),
         rows'["cmdb"] = rows["cmdb"] \/ lock = j
  PROVE  \A i \in Jobs : JobOK(i)'
<1>1. JobOK(j) /\ job[j] \in Job
  BY DEF TwinInv, InventoryTypeOK
<1>2. PICK new : Becomes(j, new) /\ new \in {Idle, [Idle EXCEPT !.at = "choosing", !.left = job[j].left]}
  BY DEF Quit, SourceOver
<1>3. lock' = lock \/ lock = j
  BY <1>1 DEF Quit, SourceOver, JobOK
<1>4. \A i \in Jobs \ {j} : JobOK(i)'
  BY <1>2, <1>3, OthersOK
<1>5. JobOK(j)'
  <2>1. job'[j] = new
    BY <1>2 DEF Becomes, InventoryTypeOK
  <2>2. new.at \in {"idle", "choosing"} /\ new.src = "csv" /\ new.left \subseteq job[j].left
    <3>1. CASE new = Idle
      BY <3>1 DEF Idle
    <3>2. CASE new = [Idle EXCEPT !.at = "choosing", !.left = job[j].left]
      BY <3>2 DEF Idle
    <3> QED
      BY <1>2, <3>1, <3>2
  <2>3. new.at # "idle" /\ j \in Locking => lock' = j
    <3> SUFFICES ASSUME new.at # "idle", j \in Locking PROVE lock' = j
      OBVIOUS
    <3>1. new # Idle
      BY DEF Idle
    <3>2. ~Quit(j)
      BY <2>1, <3>1 DEF Quit, Becomes, InventoryTypeOK
    <3> QED
      BY <1>1, <3>2 DEF SourceOver, JobOK
  <2> QED
    BY <1>1, <2>1, <2>2, <2>3 DEF JobOK
<1> QED
  BY <1>4, <1>5

LEMMA JobTwinStep ==
  ASSUME InventoryTypeOK, TwinInv, NEW j \in Jobs, JobStep(j),
         \A l \in Offers : Distinct(l)
  PROVE  TwinInv'
<1>1. job[j] \in Job /\ JobOK(j) /\ NoTwins
  BY DEF InventoryTypeOK, TwinInv
<1>2. CASE NoCsvFile(j)
  <2> DEFINE new == [job[j] EXCEPT !.left = @ \ {"csv"}]
  <2>1. Becomes(j, new) /\ UNCHANGED <<rows, lock>>
    BY <1>2 DEF NoCsvFile
  <2>2. job'[j] = new /\ new.at = job[j].at /\ new.src = job[j].src /\ new.new = job[j].new
        /\ new.rest = job[j].rest /\ new.left \subseteq job[j].left
    BY <1>1, <2>1 DEF Becomes, InventoryTypeOK, Job
  <2> HIDE DEF new
  <2>3. JobOK(j)'
    BY <1>1, <2>1, <2>2 DEF JobOK
  <2> QED
    BY <1>1, <2>1, <2>3, OthersOK DEF TwinInv, NoTwins
<1>3. CASE LookUp(j)
  <2> DEFINE add == IF Copies(j) = 0 THEN Append(job[j].new, Next1(j)) ELSE job[j].new
             held == IF Copies(j) = 1 /\ job[j].src = "csv" THEN job[j].held \cup {Next1(j)}
                                                           ELSE job[j].held
             new == [job[j] EXCEPT !.rest = Tail(job[j].rest), !.new = add, !.held = held]
  <2>1. Becomes(j, new) /\ UNCHANGED <<rows, lock>> /\ job[j].at = "looking" /\ job[j].rest # <<>>
    BY <1>3 DEF LookUp, Looking
  <2>2. job'[j] = new /\ new.at = "looking" /\ new.src = job[j].src /\ new.left = job[j].left
        /\ new.rest = Tail(job[j].rest) /\ new.new = add
    BY <1>1, <2>1 DEF Becomes, InventoryTypeOK, Job
  <2>3. ASSUME job[j].src = "cmdb"
        PROVE  /\ Distinct(add) /\ Distinct(Tail(job[j].rest))
               /\ \A m \in DOMAIN add :
                    /\ rows["cmdb"][add[m]] = 0
                    /\ \A i \in DOMAIN Tail(job[j].rest) : Tail(job[j].rest)[i] # add[m]
    <3> DEFINE rest == job[j].rest
               old == job[j].new
    <3>1. rest \in Seq(Key) /\ old \in Seq(Key) /\ rest # <<>>
      BY <1>1, <2>1 DEF Job
    <3>2. /\ Distinct(old) /\ Distinct(rest)
          /\ \A m \in DOMAIN old : /\ rows["cmdb"][old[m]] = 0
                                   /\ \A i \in DOMAIN rest : rest[i] # old[m]
      BY <1>1, <2>1, <2>3 DEF JobOK
    <3>3. /\ Next1(j) = rest[1] /\ 1 \in DOMAIN rest
          /\ Copies(j) = rows["cmdb"][rest[1]]
      BY <2>3, <3>1 DEF Next1, Copies
    <3>4. \A i \in DOMAIN Tail(rest) : i + 1 \in DOMAIN rest /\ Tail(rest)[i] = rest[i + 1]
      BY <3>1
    <3> HIDE DEF rest, old
    <3>5. Distinct(Tail(rest)) /\ \A i \in DOMAIN Tail(rest) : Tail(rest)[i] # rest[1]
      BY <3>1, <3>2, <3>3, <3>4 DEF Distinct
    <3>6. CASE rows["cmdb"][rest[1]] = 0
      <4>1. add = Append(old, rest[1])
        BY <3>3, <3>6 DEF old
      <4>2. \A m \in DOMAIN Append(old, rest[1]) :
               \/ m \in DOMAIN old /\ Append(old, rest[1])[m] = old[m]
               \/ m = Len(old) + 1 /\ Append(old, rest[1])[m] = rest[1]
        BY <3>1
      <4>3. Distinct(Append(old, rest[1]))
        BY <3>1, <3>2, <3>3, <4>2 DEF Distinct
      <4>4. \A m \in DOMAIN Append(old, rest[1]) :
              /\ rows["cmdb"][Append(old, rest[1])[m]] = 0
              /\ \A i \in DOMAIN Tail(rest) : Tail(rest)[i] # Append(old, rest[1])[m]
        BY <3>2, <3>4, <3>5, <3>6, <4>2
      <4> QED
        BY <3>5, <4>1, <4>3, <4>4 DEF rest
    <3>7. CASE rows["cmdb"][rest[1]] # 0
      <4>1. add = old
        BY <3>3, <3>7 DEF old
      <4>2. \A m \in DOMAIN old : \A i \in DOMAIN Tail(rest) : Tail(rest)[i] # old[m]
        BY <3>2, <3>4
      <4> QED
        BY <3>2, <3>5, <4>1, <4>2 DEF rest
    <3> QED
      BY <3>6, <3>7
  <2> HIDE DEF new, add, held
  <2>4. JobOK(j)'
    BY <1>1, <2>1, <2>2, <2>3 DEF JobOK
  <2> QED
    BY <1>1, <2>1, <2>4, OthersOK DEF TwinInv, NoTwins
<1>4. ASSUME NEW l \in Seq(Key), job[j].at = "looking", l = job[j].new,
             rows' = Added(job[j].src, l), Quit(j) \/ SourceOver(j)
      PROVE  TwinInv'
  <2>1. CASE job[j].src = "cmdb"
    <3>1. lock = j /\ \A k \in Key : Added("cmdb", l)["cmdb"][k] < 2
      BY <1>1, <1>4, <2>1, AddedOnce DEF JobOK
    <3>2. NoTwins'
      BY <1>4, <2>1, <3>1 DEF NoTwins
    <3> QED
      BY <1>4, <3>1, <3>2, OverOK DEF TwinInv
  <2>2. CASE job[j].src # "cmdb"
    <3>1. rows'["cmdb"] = rows["cmdb"]
      BY <1>1, <1>4, <2>2 DEF Added, InventoryTypeOK, Origin, Source, Remote, Job
    <3> QED
      BY <1>1, <1>4, <3>1, OverOK DEF TwinInv, NoTwins
  <2> QED
    BY <2>1, <2>2
<1>5. CASE LookUpFails(j)
  <2>1. CASE j = "upload"
    <3>1. UNCHANGED rows /\ job[j].at # "idle" /\ SourceOver(j)
      BY <1>5, <2>1 DEF LookUpFails, Looking
    <3> QED
      BY <1>1, <3>1, OverOK DEF TwinInv, NoTwins
  <2>2. CASE j # "upload"
    BY <1>1, <1>4, <1>5, <2>2 DEF LookUpFails, Looking, Job
  <2> QED
    BY <2>1, <2>2
<1>6. CASE Store(j)
  BY <1>1, <1>4, <1>6 DEF Store, Job
<1>7. CASE StoreFails(j) \/ Finish(j)
  <2>1. UNCHANGED rows /\ job[j].at # "idle" /\ Quit(j)
    BY <1>7 DEF StoreFails, Finish
  <2> QED
    BY <1>1, <2>1, OverOK DEF TwinInv, NoTwins
<1>8. ASSUME NEW s \in Source, Fetch(j, s) PROVE TwinInv'
  <2> DEFINE new == [Idle EXCEPT !.at = "looking", !.left = job[j].left \ {s}, !.src = s,
                                 !.rest = offer[s]]
  <2>1. /\ Becomes(j, new) /\ UNCHANGED <<rows, lock>>
        /\ job[j].at = "choosing" /\ s \in job[j].left
    BY <1>8 DEF Fetch, Turn
  <2>2. job'[j] = new /\ new.at = "looking" /\ new.src = s /\ new.left \subseteq job[j].left
        /\ new.rest = offer[s] /\ new.new = <<>>
    BY <1>1, <2>1 DEF Becomes, InventoryTypeOK, Idle
  <2>3. Distinct(offer[s]) /\ Distinct(<<>>)
    BY DEF InventoryTypeOK, Distinct
  <2> HIDE DEF new
  <2>4. JobOK(j)'
    BY <1>1, <2>1, <2>2, <2>3 DEF JobOK
  <2> QED
    BY <1>1, <2>1, <2>4, OthersOK DEF TwinInv, NoTwins
<1> QED
  BY <1>2, <1>3, <1>5, <1>6, <1>7, <1>8 DEF JobStep

LEMMA PeopleTwinStep ==
  ASSUME InventoryTypeOK, TwinInv, NEW o \in Origin, NEW k \in Key,
         \/ AddAsset(k) \/ DeleteAssets(o, k) \/ \E l \in Key : EditAsset(o, k, l)
  PROVE  TwinInv'
<1>1. UNCHANGED lock
  BY DEF AddAsset, DeleteAssets, EditAsset, ByHand
<1>2. \A j \in Jobs : /\ job'[j].at = job[j].at /\ job'[j].left = job[j].left
                      /\ job'[j].src = job[j].src /\ job'[j].new = job[j].new
                      /\ job'[j].rest = job[j].rest
  <2> SUFFICES ASSUME NEW j \in Jobs
               PROVE  /\ job'[j].at = job[j].at /\ job'[j].left = job[j].left
                      /\ job'[j].src = job[j].src /\ job'[j].new = job[j].new
                      /\ job'[j].rest = job[j].rest
    OBVIOUS
  <2>1. job[j] \in Job
    BY DEF InventoryTypeOK
  <2>2. CASE AddAsset(k) \/ \E l \in Key : EditAsset(o, k, l)
    BY <2>2 DEF AddAsset, EditAsset
  <2>3. CASE DeleteAssets(o, k)
    BY <2>1, <2>3 DEF DeleteAssets, Losing, Job
  <2> QED
    BY <2>2, <2>3
<1>3. \A x \in Key : \/ rows'["cmdb"][x] = rows["cmdb"][x]
                     \/ rows["cmdb"][x] # 0 /\ rows'["cmdb"][x] \in Fewer(rows["cmdb"][x])
  <2>1. CASE AddAsset(k)
    BY <2>1 DEF AddAsset, InventoryTypeOK, Origin
  <2>2. CASE DeleteAssets(o, k)
    <3>1. PICK n \in Fewer(rows[o][k]) : rows' = [rows EXCEPT ![o][k] = n]
      BY <2>2 DEF DeleteAssets
    <3>2. rows[o][k] # 0
      BY <2>2 DEF DeleteAssets
    <3>3. rows \in [Origin -> [Key -> 0..2]] /\ "cmdb" \in Origin
      BY DEF InventoryTypeOK, Origin, Source, Remote
    <3>4. CASE o = "cmdb"
      <4>1. rows'["cmdb"] = [rows["cmdb"] EXCEPT ![k] = n]
        BY <3>1, <3>3, <3>4
      <4>2. rows'["cmdb"][k] = n /\ \A x \in Key \ {k} : rows'["cmdb"][x] = rows["cmdb"][x]
        BY <3>3, <4>1
      <4> QED
        BY <3>1, <3>2, <3>4, <4>2
    <3>5. CASE o # "cmdb"
      BY <3>1, <3>3, <3>5
    <3> QED
      BY <3>4, <3>5
  <2>3. ASSUME NEW l \in Key, EditAsset(o, k, l)
        PROVE  \A x \in Key : \/ rows'["cmdb"][x] = rows["cmdb"][x]
                              \/ /\ rows["cmdb"][x] # 0
                                 /\ rows'["cmdb"][x] \in Fewer(rows["cmdb"][x])
    <3> DEFINE p == IF o \in Remote THEN "manual" ELSE o
    <3>1. PICK n \in Fewer(rows[o][k]) :
            LET less == [rows EXCEPT ![o][k] = n]
            IN  rows' = [less EXCEPT ![p][l] = More(@, <<l>>, l)]
      BY <2>3 DEF EditAsset
    <3> DEFINE less == [rows EXCEPT ![o][k] = n]
    <3>2. p # "cmdb"
      BY DEF Remote
    <3>3. rows'["cmdb"] = less["cmdb"]
      <4>1. rows' = [less EXCEPT ![p][l] = More(less[p][l], <<l>>, l)]
        BY <3>1
      <4>2. DOMAIN less = Origin /\ "cmdb" \in Origin
        BY DEF InventoryTypeOK, Origin, Source, Remote
      <4> HIDE DEF less, p
      <4> QED
        BY <3>2, <4>1, <4>2
    <3>4. rows[o][k] # 0
      BY <2>3 DEF EditAsset
    <3>5. rows \in [Origin -> [Key -> 0..2]] /\ "cmdb" \in Origin
      BY DEF InventoryTypeOK, Origin, Source, Remote
    <3>6. CASE o = "cmdb"
      <4>1. less["cmdb"] = [rows["cmdb"] EXCEPT ![k] = n]
        BY <3>5, <3>6
      <4> HIDE DEF less
      <4> QED
        BY <3>1, <3>3, <3>4, <3>5, <3>6, <4>1
    <3>7. CASE o # "cmdb"
      BY <3>3, <3>5, <3>7
    <3> QED
      BY <3>6, <3>7
  <2> QED
    BY <2>1, <2>2, <2>3
<1>4. NoTwins'
  <2> SUFFICES ASSUME NEW x \in Key PROVE rows'["cmdb"][x] < 2
    BY DEF NoTwins
  <2>1. rows["cmdb"][x] \in 0..2 /\ rows["cmdb"][x] < 2
    BY DEF TwinInv, NoTwins, InventoryTypeOK, Origin, Source, Remote
  <2>2. CASE rows'["cmdb"][x] = rows["cmdb"][x]
    BY <2>1, <2>2
  <2>3. CASE rows["cmdb"][x] # 0 /\ rows'["cmdb"][x] \in Fewer(rows["cmdb"][x])
    <3>1. rows["cmdb"][x] = 1
      BY <2>1, <2>3
    <3> QED
      BY <2>3, <3>1 DEF Fewer
  <2> QED
    BY <1>3, <2>2, <2>3
<1>5. \A x \in Key : rows["cmdb"][x] = 0 => rows'["cmdb"][x] = 0
  BY <1>3
<1>6. ASSUME NEW j \in Jobs PROVE JobOK(j)'
  <2>1. JobOK(j) /\ job[j].new \in Seq(Key)
    BY DEF TwinInv, InventoryTypeOK, Job
  <2> QED
    BY <1>1, <1>2, <1>5, <2>1 DEF JobOK
<1> QED
  BY <1>4, <1>6 DEF TwinInv

LEMMA TwinStep ==
  ASSUME InventoryTypeOK, TwinInv, [InventoryNext]_inventoryVars,
         \A l \in Offers : Distinct(l)
  PROVE  TwinInv'
<1>1. ASSUME NEW j \in Jobs, NEW new \in Job, Becomes(j, new), UNCHANGED rows,
             lock' = lock \/ lock = "free",
             new.at = "idle" \/ j \notin Locking \/ lock' = j,
             new.src # "cmdb", "cmdb" \notin new.left \/ j \in Locking
      PROVE  TwinInv'
  <2>1. JobOK(j)'
    <3>1. job'[j] = new
      BY <1>1 DEF Becomes, InventoryTypeOK
    <3> QED
      BY <1>1, <3>1 DEF JobOK
  <2> QED
    BY <1>1, <2>1, OthersOK DEF TwinInv, NoTwins
<1>2. ASSUME NEW j \in Jobs, NEW wanted \in SUBSET Source, Begin(j, wanted) PROVE TwinInv'
  <2>1. /\ [Idle EXCEPT !.at = "choosing", !.left = wanted] \in Job
        /\ [Idle EXCEPT !.at = "choosing", !.left = wanted].src = "csv"
    BY IdleType DEF Idle
  <2> QED
    BY <1>1, <1>2, <2>1 DEF Begin
<1>3. CASE StartThread
  <2> DEFINE new == [Idle EXCEPT !.at = "choosing", !.left = {"sonatype"}]
  <2>1. {"sonatype"} \in SUBSET Source /\ "thread" \in Jobs \ Locking
    BY DEF Source, Remote, Jobs, Locking
  <2>2. new \in Job /\ new.src = "csv" /\ new.left = {"sonatype"}
    BY <2>1, IdleType DEF Idle
  <2>3. Becomes("thread", new) /\ UNCHANGED <<rows, lock>>
    BY <1>3 DEF StartThread
  <2> HIDE DEF new
  <2> QED
    BY <1>1, <2>1, <2>2, <2>3
<1>4. ASSUME NEW l \in Offers, Upload(l) PROVE TwinInv'
  <2> DEFINE new == [Idle EXCEPT !.at = "looking", !.src = "csv", !.rest = l]
  <2>1. l \in Seq(Key) /\ "csv" \in Source /\ "upload" \in Jobs \ Locking
    BY InventoryAssumption DEF Source, Jobs, Locking
  <2>2. new \in Job /\ new.src = "csv" /\ new.left = {}
    <3>1. new \in Job
      BY <2>1, IdleType DEF Job
    <3> QED
      BY <3>1 DEF Idle
  <2>3. Becomes("upload", new) /\ UNCHANGED <<rows, lock>>
    BY <1>4 DEF Upload
  <2> HIDE DEF new
  <2> QED
    BY <1>1, <2>1, <2>2, <2>3
<1>5. ASSUME UNCHANGED <<rows, lock, job>> PROVE TwinInv'
  BY <1>5 DEF TwinInv, NoTwins, JobOK
<1>6. ASSUME NEW s, NEW l, TeacherChanges(s, l) PROVE TwinInv'
  BY <1>5, <1>6 DEF TeacherChanges
<1>7. CASE WipeInternalSystems
  <2>1. UNCHANGED lock /\ \A x \in Key : rows'["cmdb"][x] = 0
    BY <1>7 DEF WipeInternalSystems, ByHand, Origin, Source, Remote
  <2>2. ASSUME NEW j \in Jobs PROVE JobOK(j)'
    <3>1. JobOK(j) /\ job[j].new \in Seq(Key)
      BY DEF TwinInv, InventoryTypeOK, Job
    <3>2. /\ job'[j].at = job[j].at /\ job'[j].left = job[j].left /\ job'[j].src = job[j].src
          /\ job'[j].new = job[j].new /\ job'[j].rest = job[j].rest
      BY <1>7 DEF WipeInternalSystems, InventoryTypeOK, Job
    <3>3. \A m \in DOMAIN job[j].new : rows'["cmdb"][job[j].new[m]] = 0
      BY <2>1, <3>1
    <3> QED
      BY <2>1, <3>1, <3>2, <3>3 DEF JobOK
  <2> QED
    BY <2>1, <2>2 DEF TwinInv, NoTwins
<1>8. CASE RestartProcess
  <2>1. \A j \in Jobs : job'[j] = Idle
    BY <1>8 DEF RestartProcess
  <2> QED
    BY <1>8, <2>1 DEF RestartProcess, TwinInv, NoTwins, JobOK, Idle
<1>9. ASSUME NEW j \in Jobs, NEW s \in Source, FetchFails(j, s) PROVE TwinInv'
  <2>1. UNCHANGED rows /\ job[j].at = "choosing" /\ JobOK(j) /\ job[j] \in Job
    BY <1>9 DEF FetchFails, Turn, TwinInv, InventoryTypeOK
  <2>2. CASE j \in Locking
    <3> DEFINE new == [job[j] EXCEPT !.left = @ \ {s}]
    <3>1. Becomes(j, new) /\ UNCHANGED <<rows, lock>>
      BY <1>9, <2>2 DEF FetchFails
    <3>2. /\ job'[j].at = "choosing" /\ j \in Locking /\ lock' = j
      BY <2>1, <2>2, <3>1 DEF Becomes, InventoryTypeOK, Job, JobOK
    <3>3. JobOK(j)'
      BY <2>2, <3>2 DEF JobOK
    <3> HIDE DEF new
    <3> QED
      BY <3>1, <3>3, OthersOK DEF TwinInv, NoTwins
  <2>3. CASE j \notin Locking
    BY <1>9, <2>1, <2>3, OverOK DEF FetchFails, TwinInv, NoTwins
  <2> QED
    BY <2>2, <2>3
<1>10. CASE UNCHANGED inventoryVars
  BY <1>5, <1>10 DEF inventoryVars
<1>11. Source \in SUBSET Source /\ (\A s \in Source : {s} \in SUBSET Source)
       /\ "tick" \in Jobs /\ "now" \in Jobs
  BY DEF Jobs, Locking
<1> QED
  BY <1>2, <1>3, <1>4, <1>6, <1>7, <1>8, <1>9, <1>10, <1>11, JobTwinStep, PeopleTwinStep
     DEF InventoryNext, Tick, SyncNow, People, Origin

(* If no list names a system twice, no system has two rows of the CMDB's,  *)
(* for any lists and systems, whatever overlaps, is edited, deleted or     *)
(* cut short.                                                              *)
THEOREM Twins ==
  ASSUME \A l \in Offers : Distinct(l) PROVE InventorySpec => []NoTwins
<1>1. InventoryInit => TwinInv
  BY DEF InventoryInit, TwinInv, NoTwins, JobOK, Idle, Origin, Source, Remote
<1>2. InventoryTypeOK /\ TwinInv /\ [InventoryNext]_inventoryVars => TwinInv'
  BY TwinStep
<1>3. TwinInv => NoTwins
  BY DEF TwinInv
<1> QED
  BY <1>1, <1>2, <1>3, InventoryTyping, PTL DEF InventorySpec

-----------------------------------------------------------------------------
(* What Learned rests on: a synchronisation leaves nothing out.            *)
Listed(l, k) == \E i \in DOMAIN l : l[i] = k

(* one_or_none finds several rows of the system it looks up.               *)
Trips(j) == Looking(j) /\ Copies(j) = 2

(* It takes its sources one by one, passes over one that fails or has no   *)
(* list, and takes the whole list of the others.                           *)
TakesInTurn(j) ==
  job[j].at = "choosing" /\ job'[j] # job[j] /\ changes' = changes =>
    \/ job[j].left = {} /\ job'[j].at = "idle"
    \/ offer["csv"] = <<>> /\ job'[j].at = "choosing" /\ job'[j].left = job[j].left \ {"csv"}
    \/ /\ job'[j].at = "looking" /\ job'[j].src \in job[j].left
       /\ job'[j].left = job[j].left \ {job'[j].src}
       /\ job'[j].rest = offer[job'[j].src]

(* A row it has looked up is in the catalog or will be added; what will be *)
(* added stays so.                                                         *)
GoesThrough(j) ==
  job[j].at = "looking" /\ job'[j].at = "looking" =>
    /\ job'[j].src = job[j].src /\ job'[j].left = job[j].left
    /\ \A k \in Key : Listed(job[j].new, k) => Listed(job'[j].new, k)
    /\ \A k \in Key : Listed(job[j].rest, k) =>
         Listed(job'[j].rest, k) \/ Listed(job'[j].new, k) \/ rows[job[j].src][k] > 0

(* It is over with a list by storing what there is to add, at its end or   *)
(* where it trips, and goes on.  A row deleted under it, a restart and an  *)
(* upload that trips are what stores nothing.                              *)
StoresAll(j) ==
  job[j].at = "looking" /\ job'[j].at # "looking" =>
    \/ job[j].gone
    \/ changes' # changes
    \/ j = "upload" /\ Trips(j)
    \/ /\ job[j].rest = <<>> \/ (Trips(j) /\ failed'[job[j].src])
       /\ \A k \in Key : Listed(job[j].new, k) => rows'[job[j].src][k] > 0
       /\ j \in Locking => job'[j].at = "choosing" /\ job'[j].left = job[j].left

(* And only people take rows out of the catalog.                           *)
RowsStay == changes' = changes => \A o \in Origin, k \in Key : rows'[o][k] >= rows[o][k]

LeavesNothingOut ==
  RowsStay /\ \A j \in Jobs : TakesInTurn(j) /\ GoesThrough(j) /\ StoresAll(j)

LEMMA OccursSome ==
  ASSUME NEW l \in Seq(Key), NEW k, Listed(l, k) PROVE Occurs(l, k) \in Nat /\ Occurs(l, k) > 0
<1> DEFINE at == {i \in DOMAIN l : l[i] = k}
<1>1. IsFiniteSet(1..Len(l)) /\ at \in SUBSET (1..Len(l)) /\ at # {}
  BY FS_Interval DEF Listed
<1>2. IsFiniteSet(at)
  BY <1>1, FS_Subset
<1>3. Cardinality(at) \in Nat /\ Cardinality(at) # 0
  BY <1>1, <1>2, FS_CardinalityType, FS_EmptySet
<1> QED
  BY <1>3 DEF Occurs

(* Adding a list takes no row away and leaves a row of each of its systems.*)
LEMMA AddedKeeps ==
  ASSUME InventoryTypeOK, NEW s \in Source, NEW l \in Seq(Key)
  PROVE  /\ \A o \in Origin, k \in Key : Added(s, l)[o][k] >= rows[o][k]
         /\ \A k \in Key : Listed(l, k) => Added(s, l)[s][k] > 0
<1>1. s \in Origin /\ \A o \in Origin : DOMAIN rows[o] = Key
  BY DEF Origin, InventoryTypeOK
<1>2. /\ \A k \in Key : Added(s, l)[s][k] = More(rows[s][k], l, k)
      /\ \A o \in Origin \ {s} : Added(s, l)[o] = rows[o]
  BY <1>1 DEF Added, InventoryTypeOK
<1>3. \A o \in Origin, k \in Key : rows[o][k] \in 0..2
  BY DEF InventoryTypeOK
<1>4. ASSUME NEW k \in Key PROVE More(rows[s][k], l, k) >= rows[s][k]
  BY <1>1, <1>3, OccursType DEF More
<1>5. ASSUME NEW k \in Key, Listed(l, k) PROVE More(rows[s][k], l, k) > 0
  BY <1>1, <1>3, <1>5, OccursSome DEF More
<1>6. ASSUME NEW o \in Origin, NEW k \in Key PROVE Added(s, l)[o][k] >= rows[o][k]
  <2>1. CASE o = s
    BY <1>2, <1>4, <2>1
  <2>2. CASE o # s
    BY <1>2, <1>3, <2>2
  <2> QED
    BY <2>1, <2>2
<1> QED
  BY <1>2, <1>5, <1>6

(* A step of one job is no other job's business ...                        *)
LEMMA OneJob ==
  ASSUME InventoryTypeOK, RowsStay, NEW j \in Jobs, NEW new, Becomes(j, new),
         TakesInTurn(j) /\ GoesThrough(j) /\ StoresAll(j)
  PROVE  LeavesNothingOut
<1>1. \A i \in Jobs \ {j} : job'[i] = job[i]
  BY DEF Becomes, InventoryTypeOK
<1>2. ASSUME NEW i \in Jobs \ {j} PROVE TakesInTurn(i) /\ GoesThrough(i) /\ StoresAll(i)
  BY <1>1, <1>2 DEF TakesInTurn, GoesThrough, StoresAll
<1> QED
  BY <1>2 DEF LeavesNothingOut

(* ... and what people do takes nothing off its lists.                     *)
LEMMA Quietly ==
  ASSUME changes' # changes,
         \A j \in Jobs : job[j].at = "looking" /\ job'[j].at = "looking" =>
           /\ job'[j].src = job[j].src /\ job'[j].left = job[j].left
           /\ job'[j].rest = job[j].rest /\ job'[j].new = job[j].new
  PROVE  LeavesNothingOut
BY DEF LeavesNothingOut, RowsStay, TakesInTurn, GoesThrough, StoresAll

LEMMA RowsUnchanged == ASSUME InventoryTypeOK, UNCHANGED rows PROVE RowsStay
<1>1. \A o \in Origin, k \in Key : rows[o][k] \in 0..2
  BY DEF InventoryTypeOK
<1> QED
  BY <1>1 DEF RowsStay

LEMMA SourceOverJob ==
  ASSUME InventoryTypeOK, NEW j \in Jobs, SourceOver(j)
  PROVE  /\ \E new : Becomes(j, new)
         /\ job'[j].at # "looking"
         /\ j \in Locking => job'[j].at = "choosing" /\ job'[j].left = job[j].left
<1>1. CASE j \in Locking
  <2> DEFINE new == [Idle EXCEPT !.at = "choosing", !.left = job[j].left]
  <2>1. Becomes(j, new) /\ new.at = "choosing" /\ new.left = job[j].left
    BY <1>1 DEF SourceOver, Idle
  <2>2. job'[j] = new
    BY <2>1 DEF Becomes, InventoryTypeOK
  <2> QED
    BY <2>1, <2>2
<1>2. CASE j \notin Locking
  <2>1. Becomes(j, Idle)
    BY <1>2 DEF SourceOver, Quit
  <2>2. job'[j] = Idle
    BY <2>1 DEF Becomes, InventoryTypeOK
  <2> QED
    BY <1>2, <2>1, <2>2 DEF Idle
<1> QED
  BY <1>1, <1>2

LEMMA JobLeavesNothing ==
  ASSUME InventoryTypeOK, NEW j \in Jobs, JobStep(j) PROVE LeavesNothingOut
<1>1. job[j] \in Job
  BY DEF InventoryTypeOK
<1>2. CASE NoCsvFile(j)
  <2> DEFINE new == [job[j] EXCEPT !.left = @ \ {"csv"}]
  <2>1. Becomes(j, new) /\ UNCHANGED <<rows, changes>> /\ job[j].at = "choosing" /\ offer["csv"] = <<>>
    BY <1>2 DEF NoCsvFile, Turn
  <2>2. job'[j] = new /\ new.at = "choosing" /\ new.left = job[j].left \ {"csv"}
    BY <1>1, <2>1 DEF Becomes, InventoryTypeOK, Job
  <2> HIDE DEF new
  <2>3. TakesInTurn(j) /\ GoesThrough(j) /\ StoresAll(j)
    BY <2>1, <2>2 DEF TakesInTurn, GoesThrough, StoresAll
  <2> QED
    BY <2>1, <2>3, OneJob, RowsUnchanged
<1>3. CASE LookUp(j)
  <2> DEFINE add == IF Copies(j) = 0 THEN Append(job[j].new, Next1(j)) ELSE job[j].new
             held == IF Copies(j) = 1 /\ job[j].src = "csv" THEN job[j].held \cup {Next1(j)}
                                                           ELSE job[j].held
             new == [job[j] EXCEPT !.rest = Tail(job[j].rest), !.new = add, !.held = held]
  <2>1. Becomes(j, new) /\ UNCHANGED rows /\ job[j].at = "looking" /\ job[j].rest # <<>>
    BY <1>3 DEF LookUp, Looking
  <2>2. job'[j] = new /\ new.at = "looking" /\ new.src = job[j].src /\ new.left = job[j].left
        /\ new.rest = Tail(job[j].rest) /\ new.new = add
    BY <1>1, <2>1 DEF Becomes, InventoryTypeOK, Job
  <2> HIDE DEF new
  <2>3. /\ job[j].rest \in Seq(Key) /\ job[j].new \in Seq(Key)
        /\ job[j].src \in Origin /\ Next1(j) \in Key
        /\ Next1(j) = job[j].rest[1] /\ Copies(j) = rows[job[j].src][job[j].rest[1]]
        /\ Copies(j) \in 0..2
    BY <1>1, <2>1 DEF Job, Next1, Copies, InventoryTypeOK, Origin
  <2>4. \A k \in Key : Listed(job[j].new, k) => Listed(add, k)
    BY <2>3 DEF Listed
  <2>5. Copies(j) = 0 => Listed(add, job[j].rest[1])
    <3> SUFFICES ASSUME Copies(j) = 0 PROVE Listed(add, job[j].rest[1])
      OBVIOUS
    <3>1. add = Append(job[j].new, job[j].rest[1])
      BY <2>3
    <3>2. /\ Len(job[j].new) + 1 \in DOMAIN Append(job[j].new, job[j].rest[1])
          /\ Append(job[j].new, job[j].rest[1])[Len(job[j].new) + 1] = job[j].rest[1]
      BY <2>3
    <3> QED
      BY <3>1, <3>2 DEF Listed
  <2> HIDE DEF add
  <2>6. ASSUME NEW k \in Key, Listed(job[j].rest, k)
        PROVE  Listed(Tail(job[j].rest), k) \/ Listed(add, k) \/ rows[job[j].src][k] > 0
    <3>1. PICK i \in DOMAIN job[j].rest : job[j].rest[i] = k
      BY <2>6 DEF Listed
    <3>2. CASE i = 1
      BY <2>3, <2>5, <3>1, <3>2
    <3>3. CASE i # 1
      <4> DEFINE rest == job[j].rest
      <4>1. rest \in Seq(Key) /\ i \in 1..Len(rest)
        BY <2>3, <3>1
      <4> HIDE DEF rest
      <4>2. i - 1 \in DOMAIN Tail(rest) /\ Tail(rest)[i - 1] = rest[i]
        BY <3>3, <4>1
      <4> QED
        BY <3>1, <4>2 DEF Listed, rest
    <3> QED
      BY <3>2, <3>3
  <2>7. TakesInTurn(j) /\ GoesThrough(j) /\ StoresAll(j)
    BY <2>1, <2>2, <2>4, <2>6 DEF TakesInTurn, GoesThrough, StoresAll
  <2> QED
    BY <2>1, <2>7, OneJob, RowsUnchanged
<1>4. CASE (LookUpFails(j) /\ j # "upload") \/ Store(j)
  <2>1. /\ job[j].at = "looking" /\ rows' = Added(job[j].src, job[j].new)
        /\ job[j].rest = <<>> \/ (Trips(j) /\ failed'[job[j].src])
        /\ SourceOver(j)
    BY <1>1, <1>4 DEF LookUpFails, Store, Looking, Trips, Job, InventoryTypeOK
  <2>2. RowsStay /\ \A k \in Key : Listed(job[j].new, k) => rows'[job[j].src][k] > 0
    BY <1>1, <2>1, AddedKeeps DEF Job, RowsStay
  <2>3. TakesInTurn(j) /\ GoesThrough(j) /\ StoresAll(j)
    BY <2>1, <2>2, SourceOverJob DEF TakesInTurn, GoesThrough, StoresAll
  <2> QED
    BY <2>1, <2>2, <2>3, OneJob, SourceOverJob
<1>5. CASE LookUpFails(j) /\ j = "upload"
  <2>1. /\ job[j].at = "looking" /\ Trips(j) /\ UNCHANGED rows /\ SourceOver(j)
    BY <1>5 DEF LookUpFails, Looking, Trips
  <2>2. TakesInTurn(j) /\ GoesThrough(j) /\ StoresAll(j)
    BY <1>5, <2>1, SourceOverJob DEF TakesInTurn, GoesThrough, StoresAll
  <2> QED
    BY <2>1, <2>2, OneJob, SourceOverJob, RowsUnchanged
<1>6. CASE StoreFails(j) \/ Finish(j)
  <2>1. Becomes(j, Idle) /\ UNCHANGED rows
    BY <1>6 DEF StoreFails, Finish, Quit
  <2>2. job'[j].at = "idle"
    BY <2>1 DEF Becomes, InventoryTypeOK, Idle
  <2>3. TakesInTurn(j) /\ GoesThrough(j) /\ StoresAll(j)
    BY <1>6, <2>2 DEF StoreFails, Finish, TakesInTurn, GoesThrough, StoresAll
  <2> QED
    BY <2>1, <2>3, OneJob, RowsUnchanged
<1>7. ASSUME NEW s \in Source, Fetch(j, s) PROVE LeavesNothingOut
  <2> DEFINE new == [Idle EXCEPT !.at = "looking", !.left = job[j].left \ {s}, !.src = s,
                                 !.rest = offer[s]]
  <2>1. Becomes(j, new) /\ UNCHANGED <<rows, changes>> /\ job[j].at = "choosing" /\ s \in job[j].left
    BY <1>7 DEF Fetch, Turn
  <2>2. /\ job'[j] = new /\ new.at = "looking" /\ new.left = job[j].left \ {s} /\ new.src = s
        /\ new.rest = offer[s]
    BY <1>1, <2>1 DEF Becomes, InventoryTypeOK, Idle
  <2> HIDE DEF new
  <2>3. TakesInTurn(j) /\ GoesThrough(j) /\ StoresAll(j)
    BY <2>1, <2>2 DEF TakesInTurn, GoesThrough, StoresAll
  <2> QED
    BY <2>1, <2>3, OneJob, RowsUnchanged
<1> QED
  BY <1>2, <1>3, <1>4, <1>5, <1>6, <1>7 DEF JobStep

LEMMA NothingLeftOut ==
  ASSUME InventoryTypeOK, [InventoryNext]_inventoryVars PROVE LeavesNothingOut
<1>1. changes \in Nat /\ \A j \in Jobs : job[j] \in Job
  BY InventoryAssumption DEF InventoryTypeOK
<1>2. changes' = changes + 1 => changes' # changes
  BY <1>1
<1>3. ASSUME NEW j \in Jobs, NEW wanted, Begin(j, wanted) PROVE LeavesNothingOut
  <2>1. UNCHANGED rows /\ job[j].at = "idle" /\ \E new : Becomes(j, new)
    BY <1>3 DEF Begin
  <2>2. TakesInTurn(j) /\ GoesThrough(j) /\ StoresAll(j)
    BY <2>1 DEF TakesInTurn, GoesThrough, StoresAll
  <2> QED
    BY <2>1, <2>2, OneJob, RowsUnchanged
<1>4. ASSUME StartThread \/ \E l \in Offers : Upload(l) PROVE LeavesNothingOut
  <2>1. changes' = changes + 1
    BY <1>4 DEF StartThread, Upload
  <2>2. PICK j \in Jobs : job[j].at = "idle" /\ \E new : Becomes(j, new)
    BY <1>4 DEF StartThread, Upload, Jobs
  <2>3. \A i \in Jobs \ {j} : job'[i] = job[i]
    BY <2>2 DEF Becomes, InventoryTypeOK
  <2> QED
    BY <1>2, <2>1, <2>2, <2>3, Quietly
<1>5. ASSUME \/ \E k \in Key : AddAsset(k) \/ \E o \in Origin, l \in Key : EditAsset(o, k, l)
             \/ \E s \in Source, l \in Offers : TeacherChanges(s, l)
      PROVE  LeavesNothingOut
  <2>1. changes' = changes + 1 /\ UNCHANGED job
    BY <1>5 DEF AddAsset, EditAsset, TeacherChanges, ByHand
  <2> QED
    BY <1>2, <2>1, Quietly
<1>6. ASSUME WipeInternalSystems \/ \E k \in Key, o \in Origin : DeleteAssets(o, k)
      PROVE  LeavesNothingOut
  <2>1. changes' = changes + 1
    BY <1>6 DEF WipeInternalSystems, DeleteAssets, ByHand
  <2>2. ASSUME NEW j \in Jobs
        PROVE  /\ job'[j].src = job[j].src /\ job'[j].left = job[j].left
               /\ job'[j].rest = job[j].rest /\ job'[j].new = job[j].new
    <3>1. CASE WipeInternalSystems
      BY <1>1, <3>1 DEF WipeInternalSystems, Job
    <3>2. CASE \E k \in Key, o \in Origin : DeleteAssets(o, k)
      BY <1>1, <3>2 DEF DeleteAssets, Losing, Job
    <3> QED
      BY <1>6, <3>1, <3>2
  <2> QED
    BY <1>2, <2>1, <2>2, Quietly
<1>7. CASE RestartProcess
  <2>1. changes' = changes + 1 /\ \A j \in Jobs : job'[j].at = "idle"
    BY <1>7 DEF RestartProcess, Idle
  <2> QED
    BY <1>2, <2>1, Quietly
<1>8. ASSUME NEW j \in Jobs, NEW s \in Source, FetchFails(j, s) PROVE LeavesNothingOut
  <2>1. changes' = changes + 1 /\ job[j].at = "choosing" /\ \E new : Becomes(j, new)
    BY <1>8 DEF FetchFails, Turn, Quit
  <2>2. \A i \in Jobs \ {j} : job'[i] = job[i]
    BY <2>1 DEF Becomes, InventoryTypeOK
  <2> QED
    BY <1>2, <2>1, <2>2, Quietly
<1>9. CASE UNCHANGED inventoryVars
  <2>1. UNCHANGED <<rows, job, changes>>
    BY <1>9 DEF inventoryVars
  <2>2. \A j \in Jobs : TakesInTurn(j) /\ GoesThrough(j) /\ StoresAll(j)
    BY <2>1 DEF TakesInTurn, GoesThrough, StoresAll
  <2> QED
    BY <2>1, <2>2, RowsUnchanged DEF LeavesNothingOut
<1>10. "tick" \in Jobs /\ "now" \in Jobs /\ Remote \subseteq Source
  BY DEF Jobs, Locking, Source
<1>11. CASE People
  BY <1>4, <1>5, <1>6, <1>10, <1>11 DEF People
<1>12. CASE Tick \/ SyncNow
  BY <1>3, <1>10, <1>12 DEF Tick, SyncNow
<1> QED
  BY <1>7, <1>8, <1>9, <1>11, <1>12, JobLeavesNothing DEF InventoryNext

(* The safety core of Learned, for any lists, repetitions included: what   *)
(* a list names is looked up, and what the catalog lacks is stored, before *)
(* the synchronisation goes on; only people take rows out.                 *)
THEOREM ListsAreTaught == InventorySpec => [][LeavesNothingOut]_inventoryVars
<1>1. InventoryTypeOK /\ [InventoryNext]_inventoryVars => [LeavesNothingOut]_inventoryVars
  BY NothingLeftOut
<1> QED
  BY <1>1, InventoryTyping, PTL DEF InventorySpec

(* A job updates rows of the CSV file's only: nothing that people delete   *)
(* can spoil what it stores of another source.                             *)
HeldInv == \A j \in Jobs : job[j].src # "csv" => job[j].held = {} /\ ~job[j].gone

LEMMA HeldStep ==
  ASSUME InventoryTypeOK, HeldInv, [InventoryNext]_inventoryVars PROVE HeldInv'
<1>1. \A j \in Jobs : job[j] \in Job
  BY DEF InventoryTypeOK
<1>2. ASSUME NEW j \in Jobs, NEW new, Becomes(j, new),
             new.src # "csv" => new.held = {} /\ ~new.gone
      PROVE  HeldInv'
  BY <1>2 DEF Becomes, HeldInv, InventoryTypeOK
<1>3. Idle.held = {} /\ ~Idle.gone /\ Idle.src = "csv"
  BY DEF Idle
<1>4. ASSUME NEW j \in Jobs, NEW L, Becomes(j, [Idle EXCEPT !.at = "choosing", !.left = L])
      PROVE  HeldInv'
  <2> DEFINE new == [Idle EXCEPT !.at = "choosing", !.left = L]
  <2>1. new.held = {} /\ ~new.gone
    BY DEF Idle
  <2> QED
    BY <1>2, <1>4, <2>1
<1>5. ASSUME NEW j \in Jobs, Quit(j) \/ SourceOver(j) PROVE HeldInv'
  BY <1>2, <1>3, <1>4, <1>5 DEF Quit, SourceOver
<1>6. ASSUME NEW j \in Jobs, NEW L, Becomes(j, [job[j] EXCEPT !.left = L]) PROVE HeldInv'
  <2> DEFINE new == [job[j] EXCEPT !.left = L]
  <2>1. new.held = job[j].held /\ new.gone = job[j].gone /\ new.src = job[j].src
    BY <1>1 DEF Job
  <2> HIDE DEF new
  <2>2. Becomes(j, new)
    BY <1>6 DEF new
  <2> QED
    BY <1>2, <2>1, <2>2 DEF HeldInv
<1>7. ASSUME NEW j \in Jobs, LookUp(j) PROVE HeldInv'
  <2> DEFINE add == IF Copies(j) = 0 THEN Append(job[j].new, Next1(j)) ELSE job[j].new
             held == IF Copies(j) = 1 /\ job[j].src = "csv" THEN job[j].held \cup {Next1(j)}
                                                           ELSE job[j].held
             new == [job[j] EXCEPT !.rest = Tail(job[j].rest), !.new = add, !.held = held]
  <2>1. Becomes(j, new)
    BY <1>7 DEF LookUp
  <2>2. new.held = held /\ new.gone = job[j].gone /\ new.src = job[j].src
    BY <1>1 DEF Job
  <2>3. job[j].src # "csv" => held = job[j].held
    OBVIOUS
  <2> HIDE DEF new, held
  <2> QED
    BY <1>2, <2>1, <2>2, <2>3 DEF HeldInv
<1>8. ASSUME NEW j \in Jobs, NEW s, Fetch(j, s) PROVE HeldInv'
  <2> DEFINE new == [Idle EXCEPT !.at = "looking", !.left = job[j].left \ {s}, !.src = s,
                                 !.rest = offer[s]]
  <2>1. Becomes(j, new) /\ new.held = {} /\ ~new.gone
    BY <1>8 DEF Fetch, Idle
  <2> QED
    BY <1>2, <2>1
<1>9. ASSUME NEW j \in Jobs, JobStep(j) PROVE HeldInv'
  BY <1>5, <1>6, <1>7, <1>8, <1>9
     DEF JobStep, NoCsvFile, LookUpFails, Store, StoreFails, Finish
<1>10. ASSUME NEW j \in Jobs, NEW s \in Source, FetchFails(j, s) PROVE HeldInv'
  BY <1>5, <1>6, <1>10 DEF FetchFails
<1>11. ASSUME NEW j \in Jobs, NEW wanted, Begin(j, wanted) PROVE HeldInv'
  BY <1>4, <1>11 DEF Begin
<1>12. CASE StartThread
  BY <1>4, <1>12 DEF StartThread, Jobs
<1>13. ASSUME NEW l \in Offers, Upload(l) PROVE HeldInv'
  <2> DEFINE new == [Idle EXCEPT !.at = "looking", !.src = "csv", !.rest = l]
  <2>1. Becomes("upload", new) /\ new.held = {} /\ ~new.gone
    BY <1>13 DEF Upload, Idle
  <2> QED
    BY <1>2, <2>1 DEF Jobs
<1>14. ASSUME \A j \in Jobs : /\ job'[j].src = job[j].src /\ job'[j].held = job[j].held
                              /\ job[j].held = {} => job'[j].gone = job[j].gone
       PROVE  HeldInv'
  BY <1>14 DEF HeldInv
<1>15. CASE WipeInternalSystems
  <2>1. ASSUME NEW j \in Jobs
        PROVE  /\ job'[j].src = job[j].src /\ job'[j].held = job[j].held
               /\ job[j].held = {} => job'[j].gone = job[j].gone
    <3>1. job'[j] = [job[j] EXCEPT !.gone = job[j].gone \/ job[j].held # {}]
      BY <1>15 DEF WipeInternalSystems
    <3>2. job[j].held = {} => (job[j].gone \/ job[j].held # {}) = job[j].gone
      BY <1>1 DEF Job
    <3> QED
      BY <1>1, <3>1, <3>2 DEF Job
  <2> QED
    BY <1>14, <2>1
<1>16. ASSUME NEW o \in Origin, NEW k \in Key, DeleteAssets(o, k) PROVE HeldInv'
  <2>1. ASSUME NEW j \in Jobs
        PROVE  /\ job'[j].src = job[j].src /\ job'[j].held = job[j].held
               /\ job[j].held = {} => job'[j].gone = job[j].gone
    <3>1. job'[j] = [job[j] EXCEPT !.gone = job[j].gone \/ (job[j].src = o /\ job[j].held \cap {k} # {})]
      BY <1>16 DEF DeleteAssets, Losing
    <3>2. job[j].held = {} =>
            (job[j].gone \/ (job[j].src = o /\ job[j].held \cap {k} # {})) = job[j].gone
      BY <1>1 DEF Job
    <3> QED
      BY <1>1, <3>1, <3>2 DEF Job
  <2> QED
    BY <1>14, <2>1
<1>17. ASSUME \/ \E k \in Key : AddAsset(k) \/ \E o \in Origin, l \in Key : EditAsset(o, k, l)
              \/ \E s \in Source, l \in Offers : TeacherChanges(s, l)
              \/ UNCHANGED inventoryVars
       PROVE  HeldInv'
  <2>1. UNCHANGED job
    BY <1>17 DEF AddAsset, EditAsset, TeacherChanges, inventoryVars
  <2> QED
    BY <2>1 DEF HeldInv
<1>18. CASE RestartProcess
  <2>1. \A j \in Jobs : job'[j] = Idle
    BY <1>18 DEF RestartProcess
  <2> QED
    BY <1>3, <2>1 DEF HeldInv
<1>19. "tick" \in Jobs /\ "now" \in Jobs /\ Remote \subseteq Source
  BY DEF Jobs, Locking, Source
<1>20. CASE People
  BY <1>12, <1>13, <1>15, <1>16, <1>17, <1>19, <1>20 DEF People
<1>21. CASE Tick \/ SyncNow
  BY <1>11, <1>19, <1>21 DEF Tick, SyncNow
<1> QED
  BY <1>9, <1>10, <1>17, <1>18, <1>20, <1>21 DEF InventoryNext

(* Once the CMDB's list is fetched, all of it is.                          *)
CmdbIsTaught ==
  \A j \in Jobs :
    job[j].at = "looking" /\ job[j].src = "cmdb" /\ job'[j].at # "looking" /\ changes' = changes =>
      /\ job[j].rest = <<>>
      /\ \A k \in Key : Listed(job[j].new, k) => rows'["cmdb"][k] > 0
      /\ job'[j].at = "choosing" /\ job'[j].left = job[j].left

LEMMA CmdbStep ==
  ASSUME InventoryTypeOK, TwinInv, HeldInv, LeavesNothingOut PROVE CmdbIsTaught
<1> SUFFICES ASSUME NEW j \in Jobs, job[j].at = "looking", job[j].src = "cmdb",
                    job'[j].at # "looking", changes' = changes
             PROVE  /\ job[j].rest = <<>>
                    /\ \A k \in Key : Listed(job[j].new, k) => rows'["cmdb"][k] > 0
                    /\ job'[j].at = "choosing" /\ job'[j].left = job[j].left
  BY DEF CmdbIsTaught
<1>1. j \in Locking /\ j # "upload"
  BY DEF TwinInv, JobOK, Locking
<1>2. ~job[j].gone
  BY DEF HeldInv
<1>3. ~Trips(j)
  <2> SUFFICES ASSUME Trips(j) PROVE FALSE
    OBVIOUS
  <2>1. Next1(j) \in Key /\ rows["cmdb"][Next1(j)] = 2
    BY DEF Trips, Looking, Copies, Next1, InventoryTypeOK, Job
  <2> QED
    BY <2>1 DEF TwinInv, NoTwins
<1>4. StoresAll(j)
  BY DEF LeavesNothingOut
<1> QED
  BY <1>1, <1>2, <1>3, <1>4 DEF StoresAll

(* If no list names a system twice, nothing but a person's request or a    *)
(* restart can keep a fetched CMDB list from being stored to its end, and  *)
(* the sources after it from their turn: not an error in another source,   *)
(* not another synchronisation, not a row deleted under it.                *)
THEOREM TheCmdbIsTaught ==
  ASSUME \A l \in Offers : Distinct(l) PROVE InventorySpec => [][CmdbIsTaught]_inventoryVars
<1>1. InventoryInit => TwinInv /\ HeldInv
  BY DEF InventoryInit, TwinInv, NoTwins, JobOK, HeldInv, Idle, Origin, Source, Remote
<1>2. InventoryTypeOK /\ TwinInv /\ HeldInv /\ [InventoryNext]_inventoryVars => TwinInv' /\ HeldInv'
  BY TwinStep, HeldStep
<1>3. InventoryTypeOK /\ TwinInv /\ HeldInv /\ [InventoryNext]_inventoryVars
        => [CmdbIsTaught]_inventoryVars
  BY NothingLeftOut, CmdbStep
<1> QED
  BY <1>1, <1>2, <1>3, InventoryTyping, PTL DEF InventorySpec
=============================================================================
