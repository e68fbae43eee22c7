-------------------------- MODULE FileFeeds_proofs --------------------------
(***************************************************************************)
(* A stamp never runs ahead of the text.  Copies of config["seen"] are     *)
(* carried about by scans and written back late; each of them is either    *)
(* behind the folder or earned, and stays so when the file changes.        *)
(***************************************************************************)
EXTENDS FileFeeds, TLAPS

LEMMA FeedTypeInit == FeedInit => FeedTypeOK
  BY FeedAssumption
     DEF FeedInit, FeedTypeOK, Config, Stamps, NewConfig, NoStamps, NoRow, Scan

LEMMA ClosedType ==
  ASSUME FeedTypeOK, NEW s \in Scan, Closed(s)
  PROVE  /\ at' \in [Scan -> {"idle", "listing", "reading", "marking"}]
         /\ base' \in [Scan -> Config] /\ mine' \in [Scan -> Stamps]
         /\ todo' \in [Scan -> SUBSET File] /\ stamp' \in [Scan -> Stamps]
         /\ file' \in [Scan -> File \cup {NoFile}]
         /\ \A t \in Scan : /\ at'[t] = "reading" <=> file'[t] # NoFile
                            /\ at'[t] = "marking" => t = "poll" /\ kind = "local"
  BY FeedAssumption DEF FeedTypeOK, Closed, Config, Stamps, NewConfig, NoStamps

LEMMA IngestType ==
  ASSUME FeedTypeOK, NEW f \in File, NEW cves \in SUBSET Cve, Ingest(f, cves)
  PROVE  known' \subseteq Cve /\ row' \in [File -> [duplicate : BOOLEAN, cves : SUBSET Cve]]
<1>1. CASE cves = {}
  BY <1>1 DEF FeedTypeOK, Ingest
<1>2. CASE cves # {} /\ ~(cves \subseteq known)
  BY <1>2 DEF FeedTypeOK, Ingest
<1>3. CASE cves # {} /\ cves \subseteq known /\ row[f] = NoRow
  BY <1>3 DEF FeedTypeOK, Ingest
<1>4. CASE cves # {} /\ cves \subseteq known /\ row[f] # NoRow
  BY <1>4 DEF FeedTypeOK, Ingest
<1> QED
  BY <1>1, <1>2, <1>3, <1>4

LEMMA Bump == ASSUME NEW m \in Nat, NEW n \in 0..m, n < m PROVE n + 1 \in 0..m
  OBVIOUS

LEMMA FeedTypeStep == FeedTypeOK /\ [FeedNext]_feedVars => FeedTypeOK'
<1> SUFFICES ASSUME FeedTypeOK, [FeedNext]_feedVars PROVE FeedTypeOK'
  OBVIOUS
<1> USE FeedAssumption DEF FeedTypeOK, Config, Stamps, Scan
<1>1. ASSUME NEW s \in Scan, Begin(s) PROVE FeedTypeOK'
  BY <1>1 DEF Begin, outside, NoStamps
<1>2. ASSUME NEW s \in Scan, NEW f \in File, Skip(s, f) PROVE FeedTypeOK'
  BY <1>2 DEF Skip, outside
<1>3. ASSUME NEW s \in Scan, NEW f \in File, Open(s, f) PROVE FeedTypeOK'
  <2>1. StampOf(s, f) \in Nat
    BY DEF StampOf
  <2> QED
    BY <1>3, <2>1 DEF Open, outside
<1>4. ASSUME NEW s \in Scan, Read(s) PROVE FeedTypeOK'
  <2>1. file[s] \in File
    BY <1>4 DEF Read
  <2>2. Ingest(file[s], Content[file[s]][disk[file[s]]] \cap Allowed)
    BY <1>4 DEF Read
  <2>3. known' \subseteq Cve /\ row' \in [File -> [duplicate : BOOLEAN, cves : SUBSET Cve]]
    <3>1. FeedTypeOK /\ Content[file[s]][disk[file[s]]] \cap Allowed \in SUBSET Cve
      OBVIOUS
    <3> HIDE FeedAssumption DEF FeedTypeOK
    <3> QED
      BY <2>1, <2>2, <3>1, IngestType
  <2>4. mine' \in [Scan -> Stamps]
    <3>1. mine' \in {mine, [mine EXCEPT ![s][file[s]] = stamp[s][file[s]]]}
      BY <1>4 DEF Read
    <3>2. [mine EXCEPT ![s][file[s]] = stamp[s][file[s]]] \in [Scan -> Stamps]
      BY <2>1
    <3> QED
      BY <3>1, <3>2
  <2>5. served' \subseteq File \X Nat
    <3>1. served' \in {served, served \cup {<<file[s], disk[file[s]]>>}}
      BY <1>4 DEF Read
    <3>2. served \subseteq File \X Nat /\ disk[file[s]] \in Nat
      BY <2>1
    <3> HIDE FeedAssumption DEF FeedTypeOK
    <3> QED
      BY <2>1, <3>1, <3>2
  <2> QED
    BY <1>4, <2>3, <2>4, <2>5 DEF Read
<1>5. ASSUME NEW s \in Scan, Unread(s) PROVE FeedTypeOK'
  <2>1. CASE kind = "local"
    <3>1. /\ at' = [at EXCEPT ![s] = "listing"] /\ file' = [file EXCEPT ![s] = NoFile]
          /\ UNCHANGED <<base, mine, todo, stamp, kind, disk, row, known, served, config, fails>>
      BY <1>5, <2>1 DEF Unread, outside
    <3> QED
      BY <3>1
  <2>2. CASE kind # "local"
    BY <1>5, <2>2, ClosedType DEF Unread, outside
  <2> QED
    BY <2>1, <2>2
<1>6. ASSUME NEW s \in Scan, Finish(s) PROVE FeedTypeOK'
  <2>1. [base[s] EXCEPT !.seen = mine[s]] \in Config
    OBVIOUS
  <2>2. CASE s = "poll" /\ kind = "local"
    <3>1. /\ config' \in {config, [base[s] EXCEPT !.seen = mine[s]]}
          /\ at' = [at EXCEPT ![s] = "marking"]
          /\ base' = [base EXCEPT ![s] = [base[s] EXCEPT !.seen = mine[s]]]
          /\ UNCHANGED <<mine, todo, stamp, file, kind, disk, row, known, served, fails>>
          /\ at[s] = "listing"
      BY <1>6, <2>2 DEF Finish, outside
    <3>2. config' \in Config /\ base' \in [Scan -> Config]
      BY <2>1, <3>1
    <3> QED
      BY <2>2, <3>1, <3>2
  <2>3. CASE ~(s = "poll" /\ kind = "local")
    BY <1>6, <2>1, <2>3, ClosedType DEF Finish, outside
  <2> QED
    BY <2>2, <2>3
<1>7. ASSUME NEW s \in Scan, MarkPolled(s) PROVE FeedTypeOK'
  <2>1. config' \in Config
    BY <1>7 DEF MarkPolled
  <2> QED
    BY <1>7, <2>1, ClosedType DEF MarkPolled, outside
<1>8. ASSUME NEW s \in Scan, Fail(s) PROVE FeedTypeOK'
  <2>1. fails' \in 0..MaxFails
    BY <1>8 DEF Fail
  <2> QED
    BY <1>8, <2>1, ClosedType DEF Fail, outside
<1>9. CASE Crash
  <2>1. fails' \in 0..MaxFails
    BY <1>9, Bump DEF Crash
  <2>2. NewConfig \in Config /\ NoStamps \in Stamps
    BY DEF NewConfig, NoStamps
  <2> QED
    BY <1>9, <2>1, <2>2 DEF Crash, outside
<1>10. CASE SaveForm
  <2>1. config' \in Config
    <3>1. config.form + 1 \in 0..MaxSaves
      BY <1>10, Bump DEF SaveForm
    <3> QED
      BY <1>10, <3>1 DEF SaveForm
  <2> QED
    BY <1>10, <2>1 DEF SaveForm, outside, session
<1>11. CASE IntervalPasses
  BY <1>11 DEF IntervalPasses, outside
<1>12. CASE Wipe
  BY <1>12 DEF Wipe, session, NoRow, NoStamps
<1>13. ASSUME NEW f \in File, Edit(f) PROVE FeedTypeOK'
  <2>1. disk' \in Stamps
    BY <1>13 DEF Edit
  <2> QED
    BY <1>13, <2>1 DEF Edit, session
<1>14. ASSUME NEW c \in Cve, Learn(c) \/ Forget(c) PROVE FeedTypeOK'
  BY <1>14 DEF Learn, Forget, session
<1>15. CASE UNCHANGED feedVars
  BY <1>15 DEF feedVars, session
<1> QED
  BY <1>1, <1>2, <1>3, <1>4, <1>5, <1>6, <1>7, <1>8, <1>9, <1>10, <1>11, <1>12, <1>13,
     <1>14, <1>15 DEF FeedNext, PollStep, SyncStep

(* Every variable of the scans keeps its type, and a scan is marked as a   *)
(* poll only if it is the poll of a folder: for any files and bounds.      *)
THEOREM FeedTyping == FeedSpec => []FeedTypeOK
  BY FeedTypeInit, FeedTypeStep, PTL DEF FeedSpec

-----------------------------------------------------------------------------
(* Stamps are behind the folder, or earned.                                *)
Earned(stamps) ==
  \A f \in File : /\ stamps[f] <= disk[f]
                  /\ (stamps[f] = disk[f] /\ disk[f] # 0) => <<f, disk[f]>> \in served

(* The copies there are, and the stamps taken with a listing.              *)
StampInv ==
  /\ Earned(config.seen)
  /\ \A s \in Scan : Earned(mine[s]) /\ Earned(base[s].seen)
  /\ \A s \in Scan : \A f \in File : stamp[s][f] <= disk[f]

LEMMA ClosedEarned ==
  ASSUME FeedTypeOK, StampInv, NEW s \in Scan, Closed(s), UNCHANGED <<disk, served>>
  PROVE  /\ \A t \in Scan : Earned(mine[t])' /\ Earned(base[t].seen)'
         /\ \A t \in Scan : \A f \in File : (stamp[t][f] <= disk[f])'
  BY DEF FeedTypeOK, Stamps, StampInv, Closed, Earned, NewConfig, NoStamps

LEMMA StampStep == FeedTypeOK /\ StampInv /\ [FeedNext]_feedVars => StampInv'
<1> SUFFICES ASSUME FeedTypeOK, StampInv, [FeedNext]_feedVars PROVE StampInv'
  OBVIOUS
<1> USE DEF FeedTypeOK, Config, Stamps, StampInv, Earned
<1>1. ASSUME NEW s \in Scan, Begin(s) PROVE StampInv'
  BY <1>1 DEF Begin, outside, NoStamps
<1>2. ASSUME NEW s \in Scan, NEW f \in File, Skip(s, f) PROVE StampInv'
  BY <1>2 DEF Skip, outside
<1>3. ASSUME NEW s \in Scan, NEW f \in File, Open(s, f) PROVE StampInv'
  <2>1. StampOf(s, f) \in Nat /\ StampOf(s, f) <= disk[f]
    BY DEF StampOf
  <2> QED
    BY <1>3, <2>1 DEF Open, outside
<1>4. ASSUME NEW s \in Scan, Read(s) PROVE StampInv'
  <2> DEFINE f == file[s]
             text == Content[f][disk[f]]
  <2>1. f \in File
    BY <1>4 DEF Read
  <2>2. served \subseteq served' /\ UNCHANGED <<config, base, disk, stamp>>
    BY <1>4 DEF Read
  <2>3. CASE text \cap Allowed # {} \/ text = {}
    <3>1. <<f, disk[f]>> \in served' /\ mine' = [mine EXCEPT ![s][f] = stamp[s][f]]
      BY <1>4, <2>3 DEF Read, StampIfDone
    <3> QED
      BY <2>1, <2>2, <3>1
  <2>4. CASE ~(text \cap Allowed # {} \/ text = {})
    BY <1>4, <2>2, <2>4 DEF Read, StampIfDone
  <2> QED
    BY <2>3, <2>4
<1>5. ASSUME NEW s \in Scan, Unread(s) PROVE StampInv'
  <2>1. CASE kind = "local"
    BY <1>5, <2>1 DEF Unread, outside
  <2>2. CASE kind # "local"
    BY <1>5, <2>2, ClosedEarned DEF Unread, outside
  <2> QED
    BY <2>1, <2>2
<1>6. ASSUME NEW s \in Scan, Finish(s) PROVE StampInv'
  <2>1. [base[s] EXCEPT !.seen = mine[s]].seen = mine[s]
    OBVIOUS
  <2>2. Earned(config.seen)'
    BY <1>6, <2>1 DEF Finish, outside
  <2>3. CASE s = "poll" /\ kind = "local"
    <3>1. /\ base' = [base EXCEPT ![s] = [base[s] EXCEPT !.seen = mine[s]]]
          /\ UNCHANGED <<mine, stamp, disk, served>>
      BY <1>6, <2>3 DEF Finish, outside
    <3>2. \A t \in Scan : base'[t].seen \in {base[t].seen, mine[t]}
      BY <3>1, <2>1
    <3> HIDE FeedAssumption
    <3> QED
      BY <3>1, <3>2, <2>2
  <2>4. CASE ~(s = "poll" /\ kind = "local")
    BY <1>6, <2>2, <2>4, ClosedEarned DEF Finish, outside
  <2> QED
    BY <2>3, <2>4
<1>7. ASSUME NEW s \in Scan, MarkPolled(s) PROVE StampInv'
  <2>1. config'.seen = base[s].seen /\ UNCHANGED <<disk, served>>
    BY <1>7 DEF MarkPolled, outside
  <2> QED
    BY <1>7, <2>1, ClosedEarned DEF MarkPolled
<1>8. ASSUME NEW s \in Scan, Fail(s) PROVE StampInv'
  BY <1>8, ClosedEarned DEF Fail, outside
<1>9. CASE Crash
  BY <1>9 DEF Crash, outside, NewConfig, NoStamps
<1>10. CASE SaveForm
  BY <1>10 DEF SaveForm, outside, session
<1>11. CASE IntervalPasses
  BY <1>11 DEF IntervalPasses, outside
<1>12. CASE Wipe
  BY <1>12 DEF Wipe, session, NoStamps
<1>13. ASSUME NEW f \in File, Edit(f) PROVE StampInv'
  <2>1. /\ disk' = [disk EXCEPT ![f] = disk[f] + 1]
        /\ UNCHANGED <<config, base, mine, stamp, served>>
    BY <1>13 DEF Edit, session
  <2>2. disk'[f] = disk[f] + 1 /\ \A g \in File \ {f} : disk'[g] = disk[g]
    BY <2>1
  <2>3. ASSUME NEW stamps \in Stamps, \A g \in File : stamps[g] <= disk[g],
               \A g \in File : (stamps[g] = disk[g] /\ disk[g] # 0) => <<g, disk[g]>> \in served
        PROVE  \A g \in File : /\ stamps[g] <= disk'[g]
                               /\ (stamps[g] = disk'[g] /\ disk'[g] # 0) => <<g, disk'[g]>> \in served
    BY <2>2, <2>3
  <2>4. \A t \in Scan : \A g \in File : stamp[t][g] <= disk'[g]
    <3> SUFFICES ASSUME NEW t \in Scan, NEW g \in File PROVE stamp[t][g] <= disk'[g]
      OBVIOUS
    <3>1. stamp[t][g] \in Nat /\ disk[g] \in Nat /\ stamp[t][g] <= disk[g]
      OBVIOUS
    <3>2. disk'[g] = disk[g] \/ disk'[g] = disk[g] + 1
      BY <2>2
    <3> QED
      BY <3>1, <3>2
  <2>5. config.seen \in Stamps /\ \A t \in Scan : mine[t] \in Stamps /\ base[t].seen \in Stamps
    OBVIOUS
  <2> QED
    BY <2>1, <2>3, <2>4, <2>5
<1>14. ASSUME NEW c \in Cve, Learn(c) \/ Forget(c) PROVE StampInv'
  BY <1>14 DEF Learn, Forget, session
<1>15. CASE UNCHANGED feedVars
  BY <1>15 DEF feedVars, session
<1> QED
  BY <1>1, <1>2, <1>3, <1>4, <1>5, <1>6, <1>7, <1>8, <1>9, <1>10, <1>11, <1>12, <1>13,
     <1>14, <1>15 DEF FeedNext, PollStep, SyncStep, Scan

(* A stamp that matches the file is earned, whatever scans, saves, errors, *)
(* crashes and edits come in between, for any number of files and versions.*)
THEOREM StampsEarned == FeedSpec => []StampEarned
<1>1. FeedInit => StampInv
  BY DEF FeedInit, StampInv, Earned, NewConfig, NoStamps, Scan
<1>2. FeedTypeOK /\ StampInv => StampEarned
  BY DEF StampInv, Earned, StampEarned
<1> QED
  BY <1>1, <1>2, FeedTyping, FeedTypeStep, StampStep, PTL DEF FeedSpec

-----------------------------------------------------------------------------
(* A scan leaves nothing out: what ChangedIsServed and DeletedComesBack    *)
(* rest on, step by step.  It starts from every file in the folder, ends   *)
(* before the last only by an error, passes a file over only if the        *)
(* version in the folder was taken over and its CVEs are still known, and  *)
(* takes over what it reads.  A share is listed beforehand: there a file   *)
(* that changed since is left to the next scan.                            *)
TakesAll(s) == at[s] = "idle" /\ at'[s] = "listing" => todo'[s] = {f \in File : InFolder(f)}

GoesThrough(s) ==
  at[s] = "listing" /\ at'[s] \in {"idle", "marking"} /\ fails' = fails => todo[s] = {}

PassesOver(s, f) == \/ <<f, disk[f]>> \in served /\ Recorded(f) # {} /\ Recorded(f) \subseteq known
                    \/ kind = "smb" /\ stamp[s][f] # disk[f]

TakesOver(s, f) == \/ <<f, disk[f]>> \in served'
                   \/ disk[f] \in Unreadable[f]
                   \/ Content[f][disk[f]] \cap Allowed = {}

Thorough(s) ==
  /\ TakesAll(s)
  /\ GoesThrough(s)
  /\ \A f \in todo[s] \ todo'[s] : file'[s] = f \/ at'[s] = "idle" \/ PassesOver(s, f)
  /\ at[s] = "reading" /\ at'[s] = "listing" => TakesOver(s, file[s])

LeavesNothingOut == \A s \in Scan : Thorough(s)

(* A file on a scan's list is in the folder: none is ever taken out of it. *)
ListInv == \A s \in Scan : \A f \in todo[s] : InFolder(f)

LEMMA ListStep == ASSUME FeedTypeOK, ListInv, [FeedNext]_feedVars PROVE ListInv'
<1> USE DEF FeedTypeOK, Stamps, ListInv, InFolder
<1>1. ASSUME \A s \in Scan : todo'[s] \subseteq todo[s], UNCHANGED disk PROVE ListInv'
  BY <1>1
<1>2. ASSUME NEW s \in Scan, Begin(s) PROVE ListInv'
  BY <1>2 DEF Begin, outside
<1>3. ASSUME NEW s \in Scan, Closed(s), UNCHANGED disk PROVE ListInv'
  BY <1>3 DEF Closed
<1>4. ASSUME NEW s \in Scan, NEW f \in File, Skip(s, f) \/ Open(s, f) PROVE ListInv'
  BY <1>1, <1>4 DEF Skip, Open, outside
<1>5. ASSUME NEW s \in Scan, Read(s) PROVE ListInv'
  BY <1>1, <1>5 DEF Read
<1>6. ASSUME NEW s \in Scan, Unread(s) \/ Finish(s) \/ MarkPolled(s) \/ Fail(s) PROVE ListInv'
  <2>1. UNCHANGED disk /\ (UNCHANGED todo \/ Closed(s))
    BY <1>6 DEF Unread, Finish, MarkPolled, Fail, outside
  <2> QED
    BY <1>1, <1>3, <2>1
<1>7. CASE Crash
  BY <1>1, <1>7 DEF Crash, outside
<1>8. ASSUME SaveForm \/ IntervalPasses \/ Wipe \/ (\E c \in Cve : Learn(c) \/ Forget(c))
             \/ UNCHANGED feedVars
      PROVE  ListInv'
  <2>1. UNCHANGED <<todo, disk>>
    BY <1>8 DEF SaveForm, IntervalPasses, Wipe, Learn, Forget, feedVars, outside, session
  <2> QED
    BY <1>1, <2>1
<1>9. ASSUME NEW f \in File, Edit(f) PROVE ListInv'
  BY <1>9 DEF Edit, session
<1> QED
  BY <1>2, <1>4, <1>5, <1>6, <1>7, <1>8, <1>9 DEF FeedNext, PollStep, SyncStep, Scan

(* The sessions are each other's business only through the row.            *)
LEMMA OneSession ==
  ASSUME FeedTypeOK, NEW s \in Scan, Thorough(s),
         \A t \in Scan \ {s} : at'[t] = at[t] /\ todo'[t] = todo[t]
  PROVE  LeavesNothingOut
BY DEF LeavesNothingOut, Thorough, TakesAll, GoesThrough

LEMMA ThoroughStep ==
  ASSUME FeedTypeOK, StampInv, ListInv, [FeedNext]_feedVars PROVE LeavesNothingOut
<1> USE DEF FeedTypeOK, Config, Stamps
<1> DEFINE Rest(s) == \A t \in Scan \ {s} : at'[t] = at[t] /\ todo'[t] = todo[t]
<1>1. ASSUME UNCHANGED <<at, todo>> PROVE LeavesNothingOut
  BY <1>1 DEF LeavesNothingOut, Thorough, TakesAll, GoesThrough
<1>2. ASSUME NEW s \in Scan, Begin(s) PROVE LeavesNothingOut
  <2>1. /\ at[s] = "idle" /\ at'[s] = "listing" /\ Rest(s)
        /\ todo'[s] = {f \in File : InFolder(f)}
    BY <1>2 DEF Begin
  <2>2. Thorough(s)
    BY <2>1 DEF Thorough, TakesAll, GoesThrough, ListInv
  <2> QED
    BY <2>1, <2>2, OneSession
<1>3. ASSUME NEW s \in Scan, NEW f \in File, Skip(s, f) PROVE LeavesNothingOut
  <2>1. /\ at' = at /\ Rest(s) /\ at[s] = "listing" /\ f \in todo[s]
        /\ todo[s] \ todo'[s] \subseteq {f}
        /\ mine[s][f] = StampOf(s, f) /\ Recorded(f) # {} /\ Recorded(f) \subseteq known
    BY <1>3 DEF Skip, SkipUnchanged
  <2>2. disk[f] # 0 /\ (mine[s][f] = disk[f] => <<f, disk[f]>> \in served)
    BY <2>1 DEF StampInv, Earned, ListInv, InFolder
  <2>3. PassesOver(s, f)
    BY <2>1, <2>2 DEF PassesOver, StampOf
  <2>4. Thorough(s)
    BY <2>1, <2>3 DEF Thorough, TakesAll, GoesThrough
  <2> QED
    BY <2>1, <2>4, OneSession
<1>4. ASSUME NEW s \in Scan, NEW f \in File, Open(s, f) PROVE LeavesNothingOut
  <2>1. /\ at[s] = "listing" /\ at'[s] = "reading" /\ file'[s] = f /\ Rest(s)
        /\ todo[s] \ todo'[s] \subseteq {f}
    BY <1>4 DEF Open
  <2>2. Thorough(s)
    BY <2>1 DEF Thorough, TakesAll, GoesThrough
  <2> QED
    BY <2>1, <2>2, OneSession
<1>5. ASSUME NEW s \in Scan, Read(s) PROVE LeavesNothingOut
  <2>1. at[s] = "reading" /\ at'[s] = "listing" /\ todo' = todo /\ Rest(s)
    BY <1>5 DEF Read
  <2>2. TakesOver(s, file[s])
    BY <1>5 DEF Read, TakesOver
  <2>3. Thorough(s)
    BY <2>1, <2>2 DEF Thorough, TakesAll, GoesThrough
  <2> QED
    BY <2>1, <2>3, OneSession
<1>6. ASSUME NEW s \in Scan, Closed(s), at[s] = "listing" /\ fails' = fails => todo[s] = {}
      PROVE  LeavesNothingOut
  <2>1. at'[s] = "idle" /\ Rest(s)
    BY <1>6 DEF Closed
  <2>2. Thorough(s)
    BY <1>6, <2>1 DEF Thorough, TakesAll, GoesThrough
  <2> QED
    BY <2>1, <2>2, OneSession
<1>7. ASSUME NEW s \in Scan, Unread(s) PROVE LeavesNothingOut
  <2>1. at[s] = "reading" /\ disk[file[s]] \in Unreadable[file[s]]
    BY <1>7 DEF Unread
  <2>2. CASE kind = "local"
    <3>1. at'[s] = "listing" /\ todo' = todo /\ Rest(s)
      BY <1>7, <2>2 DEF Unread
    <3>2. Thorough(s)
      BY <2>1, <3>1 DEF Thorough, TakesAll, GoesThrough, TakesOver
    <3> QED
      BY <3>1, <3>2, OneSession
  <2>3. CASE kind # "local"
    BY <1>6, <1>7, <2>1, <2>3 DEF Unread
  <2> QED
    BY <2>2, <2>3
<1>8. ASSUME NEW s \in Scan, Finish(s) PROVE LeavesNothingOut
  <2>1. CASE s = "poll" /\ kind = "local"
    <3>1. todo[s] = {} /\ at[s] = "listing" /\ at'[s] = "marking" /\ todo' = todo /\ Rest(s)
      BY <1>8, <2>1 DEF Finish
    <3>2. Thorough(s)
      BY <3>1 DEF Thorough, TakesAll, GoesThrough
    <3> QED
      BY <3>1, <3>2, OneSession
  <2>2. CASE ~(s = "poll" /\ kind = "local")
    BY <1>6, <1>8, <2>2 DEF Finish
  <2> QED
    BY <2>1, <2>2
<1>9. ASSUME NEW s \in Scan, MarkPolled(s) \/ Fail(s) PROVE LeavesNothingOut
  <2>1. Closed(s) /\ (at[s] = "listing" => fails' # fails)
    BY <1>9, FeedAssumption DEF MarkPolled, Fail
  <2> QED
    BY <1>6, <2>1
<1>10. CASE Crash
  <2>1. fails' # fails /\ at' = [s \in Scan |-> "idle"]
    BY <1>10, FeedAssumption DEF Crash
  <2> QED
    BY <2>1 DEF LeavesNothingOut, Thorough, TakesAll, GoesThrough
<1>11. ASSUME SaveForm \/ IntervalPasses \/ Wipe \/ (\E f \in File : Edit(f))
              \/ (\E c \in Cve : Learn(c) \/ Forget(c)) \/ UNCHANGED feedVars
       PROVE  LeavesNothingOut
  <2>1. UNCHANGED <<at, todo>>
    BY <1>11 DEF SaveForm, IntervalPasses, Wipe, Edit, Learn, Forget, feedVars, session
  <2> QED
    BY <1>1, <2>1
<1> QED
  BY <1>2, <1>3, <1>4, <1>5, <1>7, <1>8, <1>9, <1>10, <1>11
     DEF FeedNext, PollStep, SyncStep, Scan

(* No scan leaves a changed or a deleted file's text out, whatever another *)
(* scan, a save, a wipe or a crash does to the stamps meanwhile.           *)
THEOREM Thoroughness == FeedSpec => [][LeavesNothingOut]_feedVars
<1>1. FeedInit => StampInv /\ ListInv
  BY DEF FeedInit, StampInv, ListInv, Earned, NewConfig, NoStamps, Scan
<1>2. FeedTypeOK /\ StampInv /\ ListInv /\ [FeedNext]_feedVars => StampInv' /\ ListInv'
  BY StampStep, ListStep
<1>3. FeedTypeOK /\ StampInv /\ ListInv /\ [FeedNext]_feedVars => [LeavesNothingOut]_feedVars
  BY ThoroughStep
<1> QED
  BY <1>1, <1>2, <1>3, FeedTyping, PTL DEF FeedSpec
=============================================================================
