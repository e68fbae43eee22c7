----------------------------- MODULE FileFeeds -----------------------------
(***************************************************************************)
(* The folder sources (Local folder, SMB share): a scan lists the files,   *)
(* skips those it has seen, hands the others to ingest_payload and at its  *)
(* end writes the whole InputSource.config back, the copy it made at its   *)
(* start with the stamps it collected.  The scheduler, an operator's Sync  *)
(* now and a settings save work on the same row, each with a session of    *)
(* its own; sessions do not expire on commit, so none of them sees what    *)
(* the others wrote meanwhile.                                             *)
(***************************************************************************)
EXTENDS Naturals, Sequences

CONSTANTS File,
          Cve,
          Allowed,              \* CVEs inside the intel window
          Content,              \* Content[f][v]: CVE ids in version v of f,
                                \* as many versions as the bound allows
          Unreadable,           \* Unreadable[f]: versions whose read fails
          NoFile,
          MaxSaves,             \* bound: saves of the settings form
          MaxFails              \* bound: pulls an error or a crash cuts short

ASSUME FeedAssumption ==
  /\ Allowed \subseteq Cve
  /\ Unreadable \in [File -> SUBSET Nat]
  /\ NoFile \notin File
  /\ MaxSaves \in Nat /\ MaxFails \in Nat
  /\ Content \in [File -> Seq(SUBSET Cve)]

VARIABLES kind,                 \* source_type of the source: "local" or "smb"
          config,               \* InputSource.config
          disk,                 \* disk[f]: version in the folder, 0 if none
          row,                  \* row[f]: newest ingest_events row naming f
          known,                \* CVEs stored, or in a queued event
          at, base, mine,       \* of each session: where it is, the config it
          todo, stamp, file,    \* loaded, the stamps it builds, its files
          served,               \* ghost: versions taken over, or without CVEs
          fails

session == <<at, base, mine, todo, stamp, file>>
outside == <<kind, disk, row, known, served>>
feedVars == <<kind, config, disk, row, known, session, served, fails>>

Scan == {"poll", "sync"}
Stamps == [File -> Nat]         \* config["seen"]; 0: no stamp
Config == [form : 0..MaxSaves, seen : Stamps, recent : BOOLEAN]
NoRow == [duplicate |-> FALSE, cves |-> {}]

FeedTypeOK ==
  /\ kind \in {"local", "smb"}
  /\ config \in Config
  /\ disk \in Stamps
  /\ row \in [File -> [duplicate : BOOLEAN, cves : SUBSET Cve]]
  /\ known \subseteq Cve
  /\ at \in [Scan -> {"idle", "listing", "reading", "marking"}]
  /\ base \in [Scan -> Config]
  /\ mine \in [Scan -> Stamps]
  /\ todo \in [Scan -> SUBSET File]
  /\ stamp \in [Scan -> Stamps]
  /\ file \in [Scan -> File \cup {NoFile}]
  /\ \A s \in Scan : /\ at[s] = "reading" <=> file[s] # NoFile
                     /\ at[s] = "marking" => s = "poll" /\ kind = "local"
  /\ served \subseteq File \X Nat
  /\ fails \in 0..MaxFails

NoStamps == [f \in File |-> 0]
NewConfig == [form |-> 0, seen |-> NoStamps, recent |-> FALSE]

FeedInit ==
  /\ kind \in {"local", "smb"}
  /\ config = NewConfig
  /\ disk = NoStamps
  /\ row = [f \in File |-> NoRow]
  /\ known = {}
  /\ at = [s \in Scan |-> "idle"]
  /\ base = [s \in Scan |-> NewConfig]
  /\ mine = [s \in Scan |-> NoStamps]
  /\ todo = [s \in Scan |-> {}]
  /\ stamp = [s \in Scan |-> NoStamps]
  /\ file = [s \in Scan |-> NoFile]
  /\ served = {}
  /\ fails = 0

-----------------------------------------------------------------------------
InFolder(f) == disk[f] # 0

(* cves_recorded_for_file: duplicates do not count.                        *)
Recorded(f) == IF row[f].duplicate THEN {} ELSE row[f].cves

(* Mutant: a stamp is enough.                                              *)
SkipSeen(f, seen, now) == seen = now
(* Mutant: a file is read once.                                            *)
SkipStamped(f, seen, now) == seen # 0
SkipUnchanged(f, seen, now) == /\ seen = now
                               /\ Recorded(f) # {}
                               /\ Recorded(f) \subseteq known

(* _stamp_if_done.                                                         *)
StampIfDone(text, created) == created \/ text = {}

(* A session ends and forgets what it held.                                *)
Closed(s) ==
  /\ at' = [at EXCEPT ![s] = "idle"]
  /\ base' = [base EXCEPT ![s] = NewConfig]
  /\ mine' = [mine EXCEPT ![s] = NoStamps]
  /\ todo' = [todo EXCEPT ![s] = {}]
  /\ stamp' = [stamp EXCEPT ![s] = NoStamps]
  /\ file' = [file EXCEPT ![s] = NoFile]

-----------------------------------------------------------------------------
(* The pulls.                                                              *)

(* _poll_kind polls a local source that is due; poll_smb does not ask, and *)
(* Sync now neither.  A paused source is one whose poll does not come; a   *)
(* missing folder is an error and changes nothing here.                    *)
Begin(s) ==
  /\ at[s] = "idle"
  /\ s = "poll" => (kind = "local" => ~config.recent)
  /\ at' = [at EXCEPT ![s] = "listing"]
  /\ base' = [base EXCEPT ![s] = config]
  /\ mine' = [mine EXCEPT ![s] = config.seen]
  /\ todo' = [todo EXCEPT ![s] = {f \in File : InFolder(f)}]
  /\ stamp' = [stamp EXCEPT ![s] = IF kind = "smb" THEN disk ELSE NoStamps]
  /\ UNCHANGED <<outside, config, file, fails>>

(* The stamp is taken before the text is read: with the listing on a       *)
(* share, file by file in a folder.                                        *)
StampOf(s, f) == IF kind = "smb" THEN stamp[s][f] ELSE disk[f]

Skip(s, f) ==
  /\ at[s] = "listing" /\ f \in todo[s]
  /\ SkipUnchanged(f, mine[s][f], StampOf(s, f))
  /\ todo' = [todo EXCEPT ![s] = @ \ {f}]
  /\ UNCHANGED <<outside, config, at, base, mine, stamp, file, fails>>

Open(s, f) ==
  /\ at[s] = "listing" /\ f \in todo[s]
  /\ ~SkipUnchanged(f, mine[s][f], StampOf(s, f))
  /\ at' = [at EXCEPT ![s] = "reading"]
  /\ stamp' = [stamp EXCEPT ![s][f] = StampOf(s, f)]
  /\ file' = [file EXCEPT ![s] = f]
  /\ todo' = [todo EXCEPT ![s] = @ \ {f}]
  /\ UNCHANGED <<outside, config, base, mine, fails>>

(* ingest_payload on the CVEs of a text, those outside the window left     *)
(* out: a row that names the file, unless an older one does and there is   *)
(* nothing new.                                                            *)
Ingest(f, cves) ==
  /\ known' = known \cup cves
  /\ row' = CASE cves = {} -> row
              [] cves # {} /\ ~(cves \subseteq known) ->
                   [row EXCEPT ![f] = [duplicate |-> FALSE, cves |-> cves]]
              [] cves # {} /\ cves \subseteq known /\ row[f] = NoRow ->
                   [row EXCEPT ![f] = [duplicate |-> TRUE, cves |-> cves]]
              [] OTHER -> row

Read(s) ==
  LET f == file[s]
      text == Content[f][disk[f]]
      created == text \cap Allowed # {}
      done == StampIfDone(text, created)
  IN  /\ at[s] = "reading" /\ disk[f] \notin Unreadable[f]
      /\ Ingest(f, text \cap Allowed)
      /\ mine' = IF done THEN [mine EXCEPT ![s][f] = stamp[s][f]] ELSE mine
      /\ served' = IF created \/ text = {} THEN served \cup {<<f, disk[f]>>} ELSE served
      /\ at' = [at EXCEPT ![s] = "listing"]
      /\ file' = [file EXCEPT ![s] = NoFile]
      /\ UNCHANGED <<kind, disk, config, base, todo, stamp, fails>>

(* Mutant: stamped before it is read.                                      *)
UnreadStamped(s) ==
  /\ at[s] = "reading" /\ disk[file[s]] \in Unreadable[file[s]]
  /\ at' = [at EXCEPT ![s] = "listing"]
  /\ file' = [file EXCEPT ![s] = NoFile]
  /\ mine' = [mine EXCEPT ![s][file[s]] = stamp[s][file[s]]]
  /\ UNCHANGED <<base, todo, stamp, outside, config, fails>>

(* read_as_text answers None; read_text_file raises, and the pull is over. *)
Unread(s) ==
  /\ at[s] = "reading" /\ disk[file[s]] \in Unreadable[file[s]]
  /\ IF kind = "local"
     THEN /\ at' = [at EXCEPT ![s] = "listing"]
          /\ file' = [file EXCEPT ![s] = NoFile]
          /\ UNCHANGED <<base, mine, todo, stamp>>
     ELSE Closed(s)
  /\ UNCHANGED <<outside, config, fails>>

(* Mutant: every scan of a folder is marked as a poll.                     *)
FinishMarking(s) ==
  LET mineToo == [base[s] EXCEPT !.seen = mine[s]]
  IN  /\ at[s] = "listing" /\ todo[s] = {}
      /\ config' = IF mineToo = base[s] THEN config ELSE mineToo
      /\ IF kind = "local"
         THEN /\ at' = [at EXCEPT ![s] = "marking"]
              /\ base' = [base EXCEPT ![s] = mineToo]
              /\ UNCHANGED <<mine, todo, stamp, file>>
         ELSE Closed(s)
      /\ UNCHANGED <<outside, fails>>

(* source.config = cfg writes the whole value, and nothing if it equals    *)
(* the value loaded.                                                       *)
Finish(s) ==
  LET mineToo == [base[s] EXCEPT !.seen = mine[s]]
  IN  /\ at[s] = "listing" /\ todo[s] = {}
      /\ config' = IF mineToo = base[s] THEN config ELSE mineToo
      /\ IF s = "poll" /\ kind = "local"
         THEN /\ at' = [at EXCEPT ![s] = "marking"]
              /\ base' = [base EXCEPT ![s] = mineToo]
              /\ UNCHANGED <<mine, todo, stamp, file>>
         ELSE Closed(s)
      /\ UNCHANGED <<outside, fails>>

(* _mark_polled, in a commit of its own and always written.                *)
MarkPolled(s) ==
  /\ at[s] = "marking"
  /\ config' = [base[s] EXCEPT !.recent = TRUE]
  /\ Closed(s)
  /\ UNCHANGED <<outside, fails>>

(* The write lock does not come in time, or the process dies: the rows     *)
(* stored so far stay, the stamps are gone.                                *)
Fail(s) ==
  /\ at[s] # "idle" /\ fails < MaxFails
  /\ fails' = fails + 1
  /\ Closed(s)
  /\ UNCHANGED <<outside, config>>

Crash ==
  /\ fails < MaxFails
  /\ fails' = fails + 1
  /\ at' = [s \in Scan |-> "idle"]
  /\ base' = [s \in Scan |-> NewConfig]
  /\ mine' = [s \in Scan |-> NoStamps]
  /\ todo' = [s \in Scan |-> {}]
  /\ stamp' = [s \in Scan |-> NoStamps]
  /\ file' = [s \in Scan |-> NoFile]
  /\ UNCHANGED <<outside, config>>

-----------------------------------------------------------------------------
(* The operator and the rest of the system.                                *)

(* save_local, save_smb: the form's keys change, the others stay.          *)
SaveForm ==
  /\ config.form < MaxSaves
  /\ config' = [config EXCEPT !.form = @ + 1]
  /\ UNCHANGED <<outside, session, fails>>

(* poll_seconds pass since the last poll, in every copy of its time.       *)
IntervalPasses ==
  /\ config' = [config EXCEPT !.recent = FALSE]
  /\ base' = [s \in Scan |-> [base[s] EXCEPT !.recent = FALSE]]
  /\ UNCHANGED <<outside, at, mine, todo, stamp, file, fails>>

Edit(f) ==
  /\ disk[f] < Len(Content[f])
  /\ disk' = [disk EXCEPT ![f] = @ + 1]
  /\ UNCHANGED <<kind, row, known, served, config, session, fails>>

(* Another source brings the CVE; it is deleted, or its event comes to     *)
(* nothing.                                                                *)
Learn(c) ==
  /\ c \in Allowed \ known
  /\ known' = known \cup {c}
  /\ UNCHANGED <<kind, disk, row, served, config, session, fails>>

Forget(c) ==
  /\ c \in known
  /\ known' = known \ {c}
  /\ UNCHANGED <<kind, disk, row, served, config, session, fails>>

(* wipe_collected_cve_data pops "seen" from every source's config.         *)
Wipe ==
  /\ known' = {}
  /\ row' = [f \in File |-> NoRow]
  /\ config' = [config EXCEPT !.seen = NoStamps]
  /\ UNCHANGED <<kind, disk, served, session, fails>>

-----------------------------------------------------------------------------
PollStep ==
  \/ Begin("poll") \/ Read("poll") \/ Unread("poll") \/ Finish("poll") \/ MarkPolled("poll")
  \/ \E f \in File : Skip("poll", f) \/ Open("poll", f)

SyncStep ==
  \/ Begin("sync") \/ Read("sync") \/ Unread("sync") \/ Finish("sync")
  \/ \E f \in File : Skip("sync", f) \/ Open("sync", f)

FeedNext ==
  \/ PollStep \/ SyncStep \/ Crash
  \/ SaveForm \/ IntervalPasses \/ Wipe
  \/ \E s \in Scan : Fail(s)
  \/ \E f \in File : Edit(f)
  \/ \E c \in Cve : Learn(c) \/ Forget(c)

FeedSpec == FeedInit /\ [][FeedNext]_feedVars

(* APScheduler fires the job again and again; time passes.                 *)
FeedFairness == WF_feedVars(PollStep) /\ WF_feedVars(IntervalPasses)
FeedLiveSpec == FeedSpec /\ FeedFairness

-----------------------------------------------------------------------------
(* A stamp in config["seen"] that matches the file is earned: that version *)
(* was taken over by ingest_payload, or has no CVE (_stamp_if_done), with  *)
(* whatever scans, saves, crashes and edits in between.  A stamp that runs *)
(* ahead of the text would hide a changed file for good.                   *)
StampEarned ==
  \A f \in File : (config.seen[f] = disk[f] /\ disk[f] # 0) => <<f, disk[f]>> \in served

(* Every version of a readable file with a CVE to keep is taken over, if   *)
(* the version stays in the folder.                                        *)
NotHeldUp(f) == kind = "local" \/ \A g \in File \ {f} : Unreadable[g] = {}
Keeps(f, v) == Content[f][v] \cap Allowed # {} /\ v \notin Unreadable[f]
ChangedIsServed ==
  \A f \in File : \A v \in DOMAIN Content[f] :
    Keeps(f, v) /\ NotHeldUp(f) =>
      ((disk[f] = v) ~> (<<f, v>> \in served \/ disk[f] # v))

(* When a CVE of a file is deleted, the file is read again and the CVE     *)
(* comes back: true while the row that names the file holds its CVEs.      *)
Current(f) == /\ InFolder(f)
              /\ disk[f] \notin Unreadable[f]
              /\ Recorded(f) = Content[f][disk[f]] \cap Allowed
DeletedComesBack ==
  \A f \in File :
    NotHeldUp(f) =>
      ((Current(f) /\ ~(Recorded(f) \subseteq known))
         ~> (Recorded(f) \subseteq known \/ ~Current(f)))
=============================================================================
