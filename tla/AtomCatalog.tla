---------------------------- MODULE AtomCatalog ----------------------------
(***************************************************************************)
(* The ATOM feeds live twice: as config["feeds"] of the web_api source,    *)
(* edited under Settings, and as vulnerability_repositories rows with an   *)
(* Enable switch each, shown on Input Sources; web_api.enabled sums the    *)
(* switches up for the scheduler.  Requests keep the three in step.  A     *)
(* request works on what its session loaded, so it may commit after        *)
(* another one did; nothing is flushed before the commit, so a row it has  *)
(* deleted still turns up in its own queries.                              *)
(***************************************************************************)
EXTENDS Naturals

CONSTANTS Url,
          LookupUrl,            \* URLs of NVD and EPSS: listed, never polled
          Default,              \* DEFAULT_ATOM_FEEDS
          MaxEdits              \* bound: requests that change something

ASSUME CatalogAssumption ==
  /\ LookupUrl \subseteq Url
  /\ Default \subseteq Url
  /\ MaxEdits \in Nat

VARIABLES feeds,                \* URLs in config["feeds"]
          switch,               \* switch[u]: the row's Enable, or "none"
          channel,              \* web_api.enabled
          seeded,               \* ATOM_FEEDS_SEEDED in .env
          boot,                 \* start-up: "seeding", "writing" or "up"
          loaded,               \* what a slow request has loaded, or NoView
          edits,
          pulling, todo, dirty, \* pulls under way, their URLs to go, the rows
                                \* they have changed
          synced                \* rows pulled within the interval

catalog == <<feeds, switch, channel>>
pullVars == <<pulling, todo, dirty>>
Puller == {"poll", "sync"}
NoPulls == [p \in Puller |-> {}]
catalogVars == <<catalog, seeded, boot, loaded, edits, pullVars, synced>>

AtomFeed == Url \ LookupUrl
View == [feeds : SUBSET Url, switch : [AtomFeed -> {"none", "off", "on"}], channel : BOOLEAN]
NoView == [feeds |-> {}, switch |-> [u \in AtomFeed |-> "none"], channel |-> TRUE]

CatalogTypeOK ==
  /\ feeds \subseteq Url
  /\ switch \in [AtomFeed -> {"none", "off", "on"}]
  /\ channel \in BOOLEAN /\ seeded \in BOOLEAN
  /\ boot \in {"seeding", "writing", "up"}
  /\ loaded \in View
  /\ edits \in 0..MaxEdits
  /\ pulling \subseteq Puller
  /\ todo \in [Puller -> SUBSET AtomFeed] /\ dirty \in [Puller -> SUBSET AtomFeed]
  /\ synced \subseteq AtomFeed

CatalogInit ==
  /\ feeds = {}
  /\ switch = [u \in AtomFeed |-> "none"]
  /\ channel = FALSE
  /\ seeded = FALSE
  /\ boot = "seeding"
  /\ loaded = NoView
  /\ edits = 0
  /\ pulling = {} /\ todo = NoPulls /\ dirty = NoPulls
  /\ synced = {}

-----------------------------------------------------------------------------
(* What a request makes of the view v it has loaded.                       *)

Now == [feeds |-> feeds, switch |-> switch, channel |-> channel]
AnyOn(s) == \E u \in AtomFeed : s[u] = "on"

(* sync_atom_repositories: a row for every feed, switched off at first, no *)
(* row without one.                                                        *)
MirrorAdds(F, s) == [u \in AtomFeed |-> IF u \in F /\ s[u] = "none" THEN "off" ELSE s[u]]
Mirror(F, s) == [u \in AtomFeed |-> CASE u \notin F -> "none"
                                  [] u \in F /\ s[u] = "none" -> "off"
                                  [] OTHER -> s[u]]

(* sync_atom_channel_enabled looks at the rows as they were before the     *)
(* mirror's deletes.                                                       *)
SaveFeeds(v, F) ==
  [feeds |-> F, switch |-> Mirror(F, v.switch), channel |-> AnyOn(v.switch)]

(* align_legacy: where the channel is off, every row is paused.            *)
Aligned(v) == IF v.channel THEN v.switch
              ELSE [u \in AtomFeed |-> IF v.switch[u] = "on" THEN "off" ELSE v.switch[u]]

(* Mutant: the channel is left alone.                                      *)
ListUnsummed(v) == [feeds |-> v.feeds, switch |-> Mirror(v.feeds, v.switch), channel |-> v.channel]
(* ensure_atom_feeds, with every GET of the repositories and settings.     *)
List(v) == [feeds |-> v.feeds, switch |-> Mirror(v.feeds, Aligned(v)), channel |-> AnyOn(Aligned(v))]

(* restore_default_atom_feeds lists first.                                 *)
Restore(v) == SaveFeeds(List(v), v.feeds \cup Default)

(* Mutant: a row is set to a state of its own.                             *)
FlipToNone(x) == IF x = "on" THEN "paused" ELSE "on"
(* toggle_repository and, for the whole channel, toggle_source.            *)
Flip(x) == IF x = "on" THEN "off" ELSE "on"
ToggleRow(v, u) ==
  LET s == [v.switch EXCEPT ![u] = Flip(@)]
  IN  [v EXCEPT !.switch = s, !.channel = AnyOn(s)]
ToggleAll(v) ==
  LET x == IF v.channel THEN "off" ELSE "on"
      s == [u \in AtomFeed |-> IF v.switch[u] = "none" THEN "none" ELSE x]
  IN  [v EXCEPT !.switch = s, !.channel = AnyOn(s)]

(* update_source sets what it is given.                                    *)
Patch(v, on) == [v EXCEPT !.channel = on]

(* The commit of w, computed from v: columns that changed are written; a   *)
(* row to change must be there, a row to add must not.                     *)
Writable(v, w) ==
  \A u \in AtomFeed : w.switch[u] \notin {v.switch[u], "none"} =>
                    (v.switch[u] = "none" <=> switch[u] = "none")
Commit(v, w) ==
  /\ feeds' = IF w.feeds = v.feeds THEN feeds ELSE w.feeds
  /\ switch' = [u \in AtomFeed |-> IF w.switch[u] = v.switch[u] THEN switch[u] ELSE w.switch[u]]
  /\ channel' = IF w.channel = v.channel THEN channel ELSE w.channel

-----------------------------------------------------------------------------
(* Mutant: .env is not asked.                                              *)
WriteEnvAgain ==
  /\ boot = "seeding"
  /\ seeded' = TRUE
  /\ boot' = "writing"
  /\ UNCHANGED <<catalog, loaded, edits, pullVars, synced>>

(* Start-up seeds the feeds: .env says so before the rows are committed.   *)
WriteEnv ==
  /\ boot = "seeding"
  /\ seeded' = TRUE
  /\ boot' = IF seeded THEN "up" ELSE "writing"
  /\ UNCHANGED <<catalog, loaded, edits, pullVars, synced>>

CommitSeed ==
  /\ boot = "writing"
  /\ boot' = "up"
  /\ Commit(Now, SaveFeeds(Now, feeds \cup Default))
  /\ UNCHANGED <<seeded, loaded, edits, pullVars, synced>>

Restart ==
  /\ edits < MaxEdits
  /\ edits' = edits + 1
  /\ boot' = "seeding"
  /\ loaded' = NoView
  /\ pulling' = {} /\ todo' = NoPulls /\ dirty' = NoPulls
  /\ UNCHANGED <<catalog, seeded, synced>>

(* A request loads the rows; it commits at once (from = Now) or after      *)
(* others have (from = loaded).                                            *)
Load ==
  /\ boot = "up" /\ edits < MaxEdits
  /\ loaded = NoView
  /\ loaded' = Now
  /\ UNCHANGED <<catalog, seeded, boot, edits, pullVars, synced>>

Request(from, to) ==
  /\ boot = "up" /\ edits < MaxEdits
  /\ from = loaded => loaded # NoView
  /\ Writable(from, to)
  /\ edits' = edits + 1
  /\ Commit(from, to)
  /\ loaded' = IF from = loaded THEN NoView ELSE loaded
  /\ UNCHANGED <<seeded, boot, pullVars, synced>>

PutWebApi(v) == \E F \in SUBSET Url : Request(v, SaveFeeds(v, F))
RestoreFeeds(v) == Request(v, Restore(v))
ToggleRepository(v) == \E u \in AtomFeed : v.switch[u] # "none" /\ Request(v, ToggleRow(v, u))
ToggleSource(v) == Request(v, ToggleAll(v))
PatchSource(v) == \E on \in BOOLEAN : Request(v, Patch(v, on))
ListLate == Request(loaded, List(loaded))

(* A GET that changes what it reads.                                       *)
ListNow ==
  /\ boot = "up"
  /\ Commit(Now, List(Now))
  /\ UNCHANGED <<seeded, boot, loaded, edits, pullVars, synced>>

-----------------------------------------------------------------------------
(* pull_web_api, by the poll or by Sync now on one row.                    *)

PollBegin ==
  /\ boot = "up" /\ "poll" \notin pulling /\ channel
  /\ pulling' = pulling \cup {"poll"}
  /\ todo' = [todo EXCEPT !["poll"] = feeds \cap AtomFeed]
  /\ UNCHANGED <<catalog, seeded, boot, loaded, edits, dirty, synced>>

SyncBegin(u) ==
  /\ boot = "up" /\ "sync" \notin pulling /\ switch[u] # "none" /\ u \in feeds
  /\ pulling' = pulling \cup {"sync"}
  /\ todo' = [todo EXCEPT !["sync"] = {u}]
  /\ UNCHANGED <<catalog, seeded, boot, loaded, edits, dirty, synced>>

Paused(p, u) == p = "poll" /\ switch[u] # "on"
PullSkips(p, u) ==
  /\ u \in todo[p] /\ Paused(p, u)
  /\ todo' = [todo EXCEPT ![p] = @ \ {u}]
  /\ UNCHANGED <<catalog, seeded, boot, loaded, edits, pulling, dirty, synced>>

(* Mutant: a feed that fails ends the pull, the others wait for ever.      *)
PullEndEarly(p) ==
  /\ p \in pulling
  /\ synced' = synced
  /\ pulling' = pulling \ {p}
  /\ todo' = [todo EXCEPT ![p] = {}]
  /\ dirty' = [dirty EXCEPT ![p] = {}]
  /\ UNCHANGED <<catalog, seeded, boot, loaded, edits>>

(* Fetched or failed, the row is marked; the rows marked so far go with    *)
(* the next commit, that of an entry stored.  One that is gone by then     *)
(* ends the pull.                                                          *)
Gone(p) == {u \in dirty[p] : switch[u] = "none"}
PullFeed(p, u, stores) ==
  /\ u \in todo[p] /\ ~Paused(p, u)
  /\ stores => Gone(p) = {}
  /\ todo' = [todo EXCEPT ![p] = @ \ {u}]
  /\ synced' = IF stores THEN synced \cup dirty[p] ELSE synced
  /\ dirty' = [dirty EXCEPT ![p] = {u} \cup (IF stores THEN {} ELSE @)]
  /\ UNCHANGED <<catalog, seeded, boot, loaded, edits, pulling>>

PullEnd(p) ==
  /\ p \in pulling
  /\ Gone(p) # {} \/ todo[p] = {}
  /\ synced' = IF Gone(p) = {} THEN synced \cup dirty[p] ELSE synced
  /\ pulling' = pulling \ {p}
  /\ todo' = [todo EXCEPT ![p] = {}]
  /\ dirty' = [dirty EXCEPT ![p] = {}]
  /\ UNCHANGED <<catalog, seeded, boot, loaded, edits>>

IntervalPasses ==
  /\ synced' = {}
  /\ UNCHANGED <<catalog, seeded, boot, loaded, edits, pullVars>>

-----------------------------------------------------------------------------
Edit(v) == PutWebApi(v) \/ RestoreFeeds(v) \/ ToggleRepository(v) \/ ToggleSource(v) \/ PatchSource(v)

PullStep(p) ==
  \/ PullEnd(p)
  \/ \E u \in AtomFeed : PullSkips(p, u) \/ \E stores \in BOOLEAN : PullFeed(p, u, stores)
Poll == PollBegin \/ PullStep("poll")

CatalogNext ==
  \/ WriteEnv \/ CommitSeed \/ Restart \/ Load \/ ListNow \/ ListLate
  \/ Edit(Now) \/ Edit(loaded)
  \/ Poll \/ PullStep("sync") \/ IntervalPasses
  \/ \E u \in AtomFeed : SyncBegin(u)

CatalogSpec == CatalogInit /\ [][CatalogNext]_catalogVars

(* The pages are looked at again and again, and the scheduler's job comes  *)
(* every minute.                                                           *)
CatalogFairness ==
  /\ WF_catalogVars(WriteEnv \/ CommitSeed)
  /\ WF_catalogVars(ListNow)
  /\ WF_catalogVars(Poll)
CatalogLiveSpec == CatalogSpec /\ CatalogFairness

-----------------------------------------------------------------------------
(* Once the defaults are seeded, only a request of the operator brings a   *)
(* feed to the list: neither a restart nor a page's GET, however late it   *)
(* commits, brings back one that was deleted.                              *)
NotResurrected ==
  [][(feeds # {} /\ (edits' = edits \/ ListLate)) => feeds' \subseteq feeds]_catalogVars

(* Once the operator stops, the rows mirror the feeds and the channel      *)
(* their switches, whatever requests overlapped before.                    *)
InStep ==
  /\ \A u \in AtomFeed : switch[u] # "none" <=> u \in feeds
  /\ channel = AnyOn(switch)
CatalogSettles == <>[]InStep

(* A feed that stays enabled is pulled in every interval, though rows are  *)
(* deleted under the pull and other feeds fail.                            *)
EnabledIsPulled ==
  \A u \in AtomFeed :
    (switch[u] = "on" /\ u \in feeds /\ channel)
      ~> (u \in synced \/ switch[u] # "on" \/ u \notin feeds \/ ~channel)
=============================================================================
