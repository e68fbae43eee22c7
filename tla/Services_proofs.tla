-------------------------- MODULE Services_proofs --------------------------
(***************************************************************************)
(* The repository catalogue, the enrichment retries and the Debugger, for  *)
(* any URLs, CVEs, statuses and bounds: types, "nothing is stored", feeds  *)
(* that are not resurrected, and CVEs that keep their place in the queue.  *)
(***************************************************************************)
EXTENDS AtomCatalog, Debugger, Enrichment, TLAPS

(***************************************************************************)
(* The Debugger.  Its type invariant is inductive as it stands: who holds  *)
(* the write lock is known from where the run and the worker are.          *)
(***************************************************************************)
LEMMA DebugTypeInit == DebugInit => DebugTypeOK
<1>1. NoRow \in Row
  BY DEF NoRow, Row
<1>2. NoConfig \in Config
  BY DEF NoConfig, Config
<1> QED
  BY <1>1, <1>2 DEF DebugInit, DebugTypeOK, Place

LEMMA RollbackType ==
  ASSUME DebugTypeOK, Rollback, UNCHANGED worker, waits' \in {"nobody", waits},
         waits' = "debug" => writer # "debug"
  PROVE  DebugTypeOK'
  BY DEF Rollback, DebugTypeOK, Row, NoRow, Config, NoConfig, Place

LEMMA DebugTypeStep == DebugTypeOK /\ [DebugNext]_debugVars => DebugTypeOK'
<1> SUFFICES ASSUME DebugTypeOK, [DebugNext]_debugVars PROVE DebugTypeOK'
  OBVIOUS
<1>1. CASE Scan
  BY <1>1 DEF Scan, Goto, LoopFree, others, DebugTypeOK, Place
<1>2. CASE NotDetected \/ StopAtFive \/ Plan \/ RunRaises
  BY <1>2, RollbackType DEF NotDetected, StopAtFive, Plan, RunRaises, LoopFree
<1>3. CASE AddedTwice \/ MatchFails
  BY <1>3, RollbackType DEF AddedTwice, MatchFails
<1>4. CASE Detected \/ Report \/ NoAi \/ AskAi \/ HearAi \/ NoMatch
  <2>1. CASE Detected
    BY <2>1 DEF Detected, Goto, others, DebugTypeOK, Place
  <2>2. CASE Report \/ NoAi \/ AskAi \/ HearAi \/ NoMatch
    <3>1. /\ at' \in {"ai", "match", "asking", "relevance"}
          /\ UNCHANGED <<others, config, found, created, work>>
      BY <2>2 DEF Report, NoAi, AskAi, HearAi, NoMatch, Goto
    <3> QED
      BY <3>1 DEF others, DebugTypeOK, Place
  <2> QED
    BY <1>4, <2>1, <2>2
<1>5. CASE UseRow
  BY <1>5 DEF UseRow, AfterRow, Goto, others, DebugTypeOK, Place
<1>6. CASE AddRow
  BY <1>6, StatusAssumption DEF AddRow, AfterRow, Goto, Locks, MayGoOn, DebugTypeOK, Place, Row
<1>7. CASE AskNvd \/ AskEpss
  <2>1. found' \subseteq {"nvd", "epss"}
    BY <1>7 DEF AskNvd, AskEpss, DebugTypeOK
  <2>2. at' \in {"epss", "apply"} /\ UNCHANGED <<others, config, created, work>>
    BY <1>7 DEF AskNvd, AskEpss, Goto
  <2> QED
    BY <2>1, <2>2 DEF others, DebugTypeOK, Place
<1>8. CASE Match
  <2>1. work' \in Row
    BY <1>8 DEF Match, DebugTypeOK, Row
  <2> QED
    BY <1>8, <2>1 DEF Match, Goto, Locks, MayGoOn, DebugTypeOK, Place
<1>9. CASE Relevance
  <2>1. work' \in Row
    BY <1>9, StatusAssumption DEF Relevance, DebugTypeOK, Row
  <2> QED
    BY <1>9, <2>1 DEF Relevance, Goto, others, DebugTypeOK, Place
<1>10. CASE DebugBlocks \/ WorkerStarts \/ WorkerBlocks \/ ThreadLocks
  <2>1. CASE DebugBlocks
    BY <2>1 DEF DebugBlocks, LoopFree, mine, DebugTypeOK
  <2>2. CASE WorkerStarts
    BY <2>2 DEF WorkerStarts, LoopFree, mine, DebugTypeOK
  <2>3. CASE WorkerBlocks
    BY <2>3 DEF WorkerBlocks, LoopFree, mine, DebugTypeOK
  <2>4. CASE ThreadLocks
    BY <2>4 DEF ThreadLocks, mine, DebugTypeOK
  <2> QED
    BY <1>10, <2>1, <2>2, <2>3, <2>4
<1>11. CASE WorkerFlushes
  BY <1>11 DEF WorkerFlushes, Locks, MayGoOn, mine, DebugTypeOK
<1>12. CASE WorkerEnds
  BY <1>12 DEF WorkerEnds, LoopFree, mine, DebugTypeOK
<1>13. CASE ThreadCommits
  <2>1. stored' \in Row
    <3>1. (~stored.linked /\ stored # NoRow) \in BOOLEAN
      BY Zenon
    <3>2. NoRow \in Row /\ [stored EXCEPT !.linked = ~@ /\ stored # NoRow] \in Row
      BY <3>1 DEF DebugTypeOK, Row, NoRow
    <3> QED
      BY <1>13, <3>2 DEF ThreadCommits, DebugTypeOK
  <2> QED
    BY <1>13, <2>1 DEF ThreadCommits, mine, DebugTypeOK
<1>14. CASE TimesOut
  <2>1. CASE waits = "worker"
    BY <1>14, <2>1 DEF TimesOut, mine, DebugTypeOK
  <2>2. CASE waits # "worker"
    BY <1>14, <2>2, RollbackType DEF TimesOut
  <2> QED
    BY <2>1, <2>2
<1>15. CASE UNCHANGED debugVars
  BY <1>15 DEF debugVars, DebugTypeOK
<1> QED
  BY <1>1, <1>2, <1>3, <1>4, <1>5, <1>6, <1>7, <1>8, <1>9, <1>10, <1>11, <1>12, <1>13,
     <1>14, <1>15 DEF DebugNext, DebugStep, WorkerStep

(* The write lock is the Debugger's only while a run goes on, the worker's *)
(* only while it awaits an answer, and nobody waits for itself.            *)
THEOREM DebugTyping == DebugSpec => []DebugTypeOK
  BY DebugTypeInit, DebugTypeStep, PTL DEF DebugSpec

NothingStoredStep ==
  /\ stored' # stored => writer \in {"worker", "thread"}
  /\ (writer = "debug" /\ writer' # "debug") => (stored' = stored /\ work' = NoRow)

LEMMA StoresNothing == DebugTypeOK /\ [DebugNext]_debugVars => NothingStoredStep
<1> SUFFICES ASSUME DebugTypeOK, [DebugNext]_debugVars PROVE NothingStoredStep
  OBVIOUS
<1> USE DEF NothingStoredStep
<1>1. CASE Rollback
  BY <1>1 DEF Rollback
<1>2. CASE UNCHANGED <<stored, writer>>
  BY <1>2
<1>3. CASE AddRow \/ Match
  BY <1>3 DEF AddRow, Match, Locks
<1>4. CASE WorkerFlushes
  BY <1>4 DEF WorkerFlushes, Locks
<1>5. CASE WorkerEnds
  BY <1>5 DEF WorkerEnds, DebugTypeOK
<1>6. CASE ThreadCommits \/ ThreadLocks
  BY <1>6 DEF ThreadCommits, ThreadLocks
<1>7. DebugStep => \/ Rollback \/ AddRow \/ Match \/ UNCHANGED <<stored, writer>>
  BY DEF DebugStep, NotDetected, Detected, UseRow, AddedTwice, AskNvd, AskEpss, Report,
         StopAtFive, NoAi, AskAi, HearAi, NoMatch, MatchFails, Relevance, Plan, DebugBlocks,
         RunRaises, others
<1>8. Scan \/ WorkerBlocks \/ WorkerStarts => UNCHANGED <<stored, writer>>
  BY DEF Scan, WorkerBlocks, WorkerStarts, others
<1>9. TimesOut => Rollback \/ UNCHANGED <<stored, writer>>
  BY DEF TimesOut
<1> QED
  BY <1>1, <1>2, <1>3, <1>4, <1>5, <1>6, <1>7, <1>8, <1>9
     DEF DebugNext, WorkerStep, debugVars

(* A debug run stores nothing, wherever it stops, fails or times out, and  *)
(* whatever the worker and the pages do to the same CVE meanwhile.         *)
THEOREM StoringNothing == DebugSpec => NothingStored
<1>1. DebugTypeOK /\ [DebugNext]_debugVars => [NothingStoredStep]_debugVars
  BY StoresNothing
<1> QED
  BY <1>1, DebugTyping, PTL DEF DebugSpec, NothingStored, NothingStoredStep

(* What LoopGoesOn rests on.  A run passes its steps in one direction, so  *)
(* it can block the loop once at "row" and once at "match" only.           *)
Depth == [idle |-> 0, id |-> 1, row |-> 2, nvd |-> 3, epss |-> 4, apply |-> 5, ai |-> 6,
          asking |-> 7, match |-> 8, relevance |-> 9, plan |-> 10]

OneDirection == at # "idle" => at' \in {at, "idle"} \/ Depth[at'] > Depth[at]

(* The one that waits ends with an error; the lock stays where it is.      *)
GivesUp(who) == /\ waits' = "nobody"
                /\ UNCHANGED <<stored, writer>>
                /\ IF who = "worker" THEN worker' = "idle" /\ UNCHANGED mine
                                     ELSE at' = "idle" /\ worker' = worker

(* While the loop is blocked neither coroutine moves but by the lock or by *)
(* its own end; and if each holds what the other needs, nothing at all     *)
(* happens until SQLite's clock runs out.                                  *)
HeldUp ==
  waits # "nobody" =>
    /\ \/ UNCHANGED <<waits, worker, mine>>
       \/ /\ waits' = "nobody"
          /\ \/ writer' = waits
             \/ waits = "worker" /\ worker' = "idle"
             \/ waits = "debug" /\ at' = "idle"
    /\ writer \in {"debug", "worker"} => UNCHANGED debugVars \/ GivesUp(waits)

LEMMA RunGoesOn == DebugTypeOK /\ [DebugNext]_debugVars => OneDirection
<1> SUFFICES ASSUME DebugTypeOK, [DebugNext]_debugVars PROVE OneDirection
  OBVIOUS
<1>1. CASE at' \in {at, "idle"} \/ at = "idle"
  BY <1>1 DEF OneDirection
<1>2. CASE AddRow \/ UseRow
  <2>1. at = "row" /\ at' \in {"nvd", "match"}
    BY <1>2 DEF AddRow, UseRow, AfterRow, Goto
  <2> QED
    BY <2>1 DEF OneDirection, Depth
<1>3. CASE Detected \/ AskNvd \/ AskEpss \/ Report
  <2>1. <<at, at'>> \in {<<"id", "row">>, <<"nvd", "epss">>, <<"epss", "apply">>, <<"apply", "ai">>}
    BY <1>3 DEF Detected, AskNvd, AskEpss, Report, Goto
  <2> QED
    BY <2>1 DEF OneDirection, Depth
<1>4. CASE NoAi \/ AskAi \/ HearAi \/ NoMatch \/ Match \/ Relevance
  <2>1. <<at, at'>> \in {<<"ai", "match">>, <<"ai", "asking">>, <<"asking", "match">>,
                         <<"match", "relevance">>, <<"relevance", "plan">>}
    BY <1>4 DEF NoAi, AskAi, HearAi, NoMatch, Match, Relevance, Goto
  <2> QED
    BY <2>1 DEF OneDirection, Depth
<1>5. NotDetected \/ AddedTwice \/ StopAtFive \/ MatchFails \/ Plan \/ RunRaises \/ TimesOut
        => at' \in {at, "idle"}
  BY DEF NotDetected, AddedTwice, StopAtFive, MatchFails, Plan, RunRaises, TimesOut, Rollback,
         mine
<1>6. DebugBlocks \/ WorkerStarts \/ WorkerFlushes \/ WorkerBlocks \/ WorkerEnds \/ ThreadLocks
      \/ ThreadCommits
        => at' \in {at, "idle"}
  BY DEF DebugBlocks, WorkerStarts, WorkerFlushes, WorkerBlocks, WorkerEnds, ThreadLocks,
         ThreadCommits, mine
<1>7. Scan => at = "idle"
  BY DEF Scan
<1>8. CASE UNCHANGED debugVars
  BY <1>1, <1>8 DEF debugVars
<1>9. CASE DebugNext
  <2>1. CASE DebugStep
    BY <1>1, <1>2, <1>3, <1>4, <1>5, <1>6, <2>1 DEF DebugStep
  <2>2. CASE WorkerStep
    BY <1>1, <1>6, <2>2 DEF WorkerStep
  <2> QED
    BY <1>1, <1>5, <1>6, <1>7, <1>9, <2>1, <2>2 DEF DebugNext
<1> QED
  BY <1>8, <1>9

LEMMA WaitsAreHeldUp == DebugTypeOK /\ [DebugNext]_debugVars => HeldUp
<1> SUFFICES ASSUME DebugTypeOK, [DebugNext]_debugVars, waits # "nobody" PROVE HeldUp
  BY DEF HeldUp
<1>1. writer # waits /\ waits \in {"debug", "worker"}
  BY DEF DebugTypeOK
<1>2. CASE AddRow \/ Match
  <2>1. waits = "debug" /\ waits' = "nobody" /\ writer = "free" /\ writer' = "debug"
    BY <1>1, <1>2 DEF AddRow, Match, Locks, MayGoOn
  <2> QED
    BY <2>1 DEF HeldUp
<1>3. CASE AddedTwice \/ MatchFails
  <2>1. waits = "debug" /\ waits' = "nobody" /\ writer = "free" /\ at' = "idle"
    BY <1>1, <1>3 DEF AddedTwice, MatchFails, MayGoOn, Rollback
  <2> QED
    BY <2>1 DEF HeldUp
<1>4. CASE WorkerFlushes
  <2>1. waits = "worker" /\ waits' = "nobody" /\ writer = "free" /\ writer' = "worker"
    BY <1>1, <1>4 DEF WorkerFlushes, Locks, MayGoOn
  <2> QED
    BY <2>1 DEF HeldUp
<1>5. CASE ThreadLocks \/ ThreadCommits
  BY <1>5 DEF ThreadLocks, ThreadCommits, HeldUp
<1>6. CASE TimesOut
  <2>1. CASE waits = "worker"
    BY <1>6, <2>1 DEF TimesOut, HeldUp, GivesUp
  <2>2. CASE waits # "worker"
    BY <1>1, <1>6, <2>2 DEF TimesOut, Rollback, HeldUp, GivesUp
  <2> QED
    BY <2>1, <2>2
<1>7. CASE UNCHANGED debugVars
  BY <1>7 DEF debugVars, mine, HeldUp
<1>8. ~(\/ Scan \/ NotDetected \/ Detected \/ UseRow \/ AskNvd \/ AskEpss \/ Report
        \/ StopAtFive \/ NoAi \/ AskAi \/ HearAi \/ NoMatch \/ Relevance \/ Plan
        \/ DebugBlocks \/ RunRaises \/ WorkerStarts \/ WorkerBlocks \/ WorkerEnds)
  BY DEF Scan, NotDetected, Detected, UseRow, AskNvd, AskEpss, Report, StopAtFive, NoAi, AskAi,
         HearAi, NoMatch, Relevance, Plan, DebugBlocks, RunRaises, WorkerStarts, WorkerBlocks,
         WorkerEnds, LoopFree
<1> QED
  BY <1>2, <1>3, <1>4, <1>5, <1>6, <1>7, <1>8 DEF DebugNext, DebugStep, WorkerStep

(* The safety core of LoopGoesOn: a run never comes back to a step it has  *)
(* passed; while a flush blocks the loop, the run and the worker stay      *)
(* where they are until it gets the lock or raises; and when the two hold  *)
(* each other up, the one that waits gives up before anything else can     *)
(* happen: what busy_timeout is there for.                                 *)
THEOREM HoldUpsEnd == DebugSpec => [][OneDirection /\ HeldUp]_debugVars
<1>1. DebugTypeOK /\ [DebugNext]_debugVars => [OneDirection /\ HeldUp]_debugVars
  BY RunGoesOn, WaitsAreHeldUp
<1> QED
  BY <1>1, DebugTyping, PTL DEF DebugSpec

(***************************************************************************)
(* The catalogue.  What a request makes of what it has loaded is again a   *)
(* list of feeds with a switch for each, whatever came in between.         *)
(***************************************************************************)
LEMMA AnyOnType == ASSUME NEW s PROVE AnyOn(s) \in BOOLEAN
  BY Zenon DEF AnyOn

Switches == [AtomFeed -> {"none", "off", "on"}]

LEMMA MirrorType ==
  ASSUME NEW F, NEW s \in Switches PROVE Mirror(F, s) \in Switches
<1> SUFFICES ASSUME NEW u \in AtomFeed
             PROVE  (CASE u \notin F -> "none"
                       [] u \in F /\ s[u] = "none" -> "off"
                       [] OTHER -> s[u]) \in {"none", "off", "on"}
  BY DEF Mirror, Switches
<1> QED
  BY DEF Switches

LEMMA AlignedType == ASSUME NEW v \in View PROVE Aligned(v) \in Switches
  BY DEF View, Aligned, Switches

LEMMA SaveType ==
  ASSUME NEW v \in View, NEW F \in SUBSET Url PROVE SaveFeeds(v, F) \in View
  BY MirrorType, AnyOnType DEF SaveFeeds, View, Switches

LEMMA ListType == ASSUME NEW v \in View PROVE List(v) \in View
<1>1. Aligned(v) \in Switches
  BY AlignedType
<1> QED
  BY <1>1, MirrorType, AnyOnType DEF List, View, Switches

LEMMA RestoreType == ASSUME NEW v \in View PROVE Restore(v) \in View
<1>1. v.feeds \cup Default \in SUBSET Url
  BY CatalogAssumption DEF View
<1> QED
  BY <1>1, ListType, SaveType DEF Restore

LEMMA ToggleType ==
  ASSUME NEW v \in View
  PROVE  ToggleAll(v) \in View /\ \A u \in AtomFeed : ToggleRow(v, u) \in View
<1>1. ASSUME NEW s \in Switches PROVE [v EXCEPT !.switch = s, !.channel = AnyOn(s)] \in View
  BY <1>1, AnyOnType DEF View, Switches
<1>2. [u \in AtomFeed |-> IF v.switch[u] = "none" THEN "none"
                        ELSE IF v.channel THEN "off" ELSE "on"] \in Switches
  BY DEF Switches
<1>3. ASSUME NEW u \in AtomFeed PROVE [v.switch EXCEPT ![u] = Flip(@)] \in Switches
  BY DEF Flip, View, Switches
<1> QED
  BY <1>1, <1>2, <1>3 DEF ToggleAll, ToggleRow

LEMMA CommitType ==
  ASSUME CatalogTypeOK, NEW v \in View, NEW w \in View, Commit(v, w)
  PROVE  feeds' \subseteq Url /\ switch' \in Switches /\ channel' \in BOOLEAN
<1>1. feeds' \subseteq Url
  BY DEF CatalogTypeOK, Commit, View
<1>2. switch' \in Switches
  BY DEF CatalogTypeOK, Commit, View, Switches
<1>3. channel' \in {channel, w.channel}
  BY DEF Commit
<1>4. channel' \in BOOLEAN
  BY <1>3 DEF CatalogTypeOK, View
<1> QED
  BY <1>1, <1>2, <1>4

LEMMA ViewType == CatalogTypeOK => Now \in View /\ loaded \in View /\ NoView \in View
  BY DEF CatalogTypeOK, Now, NoView, View

LEMMA RequestType ==
  ASSUME CatalogTypeOK, NEW v \in View, NEW w \in View, Request(v, w)
  PROVE  CatalogTypeOK'
<1>1. feeds' \subseteq Url /\ switch' \in Switches /\ channel' \in BOOLEAN
  BY CommitType DEF Request
<1>2. edits' \in 0..MaxEdits
  BY CatalogAssumption DEF Request, CatalogTypeOK
<1>3. loaded' \in View
  BY ViewType DEF Request
<1> QED
  BY <1>1, <1>2, <1>3 DEF Request, pullVars, CatalogTypeOK, Switches

(* Only the operator's requests, made of a view v, change the list.        *)
LEMMA EditType ==
  ASSUME CatalogTypeOK, NEW v \in View, Edit(v) PROVE CatalogTypeOK' /\ edits' = edits + 1
<1>1. CASE PutWebApi(v)
  BY <1>1, SaveType, RequestType DEF PutWebApi, Request
<1>2. CASE RestoreFeeds(v)
  BY <1>2, RestoreType, RequestType DEF RestoreFeeds, Request
<1>3. CASE ToggleRepository(v)
  BY <1>3, ToggleType, RequestType DEF ToggleRepository, Request
<1>4. CASE ToggleSource(v)
  BY <1>4, ToggleType, RequestType DEF ToggleSource, Request
<1>5. CASE PatchSource(v)
  <2>1. \A on \in BOOLEAN : Patch(v, on) \in View
    BY DEF Patch, View
  <2> QED
    BY <1>5, <2>1, RequestType DEF PatchSource, Request
<1> QED
  BY <1>1, <1>2, <1>3, <1>4, <1>5 DEF Edit

LEMMA CatalogTypeInit == CatalogInit => CatalogTypeOK
<1>1. NoView \in View
  BY DEF NoView, View
<1>2. NoPulls \in [Puller -> SUBSET AtomFeed]
  BY DEF NoPulls
<1>3. 0 \in 0..MaxEdits
  BY CatalogAssumption
<1>4. [u \in AtomFeed |-> "none"] \in [AtomFeed -> {"none", "off", "on"}]
  OBVIOUS
<1> QED
  BY <1>1, <1>2, <1>3, <1>4, Zenon DEF CatalogInit, CatalogTypeOK

LEMMA PullType ==
  ASSUME CatalogTypeOK, NEW p \in Puller, PullStep(p)
  PROVE  CatalogTypeOK' /\ UNCHANGED <<catalog, seeded, boot, edits>>
<1>1. CASE PullEnd(p)
  BY <1>1 DEF PullEnd, Gone, catalog, CatalogTypeOK
<1>2. ASSUME NEW u \in AtomFeed, PullSkips(p, u)
      PROVE  CatalogTypeOK' /\ UNCHANGED <<catalog, seeded, boot, edits>>
  BY <1>2 DEF PullSkips, catalog, CatalogTypeOK
<1>3. ASSUME NEW u \in AtomFeed, NEW stores \in BOOLEAN, PullFeed(p, u, stores)
      PROVE  CatalogTypeOK' /\ UNCHANGED <<catalog, seeded, boot, edits>>
  BY <1>3 DEF PullFeed, catalog, CatalogTypeOK
<1> QED
  BY <1>1, <1>2, <1>3 DEF PullStep

LEMMA CatalogTypeStep == CatalogTypeOK /\ [CatalogNext]_catalogVars => CatalogTypeOK'
<1> SUFFICES ASSUME CatalogTypeOK, [CatalogNext]_catalogVars PROVE CatalogTypeOK'
  OBVIOUS
<1>1. CASE WriteEnv
  BY <1>1 DEF WriteEnv, catalog, pullVars, CatalogTypeOK
<1>2. CASE CommitSeed
  <2>1. feeds \cup Default \in SUBSET Url
    BY CatalogAssumption DEF CatalogTypeOK
  <2>2. feeds' \subseteq Url /\ switch' \in Switches /\ channel' \in BOOLEAN
    BY <1>2, <2>1, ViewType, SaveType, CommitType DEF CommitSeed
  <2> QED
    BY <1>2, <2>2 DEF CommitSeed, pullVars, CatalogTypeOK, Switches
<1>3. CASE Restart
  <2>1. edits' \in 0..MaxEdits
    BY <1>3, CatalogAssumption DEF Restart, CatalogTypeOK
  <2> QED
    BY <1>3, <2>1, ViewType DEF Restart, catalog, NoPulls, CatalogTypeOK
<1>4. CASE Load
  BY <1>4, ViewType DEF Load, catalog, pullVars, CatalogTypeOK
<1>5. CASE ListNow
  <2>1. feeds' \subseteq Url /\ switch' \in Switches /\ channel' \in BOOLEAN
    BY <1>5, ViewType, ListType, CommitType DEF ListNow
  <2> QED
    BY <1>5, <2>1 DEF ListNow, pullVars, CatalogTypeOK, Switches
<1>6. CASE ListLate
  BY <1>6, ViewType, ListType, RequestType DEF ListLate
<1>7. CASE Edit(Now) \/ Edit(loaded)
  BY <1>7, ViewType, EditType
<1>8. CASE PollBegin
  BY <1>8 DEF PollBegin, Puller, catalog, CatalogTypeOK
<1>9. ASSUME NEW p \in Puller, PullStep(p) PROVE CatalogTypeOK'
  BY <1>9, PullType
<1>10. CASE IntervalPasses
  BY <1>10 DEF IntervalPasses, catalog, pullVars, CatalogTypeOK
<1>11. ASSUME NEW u \in AtomFeed, SyncBegin(u) PROVE CatalogTypeOK'
  BY <1>11 DEF SyncBegin, Puller, catalog, CatalogTypeOK
<1>12. CASE UNCHANGED catalogVars
  BY <1>12 DEF catalogVars, catalog, pullVars, CatalogTypeOK
<1> QED
  BY <1>1, <1>2, <1>3, <1>4, <1>5, <1>6, <1>7, <1>8, <1>9, <1>10, <1>11, <1>12
     DEF CatalogNext, Poll, Puller

(* Every row has a switch, and a view loaded long ago is still one.        *)
THEOREM CatalogTyping == CatalogSpec => []CatalogTypeOK
  BY CatalogTypeInit, CatalogTypeStep, PTL DEF CatalogSpec

(* Why the seed cannot come twice: the list is empty until the first one   *)
(* is committed, also when the process dies between .env and the commit.   *)
SeedInv ==
  /\ boot # "seeding" => seeded
  /\ boot = "writing" \/ ~seeded => feeds = {}

OperatorsList == (feeds # {} /\ (edits' = edits \/ ListLate)) => feeds' \subseteq feeds

LEMMA SeedStep ==
  CatalogTypeOK /\ SeedInv /\ [CatalogNext]_catalogVars => SeedInv' /\ OperatorsList
<1> SUFFICES ASSUME CatalogTypeOK, SeedInv, [CatalogNext]_catalogVars
             PROVE  SeedInv' /\ OperatorsList
  OBVIOUS
<1>1. CASE WriteEnv
  BY <1>1 DEF WriteEnv, catalog, SeedInv, OperatorsList
<1>2. CASE CommitSeed
  BY <1>2 DEF CommitSeed, SeedInv, OperatorsList
<1>3. CASE Restart
  BY <1>3 DEF Restart, catalog, SeedInv, OperatorsList
<1>4. CASE UNCHANGED <<feeds, seeded, boot>>
  BY <1>4 DEF SeedInv, OperatorsList
<1>5. Load \/ IntervalPasses \/ PollBegin \/ (\E u \in AtomFeed : SyncBegin(u))
        => UNCHANGED <<feeds, seeded, boot>>
  BY DEF Load, IntervalPasses, PollBegin, SyncBegin, catalog
<1>6. ListNow \/ ListLate => UNCHANGED <<feeds, seeded, boot>>
  BY DEF ListNow, ListLate, Request, Commit, List, Now
<1>7. (\E p \in Puller : PullStep(p)) => UNCHANGED <<feeds, seeded, boot>>
  BY PullType DEF catalog
<1>8. ASSUME NEW v \in View, Edit(v) PROVE SeedInv' /\ OperatorsList
  <2>1. boot = "up" /\ UNCHANGED <<seeded, boot>>
    BY <1>8 DEF Edit, PutWebApi, RestoreFeeds, ToggleRepository, ToggleSource, PatchSource, Request
  <2>2. edits' # edits
    BY <1>8, EditType DEF CatalogTypeOK
  <2>3. ListLate => UNCHANGED feeds
    BY <1>6
  <2> QED
    BY <2>1, <2>2, <2>3 DEF SeedInv, OperatorsList
<1>9. CASE UNCHANGED catalogVars
  BY <1>4, <1>9 DEF catalogVars, catalog
<1> QED
  BY <1>1, <1>2, <1>3, <1>4, <1>5, <1>6, <1>7, <1>8, <1>9, ViewType
     DEF CatalogNext, Poll, Puller

(* A feed that was deleted does not come back by a restart or by a page    *)
(* that is looked at, for any feeds, defaults and number of requests.      *)
THEOREM Resurrection == CatalogSpec => NotResurrected
<1>1. CatalogInit => SeedInv
  BY DEF CatalogInit, SeedInv
<1>2. CatalogTypeOK /\ SeedInv /\ [CatalogNext]_catalogVars => SeedInv' /\ [OperatorsList]_catalogVars
  BY SeedStep
<1> QED
  BY <1>1, <1>2, CatalogTyping, PTL DEF CatalogSpec, NotResurrected, OperatorsList

(***************************************************************************)
(* What CatalogSettles rests on.  One GET makes the rows mirror the feeds; *)
(* where they do already it also makes the channel sum up the switches     *)
(* (the first may sum up rows it has deleted); and what is in step stays   *)
(* so, and is left alone by further GETs, until the operator's next        *)
(* request.                                                                *)
(***************************************************************************)
Mirrored == \A u \in AtomFeed : switch[u] # "none" <=> u \in feeds

Settling ==
  /\ ListNow => Mirrored' /\ (Mirrored => InStep')
  /\ InStep /\ edits' = edits => InStep' /\ (ListNow => UNCHANGED catalog)

LEMMA CommitNow ==
  ASSUME CatalogTypeOK, NEW w \in View, Commit(Now, w)
  PROVE  feeds' = w.feeds /\ switch' = w.switch /\ channel' = w.channel
  BY DEF Commit, Now, View, CatalogTypeOK

LEMMA ListSettles ==
  ASSUME CatalogTypeOK, ListNow, List(Now) \in View
  PROVE  Mirrored' /\ (Mirrored => InStep') /\ (InStep => InStep' /\ UNCHANGED catalog)
<1> DEFINE A == Aligned(Now)
<1>1. /\ feeds' = feeds /\ switch' = Mirror(feeds, A) /\ channel' = AnyOn(A)
  BY CommitNow DEF ListNow, List, Now
<1>2. A \in [AtomFeed -> {"none", "off", "on"}] /\ \A u \in AtomFeed : A[u] = "none" <=> switch[u] = "none"
  BY DEF Aligned, Now, CatalogTypeOK
<1>3. \A u \in AtomFeed : switch'[u] # "none" <=> u \in feeds'
  BY <1>1, <1>2 DEF Mirror
<1>4. ASSUME Mirrored PROVE switch' = A
  BY <1>1, <1>2, <1>4 DEF Mirrored, Mirror
<1>5. ASSUME InStep PROVE A = switch /\ AnyOn(A) = channel
  BY <1>5 DEF InStep, AnyOn, Aligned, Now, CatalogTypeOK
<1>6. InStep => Mirrored
  BY DEF InStep, Mirrored
<1>7. ASSUME Mirrored PROVE InStep'
  <2>1. channel' = AnyOn(switch')
    BY <1>1, <1>4, <1>7
  <2> QED
    BY <1>3, <2>1 DEF InStep, AnyOn
<1> QED
  BY <1>1, <1>3, <1>4, <1>5, <1>6, <1>7 DEF Mirrored, catalog

LEMMA SeedKeepsStep ==
  ASSUME CatalogTypeOK, InStep, CommitSeed PROVE InStep'
<1>1. feeds \cup Default \in SUBSET Url
  BY CatalogAssumption DEF CatalogTypeOK
<1>2. /\ feeds' = feeds \cup Default
      /\ switch' = Mirror(feeds \cup Default, switch)
      /\ channel' = AnyOn(switch)
  BY <1>1, ViewType, SaveType, CommitNow DEF CommitSeed, SaveFeeds, Now
<1>3. \A u \in AtomFeed : /\ switch'[u] # "none" <=> u \in feeds'
                          /\ switch'[u] = "on" <=> switch[u] = "on"
  BY <1>2 DEF Mirror, InStep, CatalogTypeOK
<1>4. channel' = (\E u \in AtomFeed : switch'[u] = "on")
  BY <1>2, <1>3 DEF AnyOn
<1> QED
  BY <1>3, <1>4 DEF InStep, AnyOn

LEMMA SettlingStep == CatalogTypeOK /\ [CatalogNext]_catalogVars => Settling
<1> SUFFICES ASSUME CatalogTypeOK, [CatalogNext]_catalogVars PROVE Settling
  OBVIOUS
<1>1. CASE ListNow
  BY <1>1, ListSettles, ListType, ViewType DEF Settling
<1>2. CASE ~ListNow /\ UNCHANGED catalog
  BY <1>2 DEF Settling, catalog, InStep, AnyOn
<1>3. CASE ~ListNow /\ edits' # edits
  BY <1>3 DEF Settling
<1>4. CASE ~ListNow /\ CommitSeed
  BY <1>4, SeedKeepsStep DEF Settling
<1>5. WriteEnv \/ Load \/ PollBegin \/ IntervalPasses \/ UNCHANGED catalogVars
        \/ (\E u \in AtomFeed : SyncBegin(u)) \/ (\E p \in Puller : PullStep(p))
      => UNCHANGED catalog
  BY PullType DEF WriteEnv, Load, PollBegin, IntervalPasses, SyncBegin, catalogVars
<1>6. Restart \/ ListLate => edits' # edits
  BY DEF Restart, ListLate, Request, CatalogTypeOK
<1>7. Edit(Now) \/ Edit(loaded) => edits' # edits
  BY EditType, ViewType DEF CatalogTypeOK
<1> QED
  BY <1>1, <1>2, <1>3, <1>4, <1>5, <1>6, <1>7 DEF CatalogNext, Poll, Puller

(* Two GETs after the operator's last request the catalogue is in step,    *)
(* whatever overlapped before, and it stays so.                            *)
THEOREM GetsSettle == CatalogSpec => [][Settling]_catalogVars
<1>1. CatalogTypeOK /\ [CatalogNext]_catalogVars => Settling
  BY SettlingStep
<1> QED
  BY <1>1, CatalogTyping, PTL DEF CatalogSpec

(* What EnabledIsPulled rests on.  A poll starts with every feed that is   *)
(* listed; a feed waits for its turn until it is marked or found paused; a *)
(* mark is kept until it is stored.  What breaks a pull off is a restart   *)
(* or a row that was deleted under it, nothing else.                       *)
EachInTurn ==
  /\ "poll" \in pulling' \ pulling => feeds \cap AtomFeed \subseteq todo'["poll"]
  /\ \A p \in Puller, u \in AtomFeed : edits' = edits /\ Gone(p) = {} =>
       /\ u \in todo[p] => u \in todo'[p] \cup dirty'[p] \/ Paused(p, u)
       /\ u \in dirty[p] => u \in dirty'[p] \cup synced'
  /\ \A u \in synced : u \in synced' \/ synced' = {}

PullInv == \A p \in Puller : p \notin pulling => todo[p] = {} /\ dirty[p] = {}

(* Steps that are not a pull's leave the pulls alone, but a restart.       *)
LEMMA PullsAlone ==
  ASSUME WriteEnv \/ CommitSeed \/ Load \/ ListNow \/ ListLate \/ Edit(Now) \/ Edit(loaded)
         \/ UNCHANGED catalogVars
  PROVE  UNCHANGED <<pullVars, synced>>
<1>1. ASSUME NEW v, Edit(v) PROVE UNCHANGED <<pullVars, synced>>
  BY <1>1 DEF Edit, PutWebApi, RestoreFeeds, ToggleRepository, ToggleSource, PatchSource, Request
<1> QED
  BY <1>1 DEF WriteEnv, CommitSeed, Load, ListNow, ListLate, Request, catalogVars

LEMMA PullInvStep == CatalogTypeOK /\ PullInv /\ [CatalogNext]_catalogVars => PullInv'
<1> SUFFICES ASSUME CatalogTypeOK, PullInv, [CatalogNext]_catalogVars PROVE PullInv'
  OBVIOUS
<1> USE DEF CatalogTypeOK, PullInv
<1>1. CASE UNCHANGED pullVars
  BY <1>1 DEF pullVars
<1>2. CASE Restart
  BY <1>2 DEF Restart, NoPulls
<1>3. CASE PollBegin
  BY <1>3 DEF PollBegin, Puller
<1>4. ASSUME NEW u \in AtomFeed, SyncBegin(u) PROVE PullInv'
  BY <1>4 DEF SyncBegin, Puller
<1>5. ASSUME NEW p \in Puller, PullStep(p) PROVE PullInv'
  <2>1. CASE PullEnd(p)
    BY <2>1 DEF PullEnd
  <2>2. ASSUME NEW u \in AtomFeed, PullSkips(p, u) PROVE PullInv'
    BY <2>2 DEF PullSkips
  <2>3. ASSUME NEW u \in AtomFeed, NEW stores \in BOOLEAN, PullFeed(p, u, stores) PROVE PullInv'
    BY <2>3 DEF PullFeed
  <2> QED
    BY <1>5, <2>1, <2>2, <2>3 DEF PullStep
<1>6. IntervalPasses => UNCHANGED pullVars
  BY DEF IntervalPasses
<1>7. "poll" \in Puller /\ "sync" \in Puller
  BY DEF Puller
<1> QED
  BY <1>1, <1>2, <1>3, <1>4, <1>5, <1>6, <1>7, PullsAlone DEF CatalogNext, Poll

LEMMA TurnsKept == CatalogTypeOK /\ PullInv /\ [CatalogNext]_catalogVars => EachInTurn
<1> SUFFICES ASSUME CatalogTypeOK, PullInv, [CatalogNext]_catalogVars PROVE EachInTurn
  OBVIOUS
<1> USE DEF CatalogTypeOK, EachInTurn
<1>1. CASE UNCHANGED <<pullVars, synced>>
  BY <1>1 DEF pullVars
<1>2. CASE Restart
  <2>1. edits' # edits /\ pulling' = {} /\ synced' = synced
    BY <1>2 DEF Restart
  <2> QED
    BY <2>1
<1>3. CASE PollBegin
  BY <1>3 DEF PollBegin, PullInv, Puller
<1>4. ASSUME NEW u \in AtomFeed, SyncBegin(u) PROVE EachInTurn
  BY <1>4 DEF SyncBegin, PullInv, Puller
<1>5. ASSUME NEW p \in Puller, PullStep(p) PROVE EachInTurn
  <2>1. CASE PullEnd(p)
    <3>1. /\ pulling' \subseteq pulling
          /\ \A q \in Puller \ {p} : todo'[q] = todo[q] /\ dirty'[q] = dirty[q]
          /\ Gone(p) = {} => todo[p] = {} /\ synced' = synced \cup dirty[p]
          /\ synced \subseteq synced'
      BY <2>1 DEF PullEnd
    <3> QED
      BY <3>1
  <2>2. ASSUME NEW u \in AtomFeed, PullSkips(p, u) PROVE EachInTurn
    BY <2>2 DEF PullSkips
  <2>3. ASSUME NEW u \in AtomFeed, NEW stores \in BOOLEAN, PullFeed(p, u, stores)
        PROVE  EachInTurn
    <3>1. /\ pulling' = pulling /\ synced \subseteq synced'
          /\ \A q \in Puller \ {p} : todo'[q] = todo[q] /\ dirty'[q] = dirty[q]
          /\ todo'[p] = todo[p] \ {u} /\ u \in dirty'[p]
          /\ dirty[p] \subseteq dirty'[p] \cup synced'
      BY <2>3 DEF PullFeed
    <3> QED
      BY <3>1
  <2> QED
    BY <1>5, <2>1, <2>2, <2>3 DEF PullStep
<1>6. CASE IntervalPasses
  BY <1>6 DEF IntervalPasses, pullVars
<1>7. "poll" \in Puller /\ "sync" \in Puller
  BY DEF Puller
<1> QED
  BY <1>1, <1>2, <1>3, <1>4, <1>5, <1>6, <1>7, PullsAlone DEF CatalogNext, Poll

(* The safety core of EnabledIsPulled: a poll passes over no feed that is  *)
(* listed and enabled, and forgets none it has pulled, whatever other      *)
(* feeds do, unless a row is deleted under it or the process dies.         *)
THEOREM NoFeedPassedOver == CatalogSpec => [][EachInTurn]_catalogVars
<1>1. CatalogInit => PullInv
  BY DEF CatalogInit, PullInv, NoPulls
<1>2. CatalogTypeOK /\ PullInv /\ [CatalogNext]_catalogVars => PullInv' /\ [EachInTurn]_catalogVars
  BY PullInvStep, TurnsKept
<1> QED
  BY <1>1, <1>2, CatalogTyping, PTL DEF CatalogSpec

(***************************************************************************)
(* Enrichment.  The back-off: powers of two up to 2^5, by cases, as the    *)
(* provers know nothing of ^ beyond its values.                            *)
(***************************************************************************)
LEMMA PowerOfTwo ==
  ASSUME NEW k \in 0..5
  PROVE  /\ k = 0 => 2 ^ k = 1
         /\ k = 1 => 2 ^ k = 2
         /\ k = 2 => 2 ^ k = 4
         /\ k = 3 => 2 ^ k = 8
         /\ k = 4 => 2 ^ k = 16
         /\ k = 5 => 2 ^ k = 32
<1>1. 2^0 = 1 /\ 2^1 = 2 /\ 2^2 = 4 /\ 2^3 = 8 /\ 2^4 = 16 /\ 2^5 = 32
  OBVIOUS
<1> QED
  BY <1>1, Zenon

LEMMA PowersGrow ==
  ASSUME NEW k \in 0..5, NEW l \in 0..5, k <= l
  PROVE  2 ^ k \in Nat /\ 2 ^ l \in Nat /\ 2 ^ k <= 2 ^ l
<1> DEFINE p == 2 ^ k
           q == 2 ^ l
<1>1. /\ k = 0 => p = 1
      /\ k = 1 => p = 2
      /\ k = 2 => p = 4
      /\ k = 3 => p = 8
      /\ k = 4 => p = 16
      /\ k = 5 => p = 32
  BY PowerOfTwo
<1>2. /\ l = 0 => q = 1
      /\ l = 1 => q = 2
      /\ l = 2 => q = 4
      /\ l = 3 => q = 8
      /\ l = 4 => q = 16
      /\ l = 5 => q = 32
  BY PowerOfTwo
<1> HIDE DEF p, q
<1>3. p \in Nat /\ q \in Nat /\ p <= q
  BY <1>1, <1>2
<1> QED
  BY <1>3 DEF p, q

LEMMA BackOff ==
  ASSUME NEW n \in Nat, NEW base \in Nat
  PROVE  NextDelay(n, base) \in Nat /\ 30 <= NextDelay(n, base) /\ NextDelay(n, base) <= 1800
<1> DEFINE k == IF n > 5 THEN 5 ELSE n
           b == IF base < 30 THEN 30 ELSE base
<1>1. k \in 0..5 /\ 0 \in 0..5 /\ 0 <= k
  OBVIOUS
<1>2. 2 ^ k \in Nat /\ 2 ^ 0 <= 2 ^ k
  <2> HIDE DEF k
  <2> QED
    BY <1>1, PowersGrow
<1>3. b \in Nat /\ b >= 30
  OBVIOUS
<1> HIDE DEF k, b
<1>4. 2 ^ 0 = 1
  OBVIOUS
<1>5. b * 2 ^ k \in Nat /\ b * 2 ^ k >= 30
  BY <1>2, <1>3, <1>4
<1>6. NextDelay(n, base) = IF b * 2 ^ k > 1800 THEN 1800 ELSE b * 2 ^ k
  BY DEF NextDelay, k, b
<1> QED
  BY <1>5, <1>6

LEMMA DivMonotone ==
  ASSUME NEW x \in Nat, NEW y \in Nat, x <= y, NEW u \in Nat \ {0}
  PROVE  x \div u <= y \div u /\ x \div u \in Nat
  OBVIOUS

(* The model counts attempts only as far as MaxAttempts: no later attempt  *)
(* has another back-off (_next_retry_at doubles at most five times).       *)
THEOREM BackOffSettles ==
  \A n \in Nat : n >= MaxAttempts => NextDelay(n, Base) = NextDelay(MaxAttempts, Base)
<1> SUFFICES ASSUME NEW n \in Nat, n >= MaxAttempts
             PROVE  NextDelay(n, Base) = NextDelay(MaxAttempts, Base)
  OBVIOUS
<1> DEFINE k == IF n > 5 THEN 5 ELSE n
           m == IF MaxAttempts > 5 THEN 5 ELSE MaxAttempts
           b == IF Base < 30 THEN 30 ELSE Base
<1>1. k \in 0..5 /\ m \in 0..5 /\ m <= k /\ (m = MaxAttempts \/ m = k)
  BY EnrichmentAssumption
<1>2. b \in Nat /\ b >= Base /\ Base \in Nat
  BY EnrichmentAssumption
<1>3. m = k \/ Base * 2 ^ m >= 1800
  BY EnrichmentAssumption
<1>4. NextDelay(n, Base) = IF b * 2 ^ k > 1800 THEN 1800 ELSE b * 2 ^ k
  BY DEF NextDelay
<1>5. NextDelay(MaxAttempts, Base) = IF b * 2 ^ m > 1800 THEN 1800 ELSE b * 2 ^ m
  BY DEF NextDelay
<1> HIDE DEF k, m, b
<1>6. 2 ^ m <= 2 ^ k /\ 2 ^ m \in Nat /\ 2 ^ k \in Nat
  BY <1>1, PowersGrow
<1>7. CASE m = k
  BY <1>4, <1>5, <1>7
<1>8. CASE Base * 2 ^ m >= 1800
  <2>1. b * 2 ^ m >= Base * 2 ^ m
    BY <1>2, <1>6
  <2>2. b * 2 ^ k >= b * 2 ^ m
    BY <1>2, <1>6
  <2>3. b * 2 ^ k \in Nat /\ b * 2 ^ m \in Nat /\ Base * 2 ^ m \in Nat
    BY <1>2, <1>6
  <2> QED
    BY <1>4, <1>5, <1>8, <2>1, <2>2, <2>3
<1> QED
  BY <1>3, <1>7, <1>8

LEMMA DelayType ==
  ASSUME NEW n \in Nat
  PROVE  NextDelay(n, Base) \div Unit \in Nat /\ NextDelay(n, Base) \div Unit <= 1800 \div Unit
<1>1. Base \in Nat /\ Unit \in Nat \ {0}
  BY EnrichmentAssumption
<1>2. NextDelay(n, Base) \in Nat /\ NextDelay(n, Base) <= 1800
  BY <1>1, BackOff
<1> QED
  BY <1>1, <1>2, DivMonotone

(* The order of the rows: a row that is written becomes the last, a row    *)
(* that goes leaves the others in their order.                             *)
LEMMA PutOrder ==
  ASSUME EnrichTypeOK, NEW c \in Cve, NEW s \in Stage \ {"absent"}, Put(c, s)
  PROVE  InOrder' /\ stage' \in [Cve -> Stage]
<1>1. stage' \in [Cve -> Stage] /\ Rows' = Rows \cup {c}
  BY DEF EnrichTypeOK, Put, Rows
<1>2. \A d, e \in Cve : <<d, e>> \in before' <=>
        \/ d # c /\ e # c /\ <<d, e>> \in before
        \/ d \in Rows /\ d # c /\ e = c
  BY DEF Put, Without, Rows
<1>3. before' \subseteq Rows' \X Rows'
  BY <1>1 DEF EnrichTypeOK, InOrder, Put, Without
<1>4. Rows' \subseteq Cve
  BY DEF Rows
<1> QED
  BY <1>1, <1>2, <1>3, <1>4 DEF EnrichTypeOK, InOrder

LEMMA DeleteOrder ==
  ASSUME EnrichTypeOK, NEW c \in Cve,
         stage' = [stage EXCEPT ![c] = "absent"], before' = Without(c)
  PROVE  InOrder' /\ stage' \in [Cve -> Stage]
<1>1. stage' \in [Cve -> Stage] /\ Rows' = Rows \ {c}
  BY DEF EnrichTypeOK, Stage, Rows
<1>2. \A d, e \in Cve : <<d, e>> \in before' <=> d # c /\ e # c /\ <<d, e>> \in before
  BY DEF Without
<1>3. before' \subseteq Rows' \X Rows'
  BY <1>1 DEF EnrichTypeOK, InOrder, Without
<1>4. Rows' \subseteq Cve
  BY DEF Rows
<1> QED
  BY <1>1, <1>2, <1>3, <1>4 DEF EnrichTypeOK, InOrder

LEMMA DueType == \A r \in DueEnrichment : r \in Seq(Cve)
<1>1. ASSUME NEW S \in SUBSET Cve, NEW s \in Listings(S) PROVE s \in Seq(Cve)
  BY EnrichmentAssumption DEF Listings, SeqOf
<1>2. \A S \in SUBSET Cve : First(S) \in SUBSET Cve /\ Ready(S) \in SUBSET Cve
  BY DEF First, Ready
<1>3. ASSUME NEW f \in Seq(Cve), NEW e \in Seq(Cve) PROVE f \o e \in Seq(Cve)
  OBVIOUS
<1> DEFINE flagged == First({c \in Cve : stage[c] = "waiting"})
           unlabelled == First({c \in Cve : stage[c] \in {"midway", "limbo"}})
           extras == IF Cardinality(flagged) < Limit THEN {c \in unlabelled : stage[c] = "limbo"}
                                                     ELSE {}
<1>4. flagged \in SUBSET Cve /\ unlabelled \in SUBSET Cve
  BY <1>2
<1>5. extras \in SUBSET Cve
  BY <1>4
<1>6. DueEnrichment = {f \o e : f \in Listings(Ready(flagged)), e \in Listings(Ready(extras))}
  BY DEF DueEnrichment
<1> HIDE DEF flagged, unlabelled, extras
<1>7. Ready(flagged) \in SUBSET Cve /\ Ready(extras) \in SUBSET Cve
  BY <1>2, <1>4, <1>5
<1>8. ASSUME NEW r \in DueEnrichment PROVE r \in Seq(Cve)
  <2>1. PICK f \in Listings(Ready(flagged)), e \in Listings(Ready(extras)) : r = f \o e
    BY <1>6
  <2>2. f \in Seq(Cve) /\ e \in Seq(Cve)
    BY <1>1, <1>7
  <2> QED
    BY <1>3, <2>1, <2>2
<1> QED
  BY <1>8

(* The types of the worker's hand, of the rows and of the settings.        *)
HandType ==
  /\ doing \in {"idle", "round", "asking", "skipping"}
  /\ ours \in (IF doing \in {"idle", "round"} THEN {NoCve} ELSE Cve)
  /\ fields \subseteq Lookup /\ left \subseteq Lookup
  /\ retrying \in BOOLEAN
  /\ round \in Seq(Cve)

RowType ==
  /\ stage \in [Cve -> Stage]
  /\ has \in [Cve -> SUBSET Lookup]
  /\ attempts \in [Cve -> 0..MaxAttempts]
  /\ delay \in [Cve -> 0..1800 \div Unit]
  /\ InOrder

BackOffType ==
  attempts \in [Cve -> 0..MaxAttempts] /\ delay \in [Cve -> 0..1800 \div Unit]

IntelType ==
  /\ enrichmentOn \in BOOLEAN /\ active \subseteq Lookup /\ answering \in BOOLEAN
  /\ switches \in 0..MaxSwitches

LEMMA Parts == EnrichTypeOK <=> HandType /\ RowType /\ IntelType
  BY DEF EnrichTypeOK, HandType, RowType, IntelType

LEMMA SameRow == RowType /\ UNCHANGED row => RowType'
  BY DEF RowType, row, InOrder, Rows

LEMMA SameIntel == IntelType /\ UNCHANGED intel => IntelType'
  BY DEF IntelType, intel

LEMMA HandEmptyType == HandType /\ HandEmpty => HandType'
  BY DEF HandType, HandEmpty

LEMMA AskType ==
  ASSUME IntelType, NEW c \in Cve, NEW known \in SUBSET Lookup, Ask(c, known),
         retrying' \in BOOLEAN, round' \in Seq(Cve)
  PROVE  HandType'
<1>1. doing' \in {"asking", "skipping"} /\ ours' = c /\ fields' \subseteq Lookup
  BY DEF Ask
<1>2. left' \subseteq Lookup
  BY DEF Ask, LookupActive, IntelType
<1> QED
  BY <1>1, <1>2 DEF HandType

LEMMA Switched == IntelType /\ Switch => switches' \in 0..MaxSwitches
  BY EnrichmentAssumption DEF Switch, IntelType

LEMMA Cleared ==
  ASSUME retrying' = FALSE, round' = <<>> PROVE retrying' \in BOOLEAN /\ round' \in Seq(Cve)
<1>1. retrying' \in BOOLEAN
  BY Zenon
<1>2. round' \in Seq(Cve)
  OBVIOUS
<1> QED
  BY <1>1, <1>2

LEMMA EnrichTypeInit == EnrichInit => EnrichTypeOK
<1> SUFFICES ASSUME EnrichInit PROVE HandType /\ RowType /\ IntelType
  BY Parts
<1>1. HandType
  <2>1. retrying \in BOOLEAN
    BY Zenon DEF EnrichInit
  <2> QED
    BY <2>1 DEF EnrichInit, HandType
<1>2. IntelType
  <2>1. enrichmentOn \in BOOLEAN /\ answering \in BOOLEAN
    BY Zenon DEF EnrichInit
  <2> QED
    BY <2>1, EnrichmentAssumption DEF EnrichInit, IntelType
<1>3. 0 \in 0..MaxAttempts /\ 0 \in 0..1800 \div Unit
  BY EnrichmentAssumption, DivMonotone
<1>4. RowType
  BY <1>3 DEF EnrichInit, RowType, InOrder, Rows, Stage
<1> QED
  BY <1>1, <1>2, <1>4

LEMMA EnrichTypeStep == EnrichTypeOK /\ [EnrichNext]_enrichVars => EnrichTypeOK'
<1> SUFFICES ASSUME EnrichTypeOK, HandType, RowType, IntelType, [EnrichNext]_enrichVars
             PROVE  HandType' /\ RowType' /\ IntelType'
  BY DEF EnrichTypeOK, HandType, RowType, IntelType
<1>0. ASSUME NEW c \in Cve,
             attempts' = [attempts EXCEPT ![c] = 0], delay' = [delay EXCEPT ![c] = 0]
      PROVE  BackOffType'
  <2>1. 0 \in 0..MaxAttempts /\ 0 \in 0..1800 \div Unit
    BY EnrichmentAssumption, DivMonotone
  <2> DEFINE A == 0..MaxAttempts
             D == 0..1800 \div Unit
  <2>2. attempts \in [Cve -> A] /\ delay \in [Cve -> D] /\ 0 \in A /\ 0 \in D
    BY <2>1 DEF RowType
  <2> HIDE DEF A, D
  <2>3. attempts' \in [Cve -> A] /\ delay' \in [Cve -> D]
    BY <1>0, <2>2
  <2> QED
    BY <2>3 DEF A, D, BackOffType
<1>1. CASE UNCHANGED enrichVars
  BY <1>1, SameRow, SameIntel DEF enrichVars, hand, HandType
<1>2. ASSUME NEW c \in Cve, NEW known \in SUBSET Lookup, Feed(c, known)
      PROVE  HandType' /\ RowType' /\ IntelType'
  <2>1. RowType'
    <3>1. CASE stage[c] = "absent"
      BY <1>2, <3>1, PutOrder DEF Feed, Stage, RowType
    <3>2. CASE stage[c] # "absent"
      BY <1>2, <3>2 DEF Feed, RowType, InOrder, Rows
    <3> QED
      BY <3>1, <3>2
  <2>2. IntelType'
    BY <1>2, EnrichmentAssumption DEF Feed, IntelType
  <2>3. HandType'
    <3>1. has[c] \cup known \subseteq Lookup
      BY DEF RowType
    <3>2. retrying' \in BOOLEAN /\ round' \in Seq(Cve)
      BY <1>2, Cleared DEF Feed
    <3> QED
      BY <1>2, <3>1, <3>2, AskType DEF Feed
  <2> QED
    BY <2>1, <2>2, <2>3
<1>3. CASE Skip
  <2>1. ours \in Cve
    BY <1>3 DEF Skip, HandType
  <2>2. InOrder' /\ stage' \in [Cve -> Stage]
    BY <1>3, <2>1, PutOrder DEF Skip, Stage
  <2>3. has' \in [Cve -> SUBSET Lookup]
    BY <1>3 DEF Skip, RowType, HandType
  <2> QED
    BY <1>3, <2>2, <2>3, HandEmptyType, SameIntel DEF Skip, RowType
<1>4. ASSUME NEW l \in Lookup, Hear(l) PROVE HandType' /\ RowType' /\ IntelType'
  <2>1. fields' \subseteq Lookup /\ left' \subseteq Lookup
    BY <1>4 DEF Hear, Answers, HandType
  <2> QED
    BY <1>4, <2>1, SameRow, SameIntel DEF Hear, HandType
<1>5. CASE Wait
  <2>1. ours \in Cve
    BY <1>5 DEF Wait, HandType
  <2>2. InOrder' /\ stage' \in [Cve -> Stage]
    BY <1>5, <2>1, PutOrder DEF Wait, Stage
  <2>3. has' \in [Cve -> SUBSET Lookup]
    BY <1>5 DEF Wait, Judged, RowType, HandType
  <2>4. attempts' \in [Cve -> 0..MaxAttempts]
    <3>1. MaxAttempts \in Nat
      BY EnrichmentAssumption
    <3>2. \A n \in 0..MaxAttempts : (IF n < MaxAttempts THEN n + 1 ELSE n) \in 0..MaxAttempts
      BY <3>1
    <3> QED
      BY <1>5, <2>1, <3>2 DEF Wait, RowType
  <2>5. delay' \in [Cve -> 0..1800 \div Unit]
    <3> DEFINE d == NextDelay(attempts[ours], Base) \div Unit
               top == 1800 \div Unit
    <3>1. attempts[ours] \in Nat
      BY <2>1 DEF RowType
    <3>2. d \in Nat /\ d <= top
      BY <3>1, DelayType
    <3>3. delay' = [delay EXCEPT ![ours] = d] /\ delay \in [Cve -> 0..top]
      BY <1>5 DEF Wait, RowType
    <3>4. top \in Nat
      BY EnrichmentAssumption
    <3> HIDE DEF d, top
    <3>5. d \in 0..top
      BY <3>2, <3>4
    <3>6. delay' \in [Cve -> 0..top]
      BY <3>3, <3>5
    <3> QED
      BY <3>6 DEF top
  <2> QED
    BY <1>5, <2>2, <2>3, <2>4, <2>5, HandEmptyType, SameIntel DEF Wait, RowType
<1>6. CASE Complete
  <2>1. ours \in Cve
    BY <1>6 DEF Complete, HandType
  <2>2. InOrder' /\ stage' \in [Cve -> Stage]
    BY <1>6, <2>1, PutOrder DEF Complete, Stage
  <2>3. has' \in [Cve -> SUBSET Lookup]
    BY <1>6, <2>1 DEF Complete, RowType
  <2>4. BackOffType'
    BY <1>0, <1>6, <2>1 DEF Complete
  <2> QED
    BY <1>6, <2>2, <2>3, <2>4, HandEmptyType, SameIntel DEF Complete, RowType, BackOffType
<1>7. CASE Raise
  <2>1. ours \in Cve
    BY <1>7 DEF Raise, HandType
  <2>2. RowType'
    <3>1. CASE retrying
      BY <1>7, <3>1, SameRow DEF Raise
    <3>2. CASE ~retrying
      BY <1>7, <2>1, <3>2, PutOrder DEF Raise, Stage, RowType
    <3> QED
      BY <3>1, <3>2
  <2> QED
    BY <1>7, <2>2, HandEmptyType, SameIntel DEF Raise
<1>8. CASE ListDue
  <2>1. round' \in Seq(Cve)
    BY <1>8, DueType DEF ListDue
  <2> QED
    BY <1>8, <2>1, SameRow, SameIntel DEF ListDue, HandType
<1>9. CASE RetryNext
  <2>1. Head(round) \in Cve /\ Tail(round) \in Seq(Cve)
    BY <1>9 DEF RetryNext, HandType
  <2>2. HandType'
    <3>1. CASE Flagged(Head(round))
      <4>1. has[Head(round)] \in SUBSET Lookup /\ round' \in Seq(Cve) /\ retrying' \in BOOLEAN
        BY <1>9, <2>1 DEF RetryNext, RowType, HandType
      <4> QED
        BY <1>9, <2>1, <3>1, <4>1, AskType DEF RetryNext
    <3>2. CASE ~Flagged(Head(round))
      BY <1>9, <2>1, <3>2 DEF RetryNext, HandType
    <3> QED
      BY <3>1, <3>2
  <2> QED
    BY <1>9, <2>2, SameRow, SameIntel DEF RetryNext
<1>10. CASE RoundOver
  BY <1>10, SameRow, SameIntel DEF RoundOver, HandType
<1>11. CASE PassTime
  <2>1. delay' \in [Cve -> 0..1800 \div Unit]
    <3> DEFINE top == 1800 \div Unit
    <3>1. top \in Nat
      BY EnrichmentAssumption
    <3>2. delay \in [Cve -> 0..top]
      BY DEF RowType
    <3> HIDE DEF top
    <3>3. delay' \in [Cve -> 0..top]
      BY <1>11, <3>1, <3>2 DEF PassTime
    <3> QED
      BY <3>3 DEF top
  <2>2. HandType'
    BY <1>11 DEF PassTime, hand, HandType
  <2> QED
    BY <1>11, <2>1, <2>2, SameIntel DEF PassTime, RowType, InOrder, Rows
<1>12. ASSUME NEW on \in SUBSET Lookup,
              SaveEnrichment \/ OutageBeginsOrEnds \/ SaveIntelSources(on)
       PROVE  HandType' /\ RowType' /\ IntelType'
  <2>1. UNCHANGED row /\ UNCHANGED hand /\ Switch
    BY <1>12 DEF SaveEnrichment, OutageBeginsOrEnds, SaveIntelSources
  <2>2. enrichmentOn' \in {enrichmentOn, ~enrichmentOn} /\ answering' \in {answering, ~answering}
    BY <1>12 DEF SaveEnrichment, OutageBeginsOrEnds, SaveIntelSources
  <2>3. enrichmentOn' \in BOOLEAN /\ answering' \in BOOLEAN
    BY <2>2, Zenon DEF IntelType
  <2>4. active' \subseteq Lookup
    BY <1>12 DEF SaveEnrichment, OutageBeginsOrEnds, SaveIntelSources, IntelType
  <2>5. IntelType'
    BY <2>1, <2>3, <2>4, Switched DEF IntelType
  <2>6. HandType'
    BY <2>1 DEF HandType, hand
  <2> QED
    BY <2>1, <2>5, <2>6, SameRow
<1>13. ASSUME NEW c \in Cve, Delete(c) PROVE HandType' /\ RowType' /\ IntelType'
  <2>1. InOrder' /\ stage' \in [Cve -> Stage]
    BY <1>13, DeleteOrder DEF Delete
  <2>2. has' \in [Cve -> SUBSET Lookup]
    BY <1>13 DEF Delete, RowType
  <2>3. BackOffType'
    BY <1>0, <1>13 DEF Delete
  <2>4. IntelType'
    BY <1>13, Switched DEF Delete, IntelType
  <2>5. HandType'
    BY <1>13 DEF Delete, HandType, hand
  <2> QED
    BY <2>1, <2>2, <2>3, <2>4, <2>5 DEF RowType, BackOffType
<1>14. CASE Reboot
  <2>1. IntelType'
    BY <1>14, Switched DEF Reboot, IntelType
  <2>2. HandType'
    BY <1>14, Cleared DEF Reboot, HandType
  <2> QED
    BY <1>14, <2>1, <2>2, SameRow DEF Reboot
<1> QED
  BY <1>1, <1>2, <1>3, <1>4, <1>5, <1>6, <1>7, <1>8, <1>9, <1>10, <1>11, <1>12, <1>13, <1>14
     DEF EnrichNext, EnrichStep

(* Types; of two rows one was always updated first, whatever is written,   *)
(* fed again or deleted; and a back-off never exceeds 1800 seconds.        *)
THEOREM EnrichTyping == EnrichSpec => []EnrichTypeOK
  BY EnrichTypeInit, EnrichTypeStep, PTL DEF EnrichSpec

(* The labelled rows that were updated before the one of c.                *)
Ahead(c) == {d \in Cve : stage[d] = "waiting" /\ <<d, c>> \in before}

KeepsItsPlace(c) ==
  stage[c] = "waiting" /\ stage'[c] = "waiting" /\ ours # c => Ahead(c)' \subseteq Ahead(c)

(* Writing another row never puts a row ahead of c.                        *)
LEMMA PutBehind ==
  ASSUME NEW c \in Cve, NEW d \in Cve, NEW s, EnrichTypeOK, c # d, Put(d, s)
  PROVE  Ahead(c)' \subseteq Ahead(c)
<1>1. \A e \in Cve : <<e, c>> \in before' => e # d /\ <<e, c>> \in before
  BY DEF Put, Without
<1>2. \A e \in Cve : e # d => stage'[e] = stage[e]
  BY DEF Put, EnrichTypeOK
<1> QED
  BY <1>1, <1>2 DEF Ahead

LEMMA PlaceKept ==
  ASSUME EnrichTypeOK, [EnrichNext]_enrichVars, NEW c \in Cve PROVE KeepsItsPlace(c)
<1> SUFFICES ASSUME stage[c] = "waiting", stage'[c] = "waiting", ours # c
             PROVE  Ahead(c)' \subseteq Ahead(c)
  BY DEF KeepsItsPlace
<1>1. CASE UNCHANGED <<stage, before>>
  BY <1>1 DEF Ahead
<1>2. ASSUME NEW d \in Cve, NEW known \in SUBSET Lookup, Feed(d, known)
      PROVE  Ahead(c)' \subseteq Ahead(c)
  <2>1. CASE stage[d] = "absent"
    BY <1>2, <2>1, PutBehind DEF Feed
  <2>2. CASE stage[d] # "absent"
    BY <1>1, <1>2, <2>2 DEF Feed
  <2> QED
    BY <2>1, <2>2
<1>3. CASE Skip \/ Wait \/ Complete \/ Raise
  <2>1. ours \in Cve
    BY <1>3 DEF Skip, Wait, Complete, Raise, EnrichTypeOK
  <2>2. (\E s : Put(ours, s)) \/ UNCHANGED <<stage, before>>
    BY <1>3 DEF Skip, Wait, Complete, Raise, row
  <2> QED
    BY <1>1, <2>1, <2>2, PutBehind
<1>4. ASSUME NEW d \in Cve, Delete(d) PROVE Ahead(c)' \subseteq Ahead(c)
  <2>1. \A e \in Cve : <<e, c>> \in before' => e # d /\ <<e, c>> \in before
    BY <1>4 DEF Delete, Without
  <2>2. \A e \in Cve : e # d => stage'[e] = stage[e]
    BY <1>4 DEF Delete, EnrichTypeOK
  <2> QED
    BY <2>1, <2>2 DEF Ahead
<1>5. ListDue \/ RetryNext \/ RoundOver \/ PassTime \/ SaveEnrichment \/ OutageBeginsOrEnds
        \/ Reboot \/ (\E l \in Lookup : Hear(l)) \/ (\E on \in SUBSET Lookup : SaveIntelSources(on))
        \/ UNCHANGED enrichVars
      => UNCHANGED <<stage, before>>
  BY DEF ListDue, RetryNext, RoundOver, PassTime, SaveEnrichment, OutageBeginsOrEnds, Reboot,
         Hear, SaveIntelSources, enrichVars, row
<1> QED
  BY <1>1, <1>2, <1>3, <1>4, <1>5 DEF EnrichNext, EnrichStep

(* A labelled CVE that is due is in the next round, unless Limit labelled  *)
(* rows are ahead of it.                                                   *)
TakenWhenDue(c) ==
  ListDue /\ stage[c] = "waiting" /\ delay[c] = 0 /\ Cardinality(Ahead(c)) < Limit
    => c \in Range(round')

LEMMA DueTaken == ASSUME NEW c \in Cve PROVE TakenWhenDue(c)
<1> SUFFICES ASSUME ListDue, stage[c] = "waiting", delay[c] = 0, Cardinality(Ahead(c)) < Limit
             PROVE  c \in Range(round')
  BY DEF TakenWhenDue
<1> DEFINE waiting == {d \in Cve : stage[d] = "waiting"}
           flagged == First(waiting)
           unlabelled == First({d \in Cve : stage[d] \in {"midway", "limbo"}})
           extras == IF Cardinality(flagged) < Limit THEN {d \in unlabelled : stage[d] = "limbo"}
                                                     ELSE {}
<1>1. {d \in waiting : <<d, c>> \in before} = Ahead(c)
  BY DEF Ahead
<1>2. c \in Ready(flagged)
  BY <1>1 DEF First, Ready
<1>3. PICK f \in Listings(Ready(flagged)), e \in Listings(Ready(extras)) : round' = f \o e
  <2>1. DueEnrichment = {f \o e : f \in Listings(Ready(flagged)), e \in Listings(Ready(extras))}
    BY DEF DueEnrichment
  <2> HIDE DEF flagged, extras
  <2> QED
    BY <2>1 DEF ListDue
<1>4. \A S, s : s \in Listings(S) => ToSet(s) = S /\ s \in Seq(S)
  BY EnrichmentAssumption DEF Listings, SeqOf
<1> HIDE DEF flagged, extras
<1>5. c \in Range(f) /\ f \in Seq(Ready(flagged)) /\ e \in Seq(Ready(extras))
  BY <1>2, <1>3, <1>4 DEF ToSet, Range
<1>6. PICK i \in 1..Len(f) : c = f[i]
  BY <1>5 DEF Range
<1>7. i \in 1..Len(f \o e) /\ (f \o e)[i] = f[i] /\ DOMAIN (f \o e) = 1..Len(f \o e)
  BY <1>5, <1>6
<1> QED
  BY <1>3, <1>6, <1>7 DEF Range

(* Nobody jumps the queue: while a labelled CVE is not in hand, the        *)
(* labelled rows ahead of it only become fewer, whatever is fed, retried,  *)
(* fails or is deleted, and a round that leaves it out though it is due is *)
(* full of them.  This is why it gets its turn once the rows ahead of it   *)
(* had theirs (due_waiting_enrichment takes the rows by updated_at).       *)
THEOREM NoOvertaking ==
  EnrichSpec => [][\A c \in Cve : KeepsItsPlace(c) /\ TakenWhenDue(c)]_enrichVars
<1>1. EnrichTypeOK /\ [EnrichNext]_enrichVars
        => \A c \in Cve : KeepsItsPlace(c) /\ TakenWhenDue(c)
  BY PlaceKept, DueTaken
<1> QED
  BY <1>1, EnrichTyping, PTL DEF EnrichSpec

(* What EveryoneReleased rests on: the lookups asked so far in an attempt  *)
(* have all answered.                                                      *)
OnTrack == /\ doing = "asking" /\ answering /\ enrichmentOn
           /\ LookupActive \ left \subseteq fields

Releases ==
  /\ doing # "asking" /\ doing' = "asking" /\ answering => OnTrack'
  /\ OnTrack /\ switches' = switches =>
       \/ OnTrack' /\ ours' = ours
       \/ ours \in Poison
       \/ stage'[ours] = "passed" /\ ours' = NoCve

LEMMA TrackKept == EnrichTypeOK /\ [EnrichNext]_enrichVars => Releases
<1> SUFFICES ASSUME EnrichTypeOK, [EnrichNext]_enrichVars PROVE Releases
  OBVIOUS
<1> USE DEF EnrichTypeOK, Releases
<1>1. CASE doing # "asking" /\ doing' = "asking"
  <2>1. UNCHANGED <<enrichmentOn, active, answering>> /\ enrichmentOn /\ left' = LookupActive
    <3>1. ASSUME NEW c, NEW known, Feed(c, known)
          PROVE  UNCHANGED <<enrichmentOn, active, answering>> /\ enrichmentOn /\ left' = LookupActive
      BY <1>1, <3>1 DEF Feed, Ask
    <3>2. CASE RetryNext
      BY <1>1, <3>2 DEF RetryNext, Ask, intel
    <3>3. \/ RetryNext
          \/ \E c \in Cve, known \in SUBSET Lookup : Feed(c, known)
      BY <1>1 DEF EnrichNext, EnrichStep, Skip, Wait, Complete, Raise, ListDue, RoundOver, Hear,
                  HandEmpty, PassTime, SaveEnrichment, OutageBeginsOrEnds, Reboot,
                  SaveIntelSources, Delete, enrichVars, hand
    <3> QED
      BY <3>1, <3>2, <3>3
  <2>2. answering => OnTrack'
    BY <1>1, <2>1 DEF OnTrack, LookupActive
  <2> QED
    BY <1>1, <2>2 DEF OnTrack
<1>2. CASE doing = "asking" /\ OnTrack /\ switches' = switches
  <2> SUFFICES \/ OnTrack' /\ ours' = ours
               \/ ours \in Poison
               \/ stage'[ours] = "passed" /\ ours' = NoCve
    BY <1>2
  <2>1. ASSUME NEW l \in Lookup, Hear(l) PROVE OnTrack' /\ ours' = ours
    <3>1. l \in LookupActive => l \in fields' /\ fields \subseteq fields'
      BY <1>2, <2>1 DEF Hear, Answers, OnTrack
    <3>2. l \notin LookupActive => fields' = fields
      BY <2>1 DEF Hear
    <3>3. UNCHANGED <<doing, ours>> /\ UNCHANGED intel /\ left' = left \ {l}
      BY <2>1 DEF Hear
    <3> QED
      BY <1>2, <3>1, <3>2, <3>3 DEF OnTrack, LookupActive, intel
  <2>2. ~Wait
    BY <1>2 DEF Wait, Judged, Gaps, OnTrack
  <2>3. Complete => stage'[ours] = "passed" /\ ours' = NoCve
    BY <1>2 DEF Complete, Put, HandEmpty
  <2>4. Raise => ours \in Poison
    BY DEF Raise
  <2>5. PassTime \/ UNCHANGED enrichVars => OnTrack' /\ ours' = ours
    <3>1. PassTime \/ UNCHANGED enrichVars => UNCHANGED <<intel, hand>>
      BY DEF PassTime, enrichVars
    <3>2. UNCHANGED <<intel, hand>> => OnTrack' /\ ours' = ours
      <4> SUFFICES ASSUME UNCHANGED <<intel, hand>> PROVE OnTrack' /\ ours' = ours
        OBVIOUS
      <4>1. /\ enrichmentOn' = enrichmentOn /\ active' = active /\ answering' = answering
            /\ doing' = doing /\ ours' = ours /\ fields' = fields /\ left' = left
        BY DEF intel, hand
      <4>2. LookupActive' = LookupActive
        BY <4>1 DEF LookupActive
      <4> QED
        BY <1>2, <4>1, <4>2 DEF OnTrack
    <3> QED
      BY <3>1, <3>2
  <2>6. ~(Skip \/ ListDue \/ RetryNext \/ RoundOver)
    BY <1>2 DEF Skip, ListDue, RetryNext, RoundOver
  <2>7. ~(\/ SaveEnrichment \/ OutageBeginsOrEnds \/ Reboot
          \/ \E on \in SUBSET Lookup : SaveIntelSources(on)
          \/ \E c \in Cve : Delete(c) \/ \E known \in SUBSET Lookup : Feed(c, known))
    <3>1. ~Switch
      BY <1>2, EnrichmentAssumption DEF Switch
    <3>2. ~SaveEnrichment /\ ~OutageBeginsOrEnds /\ ~Reboot
      BY <3>1 DEF SaveEnrichment, OutageBeginsOrEnds, Reboot
    <3>3. \A on : ~SaveIntelSources(on)
      BY <3>1 DEF SaveIntelSources
    <3>4. \A c : ~Delete(c)
      BY <3>1 DEF Delete
    <3>5. \A c, known : ~Feed(c, known)
      BY <1>2 DEF Feed
    <3> QED
      BY <3>2, <3>3, <3>4, <3>5
  <2> QED
    BY <1>2, <2>1, <2>2, <2>3, <2>4, <2>5, <2>6, <2>7 DEF EnrichNext, EnrichStep
<1> QED
  BY <1>1, <1>2 DEF OnTrack

(* The safety core of EveryoneReleased: an attempt that starts while the   *)
(* lookups answer and enrichment is on, and that no switch, outage,        *)
(* deletion or restart disturbs, ends with the CVE on its way to matching, *)
(* or in an error of its own; it does not wait again.                      *)
THEOREM AnswersRelease == EnrichSpec => [][Releases]_enrichVars
<1>1. EnrichTypeOK /\ [EnrichNext]_enrichVars => [Releases]_enrichVars
  BY TrackKept
<1> QED
  BY <1>1, EnrichTyping, PTL DEF EnrichSpec
=============================================================================
