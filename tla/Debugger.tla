------------------------------ MODULE Debugger ------------------------------
(***************************************************************************)
(* A debug run of one CVE (app/services/debug_trace.py, app/api/debug.py): *)
(* the steps of the pipeline on a session that is rolled back at the end.  *)
(* It runs on the event loop of the queue's worker, and both keep SQLite's *)
(* write lock while they wait for an answer.  A flush that finds the lock  *)
(* taken blocks the whole loop, the other one's next step included, until  *)
(* a thread commits or busy_timeout raises.                                *)
(***************************************************************************)
CONSTANT Status                 \* statuses the pipeline may leave a row in

ASSUME StatusAssumption == "none" \notin Status /\ {"ENRICHED", "MATCHED"} \subseteq Status

VARIABLES stored,               \* the CVE's row and links in the tables
          writer,               \* who holds the write lock, or "free"
          waits,                \* whose flush blocks the loop, or "nobody"
          worker,               \* what the queue's worker does
          at,                   \* where the debug run stands
          config,               \* the settings it read at its start
          found,                \* lookups that answered
          created, work         \* it added the row; the row in its session

debugVars == <<stored, writer, waits, worker, at, config, found, created, work>>
mine == <<at, config, found, created, work>>
others == <<stored, writer, waits, worker>>

Row == [status : Status \cup {"none"}, linked : BOOLEAN]
NoRow == [status |-> "none", linked |-> FALSE]
Config == [enrich : BOOLEAN, ai : {"off", "org_llm", "direct"}]
NoConfig == [enrich |-> FALSE, ai |-> "off"]

(* Steps of a run, in order; "idle" before and after.                      *)
Place == {"idle", "id", "row", "nvd", "epss", "apply", "ai", "asking",
          "match", "relevance", "plan"}

(* The lock is held by a run only while it goes on.                        *)
DebugTypeOK ==
  /\ stored \in Row
  /\ writer \in {"free", "debug", "worker", "thread"}
  /\ waits \in {"nobody", "debug", "worker"}
  /\ worker \in {"idle", "step", "asking"}
  /\ at \in Place
  /\ config \in Config
  /\ found \subseteq {"nvd", "epss"}
  /\ created \in BOOLEAN
  /\ work \in Row
  /\ writer = "debug" => at \in Place \ {"idle", "id", "row"}
  /\ created => writer = "debug"
  /\ writer = "worker" <=> worker = "asking"
  /\ waits # "nobody" => writer # waits

DebugInit ==
  /\ stored = NoRow
  /\ writer = "free" /\ waits = "nobody" /\ worker = "idle"
  /\ at = "idle" /\ config = NoConfig /\ found = {}
  /\ created = FALSE /\ work = NoRow

-----------------------------------------------------------------------------
(* Steps of a coroutine need the loop; a flush needs the lock as well.     *)
LoopFree == waits = "nobody"
MayGoOn(who) == waits \in {"nobody", who}
Locks(who) == /\ MayGoOn(who)
              /\ writer \in {"free", who}
              /\ writer' = who
              /\ waits' = "nobody"

Goto(p) == at' = p

(* Mutant: what the session holds is stored.                               *)
RollbackStores == /\ at' = "idle" /\ config' = NoConfig /\ found' = {}
                  /\ created' = FALSE /\ work' = NoRow
                  /\ writer' = IF writer = "debug" THEN "free" ELSE writer
                  /\ stored' = IF writer = "debug" THEN work ELSE stored

(* The run is over, by its rollback or as its session is closed.           *)
Rollback == /\ at' = "idle" /\ config' = NoConfig /\ found' = {}
            /\ created' = FALSE /\ work' = NoRow
            /\ writer' = IF writer = "debug" THEN "free" ELSE writer
            /\ stored' = stored

(* Step 1: the regular expression.                                         *)
Scan ==
  /\ LoopFree /\ at = "idle"
  /\ config' \in Config
  /\ Goto("id")
  /\ UNCHANGED <<others, found, created, work>>

(* Step 2: no CVE ID, or one before INTEL_START_DATE.                      *)
NotDetected ==
  /\ LoopFree /\ at = "id"
  /\ Rollback
  /\ UNCHANGED <<waits, worker>>

Detected ==
  /\ LoopFree /\ at = "id"
  /\ Goto("row")
  /\ UNCHANGED <<others, config, found, created, work>>

AfterRow == IF config.enrich THEN "nvd" ELSE "match"

(* The CVE is known: its row is loaded, which takes no lock.               *)
UseRow ==
  /\ LoopFree /\ at = "row"
  /\ stored # NoRow
  /\ work' = stored
  /\ Goto(AfterRow)
  /\ UNCHANGED <<others, config, found, created>>

(* It is not: a row is added and flushed.                                  *)
AddRow ==
  /\ at = "row"
  /\ stored = NoRow
  /\ Locks("debug")
  /\ created' = TRUE
  /\ work' = [status |-> "ENRICHED", linked |-> FALSE]
  /\ Goto(AfterRow)
  /\ UNCHANGED <<stored, worker, config, found>>

(* Somebody added it while the flush waited: the INSERT is refused.        *)
AddedTwice ==
  /\ waits = "debug" /\ at = "row"
  /\ stored # NoRow /\ writer = "free"
  /\ Rollback
  /\ waits' = "nobody"
  /\ UNCHANGED worker

-----------------------------------------------------------------------------
(* Step 3: NVD, then EPSS, as far as they are on; errors are noted.        *)
AskNvd ==
  /\ LoopFree /\ at = "nvd"
  /\ found' \in {{}, {"nvd"}}
  /\ Goto("epss")
  /\ UNCHANGED <<others, config, created, work>>

AskEpss ==
  /\ LoopFree /\ at = "epss"
  /\ found' \in {found, found \cup {"epss"}}
  /\ Goto("apply")
  /\ UNCHANGED <<others, config, created, work>>

(* ... and step 4 reports them.                                            *)
Report ==
  /\ LoopFree /\ at = "apply"
  /\ Goto("ai")
  /\ UNCHANGED <<others, config, found, created, work>>

(* Mutant: the run returns with its transaction open.                      *)
StopAtFiveOpen ==
  /\ LoopFree /\ at = "ai"
  /\ config.ai = "off" /\ found = {}
  /\ Goto("idle")
  /\ UNCHANGED <<others, config, found, created, work>>

(* Step 5: without AI and without an answer the run stops.                 *)
StopAtFive ==
  /\ LoopFree /\ at = "ai"
  /\ config.ai = "off" /\ found = {}
  /\ Rollback
  /\ UNCHANGED <<waits, worker>>

NoAi ==
  /\ LoopFree /\ at = "ai"
  /\ config.ai # "direct"
  /\ config.ai = "off" => found # {}
  /\ Goto("match")
  /\ UNCHANGED <<others, config, found, created, work>>

AskAi ==
  /\ LoopFree /\ at = "ai"
  /\ config.ai = "direct"
  /\ Goto("asking")
  /\ UNCHANGED <<others, config, found, created, work>>

HearAi ==
  /\ LoopFree /\ at = "asking"
  /\ Goto("match")
  /\ UNCHANGED <<others, config, found, created, work>>

-----------------------------------------------------------------------------
(* Step 6.  Without a hit nothing is flushed; with hits the links are, and *)
(* the fields that were changed.                                           *)
NoMatch ==
  /\ LoopFree /\ at = "match"
  /\ Goto("relevance")
  /\ UNCHANGED <<others, config, found, created, work>>

Match ==
  /\ at = "match"
  /\ Locks("debug")
  /\ created \/ stored # NoRow
  /\ work' = [work EXCEPT !.linked = TRUE]
  /\ Goto("relevance")
  /\ UNCHANGED <<stored, worker, config, found, created>>

(* The row was deleted since it was loaded.                                *)
MatchFails ==
  /\ MayGoOn("debug") /\ at = "match"
  /\ writer = "free" /\ stored = NoRow
  /\ Rollback
  /\ waits' = "nobody"
  /\ UNCHANGED worker

(* Step 7, relevant or not.                                                *)
Relevance ==
  /\ LoopFree /\ at = "relevance"
  /\ work' = [work EXCEPT !.status = "MATCHED"]
  /\ Goto("plan")
  /\ UNCHANGED <<others, config, found, created>>

(* Step 8: who would be told.  Nobody is; all is rolled back.              *)
Plan ==
  /\ LoopFree /\ at = "plan"
  /\ Rollback
  /\ UNCHANGED <<waits, worker>>

(* A flush that finds the lock taken blocks the loop.                      *)
DebugBlocks ==
  /\ LoopFree
  /\ at \in {"row", "match"}
  /\ at = "row" => stored = NoRow
  /\ writer \in {"worker", "thread"}
  /\ waits' = "debug"
  /\ UNCHANGED <<stored, writer, worker, mine>>

(* An error of any step reaches the endpoint, which answers with it.       *)
RunRaises ==
  /\ LoopFree /\ at # "idle"
  /\ Rollback
  /\ UNCHANGED <<waits, worker>>

-----------------------------------------------------------------------------
(* The worker: begin_step flushes, the answer is awaited, complete_step    *)
(* commits, or the step raises.                                            *)
WorkerStarts ==
  /\ LoopFree /\ worker = "idle"
  /\ worker' = "step"
  /\ UNCHANGED <<stored, writer, waits, mine>>

WorkerFlushes ==
  /\ worker = "step"
  /\ Locks("worker")
  /\ worker' = "asking"
  /\ UNCHANGED <<stored, mine>>

WorkerBlocks ==
  /\ LoopFree /\ worker = "step"
  /\ writer \in {"debug", "thread"}
  /\ waits' = "worker"
  /\ UNCHANGED <<stored, writer, worker, mine>>

WorkerEnds ==
  /\ LoopFree /\ worker = "asking"
  /\ stored' \in {stored} \cup {r \in Row : r.status # "none"}
  /\ writer' = "free"
  /\ worker' = "idle"
  /\ UNCHANGED <<waits, mine>>

(* Requests of the pages run in threads: a deletion, a link rewritten.     *)
ThreadLocks ==
  /\ writer = "free"
  /\ writer' = "thread"
  /\ UNCHANGED <<stored, waits, worker, mine>>

ThreadCommits ==
  /\ writer = "thread"
  /\ writer' = "free"
  /\ stored' \in {stored, NoRow, [stored EXCEPT !.linked = ~@ /\ stored # NoRow]}
  /\ UNCHANGED <<waits, worker, mine>>

(* Mutant: only a lock of a thread is waited out.                          *)
TimesOutOnThreads ==
  /\ waits # "nobody"
  /\ writer = "thread"
  /\ waits' = "nobody"
  /\ IF waits = "worker"
       THEN worker' = "idle" /\ UNCHANGED <<stored, writer, mine>>
       ELSE Rollback /\ UNCHANGED worker

(* busy_timeout: "database is locked" for the one that waits.              *)
TimesOut ==
  /\ waits # "nobody"
  /\ writer # "free"
  /\ waits' = "nobody"
  /\ IF waits = "worker"
       THEN worker' = "idle" /\ UNCHANGED <<stored, writer, mine>>
       ELSE Rollback /\ UNCHANGED worker

-----------------------------------------------------------------------------
DebugStep ==
  \/ NotDetected \/ Detected \/ UseRow \/ AddRow \/ AddedTwice
  \/ AskNvd \/ AskEpss \/ Report \/ StopAtFive \/ NoAi \/ AskAi \/ HearAi
  \/ NoMatch \/ Match \/ MatchFails \/ Relevance \/ Plan \/ DebugBlocks \/ RunRaises

WorkerStep == WorkerFlushes \/ WorkerBlocks \/ WorkerEnds

DebugNext ==
  \/ Scan \/ DebugStep
  \/ WorkerStarts \/ WorkerStep
  \/ ThreadLocks \/ ThreadCommits \/ TimesOut

DebugSpec == DebugInit /\ [][DebugNext]_debugVars

(* Coroutines and threads go on, SQLite's clock too.                       *)
DebugFairness ==
  /\ SF_debugVars(DebugStep) /\ SF_debugVars(WorkerStep)
  /\ WF_debugVars(ThreadCommits) /\ WF_debugVars(TimesOut)
DebugLiveSpec == DebugSpec /\ DebugFairness

-----------------------------------------------------------------------------
(* "Nothing is stored": the tables change in commits of the worker and of  *)
(* threads only.  What a run flushed, and the row it works on, is gone     *)
(* with it, wherever it stops.                                             *)
NothingStored ==
  [][/\ stored' # stored => writer \in {"worker", "thread"}
     /\ (writer = "debug" /\ writer' # "debug") => (stored' = stored /\ work' = NoRow)]_debugVars

(* The run and the worker may each hold what the other waits for: the loop *)
(* comes free all the same, and so does every run come to its end.         *)
LoopGoesOn ==
  /\ (waits # "nobody") ~> (waits = "nobody")
  /\ (at # "idle") ~> (at = "idle")
=============================================================================
