-------------------------- MODULE WorkQueue_proofs --------------------------
(***************************************************************************)
(* Proofs about the work queue for every set of events, threads and every  *)
(* number of crashes: types, the claim discipline, what a restart picks    *)
(* up, that the table is a serial ledger, and that ids are served in turn. *)
(***************************************************************************)
EXTENDS WorkQueue, TLAPS

-----------------------------------------------------------------------------
(* Lemmas about the queue as a sequence.                                   *)

(* Putting an element at the end adds it to the elements.                  *)
LEMMA AppendRange ==
  ASSUME NEW S, NEW q \in Seq(S), NEW e \in S
  PROVE  /\ Append(q, e) \in Seq(S)
         /\ Range(Append(q, e)) = Range(q) \cup {e}
<1> DEFINE r == Append(q, e)
<1>1. /\ r \in Seq(S)
      /\ Len(r) = Len(q) + 1
      /\ \A i \in 1..Len(q) : r[i] = q[i]
      /\ r[Len(q) + 1] = e
  OBVIOUS
<1>2. DOMAIN r = 1..(Len(q) + 1) /\ DOMAIN q = 1..Len(q) /\ Len(q) \in Nat
  BY <1>1
<1>3. DOMAIN r = DOMAIN q \cup {Len(q) + 1}
  BY <1>2
<1> HIDE DEF r
<1>4. \A x : x \in Range(r) <=> x \in Range(q) \cup {e}
  BY <1>1, <1>2, <1>3 DEF Range
<1> QED
  BY <1>1, <1>4 DEF r

(* Putting a new element at the end keeps the elements distinct.           *)
LEMMA AppendInjective ==
  ASSUME NEW S, NEW q \in Seq(S), NEW e \in S,
         IsInjective(q), e \notin Range(q)
  PROVE  IsInjective(Append(q, e))
  BY DEF IsInjective, Range

(* Taking the head off a queue of distinct elements removes just that one. *)
LEMMA TakeHead ==
  ASSUME NEW S, NEW q \in Seq(S), q # <<>>, IsInjective(q)
  PROVE  /\ Head(q) \in S
         /\ Tail(q) \in Seq(S)
         /\ IsInjective(Tail(q))
         /\ Range(q) = {Head(q)} \cup Range(Tail(q))
         /\ Head(q) \notin Range(Tail(q))
<1> DEFINE t == Tail(q)
<1>1. /\ Head(q) = q[1] /\ Head(q) \in S
      /\ t \in Seq(S) /\ Len(q) \in Nat \ {0} /\ Len(t) = Len(q) - 1
      /\ \A i \in 1..Len(t) : t[i] = q[i + 1]
      /\ DOMAIN q = 1..Len(q) /\ DOMAIN t = 1..Len(t)
  OBVIOUS
<1> HIDE DEF t
<1>2. \A i, j \in 1..Len(q) : q[i] = q[j] => i = j
  BY <1>1 DEF IsInjective
<1>3. IsInjective(t)
  BY <1>1, <1>2 DEF IsInjective
<1>4. Head(q) \notin Range(t)
  <2>1. \A i \in 1..Len(t) : i + 1 \in 1..Len(q) /\ i + 1 # 1
    BY <1>1
  <2> QED
    BY <1>1, <1>2, <2>1 DEF Range
<1>5. Range(q) \subseteq {Head(q)} \cup Range(t)
  <2> SUFFICES ASSUME NEW i \in 1..Len(q), i # 1 PROVE q[i] \in Range(t)
    BY <1>1 DEF Range
  <2>1. i - 1 \in 1..Len(t) /\ t[i - 1] = q[i]
    BY <1>1
  <2> QED
    BY <1>1, <2>1 DEF Range
<1>6. {Head(q)} \cup Range(t) \subseteq Range(q)
  <2>1. 1 \in 1..Len(q) /\ \A i \in 1..Len(t) : i + 1 \in 1..Len(q)
    BY <1>1
  <2> QED
    BY <1>1, <2>1 DEF Range
<1> QED
  BY <1>1, <1>3, <1>4, <1>5, <1>6 DEF t

-----------------------------------------------------------------------------
(* Every variable keeps its type.                                          *)
THEOREM Typing == QueueSpec => []TypeOK
<1>1. QueueInit => TypeOK
  BY QueueAssumption DEF QueueInit, TypeOK, Status, WorkerState
<1>2. TypeOK /\ [QueueNext]_queueVars => TypeOK'
  <2> SUFFICES ASSUME TypeOK, [QueueNext]_queueVars PROVE TypeOK'
    OBVIOUS
  <2> USE QueueAssumption DEF TypeOK, Status, Settled, WorkerState, RowsIn
  <2>1. ASSUME NEW p \in Producer, NEW e \in Event, Submit(p, e) PROVE TypeOK'
    BY <2>1 DEF Submit, memory
  <2>2. ASSUME NEW p \in Producer, NEW e \in Event, NEW others \in SUBSET FileEvent,
               Resubmit(p, e, others)
        PROVE  TypeOK'
    BY <2>2 DEF Resubmit, Reuse, memory
  <2>3. ASSUME NEW e \in Event, RecordDuplicate(e) PROVE TypeOK'
    BY <2>3 DEF RecordDuplicate, memory
  <2>4. ASSUME NEW p \in Producer, Enqueue(p) PROVE TypeOK'
    BY <2>4 DEF Enqueue
  <2>5. ASSUME NEW e \in Event, NEW others \in SUBSET FileEvent, Webhook(e, others)
        PROVE  TypeOK'
    BY <2>5 DEF Webhook, Reuse
  <2>6. ASSUME NEW e \in Event, Put(e) PROVE TypeOK'
    BY <2>6 DEF Put
  <2>7. ASSUME NEW e \in Event, Purge(e) PROVE TypeOK'
    BY <2>7 DEF Purge, memory
  <2>8. CASE Take
    BY <2>8 DEF Take
  <2>9. CASE BeginRun
    BY <2>9 DEF BeginRun
  <2>10. CASE RefuseRun
    BY <2>10 DEF RefuseRun
  <2>11. ASSUME NEW verdict \in Verdict, SettleRun(verdict) PROVE TypeOK'
    BY <2>11 DEF SettleRun, Verdict
  <2>12. CASE LoseRun
    BY <2>12 DEF LoseRun
  <2>13. CASE Release
    BY <2>13 DEF Release
  <2>14. CASE RetryDone
    BY <2>14 DEF RetryDone
  <2>15. CASE Timeout
    BY <2>15 DEF Timeout
  <2>16. ASSUME NEW e \in Event, Rehydrate(e) PROVE TypeOK'
    BY <2>16 DEF Rehydrate
  <2>17. CASE RehydrateDone
    BY <2>17 DEF RehydrateDone
  <2>18. CASE Start
    BY <2>18 DEF Start
  <2>19. CASE Crash
    BY <2>19 DEF Crash
  <2>20. CASE UNCHANGED queueVars
    BY <2>20 DEF queueVars
  <2> QED
    BY <2>1, <2>2, <2>3, <2>4, <2>5, <2>6, <2>7, <2>8, <2>9, <2>10, <2>11,
       <2>12, <2>13, <2>14, <2>15, <2>16, <2>17, <2>18, <2>19, <2>20
       DEF QueueNext, WorkerStep, ThreadStep
<1> QED
  BY <1>1, <1>2, PTL DEF QueueSpec

-----------------------------------------------------------------------------
(* The claim discipline and the restart discipline hold together: start()  *)
(* may clear _pending only because a dead process left nothing in it.      *)
ClaimIInv == TypeOK /\ ClaimInv /\ RestartInv

LEMMA EmptyQueue ==
  ASSUME NEW S
  PROVE  <<>> \in Seq(S) /\ Range(<<>>) = {} /\ IsInjective(<<>>)
  BY DEF Range, IsInjective

(* A claim on an id that is on its way to the queue's end.                 *)
LEMMA ClaimAtEnd ==
  ASSUME TypeOK, ClaimInv, NEW e \in Event, e \notin pending,
         pending' = pending \cup {e}, queue' = Append(queue, e),
         UNCHANGED <<soon, worker, cur>>
  PROVE  ClaimInv'
<1>1. e \notin Range(queue) /\ e \notin soon /\ e # cur
  BY QueueAssumption DEF ClaimInv, ClaimsAreExact, InHand
<1>2. Range(queue') = Range(queue) \cup {e}
  BY AppendRange DEF TypeOK
<1>3. IsInjective(queue')
  BY <1>1, AppendInjective DEF TypeOK, ClaimInv, ClaimedOnce
<1> QED
  BY <1>1, <1>2, <1>3
     DEF ClaimInv, ClaimsAreExact, ClaimedOnce, HandMatchesState, InHand

LEMMA ClaimInit == QueueInit => ClaimIInv
<1> SUFFICES ASSUME QueueInit PROVE ClaimIInv
  OBVIOUS
<1>1. TypeOK
  BY QueueAssumption DEF QueueInit, TypeOK, Status, WorkerState
<1>2. Range(queue) = {} /\ IsInjective(queue)
  BY EmptyQueue DEF QueueInit
<1> QED
  BY <1>1, <1>2 DEF ClaimIInv, QueueInit, ClaimInv, ClaimsAreExact, ClaimedOnce,
     HandMatchesState, InHand, RestartInv

LEMMA ClaimStep == ClaimIInv /\ TypeOK' /\ [QueueNext]_queueVars => (ClaimInv /\ RestartInv)'
<1> SUFFICES ASSUME ClaimIInv, TypeOK', [QueueNext]_queueVars
             PROVE  ClaimInv' /\ RestartInv'
  OBVIOUS
<1> USE QueueAssumption DEF ClaimIInv
<1> DEFINE Kept == /\ UNCHANGED <<queue, pending, soon, cur>>
                   /\ HandMatchesState'
<1>1. ASSUME Kept PROVE ClaimInv'
  BY <1>1 DEF ClaimInv, ClaimsAreExact, ClaimedOnce, InHand
<1>2. ASSUME Serving, Serving' PROVE RestartInv'
  BY <1>2 DEF Serving, RestartInv
<1>3. ASSUME UNCHANGED <<memory, crashes>>, Serving PROVE ClaimInv' /\ RestartInv'
  <2>1. Kept /\ Serving'
    BY <1>3 DEF memory, Serving, ClaimInv, HandMatchesState
  <2> QED
    BY <1>1, <1>2, <1>3, <2>1
<1>4. ASSUME NEW p \in Producer, Enqueue(p) PROVE ClaimInv' /\ RestartInv'
  <2>1. RestartInv'
    BY <1>2, <1>4 DEF Enqueue, Serving
  <2>2. CASE holding[p] \in pending
    BY <1>1, <1>4, <2>1, <2>2 DEF Enqueue, ClaimInv, HandMatchesState
  <2>3. CASE holding[p] \notin pending
    BY <1>4, <2>1, <2>3 DEF Enqueue, TypeOK, ClaimInv, ClaimsAreExact, ClaimedOnce,
       HandMatchesState, InHand
  <2> QED
    BY <2>2, <2>3
<1>5. ASSUME NEW e \in Event, NEW others \in SUBSET FileEvent, Webhook(e, others)
      PROVE  ClaimInv' /\ RestartInv'
  <2>1. RestartInv'
    BY <1>2, <1>5 DEF Webhook, LoopIsFree, Serving
  <2>2. CASE e \in pending
    BY <1>1, <1>5, <2>1, <2>2 DEF Webhook, ClaimInv, HandMatchesState
  <2>3. CASE e \notin pending
    BY <1>5, <2>1, <2>3, ClaimAtEnd DEF Webhook
  <2> QED
    BY <2>2, <2>3
<1>6. ASSUME NEW e \in Event, Put(e) PROVE ClaimInv' /\ RestartInv'
  <2>1. RestartInv'
    BY <1>2, <1>6 DEF Put, LoopIsFree, Serving
  <2>2. e \notin Range(queue) /\ e # cur
    BY <1>6 DEF Put, ClaimInv, ClaimedOnce
  <2>3. Range(queue') = Range(queue) \cup {e} /\ IsInjective(queue')
    BY <1>6, <2>2, AppendRange, AppendInjective DEF Put, TypeOK, ClaimInv, ClaimedOnce
  <2> QED
    BY <1>6, <2>1, <2>2, <2>3 DEF Put, ClaimInv, ClaimsAreExact, ClaimedOnce,
       HandMatchesState, InHand
<1>7. CASE Take
  <2>1. RestartInv'
    BY <1>2, <1>7 DEF Take, Serving
  <2>2. /\ Head(queue) \in Event
        /\ IsInjective(Tail(queue))
        /\ Range(queue) = {Head(queue)} \cup Range(Tail(queue))
        /\ Head(queue) \notin Range(Tail(queue))
    BY <1>7, TakeHead DEF Take, TypeOK, ClaimInv, ClaimedOnce
  <2>3. cur = NoEvent /\ cur' \in Event
    BY <1>7, <2>2 DEF Take, ClaimInv, HandMatchesState
  <2> QED
    BY <1>7, <2>1, <2>2, <2>3 DEF Take, ClaimInv, ClaimsAreExact, ClaimedOnce,
       HandMatchesState, InHand
<1>8. CASE BeginRun
  BY <1>1, <1>2, <1>8 DEF BeginRun, Serving, ClaimInv, HandMatchesState
<1>9. CASE RefuseRun
  BY <1>1, <1>2, <1>9 DEF RefuseRun, Serving, ClaimInv, HandMatchesState
<1>10. ASSUME NEW verdict \in Verdict, SettleRun(verdict) PROVE ClaimInv' /\ RestartInv'
  BY <1>1, <1>2, <1>10 DEF SettleRun, Serving, ClaimInv, HandMatchesState
<1>11. CASE LoseRun
  BY <1>1, <1>2, <1>11 DEF LoseRun, Serving, ClaimInv, HandMatchesState
<1>12. CASE Release
  <2>1. RestartInv'
    BY <1>2, <1>12 DEF Release, Serving
  <2> QED
    BY <1>12, <2>1 DEF Release, TypeOK, ClaimInv, ClaimsAreExact, ClaimedOnce,
       HandMatchesState, InHand
<1>13. CASE RetryDone
  BY <1>1, <1>2, <1>13 DEF RetryDone, Serving, ClaimInv, HandMatchesState
<1>14. CASE Timeout
  BY <1>1, <1>2, <1>14 DEF Timeout, Serving, ClaimInv, HandMatchesState
<1>15. ASSUME NEW e \in Event, Rehydrate(e) PROVE ClaimInv' /\ RestartInv'
  <2>1. RestartInv'
    BY <1>15 DEF Rehydrate, RestartInv, RowsIn
  <2>2. CASE e \in pending
    BY <1>1, <1>15, <2>1, <2>2 DEF Rehydrate, ClaimInv, HandMatchesState
  <2>3. CASE e \notin pending
    BY <1>15, <2>1, <2>3, ClaimAtEnd DEF Rehydrate
  <2> QED
    BY <2>2, <2>3
<1>16. CASE RehydrateDone
  <2>1. ClaimInv'
    BY <1>1, <1>16 DEF RehydrateDone, ClaimInv, HandMatchesState
  <2>2. RestartInv'
    BY <1>16 DEF RehydrateDone, RestartInv
  <2> QED
    BY <2>1, <2>2
<1>17. CASE Start
  <2>1. pending = {} /\ soon = {} /\ cur = NoEvent
    BY <1>17 DEF Start, RestartInv, ClaimInv, ClaimsAreExact, HandMatchesState
  <2>2. RestartInv'
    BY <1>17, <2>1 DEF Start, RestartInv, RowsIn
  <2> QED
    BY <1>17, <2>1, <2>2, EmptyQueue DEF Start, ClaimInv, ClaimsAreExact, ClaimedOnce,
       HandMatchesState, InHand
<1>18. CASE Crash
  BY <1>18, EmptyQueue DEF Crash, ClaimInv, ClaimsAreExact, ClaimedOnce,
     HandMatchesState, InHand, RestartInv
<1>19. CASE UNCHANGED queueVars
  BY <1>19 DEF queueVars, ClaimInv, ClaimsAreExact, ClaimedOnce, HandMatchesState, InHand,
     RestartInv, RowsIn
<1> QED
  BY <1>3, <1>4, <1>5, <1>6, <1>7, <1>8, <1>9, <1>10, <1>11, <1>12, <1>13, <1>14,
     <1>15, <1>16, <1>17, <1>18, <1>19
     DEF QueueNext, WorkerStep, ThreadStep, Submit, Resubmit, RecordDuplicate, Purge

LEMMA ClaimIndInv == QueueSpec => []ClaimIInv
<1>1. ClaimIInv /\ TypeOK' /\ [QueueNext]_queueVars => ClaimIInv'
  BY ClaimStep DEF ClaimIInv
<1> QED
  BY ClaimInit, Typing, <1>1, PTL DEF QueueSpec

(* _pending holds exactly the ids under way, each in one place and once.   *)
THEOREM Claims == QueueSpec => []ClaimInv
  BY ClaimIndInv, PTL DEF ClaimIInv

(* Nothing of a dead process is left, and start() loses nothing it read.   *)
THEOREM Restarts == QueueSpec => []RestartInv
  BY ClaimIndInv, PTL DEF ClaimIInv

(* A restart claims every row that says "queued" or "processing".          *)
THEOREM Recovery == QueueSpec => RecoveredAll
<1>1. ClaimIInv /\ [QueueNext]_queueVars
        => [worker = "starting" /\ worker' = "idle"
              => RowsIn({"queued", "processing"}) = pending']_queueVars
  <2> SUFFICES ASSUME ClaimIInv, QueueNext, worker = "starting", worker' = "idle"
               PROVE  RowsIn({"queued", "processing"}) = pending'
    OBVIOUS
  <2>1. RehydrateDone
    BY DEF QueueNext, WorkerStep, ThreadStep, Submit, Resubmit, RecordDuplicate, Purge,
       Enqueue, Webhook, Put, LoopIsFree, Serving, Take, BeginRun, RefuseRun, LoseRun,
       Release, RetryDone, SettleRun, Timeout, Rehydrate, Start, Crash
  <2> QED
    BY <2>1 DEF RehydrateDone, ClaimIInv, RestartInv
<1> QED
  BY ClaimIndInv, <1>1, PTL DEF QueueSpec, RecoveredAll

-----------------------------------------------------------------------------
(* The queue implements the serial ledger: only BeginRun puts an event in  *)
(* hand, only the end of that run or a crash takes it out, and every other *)
(* change of the table is an arrival or a deletion.                        *)
InHandNow == IF worker = "running" THEN cur ELSE NoEvent

LEMMA LedgerStep ==
  ASSUME ClaimIInv, [QueueNext]_queueVars
  PROVE  [Ledger!Next]_<<event, InHandNow>>
<1> USE DEF ClaimIInv, TypeOK, InHandNow
<1> DEFINE Goal == [Ledger!Next]_<<event, InHandNow>>
<1>1. ASSUME NEW e \in Event, NEW others \in SUBSET FileEvent,
             UNCHANGED <<worker, cur>>,
             \/ others = {} /\ event' = [event EXCEPT ![e] = "queued"]
             \/ Reuse(e, others)
      PROVE  Goal
  <2>1. e \notin others /\ others \in SUBSET Event
    BY <1>1, QueueAssumption DEF Reuse
  <2>2. event' = [x \in Event |-> CASE x = e -> "queued"
                                   [] x \in others -> "absent"
                                   [] OTHER -> event[x]]
    BY <1>1, <2>1 DEF Reuse
  <2>3. Ledger!Accept(e, others)
    BY <1>1, <2>1, <2>2 DEF Ledger!Accept
  <2> QED
    BY <2>1, <2>3 DEF Ledger!Next
<1>2. ASSUME NEW e \in Event, RecordDuplicate(e) PROVE Goal
  BY <1>2 DEF RecordDuplicate, memory, Ledger!Next, Ledger!Record
<1>3. ASSUME NEW e \in Event, Purge(e) PROVE Goal
  BY <1>3 DEF Purge, memory, Ledger!Next, Ledger!Discard
<1>4. CASE BeginRun
  <2>1. cur \in Event
    BY <1>4 DEF BeginRun, ClaimInv, HandMatchesState
  <2> QED
    BY <1>4, <2>1 DEF BeginRun, Ledger!Next, Ledger!Begin
<1>5. ASSUME NEW verdict \in Verdict, SettleRun(verdict) PROVE Goal
  <2>1. cur \in Event /\ cur # NoEvent
    BY <1>5, QueueAssumption DEF SettleRun, ClaimInv, HandMatchesState
  <2> QED
    BY <1>5, <2>1 DEF SettleRun, Verdict, Settled, Ledger!Next, Ledger!Settle, Ledger!Settled
<1>6. ASSUME worker = "running", worker' # "running", UNCHANGED event PROVE Goal
  <2>1. cur # NoEvent
    BY <1>6, QueueAssumption DEF ClaimInv, HandMatchesState
  <2> QED
    BY <1>6, <2>1 DEF Ledger!Next, Ledger!Abandon
<1>7. ASSUME worker # "running", worker' # "running", UNCHANGED event PROVE Goal
  BY <1>7
<1>8. ASSUME UNCHANGED <<event, worker, cur>> PROVE Goal
  BY <1>8
<1>9. CASE WorkerStep
  BY <1>4, <1>5, <1>6, <1>7, <1>9 DEF WorkerStep, Take, RefuseRun, LoseRun, Release,
     RetryDone, Timeout, RehydrateDone, Rehydrate
<1>10. CASE ThreadStep
  <2>1. ASSUME NEW p \in Producer, NEW e \in Event, Submit(p, e) PROVE Goal
    <3>1. {} \in SUBSET FileEvent
      OBVIOUS
    <3> QED
      BY <1>1, <2>1, <3>1 DEF Submit, memory
  <2>2. ASSUME NEW e \in Event, NEW others \in SUBSET FileEvent,
               Webhook(e, others) \/ \E p \in Producer : Resubmit(p, e, others)
        PROVE  Goal
    BY <1>1, <2>2 DEF Webhook, Resubmit, memory
  <2>3. ASSUME NEW p \in Producer, Enqueue(p) PROVE Goal
    BY <1>8, <2>3 DEF Enqueue
  <2> QED
    BY <1>2, <1>3, <1>10, <2>1, <2>2, <2>3 DEF ThreadStep
<1>11. CASE \E e \in Event : Put(e)
  BY <1>8, <1>11 DEF Put
<1>12. CASE Start \/ Crash
  BY <1>6, <1>7, <1>12 DEF Start, Crash
<1>13. CASE UNCHANGED queueVars
  BY <1>8, <1>13 DEF queueVars
<1> QED
  BY <1>9, <1>10, <1>11, <1>12, <1>13 DEF QueueNext

THEOREM Refinement == QueueSpec => RefinesLedger
<1>1. QueueInit => Ledger!Init
  BY DEF QueueInit, Ledger!Init
<1>2. ClaimIInv /\ [QueueNext]_queueVars => [Ledger!Next]_<<event, InHandNow>>
  BY LedgerStep
<1> QED
  BY <1>1, <1>2, ClaimIndInv, PTL
     DEF QueueSpec, RefinesLedger, Ledger!Spec, Ledger!ledger, InHandNow

-----------------------------------------------------------------------------
(* The id at place i stays there, moves up by one or is taken in hand.     *)
MovesUp(i) == \/ i \in DOMAIN queue' /\ queue'[i] = queue[i]
              \/ i - 1 \in DOMAIN queue' /\ queue'[i - 1] = queue[i]
              \/ i = 1 /\ cur' = queue[i]

(* What PendingIsServed and QueuedIsTaken rest on, step by step: for as    *)
(* long as the process lives nothing gets past an id in the queue, none is *)
(* lost on its way there, a claim is given up only when its id was in hand *)
(* and its run is over, and an idle worker turns to the queue first.       *)
InTurn ==
  worker' # "down" =>
    /\ \A i \in DOMAIN queue : MovesUp(i)
    /\ soon \subseteq soon' \cup Range(queue')
    /\ \A e \in pending \ pending' : worker = "releasing" /\ cur = e
    /\ worker = "idle" /\ queue # <<>> /\ worker' # "idle" => cur' = Head(queue)

LEMMA StaysInPlace ==
  ASSUME TypeOK, UNCHANGED queue
  PROVE  (\A i \in DOMAIN queue : MovesUp(i)) /\ Range(queue') = Range(queue)
BY DEF MovesUp

LEMMA LinesUp ==
  ASSUME TypeOK, NEW e \in Event, queue' = Append(queue, e)
  PROVE  (\A i \in DOMAIN queue : MovesUp(i)) /\ Range(queue') = Range(queue) \cup {e}
<1>1. Range(queue') = Range(queue) \cup {e}
  BY AppendRange DEF TypeOK
<1>2. \A i \in DOMAIN queue : i \in DOMAIN queue' /\ queue'[i] = queue[i]
  BY DEF TypeOK
<1> QED
  BY <1>1, <1>2 DEF MovesUp

LEMMA FirstLeaves ==
  ASSUME TypeOK, queue # <<>>, queue' = Tail(queue), cur' = Head(queue)
  PROVE  \A i \in DOMAIN queue : MovesUp(i)
<1> SUFFICES ASSUME NEW i \in DOMAIN queue, i # 1
             PROVE  i - 1 \in DOMAIN queue' /\ queue'[i - 1] = queue[i]
  BY DEF MovesUp, TypeOK
<1> QED
  BY DEF TypeOK

LEMMA InTurnStep == ClaimIInv /\ QueueNext => InTurn
<1> SUFFICES ASSUME ClaimIInv, QueueNext, worker' # "down" PROVE InTurn
  BY DEF InTurn
<1>0. TypeOK /\ ClaimInv /\ RestartInv
  BY DEF ClaimIInv
<1>1. ASSUME NEW e \in Event,
             \/ e \in pending /\ UNCHANGED <<pending, queue>>
             \/ pending' = pending \cup {e} /\ queue' = Append(queue, e),
             UNCHANGED <<soon, worker, cur>>
      PROVE  InTurn
  BY <1>0, <1>1, StaysInPlace, LinesUp DEF InTurn
<1>2. ASSUME NEW e \in Event, Put(e) PROVE InTurn
  BY <1>0, <1>2, LinesUp DEF InTurn, Put
<1>3. CASE Take
  <2>1. soon \subseteq soon' \cup Range(queue') /\ pending' = pending
    BY <1>3 DEF Take
  <2>2. \A i \in DOMAIN queue : MovesUp(i)
    BY <1>0, <1>3, FirstLeaves DEF Take
  <2> QED
    BY <1>3, <2>1, <2>2 DEF InTurn, Take
<1>4. CASE Start
  <2>1. pending = {} /\ Range(queue) = {} /\ soon = {}
    BY <1>0, <1>4 DEF Start, RestartInv, ClaimInv, ClaimsAreExact
  <2>2. queue = <<>>
    <3>1. queue # <<>> => 1 \in DOMAIN queue
      BY <1>0 DEF TypeOK
    <3> QED
      BY <2>1, <3>1 DEF Range
  <2> QED
    BY <1>4, <2>1, <2>2 DEF InTurn, Start
<1>5. ASSUME UNCHANGED queue, soon \subseteq soon',
             \A e \in pending \ pending' : worker = "releasing" /\ cur = e,
             worker = "idle" /\ queue # <<>> => worker' = "idle"
      PROVE  InTurn
  BY <1>0, <1>5, StaysInPlace DEF InTurn
<1>6. ASSUME NEW p \in Producer,
             \/ Enqueue(p)
             \/ \E e \in Event : Submit(p, e)
             \/ \E e \in Event, others \in SUBSET FileEvent : Resubmit(p, e, others)
      PROVE  InTurn
  BY <1>5, <1>6 DEF Enqueue, Submit, Resubmit, memory
<1>7. ASSUME NEW e \in Event, RecordDuplicate(e) \/ Purge(e) PROVE InTurn
  BY <1>5, <1>7 DEF RecordDuplicate, Purge, memory
<1>8. ASSUME NEW e \in Event, NEW others \in SUBSET FileEvent, Webhook(e, others)
      PROVE  InTurn
  BY <1>1, <1>8 DEF Webhook
<1>9. CASE WorkerStep
  <2>1. ASSUME NEW e \in Event, Rehydrate(e) PROVE InTurn
    BY <1>1, <2>1 DEF Rehydrate
  <2>2. CASE BeginRun \/ RefuseRun \/ LoseRun \/ RetryDone \/ RehydrateDone
    BY <1>5, <2>2 DEF BeginRun, RefuseRun, LoseRun, RetryDone, RehydrateDone
  <2>3. ASSUME NEW verdict \in Verdict, SettleRun(verdict) PROVE InTurn
    BY <1>5, <2>3 DEF SettleRun
  <2>4. CASE Release \/ Timeout
    BY <1>5, <2>4 DEF Release, Timeout
  <2> QED
    BY <1>3, <1>9, <2>1, <2>2, <2>3, <2>4 DEF WorkerStep
<1>10. CASE Crash
  BY <1>10 DEF Crash
<1>11. CASE ThreadStep
  BY <1>6, <1>7, <1>8, <1>11 DEF ThreadStep
<1> QED
  BY <1>2, <1>4, <1>9, <1>10, <1>11 DEF QueueNext

(* No id is overtaken, forgotten on its way or released unserved, however  *)
(* many threads, callbacks and rehydrations put ids in the queue.          *)
THEOREM ServedInTurn == QueueSpec => [][InTurn]_queueVars
<1>1. ClaimIInv /\ [QueueNext]_queueVars => [InTurn]_queueVars
  BY InTurnStep
<1> QED
  BY <1>1, ClaimIndInv, PTL DEF QueueSpec
=============================================================================
