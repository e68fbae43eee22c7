-------------------------- MODULE Ticketing_proofs --------------------------
(***************************************************************************)
(* An issue that was opened has its row, or the history says how the row   *)
(* was lost; it is not opened again.                                       *)
(***************************************************************************)
EXTENDS Ticketing, TLAPS

USE DEF Kind

(* Where the call stands, it is at an enabled provider; mail goes to owners*)
(* from the mail provider only; between two calls nothing waits for a      *)
(* commit.                                                                 *)
AtClient ==
  /\ pc \in {"owner", "mailing", "hunt"} => client \in clients \ left
  /\ pc = "mailing" => client = "email"
  /\ pc = "owner" => client # "email"
  /\ pc = "idle" => added = {}

(* What was added so far is of the providers already passed, or of the one *)
(* the call is at and of the kinds it is done with.                        *)
InOrder ==
  \A i \in added :
    /\ i.provider \notin left
    /\ i.provider = client =>
         /\ pc # "owner"
         /\ pc = "mailing" => i.kind = "owner" /\ i.to \notin mail
         /\ pc = "hunt" => i.kind = "owner"

TypeInv == TicketTypeOK /\ AtClient

LEMMA TypeInit == Init => TypeInv
<1> SUFFICES ASSUME Init PROVE TypeInv
  OBVIOUS
<1>1. opened \in [Issue -> 0..MaxOpened]
  BY TicketingAssumption DEF Init
<1>2. retry \in BOOLEAN /\ bounced \in BOOLEAN /\ posted \in BOOLEAN /\ got \in BOOLEAN
  BY Zenon DEF Init
<1> QED
  BY <1>1, <1>2 DEF Init, TypeInv, TicketTypeOK, AtClient

LEMMA IssueType ==
  ASSUME TypeInv, pc \in {"owner", "mailing", "hunt"}
  PROVE  /\ \A k \in Kind : IssueFor(k, NoOne) \in Issue
         /\ pc = "mailing" => \A o \in Owner : IssueFor("owner", o) \in Issue
  BY DEF TypeInv, TicketTypeOK, AtClient, IssueFor, Issue

(* However a failed call ends, its frame goes and rows stay issues.        *)
LEMMA FailType ==
  ASSUME TypeInv, NEW lost \in SUBSET Issue, Fail(lost), opened' \in [Issue -> 0..MaxOpened]
  PROVE  TypeInv'
<1>1. retry' \in BOOLEAN /\ bounced' \in BOOLEAN /\ posted' \in BOOLEAN /\ got' \in BOOLEAN
  BY Zenon DEF Fail, Return
<1>2. rows' \subseteq Issue /\ forgot' \subseteq Issue
  <2>1. CASE retry
    BY <2>1 DEF Fail, TypeInv, TicketTypeOK, WereOpened
  <2>2. CASE ~retry
    BY <2>2 DEF Fail, TypeInv, TicketTypeOK
  <2> QED
    BY <2>1, <2>2
<1> QED
  BY <1>1, <1>2 DEF Fail, Return, TypeInv, TicketTypeOK, AtClient

LEMMA TypeStep == TypeInv /\ [Next]_vars => TypeInv'
<1> SUFFICES ASSUME TypeInv, [Next]_vars PROVE TypeInv'
  OBVIOUS
<1> USE TicketingAssumption DEF TypeInv, TicketTypeOK, AtClient
<1>1. ASSUME NEW again \in BOOLEAN, NEW on \in SUBSET Provider, NEW to \in SUBSET Owner,
             NEW configured \in SUBSET on, Begin(again, on, configured, to)
      PROVE  TypeInv'
  BY <1>1 DEF Begin
<1>2. CASE NextClient
  BY <1>2 DEF NextClient, InTurn
<1>3. CASE OpenOwner
  <2>1. IssueFor("owner", NoOne) \in Issue
    BY <1>3, IssueType DEF OpenOwner
  <2> QED
    BY <1>3, <2>1 DEF OpenOwner, Open
<1>4. CASE OwnerExists
  BY <1>4 DEF OwnerExists, frame
<1>5. CASE MailsDone
  BY <1>5 DEF MailsDone, frame
<1>6. ASSUME NEW o \in Owner, MailOwner(o) PROVE TypeInv'
  <2>1. IssueFor("owner", o) \in Issue
    BY <1>6, IssueType DEF MailOwner
  <2> QED
    BY <1>6, <2>1 DEF MailOwner, Open
<1>7. ASSUME NEW o \in Owner, MailBounces(o) PROVE TypeInv'
  <2>1. IssueFor("owner", o) \in Issue
    BY <1>7, IssueType DEF MailBounces
  <2> QED
    BY <1>7, <2>1 DEF MailBounces, Attempt
<1>8. CASE OpenHunt
  <2>1. IssueFor("hunt", NoOne) \in Issue
    BY <1>8, IssueType DEF OpenHunt
  <2> QED
    BY <1>8, <2>1 DEF OpenHunt, Open
<1>9. CASE HuntSkipped
  BY <1>9 DEF HuntSkipped, frame
<1>10. CASE HuntFails
  <2>1. IssueFor("hunt", NoOne) \in Issue
    BY <1>10, IssueType DEF HuntFails
  <2> QED
    BY <1>10, <2>1 DEF HuntFails, Attempt, frame
<1>11. CASE Finish
  BY <1>11 DEF Finish, Return
<1>12. CASE OwnerRaises
  <2>1. IssueFor("owner", NoOne) \in Issue
    BY <1>12, IssueType DEF OwnerRaises
  <2>2. \E lost \in SUBSET Issue : Fail(lost) /\ opened' \in [Issue -> 0..MaxOpened]
    BY <1>12, <2>1 DEF OwnerRaises, CallRaises
  <2> QED
    BY <2>2, FailType
<1>13. CASE HuntRaises
  <2>1. IssueFor("hunt", NoOne) \in Issue
    BY <1>13, IssueType DEF HuntRaises
  <2>2. \E lost \in SUBSET Issue : Fail(lost) /\ opened' \in [Issue -> 0..MaxOpened]
    BY <1>13, <2>1 DEF HuntRaises, CallRaises
  <2> QED
    BY <2>2, FailType
<1>14. CASE MailsRaise
  BY <1>14, FailType DEF MailsRaise
<1>15. CASE Crash
  BY <1>15 DEF Crash, Return, WereOpened
<1>16. CASE Delete
  BY <1>16 DEF Delete, frame
<1>17. CASE UNCHANGED vars
  BY <1>17 DEF vars, frame
<1> QED
  BY <1>1, <1>2, <1>3, <1>4, <1>5, <1>6, <1>7, <1>8, <1>9, <1>10, <1>11, <1>12, <1>13,
     <1>14, <1>15, <1>16, <1>17 DEF Next, Calls

LEMMA TypeAlways == Spec => []TypeInv
  BY TypeInit, TypeStep, PTL DEF Spec

(* Every variable of take_action keeps its type, whichever providers fail. *)
THEOREM TicketTyping == Spec => []TicketTypeOK
  BY TypeAlways, PTL DEF TypeInv
-----------------------------------------------------------------------------
(* A call that fails has put down what it opened and did not record.       *)
LEMMA FailTracks ==
  ASSUME TypeInv, Tracked, NEW lost \in SUBSET Issue, Fail(lost),
         \A i \in Issue : opened'[i] > 0 => opened[i] > 0 \/ i \in lost
  PROVE  Tracked'
<1>1. CASE retry
  BY <1>1 DEF Fail, Tracked, WereOpened, TypeInv, TicketTypeOK
<1>2. CASE ~retry
  BY <1>2 DEF Fail, Tracked, TypeInv, TicketTypeOK
<1> QED
  BY <1>1, <1>2

LEMMA TrackedStep == TypeInv /\ Tracked /\ [Next]_vars => Tracked'
<1> SUFFICES ASSUME TypeInv, Tracked, [Next]_vars PROVE Tracked'
  OBVIOUS
<1> USE DEF TypeInv, TicketTypeOK, Tracked
<1>1. ASSUME NEW again \in BOOLEAN, NEW on \in SUBSET Provider, NEW to \in SUBSET Owner,
             NEW configured \in SUBSET on, Begin(again, on, configured, to)
      PROVE  Tracked'
  BY <1>1 DEF Begin
<1>2. CASE NextClient
  BY <1>2 DEF NextClient
<1>3. CASE OpenOwner
  BY <1>3 DEF OpenOwner, Open
<1>4. CASE OwnerExists
  BY <1>4 DEF OwnerExists, frame
<1>5. CASE MailsDone
  BY <1>5 DEF MailsDone, frame
<1>6. ASSUME NEW o \in Owner, MailOwner(o) PROVE Tracked'
  BY <1>6 DEF MailOwner, Open
<1>7. ASSUME NEW o \in Owner, MailBounces(o) PROVE Tracked'
  BY <1>7 DEF MailBounces, Attempt
<1>8. CASE OpenHunt
  BY <1>8 DEF OpenHunt, Open
<1>9. CASE HuntSkipped
  BY <1>9 DEF HuntSkipped, frame
<1>10. CASE HuntFails
  BY <1>10 DEF HuntFails, Attempt, frame
<1>11. CASE Finish
  BY <1>11 DEF Finish, Return
<1>12. ASSUME NEW i \in Issue, CallRaises(i) PROVE Tracked'
  <2>1. CASE UNCHANGED opened /\ Fail({})
    BY <2>1, FailTracks
  <2>2. CASE opened' = [opened EXCEPT ![i] = @ + 1] /\ Fail({i})
    BY <2>2, FailTracks
  <2> QED
    BY <1>12, <2>1, <2>2 DEF CallRaises
<1>13. CASE OwnerRaises
  BY <1>12, <1>13, IssueType DEF OwnerRaises
<1>14. CASE HuntRaises
  BY <1>12, <1>14, IssueType DEF HuntRaises
<1>15. CASE MailsRaise
  BY <1>15, FailTracks DEF MailsRaise
<1>16. CASE Crash
  BY <1>16 DEF Crash, Return, WereOpened
<1>17. CASE Delete
  BY <1>17 DEF Delete, frame
<1>18. CASE UNCHANGED vars
  BY <1>18 DEF vars, frame
<1> QED
  BY <1>1, <1>2, <1>3, <1>4, <1>5, <1>6, <1>7, <1>8, <1>9, <1>10, <1>11, <1>13, <1>14,
     <1>15, <1>16, <1>17, <1>18 DEF Next, Calls

(* Errors, crashes and rollbacks included, no opened issue goes unrecorded *)
(* but in the ways "forgot" names.                                         *)
THEOREM Tracking == Spec => []Tracked
<1>1. Init => Tracked
  BY TicketingAssumption DEF Init, Tracked
<1> QED
  BY <1>1, TypeAlways, TrackedStep, PTL DEF Spec

-----------------------------------------------------------------------------
LEMMA InOrderStep == TypeInv /\ InOrder /\ [Next]_vars => InOrder'
<1> SUFFICES ASSUME TypeInv, InOrder, [Next]_vars PROVE InOrder'
  OBVIOUS
<1> USE DEF InOrder
<1>1. ASSUME NEW again \in BOOLEAN, NEW on \in SUBSET Provider, NEW to \in SUBSET Owner,
             NEW configured \in SUBSET on, Begin(again, on, configured, to)
      PROVE  InOrder'
  BY <1>1 DEF Begin, TypeInv, AtClient
<1>2. CASE NextClient
  BY <1>2 DEF NextClient, InTurn
<1>3. CASE OpenOwner
  BY <1>3 DEF OpenOwner, Open, IssueFor, TypeInv, AtClient
<1>4. CASE OwnerExists
  BY <1>4 DEF OwnerExists, frame
<1>5. CASE MailsDone
  BY <1>5 DEF MailsDone, frame
<1>6. ASSUME NEW o \in Owner, MailOwner(o) PROVE InOrder'
  BY <1>6 DEF MailOwner, Open, IssueFor, TypeInv, AtClient
<1>7. ASSUME NEW o \in Owner, MailBounces(o) PROVE InOrder'
  BY <1>7 DEF MailBounces
<1>8. CASE OpenHunt
  BY <1>8 DEF OpenHunt, Open, IssueFor, TypeInv, AtClient
<1>9. CASE HuntSkipped
  BY <1>9 DEF HuntSkipped, frame
<1>10. CASE HuntFails
  BY <1>10 DEF HuntFails, frame
<1>11. CASE Return
  BY <1>11 DEF Return
<1>12. CASE Delete
  BY <1>12 DEF Delete, frame
<1>13. CASE UNCHANGED vars
  BY <1>13 DEF vars, frame
<1> QED
  BY <1>1, <1>2, <1>3, <1>4, <1>5, <1>6, <1>7, <1>8, <1>9, <1>10, <1>11, <1>12, <1>13
     DEF Next, Calls, Finish, OwnerRaises, HuntRaises, MailsRaise, Crash, CallRaises, Fail

(* What take_action is about to open, for any provider but the internal    *)
(* CRM, has no row and none is coming.                                     *)
LEMMA Unrecorded ==
  ASSUME TypeInv, InOrder, client # "custom"
  PROVE  /\ pc = "owner" /\ ~Has(client, "owner") => IssueFor("owner", NoOne) \notin rows \cup added
         /\ pc = "hunt" /\ ~Has(client, "hunt") => IssueFor("hunt", NoOne) \notin rows \cup added
         /\ \A o \in mail \ Mailed :
              pc = "mailing" => IssueFor("owner", o) \notin rows \cup added
<1>1. \A k \in Kind : \A to : IssueFor(k, to) \in rows => Has(client, k)
  BY DEF IssueFor, Has, Channel
<1>2. \A o : pc = "mailing" /\ IssueFor("owner", o) \in rows => o \in Mailed
  BY DEF IssueFor, Mailed, Channel, TypeInv, AtClient
<1> QED
  BY <1>1, <1>2 DEF InOrder, IssueFor

LEMMA TwiceStep ==
  TypeInv /\ Tracked /\ InOrder /\ NotOpenedTwice /\ [Next]_vars => NotOpenedTwice'
<1> SUFFICES ASSUME TypeInv, Tracked, InOrder, NotOpenedTwice, [Next]_vars
             PROVE  NotOpenedTwice'
  OBVIOUS
<1>1. ASSUME NEW i \in Issue, Open(i), forgot' = forgot, client = i.provider,
             i.provider # "custom" => i \notin rows \cup added
      PROVE  NotOpenedTwice'
  BY <1>1 DEF Open, NotOpenedTwice, Tracked, TypeInv, TicketTypeOK
<1>2. ASSUME NEW i \in Issue, Attempt(i) PROVE NotOpenedTwice'
  BY <1>2 DEF Attempt, NotOpenedTwice, TypeInv, TicketTypeOK
<1>3. ASSUME NEW lost \in SUBSET Issue, Fail(lost) PROVE forgot \cup lost \subseteq forgot'
  BY <1>3 DEF Fail
<1>4. ASSUME NEW i \in Issue, CallRaises(i) PROVE NotOpenedTwice'
  BY <1>3, <1>4 DEF CallRaises, NotOpenedTwice, TypeInv, TicketTypeOK
<1>5. ASSUME UNCHANGED opened, forgot \subseteq forgot' PROVE NotOpenedTwice'
  BY <1>5 DEF NotOpenedTwice
<1>6. CASE OpenOwner
  BY <1>1, <1>6, IssueType, Unrecorded DEF OpenOwner, IssueFor
<1>7. CASE OpenHunt
  BY <1>1, <1>7, IssueType, Unrecorded DEF OpenHunt, IssueFor
<1>8. ASSUME NEW o \in Owner, MailOwner(o) PROVE NotOpenedTwice'
  BY <1>1, <1>8, IssueType, Unrecorded DEF MailOwner, IssueFor
<1>9. ASSUME NEW o \in Owner, MailBounces(o) PROVE NotOpenedTwice'
  BY <1>2, <1>9, IssueType DEF MailBounces
<1>10. CASE HuntFails
  BY <1>2, <1>10, IssueType DEF HuntFails
<1>11. CASE OwnerRaises
  BY <1>4, <1>11, IssueType DEF OwnerRaises
<1>12. CASE HuntRaises
  BY <1>4, <1>12, IssueType DEF HuntRaises
<1>13. CASE MailsRaise
  BY <1>3, <1>5, <1>13 DEF MailsRaise
<1>14. CASE Delete
  BY <1>14 DEF Delete, NotOpenedTwice, TypeInv, TicketTypeOK
<1>15. CASE Calls \/ NextClient \/ OwnerExists \/ MailsDone \/ HuntSkipped \/ Finish
            \/ Crash \/ UNCHANGED vars
  BY <1>5, <1>15 DEF Calls, Begin, NextClient, OwnerExists, MailsDone, HuntSkipped, Finish,
     Crash, vars
<1> QED
  BY <1>6, <1>7, <1>8, <1>9, <1>10, <1>11, <1>12, <1>13, <1>14, <1>15 DEF Next

(* However often take_action is called for a CVE, with whichever providers *)
(* and owners, it opens an issue again only if the row of the first was    *)
(* lost.                                                                   *)
THEOREM OpenedAgain == Spec => []NotOpenedTwice
<1>1. Init => InOrder /\ NotOpenedTwice
  BY TicketingAssumption DEF Init, InOrder, NotOpenedTwice
<1> QED
  BY <1>1, TypeAlways, Tracking, InOrderStep, TwiceStep, PTL DEF Spec

-----------------------------------------------------------------------------
(* The providers whose owner issue cannot be taken for there when it is    *)
(* not: mail has none, and the rows of the internal CRM pass for Jira's.   *)
Told == {p \in Provider : p # "email" /\ (p = "jira" => "custom" \notin Provider)}

(* Every provider passed so far, or whose owner issue is behind, has one,  *)
(* committed or waiting for the commit.                                    *)
Served ==
  pc # "idle" =>
    \A p \in (clients \cap Told) \ left :
      p # client \/ pc \in {"next", "hunt"} =>
        \E i \in rows \cup added : i.provider = p /\ i.kind = "owner"

LEMMA ServedStep == TypeInv /\ Served /\ [Next]_vars => Served'
<1> SUFFICES ASSUME TypeInv, Served, [Next]_vars PROVE Served'
  OBVIOUS
<1>1. ASSUME NEW again \in BOOLEAN, NEW on \in SUBSET Provider, NEW to \in SUBSET Owner,
             NEW configured \in SUBSET on, Begin(again, on, configured, to)
      PROVE  Served'
  BY <1>1 DEF Begin, Served
<1>2. CASE NextClient
  BY <1>2 DEF NextClient, InTurn, Served
<1>3. CASE OpenOwner
  BY <1>3 DEF OpenOwner, Open, IssueFor, Served
<1>4. CASE OwnerExists
  <2>1. client \in Told => \E i \in rows : i.provider = client /\ i.kind = "owner"
    BY <1>4 DEF OwnerExists, Has, Channel, Told, TypeInv, TicketTypeOK, Issue
  <2> QED
    BY <1>4, <2>1 DEF OwnerExists, frame, Served
<1>5. CASE MailsDone
  BY <1>5 DEF MailsDone, frame, Served, Told, TypeInv, AtClient
<1>6. ASSUME NEW o \in Owner, MailOwner(o) PROVE Served'
  BY <1>6 DEF MailOwner, Open, Served
<1>7. ASSUME NEW o \in Owner, MailBounces(o) PROVE Served'
  BY <1>7 DEF MailBounces, Served
<1>8. CASE OpenHunt
  BY <1>8 DEF OpenHunt, Open, Served
<1>9. CASE HuntSkipped \/ HuntFails
  BY <1>9 DEF HuntSkipped, HuntFails, frame, Served
<1>10. CASE Return
  BY <1>10 DEF Return, Served
<1>11. CASE Delete
  BY <1>11 DEF Delete, Served
<1>12. CASE UNCHANGED vars
  BY <1>12 DEF vars, frame, Served
<1> QED
  BY <1>1, <1>2, <1>3, <1>4, <1>5, <1>6, <1>7, <1>8, <1>9, <1>10, <1>11, <1>12
     DEF Next, Calls, Finish, OwnerRaises, HuntRaises, MailsRaise, Crash, CallRaises, Fail

TellsServed ==
  pc = "next" /\ left = {} /\ pc' = "idle" /\ rows' = rows \cup added /\ forgot' = forgot
    => \A p \in clients \cap Told : \E i \in rows' : i.provider = p /\ i.kind = "owner"

(* A call that ends well leaves an owner issue with every enabled provider *)
(* but mail, and but Jira where there is an internal CRM.                  *)
THEOREM ServingToldApart == Spec => [][TellsServed]_vars
<1>1. Init => Served
  BY DEF Init, Served
<1>2. Served => TellsServed
  BY DEF Served, TellsServed
<1> QED
  BY <1>1, <1>2, TypeAlways, ServedStep, PTL DEF Spec

(* Without the internal CRM: with every one of them.                       *)
THEOREM Serving == ASSUME "custom" \notin Provider PROVE Spec => OwnersServed
<1>1. clients \subseteq Provider => clients \cap Told = clients \ {"email"}
  BY DEF Told
<1>2. TicketTypeOK /\ TellsServed
        => (pc = "next" /\ left = {} /\ pc' = "idle" /\ rows' = rows \cup added
              /\ forgot' = forgot
            => \A p \in clients \ {"email"} :
                 \E i \in rows' : i.provider = p /\ i.kind = "owner")
  BY <1>1 DEF TellsServed, TicketTypeOK
<1>3. TicketTypeOK /\ [TellsServed]_vars
        => [pc = "next" /\ left = {} /\ pc' = "idle" /\ rows' = rows \cup added
              /\ forgot' = forgot
            => \A p \in clients \ {"email"} :
                 \E i \in rows' : i.provider = p /\ i.kind = "owner"]_vars
  BY <1>2
<1> QED
  BY <1>3, ServingToldApart, TicketTyping, PTL DEF OwnersServed
=============================================================================
