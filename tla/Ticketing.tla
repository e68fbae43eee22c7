----------------------------- MODULE Ticketing -----------------------------
(***************************************************************************)
(* Step 5 for one CVE (app/pipeline/step5_act.py): take_action goes over   *)
(* the enabled providers, opens an owner and a hunt issue with each, and   *)
(* commits their rows at the very end.  Called again for the same CVE, by  *)
(* a feed, a rerun or a retry, it skips what has a row already.            *)
(*                                                                         *)
(* Every call holds the database's write lock from its first statement to  *)
(* its commit, so calls follow each other; what can happen inside one is a *)
(* provider's error or the death of the process.                           *)
(***************************************************************************)
EXTENDS Naturals

CONSTANTS Provider,    \* the providers this installation may enable
          Owner,       \* mail addresses of owners of matched systems
          NoOne,       \* not addressed to an owner
          Flaky,       \* providers may fail
          MaxOpened    \* bound: how often one issue is opened

Kind == {"owner", "hunt"}

ASSUME TicketingAssumption == /\ Provider \subseteq {"jira", "monday", "email", "custom"}
                              /\ NoOne \notin Owner
                              /\ Flaky \in BOOLEAN
                              /\ MaxOpened \in Nat \ {0}

(* Mail to owners is addressed; nothing else is.                           *)
Issue == [provider : Provider, kind : Kind, to : {NoOne}] \cup
         [provider : Provider \cap {"email"}, kind : {"owner"}, to : Owner]

VARIABLES
  rows,     \* durable: the CVE's jira_tickets rows, as issues
  opened,   \* outside: how often each issue was opened with its provider
  pc,       \* where take_action stands
  retry,    \* it was called by a retry, not by an event
  clients,  \* the providers enabled when it started
  real,     \* those of them that are configured: the others answer dry-run
  left,     \* the providers it has not come to yet
  client,   \* the provider it is at
  mail,     \* the owners still to be mailed
  bounced,  \* a mail to an owner failed
  posted,   \* a mail to an owner went out
  added,    \* issues whose rows are added to the session, not committed
  got,      \* the list "issues" is not empty
  forgot    \* history: opened issues whose row was lost or never written

frame == <<retry, clients, real, left, client, mail, bounced, posted, added, got>>
vars == <<rows, opened, pc, frame, forgot>>

(* _ticket_channel looks for the provider in double quotes; what is stored *)
(* is the repr of a dict.  So only the prefixes of the keys tell, and the  *)
(* issues of an internal CRM have none: they pass for Jira's.              *)
Channel(i) == IF i.provider = "custom" THEN "jira" ELSE i.provider

(* Mutant: the type of a hunt's row goes by its older name only.           *)
HasOldHunt(p, k) == k = "owner" /\ \E i \in rows : Channel(i) = p /\ i.kind = k

(* has_owner, has_hunt.  vuln.tickets is read once: rows added to the      *)
(* session do not count.                                                   *)
Has(p, k) == \E i \in rows : Channel(i) = p /\ i.kind = k

Mailed == {i.to : i \in {j \in rows : j.kind = "owner" /\ Channel(j) = "email"}}

(* The order of TICKETING_PROVIDER_NAMES.                                  *)
Rank(p) == CASE p = "jira" -> 1 [] p = "monday" -> 2 [] p = "email" -> 3 [] OTHER -> 4

InTurn == {p \in left : \A q \in left : Rank(p) <= Rank(q)}

-----------------------------------------------------------------------------
Init ==
  /\ rows = {}
  /\ opened = [i \in Issue |-> 0]
  /\ pc = "idle"
  /\ retry = FALSE
  /\ clients = {} /\ real = {} /\ left = {} /\ client = "none"
  /\ mail = {} /\ bounced = FALSE /\ posted = FALSE
  /\ added = {}
  /\ got = FALSE
  /\ forgot = {}

(* Mutant: goes over every known provider, not the enabled ones.           *)
BeginAll(again, on, configured, to) ==
  /\ pc = "idle"
  /\ pc' = "next"
  /\ retry' = again
  /\ clients' = on
  /\ real' = configured
  /\ left' = Provider
  /\ mail' = to
  /\ UNCHANGED <<rows, opened, client, bounced, posted, added, got, forgot>>

(* The settings are read once; to: the owners of the systems matched now,  *)
(* inside the allowed domains.                                             *)
Begin(again, on, configured, to) ==
  /\ pc = "idle"
  /\ pc' = "next"
  /\ retry' = again
  /\ clients' = on
  /\ real' = configured
  /\ left' = on
  /\ mail' = to
  /\ UNCHANGED <<rows, opened, client, bounced, posted, added, got, forgot>>

NextClient ==
  /\ pc = "next"
  /\ client' \in InTurn
  /\ left' = left \ {client'}
  /\ pc' = IF client' = "email" THEN "mailing" ELSE "owner"
  /\ UNCHANGED <<rows, opened, retry, clients, real, mail, bounced, posted, added, got, forgot>>

-----------------------------------------------------------------------------
(* create_issue answers, and _record_ticket adds the row.  A provider that *)
(* is not configured opens nothing; its row is stored all the same.        *)
Open(i) ==
  /\ client \in real => opened[i] < MaxOpened
  /\ opened' = IF client \in real THEN [opened EXCEPT ![i] = @ + 1] ELSE opened
  /\ added' = added \cup {i}
  /\ got' = TRUE

IssueFor(k, to) == [provider |-> client, kind |-> k, to |-> to]

OpenOwner ==
  /\ pc = "owner"
  /\ ~Has(client, "owner")
  /\ Open(IssueFor("owner", NoOne))
  /\ pc' = "hunt"
  /\ UNCHANGED <<rows, retry, clients, real, left, client, mail, bounced, posted, forgot>>

OwnerExists ==
  /\ pc = "owner"
  /\ Has(client, "owner")
  /\ pc' = "hunt"
  /\ UNCHANGED <<rows, opened, frame, forgot>>

MailOwner(o) ==
  /\ pc = "mailing"
  /\ o \in mail \ Mailed
  /\ Open(IssueFor("owner", o))
  /\ mail' = mail \ {o}
  /\ posted' = TRUE
  /\ UNCHANGED <<rows, pc, retry, clients, real, left, client, bounced, forgot>>

(* A call that fails may have opened the issue: its answer was lost.       *)
Attempt(i) == \/ UNCHANGED <<opened, forgot>>
              \/ /\ opened[i] < MaxOpened
                 /\ opened' = [opened EXCEPT ![i] = @ + 1]
                 /\ forgot' = forgot \cup {i}

MailBounces(o) ==
  /\ pc = "mailing"
  /\ Flaky
  /\ client \in real
  /\ o \in mail \ Mailed
  /\ Attempt(IssueFor("owner", o))
  /\ mail' = mail \ {o}
  /\ bounced' = TRUE
  /\ UNCHANGED <<rows, pc, retry, clients, real, left, client, posted, added, got>>

MailsDone ==
  /\ pc = "mailing"
  /\ mail \subseteq Mailed
  /\ bounced => posted
  /\ pc' = "hunt"
  /\ UNCHANGED <<rows, opened, frame, forgot>>

OpenHunt ==
  /\ pc = "hunt"
  /\ ~Has(client, "hunt")
  /\ Open(IssueFor("hunt", NoOne))
  /\ pc' = "next"
  /\ UNCHANGED <<rows, retry, clients, real, left, client, mail, bounced, posted, forgot>>

(* There is one, or nobody to send it to.                                  *)
HuntSkipped ==
  /\ pc = "hunt"
  /\ Has(client, "hunt") \/ client = "email"
  /\ pc' = "next"
  /\ UNCHANGED <<rows, opened, frame, forgot>>

(* The error is only logged when the call has opened anything so far.      *)
HuntFails ==
  /\ pc = "hunt"
  /\ Flaky
  /\ client \in real
  /\ ~Has(client, "hunt")
  /\ got
  /\ Attempt(IssueFor("hunt", NoOne))
  /\ pc' = "next"
  /\ UNCHANGED <<rows, frame>>

-----------------------------------------------------------------------------
(* The ends of a call: its variables and its session go.                   *)
Return ==
  /\ pc' = "idle"
  /\ retry' = FALSE
  /\ clients' = {} /\ real' = {} /\ left' = {} /\ client' = "none"
  /\ mail' = {} /\ bounced' = FALSE /\ posted' = FALSE
  /\ added' = {}
  /\ got' = FALSE

WereOpened(issues) == {i \in issues : opened'[i] > 0}

Finish ==
  /\ pc = "next"
  /\ left = {}
  /\ Return
  /\ rows' = rows \cup added
  /\ UNCHANGED <<opened, forgot>>

(* Mutant: the error of an event rolls back too.                           *)
FailRollsBack(lost) ==
  /\ Return
  /\ rows' = rows
  /\ forgot' = IF retry THEN forgot \cup lost \cup WereOpened(added) ELSE forgot \cup lost

(* In an event fail_vulnerability commits, and with FAILED the rows added  *)
(* so far; in a retry the session is rolled back with them.                *)
Fail(lost) ==
  /\ Return
  /\ rows' = IF retry THEN rows ELSE rows \cup added
  /\ forgot' = IF retry THEN forgot \cup lost \cup WereOpened(added) ELSE forgot \cup lost

(* The error of a call leaves take_action.                                 *)
CallRaises(i) ==
  /\ Flaky
  /\ client \in real
  /\ \/ UNCHANGED opened /\ Fail({})
     \/ /\ opened[i] < MaxOpened
        /\ opened' = [opened EXCEPT ![i] = @ + 1]
        /\ Fail({i})

(* Mutant: an error of the owner issue is only logged, as the hunt's is.   *)
OwnerSwallowed ==
  /\ pc = "owner"
  /\ Flaky
  /\ client \in real
  /\ ~Has(client, "owner")
  /\ Attempt(IssueFor("owner", NoOne))
  /\ pc' = "hunt"
  /\ UNCHANGED <<rows, frame>>

OwnerRaises ==
  /\ pc = "owner"
  /\ ~Has(client, "owner")
  /\ CallRaises(IssueFor("owner", NoOne))

HuntRaises ==
  /\ pc = "hunt"
  /\ ~Has(client, "hunt")
  /\ ~got
  /\ CallRaises(IssueFor("hunt", NoOne))

(* Every mail to an owner failed.                                          *)
MailsRaise ==
  /\ pc = "mailing"
  /\ mail \subseteq Mailed
  /\ bounced /\ ~posted
  /\ UNCHANGED opened
  /\ Fail({})

Crash ==
  /\ pc # "idle"
  /\ UNCHANGED <<rows, opened>>
  /\ Return
  /\ forgot' = forgot \cup WereOpened(added)

(* delete_incoming_cves; the same CVE may come in again.                   *)
Delete ==
  /\ pc = "idle"
  /\ forgot' = {i \in Issue : opened[i] > 0}
  /\ rows' = {}
  /\ UNCHANGED <<opened, pc, frame>>

-----------------------------------------------------------------------------
Calls == \E again \in BOOLEAN, on \in SUBSET Provider, to \in SUBSET Owner :
           \E configured \in SUBSET on : Begin(again, on, configured, to)

Next ==
  \/ Calls \/ NextClient
  \/ OpenOwner \/ OwnerExists \/ MailsDone
  \/ \E o \in Owner : MailOwner(o) \/ MailBounces(o)
  \/ OpenHunt \/ HuntSkipped \/ HuntFails
  \/ Finish \/ OwnerRaises \/ HuntRaises \/ MailsRaise \/ Crash \/ Delete

Spec == Init /\ [][Next]_vars

-----------------------------------------------------------------------------
(* Every variable has its type.                                            *)
TicketTypeOK ==
  /\ rows \subseteq Issue
  /\ opened \in [Issue -> 0..MaxOpened]
  /\ pc \in {"idle", "next", "owner", "mailing", "hunt"}
  /\ retry \in BOOLEAN
  /\ clients \subseteq Provider /\ real \subseteq clients /\ left \subseteq clients
  /\ client \in {"none"} \cup Provider
  /\ mail \subseteq Owner
  /\ bounced \in BOOLEAN /\ posted \in BOOLEAN
  /\ added \subseteq Issue
  /\ got \in BOOLEAN
  /\ forgot \subseteq Issue

(* However many calls fail halfway, with whichever providers on, an issue  *)
(* that was opened has its row, or will have it with the next commit.      *)
(* What loses one: an answer that is lost, a crash, the rollback of a      *)
(* retry, the CVE deleted.                                                 *)
Tracked == \A i \in Issue : opened[i] > 0 => i \in rows \cup added \cup forgot

(* ... and then it is not opened again: a call that is repeated after an   *)
(* error takes up where the failed one stopped.  Not so the internal CRM's *)
(* issues, which no later call recognises.                                 *)
NotOpenedTwice ==
  \A i \in Issue : opened[i] > 1 /\ i.provider # "custom" => i \in forgot

(* A call that ends without an error leaves an owner issue with every      *)
(* enabled provider, mail aside: a failure is swallowed for hunts only.    *)
OwnersServed ==
  [][pc = "next" /\ left = {} /\ pc' = "idle" /\ rows' = rows \cup added /\ forgot' = forgot
       => \A p \in clients \ {"email"} :
            \E i \in rows' : i.provider = p /\ i.kind = "owner"]_vars

-----------------------------------------------------------------------------
(* "For every ticketing provider that is switched on, owner and hunt tasks *)
(* are opened" (FUNCTIONALITY.md:137, in Hebrew).                          *)
EveryProviderServed ==
  [][pc = "next" /\ left = {} /\ pc' = "idle" /\ rows' = rows \cup added /\ forgot' = forgot
       => \A p \in clients \ {"email"}, k \in Kind :
            \E i \in rows' : i.provider = p /\ i.kind = k]_vars
=============================================================================
