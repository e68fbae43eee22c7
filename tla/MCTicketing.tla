---------------------------- MODULE MCTicketing ----------------------------
(***************************************************************************)
(* Ticketing on two owners: three providers that can be told apart, one of *)
(* them mail, or Jira beside the internal CRM.                             *)
(***************************************************************************)
EXTENDS Ticketing

CONSTANTS ann, bob
=============================================================================
