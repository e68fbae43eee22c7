----------------------------- MODULE MCServices -----------------------------
(* Four components that share no table.  What one of them does leaves the  *)
(* others where they are, so each is checked by itself: focus, chosen at   *)
(* the start, is the one that moves.                                       *)
EXTENDS AtomCatalog, Inventory, Enrichment, Debugger

CONSTANTS a, b

MCOffers == {<<>>, <<a>>, <<b, a>>}

VARIABLE focus

Moves(c) == focus = c /\ focus' = focus

servicesVars == <<focus, catalogVars, inventoryVars, enrichVars, debugVars>>

ServicesInit ==
  /\ focus \in {"catalog", "inventory", "enrichment", "debugger"}
  /\ CatalogInit /\ InventoryInit /\ EnrichInit /\ DebugInit

ServicesNext ==
  \/ Moves("catalog") /\ CatalogNext /\ UNCHANGED <<inventoryVars, enrichVars, debugVars>>
  \/ Moves("inventory") /\ InventoryNext /\ UNCHANGED <<catalogVars, enrichVars, debugVars>>
  \/ Moves("enrichment") /\ EnrichNext /\ UNCHANGED <<catalogVars, inventoryVars, debugVars>>
  \/ Moves("debugger") /\ DebugNext /\ UNCHANGED <<catalogVars, inventoryVars, enrichVars>>

(* Of a component that never moves nothing can be expected: an action has  *)
(* the fairness of its specification while its component is in focus.      *)
ServicesFairness ==
  /\ WF_catalogVars(focus = "catalog" /\ (WriteEnv \/ CommitSeed))
  /\ WF_catalogVars(focus = "catalog" /\ ListNow)
  /\ WF_catalogVars(focus = "catalog" /\ Poll)
  /\ \A j \in Jobs : WF_inventoryVars(focus = "inventory" /\ JobStep(j))
  /\ SF_inventoryVars(focus = "inventory" /\ Tick)
  /\ WF_enrichVars(focus = "enrichment" /\ EnrichStep)
  /\ WF_enrichVars(focus = "enrichment" /\ PassTime)
  /\ SF_debugVars(focus = "debugger" /\ DebugStep)
  /\ SF_debugVars(focus = "debugger" /\ WorkerStep)
  /\ WF_debugVars(focus = "debugger" /\ ThreadCommits)
  /\ WF_debugVars(focus = "debugger" /\ TimesOut)

ServicesSpec == ServicesInit /\ [][ServicesNext]_servicesVars /\ ServicesFairness
=============================================================================
