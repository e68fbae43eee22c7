SPECIFICATION ServicesSpec
CONSTANTS
  a = a
  b = b
  Url = {u1, u2}
  LookupUrl = {}
  Default = {u1}
  MaxEdits = 3
  Key = {a, b}
  Offers <- MCOffers
  MaxChanges = 2
  Cve = {c1, c2, c3}
  NoCve = NoCve
  Lookup = {"nvd"}
  Limit = 2
  Base = 1200
  Unit = 600
  MaxAttempts = 1
  Poison = {c1}
  MaxSwitches = 4
  Status = {"ENRICHED", "MATCHED", "FAILED"}
INVARIANTS CatalogTypeOK InventoryTypeOK  EnrichTypeOK DebugTypeOK
PROPERTIES   EnabledIsPulled  EveryoneRetried EveryoneReleased NothingStored LoopGoesOn
