SPECIFICATION FairQueueSpec
CONSTANTS
  e1 = e1
  e2 = e2
  t1 = t1
  t2 = t2
  NoEvent = NoEvent
  Event <- MCEvent
  FileEvent <- MCEvent
  Purgeable <- MCEvent
  Producer <- MCProducer
  MaxCrashes = 1
INVARIANTS TypeOK ClaimInv RestartInv
PROPERTIES RefinesLedger PendingIsServed QueuedIsTaken
