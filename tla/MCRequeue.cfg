SPECIFICATION QueueSpec
CONSTANTS
  e1 = e1
  e2 = e2
  t1 = t1
  t2 = t2
  NoEvent = NoEvent
  Event <- MCEvent
  FileEvent <- MCEvent
  Purgeable <- MCEvent
  Producer = {t1}
  MaxCrashes = 0
PROPERTIES QueuedIsNotOverwritten
