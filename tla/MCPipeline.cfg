SPECIFICATION Spec
CONSTANTS
  file = file
  feed = feed
  t1 = t1
  c1 = c1
  NoEvent = NoEvent
  NoCve = NoCve
  Producer = {t1}
  Cve = {c1}
  Event = {file}
  FileEvent = {file}
  Purgeable = {file}
  MaxCrashes = 1
  Raising = {"read", "accept", "recording"}
  MaxIssues = 1
INVARIANTS CoupleInv
  
