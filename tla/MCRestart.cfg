SPECIFICATION Spec
CONSTANTS
  file = file
  feed = feed
  t1 = t1
  c1 = c1
  NoEvent = NoEvent
  NoCve = NoCve
  Producer = {t1}
  Cve = {c1}
  Event = {feed}
  FileEvent = {}
  Purgeable = {}
  MaxCrashes = 1
  Raising = {}
  MaxIssues = 1
PROPERTIES NothingIsLost
