SPECIFICATION FeedLiveSpec
CONSTANTS
  a = a
  b = b
  File = {f}
  NoFile = NoFile
  Cve = {a, b}
  Allowed = {a}
  Content <- MCContent
  Unreadable <- MCUnreadable
  MaxSaves = 1
  MaxFails = 1
INVARIANTS FeedTypeOK 
PROPERTIES  DeletedComesBack
