SPECIFICATION PipeSpec
CONSTANTS
  c1 = c1
  c2 = c2
  NoCve = NoCve
  Cve = {c1}
  Raising = {}
  MaxIssues = 1
PROPERTIES OffContinues
