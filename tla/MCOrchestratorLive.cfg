SPECIFICATION FairPipeSpec
CONSTANTS
  c1 = c1
  c2 = c2
  NoCve = NoCve
  Cve = {c1}
  Raising <- AllSteps
  MaxIssues = 2
INVARIANTS InFlightIsWorked WaitingIsTrue 
PROPERTIES WaitingIsRetried
