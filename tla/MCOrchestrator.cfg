SPECIFICATION PipeSpec
CONSTANTS
  c1 = c1
  c2 = c2
  NoCve = NoCve
  Cve <- MCCve
  Raising <- AllSteps
  MaxIssues = 2
SYMMETRY Symmetry
INVARIANTS PipeTypeOK PauseInv StageInv OpenedOnce 
PROPERTIES RefinesLifecycle
