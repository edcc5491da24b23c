CONSTANTS
  c1 = c1
  c2 = c2
  c3 = c3
  Callers <- MCThreeCallers
  Permits = 2
SPECIFICATION FairSpec
PROPERTY
  WaitersDrain
