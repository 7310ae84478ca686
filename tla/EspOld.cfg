SPECIFICATION Spec
CONSTANTS
  Child = {c1, c2}
  MaxClients = 2
  ApRuns = 1
INVARIANTS
  TypeOK
  ChildrenListed
PROPERTIES
  
  ApInTime
  Reconnects
