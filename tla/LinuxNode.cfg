SPECIFICATION Spec
CONSTANTS
  h1 = h1
  h2 = h2
  Host = {h1, h2}
  Hosts <- MCHosts
  MaxChild = 1
INVARIANTS
  ListedReceives
  AddedIsListed
  OneLinkPerHost
PROPERTIES
  NoParentAgain
  FindsParent
CHECK_DEADLOCK FALSE
