SPECIFICATION FairSpec
CONSTANTS
  session = session
  d1 = d1
  d2 = d2
  ID <- Ids
  Root = session
  Report <- Reports
  DeleteAge = 1
  MaxNodes = 5
  MaxEdges = 3
INVARIANTS NoPanic ListedOnce LinksHaveNodes
PROPERTIES ImplementsDirectory FreshStays ExpiredLeave
CHECK_DEADLOCK FALSE
