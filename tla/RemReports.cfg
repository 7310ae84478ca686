SPECIFICATION Spec
CONSTANTS
  leaf = leaf
  near = near
  top = top
  mid = mid
  server = server
  Device = {leaf, near, top, mid}
  Root = server
  Up <- MCUp
  MaxRead = 3
  LogSize = 2
  Reports <- MCReports
  Logs <- MCLogs
INVARIANTS
  ReportsSound
  Accounted
  
CHECK_DEADLOCK FALSE
