SPECIFICATION FairSpec
CONSTANTS
  None = None
  Cancels = {c1, m1}
  McpCancels = {m1}
  Refreshes = {r1}
  ApiProcess = api
  McpProcess = mcp
  Processes <- MCProcesses
  Host <- MCHost
  Quantity = 2
  MaxFaults = 1
INVARIANTS
  TypeOK
  FinalIsTrue
PROPERTIES
  CancellationResolves
CHECK_DEADLOCK FALSE
