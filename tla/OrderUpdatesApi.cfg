SPECIFICATION Spec
CONSTANTS
  None = None
  Cancels = {c1, c2}
  McpCancels = {}
  Refreshes = {r1, r2}
  ApiProcess = api
  McpProcess = mcp
  Processes <- MCProcesses
  Host <- MCHost
  Quantity = 2
  MaxFaults = 0
SYMMETRY MCSymmetry
PROPERTIES
  ImplementsTrackedOrder
CHECK_DEADLOCK FALSE
