SPECIFICATION Spec
CONSTANTS
  None = None
  Cancels = {m1}
  McpCancels = {m1}
  Refreshes = {r1}
  ApiProcess = api
  McpProcess = mcp
  Processes <- MCProcesses
  Host <- MCHost
  Quantity = 2
  MaxFaults = 0
PROPERTIES
  LegalHistory
CHECK_DEADLOCK FALSE
