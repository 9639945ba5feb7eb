SPECIFICATION FairSpec
CONSTANTS
  None = None
  Drafts = {d1}
  Confirms = {c1, c2}
  Authorized = {m1}
  Sweeps = {s1}
  ApiSweeps = {}
  ApiProcess = api
  McpProcess = mcp
  Processes <- MCProcesses
  Host <- MCHost
  MaxCrashes = 1
INVARIANTS
  TypeOK
  AtMostOneSubmission
  OwnerUndisturbed
  RecordTruthful
  RefusalIsFinal
PROPERTIES
  LegalHistory
  ImplementsSubmitOnce
  SubmissionSettles
CHECK_DEADLOCK FALSE
