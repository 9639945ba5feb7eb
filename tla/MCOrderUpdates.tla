--------------------------- MODULE MCOrderUpdates ---------------------------
(* One order, with the dashboard's API in one process and the MCP server in   *)
(* another; only the API refreshes orders.                                    *)
EXTENDS OrderUpdates, TLC

CONSTANTS ApiProcess, McpProcess, McpCancels

MCHost == [a \in Actors |-> IF a \in McpCancels THEN McpProcess ELSE ApiProcess]

\* Only the processes that run something.
MCProcesses == {MCHost[a] : a \in Actors}

\* The runs of one kind in one process are interchangeable.
MCSymmetry ==
  Permutations(Cancels \ McpCancels) \cup Permutations(McpCancels) \cup Permutations(Refreshes)
=============================================================================
