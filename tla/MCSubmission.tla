---------------------------- MODULE MCSubmission ----------------------------
(* Submission with the dashboard's API in one process and the MCP server in   *)
(* another: confirmations run in the first, authorized calls in the second,   *)
(* and each may sweep.                                                        *)
EXTENDS Submission

CONSTANTS ApiProcess, McpProcess, ApiSweeps

MCProcesses == {ApiProcess, McpProcess}

MCHost == [a \in Actors |-> IF a \in Confirms \cup ApiSweeps THEN ApiProcess
                            ELSE McpProcess]
=============================================================================
