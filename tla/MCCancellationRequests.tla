----------------------- MODULE MCCancellationRequests -----------------------
(* Two MCP servers, two requests, a code for each authorization.             *)
EXTENDS CancellationRequests, TLC

MCSymmetry == Permutations(Servers) \cup Permutations(Requests) \cup Permutations(Codes)
=============================================================================
