---------------------------- MODULE SchwabAccess ----------------------------
(***************************************************************************)
(* The API's access to Schwab: one SchwabOAuthTransport with its token     *)
(* cache, the calls of SchwabReadinessService that share it, and the       *)
(* account mappings they read and write.                                   *)
(*                                                                         *)
(* Every HTTP request is an await with two ends: Schwab acts on it, and    *)
(* later the call goes on with the answer.  Everything a call does between *)
(* two requests is one action.  Only the API serves these calls, so a      *)
(* store function is never interleaved with anything.                      *)
(*                                                                         *)
(* Data.  Tokens are numbered as Schwab issues them.  A check is ready or  *)
(* blocked, for whatever reason.  Left out: labels and suggestions, masks  *)
(* (every stored one is in the form *dddd), accounts that are not          *)
(* eligible, an API that is not configured or not opted in, where no       *)
(* request is made, and restarts.  A candidate id is an HMAC over account  *)
(* and hash under a key of the process: one that was listed for another    *)
(* account or by an earlier process matches none, and the call fails as it *)
(* may anyway.                                                             *)
(***************************************************************************)
EXTENDS Naturals, FiniteSets

CONSTANTS Accounts,    \* eligible accounts of the portfolio
          Hashes,      \* accounts at Schwab
          Owner,       \* calls by which the owner lists candidates or saves
          None,
          MaxTokens    \* bound on the tokens Schwab issues

ASSUME CallAssumption == Owner \cap Accounts = {} /\ None \notin Hashes /\ MaxTokens \in Nat

\* A readiness check is named for its account: one at a time for each.
Calls == Accounts \cup Owner
Tokens == 1..MaxTokens

VARIABLES
  cached,    \* _cached_access_token, 0 for None
  fresh,     \* whether _token_expires_at is still to come
  cleared,   \* history variable: the call that emptied the cache last
  mapping,   \* schwab_account_mappings
  calls,     \* the local variables of each call
  issued,    \* at Schwab: how many tokens were issued
  accepted   \*   and which are accepted

cache == <<cached, fresh, cleared>>
schwab == <<issued, accepted>>
vars == <<cache, mapping, calls, schwab>>

Idle == [step |-> "idle", stage |-> "probe", tok |-> 0, tries |-> 0,
         reply |-> "none", account |-> None, hash |-> None,
         report |-> "none"]

(***************************************************************************)
(* access_token and request                                                *)
(***************************************************************************)

\* request sends the token it has.
Send(call, t) == [call EXCEPT !.step = "calling", !.tok = t, !.tries = @ + 1]

\* access_token without force_refresh: the cached token, or a POST for one.
Request(call, stage) ==
  LET c == [call EXCEPT !.stage = stage, !.tries = 0, !.tok = 0, !.reply = "none"] IN
  IF cached # 0 /\ fresh THEN Send(c, cached) ELSE [c EXCEPT !.step = "posting"]

\* A check probes access_token before its first request; with a token in the
\* cache that takes no time.
Probe(call) ==
  IF cached # 0 /\ fresh THEN Request(call, "numbers")
                         ELSE [call EXCEPT !.stage = "probe", !.step = "posting"]

\* A check that ends; the report of check_all_readiness keeps the ready ones.
Ended(call, ready) ==
  IF ready /\ call.report = "open" THEN [Idle EXCEPT !.hash = call.hash, !.report = "ready"]
                                  ELSE Idle

\* access_token stores the token before it returns it; a probe then goes
\* on to its first request with it.
TokenRefreshed(c) ==
  /\ calls[c].step = "posted"
  /\ cached' = calls[c].tok /\ fresh' = TRUE /\ cleared' = None
  /\ calls' = [calls EXCEPT ![c] =
       Send(IF @.stage = "probe" THEN [@ EXCEPT !.stage = "numbers"] ELSE @, @.tok)]
  /\ UNCHANGED <<mapping, schwab>>

\* Bug: the token is dropped, its expiry is not.
RetryKeepsExpiry(c) ==
  /\ calls[c].step = "answered"
  /\ calls[c].reply = "401" /\ calls[c].tries = 1 /\ cached # 0
  /\ cached' = 0 /\ cleared' = c
  /\ calls' = [calls EXCEPT ![c].step = "posting", ![c].tok = 0, ![c].reply = "none"]
  /\ UNCHANGED <<fresh, mapping, schwab>>

\* Bug: the retry sends the token that was rejected.
RetryWithSame(c) ==
  /\ calls[c].step = "answered"
  /\ calls[c].reply = "401" /\ calls[c].tries = 1 /\ cached # 0
  /\ calls' = [calls EXCEPT ![c] = [Send(@, @.tok) EXCEPT !.reply = "none"]]
  /\ UNCHANGED <<cache, mapping, schwab>>

\* request: the first 401 empties the cache and refreshes the token by force.
RetryRejected(c) ==
  /\ calls[c].step = "answered"
  /\ calls[c].reply = "401" /\ calls[c].tries = 1 /\ cached # 0
  /\ cached' = 0 /\ fresh' = FALSE /\ cleared' = c
  /\ calls' = [calls EXCEPT ![c].step = "posting", ![c].tok = 0, ![c].reply = "none"]
  /\ UNCHANGED <<mapping, schwab>>

\* Any other answer is the caller's to look at.
Final(c) ==
  /\ calls[c].step = "answered"
  /\ calls[c].reply = "401" => calls[c].tries = 2 \/ cached = 0

\* The second 401, or a first one that finds the cache empty, is refused by
\* raise_for_status.
Rejected(c) ==
  /\ Final(c) /\ calls[c].reply = "401"
  /\ calls' = [calls EXCEPT ![c] = Ended(@, FALSE)]
  /\ UNCHANGED <<cache, mapping, schwab>>

\* Every other failure of a request: no answer in time, a refresh token that is
\* not accepted, a status or a payload the caller does not take.  The call ends
\* at once, for on the way there it reads and changes nothing.
RequestFails(c) ==
  /\ calls[c].step \in {"posting", "posted", "calling"}
  /\ calls' = [calls EXCEPT ![c] = Ended(@, FALSE)]
  /\ UNCHANGED <<cache, mapping, schwab>>

(***************************************************************************)
(* Readiness                                                               *)
(***************************************************************************)

\* check_account_readiness up to its first request.
BeginCheck(a, report) ==
  IF mapping[a] = None THEN Idle
  ELSE Probe([Idle EXCEPT !.hash = mapping[a], !.report = report])

Check(a) ==
  /\ calls[a].step = "idle"
  /\ calls' = [calls EXCEPT ![a] = BeginCheck(a, "none")]
  /\ UNCHANGED <<cache, mapping, schwab>>

\* check_all_readiness: the event loop starts the gathered checks one after
\* the other and nothing else in between.
CheckAll ==
  /\ \A a \in Accounts : calls[a].step = "idle"
  /\ calls' = [c \in Calls |-> IF c \in Accounts THEN BeginCheck(c, "open") ELSE calls[c]]
  /\ UNCHANGED <<cache, mapping, schwab>>

\* Bug: the mapping is looked up when the answer is there.
NumbersReadLate(c) ==
  /\ Final(c) /\ calls[c].stage = "numbers" /\ calls[c].reply = "200" /\ mapping[c] # None
  /\ calls' = [calls EXCEPT ![c] = [Request(@, "detail") EXCEPT !.hash = mapping[c]]]
  /\ UNCHANGED <<cache, mapping, schwab>>

\* The mapped account is among the numbers, or else the check fails.
NumbersRead(c) ==
  /\ Final(c) /\ calls[c].stage = "numbers" /\ calls[c].reply = "200"
  /\ calls' = [calls EXCEPT ![c] = Request(@, "detail")]
  /\ UNCHANGED <<cache, mapping, schwab>>

DetailRead(c) ==
  /\ Final(c) /\ calls[c].stage = "detail" /\ calls[c].reply = "200"
  /\ \E ready \in BOOLEAN : calls' = [calls EXCEPT ![c] = Ended(@, ready)]
  /\ UNCHANGED <<cache, mapping, schwab>>

(***************************************************************************)
(* Mappings                                                                *)
(***************************************************************************)

\* The owner asks for the candidates of an account, which changes nothing ...
ListCandidates(o) ==
  /\ calls[o].step = "idle"
  /\ calls' = [calls EXCEPT ![o] = Request(Idle, "candidates")]
  /\ UNCHANGED <<cache, mapping, schwab>>

CandidatesRead(o) ==
  /\ Final(o) /\ calls[o].stage = "candidates" /\ calls[o].reply = "200"
  /\ calls' = [calls EXCEPT ![o] = Idle]
  /\ UNCHANGED <<cache, mapping, schwab>>

\* ... and confirms one: save_verified_mapping lists them again.
ConfirmCandidate(o, a, h) ==
  /\ calls[o].step = "idle"
  /\ calls' = [calls EXCEPT ![o] = Request([Idle EXCEPT !.account = a, !.hash = h], "confirm")]
  /\ UNCHANGED <<cache, mapping, schwab>>

\* The candidate is looked up in the new list, and save_schwab_account_mapping
\* stores it unless its account at Schwab is mapped to another one here.
SaveMapping(o) ==
  LET a == calls[o].account  h == calls[o].hash IN
  /\ Final(o) /\ calls[o].stage = "confirm" /\ calls[o].reply = "200"
  /\ mapping' = IF \A b \in Accounts \ {a} : mapping[b] # h
                  THEN [mapping EXCEPT ![a] = h] ELSE mapping
  /\ calls' = [calls EXCEPT ![o] = Idle]
  /\ UNCHANGED <<cache, schwab>>

DeleteMapping(a) ==
  /\ mapping[a] # None
  /\ mapping' = [mapping EXCEPT ![a] = None]
  /\ UNCHANGED <<cache, calls, schwab>>

(***************************************************************************)
(* Schwab, and time                                                        *)
(***************************************************************************)

\* The token request arrives.
TokenIssued(c) ==
  /\ calls[c].step = "posting" /\ issued < MaxTokens
  /\ issued' = issued + 1
  /\ accepted' = accepted \cup {issued + 1}
  /\ calls' = [calls EXCEPT ![c].step = "posted", ![c].tok = issued + 1]
  /\ UNCHANGED <<cache, mapping>>

\* Schwab looks at the token of a request; what it answers to a good one is
\* usable, or the request fails (RequestFails).
SchwabAnswers(c) ==
  /\ calls[c].step = "calling"
  /\ calls' = [calls EXCEPT ![c].step = "answered",
                           ![c].reply = IF calls[c].tok \in accepted THEN "200" ELSE "401"]
  /\ UNCHANGED <<cache, mapping, schwab>>

\* A token is revoked, or expires at Schwab.
Revoke(t) ==
  /\ t \in accepted
  /\ accepted' = accepted \ {t}
  /\ UNCHANGED <<cache, mapping, calls, issued>>

\* The monotonic clock passes _token_expires_at.
Expire ==
  /\ fresh
  /\ fresh' = FALSE
  /\ UNCHANGED <<cached, cleared, mapping, calls, schwab>>

Init ==
  /\ cached = 0 /\ fresh = FALSE /\ cleared = None
  /\ mapping = [a \in Accounts |-> None]
  /\ calls = [c \in Calls |-> Idle]
  /\ issued = 0 /\ accepted = {}

Next ==
  \/ \E c \in Calls :
       \/ TokenRefreshed(c) \/ RetryRejected(c) \/ RequestFails(c)
       \/ Rejected(c) \/ TokenIssued(c) \/ SchwabAnswers(c)
  \/ \E a \in Accounts : Check(a) \/ NumbersRead(a) \/ DetailRead(a) \/ DeleteMapping(a)
  \/ CheckAll
  \/ \E o \in Owner :
       \/ ListCandidates(o) \/ CandidatesRead(o) \/ SaveMapping(o)
       \/ \E a \in Accounts, h \in Hashes : ConfirmCandidate(o, a, h)
  \/ \E t \in Tokens : Revoke(t)
  \/ Expire

Spec == Init /\ [][Next]_vars

(***************************************************************************)
(* Properties                                                              *)
(***************************************************************************)

\* Types of all variables.
TypeOK ==
  /\ cached \in 0..MaxTokens /\ fresh \in BOOLEAN /\ (fresh => cached # 0)
  /\ cleared \in Calls \cup {None}
  /\ mapping \in [Accounts -> Hashes \cup {None}]
  /\ \A c \in Calls :
       /\ calls[c].step \in {"idle", "posting", "posted", "calling", "answered"}
       /\ calls[c].stage \in {"probe", "numbers", "detail", "candidates", "confirm"}
       /\ calls[c].tok \in 0..MaxTokens /\ calls[c].tries \in 0..2
       /\ calls[c].reply \in {"none", "200", "401"}
       /\ calls[c].report \in {"none", "open", "ready"}
       /\ calls[c].hash \in Hashes \cup {None}
  /\ issued \in 0..MaxTokens /\ accepted \subseteq 1..issued

\* A call that was refused sends a token issued since, the one everybody gets
\* from the cache then; and one that gives up without a second try does so
\* because another call emptied the cache and nobody filled it again
\* (SchwabOAuthTransport.request).
TokenReplaced ==
  [][\A c \in Calls :
       /\ (calls[c].tries = 1 /\ calls'[c].tries = 2) =>
            calls[c].step = "posted" /\ calls'[c].tok = cached'
       /\ (calls[c].step = "answered" /\ calls[c].reply = "401" /\ calls'[c].step = "idle") =>
            \/ calls[c].tries = 2
            \/ cleared \in Calls \ {c}]_vars

\* The accounts that one report shows ready stand for different accounts at
\* Schwab, also when mappings are changed while the report is made
\* (check_all_readiness).
ReadyDistinct ==
  LET Ready == {a \in Accounts : calls[a].report = "ready"} IN
  \A a, b \in Ready : a # b => calls[a].hash # calls[b].hash
=============================================================================
