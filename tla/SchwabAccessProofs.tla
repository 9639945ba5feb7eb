-------------------------- MODULE SchwabAccessProofs --------------------------
(***************************************************************************)
(* Proofs about SchwabAccess for any number of accounts, of accounts at    *)
(* Schwab, of calls of the owner, and of tokens.                           *)
(***************************************************************************)
EXTENDS SchwabAccess, TLAPS

Stages == {"probe", "numbers", "detail", "candidates", "confirm"}

\* The local variables of a call: their names, and their types.
IsCall(call) ==
  /\ DOMAIN call = {"step", "stage", "tok", "tries", "reply", "account", "hash", "report"}
  /\ call.step \in {"idle", "posting", "posted", "calling", "answered"}
  /\ call.stage \in Stages
  /\ call.tok \in 0..MaxTokens /\ call.tries \in 0..2
  /\ call.reply \in {"none", "200", "401"}
  /\ call.report \in {"none", "open", "ready"}
  /\ call.hash \in Hashes \cup {None}

\* How many requests a call has sent when it waits for a token or an answer.
Counted(call) ==
  /\ call.step = "posted" => call.tok # 0
  /\ call.step \in {"posting", "posted"} => call.tries \in 0..1
  /\ call.step \in {"calling", "answered"} => call.tries \in 1..2

CallOK(call) == IsCall(call) /\ Counted(call)

CallsOK == DOMAIN calls = Calls /\ \A c \in Calls : CallOK(calls[c])

CacheOK == /\ cached \in 0..MaxTokens /\ fresh \in BOOLEAN /\ (fresh => cached # 0)
           /\ cleared \in Calls \cup {None}
           /\ issued \in 0..MaxTokens /\ accepted \subseteq 1..issued

\* No two accounts here are mapped to one at Schwab.
MappingOK ==
  /\ mapping \in [Accounts -> Hashes \cup {None}]
  /\ \A a, b \in Accounts : a # b /\ mapping[a] # None => mapping[a] # mapping[b]

Requesting(call) == call.step \in {"calling", "answered"}
Reporting(call) == call.report \in {"open", "ready"}

\* The cache is empty while a call's request is under way only because another
\* call emptied it.
Emptied == \A c \in Calls : cached = 0 /\ Requesting(calls[c]) => cleared \in Calls \ {c}

\* The checks of one report, whether ready or still open, keep the mappings as
\* they stood when the report began.
ReportsApart ==
  \A a, b \in Accounts :
     a # b /\ Reporting(calls[a]) /\ Reporting(calls[b]) => calls[a].hash # calls[b].hash

IInv == CacheOK /\ MappingOK /\ CallsOK /\ Emptied /\ ReportsApart

-----------------------------------------------------------------------------
(* What a step makes of a call. *)

\* What TokenReplaced asks of a step for one call.
Replaces(c) ==
  /\ (calls[c].tries = 1 /\ calls'[c].tries = 2) =>
       calls[c].step = "posted" /\ calls'[c].tok = cached'
  /\ (calls[c].step = "answered" /\ calls[c].reply = "401" /\ calls'[c].step = "idle") =>
       \/ calls[c].tries = 2
       \/ cleared \in Calls \ {c}

\* A step of one call: the others wait, the call stays one, it keeps its mapping
\* while it is reported on, and it sends a request only with a token in the cache.
Moves(c) ==
  /\ DOMAIN calls' = Calls /\ \A d \in Calls \ {c} : calls'[d] = calls[d]
  /\ CallOK(calls'[c])
  /\ Reporting(calls'[c]) => Reporting(calls[c]) /\ calls'[c].hash = calls[c].hash
  /\ Requesting(calls'[c]) /\ cached' = 0 => Requesting(calls[c])
  /\ Replaces(c)

LEMMA IdleOK == CallOK(Idle)
BY CallAssumption DEF CallOK, IsCall, Counted, Idle, Stages

\* A request that starts: it sends the cached token, or asks for one.
LEMMA RequestEffect ==
  ASSUME CacheOK, NEW call, IsCall(call), NEW stage \in Stages
  PROVE  LET r == Request(call, stage) IN
         /\ CallOK(r) /\ r.tries \in 0..1 /\ r.step # "idle"
         /\ r.hash = call.hash /\ r.report = call.report
         /\ Requesting(r) => cached # 0
<1> DEFINE r == Request(call, stage)
<1>1. CASE cached # 0 /\ fresh
  BY <1>1, CallAssumption
  DEF Request, Send, CacheOK, CallOK, IsCall, Counted, Requesting
<1>2. CASE ~(cached # 0 /\ fresh)
  BY <1>2, CallAssumption DEF Request, CallOK, IsCall, Counted, Requesting
<1> QED
  BY <1>1, <1>2

\* A check that starts: it keeps the mapping it read.
LEMMA BeginEffect ==
  ASSUME CacheOK, MappingOK, NEW a \in Accounts, NEW report \in {"none", "open"}
  PROVE  LET r == BeginCheck(a, report) IN
         /\ CallOK(r) /\ r.tries \in 0..1
         /\ Requesting(r) => cached # 0
         /\ Reporting(r) => report = "open" /\ mapping[a] # None /\ r.hash = mapping[a]
<1>1. CASE mapping[a] = None
  BY <1>1, IdleOK DEF BeginCheck, Idle, Requesting, Reporting
<1>2. CASE mapping[a] # None
  <2> DEFINE c == [Idle EXCEPT !.hash = mapping[a], !.report = report]
  <2>1. IsCall(c) /\ c.hash = mapping[a] /\ c.report = report /\ c.tries = 0
    BY CallAssumption DEF MappingOK, IsCall, Idle, Stages
  <2>2. BeginCheck(a, report) = IF cached # 0 /\ fresh
                                THEN Request(c, "numbers")
                                ELSE [c EXCEPT !.stage = "probe", !.step = "posting"]
    BY <1>2 DEF BeginCheck, Probe
  <2> HIDE DEF c
  <2>3. CASE cached # 0 /\ fresh
    BY <1>2, <2>1, <2>2, <2>3, RequestEffect DEF Reporting, Stages
  <2>4. CASE ~(cached # 0 /\ fresh)
    BY <1>2, <2>1, <2>2, <2>4
    DEF CallOK, IsCall, Counted, Requesting, Reporting, Stages
  <2> QED
    BY <2>3, <2>4
<1> QED
  BY <1>1, <1>2

\* A check that ends keeps its mapping only for the report.
LEMMA EndedEffect ==
  ASSUME NEW call, IsCall(call), NEW ready \in BOOLEAN
  PROVE  LET r == Ended(call, ready) IN
         /\ CallOK(r) /\ r.step = "idle" /\ r.tries = 0 /\ r.tries \in 0..1
         /\ ~Requesting(r)
         /\ Reporting(r) => Reporting(call) /\ r.hash = call.hash
<1>1. CASE ready /\ call.report = "open"
  BY <1>1, CallAssumption
  DEF Ended, CallOK, IsCall, Counted, Idle, Stages, Reporting, Requesting
<1>2. CASE ~(ready /\ call.report = "open")
  BY <1>2, IdleOK DEF Ended, Idle, Reporting, Requesting
<1> QED
  BY <1>1, <1>2

\* A step that puts one call back to less than two requests, and ends no refused one.
LEMMA MovesTo ==
  ASSUME IInv, NEW c \in Calls, NEW r,
         calls' = [calls EXCEPT ![c] = r], UNCHANGED cache,
         CallOK(r), r.tries \in 0..1,
         Reporting(r) => Reporting(calls[c]) /\ r.hash = calls[c].hash,
         Requesting(r) => cached # 0,
         calls[c].step # "answered" \/ calls[c].reply # "401" \/ r.step # "idle"
  PROVE  Moves(c)
BY DEF IInv, CallsOK, Moves, Replaces, cache

\* The steps with which a call asks for a token and for an answer, and gets them.
LEMMA TransportMoves ==
  ASSUME IInv, NEW c \in Calls,
         \/ TokenRefreshed(c) \/ RetryRejected(c) \/ RequestFails(c)
         \/ Rejected(c) \/ TokenIssued(c) \/ SchwabAnswers(c)
  PROVE  Moves(c)
<1> DEFINE k == calls[c]
<1> CallsOK /\ CacheOK /\ CallOK(k) /\ DOMAIN calls = Calls
  BY DEF IInv, CallsOK
<1>1. CASE TokenRefreshed(c)
  <2> DEFINE r == Send(IF k.stage = "probe" THEN [k EXCEPT !.stage = "numbers"] ELSE k, k.tok)
  <2>1. calls' = [calls EXCEPT ![c] = r] /\ cached' = k.tok /\ k.step = "posted"
    BY <1>1 DEF TokenRefreshed
  <2>2. CallOK(r) /\ r.step = "calling" /\ r.report = k.report /\ r.hash = k.hash /\ r.tok = k.tok
    BY <2>1 DEF CallOK, IsCall, Counted, Send, Stages
  <2>3. k.tok # 0
    BY <2>1 DEF CallOK, Counted
  <2> HIDE DEF r
  <2> QED
    BY <2>1, <2>2, <2>3 DEF Moves, Replaces, Reporting
<1>2. CASE RetryRejected(c)
  <2>1. /\ calls' = [calls EXCEPT ![c].step = "posting", ![c].tok = 0, ![c].reply = "none"]
        /\ k.tries = 1
    BY <1>2 DEF RetryRejected
  <2>2. CallOK(calls'[c]) /\ calls'[c].step = "posting" /\ calls'[c].tries = 1
        /\ calls'[c].report = k.report /\ calls'[c].hash = k.hash
    BY <2>1, CallAssumption DEF CallOK, IsCall, Counted
  <2>3. DOMAIN calls' = Calls /\ \A d \in Calls \ {c} : calls'[d] = calls[d]
    BY <2>1
  <2> QED
    BY <2>2, <2>3 DEF Moves, Replaces, Reporting, Requesting
<1>3. CASE RequestFails(c)
  <2> DEFINE r == Ended(k, FALSE)
  <2>1. /\ calls' = [calls EXCEPT ![c] = r] /\ UNCHANGED cache
        /\ k.step # "answered"
    BY <1>3 DEF RequestFails
  <2>2. /\ CallOK(r) /\ r.tries \in 0..1 /\ ~Requesting(r)
        /\ Reporting(r) => Reporting(k) /\ r.hash = k.hash
    BY EndedEffect DEF CallOK
  <2> HIDE DEF r
  <2> QED
    BY <2>1, <2>2, MovesTo
<1>4. CASE Rejected(c)
  <2> DEFINE r == Ended(k, FALSE)
  <2>1. /\ calls' = [calls EXCEPT ![c] = r] /\ UNCHANGED cache
        /\ k.step = "answered" /\ (k.tries = 2 \/ cached = 0)
    BY <1>4 DEF Rejected, Final
  <2>2. k.tries = 2 \/ cleared \in Calls \ {c}
    BY <2>1 DEF IInv, Emptied, Requesting
  <2>3. /\ CallOK(r) /\ r.tries = 0 /\ ~Requesting(r)
        /\ Reporting(r) => Reporting(k) /\ r.hash = k.hash
    BY EndedEffect DEF CallOK
  <2> HIDE DEF r
  <2>4. calls'[c] = r /\ DOMAIN calls' = Calls /\ \A d \in Calls \ {c} : calls'[d] = calls[d]
    BY <2>1
  <2> QED
    BY <2>2, <2>3, <2>4 DEF Moves, Replaces
<1>5. CASE TokenIssued(c)
  <2>1. /\ calls' = [calls EXCEPT ![c].step = "posted", ![c].tok = issued + 1]
        /\ k.step = "posting" /\ issued < MaxTokens
    BY <1>5 DEF TokenIssued
  <2>2. issued + 1 \in 1..MaxTokens
    BY <2>1, CallAssumption DEF CacheOK
  <2>3. CallOK(calls'[c]) /\ calls'[c].step = "posted" /\ calls'[c].tries = k.tries
        /\ k.tries \in 0..1 /\ calls'[c].report = k.report /\ calls'[c].hash = k.hash
    BY <2>1, <2>2 DEF CallOK, IsCall, Counted
  <2>4. DOMAIN calls' = Calls /\ \A d \in Calls \ {c} : calls'[d] = calls[d]
    BY <2>1
  <2> QED
    BY <2>1, <2>3, <2>4 DEF Moves, Replaces, Reporting, Requesting
<1>6. CASE SchwabAnswers(c)
  <2>1. PICK x \in {"200", "401"} :
          /\ calls' = [calls EXCEPT ![c].step = "answered", ![c].reply = x]
          /\ k.step = "calling"
    BY <1>6 DEF SchwabAnswers
  <2>2. CallOK(calls'[c]) /\ calls'[c].step = "answered" /\ calls'[c].tries = k.tries
        /\ calls'[c].report = k.report /\ calls'[c].hash = k.hash
    BY <2>1 DEF CallOK, IsCall, Counted
  <2>3. DOMAIN calls' = Calls /\ \A d \in Calls \ {c} : calls'[d] = calls[d]
    BY <2>1
  <2> QED
    BY <2>1, <2>2, <2>3 DEF Moves, Replaces, Reporting, Requesting
<1> QED
  BY <1>1, <1>2, <1>3, <1>4, <1>5, <1>6

\* The steps of the checks.
LEMMA CheckMoves ==
  ASSUME IInv, NEW a \in Accounts, Check(a) \/ NumbersRead(a) \/ DetailRead(a)
  PROVE  Moves(a)
<1> a \in Calls /\ CacheOK /\ MappingOK /\ CallOK(calls[a])
  BY DEF IInv, CallsOK, Calls
<1>1. CASE Check(a)
  BY <1>1, BeginEffect, MovesTo DEF Check
<1>2. CASE NumbersRead(a)
  BY <1>2, RequestEffect, MovesTo DEF NumbersRead, Stages, CallOK, Reporting
<1>3. CASE DetailRead(a)
  <2>1. PICK ready \in BOOLEAN : calls' = [calls EXCEPT ![a] = Ended(calls[a], ready)]
    BY <1>3 DEF DetailRead
  <2> DEFINE r == Ended(calls[a], ready)
  <2>2. calls' = [calls EXCEPT ![a] = r]
    BY <2>1
  <2>3. /\ CallOK(r) /\ r.tries \in 0..1 /\ ~Requesting(r)
        /\ Reporting(r) => Reporting(calls[a]) /\ r.hash = calls[a].hash
    BY EndedEffect DEF CallOK
  <2>4. calls[a].reply = "200" /\ UNCHANGED cache
    BY <1>3 DEF DetailRead
  <2> HIDE DEF r
  <2> QED
    BY <2>2, <2>3, <2>4, MovesTo
<1> QED
  BY <1>1, <1>2, <1>3

\* The steps of the owner's calls.
LEMMA OwnerMoves ==
  ASSUME IInv, NEW o \in Owner,
         \/ ListCandidates(o) \/ CandidatesRead(o) \/ SaveMapping(o)
         \/ \E a \in Accounts, h \in Hashes : ConfirmCandidate(o, a, h)
  PROVE  Moves(o)
<1> o \in Calls /\ CacheOK /\ CallOK(calls[o])
  BY DEF IInv, CallsOK, Calls
<1>1. CASE ListCandidates(o)
  BY <1>1, IdleOK, RequestEffect, MovesTo
  DEF ListCandidates, Stages, CallOK, Reporting, Idle
<1>2. CASE CandidatesRead(o) \/ SaveMapping(o)
  <2>1. /\ calls' = [calls EXCEPT ![o] = Idle] /\ UNCHANGED cache
        /\ calls[o].reply = "200"
    BY <1>2 DEF CandidatesRead, SaveMapping
  <2>2. ~Reporting(Idle) /\ ~Requesting(Idle) /\ Idle.tries \in 0..1
    BY DEF Idle, Reporting, Requesting
  <2> QED
    BY <2>1, <2>2, IdleOK, MovesTo
<1>3. ASSUME NEW a \in Accounts, NEW h \in Hashes, ConfirmCandidate(o, a, h)
      PROVE  Moves(o)
  <2> DEFINE k == [Idle EXCEPT !.account = a, !.hash = h]
  <2>1. IsCall(k) /\ k.report = "none"
    BY CallAssumption DEF IsCall, Idle, Stages
  <2>2. calls' = [calls EXCEPT ![o] = Request(k, "confirm")] /\ UNCHANGED cache
        /\ calls[o].step = "idle"
    BY <1>3 DEF ConfirmCandidate
  <2> HIDE DEF k
  <2> QED
    BY <2>1, <2>2, RequestEffect, MovesTo DEF Stages, Reporting
<1> QED
  BY <1>1, <1>2, <1>3

-----------------------------------------------------------------------------
(* The invariant is inductive. *)

\* A step of one call keeps every call well-formed and the report's mappings apart.
LEMMA MovesKeep ==
  ASSUME IInv, NEW c \in Calls, Moves(c)
  PROVE  CallsOK' /\ ReportsApart'
<1>1. CallsOK'
  BY DEF IInv, CallsOK, Moves
<1>2. ASSUME NEW d \in Calls, Reporting(calls'[d])
      PROVE  Reporting(calls[d]) /\ calls'[d].hash = calls[d].hash
  BY <1>2 DEF Moves
<1>3. ReportsApart'
  BY <1>2 DEF IInv, ReportsApart, Calls
<1> QED
  BY <1>1, <1>3

\* A step of one call that leaves the cache alone, or fills it, leaves the other
\* calls with as good a reason to find it empty.
LEMMA MovesEmptied ==
  ASSUME IInv, NEW c \in Calls, Moves(c), UNCHANGED <<cached, cleared>> \/ cached' # 0
  PROVE  Emptied'
<1>1. ASSUME NEW d \in Calls, Requesting(calls'[d]), cached' = 0 PROVE Requesting(calls[d])
  BY <1>1 DEF Moves
<1> QED
  BY <1>1 DEF IInv, Emptied

\* The candidate that is saved is mapped to no other account.
LEMMA SavedApart ==
  ASSUME IInv, NEW o \in Owner, SaveMapping(o)
  PROVE  MappingOK'
<1> DEFINE a == calls[o].account  h == calls[o].hash
<1>1. h \in Hashes \cup {None}
  BY DEF IInv, CallsOK, CallOK, IsCall, Calls
<1>2. mapping' = IF \A b \in Accounts \ {a} : mapping[b] # h
                 THEN [mapping EXCEPT ![a] = h] ELSE mapping
  BY DEF SaveMapping
<1> HIDE DEF a, h
<1> QED
  BY <1>1, <1>2 DEF IInv, MappingOK

\* What a step of one call does to cache and mappings.
LEMMA CallStepKeeps ==
  ASSUME IInv, NEW c \in Calls, Moves(c), UNCHANGED <<cache, mapping, schwab>>
  PROVE  IInv'
<1>1. CacheOK' /\ MappingOK'
  BY DEF IInv, CacheOK, MappingOK, cache, schwab
<1>2. Emptied'
  BY MovesEmptied DEF cache
<1> QED
  BY <1>1, <1>2, MovesKeep DEF IInv

\* All checks of a report start with the mappings as they are now.
LEMMA CheckAllKeeps ==
  ASSUME IInv, CheckAll
  PROVE  /\ IInv'
         /\ \A c \in Calls : Replaces(c)
<1>1. \A a \in Accounts : calls'[a] = BeginCheck(a, "open") /\ calls[a].step = "idle"
  BY DEF CheckAll, Calls
<1>2. \A c \in Calls \ Accounts : calls'[c] = calls[c]
  BY DEF CheckAll
<1>3. CacheOK' /\ MappingOK'
  BY DEF CheckAll, IInv, CacheOK, MappingOK, cache, schwab
<1>4. ASSUME NEW a \in Accounts
      PROVE  /\ CallOK(calls'[a]) /\ calls'[a].tries \in 0..1
             /\ Requesting(calls'[a]) => cached # 0
             /\ Reporting(calls'[a]) => mapping[a] # None /\ calls'[a].hash = mapping[a]
  BY <1>1, BeginEffect DEF IInv
<1>5. CallsOK'
  <2>1. DOMAIN calls' = Calls
    BY DEF CheckAll
  <2>2. \A c \in Calls : CallOK(calls'[c])
    BY <1>2, <1>4 DEF IInv, CallsOK
  <2> QED
    BY <2>1, <2>2 DEF CallsOK
<1>6. ReportsApart'
  BY <1>4 DEF IInv, MappingOK, ReportsApart
<1>7. Emptied'
  <2>1. UNCHANGED <<cached, cleared>>
    BY DEF CheckAll, cache
  <2> QED
    BY <1>2, <1>4, <2>1 DEF IInv, Emptied
<1>8. \A c \in Calls : Replaces(c)
  <2>1. ASSUME NEW c \in Accounts PROVE Replaces(c)
    BY <1>1, <1>4, <2>1 DEF Replaces
  <2>2. ASSUME NEW c \in Calls \ Accounts PROVE Replaces(c)
    <3>1. calls'[c] = calls[c]
      BY <1>2
    <3> QED
      BY <3>1 DEF Replaces
  <2> QED
    BY <2>1, <2>2
<1> QED
  BY <1>3, <1>5, <1>6, <1>7, <1>8 DEF IInv

\* Every step of a call.
CallStep(c) ==
  \/ TokenRefreshed(c) \/ RetryRejected(c) \/ RequestFails(c)
  \/ Rejected(c) \/ TokenIssued(c) \/ SchwabAnswers(c)
  \/ c \in Accounts /\ (Check(c) \/ NumbersRead(c) \/ DetailRead(c))
  \/ /\ c \in Owner
     /\ \/ ListCandidates(c) \/ CandidatesRead(c) \/ SaveMapping(c)
        \/ \E a \in Accounts, h \in Hashes : ConfirmCandidate(c, a, h)

LEMMA CallStepMoves ==
  ASSUME IInv, NEW c \in Calls, CallStep(c)
  PROVE  Moves(c)
BY TransportMoves, CheckMoves, OwnerMoves DEF CallStep

LEMMA CallStepInductive ==
  ASSUME IInv, NEW c \in Calls, CallStep(c)
  PROVE  IInv'
<1>1. Moves(c)
  BY CallStepMoves
<1>2. CASE TokenRefreshed(c)
  <2>1. calls[c].tok # 0 /\ calls[c].tok \in 0..MaxTokens
    BY <1>2 DEF TokenRefreshed, IInv, CallsOK, CallOK, IsCall, Counted
  <2>2. CacheOK' /\ MappingOK' /\ cached' # 0
    BY <1>2, <2>1 DEF TokenRefreshed, IInv, CacheOK, MappingOK, schwab
  <2> QED
    BY <1>1, <2>2, MovesKeep, MovesEmptied DEF IInv
<1>3. CASE RetryRejected(c)
  <2>1. CacheOK' /\ MappingOK'
    <3>1. fresh' \in BOOLEAN /\ ~fresh'
      BY <1>3 DEF RetryRejected
    <3>2. cached' \in 0..MaxTokens /\ cleared' \in Calls \cup {None}
      BY <1>3, CallAssumption DEF RetryRejected
    <3>3. UNCHANGED <<mapping, issued, accepted>>
      BY <1>3 DEF RetryRejected, schwab
    <3> QED
      BY <3>1, <3>2, <3>3 DEF IInv, CacheOK, MappingOK
  <2>2. Emptied'
    <3>1. cleared' = c /\ calls'[c].step = "posting"
      BY <1>3 DEF RetryRejected, IInv, CallsOK, CallOK, IsCall
    <3> QED
      BY <3>1 DEF Emptied, Requesting
  <2> QED
    BY <1>1, <2>1, <2>2, MovesKeep DEF IInv
<1>4. CASE TokenIssued(c)
  <2>1. issued' \in 0..MaxTokens /\ accepted' \subseteq 1..issued'
    <3>1. issued \in Nat /\ issued < MaxTokens /\ accepted \subseteq 1..issued
      BY <1>4, CallAssumption DEF TokenIssued, IInv, CacheOK
    <3> QED
      BY <1>4, <3>1, CallAssumption DEF TokenIssued
  <2>2. CacheOK' /\ MappingOK' /\ UNCHANGED <<cached, cleared>>
    BY <1>4, <2>1 DEF TokenIssued, IInv, CacheOK, MappingOK, cache
  <2> QED
    BY <1>1, <2>2, MovesKeep, MovesEmptied DEF IInv
<1>5. CASE c \in Owner /\ SaveMapping(c)
  <2>1. CacheOK' /\ UNCHANGED <<cached, cleared>>
    BY <1>5 DEF SaveMapping, IInv, CacheOK, cache, schwab
  <2> QED
    BY <1>1, <1>5, <2>1, SavedApart, MovesKeep, MovesEmptied DEF IInv
<1>6. CASE RequestFails(c) \/ Rejected(c) \/ SchwabAnswers(c)
  BY <1>1, <1>6, CallStepKeeps DEF RequestFails, Rejected, SchwabAnswers
<1>7. CASE Check(c) \/ NumbersRead(c) \/ DetailRead(c)
  BY <1>1, <1>7, CallStepKeeps DEF Check, NumbersRead, DetailRead
<1>8. CASE ListCandidates(c) \/ CandidatesRead(c)
  BY <1>1, <1>8, CallStepKeeps DEF ListCandidates, CandidatesRead
<1>9. ASSUME NEW a \in Accounts, NEW h \in Hashes, ConfirmCandidate(c, a, h)
      PROVE  IInv'
  BY <1>1, <1>9, CallStepKeeps DEF ConfirmCandidate
<1> QED
  <2>1. CASE c \in Owner /\ \E a \in Accounts, h \in Hashes : ConfirmCandidate(c, a, h)
    BY <1>9, <2>1
  <2> QED
    BY <1>2, <1>3, <1>4, <1>5, <1>6, <1>7, <1>8, <2>1 DEF CallStep

\* What is not the step of one call.
OtherStep ==
  \/ \E a \in Accounts : DeleteMapping(a)
  \/ \E t \in Tokens : Revoke(t)
  \/ Expire

LEMMA OtherKeeps ==
  ASSUME IInv, OtherStep
  PROVE  IInv' /\ UNCHANGED calls
<1>1. UNCHANGED <<calls, cached, cleared>>
  BY DEF OtherStep, DeleteMapping, Revoke, Expire, cache
<1>2. CallsOK' /\ Emptied' /\ ReportsApart'
  BY <1>1 DEF IInv, CallsOK, Emptied, ReportsApart
<1>3. ASSUME NEW a \in Accounts, DeleteMapping(a) PROVE CacheOK' /\ MappingOK'
  BY <1>3 DEF DeleteMapping, IInv, CacheOK, MappingOK, cache, schwab
<1>4. ASSUME NEW t \in Tokens, Revoke(t) PROVE CacheOK' /\ MappingOK'
  BY <1>4 DEF Revoke, IInv, CacheOK, MappingOK, cache
<1>5. ASSUME Expire PROVE CacheOK' /\ MappingOK'
  <2>1. fresh' \in BOOLEAN /\ ~fresh'
    BY <1>5 DEF Expire
  <2>2. UNCHANGED <<cached, cleared, mapping, issued, accepted>>
    BY <1>5 DEF Expire, schwab
  <2> QED
    BY <2>1, <2>2 DEF IInv, CacheOK, MappingOK
<1> QED
  BY <1>1, <1>2, <1>3, <1>4, <1>5 DEF OtherStep, IInv

LEMMA NextSteps ==
  ASSUME Next
  PROVE  (\E c \in Calls : CallStep(c)) \/ CheckAll \/ OtherStep
BY DEF Next, CallStep, OtherStep, Calls

LEMMA Initially == Init => IInv
<1> SUFFICES ASSUME Init PROVE IInv
  OBVIOUS
<1>1. CacheOK /\ MappingOK
  <2>1. fresh \in BOOLEAN /\ ~fresh
    BY DEF Init
  <2>2. 0 \in 0..MaxTokens
    BY CallAssumption
  <2> QED
    BY <2>1, <2>2 DEF Init, CacheOK, MappingOK
<1>2. CallsOK
  BY IdleOK DEF Init, CallsOK
<1>3. \A c \in Calls : ~Requesting(calls[c]) /\ ~Reporting(calls[c])
  BY DEF Init, Idle, Requesting, Reporting
<1>4. Emptied /\ ReportsApart
  BY <1>3 DEF Emptied, ReportsApart, Calls
<1> QED
  BY <1>1, <1>2, <1>4 DEF IInv

LEMMA Inductive == IInv /\ [Next]_vars => IInv'
<1> SUFFICES ASSUME IInv, [Next]_vars PROVE IInv'
  OBVIOUS
<1>1. CASE Next
  BY <1>1, NextSteps, CallStepInductive, CheckAllKeeps, OtherKeeps
<1>2. CASE UNCHANGED vars
  BY <1>2 DEF vars, cache, schwab, IInv, CacheOK, MappingOK, CallsOK, Emptied, ReportsApart
<1> QED
  BY <1>1, <1>2

-----------------------------------------------------------------------------
(* What follows *)

\* The cache is only found empty for a reason, mappings are never shared, and the
\* checks of a report keep them apart.
THEOREM Invariance == Spec => []IInv
BY Initially, Inductive, PTL DEF Spec

\* Every variable keeps its type: no call sends a third request, and a token is
\* cached while its expiry is to come.
THEOREM TypeCorrect == Spec => []TypeOK
<1>1. IInv => TypeOK
  BY DEF IInv, CacheOK, MappingOK, CallsOK, CallOK, IsCall, TypeOK, Stages
<1> QED
  BY <1>1, Invariance, PTL

\* However the owner maps and unmaps accounts while a report is made, the ones it
\* shows ready stand for different accounts at Schwab (check_all_readiness).
THEOREM Distinct == Spec => []ReadyDistinct
<1>1. IInv => ReadyDistinct
  BY DEF IInv, ReportsApart, Reporting, ReadyDistinct
<1> QED
  BY <1>1, Invariance, PTL

\* Any number of calls may be refused, and refresh the token, at the same time: who
\* tries again sends the token that is in the cache then, and who gives up at once
\* found that another call had emptied it (SchwabOAuthTransport.request).
THEOREM Replaced == Spec => TokenReplaced
<1> DEFINE A == \A c \in Calls :
       /\ (calls[c].tries = 1 /\ calls'[c].tries = 2) =>
            calls[c].step = "posted" /\ calls'[c].tok = cached'
       /\ (calls[c].step = "answered" /\ calls[c].reply = "401" /\ calls'[c].step = "idle") =>
            \/ calls[c].tries = 2
            \/ cleared \in Calls \ {c}
<1>1. IInv /\ [Next]_vars => [A]_vars
  <2> SUFFICES ASSUME IInv, Next PROVE \A c \in Calls : Replaces(c)
    BY DEF Replaces
  <2>1. ASSUME NEW d \in Calls, CallStep(d) PROVE \A c \in Calls : Replaces(c)
    <3>1. Moves(d)
      BY <2>1, CallStepMoves
    <3>2. ASSUME NEW c \in Calls, calls'[c] = calls[c] PROVE Replaces(c)
      BY <3>2 DEF Replaces
    <3> QED
      BY <3>1, <3>2 DEF Moves
  <2>2. ASSUME OtherStep PROVE \A c \in Calls : Replaces(c)
    BY <2>2, OtherKeeps DEF Replaces
  <2> QED
    BY <2>1, <2>2, CheckAllKeeps, NextSteps
<1> QED
  BY <1>1, Invariance, PTL DEF Spec, TokenReplaced
===============================================================================
