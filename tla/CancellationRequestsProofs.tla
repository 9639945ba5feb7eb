---------------------- MODULE CancellationRequestsProofs ----------------------
(***************************************************************************)
(* Proofs about CancellationRequests for any number of requests, codes and *)
(* servers.  The invariant says what each process may rely on between two  *)
(* of its steps, while the other processes read and write the same rows.   *)
(***************************************************************************)
EXTENDS CancellationRequests, TLAPS

\* A request gets one code ever: only a pending request is authorized, and no
\* request is pending again.
OneCode ==
  /\ \A k, l \in Codes : code[k].req # None /\ code[k].req = code[l].req => k = l
  /\ \A k \in Codes : code[k].req # None => request[code[k].req].status \notin {"none", "pending"}

\* What a process may rely on where it is: a function about to close requests
\* gives them a final status; the request being authorized has no code; on the
\* way to the cancellation the code is the request's, and once it is consumed
\* the request is still to be attempted.
Knows(p) ==
  /\ pc[p] = "closing" => local[p].status \in {"invalidated", "expired"}
  /\ pc[p] \in {"reviewing", "authorizing"} => /\ p = Api
                                               /\ local[p].req \in Requests
                                               /\ \A k \in Codes : code[k].req # local[p].req
  /\ pc[p] \in {"checked", "loaded", "verifying", "consumed"} => local[p].req \in Requests
  /\ pc[p] \in {"verifying", "consumed"} => /\ local[p].code \in Codes
                                            /\ code[local[p].code].req = local[p].req
  /\ pc[p] = "consumed" => /\ code[local[p].code].consumed
                           /\ request[local[p].req].status # "attempted"

\* Two processes never get as far with the same code.
Apart ==
  \A p, q \in Processes :
    pc[p] = "consumed" /\ pc[q] = "consumed" /\ local[p].code = local[q].code => p = q

IInv ==
  /\ TypeOK
  /\ OneCode
  /\ CodeFollowsRequest
  /\ GuessesLimited
  /\ \A p \in Processes : Knows(p)
  /\ Apart

-----------------------------------------------------------------------------
(* How processes and rows change. *)

\* Where a process goes and what it keeps.
LEMMA Moves ==
  ASSUME TypeOK, NEW p \in Processes, NEW l \in Labels, NEW m \in Locals,
         Goto(p, l), Keep(p, m)
  PROVE  /\ pc' \in [Processes -> Labels]
         /\ local' \in [Processes -> Locals]
         /\ pc'[p] = l /\ local'[p] = m
         /\ \A q \in Processes \ {p} : pc'[q] = pc[q] /\ local'[q] = local[q]
BY DEF TypeOK, Goto, Keep

\* A function that returns keeps nothing.
LEMMA Returns ==
  ASSUME TypeOK, NEW p \in Processes, Return(p)
  PROVE  /\ pc' \in [Processes -> Labels]
         /\ local' \in [Processes -> Locals]
         /\ pc'[p] = "idle"
         /\ \A q \in Processes \ {p} : pc'[q] = pc[q] /\ local'[q] = local[q]
<1>1. Nothing \in Locals
  BY DEF Nothing, Locals, Statuses
<1> QED
  BY <1>1, Moves DEF Return, Labels

\* A function that is about to close requests knows which.
LEMMA Closes ==
  ASSUME TypeOK, NEW p \in Processes, NEW s \in SUBSET Requests,
         NEW status \in {"invalidated", "expired"}, Closing(p, s, status)
  PROVE  /\ pc' \in [Processes -> Labels]
         /\ local' \in [Processes -> Locals]
         /\ pc'[p] = "closing" /\ local'[p].status = status
         /\ \A q \in Processes \ {p} : pc'[q] = pc[q] /\ local'[q] = local[q]
<1>1. [Nothing EXCEPT !.close = s, !.status = status] \in Locals
  BY DEF Nothing, Locals, Statuses
<1>2. [Nothing EXCEPT !.close = s, !.status = status].status = status
  BY DEF Nothing
<1> QED
  BY <1>1, <1>2, Moves DEF Closing, Labels

\* The codes after those of some requests were invalidated: only usable codes
\* of these requests changed, and only in being invalid now.
LEMMA Invalidates ==
  ASSUME TypeOK, NEW s \in SUBSET Requests, NEW k \in Codes
  PROVE  /\ Invalidated(s)[k] \in CodeRows
         /\ Invalidated(s)[k].req = code[k].req
         /\ Invalidated(s)[k].fails = code[k].fails
         /\ Invalidated(s)[k].consumed = code[k].consumed
         /\ code[k].invalid => Invalidated(s)[k].invalid
         /\ Usable(k) /\ code[k].req \in s => Invalidated(s)[k].invalid
<1> DEFINE invalid == code[k].invalid \/ (code[k].req \in s /\ Usable(k))
           closed == [code[k] EXCEPT !.invalid = invalid]
<1>1. Invalidated(s)[k] = closed
  BY DEF Invalidated
<1>2. code[k] \in CodeRows
  BY DEF TypeOK
<1>3. invalid \in BOOLEAN
  OBVIOUS
<1>4. /\ code[k].invalid => invalid
      /\ Usable(k) /\ code[k].req \in s => invalid
  OBVIOUS
<1> HIDE DEF invalid
<1>5. /\ closed \in CodeRows
      /\ closed.req = code[k].req /\ closed.consumed = code[k].consumed
      /\ closed.fails = code[k].fails /\ closed.invalid = invalid
  BY <1>2, <1>3 DEF CodeRows
<1> QED
  BY <1>1, <1>4, <1>5

\* The rows after the requests in s were closed, their codes with them.
Closed(s, status) ==
  /\ \A k \in Codes : /\ code'[k].req = code[k].req
                      /\ code'[k].fails = code[k].fails
                      /\ code'[k].consumed = code[k].consumed
                      /\ Usable(k)' => Usable(k) /\ code[k].req \notin s
  /\ \A r \in Requests : request'[r].status = IF r \in s THEN status ELSE request[r].status

\* Closing requests keeps the rows typed and does what it says.
LEMMA CloseRows ==
  ASSUME TypeOK, NEW s \in SUBSET Requests, NEW status \in {"invalidated", "expired"},
         Close(s, status)
  PROVE  /\ request' \in [Requests -> RequestRows]
         /\ code' \in [Codes -> CodeRows]
         /\ audited' \subseteq Requests
         /\ Closed(s, status)
<1>1. code' = Invalidated(s) /\ audited' = audited \cup s
  BY DEF Close
<1>2. code' \in [Codes -> CodeRows]
  <2>1. \A k \in Codes : Invalidated(s)[k] \in CodeRows
    BY Invalidates
  <2>2. Invalidated(s) = [k \in Codes |-> Invalidated(s)[k]]
    BY DEF Invalidated
  <2> QED
    BY <1>1, <2>1, <2>2
<1>3. ASSUME NEW k \in Codes
      PROVE  /\ code'[k].req = code[k].req
             /\ code'[k].fails = code[k].fails
             /\ code'[k].consumed = code[k].consumed
             /\ Usable(k)' => Usable(k) /\ code[k].req \notin s
  <2>1. Usable(k)' => Usable(k)
    BY <1>1, Invalidates DEF Usable
  <2>2. Usable(k)' /\ Usable(k) => code[k].req \notin s
    BY <1>1, Invalidates DEF Usable
  <2> QED
    BY <1>1, <2>1, <2>2, Invalidates
<1>4. /\ request' \in [Requests -> RequestRows]
      /\ \A r \in Requests : request'[r].status = IF r \in s THEN status ELSE request[r].status
  BY DEF Close, TypeOK, RequestRows, Statuses
<1> QED
  BY <1>1, <1>2, <1>3, <1>4 DEF Closed, TypeOK

\* Closing no request: the rows stay.
LEMMA ClosedNone ==
  ASSUME UNCHANGED <<request, code>>
  PROVE  Closed({}, "invalidated")
BY DEF Closed, Usable

\* Closing requests keeps what is said of the rows.
LEMMA ClosedKeeps ==
  ASSUME OneCode, CodeFollowsRequest, GuessesLimited, TypeOK,
         NEW s \in SUBSET Requests, NEW status \in {"invalidated", "expired"},
         Closed(s, status)
  PROVE  OneCode' /\ CodeFollowsRequest' /\ GuessesLimited'
<1>1. \A k \in Codes : code[k].req \in Requests \cup {None}
  BY DEF TypeOK, CodeRows
<1>2. OneCode'
  BY <1>1 DEF OneCode, Closed
<1>3. CodeFollowsRequest'
  <2> SUFFICES ASSUME NEW k \in Codes, Usable(k)'
               PROVE  request'[code'[k].req].status = "authorized"
    BY DEF CodeFollowsRequest
  <2>1. Usable(k) /\ code[k].req \notin s /\ code'[k].req = code[k].req
    BY DEF Closed
  <2>2. code[k].req \in Requests /\ request[code[k].req].status = "authorized"
    BY <1>1, <2>1 DEF Usable, CodeFollowsRequest
  <2> QED
    BY <2>1, <2>2 DEF Closed
<1>4. GuessesLimited'
  <2> SUFFICES ASSUME NEW k \in Codes
               PROVE  /\ code'[k].fails <= MaxAttempts
                      /\ code'[k].fails = MaxAttempts => ~Usable(k)' /\ ~code'[k].consumed
    BY DEF GuessesLimited
  <2>1. code'[k].fails = code[k].fails /\ code'[k].consumed = code[k].consumed
    BY DEF Closed
  <2>2. Usable(k)' => Usable(k)
    BY DEF Closed
  <2>3. /\ code[k].fails <= MaxAttempts
        /\ code[k].fails = MaxAttempts => ~Usable(k) /\ ~code[k].consumed
    BY DEF GuessesLimited
  <2> QED
    BY <2>1, <2>2, <2>3
<1> QED
  BY <1>2, <1>3, <1>4

\* What a process relies on while another one moves: codes keep their request
\* and stay consumed, and no request is attempted that was not.
LEMMA KnowsKept ==
  ASSUME TypeOK, NEW q \in Processes, Knows(q), pc'[q] = pc[q], local'[q] = local[q],
         \A k \in Codes : /\ code'[k].req = code[k].req
                          /\ code[k].consumed => code'[k].consumed,
         \A r \in Requests : request'[r].status = "attempted" => request[r].status = "attempted"
  PROVE  Knows(q)'
BY DEF Knows

\* The same for all processes, when the one that moves does not consume a code.
LEMMA OneMoves ==
  ASSUME IInv, NEW p \in Processes,
         \A q \in Processes \ {p} : pc'[q] = pc[q] /\ local'[q] = local[q],
         \A k \in Codes : /\ code'[k].req = code[k].req
                          /\ code[k].consumed => code'[k].consumed,
         \A r \in Requests : request'[r].status = "attempted" => request[r].status = "attempted",
         Knows(p)',
         pc'[p] # "consumed"
  PROVE  (\A q \in Processes : Knows(q)') /\ Apart'
<1>1. \A q \in Processes : Knows(q)'
  <2> SUFFICES ASSUME NEW q \in Processes, q # p PROVE Knows(q)'
    OBVIOUS
  <2>1. Knows(q) /\ TypeOK
    BY DEF IInv
  <2> QED
    BY <2>1, KnowsKept
<1>2. Apart'
  BY DEF IInv, Apart
<1> QED
  BY <1>1, <1>2

\* A step of one process, at most closing requests, that does not lead to a
\* consumed code.
LEMMA ClosingStep ==
  ASSUME IInv, TypeOK', NEW p \in Processes,
         NEW s \in SUBSET Requests, NEW status \in {"invalidated", "expired"},
         Closed(s, status),
         \A q \in Processes \ {p} : pc'[q] = pc[q] /\ local'[q] = local[q],
         Knows(p)',
         pc'[p] # "consumed"
  PROVE  IInv'
<1>1. OneCode' /\ CodeFollowsRequest' /\ GuessesLimited'
  BY ClosedKeeps DEF IInv
<1>2. (\A q \in Processes : Knows(q)') /\ Apart'
  <2>1. /\ \A k \in Codes : /\ code'[k].req = code[k].req
                            /\ code[k].consumed => code'[k].consumed
        /\ \A r \in Requests :
             request'[r].status = "attempted" => request[r].status = "attempted"
    BY DEF Closed
  <2> QED
    BY <2>1, OneMoves
<1> QED
  BY <1>1, <1>2 DEF IInv

\* A step, at most closing requests, in which all processes stay where they are.
LEMMA StandingStep ==
  ASSUME IInv, TypeOK', UNCHANGED <<pc, local>>,
         NEW s \in SUBSET Requests, NEW status \in {"invalidated", "expired"},
         Closed(s, status)
  PROVE  IInv'
<1>1. OneCode' /\ CodeFollowsRequest' /\ GuessesLimited'
  BY ClosedKeeps DEF IInv
<1>2. \A q \in Processes : Knows(q)'
  <2> SUFFICES ASSUME NEW q \in Processes PROVE Knows(q)'
    OBVIOUS
  <2>1. /\ \A k \in Codes : /\ code'[k].req = code[k].req
                            /\ code[k].consumed => code'[k].consumed
        /\ \A r \in Requests :
             request'[r].status = "attempted" => request[r].status = "attempted"
    BY DEF Closed
  <2>2. Knows(q) /\ TypeOK
    BY DEF IInv
  <2> QED
    BY <2>1, <2>2, KnowsKept
<1>3. Apart'
  BY DEF IInv, Apart
<1> QED
  BY <1>1, <1>2, <1>3 DEF IInv

-----------------------------------------------------------------------------
(* The actions. *)

\* Reading, and what a function does with what it read, leaves the rows alone:
\* the process returns, is about to close requests or goes on.
LEMMA ReadStep ==
  ASSUME IInv, NEW p \in Processes, UNCHANGED <<order, request, code, audited, late>>,
         going' \subseteq Requests,
         \/ Return(p)
         \/ \E s \in SUBSET Requests, status \in {"invalidated", "expired"} : Closing(p, s, status)
         \/ \E l \in Labels \ {"consumed"}, m \in Locals : /\ Goto(p, l)
                                                           /\ Keep(p, m)
                                                           /\ Knows(p)'
  PROVE  IInv'
<1> TypeOK
  BY DEF IInv
<1> DEFINE Moved == /\ pc' \in [Processes -> Labels] /\ local' \in [Processes -> Locals]
                    /\ \A q \in Processes \ {p} : pc'[q] = pc[q] /\ local'[q] = local[q]
                    /\ Knows(p)'
                    /\ pc'[p] # "consumed"
<1>1. Moved
  <2>1. CASE Return(p)
    BY <2>1, Returns DEF Knows
  <2>2. ASSUME NEW s \in SUBSET Requests, NEW status \in {"invalidated", "expired"},
               Closing(p, s, status)
        PROVE  Moved
    BY <2>2, Closes DEF Knows
  <2>3. ASSUME NEW l \in Labels \ {"consumed"}, NEW m \in Locals,
               Goto(p, l), Keep(p, m), Knows(p)'
        PROVE  Moved
    BY <2>3, Moves
  <2> QED
    BY <2>1, <2>2, <2>3
<1>2. TypeOK'
  BY <1>1 DEF TypeOK
<1>3. Closed({}, "invalidated")
  BY ClosedNone
<1> QED
  BY <1>1, <1>2, <1>3, ClosingStep

\* The statuses that leave a request open, and the requests in them.
LEMMA Kinds ==
  /\ {"invalidated", "expired"} \subseteq Statuses
  /\ \A s : Requested(s) \in SUBSET Requests
  /\ {"idle", "reviewing", "authorizing", "closing", "checked", "loaded", "verifying"}
       \subseteq Labels \ {"consumed"}
  /\ "consumed" \in Labels
BY DEF Statuses, Requested, Labels

\* The order moves and takes its requests along.
LEMMA OrderMovesStep ==
  ASSUME IInv, NEW p \in Processes, OrderMoves(p)
  PROVE  IInv'
<1> TypeOK /\ Requested(Active) \in SUBSET Requests
  BY Kinds DEF IInv
<1>1. Close(Requested(Active), "invalidated")
  BY DEF OrderMoves
<1>2. order' \in [version : Nat, open : BOOLEAN]
  BY DEF OrderMoves, TypeOK
<1>3. TypeOK'
  BY <1>1, <1>2, CloseRows DEF OrderMoves, TypeOK
<1> QED
  BY <1>1, <1>3, CloseRows, StandingStep DEF OrderMoves

\* A function closes what it read.
LEMMA CloseReadStep ==
  ASSUME IInv, NEW p \in Processes, CloseRead(p)
  PROVE  IInv'
<1> TypeOK
  BY DEF IInv
<1>1. local[p].close \in SUBSET Requests /\ local[p].status \in {"invalidated", "expired"}
  BY DEF IInv, Knows, CloseRead, TypeOK, Locals
<1>2. CASE Close(local[p].close, local[p].status)
  <2>1. TypeOK'
    BY <1>1, <1>2, CloseRows, Returns DEF CloseRead, TypeOK
  <2>2. Knows(p)' /\ pc'[p] # "consumed"
    BY Returns DEF CloseRead, Knows
  <2>3. Closed(local[p].close, local[p].status)
    BY <1>1, <1>2, CloseRows
  <2>4. \A q \in Processes \ {p} : pc'[q] = pc[q] /\ local'[q] = local[q]
    BY Returns DEF CloseRead
  <2> QED
    BY <1>1, <2>1, <2>2, <2>3, <2>4, ClosingStep
<1>3. CASE UNCHANGED <<request, code, audited>>
  BY <1>3, ReadStep DEF CloseRead, TypeOK
<1> QED
  BY <1>2, <1>3 DEF CloseRead

\* A cancellation begins, or is refused.
LEMMA BeginStep ==
  ASSUME IInv, NEW r \in Requests, Begin(r)
  PROVE  IInv'
<1> TypeOK /\ Requested(Active) \in SUBSET Requests
  BY Kinds DEF IInv
<1>1. UNCHANGED <<late, pc, local>> /\ going' \subseteq Requests
  BY DEF Begin, TypeOK
<1>2. CASE /\ order' = [version |-> order.version + 1, open |-> FALSE]
           /\ Close(Requested(Active), "invalidated")
  <2>1. TypeOK'
    BY <1>1, <1>2, CloseRows DEF TypeOK
  <2> QED
    BY <1>1, <1>2, <2>1, CloseRows, StandingStep
<1>3. CASE UNCHANGED <<order, request, code, audited>>
  <2>1. TypeOK'
    BY <1>1, <1>3 DEF TypeOK
  <2> QED
    BY <1>1, <1>3, <2>1, ClosedNone, StandingStep
<1> QED
  BY <1>2, <1>3 DEF Begin

\* Time passes.
LEMMA ExpireStep ==
  ASSUME IInv, NEW r \in Requests, Expire(r)
  PROVE  IInv'
<1>1. TypeOK'
  BY DEF Expire, IInv, TypeOK
<1> QED
  BY <1>1, ClosedNone, StandingStep DEF Expire

\* A process dies.
LEMMA CrashStep ==
  ASSUME IInv, NEW p \in Processes, Crash(p)
  PROVE  IInv'
BY ReadStep DEF Crash, IInv, TypeOK

\* The dashboard reads a request, to show or to authorize it, and its order.
LEMMA DashboardStep ==
  ASSUME IInv, (\E r \in Requests : GetRequest(r) \/ AuthorizeRead(r)) \/ ReviewOrder
  PROVE  IInv'
<1> Api \in Processes /\ TypeOK
  BY DEF Processes, IInv
<1> going' \subseteq Requests
  BY DEF GetRequest, AuthorizeRead, ReviewOrder, TypeOK
<1> UNCHANGED <<order, request, code, audited, late>>
  BY DEF GetRequest, AuthorizeRead, ReviewOrder
<1>1. CASE \E s \in SUBSET Requests, status \in {"invalidated", "expired"} : Closing(Api, s, status)
  BY <1>1, ReadStep
<1>2. ASSUME NEW r \in Requests,
             Goto(Api, "reviewing"),
             Keep(Api, [Nothing EXCEPT !.req = r, !.version = request[r].version]),
             request[r].status = "pending"
      PROVE  IInv'
  <2> DEFINE m == [Nothing EXCEPT !.req = r, !.version = request[r].version]
  <2>1. request[r].version \in Nat
    BY DEF TypeOK, RequestRows
  <2>2. m \in Locals /\ m.req = r
    BY <2>1 DEF Nothing, Locals, Statuses
  <2> HIDE DEF m
  <2>3. pc'[Api] = "reviewing" /\ local'[Api] = m
    BY <1>2, <2>2, Kinds, Moves DEF m
  <2>4. \A k \in Codes : code'[k].req # r
    BY <1>2, ProcessAssumption DEF IInv, OneCode
  <2>5. Knows(Api)'
    BY <2>2, <2>3, <2>4 DEF Knows
  <2> QED
    BY <1>2, <2>2, <2>5, Kinds, ReadStep DEF m
<1>3. CASE pc[Api] = "reviewing" /\ Goto(Api, "authorizing") /\ UNCHANGED local
  <2>1. local[Api] \in Locals /\ Keep(Api, local[Api])
    BY <1>3 DEF TypeOK, Keep
  <2>2. pc'[Api] = "authorizing" /\ local'[Api] = local[Api]
    BY <1>3, <2>1, Kinds, Moves
  <2>3. Knows(Api)
    BY DEF IInv
  <2>4. Knows(Api)'
    BY <1>3, <2>2, <2>3 DEF Knows
  <2> QED
    BY <1>3, <2>1, <2>4, Kinds, ReadStep
<1>4. ASSUME NEW r \in Requests, GetRequest(r) \/ AuthorizeRead(r) PROVE IInv'
  BY <1>1, <1>2, <1>4, Kinds DEF GetRequest, AuthorizeRead
<1>5. CASE ReviewOrder
  BY <1>1, <1>3, <1>5, Kinds DEF ReviewOrder
<1> QED
  BY <1>4, <1>5

\* A server reads the request, the order and the code.
LEMMA ServerReadsStep ==
  ASSUME IInv, NEW p \in Servers,
         (\E r \in Requests : UseRequest(p, r)) \/ LoadOrder(p) \/ FindCode(p)
  PROVE  IInv'
<1> p \in Processes /\ TypeOK /\ Knows(p)
  BY DEF Processes, IInv
<1> /\ UNCHANGED <<order, request, code, audited, late>>
    /\ going' \subseteq Requests
  BY DEF UseRequest, LoadOrder, FindCode, TypeOK
<1>1. CASE Return(p)
  BY <1>1, ReadStep
<1>2. CASE \E s \in SUBSET Requests, status \in {"invalidated", "expired"} : Closing(p, s, status)
  BY <1>2, ReadStep
<1>3. ASSUME NEW r \in Requests, Goto(p, "checked"),
             Keep(p, [Nothing EXCEPT !.req = r, !.version = request[r].version])
      PROVE  IInv'
  <2> DEFINE m == [Nothing EXCEPT !.req = r, !.version = request[r].version]
  <2>1. request[r].version \in Nat
    BY DEF TypeOK, RequestRows
  <2>2. m \in Locals /\ m.req = r
    BY <2>1 DEF Nothing, Locals, Statuses
  <2> HIDE DEF m
  <2>3. pc'[p] = "checked" /\ local'[p] = m
    BY <1>3, <2>2, Kinds, Moves DEF m
  <2>4. Knows(p)'
    BY <2>2, <2>3 DEF Knows
  <2> QED
    BY <1>3, <2>2, <2>4, Kinds, ReadStep DEF m
<1>4. CASE pc[p] = "checked" /\ Goto(p, "loaded") /\ UNCHANGED local
  <2>1. local[p] \in Locals /\ Keep(p, local[p])
    BY <1>4 DEF TypeOK, Keep
  <2>2. pc'[p] = "loaded" /\ local'[p] = local[p]
    BY <1>4, <2>1, Kinds, Moves
  <2>3. Knows(p)'
    BY <1>4, <2>2 DEF Knows
  <2> QED
    BY <1>4, <2>1, <2>3, Kinds, ReadStep
<1>5. ASSUME NEW k \in Codes, pc[p] = "loaded", code[k].req = local[p].req,
             Goto(p, "verifying"), Keep(p, [local[p] EXCEPT !.code = k])
      PROVE  IInv'
  <2> DEFINE m == [local[p] EXCEPT !.code = k]
  <2>1. m \in Locals /\ m.req = local[p].req /\ m.code = k
    BY DEF TypeOK, Locals
  <2> HIDE DEF m
  <2>2. pc'[p] = "verifying" /\ local'[p] = m
    BY <1>5, <2>1, Kinds, Moves DEF m
  <2>3. Knows(p)'
    BY <1>5, <2>1, <2>2 DEF Knows
  <2> QED
    BY <1>5, <2>1, <2>3, Kinds, ReadStep DEF m
<1>6. ASSUME NEW r \in Requests, UseRequest(p, r) PROVE IInv'
  BY <1>2, <1>3, <1>6, Kinds DEF UseRequest
<1>7. CASE LoadOrder(p)
  <2>1. local[p].req \in Requests /\ {local[p].req} \in SUBSET Requests
    BY <1>7 DEF LoadOrder, Knows
  <2> QED
    BY <1>1, <1>2, <1>4, <1>7, <2>1, Kinds DEF LoadOrder
<1>8. CASE FindCode(p)
  BY <1>1, <1>5, <1>8 DEF FindCode
<1> QED
  BY <1>6, <1>7, <1>8

\* A code that does not verify: its process returns and the code is not more
\* usable than it was.
LEMMA RefusalStep ==
  ASSUME IInv, NEW p \in Processes, Return(p),
         UNCHANGED <<order, request, audited, late, going>>,
         code' \in [Codes -> CodeRows],
         \A k \in Codes : /\ code'[k].req = code[k].req
                          /\ code'[k].consumed = code[k].consumed
                          /\ Usable(k)' => Usable(k),
         GuessesLimited'
  PROVE  IInv'
<1> TypeOK
  BY DEF IInv
<1>1. TypeOK'
  BY Returns DEF TypeOK
<1>2. OneCode' /\ CodeFollowsRequest'
  BY DEF IInv, OneCode, CodeFollowsRequest
<1>3. Knows(p)' /\ pc'[p] # "consumed"
  BY Returns DEF Knows
<1>4. (\A q \in Processes : Knows(q)') /\ Apart'
  BY <1>3, Returns, OneMoves
<1> QED
  BY <1>1, <1>2, <1>4 DEF IInv

\* The row of a code that failed once more.
LEMMA FailedRow ==
  ASSUME NEW row \in CodeRows, NEW spent \in BOOLEAN
  PROVE  /\ [row EXCEPT !.fails = @ + 1, !.invalid = spent] \in CodeRows
         /\ [row EXCEPT !.fails = @ + 1, !.invalid = spent].req = row.req
         /\ [row EXCEPT !.fails = @ + 1, !.invalid = spent].consumed = row.consumed
         /\ [row EXCEPT !.fails = @ + 1, !.invalid = spent].fails = row.fails + 1
         /\ [row EXCEPT !.fails = @ + 1, !.invalid = spent].invalid = spent
<1> DEFINE counted == [row EXCEPT !.fails = @ + 1]
           written == [counted EXCEPT !.invalid = spent]
<1>1. /\ counted \in CodeRows
      /\ counted.req = row.req /\ counted.consumed = row.consumed
      /\ counted.fails = row.fails + 1
  BY DEF CodeRows
<1>2. written = [row EXCEPT !.fails = @ + 1, !.invalid = spent]
  OBVIOUS
<1> HIDE DEF counted
<1>3. /\ written \in CodeRows
      /\ written.req = counted.req /\ written.consumed = counted.consumed
      /\ written.fails = counted.fails /\ written.invalid = spent
  BY <1>1 DEF CodeRows
<1> HIDE DEF written
<1> QED
  BY <1>1, <1>2, <1>3

\* A wrong code counts, and the last one tolerated invalidates the code.
LEMMA WrongCodeStep ==
  ASSUME IInv, NEW p \in Processes, WrongCode(p)
  PROVE  IInv'
<1> PICK k \in Codes : k = local[p].code
  BY DEF WrongCode, IInv, Knows
<1> DEFINE spent == code[k].fails + 1 >= MaxAttempts
<1>1. TypeOK /\ GuessesLimited
  BY DEF IInv
<1>2. CASE ~Usable(k)
  BY <1>1, <1>2, ReadStep DEF WrongCode, TypeOK
<1>3. CASE Usable(k)
  <2>1. code' = [code EXCEPT ![k].fails = @ + 1, ![k].invalid = spent]
    BY <1>3 DEF WrongCode
  <2>2. spent \in BOOLEAN /\ code[k].fails \in Nat /\ code[k] \in CodeRows
    BY <1>1 DEF TypeOK, CodeRows
  <2>3. code[k].fails < MaxAttempts /\ ~code[k].consumed
    BY <1>1, <1>3, <2>2, AttemptsAssumption DEF GuessesLimited, Usable
  <2>4. ~spent => code[k].fails + 1 < MaxAttempts
    BY <2>2, AttemptsAssumption
  <2> HIDE DEF spent
  <2> DEFINE row == [code[k] EXCEPT !.fails = @ + 1, !.invalid = spent]
  <2>5. code' = [code EXCEPT ![k] = row]
    BY <1>1, <2>1 DEF TypeOK
  <2>6. /\ row \in CodeRows
        /\ row.req = code[k].req /\ row.consumed = code[k].consumed
        /\ row.fails = code[k].fails + 1 /\ row.invalid = spent
    BY <2>2, FailedRow
  <2> HIDE DEF row
  <2>7. /\ code' \in [Codes -> CodeRows]
        /\ code'[k].req = code[k].req /\ code'[k].consumed = code[k].consumed
        /\ code'[k].fails = code[k].fails + 1
        /\ code'[k].invalid = spent
        /\ \A l \in Codes \ {k} : code'[l] = code[l]
    BY <1>1, <2>5, <2>6 DEF TypeOK
  <2>8. \A l \in Codes : /\ code'[l].req = code[l].req
                         /\ code'[l].consumed = code[l].consumed
                         /\ Usable(l)' => Usable(l)
    BY <1>3, <2>7 DEF Usable
  <2>9. GuessesLimited'
    <3> SUFFICES ASSUME NEW l \in Codes
                 PROVE  /\ code'[l].fails <= MaxAttempts
                        /\ code'[l].fails = MaxAttempts => ~Usable(l)' /\ ~code'[l].consumed
      BY DEF GuessesLimited
    <3>1. CASE l = k
      <4>1. code'[k].fails <= MaxAttempts
        BY <2>2, <2>3, <2>7, AttemptsAssumption
      <4>2. code'[k].fails = MaxAttempts => spent
        BY <2>2, <2>4, <2>7, AttemptsAssumption
      <4>3. spent => ~Usable(k)'
        BY <2>2, <2>7 DEF Usable
      <4>4. ~code'[k].consumed
        BY <2>3, <2>7
      <4> QED
        BY <3>1, <4>1, <4>2, <4>3, <4>4
    <3>2. CASE l # k
      BY <1>1, <2>7, <3>2 DEF GuessesLimited, Usable
    <3> QED
      BY <3>1, <3>2
  <2> QED
    BY <2>7, <2>8, <2>9, RefusalStep DEF WrongCode
<1> QED
  BY <1>2, <1>3

\* A code that has expired is invalidated, whatever happened to it.
LEMMA ExpiredCodeStep ==
  ASSUME IInv, NEW p \in Processes, ExpiredCode(p)
  PROVE  IInv'
<1> PICK k \in Codes : k = local[p].code
  BY DEF ExpiredCode, IInv, Knows
<1>1. code' = [code EXCEPT ![k].invalid = TRUE] /\ code \in [Codes -> CodeRows]
  BY DEF ExpiredCode, IInv, TypeOK
<1>2. /\ code' \in [Codes -> CodeRows]
      /\ code'[k].req = code[k].req /\ code'[k].consumed = code[k].consumed
      /\ code'[k].fails = code[k].fails
      /\ code'[k].invalid
      /\ \A l \in Codes \ {k} : code'[l] = code[l]
  BY <1>1 DEF CodeRows
<1>3. \A l \in Codes : /\ code'[l].req = code[l].req
                       /\ code'[l].consumed = code[l].consumed
                       /\ code'[l].fails = code[l].fails
                       /\ Usable(l)' => Usable(l)
  BY <1>2 DEF Usable
<1>4. GuessesLimited'
  BY <1>3 DEF IInv, GuessesLimited
<1> QED
  BY <1>2, <1>3, <1>4, RefusalStep DEF ExpiredCode

\* A code that is usable is consumed, by one process alone.
LEMMA ConsumeStep ==
  ASSUME IInv, NEW p \in Processes, Consume(p)
  PROVE  IInv'
<1> PICK k \in Codes : k = local[p].code
  BY DEF Consume, ConsumeIf, IInv, Knows
<1> TypeOK /\ Knows(p) /\ pc[p] = "verifying"
  BY DEF IInv, Consume, ConsumeIf
<1>1. CASE UNCHANGED code /\ Return(p)
  BY <1>1, ReadStep DEF Consume, ConsumeIf, TypeOK
<1>2. CASE /\ Usable(k)
           /\ code' = [code EXCEPT ![k].consumed = TRUE]
           /\ Goto(p, "consumed")
           /\ UNCHANGED local
  <2>1. /\ code' \in [Codes -> CodeRows]
        /\ code'[k].req = code[k].req
        /\ code'[k].fails = code[k].fails
        /\ code'[k].consumed
        /\ \A l \in Codes \ {k} : code'[l] = code[l]
    BY <1>2 DEF TypeOK, CodeRows
  <2>2. pc' = [pc EXCEPT ![p] = "consumed"] /\ pc' \in [Processes -> Labels]
    BY <1>2, Kinds DEF Goto, TypeOK
  <2>3. UNCHANGED <<order, request, audited, late, going>>
    BY DEF Consume, ConsumeIf
  <2>4. TypeOK'
    BY <1>2, <2>1, <2>2, <2>3 DEF TypeOK
  <2>5. \A l \in Codes : /\ code'[l].req = code[l].req
                         /\ code[l].consumed => code'[l].consumed
                         /\ Usable(l)' => Usable(l)
    BY <1>2, <2>1 DEF Usable
  <2>6. OneCode' /\ CodeFollowsRequest'
    BY <2>3, <2>5 DEF IInv, OneCode, CodeFollowsRequest
  <2>7. GuessesLimited'
    <3> SUFFICES ASSUME NEW l \in Codes
                 PROVE  /\ code'[l].fails <= MaxAttempts
                        /\ code'[l].fails = MaxAttempts => ~Usable(l)' /\ ~code'[l].consumed
      BY DEF GuessesLimited
    <3>1. /\ code[l].fails <= MaxAttempts
          /\ code[l].fails = MaxAttempts => ~Usable(l) /\ ~code[l].consumed
      BY DEF IInv, GuessesLimited
    <3>2. CASE l = k
      BY <1>2, <2>1, <3>1, <3>2
    <3>3. CASE l # k
      BY <2>1, <2>5, <3>1, <3>3
    <3> QED
      BY <3>2, <3>3
  <2>8. Knows(p)'
    <3>1. request[code[k].req].status = "authorized"
      BY <1>2 DEF IInv, CodeFollowsRequest
    <3> QED
      BY <1>2, <2>1, <2>2, <2>3, <3>1 DEF Knows, TypeOK
  <2>9. \A q \in Processes : Knows(q)'
    <3> SUFFICES ASSUME NEW q \in Processes, q # p PROVE Knows(q)'
      BY <2>8
    <3>1. Knows(q) /\ pc'[q] = pc[q] /\ local'[q] = local[q]
      BY <1>2, <2>2 DEF IInv, TypeOK
    <3> QED
      BY <2>3, <2>5, <3>1, KnowsKept
  <2>10. Apart'
    <3>1. ASSUME NEW q \in Processes \ {p}, pc'[q] = "consumed"
          PROVE  local'[q].code # k
      <4>1. pc[q] = "consumed" /\ local'[q] = local[q] /\ Knows(q)
        BY <1>2, <2>2, <3>1 DEF IInv, TypeOK
      <4>2. code[local[q].code].consumed
        BY <4>1 DEF Knows
      <4> QED
        BY <1>2, <4>1, <4>2 DEF Usable
    <3>2. \A q \in Processes \ {p} : pc'[q] = pc[q]
      BY <2>2 DEF TypeOK
    <3> QED
      BY <1>2, <3>1, <3>2 DEF Apart, IInv
  <2> QED
    BY <2>4, <2>6, <2>7, <2>9, <2>10 DEF IInv
<1> QED
  BY <1>1, <1>2 DEF Consume, ConsumeIf

\* The request is marked as attempted: its one code is consumed, and no other
\* process has consumed it.
LEMMA AttemptStep ==
  ASSUME IInv, NEW p \in Processes, Attempt(p)
  PROVE  IInv'
<1> PICK r \in Requests : r = local[p].req
  BY DEF Attempt, AttemptAs, IInv, Knows
<1> TypeOK /\ Knows(p) /\ pc[p] = "consumed"
  BY DEF IInv, Attempt, AttemptAs
<1>1. /\ request' = [request EXCEPT ![r].status = "attempted"]
      /\ going' = going \cup {r}
      /\ Return(p)
      /\ UNCHANGED <<order, code, audited, late>>
  BY DEF Attempt, AttemptAs
<1>2. /\ request' \in [Requests -> RequestRows]
      /\ request'[r].status = "attempted"
      /\ \A q \in Requests \ {r} : request'[q] = request[q]
  BY <1>1 DEF TypeOK, RequestRows, Statuses
<1>3. TypeOK'
  BY <1>1, <1>2, Returns DEF TypeOK
<1>4. local[p].code \in Codes /\ code[local[p].code].req = r /\ code[local[p].code].consumed
  BY DEF Knows
<1>5. \A k \in Codes : code[k].req = r => k = local[p].code
  BY <1>4, ProcessAssumption DEF IInv, OneCode
<1>6. OneCode'
  BY <1>1, <1>2, ProcessAssumption DEF IInv, OneCode, TypeOK, CodeRows
<1>7. CodeFollowsRequest'
  <2> SUFFICES ASSUME NEW k \in Codes, Usable(k)
               PROVE  request'[code[k].req].status = "authorized"
    BY <1>1 DEF CodeFollowsRequest, Usable
  <2>1. code[k].req \in Requests /\ code[k].req # r
    BY <1>4, <1>5 DEF Usable, TypeOK, CodeRows
  <2> QED
    BY <1>2, <2>1 DEF IInv, CodeFollowsRequest
<1>8. GuessesLimited'
  BY <1>1 DEF IInv, GuessesLimited, Usable
<1>9. ASSUME NEW q \in Processes PROVE Knows(q)'
  <2>1. CASE q = p
    BY <1>1, <2>1, Returns DEF Knows
  <2>2. CASE q # p
    <3>1. pc'[q] = pc[q] /\ local'[q] = local[q] /\ Knows(q)
      BY <1>1, <2>2, Returns DEF IInv
    <3>2. pc[q] = "consumed" => local[q].req # r
      BY <2>2, <1>5 DEF IInv, Apart, Knows
    <3> QED
      BY <1>1, <1>2, <3>1, <3>2 DEF Knows
  <2> QED
    BY <2>1, <2>2
<1>10. Apart'
  BY <1>1, Returns DEF IInv, Apart
<1> QED
  BY <1>3, <1>6, <1>7, <1>8, <1>9, <1>10 DEF IInv

\* A new code: the request being authorized had none, so it is its only one.
LEMMA AuthorizeWriteStep ==
  ASSUME IInv, NEW k \in Codes, AuthorizeWrite(k)
  PROVE  IInv'
<1> Api \in Processes /\ TypeOK /\ Knows(Api) /\ pc[Api] = "authorizing"
  BY DEF IInv, Processes, AuthorizeWrite
<1> PICK r \in Requests : r = local[Api].req
  BY DEF Knows
<1> DEFINE new == [req |-> r, consumed |-> FALSE, invalid |-> FALSE, fails |-> 0]
<1>1. \A l \in Codes : code[l].req # r
  BY DEF Knows
<1>2. /\ request' = [request EXCEPT ![r].status = "authorized"]
      /\ code' = [Invalidated({r}) EXCEPT ![k] = new]
      /\ Return(Api)
      /\ UNCHANGED <<order, audited, late, going>>
      /\ code[k].req = None
  BY DEF AuthorizeWrite
<1>3. /\ request' \in [Requests -> RequestRows]
      /\ request'[r].status = "authorized"
      /\ \A q \in Requests \ {r} : request'[q] = request[q]
  BY <1>2 DEF TypeOK, RequestRows, Statuses
<1>4. /\ new \in CodeRows
      /\ new.req = r /\ ~new.consumed /\ ~new.invalid /\ new.fails = 0
  BY DEF CodeRows
<1> HIDE DEF new
<1>5. Invalidated({r}) \in [Codes -> CodeRows]
  <2>1. \A l \in Codes : Invalidated({r})[l] \in CodeRows
    BY Invalidates
  <2>2. Invalidated({r}) = [l \in Codes |-> Invalidated({r})[l]]
    BY DEF Invalidated
  <2> QED
    BY <2>1, <2>2
<1>6. /\ code' \in [Codes -> CodeRows]
      /\ code'[k] = new
      /\ \A l \in Codes \ {k} : code'[l] = Invalidated({r})[l]
  BY <1>2, <1>4, <1>5
<1>7. \A l \in Codes \ {k} : /\ code'[l].req = code[l].req
                             /\ code'[l].consumed = code[l].consumed
                             /\ code'[l].fails = code[l].fails
                             /\ code[l].invalid => code'[l].invalid
  BY <1>6, Invalidates
<1>8. TypeOK'
  BY <1>2, <1>3, <1>6, Returns DEF TypeOK
<1>9. \A l \in Codes : code[l].req \in Requests \cup {None}
  BY DEF TypeOK, CodeRows
<1>10. OneCode'
  BY <1>1, <1>3, <1>4, <1>6, <1>7, <1>9 DEF IInv, OneCode
<1>11. CodeFollowsRequest'
  <2> SUFFICES ASSUME NEW l \in Codes, Usable(l)', l # k
               PROVE  request'[code'[l].req].status = "authorized"
    BY <1>3, <1>4, <1>6 DEF CodeFollowsRequest
  <2>1. Usable(l)
    BY <1>7 DEF Usable
  <2> QED
    BY <1>1, <1>3, <1>7, <1>9, <2>1 DEF IInv, CodeFollowsRequest, Usable
<1>12. GuessesLimited'
  <2> SUFFICES ASSUME NEW l \in Codes
               PROVE  /\ code'[l].fails <= MaxAttempts
                      /\ code'[l].fails = MaxAttempts => ~Usable(l)' /\ ~code'[l].consumed
    BY DEF GuessesLimited
  <2>1. CASE l = k
    BY <1>4, <1>6, <2>1, AttemptsAssumption
  <2>2. CASE l # k
    <3>1. Usable(l)' => Usable(l)
      BY <1>7, <2>2 DEF Usable
    <3> QED
      BY <1>7, <2>2, <3>1 DEF IInv, GuessesLimited
  <2> QED
    BY <2>1, <2>2
<1>13. ASSUME NEW q \in Processes PROVE Knows(q)'
  <2>1. CASE q = Api
    BY <1>2, <2>1, Returns DEF Knows
  <2>2. CASE q # Api
    <3>1. pc'[q] = pc[q] /\ local'[q] = local[q] /\ Knows(q)
      BY <1>2, <2>2, Returns DEF IInv
    <3>2. pc[q] \in {"verifying", "consumed"} => local[q].code # k /\ local[q].req \in Requests
      BY <1>2, <3>1, ProcessAssumption DEF Knows
    <3>3. \A s \in Requests : request'[s].status = "attempted" => request[s].status = "attempted"
      BY <1>3
    <3> QED
      BY <1>7, <2>2, <3>1, <3>2, <3>3 DEF Knows
  <2> QED
    BY <2>1, <2>2
<1>14. Apart'
  BY <1>2, Returns DEF IInv, Apart
<1> QED
  BY <1>8, <1>10, <1>11, <1>12, <1>13, <1>14 DEF IInv

\* A new request: it has no code, and the ones before it are closed.
LEMMA CreateRequestStep ==
  ASSUME IInv, NEW p \in Servers, NEW r \in Requests, CreateRequest(p, r)
  PROVE  IInv'
<1> DEFINE old == Requested(Active)
<1> TypeOK /\ old \in SUBSET Requests
  BY Kinds DEF IInv
<1>1. /\ request[r].status = "none"
      /\ request' = [q \in Requests |->
            IF q \in old THEN [request[q] EXCEPT !.status = "invalidated"]
            ELSE IF q = r THEN [status |-> "pending", version |-> order.version]
            ELSE request[q]]
      /\ code' = Invalidated(old)
      /\ audited' = audited \cup old
      /\ UNCHANGED <<order, late, pc, local, going>>
  BY DEF CreateRequest, CreateAt
<1>2. r \notin old
  BY <1>1 DEF Requested, Active
<1> HIDE DEF old
<1>3. /\ request' \in [Requests -> RequestRows]
      /\ request'[r].status = "pending"
      /\ \A q \in Requests \ {r} :
           request'[q].status = IF q \in old THEN "invalidated" ELSE request[q].status
  BY <1>1, <1>2 DEF TypeOK, RequestRows, Statuses
<1>4. code' \in [Codes -> CodeRows]
  <2>1. \A k \in Codes : Invalidated(old)[k] \in CodeRows
    BY Invalidates
  <2>2. Invalidated(old) = [k \in Codes |-> Invalidated(old)[k]]
    BY DEF Invalidated
  <2> QED
    BY <1>1, <2>1, <2>2
<1>5. \A k \in Codes : /\ code'[k].req = code[k].req
                       /\ code'[k].consumed = code[k].consumed
                       /\ code'[k].fails = code[k].fails
                       /\ code[k].invalid => code'[k].invalid
                       /\ Usable(k) /\ code[k].req \in old => code'[k].invalid
  BY <1>1, Invalidates
<1>6. TypeOK'
  BY <1>1, <1>3, <1>4 DEF TypeOK
<1>7. \A k \in Codes : code[k].req \in (Requests \ {r}) \cup {None}
  BY <1>1, ProcessAssumption DEF IInv, OneCode, TypeOK, CodeRows
<1>8. \A k \in Codes : Usable(k)' => Usable(k) /\ code[k].req \notin old
  BY <1>5 DEF Usable
<1>9. OneCode'
  BY <1>3, <1>5, <1>7 DEF IInv, OneCode
<1>10. CodeFollowsRequest'
  <2> SUFFICES ASSUME NEW k \in Codes, Usable(k)'
               PROVE  request'[code'[k].req].status = "authorized"
    BY DEF CodeFollowsRequest
  <2>1. /\ Usable(k) /\ code[k].req \notin old
        /\ code[k].req \in Requests \ {r}
        /\ request[code[k].req].status = "authorized"
    BY <1>7, <1>8 DEF Usable, IInv, CodeFollowsRequest
  <2> QED
    BY <1>3, <1>5, <2>1
<1>11. GuessesLimited'
  BY <1>5, <1>8 DEF IInv, GuessesLimited
<1>12. ASSUME NEW q \in Processes PROVE Knows(q)'
  <2>1. Knows(q) /\ pc'[q] = pc[q] /\ local'[q] = local[q]
    BY <1>1 DEF IInv
  <2>2. \A s \in Requests : request'[s].status = "attempted" => request[s].status = "attempted"
    BY <1>3
  <2> QED
    BY <1>5, <2>1, <2>2, KnowsKept
<1>13. Apart'
  BY <1>1 DEF IInv, Apart
<1> QED
  BY <1>6, <1>9, <1>10, <1>11, <1>12, <1>13 DEF IInv

-----------------------------------------------------------------------------
(* The inductive invariant and what follows. *)

LEMMA Initially == Init => IInv
<1> SUFFICES ASSUME Init PROVE IInv
  OBVIOUS
<1>1. Nothing \in Locals
  BY DEF Nothing, Locals, Statuses
<1>2. TypeOK
  BY <1>1 DEF Init, TypeOK, RequestRows, CodeRows, Statuses, Labels
<1>3. \A k \in Codes : code[k].req = None /\ ~code[k].consumed /\ code[k].fails = 0 /\ ~Usable(k)
  BY DEF Init, Usable
<1>4. OneCode /\ CodeFollowsRequest
  BY <1>3 DEF OneCode, CodeFollowsRequest
<1>5. GuessesLimited
  BY <1>3, AttemptsAssumption DEF GuessesLimited
<1>6. \A p \in Processes : pc[p] = "idle"
  BY DEF Init
<1>7. (\A p \in Processes : Knows(p)) /\ Apart
  BY <1>6 DEF Knows, Apart
<1> QED
  BY <1>2, <1>4, <1>5, <1>7 DEF IInv

LEMMA Inductive == IInv /\ [Next]_vars => IInv'
<1> SUFFICES ASSUME IInv, [Next]_vars PROVE IInv'
  OBVIOUS
<1>1. CASE UNCHANGED vars
  <2>1. TypeOK'
    BY <1>1 DEF vars, IInv, TypeOK
  <2> QED
    BY <1>1, <2>1, ClosedNone, StandingStep DEF vars
<1>2. CASE Next
  <2> Servers \subseteq Processes
    BY DEF Processes
  <2> QED
    BY <1>2, OrderMovesStep, CloseReadStep, CrashStep, DashboardStep, BeginStep, ExpireStep,
       CreateRequestStep, ServerReadsStep, AuthorizeWriteStep, WrongCodeStep, ExpiredCodeStep,
       ConsumeStep, AttemptStep DEF Next
<1> QED
  BY <1>1, <1>2

\* Every process knows what its next step relies on, and a request has one code.
THEOREM Invariance == Spec => []IInv
BY Initially, Inductive, PTL DEF Spec

\* Every variable keeps its type: no request gets a status that the services do
\* not know, and every code names a request or none.
THEOREM TypeCorrect == Spec => []TypeOK
<1>1. IInv => TypeOK
  BY DEF IInv
<1> QED
  BY <1>1, Invariance, PTL

\* A usable code is one of an authorized request, however many servers and the
\* dashboard close, authorize and expire requests between each other's reads and
\* writes.
THEOREM CodesFollow == Spec => []CodeFollowsRequest
<1>1. IInv => CodeFollowsRequest
  BY DEF IInv
<1> QED
  BY <1>1, Invariance, PTL

\* Any number of servers gets MaxAttempts wrong codes between them, and none of
\* them a right one after that.
THEOREM FewGuesses == Spec => []GuessesLimited
<1>1. IInv => GuessesLimited
  BY DEF IInv
<1> QED
  BY <1>1, Invariance, PTL

\* Only Attempt calls a cancellation, with what the process knows there.
LEMMA AttemptKnows ==
  IInv /\ Next => \A r \in going' \ going :
                    /\ request[r].status # "attempted"
                    /\ \E k \in Codes : code[k].req = r /\ code[k].consumed
<1> SUFFICES ASSUME IInv, Next, NEW r \in going' \ going
             PROVE  /\ request[r].status # "attempted"
                    /\ \E k \in Codes : code[k].req = r /\ code[k].consumed
  OBVIOUS
<1>1. PICK p \in Servers : Attempt(p)
  BY DEF Next, OrderMoves, CloseRead, Crash, GetRequest, AuthorizeRead, ReviewOrder, Begin,
         Expire, CreateRequest, CreateAt, UseRequest, AuthorizeWrite, LoadOrder, FindCode,
         WrongCode, ExpiredCode, Consume, ConsumeIf
<1>2. r = local[p].req /\ pc[p] = "consumed" /\ Knows(p)
  BY <1>1 DEF Attempt, AttemptAs, IInv, Processes
<1> QED
  BY <1>2 DEF Knows

\* A request leads to one call of cancel at most, with a code of its own that was
\* consumed for it, however many servers present it.
THEOREM AtMostOneUse == Spec => UsedOnce
<1>1. IInv /\ [Next]_vars
        => [\A r \in going' \ going :
              /\ request[r].status # "attempted"
              /\ \E k \in Codes : code[k].req = r /\ code[k].consumed]_vars
  BY AttemptKnows
<1> QED
  BY <1>1, Invariance, PTL DEF Spec, UsedOnce

-----------------------------------------------------------------------------
(* Open requests and the order. *)

\* The request the dashboard is about to authorize is still pending, unless it
\* was closed and that is on record.
StillPending ==
  pc[Api] \in {"reviewing", "authorizing"} /\ local[Api].req \notin audited
    => request[local[Api].req].status = "pending"

Current == OpenIsCurrent /\ StillPending

\* Steps that leave the order, and open no request, keep open requests current.
LEMMA CurrentKept ==
  ASSUME TypeOK, OpenIsCurrent, order' = order, audited \subseteq audited',
         \A r \in Requests : /\ request'[r].version = request[r].version
                             /\ request'[r].status \in Active
                                  => r \in audited' \/ request[r].status \in Active
  PROVE  OpenIsCurrent'
BY DEF OpenIsCurrent, Requested

\* A transaction that moves the order leaves no request open.
LEMMA CloseAll ==
  ASSUME TypeOK, Close(Requested(Active), "invalidated")
  PROVE  /\ \A r \in Requests : request'[r].status \notin Active
         /\ \A r \in Requests : request[r].status = "pending" => r \in audited'
         /\ audited \subseteq audited'
<1>1. "invalidated" \notin Active /\ "pending" \in Active
  BY DEF Active
<1> QED
  BY <1>1 DEF Close, Requested, TypeOK, RequestRows

\* The order moves, or a cancellation begins or is refused.
LEMMA OrderCurrent ==
  ASSUME IInv, Current, UNCHANGED <<pc, local>>,
         \/ Close(Requested(Active), "invalidated")
         \/ UNCHANGED <<order, request, audited>>
  PROVE  Current'
<1> TypeOK
  BY DEF IInv
<1>1. CASE Close(Requested(Active), "invalidated")
  <2>1. OpenIsCurrent'
    BY <1>1, CloseAll DEF OpenIsCurrent, Requested
  <2>2. StillPending'
    <3> SUFFICES ASSUME pc[Api] \in {"reviewing", "authorizing"}, local[Api].req \notin audited'
                 PROVE  FALSE
      BY DEF StillPending
    <3>1. local[Api].req \in Requests
      BY DEF IInv, Knows, Processes
    <3>2. request[local[Api].req].status = "pending"
      BY <1>1, CloseAll DEF Current, StillPending
    <3> QED
      BY <1>1, <3>1, <3>2, CloseAll
  <2> QED
    BY <2>1, <2>2 DEF Current
<1>2. CASE UNCHANGED <<order, request, audited>>
  BY <1>2 DEF Current, OpenIsCurrent, StillPending, Requested
<1> QED
  BY <1>1, <1>2

\* Requests that are closed leave the others as they are.
LEMMA CloseReadCurrent ==
  ASSUME IInv, Current, NEW p \in Processes, CloseRead(p)
  PROVE  Current'
<1> TypeOK
  BY DEF IInv
<1>1. CASE Close(local[p].close, local[p].status)
  <2>1. /\ order' = order /\ audited' = audited \cup local[p].close
        /\ \A r \in Requests : /\ request'[r].version = request[r].version
                               /\ r \in local[p].close \/ request'[r] = request[r]
    BY <1>1 DEF Close, CloseRead, TypeOK, RequestRows
  <2>2. OpenIsCurrent'
    BY <2>1, CurrentKept DEF Current
  <2>3. StillPending'
    <3> SUFFICES ASSUME pc'[Api] \in {"reviewing", "authorizing"}, local'[Api].req \notin audited'
                 PROVE  request'[local'[Api].req].status = "pending"
      BY DEF StillPending
    <3>1. pc[Api] = pc'[Api] /\ local[Api] = local'[Api]
      BY Returns DEF CloseRead, Processes
    <3>2. local[Api].req \in Requests
      BY <3>1 DEF IInv, Knows, Processes
    <3> QED
      BY <2>1, <3>1, <3>2 DEF Current, StillPending
  <2> QED
    BY <2>2, <2>3 DEF Current
<1>2. CASE UNCHANGED <<request, code, audited>>
  <2>1. pc'[Api] \in {"reviewing", "authorizing"} => pc[Api] = pc'[Api] /\ local[Api] = local'[Api]
    BY Returns DEF CloseRead, Processes
  <2> QED
    BY <1>2, <2>1 DEF CloseRead, Current, OpenIsCurrent, StillPending, Requested
<1> QED
  BY <1>1, <1>2 DEF CloseRead

\* The dashboard's own steps: a request is pending when it is read, and what is
\* authorized is current or was closed.
LEMMA DashboardCurrent ==
  ASSUME IInv, Current,
         \/ \E r \in Requests : GetRequest(r) \/ AuthorizeRead(r)
         \/ ReviewOrder
         \/ \E k \in Codes : AuthorizeWrite(k)
  PROVE  Current'
<1> TypeOK /\ Api \in Processes
  BY DEF IInv, Processes
<1>1. ASSUME NEW k \in Codes, AuthorizeWrite(k) PROVE Current'
  <2>1. /\ local[Api].req \in Requests
        /\ local[Api].req \in audited \/ request[local[Api].req].status = "pending"
    BY <1>1 DEF AuthorizeWrite, IInv, Knows, Current, StillPending
  <2>2. /\ UNCHANGED <<order, audited>>
        /\ request' = [request EXCEPT ![local[Api].req].status = "authorized"]
    BY <1>1 DEF AuthorizeWrite
  <2>3. \A r \in Requests : /\ request'[r].version = request[r].version
                           /\ request'[r].status \in Active
                                => r \in audited' \/ request[r].status \in Active
    BY <2>1, <2>2 DEF TypeOK, RequestRows, Active
  <2>4. OpenIsCurrent'
    BY <2>2, <2>3, CurrentKept DEF Current
  <2>5. pc'[Api] = "idle"
    BY <1>1, Returns DEF AuthorizeWrite
  <2> QED
    BY <2>4, <2>5 DEF Current, StillPending
<1>2. CASE \/ \E r \in Requests : GetRequest(r) \/ AuthorizeRead(r)
           \/ ReviewOrder
  <2>1. UNCHANGED <<order, request, audited>>
    BY <1>2 DEF GetRequest, AuthorizeRead, ReviewOrder
  <2>2. OpenIsCurrent'
    BY <2>1 DEF Current, OpenIsCurrent, Requested
  <2> DEFINE Reads == /\ pc'[Api] \in {"reviewing", "authorizing"}
                      /\ local'[Api].req \notin audited
                      => request[local'[Api].req].status = "pending"
  <2>3. ASSUME NEW r \in Requests, GetRequest(r) \/ AuthorizeRead(r) PROVE Reads
    <3>1. CASE pc'[Api] = "closing"
      BY <3>1
    <3>2. CASE /\ request[r].status = "pending"
               /\ Keep(Api, [Nothing EXCEPT !.req = r, !.version = request[r].version])
      BY <3>2 DEF Keep, TypeOK, Nothing
    <3> QED
      BY <2>3, <3>1, <3>2 DEF GetRequest, AuthorizeRead, Closing, Goto, TypeOK
  <2>4. ASSUME ReviewOrder PROVE Reads
    <3>1. pc[Api] = "reviewing" /\ (pc'[Api] = "authorizing" => local' = local)
      BY <2>4 DEF ReviewOrder, Closing, Goto, TypeOK
    <3>2. CASE pc'[Api] = "authorizing"
      BY <3>1, <3>2 DEF Current, StillPending
    <3>3. CASE pc'[Api] # "authorizing"
      BY <2>4, <3>3 DEF ReviewOrder, Closing, Goto, TypeOK
    <3> QED
      BY <3>2, <3>3
  <2>5. Reads
    BY <1>2, <2>3, <2>4
  <2> QED
    BY <2>1, <2>2, <2>5 DEF Current, StillPending
<1> QED
  BY <1>1, <1>2

\* The servers' steps: a new request is for the order as it is, and no step of
\* theirs touches a request that is pending.
LEMMA ServerCurrent ==
  ASSUME IInv, Current, NEW p \in Servers,
         \/ \E r \in Requests : CreateRequest(p, r) \/ UseRequest(p, r)
         \/ LoadOrder(p) \/ FindCode(p) \/ WrongCode(p) \/ ExpiredCode(p)
         \/ Consume(p) \/ Attempt(p)
  PROVE  Current'
<1> TypeOK /\ Api \in Processes /\ p \in Processes /\ p # Api
  BY ProcessAssumption DEF IInv, Processes
<1>1. ASSUME NEW r \in Requests, CreateRequest(p, r) PROVE Current'
  <2>1. /\ request[r].status = "none" /\ order.open
        /\ UNCHANGED <<order, pc, local>> /\ audited' = audited \cup Requested(Active)
        /\ request' = [q \in Requests |->
             IF q \in Requested(Active) THEN [request[q] EXCEPT !.status = "invalidated"]
             ELSE IF q = r THEN [status |-> "pending", version |-> order.version]
             ELSE request[q]]
    BY <1>1 DEF CreateRequest, CreateAt
  <2>2. \A q \in Requests : q \in Requested(Active) <=> request[q].status \in Active
    BY DEF Requested
  <2>3. OpenIsCurrent'
    BY <2>1, <2>2 DEF Current, OpenIsCurrent, Requested
  <2>4. StillPending'
    <3> SUFFICES ASSUME pc[Api] \in {"reviewing", "authorizing"}, local[Api].req \notin audited'
                 PROVE  request'[local[Api].req].status = "pending"
      BY <2>1 DEF StillPending
    <3>1. local[Api].req \in Requests
      BY DEF IInv, Knows
    <3>2. request[local[Api].req].status = "pending"
      BY <2>1 DEF Current, StillPending
    <3> QED
      BY <2>1, <2>2, <3>1, <3>2 DEF Active
  <2> QED
    BY <2>3, <2>4 DEF Current
<1>2. CASE Attempt(p)
  <2>1. /\ UNCHANGED <<order, audited>>
        /\ pc'[Api] = pc[Api] /\ local'[Api] = local[Api]
    BY <1>2, Returns DEF Attempt, AttemptAs
  <2>2. /\ pc[p] = "consumed"
        /\ request' = [request EXCEPT ![local[p].req].status = "attempted"]
    BY <1>2 DEF Attempt, AttemptAs
  <2>3. local[p].req \in Requests /\ request[local[p].req].status # "pending"
    <3>1. /\ local[p].req \in Requests
          /\ local[p].code \in Codes
          /\ code[local[p].code].req = local[p].req
      BY <2>2 DEF IInv, Knows
    <3> QED
      BY <3>1, ProcessAssumption DEF IInv, OneCode
  <2>4. ASSUME NEW r \in Requests
        PROVE  /\ request'[r].version = request[r].version
               /\ request'[r].status \in Active => request[r].status \in Active
               /\ request[r].status = "pending" => request'[r].status = "pending"
    BY <2>2, <2>3 DEF TypeOK, RequestRows, Active
  <2>5. OpenIsCurrent'
    <3>1. /\ order' = order /\ audited' = audited
          /\ \A r \in Requests : request'[r].status \in Active => request[r].status \in Active
          /\ \A r \in Requests : request'[r].version = request[r].version
      BY <2>1, <2>4
    <3> QED
      BY <3>1 DEF Current, OpenIsCurrent, Requested
  <2>6. StillPending'
    <3>1. pc[Api] \in {"reviewing", "authorizing"} => local[Api].req \in Requests
      BY DEF IInv, Knows
    <3> QED
      BY <2>1, <2>4, <3>1 DEF Current, StillPending
  <2> QED
    BY <2>5, <2>6 DEF Current
<1>3. CASE \/ \E r \in Requests : UseRequest(p, r)
           \/ LoadOrder(p) \/ FindCode(p) \/ WrongCode(p) \/ ExpiredCode(p) \/ Consume(p)
  <2>1. /\ UNCHANGED <<order, request, audited>>
        /\ pc'[Api] = pc[Api] /\ local'[Api] = local[Api]
    BY <1>3 DEF UseRequest, LoadOrder, FindCode, WrongCode, ExpiredCode, Consume, ConsumeIf,
       Closing, Return, Goto, Keep, TypeOK
  <2> QED
    BY <2>1 DEF Current, OpenIsCurrent, StillPending, Requested
<1> QED
  BY <1>1, <1>2, <1>3

LEMMA CurrentStep == IInv /\ Current /\ [Next]_vars => Current'
<1> SUFFICES ASSUME IInv, Current, [Next]_vars PROVE Current'
  OBVIOUS
<1>1. ASSUME NEW p \in Processes, Crash(p) PROVE Current'
  <2>1. UNCHANGED <<order, request, audited>>
    BY <1>1 DEF Crash
  <2>2. pc'[Api] \in {"reviewing", "authorizing"} => pc'[Api] = pc[Api] /\ local'[Api] = local[Api]
    BY <1>1, Returns DEF Crash, IInv, Processes
  <2> QED
    BY <2>1, <2>2 DEF Current, OpenIsCurrent, StillPending, Requested
<1>2. ASSUME NEW r \in Requests, Expire(r) PROVE Current'
  BY <1>2 DEF Expire, Current, OpenIsCurrent, StillPending, Requested
<1>3. ASSUME NEW p \in Processes, OrderMoves(p) PROVE Current'
  BY <1>3, OrderCurrent DEF OrderMoves
<1>4. ASSUME NEW r \in Requests, Begin(r) PROVE Current'
  BY <1>4, OrderCurrent DEF Begin
<1>5. CASE UNCHANGED vars
  BY <1>5 DEF vars, Current, OpenIsCurrent, StillPending, Requested
<1> QED
  BY <1>1, <1>2, <1>3, <1>4, <1>5, CloseReadCurrent, DashboardCurrent, ServerCurrent DEF Next

\* A request that is open, and was never closed before, is one for the order as
\* it is, however many servers ask, cancel and reconcile.
THEOREM OpenCurrent == Spec => []OpenIsCurrent
<1>1. Init => Current
  BY DEF Init, Current, OpenIsCurrent, StillPending, Requested, Active, Processes
<1>2. Current => OpenIsCurrent
  BY DEF Current
<1> QED
  BY <1>1, <1>2, CurrentStep, Invariance, PTL DEF Spec
===============================================================================
