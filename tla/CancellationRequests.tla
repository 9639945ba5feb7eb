------------------------ MODULE CancellationRequests ------------------------
(***************************************************************************)
(* The cancellation requests of one order.  An MCP client asks for one, the *)
(* owner authorizes it in the dashboard and gets a code, and the client     *)
(* cancels with the code.  The dashboard's API is one process, each MCP     *)
(* client has a server process of its own, and they share the database.     *)
(*                                                                          *)
(* Granularity.  None of these functions awaits before the cancellation     *)
(* itself, so a process works on one of them at a time; pc says where it    *)
(* is.  The database opens a transaction at the first write: a function     *)
(* that starts with a guarded UPDATE is one step, one that reads and then   *)
(* updates by id is two, with other processes in between.                   *)
(***************************************************************************)
EXTENDS Naturals, FiniteSets

CONSTANTS Requests,     \* identifiers of cancellation requests
          Codes,        \* identifiers of authorization codes
          Api,          \* the API's process
          Servers,      \* processes of MCP servers
          MaxAttempts,  \* wrong codes that are tolerated
          MaxVersion,   \* bound on the order's version
          None          \* no code, no request

Processes == {Api} \cup Servers

ASSUME ProcessAssumption == Api \notin Servers /\ None \notin Requests \cup Codes

ASSUME AttemptsAssumption == MaxAttempts \in Nat \ {0} /\ MaxVersion \in Nat

VARIABLES
  order,    \* the order: version, and whether it can be canceled
  request,  \* the rows of cancellation_requests
  code,     \* the rows of mcp_authorizations
  audited,  \* requests whose invalidation event was written; its key is unique
  late,     \* requests and codes that are past their expiry
  pc,       \* where each process is
  local,    \* what the process read
  going     \* requests whose cancellation was called and has not begun

vars == <<order, request, code, audited, late, pc, local, going>>

Statuses == {"none", "pending", "authorized", "attempted", "invalidated", "expired"}
Active == {"pending", "authorized"}

\* A request names the version of the order it is for.
RequestRows == [status : Statuses, version : Nat]

\* Codes are consumed once; an invalid code has an invalidation_reason.
CodeRows == [req : Requests \cup {None}, consumed : BOOLEAN, invalid : BOOLEAN, fails : Nat]

Labels == {"idle", "reviewing", "authorizing", "closing", "checked", "loaded", "verifying",
           "consumed"}

\* What a process works on: a request, the order's version, the code it found,
\* the requests it is about to close and the status they get.
Nothing == [req |-> None, version |-> 0, code |-> None, close |-> {}, status |-> "none"]
Locals == [req : Requests \cup {None}, version : Nat, code : Codes \cup {None},
           close : SUBSET Requests, status : Statuses]

Usable(k) == code[k].req # None /\ ~code[k].consumed /\ ~code[k].invalid

Requested(s) == {r \in Requests : request[r].status \in s}

Goto(p, l) == pc' = [pc EXCEPT ![p] = l]
Keep(p, l) == local' = [local EXCEPT ![p] = l]
Return(p) == Goto(p, "idle") /\ Keep(p, Nothing)

Init ==
  /\ order = [version |-> 2, open |-> TRUE]
  /\ request = [r \in Requests |-> [status |-> "none", version |-> 0]]
  /\ code = [k \in Codes |-> [req |-> None, consumed |-> FALSE, invalid |-> FALSE, fails |-> 0]]
  /\ audited = {}
  /\ late = {}
  /\ pc = [p \in Processes |-> "idle"]
  /\ local = [p \in Processes |-> Nothing]
  /\ going = {}

-----------------------------------------------------------------------------
(* Closing requests. *)

\* Defect: closing a request leaves its codes usable.
InvalidatedNot(s) == code

\* The codes after those of the requests in s that still could be used are
\* invalidated.
Invalidated(s) ==
  [k \in Codes |-> [code[k] EXCEPT !.invalid = @ \/ (code[k].req \in s /\ Usable(k))]]

\* _invalidate_cancellation_requests_for_order_in_session, its writes: status,
\* codes and one event for each request in s.  A second event for a request
\* violates its unique key, and the whole transaction is rolled back.
Close(s, status) ==
  /\ s \cap audited = {}
  /\ request' = [r \in Requests |-> IF r \in s THEN [request[r] EXCEPT !.status = status]
                                    ELSE request[r]]
  /\ code' = Invalidated(s)
  /\ audited' = audited \cup s

\* A function that has not written yet read which requests to close.
Closing(p, s, status) ==
  /\ Goto(p, "closing")
  /\ Keep(p, [Nothing EXCEPT !.close = s, !.status = status])

\* It closes them, whatever happened meanwhile, or is rolled back.
CloseRead(p) ==
  /\ pc[p] = "closing"
  /\ \/ Close(local[p].close, local[p].status)
     \/ local[p].close \cap audited # {} /\ UNCHANGED <<request, code, audited>>
  /\ Return(p)
  /\ UNCHANGED <<order, late, going>>

\* Another service moves the order: a refresh, a cancellation that begins or
\* ends, in any process.  Its UPDATE comes first, so it closes what it finds.
OrderMoves(p) ==
  /\ pc[p] = "idle"
  /\ order.version < MaxVersion
  /\ \E open \in BOOLEAN : order' = [version |-> order.version + 1, open |-> open]
  /\ Close(Requested(Active), "invalidated")
  /\ UNCHANGED <<late, pc, local, going>>

-----------------------------------------------------------------------------
(* Asking and authorizing. *)

CreateAt(p, r, v) ==
  /\ pc[p] = "idle"
  /\ p \in Servers
  /\ request[r].status = "none"
  /\ order.open
  /\ LET old == Requested(Active) IN
       /\ old \cap audited = {}
       /\ request' = [q \in Requests |->
            IF q \in old THEN [request[q] EXCEPT !.status = "invalidated"]
            ELSE IF q = r THEN [status |-> "pending", version |-> v]
            ELSE request[q]]
       /\ code' = Invalidated(old)
       /\ audited' = audited \cup old
  /\ UNCHANGED <<order, late, pc, local, going>>

\* Defect: the request names the version that was read, which may be an old one.
CreateUnlocked(p, r) == \E v \in 1 .. order.version : CreateAt(p, r, v)

\* create_request and create_cancellation_request, which first writes the row
\* of the order to see that it is unchanged.
CreateRequest(p, r) == CreateAt(p, r, order.version)

\* get_cancellation_request for the dashboard, when it has something to write.
GetRequest(r) ==
  /\ pc[Api] = "idle"
  /\ request[r].status \in Active
  /\ r \in late
  /\ Closing(Api, {r}, "expired")
  /\ UNCHANGED <<order, request, code, audited, late, going>>

\* authorize_cancellation_request reads the request, which must be pending and
\* in time, ...
AuthorizeRead(r) ==
  /\ pc[Api] = "idle"
  /\ request[r].status = "pending"
  /\ IF r \in late THEN Closing(Api, {r}, "expired")
     ELSE /\ Goto(Api, "reviewing")
          /\ Keep(Api, [Nothing EXCEPT !.req = r, !.version = request[r].version])
  /\ UNCHANGED <<order, request, code, audited, late, going>>

\* ... and then the order: it is as it was, or the requests are closed.
ReviewOrder ==
  /\ pc[Api] = "reviewing"
  /\ IF order.version = local[Api].version /\ order.open
       THEN Goto(Api, "authorizing") /\ UNCHANGED local
       ELSE Closing(Api, Requested(Active), "invalidated")
  /\ UNCHANGED <<order, request, code, audited, late, going>>

\* authorize_cancellation_request, its writes: the request is authorized, by
\* its id alone, and a new code replaces the usable ones.
AuthorizeWrite(k) ==
  LET r == local[Api].req IN
  /\ pc[Api] = "authorizing"
  /\ code[k].req = None
  /\ request' = [request EXCEPT ![r].status = "authorized"]
  /\ code' = [Invalidated({r}) EXCEPT
                ![k] = [req |-> r, consumed |-> FALSE, invalid |-> FALSE, fails |-> 0]]
  /\ Return(Api)
  /\ UNCHANGED <<order, audited, late, going>>

-----------------------------------------------------------------------------
(* Canceling with a code: cancel_authorized. *)

\* The request is read and must be authorized; get_cancellation_request closes
\* it when it is late.
UseRequest(p, r) ==
  /\ pc[p] = "idle"
  /\ p \in Servers
  /\ request[r].status \in Active
  /\ IF r \in late THEN Closing(p, {r}, "expired")
     ELSE /\ request[r].status = "authorized"
          /\ Goto(p, "checked")
          /\ Keep(p, [Nothing EXCEPT !.req = r, !.version = request[r].version])
  /\ UNCHANGED <<order, request, code, audited, late, going>>

\* It has become late meanwhile, or the order is loaded and compared.
LoadOrder(p) ==
  LET r == local[p].req IN
  /\ pc[p] = "checked"
  /\ \/ /\ r \in late
        /\ IF request[r].status \in Active THEN Closing(p, {r}, "expired") ELSE Return(p)
     \/ IF order.version = local[p].version /\ order.open
          THEN Goto(p, "loaded") /\ UNCHANGED local
          ELSE Closing(p, Requested(Active), "invalidated")
  /\ UNCHANGED <<order, request, code, audited, late, going>>

\* active_mcp_authorization, and the failure that is recorded without one.
FindCode(p) ==
  LET usable == {k \in Codes : Usable(k) /\ code[k].req = local[p].req} IN
  /\ pc[p] = "loaded"
  /\ IF usable = {} THEN Return(p)
     ELSE \E k \in usable : Goto(p, "verifying") /\ Keep(p, [local[p] EXCEPT !.code = k])
  /\ UNCHANGED <<order, request, code, audited, late, going>>

\* record_mcp_authorization_failure for a code that does not verify.
WrongCode(p) ==
  LET k == local[p].code IN
  /\ pc[p] = "verifying"
  /\ code' = IF Usable(k)
               THEN [code EXCEPT ![k].fails = @ + 1,
                                 ![k].invalid = code[k].fails + 1 >= MaxAttempts]
               ELSE code
  /\ Return(p)
  /\ UNCHANGED <<order, request, audited, late, going>>

\* ... and for one that has expired, which is written whatever happened to it.
ExpiredCode(p) ==
  LET k == local[p].code IN
  /\ pc[p] = "verifying"
  /\ k \in late
  /\ code' = [code EXCEPT ![k].invalid = TRUE]
  /\ Return(p)
  /\ UNCHANGED <<order, request, audited, late, going>>

ConsumeIf(p, usable) ==
  LET k == local[p].code IN
  /\ pc[p] = "verifying"
  /\ IF usable
       THEN /\ code' = [code EXCEPT ![k].consumed = TRUE]
            /\ Goto(p, "consumed")
            /\ UNCHANGED local
       ELSE UNCHANGED code /\ Return(p)
  /\ UNCHANGED <<order, request, audited, late, going>>

\* Defects: the code is consumed by its id alone, or unless it is consumed.
ConsumeById(p) == ConsumeIf(p, TRUE)
ConsumeInvalid(p) == ConsumeIf(p, ~code[local[p].code].consumed)

\* The code verifies: mark_mcp_authorization_consumed, a guarded UPDATE.
Consume(p) == ConsumeIf(p, Usable(local[p].code))

AttemptAs(p, status) ==
  /\ pc[p] = "consumed"
  /\ request' = [request EXCEPT ![local[p].req].status = status]
  /\ going' = going \cup {local[p].req}
  /\ Return(p)
  /\ UNCHANGED <<order, code, audited, late>>

\* Defect: a status that no reader knows.
AttemptUnknown(p) == AttemptAs(p, "used")

\* update_cancellation_request_status, by the id alone; then cancel is called.
Attempt(p) == AttemptAs(p, "attempted")

\* begin_order_cancellation at the end of cancel, if the order is the one the
\* owner reviewed, or a refusal of cancel's.
Begin(r) ==
  /\ r \in going
  /\ \E p \in Servers : pc[p] = "idle"
  /\ going' = going \ {r}
  /\ IF /\ order.version = request[r].version /\ order.open
        /\ Requested(Active) \cap audited = {}
       THEN /\ order' = [version |-> order.version + 1, open |-> FALSE]
            /\ Close(Requested(Active), "invalidated")
       ELSE UNCHANGED <<order, request, code, audited>>
  /\ UNCHANGED <<late, pc, local>>

-----------------------------------------------------------------------------
\* Five minutes pass: a code is issued after its request and lives as long.
Expire(r) ==
  /\ request[r].status # "none"
  /\ \E s \in SUBSET {k \in Codes : code[k].req = r} : late' = late \cup {r} \cup s
  /\ late' # late
  /\ UNCHANGED <<order, request, code, audited, pc, local, going>>

\* A process dies; the cancellations it was waiting to begin die with it.
Crash(p) ==
  /\ pc[p] # "idle" \/ p \in Servers
  /\ Return(p)
  /\ going' \in IF p \in Servers THEN SUBSET going ELSE {going}
  /\ UNCHANGED <<order, request, code, audited, late>>

Next ==
  \/ \E p \in Processes : OrderMoves(p) \/ CloseRead(p) \/ Crash(p)
  \/ \E r \in Requests :
       \/ GetRequest(r) \/ AuthorizeRead(r) \/ Begin(r) \/ Expire(r)
       \/ \E p \in Servers : CreateRequest(p, r) \/ UseRequest(p, r)
  \/ ReviewOrder
  \/ \E k \in Codes : AuthorizeWrite(k)
  \/ \E p \in Servers :
       \/ LoadOrder(p) \/ FindCode(p) \/ WrongCode(p) \/ ExpiredCode(p)
       \/ Consume(p) \/ Attempt(p)

Spec == Init /\ [][Next]_vars

-----------------------------------------------------------------------------
(* Properties. *)

TypeOK ==
  /\ order \in [version : Nat, open : BOOLEAN]
  /\ request \in [Requests -> RequestRows]
  /\ code \in [Codes -> CodeRows]
  /\ audited \subseteq Requests
  /\ late \subseteq Requests \cup Codes
  /\ pc \in [Processes -> Labels]
  /\ local \in [Processes -> Locals]
  /\ going \subseteq Requests

\* A code that could still be used belongs to a request that is authorized:
\* whatever closes a request, in whatever order with its authorization, takes
\* its codes along.
CodeFollowsRequest ==
  \A k \in Codes : Usable(k) => request[code[k].req].status = "authorized"

\* Several servers trying codes at once get MaxAttempts wrong ones between them,
\* and after the last the right one is refused as well.
GuessesLimited ==
  \A k \in Codes :
    /\ code[k].fails <= MaxAttempts
    /\ code[k].fails = MaxAttempts => ~Usable(k) /\ ~code[k].consumed

\* A request leads to one call of cancel at most, with a code of its own that
\* was consumed for it, also when two servers present the code together.
UsedOnce ==
  [][\A r \in going' \ going :
       /\ request[r].status # "attempted"
       /\ \E k \in Codes : code[k].req = r /\ code[k].consumed]_vars

\* A request the dashboard shows as open is one for the order as it is: in every
\* process, whatever moves the order closes the requests in the same
\* transaction, and a request that is asked for meanwhile does not slip in with
\* an older version.  (One that was closed and reopened, its invalidation on
\* record, is the subject of InvalidationRetained.)
OpenIsCurrent ==
  \A r \in Requested(Active) \ audited :
    request[r].version = order.version /\ order.open

\* What the package's README says of refusals: a request that was closed stays
\* closed.
InvalidationRetained ==
  [][\A r \in Requests :
       request[r].status \in {"invalidated", "expired"} =>
         request'[r].status \in {"invalidated", "expired"}]_vars
=============================================================================
