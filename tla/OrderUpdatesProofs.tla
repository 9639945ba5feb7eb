-------------------------- MODULE OrderUpdatesProofs --------------------------
(***************************************************************************)
(* Proofs about OrderUpdates for any number of cancellations, refreshes    *)
(* and processes, and for an order of any quantity.                        *)
(***************************************************************************)
EXTENDS OrderUpdates, SequenceTheorems, TLAPS

\* The broker's history: fills grow, and only its last entry may be final.
Ordered ==
  \A i \in 1..Len(broker) :
    /\ broker[i].state \in Open \cup Terminal
    /\ broker[i].state \in Open => broker[i].fill < Quantity
    /\ broker[i].fill <= AtBroker.fill
    /\ i # Len(broker) => broker[i].state \in Open

\* What is claimed of the order is true of the broker.
Backed(state, fill) ==
  /\ state \in Terminal => BrokerHas({state})
  /\ fill # 0 => broker # <<>> /\ fill <= AtBroker.fill

\* Everything a run has read or been told, and the row itself, is true.
Truth ==
  /\ Backed(row.state, row.filled)
  /\ \A a \in Actors : /\ Backed(seen[a].state, seen[a].filled)
                       /\ Backed(found[a].state, found[a].fill)

\* A run in the middle of a store call holds its process.
Holding == \A a \in Actors : pc[a] \in {"writing", "claiming", "gating"} => busy[Host[a]] = a

IInv == TypeOK /\ Ordered /\ Truth /\ Holding

\* All runs are coroutines of one process, as without an MCP server.
OneProcess == \A a, b \in Actors : Host[a] = Host[b]

\* A version names one content of the row; a cancellation that has read the row
\* to store its result still has the current one.
Current ==
  /\ row.version >= 2
  /\ \A a \in Actors :
       /\ seen[a].version <= row.version
       /\ seen[a].version = row.version => seen[a] = row
       /\ pc[a] = "writing" => seen[a] = row /\ row.state = "CANCEL_PENDING"

-----------------------------------------------------------------------------
(* Types. *)

\* The transition table leads from states to states.
LEMMA MoveTyping ==
  ASSUME NEW from \in OrderState, NEW to, MayMove(from, to)
  PROVE  to \in OrderState
BY DEF MayMove, Transitions, OrderState

\* Nothing is an answer, and an unread row is a row.
LEMMA Blank == Nothing \in Answers /\ Unread \in Rows /\ Unread.version = 0
BY SizeAssumption DEF Nothing, Answers, Unread, Rows, OrderState

\* A step to a label keeps pc a function to labels.
LEMMA GotoTyping ==
  ASSUME TypeOK, NEW a \in Actors, NEW l \in Labels, Goto(a, l)
  PROVE  pc' \in [Actors -> Labels]
BY DEF TypeOK, Goto

\* So does the end of a run, which forgets what it knew.
LEMMA EndTyping ==
  ASSUME TypeOK, NEW a \in Actors, End(a)
  PROVE  /\ pc' \in [Actors -> Labels]
         /\ seen' \in [Actors -> Rows]
         /\ found' \in [Actors -> Answers]
BY Blank DEF TypeOK, End, Goto, Labels

\* What a broker's answer is turned into.
LEMMA ResolveTyping ==
  ASSUME NEW r \in Rows, NEW f \in Answers
  PROVE  /\ Resolve(r, f).state \in OrderState
         /\ Resolve(r, f).fill \in 0..Quantity
<1>1. r.filled \in 0..Quantity /\ f.fill \in 0..Quantity
  BY DEF Rows, Answers
<1> QED
  BY <1>1, SizeAssumption DEF Resolve, Open, OrderState

\* What a broker's snapshot makes of a row.
LEMMA ReconciledTyping ==
  ASSUME NEW s \in Rows, NEW f \in Answers
  PROVE  Reconciled(s, f) \in Rows
<1> DEFINE to == IF s.state = "CANCEL_PENDING" /\ f.state \in Open THEN "CANCEL_PENDING"
                 ELSE f.state
           filled == IF f.fill = 0 THEN s.filled ELSE f.fill
           applied == [state |-> to, version |-> s.version + 1, filled |-> filled]
           kept == [s EXCEPT !.version = @ + 1]
<1>1. s.version + 1 \in Nat /\ s.state \in OrderState /\ filled \in 0..Quantity
  BY DEF Rows, Answers
<1>2. kept \in Rows
  BY <1>1 DEF Rows
<1>3. ASSUME to = s.state \/ MayMove(s.state, to)
      PROVE  applied \in Rows
  <2>1. to \in OrderState
    BY <1>1, <1>3, MoveTyping
  <2> QED
    BY <1>1, <2>1 DEF Rows
<1>4. \/ Reconciled(s, f) = kept
      \/ Reconciled(s, f) = applied /\ (to = s.state \/ MayMove(s.state, to))
  BY DEF Reconciled
<1> QED
  BY <1>2, <1>3, <1>4

\* The run is somewhere, and what it has read and been told is typed.
RunsTyped ==
  /\ pc \in [Actors -> Labels]
  /\ seen \in [Actors -> Rows]
  /\ found \in [Actors -> Answers]

\* A cancellation's action keeps every variable in its type.
LEMMA CancelTyping ==
  ASSUME TypeOK, NEW c \in Cancels, Review(c) \/ CancelProgress(c)
  PROVE  TypeOK'
<1> c \in Actors /\ Host[c] \in Processes /\ row \in Rows
  BY RunAssumption DEF Actors, TypeOK
<1> {"reviewed", "queued", "requesting", "awaiting", "finishing", "writing"} \subseteq Labels
  BY DEF Labels
<1> USE DEF TypeOK
<1>1. CASE Review(c)
  BY <1>1, GotoTyping DEF Review, stored, outside
<1>2. CASE Capability(c)
  BY <1>2, GotoTyping, EndTyping DEF Capability, stored, outside, local
<1>3. CASE Begin(c)
  <2>1. CASE row' = row /\ UNCHANGED <<latest, turn>> /\ End(c)
    BY <1>3, <2>1, EndTyping DEF Begin, outside
  <2>2. CASE /\ row' = [row EXCEPT !.state = "CANCEL_PENDING", !.version = @ + 1]
             /\ latest' = c
             /\ turn' = [turn EXCEPT ![Host[c]] = c]
             /\ Goto(c, "requesting")
             /\ UNCHANGED local
    <3>1. row.version + 1 \in Nat /\ row.filled \in 0..Quantity
      BY DEF Rows
    <3>2. row' = [state |-> "CANCEL_PENDING", version |-> row.version + 1,
                  filled |-> row.filled]
      BY <2>2 DEF Rows
    <3>3. row' \in Rows
      BY <3>1, <3>2 DEF Rows, OrderState
    <3> QED
      BY <1>3, <2>2, <3>3, GotoTyping DEF Begin, outside, local
  <2> QED
    BY <1>3, <2>1, <2>2 DEF Begin
<1>4. CASE Request(c)
  BY <1>4, GotoTyping DEF Request, stored, local
<1>5. CASE Answer(c)
  BY <1>5, GotoTyping, Blank DEF Answer, AnswerOr, stored, outside
<1>6. CASE FinishRead(c)
  <2>1. CASE End(c) /\ EndTurn(c) /\ UNCHANGED busy
    BY <1>6, <2>1, EndTyping DEF FinishRead, EndTurn, stored, outside
  <2>2. CASE /\ seen' = [seen EXCEPT ![c] = row]
             /\ busy' = [busy EXCEPT ![Host[c]] = c]
             /\ Goto(c, "writing")
             /\ UNCHANGED <<turn, found>>
    BY <1>6, <2>2, GotoTyping DEF FinishRead, stored, outside
  <2> QED
    BY <1>6, <2>1, <2>2 DEF FinishRead
<1>7. CASE FinishWrite(c)
  <2> DEFINE to == Resolve(seen[c], found[c])
             filled == IF to.fill = 0 \/ to.fill = seen[c].filled THEN row.filled ELSE to.fill
  <2>1. to.state \in OrderState /\ to.fill \in 0..Quantity
    BY ResolveTyping
  <2>2. row' = [row EXCEPT !.state = to.state, !.version = seen[c].version + 1,
                           !.filled = filled]
    BY <1>7 DEF FinishWrite
  <2> HIDE DEF to
  <2>3. seen[c].version + 1 \in Nat /\ filled \in 0..Quantity
    BY <2>1 DEF Rows
  <2>4. row' \in Rows
    BY <2>1, <2>2, <2>3 DEF Rows
  <2> QED
    BY <1>7, <2>4, EndTyping DEF FinishWrite, EndTurn, outside
<1> QED
  BY <1>1, <1>2, <1>3, <1>4, <1>5, <1>6, <1>7 DEF CancelProgress

\* The entries of the broker's history.
LEMMA Entries ==
  ASSUME TypeOK, NEW i \in 1..Len(broker)
  PROVE  /\ broker[i] \in [state : OrderState, fill : 0..Quantity]
         /\ broker[i].state \in OrderState
         /\ broker[i].fill \in 0..Quantity
<1> DEFINE Report == [state : OrderState, fill : 0..Quantity]
<1>1. broker \in Seq(Report)
  BY DEF TypeOK
<1> HIDE DEF Report
<1>2. broker[i] \in Report
  BY <1>1, ElementOfSeq
<1> QED
  BY <1>2 DEF Report

\* The indices of the broker's history, and its last entry.
LEMMA Indices ==
  ASSUME TypeOK
  PROVE  /\ Len(broker) \in Nat
         /\ DOMAIN broker = 1..Len(broker)
         /\ broker # <<>> => /\ Len(broker) \in 1..Len(broker)
                             /\ AtBroker.state \in OrderState
                             /\ AtBroker.fill \in 0..Quantity
<1>1. /\ Len(broker) \in Nat
      /\ DOMAIN broker = 1..Len(broker)
      /\ broker # <<>> => Len(broker) # 0
  BY LenProperties, EmptySeq DEF TypeOK
<1>2. broker # <<>> => Len(broker) \in 1..Len(broker)
  BY <1>1
<1> QED
  BY <1>1, <1>2, Entries DEF AtBroker

\* What a snapshot may say is an answer.
LEMMA SnapshotTyping == TypeOK => Snapshots \subseteq Answers
<1> SUFFICES ASSUME TypeOK, NEW f \in Snapshots, f # Nothing PROVE f \in Answers
  BY Blank
<1>1. PICK i \in DOMAIN broker :
        f \in [state : {broker[i].state, "UNKNOWN"}, fill : {0, broker[i].fill}]
  BY DEF Snapshots
<1>2. broker[i].state \in OrderState /\ broker[i].fill \in 0..Quantity
  BY Indices, Entries
<1> QED
  BY <1>1, <1>2, SizeAssumption DEF Answers, OrderState

\* A refresh's action keeps every variable in its type.
LEMMA RefreshTyping ==
  ASSUME TypeOK, NEW r \in Refreshes, RefreshStep(r)
  PROVE  TypeOK'
<1> r \in Actors /\ Host[r] \in Processes /\ row \in Rows
  BY RunAssumption DEF Actors, TypeOK
<1> {"claiming", "gating", "looking", "applying"} \subseteq Labels
  BY DEF Labels
<1> USE DEF TypeOK
<1>1. CASE Start(r)
  BY <1>1, GotoTyping, EndTyping DEF Start, stored, outside, local
<1>2. CASE ClaimRead(r)
  BY <1>2, GotoTyping DEF ClaimRead, stored, outside
<1>3. CASE ClaimGate(r)
  BY <1>3, GotoTyping, EndTyping DEF ClaimGate, outside, local
<1>4. CASE Look(r)
  BY <1>4, GotoTyping, SnapshotTyping DEF Look, stored, outside
<1>5. CASE Apply(r)
  <2>1. row' \in Rows
    BY <1>5, ReconciledTyping DEF Apply
  <2> QED
    BY <1>5, <2>1, EndTyping DEF Apply, outside
<1> QED
  BY <1>1, <1>2, <1>3, <1>4, <1>5 DEF RefreshStep

-----------------------------------------------------------------------------
(* The broker's history. *)

\* What the broker may report of an order it holds.
Reports == [state : OrderState, fill : 0..Quantity]

\* A step that adds e to the history of an order that still trades.
Reported(e) ==
  /\ broker # <<>> /\ AtBroker.state \in Open
  /\ e \in Reports
  /\ e.state \in Open \cup Terminal
  /\ e.state \in Open => e.fill < Quantity
  /\ AtBroker.fill <= e.fill
  /\ broker' = Append(broker, e)

\* The broker reports more fill or the end of the order.
LEMMA ExecutesReports ==
  ASSUME TypeOK, Ordered, Executes
  PROVE  \E e \in Reports : Reported(e)
<1>1. broker # <<>> /\ AtBroker.state \in Open
  BY DEF Executes, BrokerHas
<1>2. AtBroker \in Reports /\ AtBroker.fill \in 0..Quantity /\ AtBroker.fill < Quantity
  BY <1>1, Indices, Entries DEF AtBroker, Ordered, Reports
<1> DEFINE fills == [state |-> IF AtBroker.fill + 1 = Quantity THEN "FILLED"
                               ELSE "PARTIALLY_FILLED",
                     fill |-> AtBroker.fill + 1]
           expires == [AtBroker EXCEPT !.state = "EXPIRED"]
<1>3. CASE broker' = Append(broker, fills)
  <2>1. fills \in Reports /\ Reported(fills)
    BY <1>1, <1>2, <1>3, SizeAssumption DEF Reported, Reports, Open, Terminal, OrderState
  <2> QED
    BY <2>1
<1>4. CASE broker' = Append(broker, expires)
  <2>1. expires = [state |-> "EXPIRED", fill |-> AtBroker.fill]
    BY <1>2 DEF Reports
  <2>2. expires \in Reports /\ Reported(expires)
    BY <1>1, <1>2, <1>4, <2>1 DEF Reported, Reports, Open, Terminal, OrderState
  <2> QED
    BY <2>2
<1> QED
  BY <1>3, <1>4 DEF Executes

\* A cancel request ends an order that still trades, or changes nothing.
LEMMA HandlesReports ==
  ASSUME TypeOK, Ordered, NEW c \in Cancels, Handles(c)
  PROVE  broker' = broker \/ \E e \in Reports : Reported(e)
<1> SUFFICES ASSUME BrokerHas(Open),
                    broker' = Append(broker, [AtBroker EXCEPT !.state = "CANCELED"])
             PROVE  \E e \in Reports : Reported(e)
  BY DEF Handles
<1> DEFINE canceled == [AtBroker EXCEPT !.state = "CANCELED"]
<1>1. broker # <<>> /\ AtBroker.state \in Open
  BY DEF BrokerHas
<1>2. AtBroker \in Reports /\ AtBroker.fill \in 0..Quantity
  BY <1>1, Indices, Entries DEF AtBroker, Reports
<1>3. canceled = [state |-> "CANCELED", fill |-> AtBroker.fill]
  BY <1>2 DEF Reports
<1>4. canceled \in Reports /\ Reported(canceled)
  BY <1>1, <1>2, <1>3 DEF Reported, Reports, Open, Terminal, OrderState
<1> QED
  BY <1>4

\* A report is the new last entry; the others stay.
LEMMA ReportAppends ==
  ASSUME TypeOK, NEW e \in Reports, broker' = Append(broker, e)
  PROVE  /\ broker' \in Seq(Reports)
         /\ Len(broker') = Len(broker) + 1
         /\ Len(broker) \in Nat
         /\ broker' # <<>>
         /\ AtBroker' = e
         /\ \A i \in 1..Len(broker) : broker'[i] = broker[i]
<1>1. broker \in Seq(Reports)
  BY DEF TypeOK, Reports
<1>2. /\ broker' \in Seq(Reports)
      /\ Len(broker') = Len(broker) + 1
      /\ Len(broker) \in Nat
      /\ \A i \in 1..Len(broker) : broker'[i] = broker[i]
      /\ broker'[Len(broker) + 1] = e
  BY <1>1, AppendProperties, LenProperties
<1>3. broker' # <<>>
  BY <1>2, EmptySeq
<1> QED
  BY <1>2, <1>3 DEF AtBroker

\* The history stays ordered when the broker reports.
LEMMA OrderedKept ==
  ASSUME TypeOK, Ordered, NEW e \in Reports, Reported(e)
  PROVE  Ordered'
<1> SUFFICES ASSUME NEW i \in 1..Len(broker')
             PROVE  /\ broker'[i].state \in Open \cup Terminal
                    /\ broker'[i].state \in Open => broker'[i].fill < Quantity
                    /\ broker'[i].fill <= AtBroker'.fill
                    /\ i # Len(broker') => broker'[i].state \in Open
  BY DEF Ordered
<1>1. /\ Len(broker') = Len(broker) + 1 /\ Len(broker) \in Nat
      /\ AtBroker' = e
      /\ \A j \in 1..Len(broker) : broker'[j] = broker[j]
  BY ReportAppends DEF Reported
<1>2. e.fill \in 0..Quantity /\ AtBroker.fill \in 0..Quantity
  BY Indices DEF Reported, Reports
<1>3. CASE i = Len(broker')
  BY <1>1, <1>2, <1>3, SizeAssumption DEF AtBroker, Reported
<1>4. CASE i # Len(broker')
  <2>1. i \in 1..Len(broker) /\ broker'[i] = broker[i]
    BY <1>1, <1>4
  <2>2. /\ broker[i].state \in Open
        /\ broker[i].state \in Open => broker[i].fill < Quantity
        /\ broker[i].fill <= AtBroker.fill
    BY <2>1 DEF Ordered, AtBroker, Reported
  <2>3. broker[i].fill \in 0..Quantity
    BY <2>1, Entries
  <2> QED
    BY <1>1, <1>2, <2>1, <2>2, <2>3, SizeAssumption DEF Reported
<1> QED
  BY <1>3, <1>4

\* What was true of the broker stays true when it reports.
LEMMA BackedKept ==
  ASSUME TypeOK, NEW e \in Reports, Reported(e), NEW s, NEW n \in 0..Quantity,
         Backed(s, n)
  PROVE  /\ s \notin Terminal
         /\ n # 0 => broker' # <<>> /\ n <= AtBroker'.fill
<1>1. s \notin Terminal
  BY DEF Backed, BrokerHas, Reported, Open, Terminal
<1>2. e.fill \in 0..Quantity /\ AtBroker.fill \in 0..Quantity
  BY Indices DEF Reported, Reports
<1>3. broker' # <<>> /\ AtBroker' = e
  BY ReportAppends DEF Reported
<1> QED
  BY <1>1, <1>2, <1>3, SizeAssumption DEF Backed, Reported

\* Faults and the broker keep every variable in its type.
LEMMA WorldTyping ==
  ASSUME TypeOK, Ordered, World
  PROVE  TypeOK'
<1> Nothing \in Answers /\ Unread \in Rows /\ "done" \in Labels
  BY Blank DEF Labels
<1> \A a \in Actors : Host[a] \in Processes
  BY RunAssumption
<1>1. ASSUME NEW a \in Actors, StoreFails(a) PROVE TypeOK'
  BY <1>1, EndTyping, SizeAssumption DEF StoreFails, TypeOK, stored, outside
<1>2. ASSUME NEW p \in Processes, Crash(p) PROVE TypeOK'
  BY <1>2, SizeAssumption DEF Crash, TypeOK, stored, outside
<1>3. CASE GateOpens
  BY <1>3 DEF GateOpens, TypeOK, local, outside
<1>4. CASE Executes
  <2>1. PICK e \in Reports : Reported(e)
    BY <1>4, ExecutesReports
  <2>2. broker' \in Seq(Reports)
    BY <2>1, ReportAppends DEF Reported
  <2> QED
    BY <1>4, <2>2 DEF Executes, TypeOK, stored, local, Reports
<1>5. ASSUME NEW c \in Cancels, Handles(c) PROVE TypeOK'
  <2>1. broker' \in Seq(Reports)
    BY <1>5, HandlesReports, ReportAppends DEF Reported, TypeOK, Reports
  <2>2. broker' # <<>> /\ broker # <<>>
    BY <1>5, HandlesReports, ReportAppends DEF Reported, Handles
  <2>3. broker'[Len(broker')].state \in OrderState
    <3>1. Len(broker') \in 1..Len(broker')
      BY <2>1, <2>2, EmptySeq
    <3>2. broker'[Len(broker')] \in Reports
      BY <2>1, <3>1, ElementOfSeq
    <3> QED
      BY <3>2 DEF Reports
  <2>4. AtBroker.fill \in 0..Quantity
    BY <2>2, Indices
  <2>5. \A f \in {0, AtBroker.fill} :
          [state |-> broker'[Len(broker')].state, fill |-> f] \in Answers
    BY <2>3, <2>4, SizeAssumption DEF Answers
  <2>6. found' \in [Actors -> Answers]
    BY <1>5, <2>5 DEF Handles, TypeOK
  <2> QED
    BY <1>5, <2>1, <2>6 DEF Handles, TypeOK, stored, Reports
<1> QED
  BY <1>1, <1>2, <1>3, <1>4, <1>5 DEF World

\* Every step keeps every variable in its type.
LEMMA TypeStep == TypeOK /\ Ordered /\ [Next]_vars => TypeOK'
<1> SUFFICES ASSUME TypeOK, Ordered, [Next]_vars PROVE TypeOK'
  OBVIOUS
<1>1. CASE UNCHANGED vars
  BY <1>1 DEF vars, stored, local, outside, TypeOK
<1> QED
  BY <1>1, CancelTyping, RefreshTyping, WorldTyping DEF Next

-----------------------------------------------------------------------------
(* What runs know is true. *)

\* Only the broker changes the broker's history.
LEMMA HistoryFrame ==
  ASSUME Next
  PROVE  \/ broker' = broker
         \/ Executes /\ UNCHANGED <<pc, busy, row, seen, found>>
         \/ \E c \in Cancels : Handles(c) /\ UNCHANGED <<pc, busy, row, seen>>
BY DEF Next, CancelProgress, RefreshStep, World, Review, Capability, Begin, Request, Answer,
       AnswerOr, FinishRead, FinishWrite, Start, ClaimRead, ClaimGate, Look, Apply,
       StoreFails, Crash, GateOpens, Executes, Handles, outside, stored, local

\* The history stays ordered.
LEMMA OrderedStep == TypeOK /\ Ordered /\ [Next]_vars => Ordered'
<1> SUFFICES ASSUME TypeOK, Ordered, [Next]_vars PROVE Ordered'
  OBVIOUS
<1>1. broker' = broker \/ \E e \in Reports : Reported(e)
  BY HistoryFrame, ExecutesReports, HandlesReports DEF vars, outside
<1>2. CASE broker' = broker
  BY <1>2 DEF Ordered, AtBroker
<1> QED
  BY <1>1, <1>2, OrderedKept

\* No answer and an unread row claim nothing.
LEMMA BlankBacked == Backed(Nothing.state, Nothing.fill) /\ Backed(Unread.state, Unread.filled)
BY DEF Backed, Nothing, Unread, Terminal

\* A true answer is turned into a true one.
LEMMA ResolveBacked ==
  ASSUME NEW r, NEW f, Backed(f.state, f.fill)
  PROVE  Backed(Resolve(r, f).state, Resolve(r, f).fill)
BY DEF Resolve, Backed, Terminal, BrokerHas

\* A true snapshot makes a true row out of a true one.
LEMMA ReconciledBacked ==
  ASSUME NEW s \in Rows, NEW f \in Answers, Backed(s.state, s.filled), Backed(f.state, f.fill)
  PROVE  Backed(Reconciled(s, f).state, Reconciled(s, f).filled)
<1> DEFINE to == IF s.state = "CANCEL_PENDING" /\ f.state \in Open THEN "CANCEL_PENDING"
                 ELSE f.state
           filled == IF f.fill = 0 THEN s.filled ELSE f.fill
           applied == [state |-> to, version |-> s.version + 1, filled |-> filled]
           kept == [s EXCEPT !.version = @ + 1]
<1>1. kept.state = s.state /\ kept.filled = s.filled
  BY DEF Rows
<1>2. applied.state = to /\ applied.filled = filled
  OBVIOUS
<1>3. Backed(to, filled)
  BY DEF Backed, Terminal, BrokerHas
<1>4. Reconciled(s, f) = kept \/ Reconciled(s, f) = applied
  BY DEF Reconciled
<1> HIDE DEF to, filled, applied, kept
<1> QED
  BY <1>1, <1>2, <1>3, <1>4

\* A snapshot of any moment is true: a final state is the broker's last.
LEMMA SnapshotBacked ==
  ASSUME TypeOK, Ordered, NEW f \in Snapshots
  PROVE  Backed(f.state, f.fill)
<1>1. CASE f = Nothing
  BY <1>1, BlankBacked
<1>2. CASE f # Nothing
  <2>1. PICK i \in DOMAIN broker :
          f \in [state : {broker[i].state, "UNKNOWN"}, fill : {0, broker[i].fill}]
    BY <1>2 DEF Snapshots
  <2>2. i \in 1..Len(broker) /\ Len(broker) \in Nat
    BY <2>1, Indices
  <2>3. broker # <<>>
    BY <2>2, EmptySeq
  <2>4. f.state \in Terminal => i = Len(broker) /\ f.state = broker[i].state
    BY <2>1, <2>2 DEF Ordered, Open, Terminal
  <2>5. broker[i].fill <= AtBroker.fill
    BY <2>2 DEF Ordered
  <2> QED
    BY <2>1, <2>2, <2>3, <2>4, <2>5 DEF Backed, BrokerHas, AtBroker
<1> QED
  BY <1>1, <1>2

\* Truth, while the broker does nothing.
LEMMA TruthFrame ==
  ASSUME broker' = broker,
         Backed(row'.state, row'.filled),
         \A a \in Actors : /\ Backed(seen'[a].state, seen'[a].filled)
                           /\ Backed(found'[a].state, found'[a].fill)
  PROVE  Truth'
BY DEF Truth, Backed, BrokerHas, AtBroker

\* A run that ends knows nothing, and nothing is true.
LEMMA EndTruth ==
  ASSUME TypeOK, Truth, NEW a \in Actors, End(a)
  PROVE  \A b \in Actors : /\ Backed(seen'[b].state, seen'[b].filled)
                           /\ Backed(found'[b].state, found'[b].fill)
BY BlankBacked DEF Truth, End, TypeOK

\* Truth, when a cancellation takes a step.
LEMMA CancelTruth ==
  ASSUME TypeOK, Truth, NEW c \in Cancels, Review(c) \/ CancelProgress(c)
  PROVE  Truth'
<1> c \in Actors
  BY DEF Actors
<1>1. CASE Review(c)
  BY <1>1, TruthFrame DEF Review, Truth, TypeOK, stored, outside
<1>2. CASE Capability(c)
  BY <1>2, TruthFrame, EndTruth DEF Capability, Truth, stored, outside, local
<1>3. CASE Begin(c)
  <2>1. CASE row' = row /\ End(c)
    BY <1>3, <2>1, TruthFrame, EndTruth DEF Begin, Truth, outside
  <2>2. CASE row' = [row EXCEPT !.state = "CANCEL_PENDING", !.version = @ + 1] /\ UNCHANGED local
    <3>1. row'.state = "CANCEL_PENDING" /\ row'.filled = row.filled
      BY <2>2 DEF TypeOK, Rows
    <3>2. Backed(row'.state, row'.filled)
      BY <3>1 DEF Truth, Backed, Terminal
    <3> QED
      BY <1>3, <2>2, <3>2, TruthFrame DEF Begin, Truth, outside, local
  <2> QED
    BY <1>3, <2>1, <2>2 DEF Begin
<1>4. CASE Request(c)
  BY <1>4, TruthFrame DEF Request, Truth, stored, local
<1>5. CASE Answer(c)
  <2>1. \A a \in Actors : found'[a] = found[a] \/ found'[a] = Nothing
    BY <1>5 DEF Answer, AnswerOr, TypeOK
  <2> QED
    BY <1>5, <2>1, TruthFrame, BlankBacked DEF Answer, AnswerOr, Truth, stored, outside
<1>6. CASE FinishRead(c)
  <2>1. CASE End(c)
    BY <1>6, <2>1, TruthFrame, EndTruth DEF FinishRead, Truth, stored, outside
  <2>2. CASE seen' = [seen EXCEPT ![c] = row] /\ UNCHANGED found
    BY <1>6, <2>2, TruthFrame DEF FinishRead, Truth, TypeOK, stored, outside
  <2> QED
    BY <1>6, <2>1, <2>2 DEF FinishRead
<1>7. CASE FinishWrite(c)
  <2> DEFINE to == Resolve(seen[c], found[c])
             filled == IF to.fill = 0 \/ to.fill = seen[c].filled THEN row.filled ELSE to.fill
  <2>1. Backed(to.state, to.fill)
    BY ResolveBacked DEF Truth
  <2>2. row' = [row EXCEPT !.state = to.state, !.version = seen[c].version + 1,
                           !.filled = filled]
    BY <1>7 DEF FinishWrite
  <2> HIDE DEF to
  <2>3. row'.state = to.state /\ row'.filled = filled
    BY <2>2 DEF TypeOK, Rows
  <2>4. Backed(row'.state, row'.filled)
    BY <2>1, <2>3 DEF Truth, Backed
  <2> QED
    BY <1>7, <2>4, TruthFrame, EndTruth DEF FinishWrite, outside
<1> QED
  BY <1>1, <1>2, <1>3, <1>4, <1>5, <1>6, <1>7 DEF CancelProgress

\* Truth, when a refresh takes a step.
LEMMA RefreshTruth ==
  ASSUME TypeOK, Ordered, Truth, NEW r \in Refreshes, RefreshStep(r)
  PROVE  Truth'
<1> r \in Actors
  BY DEF Actors
<1>1. CASE Start(r)
  BY <1>1, TruthFrame, EndTruth DEF Start, Truth, stored, outside, local
<1>2. CASE ClaimRead(r)
  BY <1>2, TruthFrame DEF ClaimRead, Truth, TypeOK, stored, outside
<1>3. CASE ClaimGate(r)
  BY <1>3, TruthFrame, EndTruth DEF ClaimGate, Truth, outside, local
<1>4. CASE Look(r)
  <2>1. PICK f \in Snapshots : found' = [found EXCEPT ![r] = f]
    BY <1>4 DEF Look
  <2>2. Backed(f.state, f.fill)
    BY SnapshotBacked
  <2>3. \A a \in Actors : Backed(found'[a].state, found'[a].fill)
    BY <2>1, <2>2 DEF Truth, TypeOK
  <2> QED
    BY <1>4, <2>3, TruthFrame DEF Look, Truth, stored, outside
<1>5. CASE Apply(r)
  <2>1. Backed(Reconciled(seen[r], found[r]).state, Reconciled(seen[r], found[r]).filled)
    BY ReconciledBacked DEF Truth, TypeOK
  <2>2. Backed(row'.state, row'.filled)
    BY <1>5, <2>1 DEF Apply, Truth
  <2> QED
    BY <1>5, <2>2, TruthFrame, EndTruth DEF Apply, outside
<1> QED
  BY <1>1, <1>2, <1>3, <1>4, <1>5 DEF RefreshStep

\* Truth, when the broker reports and a run may hear of it.
LEMMA ReportTruth ==
  ASSUME TypeOK, Truth, NEW e \in Reports, Reported(e), UNCHANGED <<row, seen>>,
         \A a \in Actors :
           \/ found'[a] = found[a]
           \/ found'[a].state = AtBroker'.state /\ found'[a].fill \in {0, AtBroker.fill}
  PROVE  Truth'
<1>1. broker' # <<>> /\ AtBroker' = e
  BY ReportAppends DEF Reported
<1>2. \A s, n : n \in 0..Quantity /\ Backed(s, n)
                  => /\ s \in Terminal => BrokerHas({s})'
                     /\ n # 0 => broker' # <<>> /\ n <= AtBroker'.fill
  BY BackedKept
<1>3. Backed(row.state, row.filled)' /\ \A a \in Actors : Backed(seen[a].state, seen[a].filled)'
  BY <1>2 DEF Truth, TypeOK, Rows, Backed
<1>4. ASSUME NEW a \in Actors
      PROVE  Backed(found[a].state, found[a].fill)'
  <2>1. CASE found'[a] = found[a]
    BY <1>2, <2>1 DEF Truth, TypeOK, Answers, Backed
  <2>2. CASE found'[a].state = AtBroker'.state /\ found'[a].fill \in {0, AtBroker.fill}
    BY <1>1, <2>2 DEF Backed, BrokerHas, AtBroker, Reported
  <2> QED
    BY <2>1, <2>2
<1> QED
  BY <1>3, <1>4 DEF Truth

\* Truth, when something fails, time passes or the broker acts.
LEMMA WorldTruth ==
  ASSUME TypeOK, Ordered, Truth, World
  PROVE  Truth'
<1>1. ASSUME NEW a \in Actors, StoreFails(a) PROVE Truth'
  BY <1>1, TruthFrame, EndTruth DEF StoreFails, Truth, stored, outside
<1>2. ASSUME NEW p \in Processes, Crash(p) PROVE Truth'
  <2>1. \A a \in Actors : /\ seen'[a] \in {seen[a], Unread}
                          /\ found'[a] \in {found[a], Nothing}
    BY <1>2 DEF Crash
  <2> QED
    BY <1>2, <2>1, TruthFrame, BlankBacked DEF Crash, Truth, stored, outside
<1>3. CASE GateOpens
  BY <1>3, TruthFrame DEF GateOpens, Truth, local, outside
<1>4. CASE Executes
  BY <1>4, ExecutesReports, ReportTruth DEF Executes, stored, local
<1>5. ASSUME NEW c \in Cancels, Handles(c) PROVE Truth'
  <2>1. PICK f \in {0, AtBroker.fill} :
          found' = IF pc[c] = "awaiting"
                     THEN [found EXCEPT ![c] = [state |-> broker'[Len(broker')].state,
                                                fill |-> f]]
                     ELSE found
    BY <1>5 DEF Handles
  <2>2. \A a \in Actors :
          \/ found'[a] = found[a]
          \/ found'[a].state = AtBroker'.state /\ found'[a].fill \in {0, AtBroker.fill}
    BY <2>1 DEF TypeOK, AtBroker
  <2>3. UNCHANGED <<row, seen>> /\ broker # <<>>
    BY <1>5 DEF Handles, stored
  <2>4. CASE broker' = broker
    <3>1. \A a \in Actors : Backed(found'[a].state, found'[a].fill)
      BY <2>2, <2>3, <2>4, Indices, SizeAssumption DEF Truth, Backed, BrokerHas, AtBroker
    <3> QED
      BY <2>3, <2>4, <3>1, TruthFrame DEF Truth
  <2> QED
    BY <1>5, <2>2, <2>3, <2>4, HandlesReports, ReportTruth
<1> QED
  BY <1>1, <1>2, <1>3, <1>4, <1>5 DEF World

\* Every step keeps what is known true.
LEMMA TruthStep == TypeOK /\ Ordered /\ Truth /\ [Next]_vars => Truth'
<1> SUFFICES ASSUME TypeOK, Ordered, Truth, [Next]_vars PROVE Truth'
  OBVIOUS
<1>1. CASE UNCHANGED vars
  BY <1>1, TruthFrame DEF vars, stored, local, outside, Truth
<1> QED
  BY <1>1, CancelTruth, RefreshTruth, WorldTruth DEF Next

-----------------------------------------------------------------------------
(* Who holds a process. *)

\* A step of a that holds its process, gives it back, or finds it free.
LEMMA HoldingOf ==
  ASSUME TypeOK, Holding, NEW a \in Actors, NEW l \in Labels,
         pc' = [pc EXCEPT ![a] = l],
         Free(a) \/ busy[Host[a]] = a \/ UNCHANGED busy,
         \/ UNCHANGED busy /\ (l \in {"writing", "claiming", "gating"} => busy[Host[a]] = a)
         \/ /\ busy' = [busy EXCEPT ![Host[a]] = None]
            /\ l \notin {"writing", "claiming", "gating"}
         \/ busy' = [busy EXCEPT ![Host[a]] = a]
  PROVE  Holding'
<1> \A b \in Actors : Host[b] \in Processes /\ b # None
  BY RunAssumption
<1> SUFFICES ASSUME NEW b \in Actors, pc'[b] \in {"writing", "claiming", "gating"}
             PROVE  busy'[Host[b]] = b
  BY DEF Holding
<1>1. CASE b = a
  BY <1>1 DEF TypeOK, Holding
<1>2. CASE b # a
  BY <1>2 DEF TypeOK, Holding, Free
<1> QED
  BY <1>1, <1>2

\* Every step keeps the run in the middle of a store call the one that holds its
\* process.
LEMMA HoldingStep == TypeOK /\ Holding /\ [Next]_vars => Holding'
<1> SUFFICES ASSUME TypeOK, Holding, [Next]_vars PROVE Holding'
  OBVIOUS
<1> USE DEF Labels, Goto, End
<1>1. ASSUME NEW c \in Cancels, Review(c) \/ CancelProgress(c) PROVE Holding'
  <2> c \in Actors
    BY DEF Actors
  <2>1. CASE Review(c)
    BY <2>1, HoldingOf DEF Review
  <2>2. CASE Capability(c)
    BY <2>2, HoldingOf DEF Capability
  <2>3. CASE Begin(c)
    BY <2>3, HoldingOf DEF Begin
  <2>4. CASE Request(c)
    BY <2>4, HoldingOf DEF Request
  <2>5. CASE Answer(c)
    BY <2>5, HoldingOf DEF Answer, AnswerOr
  <2>6. CASE FinishRead(c)
    BY <2>6, HoldingOf DEF FinishRead
  <2>7. CASE FinishWrite(c)
    <3>1. busy[Host[c]] = c
      BY <2>7 DEF FinishWrite, Holding
    <3> QED
      BY <2>7, <3>1, HoldingOf DEF FinishWrite
  <2> QED
    BY <1>1, <2>1, <2>2, <2>3, <2>4, <2>5, <2>6, <2>7 DEF CancelProgress
<1>2. ASSUME NEW r \in Refreshes, RefreshStep(r) PROVE Holding'
  <2> r \in Actors
    BY DEF Actors
  <2>1. CASE Start(r)
    BY <2>1, HoldingOf DEF Start
  <2>2. CASE ClaimRead(r)
    <3>1. busy[Host[r]] = r
      BY <2>2 DEF ClaimRead, Holding
    <3> QED
      BY <2>2, <3>1, HoldingOf DEF ClaimRead
  <2>3. CASE ClaimGate(r)
    <3>1. busy[Host[r]] = r
      BY <2>3 DEF ClaimGate, Holding
    <3> QED
      BY <2>3, <3>1, HoldingOf DEF ClaimGate
  <2>4. CASE Look(r)
    BY <2>4, HoldingOf DEF Look
  <2>5. CASE Apply(r)
    BY <2>5, HoldingOf DEF Apply
  <2> QED
    BY <1>2, <2>1, <2>2, <2>3, <2>4, <2>5 DEF RefreshStep
<1>3. ASSUME NEW a \in Actors, StoreFails(a) PROVE Holding'
  BY <1>3, HoldingOf DEF StoreFails
<1>4. ASSUME NEW p \in Processes, Crash(p) PROVE Holding'
  <2>1. \A a \in Actors : Host[a] = p /\ pc'[a] # "done" => pc'[a] = "idle"
    BY <1>4 DEF Crash, TypeOK
  <2>2. \A a \in Actors : Host[a] # p => pc'[a] = pc[a] /\ busy'[Host[a]] = busy[Host[a]]
    BY <1>4, RunAssumption DEF Crash, TypeOK
  <2> QED
    BY <2>1, <2>2 DEF Holding
<1>5. CASE GateOpens \/ Executes \/ (\E c \in Cancels : Handles(c)) \/ UNCHANGED vars
  BY <1>5 DEF GateOpens, Executes, Handles, vars, Holding
<1> QED
  BY <1>1, <1>2, <1>3, <1>4, <1>5 DEF Next, World

-----------------------------------------------------------------------------
(* The inductive invariant. *)

LEMMA Initially == Init => IInv
<1> SUFFICES ASSUME Init PROVE IInv
  OBVIOUS
<1> "idle" \in Labels /\ Nothing \in Answers /\ Unread \in Rows
  BY Blank DEF Labels
<1> DEFINE accepted == [state |-> "ACCEPTED", fill |-> 0]
           rejected == [state |-> "REJECTED", fill |-> 0]
<1>1. accepted \in Reports /\ rejected \in Reports
  BY SizeAssumption DEF Reports, OrderState
<1>2. broker \in {<<accepted>>, <<rejected>>, <<>>}
  BY DEF Init
<1>3. /\ broker \in Seq(Reports)
      /\ Len(broker) \in {0, 1}
      /\ Len(broker) = 1 => broker[1] \in {accepted, rejected}
  <2> HIDE DEF accepted, rejected
  <2>1. CASE broker = <<>>
    BY <2>1, EmptySeq
  <2>2. CASE broker = <<accepted>>
    BY <1>1, <2>2
  <2>3. CASE broker = <<rejected>>
    BY <1>1, <2>3
  <2> QED
    BY <1>2, <2>1, <2>2, <2>3
<1>4. Ordered
  <2> SUFFICES ASSUME NEW i \in 1..Len(broker)
               PROVE  /\ broker[i].state \in Open \cup Terminal
                      /\ broker[i].state \in Open => broker[i].fill < Quantity
                      /\ broker[i].fill <= AtBroker.fill
                      /\ i # Len(broker) => broker[i].state \in Open
    BY DEF Ordered
  <2>1. i = 1 /\ Len(broker) = 1
    BY <1>3
  <2>2. broker[i] \in {accepted, rejected} /\ AtBroker = broker[i]
    BY <1>3, <2>1 DEF AtBroker
  <2>3. broker[i].fill = 0 /\ broker[i].state \in Open \cup Terminal
    BY <2>2 DEF Open, Terminal
  <2> QED
    BY <2>1, <2>2, <2>3, SizeAssumption
<1>5. PICK s \in {"ACCEPTED", "UNKNOWN"} : row = [state |-> s, version |-> 2, filled |-> 0]
  BY DEF Init
<1>6. row \in Rows
  BY <1>5, SizeAssumption DEF Rows, OrderState
<1>7. Truth
  BY <1>5, BlankBacked DEF Init, Truth, Backed, Terminal
<1>8. TypeOK
  BY <1>3, <1>6 DEF Init, TypeOK, Reports
<1>9. Holding
  BY DEF Init, Holding
<1> QED
  BY <1>4, <1>7, <1>8, <1>9 DEF IInv

LEMMA Inductive == IInv /\ [Next]_vars => IInv'
BY TypeStep, OrderedStep, TruthStep, HoldingStep DEF IInv

\* Runs always hold what the steps expect of them, the broker's history is
\* ordered, and whatever a run has read or been told is true of the broker.
THEOREM Invariance == Spec => []IInv
BY Initially, Inductive, PTL DEF Spec

\* Every variable keeps its type: require_transition's table and the
\* reconciliation rules only ever store order states and fills within the order.
THEOREM TypeCorrect == Spec => []TypeOK
<1>1. IInv => TypeOK
  BY DEF IInv
<1> QED
  BY <1>1, Invariance, PTL

\* However cancellations, refreshes, late answers, outdated snapshots, failed
\* store calls and dying processes interleave, in any number of processes, the
\* store shows an order as over only if the broker has it in that state, and no
\* fill the broker did not report.
THEOREM FinalTrue == Spec => []FinalIsTrue
<1>1. IInv => FinalIsTrue
  BY DEF IInv, Truth, Backed, FinalIsTrue
<1> QED
  BY <1>1, Invariance, PTL

-----------------------------------------------------------------------------
(* The history of the row, in one process. *)

\* While a run holds the process, no other run does and none finds it free.
LEMMA Exclusive ==
  ASSUME TypeOK, Holding, OneProcess, NEW a \in Actors, pc[a] = "writing"
  PROVE  \A b \in Actors : /\ ~Free(b)
                           /\ pc[b] = "writing" => b = a
BY RunAssumption DEF Holding, OneProcess, Free

\* The shape of a step of the row: it stays, or it gets the next version, moves
\* along the table and keeps its fill or raises it.
Advances ==
  \/ row' = row
  \/ /\ row'.version = row.version + 1
     /\ row'.state = row.state \/ MayMove(row.state, row'.state)
     /\ row'.filled >= row.filled

\* A row that is written back moves along the table.
LEMMA ResolveMoves ==
  ASSUME NEW r \in Rows, NEW f \in Answers, r.state = "CANCEL_PENDING"
  PROVE  /\ MayMove(r.state, Resolve(r, f).state)
         /\ Resolve(r, f).fill # 0 => Resolve(r, f).fill >= r.filled
<1> DEFINE to == Resolve(r, f)
<1>1. to.state \in Open \cup {"CANCELED", "FILLED", "EXPIRED", "UNKNOWN"}
  BY DEF Resolve
<1>2. to.fill # 0 => to.fill >= r.filled
  BY DEF Resolve
<1>3. MayMove("CANCEL_PENDING", to.state)
  <2>1. Transitions["CANCEL_PENDING"] =
          {"ACCEPTED", "PARTIALLY_FILLED", "FILLED", "REJECTED", "CANCELED", "EXPIRED", "UNKNOWN"}
    BY DEF Transitions, OrderState
  <2> QED
    BY <1>1, <2>1 DEF MayMove, Open
<1> QED
  BY <1>2, <1>3

\* So does a row that is reconciled.
LEMMA ReconciledMoves ==
  ASSUME NEW s \in Rows, NEW f \in Answers
  PROVE  /\ Reconciled(s, f).version = s.version + 1
         /\ \/ Reconciled(s, f).state = s.state
            \/ MayMove(s.state, Reconciled(s, f).state)
         /\ Reconciled(s, f).filled >= s.filled
<1> DEFINE to == IF s.state = "CANCEL_PENDING" /\ f.state \in Open THEN "CANCEL_PENDING"
                 ELSE f.state
           filled == IF f.fill = 0 THEN s.filled ELSE f.fill
           applied == [state |-> to, version |-> s.version + 1, filled |-> filled]
           kept == [s EXCEPT !.version = @ + 1]
<1>1. /\ kept.state = s.state /\ kept.version = s.version + 1 /\ kept.filled = s.filled
      /\ s.filled >= s.filled
  BY DEF Rows
<1>2. applied.state = to /\ applied.version = s.version + 1 /\ applied.filled = filled
  OBVIOUS
<1>3. \/ Reconciled(s, f) = kept
      \/ /\ Reconciled(s, f) = applied
         /\ to = s.state \/ MayMove(s.state, to)
         /\ filled >= s.filled
  BY DEF Reconciled
<1> HIDE DEF to, filled, applied, kept
<1> QED
  BY <1>1, <1>2, <1>3

\* A step that leaves the row alone: runs read it, forget it or keep what they know.
LEMMA RowKept ==
  ASSUME TypeOK, Current, row' = row,
         \A a \in Actors :
           /\ seen'[a] \in {seen[a], row, Unread}
           /\ pc'[a] = "writing" => \/ pc[a] = "writing" /\ seen'[a] = seen[a]
                                    \/ seen'[a] = row /\ row.state = "CANCEL_PENDING"
  PROVE  Current' /\ Advances
<1>1. row.version \in Nat
  BY DEF TypeOK, Rows
<1> QED
  BY <1>1, Blank DEF Current, Advances

\* A step that writes the next version while nobody else is about to.
LEMMA RowWritten ==
  ASSUME TypeOK, Current, row'.version = row.version + 1,
         \A a \in Actors : seen'[a] \in {seen[a], Unread} /\ pc'[a] # "writing"
  PROVE  Current'
<1>1. row.version \in Nat /\ \A a \in Actors : seen[a].version \in Nat
  BY DEF TypeOK, Rows
<1> QED
  BY <1>1, Blank DEF Current

\* A run that finds its process free, or has it, is the only one to write.
LEMMA OnlyWriter ==
  ASSUME TypeOK, Holding, OneProcess, NEW a \in Actors, NEW l \in Labels,
         Free(a) \/ pc[a] = "writing", Goto(a, l), l # "writing"
  PROVE  \A b \in Actors : pc'[b] # "writing"
BY Exclusive DEF Goto, TypeOK

\* A run that ends forgets only what it has read itself.
LEMMA EndForgets ==
  ASSUME TypeOK, NEW a \in Actors, End(a)
  PROVE  \A b \in Actors : /\ seen'[b] \in {seen[b], Unread}
                           /\ pc'[b] = "writing" => pc[b] = "writing" /\ seen'[b] = seen[b]
BY DEF TypeOK, End, Goto

\* In one process a cancellation takes the row one legal step at a time.
LEMMA CancelCurrent ==
  ASSUME TypeOK, Holding, Current, OneProcess, NEW c \in Cancels,
         Review(c) \/ CancelProgress(c)
  PROVE  Current' /\ Advances
<1> c \in Actors /\ {"done", "requesting"} \subseteq Labels
  BY DEF Actors, Labels
<1>1. CASE Review(c)
  BY <1>1, RowKept DEF Review, Goto, TypeOK, stored
<1>2. CASE Capability(c)
  <2>1. CASE End(c)
    BY <1>2, <2>1, RowKept, EndForgets DEF Capability, stored
  <2>2. CASE Goto(c, "queued") /\ UNCHANGED local
    BY <1>2, <2>2, RowKept DEF Capability, Goto, TypeOK, stored, local
  <2> QED
    BY <1>2, <2>1, <2>2 DEF Capability
<1>3. CASE Begin(c)
  <2>1. CASE row' = row /\ End(c)
    BY <2>1, RowKept, EndForgets
  <2>2. CASE /\ CanCancel(row)
             /\ row' = [row EXCEPT !.state = "CANCEL_PENDING", !.version = @ + 1]
             /\ Goto(c, "requesting")
             /\ UNCHANGED local
    <3>1. /\ row'.state = "CANCEL_PENDING" /\ row'.version = row.version + 1
          /\ row'.filled = row.filled /\ row.filled \in Nat
      BY <2>2, SizeAssumption DEF TypeOK, Rows
    <3>2. MayMove(row.state, "CANCEL_PENDING")
      BY <2>2 DEF CanCancel, Open, MayMove, Transitions, OrderState
    <3>3. \A b \in Actors : pc'[b] # "writing"
      BY <1>3, <2>2, OnlyWriter DEF Begin
    <3> QED
      BY <2>2, <3>1, <3>2, <3>3, RowWritten DEF Advances, local
  <2> QED
    BY <1>3, <2>1, <2>2 DEF Begin
<1>4. CASE Request(c)
  BY <1>4, RowKept DEF Request, Goto, TypeOK, stored, local
<1>5. CASE Answer(c)
  BY <1>5, RowKept DEF Answer, AnswerOr, Goto, TypeOK, stored
<1>6. CASE FinishRead(c)
  <2>1. CASE End(c)
    BY <1>6, <2>1, RowKept, EndForgets DEF FinishRead, stored
  <2>2. CASE row.state = "CANCEL_PENDING" /\ seen' = [seen EXCEPT ![c] = row] /\ Goto(c, "writing")
    BY <1>6, <2>2, RowKept DEF FinishRead, Goto, TypeOK, stored
  <2> QED
    BY <1>6, <2>1, <2>2 DEF FinishRead
<1>7. CASE FinishWrite(c)
  <2> DEFINE to == Resolve(row, found[c])
             filled == IF to.fill = 0 \/ to.fill = row.filled THEN row.filled ELSE to.fill
  <2>1. seen[c] = row /\ row.state = "CANCEL_PENDING"
    BY <1>7 DEF FinishWrite, Current
  <2>2. row' = [row EXCEPT !.state = to.state, !.version = row.version + 1, !.filled = filled]
    BY <1>7, <2>1 DEF FinishWrite
  <2>3. MayMove(row.state, to.state) /\ (to.fill # 0 => to.fill >= row.filled)
    BY <2>1, ResolveMoves DEF TypeOK
  <2> HIDE DEF to
  <2>4. /\ row'.state = to.state /\ row'.version = row.version + 1 /\ row'.filled = filled
        /\ row.filled \in Nat
    BY <2>2, SizeAssumption DEF TypeOK, Rows
  <2>5. Advances
    BY <2>3, <2>4 DEF Advances
  <2>6. \A b \in Actors : pc'[b] # "writing"
    BY <1>7, OnlyWriter DEF FinishWrite, End
  <2> QED
    BY <1>7, <2>4, <2>5, <2>6, RowWritten, EndForgets DEF FinishWrite
<1> QED
  BY <1>1, <1>2, <1>3, <1>4, <1>5, <1>6, <1>7 DEF CancelProgress

\* So does a refresh: its UPDATE is refused unless it has the current row.
LEMMA RefreshCurrent ==
  ASSUME TypeOK, Holding, Current, OneProcess, NEW r \in Refreshes, RefreshStep(r)
  PROVE  Current' /\ Advances
<1> r \in Actors /\ "done" \in Labels
  BY DEF Actors, Labels
<1>1. CASE Start(r)
  <2>1. CASE End(r)
    BY <1>1, <2>1, RowKept, EndForgets DEF Start, stored
  <2>2. CASE Goto(r, "claiming") /\ UNCHANGED local
    BY <1>1, <2>2, RowKept DEF Start, Goto, TypeOK, stored, local
  <2> QED
    BY <1>1, <2>1, <2>2 DEF Start
<1>2. CASE ClaimRead(r)
  BY <1>2, RowKept DEF ClaimRead, Goto, TypeOK, stored
<1>3. CASE ClaimGate(r)
  <2>1. CASE End(r)
    BY <1>3, <2>1, RowKept, EndForgets DEF ClaimGate
  <2>2. CASE Goto(r, "looking") /\ UNCHANGED local
    BY <1>3, <2>2, RowKept DEF ClaimGate, Goto, TypeOK, local
  <2> QED
    BY <1>3, <2>1, <2>2 DEF ClaimGate
<1>4. CASE Look(r)
  BY <1>4, RowKept DEF Look, Goto, TypeOK, stored
<1>5. CASE Apply(r)
  <2>1. CASE row.version = seen[r].version /\ row.state = seen[r].state
    <3>1. seen[r] = row /\ row' = Reconciled(row, found[r])
      BY <1>5, <2>1 DEF Apply, Current
    <3>2. /\ row'.version = row.version + 1
          /\ row'.state = row.state \/ MayMove(row.state, row'.state)
          /\ row'.filled >= row.filled
      BY <3>1, ReconciledMoves DEF TypeOK
    <3>3. \A b \in Actors : pc'[b] # "writing"
      BY <1>5, OnlyWriter DEF Apply, End
    <3> QED
      BY <1>5, <3>2, <3>3, RowWritten, EndForgets DEF Apply, Advances
  <2>2. CASE ~(row.version = seen[r].version /\ row.state = seen[r].state)
    BY <1>5, <2>2, RowKept, EndForgets DEF Apply
  <2> QED
    BY <2>1, <2>2
<1> QED
  BY <1>1, <1>2, <1>3, <1>4, <1>5 DEF RefreshStep

\* Faults and the broker leave the row alone.
LEMMA WorldCurrent ==
  ASSUME TypeOK, Current, World
  PROVE  Current' /\ Advances
<1>1. ASSUME NEW a \in Actors, StoreFails(a) PROVE Current' /\ Advances
  BY <1>1, RowKept, EndForgets DEF StoreFails, stored
<1>2. ASSUME NEW p \in Processes, Crash(p) PROVE Current' /\ Advances
  <2>1. \A a \in Actors : /\ seen'[a] \in {seen[a], Unread}
                          /\ pc'[a] = "writing" => pc[a] = "writing" /\ seen'[a] = seen[a]
    BY <1>2 DEF Crash
  <2> QED
    BY <1>2, <2>1, RowKept DEF Crash, stored
<1>3. CASE GateOpens
  BY <1>3, RowKept DEF GateOpens, local
<1>4. CASE Executes
  BY <1>4, RowKept DEF Executes, local, stored
<1>5. ASSUME NEW c \in Cancels, Handles(c) PROVE Current' /\ Advances
  BY <1>5, RowKept DEF Handles, stored
<1> QED
  BY <1>1, <1>2, <1>3, <1>4, <1>5 DEF World

\* In one process every step takes the row at most one legal step on.
LEMMA CurrentStep ==
  ASSUME OneProcess, IInv, Current, [Next]_vars
  PROVE  Current' /\ Advances
<1>1. CASE UNCHANGED vars
  BY <1>1, RowKept DEF vars, stored, local, IInv
<1> QED
  BY <1>1, CancelCurrent, RefreshCurrent, WorldCurrent DEF Next, IInv

LEMMA CurrentInitially == Init => Current
<1> SUFFICES ASSUME Init PROVE Current
  OBVIOUS
<1>1. row.version = 2 /\ \A a \in Actors : seen[a] = Unread /\ pc[a] = "idle"
  BY DEF Init
<1> QED
  BY <1>1, Blank DEF Current

\* While only one process works on orders, whatever its coroutines interleave
\* with and however they fail, the stored order moves along require_transition's
\* table, every write is a new version and its fill never decreases.  (With the
\* MCP server beside the API it is not so: see the run order_updates_race.)
THEOREM HistoryLegal == ASSUME OneProcess PROVE Spec => LegalHistory
<1>1. Init => Current
  BY CurrentInitially
<1>2. IInv /\ Current /\ [Next]_vars => Current'
  BY CurrentStep
<1>3. IInv /\ Current /\ [Next]_vars
        => [row' # row => /\ row'.state = row.state \/ MayMove(row.state, row'.state)
                          /\ row'.version = row.version + 1
                          /\ row'.filled >= row.filled]_vars
  BY CurrentStep DEF Advances
<1> QED
  BY Invariance, <1>1, <1>2, <1>3, PTL DEF Spec, LegalHistory

-----------------------------------------------------------------------------
(* One cancellation at a time. *)

Underway == {"requesting", "awaiting", "finishing", "writing"}

\* The service's lock for the order is held exactly while a cancellation of the
\* process is under way, and a store call exactly while a run is in one.
OneByOne ==
  /\ \A c \in Cancels : pc[c] \in Underway => turn[Host[c]] = c
  /\ \A p \in Processes :
       /\ turn[p] # None => Host[turn[p]] = p /\ pc[turn[p]] \in Underway
       /\ busy[p] # None => Host[busy[p]] = p /\ pc[busy[p]] \in {"writing", "claiming", "gating"}

\* Where the runs are and what they hold.
Places ==
  /\ pc \in [Actors -> Labels]
  /\ busy \in [Processes -> Actors \cup {None}]
  /\ turn \in [Processes -> Cancels \cup {None}]
  /\ Host \in [Actors -> Processes] /\ None \notin Actors

\* A cancellation's step takes a free lock, keeps it or gives it back.
LEMMA CancelOneByOne ==
  ASSUME Places, Holding, OneByOne, NEW c \in Cancels, Review(c) \/ CancelProgress(c)
  PROVE  OneByOne'
<1> c \in Actors /\ Host[c] \in Processes /\ Cancels \subseteq Actors
  BY DEF Actors, Places
<1> USE DEF OneByOne, Places, Goto, End, EndTurn, Underway, Labels
<1>1. CASE Review(c)
  BY <1>1 DEF Review
<1>2. CASE Capability(c)
  BY <1>2 DEF Capability
<1>3. CASE Begin(c)
  <2>1. CASE End(c) /\ UNCHANGED turn
    BY <1>3, <2>1 DEF Begin
  <2>2. CASE Goto(c, "requesting") /\ turn' = [turn EXCEPT ![Host[c]] = c]
    BY <1>3, <2>2 DEF Begin
  <2> QED
    BY <1>3, <2>1, <2>2 DEF Begin
<1>4. CASE Request(c)
  BY <1>4 DEF Request
<1>5. CASE Answer(c)
  BY <1>5 DEF Answer, AnswerOr
<1>6. CASE FinishRead(c)
  <2>1. CASE End(c) /\ EndTurn(c) /\ UNCHANGED busy
    BY <1>6, <2>1 DEF FinishRead
  <2>2. CASE /\ Goto(c, "writing") /\ UNCHANGED turn
             /\ busy' = [busy EXCEPT ![Host[c]] = c]
    BY <1>6, <2>2 DEF FinishRead, Free
  <2> QED
    BY <1>6, <2>1, <2>2 DEF FinishRead
<1>7. CASE FinishWrite(c)
  BY <1>7 DEF FinishWrite, Holding
<1> QED
  BY <1>1, <1>2, <1>3, <1>4, <1>5, <1>6, <1>7 DEF CancelProgress

\* A refresh enters and leaves its store calls.
LEMMA RefreshOneByOne ==
  ASSUME Places, Holding, OneByOne, NEW r \in Refreshes, RefreshStep(r)
  PROVE  OneByOne'
<1> r \in Actors /\ Host[r] \in Processes /\ r \notin Cancels /\ Cancels \subseteq Actors
  BY RunAssumption DEF Actors, Places
<1> USE DEF OneByOne, Places, Goto, End, Underway, Labels
<1>1. CASE Start(r)
  <2>1. CASE End(r) /\ UNCHANGED busy
    BY <1>1, <2>1 DEF Start
  <2>2. CASE Goto(r, "claiming") /\ busy' = [busy EXCEPT ![Host[r]] = r]
    BY <1>1, <2>2 DEF Start, Free
  <2> QED
    BY <1>1, <2>1, <2>2 DEF Start
<1>2. CASE ClaimRead(r)
  BY <1>2 DEF ClaimRead, Holding
<1>3. CASE ClaimGate(r)
  BY <1>3 DEF ClaimGate, Holding
<1>4. CASE Look(r)
  BY <1>4 DEF Look
<1>5. CASE Apply(r)
  BY <1>5 DEF Apply, Free
<1> QED
  BY <1>1, <1>2, <1>3, <1>4, <1>5 DEF RefreshStep

\* A failed store call and a dying process give back what they held.
LEMMA WorldOneByOne ==
  ASSUME Places, Holding, OneByOne, World
  PROVE  OneByOne'
<1> Cancels \subseteq Actors
  BY DEF Actors
<1> USE DEF OneByOne, Places, Underway, Labels
<1>1. ASSUME NEW a \in Actors, StoreFails(a) PROVE OneByOne'
  BY <1>1 DEF StoreFails, Goto, End, Free, Holding
<1>2. ASSUME NEW p \in Processes, Crash(p) PROVE OneByOne'
  BY <1>2 DEF Crash
<1>3. CASE GateOpens \/ Executes \/ \E c \in Cancels : Handles(c)
  BY <1>3 DEF GateOpens, Executes, Handles
<1> QED
  BY <1>1, <1>2, <1>3 DEF World

LEMMA OneByOneStep == IInv /\ OneByOne /\ [Next]_vars => OneByOne'
<1> SUFFICES ASSUME IInv, OneByOne, [Next]_vars PROVE OneByOne'
  OBVIOUS
<1>1. CASE UNCHANGED vars
  BY <1>1 DEF vars, OneByOne
<1> Places
  BY RunAssumption DEF IInv, TypeOK, Places
<1> QED
  BY <1>1, CancelOneByOne, RefreshOneByOne, WorldOneByOne DEF Next, IInv

\* In each of any number of processes at most one cancellation of the order is
\* between its begin and its finish, and neither its lock nor the event loop is
\* ever left held, whether the broker answers, a store call fails or the process
\* dies: no cancellation and no refresh waits for a run that is gone.
THEOREM NothingLeftHeld == Spec => []OneByOne
<1>1. Init => OneByOne
  BY DEF Init, OneByOne, Actors, Underway
<1> QED
  BY <1>1, Invariance, OneByOneStep, PTL DEF Spec

-----------------------------------------------------------------------------
(* Cancellations on request. *)

\* A request is on its way only after a cancellation was recorded.
Recorded == \A c \in Cancels : c \in sent \/ pc[c] = "requesting" => latest # None

\* No order is canceled unless a cancellation was recorded.
OnRequest == BrokerHas({"CANCELED"}) \/ row.state = "CANCELED" => latest # None

\* A run sends its request after it recorded the cancellation, for good.
LEMMA RequestsRecorded ==
  ASSUME TypeOK, Recorded, [Next]_vars
  PROVE  /\ Recorded'
         /\ latest # None => latest' # None
<1> DEFINE Quiet == /\ latest' = latest /\ sent' \subseteq sent
                    /\ \A c \in Cancels : pc'[c] = "requesting" => pc[c] = "requesting"
<1> Cancels \subseteq Actors /\ Refreshes \subseteq Actors /\ None \notin Cancels
  BY RunAssumption DEF Actors
<1> SUFFICES ASSUME ~Quiet PROVE latest' # None
  BY DEF Recorded
<1>1. CASE UNCHANGED vars
  BY <1>1 DEF vars, stored, outside
<1>2. ASSUME NEW c \in Cancels,
             Review(c) \/ Capability(c) \/ Answer(c) \/ FinishRead(c) \/ FinishWrite(c)
      PROVE  Quiet
  BY <1>2 DEF Review, Capability, Answer, AnswerOr, FinishRead, FinishWrite,
     Goto, End, stored, outside, TypeOK
<1>3. ASSUME NEW c \in Cancels, Begin(c)
      PROVE  Quiet \/ latest' = c
  BY <1>3 DEF Begin, End, Goto, outside, TypeOK
<1>4. ASSUME NEW c \in Cancels, Request(c)
      PROVE  latest' # None
  BY <1>4 DEF Request, stored, Recorded
<1>5. ASSUME NEW r \in Refreshes, RefreshStep(r)
      PROVE  Quiet
  BY <1>5 DEF RefreshStep, Start, ClaimRead, ClaimGate, Look, Apply, Goto, End, stored,
     outside, TypeOK
<1>6. CASE World
  BY <1>6 DEF World, StoreFails, Crash, GateOpens, Executes, Handles, Goto, End, stored,
     outside, TypeOK
<1> HIDE DEF Quiet
<1> QED
  BY <1>1, <1>2, <1>3, <1>4, <1>5, <1>6 DEF Next, CancelProgress

LEMMA RecordedInitially == Init => Recorded
<1> SUFFICES ASSUME Init PROVE Recorded
  OBVIOUS
<1>1. sent = {} /\ \A c \in Cancels : pc[c] = "idle"
  BY DEF Init, Actors
<1> QED
  BY <1>1 DEF Recorded

\* The broker cancels the order when it handles a request.
LEMMA CanceledStep ==
  ASSUME IInv, IInv', Recorded, BrokerHas({"CANCELED"}) => latest # None, [Next]_vars
  PROVE  BrokerHas({"CANCELED"})' => latest' # None
<1> USE DEF IInv
<1>1. CASE UNCHANGED broker
  BY <1>1, RequestsRecorded DEF BrokerHas, AtBroker
<1>2. CASE Executes
  <2>1. AtBroker \in Reports /\ broker # <<>>
    BY <1>2, Indices, Entries DEF Executes, BrokerHas, AtBroker, Reports
  <2>2. PICK e \in Reports : broker' = Append(broker, e) /\ e.state # "CANCELED"
    <3> DEFINE fills == [state |-> IF AtBroker.fill + 1 = Quantity THEN "FILLED"
                                   ELSE "PARTIALLY_FILLED",
                         fill |-> AtBroker.fill + 1]
               expires == [AtBroker EXCEPT !.state = "EXPIRED"]
    <3>1. fills.state # "CANCELED" /\ expires.state # "CANCELED"
      BY <2>1 DEF Reports
    <3>2. PICK e \in Reports : Reported(e)
      BY <1>2, ExecutesReports
    <3>3. broker' = Append(broker, fills) \/ broker' = Append(broker, expires)
      BY <1>2 DEF Executes
    <3>4. e = fills \/ e = expires
      BY <3>2, <3>3, ReportAppends DEF Reported
    <3> QED
      BY <3>1, <3>2, <3>4 DEF Reported
  <2>3. AtBroker' = e
    BY <2>2, ReportAppends
  <2> QED
    BY <2>2, <2>3 DEF BrokerHas
<1>3. ASSUME NEW c \in Cancels, Handles(c) PROVE latest' # None
  BY <1>3 DEF Handles, stored, Recorded
<1> QED
  BY <1>1, <1>2, <1>3, HistoryFrame DEF vars, outside

\* However many processes run and whatever fails in them, neither the broker nor
\* the store has the order canceled unless a cancellation was recorded first: a
\* request that is still on its way is one the store knows of.
THEOREM CanceledOnRequest == Spec => []OnRequest
<1> DEFINE Inv == /\ IInv /\ Recorded
                  /\ BrokerHas({"CANCELED"}) => latest # None
<1>1. Init => Inv
  <2>1. Init => ~BrokerHas({"CANCELED"})
    BY DEF Init, BrokerHas, AtBroker
  <2> QED
    BY <2>1, Initially, RecordedInitially
<1>2. Inv /\ [Next]_vars => Inv'
  BY Inductive, RequestsRecorded, CanceledStep DEF IInv
<1>3. Inv => OnRequest
  BY DEF IInv, Truth, Backed, Terminal, OnRequest
<1> HIDE DEF Inv
<1> QED
  BY <1>1, <1>2, <1>3, PTL DEF Spec

-----------------------------------------------------------------------------
(* Refinement of TrackedOrder. *)

\* Requests are recorded, no provider reports that a cancellation is pending, and
\* the row does not contradict itself.
Faithful ==
  /\ Recorded
  /\ \A a \in Actors : found[a].state # "CANCEL_PENDING"
  /\ FillFits(row.state, row.filled)

\* What a step does to the order: nothing, ...
Keeps == UNCHANGED <<row, latest, broker>>

\* ... a run records that it will ask for a cancellation, ...
Asks ==
  /\ row.state \in Open
  /\ row' = [row EXCEPT !.state = "CANCEL_PENDING", !.version = @ + 1]
  /\ latest' \in Cancels
  /\ UNCHANGED broker

\* ... a run stores what it learned, ...
Learns ==
  /\ row'.version = row.version + 1
  /\ row'.state # "CANCEL_PENDING" \/ row'.state = row.state
  /\ FillFits(row'.state, row'.filled)
  /\ UNCHANGED <<latest, broker>>

\* ... or the broker trades or ends the order, canceling it only on request.
Trades ==
  /\ UNCHANGED <<row, latest>>
  /\ \/ \E fill \in 1..Quantity : Tracked!Trade(fill)
     \/ \E state \in {"EXPIRED", "CANCELED"} : Tracked!Close(state)

\* What a cancellation stores fits.
LEMMA ResolveFits ==
  ASSUME NEW r \in Rows, NEW f \in Answers
  PROVE  LET to == Resolve(r, f)
             filled == IF to.fill = 0 \/ to.fill = r.filled THEN r.filled ELSE to.fill
         IN  to.state # "CANCEL_PENDING" /\ FillFits(to.state, filled)
<1>1. r.filled \in Nat /\ f.fill \in Nat
  BY SizeAssumption DEF Rows, Answers
<1>2. Resolve(r, f).state # "CANCEL_PENDING"
  BY DEF Resolve, Open
<1>3. CASE Resolve(r, f).state = "FILLED"
  <2>1. f.fill = Quantity /\ Resolve(r, f).fill = Quantity
    BY <1>3 DEF Resolve, Open
  <2> QED
    BY <1>3, <2>1, SizeAssumption DEF FillFits
<1>4. CASE Resolve(r, f).state = "PARTIALLY_FILLED"
  <2>1. /\ Resolve(r, f).fill = f.fill
        /\ f.fill # 0 => f.fill < Quantity
        /\ f.fill = 0 => r.filled < Quantity
    BY <1>4 DEF Resolve, Open
  <2> QED
    BY <1>4, <2>1 DEF FillFits
<1> QED
  BY <1>2, <1>3, <1>4 DEF FillFits

\* What a refresh stores fits.
LEMMA ReconciledFits ==
  ASSUME NEW s \in Rows, FillFits(s.state, s.filled),
         NEW f \in Answers, f.state # "CANCEL_PENDING"
  PROVE  LET to == Reconciled(s, f)
         IN  /\ to.state # "CANCEL_PENDING" \/ to.state = s.state
             /\ FillFits(to.state, to.filled)
<1> DEFINE to == IF s.state = "CANCEL_PENDING" /\ f.state \in Open THEN "CANCEL_PENDING"
                 ELSE f.state
           filled == IF f.fill = 0 THEN s.filled ELSE f.fill
           applied == [state |-> to, version |-> s.version + 1, filled |-> filled]
           kept == [s EXCEPT !.version = @ + 1]
<1>1. kept.state = s.state /\ kept.filled = s.filled
  BY DEF Rows
<1>2. applied.state = to /\ applied.filled = filled
  OBVIOUS
<1>3. to # "CANCEL_PENDING" \/ to = s.state
  OBVIOUS
<1>4. \/ Reconciled(s, f) = kept
      \/ Reconciled(s, f) = applied /\ FillFits(to, filled)
  BY DEF Reconciled, FillFits
<1> HIDE DEF to, filled, applied, kept
<1> QED
  BY <1>1, <1>2, <1>3, <1>4

\* A cancellation records itself and stores what it learned.
LEMMA CancelTracks ==
  ASSUME TypeOK, Holding, Current, OneProcess, NEW c \in Cancels,
         Review(c) \/ CancelProgress(c)
  PROVE  Keeps \/ Asks \/ Learns
<1>1. CASE Review(c) \/ Capability(c) \/ Request(c) \/ Answer(c) \/ FinishRead(c)
  BY <1>1 DEF Review, Capability, Request, Answer, AnswerOr, FinishRead,
     stored, outside, Keeps
<1>2. CASE Begin(c)
  BY <1>2 DEF Begin, CanCancel, outside, Keeps, Asks
<1>3. CASE FinishWrite(c)
  <2> DEFINE to == Resolve(row, found[c])
             filled == IF to.fill = 0 \/ to.fill = row.filled THEN row.filled ELSE to.fill
  <2> c \in Actors /\ row \in Rows /\ found[c] \in Answers
    BY DEF TypeOK, Actors
  <2>1. seen[c] = row /\ row.state = "CANCEL_PENDING"
    BY <1>3 DEF FinishWrite, Current
  <2>2. row' = [row EXCEPT !.state = to.state, !.version = row.version + 1, !.filled = filled]
    BY <1>3, <2>1 DEF FinishWrite
  <2>3. to.state # "CANCEL_PENDING" /\ FillFits(to.state, filled)
    BY ResolveFits
  <2> HIDE DEF to, filled
  <2>4. row'.state = to.state /\ row'.version = row.version + 1 /\ row'.filled = filled
    BY <2>2 DEF Rows
  <2> QED
    BY <1>3, <2>3, <2>4 DEF FinishWrite, outside, Learns
<1> QED
  BY <1>1, <1>2, <1>3 DEF CancelProgress

\* A refresh stores what it learned.
LEMMA RefreshTracks ==
  ASSUME TypeOK, Current, Faithful, NEW r \in Refreshes, RefreshStep(r)
  PROVE  Keeps \/ Learns
<1>1. CASE Start(r) \/ ClaimRead(r) \/ ClaimGate(r) \/ Look(r)
  BY <1>1 DEF Start, ClaimRead, ClaimGate, Look, stored, outside, Keeps
<1>2. CASE Apply(r)
  <2> r \in Actors /\ row \in Rows /\ found[r] \in Answers
    BY DEF TypeOK, Actors
  <2>1. CASE row' = row
    BY <1>2, <2>1 DEF Apply, outside, Keeps
  <2>2. CASE row' # row
    <3>1. seen[r] = row /\ row' = Reconciled(row, found[r])
      BY <1>2, <2>2 DEF Apply, Current
    <3>2. Reconciled(row, found[r]).version = row.version + 1
      BY ReconciledMoves
    <3>3. /\ row'.state # "CANCEL_PENDING" \/ row'.state = row.state
          /\ FillFits(row'.state, row'.filled)
      BY <3>1, ReconciledFits DEF Faithful
    <3> QED
      BY <1>2, <3>1, <3>2, <3>3 DEF Apply, outside, Learns
  <2> QED
    BY <2>1, <2>2
<1> QED
  BY <1>1, <1>2 DEF RefreshStep

\* The broker trades and ends the order, on request once one was recorded.
LEMMA WorldTracks ==
  ASSUME TypeOK, Ordered, Faithful, World
  PROVE  Keeps \/ Trades
<1>1. CASE (\E a \in Actors : StoreFails(a)) \/ (\E p \in Processes : Crash(p)) \/ GateOpens
  BY <1>1 DEF StoreFails, Crash, GateOpens, stored, outside, Keeps
<1>2. ASSUME BrokerHas(Open)
      PROVE  /\ Held = AtBroker /\ Held \in Reports
             /\ Held.state \in Tracked!Open /\ Held.fill \in 0..Quantity
             /\ Held.fill < Quantity
             /\ \A e : broker' = Append(broker, e) /\ e \in Reports => Held' = e
  <2>1. broker # <<>> /\ Held = AtBroker /\ AtBroker.state \in Open
    BY <1>2 DEF Held, BrokerHas
  <2>2. AtBroker \in Reports /\ AtBroker.fill \in 0..Quantity /\ AtBroker.fill < Quantity
    BY <2>1, Indices, Entries DEF AtBroker, Ordered, Reports
  <2>3. \A e : broker' = Append(broker, e) /\ e \in Reports => Held' = e
    BY ReportAppends DEF Held
  <2> QED
    BY <2>1, <2>2, <2>3 DEF Open, Tracked!Open
<1>3. CASE Executes
  <2> DEFINE fills == [state |-> IF AtBroker.fill + 1 = Quantity THEN "FILLED"
                                 ELSE "PARTIALLY_FILLED",
                       fill |-> AtBroker.fill + 1]
             expires == [AtBroker EXCEPT !.state = "EXPIRED"]
  <2>1. BrokerHas(Open) /\ UNCHANGED <<row, latest>>
    BY <1>3 DEF Executes, stored
  <2>2. CASE broker' = Append(broker, fills)
    <3>1. fills \in Reports /\ AtBroker.fill + 1 \in 1..Quantity
      BY <1>2, <2>1, SizeAssumption DEF Reports, OrderState
    <3>2. Held' = fills
      BY <1>2, <2>1, <2>2, <3>1
    <3>3. Tracked!Trade(AtBroker.fill + 1)
      BY <1>2, <2>1, <3>1, <3>2 DEF Tracked!Trade
    <3> QED
      BY <2>1, <3>1, <3>3 DEF Trades
  <2>3. CASE broker' = Append(broker, expires)
    <3>1. expires \in Reports
      BY <1>2, <2>1 DEF Reports, OrderState
    <3>2. Held' = [Held EXCEPT !.state = "EXPIRED"]
      BY <1>2, <2>1, <2>3, <3>1
    <3>3. Tracked!Close("EXPIRED")
      BY <1>2, <2>1, <3>2 DEF Tracked!Close
    <3> QED
      BY <2>1, <3>3 DEF Trades
  <2> QED
    BY <1>3, <2>2, <2>3 DEF Executes
<1>4. ASSUME NEW c \in Cancels, Handles(c)
      PROVE  Keeps \/ Trades
  <2> DEFINE canceled == [AtBroker EXCEPT !.state = "CANCELED"]
  <2>1. UNCHANGED <<row, latest>> /\ latest # None
    BY <1>4 DEF Handles, stored, Faithful, Recorded
  <2>2. CASE UNCHANGED broker
    BY <2>1, <2>2 DEF Keeps
  <2>3. CASE BrokerHas(Open) /\ broker' = Append(broker, canceled)
    <3>1. canceled \in Reports
      BY <1>2, <2>3 DEF Reports, OrderState
    <3>2. Held' = [Held EXCEPT !.state = "CANCELED"]
      BY <1>2, <2>3, <3>1
    <3>3. Tracked!Close("CANCELED")
      BY <1>2, <2>1, <2>3, <3>2 DEF Tracked!Close
    <3> QED
      BY <2>1, <3>3 DEF Trades
  <2> QED
    BY <1>4, <2>2, <2>3 DEF Handles
<1> QED
  BY <1>1, <1>3, <1>4 DEF World

\* Each step does one of the four to the order.
LEMMA OrderStep ==
  ASSUME OneProcess, IInv, Current, Faithful, [Next]_vars
  PROVE  Keeps \/ Asks \/ Learns \/ Trades
<1>1. CASE UNCHANGED vars
  BY <1>1 DEF vars, stored, outside, Keeps
<1> QED
  BY <1>1, CancelTracks, RefreshTracks, WorldTracks DEF Next, IInv

\* A provider reports a state of the broker, UNKNOWN or nothing.
LEMMA ReportsTrue ==
  ASSUME TypeOK, Ordered, NEW f \in Snapshots
  PROVE  f.state # "CANCEL_PENDING"
<1>1. CASE f = Nothing
  BY <1>1 DEF Nothing
<1>2. CASE f # Nothing
  <2>1. PICK i \in DOMAIN broker :
          f \in [state : {broker[i].state, "UNKNOWN"}, fill : {0, broker[i].fill}]
    BY <1>2 DEF Snapshots
  <2>2. broker[i].state # "CANCEL_PENDING"
    BY Indices DEF Ordered, Open, Terminal
  <2> QED
    BY <2>1, <2>2
<1> QED
  BY <1>1, <1>2

\* No run is ever told that a cancellation is pending.
LEMMA AnswersPlain ==
  ASSUME IInv, Faithful, [Next]_vars
  PROVE  \A a \in Actors : found'[a].state # "CANCEL_PENDING"
<1> USE DEF IInv
<1> Cancels \subseteq Actors /\ Refreshes \subseteq Actors /\ Nothing.state = "NONE"
  BY DEF Actors, Nothing
<1> SUFFICES ASSUME NEW b \in Actors
             PROVE  found'[b] = found[b] \/ found'[b].state # "CANCEL_PENDING"
  BY DEF Faithful
<1>1. CASE UNCHANGED vars
  BY <1>1 DEF vars, local
<1>2. ASSUME NEW c \in Cancels, Review(c) \/ CancelProgress(c)
      PROVE  found'[b] \in {found[b], Nothing}
  BY <1>2 DEF CancelProgress, Review, Capability, Begin, Request, Answer, AnswerOr,
     FinishRead, FinishWrite, End, local, TypeOK
<1>3. ASSUME NEW r \in Refreshes, Start(r) \/ ClaimRead(r) \/ ClaimGate(r) \/ Apply(r)
      PROVE  found'[b] \in {found[b], Nothing}
  BY <1>3 DEF Start, ClaimRead, ClaimGate, Apply, End, local, TypeOK
<1>4. ASSUME NEW r \in Refreshes, Look(r)
      PROVE  found'[b] = found[b] \/ found'[b] \in Snapshots
  BY <1>4 DEF Look, TypeOK
<1>5. CASE (\E a \in Actors : StoreFails(a)) \/ (\E p \in Processes : Crash(p)) \/ GateOpens
           \/ Executes
  BY <1>5 DEF StoreFails, Crash, GateOpens, Executes, End, local, TypeOK
<1>6. ASSUME NEW c \in Cancels, Handles(c)
      PROVE  found'[b] = found[b] \/ found'[b].state # "CANCEL_PENDING"
  <2>1. TypeOK' /\ Ordered' /\ broker' # <<>>
    <3>1. Next
      BY <1>6 DEF Next, World
    <3>2. broker # <<>> /\ (broker' = broker \/ \E e \in Reports : Reported(e))
      BY <1>6, HandlesReports DEF Handles
    <3> QED
      BY <3>1, <3>2, TypeStep, OrderedStep, ReportAppends DEF Reported
  <2>2. broker'[Len(broker')].state # "CANCEL_PENDING"
    <3>1. Len(broker') \in 1..Len(broker')
      BY <2>1, LenProperties, EmptySeq DEF TypeOK
    <3> QED
      BY <2>1, <3>1 DEF Ordered, Open, Terminal
  <2> QED
    BY <1>6, <2>2 DEF Handles, TypeOK
<1> QED
  BY <1>1, <1>2, <1>3, <1>4, <1>5, <1>6, ReportsTrue DEF Next, RefreshStep, CancelProgress, World

\* Runs and the row stay faithful.
LEMMA FaithfulStep ==
  ASSUME OneProcess, IInv, Current, Faithful, [Next]_vars
  PROVE  Faithful'
<1>1. FillFits(row.state, row.filled)'
  <2>1. CASE Keeps \/ Trades
    BY <2>1 DEF Keeps, Trades, Faithful, FillFits
  <2>2. CASE Asks
    <3>1. row'.state = "CANCEL_PENDING"
      BY <2>2 DEF Asks, IInv, TypeOK, Rows
    <3> QED
      BY <3>1 DEF FillFits
  <2>3. CASE Learns
    BY <2>3 DEF Learns, FillFits
  <2> QED
    BY <2>1, <2>2, <2>3, OrderStep
<1> QED
  BY <1>1, RequestsRecorded, AnswersPlain DEF Faithful, IInv

LEMMA FaithfulInitially == Init => Faithful
<1> SUFFICES ASSUME Init PROVE Faithful
  OBVIOUS
<1>1. /\ row.state \in {"ACCEPTED", "UNKNOWN"}
      /\ \A a \in Actors : found[a].state = "NONE"
  BY DEF Init, Nothing
<1> QED
  BY <1>1, RecordedInitially DEF Faithful, FillFits

\* TrackedOrder speaks of the same states.
LEMMA SameStates ==
  /\ Tracked!OrderState = OrderState
  /\ Tracked!Terminal = Terminal
  /\ Tracked!Open = Open
  /\ Tracked!Transitions = Transitions
BY DEF Tracked!OrderState, OrderState, Tracked!Terminal, Terminal, Tracked!Open, Open,
       Tracked!Transitions, Transitions

\* What a run stores, TrackedOrder may learn.
LEMMA LearnsTracked ==
  ASSUME IInv, IInv', Advances, Learns
  PROVE  \E state \in Tracked!Onward, filled \in row.filled..Held.fill :
           Tracked!Learn(state, filled)
<1> USE DEF IInv
<1>1. /\ row' = [state |-> row'.state, version |-> row.version + 1, filled |-> row'.filled]
      /\ row.filled \in Nat /\ row'.filled \in Nat /\ row.version \in Nat
  BY SizeAssumption DEF Learns, TypeOK, Rows
<1>2. row'.state \in Tracked!Onward
  BY <1>1, SameStates DEF Advances, Learns, MayMove, Tracked!Onward
<1>3. Backed(row.state, row.filled)'
  BY DEF Truth
<1>4. Backed(row'.state, row'.filled)
  BY <1>3 DEF Learns, Backed, BrokerHas, AtBroker
<1>5. Held.fill \in Nat
  BY Indices, SizeAssumption DEF Held, Nothing
<1>6. row.filled <= row'.filled /\ row'.filled <= Held.fill
  BY <1>1, <1>4, <1>5 DEF Advances, Learns, Backed, Held
<1>7. row'.state \in Terminal => row'.state = Held.state
  BY <1>4 DEF Backed, BrokerHas, Held
<1>8. UNCHANGED <<Held, latest>>
  BY DEF Learns, Held, AtBroker
<1>9. Tracked!Learn(row'.state, row'.filled)
  BY <1>1, <1>7, <1>8, SameStates DEF Tracked!Learn, Learns, FillFits
<1> QED
  BY <1>1, <1>2, <1>5, <1>6, <1>9

LEMMA TrackedInitially == Init => Tracked!Init
<1> SUFFICES ASSUME Init PROVE Tracked!Init
  OBVIOUS
<1>1. PICK s \in {"ACCEPTED", "UNKNOWN"} :
        /\ row = [state |-> s, version |-> 2, filled |-> 0]
        /\ broker \in {<<[state |-> "ACCEPTED", fill |-> 0]>>}
                   \cup IF s = "UNKNOWN" THEN {<<>>, <<[state |-> "REJECTED", fill |-> 0]>>}
                        ELSE {}
  BY DEF Init
<1>2. /\ Held \in [state : {"NONE", "ACCEPTED", "REJECTED"}, fill : {0}]
      /\ s = "ACCEPTED" => Held.state = "ACCEPTED"
  BY <1>1 DEF Held, AtBroker, Nothing
<1> QED
  BY <1>1, <1>2 DEF Init, Tracked!Init

\* While one process works on orders, its cancellations and refreshes together
\* implement TrackedOrder: the store notes one thing at a time, never an end
\* that did not happen, never less of a fill; and every cancellation at the
\* broker comes after one was recorded, whatever failed in between.
THEOREM Refinement == ASSUME OneProcess PROVE Spec => ImplementsTrackedOrder
<1> DEFINE Inv == IInv /\ Current /\ Faithful
<1>1. Init => Inv
  BY Initially, CurrentInitially, FaithfulInitially
<1>2. Inv /\ [Next]_vars => Inv'
  BY Inductive, CurrentStep, FaithfulStep
<1>3. Inv /\ [Next]_vars => [Tracked!Next]_Tracked!vars
  <2> SUFFICES ASSUME Inv, [Next]_vars PROVE Tracked!Next \/ UNCHANGED Tracked!vars
    OBVIOUS
  <2>1. CASE Keeps
    BY <2>1 DEF Keeps, Held, AtBroker, Tracked!vars
  <2>2. CASE Asks
    <3>1. Tracked!Ask
      BY <2>2, SameStates, RunAssumption DEF Asks, Tracked!Ask, Held, AtBroker, Actors
    <3> QED
      BY <3>1 DEF Tracked!Next
  <2>3. CASE Learns
    BY <1>2, <2>3, CurrentStep, LearnsTracked DEF Tracked!Next
  <2>4. CASE Trades
    BY <2>4 DEF Trades, Tracked!Next
  <2> QED
    BY <2>1, <2>2, <2>3, <2>4, OrderStep
<1>4. Init => Tracked!Init
  BY TrackedInitially
<1> HIDE DEF Inv
<1> QED
  BY <1>1, <1>2, <1>3, <1>4, PTL DEF Spec, ImplementsTrackedOrder, Tracked!Spec
===============================================================================
