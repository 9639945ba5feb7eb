----------------------------- MODULE OrderPages -----------------------------
(***************************************************************************)
(* Listing orders, or the events of their audit, page by page while rows   *)
(* are inserted and change.  A page ends with a cursor: the key of its     *)
(* last row, and a digest of kind, filters and limit, without which it is  *)
(* refused.                                                                *)
(*                                                                         *)
(* Data.  A row is its id, its time and the filters it passes.  Ids are    *)
(* random, so a row may come anywhere among those of its time; and times   *)
(* do not grow with insertion: an event carries the time its operation     *)
(* began, and clocks are set back.  The encoding of a cursor is left out:  *)
(* what decodes at all decodes to what was encoded.                        *)
(***************************************************************************)
EXTENDS Naturals, SequencesExt

CONSTANTS Ids,     \* of rows, in the order of the database
          Times,
          Filters, \* combinations of filters a reader asks for
          Limits,  \* page sizes
          None

ASSUME PageAssumption ==
  /\ Ids \subseteq Nat /\ Times \subseteq Nat \ {0}
  /\ Limits \subseteq 1..100 /\ None \notin Filters
  /\ None \notin [time: Times, id: Ids, digest: [kind: {"orders", "order-audit"},
                                                 filter: Filters, limit: Limits]]

VARIABLES
  kind,     \* which of the two lists
  time,     \* created_at or occurred_at of each row, 0 if there is none
  passes,   \* the filters each row passes now
  filter, limit,  \* what the reader asked for first
  cursor,   \* next_cursor of its last page
  page,     \* the rows of that page
  listed,   \* history variable: the rows of all its pages
  steady    \* history variable: the rows that passed the filter all the time

rows == <<kind, time, passes>>
reader == <<filter, limit, cursor, page, listed>>
vars == <<rows, reader, steady>>

Rows == {i \in Ids : time[i] # 0}

\* The order of the list: newer first, and of one time the larger id.
Before(i, j) == time[i] > time[j] \/ (time[i] = time[j] /\ i > j)

\* order_list_filter_digest and order_audit_filter_digest
Digest(f, l) == [kind |-> kind, filter |-> f, limit |-> l]

\* Bug: of the rows of one time only one page is found.
AfterTime(c, i) == c = None \/ time[i] < c.time

\* Bug: the row the cursor was made of is listed again.
FromCursor(c, i) == c = None \/ time[i] < c.time \/ (time[i] = c.time /\ i <= c.id)

\* The condition on the cursor.
After(c, i) == c = None \/ time[i] < c.time \/ (time[i] = c.time /\ i < c.id)

\* Bug: the row fetched to see whether there are more is part of the page.
Uncut(found, l) == SubSeq(found, 1, IF Len(found) > l THEN l + 1 ELSE Len(found))

\* rows[:limit]
Cut(found, l) == SubSeq(found, 1, IF Len(found) > l THEN l ELSE Len(found))

\* Rows in the order of the list: the k-th has k - 1 before it.
Preceding(S, i) == {j \in S : Before(j, i)}
InListOrder(S) ==
  [k \in 1..Cardinality(S) |-> CHOOSE i \in S : Cardinality(Preceding(S, i)) = k - 1]

\* The rows that pass the filter, in order, from the cursor on.
Found(f, c) == InListOrder({i \in Rows : f \in passes[i] /\ After(c, i)})

\* The cursor of a page with more rows behind it: its last row.
NextCursor(f, l, found) ==
  LET last == Last(Cut(found, l)) IN
  IF Len(found) > l THEN [time |-> time[last], id |-> last, digest |-> Digest(f, l)] ELSE None

\* A page, added to those the reader has.
Answer(f, l, c) ==
  LET found == Found(f, c) IN
  /\ page' = Cut(found, l)
  /\ cursor' = NextCursor(f, l, found)
  /\ listed' = (IF c = None THEN <<>> ELSE listed) \o Cut(found, l)

\* decode_order_cursor: a cursor of another list, filter or page size is
\* refused.
Accepted(f, l) == cursor.digest = Digest(f, l)

\* A listing begins, with whatever filters and page size.
Begin(f, l) ==
  /\ filter' = f /\ limit' = l
  /\ steady' = {i \in Rows : f \in passes[i]}
  /\ Answer(f, l, None)
  /\ UNCHANGED rows

\* It goes on; the request may be for other rows than before.
Continue(f, l) ==
  /\ cursor # None
  /\ Accepted(f, l)
  /\ Answer(f, l, cursor)
  /\ UNCHANGED <<rows, filter, limit, steady>>

\* list_orders and list_order_events
ListOrders == kind = "orders" /\ \E f \in Filters, l \in Limits : Begin(f, l) \/ Continue(f, l)
ListOrderEvents ==
  kind = "order-audit" /\ \E f \in Filters, l \in Limits : Begin(f, l) \/ Continue(f, l)

Insert(i) ==
  /\ time[i] = 0
  /\ \E t \in Times : time' = [time EXCEPT ![i] = t]
  /\ \E fs \in SUBSET Filters : passes' = [passes EXCEPT ![i] = fs]
  /\ UNCHANGED <<kind, reader, steady>>

\* An order changes its state, and passes other filters; events never change.
Change(i) ==
  /\ kind = "orders" /\ time[i] # 0
  /\ \E fs \in SUBSET Filters :
       /\ passes' = [passes EXCEPT ![i] = fs]
       /\ steady' = IF filter \in fs THEN steady ELSE steady \ {i}
  /\ UNCHANGED <<kind, time, reader>>

Init ==
  /\ kind \in {"orders", "order-audit"}
  /\ time = [i \in Ids |-> 0] /\ passes = [i \in Ids |-> {}]
  /\ filter = None /\ limit = 0
  /\ cursor = None /\ page = <<>> /\ listed = <<>> /\ steady = {}

Next ==
  \/ ListOrders
  \/ ListOrderEvents
  \/ \E i \in Ids : Insert(i) \/ Change(i)

Spec == Init /\ [][Next]_vars

(***************************************************************************)
(* Properties                                                              *)
(***************************************************************************)

\* Types of all variables; a page is no longer than asked for.
TypeOK ==
  /\ kind \in {"orders", "order-audit"}
  /\ time \in [Ids -> Times \cup {0}] /\ passes \in [Ids -> SUBSET Filters]
  /\ filter \in Filters \cup {None} /\ limit \in Limits \cup {0}
  /\ cursor # None => cursor.time \in Times /\ cursor.id \in Ids
  /\ Range(page) \subseteq Rows /\ Len(page) <= limit
  /\ Range(listed) \subseteq Rows /\ steady \subseteq Rows

\* All pages together are in order, newest first, and list no row twice,
\* whatever is inserted or changes between two pages (list_orders,
\* list_order_events).
InOrder == \A j, k \in DOMAIN listed : j < k => Before(listed[j], listed[k])

\* Every row that passes the filter from the first page on is listed as soon
\* as the pages have come as far as the row, and in any case when they end:
\* no row falls between two pages.
Complete ==
  \A i \in steady :
    cursor = None \/ ~ After(cursor, i) => \E k \in DOMAIN listed : listed[k] = i
=============================================================================
