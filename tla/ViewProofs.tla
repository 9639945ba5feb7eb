------------------------------ MODULE ViewProofs ------------------------------
(***************************************************************************)
(* Proofs about the views of what is stored: the pages of OrderPages, for  *)
(* any number of rows, times, filters and page sizes, and Overview, for    *)
(* any accounts, answers and number of days.                               *)
(*                                                                         *)
(* The overview is made of sums.  The sums of the community modules recur  *)
(* on a set by a function on its subsets; what is needed of them here is   *)
(* proved from that recursion by induction on the size of a set.           *)
(***************************************************************************)
EXTENDS OrderPages, Overview, FiniteSetTheorems, SequenceTheorems, WellFoundedInduction, TLAPS

\* The cursor is made of the last row that was listed.
CursorOK ==
  cursor # None =>
    /\ filter \in Filters /\ limit \in Limits
    /\ cursor.digest = Digest(filter, limit)
    /\ Len(listed) > 0 /\ cursor.id = listed[Len(listed)] /\ cursor.time = time[cursor.id]

IInv ==
  /\ TypeOK /\ IsFiniteSet(Rows) /\ listed \in Seq(Ids)
  /\ CursorOK /\ InOrder /\ Complete
  /\ \A i \in steady : filter \in passes[i]

-----------------------------------------------------------------------------
(* The order of the list *)

\* Rows have a time, and their times and ids are comparable.
LEMMA RowTyping ==
  ASSUME TypeOK, NEW i \in Rows
  PROVE  i \in Ids /\ i \in Nat /\ time[i] \in Times /\ time[i] \in Nat
BY PageAssumption DEF TypeOK, Rows

LEMMA BeforeOrder ==
  ASSUME TypeOK
  PROVE  /\ \A i \in Rows : ~ Before(i, i)
         /\ \A i, j \in Rows : i # j => Before(i, j) \/ Before(j, i)
         /\ \A i, j, k \in Rows : Before(i, j) /\ Before(j, k) => Before(i, k)
BY RowTyping DEF Before

\* A row comes earlier than another one when fewer rows precede it.
LEMMA PrecedingGrows ==
  ASSUME TypeOK, NEW S \in SUBSET Rows, IsFiniteSet(S), NEW i \in S, NEW j \in S, Before(i, j)
  PROVE  Cardinality(Preceding(S, i)) < Cardinality(Preceding(S, j))
<1> DEFINE P == Preceding(S, i)  Q == Preceding(S, j)
<1>1. P \in SUBSET Q /\ i \in Q /\ i \notin P
  BY BeforeOrder DEF Preceding
<1>2. IsFiniteSet(Q) /\ IsFiniteSet(P)
  BY <1>1, FS_Subset DEF Preceding
<1>3. Cardinality(P) <= Cardinality(Q) /\ Cardinality(P) # Cardinality(Q)
  BY <1>1, <1>2, FS_Subset
<1>4. Cardinality(P) \in Nat /\ Cardinality(Q) \in Nat
  BY <1>2, FS_CardinalityType
<1> QED
  BY <1>3, <1>4

\* Every number of preceding rows is that of one row, so that the rows in order are
\* these rows, each of them once.
LEMMA InListOrderEffect ==
  ASSUME TypeOK, NEW S \in SUBSET Rows, IsFiniteSet(S)
  PROVE  LET s == InListOrder(S) IN
         /\ s \in Seq(S)
         /\ \A j, k \in 1..Len(s) : j < k => Before(s[j], s[k])
         /\ \A i \in S : \E k \in 1..Len(s) : s[k] = i
<1> DEFINE n == Cardinality(S)
           num(i) == Cardinality(Preceding(S, i))
           r == [i \in S |-> num(i) + 1]
           s == InListOrder(S)
<1>1. n \in Nat
  BY FS_CardinalityType
<1>2. ASSUME NEW i \in S PROVE num(i) \in Nat /\ num(i) + 1 \in 1..n
  <2>1. Preceding(S, i) \in SUBSET (S \ {i})
    BY BeforeOrder DEF Preceding
  <2>2. IsFiniteSet(S \ {i}) /\ Cardinality(S \ {i}) = n - 1
    BY FS_RemoveElement
  <2>3. IsFiniteSet(Preceding(S, i)) /\ num(i) <= n - 1
    BY <2>1, <2>2, FS_Subset
  <2>4. num(i) \in Nat
    BY <2>3, FS_CardinalityType
  <2> HIDE DEF num, n
  <2> QED
    BY <1>1, <2>3, <2>4
<1>3. ASSUME NEW i \in S, NEW j \in S, num(i) = num(j) PROVE i = j
  <2>1. ~ Before(i, j) /\ ~ Before(j, i)
    BY <1>2, <1>3, PrecedingGrows
  <2> QED
    BY <2>1, BeforeOrder
<1>4. r \in [S -> 1..n]
  BY <1>2
<1>5. r \in Injection(S, 1..n)
  <2>1. ASSUME NEW i \in S, NEW j \in S, r[i] = r[j] PROVE i = j
    <3>1. num(i) = num(j)
      BY <1>2, <2>1
    <3> QED
      BY <1>3, <3>1
  <2> QED
    BY <1>4, <2>1 DEF Injection, IsInjective
<1>6. r \in Surjection(S, 1..n)
  <2>1. IsFiniteSet(1..n) /\ Cardinality(1..n) = n
    BY <1>1, FS_Interval
  <2> QED
    BY <1>5, <2>1, FS_Injection
<1>7. ASSUME NEW k \in 1..n PROVE s[k] \in S /\ num(s[k]) = k - 1
  <2>1. PICK i \in S : r[i] = k
    BY <1>6 DEF Surjection
  <2>2. num(i) = k - 1
    BY <1>1, <1>2, <2>1
  <2>3. s[k] = CHOOSE j \in S : num(j) = k - 1
    BY DEF InListOrder
  <2> QED
    BY <2>2, <2>3
<1>8. s \in Seq(S) /\ Len(s) = n
  <2>1. s \in [1..n -> S]
    BY <1>7 DEF InListOrder
  <2> QED
    BY <1>1, <2>1
<1>9. ASSUME NEW j \in 1..n, NEW k \in 1..n, j < k PROVE Before(s[j], s[k])
  <2>1. s[j] \in S /\ s[k] \in S /\ num(s[j]) = j - 1 /\ num(s[k]) = k - 1
    BY <1>7
  <2>2. s[j] # s[k]
    BY <1>1, <1>9, <2>1
  <2>3. ~ Before(s[k], s[j])
    <3> SUFFICES ASSUME Before(s[k], s[j]) PROVE FALSE
      OBVIOUS
    <3>1. num(s[k]) < num(s[j])
      BY <2>1, PrecedingGrows
    <3> QED
      BY <1>1, <1>9, <2>1, <3>1
  <2> QED
    BY <2>1, <2>2, <2>3, BeforeOrder
<1>10. ASSUME NEW i \in S PROVE \E k \in 1..n : s[k] = i
  <2>1. num(i) + 1 \in 1..n
    BY <1>2
  <2>2. s[num(i) + 1] \in S /\ num(s[num(i) + 1]) = num(i)
    BY <1>1, <1>2, <1>7, <2>1
  <2>3. s[num(i) + 1] = i
    BY <1>3, <2>2
  <2> QED
    BY <2>1, <2>3
<1> QED
  BY <1>8, <1>9, <1>10

-----------------------------------------------------------------------------
(* A page *)

LEMMA CutEffect ==
  ASSUME NEW S, NEW found \in Seq(S), NEW l \in Nat
  PROVE  LET c == Cut(found, l) IN
         /\ c \in Seq(S)
         /\ Len(c) = IF Len(found) > l THEN l ELSE Len(found)
         /\ \A k \in 1..Len(c) : c[k] = found[k]
<1> DEFINE n == IF Len(found) > l THEN l ELSE Len(found)
<1>1. n \in Nat /\ n <= Len(found) /\ Len(found) \in Nat
  OBVIOUS
<1>2. Cut(found, l) = SubSeq(found, 1, n)
  BY DEF Cut
<1> HIDE DEF n
<1>3. \A i \in 1..n : found[i] \in S
  BY <1>1, LenProperties
<1>4. /\ SubSeq(found, 1, n) \in Seq(S) /\ Len(SubSeq(found, 1, n)) = n
      /\ \A i \in 1..n : SubSeq(found, 1, n)[i] = found[i]
  BY <1>1, <1>3, SubSeqProperties
<1> QED
  BY <1>2, <1>4 DEF n

\* What a page answers: rows from the cursor on, in order; all of them that pass, up
\* to the cursor it ends with, which is the key of its last row.
LEMMA AnswerEffect ==
  ASSUME TypeOK, IsFiniteSet(Rows), NEW f \in Filters, NEW l \in Limits, NEW c,
         Answer(f, l, c)
  PROVE  /\ page' \in Seq(Rows) /\ Len(page') <= l
         /\ \A k \in 1..Len(page') : After(c, page'[k])
         /\ \A j, k \in 1..Len(page') : j < k => Before(page'[j], page'[k])
         /\ cursor' # None =>
              /\ Len(page') = l
              /\ cursor' = [time |-> time[page'[l]], id |-> page'[l], digest |-> Digest(f, l)]
         /\ \A i \in Rows : f \in passes[i] /\ After(c, i) =>
              \/ \E k \in 1..Len(page') : page'[k] = i
              \/ cursor' # None /\ Before(page'[l], i)
         /\ listed' = (IF c = None THEN <<>> ELSE listed) \o page'
<1> DEFINE S == {i \in Rows : f \in passes[i] /\ After(c, i)}
           found == InListOrder(S)
<1>1. /\ page' = Cut(found, l)
      /\ listed' = (IF c = None THEN <<>> ELSE listed) \o page'
      /\ cursor' = NextCursor(f, l, found)
  BY DEF Answer, Found
<1>2. S \in SUBSET Rows /\ IsFiniteSet(S)
  BY FS_Subset
<1>3. /\ found \in Seq(S)
      /\ \A j, k \in 1..Len(found) : j < k => Before(found[j], found[k])
      /\ \A i \in S : \E k \in 1..Len(found) : found[k] = i
  BY <1>2, InListOrderEffect
<1>4. l \in Nat /\ l >= 1 /\ Len(found) \in Nat
  <2>1. l \in 1..100
    BY PageAssumption
  <2>2. Len(found) \in Nat
    BY <1>3, LenProperties
  <2> QED
    BY <2>1, <2>2
<1>5. \A i \in S : i \in Rows /\ After(c, i)
  OBVIOUS
<1>6. \A i \in Rows : f \in passes[i] /\ After(c, i) => i \in S
  OBVIOUS
<1> HIDE DEF S, found
<1>7. /\ page' \in Seq(S)
      /\ Len(page') = IF Len(found) > l THEN l ELSE Len(found)
      /\ \A k \in 1..Len(page') : page'[k] = found[k]
  BY <1>1, <1>3, <1>4, CutEffect
<1>8. page' \in Seq(Rows) /\ Len(page') <= l
  BY <1>2, <1>4, <1>7
<1>9. \A k \in 1..Len(page') : After(c, page'[k])
  BY <1>5, <1>7, LenProperties
<1>10. ASSUME NEW j \in 1..Len(page'), NEW k \in 1..Len(page'), j < k
       PROVE  Before(page'[j], page'[k])
  <2>1. j \in 1..Len(found) /\ k \in 1..Len(found)
    BY <1>4, <1>7
  <2>2. page'[j] = found[j] /\ page'[k] = found[k] /\ Before(found[j], found[k])
    BY <1>3, <1>7, <1>10, <2>1
  <2> QED
    BY <2>2
<1>11. ASSUME Len(found) > l
       PROVE  /\ Len(page') = l
              /\ cursor' = [time |-> time[page'[l]], id |-> page'[l], digest |-> Digest(f, l)]
  <2>1. Len(page') = l /\ Last(page') = page'[l]
    BY <1>7, <1>11 DEF Last
  <2> QED
    BY <1>1, <1>11, <2>1 DEF NextCursor
<1>12. cursor' # None => Len(found) > l
  BY <1>1 DEF NextCursor
<1>13. Len(found) > l => cursor' # None
  <2> SUFFICES ASSUME Len(found) > l PROVE cursor' # None
    OBVIOUS
  <2>1. page'[l] \in Rows
    BY <1>4, <1>8, <1>11, LenProperties
  <2>2. page'[l] \in Ids /\ time[page'[l]] \in Times /\ kind \in {"orders", "order-audit"}
    BY <2>1, RowTyping DEF TypeOK
  <2> QED
    BY <1>11, <2>2, PageAssumption DEF Digest
<1>14. ASSUME NEW i \in Rows, f \in passes[i], After(c, i)
       PROVE  \/ \E k \in 1..Len(page') : page'[k] = i
              \/ cursor' # None /\ Before(page'[l], i)
  <2>1. PICK k \in 1..Len(found) : found[k] = i
    BY <1>3, <1>6, <1>14
  <2>2. CASE k <= Len(page')
    BY <1>7, <2>1, <2>2
  <2>3. CASE ~ (k <= Len(page'))
    <3>1. Len(found) > l /\ l < k
      BY <1>4, <1>7, <2>1, <2>3
    <3>2. page'[l] = found[l]
      BY <1>4, <1>7, <3>1
    <3>3. l \in 1..Len(found) /\ k \in 1..Len(found)
      BY <1>4, <3>1
    <3>4. Before(found[l], found[k])
      BY <1>3, <3>1, <3>3
    <3> QED
      BY <1>13, <2>1, <3>1, <3>2, <3>4
  <2> QED
    BY <2>2, <2>3
<1> QED
  BY <1>1, <1>8, <1>9, <1>10, <1>11, <1>12, <1>14

\* After a cursor means: later in the list than the row it was made of.
LEMMA AfterCursor ==
  ASSUME NEW c, c # None, c.time = time[c.id], NEW i
  PROVE  After(c, i) <=> Before(c.id, i)
BY DEF After, Before

-----------------------------------------------------------------------------
(* Every step preserves the invariant *)

LEMMA Initially == Init => IInv
<1> SUFFICES ASSUME Init PROVE IInv
  OBVIOUS
<1>1. Rows = {}
  BY DEF Init, Rows
<1>2. IsFiniteSet(Rows)
  BY <1>1, FS_EmptySet
<1>3. Range(<<>>) = {} /\ Len(<<>>) = 0 /\ DOMAIN <<>> = {} /\ <<>> \in Seq(Ids)
  BY DEF Range
<1>4. TypeOK
  BY <1>3 DEF Init, TypeOK
<1>5. CursorOK /\ InOrder /\ Complete
  BY <1>3 DEF Init, CursorOK, InOrder, Complete
<1> QED
  BY <1>2, <1>3, <1>4, <1>5 DEF Init, IInv

\* A page is added to the rows that were listed before it, which all precede it,
\* and among which are all the steady rows the page does not look for.
LEMMA AnswerInductive ==
  ASSUME IInv, NEW f \in Filters, NEW l \in Limits, NEW c, NEW base \in Seq(Rows),
         Answer(f, l, c), filter' = f, limit' = l, UNCHANGED rows,
         base = IF c = None THEN <<>> ELSE listed,
         \A i \in Rows : After(c, i) => \A k \in 1..Len(base) : Before(base[k], i),
         \A j, k \in 1..Len(base) : j < k => Before(base[j], base[k]),
         steady' \in SUBSET Rows, \A i \in steady' : f \in passes[i],
         \A i \in steady' : After(c, i) \/ \E k \in 1..Len(base) : base[k] = i
  PROVE  IInv'
<1>1. TypeOK /\ IsFiniteSet(Rows) /\ time' = time /\ passes' = passes /\ kind' = kind /\ Rows' = Rows
  BY DEF IInv, rows, Rows
<1> DEFINE p == page'
<1>2. /\ p \in Seq(Rows) /\ Len(p) <= l
      /\ \A k \in 1..Len(p) : After(c, p[k])
      /\ \A j, k \in 1..Len(p) : j < k => Before(p[j], p[k])
      /\ cursor' # None =>
           /\ Len(p) = l
           /\ cursor' = [time |-> time[p[l]], id |-> p[l], digest |-> Digest(f, l)]
      /\ \A i \in Rows : f \in passes[i] /\ After(c, i) =>
           \/ \E k \in 1..Len(p) : p[k] = i
           \/ cursor' # None /\ Before(p[l], i)
      /\ listed' = base \o p
  BY <1>1, AnswerEffect
<1>3. p = page'
  OBVIOUS
<1> HIDE DEF p
<1>4. l \in Nat /\ l >= 1 /\ Len(p) \in Nat /\ Len(base) \in Nat
  <2>1. l \in 1..100
    BY PageAssumption
  <2>2. l \in Nat /\ l >= 1
    BY <2>1
  <2>3. Len(p) \in Nat /\ Len(base) \in Nat
    BY <1>2, LenProperties
  <2> QED
    BY <2>2, <2>3
<1> DEFINE s == base \o p
<1>5. /\ s \in Seq(Rows) /\ Len(s) = Len(base) + Len(p)
      /\ \A k \in 1..Len(s) : s[k] = IF k <= Len(base) THEN base[k] ELSE p[k - Len(base)]
  BY <1>2, ConcatProperties
<1>6. listed' = s
  BY <1>2
<1> HIDE DEF s
<1>7. DOMAIN s = 1..Len(s) /\ DOMAIN p = 1..Len(p) /\ Len(s) \in Nat
  BY <1>2, <1>5, LenProperties
<1>8. Rows \subseteq Ids
  BY DEF Rows
<1>9. ASSUME NEW k \in 1..Len(s)
      PROVE  s[k] \in Rows /\ (\/ k \in 1..Len(base) /\ s[k] = base[k]
                               \/ k - Len(base) \in 1..Len(p) /\ s[k] = p[k - Len(base)])
  <2>1. s[k] \in Rows
    BY <1>5, LenProperties
  <2>2. s[k] = IF k <= Len(base) THEN base[k] ELSE p[k - Len(base)]
    BY <1>5
  <2>3. k \in 1..Len(base) + Len(p)
    BY <1>5
  <2>4. IF k <= Len(base) THEN k \in 1..Len(base) ELSE k - Len(base) \in 1..Len(p)
    BY <1>4, <2>3
  <2> QED
    BY <2>1, <2>2, <2>4
<1>10. /\ \A k \in 1..Len(base) : k \in 1..Len(s) /\ s[k] = base[k]
       /\ \A k \in 1..Len(p) : k + Len(base) \in 1..Len(s) /\ s[k + Len(base)] = p[k]
  <2>1. ASSUME NEW k \in 1..Len(base) PROVE k \in 1..Len(s) /\ s[k] = base[k]
    <3>1. k \in 1..Len(base) + Len(p) /\ k <= Len(base)
      BY <1>4
    <3> QED
      BY <1>5, <3>1
  <2>2. ASSUME NEW k \in 1..Len(p)
        PROVE  k + Len(base) \in 1..Len(s) /\ s[k + Len(base)] = p[k]
    <3>1. /\ k + Len(base) \in 1..Len(base) + Len(p)
          /\ ~ (k + Len(base) <= Len(base)) /\ k + Len(base) - Len(base) = k
      BY <1>4
    <3>2. k + Len(base) \in 1..Len(s)
      BY <1>5, <3>1
    <3> QED
      BY <1>5, <3>1, <3>2
  <2> QED
    BY <2>1, <2>2
<1>11. cursor' # None =>
         /\ l \in 1..Len(p) /\ p[l] \in Rows /\ p[l] \in Ids /\ time[p[l]] \in Times
         /\ cursor'.id = p[l] /\ cursor'.time = time[p[l]] /\ cursor'.digest = Digest(f, l)
         /\ Len(s) = l + Len(base) /\ s[Len(s)] = p[l] /\ Len(s) > 0
  <2> SUFFICES ASSUME cursor' # None PROVE
         /\ l \in 1..Len(p) /\ p[l] \in Rows /\ p[l] \in Ids /\ time[p[l]] \in Times
         /\ cursor'.id = p[l] /\ cursor'.time = time[p[l]] /\ cursor'.digest = Digest(f, l)
         /\ Len(s) = l + Len(base) /\ s[Len(s)] = p[l] /\ Len(s) > 0
    OBVIOUS
  <2>1. Len(p) = l /\ l \in 1..Len(p)
    BY <1>2, <1>4
  <2>2. p[l] \in Rows
    BY <1>2, <2>1, LenProperties
  <2>3. p[l] \in Ids /\ time[p[l]] \in Times
    BY <1>1, <2>2, RowTyping
  <2>4. cursor'.id = p[l] /\ cursor'.time = time[p[l]] /\ cursor'.digest = Digest(f, l)
    BY <1>2
  <2>5. Len(s) = l + Len(base) /\ s[l + Len(base)] = p[l]
    BY <1>4, <1>5, <1>10, <2>1
  <2>6. Len(s) > 0
    BY <1>4, <2>5
  <2> QED
    BY <2>1, <2>2, <2>3, <2>4, <2>5, <2>6
<1>12. TypeOK'
  <2>1. Range(p) \subseteq Rows /\ Range(s) \subseteq Rows
    BY <1>2, <1>5, <1>7, LenProperties DEF Range
  <2>2. /\ kind' \in {"orders", "order-audit"}
        /\ time' \in [Ids -> Times \cup {0}] /\ passes' \in [Ids -> SUBSET Filters]
        /\ filter' \in Filters \cup {None} /\ limit' \in Limits \cup {0}
    BY <1>1 DEF TypeOK
  <2>3. cursor' # None => cursor'.time \in Times /\ cursor'.id \in Ids
    BY <1>11
  <2>4. Range(page') \subseteq Rows' /\ Len(page') <= limit' /\ Range(listed') \subseteq Rows'
    BY <1>1, <1>2, <1>3, <1>6, <2>1
  <2> QED
    BY <1>1, <2>2, <2>3, <2>4 DEF TypeOK
<1>13. IsFiniteSet(Rows)' /\ (listed \in Seq(Ids))'
  BY <1>1, <1>5, <1>6, <1>8
<1>14. CursorOK'
  <2>1. Digest(f, l)' = Digest(f, l)
    BY <1>1 DEF Digest
  <2> QED
    BY <1>1, <1>6, <1>11, <2>1 DEF CursorOK, Digest
<1>15. ASSUME NEW j \in 1..Len(s), NEW k \in 1..Len(s), j < k PROVE Before(s[j], s[k])
  <2>1. CASE k <= Len(base)
    <3>1. j \in 1..Len(base) /\ k \in 1..Len(base)
      BY <1>4, <1>7, <1>15, <2>1
    <3> QED
      BY <1>10, <1>15, <3>1
  <2>2. CASE ~ (k <= Len(base)) /\ j <= Len(base)
    <3>1. j \in 1..Len(base) /\ s[j] = base[j] /\ s[k] \in Rows
      BY <1>4, <1>7, <1>9, <1>10, <2>2
    <3>2. k - Len(base) \in 1..Len(p) /\ s[k] = p[k - Len(base)]
      BY <1>4, <1>7, <1>9, <2>2
    <3>3. After(c, s[k])
      BY <1>2, <3>2
    <3> QED
      BY <3>1, <3>3
  <2>3. CASE ~ (k <= Len(base)) /\ ~ (j <= Len(base))
    <3>1. k - Len(base) \in 1..Len(p) /\ s[k] = p[k - Len(base)]
      BY <1>4, <1>7, <1>9, <2>3
    <3>2. j - Len(base) \in 1..Len(p) /\ s[j] = p[j - Len(base)]
      BY <1>4, <1>7, <1>9, <2>3
    <3>3. j - Len(base) < k - Len(base)
      BY <1>4, <1>15
    <3>4. \A x, y \in 1..Len(p) : x < y => Before(p[x], p[y])
      BY <1>2
    <3>5. Before(p[j - Len(base)], p[k - Len(base)])
      BY <3>1, <3>2, <3>3, <3>4, Zenon
    <3> QED
      BY <3>1, <3>2, <3>5
  <2> QED
    BY <2>1, <2>2, <2>3
<1>16. InOrder'
  BY <1>1, <1>6, <1>7, <1>15 DEF InOrder, Before
<1>17. ASSUME NEW i \in steady', cursor' = None \/ ~ After(cursor, i)'
       PROVE  \E k \in 1..Len(s) : s[k] = i
  <2>1. CASE \E k \in 1..Len(base) : base[k] = i
    BY <1>10, <2>1
  <2>2. CASE After(c, i) /\ \E k \in 1..Len(p) : p[k] = i
    BY <1>10, <2>2
  <2>3. ~ (cursor' # None /\ Before(p[l], i))
    BY <1>1, <1>11, <1>17 DEF After, Before
  <2> QED
    BY <1>2, <2>1, <2>2, <2>3
<1>18. Complete'
  BY <1>6, <1>7, <1>17 DEF Complete
<1>19. (\A i \in steady : filter \in passes[i])'
  BY <1>1
<1> QED
  BY <1>12, <1>13, <1>14, <1>16, <1>18, <1>19 DEF IInv

\* A listing begins with its first page.
LEMMA BeginInductive ==
  ASSUME IInv, NEW f \in Filters, NEW l \in Limits, Begin(f, l)
  PROVE  IInv'
<1>1. Answer(f, l, None) /\ filter' = f /\ limit' = l /\ UNCHANGED rows
  BY DEF Begin
<1>2. steady' = {i \in Rows : f \in passes[i]}
  BY DEF Begin
<1>3. steady' \in SUBSET Rows /\ \A i \in steady' : f \in passes[i]
  BY <1>2
<1>4. \A i \in steady' : After(None, i) \/ \E k \in 1..Len(<<>>) : <<>>[k] = i
  BY DEF After
<1>5. <<>> \in Seq(Rows) /\ 1..Len(<<>>) = {}
  OBVIOUS
<1>6. <<>> = IF None = None THEN <<>> ELSE listed
  OBVIOUS
<1>7. \A i \in Rows : After(None, i) => \A k \in 1..Len(<<>>) : Before(<<>>[k], i)
  BY <1>5
<1>8. \A j, k \in 1..Len(<<>>) : j < k => Before(<<>>[j], <<>>[k])
  BY <1>5
<1> QED
  BY <1>1, <1>3, <1>4, <1>5, <1>6, <1>7, <1>8, AnswerInductive

\* It goes on with the page after the cursor, whose filters and limit are those it
\* was made with.
LEMMA ContinueInductive ==
  ASSUME IInv, NEW f \in Filters, NEW l \in Limits, Continue(f, l)
  PROVE  IInv'
<1>1. /\ Answer(f, l, cursor) /\ UNCHANGED <<rows, filter, limit, steady>>
      /\ cursor # None /\ cursor.digest = Digest(f, l)
  BY DEF Continue, Accepted
<1>2. /\ TypeOK /\ InOrder /\ Complete /\ listed \in Seq(Ids)
      /\ \A i \in steady : filter \in passes[i]
  BY DEF IInv
<1>3. /\ cursor.digest = Digest(filter, limit)
      /\ Len(listed) > 0 /\ cursor.id = listed[Len(listed)] /\ cursor.time = time[cursor.id]
  BY <1>1 DEF IInv, CursorOK
<1>4. filter' = f /\ limit' = l /\ f = filter
  BY <1>1, <1>3 DEF Digest
<1>5. DOMAIN listed = 1..Len(listed) /\ Len(listed) \in Nat
  BY <1>2, LenProperties
<1>6. \A k \in 1..Len(listed) : listed[k] \in Rows
  BY <1>2, <1>5 DEF TypeOK, Range
<1>7. listed \in Seq(Rows)
  <2>1. listed \in [1..Len(listed) -> Rows]
    BY <1>2, <1>5, <1>6
  <2> QED
    BY <1>5, <2>1
<1>8. \A j, k \in 1..Len(listed) : j < k => Before(listed[j], listed[k])
  BY <1>2, <1>5 DEF InOrder
<1>9. Len(listed) \in 1..Len(listed) /\ cursor.id \in Rows
  BY <1>3, <1>5, <1>6
<1>10. ASSUME NEW i \in Rows, After(cursor, i), NEW k \in 1..Len(listed)
       PROVE  Before(listed[k], i)
  <2>1. Before(cursor.id, i)
    BY <1>1, <1>3, <1>10, AfterCursor
  <2>2. CASE k = Len(listed)
    BY <1>3, <2>1, <2>2
  <2>3. CASE k # Len(listed)
    <3>0. Len(listed) \in Nat
      BY <1>5
    <3>1. k < Len(listed)
      BY <2>3, <3>0
    <3>2. Before(listed[k], cursor.id)
      BY <1>3, <1>8, <1>9, <3>1
    <3> QED
      BY <1>2, <1>6, <1>9, <2>1, <3>2, BeforeOrder
  <2> QED
    BY <2>2, <2>3
<1>11. steady' = steady /\ steady' \in SUBSET Rows /\ \A i \in steady' : f \in passes[i]
  BY <1>1, <1>2, <1>4 DEF TypeOK
<1>12. \A i \in steady' : After(cursor, i) \/ \E k \in 1..Len(listed) : listed[k] = i
  BY <1>2, <1>5, <1>11 DEF Complete
<1>13. listed = IF cursor = None THEN <<>> ELSE listed
  BY <1>1
<1>14. UNCHANGED rows
  BY <1>1
<1> QED
  BY <1>1, <1>4, <1>7, <1>8, <1>10, <1>11, <1>12, <1>13, <1>14, AnswerInductive

\* A new row is none of those that were listed or seen from the first page on.
LEMMA InsertInductive ==
  ASSUME IInv, NEW i \in Ids, Insert(i)
  PROVE  IInv'
<1>1. TypeOK /\ IsFiniteSet(Rows) /\ listed \in Seq(Ids)
  BY DEF IInv
<1>2. PICK t \in Times : time' = [time EXCEPT ![i] = t]
  BY DEF Insert
<1>3. PICK fs \in SUBSET Filters : passes' = [passes EXCEPT ![i] = fs]
  BY DEF Insert
<1>4. time[i] = 0 /\ UNCHANGED <<kind, reader, steady>>
  BY DEF Insert
<1>5. t \in Nat \ {0}
  BY PageAssumption
<1>6. time' \in [Ids -> Times \cup {0}] /\ passes' \in [Ids -> SUBSET Filters]
  BY <1>1, <1>2, <1>3 DEF TypeOK
<1>7. /\ Rows' = Rows \cup {i} /\ i \notin Rows
      /\ \A j \in Rows : time'[j] = time[j] /\ passes'[j] = passes[j]
  BY <1>1, <1>2, <1>3, <1>4, <1>5 DEF TypeOK, Rows
<1>8. IsFiniteSet(Rows)'
  BY <1>1, <1>7, FS_AddElement
<1>9. UNCHANGED <<kind, filter, limit, cursor, page, listed, steady>>
  BY <1>4 DEF reader
<1>10. TypeOK'
  BY <1>1, <1>6, <1>7, <1>9 DEF TypeOK
<1>11. DOMAIN listed = 1..Len(listed) /\ Len(listed) \in Nat
  BY <1>1, LenProperties
<1>12. \A k \in DOMAIN listed : listed[k] \in Rows /\ time'[listed[k]] = time[listed[k]]
  BY <1>1, <1>7 DEF TypeOK, Range
<1>13. CursorOK'
  <2>1. cursor # None => Len(listed) \in DOMAIN listed
    BY <1>11 DEF IInv, CursorOK
  <2> QED
    BY <1>9, <1>12, <2>1 DEF IInv, CursorOK, Digest
<1>14. InOrder'
  BY <1>9, <1>12 DEF IInv, InOrder, Before
<1>15. \A j \in steady : j \in Rows /\ time'[j] = time[j] /\ passes'[j] = passes[j]
  BY <1>1, <1>7 DEF TypeOK
<1>16. Complete' /\ (\A j \in steady : filter \in passes[j])'
  BY <1>9, <1>15 DEF IInv, Complete, After
<1> QED
  BY <1>1, <1>8, <1>9, <1>10, <1>13, <1>14, <1>16 DEF IInv

\* A row that no longer passes the filter is not missed.
LEMMA ChangeInductive ==
  ASSUME IInv, NEW i \in Ids, Change(i)
  PROVE  IInv'
<1>1. PICK fs \in SUBSET Filters :
        /\ passes' = [passes EXCEPT ![i] = fs]
        /\ steady' = IF filter \in fs THEN steady ELSE steady \ {i}
  BY DEF Change
<1>2. UNCHANGED <<kind, time, filter, limit, cursor, page, listed>>
  BY DEF Change, reader
<1>3. TypeOK /\ passes' \in [Ids -> SUBSET Filters] /\ Rows' = Rows /\ steady' \subseteq steady
  BY <1>1, <1>2 DEF IInv, TypeOK, Rows
<1>4. TypeOK'
  BY <1>2, <1>3 DEF TypeOK
<1>5. CursorOK'
  BY <1>2 DEF IInv, CursorOK, Digest
<1>6. InOrder' /\ Complete'
  BY <1>2, <1>3 DEF IInv, InOrder, Complete, Before, After
<1>7. ASSUME NEW j \in steady' PROVE filter' \in passes'[j]
  <2>1. j \in steady /\ j \in Ids /\ filter \in passes[j]
    BY <1>3 DEF IInv, TypeOK, Rows
  <2>2. CASE j = i
    BY <1>1, <1>2, <1>3, <2>1, <2>2 DEF TypeOK
  <2>3. CASE j # i
    BY <1>1, <1>2, <1>3, <2>1, <2>3 DEF TypeOK
  <2> QED
    BY <2>2, <2>3
<1>8. IsFiniteSet(Rows)' /\ (listed \in Seq(Ids))'
  BY <1>2, <1>3 DEF IInv
<1> QED
  BY <1>4, <1>5, <1>6, <1>7, <1>8 DEF IInv

LEMMA Inductive == IInv /\ [Next]_vars => IInv'
<1> SUFFICES ASSUME IInv, [Next]_vars PROVE IInv'
  OBVIOUS
<1>1. CASE ListOrders
  BY <1>1, BeginInductive, ContinueInductive DEF ListOrders
<1>2. CASE ListOrderEvents
  BY <1>2, BeginInductive, ContinueInductive DEF ListOrderEvents
<1>3. ASSUME NEW i \in Ids, Insert(i) PROVE IInv'
  BY <1>3, InsertInductive
<1>4. ASSUME NEW i \in Ids, Change(i) PROVE IInv'
  BY <1>4, ChangeInductive
<1>5. CASE UNCHANGED vars
  BY <1>5 DEF vars, rows, reader, IInv, TypeOK, Rows, CursorOK, Digest, InOrder, Complete, Before,
              After
<1> QED
  BY <1>1, <1>2, <1>3, <1>4, <1>5 DEF Next

-----------------------------------------------------------------------------
(* Theorems *)

\* The inductive invariant holds in every state.
THEOREM Invariance == Spec => []IInv
BY Initially, Inductive, PTL DEF Spec

\* Every variable has its type in every state, and no page is longer than the reader
\* asked for.
THEOREM TypeCorrect == Spec => []TypeOK
<1>1. IInv => TypeOK
  BY DEF IInv
<1> QED
  BY Invariance, <1>1, PTL

\* The pages of one listing, put together, are in the order of the list and name no
\* row twice, however many rows are inserted before, among and behind them while the
\* reader goes from page to page (list_orders, list_order_events).
THEOREM PagesInOrder == Spec => []InOrder
<1>1. IInv => InOrder
  BY DEF IInv
<1> QED
  BY Invariance, <1>1, PTL

\* No row that passes the filter all the time is left out between two pages, for any
\* page size and any number of rows of one time.
THEOREM PagesComplete == Spec => []Complete
<1>1. IInv => Complete
  BY DEF IInv
<1> QED
  BY Invariance, <1>1, PTL

-----------------------------------------------------------------------------
(* Sums over finite sets                                                  *)

\* Number induction, for sets of numbers.
LEMMA AllNumbers ==
  ASSUME NEW N \in SUBSET Nat, 0 \in N, \A n \in N : n + 1 \in N
  PROVE  N = Nat
<1> SUFFICES ASSUME N # Nat PROVE FALSE
  OBVIOUS
<1> DEFINE M == Nat \ N
<1>1. M # {} /\ M \subseteq Nat
  OBVIOUS
<1>2. PICK m \in M : \A k \in M : ~ (<<k, m>> \in OpToRel(<, Nat))
  BY <1>1, WFMin, NatLessThanWellFounded
<1>3. m \in Nat /\ m # 0 /\ m \notin N
  OBVIOUS
<1>4. m - 1 \in Nat /\ m - 1 < m
  BY <1>3
<1>5. <<m - 1, m>> \in OpToRel(<, Nat)
  BY <1>3, <1>4 DEF OpToRel
<1>6. m - 1 \in N
  BY <1>2, <1>4, <1>5
<1>7. m - 1 + 1 \in N
  BY <1>6
<1> QED
  BY <1>3, <1>7

\* The recursion by which the community modules define a sum over S, on a set D of
\* subsets of S.
Adds(s, f, D) ==
  s = [T \in D |-> IF T = {} THEN 0
                   ELSE LET x == CHOOSE x \in T : TRUE IN f[x] + s[T \ {x}]]

AddsUp(s, f, S) == Adds(s, f, SUBSET S)

\* In a set of finite sets, what holds of the empty one and of every one whose
\* subsets without one element it holds of, holds of all.
LEMMA AllSubsets ==
  ASSUME NEW S, IsFiniteSet(S), NEW G,
         \A T \in SUBSET S : (\A x \in T : T \ {x} \in G) => T \in G
  PROVE  \A T \in SUBSET S : T \in G
<1> DEFINE N == {n \in Nat : \A T \in SUBSET S : Cardinality(T) = n => T \in G}
<1>1. \A T \in SUBSET S : IsFiniteSet(T) /\ Cardinality(T) \in Nat
  BY FS_Subset, FS_CardinalityType
<1>2. 0 \in N
  <2> SUFFICES ASSUME NEW T \in SUBSET S, Cardinality(T) = 0 PROVE T \in G
    OBVIOUS
  <2>1. T = {}
    BY <1>1, FS_EmptySet
  <2> QED
    BY <2>1
<1>3. ASSUME NEW n \in N PROVE n + 1 \in N
  <2> SUFFICES ASSUME NEW T \in SUBSET S, Cardinality(T) = n + 1 PROVE T \in G
    OBVIOUS
  <2>1. ASSUME NEW x \in T PROVE T \ {x} \in G
    <3>1. Cardinality(T \ {x}) = n + 1 - 1
      BY <1>1, FS_RemoveElement
    <3>2. Cardinality(T \ {x}) = n
      BY <3>1
    <3> QED
      BY <1>3, <3>2
  <2> QED
    BY <2>1
<1>4. N = Nat
  <2> HIDE DEF N
  <2>1. N \in SUBSET Nat
    BY DEF N
  <2> QED
    BY <1>2, <1>3, <2>1, AllNumbers
<1> QED
  BY <1>1, <1>4

\* The recursion has a solution.
LEMMA AddsExists ==
  ASSUME NEW f, NEW S, IsFiniteSet(S)
  PROVE  \E s : AddsUp(s, f, S)
<1> DEFINE D(n) == {T \in SUBSET S : Cardinality(T) <= n}
           N == {n \in Nat : \E s : Adds(s, f, D(n))}
<1>1. \A T \in SUBSET S : IsFiniteSet(T) /\ Cardinality(T) \in Nat
  BY FS_Subset, FS_CardinalityType
<1>2. \A T \in SUBSET S : T # {} =>
        /\ (CHOOSE x \in T : TRUE) \in T
        /\ T \ {CHOOSE x \in T : TRUE} \in SUBSET S
        /\ Cardinality(T \ {CHOOSE x \in T : TRUE}) = Cardinality(T) - 1
  <2> SUFFICES ASSUME NEW T \in SUBSET S, T # {}
               PROVE  /\ (CHOOSE x \in T : TRUE) \in T
                      /\ T \ {CHOOSE x \in T : TRUE} \in SUBSET S
                      /\ Cardinality(T \ {CHOOSE x \in T : TRUE}) = Cardinality(T) - 1
    OBVIOUS
  <2>1. PICK c : c = CHOOSE x \in T : TRUE
    OBVIOUS
  <2>2. c \in T
    BY <2>1
  <2>3. Cardinality(T \ {c}) = Cardinality(T) - 1
    BY <1>1, <2>2, FS_RemoveElement
  <2> QED
    BY <2>1, <2>2, <2>3
<1>3. 0 \in N
  <2> DEFINE s == [T \in D(0) |-> 0]
  <2>1. \A T \in D(0) : T = {}
    BY <1>1, FS_EmptySet
  <2>2. Adds(s, f, D(0))
    BY <2>1 DEF Adds
  <2> QED
    BY <2>2
<1>4. ASSUME NEW n \in N PROVE n + 1 \in N
  <2>1. PICK s : Adds(s, f, D(n))
    OBVIOUS
  <2> DEFINE e(g, T) == IF T = {} THEN 0
                        ELSE LET x == CHOOSE x \in T : TRUE IN f[x] + g[T \ {x}]
             t == [T \in D(n + 1) |-> e(s, T)]
  <2>2. ASSUME NEW T \in D(n) PROVE T \in D(n + 1) /\ t[T] = s[T]
    <3>1. T \in D(n + 1)
      BY <1>1
    <3> QED
      BY <2>1, <3>1 DEF Adds
  <2>3. ASSUME NEW T \in D(n + 1), T # {}
        PROVE  T \ {CHOOSE x \in T : TRUE} \in D(n)
    BY <1>1, <1>2, <2>3
  <2>4. ASSUME NEW T \in D(n + 1) PROVE e(s, T) = e(t, T)
    <3>1. CASE T = {}
      BY <3>1
    <3>2. CASE T # {}
      <4>1. PICK c : c = CHOOSE x \in T : TRUE
        OBVIOUS
      <4>2. T \ {c} \in D(n)
        BY <2>3, <3>2, <4>1
      <4>3. t[T \ {c}] = s[T \ {c}]
        BY <2>2, <4>2
      <4> HIDE DEF t
      <4> QED
        BY <4>1, <4>3
    <3> QED
      BY <3>1, <3>2
  <2>5. t = [T \in D(n + 1) |-> e(t, T)]
    <3> HIDE DEF e
    <3> QED
      BY <2>4
  <2>6. Adds(t, f, D(n + 1))
    <3> HIDE DEF t
    <3> QED
      BY <2>5 DEF Adds
  <2>7. \E u : Adds(u, f, D(n + 1))
    <3> HIDE DEF t
    <3> QED
      BY <2>6
  <2> HIDE DEF D
  <2> QED
    BY <2>7
<1>5. N = Nat
  <2> HIDE DEF N
  <2>1. N \in SUBSET Nat
    BY DEF N
  <2> QED
    BY <1>3, <1>4, <2>1, AllNumbers
<1>6. D(Cardinality(S)) = SUBSET S
  BY FS_Subset, FS_CardinalityType
<1>7. Cardinality(S) \in N
  BY <1>5, FS_CardinalityType
<1>8. PICK s : Adds(s, f, D(Cardinality(S)))
  BY <1>7
<1>9. AddsUp(s, f, S)
  BY <1>6, <1>8 DEF AddsUp
<1> QED
  BY <1>9

\* It has one only.
LEMMA AddsUnique ==
  ASSUME NEW f, NEW s, NEW t, NEW S, NEW T \in SUBSET S, IsFiniteSet(T),
         AddsUp(s, f, S), AddsUp(t, f, T)
  PROVE  \A U \in SUBSET T : s[U] = t[U]
<1> DEFINE G == {U \in SUBSET T : s[U] = t[U]}
<1>1. ASSUME NEW U \in SUBSET T, \A x \in U : U \ {x} \in G PROVE U \in G
  <2>1. CASE U = {}
    BY <2>1 DEF AddsUp, Adds
  <2>2. CASE U # {}
    <3>1. PICK c : c = CHOOSE x \in U : TRUE
      OBVIOUS
    <3>2. c \in U /\ U \ {c} \in G
      BY <1>1, <2>2, <3>1
    <3>3. s[U] = f[c] + s[U \ {c}]
      BY <2>2, <3>1 DEF AddsUp, Adds
    <3>4. t[U] = f[c] + t[U \ {c}]
      BY <2>2, <3>1 DEF AddsUp, Adds
    <3> QED
      BY <3>2, <3>3, <3>4
  <2> QED
    BY <2>1, <2>2
<1>2. \A U \in SUBSET T : U \in G
  <2> HIDE DEF G
  <2> QED
    BY <1>1, AllSubsets
<1> QED
  BY <1>2

\* A sum is one element's value and the sum of the others'.
LEMMA SumChosen ==
  ASSUME NEW f, NEW S, IsFiniteSet(S)
  PROVE  /\ S = {} => SumFunctionOnSet(f, S) = 0
         /\ S # {} => LET x == CHOOSE x \in S : TRUE IN
                      SumFunctionOnSet(f, S) = f[x] + SumFunctionOnSet(f, S \ {x})
<1> DEFINE sum(T) == CHOOSE s : AddsUp(s, f, T)
<1>1. ASSUME NEW T \in SUBSET S PROVE AddsUp(sum(T), f, T)
  BY AddsExists, FS_Subset
<1>2. \A T : SumFunctionOnSet(f, T) = sum(T)[T]
  BY DEF SumFunctionOnSet, FoldFunctionOnSet, MapThenFoldSet, AddsUp, Adds
<1>3. PICK s : s = sum(S) /\ AddsUp(s, f, S)
  BY <1>1
<1>4. ASSUME NEW T \in SUBSET S PROVE sum(T)[T] = s[T]
  <2>1. PICK t : t = sum(T) /\ AddsUp(t, f, T)
    BY <1>1
  <2>2. IsFiniteSet(T)
    BY FS_Subset
  <2> HIDE DEF sum
  <2>3. \A U \in SUBSET T : s[U] = t[U]
    <3>1. AddsUp(s, f, S)
      BY <1>3
    <3>2. AddsUp(t, f, T)
      BY <2>1
    <3> QED
      BY <3>1, <3>2, <2>2, AddsUnique
  <2>4. T \in SUBSET T
    OBVIOUS
  <2> QED
    BY <2>1, <2>3, <2>4
<1> HIDE DEF sum
<1>5. CASE S = {}
  BY <1>2, <1>3, <1>5 DEF AddsUp, Adds
<1>6. CASE S # {}
  <2>1. PICK c : c = CHOOSE x \in S : TRUE
    OBVIOUS
  <2>2. s[S] = f[c] + s[S \ {c}]
    BY <1>3, <1>6, <2>1 DEF AddsUp, Adds
  <2>3. SumFunctionOnSet(f, S \ {c}) = s[S \ {c}]
    BY <1>2, <1>4
  <2> QED
    BY <1>2, <1>3, <1>6, <2>1, <2>2, <2>3
<1> QED
  BY <1>5, <1>6

LEMMA SumEmpty ==
  ASSUME NEW f
  PROVE  SumFunctionOnSet(f, {}) = 0
BY SumChosen, FS_EmptySet

\* Sums of integers.
LEMMA SumInt ==
  ASSUME NEW f, NEW S, IsFiniteSet(S), \A x \in S : f[x] \in Int
  PROVE  SumFunctionOnSet(f, S) \in Int
<1> DEFINE G == {T \in SUBSET S : SumFunctionOnSet(f, T) \in Int}
<1>1. ASSUME NEW T \in SUBSET S, \A x \in T : T \ {x} \in G PROVE T \in G
  <2>1. IsFiniteSet(T)
    BY FS_Subset
  <2>2. CASE T = {}
    BY <2>2, SumEmpty
  <2>3. CASE T # {}
    <3>1. PICK c : c = CHOOSE x \in T : TRUE
      OBVIOUS
    <3>2. c \in T /\ T \ {c} \in G
      BY <1>1, <2>3, <3>1
    <3>3. SumFunctionOnSet(f, T) = f[c] + SumFunctionOnSet(f, T \ {c})
      BY <2>1, <2>3, <3>1, SumChosen
    <3> QED
      BY <3>2, <3>3
  <2> QED
    BY <2>2, <2>3
<1>2. \A T \in SUBSET S : T \in G
  <2> HIDE DEF G
  <2> QED
    BY <1>1, AllSubsets
<1> QED
  BY <1>2

\* Any element may be taken out of a sum.
LEMMA SumRemove ==
  ASSUME NEW f, NEW S, IsFiniteSet(S), \A x \in S : f[x] \in Int, NEW e \in S
  PROVE  SumFunctionOnSet(f, S) = f[e] + SumFunctionOnSet(f, S \ {e})
<1> DEFINE sum(T) == SumFunctionOnSet(f, T)
           G == {T \in SUBSET S : \A x \in T : sum(T) = f[x] + sum(T \ {x})}
<1>1. \A T \in SUBSET S : IsFiniteSet(T) /\ sum(T) \in Int
  BY FS_Subset, SumInt
<1>2. ASSUME NEW T \in SUBSET S, \A x \in T : T \ {x} \in G PROVE T \in G
  <2> SUFFICES ASSUME NEW x \in T PROVE sum(T) = f[x] + sum(T \ {x})
    OBVIOUS
  <2>1. PICK c : c = CHOOSE y \in T : TRUE
    OBVIOUS
  <2>2. c \in T
    BY <2>1
  <2>3. sum(T) = f[c] + sum(T \ {c})
    <3>1. IsFiniteSet(T) /\ T # {}
      BY <1>1
    <3> QED
      BY <2>1, <3>1, SumChosen
  <2>4. CASE x = c
    BY <2>3, <2>4
  <2>5. CASE x # c
    <3>1. T \ {c} \in G /\ T \ {x} \in G
      BY <1>2, <2>2
    <3>2. x \in T \ {c} /\ c \in T \ {x}
      BY <2>2, <2>5
    <3>3. (T \ {c}) \ {x} = (T \ {x}) \ {c}
      OBVIOUS
    <3> HIDE DEF sum
    <3>4. sum(T \ {c}) = f[x] + sum((T \ {c}) \ {x})
      BY <3>1, <3>2
    <3>5. sum(T \ {x}) = f[c] + sum((T \ {x}) \ {c})
      BY <3>1, <3>2
    <3>6. (T \ {x}) \ {c} \in SUBSET S
      OBVIOUS
    <3>7. sum((T \ {x}) \ {c}) \in Int /\ f[x] \in Int /\ f[c] \in Int
      BY <1>1, <2>2, <3>6
    <3>8. sum((T \ {c}) \ {x}) = sum((T \ {x}) \ {c})
      BY <3>3
    <3>9. PICK k \in Int : k = sum((T \ {x}) \ {c})
      BY <3>7
    <3>10. sum(T \ {x}) = f[c] + k /\ sum(T) = f[c] + (f[x] + k)
      BY <2>3, <3>4, <3>5, <3>8, <3>9
    <3>11. sum(T) = f[x] + sum(T \ {x})
      BY <3>7, <3>9, <3>10
    <3> QED
      BY <3>11
  <2> QED
    BY <2>4, <2>5
<1>3. \A T \in SUBSET S : T \in G
  <2> HIDE DEF G
  <2> QED
    BY <1>2, AllSubsets
<1> QED
  BY <1>3

\* Only the values on S count.
LEMMA SumEqual ==
  ASSUME NEW f, NEW g, NEW S, IsFiniteSet(S), \A x \in S : f[x] = g[x]
  PROVE  SumFunctionOnSet(f, S) = SumFunctionOnSet(g, S)
<1> DEFINE G == {T \in SUBSET S : SumFunctionOnSet(f, T) = SumFunctionOnSet(g, T)}
<1>1. ASSUME NEW T \in SUBSET S, \A x \in T : T \ {x} \in G PROVE T \in G
  <2>1. IsFiniteSet(T)
    BY FS_Subset
  <2>2. CASE T = {}
    BY <2>2, SumEmpty
  <2>3. CASE T # {}
    <3>1. PICK c : c = CHOOSE x \in T : TRUE
      OBVIOUS
    <3>2. c \in T /\ T \ {c} \in G
      BY <1>1, <2>3, <3>1
    <3>3. SumFunctionOnSet(f, T) = f[c] + SumFunctionOnSet(f, T \ {c})
      BY <2>1, <2>3, <3>1, SumChosen
    <3>4. SumFunctionOnSet(g, T) = g[c] + SumFunctionOnSet(g, T \ {c})
      BY <2>1, <2>3, <3>1, SumChosen
    <3> QED
      BY <3>2, <3>3, <3>4
  <2> QED
    BY <2>2, <2>3
<1>2. \A T \in SUBSET S : T \in G
  <2> HIDE DEF G
  <2> QED
    BY <1>1, AllSubsets
<1> QED
  BY <1>2

\* A sum falls into that of a part and that of the rest.
LEMMA SumSplit ==
  ASSUME NEW f, NEW S, IsFiniteSet(S), \A x \in S : f[x] \in Int, NEW R \in SUBSET S
  PROVE  SumFunctionOnSet(f, S) = SumFunctionOnSet(f, S \ R) + SumFunctionOnSet(f, R)
<1> DEFINE sum(T) == SumFunctionOnSet(f, T)
           G == {T \in SUBSET S : sum(S) = sum(S \ T) + sum(T)}
<1>1. \A T \in SUBSET S : IsFiniteSet(T) /\ sum(T) \in Int /\ \A x \in T : f[x] \in Int
  BY FS_Subset, SumInt
<1>2. ASSUME NEW T \in SUBSET S, NEW x \in T PROVE sum(T) = f[x] + sum(T \ {x})
  <2>1. IsFiniteSet(T) /\ \A y \in T : f[y] \in Int
    BY <1>1
  <2> QED
    BY <2>1, SumRemove
<1>3. ASSUME NEW T \in SUBSET S, \A x \in T : T \ {x} \in G PROVE T \in G
  <2>1. CASE T = {}
    <3>1. sum({}) = 0
      BY SumEmpty
    <3>2. sum(S) \in Int /\ S \ T = S
      BY <1>1, <2>1
    <3> HIDE DEF sum
    <3> QED
      BY <2>1, <3>1, <3>2
  <2>2. CASE T # {}
    <3>1. PICK x \in T : sum(S) = sum(S \ (T \ {x})) + sum(T \ {x})
      BY <1>3, <2>2
    <3>2. PICK U \in SUBSET S : U = S \ (T \ {x}) /\ x \in U /\ U \ {x} = S \ T
      <4>1. /\ S \ (T \ {x}) \in SUBSET S /\ x \in S \ (T \ {x})
            /\ (S \ (T \ {x})) \ {x} = S \ T
        OBVIOUS
      <4> QED
        BY <4>1
    <3>3. sum(U) = f[x] + sum(S \ T) /\ sum(T) = f[x] + sum(T \ {x})
      BY <1>2, <3>2
    <3>4. f[x] \in Int /\ sum(S \ T) \in Int /\ sum(T \ {x}) \in Int
      BY <1>1
    <3> HIDE DEF sum
    <3> QED
      BY <3>1, <3>2, <3>3, <3>4
  <2> QED
    BY <2>1, <2>2
<1>4. \A T \in SUBSET S : T \in G
  <2> HIDE DEF G
  <2> QED
    BY <1>3, AllSubsets
<1> QED
  BY <1>4

\* A sum of ones counts.
LEMMA SumOnes ==
  ASSUME NEW f, NEW S, IsFiniteSet(S), \A x \in S : f[x] = 1
  PROVE  SumFunctionOnSet(f, S) = Cardinality(S)
<1> DEFINE G == {T \in SUBSET S : SumFunctionOnSet(f, T) = Cardinality(T)}
<1>1. ASSUME NEW T \in SUBSET S, \A x \in T : T \ {x} \in G PROVE T \in G
  <2>1. IsFiniteSet(T) /\ Cardinality(T) \in Nat
    BY FS_Subset, FS_CardinalityType
  <2>2. CASE T = {}
    BY <2>2, SumEmpty, FS_EmptySet
  <2>3. CASE T # {}
    <3>1. PICK c : c \in T
      BY <2>3
    <3>2. T \ {c} \in G
      BY <1>1, <3>1
    <3>3. \A x \in T : f[x] \in Int
      OBVIOUS
    <3>4. SumFunctionOnSet(f, T) = f[c] + SumFunctionOnSet(f, T \ {c})
      BY <2>1, <3>1, <3>3, SumRemove
    <3>5. Cardinality(T \ {c}) = Cardinality(T) - 1
      BY <2>1, <3>1, FS_RemoveElement
    <3> QED
      BY <2>1, <3>1, <3>2, <3>4, <3>5
  <2> QED
    BY <2>2, <2>3
<1>2. \A T \in SUBSET S : T \in G
  <2> HIDE DEF G
  <2> QED
    BY <1>1, AllSubsets
<1> QED
  BY <1>2

\* What is zero may be left out.
LEMMA SumNonzero ==
  ASSUME NEW f, NEW S, IsFiniteSet(S), \A x \in S : f[x] \in Int,
         NEW R \in SUBSET S, \A x \in S \ R : f[x] = 0
  PROVE  SumFunctionOnSet(f, R) = SumFunctionOnSet(f, S)
<1> DEFINE sum(T) == SumFunctionOnSet(f, T)
           G == {T \in SUBSET S : sum(T \cap R) = sum(T)}
<1>1. \A T \in SUBSET S : IsFiniteSet(T) /\ sum(T) \in Int /\ \A x \in T : f[x] \in Int
  BY FS_Subset, SumInt
<1>2. ASSUME NEW T \in SUBSET S, \A x \in T : T \ {x} \in G PROVE T \in G
  <2>1. CASE T = {}
    BY <2>1
  <2>2. CASE T # {}
    <3>1. PICK c : c \in T
      BY <2>2
    <3>2. sum((T \ {c}) \cap R) = sum(T \ {c})
      BY <1>2, <3>1
    <3>3. sum(T) = f[c] + sum(T \ {c})
      BY <1>1, <3>1, SumRemove
    <3>4. T \ {c} \in SUBSET S /\ T \cap R \in SUBSET S
      OBVIOUS
    <3>5. CASE c \in R
      <4>1. c \in T \cap R
        BY <3>1, <3>5
      <4>2. sum(T \cap R) = f[c] + sum((T \cap R) \ {c})
        BY <1>1, <3>4, <4>1, SumRemove
      <4>3. (T \cap R) \ {c} = (T \ {c}) \cap R
        OBVIOUS
      <4> HIDE DEF sum
      <4>4. sum(T \cap R) = sum(T)
        BY <3>2, <3>3, <4>2, <4>3
      <4> QED
        BY <4>4
    <3>6. CASE c \notin R
      <4>1. (T \ {c}) \cap R = T \cap R
        BY <3>6
      <4>2. f[c] = 0 /\ sum(T \ {c}) \in Int
        BY <1>1, <3>1, <3>4, <3>6
      <4> HIDE DEF sum
      <4>3. sum(T \cap R) = sum(T \ {c})
        BY <3>2, <4>1
      <4>4. sum(T) = sum(T \ {c})
        BY <3>3, <4>2
      <4> QED
        BY <4>3, <4>4
    <3> QED
      BY <3>5, <3>6
  <2> QED
    BY <2>1, <2>2
<1>3. \A T \in SUBSET S : T \in G
  <2> HIDE DEF G
  <2> QED
    BY <1>2, AllSubsets
<1>4. sum(S \cap R) = sum(S) /\ S \cap R = R
  BY <1>3
<1> QED
  BY <1>4

\* The sums of the parts that a key divides a set into make the sum of all.
LEMMA SumParts ==
  ASSUME NEW f, NEW S, IsFiniteSet(S), \A x \in S : f[x] \in Int,
         NEW K, IsFiniteSet(K), NEW key, \A x \in S : key[x] \in K
  PROVE  SumFunctionOnSet([k \in K |-> SumFunctionOnSet(f, {x \in S : key[x] = k})], K)
           = SumFunctionOnSet(f, S)
<1> DEFINE sum(T) == SumFunctionOnSet(f, T)
           P(T, k) == {x \in T : key[x] = k}
           part(T) == [k \in K |-> sum(P(T, k))]
           total(g, L) == SumFunctionOnSet(g, L)
           G == {T \in SUBSET S : total(part(T), K) = sum(T)}
<1>1. \A T \in SUBSET S : /\ IsFiniteSet(T) /\ sum(T) \in Int /\ \A x \in T : f[x] \in Int
                          /\ \A k \in K : part(T)[k] \in Int /\ part(T)[k] = sum(P(T, k))
  <2>1. \A T \in SUBSET S : IsFiniteSet(T) /\ sum(T) \in Int /\ \A x \in T : f[x] \in Int
    BY FS_Subset, SumInt
  <2>2. \A T \in SUBSET S, k \in K : P(T, k) \in SUBSET S
    OBVIOUS
  <2> HIDE DEF sum, P
  <2> QED
    BY <2>1, <2>2
<1>2. ASSUME NEW T \in SUBSET S, \A x \in T : T \ {x} \in G PROVE T \in G
  <2>1. CASE T = {}
    <3>1. \A k \in K : P(T, k) = {}
      BY <2>1
    <3>2. \A k \in K : part(T)[k] = 0
      <4> HIDE DEF P
      <4> QED
        BY <3>1, SumEmpty
    <3>3. PICK g : g = part(T)
      OBVIOUS
    <3>4. total(g, {}) = total(g, K)
      <4> HIDE DEF part
      <4>1. {} \in SUBSET K /\ \A k \in K : g[k] \in Int /\ g[k] = 0
        BY <3>2, <3>3
      <4> QED
        BY <4>1, SumNonzero
    <3>5. total(g, {}) = 0 /\ sum(T) = 0
      BY <2>1, SumEmpty
    <3>6. total(g, K) = sum(T)
      <4> HIDE DEF total, sum
      <4> QED
        BY <3>4, <3>5
    <3> QED
      BY <3>3, <3>6
  <2>2. CASE T # {}
    <3>1. PICK c : c \in T
      BY <2>2
    <3>2. PICK d \in K : d = key[c]
      BY <3>1
    <3>3. PICK R : R \in SUBSET S /\ R = T \ {c}
      OBVIOUS
    <3>4. total(part(R), K) = sum(R)
      BY <1>2, <3>1, <3>3
    <3>5. sum(T) = f[c] + sum(R)
      BY <1>1, <3>1, <3>3, SumRemove
    <3>6. PICK g, h : g = part(T) /\ h = part(R)
      OBVIOUS
    <3>7. g[d] = f[c] + h[d]
      <4>1. P(T, d) \in SUBSET S /\ c \in P(T, d)
        BY <3>1, <3>2
      <4>2. sum(P(T, d)) = f[c] + sum(P(T, d) \ {c})
        BY <1>1, <4>1, SumRemove
      <4>3. P(T, d) \ {c} = P(R, d)
        BY <3>3
      <4> HIDE DEF sum, P, part
      <4> QED
        BY <1>1, <3>3, <3>6, <4>2, <4>3
    <3>8. ASSUME NEW k \in K \ {d} PROVE g[k] = h[k]
      <4>1. P(T, k) = P(R, k)
        BY <3>2, <3>3
      <4> HIDE DEF sum, P, part
      <4> QED
        BY <1>1, <3>3, <3>6, <4>1
    <3>9. \A k \in K : g[k] \in Int /\ h[k] \in Int
      <4> HIDE DEF sum, P, part
      <4> QED
        BY <1>1, <3>3, <3>6
    <3>10. total(g, K) = g[d] + total(g, K \ {d}) /\ total(h, K) = h[d] + total(h, K \ {d})
      BY <3>9, SumRemove
    <3>11. IsFiniteSet(K \ {d})
      BY FS_RemoveElement
    <3>12. total(g, K \ {d}) = total(h, K \ {d}) /\ total(h, K \ {d}) \in Int
      BY <3>8, <3>9, <3>11, SumEqual, SumInt
    <3>13. f[c] \in Int /\ h[d] \in Int
      BY <3>1, <3>9
    <3>14. total(g, K) = sum(T)
      <4> HIDE DEF total, sum, part
      <4>1. PICK n \in Int : n = total(h, K \ {d})
        BY <3>12
      <4>2. total(g, K) = (f[c] + h[d]) + n /\ sum(T) = f[c] + (h[d] + n)
        BY <3>4, <3>5, <3>6, <3>7, <3>10, <3>12, <4>1
      <4> QED
        BY <3>13, <4>2
    <3> QED
      BY <3>6, <3>14
  <2> QED
    BY <2>1, <2>2
<1>3. \A T \in SUBSET S : T \in G
  <2> HIDE DEF G
  <2> QED
    BY <1>2, AllSubsets
<1> QED
  BY <1>3

\* A sum over things of which each has a key of its own is one over the keys.
LEMMA SumKeyed ==
  ASSUME NEW f, NEW S, IsFiniteSet(S), NEW g, NEW K, IsFiniteSet(K), NEW key, NEW thing,
         \A x \in S : key[x] \in K /\ thing[key[x]] = x,
         \A k \in K : thing[k] \in S /\ key[thing[k]] = k /\ f[thing[k]] = g[k] /\ g[k] \in Int
  PROVE  SumFunctionOnSet(f, S) = SumFunctionOnSet(g, K)
<1> DEFINE h == [k \in K |-> SumFunctionOnSet(f, {x \in S : key[x] = k})]
<1>1. \A x \in S : f[x] \in Int
  OBVIOUS
<1>2. ASSUME NEW k \in K PROVE h[k] = g[k]
  <2>1. PICK x \in S : {y \in S : key[y] = k} = {x} /\ g[k] = f[x]
    <3>1. thing[k] \in S /\ g[k] = f[thing[k]] /\ {y \in S : key[y] = k} = {thing[k]}
      OBVIOUS
    <3> QED
      BY <3>1
  <2>2. h[k] = SumFunctionOnSet(f, {x})
    BY <2>1
  <2>3. IsFiniteSet({x}) /\ \A y \in {x} : f[y] \in Int
    BY <1>1, FS_Singleton
  <2>4. SumFunctionOnSet(f, {x}) = f[x] + SumFunctionOnSet(f, {x} \ {x})
    BY <2>3, SumRemove
  <2>5. {x} \ {x} = {}
    OBVIOUS
  <2> QED
    <3>1. g[k] \in Int /\ SumFunctionOnSet(f, {x} \ {x}) = 0
      BY <2>5, SumEmpty
    <3> QED
      BY <2>1, <2>2, <2>4, <3>1
<1>3. SumFunctionOnSet(h, K) = SumFunctionOnSet(f, S)
  BY <1>1, SumParts
<1> HIDE DEF h
<1>4. SumFunctionOnSet(h, K) = SumFunctionOnSet(g, K)
  BY <1>2, SumEqual
<1> QED
  BY <1>3, <1>4

-----------------------------------------------------------------------------
(* Rounding *)

LEMMA Cancel ==
  ASSUME NEW d \in Int, d > 0, NEW m \in Int, NEW n \in Int, d * m <= d * n
  PROVE  m <= n
<1> SUFFICES ASSUME m - n >= 1 PROVE FALSE
  OBVIOUS
<1>1. d * (m - n) >= d
  OBVIOUS
<1> QED
  BY <1>1

\* What rounding to the nearest does: q is n / d but for half a unit.
LEMMA Rounding ==
  ASSUME NEW d \in Int, d > 0, NEW n \in Int
  PROVE  LET q == (2 * n + d) \div (2 * d) IN
         q \in Int /\ 2 * d * q - 2 * n <= d /\ 2 * d * q - 2 * n > - d
<1>1. PICK e \in Int : e = 2 * d
  OBVIOUS
<1>2. PICK m \in Int : m = 2 * n + d
  OBVIOUS
<1>3. (m \div e) \in Int /\ e * (m \div e) <= m /\ m < e * (m \div e) + e
  BY <1>1
<1>4. PICK q \in Int : q = m \div e
  BY <1>3
<1>5. 2 * d * q <= 2 * n + d /\ 2 * n + d < 2 * d * q + 2 * d
  BY <1>1, <1>2, <1>3, <1>4
<1>6. 2 * d * q - 2 * n <= d /\ 2 * d * q - 2 * n > - d
  BY <1>5
<1> QED
  BY <1>1, <1>2, <1>4, <1>6

LEMMA RoundingGrows ==
  ASSUME NEW d \in Int, d > 0, NEW m \in Int, NEW n \in Int, m <= n
  PROVE  (2 * m + d) \div (2 * d) <= (2 * n + d) \div (2 * d)
<1>1. PICK q \in Int : q = (2 * m + d) \div (2 * d)
  BY Rounding
<1>2. PICK r \in Int : r = (2 * n + d) \div (2 * d)
  BY Rounding
<1>3. 2 * d * q - 2 * m <= d
  BY <1>1, Rounding
<1>4. 2 * d * r - 2 * n > - d
  BY <1>2, Rounding
<1>5. 2 * d * q < 2 * d * r + 2 * d
  BY <1>3, <1>4
<1>6. d * q < d * (r + 1)
  BY <1>5
<1>7. q <= r
  <2> SUFFICES ASSUME q >= r + 1 PROVE FALSE
    OBVIOUS
  <2>1. d * (q - (r + 1)) >= 0
    OBVIOUS
  <2> QED
    BY <1>6, <2>1
<1> QED
  BY <1>1, <1>2, <1>7

\* Rounding errors add up to no more than half a unit for each number.
LEMMA SumRounded ==
  ASSUME NEW f, NEW g, NEW S, IsFiniteSet(S), NEW d \in Int, NEW u \in Int,
         \A x \in S : f[x] \in Int /\ g[x] \in Int,
         \A x \in S : 2 * d * g[x] - 2 * u * f[x] \in -d..d
  PROVE  2 * d * SumFunctionOnSet(g, S) - 2 * u * SumFunctionOnSet(f, S)
           \in -(d * Cardinality(S))..(d * Cardinality(S))
<1> DEFINE Off(T, n) == 2 * d * SumFunctionOnSet(g, T) - 2 * u * SumFunctionOnSet(f, T)
                          \in -(d * n)..(d * n)
           G == {T \in SUBSET S : Off(T, Cardinality(T))}
<1>1. ASSUME NEW T \in SUBSET S, \A x \in T : T \ {x} \in G PROVE T \in G
  <2>1. IsFiniteSet(T) /\ Cardinality(T) \in Nat
    BY FS_Subset, FS_CardinalityType
  <2>2. CASE T = {}
    <3>1. SumFunctionOnSet(g, T) = 0 /\ SumFunctionOnSet(f, T) = 0 /\ Cardinality(T) = 0
      BY <2>2, SumEmpty, FS_EmptySet
    <3>2. 2 * d * 0 - 2 * u * 0 \in -(d * 0)..(d * 0)
      <4>1. d * 0 = 0 /\ 2 * d * 0 = 0 /\ 2 * u * 0 = 0
        OBVIOUS
      <4> QED
        BY <4>1
    <3>3. Off(T, Cardinality(T))
      BY <3>1, <3>2
    <3> QED
      BY <3>3
  <2>3. CASE T # {}
    <3>1. PICK c : c \in T
      BY <2>3
    <3>2. T \ {c} \in G /\ IsFiniteSet(T \ {c})
      BY <1>1, <2>1, <3>1, FS_RemoveElement
    <3>3. PICK n \in Int : n = Cardinality(T \ {c}) /\ Cardinality(T) = n + 1
      <4>1. Cardinality(T \ {c}) = Cardinality(T) - 1
        BY <2>1, <3>1, FS_RemoveElement
      <4> QED
        BY <2>1, <4>1
    <3>4. PICK a \in Int : a = SumFunctionOnSet(f, T \ {c})
      BY <3>2, SumInt
    <3>5. PICK b \in Int : b = SumFunctionOnSet(g, T \ {c})
      BY <3>2, SumInt
    <3>6. SumFunctionOnSet(f, T) = f[c] + a /\ SumFunctionOnSet(g, T) = g[c] + b
      BY <2>1, <3>1, <3>4, <3>5, SumRemove
    <3>7. 2 * d * b - 2 * u * a \in -(d * n)..(d * n)
      BY <3>2, <3>3, <3>4, <3>5
    <3>8. 2 * d * (g[c] + b) - 2 * u * (f[c] + a) \in -(d * (n + 1))..(d * (n + 1))
      <4>1. PICK i \in Int, k \in Int : i = f[c] /\ k = g[c] /\ 2 * d * k - 2 * u * i \in -d..d
        BY <3>1
      <4>2. /\ 2 * d * (k + b) - 2 * u * (i + a) <= d * (n + 1)
            /\ 2 * d * (k + b) - 2 * u * (i + a) >= -(d * (n + 1))
        BY <3>7, <4>1
      <4> QED
        BY <4>1, <4>2
    <3> QED
      BY <3>3, <3>6, <3>8
  <2> QED
    BY <2>2, <2>3
<1>2. \A T \in SUBSET S : T \in G
  <2> HIDE DEF G
  <2> QED
    BY <1>1, AllSubsets
<1> QED
  BY <1>2

-----------------------------------------------------------------------------
(* The overview: its inductive invariant                                  *)

\* The row of the day is that of the last answer, where today's refresh gave one.
Recorded ==
  \A a \in Stored :
    refreshed = day /\ a \notin stale /\ OfOwnCurrency(account[a]) # {} =>
      daily[a][day] = DailyRow(account[a])

OverviewIInv == OverviewTypeOK /\ Recorded

-----------------------------------------------------------------------------
(* What is stored *)

\* Sums of market values.
ValueIn(S) == SumFunctionOnSet([p \in S |-> p.value], S)

LEMMA ValueInInt ==
  ASSUME NEW S, IsFiniteSet(S), \A p \in S : p.value \in Int
  PROVE  ValueIn(S) \in Int
<1> DEFINE f == [p \in S |-> p.value]
<1>1. \A p \in S : f[p] \in Int
  OBVIOUS
<1> HIDE DEF f
<1>2. SumFunctionOnSet(f, S) \in Int
  BY <1>1, SumInt
<1> QED
  BY <1>2 DEF ValueIn, f

LEMMA OfferTyping ==
  ASSUME NEW o \in Offers
  PROVE  /\ o.currency \in STRING /\ o.positions \in SUBSET Position /\ IsFiniteSet(o.positions)
         /\ IsFiniteSet(OfOwnCurrency(o)) /\ OfOwnCurrency(o) \in SUBSET Position
         /\ \A p \in OfOwnCurrency(o) : p.value \in Int
<1>1. o.currency \in STRING /\ o.positions \in SUBSET Position /\ IsFiniteSet(o.positions)
  BY OverviewAssumption
<1>2. OfOwnCurrency(o) \in SUBSET o.positions
  BY DEF OfOwnCurrency
<1>3. IsFiniteSet(OfOwnCurrency(o))
  BY <1>1, <1>2, FS_Subset
<1>4. \A p \in OfOwnCurrency(o) : p.value \in Int
  BY <1>1 DEF OfOwnCurrency, Position
<1> QED
  BY <1>1, <1>2, <1>3, <1>4

LEMMA DailyRowTyping ==
  ASSUME NEW o \in Offers
  PROVE  DailyRow(o) \in DailyValue /\ DailyRow(o).value = ValueIn(OfOwnCurrency(o))
<1>1. DailyRow(o) = [value |-> ValueIn(OfOwnCurrency(o)), currency |-> o.currency]
  BY DEF DailyRow, Sum, ValueOf, ValueIn
<1>2. ValueIn(OfOwnCurrency(o)) \in Int
  BY OfferTyping, ValueInInt
<1> QED
  BY <1>1, <1>2, OfferTyping DEF DailyValue

LEMMA OverviewInitially == OverviewInit => OverviewIInv
<1> SUFFICES ASSUME OverviewInit PROVE OverviewIInv
  OBVIOUS
<1>1. day \in Today /\ refreshed \in 0..day
  BY OverviewAssumption DEF OverviewInit, Today
<1>2. Stored = {} /\ stale = {}
  BY DEF OverviewInit, Stored
<1>3. \A a \in Accounts, d \in Today : daily[a][d] = Missing
  BY DEF OverviewInit
<1>4. daily \in [Accounts -> [Today -> DailyValue \cup {Missing}]]
  BY DEF OverviewInit
<1>5. account \in [Accounts -> Offers \cup {Missing}]
  BY DEF OverviewInit
<1>6. OverviewTypeOK
  BY <1>1, <1>2, <1>3, <1>4, <1>5 DEF OverviewTypeOK
<1> QED
  BY <1>2, <1>6 DEF OverviewIInv, Recorded

\* An answer is stored with its row of the day; all others that are stored are stale.
LEMMA RefreshInductive ==
  ASSUME OverviewIInv, Refresh
  PROVE  OverviewIInv'
<1>0. PICK got \in SUBSET Accounts : \E answer \in [got -> Offers] :
        /\ account' = [a \in Accounts |-> IF a \in got THEN answer[a] ELSE account[a]]
        /\ stale' = MarkStale(got)
        /\ daily' = [a \in Accounts |->
                       IF a \in got THEN SaveDaily(a, answer[a]) ELSE daily[a]]
        /\ refreshed' = day /\ day' = day
  BY DEF Refresh
<1>1. PICK answer \in [got -> Offers] :
        /\ account' = [a \in Accounts |-> IF a \in got THEN answer[a] ELSE account[a]]
        /\ stale' = MarkStale(got)
        /\ daily' = [a \in Accounts |->
                       IF a \in got THEN SaveDaily(a, answer[a]) ELSE daily[a]]
        /\ refreshed' = day /\ day' = day
  BY <1>0
<1>2. day \in Today /\ day \in Nat /\ refreshed \in 0..day
  BY OverviewAssumption DEF OverviewIInv, OverviewTypeOK, Today
<1>3. \A a \in Accounts : daily[a] \in [Today -> DailyValue \cup {Missing}]
  BY DEF OverviewIInv, OverviewTypeOK
<1>4. account' \in [Accounts -> Offers \cup {Missing}]
  BY <1>1 DEF OverviewIInv, OverviewTypeOK
<1>5. \A a \in got : answer[a] \in Offers /\ a \in Stored'
  BY <1>1, OverviewAssumption DEF Stored
<1>6. Stored' = Stored \cup got /\ stale' = Stored \ got
  BY <1>1, <1>5 DEF Stored, MarkStale
<1>7. ASSUME NEW a \in got
      PROVE  /\ daily'[a] \in [Today -> DailyValue \cup {Missing}]
             /\ \A d \in Today \ {day} : daily'[a][d] = daily[a][d]
             /\ OfOwnCurrency(answer[a]) # {} => daily'[a][day] = DailyRow(answer[a])
  <2>1. daily'[a] = SaveDaily(a, answer[a])
    BY <1>1
  <2>2. PICK r : r = DailyRow(answer[a])
    OBVIOUS
  <2>3. r \in DailyValue
    BY <1>5, <2>2, DailyRowTyping
  <2>4. daily'[a] = [daily[a] EXCEPT ![day] = IF OfOwnCurrency(answer[a]) = {} THEN @ ELSE r]
    BY <2>1, <2>2 DEF SaveDaily
  <2> QED
    BY <1>2, <1>3, <2>2, <2>3, <2>4
<1>8. ASSUME NEW a \in Accounts \ got PROVE daily'[a] = daily[a] /\ account'[a] = account[a]
  BY <1>1
<1>9. daily' \in [Accounts -> [Today -> DailyValue \cup {Missing}]]
  <2>1. \A a \in Accounts : daily'[a] \in [Today -> DailyValue \cup {Missing}]
    BY <1>3, <1>7, <1>8
  <2>2. daily' = [a \in Accounts |-> daily'[a]]
    BY <1>1
  <2> QED
    BY <2>1, <2>2
<1>10. ASSUME NEW a \in Accounts, NEW d \in Today, daily'[a][d] # Missing
       PROVE  a \in Stored' /\ d <= refreshed'
  <2>1. daily[a][d] # Missing => a \in Stored /\ d <= refreshed
    BY DEF OverviewIInv, OverviewTypeOK
  <2>2. d \in Nat
    BY OverviewAssumption DEF Today
  <2>3. refreshed' = day
    BY <1>1
  <2>4. CASE a \in got /\ d = day
    BY <1>2, <1>5, <2>3, <2>4
  <2>5. CASE daily'[a][d] = daily[a][d]
    BY <1>2, <1>6, <1>10, <2>1, <2>2, <2>3, <2>5
  <2> QED
    BY <1>7, <1>8, <2>4, <2>5
<1>11. OverviewTypeOK'
  <2>1. day' \in Today' /\ refreshed' \in 0..day'
    BY <1>1, <1>2 DEF Today
  <2>2. Today' = Today
    BY DEF Today
  <2> QED
    BY <1>4, <1>6, <1>9, <1>10, <2>1, <2>2 DEF OverviewTypeOK
<1>12. Recorded'
  <2> SUFFICES ASSUME NEW a \in Stored', a \notin stale', OfOwnCurrency(account'[a]) # {}
               PROVE  daily'[a][day'] = DailyRow(account'[a])
    BY DEF Recorded, OfOwnCurrency, DailyRow
  <2>1. a \in got /\ account'[a] = answer[a]
    BY <1>1, <1>6
  <2> QED
    BY <1>1, <1>7, <2>1
<1> QED
  BY <1>11, <1>12 DEF OverviewIInv

LEMMA OverviewInductive == OverviewIInv /\ [OverviewNext]_overviewVars => OverviewIInv'
<1> SUFFICES ASSUME OverviewIInv, [OverviewNext]_overviewVars PROVE OverviewIInv'
  OBVIOUS
<1>1. CASE Refresh
  BY <1>1, RefreshInductive
<1>2. CASE NextDay
  <2>1. UNCHANGED <<account, stale, daily, refreshed>> /\ day' = day + 1 /\ day < Days
    BY <1>2 DEF NextDay
  <2>2. day \in Nat /\ refreshed \in Nat /\ refreshed <= day /\ day >= 1
    BY OverviewAssumption DEF OverviewIInv, OverviewTypeOK, Today
  <2>3. day' \in Today /\ refreshed' \in 0..day' /\ refreshed' # day'
    BY OverviewAssumption, <2>1, <2>2 DEF Today
  <2>4. Stored' = Stored
    BY <2>1 DEF Stored
  <2>5. OverviewTypeOK'
    BY <2>1, <2>3, <2>4 DEF OverviewIInv, OverviewTypeOK, Today
  <2>6. Recorded'
    BY <2>3 DEF Recorded
  <2> QED
    BY <2>5, <2>6 DEF OverviewIInv
<1>3. CASE UNCHANGED overviewVars
  BY <1>3 DEF overviewVars, OverviewIInv, OverviewTypeOK, Recorded, Stored, Today, DailyRow,
              OfOwnCurrency
<1> QED
  BY <1>1, <1>2, <1>3 DEF OverviewNext

\* What the inductive invariant says holds always, whatever is refreshed on which day.
THEOREM OverviewInvariance == OverviewSpec => []OverviewIInv
<1> QED
  BY OverviewInitially, OverviewInductive, PTL DEF OverviewSpec

-----------------------------------------------------------------------------
(* The positions of the overview *)

LEMMA ImageFinite ==
  ASSUME NEW S, IsFiniteSet(S), NEW f
  PROVE  IsFiniteSet({f[x] : x \in S})
<1> DEFINE g == [x \in S |-> f[x]]
<1>1. g \in Surjection(S, {f[x] : x \in S})
  BY DEF Surjection
<1> QED
  BY <1>1, FS_Surjection

\* A position as it is read, with its account.
Row(a, p) == [account |-> a, symbol |-> p.symbol, class |-> p.class, currency |-> p.currency,
              value |-> p.value, cost |-> p.cost]

RowsOf(a) == {Row(a, p) : p \in account[a].positions}

LEMMA StoredTyping ==
  ASSUME OverviewTypeOK
  PROVE  /\ IsFiniteSet(Stored)
         /\ \A a \in Stored : a \in Accounts /\ account[a] \in Offers
  <1>1. Stored \in SUBSET Accounts
    BY DEF Stored
  <1>2. IsFiniteSet(Stored)
    BY <1>1, OverviewAssumption, FS_Subset
  <1> QED
    BY <1>2 DEF Stored, OverviewTypeOK

LEMMA PositionsTyping ==
  ASSUME OverviewTypeOK
  PROVE  /\ IsFiniteSet(Positions)
         /\ \A r \in Positions : \E a \in Stored : r \in RowsOf(a)
         /\ \A a \in Stored : RowsOf(a) \subseteq Positions
         /\ \A r \in Positions : /\ r.account \in Stored
                                 /\ r.value \in Int \cup {Missing}
                                 /\ r.cost \in Int \cup {Missing}
<1> DEFINE held == [a \in Stored |-> RowsOf(a)]
<1>1. Positions = UNION {held[a] : a \in Stored}
  BY DEF Positions, RowsOf, Row
<1>2. \A a \in Stored : held[a] = RowsOf(a)
  OBVIOUS
<1>3. ASSUME NEW a \in Stored
      PROVE  /\ IsFiniteSet(held[a])
             /\ \A r \in held[a] : /\ r.account = a
                                   /\ r.value \in Int \cup {Missing}
                                   /\ r.cost \in Int \cup {Missing}
  <2>1. PICK P : P = account[a].positions
    OBVIOUS
  <2>2. IsFiniteSet(P) /\ P \in SUBSET Position
    BY <2>1, StoredTyping, OfferTyping
  <2> DEFINE row == [p \in P |-> Row(a, p)]
  <2>3. held[a] = {row[p] : p \in P}
    BY <2>1 DEF RowsOf
  <2>4. \A p \in P : /\ row[p].account = a
                     /\ row[p].value \in Int \cup {Missing}
                     /\ row[p].cost \in Int \cup {Missing}
    BY <2>2 DEF Row, Position
  <2> HIDE DEF row, held
  <2> QED
    BY <2>2, <2>3, <2>4, ImageFinite
<1> HIDE DEF held
<1>4. IsFiniteSet(Positions)
  <2>1. IsFiniteSet({held[a] : a \in Stored})
    BY StoredTyping, ImageFinite
  <2>2. \A T \in {held[a] : a \in Stored} : IsFiniteSet(T)
    BY <1>3
  <2>3. IsFiniteSet(UNION {held[a] : a \in Stored})
    BY <2>1, <2>2, FS_UNION
  <2> QED
    BY <1>1, <2>3
<1> QED
  BY <1>1, <1>2, <1>3, <1>4

\* What counts has a value, and its account is not stale.
LEMMA FreshTyping ==
  ASSUME OverviewTypeOK
  PROVE  /\ IsFiniteSet(FreshUsd) /\ FreshUsd \in SUBSET Positions
         /\ \A r \in FreshUsd : /\ r.value \in Int /\ r.account \in Stored \ stale
                                /\ r.currency = "USD"
         /\ \A r \in Positions : /\ r.currency = "USD" /\ r.value # Missing
                                 /\ r.account \notin stale
                                 => r \in FreshUsd
<1>1. FreshUsd \in SUBSET Positions
  BY DEF FreshUsd, AllKnownUsd
<1>2. IsFiniteSet(FreshUsd)
  BY <1>1, PositionsTyping, FS_Subset
<1>3. \A r \in FreshUsd : r.value # Missing /\ r.account \notin stale /\ r.currency = "USD"
  BY DEF FreshUsd, StaleAccount, AllKnownUsd, MissingMarketValue, UnsupportedCurrency
<1>4. \A r \in Positions :
        r.currency = "USD" /\ r.value # Missing /\ r.account \notin stale => r \in FreshUsd
  BY DEF FreshUsd, StaleAccount, AllKnownUsd, MissingMarketValue, UnsupportedCurrency
<1> QED
  BY <1>1, <1>2, <1>3, <1>4, PositionsTyping

\* The values of any set of positions that count.
LEMMA PartTyping ==
  ASSUME OverviewTypeOK, NEW S \in SUBSET FreshUsd
  PROVE  /\ IsFiniteSet(S) /\ ValueIn(S) \in Int /\ Cardinality(S) \in Nat
         /\ ValueIn(S) = SumFunctionOnSet([p \in FreshUsd |-> p.value], S)
<1>1. IsFiniteSet(S) /\ \A p \in S : p.value \in Int
  BY FreshTyping, FS_Subset
<1>2. ValueIn(S) = SumFunctionOnSet([p \in FreshUsd |-> p.value], S)
  <2> DEFINE f == [p \in S |-> p.value]
             g == [p \in FreshUsd |-> p.value]
  <2>1. \A p \in S : f[p] = g[p]
    OBVIOUS
  <2> HIDE DEF f, g
  <2>2. SumFunctionOnSet(f, S) = SumFunctionOnSet(g, S)
    BY <1>1, <2>1, SumEqual
  <2> QED
    BY <2>2 DEF ValueIn, f, g
<1> QED
  BY <1>1, <1>2, ValueInInt, FS_CardinalityType

\* Divided by any key, the values and the numbers of positions make those of all.
LEMMA PartsAddUp ==
  ASSUME OverviewTypeOK, NEW K, IsFiniteSet(K), NEW key, \A p \in FreshUsd : key[p] \in K,
         NEW part, \A k \in K : part[k] = {p \in FreshUsd : key[p] = k},
         NEW amount, amount = [k \in K |-> ValueIn(part[k])],
         NEW count, count = [k \in K |-> Cardinality(part[k])]
  PROVE  /\ \A k \in K : amount[k] \in Int /\ count[k] \in Int
         /\ SumFunctionOnSet(amount, K) = ValueIn(FreshUsd)
         /\ SumFunctionOnSet(count, K) = Cardinality(FreshUsd)
<1> DEFINE f == [p \in FreshUsd |-> p.value]
           one == [p \in FreshUsd |-> 1]
           of(k) == {p \in FreshUsd : key[p] = k}
<1>1. IsFiniteSet(FreshUsd) /\ \A p \in FreshUsd : f[p] \in Int /\ one[p] \in Int /\ one[p] = 1
  BY FreshTyping
<1>2. \A k \in K : ValueIn(part[k]) = SumFunctionOnSet(f, of(k))
  <2> SUFFICES ASSUME NEW k \in K PROVE ValueIn(part[k]) = SumFunctionOnSet(f, of(k))
    OBVIOUS
  <2>1. part[k] \in SUBSET FreshUsd /\ part[k] = of(k)
    OBVIOUS
  <2> HIDE DEF of
  <2> QED
    BY <2>1, PartTyping
<1>3. \A k \in K : Cardinality(part[k]) = SumFunctionOnSet(one, of(k))
  <2> SUFFICES ASSUME NEW k \in K PROVE Cardinality(part[k]) = SumFunctionOnSet(one, of(k))
    OBVIOUS
  <2>1. of(k) \in SUBSET FreshUsd /\ part[k] = of(k)
    OBVIOUS
  <2>2. IsFiniteSet(of(k)) /\ \A p \in of(k) : one[p] = 1
    BY <1>1, <2>1, FS_Subset
  <2> HIDE DEF of, one
  <2> QED
    BY <2>1, <2>2, SumOnes
<1>4. SumFunctionOnSet([k \in K |-> SumFunctionOnSet(f, of(k))], K) = SumFunctionOnSet(f, FreshUsd)
  <2> HIDE DEF f
  <2> QED
    BY <1>1, SumParts
<1>5. SumFunctionOnSet([k \in K |-> SumFunctionOnSet(one, of(k))], K)
        = SumFunctionOnSet(one, FreshUsd)
  <2> HIDE DEF one
  <2> QED
    BY <1>1, SumParts
<1>6. SumFunctionOnSet(one, FreshUsd) = Cardinality(FreshUsd)
  <2> HIDE DEF one
  <2> QED
    BY <1>1, SumOnes
<1>7. amount = [k \in K |-> SumFunctionOnSet(f, of(k))]
  <2> HIDE DEF f, of
  <2> QED
    BY <1>2
<1>8. count = [k \in K |-> SumFunctionOnSet(one, of(k))]
  <2> HIDE DEF one, of
  <2> QED
    BY <1>3
<1>9. ASSUME NEW k \in K PROVE amount[k] \in Int /\ count[k] \in Int
  <2>1. PICK S \in SUBSET FreshUsd : S = part[k]
    OBVIOUS
  <2>2. ValueIn(S) \in Int /\ Cardinality(S) \in Nat
    BY PartTyping
  <2> QED
    BY <2>1, <2>2
<1>10. SumFunctionOnSet(f, FreshUsd) = ValueIn(FreshUsd)
  BY DEF ValueIn
<1> HIDE DEF f, one, of
<1> QED
  BY <1>4, <1>5, <1>6, <1>7, <1>8, <1>9, <1>10

-----------------------------------------------------------------------------
(* Totals *)

AmountIn(S) == SumFunctionOnSet([s \in S |-> s.amount], S)
CountIn(S) == SumFunctionOnSet([s \in S |-> s.count], S)
ShareIn(S) == SumFunctionOnSet([s \in S |-> s.share], S)

\* Slices with different keys have the sum of their amounts and numbers.
LEMMA SlicesAddUp ==
  ASSUME NEW K, IsFiniteSet(K), NEW amount, NEW count,
         \A k \in K : amount[k] \in Int /\ count[k] \in Int,
         NEW S, S = {Slice(k, amount[k], count[k]) : k \in K}
  PROVE  /\ IsFiniteSet(S)
         /\ AmountIn(S) = SumFunctionOnSet(amount, K)
         /\ CountIn(S) = SumFunctionOnSet(count, K)
<1>1. PICK T : T = S
  OBVIOUS
<1>2. PICK slice : slice = [k \in K |-> Slice(k, amount[k], count[k])]
  OBVIOUS
<1>3. T = {slice[k] : k \in K}
  BY <1>1, <1>2
<1>4. IsFiniteSet(T)
  <2>1. IsFiniteSet({slice[k] : k \in K})
    BY ImageFinite
  <2> QED
    BY <1>3, <2>1
<1>5. PICK key : key = [s \in T |-> s.key]
  OBVIOUS
<1>6. \A k \in K : /\ slice[k] \in T /\ key[slice[k]] = k
                   /\ slice[k].amount = amount[k] /\ slice[k].count = count[k]
  BY <1>2, <1>3, <1>5 DEF Slice
<1>7. ASSUME NEW s \in T PROVE key[s] \in K /\ slice[key[s]] = s
  <2>1. PICK k \in K : s = slice[k]
    BY <1>3
  <2> QED
    BY <1>6, <2>1
<1>8. AmountIn(T) = SumFunctionOnSet(amount, K)
  <2> DEFINE f == [s \in T |-> s.amount]
  <2>1. \A k \in K : /\ slice[k] \in T /\ key[slice[k]] = k
                     /\ f[slice[k]] = amount[k] /\ amount[k] \in Int
    BY <1>6
  <2> HIDE DEF f
  <2>2. SumFunctionOnSet(f, T) = SumFunctionOnSet(amount, K)
    BY <1>7, <1>4, <2>1, SumKeyed
  <2> QED
    BY <2>2 DEF AmountIn, f
<1>9. CountIn(T) = SumFunctionOnSet(count, K)
  <2> DEFINE f == [s \in T |-> s.count]
  <2>1. \A k \in K : /\ slice[k] \in T /\ key[slice[k]] = k
                     /\ f[slice[k]] = count[k] /\ count[k] \in Int
    BY <1>6
  <2> HIDE DEF f
  <2>2. SumFunctionOnSet(f, T) = SumFunctionOnSet(count, K)
    BY <1>7, <1>4, <2>1, SumKeyed
  <2> QED
    BY <2>2 DEF CountIn, f
<1> QED
  BY <1>1, <1>8, <1>9, <1>4

\* The slices of a grouping divide the total and name every position once.
LEMMA GroupsAddUp ==
  ASSUME OverviewTypeOK, Denominator # 0, NEW by \in Groupings
  PROVE  /\ IsFiniteSet(GroupSlices(by))
         /\ AmountIn(GroupSlices(by)) = ValueIn(FreshUsd)
         /\ CountIn(GroupSlices(by)) = Cardinality(FreshUsd)
         /\ \A s \in GroupSlices(by) :
              s = Slice(s.key, ValueIn(Group(by, s.key)), Cardinality(Group(by, s.key)))
<1>1. PICK key : key = [p \in FreshUsd |-> Key(by, p)]
  OBVIOUS
<1>2. PICK K : K = {key[p] : p \in FreshUsd}
  OBVIOUS
<1>3. IsFiniteSet(K) /\ \A p \in FreshUsd : key[p] \in K
  BY <1>2, FreshTyping, ImageFinite
<1>4. K = {Key(by, p) : p \in FreshUsd}
  BY <1>1, <1>2
<1>5. PICK part : part = [k \in K |-> Group(by, k)]
  OBVIOUS
<1>6. \A k \in K : part[k] = {p \in FreshUsd : key[p] = k} /\ part[k] = Group(by, k)
  BY <1>1, <1>5 DEF Group
<1>7. PICK amount : amount = [k \in K |-> ValueIn(part[k])]
  OBVIOUS
<1>8. PICK count : count = [k \in K |-> Cardinality(part[k])]
  OBVIOUS
<1>9. /\ \A k \in K : amount[k] \in Int /\ count[k] \in Int
      /\ SumFunctionOnSet(amount, K) = ValueIn(FreshUsd)
      /\ SumFunctionOnSet(count, K) = Cardinality(FreshUsd)
  BY <1>3, <1>6, <1>7, <1>8, PartsAddUp
<1>12. GroupSlices(by) = {Slice(k, ValueIn(Group(by, k)), Cardinality(Group(by, k))) : k \in K}
  BY <1>4 DEF GroupSlices, Sum, ValueOf, ValueIn
<1>13. GroupSlices(by) = {Slice(k, amount[k], count[k]) : k \in K}
  BY <1>6, <1>7, <1>8, <1>12
<1>14. PICK S : S = GroupSlices(by)
  OBVIOUS
<1>15. IsFiniteSet(S) /\ AmountIn(S) = ValueIn(FreshUsd) /\ CountIn(S) = Cardinality(FreshUsd)
  BY <1>3, <1>9, <1>13, <1>14, SlicesAddUp
<1>16. \A s \in GroupSlices(by) :
         s = Slice(s.key, ValueIn(Group(by, s.key)), Cardinality(Group(by, s.key)))
  BY <1>12 DEF Slice
<1> QED
  BY <1>14, <1>15, <1>16

\* The accounts that are not stale contribute the total.
LEMMA ContributionsAddUp ==
  ASSUME OverviewTypeOK
  PROVE  LET fresh == Stored \ stale
             c == [a \in fresh |-> Contribution(a)]
         IN  /\ IsFiniteSet(fresh)
             /\ \A a \in fresh : c[a] \in Int /\ c[a] = Contribution(a)
             /\ SumFunctionOnSet(c, fresh) = ValueIn(FreshUsd)
<1>1. PICK K : K = Stored \ stale
  OBVIOUS
<1>2. IsFiniteSet(K)
  BY <1>1, StoredTyping, FS_Subset
<1>3. PICK key : key = [p \in FreshUsd |-> p.account]
  OBVIOUS
<1>4. \A p \in FreshUsd : key[p] \in K
  BY <1>1, <1>3, FreshTyping
<1>5. PICK part : part = [a \in K |-> Of(a, FreshUsd)]
  OBVIOUS
<1>6. \A a \in K : part[a] = {p \in FreshUsd : key[p] = a} /\ part[a] = Of(a, FreshUsd)
  BY <1>3, <1>5 DEF Of
<1>7. \A a \in K : Contribution(a) = ValueIn(part[a])
  BY <1>1, <1>6 DEF Contribution, Sum, ValueOf, ValueIn
<1>8. PICK c : c = [a \in K |-> ValueIn(part[a])]
  OBVIOUS
<1>9. PICK n : n = [a \in K |-> Cardinality(part[a])]
  OBVIOUS
<1>10. (\A a \in K : c[a] \in Int) /\ SumFunctionOnSet(c, K) = ValueIn(FreshUsd)
  BY <1>2, <1>4, <1>6, <1>8, <1>9, PartsAddUp
<1>11. c = [a \in K |-> Contribution(a)]
  BY <1>7, <1>8
<1> QED
  BY <1>1, <1>2, <1>10, <1>11

\* The slices of the accounts have the sum of what they contribute, where it is not
\* less than nothing.
LEMMA AccountsAddUp ==
  ASSUME OverviewTypeOK
  PROVE  /\ IsFiniteSet(AccountSlices)
         /\ \A s \in AccountSlices : /\ s = Slice(s.key, Contribution(s.key), s.count)
                                     /\ Contribution(s.key) \in Int
         /\ (\A a \in Stored \ stale : Contribution(a) >= 0) =>
              AmountIn(AccountSlices) = ValueIn(FreshUsd)
<1>1. PICK F : F = Stored \ stale
  OBVIOUS
<1>2. PICK c : c = [a \in F |-> Contribution(a)]
  OBVIOUS
<1>3. /\ IsFiniteSet(F) /\ \A a \in F : c[a] \in Int /\ c[a] = Contribution(a)
      /\ SumFunctionOnSet(c, F) = ValueIn(FreshUsd)
  BY <1>1, <1>2, ContributionsAddUp
<1>4. PICK K : K \in SUBSET F /\ K = {a \in F : Contribution(a) > 0}
  OBVIOUS
<1>5. PICK n : n = [a \in K |-> Cardinality(Of(a, FreshUsd))]
  OBVIOUS
<1>6. AccountSlices = {Slice(a, Contribution(a), Cardinality(Of(a, FreshUsd))) : a \in K}
  BY <1>1, <1>4 DEF AccountSlices
<1>7. AccountSlices = {Slice(a, c[a], n[a]) : a \in K}
  BY <1>3, <1>4, <1>5, <1>6
<1>8. IsFiniteSet(K) /\ \A a \in K : c[a] \in Int /\ n[a] \in Int
  <2>2. ASSUME NEW a \in K PROVE n[a] \in Int
    <3>1. PICK T \in SUBSET FreshUsd : T = Of(a, FreshUsd)
      BY DEF Of
    <3>2. Cardinality(T) \in Nat
      BY PartTyping
    <3> QED
      BY <1>5, <3>1, <3>2
  <2> QED
    BY <1>3, <1>4, <2>2, FS_Subset
<1>9. PICK S : S = AccountSlices
  OBVIOUS
<1>10. IsFiniteSet(S) /\ AmountIn(S) = SumFunctionOnSet(c, K)
  BY <1>7, <1>8, <1>9, SlicesAddUp
<1>11. ASSUME \A a \in F : Contribution(a) >= 0
       PROVE  SumFunctionOnSet(c, K) = SumFunctionOnSet(c, F)
  <2>1. \A a \in F \ K : c[a] = 0
    BY <1>3, <1>4, <1>11
  <2> QED
    BY <1>3, <1>4, <2>1, SumNonzero
<1>12. \A s \in AccountSlices : /\ s = Slice(s.key, Contribution(s.key), s.count)
                               /\ Contribution(s.key) \in Int
  BY <1>3, <1>4, <1>6 DEF Slice
<1> QED
  BY <1>1, <1>3, <1>9, <1>10, <1>11, <1>12

\* The slice of cash is the cash.
LEMMA CashAddsUp ==
  ASSUME OverviewTypeOK, Denominator # 0
  PROVE  CashUsd = AmountIn({s \in GroupSlices("security_type") : s.key = "cash"})
<1>1. FreshUsd # {}
  <2>1. FreshUsd = {} => Sum(ValueOf, FreshUsd) = 0
    BY SumEmpty DEF Sum
  <2> QED
    BY <2>1 DEF Denominator, TotalKnownUsd
<1>2. PICK cash : cash = Group("security_type", "cash")
  OBVIOUS
<1>3. cash = {p \in FreshUsd : p.class \in {"cash", "cash_equivalent"}}
  BY <1>2 DEF Group, Key, SecurityType
<1>4. CashUsd = ValueIn(cash)
  BY <1>1, <1>3 DEF CashUsd, Sum, ValueOf, ValueIn
<1>5. PICK S : S = {s \in GroupSlices("security_type") : s.key = "cash"}
  OBVIOUS
<1>6. "security_type" \in Groupings
  BY DEF Groupings
<1>7. CASE S = {}
  <2>1. cash = {}
    <3> SUFFICES ASSUME cash # {} PROVE FALSE
      OBVIOUS
    <3>1. PICK p \in FreshUsd : Key("security_type", p) = "cash"
      BY <1>2 DEF Group
    <3>2. Slice("cash", Sum(ValueOf, cash), Cardinality(cash)) \in GroupSlices("security_type")
      BY <1>2, <3>1 DEF GroupSlices
    <3>3. Slice("cash", Sum(ValueOf, cash), Cardinality(cash)).key = "cash"
      BY DEF Slice
    <3> QED
      BY <1>5, <1>7, <3>2, <3>3
  <2>2. ValueIn(cash) = 0 /\ AmountIn(S) = 0
    BY <1>7, <2>1, SumEmpty DEF ValueIn, AmountIn
  <2> QED
    BY <1>4, <1>5, <2>2
<1>8. CASE S # {}
  <2>1. PICK s \in S : TRUE
    BY <1>8
  <2>2. \A t \in S : /\ t.amount = ValueIn(cash) /\ t.count = Cardinality(cash)
                     /\ t.share = s.share /\ t.key = "cash"
                     /\ t = Slice("cash", ValueIn(cash), Cardinality(cash))
    <3>1. \A t \in S : t = Slice("cash", ValueIn(cash), Cardinality(cash))
      BY <1>2, <1>5, <1>6, GroupsAddUp
    <3> QED
      BY <2>1, <3>1 DEF Slice
  <2>3. S = {s} /\ s.amount = ValueIn(cash)
    BY <2>1, <2>2
  <2>4. ValueIn(cash) \in Int
    BY <1>3, PartTyping
  <2> DEFINE f == [t \in S |-> t.amount]
  <2>5. IsFiniteSet(S) /\ \A t \in S : f[t] \in Int
    BY <2>3, <2>4, FS_Singleton
  <2>6. f[s] = ValueIn(cash)
    BY <2>1, <2>3
  <2> HIDE DEF f
  <2>7. SumFunctionOnSet(f, S) = f[s] + SumFunctionOnSet(f, S \ {s})
    BY <2>1, <2>5, SumRemove
  <2>8. S \ {s} = {}
    BY <2>3
  <2>9. SumFunctionOnSet(f, S) = ValueIn(cash)
    BY <2>4, <2>6, <2>7, <2>8, SumEmpty
  <2> QED
    BY <1>4, <1>5, <2>9 DEF AmountIn, f
<1> QED
  BY <1>7, <1>8

\* The gain, its cost and what has no known cost make the value of all that counts.
LEMMA GainAddsUp ==
  ASSUME OverviewTypeOK, GainLoss # Missing
  PROVE  GainLoss + Sum(CostOf, GainLossPositions) + Sum(ValueOf, MissingCostBasis)
           = ValueIn(FreshUsd)
<1> DEFINE g == [p \in FreshUsd |-> p.value]
           c == [p \in GainLossPositions |-> p.cost]
<1>1. /\ MissingCostBasis \in SUBSET FreshUsd /\ GainLossPositions \in SUBSET FreshUsd
      /\ GainLossPositions = FreshUsd \ MissingCostBasis
  BY DEF MissingCostBasis, GainLossPositions
<1>2. /\ Sum(ValueOf, MissingCostBasis) = ValueIn(MissingCostBasis)
      /\ Sum(ValueOf, GainLossPositions) = ValueIn(GainLossPositions)
  BY DEF Sum, ValueOf, ValueIn
<1>3. ValueIn(FreshUsd) = ValueIn(GainLossPositions) + ValueIn(MissingCostBasis)
  <2>1. IsFiniteSet(FreshUsd) /\ \A p \in FreshUsd : g[p] \in Int
    BY FreshTyping
  <2>2. /\ ValueIn(FreshUsd) = SumFunctionOnSet(g, FreshUsd)
        /\ ValueIn(MissingCostBasis) = SumFunctionOnSet(g, MissingCostBasis)
        /\ ValueIn(GainLossPositions) = SumFunctionOnSet(g, GainLossPositions)
    BY <1>1, PartTyping DEF ValueIn
  <2> HIDE DEF g
  <2> QED
    BY <1>1, <2>1, <2>2, SumSplit
<1>4. Sum(CostOf, GainLossPositions) \in Int
  <2>1. \A p \in GainLossPositions : c[p] \in Int
    BY FreshTyping, PositionsTyping DEF GainLossPositions, MissingCostBasis
  <2>2. IsFiniteSet(GainLossPositions)
    BY <1>1, PartTyping
  <2> HIDE DEF c
  <2>3. SumFunctionOnSet(c, GainLossPositions) \in Int
    BY <2>1, <2>2, SumInt
  <2> QED
    BY <2>3 DEF Sum, CostOf, c
<1>5. GainLoss = ValueIn(GainLossPositions) - Sum(CostOf, GainLossPositions)
  BY <1>2 DEF GainLoss
<1>6. ValueIn(GainLossPositions) \in Int /\ ValueIn(MissingCostBasis) \in Int
  BY <1>1, PartTyping
<1> QED
  BY <1>2, <1>3, <1>4, <1>5, <1>6

LEMMA TotalsHold == OverviewTypeOK => TotalsAddUp
<1> SUFFICES ASSUME OverviewTypeOK, TotalKnownUsd # Missing PROVE
       /\ Sum(Contribution, Stored \ stale) = TotalKnownUsd
       /\ GainLoss # Missing =>
            GainLoss + Sum(CostOf, GainLossPositions) + Sum(ValueOf, MissingCostBasis)
              = TotalKnownUsd
       /\ TotalKnownUsd > 0 =>
            /\ \A slices \in Slices :
                 /\ Sum(Amount, slices) = TotalKnownUsd
                 /\ Sum(Count, slices) = Cardinality(FreshUsd)
            /\ CashUsd = Sum(Amount, {s \in GroupSlices("security_type") : s.key = "cash"})
       /\ (\A a \in Stored \ stale : Contribution(a) >= 0) =>
            Sum(Amount, AccountSlices) = TotalKnownUsd
  BY DEF TotalsAddUp
<1>1. TotalKnownUsd = ValueIn(FreshUsd)
  BY DEF TotalKnownUsd, Sum, ValueOf, ValueIn
<1>2. Sum(Contribution, Stored \ stale) = TotalKnownUsd
  BY <1>1, ContributionsAddUp DEF Sum
<1>3. ASSUME TotalKnownUsd > 0
      PROVE  /\ \A slices \in Slices :
                  /\ Sum(Amount, slices) = TotalKnownUsd
                  /\ Sum(Count, slices) = Cardinality(FreshUsd)
             /\ CashUsd = Sum(Amount, {s \in GroupSlices("security_type") : s.key = "cash"})
  <2>1. Denominator # 0
    <3>1. FreshUsd \in SUBSET FreshUsd
      OBVIOUS
    <3>2. TotalKnownUsd \in Int
      BY <1>1, <3>1, PartTyping
    <3> QED
      BY <1>3, <3>2 DEF Denominator
  <2>2. ASSUME NEW slices \in Slices
        PROVE  AmountIn(slices) = TotalKnownUsd /\ CountIn(slices) = Cardinality(FreshUsd)
    BY <1>1, <2>1, GroupsAddUp DEF Slices
  <2>3. \A slices \in Slices :
          /\ Sum(Amount, slices) = TotalKnownUsd
          /\ Sum(Count, slices) = Cardinality(FreshUsd)
    BY <2>2 DEF Sum, Amount, Count, AmountIn, CountIn
  <2>4. CashUsd = Sum(Amount, {s \in GroupSlices("security_type") : s.key = "cash"})
    BY <2>1, CashAddsUp DEF Sum, Amount, AmountIn
  <2> QED
    BY <2>3, <2>4
<1>4. GainLoss # Missing =>
        GainLoss + Sum(CostOf, GainLossPositions) + Sum(ValueOf, MissingCostBasis)
          = TotalKnownUsd
  BY <1>1, GainAddsUp
<1>5. ASSUME \A a \in Stored \ stale : Contribution(a) >= 0
      PROVE  Sum(Amount, AccountSlices) = TotalKnownUsd
  <2>1. AmountIn(AccountSlices) = TotalKnownUsd
    BY <1>1, <1>5, AccountsAddUp
  <2> QED
    BY <2>1 DEF Sum, Amount, AmountIn
<1> QED
  BY <1>2, <1>3, <1>4, <1>5

-----------------------------------------------------------------------------
(* Shares *)

\* The share of what is not negative is rounded to the nearest.
LEMMA ShareRounds ==
  ASSUME Denominator \in Int, Denominator > 0, NEW m \in Int, m >= 0
  PROVE  /\ Share(m) \in Int
         /\ 2 * Denominator * Share(m) - 2 * Unit * m \in -Denominator..Denominator
         /\ \A n \in Int : m <= n => Share(m) <= Share(n)
<1>1. PICK d \in Int : d = Denominator /\ d > 0
  OBVIOUS
<1>2. \A n \in Int : n >= 0 => Share(n) = (2 * (n * 10000) + d) \div (2 * d)
  <2>1. \A n \in Int : 2 * n * 10000 = 2 * (n * 10000)
    OBVIOUS
  <2> QED
    BY <1>1, <2>1 DEF Share, Unit
<1>3. PICK k \in Int : k = m * 10000
  OBVIOUS
<1>4. PICK q \in Int : q = (2 * k + d) \div (2 * d)
  BY <1>1, Rounding
<1>5. 2 * d * q - 2 * k <= d /\ 2 * d * q - 2 * k > - d
  BY <1>1, <1>4, Rounding
<1>6. 2 * d * q - 2 * (m * 10000) <= d /\ 2 * d * q - 2 * (m * 10000) > - d
  BY <1>3, <1>5
<1>7. 2 * d * q - 2 * 10000 * m \in -d..d
  BY <1>6
<1>8. ASSUME NEW n \in Int, m <= n PROVE Share(m) <= Share(n)
  <2>1. m * 10000 \in Int /\ n * 10000 \in Int /\ m * 10000 <= n * 10000 /\ n >= 0
    BY <1>8
  <2>2. (2 * (m * 10000) + d) \div (2 * d) <= (2 * (n * 10000) + d) \div (2 * d)
    BY <1>1, <2>1, RoundingGrows
  <2> QED
    BY <1>2, <2>1, <2>2
<1>9. Share(m) = q
  BY <1>3, <1>2, <1>4
<1> QED
  BY <1>1, <1>4, <1>7, <1>8, <1>9 DEF Unit

\* What the amounts of slices say of their shares.
LEMMA SlicesShare ==
  ASSUME Denominator \in Int, Denominator > 0, NEW S, IsFiniteSet(S),
         \A s \in S : s.amount \in Int /\ s.amount >= 0 /\ s.share = Share(s.amount),
         AmountIn(S) = Denominator
  PROVE  /\ 2 * (ShareIn(S) - Unit) \in -Cardinality(S)..Cardinality(S)
         /\ \A s, t \in S : s.amount <= t.amount => s.share <= t.share
<1> DEFINE f == [s \in S |-> s.amount]
           g == [s \in S |-> s.share]
<1>1. PICK d \in Int : d = Denominator /\ d > 0
  OBVIOUS
<1>2. PICK n \in Nat : n = Cardinality(S)
  BY FS_CardinalityType
<1>3. ASSUME NEW s \in S
      PROVE  f[s] \in Int /\ g[s] \in Int /\ 2 * d * g[s] - 2 * 10000 * f[s] \in -d..d
  BY <1>1, ShareRounds DEF Unit
<1>4. \A s, t \in S : s.amount <= t.amount => s.share <= t.share
  BY ShareRounds
<1>5. SumFunctionOnSet(f, S) = d
  BY <1>1 DEF AmountIn
<1> HIDE DEF f, g
<1>6. PICK q \in Int : q = SumFunctionOnSet(g, S)
  BY <1>3, SumInt
<1>7. 2 * d * q - 2 * 10000 * d \in -(d * n)..(d * n)
  <2>1. 2 * d * SumFunctionOnSet(g, S) - 2 * 10000 * SumFunctionOnSet(f, S)
          \in -(d * Cardinality(S))..(d * Cardinality(S))
    <3>1. PICK u \in Int : u = 10000
      OBVIOUS
    <3>2. \A s \in S : 2 * d * g[s] - 2 * u * f[s] \in -d..d
      BY <1>3, <3>1
    <3>3. 2 * d * SumFunctionOnSet(g, S) - 2 * u * SumFunctionOnSet(f, S)
            \in -(d * Cardinality(S))..(d * Cardinality(S))
      <4>1. \A s \in S : f[s] \in Int /\ g[s] \in Int
        BY <1>3
      <4> QED
        BY <3>2, <4>1, SumRounded, Zenon
    <3> QED
      BY <3>1, <3>3
  <2> QED
    BY <1>2, <1>5, <1>6, <2>1
<1>8. PICK e \in Int : e = 2 * (q - 10000)
  OBVIOUS
<1>9. d * e = 2 * d * q - 2 * 10000 * d
  BY <1>8
<1>10. d * e <= d * n /\ d * (-n) <= d * e
  BY <1>7, <1>9
<1>11. e <= n /\ -n <= e
  <2>1. e <= n
    BY <1>1, <1>10, Cancel
  <2>2. -n \in Int
    OBVIOUS
  <2>3. -n <= e
    BY <1>1, <1>10, <2>2, Cancel
  <2> QED
    BY <2>1, <2>3
<1>12. ShareIn(S) = q
  BY <1>6 DEF ShareIn, g
<1> QED
  BY <1>2, <1>4, <1>8, <1>11, <1>12 DEF Unit

LEMMA SharesHold == OverviewTypeOK => SharesAddUp
<1> SUFFICES ASSUME OverviewTypeOK, Denominator > 0,
                    NEW slices \in Slices \cup {AccountSlices},
                    \A s \in slices : s.amount >= 0, Sum(Amount, slices) = TotalKnownUsd
             PROVE  /\ 2 * (Sum(ShareOf, slices) - Unit)
                          \in -Cardinality(slices)..Cardinality(slices)
                    /\ \A s, t \in slices : s.amount <= t.amount => s.share <= t.share
  BY DEF SharesAddUp
<1>1. Denominator = TotalKnownUsd /\ Denominator # 0
  BY DEF Denominator
<1>2. Denominator \in Int
  <2>1. TotalKnownUsd # Missing
    BY DEF Denominator
  <2>2. TotalKnownUsd = ValueIn(FreshUsd)
    BY <2>1 DEF TotalKnownUsd, Sum, ValueOf, ValueIn
  <2>3. FreshUsd \in SUBSET FreshUsd
    OBVIOUS
  <2> QED
    BY <1>1, <2>2, <2>3, PartTyping
<1>3. IsFiniteSet(slices) /\ \A s \in slices : s.amount \in Int /\ s.share = Share(s.amount)
  <2>1. CASE slices = AccountSlices
    <3>1. ASSUME NEW s \in slices PROVE s.amount \in Int /\ s.share = Share(s.amount)
      <4>1. s = Slice(s.key, Contribution(s.key), s.count) /\ Contribution(s.key) \in Int
        BY <2>1, AccountsAddUp
      <4> QED
        BY <4>1 DEF Slice
    <3> QED
      BY <2>1, <3>1, AccountsAddUp
  <2>2. ASSUME NEW by \in Groupings, slices = GroupSlices(by)
        PROVE  IsFiniteSet(slices)
               /\ \A s \in slices : s.amount \in Int /\ s.share = Share(s.amount)
    <3>1. ASSUME NEW s \in slices PROVE s.amount \in Int /\ s.share = Share(s.amount)
      <4>1. PICK S : S = Group(by, s.key)
        OBVIOUS
      <4>2. S \in SUBSET FreshUsd
        BY <4>1 DEF Group
      <4>3. ValueIn(S) \in Int
        BY <4>2, PartTyping
      <4>4. s = Slice(s.key, ValueIn(S), Cardinality(S))
        BY <1>1, <2>2, <4>1, GroupsAddUp
      <4>5. s.amount = ValueIn(S)
        BY <4>4 DEF Slice
      <4>6. s.share = Share(ValueIn(S))
        BY <4>4 DEF Slice
      <4> QED
        BY <4>3, <4>5, <4>6
    <3>2. IsFiniteSet(GroupSlices(by))
      BY <1>1, GroupsAddUp
    <3> QED
      BY <2>2, <3>1, <3>2
  <2> QED
    BY <2>1, <2>2 DEF Slices
<1>4. AmountIn(slices) = Denominator
  BY <1>1 DEF AmountIn, Sum, Amount
<1>5. /\ 2 * (ShareIn(slices) - Unit) \in -Cardinality(slices)..Cardinality(slices)
      /\ \A s, t \in slices : s.amount <= t.amount => s.share <= t.share
  BY <1>2, <1>3, <1>4, SlicesShare
<1> QED
  BY <1>5 DEF ShareIn, Sum, ShareOf

-----------------------------------------------------------------------------
(* The history *)

\* What counts of an account whose currency is USD are the positions its value of the day
\* is made of.
LEMMA AccountValue ==
  ASSUME OverviewTypeOK, NEW a \in Stored \ stale, account[a].currency = "USD"
  PROVE  ValueIn(Of(a, FreshUsd)) = ValueIn(OfOwnCurrency(account[a]))
<1>1. PICK P : P = OfOwnCurrency(account[a])
  OBVIOUS
<1>2. PICK S : S = Of(a, FreshUsd)
  OBVIOUS
<1>3. account[a] \in Offers
  BY StoredTyping
<1>4. IsFiniteSet(P) /\ P \in SUBSET Position /\ \A p \in P : p.value \in Int
  BY <1>1, <1>3, OfferTyping
<1>5. IsFiniteSet(S)
  <2>1. S \in SUBSET FreshUsd
    BY <1>2 DEF Of
  <2> QED
    BY <2>1, PartTyping
<1> DEFINE plain(r) == [symbol |-> r.symbol, class |-> r.class, currency |-> r.currency,
                        value |-> r.value, cost |-> r.cost]
<1>6. \A p \in Position : plain(Row(a, p)) = p
  BY DEF Row, Position
<1>7. ASSUME NEW p \in P PROVE Row(a, p) \in S
  <2>1. p \in account[a].positions /\ p.value # Missing /\ p.currency = "USD"
    BY <1>1 DEF OfOwnCurrency
  <2>2. Row(a, p) \in Positions
    BY <2>1, PositionsTyping DEF RowsOf
  <2>3. Row(a, p).account = a /\ Row(a, p).currency = "USD" /\ Row(a, p).value # Missing
    BY <2>1 DEF Row
  <2>4. Row(a, p) \in FreshUsd
    BY <2>2, <2>3, FreshTyping
  <2> QED
    BY <1>2, <2>3, <2>4 DEF Of
<1>8. ASSUME NEW r \in S PROVE plain(r) \in P /\ Row(a, plain(r)) = r
  <2>1. r \in FreshUsd /\ r.account = a
    BY <1>2 DEF Of
  <2>2. r \in Positions /\ r.currency = "USD" /\ r.value \in Int
    BY <2>1, FreshTyping
  <2>3. PICK b \in Stored : r \in RowsOf(b)
    BY <2>2, PositionsTyping
  <2>4. PICK p \in account[b].positions : r = Row(b, p)
    BY <2>3 DEF RowsOf
  <2>5. b = a
    BY <2>1, <2>4 DEF Row
  <2>6. p \in Position
    BY <1>3, <2>4, <2>5, OfferTyping
  <2>7. plain(r) = p
    BY <1>6, <2>4, <2>5, <2>6
  <2>8. p.value # Missing /\ p.currency = "USD"
    BY <2>2, <2>4, OverviewAssumption DEF Row
  <2>9. p \in P
    BY <1>1, <2>4, <2>5, <2>8 DEF OfOwnCurrency
  <2> HIDE DEF plain
  <2> QED
    BY <2>4, <2>5, <2>7, <2>9
<1>9. PICK key : key = [r \in S |-> plain(r)]
  OBVIOUS
<1>10. PICK thing : thing = [p \in P |-> Row(a, p)]
  OBVIOUS
<1> DEFINE f == [r \in S |-> r.value]
           g == [p \in P |-> p.value]
<1>11. \A r \in S : key[r] \in P /\ thing[key[r]] = r
  <2> HIDE DEF plain
  <2> QED
    BY <1>8, <1>9, <1>10
<1>12. \A p \in P : thing[p] \in S /\ key[thing[p]] = p /\ f[thing[p]] = g[p] /\ g[p] \in Int
  <2> SUFFICES ASSUME NEW p \in P
               PROVE  thing[p] \in S /\ key[thing[p]] = p /\ f[thing[p]] = g[p] /\ g[p] \in Int
    OBVIOUS
  <2>1. thing[p] = Row(a, p) /\ thing[p] \in S
    BY <1>7, <1>10
  <2>2. key[thing[p]] = p
    BY <1>4, <1>6, <1>9, <2>1
  <2>3. f[thing[p]] = g[p]
    BY <2>1 DEF Row
  <2> QED
    BY <1>4, <2>1, <2>2, <2>3
<1> HIDE DEF f, g
<1>13. SumFunctionOnSet(f, S) = SumFunctionOnSet(g, P)
  BY <1>4, <1>5, <1>11, <1>12, SumKeyed
<1> QED
  BY <1>1, <1>2, <1>13 DEF ValueIn, f, g

LEMMA HistoryHolds == OverviewIInv => HistoryAgrees
<1> SUFFICES ASSUME OverviewIInv PROVE HistoryAgrees
  OBVIOUS
<1>1. OverviewTypeOK /\ Recorded
  BY DEF OverviewIInv
<1>2. \A d \in Today : SnapsOn(d) \in SUBSET Stored
  BY <1>1 DEF OverviewTypeOK, SnapsOn
<1>3. IsFiniteSet(Stored) /\ Cardinality(Stored) \in Nat
  BY <1>1, StoredTyping, FS_CardinalityType
<1>4. ASSUME NEW d \in Points, IsComplete(d), NEW a \in Stored
      PROVE  daily[a][d] # Missing /\ daily[a][d].currency = "USD"
  <2>1. d \in Today
    BY DEF Points
  <2>2. PICK S : S = SnapsOn(d)
    OBVIOUS
  <2>3. S \in SUBSET Stored
    BY <1>2, <2>1, <2>2
  <2>4. IsFiniteSet(S) /\ Cardinality(S) <= Cardinality(Stored)
    BY <1>3, <2>3, FS_Subset
  <2>5. Cardinality(S) \in Nat
    BY <2>4, FS_CardinalityType
  <2>6. Cardinality(S) = Cardinality(Stored)
    BY <1>3, <1>4, <2>2, <2>4, <2>5 DEF IsComplete
  <2>7. S = Stored
    BY <1>3, <2>3, <2>6, FS_Subset
  <2> QED
    BY <2>2, <2>7 DEF SnapsOn
<1>5. ASSUME refreshed = day, Stored # {}, \A a \in Stored : Countable(a)
      PROVE  day \in Points /\ IsComplete(day) /\ PointValue(day) = TotalKnownUsd
  <2>1. day \in Today
    BY <1>1 DEF OverviewTypeOK
  <2>2. ASSUME NEW a \in Stored
        PROVE  /\ a \in Stored \ stale /\ account[a].currency = "USD"
               /\ daily[a][day] = DailyRow(account[a]) /\ account[a] \in Offers
    <3>1. Countable(a)
      BY <1>5
    <3>2. a \notin stale /\ account[a].currency = "USD" /\ OfOwnCurrency(account[a]) # {}
      BY <3>1 DEF Countable
    <3>3. account[a] \in Offers
      BY <1>1, StoredTyping
    <3> QED
      BY <1>1, <1>5, <3>2, <3>3 DEF Recorded
  <2>3. ASSUME NEW a \in Stored
        PROVE  /\ daily[a][day] # Missing /\ daily[a][day].currency = "USD"
               /\ daily[a][day].value = ValueIn(OfOwnCurrency(account[a]))
    <3>1. PICK r : r = DailyRow(account[a])
      OBVIOUS
    <3>2. r \in DailyValue /\ r.value = ValueIn(OfOwnCurrency(account[a]))
      BY <2>2, <3>1, DailyRowTyping
    <3>3. r.currency = "USD"
      BY <2>2, <3>1 DEF DailyRow
    <3>4. r # Missing
      BY <3>2, OverviewAssumption
    <3> QED
      BY <2>2, <3>1, <3>2, <3>3, <3>4
  <2>4. SnapsOn(day) = Stored
    BY <1>2, <2>1, <2>3 DEF SnapsOn, Stored
  <2>5. day \in Points /\ IsComplete(day)
    BY <1>3, <1>5, <2>1, <2>4 DEF Points, IsComplete
  <2>6. Stored \ stale = Stored
    BY <2>2
  <2>7. TotalKnownUsd = ValueIn(FreshUsd)
    <3>1. ~ (Stored \subseteq stale)
      BY <1>5, <2>2
    <3> QED
      BY <3>1 DEF TotalKnownUsd, Sum, ValueOf, ValueIn
  <2> DEFINE c == [a \in Stored |-> Contribution(a)]
             v == [a \in Stored |-> daily[a][day].value]
  <2>8. SumFunctionOnSet(c, Stored) = ValueIn(FreshUsd)
    BY <1>1, <2>6, ContributionsAddUp
  <2>9. ASSUME NEW a \in Stored PROVE v[a] = c[a]
    <3>1. Contribution(a) = ValueIn(Of(a, FreshUsd))
      BY <2>2 DEF Contribution, Sum, ValueOf, ValueIn
    <3>2. ValueIn(Of(a, FreshUsd)) = ValueIn(OfOwnCurrency(account[a]))
      BY <1>1, <2>2, AccountValue
    <3> QED
      BY <2>3, <3>1, <3>2
  <2>10. SumFunctionOnSet(v, Stored) = SumFunctionOnSet(c, Stored)
    <3> HIDE DEF v, c
    <3> QED
      BY <1>3, <2>9, SumEqual
  <2>11. PointValue(day) = SumFunctionOnSet(v, Stored)
    BY <2>4 DEF PointValue, Sum
  <2> HIDE DEF v, c
  <2> QED
    BY <2>5, <2>7, <2>8, <2>10, <2>11
<1> QED
  BY <1>4, <1>5 DEF HistoryAgrees

-----------------------------------------------------------------------------
(* The overview of any accounts, answers and number of days *)

\* Every variable keeps its type, only stored accounts are stale or have daily values,
\* and none of them is of a day to come (_save_snapshot, _mark_failed_accounts).
THEOREM OverviewTypeCorrect == OverviewSpec => []OverviewTypeOK
<1>1. OverviewIInv => OverviewTypeOK
  BY DEF OverviewIInv
<1> QED
  BY <1>1, OverviewInvariance, PTL

\* The contributions of the accounts, the slices of every grouping, the cash and the
\* numbers of positions agree with the total (_calculate_contributions,
\* _build_allocation_group).
THEOREM Totals == OverviewSpec => []TotalsAddUp
<1>1. OverviewIInv => TotalsAddUp
  BY TotalsHold DEF OverviewIInv
<1> QED
  BY <1>1, OverviewInvariance, PTL

\* Rounded one by one, the shares of a grouping differ from one hundred percent by no
\* more than half a unit for each slice, and keep the order of the amounts.
THEOREM Shares == OverviewSpec => []SharesAddUp
<1>1. OverviewIInv => SharesAddUp
  BY SharesHold DEF OverviewIInv
<1> QED
  BY <1>1, OverviewInvariance, PTL

\* A point said to be complete is, and today's agrees with the total beside it
\* (_save_snapshot, _build_history).
THEOREM History == OverviewSpec => []HistoryAgrees
<1> QED
  BY HistoryHolds, OverviewInvariance, PTL
=============================================================================
