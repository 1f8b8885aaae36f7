----------------------------- MODULE ReadProofs -----------------------------
(***************************************************************************)
(* What readers are shown, for any number of rows and of requests in       *)
(* flight.  The unread count follows the log; the lists of bookings lack   *)
(* creations at most, and never step back; and every variable of the three *)
(* services has its type.                                                  *)
(***************************************************************************)
EXTENDS MCServices, FiniteSetTheorems, SequenceTheorems, WellFoundedInduction, TLAPS

\* Every request is one of four shapes.
LEMMA Shapes ==
  ASSUME TypeOK, NEW h \in Slots, InFlight(h)
  PROVE  /\ req[h] \in Request
         /\ At(h, "mark") => req[h].row \in Notifications
         /\ At(h, "set") => req[h].count \in Number
<1>1. req[h] \in Request
  BY DEF TypeOK, InFlight
<1> QED
  BY <1>1 DEF Request, At

LEMMA CountsAreNumbers ==
  ASSUME row \in [Notifications -> {None, "unread", "read"}]
  PROVE  Cardinality(Unread) \in Number
<1>1. Unread \subseteq Notifications
  BY DEF Unread
<1>2. IsFiniteSet(Unread) /\ Cardinality(Unread) <= Cardinality(Notifications)
  BY <1>1, FS_Subset, NotificationConstants
<1>3. Cardinality(Unread) \in Nat /\ Cardinality(Notifications) \in Nat
  BY <1>2, FS_CardinalityType, NotificationConstants
<1> QED
  BY <1>2, <1>3 DEF Number

LEMMA TypeStep == TypeOK /\ [Next]_vars => TypeOK'
<1> SUFFICES ASSUME TypeOK, [Next]_vars PROVE TypeOK'
  OBVIOUS
<1>r. [pc |-> "del"] \in Request /\ [pc |-> "count"] \in Request
  BY DEF Request
<1>1. ASSUME NEW h \in Slots, NEW n \in Notifications, Notify(h, n) PROVE TypeOK'
  BY <1>1, <1>r DEF Notify, Goto, TypeOK
<1>2. ASSUME NEW h \in Slots, NEW n \in Notifications, FindOwn(h, n) PROVE TypeOK'
  <2>1. [pc |-> "mark", row |-> n] \in Request
    BY DEF Request
  <2> QED
    BY <1>2, <2>1 DEF FindOwn, Goto, TypeOK
<1>3. ASSUME NEW h \in Slots, MarkAll(h) PROVE TypeOK'
  BY <1>3, <1>r DEF MarkAll, Goto, TypeOK
<1>4. ASSUME NEW h \in Slots, Miss(h) PROVE TypeOK'
  BY <1>4, <1>r DEF Miss, Goto, TypeOK
<1>5. ASSUME NEW h \in Slots, Mark(h) PROVE TypeOK'
  BY <1>5, <1>r DEF Mark, Goto, TypeOK
<1>6. ASSUME NEW h \in Slots, Delete(h) PROVE TypeOK'
  BY <1>6 DEF Delete, Goto, TypeOK
<1>7. ASSUME NEW h \in Slots, Count(h) PROVE TypeOK'
  <2>1. Cardinality(Unread) \in Number
    BY CountsAreNumbers DEF TypeOK
  <2>2. [pc |-> "set", count |-> Cardinality(Unread)] \in Request
    BY <2>1 DEF Request
  <2> QED
    BY <1>7, <2>2 DEF Count, Goto, TypeOK
<1>8. ASSUME NEW h \in Slots, Fill(h) PROVE TypeOK'
  <2>1. req[h].count \in Number
    BY <1>8, Shapes DEF Fill, At
  <2> QED
    BY <1>8, <2>1 DEF Fill, Goto, TypeOK
<1>9. ASSUME NEW h \in Slots, Fail(h) PROVE TypeOK'
  BY <1>9 DEF Fail, Goto, TypeOK
<1>10. CASE Expire
  BY <1>10 DEF Expire, TypeOK
<1>11. CASE UNCHANGED vars
  BY <1>11 DEF vars, TypeOK
<1> QED
  BY <1>1, <1>2, <1>3, <1>4, <1>5, <1>6, <1>7, <1>8, <1>9, <1>10, <1>11 DEF Next, Continue

\* The log, the entry and the requests of NotificationService have their types.
THEOREM TypeCorrect == Spec => []TypeOK
<1>1. Init => TypeOK
  BY DEF Init, TypeOK
<1> QED
  BY <1>1, TypeStep, PTL DEF Spec

-----------------------------------------------------------------------------
Right == unread \in {None, Cardinality(Unread)} \/ Pending # {}

\* A slot that now has a row or a mark to its name owes the deletion.
LEMMA Owes ==
  ASSUME TypeOK, NEW h \in Slots, Goto(h, [pc |-> "del"])
  PROVE  Right'
<1>1. req'[h] = [pc |-> "del"] /\ [pc |-> "del"] \in Request
  BY DEF Goto, TypeOK, Request
<1>2. At(h, "del")'
  BY <1>1, NotificationConstants DEF At, InFlight
<1> QED
  BY <1>2 DEF Right, Pending

\* What neither touches the log nor a pending deletion changes nothing.
LEMMA Stays ==
  ASSUME TypeOK, Right, row' = row, unread' \in {unread, None},
         NEW h \in Slots, ~At(h, "del"), NEW r, Goto(h, r)
  PROVE  Right'
<1>1. \A k \in Slots : At(k, "del") => At(k, "del")'
  BY DEF TypeOK, Goto, At, InFlight
<1>2. Unread' = Unread
  BY DEF Unread
<1> QED
  BY <1>1, <1>2 DEF Right, Pending

LEMMA RightStep == TypeOK /\ Right /\ Undisturbed /\ Undisturbed' /\ [Next]_vars => Right'
<1> SUFFICES ASSUME TypeOK, Right, Undisturbed, Undisturbed', [Next]_vars PROVE Right'
  OBVIOUS
<1>1. ASSUME NEW h \in Slots, NEW n \in Notifications, Notify(h, n) PROVE Right'
  BY <1>1, Owes DEF Notify
<1>2. ASSUME NEW h \in Slots, NEW n \in Notifications, FindOwn(h, n) PROVE Right'
  BY <1>2, Stays DEF FindOwn, At
<1>3. ASSUME NEW h \in Slots, MarkAll(h) PROVE Right'
  BY <1>3, Owes DEF MarkAll
<1>4. ASSUME NEW h \in Slots, Miss(h) PROVE Right'
  BY <1>4, Stays DEF Miss, At
<1>5. ASSUME NEW h \in Slots, Mark(h) PROVE Right'
  BY <1>5, Owes DEF Mark
<1>6. ASSUME NEW h \in Slots, Delete(h) PROVE Right'
  BY <1>6 DEF Delete, Right
<1>7. ASSUME NEW h \in Slots, Count(h) PROVE Right'
  BY <1>7, Stays DEF Count, At
<1>8. ASSUME NEW h \in Slots, Fill(h) PROVE Right'
  \* Nothing has changed since the count was taken.
  <2>1. h \in Counted
    BY <1>8 DEF Fill, Counted
  <2>2. req[h].count = Cardinality(Unread)
    BY <2>1 DEF Undisturbed
  <2>3. Unread' = Unread /\ unread' = Cardinality(Unread)
    BY <1>8, <2>2 DEF Fill, Unread
  <2> QED
    BY <2>3 DEF Right
<1>9. ASSUME NEW h \in Slots, Fail(h) PROVE Right'
  \* A deletion that fails would be remembered.
  <2>1. ~At(h, "del")
    BY <1>9 DEF Fail, Undisturbed
  <2> QED
    BY <1>9, <2>1, Stays DEF Fail
<1>10. CASE Expire
  BY <1>10 DEF Expire, Right
<1>11. CASE UNCHANGED vars
  BY <1>11 DEF vars, Right, Unread, Pending, At, InFlight
<1> QED
  BY <1>1, <1>2, <1>3, <1>4, <1>5, <1>6, <1>7, <1>8, <1>9, <1>10, <1>11 DEF Next, Continue

\* NotificationService: a wrong count is served only while a request still owes
\* the deletion, unless a reader was overtaken or a deletion has thrown.
THEOREM UnreadCountFollows == Spec => CountFollows
<1>1. Init => Right
  BY DEF Init, Right
<1>2. Right => unread \in {None, Cardinality(Unread)} \/ Pending # {}
  BY DEF Right
<1> QED
  BY <1>1, <1>2, TypeCorrect, RightStep, PTL DEF Spec, CountFollows

-----------------------------------------------------------------------------
\* Every nonempty set of naturals has a least element.
LEMMA LeastNat ==
  ASSUME NEW T, T \subseteq Nat, T # {}
  PROVE  \E n \in T : \A m \in T : n <= m
<1>1. PICK n \in T : \A m \in T : ~ (<<m, n>> \in OpToRel(<, Nat))
  BY NatLessThanWellFounded, WFMin, Zenon
<1>2. \A x, y \in Nat : x < y => <<x, y>> \in OpToRel(<, Nat)
  BY Zenon DEF OpToRel
<1>3. \A x, y \in Nat : ~ (x < y) => y <= x
  OBVIOUS
<1>4. \A m \in T : ~ (m < n)
  BY <1>1, <1>2, Zenon
<1> QED
  BY <1>3, <1>4

LEMMA FiniteInterval ==
  ASSUME NEW n \in Nat, NEW T \in SUBSET (1 .. n)
  PROVE  IsFiniteSet(T) /\ Cardinality(T) \in Nat
<1>1. IsFiniteSet(1 .. n)
  BY FS_Interval
<1> QED
  BY <1>1, FS_Subset, FS_CardinalityType

Ordered(T) ==
  \E s \in [1 .. Cardinality(T) -> T] : \A i, j \in DOMAIN s : i < j => s[i] > s[j]

\* Bookings in any number have an order from the newest to the oldest.
LEMMA OrderExists ==
  ASSUME NEW n \in Nat, NEW T \in SUBSET (1 .. n)
  PROVE  Ordered(T)
<1> DEFINE Bad == {m \in Nat : \E U \in SUBSET (1 .. m) : ~Ordered(U)}
<1>1. SUFFICES ASSUME Bad # {} PROVE FALSE
  OBVIOUS
<1>2. PICK m \in Bad : \A k \in Bad : m <= k
  BY <1>1, LeastNat
<1>3. PICK U \in SUBSET (1 .. m) : ~Ordered(U)
  OBVIOUS
<1>4. IsFiniteSet(U)
  BY FiniteInterval
<1>5. CASE m \notin U
  <2>1. m # 0
    <3>1. ASSUME m = 0 PROVE FALSE
      <4>0. U = {}
        BY <3>1
      <4>1. Cardinality(U) = 0
        BY <4>0, FS_EmptySet, Zenon
      <4>2. 1 .. Cardinality(U) = {}
        BY <4>1
      <4>3. PICK e : e = [i \in {} |-> 0]
        OBVIOUS
      <4>4. e \in [1 .. Cardinality(U) -> U] /\ DOMAIN e = {}
        BY <4>0, <4>2, <4>3
      <4> QED
        BY <1>3, <4>4 DEF Ordered
    <3> QED
      BY <3>1
  <2>2. U \in SUBSET (1 .. m - 1) /\ m - 1 \in Nat
    BY <1>5, <2>1
  <2> QED
    BY <1>2, <1>3, <2>2
<1>6. CASE m \in U
  <2>1. U \ {m} \in SUBSET (1 .. m - 1) /\ m - 1 \in Nat
    BY <1>6
  <2>2. Ordered(U \ {m})
    BY <1>2, <2>1
  <2>3. Cardinality(U \ {m}) = Cardinality(U) - 1 /\ Cardinality(U) \in Nat
        /\ Cardinality(U \ {m}) \in Nat
    BY <1>4, <1>6, FS_RemoveElement, FS_CardinalityType
  <2>4. PICK s \in [1 .. Cardinality(U) - 1 -> U \ {m}] :
          \A i, j \in DOMAIN s : i < j => s[i] > s[j]
    BY <2>2, <2>3 DEF Ordered
  <2>5. PICK t : t = [i \in 1 .. Cardinality(U) |-> IF i = 1 THEN m ELSE s[i - 1]]
    OBVIOUS
  <2>6. \A i \in 1 .. Cardinality(U) : i # 1 => s[i - 1] \in U /\ s[i - 1] < m
    <3>1. ASSUME NEW i \in 1 .. Cardinality(U), i # 1
          PROVE  s[i - 1] \in U /\ s[i - 1] < m
      <4>1. s[i - 1] \in U \ {m}
        BY <2>3, <2>4, <3>1
      <4>2. s[i - 1] \in 1 .. m - 1 /\ m \in Nat
        BY <2>1, <4>1
      <4> QED
        BY <4>1, <4>2
    <3> QED
      BY <3>1
  <2>7. t \in [1 .. Cardinality(U) -> U]
    BY <1>6, <2>5, <2>6
  <2>8. ASSUME NEW i \in DOMAIN t, NEW j \in DOMAIN t, i < j
        PROVE  t[i] > t[j]
    <3>1. i \in 1 .. Cardinality(U) /\ j \in 1 .. Cardinality(U) /\ j # 1
      BY <2>3, <2>5, <2>8
    <3>2. t[j] = s[j - 1]
      BY <2>5, <3>1
    <3>3. CASE i = 1
      BY <2>5, <2>6, <3>1, <3>2, <3>3
    <3>4. CASE i # 1
      <4>1. t[i] = s[i - 1]
        BY <2>5, <3>1, <3>4
      <4>2. i - 1 \in DOMAIN s /\ j - 1 \in DOMAIN s /\ i - 1 < j - 1
        BY <2>3, <2>4, <2>8, <3>1, <3>4
      <4> QED
        BY <2>4, <3>2, <4>1, <4>2
    <3> QED
      BY <3>3, <3>4
  <2> QED
    BY <1>3, <2>7, <2>8 DEF Ordered
<1> QED
  BY <1>5, <1>6

LEMMA NewestFirstType ==
  ASSUME NEW n \in Nat, NEW T \in SUBSET (1 .. n)
  PROVE  /\ B!NewestFirst(T) \in [1 .. Cardinality(T) -> T]
         /\ Cardinality(T) \in Nat
<1>1. Ordered(T) /\ Cardinality(T) \in Nat
  BY OrderExists, FiniteInterval
<1>2. B!Cardinality(T) = Cardinality(T)
  BY Zenon DEF B!Cardinality, Cardinality
<1> QED
  BY <1>1, <1>2 DEF Ordered, B!NewestFirst

LEMMA ListedType ==
  ASSUME NEW table \in Seq(B!Row), Len(table) <= MaxBookings, NEW filter
  PROVE  B!Listed(table, filter) \in Seq(B!Item)
<1> DEFINE T == {b \in DOMAIN table : filter \in {"all", table[b].status}}
<1>1. T \in SUBSET (1 .. Len(table)) /\ Len(table) \in Nat
  OBVIOUS
<1>2. PICK order : order = B!NewestFirst(T)
  OBVIOUS
<1>3. PICK n \in Nat : order \in [1 .. n -> T]
  BY <1>1, <1>2, NewestFirstType
<1>4. \A i \in 1 .. n : [id |-> order[i], row |-> table[order[i]]] \in B!Item
  <2>1. ASSUME NEW i \in 1 .. n
        PROVE  order[i] \in B!Booking /\ table[order[i]] \in B!Row
    <3>1. order[i] \in 1 .. Len(table)
      BY <1>1, <1>3
    <3> QED
      BY <3>1, ServicesConstants DEF B!Booking
  <2> QED
    BY <2>1 DEF B!Item
<1>5. B!Listed(table, filter) = [i \in 1 .. n |-> [id |-> order[i], row |-> table[order[i]]]]
  BY <1>2, <1>3 DEF B!Listed
<1> QED
  BY <1>4, <1>5

LEMMA PageIsPart ==
  ASSUME NEW S, NEW s \in Seq(S), NEW page \in Nat \ {0}, NEW limit \in Nat \ {0}
  PROVE  \E m \in Nat, n \in Nat : B!Page(s, page, limit) = SubSeq(s, m + 1, n) /\ n <= Len(s)
<1>1. PICK m \in Nat, k \in Nat : m = (page - 1) * limit /\ k = page * limit
  <2>1. page * limit \in Nat
    OBVIOUS
  <2>2. PICK n \in Nat : n = page - 1
    OBVIOUS
  <2>3. n * limit \in Nat
    OBVIOUS
  <2> QED
    BY <2>1, <2>2, <2>3, Zenon
<1>2. PICK n \in Nat : n = (IF k < Len(s) THEN k ELSE Len(s)) /\ n <= Len(s)
  OBVIOUS
<1>3. B!Page(s, page, limit) = SubSeq(s, m + 1, n)
  BY <1>1, <1>2, Zenon DEF B!Page
<1> QED
  BY <1>2, <1>3

\* A page holds items of the list.
LEMMA PageType ==
  ASSUME NEW S, NEW s \in Seq(S), NEW page \in Nat \ {0}, NEW limit \in Nat \ {0}
  PROVE  B!Page(s, page, limit) \in Seq(S)
<1>1. PICK m \in Nat, n \in Nat : B!Page(s, page, limit) = SubSeq(s, m + 1, n) /\ n <= Len(s)
  BY PageIsPart
<1>2. \A i \in m + 1 .. n : s[i] \in S
  BY <1>1
<1> QED
  BY <1>1, <1>2, SubSeqProperties

LEMMA PageItems ==
  ASSUME NEW S, NEW s \in Seq(S), NEW page \in Nat \ {0}, NEW limit \in Nat \ {0},
         NEW p, p = B!Page(s, page, limit), NEW i \in DOMAIN p
  PROVE  \E j \in DOMAIN s : p[i] = s[j]
<1>1. PICK m \in Nat, n \in Nat : p = SubSeq(s, m + 1, n) /\ n <= Len(s)
  BY PageIsPart
<1>2. \A k \in m + 1 .. n : s[k] \in S
  BY <1>1
<1>3. /\ p \in Seq(S) /\ Len(p) = (IF m + 1 <= n THEN n - (m + 1) + 1 ELSE 0)
      /\ \A k \in 1 .. n - (m + 1) + 1 : p[k] = s[m + 1 + k - 1]
  BY <1>1, <1>2, SubSeqProperties
<1>4. m + 1 <= n /\ i \in 1 .. n - m
  BY <1>3
<1>5. i \in 1 .. n - (m + 1) + 1 /\ m + 1 + i - 1 = m + i
  BY <1>4
<1>6. p[i] = s[m + 1 + i - 1]
  BY <1>3, <1>5
<1> QED
  BY <1>1, <1>4, <1>5, <1>6

\* The row that a reader of one booking asks for is there.
HasRow(table) == bKey.kind = "detail" => bKey.id \in DOMAIN table

LEMMA ResultType ==
  ASSUME bKey \in B!Key, NEW table \in Seq(B!Row), Len(table) <= MaxBookings,
         HasRow(table), NEW limit \in Limits
  PROVE  B!Result(table, limit) \in Seq(B!Item)
<1>1. CASE bKey.kind = "detail"
  <2>1. bKey.id \in B!Booking /\ table[bKey.id] \in B!Row
    BY <1>1, ServicesConstants DEF HasRow, B!Booking
  <2>2. [id |-> bKey.id, row |-> [table[bKey.id] EXCEPT !.reviewed = FALSE]] \in B!Item
    BY <2>1 DEF B!Item, B!Row
  <2> QED
    BY <1>1, <2>2 DEF B!Result
<1>2. CASE bKey.kind # "detail"
  <2>1. bKey.page \in Nat \ {0} /\ limit \in Nat \ {0}
    BY <1>2, ServicesConstants DEF B!Key
  <2>2. B!Listed(table, bKey.filter) \in Seq(B!Item)
    BY ListedType
  <2>3. B!Page(B!Listed(table, bKey.filter), bKey.page, limit) \in Seq(B!Item)
    BY <2>1, <2>2, PageType
  <2> QED
    BY <1>2, <2>3 DEF B!Result
<1> QED
  BY <1>1, <1>2

\* A handler that writes, up to the deletion of booking:<id>.
Writer == {"write", "find", "insert", "detail"}

\* Every request is one of the shapes of its await.
LEMMA BookingSlot ==
  ASSUME B!TypeOK, NEW h \in BookingSlots, B!InFlight(h)
  PROVE  /\ bReq[h] \in B!Request
         /\ bReq[h].pc = "read" => bReq[h].limit \in Limits
         /\ bReq[h].pc = "set" => bReq[h].answer \in B!Answer
         /\ bReq[h].pc \in Writer => bReq[h] \in [pc: Writer, id: B!Booking,
                                        op: B!StatusOp \cup {"review"}, was: B!Row]
         /\ bReq[h].pc \in {"scan", "drop"} => bReq[h].side \in B!Side
<1>1. bReq[h] \in B!Request
  BY DEF B!TypeOK, B!InFlight
<1> QED
  BY <1>1 DEF B!Request, Writer

LEMMA BookingShapes ==
  /\ \A limit \in Limits : [pc |-> "read", limit |-> limit] \in B!Request
  /\ \A answer \in B!Answer : [pc |-> "set", answer |-> answer] \in B!Request
  /\ [pc: Writer, id: B!Booking, op: B!StatusOp \cup {"review"}, was: B!Row] \subseteq B!Request
  /\ \A pc \in {"scan", "drop"}, side \in B!Side : [pc |-> pc, side |-> side] \in B!Request
BY DEF B!Request, Writer

LEMMA ShowType ==
  ASSUME bBest \in B!Row \cup {None}, NEW items \in Seq(B!Item), B!Show(items)
  PROVE  bBest' \in B!Row \cup {None}
<1>1. bBest' = bBest \/ \E i \in DOMAIN items : bBest' = items[i].row
  BY Zenon DEF B!Show
<1>2. ASSUME NEW i \in DOMAIN items PROVE items[i].row \in B!Row
  <2>1. items[i] \in B!Item
    BY <1>2
  <2> QED
    BY <2>1 DEF B!Item
<1> QED
  BY <1>1, <1>2

\* A reader of one booking was let through because the booking exists, and so was
\* a writer; what is written by an update is a status.
Fit(r) ==
  /\ r.pc = "read" => HasRow(bRows)
  /\ r.pc \in Writer => r.id \in DOMAIN bRows
  /\ r.pc = "write" => r.op \in B!StatusOp

Grounded == \A h \in BookingSlots : B!InFlight(h) => Fit(bReq[h])

\* A row that is not earlier than another.
UpTo(old, new) == old.updated <= new.updated /\ (old.reviewed => new.reviewed)

LEMMA NotBack ==
  ASSUME NEW old \in B!Row, NEW new \in B!Row, UpTo(old, new)
  PROVE  ~ B!Later(new, old)
BY DEF UpTo, B!Later, B!Row

LEMMA UpToIsAnOrder ==
  ASSUME NEW x \in B!Row, NEW y \in B!Row, NEW z \in B!Row
  PROVE  UpTo(x, x) /\ (UpTo(x, y) /\ UpTo(y, z) => UpTo(x, z))
BY DEF UpTo, B!Row

\* An update or a review writes a later row of a booking that exists, and then
\* owes the deletions; a second review throws.
LEMMA RowWritten ==
  ASSUME B!TypeOK, Grounded, NEW h \in BookingSlots, B!Write(h) \/ B!Insert(h)
  PROVE  /\ UNCHANGED <<bKey, bEntry, bBest, bBack, bCut>>
         /\ B!InFlight(h) /\ bReq[h].pc \in {"write", "insert"}
         /\ \/ bRows' = bRows /\ bReq' = [bReq EXCEPT ![h] = None]
            \/ \E b \in DOMAIN bRows, data \in B!Row, r \in B!Request :
                 /\ bRows' = [bRows EXCEPT ![b] = data] /\ UpTo(bRows[b], data)
                 /\ bReq' = [bReq EXCEPT ![h] = r] /\ r.pc = "detail" /\ r.id = b
<1>1. B!InFlight(h) /\ bReq[h].pc \in {"write", "insert"}
  BY DEF B!Write, B!Insert, B!At
<1>2. PICK b : b = bReq[h].id
  OBVIOUS
<1>3. /\ bReq[h] \in [pc: Writer, id: B!Booking, op: B!StatusOp \cup {"review"}, was: B!Row]
      /\ b \in DOMAIN bRows /\ (bReq[h].pc = "write" => bReq[h].op \in B!StatusOp)
  BY <1>1, <1>2, BookingSlot DEF Grounded, Fit, Writer
<1>4. bRows[b] \in B!Row
  BY <1>3 DEF B!TypeOK
<1>5. PICK r : r = [bReq[h] EXCEPT !.pc = "detail"]
  OBVIOUS
<1>6. r \in B!Request /\ r.pc = "detail" /\ r.id = b
  BY <1>2, <1>3, <1>5, BookingShapes DEF Writer
<1>7. CASE B!Write(h)
  <2>1. PICK op \in B!StatusOp : op = bReq[h].op
    BY <1>3, <1>7 DEF B!Write, B!At
  <2>2. PICK data : data = [bRows[b] EXCEPT !.status = B!targetStatus[op], !.updated = @ + 1]
    OBVIOUS
  <2>3. B!targetStatus[op] \in B!Status
    BY DEF B!targetStatus, B!StatusOp, B!Status
  <2>4. data \in B!Row /\ UpTo(bRows[b], data)
    <3>1. PICK n \in Nat : n = bRows[b].updated
      BY <1>4 DEF B!Row
    <3>a. PICK q \in B!Status : q = B!targetStatus[op]
      BY <2>3
    <3>b. data = [bRows[b] EXCEPT !.status = q, !.updated = n + 1]
      BY <2>2, <3>1, <3>a
    <3>2. /\ data.updated = n + 1 /\ data.reviewed = bRows[b].reviewed
          /\ data \in B!Row
      <4>1. PICK old \in B!Row : old = bRows[b]
        BY <1>4
      <4>2. data = [status |-> q, updated |-> n + 1, reviewed |-> old.reviewed]
        BY <3>b, <4>1 DEF B!Row
      <4>3. old.reviewed \in BOOLEAN /\ n + 1 \in Nat
        BY <4>1 DEF B!Row
      <4> QED
        BY <4>1, <4>2, <4>3 DEF B!Row
    <3>3. bRows[b].updated <= data.updated
      BY <3>1, <3>2
    <3> QED
      BY <3>2, <3>3 DEF UpTo
  <2>5. bRows' = [bRows EXCEPT ![b] = data]
    <3>1. bRows' = [bRows EXCEPT ![b].status = B!targetStatus[op], ![b].updated = @ + 1]
      BY <1>2, <1>7, <2>1 DEF B!Write
    <3> QED
      BY <1>3, <1>4, <2>2, <3>1 DEF B!TypeOK, B!Row
  <2>6. bReq' = [bReq EXCEPT ![h] = r]
    BY <1>5, <1>7 DEF B!Write
  <2> QED
    BY <1>1, <1>3, <1>6, <1>7, <2>4, <2>5, <2>6 DEF B!Write
<1>8. CASE B!Insert(h)
  <2>1. CASE bRows[b].reviewed
    BY <1>1, <1>2, <1>8, <2>1 DEF B!Insert, B!End
  <2>2. CASE ~ bRows[b].reviewed
    <3>1. PICK data : data = [bRows[b] EXCEPT !.reviewed = TRUE]
      OBVIOUS
    <3>2. data \in B!Row /\ UpTo(bRows[b], data)
      <4>1. data \in B!Row /\ data.updated = bRows[b].updated /\ data.reviewed
        BY <1>4, <3>1 DEF B!Row
      <4>2. bRows[b].updated <= data.updated
        BY <1>4, <4>1 DEF B!Row
      <4> QED
        BY <4>1, <4>2, Zenon DEF UpTo
    <3>3. bRows' = [bRows EXCEPT ![b] = data] /\ bReq' = [bReq EXCEPT ![h] = r]
      BY <1>2, <1>5, <1>8, <2>2, <3>1 DEF B!Insert
    <3> QED
      BY <1>1, <1>3, <1>6, <1>8, <3>2, <3>3 DEF B!Insert
  <2> QED
    BY <2>1, <2>2
<1> QED
  BY <1>7, <1>8

\* Validating a booking and looking for its review change no row.
LEMMA Validated ==
  ASSUME B!TypeOK, Grounded, NEW h \in BookingSlots,
         \/ B!FindReview(h)
         \/ \E b \in DOMAIN bRows, op \in Ops \cup {"review"} : B!Validate(h, b, op)
  PROVE  /\ UNCHANGED <<bKey, bRows, bEntry, bBest, bBack, bCut>>
         /\ B!InFlight(h) => bReq[h].pc = "find"
         /\ \E r \in B!Request \cup {None} :
              /\ bReq' = [bReq EXCEPT ![h] = r]
              /\ r # None => r.pc \in {"write", "find", "insert"} /\ Fit(r)
<1>1. CASE B!FindReview(h)
  <2>1. B!InFlight(h) /\ bReq[h].pc = "find"
    BY <1>1 DEF B!FindReview, B!At
  <2>2. PICK r : r = [bReq[h] EXCEPT !.pc = "insert"]
    OBVIOUS
  <2>3. /\ bReq[h] \in [pc: Writer, id: B!Booking, op: B!StatusOp \cup {"review"}, was: B!Row]
        /\ bReq[h].id \in DOMAIN bRows
    BY <2>1, BookingSlot DEF Grounded, Fit, Writer
  <2>4. r \in B!Request /\ r.pc = "insert" /\ Fit(r)
    BY <2>2, <2>3, BookingShapes DEF Writer, Fit
  <2>5. bReq' = [bReq EXCEPT ![h] = None] \/ bReq' = [bReq EXCEPT ![h] = r]
    BY <1>1, <2>2 DEF B!FindReview, B!End
  <2> QED
    BY <1>1, <2>1, <2>4, <2>5 DEF B!FindReview
<1>2. ASSUME NEW b \in DOMAIN bRows, NEW op \in Ops \cup {"review"}, B!Validate(h, b, op)
      PROVE  /\ UNCHANGED <<bKey, bRows, bEntry, bBest, bBack, bCut>>
             /\ ~ B!InFlight(h)
             /\ \E r \in B!Request \cup {None} :
                  /\ bReq' = [bReq EXCEPT ![h] = r]
                  /\ r # None => r.pc \in {"write", "find", "insert"} /\ Fit(r)
  <2>1. PICK r : r = [pc |-> IF op = "review" THEN "find" ELSE "write",
                      id |-> b, op |-> op, was |-> bRows[b]]
    OBVIOUS
  <2>2. b \in B!Booking /\ bRows[b] \in B!Row /\ op \in B!StatusOp \cup {"review"}
    BY ServicesConstants DEF B!TypeOK, B!Booking
  <2>3. /\ r.pc \in {"write", "find"} /\ r.id = b /\ r.op = op
        /\ r.pc = "write" => op # "review"
    BY <2>1
  <2>4. r \in B!Request /\ Fit(r)
    BY <2>1, <2>2, <2>3, BookingShapes DEF Writer, Fit
  <2>5. bReq' = [bReq EXCEPT ![h] = r]
    BY <1>2, <2>1 DEF B!Validate
  <2> QED
    BY <1>2, <2>3, <2>4, <2>5 DEF B!Validate
<1> QED
  BY <1>1, <1>2

LEMMA BookingTypeStep == B!TypeOK /\ Grounded /\ [B!Next]_bVars => B!TypeOK' /\ Grounded'
<1> SUFFICES ASSUME B!TypeOK, Grounded, [B!Next]_bVars PROVE B!TypeOK' /\ Grounded'
  OBVIOUS
<1>1. ASSUME NEW h \in BookingSlots, NEW r \in B!Request \cup {None},
             bReq' = [bReq EXCEPT ![h] = r], bKey' = bKey,
             r # None => Fit(r)',
             \A b \in DOMAIN bRows : b \in DOMAIN bRows',
             bRows' \in Seq(B!Row) /\ Len(bRows') <= MaxBookings,
             bEntry' \in B!Answer \cup {None}, bBest' \in B!Row \cup {None}
      PROVE  B!TypeOK' /\ Grounded'
  <2>1. B!TypeOK'
    BY <1>1 DEF B!TypeOK
  <2>2. ASSUME NEW k \in BookingSlots, B!InFlight(k)'
        PROVE  Fit(bReq[k])'
    <3>1. CASE k = h
      <4>1. bReq'[k] = r /\ r # None
        BY <1>1, <2>2, <3>1 DEF B!TypeOK, B!InFlight
      <4> QED
        BY <1>1, <4>1 DEF Fit
    <3>2. CASE k # h
      <4>1. PICK q : q = bReq[k] /\ q = bReq'[k] /\ Fit(q)
        BY <1>1, <2>2, <3>2 DEF B!TypeOK, B!InFlight, Grounded
      <4>2. Fit(q)'
        BY <1>1, <4>1 DEF Fit, HasRow
      <4> QED
        BY <4>1, <4>2 DEF Fit
    <3> QED
      BY <3>1, <3>2
  <2> QED
    BY <2>1, <2>2 DEF Grounded
<1>r. /\ bRows \in Seq(B!Row) /\ Len(bRows) <= MaxBookings
      /\ bEntry \in B!Answer \cup {None} /\ bBest \in B!Row \cup {None}
      /\ bKey \in B!Key
      /\ \A b \in DOMAIN bRows : b \in B!Booking /\ bRows[b] \in B!Row
  BY ServicesConstants DEF B!TypeOK, B!Booking
<1>2. ASSUME NEW h \in BookingSlots, B!Hit(h)
      PROVE  B!TypeOK' /\ Grounded'
  <2>1. bEntry.items \in Seq(B!Item)
    BY <1>2, <1>r DEF B!Hit, B!Answer
  <2>2. bBest' \in B!Row \cup {None}
    BY <1>2, <1>r, <2>1, ShowType DEF B!Hit
  <2> QED
    BY <1>2, <2>2 DEF B!Hit, B!TypeOK, Grounded, Fit, HasRow, B!InFlight
<1>3. ASSUME NEW h \in BookingSlots, NEW limit \in Limits, B!Miss(h, limit)
      PROVE  B!TypeOK' /\ Grounded'
  BY <1>1, <1>3, <1>r, BookingShapes DEF B!Miss, Fit, HasRow, Writer
<1>4. ASSUME NEW h \in BookingSlots, B!Read(h)
      PROVE  B!TypeOK' /\ Grounded'
  <2>1. bReq[h].limit \in Limits /\ HasRow(bRows)
    BY <1>4, BookingSlot DEF B!Read, B!At, Grounded, Fit
  <2>2. PICK answer : answer = [items |-> B!Result(bRows, bReq[h].limit),
                                limit |-> bReq[h].limit, known |-> Len(bRows)]
    OBVIOUS
  <2>3. B!Result(bRows, bReq[h].limit) \in Seq(B!Item)
    BY <1>r, <2>1, ResultType
  <2>4. Len(bRows) \in 0 .. MaxBookings
    BY <1>r, ServicesConstants
  <2>5. answer \in B!Answer
    BY <2>1, <2>2, <2>3, <2>4 DEF B!Answer
  <2>6. bReq' = [bReq EXCEPT ![h] = [pc |-> "set", answer |-> answer]]
    BY <1>4, <2>2 DEF B!Read
  <2> QED
    BY <1>1, <1>4, <1>r, <2>5, <2>6, BookingShapes DEF B!Read, Fit, Writer
<1>5. ASSUME NEW h \in BookingSlots, B!Fill(h)
      PROVE  B!TypeOK' /\ Grounded'
  <2>1. bReq[h].answer \in B!Answer
    BY <1>5, BookingSlot DEF B!Fill, B!At
  <2>2. bReq[h].answer.items \in Seq(B!Item)
    BY <2>1 DEF B!Answer
  <2>3. bBest' \in B!Row \cup {None}
    BY <1>5, <1>r, <2>2, ShowType DEF B!Fill
  <2> QED
    BY <1>1, <1>5, <1>r, <2>1, <2>3 DEF B!Fill, B!End
<1>6. CASE B!Create
  <2>1. [status |-> "PENDING", updated |-> 0, reviewed |-> FALSE] \in B!Row
    BY DEF B!Row, B!Status
  <2>2. /\ bRows' \in Seq(B!Row) /\ Len(bRows') = Len(bRows) + 1
        /\ \A b \in DOMAIN bRows : b \in DOMAIN bRows'
    BY <1>6, <1>r, <2>1 DEF B!Create
  <2>3. B!TypeOK'
    BY <1>6, <1>r, <2>2, ServicesConstants DEF B!Create, B!TypeOK
  <2> QED
    BY <1>6, <2>2, <2>3 DEF B!Create, Grounded, Fit, HasRow, B!InFlight
<1>7. ASSUME NEW h \in BookingSlots, B!Write(h) \/ B!Insert(h)
      PROVE  B!TypeOK' /\ Grounded'
  <2>1. UNCHANGED <<bKey, bEntry, bBest>>
    BY <1>7, RowWritten
  <2>2. CASE bRows' = bRows /\ bReq' = [bReq EXCEPT ![h] = None]
    BY <1>1, <1>r, <2>1, <2>2
  <2>3. ASSUME NEW b \in DOMAIN bRows, NEW data \in B!Row, NEW r \in B!Request,
               bRows' = [bRows EXCEPT ![b] = data],
               bReq' = [bReq EXCEPT ![h] = r], r.pc = "detail", r.id = b
        PROVE  B!TypeOK' /\ Grounded'
    <3>1. /\ bRows' \in Seq(B!Row) /\ Len(bRows') = Len(bRows)
          /\ \A c \in DOMAIN bRows : c \in DOMAIN bRows'
      BY <1>r, <2>3
    <3>2. Fit(r)'
      BY <2>3, <3>1 DEF Fit
    <3> QED
      BY <1>1, <1>r, <2>1, <2>3, <3>1, <3>2
  <2> QED
    BY <1>7, <2>2, <2>3, RowWritten
<1>8. ASSUME NEW h \in BookingSlots,
             \/ B!FindReview(h)
             \/ \E b \in DOMAIN bRows, op \in Ops \cup {"review"} : B!Validate(h, b, op)
      PROVE  B!TypeOK' /\ Grounded'
  <2>1. UNCHANGED <<bKey, bRows, bEntry, bBest>>
    BY <1>8, Validated
  <2>2. PICK r \in B!Request \cup {None} :
          bReq' = [bReq EXCEPT ![h] = r] /\ (r # None => Fit(r))
    BY <1>8, Validated
  <2>3. r # None => Fit(r)'
    BY <2>1, <2>2 DEF Fit, HasRow
  <2> QED
    BY <1>1, <1>r, <2>1, <2>2, <2>3
<1>9. ASSUME NEW h \in BookingSlots,
             B!DropDetail(h) \/ B!Scan(h) \/ B!DropList(h) \/ B!Fail(h)
      PROVE  B!TypeOK' /\ Grounded'
  <2>1. CASE B!DropDetail(h)
    <3>1. [pc |-> "scan", side |-> "customer"] \in B!Request
      BY BookingShapes DEF B!Side
    <3> QED
      BY <1>1, <1>r, <2>1, <3>1 DEF B!DropDetail, Fit, Writer
  <2>2. \A side : B!Onward(side) \in B!Request \cup {None}
    BY BookingShapes DEF B!Onward, B!Side
  <2>3. \A side : B!Onward(side) # None => B!Onward(side).pc = "scan"
    BY DEF B!Onward
  <2>4. CASE B!Scan(h)
    <3>1. bReq[h].side \in B!Side
      BY <2>4, BookingSlot DEF B!Scan, B!At
    <3>2. [pc |-> "drop", side |-> bReq[h].side] \in B!Request
      BY <3>1, BookingShapes
    <3>3. PICK r \in B!Request \cup {None} :
            bReq' = [bReq EXCEPT ![h] = r] /\ (r # None => r.pc \in {"scan", "drop"})
      <4>1. \/ bReq' = [bReq EXCEPT ![h] = [pc |-> "drop", side |-> bReq[h].side]]
            \/ bReq' = [bReq EXCEPT ![h] = B!Onward(bReq[h].side)]
        BY <2>4 DEF B!Scan
      <4> QED
        BY <2>2, <2>3, <3>2, <4>1
    <3> QED
      BY <1>1, <1>r, <2>4, <3>3 DEF B!Scan, Fit, Writer
  <2>5. CASE B!DropList(h)
    BY <1>1, <1>r, <2>2, <2>3, <2>5 DEF B!DropList, Fit, Writer
  <2>6. CASE B!Fail(h)
    BY <1>1, <1>r, <2>6 DEF B!Fail, B!End
  <2> QED
    BY <1>9, <2>1, <2>4, <2>5, <2>6
<1>10. CASE B!Expire
  BY <1>10, <1>r DEF B!Expire, B!TypeOK, Grounded, Fit, HasRow, B!InFlight
<1>11. CASE UNCHANGED bVars
  BY <1>11 DEF bVars, B!TypeOK, Grounded, Fit, HasRow, B!InFlight
<1> QED
  BY <1>2, <1>3, <1>4, <1>5, <1>6, <1>7, <1>8, <1>9, <1>10, <1>11 DEF B!Next, B!Continue

-----------------------------------------------------------------------------
\* An answer knows of no booking that is not there, and a row of the one asked for.
Known(n) == n \in 0 .. Len(bRows) /\ (bKey.kind = "detail" => bKey.id <= n)

AnswersKnown ==
  /\ bEntry # None => Known(bEntry.known)
  /\ \A h \in BookingSlots : B!At(h, "set") => Known(bReq[h].answer.known)

\* An entry shows the rows it knows of as they are, or somebody owes its deletion.
Current == bEntry # None => B!Matches(bEntry) \/ B!Owing # {}

LEMMA Prefix ==
  ASSUME NEW S, NEW s \in Seq(S), NEW n \in 0 .. Len(s)
  PROVE  /\ SubSeq(s, 1, n) \in Seq(S) /\ Len(SubSeq(s, 1, n)) = n
         /\ \A i \in 1 .. n : SubSeq(s, 1, n)[i] = s[i]
BY SubSeqProperties

\* What createBooking appends is not among the rows that an answer knows.
LEMMA CreateMatches ==
  ASSUME B!TypeOK, B!Create, NEW answer, Known(answer.known), B!Matches(answer)
  PROVE  B!Matches(answer)'
<1>1. PICK n : n = answer.known
  OBVIOUS
<1>2. PICK data : bRows' = Append(bRows, data)
  BY DEF B!Create
<1>3. bRows \in Seq(B!Row) /\ n \in 0 .. Len(bRows)
  BY <1>1 DEF B!TypeOK, Known
<1>4. SubSeq(bRows', 1, n) = SubSeq(bRows, 1, n)
  BY <1>2, <1>3
<1>5. bKey' = bKey
  BY DEF B!Create
<1> QED
  BY <1>1, <1>4, <1>5, Zenon DEF B!Matches, B!Result

\* What is written about another booking does not show in the answer about this one.
LEMMA OtherMatches ==
  ASSUME B!TypeOK, bKey' = bKey, bKey.kind = "detail", NEW b \in DOMAIN bRows, b # bKey.id,
         NEW data \in B!Row, bRows' = [bRows EXCEPT ![b] = data],
         NEW answer, Known(answer.known), B!Matches(answer)
  PROVE  B!Matches(answer)'
<1>1. PICK n, i : n = answer.known /\ i = bKey.id
  OBVIOUS
<1>2. /\ bRows \in Seq(B!Row) /\ bRows' \in Seq(B!Row) /\ Len(bRows') = Len(bRows)
      /\ n \in 0 .. Len(bRows) /\ i \in 1 .. n /\ i # b
  BY <1>1 DEF B!TypeOK, Known, B!Key, B!Booking
<1>3. SubSeq(bRows', 1, n)[i] = SubSeq(bRows, 1, n)[i]
  <2>1. bRows'[i] = bRows[i]
    BY <1>2
  <2>2. SubSeq(bRows, 1, n)[i] = bRows[i]
    BY <1>2, Prefix
  <2>3. SubSeq(bRows', 1, n)[i] = bRows'[i]
    BY <1>2, Prefix
  <2> QED
    BY <2>1, <2>2, <2>3
<1>4. B!Result(SubSeq(bRows, 1, n), answer.limit)' = B!Result(SubSeq(bRows, 1, n), answer.limit)
  BY <1>1, <1>3, Zenon DEF B!Result
<1> QED
  BY <1>1, <1>4 DEF B!Matches

\* A step that writes no row and stores no answer, and leaves the debt of its slot.
LEMMA CurrentSlot ==
  ASSUME B!TypeOK, Current, NEW h \in BookingSlots, NEW r,
         bReq' = [bReq EXCEPT ![h] = r], bEntry' \in {bEntry, None},
         UNCHANGED <<bKey, bRows>>, bEntry' # None /\ h \in B!Owing => h \in B!Owing'
  PROVE  Current'
<1>1. ASSUME bEntry' # None, NEW k \in B!Owing
      PROVE  k \in B!Owing'
  <2>1. CASE k # h
    BY <1>1, <2>1 DEF B!Owing, B!At, B!InFlight, B!TypeOK
  <2> QED
    BY <1>1, <2>1
<1>2. bEntry' # None => (B!Matches(bEntry) => B!Matches(bEntry)')
  BY DEF B!Matches, B!Result
<1> QED
  BY <1>1, <1>2 DEF Current

BookingInv == B!TypeOK /\ Grounded /\ AnswersKnown

\* A slot that does not become a reader's: who reads was reading.
LEMMA NotReading ==
  ASSUME B!TypeOK, NEW h \in BookingSlots, NEW r, bReq' = [bReq EXCEPT ![h] = r],
         r = None \/ r.pc \notin {"read", "set"}
  PROVE  \A k \in BookingSlots : B!At(k, "read")' \/ B!At(k, "set")' => bReq'[k] = bReq[k]
BY DEF B!TypeOK, B!At, B!InFlight

\* The steps of a handler that writes, and of the deletions after it.
WriterStep(h) ==
  \/ B!Write(h) \/ B!FindReview(h) \/ B!Insert(h)
  \/ \E b \in DOMAIN bRows, op \in Ops \cup {"review"} : B!Validate(h, b, op)
  \/ B!DropDetail(h) \/ B!Scan(h) \/ B!DropList(h) \/ B!Fail(h)

\* Its slot does not become a reader's, and it stores no answer.
LEMMA Writing ==
  ASSUME B!TypeOK, Grounded, NEW h \in BookingSlots, WriterStep(h)
  PROVE  /\ \A k \in BookingSlots : B!At(k, "read")' \/ B!At(k, "set")' => bReq'[k] = bReq[k]
         /\ bRows' \in Seq(B!Row) /\ Len(bRows') = Len(bRows)
         /\ bEntry' \in {bEntry, None} /\ UNCHANGED <<bKey, bBest, bBack>>
<1>r. bRows \in Seq(B!Row)
  BY DEF B!TypeOK
<1>1. CASE B!Write(h) \/ B!Insert(h)
  <2>1. PICK r : bReq' = [bReq EXCEPT ![h] = r] /\ (r = None \/ r.pc = "detail")
    BY <1>1, RowWritten
  <2>2. bRows' \in Seq(B!Row) /\ Len(bRows') = Len(bRows)
    BY <1>1, <1>r, RowWritten
  <2> QED
    BY <1>1, <2>1, <2>2, NotReading, RowWritten
<1>2. CASE B!FindReview(h)
           \/ \E b \in DOMAIN bRows, op \in Ops \cup {"review"} : B!Validate(h, b, op)
  <2>1. PICK r : bReq' = [bReq EXCEPT ![h] = r] /\ (r = None \/ r.pc \notin {"read", "set"})
    BY <1>2, Validated
  <2> QED
    BY <1>2, <1>r, <2>1, NotReading, Validated
<1>3. CASE B!DropDetail(h) \/ B!Scan(h) \/ B!DropList(h) \/ B!Fail(h)
  <2>1. \A side : B!Onward(side) = None \/ B!Onward(side).pc = "scan"
    BY DEF B!Onward
  <2>2. PICK r : bReq' = [bReq EXCEPT ![h] = r] /\ (r = None \/ r.pc \in {"scan", "drop"})
    <3>1. CASE B!Scan(h)
      <4>1. \/ bReq' = [bReq EXCEPT ![h] = [pc |-> "drop", side |-> bReq[h].side]]
            \/ bReq' = [bReq EXCEPT ![h] = B!Onward(bReq[h].side)]
        BY <3>1 DEF B!Scan
      <4> QED
        BY <2>1, <4>1
    <3>2. CASE B!DropDetail(h)
      <4>1. bReq' = [bReq EXCEPT ![h] = [pc |-> "scan", side |-> "customer"]]
        BY <3>2 DEF B!DropDetail
      <4>2. [pc |-> "scan", side |-> "customer"].pc = "scan"
        OBVIOUS
      <4> QED
        BY <4>1, <4>2
    <3>3. CASE B!DropList(h)
      BY <2>1, <3>3 DEF B!DropList
    <3>4. CASE B!Fail(h)
      BY <3>4 DEF B!Fail, B!End
    <3> QED
      BY <1>3, <3>1, <3>2, <3>3, <3>4
  <2>3. bEntry' \in {bEntry, None} /\ UNCHANGED <<bKey, bBest, bBack, bRows>>
    BY <1>3 DEF B!DropDetail, B!Scan, B!DropList, B!Fail
  <2> QED
    BY <1>r, <2>2, <2>3, NotReading
<1> QED
  BY <1>1, <1>2, <1>3 DEF WriterStep

LEMMA KnownStep == BookingInv /\ [B!Next]_bVars => AnswersKnown'
<1> SUFFICES ASSUME BookingInv, [B!Next]_bVars PROVE AnswersKnown'
  OBVIOUS
<1>1. B!TypeOK /\ Grounded /\ AnswersKnown /\ bRows \in Seq(B!Row)
  BY DEF BookingInv, B!TypeOK
\* Most steps keep the rows, or add to them, and store nothing new.
<1>2. ASSUME bKey' = bKey, Len(bRows') \in Nat, Len(bRows) <= Len(bRows'),
             bEntry' \in {bEntry, None},
             \A k \in BookingSlots : B!At(k, "set")' => bReq'[k] = bReq[k]
      PROVE  AnswersKnown'
  <2>1. \A n : Known(n) => Known(n)'
    BY <1>1, <1>2 DEF Known
  <2> QED
    BY <1>1, <1>2, <2>1 DEF AnswersKnown, B!At, B!InFlight
<1>3. ASSUME NEW h \in BookingSlots, NEW limit \in Limits, B!Miss(h, limit)
      PROVE  AnswersKnown'
  BY <1>1, <1>2, <1>3 DEF B!Miss, B!TypeOK, B!At, B!InFlight
<1>4. ASSUME NEW h \in BookingSlots, B!Read(h)
      PROVE  AnswersKnown'
  <2>1. PICK answer : answer = [items |-> B!Result(bRows, bReq[h].limit),
                                limit |-> bReq[h].limit, known |-> Len(bRows)]
    OBVIOUS
  <2>2. bReq'[h] = [pc |-> "set", answer |-> answer]
        /\ \A k \in BookingSlots : k # h => bReq'[k] = bReq[k]
    BY <1>1, <1>4, <2>1 DEF B!Read, B!TypeOK
  <2>3. Known(answer.known)
    <3>1. answer.known = Len(bRows) /\ Len(bRows) \in Nat
      BY <1>1, <2>1
    <3> QED
      BY <1>1, <1>4, <3>1 DEF Known, B!Read, B!At, B!InFlight, Grounded, Fit, HasRow
  <2>4. \A n : Known(n) => Known(n)'
    BY <1>4 DEF B!Read, Known
  <2> QED
    BY <1>1, <1>4, <2>2, <2>3, <2>4 DEF AnswersKnown, B!Read, B!At, B!InFlight
<1>5. ASSUME NEW h \in BookingSlots, B!Fill(h)
      PROVE  AnswersKnown'
  <2>1. \A n : Known(n) => Known(n)'
    BY <1>5 DEF B!Fill, Known
  <2>2. \A k \in BookingSlots : B!At(k, "set")' => bReq'[k] = bReq[k]
    BY <1>1, <1>5, NotReading DEF B!Fill, B!End
  <2> QED
    BY <1>1, <1>5, <2>1, <2>2 DEF AnswersKnown, B!Fill, B!At, B!InFlight
<1>6. CASE B!Create
  BY <1>1, <1>2, <1>6 DEF B!Create
<1>7. ASSUME NEW h \in BookingSlots, WriterStep(h)
      PROVE  AnswersKnown'
  <2>1. /\ bKey' = bKey /\ bEntry' \in {bEntry, None}
        /\ bRows' \in Seq(B!Row) /\ Len(bRows') = Len(bRows)
        /\ \A k \in BookingSlots : B!At(k, "set")' => bReq'[k] = bReq[k]
    BY <1>1, <1>7, Writing
  <2> QED
    BY <1>1, <1>2, <2>1
<1>8. CASE UNCHANGED bVars \/ B!Expire \/ \E h \in BookingSlots : B!Hit(h)
  BY <1>1, <1>2, <1>8 DEF bVars, B!Expire, B!Hit
<1> QED
  BY <1>3, <1>4, <1>5, <1>6, <1>7, <1>8 DEF B!Next, B!Continue, WriterStep

LEMMA CurrentStep ==
  /\ BookingInv /\ Current /\ B!Undisturbed /\ B!Undisturbed' /\ [B!Next]_bVars
  => Current'
<1> SUFFICES ASSUME BookingInv, Current, B!Undisturbed, B!Undisturbed', [B!Next]_bVars
             PROVE  Current'
  OBVIOUS
<1>1. B!TypeOK /\ Grounded /\ AnswersKnown
  BY DEF BookingInv
<1>2. ASSUME NEW h \in BookingSlots, B!Fill(h)
      PROVE  Current'
  \* No row was written since the reader's query.
  <2>1. B!Matches(bReq[h].answer)
    BY <1>2 DEF B!Fill, B!Undisturbed
  <2>2. B!Matches(bEntry)'
    BY <1>2, <2>1 DEF B!Fill, B!Matches, B!Result
  <2> QED
    BY <2>2 DEF Current
<1>3. CASE B!Create
  <2>1. bEntry' = bEntry /\ B!Owing' = B!Owing
    BY <1>3 DEF B!Create, B!Owing, B!At, B!InFlight
  <2> QED
    BY <1>1, <1>3, <2>1, CreateMatches DEF Current, AnswersKnown, B!Matches
<1>4. ASSUME NEW h \in BookingSlots, NEW b \in DOMAIN bRows, NEW data \in B!Row,
             bRows' = [bRows EXCEPT ![b] = data], bReq[h].pc \in {"write", "insert"},
             NEW r \in B!Request, r.pc = "detail", r.id = b,
             bReq' = [bReq EXCEPT ![h] = r], UNCHANGED <<bKey, bEntry>>
      PROVE  Current'
  <2>1. bReq'[h] = r /\ \A k \in BookingSlots : k # h => bReq'[k] = bReq[k]
    BY <1>1, <1>4 DEF B!TypeOK
  <2>2. bReq'[h] # None
    BY <2>1, ServicesConstants
  <2>3. CASE bKey.kind # "detail" \/ bKey.id = b
    <3>1. h \in B!Owing'
      BY <1>4, <2>1, <2>2, <2>3 DEF B!Owing, B!At, B!InFlight
    <3> QED
      BY <3>1 DEF Current
  <2>4. CASE bKey.kind = "detail" /\ bKey.id # b
    <3>1. ASSUME NEW k \in B!Owing
          PROVE  k \in B!Owing'
      <4>1. k # h /\ bReq'[k] = bReq[k]
        BY <1>4, <2>1, <3>1 DEF B!Owing, B!At
      <4> QED
        BY <1>4, <3>1, <4>1 DEF B!Owing, B!At, B!InFlight
    <3>2. bEntry # None /\ B!Matches(bEntry) => B!Matches(bEntry)'
      <4>1. ASSUME NEW answer, Known(answer.known), B!Matches(answer)
            PROVE  B!Matches(answer)'
        BY <1>1, <1>4, <2>4, <4>1, OtherMatches
      <4> QED
        BY <1>1, <1>4, <4>1 DEF AnswersKnown, B!Matches
    <3> QED
      BY <1>4, <3>1, <3>2 DEF Current
  <2> QED
    BY <2>3, <2>4
<1>5. ASSUME NEW h \in BookingSlots, B!Write(h) \/ B!Insert(h)
      PROVE  Current'
  <2>1. UNCHANGED <<bKey, bEntry>> /\ bReq[h].pc \in {"write", "insert"}
    BY <1>1, <1>5, RowWritten
  <2>2. CASE bRows' = bRows /\ bReq' = [bReq EXCEPT ![h] = None]
    <3>1. h \notin B!Owing
      BY <2>1 DEF B!Owing, B!At
    <3> QED
      BY <1>1, <2>1, <2>2, <3>1, CurrentSlot
  <2> QED
    BY <1>1, <1>4, <1>5, <2>1, <2>2, RowWritten
<1>v. ASSUME NEW h \in BookingSlots,
             \/ B!FindReview(h)
             \/ \E b \in DOMAIN bRows, op \in Ops \cup {"review"} : B!Validate(h, b, op)
      PROVE  Current'
  <2>1. UNCHANGED <<bKey, bRows, bEntry>> /\ \E r : bReq' = [bReq EXCEPT ![h] = r]
    BY <1>1, <1>v, Validated
  <2>2. h \notin B!Owing
    BY <1>1, <1>v, Validated DEF B!Owing, B!At
  <2> QED
    BY <1>1, <2>1, <2>2, CurrentSlot
<1>6. ASSUME NEW h \in BookingSlots, B!DropDetail(h)
      PROVE  Current'
  <2>1. /\ bReq' = [bReq EXCEPT ![h] = [pc |-> "scan", side |-> "customer"]]
        /\ bEntry' \in {bEntry, None} /\ UNCHANGED <<bKey, bRows>>
    BY <1>6 DEF B!DropDetail
  <2>2. ASSUME bEntry' # None, h \in B!Owing
        PROVE  h \in B!Owing'
    <3>1. bKey.kind # "detail"
      BY <1>6, <2>2 DEF B!DropDetail, B!Owing
    <3>2. [pc |-> "scan", side |-> "customer"] # None
      BY BookingShapes, ServicesConstants DEF B!Side
    <3>3. bReq'[h] = [pc |-> "scan", side |-> "customer"]
      BY <1>1, <2>1 DEF B!TypeOK
    <3> QED
      BY <2>1, <3>1, <3>2, <3>3 DEF B!Owing, B!At, B!InFlight
  <2> QED
    BY <1>1, <2>1, <2>2, CurrentSlot
<1>7. ASSUME NEW h \in BookingSlots, B!Scan(h)
      PROVE  Current'
  <2>0. PICK side \in B!Side : side = bReq[h].side
    BY <1>1, <1>7, BookingSlot DEF B!Scan, B!At
  <2>1. PICK r :
          /\ bReq' = [bReq EXCEPT ![h] = r]
          /\ \/ r = [pc |-> "drop", side |-> side]
             \/ /\ r = B!Onward(side)
                /\ bEntry = None \/ bKey.kind # "list" \/ bKey.side # side
    BY <1>7, <2>0 DEF B!Scan
  <2>2. ASSUME bEntry' # None, h \in B!Owing
        PROVE  h \in B!Owing'
    <3>1. bKey.kind = "list" /\ side \in {"customer", bKey.side} /\ bKey.side \in B!Side
      BY <1>1, <1>7, <2>0, <2>1, <2>2 DEF B!Scan, B!Owing, B!At, B!TypeOK, B!Key
    <3>2. r \in {[pc |-> "drop", side |-> side], [pc |-> "scan", side |-> "provider"]}
          /\ r.pc \in {"scan", "drop"} /\ r.side \in {"customer", bKey.side}
      BY <1>7, <2>1, <2>2, <3>1 DEF B!Scan, B!Onward, B!Side
    <3>3. r # None
      BY <3>2, BookingShapes, ServicesConstants DEF B!Side
    <3>4. bReq'[h] = r /\ bKey' = bKey
      BY <1>1, <1>7, <2>1 DEF B!Scan, B!TypeOK
    <3> QED
      BY <3>1, <3>2, <3>3, <3>4 DEF B!Owing, B!At, B!InFlight
  <2> QED
    BY <1>1, <1>7, <2>1, <2>2, CurrentSlot DEF B!Scan
<1>8. ASSUME NEW h \in BookingSlots, B!DropList(h)
      PROVE  Current'
  BY <1>8 DEF B!DropList, Current
<1>9. ASSUME NEW h \in BookingSlots, B!Fail(h)
      PROVE  Current'
  \* A deletion that fails would be remembered.
  <2>1. h \notin B!Owing
    BY <1>9 DEF B!Fail, B!Undisturbed, B!Owing, B!At
  <2> QED
    BY <1>1, <1>9, <2>1, CurrentSlot DEF B!Fail, B!End
<1>10. ASSUME NEW h \in BookingSlots, B!Read(h) \/ \E limit \in Limits : B!Miss(h, limit)
       PROVE  Current'
  <2>1. h \notin B!Owing
    BY <1>10 DEF B!Read, B!Miss, B!Owing, B!At
  <2> QED
    BY <1>1, <1>10, <2>1, CurrentSlot DEF B!Read, B!Miss
<1>11. CASE UNCHANGED bVars \/ B!Expire \/ \E h \in BookingSlots : B!Hit(h)
  BY <1>11
     DEF bVars, B!Expire, B!Hit, Current, B!Owing, B!At, B!InFlight, B!Matches, B!Result
<1> QED
  BY <1>2, <1>3, <1>5, <1>v, <1>6, <1>7, <1>8, <1>9, <1>10, <1>11 DEF B!Next, B!Continue

LEMMA ServicesSteps ==
  [ServicesNext]_<<area, vars, bVars, pVars>> => [Next]_vars /\ [B!Next]_bVars /\ [P!Next]_pVars
BY DEF ServicesNext, vars, bVars, pVars

LEMMA BookingInvariance == ServicesSpec => []BookingInv
<1>1. ServicesInit => BookingInv
  BY ServicesConstants
     DEF ServicesInit, B!Init, BookingInv, B!TypeOK, Grounded, AnswersKnown, B!At, B!InFlight
<1>2. BookingInv /\ [B!Next]_bVars => BookingInv'
  BY BookingTypeStep, KnownStep DEF BookingInv
<1> QED
  BY <1>1, <1>2, ServicesSteps, PTL DEF ServicesSpec

\* BookingService.invalidateBookingCaches: whatever handlers overlap, an outdated
\* status or review is served only while one of them still owes the deletion of
\* the entry, unless a reader was overtaken or an invalidation cut short; an
\* entry may otherwise lack only bookings created since it was filled.
THEOREM OutdatedOnlyWhileOwed == ServicesSpec => OnlyCreationsMissing
<1>1. ServicesInit => Current
  BY DEF ServicesInit, B!Init, Current
<1>2. Current => (bEntry # None => B!Matches(bEntry) \/ B!Owing # {})
  BY DEF Current
<1> QED
  BY <1>1, <1>2, ServicesSteps, BookingInvariance, CurrentStep, PTL
     DEF ServicesSpec, OnlyCreationsMissing, B!OnlyCreationsMissing

-----------------------------------------------------------------------------
\* Every client wants something.
LEMMA WishType ==
  ASSUME NEW w \in P!Wishes
  PROVE  w \in Seq(Types) /\ Len(w) > 0
<1>1. P!Cardinality(Types) \in Nat
  <2>1. P!Cardinality(Types) = Cardinality(Types)
    BY Zenon DEF P!Cardinality, Cardinality
  <2> QED
    BY <2>1, FS_CardinalityType, ServicesConstants
<1>2. PICK m \in 0 .. P!Cardinality(Types) : w \in [1 .. m -> Types] /\ w # <<>>
  BY DEF P!Wishes, P!SeqOf
<1>3. m \in Nat
  BY <1>1
<1>4. w \in Seq(Types)
  BY <1>2, <1>3
<1> QED
  BY <1>2, <1>4

\* The row that a request gets is added to its answer.
LEMMA PushType ==
  ASSUME P!TypeOK, NEW c \in Clients, pReq[c] # None, NEW data \in Clients, P!Push(c, data)
  PROVE  /\ pReq' \in [Clients -> P!Request \cup {None}]
         /\ \A d \in Clients : pReq'[d] # None => Len(pReq'[d].got) < Len(pWish[d])
         /\ pAnswer' \in [Clients -> Seq(Clients) \cup {None}]
<1>1. /\ pReq[c] \in P!Request /\ pReq[c].got \in Seq(Clients)
      /\ Len(pReq[c].got) < Len(pWish[c]) /\ pWish[c] \in Seq(Types)
  BY WishType DEF P!TypeOK, P!Request
<1>2. PICK got \in Seq(Clients) :
        got = Append(pReq[c].got, data) /\ Len(got) = Len(pReq[c].got) + 1
  <2>1. PICK before \in Seq(Clients) : before = pReq[c].got
    BY <1>1
  <2>2. Append(before, data) \in Seq(Clients) /\ Len(Append(before, data)) = Len(before) + 1
    BY <2>1
  <2> QED
    BY <2>1, <2>2
<1>3. CASE Len(got) = Len(pWish[c])
  BY <1>2, <1>3 DEF P!Push, P!TypeOK
<1>4. CASE Len(got) # Len(pWish[c])
  <2>1. [pc |-> "find", got |-> got] \in P!Request /\ Len(got) < Len(pWish[c])
    BY <1>1, <1>2, <1>4 DEF P!Request
  <2>2. pReq' = [pReq EXCEPT ![c] = [pc |-> "find", got |-> got]] /\ pAnswer' = pAnswer
    BY <1>2, <1>4 DEF P!Push
  <2> QED
    BY <2>1, <2>2 DEF P!TypeOK
<1> QED
  BY <1>3, <1>4

LEMMA ProfileTypeStep == P!TypeOK /\ [P!Next]_pVars => P!TypeOK'
<1> SUFFICES ASSUME P!TypeOK, [P!Next]_pVars PROVE P!TypeOK'
  OBVIOUS
<1>1. ASSUME NEW c \in Clients, P!Send(c)
      PROVE  P!TypeOK'
  <2>1. [pc |-> "user", got |-> <<>>] \in P!Request
    BY DEF P!Request
  <2>2. Len(pWish[c]) > 0
    BY WishType DEF P!TypeOK
  <2> QED
    BY <1>1, <2>1, <2>2 DEF P!Send, P!TypeOK
<1>2. ASSUME NEW c \in Clients, NEW pc \in {"user", "find", "create"}, pReq[c] # None,
             pReq' = [pReq EXCEPT ![c].pc = pc], UNCHANGED <<pProfile, pWish, pAnswer, pFaults>>
      PROVE  P!TypeOK'
  <2>1. pReq[c] \in P!Request
    BY <1>2 DEF P!TypeOK
  <2>2. PICK r \in P!Request : pReq' = [pReq EXCEPT ![c] = r] /\ r.got = pReq[c].got
    <3>1. PICK r : r = [pReq[c] EXCEPT !.pc = pc]
      OBVIOUS
    <3>2. r \in P!Request /\ r.got = pReq[c].got
      BY <2>1, <3>1 DEF P!Request
    <3>3. pReq' = [pReq EXCEPT ![c] = r]
      BY <1>2, <3>1
    <3> QED
      BY <3>2, <3>3
  <2> QED
    BY <1>2, <2>2 DEF P!TypeOK
<1>3. ASSUME NEW c \in Clients, P!FindUser(c)
      PROVE  P!TypeOK'
  BY <1>2, <1>3 DEF P!FindUser, P!At
<1>4. ASSUME NEW c \in Clients, P!Find(c)
      PROVE  P!TypeOK'
  <2>1. P!Next1(c) \in Types
    <3>1. pReq[c].got \in Seq(Clients) /\ Len(pReq[c].got) < Len(pWish[c])
          /\ pWish[c] \in Seq(Types)
      BY <1>4, WishType DEF P!Find, P!At, P!TypeOK, P!Request
    <3> QED
      BY <3>1 DEF P!Next1
  <2>2. CASE pProfile[P!Next1(c)] # None
    <3>1. PICK data \in Clients : data = pProfile[P!Next1(c)]
      BY <2>1, <2>2 DEF P!TypeOK
    <3>2. P!Push(c, data) /\ pReq[c] # None /\ UNCHANGED <<pProfile, pWish, pFaults>>
      BY <1>4, <2>2, <3>1 DEF P!Find, P!At
    <3> QED
      BY <3>2, PushType DEF P!TypeOK
  <2>3. CASE pProfile[P!Next1(c)] = None
    BY <1>2, <1>4, <2>3 DEF P!Find, P!At
  <2> QED
    BY <2>2, <2>3
<1>5. ASSUME NEW c \in Clients, P!Create(c)
      PROVE  P!TypeOK'
  <2>1. CASE pProfile[P!Next1(c)] = None
    <3>1. /\ P!Push(c, c) /\ pReq[c] # None /\ UNCHANGED <<pWish, pFaults>>
          /\ pProfile' \in [Types -> Clients \cup {None}]
      BY <1>5, <2>1 DEF P!Create, P!At, P!TypeOK
    <3> QED
      BY <3>1, PushType DEF P!TypeOK
  <2>2. CASE pProfile[P!Next1(c)] # None
    BY <1>5, <2>2 DEF P!Create, P!TypeOK
  <2> QED
    BY <2>1, <2>2
<1>6. ASSUME NEW c \in Clients, P!Fail(c)
      PROVE  P!TypeOK'
  BY <1>6, ServicesConstants DEF P!Fail, P!TypeOK
<1>7. CASE UNCHANGED pVars
  BY <1>7 DEF pVars, P!TypeOK
<1> QED
  BY <1>1, <1>3, <1>4, <1>5, <1>6, <1>7 DEF P!Next, P!Continue

\* The rows, Redis entries and requests of the notification log, of the cached
\* reads of bookings and of the creation of profiles have their types.
THEOREM ServicesTypes == ServicesSpec => []ServicesTypeOK
<1>1. ServicesInit => TypeOK
  BY DEF ServicesInit, Init, TypeOK
<1>2. ServicesInit => P!TypeOK
  BY ServicesConstants DEF ServicesInit, P!Init, P!TypeOK
<1>3. BookingInv /\ TypeOK /\ P!TypeOK => ServicesTypeOK
  BY DEF BookingInv, ServicesTypeOK
<1> QED
  BY <1>1, <1>2, <1>3, TypeStep, ProfileTypeStep, BookingInvariance, ServicesSteps, PTL
     DEF ServicesSpec

-----------------------------------------------------------------------------
\* A row as readers of the watched key see it.
View(data) == IF bKey.kind = "detail" THEN [data EXCEPT !.reviewed = FALSE] ELSE data

\* All that an answer shows of the first booking is one row, not before the last
\* one shown, nor after the booking's.
Between(items) ==
  \A i \in DOMAIN items : items[i].id = 1 =>
    /\ Len(bRows) > 0 /\ UpTo(items[i].row, View(bRows[1]))
    /\ bBest # None => UpTo(bBest, items[i].row)
    /\ \A j \in DOMAIN items : items[j].id = 1 => items[j].row = items[i].row

StepInv ==
  /\ B!Readers # {} => bEntry = None
  /\ bEntry # None => Between(bEntry.items)
  /\ \A h \in BookingSlots : B!At(h, "set") => Between(bReq[h].answer.items)
  /\ bBest # None => Len(bRows) > 0 /\ UpTo(bBest, View(bRows[1]))
  /\ ~bBack

LEMMA OnlyReader ==
  ASSUME B!OneReader, NEW h \in B!Readers, NEW k \in B!Readers
  PROVE  h = k
<1>1. IsFiniteSet(B!Readers)
  BY FS_Subset, ServicesConstants DEF B!Readers
<1>2. B!Cardinality(B!Readers) = Cardinality(B!Readers)
  BY Zenon DEF B!Cardinality, Cardinality
<1>3. Cardinality(B!Readers) <= 1
  BY <1>2 DEF B!OneReader
<1>4. ASSUME h # k
      PROVE  FALSE
  <2>1. {h, k} \in SUBSET B!Readers
    OBVIOUS
  <2>2. IsFiniteSet({h}) /\ Cardinality({h}) = 1
    BY FS_Singleton
  <2>3. Cardinality({h} \cup {k}) = 2
    BY <1>4, <2>2, FS_AddElement
  <2>4. Cardinality({h, k}) <= Cardinality(B!Readers)
    BY <1>1, <2>1, FS_Subset
  <2>5. {h} \cup {k} = {h, k}
    OBVIOUS
  <2>6. Cardinality({h, k}) = 2 /\ Cardinality(B!Readers) \in Nat
    BY <1>1, <2>3, <2>5, FS_CardinalityType
  <2> QED
    BY <1>3, <2>4, <2>6
<1> QED
  BY <1>4

LEMMA ListedRows ==
  ASSUME NEW table \in Seq(B!Row), NEW filter,
         NEW i \in DOMAIN B!Listed(table, filter), B!Listed(table, filter)[i].id = 1
  PROVE  Len(table) > 0 /\ B!Listed(table, filter)[i].row = table[1]
<1> DEFINE T == {b \in DOMAIN table : filter \in {"all", table[b].status}}
<1>1. T \in SUBSET (1 .. Len(table)) /\ Len(table) \in Nat
  OBVIOUS
<1>2. PICK order : order = B!NewestFirst(T)
  OBVIOUS
<1>3. PICK n \in Nat : order \in [1 .. n -> T]
  BY <1>1, <1>2, NewestFirstType
<1>4. B!Listed(table, filter) = [k \in 1 .. n |-> [id |-> order[k], row |-> table[order[k]]]]
  BY <1>2, <1>3 DEF B!Listed
<1>5. order[i] = 1 /\ B!Listed(table, filter)[i].row = table[1] /\ order[i] \in T
  BY <1>3, <1>4
<1> QED
  BY <1>1, <1>5

LEMMA ResultRows ==
  ASSUME bKey \in B!Key, NEW table \in Seq(B!Row), Len(table) <= MaxBookings,
         HasRow(table), NEW limit \in Limits,
         NEW i \in DOMAIN B!Result(table, limit), B!Result(table, limit)[i].id = 1
  PROVE  Len(table) > 0 /\ B!Result(table, limit)[i].row = View(table[1])
<1>1. CASE bKey.kind = "detail"
  <2>1. /\ i = 1
        /\ B!Result(table, limit)[i] =
             [id |-> bKey.id, row |-> [table[bKey.id] EXCEPT !.reviewed = FALSE]]
    <3>1. PICK item : item = [id |-> bKey.id, row |-> [table[bKey.id] EXCEPT !.reviewed = FALSE]]
      OBVIOUS
    <3>2. B!Result(table, limit) = <<item>>
      BY <1>1, <3>1 DEF B!Result
    <3>3. DOMAIN <<item>> = {1} /\ <<item>>[1] = item
      OBVIOUS
    <3>4. i \in DOMAIN <<item>>
      BY <3>2, Zenon
    <3>5. i = 1
      BY <3>3, <3>4
    <3> QED
      BY <3>1, <3>2, <3>3, <3>5
  <2>2. bKey.id = 1
    BY <2>1
  <2> QED
    BY <1>1, <2>1, <2>2 DEF View, HasRow
<1>2. CASE bKey.kind # "detail"
  <2>1. bKey.page \in Nat \ {0} /\ limit \in Nat \ {0}
    BY <1>2, ServicesConstants DEF B!Key
  <2>2. PICK list \in Seq(B!Item) : list = B!Listed(table, bKey.filter)
    BY ListedType
  <2>3. B!Result(table, limit) = B!Page(list, bKey.page, limit)
    BY <1>2, <2>2 DEF B!Result
  <2>4. PICK j \in DOMAIN list : B!Result(table, limit)[i] = list[j]
    <3>1. PICK p : p = B!Result(table, limit)
      OBVIOUS
    <3>2. i \in DOMAIN p
      BY <3>1, Zenon
    <3>3. p = B!Page(list, bKey.page, limit)
      BY <2>3, <3>1
    <3>4. \E j \in DOMAIN list : p[i] = list[j]
      BY <2>1, <3>2, <3>3, PageItems
    <3> QED
      BY <3>1, <3>4
  <2> QED
    BY <1>2, <2>2, <2>4, ListedRows DEF View
<1> QED
  BY <1>1, <1>2

\* What lies between the last row shown and the booking's may be shown.
LEMMA ShowBetween ==
  ASSUME bBest \in B!Row \cup {None}, NEW items \in Seq(B!Item), Between(items), B!Show(items)
  PROVE  /\ ~bBack => ~bBack'
         /\ bBest' = bBest
            \/ \E i \in DOMAIN items :
                 items[i].id = 1 /\ bBest' = items[i].row /\ bBest' \in B!Row
<1>1. ASSUME NEW i \in DOMAIN items, items[i].id = 1, bBest # None
      PROVE  ~ B!Later(items[i].row, bBest)
  <2>1. items[i] \in B!Item
    BY <1>1
  <2> QED
    BY <1>1, <2>1, NotBack DEF Between, B!Item
<1>2. ~bBack => ~bBack'
  BY <1>1, Zenon DEF B!Show
<1>3. bBest' = bBest \/ \E i \in DOMAIN items : items[i].id = 1 /\ bBest' = items[i].row
  BY Zenon DEF B!Show
<1>4. ASSUME NEW i \in DOMAIN items
      PROVE  items[i].row \in B!Row
  <2>1. items[i] \in B!Item
    BY <1>4
  <2> QED
    BY <2>1 DEF B!Item
<1> QED
  BY <1>2, <1>3, <1>4

LEMMA BetweenKept ==
  ASSUME UNCHANGED <<bKey, bRows, bBest>>, NEW items, Between(items)
  PROVE  Between(items)'
<1>1. View(bRows[1])' = View(bRows[1])
  BY DEF View
<1> QED
  BY <1>1 DEF Between

\* A step after which who reads was reading, and what is shown may still be shown.
LEMMA StepQuiet ==
  ASSUME BookingInv, StepInv, UNCHANGED <<bKey, bBest, bBack>>, bEntry' \in {bEntry, None},
         \A k \in BookingSlots : B!At(k, "read")' \/ B!At(k, "set")' => bReq'[k] = bReq[k],
         bRows' \in Seq(B!Row), Len(bRows) <= Len(bRows'),
         Len(bRows) > 0 => UpTo(View(bRows[1]), View(bRows'[1]))
  PROVE  StepInv'
<1>1. B!TypeOK /\ bRows \in Seq(B!Row) /\ bBest \in B!Row \cup {None}
  BY DEF BookingInv, B!TypeOK
<1>2. \A x \in B!Row : View(x) \in B!Row /\ View(x)' = View(x)
  BY DEF View, B!Row
<1>3. ASSUME NEW x \in B!Row, Len(bRows) > 0, UpTo(x, View(bRows[1]))
      PROVE  Len(bRows') > 0 /\ UpTo(x, View(bRows[1]))'
  <2>1. Len(bRows') > 0 /\ bRows[1] \in B!Row /\ bRows'[1] \in B!Row
    BY <1>1, <1>3
  <2>2. UpTo(x, View(bRows'[1]))
    BY <1>2, <1>3, <2>1, UpToIsAnOrder
  <2> QED
    BY <1>2, <2>1, <2>2 DEF View
<1>4. ASSUME NEW items \in Seq(B!Item), Between(items)
      PROVE  Between(items)'
  <2>1. \A i \in DOMAIN items : items[i].row \in B!Row
    <3>1. \A i \in DOMAIN items : items[i] \in B!Item
      OBVIOUS
    <3> QED
      BY <3>1 DEF B!Item
  <2> QED
    BY <1>3, <1>4, <2>1 DEF Between
<1>5. bEntry # None => bEntry.items \in Seq(B!Item)
  BY <1>1 DEF B!TypeOK, B!Answer
<1>6. \A k \in BookingSlots : B!At(k, "set") => bReq[k].answer.items \in Seq(B!Item)
  BY <1>1, BookingSlot DEF B!At, B!Answer
<1>7. \A k \in BookingSlots : B!At(k, "set")' => B!At(k, "set") /\ bReq'[k] = bReq[k]
  BY DEF B!At, B!InFlight
<1>8. B!Readers' # {} => B!Readers # {}
  BY DEF B!Readers, B!At, B!InFlight
<1> QED
  BY <1>1, <1>3, <1>4, <1>5, <1>6, <1>7, <1>8 DEF StepInv

LEMMA StepStep ==
  BookingInv /\ StepInv /\ B!OneReader /\ [B!Next]_bVars => StepInv'
<1> SUFFICES ASSUME BookingInv, StepInv, B!OneReader, [B!Next]_bVars PROVE StepInv'
  OBVIOUS
<1>1. /\ B!TypeOK /\ Grounded
      /\ bKey \in B!Key /\ bRows \in Seq(B!Row) /\ bBest \in B!Row \cup {None}
      /\ Len(bRows) <= MaxBookings
      /\ \A b \in DOMAIN bRows : bRows[b] \in B!Row
  BY DEF BookingInv, B!TypeOK
<1>2. \A x \in B!Row : View(x) \in B!Row /\ UpTo(View(x), View(x)) /\ UpTo(x, x)
  BY UpToIsAnOrder DEF View, B!Row
\* A reader is shown what lies between, and that is what was shown last.
<1>3. ASSUME NEW items \in Seq(B!Item), Between(items), B!Show(items),
             UNCHANGED <<bKey, bRows>>, B!Readers' = {}, bEntry'.items = items
      PROVE  StepInv'
  <2>1. CASE bBest' = bBest
    <3>1. Between(items)'
      BY <1>3, <2>1 DEF Between, View
    <3> QED
      BY <1>1, <1>3, <2>1, <3>1, ShowBetween DEF StepInv, View, B!Readers, B!At
  <2>2. CASE bBest' # bBest
    <3>1. PICK i \in DOMAIN items :
            items[i].id = 1 /\ bBest' = items[i].row /\ bBest' \in B!Row
      BY <1>1, <1>3, <2>2, ShowBetween
    <3>2. /\ \A j \in DOMAIN items : items[j].id = 1 => items[j].row = bBest'
          /\ Len(bRows) > 0 /\ UpTo(bBest', View(bRows[1])) /\ UpTo(bBest', bBest')
      BY <1>2, <1>3, <3>1 DEF Between
    <3>3. Between(items)'
      BY <1>3, <3>2 DEF Between, View
    <3> QED
      BY <1>1, <1>3, <3>2, <3>3, ShowBetween DEF StepInv, View, B!Readers, B!At
  <2> QED
    BY <2>1, <2>2
<1>4. ASSUME NEW h \in BookingSlots, B!Hit(h)
      PROVE  StepInv'
  <2>1. bEntry.items \in Seq(B!Item) /\ Between(bEntry.items) /\ B!Readers = {}
    BY <1>1, <1>4 DEF B!Hit, StepInv, B!TypeOK, B!Answer
  <2>2. B!Readers' = {}
    BY <1>4, <2>1 DEF B!Hit, B!Readers, B!InFlight
  <2> QED
    BY <1>3, <1>4, <2>1, <2>2 DEF B!Hit
<1>5. ASSUME NEW h \in BookingSlots, B!Fill(h)
      PROVE  StepInv'
  <2>1. /\ bReq[h].answer.items \in Seq(B!Item) /\ Between(bReq[h].answer.items)
        /\ h \in B!Readers
    BY <1>1, <1>5, BookingSlot DEF B!Fill, B!At, StepInv, B!Answer, B!Readers
  <2>2. B!Readers' = {}
    <3>1. \A k \in BookingSlots : k # h => bReq'[k] = bReq[k] /\ k \notin B!Readers
      BY <1>1, <1>5, <2>1, OnlyReader DEF B!Fill, B!End, B!TypeOK
    <3>2. bReq'[h] = None
      BY <1>1, <1>5 DEF B!Fill, B!End, B!TypeOK
    <3> QED
      BY <3>1, <3>2 DEF B!Readers, B!InFlight
  <2> QED
    BY <1>3, <1>5, <2>1, <2>2 DEF B!Fill
<1>6. ASSUME NEW h \in BookingSlots, NEW limit \in Limits, B!Miss(h, limit)
      PROVE  StepInv'
  <2>1. \A k \in BookingSlots : B!At(k, "set")' => B!At(k, "set") /\ bReq'[k] = bReq[k]
    BY <1>1, <1>6 DEF B!Miss, B!At, B!InFlight, B!TypeOK
  <2>2. ASSUME NEW k \in BookingSlots, B!At(k, "set")'
        PROVE  Between(bReq[k].answer.items)'
    <3>1. PICK items : items = bReq[k].answer.items /\ items = bReq'[k].answer.items
      BY <2>1, <2>2
    <3>2. Between(items)
      BY <2>1, <2>2, <3>1 DEF StepInv
    <3> QED
      BY <1>6, <3>1, <3>2, BetweenKept DEF B!Miss
  <2>3. bBest # None => Len(bRows) > 0 /\ UpTo(bBest, View(bRows[1]))
    BY DEF StepInv
  <2>4. View(bRows[1])' = View(bRows[1])
    BY <1>6 DEF B!Miss, View
  <2>5. ~bBack
    BY DEF StepInv
  <2> QED
    BY <1>6, <2>2, <2>3, <2>4, <2>5 DEF B!Miss, StepInv
<1>7. ASSUME NEW h \in BookingSlots, B!Read(h)
      PROVE  StepInv'
  <2>1. PICK limit \in Limits : limit = bReq[h].limit /\ HasRow(bRows)
    BY <1>1, <1>7, BookingSlot DEF B!Read, B!At, Grounded, Fit
  <2>2. PICK items : items = B!Result(bRows, limit)
    OBVIOUS
  <2>3. \A i \in DOMAIN items : items[i].id = 1 =>
          Len(bRows) > 0 /\ items[i].row = View(bRows[1])
    BY <1>1, <2>1, <2>2, ResultRows
  <2>4. Between(items)
    <3>1. Len(bRows) > 0 => bRows[1] \in B!Row
      BY <1>1
    <3> QED
      BY <1>2, <2>3, <3>1 DEF Between, StepInv
  <2>5. /\ bReq'[h].answer.items = items
        /\ \A k \in BookingSlots : k # h => bReq'[k] = bReq[k]
    BY <1>1, <1>7, <2>1, <2>2 DEF B!Read, B!TypeOK
  <2>6. Between(items)'
    BY <1>7, <2>4 DEF B!Read, Between, View
  <2>7. h \in B!Readers /\ bEntry = None
    BY <1>7 DEF B!Read, B!At, B!Readers, StepInv
  <2>8. ASSUME NEW k \in BookingSlots, k # h, B!At(k, "set")'
        PROVE  Between(bReq[k].answer.items)'
    <3>1. B!At(k, "set") /\ bReq'[k] = bReq[k]
      BY <2>5, <2>8 DEF B!At, B!InFlight
    <3>2. PICK kept : kept = bReq[k].answer.items /\ kept = bReq'[k].answer.items
      BY <3>1
    <3>3. Between(kept)
      BY <3>1, <3>2 DEF StepInv
    <3> QED
      BY <1>7, <3>2, <3>3, BetweenKept DEF B!Read
  <2>9. View(bRows[1])' = View(bRows[1])
    BY <1>7 DEF B!Read, View
  <2> QED
    BY <1>7, <2>5, <2>6, <2>7, <2>8, <2>9 DEF B!Read, StepInv
<1>8. CASE B!Create
  <2>1. PICK data \in B!Row : bRows' = Append(bRows, data)
    BY <1>8 DEF B!Create, B!Row, B!Status
  <2>2. /\ bRows' \in Seq(B!Row) /\ Len(bRows) <= Len(bRows')
        /\ Len(bRows) > 0 => bRows'[1] = bRows[1] /\ bRows[1] \in B!Row
    BY <1>1, <2>1
  <2> QED
    BY <1>2, <1>8, <2>2, StepQuiet DEF B!Create, B!At, B!InFlight
<1>9. ASSUME NEW h \in BookingSlots, WriterStep(h)
      PROVE  StepInv'
  <2>1. /\ bRows' \in Seq(B!Row) /\ Len(bRows') = Len(bRows)
        /\ bEntry' \in {bEntry, None} /\ UNCHANGED <<bKey, bBest, bBack>>
        /\ \A k \in BookingSlots : B!At(k, "read")' \/ B!At(k, "set")' => bReq'[k] = bReq[k]
    BY <1>1, <1>9, Writing
  <2>4. Len(bRows) \in Nat
    BY <1>1
  <2>2. Len(bRows) > 0 => bRows[1] \in B!Row /\ bRows'[1] \in B!Row /\ UpTo(bRows[1], bRows'[1])
    <3>1. CASE bRows' = bRows
      BY <1>1, <1>2, <3>1
    <3>2. CASE bRows' # bRows
      <4>1. B!Write(h) \/ B!Insert(h)
        BY <1>1, <1>9, <3>2, Validated
           DEF WriterStep, B!DropDetail, B!Scan, B!DropList, B!Fail
      <4>2. PICK b \in DOMAIN bRows, data \in B!Row :
              bRows' = [bRows EXCEPT ![b] = data] /\ UpTo(bRows[b], data)
        BY <1>1, <3>2, <4>1, RowWritten
      <4>3. /\ bRows' \in Seq(B!Row)
            /\ \A c \in DOMAIN bRows : bRows'[c] = IF c = b THEN data ELSE bRows[c]
        BY <1>1, <4>2
      <4>4. Len(bRows) > 0 => 1 \in DOMAIN bRows /\ bRows[1] \in B!Row
        BY <1>1
      <4>5. ASSUME Len(bRows) > 0 PROVE UpTo(bRows[1], bRows[1])
        <5>1. bRows[1] \in B!Row
          BY <4>4, <4>5
        <5> QED
          BY <5>1 DEF UpTo, B!Row
      <4> QED
        BY <4>2, <4>3, <4>4, <4>5
    <3> QED
      BY <3>1, <3>2
  <2>3. \A x \in B!Row, y \in B!Row : UpTo(x, y) => UpTo(View(x), View(y))
    BY DEF UpTo, View, B!Row
  <2> QED
    BY <1>1, <2>1, <2>2, <2>3, <2>4, StepQuiet
<1>10. CASE UNCHANGED bVars \/ B!Expire
  <2>1. Len(bRows) <= Len(bRows) /\ (Len(bRows) > 0 => bRows[1] \in B!Row)
    BY <1>1
  <2>2. UNCHANGED <<bKey, bBest, bBack, bRows, bReq>> /\ bEntry' \in {bEntry, None}
    BY <1>10 DEF bVars, B!Expire
  <2> QED
    BY <1>1, <1>2, <2>1, <2>2, StepQuiet
<1> QED
  BY <1>4, <1>5, <1>6, <1>7, <1>8, <1>9, <1>10 DEF B!Next, B!Continue, WriterStep

\* getMyHires, getMyJobs, getBookingById: one who reads again after the answer has
\* come is never shown the booking as it was before a write he has seen the outcome
\* of, under the same key, whatever handlers, late writes, failed invalidations and
\* expiries come between.
THEOREM ReadersNeverStepBack == ServicesSpec => NoStepBack
<1>1. ServicesInit => StepInv
  BY DEF ServicesInit, B!Init, StepInv, B!Readers, B!At, B!InFlight
<1>2. StepInv => ~bBack
  BY DEF StepInv
<1> QED
  BY <1>1, <1>2, ServicesSteps, BookingInvariance, StepStep, PTL
     DEF ServicesSpec, NoStepBack, B!NoStepBack
=============================================================================
