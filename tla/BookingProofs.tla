--------------------------- MODULE BookingProofs ---------------------------
(***************************************************************************)
(* Theorems about Booking, for every set of profiles, bookings and request *)
(* slots, every choice of operations, with and without faults.             *)
(* First what overlapping requests keep, then what is left to requests     *)
(* that do not overlap: on one booking, or on those of one provider.       *)
(***************************************************************************)
EXTENDS BookingInvariant, TLAPS

USE DEF InFlight, Exists

-----------------------------------------------------------------------------
\* The tables

LEMMA Tables ==
  /\ StatusOp \subseteq Operation
  /\ "create" \in Operation /\ "review" \in Operation
  /\ \A o \in StatusOp : targetStatus[o] \in Status /\ targetStatus[o] # "PENDING"
  /\ \A o \in Operation : AfterWrite(o) \in {"trust", "notify"}
BY DEF StatusOp, Operation, targetStatus, Status, AfterWrite

\* A notification type the enumeration has comes from the handler named for it.
LEMMA Types ==
  ASSUME NEW o \in Operation, notificationOf[o] \in NotificationType
  PROVE  /\ o # "create"
         /\ o = "accept"   => notificationOf[o] = "BOOKING_ACCEPTED"
         /\ o = "complete" => notificationOf[o] = "BOOKING_COMPLETED"
         /\ o = "cancel"   => notificationOf[o] = "BOOKING_CANCELLED"
         /\ o = "dispute"  => notificationOf[o] = "BOOKING_DISPUTED"
         /\ o = "review"   => notificationOf[o] = "REVIEW_RECEIVED"
BY DEF Operation, StatusOp, notificationOf, NotificationType

LEMMA UpdatedType ==
  ASSUME NEW row \in BookingRow, NEW o \in StatusOp
  PROVE  Updated(row, o) \in BookingRow
BY Tables DEF Updated, BookingRow

LEMMA NewRequestType ==
  ASSUME NEW o \in Operation, NEW at \in PC, NEW b \in Bookings,
         NEW me \in Profiles, NEW todo \in SUBSET Profiles
  PROVE  NewRequest(o, at, b, me, todo) \in Request
BY DEF NewRequest, Request, NoScore, Score

LEMMA RecipientsType ==
  ASSUME TypeOK, NEW b \in Bookings, booking[b] # None, NEW o \in Operation
  PROVE  /\ Recipients(o, b) \subseteq Profiles
         /\ \A p \in Recipients(o, b) : IsParty(b, p)
BY DEF Recipients, ProfileOfRole, TypeOK, BookingRow, IsParty

LEMMA AnswerType ==
  ASSUME NEW c \in Score, NEW q \in Query, NEW p
  PROVE  Answer(c, q, p) \in Score
BY DEF Answer, Score, Query, JobsOf, InStatus, ReviewsOf

-----------------------------------------------------------------------------
\* Types: preserved by every step that finds the row of its request in place

LEMMA TypeInit == Init => TypeOK
BY DEF Init, TypeOK, NoScore, Score

LEMMA TypeStep == Inv /\ [Next]_vars => TypeOK'
<1> SUFFICES ASSUME Inv, [Next]_vars PROVE TypeOK'
  OBVIOUS
<1> TypeOK
  BY DEF Inv
<1> USE BookingConstants
<1>1. ASSUME NEW h \in Handlers, NEW b \in Bookings, NEW me \in Profiles,
             NEW p \in Profiles, CreateBooking(h, b, me, p)
      PROVE  TypeOK'
  <2>1. NewRequest("create", "notify", b, me, {p}) \in Request
    BY NewRequestType, Tables DEF PC
  <2>2. booking' \in [Bookings -> BookingRow \cup {None}]
    BY <1>1 DEF CreateBooking, TypeOK, BookingRow, Status
  <2> QED BY <1>1, <2>1, <2>2 DEF CreateBooking, TypeOK
<1>2. ASSUME NEW h \in Handlers, NEW o \in StatusOp, NEW b \in Bookings,
             NEW me \in Profiles, StartTransition(h, o, b, me)
      PROVE  TypeOK'
  <2>1. NewRequest(o, "write", b, me, Recipients(o, b)) \in Request
    BY <1>2, NewRequestType, RecipientsType, Tables DEF PC, StartTransition
  <2> QED BY <1>2, <2>1 DEF StartTransition, TypeOK
<1>3. ASSUME NEW h \in Handlers, NEW b \in Bookings, NEW me \in Profiles,
             StartReview(h, b, me)
      PROVE  TypeOK'
  <2>1. NewRequest("review", "check", b, me, Recipients("review", b)) \in Request
    BY <1>3, NewRequestType, RecipientsType, Tables DEF PC, StartReview
  <2> QED BY <1>3, <2>1 DEF StartReview, TypeOK
<1>4. ASSUME NEW h \in Handlers, CheckReview(h)
      PROVE  TypeOK'
  <2>1. req' \in [Handlers -> Request \cup {None}]
    BY <1>4 DEF CheckReview, Goto, End, TypeOK, Request, PC
  <2> QED BY <1>4, <2>1 DEF CheckReview, TypeOK
<1>5. ASSUME NEW h \in Handlers, WriteTransition(h)
      PROVE  TypeOK'
  <2>1. req[h] \in Request
    BY <1>5 DEF WriteTransition, TypeOK
  <2>2. req' \in [Handlers -> Request \cup {None}]
    BY <1>5, <2>1, Tables DEF WriteTransition, Goto, TypeOK, Request, PC
  <2>3. booking[req[h].booking] \in BookingRow
    BY <1>5, <2>1 DEF WriteTransition, Inv, RequestSound, TypeOK, Request
  <2>4. Updated(booking[req[h].booking], req[h].op) \in BookingRow
    BY <1>5, <2>3, UpdatedType DEF WriteTransition
  <2> QED BY <1>5, <2>1, <2>2, <2>4 DEF WriteTransition, TypeOK, Request
<1>6. ASSUME NEW h \in Handlers, WriteReview(h)
      PROVE  TypeOK'
  <2>1. req[h] \in Request
    BY <1>6 DEF WriteReview, TypeOK
  <2>2. req' \in [Handlers -> Request \cup {None}]
    BY <1>6, <2>1, Tables DEF WriteReview, Goto, End, TypeOK, Request, PC
  <2>3. review' \in [Bookings -> Profiles \cup {None}]
    BY <1>6, <2>1 DEF WriteReview, TypeOK, Request
  <2> QED BY <1>6, <2>2, <2>3 DEF WriteReview, TypeOK
<1>7. ASSUME NEW h \in Handlers, NEW q \in Query, TrustRead(h, q)
      PROVE  TypeOK'
  <2>1. req[h] \in Request
    BY <1>7 DEF TrustRead, TypeOK
  <2>2. Answer(req[h].calc, q, ProviderOf(h)) \in Score
    BY <2>1, AnswerType DEF Request
  <2>3. [req[h] EXCEPT !.calc = Answer(req[h].calc, q, ProviderOf(h)),
                       !.got = req[h].got \cup {q}] \in Request
    BY <2>1, <2>2 DEF Request
  <2> QED BY <1>7, <2>3 DEF TrustRead, TypeOK
<1>8. ASSUME NEW h \in Handlers, TrustUpsert(h)
      PROVE  TypeOK'
  <2>1. req[h] \in Request
    BY <1>8 DEF TrustUpsert, TypeOK
  <2>2. [req[h] EXCEPT !.pc = "notify", !.calc = NoScore, !.got = {}] \in Request
    BY <2>1 DEF Request, PC, NoScore, Score
  <2>3. score' \in [Profiles -> Score]
    BY <1>8, <2>1 DEF TrustUpsert, TypeOK, Request
  <2> QED BY <1>8, <2>2, <2>3 DEF TrustUpsert, TypeOK
<1>9. ASSUME NEW h \in Handlers, NEW p \in Profiles, Notify(h, p)
      PROVE  TypeOK'
  <2>1. req[h] \in Request
    BY <1>9 DEF Notify, TypeOK
  <2>2. req' \in [Handlers -> Request \cup {None}]
    BY <1>9, <2>1 DEF Notify, End, TypeOK, Request
  <2>3. notification' \subseteq Message
    BY <1>9, <2>1 DEF Notify, TypeOK, Request, Message
  <2> QED BY <1>9, <2>2, <2>3 DEF Notify, TypeOK
<1>10. ASSUME NEW h \in Handlers, NEW p \in Profiles, LoseNotification(h, p)
       PROVE  TypeOK'
  <2>1. req[h] \in Request
    BY <1>10 DEF LoseNotification, TypeOK
  <2>2. req' \in [Handlers -> Request \cup {None}]
    BY <1>10, <2>1 DEF LoseNotification, End, TypeOK, Request
  <2> QED BY <1>10, <2>2 DEF LoseNotification, TypeOK
<1>11. ASSUME NEW h \in Handlers, Fail(h)
       PROVE  TypeOK'
  BY <1>11 DEF Fail, End, TypeOK
<1>12. CASE UNCHANGED vars
  BY <1>12 DEF vars, TypeOK
<1> QED
  BY <1>1, <1>2, <1>3, <1>4, <1>5, <1>6, <1>7, <1>8, <1>9, <1>10, <1>11, <1>12
     DEF Next, Arrive, Continue

-----------------------------------------------------------------------------
\* Which actions write which variable

LEMMA Writers ==
  ASSUME [Next]_vars
  PROVE  /\ \/ UNCHANGED booking
            \/ \E h \in Handlers : WriteTransition(h)
            \/ \E h \in Handlers, b \in Bookings, me \in Profiles, p \in Profiles :
                 CreateBooking(h, b, me, p)
         /\ UNCHANGED review \/ \E h \in Handlers : WriteReview(h)
         /\ \/ UNCHANGED notification
            \/ \E h \in Handlers, p \in Profiles : Notify(h, p)
         /\ UNCHANGED score \/ \E h \in Handlers : TrustUpsert(h)
<1>1. CASE UNCHANGED vars
  BY <1>1 DEF vars
<1>2. CASE \E h \in Handlers : Arrive(h)
  BY <1>2 DEF Arrive, CreateBooking, StartTransition, StartReview
<1>3. CASE \E h \in Handlers : Continue(h)
  <2>1. CASE \E h \in Handlers : CheckReview(h) \/ WriteTransition(h)
    BY <2>1 DEF CheckReview, WriteTransition
  <2>2. CASE \E h \in Handlers : WriteReview(h) \/ TrustUpsert(h)
    BY <2>2 DEF WriteReview, TrustUpsert
  <2>3. CASE \E h \in Handlers, q \in Query : TrustRead(h, q)
    BY <2>3 DEF TrustRead
  <2>4. CASE \E h \in Handlers, p \in Profiles : Notify(h, p)
    BY <2>4 DEF Notify
  <2> QED BY <1>3, <2>1, <2>2, <2>3, <2>4 DEF Continue
<1>4. CASE \E h \in Handlers : Fail(h) \/ \E p \in Profiles : LoseNotification(h, p)
  BY <1>4 DEF Fail, LoseNotification
<1> QED BY <1>1, <1>2, <1>3, <1>4 DEF Next

-----------------------------------------------------------------------------
\* What no step undoes

LEMMA UpdatedGrows ==
  ASSUME NEW row \in BookingRow, NEW o \in StatusOp
  PROVE  /\ Updated(row, o).customer = row.customer
         /\ Updated(row, o).provider = row.provider
         /\ Updated(row, o).status = targetStatus[o]
         /\ Updated(row, o).completedAt <=> row.completedAt \/ o = "complete"
         /\ Updated(row, o).cancelledAt <=> row.cancelledAt \/ o = "cancel"
         /\ Updated(row, o).disputed <=> row.disputed \/ o = "dispute"
BY DEF Updated, BookingRow

LEMMA Growth == Inv /\ [Next]_vars => Grows
<1> SUFFICES ASSUME Inv, [Next]_vars PROVE Grows
  OBVIOUS
<1> TypeOK
  BY DEF Inv
<1>1. ASSUME NEW h \in Handlers, NEW b \in Bookings, NEW me \in Profiles,
             NEW p \in Profiles, CreateBooking(h, b, me, p)
      PROVE  Grows
  BY <1>1 DEF CreateBooking, Grows, RowGrows, TypeOK
<1>2. ASSUME NEW h \in Handlers, WriteTransition(h)
      PROVE  Grows
  <2>1. req[h] \in Request /\ req[h].booking \in Bookings
    BY <1>2 DEF WriteTransition, TypeOK, Request
  <2>2. booking[req[h].booking] \in BookingRow
    BY <1>2, <2>1 DEF WriteTransition, Inv, RequestSound, TypeOK
  <2>3. RowGrows(req[h].booking)
    <3> DEFINE b == req[h].booking
               o == req[h].op
    <3>1. o \in StatusOp /\ booking'[b] = Updated(booking[b], o)
      BY <1>2, <2>1 DEF WriteTransition, TypeOK
    <3>2. booking'[b] \in BookingRow
      BY <2>2, <3>1, UpdatedType
    <3>3. booking'[b] # None
      BY <3>2, BookingConstants
    <3> HIDE DEF b, o
    <3>4. booking[b] \in BookingRow
      BY <2>2 DEF b
    <3>5. RowGrows(b)
      BY <3>1, <3>3, <3>4, UpdatedGrows, Tables DEF RowGrows
    <3> QED BY <3>5 DEF b
  <2>4. ASSUME NEW b \in Bookings, b # req[h].booking PROVE RowGrows(b)
    BY <1>2, <2>4 DEF WriteTransition, RowGrows, TypeOK
  <2> QED BY <1>2, <2>3, <2>4 DEF WriteTransition, Grows
<1>3. ASSUME NEW h \in Handlers, WriteReview(h)
      PROVE  Grows
  BY <1>3 DEF WriteReview, Grows, RowGrows, TypeOK
<1>4. CASE UNCHANGED <<booking, review>>
  BY <1>4 DEF Grows, RowGrows
<1> QED BY <1>1, <1>2, <1>3, <1>4, Writers

\* Sets of bookings that only grow.
LEMMA SetsGrow ==
  ASSUME Grows
  PROVE  /\ Completed \subseteq Completed'
         /\ Cancelled \subseteq Cancelled'
         /\ Disputed \subseteq Disputed'
         /\ Reviewed \subseteq Reviewed'
         /\ \A p : JobsOf(p) \subseteq JobsOf(p)'
BY DEF Grows, RowGrows, Completed, Cancelled, Disputed, Reviewed, JobsOf

LEMMA FiguresKept ==
  ASSUME Grows, NEW c, NEW p, FiguresSound(c, p)
  PROVE  FiguresSound(c, p)'
BY SetsGrow, BookingConstants DEF FiguresSound

LEMMA PartyKept ==
  ASSUME Grows, NEW b \in Bookings, Exists(b), NEW p, IsParty(b, p)
  PROVE  IsParty(b, p)'
BY DEF Grows, RowGrows, IsParty

LEMMA ClaimKept ==
  ASSUME Grows, NEW b \in Bookings, Exists(b), NEW type, Claim(type, b)
  PROVE  Claim(type, b)'
<1>1. CASE type = "BOOKING_ACCEPTED"
  BY <1>1 DEF Claim, Grows, RowGrows
<1>2. CASE type # "BOOKING_ACCEPTED"
  BY <1>2, SetsGrow, BookingConstants DEF Claim
<1> QED BY <1>1, <1>2

\* The facts about a request outlive every step of the other requests, and a
\* step of its own establishes those that are new.
LEMMA RequestContinues ==
  ASSUME Inv, Grows, NEW h \in Handlers, req[h] # None, req'[h] # None,
         req'[h].op = req[h].op,
         req'[h].booking = req[h].booking,
         req'[h].profile = req[h].profile,
         req'[h].todo \subseteq req[h].todo,
         req'[h].pc = "check" => req[h].pc = "check",
         Written(h)' => \/ Written(h)
                        \/ Claim(notificationOf[req[h].op], req[h].booking)',
         \/ req'[h].calc = req[h].calc
         \/ FiguresSound(req[h].calc, booking[req[h].booking].provider)'
  PROVE  RequestSound(h)'
<1> DEFINE b == req[h].booking
<1>1. RequestSound(h) /\ TypeOK
  BY DEF Inv
<1>2. req[h] \in Request /\ b \in Bookings
  BY <1>1 DEF TypeOK, Request
<1>3. Exists(b) /\ booking'[b] # None /\ (req[h].pc = "check" => req[h].op = "review")
  BY <1>1, <1>2 DEF RequestSound, Grows, RowGrows
<1>4. \A p \in req'[h].todo : IsParty(req[h].booking, p)'
  BY <1>1, <1>2, <1>3 DEF RequestSound, IsParty, Grows, RowGrows
<1>5. req[h].op \in {"complete", "dispute"} => booking'[b].status # "PENDING"
  BY <1>1, <1>2, <1>3 DEF RequestSound, Grows, RowGrows
<1>6. req[h].op = "review" =>
        b \in Completed' /\ req[h].profile = booking'[b].customer
  BY <1>1, <1>2, <1>3, SetsGrow DEF RequestSound, Grows, RowGrows
<1>7. Written(h)' => Claim(notificationOf[req[h].op], req[h].booking)'
  <2> SUFFICES ASSUME Written(h) PROVE Claim(notificationOf[req[h].op], req[h].booking)'
    OBVIOUS
  <2> PICK o, c : o = req[h].op /\ c = req[h].booking
    OBVIOUS
  <2>1. Claim(notificationOf[o], c) /\ o \in Operation \ {"create"}
    BY <1>1, <1>2 DEF RequestSound, Request, Written
  <2>2. Claim(notificationOf[o], c)'
    BY <2>1, <1>2, <1>3, ClaimKept
  <2> QED BY <2>2 DEF Claim
<1>8. FiguresSound(req[h].calc, booking[b].provider)'
  <2> PICK c, p : c = req[h].calc /\ p = booking[b].provider
    OBVIOUS
  <2>1. FiguresSound(c, p)
    BY <1>1 DEF RequestSound
  <2>2. FiguresSound(c, p)'
    BY <2>1, FiguresKept
  <2>3. booking'[b].provider = p
    BY <1>2, <1>3 DEF Grows, RowGrows
  <2> QED BY <2>2, <2>3 DEF FiguresSound, JobsOf
<1> QED
  BY <1>3, <1>4, <1>5, <1>6, <1>7, <1>8
     DEF RequestSound

LEMMA RequestKept ==
  ASSUME Inv, Grows, NEW h \in Handlers, req'[h] = req[h]
  PROVE  RequestSound(h)'
<1>1. CASE req[h] = None
  BY <1>1 DEF RequestSound
<1>2. CASE req[h] # None
  BY <1>2, RequestContinues DEF Written
<1> QED BY <1>1, <1>2

\* A request that has just been validated knows what it validated.
LEMMA RequestStarts ==
  ASSUME Inv, Grows, NEW h \in Handlers, NEW o \in Operation,
         NEW at \in {"check", "write", "notify"}, NEW b \in Bookings,
         NEW me \in Profiles, NEW todo \in SUBSET Profiles,
         req'[h] = NewRequest(o, at, b, me, todo),
         at = "notify" => o = "create",
         at = "check" => o = "review",
         booking'[b] # None,
         \A p \in todo : p \in {booking'[b].customer, booking'[b].provider},
         o \in {"complete", "dispute"} => booking'[b].status # "PENDING",
         o = "review" => b \in Completed' /\ me = booking'[b].customer
  PROVE  RequestSound(h)'
BY DEF RequestSound, NewRequest, Written, IsParty, FiguresSound, NoScore

LEMMA RequestsStep ==
  Inv /\ [Next]_vars => \A k \in Handlers : RequestSound(k)'
<1> SUFFICES ASSUME Inv, [Next]_vars, NEW k \in Handlers PROVE RequestSound(k)'
  OBVIOUS
<1> TypeOK /\ Grows
  BY Growth DEF Inv
<1>0. req[k] = req'[k] => RequestSound(k)'
  BY RequestKept
<1>1. ASSUME NEW b \in Bookings, NEW me \in Profiles, NEW p \in Profiles,
             CreateBooking(k, b, me, p)
      PROVE  RequestSound(k)'
  <2>1. req'[k] = NewRequest("create", "notify", b, me, {p})
    BY <1>1 DEF CreateBooking, TypeOK
  <2>2. booking'[b] \in BookingRow /\ booking'[b].provider = p
    BY <1>1 DEF CreateBooking, TypeOK, BookingRow, Status
  <2> QED BY <2>1, <2>2, RequestStarts, Tables, BookingConstants
<1>2. ASSUME NEW o \in StatusOp, NEW b \in Bookings, NEW me \in Profiles,
             StartTransition(k, o, b, me)
      PROVE  RequestSound(k)'
  <2>1. req'[k] = NewRequest(o, "write", b, me, Recipients(o, b))
    BY <1>2 DEF StartTransition, TypeOK
  <2>2. booking'[b] = booking[b] /\ booking[b] # None
    BY <1>2 DEF StartTransition
  <2>3. o \in {"complete", "dispute"} => booking[b].status # "PENDING"
    BY <1>2 DEF StartTransition, MayTransition, allowedTransitions
  <2>4. /\ Recipients(o, b) \in SUBSET Profiles
        /\ \A p \in Recipients(o, b) : p \in {booking[b].customer, booking[b].provider}
    BY <2>2, RecipientsType, Tables DEF IsParty
  <2>5. o \in Operation /\ o # "review"
    BY Tables DEF StatusOp
  <2> QED BY <2>1, <2>2, <2>3, <2>4, <2>5, RequestStarts
<1>3. ASSUME NEW b \in Bookings, NEW me \in Profiles, StartReview(k, b, me)
      PROVE  RequestSound(k)'
  <2>1. req'[k] = NewRequest("review", "check", b, me, Recipients("review", b))
    BY <1>3 DEF StartReview, TypeOK
  <2>2. booking'[b] = booking[b] /\ booking[b] # None /\ me = booking[b].customer
    BY <1>3 DEF StartReview
  <2>3. b \in Completed'
    BY <1>3, SetsGrow DEF StartReview, Inv, RowsSound
  <2>4. /\ Recipients("review", b) \in SUBSET Profiles
        /\ \A p \in Recipients("review", b) :
             p \in {booking[b].customer, booking[b].provider}
    BY <2>2, RecipientsType, Tables DEF IsParty
  <2> QED BY <2>1, <2>2, <2>3, <2>4, RequestStarts, Tables
<1>4. ASSUME CheckReview(k)
      PROVE  RequestSound(k)'
  <2>1. CASE req'[k] = None
    BY <2>1 DEF RequestSound
  <2>2. CASE req'[k] # None
    <3>1. req'[k] = [req[k] EXCEPT !.pc = "write"] /\ req[k] \in Request
      BY <1>4, <2>2 DEF CheckReview, Goto, End, TypeOK
    <3>2. req'[k].pc = "write" /\ req'[k].calc = req[k].calc
      BY <3>1 DEF Request
    <3> QED BY <1>4, <2>2, <3>1, <3>2, RequestContinues DEF CheckReview, Written, Request
  <2> QED BY <2>1, <2>2
<1>5. ASSUME WriteTransition(k)
      PROVE  RequestSound(k)'
  <2>1. req[k] \in Request /\ req[k].op \in StatusOp /\ req[k] # None
    BY <1>5 DEF WriteTransition, TypeOK
  <2>2. req'[k] = [req[k] EXCEPT !.pc = AfterWrite(req[k].op)]
    BY <1>5 DEF WriteTransition, Goto, TypeOK
  <2>3. Claim(notificationOf[req[k].op], req[k].booking)'
    <3> PICK o, b : o = req[k].op /\ b = req[k].booking
      OBVIOUS
    <3>1. booking[b] \in BookingRow /\ b \in Bookings /\ o \in StatusOp
      BY <2>1 DEF Inv, RequestSound, TypeOK, Request
    <3>2. booking'[b] = Updated(booking[b], o)
      BY <1>5, <3>1 DEF WriteTransition, TypeOK
    <3>3. booking'[b] # None
      BY <3>1, <3>2, UpdatedType, BookingConstants
    <3>4. o = "accept" => Claim("BOOKING_ACCEPTED", b)'
      BY <3>1, <3>2, UpdatedGrows, Tables DEF Claim
    <3>5. o = "complete" => Claim("BOOKING_COMPLETED", b)'
      BY <3>1, <3>2, <3>3, UpdatedGrows DEF Claim, Completed
    <3>6. o = "cancel" => Claim("BOOKING_CANCELLED", b)'
      BY <3>1, <3>2, <3>3, UpdatedGrows DEF Claim, Cancelled
    <3>7. o = "dispute" => Claim("BOOKING_DISPUTED", b)'
      BY <3>1, <3>2, <3>3, UpdatedGrows DEF Claim, Disputed
    <3>8. Claim(notificationOf[o], b)'
      BY <3>1, <3>4, <3>5, <3>6, <3>7 DEF StatusOp, notificationOf
    <3>9. req'[k].op = o /\ req'[k].booking = b
      BY <2>1, <2>2 DEF Request
    <3> QED BY <3>8, <3>9 DEF Claim
  <2>4. req'[k] # None
    BY <2>1, <2>2, BookingConstants, Tables DEF Request, PC
  <2>5. req'[k].pc # "check"
    BY <2>1, <2>2, Tables DEF Request
  <2> QED BY <2>1, <2>2, <2>3, <2>4, <2>5, RequestContinues DEF Request
<1>6. ASSUME WriteReview(k)
      PROVE  RequestSound(k)'
  <2>1. req[k] \in Request /\ req[k] # None /\ req[k].op = "review"
    BY <1>6 DEF WriteReview, TypeOK
  <2>2. CASE req'[k] = None
    BY <2>2 DEF RequestSound
  <2>3. CASE req'[k] # None
    <3>1. req'[k] = [req[k] EXCEPT !.pc = AfterWrite("review")]
      BY <1>6, <2>3 DEF WriteReview, Goto, End, TypeOK
    <3>2. Claim(notificationOf[req[k].op], req[k].booking)'
      <4>1. req[k].booking \in Reviewed'
        BY <1>6, <2>1, <2>3, BookingConstants
           DEF WriteReview, Goto, End, TypeOK, Request, Reviewed
      <4>2. req'[k].op = "review" /\ req'[k].booking = req[k].booking
        BY <2>1, <3>1 DEF Request
      <4> QED BY <4>1, <4>2 DEF Claim, notificationOf
    <3>3. req'[k].pc # "check"
      BY <2>1, <3>1, Tables DEF Request
    <3> QED BY <2>1, <2>3, <3>1, <3>2, <3>3, RequestContinues DEF Request
  <2> QED BY <2>2, <2>3
<1>7. ASSUME NEW q \in Query, TrustRead(k, q)
      PROVE  RequestSound(k)'
  <2>1. req[k] \in Request /\ req[k] # None /\ req[k].pc = "trust"
    BY <1>7 DEF TrustRead, TypeOK
  <2>2. req'[k] = [req[k] EXCEPT !.calc = Answer(req[k].calc, q, ProviderOf(k)),
                                 !.got = req[k].got \cup {q}]
    BY <1>7 DEF TrustRead, TypeOK
  <2>3. FiguresSound(req[k].calc, booking[req[k].booking].provider)'
    <3> PICK c, p : c = req[k].calc /\ p = ProviderOf(k)
      OBVIOUS
    <3>1. FiguresSound(c, p) /\ c \in Score /\ p = booking[req[k].booking].provider
      BY <2>1 DEF Inv, RequestSound, ProviderOf, Request
    <3>2. FiguresSound(Answer(c, q, p), p)
      BY <3>1 DEF FiguresSound, Answer, Query, Score, InStatus, JobsOf, ReviewsOf,
                  Inv, RowsSound, Reviewed
    <3>3. UNCHANGED <<booking, review>>
      BY <1>7 DEF TrustRead
    <3>4. req'[k].calc = Answer(c, q, p) /\ req'[k].booking = req[k].booking
      BY <2>1, <2>2, <3>1 DEF Request
    <3> HIDE DEF Answer
    <3> QED BY <3>1, <3>2, <3>3, <3>4
            DEF FiguresSound, JobsOf, Completed, Disputed, Reviewed
  <2>4. req'[k] # None
    <3>1. Answer(req[k].calc, q, ProviderOf(k)) \in Score
      BY <2>1, AnswerType DEF Request
    <3>2. req'[k] \in Request
      BY <2>1, <2>2, <3>1 DEF Request
    <3> QED BY <3>2, BookingConstants
  <2> QED BY <2>1, <2>2, <2>3, <2>4, RequestContinues DEF Request, Written
<1>8. ASSUME TrustUpsert(k)
      PROVE  RequestSound(k)'
  <2>1. req[k] \in Request /\ req[k] # None /\ req[k].pc = "trust"
    BY <1>8 DEF TrustUpsert, TypeOK
  <2>2. req'[k] = [req[k] EXCEPT !.pc = "notify", !.calc = NoScore, !.got = {}]
    BY <1>8 DEF TrustUpsert, TypeOK
  <2>3. req'[k].calc = NoScore
    BY <2>1, <2>2 DEF Request
  <2>4. FiguresSound(req[k].calc, booking[req[k].booking].provider)'
    BY <2>3 DEF FiguresSound, NoScore
  <2>5. req'[k] # None
    <3>1. [req[k] EXCEPT !.pc = "notify", !.calc = NoScore, !.got = {}] \in Request
      BY <2>1 DEF Request, PC, NoScore, Score
    <3> QED BY <2>2, <3>1, BookingConstants
  <2> QED BY <2>1, <2>2, <2>4, <2>5, RequestContinues DEF Request, Written
<1>9. ASSUME NEW p \in Profiles, Notify(k, p) \/ LoseNotification(k, p)
      PROVE  RequestSound(k)'
  <2>1. req[k] \in Request /\ req[k] # None
    BY <1>9 DEF Notify, LoseNotification, TypeOK
  <2>2. CASE req'[k] = None
    BY <2>2 DEF RequestSound
  <2>3. CASE req'[k] # None
    <3>1. req'[k] = [req[k] EXCEPT !.todo = req[k].todo \ {p}]
      BY <1>9, <2>3 DEF Notify, LoseNotification, End, TypeOK
    <3> QED BY <2>1, <2>3, <3>1, RequestContinues DEF Request, Written
  <2> QED BY <2>2, <2>3
<1>10. ASSUME Fail(k)
       PROVE  RequestSound(k)'
  BY <1>10 DEF Fail, End, TypeOK, RequestSound
<1>11. ASSUME NEW h \in Handlers, h # k,
              \/ Arrive(h) \/ Continue(h) \/ Fail(h)
              \/ \E p \in Profiles : LoseNotification(h, p)
       PROVE  RequestSound(k)'
  BY <1>0, <1>11
     DEF Arrive, Continue, CreateBooking, StartTransition, StartReview, CheckReview,
         WriteTransition, WriteReview, TrustRead, TrustUpsert, Notify,
         LoseNotification, Fail, Goto, End, TypeOK
<1>12. CASE UNCHANGED vars
  BY <1>0, <1>12 DEF vars
<1> QED
  BY <1>1, <1>2, <1>3, <1>4, <1>5, <1>6, <1>7, <1>8, <1>9, <1>10, <1>11, <1>12
     DEF Next, Arrive, Continue

-----------------------------------------------------------------------------
\* The invariant

LEMMA InvInit == Init => Inv
BY TypeInit DEF Init, Inv, RowsSound, ReviewSound, NotificationSound, ScoreSound,
                RequestSound, FiguresSound, NoScore, Reviewed

LEMMA RowsStep == Inv /\ [Next]_vars => RowsSound'
<1> SUFFICES ASSUME Inv, [Next]_vars, NEW b \in Bookings, booking'[b] # None
             PROVE  /\ booking'[b].status # "IN_PROGRESS"
                    /\ booking'[b].status = "COMPLETED" => booking'[b].completedAt
                    /\ booking'[b].status = "DISPUTED" => booking'[b].disputed
  BY DEF RowsSound, Completed, Disputed
<1> TypeOK
  BY DEF Inv
<1>1. CASE booking'[b] = booking[b]
  BY <1>1 DEF Inv, RowsSound, Completed, Disputed
<1>2. ASSUME NEW h \in Handlers, NEW me \in Profiles, NEW p \in Profiles,
             NEW c \in Bookings, CreateBooking(h, c, me, p), booking'[b] # booking[b]
      PROVE  booking'[b].status = "PENDING"
  BY <1>2 DEF CreateBooking, TypeOK
<1>3. ASSUME NEW h \in Handlers, WriteTransition(h), booking'[b] # booking[b]
      PROVE  /\ booking'[b].status # "IN_PROGRESS"
             /\ booking'[b].status = "COMPLETED" => booking'[b].completedAt
             /\ booking'[b].status = "DISPUTED" => booking'[b].disputed
  <2>1. req[h] \in Request /\ req[h].op \in StatusOp /\ req[h].booking = b
    BY <1>3 DEF WriteTransition, TypeOK
  <2>2. booking[b] \in BookingRow
    BY <1>3, <2>1 DEF WriteTransition, Inv, RequestSound, TypeOK
  <2>3. booking'[b] = Updated(booking[b], req[h].op)
    BY <1>3, <2>1 DEF WriteTransition, TypeOK
  <2> QED BY <2>1, <2>2, <2>3, UpdatedGrows DEF targetStatus, StatusOp
<1> QED BY <1>1, <1>2, <1>3, Writers

LEMMA ReviewStep == Inv /\ [Next]_vars => ReviewSound'
<1> SUFFICES ASSUME Inv, [Next]_vars, NEW b \in Bookings, review'[b] # None
             PROVE  b \in Completed' /\ review'[b] = booking'[b].customer
  BY DEF ReviewSound, Reviewed
<1> TypeOK /\ Grows
  BY Growth DEF Inv
<1>1. CASE review[b] # None
  BY <1>1, SetsGrow DEF Inv, ReviewSound, Reviewed, Completed, Grows, RowGrows
<1>2. ASSUME NEW h \in Handlers, WriteReview(h), review'[b] # review[b]
      PROVE  b \in Completed' /\ review'[b] = booking'[b].customer
  <2>1. req[h].booking = b /\ review'[b] = req[h].profile /\ req[h].op = "review"
    BY <1>2 DEF WriteReview, TypeOK
  <2>2. b \in Completed /\ req[h].profile = booking[b].customer
    BY <1>2, <2>1 DEF Inv, RequestSound, WriteReview
  <2> QED BY <1>2, <2>1, <2>2, SetsGrow DEF WriteReview, Completed
<1> QED BY <1>1, <1>2, Writers

LEMMA NotificationStep == Inv /\ [Next]_vars => NotificationSound'
<1> SUFFICES ASSUME Inv, [Next]_vars, NEW m \in notification'
             PROVE  Exists(m.booking)' /\ IsParty(m.booking, m.to)'
                                       /\ Claim(m.type, m.booking)'
  BY DEF NotificationSound
<1> TypeOK /\ Grows
  BY Growth DEF Inv
<1>1. CASE m \in notification
  <2> PICK b, p, type : b = m.booking /\ p = m.to /\ type = m.type
    OBVIOUS
  <2>1. b \in Bookings
    BY <1>1 DEF TypeOK, Message
  <2>2. Exists(b) /\ IsParty(b, p) /\ Claim(type, b)
    BY <1>1 DEF Inv, NotificationSound
  <2> QED BY <2>1, <2>2, PartyKept, ClaimKept DEF Grows, RowGrows
<1>2. ASSUME NEW h \in Handlers, NEW p \in Profiles, Notify(h, p), m \notin notification
      PROVE  Exists(m.booking)' /\ IsParty(m.booking, m.to)'
                                /\ Claim(m.type, m.booking)'
  <2> PICK b, o : b = req[h].booking /\ o = req[h].op
    OBVIOUS
  <2>1. req[h] \in Request /\ b \in Bookings /\ o \in Operation
    BY <1>2 DEF Notify, TypeOK, Request
  <2>2. m = [type |-> notificationOf[o], booking |-> b, to |-> p]
    BY <1>2 DEF Notify
  <2>3. o # "create"
    BY <1>2, <2>1, <2>2, Types DEF Notify
  <2>4. Exists(b) /\ IsParty(b, p) /\ Claim(notificationOf[o], b)
    BY <1>2, <2>1, <2>3 DEF Notify, Inv, RequestSound, Written
  <2>5. Exists(b)' /\ IsParty(b, p)' /\ Claim(notificationOf[o], b)'
    BY <2>1, <2>4, PartyKept, ClaimKept DEF Grows, RowGrows
  <2> QED BY <2>2, <2>5
<1> QED BY <1>1, <1>2, Writers

LEMMA ScoreStep == Inv /\ [Next]_vars => ScoreSound'
<1> SUFFICES ASSUME Inv, [Next]_vars, NEW p \in Profiles PROVE FiguresSound(score[p], p)'
  BY DEF ScoreSound
<1> TypeOK /\ Grows
  BY Growth DEF Inv
<1>1. CASE score'[p] = score[p]
  <2> PICK c : c = score[p]
    OBVIOUS
  <2>1. FiguresSound(c, p)'
    BY FiguresKept DEF Inv, ScoreSound
  <2> QED BY <1>1, <2>1 DEF FiguresSound
<1>2. ASSUME NEW h \in Handlers, TrustUpsert(h), score'[p] # score[p]
      PROVE  FiguresSound(score[p], p)'
  <2> PICK c : c = req[h].calc
    OBVIOUS
  <2>1. p = booking[req[h].booking].provider /\ score'[p] = c
    BY <1>2 DEF TrustUpsert, ProviderOf, TypeOK
  <2>2. FiguresSound(c, p)'
    BY <1>2, <2>1, FiguresKept DEF Inv, RequestSound, TrustUpsert
  <2> QED BY <2>1, <2>2 DEF FiguresSound
<1> QED BY <1>1, <1>2, Writers

THEOREM Invariance == Spec => []Inv
<1>1. Inv /\ [Next]_vars => Inv'
  BY TypeStep, RowsStep, ReviewStep, NotificationStep, ScoreStep, RequestsStep DEF Inv
<1> QED BY InvInit, <1>1, PTL DEF Spec

\* Spec => []TypeOK: no handler stores a status, a party or a notification
\* type its column does not accept.
THEOREM TypeCorrect == Spec => []TypeOK
<1>1. Inv => TypeOK
  BY DEF Inv
<1> QED BY <1>1, Invariance, PTL

\* submitReview: every review is of a booking that was completed, by its
\* customer, whatever runs between the checks and the insertion.
THEOREM ReviewsAreSound == Spec => []ReviewSound
<1>1. Inv => ReviewSound
  BY DEF Inv
<1> QED BY <1>1, Invariance, PTL

\* notify: every notification tells the truth to a party of its booking.
THEOREM NotificationsAreSound == Spec => []NotificationSound
<1>1. Inv => NotificationSound
  BY DEF Inv
<1> QED BY <1>1, Invariance, PTL

\* recalculate: a stored score credits nothing that did not happen.
THEOREM ScoresAreSound == Spec => []ScoreSound
<1>1. Inv => ScoreSound
  BY DEF Inv
<1> QED BY <1>1, Invariance, PTL

-----------------------------------------------------------------------------
\* Refinement: what overlapping requests leave of the lifecycle

LEMMA RefinementInit == Init => Lifecycle!Init
BY DEF Init, Lifecycle!Init, StatusOf, Completed, Reviewed

\* An update by handler o, seen as a step of the lifecycle.
LEMMA CommitRefined ==
  ASSUME Inv, NEW h \in Handlers, WriteTransition(h)
  PROVE  \E b \in Bookings, to \in {"ACCEPTED", "COMPLETED", "CANCELLED", "DISPUTED"} :
           /\ Lifecycle!Commit(b, to)
           /\ b = req[h].booking
           /\ to = targetStatus[req[h].op]
           /\ req[h].op \in StatusOp
<1> TypeOK
  BY DEF Inv
<1> PICK b, o : b = req[h].booking /\ o = req[h].op
  OBVIOUS
<1>1. req[h] \in Request /\ b \in Bookings /\ o \in StatusOp
  BY DEF WriteTransition, TypeOK, Request
<1>2. booking[b] \in BookingRow /\ booking[b] # None
  BY <1>1 DEF WriteTransition, Inv, RequestSound, TypeOK
<1>3. booking' = [booking EXCEPT ![b] = Updated(booking[b], o)]
  BY DEF WriteTransition
<1>4. booking'[b] = Updated(booking[b], o) /\ booking'[b] # None
  BY <1>1, <1>2, <1>3, UpdatedType, BookingConstants DEF TypeOK
<1>5. StatusOf(b) \in {"PENDING", "ACCEPTED", "COMPLETED", "CANCELLED", "DISPUTED"}
  BY <1>1, <1>2 DEF StatusOf, Inv, RowsSound, BookingRow, Status
<1>6. o \in {"complete", "dispute"} => StatusOf(b) # "PENDING"
  BY <1>1, <1>2 DEF StatusOf, Inv, RequestSound, WriteTransition
<1>7. StatusOf(b)' = targetStatus[o]
  BY <1>1, <1>2, <1>4, UpdatedGrows DEF StatusOf
<1>8. \A c \in Bookings : c # b => StatusOf(c)' = StatusOf(c)
  BY <1>1, <1>3 DEF StatusOf, TypeOK
<1>9. Completed' = IF o = "complete" THEN Completed \cup {b} ELSE Completed
  <2>1. \A c \in Bookings : c # b => (c \in Completed' <=> c \in Completed)
    BY <1>1, <1>3 DEF Completed, TypeOK
  <2>2. b \in Completed' <=> b \in Completed \/ o = "complete"
    BY <1>1, <1>2, <1>4, UpdatedGrows DEF Completed
  <2>3. Completed \subseteq Bookings /\ Completed' \subseteq Bookings
    BY DEF Completed
  <2> QED BY <1>1, <2>1, <2>2, <2>3
<1>10. Reviewed' = Reviewed
  BY DEF WriteTransition, Reviewed
<1>11. /\ o = "complete" <=> targetStatus[o] = "COMPLETED"
       /\ targetStatus[o] \in {"ACCEPTED", "COMPLETED", "CANCELLED", "DISPUTED"}
       /\ o \notin {"complete", "dispute"} => targetStatus[o] \in {"ACCEPTED", "CANCELLED"}
  BY <1>1 DEF StatusOp, targetStatus
<1>12. Lifecycle!Commit(b, targetStatus[o])
  BY <1>1, <1>5, <1>6, <1>7, <1>8, <1>9, <1>10, <1>11 DEF Lifecycle!Commit, Lifecycle!Move
<1> QED BY <1>1, <1>11, <1>12

\* A new row, seen as a step of the lifecycle.
LEMMA RequestRefined ==
  ASSUME TypeOK, NEW h \in Handlers, NEW b \in Bookings, NEW me \in Profiles,
         NEW p \in Profiles, CreateBooking(h, b, me, p)
  PROVE  Lifecycle!Request(b)
<1>1. booking[b] = None /\ booking'[b] \in BookingRow /\ booking'[b].status = "PENDING"
      /\ ~booking'[b].completedAt
  BY DEF CreateBooking, TypeOK, BookingRow, Status
<1>2. booking'[b] # None
  BY <1>1, BookingConstants
<1>3. \A c \in Bookings : c # b => booking'[c] = booking[c]
  BY DEF CreateBooking, TypeOK
<1>4. StatusOf(b) = "ABSENT" /\ StatusOf(b)' = "PENDING"
  BY <1>1, <1>2 DEF StatusOf
<1>5. \A c \in Bookings : c # b => StatusOf(c)' = StatusOf(c)
  BY <1>3 DEF StatusOf
<1>6. Completed' = Completed /\ Reviewed' = Reviewed
  BY <1>1, <1>3 DEF Completed, Reviewed, CreateBooking
<1> QED BY <1>4, <1>5, <1>6 DEF Lifecycle!Request, Lifecycle!Move

\* A new review, or the exception the unique constraint raises.
LEMMA ReviewRefined ==
  ASSUME Inv, NEW h \in Handlers, WriteReview(h)
  PROVE  \/ \E b \in Bookings : Lifecycle!CommitReview(b) /\ b = req[h].booking
         \/ UNCHANGED <<booking, review>>
<1> TypeOK
  BY DEF Inv
<1> PICK b, me : b = req[h].booking /\ me = req[h].profile
  OBVIOUS
<1>1. req[h] \in Request /\ b \in Bookings /\ me \in Profiles
  BY DEF WriteReview, TypeOK, Request
<1>2. CASE review[b] # None
  BY <1>2 DEF WriteReview
<1>3. CASE review[b] = None
  <2>1. review' = [review EXCEPT ![b] = me] /\ booking' = booking
    BY <1>3 DEF WriteReview
  <2>2. me # None
    BY <1>1, BookingConstants
  <2>3. Reviewed' = Reviewed \cup {b} /\ b \notin Reviewed
    BY <1>1, <1>3, <2>1, <2>2 DEF Reviewed, TypeOK
  <2>4. b \in Completed
    BY DEF WriteReview, Inv, RequestSound
  <2>5. Completed' = Completed
    BY <2>1 DEF Completed
  <2>6. [c \in Bookings |-> StatusOf(c)]' = [c \in Bookings |-> StatusOf(c)]
    BY <2>1 DEF StatusOf
  <2> QED BY <1>1, <2>3, <2>4, <2>5, <2>6 DEF Lifecycle!CommitReview
<1> QED BY <1>2, <1>3

LEMMA StutterRefined ==
  ASSUME UNCHANGED <<booking, review>>
  PROVE  UNCHANGED Lifecycle!vars
BY DEF Lifecycle!vars, StatusOf, Completed, Reviewed

LEMMA RefinementStep ==
  Inv /\ [Next]_vars => [Lifecycle!CommittedNext]_(Lifecycle!vars)
<1> SUFFICES ASSUME Inv, [Next]_vars
             PROVE  Lifecycle!CommittedNext \/ UNCHANGED Lifecycle!vars
  OBVIOUS
<1> TypeOK
  BY DEF Inv
<1>1. CASE \E h \in Handlers : WriteTransition(h)
  BY <1>1, CommitRefined DEF Lifecycle!CommittedNext
<1>2. CASE \E h \in Handlers, b \in Bookings, me \in Profiles, p \in Profiles :
             CreateBooking(h, b, me, p)
  BY <1>2, RequestRefined DEF Lifecycle!CommittedNext
<1>3. CASE \E h \in Handlers : WriteReview(h)
  BY <1>3, ReviewRefined, StutterRefined DEF Lifecycle!CommittedNext
<1> QED BY <1>1, <1>2, <1>3, Writers, StutterRefined

\* However requests overlap or fail, the rows follow CommittedSpec: PENDING is
\* left once, by acceptance or cancellation, and a booking is reviewed at most
\* once, only if it was completed.
THEOREM Refinement == Spec => ImplementsCommitted
<1>1. Init => Lifecycle!Init
  BY RefinementInit
<1>2. Inv /\ [Next]_vars => [Lifecycle!CommittedNext]_(Lifecycle!vars)
  BY RefinementStep
<1> QED BY <1>1, <1>2, Invariance, PTL
        DEF Spec, ImplementsCommitted, Lifecycle!CommittedSpec
-----------------------------------------------------------------------------
(***************************************************************************)
(* Requests that do not overlap.  The lifecycle of the validator's table,  *)
(* for every execution in which no two requests on one booking overlap:    *)
(* requests on different bookings may, and any await may fail.  And the    *)
(* trust figures, fresh between requests when no two requests on the       *)
(* bookings of one provider overlap and no await fails.                    *)
(***************************************************************************)

LEMMA ExclusiveInit == Init => ExclusiveInv
BY DEF Init, ExclusiveInv, StampsSound, StillValid

\* A step serves one slot.
LEMMA OneSlot ==
  ASSUME TypeOK, [Next]_vars, NEW k \in Handlers, req'[k] # req[k]
  PROVE  \/ Arrive(k) \/ Continue(k) \/ Fail(k)
         \/ \E p \in Profiles : LoseNotification(k, p)
<1>1. ASSUME NEW h \in Handlers, h # k,
             \/ Arrive(h) \/ Continue(h) \/ Fail(h)
             \/ \E p \in Profiles : LoseNotification(h, p)
      PROVE  req'[k] = req[k]
  BY <1>1
     DEF Arrive, Continue, CreateBooking, StartTransition, StartReview, CheckReview,
         WriteTransition, WriteReview, TrustRead, TrustUpsert, Notify,
         LoseNotification, Fail, Goto, End, TypeOK
<1> QED BY <1>1 DEF Next, vars

\* Only the request that holds a booking writes its row.
LEMMA OnlyOwner ==
  ASSUME Inv, Exclusive, [Next]_vars, NEW k \in Handlers, req[k] # None,
         req'[k] = req[k]
  PROVE  booking'[req[k].booking] = booking[req[k].booking]
<1> TypeOK
  BY DEF Inv
<1> DEFINE b == req[k].booking
<1>1. b \in Bookings /\ booking[b] # None
  BY DEF Inv, RequestSound, TypeOK, Request
<1>2. ASSUME NEW h \in Handlers, WriteTransition(h)
      PROVE  booking'[b] = booking[b]
  <2>1. req[h] \in Request /\ req[h].op \in StatusOp
    BY <1>2 DEF WriteTransition, TypeOK
  <2>2. req'[h].pc \in {"trust", "notify"} /\ req[h].pc = "write"
    BY <1>2, <2>1, Tables DEF WriteTransition, Goto, TypeOK, Request
  <2>3. h # k
    BY <2>2
  <2>4. req[h].booking # b
    BY <1>2, <2>3 DEF WriteTransition, Exclusive
  <2> QED BY <1>1, <1>2, <2>4 DEF WriteTransition, TypeOK
<1>3. ASSUME NEW h \in Handlers, NEW c \in Bookings, NEW me \in Profiles,
             NEW p \in Profiles, CreateBooking(h, c, me, p)
      PROVE  booking'[b] = booking[b]
  BY <1>1, <1>3 DEF CreateBooking, TypeOK
<1> QED BY <1>2, <1>3, Writers

LEMMA StillValidStep ==
  Inv /\ Exclusive /\ ExclusiveInv /\ [Next]_vars
    => \A k \in Handlers : StillValid(k)'
<1> SUFFICES ASSUME Inv, Exclusive, ExclusiveInv, [Next]_vars, NEW k \in Handlers,
                    req'[k] # None
             PROVE  StillValid(k)'
  BY DEF StillValid
<1> TypeOK
  BY DEF Inv
<1>1. CASE req'[k] = req[k]
  BY <1>1, OnlyOwner DEF ExclusiveInv, StillValid, MayTransition
<1>2. ASSUME NEW b \in Bookings, NEW me \in Profiles, NEW p \in Profiles,
             CreateBooking(k, b, me, p)
      PROVE  StillValid(k)'
  BY <1>2 DEF CreateBooking, NewRequest, StillValid, TypeOK, StatusOp
<1>3. ASSUME NEW o \in StatusOp, NEW b \in Bookings, NEW me \in Profiles,
             StartTransition(k, o, b, me)
      PROVE  StillValid(k)'
  BY <1>3 DEF StartTransition, NewRequest, StillValid, TypeOK, StatusOp, MayTransition
<1>4. ASSUME NEW b \in Bookings, NEW me \in Profiles, StartReview(k, b, me)
      PROVE  StillValid(k)'
  BY <1>4 DEF StartReview, NewRequest, StillValid, TypeOK, StatusOp
<1>5. ASSUME CheckReview(k)
      PROVE  StillValid(k)'
  <2>1. req[k] \in Request /\ req'[k] = [req[k] EXCEPT !.pc = "write"]
    BY <1>5 DEF CheckReview, Goto, End, TypeOK
  <2>2. /\ req'[k].op = req[k].op
        /\ req'[k].booking = req[k].booking
        /\ booking' = booking
    BY <1>5, <2>1 DEF CheckReview, Request
  <2>3. req[k].op = "review" => booking[req[k].booking].status = "COMPLETED"
    BY <1>5 DEF CheckReview, ExclusiveInv, StillValid
  <2>4. req[k].op \notin StatusOp
    BY <1>5 DEF CheckReview, Inv, RequestSound, StatusOp
  <2> QED BY <2>2, <2>3, <2>4 DEF StillValid
<1>6. ASSUME WriteTransition(k) \/ WriteReview(k) \/ TrustUpsert(k)
      PROVE  StillValid(k)'
  <2>1. req[k] \in Request
    BY <1>6 DEF WriteTransition, WriteReview, TrustUpsert, TypeOK
  <2>2. req'[k].pc \in {"trust", "notify"}
    BY <1>6, <2>1, Tables
       DEF WriteTransition, WriteReview, TrustUpsert, Goto, End, TypeOK, Request
  <2> QED BY <2>2 DEF StillValid
<1>7. ASSUME NEW q \in Query, TrustRead(k, q)
      PROVE  StillValid(k)'
  <2>1. req[k] \in Request /\ req[k].pc = "trust"
    BY <1>7 DEF TrustRead, TypeOK
  <2>2. req'[k].pc = "trust"
    BY <1>7, <2>1 DEF TrustRead, TypeOK, Request
  <2> QED BY <2>2 DEF StillValid
<1>8. ASSUME NEW p \in Profiles, Notify(k, p) \/ LoseNotification(k, p)
      PROVE  StillValid(k)'
  <2>1. req[k] \in Request /\ req[k].pc = "notify"
    BY <1>8 DEF Notify, LoseNotification, TypeOK
  <2>2. req'[k].pc = "notify"
    BY <1>8, <2>1 DEF Notify, LoseNotification, End, TypeOK, Request
  <2> QED BY <2>2 DEF StillValid
<1>9. ASSUME Fail(k)
      PROVE  StillValid(k)'
  BY <1>9 DEF Fail, End, TypeOK
<1> QED
  BY <1>1, <1>2, <1>3, <1>4, <1>5, <1>6, <1>7, <1>8, <1>9, OneSlot
     DEF Arrive, Continue

LEMMA StampsStep == Inv /\ ExclusiveInv /\ [Next]_vars => StampsSound'
<1> SUFFICES ASSUME Inv, ExclusiveInv, [Next]_vars, NEW b \in Bookings,
                    booking'[b] # None
             PROVE  /\ booking'[b].cancelledAt => booking'[b].status = "CANCELLED"
                    /\ booking'[b].completedAt =>
                         booking'[b].status \in {"COMPLETED", "DISPUTED"}
  BY DEF StampsSound
<1> TypeOK
  BY DEF Inv
<1>1. CASE booking'[b] = booking[b]
  BY <1>1 DEF ExclusiveInv, StampsSound
<1>2. ASSUME NEW h \in Handlers, NEW me \in Profiles, NEW p \in Profiles,
             NEW c \in Bookings, CreateBooking(h, c, me, p), booking'[b] # booking[b]
      PROVE  ~booking'[b].cancelledAt /\ ~booking'[b].completedAt
  BY <1>2 DEF CreateBooking, TypeOK
<1>3. ASSUME NEW h \in Handlers, WriteTransition(h), booking'[b] # booking[b]
      PROVE  /\ booking'[b].cancelledAt => booking'[b].status = "CANCELLED"
             /\ booking'[b].completedAt =>
                  booking'[b].status \in {"COMPLETED", "DISPUTED"}
  <2> PICK o : o = req[h].op
    OBVIOUS
  <2>1. req[h] \in Request /\ o \in StatusOp /\ req[h].booking = b
    BY <1>3 DEF WriteTransition, TypeOK
  <2>2. booking[b] \in BookingRow /\ booking[b] # None
    BY <1>3, <2>1 DEF WriteTransition, Inv, RequestSound, TypeOK
  <2>3. booking'[b] = Updated(booking[b], o)
    BY <1>3, <2>1 DEF WriteTransition, TypeOK
  <2>4. booking[b].status \in allowedTransitions[o]
    BY <1>3, <2>1 DEF ExclusiveInv, StillValid, MayTransition, WriteTransition
  <2>5. /\ booking[b].cancelledAt => booking[b].status = "CANCELLED"
        /\ booking[b].completedAt => booking[b].status \in {"COMPLETED", "DISPUTED"}
    BY <2>2 DEF ExclusiveInv, StampsSound
  <2>6. ~booking[b].cancelledAt /\ (booking[b].completedAt => o = "dispute")
    BY <2>1, <2>4, <2>5 DEF allowedTransitions, StatusOp
  <2> QED BY <2>1, <2>2, <2>3, <2>6, UpdatedGrows DEF targetStatus, StatusOp
<1> QED BY <1>1, <1>2, <1>3, Writers

LEMMA ExclusiveInvariance == Spec /\ []Exclusive => []ExclusiveInv
<1>1. Inv /\ Exclusive /\ ExclusiveInv /\ [Next]_vars => ExclusiveInv'
  BY StillValidStep, StampsStep DEF ExclusiveInv
<1> QED BY <1>1, ExclusiveInit, Invariance, PTL DEF Spec

\* An update that is still valid is a step of the strict lifecycle.
LEMMA StrictCommit ==
  ASSUME Inv, NEW h \in Handlers, StillValid(h), WriteTransition(h)
  PROVE  Lifecycle!Next
<1> PICK b \in Bookings, to \in {"ACCEPTED", "COMPLETED", "CANCELLED", "DISPUTED"} :
         /\ Lifecycle!Commit(b, to)
         /\ b = req[h].booking
         /\ to = targetStatus[req[h].op]
         /\ req[h].op \in StatusOp
  BY CommitRefined
<1> PICK o \in StatusOp : o = req[h].op
  OBVIOUS
<1>1. booking[b] # None /\ booking[b].status \in allowedTransitions[o]
  BY DEF StillValid, MayTransition, WriteTransition, Inv, RequestSound
<1>2. StatusOf(b) \in allowedTransitions[o] \ {"IN_PROGRESS"}
  BY <1>1 DEF StatusOf, Inv, RowsSound
<1>3. CASE o = "accept"
  <2>1. StatusOf(b) = "PENDING" /\ to = "ACCEPTED"
    BY <1>2, <1>3 DEF allowedTransitions, targetStatus
  <2>2. Lifecycle!Accept(b)
    BY <2>1 DEF Lifecycle!Commit, Lifecycle!Accept, Lifecycle!Move
  <2> QED BY <2>2 DEF Lifecycle!Next
<1>4. CASE o = "complete"
  <2>1. StatusOf(b) = "ACCEPTED" /\ to = "COMPLETED"
    BY <1>2, <1>4 DEF allowedTransitions, targetStatus
  <2>2. Lifecycle!Complete(b)
    BY <2>1 DEF Lifecycle!Commit, Lifecycle!Complete, Lifecycle!Move
  <2> QED BY <2>2 DEF Lifecycle!Next
<1>5. CASE o = "cancel"
  <2>1. StatusOf(b) \in {"PENDING", "ACCEPTED"} /\ to = "CANCELLED"
    BY <1>2, <1>5 DEF allowedTransitions, targetStatus
  <2>2. Lifecycle!Cancel(b)
    BY <2>1 DEF Lifecycle!Commit, Lifecycle!Cancel, Lifecycle!Move
  <2> QED BY <2>2 DEF Lifecycle!Next
<1>6. CASE o = "dispute"
  <2>1. StatusOf(b) \in {"ACCEPTED", "COMPLETED"} /\ to = "DISPUTED"
    BY <1>2, <1>6 DEF allowedTransitions, targetStatus
  <2>2. Lifecycle!Dispute(b)
    BY <2>1 DEF Lifecycle!Commit, Lifecycle!Dispute, Lifecycle!Move
  <2> QED BY <2>2 DEF Lifecycle!Next
<1> QED BY <1>3, <1>4, <1>5, <1>6 DEF StatusOp

\* A review whose booking is still COMPLETED is a step of the strict lifecycle.
LEMMA StrictReview ==
  ASSUME Inv, NEW h \in Handlers, StillValid(h), WriteReview(h)
  PROVE  Lifecycle!Next \/ UNCHANGED <<booking, review>>
<1>1. CASE UNCHANGED <<booking, review>>
  BY <1>1
<1>2. CASE \E b \in Bookings : Lifecycle!CommitReview(b) /\ b = req[h].booking
  <2> PICK b \in Bookings : Lifecycle!CommitReview(b) /\ b = req[h].booking
    BY <1>2
  <2>1. StatusOf(b) = "COMPLETED"
    BY DEF StatusOf, StillValid, WriteReview, Inv, RequestSound
  <2>2. Lifecycle!Review(b)
    BY <2>1 DEF Lifecycle!CommitReview, Lifecycle!Review
  <2> QED BY <2>2 DEF Lifecycle!Next
<1> QED BY <1>1, <1>2, ReviewRefined

LEMMA StrictStep ==
  Inv /\ ExclusiveInv /\ [Next]_vars => [Lifecycle!Next]_(Lifecycle!vars)
<1> SUFFICES ASSUME Inv, ExclusiveInv, [Next]_vars
             PROVE  Lifecycle!Next \/ UNCHANGED Lifecycle!vars
  OBVIOUS
<1> TypeOK
  BY DEF Inv
<1>1. CASE \E h \in Handlers : WriteTransition(h)
  BY <1>1, StrictCommit DEF ExclusiveInv
<1>2. CASE \E h \in Handlers, b \in Bookings, me \in Profiles, p \in Profiles :
             CreateBooking(h, b, me, p)
  BY <1>2, RequestRefined DEF Lifecycle!Next
<1>3. CASE \E h \in Handlers : WriteReview(h)
  BY <1>3, StrictReview, StutterRefined DEF ExclusiveInv
<1> QED BY <1>1, <1>2, <1>3, Writers, StutterRefined

\* validateStatusTransition: as long as no two requests on one booking overlap,
\* every status change follows the table, and every review is of a booking
\* that is COMPLETED at that moment.
THEOREM StrictRefinement == Spec /\ []Exclusive => ImplementsLifecycle
<1>1. Inv /\ ExclusiveInv /\ [Next]_vars => [Lifecycle!Next]_(Lifecycle!vars)
  BY StrictStep
<1> QED BY <1>1, RefinementInit, Invariance, ExclusiveInvariance, PTL
        DEF Spec, ImplementsLifecycle, Lifecycle!Spec

\* completeBooking, cancelBooking: under the same condition no row says both
\* that the work was done and that it was called off.
THEOREM StampsAgree == Spec /\ []Exclusive => []NoContradictoryStamps
<1>1. ExclusiveInv => NoContradictoryStamps
  BY DEF ExclusiveInv, StampsSound, NoContradictoryStamps, Completed, Cancelled
<1> QED BY <1>1, ExclusiveInvariance, PTL

-----------------------------------------------------------------------------
\* No two requests on bookings of one provider overlap.
OnePerProvider ==
  \A h, k \in Handlers :
    h # k /\ InFlight(h) /\ InFlight(k) => ProviderOf(h) # ProviderOf(k)

UpToDate(p) ==
  /\ score[p].completed = InStatus(p, "COMPLETED")
  /\ score[p].disputes = InStatus(p, "DISPUTED")
  /\ score[p].reviews = ReviewsOf(p)

AtTrust(h) == InFlight(h) /\ req[h].pc = "trust"

\* What the queries have answered so far is still so.
Calculated(h) ==
  /\ "bookings" \in req[h].got => req[h].calc.completed = InStatus(ProviderOf(h), "COMPLETED")
  /\ "disputes" \in req[h].got => req[h].calc.disputes = InStatus(ProviderOf(h), "DISPUTED")
  /\ "reviews" \in req[h].got => req[h].calc.reviews = ReviewsOf(ProviderOf(h))

\* A score is out of date only while a request is about to write it anew.
FreshInv ==
  /\ \A h \in Handlers : InFlight(h) /\ req[h].pc # "trust" => req[h].got = {}
  /\ \A h \in Handlers : AtTrust(h) => Calculated(h)
  /\ \A p \in Profiles : UpToDate(p) \/ \E h \in Handlers : AtTrust(h) /\ ProviderOf(h) = p

SameFigures(p) ==
  /\ InStatus(p, "COMPLETED")' = InStatus(p, "COMPLETED")
  /\ InStatus(p, "DISPUTED")' = InStatus(p, "DISPUTED")
  /\ ReviewsOf(p)' = ReviewsOf(p)

\* A row that changes within one status of the figures changes no figure.
LEMMA FiguresOfRow ==
  ASSUME NEW b \in Bookings, NEW p,
         \A c \in Bookings : c # b => booking'[c] = booking[c] /\ review'[c] = review[c],
         \/ /\ booking[b] # None /\ booking'[b] # None
            /\ booking[b].provider = booking'[b].provider
            /\ p = booking[b].provider =>
                 /\ booking[b].status \notin {"COMPLETED", "DISPUTED"}
                 /\ booking'[b].status \notin {"COMPLETED", "DISPUTED"}
                 /\ review'[b] = review[b]
         \/ /\ booking[b] = None /\ booking'[b] # None
            /\ booking'[b].status \notin {"COMPLETED", "DISPUTED"}
            /\ review'[b] = None
  PROVE  SameFigures(p)
<1>1. \A c \in Bookings :
        /\ c \in InStatus(p, "COMPLETED")' <=> c \in InStatus(p, "COMPLETED")
        /\ c \in InStatus(p, "DISPUTED")' <=> c \in InStatus(p, "DISPUTED")
        /\ c \in ReviewsOf(p)' <=> c \in ReviewsOf(p)
  BY DEF InStatus, ReviewsOf, JobsOf
<1>2. /\ InStatus(p, "COMPLETED") \subseteq Bookings /\ InStatus(p, "COMPLETED")' \subseteq Bookings
      /\ InStatus(p, "DISPUTED") \subseteq Bookings /\ InStatus(p, "DISPUTED")' \subseteq Bookings
      /\ ReviewsOf(p) \subseteq Bookings /\ ReviewsOf(p)' \subseteq Bookings
  BY DEF InStatus, ReviewsOf, JobsOf
<1> QED
  BY <1>1, <1>2 DEF SameFigures

\* The rows of the requests in flight keep their providers.
LEMMA ProvidersKept ==
  ASSUME Inv, [Next]_vars, NEW h \in Handlers, InFlight(h), InFlight(h)',
         req'[h].booking = req[h].booking
  PROVE  ProviderOf(h)' = ProviderOf(h)
<1>1. req[h].booking \in Bookings /\ Exists(req[h].booking) /\ Grows
  BY Growth DEF Inv, RequestSound, TypeOK, Request
<1> QED
  BY <1>1 DEF Grows, RowGrows, ProviderOf

\* What a step of the request in slot h owes the others.
LEMMA FreshSlot ==
  ASSUME Inv, [Next]_vars, FreshInv, OnePerProvider, NEW h \in Handlers,
         \A k \in Handlers : k # h => req'[k] = req[k],
         InFlight(h)' /\ req'[h].pc # "trust" => req'[h].got = {},
         AtTrust(h)' => Calculated(h)',
         \A p \in Profiles : SameFigures(p) \/ (InFlight(h) /\ p = ProviderOf(h)),
         \A p \in Profiles :
           \/ /\ SameFigures(p) /\ score'[p] = score[p]
              /\ AtTrust(h) /\ ProviderOf(h) = p => AtTrust(h)' /\ ProviderOf(h)' = p
           \/ UpToDate(p)'
           \/ AtTrust(h)' /\ ProviderOf(h)' = p
  PROVE  FreshInv'
<1>1. \A k \in Handlers : InFlight(k)' /\ req'[k].pc # "trust" => req'[k].got = {}
  BY DEF FreshInv
<1>2. ASSUME NEW k \in Handlers, k # h, AtTrust(k)'
      PROVE  Calculated(k)'
  <2>1. AtTrust(k) /\ req'[k] = req[k]
    BY <1>2 DEF AtTrust
  <2>2. PICK p \in Profiles : p = ProviderOf(k) /\ p = ProviderOf(k)'
    <3>1. ProviderOf(k)' = ProviderOf(k)
      BY <2>1, ProvidersKept DEF AtTrust
    <3>2. req[k].booking \in Bookings /\ booking[req[k].booking] # None
      BY <2>1 DEF AtTrust, Inv, RequestSound, TypeOK, Request
    <3>3. ProviderOf(k) \in Profiles
      BY <3>2 DEF ProviderOf, Inv, TypeOK, BookingRow
    <3> QED
      BY <3>1, <3>3
  <2>3. SameFigures(p)
    BY <1>2, <2>1, <2>2 DEF OnePerProvider, AtTrust
  <2>4. Calculated(k)
    BY <2>1 DEF FreshInv
  <2> QED
    BY <2>1, <2>2, <2>3, <2>4 DEF Calculated, SameFigures
<1>3. ASSUME NEW p \in Profiles
      PROVE  UpToDate(p)' \/ \E k \in Handlers : AtTrust(k)' /\ ProviderOf(k)' = p
  <2>1. CASE /\ SameFigures(p) /\ score'[p] = score[p]
             /\ AtTrust(h) /\ ProviderOf(h) = p => AtTrust(h)' /\ ProviderOf(h)' = p
    <3>1. CASE UpToDate(p)
      BY <2>1, <3>1 DEF UpToDate, SameFigures
    <3>2. ASSUME NEW k \in Handlers, AtTrust(k), ProviderOf(k) = p
          PROVE  AtTrust(k)' /\ ProviderOf(k)' = p
      <4>1. CASE k = h
        BY <2>1, <3>2, <4>1
      <4>2. CASE k # h
        <5>1. req'[k] = req[k] /\ AtTrust(k)'
          BY <3>2, <4>2 DEF AtTrust
        <5> QED
          BY <3>2, <5>1, ProvidersKept DEF AtTrust
      <4> QED
        BY <4>1, <4>2
    <3> QED
      BY <3>1, <3>2 DEF FreshInv
  <2> QED
    BY <2>1
<1> QED
  BY <1>1, <1>2, <1>3 DEF FreshInv

\* A step that leaves rows, reviews and scores alone, and is not at recalculate.
LEMMA FreshQuiet ==
  ASSUME Inv, [Next]_vars, FreshInv, OnePerProvider, NEW h \in Handlers,
         \A k \in Handlers : k # h => req'[k] = req[k],
         ~AtTrust(h), ~AtTrust(h)', UNCHANGED <<booking, review, score>>,
         InFlight(h)' => req'[h].got = {}
  PROVE  FreshInv'
<1>1. \A p \in Profiles : SameFigures(p)
  BY DEF SameFigures, InStatus, ReviewsOf, JobsOf
<1> QED
  BY <1>1, FreshSlot

LEMMA FreshWrite ==
  ASSUME Inv, ExclusiveInv, [Next]_vars, FreshInv, OnePerProvider, NEW h \in Handlers,
         \A k \in Handlers : k # h => req'[k] = req[k],
         WriteTransition(h) \/ WriteReview(h)
  PROVE  FreshInv'
<1>1. /\ TypeOK /\ StillValid(h) /\ req[h] \in Request
      /\ InFlight(h) /\ req[h].pc = "write" /\ ~AtTrust(h) /\ UNCHANGED score
      /\ RequestSound(h) /\ req[h].got = {}
  BY DEF Inv, TypeOK, ExclusiveInv, WriteTransition, WriteReview, AtTrust, FreshInv
<1>2. PICK b \in Bookings, o \in Operation : b = req[h].booking /\ o = req[h].op
  BY <1>1 DEF Request
<1>3. /\ booking[b] \in BookingRow /\ booking[b] # None
      /\ booking[b].provider = ProviderOf(h)
  BY <1>1, <1>2 DEF RequestSound, TypeOK, ProviderOf
<1>4. \A c \in Bookings : c # b => booking'[c] = booking[c] /\ review'[c] = review[c]
  BY <1>1, <1>2 DEF WriteTransition, WriteReview, TypeOK
<1>5. booking'[b] # None /\ booking'[b].provider = booking[b].provider
  BY <1>3, Growth DEF Grows, RowGrows
<1>6. \A p \in Profiles : p # ProviderOf(h) => SameFigures(p)
  BY <1>3, <1>4, <1>5, FiguresOfRow
<1>7. CASE WriteTransition(h) /\ o \in {"accept", "cancel"}
  <2>1. req'[h] = [req[h] EXCEPT !.pc = "notify"]
    BY <1>1, <1>2, <1>7 DEF WriteTransition, Goto, AfterWrite, Recalculating, TypeOK
  <2>2. InFlight(h)' /\ ~AtTrust(h)' /\ req'[h].got = {}
    BY <1>1, <2>1, BookingConstants DEF Request, PC, AtTrust
  <2>3. booking[b].status \in allowedTransitions[o]
    BY <1>1, <1>2, <1>7 DEF StillValid, WriteTransition, MayTransition
  <2>4. booking'[b].status = targetStatus[o] /\ review' = review
    BY <1>1, <1>2, <1>3, <1>7, UpdatedGrows DEF WriteTransition, TypeOK
  <2>5. \A p \in Profiles : SameFigures(p)
    BY <1>3, <1>4, <1>5, <1>7, <2>3, <2>4, FiguresOfRow DEF allowedTransitions, targetStatus
  <2> QED
    BY <1>1, <2>2, <2>5, FreshSlot
<1>8. CASE \/ WriteTransition(h) /\ o \notin {"accept", "cancel"}
           \/ WriteReview(h) /\ req'[h] # None
  <2>1. req'[h] = [req[h] EXCEPT !.pc = "trust"]
    BY <1>1, <1>2, <1>8
       DEF WriteTransition, WriteReview, Goto, End, AfterWrite, Recalculating, TypeOK, StatusOp
  <2>2. /\ InFlight(h)' /\ req'[h].pc = "trust" /\ req'[h].got = {}
        /\ req'[h].booking = req[h].booking
    BY <1>1, <2>1, BookingConstants DEF Request, PC
  <2>3. AtTrust(h)' /\ Calculated(h)'
    BY <2>2 DEF AtTrust, Calculated
  <2>4. ProviderOf(h)' = ProviderOf(h)
    BY <1>1, <2>2, ProvidersKept
  <2> QED
    BY <1>1, <1>6, <2>2, <2>3, <2>4, FreshSlot
<1>9. CASE WriteReview(h) /\ req'[h] = None
  <2>1. UNCHANGED <<booking, review>>
    <3>1. [req[h] EXCEPT !.pc = "trust"] # None
      BY <1>1, BookingConstants DEF Request, PC
    <3>2. ~Goto(h, "trust")
      BY <1>9, <3>1 DEF Goto, Inv, TypeOK
    <3> QED
      BY <1>9, <3>2 DEF WriteReview, AfterWrite, Recalculating
  <2> QED
    BY <1>1, <1>9, <2>1, FreshQuiet DEF AtTrust
<1> QED
  BY <1>7, <1>8, <1>9

LEMMA FreshTrust ==
  ASSUME Inv, [Next]_vars, FreshInv, OnePerProvider, NEW h \in Handlers,
         \A k \in Handlers : k # h => req'[k] = req[k],
         (\E q \in Query : TrustRead(h, q)) \/ TrustUpsert(h)
  PROVE  FreshInv'
<1>1. /\ TypeOK /\ req[h] \in Request /\ AtTrust(h) /\ Calculated(h) /\ RequestSound(h)
      /\ UNCHANGED <<booking, review>>
  BY DEF Inv, TypeOK, TrustRead, TrustUpsert, AtTrust, FreshInv
<1>2. \A p \in Profiles : SameFigures(p)
  BY <1>1 DEF SameFigures, InStatus, ReviewsOf, JobsOf
<1>3. PICK p \in Profiles : p = ProviderOf(h)
  BY <1>1 DEF AtTrust, RequestSound, TypeOK, BookingRow, Request, ProviderOf
<1>4. ASSUME NEW q \in Query, TrustRead(h, q)
      PROVE  FreshInv'
  <2>1. /\ req[h].calc \in Score /\ req[h].got \subseteq Query
        /\ req'[h] = [req[h] EXCEPT !.calc = Answer(req[h].calc, q, p), !.got = req[h].got \cup {q}]
    BY <1>1, <1>3, <1>4 DEF TrustRead, TypeOK, Request
  <2>2. PICK c : c = Answer(req[h].calc, q, p)
    OBVIOUS
  <2>3. /\ req'[h].pc = "trust" /\ req'[h].booking = req[h].booking
        /\ req'[h].calc = c /\ req'[h].got = req[h].got \cup {q}
        /\ InFlight(h)'
    <3>1. c \in Score /\ req[h].got \cup {q} \in SUBSET Query
      BY <2>1, <2>2, AnswerType
    <3>2. PICK g : g = req[h].got \cup {q}
      OBVIOUS
    <3>3. req'[h] = [req[h] EXCEPT !.calc = c, !.got = g] /\ g \in SUBSET Query
      BY <2>1, <2>2, <3>1, <3>2
    <3>4. req'[h] \in Request /\ req'[h].pc = req[h].pc /\ req'[h].booking = req[h].booking
          /\ req'[h].calc = c /\ req'[h].got = g
      BY <1>1, <3>1, <3>3 DEF Request
    <3> QED
      BY <1>1, <3>2, <3>4, BookingConstants DEF AtTrust
  <2>4. /\ q = "bookings" => c.completed = InStatus(p, "COMPLETED")
        /\ q # "bookings" => c.completed = req[h].calc.completed
        /\ q = "disputes" => c.disputes = InStatus(p, "DISPUTED")
        /\ q # "disputes" => c.disputes = req[h].calc.disputes
        /\ q = "reviews" => c.reviews = ReviewsOf(p)
        /\ q # "reviews" => c.reviews = req[h].calc.reviews
    BY <2>1, <2>2 DEF Answer, Score, Query
  <2>5. ProviderOf(h)' = p
    BY <1>1, <1>3, <2>3 DEF ProviderOf
  <2>6. AtTrust(h)' /\ Calculated(h)'
    BY <1>1, <1>2, <1>3, <2>3, <2>4, <2>5 DEF AtTrust, Calculated, SameFigures
  <2> QED
    BY <1>1, <1>2, <1>3, <1>4, <2>3, <2>5, <2>6, FreshSlot DEF TrustRead
<1>5. CASE TrustUpsert(h)
  <2>1. /\ score'[p] = req[h].calc /\ \A r \in Profiles \ {p} : score'[r] = score[r]
        /\ req[h].got = Query
    BY <1>1, <1>3, <1>5 DEF TrustUpsert, TypeOK
  <2>2. UpToDate(p)'
    BY <1>1, <1>2, <1>3, <2>1 DEF UpToDate, SameFigures, Calculated, Query
  <2>3. [req[h] EXCEPT !.pc = "notify", !.calc = NoScore, !.got = {}] \in Request
    BY <1>1 DEF Request, PC, NoScore, Score
  <2>4. req'[h] = [req[h] EXCEPT !.pc = "notify", !.calc = NoScore, !.got = {}]
    BY <1>1, <1>5 DEF TrustUpsert, TypeOK
  <2>5. req'[h].pc = "notify" /\ req'[h].got = {}
    BY <1>1, <2>4 DEF Request
  <2>6. \A r \in Profiles : r # p => score'[r] = score[r] /\ ProviderOf(h) # r
    BY <1>3, <2>1
  <2> QED
    BY <1>2, <2>2, <2>5, <2>6, FreshSlot DEF AtTrust
<1> QED
  BY <1>4, <1>5

\* The steps before recalculate that change no figure, and those after it.
LEMMA FreshOthers ==
  ASSUME Inv, [Next]_vars, FreshInv, OnePerProvider, NEW h \in Handlers,
         \A k \in Handlers : k # h => req'[k] = req[k],
         Arrive(h) \/ CheckReview(h) \/ \E p \in Profiles : Notify(h, p)
  PROVE  FreshInv'
<1> TypeOK
  BY DEF Inv
<1>1. ASSUME NEW b \in Bookings, NEW me \in Profiles, NEW p \in Profiles,
             CreateBooking(h, b, me, p)
      PROVE  FreshInv'
  <2>1. /\ booking[b] = None /\ booking'[b] # None /\ booking'[b].status = "PENDING"
        /\ \A c \in Bookings : c # b => booking'[c] = booking[c]
        /\ review' = review /\ score' = score
    <3>1. booking[b] = None /\ booking'[b] \in BookingRow /\ booking'[b].status = "PENDING"
      BY <1>1 DEF CreateBooking, TypeOK, BookingRow, Status
    <3>2. booking'[b] # None
      BY <3>1, BookingConstants
    <3>3. /\ \A c \in Bookings : c # b => booking'[c] = booking[c]
          /\ review' = review /\ score' = score
      BY <1>1 DEF CreateBooking, TypeOK
    <3> QED
      BY <3>1, <3>2, <3>3
  <2>2. review[b] = None
    BY <2>1 DEF Inv, ReviewSound, Reviewed, Completed
  <2>3. \A r \in Profiles : SameFigures(r)
    BY <2>1, <2>2, FiguresOfRow
  <2>4. ~AtTrust(h) /\ ~AtTrust(h)' /\ req'[h].got = {}
    BY <1>1 DEF CreateBooking, NewRequest, AtTrust, TypeOK
  <2> QED
    BY <2>1, <2>3, <2>4, FreshSlot
<1>2. CASE \E b \in Bookings, me \in Profiles :
             StartReview(h, b, me) \/ \E o \in StatusOp : StartTransition(h, o, b, me)
  <2>1. /\ ~AtTrust(h) /\ ~AtTrust(h)' /\ req'[h].got = {}
        /\ UNCHANGED <<booking, review, score>>
    BY <1>2 DEF StartReview, StartTransition, NewRequest, AtTrust, TypeOK
  <2> QED
    BY <2>1, FreshQuiet
<1>3. CASE CheckReview(h) \/ \E p \in Profiles : Notify(h, p)
  <2>1. /\ req[h] \in Request /\ InFlight(h) /\ ~AtTrust(h) /\ req[h].got = {}
        /\ UNCHANGED <<booking, review, score>>
    BY <1>3 DEF CheckReview, Notify, AtTrust, TypeOK, FreshInv
  <2>2. CASE req'[h] = None
    BY <2>1, <2>2, FreshQuiet DEF AtTrust
  <2>3. CASE CheckReview(h) /\ req'[h] # None
    <3>1. req'[h] = [req[h] EXCEPT !.pc = "write"]
      BY <2>1, <2>3 DEF CheckReview, Goto, End, TypeOK
    <3>2. req'[h].pc = "write" /\ req'[h].got = {}
      BY <2>1, <3>1 DEF Request
    <3> QED
      BY <2>1, <3>2, FreshQuiet DEF AtTrust
  <2>4. ASSUME NEW p \in Profiles, Notify(h, p), req'[h] # None
        PROVE  FreshInv'
    <3>1. req'[h] = [req[h] EXCEPT !.todo = req[h].todo \ {p}] /\ req[h].pc = "notify"
      BY <2>1, <2>4 DEF Notify, End, TypeOK
    <3>2. req'[h].pc = "notify" /\ req'[h].got = {}
      BY <2>1, <3>1 DEF Request
    <3> QED
      BY <2>1, <3>2, FreshQuiet DEF AtTrust
  <2> QED
    BY <1>3, <2>2, <2>3, <2>4
<1> QED
  BY <1>1, <1>2, <1>3 DEF Arrive

LEMMA FreshStep ==
  ~Faults /\ Inv /\ ExclusiveInv /\ OnePerProvider /\ FreshInv /\ [Next]_vars => FreshInv'
<1> SUFFICES ASSUME ~Faults, Inv, ExclusiveInv, OnePerProvider, FreshInv, [Next]_vars
             PROVE  FreshInv'
  OBVIOUS
<1>1. CASE UNCHANGED vars
  BY <1>1 DEF vars, FreshInv, AtTrust, Calculated, ProviderOf, UpToDate, InStatus,
              ReviewsOf, JobsOf
<1>2. ASSUME NEW h \in Handlers, Arrive(h) \/ Continue(h)
      PROVE  FreshInv'
  <2>1. \A k \in Handlers : k # h => req'[k] = req[k]
    BY <1>2 DEF Inv, TypeOK, Arrive, Continue, CreateBooking, StartTransition, StartReview,
                CheckReview, WriteTransition, WriteReview, TrustRead, TrustUpsert, Notify,
                Goto, End
  <2> QED
    BY <1>2, <2>1, FreshOthers, FreshWrite, FreshTrust DEF Continue
<1>3. \A h \in Handlers : ~Fail(h) /\ \A p \in Profiles : ~LoseNotification(h, p)
  BY DEF Fail, LoseNotification
<1> QED
  BY <1>1, <1>2, <1>3 DEF Next

\* recalculate: if no await throws, and the requests on the bookings of each
\* provider do not overlap, then no score is out of date between requests,
\* although not every handler recalculates, and the figures come from three queries.
THEOREM ScoresStayFresh ==
  ASSUME ~Faults
  PROVE  Spec /\ []OnePerProvider => []ScoreFresh
<1>1. Init => FreshInv
  BY DEF Init, FreshInv, AtTrust, UpToDate, NoScore, InStatus, ReviewsOf, JobsOf
<1>2. OnePerProvider => Exclusive
  BY DEF OnePerProvider, Exclusive, ProviderOf
<1>3. FreshInv => ScoreFresh
  BY DEF FreshInv, ScoreFresh, AtTrust, UpToDate
<1>4. Inv /\ ExclusiveInv /\ OnePerProvider /\ FreshInv /\ [Next]_vars => FreshInv'
  BY FreshStep
<1> QED
  BY <1>1, <1>2, <1>3, <1>4, Invariance, ExclusiveInvariance, PTL DEF Spec
=============================================================================
