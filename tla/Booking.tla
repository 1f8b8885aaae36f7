------------------------------ MODULE Booking ------------------------------
(***************************************************************************)
(* BookingService with the services it awaits: TrustService.recalculate    *)
(* and NotificationService.notify, over the PostgreSQL tables they share.  *)
(*                                                                         *)
(* A request is an async function.  Between two awaits it runs alone; at   *)
(* each await any other request may run.  No handler opens a transaction,  *)
(* so each database call is an atomic step of its own, and a row that was  *)
(* read and validated may change before it is written.  A handler in       *)
(* flight is a record in req; its pc names the await it is at:             *)
(*                                                                         *)
(*   check    review.findUnique            (submitReview only)             *)
(*   write    booking.update, review.create                                *)
(*   trust    the queries and the upsert of trustService.recalculate       *)
(*   notify   notification.create, once for every recipient                *)
(*                                                                         *)
(* A request that is rejected, or that throws, leaves req: nothing here    *)
(* depends on the HTTP status it answers with.  Redis is not modelled      *)
(* here: no write path reads a cache, and invalidateBookingCaches swallows *)
(* its own errors.                                                         *)
(***************************************************************************)
EXTENDS FiniteSets, BookingRules

CONSTANTS
  Users,       \* accounts
  Profiles,    \* UserProfile ids; an account may own several
  UserOf,      \* UserOf[p]: the account that owns profile p
  Onboarded,   \* profiles whose onboardingStatus is COMPLETED
  Bookings,    \* booking ids
  Handlers,    \* slots for requests in flight
  Ops,         \* the operations clients issue in this instance
  Faults,      \* may an await throw, or the process stop?
  None         \* no row, no request

Query == {"bookings", "reviews", "disputes"}
PC == {"check", "write", "trust", "notify"}

\* A row of table bookings: its parties, its status and whether completedAt,
\* cancelledAt and disputeReason are set.
BookingRow ==
  [customer: Profiles, provider: Profiles, status: Status,
   completedAt: BOOLEAN, cancelledAt: BOOLEAN, disputed: BOOLEAN]

\* What recalculate aggregates, as sets of bookings rather than their counts;
\* module TrustScore turns the counts into the score.
Score == [jobs: SUBSET Bookings, completed: SUBSET Bookings,
          reviews: SUBSET Bookings, disputes: SUBSET Bookings]
NoScore == [jobs |-> {}, completed |-> {}, reviews |-> {}, disputes |-> {}]

Request ==
  [op: Operation, pc: PC, booking: Bookings, profile: Profiles,
   todo: SUBSET Profiles, calc: Score, got: SUBSET Query]

Message == [type: NotificationType, booking: Bookings, to: Profiles]

ASSUME BookingConstants ==
  /\ UserOf \in [Profiles -> Users]
  /\ Onboarded \subseteq Profiles
  /\ Ops \subseteq Operation
  /\ Faults \in BOOLEAN
  /\ None \notin BookingRow \cup Request \cup Profiles

VARIABLES
  booking,       \* booking[b]: the row with id b, or None
  review,        \* review[b]: the profile that reviewed b, or None (bookingId is unique)
  notification,  \* the notifications created so far
  score,         \* score[p]: the TrustScore row of provider p; absent reads as zeros
  req            \* req[h]: the request slot h is serving, or None

vars == <<booking, review, notification, score, req>>

Init ==
  /\ booking = [b \in Bookings |-> None]
  /\ review = [b \in Bookings |-> None]
  /\ notification = {}
  /\ score = [p \in Profiles |-> NoScore]
  /\ req = [h \in Handlers |-> None]

-----------------------------------------------------------------------------
\* Validation

IsParty(b, me) == me \in {booking[b].customer, booking[b].provider}

MayTransition(o, b) == booking[b].status \in allowedTransitions[o]

MayCreate(me, p) == p \in Onboarded /\ me # p

ProfileOfRole(b, role) ==
  IF role = "customer" THEN booking[b].customer ELSE booking[b].provider

Recipients(o, b) == {ProfileOfRole(b, role) : role \in recipientsOf[o]}

-----------------------------------------------------------------------------
\* The requests.  The caller's profile is any profile of the account: the
\* lookup by userId is a findFirst without an order.

InFlight(h) == req[h] # None

NewRequest(o, at, b, me, todo) ==
  [op |-> o, pc |-> at, booking |-> b, profile |-> me,
   todo |-> todo, calc |-> NoScore, got |-> {}]

\* The request in slot h goes on to await `at`.
Goto(h, at) == req' = [req EXCEPT ![h].pc = at]

\* The request in slot h ends, with an answer or an exception.
End(h) == req' = [req EXCEPT ![h] = None]

\* createBooking: profiles do not change here, so validating and inserting
\* make one step.  The notification to the provider is awaited afterwards.
CreateBooking(h, b, me, p) ==
  /\ "create" \in Ops /\ ~InFlight(h) /\ booking[b] = None
  /\ MayCreate(me, p)
  /\ booking' = [booking EXCEPT ![b] =
        [customer |-> me, provider |-> p, status |-> "PENDING",
         completedAt |-> FALSE, cancelledAt |-> FALSE, disputed |-> FALSE]]
  /\ req' = [req EXCEPT ![h] = NewRequest("create", "notify", b, me, {p})]
  /\ UNCHANGED <<review, notification, score>>

\* accept, complete, cancel, dispute: validateBookingAccess reads the row and
\* the checks that follow run before the next await.
StartTransition(h, o, b, me) ==
  /\ o \in Ops \cap StatusOp /\ ~InFlight(h) /\ booking[b] # None
  /\ IsParty(b, me)
  /\ o = "accept" => me = booking[b].provider
  /\ MayTransition(o, b)
  /\ req' = [req EXCEPT ![h] = NewRequest(o, "write", b, me, Recipients(o, b))]
  /\ UNCHANGED <<booking, review, notification, score>>

\* Faulty: a review of a booking in any status.
StartReviewAnyStatus(h, b, me) ==
  /\ "review" \in Ops /\ ~InFlight(h) /\ booking[b] # None
  /\ me = booking[b].customer
  /\ req' = [req EXCEPT ![h] =
        NewRequest("review", "check", b, me, Recipients("review", b))]
  /\ UNCHANGED <<booking, review, notification, score>>

\* submitReview up to its first check: the caller is the customer and the row
\* read is COMPLETED.
StartReview(h, b, me) ==
  /\ "review" \in Ops /\ ~InFlight(h) /\ booking[b] # None
  /\ me = booking[b].customer
  /\ booking[b].status = "COMPLETED"
  /\ req' = [req EXCEPT ![h] =
        NewRequest("review", "check", b, me, Recipients("review", b))]
  /\ UNCHANGED <<booking, review, notification, score>>

\* submitReview: review.findUnique, and a ConflictException if there is one.
CheckReview(h) ==
  /\ InFlight(h) /\ req[h].pc = "check"
  /\ IF review[req[h].booking] = None THEN Goto(h, "write") ELSE End(h)
  /\ UNCHANGED <<booking, review, notification, score>>

AfterWrite(o) == IF o \in Recalculating THEN "trust" ELSE "notify"

\* Faulty: cancel stores its status without cancelledAt.
UpdatedUnstamped(row, o) ==
  [row EXCEPT !.status = targetStatus[o],
              !.completedAt = @ \/ o = "complete",
              !.disputed = @ \/ o = "dispute"]

\* The row as prisma.booking.update of handler o leaves it.
Updated(row, o) ==
  [row EXCEPT !.status = targetStatus[o],
              !.completedAt = @ \/ o = "complete",
              !.cancelledAt = @ \/ o = "cancel",
              !.disputed = @ \/ o = "dispute"]

\* prisma.booking.update is by id alone: the status is not compared again.
WriteTransition(h) ==
  /\ InFlight(h) /\ req[h].pc = "write" /\ req[h].op \in StatusOp
  /\ booking' = [booking EXCEPT ![req[h].booking] = Updated(@, req[h].op)]
  /\ Goto(h, AfterWrite(req[h].op))
  /\ UNCHANGED <<review, notification, score>>

\* review.create: the unique bookingId turns a second review into an exception.
WriteReview(h) ==
  /\ InFlight(h) /\ req[h].pc = "write" /\ req[h].op = "review"
  /\ IF review[req[h].booking] = None
       THEN /\ review' = [review EXCEPT ![req[h].booking] = req[h].profile]
            /\ Goto(h, AfterWrite("review"))
       ELSE /\ End(h)
            /\ UNCHANGED review
  /\ UNCHANGED <<booking, notification, score>>

-----------------------------------------------------------------------------
\* TrustService.recalculate, awaited by complete, dispute and review

JobsOf(p) == {b \in Bookings : booking[b] # None /\ booking[b].provider = p}
\* Faulty: the status filter is missing.
InAnyStatus(p, s) == JobsOf(p)
InStatus(p, s) == {b \in JobsOf(p) : booking[b].status = s}
ReviewsOf(p) == {b \in JobsOf(p) : review[b] # None}

\* What query q of Promise.all adds to the figures gathered so far.
Answer(calc, q, p) ==
  CASE q = "bookings" -> [calc EXCEPT !.jobs = JobsOf(p),
                                      !.completed = InStatus(p, "COMPLETED")]
    [] q = "reviews"  -> [calc EXCEPT !.reviews = ReviewsOf(p)]
    [] q = "disputes" -> [calc EXCEPT !.disputes = InStatus(p, "DISPUTED")]

ProviderOf(h) == booking[req[h].booking].provider

\* The queries run on separate pooled connections: any order, no snapshot.
TrustRead(h, q) ==
  /\ InFlight(h) /\ req[h].pc = "trust" /\ q \notin req[h].got
  /\ req' = [req EXCEPT ![h].calc = Answer(@, q, ProviderOf(h)),
                        ![h].got = @ \cup {q}]
  /\ UNCHANGED <<booking, review, notification, score>>

\* trustScore.upsert overwrites whatever row is there; recalculate returns.
TrustUpsert(h) ==
  /\ InFlight(h) /\ req[h].pc = "trust" /\ req[h].got = Query
  /\ score' = [score EXCEPT ![ProviderOf(h)] = req[h].calc]
  /\ req' = [req EXCEPT ![h].pc = "notify", ![h].calc = NoScore, ![h].got = {}]
  /\ UNCHANGED <<booking, review, notification>>

\* notification.create for one recipient.  A type outside the enum makes the
\* call throw, and the request ends with the remaining recipients unserved.
Notify(h, p) ==
  /\ InFlight(h) /\ req[h].pc = "notify" /\ p \in req[h].todo
  /\ LET type == notificationOf[req[h].op] IN
       IF type \in NotificationType
         THEN /\ notification' = notification \cup
                   {[type |-> type, booking |-> req[h].booking, to |-> p]}
              /\ IF req[h].todo = {p}
                   THEN End(h)
                   ELSE req' = [req EXCEPT ![h].todo = @ \ {p}]
         ELSE End(h) /\ UNCHANGED notification
  /\ UNCHANGED <<booking, review, score>>

\* Recipients are notified under Promise.all: one notify that throws does not
\* stop the other.
LoseNotification(h, p) ==
  /\ Faults /\ InFlight(h) /\ req[h].pc = "notify" /\ p \in req[h].todo
  /\ IF req[h].todo = {p} THEN End(h)
                          ELSE req' = [req EXCEPT ![h].todo = @ \ {p}]
  /\ UNCHANGED <<booking, review, notification, score>>

\* An await throws for a reason outside the model (a lost connection), or the
\* process stops: whatever was committed stays, the rest is never run.
Fail(h) ==
  /\ Faults /\ InFlight(h)
  /\ End(h)
  /\ UNCHANGED <<booking, review, notification, score>>

-----------------------------------------------------------------------------
Arrive(h) ==
  \E b \in Bookings, me \in Profiles :
    \/ \E p \in Profiles : CreateBooking(h, b, me, p)
    \/ \E o \in StatusOp : StartTransition(h, o, b, me)
    \/ StartReview(h, b, me)

Continue(h) ==
  \/ CheckReview(h)
  \/ WriteTransition(h)
  \/ WriteReview(h)
  \/ \E q \in Query : TrustRead(h, q)
  \/ TrustUpsert(h)
  \/ \E p \in Profiles : Notify(h, p)

Next ==
  \E h \in Handlers :
    \/ Arrive(h)
    \/ Continue(h)
    \/ Fail(h)
    \/ \E p \in Profiles : LoseNotification(h, p)

Spec == Init /\ [][Next]_vars

\* The event loop resumes every request whose awaited call has settled; no
\* client is obliged to send one.
FairSpec == Spec /\ \A h \in Handlers : WF_vars(Continue(h))
=============================================================================
