------------------------- MODULE BookingProperties -------------------------
(***************************************************************************)
(* What the booking module is expected to guarantee.  Each property says   *)
(* in its comment whether it needs requests not to overlap: the handlers   *)
(* validate a row in one await and write it in a later one, so some        *)
(* guarantees survive any interleaving and some do not.                    *)
(***************************************************************************)
EXTENDS Booking

\* Every variable stays in the set its table or its closure allows: the
\* status column holds a BookingStatus, a request is at one of its awaits.
TypeOK ==
  /\ booking \in [Bookings -> BookingRow \cup {None}]
  /\ review \in [Bookings -> Profiles \cup {None}]
  /\ notification \subseteq Message
  /\ score \in [Profiles -> Score]
  /\ req \in [Handlers -> Request \cup {None}]

Exists(b) == booking[b] # None
Completed == {b \in Bookings : Exists(b) /\ booking[b].completedAt}
Cancelled == {b \in Bookings : Exists(b) /\ booking[b].cancelledAt}
Disputed == {b \in Bookings : Exists(b) /\ booking[b].disputed}
Reviewed == {b \in Bookings : review[b] # None}

-----------------------------------------------------------------------------
\* Properties that hold however requests overlap, fail or are cut short

\* submitReview: a review belongs to a booking that really was completed, and
\* its author is that booking's customer, although both were checked on a row
\* read two awaits before review.create.
ReviewSound ==
  \A b \in Reviewed : b \in Completed /\ review[b] = booking[b].customer

\* What a notification of each type tells its reader about booking b.
Claim(type, b) ==
  CASE type = "BOOKING_ACCEPTED"  -> booking[b].status # "PENDING"
    [] type = "BOOKING_COMPLETED" -> b \in Completed
    [] type = "BOOKING_CANCELLED" -> b \in Cancelled
    [] type = "BOOKING_DISPUTED"  -> b \in Disputed
    [] type = "REVIEW_RECEIVED"   -> b \in Reviewed
    [] OTHER                      -> FALSE

\* notify runs after the write it reports, and never for one that was not
\* made: every logged notification tells the truth, to a party of the booking.
NotificationSound ==
  \A m \in notification :
    /\ Exists(m.booking)
    /\ IsParty(m.booking, m.to)
    /\ Claim(m.type, m.booking)

\* Figures that credit provider p with nothing that did not happen.
FiguresSound(c, p) ==
  /\ c.jobs \subseteq JobsOf(p)
  /\ c.completed \subseteq Completed \cap JobsOf(p)
  /\ c.disputes \subseteq Disputed \cap JobsOf(p)
  /\ c.reviews \subseteq Reviewed \cap JobsOf(p)

\* recalculate takes its figures from queries without a common snapshot, and
\* its upsert may land late: the stored score may be out of date, but it never
\* credits a completion, a review or a penalty that did not happen to a
\* booking of that provider.
ScoreSound == \A p \in Profiles : FiguresSound(score[p], p)

StatusOf(b) == IF Exists(b) THEN booking[b].status ELSE "ABSENT"

\* The abstract lifecycle, seen through the rows.  IN_PROGRESS has no
\* counterpart there: the refinements say that no handler ever stores it.
Lifecycle == INSTANCE BookingLifecycle WITH
  status    <- [b \in Bookings |-> StatusOf(b)],
  completed <- Completed,
  reviewed  <- Reviewed

\* However the handlers interleave, a booking leaves PENDING only by being
\* accepted or cancelled, never returns to it, and is reviewed at most once
\* and only after it was completed.
ImplementsCommitted == Lifecycle!CommittedSpec

-----------------------------------------------------------------------------
\* Properties that hold when requests do not overlap

\* validateStatusTransition: every status change follows the lifecycle table,
\* and CANCELLED and DISPUTED are final.
ImplementsLifecycle == Lifecycle!Spec

\* completeBooking, cancelBooking: the row of a booking never says both that
\* the work was done and that the booking was called off.
NoContradictoryStamps == Completed \cap Cancelled = {}

\* recalculate: between requests the stored figures that the score rewards
\* and punishes are those of the tables, although createBooking, acceptBooking
\* and cancelBooking do not recalculate.  (totalJobs is not among them.)
ScoreFresh ==
  (\A h \in Handlers : ~InFlight(h)) =>
    \A p \in Profiles :
      /\ score[p].completed = InStatus(p, "COMPLETED")
      /\ score[p].disputes = InStatus(p, "DISPUTED")
      /\ score[p].reviews = ReviewsOf(p)

-----------------------------------------------------------------------------
\* Liveness, when no await throws

Told(type, b, role) ==
  /\ Exists(b)
  /\ [type |-> type, booking |-> b, to |-> ProfileOfRole(b, role)] \in notification

\* complete, cancel, dispute and review: each committed change is eventually
\* reported to those the handler notifies, past the recalculation in between
\* and whatever other requests do to the booking meanwhile.
ChangesReported ==
  \A b \in Bookings :
    /\ b \in Completed ~> Told("BOOKING_COMPLETED", b, "customer")
    /\ b \in Cancelled ~> Told("BOOKING_CANCELLED", b, "customer")
    /\ b \in Cancelled ~> Told("BOOKING_CANCELLED", b, "provider")
    /\ b \in Disputed ~> Told("BOOKING_DISPUTED", b, "customer")
    /\ b \in Disputed ~> Told("BOOKING_DISPUTED", b, "provider")
    /\ b \in Reviewed ~> Told("REVIEW_RECEIVED", b, "provider")

-----------------------------------------------------------------------------
\* What the documents say and the code does not do

\* README.md: CANCELLED is "valid during PENDING or ACCEPTED states".
CancelOnlyActive ==
  [][\A b \in Bookings :
       Exists(b) /\ booking[b].status \notin {"PENDING", "ACCEPTED", "CANCELLED"}
         => booking'[b].status # "CANCELLED"]_vars

\* README.md: "Generates notifications for: booking requests/...".  Once
\* createBooking is over, the provider of the new booking has been notified.
RequestNotified ==
  \A b \in Bookings :
    Exists(b) => \/ \E h \in Handlers : InFlight(h) /\ req[h].op = "create"
                                                    /\ req[h].booking = b
                 \/ \E m \in notification : /\ m.booking = b
                                            /\ m.to = booking[b].provider
                                            /\ m.type \in {"BOOKING_REQUEST", "BOOKING_CREATED"}
=============================================================================
