--------------------------- MODULE TrustHistory ---------------------------
(***************************************************************************)
(* The life of one provider as calculateScore sees it: bookings that move  *)
(* along their lifecycle, reviews, vouches and the fields of the identity. *)
(* The variables are what its queries count.  The bookings follow the       *)
(* validator's table; what overlapping requests add to it is in Booking.   *)
(***************************************************************************)
EXTENDS TrustScore

CONSTANTS
  MaxJobs,      \* bound on bookings of the provider
  MaxVouches    \* bound on vouches

ASSUME TrustHistoryConstants == MaxJobs \in Nat /\ MaxVouches \in Nat

VARIABLES
  jobs,      \* jobs[s]: bookings in state s; REVIEWED is COMPLETED with a review
  reviews,   \* number of reviews: a review outlives a dispute of its booking
  ratings,   \* sum of their ratings
  vouches,   \* number of vouches
  filled     \* number of identity fields that are set

vars == <<jobs, reviews, ratings, vouches, filled>>

JobState == {"PENDING", "ACCEPTED", "COMPLETED", "REVIEWED", "CANCELLED", "DISPUTED"}

Total == jobs["PENDING"] + jobs["ACCEPTED"] + jobs["COMPLETED"]
         + jobs["REVIEWED"] + jobs["CANCELLED"] + jobs["DISPUTED"]

\* Faulty: a vouch counts as a review without stars.
FiguresVouchAsReview ==
  [jobs |-> Total,
   completed |-> jobs["COMPLETED"] + jobs["REVIEWED"],
   reviews |-> reviews + vouches, ratings |-> ratings, vouches |-> vouches,
   filled |-> filled, disputes |-> jobs["DISPUTED"]]

\* Faulty: the ratings are averaged over the completed jobs.
FiguresPerJob ==
  [jobs |-> Total,
   completed |-> jobs["COMPLETED"] + jobs["REVIEWED"],
   reviews |-> jobs["COMPLETED"] + jobs["REVIEWED"], ratings |-> ratings,
   vouches |-> vouches, filled |-> filled, disputes |-> jobs["DISPUTED"]]

\* Faulty: the query for disputes finds none.
FiguresWithoutDisputes ==
  [jobs |-> Total,
   completed |-> jobs["COMPLETED"] + jobs["REVIEWED"],
   reviews |-> reviews, ratings |-> ratings, vouches |-> vouches,
   filled |-> filled, disputes |-> 0]

\* The results of the five queries.
figures ==
  [jobs |-> Total,
   completed |-> jobs["COMPLETED"] + jobs["REVIEWED"],
   reviews |-> reviews, ratings |-> ratings, vouches |-> vouches,
   filled |-> filled, disputes |-> jobs["DISPUTED"]]

score == CalculatedScore(figures)

Init ==
  /\ jobs = [s \in JobState |-> 0]
  /\ reviews = 0 /\ ratings = 0 /\ vouches = 0
  /\ filled \in 0 .. 5

\* A handler finds a booking in state from and leaves it in state to.
Move(from, to) ==
  /\ jobs[from] > 0
  /\ jobs' = [jobs EXCEPT ![from] = @ - 1, ![to] = @ + 1]

Request ==
  /\ Total < MaxJobs
  /\ jobs' = [jobs EXCEPT !["PENDING"] = @ + 1]
  /\ UNCHANGED <<reviews, ratings, vouches, filled>>

Accept == Move("PENDING", "ACCEPTED") /\ UNCHANGED <<reviews, ratings, vouches, filled>>

Cancel ==
  /\ \E s \in {"PENDING", "ACCEPTED"} : Move(s, "CANCELLED")
  /\ UNCHANGED <<reviews, ratings, vouches, filled>>

Complete == Move("ACCEPTED", "COMPLETED") /\ UNCHANGED <<reviews, ratings, vouches, filled>>

Dispute ==
  /\ \E s \in {"ACCEPTED", "COMPLETED", "REVIEWED"} : Move(s, "DISPUTED")
  /\ UNCHANGED <<reviews, ratings, vouches, filled>>

\* submitReview: ReviewBookingDto admits the ratings 1 to 5.
Review(rating) ==
  /\ Move("COMPLETED", "REVIEWED")
  /\ reviews' = reviews + 1
  /\ ratings' = ratings + rating
  /\ UNCHANGED <<vouches, filled>>

Vouch ==
  /\ vouches < MaxVouches
  /\ vouches' = vouches + 1
  /\ UNCHANGED <<jobs, reviews, ratings, filled>>

\* upsertIdentity and finaliseLocation set the fields; an answer that holds no
\* expertise empties it again.
Onboard ==
  /\ filled' \in {filled - 1, filled + 1} \cap 0 .. 5
  /\ UNCHANGED <<jobs, reviews, ratings, vouches>>

Next == \/ Request \/ Accept \/ Cancel \/ Complete \/ Dispute \/ Vouch \/ Onboard
        \/ \E rating \in 1 .. 5 : Review(rating)

Spec == Init /\ [][Next]_vars

-----------------------------------------------------------------------------
TypeOK ==
  /\ jobs \in [JobState -> Nat]
  /\ reviews \in Nat /\ ratings \in Nat /\ vouches \in Nat
  /\ filled \in 0 .. 5

\* calculateScore: with payment and response time fixed at 70 the score never
\* exceeds 90, and only a dispute takes it below 25, never below 0.
ScoreInBounds ==
  /\ score \in 0 .. 90
  /\ jobs["DISPUTED"] = 0 => score >= 25

\* disputePenalty: a dispute costs the provider 15 points, or all that are left.
DisputeCosts == [][Dispute => score' <= Most(0, score - 15)]_vars

\* calculateScore: completed work, a vouch and a review no worse than the
\* average so far never lower the score, whatever the history.
GoodNewsNeverHurts ==
  [][\/ Complete
     \/ Vouch
     \/ \E r \in 1 .. 5 : Review(r) /\ r * reviews >= ratings
     => score' >= score]_vars

\* calculateScore: a request nobody has answered yet, and a review no better
\* than the average so far, never raise the score.
BadNewsNeverHelps ==
  [][\/ Request
     \/ \E r \in 1 .. 5 : Review(r) /\ reviews > 0 /\ r * reviews <= ratings
     => score' <= score]_vars
=============================================================================
