---------------------------- MODULE TrustProofs ----------------------------
(***************************************************************************)
(* The trust score over every history of a provider: its bounds, what a    *)
(* dispute costs, and that good news never lowers it and bad news never    *)
(* raises it.                                                              *)
(***************************************************************************)
EXTENDS TrustHistory, TLAPS

\* The order of products, for terms that share a factor.
LEMMA ProductOrder ==
  ASSUME NEW a \in Int, NEW b \in Int, NEW c \in Nat, a <= b
  PROVE  a * c <= b * c
OBVIOUS

LEMMA ProductNat ==
  ASSUME NEW a \in Nat, NEW b \in Nat
  PROVE  a * b \in Nat
OBVIOUS

\* Integer division against a multiple of the divisor.
LEMMA QuotientBounds ==
  ASSUME NEW a \in Int, NEW b \in Nat \ {0}, NEW k \in Int
  PROVE  /\ a \div b \in Int
         /\ a <= k * b + b - 1 => a \div b <= k
         /\ a >= k * b => a \div b >= k
<1> DEFINE q == a \div b
<1>1. q \in Int
  OBVIOUS
<1>2. b * q <= a /\ a < b * q + b
  OBVIOUS
<1>3. ASSUME a <= k * b + b - 1 PROVE q <= k
  <2>1. SUFFICES ASSUME q >= k + 1 PROVE FALSE
    BY <1>1
  <2>2. (k + 1) * b <= q * b
    BY <1>1, <2>1, ProductOrder
  <2> QED
    BY <1>1, <1>2, <1>3, <2>2
<1>4. ASSUME a >= k * b PROVE q >= k
  <2>1. SUFFICES ASSUME q + 1 <= k PROVE FALSE
    BY <1>1
  <2>2. (q + 1) * b <= k * b
    BY <1>1, <2>1, ProductOrder
  <2> QED
    BY <1>1, <1>2, <1>4, <2>2
<1> QED
  BY <1>1, <1>3, <1>4

-----------------------------------------------------------------------------
\* Figures the tables can give: no more completed jobs than jobs, at most five
\* stars for a review.
PossibleFigures == {f \in Figures : f.completed <= f.jobs /\ f.ratings <= 5 * f.reviews}

LEMMA Denominators ==
  ASSUME NEW f \in PossibleFigures
  PROVE  /\ Jobs(f) \in Nat \ {0} /\ Reviews(f) \in Nat \ {0}
         /\ f.completed <= Jobs(f) /\ f.ratings <= 5 * Reviews(f)
         /\ Jobs(f) * Reviews(f) \in Nat \ {0}
         /\ Scale(f) = 4 * (Jobs(f) * Reviews(f))
<1>1. /\ f.jobs \in Nat /\ f.reviews \in Nat /\ f.completed \in Nat
      /\ f.ratings \in Nat /\ f.completed <= f.jobs /\ f.ratings <= 5 * f.reviews
  BY DEF PossibleFigures, Figures
<1>2. /\ Jobs(f) \in Nat \ {0} /\ Reviews(f) \in Nat \ {0}
      /\ f.completed <= Jobs(f) /\ f.ratings <= 5 * Reviews(f)
  BY <1>1 DEF Jobs, Reviews, Most
<1>3. Jobs(f) * Reviews(f) \in Nat /\ 1 * Reviews(f) <= Jobs(f) * Reviews(f)
  BY <1>2, ProductNat, ProductOrder
<1>4. Scale(f) = 4 * (Jobs(f) * Reviews(f))
  BY <1>2 DEF Scale
<1> QED
  BY <1>2, <1>3, <1>4

\* calculateScore: the weighted sum lies between the two fixed terms, 24.5, and
\* 89.5 points.
LEMMA OverallBounds ==
  ASSUME NEW f \in PossibleFigures
  PROVE  /\ Overall(f) \in Nat
         /\ 98 * (Jobs(f) * Reviews(f)) <= Overall(f)
         /\ Overall(f) <= 358 * (Jobs(f) * Reviews(f))
<1> DEFINE J == Jobs(f)
           R == Reviews(f)
           P == J * R
<1>1. /\ J \in Nat \ {0} /\ R \in Nat \ {0} /\ P \in Nat \ {0}
      /\ f.completed <= J
  BY Denominators
<1>2. f.completed \in Nat /\ f.filled \in 0 .. 5 /\ f.ratings \in Nat /\ f.vouches \in Nat
  BY DEF PossibleFigures, Figures
<1>3. f.completed * R \in Nat /\ f.completed * R <= P
  BY <1>1, <1>2, ProductNat, ProductOrder
<1>4. Community(f) \in Nat /\ Community(f) <= 100 * R
  <2>1. f.vouches * R \in Nat
    BY <1>1, <1>2, ProductNat
  <2>2. 10 * f.vouches * R = 10 * (f.vouches * R)
    BY <1>1, <1>2
  <2> QED
    BY <1>1, <1>2, <2>1, <2>2 DEF Community, Least
<1>5. J * Community(f) \in Nat /\ J * Community(f) <= 100 * P
  <2>1. Community(f) * J <= (100 * R) * J
    BY <1>1, <1>4, ProductOrder
  <2>2. Community(f) * J = J * Community(f) /\ (100 * R) * J = 100 * P
    BY <1>1, <1>4
  <2> QED
    BY <1>1, <1>4, <2>1, <2>2, ProductNat
<1>6. f.filled * P \in Nat /\ f.filled * P <= 5 * P
  BY <1>1, <1>2, ProductNat, ProductOrder
<1>7. Overall(f) = 120 * (f.completed * R) + J * Community(f) + 98 * P + 8 * (f.filled * P)
  BY <1>1, <1>2, <1>4 DEF Overall
<1> HIDE DEF J, R, P
<1> DEFINE a == f.completed * R
           b == J * Community(f)
           c == f.filled * P
<1>8. a \in Nat /\ b \in Nat /\ c \in Nat /\ P \in Nat
      /\ a <= P /\ b <= 100 * P /\ c <= 5 * P
      /\ Overall(f) = 120 * a + b + 98 * P + 8 * c
  BY <1>1, <1>3, <1>5, <1>6, <1>7
<1> HIDE DEF a, b, c
<1>9. Overall(f) \in Nat /\ 98 * P <= Overall(f) /\ Overall(f) <= 358 * P
  BY <1>8
<1> QED
  BY <1>9 DEF P, J, R

\* calculateScore: whatever the tables hold, the score is at most 90, at least 0,
\* and at least 25 for a provider nobody disputes.
THEOREM ScoreBounds ==
  ASSUME NEW f \in PossibleFigures
  PROVE  /\ CalculatedScore(f) \in 0 .. 90
         /\ f.disputes = 0 => CalculatedScore(f) >= 25
<1> DEFINE P == Jobs(f) * Reviews(f)
           penalty == 15 * f.disputes * Scale(f)
<1>1. P \in Nat \ {0} /\ Scale(f) = 4 * P
  BY Denominators
<1>2. Overall(f) \in Nat /\ 98 * P <= Overall(f) /\ Overall(f) <= 358 * P
  BY OverallBounds
<1>3. penalty \in Nat /\ (f.disputes = 0 => penalty = 0)
  <2>1. f.disputes \in Nat
    BY DEF PossibleFigures, Figures
  <2>2. 15 * f.disputes \in Nat /\ Scale(f) \in Nat
    BY <1>1, <2>1
  <2> QED
    BY <2>1, <2>2, ProductNat
<1>4. Final(f) = Most(0, Least(100 * Scale(f), Overall(f) - penalty))
  BY DEF Final
<1> HIDE DEF P, penalty
<1>5. Final(f) \in Nat /\ Final(f) <= 358 * P /\ (f.disputes = 0 => 98 * P <= Final(f))
  BY <1>1, <1>2, <1>3, <1>4 DEF Most, Least
<1>6. CalculatedScore(f) = (2 * Final(f) + 4 * P) \div (8 * P)
  BY <1>1, <1>5 DEF CalculatedScore, Rounded
<1> DEFINE x == 2 * Final(f) + 4 * P
           d == 8 * P
<1>7. /\ x \in Int /\ d \in Nat \ {0}
      /\ x <= 90 * d + d - 1 /\ 0 * d <= x /\ (f.disputes = 0 => 25 * d <= x)
  BY <1>1, <1>5
<1> HIDE DEF x, d
<1>8. /\ x \div d \in Int /\ x \div d <= 90 /\ x \div d >= 0
      /\ f.disputes = 0 => x \div d >= 25
  BY <1>7, QuotientBounds
<1> QED
  BY <1>6, <1>8 DEF x, d

-----------------------------------------------------------------------------
\* What the formula relies on: at most five stars for each review.
HistoryInv == TypeOK /\ ratings <= 5 * reviews

LEMMA Moves ==
  ASSUME jobs \in [JobState -> Nat], NEW from \in JobState, NEW to \in JobState,
         from # to, Move(from, to)
  PROVE  /\ jobs' \in [JobState -> Nat]
         /\ jobs'[from] = jobs[from] - 1 /\ jobs'[to] = jobs[to] + 1
         /\ \A s \in JobState \ {from, to} : jobs'[s] = jobs[s]
BY DEF Move

LEMMA HistoryInvHolds == Spec => []HistoryInv
<1>1. Init => HistoryInv
  BY DEF Init, HistoryInv, TypeOK
<1>2. HistoryInv /\ [Next]_vars => HistoryInv'
  <2> SUFFICES ASSUME HistoryInv, [Next]_vars PROVE HistoryInv'
    OBVIOUS
  <2> USE DEF HistoryInv, TypeOK
  <2>0. {"PENDING", "ACCEPTED", "COMPLETED", "REVIEWED", "CANCELLED", "DISPUTED"} = JobState
    BY DEF JobState
  <2>1. CASE Request
    <3>1. jobs' \in [JobState -> Nat]
      BY <2>1 DEF Request, JobState
    <3> QED
      BY <2>1, <3>1 DEF Request
  <2>2. CASE Accept
    <3>1. jobs' \in [JobState -> Nat]
      BY <2>0, <2>2, Moves DEF Accept
    <3> QED
      BY <2>2, <3>1 DEF Accept
  <2>3. CASE Cancel
    <3>1. jobs' \in [JobState -> Nat]
      BY <2>0, <2>3, Moves DEF Cancel
    <3> QED
      BY <2>3, <3>1 DEF Cancel
  <2>4. CASE Complete
    <3>1. jobs' \in [JobState -> Nat]
      BY <2>0, <2>4, Moves DEF Complete
    <3> QED
      BY <2>4, <3>1 DEF Complete
  <2>5. CASE Dispute
    <3>1. jobs' \in [JobState -> Nat]
      BY <2>0, <2>5, Moves DEF Dispute
    <3> QED
      BY <2>5, <3>1 DEF Dispute
  <2>6. CASE Vouch
    BY <2>6 DEF Vouch
  <2>7. CASE Onboard
    BY <2>7 DEF Onboard
  <2>8. ASSUME NEW rating \in 1 .. 5, Review(rating) PROVE HistoryInv'
    <3>1. jobs' \in [JobState -> Nat]
      BY <2>0, <2>8, Moves DEF Review
    <3>2. reviews' \in Nat /\ ratings' \in Nat /\ ratings' <= 5 * reviews'
      BY <2>8 DEF Review
    <3> QED
      BY <2>8, <3>1, <3>2 DEF Review
  <2>9. CASE UNCHANGED vars
    BY <2>9 DEF vars
  <2> QED
    BY <2>1, <2>2, <2>3, <2>4, <2>5, <2>6, <2>7, <2>8, <2>9 DEF Next
<1> QED
  BY <1>1, <1>2, PTL DEF Spec

\* What calculateScore finds in the tables is possible.
FiguresPossible == figures \in PossibleFigures

LEMMA FiguresArePossible == HistoryInv => FiguresPossible
<1> SUFFICES ASSUME HistoryInv PROVE figures \in PossibleFigures
  BY DEF FiguresPossible
<1>1. \A s \in {"PENDING", "ACCEPTED", "COMPLETED", "REVIEWED", "CANCELLED", "DISPUTED"} :
        jobs[s] \in Nat
  BY DEF HistoryInv, TypeOK, JobState
<1>2. Total \in Nat /\ jobs["COMPLETED"] + jobs["REVIEWED"] \in Nat
      /\ jobs["COMPLETED"] + jobs["REVIEWED"] <= Total
  BY <1>1 DEF Total
<1> QED
  BY <1>1, <1>2 DEF figures, PossibleFigures, Figures, HistoryInv, TypeOK

\* calculateScore: the bounds of the score, for any number of jobs and vouches.
THEOREM ScoreStaysInBounds == Spec => []ScoreInBounds
<1>1. HistoryInv => ScoreInBounds
  BY FiguresArePossible, ScoreBounds DEF ScoreInBounds, score, figures, FiguresPossible
<1> QED
  BY <1>1, HistoryInvHolds, PTL

\* disputePenalty: of two sets of figures that differ by one dispute, the second
\* scores at least 15 points less, unless nothing is left.
LEMMA PenaltyOfOneDispute ==
  ASSUME NEW f \in PossibleFigures, NEW g \in PossibleFigures,
         g.jobs = f.jobs, g.completed <= f.completed,
         g.reviews = f.reviews, g.ratings = f.ratings, g.vouches = f.vouches,
         g.filled = f.filled, g.disputes = f.disputes + 1
  PROVE  CalculatedScore(g) <= Most(0, CalculatedScore(f) - 15)
<1> DEFINE P == Jobs(f) * Reviews(f)
           S == 4 * P
           e == 15 * f.disputes * Scale(f)
<1>0. /\ f.jobs \in Nat /\ f.reviews \in Nat /\ f.completed \in Nat /\ f.disputes \in Nat
      /\ f.ratings \in Nat /\ f.vouches \in Nat /\ f.filled \in 0 .. 5
      /\ f.completed <= f.jobs /\ f.ratings <= 5 * f.reviews
  BY DEF PossibleFigures, Figures
<1>1. g.completed \in Nat
  BY DEF PossibleFigures, Figures
<1>3. /\ Jobs(g) = Jobs(f) /\ Reviews(g) = Reviews(f) /\ Community(g) = Community(f)
      /\ Scale(g) = Scale(f)
  BY DEF Jobs, Reviews, Community, Scale
<1>4. P \in Nat \ {0} /\ Scale(f) = S /\ Reviews(f) \in Nat /\ Jobs(f) \in Nat
  BY Denominators
<1>5. Overall(f) \in Nat /\ Overall(g) \in Nat /\ Overall(f) <= 358 * P
  BY OverallBounds
<1>6. Overall(g) <= Overall(f)
  <2> DEFINE rest == Jobs(f) * Community(f) + 98 * Jobs(f) * Reviews(f)
                     + 8 * f.filled * Jobs(f) * Reviews(f)
  <2>1. g.completed * Reviews(f) <= f.completed * Reviews(f)
    BY <1>0, <1>1, <1>4, ProductOrder
  <2>2. Community(f) \in Int
    BY <1>0, <1>4 DEF Community, Least
  <2>3. rest \in Int
    BY <1>0, <1>4, <2>2
  <2>4. /\ Overall(f) = 120 * (f.completed * Reviews(f)) + rest
        /\ Overall(g) = 120 * (g.completed * Reviews(f)) + rest
    BY <1>0, <1>1, <1>3, <1>4, <2>2 DEF Overall
  <2>5. g.completed * Reviews(f) \in Nat /\ f.completed * Reviews(f) \in Nat
    BY <1>0, <1>1, <1>4, ProductNat
  <2> HIDE DEF rest
  <2> QED
    BY <2>1, <2>3, <2>4, <2>5
<1>7. e \in Nat /\ 15 * g.disputes * Scale(g) = e + 15 * S
  <2>1. 15 * f.disputes \in Nat /\ S \in Nat /\ Scale(f) = S
    BY <1>0, <1>4
  <2>2. (15 * f.disputes) * S \in Nat
    BY <2>1, ProductNat
  <2> QED
    BY <1>0, <1>1, <1>3, <2>1, <2>2
<1>8. /\ Final(f) = Most(0, Least(100 * S, Overall(f) - e))
      /\ Final(g) = Most(0, Least(100 * S, Overall(g) - (e + 15 * S)))
  BY <1>3, <1>4, <1>7 DEF Final
<1>9. S \in Nat \ {0} /\ Overall(f) <= 100 * S
  BY <1>4, <1>5
<1> HIDE DEF P, S, e
<1>10. /\ Final(f) \in Nat /\ Final(g) \in Nat
       /\ Final(g) = 0 \/ Final(g) <= Final(f) - 15 * S
  BY <1>5, <1>6, <1>7, <1>8, <1>9 DEF Most, Least
<1>11. /\ CalculatedScore(f) = (2 * Final(f) + S) \div (2 * S)
       /\ CalculatedScore(g) = (2 * Final(g) + S) \div (2 * S)
  BY <1>3, <1>4 DEF CalculatedScore, Rounded
<1> DEFINE d == 2 * S
           x == 2 * Final(f) + S
           y == 2 * Final(g) + S
           q == x \div d
<1>12. d \in Nat \ {0} /\ x \in Nat /\ y \in Nat
  BY <1>9, <1>10
<1>13. q \in Int /\ x <= q * d + d - 1 /\ q >= 0
  <2> HIDE DEF x, d
  <2>1. q \in Int /\ d * q <= x /\ x < d * q + d
    BY <1>12
  <2>2. q >= 0
    BY <1>12, QuotientBounds, 0 * d <= x
  <2> QED
    BY <1>12, <2>1, <2>2
<1>14. CASE Final(g) = 0
  <2>1. y <= 0 * d + d - 1
    BY <1>9, <1>14
  <2> HIDE DEF x, y, d
  <2>2. y \div d <= 0
    BY <1>12, <2>1, QuotientBounds
  <2>3. CalculatedScore(f) \in Int
    BY ScoreBounds
  <2> QED
    BY <1>11, <1>12, <2>2, <2>3, QuotientBounds DEF y, d, Most
<1>15. CASE Final(g) <= Final(f) - 15 * S
  <2>1. y <= x - 15 * d
    BY <1>9, <1>10, <1>15
  <2> HIDE DEF x, y, d, q
  <2>2. y <= (q - 15) * d + d - 1
    BY <1>12, <1>13, <2>1
  <2>3. y \div d <= q - 15 /\ y \div d \in Int
    BY <1>12, <1>13, <2>2, QuotientBounds
  <2>4. CalculatedScore(f) = q /\ CalculatedScore(g) = y \div d
    BY <1>11 DEF q, x, y, d
  <2> QED
    BY <1>13, <2>3, <2>4 DEF Most
<1> QED
  BY <1>10, <1>14, <1>15

\* disputePenalty: every dispute of every history costs 15 points, or what is left.
THEOREM DisputesCost == Spec => DisputeCosts
<1>0. HistoryInv' => FiguresPossible'
  BY FiguresArePossible, PTL
<1>1. HistoryInv /\ HistoryInv' /\ Dispute => score' <= Most(0, score - 15)
  <2> SUFFICES ASSUME HistoryInv, HistoryInv', Dispute
               PROVE  score' <= Most(0, score - 15)
    OBVIOUS
  <2>1. figures \in PossibleFigures /\ figures' \in PossibleFigures
    BY <1>0, FiguresArePossible DEF FiguresPossible
  <2>2. PICK s \in {"ACCEPTED", "COMPLETED", "REVIEWED"} : Move(s, "DISPUTED")
    BY DEF Dispute
  <2>3. \A t \in {"PENDING", "ACCEPTED", "COMPLETED", "REVIEWED", "CANCELLED", "DISPUTED"} :
          jobs[t] \in Nat /\ jobs'[t] \in Nat
    BY DEF HistoryInv, TypeOK, JobState
  <2>4. /\ jobs'[s] = jobs[s] - 1 /\ jobs'["DISPUTED"] = jobs["DISPUTED"] + 1
        /\ \A t \in JobState \ {s, "DISPUTED"} : jobs'[t] = jobs[t]
    BY <2>2, Moves DEF HistoryInv, TypeOK, JobState
  <2>5. Total' = Total
    BY <2>3, <2>4 DEF Total, JobState
  <2>6. jobs'["COMPLETED"] + jobs'["REVIEWED"] <= jobs["COMPLETED"] + jobs["REVIEWED"]
    BY <2>3, <2>4 DEF JobState
  <2>7. UNCHANGED <<reviews, ratings, vouches, filled>>
    BY DEF Dispute
  <2>8. /\ figures'.jobs = figures.jobs /\ figures'.completed <= figures.completed
        /\ figures'.reviews = figures.reviews /\ figures'.ratings = figures.ratings
        /\ figures'.vouches = figures.vouches /\ figures'.filled = figures.filled
        /\ figures'.disputes = figures.disputes + 1
    BY <2>4, <2>5, <2>6, <2>7 DEF figures
  <2> QED
    BY <2>1, <2>8, PenaltyOfOneDispute DEF score
<1>2. HistoryInv /\ HistoryInv' => [Dispute => score' <= Most(0, score - 15)]_vars
  BY <1>1
<1> QED
  BY <1>2, HistoryInvHolds, PTL DEF DisputeCosts

-----------------------------------------------------------------------------
(***************************************************************************)
(* News of a provider.  The two scores around a step have different        *)
(* denominators, so they are compared across: x / c <= y / d is            *)
(* x * d <= y * c, through the rounding, the clamps and the weighted sum.  *)
(***************************************************************************)

LEMMA ProductCancels ==
  ASSUME NEW a \in Int, NEW b \in Int, NEW c \in Nat \ {0}, a * c <= b * c
  PROVE  a <= b
<1>1. SUFFICES ASSUME b + 1 <= a PROVE FALSE
  OBVIOUS
<1>2. (b + 1) * c <= a * c /\ (b + 1) * c = b * c + c
  BY <1>1, ProductOrder
<1>3. a * c \in Int /\ b * c \in Int
  OBVIOUS
<1> QED
  BY <1>2, <1>3

LEMMA RoundedOrder ==
  ASSUME NEW x \in Nat, NEW y \in Nat, NEW c \in Nat \ {0}, NEW d \in Nat \ {0},
         x * d <= y * c
  PROVE  Rounded(x, c) <= Rounded(y, d)
<1>1. PICK n \in Nat, m \in Nat \ {0} : n = 2 * x + c /\ m = 2 * c
  OBVIOUS
<1>2. PICK q \in Int : q = n \div m /\ m * q <= n
  BY <1>1
<1>3. (m * q) * d <= n * d
  BY <1>1, <1>2, ProductOrder
<1>4. (m * q) * d = ((2 * d) * q) * c
  BY <1>1
<1>5. n * d = 2 * (x * d) + c * d /\ (2 * y + d) * c = 2 * (y * c) + c * d
  BY <1>1
<1>6. ((2 * d) * q) * c <= (2 * y + d) * c
  <2>1. x * d \in Int /\ y * c \in Int /\ c * d \in Int
    OBVIOUS
  <2> QED
    BY <1>3, <1>4, <1>5, <2>1
<1>7. (2 * d) * q <= 2 * y + d
  BY <1>6, ProductCancels
<1>8. PICK k \in Nat, l \in Nat \ {0} : k = 2 * y + d /\ l = 2 * d
  OBVIOUS
<1>9. q * l <= k
  BY <1>7, <1>8
<1>10. q <= k \div l
  BY <1>8, <1>9, QuotientBounds
<1> QED
  BY <1>1, <1>2, <1>8, <1>10 DEF Rounded

\* A better weighted sum is not a worse score, with as many disputes.
LEMMA BetterSum ==
  ASSUME NEW f \in PossibleFigures, NEW g \in PossibleFigures, f.disputes = g.disputes,
         Overall(f) * Scale(g) <= Overall(g) * Scale(f)
  PROVE  CalculatedScore(f) <= CalculatedScore(g)
<1>1. PICK s \in Nat \ {0}, t \in Nat \ {0}, e \in Nat, o \in Nat, p \in Nat :
        /\ s = Scale(f) /\ t = Scale(g) /\ e = 15 * f.disputes
        /\ o = Overall(f) /\ p = Overall(g)
  <2>1. Scale(f) \in Nat \ {0} /\ Scale(g) \in Nat \ {0}
    BY Denominators
  <2>2. Overall(f) \in Nat /\ Overall(g) \in Nat /\ 15 * f.disputes \in Nat
    BY OverallBounds DEF PossibleFigures, Figures
  <2> QED
    BY <2>1, <2>2
<1>2. PICK a \in Nat, b \in Nat : a = e * s /\ b = e * t
  BY ProductNat
<1>3. /\ Final(f) = Most(0, Least(100 * s, o - a))
      /\ Final(g) = Most(0, Least(100 * t, p - b))
  BY <1>1, <1>2 DEF Final
<1>4. PICK x \in Nat, y \in Nat :
        /\ x = Final(f) /\ y = Final(g)
        /\ x = Most(0, Least(100 * s, o - a)) /\ y = Most(0, Least(100 * t, p - b))
  <2>1. Final(f) \in Nat /\ Final(g) \in Nat
    BY <1>3 DEF Most, Least
  <2> QED
    BY <1>3, <2>1
<1>5. o * t <= p * s
  BY <1>1
<1>6. a * t = b * s
  BY <1>2
<1>7. x * t <= y * s
  <2>1. CASE x = 0
    BY <2>1, ProductNat
  <2>2. CASE x <= 100 * s /\ y = 100 * t
    <3>1. x * t <= (100 * s) * t /\ (100 * s) * t = y * s
      BY <2>2, ProductOrder
    <3> QED
      BY <3>1
  <2>3. CASE x <= o - a /\ p - b <= y
    <3>1. x * t <= (o - a) * t /\ (p - b) * s <= y * s
      BY <2>3, ProductOrder
    <3>2. (o - a) * t = o * t - a * t /\ (p - b) * s = p * s - b * s
      OBVIOUS
    <3>3. o * t \in Int /\ a * t \in Int /\ p * s \in Int /\ b * s \in Int
          /\ x * t \in Int /\ y * s \in Int
      OBVIOUS
    <3> QED
      BY <1>5, <1>6, <3>1, <3>2, <3>3
  <2> QED
    BY <1>4, <2>1, <2>2, <2>3 DEF Most, Least
<1> QED
  BY <1>1, <1>4, <1>7, RoundedOrder DEF CalculatedScore

\* The weighted sum with its factors apart.
LEMMA OverallTerms ==
  ASSUME NEW f \in PossibleFigures
  PROVE  \E c \in Nat, w \in Nat, J \in Nat \ {0}, R \in Nat \ {0} :
           /\ c = Community(f) /\ J = Jobs(f) /\ R = Reviews(f)
           /\ w = 98 + 8 * f.filled
           /\ Overall(f) = 120 * (f.completed * R) + J * c + w * (J * R)
           /\ Scale(f) = 4 * (J * R)
<1>1. /\ f.completed \in Nat /\ f.ratings \in Nat /\ f.vouches \in Nat /\ f.filled \in 0 .. 5
  BY DEF PossibleFigures, Figures
<1>2. PICK J \in Nat \ {0}, R \in Nat \ {0} : J = Jobs(f) /\ R = Reviews(f)
  BY Denominators
<1>3. Community(f) \in Nat
  <2>1. f.vouches * R \in Nat
    BY <1>1, ProductNat
  <2>2. 10 * f.vouches * R = 10 * (f.vouches * R)
    BY <1>1
  <2> QED
    BY <1>1, <1>2, <2>1, <2>2 DEF Community, Least
<1>4. PICK c \in Nat : c = Community(f)
  BY <1>3
<1>5. PICK w \in Nat : w = 98 + 8 * f.filled
  BY <1>1
<1>6. /\ Overall(f) = 120 * f.completed * R + J * c + 98 * J * R + 8 * f.filled * J * R
      /\ Scale(f) = 4 * J * R
  BY <1>2, <1>4 DEF Overall, Scale
<1>7. w * (J * R) = 98 * J * R + 8 * f.filled * J * R
      /\ 120 * f.completed * R = 120 * (f.completed * R)
  BY <1>1, <1>5
<1>8. Overall(f) = 120 * (f.completed * R) + J * c + w * (J * R) /\ Scale(f) = 4 * (J * R)
  BY <1>1, <1>6, <1>7
<1> QED
  BY <1>2, <1>4, <1>5, <1>8

\* Work that is completed, out of as many jobs.
LEMMA MoreCompleted ==
  ASSUME NEW f \in PossibleFigures, NEW g \in PossibleFigures,
         f.jobs = g.jobs, f.reviews = g.reviews, f.ratings = g.ratings,
         f.vouches = g.vouches, f.filled = g.filled, f.disputes = g.disputes,
         f.completed <= g.completed
  PROVE  CalculatedScore(f) <= CalculatedScore(g)
<1>1. f.completed \in Nat /\ g.completed \in Nat
  BY DEF PossibleFigures, Figures
<1>2. /\ Jobs(g) = Jobs(f) /\ Reviews(g) = Reviews(f)
      /\ Community(g) = Community(f) /\ Scale(g) = Scale(f)
  BY DEF Jobs, Reviews, Community, Scale
<1>3. PICK c \in Nat, w \in Nat, J \in Nat \ {0}, R \in Nat \ {0} :
        /\ c = Community(f) /\ J = Jobs(f) /\ R = Reviews(f) /\ w = 98 + 8 * f.filled
        /\ Overall(f) = 120 * (f.completed * R) + J * c + w * (J * R)
        /\ Scale(f) = 4 * (J * R)
  BY OverallTerms
<1>4. Overall(g) = 120 * (g.completed * R) + J * c + w * (J * R)
  BY <1>2, <1>3, OverallTerms
<1>5. f.completed * R <= g.completed * R
  BY <1>1, ProductOrder
<1>6. Overall(f) <= Overall(g) /\ Overall(f) \in Nat /\ Overall(g) \in Nat
  <2>1. f.completed * R \in Int /\ g.completed * R \in Int /\ J * c \in Int /\ w * (J * R) \in Int
    BY <1>1
  <2> QED
    BY <1>3, <1>4, <1>5, <2>1, OverallBounds
<1>7. Scale(f) \in Nat
  BY Denominators
<1> QED
  BY <1>2, <1>6, <1>7, ProductOrder, BetterSum

\* As much work completed, out of more jobs.
LEMMA MoreJobs ==
  ASSUME NEW f \in PossibleFigures, NEW g \in PossibleFigures,
         f.jobs <= g.jobs, f.reviews = g.reviews, f.ratings = g.ratings,
         f.vouches = g.vouches, f.filled = g.filled, f.disputes = g.disputes,
         f.completed = g.completed
  PROVE  CalculatedScore(g) <= CalculatedScore(f)
<1>1. f.completed \in Nat /\ f.jobs \in Nat /\ g.jobs \in Nat
  BY DEF PossibleFigures, Figures
<1>2. /\ Reviews(g) = Reviews(f) /\ Community(g) = Community(f) /\ Jobs(f) <= Jobs(g)
  BY <1>1 DEF Jobs, Reviews, Community, Most
<1>3. PICK c \in Nat, w \in Nat, J \in Nat \ {0}, R \in Nat \ {0} :
        /\ c = Community(f) /\ J = Jobs(f) /\ R = Reviews(f) /\ w = 98 + 8 * f.filled
        /\ Overall(f) = 120 * (f.completed * R) + J * c + w * (J * R)
        /\ Scale(f) = 4 * (J * R)
  BY OverallTerms
<1>4. PICK K \in Nat \ {0} :
        /\ K = Jobs(g)
        /\ Overall(g) = 120 * (f.completed * R) + K * c + w * (K * R)
        /\ Scale(g) = 4 * (K * R)
  <2>1. PICK d \in Nat, v \in Nat, K \in Nat \ {0}, S \in Nat \ {0} :
          /\ d = Community(g) /\ K = Jobs(g) /\ S = Reviews(g) /\ v = 98 + 8 * g.filled
          /\ Overall(g) = 120 * (g.completed * S) + K * d + v * (K * S)
          /\ Scale(g) = 4 * (K * S)
    BY OverallTerms
  <2>2. d = c /\ v = w /\ S = R /\ g.completed = f.completed
    BY <1>2, <1>3, <2>1
  <2> QED
    BY <2>1, <2>2
<1>5. PICK a \in Nat : a = 480 * (f.completed * R) * R
  <2>1. f.completed * R \in Nat
    BY <1>1, ProductNat
  <2>2. 480 * (f.completed * R) \in Nat
    BY <2>1
  <2> QED
    BY <2>2, ProductNat
<1>6. PICK b \in Nat : b = f.completed * R
  BY <1>1, ProductNat
<1>7. PICK z \in Int : z = 4 * ((J * c + w * (J * R)) * (K * R))
  OBVIOUS
<1>8. Overall(f) * Scale(g) = a * K + z
  <2>1. (120 * b + J * c + w * (J * R)) * (4 * (K * R))
          = (480 * b * R) * K + 4 * ((J * c + w * (J * R)) * (K * R))
    OBVIOUS
  <2> QED
    BY <1>3, <1>4, <1>5, <1>6, <1>7, <2>1
<1>9. Overall(g) * Scale(f) = a * J + z
  <2>1. (120 * b + K * c + w * (K * R)) * (4 * (J * R))
          = (480 * b * R) * J + 4 * ((J * c + w * (J * R)) * (K * R))
    OBVIOUS
  <2> QED
    BY <1>3, <1>4, <1>5, <1>6, <1>7, <2>1
<1>10. J * a <= K * a /\ J * a = a * J /\ K * a = a * K
  BY <1>2, <1>3, <1>4, ProductOrder
<1>11. Overall(g) * Scale(f) <= Overall(f) * Scale(g)
  <2>1. a * J \in Int /\ a * K \in Int
    OBVIOUS
  <2> QED
    BY <1>8, <1>9, <1>10, <2>1
<1> QED
  BY <1>11, BetterSum

\* The same work, and a better community score.
LEMMA BetterCommunity ==
  ASSUME NEW f \in PossibleFigures, NEW g \in PossibleFigures,
         f.jobs = g.jobs, f.completed = g.completed, f.filled = g.filled,
         f.disputes = g.disputes,
         Community(f) * Reviews(g) <= Community(g) * Reviews(f)
  PROVE  CalculatedScore(f) <= CalculatedScore(g)
<1>1. f.completed \in Nat
  BY DEF PossibleFigures, Figures
<1>2. Jobs(g) = Jobs(f)
  BY DEF Jobs
<1>3. PICK c \in Nat, w \in Nat, J \in Nat \ {0}, R \in Nat \ {0} :
        /\ c = Community(f) /\ J = Jobs(f) /\ R = Reviews(f) /\ w = 98 + 8 * f.filled
        /\ Overall(f) = 120 * (f.completed * R) + J * c + w * (J * R)
        /\ Scale(f) = 4 * (J * R)
  BY OverallTerms
<1>4. PICK d \in Nat, S \in Nat \ {0} :
        /\ d = Community(g) /\ S = Reviews(g)
        /\ Overall(g) = 120 * (f.completed * S) + J * d + w * (J * S)
        /\ Scale(g) = 4 * (J * S)
  <2>1. PICK d \in Nat, v \in Nat, K \in Nat \ {0}, S \in Nat \ {0} :
          /\ d = Community(g) /\ K = Jobs(g) /\ S = Reviews(g) /\ v = 98 + 8 * g.filled
          /\ Overall(g) = 120 * (g.completed * S) + K * d + v * (K * S)
          /\ Scale(g) = 4 * (K * S)
    BY OverallTerms
  <2>2. K = J /\ v = w /\ g.completed = f.completed
    BY <1>2, <1>3, <2>1
  <2> QED
    BY <2>1, <2>2
<1>5. c * S <= d * R
  BY <1>3, <1>4
<1>6. PICK n \in Nat : n = f.completed
  BY <1>1
<1>7. PICK a \in Nat : a = 4 * (J * J)
  BY ProductNat
<1>8. PICK z \in Int : z = 4 * ((120 * n + w * J) * (J * (R * S)))
  OBVIOUS
<1>9. Overall(f) * Scale(g) = (c * S) * a + z
  <2>1. (120 * (n * R) + J * c + w * (J * R)) * (4 * (J * S))
          = (c * S) * (4 * (J * J)) + 4 * ((120 * n + w * J) * (J * (R * S)))
    OBVIOUS
  <2> QED
    BY <1>3, <1>4, <1>6, <1>7, <1>8, <2>1
<1>10. Overall(g) * Scale(f) = (d * R) * a + z
  <2>1. (120 * (n * S) + J * d + w * (J * S)) * (4 * (J * R))
          = (d * R) * (4 * (J * J)) + 4 * ((120 * n + w * J) * (J * (R * S)))
    OBVIOUS
  <2> QED
    BY <1>3, <1>4, <1>6, <1>7, <1>8, <2>1
<1>11. (c * S) * a <= (d * R) * a
  BY <1>5, ProductOrder
<1>12. Overall(f) * Scale(g) <= Overall(g) * Scale(f)
  <2>1. (c * S) * a \in Int /\ (d * R) * a \in Int
    OBVIOUS
  <2> QED
    BY <1>9, <1>10, <1>11, <2>1
<1> QED
  BY <1>12, BetterSum

\* A better average rating is not a worse community score.
LEMMA CommunityOrder ==
  ASSUME NEW a \in Nat, NEW b \in Nat, NEW v \in Nat,
         NEW R \in Nat \ {0}, NEW S \in Nat \ {0}, a * S <= b * R
  PROVE  Least(14 * a + 10 * v * R, 100 * R) * S <= Least(14 * b + 10 * v * S, 100 * S) * R
<1>1. PICK m \in Nat, n \in Nat : m = v * R /\ n = v * S
  BY ProductNat
<1>2. 10 * v * R = 10 * m /\ 10 * v * S = 10 * n
  BY <1>1
<1>3. PICK x \in Nat, y \in Nat :
        x = Least(14 * a + 10 * m, 100 * R) /\ y = Least(14 * b + 10 * n, 100 * S)
  BY DEF Least
<1>4. m * S = n * R
  BY <1>1
<1>5. CASE y = 100 * S
  <2>1. x <= 100 * R
    BY <1>3 DEF Least
  <2>2. x * S <= (100 * R) * S /\ (100 * R) * S = y * R
    BY <1>5, <2>1, ProductOrder
  <2> QED
    BY <1>2, <1>3, <2>2
<1>6. CASE y = 14 * b + 10 * n
  <2>1. x <= 14 * a + 10 * m
    BY <1>3 DEF Least
  <2>2. x * S <= (14 * a + 10 * m) * S
    BY <2>1, ProductOrder
  <2>3. /\ (14 * a + 10 * m) * S = 14 * (a * S) + 10 * (m * S)
        /\ y * R = 14 * (b * R) + 10 * (n * R)
    BY <1>6
  <2>4. /\ a * S \in Int /\ m * S \in Int /\ b * R \in Int /\ n * R \in Int
        /\ x * S \in Int /\ y * R \in Int
    OBVIOUS
  <2>5. x * S <= y * R
    BY <1>4, <2>2, <2>3, <2>4
  <2> QED
    BY <1>2, <1>3, <2>5
<1> QED
  BY <1>3, <1>5, <1>6 DEF Least

\* One more vouch.
LEMMA MoreVouches ==
  ASSUME NEW f \in PossibleFigures, NEW g \in PossibleFigures,
         f.jobs = g.jobs, f.completed = g.completed, f.reviews = g.reviews,
         f.ratings = g.ratings, f.filled = g.filled, f.disputes = g.disputes,
         f.vouches <= g.vouches
  PROVE  CalculatedScore(f) <= CalculatedScore(g)
<1>1. f.vouches \in Nat /\ g.vouches \in Nat /\ f.ratings \in Nat
  BY DEF PossibleFigures, Figures
<1>2. PICK R \in Nat \ {0} : R = Reviews(f) /\ R = Reviews(g)
  BY Denominators DEF Reviews
<1>3. PICK m \in Nat, n \in Nat : m = f.vouches * R /\ n = g.vouches * R
  BY <1>1, ProductNat
<1>4. m <= n
  BY <1>1, <1>3, ProductOrder
<1>5. /\ Community(f) = Least(14 * f.ratings + 10 * m, 100 * R)
      /\ Community(g) = Least(14 * f.ratings + 10 * n, 100 * R)
  <2>1. 10 * f.vouches * R = 10 * m /\ 10 * g.vouches * R = 10 * n
    BY <1>1, <1>3
  <2> QED
    BY <1>2, <2>1 DEF Community
<1>6. Community(f) <= Community(g) /\ Community(f) \in Nat /\ Community(g) \in Nat
  BY <1>1, <1>4, <1>5 DEF Least
<1>7. Community(f) * R <= Community(g) * R
  BY <1>6, ProductOrder
<1>8. Community(f) * Reviews(g) <= Community(g) * Reviews(f)
  BY <1>2, <1>7, Zenon
<1> QED
  BY <1>8, BetterCommunity

\* One more review: it moves the score to the side of the average it is on.
LEMMA MoreReviews ==
  ASSUME NEW f \in PossibleFigures, NEW g \in PossibleFigures, NEW r \in Nat,
         f.jobs = g.jobs, f.completed = g.completed, f.filled = g.filled,
         f.disputes = g.disputes, f.vouches = g.vouches,
         g.reviews = f.reviews + 1, g.ratings = f.ratings + r
  PROVE  /\ r * f.reviews >= f.ratings => CalculatedScore(f) <= CalculatedScore(g)
         /\ f.reviews > 0 /\ r * f.reviews <= f.ratings
              => CalculatedScore(g) <= CalculatedScore(f)
<1>1. PICK n \in Nat, a \in Nat, v \in Nat :
        n = f.reviews /\ a = f.ratings /\ v = f.vouches /\ a <= 5 * n
  BY DEF PossibleFigures, Figures
<1>2. PICK R \in Nat \ {0}, S \in Nat \ {0} : R = Reviews(f) /\ S = Reviews(g)
  BY Denominators
<1>3. S = n + 1 /\ R = Most(n, 1)
  BY <1>1, <1>2 DEF Reviews, Most
<1>4. PICK b \in Nat : b = a + r
  OBVIOUS
<1>5. /\ Community(f) = Least(14 * a + 10 * v * R, 100 * R)
      /\ Community(g) = Least(14 * b + 10 * v * S, 100 * S)
  BY <1>1, <1>2, <1>4 DEF Community
<1>6. n > 0 => a * S = a * n + a /\ b * R = a * n + r * n
  BY <1>3, <1>4 DEF Most
<1>7. a * n \in Int /\ r * n \in Int
  OBVIOUS
<1>8. ASSUME r * n >= a PROVE CalculatedScore(f) <= CalculatedScore(g)
  <2>1. a * S <= b * R
    <3>1. CASE n = 0
      BY <1>1, <1>3, <1>4, <3>1 DEF Most
    <3>2. CASE n > 0
      BY <1>6, <1>7, <1>8, <3>2
    <3> QED
      BY <3>1, <3>2
  <2>2. Community(f) * S <= Community(g) * R
    <3>1. Least(14 * a + 10 * v * R, 100 * R) * S <= Least(14 * b + 10 * v * S, 100 * S) * R
      BY <2>1, CommunityOrder
    <3> QED
      BY <1>5, <3>1, Zenon
  <2>3. Community(f) * Reviews(g) <= Community(g) * Reviews(f)
    BY <1>2, <2>2, Zenon
  <2> QED
    BY <2>3, BetterCommunity
<1>9. ASSUME n > 0, r * n <= a PROVE CalculatedScore(g) <= CalculatedScore(f)
  <2>1. b * R <= a * S
    BY <1>6, <1>7, <1>9
  <2>2. Community(g) * R <= Community(f) * S
    <3>1. Least(14 * b + 10 * v * S, 100 * S) * R <= Least(14 * a + 10 * v * R, 100 * R) * S
      BY <2>1, CommunityOrder
    <3> QED
      BY <1>5, <3>1, Zenon
  <2>3. Community(g) * Reviews(f) <= Community(f) * Reviews(g)
    BY <1>2, <2>2, Zenon
  <2> QED
    BY <2>3, BetterCommunity
<1> QED
  BY <1>1, <1>8, <1>9

LEMMA FiguresAround ==
  ASSUME HistoryInv, HistoryInv'
  PROVE  figures \in PossibleFigures /\ figures' \in PossibleFigures
<1>1. HistoryInv' => FiguresPossible'
  BY FiguresArePossible, PTL
<1> QED
  BY <1>1, FiguresArePossible DEF FiguresPossible

\* The counts of jobs are naturals.
LEMMA JobCounts ==
  ASSUME HistoryInv
  PROVE  \A s \in {"PENDING", "ACCEPTED", "COMPLETED", "REVIEWED", "CANCELLED", "DISPUTED"} :
           s \in JobState /\ jobs[s] \in Nat
BY DEF HistoryInv, TypeOK, JobState

LEMMA CompleteFigures ==
  ASSUME HistoryInv, HistoryInv', Complete
  PROVE  score' >= score
<1>1. figures \in PossibleFigures /\ figures' \in PossibleFigures
  BY FiguresAround
<1>2. \A s \in {"PENDING", "ACCEPTED", "COMPLETED", "REVIEWED", "CANCELLED", "DISPUTED"} :
        s \in JobState /\ jobs[s] \in Nat
  BY JobCounts
<1>3. /\ jobs'["ACCEPTED"] = jobs["ACCEPTED"] - 1
      /\ jobs'["COMPLETED"] = jobs["COMPLETED"] + 1
      /\ \A s \in JobState \ {"ACCEPTED", "COMPLETED"} : jobs'[s] = jobs[s]
  BY <1>2, Moves DEF Complete, HistoryInv, TypeOK
<1>4. /\ Total' = Total
      /\ jobs["COMPLETED"] + jobs["REVIEWED"] <= jobs'["COMPLETED"] + jobs'["REVIEWED"]
      /\ jobs'["DISPUTED"] = jobs["DISPUTED"]
  BY <1>2, <1>3 DEF Total
<1>5. UNCHANGED <<reviews, ratings, vouches, filled>>
  BY DEF Complete
<1>6. /\ figures'.jobs = figures.jobs /\ figures.completed <= figures'.completed
      /\ figures'.reviews = figures.reviews /\ figures'.ratings = figures.ratings
      /\ figures'.vouches = figures.vouches /\ figures'.filled = figures.filled
      /\ figures'.disputes = figures.disputes
  BY <1>4, <1>5 DEF figures
<1>7. CalculatedScore(figures) <= CalculatedScore(figures')
  BY <1>1, <1>6, MoreCompleted
<1>8. CalculatedScore(figures) \in Int /\ CalculatedScore(figures') \in Int
  BY <1>1, ScoreBounds
<1> QED
  BY <1>7, <1>8 DEF score

LEMMA VouchFigures ==
  ASSUME HistoryInv, HistoryInv', Vouch
  PROVE  score' >= score
<1>1. figures \in PossibleFigures /\ figures' \in PossibleFigures
  BY FiguresAround
<1>2. UNCHANGED <<jobs, reviews, ratings, filled>> /\ vouches' = vouches + 1 /\ vouches \in Nat
  BY DEF Vouch, HistoryInv, TypeOK
<1>3. /\ figures'.jobs = figures.jobs /\ figures.completed = figures'.completed
      /\ figures'.reviews = figures.reviews /\ figures'.ratings = figures.ratings
      /\ figures.vouches <= figures'.vouches /\ figures'.filled = figures.filled
      /\ figures'.disputes = figures.disputes
  BY <1>2 DEF figures, Total
<1>4. CalculatedScore(figures) <= CalculatedScore(figures')
  BY <1>1, <1>3, MoreVouches
<1>5. CalculatedScore(figures) \in Int /\ CalculatedScore(figures') \in Int
  BY <1>1, ScoreBounds
<1> QED
  BY <1>4, <1>5 DEF score

LEMMA RequestFigures ==
  ASSUME HistoryInv, HistoryInv', Request
  PROVE  score' <= score
<1>1. figures \in PossibleFigures /\ figures' \in PossibleFigures
  BY FiguresAround
<1>2. \A s \in {"PENDING", "ACCEPTED", "COMPLETED", "REVIEWED", "CANCELLED", "DISPUTED"} :
        s \in JobState /\ jobs[s] \in Nat
  BY JobCounts
<1>3. /\ jobs'["PENDING"] = jobs["PENDING"] + 1
      /\ \A s \in JobState \ {"PENDING"} : jobs'[s] = jobs[s]
  BY <1>2 DEF Request, HistoryInv, TypeOK
<1>4. Total <= Total'
  BY <1>2, <1>3 DEF Total
<1>5. UNCHANGED <<reviews, ratings, vouches, filled>>
  BY DEF Request
<1>6. /\ figures.jobs <= figures'.jobs /\ figures.completed = figures'.completed
      /\ figures'.reviews = figures.reviews /\ figures'.ratings = figures.ratings
      /\ figures'.vouches = figures.vouches /\ figures'.filled = figures.filled
      /\ figures'.disputes = figures.disputes
  BY <1>2, <1>3, <1>4, <1>5 DEF figures
<1>7. CalculatedScore(figures') <= CalculatedScore(figures)
  BY <1>1, <1>6, MoreJobs
<1> QED
  BY <1>7 DEF score

LEMMA ReviewFigures ==
  ASSUME HistoryInv, HistoryInv', NEW r \in 1 .. 5, Review(r)
  PROVE  /\ r * reviews >= ratings => score' >= score
         /\ reviews > 0 /\ r * reviews <= ratings => score' <= score
<1>1. figures \in PossibleFigures /\ figures' \in PossibleFigures
  BY FiguresAround
<1>2. \A s \in {"PENDING", "ACCEPTED", "COMPLETED", "REVIEWED", "CANCELLED", "DISPUTED"} :
        s \in JobState /\ jobs[s] \in Nat
  BY JobCounts
<1>3. /\ jobs'["COMPLETED"] = jobs["COMPLETED"] - 1
      /\ jobs'["REVIEWED"] = jobs["REVIEWED"] + 1
      /\ \A s \in JobState \ {"COMPLETED", "REVIEWED"} : jobs'[s] = jobs[s]
  BY <1>2, Moves DEF Review, HistoryInv, TypeOK
<1>4. /\ Total' = Total
      /\ jobs["COMPLETED"] + jobs["REVIEWED"] = jobs'["COMPLETED"] + jobs'["REVIEWED"]
      /\ jobs'["DISPUTED"] = jobs["DISPUTED"]
  BY <1>2, <1>3 DEF Total
<1>5. UNCHANGED <<vouches, filled>> /\ reviews' = reviews + 1 /\ ratings' = ratings + r
  BY DEF Review
<1>6. /\ figures'.jobs = figures.jobs /\ figures.completed = figures'.completed
      /\ figures'.reviews = figures.reviews + 1 /\ figures'.ratings = figures.ratings + r
      /\ figures'.vouches = figures.vouches /\ figures'.filled = figures.filled
      /\ figures'.disputes = figures.disputes
      /\ figures.reviews = reviews /\ figures.ratings = ratings
  BY <1>4, <1>5 DEF figures
<1>7. r \in Nat
  OBVIOUS
<1>8. /\ r * reviews >= ratings => CalculatedScore(figures) <= CalculatedScore(figures')
      /\ reviews > 0 /\ r * reviews <= ratings
           => CalculatedScore(figures') <= CalculatedScore(figures)
  <2>1. /\ r * figures.reviews >= figures.ratings
             => CalculatedScore(figures) <= CalculatedScore(figures')
        /\ figures.reviews > 0 /\ r * figures.reviews <= figures.ratings
             => CalculatedScore(figures') <= CalculatedScore(figures)
    BY <1>1, <1>6, <1>7, MoreReviews
  <2> QED
    BY <1>6, <2>1
<1>9. CalculatedScore(figures) \in Int /\ CalculatedScore(figures') \in Int
  BY <1>1, ScoreBounds
<1> QED
  BY <1>8, <1>9 DEF score

\* calculateScore: completed work, a vouch and a review no worse than the average
\* never lower the score, although each of them changes a denominator or a clamp
\* of the formula; for any number of jobs, reviews and vouches.
THEOREM GoodNewsIsGood == Spec => GoodNewsNeverHurts
<1>1. HistoryInv /\ HistoryInv' =>
        [\/ Complete
         \/ Vouch
         \/ \E r \in 1 .. 5 : Review(r) /\ r * reviews >= ratings
         => score' >= score]_vars
  BY CompleteFigures, VouchFigures, ReviewFigures
<1> QED
  BY <1>1, HistoryInvHolds, PTL DEF GoodNewsNeverHurts

\* calculateScore: an unanswered request, and a review no better than the
\* average, never raise the score, for any history.
THEOREM BadNewsIsBad == Spec => BadNewsNeverHelps
<1>1. HistoryInv /\ HistoryInv' =>
        [\/ Request
         \/ \E r \in 1 .. 5 : Review(r) /\ reviews > 0 /\ r * reviews <= ratings
         => score' <= score]_vars
  BY RequestFigures, ReviewFigures
<1> QED
  BY <1>1, HistoryInvHolds, PTL DEF BadNewsNeverHelps
=============================================================================
