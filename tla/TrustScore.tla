---------------------------- MODULE TrustScore ----------------------------
(***************************************************************************)
(* calculateScore of TrustService: the trust score of a provider, from the *)
(* figures its queries return.                                             *)
(*                                                                         *)
(* The code computes with doubles and rounds once at the end.  Here the    *)
(* same terms are exact fractions over a common denominator Scale(f), so a *)
(* score below is what the formula says; the program may differ by one     *)
(* point where a sum of doubles falls on the other side of a half.         *)
(***************************************************************************)
EXTENDS Integers

\* The lengths and sums calculateScore takes from its five queries; filled is
\* the number of the identity's five fields that are set.
Figures == [jobs: Nat, completed: Nat, reviews: Nat, ratings: Nat,
            vouches: Nat, filled: 0 .. 5, disputes: Nat]

Least(a, b) == IF a < b THEN a ELSE b
Most(a, b) == IF a > b THEN a ELSE b

\* Without jobs or reviews the rate and the average are 0: any denominator will do.
Jobs(f) == Most(f.jobs, 1)
Reviews(f) == Most(f.reviews, 1)
Scale(f) == 4 * Jobs(f) * Reviews(f)

\* The community score times Reviews(f): 70 points for the average rating out
\* of 5 and 10 for each vouch, together at most 100.
Community(f) == Least(14 * f.ratings + 10 * f.vouches * Reviews(f), 100 * Reviews(f))

\* overallScore times Scale(f).  The terms are 30% of the completion rate, 25%
\* of the community score, 20% and 15% of two figures fixed at 70, and 10% of
\* the completeness, 20 points for each field.
Overall(f) ==
    120 * f.completed * Reviews(f)
  + Jobs(f) * Community(f)
  + 98 * Jobs(f) * Reviews(f)
  + 8 * f.filled * Jobs(f) * Reviews(f)

\* Faulty: the clamp from below is missing.
UnclampedPenalty(f) == Least(100 * Scale(f), Overall(f) - 15 * f.disputes * Scale(f))

\* finalScore times Scale(f).
Final(f) == Most(0, Least(100 * Scale(f), Overall(f) - 15 * f.disputes * Scale(f)))

\* Math.round(x / d): halves go up.
Rounded(x, d) == (2 * x + d) \div (2 * d)

CalculatedScore(f) == Rounded(Final(f), Scale(f))
=============================================================================
