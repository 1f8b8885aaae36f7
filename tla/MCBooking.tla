----------------------------- MODULE MCBooking -----------------------------
(***************************************************************************)
(* Instances of Booking for TLC.                                           *)
(***************************************************************************)
EXTENDS BookingInvariant, TLC

CONSTANTS p1, p2, p3, u1, u2

\* Three profiles; the first account owns two of them.
MCProfiles == {p1, p2, p3}
MCUserOf == [p \in MCProfiles |-> IF p = p2 THEN u2 ELSE u1]

\* Two parties are enough where who owns a profile does not matter.
MCPair == {p1, p2}
MCPairUserOf == [p \in MCPair |-> IF p = p1 THEN u1 ELSE u2]

AllOps == Operation

Symmetry == Permutations(Bookings) \cup Permutations(Handlers)
=============================================================================
