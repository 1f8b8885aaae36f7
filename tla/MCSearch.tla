------------------------------ MODULE MCSearch ------------------------------
(***************************************************************************)
(* Instance of SearchRequests for TLC.                                     *)
(***************************************************************************)
EXTENDS SearchRequests, TLC

\* Providers who differ where the ranking looks, ties and unknowns included.
Tailor(place, experience, avatar, distance) ==
  [trade |-> "tailor", done |-> TRUE,
   provider |-> [place |-> place, experience |-> experience, distance |-> distance,
                 avatar |-> avatar, pricing |-> FALSE, availability |-> FALSE]]

MCRows ==
  {Tailor("city", 0, FALSE, 300),
   Tailor("state", 12, TRUE, None),
   Tailor("state", 12, TRUE, 900),
   [Tailor("state", 14, TRUE, 700) EXCEPT !.trade = "plumber"],
   [Tailor("away", 40, TRUE, 500) EXCEPT !.trade = "plumber", !.done = FALSE]}

\* Profiles differ by their rows only.
Symmetry == Permutations(Profiles)
=============================================================================
