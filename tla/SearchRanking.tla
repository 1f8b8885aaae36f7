--------------------------- MODULE SearchRanking ---------------------------
(***************************************************************************)
(* search.ranker.ts: the score of a provider for a search, and the         *)
(* comparison by which the results are sorted.  Nothing here has state.    *)
(*                                                                         *)
(* place is what the texts of a provider's city and state say to the       *)
(* location of the search: "city" if the city is it, "state" if the state  *)
(* contains it, "part" if only the city contains it (say Lagos Island for  *)
(* Lagos), "wider" if only it contains the state (say Lagos State), "away" *)
(* in all other cases.                                                     *)
(***************************************************************************)
EXTENDS Integers

CONSTANT None      \* a number that is null or undefined

ASSUME NoneIsNoNumber == None \notin Int

Place == {"city", "state", "part", "wider", "away"}

\* distance is in hundredths of a kilometre: haversineDistanceKm rounds to two
\* digits.
Provider ==
  [place: Place, experience: Int \cup {None},
   avatar: BOOLEAN, pricing: BOOLEAN, availability: BOOLEAN,
   distance: Nat \cup {None}]

Near == 500

LocationPoints == [city |-> 3, state |-> 1, part |-> 0, wider |-> 1, away |-> 0]

ExperiencePoints(e) ==
  IF e # None /\ e > 0 THEN (IF e \div 5 < 3 THEN e \div 5 ELSE 3) ELSE 0

Bit(b) == IF b THEN 1 ELSE 0

ProximityPoints(d) == Bit(d # None /\ d <= Near)

\* located: does the intent name a location?
rankScore(p, located) ==
  (IF located THEN LocationPoints[p.place] ELSE 0)
    + ExperiencePoints(p.experience)
    + Bit(p.avatar) + Bit(p.pricing) + Bit(p.availability)
    + ProximityPoints(p.distance)

\* aDist - bDist with Infinity for an unknown distance; the difference of two
\* infinities is not a number, which sort takes for equal.
DistanceDifference(a, b) ==
  IF a = None /\ b = None THEN 0
  ELSE IF a = None THEN 1
  ELSE IF b = None THEN -1
  ELSE a - b

\* The callback of sort: negative if a comes first, positive if b does.
compare(a, b, located) ==
  IF rankScore(b, located) # rankScore(a, located)
    THEN rankScore(b, located) - rankScore(a, located)
    ELSE DistanceDifference(a.distance, b.distance)

-----------------------------------------------------------------------------
\* Closer(d, e): distance d is known and less than e, or e is unknown.
Closer(d, e) == d # None /\ (e = None \/ d < e)

\* How far a place is preferred to another by the table at the head of the file.
Grade(place) == IF place = "city" THEN 2 ELSE IF place \in {"state", "wider"} THEN 1 ELSE 0

Years(e) == IF e = None \/ e < 0 THEN 0 ELSE e

\* a is as good as b in every respect the ranking looks at ...
AsGood(a, b, located) ==
  /\ located => Grade(a.place) >= Grade(b.place)
  /\ Years(a.experience) >= Years(b.experience)
  /\ b.avatar => a.avatar
  /\ b.pricing => a.pricing
  /\ b.availability => a.availability
  /\ ~Closer(b.distance, a.distance)

\* ... and better in one that it does not round.
Better(a, b, located) ==
  /\ AsGood(a, b, located)
  /\ \/ located /\ Grade(a.place) > Grade(b.place)
     \/ a.avatar /\ ~b.avatar
     \/ a.pricing /\ ~b.pricing
     \/ a.availability /\ ~b.availability
     \/ Closer(a.distance, b.distance)
=============================================================================
