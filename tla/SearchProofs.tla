---------------------------- MODULE SearchProofs ----------------------------
(***************************************************************************)
(* What a search answers, for any providers, rows and requests in flight:  *)
(* the ranking is an order, Array.prototype.sort by it is a permutation    *)
(* that respects it, and nobody stands before a provider that surpasses    *)
(* them.                                                                   *)
(***************************************************************************)
EXTENDS SearchRequests, FiniteSetTheorems, SequenceTheorems, TLAPS

-----------------------------------------------------------------------------
USE DEF Bit

LEMMA Points ==
  ASSUME NEW p \in Provider
  PROVE  /\ LocationPoints[p.place] \in 0 .. 3
         /\ ExperiencePoints(p.experience) \in 0 .. 3
         /\ Bit(p.avatar) + Bit(p.pricing) + Bit(p.availability) \in 0 .. 3
         /\ ProximityPoints(p.distance) \in 0 .. 1
<1>1. LocationPoints[p.place] \in 0 .. 3
  BY DEF Provider, Place, LocationPoints
<1>2. ExperiencePoints(p.experience) \in 0 .. 3
  <2>1. p.experience # None => p.experience \in Int
    BY DEF Provider
  <2> QED
    BY <2>1 DEF ExperiencePoints
<1>3. ProximityPoints(p.distance) \in 0 .. 1
  BY DEF ProximityPoints
<1> QED
  BY <1>1, <1>2, <1>3

\* computeRankScore: from 0 to 10 points ("max ~9 pts" at the head of the file
\* leaves the proximity bonus out).
THEOREM RankScoreBounds ==
  ASSUME NEW p \in Provider, NEW located \in BOOLEAN
  PROVE  rankScore(p, located) \in 0 .. 10
BY Points DEF rankScore

LEMMA DistanceOrder ==
  ASSUME NEW a \in Nat \cup {None}, NEW b \in Nat \cup {None}, NEW c \in Nat \cup {None}
  PROVE  LET d(x, y) == DistanceDifference(x, y) IN
         /\ d(a, b) \in Int
         /\ d(a, b) < 0 <=> d(b, a) > 0
         /\ d(a, b) <= 0 /\ d(b, c) <= 0 => d(a, c) <= 0
BY DEF DistanceDifference

\* sortByRank: its callback orders any providers, ties included - it never
\* contradicts itself, and it is transitive - so that what sort returns does
\* not depend on the order in which the rows came, but for ties.
THEOREM RankingIsAnOrder ==
  ASSUME NEW a \in Provider, NEW b \in Provider, NEW c \in Provider,
         NEW located \in BOOLEAN
  PROVE  LET cmp(x, y) == compare(x, y, located) IN
         /\ cmp(a, b) \in Int
         /\ cmp(a, b) < 0 <=> cmp(b, a) > 0
         /\ cmp(a, b) <= 0 /\ cmp(b, c) <= 0 => cmp(a, c) <= 0
<1> DEFINE S(x) == rankScore(x, located)
           d(x, y) == DistanceDifference(x.distance, y.distance)
<1>1. S(a) \in Int /\ S(b) \in Int /\ S(c) \in Int
  BY RankScoreBounds
<1>2. /\ d(a, b) \in Int
      /\ d(a, b) < 0 <=> d(b, a) > 0
      /\ d(a, b) <= 0 /\ d(b, c) <= 0 => d(a, c) <= 0
  <2>1. a.distance \in Nat \cup {None} /\ b.distance \in Nat \cup {None} /\ c.distance \in Nat \cup {None}
    BY DEF Provider
  <2> QED
    BY <2>1, DistanceOrder
<1>3. \A x, y \in {a, b, c} :
        compare(x, y, located) = IF S(y) # S(x) THEN S(y) - S(x) ELSE d(x, y)
  BY DEF compare
<1> HIDE DEF S, d
<1> QED
  BY <1>1, <1>2, <1>3

LEMMA PointsGrow ==
  ASSUME NEW a \in Provider, NEW b \in Provider, NEW located \in BOOLEAN,
         AsGood(a, b, located)
  PROVE  /\ located => LocationPoints[a.place] >= LocationPoints[b.place]
         /\ ExperiencePoints(a.experience) >= ExperiencePoints(b.experience)
         /\ ProximityPoints(a.distance) >= ProximityPoints(b.distance)
<1>1. located => LocationPoints[a.place] >= LocationPoints[b.place]
  BY DEF AsGood, Grade, Provider, Place, LocationPoints
<1>2. ExperiencePoints(a.experience) >= ExperiencePoints(b.experience)
  <2>1. a.experience \in Int \cup {None} /\ b.experience \in Int \cup {None}
    BY DEF Provider
  <2>2. Years(a.experience) >= Years(b.experience)
    BY DEF AsGood
  <2> QED
    BY <2>1, <2>2 DEF Years, ExperiencePoints
<1>3. ProximityPoints(a.distance) >= ProximityPoints(b.distance)
  BY DEF AsGood, Closer, ProximityPoints, Provider, Near
<1> QED
  BY <1>1, <1>2, <1>3

\* sortByRank: who is as good as another in everything the ranking looks at and
\* better in one thing comes first, whatever the roundings of the score.
THEOREM BetterComesFirst ==
  ASSUME NEW a \in Provider, NEW b \in Provider, NEW located \in BOOLEAN,
         Better(a, b, located)
  PROVE  compare(a, b, located) < 0
<1> DEFINE S(p) == rankScore(p, located)
<1>0. AsGood(a, b, located)
  BY DEF Better
<1>1. /\ located => LocationPoints[a.place] >= LocationPoints[b.place]
      /\ ExperiencePoints(a.experience) >= ExperiencePoints(b.experience)
      /\ ProximityPoints(a.distance) >= ProximityPoints(b.distance)
  BY <1>0, PointsGrow
<1>2. /\ Bit(a.avatar) >= Bit(b.avatar)
      /\ Bit(a.pricing) >= Bit(b.pricing)
      /\ Bit(a.availability) >= Bit(b.availability)
  BY <1>0 DEF AsGood
<1>3. S(a) \in Int /\ S(b) \in Int
  BY RankScoreBounds
<1>4. CASE located /\ Grade(a.place) > Grade(b.place)
  <2>1. LocationPoints[a.place] > LocationPoints[b.place]
    BY <1>4 DEF Grade, Provider, Place, LocationPoints
  <2>2. S(a) > S(b)
    BY <1>1, <1>2, <1>4, <2>1, Points DEF rankScore
  <2> QED
    BY <1>3, <2>2 DEF compare
<1>5. CASE \/ a.avatar /\ ~b.avatar
           \/ a.pricing /\ ~b.pricing
           \/ a.availability /\ ~b.availability
  <2>1. S(a) > S(b)
    BY <1>1, <1>2, <1>5, Points DEF rankScore
  <2> QED
    BY <1>3, <2>1 DEF compare
<1>6. CASE Closer(a.distance, b.distance)
  <2>1. S(a) >= S(b)
    BY <1>1, <1>2, Points DEF rankScore
  <2>2. DistanceDifference(a.distance, b.distance) < 0
    BY <1>6 DEF Closer, DistanceDifference, Provider
  <2> QED
    BY <1>3, <2>1, <2>2 DEF compare
<1> QED
  BY <1>4, <1>5, <1>6 DEF Better

-----------------------------------------------------------------------------
(***************************************************************************)
(* Array.prototype.sort.                                                   *)
(***************************************************************************)

\* A callback that sort can work with: no two elements each go after the other,
\* and who goes after another goes after, or is followed by, any third.
Consistent(D, callback) ==
  \A i, j, k \in D :
    /\ callback[i][j] \in Int
    /\ callback[i][j] < 0 <=> callback[j][i] > 0
    /\ callback[i][j] <= 0 /\ callback[j][k] <= 0 => callback[i][k] <= 0

\* An enumeration of the finite set D takes every element once.
LEMMA EveryPlaceTaken ==
  ASSUME NEW D, IsFiniteSet(D), NEW f \in [D -> 1 .. Cardinality(D)], IsInjective(f)
  PROVE  \A k \in 1 .. Cardinality(D) : \E i \in D : f[i] = k
<1>1. Cardinality(D) \in Nat
  BY FS_CardinalityType
<1>2. IsFiniteSet(1 .. Cardinality(D)) /\ Cardinality(1 .. Cardinality(D)) = Cardinality(D)
  BY <1>1, FS_Interval
<1>3. f \in Injection(D, 1 .. Cardinality(D))
  BY DEF Injection
<1>4. f \in Surjection(D, 1 .. Cardinality(D))
  BY <1>2, <1>3, FS_Injection
<1> QED
  BY <1>4 DEF Surjection

\* sort returns every element once, and none that goes after a later one.
LEMMA Sorted ==
  ASSUME NEW s, NEW callback, DOMAIN s \subseteq Int, IsFiniteSet(DOMAIN s),
         Consistent(DOMAIN s, callback)
  PROVE  \E p \in [1 .. Cardinality(DOMAIN s) -> DOMAIN s] :
           /\ IsInjective(p)
           /\ \A i \in DOMAIN s : \E k \in 1 .. Cardinality(DOMAIN s) : p[k] = i
           /\ Sort(s, callback) = [k \in 1 .. Cardinality(DOMAIN s) |-> s[p[k]]]
           /\ \A k, l \in 1 .. Cardinality(DOMAIN s) : k < l => callback[p[k]][p[l]] <= 0
<1> DEFINE before(i, j) == callback[j][i] > 0 \/ (i < j /\ callback[i][j] <= 0)
           place(i) == 1 + Cardinality({j \in DOMAIN s : before(j, i)})
<1>1. PICK D : D = DOMAIN s
  OBVIOUS
<1>2. PICK n \in Nat : n = Cardinality(D)
  BY <1>1, FS_CardinalityType
<1>3. \A i, j \in D : i # j => before(i, j) \/ before(j, i)
  BY <1>1 DEF Consistent
<1>4. \A i, j \in D : before(i, j) => ~before(j, i) /\ callback[i][j] <= 0
  BY <1>1 DEF Consistent
<1>5. \A i, j, k \in D : before(i, j) /\ before(j, k) => before(i, k)
  BY <1>1 DEF Consistent
<1> DEFINE Earlier(i) == {j \in D : before(j, i)}
<1>6. \A i \in D : Earlier(i) \subseteq D \ {i}
  BY <1>4
<1>7. \A i \in D : place(i) = 1 + Cardinality(Earlier(i))
  BY <1>1, Zenon
<1>8. Sort(s, callback) = [k \in 1 .. n |-> s[CHOOSE i \in DOMAIN s : place(i) = k]]
  BY <1>1, <1>2, Zenon DEF Sort
<1>9. \A i, j \in D : before(i, j) => Earlier(i) \subseteq Earlier(j) /\ i \in Earlier(j)
                                      /\ i \notin Earlier(i)
  BY <1>4, <1>5
<1> HIDE DEF before, place, Earlier
<1>10. ASSUME NEW i \in D PROVE place(i) \in 1 .. n
  <2>1. IsFiniteSet(D \ {i}) /\ Cardinality(D \ {i}) = n - 1
    BY <1>1, <1>2, FS_RemoveElement
  <2>2. IsFiniteSet(Earlier(i)) /\ Cardinality(Earlier(i)) <= n - 1
    BY <1>6, <2>1, FS_Subset
  <2>3. Cardinality(Earlier(i)) \in Nat
    BY <2>2, FS_CardinalityType
  <2> QED
    BY <1>2, <1>7, <2>2, <2>3
<1>11. ASSUME NEW i \in D, NEW j \in D, before(i, j) PROVE place(i) < place(j)
  <2>1. IsFiniteSet(Earlier(i)) /\ IsFiniteSet(Earlier(j))
    BY <1>1, <1>6, FS_Subset
  <2>2. /\ Cardinality(Earlier(i)) <= Cardinality(Earlier(j))
        /\ Cardinality(Earlier(j)) = Cardinality(Earlier(i)) => Earlier(j) = Earlier(i)
    BY <1>9, <1>11, <2>1, FS_Subset
  <2>3. Earlier(j) # Earlier(i)
    BY <1>9, <1>11
  <2>4. Cardinality(Earlier(i)) \in Nat /\ Cardinality(Earlier(j)) \in Nat
    BY <2>1, FS_CardinalityType
  <2> QED
    BY <1>7, <2>2, <2>3, <2>4
<1> DEFINE f == [i \in D |-> place(i)]
           p == [k \in 1 .. n |-> CHOOSE i \in DOMAIN s : place(i) = k]
<1>12. f \in [D -> 1 .. n]
  BY <1>10
<1>13. IsInjective(f)
  <2> SUFFICES ASSUME NEW i \in D, NEW j \in D, f[i] = f[j], i # j PROVE FALSE
    BY DEF IsInjective
  <2>1. place(i) \in Int /\ place(j) \in Int /\ place(i) = place(j)
    BY <1>10
  <2> QED
    BY <1>3, <1>11, <2>1
<1>14. \A k \in 1 .. n : \E i \in D : place(i) = k
  BY <1>1, <1>2, <1>12, <1>13, EveryPlaceTaken
<1>15. \A k \in 1 .. n : p[k] \in D /\ place(p[k]) = k
  BY <1>1, <1>14
<1>16. p \in [1 .. n -> D]
  BY <1>15
<1>17. IsInjective(p)
  BY <1>15 DEF IsInjective
<1>18. \A i \in D : p[place(i)] = i /\ place(i) \in 1 .. n
  <2> SUFFICES ASSUME NEW i \in D PROVE p[place(i)] = i /\ place(i) \in 1 .. n
    OBVIOUS
  <2>1. place(i) \in 1 .. n
    BY <1>10
  <2>2. p[place(i)] \in D /\ place(p[place(i)]) = place(i)
    BY <1>15, <2>1
  <2>3. f[p[place(i)]] = f[i]
    BY <2>2
  <2> QED
    BY <1>13, <2>1, <2>2, <2>3 DEF IsInjective
<1>19. Sort(s, callback) = [k \in 1 .. n |-> s[p[k]]]
  BY <1>8
<1>20. ASSUME NEW k \in 1 .. n, NEW l \in 1 .. n, k < l PROVE callback[p[k]][p[l]] <= 0
  <2>1. PICK i \in D, j \in D : i = p[k] /\ j = p[l] /\ place(i) = k /\ place(j) = l
    BY <1>15
  <2>2. before(j, i) => place(j) < place(i)
    BY <1>11
  <2>3. i # j /\ ~before(j, i)
    <3>1. k \in Int /\ l \in Int
      BY <1>2
    <3>2. ~(l < k) /\ k # l
      BY <1>20, <3>1
    <3> QED
      BY <2>1, <2>2, <3>2, Zenon
  <2>4. callback[i][j] <= 0
    BY <1>3, <1>4, <2>3
  <2> QED
    BY <2>1, <2>4
<1> HIDE DEF p
<1> QED
  BY <1>1, <1>2, <1>16, <1>17, <1>18, <1>19, <1>20

-----------------------------------------------------------------------------
(***************************************************************************)
(* What the queries find and the answers list.                             *)
(***************************************************************************)

LEMMA Providers ==
  ASSUME identity \in [Profiles -> Rows], NEW p \in Profiles
  PROVE  /\ identity[p] \in Identity
         /\ identity[p].provider \in Provider /\ identity[p].trade \in Trades
BY SearchConstants DEF Identity

\* findMany takes as many different rows as there are, or as it may.
LEMMA TakenRows ==
  ASSUME NEW found, IsFiniteSet(found), NEW rows \in Taken(found)
  PROVE  \E n \in Nat :
           /\ n = Least(Take, Cardinality(found))
           /\ rows \in [1 .. n -> found] /\ IsInjective(rows)
           /\ Cardinality(found) <= Take => \A p \in found : \E i \in 1 .. n : rows[i] = p
<1>1. PICK c \in Nat : c = Cardinality(found)
  BY FS_CardinalityType
<1>2. PICK n \in Nat : n = IF c < Take THEN c ELSE Take
  BY <1>1, SearchConstants
<1>3. rows \in [1 .. n -> found] /\ IsInjective(rows)
  BY <1>1, <1>2 DEF Taken
<1>4. n = Least(Take, Cardinality(found))
  BY <1>1, <1>2, SearchConstants DEF Least
<1>5. ASSUME c <= Take PROVE \A p \in found : \E i \in 1 .. n : rows[i] = p
  <2>1. n = c
    BY <1>2, <1>5, SearchConstants
  <2>2. rows \in Injection(1 .. n, found) /\ Cardinality(1 .. n) = Cardinality(found)
    <3>1. rows \in Injection(1 .. n, found)
      BY <1>3 DEF Injection
    <3>2. Cardinality(1 .. n) = n
      BY FS_Interval
    <3> QED
      BY <1>1, <2>1, <3>1, <3>2
  <2>3. rows \in Surjection(1 .. n, found)
    BY <2>2, FS_Injection
  <2> QED
    BY <2>3 DEF Surjection
<1> QED
  BY <1>1, <1>3, <1>4, <1>5

LEMMA Length ==
  ASSUME NEW n \in Nat, NEW S, NEW s \in [1 .. n -> S]
  PROVE  s \in Seq(S) /\ Len(s) = n /\ DOMAIN s = 1 .. n
OBVIOUS

\* rankResults: the rows, each once, in the order of the ranking.
LEMMA RankedItems ==
  ASSUME identity \in [Profiles -> Rows], NEW n \in Nat, NEW rows \in [1 .. n -> Profiles],
         IsInjective(rows), NEW intent \in Intent, NEW here
  PROVE  LET items == Ranked(rows, intent, here) IN
           /\ items \in [1 .. n -> Item]
           /\ \A i \in 1 .. n : ~items[i].explained /\ \E j \in 1 .. n : items[i].id = rows[j]
           /\ InOrder(items, intent.located)
<1> DEFINE shown == [i \in DOMAIN rows |-> [id |-> rows[i], provider |-> Seen(rows[i], here),
                                            explained |-> FALSE]]
<1>1. PICK located \in BOOLEAN : located = intent.located
  BY DEF Intent
<1>2. PICK s : s = shown
  OBVIOUS
<1>3. \A i \in 1 .. n : Seen(rows[i], here) \in Provider
  <2> SUFFICES ASSUME NEW i \in 1 .. n PROVE Seen(rows[i], here) \in Provider
    OBVIOUS
  <2>1. PICK a \in Provider : a = identity[rows[i]].provider
    BY Providers
  <2>2. [a EXCEPT !.distance = None] \in Provider
    BY DEF Provider
  <2> QED
    BY <2>1, <2>2 DEF Seen
<1>4. /\ DOMAIN s = 1 .. n /\ s \in [1 .. n -> Item]
      /\ \A i \in 1 .. n : s[i].id = rows[i] /\ s[i].explained = FALSE
                           /\ s[i].provider \in Provider
  BY <1>2, <1>3 DEF Item
<1>5. PICK callback : callback = [i \in DOMAIN rows |-> [j \in DOMAIN rows |->
                                    compare(s[i].provider, s[j].provider, located)]]
  OBVIOUS
<1>6. \A i, j \in 1 .. n : callback[i][j] = compare(s[i].provider, s[j].provider, located)
  BY <1>5
<1>7. Ranked(rows, intent, here) = Sort(s, callback)
  BY <1>1, <1>2, <1>5 DEF Ranked
<1>8. Consistent(1 .. n, callback)
  <2> SUFFICES ASSUME NEW i \in 1 .. n, NEW j \in 1 .. n, NEW k \in 1 .. n
               PROVE  /\ callback[i][j] \in Int
                      /\ callback[i][j] < 0 <=> callback[j][i] > 0
                      /\ callback[i][j] <= 0 /\ callback[j][k] <= 0 => callback[i][k] <= 0
    BY DEF Consistent
  <2>1. PICK a \in Provider, b \in Provider, c \in Provider :
          a = s[i].provider /\ b = s[j].provider /\ c = s[k].provider
    BY <1>4
  <2>2. /\ callback[i][j] = compare(a, b, located) /\ callback[j][i] = compare(b, a, located)
        /\ callback[j][k] = compare(b, c, located) /\ callback[i][k] = compare(a, c, located)
    BY <1>6, <2>1
  <2> QED
    BY <2>2, RankingIsAnOrder
<1>9. Cardinality(1 .. n) = n /\ IsFiniteSet(1 .. n)
  BY FS_Interval
<1>10. PICK p \in [1 .. n -> 1 .. n] :
         /\ IsInjective(p)
         /\ Sort(s, callback) = [k \in 1 .. n |-> s[p[k]]]
         /\ \A k, l \in 1 .. n : k < l => callback[p[k]][p[l]] <= 0
  <2>1. /\ DOMAIN s = 1 .. n /\ DOMAIN s \subseteq Int /\ IsFiniteSet(DOMAIN s)
        /\ Cardinality(DOMAIN s) = n /\ Consistent(DOMAIN s, callback)
    BY <1>4, <1>8, <1>9
  <2>2. PICK p \in [1 .. Cardinality(DOMAIN s) -> DOMAIN s] :
          /\ IsInjective(p)
          /\ Sort(s, callback) = [k \in 1 .. Cardinality(DOMAIN s) |-> s[p[k]]]
          /\ \A k, l \in 1 .. Cardinality(DOMAIN s) : k < l => callback[p[k]][p[l]] <= 0
    BY <2>1, Sorted
  <2> QED
    BY <2>1, <2>2
<1>11. PICK items : items = Ranked(rows, intent, here)
  OBVIOUS
<1>12. items \in [1 .. n -> Item] /\ \A k \in 1 .. n : items[k] = s[p[k]]
  BY <1>4, <1>7, <1>10, <1>11
<1>13. \A i \in 1 .. n : items[i].explained = FALSE /\ items[i].id = rows[p[i]]
  BY <1>4, <1>12
<1>14. ASSUME NEW i \in 1 .. n, NEW j \in 1 .. n, i < j
       PROVE  items[i].id # items[j].id /\ ~Better(items[j].provider, items[i].provider, located)
  <2>1. p[i] # p[j] /\ rows[p[i]] # rows[p[j]]
    BY <1>10, <1>14 DEF IsInjective
  <2>2. PICK a \in Provider, b \in Provider : a = items[i].provider /\ b = items[j].provider
    BY <1>4, <1>12
  <2>3. compare(a, b, located) <= 0
    BY <1>6, <1>10, <1>12, <1>14, <2>2
  <2>4. Better(b, a, located) => compare(b, a, located) < 0
    BY BetterComesFirst
  <2>5. compare(b, a, located) < 0 => compare(a, b, located) > 0
    BY RankingIsAnOrder
  <2>6. compare(a, b, located) \in Int
    BY RankingIsAnOrder
  <2> QED
    BY <1>13, <2>1, <2>2, <2>3, <2>4, <2>5, <2>6
<1>15. InOrder(items, intent.located)
  BY <1>1, <1>12, <1>14 DEF InOrder
<1> QED
  BY <1>11, <1>12, <1>13, <1>15

\* addExplanations: nothing changes but the first TopN results' explanations.
LEMMA ExplainedItems ==
  ASSUME NEW n \in Nat, NEW items \in [1 .. n -> Item], NEW told
  PROVE  LET new == Explained(items, told) IN
           /\ new \in [1 .. n -> Item]
           /\ \A i \in 1 .. n : /\ new[i].id = items[i].id /\ new[i].provider = items[i].provider
                                /\ i > TopN => new[i] = items[i]
<1>1. items \in Seq(Item) /\ Len(items) = n
  BY Length
<1>2. PICK m \in Nat : m = Least(TopN, n)
  BY SearchConstants DEF Least
<1>3. m <= n /\ m <= TopN
  BY <1>2, SearchConstants DEF Least
<1>4. PICK top : top = [i \in 1 .. m |-> [items[i] EXCEPT !.explained = items[i].id \in told]]
  OBVIOUS
<1>5. \A i \in 1 .. m : /\ top[i] \in Item /\ top[i].id = items[i].id
                        /\ top[i].provider = items[i].provider
  <2> SUFFICES ASSUME NEW i \in 1 .. m
               PROVE  /\ top[i] \in Item /\ top[i].id = items[i].id
                      /\ top[i].provider = items[i].provider
    OBVIOUS
  <2>1. PICK x \in Item : x = items[i]
    BY <1>3
  <2>2. PICK b \in BOOLEAN : b = (items[i].id \in told)
    <3>1. (items[i].id \in told) \in BOOLEAN
      OBVIOUS
    <3> QED
      BY <3>1, Zenon
  <2>3. top[i] = [x EXCEPT !.explained = b]
    <3>1. top[i] = [items[i] EXCEPT !.explained = items[i].id \in told]
      BY <1>4
    <3> QED
      BY <2>1, <2>2, <3>1, Zenon
  <2> QED
    BY <2>1, <2>3 DEF Item
<1>6. top \in Seq(Item) /\ Len(top) = m
  BY <1>4, <1>5
<1>7. PICK rest : rest = SubSeq(items, m + 1, n)
  OBVIOUS
<1>8. rest \in Seq(Item) /\ Len(rest) = n - m /\ \A i \in 1 .. n - m : rest[i] = items[m + i]
  BY <1>1, <1>3, <1>7
<1>9. Explained(items, told) = top \o rest
  BY <1>1, <1>2, <1>4, <1>7 DEF Explained
<1>10. PICK new : new = top \o rest
  OBVIOUS
<1>11. /\ new \in Seq(Item) /\ Len(new) = n
       /\ \A i \in 1 .. n : new[i] = IF i <= m THEN top[i] ELSE items[i]
  <2>1. new \in Seq(Item) /\ Len(new) = n
    <3>1. new \in Seq(Item) /\ Len(new) = Len(top) + Len(rest)
      BY <1>6, <1>8, <1>10, ConcatProperties
    <3> QED
      BY <1>3, <1>6, <1>8, <3>1
  <2>2. \A i \in 1 .. n : new[i] = IF i <= m THEN top[i] ELSE rest[i - m]
    BY <1>3, <1>6, <1>8, <1>10
  <2>3. \A i \in 1 .. n : i > m => rest[i - m] = items[i]
    BY <1>3, <1>8
  <2> QED
    BY <1>3, <2>1, <2>2, <2>3
<1>12. new \in [1 .. n -> Item]
  BY <1>11
<1>13. ASSUME NEW i \in 1 .. n
       PROVE  /\ new[i].id = items[i].id /\ new[i].provider = items[i].provider
              /\ i > TopN => new[i] = items[i]
  <2>1. CASE i <= m
    BY <1>3, <1>5, <1>11, <2>1, SearchConstants
  <2>2. CASE i > m
    BY <1>3, <1>11, <2>2
  <2> QED
    BY <2>1, <2>2
<1> QED
  BY <1>9, <1>10, <1>12, <1>13

\* searchNearby: the rows within the radius, each once, closest first.
LEMMA NearestRows ==
  ASSUME identity \in [Profiles -> Rows], NEW n \in Nat, NEW rows \in [1 .. n -> Placed],
         IsInjective(rows), NEW radius
  PROVE  LET ids == Nearest(rows, radius) IN
         \E m \in Nat :
           /\ ids \in [1 .. m -> Placed]
           /\ \A i, j \in 1 .. m : i < j => /\ Distance(ids[i]) <= Distance(ids[j])
                                            /\ ids[i] # ids[j]
           /\ \A i \in 1 .. m : Distance(ids[i]) <= radius
           /\ \A i \in 1 .. n : Distance(rows[i]) <= radius => \E k \in 1 .. m : ids[k] = rows[i]
<1>1. \A i \in 1 .. n : rows[i] \in Placed /\ Distance(rows[i]) \in Nat
  <2> SUFFICES ASSUME NEW i \in 1 .. n PROVE rows[i] \in Placed /\ Distance(rows[i]) \in Nat
    OBVIOUS
  <2>1. rows[i] \in Placed /\ rows[i] \in Profiles /\ Distance(rows[i]) # None
    BY DEF Placed
  <2>2. identity[rows[i]].provider \in Provider
    BY <2>1, Providers
  <2> QED
    BY <2>1, <2>2 DEF Distance, Provider
<1>2. PICK near : near = {i \in 1 .. n : Distance(rows[i]) <= radius}
  OBVIOUS
<1>3. near \subseteq 1 .. n /\ near \subseteq Int /\ IsFiniteSet(near)
  <2>1. near \in SUBSET (1 .. n) /\ near \subseteq Int
    BY <1>2
  <2>2. IsFiniteSet(1 .. n)
    BY FS_Interval
  <2>3. IsFiniteSet(near)
    BY <2>1, <2>2, FS_Subset
  <2> QED
    BY <2>1, <2>3
<1>4. PICK s : s = Restrict(rows, near)
  OBVIOUS
<1>5. DOMAIN s = near /\ \A i \in near : s[i] = rows[i]
  BY <1>4 DEF Restrict
<1>6. PICK callback : callback = [i \in near |-> [j \in near |->
                                    Distance(rows[i]) - Distance(rows[j])]]
  OBVIOUS
<1>7. \A i, j \in near : callback[i][j] = Distance(rows[i]) - Distance(rows[j])
  BY <1>6
<1>8. Nearest(rows, radius) = Sort(s, callback)
  <2>1. DOMAIN rows = 1 .. n
    OBVIOUS
  <2> QED
    BY <1>2, <1>4, <1>6, <2>1, Zenon DEF Nearest
<1>9. Consistent(near, callback)
  <2> SUFFICES ASSUME NEW i \in near, NEW j \in near, NEW k \in near
               PROVE  /\ callback[i][j] \in Int
                      /\ callback[i][j] < 0 <=> callback[j][i] > 0
                      /\ callback[i][j] <= 0 /\ callback[j][k] <= 0 => callback[i][k] <= 0
    BY DEF Consistent
  <2>1. PICK a \in Nat, b \in Nat, c \in Nat :
          a = Distance(rows[i]) /\ b = Distance(rows[j]) /\ c = Distance(rows[k])
    BY <1>1, <1>3
  <2>2. /\ callback[i][j] = a - b /\ callback[j][i] = b - a
        /\ callback[j][k] = b - c /\ callback[i][k] = a - c
    BY <1>7, <2>1
  <2> QED
    BY <2>2
<1>10. PICK m \in Nat : m = Cardinality(near)
  BY <1>3, FS_CardinalityType
<1>11. PICK p \in [1 .. m -> near] :
         /\ IsInjective(p)
         /\ \A i \in near : \E k \in 1 .. m : p[k] = i
         /\ Sort(s, callback) = [k \in 1 .. m |-> s[p[k]]]
         /\ \A k, l \in 1 .. m : k < l => callback[p[k]][p[l]] <= 0
  <2>1. /\ DOMAIN s \subseteq Int /\ IsFiniteSet(DOMAIN s)
        /\ Cardinality(DOMAIN s) = m /\ Consistent(DOMAIN s, callback)
    BY <1>3, <1>5, <1>9, <1>10
  <2>2. PICK p \in [1 .. Cardinality(DOMAIN s) -> DOMAIN s] :
          /\ IsInjective(p)
          /\ \A i \in DOMAIN s : \E k \in 1 .. Cardinality(DOMAIN s) : p[k] = i
          /\ Sort(s, callback) = [k \in 1 .. Cardinality(DOMAIN s) |-> s[p[k]]]
          /\ \A k, l \in 1 .. Cardinality(DOMAIN s) : k < l => callback[p[k]][p[l]] <= 0
    BY <2>1, Sorted
  <2> QED
    BY <1>5, <2>1, <2>2
<1>12. PICK ids : ids = Nearest(rows, radius)
  OBVIOUS
<1>13. DOMAIN ids = 1 .. m /\ ids \in [1 .. m -> Placed] /\ \A k \in 1 .. m : ids[k] = rows[p[k]]
  <2>1. ids = [k \in 1 .. m |-> s[p[k]]]
    BY <1>8, <1>11, <1>12
  <2>2. \A k \in 1 .. m : s[p[k]] = rows[p[k]] /\ p[k] \in 1 .. n
    BY <1>3, <1>5, <1>11
  <2> QED
    BY <2>1, <2>2
<1>14. ASSUME NEW i \in 1 .. m, NEW j \in 1 .. m, i < j
       PROVE  Distance(ids[i]) <= Distance(ids[j]) /\ ids[i] # ids[j]
  <2>1. p[i] \in near /\ p[j] \in near /\ p[i] # p[j] /\ callback[p[i]][p[j]] <= 0
    BY <1>11, <1>14 DEF IsInjective
  <2>2. PICK a \in Nat, b \in Nat : a = Distance(rows[p[i]]) /\ b = Distance(rows[p[j]])
    BY <1>1, <1>3, <2>1
  <2>3. a - b <= 0
    BY <1>7, <2>1, <2>2
  <2>4. rows[p[i]] # rows[p[j]]
    BY <1>3, <2>1 DEF IsInjective
  <2> QED
    BY <1>13, <2>2, <2>3, <2>4
<1>15. \A i \in 1 .. m : Distance(ids[i]) <= radius
  BY <1>2, <1>11, <1>13
<1>16. \A i \in 1 .. n : Distance(rows[i]) <= radius => \E k \in 1 .. m : ids[k] = rows[i]
  BY <1>2, <1>11, <1>13
<1> QED
  BY <1>12, <1>13, <1>14, <1>15, <1>16

-----------------------------------------------------------------------------
(***************************************************************************)
(* Requests.  What a request carries from one await to the next is right   *)
(* for the rows as it read them.                                           *)
(***************************************************************************)

\* The results of a search over table.
Results(items, table, intent) ==
  \E n \in Nat :
    /\ n = Least(Take, Cardinality(Matching(table, intent)))
    /\ items \in [1 .. n -> Item]
    /\ InOrder(items, intent.located)
    /\ \A i \in 1 .. n : items[i].id \in Matching(table, intent)

\* An answer that may be stored.
AnswerOK(table, v) ==
  /\ key.kind # "nearby" /\ ValueOK(v)
  /\ key.kind = "search" =>
       /\ Results(v.items, table, v.intent)
       /\ \A i \in DOMAIN v.items : v.items[i].explained => i <= TopN

NearbyOK(ids) ==
  /\ \A i, j \in DOMAIN ids : i < j => /\ Distance(ids[i]) <= Distance(ids[j])
                                      /\ ids[i] # ids[j]
  /\ Cardinality(Placed) <= Take =>
       Range(ids) = {p \in Placed : Distance(p) <= key.radius}

RequestOK(h) ==
  /\ At(h, "query") /\ key.kind = "search" => req[h].intent \in Intent
  /\ At(h, "explain") => /\ key.kind = "search" /\ req[h].intent \in Intent
                         /\ Results(req[h].items, req[h].table, req[h].intent)
                         /\ \A i \in DOMAIN req[h].items : ~req[h].items[i].explained
  /\ At(h, "set") => AnswerOK(req[h].table, req[h].value)
  /\ At(h, "reply") /\ edits = 0 => NearbyOK(req[h].ids)

Inv ==
  /\ key \in Key /\ edits \in 0 .. MaxEdits
  /\ identity \in [Profiles -> Rows]
  /\ DOMAIN req = Slots
  /\ entry # None => AnswerOK(entry.table, entry.value)
  /\ \A h \in Slots : RequestOK(h)

LEMMA MatchingRows ==
  ASSUME NEW table, NEW intent
  PROVE  /\ Matching(table, intent) \subseteq Profiles /\ IsFiniteSet(Matching(table, intent))
         /\ Placed \subseteq Profiles /\ IsFiniteSet(Placed)
<1>1. Matching(table, intent) \subseteq Profiles /\ Placed \subseteq Profiles
  BY DEF Matching, Placed
<1> QED
  BY <1>1, FS_Subset, SearchConstants

\* The invariant says what the properties need.
LEMMA InvImplies == Inv => TypeOK /\ BestFirst
<1> SUFFICES ASSUME Inv PROVE TypeOK /\ BestFirst
  OBVIOUS
<1>1. TypeOK
  BY DEF Inv, RequestOK, AnswerOK, TypeOK
<1>2. SearchInOrder
  <2> SUFFICES ASSUME key.kind = "search", entry # None
               PROVE  LET v == entry.value IN
                      /\ InOrder(v.items, v.intent.located)
                      /\ Complete(v.items, Matching(entry.table, v.intent))
                      /\ \A i \in DOMAIN v.items : v.items[i].explained => i <= TopN
    BY DEF SearchInOrder
  <2>1. PICK v : v = entry.value
    OBVIOUS
  <2>2. PICK found : found = Matching(entry.table, v.intent)
    OBVIOUS
  <2>3. /\ Results(v.items, entry.table, v.intent)
        /\ \A i \in DOMAIN v.items : v.items[i].explained => i <= TopN
    BY <2>1 DEF Inv, AnswerOK
  <2>4. PICK n \in Nat : /\ n = Least(Take, Cardinality(found))
                         /\ v.items \in [1 .. n -> Item]
                         /\ InOrder(v.items, v.intent.located)
                         /\ \A i \in 1 .. n : v.items[i].id \in found
    BY <2>2, <2>3 DEF Results
  <2>5. Len(v.items) = n /\ DOMAIN v.items = 1 .. n
    BY <2>4, Length
  <2>6. Complete(v.items, found)
    BY <2>4, <2>5 DEF Complete
  <2> QED
    BY <2>1, <2>2, <2>3, <2>4, <2>6
<1>3. NearbyInOrder
  BY DEF Inv, RequestOK, NearbyOK, NearbyInOrder
<1> QED
  BY <1>1, <1>2, <1>3 DEF BestFirst

\* A step of slot h alone.
LEMMA SlotStep ==
  ASSUME Inv, NEW h \in Slots, NEW r, Goto(h, r), UNCHANGED <<key, identity, edits>>,
         r # None => RequestOK(h)',
         (entry # None => AnswerOK(entry.table, entry.value))'
  PROVE  Inv'
<1>1. /\ DOMAIN req' = Slots /\ req'[h] = r
      /\ \A k \in Slots \ {h} : req'[k] = req[k]
  BY DEF Inv, Goto
<1>2. \A table, v : AnswerOK(table, v) => AnswerOK(table, v)'
  BY DEF AnswerOK, ValueOK
<1>3. \A ids : NearbyOK(ids) => NearbyOK(ids)'
  BY DEF NearbyOK, Distance, Placed
<1>4. ASSUME NEW k \in Slots PROVE RequestOK(k)'
  <2>1. CASE k = h /\ r = None
    BY <1>1, <2>1 DEF RequestOK, At, InFlight
  <2>2. CASE k = h /\ r # None
    BY <2>2
  <2>3. CASE k # h
    <3>1. RequestOK(k) /\ req'[k] = req[k]
      BY <1>1, <2>3 DEF Inv
    <3> QED
      BY <1>2, <1>3, <3>1 DEF RequestOK, At, InFlight
  <2> QED
    BY <2>1, <2>2, <2>3
<1> QED
  BY <1>1, <1>4 DEF Inv

LEMMA Keys ==
  ASSUME key \in Key
  PROVE  /\ key.kind \in {"search", "categories", "profile", "nearby"}
         /\ key.kind = "profile" => key.id \in Profiles
BY DEF Key

\* Query of a search: the rows that were taken, ranked.
LEMMA SearchQuery ==
  ASSUME Inv, NEW intent \in Intent, NEW rows \in Taken(Matching(identity, intent))
  PROVE  LET items == Ranked(rows, intent, key.here) IN
           /\ Results(items, identity, intent)
           /\ \A i \in DOMAIN items : ~items[i].explained
<1>1. PICK found : found = Matching(identity, intent)
  OBVIOUS
<1>2. found \subseteq Profiles /\ IsFiniteSet(found)
  BY <1>1, MatchingRows
<1>3. PICK n \in Nat : /\ n = Least(Take, Cardinality(found))
                       /\ rows \in [1 .. n -> found] /\ IsInjective(rows)
  BY <1>1, <1>2, TakenRows
<1>4. rows \in [1 .. n -> Profiles] /\ identity \in [Profiles -> Rows]
  BY <1>2, <1>3 DEF Inv
<1>5. PICK items : items = Ranked(rows, intent, key.here)
  OBVIOUS
<1>6. /\ items \in [1 .. n -> Item]
      /\ \A i \in 1 .. n : ~items[i].explained /\ \E j \in 1 .. n : items[i].id = rows[j]
      /\ InOrder(items, intent.located)
  <2>1. LET result == Ranked(rows, intent, key.here) IN
          /\ result \in [1 .. n -> Item]
          /\ \A i \in 1 .. n : ~result[i].explained /\ \E j \in 1 .. n : result[i].id = rows[j]
          /\ InOrder(result, intent.located)
    BY <1>3, <1>4, RankedItems
  <2> QED
    BY <1>5, <2>1, Zenon
<1>7. \A i \in 1 .. n : items[i].id \in found
  BY <1>3, <1>6
<1>8. Results(items, identity, intent)
  BY <1>1, <1>3, <1>6, <1>7 DEF Results
<1> QED
  BY <1>5, <1>6, <1>8

\* Query of searchNearby.
LEMMA NearbyQuery ==
  ASSUME Inv, NEW rows \in Taken(Placed)
  PROVE  NearbyOK(Nearest(rows, key.radius))
<1>1. Placed \subseteq Profiles /\ IsFiniteSet(Placed) /\ identity \in [Profiles -> Rows]
  BY MatchingRows DEF Inv
<1>2. PICK n \in Nat :
        /\ rows \in [1 .. n -> Placed] /\ IsInjective(rows)
        /\ Cardinality(Placed) <= Take => \A p \in Placed : \E i \in 1 .. n : rows[i] = p
  BY <1>1, TakenRows
<1>3. PICK ids : ids = Nearest(rows, key.radius)
  OBVIOUS
<1>4. PICK m \in Nat :
        /\ ids \in [1 .. m -> Placed]
        /\ \A i, j \in 1 .. m : i < j => /\ Distance(ids[i]) <= Distance(ids[j])
                                         /\ ids[i] # ids[j]
        /\ \A i \in 1 .. m : Distance(ids[i]) <= key.radius
        /\ \A i \in 1 .. n : Distance(rows[i]) <= key.radius => \E k \in 1 .. m : ids[k] = rows[i]
  BY <1>1, <1>2, <1>3, NearestRows
<1>5. ASSUME Cardinality(Placed) <= Take
      PROVE  Range(ids) = {p \in Placed : Distance(p) <= key.radius}
  <2>1. \A i \in DOMAIN ids : ids[i] \in Placed /\ Distance(ids[i]) <= key.radius
    BY <1>4
  <2>2. \A p \in Placed : Distance(p) <= key.radius => \E k \in DOMAIN ids : ids[k] = p
    BY <1>2, <1>4, <1>5
  <2> QED
    BY <2>1, <2>2 DEF Range
<1> QED
  BY <1>3, <1>4, <1>5 DEF NearbyOK

\* Explain: the order and the places stay.
LEMMA ExplainedAnswer ==
  ASSUME NEW table, NEW intent \in Intent, NEW items, NEW told, key.kind = "search",
         Results(items, table, intent), \A i \in DOMAIN items : ~items[i].explained
  PROVE  AnswerOK(table, [intent |-> intent, items |-> Explained(items, told)])
<1>1. PICK n \in Nat :
        /\ n = Least(Take, Cardinality(Matching(table, intent)))
        /\ items \in [1 .. n -> Item]
        /\ InOrder(items, intent.located)
        /\ \A i \in 1 .. n : items[i].id \in Matching(table, intent)
  BY DEF Results
<1>2. PICK new : new = Explained(items, told)
  OBVIOUS
<1>3. /\ new \in [1 .. n -> Item]
      /\ \A i \in 1 .. n : /\ new[i].id = items[i].id /\ new[i].provider = items[i].provider
                           /\ i > TopN => new[i] = items[i]
  BY <1>1, <1>2, ExplainedItems
<1>4. InOrder(new, intent.located)
  BY <1>1, <1>3 DEF InOrder
<1>5. Results(new, table, intent)
  BY <1>1, <1>3, <1>4 DEF Results
<1>6. \A i \in 1 .. n : new[i].explained => i <= TopN
  <2> SUFFICES ASSUME NEW i \in 1 .. n, i > TopN PROVE ~new[i].explained
    BY SearchConstants
  <2>1. new[i] = items[i] /\ i \in DOMAIN items
    BY <1>1, <1>3
  <2> QED
    BY <2>1, Zenon
<1>7. PICK v : v = [intent |-> intent, items |-> new]
  OBVIOUS
<1>8. v.intent = intent /\ v.items = new
  BY <1>7
<1>9. ValueOK(v)
  BY <1>3, <1>8 DEF ValueOK
<1>10. \A i \in DOMAIN v.items : v.items[i].explained => i <= TopN
  <2>1. DOMAIN v.items = 1 .. n
    BY <1>3, <1>8
  <2> QED
    BY <1>6, <1>8, <2>1, Zenon
<1> QED
  BY <1>2, <1>5, <1>7, <1>8, <1>9, <1>10 DEF AnswerOK

LEMMA SearchStep == Inv /\ [Next]_vars => Inv'
<1> SUFFICES ASSUME Inv, [Next]_vars PROVE Inv'
  OBVIOUS
<1>0. /\ key \in Key /\ identity \in [Profiles -> Rows] /\ DOMAIN req = Slots
      /\ edits \in 0 .. MaxEdits
      /\ entry # None => AnswerOK(entry.table, entry.value)
      /\ \A h \in Slots : RequestOK(h)
  BY DEF Inv
<1>a. ASSUME UNCHANGED <<key, entry>>
      PROVE  (entry # None => AnswerOK(entry.table, entry.value))'
  BY <1>0, <1>a DEF AnswerOK, ValueOK
<1>b. ASSUME key' = key PROVE \A table, v : AnswerOK(table, v) => AnswerOK(table, v)'
  BY <1>b DEF AnswerOK, ValueOK
<1>c. ASSUME NEW h \in Slots, NEW r, Goto(h, r) PROVE req'[h] = r
  BY <1>0, <1>c DEF Goto
<1>d. ASSUME UNCHANGED <<key, identity>>
      PROVE  \A ids : NearbyOK(ids) => NearbyOK(ids)'
  BY <1>d DEF NearbyOK, Distance, Placed
<1>1. CASE UNCHANGED vars
  BY <1>0, <1>1, <1>a, <1>b, <1>d DEF vars, Inv, RequestOK, At, InFlight
<1>2. ASSUME NEW h \in Slots, Miss(h) PROVE Inv'
  <2>1. PICK r : r = [pc |-> IF key.kind = "search" THEN "parse" ELSE "query"]
    OBVIOUS
  <2>2. Goto(h, r) /\ req'[h] = r /\ UNCHANGED <<key, identity, entry, edits>>
    BY <1>2, <1>c, <2>1 DEF Miss
  <2>3. RequestOK(h)'
    BY <2>1, <2>2 DEF RequestOK, At
  <2> QED
    BY <1>a, <2>2, <2>3, SlotStep
<1>3. ASSUME NEW h \in Slots, NEW intent \in Intent, Parse(h, intent) PROVE Inv'
  <2>1. PICK r : r = [pc |-> "query", intent |-> intent]
    OBVIOUS
  <2>2. Goto(h, r) /\ req'[h] = r /\ UNCHANGED <<key, identity, entry, edits>>
    BY <1>3, <1>c, <2>1 DEF Parse
  <2>3. RequestOK(h)'
    BY <2>1, <2>2 DEF RequestOK, At
  <2> QED
    BY <1>a, <2>2, <2>3, SlotStep
<1>4. ASSUME NEW h \in Slots, Query(h) PROVE Inv'
  <2>0. UNCHANGED <<key, identity, entry, edits>> /\ At(h, "query")
    BY <1>4 DEF Query
  <2>1. ASSUME key.kind = "nearby", NEW rows \in Taken(Placed),
               Goto(h, [pc |-> "reply", ids |-> Nearest(rows, key.radius)])
        PROVE  Inv'
    <3>1. PICK ids : ids = Nearest(rows, key.radius)
      OBVIOUS
    <3>2. PICK r : r = [pc |-> "reply", ids |-> ids]
      OBVIOUS
    <3>3. Goto(h, r) /\ req'[h] = r
      BY <1>c, <2>1, <3>1, <3>2
    <3>4. NearbyOK(ids)
      BY <2>1, <3>1, NearbyQuery
    <3>5. NearbyOK(ids)'
      BY <2>0, <3>4 DEF NearbyOK, Distance, Placed
    <3>6. RequestOK(h)'
      BY <3>2, <3>3, <3>5 DEF RequestOK, At
    <3> QED
      BY <1>a, <2>0, <3>3, <3>6, SlotStep
  <2>2. ASSUME NEW intent, intent = req[h].intent, key.kind = "search",
               NEW rows \in Taken(Matching(identity, intent)),
               Goto(h, [pc |-> "explain", table |-> identity, intent |-> intent,
                        items |-> Ranked(rows, intent, key.here)])
        PROVE  Inv'
    <3>1. intent \in Intent
      BY <1>0, <2>0, <2>2 DEF RequestOK
    <3>2. PICK items : items = Ranked(rows, intent, key.here)
      OBVIOUS
    <3>3. Results(items, identity, intent) /\ \A i \in DOMAIN items : ~items[i].explained
      BY <2>2, <3>1, <3>2, SearchQuery
    <3>4. PICK table : table = identity
      OBVIOUS
    <3>5. PICK r : r = [pc |-> "explain", table |-> table, intent |-> intent, items |-> items]
      OBVIOUS
    <3>6. Goto(h, r) /\ req'[h] = r
      BY <1>c, <2>2, <3>2, <3>4, <3>5
    <3>7. /\ r.pc = "explain" /\ r.table = table /\ r.intent = intent /\ r.items = items
      BY <3>5
    <3>8. RequestOK(h)'
      <4>1. Results(r.items, r.table, r.intent) /\ \A i \in DOMAIN r.items : ~r.items[i].explained
        BY <3>3, <3>4, <3>7, Zenon
      <4> QED
        BY <2>0, <2>2, <3>1, <3>6, <3>7, <4>1 DEF RequestOK, At
    <3> QED
      BY <1>a, <2>0, <3>6, <3>8, SlotStep
  <2>3. ASSUME NEW v, key.kind \in {"categories", "profile"}, ValueOK(v),
               Goto(h, [pc |-> "set", table |-> identity, value |-> v])
        PROVE  Inv'
    <3>1. PICK table : table = identity
      OBVIOUS
    <3>2. PICK r : r = [pc |-> "set", table |-> table, value |-> v]
      OBVIOUS
    <3>3. Goto(h, r) /\ req'[h] = r /\ r.pc = "set" /\ r.table = table /\ r.value = v
      BY <1>c, <2>3, <3>1, <3>2
    <3>4. AnswerOK(table, v)
      BY <2>3 DEF AnswerOK
    <3>5. RequestOK(h)'
      BY <1>b, <2>0, <3>3, <3>4 DEF RequestOK, At
    <3> QED
      BY <1>a, <2>0, <3>3, <3>5, SlotStep
  <2>4. CASE key.kind = "nearby"
    BY <1>4, <2>1, <2>4 DEF Query
  <2>5. CASE key.kind = "search"
    BY <1>4, <2>2, <2>5 DEF Query
  <2>6. CASE key.kind = "categories"
    <3>1. PICK v : v = {identity[p].trade : p \in {q \in Profiles : identity[q].done}}
      OBVIOUS
    <3>2. \A p \in Profiles : identity[p].trade \in Trades
      BY <1>0, Providers
    <3>3. ValueOK(v)
      BY <2>6, <3>1, <3>2 DEF ValueOK
    <3>4. Goto(h, [pc |-> "set", table |-> identity, value |-> v])
      BY <1>4, <2>6, <3>1 DEF Query
    <3> QED
      BY <2>3, <2>6, <3>3, <3>4
  <2>7. CASE key.kind = "profile"
    <3>1. PICK v : v = identity[key.id]
      OBVIOUS
    <3>2. ValueOK(v)
      BY <1>0, <2>7, <3>1, Keys, Providers DEF ValueOK
    <3>3. Goto(h, [pc |-> "set", table |-> identity, value |-> v])
      BY <1>4, <2>7, <3>1 DEF Query
    <3> QED
      BY <2>3, <2>7, <3>2, <3>3
  <2> QED
    BY <1>0, <2>4, <2>5, <2>6, <2>7, Keys
<1>5. ASSUME NEW h \in Slots, NEW told, Explain(h, told) PROVE Inv'
  <2>0. UNCHANGED <<key, identity, entry, edits>> /\ At(h, "explain")
    BY <1>5 DEF Explain
  <2>1. PICK table, intent, items :
          /\ table = req[h].table /\ intent = req[h].intent /\ items = req[h].items
    OBVIOUS
  <2>2. /\ key.kind = "search" /\ intent \in Intent /\ Results(items, table, intent)
        /\ \A i \in DOMAIN items : ~items[i].explained
    <3>1. RequestOK(h)
      BY <1>0
    <3> QED
      BY <2>0, <2>1, <3>1, Zenon DEF RequestOK
  <2>3. PICK v : v = [intent |-> intent, items |-> Explained(items, told)]
    OBVIOUS
  <2>4. AnswerOK(table, v)
    BY <2>2, <2>3, ExplainedAnswer
  <2>5. PICK r : r = [pc |-> "set", table |-> table, value |-> v]
    OBVIOUS
  <2>6. Goto(h, r) /\ req'[h] = r /\ r.pc = "set" /\ r.table = table /\ r.value = v
    BY <1>5, <1>c, <2>1, <2>3, <2>5 DEF Explain
  <2>7. RequestOK(h)'
    BY <1>b, <2>0, <2>4, <2>6 DEF RequestOK, At
  <2> QED
    BY <1>a, <2>0, <2>6, <2>7, SlotStep
<1>6. ASSUME NEW h \in Slots, Fill(h) PROVE Inv'
  <2>1. PICK table, v : table = req[h].table /\ v = req[h].value
    OBVIOUS
  <2>2. AnswerOK(table, v)
    BY <1>0, <1>6, <2>1 DEF Fill, RequestOK
  <2>3. entry'.table = table /\ entry'.value = v /\ UNCHANGED <<key, identity, edits>>
        /\ Goto(h, None)
    BY <1>6, <2>1 DEF Fill
  <2>4. (entry # None => AnswerOK(entry.table, entry.value))'
    BY <1>b, <2>2, <2>3
  <2> QED
    BY <2>3, <2>4, SlotStep
<1>7. ASSUME NEW h \in Slots, Reply(h) \/ Fail(h) PROVE Inv'
  BY <1>7, <1>a, SlotStep DEF Reply, Fail
<1>8. ASSUME NEW p \in Profiles, NEW row \in Rows, Edit(p, row) PROVE Inv'
  <2>1. UNCHANGED <<key, entry, req>> /\ edits' = edits + 1
    BY <1>8 DEF Edit
  <2>2. identity' \in [Profiles -> Rows] /\ edits' \in 0 .. MaxEdits /\ edits' # 0
    BY <1>0, <1>8, SearchConstants DEF Edit
  <2>3. ASSUME NEW h \in Slots PROVE RequestOK(h)'
    BY <1>0, <1>b, <2>1, <2>2 DEF RequestOK, At, InFlight
  <2> QED
    BY <1>0, <1>a, <2>1, <2>2, <2>3 DEF Inv
<1>9. CASE Expire
  BY <1>0, <1>9, <1>b, <1>d DEF Expire, Inv, RequestOK, At, InFlight
<1> QED
  BY <1>1, <1>2, <1>3, <1>4, <1>5, <1>6, <1>7, <1>8, <1>9 DEF Next, Continue

LEMMA InvHolds == Spec => []Inv
<1>1. Init => Inv
  BY SearchConstants DEF Init, Inv, RequestOK, At, InFlight
<1> QED
  BY <1>1, SearchStep, PTL DEF Spec

\* Rows, entries and the answers under way keep their shapes.
THEOREM TypeCorrect == Spec => []TypeOK
BY InvHolds, InvImplies, PTL

\* search, searchNearby: whichever rows the database returns in whatever order,
\* and however requests, edits and expiries interleave, a stored answer lists the
\* rows that matched when they were read, each once and as many as fit, nobody
\* after a provider that he surpasses; searchNearby answers closest first.
THEOREM BestComeFirst == Spec => []BestFirst
BY InvHolds, InvImplies, PTL
=============================================================================
