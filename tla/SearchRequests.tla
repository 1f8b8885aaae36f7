--------------------------- MODULE SearchRequests ---------------------------
(***************************************************************************)
(* SearchService over the identity rows that onboarding writes: search,    *)
(* searchNearby, getCategories and getProfile, with their Redis entries.   *)
(* Nothing ever deletes one of those; they expire.  Entries share nothing  *)
(* but the rows, so requests for one key are watched, for any key.         *)
(* searchNearby has no entry.  The pc of a request names its await:        *)
(*                                                                         *)
(*   parse     searchParser.parseIntent, which waits for the model         *)
(*   query     identity.findMany, or findFirst for a profile               *)
(*   explain   the model's explanations of the first results               *)
(*   set       redis.set of the answer                                     *)
(*   reply     none: searchNearby is about to answer                       *)
(***************************************************************************)
EXTENDS SearchRanking, Sequences, FiniteSets, Functions

CONSTANTS
  Profiles,     \* profiles that have an identity row
  Rows,         \* identity rows they may have
  Trades,       \* professions
  Take,         \* the most rows a query takes: 50, and 200 for searchNearby
  TopN,         \* results that are explained: 5
  Minimums,     \* least years of experience asked for
  Radii,        \* radii asked of searchNearby
  MaxEdits,     \* bound on the changes of the rows
  Slots         \* slots for requests in flight

\* done: is the onboarding of the profile COMPLETED?
Identity == [provider: Provider, trade: Trades, done: BOOLEAN]

\* What the parser makes of the query: the model's words or, if that fails, the
\* keywords it finds itself.  trade stands for profession and specialties alike.
Intent == [trade: Trades \cup {None}, located: BOOLEAN, least: Minimums \cup {None}]

\* here: did the search come with coordinates?  They are part of the key.
Key == [kind: {"search"}, here: BOOLEAN] \cup [kind: {"categories"}]
         \cup [kind: {"profile"}, id: Profiles]
         \cup [kind: {"nearby"}, radius: Radii, trade: Trades \cup {None}]

ASSUME SearchConstants ==
  /\ IsFiniteSet(Profiles)
  /\ Rows \subseteq Identity /\ Minimums \cup Radii \subseteq Nat
  /\ Take \in Nat \ {0} /\ TopN \in Nat /\ MaxEdits \in Nat

VARIABLES
  key,        \* the watched key
  identity,   \* identity[p]: the row of profile p
  entry,      \* the entry under the key, or None
  req,        \* req[h]: the request slot h is serving, or None
  edits       \* changes of the rows so far

vars == <<key, identity, entry, req, edits>>

Init ==
  /\ key \in Key
  /\ identity \in [Profiles -> Rows]
  /\ entry = None /\ edits = 0
  /\ req = [h \in Slots |-> None]

-----------------------------------------------------------------------------
InFlight(h) == req[h] # None
At(h, pc) == InFlight(h) /\ req[h].pc = pc
Goto(h, r) == req' = [req EXCEPT ![h] = r]

\* queryIdentities: the rows of a table that its where clause lets through.
Matching(table, intent) ==
  {p \in Profiles :
     LET provider == table[p].provider IN
     /\ table[p].done
     /\ intent.trade \in {None, table[p].trade}
     /\ intent.located => provider.place \in {"city", "state", "part"}
     /\ intent.least # None => provider.experience # None /\ provider.experience >= intent.least}

\* findMany without an order: as many as it may take, any of them, in any order.
Taken(found) ==
  {s \in UNION {[1 .. n -> found] : n \in {IF Cardinality(found) < Take
                                             THEN Cardinality(found) ELSE Take}} :
     IsInjective(s)}

\* Array.prototype.sort, which is stable: the place of an element is given by how
\* many go before it.  callback[i][j] compares the i-th with the j-th element.  (It
\* is consistent, and the places are taken once each: see SearchProofs.)
Sort(s, callback) ==
  LET before(i, j) == callback[j][i] > 0 \/ (i < j /\ callback[i][j] <= 0)
      place(i) == 1 + Cardinality({j \in DOMAIN s : before(j, i)})
  IN [k \in 1 .. Cardinality(DOMAIN s) |-> s[CHOOSE i \in DOMAIN s : place(i) = k]]

\* The provider as the ranking sees it, with a distance if it can be had.
Seen(p, here) ==
  IF here THEN identity[p].provider ELSE [identity[p].provider EXCEPT !.distance = None]

\* rankResults, sortByRank
Ranked(rows, intent, here) ==
  LET items == [i \in DOMAIN rows |-> [id |-> rows[i], provider |-> Seen(rows[i], here),
                                       explained |-> FALSE]]
  IN Sort(items, [i \in DOMAIN rows |-> [j \in DOMAIN rows |->
                    compare(items[i].provider, items[j].provider, intent.located)]])

Least(m, n) == IF m < n THEN m ELSE n

\* Faulty: the explained results come after the others.
ExplainedLast(items, told) ==
  LET n == Least(TopN, Len(items))
      top == [i \in 1 .. n |-> [items[i] EXCEPT !.explained = items[i].id \in told]]
  IN SubSeq(items, n + 1, Len(items)) \o top

\* Faulty: an explanation takes the place of its provider.
BareExplanations(items, told) ==
  LET n == Least(TopN, Len(items))
      top == [i \in 1 .. n |-> [explained |-> items[i].id \in told]]
  IN top \o SubSeq(items, n + 1, Len(items))

\* addExplanations of the first results - the model tells of some - and the rest
\* as it is.
Explained(items, told) ==
  LET n == Least(TopN, Len(items))
      top == [i \in 1 .. n |-> [items[i] EXCEPT !.explained = items[i].id \in told]]
  IN top \o SubSeq(items, n + 1, Len(items))

Distance(p) == identity[p].provider.distance

Placed == {p \in Profiles : /\ identity[p].done /\ Distance(p) # None
                            /\ key.trade \in {None, identity[p].trade}}

\* searchNearby: the rows within the radius, closest first.
Nearest(rows, radius) ==
  LET near == {i \in DOMAIN rows : Distance(rows[i]) <= radius}
  IN Sort(Restrict(rows, near),
          [i \in near |-> [j \in near |-> Distance(rows[i]) - Distance(rows[j])]])

-----------------------------------------------------------------------------
\* A hit is answered from the entry and changes nothing.
Miss(h) ==
  /\ ~InFlight(h) /\ entry = None
  /\ Goto(h, [pc |-> IF key.kind = "search" THEN "parse" ELSE "query"])
  /\ UNCHANGED <<key, identity, entry, edits>>

\* parseIntent answers, by the model or by keywordFallback.
Parse(h, intent) ==
  /\ At(h, "parse")
  /\ Goto(h, [pc |-> "query", intent |-> intent])
  /\ UNCHANGED <<key, identity, entry, edits>>

\* The rows of a search are ranked as soon as they are there.  table is history:
\* the rows as they were read.
Query(h) ==
  /\ At(h, "query")
  /\ LET answer(v) == [pc |-> "set", table |-> identity, value |-> v] IN
     \/ /\ key.kind = "nearby"
        /\ \E rows \in Taken(Placed) :
             Goto(h, [pc |-> "reply", ids |-> Nearest(rows, key.radius)])
     \/ /\ key.kind = "search"
        /\ LET intent == req[h].intent IN
           \E rows \in Taken(Matching(identity, intent)) :
             Goto(h, [pc |-> "explain", table |-> identity, intent |-> intent,
                      items |-> Ranked(rows, intent, key.here)])
     \/ /\ key.kind = "categories"
        /\ Goto(h, answer({identity[p].trade : p \in {q \in Profiles : identity[q].done}}))
     \/ /\ key.kind = "profile"
        /\ Goto(h, answer(identity[key.id]))
  /\ UNCHANGED <<key, identity, entry, edits>>

\* The model explains some or, if it fails, none.
Explain(h, told) ==
  /\ At(h, "explain")
  /\ told \subseteq {req[h].items[i].id : i \in 1 .. Least(TopN, Len(req[h].items))}
  /\ Goto(h, [pc |-> "set", table |-> req[h].table,
              value |-> [intent |-> req[h].intent,
                         items |-> Explained(req[h].items, told)]])
  /\ UNCHANGED <<key, identity, entry, edits>>

\* The answer is stored, however old or unexplained it is, and returned.
Fill(h) ==
  /\ At(h, "set")
  /\ entry' = [table |-> req[h].table, value |-> req[h].value]
  /\ Goto(h, None)
  /\ UNCHANGED <<key, identity, edits>>

Reply(h) ==
  /\ At(h, "reply")
  /\ Goto(h, None)
  /\ UNCHANGED <<key, identity, entry, edits>>

\* The database or Redis fails, or the process stops.
Fail(h) ==
  /\ InFlight(h)
  /\ Goto(h, None)
  /\ UNCHANGED <<key, identity, entry, edits>>

\* upsertIdentity, finaliseLocation, or a new conversation: a row or the status of
\* its profile changes, and no entry is deleted.
Edit(p, row) ==
  /\ edits < MaxEdits /\ row # identity[p]
  /\ identity' = [identity EXCEPT ![p] = row]
  /\ edits' = edits + 1
  /\ UNCHANGED <<key, entry, req>>

\* Five minutes for a search, ten for a profile, an hour for the categories.
Expire ==
  /\ entry # None
  /\ entry' = None
  /\ UNCHANGED <<key, identity, req, edits>>

-----------------------------------------------------------------------------
Continue(h) ==
  \/ \E intent \in Intent : Parse(h, intent)
  \/ Query(h)
  \/ \E told \in SUBSET Profiles : Explain(h, told)
  \/ Fill(h) \/ Reply(h)

Next ==
  \/ \E h \in Slots : Miss(h) \/ Continue(h) \/ Fail(h)
  \/ \E p \in Profiles, row \in Rows : Edit(p, row)
  \/ Expire

Spec == Init /\ [][Next]_vars

-----------------------------------------------------------------------------
Item == [id: Profiles, provider: Provider, explained: BOOLEAN]

ValueOK(v) ==
  /\ key.kind = "search" => v.intent \in Intent /\ \A i \in DOMAIN v.items : v.items[i] \in Item
  /\ key.kind = "categories" => v \subseteq Trades
  /\ key.kind = "profile" => v \in Identity

\* Rows, entries and answers under way have the shapes of the code's types.
TypeOK ==
  /\ key \in Key /\ edits \in 0 .. MaxEdits
  /\ identity \in [Profiles -> Rows]
  /\ entry # None => ValueOK(entry.value)
  /\ \A h \in Slots : At(h, "set") => ValueOK(req[h].value)

\* No result stands before one that is better in every respect, and none twice.
InOrder(items, located) ==
  \A i, j \in DOMAIN items : i < j =>
    /\ items[i].id # items[j].id
    /\ ~Better(items[j].provider, items[i].provider, located)

\* Every row that matched is among the results if they fit; else as many as fit.
Complete(items, found) ==
  /\ {items[i].id : i \in DOMAIN items} \subseteq found
  /\ Len(items) = Least(Take, Cardinality(found))

SearchInOrder ==
  (key.kind = "search" /\ entry # None) =>
    LET v == entry.value IN
    /\ InOrder(v.items, v.intent.located)
    /\ Complete(v.items, Matching(entry.table, v.intent))
    /\ \A i \in DOMAIN v.items : v.items[i].explained => i <= TopN

\* (An edit before the answer goes out does not count.)
NearbyInOrder ==
  \A h \in Slots : At(h, "reply") /\ edits = 0 =>
    LET ids == req[h].ids IN
    /\ \A i, j \in DOMAIN ids : i < j => /\ Distance(ids[i]) <= Distance(ids[j])
                                        /\ ids[i] # ids[j]
    /\ Cardinality(Placed) <= Take =>
         Range(ids) = {p \in Placed : Distance(p) <= key.radius}

\* search: whatever rows the query takes, in whatever order, and whichever of them
\* are explained, the stored answer lists all that matched, as far as they fit, and
\* never a provider after one that it surpasses.  searchNearby: closest first,
\* nobody twice, and everybody within the radius, unless there are more rows with
\* coordinates than the query takes.
BestFirst == SearchInOrder /\ NearbyInOrder
=============================================================================
