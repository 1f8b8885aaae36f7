---------------------------- MODULE BookingReads ----------------------------
(***************************************************************************)
(* The cached reads of BookingService - getMyHires, getMyJobs and          *)
(* getBookingById - against the handlers that change what they read.  All  *)
(* bookings are of one customer profile with one provider profile.  Cache  *)
(* entries share nothing but the tables, so one key is watched, any key.   *)
(*                                                                         *)
(* A reader that misses queries the tables and stores the answer; a writer *)
(* validates a booking, commits by its id alone, and then deletes entries, *)
(* in the steps of invalidateBookingCaches.  Module Booking has what a     *)
(* handler does after that.  The pc of a request names its await:          *)
(*                                                                         *)
(*   read    findMany, or the row that validateBookingAccess reads         *)
(*   set     redis.set of the answer                                       *)
(*   write   booking.update of a validated booking                         *)
(*   find    review.findUnique                         (submitReview)      *)
(*   insert  review.create                             (submitReview)      *)
(*   detail  redis.del of booking:<id>                                     *)
(*   scan    client.keys of one side's lists (customer, then provider)     *)
(*   drop    client.del of the lists the scan found                        *)
(***************************************************************************)
EXTENDS BookingRules, Integers, Sequences, FiniteSets

CONSTANTS
  Slots,         \* slots for requests in flight
  MaxBookings,   \* bound on the bookings created
  MaxUpdates,    \* no status operation is begun after so many updates
  Ops,           \* the status operations tried, of StatusOp
  Filters,       \* statuses a list may be filtered by, and "all"
  Pages,         \* page numbers asked for
  Limits,        \* page sizes asked for
  None           \* no entry, no request

Side == {"customer", "provider"}
Booking == 1 .. MaxBookings          \* in the order of creation

\* The keys booking:<id> and bookings:<side>:<profile>:<status>:<page>.  The page
\* size is not part of a key.
Key == [kind: {"detail"}, id: Booking]
         \cup [kind: {"list"}, side: Side, filter: Filters, page: Pages]

\* updated stands for updatedAt: how often the booking's row has been written.
Row == [status: Status, updated: Nat, reviewed: BOOLEAN]
Item == [id: Booking, row: Row]

\* known is history: how many bookings there were when the answer was read.
Answer == [items: Seq(Item), limit: Limits, known: 0 .. MaxBookings]

Request == [pc: {"read"}, limit: Limits]
             \cup [pc: {"set"}, answer: Answer]
             \cup [pc: {"write", "find", "insert", "detail"}, id: Booking,
                   op: StatusOp \cup {"review"}, was: Row]
             \cup [pc: {"scan", "drop"}, side: Side]

VARIABLES
  key,     \* the watched key
  rows,    \* rows[b]: booking b with its review; Len(rows) bookings exist
  entry,   \* the entry under the key, or None
  req,     \* req[h]: the request slot h is serving, or None
  best,    \* history: the last row of the first booking a reader was shown
  back,    \* history: has a reader been shown a row older than the last?
  cut      \* history: has an invalidation been cut short?

vars == <<key, rows, entry, req, best, back, cut>>

Init ==
  /\ key \in Key
  /\ rows = <<>> /\ entry = None
  /\ req = [h \in Slots |-> None]
  /\ best = None /\ back = FALSE /\ cut = FALSE

-----------------------------------------------------------------------------
InFlight(h) == req[h] # None
At(h, pc) == InFlight(h) /\ req[h].pc = pc
End(h) == req' = [req EXCEPT ![h] = None]

\* Newest first, one page of those the filter lets through.
NewestFirst(bookings) ==
  CHOOSE s \in [1 .. Cardinality(bookings) -> bookings] :
    \A i, j \in DOMAIN s : i < j => s[i] > s[j]

Listed(table, filter) ==
  LET order == NewestFirst({b \in DOMAIN table : filter \in {"all", table[b].status}})
  IN [i \in DOMAIN order |-> [id |-> order[i], row |-> table[order[i]]]]

Page(s, page, limit) ==
  SubSeq(s, (page - 1) * limit + 1, IF page * limit < Len(s) THEN page * limit ELSE Len(s))

\* The row that validateBookingAccess returns comes without its review.
Result(table, limit) ==
  IF key.kind = "detail"
    THEN <<[id |-> key.id, row |-> [table[key.id] EXCEPT !.reviewed = FALSE]]>>
    ELSE Page(Listed(table, key.filter), key.page, limit)

\* Row r is of a later moment than row s.
Later(s, r) == s.updated < r.updated \/ (r.reviewed /\ ~s.reviewed)

\* What a reader is shown of the first booking, against what was shown before.
Show(items) ==
  LET first == {items[i].row : i \in {j \in DOMAIN items : items[j].id = 1}} IN
  /\ back' = (back \/ \E row \in first : best # None /\ Later(row, best))
  /\ best' \in IF first = {} THEN {best} ELSE first

-----------------------------------------------------------------------------
\* A hit is answered from the entry, whatever page size it was filled with.
Hit(h) ==
  /\ ~InFlight(h) /\ entry # None
  /\ Show(entry.items)
  /\ UNCHANGED <<key, rows, entry, req, cut>>

\* A miss.  A booking that does not exist, or of others, is refused without trace.
Miss(h, limit) ==
  /\ ~InFlight(h) /\ entry = None
  /\ key.kind = "detail" => key.id \in DOMAIN rows
  /\ req' = [req EXCEPT ![h] = [pc |-> "read", limit |-> limit]]
  /\ UNCHANGED <<key, rows, entry, best, back, cut>>

Read(h) ==
  /\ At(h, "read")
  /\ req' = [req EXCEPT ![h] =
       [pc |-> "set", answer |-> [items |-> Result(rows, req[h].limit),
                                  limit |-> req[h].limit, known |-> Len(rows)]]]
  /\ UNCHANGED <<key, rows, entry, best, back, cut>>

\* The answer is stored, however old it is by now, and returned.
Fill(h) ==
  /\ At(h, "set")
  /\ entry' = req[h].answer
  /\ Show(req[h].answer.items)
  /\ End(h)
  /\ UNCHANGED <<key, rows, cut>>

\* createBooking: no entry is deleted.
Create ==
  /\ Len(rows) < MaxBookings
  /\ rows' = Append(rows, [status |-> "PENDING", updated |-> 0, reviewed |-> FALSE])
  /\ UNCHANGED <<key, entry, req, best, back, cut>>

Updates ==
  LET upTo[b \in 0 .. Len(rows)] == IF b = 0 THEN 0 ELSE upTo[b - 1] + rows[b].updated
  IN upTo[Len(rows)]

\* accept, complete, cancel, dispute, submitReview: the booking as it is read now
\* allows the operation.
Validate(h, b, op) ==
  /\ ~InFlight(h) /\ (op = "review" \/ Updates < MaxUpdates)
  /\ rows[b].status \in IF op = "review" THEN {"COMPLETED"} ELSE allowedTransitions[op]
  /\ req' = [req EXCEPT ![h] = [pc |-> IF op = "review" THEN "find" ELSE "write",
                               id |-> b, op |-> op, was |-> rows[b]]]
  /\ UNCHANGED <<key, rows, entry, best, back, cut>>

\* The status is written by id alone, whatever has become of the booking.
Write(h) ==
  /\ At(h, "write")
  /\ rows' = [rows EXCEPT ![req[h].id].status = targetStatus[req[h].op],
                         ![req[h].id].updated = @ + 1]
  /\ req' = [req EXCEPT ![h].pc = "detail"]
  /\ UNCHANGED <<key, entry, best, back, cut>>

FindReview(h) ==
  /\ At(h, "find")
  /\ IF rows[req[h].id].reviewed THEN End(h) ELSE req' = [req EXCEPT ![h].pc = "insert"]
  /\ UNCHANGED <<key, rows, entry, best, back, cut>>

\* The unique bookingId turns a second review into an exception.  The status is
\* not looked at again.
Insert(h) ==
  /\ At(h, "insert")
  /\ IF rows[req[h].id].reviewed
       THEN End(h) /\ UNCHANGED rows
       ELSE /\ rows' = [rows EXCEPT ![req[h].id].reviewed = TRUE]
            /\ req' = [req EXCEPT ![h].pc = "detail"]
  /\ UNCHANGED <<key, entry, best, back, cut>>

\* Faulty: instead of deleting the entry, the row that was validated is stored.
StoreValidated(h) ==
  /\ At(h, "detail")
  /\ entry' = IF key.kind = "detail" /\ key.id = req[h].id
                THEN [items |-> <<[id |-> req[h].id,
                                   row |-> [req[h].was EXCEPT !.reviewed = FALSE]]>>,
                      limit |-> CHOOSE n \in Limits : TRUE, known |-> Len(rows)]
                ELSE entry
  /\ req' = [req EXCEPT ![h] = [pc |-> "scan", side |-> "customer"]]
  /\ UNCHANGED <<key, rows, best, back, cut>>

DropDetail(h) ==
  /\ At(h, "detail")
  /\ entry' = IF key.kind = "detail" /\ key.id = req[h].id THEN None ELSE entry
  /\ req' = [req EXCEPT ![h] = [pc |-> "scan", side |-> "customer"]]
  /\ UNCHANGED <<key, rows, best, back, cut>>

\* The request once the lists of one side are done.
Onward(side) == IF side = "customer" THEN [pc |-> "scan", side |-> "provider"] ELSE None

\* KEYS bookings:<side>:<profile>:*  An entry that is not there is not deleted.
Scan(h) ==
  /\ At(h, "scan")
  /\ LET side == req[h].side
         found == entry # None /\ key.kind = "list" /\ key.side = side
     IN req' = [req EXCEPT ![h] = IF found THEN [pc |-> "drop", side |-> side] ELSE Onward(side)]
  /\ UNCHANGED <<key, rows, entry, best, back, cut>>

\* Faulty: the scan's keys are deleted for the customer only.
DropHires(h) ==
  /\ At(h, "drop")
  /\ entry' = IF req[h].side = "customer" THEN None ELSE entry
  /\ req' = [req EXCEPT ![h] = Onward(req[h].side)]
  /\ UNCHANGED <<key, rows, best, back, cut>>

DropList(h) ==
  /\ At(h, "drop")
  /\ entry' = None
  /\ req' = [req EXCEPT ![h] = Onward(req[h].side)]
  /\ UNCHANGED <<key, rows, best, back, cut>>

\* Redis fails, which invalidateBookingCaches only logs; or an await throws, or the
\* process stops.
Fail(h) ==
  /\ InFlight(h)
  /\ cut' = (cut \/ req[h].pc \in {"detail", "scan", "drop"})
  /\ End(h)
  /\ UNCHANGED <<key, rows, entry, best, back>>

\* Faulty: entries have no time to live.
NoExpiry == FALSE /\ UNCHANGED vars

\* CACHE_TTL is over: two minutes for a list, five for a booking.
Expire ==
  /\ entry # None
  /\ entry' = None
  /\ UNCHANGED <<key, rows, req, best, back, cut>>

-----------------------------------------------------------------------------
Continue(h) ==
  \/ Read(h) \/ Fill(h)
  \/ Write(h) \/ FindReview(h) \/ Insert(h)
  \/ DropDetail(h) \/ Scan(h) \/ DropList(h)

Next ==
  \/ Create \/ Expire
  \/ \E h \in Slots :
       \/ Hit(h) \/ Continue(h) \/ Fail(h)
       \/ \E limit \in Limits : Miss(h, limit)
       \/ \E b \in DOMAIN rows, op \in Ops \cup {"review"} : Validate(h, b, op)

\* Redis and the database answer, and Redis keeps time.
Fairness == WF_vars(Expire) /\ \A h \in Slots : WF_vars(Continue(h))

FairSpec == Init /\ [][Next]_vars /\ Fairness

-----------------------------------------------------------------------------
\* Each variable holds what its table, its entry or its closure can hold.
TypeOK ==
  /\ key \in Key
  /\ rows \in Seq(Row) /\ Len(rows) <= MaxBookings
  /\ entry \in Answer \cup {None}
  /\ req \in [Slots -> Request \cup {None}]
  /\ best \in Row \cup {None}

\* getMyHires, getMyJobs, getBookingById: whatever races filled the entry, what
\* is no longer an answer for its page size is served until it expires at most.
StaleEntriesExpire == <>[](entry # None => entry.items = Result(rows, entry.limit))

\* An answer shows the rows it knows of as they are.
Matches(answer) == answer.items = Result(SubSeq(rows, 1, answer.known), answer.limit)

\* No reader has an answer in hand when its rows change, and no invalidation fails.
Undisturbed == ~cut /\ \A h \in Slots : At(h, "set") => Matches(req[h].answer)

\* A writer that has yet to delete the watched entry.
Owing ==
  {h \in Slots : IF key.kind = "detail" THEN At(h, "detail") /\ req[h].id = key.id
                 ELSE \/ At(h, "detail")
                      \/ /\ At(h, "scan") \/ At(h, "drop")
                         /\ req[h].side \in {"customer", key.side}}

\* invalidateBookingCaches: however many handlers overlap, an outdated status or
\* review is served, on any page of either side, only while one of them still
\* owes the deletion; what an entry may lack are bookings created since it was
\* filled.  Only a reader overtaken between its query and its store, or an
\* invalidation cut short, leaves more behind.
OnlyCreationsMissing ==
  []Undisturbed => [](entry # None => Matches(entry) \/ Owing # {})

Readers == {h \in Slots : InFlight(h) /\ req[h].pc \in {"read", "set"}}

\* An entry that a hit finds while a reader is in flight came from a third one.
OneReader == Cardinality(Readers) <= 1

\* getMyHires, getMyJobs, getBookingById: one who reads again after the answer
\* has come is never shown the (first) booking as it was before an update or a review
\* he has seen the outcome of, under the same key, whatever handlers, failed
\* invalidations and expiries come between.  (A handler that validated early may
\* itself take the status back; what is shown then is the new row.)
NoStepBack == []OneReader => []~back
=============================================================================
