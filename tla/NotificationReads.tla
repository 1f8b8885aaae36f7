------------------------- MODULE NotificationReads -------------------------
(***************************************************************************)
(* NotificationService for one user: the log, the entry                    *)
(* notif:unread:<userId> and the requests that read and change them.       *)
(* Other users share nothing with it.  The pc of a request names its       *)
(* await:                                                                  *)
(*                                                                         *)
(*   mark    notification.update          (markRead, after it found it)    *)
(*   del     redis.del of the entry                                        *)
(*   count   notification.count           (getUnreadCount, after a miss)   *)
(*   set     redis.set of the count                                        *)
(***************************************************************************)
EXTENDS Naturals, FiniteSets

CONSTANTS
  Notifications,   \* rows that may be inserted
  Slots,           \* slots for requests in flight
  None             \* no row, no entry, no request

Number == 0 .. Cardinality(Notifications)

Request == [pc : {"del", "count"}]
             \cup [pc : {"mark"}, row : Notifications]
             \cup [pc : {"set"}, count : Number]

ASSUME NotificationConstants ==
  /\ IsFiniteSet(Notifications)
  /\ None \notin Request

VARIABLES
  row,       \* row[n]: None, "unread" or "read"
  unread,    \* the entry, or None
  req,       \* req[h]: the request slot h is serving, or None
  cut        \* history: has a request that changed the log thrown?

vars == <<row, unread, req, cut>>

Init ==
  /\ row = [n \in Notifications |-> None]
  /\ unread = None
  /\ req = [h \in Slots |-> None]
  /\ cut = FALSE

Unread == {n \in Notifications : row[n] = "unread"}

-----------------------------------------------------------------------------
InFlight(h) == req[h] # None
At(h, pc) == InFlight(h) /\ req[h].pc = pc
Goto(h, r) == req' = [req EXCEPT ![h] = r]

\* notify inserts its row and awaits the deletion of the entry.
Notify(h, n) ==
  /\ ~InFlight(h) /\ row[n] = None
  /\ row' = [row EXCEPT ![n] = "unread"]
  /\ Goto(h, [pc |-> "del"])
  /\ UNCHANGED <<unread, cut>>

\* markRead finds the row among the user's own, read or not.
FindOwn(h, n) ==
  /\ ~InFlight(h) /\ row[n] # None
  /\ Goto(h, [pc |-> "mark", row |-> n])
  /\ UNCHANGED <<row, unread, cut>>

Mark(h) ==
  /\ At(h, "mark")
  /\ row' = [row EXCEPT ![req[h].row] = "read"]
  /\ Goto(h, [pc |-> "del"])
  /\ UNCHANGED <<unread, cut>>

\* markAllRead
MarkAll(h) ==
  /\ ~InFlight(h)
  /\ row' = [n \in Notifications |-> IF row[n] = "unread" THEN "read" ELSE row[n]]
  /\ Goto(h, [pc |-> "del"])
  /\ UNCHANGED <<unread, cut>>

\* Faulty: the entry is deleted only if something is left to be read.
DeleteIfUnread(h) ==
  /\ At(h, "del")
  /\ unread' = IF Unread = {} THEN unread ELSE None
  /\ Goto(h, None)
  /\ UNCHANGED <<row, cut>>

\* Faulty: one less is stored, whatever has become of the row.
Decrement(h) ==
  /\ At(h, "del")
  /\ unread' = IF unread = None THEN None ELSE unread - 1
  /\ Goto(h, None)
  /\ UNCHANGED <<row, cut>>

Delete(h) ==
  /\ At(h, "del")
  /\ unread' = None
  /\ Goto(h, None)
  /\ UNCHANGED <<row, cut>>

\* getUnreadCount: a hit is answered at once and changes nothing; 0 is a hit
\* too, since the entry is text.
Miss(h) ==
  /\ ~InFlight(h) /\ unread = None
  /\ Goto(h, [pc |-> "count"])
  /\ UNCHANGED <<row, unread, cut>>

Count(h) ==
  /\ At(h, "count")
  /\ Goto(h, [pc |-> "set", count |-> Cardinality(Unread)])
  /\ UNCHANGED <<row, unread, cut>>

\* The count is stored, however old it is by now, and returned.
Fill(h) ==
  /\ At(h, "set")
  /\ unread' = req[h].count
  /\ Goto(h, None)
  /\ UNCHANGED <<row, cut>>

\* An await throws, or the process stops: what was written stays.
Fail(h) ==
  /\ InFlight(h)
  /\ cut' = (cut \/ At(h, "del"))
  /\ Goto(h, None)
  /\ UNCHANGED <<row, unread>>

\* UNREAD_CACHE_TTL, one minute, is over.
Expire ==
  /\ unread # None
  /\ unread' = None
  /\ UNCHANGED <<row, req, cut>>

-----------------------------------------------------------------------------
Continue(h) == Mark(h) \/ Delete(h) \/ Count(h) \/ Fill(h)

Next ==
  \/ \E h \in Slots :
        \/ \E n \in Notifications : Notify(h, n) \/ FindOwn(h, n)
        \/ MarkAll(h) \/ Miss(h)
        \/ Continue(h) \/ Fail(h)
  \/ Expire

Spec == Init /\ [][Next]_vars

\* Redis and the database answer, and Redis keeps time.
Fairness == WF_vars(Expire) /\ \A h \in Slots : WF_vars(Continue(h))

FairSpec == Spec /\ Fairness

-----------------------------------------------------------------------------
\* A row is read or unread, an entry is a count, a request is at an await.
TypeOK ==
  /\ row \in [Notifications -> {None, "unread", "read"}]
  /\ unread \in Number \cup {None}
  /\ req \in [Slots -> Request \cup {None}]
  /\ cut \in BOOLEAN

\* getUnreadCount: a count stored by a reader that a notification or a mark has
\* overtaken is served until it expires at most.
StaleCountExpires == <>[](unread \in {None, Cardinality(Unread)})

\* A request that has changed the log and not yet deleted the entry, and one
\* that has counted and not yet stored.
Pending == {h \in Slots : At(h, "del")}
Counted == {h \in Slots : At(h, "set")}

\* No reader has a count in hand when the log changes, and no deletion fails.
Undisturbed == ~cut /\ \A h \in Counted : req[h].count = Cardinality(Unread)

\* notify, markRead, markAllRead: a wrong number of unread notifications is
\* served only while one of them still owes the deletion of the entry, however
\* many of them overlap; only a reader overtaken between its count and its store,
\* or a deletion that threw, leaves one behind.
CountFollows ==
  []Undisturbed => [](unread \in {None, Cardinality(Unread)} \/ Pending # {})
=============================================================================
