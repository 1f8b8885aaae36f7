------------------------- MODULE BookingInvariant -------------------------
(***************************************************************************)
(* The inductive invariant behind the properties that survive overlapping  *)
(* requests.  The properties speak of rows, notifications and scores; what *)
(* makes them inductive is what a request still knows about its row after  *)
(* the await at which it validated it.  BookingProofs proves it for every  *)
(* instance, TLC checks it on a small one.                                 *)
(***************************************************************************)
EXTENDS BookingProperties

\* The status column and the stamps are written together, and no handler
\* stores IN_PROGRESS.
RowsSound ==
  \A b \in Bookings :
    Exists(b) => /\ booking[b].status # "IN_PROGRESS"
                 /\ booking[b].status = "COMPLETED" => b \in Completed
                 /\ booking[b].status = "DISPUTED" => b \in Disputed

\* The request in slot h has made its write.
Written(h) == req[h].op # "create" /\ req[h].pc \in {"trust", "notify"}

\* What is left of a request's validation: the row is there, its parties are
\* those it notifies, a booking validated as accepted never becomes PENDING
\* again, one validated as COMPLETED keeps its completedAt, and what it
\* has written is what it will report.
RequestSound(h) ==
  LET b == req[h].booking IN
  InFlight(h) =>
    /\ Exists(b)
    /\ req[h].pc = "check" => req[h].op = "review"
    /\ \A p \in req[h].todo : IsParty(b, p)
    /\ req[h].op \in {"complete", "dispute"} => booking[b].status # "PENDING"
    /\ req[h].op = "review" =>
         b \in Completed /\ req[h].profile = booking[b].customer
    /\ Written(h) => Claim(notificationOf[req[h].op], b)
    /\ FiguresSound(req[h].calc, booking[b].provider)

Inv ==
  /\ TypeOK
  /\ RowsSound
  /\ ReviewSound
  /\ NotificationSound
  /\ ScoreSound
  /\ \A h \in Handlers : RequestSound(h)

-----------------------------------------------------------------------------
\* No two requests on one booking overlap: what a lock on the booking's row,
\* held for the length of a handler, would give.
Exclusive ==
  \A h, k \in Handlers :
    h # k /\ InFlight(h) /\ InFlight(k) => req[h].booking # req[k].booking

\* Then what a request has validated is still true when it writes.
StillValid(h) ==
  LET b == req[h].booking IN
  InFlight(h) =>
    /\ req[h].op \in StatusOp /\ req[h].pc = "write" => MayTransition(req[h].op, b)
    /\ req[h].op = "review" /\ req[h].pc \in {"check", "write"} =>
         booking[b].status = "COMPLETED"

\* Then, too, a row's stamps agree with its status.
StampsSound ==
  \A b \in Bookings :
    Exists(b) => /\ booking[b].cancelledAt => booking[b].status = "CANCELLED"
                 /\ booking[b].completedAt =>
                      booking[b].status \in {"COMPLETED", "DISPUTED"}

ExclusiveInv == StampsSound /\ \A h \in Handlers : StillValid(h)

-----------------------------------------------------------------------------
\* What no step undoes: rows stay, with their parties and stamps, a booking
\* that left PENDING does not return to it, and reviews are never rewritten.
RowGrows(b) ==
  Exists(b) =>
    /\ booking'[b] # None
    /\ booking'[b].customer = booking[b].customer
    /\ booking'[b].provider = booking[b].provider
    /\ booking[b].completedAt => booking'[b].completedAt
    /\ booking[b].cancelledAt => booking'[b].cancelledAt
    /\ booking[b].disputed => booking'[b].disputed
    /\ booking[b].status # "PENDING" => booking'[b].status # "PENDING"

Grows ==
  \A b \in Bookings :
    RowGrows(b) /\ (review[b] # None => review'[b] = review[b])
=============================================================================
