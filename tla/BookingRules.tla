--------------------------- MODULE BookingRules ---------------------------
(***************************************************************************)
(* The constant tables of the booking module: the status enumeration, the  *)
(* validator's transition table, the status each operation writes, whom it *)
(* notifies and with which type.  Nothing here has state.                  *)
(***************************************************************************)

\* enum BookingStatus of prisma/schema.prisma.
Status == {"PENDING", "ACCEPTED", "IN_PROGRESS",
           "COMPLETED", "CANCELLED", "DISPUTED"}

\* The handlers that move a booking from one status to another.
StatusOp == {"accept", "complete", "cancel", "dispute"}

\* Every handler of BookingService that writes to the database.
Operation == StatusOp \cup {"create", "review"}

\* Faulty tables that the properties must tell from the one below: cancelling
\* finished work, and completing work nobody accepted.
CancelAfterCompletion ==
  [accept   |-> {"PENDING"},
   complete |-> {"ACCEPTED", "IN_PROGRESS"},
   cancel   |-> {"PENDING", "ACCEPTED", "COMPLETED"},
   dispute  |-> {"ACCEPTED", "IN_PROGRESS", "COMPLETED"}]
CompleteUnaccepted ==
  [accept   |-> {"PENDING"},
   complete |-> {"PENDING", "ACCEPTED", "IN_PROGRESS"},
   cancel   |-> {"PENDING", "ACCEPTED"},
   dispute  |-> {"ACCEPTED", "IN_PROGRESS", "COMPLETED"}]

\* The table of validateStatusTransition, keyed by the action's name.
allowedTransitions ==
  [accept   |-> {"PENDING"},
   complete |-> {"ACCEPTED", "IN_PROGRESS"},
   cancel   |-> {"PENDING", "ACCEPTED"},
   dispute  |-> {"ACCEPTED", "IN_PROGRESS", "COMPLETED"}]

\* Faulty: a status the enumeration does not have.
MisspelledTarget ==
  [accept |-> "ACCEPTED", complete |-> "COMPLETED",
   cancel |-> "CANCELED", dispute |-> "DISPUTED"]

\* The status each handler stores in its prisma.booking.update call.
targetStatus ==
  [accept |-> "ACCEPTED", complete |-> "COMPLETED",
   cancel |-> "CANCELLED", dispute |-> "DISPUTED"]

\* enum NotificationType of prisma/schema.prisma: the only values the column,
\* and the generated client that validates against it, accept.
NotificationType ==
  {"BOOKING_REQUEST", "BOOKING_ACCEPTED", "BOOKING_COMPLETED",
   "BOOKING_CANCELLED", "BOOKING_DISPUTED", "TRUST_SCORE_UPDATED",
   "REVIEW_RECEIVED", "VOUCH_RECEIVED", "SYSTEM"}

\* The type string each handler passes to notificationService.notify.
notificationOf ==
  [create   |-> "BOOKING_CREATED",
   accept   |-> "BOOKING_ACCEPTED",
   complete |-> "BOOKING_COMPLETED",
   cancel   |-> "BOOKING_CANCELLED",
   dispute  |-> "BOOKING_DISPUTED",
   review   |-> "REVIEW_RECEIVED"]

\* Faulty: a cancellation is reported to the provider alone.
CustomerForgotten ==
  [create   |-> {"provider"},
   accept   |-> {"customer"},
   complete |-> {"customer"},
   cancel   |-> {"provider"},
   dispute  |-> {"customer", "provider"},
   review   |-> {"provider"}]

\* The roles notified by each handler.
recipientsOf ==
  [create   |-> {"provider"},
   accept   |-> {"customer"},
   complete |-> {"customer"},
   cancel   |-> {"customer", "provider"},
   dispute  |-> {"customer", "provider"},
   review   |-> {"provider"}]

\* Faulty: a dispute leaves the score alone.
NoRecalculationOnDispute == {"complete", "review"}

\* The handlers that await trustService.recalculate before notifying.
Recalculating == {"complete", "dispute", "review"}
=============================================================================
