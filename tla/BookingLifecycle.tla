------------------------- MODULE BookingLifecycle -------------------------
(***************************************************************************)
(* What the booking module promises about a booking, as two specifications *)
(* over the same state.                                                    *)
(*                                                                         *)
(*   Spec           the lifecycle of the validator's table: every status   *)
(*                  change starts from a status the table allows.          *)
(*   CommittedSpec  what is left of it when requests overlap: a booking    *)
(*                  leaves PENDING only by acceptance or cancellation and  *)
(*                  never returns, and only a booking that was completed   *)
(*                  is reviewed, once.                                     *)
(*                                                                         *)
(* The statuses are written out rather than taken from BookingRules, so    *)
(* that the table the handlers use is checked against this module.         *)
(***************************************************************************)
CONSTANT Bookings

VARIABLES
  status,      \* status[b]: "ABSENT" until the booking is requested
  completed,   \* bookings that were COMPLETED at some time (completedAt is set)
  reviewed     \* bookings that have a review

vars == <<status, completed, reviewed>>

Init ==
  /\ status = [b \in Bookings |-> "ABSENT"]
  /\ completed = {}
  /\ reviewed = {}

Move(b, from, to) ==
  /\ status[b] \in from
  /\ status' = [status EXCEPT ![b] = to]

Request(b) == Move(b, {"ABSENT"}, "PENDING") /\ UNCHANGED <<completed, reviewed>>

Accept(b) == Move(b, {"PENDING"}, "ACCEPTED") /\ UNCHANGED <<completed, reviewed>>

Cancel(b) ==
  Move(b, {"PENDING", "ACCEPTED"}, "CANCELLED") /\ UNCHANGED <<completed, reviewed>>

Complete(b) ==
  /\ Move(b, {"ACCEPTED"}, "COMPLETED")
  /\ completed' = completed \cup {b}
  /\ UNCHANGED reviewed

Dispute(b) ==
  Move(b, {"ACCEPTED", "COMPLETED"}, "DISPUTED") /\ UNCHANGED <<completed, reviewed>>

Review(b) ==
  /\ status[b] = "COMPLETED"
  /\ b \notin reviewed
  /\ reviewed' = reviewed \cup {b}
  /\ UNCHANGED <<status, completed>>

Next == \E b \in Bookings : \/ Request(b) \/ Accept(b) \/ Cancel(b)
                            \/ Complete(b) \/ Dispute(b) \/ Review(b)

Spec == Init /\ [][Next]_vars

-----------------------------------------------------------------------------
\* A status write that was validated against an earlier row.
Commit(b, to) ==
  /\ Move(b, {"PENDING", "ACCEPTED", "COMPLETED", "CANCELLED", "DISPUTED"}, to)
  /\ to \in {"ACCEPTED", "COMPLETED", "CANCELLED", "DISPUTED"}
  /\ status[b] = "PENDING" => to \in {"ACCEPTED", "CANCELLED"}
  /\ completed' = IF to = "COMPLETED" THEN completed \cup {b} ELSE completed
  /\ UNCHANGED reviewed

\* A review validated against an earlier row.
CommitReview(b) ==
  /\ b \in completed \ reviewed
  /\ reviewed' = reviewed \cup {b}
  /\ UNCHANGED <<status, completed>>

CommittedNext ==
  \E b \in Bookings :
    \/ Request(b)
    \/ \E to \in {"ACCEPTED", "COMPLETED", "CANCELLED", "DISPUTED"} : Commit(b, to)
    \/ CommitReview(b)

CommittedSpec == Init /\ [][CommittedNext]_vars
=============================================================================
