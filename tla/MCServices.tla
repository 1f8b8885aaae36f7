----------------------------- MODULE MCServices -----------------------------
(***************************************************************************)
(* Three services whose requests share no state - notifications, the       *)
(* cached reads of bookings, the creation of profiles - for TLC in one     *)
(* run: a behaviour is one of one of them, which area names, while the     *)
(* other two stand still.                                                  *)
(***************************************************************************)
EXTENDS NotificationReads, Sequences

CONSTANTS
  BookingSlots, MaxBookings, MaxUpdates, Ops, Filters, Pages, Limits,   \* of BookingReads
  Types, Clients, MaxFaults                                 \* of ProfileCreation

VARIABLES
  area,                                          \* the service that runs
  bKey, bRows, bEntry, bReq, bBest, bBack, bCut, \* of BookingReads
  pProfile, pWish, pReq, pAnswer, pFaults        \* of ProfileCreation

B == INSTANCE BookingReads WITH
       Slots <- BookingSlots, key <- bKey, rows <- bRows, entry <- bEntry,
       req <- bReq, best <- bBest, back <- bBack, cut <- bCut

P == INSTANCE ProfileCreation WITH
       profile <- pProfile, wish <- pWish, req <- pReq, answer <- pAnswer,
       faults <- pFaults

\* Page numbers and sizes start at one; None is no row, no answer, no request.
ASSUME ServicesConstants ==
  /\ MaxBookings \in Nat /\ Pages \cup Limits \subseteq Nat \ {0}
  /\ IsFiniteSet(Types) /\ IsFiniteSet(BookingSlots)
  /\ MaxFaults \in Nat /\ Ops \subseteq B!StatusOp
  /\ None \notin B!Row \cup B!Answer \cup B!Request \cup P!Request \cup Clients

bVars == <<bKey, bRows, bEntry, bReq, bBest, bBack, bCut>>
pVars == <<pProfile, pWish, pReq, pAnswer, pFaults>>

ServicesInit ==
  /\ area \in {"notifications", "bookings", "profiles"}
  /\ Init /\ B!Init /\ P!Init
  /\ area # "bookings" => bKey = [kind |-> "detail", id |-> 1]
  /\ area # "profiles" => pWish = [c \in Clients |-> <<CHOOSE t \in Types : TRUE>>]

ServicesNext ==
  /\ UNCHANGED area
  /\ \/ area = "notifications" /\ Next /\ UNCHANGED <<bVars, pVars>>
     \/ area = "bookings" /\ B!Next /\ UNCHANGED <<vars, pVars>>
     \/ area = "profiles" /\ P!Next /\ UNCHANGED <<vars, bVars>>

\* Of the two that stand still only the clients of profiles have a step to take.
ServicesFairness ==
  /\ Fairness /\ B!Fairness
  /\ \A c \in Clients : WF_pVars(area = "profiles" /\ (P!Send(c) \/ P!Continue(c)))

ServicesSpec ==
  ServicesInit /\ [][ServicesNext]_<<area, vars, bVars, pVars>> /\ ServicesFairness

\* The variables of each service hold what its tables, its Redis entries and its
\* requests can hold.
ServicesTypeOK == TypeOK /\ B!TypeOK /\ P!TypeOK

\* getMyHires, getMyJobs, getBookingById, getUnreadCount: whatever races filled
\* the entry, once the changes are over what is served is what the tables say,
\* at the latest when the entry has expired.
StaleReadsExpire == StaleCountExpires /\ B!StaleEntriesExpire

\* BookingService.invalidateBookingCaches: an outdated row is served only while a
\* handler still owes the deletion; see BookingReads.
OnlyCreationsMissing == B!OnlyCreationsMissing

\* BookingService reads: no reader is shown an earlier row than before; see
\* BookingReads.
NoStepBack == B!NoStepBack

\* UserService.createProfile: repeating a request is enough; see ProfileCreation.
RetriesConverge == area = "profiles" => P!RetriesConverge
=============================================================================
