----------------------------- MODULE Onboarding -----------------------------
(***************************************************************************)
(* OnboardingService for one profile that is no customer: its session in   *)
(* Redis, its identity row and its onboarding status.  Other profiles      *)
(* share none of them.                                                     *)
(*                                                                         *)
(* processMessage takes a copy of the session, waits for the model and     *)
(* writes the copy back.  Nothing keeps the messages of a profile apart:   *)
(* two tabs, or two transcripts of one voice socket, overlap at any await. *)
(* The pc of a request names the await it is at:                           *)
(*                                                                         *)
(*   load      sessionService.get       (voice join, after its own look)   *)
(*   create    sessionService.create                                       *)
(*   row       identity.upsert of nothing, so that the row exists          *)
(*   progress  userProfile.update to IN_PROGRESS                           *)
(*   model     the streamed answer                                         *)
(*   upsert    identity.upsert of everything the copy holds                *)
(*   complete  userProfile.update to COMPLETED                             *)
(*   delete    sessionService.del                                          *)
(*   save      sessionService.save                                         *)
(*   locate    identity.update of the location  (finaliseLocation)         *)
(*   mark      userProfile.update to COMPLETED  (finaliseLocation)         *)
(***************************************************************************)
EXTENDS Naturals

CONSTANTS
  Messages,   \* what the user says; each is sent once
  Fields,     \* what the model extracts: profession, ..., summary
  Numeric,    \* fields the row keeps as a number: experience
  NoNumber,   \* messages whose extracted value has no digit ("less than a year")
  LastStep,   \* the last question: 5 in the code
  Handlers,   \* slots for requests in flight
  None        \* no session, no row, no value, no request

Status == {"PENDING", "IN_PROGRESS", "COMPLETED"}
PC == {"load", "create", "row", "progress", "model", "upsert", "complete",
       "delete", "save", "locate", "mark"}

\* A value is named by the message it was extracted from.
IdentityState == [Fields -> Messages \cup {None}]
Session == [state: IdentityState, step: 0 .. LastStep, turns: SUBSET Messages]
Identity == [fields: IdentityState, located: BOOLEAN]

NoState == [f \in Fields |-> None]
NewSession == [state |-> NoState, step |-> 0, turns |-> {}]
NewIdentity == [fields |-> NoState, located |-> FALSE]

\* copy is the session object of the request, field what its answer extracted.
Request == [pc: PC, message: Messages \cup {None}, copy: Session,
            field: Fields \cup {None}]

ASSUME OnboardingConstants ==
  /\ "summary" \in Fields
  /\ Numeric \subseteq Fields \ {"summary"} /\ NoNumber \subseteq Messages
  /\ LastStep \in Nat
  /\ None \notin Messages \cup Fields \cup Session \cup Identity \cup Request

VARIABLES
  session,    \* the entry onboarding:session:<profileId>, or None
  identity,   \* the Identity row, or None
  status,     \* onboardingStatus of the profile
  req,        \* req[h]: the request slot h is serving, or None
  asked,      \* messages sent so far
  said,       \* history: messages answered since the session was created
  lost,       \* history: messages whose request threw
  mixed       \* history: messages that were in flight together with another

vars == <<session, identity, status, req, asked, said, lost, mixed>>

Init ==
  /\ session = None /\ identity = None /\ status = "PENDING"
  /\ req = [h \in Handlers |-> None]
  /\ asked = {} /\ said = {} /\ lost = {} /\ mixed = {}

-----------------------------------------------------------------------------
InFlight(h) == req[h] # None

At(h, pc) == InFlight(h) /\ req[h].pc = pc

Goto(h, pc) == req' = [req EXCEPT ![h].pc = pc]

End(h) == req' = [req EXCEPT ![h] = None]

NewRequest(pc, m, copy) == [pc |-> pc, message |-> m, copy |-> copy, field |-> None]

\* sessionService.get: without a session one is created.
Loaded(m) == IF session = None THEN NewRequest("create", m, NewSession)
                               ELSE NewRequest("model", m, session)

\* The messages whose requests are in flight.
Pending == {req[h].message : h \in {k \in Handlers : InFlight(k)}} \ {None}

\* A message overlaps every one that is in flight when it comes.
Ask(m) ==
  /\ asked' = asked \cup {m}
  /\ mixed' = IF Pending = {} THEN mixed ELSE mixed \cup Pending \cup {m}

\* processMessage: POST /user/onboarding, or a final transcript of a voice socket.
Message(h, m) ==
  /\ ~InFlight(h) /\ m \notin asked
  /\ req' = [req EXCEPT ![h] = Loaded(m)]
  /\ Ask(m)
  /\ UNCHANGED <<session, identity, status, said, lost>>

\* handleJoin of the voice gateway finds no session and asks for the greeting;
\* processMessage will look again.
Join(h, m) ==
  /\ ~InFlight(h) /\ m \notin asked /\ session = None
  /\ req' = [req EXCEPT ![h] = NewRequest("load", m, NewSession)]
  /\ Ask(m)
  /\ UNCHANGED <<session, identity, status, said, lost>>

Load(h) ==
  /\ At(h, "load")
  /\ req' = [req EXCEPT ![h] = Loaded(req[h].message)]
  /\ UNCHANGED <<session, identity, status, asked, said, lost, mixed>>

CreateSession(h) ==
  /\ At(h, "create")
  /\ session' = NewSession /\ said' = {}
  /\ Goto(h, "row")
  /\ UNCHANGED <<identity, status, asked, lost, mixed>>

EnsureRow(h) ==
  /\ At(h, "row")
  /\ identity' = IF identity = None THEN NewIdentity ELSE identity
  /\ Goto(h, "progress")
  /\ UNCHANGED <<session, status, asked, said, lost, mixed>>

\* Also for a profile that was COMPLETED when its session was gone.
MarkInProgress(h) ==
  /\ At(h, "progress")
  /\ status' = "IN_PROGRESS"
  /\ Goto(h, "model")
  /\ UNCHANGED <<session, identity, asked, said, lost, mixed>>

\* Faulty: the step is not capped.
NextStepUncapped(n) == n + 1

NextStep(n) == IF n < LastStep THEN n + 1 ELSE n

\* Faulty: a turn that carried data is not kept in the conversation.
ExtendedByData(copy, m, f) ==
  [state |-> [g \in Fields |-> IF g = f THEN m ELSE copy.state[g]],
   step  |-> IF f = None THEN copy.step ELSE NextStep(copy.step),
   turns |-> IF f = None THEN copy.turns \cup {m} ELSE copy.turns]

\* The copy after an answer to m that extracted field f, or nothing.
Extended(copy, m, f) ==
  [state |-> [g \in Fields |-> IF g = f THEN m ELSE copy.state[g]],
   step  |-> IF f = None THEN copy.step ELSE NextStep(copy.step),
   turns |-> copy.turns \cup {m}]

\* Faulty: the summary completes the profile without being stored first.
AnswerUnsaved(h, f) ==
  /\ At(h, "model")
  /\ LET m == req[h].message IN
       /\ req' = [req EXCEPT ![h].copy = Extended(@, m, f),
                             ![h].field = f,
                             ![h].pc = IF f = "summary" THEN "complete"
                                       ELSE IF f = None THEN "save" ELSE "upsert"]
       /\ said' = said \cup {m}
  /\ UNCHANGED <<session, identity, status, asked, lost, mixed>>

\* The model has answered and its answer was parsed; only the copy changes.
Answer(h, f) ==
  /\ At(h, "model")
  /\ LET m == req[h].message IN
       /\ req' = [req EXCEPT ![h].copy = Extended(@, m, f),
                             ![h].field = f,
                             ![h].pc = IF f = None THEN "save" ELSE "upsert"]
       /\ said' = said \cup {m}
  /\ UNCHANGED <<session, identity, status, asked, lost, mixed>>

\* The conversation has a value of f that the row can take.
Writes(state, f) == state[f] # None /\ ~(f \in Numeric /\ state[f] \in NoNumber)

\* Faulty: a field the row has is not written again.
FilledOnce(row, state) ==
  [row EXCEPT !.fields = [f \in Fields |-> IF @[f] = None /\ Writes(state, f)
                                           THEN state[f] ELSE @[f]]]

\* The row with every field the copy holds; a number that cannot be read is
\* undefined, and leaves the row's as it is.
Filled(row, state) ==
  [row EXCEPT !.fields = [f \in Fields |-> IF Writes(state, f) THEN state[f] ELSE @[f]]]

\* Faulty: the summary is stored like any other field.
UpsertOnly(h) ==
  /\ At(h, "upsert")
  /\ identity' = Filled(IF identity = None THEN NewIdentity ELSE identity,
                        req[h].copy.state)
  /\ Goto(h, "save")
  /\ UNCHANGED <<session, status, asked, said, lost, mixed>>

UpsertIdentity(h) ==
  /\ At(h, "upsert")
  /\ identity' = Filled(IF identity = None THEN NewIdentity ELSE identity,
                        req[h].copy.state)
  /\ Goto(h, IF req[h].field = "summary" THEN "complete" ELSE "save")
  /\ UNCHANGED <<session, status, asked, said, lost, mixed>>

MarkCompleted(h) ==
  /\ At(h, "complete")
  /\ status' = "COMPLETED"
  /\ Goto(h, "delete")
  /\ UNCHANGED <<session, identity, asked, said, lost, mixed>>

DeleteSession(h) ==
  /\ At(h, "delete")
  /\ session' = None
  /\ End(h)
  /\ UNCHANGED <<identity, status, asked, said, lost, mixed>>

\* The copy replaces whatever another message stored meanwhile.
Save(h) ==
  /\ At(h, "save")
  /\ session' = req[h].copy
  /\ End(h)
  /\ UNCHANGED <<identity, status, asked, said, lost, mixed>>

-----------------------------------------------------------------------------
\* finaliseLocation: the identity row exists; nothing else is required.
FindIdentity(h) ==
  /\ ~InFlight(h) /\ identity # None
  /\ req' = [req EXCEPT ![h] = NewRequest("locate", None, NewSession)]
  /\ UNCHANGED <<session, identity, status, asked, said, lost, mixed>>

WriteLocation(h) ==
  /\ At(h, "locate")
  /\ identity' = [identity EXCEPT !.located = TRUE]
  /\ Goto(h, "mark")
  /\ UNCHANGED <<session, status, asked, said, lost, mixed>>

MarkLocated(h) ==
  /\ At(h, "mark")
  /\ status' = "COMPLETED"
  /\ End(h)
  /\ UNCHANGED <<session, identity, asked, said, lost, mixed>>

-----------------------------------------------------------------------------
\* An await throws (the model refuses, a connection is lost), or the process
\* stops: what was written stays.
Fail(h) ==
  /\ InFlight(h)
  /\ lost' = lost \cup ({req[h].message} \ {None})
  /\ End(h)
  /\ UNCHANGED <<session, identity, status, asked, said, mixed>>

\* Redis drops the session seven days after it was last saved.
Expire ==
  /\ session # None
  /\ session' = None
  /\ UNCHANGED <<identity, status, req, asked, said, lost, mixed>>

Continue(h) ==
  \/ Load(h) \/ CreateSession(h) \/ EnsureRow(h) \/ MarkInProgress(h)
  \/ UpsertIdentity(h) \/ MarkCompleted(h) \/ DeleteSession(h) \/ Save(h)
  \/ WriteLocation(h) \/ MarkLocated(h)

Next ==
  \/ \E h \in Handlers :
        \/ \E m \in Messages : Message(h, m) \/ Join(h, m)
        \/ FindIdentity(h)
        \/ Continue(h)
        \/ \E f \in Fields \cup {None} : Answer(h, f)
        \/ Fail(h)
  \/ Expire

Spec == Init /\ [][Next]_vars

\* Redis and the database answer and the event loop resumes what awaits them.
\* The model need not answer, and nobody must send a message.
FairSpec == Spec /\ \A h \in Handlers : WF_vars(Continue(h))

-----------------------------------------------------------------------------
TypeOK ==
  /\ session \in Session \cup {None}
  /\ identity \in Identity \cup {None}
  /\ status \in Status
  /\ req \in [Handlers -> Request \cup {None}]
  /\ asked \subseteq Messages
  /\ said \subseteq asked /\ lost \subseteq asked /\ mixed \subseteq asked

\* upsertIdentity, finaliseLocation: a profile is COMPLETED only when its row
\* already holds the summary or a location, whatever overlaps or fails.
CompletedIsEarned ==
  status = "COMPLETED" =>
    identity # None /\ (identity.fields["summary"] # None \/ identity.located)

\* Messages whose value may be in one place and not yet, or never, in another:
\* they overlapped another message, threw, or are in flight.
Loose == mixed \cup lost \cup Pending

\* "Live upsert to DB": the row has the value of every field that the stored
\* session has collected.  They may hold different values only where one of the
\* two is of a message that overlapped another, threw or is in flight; the
\* values of messages that ran alone agree, whatever overlaps, fails or expires
\* before and after them.
RowKeepsUp ==
  session # None =>
    \A f \in Fields : Writes(session.state, f) =>
      /\ identity # None /\ identity.fields[f] # None
      /\ \/ identity.fields[f] = session.state[f]
         \/ {identity.fields[f], session.state[f]} \cap Loose # {}

\* The answer to m held the summary and the profile is not COMPLETED yet.
Summarised(m) ==
  \E h \in Handlers : /\ At(h, "upsert") \/ At(h, "complete")
                      /\ req[h].message = m /\ req[h].field = "summary"

\* processMessage: a summary completes the profile, unless its request throws,
\* even when the deletion or another message's new session races it.
SummaryCompletes ==
  \A m \in Messages : Summarised(m) ~> m \in lost \/ status = "COMPLETED"

Idle == \A h \in Handlers : ~InFlight(h)

\* One request of the profile at a time, and none that threw.
Undisturbed ==
  /\ \A h, k \in Handlers : InFlight(h) /\ InFlight(k) => h = k
  /\ lost = {}

\* sessionService.save: messages that do not overlap lose no turn, and the row
\* holds the latest value of every field of the conversation it can take.
NothingLost ==
  []Undisturbed =>
    [](Idle /\ session # None =>
         /\ session.turns = said
         /\ \A f \in Fields : Writes(session.state, f) =>
                                identity.fields[f] = session.state[f])
=============================================================================
