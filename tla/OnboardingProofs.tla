-------------------------- MODULE OnboardingProofs --------------------------
(***************************************************************************)
(* A completed profile has earned it and the row keeps up with the session *)
(* however the messages of a profile overlap, for any number of them; and  *)
(* messages that do not overlap lose no turn and no value.                 *)
(***************************************************************************)
EXTENDS Onboarding, TLAPS

\* Field f is in the identity row.
Held(f) == identity # None /\ identity.fields[f] # None

Stored(state) == \A f \in Fields : Writes(state, f) => Held(f)

RowHolds == session # None => Stored(session.state)

\* What a request relies on at each await.
RequestOK(h) ==
  /\ req[h] \in Request
  /\ req[h].message \in asked \cup {None}
  /\ req[h].message = None <=> req[h].pc \in {"locate", "mark"}
  /\ req[h].pc # "upsert" => Stored(req[h].copy.state)
  /\ req[h].pc = "upsert" => /\ req[h].field \in Fields
                             /\ req[h].copy.state[req[h].field] # None
  /\ req[h].pc = "complete" => Held("summary")
  /\ req[h].pc = "locate" => identity # None
  /\ req[h].pc = "mark" => identity # None /\ identity.located

Requests == \A h \in Handlers : InFlight(h) => RequestOK(h)

Inv == TypeOK /\ Requests /\ CompletedIsEarned /\ RowHolds

\* The row only gains: no step empties a field, or deletes the row.
Gains ==
  identity # None =>
    /\ identity' # None
    /\ identity.located => identity'.located
    /\ \A f \in Fields : identity.fields[f] # None => identity'.fields[f] # None

LEMMA NoneIsNothing ==
  /\ None \notin Messages /\ None \notin Fields /\ None \notin Session
  /\ None \notin Identity /\ None \notin Request
  /\ "summary" \in Fields \ Numeric /\ LastStep \in Nat
BY OnboardingConstants

LEMMA NewIsTyped ==
  /\ NewSession \in Session /\ NewIdentity \in Identity
  /\ \A f \in Fields : NewSession.state[f] = None
BY NoneIsNothing DEF NewSession, NewIdentity, Session, Identity, IdentityState, NoState

\* A step of slot h: the requests in other slots stay as good as they were.
LEMMA SlotStep ==
  ASSUME Inv, NEW h \in Handlers, NEW r \in Request \cup {None},
         req' = [req EXCEPT ![h] = r], r # None => RequestOK(h)',
         Gains, identity' \in Identity \cup {None},
         asked \subseteq asked', asked' \subseteq Messages,
         said' \subseteq asked', lost' \subseteq asked', mixed' \subseteq asked'
  PROVE  /\ Requests'
         /\ status' = status => CompletedIsEarned'
         /\ session' = session \/ session' = None => RowHolds'
         /\ session' \in Session \cup {None} /\ status' \in Status => TypeOK'
         /\ session' = session /\ status' = status => Inv'
<1>1. req \in [Handlers -> Request \cup {None}]
  BY DEF Inv, TypeOK
<1>2. req' \in [Handlers -> Request \cup {None}] /\ req'[h] = r
      /\ \A k \in Handlers \ {h} : req'[k] = req[k]
  BY <1>1
<1>3. \A f : Held(f) /\ f \in Fields => Held(f)'
  BY DEF Held, Gains
<1>4. ASSUME NEW k \in Handlers, InFlight(k)' PROVE RequestOK(k)'
  <2>1. CASE k = h
    BY <1>2, <1>4, <2>1 DEF InFlight
  <2>2. CASE k # h
    <3>1. req'[k] = req[k] /\ RequestOK(k)
      BY <1>2, <1>4, <2>2 DEF InFlight, Inv, Requests
    <3> QED
      BY <1>3, <3>1, NoneIsNothing DEF RequestOK, Stored, Gains
  <2> QED
    BY <2>1, <2>2
<1>5. Requests'
  BY <1>4 DEF Requests
<1>6. status' = status => CompletedIsEarned'
  BY NoneIsNothing DEF Inv, CompletedIsEarned, Gains
<1>7. session' = session \/ session' = None => RowHolds'
  BY DEF Inv, RowHolds, Stored, Held, Gains
<1>8. session' \in Session \cup {None} /\ status' \in Status => TypeOK'
  BY <1>2 DEF Inv, TypeOK
<1>9. session \in Session \cup {None} /\ status \in Status
  BY DEF Inv, TypeOK
<1> QED
  BY <1>5, <1>6, <1>7, <1>8, <1>9 DEF Inv

LEMMA Updates ==
  ASSUME req \in [Handlers -> Request \cup {None}], NEW h \in Handlers, InFlight(h)
  PROVE  /\ req[h] \in Request
         /\ req[h].pc \in PC /\ req[h].message \in Messages \cup {None}
         /\ req[h].copy \in Session /\ req[h].field \in Fields \cup {None}
         /\ \A pc \in PC :
              LET r == [req[h] EXCEPT !.pc = pc] IN
                /\ r \in Request /\ r.pc = pc /\ r.message = req[h].message
                /\ r.copy = req[h].copy /\ r.field = req[h].field
                /\ [req EXCEPT ![h].pc = pc] = [req EXCEPT ![h] = r]
                /\ [req EXCEPT ![h].pc = pc][h] = r
BY DEF InFlight, Request

\* upsertIdentity: the row has what it had and what the copy holds.
LEMMA FilledRow ==
  ASSUME NEW row \in Identity, NEW state \in IdentityState
  PROVE  LET new == Filled(row, state) IN
           /\ new \in Identity /\ new.located = row.located
           /\ \A f \in Fields :
                /\ row.fields[f] # None \/ Writes(state, f) => new.fields[f] # None
                /\ Writes(state, f) => new.fields[f] = state[f]
<1> DEFINE fields == [f \in Fields |-> IF Writes(state, f) THEN state[f] ELSE row.fields[f]]
<1>1. row.fields \in IdentityState /\ row.located \in BOOLEAN
  BY DEF Identity
<1>2. fields \in IdentityState
  BY <1>1 DEF IdentityState
<1>3. \A f \in Fields : fields[f] = IF Writes(state, f) THEN state[f] ELSE row.fields[f]
  OBVIOUS
<1>4. /\ Filled(row, state).fields = fields
      /\ Filled(row, state).located = row.located
      /\ Filled(row, state) = [fields |-> fields, located |-> row.located]
  BY DEF Filled, Identity
<1>5. Filled(row, state) \in Identity
  BY <1>1, <1>2, <1>4 DEF Identity
<1> QED
  BY <1>3, <1>4, <1>5 DEF Writes

\* processMessage: the copy after an answer has the extracted field.
LEMMA ExtendedCopy ==
  ASSUME NEW copy \in Session, NEW m \in Messages, NEW f \in Fields \cup {None}
  PROVE  LET new == Extended(copy, m, f) IN
           /\ new \in Session
           /\ f \in Fields => new.state[f] = m
           /\ f = None => new.state = copy.state
           /\ new.turns = copy.turns \cup {m}
<1> DEFINE state == [g \in Fields |-> IF g = f THEN m ELSE copy.state[g]]
           step == IF f = None THEN copy.step ELSE NextStep(copy.step)
<1>1. copy.state \in IdentityState /\ copy.step \in 0 .. LastStep /\ copy.turns \subseteq Messages
  BY DEF Session
<1>2. state \in IdentityState
  BY <1>1 DEF IdentityState
<1>3. step \in 0 .. LastStep
  BY <1>1, NoneIsNothing DEF NextStep
<1>4. Extended(copy, m, f) = [state |-> state, step |-> step, turns |-> copy.turns \cup {m}]
  BY DEF Extended
<1>5. f = None => state = copy.state
  BY <1>1, NoneIsNothing DEF IdentityState
<1> QED
  BY <1>1, <1>2, <1>3, <1>4, <1>5 DEF Session

LEMMA InvHolds == Spec => []Inv
<1>1. Init => Inv
  BY DEF Init, Inv, TypeOK, Requests, CompletedIsEarned, RowHolds, InFlight, Status
<1>2. Inv /\ [Next]_vars => Inv'
  <2> SUFFICES ASSUME Inv, [Next]_vars PROVE Inv'
    OBVIOUS
  <2>0. /\ req \in [Handlers -> Request \cup {None}] /\ status \in Status
        /\ session \in Session \cup {None} /\ identity \in Identity \cup {None}
        /\ asked \subseteq Messages
        /\ said \subseteq asked /\ lost \subseteq asked /\ mixed \subseteq asked
        /\ \A h \in Handlers : InFlight(h) => RequestOK(h)
    BY DEF Inv, TypeOK, Requests
  <2>a. identity' = identity => Gains
    BY DEF Gains
  <2>b. \A m \in Messages : /\ Loaded(m) \in Request /\ Loaded(m).message = m
                            /\ Loaded(m).pc \in {"create", "model"}
                            /\ Stored(Loaded(m).copy.state)
    <3> SUFFICES ASSUME NEW m \in Messages
                 PROVE  /\ Loaded(m) \in Request /\ Loaded(m).message = m
                        /\ Loaded(m).pc \in {"create", "model"}
                        /\ Stored(Loaded(m).copy.state)
      OBVIOUS
    <3>1. session # None => Stored(session.state)
      BY DEF Inv, RowHolds
    <3> QED
      BY <2>0, <3>1, NewIsTyped DEF Loaded, NewRequest, Request, PC, Stored, Writes
  <2>c. \A m \in Messages : Ask(m) => /\ asked \subseteq asked' /\ asked' \subseteq Messages
                                     /\ mixed' \subseteq asked'
    BY <2>0 DEF Ask, Pending, RequestOK
  <2>1. CASE UNCHANGED vars
    BY <2>1 DEF vars, Inv, TypeOK, Requests, InFlight, RequestOK, Stored, Held,
                CompletedIsEarned, RowHolds
  <2>2. ASSUME NEW h \in Handlers, NEW m \in Messages, Message(h, m) PROVE Inv'
    <3>1. PICK r : r = Loaded(m)
      OBVIOUS
    <3>2. req' = [req EXCEPT ![h] = r] /\ req'[h] = r
      BY <2>0, <2>2, <3>1 DEF Message
    <3>3. r \in Request /\ r.message = m /\ r.pc \in {"create", "model"} /\ Stored(r.copy.state)
      BY <2>b, <3>1
    <3>4. RequestOK(h)'
      BY <2>2, <3>2, <3>3, NoneIsNothing DEF RequestOK, Stored, Held, Message, Ask
    <3> QED
      BY <2>0, <2>2, <2>a, <2>c, <3>2, <3>3, <3>4, SlotStep DEF Message
  <2>3. ASSUME NEW h \in Handlers, NEW m \in Messages, Join(h, m) PROVE Inv'
    <3> DEFINE r == NewRequest("load", m, NewSession)
    <3>1. r \in Request /\ req' = [req EXCEPT ![h] = r] /\ req'[h] = r
      BY <2>0, <2>3, NewIsTyped DEF Join, NewRequest, Request, PC
    <3>2. RequestOK(h)'
      BY <2>3, <3>1, NoneIsNothing, NewIsTyped DEF RequestOK, Stored, Writes, NewRequest, Join, Ask
    <3> QED
      BY <2>0, <2>3, <2>a, <2>c, <3>1, <3>2, SlotStep DEF Join
  <2>4. ASSUME NEW h \in Handlers, FindIdentity(h) PROVE Inv'
    <3> DEFINE r == NewRequest("locate", None, NewSession)
    <3>1. r \in Request /\ req' = [req EXCEPT ![h] = r] /\ req'[h] = r
      BY <2>0, <2>4, NewIsTyped DEF FindIdentity, NewRequest, Request, PC
    <3>2. RequestOK(h)'
      BY <2>4, <3>1, NoneIsNothing, NewIsTyped DEF RequestOK, Stored, Writes, NewRequest, FindIdentity
    <3> QED
      BY <2>0, <2>4, <2>a, <3>1, <3>2, SlotStep DEF FindIdentity
  <2>5. ASSUME NEW h \in Handlers, Continue(h) PROVE Inv'
    <3>0. InFlight(h) /\ RequestOK(h)
      BY <2>0, <2>5 DEF Continue, At, Load, CreateSession, EnsureRow, MarkInProgress,
         UpsertIdentity, MarkCompleted, DeleteSession, Save, WriteLocation, MarkLocated
    <3>t. /\ req[h] \in Request /\ req[h].message \in Messages \cup {None}
          /\ req[h].copy \in Session /\ req[h].field \in Fields \cup {None}
      BY <2>0, <3>0, Updates
    <3>1. CASE Load(h)
      <4>1. req[h].message \in Messages
        BY <3>0, <3>1, <3>t DEF Load, At, RequestOK
      <4>2. PICK r : r = Loaded(req[h].message)
        OBVIOUS
      <4>3. req' = [req EXCEPT ![h] = r] /\ req'[h] = r
        BY <2>0, <3>1, <4>2 DEF Load
      <4>4. /\ r \in Request /\ r.message = req[h].message
            /\ r.pc \in {"create", "model"} /\ Stored(r.copy.state)
        BY <2>b, <4>1, <4>2
      <4>5. RequestOK(h)'
        BY <3>0, <3>1, <4>1, <4>3, <4>4, NoneIsNothing DEF RequestOK, Stored, Held, Load
      <4> QED
        BY <2>0, <2>a, <3>1, <4>3, <4>4, <4>5, SlotStep DEF Load
    <3>2. CASE CreateSession(h)
      <4>1. PICK r : r = [req[h] EXCEPT !.pc = "row"]
        OBVIOUS
      <4>2. /\ r \in Request /\ req' = [req EXCEPT ![h] = r] /\ req'[h] = r
            /\ r.pc = "row" /\ r.message = req[h].message /\ r.copy = req[h].copy
        BY <2>0, <3>0, <3>2, <4>1, Updates DEF CreateSession, Goto, PC
      <4>3. RequestOK(h)'
        BY <3>0, <3>2, <4>2 DEF RequestOK, Stored, Held, CreateSession, At
      <4>4. RowHolds'
        BY <3>2, NewIsTyped DEF CreateSession, RowHolds, Stored, Writes
      <4>5. Requests' /\ TypeOK' /\ CompletedIsEarned'
        BY <2>0, <2>a, <3>2, <4>2, <4>3, SlotStep, NewIsTyped DEF CreateSession
      <4> QED
        BY <4>4, <4>5 DEF Inv
    <3>3. CASE EnsureRow(h)
      <4>1. PICK r : r = [req[h] EXCEPT !.pc = "progress"]
        OBVIOUS
      <4>2. /\ r \in Request /\ req' = [req EXCEPT ![h] = r] /\ req'[h] = r
            /\ r.pc = "progress" /\ r.message = req[h].message /\ r.copy = req[h].copy
        BY <2>0, <3>0, <3>3, <4>1, Updates DEF EnsureRow, Goto, PC
      <4>3. identity' \in Identity \cup {None} /\ Gains
        BY <2>0, <3>3, NewIsTyped DEF EnsureRow, Gains
      <4>4. RequestOK(h)'
        BY <3>0, <3>3, <4>2, <4>3 DEF RequestOK, Stored, Held, EnsureRow, At, Gains
      <4> QED
        BY <2>0, <3>3, <4>2, <4>3, <4>4, SlotStep DEF EnsureRow
    <3>4. CASE MarkInProgress(h)
      <4>1. PICK r : r = [req[h] EXCEPT !.pc = "model"]
        OBVIOUS
      <4>2. /\ r \in Request /\ req' = [req EXCEPT ![h] = r] /\ req'[h] = r
            /\ r.pc = "model" /\ r.message = req[h].message /\ r.copy = req[h].copy
        BY <2>0, <3>0, <3>4, <4>1, Updates DEF MarkInProgress, Goto, PC
      <4>3. RequestOK(h)'
        BY <3>0, <3>4, <4>2 DEF RequestOK, Stored, Held, MarkInProgress, At
      <4>4. CompletedIsEarned' /\ status' \in Status
        BY <3>4 DEF MarkInProgress, CompletedIsEarned, Status
      <4>5. Requests' /\ TypeOK' /\ RowHolds'
        BY <2>0, <2>a, <3>4, <4>2, <4>3, <4>4, SlotStep DEF MarkInProgress
      <4> QED
        BY <4>4, <4>5 DEF Inv
    <3>5. CASE UpsertIdentity(h)
      <4>1. PICK row : row = IF identity = None THEN NewIdentity ELSE identity
        OBVIOUS
      <4>2. row \in Identity /\ req[h].copy.state \in IdentityState
        BY <2>0, <3>t, <4>1, NewIsTyped DEF Session
      <4>3. identity' = Filled(row, req[h].copy.state)
        BY <3>5, <4>1 DEF UpsertIdentity
      <4>4. /\ identity' \in Identity /\ identity'.located = row.located
            /\ \A f \in Fields : row.fields[f] # None \/ Writes(req[h].copy.state, f)
                                 => identity'.fields[f] # None
        BY <4>2, <4>3, FilledRow
      <4>5. Gains /\ identity' # None
        BY <4>1, <4>4, NoneIsNothing DEF Gains
      <4>6. PICK pc : pc = IF req[h].field = "summary" THEN "complete" ELSE "save"
        OBVIOUS
      <4>7. PICK r : r = [req[h] EXCEPT !.pc = pc]
        OBVIOUS
      <4>8. /\ r \in Request /\ req' = [req EXCEPT ![h] = r] /\ req'[h] = r
            /\ r.pc = pc /\ r.message = req[h].message
            /\ r.copy = req[h].copy /\ r.field = req[h].field
        <5>1. pc \in PC /\ req' = [req EXCEPT ![h].pc = pc]
          BY <3>5, <4>6 DEF UpsertIdentity, Goto, PC
        <5> QED
          BY <2>0, <3>0, <4>7, <5>1, Updates
      <4>9. Stored(r.copy.state)'
        BY <4>4, <4>5, <4>8 DEF Stored, Held
      <4>10. pc = "complete" => Held("summary")'
        BY <3>0, <3>5, <4>4, <4>5, <4>6, NoneIsNothing DEF UpsertIdentity, At, RequestOK, Held, Writes
      <4>11. RequestOK(h)'
        BY <3>0, <3>5, <4>6, <4>8, <4>9, <4>10 DEF RequestOK, Stored, UpsertIdentity, At
      <4> QED
        BY <2>0, <3>5, <4>4, <4>5, <4>8, <4>11, SlotStep DEF UpsertIdentity
    <3>6. CASE MarkCompleted(h)
      <4>1. PICK r : r = [req[h] EXCEPT !.pc = "delete"]
        OBVIOUS
      <4>2. /\ r \in Request /\ req' = [req EXCEPT ![h] = r] /\ req'[h] = r
            /\ r.pc = "delete" /\ r.message = req[h].message
            /\ r.copy = req[h].copy /\ r.field = req[h].field
        BY <2>0, <3>0, <3>6, <4>1, Updates DEF MarkCompleted, Goto, PC
      <4>3. RequestOK(h)'
        BY <3>0, <3>6, <4>2 DEF RequestOK, Stored, Held, MarkCompleted, At
      <4>4. CompletedIsEarned' /\ status' \in Status
        BY <3>0, <3>6 DEF MarkCompleted, CompletedIsEarned, Status, RequestOK, Held, At
      <4>5. Requests' /\ TypeOK' /\ RowHolds'
        BY <2>0, <2>a, <3>6, <4>2, <4>3, <4>4, SlotStep DEF MarkCompleted
      <4> QED
        BY <4>4, <4>5 DEF Inv
    <3>7. CASE DeleteSession(h)
      <4>1. Requests' /\ TypeOK' /\ RowHolds' /\ CompletedIsEarned'
        BY <2>0, <2>a, <3>7, SlotStep DEF DeleteSession, End
      <4> QED
        BY <4>1 DEF Inv
    <3>8. CASE Save(h)
      <4>1. Stored(req[h].copy.state)
        BY <3>0, <3>8 DEF RequestOK, Save, At
      <4>2. RowHolds'
        BY <3>8, <4>1 DEF RowHolds, Stored, Held, Save
      <4>3. Requests' /\ TypeOK' /\ CompletedIsEarned'
        BY <2>0, <2>a, <3>t, <3>8, SlotStep DEF Save, End
      <4> QED
        BY <4>2, <4>3 DEF Inv
    <3>9. CASE WriteLocation(h)
      <4>0. identity \in Identity
        BY <2>0, <3>0, <3>9 DEF WriteLocation, At, RequestOK
      <4>1. PICK r : r = [req[h] EXCEPT !.pc = "mark"]
        OBVIOUS
      <4>2. /\ r \in Request /\ req' = [req EXCEPT ![h] = r] /\ req'[h] = r
            /\ r.pc = "mark" /\ r.message = req[h].message
            /\ r.copy = req[h].copy /\ r.field = req[h].field
        BY <2>0, <3>0, <3>9, <4>1, Updates DEF WriteLocation, Goto, PC
      <4>3. /\ identity' \in Identity /\ identity'.located
            /\ identity'.fields = identity.fields
        BY <3>9, <4>0 DEF WriteLocation, Identity
      <4>4. Gains /\ identity' # None
        BY <4>3, NoneIsNothing DEF Gains
      <4>5. RequestOK(h)'
        BY <3>0, <3>9, <4>2, <4>3, <4>4 DEF RequestOK, Stored, Held, WriteLocation, At, Gains
      <4> QED
        BY <2>0, <3>9, <4>2, <4>3, <4>4, <4>5, SlotStep DEF WriteLocation
    <3>10. CASE MarkLocated(h)
      <4>1. CompletedIsEarned' /\ status' \in Status
        BY <3>0, <3>10 DEF MarkLocated, CompletedIsEarned, Status, RequestOK, At
      <4>2. Requests' /\ TypeOK' /\ RowHolds'
        BY <2>0, <2>a, <3>10, <4>1, SlotStep DEF MarkLocated, End
      <4> QED
        BY <4>1, <4>2 DEF Inv
    <3> QED
      BY <2>5, <3>1, <3>2, <3>3, <3>4, <3>5, <3>6, <3>7, <3>8, <3>9, <3>10 DEF Continue
  <2>6. ASSUME NEW h \in Handlers, NEW f \in Fields \cup {None}, Answer(h, f) PROVE Inv'
    <3>1. InFlight(h) /\ RequestOK(h) /\ req[h].pc = "model"
      BY <2>0, <2>6 DEF Answer, At
    <3>2. /\ req[h] \in Request /\ req[h].copy \in Session
          /\ req[h].message \in Messages /\ req[h].message \in asked
      BY <2>0, <3>1, Updates DEF RequestOK
    <3>3. PICK m : m = req[h].message
      OBVIOUS
    <3>4. PICK new : new = Extended(req[h].copy, m, f)
      OBVIOUS
    <3>5. /\ new \in Session
          /\ f \in Fields => new.state[f] = m
          /\ f = None => new.state = req[h].copy.state
      BY <3>2, <3>3, <3>4, ExtendedCopy
    <3>6. PICK pc : pc = IF f = None THEN "save" ELSE "upsert"
      OBVIOUS
    <3>7. PICK r : r = [req[h] EXCEPT !.copy = new, !.field = f, !.pc = pc]
      OBVIOUS
    <3>8. /\ r \in Request
          /\ r.pc = pc /\ r.message = m /\ r.copy = new /\ r.field = f
      <4>1. pc \in PC
        BY <3>6 DEF PC
      <4> QED
        BY <3>2, <3>3, <3>5, <3>7, <4>1 DEF Request
    <3>9. req' = [req EXCEPT ![h] = r]
      <4>1. req' = [req EXCEPT ![h].copy = new, ![h].field = f, ![h].pc = pc]
        BY <2>6, <3>3, <3>4, <3>6 DEF Answer
      <4>2. DOMAIN req' = Handlers /\ req' = [k \in Handlers |-> req'[k]]
        BY <2>0, <4>1
      <4>3. \A k \in Handlers : req'[k] = IF k = h THEN r ELSE req[k]
        BY <2>0, <3>2, <3>7, <4>1 DEF Request
      <4> QED
        BY <2>0, <4>2, <4>3
    <3>10. req'[h] = r
      BY <2>0, <3>9
    <3>11. pc # "upsert" => Stored(new.state)'
      BY <2>6, <3>1, <3>5, <3>6, NoneIsNothing DEF RequestOK, Stored, Held, Answer
    <3>12. RequestOK(h)'
      <4>1. pc = "upsert" => f \in Fields /\ new.state[f] # None
        <5>1. CASE f = None
          BY <3>6, <5>1
        <5>2. CASE f \in Fields
          BY <3>2, <3>3, <3>5, <5>2, NoneIsNothing
        <5> QED
          BY <5>1, <5>2
      <4>2. m \in asked' /\ m # None
        BY <2>6, <3>2, <3>3, NoneIsNothing DEF Answer
      <4>3. pc = "save" \/ pc = "upsert"
        BY <3>6
      <4> QED
        BY <3>8, <3>10, <3>11, <4>1, <4>2, <4>3 DEF RequestOK
    <3>13. said' \subseteq asked'
      BY <2>0, <2>6, <3>2 DEF Answer
    <3> QED
      BY <2>0, <2>6, <2>a, <3>8, <3>9, <3>12, <3>13, SlotStep DEF Answer
  <2>7. ASSUME NEW h \in Handlers, Fail(h) PROVE Inv'
    <3>1. InFlight(h) /\ RequestOK(h)
      BY <2>0, <2>7 DEF Fail
    <3>2. lost' \subseteq asked'
      BY <2>0, <2>7, <3>1 DEF Fail, RequestOK
    <3> QED
      BY <2>0, <2>7, <2>a, <3>2, SlotStep DEF Fail, End
  <2>8. CASE Expire
    BY <2>8 DEF Expire, Inv, TypeOK, Requests, InFlight, RequestOK, Stored, Held,
                CompletedIsEarned, RowHolds
  <2> QED
    BY <2>1, <2>2, <2>3, <2>4, <2>5, <2>6, <2>7, <2>8 DEF Next
<1> QED
  BY <1>1, <1>2, PTL DEF Spec

\* Whatever overlaps, fails or expires, every variable keeps its type.
THEOREM TypeCorrect == Spec => []TypeOK
BY InvHolds, PTL DEF Inv

\* A profile is COMPLETED only when its row holds the summary or a location:
\* upsertIdentity is awaited before the status is written, and nothing takes a
\* field back.
THEOREM CompletionIsEarned == Spec => []CompletedIsEarned
BY InvHolds, PTL DEF Inv

-----------------------------------------------------------------------------
(***************************************************************************)
(* The value of a field travels from the copy of a request to the row and  *)
(* then to the stored session.  While its message is in flight alone, all  *)
(* other copies are empty; when it ends, row and session both have it.     *)
(***************************************************************************)

\* Value v of field f is in the stored session, the row or a request's copy.
Occurs(v, f) ==
  \/ session # None /\ session.state[f] = v
  \/ identity # None /\ identity.fields[f] = v
  \/ \E h \in Handlers : InFlight(h) /\ req[h].copy.state[f] = v

\* The values of field f in sight that the row can take.
Values(f) == {v \in Messages : ~(f \in Numeric /\ v \in NoNumber) /\ Occurs(v, f)}

Consistent == \A f \in Fields : \A v, w \in Values(f) : v = w \/ v \in Loose \/ w \in Loose

\* The message of h has overlapped no other.
Single(h) == InFlight(h) /\ req[h].message \notin mixed \cup {None}

\* The answer is to come, or held no data.
Empty(h) == \/ req[h].pc \in {"load", "create", "row", "progress", "model"}
            \/ req[h].pc = "save" /\ req[h].field = None

SingleOK(h) ==
  /\ Empty(h) => \A f \in Fields : req[h].message \notin Values(f)
  /\ req[h].pc \in {"complete", "delete", "save"} /\ req[h].field # None =>
       \A f \in Fields : Writes(req[h].copy.state, f) =>
                           identity # None /\ identity.fields[f] = req[h].copy.state[f]

Settled ==
  /\ Consistent
  /\ \A f \in Fields : Values(f) \subseteq asked
  /\ \A h \in Handlers : InFlight(h) /\ req[h].message = None =>
                           \A f \in Fields : req[h].copy.state[f] = None
  /\ \A h \in Handlers : Single(h) =>
       /\ SingleOK(h)
       /\ \A k \in Handlers \ {h} : InFlight(k) => req[k].message = None

\* A step of h brings no value but those in new into sight.
LEMMA NewValues ==
  ASSUME req \in [Handlers -> Request \cup {None}], NEW h \in Handlers,
         NEW r \in Request \cup {None}, req' = [req EXCEPT ![h] = r],
         NEW f \in Fields, NEW new,
         session' # None => session'.state[f] \in new \cup {None} \/ Occurs(session'.state[f], f),
         identity' # None => identity'.fields[f] \in new \cup {None} \/ Occurs(identity'.fields[f], f),
         r # None => r.copy.state[f] \in new \cup {None} \/ Occurs(r.copy.state[f], f)
  PROVE  Values(f)' \subseteq Values(f) \cup new
<1> SUFFICES ASSUME NEW v \in Messages, Occurs(v, f)', v \notin new PROVE Occurs(v, f)
  BY DEF Values
<1>0. v # None
  BY NoneIsNothing
<1>1. CASE session' # None /\ session'.state[f] = v
  BY <1>0, <1>1
<1>2. CASE identity' # None /\ identity'.fields[f] = v
  BY <1>0, <1>2
<1>3. ASSUME NEW k \in Handlers, InFlight(k)', (req[k].copy.state[f] = v)'
      PROVE  Occurs(v, f)
  <2>1. CASE k = h
    <3>1. req'[k] = r
      BY <2>1
    <3>2. r # None /\ r.copy.state[f] = v
      BY <1>3, <3>1 DEF InFlight
    <3> QED
      BY <1>0, <3>2
  <2>2. CASE k # h
    <3>1. req'[k] = req[k]
      BY <2>2
    <3> QED
      BY <1>3, <3>1 DEF InFlight, Occurs
  <2> QED
    BY <2>1, <2>2
<1> QED
  BY <1>1, <1>2, <1>3 DEF Occurs

\* Values may come into sight while they are loose, and none becomes firm.
LEMMA StillConsistent ==
  ASSUME Consistent, Loose \subseteq Loose',
         \A f \in Fields : Values(f)' \subseteq Values(f) \cup Loose'
  PROVE  Consistent'
<1> SUFFICES ASSUME NEW f \in Fields, NEW v \in Values(f)', NEW w \in Values(f)'
             PROVE  v = w \/ v \in Loose' \/ w \in Loose'
  BY DEF Consistent
<1>1. v \in Values(f) \/ v \in Loose'
  OBVIOUS
<1>2. w \in Values(f) \/ w \in Loose'
  OBVIOUS
<1> QED
  BY <1>1, <1>2 DEF Consistent

\* A step of a request with a message: no other request is single.
LEMMA MessageStep ==
  ASSUME Settled, NEW h \in Handlers, NEW r \in Request \cup {None},
         req \in [Handlers -> Request \cup {None}], req' = [req EXCEPT ![h] = r],
         InFlight(h), req[h].message # None, r # None => r.message = req[h].message,
         mixed' = mixed, Consistent', \A f \in Fields : Values(f)' \subseteq asked',
         Single(h) /\ r # None => SingleOK(h)'
  PROVE  Settled'
<1>1. /\ req'[h] = r
      /\ \A k \in Handlers \ {h} : req'[k] = req[k] /\ (InFlight(k)' <=> InFlight(k))
  BY DEF InFlight
<1>2. \A k \in Handlers : InFlight(k)' /\ (req[k].message = None)' =>
                            \A f \in Fields : (req[k].copy.state[f] = None)'
  BY <1>1 DEF Settled, InFlight
<1>3. ASSUME NEW k \in Handlers, Single(k)'
      PROVE  /\ SingleOK(k)'
             /\ \A j \in Handlers \ {k} : InFlight(j)' => (req[j].message = None)'
  <2>1. k = h
    <3>1. SUFFICES ASSUME k # h PROVE FALSE
      OBVIOUS
    <3>2. Single(k)
      BY <1>1, <1>3, <3>1 DEF Single
    <3> QED
      BY <3>1, <3>2 DEF Settled
  <2>2. r # None /\ Single(h)
    BY <1>1, <1>3, <2>1 DEF Single, InFlight
  <2>3. \A j \in Handlers \ {h} : InFlight(j) => req[j].message = None
    BY <2>2 DEF Settled
  <2>4. SingleOK(h)'
    BY <2>2
  <2> QED
    BY <1>1, <2>1, <2>3, <2>4
<1> QED
  BY <1>2, <1>3 DEF Settled

\* A step of a request for the location touches no field.
LEMMA LocationStep ==
  ASSUME Settled, NEW h \in Handlers, NEW r \in Request \cup {None},
         req \in [Handlers -> Request \cup {None}], req' = [req EXCEPT ![h] = r],
         InFlight(h) => req[h].message = None,
         r # None => r.message = None /\ \A f \in Fields : r.copy.state[f] = None,
         session' = session, asked' = asked, mixed' = mixed, lost' = lost,
         identity' # None <=> identity # None,
         identity # None => identity'.fields = identity.fields
  PROVE  Settled'
<1>1. /\ req'[h] = r
      /\ \A k \in Handlers \ {h} : req'[k] = req[k] /\ (InFlight(k)' <=> InFlight(k))
  BY DEF InFlight
<1>2. Loose' = Loose
  BY <1>1 DEF Loose, Pending, InFlight
<1>3. \A f \in Fields : Values(f)' \subseteq Values(f)
  <2> SUFFICES ASSUME NEW f \in Fields PROVE Values(f)' \subseteq Values(f) \cup {}
    OBVIOUS
  <2> QED
    BY NewValues DEF Occurs
<1>4. Consistent' /\ \A f \in Fields : Values(f)' \subseteq asked'
  BY <1>2, <1>3, StillConsistent DEF Settled
<1>5. \A k \in Handlers : InFlight(k)' /\ (req[k].message = None)' =>
                            \A f \in Fields : (req[k].copy.state[f] = None)'
  BY <1>1 DEF Settled, InFlight
<1>6. ASSUME NEW k \in Handlers, Single(k)'
      PROVE  /\ SingleOK(k)'
             /\ \A j \in Handlers \ {k} : InFlight(j)' => (req[j].message = None)'
  <2>1. k # h
    BY <1>1, <1>6 DEF Single, InFlight
  <2>2. Single(k) /\ req'[k] = req[k]
    BY <1>1, <1>6, <2>1 DEF Single
  <2>3. SingleOK(k) /\ \A j \in Handlers \ {k} : InFlight(j) => req[j].message = None
    BY <2>2 DEF Settled
  <2>4. SingleOK(k)'
    BY <1>3, <2>2, <2>3 DEF SingleOK, Empty
  <2>5. \A j \in Handlers \ {k} : InFlight(j)' => (req[j].message = None)'
    BY <1>1, <2>3 DEF InFlight
  <2> QED
    BY <2>4, <2>5
<1> QED
  BY <1>4, <1>5, <1>6 DEF Settled

\* A new message overlaps whatever is in flight; its value is nowhere yet.
LEMMA FirstStep ==
  ASSUME Inv, Settled, NEW h \in Handlers, NEW m \in Messages, NEW r \in Request,
         req' = [req EXCEPT ![h] = r], ~InFlight(h), m \notin asked, Ask(m),
         r.message = m, r.pc \in {"load", "create", "model"},
         r.copy = NewSession \/ (session # None /\ r.copy = session),
         session' = session, identity' = identity, lost' = lost
  PROVE  Settled'
<1>0. req \in [Handlers -> Request \cup {None}] /\ m # None
  BY NoneIsNothing DEF Inv, TypeOK
<1>1. /\ req'[h] = r /\ InFlight(h)'
      /\ \A k \in Handlers \ {h} : req'[k] = req[k] /\ (InFlight(k)' <=> InFlight(k))
  BY <1>0, NoneIsNothing DEF InFlight
<1>2. Pending' = Pending \cup {m}
  BY <1>0, <1>1 DEF Pending
<1>3. Loose \subseteq Loose' /\ asked \subseteq asked'
  BY <1>2 DEF Loose, Ask
<1>4. \A f \in Fields : Values(f)' \subseteq Values(f)
  <2> SUFFICES ASSUME NEW f \in Fields PROVE Values(f)' \subseteq Values(f) \cup {}
    OBVIOUS
  <2>1. r.copy.state[f] = None \/ Occurs(r.copy.state[f], f)
    BY NewIsTyped DEF Occurs
  <2> QED
    BY <1>0, <2>1, NewValues DEF Occurs
<1>5. Consistent' /\ \A f \in Fields : Values(f)' \subseteq asked'
  BY <1>3, <1>4, StillConsistent DEF Settled
<1>6. \A k \in Handlers : InFlight(k)' /\ (req[k].message = None)' =>
                            \A f \in Fields : (req[k].copy.state[f] = None)'
  BY <1>0, <1>1 DEF Settled
<1>7. ASSUME NEW k \in Handlers, Single(k)'
      PROVE  /\ SingleOK(k)'
             /\ \A j \in Handlers \ {k} : InFlight(j)' => (req[j].message = None)'
  <2>1. Pending = {}
    <3>1. SUFFICES ASSUME Pending # {} PROVE FALSE
      OBVIOUS
    <3>2. mixed' = mixed \cup Pending \cup {m}
      BY <3>1 DEF Ask
    <3>3. req'[k].message \in Pending'
      BY <1>7 DEF Single, Pending
    <3> QED
      BY <1>2, <1>7, <3>2, <3>3 DEF Single
  <2>2. \A j \in Handlers : InFlight(j) => req[j].message = None
    BY <2>1 DEF Pending
  <2>3. k = h
    BY <1>1, <1>7, <2>2 DEF Single
  <2>4. \A f \in Fields : m \notin Values(f)'
    BY <1>4 DEF Settled
  <2>5. SingleOK(h)'
    BY <1>1, <2>4 DEF SingleOK, Empty
  <2> QED
    BY <1>1, <2>2, <2>3, <2>5
<1> QED
  BY <1>5, <1>6, <1>7 DEF Settled

LEMMA SettledStep == Inv /\ Inv' /\ Settled /\ [Next]_vars => Settled'
<1> SUFFICES ASSUME Inv, Inv', Settled, [Next]_vars PROVE Settled'
  OBVIOUS
<1>0. /\ req \in [Handlers -> Request \cup {None}]
      /\ session \in Session \cup {None} /\ identity \in Identity \cup {None}
      /\ identity' \in Identity \cup {None}
      /\ \A h \in Handlers : InFlight(h) => RequestOK(h)
  BY DEF Inv, TypeOK, Requests
<1>a. \A m \in Messages : Loaded(m) \in Request
  BY <1>0, NewIsTyped DEF Loaded, NewRequest, Request, PC
<1>1. CASE UNCHANGED vars
  BY <1>1 DEF vars, Settled, Consistent, Values, Occurs, Loose, Pending, Single,
              SingleOK, Empty, InFlight, Writes
<1>2. ASSUME NEW h \in Handlers, NEW m \in Messages, Message(h, m) PROVE Settled'
  <2>1. PICK r : r = Loaded(m)
    OBVIOUS
  <2>2. /\ r \in Request /\ r.message = m /\ r.pc \in {"load", "create", "model"}
        /\ r.copy = NewSession \/ (session # None /\ r.copy = session)
    BY <1>a, <2>1 DEF Loaded, NewRequest
  <2>3. req' = [req EXCEPT ![h] = r]
    BY <1>2, <2>1 DEF Message
  <2> QED
    BY <1>2, <2>2, <2>3, FirstStep DEF Message
<1>3. ASSUME NEW h \in Handlers, NEW m \in Messages, Join(h, m) PROVE Settled'
  <2>1. PICK r : r = NewRequest("load", m, NewSession)
    OBVIOUS
  <2>2. /\ r \in Request /\ r.message = m /\ r.pc \in {"load", "create", "model"}
        /\ r.copy = NewSession
    BY <2>1, NewIsTyped DEF NewRequest, Request, PC
  <2>3. req' = [req EXCEPT ![h] = r]
    BY <1>3, <2>1 DEF Join
  <2> QED
    BY <1>3, <2>2, <2>3, FirstStep DEF Join
<1>4. ASSUME NEW h \in Handlers, FindIdentity(h) PROVE Settled'
  <2>1. PICK r : r = NewRequest("locate", None, NewSession)
    OBVIOUS
  <2>2. r \in Request /\ r.message = None /\ \A f \in Fields : r.copy.state[f] = None
    BY <2>1, NewIsTyped DEF NewRequest, Request, PC
  <2>3. req' = [req EXCEPT ![h] = r]
    BY <1>4, <2>1 DEF FindIdentity
  <2> QED
    BY <1>0, <1>4, <2>2, <2>3, LocationStep DEF FindIdentity
\* A request with a message moves on: its slot keeps the message.
<1>m. ASSUME NEW h \in Handlers, InFlight(h), req[h].message # None,
             NEW r \in Request, r.message = req[h].message, req' = [req EXCEPT ![h] = r]
      PROVE  Pending' = Pending
  <2>1. req'[h] = r /\ InFlight(h)'
    BY <1>0, <1>m, NoneIsNothing DEF InFlight
  <2>2. \A k \in Handlers \ {h} : req'[k] = req[k] /\ (InFlight(k)' <=> InFlight(k))
    BY <1>0, <1>m DEF InFlight
  <2> QED
    BY <1>m, <2>1, <2>2 DEF Pending
\* It moves on without new values, and none of what it relies on is lost.
<1>n. ASSUME NEW h \in Handlers, InFlight(h), req[h].message # None,
             NEW r \in Request, r.message = req[h].message, req' = [req EXCEPT ![h] = r],
             mixed' = mixed, lost' = lost, asked' = asked,
             \A f \in Fields : r.copy.state[f] = None \/ Occurs(r.copy.state[f], f),
             \A f \in Fields : session' # None =>
               session'.state[f] = None \/ Occurs(session'.state[f], f),
             \A f \in Fields : identity' # None =>
               identity'.fields[f] = None \/ Occurs(identity'.fields[f], f),
             r.pc \in {"load", "create", "row", "progress", "model"} => Empty(h),
             r.pc \in {"complete", "delete", "save"} /\ r.field # None /\ Single(h) =>
               \A f \in Fields : Writes(r.copy.state, f) =>
                 identity' # None /\ identity'.fields[f] = r.copy.state[f],
             r.pc = "save" => r.field # None
      PROVE  Settled'
  <2>1. Loose' = Loose
    BY <1>m, <1>n DEF Loose
  <2>2. \A f \in Fields : Values(f)' \subseteq Values(f)
    <3> SUFFICES ASSUME NEW f \in Fields PROVE Values(f)' \subseteq Values(f) \cup {}
      OBVIOUS
    <3> QED
      BY <1>0, <1>n, NewValues
  <2>3. Consistent' /\ \A f \in Fields : Values(f)' \subseteq asked'
    BY <1>n, <2>1, <2>2, StillConsistent DEF Settled
  <2>4. req'[h] = r
    BY <1>0, <1>n
  <2>5. ASSUME Single(h) PROVE SingleOK(h)'
    <3>1. Empty(h)' => Empty(h)
      BY <1>n, <2>4 DEF Empty
    <3>2. Empty(h) => \A f \in Fields : req[h].message \notin Values(f)
      BY <2>5 DEF Settled, SingleOK
    <3>3. Empty(h)' => \A f \in Fields : (req[h].message)' \notin Values(f)'
      BY <1>n, <2>2, <2>4, <3>1, <3>2
    <3> QED
      BY <1>n, <2>4, <2>5, <3>3 DEF SingleOK, Writes
  <2> QED
    BY <1>0, <1>n, <2>3, <2>5, MessageStep
<1>5. ASSUME NEW h \in Handlers, Continue(h) PROVE Settled'
  <2>1. InFlight(h) /\ RequestOK(h)
    BY <1>0, <1>5 DEF Continue, At, Load, CreateSession, EnsureRow, MarkInProgress,
       UpsertIdentity, MarkCompleted, DeleteSession, Save, WriteLocation, MarkLocated
  <2>2. /\ req[h] \in Request /\ req[h].message \in Messages \cup {None}
        /\ req[h].copy \in Session /\ req[h].pc \in PC /\ req[h].field \in Fields \cup {None}
    BY <1>0, <2>1, Updates
  <2>m. ASSUME NEW pc \in PC, Goto(h, pc)
        PROVE  \E r \in Request :
                 /\ req' = [req EXCEPT ![h] = r] /\ r.message = req[h].message
                 /\ r.pc = pc /\ r.copy = req[h].copy /\ r.field = req[h].field
    <3>1. PICK r : r = [req[h] EXCEPT !.pc = pc]
      OBVIOUS
    <3>2. /\ r \in Request /\ req' = [req EXCEPT ![h] = r] /\ r.message = req[h].message
          /\ r.pc = pc /\ r.copy = req[h].copy /\ r.field = req[h].field
      BY <1>0, <2>1, <2>m, <3>1, Updates DEF Goto
    <3> QED
      BY <3>2
  \* What is in sight may be copied.
  <2>s. \A f \in Fields :
          /\ session # None => Occurs(session.state[f], f)
          /\ identity # None => Occurs(identity.fields[f], f)
          /\ Occurs(req[h].copy.state[f], f)
    BY <2>1 DEF Occurs
  <2>3. CASE Load(h)
    <3>1. req[h].message \in Messages
      BY <2>1, <2>2, <2>3 DEF Load, At, RequestOK
    <3>2. PICK r : r = Loaded(req[h].message)
      OBVIOUS
    <3>3. /\ r \in Request /\ r.message = req[h].message /\ r.pc \in {"create", "model"}
          /\ r.copy = NewSession \/ (session # None /\ r.copy = session)
      BY <1>a, <3>1, <3>2 DEF Loaded, NewRequest
    <3>4. req' = [req EXCEPT ![h] = r] /\ Empty(h)
      BY <2>3, <3>2 DEF Load, At, Empty
    <3>5. \A f \in Fields : r.copy.state[f] = None \/ Occurs(r.copy.state[f], f)
      BY <2>s, <3>3, NewIsTyped
    <3> QED
      BY <1>n, <2>1, <2>3, <2>s, <3>1, <3>3, <3>4, <3>5, NoneIsNothing DEF Load
  <2>4. CASE CreateSession(h)
    <3>1. Goto(h, "row") /\ "row" \in PC
      BY <2>4 DEF CreateSession, PC
    <3>2. PICK r \in Request : /\ req' = [req EXCEPT ![h] = r] /\ r.message = req[h].message
                               /\ r.pc = "row" /\ r.copy = req[h].copy /\ r.field = req[h].field
      BY <2>m, <3>1
    <3>3. req[h].message # None /\ Empty(h)
      BY <2>1, <2>4 DEF CreateSession, At, RequestOK, Empty
    <3>4. \A f \in Fields : session'.state[f] = None
      BY <2>4, NewIsTyped DEF CreateSession
    <3> QED
      BY <1>n, <2>1, <2>4, <2>s, <3>2, <3>3, <3>4 DEF CreateSession
  <2>5. CASE EnsureRow(h)
    <3>1. Goto(h, "progress") /\ "progress" \in PC
      BY <2>5 DEF EnsureRow, PC
    <3>2. PICK r \in Request : /\ req' = [req EXCEPT ![h] = r] /\ r.message = req[h].message
                               /\ r.pc = "progress" /\ r.copy = req[h].copy
                               /\ r.field = req[h].field
      BY <2>m, <3>1
    <3>3. req[h].message # None /\ Empty(h)
      BY <2>1, <2>5 DEF EnsureRow, At, RequestOK, Empty
    <3>4. \A f \in Fields : identity'.fields[f] = None \/ Occurs(identity'.fields[f], f)
      BY <2>5, <2>s DEF EnsureRow, NewIdentity, NoState
    <3> QED
      BY <1>n, <2>1, <2>5, <2>s, <3>2, <3>3, <3>4 DEF EnsureRow
  <2>6. CASE MarkInProgress(h)
    <3>1. Goto(h, "model") /\ "model" \in PC
      BY <2>6 DEF MarkInProgress, PC
    <3>2. PICK r \in Request : /\ req' = [req EXCEPT ![h] = r] /\ r.message = req[h].message
                               /\ r.pc = "model" /\ r.copy = req[h].copy
                               /\ r.field = req[h].field
      BY <2>m, <3>1
    <3>3. req[h].message # None /\ Empty(h)
      BY <2>1, <2>6 DEF MarkInProgress, At, RequestOK, Empty
    <3> QED
      BY <1>n, <2>1, <2>6, <2>s, <3>2, <3>3 DEF MarkInProgress
  <2>7. CASE UpsertIdentity(h)
    <3>1. PICK pc : pc = IF req[h].field = "summary" THEN "complete" ELSE "save"
      OBVIOUS
    <3>2. Goto(h, pc) /\ pc \in PC /\ pc \in {"complete", "save"}
      BY <2>7, <3>1 DEF UpsertIdentity, PC
    <3>3. PICK r \in Request : /\ req' = [req EXCEPT ![h] = r] /\ r.message = req[h].message
                               /\ r.pc = pc /\ r.copy = req[h].copy /\ r.field = req[h].field
      BY <2>m, <3>2
    <3>4. PICK row : row = IF identity = None THEN NewIdentity ELSE identity
      OBVIOUS
    <3>5. row \in Identity /\ req[h].copy.state \in IdentityState
      BY <1>0, <2>2, <3>4, NewIsTyped DEF Session
    <3>6. identity' = Filled(row, req[h].copy.state)
      BY <2>7, <3>4 DEF UpsertIdentity
    <3>7. /\ identity' # None
          /\ \A f \in Fields : Writes(req[h].copy.state, f) =>
                                 identity'.fields[f] = req[h].copy.state[f]
      BY <3>5, <3>6, FilledRow, NoneIsNothing
    <3>8. \A f \in Fields : identity'.fields[f] = IF Writes(req[h].copy.state, f)
                                                  THEN req[h].copy.state[f] ELSE row.fields[f]
      BY <3>5, <3>6 DEF Filled, Identity
    <3>9. \A f \in Fields : identity'.fields[f] = None \/ Occurs(identity'.fields[f], f)
      BY <2>s, <3>4, <3>8 DEF NewIdentity, NoState
    <3>10. req[h].message # None /\ req[h].field # None
      BY <2>1, <2>7, NoneIsNothing DEF UpsertIdentity, At, RequestOK
    <3> QED
      BY <1>n, <2>1, <2>7, <2>s, <3>2, <3>3, <3>7, <3>9, <3>10 DEF UpsertIdentity
  <2>8. CASE MarkCompleted(h)
    <3>1. Goto(h, "delete") /\ "delete" \in PC
      BY <2>8 DEF MarkCompleted, PC
    <3>2. PICK r \in Request : /\ req' = [req EXCEPT ![h] = r] /\ r.message = req[h].message
                               /\ r.pc = "delete" /\ r.copy = req[h].copy
                               /\ r.field = req[h].field
      BY <2>m, <3>1
    <3>3. req[h].message # None
      BY <2>1, <2>8 DEF MarkCompleted, At, RequestOK
    <3>4. Single(h) /\ r.field # None =>
            \A f \in Fields : Writes(r.copy.state, f) =>
              identity' # None /\ identity'.fields[f] = r.copy.state[f]
      BY <2>8, <3>2 DEF MarkCompleted, At, Settled, SingleOK
    <3> QED
      BY <1>n, <2>1, <2>8, <2>s, <3>2, <3>3, <3>4 DEF MarkCompleted
  \* The end of a request that has overlapped another, or was counted as lost.
  <2>e. ASSUME req' = [req EXCEPT ![h] = None], req[h].message # None,
               mixed' = mixed, lost' = lost, asked' = asked,
               session' = None \/ session' = req[h].copy, identity' = identity
        PROVE  /\ \A f \in Fields : Values(f)' \subseteq Values(f)
               /\ Loose \ {req[h].message} \subseteq Loose'
               /\ ~Single(h) => Settled'
               /\ Consistent' => Settled'
    <3>1. \A f \in Fields : Values(f)' \subseteq Values(f)
      <4> SUFFICES ASSUME NEW f \in Fields PROVE Values(f)' \subseteq Values(f) \cup {}
        OBVIOUS
      <4> QED
        BY <1>0, <2>e, <2>s, NewValues
    <3>2. \A k \in Handlers \ {h} : req'[k] = req[k] /\ (InFlight(k)' <=> InFlight(k))
      BY <1>0, <2>e DEF InFlight
    <3>3. Loose \ {req[h].message} \subseteq Loose'
      BY <2>e, <3>2 DEF Loose, Pending
    <3>4. \A f \in Fields : Values(f)' \subseteq asked'
      BY <2>e, <3>1 DEF Settled
    <3>5. Consistent' => Settled'
      BY <1>0, <2>1, <2>e, <3>4, MessageStep
    <3>6. ASSUME ~Single(h) PROVE Consistent'
      <4>1. req[h].message \in mixed
        BY <2>1, <2>e, <3>6 DEF Single
      <4>2. Loose \subseteq Loose'
        BY <2>e, <3>3, <4>1 DEF Loose
      <4> QED
        BY <3>1, <4>2, StillConsistent DEF Settled
    <3> QED
      BY <3>1, <3>3, <3>5, <3>6
  \* Nothing but the row and the stored session is left of a message that ran alone.
  <2>o. ASSUME req' = [req EXCEPT ![h] = None], Single(h),
               NEW f \in Fields, NEW v \in Values(f)'
        PROVE  \/ session' # None /\ session'.state[f] = v
               \/ identity' # None /\ identity'.fields[f] = v
    <3>1. v # None
      BY <2>o, NoneIsNothing DEF Values
    <3>2. ASSUME NEW k \in Handlers, InFlight(k)' PROVE (req[k].copy.state[f] = None)'
      <4>1. k # h
        BY <1>0, <2>o, <3>2 DEF InFlight
      <4>2. req'[k] = req[k] /\ InFlight(k)
        BY <1>0, <2>o, <3>2, <4>1 DEF InFlight
      <4>3. req[k].message = None
        BY <2>o, <4>1, <4>2 DEF Settled
      <4> QED
        BY <4>2, <4>3 DEF Settled
    <3>3. Occurs(v, f)'
      BY <2>o DEF Values
    <3> QED
      BY <3>1, <3>2, <3>3 DEF Occurs
  <2>9. CASE DeleteSession(h)
    <3>1. /\ req' = [req EXCEPT ![h] = None] /\ req[h].message # None /\ session' = None
          /\ UNCHANGED <<identity, mixed, lost, asked>>
      BY <2>1, <2>9 DEF DeleteSession, At, RequestOK, End
    <3>2. CASE Single(h)
      <4>1. \A f \in Fields : \A v \in Values(f)' : identity'.fields[f] = v
        BY <2>o, <3>1, <3>2
      <4> QED
        BY <2>e, <3>1, <4>1 DEF Consistent
    <3> QED
      BY <2>e, <3>1, <3>2
  <2>10. CASE Save(h)
    <3>1. /\ req' = [req EXCEPT ![h] = None] /\ req[h].message # None /\ req[h].pc = "save"
          /\ session' = req[h].copy /\ UNCHANGED <<identity, mixed, lost, asked>>
      BY <2>1, <2>10 DEF Save, At, RequestOK, End
    <3>2. CASE Single(h) /\ req[h].field = None
      <4>1. \A f \in Fields : req[h].message \notin Values(f)
        BY <3>1, <3>2 DEF Settled, SingleOK, Empty
      <4>2. \A f \in Fields : Values(f)' \subseteq Values(f)
        BY <2>e, <3>1
      <4>3. Loose \ {req[h].message} \subseteq Loose'
        BY <2>e, <3>1
      <4>4. Consistent'
        BY <4>1, <4>2, <4>3 DEF Consistent, Settled
      <4> QED
        BY <2>e, <3>1, <4>4
    <3>3. CASE Single(h) /\ req[h].field # None
      <4>1. \A f \in Fields : Writes(req[h].copy.state, f) =>
              identity # None /\ identity.fields[f] = req[h].copy.state[f]
        BY <3>1, <3>3 DEF Settled, SingleOK
      <4>2. \A f \in Fields : \A v \in Values(f)' : identity'.fields[f] = v
        <5> SUFFICES ASSUME NEW f \in Fields, NEW v \in Values(f)'
                     PROVE  identity'.fields[f] = v
          OBVIOUS
        <5>1. v # None /\ ~(f \in Numeric /\ v \in NoNumber)
          BY NoneIsNothing DEF Values
        <5>2. CASE session'.state[f] = v
          BY <3>1, <4>1, <5>1, <5>2 DEF Writes
        <5> QED
          BY <2>o, <3>1, <3>3, <5>2
      <4> QED
        BY <2>e, <3>1, <4>2 DEF Consistent
    <3> QED
      BY <2>e, <3>1, <3>2, <3>3
  <2>11. CASE WriteLocation(h)
    <3>1. Goto(h, "mark") /\ "mark" \in PC
      BY <2>11 DEF WriteLocation, PC
    <3>2. PICK r \in Request : /\ req' = [req EXCEPT ![h] = r] /\ r.message = req[h].message
                               /\ r.pc = "mark" /\ r.copy = req[h].copy
                               /\ r.field = req[h].field
      BY <2>m, <3>1
    <3>3. req[h].message = None /\ identity \in Identity
      BY <1>0, <2>1, <2>11 DEF WriteLocation, At, RequestOK
    <3>4. identity' \in Identity /\ identity'.fields = identity.fields
      BY <2>11, <3>3 DEF WriteLocation, Identity
    <3>5. \A f \in Fields : r.copy.state[f] = None
      BY <2>1, <3>2, <3>3 DEF Settled
    <3> QED
      BY <1>0, <2>11, <3>2, <3>3, <3>4, <3>5, LocationStep, NoneIsNothing DEF WriteLocation
  <2>12. CASE MarkLocated(h)
    <3>1. req[h].message = None
      BY <2>1, <2>12 DEF MarkLocated, At, RequestOK
    <3> QED
      BY <1>0, <2>12, <3>1, LocationStep DEF MarkLocated, End
  <2> QED
    BY <1>5, <2>3, <2>4, <2>5, <2>6, <2>7, <2>8, <2>9, <2>10, <2>11, <2>12 DEF Continue
<1>6. ASSUME NEW h \in Handlers, NEW f \in Fields \cup {None}, Answer(h, f) PROVE Settled'
  <2>1. InFlight(h) /\ RequestOK(h) /\ req[h].pc = "model"
    BY <1>0, <1>6 DEF Answer, At
  <2>2. req[h] \in Request /\ req[h].copy \in Session /\ req[h].message \in Messages
    BY <1>0, <2>1, Updates DEF RequestOK
  <2>3. PICK m : m = req[h].message
    OBVIOUS
  <2>4. PICK new : new = Extended(req[h].copy, m, f)
    OBVIOUS
  <2>5. /\ new \in Session
        /\ f = None => new.state = req[h].copy.state
    BY <2>2, <2>3, <2>4, ExtendedCopy
  <2>6. PICK pc : pc = IF f = None THEN "save" ELSE "upsert"
    OBVIOUS
  <2>7. PICK r : r = [req[h] EXCEPT !.copy = new, !.field = f, !.pc = pc]
    OBVIOUS
  <2>8. /\ r \in Request /\ r.pc = pc /\ r.copy = new
        /\ r.field = f /\ r.message = req[h].message
    <3>1. pc \in PC /\ new \in Session
      BY <2>2, <2>3, <2>4, <2>6, ExtendedCopy DEF PC
    <3> QED
      BY <2>2, <2>7, <3>1 DEF Request
  <2>9. req' = [req EXCEPT ![h] = r]
    <3>1. req' = [req EXCEPT ![h].copy = new, ![h].field = f, ![h].pc = pc]
      BY <1>6, <2>3, <2>4, <2>6 DEF Answer
    <3>2. DOMAIN req' = Handlers /\ req' = [k \in Handlers |-> req'[k]]
      BY <1>0, <3>1
    <3>3. \A k \in Handlers : req'[k] = IF k = h THEN r ELSE req[k]
      BY <1>0, <2>2, <2>7, <3>1 DEF Request
    <3> QED
      BY <1>0, <3>2, <3>3
  <2>10. m # None /\ m \in asked
    BY <2>1, <2>2, <2>3, NoneIsNothing DEF RequestOK
  <2>11. Pending' = Pending /\ m \in Pending
    <3>1. Pending' = Pending
      BY <1>m, <2>1, <2>3, <2>8, <2>9, <2>10
    <3>2. m \in Pending
      BY <2>1, <2>3, <2>10 DEF Pending
    <3> QED
      BY <3>1, <3>2
  <2>12. Loose' = Loose /\ m \in Loose'
    BY <1>6, <2>11 DEF Loose, Answer
  <2>s. \A g \in Fields :
          /\ session # None => Occurs(session.state[g], g)
          /\ identity # None => Occurs(identity.fields[g], g)
          /\ Occurs(req[h].copy.state[g], g)
    BY <2>1 DEF Occurs
  <2>13. \A g \in Fields : Values(g)' \subseteq Values(g) \cup {m}
    <3> SUFFICES ASSUME NEW g \in Fields PROVE Values(g)' \subseteq Values(g) \cup {m}
      OBVIOUS
    <3>0. new.state[g] = IF g = f THEN m ELSE req[h].copy.state[g]
      BY <2>4 DEF Extended
    <3>1. r.copy.state[g] = m \/ Occurs(r.copy.state[g], g)
      BY <2>8, <2>s, <3>0
    <3>2. /\ session' # None => Occurs(session'.state[g], g)
          /\ identity' # None => Occurs(identity'.fields[g], g)
      BY <1>6, <2>s DEF Answer
    <3>3. PICK extra : extra = {m}
      OBVIOUS
    <3>4. r.copy.state[g] \in extra \cup {None} \/ Occurs(r.copy.state[g], g)
      BY <3>1, <3>3
    <3>5. Values(g)' \subseteq Values(g) \cup extra
      BY <1>0, <2>8, <2>9, <3>2, <3>4, NewValues
    <3> QED
      BY <3>3, <3>5
  <2>14. Consistent' /\ \A g \in Fields : Values(g)' \subseteq asked'
    BY <1>6, <2>10, <2>12, <2>13, StillConsistent DEF Settled, Answer
  <2>15. ASSUME Single(h) PROVE SingleOK(h)'
    <3>1. req'[h] = r
      BY <1>0, <2>9
    <3>2. CASE f = None
      <4>1. \A g \in Fields : m \notin Values(g)
        BY <2>1, <2>3, <2>15 DEF Settled, SingleOK, Empty
      <4>2. \A g \in Fields : Occurs(r.copy.state[g], g)
        BY <2>5, <2>8, <2>s, <3>2
      <4>3. \A g \in Fields : Values(g)' \subseteq Values(g)
        <5> SUFFICES ASSUME NEW g \in Fields PROVE Values(g)' \subseteq Values(g) \cup {}
          OBVIOUS
        <5> QED
          BY <1>0, <1>6, <2>8, <2>9, <2>s, <4>2, NewValues DEF Answer
      <4> QED
        BY <2>3, <2>8, <3>1, <3>2, <4>1, <4>3 DEF SingleOK
    <3>3. CASE f \in Fields
      <4>1. r.pc = "upsert"
        BY <2>6, <2>8, <3>3, NoneIsNothing
      <4> QED
        BY <3>1, <4>1 DEF SingleOK, Empty
    <3> QED
      BY <3>2, <3>3
  <2> QED
    BY <1>0, <1>6, <2>1, <2>3, <2>8, <2>9, <2>10, <2>14, <2>15, MessageStep DEF Answer
\* What a request that throws has brought stays loose.
<1>7. ASSUME NEW h \in Handlers, Fail(h) PROVE Settled'
  <2>1. InFlight(h) /\ RequestOK(h) /\ req[h].message \in Messages \cup {None}
    BY <1>0, <1>7, Updates DEF Fail
  <2>2. req' = [req EXCEPT ![h] = None]
    BY <1>7 DEF Fail, End
  <2>3. CASE req[h].message = None
    BY <1>0, <1>7, <2>2, <2>3, LocationStep DEF Fail
  <2>4. CASE req[h].message # None
    <3>1. \A k \in Handlers \ {h} : req'[k] = req[k] /\ (InFlight(k)' <=> InFlight(k))
      BY <1>0, <2>2 DEF InFlight
    <3>2. Loose \subseteq Loose'
      BY <1>7, <2>4, <3>1 DEF Loose, Pending, Fail
    <3>3. \A f \in Fields : Values(f)' \subseteq Values(f)
      <4> SUFFICES ASSUME NEW f \in Fields PROVE Values(f)' \subseteq Values(f) \cup {}
        OBVIOUS
      <4> QED
        BY <1>0, <1>7, <2>2, NewValues DEF Fail, Occurs
    <3>4. Consistent' /\ \A f \in Fields : Values(f)' \subseteq asked'
      BY <1>7, <3>2, <3>3, StillConsistent DEF Settled, Fail
    <3> QED
      BY <1>0, <1>7, <2>1, <2>2, <2>4, <3>4, MessageStep DEF Fail
  <2> QED
    BY <2>3, <2>4
<1>8. CASE Expire
  <2>1. \A f \in Fields : Values(f)' \subseteq Values(f)
    BY <1>8 DEF Expire, Values, Occurs, InFlight
  <2>2. Loose' = Loose /\ asked' = asked /\ identity' = identity /\ req' = req /\ mixed' = mixed
    BY <1>8 DEF Expire, Loose, Pending, InFlight
  <2>3. Consistent' /\ \A f \in Fields : Values(f)' \subseteq asked'
    BY <2>1, <2>2, StillConsistent DEF Settled
  <2> QED
    BY <2>1, <2>2, <2>3 DEF Settled, Single, SingleOK, Empty, InFlight, Writes
<1> QED
  BY <1>1, <1>2, <1>3, <1>4, <1>5, <1>6, <1>7, <1>8 DEF Next

\* upsertIdentity never writes a number it could not read.
RowFits ==
  identity # None => \A f \in Numeric : identity.fields[f] \notin NoNumber

LEMMA RowFitsStep == Inv /\ Inv' /\ RowFits /\ [Next]_vars => RowFits'
<1> SUFFICES ASSUME Inv, Inv', RowFits, [Next]_vars PROVE RowFits'
  OBVIOUS
<1>0. identity \in Identity \cup {None} /\ Numeric \subseteq Fields /\ None \notin NoNumber
  BY OnboardingConstants DEF Inv, TypeOK
<1>1. CASE identity' = identity
  BY <1>1 DEF RowFits
<1>2. ASSUME NEW h \in Handlers, EnsureRow(h) PROVE RowFits'
  BY <1>0, <1>2 DEF EnsureRow, RowFits, NewIdentity, NoState
<1>3. ASSUME NEW h \in Handlers, UpsertIdentity(h) PROVE RowFits'
  <2>1. PICK row : row = IF identity = None THEN NewIdentity ELSE identity
    OBVIOUS
  <2>2. row \in Identity /\ \A f \in Numeric : row.fields[f] \notin NoNumber
    BY <1>0, <2>1, NewIsTyped DEF RowFits, NewIdentity, NoState
  <2>3. identity' = Filled(row, req[h].copy.state)
    BY <1>3, <2>1 DEF UpsertIdentity
  <2>4. \A f \in Fields : identity'.fields[f] = IF Writes(req[h].copy.state, f)
                                                THEN req[h].copy.state[f] ELSE row.fields[f]
    BY <2>2, <2>3 DEF Filled, Identity
  <2> QED
    BY <1>0, <2>2, <2>4 DEF RowFits, Writes
<1>4. ASSUME NEW h \in Handlers, WriteLocation(h) PROVE RowFits'
  <2>1. identity \in Identity
    BY <1>0, <1>4 DEF WriteLocation, At, Inv, Requests, RequestOK
  <2>2. identity'.fields = identity.fields
    BY <1>4, <2>1 DEF WriteLocation, Identity
  <2> QED
    BY <2>1, <2>2, NoneIsNothing DEF RowFits
<1> QED
  BY <1>1, <1>2, <1>3, <1>4 DEF Next, vars, Message, Join, FindIdentity, Continue, Load,
     CreateSession, MarkInProgress, MarkCompleted, DeleteSession, Save, MarkLocated,
     Answer, Fail, Expire

\* "Live upsert to DB": whatever messages overlap, throw or find the session
\* expired, every field a stored session has collected has a value in the row,
\* and it is the session's own unless one of the two values came with a message
\* that overlapped another, threw or is in flight.
THEOREM RowIsNeverBehind == Spec => []RowKeepsUp
<1>1. Init => Settled /\ RowFits
  BY DEF Init, Settled, Consistent, Values, Occurs, Single, InFlight, RowFits
<1>2. Inv /\ Settled /\ RowFits => RowKeepsUp
  <2> SUFFICES ASSUME Inv, Settled, RowFits, session # None,
                      NEW f \in Fields, Writes(session.state, f)
               PROVE  /\ identity # None /\ identity.fields[f] # None
                      /\ \/ identity.fields[f] = session.state[f]
                         \/ {identity.fields[f], session.state[f]} \cap Loose # {}
    BY DEF RowKeepsUp
  <2>1. identity # None /\ identity.fields[f] # None
    BY DEF Inv, RowHolds, Stored, Held
  <2>2. identity.fields[f] \in Messages /\ session.state[f] \in Messages
    BY <2>1 DEF Inv, TypeOK, Identity, Session, IdentityState, Writes
  <2>3. session.state[f] \in Values(f)
    BY <2>2 DEF Values, Occurs, Writes
  <2>4. identity.fields[f] \in Values(f)
    BY <2>1, <2>2 DEF Values, Occurs, RowFits
  <2>5. \A v, w \in Values(f) : v = w \/ v \in Loose \/ w \in Loose
    BY DEF Settled, Consistent
  <2>6. \/ identity.fields[f] = session.state[f]
        \/ identity.fields[f] \in Loose \/ session.state[f] \in Loose
    BY <2>3, <2>4, <2>5
  <2> QED
    BY <2>1, <2>6
<1> QED
  BY <1>1, <1>2, SettledStep, RowFitsStep, InvHolds, PTL DEF Spec
-----------------------------------------------------------------------------
(***************************************************************************)
(* Messages that do not overlap lose nothing.  Between a request's look at *)
(* the session and its save, the request's copy stands in for the session: *)
(* whichever of the two is current agrees with the history and the row.    *)
(***************************************************************************)

\* s has every answered turn, and the row the value of every field it can take.
Agrees(s) ==
  /\ s.turns = said
  /\ \A f \in Fields : Writes(s.state, f) =>
                         identity # None /\ identity.fields[f] = s.state[f]

SessionAgrees == session # None => Agrees(session)

\* Awaits of a request that has no copy of the session to write back.
NoCopy == {"load", "locate", "mark"}

CopyGood(h) ==
  /\ req[h].pc \in {"create", "row", "progress"} => req[h].copy = NewSession
  /\ req[h].pc \in {"row", "progress"} => said = {}
  /\ req[h].pc \in {"model", "save"} => Agrees(req[h].copy)
  /\ req[h].pc = "upsert" => req[h].copy.turns = said

Serial ==
  /\ (\A h \in Handlers : InFlight(h) => req[h].pc \in NoCopy) => SessionAgrees
  /\ \A h \in Handlers : InFlight(h) => CopyGood(h)

\* The only request in flight, at an await without a copy: the session is current.
LEMMA Alone ==
  ASSUME Serial, Undisturbed, NEW h \in Handlers, InFlight(h), req[h].pc \in NoCopy
  PROVE  SessionAgrees
BY DEF Serial, Undisturbed

\* Nobody in flight before slot h is taken: the session is current.
LEMMA FirstOne ==
  ASSUME Serial, Undisturbed', NEW h \in Handlers, ~InFlight(h),
         req \in [Handlers -> Request \cup {None}], NEW r \in Request,
         req' = [req EXCEPT ![h] = r]
  PROVE  SessionAgrees
<1>1. InFlight(h)'
  BY NoneIsNothing DEF InFlight
<1>2. \A k \in Handlers \ {h} : InFlight(k)' <=> InFlight(k)
  BY DEF InFlight
<1>3. \A k \in Handlers : ~InFlight(k)
  BY <1>1, <1>2 DEF Undisturbed
<1> QED
  BY <1>3 DEF Serial

\* The one slot in flight has moved, its new request is good.
LEMMA SerialMove ==
  ASSUME Undisturbed', NEW h \in Handlers, NEW r \in Request,
         req \in [Handlers -> Request \cup {None}], req' = [req EXCEPT ![h] = r],
         CopyGood(h)', r.pc \in NoCopy => SessionAgrees'
  PROVE  Serial'
<1>1. req'[h] = r /\ InFlight(h)'
  BY NoneIsNothing DEF InFlight
<1>2. \A k \in Handlers : InFlight(k)' => k = h
  BY <1>1 DEF Undisturbed
<1> QED
  BY <1>1, <1>2 DEF Serial

\* The one slot in flight has ended.
LEMMA SerialEnd ==
  ASSUME Undisturbed, NEW h \in Handlers, InFlight(h),
         req \in [Handlers -> Request \cup {None}], req' = [req EXCEPT ![h] = None],
         SessionAgrees'
  PROVE  Serial'
<1>1. \A k \in Handlers : ~InFlight(k)'
  BY DEF Undisturbed, InFlight
<1> QED
  BY <1>1 DEF Serial

LEMMA NewAgrees ==
  ASSUME said = {}
  PROVE  Agrees(NewSession)
BY DEF Agrees, NewSession, NoState, Writes

LEMMA SerialStep == Inv /\ Serial /\ Undisturbed /\ Undisturbed' /\ [Next]_vars => Serial'
<1> SUFFICES ASSUME Inv, Serial, Undisturbed, Undisturbed', [Next]_vars PROVE Serial'
  OBVIOUS
<1>0. /\ req \in [Handlers -> Request \cup {None}]
      /\ session \in Session \cup {None} /\ identity \in Identity \cup {None}
      /\ \A h \in Handlers : InFlight(h) => RequestOK(h)
  BY DEF Inv, TypeOK, Requests
<1>a. ASSUME session' = session, said' = said, identity' = identity
      PROVE  /\ \A s : Agrees(s) => Agrees(s)'
             /\ SessionAgrees => SessionAgrees'
  BY <1>a DEF Agrees, SessionAgrees
\* What a request finds in Redis when it may look.
<1>b. ASSUME NEW m \in Messages, SessionAgrees
      PROVE  /\ Loaded(m) \in Request /\ Loaded(m).pc \in {"create", "model"}
             /\ Loaded(m).pc = "create" => Loaded(m).copy = NewSession
             /\ Loaded(m).pc = "model" => Agrees(Loaded(m).copy)
  BY <1>0, <1>b, NewIsTyped DEF Loaded, NewRequest, Request, PC, SessionAgrees
<1>1. CASE UNCHANGED vars
  BY <1>1 DEF vars, Serial, SessionAgrees, Agrees, CopyGood, InFlight
<1>2. ASSUME NEW h \in Handlers, NEW m \in Messages, Message(h, m) PROVE Serial'
  <2>1. PICK r : r = Loaded(m)
    OBVIOUS
  <2>2. req' = [req EXCEPT ![h] = r] /\ req'[h] = r /\ ~InFlight(h)
    BY <1>0, <1>2, <2>1 DEF Message
  <2>3. r \in Request
    BY <1>0, <2>1, NewIsTyped DEF Loaded, NewRequest, Request, PC
  <2>4. SessionAgrees
    BY <1>0, <2>2, <2>3, FirstOne
  <2>5. /\ r.pc \in {"create", "model"}
        /\ r.pc = "create" => r.copy = NewSession
        /\ r.pc = "model" => Agrees(r.copy)'
    BY <1>2, <1>a, <1>b, <2>1, <2>4 DEF Message
  <2>6. CopyGood(h)'
    BY <2>2, <2>5 DEF CopyGood
  <2> QED
    BY <1>0, <2>2, <2>3, <2>5, <2>6, SerialMove DEF NoCopy
<1>3. ASSUME NEW h \in Handlers, NEW m \in Messages, Join(h, m) PROVE Serial'
  <2>1. PICK r : r = NewRequest("load", m, NewSession)
    OBVIOUS
  <2>2. /\ req' = [req EXCEPT ![h] = r] /\ req'[h] = r
        /\ r \in Request /\ r.pc = "load" /\ session' = None
    BY <1>0, <1>3, <2>1, NewIsTyped DEF Join, NewRequest, Request, PC
  <2>3. CopyGood(h)' /\ SessionAgrees'
    BY <2>2 DEF CopyGood, SessionAgrees
  <2> QED
    BY <1>0, <2>2, <2>3, SerialMove
<1>4. ASSUME NEW h \in Handlers, FindIdentity(h) PROVE Serial'
  <2>1. PICK r : r = NewRequest("locate", None, NewSession)
    OBVIOUS
  <2>2. /\ req' = [req EXCEPT ![h] = r] /\ req'[h] = r /\ ~InFlight(h)
        /\ r \in Request /\ r.pc = "locate"
    BY <1>0, <1>4, <2>1, NewIsTyped DEF FindIdentity, NewRequest, Request, PC
  <2>3. SessionAgrees'
    BY <1>0, <1>4, <1>a, <2>2, FirstOne DEF FindIdentity
  <2>4. CopyGood(h)'
    BY <2>2 DEF CopyGood
  <2> QED
    BY <1>0, <2>2, <2>3, <2>4, SerialMove
<1>5. ASSUME NEW h \in Handlers, Continue(h) PROVE Serial'
  <2>1. InFlight(h) /\ RequestOK(h) /\ CopyGood(h)
    BY <1>0, <1>5 DEF Serial, Continue, At, Load, CreateSession, EnsureRow, MarkInProgress,
       UpsertIdentity, MarkCompleted, DeleteSession, Save, WriteLocation, MarkLocated
  <2>2. /\ req[h] \in Request /\ req[h].message \in Messages \cup {None}
        /\ req[h].copy \in Session /\ req[h].pc \in PC
    BY <1>0, <2>1, Updates
  <2>3. CASE Load(h)
    <3>1. req[h].message \in Messages
      BY <2>1, <2>2, <2>3 DEF Load, At, RequestOK
    <3>2. PICK r : r = Loaded(req[h].message)
      OBVIOUS
    <3>3. SessionAgrees
      BY <2>1, <2>3, Alone DEF Load, At, NoCopy
    <3>4. /\ r \in Request /\ r.pc \in {"create", "model"}
          /\ r.pc = "create" => r.copy = NewSession
          /\ r.pc = "model" => Agrees(r.copy)
      BY <1>b, <3>1, <3>2, <3>3
    <3>5. req' = [req EXCEPT ![h] = r] /\ req'[h] = r
      BY <1>0, <2>3, <3>2 DEF Load
    <3>6. r.pc = "model" => Agrees(r.copy)'
      BY <1>a, <2>3, <3>4 DEF Load
    <3>7. CopyGood(h)'
      BY <3>4, <3>5, <3>6 DEF CopyGood
    <3> QED
      BY <1>0, <3>4, <3>5, <3>7, SerialMove DEF NoCopy
  \* Every other step that does not end the request only moves its pc.
  <2>m. ASSUME NEW pc \in PC, Goto(h, pc)
        PROVE  \E r \in Request :
                 /\ req' = [req EXCEPT ![h] = r] /\ req'[h] = r
                 /\ r.pc = pc /\ r.copy = req[h].copy
    <3>1. PICK r : r = [req[h] EXCEPT !.pc = pc]
      OBVIOUS
    <3>2. /\ r \in Request /\ req' = [req EXCEPT ![h] = r] /\ req'[h] = r
          /\ r.pc = pc /\ r.copy = req[h].copy
      BY <1>0, <2>1, <2>m, <3>1, Updates DEF Goto
    <3> QED
      BY <3>2
  <2>4. CASE CreateSession(h)
    <3>1. Goto(h, "row") /\ "row" \in PC
      BY <2>4 DEF CreateSession, PC
    <3>2. PICK r \in Request : /\ req' = [req EXCEPT ![h] = r] /\ req'[h] = r
                               /\ r.pc = "row" /\ r.copy = req[h].copy
      BY <2>m, <3>1
    <3>3. CopyGood(h)'
      BY <2>1, <2>4, <3>2 DEF CopyGood, CreateSession, At
    <3> QED
      BY <1>0, <3>2, <3>3, SerialMove DEF NoCopy
  <2>5. CASE EnsureRow(h)
    <3>1. Goto(h, "progress") /\ "progress" \in PC
      BY <2>5 DEF EnsureRow, PC
    <3>2. PICK r \in Request : /\ req' = [req EXCEPT ![h] = r] /\ req'[h] = r
                               /\ r.pc = "progress" /\ r.copy = req[h].copy
      BY <2>m, <3>1
    <3>3. CopyGood(h)'
      BY <2>1, <2>5, <3>2 DEF CopyGood, EnsureRow, At
    <3> QED
      BY <1>0, <3>2, <3>3, SerialMove DEF NoCopy
  <2>6. CASE MarkInProgress(h)
    <3>1. Goto(h, "model") /\ "model" \in PC
      BY <2>6 DEF MarkInProgress, PC
    <3>2. PICK r \in Request : /\ req' = [req EXCEPT ![h] = r] /\ req'[h] = r
                               /\ r.pc = "model" /\ r.copy = req[h].copy
      BY <2>m, <3>1
    <3>3. r.copy = NewSession /\ Agrees(NewSession)
      BY <2>1, <2>6, <3>2, NewAgrees DEF CopyGood, MarkInProgress, At
    <3>4. Agrees(r.copy)'
      BY <1>a, <2>6, <3>3 DEF MarkInProgress
    <3>5. CopyGood(h)'
      BY <3>2, <3>4 DEF CopyGood
    <3> QED
      BY <1>0, <3>2, <3>5, SerialMove DEF NoCopy
  <2>7. CASE UpsertIdentity(h)
    <3>1. PICK pc : pc = IF req[h].field = "summary" THEN "complete" ELSE "save"
      OBVIOUS
    <3>2. Goto(h, pc) /\ pc \in PC /\ pc \in {"complete", "save"}
      BY <2>7, <3>1 DEF UpsertIdentity, PC
    <3>3. PICK r \in Request : /\ req' = [req EXCEPT ![h] = r] /\ req'[h] = r
                               /\ r.pc = pc /\ r.copy = req[h].copy
      BY <2>m, <3>2
    <3>4. PICK row : row = IF identity = None THEN NewIdentity ELSE identity
      OBVIOUS
    <3>5. row \in Identity /\ r.copy.state \in IdentityState
      BY <1>0, <2>2, <3>3, <3>4, NewIsTyped DEF Session
    <3>6. identity' = Filled(row, r.copy.state)
      BY <2>7, <3>3, <3>4 DEF UpsertIdentity
    <3>7. /\ identity' # None
          /\ \A f \in Fields : Writes(r.copy.state, f) => identity'.fields[f] = r.copy.state[f]
      BY <3>5, <3>6, FilledRow, NoneIsNothing
    <3>8. r.copy.turns = said'
      BY <2>1, <2>7, <3>3 DEF CopyGood, UpsertIdentity, At
    <3>9. Agrees(r.copy)'
      BY <3>7, <3>8 DEF Agrees
    <3>10. CopyGood(h)'
      BY <3>2, <3>3, <3>9 DEF CopyGood
    <3> QED
      BY <1>0, <3>2, <3>3, <3>10, SerialMove DEF NoCopy
  <2>8. CASE MarkCompleted(h)
    <3>1. Goto(h, "delete") /\ "delete" \in PC
      BY <2>8 DEF MarkCompleted, PC
    <3>2. PICK r \in Request : /\ req' = [req EXCEPT ![h] = r] /\ req'[h] = r
                               /\ r.pc = "delete" /\ r.copy = req[h].copy
      BY <2>m, <3>1
    <3>3. CopyGood(h)'
      BY <3>2 DEF CopyGood
    <3> QED
      BY <1>0, <3>2, <3>3, SerialMove DEF NoCopy
  <2>9. CASE DeleteSession(h)
    <3>1. SessionAgrees' /\ req' = [req EXCEPT ![h] = None]
      BY <2>9 DEF DeleteSession, SessionAgrees, End
    <3> QED
      BY <1>0, <2>1, <3>1, SerialEnd
  <2>10. CASE Save(h)
    <3>1. Agrees(req[h].copy) /\ session' = req[h].copy /\ req' = [req EXCEPT ![h] = None]
      BY <2>1, <2>10 DEF CopyGood, Save, At, End
    <3>2. SessionAgrees'
      BY <2>10, <3>1 DEF SessionAgrees, Agrees, Save
    <3> QED
      BY <1>0, <2>1, <3>1, <3>2, SerialEnd
  <2>11. CASE WriteLocation(h)
    <3>1. Goto(h, "mark") /\ "mark" \in PC
      BY <2>11 DEF WriteLocation, PC
    <3>2. PICK r \in Request : /\ req' = [req EXCEPT ![h] = r] /\ req'[h] = r
                               /\ r.pc = "mark" /\ r.copy = req[h].copy
      BY <2>m, <3>1
    <3>3. SessionAgrees
      BY <2>1, <2>11, Alone DEF WriteLocation, At, NoCopy
    <3>4. identity \in Identity
      BY <1>0, <2>1, <2>11 DEF WriteLocation, At, RequestOK
    <3>5. identity'.fields = identity.fields /\ identity' \in Identity
      BY <2>11, <3>4 DEF WriteLocation, Identity
    <3>6. SessionAgrees'
      BY <2>11, <3>3, <3>4, <3>5, NoneIsNothing DEF WriteLocation, SessionAgrees, Agrees
    <3>7. CopyGood(h)'
      BY <3>2 DEF CopyGood
    <3> QED
      BY <1>0, <3>2, <3>6, <3>7, SerialMove
  <2>12. CASE MarkLocated(h)
    <3>1. SessionAgrees
      BY <2>1, <2>12, Alone DEF MarkLocated, At, NoCopy
    <3>2. SessionAgrees' /\ req' = [req EXCEPT ![h] = None]
      BY <1>a, <2>12, <3>1 DEF MarkLocated, End
    <3> QED
      BY <1>0, <2>1, <3>2, SerialEnd
  <2> QED
    BY <1>5, <2>3, <2>4, <2>5, <2>6, <2>7, <2>8, <2>9, <2>10, <2>11, <2>12 DEF Continue
<1>6. ASSUME NEW h \in Handlers, NEW f \in Fields \cup {None}, Answer(h, f) PROVE Serial'
  <2>1. InFlight(h) /\ RequestOK(h) /\ CopyGood(h) /\ req[h].pc = "model"
    BY <1>0, <1>6 DEF Answer, At, Serial
  <2>2. req[h] \in Request /\ req[h].copy \in Session /\ req[h].message \in Messages
    BY <1>0, <2>1, Updates DEF RequestOK
  <2>3. PICK m : m = req[h].message
    OBVIOUS
  <2>4. PICK new : new = Extended(req[h].copy, m, f)
    OBVIOUS
  <2>5. /\ new \in Session
        /\ f = None => new.state = req[h].copy.state
        /\ new.turns = req[h].copy.turns \cup {m}
    BY <2>2, <2>3, <2>4, ExtendedCopy
  <2>6. PICK pc : pc = IF f = None THEN "save" ELSE "upsert"
    OBVIOUS
  <2>7. PICK r : r = [req[h] EXCEPT !.copy = new, !.field = f, !.pc = pc]
    OBVIOUS
  <2>8. r \in Request /\ r.pc = pc /\ r.copy = new
    <3>1. pc \in PC
      BY <2>6 DEF PC
    <3> QED
      BY <2>2, <2>5, <2>7, <3>1 DEF Request
  <2>9. req' = [req EXCEPT ![h] = r]
    <3>1. req' = [req EXCEPT ![h].copy = new, ![h].field = f, ![h].pc = pc]
      BY <1>6, <2>3, <2>4, <2>6 DEF Answer
    <3>2. DOMAIN req' = Handlers /\ req' = [k \in Handlers |-> req'[k]]
      BY <1>0, <3>1
    <3>3. \A k \in Handlers : req'[k] = IF k = h THEN r ELSE req[k]
      BY <1>0, <2>2, <2>7, <3>1 DEF Request
    <3> QED
      BY <1>0, <3>2, <3>3
  <2>10. req'[h] = r
    BY <1>0, <2>9
  <2>11. Agrees(req[h].copy)
    BY <2>1 DEF CopyGood
  <2>12. new.turns = said' /\ identity' = identity
    BY <1>6, <2>3, <2>5, <2>11 DEF Agrees, Answer
  <2>13. f = None => Agrees(new)'
    BY <2>5, <2>11, <2>12 DEF Agrees
  <2>14. CopyGood(h)' /\ pc \notin NoCopy
    BY <2>6, <2>8, <2>10, <2>12, <2>13 DEF CopyGood, NoCopy
  <2> QED
    BY <1>0, <2>8, <2>9, <2>14, SerialMove
\* Only a request for the location can fail without losing a message.
<1>7. ASSUME NEW h \in Handlers, Fail(h) PROVE Serial'
  <2>1. InFlight(h) /\ RequestOK(h) /\ req[h].message \in Messages \cup {None}
    BY <1>0, <1>7, Updates DEF Fail
  <2>2. req[h].message = None
    BY <1>7, <2>1 DEF Fail, Undisturbed
  <2>3. SessionAgrees
    BY <2>1, <2>2, Alone DEF RequestOK, NoCopy
  <2>4. SessionAgrees' /\ req' = [req EXCEPT ![h] = None]
    BY <1>7, <1>a, <2>3 DEF Fail, End
  <2> QED
    BY <1>0, <2>1, <2>4, SerialEnd
<1>8. CASE Expire
  BY <1>8 DEF Expire, Serial, SessionAgrees, Agrees, CopyGood, InFlight
<1> QED
  BY <1>1, <1>2, <1>3, <1>4, <1>5, <1>6, <1>7, <1>8 DEF Next

\* processMessage, finaliseLocation: while a profile has one request at a time
\* and none throws, the stored session holds every answered turn and the row
\* the latest value of every field, whatever the model extracts and whenever
\* Redis drops the session.
THEOREM SerialMessagesLoseNothing == Spec => NothingLost
<1>1. Init => Serial
  BY DEF Init, Serial, SessionAgrees, InFlight
<1>2. Serial => (Idle /\ session # None =>
                   /\ session.turns = said
                   /\ \A f \in Fields : Writes(session.state, f) =>
                                          identity.fields[f] = session.state[f])
  BY DEF Serial, Idle, SessionAgrees, Agrees
<1> QED
  BY <1>1, <1>2, SerialStep, InvHolds, PTL DEF Spec, NothingLost
=============================================================================
