------------------------ MODULE TrustRequestsProofs ------------------------
(***************************************************************************)
(* Requests that do not overlap leave the stored and the cached score at   *)
(* the figures of the tables, and any requests keep their types, for any    *)
(* number of vouches and changes.                                          *)
(***************************************************************************)
EXTENDS TrustRequests, TLAPS

\* What the queries answered so far add up to.
Answered(got) == UNION {Answer(q) : q \in got}

\* What holds at each await of the only request in flight.
Stage(h) ==
  /\ req[h] \in Request
  /\ req[h].fact = None \/ req[h].pc \in {"query", "upsert", "del"}
  /\ req[h].fact = None => Current
  /\ req[h].pc = "stored" => req[h].calc = {} /\ req[h].got = {}
  /\ req[h].pc = "query" => req[h].calc = Answered(req[h].got)
  /\ req[h].pc = "upsert" => req[h].calc = facts
  /\ req[h].pc \in {"del", "reread", "set"} => score = facts
  /\ req[h].pc = "set" => req[h].calc = score

Inv ==
  /\ facts \in SUBSET Facts
  /\ req \in [Handlers -> Request \cup {None}]
  /\ \A h \in Handlers : InFlight(h) => Stage(h)
  /\ Idle => Current

LEMMA NoneIsNoRequest == None \notin Request /\ None \notin Facts
BY TrustRequestsConstants

\* The only request in flight takes a step: the other slots stay empty.
LEMMA OnlyRequest ==
  ASSUME Inv, Undisturbed, NEW h \in Handlers, InFlight(h),
         facts' = facts,
         NEW r \in Request \cup {None}, req' = [req EXCEPT ![h] = r],
         r # None => Stage(h)', r = None => Current'
  PROVE  Inv'
<1>1. req' \in [Handlers -> Request \cup {None}] /\ req'[h] = r
  BY DEF Inv
<1>2. \A k \in Handlers \ {h} : req'[k] = None
  BY DEF Inv, Undisturbed, InFlight
<1>3. \A k \in Handlers : InFlight(k)' => Stage(k)'
  BY <1>1, <1>2 DEF InFlight
<1>4. Idle' => Current'
  BY <1>1 DEF Idle, InFlight
<1> QED
  BY <1>1, <1>3, <1>4 DEF Inv

LEMMA Updates ==
  ASSUME req \in [Handlers -> Request \cup {None}], NEW h \in Handlers, InFlight(h)
  PROVE  /\ req[h] \in Request
         /\ req[h] = [pc |-> req[h].pc, fact |-> req[h].fact,
                      calc |-> req[h].calc, got |-> req[h].got]
         /\ req[h].pc \in PC /\ req[h].fact \in Facts \cup {None}
         /\ req[h].calc \in Score /\ req[h].got \subseteq Query
         /\ \A pc \in PC : /\ [req[h] EXCEPT !.pc = pc] \in Request
                          /\ [req EXCEPT ![h].pc = pc] = [req EXCEPT ![h] = [req[h] EXCEPT !.pc = pc]]
BY DEF InFlight, Request

LEMMA InvHolds == Spec /\ []Undisturbed => []Inv
<1>1. Init => Inv
  BY DEF Init, Inv, InFlight, Idle, Current
<1>2. Inv /\ Undisturbed /\ Undisturbed' /\ [Next]_vars => Inv'
  <2> SUFFICES ASSUME Inv, Undisturbed, Undisturbed', [Next]_vars PROVE Inv'
    OBVIOUS
  <2>0. /\ facts \subseteq Facts /\ req \in [Handlers -> Request \cup {None}]
        /\ \A h \in Handlers : InFlight(h) => Stage(h)
    BY DEF Inv
  <2>1. CASE UNCHANGED vars
    BY <2>1 DEF vars, Inv, InFlight, Stage, Current, Idle, Answered, Answer
  <2>2. ASSUME NEW h \in Handlers, NEW fact \in Facts, Commit(h, fact) PROVE Inv'
    <3> DEFINE r == NewRequest("query", fact)
    <3>1. r \in Request /\ r # None
      BY <2>2, NoneIsNoRequest DEF NewRequest, Request, PC, Score
    <3>2. req'[h] = r /\ req' \in [Handlers -> Request \cup {None}]
      BY <2>0, <2>2, <3>1 DEF Commit
    <3>3. \A k \in Handlers \ {h} : req'[k] = None
      BY <2>0, <2>2, <3>1, <3>2 DEF Commit, Undisturbed, InFlight
    <3>4. Stage(h)'
      BY <3>1, <3>2, NoneIsNoRequest DEF Stage, NewRequest, Answered
    <3>5. facts' \subseteq Facts
      BY <2>0, <2>2 DEF Commit
    <3>6. ~Idle'
      BY <3>1, <3>2 DEF Idle, InFlight
    <3> QED
      BY <3>2, <3>3, <3>4, <3>5, <3>6 DEF Inv, InFlight
  <2>3. ASSUME NEW h \in Handlers, GetScore(h) PROVE Inv'
    <3> DEFINE r == NewRequest("stored", None)
    <3>1. r \in Request /\ r # None
      BY <2>3, NoneIsNoRequest DEF NewRequest, Request, PC, Score
    <3>2. req'[h] = r /\ req' \in [Handlers -> Request \cup {None}]
      BY <2>0, <2>3, <3>1 DEF GetScore
    <3>3. \A k \in Handlers \ {h} : req'[k] = None
      BY <2>0, <2>3, <3>1, <3>2 DEF GetScore, Undisturbed, InFlight
    <3>4. Idle
      BY <2>0, <2>3, <3>3 DEF GetScore, Idle, InFlight
    <3>5. Current'
      BY <2>3, <3>4 DEF GetScore, Inv, Current
    <3>6. Stage(h)'
      BY <3>1, <3>2, <3>5 DEF Stage, NewRequest
    <3>7. ~Idle'
      BY <3>1, <3>2 DEF Idle, InFlight
    <3> QED
      BY <2>0, <2>3, <3>2, <3>3, <3>6, <3>7 DEF Inv, InFlight, GetScore
  <2>4. ASSUME NEW h \in Handlers, Continue(h) PROVE Inv'
    <3>0. InFlight(h) /\ Stage(h)
      BY <2>0, <2>4 DEF Continue, ReadStored, Read, Upsert, Invalidate, Reread, Fill, At
    <3> DEFINE q == req[h]
    <3>a. /\ q \in Request /\ q.fact \in Facts \cup {None}
          /\ q.calc \in Score /\ q.got \subseteq Query /\ q # None
      BY <2>0, <3>0, Updates, NoneIsNoRequest
    <3>1. CASE ReadStored(h)
      <4>1. q.pc = "stored" /\ q.fact = None /\ Current /\ facts' = facts /\ Current'
        BY <3>0, <3>1 DEF ReadStored, At, Stage, Current
      <4>2. CASE score = None
        <5> DEFINE r == [q EXCEPT !.pc = "query"]
        <5>1. r \in Request /\ req' = [req EXCEPT ![h] = r]
          BY <2>0, <3>0, <3>1, <4>2, Updates DEF ReadStored, PC
        <5>2. /\ req'[h] = r /\ r.fact = None /\ r.pc = "query" /\ r.calc = {} /\ r.got = {}
          BY <2>0, <3>0, <3>a, <4>1, <5>1 DEF Stage, Request
        <5>3. Stage(h)'
          BY <4>1, <5>1, <5>2 DEF Stage, Answered
        <5> QED
          BY <3>0, <4>1, <5>1, <5>3, OnlyRequest, NoneIsNoRequest
      <4>3. CASE score # None
        <5> DEFINE r == [q EXCEPT !.pc = "set", !.calc = score]
        <5>1. r \in Request /\ req' = [req EXCEPT ![h] = r]
          BY <2>0, <3>0, <3>1, <3>a, <4>1, <4>3 DEF ReadStored, Request, PC, Score, Current
        <5>2. Stage(h)'
          BY <2>0, <3>a, <3>1, <4>1, <4>3, <5>1 DEF Stage, ReadStored, Current, Request
        <5> QED
          BY <3>0, <4>1, <5>1, <5>2, OnlyRequest, NoneIsNoRequest
      <4> QED
        BY <4>2, <4>3
    <3>2. ASSUME NEW i \in Query, Read(h, i) PROVE Inv'
      <4> DEFINE r == [q EXCEPT !.calc = @ \cup Answer(i), !.got = @ \cup {i},
                                !.pc = IF q.got \cup {i} = Query THEN "upsert" ELSE @]
      <4>1. r \in Request /\ req' = [req EXCEPT ![h] = r]
        BY <2>0, <3>2, <3>a DEF Read, Request, PC, Score, Answer
      <4>2. /\ q.pc = "query" /\ facts' = facts /\ q.calc = Answered(q.got)
            /\ q.fact = None => Current'
        BY <3>0, <3>2 DEF Read, At, Stage, Current
      <4>3. r.calc = Answered(r.got)
        BY <3>a, <4>2 DEF Answered, Request
      <4>4. r.got = Query => r.calc = facts
        BY <2>0, <4>3 DEF Answered, Answer, Query, Facts
      <4>5. /\ r.pc = "upsert" /\ r.got = Query
            \/ r.pc = "query"
        BY <3>a, <4>2 DEF Request
      <4>6. r.fact = q.fact /\ req'[h] = r
        BY <2>0, <3>a, <4>1 DEF Request
      <4>7. \A g : Answered(g)' = Answered(g)
        BY <4>2 DEF Answered, Answer
      <4> HIDE DEF r
      <4>8. Stage(h)'
        BY <4>1, <4>2, <4>3, <4>4, <4>5, <4>6, <4>7 DEF Stage, Answered, Answer
      <4> QED
        BY <3>0, <4>1, <4>2, <4>8, OnlyRequest, NoneIsNoRequest
    <3>3. CASE Upsert(h)
      <4> DEFINE r == [q EXCEPT !.pc = "del"]
      <4>1. r \in Request /\ req' = [req EXCEPT ![h] = r]
        BY <2>0, <3>0, <3>3, Updates DEF Upsert, Goto, PC
      <4>2. q.pc = "upsert" /\ score' = facts /\ facts' = facts /\ cache' = cache
        BY <3>0, <3>3 DEF Upsert, At, Stage
      <4>3. q.fact = None => Current'
        BY <3>0, <4>2 DEF Stage, Current
      <4>4. Stage(h)'
        BY <2>0, <3>a, <4>1, <4>2, <4>3 DEF Stage, Request
      <4> QED
        BY <3>0, <4>1, <4>2, <4>4, OnlyRequest, NoneIsNoRequest
    <3>4. CASE Invalidate(h)
      <4>1. /\ q.pc = "del" /\ score' = facts /\ facts' = facts /\ cache' = None
            /\ score = facts
        BY <3>0, <3>4 DEF Invalidate, At, Stage
      <4>2. Current'
        BY <2>0, <4>1, TrustRequestsConstants DEF Current, Score
      <4>3. CASE q.fact = None
        <5> DEFINE r == [q EXCEPT !.pc = "reread"]
        <5>1. r \in Request /\ req' = [req EXCEPT ![h] = r]
          BY <2>0, <3>0, <3>4, <4>3, Updates DEF Invalidate, Goto, PC
        <5>2. Stage(h)'
          BY <2>0, <3>a, <4>1, <4>2, <4>3, <5>1 DEF Stage, Request
        <5> QED
          BY <3>0, <4>1, <5>1, <5>2, OnlyRequest, NoneIsNoRequest
      <4>4. CASE q.fact # None
        BY <3>0, <3>4, <4>1, <4>2, <4>4, OnlyRequest DEF Invalidate, End
      <4> QED
        BY <4>3, <4>4
    <3>5. CASE Reread(h)
      <4> DEFINE r == [q EXCEPT !.pc = "set", !.calc = score]
      <4>1. /\ q.pc = "reread" /\ q.fact = None /\ score = facts /\ facts' = facts
            /\ score' = score /\ Current'
        BY <3>0, <3>5 DEF Reread, At, Stage, Current
      <4>2. r \in Request /\ req' = [req EXCEPT ![h] = r]
        BY <2>0, <3>5, <3>a, <4>1 DEF Reread, Request, PC, Score
      <4>3. Stage(h)'
        BY <2>0, <3>a, <4>1, <4>2 DEF Stage, Request
      <4> QED
        BY <3>0, <4>1, <4>2, <4>3, OnlyRequest, NoneIsNoRequest
    <3>6. CASE Fill(h)
      <4>1. /\ q.pc = "set" /\ q.fact = None /\ q.calc = score /\ score = facts
            /\ facts' = facts /\ score' = score /\ cache' = score
        BY <3>0, <3>6 DEF Fill, At, Stage
      <4>2. Current'
        BY <2>0, <4>1, TrustRequestsConstants DEF Current, Score
      <4> QED
        BY <3>0, <3>6, <4>1, <4>2, OnlyRequest DEF Fill, End
    <3> QED
      BY <2>4, <3>1, <3>2, <3>3, <3>4, <3>5, <3>6 DEF Continue
  <2>5. ASSUME NEW h \in Handlers, Fail(h) PROVE Inv'
    <3>1. InFlight(h) /\ Stage(h) /\ req[h].fact = None
      BY <2>0, <2>5 DEF Fail, Undisturbed
    <3>2. Current'
      BY <2>5, <3>1 DEF Stage, Current, Fail
    <3> QED
      BY <2>5, <3>1, <3>2, OnlyRequest DEF Fail, End
  <2>6. CASE Expire
    <3>1. Current => Current'
      BY <2>6 DEF Expire, Current
    <3> QED
      BY <2>6, <3>1 DEF Expire, Inv, InFlight, Stage, Idle, Answered, Answer
  <2> QED
    BY <2>1, <2>2, <2>3, <2>4, <2>5, <2>6 DEF Next
<1> QED
  BY <1>1, <1>2, PTL DEF Spec

\* recalculate, getScore: requests of one provider that do not overlap and do not
\* fail leave the stored and the cached score at the figures of the tables.
THEOREM SerialRequestsStayCurrent == Spec => CurrentWhenAlone
<1>1. Inv => (Idle => Current)
  BY DEF Inv
<1> QED
  BY <1>1, InvHolds, PTL DEF CurrentWhenAlone

-----------------------------------------------------------------------------
\* A request works for a fact that is committed, and finds a row once it has
\* upserted one.
Sound(h) ==
  /\ req[h].fact \in facts \cup {None}
  /\ req[h].pc \in {"del", "reread"} => score # None

TypeInv == TypeOK /\ \A h \in Handlers : InFlight(h) => Sound(h)

\* A slot takes request r on; the tables only gain.
LEMMA SlotKeepsType ==
  ASSUME TypeInv, NEW h \in Handlers,
         NEW r \in Request \cup {None}, req' = [req EXCEPT ![h] = r],
         facts \subseteq facts', facts' \subseteq Facts, lost' \subseteq facts',
         score' \in Score \cup {None}, score # None => score' # None,
         cache' \in Score \cup {None},
         r # None => /\ r.fact \in facts' \cup {None}
                     /\ r.pc \in {"del", "reread"} => score' # None
  PROVE  TypeInv'
<1>1. req' \in [Handlers -> Request \cup {None}] /\ req'[h] = r
  BY DEF TypeInv, TypeOK
<1>2. \A k \in Handlers \ {h} : req'[k] = req[k]
  BY DEF TypeInv, TypeOK
<1>3. TypeOK'
  BY <1>1 DEF TypeOK
<1>4. ASSUME NEW k \in Handlers, InFlight(k)' PROVE Sound(k)'
  <2>1. CASE k = h
    BY <1>1, <1>4, <2>1 DEF InFlight, Sound
  <2>2. CASE k # h
    BY <1>2, <1>4, <2>2 DEF InFlight, Sound, TypeInv
  <2> QED
    BY <2>1, <2>2
<1> QED
  BY <1>3, <1>4 DEF TypeInv

LEMMA TypeStep == TypeInv /\ [Next]_vars => TypeInv'
<1> SUFFICES ASSUME TypeInv, [Next]_vars PROVE TypeInv'
  OBVIOUS
<1>0. /\ facts \subseteq Facts /\ lost \subseteq facts
      /\ score \in Score \cup {None} /\ cache \in Score \cup {None}
      /\ req \in [Handlers -> Request \cup {None}]
      /\ \A h \in Handlers : InFlight(h) => Sound(h)
  BY DEF TypeInv, TypeOK
<1>1. CASE UNCHANGED vars
  BY <1>1 DEF vars, TypeInv, TypeOK, InFlight, Sound
<1>2. ASSUME NEW h \in Handlers, NEW fact \in Facts, Commit(h, fact) PROVE TypeInv'
  <2> DEFINE r == NewRequest("query", fact)
  <2>1. r \in Request /\ r.fact = fact /\ r.pc = "query"
    BY DEF NewRequest, Request, PC, Score
  <2>2. fact \in facts'
    BY <1>2 DEF Commit
  <2> QED
    BY <1>0, <1>2, <2>1, <2>2, SlotKeepsType DEF Commit
<1>3. ASSUME NEW h \in Handlers, GetScore(h) PROVE TypeInv'
  <2> DEFINE r == NewRequest("stored", None)
  <2>1. r \in Request /\ r.fact = None /\ r.pc = "stored"
    BY DEF NewRequest, Request, PC, Score
  <2> QED
    BY <1>0, <1>3, <2>1, SlotKeepsType DEF GetScore
<1>4. ASSUME NEW h \in Handlers, Continue(h) PROVE TypeInv'
  <2>0. InFlight(h) /\ Sound(h)
    BY <1>0, <1>4 DEF Continue, ReadStored, Read, Upsert, Invalidate, Reread, Fill, At
  <2> DEFINE q == req[h]
  <2>1. /\ q \in Request /\ q.fact \in facts \cup {None} /\ q.pc \in PC
        /\ q.calc \in Score /\ q.got \subseteq Query
    BY <1>0, <2>0, Updates DEF Sound
  <2>2. CASE ReadStored(h)
    <3>1. CASE score = None
      <4> DEFINE r == [q EXCEPT !.pc = "query"]
      <4>1. r \in Request /\ req' = [req EXCEPT ![h] = r]
        BY <1>0, <2>0, <2>2, <3>1, Updates DEF ReadStored, PC
      <4>2. r.fact = q.fact /\ r.pc = "query"
        BY <2>1 DEF Request
      <4> QED
        BY <1>0, <2>1, <2>2, <4>1, <4>2, SlotKeepsType DEF ReadStored
    <3>2. CASE score # None
      <4> DEFINE r == [q EXCEPT !.pc = "set", !.calc = score]
      <4>1. r \in Request /\ req' = [req EXCEPT ![h] = r]
        BY <1>0, <2>1, <2>2, <3>2 DEF ReadStored, Request, PC
      <4>2. r.fact = q.fact /\ r.pc = "set"
        BY <2>1 DEF Request
      <4> QED
        BY <1>0, <2>1, <2>2, <4>1, <4>2, SlotKeepsType DEF ReadStored
    <3> QED
      BY <3>1, <3>2
  <2>3. ASSUME NEW i \in Query, Read(h, i) PROVE TypeInv'
    <3> DEFINE r == [q EXCEPT !.calc = @ \cup Answer(i), !.got = @ \cup {i},
                              !.pc = IF q.got \cup {i} = Query THEN "upsert" ELSE @]
    <3>1. r \in Request /\ req' = [req EXCEPT ![h] = r]
      BY <1>0, <2>1, <2>3 DEF Read, Request, PC, Score, Answer
    <3>2. q.pc = "query" /\ r.fact = q.fact /\ r.pc \in {"query", "upsert"}
      BY <2>1, <2>3 DEF Request, Read, At
    <3> HIDE DEF r
    <3> QED
      BY <1>0, <2>1, <2>3, <3>1, <3>2, SlotKeepsType DEF Read
  <2>4. CASE Upsert(h)
    <3> DEFINE r == [q EXCEPT !.pc = "del"]
    <3>1. r \in Request /\ req' = [req EXCEPT ![h] = r]
      BY <1>0, <2>0, <2>4, Updates DEF Upsert, Goto, PC
    <3>2. r.fact = q.fact /\ score' = q.calc /\ q.calc # None
      BY <2>1, <2>4, TrustRequestsConstants DEF Request, Upsert
    <3> QED
      BY <1>0, <2>1, <2>4, <3>1, <3>2, SlotKeepsType DEF Upsert
  <2>5. CASE Invalidate(h)
    <3>1. q.pc = "del" /\ score # None
      BY <2>0, <2>5 DEF Invalidate, At, Sound
    <3>2. CASE q.fact = None
      <4> DEFINE r == [q EXCEPT !.pc = "reread"]
      <4>1. r \in Request /\ req' = [req EXCEPT ![h] = r]
        BY <1>0, <2>0, <2>5, <3>2, Updates DEF Invalidate, Goto, PC
      <4>2. r.fact = q.fact
        BY <2>1 DEF Request
      <4> QED
        BY <1>0, <2>1, <2>5, <3>1, <4>1, <4>2, SlotKeepsType DEF Invalidate
    <3>3. CASE q.fact # None
      BY <1>0, <2>5, <3>3, SlotKeepsType DEF Invalidate, End
    <3> QED
      BY <3>2, <3>3
  <2>6. CASE Reread(h)
    <3> DEFINE r == [q EXCEPT !.pc = "set", !.calc = score]
    <3>1. q.pc = "reread" /\ score # None
      BY <2>0, <2>6 DEF Reread, At, Sound
    <3>2. r \in Request /\ req' = [req EXCEPT ![h] = r]
      BY <1>0, <2>1, <2>6, <3>1 DEF Reread, Request, PC
    <3>3. r.fact = q.fact /\ r.pc = "set"
      BY <2>1 DEF Request
    <3> QED
      BY <1>0, <2>1, <2>6, <3>2, <3>3, SlotKeepsType DEF Reread
  <2>7. CASE Fill(h)
    BY <1>0, <2>1, <2>7, SlotKeepsType DEF Fill, End
  <2> QED
    BY <1>4, <2>2, <2>3, <2>4, <2>5, <2>6, <2>7 DEF Continue
<1>5. ASSUME NEW h \in Handlers, Fail(h) PROVE TypeInv'
  <2>1. req[h].fact \in facts \cup {None}
    BY <1>0, <1>5 DEF Fail, Sound
  <2>2. lost' \subseteq facts'
    BY <1>0, <1>5, <2>1 DEF Fail
  <2> QED
    BY <1>0, <1>5, <2>2, SlotKeepsType DEF Fail, End
<1>6. CASE Expire
  BY <1>6 DEF Expire, TypeInv, TypeOK, InFlight, Sound
<1> QED
  BY <1>1, <1>2, <1>3, <1>4, <1>5, <1>6 DEF Next

\* vouch, getScore, recalculate: a score is made of facts, never of what a request
\* that found no row has read; a request that throws has committed its fact.
THEOREM TypeCorrect == Spec => []TypeOK
<1>1. Init => TypeInv
  BY DEF Init, TypeInv, TypeOK, InFlight
<1>2. TypeInv => TypeOK
  BY DEF TypeInv
<1> QED
  BY <1>1, <1>2, TypeStep, PTL DEF Spec
=============================================================================
