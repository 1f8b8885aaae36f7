--------------------------- MODULE TrustRequests ---------------------------
(***************************************************************************)
(* TrustService over the tables of one provider and the Redis entry of the *)
(* provider's score: vouch, getScore and recalculate, awaited also by the  *)
(* booking handlers.  Entries of other providers share nothing with it.    *)
(*                                                                         *)
(* A request runs alone between two awaits and overlaps any other at each. *)
(* Its pc names the await it is at:                                        *)
(*                                                                         *)
(*   stored   trustScore.findUnique   (getScore, after its cache miss)     *)
(*   query    the queries of calculateScore                                *)
(*   upsert   trustScore.upsert                                            *)
(*   del      redis.del of the cached score                                *)
(*   reread   trustScore.findUnique   (getScore, after it recalculated)    *)
(*   set      redis.set of the score just read                             *)
(***************************************************************************)

CONSTANTS
  Vouchers,   \* profiles that may vouch for the provider
  Changes,    \* commits of the booking handlers that the score counts
  Handlers,   \* slots for requests in flight
  None        \* no row, no entry, no request

Facts == Vouchers \cup Changes
Query == {"vouches", "changes"}
PC == {"stored", "query", "upsert", "del", "reread", "set"}

\* What calculateScore counts, as the set of facts; module TrustScore has the
\* formula.
Score == SUBSET Facts

Request == [pc: PC, fact: Facts \cup {None}, calc: Score, got: SUBSET Query]

ASSUME TrustRequestsConstants ==
  /\ Vouchers \cap Changes = {}
  /\ None \notin Facts \cup Request
  /\ \A s \in Score : s # None

VARIABLES
  facts,    \* committed vouches and booking changes
  score,    \* the TrustScore row, or None
  cache,    \* the entry trust:score:<profileId>, or None
  req,      \* req[h]: the request slot h is serving, or None
  lost      \* history: facts whose request threw after it had committed them

vars == <<facts, score, cache, req, lost>>

Init ==
  /\ facts = {} /\ lost = {}
  /\ score = None /\ cache = None
  /\ req = [h \in Handlers |-> None]

-----------------------------------------------------------------------------
InFlight(h) == req[h] # None

At(h, pc) == InFlight(h) /\ req[h].pc = pc

Goto(h, pc) == req' = [req EXCEPT ![h].pc = pc]

End(h) == req' = [req EXCEPT ![h] = None]

NewRequest(pc, fact) == [pc |-> pc, fact |-> fact, calc |-> {}, got |-> {}]

\* Faulty: an insertion that failed is not noticed.
CommitNothing(h, fact) ==
  /\ ~InFlight(h) /\ fact \notin facts
  /\ req' = [req EXCEPT ![h] = NewRequest("query", fact)]
  /\ UNCHANGED <<facts, score, cache, lost>>

\* vouch inserts its row (the unique pair refuses a second one), a booking
\* handler commits its change; both go on to recalculate.
Commit(h, fact) ==
  /\ ~InFlight(h) /\ fact \notin facts
  /\ facts' = facts \cup {fact}
  /\ req' = [req EXCEPT ![h] = NewRequest("query", fact)]
  /\ UNCHANGED <<score, cache, lost>>

\* getScore, on a cache miss; a hit answers at once and changes nothing.
GetScore(h) ==
  /\ ~InFlight(h) /\ cache = None
  /\ req' = [req EXCEPT ![h] = NewRequest("stored", None)]
  /\ UNCHANGED <<facts, score, cache, lost>>

\* trustScore.findUnique: without a row getScore recalculates.
ReadStored(h) ==
  /\ At(h, "stored")
  /\ req' = IF score = None
              THEN [req EXCEPT ![h].pc = "query"]
              ELSE [req EXCEPT ![h].pc = "set", ![h].calc = score]
  /\ UNCHANGED <<facts, score, cache, lost>>

Answer(q) == facts \cap (IF q = "vouches" THEN Vouchers ELSE Changes)

\* The queries of Promise.all: any order, no snapshot.
Read(h, q) ==
  /\ At(h, "query") /\ q \notin req[h].got
  /\ req' = [req EXCEPT ![h].calc = @ \cup Answer(q),
                        ![h].got = @ \cup {q},
                        ![h].pc = IF req[h].got \cup {q} = Query THEN "upsert" ELSE @]
  /\ UNCHANGED <<facts, score, cache, lost>>

\* Faulty: the row is created and never updated.
UpsertOnce(h) ==
  /\ At(h, "upsert")
  /\ score' = IF score = None THEN req[h].calc ELSE score
  /\ Goto(h, "del")
  /\ UNCHANGED <<facts, cache, lost>>

\* The upsert overwrites whatever row is there.
Upsert(h) ==
  /\ At(h, "upsert")
  /\ score' = req[h].calc
  /\ Goto(h, "del")
  /\ UNCHANGED <<facts, cache, lost>>

\* Faulty: recalculate leaves the cached score.
KeepEntry(h) ==
  /\ At(h, "del")
  /\ IF req[h].fact = None THEN Goto(h, "reread") ELSE End(h)
  /\ UNCHANGED <<facts, score, cache, lost>>

\* recalculate deletes the entry and returns to the handler that awaits it.
Invalidate(h) ==
  /\ At(h, "del")
  /\ cache' = None
  /\ IF req[h].fact = None THEN Goto(h, "reread") ELSE End(h)
  /\ UNCHANGED <<facts, score, lost>>

\* getScore reads the row its recalculation left.
Reread(h) ==
  /\ At(h, "reread")
  /\ req' = [req EXCEPT ![h].pc = "set", ![h].calc = score]
  /\ UNCHANGED <<facts, score, cache, lost>>

\* getScore stores what it read, however old that is by now.
Fill(h) ==
  /\ At(h, "set")
  /\ cache' = req[h].calc
  /\ End(h)
  /\ UNCHANGED <<facts, score, lost>>

\* An await throws, or the process stops: what was committed stays.
Fail(h) ==
  /\ InFlight(h)
  /\ lost' = lost \cup ({req[h].fact} \ {None})
  /\ End(h)
  /\ UNCHANGED <<facts, score, cache>>

\* Faulty: the entry is stored without a time to live.
NoExpiry == FALSE /\ UNCHANGED vars

\* Redis drops the entry when its five minutes are over.
Expire ==
  /\ cache # None
  /\ cache' = None
  /\ UNCHANGED <<facts, score, req, lost>>

-----------------------------------------------------------------------------
Continue(h) ==
  \/ ReadStored(h)
  \/ \E q \in Query : Read(h, q)
  \/ Upsert(h)
  \/ Invalidate(h)
  \/ Reread(h)
  \/ Fill(h)

Next ==
  \/ \E h \in Handlers :
        \/ \E fact \in Facts : Commit(h, fact)
        \/ GetScore(h)
        \/ Continue(h)
        \/ Fail(h)
  \/ Expire

Spec == Init /\ [][Next]_vars

\* Settled awaits are resumed and Redis keeps time; nobody must send a request.
FairSpec ==
  Spec /\ WF_vars(Expire) /\ \A h \in Handlers : WF_vars(Continue(h))

-----------------------------------------------------------------------------
TypeOK ==
  /\ facts \subseteq Facts /\ lost \subseteq facts
  /\ score # None => score \in Score
  /\ cache # None => cache \in Score
  /\ req \in [Handlers -> Request \cup {None}]

\* The request that committed the fact has not stored a score since.
Uncounted(fact) ==
  \E h \in Handlers : req[h] # None /\ req[h].fact = fact /\ req[h].pc \in {"query", "upsert"}

\* vouch, recalculate: unless its request throws, every vouch and every booking
\* change reaches the stored score.  (A recalculation that read before it may
\* write after it and take it out again.)
EveryFactCounted ==
  \A fact \in Facts :
    Uncounted(fact) ~> fact \in lost \/ (score # None /\ fact \in score)

\* getScore, recalculate: whatever races filled the entry, a score that is no
\* longer the stored one is served for no more than its five minutes.
StaleEntriesExpire == <>[](cache \in {None, score})

Idle == \A h \in Handlers : ~InFlight(h)

\* One request of the provider at a time, and none that threw.
Undisturbed ==
  /\ \A h, k \in Handlers : InFlight(h) /\ InFlight(k) => h = k
  /\ lost = {}

Current == /\ score \in {None, facts}
           /\ score = None => facts = {}
           /\ cache \in {None, score}

\* recalculate, getScore: requests that do not overlap and do not fail leave the
\* row and the cached entry at the figures of the tables.
CurrentWhenAlone == []Undisturbed => [](Idle => Current)
=============================================================================
