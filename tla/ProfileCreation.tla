-------------------------- MODULE ProfileCreation --------------------------
(***************************************************************************)
(* UserService.createProfile for one verified user.  A request names the   *)
(* profile types it wants, none twice (the DTO refuses that), and works    *)
(* through them one by one without a transaction.  A client that is not    *)
(* answered sends its request again.  The pc of a request names its await: *)
(*                                                                         *)
(*   user     user.findFirst                                               *)
(*   find     userProfile.findUnique for the next type                     *)
(*   create   userProfile.create for the next type                         *)
(***************************************************************************)
EXTENDS Naturals, SequencesExt

CONSTANTS
  Types,       \* the profile types
  Clients,     \* each wants some profiles of the same user, under its own data
  MaxFaults,   \* bound on the awaits that throw
  None         \* no row, no request, no answer

Wishes == {s \in SeqOf(Types, Cardinality(Types)) : s # <<>> /\ IsInjective(s)}

Request == [pc: {"user", "find", "create"}, got: Seq(Clients)]

VARIABLES
  profile,   \* profile[t]: the client whose data the row of type t holds, or None
  wish,      \* wish[c]: the types client c asks for, in its order
  req,       \* req[c]: the request of c in flight, or None
  answer,    \* answer[c]: the rows c was answered with, or None
  faults     \* awaits that have thrown

vars == <<profile, wish, req, answer, faults>>

Init ==
  /\ profile \in [Types -> {None}]
  /\ wish \in [Clients -> Wishes]
  /\ req = [c \in Clients |-> None]
  /\ answer = [c \in Clients |-> None]
  /\ faults = 0

-----------------------------------------------------------------------------
At(c, pc) == req[c] # None /\ req[c].pc = pc

Next1(c) == wish[c][Len(req[c].got) + 1]

\* A first request, or one more after a 500.
Send(c) ==
  /\ req[c] = None /\ answer[c] = None
  /\ req' = [req EXCEPT ![c] = [pc |-> "user", got |-> <<>>]]
  /\ UNCHANGED <<profile, wish, answer, faults>>

FindUser(c) ==
  /\ At(c, "user")
  /\ req' = [req EXCEPT ![c].pc = "find"]
  /\ UNCHANGED <<profile, wish, answer, faults>>

\* The row is added to the answer, which goes out after the last type.
Push(c, row) ==
  LET got == Append(req[c].got, row) IN
  IF Len(got) = Len(wish[c])
    THEN /\ answer' = [answer EXCEPT ![c] = got]
         /\ req' = [req EXCEPT ![c] = None]
    ELSE /\ req' = [req EXCEPT ![c] = [pc |-> "find", got |-> got]]
         /\ UNCHANGED answer

\* An existing profile is taken as it is.
Find(c) ==
  /\ At(c, "find")
  /\ LET row == profile[Next1(c)] IN
       IF row # None THEN Push(c, row)
                     ELSE req' = [req EXCEPT ![c].pc = "create"] /\ UNCHANGED answer
  /\ UNCHANGED <<profile, wish, faults>>

\* Faulty: an upsert that overwrites a profile created meanwhile.
Upsert(c) ==
  /\ At(c, "create")
  /\ profile' = [profile EXCEPT ![Next1(c)] = c]
  /\ Push(c, c)
  /\ UNCHANGED <<wish, faults>>

\* userProfile.create; the unique pair of user and type refuses a second row, and
\* the request ends with a 500.
Create(c) ==
  /\ At(c, "create")
  /\ IF profile[Next1(c)] = None
       THEN profile' = [profile EXCEPT ![Next1(c)] = c] /\ Push(c, c)
       ELSE req' = [req EXCEPT ![c] = None] /\ UNCHANGED <<profile, answer>>
  /\ UNCHANGED <<wish, faults>>

\* The database fails, or the process stops: what was created stays.
Fail(c) ==
  /\ req[c] # None /\ faults < MaxFaults
  /\ req' = [req EXCEPT ![c] = None]
  /\ faults' = faults + 1
  /\ UNCHANGED <<profile, wish, answer>>

-----------------------------------------------------------------------------
Continue(c) == FindUser(c) \/ Find(c) \/ Create(c)

Next == \E c \in Clients : Send(c) \/ Continue(c) \/ Fail(c)

\* The database answers, and a client that was not answered asks again.
Fairness == \A c \in Clients : WF_vars(Send(c) \/ Continue(c))

FairSpec == Init /\ [][Next]_vars /\ Fairness

-----------------------------------------------------------------------------
\* A row names the client whose data it holds; a request has got a prefix.
TypeOK ==
  /\ profile \in [Types -> Clients \cup {None}]
  /\ wish \in [Clients -> Wishes]
  /\ req \in [Clients -> Request \cup {None}]
  /\ \A c \in Clients : req[c] # None => Len(req[c].got) < Len(wish[c])
  /\ answer \in [Clients -> Seq(Clients) \cup {None}]
  /\ faults \in 0 .. MaxFaults

\* "safe to call multiple times": whatever requests overlap, collide at the unique
\* pair or fail between two types, repeating one is enough: every client is
\* answered at last, and from then on with exactly the rows there are.
RetriesConverge ==
  \A c \in Clients :
    <>[](/\ answer[c] # None
         /\ Len(answer[c]) = Len(wish[c])
         /\ \A i \in DOMAIN answer[c] : answer[c][i] = profile[wish[c][i]])
=============================================================================
