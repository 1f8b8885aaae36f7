------------------------------ MODULE Account ------------------------------
(***************************************************************************)
(* AuthService for one e-mail address and the browsers of its owner: the   *)
(* user row, the codes that are mailed, the access tokens with the Redis   *)
(* blacklist, the one refresh token that the row has for all browsers and  *)
(* the clean-up job.  Other accounts share none of them.                   *)
(*                                                                         *)
(* Requests are numbered.  The code, the refresh token and the access      *)
(* token that a request makes bear its number; 0 is none.  Time is what is *)
(* left of each life, in units of the five minutes between two runs of the *)
(* clean-up job; Tick takes a unit from all of them.  Passwords and        *)
(* Google's answer are right or the request changes nothing.  The cached   *)
(* access token access:<userId> is written and deleted but never read, and *)
(* left out.  A request overlaps any other at each await; its pc names it: *)
(*                                                                         *)
(*   read       user.findFirst after the guards of the route               *)
(*   restore    user.update of deletedAt               (register)          *)
(*   upsert     user.upsert                            (register)          *)
(*   send       user.update of the code                (resend, forgot)    *)
(*   mail       mailService.sendOtp                                        *)
(*   blacklist  redisService.blacklist of the caller's access token        *)
(*   sign       bcrypt.compare of the password         (login)             *)
(*   grant      user.update of issueFullAuthTokens     (verify, login)     *)
(*   rotate     user.update of the refresh token       (refresh, google)   *)
(*   reset      user.update of the password            (reset)             *)
(*   clear      user.update of the refresh token       (logout)            *)
(*   create     user.create                            (google)            *)
(*   link       user.update of the Google account      (google)            *)
(*   respond    redis.set of the new access token, then the cookies        *)
(***************************************************************************)
EXTENDS Naturals

CONSTANTS
  MaxRequests,  \* bound on requests
  Handlers,     \* slots for requests in flight
  Browsers,     \* each with its own cookies
  OtpLife,      \* OTP_EXPIRY_SECONDS: 600 s, two units
  AccessLife,   \* JWT_ACCESS_EXPIRY: 900 s, three units
  None          \* no row, no request

Numbers == 1 .. MaxRequests
NumberOrNone == 0 .. MaxRequests

Op == {"register", "verify", "resend", "refresh", "login", "logout",
       "forgot", "reset", "google"}
PC == {"read", "restore", "upsert", "send", "mail", "blacklist", "grant",
       "rotate", "reset", "clear", "create", "link", "sign", "respond"}

\* hashedOtp and otpExpiry are always written together.  age is the time since
\* createdAt, as far as the clean-up job cares.  password is false while an
\* account has only signed in with Google.
User == [verified: BOOLEAN, deleted: BOOLEAN, password: BOOLEAN,
         otp: NumberOrNone, otpLeft: 0 .. OtpLife, refresh: NumberOrNone,
         age: 0 .. AccessLife]

\* The cookies: the access token, gone after its maxAge, and the refresh token,
\* whose seven days are longer than anything here.
Jar == [access: NumberOrNone, left: 0 .. AccessLife, refresh: NumberOrNone]
NoCookies == [access |-> 0, left |-> 0, refresh |-> 0]

\* from is the browser that sent the request, code what the user typed, old the
\* access token the request came with, token the one it signed.
Request == [op: Op, pc: PC, id: Numbers, from: Browsers, code: NumberOrNone,
            old: NumberOrNone, token: NumberOrNone]

ASSUME AccountConstants ==
  /\ MaxRequests \in Nat
  /\ OtpLife \in Nat /\ AccessLife \in Nat \ {0}
  /\ None \notin User \cup Request

VARIABLES
  row,      \* the User row, or None
  life,     \* life[t]: what is left of access token t; 0 also before it is signed
  black,    \* black[t]: what is left of the entry blacklist:<t>
  jar,      \* jar[b]: the cookies of browser b
  mailed,   \* codes that reached the owner
  req,      \* req[h]: the request slot h is serving, or None
  sent,     \* number of requests so far
  uses,     \* history: how often a code was accepted, at most 2
  disturbed \* history: two requests overlapped, or one threw

vars == <<row, life, black, jar, mailed, req, sent, uses, disturbed>>

Init ==
  /\ row = None /\ jar = [b \in Browsers |-> NoCookies]
  /\ life = [t \in Numbers |-> 0] /\ black = [t \in Numbers |-> 0]
  /\ req = [h \in Handlers |-> None]
  /\ mailed = {} /\ sent = 0 /\ disturbed = FALSE
  /\ uses = [c \in Numbers |-> 0]

-----------------------------------------------------------------------------
InFlight(h) == req[h] # None

At(h, pc) == InFlight(h) /\ req[h].pc = pc

Is(h, ops) == req[h].op \in ops

Goto(h, pc) == req' = [req EXCEPT ![h].pc = pc]

End(h) == req' = [req EXCEPT ![h] = None]

\* An account that is not soft-deleted, and one that is verified as well.
Active == row # None /\ ~row.deleted
Member == Active /\ row.verified

\* JwtAuthGuard and TokenBlacklistGuard.
Authenticated(b) ==
  /\ jar[b].access # 0 /\ life[jar[b].access] > 0 /\ black[jar[b].access] = 0
  /\ Active

\* The next request arrives, from browser b, and goes on to await pc.
Start(h, b, op, pc, code) ==
  /\ ~InFlight(h) /\ sent < MaxRequests
  /\ sent' = sent + 1
  /\ req' = [req EXCEPT ![h] =
        [op |-> op, pc |-> pc, id |-> sent + 1, from |-> b, code |-> code,
         old |-> jar[b].access, token |-> 0]]
  /\ disturbed' = (disturbed \/ \E k \in Handlers : InFlight(k))
  /\ UNCHANGED <<row, life, black, jar, mailed, uses>>

\* Faulty: the token outlives its cookie and its entry in the blacklist.
SignLonger(h, pc) ==
  \E t \in Numbers :
    /\ t = req[h].id \/ life[t] = AccessLife
    /\ life' = [life EXCEPT ![t] = AccessLife + 1]
    /\ req' = [req EXCEPT ![h] = [@ EXCEPT !.token = t, !.pc = pc]]

\* signAccessToken: the token is determined by the account and the second, so
\* one signed in the same second is the same token.
Sign(h, pc) ==
  \E t \in Numbers :
    /\ t = req[h].id \/ life[t] = AccessLife
    /\ life' = [life EXCEPT ![t] = AccessLife]
    /\ req' = [req EXCEPT ![h] = [@ EXCEPT !.token = t, !.pc = pc]]

-----------------------------------------------------------------------------
\* Arrival, up to the first await that another request can make a difference to

Register(h, b) ==
  /\ ~Active
  /\ Start(h, b, "register", IF row = None THEN "upsert" ELSE "restore", 0)

VerifyOtp(h, b, c) == Authenticated(b) /\ Start(h, b, "verify", "read", c)

ResendOtp(h, b) == Authenticated(b) /\ Start(h, b, "resend", "read", 0)

ResetPassword(h, b, c) == Authenticated(b) /\ Start(h, b, "reset", "read", c)

Logout(h, b) == Authenticated(b) /\ Start(h, b, "logout", "blacklist", 0)

ForgotPassword(h, b) == Member /\ Start(h, b, "forgot", "send", 0)

Login(h, b) == Member /\ row.password /\ Start(h, b, "login", "sign", 0)

\* The controller takes the user's id from the access token in the cookie: the
\* route has no guard, so nothing else could set request.user.
Identified(b) == jar[b].access # 0

Refresh(h, b) ==
  /\ Identified(b) /\ jar[b].refresh # 0
  /\ Active /\ row.refresh = jar[b].refresh
  /\ Start(h, b, "refresh", "blacklist", 0)

\* A row is looked for by its Google id or e-mail, soft-deleted or not.
GoogleSignIn(h, b) ==
  Start(h, b, "google", IF row = None THEN "create" ELSE "link", 0)

-----------------------------------------------------------------------------
\* verifyOtp, resetPassword: the code is the stored one and in time.
ReadCode(h) ==
  /\ At(h, "read") /\ Is(h, {"verify", "reset"})
  /\ IF Active /\ row.otp = req[h].code /\ row.otpLeft > 0
       THEN Goto(h, IF Is(h, {"verify"}) THEN "blacklist" ELSE "reset")
       ELSE End(h)
  /\ UNCHANGED <<row, life, black, jar, mailed, sent, uses, disturbed>>

ReadUnverified(h) ==
  /\ At(h, "read") /\ Is(h, {"resend"})
  /\ IF Active /\ ~row.verified THEN Goto(h, "send") ELSE End(h)
  /\ UNCHANGED <<row, life, black, jar, mailed, sent, uses, disturbed>>

Restore(h) ==
  /\ At(h, "restore")
  /\ row' = [row EXCEPT !.deleted = FALSE]
  /\ Goto(h, "upsert")
  /\ UNCHANGED <<life, black, jar, mailed, sent, uses, disturbed>>

\* createdAt is kept if the row exists.
Upsert(h) ==
  /\ At(h, "upsert")
  /\ row' = [verified |-> FALSE, deleted |-> FALSE, password |-> TRUE,
             otp |-> req[h].id, otpLeft |-> OtpLife, refresh |-> 0,
             age |-> IF row = None THEN 0 ELSE row.age]
  /\ Goto(h, "mail")
  /\ UNCHANGED <<life, black, jar, mailed, sent, uses, disturbed>>

Send(h) ==
  /\ At(h, "send")
  /\ row' = [row EXCEPT !.otp = req[h].id, !.otpLeft = OtpLife]
  /\ Goto(h, "mail")
  /\ UNCHANGED <<life, black, jar, mailed, sent, uses, disturbed>>

Mail(h) ==
  /\ At(h, "mail")
  /\ mailed' = mailed \cup {req[h].id}
  /\ IF Is(h, {"resend"}) THEN End(h) /\ UNCHANGED life ELSE Sign(h, "respond")
  /\ UNCHANGED <<row, black, jar, sent, uses, disturbed>>

\* clearAuthCookies: of the browser that asked.
ClearCookies(h) == jar' = [jar EXCEPT ![req[h].from] = NoCookies]

\* Faulty: the entry lives as long as a code, not as long as a token.
BlacklistShortly(h) ==
  /\ At(h, "blacklist")
  /\ black' = [black EXCEPT ![req[h].old] = OtpLife]
  /\ CASE Is(h, {"verify"})  -> Sign(h, "grant") /\ UNCHANGED jar
       [] Is(h, {"refresh"}) -> Sign(h, "rotate") /\ UNCHANGED jar
       [] Is(h, {"logout"})  -> Goto(h, "clear") /\ UNCHANGED <<life, jar>>
       [] Is(h, {"reset"})   -> End(h) /\ ClearCookies(h) /\ UNCHANGED life
  /\ UNCHANGED <<row, mailed, sent, uses, disturbed>>

\* blacklistOldAccessToken, and what its caller does next without an await that
\* matters: sign the new token, or clear the cookies.
Blacklist(h) ==
  /\ At(h, "blacklist")
  /\ black' = [black EXCEPT ![req[h].old] = AccessLife]
  /\ CASE Is(h, {"verify"})  -> Sign(h, "grant") /\ UNCHANGED jar
       [] Is(h, {"refresh"}) -> Sign(h, "rotate") /\ UNCHANGED jar
       [] Is(h, {"logout"})  -> Goto(h, "clear") /\ UNCHANGED <<life, jar>>
       [] Is(h, {"reset"})   -> End(h) /\ ClearCookies(h) /\ UNCHANGED life
  /\ UNCHANGED <<row, mailed, sent, uses, disturbed>>

Used(c) == [uses EXCEPT ![c] = IF @ < 2 THEN @ + 1 ELSE @]

SignLogin(h) ==
  /\ At(h, "sign")
  /\ Sign(h, "grant")
  /\ UNCHANGED <<row, black, jar, mailed, sent, uses, disturbed>>

\* Faulty: the code stays.
GrantAgain(h) ==
  /\ At(h, "grant")
  /\ row' = [row EXCEPT !.verified = TRUE, !.refresh = req[h].id]
  /\ uses' = IF Is(h, {"verify"}) THEN Used(req[h].code) ELSE uses
  /\ Goto(h, "respond")
  /\ UNCHANGED <<life, black, jar, mailed, sent, disturbed>>

\* issueFullAuthTokens updates by id alone: neither the code nor deletedAt is
\* looked at again.
Grant(h) ==
  /\ At(h, "grant")
  /\ row' = [row EXCEPT !.verified = TRUE, !.otp = 0, !.otpLeft = 0,
                        !.refresh = req[h].id]
  /\ uses' = IF Is(h, {"verify"}) THEN Used(req[h].code) ELSE uses
  /\ Goto(h, "respond")
  /\ UNCHANGED <<life, black, jar, mailed, sent, disturbed>>

\* Faulty: the new refresh token is sent and not stored.
RotateCookieOnly(h) ==
  /\ At(h, "rotate")
  /\ Goto(h, "respond")
  /\ UNCHANGED <<row, life, black, jar, mailed, sent, uses, disturbed>>

Rotate(h) ==
  /\ At(h, "rotate")
  /\ row' = [row EXCEPT !.refresh = req[h].id]
  /\ Goto(h, "respond")
  /\ UNCHANGED <<life, black, jar, mailed, sent, uses, disturbed>>

\* resetPassword does not ask whether the account is verified.
Reset(h) ==
  /\ At(h, "reset")
  /\ row' = [row EXCEPT !.password = TRUE, !.otp = 0, !.otpLeft = 0,
                        !.refresh = 0]
  /\ uses' = Used(req[h].code)
  /\ Goto(h, "blacklist")
  /\ UNCHANGED <<life, black, jar, mailed, sent, disturbed>>

Clear(h) ==
  /\ At(h, "clear")
  /\ row' = [row EXCEPT !.refresh = 0]
  /\ ClearCookies(h)
  /\ End(h)
  /\ UNCHANGED <<life, black, mailed, sent, uses, disturbed>>

\* The unique e-mail turns a second row into an exception.
Create(h) ==
  /\ At(h, "create")
  /\ IF row = None
       THEN /\ row' = [verified |-> TRUE, deleted |-> FALSE, password |-> FALSE,
                       otp |-> 0, otpLeft |-> 0, refresh |-> 0, age |-> 0]
            /\ Sign(h, "rotate")
            /\ UNCHANGED disturbed
       ELSE /\ End(h)
            /\ disturbed' = TRUE
            /\ UNCHANGED <<row, life>>
  /\ UNCHANGED <<black, jar, mailed, sent, uses>>

\* deletedAt stays as it is.
Link(h) ==
  /\ At(h, "link")
  /\ row' = [row EXCEPT !.verified = TRUE]
  /\ Sign(h, "rotate")
  /\ UNCHANGED <<black, jar, mailed, sent, uses, disturbed>>

\* register and forgotPassword set the access cookie only.
Respond(h) ==
  /\ At(h, "respond")
  /\ jar' = [jar EXCEPT ![req[h].from] =
       [access |-> req[h].token, left |-> AccessLife,
        refresh |-> IF Is(h, {"register", "forgot"}) THEN @.refresh ELSE req[h].id]]
  /\ End(h)
  /\ UNCHANGED <<row, life, black, mailed, sent, uses, disturbed>>

\* An await throws, or the process stops: what was written stays.
Fail(h) ==
  /\ InFlight(h)
  /\ End(h)
  /\ disturbed' = TRUE
  /\ UNCHANGED <<row, life, black, jar, mailed, sent, uses>>

-----------------------------------------------------------------------------
\* Faulty: verified accounts, whose code for a reset has expired, go as well.
CleanUpVerified ==
  /\ Active /\ row.otp # 0 /\ row.otpLeft = 0 /\ row.age = AccessLife
  /\ row' = [row EXCEPT !.deleted = TRUE]
  /\ UNCHANGED <<life, black, jar, mailed, req, sent, uses, disturbed>>

\* Faulty: accounts are cleaned up while they are young.
CleanUpYoung ==
  /\ Active /\ ~row.verified
  /\ row.otp # 0 /\ row.otpLeft = 0 /\ row.age < AccessLife
  /\ row' = [row EXCEPT !.deleted = TRUE]
  /\ UNCHANGED <<life, black, jar, mailed, req, sent, uses, disturbed>>

\* cleanupExpiredUnverifiedUsers is one updateMany; it passes over an account
\* without an otpExpiry.
CleanUp ==
  /\ Active /\ ~row.verified
  /\ row.otp # 0 /\ row.otpLeft = 0 /\ row.age = AccessLife
  /\ row' = [row EXCEPT !.deleted = TRUE]
  /\ UNCHANGED <<life, black, jar, mailed, req, sent, uses, disturbed>>

Less(n) == IF n = 0 THEN 0 ELSE n - 1

\* Five minutes pass: codes, tokens, blacklist entries and cookies expire.
Tick ==
  /\ row' = IF row = None THEN None
            ELSE [row EXCEPT !.otpLeft = Less(@),
                             !.age = IF @ < AccessLife THEN @ + 1 ELSE @]
  /\ life' = [t \in Numbers |-> Less(life[t])]
  /\ black' = [t \in Numbers |-> Less(black[t])]
  /\ jar' = [b \in Browsers |->
       [jar[b] EXCEPT !.left = Less(@), !.access = IF jar[b].left > 1 THEN @ ELSE 0]]
  /\ UNCHANGED <<mailed, req, sent, uses, disturbed>>

Arrive(h, b) ==
  \/ Register(h, b) \/ ResendOtp(h, b) \/ Logout(h, b) \/ ForgotPassword(h, b)
  \/ Login(h, b) \/ Refresh(h, b) \/ GoogleSignIn(h, b)
  \/ \E c \in mailed : VerifyOtp(h, b, c) \/ ResetPassword(h, b, c)

Continue(h) ==
  \/ ReadCode(h) \/ ReadUnverified(h) \/ Restore(h) \/ Upsert(h) \/ Send(h)
  \/ Mail(h) \/ Blacklist(h) \/ SignLogin(h) \/ Grant(h) \/ Rotate(h)
  \/ Reset(h) \/ Clear(h) \/ Create(h) \/ Link(h) \/ Respond(h)

Next ==
  \/ \E h \in Handlers : Continue(h) \/ Fail(h) \/ \E b \in Browsers : Arrive(h, b)
  \/ CleanUp
  \/ Tick

Spec == Init /\ [][Next]_vars

\* Awaits settle, time passes and the job runs every five minutes; nobody must
\* send a request.
FairSpec ==
  /\ Spec /\ WF_vars(Tick) /\ WF_vars(CleanUp)
  /\ \A h \in Handlers : WF_vars(Continue(h))

-----------------------------------------------------------------------------
TypeOK ==
  /\ row \in User \cup {None}
  /\ life \in [Numbers -> 0 .. AccessLife]
  /\ black \in [Numbers -> 0 .. AccessLife]
  /\ jar \in [Browsers -> Jar]
  /\ mailed \subseteq Numbers
  /\ req \in [Handlers -> Request \cup {None}]
  /\ sent \in NumberOrNone
  /\ uses \in [Numbers -> 0 .. 2]
  /\ disturbed \in BOOLEAN

\* blacklistOldAccessToken: the entry of a revoked token outlives the token,
\* also when a token of the same second is signed again or two requests revoke
\* the same one, so a revoked token never comes back.
RevocationHolds ==
  [][\A t \in Numbers : black[t] > 0 /\ life'[t] > 0 => black'[t] > 0]_vars

Registering == \E h \in Handlers : InFlight(h) /\ Is(h, {"register"})

\* Once verified, an account stays so and is not cleaned up, although codes for
\* a password reset expire on it like those of a registration.  (A registration
\* that found the row deleted may still overwrite it.)
MembersStay == [][Member /\ ~Registering => Member']_vars

\* cleanupExpiredUnverifiedUsers: a registration does not stay unfinished.  Once
\* no more codes are asked for, the account is verified or soft-deleted, or its
\* code went into a password reset, which leaves the job nothing to find.
UnfinishedEnds ==
  Active /\ ~row.verified ~> ~Active \/ row.verified \/ row.otp = 0

Idle == \A h \in Handlers : ~InFlight(h)

\* verifyOtp, resetPassword: requests that do not overlap use a code once,
\* although neither update compares it with the stored one again.
CodesServeOnce == ~disturbed => \A c \in Numbers : uses[c] < 2

\* refresh, login, logout, resetPassword: requests that do not overlap never
\* orphan a session.  While the row has a refresh token, some browser has it in
\* its cookie: the one that signed in or refreshed last, so rotation logs nobody
\* out who was not logged out by a sign-in elsewhere.  (That overwrites the one
\* refreshToken of the row, and a logout or a reset anywhere erases it, while other
\* browsers keep a cookie that is good for nothing.)
SessionHolds ==
  ~disturbed /\ Idle /\ Member /\ row.refresh # 0 =>
    \E b \in Browsers : jar[b].refresh = row.refresh
=============================================================================
