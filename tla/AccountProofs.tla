--------------------------- MODULE AccountProofs ---------------------------
(***************************************************************************)
(* A revoked access token stays revoked for as long as it lives, and a     *)
(* member stays a member, for any number of requests that overlap, fail    *)
(* and sign in the same second; and what holds of requests that do not     *)
(* overlap: a code serves once, and the stored session is never orphaned.  *)
(***************************************************************************)
EXTENDS Account, TLAPS

\* No token n has been signed, as far as lives, the blacklist and the browsers
\* are concerned.
Unused(n) == life[n] = 0 /\ black[n] = 0 /\ \A b \in Browsers : jar[b].access # n

\* Nor does a request refer to one.
Fresh(n) ==
  /\ Unused(n)
  /\ \A k \in Handlers : InFlight(k) => req[k].old # n /\ req[k].token # n

\* The awaits after which a request has signed its token.
SignedAt == {"grant", "rotate", "respond"}

\* Where a request does not need the row to exist.
RowlessAt == {"read", "create", "upsert"}

\* The operations that come to an await.
RightOp(pc, op) ==
  /\ pc = "blacklist" => op \in {"verify", "refresh", "logout", "reset"}
  /\ pc = "reset" => op = "reset"
  /\ pc \in {"restore", "upsert"} => op = "register"
  /\ pc = "send" => op \in {"resend", "forgot"}
  /\ pc = "mail" => op \in {"register", "resend", "forgot"}
  /\ pc = "sign" => op = "login"
  /\ pc \in {"create", "link"} => op = "google"
  /\ pc = "grant" => op \in {"verify", "login"}
  /\ pc = "rotate" => op \in {"refresh", "google"}

RequestOK(h) ==
  /\ req[h].id <= sent
  /\ req[h].pc \notin SignedAt => req[h].token = 0
  /\ req[h].token = 0 => Fresh(req[h].id)
  /\ req[h].pc \notin RowlessAt => row # None
  /\ RightOp(req[h].pc, req[h].op)

Requests == \A h \in Handlers : InFlight(h) => RequestOK(h)

IdsDiffer ==
  \A h, k \in Handlers : InFlight(h) /\ InFlight(k) /\ h # k => req[h].id # req[k].id

FreshAbove == \A n \in Numbers : n > sent => Fresh(n)

\* The entry of a revoked token lives at least as long as the token.
Outlives == \A t \in Numbers : black[t] > 0 => black[t] >= life[t]

Inv == TypeOK /\ Requests /\ IdsDiffer /\ FreshAbove /\ Outlives

LEMMA NoneIsNothing == None \notin User /\ None \notin Request
BY AccountConstants

LEMMA Bounds ==
  /\ MaxRequests \in Nat /\ OtpLife \in Nat /\ AccessLife \in Nat /\ AccessLife > 0
  /\ \A n \in Numbers : n \in Nat /\ n # 0
BY AccountConstants DEF Numbers

\* A request and what becomes of it when it goes on to await pc.
LEMMA Updates ==
  ASSUME req \in [Handlers -> Request \cup {None}], NEW h \in Handlers, InFlight(h)
  PROVE  /\ req[h] \in Request
         /\ req[h].pc \in PC /\ req[h].op \in Op /\ req[h].id \in Numbers
         /\ req[h].old \in NumberOrNone /\ req[h].code \in NumberOrNone
         /\ req[h].token \in NumberOrNone
         /\ \A pc \in PC :
              LET r == [req[h] EXCEPT !.pc = pc] IN
                /\ r \in Request /\ r.pc = pc /\ r.op = req[h].op /\ r.id = req[h].id
                /\ r.old = req[h].old /\ r.token = req[h].token
                /\ [req EXCEPT ![h].pc = pc] = [req EXCEPT ![h] = r]
<1>1. req[h] \in Request
  BY DEF InFlight
<1>2. \A pc \in PC :
        LET r == [req[h] EXCEPT !.pc = pc] IN
          /\ r \in Request /\ r.pc = pc /\ r.op = req[h].op /\ r.id = req[h].id
          /\ r.old = req[h].old /\ r.token = req[h].token
          /\ [req EXCEPT ![h].pc = pc] = [req EXCEPT ![h] = r]
  BY <1>1 DEF Request
<1>3. /\ req[h].pc \in PC /\ req[h].op \in Op /\ req[h].id \in Numbers
      /\ req[h].old \in NumberOrNone /\ req[h].code \in NumberOrNone
      /\ req[h].token \in NumberOrNone
  BY <1>1 DEF Request
<1> QED
  BY <1>1, <1>2, <1>3

\* A step of the request in slot h: what the others rely on is kept.
LEMMA SlotStep ==
  ASSUME Inv, NEW h \in Handlers, InFlight(h), NEW r \in Request \cup {None},
         req' = [req EXCEPT ![h] = r], sent' = sent, row # None => row' # None,
         r # None =>
           /\ r.id = req[h].id /\ r.old = req[h].old
           /\ r.pc \notin SignedAt => r.token = 0
           /\ r.token = 0 => req[h].token = 0 /\ Unused(r.id)'
           /\ r.token # 0 => \/ r.token \in {req[h].token, req[h].id}
                             \/ r.token \in Numbers /\ life[r.token] > 0
           /\ r.pc \notin RowlessAt => row' # None
           /\ RightOp(r.pc, r.op),
         \A n \in Numbers : n # req[h].id /\ Fresh(n) => Unused(n)'
  PROVE  /\ req' \in [Handlers -> Request \cup {None}]
         /\ Requests' /\ IdsDiffer' /\ FreshAbove'
<1>1. req \in [Handlers -> Request \cup {None}] /\ sent \in NumberOrNone
  BY DEF Inv, TypeOK
<1>2. /\ req' \in [Handlers -> Request \cup {None}] /\ req'[h] = r
      /\ \A k \in Handlers \ {h} : req'[k] = req[k]
  BY <1>1
<1>3. /\ RequestOK(h) /\ req[h].id \in Numbers /\ req[h].token \in NumberOrNone
      /\ req[h].id \in Nat /\ sent \in Nat
  <2>1. req[h].id \in Numbers /\ req[h].token \in NumberOrNone
    BY <1>1, Updates
  <2>2. req[h].id \in Nat /\ sent \in Nat
    BY <1>1, <2>1, Bounds DEF NumberOrNone
  <2> QED
    BY <2>1, <2>2 DEF Inv, Requests
<1>4. ASSUME NEW n \in Numbers, n # req[h].id, Fresh(n)
      PROVE  Fresh(n)'
  <2>1. Unused(n)'
    BY <1>4
  <2>2. req[h].old # n /\ req[h].token # n /\ life[n] = 0
    BY <1>4 DEF Fresh, Unused
  <2>3. r # None => r.old # n /\ r.token # n
    BY <1>4, <2>2, Bounds
  <2>4. \A k \in Handlers : InFlight(k)' => req'[k].old # n /\ req'[k].token # n
    BY <1>2, <1>4, <2>3 DEF Fresh, InFlight
  <2> QED
    BY <2>1, <2>4 DEF Fresh
<1>5. FreshAbove'
  BY <1>3, <1>4 DEF Inv, FreshAbove, RequestOK, Numbers
<1>6. IdsDiffer'
  BY <1>2 DEF Inv, IdsDiffer, InFlight
<1>7. ASSUME NEW k \in Handlers, k # h, InFlight(k)'
      PROVE  RequestOK(k)'
  <2>1. req'[k] = req[k] /\ InFlight(k) /\ RequestOK(k) /\ req[k].id \in Numbers
    BY <1>1, <1>2, <1>7, Updates DEF InFlight, Inv, Requests
  <2>2. req[k].id # req[h].id
    BY <1>7, <2>1 DEF Inv, IdsDiffer
  <2> QED
    BY <1>4, <2>1, <2>2 DEF RequestOK
<1>8. ASSUME r # None
      PROVE  RequestOK(h)'
  <2>1. r.token = 0 => Fresh(r.id)'
    <3>1. r.token = 0 => Fresh(r.id) /\ Unused(r.id)'
      BY <1>3, <1>8 DEF RequestOK
    <3>2. r.token = 0 => r.old # r.id /\ r.token # r.id
      BY <1>3, <1>8, <3>1, Bounds DEF Fresh
    <3>3. r.token = 0 => \A k \in Handlers : InFlight(k)' =>
             req'[k].old # r.id /\ req'[k].token # r.id
      BY <1>2, <3>1, <3>2 DEF Fresh, InFlight
    <3> QED
      BY <3>1, <3>3 DEF Fresh
  <2> QED
    BY <1>2, <1>3, <1>8, <2>1 DEF RequestOK
<1> QED
  BY <1>2, <1>5, <1>6, <1>7, <1>8 DEF Requests, InFlight

\* A request goes on to pc without signing a token, or ends.
LEMMA QuietStep ==
  ASSUME Inv, NEW h \in Handlers, InFlight(h), NEW pc \in PC,
         \/ End(h)
         \/ /\ Goto(h, pc)
            /\ pc \notin SignedAt => req[h].pc \notin SignedAt
            /\ pc \in RowlessAt \/ row' # None
            /\ RightOp(pc, req[h].op),
         sent' = sent,
         row' \in User \cup {None}, row # None => row' # None,
         life' = life,
         black' \in {black, [black EXCEPT ![req[h].old] = AccessLife]},
         \A b \in Browsers : \/ jar'[b] \in {jar[b], NoCookies}
                             \/ jar'[b].access = req[h].token
  PROVE  /\ req' \in [Handlers -> Request \cup {None}]
         /\ Requests' /\ IdsDiffer' /\ FreshAbove' /\ Outlives'
<1>1. /\ req \in [Handlers -> Request \cup {None}] /\ RequestOK(h)
      /\ life \in [Numbers -> 0 .. AccessLife] /\ black \in [Numbers -> 0 .. AccessLife]
  BY DEF Inv, TypeOK, Requests
<1>2. PICK r : r = IF End(h) THEN None ELSE [req[h] EXCEPT !.pc = pc]
  OBVIOUS
<1>3. r \in Request \cup {None} /\ req' = [req EXCEPT ![h] = r]
  BY <1>1, <1>2, Updates DEF Goto, End
<1>4. r # None =>
        /\ ~End(h) /\ r.pc = pc /\ r.op = req[h].op /\ r.id = req[h].id
        /\ r.old = req[h].old /\ r.token = req[h].token
  BY <1>1, <1>2, Updates
<1>5. \A n \in Numbers : black'[n] # black[n] => n = req[h].old
  BY <1>1
<1>6. \A n \in Numbers : Fresh(n) => Unused(n)'
  <2> SUFFICES ASSUME NEW n \in Numbers, Fresh(n)
               PROVE  Unused(n)'
    OBVIOUS
  <2>1. /\ n # req[h].old /\ n # req[h].token
        /\ life[n] = 0 /\ black[n] = 0 /\ \A b \in Browsers : jar[b].access # n
    BY DEF Fresh, Unused
  <2>2. \A b \in Browsers : jar'[b].access # n
    BY <2>1, Bounds DEF NoCookies
  <2> QED
    BY <1>5, <2>1, <2>2 DEF Unused
<1>7. r # None /\ r.token = 0 => req[h].token = 0 /\ Unused(r.id)'
  BY <1>1, <1>4, <1>6, Updates DEF RequestOK
<1>8. /\ r # None => (r.pc \notin SignedAt => r.token = 0)
      /\ r # None => (r.pc \notin RowlessAt => row' # None)
      /\ r # None => RightOp(r.pc, r.op)
  BY <1>1, <1>4 DEF RequestOK
<1>9. Outlives'
  <2> SUFFICES ASSUME NEW t \in Numbers, black'[t] > 0
               PROVE  black'[t] >= life[t]
    BY DEF Outlives
  <2>1. CASE black'[t] = black[t]
    BY <2>1 DEF Inv, Outlives
  <2>2. CASE black'[t] # black[t]
    BY <1>1, <2>2, Bounds
  <2> QED
    BY <2>1, <2>2
<1> QED
  BY <1>3, <1>4, <1>6, <1>7, <1>8, <1>9, SlotStep

\* A request signs its token, and may have revoked the one it came with.
LEMMA SignStep ==
  ASSUME Inv, NEW h \in Handlers, InFlight(h), NEW pc \in SignedAt, Sign(h, pc),
         req[h].pc \notin SignedAt, sent' = sent, jar' = jar,
         row' \in User, black' \in {black, [black EXCEPT ![req[h].old] = AccessLife]},
         RightOp(pc, req[h].op)
  PROVE  /\ req' \in [Handlers -> Request \cup {None}]
         /\ life' \in [Numbers -> 0 .. AccessLife]
         /\ black' \in [Numbers -> 0 .. AccessLife]
         /\ Requests' /\ IdsDiffer' /\ FreshAbove' /\ Outlives'
<1>1. /\ req \in [Handlers -> Request \cup {None}] /\ RequestOK(h)
      /\ life \in [Numbers -> 0 .. AccessLife] /\ black \in [Numbers -> 0 .. AccessLife]
  BY DEF Inv, TypeOK, Requests
<1>2. PICK t \in Numbers :
        /\ t = req[h].id \/ life[t] = AccessLife
        /\ life' = [life EXCEPT ![t] = AccessLife]
        /\ req' = [req EXCEPT ![h] = [req[h] EXCEPT !.token = t, !.pc = pc]]
  BY <1>1 DEF Sign
<1>3. PICK r : r = [req[h] EXCEPT !.token = t, !.pc = pc]
  OBVIOUS
<1>4. pc \in PC /\ pc \notin RowlessAt /\ RightOp(pc, req[h].op) /\ row' # None
  BY NoneIsNothing DEF SignedAt, PC, RowlessAt
<1>5. /\ r \in Request /\ req' = [req EXCEPT ![h] = r] /\ r.pc = pc /\ r.op = req[h].op
      /\ r.id = req[h].id /\ r.old = req[h].old /\ r.token = t
  <2>1. /\ r \in Request /\ r.pc = pc /\ r.op = req[h].op
        /\ r.id = req[h].id /\ r.old = req[h].old /\ r.token = t
    <3>1. req[h] \in Request /\ t \in NumberOrNone
      BY <1>1, Updates DEF Numbers, NumberOrNone
    <3> QED
      BY <1>3, <1>4, <3>1 DEF Request
  <2>2. req' = [req EXCEPT ![h] = r]
    BY <1>2, <1>3
  <2> QED
    BY <2>1, <2>2
<1>6. /\ life' \in [Numbers -> 0 .. AccessLife]
      /\ black' \in [Numbers -> 0 .. AccessLife]
      /\ AccessLife \in Nat /\ AccessLife > 0
  <2>1. AccessLife \in Nat /\ AccessLife > 0 /\ AccessLife \in 0 .. AccessLife
    BY Bounds
  <2>2. [black EXCEPT ![req[h].old] = AccessLife] \in [Numbers -> 0 .. AccessLife]
    BY <1>1, <2>1
  <2>3. [life EXCEPT ![t] = AccessLife] \in [Numbers -> 0 .. AccessLife]
    BY <1>1, <2>1
  <2> QED
    BY <1>1, <1>2, <2>1, <2>2, <2>3
<1>7. Fresh(req[h].id) /\ req[h].id \in Numbers
  BY <1>1, Updates DEF RequestOK
<1>8. \A n \in Numbers : n # req[h].id /\ Fresh(n) => Unused(n)'
  <2> SUFFICES ASSUME NEW n \in Numbers, n # req[h].id, Fresh(n)
               PROVE  Unused(n)'
    OBVIOUS
  <2>1. n # req[h].old /\ life[n] = 0 /\ black[n] = 0
        /\ \A b \in Browsers : jar[b].access # n
    BY DEF Fresh, Unused
  <2>2. n # t
    BY <1>2, <1>6, <2>1
  <2> QED
    BY <1>1, <1>2, <2>1, <2>2 DEF Unused
<1>9. Outlives'
  <2> SUFFICES ASSUME NEW s \in Numbers, black'[s] > 0
               PROVE  black'[s] >= life'[s]
    BY DEF Outlives
  <2>1. CASE black'[s] # black[s]
    BY <1>1, <1>6, <2>1
  <2>2. CASE black'[s] = black[s] /\ s # t
    BY <1>1, <1>2, <2>2 DEF Inv, Outlives
  <2>3. CASE black'[s] = black[s] /\ s = t
    <3>1. life[t] = AccessLife
      BY <1>2, <1>7, <2>3 DEF Fresh, Unused
    <3> QED
      BY <1>1, <1>2, <1>6, <2>3, <3>1 DEF Inv, Outlives
  <2> QED
    BY <2>1, <2>2, <2>3
<1>10. t # 0 /\ t \in Numbers /\ (t = req[h].id \/ life[t] > 0)
  BY <1>2, <1>6, Bounds
<1> QED
  BY <1>4, <1>5, <1>6, <1>8, <1>9, <1>10, SlotStep

\* The next request: nothing refers to its number yet.
LEMMA StartStep ==
  ASSUME Inv, NEW h \in Handlers, NEW b \in Browsers, NEW op \in Op,
         NEW pc \in PC \ SignedAt, NEW code \in NumberOrNone, Start(h, b, op, pc, code),
         pc \in RowlessAt \/ row # None,
         RightOp(pc, op)
  PROVE  Inv'
<1>1. /\ req \in [Handlers -> Request \cup {None}] /\ sent \in Nat /\ jar \in [Browsers -> Jar]
      /\ sent' = sent + 1 /\ sent + 1 \in Numbers /\ sent' \in NumberOrNone
      /\ ~InFlight(h) /\ disturbed' \in BOOLEAN
      /\ UNCHANGED <<row, life, black, jar, mailed, uses>>
  BY Bounds DEF Inv, TypeOK, Start, Numbers, NumberOrNone
<1>2. PICK r : r = [op |-> op, pc |-> pc, id |-> sent + 1, from |-> b, code |-> code,
                    old |-> jar[b].access, token |-> 0]
  OBVIOUS
<1>3. req' = [req EXCEPT ![h] = r]
  BY <1>2 DEF Start
<1>4. /\ r \in Request /\ r # None /\ r.op = op /\ r.pc = pc /\ r.id = sent'
      /\ r.old = jar[b].access /\ r.token = 0
  <2>1. jar[b].access \in NumberOrNone /\ 0 \in NumberOrNone
    BY <1>1, Bounds DEF Jar, NumberOrNone
  <2>2. r \in Request
    BY <1>1, <1>2, <2>1 DEF Request
  <2> QED
    BY <1>1, <1>2, <2>2, NoneIsNothing
<1>5. req' \in [Handlers -> Request \cup {None}] /\ req'[h] = r
      /\ \A k \in Handlers \ {h} : req'[k] = req[k]
  BY <1>1, <1>3, <1>4
<1>6. \A n \in Numbers : Fresh(n) => Fresh(n)'
  BY <1>1, <1>4, <1>5, Bounds DEF Fresh, Unused, InFlight
<1>7. \A k \in Handlers : InFlight(k) => req[k].id \in Numbers /\ req[k].id <= sent
  BY <1>1, Updates DEF Inv, Requests, RequestOK
<1>8. FreshAbove' /\ Fresh(r.id)'
  <2>1. FreshAbove'
    BY <1>1, <1>6, Bounds DEF Inv, FreshAbove
  <2>2. PICK n : n = r.id
    OBVIOUS
  <2>3. n \in Numbers /\ n > sent
    BY <1>1, <1>4, <2>2
  <2>4. Fresh(n)'
    BY <1>6, <2>3 DEF Inv, FreshAbove
  <2> QED
    BY <2>1, <2>2, <2>4
<1>9. IdsDiffer'
  BY <1>1, <1>4, <1>5, <1>7, Bounds DEF Inv, IdsDiffer, InFlight
<1>10. ASSUME NEW k \in Handlers, InFlight(k)'
       PROVE  RequestOK(k)'
  <2>1. CASE k = h
    BY <1>1, <1>4, <1>5, <1>8, <2>1 DEF RequestOK
  <2>2. CASE k # h
    <3>1. req'[k] = req[k] /\ RequestOK(k) /\ req[k].id \in Numbers
      BY <1>5, <1>7, <1>10, <2>2 DEF InFlight, Inv, Requests
    <3> QED
      BY <1>1, <1>6, <1>7, <3>1, Bounds DEF RequestOK
  <2> QED
    BY <2>1, <2>2
<1>11. Requests' /\ TypeOK' /\ Outlives'
  BY <1>1, <1>5, <1>10 DEF Requests, Inv, TypeOK, Outlives
<1> QED
  BY <1>8, <1>9, <1>11 DEF Inv

LEMMA ArriveStep ==
  ASSUME Inv, NEW h \in Handlers, NEW b \in Browsers, Arrive(h, b)
  PROVE  Inv'
<1>1. 0 \in NumberOrNone /\ mailed \subseteq NumberOrNone
  <2>1. mailed \subseteq Numbers /\ Numbers \subseteq NumberOrNone
    BY DEF Inv, TypeOK, Numbers, NumberOrNone
  <2>2. 0 \in NumberOrNone
    BY Bounds DEF NumberOrNone
  <2> QED
    BY <2>1, <2>2
<1> USE DEF Op, PC, SignedAt, RowlessAt, RightOp
<1>2. CASE Register(h, b)
  BY <1>1, <1>2, StartStep DEF Register
<1>3. CASE ResendOtp(h, b)
  BY <1>1, <1>3, StartStep DEF ResendOtp
<1>4. CASE Logout(h, b)
  BY <1>1, <1>4, StartStep DEF Logout, Authenticated, Active
<1>5. CASE ForgotPassword(h, b)
  BY <1>1, <1>5, StartStep DEF ForgotPassword, Member, Active
<1>6. CASE Login(h, b)
  BY <1>1, <1>6, StartStep DEF Login, Member, Active
<1>7. CASE Refresh(h, b)
  BY <1>1, <1>7, StartStep DEF Refresh, Active
<1>8. CASE GoogleSignIn(h, b)
  BY <1>1, <1>8, StartStep DEF GoogleSignIn
<1>9. ASSUME NEW c \in mailed, VerifyOtp(h, b, c) \/ ResetPassword(h, b, c)
      PROVE  Inv'
  BY <1>1, <1>9, StartStep DEF VerifyOtp, ResetPassword
<1> QED
  BY <1>2, <1>3, <1>4, <1>5, <1>6, <1>7, <1>8, <1>9 DEF Arrive

\* What the updates of the row store.
LEMMA RowTypes ==
  ASSUME NEW u \in User, NEW n \in Numbers
  PROVE  /\ [u EXCEPT !.deleted = FALSE] \in User /\ [u EXCEPT !.deleted = TRUE] \in User
         /\ [u EXCEPT !.otp = n, !.otpLeft = OtpLife] \in User
         /\ [u EXCEPT !.verified = TRUE, !.otp = 0, !.otpLeft = 0, !.refresh = n] \in User
         /\ [u EXCEPT !.refresh = n] \in User /\ [u EXCEPT !.refresh = 0] \in User
         /\ [u EXCEPT !.password = TRUE, !.otp = 0, !.otpLeft = 0, !.refresh = 0] \in User
         /\ [u EXCEPT !.verified = TRUE] \in User
<1>1. /\ n \in NumberOrNone /\ 0 \in NumberOrNone
      /\ 0 \in 0 .. OtpLife /\ OtpLife \in 0 .. OtpLife
  BY Bounds DEF Numbers, NumberOrNone
<1> QED
  BY <1>1 DEF User

LEMMA UsedTypes ==
  ASSUME uses \in [Numbers -> 0 .. 2], NEW c
  PROVE  Used(c) \in [Numbers -> 0 .. 2]
<1> DEFINE n == IF uses[c] < 2 THEN uses[c] + 1 ELSE uses[c]
<1>1. c \in Numbers => n \in 0 .. 2
  OBVIOUS
<1>2. Used(c) = [uses EXCEPT ![c] = n]
  BY DEF Used
<1> HIDE DEF n
<1> QED
  BY <1>1, <1>2

LEMMA JarTypes ==
  /\ NoCookies \in Jar /\ NoCookies.access = 0 /\ NoCookies.refresh = 0
  /\ \A t, r \in NumberOrNone :
       LET new == [access |-> t, left |-> AccessLife, refresh |-> r] IN
         new \in Jar /\ new.access = t
  /\ \A j \in Jar : j.refresh \in NumberOrNone
BY Bounds DEF NoCookies, Jar, NumberOrNone

\* Only the cookies of the browser that asked are cleared, or set.
LEMMA CookieSteps ==
  ASSUME TypeOK, NEW h \in Handlers, InFlight(h), ClearCookies(h) \/ Respond(h)
  PROVE  /\ jar' \in [Browsers -> Jar]
         /\ \A b \in Browsers : \/ jar'[b] \in {jar[b], NoCookies}
                                \/ jar'[b].access = req[h].token
<1>1. /\ req[h].from \in Browsers /\ req[h].token \in NumberOrNone
      /\ req[h].id \in NumberOrNone /\ jar \in [Browsers -> Jar]
  <2>1. req[h] \in Request
    BY DEF TypeOK, InFlight
  <2> QED
    BY <2>1, Bounds DEF Request, Numbers, NumberOrNone, TypeOK
<1>2. CASE ClearCookies(h)
  BY <1>1, <1>2, JarTypes DEF ClearCookies
<1>3. CASE Respond(h)
  <2>1. PICK refresh \in NumberOrNone :
          jar' = [jar EXCEPT ![req[h].from] =
                    [access |-> req[h].token, left |-> AccessLife, refresh |-> refresh]]
    <3>1. jar[req[h].from].refresh \in NumberOrNone
      BY <1>1, JarTypes
    <3> QED
      BY <1>1, <1>3, <3>1 DEF Respond
  <2>2. PICK new \in Jar :
          new = [access |-> req[h].token, left |-> AccessLife, refresh |-> refresh]
          /\ new.access = req[h].token
    BY <1>1, JarTypes
  <2> QED
    BY <1>1, <2>1, <2>2
<1> QED
  BY <1>2, <1>3

\* The requests that only move on, write the row, or give the cookies back.
LEMMA QuietSteps ==
  ASSUME Inv, NEW h \in Handlers, InFlight(h),
         \/ ReadCode(h) \/ ReadUnverified(h) \/ Restore(h) \/ Upsert(h) \/ Send(h)
         \/ Grant(h) \/ Rotate(h) \/ Reset(h) \/ Clear(h) \/ Respond(h) \/ Fail(h)
  PROVE  Inv'
<1>1. /\ TypeOK /\ RequestOK(h) /\ req[h] \in Request
      /\ req[h].id \in Numbers /\ req[h].token \in NumberOrNone
      /\ 0 \in NumberOrNone /\ req[h].id \in NumberOrNone
      /\ RightOp(req[h].pc, req[h].op)
  BY Updates, Bounds DEF Inv, TypeOK, Requests, RequestOK, Numbers, NumberOrNone
<1>2. req[h].pc \notin RowlessAt => row \in User
  BY <1>1 DEF TypeOK, RequestOK
<1>3. Active => row \in User /\ row # None
  BY <1>1 DEF Active, TypeOK
<1> USE DEF PC, SignedAt, RowlessAt, RightOp, At
<1>4. CASE ReadCode(h)
  <2>1. PICK pc \in PC : pc = IF req[h].op = "verify" THEN "blacklist" ELSE "reset"
    OBVIOUS
  <2>2. /\ \/ End(h)
           \/ Goto(h, pc) /\ row # None
        /\ RightOp(pc, req[h].op)
        /\ req[h].pc = "read"
        /\ UNCHANGED <<row, life, black, jar, mailed, sent, uses, disturbed>>
    BY <1>3, <1>4, <2>1 DEF ReadCode, Is
  <2> QED
    BY <1>1, <2>1, <2>2, QuietStep DEF Inv, TypeOK
<1>5. CASE ReadUnverified(h)
  <2>1. /\ \/ End(h)
           \/ /\ Goto(h, "send")
              /\ row # None /\ RightOp("send", req[h].op)
        /\ UNCHANGED <<row, life, black, jar, mailed, sent, uses, disturbed>>
    BY <1>3, <1>5 DEF ReadUnverified, Is
  <2> QED
    BY <1>1, <1>5, <2>1, QuietStep DEF ReadUnverified, Inv, TypeOK
<1>6. CASE Restore(h)
  <2>1. row \in User /\ row' \in User
    BY <1>1, <1>2, <1>6, RowTypes DEF Restore
  <2> QED
    BY <1>1, <1>6, <2>1, NoneIsNothing, QuietStep DEF Restore, Inv, TypeOK
<1>7. CASE Upsert(h)
  <2>1. row' \in User
    BY <1>1, <1>7, Bounds DEF Upsert, TypeOK, User
  <2> QED
    BY <1>1, <1>7, <2>1, NoneIsNothing, QuietStep DEF Upsert, Inv, TypeOK
<1>8. CASE Send(h)
  <2>1. row \in User /\ row' \in User
    BY <1>1, <1>2, <1>8, RowTypes DEF Send
  <2> QED
    BY <1>1, <1>8, <2>1, NoneIsNothing, QuietStep DEF Send, Inv, TypeOK
<1>9. CASE Grant(h)
  <2>1. row \in User /\ row' \in User
    BY <1>1, <1>2, <1>9, RowTypes DEF Grant
  <2>2. uses' \in [Numbers -> 0 .. 2]
    BY <1>1, <1>9, UsedTypes DEF Grant, TypeOK
  <2> QED
    BY <1>1, <1>9, <2>1, <2>2, NoneIsNothing, QuietStep DEF Grant, Inv, TypeOK
<1>10. CASE Rotate(h)
  <2>1. row \in User /\ row' \in User
    BY <1>1, <1>2, <1>10, RowTypes DEF Rotate
  <2> QED
    BY <1>1, <1>10, <2>1, NoneIsNothing, QuietStep DEF Rotate, Inv, TypeOK
<1>11. CASE Reset(h)
  <2>1. row \in User /\ row' \in User
    BY <1>1, <1>2, <1>11, RowTypes DEF Reset
  <2>2. uses' \in [Numbers -> 0 .. 2]
    BY <1>1, <1>11, UsedTypes DEF Reset, TypeOK
  <2>3. req[h].op = "reset"
    BY <1>1, <1>11 DEF Reset, RequestOK
  <2> QED
    BY <1>1, <1>11, <2>1, <2>2, <2>3, NoneIsNothing, QuietStep DEF Reset, Inv, TypeOK
<1>12. CASE Clear(h)
  <2>1. row \in User /\ row' \in User
    BY <1>1, <1>2, <1>12, RowTypes DEF Clear
  <2> QED
    BY <1>1, <1>12, <2>1, CookieSteps, NoneIsNothing, QuietStep DEF Clear, Inv, TypeOK
<1>13. CASE Respond(h)
  <2>1. /\ jar' \in [Browsers -> Jar]
        /\ \A b \in Browsers : \/ jar'[b] \in {jar[b], NoCookies}
                               \/ jar'[b].access = req[h].token
    BY <1>1, <1>13, CookieSteps
  <2> QED
    BY <1>1, <1>13, <2>1, NoneIsNothing, QuietStep DEF Respond, Inv, TypeOK
<1>14. CASE Fail(h)
  BY <1>1, <1>14, NoneIsNothing, QuietStep DEF Fail, Inv, TypeOK
<1> QED
  BY <1>4, <1>5, <1>6, <1>7, <1>8, <1>9, <1>10, <1>11, <1>12, <1>13, <1>14

\* The requests that may sign a token.
LEMMA SignSteps ==
  ASSUME Inv, NEW h \in Handlers, InFlight(h),
         Mail(h) \/ Blacklist(h) \/ SignLogin(h) \/ Create(h) \/ Link(h)
  PROVE  Inv'
<1>1. /\ TypeOK /\ RequestOK(h) /\ req[h] \in Request /\ req[h].id \in Numbers
      /\ req[h].pc \notin RowlessAt => row \in User
      /\ RightOp(req[h].pc, req[h].op)
  BY Updates DEF Inv, TypeOK, Requests, RequestOK
<1> USE DEF PC, SignedAt, RowlessAt, RightOp, At
<1>2. CASE Mail(h)
  <2>1. mailed' \in SUBSET Numbers /\ row \in User /\ row # None
    BY <1>1, <1>2, NoneIsNothing DEF Mail, TypeOK
  <2>2. CASE Is(h, {"resend"})
    BY <1>1, <1>2, <2>1, <2>2, QuietStep DEF Mail, Inv, TypeOK
  <2>3. CASE ~Is(h, {"resend"})
    BY <1>1, <1>2, <2>1, <2>3, SignStep DEF Mail, Inv, TypeOK
  <2> QED
    BY <2>2, <2>3
<1>3. CASE Blacklist(h)
  <2>1. /\ black' = [black EXCEPT ![req[h].old] = AccessLife]
        /\ row' = row /\ row \in User /\ row # None /\ req[h].pc = "blacklist"
        /\ UNCHANGED <<mailed, sent, uses, disturbed>>
    BY <1>1, <1>3, NoneIsNothing DEF Blacklist
  <2>2. black' \in [Numbers -> 0 .. AccessLife]
    <3>1. AccessLife \in 0 .. AccessLife
      BY Bounds
    <3> QED
      BY <1>1, <2>1, <3>1 DEF TypeOK
  <2>3. CASE req[h].op \in {"verify", "refresh"}
    <3>1. PICK pc \in {"grant", "rotate"} : Sign(h, pc) /\ RightOp(pc, req[h].op)
      <4>1. CASE req[h].op = "verify"
        BY <1>3, <4>1 DEF Blacklist, Is
      <4>2. CASE req[h].op = "refresh"
        BY <1>3, <4>2 DEF Blacklist, Is
      <4> QED
        BY <2>3, <4>1, <4>2
    <3>2. jar' = jar
      BY <1>3, <2>3 DEF Blacklist, Is
    <3> QED
      BY <1>1, <2>1, <3>1, <3>2, SignStep DEF Inv, TypeOK
  <2>4. CASE req[h].op = "logout"
    <3>1. Goto(h, "clear") /\ life' = life /\ jar' = jar
      BY <1>3, <2>4 DEF Blacklist, Is
    <3> QED
      BY <1>1, <2>1, <2>2, <3>1, QuietStep DEF Inv, TypeOK
  <2>5. CASE req[h].op = "reset"
    <3>1. End(h) /\ life' = life /\ ClearCookies(h)
      BY <1>3, <2>5 DEF Blacklist, Is
    <3> QED
      BY <1>1, <2>1, <2>2, <3>1, CookieSteps, QuietStep DEF Inv, TypeOK
  <2> QED
    BY <1>1, <2>1, <2>3, <2>4, <2>5 DEF RequestOK
<1>4. CASE SignLogin(h)
  BY <1>1, <1>4, NoneIsNothing, SignStep DEF SignLogin, Inv, TypeOK
<1>5. CASE Create(h)
  <2>1. CASE row = None
    <3>1. row' = [verified |-> TRUE, deleted |-> FALSE, password |-> FALSE,
                  otp |-> 0, otpLeft |-> 0, refresh |-> 0, age |-> 0]
      BY <1>5, <2>1 DEF Create
    <3>2. 0 \in NumberOrNone /\ 0 \in 0 .. OtpLife /\ 0 \in 0 .. AccessLife
      BY Bounds DEF NumberOrNone
    <3>3. row' \in User
      BY <3>1, <3>2 DEF User
    <3> QED
      BY <1>1, <1>5, <2>1, <3>3, SignStep DEF Create, Inv, TypeOK
  <2>2. CASE row # None
    BY <1>1, <1>5, <2>2, QuietStep DEF Create, Inv, TypeOK
  <2> QED
    BY <2>1, <2>2
<1>6. CASE Link(h)
  <2>1. row' \in User
    BY <1>1, <1>6, RowTypes DEF Link
  <2> QED
    BY <1>1, <1>6, <2>1, SignStep DEF Link, Inv, TypeOK
<1> QED
  BY <1>2, <1>3, <1>4, <1>5, <1>6

LEMMA LessTypes == \A m \in Nat : \A n \in 0 .. m : Less(n) \in 0 .. m
BY DEF Less

\* Time changes what is left of the code and the age of the row, and that is all.
LEMMA TickRow ==
  ASSUME row \in User \cup {None}, Tick
  PROVE  /\ row = None => row' = None
         /\ row # None => /\ row' \in User
                          /\ row'.deleted = row.deleted /\ row'.verified = row.verified
                          /\ row'.otp = row.otp /\ row'.refresh = row.refresh
<1>1. CASE row = None
  BY <1>1 DEF Tick
<1>2. CASE row # None
  <2> DEFINE left == Less(row.otpLeft)
             age == IF row.age < AccessLife THEN row.age + 1 ELSE row.age
  <2>1. /\ row \in User /\ row.otpLeft \in 0 .. OtpLife /\ row.age \in 0 .. AccessLife
        /\ AccessLife \in Nat /\ OtpLife \in Nat
    BY <1>2, Bounds DEF User
  <2>2. row' = [row EXCEPT !.otpLeft = left, !.age = age]
    BY <1>2, <2>1 DEF Tick, User
  <2>3. left \in 0 .. OtpLife /\ age \in 0 .. AccessLife
    BY <2>1, LessTypes
  <2> HIDE DEF left, age
  <2> QED
    BY <1>2, <2>1, <2>2, <2>3 DEF User
<1> QED
  BY <1>1, <1>2

\* Nothing is signed, revoked or sent while time passes.
LEMMA TickStep ==
  ASSUME Inv, Tick
  PROVE  Inv'
<1>1. /\ life \in [Numbers -> 0 .. AccessLife] /\ black \in [Numbers -> 0 .. AccessLife]
      /\ AccessLife \in Nat /\ OtpLife \in Nat /\ 0 \in NumberOrNone
      /\ jar \in [Browsers -> Jar] /\ row \in User \cup {None}
  BY Bounds DEF Inv, TypeOK, NumberOrNone
<1>2. /\ life' = [t \in Numbers |-> Less(life[t])]
      /\ black' = [t \in Numbers |-> Less(black[t])]
      /\ UNCHANGED <<mailed, req, sent, uses, disturbed>>
  BY DEF Tick
<1>3. /\ life' \in [Numbers -> 0 .. AccessLife] /\ black' \in [Numbers -> 0 .. AccessLife]
      /\ \A t \in Numbers : life'[t] = Less(life[t]) /\ black'[t] = Less(black[t])
  BY <1>1, <1>2 DEF Less
<1>4. /\ jar' \in [Browsers -> Jar]
      /\ \A b \in Browsers : jar'[b].access \in {jar[b].access, 0}
  <2>1. ASSUME NEW b \in Browsers
        PROVE  jar'[b] \in Jar /\ jar'[b].access \in {jar[b].access, 0}
    <3> DEFINE left == Less(jar[b].left)
               access == IF jar[b].left > 1 THEN jar[b].access ELSE 0
    <3>1. jar[b] \in Jar /\ jar[b].left \in 0 .. AccessLife /\ jar[b].access \in NumberOrNone
      BY <1>1 DEF Jar
    <3>2. /\ left \in 0 .. AccessLife /\ access \in NumberOrNone
          /\ access \in {jar[b].access, 0}
      BY <1>1, <3>1, LessTypes
    <3>3. jar'[b] = [jar[b] EXCEPT !.left = left, !.access = access]
      BY <3>1 DEF Tick, Jar
    <3> HIDE DEF left, access
    <3> QED
      BY <3>1, <3>2, <3>3 DEF Jar
  <2>2. jar' = [b \in Browsers |-> jar'[b]]
    BY DEF Tick
  <2> QED
    BY <2>1, <2>2
<1>5. row' \in User \cup {None} /\ (row # None => row' # None)
  BY <1>1, TickRow, NoneIsNothing
<1>6. \A n \in Numbers : Fresh(n) => Fresh(n)'
  BY <1>2, <1>3, <1>4, Bounds DEF Fresh, Unused, InFlight, Less
<1>7. Requests' /\ IdsDiffer' /\ FreshAbove'
  <2>1. \A k \in Handlers : InFlight(k) => req[k].id \in Numbers
    BY Updates DEF Inv, TypeOK
  <2> QED
    BY <1>2, <1>5, <1>6, <2>1 DEF Inv, Requests, RequestOK, InFlight, IdsDiffer, FreshAbove
<1>8. Outlives'
  BY <1>1, <1>3 DEF Inv, Outlives, Less
<1> QED
  BY <1>2, <1>3, <1>4, <1>5, <1>7, <1>8 DEF Inv, TypeOK

LEMMA CleanUpStep ==
  ASSUME Inv, CleanUp
  PROVE  Inv'
<1>1. /\ row \in User /\ row' = [row EXCEPT !.deleted = TRUE]
      /\ UNCHANGED <<life, black, jar, mailed, req, sent, uses, disturbed>>
  BY DEF CleanUp, Active, Inv, TypeOK
<1>2. row' \in User /\ row' # None
  BY <1>1, NoneIsNothing DEF User
<1> QED
  BY <1>1, <1>2 DEF Inv, TypeOK, Requests, RequestOK, Fresh, Unused, InFlight,
                    IdsDiffer, FreshAbove, Outlives

LEMMA InvHolds == Spec => []Inv
<1>1. Init => Inv
  <2> SUFFICES ASSUME Init
               PROVE  Inv
    OBVIOUS
  <2>1. 0 \in NumberOrNone /\ 0 \in 0 .. AccessLife
    BY Bounds DEF NumberOrNone
  <2>2. TypeOK
    <3>1. /\ row \in User \cup {None} /\ jar \in [Browsers -> Jar]
          /\ req \in [Handlers -> Request \cup {None}]
          /\ mailed \subseteq Numbers /\ disturbed \in BOOLEAN
      BY JarTypes DEF Init
    <3>2. /\ life \in [Numbers -> 0 .. AccessLife] /\ black \in [Numbers -> 0 .. AccessLife]
          /\ uses \in [Numbers -> 0 .. 2] /\ sent \in NumberOrNone
      BY <2>1 DEF Init
    <3> QED
      BY <3>1, <3>2 DEF TypeOK
  <2> QED
    BY <2>2, Bounds DEF Init, Inv, Requests, InFlight, IdsDiffer, FreshAbove, Fresh,
                        Unused, NoCookies, Outlives
<1>2. Inv /\ [Next]_vars => Inv'
  <2> SUFFICES ASSUME Inv, [Next]_vars
               PROVE  Inv'
    OBVIOUS
  <2>1. ASSUME NEW h \in Handlers,
               Continue(h) \/ Fail(h) \/ \E b \in Browsers : Arrive(h, b)
        PROVE  Inv'
    <3>1. CASE \E b \in Browsers : Arrive(h, b)
      BY <3>1, ArriveStep
    <3>2. CASE Continue(h)
      <4>1. InFlight(h)
        BY <3>2 DEF Continue, At, ReadCode, ReadUnverified, Restore, Upsert, Send, Mail,
                    Blacklist, SignLogin, Grant, Rotate, Reset, Clear, Create, Link, Respond
      <4> QED
        BY <3>2, <4>1, QuietSteps, SignSteps DEF Continue
    <3>3. CASE Fail(h)
      BY <3>3, QuietSteps DEF Fail
    <3> QED
      BY <2>1, <3>1, <3>2, <3>3
  <2>2. CASE UNCHANGED vars
    BY <2>2 DEF vars, Inv, TypeOK, Requests, RequestOK, Fresh, Unused, InFlight,
                IdsDiffer, FreshAbove, Outlives
  <2> QED
    BY <2>1, <2>2, CleanUpStep, TickStep DEF Next
<1> QED
  BY <1>1, <1>2, PTL DEF Spec

\* Row, tokens, blacklist, cookies and requests keep their types, for any number
\* of requests.
THEOREM TypeCorrect == Spec => []TypeOK
<1>1. Inv => TypeOK
  BY DEF Inv
<1> QED
  BY <1>1, InvHolds, PTL

\* blacklistOldAccessToken: an access token that is revoked is not valid again,
\* although tokens of one second are equal and requests overlap and fail.
THEOREM RevokedStaysRevoked == Spec => RevocationHolds
<1>1. Inv /\ [Next]_vars =>
        [\A t \in Numbers : black[t] > 0 /\ life'[t] > 0 => black'[t] > 0]_vars
  <2> SUFFICES ASSUME Inv, Next, NEW t \in Numbers, black[t] > 0, life'[t] > 0
               PROVE  black'[t] > 0
    OBVIOUS
  <2>1. /\ life \in [Numbers -> 0 .. AccessLife] /\ black \in [Numbers -> 0 .. AccessLife]
        /\ AccessLife \in Nat /\ AccessLife > 0
    BY Bounds DEF Inv, TypeOK
  <2>2. CASE Tick
    <3>1. life'[t] = Less(life[t]) /\ black'[t] = Less(black[t]) /\ black[t] >= life[t]
      BY <2>2 DEF Tick, Inv, Outlives
    <3> QED
      BY <2>1, <3>1 DEF Less
  <2>3. ASSUME NEW h \in Handlers, Blacklist(h)
        PROVE  black'[t] > 0
    BY <2>1, <2>3 DEF Blacklist
  <2>4. ASSUME NEW h \in Handlers, NEW b \in Browsers, Arrive(h, b)
        PROVE  black' = black
    BY <2>4 DEF Arrive, Register, ResendOtp, Logout, ForgotPassword, Login, Refresh,
                GoogleSignIn, VerifyOtp, ResetPassword, Start
  <2>5. ASSUME NEW h \in Handlers, Continue(h) \/ Fail(h), ~Blacklist(h)
        PROVE  black' = black
    BY <2>5 DEF Continue, Fail, ReadCode, ReadUnverified, Restore, Upsert, Send, Mail,
                SignLogin, Grant, Rotate, Reset, Clear, Create, Link, Respond
  <2>6. CleanUp => black' = black
    BY DEF CleanUp
  <2> QED
    BY <2>2, <2>3, <2>4, <2>5, <2>6 DEF Next
<1> QED
  BY <1>1, InvHolds, PTL DEF Spec, RevocationHolds

-----------------------------------------------------------------------------
\* What a step does to the row of a member.
LEMMA MemberStep ==
  ASSUME Inv, Next, Member, ~Registering
  PROVE  Member'
<1>1. row \in User /\ row # None /\ ~row.deleted /\ row.verified
  BY DEF Inv, TypeOK, Member, Active
<1>2. ASSUME NEW h \in Handlers, NEW b \in Browsers, Arrive(h, b)
      PROVE  row' = row
  BY <1>2 DEF Arrive, Register, ResendOtp, Logout, ForgotPassword, Login, Refresh,
              GoogleSignIn, VerifyOtp, ResetPassword, Start
<1>3. ASSUME NEW h \in Handlers, Continue(h) \/ Fail(h)
      PROVE  row' # None /\ ~row'.deleted /\ row'.verified
  <2>1. InFlight(h)
    BY <1>3 DEF Continue, Fail, At, ReadCode, ReadUnverified, Restore, Upsert, Send, Mail,
                Blacklist, SignLogin, Grant, Rotate, Reset, Clear, Create, Link, Respond
  <2>2. req[h].pc \notin {"restore", "upsert"} /\ req[h].id \in Numbers
    BY <2>1, Updates DEF Inv, TypeOK, Requests, RequestOK, RightOp, Registering, Is
  <2>3. CASE row' = row
    BY <1>1, <2>3
  <2>4. CASE \/ Send(h) \/ Grant(h) \/ Rotate(h) \/ Reset(h) \/ Clear(h) \/ Link(h)
    <3>1. row' \in User /\ row'.deleted = row.deleted /\ row'.verified
      <4>1. Send(h) => row' = [row EXCEPT !.otp = req[h].id, !.otpLeft = OtpLife]
        BY DEF Send
      <4>2. Grant(h) => row' = [row EXCEPT !.verified = TRUE, !.otp = 0, !.otpLeft = 0,
                                           !.refresh = req[h].id]
        BY DEF Grant
      <4>3. Rotate(h) => row' = [row EXCEPT !.refresh = req[h].id]
        BY DEF Rotate
      <4>4. Reset(h) => row' = [row EXCEPT !.password = TRUE, !.otp = 0, !.otpLeft = 0,
                                           !.refresh = 0]
        BY DEF Reset
      <4>5. Clear(h) => row' = [row EXCEPT !.refresh = 0]
        BY DEF Clear
      <4>6. Link(h) => row' = [row EXCEPT !.verified = TRUE]
        BY DEF Link
      <4>7. row' \in User
        BY <1>1, <2>2, <2>4, <4>1, <4>2, <4>3, <4>4, <4>5, <4>6, RowTypes
      <4>8. row'.deleted = row.deleted /\ row'.verified
        BY <1>1, <2>4, <4>1, <4>2, <4>3, <4>4, <4>5, <4>6 DEF User
      <4> QED
        BY <4>7, <4>8
    <3> QED
      BY <1>1, <3>1, NoneIsNothing
  <2> QED
    BY <1>1, <1>3, <2>2, <2>3, <2>4
       DEF Continue, Fail, At, ReadCode, ReadUnverified, Restore, Upsert, Mail, Blacklist,
           SignLogin, Create, Respond
<1>4. CASE Tick
  <2>1. /\ row' \in User
        /\ row'.deleted = row.deleted /\ row'.verified = row.verified
    BY <1>1, <1>4, TickRow
  <2> QED
    BY <1>1, <2>1, NoneIsNothing DEF Member, Active
<1>5. ~CleanUp
  BY <1>1 DEF CleanUp
<1> QED
  BY <1>1, <1>2, <1>3, <1>4, <1>5 DEF Next, Member, Active

\* cleanupExpiredUnverifiedUsers, and the handlers of AuthService: unless a
\* registration is under way, no step unverifies or soft-deletes a member, however
\* many requests overlap and fail, and whichever codes expire.
THEOREM MembersAreKept == Spec => MembersStay
<1>1. Inv /\ [Next]_vars => [Member /\ ~Registering => Member']_vars
  BY MemberStep
<1> QED
  BY <1>1, InvHolds, PTL DEF Spec, MembersStay

-----------------------------------------------------------------------------
\* Requests that do not overlap, and that nothing has cut short.
OneAtATime == \A h, k \in Handlers : InFlight(h) /\ InFlight(k) => h = k

\* The request has found its code to be the stored one and has yet to use it.
Using(h) ==
  \/ req[h].op = "verify" /\ req[h].pc \in {"blacklist", "grant"}
  \/ req[h].pc = "reset"

\* The request will store a code that nobody has used; it holds the one it uses.
CodeOK(h) ==
  /\ req[h].op \in {"verify", "reset"} => req[h].code \in Numbers
  /\ req[h].pc \in {"read", "restore", "upsert", "send"} => uses[req[h].id] = 0
  /\ Using(h) => row.otp = req[h].code

\* A code that was used is no longer stored, and will not be stored again.
Codes ==
  /\ \A c \in Numbers : uses[c] < 2 /\ (uses[c] > 0 => c <= sent)
  /\ row # None /\ row.otp # 0 => uses[row.otp] = 0 /\ row.otp <= sent
  /\ \A h \in Handlers : InFlight(h) => CodeOK(h)

\* The request has changed the stored refresh token and has yet to answer with
\* its cookies.
Ahead(h) == req[h].pc = "respond" /\ req[h].op \notin {"register", "forgot"}

InStep ==
  row # None /\ row.refresh # 0 => \E b \in Browsers : jar[b].refresh = row.refresh

\* No browser has the stored token only while such a request is about to set it; and
\* cookies are cleared when there is none.
Session ==
  /\ \A h \in Handlers : InFlight(h) /\ Ahead(h) => row.refresh = req[h].id
  /\ \A h \in Handlers : InFlight(h) /\ req[h].pc = "blacklist" /\ req[h].op = "reset"
                            => row.refresh = 0
  /\ InStep \/ \E h \in Handlers : InFlight(h) /\ Ahead(h)

InSequence == ~disturbed => OneAtATime /\ Codes /\ Session

\* The only request goes on to await pc.
LEMMA SoleMoves ==
  ASSUME Inv, OneAtATime, NEW h \in Handlers, InFlight(h), NEW pc \in PC,
         Goto(h, pc) \/ Sign(h, pc)
  PROVE  /\ OneAtATime'
         /\ \A k \in Handlers : InFlight(k)' <=> k = h
         /\ req'[h].pc = pc /\ req'[h].op = req[h].op
         /\ req'[h].id = req[h].id /\ req'[h].code = req[h].code
<1>1. req \in [Handlers -> Request \cup {None}] /\ req[h] \in Request
  BY Updates DEF Inv, TypeOK
<1>2. PICK t \in NumberOrNone : req' = [req EXCEPT ![h] = [req[h] EXCEPT !.token = t, !.pc = pc]]
  <2>1. CASE Goto(h, pc)
    <3>1. [req[h] EXCEPT !.token = req[h].token, !.pc = pc] = [req[h] EXCEPT !.pc = pc]
      BY <1>1 DEF Request
    <3>2. req[h].token \in NumberOrNone
      BY <1>1 DEF Request
    <3> QED
      BY <1>1, <2>1, <3>1, <3>2 DEF Goto
  <2>2. CASE Sign(h, pc)
    <3>1. \A n \in Numbers : n \in NumberOrNone
      BY Bounds DEF Numbers, NumberOrNone
    <3> QED
      BY <2>2, <3>1 DEF Sign
  <2> QED
    BY <2>1, <2>2
<1>3. PICK r : r = [req[h] EXCEPT !.token = t, !.pc = pc]
  OBVIOUS
<1>4. /\ r.pc = pc /\ r.op = req[h].op /\ r.id = req[h].id /\ r.code = req[h].code
      /\ r # None
  <2>1. r.pc = pc /\ r.op = req[h].op /\ r.id = req[h].id /\ r.code = req[h].code
    BY <1>1, <1>3 DEF Request
  <2>2. r # None
    BY <1>1, <1>3, NoneIsNothing DEF Request
  <2> QED
    BY <2>1, <2>2
<1>5. req' = [req EXCEPT ![h] = r]
  BY <1>2, <1>3
<1>6. \A k \in Handlers : InFlight(k)' <=> k = h
  BY <1>1, <1>4, <1>5 DEF InFlight, OneAtATime
<1> QED
  BY <1>1, <1>4, <1>5, <1>6 DEF OneAtATime

LEMMA SoleEnds ==
  ASSUME Inv, OneAtATime, NEW h \in Handlers, InFlight(h), End(h)
  PROVE  OneAtATime' /\ \A k \in Handlers : ~InFlight(k)'
BY DEF Inv, TypeOK, OneAtATime, InFlight, End

\* A request arrives; it is the only one, unless the requests are disturbed.
LEMMA SequenceStart ==
  ASSUME Inv, OneAtATime, Codes, Session, NEW h \in Handlers, NEW b \in Browsers,
         Arrive(h, b), ~disturbed'
  PROVE  OneAtATime' /\ Codes' /\ Session'
<1>1. PICK op \in Op, pc \in PC, code \in NumberOrNone :
        /\ Start(h, b, op, pc, code)
        /\ op \in {"verify", "reset"} => code \in Numbers
        /\ pc \notin {"reset", "grant", "rotate", "respond"}
        /\ pc = "blacklist" => op \in {"logout", "refresh"}
  <2>1. mailed \subseteq Numbers /\ 0 \in NumberOrNone /\ Numbers \subseteq NumberOrNone
    BY Bounds DEF Inv, TypeOK, Numbers, NumberOrNone
  <2>2. CASE \E c \in mailed : VerifyOtp(h, b, c) \/ ResetPassword(h, b, c)
    BY <2>1, <2>2 DEF VerifyOtp, ResetPassword, Op, PC
  <2>3. CASE ~\E c \in mailed : VerifyOtp(h, b, c) \/ ResetPassword(h, b, c)
    BY <2>1, <2>3 DEF Arrive, Register, ResendOtp, Logout, ForgotPassword, Login,
                      Refresh, GoogleSignIn, Op, PC
  <2> QED
    BY <2>2, <2>3
<1>2. /\ ~InFlight(h) /\ \A k \in Handlers : ~InFlight(k)
      /\ sent' = sent + 1 /\ sent \in Nat /\ sent + 1 \in Numbers
      /\ UNCHANGED <<row, jar, uses>>
  <2>1. \A k \in Handlers : ~InFlight(k)
    BY <1>1, Zenon DEF Start
  <2>2. /\ ~InFlight(h) /\ sent < MaxRequests /\ sent' = sent + 1
        /\ UNCHANGED <<row, jar, uses>>
    BY <1>1 DEF Start
  <2> QED
    BY <2>1, <2>2, Bounds DEF Inv, TypeOK, Numbers, NumberOrNone
<1>3. PICK r : r = [op |-> op, pc |-> pc, id |-> sent + 1, from |-> b, code |-> code,
                    old |-> jar[b].access, token |-> 0]
  OBVIOUS
<1>4. req' = [req EXCEPT ![h] = r]
  BY <1>1, <1>3 DEF Start
<1>5. \A k \in Handlers : InFlight(k)' => k = h
  BY <1>2, <1>4 DEF InFlight, Inv, TypeOK
<1>6. req'[h] = r
  BY <1>4 DEF Inv, TypeOK
<1>7. uses[sent + 1] = 0
  BY <1>2 DEF Codes, Inv, TypeOK
<1>8. CodeOK(h)'
  BY <1>1, <1>2, <1>3, <1>6, <1>7 DEF CodeOK, Using
<1>9. Codes'
  <2>1. \A c \in Numbers : uses'[c] < 2 /\ (uses'[c] > 0 => c <= sent')
    BY <1>2, Bounds DEF Codes
  <2>2. row # None => row.otp \in Nat
    BY Bounds DEF Inv, TypeOK, User, NumberOrNone
  <2> QED
    BY <1>2, <1>5, <1>8, <2>1, <2>2 DEF Codes
<1>10. Session'
  <2>1. InStep
    BY <1>2 DEF Session
  <2> QED
    BY <1>1, <1>2, <1>3, <1>5, <1>6, <2>1 DEF Session, InStep, Ahead
<1> QED
  BY <1>5, <1>9, <1>10 DEF OneAtATime

\* What a code and a session need when the only request ends or moves on.
LEMMA SequenceSlot ==
  ASSUME Inv, OneAtATime, Codes, NEW h \in Handlers, InFlight(h), NEW pc \in PC,
         sent' = sent,
         \A c \in Numbers : uses'[c] < 2 /\ (uses'[c] > 0 => c <= sent),
         row' # None /\ row'.otp # 0 => uses'[row'.otp] = 0 /\ row'.otp <= sent,
         \/ /\ End(h)
            /\ InStep'
         \/ /\ Goto(h, pc) \/ Sign(h, pc)
            /\ pc \in {"read", "restore", "upsert", "send"} => uses'[req[h].id] = 0
            /\ (req[h].op = "verify" /\ pc \in {"blacklist", "grant"}) \/ pc = "reset"
                 => row'.otp = req[h].code
            /\ pc = "respond" /\ req[h].op \notin {"register", "forgot"}
                 => row'.refresh = req[h].id
            /\ pc = "blacklist" /\ req[h].op = "reset" => row'.refresh = 0
            /\ InStep' \/ (pc = "respond" /\ req[h].op \notin {"register", "forgot"})
  PROVE  OneAtATime' /\ Codes' /\ Session'
<1>1. CASE End(h)
  <2>1. OneAtATime' /\ \A k \in Handlers : ~InFlight(k)'
    BY <1>1, SoleEnds
  <2>2. InStep'
    BY <1>1, <2>1, SoleMoves
  <2> QED
    BY <2>1, <2>2 DEF Codes, Session
<1>2. CASE /\ Goto(h, pc) \/ Sign(h, pc)
           /\ pc \in {"read", "restore", "upsert", "send"} => uses'[req[h].id] = 0
           /\ (req[h].op = "verify" /\ pc \in {"blacklist", "grant"}) \/ pc = "reset"
                => row'.otp = req[h].code
           /\ pc = "respond" /\ req[h].op \notin {"register", "forgot"}
                => row'.refresh = req[h].id
           /\ pc = "blacklist" /\ req[h].op = "reset" => row'.refresh = 0
           /\ InStep' \/ (pc = "respond" /\ req[h].op \notin {"register", "forgot"})
  <2>1. /\ OneAtATime'
        /\ \A k \in Handlers : InFlight(k)' <=> k = h
        /\ req'[h].pc = pc /\ req'[h].op = req[h].op
        /\ req'[h].id = req[h].id /\ req'[h].code = req[h].code
    BY <1>2, SoleMoves
  <2>2. CodeOK(h)
    BY DEF Codes
  <2>3. CodeOK(h)'
    BY <1>2, <2>1, <2>2 DEF CodeOK, Using
  <2>4. Codes'
    BY <2>1, <2>3 DEF Codes
  <2>5. Session'
    BY <1>2, <2>1 DEF Session, Ahead
  <2> QED
    BY <2>1, <2>4, <2>5
<1> QED
  BY <1>1, <1>2

\* A stored code that nobody has used is used for the first time.
LEMMA SpendOnce ==
  ASSUME Inv, Codes, NEW c \in Numbers, row # None, row.otp = c,
         uses' = Used(c)
  PROVE  \A n \in Numbers : uses'[n] < 2 /\ (uses'[n] > 0 => n <= sent)
<1>1. uses \in [Numbers -> 0 .. 2] /\ c # 0
  BY Bounds DEF Inv, TypeOK
<1>2. uses[c] = 0 /\ c <= sent
  BY <1>1 DEF Codes
<1> QED
  BY <1>1, <1>2 DEF Used, Codes

\* The only request goes on, and nothing is cut short.
LEMMA SequenceContinue ==
  ASSUME Inv, OneAtATime, Codes, Session, NEW h \in Handlers, InFlight(h), Continue(h),
         ~disturbed'
  PROVE  OneAtATime' /\ Codes' /\ Session'
<1>1. /\ CodeOK(h) /\ RightOp(req[h].pc, req[h].op) /\ req[h].id \in Numbers
      /\ req[h].id # 0 /\ req[h].id <= sent
      /\ row \in User \cup {None} /\ (req[h].pc \notin RowlessAt => row \in User)
      /\ uses \in [Numbers -> 0 .. 2]
  <2>1. RequestOK(h) /\ TypeOK /\ CodeOK(h) /\ req[h].id \in Numbers
    BY Updates DEF Inv, Requests, TypeOK, Codes
  <2> QED
    BY <2>1, Bounds DEF TypeOK, RequestOK
<1>2. /\ \A c \in Numbers : uses[c] < 2 /\ (uses[c] > 0 => c <= sent)
      /\ row # None /\ row.otp # 0 => uses[row.otp] = 0 /\ row.otp <= sent
  BY DEF Codes
<1>3. ~Ahead(h) => InStep
  BY DEF Session, OneAtATime
<1>4. /\ Ahead(h) => row.refresh = req[h].id
      /\ req[h].pc = "blacklist" /\ req[h].op = "reset" => row.refresh = 0
  BY DEF Session
<1> USE DEF At, PC, RowlessAt
<1>5. CASE ReadCode(h)
  <2>1. PICK pc \in PC : pc = IF req[h].op = "verify" THEN "blacklist" ELSE "reset"
    OBVIOUS
  <2>2. /\ req[h].pc = "read" /\ req[h].op \in {"verify", "reset"}
        /\ End(h) \/ (Goto(h, pc) /\ row.otp = req[h].code)
        /\ UNCHANGED <<row, jar, sent, uses>>
    BY <1>5, <2>1 DEF ReadCode, Is
  <2>3. InStep'
    BY <1>3, <2>2 DEF Ahead, InStep
  <2> QED
    BY <1>2, <2>1, <2>2, <2>3, SequenceSlot
<1>6. CASE ReadUnverified(h)
  <2>1. /\ req[h].pc = "read" /\ req[h].op = "resend"
        /\ End(h) \/ Goto(h, "send")
        /\ UNCHANGED <<row, jar, sent, uses>>
    BY <1>6 DEF ReadUnverified, Is
  <2>2. InStep' /\ uses'[req[h].id] = 0
    BY <1>1, <1>3, <2>1 DEF Ahead, InStep, CodeOK
  <2> QED
    BY <1>2, <2>1, <2>2, SequenceSlot
<1>7. CASE Restore(h)
  <2>1. /\ req[h].pc = "restore" /\ Goto(h, "upsert") /\ row \in User
        /\ row' = [row EXCEPT !.deleted = FALSE]
        /\ UNCHANGED <<jar, sent, uses>>
    BY <1>1, <1>7 DEF Restore
  <2>2. row # None /\ row'.otp = row.otp /\ row'.refresh = row.refresh /\ row'.verified = row.verified
    BY <2>1, NoneIsNothing DEF User
  <2>3. InStep' /\ uses'[req[h].id] = 0
    BY <1>1, <1>3, <2>1, <2>2 DEF Ahead, InStep, CodeOK
  <2> QED
    BY <1>2, <2>1, <2>2, <2>3, SequenceSlot
<1>8. CASE Upsert(h)
  <2>1. /\ req[h].pc = "upsert" /\ Goto(h, "mail")
        /\ row'.otp = req[h].id /\ row'.refresh = 0
        /\ UNCHANGED <<jar, sent, uses>>
    BY <1>8 DEF Upsert
  <2>2. InStep' /\ uses'[req[h].id] = 0
    BY <1>1, <2>1 DEF InStep, CodeOK
  <2> QED
    BY <1>1, <1>2, <2>1, <2>2, SequenceSlot
<1>9. CASE Send(h)
  <2>1. /\ req[h].pc = "send" /\ Goto(h, "mail") /\ row \in User
        /\ row' = [row EXCEPT !.otp = req[h].id, !.otpLeft = OtpLife]
        /\ UNCHANGED <<jar, sent, uses>>
    BY <1>1, <1>9 DEF Send
  <2>2. row # None /\ row'.otp = req[h].id /\ row'.refresh = row.refresh /\ row'.verified = row.verified
    BY <2>1, NoneIsNothing DEF User
  <2>3. InStep' /\ uses'[req[h].id] = 0
    BY <1>1, <1>3, <2>1, <2>2 DEF Ahead, InStep, CodeOK
  <2> QED
    BY <1>1, <1>2, <2>1, <2>2, <2>3, SequenceSlot
<1>10. CASE Mail(h)
  <2>1. /\ req[h].pc = "mail"
        /\ End(h) \/ (Sign(h, "respond") /\ req[h].op # "resend")
        /\ UNCHANGED <<row, jar, sent, uses>>
    BY <1>10 DEF Mail, Is
  <2>2. InStep' /\ req[h].op \in {"register", "resend", "forgot"}
    BY <1>1, <1>3, <2>1 DEF Ahead, InStep, RightOp
  <2> QED
    BY <1>2, <2>1, <2>2, SequenceSlot
<1>11. CASE Blacklist(h)
  <2>1. req[h].pc = "blacklist" /\ UNCHANGED <<row, sent, uses>>
    BY <1>11 DEF Blacklist
  <2>2. CASE req[h].op = "verify"
    <3>1. Sign(h, "grant") /\ jar' = jar
      BY <1>11, <2>2 DEF Blacklist, Is
    <3>2. InStep' /\ row.otp = req[h].code
      BY <1>1, <1>3, <2>1, <2>2, <3>1 DEF Ahead, InStep, CodeOK, Using
    <3> QED
      BY <1>2, <2>1, <3>1, <3>2, SequenceSlot
  <2>3. CASE req[h].op = "refresh"
    <3>1. Sign(h, "rotate") /\ jar' = jar
      BY <1>11, <2>3 DEF Blacklist, Is
    <3>2. InStep'
      BY <1>3, <2>1, <3>1 DEF Ahead, InStep
    <3> QED
      BY <1>2, <2>1, <2>3, <3>1, <3>2, SequenceSlot
  <2>4. CASE req[h].op = "logout"
    <3>1. Goto(h, "clear") /\ jar' = jar
      BY <1>11, <2>4 DEF Blacklist, Is
    <3>2. InStep'
      BY <1>3, <2>1, <2>4, <3>1 DEF Ahead, InStep
    <3> QED
      BY <1>2, <2>1, <2>4, <3>1, <3>2, SequenceSlot
  <2>5. CASE req[h].op = "reset"
    <3>1. End(h)
      BY <1>11, <2>5 DEF Blacklist, Is
    <3>2. InStep'
      BY <1>4, <2>1, <2>5 DEF InStep
    <3> QED
      BY <1>2, <2>1, <3>1, <3>2, SequenceSlot
  <2> QED
    BY <1>1, <2>1, <2>2, <2>3, <2>4, <2>5 DEF RightOp
<1>12. CASE SignLogin(h)
  <2>1. /\ req[h].pc = "sign" /\ Sign(h, "grant")
        /\ UNCHANGED <<row, jar, sent, uses>>
    BY <1>12 DEF SignLogin
  <2>2. InStep' /\ req[h].op = "login"
    BY <1>1, <1>3, <2>1 DEF Ahead, InStep, RightOp
  <2> QED
    BY <1>2, <2>1, <2>2, SequenceSlot
<1>13. CASE Grant(h)
  <2>1. /\ req[h].pc = "grant" /\ Goto(h, "respond") /\ row \in User
        /\ row' = [row EXCEPT !.verified = TRUE, !.otp = 0, !.otpLeft = 0,
                              !.refresh = req[h].id]
        /\ UNCHANGED <<jar, sent>>
    BY <1>1, <1>13 DEF Grant
  <2>2. row'.otp = 0 /\ row'.refresh = req[h].id
    BY <2>1 DEF User
  <2>3. \A c \in Numbers : uses'[c] < 2 /\ (uses'[c] > 0 => c <= sent)
    <3>1. CASE req[h].op = "verify"
      <4>1. uses' = Used(req[h].code)
        BY <1>13, <3>1 DEF Grant, Is
      <4>2. row.otp = req[h].code /\ req[h].code \in Numbers /\ row # None
        BY <1>1, <2>1, <3>1, NoneIsNothing DEF CodeOK, Using
      <4> QED
        BY <4>1, <4>2, SpendOnce
    <3>2. CASE req[h].op # "verify"
      BY <1>2, <1>13, <3>2 DEF Grant, Is
    <3> QED
      BY <3>1, <3>2
  <2>4. req[h].op \in {"verify", "login"}
    BY <1>1, <2>1 DEF RightOp
  <2> QED
    BY <2>1, <2>2, <2>3, <2>4, SequenceSlot
<1>14. CASE Rotate(h)
  <2>1. /\ req[h].pc = "rotate" /\ Goto(h, "respond") /\ row \in User
        /\ row' = [row EXCEPT !.refresh = req[h].id]
        /\ UNCHANGED <<jar, sent, uses>>
    BY <1>1, <1>14 DEF Rotate
  <2>2. row # None /\ row'.otp = row.otp /\ row'.refresh = req[h].id
    BY <2>1, NoneIsNothing DEF User
  <2>3. req[h].op \in {"refresh", "google"}
    BY <1>1, <2>1 DEF RightOp
  <2> QED
    BY <1>2, <2>1, <2>2, <2>3, SequenceSlot
<1>15. CASE Reset(h)
  <2>1. /\ req[h].pc = "reset" /\ Goto(h, "blacklist") /\ row \in User
        /\ row' = [row EXCEPT !.password = TRUE, !.otp = 0, !.otpLeft = 0,
                              !.refresh = 0]
        /\ uses' = Used(req[h].code)
        /\ UNCHANGED <<jar, sent>>
    BY <1>1, <1>15 DEF Reset
  <2>2. /\ row # None /\ row'.otp = 0 /\ row'.refresh = 0
        /\ req[h].op = "reset" /\ InStep'
    BY <1>1, <2>1, NoneIsNothing DEF User, RightOp, InStep
  <2>3. row.otp = req[h].code /\ req[h].code \in Numbers
    BY <1>1, <2>1, <2>2 DEF CodeOK, Using
  <2>4. \A c \in Numbers : uses'[c] < 2 /\ (uses'[c] > 0 => c <= sent)
    BY <2>1, <2>2, <2>3, SpendOnce
  <2> QED
    BY <2>1, <2>2, <2>4, SequenceSlot
<1>16. CASE Clear(h)
  <2>1. /\ req[h].pc = "clear" /\ End(h) /\ row \in User
        /\ row' = [row EXCEPT !.refresh = 0]
        /\ UNCHANGED <<sent, uses>>
    BY <1>1, <1>16 DEF Clear
  <2>2. row # None /\ row'.otp = row.otp /\ InStep'
    BY <2>1, NoneIsNothing DEF User, InStep
  <2> QED
    BY <1>2, <2>1, <2>2, SequenceSlot
<1>17. CASE Create(h)
  <2>1. /\ row = None /\ row'.otp = 0 /\ InStep' /\ Sign(h, "rotate")
        /\ UNCHANGED <<sent, uses>>
    BY <1>17 DEF Create, InStep
  <2> QED
    BY <1>2, <2>1, SequenceSlot
<1>18. CASE Link(h)
  <2>1. /\ req[h].pc = "link" /\ Sign(h, "rotate") /\ row \in User
        /\ row' = [row EXCEPT !.verified = TRUE]
        /\ UNCHANGED <<jar, sent, uses>>
    BY <1>1, <1>18 DEF Link
  <2>2. row # None /\ row'.otp = row.otp /\ row'.refresh = row.refresh
    BY <2>1, NoneIsNothing DEF User
  <2>3. InStep'
    BY <1>3, <2>1, <2>2 DEF Ahead, InStep
  <2> QED
    BY <1>2, <2>1, <2>2, <2>3, SequenceSlot
<1>19. CASE Respond(h)
  <2>1. /\ req[h].pc = "respond" /\ End(h)
        /\ UNCHANGED <<row, sent, uses>>
    BY <1>19 DEF Respond
  <2>2. InStep'
    <3>1. PICK from \in Browsers : from = req[h].from
      <4>1. req[h] \in Request
        BY Updates DEF Inv, TypeOK
      <4> QED
        BY <4>1 DEF Request
    <3>2. /\ jar'[from].refresh = IF Ahead(h) THEN req[h].id ELSE jar[from].refresh
          /\ \A b \in Browsers \ {from} : jar'[b] = jar[b]
      BY <1>19, <2>1, <3>1 DEF Respond, Is, Ahead, Inv, TypeOK
    <3>3. CASE Ahead(h)
      BY <1>4, <2>1, <3>2, <3>3 DEF InStep
    <3>4. CASE ~Ahead(h)
      BY <1>3, <2>1, <3>1, <3>2, <3>4 DEF InStep
    <3> QED
      BY <3>3, <3>4
  <2> QED
    BY <1>2, <2>1, <2>2, SequenceSlot
<1> QED
  BY <1>5, <1>6, <1>7, <1>8, <1>9, <1>10, <1>11, <1>12, <1>13, <1>14, <1>15, <1>16,
     <1>17, <1>18, <1>19 DEF Continue

LEMMA SequenceStep == Inv /\ InSequence /\ [Next]_vars => InSequence'
<1> SUFFICES ASSUME Inv, InSequence, [Next]_vars, ~disturbed'
             PROVE  OneAtATime' /\ Codes' /\ Session'
  BY DEF InSequence
<1>1. CASE UNCHANGED vars
  BY <1>1 DEF vars, InSequence, OneAtATime, Codes, CodeOK, Using, Session, Ahead,
              InStep, InFlight
<1>2. ASSUME NEW h \in Handlers, NEW b \in Browsers, Arrive(h, b)
      PROVE  ~disturbed
  BY <1>2 DEF Arrive, Register, ResendOtp, Logout, ForgotPassword, Login, Refresh,
              GoogleSignIn, VerifyOtp, ResetPassword, Start
<1>3. ASSUME NEW h \in Handlers, Continue(h)
      PROVE  ~disturbed /\ InFlight(h)
  <2>1. CASE Create(h)
    <3>1. InFlight(h) /\ disturbed' = disturbed
      BY <2>1, Zenon DEF Create, At
    <3> QED
      BY <3>1
  <2>2. CASE ~Create(h)
    <3>1. InFlight(h)
      BY <1>3, <2>2 DEF Continue, At, ReadCode, ReadUnverified, Restore, Upsert, Send, Mail,
                        Blacklist, SignLogin, Grant, Rotate, Reset, Clear, Link, Respond
    <3>2. UNCHANGED disturbed
      BY <1>3, <2>2, Zenon
         DEF Continue, ReadCode, ReadUnverified, Restore, Upsert, Send, Mail,
             Blacklist, SignLogin, Grant, Rotate, Reset, Clear, Link, Respond
    <3> QED
      BY <3>1, <3>2
  <2> QED
    BY <2>1, <2>2
<1>4. ASSUME NEW h \in Handlers PROVE ~Fail(h)
  BY DEF Fail
<1>5. CASE CleanUp \/ Tick
  <2>1. /\ UNCHANGED <<req, sent, uses, disturbed>>
        /\ \A b \in Browsers : jar'[b].refresh = jar[b].refresh
    BY <1>5 DEF CleanUp, Tick, Inv, TypeOK, Jar
  <2>2. /\ row = None => row' = None
        /\ row # None => /\ row'.otp = row.otp /\ row'.refresh = row.refresh
                         /\ row'.verified = row.verified
    <3>1. CASE CleanUp
      BY <3>1, NoneIsNothing DEF CleanUp, Active, Inv, TypeOK, User
    <3>2. CASE Tick
      BY <3>2, TickRow DEF Inv, TypeOK
    <3> QED
      BY <1>5, <3>1, <3>2
  <2>3. OneAtATime /\ Codes /\ Session
    BY <2>1 DEF InSequence
  <2>4. \A h \in Handlers : InFlight(h) /\ req[h].pc \notin RowlessAt => row # None
    BY DEF Inv, Requests, RequestOK
  <2>5. OneAtATime'
    BY <2>1, <2>3 DEF OneAtATime, InFlight
  <2>6. Codes'
    BY <2>1, <2>2, <2>3, <2>4 DEF Codes, CodeOK, Using, InFlight, RowlessAt
  <2>7. Session'
    BY <2>1, <2>2, <2>3, <2>4 DEF Session, InStep, Ahead, InFlight, RowlessAt
  <2> QED
    BY <2>5, <2>6, <2>7
<1> QED
  BY <1>1, <1>2, <1>3, <1>4, <1>5, SequenceStart, SequenceContinue DEF Next, InSequence

LEMMA SequenceHolds == Spec => []InSequence
<1>1. Init => InSequence
  BY Bounds DEF Init, InSequence, OneAtATime, Codes, Session, InStep, InFlight, Numbers
<1> QED
  BY <1>1, InvHolds, SequenceStep, PTL DEF Spec

\* verifyOtp, resetPassword: as long as requests do not overlap, no code is
\* accepted twice, whatever is mailed, expires or is asked for in between.
THEOREM CodesServeOnceHolds == Spec => []CodesServeOnce
<1>1. InSequence => CodesServeOnce
  BY DEF InSequence, Codes, CodesServeOnce
<1> QED
  BY <1>1, SequenceHolds, PTL

\* refresh, login, logout, resetPassword, googleSignIn: as long as requests do not
\* overlap, the refresh token of a member's row is in the cookie of some browser
\* whenever none is in flight, from however many browsers he signs in.
THEOREM SessionHoldsAlways == Spec => []SessionHolds
<1>1. InSequence => SessionHolds
  BY DEF InSequence, Session, InStep, SessionHolds, Idle, Member, Active
<1> QED
  BY <1>1, SequenceHolds, PTL
=============================================================================
