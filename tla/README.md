# Verification of consolve-backend

TLA+ models of the marketplace backend under `src/`: a NestJS service over
PostgreSQL (Prisma) and Redis in which customers find artisans, book them,
review them and vouch for them. The models cover the code that changes state
between two awaits; TLC checks them on small instances and TLAPS proves the
main results for every size.

To reproduce a run: `tlc -config BookingRaces.cfg MCBooking.tla` (the module and
configuration of each run are in the table below). To check a proof:
`tlapm BookingProofs.tla`.

## 1. The system

Every request is an async function of one Node.js process. It runs alone from
one `await` to the next and any other request may run at each await. Nothing in
the code opens a transaction or takes a lock, and most write paths read a row,
validate it, and write it two or three awaits later. That is where the hard
behaviour of this program lies: interleavings at awaits, requests that throw
half-way, and Redis entries filled from data that has changed meanwhile.

| Component | State | Operations | Interacts with |
|---|---|---|---|
| Booking lifecycle (`modules/booking`) | `Booking`, `Review` rows; cached bookings and lists | create, accept, complete, cancel, dispute, submitReview; reads through the cache | awaits trust `recalculate` and notification `notify` |
| Trust score (`modules/trust`) | `TrustScore`, `Vouch` rows; cached score (5 min) | calculateScore, recalculate, getScore, vouch | reads bookings, reviews, vouches, identity |
| Notification log (`modules/notification`) | `Notification` rows; cached unread count (60 s) | notify, list, markRead, markAllRead, getUnreadCount | called by booking |
| Onboarding conversation (`modules/onboarding`) | session in Redis (7 days), `Identity` row, `onboardingStatus` | processMessage, finaliseLocation, getSessionState | the language model; the status admits a provider to bookings |
| Voice gateway (`onboarding.gateway.ts`) | a context per socket, a Deepgram connection | join, audio_chunk, end_stream, transcripts, disconnect | feeds transcripts to processMessage |
| Authentication (`modules/auth`) | `User` row, one-time codes, refresh token, blacklist in Redis | register, verifyOtp, resendOtp, login, refresh, logout, forgotPassword, resetPassword, Google sign-in, a clean-up cron | mail; guards |
| Token guards (`common/guards`) | blacklist entries | canActivate | authentication |
| Search and ranking (`modules/search`) | cached results, categories and profiles | search, searchNearby, getCategories, getProfile | identity rows, the language model |
| User profiles (`modules/user`) | `UserProfile` rows | createProfile (several in one request), getProfiles | authentication |
| Redis and Prisma services | connections | get, set with expiry, del; queries | everything |
| Seed, mail, health, logging, configuration | none that outlives a call | – | – |

What makes each correct, and what is hard about it:

* **Booking.** The status follows the validator's table (PENDING → ACCEPTED →
  COMPLETED, with CANCELLED and DISPUTED on the side); a review belongs to a
  completed booking and its customer; parties learn of each change; scores are
  recalculated from what happened. Hard: the row is validated in one await and
  updated by id alone in a later one; after the write come a recalculation and
  notifications that may throw.
* **Trust.** The score stays in its bounds and moves the right way; every vouch
  and booking change reaches the stored row; a cached score does not outlive
  its five minutes. Hard: five queries without a snapshot, an upsert that
  overwrites, a cache fill that races the deletion.
* **Notification.** The unread count is that of the rows, up to its 60 seconds.
  Hard: the fill races the deletion.
* **Onboarding.** A profile is COMPLETED only when it has earned it; what the
  session has gathered is in the row; no turn is lost. Hard: the session is read
  before the model answers and written back after, with messages, joins and
  expiry in between; the steps of a completion may fail one by one.
* **Voice gateway.** One recogniser per socket, none left behind, and what is said
  for one profile is never taken for another's. Hard: `audio_chunk` awaits the
  connection it has not stored yet; transcripts come after joins and hang-ups.
* **Authentication.** A one-time code is used once and in time, a refresh token
  is replaced by one successor, a logged-out token is refused, a deleted
  account cannot act. Hard: verification against the clean-up cron, two
  refreshes with one token, registration over a soft-deleted row.
* **Search.** The comparison is an order, with unknown distances too; an answer lists
  all that matched and nobody after one he surpasses. Hard: `take: 50` without an
  order before the ranking, `Infinity - Infinity`, a model that explains some.
* **User profiles.** Repeating a request is safe and enough. Hard:
  check-then-create in a loop without a transaction.

## 2. Modules

```
BookingRules ── Booking ── BookingProperties ── BookingInvariant ─┬─ MCBooking (TLC)
                              │ INSTANCE                          └─ BookingProofs
                        BookingLifecycle  (abstract: Spec, CommittedSpec)

TrustScore ── TrustHistory ── TrustProofs          TrustRequests ── TrustRequestsProofs
Onboarding ── OnboardingProofs                     Account ── AccountProofs
VoiceGateway ── VoiceGatewayProofs

NotificationReads ── MCServices (TLC) ── ReadProofs
                        │ INSTANCE BookingReads, ProfileCreation

SearchRanking ── SearchRequests ─┬─ MCSearch (TLC)
                                 └─ SearchProofs
```

### Booking

* `BookingRules`: the enumerations of `schema.prisma`, the validator's table
  `allowedTransitions`, the status each handler writes, whom it notifies and
  with which type, and which handlers recalculate.
* `Booking`: the six writing handlers over the tables `booking`, `review`,
  `notification`, `score`. A handler in flight is a record in `req`; its `pc`
  names the await it is at (`check`, `write`, `trust`, `notify`), and what it
  carries over the await (the caller's profile, the recipients, the figures
  queried so far) is in the record. `StartTransition` is validateBookingAccess
  and the checks behind it, `WriteTransition` is `booking.update`, by id alone
  as in the code; `TrustRead` and `TrustUpsert` are the queries and the upsert of
  `recalculate`; `Notify` is one `notification.create`, which throws for a type
  the enumeration lacks. `Fail` ends a request at any await, `LoseNotification`
  fails one recipient of a `Promise.all`; both leave what was committed.
* `BookingLifecycle`: what a booking promises, without handlers. `Spec` is the
  table; `CommittedSpec` is what remains when writes may land late.
* `BookingProperties`: the properties, and the refinement mapping that reads a
  lifecycle out of the rows. `BookingInvariant`: the inductive invariants.
* `MCBooking`: who owns which profile in the instances TLC checks.
* `BookingReads`: getMyHires, getMyJobs and getBookingById with their Redis
  entries, against the same handlers, of which the validation, the write by id at a
  later await and the awaits of invalidateBookingCaches matter here: two accepts
  validated on PENDING with a complete in between put the row back to ACCEPTED, as in
  the code. `updated` is `updatedAt`, so that such a row is a new one and not the old
  one come back. Entries share nothing but the tables,
  so the module watches one key, any key: a booking, or a page of one side's list
  under a status filter. An entry remembers the page size it was filled with (`limit`),
  which is not part of the code's key, and how many bookings there were (`known`,
  history). `Listed` is the query's filter and order, newest first. `best` and `back`
  record what a reader of the first booking has been shown; `cut`, that an
  invalidation failed, which the code only logs.

### Notifications

* `NotificationReads`: the log of one user, the entry `notif:unread:<userId>`, and
  notify, markRead, markAllRead and getUnreadCount at each await.

### Profiles

* `ProfileCreation`: createProfile for one user. Each client wants a list of
  types under its own data and repeats its request until it is answered; a row
  names the client whose data it holds.

### Search

* `SearchRanking`: computeRankScore and the comparison of sortByRank. The five
  values of `place` are what the code's string tests can tell apart of a city, a
  state and a location; distances are in hundredths of a kilometre, to which the
  code rounds them.
* `SearchRequests`: search, searchNearby, getCategories and getProfile over the
  identity rows, at each await, with the entry under one key. The intent is any
  that the model or the keyword fallback may produce; the rows a query takes are
  any of those that match, in any order, since the query has none; the
  explanations are of any of the first results. `Sort` is `Array.prototype.sort`:
  the place of an element is how many go before it by the callback, or by where they were.

### Trust score

* `TrustScore`: the formula of `calculateScore`, as exact fractions over a common
  denominator with one rounding at the end. The code adds doubles, so it may
  differ by a point where a sum falls on the other side of a half.
* `TrustHistory`: the life of one provider – requests, acceptances, completions,
  reviews of one to five stars, disputes, vouches, identity fields – and what each
  does to the score.
* `TrustRequests`: vouch, getScore and recalculate of one provider at each
  await, with the stored row and the Redis entry. Facts (a vouch, a booking
  change) stand for what the queries count; the formula is not needed to tell a
  stale score from a current one. `Commit` is the end of `vouch`'s validation and
  its insertion, or the write of a booking handler, whose own awaits are in
  `Booking`.

### Onboarding

* `Onboarding`: processMessage and finaliseLocation for one profile at each
  await, the session and its expiry, the row and the status. A value is named
  by the message it was extracted from, so that an older value can be told from
  a newer one. What the model answers is a choice of the extracted field, or of
  none. `Writes` models what upsertIdentity does with an experience that holds no
  digit: the parsed number is undefined and the row keeps what it had. `Join` is
  the voice gateway's join, which looks for the session before processMessage
  does; a final transcript is a `Message` that may overlap another. `mixed` is
  history: the messages that were in flight together with another. `RowKeepsUp`
  compares values, and lets row and session differ only where one of the two values
  is of such a message, or of one that threw or is in flight.
* `VoiceGateway`: one client of the voice socket. `current` is its entry in
  `socketContextMap`; each join makes a context, and closures keep referring to the
  old ones. `conn` are the Deepgram connections with the context and chunk they
  were made for, from the await of `createDeepgramSocket` (`creating`) to their end.
  `SentTo`, `ToldToClose` and `Reopening` are the SDK's part, as the gateway uses
  it: sending may throw before the connection is open, results may still come after
  close, a lost connection is made anew. `words` and `hasty` are history: which chunk was
  taken for whose words, and which chunks overlapped the making of a connection or
  were left behind during it by a second join or the end of the socket. Nothing tells
  a client when to send, so the model sends at any time.

### Authentication

* `Account`: every route of AuthService for one e-mail address and the browsers of
  its owner, at each await, with the clean-up job. Requests are numbered, and the
  code, refresh token and access token a request makes bear its number; `Sign`
  may also return the token of an earlier request of the same second, since the
  payload holds nothing else. Time is what is left of each life; `Tick` takes
  one unit (five minutes, the period of the job) from codes, tokens, blacklist
  entries and cookies alike. `Authenticated` is the two guards. A wrong password
  or a Google token that does not verify changes nothing and is no step; a wrong
  or old code is (`ReadCode` ends the request). Each browser
  has its own cookies (`jar`), while the row has one refresh token for all: a sign-in
  from one browser overwrites it (`auth.service.ts:334-342`) and leaves another's
  cookie behind, with no request overlapping. `SessionHolds` therefore says that the
  stored token is in the cookie of some browser, the last to sign in or refresh.

A TLA+ action always stands for the code from one await to the next. Two reads
without a write between them are one action when nothing the model contains can
tell them apart (createBooking's profile checks, processMessage's profile
lookup). Caller input is an existential choice; rejected requests, which change
nothing, are not steps.

## 3. Runs

| Run | Module, configuration | Shows |
|---|---|---|
| booking_serial | MCBooking, BookingSerial | One request at a time: `ImplementsLifecycle` (rows follow the table), `ScoreFresh` (the stored completions, disputes and reviews are those of the tables, although three handlers do not recalculate), `NoContradictoryStamps` |
| booking_races | MCBooking, BookingRaces | Two overlapping requests that may fail: `ReviewSound`, `NotificationSound`, `ScoreSound`, `ImplementsCommitted`, and `Inv`, the invariant that is proved |
| booking_liveness | MCBooking, BookingLiveness | `ChangesReported`: every committed change is notified in the end, if no await throws |
| booking_cancel_race | MCBooking, BookingCancelRace | **violation** of `CancelOnlyActive` |
| booking_request_notified | MCBooking, BookingRequestNotified | **violation** of `RequestNotified` |
| trust_history | TrustHistory, TrustHistory | `ScoreInBounds`, `DisputeCosts`, `GoodNewsNeverHurts`, `BadNewsNeverHelps` over every history within the bounds |
| trust_requests | TrustRequests, TrustRequests | `EveryFactCounted` and `StaleEntriesExpire` under races and failures; `CurrentWhenAlone` without |
| onboarding | Onboarding, Onboarding | `CompletedIsEarned`, `RowKeepsUp`, `SummaryCompletes` under races, failures and expiry (`RowKeepsUp` value by value, for those of messages that ran alone); `NothingLost` without |
| account | Account, Account | `RevocationHolds`, `MembersStay`, `UnfinishedEnds` under races and failures; `CodesServeOnce`, `SessionHolds` for requests that do neither, from two browsers |
| services | MCServices, Services | Races, failures and expiry in one of three services: `CountFollows` (unread count), `OnlyCreationsMissing` and `NoStepBack` (cached bookings), `StaleReadsExpire` (both), `RetriesConverge` (profiles) |
| search | MCSearch, Search | `BestFirst`: stored and sent answers are in order and complete as far as the query's limit allows, whichever rows it takes |
| voice_gateway | VoiceGateway, VoiceGateway | `WordsStayInTheirJoin`, and `OneConnection`: which connections may be doubled or out of the gateway's reach, for a client that sends and leaves at any time |

Deadlock is not checked, except in search: the system stops when nobody sends a
request, and the histories of the models end at their bounds.

Three services that share no state run as one, `services`: `MCServices` puts
them side by side, `area` names the one that runs and the others stand still, so
that the state space is the sum of theirs and not the product.

### Bounds

* Booking: two overlapping requests on one booking and two profiles. A race
  needs one request that validates and one that writes in between; bookings
  share only the provider's score, which booking_serial covers with two bookings,
  and three profiles of two accounts. That more requests bring nothing new for
  the safety properties is proved (section 5).
* Trust history: four bookings and four vouches, every number of identity fields.
  Four vouches pass the cap of the community score, four bookings give every mix of
  a completion, a dispute, a cancellation and a review. `MaxJobs` and
  `MaxVouches` are the only caps.
* Trust requests: two vouches, one booking change, any number of score reads, two
  requests in flight.
* Onboarding: three messages, two requests in flight, any number of location
  requests, two fields – the summary, and one that is stored as a number – and a
  last step of 1 so that the cap is reached. `asked` makes each message distinct
  and so bounds the conversation.
* Account: three requests, two in flight. Three make a registration, its
  verification and a refresh, a reset or a second use of the code; two that
  overlap and one that prepares them make every race. A code lives one unit and
  a token two in the passing run: shorter than the code's ten and the token's
  fifteen minutes, in the order that matters (a code expires first). Two browsers are enough
  for one to sign in over another's session.
* Services: notifications with two rows and three requests in flight; bookings with
  two rows, two requests, no operation begun after two updates (`MaxUpdates`, which
  late writes in flight can still pass), pages of one and two filters, one of which a row enters and
  leaves; profiles with three types, two clients with any lists and two
  failures. An entry goes stale with one reader and one writer; the third slot of
  the notifications lets two writers overlap it.
* Search: four profiles over five rows that differ in place, experience, avatar,
  trade and distance, with a tie and an unknown distance among them. A query takes
  three of four and the model explains two of three, so that each limit cuts.
  One change of a row comes between any two awaits. Requests meet only at the
  entry, which each replaces as a whole, so one slot is enough.
* Voice gateway: two joins, three chunks and three connections, enough for a chunk
  before the join, two that race for a connection, one after a second join, and
  transcripts of each after it has gone. Proved for any number.

### Fairness

`WF_vars(Continue(h))`: PostgreSQL and Redis answer and the event loop resumes
whatever awaits them. Each slot's await settles by itself, so weak fairness per
slot is enough and no more is assumed. `WF_vars(Expire)` in TrustRequests,
NotificationReads and BookingReads is Redis keeping its time to live, and `WF_vars(Tick)` in Account is time passing;
`WF_vars(CleanUp)` is the scheduler running the job every five minutes. In ProfileCreation a client that was not
answered asks again, as user.service.ts:14-17 invites it to, and failures are
bounded, or it would never be answered. No other client is obliged to send a
request, and the language model is not obliged to answer (`Answer` is not fair); requests may
fail at any time, so the liveness properties say "or its request threw".
booking_liveness excludes failures (`Faults = FALSE`) because the code has no retry:
a notification whose handler failed is never sent.

## 4. Where the code and its documents disagree

* **A completed booking can become CANCELLED** (booking_cancel_race).
  `README.md:43` limits cancellation to PENDING and ACCEPTED; cancelBooking
  validates the row at `booking.service.ts:336` and updates by id at 340, so a
  completion in between is overwritten, leaving both stamps set.
* **The provider is never notified of a request** (booking_request_notified).
  createBooking passes `BOOKING_CREATED` (`booking.service.ts:99`); the enumeration
  has `BOOKING_REQUEST`.

Met while modelling and not the subject of a run:

* **An account books itself.** `booking.validator.ts:34` has the rule 'Customer
  cannot book themselves', line 72 compares profiles, and an account has a profile
  per type (`schema.prisma:87`). `MayCreate` compares profiles as the code does.
* **A location completes onboarding without the chat.**
  `onboarding.controller.ts:146` wants the chat completed first;
  `onboarding.service.ts:241-249` asks only for the row, which the first message
  creates before it is answered. `FindIdentity` does as the code.
* **A session ends with its access token.** The refresh route says that the access
  token may have expired (`auth.controller.ts:147-152`), but reads the user from the
  cookie that expires with it (`auth.service.ts:115-121`): after fifteen minutes a
  good refresh token is answered with 403. In `Account`, `Identified` reads the jar.
* **New bookings are missing from cached lists.** `README.md:45` and
  `implementation_plan.md:103` have the caches invalidated on every change;
  createBooking deletes none. `OnlyCreationsMissing` allows for that and no more.
* **The gateway listens before it has authenticated.** `onboarding.gateway.ts:90`
  says 'before any messages are processed', but handleConnection awaits Redis at
  line 109 while join and audio are handled (`Listening`).
* **Two chunks, two connections.** Line 176 says 'Lazily initialise the Deepgram
  connection per utterance'; each chunk that arrives during that await makes one, and
  only the last is ever closed by the gateway. `OneConnection` says how far this goes:
  every connection too many comes of such a chunk, of leaving while one is made, or of a
  second join.
* `README.md:31` caps the boost of vouches at 30, while `trust.service.ts:64-67` caps
  the community score as a whole. `search.ranker.ts:6` says 'max ~9 pts'; with the
  proximity bonus it is 10 (`RankScoreBounds`). `create-profile.dto.ts:58` says that
  duplicate types are ignored, and line 63 refuses them.

## 5. Proofs

Every safety invariant and every action property that a passing run checks is
proved for any sets of bookings, profiles, messages, rows and request slots and
any lifetimes and limits, from the assumptions stated in each module
(`BookingConstants`, `TrustHistoryConstants`, `TrustRequestsConstants`,
`OnboardingConstants`, `AccountConstants`, `NotificationConstants`,
`ServicesConstants`, `SearchConstants`, `NoneIsNoNumber`, `VoiceConstants`): the constants
are of the right kind, `None` is none of their members, and the sets that are counted
or sorted are finite. TLC evaluates each of them in the runs.

What the proofs share: the properties are seldom inductive, because a step that
writes does so on the strength of something read awaits ago. The inductive
invariant says, for each await, what is left of what was read.

* **`BookingProofs`**
  * `Invariance` (`Inv`), and from it `TypeCorrect`, `ReviewsAreSound`,
    `NotificationsAreSound`, `ScoresAreSound` and `Refinement`, for requests that
    overlap and fail. `RequestSound` states what is left of the check at
    the write: the row exists, its parties are those to be notified, a booking
    validated for completion has left PENDING for good, a booking validated for
    review keeps its `completedAt`, and figures already queried credit only
    what happened. These facts survive other requests because rows only grow
    (`Growth`). `Refinement` maps each write to `Commit` or `CommitReview` and
    every other step to a stutter.
  * `StrictRefinement` and `StampsAgree` under `[]Exclusive` – no two requests on
    one booking overlap – which is what a row lock held by a handler would give. The
    hypothesis is needed: booking_cancel_race is the counterexample without it.
  * `ScoresStayFresh` under `[]OnePerProvider` and without faults. Exclusion per booking
    would not do, since two bookings share the provider's score. `FreshInv`: the figures
    a recalculation has queried are those of the tables, and a score is out of
    date only while a request is about to recalculate it. That accept, cancel
    and create do not recalculate is harmless because they move a row between
    statuses no figure counts (`SameFigures`).
* **`TrustProofs`**: `ScoreBounds` (the formula lies between 0 and 90, and at
  least 25 without disputes, for all figures the tables can give),
  `ScoreStaysInBounds` (for every history; the invariant says that a review
  belongs to a job and adds between one and five stars), `DisputesCost` (15 points or
  all that are left, rounding included), `GoodNewsIsGood` and `BadNewsIsBad`. The
  last two reduce a step to what it does to each term of the sum: a completion moves
  a fraction towards one (`MoreCompleted`), a request away from it (`MoreJobs`), a
  review moves the average towards its stars while the count adds points
  (`BetterCommunity`), a vouch adds up to the cap, and rounding keeps the order
  (`RoundedOrder`).
* **`TrustRequestsProofs`**: `SerialRequestsStayCurrent`: if requests on a
  provider neither overlap nor fail, row and entry are current whenever none is
  in flight. The invariant follows the one request through its awaits.
  `TypeCorrect` holds without those conditions: the row, once stored, stays, so
  that the reread of a getScore that recalculated finds one.
* **`OnboardingProofs`**: `TypeCorrect`, `CompletionIsEarned` and
  `RowIsNeverBehind`, for any number of overlapping, failing and expiring
  conversations. The strengthening `RequestOK` says that a request past its upsert
  holds no value the row has not got, and one about to complete a profile has
  its summary stored; it survives because no step empties a field (`Gains`).
  That the values agree needs more, `Settled`. Of the values of a field that occur
  anywhere – in session, row or the copy of a request – at most one came with a
  message that ran alone and has ended (`Consistent`): while a message is alone, its
  own value is nowhere before its answer, and what it holds after its upsert is what
  the row holds (`SingleOK`), so that it replaces what was there when it saves. That
  a collected field has a value in the row at all is `RowHolds`, in the invariant.
  `SerialMessagesLoseNothing` is for requests that neither overlap nor fail:
  while nobody holds a copy of the session, session and row agree with what was
  said (`SessionAgrees`); who holds one holds the latest (`CopyGood`), even if
  Redis drops the session behind it.
* **`AccountProofs`**
  * `TypeCorrect` and `RevokedStaysRevoked`. Two facts carry the second: a
    blacklist entry lives at least as long as its token (`Outlives`), and a number
    that no request has signed yet is nowhere – not alive, not revoked, in
    no cookie and in no request (`Fresh`) – so that signing cannot revive a revoked
    token; signing again in the second of an earlier one gives a token whose entry,
    if any, is as young as itself.
  * `MembersAreKept`, step by step from the same invariant: only a registration
    writes a row over a member's.
  * `CodesServeOnceHolds` and `SessionHoldsAlways`, for histories without overlap or
    failure, from one invariant, `InSequence`: a code that was used is no longer
    stored and no request will store it again (`Codes`); the stored refresh
    token is in some browser's cookie (`InStep`), or in the response on its way there
    (`Session`, `Ahead`).
* **`ReadProofs`**
  * `UnreadCountFollows`: while no reader is overtaken and no deletion throws, a
    wrong unread count is served only as long as a handler owes the deletion. The
    invariant is that disjunction itself, carried by `Undisturbed` at the step that
    stores.
  * `OutdatedOnlyWhileOwed` is the same for the cached bookings, where a deletion
    takes several awaits and only some handlers owe it to the watched key. It needs that an
    answer knows no more bookings than there are (`AnswersKnown`), so that what
    createBooking appends changes none of them.
  * `ReadersNeverStepBack`: while there is at most one reader, a reader in flight
    found no entry, and every row an entry or a reader holds lies between
    what was shown last and what the table has (`StepInv`, `Between`), in the order
    of updates and reviews. Every write moves up in it, also one that comes late and
    takes the status back.
  * `ServicesTypes`, for the three services together.
* **`SearchProofs`**
  * On the ranking: `RankScoreBounds` (0 to 10), `RankingIsAnOrder` (what
    `Array.prototype.sort` requires of a comparison, with unknown distances) and
    `BetterComesFirst` (a provider better in every respect comes first).
  * `TypeCorrect` and `BestComeFirst`. `Sorted` shows that `Sort` returns a
    rearrangement in order; `RankedItems`, `ExplainedItems` and `NearestRows`
    follow the properties of the answer through ranking, explaining and cutting off.
    The invariant `Inv` says of each await what its request holds: rows that
    matched when they were read, then items in order.
* **`VoiceGatewayProofs`**: `TypeCorrect`, `WordsStay` and
  `StrayConnectionsAreHasty`. The second needs that a chunk was sent to a
  connection of the join it came under, although the connection is put into its
  context an await later. The third holds for every client. Its invariant (`Stays`,
  `Kept`) says of a live connection whose chunk is not hasty that its context holds
  it, or holds none yet while it is the only one being made for that context; and
  that once the client is gone no such connection of its last join is left.

Model-checked only: the liveness properties `ChangesReported`, `EveryFactCounted`,
`StaleEntriesExpire`, `StaleReadsExpire`, `RetriesConverge`, `SummaryCompletes` and
`UnfinishedEnds`, since fairness is out of the prover's reach. The two violations
are counterexamples and need no proof. What a recursive function computes, which
the provers cannot show, is nowhere needed: `Sort` gives an element the place of how many go
before it (`EveryPlaceTaken` shows that this fills every place once), and
`NewestFirst` chooses an enumeration, of which `OrderExists` shows there is one.

## 6. What is not modelled

* The cached list's totals, which are a second query of the same `Promise.all` and
  may disagree with the page; the parses of the search, which are not cached.
* Lists of several counterparts: `BookingReads` has one customer and one provider;
  bookings of others are in other keys, or only longer pages.
* Texts: notification titles and bodies, prompts, the model's prose. An extracted
  value is a text with at least one item, for a field the row has; a non-text
  value makes upsertIdentity throw, which `Fail` covers, and an entry in Redis that
  does not parse is one that `Expire` removed.
* `expertise` values without a single item (only separators), which would empty
  that column: TrustHistory lets a field become empty again, Onboarding excludes
  such values.
* Of search: the haversine arithmetic (a distance is a number), urgency and price,
  which are parsed and never used, and specialties, which `trade` stands for.
* Of the voice gateway: the stream back to the client (text and speech), which
  changes nothing.
* getVouches, getMyScore, getNotifications, getProfiles and getSessionState only
  read and store nothing.
* Of authentication: the cache `access:<userId>`, which is written and never read;
  the seven days of a refresh cookie, longer than any behaviour of the model;
  guessing and throttling.
* Seed data, mail, health checks, request logging, configuration: I/O without
  state of their own.

## 7. Plan

1. **Proofs**: the abstraction below and its refinements; that a vouch or a
   booking change reaches the stored row, as a safety property of what the
   requests in flight still owe, next to the liveness `EveryFactCounted`.
2. **Composition**: onboarding status as the guard of createBooking; vouching as
   a writer of the score inside `Booking`; the voice gateway's transcripts as the
   messages of `Onboarding`.
3. **Abstractions**: one module for the cache that reads, answers and fills against
   writers that commit and invalidate, implemented by `TrustRequests`,
   `NotificationReads` and `BookingReads`; an account's lifecycle for `Account`.
4. getSessionState's `isComplete`; registration against Google sign-in.
