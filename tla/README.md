# dada-api: specifications, model checking and proofs

dada-api is the backend of a ride-hailing service: Express handlers and Socket.IO
namespaces over PostgreSQL (Sequelize), Redis and BullMQ. This directory holds
TLA+ modules translated from its source, the TLC configurations that check them
on small instances, and proofs that TLAPS checks for instances of any size.
Paths below are relative to the repository's root.

## 1. Inventory

| Component | State it keeps | Operations | What makes it hard |
|---|---|---|---|
| Ride negotiation (`src/services/rideService.ts`, `src/jobs/workers/offerExpirationWorker.ts`, `rideExpirationWorker.ts`, `src/types/rideStateMachine.ts`) | rows `rides`, `ride_offers`; jobs `expire-<ride>`, `offer-expire-<offer>`; Redis `cooldown:<driver>:<ride>` | request, offer (acceptRide), pick, withdraw (refuseRide), decline (riderRefuseOffer), arrive, start, complete, cancel, two expirations | concurrent transactions at READ COMMITTED, two lock orders, fire-and-forget enqueues, retries, crashes |
| Wallet and settlement (`walletService.ts`, `completeRide`, `paymentVerificationWorker.ts`) | `wallets.balance`, `wallet_transactions` | online top-up, confirm, admin top-up, ride earning and commission, failure mark | exactly-once credit, daily limit, rounding against CHECK constraints |
| Scheduled rides (`scheduledRideActivationWorker.ts`) | `rides.scheduled_at`, job `schedule-<ride>` | schedule, activate | the 5-minute expiration armed at request time, job ids still held, offers in between |
| Shared rides (`sharedRideService.ts`) | `rides.shared_seats_available`, `shared_ride_passengers` | join, leave, pick up, drop off | leave has neither lock nor transaction nor status check |
| Ratings (`ratingService.ts`, `ratingRecalculationWorker.ts`) | `ratings`, `driver_profiles.rating`, job `rating-<driver>` | rate, recalculate | debounce by job id |
| OTP (`otpService.ts`, `otpDeliveryWorker.ts`) | `otp_codes`, Redis counters | send, verify, deliver | read-modify-write of `attempts`, several live codes |
| Sessions (`jwtService.ts`, `authService.ts`, `middlewares/auth.ts`, `adminService.ts`) | `refresh_tokens`, `users`, Redis `bl:jti`, `bl:user`, `user:<id>` | log in, refresh, log out, protect, (de)activate, approve | rotation in several steps, cache fill against invalidation |
| Presence and dispatch (`driverHandlers.ts`, `redisGeoService.ts`, `driverService.ts`, `emitter.ts`) | `driver_profiles.is_online`, Redis geo set and metadata | go online/offline, location update, connect, disconnect | three stores written one after the other, pipelines that are no transactions, several sockets |
| Ride rooms (`emitter.ts`, `socketAuth.ts`, `riderHandlers.ts`) | room membership, Redis `active_ride:<user>` | join, leave, rejoin on connect | late joins and leaves |
| Idempotency (`middlewares/idempotency.ts`) | Redis `idempotency:<user>:<key>` | look up, replay, keep an answer | check-then-act, an error after the commit, Redis failures |
| Caches (`cacheService.ts`, `userService.ts`, `driverService.ts`) | Redis keys with a TTL | look up, fill, invalidate | a fill that overtakes an invalidation |
| Notifications (`notificationService.ts`, `notificationWorker.ts`) | `notifications`, `device_tokens`, queue | send, push, prune | retry after partial delivery |
| Driver statistics (`driverService.ts`) | none; reads | period ranges, chart, trends | date arithmetic at month ends |
| Schema (`src/migrations`, `src/seeders`, `src/scripts/dbClean.js`, `package.json`) | the tables, `SequelizeMeta` | migrate, undo, seed, undo seeds, clean | no transactions, partial failure |
| Process (`server.ts`, `jobs/index.ts`, `config/redis.ts`, `socketServer.ts`) | open connections, workers, timer | start, signal, drain, release, force exit | order, a timer racing a drain |
| The rest: onboarding, vehicles, stops, uploads, HTTP layer, rate limits, health | single rows or none | CRUD, plumbing | little or no concurrency of its own |

Components meet in four places: rows locked by transactions; BullMQ jobs named by
id, which handlers add and remove without awaiting; Redis keys with a TTL; and
events emitted after a commit. `PROJECT.json` lists every component with its
status, and every hazard at its line.

Correctness, in a sentence per component: one winner per ride and no open offer
or expired promise left behind (negotiation); the balance is what the completed
transactions say, each credited once (wallet); seats plus active passengers is
constant (shared); the stored rating becomes the average of the ratings (ratings);
at most `maxAttempts` tries at a code and so many codes an hour (OTP); a revoked session is refused and a
stale copy of his user lapses (sessions); a driver is found iff online, and a ghost
for two minutes at most (presence); the sockets of a ride are in its room while it
goes on and not afterwards (rooms); a second request with the same key has no
second effect unless the first one's answer was not there to be found (idempotency); a push that is done has reached every device
(notifications); a scheduled ride that nobody takes does not stay open for
ever (scheduled); trends
compare with the period before (statistics); undo undoes what migrate did
(schema); nobody is served without the database behind him (process).

For nearly every component the code keeps its promise only outside certain
interleavings. Each property says which, by a history variable that is set
exactly when such a step happens; section 3 lists them. Outside these cases the
property is checked, and for most components proved, without reservation.

## 2. Modules

| Module | What it is |
|---|---|
| `RideStateMachine` | statuses, `VALID_TRANSITIONS`, `validateTransition` |
| `RideLifecycle` | abstract: what a ride promises, with offers, locks, jobs and retries left out |
| `RideNegotiation` | the negotiation, one action per group of statements that nothing can come between |
| `MCRideNegotiation` | instance for TLC, with the symmetry set |
| `OfferCooldown` | the Redis key that keeps one driver from offering again on one ride at once |
| `RideNegotiationProofs` | the inductive invariants `IInv` and `JobInv`, the theorems, the refinement of `RideLifecycle` |
| `WalletLedger` | abstract: what a wallet promises, each entry posted once |
| `DriverWallet` | one driver's wallet: top-ups, manual top-ups, rides paid into it |
| `MCDriverWallet` | instance for TLC, with the symmetry set |
| `DriverWalletProofs` | the inductive invariants `WalletInv` and `BooksInv`, facts about sums, the theorems, the refinement of `WalletLedger` |
| `TokenLife` | abstract: what sessions promise, a token is valid until it is revoked or lapses |
| `Sessions`, `UserCache` | tokens, blacklists and rotation of one user; his row, its cached copy and the handlers that change it |
| `AccountProofs` | the invariants `SessionInv` and `CacheInv`, the theorems about both, the refinement of `TokenLife` |
| `Otp` | one-time codes for one phone |
| `OtpProofs` | the invariants `OtpInv` and `CooldownInv`, the theorems about `Otp` and `OfferCooldown` |
| `DriverPresence` | whether one driver can be found |
| `RideRooms` | the rooms, keys and handshakes of one user's sockets |
| `SocketProofs` | the invariants `PresenceInv` and `RoomsInv`, the theorems about both |
| `MCClients` | composes `Sessions`, `UserCache`, `Otp`, `OfferCooldown`, `DriverPresence` and `RideRooms` |
| `ClientsProofs` | the composition implements each of the six and keeps what they keep |
| `SharedRides` | seats and passengers of one shared ride |
| `Ratings` | the ratings of one driver and the debounced job that averages them |
| `Notifications` | one notification, its push job, the user's devices |
| `Idempotency` | requests with one `Idempotency-Key` |
| `ScheduledRides` | one booking with its activation and its expiration job |
| `ServerLifecycle` | one run of the process |
| `DriverStats` | `getPeriodRange` and the chart's days, walked through day by day |
| `Schema` | migrations, seeders and the npm scripts, statement by statement |
| `MCServices` | composes the eight modules above |
| `ServicesProofs` | invariants and theorems of the eight but `Schema`, and of their composition |
| `SchemaProofs` | what the 25 scripts do, `RevInv` and the theorems about the schema |

### How `RideNegotiation` corresponds to the code

`ride` and `offers` are the rows (`"none"` = not inserted); `rideJob` and
`offerJob` are the BullMQ jobs under their ids; `announced` records an emitted
`ride:cancelled`. `proc` is what each HTTP request or worker is doing: `at` names
the handler and what it does next. `picked` and `crashes` are history.

* A transaction that needs one lock only (acceptRide, startRide, completeRide,
  cancelRide) is one action: between its statements no other handler can change
  what it read under the lock, and nothing else sees it until it commits.
* pickDriver is `PickLock` (lock the ride, validate, read the offer without a lock)
  and `PickWrite` (update by id, reject the rest), which waits for the offer rows
  others hold. processRideExpiration is its unlocked first read, `RideExpireLock`
  and `RideExpireWrite`.
* riderRefuseOffer and processOfferExpiration lock the offer and count the other
  pending ones in one action, and commit, or lock the ride, in a later one:
  offers committed in between are not in the count.
* refuseRide reads and saves without a lock: `RefuseRead`, `RefuseWrite`.
* What a handler does after its commit (`..._enqueue`, `..._done`) is a step of its
  own, since the next request may come first or the process may die.
* `queue.add` with an id that is in use does nothing, whatever state that job is in
  (`Enqueued`); only a delayed job is removed (`Cancelled`); completed jobs
  vanish and failed ones are kept (`removeOnComplete: true`, `removeOnFail: 200`).
* `Abort` is PostgreSQL breaking a cycle of two transactions that hold the ride
  and an offer and each wait for the other's row. `Crash` is a process that dies: the
  open transaction is rolled back, what was still to do is lost, its job is put back.
* Delays are left out: a delayed job may run at any moment, which covers every clock.
* The row of the ride is created by `RequestRide`; several rides would not interact
  here, since no handler touches two of them.

Left out of this module on purpose: the cooldown key (it may have lapsed whenever
acceptRide looks, so no behaviour is excluded; the section below is about it),
`arrivedAt` (nobody reads it),
the wallet (a completion whose wallet fails changes nothing here), fares (an offer's
identity stands for its fare), and the partial unique index behind
acceptRide's check (the model shows that the ride lock is enough without it).

### How `OfferCooldown` corresponds to the code

One driver, one ride, one key `cooldown:<driver>:<ride>`. `keyLeft` is its lifetime, `pending` the
driver's offer, `caller` what each request or job is about to do, with its age; `sinceOver` and `lost`
are history. acceptRide looks the key up (`OfferCheck`) before its transaction (`OfferCommit`).
refuseRide, riderRefuseOffer and the offer's expiration end the offer (`WithdrawCommit`, `Decline`,
`ExpiryCommit`) and set the key after that (`SetCooldown`); between the two the process may die
(`DieBeforeKey`). refuseRide and the worker write over, or skip, an offer that is over already, and
set the key all the same. A pick, a cancellation or the ride's expiration sets none (`RideCloses`). A Redis
command that fails is swallowed by `cacheGet` and `cacheSet`.
The module says nothing about statuses, locks and jobs: it lets an expiration start whenever an
offer is pending, which covers every schedule that `RideNegotiation` describes.
`CallTime` bounds how long a request or an attempt takes, like `RequestTime` in `UserCache`:
without it a request that has passed the check could commit after any number of offers.

### How `DriverWallet` corresponds to the code

`balance` is the wallet's row; `entries` are the rows of `wallet_transactions` that
credit it, the `RIDE_EARNING` row of a ride under the ride's own name (its
`reference_id`); `rides` holds what completion reads and writes, the commission
row's amount included; `today` is the calendar day. Amounts are cents.

* confirmTopup, adminTopup and completeRide are `SERIALIZABLE`. Each takes its snapshot
  at its first statement, which asks for a row lock (`ConfirmTopup`, `AdminTopup`,
  `CompleteRide`), and goes on when it gets it (`ConfirmRow`, `AdminLimit`,
  `CompleteRideLock`). `missed` collects the rows others have committed since the
  snapshot; PostgreSQL refuses a lock on those with error 40001 (`CanLock`, `Abort`).
  That is snapshot isolation, which admits more than `SERIALIZABLE` does, so
  what holds in the model does not rest on PostgreSQL's predicate locks. Nothing in
  the code retries a 40001.
* confirmTopup and completeRide lock their own row and then the wallet's; the last
  step (`ConfirmCredit`, `CompleteSettle`) updates the wallet, the rows and commits.
* adminTopup adds up the day's rows in one step and books in a later one, with the
  date of that moment: midnight may fall in between.
* `MarkFailed` is both places where the payment worker gives a top-up up. Nothing enqueues
  its jobs yet, so the model lets its verdict come at any time.
* `CommissionOf` is `Math.round` on cents; at an exact half, floating point may go either way.
* The negotiation (section above) is one step here, `AgreeAndStart`: only the fare and
  the ride's row matter to the wallet.
* A handler's `balance + $1 >= 0` guard and the wallet's status check always pass:
  amounts are positive, and no code suspends a wallet.

### How the modules around a client correspond to the code

In all of them one action is what a handler does up to its next `await`; `Requests`,
`Calls`, `Clients`, `Handlers` are slots of requests served at once. Time is a countdown:
a key or a token has so many ticks left, and a tick takes one from each. Where the
code swallows a Redis error, the action's failing variant changes nothing and the
handler goes on; failures are counted against a bound.

* `Sessions`. `access`, `rows`, `blockedTokens`, `blockedUser` are the access tokens' remaining
  lives, `refresh_tokens`, `bl:jti:<jti>` and `bl:user:<id>`. A request carries the list
  of steps still to do (`LogoutPlan`, `RefreshPlan`, ...), which is the handler's sequence of
  awaits; `Protect` is the middleware's check. changePassword and resetPassword end alike. Passwords,
  signatures and profile fields are left out. `revoked` is history. For `TokenLife`, a token whose access
  token has run out has no life, and a request bears its token from `Protect` to its next step.
* `UserCache`. `Check`, `Load`, `Read`, `Fill` are protect: the blacklist, the cached copy, the
  database, the copy's refill. `Deactivate`, `Block`, `Drop` are the admin's deactivation:
  row, `bl:user`, `user:<id>`; `Activate`, `ApproveDriver`, `SetRole`, `SaveRole` are the other
  writers. `RequestTime` bounds how long a request may dawdle between its read and its
  fill; without one a copy could be arbitrarily old.
* `Otp`. `Incr`, `Expire`, `Limit` are checkOtpRateLimit, two Redis commands; `Discard`, `Create` the
  UPDATE and the INSERT of sendOtp; `Look`, `Count`, `Compare`, `Use` verifyOtp, whose write
  of `attempts` is the value read plus one. `guesses` counts the comparisons made.
  The counter of all phones appears as a refusal that may come at any time.
* `DriverPresence`. `profile`, `inGeo` and `meta` are the three stores. `Toggle` and `SaveStatus` are
  toggleOnlineStatus, `Place` and `Report` the location updates over HTTP and over a socket, `Disconnect` and
  what follows it the disconnect handler, whose two writes nobody awaits; `Find`, `FetchMeta`,
  `SweepStale` are a search with its lazy clean-up. `Crash` is the process. The index is written by
  ioredis pipelines, which are not MULTI and whose results nobody looks at: `WritePlace` (`GeoAdd`, `HSet`,
  `ExpireMeta`) and `RemoveAfterToggle`, `RemoveOnDisconnect` (`ZRem`, `Del`) take one command per step, others come
  in between, and any command may be lost by itself. A hash whose EXPIRE is lost has no lifetime
  (`NoLifetime`) until the next EXPIRE or DEL.
* `RideRooms`. `joining` and `leaving` are the calls of joinRideRoom and leaveRideRoom, which go
  through their sockets one by one; `Greet`, `ReadKey`, `Rejoin` are the handshake. The
  `watcher` is a rider in `nearbyDriverWatchers`.

### How the services correspond to the code

* `SharedRides`. joinSharedRide is one transaction, one action; leaveSharedRide is `Leave`, `ReadSeats`,
  `SaveSeats`, and may die in between.
* `Ratings`. An average is the set of ratings it was taken over. The job's id is the
  driver's: an add is dropped while a job of it is delayed, active or kept as failed.
* `Notifications`. `StartPush` reads the rows, `SendTo` and `SendFails` go through them one by one,
  `FinishPush` removes refused tokens. Meanwhile devices register, leave, change hands
  and refresh. An attempt that throws is repeated; a stalled worker is too.
* `Idempotency`. `Replay`, `Miss`, `LookupFails` are the lookup; the handler behind it commits (`TakeEffect`)
  or refuses (`Refuse`), and what has committed may answer 2xx (`Answer`), which is then kept
  (`KeepAnswer`), or not (`AnswerLost`): acceptRide reads the driver's profile after its commit
  (`rideService.ts:363`), and if that fails the answer is a 500, which the middleware does not keep;
  the process may die after the commit, and setex may fail. What a handler would itself
  refuse the second time (an offer that is still pending) is not taken into account: the key is
  what is modelled.
* `ScheduledRides`. `expiry` and `activation` are the two jobs, by id, with their attempts. The ride goes between
  Pending and Offered as offers come and end (`Offered`, `Refused`, `OfferLapses`), because the activation passes
  over a ride that is Offered and riderRefuseOffer arms nothing; `RenewExpiry` is the two-minute job that an
  offer's expiration arms. `Add` does nothing while a job of that id is delayed, active or kept
  as failed; `FailedIsEvicted` is `removeOnFail`. Any add may fail, and is then swallowed.
* `ServerLifecycle`. `phase` follows startServer and gracefulShutdown; `up` is what is open; the four
  releases of the shutdown run side by side, the ten-second timer beside them.
* `DriverStats`. Days are numbers; `setDate` and `setMonth` overflow as JavaScript's do.
* `Schema`. The list of statements of each migration and seeder; a command executes them in
  turn, and may fail or die at any. sequelize-cli and PostgreSQL are external.

### The compositions

`MCClients` and `MCServices` each instantiate several modules side by side. Their parts share
no state that the properties depend on (a session never looks at a room), so the
interleavings of two parts show nothing that the parts alone do not: the variable
`focus` names the one part a behaviour is of, and the others stay as they started. That
the sessions and the cache meet in protect is taken into account in each of them:
`UserCache` has `bl:user` of its own. The negotiation meets the wallet in completeRide; each
of the two has the other's part of that transaction as guard or as a single step.

## 3. Runs

| Run | Bounds | What it shows |
|---|---|---|
| `negotiation_safety` | 2 drivers, 2 offers, 2 requests and 2 workers at a time, 2 attempts, 1 crash; symmetry | the safety properties and the refinement, about 1.3 million states |
| `negotiation_liveness` | 2 drivers, 2 offers, 1 request and 2 workers, no crash; no symmetry | rides leave the market, offers are settled |
| `pending_ride_has_no_offer` | as safety, no crash | violated: see findings |
| `negotiated_fare_is_charged` | as safety, no crash | violated: see findings |
| `wallet` | 2 handlers at a time, 1 online and 3 manual top-ups, 1 ride, 2 amounts, 2 fares, 2 days; symmetry | the wallet's properties and the refinement, about 560 thousand states |
| `agreed_fare_settles` | 1 handler, 1 ride | violated: see findings |
| `clients` | 2 requests at a time everywhere, 2 token pairs, 2 sockets, 2 rides, 2 OTP rows, lifetimes of 1 to 3 ticks, 1 Redis failure of a token or a cached row and any number of the driver's index, 1 death; a cooldown of 5 ticks with 3 offers and 3 callers; symmetry | the safety properties of the six modules around a client and the refinement of `TokenLife`, about 1.1 million states |
| `services` | 3 riders for 2 seats, 3 ratings, 2 devices, 4 requests with one key, activations up to 5 ticks ahead with the code's 2 and 3 attempts and 2 offer expirations at once, 2 connections and 2 jobs, 2 years of days, 1 command that dies | the properties of the eight service modules, liveness of ratings included, about 562 thousand states |
| `activated_before_expiry` | `services`, scheduled rides only | violated: see findings |
| `previous_period_is_previous` | `services`, statistics only | violated: see findings |
| `leftovers_are_harmless` | `services`, schema only | violated: see findings |
| `only_existing_tokens_blacklisted` | `clients`, sessions only | violated: see findings |

Two requests and two workers give four handlers at once: two that race for the
ride and two that race for the same offer, or both expirations and both sides of
a pick. Two offers are the least for a loser, for a count that overlooks one and
for a deadlock between a pick and an expiration of another offer. Two attempts is
the code's own number (`config.jobs`). One crash is enough to lose any one
follow-up or to run any one job twice; the proofs cover any number. Deadlock
checking stays on: the only state without a successor of its own is a ride that
is over with every handler idle, which `Over` names.

For the wallet, two handlers are one that waits for a lock and one that overtakes
it; statements outside transactions (`MarkFailed`, `CancelRide`) come on top. The limit is
the configured one, the amounts such that two of them fit or do not; three manual
top-ups are two that race and one booked before. Two days are one midnight.

In `clients`, two requests are the least that overlap; two token pairs are the one being
rotated and the one it becomes, or the old session and the new; two sockets are
one that closes while another is open; two rides are the one that ends and the one
whose key a late leave can delete. Lifetimes are as short as the code's order of
them allows: `bl:user` lasts at least as long as an access token (both 15 minutes), a
cached copy shorter than that, and metadata long enough to lapse between two
reports. `MaxPerHour` and `MaxAttempts` are 1: what matters is the request over the limit.
For the cooldown, three callers are an acceptRide that has passed the check and two that end an
offer at the same time; three offers are one that is over, one that a caller still works on and
the next; five ticks are long enough for a key set late to run out, and to be set anew, in between.
In `services`, three riders compete for two seats; three ratings are one that runs,
one that waits and one that is dropped; four requests with a key are two that overlap,
one whose lookup fails and one that comes later, so that up to four effects meet up to three slips. Slips
need no bound: each takes a request, or a lapse of an answer that only a request can put back. Of the
booking's countdowns the secondary expiration (`RenewalDelay`, two minutes) is shorter than the first
(`ExpiryDelay`, five), and `Delays` lie on both sides of it; `MaxRenewals` bounds the offer expirations that are between their commit
and their add. Two years, the second a leap year, hold every
change from one length of month to another.
`MCServices.cfg` turns deadlock checking off, because its parts do end: a process
exits, a booking is over, the last day comes.

Fairness (`FairSpec`). A handler whose next step is enabled again and again takes it
(strong fairness on `Continue(p)`): a handler waits only for row locks, and
PostgreSQL queues waiters. A due job is taken by an idle worker (weak
fairness): that is BullMQ's worker loop. No client is obliged to send anything.
Both liveness properties exempt a job that used up its attempts as a deadlock's
victim, because the code gives up on it, and runs with crashes, because an
enqueue that died is never made up for. `RatingFairness` asks the same of the ratings'
requests and worker: a request that has committed goes on to enqueue, a due job is taken
and its steps are taken. An attempt may fail at any step, but attempts are counted, so
they do not fail for ever.

Properties:

* `AcceptedOfferIsThePick`, `MatchedRideHasNoPendingOffer`, `OnePendingOfferPerDriver`:
  races between picks, offers, refusals and expirations leave one winner and no open offer.
* `AnnouncedIsOver`: the expiration worker decides on a stale read and announces unconditionally,
  yet never announces a ride that can still be offered on. (It can announce as
  cancelled a ride that was just accepted: `ride:cancelled` is emitted even when
  the transaction returned early.)
* `OpenRideHasExpirationJob`, `PendingOfferHasExpirationJob`: late cancellations and refused
  enqueues never strip an open ride or offer of its expiration. Its job is runnable, or a
  worker is at work on that very ride or offer, or its request is about to enqueue it. What is left is what
  the code gives up: a job that has failed at all `MaxAttempts` attempts (`GivenUp`), which is kept, never runs again
  and blocks its id, and a process that died.
* `RideKeepsItsPromise`: the row implements `RideLifecycle`. In particular the expiration worker never
  cancels a matched ride (`SystemCancelsOnlyUnmatched`, a part of the invariant and a theorem of its own).
* `RideLeavesMarket`, `OfferSettles`: liveness.
* `ReOffersWait`: a driver's next offer comes a cooldown after his last was over, or within two
  requests' times of it: one for the key to be set, one for a request that was checked before. `lost`
  excepts a Redis failure or a death after the commit.
* `WalletIsLedger`: every step posts one entry, once, or leaves the wallet alone, so no
  repeated or concurrent confirmation or completion pays twice; `BalanceIsAccountedFor`: the
  statement adds up to the balance; `SettledIsFinal`: a confirmation and a failure report
  of one payment do not undo each other.
* `DailyLimitKept`: no day's manual top-ups exceed the limit, though the sum is read
  before the row is written and the row may be dated on the next day. It is the
  lock on the wallet that makes this so.
* `PaidIffCompleted`: cancelRide (READ COMMITTED) against completeRide (SERIALIZABLE).
* `InactiveGetsNoToken`: refreshToken's steps never bring a request that has not
  looked yet to the point of issuing for a deactivated account.
* `TokensKeepTheirLife`: sessions implement `TokenLife`. A token that was revoked never becomes valid
  again, and admits a request only where Redis fails while it is looked up; each such admission
  costs one failure, and so does each revocation that was swallowed.
* `StaleRowLapses`, `ShutAccountStaysShut`: a fill may overtake an invalidation, so the cache may
  authorize by an old row, but only so long; and `bl:user` outlasts every such copy.
* `RateLimitHolds`: each request goes by the answer of its own INCR. `CounterLapses`: the counter
  has no lifetime exactly while a request is between INCR and EXPIRE, and after one has died
  just there (`orphaned`), which locks the phone out for good. It is an equivalence: no other
  death excuses a lock-out, and that one does lead to it. `LiveCodesAreBounded`: overlapping resends leave as many live codes as
  requests overlap. `AttemptsAreLimited` excepts `raced`: a verification wrote its count over
  another's, which nothing in the code prevents.
* `GhostLapses`: whatever was lost or died, a driver whose place nobody writes any more is soon not found,
  unless the EXPIRE of a new hash was lost (`broken`) or is still to come: the one command of the
  pipelines that it depends on. `OfflineDriverIsHidden` excepts `excused`: offline, he was written back by a
  report that came late, or his removal was lost while he was visible. Nothing is claimed of the converse, that a driver who
  reports is found: a search that found his hash gone may sweep him after he has come back
  (`SweepStale`), a lost GEOADD or a removal of another socket hides him as well, and only
  his next report repairs it.
* `LeftRideIsForgotten`, `PhonesAreInTheRoom` except the histories `mixed` and `missed`: a handshake
  or another ride's call that came between the steps of a join or a leave, or a call that failed.
* `SeatsAddUp` excepts `muddled`: a rider who left twice, or two leaves that overlap.
* `RatingCounts` excepts `dropped`: the add came while the job had read the table already, or was
  kept as failed, or failed itself.
* `DonePushReachedAll`: a retried push passes over nobody.
* `RetryIsHarmless`: requests with one key have one effect, and one more at most for each of the
  slips, which are counted: a miss beside a request under way, a failed lookup, an effect whose answer was
  not kept (an error after the commit, a death, a failed setex), a lapse. A refused request leaves
  no answer behind, so it can be repeated.
* `BookingWillExpire`: a ride without a driver, Pending or Offered, has its expiration delayed; or
  the one it had failed at every attempt; or every add so far failed, and then its activation has not armed one
  either: it is to come, was lost or given up, found the ride Offered and passed over it, or its
  add failed. The third is the stranded ride: the request's add is lost, an offer is pending
  when the activation is due, and the rider refuses it.
* `ServedHaveTheirParts`: through start-up, signals, draining and the timer.
* `StatsPeriodsAdjoin`: current range, chart and trends, for every day of the years walked through,
  but for the two cases of the finding below.
* `MigrationsAreReversible`: undo undoes, in any order of commands, unless one died half-way.

Every property has a mutant in `PROJECT.json`: a plausible bug in the code that
TLC must catch.

### Findings

1. `PendingRideHasNoOffer`. `offerExpirationWorker.ts:56` says "Check if this was the last
   pending offer for the ride", but the count is taken before the ride is locked.
   An offer accepted in between is overlooked and the ride goes back to Pending with
   that offer on it; it cannot be picked (Pending to Accepted is no transition)
   until another driver offers.
2. `NegotiatedFareIsCharged`. `rideService.ts:679` says "Use the accepted offer's offeredFare
   as the final fare (negotiated price)". refuseRide reads its offer without a
   lock; if the rider picks that offer before refuseRide saves it, the save
   overwrites Accepted by Rejected, the ride goes on with that driver, and
   completion charges the calculated fare.
3. `AgreedFareSettles`. `rideService.ts:317` says "Open pricing: any positive fare, capped at
   5x system estimate". A fare of 0.04 TND is accepted and the ride driven, but its
   commission rounds to 0.00 and the CHECK constraint `amount > 0` rejects the
   commission row: completeRide fails every time.
4. `ActivatedBeforeExpiry`. `src/roadmap.md:1016` says of the activation "Delayed job (15 min before scheduledAt),
   notifies nearby drivers, enqueues fresh expiration". requestRide arms the five-minute
   expiration for a scheduled ride too, at request time: a ride booked more than
   twenty minutes ahead is cancelled by the system before it is activated.
5. `PreviousPeriodIsPrevious`. `src/roadmap.md:1451` asks for "current + previous period date ranges". In the week
   in which a month begins, and on the last days of a month longer than the one
   before it, the previous range is another one, even one in the future.
6. `LeftoversAreHarmless`. The comment at `src/migrations/20260514120001-add-service-type-enum-and-motorcycle.js:26` calls the enum values
   that `down` leaves behind "harmless, unused entries". `up` adds them again without IF NOT
   EXISTS, so after an undo every db:migrate fails there.
7. `OnlyExistingTokensBlacklisted`. `src/roadmap.md:307` says "On password change: blacklist all existing tokens for that
   user". `bl:user` refuses every token of the user for fifteen minutes, those of a login
   with the new password included.

Seen while modelling, and not the subject of a run:

* The comment at `rideService.ts:306` says that the cooldown check "prevents rapid re-offers after
  expiry/refusal". The key is read before the transaction and set after the other side's: a request of
  the driver that was checked while his offer was pending commits right after the rider has
  refused it. `ReOffersWait` says how far this goes.
* approveDriver, rejectDriver, registerVehicle and the rating's recalculation do not invalidate
  `driver:<id>:profile`, so a profile is old for up to its TTL; statistics are cached for
  five minutes across midnight.
* isApproved is looked at by toggleOnlineStatus only: a driver who is online when he is rejected
  stays so.
* A ride requested for a service without the asked vehicle type fails with a 500.
* arriveAtPickup, and the stops' departure and arrival, check a status and write later.
* logoutAll has no route; no code sets the passenger status `confirmed`; the error handler's
  branch for 409 is never reached.

## 4. Proofs

`RideNegotiationProofs` proves, for all sets of drivers, offers, requests and workers and
every number of attempts and crashes:

* `TypeCorrectness`, `Invariance`, `JobInvariance`, `ServedInvariance`;
* `OnlyThePickIsAccepted`, `MatchedRideIsSettled`, `OneOfferPerDriver`, `ExpirationIsSafe`,
  `AnnouncedIsFinal`, `OpenRideWillExpire`, `PendingOfferWillExpire`: every safety property of the run;
* `PromiseKept`: the refinement of `RideLifecycle`.

Assumptions: the nulls are no drivers and no offers, `MaxAttempts` is positive,
`MaxCrashes` is a natural number.

The properties are not inductive as they stand. `IInv` adds what they rest on:

* `LocksExclude`: at most one handler holds the ride, at most one holds an offer;
* `LocksProtect`: what was read under a lock is still so: a held offer is pending,
  a ride about to be picked is Offered, one about to be expired is open;
* `WorkingOffers`, `OffersHaveDrivers`: handlers work on inserted offers, which have a driver;
* `MarketIsOpen`: an open ride has no driver and no accepted offer;
* `LateHandlers`: those that still have to announce or to cancel a job do so for a
  ride that has left the market.

The steps fall into three kinds, each with a lemma: steps that move one handler and leave
the rows alone (`SlotStep`), steps that close one offer (`OfferCloses`), and the few that
write the ride or all its offers (`RideMoves`, `AcceptStep`, `PickStep`, `RideExpireStep`).
The key fact is `NobodyHoldsOffers`: a transaction that holds the ride and has every
pending offer free faces no other lock holder, because a held offer is pending.

The two properties about jobs rest on a second invariant, `JobInv`, relative to `IInv`: a
handler that is about to remove the jobs of offers does so for offers that have
ended (`RemovesEnded`), and an offer that has ended stays so. One lemma, `JobsKept`, covers
every step that opens nothing and takes no job from what is open; the inserts and
their enqueues are the exception (`InsertsGetJobs`).

`JobInv` alone would be content with a job that is there in whatever state. That it will run is
`JobsAreServed` (`ServedInvariance`), relative to `IInv`: a job that is active has a worker on it, and one that
has failed has failed `MaxAttempts` times. `OpenRideWillExpire` and `PendingOfferWillExpire` combine the two.

`DriverWalletProofs` proves, for all sets of rows, rides and handlers, all amounts, fares,
rates, limits and days: `WalletTypes`, `RideIsPaidOnce`, `TopupsSettleOnce`, `BalanceAddsUp`,
`LimitHoldsEveryDay` and `WalletImplementsLedger`, which is every property of the run. Assumptions: amounts
are positive, the limit is a natural number, the rate is a percentage, and the kinds of rows are disjoint.
`WalletInv` adds to the properties that a handler between its two locks finds its row as it
left it (`RowsHeldStay`), that no two handlers hold one row (`LocksExclude`), and that what is
pending or completed is positive (`EntriesAreCredits`). The steps that credit share the
lemma shape `CreditsEntry`.

`BooksInv` is about sums, relative to `WalletInv`. The daily limit is not inductive: between the
sum of the day's rows and the booking, midnight may pass, and other rows may be
booked. `RoomUnderLimit` closes the gap: a manual top-up that has passed the check and holds the
wallet's lock still fits under the limit with everything booked since the start of *today*,
whichever day that is by now. And the balance is the sum of the rows completed, which only makes sense
because only finitely many ever are (`CreditsAreFinite`), however many rows there could be.
The facts about sums (`SumOfNone`, `SumWith`, `SumWithout`, `SumOfPart`, `SumOfSame`) are about
`SumFunctionOnSet` itself, the fold of the community modules. They are proved without an induction
principle: if two functions that obey the fold's equation differed on a subset, they
would differ on a smallest one (`MinimalSubset`, from `WFMin`), and the equation
says that they do not.

`AccountProofs`. `SessionInv` adds `KeysOutlive`: a key in Redis, or the request that is about to
write it, outlives every token it stands for; and that each request's remaining steps
are a tail of its handler's plan. `CacheInv` adds three bounds on time: a fill under way read the
row at most `RequestTime` ago (`FillsAreRecent`), a copy is no older than that and what is gone of
its TTL (`CopyIsRecent`), and a ban on a shut account outlasts both (`BanOutlasts`). From these follow
`RevokedStaysRefused`, `StaleCopyLapses`, `DeactivatedStaysOut`. `InactiveAccountGetsNoToken` is an action property and needs
only that no step but the reload leads to issuing (`OnlyReloadLeadsToIssue`). Assumed: the lifetimes
are ordered as the code's are.

`TokensLiveOnce` is the refinement of `TokenLife`, relative to `SessionInv`. It rests on `KeysOutlive` in one place:
protect admits a token that no key stands for, and the invariant says that such a token was
not revoked or its revocation failed (`ProtectLife`). The rest is bookkeeping, one lemma for each
kind of step: a token is issued (`IssueLife`), revoked or not for want of Redis (`BlockLife`), lapses (`TickLife`),
or a request goes on (`RequestLife`), for which `AdmittedIsFirst` says that no plan comes back to
admission.

`OtpProofs`. `OtpInv` adds `EntitledAreFew`: the rows issued and the requests that still may issue are no
more than the limit, since each holds a different answer of INCR; `GuessesAreCounted`: a comparison
made or about to be made was booked on its row first, unless raced; that rows
looked at exist; and `CounterIsSettled`: at most one request, the one that created the counter's key, is
between INCR and EXPIRE, and none while the counter is orphaned. Requests that hold different numbers up to the limit are counted by the
finite-set theorems of the library.

The same module holds the proofs about `OfferCooldown`: `CooldownTypes`, `ReOffersAreHeldBack`, and `CooldownEnds`, which
says that however withdrawal, refusal and expiration overlap and set the key again, no driver is held back longer
than a cooldown and a request's time. `CooldownInv` says that while a cooldown
runs the key is there, or a caller is about to set it, or it was lost (`KeyIsThere`); that a key
was set within a request's time of an offer's end (`KeySuits`), because whoever is
about to set it has seen that end (`EndsAreRecent`); and that a request which has passed the check long
after an offer's end passed it rightly (`ChecksHold`). Assumed: the cooldown is positive. It need not be
longer than a request.

`SocketProofs`. `PresenceInv` adds `HashIsRecent`: a hash that has a lifetime is as recent as the time since
the last write says, and one without is about to get one or was left so by a lost EXPIRE; and `RemovalFollows`: an
entry of a driver gone offline has a removal on its way. Every command of a pipeline is a step of its own here too.

`RoomsInv` adds that calls come in the order the ride goes (`CallsFollowRides`), that only
connected sockets are in rooms, that the sockets a call has still to move are all
that keep the room from being full or empty (`RoomFills`, `RoomEmpties`), and that nobody joins
after the leave (`NobodyJoinsAfter`).

`ClientsProofs`. A step of `MCClients` is a step or a stutter of each of its parts (`PartSteps`), so
its specification implies each part's (`ClientsImplementParts`), and with it all that is proved of
the part: `ClientsTypes`, `ClientsAreSafe`.

`ServicesProofs`. `SharedInv`: a leave that has read the seats still has the right number, unless muddled.
`IdemInv` counts: the effects, and the requests that are past their lookup and may still have one, are no
more than one and the slips; and no more than the slips, when no answer is kept and none can come of a request
under way (`WithinSlips`). So a miss that is no slip is the one that makes the difference.
`ScheduleInv` adds that a failed expiration has used its attempts up (`ExpiryIsTried`).
`ScheduleInv`, `ServerInv` and `PushInv` are otherwise the properties of the run with what each
stage of the job, the process or the attempt guarantees.
`RatingInv` is the safety that the liveness property `RatingCounts` rests on: unless an add was dropped, a
rating counts, waits to be enqueued, or will be read by the job or has been
(`RatingOnItsWay`); and no late recalculation loses a rating that counted before (`AverageGrows`).
`PeriodsAdjoin` holds for every number of years: a month is found by its first day because first
days increase (`MonthsFollow`, from the years, the leap days and the table `DaysBefore`) and
a least month that begins later exists; ranges are then arithmetic on days.
`ServicesImplementParts`, `ServicesTypes` and `ServicesAreSafe` are about the composition, like those of
`ClientsProofs`; `RatingFairness` is part of both specifications and carried along as it is.

`SchemaProofs`. `SchemaTypes` looks through all 25 scripts: only seeders insert, and only into tables that
the migrations make and do not drop on the way up. `MigrationsReverse` needs to know more of them.
Every object, enum values aside, has a home (`Home`), the one file whose `up` makes it. A file's `up` makes
objects that are at home in it and not there yet, from objects of earlier files or of
earlier statements (`UpFits`), and its `down` drops these and no others, each after what needs it
(`DownFits`); both are proved file by file. So what is there between commands is what the files applied
have made (`Base`), and in the middle of a file what its statements so far have added (`UpState`)
or left (`DownState`). `RevInv` says that the schema is exactly this, as long as no command has died and
none has failed, and `Execute`, `Record` and the ends of commands keep it so. The one exception to homes
is the offers' unique index, which file 7 makes and file 21 drops on its way up and makes
again on its way back. And the statements that can fail are the two that the property names,
`ADD VALUE` of an enum value that an undo left behind and that index over repeated
offers, after which the command stops where it is and the invariant says no more.

All of these hold for every number of requests, tokens, offers, sockets, rides, riders, ratings, devices, years
and for every value of the limits and lifetimes the named assumptions admit. The
refinements proved are `PromiseKept`, `WalletImplementsLedger`, `TokensLiveOnce`, `ClientsImplementParts` and
`ServicesImplementParts`. Every invariant and every action property of a passing run has its theorem.

Only model-checked:

* the liveness properties `RideLeavesMarket`, `OfferSettles`, `RatingCounts`: liveness under fairness and
  ENABLED are beyond the prover. What they rest on is proved: an open ride or offer has its job
  (`OpenRideWillExpire`, `PendingOfferWillExpire`), and `RatingOnItsWay`.

## 5. Plan

1. (done) `RideNegotiation`, `DriverWallet` and their abstractions.
2. (done) `Sessions`, `UserCache`, `Otp`, `DriverPresence`, `RideRooms` with theorems about each.
3. (done) `SharedRides`, `Ratings`, `Notifications`, `Idempotency`, `ScheduledRides`, `ServerLifecycle`, `DriverStats`,
   `Schema` with theorems about each.
4. (done) The job-presence invariants of `RideNegotiation`; the sums of `DriverWallet`; theorems about both
   compositions.
5. (done) The offer cooldown, in `OfferCooldown`, with its theorems; `TokenLife` and its refinement;
   `MigrationsReverse`.
6. Several server processes behind the Redis adapter, in `RideRooms`; `emitToNearbyDrivers` as a reader of
   `DriverPresence` within requestRide.
7. An abstract specification for rooms.

## 6. Not modelled, and why

* Ride stops: rows of one table, with a status check before the write that no other
  handler depends on.
* Cached profiles, statistics and fares: old data for a TTL, and nothing is decided by it.
* Rate limiting: configuration of a library, its counters in Redis with no other reader.
* Routes, controllers, validators, error handling: they forward to the services. The
  validators' bounds are the bounds on the inputs that the models enumerate.
* Vehicles, documents, service types, uploads, catalog: single-row writes without
  interaction; only approval matters elsewhere, and is in `DriverPresence`.
* Providers (Google, WhatsApp, SMS, Firebase), logging, API docs, health checks: I/O without
  state of the program; where an outcome matters (a push refused, a delivery failed) it is
  a choice of the model.
* Of the negotiation itself: event delivery and push notifications
  (they change no state the properties look at), pagination and reads, and the clock.

The bounds of section 3 limit the model-checked claims; those of section 4 hold for
every size.
