# Formal model of rodando-backend

TLA+ specifications of the parts of rodando-backend (a NestJS, TypeORM and PostgreSQL
backend of a ride-hailing service) whose correctness depends on the order in which
requests, timers, database transactions and crashes happen. TLC checks small instances;
TLAPS proves the safety properties of all nine components, and every action property that
is checked, for any values of their constants; liveness stays with TLC.

Paths below are relative to `src/src/` of the repository.

## 1. The system

| part | code | state | operations | interacts with |
|---|---|---|---|---|
| Trip dispatch | `modules/trip/services`, `modules/trip/repositories` | trips, trip_assignments, trip_events | startAssigning, runMatchingOnce, accept, reject, expire, close, arriving, arrived, start, complete | driver availability (rows locked together), timers, orchestrators |
| Expiry timers | `modules/trip/services/assignment-expiry.scheduler.ts`, `realtime/listeners/assignment-expiry.listener.ts` | one `setTimeout` per offer, in memory | schedule, cancel, fire | DriverOffered / Accepted / Expired events; calls expireAssignment |
| Auto-arriving | `realtime/orchestrators/driver-assigned-auto-arriving.orchestrator.ts` | none | on DriverAccepted: setArriving | the trips table |
| Trip requests | `modules/trip/services/trip.service.ts` requestTrip, `modules/core-settings` | idempotency_keys, trips | claimOrGet, create, succeed, fail | clients that retry; pricing |
| Orders and refunds | `modules/orders`, `modules/transactions` | orders, transactions, commission_adjustments | create, confirm, refund (two kinds), adjust, update, delete | wallets |
| Wallets and top-ups | `modules/driver_balance`, `modules/cash_colletions_points` | driver_balance, wallet_movements, cash_collection_records | debit, credit, block, unblock, confirm a top-up | orders, prepaid plans, availability |
| Driver availability | `modules/drivers-availability` | drivers_availability | ping, status, login, logout, upsert, trip set or cleared, removal | dispatch, sweeper, users, vehicles, wallets |
| Presence sweeper | `core/domain/jobs/presence-sweeper.job.ts` | none | every 30 s: silent drivers offline | drivers_availability |
| Prepaid plans | `modules/prepaid-plans` | prepaid_plans, user_prepaid_plans | catalogue, purchase (cash, wallet) | wallets, transactions (which hold the keys) |
| Auth and sessions | `modules/auth`, the handshakes of `realtime/gateways` | sessions, sockets | login, refresh, logout, connect | users, sockets |
| Pricing | `modules/settings`, `modules/vehicle-types`, `modules/vehicle-service-classes` | price_policy, city, zone, vehicle_types, vehicle_service_classes | quote, final fare, CRUD | requestTrip, completeTrip |
| Users and credentials | `modules/user` | users, auth_credentials | register, update, change password, remove, ping | auth, availability |
| Realtime | `realtime/` | socket.io rooms | listen to domain events, publish to rooms | in-process events |
| Driver profiles, vehicles | `modules/driver-profiles`, `modules/vehicles` | their tables | onboarding, CRUD | availability (eligibility) |

The parts meet in three ways: rows locked inside a PostgreSQL transaction (READ
COMMITTED, `SELECT ... FOR UPDATE` through `pessimistic_write`), in-process events
(`EventEmitter2`, lost when the process stops), and in-memory timers.

### What is hard in it

* Two matchings of one trip (an expiry, a rejection, a manual start) in flight at once;
  every read before the offer transaction is unlocked and may be stale when used.
* accept, reject, expire and close racing for one offer; conditional updates whose number
  of updated rows nobody looks at.
* Timers and events that live in memory, set and cancelled by events emitted inside or
  after the transactions they describe.
* Retries: a request whose first attempt is slow, has crashed or failed after its commit;
  a purchase whose key is looked up and never locked.
* Entities read, decided on and saved whole (sessions, orders, wallets, availability):
  what another request wrote in between is overwritten.
* Money: operations repeated by operators, edits that save stale entities, one step of a
  transaction failing; prices whose tables change between quote and completion.

`PROJECT.json` lists the hazards line by line, each with the properties that would catch
it, or the reason why none does.

### What makes each part correct

* Dispatch: one active offer per trip and only while the trip is ASSIGNING; trips,
  assignments and availability agree; answers are final; no offer is left without a timer;
  every trip is taken or closed.
* Requests: one trip per key; what a client is told exists; a failed key made nothing.
* Settlement: one movement per transaction; records and ledger agree; a revert gives back
  a commission that was recorded; the ledger explains every balance.
* Availability: the flags agree, the trip pointer is true, only a driver who may drive is
  made available, a silent driver ends up offline.
* Sessions: a refresh token that was replaced stays out; a logout is final; sockets do not
  outlive their session.
* Accounts: a contact is one user's; who was told he is registered can log in; nobody
  waits for ever.
* Plans: a wallet pays for each plan, within its limit; a key buys once per overlap.
* Pricing: the best policy in force prices the trip, and its price holds.
* Notifications: nobody is told what has not happened; everybody concerned is told what has.

None of these holds without exception. Where the code breaks one, the property names the
case, and section 3 lists the cases under "Where the code and its statements differ".

## 2. Modules

| module | models | kind |
|---|---|---|
| `TripLifecycle` | what dispatch promises of a trip: its statuses, who holds the offer, who drives | abstract |
| `TripDispatch` | dispatch over its tables, timers and handlers; implements `TripLifecycle` | detailed |
| `TripNotifications` | events, listeners and rooms around a trip that takes the steps of `TripLifecycle` | composition |
| `TripRequests` | POST /trips over the idempotency keys | detailed |
| `CashSettlement` | orders, commissions, refunds, adjustments, top-ups, wallets | detailed |
| `DriverAvailability` | the availability row, its writers, what eligibility looks at, the sweeper | detailed |
| `Sessions` | logins, refreshes, logouts and the sockets that hang on a session | detailed |
| `UserAccounts` | users and credentials under transactions that do not see each other | detailed |
| `PlanPurchases` | the catalogue of prepaid plans, purchases with keys, the transactions that hold them | detailed |
| `Pricing` | policies, places, rates; quotes and final fares | detailed |
| `...Proofs` | the proofs about the module of that name | proofs |
| `PlansAndFaresProofs` | the proofs about `PlanPurchases` and `Pricing`, which share lemmas about sums and orders over finite sets | proofs |
| `MC...` | the symmetry sets and constant functions of the runs | TLC |

### What is one action

A transaction that locks the rows it decides on is one action: other transactions see it
entirely or not at all. What the code reads without a lock and uses later is an action of
its own; a handler `w` keeps what it has read in a record (`h[w]`, `call[d]`, `req[w]`,
`edit[a]`), with a field naming the step it is about to take. Where a transaction can wait
for another in its middle (`UserAccounts`) each statement is an action and `tx[w]` holds
what is written and not committed. Events delivered synchronously by the emitter belong to
the action that emits them, except in `TripNotifications`, which is about them. A
definition introduced by `Slip:` in its comment is not part of the specification: it is a
plausible mistake, used to show that a property can fail. Variables grouped as "what has
happened, for the properties only" are history: no guard reads them.

### TripDispatch

| model | code |
|---|---|
| `tripStatus`, `tripDriver`, `arrivedAt` | `trips.current_status`, `driver_id`, `arrived_pickup_at` |
| `asg` | the rows of `trip_assignments`; `Unused` is a row not inserted yet |
| `elapsed` | rows whose `ttl_expires_at` has passed |
| `events`, `reported` | the answers and arrivals in `trip_events` |
| `free`, `onTrip` | `driver_availability`: available with no reason, and `current_trip_id` |
| `timers`, `autoArrive` | the scheduler's map and the orchestrator's pending events |
| `StartAssigning`, `MatchTrip`, `MatchList`, `MatchFind`, `Offer`, `SkipCandidate`, `Announce`, `CloseTrip` | startAssigning, the reads and the loop of runMatchingOnce, the events after an offer, the closing of the trip |
| `RejectRead`, `ExpireRead`, `TimerFires`, `Respond`, `RespondFails` | rejectAssignment and expireAssignment, by hand or by the timer |
| `AcceptRequest`, `Accept`, `AcceptRefused`, `AnnounceAccepted` | acceptAssignment: the clock, the transaction, the events |
| `DriverSetsOff`, `AutoArrive`, `MarkArrivedPickup`, `StartTripInProgress`, `CompleteTrip` | the ride |
| `AvailabilityChanges` | whatever pings, status changes and the sweeper do to a driver's availability |
| `Crash` | restart: handlers, timers and undelivered events are lost, tables stay |

`handleRepositoryError` turns every database error inside the offer transaction into an
`InternalServerErrorException`, so the branch of runMatchingOnce that recognises a lost
race is dead and is not in the model: losing a race is `SkipCandidate`.

### TripRequests

`row` is the table of keys: status, stored trip, attempt count, and whether the lease
(`locked_until`, 30 s) and the window (`expires_at`, 1 h) still run. `trips` are the trips
created, for which key and passenger, `told` everything a client was told. `ClaimRead`,
`Insert` and `Renew` are the statements of claimOrGet; `CheckActive` is findActiveByPassenger,
which runs on a connection of its own; `Create` and `CreateFails` the transaction;
`Succeed`, `SucceedFails` and `Fail` what follows. `LeaseElapses` and `WindowElapses` are
the clock, which may advance while the request is in flight.

### TripNotifications

The trip takes the steps of `TripLifecycle` (`L == INSTANCE`), which `TripDispatch`
implements, so nothing of dispatch is repeated. Modelled is when an event leaves each
handler: inside the transaction (`open`: AssigningStarted, and NoDriversFound of an
expiry), after the commit (`due`, batches emitted together), or after one more read that
may fail (`EmitFails`). `inflight` are emitted events whose listener has not published
yet: `emit` does not wait for an async listener, so their order is not kept. `Listen`
is the listener of each type with its look-up of the passenger; `told` are the messages
that reached a socket, `lost` those a closed socket, a failed read or a crash took,
`retracted` what a rolled back transaction had announced. `log` is `trip_events`, with the
rows no passenger or driver is told of (`Silent`: a rejection, an expiry, a closing by hand).

A message names who hears it and in whose room it was sent, for the publisher does two
things with what it sends to a room: `To` is `emitTo`, which first copies room, event and
payload to every socket of the namespace (`Broadcast`), and `driverOffered` copies the offer
once more. A room is therefore no secret, and no property says that a driver hears of his
own trips only; what `ToldIsLogged` says of rooms is who is addressed.

### CashSettlement

Amounts are small integers (cents). `status`, `tripOf`, `charged`, `commissioned`,
`commission`, `refunded`, `noted` and `adjusted` are the orders with their trips, their
CHARGE, PLATFORM_COMMISSION (one row per order and trip) and REFUND transactions, the cash
record that notes a refund, and the commission_adjustments; `topup`
and `topupTx` the cash collection records of top-ups and their transactions; `balance` and
`blocked` the wallets; `ledger` the movements in the order they were written. Operations
that lock the order and then the wallet are one action. Confirming a top-up reads the
record first and locks the wallet later: two actions of a handler. PATCH /orders/:id locks
nothing and is three: the order is read and changed (`EditRead`), TypeORM's `save` selects
the row again and compares (`EditSelect`), and the columns that differ are written
(`EditWrite`), whatever was committed in between. Of what it changes, the status and the
trip are modelled: a PENDING order may be moved to a trip that no order has.

Three facts of the code shape the model. `blockWalletLocked` saves an entity read before
the debit, so the debit that blocks is undone (`Debited`). `createPlatformCommission` looks
for a commission of the order's trip, driver and order, and compares the one it finds with
one of platform fee 0 although it stores the rate, so a second confirmation is always
refused (`CreatePlatformCommission`) unless the order has another trip by then. An order
that an immediate refund has set back to PENDING stays there, or is moved to another trip,
confirmed, and charged again. And the movement of an immediate refund is linked to no
wallet, because `walletId` is not a column of the entity (`ImmediateRefund`).

### DriverAvailability

| model | code |
|---|---|
| `live`, `flags`, `trip`, `vehicle`, `age` | the columns of the row: not soft-deleted, is_online / is_available_for_trips / availability_reason, current_trip_id (set or not), current_vehicle_id, last_presence_timestamp in steps of the TTL |
| `user`, `profile`, `wallet`, `fleet` | the rows eligibility looks at |
| `offered`, `riding` | how many offers dispatch has made him that he may still accept, and how many trips of his are under way: he may hold two offers and accept both |
| `call` | a status change between its read and its update; `LoginRead`, `LoginDecide`, `LoginCheck`, `StatusWrite` are the reads and the write of markOnlineFromLogin and updateStatusByDriverId |
| `sweep` | the ids the sweeper has selected and not updated |
| `by`, `adrift` | history: who wrote the flags last, and whether over the pointer the row has; what put the trip pointer out of step with the rides |

`Upsert`, `SetOrClearTrip`, `UpdateLocation` and `SoftDelete` are the administrators'
routes, `Onboard` the transaction of a driver profile, `TripStarts` and `TripEnds` what
acceptance and completion write in the row. Things changed behind the row's back (users,
profiles, wallets, vehicles) and raw writes count against `MaxChanges`. `Departed` are
drivers who have left: their rows are OFFLINE and old, match the sweeper's condition for
ever, and come first in its batch.

### Sessions

`row` is the sessions table. A token is the jti that an access token and its refresh token
share; a row's hash always belongs to its jti, because both are saved together, so the
reuse check that compares them again finds nothing and is not modelled. Refresh and logout
read the row (`RefreshRead`, `LogoutRead`) and save the entity they changed later, without
lock or version; `h[w].read` is the row as read. TypeORM's `save` is two steps: it selects
the row by id and compares (`SaveSelects`), and then writes the columns that differ and no
others (`RefreshSave`, `RefreshRevoke`, `LogoutSave`), so that another save may fall between
the read and the comparison or between the comparison and the write. `cuts` are
SessionRefreshed events on their way, `conn` the sockets from handshake to room, with
`late` for a handshake the cut has overtaken. `AccessExpires` and `RefreshExpires` are the
clock, `Crash` a restart.

### UserAccounts

Registration is look-up, insert, credentials, commit; an edit locks its row, then looks for
each contact it wants (`CheckEmail`, `CheckPhone`, which lock the row found), saves and
commits. `Taken` are the committed rows a unique index refuses, `MustWait` the uncommitted
ones it waits for. `createForUser` reports its failure in a value `register` ignores; an
aborted transaction's COMMIT rolls back: `CommitRegistration` answers with success all the
same. `DeadlockDetected` is PostgreSQL breaking a cycle of waits.

A transaction is named by the connection it runs on, because connections outlive requests.
When `create` refuses a registration, `register` returns without a commit or a rollback and
releases the connection (`Leave`): "left" is a connection of the pool whose transaction is
still open, or aborted. A single statement that is given it runs in that transaction
(`Statement`; `pend[w]` is what it has written, which others do not see, and whose rows it
keeps locked), a transaction that starts on it continues it (`Startable`), and the next
COMMIT or ROLLBACK on it ends it (`CommitRegistration`, `Done`, `EndElsewhere`). On an
aborted one `startTransaction` fails outside the `try`, and the connection is never released
(`StartFails`).

### PlanPurchases

`tx` holds the PLAN_PURCHASE transactions, each with the plan and the movement written in
the same transaction. A request looks its key up (`StartPurchase`), again in its
transaction (`CheckPurchase`), and pays under the wallet's lock (`PayFromWallet`) or in
cash (`PayCash`). A look-up is a select for one row without order: `Missed` says when it
may come back without a purchase. `RemovePlan` is refused by the foreign key once a plan is
bought. Transactions edited, deleted or made by hand are here because the keys live in
them. `other`, `peak` and `touched` are history.

### Pricing

A quote reads its tables one after the other: `QuoteRates` (vehicle type and service
class), `QuoteContext` (city and zone), `QuotePolicy` (up to `Take` candidates, ordered by
specificity, priority and recency, filtered by their conditions). `card` is the snapshot
stored with the trip. `Complete` takes the prices from the card and reads rates and
multipliers again. Edits read a row, validate and write (`Edit...Read`, `Edit...Write`);
`WriteCity` and `WriteZone` are one statement. Conditions are sets (dates, week days,
hours), moments are small integers shifted by a time zone; multipliers are in hundredths.
The DTOs of vehicle types and service classes ask for numbers only, so multipliers are any
integers, and so are fares: nothing that is proved takes a fare to be positive. `pricingVars`, `PricingSpec` and
`PricesTyped` are named after the module so that its proofs can stand beside those of
`PlanPurchases`.
`InForce` is the reference definition of the policies that apply, written from the meaning
of the columns and not from the query; `BestPolicyQuoted` compares the two. A range of hours
that ends before it starts runs over midnight (`HoursNamed`), as the engine's `timeInRange`
supports; the validator of the DTO (`is-price-policy-conditions.decorator.ts`) refuses such a
range, so in the run only a row that is there from the start has one.

## 3. Runs

Every run finishes within minutes with two workers. Model values are interchangeable where
the cfg says SYMMETRY; no run with a liveness property uses symmetry. `CHECK_DEADLOCK
FALSE` stands where nothing has to happen once the bounded supply of requests, tokens or
changes is used up; `trip_dispatch`, `trip_live`, `double_booked` and `trip_requests` are
checked for deadlock.

| run | instance | checks |
|---|---|---|
| `trip_dispatch` | 1 trip, 2 drivers, 3 offers, 2 handlers, rejections, 1 fault | `TypeOK`, `OffersAreExclusive`, `TablesConsistent`, `EveryOfferIsWatched`, `AnswerIsFinal`, `ImplementsLifecycle` |
| `trip_live` | no faults, no rejections, with fairness | `EveryTripResolves` |
| `trip_requests` | 1 key (or none), 2 passengers, 2 trips, 2 requests, 2 attempts, 1 fault | `TypeOK`, `OneTripPerKey`, `ToldTripsExist`, `FailedMadeNothing`, `OutcomeIsFinal` |
| `cash_settlement` | 1 driver, 2 orders, 2 trips, 1 top-up, 2 handlers, 1 edit, 1 adjustment | `TypeOK`, `OneMovementPerTransaction`, `RecordsMatchLedger`, `RevertMirrorsCommission`, `CommissionFollowsOrder`, `LedgerExplainsBalances` |
| `availability` | 1 driver and 1 who has left, 1 vehicle, 2 offers or rides, batch of 1, 1 change, with fairness | `TypeOK`, `FlagsAgree`, `PointerMatchesRide`, `AvailableWasFit`, `SilentDriverGoesOffline` |
| `sessions` | 1 user, 1 session, 3 tokens, 2 requests, 1 socket, 2 changes | `TypeOK`, `ReplacedStaysReplaced`, `LogoutHolds`, `SocketsFollowSessions` |
| `accounts` | 2 users, 1 address, 1 number, 2 connections, 1 fault, 1 statement pending, with fairness | `TypeOK`, `ContactsUnique`, `RegisteredHasCredentials`, `EveryRequestEnds` |
| `plan_purchases` | 1 plan, 1 buyer, 1 key (or none), 3 requests, 3 transactions, 2 changes | `TypeOK`, `WalletPaysForPlans`, `PurchasesPerKey` |
| `pricing` | 1 trip, 3 policies, 1 city, 2 zones, 2 types, 2 classes, 2 moments, 3 edits by 2 administrators, one range of hours over midnight | `PricesTyped`, `PriceKept`, `BestPolicyQuoted` |
| `trip_notifications` | 1 trip, 2 drivers, 1 other passenger, 1 fault, 2 batches or events waiting | `TypeOK`, `ToldIsLogged`, `CaughtUp` |
| `double_booked`, `balance_write_back` | see below | a statement the code does not keep |

Bounds. Two handlers, requests or transactions are enough for every race of the code: no
step looks at more than one other request's effects (a purchase has three, so that two
overlap while a third retries). Two drivers make the second round of matching happen (a
driver already tried is never offered the trip again, so three offers are never all used by
one trip alone, and the third row is room for a wrong one). One fault lets a crash or a
failing statement fall between any two steps. A second attempt on a key is a renewal; a
third adds nothing that the properties, which speak of keys never renewed, could see. One
edit of an order separates any two of its other operations, and with two trips it can give
an order a trip of its own or the one another order had. Commissions 1 and 2, a credit of 3
and an adjustment of 2 take the balance below zero and back. One adjustment falls between any
two operations of either order, and what it shares with another is the wallet, as with any
movement; an adjustment of 0, which leaves a trace only, is not in the run. The theorems are
for any number and size of them. Two offers are what one double booking
takes. A batch of one and one departed driver are the least at which the sweeper can be kept
from a silent driver. Sessions and policies' trips share nothing with each other that an
action reads, but for unique tokens and contacts; the proofs, where there are any, are for any
number of them. Three tokens are two rotations of one session, enough for a stale save to
bring a token back that was replaced twice; the exception of `ReplacedStaysReplaced` takes
three requests in flight at once, so the run never needs it. Two users, one with the only
address and one with the only number, can each want the other's (the deadlock). A wallet
that may owe 1, plans of 2 and movements of -1 and 2 pass the limit on both sides. Three
edits of prices are one before the quote, one between two of its reads and one during the
ride; a day has three moments, of which hours over midnight take two. With one trip and two
drivers a notification of an old offer may be overtaken by one of the next, and the other
passenger hears the broadcasts.

Fairness. `FairSpec` of `TripDispatch` is weak and states what the process does by itself:
a handler in flight goes on, the clock advances, a due timer fires, and TripRequested
reaches the orchestrator that calls startAssigning. Nothing is assumed of drivers or
passengers. `EveryTripResolves` is checked without faults: after a crash the timers are gone
and nothing in the code brings them back (a hazard in `PROJECT.json`); and without
rejections, after which nobody closes a trip that has no candidates left.
`LiveSpec` of `DriverAvailability` is weak fairness of the sweeper's select and update,
which cron runs every 30 seconds. The OR of the sweeper's condition is not in parentheses, so
the rows of drivers who left match it for ever and, being the oldest, come first: as many of
them as a batch holds keep a silent driver from being swept. `SilentDriverGoesOffline`
therefore supposes that in the end the rows selected fit in the batch; in the run, whose
batch is one and where the departed driver's row may be deleted or not, it fails without
that hypothesis.
`LiveSpec` of `UserAccounts` is strong fairness of each transaction: PostgreSQL serves the
waiters of a lock in turn and breaks deadlocks, so a transaction that is let through again
and again goes on. Nothing is assumed of the connections that refused registrations leave in
a transaction: that somebody ends it, once a statement has been given it, is the hypothesis
of `EveryRequestEnds`.

Mutants. For each property `PROJECT.json` names a definition and a plausible mistake in it
(a guard dropped, a row read too early, a step left out) under which the run must find the
property violated.

### Where the code and its statements differ

Each of these runs checks a sentence of the repository that the code does not keep;
`findings` in `PROJECT.json` quotes it.

| run | statement | what happens |
|---|---|---|
| `double_booked` | a driver on a trip gets no other | he may accept two offers that he holds at the same time |
| `balance_write_back` | a commission updates the balance | not the one that blocks the wallet |

Seen while modelling, and kept in the models without a run of their own:

* a matching that loses the race for an offer reports no candidates, so its caller closes
  the trip over the winner's offer; after a rejection nobody closes a trip without
  candidates; the loser of accept and expire is logged in `trip_events` all the same;
* a passenger may get two active trips with two keys: the look-up and the insertion are not
  one step;
* `markArrivedPickup` announces an arrival, but `setArrivedPickup` leaves the status;
* confirming a top-up that lifts a block throws and is rolled back;
* a second confirmation of an order is always a conflict, although the doc at
  `modules/orders/services/orders.service.ts:211-213` calls it idempotent; an immediate
  refund leaves the order PENDING;
* PATCH /orders/:id may move that order to another trip (`orders.service.ts:443-468`), and it
  is then confirmed again and charged a second commission, which no refund gives back: the
  commission is looked up by trip, driver and order (`transactions.repository.ts:418-429`),
  with no unique index, while the comment at `transactions.repository.ts:432-434` calls it
  idempotent by trip and driver. One trip may have the commissions of two orders, too;
* the commission that blocks a wallet is recorded and written back, and the refund of that
  order credits it all the same: the driver is given what was never taken;
* adjustments compute the new fee from the original one, so several of an order do not add up;
* a login decides on the pointer it read: one that a trip's start overtakes leaves a driver
  available on a trip, against `driver-availability.entity.ts:27-33` (its checks are comments);
  a creation that names no trip does the same;
* the end of one of two rides a driver has accepted clears `current_trip_id` while the other
  is under way, and may leave him available;
* enough rows of drivers who left fill every batch of the sweeper;
* a refresh that overlaps a logout brings the session back to life; two refreshes of one
  token that overlap both rotate and both answer, and the tokens of the first are replaced
  at once; with three requests in flight a logout that compares between a rotation and the
  save before it writes a replaced token back into a live row;
* `register` answers a refused registration without a rollback (`user.service.ts:373-376`):
  the connection goes back to the pool in an open or aborted transaction, in which later
  statements are answered with success and may be lost, or hold their locks. The early
  returns of `OrdersService.update` (`orders.service.ts:447-475`) do the same, which is not
  modelled;
* two purchases with one key that overlap both buy;
* a policy of a city or zone that was switched off or is out of its window still prices
  trips: the OR of the query is not in parentheses (`price-policy.repository.ts:206`);
* a ride whose vehicle type was removed after the quote cannot be completed: the fallback
  to another type needs a relation that is not loaded;
* whatever is sent to a room is broadcast to its whole namespace first
  (`trip-realtime.publisher.ts:72-80`), an offer a second time (165-169): every driver hears
  of every offer and ride, every passenger of every trip;
* the rejection and the expiry of an offer, and the closing of a trip by hand, are rows of
  `trip_events` of which no passenger and no driver is told.

## 4. Proofs

Every proof is for all values of the constants that satisfy the module's named assumption
(the "none" values are no members of the sets they stand beside, bounds are naturals). Each
has an inductive invariant (`IInv`; `PricingInv` for `Pricing`) that TLC checked first; a
lemma per action or kind of step shows that it is kept.

| module | theorem | property |
|---|---|---|
| `TripDispatchProofs` | `TypeCorrect` | `TypeOK` |
| | `OffersExclusive` | `OffersAreExclusive` |
| | `TablesAgree` | `TablesConsistent` |
| | `OffersWatched` | `EveryOfferIsWatched` |
| | `AnswersFinal` | `AnswerIsFinal` |
| | `DispatchImplementsLifecycle` | `ImplementsLifecycle` |
| | `TripsGoForward` | a consequence of the lifecycle, see below |
| `TripRequestsProofs` | `RequestsTyped` | `TypeOK` |
| | `FirstClaimWins` | `OneTripPerKey` |
| | `AnswersAreTrue` | `ToldTripsExist` |
| | `FailureIsClean` | `FailedMadeNothing` |
| | `OutcomeStays` | `OutcomeIsFinal` |
| `CashSettlementProofs` | `TypesHold` | `TypeOK` |
| | `MovementsAreUnique` | `OneMovementPerTransaction` |
| | `RecordsAgree` | `RecordsMatchLedger` |
| | `RevertsMirror` | `RevertMirrorsCommission` |
| | `CommissionsFollow` | `CommissionFollowsOrder` |
| | `LedgerAccounts` | `LedgerExplainsBalances` |
| | `BalancesAreAccounted` | `NoChangeWithoutMovement` (no run) |
| `DriverAvailabilityProofs` | `TypesHold` | `TypeOK` |
| | `DecisionsAgree` | `FlagsAgree` |
| | `PointersFollow` | `PointerMatchesRide` |
| | `OnlyTheFit` | `AvailableWasFit` |
| `SessionsProofs` | `TypesHold` | `TypeOK` |
| | `ReplacedTokensStayOut` | `ReplacedStaysReplaced` |
| | `LogoutsAreFinal` | `LogoutHolds` |
| | `SocketsAreCut` | `SocketsFollowSessions` |
| `UserAccountsProofs` | `TypesHold` | `TypeOK` |
| | `NoContactTwice` | `ContactsUnique` |
| | `RegistrationsHold` | `RegisteredHasCredentials` |
| `PlansAndFaresProofs` | `TypesHold` | `TypeOK` of `PlanPurchases` |
| | `KeysBuyOnce` | `PurchasesPerKey` |
| | `WalletsPay` | `WalletPaysForPlans` |
| | `PricesAreTyped` | `PricesTyped` |
| | `PricesHold` | `PriceKept` |
| | `BestIsQuoted` | `BestPolicyQuoted`, for at most `Take` policies |
| `TripNotificationsProofs` | `TypesHold` | `TypeOK` |
| | `NothingFalseIsTold` | `ToldIsLogged` |
| | `EveryStepIsTold` | `CaughtUp` |
| | `TripsFollowLifecycle` | `L!Spec`: the trips that are told about are trips of `TripLifecycle` |

Dispatch. `IInv` is the invariants together with `TypeOK` and `HandlerOK` (the offer a
handler is about to answer is a row of the table, a handler that announces an acceptance
has an accepted row). None is inductive alone. `AcceptedMatchesTrip` needs
`OfferOnlyWhileAssigning`, because accept looks at the offer and not at the trip's status;
that one needs closing a trip to cancel its offers in the same transaction;
`OccupiedByOwnTrip` needs `AcceptedMatchesTrip`. `NextIsTableStep` first reduces the actions
to seven kinds of step on the tables (open, offer, answer, take, close, ride, end). The
refinement uses the same seven: each is one step of `TripLifecycle` or a stutter, with the
holder of a trip read off its active offer. What follows from the lifecycle alone is then
proved of its steps and carried over (`TripsGoForward`): a trip's status only advances, a
completed or closed trip stays as it is, a trip keeps the driver it has, and the driver it
gets is the one who held its offer at that moment.

Requests. `IInv` is `TypeOK`; `HandlerOK` (an owner's key has a row, a request that is
storing its response has made that trip); `StoredOK`, a stored response is a trip of the
key; `ToldTripsExist`; `LapsedOK`, which concerns the bound `MaxAttempts`; and
`FirstAttemptOK`, the core: until a key is renewed it has one owner at most, and that owner
has made no trip before `create` and only its own after it. `OneTripPerKey` alone does not
say that an owner about to create has made no trip yet, nor that a key without a row has
neither owner nor trip. `StepFromKey` shows that every step is, seen from one key, quiet or
one of five decisive steps of a request that holds it; `KeyStep` treats those six cases.

Settlement. The tables and the ledger answer for each other: `ChargesOK` (each commission of
an order has its movement, of the amount its charge fixed, and a revert its refund), `TopupsOK` (completed exactly when
moved), `TracesOK` (an adjustment has its movement, and the movement its trace),
`OrdersOK` (the status of an unedited order), `CommissionedOK` (a commission's movement has its
transaction, of that order and trip). With these, an operation that finds no row
knows that the ledger has no movement, which is what `OneMovementPerTransaction` needs; that
an order nobody edited has had one trip only, the one it has, makes it charged once.
Every step appends one movement at most; what appending keeps is proved once.
`MovementsEnter` says what such a step does to the balance, and both theorems about balances
follow from it: `Left(ledger, d, n)`, what the first n movements leave in a wallet, is not
changed by a movement after them (`LeftBefore`) and is the new movement's balance once it is
there (`LeftAfter`), unless its debit was written back. `LedgerExplainsBalances` is stronger
than `NoChangeWithoutMovement`, which speaks of one step: it also says that nothing but the
commissions that were written back is missing from the chain, whatever came in between.

Availability. Each action concerns one driver's row (`RowStep`), so `IInv` is a conjunction
of `DriverOK(d)`: a deleted row is blank; a login carries one of three complete patches, and
"available" only for a driver who was fit; the flags agree with each other, and with the
pointer when the decision was taken over the pointer the row has; the pointer is true, or out
of step for a reason that is known. What a sweep has selected is still there or was deleted.

Sessions. Saves of stale rows do little harm because of who owns a token: `FreshOK`, a token
that is signed and not saved is in no row and with no other request; `OwnersOK`, the tokens a
session has or would have after any pending save belong to no other session. A rotation that
has compared writes its own new token (`HandlerOK`: "jti" is among its differing columns),
which was never replaced; any other save writes a token that is its session's, and marks the
row revoked unless it found it marked: those are `revived`. Hence `ReplacedStaysReplaced`.
`ClosedOK` says that no rotation of a closed session is pending, `LogoutsOK` that a logout no
rotation has overlapped will mark the row or finds it marked still, `SocketsOK` states the
socket property for handshakes too.

Accounts. `TxOK`: a contact a transaction has written is committed for nobody else
(`Taken`) and written by no other transaction (`MustWait`), so its commit keeps
`ContactsUnique`; an abort is known only at commit, or is on a connection that was left, and
comes only after a failed statement or a refused insertion. What single statements have
pending changes no contact and takes no credentials away (`SameContacts`).

Purchases. `PurchasesPerKey` follows from: what a key has bought and the requests with it
in flight are together at most `peak`. A request that comes in raises the sum, but only
when its look-up missed, and a key nobody touched is only on purchases that are found
(`UntouchedOK`), so nothing has been bought yet; a purchase moves one from the second number
to the first. `WalletPaysForPlans` adds up the purchases paid from a wallet; it is inductive
with `PayingOK` (a request that may pay has a price to pay): a payment changes one term of
the sum by its price and takes that much from the balance, every other step leaves both.
That changing one term changes a sum by the difference (`SumMoves`) is an induction, and the
induction theorems of the library take an operator as a parameter; it is made instead from
the well-foundedness of finite sets under strict inclusion, which is stated without one: a
set of numbers has a least one (`LeastNumber`), so a sum that went wrong would have a first
index at which it did.

Prices. `PricingInv` is `PricesTyped` with `EditsOK` (a write still to come is of a row that
exists, and its columns fit the row) and `FaresOK` (a trip's estimate and its total are the
fares of what is kept with it). `PriceKept` follows by arithmetic: the cap is applied last.
`BestIsQuoted` needs that the order of the query is one (`PrecedesIsOrder`), that a finite
set of policies therefore has a first (`OneComesFirst`), and that every policy in force,
hours over midnight included, is among those the query returns (`InForceApplies`). It has the hypothesis that there are no
more policies than `Take`, 50 in the code: the query returns the 50 first by that order and
the conditions are looked at afterwards, so with more, all 50 may fail their conditions
while one in force is beyond them; the theorem is false without the hypothesis.

Notifications. `QueuedOK` (an event on its way is true and names who it is for),
`SettledOK` (a row of the history that is told to anybody is on its way, told or lost), `ToldOK`, and `StageOK`,
what these need of the trip itself. `TripsFollowLifecycle` closes the gap between the two
models of a trip: the steps that queue events here are steps of the `TripLifecycle` that
`TripDispatch` implements.

What the theorems do not say is what their properties name as exceptions; section 3 lists
them. Only model-checked: liveness (`EveryTripResolves`, `SilentDriverGoesOffline`,
`EveryRequestEnds`), since fairness and ENABLED are out of the prover's reach, and the two
statements the code breaks. Every invariant and every action property of a passing run is
proved. No module that is proved about declares a recursive operator.

## 5. Not modelled, and the plan

Not modelled: the CRUD of cash collection points (single statements without protocol), the
outbox module, which is empty, the application shell, payouts (mentioned by DTOs and
entities, performed nowhere), the consumption and expiry of prepaid plans (implemented, with
no caller), edits of the geometry of places, licences, documents, names, pictures and
catalogue labels, and all readers. Amounts, addresses, points, DTO shapes and wording are
abstracted everywhere.

What would come next: a composition of `DriverAvailability` with `TripDispatch`, in which
the latter's `AvailabilityChanges` is implemented by the former's operations, proved as a
refinement; one abstract wallet, of which the money of `CashSettlement` and of
`PlanPurchases` would be two implementations; and of the lifecycle, that a message a
passenger receives never takes back what `TripsGoForward` says is final.
