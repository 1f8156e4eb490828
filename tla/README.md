# Tanza backend: TLA+ models, checks and proofs

Tanza is a delivery service: customers order deliveries and pay from a wallet or
in cash, riders are assigned to orders, report their progress and are paid. The
backend is one NestJS process over PostgreSQL (TypeORM). This directory holds
TLA+ modules translated from its source, the TLC instances that check them and
theorems that TLAPS proves about them.

Paths below are relative to `src/src/`.

## The system

| component | state it keeps | operations | talks to |
|---|---|---|---|
| order tracking and rewards (`order/order.service.ts`) | `order`, `delivery_destination`, `order_tracking` rows | `POST /tracking`, `DELETE /tracking/:id`, `POST /:id/reward`, `POST /destination/delivered` | the wallet of the rider (same transaction), the event bus |
| dispatch (`order/order.service.ts`, `order-scheduler.service.ts`) | the rider columns of `order` | `PUT /:id/assign-rider`, `POST /rider-feedback`, a job every ten minutes | rider selection, tracking, wallet, sockets |
| delivery charges (`order/usecasses/calculate-delivery-charges.usecase.ts`, `commons/number.util.ts`) | none | quote, charge of an order | order creation |
| order creation (`order/usecasses/create-order.usecase.ts`) | inserts order, destinations, `PENDING`; debits the customer | `POST /multiple-delivery` | charges, wallet, dispatch |
| wallet and ledger (`wallet/services/wallet.service.ts`, `transaction.service.ts`) | `wallets`, `virtual_account`, `transactions` | funding by webhook, creation of a wallet, service charge | the payment provider, the event bus, the cache |
| rider payouts (`wallet/services/rider-payouts.service.ts`) | none; wallets | a weekly job | the payment provider |
| withdrawal options (`wallet/services/withdrawal-options.service.ts`) | `withdrawal_options` | create, update, remove, set default | payouts |
| rider selection (`users/services/rider.service.ts`) | none; reads `active_status`, `rider_info`, orders | `getRiderForOrder` | dispatch |
| active status (`users/services/active-status.service.ts`, `users.gateway.ts`) | `active_status`, connected sockets | connect, disconnect, location | rider selection |
| rider documents (`users/services/rider-document.service.ts`) | `rider_document`, `rider_info.documentStatus` | upload, review, delete | rider selection |
| vehicle types (`vehicle-type/`, `users/services/vehicle-document-settings.service.ts`, `on-startup.ts`) | `vehicle_type`, `vehicle_document_settings` | filled at start-up, administered | rider documents |
| users, OTP, registration (`users/`, `otp/`, `auth/`) | `user`, `otps` | register, send and consume a code, reset a password | event bus, wallet |
| location (`location/location.service.ts`) | none | four look-ups | map providers, cache |
| cache (`cache/cache.service.ts`) | key/value with expiry, in the process | `wrap`, `get`, `set` | location |
| notifications, tasks, ratings, tickets (`notification/`, `task/`, `user-ratings/`, `tickets/`) | their own rows | create, update, mark, delete | the event bus |
| administration, media, authentication, the Paystack client | none of their own | reports, uploads, token checks, HTTP calls | all |

Everything runs in one process: between two `await`s a handler is not
interrupted, and at each `await` any other handler may run. The components share
the database (reads committed, most handlers read a row, change it in memory and
write it back without a lock) and an in-process event bus whose handlers run
after the publisher and whose events do not survive a crash. What is hard here
is therefore: stale reads, checks and writes in different queries, rows that are
ordered by the start time of their transaction, a transaction that fails after
side effects, a crash between two commits, repeated calls of clients and of the
payment provider.

`PROJECT.json` lists under `hazards` where each of these bites.

What makes each component correct:

- *tracking*: statuses are reached in order and once, an order with several
  destinations is delivered only when all are, a cancelled order stays closed;
- *rewards*: delivered and paid together, paid once;
- *dispatch*: `riderAssigned` and `riderId` agree, an order without a rider is
  found again, a rider who declined is not asked again, a cash order is charged
  once;
- *wallet and ledger*: no update is lost, a payment is credited to its user once,
  no order is paid with money that is not there, the ledger agrees with the balance;
- *payouts*: what was transferred is debited, once;
- *rider selection*: an eligible rider is chosen if there is one;
- *active status*: a rider without a socket is not active, and one who has just
  connected is;
- *documents*: the status of a rider is the one the documents give, and a file
  uploaded after an approval is not approved by it;
- *OTP*: a code serves one call, after it has been validated;
- *users*: a change of a column stays until the next change of that column;
- *vehicle types*: a server that listens has the defaults it needs;
- *withdrawal options*: there is one default, and payouts go to it;
- *location and cache*: an answer belongs to the question and is not too old;
- *notifications, tasks, tickets, ratings*: what was written stays, one rating per
  pair of users;
- *charges*: the parts of a price add up to the cent.

## Modules

| module | models |
|---|---|
| `OrderStore` | the tables of the order subsystem, the requests in flight with what they have read, time, failures and crashes |
| `OrderTracking` | `addOrderTracking`, `rewardRider`, `removeOrderTracking`, `markDestinationDelivered` |
| `OrderDispatch` | order creation, `assignRiderToOrder`, the scheduled job, `handleRiderFeedback` |
| `OrderLifecycle` | the two together: next-state relation, fairness, properties, the inductive invariant and the refinement mapping |
| `OrderContract` | the abstract specification: what the order subsystem promises, one atomic step per call |
| `OrderLifecycle_proofs` | theorems and proofs, of `OrderViews` too |
| `WalletStore` | wallets, virtual accounts, the transactions table, the event bus, the payment provider, the requests in flight |
| `Wallet` | creation of wallets, the debit of an order, rewards, service charges, deposits, the handler that writes transactions |
| `RiderPayouts` | the weekly payout job |
| `Money` | `Wallet` and `RiderPayouts` together, with failures, lost events and crashes; properties |
| `Money_proofs`, `Balances_proofs`, `Transactions_proofs` | theorems and proofs: types and accounts; balances; the ledger, payouts and deposits |
| `OrderViews` | the list of delivered orders whose rider is not rewarded |
| `Requests` | the requests in flight of the components that keep no transaction open |
| `Accounts` | one-time passwords, registration, passwords, profiles |
| `VehicleTypes` | start-up, vehicle types and their document settings |
| `RiderDocuments` | upload, review and deletion of documents, the rider's approval |
| `Presence` | sockets and `active_status` |
| `RiderSelection` | `getRiderForOrder` |
| `Lookups` | `LocationService` with `CacheService` |
| `Desk` | notifications, tasks, tickets, ratings |
| `WithdrawalOptions` | a rider's bank accounts and the one the payout job takes |
| `Pricing` | quotes, charges, amounts of an order; the reading of a pick-up location |
| `Services` | these nine in one specification |
| `Accounts_proofs` | theorems and proofs: codes and users |
| `Riders_proofs` | theorems and proofs: bank accounts, the start and vehicle types, documents, presence |
| `Services_proofs` | theorems and proofs: `Desk`, `Lookups`, `Pricing`, `RiderSelection`, and `Services` as a whole |
| `Sums_proofs` | what the folds of the community modules compute, for any finite set |
| `MCOrderLifecycle`, `MCMoney`, `MCServices` | symmetry, views and values for TLC |

### How state and actions correspond to the code

A request in flight is a record `req[q]`: `pc` names the `await` it is suspended
at, the other fields are what the handler holds in local variables. An action is
the code from one `await` to the next. `Fail(q)` is a query that throws: the
catch block rolls the transaction back and the request ends, or the scheduled
job goes on with its next order. `Crash` ends every request at once and keeps
the tables.

| code | actions |
|---|---|
| `addOrderTracking` | `PostTracking` (or `BeginAccept`), `LoadOrder`, `CheckDuplicate`, `CheckTransition`, `InsertRow`, `CheckReward`, `Commit` |
| `rewardRider` on its own | `PostReward`, `CheckReward`, `Commit` |
| `removeOrderTracking` | `LoadRow`, `DeleteRow` |
| `markDestinationDelivered` | `LoadDestination`, `SaveDestination` |
| `createMultipleDeliveryOrder` | `CreateOrder`, then as `assignRiderToOrder` |
| `assignRiderToOrder` | `PutAssign`, `LoadDeclined`, `PickRider` or `PickNobody`, `UpdateRider` |
| the scheduled job | `CronStart`, `CronNext`, then as `assignRiderToOrder` |
| `handleRiderFeedback`, accepted | `Accept`, `BeginAccept`, ..., `Commit`, `Charge` |
| `handleRiderFeedback`, declined | `Decline`, `SaveDiff`, `SaveWrite`, `PickRider` or `PickNobody`, `UpdateRider` |
| `RegisterUseCase.execute`, `InitializeWalletEventHandler` | `Register`, `CreateCustomer`, `SaveAccount`, `InsertWallet` |
| `getUserWallet`, `getRiderWallet` | `GetWallet`, `FindWallet`, then as `Register` if there is no wallet |
| `createMultipleDeliveryOrder`, wallet | `PlaceOrder`, `FindWallet`, ..., `ReadWallet`, `SelectWallet`, `WriteWallet` |
| the same with `isCashPayment` | `PlaceCashOrder`, `RecordCashOrder` |
| `deductServiceChargeFromRider` | `ChargeRider`, `FindWallet`, ..., `Decrement` |
| `rewardRider`, wallet | `RewardRider`, `ReadWallet`, `SelectWallet`, `WriteReward`, `CommitReward` |
| `fundWallet` | `FundWallet`, `FindFunded`, `CheckExisting`, `SelectWallet`, `WriteWallet` |
| `CreateTransactionEventHandler` | `SaveTransaction` |
| `handleWeeklyPayouts` | `StartPayouts`, `NextPayout`, `NoOption` or `TransferSucceeds` or `TransferFails` or `TransferTimesOut`, `SelectWallet`, `WriteWallet` |
| `OtpService.createOtp`, `consumeOtp` | `RequestOtp`, `IssueOtp`; `ConsumeOtp`, `SelectOtp`, `SaveOtp` |
| `clearOtp` in `RegisterUseCase.execute`, `AuthService.resetPassword` | `Register` or `ResetPassword`, `FindOtp`, `ClearOtp`, `InsertUser` or `SelectUser`, `UpdateUser` |
| `updatePassword`; `updateProfile`; the other profile handlers | `UpdatePassword`; `UpdateProfile`, `MobileExists`; `UpdateOther`; each then `SelectUser`, `UpdateUser` |
| `OnStartUp`, `initVehicleTypes`, `initDefaultSettings` | `Start`, `CountTypes`, `InitType`, `InitSettings`, `InitAdmin` |
| `VehicleTypeService` | `CreateType`, `InsertType`; `UpdateType`, `NameIsFree`, `SaveType`; `RemoveType` or `RestoreType`, `SoftDelete` |
| `VehicleDocumentSettingsService` | `CreateSetting`; `ChangeSetting`, `SaveSetting` |
| `uploadMultipleDocuments` | `Upload`, for each document `FindDocument` and `InsertDocument` or `SelectDocument`, `UpdateDocument`; then `updateRiderInfoStatus` |
| review, `deleteDocument` | `Review`, `SelectDocument`, `UpdateDocument`; `DeleteDocument`, `RemoveDocument`; then `updateRiderInfoStatus` |
| `updateRiderInfoStatus` | `LoadInfo`, `SelectInfo`, `UpdateInfo` |
| `updateRiderInfo`, `updateRiderDocumentStatus` | `SetInfo`, `SelectInfo`, `UpdateInfo` |
| `UsersGateway` | `Connect`, `Verify`, `SaveStatus`; `Disconnect`, `SaveStatus`; `SetStatus`; `HandlerFails`, `Restart` |
| `getRiderForOrder` | `Search`, `SearchBusy` |
| `searchLocation`, `getPlaceDetails`, `reverseGeocode`, `calculateDistance` through `wrap` | the action of that name, then `ProviderAnswers` or `ProviderFails`, `StoreAnswer` |
| notifications, tasks, tickets, ratings | an action per method; those that read first go on with `SelectRow`, `SaveRow`, `DeleteRow` or `InsertRating` |
| `WithdrawalOptionsService` | `CreateOption`, `CountOptions`, `InsertOption`; `UpdateOption`; `RemoveOption`, `DeleteOption`; `SetDefault`, `Unset`; then `SelectOption`, `UpdateRow` |
| `calculateDeliveryFee`, `calculateMultipleDeliveryFee`, `normalizePickupLocation` | `Quote`, `PlaceOrder`, `PickUp` |

`Money` sees an order only as an id that is paid for, rewarded and charged; who is
rewarded, and that it happens once, is the subject of the order modules, so a
reward or charge of an order is not started twice here.

What is taken from the platform, and not from `src/`:

- *PostgreSQL, READ COMMITTED.* A query sees what is committed when it runs. A
  row inserted and not committed is seen by its own transaction only
  (`Uncommitted`); the unique index on (orderId, status) makes a second insert
  wait for the first and fail if it commits (`InsertRow`). The other writes of a
  transaction come right before its commit and hold their row locks until it, so
  they are part of the commit step.
- *`now()` is the start of the transaction*, and `createdAt` defaults to it
  (`StartsAt`): a row can be committed after a row that is dated later.
- *TypeORM `save`* selects the row, compares and updates the columns that differ
  from the entity (`SaveDiff`, `SaveWrite`); `update` writes the columns it is
  given (`UpdateRider`). For the wallet, `SelectWallet` compares and `WriteWallet`
  updates; if the copy a request changed in memory now equals the row, nothing is
  written and the change is lost just the same.
- *`wallets.userId` is unique* (`@OneToOne` with `@JoinColumn`): the second insert
  fails (`InsertWallet`). `virtual_account.userId` is not.
- *The CQRS event bus* calls a handler without waiting for it and keeps nothing
  (`bus`, `LoseEvent`, `Crash`).
- *Paystack* answers a customer request with a new customer or with one it already
  has for the user, repeats webhooks at will, and may have made a transfer whose
  answer came too late (`TransferTimesOut`).

Abstractions: amounts, notes, notifications, sockets and response bodies are
left out; a reward is an entry of `credits[o]`, a service charge an entry of
`charges[o]`, each with the rider and the start time of its request. A rider
outside `HasWallet` may or may not be found to have a wallet at each look.
`getRiderForOrder` returns any rider that is not excluded, or nobody, unless a
rider of `Steady` could have been returned. `gone` and `refused` are history
variables that no action reads. Reads of `order` rows that are only checked for
existence are left out: orders are never deleted. Start times are told apart
only by their order, and a time nobody refers to any more is used again (`Used`):
the state space stays finite although transactions come and go.

In the money modules amounts are small integers in one unit: rounding to two
decimals is left out. `posted[u]` holds the changes of a balance that committed
and `parts[u]` those that the balance is made of; the two differ exactly by lost
updates. Both, and `raced`, are history variables. `customers` counts the
customer codes handed out. A verification that fails, a wallet that is not found
and a request that is refused end the request. `Total`, `Fee` and `ServiceCharge` are
integers of any sign: the request's `urgencyFee` is a number without a lower bound, and
it is part of all three. `FundWallet` takes any customer code: the webhook names the
customer who paid, but `POST /wallet/fund` takes the code from its caller, and
`fundWallet` does not compare it with the payment it has verified.

In the modules over `Requests` a call arrives with its first query: arriving alone
has no effect, and a call that its first query refuses is one that is not made.
TypeORM's `save` of a row that is gone inserts it again, with its old id; this is
how a deleted document, code, task or bank account can come back. `Abort` is a
query that throws, a client that goes away or the end of the process. In
`Accounts` the email follows the rules of the mobile and is left out; a mobile in
the input may be padded, which decides whether the look-up in `updateProfile`
finds it. In `VehicleTypes` a start that throws is a process that is down; that the
administrator's configuration is missing is a choice of `InitAdmin`, made anew at each
start. In `Presence` and `RiderSelection` a place is a distance. In `Lookups` a
period stands for some days, and no request lasts that long. In `Pricing` amounts
count ten-thousandths; `TiesDown` holds the half cents that JavaScript's `toFixed`
rounds down since their binary fraction lies below the half.

`Services` lets one component run while the others rest. They write different
tables, and what one reads of another's (a rider's documents and settings, active
riders, the option a payout takes) is modelled where it is read, so a behaviour of
the server is a behaviour of each of them with steps in between that leave it
alone.

## Properties

Safety, in `OrderLifecycle` (each is stated with its reason there): `ChainClosed`,
`DeliveredAllStops`, `DeliveryPaid`, `RewardedFlagIsTrue`, `RewardOnce`,
`AssignedIffRider`, `ChargeOnce`, the step property `CancelSettles`, and
`ImplementsContract`, the refinement of `OrderContract`. Liveness: `RequestsEnd`
and `OrderIsAssigned`. In `OrderViews`: `UnrewardedListIsStale`.

In `Money`: `BalanceBounded`, `ExactUnlessRaced`, `NoOverdraft`,
`LedgerIsBacked`, `LedgerIsComplete`, `PayoutsTraced`, `AccountBehindWallet` and
the step property `DepositSettles`. Deadlock is checked: `Quiet` lets a state stop
in which nothing is in flight, so a request that waits for a row lock for ever
would be reported.

In the nine other components: `ServedAfterConsume`, `CodeServesOnce`,
`ChangesHold`, the step property `MobileSettles`; `UpWithDefaults`,
`StatusReflectsDocuments`, `ApprovedAsRead`; `PresenceFollowsSockets`;
`SelectsBestRider`; `ServedFresh`; `DeskHolds`, `RatedOnce`; `DefaultDecided`, `PaysDefault`; `ChargeAddsUp`, `PickupNormalized`.

Many handlers here read a row, change it in memory and save it. What they promise
then holds only if nobody else is at the same row, and a property that simply
excluded all overlaps would say little. So the properties name the exact
circumstance: history variables record which rows were written while another
request held a copy (`raced`, `crossed`, `mixed`, `shared`), and which requests ran
alone and to their end (`solo`, `settled`, `alone`, `decided`). A property then says
that this circumstance, and no other interleaving, failure, crash or repetition,
can break the promise, and, for statuses that are derived, that the next
undisturbed request repairs what came before.

What the code does not promise, and no property claims:

- which postings a race drops: a lost credit is money gone, a lost debit leaves money in
  the wallet that was spent (`payout_race`). `BalanceBounded` is what remains: never more
  than all credits, never less than all debits;
- that a balance stays above zero where it is not looked at: a service charge, and the
  reward of an order whose `urgencyFee` made it negative (`Unchecked` in `NoOverdraft`);
- that a payment is credited to one user only: references are looked up per user
  (`transaction.service.ts:25`) and the customer code of `POST /wallet/fund` is its
  caller's. `DepositSettles` is about each user by itself;
- that an administrator has seen what is approved: between the GET that shows a document
  and the PATCH, which names only the document and a status, the rider may upload
  another file. `ApprovedAsRead` is about the file the PATCH itself reads;
- that a connected user is active: closing one of two sockets sets the user inactive
  (`users.gateway.ts:49`). `PresenceFollowsSockets` says so with `dropped`, and that the
  next connection sets it right;
- that the server starts: without `DEFAULT_ADMIN_*` every start throws
  (`on-startup.ts:36`), and so does one that finds only removed vehicle types
  (`InitType`). `UpWithDefaults` is about servers that listen;
- what survives a failure: a lost event leaves a deposit without a row, so that a
  repeated webhook credits it again, and a payout whose wallet is not saved leaves no
  trace. `LedgerIsComplete` and `PayoutsTraced` hold where nothing failed.

Four statements of the source's comments and two of its error texts do not hold
when requests overlap; each has a run in which TLC finds the interleaving:

- `CancelledIsFinal` (`order/order.service.ts:306`): the latest row is read and
  the new one inserted without a lock. `CancelSettles` is what does hold: once
  the requests that had passed the check are gone, the order stays closed.
- `TimelineFollowsChain` (`:300`): rows are ordered by the start time of their
  transaction. `ChainClosed` is what does hold: no status is skipped.
- `DeclineIsRespected` (`:779`): the declined riders are read before the search.
- `RewardOnce` with declines (`:539`): a decline that read the order before it
  was rewarded writes `hasRewardedRider = false` back. Without declines it holds.

- `DepositOnce` (`wallet/services/wallet.service.ts:182`): the look-up of a
  payment's reference reads rows that an event handler writes later.
  `DepositSettles` is what does hold: once the row is stored and the webhooks past
  the look-up are gone, the payment is not credited to that user again.
- `PayoutDebits` (`wallet/services/rider-payouts.service.ts:25`): a request that
  read the wallet before the payout's debit saves it back. `ExactUnlessRaced` is
  what does hold: without such an overlap every posting is in the balance.

Five more places where comments and tests differ from the code, found while
translating and modelled as the code has them (the first three are listed under
`findings` too):

- `order/order.service.ts:300`: "Enforce sequential tracking transitions with optional
  TRANSIT and CANCELLED allowed anytime"; `transitions` (326-333) leads from `PICKED_UP`
  to `TRANSIT` and from there to `DELIVERED`, so `TRANSIT` is not optional. `ChainClosed`
  and `OrderContract` follow the code: no order is delivered that was not in transit.
- `order/order.service.ts:610`: "To get orders that are delivered but not yet
  paid/rewarded to rider"; as the `DELIVERED` row commits with the reward, there is no
  such order. `UnrewardedListIsStale` says what is in the list: orders that were paid and
  whose flag the stale save of a decline cleared.
- `order/usecasses/create-order.usecase.ts:187`: "Create transaction event (skip for
  cash payments)"; the event is published for every order, so an order paid in cash has
  a COMPLETE transaction (`CashRow`) though no wallet changed. `LedgerIsComplete` asks
  for it.
- `wallet/services/rider-payouts.service.ts:92`: "pick default withdrawal option
  (bank account) for rider, fallback to any"; the query has no order and no
  `isDefault`, so it takes any option. `PaysDefault` shows that this does no harm as
  long as a rider has one option, which `create` ensures unless requests overlap.
- `order/usecasses/calculate-multiple-delivery-charges.usecase.spec.ts:103`: "should
  use van rate when max distance > 5km"; `calculateMultipleDeliveryFee` takes the
  bike rate for every destination. `ChargeAddsUp` says when a quote and the order
  agree in spite of it.

## Runs

The order runs use two clients, the scheduled job and one order: a hazard of this code
is a pair of overlapping handlers on the same order, with the job as a third.
Orders share no row, and the handlers never look at two of them.

| run | handlers | what it shows |
|---|---|---|
| `order_delivery` | create, track, delivered, reward; up to two destinations | `DeliveredAllStops`, `RewardOnce`, `ImplementsContract` |
| `order_staleness` | create, track, decline, reward; one failure or crash; wallets that may be missing | `TypeOK`, `ChainClosed`, `DeliveryPaid`, `RewardedFlagIsTrue`, `AssignedIffRider`, `UnrewardedListIsStale` |
| `order_acceptance` | create, track, accept, assign, remove; cancellation | `IInv`, `ChargeOnce`, `CancelSettles` |
| `order_progress` | create, track, decline, assign; one failure or crash | `OrderIsAssigned`, `RequestsEnd` under fairness |
| `money` | all of `Money`: two users, each a customer or a rider, two orders, one of a negative price, one payment, two weeks of payouts; one failure, lost event or crash | the eight properties of `Money` and `TypeOK` |
| `services` | the nine components of `Services`, two requests at a time each; one failure, crash or restart | the sixteen properties of these components |
| `deposit_race`, `payout_race` | the handlers each needs | two violations |
| `order_cancel_race`, `order_timeline_race`, `order_decline_race`, `order_double_reward` | the handlers each needs | the four violations of the order modules |

Bounds. `Posted` restricts the statuses clients post so that a run contains the
statuses its question is about. `MaxTime` is the number of start times told
apart at once and is larger than the number of rows and requests that can hold
one, so it cuts nothing off: two clients and six rows need at most eight.
`MaxFaults = 1` is enough for one query or the process to fail at any point.
`Symmetry` permutes clients, riders and destinations, of which no action singles
one out; `View` renumbers the start times, which actions only compare. Neither
is used in the run with liveness.

In `money`, `MaxCalls = 3` requests besides the payout job, two at a time: a wallet is
created, and two requests overlap on it or a third follows them. `Register` makes a
user a customer or a rider. Two users are needed because a payment can be credited to
another user than its payer; everything else a handler writes is of one user. That one
reference is credited to both takes a fourth request, which is more than TLC can be given
here and is left to the theorem `DepositsSettle`. The amounts make an order
affordable after a deposit (3 of 4) and not before, and let a service charge take an
empty wallet below zero. The order of `Rebated` has an `urgencyFee` so far below zero
that placing it pays the customer and its reward takes from the rider. `MaxWeeks = 2`
lets a payout that timed out be made again, `MaxRepeats = 2` a payment be claimed
again; `MaxRepeats` bounds only the start of further claims.

In `services`, `MCBudget` bounds the calls of each component: two or three requests
that overlap on one row, preceded in `accounts`, `presence` and `options` by those
that bring the state about (a code has to be sent, validated and used; a client
connects, and reconnects before the first socket closes; an option is made and
changed). Initial states cover the rows earlier calls may have left, so no budget
is spent on making them. The distances of `MCTrips` lie at, just above and around
5 km and make half cents; `MCDegrees` holds both ends of both ranges and the values
beyond them. `ShortTtl = 1` and `LongTtl = 2` periods tell "just stored", "expired for
a place" and "still good for an address" apart. One user is enough in `Accounts`:
its mobile may be either of two. Then `UpdateUser` never meets another user's
mobile, and with two requests `UpdateInfo` never finds a row inserted that it
brings back itself; these two refusals are modelled and not reached. `MaxMonths`
and `MaxPeriods` are one period: what is said is about two neighbouring ones.
`Symmetry` permutes clients and the set `X`, whose values stand for passwords, files,
users online, drivers, people and banks: none of them is singled out, and since
the components share no data, sharing the values is harmless. Nothing need ever
happen once the calls are used up, so deadlock is not checked.

Fairness (`Fairness`, order runs only): weak fairness of each request's next step, because the
event loop resumes a handler whose query has answered, and of the job, because
its timer fires every ten minutes. Clients, failures and the deletion of rows are
under no obligation. Weak fairness suffices for an insert that waits for another
transaction, since that transaction's steps are never disabled.

## Proofs

The theorems hold for every value of the constants: any number of users, orders,
requests in flight and failures. They assume what the `ASSUME`s of the modules
say, which is that constants are of their kinds and sentinels are none of the
values they stand beside; `WalletAssumption` adds that an order's id is not a
payout's number, as the code keeps them apart by prefix; prices, fees and service
charges are any integers. TLC evaluates each
`ASSUME` in the runs.

Hardly any of the properties is inductive: they rely on what a request in flight has
read or checked some steps ago. So a proof is about an inductive invariant that
says, of every request, which of the facts it has read are still true and why.

*Orders* (`OrderLifecycle_proofs`). `IInv` adds, for every request, that what it has
checked is still true (`CheckedStops`, `CheckedChain`, `CheckedUnique`, `CheckedReward`,
`Found`, `ChargeIsDue`, `StaleSave`), the unique index (`UniqueRows`: one row per status
and one transaction inserting it) and the start times (`OwnTime`). The reason that
checks stay true is that the tables only grow in what the checks look at: a status
once reached is in `tracking` or in `gone`, `delivered` and `credits` never
shrink (`Grows`). So a step of one request keeps the invariant of every other
(`QuietStep` for steps that change no table, `ChangeStep` for those that do), and
each action's lemma has only to show what it does to its own request and to its
table.

*Money* (`Money_proofs`). `TypeInv` gives a request its `Shape`: at which `await` which
operation can stand and what it holds there. `AccountInv` says that a customer code
that a request carries, or a wallet has, is stored with an account of that user and of
nobody else.

*Balances* (`Balances_proofs`). `CopyOK`: the copy of a wallet a request holds is the
row itself unless the wallet is marked as raced, and an order holds a copy that
covers it; `ListOK`: the payout job's list has one copy per wallet. With both, each
write adds exactly its posting, and an order never takes a balance below zero.

Every posting is counted once at most, whatever races: `SumInv` says of the table, of each
copy a request holds and of each entry of the payout job's list that its amount is the
sum of postings that committed (`Backed`), and that a posting is none of those before it,
since repetitions are numbered (`Numbered`). Some of a set of integers add up to no more
than its positive and no less than its negative members together (`SumBounded`), which
gives `BalanceBounded` although nothing says which postings a race has dropped.

*Ledger* (`Transactions_proofs`). `RewardInv`: an order has one reward in flight at most
and none once it is posted, since a reward is told before it commits. `TellInv` and
`BackInv` relate postings to rows and events in either direction and name the reward
whose commit is still open, or that a failure rolled back (`faults` records which). For
`DepositSettles`, `NonePasses`: once the row of a payment is stored for a user, no request
passes the look-up of that reference for that user any more, so a request that credits it
was past the look-up before.

*Codes and users* (`Accounts_proofs`). Every copy of a code in the table or in a request
has the same reference (`CodesDetermined`), a request that clears has found it used
(`CodeSound`, `UsedIsConsumed`), and a code that was spent and not shared is in no table
and no request any more (`GoneWhenSpent`). `UserInv`: unless the row was raced, a request's copy differs
from it in the columns the request has set and in no other, and what `save()` writes is
exactly this difference.

*Riders* (`Riders_proofs`). One invariant per component, each about the request that runs
alone: `OptionsInv` what it has read of the bank accounts is still so and, with what it
is still to write, leaves one default; `VehiclesInv` how far the start has come and what is
therefore in the tables; `DocumentsInv` that the rows it loaded cover the table, so that
the status derived from them is the status to be; `PresenceInv` that the one handler of a
user who is not `unclear` sets what the user's sockets say (`Shown`: one is open and none
closed beside it since the last connection), and that the row says it when no handler is
left.

*Services around an order* (`Services_proofs`). Ratings: copies are versions of a row that
exists or of one that its own request will insert. `HoldsInv`: a copy of a row that nobody
wrote across it differs only in what the request has set. `LookupsInv`: an entry ends its
kind's time after its answer, and an answer about to be stored is of the current period.
`ChargeInv`: stored amounts are whole cents, on which addition is exact, and the fee adds
up leg by leg. `SelectionInv`: one search is under way at a time, and one that asks again
had found nobody with room. The six branches for a pair of coordinates are split by the
two ranges.

*Cancellation and the unrewarded list* (`OrderLifecycle_proofs`). The former looks at the
latest row of an order, so `RowTimes` says how rows are dated: no two rows of an order at
the same time, and none at the time of a row that a transaction has yet to insert. The
latter needs `Overwritten`: an order with a credit and without the flag has been declined
by a request that had read it before.

*Sums* (`Sums_proofs`). `MapThenSumSet` and `SumFunction` fold a set by choosing an element
and going on with the rest. That this recursion has a solution, one only, that does not
depend on what is chosen and grows by what is added, is shown for every finite set by a
smallest counterexample (`WFMin`): the library's induction theorems take an operator,
which the provers here do not instantiate; its theorem about minima takes a set.

One proof corrected a property. `PaysDefault` excused a payout by `doubled` as it was in the
present state; but a payout made while two accounts overlapped can be followed by the
deletion of all accounts, which ends `doubled`. The behaviour takes six calls, more than
TLC is given. `paid` now records `doubled` as it was when the payout was made. Two
assumptions are stated which TLC's values met silently: that SQL's NULL is none of the
users, contacts and rows in `Accounts`, and that a trip in `Pricing` has finitely many
destinations at natural distances.

| theorem | states |
|---|---|
| `Invariance` | `Spec => []IInv` |
| `TypeCorrect`, `ChainIsClosed`, `AllStopsDelivered`, `DeliveryIsPaid`, `RewardedFlagTrue`, `AssignedHasRider`, `ChargedOnce` | the invariants of the order runs, from `IInv` |
| `RewardedOnce` | `RewardOnce` where `"decline"` is not among the handlers, by the second invariant `NoStaleReward`; `order_double_reward` shows that the assumption is needed |
| `Refinement` | `Spec => Contract!Spec`: each action is a step of `OrderContract` or a stutter |
| `MoneyTyped`, `AccountsBehindWallets` | `TypeOK` and `AccountBehindWallet` of `Money` |
| `ExactBalances`, `CoveredBalances` | `ExactUnlessRaced`, `NoOverdraft` |
| `MovementsAreTold`, `RowsAreBacked` | `LedgerIsComplete`, `LedgerIsBacked` |
| `TransfersLeaveATrace` | `PayoutsTraced` |
| `DepositsSettle` | the step property `DepositSettles` |
| `BalancesBounded` | `BalanceBounded` |
| `CancellationSettles` | the step property `CancelSettles` |
| `UnrewardedIsStale` | `UnrewardedListIsStale` |
| `OtpServedAfterConsume`, `OtpServesOnce` | `ServedAfterConsume`, `CodeServesOnce` |
| `ChangesAlwaysHold`, `MobileChangesSettle` | `ChangesHold`, the step property `MobileSettles` |
| `DefaultIsDecided`, `PayoutsTakeDefault` | `DefaultDecided`, `PaysDefault` |
| `StartsWithDefaults` | `UpWithDefaults` |
| `StatusAlwaysReflects`, `ApprovalsAreOfFilesRead` | `StatusReflectsDocuments`, `ApprovedAsRead` |
| `PresenceFollows` | `PresenceFollowsSockets` |
| `OneRating`, `DeskAlwaysHolds` | `RatedOnce`, `DeskHolds` |
| `AnswersStayFresh`, `SelectionIsBest` | `ServedFresh`, `SelectsBestRider` |
| `PartsAddUp`, `OrdersAddUp` | for every fee, the stored total is the stored fee plus the stored service charge; `ChargeAddsUp`, for any number of destinations |
| `PickupInterpreted` | `PickupNormalized` |
| `EveryServiceHolds` | `Services!Spec` implies all of the services' properties together |

So every invariant and step property of the passing runs is a theorem (`RewardOnce` for
the handlers its run has). Only model-checked: the liveness properties (`OrderIsAssigned` and `RequestsEnd` need `ENABLED`, which the
provers do not handle), the absence of deadlock in `Money`, and the violations, which are
statements about one behaviour. The theorems about the components of `Services` are
about each one's own specification (`AccountsSpec`, `DeskSpec`, ...); `EveryServiceHolds`
says the same of `Services`, the specification TLC is given: a component that runs takes
steps of its own specification, and what it promises while it rests holds of the tables
it leaves alone (`AccountsSafe`, ..., `PricingSafe`).

## Not modelled

- *Administration* (`admin/`): reports that read the tables of the other components
  and the insert of a further administrator. What its controller asks of the
  document and settings services are actions of `RiderDocuments` and `VehicleTypes`.
- *Paystack client*, *media storage*, mails and push messages, the look-up of banks and
  account names: HTTP calls to other systems. The wallet sees the first as calls
  that answer, fail or are late.
- *Authentication and guards*: checks of a token without state. The actions are calls
  that have passed them.
- In the order subsystem the lists that select orders by their latest status, the
  mappers, which copy fields, `getAddressBook`, a sorted
  page of orders, and the commented-out `createOrder` (`order.service.ts:60-163`).
- In the cache `del`, `delPattern`, `reset` and `keys`, which nobody calls.

## What is left

A refinement of a ledger, as a set of postings, by `Wallet` while no two writers of a
wallet overlap.
