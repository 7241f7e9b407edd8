# Cliper AI Cloud in TLA+

Cliper AI Cloud is the server side of a desktop video-clipping application: a
NestJS API (`src/apps/api`), a Next.js console (`src/apps/web`) and shared
packages (`src/packages`). Members top up a wallet in USD micro-credits; the
desktop opens *analysis jobs* that make AI provider calls through a gateway and
are charged once, at their end; single chat requests are charged one by one.
What must not go wrong is the money: one PostgreSQL row per member
(`user_credits`, `balanceMicro` and `reservedMicro`) is written by four services
that know nothing of each other, from handlers that interleave, die, are retried
and talk to payment and AI providers in between. Around it stand who may use the
money (accounts, sessions, keys, devices), how much at a time (limits, leases,
circuits), at which price (policies, plans, settings on several replicas), and a
console that shows what became of a payment.

This directory specifies the system, checks it with TLC and proves its central
theorems with TLAPS.

## Inventory

| component | state | operations | hard part |
|---|---|---|---|
| Pricing (`packages/billing`, `billing/pricing.service.ts`) | none; a policy as input | quotes and estimates of jobs, chats and clips | three roundings, two caps; an estimate made before the provider is known |
| Analysis jobs (`billing/analysis-job.service.ts`) | `AnalysisJob`, `CreditLedger`, `UserCreditAccount` rows | start, complete, fail, recovery of stale jobs, admission and recording of calls | reads outside the transaction that acts on them; recovery racing with the client |
| Usage (`usage/usage.service.ts`) | `AiUsage` rows | `record` | duplicates; late answers |
| Gateway (`gateway/gateway.service.ts`) | router in memory | `executeChat` with and without a job | a chain of awaits, each of which can fail |
| Direct credit (`billing/direct-credit.service.ts`) | ledger keys; a sum in the credit row | reserve, settle, release | no row records an open reservation |
| Credit accounts in memory (`billing/credit-account.service.ts`) | a map of accounts | the same, outside production | two requests of one id share a reservation |
| Payments (`billing/payment.service.ts`) | `Invoice`, `PaymentTransaction`, `PaymentLog` | create, reuse, expire, webhook, synchronize, cancel, refund | webhooks repeated, late, reordered, racing with everything |
| Payment providers (`billing/payment-provider.service.ts`) | the provider's order | create, status, cancel, refund, webhook | different event ids for the same fact; two vocabularies of statuses |
| Payment configuration (`billing/payment-configuration.service.ts`, `wallet-payment-settings.service.ts`) | stored settings over environment | active provider and merchant, amounts of a top-up | changes while orders are under way |
| Entitlement and plans (`billing/pro-entitlement.service.ts`, `payment.service.ts`) | subscriptions, jobs per day and week | which source pays for a job; what a plan's payment adds | local calendar; payments that extend, convert and cancel one subscription |
| Limits (`security/rate-limit.service.ts`) | counters in Redis or memory | windows, leases | leases that outlive their time; lost answers |
| AI router (`packages/ai-router`) | failures and circuits in memory | route, retry, fall back | concurrent successes and failures; a router replaced under its requests |
| Accounts (`auth/auth.service.ts`, `config/*bootstrap*`, `seed-access-accounts.ts`) | users, sessions, resets | sign-in, recovery, suspension, deletion, accounts from the environment | checks before transactions; two-step writes |
| Desktop sessions, licences (`security/`, `license/`) | tokens, keys, devices | refresh, activate, rotate, revoke | whole rows written back as they were read |
| Administration store, backups (`admin/`) | configuration rows, a copy in every replica's memory, a revision in Redis | prices, providers, routes, refresh, restore | stale copies that publish or write themselves back |
| Release catalogue (`admin/release-catalog.service.ts`) | release rows | create, update, mark as current | one mark, overlapping transactions |
| Runtime configuration (`config/runtime-config.ts`) | the environment | checks at the start | three services read the same variables on their own |
| Web console (`apps/web`) | the state of a page | load, poll, synchronize, cancel | answers that overtake each other |
| SDK, contracts, security helpers | none the API relies on | | |

How they interact: `GatewayService.executeChat` takes a lease of the key
(`RateLimitService`), calls the job service (admission, recording) or the
direct-credit service (reserve, settle, release), the router, which takes a
lease of each provider it tries, and the usage service, one await after another.
`startPersistent` asks the entitlement service, within its transaction, which
source pays. `PaymentService` grants and takes back credit and plans in its own
transactions. `AuthService.updateMember` sets the balance by hand. All of them
meet in the credit row. Sessions, desktop sessions and keys are refused by the
account's status wherever they are read, and are ended by what changes it. The
administration store of every replica gives prices and routes to its gateway.
There is no background scheduler: stale jobs are recovered, overdue invoices
expired and changed settings reloaded as the first thing that a later request
does.

What makes each correct is listed with the properties below; `PROJECT.json`
lists every hazard at its line.

## Modules

| module | models | state and actions |
|---|---|---|
| `JobPricing` | the pure arithmetic of job prices | `QuoteJobCost`, `EstimateAnalysisJob`, `ValidPolicy` over a policy record |
| `ChatPricing`, `ClipPricing` | estimate and price of a chat through the router's view and the billing's view of it; price by quality of clips | operators over a request, an answer, a provider and budgets; over scores and costs |
| `StartUp` | what the environment must say before production starts, and what services read from it | `Starts`, `HasActiveProvider`, `ReadTopUps`, `Quotable` |
| `Sums` | the sum of a function's numbers, as a cardinality that theorems can speak about | `SumOf` |
| `Wallet` | the abstract promise: a balance, what each holder holds of it, who has ended | deposit, withdraw what is free, hold once, end once with at most what was held |
| `AnalysisJobs` | one member's jobs: `account` is the credit row, `jobs` and `ledger` the rows of each request id, `usage` the usage rows, `calls` and `handlers` the locals of running requests | one action per transaction or statement: `CreateJob`, `Complete`, `FailJob`, `RecoverJob`, `AdmitCall`, `RecordUsage`, `ReadJobCost`, `WriteJobCost`, `Crash`, ... |
| `DirectCredit` | one member's chat requests: `chats` the locals of `executeChat`, `postings` the ledger keys taken | `Reserve`, `Answered`, `Settle`, `Release` and the ways each fails |
| `MemoryCredits` | jobs and chats on the wallet of one process: `wallet`, `reservations` by request id, which a chat's client chooses | `ReserveMemory`, `SettleMemory`, `ReleaseMemory` within the steps of jobs and chats; `RestartMemory` |
| `MemberWallet` | `AnalysisJobs` and `DirectCredit` composed on one `account`, with payments and `updateMember` | the steps of both, crashes of the common process, `AdminReads` and `AdminWrites` |
| `Payments` | one member's top-up invoices and the provider's orders: `tasks` the locals of running requests | one action per read, provider call or transaction of every payment endpoint; `Deliver` for a webhook |
| `PaymentProviders` | what the adapters make of the providers' words, and which of them is active | `MidtransStatus`, `XenditStatus`, `EventId`, `Accepts`, ... used by `Payments` |
| `Entitlement` | plans, subscriptions and the source a job is billed to, on Jakarta's calendar | `GrantPlan`, `RefundPlan`, `StartJob`, `Pass` |
| `Leases`, `Routing` | the lease scripts; one key's requests through admission, routing, calls and releases | `Admit`, `Route`, `Rebuild`, `AcquireCapacity`, `Succeed`, `Fail`, `ReleaseCapacity`, `Tick`, `Restart`, ... |
| `RateWindows` | the counter of one identity's window | `ConsumeShared`, `ConsumeUnheard`, `Tock`, `LoseCounter` |
| `DesktopSessions` | one member's keys, devices and desktop sessions: `handlers` the locals of requests | `ReadLicense`, `ClaimDevice`, `IssueSession`, `ReadSession`, `PersistSession`, `RevokeDevice`, `ReplaceKeys`, ... |
| `Accounts` | the account above them: web sessions, mailed tokens, temporary passwords, status, and the account of the environment; extends `DesktopSessions` | a read and an act for login, both resets, suspension; `DeleteMember`; `SyncAccount` and `EndAccess` |
| `Settings` | rows, archive and revision, and every replica's copy: `tasks` the requests of its administrators and one refresh | changes of prices, providers and routes in memory, `WriteRow` and `FailWrite`, `Publish`, `CheckRevision`, `LoadRows`, `FailReading`, `FillProviders`, `Restore`, `ExpireRevision` |
| `Releases` | release rows and the transactions that edit them | `BeginEdit`, `LookForOthers`, `ClearOthers`, `WriteRelease` |
| `BillingPage` | the component behind a member's top-ups, its requests in flight, and the server's invoices in brief | `Poll`, `Serve`, `Receive`, `CreateTopup`, `CancelPayment`, ... |
| `AmountProofs`, `PricingProofs`, `AnalysisJobsProofs`, `DirectCreditProofs`, `MemberWalletProofs`, `PaymentsProofs`, `AccessProofs`, `RoutingProofs` | proofs, see [Proofs](#proofs) | |
| `MC...` | constants and bounds for TLC | |

Conventions. A serializable transaction that locks the rows it changes is one
action; a transaction that throws changes nothing, and its conflict retries are
part of it. Everything between transactions is a step of its own. A variable
`{}` in a record field is "none". Amounts are small naturals in place of
micro-USD; the code uses `bigint` columns and arithmetic, so there is no width
to wrap. Ids, e-mails, descriptions, snapshots and display are left out. A
definition whose comment begins with *Mutant* is a deliberately wrong variant of
the operator after it and is used by no specification; substituting it shows
that a property notices that error. A comment that says *History* marks what is
recorded for the properties only, and *Bound* what keeps an instance finite.

Several runs ask independent questions of one instance: a variable `question` is
chosen at the start and only its module moves. The state spaces add up and do
not multiply; where components do interact in the code they are composed for
good (`MemberWallet`, `Accounts` over `DesktopSessions`, `Payments` over
`PaymentProviders`, `Routing` over `Leases`).

`AnalysisJobs!Next` lets a client complete or fail any open job at any time,
before, during or after its calls, because the endpoints do. `GrowStale` stands
for the clock; every write of a job row resets it, as `@updatedAt` does. Which
billing source pays is a free choice there, except that the wallet must have the
estimate to spare; `Entitlement` says which choice the service makes.

In `Payments` an event is known by its channel, order and status, which is what
the adapters' event ids come down to: a repeated webhook keeps its id, and a
status asked of the provider has another one than the webhook about the same
fact. Midtrans can be asked and refunds, Xendit can be asked and cancels; the
configuration may change to the other provider, or to another merchant, between
any two steps. `late` is a delivery after the replay window of 24 hours, which
is longer than an invoice lives.

In `Routing` time is counted in ticks, and a call that has lasted `Timeout` ends
before the next one.

In `Settings` a change goes to the memory of the replica first, as the
controller has it (`admin.controller.ts:402-403`), then to the database, then to
Redis, in steps that other requests of the same replica come between and of which
the latter two may fail: nothing is taken back. A provider's row is written by
its code and keeps its id, and is deleted by the id that the replica has in
memory, so that a deletion may delete nothing. A refresh reads three tables that
may change between its question and the last answer.

In `StartUp` the text of an amount is what `Number` makes of it and whether it is
written in plain digits: the checks at the start take the number, the top-ups
pass over a text in another notation (`parseEnvironmentUsd`).

## Runs

| run | what it shows |
|---|---|
| `Pricing_grid` | `MarginIsKept`: the charge leaves the target margin. `EstimateIsReserved`: what was reserved covers the job, the clips or the chat it was estimated for. `StartedCanSell`: an API that starts has a provider and settings whose every amount can be sold. `FreeJobsWithinQuota`, `DuesAreServed`: nobody gets more, or less, than plan and week are due |
| `AnalysisJobs_accounting` | `ReservedMatchesOpenJobs`, `LifetimeTotalsExplainBalance`, `LedgerExplainsRows`, `ChargeWithinReservation`, `ClosedJobsAreFinal`, and `KeepsPromise`, the refinement of `Wallet` |
| `AnalysisJobs_calls` | under honest estimates, unrepeated ids and one call at a time: `OpenJobsCanBeSettled`, `JobCostCountsUsageOnce`; and `EveryJobCloses` |
| `Member_services` | chats on PostgreSQL: `ClosedOnce`, `OpenChatsStayCovered`, `ReservationsEnd`, and with the wallet in memory `ReservedIsHeld`, `DeliveredIsPaid` (each up to the failures named in its comment); the billing page: `PageFindsOut` |
| `MemberWallet_services` | the two services on one row: `ReservedMatchesBoth`, `BothStayWithinBalance`, `OpenJobsCanRelease` |
| `Payments_topups` | `CreditedOnceAtATime`, `GrantedWasPaid`, `VoidedWasNotPaid`, `RefundSparesReserved`, `PaidIsCredited` |
| `Routing_limits` | `LeaseOutlivesCall`, `HoldersWithinLimit`, `LeakedPlacesReturn` for leases; `BurstsAreBounded` for windows |
| `Access_races` | `RevokedStaysRevoked`, `DevicesWithinLimit`, `EndingsEndSessions`, `ResetsAreSpentOnce`, `DeletedStaysInactive` |
| `Settings_replicas` | `KnownIsCurrent`, `SettingsConverge` for replicas; `CurrentIsPublished` for releases |
| `AnalysisJobs_duplicate`, `Payments_twice`, `Payments_resync` | the three places where the code does other than its documents say |

### Where documents and code disagree

* `README.md:178-179` says that a repeated provider request id records neither
  usage nor job cost twice. The usage row is indeed skipped, but "not
  aggregated" is what `executeChat` takes for "still to be added"
  (`gateway.service.ts:75-77`), and the job's cost grows a second time.
* `docs/PAYMENT_ENGINE.md:16` says that paid callbacks grant credits exactly
  once. A delayed paid webhook after a synchronization and a refund grants them
  again, because the check before the grant asks for `PAID` and the refunded
  payment is `REFUNDED` (`payment.service.ts:1323-1326`). What does hold is
  `CreditedOnceAtATime`: a second grant takes a refund in between.
* `docs/MIDTRANS_SETUP.md:106` calls the synchronization idempotent. The expiry
  of the invoice is checked before the state of the payment
  (`payment.service.ts:1294`), so that a settled payment that is asked about
  after its expiry becomes `EXPIRED`, with the credit granted.

### What the code does not promise

Each of these is a race or a gap met while modelling; the property that touches
it exempts exactly it, by a history variable or a named condition.

* A member's balance may fall below what is reserved by an administrator's write
  that overlaps a start (`auth.service.ts:537`): `BothStayWithinBalance` stops
  there, and `OpenJobsCanRelease` shows that no job is lost by it.
* A direct reservation whose process died, or whose commit nobody heard of,
  stays in the sum or is given back twice: `faults` in `DirectCredit`.
* A refresh of a desktop session that overlaps its revocation revives it; two
  activations at a time pass the device limit; a login that read the account
  before its sessions ended creates one after; a change of status under way when
  the account is deleted revives it: `contested`, `crowded`, `since`,
  `overtaken`.
* The account of the environment gets its password in one statement and loses
  its sessions in a later transaction (`sync-production-bootstrap-admin.ts:84`);
  the scripts end web sessions only: `unended`.
* A lease that expires under its holder admits others, and the holder's release
  takes the place of one of them: `overrun`. Windows are fixed ones, and the
  bound of `BurstsAreBounded` counts two of them and every lost counter.
* A replica may take other rows than the database's for current, until its next
  refresh, after any of six things, each of which sets `blind` by itself: it
  publishes a change of its own while another has written a row since it read the
  rows (`admin-store.service.ts:830`); Redis loses a publication; a restore
  publishes nothing; a refresh ends in the middle of an administrator's request
  and writes old rows over the change, or is written over by it; a write, or a
  restore's reload, fails after the memory, or the rows, have changed
  (`admin.controller.ts:402`, `backup.service.ts:296`); two administrators at one
  replica change the same row, or one restores meanwhile. All agree in the end
  because the revision expires (`SettingsConverge`), except that an emptied table
  of providers may be filled again by a replica that had not heard of it.
* In memory, a chat may come under the id that a job reserves under, since the
  gateway takes it from the client as it is (`gateway.service.ts:56`); the two
  then share one reservation, and either may end it under the other: `sharedBy`.
* Overlapping edits may mark two releases as current: `overlapped`.
* The weeks of 1 January and 30 December 2024 share a key
  (`pro-entitlement.service.ts:127`): `SharesKey`. Buying another plan, or a
  refund, ends what was paid for the first: `disturbed`. The service reads at
  most 200 of a week's free jobs (`take`), in no order; once there are more,
  videos may be missed: `TakeLimit` in `FreeJobsWithinQuota`.
* An order of a provider or merchant that is not the active one is not asked
  about and, if paid, not credited until it is active again: `PaidIsCredited`
  says so.
* The checks at the start read some variables otherwise than the services do:
  the rate, its bounds, switches that say "no", and amounts of USD such as `1e2`
  or with a seventh decimal, which the top-ups pass over for 1 and 500 USD
  (`ReadAlike` in `MCPricing`). And a chat's estimate does not foresee reasoning
  tokens, cached tokens dearer than others or another module than the router
  sees (`Foreseen`).

### Bounds

* Two requests, two calls and one handler in `AnalysisJobs`: every race in the
  code is between two parties over one row (client and recovery, two calls, a
  call and a closing). One handler that lists and later acts is enough for the
  stale list; the theorems are for any number. `MaxGranted` and `TopUpAmounts`
  let one job be paid, two compete and a refund fail. In `_accounting` costs are
  any, two calls run at a time and ids repeat; in `_calls` they do not, which is
  the case the admission check is designed for.
* Two chats and two request ids: a chat can lose its reservation to one other,
  and a request id can be used twice. In memory a job with two calls joins them,
  and one of the chats may come under the job's id.
* `BillingPage`: two invoices, one of the sandbox, and two requests in flight,
  of which one overtakes the other; one request may fail.
* `MemberWallet` leaves provider calls out (they never touch the credit row) and
  has one administrator, who may interleave with both services.
* `Payments`: one invoice and two requests of any kind, besides webhooks, and
  one change of the configuration. Invoices of one member share only the credit
  row, which `HoldCredit` and `UseCredit` disturb as other invoices and jobs
  would; two requests suffice because each waits on at most one answer that
  another can overtake.
* `Routing`: two requests, two providers of different capacity, two attempts,
  circuits that open at two failures, a lease twice as long as a call. `Windows`:
  ticks 0 to 2 with windows of two ticks, at most five requests a tick and one
  lost counter: as many as ten requests fall into a stretch of a window's length,
  where a limit of two lets in eight at most.
* `Accounts` and `DesktopSessions`: two requests, and of keys, devices,
  sessions, credentials and resets two each (one mailed token); the sessions end
  twice. `MCAccess` splits this into three instances: logins and resets, desktops,
  and the account of the environment with two starts or scripts.
* `Settings`: two replicas with two administrators each, and two providers. The
  changes are grouped by kind, in nine instances that start with both providers
  in use or with a single one, which may have been created again since the backup
  (another id): two changes where one alone is harmless, with a failure, a
  restore or a deletion beside them. Every replica may always refresh.
  `Releases`: two releases and two editors, as often as they like.
* `Pricing_grid`: policies, requests and environments at the edges of the
  rounding and of every cap and limit; hours on both sides of a midnight between
  Sunday and Monday, of a year's end whose weeks share a key, and of the end of
  a period. Free jobs are read three at a time against two videos a week, so that
  a week can hold more videos than are due before the reading is cut short. The
  theorems are for all values.

Deadlock is checked except in `Member_services`, where the chats of the instance
all end, and in `Access_races`, where the ids for new rows are used up.

### Fairness

* `AnalysisJobs`: a handler that is recovering goes on, and some of the
  database's answers are successes (`SF` on `RecoverJob`; each failure is
  caught and the loop goes on, `analysis-job.service.ts:643`); the desktop asks
  for the wallet's summary again and again, which begins a recovery; a job
  nobody touches becomes stale. No fairness on clients, calls or payments.
* `DirectCredit`: a request that was admitted is run to its end by the event
  loop; provider calls have a timeout.
* `BillingPage`: the browser gets an answer or gives up on every request, in the
  end without a refusal, and its timers run while an open invoice is shown.
* `Payments`: the provider repeats a webhook until it is answered. No fairness
  on the requests.
* `Routing`: the clock ticks, and the event loop runs every admitted request on
  (calls have a timeout). No fairness on arrivals.
* `Settings`: requests run on, each replica has chats to serve now and then
  (which is when it looks for a revision), and the revision's time to live of 24
  hours passes.

## Proofs

What TLAPS proves holds for every value of the constants that satisfies the
named assumptions, and for any number of jobs, calls, requests and rows:

| assumption | says |
|---|---|
| `ConstantsAssumption` | finitely many requests, calls and response ids; a policy that `validateJobPricingPolicy` accepts; natural amounts |
| `DirectAssumption` | finitely many chat requests, bounded estimates |
| `MemoryAssumption` | finitely many chats and jobs in memory; as many reservation ids as both together, so that a new one is never one in use; request ids that are not empty. Chats may use the ids that jobs reserve under |
| `WalletAssumption` | the two first ones, for the two services on one row |
| `DesktopAssumption`, `AccountsAssumption` | finitely many devices, a positive device limit |
| `RoutingAssumption` | finitely many requests and providers, positive limits, a time-out below the leases' time to live |
| `WindowsAssumption` | a window and a limit of at least one |
| `SettingsAssumption` | finitely many provider codes, each with a preference of its own; rows of the three tables' types |
| `PaymentsAssumption` | a positive credit, any number of changes of the configuration |
| `EntitlementAssumption` | finitely many requests, positive limits and terms of plans |
| `PricingAssumption`, `StartUpAssumption` | natural bounds of the grids, positive units |

`AmountProofs` holds the lemmas that the others cite: job prices, and how
`SumOf` changes. A fold would need induction, so a sum is the number of unit
tokens owned (`Sums`), and changing one number adds or removes a set of tokens of
known size (`SumTake`, `SumDrop`, `SumChange`, `SumOfZeros`). Most theorems need
an invariant that is stronger than the property; it is named below, together
with what it adds.

### Prices, plans and the start (`AmountProofs`, `PricingProofs`)

* `ChargeKeepsMargin`, `HardLimitIsSettled`, `ReservationCoversExpectation`,
  `QuoteIsBounded`, `EstimateCoversJob`, for jobs. The argument is monotonicity:
  rounding up is monotone, so every stage of the price is, so the price at any
  cost within the hard limit is at most the price at the limit, which validation
  compares with the cap.
* `MarginsAreKept` (`MarginIsKept`), `EstimatesAreReserved`
  (`EstimateIsReserved`), `StartedSells` (`StartedCanSell`). A run goes through
  grids of policies and inputs; the theorems are about `AskedSpec`, which starts
  from *any* policy that the validations accept, any job, any chat with any
  budgets and answer, any finite set of clip scores, any environment. Lemma
  `GridsAreAsked` (`Spec => AskedSpec`) makes the runs' grids a part of it. The
  bounds on rates, fees and codes (`LeastRate`, `MostRate`, `MostFee`,
  `MostCode`) are what `Starts` checks.
* `QuotasAreKept` (`FreeJobsWithinQuota`): `QuotasKept` is about the day and the
  week of every instant and not only about now, because the clock goes on while
  rows stay; and a plan that pays is paid for by then.
* `DuesAlwaysServed` (`DuesAreServed`): `DuesKept` adds that the one subscription
  there is runs at least as long as everything paid for, as long as nothing
  `disturbed` it. Both theorems are for any number of orders, videos and starts
  and for whatever the member had before (`earlier`, `former`).

### Analysis jobs (`AnalysisJobsProofs`, about `AnalysisJobs!Spec`)

Lemma `StepKinds` sorts every step of `[Next]_vars` into the six things that can
happen to money: top-up, refund of a top-up, completion, failure (by the client
or by recovery), creation, and nothing. Each theorem about money has one lemma
for those cases, and one PTL step.

* `TypeCorrect` (`TypeOK`, inductive by itself): amounts are naturals, which is
  already the statement that no balance and no reserved sum goes below zero.
* `ReservedIsThere` (`ReservedWithinBalance`), `TotalsExplainBalance`
  (`LifetimeTotalsExplainBalance`), `ChargeIsCovered` (`ChargeWithinReservation`),
  `ClosedIsFinal` (`ClosedJobsAreFinal`), `ReservedIsExact`
  (`ReservedMatchesOpenJobs`).
* `LedgerIsExplained` (`LedgerExplainsRows`): postings of one job add up to its
  reservation, and the settlements of all jobs are the sum of what was spent.
* `JobCostIsUsageCost` (`JobCostCountsUsageOnce`), assuming `~RepeatedIds`: with a
  repeated id the code counts twice, which `AnalysisJobs_duplicate` shows.
  `AnswersAreNew` adds that no two answers wait for one usage row, so the way
  around the usage service that leads to the second count is never taken.
* `OpenJobsAreSettleable` (`OpenJobsCanBeSettled`), assuming one call at a time
  (`Concurrency = 1`) and no call dearer than its estimate. These are what the
  admission check can rely on; with two calls it can pass both against one
  budget. `CallsAreAffordable` adds that a job can be settled also after the call
  in flight has cost its whole estimate.
* `JobsKeepPromise` (`KeepsPromise`): the refinement of `Wallet`. It needs
  `ReservedIsExact`, since a withdrawal must respect what is held, and
  `ReservedIsThere`.

### Chats and the common wallet (`DirectCreditProofs`, `MemberWalletProofs`)

* `DirectTypes` (`DirectTypeOK`, inductive by itself).
* `OpenChatsAreCovered` (`OpenChatsStayCovered`, `ReservedMatchesOpenChats`, and
  what is reserved is within the balance): the three are inductive together.
  `SumsOfEnded` is why a failure strands credit but never eats into what others
  hold.
* `NoneClosedTwice` (`ClosedOnce`): `KeysMatch` adds that a request which holds
  something has posted the reserve row of its id, that no other holds under the
  same id, and that nothing has closed that id yet. The unique key of the reserve
  row is what keeps two requests with one id apart.
* `DeliveredAndPaid` (`PaidIffDelivered`): `DuesMatch` compares what was spent
  with the sum over delivered chats, and `UnlimitedIsFree` keeps the chats that
  are settled without a row out of it.
* `ColumnServesBoth` (`ReservedMatchesBoth`), `JobsCanRelease`
  (`OpenJobsCanRelease`), `ServicesShareBalance` (`BothStayWithinBalance`), about
  `MemberWallet!SpecWallet`. `MemberWalletProofs` instantiates the proofs of both
  services on the common row (`J`, `D`) and shows that each step of one leaves
  what the other has summed as it is; the `Same...` lemmas say that an operator
  means the same in both instances. `WalletSums` is the invariant: the column is
  both sums together, and never less than them while no answer is lost.

### The member's two wallets (`AccessProofs`, about `MCMember!SpecMember`)

* `WhatIsReservedIsHeld` (`ReservedIsHeld`), `WhatIsDeliveredIsPaid`
  (`DeliveredIsPaid`): the PostgreSQL half comes from `DirectCreditProofs`, the
  other from `MemoryIsSound`, which is about the wallet in memory alone.
  `MemoryInv` says that the reserved column is the sum of the reservations
  (`ReservedIsSum`), that every reservation that stands is known to a chat or a
  job, and a job's to it alone unless a chat came under its id (`MemoryLinks`),
  and that what was spent is the charges of chats and jobs (`SpentIsSum`).
  Requests of one id, a job's among them, share a reservation: whoever ends first
  ends it, and the other finds it gone and fails, unpaid and undelivered. That
  the ids differ is not assumed. `SomeIsUnknown` counts ids to show that a new
  reservation takes the place of no other, gone ones that somebody still
  remembers included.

### Payments (`PaymentsProofs`, about `SpecPay`)

* `PaymentTypes` (`PayTypeOK`), `CreditIsGrantedOnceAtATime`
  (`CreditedOnceAtATime`), `CreditIsForPaidOrders` (`GrantedWasPaid`),
  `PaidOrdersAreNotVoided` (`VoidedWasNotPaid`) and `ReservedCreditIsSpared`
  (`RefundSparesReserved`), all from `PayInv`. None is inductive, because what a
  request or a webhook carries may be stale. `Heard` says what a word still
  means: the word "paid" that somebody holds is of an order that was paid, and
  "expired" of one that has expired for good, also when the word was heard of an
  order that did not exist yet. `TaskInv` says what a request may rely on at
  each step (a refund, that credit was granted; a cancellation, that the order is
  over). `RowInv` adds that credit which is with the member is of an invoice
  that is paid or past its time, which is why a late "pending" cannot make it
  be granted again.
* Every action is one `Move`: what it may do to an invoice's rows (`RowMove`), to
  its order (`OrderMove`) and to a request (`TaskMove`). `MoveKeeps` shows that
  moves keep `PayInv`, once for all of them.

### Access and releases (`AccessProofs`, about `SpecAccess` and `SpecReleases`)

* `AccessTypes` (`AccessTypeOK`, inductive by itself): `Locals` says what a
  request carries at each of its steps.
* `DeletedIsFinal` (`DeletedStaysInactive`): not inductive, since a
  reactivation that has read the account earlier would revive it. `NoneLate`
  adds that no such request is left, unless the deletion was overtaken.
* `EndingsAreThorough` (`EndingsEndSessions`), inductive given the types.
* `ResetsSpentOnce` (`ResetsAreSpentOnce`): a row that is not spent has changed
  nothing (`ChangedOnce`), a temporary password with a session is not live
  (`ExchangedOnce`), and live passwords and open sessions are one at most
  (`OneWayIn`); `AtMostOne` turns the last two into cardinalities.
* For desktops, lemma `RevokesOrHolds` sorts every action into those that revoke
  some rows or none and those by which a request comes to hold a row it has read.
  * `LimitIsKept` (`DevicesWithinLimit`): the devices of a key that no overlap
    accounts for, with one more if an activation is under way, are within the
    limit (`LimitInv`). An overlap marks every device of the key, which is why
    the count starts again.
  * `RevokedForGood` (`RevokedStaysRevoked`): requests that hold a row restrict
    it as live sessions do. Sessions and requests refer to keys that exist
    (`Referred`), a refresh that holds a revoked session contests it
    (`RefreshesContest`), and the device of whatever is or may become a live
    session is in use, another key's, or contested (`DevicesKept`).
* `CurrentCanBeDownloaded` (`CurrentIsPublished`): `ReleasesInv` adds that an edit
  is of one release, that edits are alone unless they `overlapped`, and that one
  which will take the mark knows every release that has it.

### Limits and replicas (`RoutingProofs`)

* `RoutingTypes` (`RoutingTypeOK`, inductive by itself); lemma `ProceedKinds`
  sorts what a request does into five kinds, by what they do to leases.
* `LeasesOutliveCalls` (`LeaseOutlivesCall`) and `LimitsHold`
  (`HoldersWithinLimit`) need each other, in `LeasesCover`: a lease that has
  not expired under a holder counts at least its holders (lost answers and
  crashes only make it count more), so a release never deletes the key while
  somebody else is in a call; and the time left of it is more than the time
  left of every call, so it does not expire under a call. That a request on
  its way keeps the provider it holds a place of is what ties the two.
* `WindowsBoundBursts` (`BurstsAreBounded`), for every limit and length of a
  window. No row says who let a request in, so `WindowsInv` says that the
  requests let in can be split into those of Redis' counter and those of the
  timestamps in memory (two functions of time, under an existential
  quantifier). Of the first, `SharedIsBounded` bounds every stretch from the
  current window's start, from a window before it, and of any window's length.
* `CopiesAreCurrent` (`KnownIsCurrent`), for any number of replicas, of
  administrators at each, of providers and of changes and failures. The
  invariant `SettingsInv` is a predicate `ReplicaOK` of each replica alone: of its
  record, its requests, the database, and whether anybody has a revision to
  publish. `MemoryIsCurrent` says that a replica which is not `blind` and which
  nobody's write has passed (`Aware`) differs from the database only in the rows
  that its own requests are about to write. `RestoresAlone` says that a restore
  has no other request beside it there, or the replica is blind. `RefreshOK` says
  what a refresh that is reading may rely on: unless a write passed it or an
  unannounced change crossed it, it reads the rows as they are. `AnnouncedOK`
  ties the two to Redis: a replica that is behind and takes its revision for
  known, or a refresh that has been passed and will, does so only while the
  change it misses is still to be announced. When all is quiet nothing is, hence
  the property. A step changes the record of one replica and the requests of one,
  so that `StepOfOne` asks of each action only what it does there; what a write
  by one does to all others is `WriteRowKeeps`.

### Only model-checked

Liveness under fairness is out of the prover's reach and stays with TLC:
`EveryJobCloses`, `ReservationsEnd`, `PageFindsOut`, `PaidIsCredited`,
`LeakedPlacesReturn`, `SettingsConverge`. So do the three expected violations,
which are counterexamples of the instances; anything about ENABLED; and induction
over data, which is why sums and counts are cardinalities here. There is no
RECURSIVE operator in the project.

## Not modelled

* The pricing policy is a constant of `AnalysisJobs`. A policy raised while a
  job is open may price it above its reservation; `complete` then refuses it,
  which `ChargeWithinReservation` covers, and `OpenJobsCanBeSettled` does not
  apply. How a policy comes to the replicas is in `Settings`.
* In-memory paths other than the wallet's (accounts, keys, payments, leases):
  production refuses to start on them.
* Callbacks whose amount is not the invoice's (they are logged and change
  nothing), the sandbox provider's payments and administrators' test
  transactions. Plans are ordered, granted and refunded in `Entitlement`, without
  the races between payment and status that `Payments` has for top-ups.
* The two reads of `deleteMember`, the guard and the transaction, are one step:
  the guard refuses a repetition, which would change nothing.
* Captures of cards: every order of a member is a QRIS payment.
* Nonces, signatures and lifetimes of sessions and tokens, and the throttle of
  failed logins: each only refuses requests.
* Packages, announcements and general settings, which the administration store
  writes and reloads as it does prices; the export and encryption of backups.
* Signatures, hashing, request building, QR images, display, logging, reports.
* The other pages of the console, which show what they load once; SDK, contracts
  and migrations.

## Plan

Done, in this order: `JobPricing` - `Sums`, `Wallet`, `AnalysisJobs` and its
proofs - `DirectCredit` - `MemberWallet` - `Payments` - `Leases`, `Routing`,
`RateWindows` - `DesktopSessions`, `Accounts` - `Settings`, `Releases` -
`ChatPricing`, `ClipPricing`, `StartUp`, `Entitlement` - `PaymentProviders` and
the change of configuration in `Payments` - `MemoryCredits`, `BillingPage`.

Every safety property that a run checks is stated by a theorem. Next: a weaker
promise than `Wallet` for chats, which may be charged more than they hold as long
as it is nobody else's, and that `DirectCredit` and `MemoryCredits` keep it; what
`PaymentProviders` says on its own (two events of one fact have different ids,
no word is read as two); what `BillingPage` may show while an answer is
overtaken.
