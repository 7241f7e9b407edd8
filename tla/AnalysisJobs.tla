---------------------------- MODULE AnalysisJobs ----------------------------
(***************************************************************************)
(* One member's credit row and the analysis jobs billed to it, on the      *)
(* PostgreSQL path: AnalysisJobService (start, complete, fail, recovery of *)
(* stale jobs, admission and recording of provider calls), the job branch  *)
(* of GatewayService.executeChat and the job branch of UsageService.record.*)
(* A database transaction is one action: it locks the rows it changes and  *)
(* runs serializable.  Everything a handler does outside a transaction is  *)
(* a step of its own, so handlers interleave where the code lets them.     *)
(***************************************************************************)
EXTENDS JobPricing, Sums

CONSTANTS
    Requests,           \* request ids; (userId, requestId) names one job
    Handlers,           \* HTTP handlers running a start or a wallet summary
    Calls,              \* provider calls routed for a job
    ResponseIds,        \* ids the provider gives its responses
    Policy,             \* the pricing policy in force
    BillingSources,     \* the billing sources entitlement may decide on
    StartInputs,        \* [seconds, clips] of a started job
    ActualCosts,        \* ActualCosts[e]: the costs of a call estimated at e
    Concurrency,        \* AI calls the concurrency lease lets run at once
    RepeatedIds,        \* whether a provider may reuse a response id
    TopUpAmounts,       \* credit of a paid invoice
    MaxGranted          \* bound on the credit ever granted

FreeSources == {"NO_CHARGE_LOCAL", "FREE_PREMIUM_TRIAL", "SUBSCRIPTION_INCLUDED"}
WalletSources == {"WALLET_STANDARD", "WALLET_FALLBACK"}

ASSUME ConstantsAssumption ==
    /\ IsFiniteSet(Requests) /\ IsFiniteSet(Calls) /\ IsFiniteSet(ResponseIds)
    /\ ValidPolicy(Policy)
    /\ BillingSources \subseteq FreeSources \union WalletSources
    /\ StartInputs \subseteq [seconds : Nat, clips : Nat]
    /\ DOMAIN ActualCosts \subseteq Nat
    /\ \A e \in DOMAIN ActualCosts : ActualCosts[e] \subseteq Nat
    /\ Concurrency \in Nat \ {0}
    /\ RepeatedIds \in BOOLEAN
    /\ TopUpAmounts \subseteq Nat \ {0}
    /\ MaxGranted \in Nat

VARIABLES
    account,    \* the UserCreditAccount row
    jobs,       \* jobs[r]: the AnalysisJob row of request r
    ledger,     \* ledger[r]: the credit ledger rows keyed by that job's id
    usage,      \* usage[i]: the AiUsage row whose requestId is i
    calls,      \* calls[c]: where the gateway is with provider call c
    handlers    \* handlers[h]: what HTTP handler h is doing

vars == <<account, jobs, ledger, usage, calls, handlers>>

-----------------------------------------------------------------------------
(* Rows and handler states *)

MaxCharge == Policy.maximumJobCharge

Statuses == {"NONE", "ACTIVE", "COMPLETED", "FAILED"}
Accounts == [balance : Nat, reserved : Nat, granted : Nat, spent : Nat]
Jobs == [status : Statuses, source : FreeSources \union WalletSources \union {"NONE"},
         reserved : 0..MaxCharge, cost : Nat, requestCount : Nat,
         final : 0..MaxCharge, released : 0..MaxCharge, stale : BOOLEAN]
(* Amounts posted under the four idempotency keys of a job; 0 is no row. *)
LedgerRows == [reserve : Nat, release : Nat, settle : Nat, failedRelease : Nat]
Usages == [job : Requests, cost : Nat]
Phases == {"idle", "routing", "answered", "unaggregated", "writing", "over"}
CallStates == [phase : Phases, job : Requests \union {{}}, estimate : Nat,
               id : ResponseIds \union {{}}, cost : Nat, read : Nat]
HandlerStates == [op : {"none", "start", "summary"}, request : Requests \union {{}},
                  todo : SUBSET Requests]

NoJob == [status |-> "NONE", source |-> "NONE", reserved |-> 0, cost |-> 0,
          requestCount |-> 0, final |-> 0, released |-> 0, stale |-> FALSE]
NoRows == [reserve |-> 0, release |-> 0, settle |-> 0, failedRelease |-> 0]
NoUsage == [job |-> {}, cost |-> 0]
NewCall == [phase |-> "idle", job |-> {}, estimate |-> 0, id |-> {}, cost |-> 0, read |-> 0]
OverCall == [NewCall EXCEPT !.phase = "over"]
IdleHandler == [op |-> "none", request |-> {}, todo |-> {}]

Active(r) == jobs[r].status = "ACTIVE"
WalletBilled(r) == jobs[r].source \in WalletSources
Quote(r, usable) == QuoteJobCost(Policy, jobs[r].cost, usable)

(* What each request holds back of the member's balance. *)
HeldBy == [r \in Requests |-> IF Active(r) THEN jobs[r].reserved ELSE 0]

(* A row is posted only for an amount above zero, and its key is unique. *)
Postable(r, key, amount) == amount > 0 => ledger[r][key] = 0

Init ==
    /\ account = [balance |-> 0, reserved |-> 0, granted |-> 0, spent |-> 0]
    /\ jobs = [r \in Requests |-> NoJob]
    /\ ledger = [r \in Requests |-> NoRows]
    /\ usage = [i \in ResponseIds |-> NoUsage]
    /\ calls = [c \in Calls |-> NewCall]
    /\ handlers = [h \in Handlers |-> IdleHandler]

-----------------------------------------------------------------------------
(* Money that comes and goes through PaymentService *)

(* Mutant: the lifetime total is forgotten. *)
TopUpUncounted(amount) ==
    /\ account.granted + amount <= MaxGranted
    /\ account' = [account EXCEPT !.balance = @ + amount]
    /\ UNCHANGED <<jobs, ledger, usage, calls, handlers>>

TopUp(amount) ==
    /\ account.granted + amount <= MaxGranted
    /\ account' = [account EXCEPT !.balance = @ + amount, !.granted = @ + amount]
    /\ UNCHANGED <<jobs, ledger, usage, calls, handlers>>

(* Mutants: the balance is not looked at, or what is reserved is not. *)
RefundUnchecked(amount) ==
    /\ account.granted >= amount
    /\ account' = [account EXCEPT !.balance = @ - amount, !.granted = @ - amount]
    /\ UNCHANGED <<jobs, ledger, usage, calls, handlers>>

RefundReserved(amount) == account.balance >= amount /\ RefundUnchecked(amount)

RefundTopUp(amount) ==
    /\ account.granted >= amount
    /\ account.balance >= amount
    /\ account.balance - amount >= account.reserved
    /\ account' = [account EXCEPT !.balance = @ - amount, !.granted = @ - amount]
    /\ UNCHANGED <<jobs, ledger, usage, calls, handlers>>

-----------------------------------------------------------------------------
(* Closing a job: the transactions of complete and fail *)

(* Mutant: the charge is not compared with the reservation. *)
CompletableUncapped(r, quote) == Active(r) /\ quote.capSafe

Completable(r, quote) ==
    /\ Active(r)
    /\ quote.capSafe
    /\ WalletBilled(r) => quote.userCharge <= jobs[r].reserved

Complete(r, usable) ==
    LET job      == jobs[r]
        quote    == Quote(r, usable)
        final    == IF WalletBilled(r) THEN quote.userCharge ELSE 0
        released == Larger(0, job.reserved - final)
    IN  /\ Completable(r, quote)
        /\ account.reserved >= job.reserved
        /\ account.balance >= final
        /\ Postable(r, "release", released)
        /\ Postable(r, "settle", final)
        /\ account' = [account EXCEPT !.balance = @ - final,
                                      !.reserved = @ - job.reserved,
                                      !.spent = @ + final]
        /\ ledger' = [ledger EXCEPT ![r].release = @ + released,
                                    ![r].settle = @ + final]
        /\ jobs' = [jobs EXCEPT ![r].status = "COMPLETED", ![r].final = final,
                                ![r].released = released, ![r].stale = FALSE]
        /\ UNCHANGED <<usage, calls>>

(* Mutants: the ledger row of the release is forgotten; a job that is     *)
(* already completed is failed as well.                                    *)
FailUnposted(r) ==
    /\ Active(r)
    /\ account.reserved >= jobs[r].reserved
    /\ account' = [account EXCEPT !.reserved = @ - jobs[r].reserved]
    /\ jobs' = [jobs EXCEPT ![r].status = "FAILED", ![r].released = jobs[r].reserved]
    /\ UNCHANGED <<ledger, usage, calls>>

FailCompleted(r) ==
    /\ jobs[r].status \in {"ACTIVE", "COMPLETED"}
    /\ account.reserved >= jobs[r].reserved
    /\ account' = [account EXCEPT !.reserved = @ - jobs[r].reserved]
    /\ jobs' = [jobs EXCEPT ![r].status = "FAILED", ![r].released = jobs[r].reserved]
    /\ UNCHANGED <<ledger, usage, calls>>

(* failPersistent when it changes something; a closed job is left alone. *)
FailJob(r) ==
    /\ Active(r)
    /\ account.reserved >= jobs[r].reserved
    /\ Postable(r, "failedRelease", jobs[r].reserved)
    /\ account' = [account EXCEPT !.reserved = @ - jobs[r].reserved]
    /\ ledger' = [ledger EXCEPT ![r].failedRelease = @ + jobs[r].reserved]
    /\ jobs' = [jobs EXCEPT ![r].status = "FAILED",
                            ![r].released = jobs[r].reserved, ![r].stale = FALSE]
    /\ UNCHANGED <<usage, calls>>

ClientCompletes(r, usable) == Complete(r, usable) /\ UNCHANGED handlers

ClientFails(r) == FailJob(r) /\ UNCHANGED handlers

(* updatedAt of an open job falls behind the cutoff of stale jobs. *)
GrowStale(r) ==
    /\ Active(r)
    /\ ~jobs[r].stale
    /\ jobs' = [jobs EXCEPT ![r].stale = TRUE]
    /\ UNCHANGED <<account, ledger, usage, calls, handlers>>

-----------------------------------------------------------------------------
(* recoverStalePersistentJobs, the first thing a start or a summary does *)

(* Mutant: a job that never made a call is not listed. *)
StaleUsedJobs == {r \in Requests : Active(r) /\ jobs[r].stale /\ jobs[r].requestCount > 0}

StaleJobs == {r \in Requests : Active(r) /\ jobs[r].stale}

BeginStart(h, r) ==
    /\ handlers[h].op = "none"
    /\ handlers' = [handlers EXCEPT ![h] = [op |-> "start", request |-> r, todo |-> StaleJobs]]
    /\ UNCHANGED <<account, jobs, ledger, usage, calls>>

BeginSummary(h) ==
    /\ handlers[h].op = "none"
    /\ StaleJobs # {}
    /\ handlers' = [handlers EXCEPT ![h] = [op |-> "summary", request |-> {}, todo |-> StaleJobs]]
    /\ UNCHANGED <<account, jobs, ledger, usage, calls>>

(* The loop fails the jobs it listed, without asking whether they still are *)
(* stale, and goes on to the next one when a transaction throws.            *)
Drop(h, r) ==
    handlers' = [handlers EXCEPT ![h].todo = @ \ {r}]

RecoverJob(h, r) ==
    /\ r \in handlers[h].todo
    /\ FailJob(r)
    /\ Drop(h, r)

SkipJob(h, r) ==
    /\ r \in handlers[h].todo
    /\ Drop(h, r)
    /\ UNCHANGED <<account, jobs, ledger, usage, calls>>

EndSummary(h) ==
    /\ handlers[h].op = "summary"
    /\ handlers[h].todo = {}
    /\ handlers' = [handlers EXCEPT ![h] = IdleHandler]
    /\ UNCHANGED <<account, jobs, ledger, usage, calls>>

-----------------------------------------------------------------------------
(* startPersistent after recovery *)

ReadyToStart(h, r) ==
    /\ handlers[h].op = "start"
    /\ handlers[h].request = r
    /\ handlers[h].todo = {}

(* The job exists, or entitlement refuses: the row is not touched. *)
StartWithoutJob(h, r) ==
    /\ ReadyToStart(h, r)
    /\ handlers' = [handlers EXCEPT ![h] = IdleHandler]
    /\ UNCHANGED <<account, jobs, ledger, usage, calls>>

(* Mutant: the balance counts whole, what is reserved of it included. *)
WithinBalance(amount) == account.balance >= amount

Spendable(amount) == account.balance - account.reserved >= amount

(* Which source pays is entitlement's decision: a source other than the     *)
(* wallet reserves nothing, the wallet must have the estimate to spare.     *)
CreateJob(h, r, input, source) ==
    LET estimate == EstimateAnalysisJob(Policy, input).reservation
        reserved == IF source \in WalletSources THEN estimate ELSE 0
    IN  /\ ReadyToStart(h, r)
        /\ jobs[r].status = "NONE"
        /\ source \in WalletSources => Spendable(estimate)
        /\ account' = [account EXCEPT !.reserved = @ + reserved]
        /\ jobs' = [jobs EXCEPT ![r] = [NoJob EXCEPT !.status = "ACTIVE",
                                                     !.source = source,
                                                     !.reserved = reserved]]
        /\ ledger' = [ledger EXCEPT ![r].reserve = reserved]
        /\ handlers' = [handlers EXCEPT ![h] = IdleHandler]
        /\ UNCHANGED <<usage, calls>>

-----------------------------------------------------------------------------
(* A provider call of a job: executeChat with a jobId *)

InFlight == {c \in Calls : calls[c].phase \notin {"idle", "over"}}

(* Mutant: only the provider cost is limited, not the charge it leads to. *)
AllowedByCost(r, estimate, optional) ==
    Active(r) /\ jobs[r].cost + estimate <= Policy.hardProviderCost

(* assertProviderCallAllowed reads the row outside any transaction. *)
ProviderCallAllowed(r, estimate, optional) ==
    LET projected == jobs[r].cost + estimate
        quote     == QuoteJobCost(Policy, projected, TRUE)
    IN  /\ Active(r)
        /\ projected <= Policy.hardProviderCost
        /\ optional => jobs[r].cost < Policy.warningProviderCost
        /\ quote.capSafe
        /\ jobs[r].source \notin FreeSources => quote.userCharge <= jobs[r].reserved

AdmitCall(c, r, estimate, optional) ==
    /\ calls[c].phase = "idle"
    /\ Cardinality(InFlight) < Concurrency
    /\ ProviderCallAllowed(r, estimate, optional)
    /\ calls' = [calls EXCEPT ![c] = [NewCall EXCEPT !.phase = "routing", !.job = r,
                                                     !.estimate = estimate]]
    /\ UNCHANGED <<account, jobs, ledger, usage, handlers>>

ProviderAnswers(c, id, cost) ==
    /\ calls[c].phase = "routing"
    /\ cost \in ActualCosts[calls[c].estimate]
    /\ RepeatedIds \/ (usage[id] = NoUsage /\ \A d \in Calls : calls[d].id # id)
    /\ calls' = [calls EXCEPT ![c].phase = "answered", ![c].id = id, ![c].cost = cost]
    /\ UNCHANGED <<account, jobs, ledger, usage, handlers>>

(* Every provider failed, or a statement outside the modelled ones threw. *)
CallFails(c) ==
    /\ c \in InFlight
    /\ calls' = [calls EXCEPT ![c] = OverCall]
    /\ UNCHANGED <<account, jobs, ledger, usage, handlers>>

(* Mutant: the cost of a call that ends after its job is dropped. *)
ChargedWhileOpen(job, cost) ==
    IF job.status = "ACTIVE" THEN [job EXCEPT !.cost = cost] ELSE job

Charged(job, cost) ==
    [job EXCEPT !.cost = cost, !.requestCount = @ + 1, !.stale = FALSE]

(* UsageService.record: the usage row and the cost of its job, whatever the *)
(* status of the job is by then.                                            *)
RecordUsage(c) ==
    LET call == calls[c]
    IN  /\ call.phase = "answered"
        /\ usage[call.id] = NoUsage
        /\ usage' = [usage EXCEPT ![call.id] = [job |-> call.job, cost |-> call.cost]]
        /\ jobs' = [jobs EXCEPT ![call.job] = Charged(@, @.cost + call.cost)]
        /\ calls' = [calls EXCEPT ![c] = OverCall]
        /\ UNCHANGED <<account, ledger, handlers>>

(* The row exists already: nothing is recorded, and the gateway, told that  *)
(* the cost was not aggregated, turns to recordProviderUsage.               *)
RecordDuplicate(c) ==
    /\ calls[c].phase = "answered"
    /\ usage[calls[c].id] # NoUsage
    /\ calls' = [calls EXCEPT ![c].phase = "unaggregated"]
    /\ UNCHANGED <<account, jobs, ledger, usage, handlers>>

(* recordProviderUsage: a read of the open job ...                          *)
ReadJobCost(c) ==
    LET job == jobs[calls[c].job]
    IN  /\ calls[c].phase = "unaggregated"
        /\ calls' = [calls EXCEPT ![c] = IF job.status = "ACTIVE"
                                         THEN [@ EXCEPT !.phase = "writing", !.read = job.cost]
                                         ELSE OverCall]
        /\ UNCHANGED <<account, jobs, ledger, usage, handlers>>

(* ... and, in a statement of its own, a write of the sum.                  *)
WriteJobCost(c) ==
    LET call == calls[c]
    IN  /\ call.phase = "writing"
        /\ jobs' = [jobs EXCEPT ![call.job] = Charged(@, call.read + call.cost)]
        /\ calls' = [calls EXCEPT ![c] = OverCall]
        /\ UNCHANGED <<account, ledger, usage, handlers>>

(* The API process dies: rows stay, whatever was running is gone. *)
Crash ==
    /\ InFlight # {} \/ \E h \in Handlers : handlers[h] # IdleHandler
    /\ calls' = [c \in Calls |-> IF c \in InFlight THEN OverCall ELSE calls[c]]
    /\ handlers' = [h \in Handlers |-> IdleHandler]
    /\ UNCHANGED <<account, jobs, ledger, usage>>

-----------------------------------------------------------------------------
PaymentStep == \E a \in TopUpAmounts : TopUp(a) \/ RefundTopUp(a)

ClientStep == \E r \in Requests : \/ \E usable \in BOOLEAN : ClientCompletes(r, usable)
                                  \/ ClientFails(r)

HandlerStep(h) ==
    \/ BeginSummary(h)
    \/ EndSummary(h)
    \/ \E r \in Requests :
          \/ BeginStart(h, r)
          \/ RecoverJob(h, r)
          \/ SkipJob(h, r)
          \/ StartWithoutJob(h, r)
          \/ \E input \in StartInputs, source \in BillingSources : CreateJob(h, r, input, source)

CallStep(c) ==
    \/ \E r \in Requests, estimate \in DOMAIN ActualCosts, optional \in BOOLEAN :
          AdmitCall(c, r, estimate, optional)
    \/ \E id \in ResponseIds : \E cost \in UNION {ActualCosts[e] : e \in DOMAIN ActualCosts} :
          ProviderAnswers(c, id, cost)
    \/ CallFails(c)
    \/ RecordUsage(c)
    \/ RecordDuplicate(c)
    \/ ReadJobCost(c)
    \/ WriteJobCost(c)

Next ==
    \/ PaymentStep
    \/ ClientStep
    \/ \E r \in Requests : GrowStale(r)
    \/ \E h \in Handlers : HandlerStep(h)
    \/ \E c \in Calls : CallStep(c)
    \/ Crash

Spec == Init /\ [][Next]_vars

-----------------------------------------------------------------------------
(* Safety *)

(* A call past admission names a job, past its answer a usage row. *)
CallsNameRows ==
    \A c \in Calls : calls[c].phase \notin {"idle", "over"} =>
       /\ calls[c].job \in Requests
       /\ calls[c].phase # "routing" => calls[c].id \in ResponseIds

(* The rows and the handler states stay within the values the code gives   *)
(* them (the schema's columns; a call past admission names a job).         *)
TypeOK ==
    /\ account \in Accounts
    /\ jobs \in [Requests -> Jobs]
    /\ ledger \in [Requests -> LedgerRows]
    /\ usage \in [ResponseIds -> Usages \union {NoUsage}]
    /\ calls \in [Calls -> CallStates]
    /\ handlers \in [Handlers -> HandlerStates]
    /\ CallsNameRows

(* The wallet's reserved column, which only ever moves by increments and   *)
(* decrements, is the sum of what the open jobs reserved: no path through  *)
(* complete, fail and recovery releases a reservation twice or leaks one.  *)
ReservedMatchesOpenJobs == account.reserved = SumOf(HeldBy)

(* Money that a job reserved is there when the job is charged: no top-up   *)
(* refund, charge or other reservation eats into it.                       *)
ReservedWithinBalance == account.reserved <= account.balance

(* The two lifetime totals of the row account for its balance.             *)
LifetimeTotalsExplainBalance == account.balance + account.spent = account.granted

(* The ledger agrees with the rows it explains: a job's postings release   *)
(* and settle exactly what it reserved, nothing of it before it closes and *)
(* all of it after, and the settlements add up to what the member spent.   *)
LedgerExplainsRows ==
    /\ \A r \in Requests :
          LET rows == ledger[r]
          IN  IF jobs[r].status \in {"COMPLETED", "FAILED"}
              THEN rows.reserve = rows.release + rows.settle + rows.failedRelease
              ELSE rows = [NoRows EXCEPT !.reserve = HeldBy[r]]
    /\ account.spent = SumOf([r \in Requests |-> ledger[r].settle])

(* Once a job is closed its outcome is final: no later complete, fail or   *)
(* recovery, nor the usage of a late provider call, moves its status, its  *)
(* charge or its postings.                                                 *)
ClosedJobsAreFinal ==
    [][\A r \in Requests : jobs[r].status \in {"COMPLETED", "FAILED"} =>
          /\ jobs'[r].status = jobs[r].status
          /\ jobs'[r].final = jobs[r].final
          /\ jobs'[r].released = jobs[r].released
          /\ ledger'[r] = ledger[r]]_vars

(* A job never costs the member more than it told them it would hold, nor  *)
(* anything at all when the entitlement or its failure made it free.       *)
ChargeWithinReservation ==
    \A r \in Requests :
       /\ jobs[r].final + jobs[r].released <= jobs[r].reserved
       /\ jobs[r].final > 0 => jobs[r].status = "COMPLETED" /\ WalletBilled(r)

(* README.md: a duplicate request is not recorded twice, neither as usage  *)
(* nor in the cost of its job; the cost of a job is that of its usage rows. *)
JobCostCountsUsageOnce ==
    \A r \in Requests :
       jobs[r].cost = SumOf([i \in ResponseIds |->
                                     IF usage[i].job = r THEN usage[i].cost ELSE 0])

(* What assertProviderCallAllowed is for: whatever calls are made, an open *)
(* job that found usable clips can still be settled, so the work done is   *)
(* never refused with COST_LIMIT_REACHED at its end.                       *)
OpenJobsCanBeSettled ==
    \A r \in Requests : Active(r) =>
       LET quote == Quote(r, TRUE)
       IN  quote.capSafe /\ (WalletBilled(r) => quote.userCharge <= jobs[r].reserved)

-----------------------------------------------------------------------------
(* Every step of the rows is a step of the promise in module Wallet. *)

Promise == INSTANCE Wallet WITH
    Holders <- Requests,
    MaxHold <- MaxCharge,
    balance <- account.balance,
    held    <- HeldBy,
    ended   <- {r \in Requests : jobs[r].status \in {"COMPLETED", "FAILED"}}

(* Jobs spend the member's money only as the abstract wallet allows.       *)
KeepsPromise == Promise!WalletSpec

-----------------------------------------------------------------------------
(* Liveness *)

(* The recovery loop of a request goes on to its end, the database          *)
(* serving some of its transactions; the member's wallet is looked at       *)
(* again and again (the desktop does so before every job), and updatedAt of *)
(* a job nobody touches falls behind the cutoff.                            *)
Fairness ==
    /\ \A h \in Handlers :
          /\ WF_vars(BeginSummary(h))
          /\ WF_vars(EndSummary(h))
          /\ \A r \in Requests : /\ SF_vars(RecoverJob(h, r))
                                 /\ WF_vars(StartWithoutJob(h, r))
                                 /\ WF_vars(SkipJob(h, r))
    /\ \A r \in Requests : WF_vars(GrowStale(r))

FairSpec == Spec /\ Fairness

(* The reservation of a job its client abandoned does not stay held for    *)
(* ever: recovery or the client closes every job that was opened.          *)
EveryJobCloses == \A r \in Requests : Active(r) ~> ~Active(r)
=============================================================================
