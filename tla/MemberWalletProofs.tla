------------------------- MODULE MemberWalletProofs -------------------------
(***************************************************************************)
(* The one credit row under both services, payments and administrators.    *)
(* What the services do to the row is proved of each by itself             *)
(* (AnalysisJobsProofs, DirectCreditProofs); here their lemmas are taken   *)
(* for the instances that MemberWallet composes, and the sum of what the   *)
(* two reserved is followed through the steps of all.                      *)
(***************************************************************************)
EXTENDS MemberWallet, FiniteSetTheorems, TLAPS

J == INSTANCE AnalysisJobsProofs WITH
    Calls <- {}, ResponseIds <- {}, ActualCosts <- <<>>, Concurrency <- 1,
    RepeatedIds <- FALSE, usage <- <<>>, calls <- <<>>

D == INSTANCE DirectCreditProofs WITH Deposits <- {}, MaxDeposited <- 0

-----------------------------------------------------------------------------
(* The instances with the proofs are the instances of the model *)

LEMMA SamePrices ==
    /\ \A p, c, u :
          /\ J!QuoteJobCost(p, c, u).userCharge = Analysis!QuoteJobCost(p, c, u).userCharge
          /\ J!QuoteJobCost(p, c, u).capSafe <=> Analysis!QuoteJobCost(p, c, u).capSafe
    /\ \A p, i : J!EstimateAnalysisJob(p, i).reservation
                   = Analysis!EstimateAnalysisJob(p, i).reservation
    /\ \A p : J!ValidPolicy(p) <=> Analysis!ValidPolicy(p)
<1>1. \A a, b : J!Larger(a, b) = Analysis!Larger(a, b) /\ J!Smaller(a, b) = Analysis!Smaller(a, b)
  BY Zenon DEF J!Larger, Analysis!Larger, J!Smaller, Analysis!Smaller
<1>2. \A a, b : J!CeilDivide(a, b) = Analysis!CeilDivide(a, b)
  BY Zenon DEF J!CeilDivide, Analysis!CeilDivide
<1>3. \A a, b : J!BpsCharge(a, b) = Analysis!BpsCharge(a, b)
  BY <1>2 DEF J!BpsCharge, Analysis!BpsCharge
<1>4. \A a, b : J!ProtectedCharge(a, b) = Analysis!ProtectedCharge(a, b)
  BY <1>2 DEF J!ProtectedCharge, Analysis!ProtectedCharge
<1>5. \A p : J!OverheadBps(p) = Analysis!OverheadBps(p)
  BY Zenon DEF J!OverheadBps, Analysis!OverheadBps
<1>6. \A p, c : J!InternalCost(p, c) = Analysis!InternalCost(p, c)
  BY <1>3, <1>5, Zenon DEF J!InternalCost, Analysis!InternalCost
<1>7. \A p, c : J!ProtectedPrice(p, c) = Analysis!ProtectedPrice(p, c)
  BY <1>1, <1>4, <1>6, Zenon DEF J!ProtectedPrice, Analysis!ProtectedPrice
<1>8. \A p, c, u :
         /\ J!QuoteJobCost(p, c, u).userCharge = Analysis!QuoteJobCost(p, c, u).userCharge
         /\ J!QuoteJobCost(p, c, u).reservation = Analysis!QuoteJobCost(p, c, u).reservation
         /\ J!QuoteJobCost(p, c, u).capSafe <=> Analysis!QuoteJobCost(p, c, u).capSafe
  <2>1. TAKE p, c, u
  <2>2. J!QuoteJobCost(p, c, u).userCharge = Analysis!QuoteJobCost(p, c, u).userCharge
    BY <1>7 DEF J!QuoteJobCost, Analysis!QuoteJobCost
  <2>3. J!QuoteJobCost(p, c, u).reservation = Analysis!QuoteJobCost(p, c, u).reservation
    BY <1>1, <1>3, <1>7 DEF J!QuoteJobCost, Analysis!QuoteJobCost
  <2>4. J!QuoteJobCost(p, c, u).capSafe <=> Analysis!QuoteJobCost(p, c, u).capSafe
    BY <1>7 DEF J!QuoteJobCost, Analysis!QuoteJobCost
  <2> QED
    BY <2>2, <2>3, <2>4
<1>9. \A a : J!VideoBlocks(a) = Analysis!VideoBlocks(a)
             /\ J!ExpectedClips(a) = Analysis!ExpectedClips(a)
  BY <1>1, <1>2, Zenon DEF J!VideoBlocks, Analysis!VideoBlocks, J!ExpectedClips,
                           Analysis!ExpectedClips
<1>10. \A a, b : J!ComplexityBps(a, b) = Analysis!ComplexityBps(a, b)
  BY <1>1, <1>9 DEF J!ComplexityBps, Analysis!ComplexityBps
<1>11. \A p, a, b : J!EstimatedProviderCost(p, a, b) = Analysis!EstimatedProviderCost(p, a, b)
  BY <1>1, <1>3, <1>10, Zenon DEF J!EstimatedProviderCost, Analysis!EstimatedProviderCost
<1>12. \A p, i : J!EstimateAnalysisJob(p, i).reservation
                   = Analysis!EstimateAnalysisJob(p, i).reservation
  BY <1>8, <1>11, Zenon DEF J!EstimateAnalysisJob, Analysis!EstimateAnalysisJob
<1>13. \A p : J!ValidPolicy(p) <=> Analysis!ValidPolicy(p)
  <2>1. J!JobPolicies = Analysis!JobPolicies
    BY DEF J!JobPolicies, Analysis!JobPolicies, J!MarginBps, Analysis!MarginBps,
           J!Bps, Analysis!Bps
  <2> QED
    BY <1>5, <1>7, <2>1 DEF J!ValidPolicy, Analysis!ValidPolicy
<1> QED
  BY <1>8, <1>12, <1>13, Zenon

LEMMA SameJobAssumptions == J!ConstantsAssumption
<1>1. Analysis!ConstantsAssumption
  BY WalletAssumption
<1>2. \A S : J!IsFiniteSet(S) <=> Analysis!IsFiniteSet(S)
  BY Zenon DEF J!IsFiniteSet, Analysis!IsFiniteSet
<1> QED
  BY <1>1, <1>2, SamePrices, Zenon DEF Analysis!ConstantsAssumption, J!ConstantsAssumption,
       J!FreeSources, Analysis!FreeSources, J!WalletSources, Analysis!WalletSources

(* The sums are the same sums.                                             *)
LEMMA SameSums ==
    /\ \A f : J!SumOf(f) = SumOf(f) /\ D!SumOf(f) = SumOf(f)
    /\ J!HeldBy = Analysis!HeldBy
    /\ D!ReservedBy = Direct!ReservedBy
<1>1. \A f : J!SumOf(f) = SumOf(f)
  BY Zenon DEF J!SumOf, J!Units, SumOf, Units, J!Cardinality, Cardinality, J!IsFiniteSet,
               IsFiniteSet
<1>2. \A f : D!SumOf(f) = SumOf(f)
  BY Zenon DEF D!SumOf, D!Units, SumOf, Units, D!Cardinality, Cardinality, D!IsFiniteSet,
               IsFiniteSet
<1>3. J!HeldBy = Analysis!HeldBy
  BY Zenon DEF J!HeldBy, Analysis!HeldBy, J!Active, Analysis!Active
<1>4. D!ReservedBy = Direct!ReservedBy
  BY Zenon DEF D!ReservedBy, Direct!ReservedBy, D!Open, Direct!Open
<1> QED
  BY <1>1, <1>2, <1>3, <1>4, Zenon

LEMMA SameComplete ==
    ASSUME NEW r, NEW usable, Analysis!Complete(r, usable)
    PROVE  J!Complete(r, usable)
<1>1. PICK charge : /\ charge = J!Quote(r, usable).userCharge
                    /\ charge = Analysis!Quote(r, usable).userCharge
  BY SamePrices, Zenon DEF J!Quote, Analysis!Quote
<1>2. J!Quote(r, usable).capSafe <=> Analysis!Quote(r, usable).capSafe
  BY SamePrices, Zenon DEF J!Quote, Analysis!Quote
<1>3. J!WalletBilled(r) <=> Analysis!WalletBilled(r)
  BY Zenon DEF J!WalletBilled, Analysis!WalletBilled, J!WalletSources, Analysis!WalletSources
<1>4. \A key, n : J!Postable(r, key, n) <=> Analysis!Postable(r, key, n)
  BY Zenon DEF J!Postable, Analysis!Postable
<1>5. \A a, b : J!Larger(a, b) = Analysis!Larger(a, b)
  BY Zenon DEF J!Larger, Analysis!Larger
<1>6. J!Completable(r, J!Quote(r, usable)) <=> Analysis!Completable(r, Analysis!Quote(r, usable))
  BY <1>1, <1>2, <1>3, Zenon DEF J!Completable, Analysis!Completable, J!Active, Analysis!Active
<1> QED
  BY <1>1, <1>3, <1>4, <1>5, <1>6, Zenon DEF J!Complete, Analysis!Complete

LEMMA SameFail ==
    ASSUME NEW r, Analysis!FailJob(r)
    PROVE  J!FailJob(r)
BY Zenon DEF J!FailJob, Analysis!FailJob, J!Active, Analysis!Active, J!Postable, Analysis!Postable

LEMMA SameCreate ==
    ASSUME NEW h, NEW r, NEW input, NEW source, Analysis!CreateJob(h, r, input, source)
    PROVE  J!CreateJob(h, r, input, source)
<1>1. J!EstimateAnalysisJob(Policy, input).reservation
        = Analysis!EstimateAnalysisJob(Policy, input).reservation
  BY SamePrices, Zenon
<1> QED
  BY <1>1, Zenon DEF J!CreateJob, Analysis!CreateJob, J!ReadyToStart, Analysis!ReadyToStart,
       J!Spendable, Analysis!Spendable, J!WalletSources, Analysis!WalletSources,
       J!NoJob, Analysis!NoJob, J!IdleHandler, Analysis!IdleHandler

LEMMA SameHandlerStep ==
    ASSUME NEW h, Analysis!HandlerStep(h)
    PROVE  J!HandlerStep(h)
<1>1. J!IdleHandler = Analysis!IdleHandler /\ J!StaleJobs = Analysis!StaleJobs
  BY Zenon DEF J!IdleHandler, Analysis!IdleHandler, J!StaleJobs, Analysis!StaleJobs,
       J!Active, Analysis!Active
<1>2. \A r : J!Drop(h, r) <=> Analysis!Drop(h, r)
  BY Zenon DEF J!Drop, Analysis!Drop
<1>3. Analysis!BeginSummary(h) => J!BeginSummary(h)
  BY <1>1, Zenon DEF J!BeginSummary, Analysis!BeginSummary
<1>4. Analysis!EndSummary(h) => J!EndSummary(h)
  BY <1>1, Zenon DEF J!EndSummary, Analysis!EndSummary
<1>5. \A r : Analysis!BeginStart(h, r) => J!BeginStart(h, r)
  BY <1>1, Zenon DEF J!BeginStart, Analysis!BeginStart
<1>6. \A r : Analysis!RecoverJob(h, r) => J!RecoverJob(h, r)
  BY <1>2, SameFail, Zenon DEF J!RecoverJob, Analysis!RecoverJob
<1>7. \A r : Analysis!SkipJob(h, r) => J!SkipJob(h, r)
  BY <1>2, Zenon DEF J!SkipJob, Analysis!SkipJob
<1>8. \A r : Analysis!StartWithoutJob(h, r) => J!StartWithoutJob(h, r)
  BY <1>1, Zenon DEF J!StartWithoutJob, Analysis!StartWithoutJob, J!ReadyToStart,
       Analysis!ReadyToStart
<1> QED
  BY <1>3, <1>4, <1>5, <1>6, <1>7, <1>8, SameCreate, Zenon
     DEF J!HandlerStep, Analysis!HandlerStep

LEMMA SameJobSteps ==
    ASSUME JobSteps
    PROVE  J!Next
<1>1. Analysis!PaymentStep => J!PaymentStep
  BY Zenon DEF J!PaymentStep, Analysis!PaymentStep, J!TopUp, Analysis!TopUp, J!RefundTopUp,
       Analysis!RefundTopUp
<1>2. Analysis!ClientStep => J!ClientStep
  BY SameComplete, SameFail, Zenon
     DEF J!ClientStep, Analysis!ClientStep, J!ClientCompletes, Analysis!ClientCompletes,
         J!ClientFails, Analysis!ClientFails
<1>3. \A r : Analysis!GrowStale(r) => J!GrowStale(r)
  BY Zenon DEF J!GrowStale, Analysis!GrowStale, J!Active, Analysis!Active
<1> QED
  BY <1>1, <1>2, <1>3, SameHandlerStep, Zenon DEF JobSteps, J!Next

LEMMA SameChatAssumptions == D!DirectAssumption
<1>1. Direct!DirectAssumption
  BY WalletAssumption
<1>2. \A S : D!IsFiniteSet(S) <=> Direct!IsFiniteSet(S)
  BY Zenon DEF D!IsFiniteSet, Direct!IsFiniteSet
<1> QED
  BY <1>1, <1>2, Zenon DEF Direct!DirectAssumption, D!DirectAssumption

LEMMA SameChatSteps ==
    ASSUME NEW q, Direct!ChatStep(q)
    PROVE  D!ChatStep(q)
BY Zenon DEF D!ChatStep, Direct!ChatStep, D!ReserveUnlimited, Direct!ReserveUnlimited,
     D!Reserve, Direct!Reserve, D!ReserveUnheard, Direct!ReserveUnheard, D!ReserveRefused,
     Direct!ReserveRefused, D!ReserveRows, Direct!ReserveRows, D!Reserved, Direct!Reserved,
     D!NewChat, Direct!NewChat, D!Unposted, Direct!Unposted, D!Post, Direct!Post,
     D!PhaseTo, Direct!PhaseTo, D!Answered, Direct!Answered, D!Thrown, Direct!Thrown,
     D!Settle, Direct!Settle, D!SettleRows, Direct!SettleRows, D!Settleable, Direct!Settleable,
     D!SettleKeys, Direct!SettleKeys, D!SettleUnlimited, Direct!SettleUnlimited,
     D!SettleRefused, Direct!SettleRefused, D!SettleUnheard, Direct!SettleUnheard,
     D!Release, Direct!Release, D!ReleaseFails, Direct!ReleaseFails

LEMMA SameCrash ==
    ASSUME Direct!CrashChats
    PROVE  D!CrashChats
BY Zenon DEF D!CrashChats, Direct!CrashChats, D!Open, Direct!Open

-----------------------------------------------------------------------------
(* Types *)

AdminRows == [phase : {"idle", "checked", "done"}, target : Nat]

WalletTypes ==
    /\ J!TypeOK
    /\ D!DirectTypeOK
    /\ admins \in [Admins -> AdminRows]

LEMMA WalletTypesInitially == InitWallet => WalletTypes
<1> SUFFICES ASSUME InitWallet PROVE WalletTypes
  OBVIOUS
<1>1. J!Init
  BY Zenon DEF InitWallet, Analysis!Init, J!Init, J!NoJob, Analysis!NoJob, J!NoRows,
       Analysis!NoRows, J!NoUsage, Analysis!NoUsage, J!NewCall, Analysis!NewCall,
       J!IdleHandler, Analysis!IdleHandler
<1>2. J!TypeOK
  BY <1>1, J!InitType, SameJobAssumptions, Zenon
<1>3. D!InitDirect
  BY Zenon DEF InitWallet, Analysis!Init, D!InitDirect, D!NewChat, Direct!NewChat
<1>4. D!DirectTypeOK
  BY <1>3, D!TypesInitially, SameChatAssumptions, Zenon
<1>5. admins \in [Admins -> AdminRows]
  BY DEF InitWallet, NewUpdate, AdminRows
<1> QED
  BY <1>2, <1>4, <1>5 DEF WalletTypes

(* The services read the same row: what is an account to one of them is    *)
(* an account to the other.                                                *)
LEMMA SameAccounts == J!Accounts = D!Accounts
BY Zenon DEF J!Accounts, D!Accounts

(* The step of an administrator, as the columns see it.                    *)
LEMMA AdminEffect ==
    ASSUME WalletTypes, AdminSteps
    PROVE  /\ account' \in J!Accounts
           /\ account'.reserved = account.reserved
           /\ UNCHANGED <<jobVars, chatVars>>
           /\ admins' \in [Admins -> AdminRows]
           /\ account' = account \/ \E a \in Admins : admins'[a].phase = "done"
<1>1. account \in J!Accounts /\ admins \in [Admins -> AdminRows]
  BY Zenon DEF WalletTypes, J!TypeOK
<1>2. PICK a \in Admins : (\E target \in AdminTargets : AdminReads(a, target)) \/ AdminWrites(a)
  BY Zenon DEF AdminSteps
<1>3. ASSUME NEW target \in AdminTargets, AdminReads(a, target)
      PROVE  /\ UNCHANGED <<account, jobVars, chatVars>>
             /\ admins' \in [Admins -> AdminRows]
  <2>1. target \in Nat
    BY WalletAssumption
  <2>2. admins' = [admins EXCEPT ![a] = [phase |-> "checked", target |-> target]]
    BY <1>3 DEF AdminReads
  <2>3. [phase |-> "checked", target |-> target] \in AdminRows
    BY <2>1 DEF AdminRows
  <2>4. admins' \in [Admins -> AdminRows]
    BY <1>1, <2>2, <2>3, Zenon
  <2> QED
    BY <1>3, <2>4, Zenon DEF AdminReads
<1>4. ASSUME AdminWrites(a)
      PROVE  /\ account' \in J!Accounts
             /\ account'.reserved = account.reserved
             /\ UNCHANGED <<jobVars, chatVars>>
             /\ admins' \in [Admins -> AdminRows]
             /\ admins'[a].phase = "done"
  <2>1. PICK n \in Nat : n = admins[a].target
    BY <1>1 DEF AdminRows
  <2>2. account' = [account EXCEPT !.balance = n]
    BY <1>4, <2>1 DEF AdminWrites
  <2>3. account' \in J!Accounts /\ account'.reserved = account.reserved
    BY <1>1, <2>2 DEF J!Accounts
  <2>4. admins' = [admins EXCEPT ![a].phase = "done"]
    BY <1>4 DEF AdminWrites
  <2>5. admins' \in [Admins -> AdminRows] /\ admins'[a].phase = "done"
    BY <1>1, <2>4 DEF AdminRows
  <2> QED
    BY <1>4, <2>3, <2>5, Zenon DEF AdminWrites
<1> QED
  BY <1>1, <1>2, <1>3, <1>4, Zenon

(* Types of one service read nothing of the other but the row itself.      *)
LEMMA JobTypesKept ==
    ASSUME J!TypeOK, account' \in J!Accounts, UNCHANGED jobVars
    PROVE  J!TypeOK'
BY Zenon DEF J!TypeOK, jobVars, J!CallsNameRows, J!Accounts

LEMMA ChatTypesKept ==
    ASSUME D!DirectTypeOK, account' \in D!Accounts, UNCHANGED chatVars
    PROVE  D!DirectTypeOK'
BY Zenon DEF D!DirectTypeOK, chatVars, D!Open, D!Accounts

LEMMA WalletTypesKept == WalletTypes /\ [NextWallet]_walletRowVars => WalletTypes'
<1> SUFFICES ASSUME WalletTypes, [NextWallet]_walletRowVars PROVE WalletTypes'
  OBVIOUS
<1>1. J!TypeOK /\ D!DirectTypeOK /\ account \in J!Accounts
  BY Zenon DEF WalletTypes, J!TypeOK
<1>2. CASE JobSteps
  <2>1. J!TypeOK'
    BY <1>1, <1>2, SameJobSteps, J!TypeStep, SameJobAssumptions, Zenon
  <2>2. account' \in D!Accounts
    BY <2>1, SameAccounts, Zenon DEF J!TypeOK
  <2>3. D!DirectTypeOK'
    BY <1>1, <1>2, <2>2, ChatTypesKept, Zenon DEF JobSteps
  <2> QED
    BY <1>2, <2>1, <2>3, Zenon DEF WalletTypes, JobSteps
<1>3. ASSUME NEW q \in Chats, Direct!ChatStep(q), UNCHANGED <<jobVars, admins>>
      PROVE  WalletTypes'
  <2>1. D!DirectTypeOK'
    BY <1>1, <1>3, SameChatSteps, D!ChatStepTypes, SameChatAssumptions, Zenon
  <2>2. account' \in J!Accounts
    BY <2>1, SameAccounts, Zenon DEF D!DirectTypeOK
  <2>3. J!TypeOK'
    BY <1>1, <1>3, <2>2, JobTypesKept, Zenon
  <2> QED
    BY <1>3, <2>1, <2>3, Zenon DEF WalletTypes
<1>4. CASE CrashProcess
  <2>1. D!DirectTypeOK'
    BY <1>1, <1>4, SameCrash, D!Crashed, SameChatAssumptions, Zenon DEF CrashProcess
  <2>2. handlers' \in [Handlers -> J!HandlerStates]
    BY <1>4 DEF CrashProcess, Analysis!IdleHandler, J!HandlerStates
  <2>3. account' = account /\ jobs' = jobs /\ ledger' = ledger /\ admins' = admins
    BY <1>4, Zenon DEF CrashProcess, Direct!CrashChats
  <2>4. J!TypeOK'
    BY <1>1, <2>2, <2>3, Zenon DEF J!TypeOK, J!CallsNameRows
  <2> QED
    BY <2>1, <2>3, <2>4, Zenon DEF WalletTypes
<1>5. CASE AdminSteps
  <2>1. /\ account' \in J!Accounts /\ UNCHANGED <<jobVars, chatVars>>
        /\ admins' \in [Admins -> AdminRows]
    BY <1>5, AdminEffect, Zenon
  <2>2. J!TypeOK' /\ D!DirectTypeOK'
    BY <1>1, <2>1, JobTypesKept, ChatTypesKept, SameAccounts, Zenon
  <2> QED
    BY <2>1, <2>2 DEF WalletTypes
<1>6. CASE UNCHANGED walletRowVars
  <2>1. account' = account /\ UNCHANGED <<jobVars, chatVars, admins>>
    BY <1>6, Zenon DEF walletRowVars
  <2>2. J!TypeOK' /\ D!DirectTypeOK'
    BY <1>1, <2>1, JobTypesKept, ChatTypesKept, SameAccounts, Zenon
  <2> QED
    BY <2>1, <2>2 DEF WalletTypes
<1> QED
  BY <1>2, <1>3, <1>4, <1>5, <1>6, Zenon DEF NextWallet, ChatSteps

-----------------------------------------------------------------------------
(* The reserved column *)

JobHolds == SumOf(Analysis!HeldBy)
ChatHolds == SumOf(Direct!ReservedBy)

(* The column is the sum of both, as long as nothing failed that no        *)
(* request cleans up after; it covers both until an answer of the database *)
(* is lost.                                                                *)
WalletSums ==
    /\ "lost" \notin faults => account.reserved >= JobHolds + ChatHolds
    /\ faults = {} => account.reserved = JobHolds + ChatHolds

LEMMA HoldsAreNumbers ==
    ASSUME WalletTypes
    PROVE  JobHolds \in Nat /\ ChatHolds \in Nat /\ account.reserved \in Nat
<1>1. J!SumOf(J!HeldBy) \in Nat
  <2>1. J!HeldBy \in [Requests -> Nat]
    BY J!HoldsType, J!CapType, SameJobAssumptions DEF WalletTypes
  <2>2. IsFiniteSet(Requests)
    BY SameJobAssumptions DEF J!ConstantsAssumption, J!IsFiniteSet, IsFiniteSet
  <2> QED
    BY <2>1, <2>2, J!SumType, SameJobAssumptions
<1>2. D!SumOf(D!ReservedBy) \in Nat
  BY D!HoldsType, SameChatAssumptions, Zenon DEF WalletTypes
<1>3. account.reserved \in Nat
  BY DEF WalletTypes, J!TypeOK, J!Accounts
<1> QED
  BY <1>1, <1>2, <1>3, SameSums, Zenon DEF JobHolds, ChatHolds

LEMMA JobStepSums ==
    ASSUME WalletTypes, WalletTypes', WalletSums, JobSteps
    PROVE  WalletSums'
<1>1. account'.reserved + JobHolds = account.reserved + JobHolds'
  <2>1. account'.reserved + J!SumOf(J!HeldBy) = account.reserved + J!SumOf(J!HeldBy')
    BY SameJobSteps, J!ReservedMoves, SameJobAssumptions, Zenon DEF WalletTypes
  <2>2. J!HeldBy' = Analysis!HeldBy'
    BY Zenon DEF J!HeldBy, Analysis!HeldBy, J!Active, Analysis!Active
  <2> QED
    BY <2>1, <2>2, SameSums, Zenon DEF JobHolds
<1>2. ChatHolds' = ChatHolds /\ faults' = faults
  BY Zenon DEF JobSteps, chatVars, ChatHolds, Direct!ReservedBy, Direct!Open
<1>3. /\ JobHolds \in Nat /\ ChatHolds \in Nat /\ account.reserved \in Nat
      /\ JobHolds' \in Nat /\ account'.reserved \in Nat
  <2>1. JobHolds' \in Nat /\ account'.reserved \in Nat
    <3>1. J!SumOf(J!HeldBy') \in Nat
      <4>1. J!HeldBy' \in [Requests -> Nat]
        BY J!CapType, SameJobAssumptions
           DEF WalletTypes, J!TypeOK, J!Jobs, J!HeldBy, J!Active
      <4>2. IsFiniteSet(Requests)
        BY SameJobAssumptions DEF J!ConstantsAssumption, J!IsFiniteSet, IsFiniteSet
      <4> QED
        BY <4>1, <4>2, J!SumType, SameJobAssumptions
    <3>2. J!HeldBy' = Analysis!HeldBy'
      BY Zenon DEF J!HeldBy, Analysis!HeldBy, J!Active, Analysis!Active
    <3>3. account'.reserved \in Nat
      BY DEF WalletTypes, J!TypeOK, J!Accounts
    <3> QED
      BY <3>1, <3>2, <3>3, SameSums, Zenon DEF JobHolds
  <2> QED
    BY <2>1, HoldsAreNumbers
<1> QED
  BY <1>1, <1>2, <1>3 DEF WalletSums

(* What the jobs hold is what the chats call others.                       *)
LEMMA SumsOfChats ==
    /\ \A others : others = JobHolds /\ others \in Nat /\ WalletTypes =>
          (D!SumsMatch(others) <=> WalletSums)
    /\ \A others : others = JobHolds' /\ others \in Nat /\ WalletTypes' =>
          (D!SumsMatch(others)' <=> WalletSums')
<1>1. ASSUME NEW others \in Nat, others = JobHolds, WalletTypes
      PROVE  D!SumsMatch(others) <=> WalletSums
  <2>1. D!SumOf(D!ReservedBy) = ChatHolds /\ ChatHolds \in Nat
    BY <1>1, SameSums, HoldsAreNumbers, Zenon DEF ChatHolds
  <2>2. ChatHolds + others = others + ChatHolds
    BY <2>1
  <2> QED
    BY <1>1, <2>1, <2>2, Zenon DEF D!SumsMatch, WalletSums
<1>2. ASSUME NEW others \in Nat, others = JobHolds', WalletTypes'
      PROVE  D!SumsMatch(others)' <=> WalletSums'
  <2>1. D!SumOf(D!ReservedBy') = ChatHolds'
    <3>1. D!ReservedBy' = Direct!ReservedBy'
      BY Zenon DEF D!ReservedBy, Direct!ReservedBy, D!Open, Direct!Open
    <3> QED
      BY <3>1, SameSums, Zenon DEF ChatHolds
  <2>2. D!SumOf(D!ReservedBy') \in Nat
    BY <1>2, D!HoldsTypeNext, SameChatAssumptions, Zenon DEF WalletTypes
  <2>3. ChatHolds' + others = others + ChatHolds'
    BY <2>1, <2>2
  <2> QED
    BY <1>2, <2>1, <2>3, Zenon DEF D!SumsMatch, WalletSums
<1> QED
  BY <1>1, <1>2, Zenon

LEMMA WalletSumsKept ==
    WalletTypes /\ WalletTypes' /\ WalletSums /\ [NextWallet]_walletRowVars => WalletSums'
<1> SUFFICES ASSUME WalletTypes, WalletTypes', WalletSums, [NextWallet]_walletRowVars
             PROVE  WalletSums'
  OBVIOUS
<1>1. PICK others \in Nat : others = JobHolds
  BY HoldsAreNumbers
<1>2. D!SumsMatch(others)
  BY <1>1, SumsOfChats, Zenon
<1>3. ASSUME jobs' = jobs, D!SumsMatch(others)' PROVE WalletSums'
  <2>1. JobHolds' = JobHolds
    BY <1>3, Zenon DEF JobHolds, Analysis!HeldBy, Analysis!Active
  <2> QED
    BY <1>1, <1>3, <2>1, SumsOfChats, Zenon
<1>4. ASSUME NEW q \in Chats, Direct!ChatStep(q), UNCHANGED <<jobVars, admins>>
      PROVE  WalletSums'
  <2>1. D!DirectTypeOK /\ D!DirectTypeOK' /\ D!ChatStep(q)
    BY <1>4, SameChatSteps, Zenon DEF WalletTypes
  <2>2. D!SumsMatch(others)'
    BY <1>2, <2>1, D!ChatStepSums, SameChatAssumptions, Zenon
  <2> QED
    BY <1>3, <1>4, <2>2, Zenon DEF jobVars
<1>5. CASE CrashProcess
  <2>1. D!DirectTypeOK /\ D!CrashChats /\ jobs' = jobs
    BY <1>5, SameCrash, Zenon DEF CrashProcess, WalletTypes
  <2>2. D!SumsMatch(others)'
    BY <1>2, <2>1, D!CrashSums, SameChatAssumptions, Zenon
  <2> QED
    BY <1>3, <2>1, <2>2, Zenon
<1>6. CASE AdminSteps \/ UNCHANGED walletRowVars
  <2>1. account'.reserved = account.reserved /\ UNCHANGED <<jobVars, chatVars>>
    BY <1>6, AdminEffect, Zenon DEF walletRowVars
  <2>2. JobHolds' = JobHolds /\ ChatHolds' = ChatHolds /\ faults' = faults
    BY <2>1, Zenon DEF JobHolds, ChatHolds, jobVars, chatVars, Analysis!HeldBy, Analysis!Active,
                       Direct!ReservedBy, Direct!Open
  <2> QED
    BY <2>1, <2>2 DEF WalletSums
<1> QED
  BY <1>4, <1>5, <1>6, JobStepSums, Zenon DEF NextWallet, ChatSteps

LEMMA WalletSumsInitially == InitWallet => WalletSums
<1> SUFFICES ASSUME InitWallet PROVE WalletSums
  OBVIOUS
<1>1. D!SumOf(D!ReservedBy) = 0
  BY D!NoneHolds, SameChatAssumptions
     DEF InitWallet, Direct!NewChat, D!Open
<1>2. J!SumOf(J!HeldBy) = 0
  <2>1. J!HeldBy \in [Requests -> Nat] /\ \A r \in Requests : J!HeldBy[r] = 0
    BY DEF InitWallet, Analysis!Init, Analysis!NoJob, J!HeldBy, J!Active
  <2> QED
    BY <2>1, J!SumOfZeros, SameJobAssumptions
<1>3. account.reserved = 0
  BY DEF InitWallet, Analysis!Init
<1> QED
  BY <1>1, <1>2, <1>3, SameSums DEF WalletSums, JobHolds, ChatHolds

LEMMA WalletKeepsSums == SpecWallet => [](WalletTypes /\ WalletSums)
<1>1. InitWallet => WalletTypes /\ WalletSums
  BY WalletTypesInitially, WalletSumsInitially
<1>2. WalletTypes /\ WalletSums /\ [NextWallet]_walletRowVars => (WalletTypes /\ WalletSums)'
  BY WalletTypesKept, WalletSumsKept
<1> QED
  BY <1>1, <1>2, PTL DEF SpecWallet

(* For any number of jobs, chats and administrators: the one column is     *)
(* what both services reserved, until something fails that no request can  *)
(* clean up after.                                                         *)
THEOREM ColumnServesBoth == SpecWallet => []ReservedMatchesBoth
<1>1. WalletSums => ReservedMatchesBoth
  BY Zenon DEF WalletSums, ReservedMatchesBoth, JobHolds, ChatHolds
<1> QED
  BY <1>1, WalletKeepsSums, PTL

(* No open job finds its reservation gone, whichever processes die and     *)
(* whatever administrators do to the balance: complete and fail never stop *)
(* at a column that contains too little.                                   *)
THEOREM JobsCanRelease == SpecWallet => []OpenJobsCanRelease
<1>1. WalletTypes /\ WalletSums => OpenJobsCanRelease
  <2>1. SUFFICES ASSUME WalletTypes, WalletSums, "lost" \notin faults,
                        NEW r \in Requests, Analysis!Active(r)
                 PROVE  account.reserved >= jobs[r].reserved
    BY Zenon DEF OpenJobsCanRelease
  <2>2. PICK held \in [Requests -> Nat] : held = J!HeldBy
    <3>1. J!HeldBy \in [Requests -> Nat]
      BY <2>1, J!HoldsType, J!CapType, SameJobAssumptions DEF WalletTypes
    <3> QED
      BY <3>1, Zenon
  <2>3. held[r] = jobs[r].reserved
    BY <2>1, <2>2 DEF J!HeldBy, J!Active, Analysis!Active
  <2>4. held[r] <= J!SumOf(held)
    BY SameJobAssumptions, J!SumCovers DEF J!ConstantsAssumption
  <2>5. J!SumOf(held) = JobHolds
    BY <2>2, SameSums, Zenon DEF JobHolds
  <2>6. /\ JobHolds \in Nat /\ ChatHolds \in Nat /\ account.reserved \in Nat
        /\ account.reserved >= JobHolds + ChatHolds
        /\ held[r] \in Nat
    BY <2>1, HoldsAreNumbers DEF WalletSums
  <2> QED
    BY <2>3, <2>4, <2>5, <2>6
<1> QED
  BY <1>1, WalletKeepsSums, PTL

-----------------------------------------------------------------------------
(* The balance *)

LEMMA WithinBalanceKept ==
    WalletTypes /\ WalletTypes' /\ BothStayWithinBalance /\ [NextWallet]_walletRowVars
      => BothStayWithinBalance'
<1> SUFFICES ASSUME WalletTypes, BothStayWithinBalance, [NextWallet]_walletRowVars,
                    \A a \in Admins : admins'[a].phase # "done"
             PROVE  account'.reserved <= account'.balance
  BY DEF BothStayWithinBalance
<1>1. ASSUME admins' = admins PROVE account.reserved <= account.balance
  BY <1>1 DEF BothStayWithinBalance
<1>2. CASE JobSteps
  <2>1. account.reserved <= account.balance
    BY <1>1, <1>2, Zenon DEF JobSteps
  <2> QED
    BY <1>2, <2>1, SameJobSteps, J!WithinStep, SameJobAssumptions, Zenon
       DEF WalletTypes, J!ReservedWithinBalance
<1>3. CASE ChatSteps
  <2>1. account.reserved <= account.balance
    BY <1>1, <1>3, Zenon DEF ChatSteps
  <2> QED
    BY <1>3, <2>1, SameChatSteps, D!ChatStepBalance, SameChatAssumptions, Zenon
       DEF WalletTypes, ChatSteps
<1>4. CASE CrashProcess
  BY <1>1, <1>4, Zenon DEF CrashProcess, Direct!CrashChats
<1>5. CASE AdminSteps
  <2>1. PICK a \in Admins : \/ \E target \in AdminTargets : AdminReads(a, target)
                            \/ AdminWrites(a)
    BY <1>5, Zenon DEF AdminSteps
  <2>2. admins \in [Admins -> AdminRows]
    BY DEF WalletTypes
  <2>3. ~AdminWrites(a)
    BY <2>2 DEF AdminWrites, AdminRows
  <2>4. PICK target \in AdminTargets : AdminReads(a, target)
    BY <2>1, <2>3, Zenon
  <2>5. \A b \in Admins : admins[b].phase # "done"
    BY <2>2, <2>4 DEF AdminReads
  <2> QED
    BY <2>4, <2>5, Zenon DEF BothStayWithinBalance, AdminReads
<1>6. CASE UNCHANGED walletRowVars
  BY <1>1, <1>6, Zenon DEF walletRowVars
<1> QED
  BY <1>2, <1>3, <1>4, <1>5, <1>6, Zenon DEF NextWallet

(* The two services, whose checks do not know of each other, never promise *)
(* more than the balance between them; only setting it by hand does, which *)
(* compares with a column that was read before.                            *)
THEOREM ServicesShareBalance == SpecWallet => []BothStayWithinBalance
<1>1. InitWallet => BothStayWithinBalance
  BY DEF InitWallet, Analysis!Init, BothStayWithinBalance
<1>2. WalletTypes /\ WalletTypes' /\ BothStayWithinBalance /\ [NextWallet]_walletRowVars
        => BothStayWithinBalance'
  BY WithinBalanceKept
<1> QED
  BY <1>1, <1>2, WalletKeepsSums, PTL DEF SpecWallet
=============================================================================
