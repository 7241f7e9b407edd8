---------------------------- MODULE MemberWallet ----------------------------
(***************************************************************************)
(* One credit row and all who write it: the analysis jobs (AnalysisJobs),  *)
(* the chat requests billed one by one (DirectCredit), invoices that are   *)
(* paid and refunded, and an administrator who sets the balance of the     *)
(* member by hand (AuthService.updateMember).  Provider calls of jobs do   *)
(* not touch the row and are left to AnalysisJobs.                         *)
(***************************************************************************)
EXTENDS Sums

CONSTANTS Requests, Handlers, Policy, BillingSources, StartInputs,
          TopUpAmounts, MaxGranted,
          Chats, RequestIds, Estimates, Charges, MaxEstimate,
          Admins,         \* requests to updateMember with a wallet amount
          AdminTargets    \* the balances administrators ask for

VARIABLES account, jobs, ledger, handlers, postings, chats, faults,
          admins          \* admins[a]: where updateMember is with request a

jobVars == <<jobs, ledger, handlers>>
chatVars == <<postings, chats, faults>>
walletRowVars == <<account, jobVars, chatVars, admins>>

Analysis == INSTANCE AnalysisJobs WITH
    Calls <- {}, ResponseIds <- {}, ActualCosts <- <<>>, Concurrency <- 1,
    RepeatedIds <- FALSE, usage <- <<>>, calls <- <<>>

Direct == INSTANCE DirectCredit WITH Deposits <- {}, MaxDeposited <- 0

ASSUME WalletAssumption ==
    /\ Analysis!ConstantsAssumption
    /\ Direct!DirectAssumption
    /\ AdminTargets \subseteq Nat

NewUpdate == [phase |-> "idle", target |-> 0]

InitWallet ==
    /\ Analysis!Init
    /\ postings = [i \in RequestIds |-> {}]
    /\ chats = [q \in Chats |-> Direct!NewChat]
    /\ faults = {}
    /\ admins = [a \in Admins |-> NewUpdate]

JobSteps ==
    /\ \/ Analysis!PaymentStep
       \/ Analysis!ClientStep
       \/ \E r \in Requests : Analysis!GrowStale(r)
       \/ \E h \in Handlers : Analysis!HandlerStep(h)
    /\ UNCHANGED <<chatVars, admins>>

ChatSteps ==
    /\ \E q \in Chats : Direct!ChatStep(q)
    /\ UNCHANGED <<jobVars, admins>>

(* The API process dies with the requests of both services. *)
CrashProcess ==
    /\ Direct!CrashChats
    /\ handlers' = [h \in Handlers |-> Analysis!IdleHandler]
    /\ UNCHANGED <<jobs, ledger, admins>>

(* updateMember reads the row and compares outside its transaction ...      *)
AdminReads(a, target) ==
    /\ admins[a].phase = "idle"
    /\ target >= account.reserved
    /\ admins' = [admins EXCEPT ![a] = [phase |-> "checked", target |-> target]]
    /\ UNCHANGED <<account, jobVars, chatVars>>

(* Mutant: setting the balance starts the row afresh. *)
AdminResets(a) ==
    /\ admins[a].phase = "checked"
    /\ account' = [account EXCEPT !.balance = admins[a].target, !.reserved = 0]
    /\ admins' = [admins EXCEPT ![a].phase = "done"]
    /\ UNCHANGED <<jobVars, chatVars>>

(* ... and then sets the balance to the amount asked for.                   *)
AdminWrites(a) ==
    /\ admins[a].phase = "checked"
    /\ account' = [account EXCEPT !.balance = admins[a].target]
    /\ admins' = [admins EXCEPT ![a].phase = "done"]
    /\ UNCHANGED <<jobVars, chatVars>>

AdminSteps == \E a \in Admins : \/ \E target \in AdminTargets : AdminReads(a, target)
                                \/ AdminWrites(a)

NextWallet == JobSteps \/ ChatSteps \/ CrashProcess \/ AdminSteps

SpecWallet == InitWallet /\ [][NextWallet]_walletRowVars

-----------------------------------------------------------------------------
(* The one reserved column serves two services that know nothing of each   *)
(* other; it is what the open jobs and the open chats reserved together.   *)
ReservedMatchesBoth ==
    faults = {} =>
        account.reserved = SumOf(Analysis!HeldBy)
                           + SumOf(Direct!ReservedBy)

(* As long as no administrator sets the balance by hand, the two services  *)
(* together never promise money that is not there.                         *)
BothStayWithinBalance ==
    (\A a \in Admins : admins[a].phase # "done") => account.reserved <= account.balance

(* analysis-job.service.ts checks before it releases a reservation that    *)
(* the reserved column still contains it ("Reservation wallet tidak        *)
(* konsisten"): neither dying processes nor administrators make an open    *)
(* job find its reservation gone.                                          *)
OpenJobsCanRelease ==
    "lost" \notin faults =>
        \A r \in Requests : Analysis!Active(r) => account.reserved >= jobs[r].reserved
=============================================================================
