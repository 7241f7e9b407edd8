------------------------- MODULE AnalysisJobsProofs -------------------------
(***************************************************************************)
(* The accounting of the credit row, for any number of members' requests,  *)
(* handlers and provider calls and for every policy that passes            *)
(* validation: types, reserved column, balance and charges.                *)
(***************************************************************************)
EXTENDS AnalysisJobs, AmountProofs

(* The cap of a valid policy is an amount.                                 *)
LEMMA CapType == MaxCharge \in Nat
  BY ConstantsAssumption, PolicyFields DEF MaxCharge

(* What a job can be charged and what it reserves at its start.            *)
LEMMA JobQuote ==
    ASSUME TypeOK, NEW r \in Requests, NEW usable \in BOOLEAN
    PROVE  /\ Quote(r, usable).userCharge \in Nat
           /\ Quote(r, usable).capSafe => Quote(r, usable).userCharge \in 0..MaxCharge
<1>1. PICK cost \in Nat : cost = jobs[r].cost
  BY DEF TypeOK, Jobs
<1>2. /\ QuoteJobCost(Policy, cost, usable).userCharge \in Nat
      /\ QuoteJobCost(Policy, cost, usable).capSafe
            => QuoteJobCost(Policy, cost, usable).userCharge <= Policy.maximumJobCharge
  BY ConstantsAssumption, QuoteIsBounded, Zenon
<1>3. PICK charge \in Nat : charge = QuoteJobCost(Policy, cost, usable).userCharge
  BY <1>2, Zenon
<1>4. charge <= MaxCharge => charge \in 0..MaxCharge
  BY CapType
<1> QED
  BY <1>1, <1>2, <1>3, <1>4, Zenon DEF Quote, MaxCharge

(* What a started job reserves lies within the cap.                        *)
LEMMA StartReservation ==
    ASSUME NEW input \in StartInputs
    PROVE  EstimateAnalysisJob(Policy, input).reservation \in 0..MaxCharge
<1>1. input \in [seconds : Nat, clips : Nat]
  BY ConstantsAssumption
<1>2. PICK cost \in Nat : cost = EstimatedProviderCost(Policy, input.seconds, input.clips)
  BY <1>1, ConstantsAssumption, EstimateIsBounded
<1>3. cost <= EstimatedProviderCost(Policy, input.seconds, input.clips)
  BY <1>2
<1> QED
  BY <1>1, <1>3, ConstantsAssumption, EstimateCoversJob, Zenon DEF MaxCharge

-----------------------------------------------------------------------------
(* Types *)

(* The row of a request that has no job is a row.                          *)
LEMMA NoJobType == NoJob \in Jobs
  BY CapType DEF NoJob, Jobs, Statuses

(* The empty database has the types.                                       *)
LEMMA InitType == Init => TypeOK
<1> SUFFICES ASSUME Init PROVE TypeOK
  OBVIOUS
<1>1. account \in Accounts
  BY DEF Init, Accounts
<1>2. NoJob \in Jobs
  BY NoJobType
<1>3. NoRows \in LedgerRows
  BY DEF NoRows, LedgerRows
<1>4. NewCall \in CallStates
  BY DEF NewCall, CallStates, Phases
<1>5. IdleHandler \in HandlerStates
  BY DEF IdleHandler, HandlerStates
<1>6. \A c \in Calls : calls[c].phase = "idle"
  BY DEF Init, NewCall
<1> QED
  BY <1>1, <1>2, <1>3, <1>4, <1>5, <1>6 DEF Init, TypeOK, CallsNameRows

(* The rows after each way of closing or opening a job.                    *)
LEMMA CompleteType ==
    ASSUME TypeOK, NEW r \in Requests, NEW usable \in BOOLEAN, Complete(r, usable)
    PROVE  account' \in Accounts /\ jobs' \in [Requests -> Jobs]
             /\ ledger' \in [Requests -> LedgerRows]
<1>1. PICK charge \in 0..MaxCharge :
         charge = IF WalletBilled(r) THEN Quote(r, usable).userCharge ELSE 0
  <2>1. Quote(r, usable).capSafe
    BY Zenon DEF Complete, Completable
  <2>2. Quote(r, usable).userCharge \in 0..MaxCharge /\ 0 \in 0..MaxCharge
    BY <2>1, JobQuote, CapType
  <2> QED
    BY <2>2
<1>2. PICK held \in 0..MaxCharge : held = jobs[r].reserved
  BY DEF TypeOK, Jobs
<1>3. PICK released \in 0..MaxCharge : released = Larger(0, held - charge)
  BY CapType DEF Larger
<1>4. /\ account.reserved >= held
      /\ account.balance >= charge
      /\ account' = [account EXCEPT !.balance = @ - charge,
                                    !.reserved = @ - held,
                                    !.spent = @ + charge]
      /\ ledger' = [ledger EXCEPT ![r].release = @ + released, ![r].settle = @ + charge]
      /\ jobs' = [jobs EXCEPT ![r].status = "COMPLETED", ![r].final = charge,
                              ![r].released = released, ![r].stale = FALSE]
  BY <1>1, <1>2, <1>3, Zenon DEF Complete
<1>5. account' \in Accounts
  <2>1. PICK x \in Nat : x = account.balance - charge
    BY <1>4 DEF TypeOK, Accounts
  <2>2. PICK y \in Nat : y = account.reserved - held
    BY <1>4 DEF TypeOK, Accounts
  <2>3. PICK z \in Nat : z = account.spent + charge
    BY CapType DEF TypeOK, Accounts
  <2>4. account' = [account EXCEPT !.balance = x, !.reserved = y, !.spent = z]
    BY <1>4, <2>1, <2>2, <2>3, Zenon
  <2> QED
    BY <2>4 DEF TypeOK, Accounts
<1>6. ledger' \in [Requests -> LedgerRows]
  <2>1. PICK x \in Nat : x = ledger[r].release + released
    BY CapType DEF TypeOK, LedgerRows
  <2>2. PICK y \in Nat : y = ledger[r].settle + charge
    BY CapType DEF TypeOK, LedgerRows
  <2>3. ledger' = [ledger EXCEPT ![r].release = x, ![r].settle = y]
    BY <1>4, <2>1, <2>2, Zenon
  <2> QED
    BY <2>3 DEF TypeOK, LedgerRows
<1>7. jobs' \in [Requests -> Jobs]
  <2>1. jobs \in [Requests -> Jobs] /\ jobs[r] \in Jobs
    BY DEF TypeOK
  <2>2. [jobs[r] EXCEPT !.status = "COMPLETED", !.final = charge,
                        !.released = released, !.stale = FALSE] \in Jobs
    BY <2>1 DEF Jobs, Statuses
  <2> QED
    BY <1>4, <2>1, <2>2
<1> QED
  BY <1>5, <1>6, <1>7

(* The same after failPersistent.                                          *)
LEMMA FailType ==
    ASSUME TypeOK, NEW r \in Requests, FailJob(r)
    PROVE  account' \in Accounts /\ jobs' \in [Requests -> Jobs]
             /\ ledger' \in [Requests -> LedgerRows]
<1>1. PICK held \in 0..MaxCharge : held = jobs[r].reserved
  BY DEF TypeOK, Jobs
<1>2. /\ account.reserved >= held
      /\ account' = [account EXCEPT !.reserved = @ - held]
      /\ ledger' = [ledger EXCEPT ![r].failedRelease = @ + held]
      /\ jobs' = [jobs EXCEPT ![r].status = "FAILED", ![r].released = held,
                              ![r].stale = FALSE]
  BY <1>1, Zenon DEF FailJob
<1>3. account' \in Accounts
  <2>1. PICK y \in Nat : y = account.reserved - held
    BY <1>2 DEF TypeOK, Accounts
  <2>2. account' = [account EXCEPT !.reserved = y]
    BY <1>2, <2>1, Zenon
  <2> QED
    BY <2>2 DEF TypeOK, Accounts
<1>4. ledger' \in [Requests -> LedgerRows]
  <2>1. PICK x \in Nat : x = ledger[r].failedRelease + held
    BY CapType DEF TypeOK, LedgerRows
  <2>2. ledger' = [ledger EXCEPT ![r].failedRelease = x]
    BY <1>2, <2>1, Zenon
  <2> QED
    BY <2>2 DEF TypeOK, LedgerRows
<1>5. jobs' \in [Requests -> Jobs]
  <2>1. jobs \in [Requests -> Jobs] /\ jobs[r] \in Jobs
    BY DEF TypeOK
  <2>2. [jobs[r] EXCEPT !.status = "FAILED", !.released = held, !.stale = FALSE] \in Jobs
    BY <2>1 DEF Jobs, Statuses
  <2> QED
    BY <1>2, <2>1, <2>2
<1> QED
  BY <1>3, <1>4, <1>5

(* The same after the transaction of startPersistent.                      *)
LEMMA CreateType ==
    ASSUME TypeOK, NEW h \in Handlers, NEW r \in Requests, NEW input \in StartInputs,
           NEW source \in BillingSources, CreateJob(h, r, input, source)
    PROVE  account' \in Accounts /\ jobs' \in [Requests -> Jobs]
             /\ ledger' \in [Requests -> LedgerRows]
<1>1. PICK held \in 0..MaxCharge :
         held = IF source \in WalletSources
                THEN EstimateAnalysisJob(Policy, input).reservation ELSE 0
  <2>1. EstimateAnalysisJob(Policy, input).reservation \in 0..MaxCharge
        /\ 0 \in 0..MaxCharge
    BY StartReservation, CapType
  <2> QED
    BY <2>1
<1>2. /\ account' = [account EXCEPT !.reserved = @ + held]
      /\ ledger' = [ledger EXCEPT ![r].reserve = held]
      /\ jobs' = [jobs EXCEPT ![r] = [NoJob EXCEPT !.status = "ACTIVE", !.source = source,
                                                   !.reserved = held]]
  BY <1>1, Zenon DEF CreateJob
<1>3. account' \in Accounts
  <2>1. PICK y \in Nat : y = account.reserved + held
    BY CapType DEF TypeOK, Accounts
  <2>2. account' = [account EXCEPT !.reserved = y]
    BY <1>2, <2>1, Zenon
  <2> QED
    BY <2>2 DEF TypeOK, Accounts
<1>4. ledger' \in [Requests -> LedgerRows]
  BY <1>2, CapType DEF TypeOK, LedgerRows
<1>5. jobs' \in [Requests -> Jobs]
  <2>1. source \in FreeSources \union WalletSources
    BY ConstantsAssumption
  <2>2. [NoJob EXCEPT !.status = "ACTIVE", !.source = source, !.reserved = held] \in Jobs
    BY <2>1, NoJobType DEF Jobs, Statuses
  <2> QED
    BY <1>2, <2>2, Zenon DEF TypeOK
<1> QED
  BY <1>3, <1>4, <1>5

(* A provider call changes itself, and its job or its usage row.           *)
LEMMA CallType ==
    ASSUME TypeOK, NEW c \in Calls, CallStep(c)
    PROVE  TypeOK'
<1>1. calls \in [Calls -> CallStates] /\ calls[c] \in CallStates
  BY DEF TypeOK
<1>2. NewCall \in CallStates /\ OverCall \in CallStates /\ OverCall.phase = "over"
  BY DEF NewCall, OverCall, CallStates, Phases
<1>3. ASSUME NEW call \in CallStates,
             calls' = [calls EXCEPT ![c] = call],
             call.phase \notin {"idle", "over"} =>
                /\ call.job \in Requests
                /\ call.phase # "routing" => call.id \in ResponseIds
      PROVE  calls' \in [Calls -> CallStates] /\ CallsNameRows'
  BY <1>1, <1>3 DEF TypeOK, CallsNameRows
<1>4. ASSUME NEW r \in Requests, NEW cost \in Nat, jobs' = [jobs EXCEPT ![r] = Charged(@, cost)]
      PROVE  jobs' \in [Requests -> Jobs]
  <2>1. jobs \in [Requests -> Jobs] /\ jobs[r] \in Jobs
    BY DEF TypeOK
  <2>2. PICK n \in Nat : n = jobs[r].requestCount + 1
    BY <2>1 DEF Jobs
  <2>3. [jobs[r] EXCEPT !.cost = cost, !.requestCount = n, !.stale = FALSE] \in Jobs
    BY <2>1 DEF Jobs
  <2>4. Charged(jobs[r], cost) \in Jobs
    BY <2>2, <2>3, Zenon DEF Charged
  <2> QED
    BY <1>4, <2>1, <2>4
<1>5. ASSUME NEW r \in Requests, NEW estimate \in DOMAIN ActualCosts, NEW optional \in BOOLEAN,
             AdmitCall(c, r, estimate, optional)
      PROVE  TypeOK'
  <2>1. PICK call : call = [NewCall EXCEPT !.phase = "routing", !.job = r, !.estimate = estimate]
    OBVIOUS
  <2>2. estimate \in Nat
    BY ConstantsAssumption
  <2>3. call \in CallStates /\ call.phase = "routing" /\ call.job = r
    BY <2>1, <2>2 DEF NewCall, CallStates, Phases
  <2>4. calls' = [calls EXCEPT ![c] = call]
    BY <1>5, <2>1, Zenon DEF AdmitCall
  <2>5. calls' \in [Calls -> CallStates] /\ CallsNameRows'
    BY <2>3, <2>4, <1>3
  <2> QED
    BY <1>5, <2>5 DEF AdmitCall, TypeOK
<1>6. ASSUME NEW id \in ResponseIds,
             NEW cost \in UNION {ActualCosts[e] : e \in DOMAIN ActualCosts},
             ProviderAnswers(c, id, cost)
      PROVE  TypeOK'
  <2>1. cost \in Nat
    BY ConstantsAssumption
  <2>2. PICK call : call = [calls[c] EXCEPT !.phase = "answered", !.id = id, !.cost = cost]
    OBVIOUS
  <2>3. calls[c].phase = "routing" /\ calls[c].job \in Requests
    BY <1>6 DEF ProviderAnswers, TypeOK, CallsNameRows
  <2>4. call \in CallStates /\ call.phase = "answered" /\ call.job \in Requests
          /\ call.id \in ResponseIds
    BY <1>1, <2>1, <2>2, <2>3 DEF CallStates, Phases
  <2>5. calls' = [calls EXCEPT ![c] = call]
    BY <1>6, <2>2, <1>1 DEF ProviderAnswers
  <2>6. calls' \in [Calls -> CallStates] /\ CallsNameRows'
    BY <2>4, <2>5, <1>3
  <2> QED
    BY <1>6, <2>6 DEF ProviderAnswers, TypeOK
<1>7. ASSUME CallFails(c) PROVE TypeOK'
  <2>1. calls' = [calls EXCEPT ![c] = OverCall]
    BY <1>7 DEF CallFails
  <2>2. calls' \in [Calls -> CallStates] /\ CallsNameRows'
    BY <2>1, <1>2, <1>3
  <2> QED
    BY <1>7, <2>2 DEF CallFails, TypeOK
<1>8. ASSUME RecordUsage(c) PROVE TypeOK'
  <2>1. PICK r \in Requests, id \in ResponseIds, cost \in Nat :
           r = calls[c].job /\ id = calls[c].id /\ cost = calls[c].cost
    BY <1>1, <1>8 DEF RecordUsage, TypeOK, CallsNameRows, CallStates
  <2>2. PICK sum \in Nat : sum = jobs[r].cost + cost
    BY DEF TypeOK, Jobs
  <2>3. jobs' = [jobs EXCEPT ![r] = Charged(@, sum)]
    BY <1>8, <2>1, <2>2, Zenon DEF RecordUsage
  <2>4. usage' = [usage EXCEPT ![id] = [job |-> r, cost |-> cost]]
        /\ calls' = [calls EXCEPT ![c] = OverCall]
        /\ UNCHANGED <<account, ledger, handlers>>
    BY <1>8, <2>1, Zenon DEF RecordUsage
  <2>5. jobs' \in [Requests -> Jobs]
    BY <2>3, <1>4
  <2>6. usage' \in [ResponseIds -> Usages \union {NoUsage}]
    BY <2>4 DEF TypeOK, Usages
  <2>7. calls' \in [Calls -> CallStates] /\ CallsNameRows'
    BY <2>4, <1>2, <1>3
  <2> QED
    BY <2>4, <2>5, <2>6, <2>7 DEF TypeOK
<1>9. ASSUME RecordDuplicate(c) PROVE TypeOK'
  <2>1. PICK call : call = [calls[c] EXCEPT !.phase = "unaggregated"]
    OBVIOUS
  <2>2. calls[c].job \in Requests /\ calls[c].id \in ResponseIds
    BY <1>9 DEF RecordDuplicate, TypeOK, CallsNameRows
  <2>3. call \in CallStates /\ call.job \in Requests /\ call.id \in ResponseIds
    BY <1>1, <2>1, <2>2 DEF CallStates, Phases
  <2>4. calls' = [calls EXCEPT ![c] = call]
    BY <1>9, <2>1, <1>1 DEF RecordDuplicate
  <2>5. calls' \in [Calls -> CallStates] /\ CallsNameRows'
    BY <2>3, <2>4, <1>3
  <2> QED
    BY <1>9, <2>5 DEF RecordDuplicate, TypeOK
<1>10. ASSUME ReadJobCost(c) PROVE TypeOK'
  <2>1. calls[c].job \in Requests /\ calls[c].id \in ResponseIds
    BY <1>10 DEF ReadJobCost, TypeOK, CallsNameRows
  <2>2. PICK cost \in Nat : cost = jobs[calls[c].job].cost
    BY <2>1 DEF TypeOK, Jobs
  <2>3. PICK call : call = [calls[c] EXCEPT !.phase = "writing", !.read = cost]
    OBVIOUS
  <2>4. call \in CallStates /\ call.job \in Requests /\ call.id \in ResponseIds
    BY <1>1, <2>1, <2>3 DEF CallStates, Phases
  <2>5. \/ calls' = [calls EXCEPT ![c] = call]
        \/ calls' = [calls EXCEPT ![c] = OverCall]
    BY <1>10, <2>2, <2>3, Zenon DEF ReadJobCost
  <2>6. calls' \in [Calls -> CallStates] /\ CallsNameRows'
    BY <2>4, <2>5, <1>2, <1>3
  <2> QED
    BY <1>10, <2>6 DEF ReadJobCost, TypeOK
<1>11. ASSUME WriteJobCost(c) PROVE TypeOK'
  <2>1. PICK r \in Requests, sum \in Nat :
           r = calls[c].job /\ sum = calls[c].read + calls[c].cost
    BY <1>1, <1>11 DEF WriteJobCost, TypeOK, CallsNameRows, CallStates
  <2>2. /\ jobs' = [jobs EXCEPT ![r] = Charged(@, sum)]
        /\ calls' = [calls EXCEPT ![c] = OverCall]
        /\ UNCHANGED <<account, ledger, usage, handlers>>
    BY <1>11, <2>1, Zenon DEF WriteJobCost
  <2>3. jobs' \in [Requests -> Jobs]
    BY <2>2, <1>4
  <2>4. calls' \in [Calls -> CallStates] /\ CallsNameRows'
    BY <2>2, <1>2, <1>3
  <2> QED
    BY <2>2, <2>3, <2>4 DEF TypeOK
<1> QED
  BY <1>5, <1>6, <1>7, <1>8, <1>9, <1>10, <1>11 DEF CallStep

(* A handler changes itself, and a job when it recovers or creates one.    *)
LEMMA HandlerType ==
    ASSUME TypeOK, NEW h \in Handlers, HandlerStep(h)
    PROVE  TypeOK'
<1>1. /\ handlers \in [Handlers -> HandlerStates]
      /\ handlers[h] \in HandlerStates /\ handlers[h].todo \subseteq Requests
  BY DEF TypeOK, HandlerStates
<1>2. IdleHandler \in HandlerStates
  BY DEF IdleHandler, HandlerStates
<1>3. StaleJobs \subseteq Requests
  BY DEF StaleJobs
<1>4. ASSUME NEW next \in HandlerStates, handlers' = [handlers EXCEPT ![h] = next]
      PROVE  handlers' \in [Handlers -> HandlerStates]
  BY <1>1, <1>4
<1>5. ASSUME NEW r \in Requests, Drop(h, r)
      PROVE  handlers' \in [Handlers -> HandlerStates]
  <2>1. PICK rest \in SUBSET Requests : rest = handlers[h].todo \ {r}
    BY <1>1
  <2>2. [handlers[h] EXCEPT !.todo = rest] \in HandlerStates
    BY <1>1 DEF HandlerStates
  <2>3. handlers' = [handlers EXCEPT ![h] = [handlers[h] EXCEPT !.todo = rest]]
    BY <1>5, <2>1 DEF Drop
  <2> QED
    BY <2>2, <2>3, <1>4
<1>6. CASE BeginSummary(h) \/ EndSummary(h)
  <2>1. [op |-> "summary", request |-> {}, todo |-> StaleJobs] \in HandlerStates
    BY <1>3 DEF HandlerStates
  <2>2. handlers' \in [Handlers -> HandlerStates]
    BY <1>6, <1>2, <1>4, <2>1 DEF BeginSummary, EndSummary
  <2> QED
    BY <1>6, <2>2 DEF BeginSummary, EndSummary, TypeOK, CallsNameRows
<1>7. ASSUME NEW r \in Requests, BeginStart(h, r) PROVE TypeOK'
  <2>1. [op |-> "start", request |-> r, todo |-> StaleJobs] \in HandlerStates
    BY <1>3 DEF HandlerStates
  <2>2. handlers' \in [Handlers -> HandlerStates]
    BY <1>7, <1>4, <2>1 DEF BeginStart
  <2> QED
    BY <1>7, <2>2 DEF BeginStart, TypeOK, CallsNameRows
<1>8. ASSUME NEW r \in Requests, RecoverJob(h, r) PROVE TypeOK'
  <2>1. FailJob(r) /\ Drop(h, r)
    BY <1>8 DEF RecoverJob
  <2> QED
    BY <1>5, <2>1, FailType DEF FailJob, TypeOK, CallsNameRows
<1>9. ASSUME NEW r \in Requests, SkipJob(h, r) PROVE TypeOK'
  BY <1>5, <1>9 DEF SkipJob, TypeOK, CallsNameRows
<1>10. ASSUME NEW r \in Requests, StartWithoutJob(h, r) PROVE TypeOK'
  BY <1>2, <1>4, <1>10 DEF StartWithoutJob, TypeOK, CallsNameRows
<1>11. ASSUME NEW r \in Requests, NEW input \in StartInputs, NEW source \in BillingSources,
              CreateJob(h, r, input, source)
       PROVE  TypeOK'
  <2>1. /\ handlers' = [handlers EXCEPT ![h] = IdleHandler]
        /\ UNCHANGED <<usage, calls>>
    BY <1>11, Zenon DEF CreateJob
  <2>2. handlers' \in [Handlers -> HandlerStates]
    BY <1>2, <1>4, <2>1
  <2> QED
    BY <1>11, <2>1, <2>2, CreateType DEF TypeOK, CallsNameRows
<1> QED
  BY <1>6, <1>7, <1>8, <1>9, <1>10, <1>11 DEF HandlerStep

(* Every step keeps the types.                                             *)
LEMMA TypeStep == TypeOK /\ [Next]_vars => TypeOK'
<1> SUFFICES ASSUME TypeOK, [Next]_vars PROVE TypeOK'
  OBVIOUS
<1>1. ASSUME NEW amount \in TopUpAmounts, TopUp(amount) \/ RefundTopUp(amount)
      PROVE  TypeOK'
  <2>1. amount \in Nat
    BY ConstantsAssumption
  <2>2. CASE TopUp(amount)
    <3>1. PICK x \in Nat, y \in Nat :
             x = account.balance + amount /\ y = account.granted + amount
      BY <2>1 DEF TypeOK, Accounts
    <3>2. account' = [account EXCEPT !.balance = x, !.granted = y]
      BY <2>2, <3>1, Zenon DEF TopUp
    <3>3. account' \in Accounts
      BY <3>2 DEF TypeOK, Accounts
    <3> QED
      BY <2>2, <3>3 DEF TopUp, TypeOK, CallsNameRows
  <2>3. CASE RefundTopUp(amount)
    <3>1. PICK x \in Nat, y \in Nat :
             x = account.balance - amount /\ y = account.granted - amount
      BY <2>1, <2>3 DEF TypeOK, Accounts, RefundTopUp
    <3>2. account' = [account EXCEPT !.balance = x, !.granted = y]
      BY <2>3, <3>1, Zenon DEF RefundTopUp
    <3>3. account' \in Accounts
      BY <3>2 DEF TypeOK, Accounts
    <3> QED
      BY <2>3, <3>3 DEF RefundTopUp, TypeOK, CallsNameRows
  <2> QED
    BY <1>1, <2>2, <2>3
<1>2. ASSUME NEW r \in Requests, NEW usable \in BOOLEAN, ClientCompletes(r, usable)
      PROVE  TypeOK'
  <2>1. Complete(r, usable) /\ UNCHANGED handlers
    BY <1>2, Zenon DEF ClientCompletes
  <2>2. UNCHANGED <<usage, calls>>
    BY <2>1, Zenon DEF Complete
  <2>3. account' \in Accounts /\ jobs' \in [Requests -> Jobs]
          /\ ledger' \in [Requests -> LedgerRows]
    BY <2>1, CompleteType, Zenon
  <2> QED
    BY <2>1, <2>2, <2>3 DEF TypeOK, CallsNameRows
<1>3. ASSUME NEW r \in Requests, ClientFails(r) PROVE TypeOK'
  BY <1>3, FailType DEF ClientFails, FailJob, TypeOK, CallsNameRows
<1>4. ASSUME NEW r \in Requests, GrowStale(r) PROVE TypeOK'
  <2>1. jobs \in [Requests -> Jobs] /\ jobs[r] \in Jobs
    BY DEF TypeOK
  <2>2. [jobs[r] EXCEPT !.stale = TRUE] \in Jobs
    BY <2>1 DEF Jobs
  <2>3. jobs' \in [Requests -> Jobs]
    BY <1>4, <2>1, <2>2 DEF GrowStale
  <2> QED
    BY <1>4, <2>3 DEF GrowStale, TypeOK, CallsNameRows
<1>5. CASE Crash
  <2>1. IdleHandler \in HandlerStates
    BY DEF IdleHandler, HandlerStates
  <2>2. OverCall \in CallStates /\ OverCall.phase = "over"
    BY DEF NewCall, OverCall, CallStates, Phases
  <2>3. calls' \in [Calls -> CallStates] /\ CallsNameRows'
    BY <1>5, <2>2 DEF Crash, TypeOK, CallsNameRows
  <2>4. handlers' \in [Handlers -> HandlerStates]
    BY <1>5, <2>1 DEF Crash
  <2> QED
    BY <1>5, <2>3, <2>4 DEF Crash, TypeOK
<1>6. CASE UNCHANGED vars
  BY <1>6 DEF vars, TypeOK, CallsNameRows
<1> QED
  BY <1>1, <1>2, <1>3, <1>4, <1>5, <1>6, HandlerType, CallType
     DEF Next, PaymentStep, ClientStep

(* The rows of the database and the state of every handler keep their      *)
(* types; no column that the schema keeps non-negative goes below zero.    *)
THEOREM TypeCorrect == Spec => []TypeOK
  BY InitType, TypeStep, PTL DEF Spec

-----------------------------------------------------------------------------
(* What each step does to the columns that hold money *)

Closes(r, status, charge, released) ==
    /\ jobs'[r].status = status
    /\ jobs'[r].source = jobs[r].source
    /\ jobs'[r].reserved = jobs[r].reserved
    /\ jobs'[r].final = charge
    /\ jobs'[r].released = released
    /\ \A q \in Requests \ {r} : jobs'[q] = jobs[q] /\ ledger'[q] = ledger[q]

(* What a step adds to the postings of a job.                              *)
Posts(r, reserve, release, settle, failedRelease) ==
    /\ ledger'[r].reserve = ledger[r].reserve + reserve
    /\ ledger'[r].release = ledger[r].release + release
    /\ ledger'[r].settle = ledger[r].settle + settle
    /\ ledger'[r].failedRelease = ledger[r].failedRelease + failedRelease

MoneyUntouched ==
    /\ UNCHANGED <<account, ledger>>
    /\ \A r \in Requests :
          /\ jobs'[r].status = jobs[r].status
          /\ jobs'[r].source = jobs[r].source
          /\ jobs'[r].reserved = jobs[r].reserved
          /\ jobs'[r].final = jobs[r].final
          /\ jobs'[r].released = jobs[r].released

(* A paid invoice adds to the balance and to what was granted.             *)
LEMMA TopUpEffect ==
    ASSUME TypeOK, NEW amount \in TopUpAmounts, TopUp(amount)
    PROVE  /\ amount \in Nat \ {0}
           /\ account'.balance = account.balance + amount
           /\ account'.granted = account.granted + amount
           /\ account'.reserved = account.reserved
           /\ account'.spent = account.spent
           /\ UNCHANGED <<jobs, ledger>>
<1>1. amount \in Nat \ {0}
  BY ConstantsAssumption
<1>2. PICK x \in Nat, y \in Nat :
         x = account.balance + amount /\ y = account.granted + amount
  BY <1>1 DEF TypeOK, Accounts
<1>3. account' = [account EXCEPT !.balance = x, !.granted = y]
  BY <1>2, Zenon DEF TopUp
<1>4. account \in Accounts
  BY DEF TypeOK
<1>5. /\ account'.balance = x /\ account'.granted = y
      /\ account'.reserved = account.reserved
      /\ account'.spent = account.spent
  BY <1>3, <1>4 DEF Accounts
<1> QED
  BY <1>1, <1>2, <1>5 DEF TopUp

(* A refund takes back only what no job has reserved.                      *)
LEMMA RefundEffect ==
    ASSUME TypeOK, NEW amount \in TopUpAmounts, RefundTopUp(amount)
    PROVE  /\ amount \in Nat \ {0}
           /\ account.balance - amount >= account.reserved
           /\ account'.balance = account.balance - amount
           /\ account'.granted = account.granted - amount
           /\ account'.reserved = account.reserved
           /\ account'.spent = account.spent
           /\ UNCHANGED <<jobs, ledger>>
<1>1. amount \in Nat \ {0}
  BY ConstantsAssumption
<1>2. PICK x \in Nat, y \in Nat :
         x = account.balance - amount /\ y = account.granted - amount
  BY <1>1 DEF TypeOK, Accounts, RefundTopUp
<1>3. account' = [account EXCEPT !.balance = x, !.granted = y]
  BY <1>2, Zenon DEF RefundTopUp
<1>4. account \in Accounts
  BY DEF TypeOK
<1>5. /\ account'.balance = x /\ account'.granted = y
      /\ account'.reserved = account.reserved
      /\ account'.spent = account.spent
  BY <1>3, <1>4 DEF Accounts
<1> QED
  BY <1>1, <1>2, <1>5 DEF RefundTopUp

(* completePersistent charges at most the reservation and ends it.         *)
LEMMA CompleteEffect ==
    ASSUME TypeOK, NEW r \in Requests, NEW usable \in BOOLEAN, Complete(r, usable)
    PROVE  \E charge \in 0..jobs[r].reserved :
              /\ Active(r)
              /\ charge > 0 => WalletBilled(r)
              /\ account'.balance = account.balance - charge
              /\ account'.reserved = account.reserved - jobs[r].reserved
              /\ account'.spent = account.spent + charge
              /\ account'.granted = account.granted
              /\ Closes(r, "COMPLETED", charge, jobs[r].reserved - charge)
              /\ Posts(r, 0, jobs[r].reserved - charge, charge, 0)
<1>1. PICK held \in 0..MaxCharge : held = jobs[r].reserved
  BY DEF TypeOK, Jobs
<1>2. PICK charge \in 0..held :
         charge = IF WalletBilled(r) THEN Quote(r, usable).userCharge ELSE 0
  <2>1. WalletBilled(r) => Quote(r, usable).userCharge <= held
    BY <1>1, Zenon DEF Complete, Completable
  <2>2. Quote(r, usable).userCharge \in Nat /\ held \in Nat
    BY JobQuote, CapType
  <2> QED
    BY <2>1, <2>2
<1>3. PICK released \in Nat : released = Larger(0, held - charge) /\ released = held - charge
  BY CapType DEF Larger
<1>4. /\ Active(r)
      /\ account.reserved >= held
      /\ account.balance >= charge
      /\ account' = [account EXCEPT !.balance = @ - charge,
                                    !.reserved = @ - held,
                                    !.spent = @ + charge]
      /\ ledger' = [ledger EXCEPT ![r].release = @ + released, ![r].settle = @ + charge]
      /\ jobs' = [jobs EXCEPT ![r].status = "COMPLETED", ![r].final = charge,
                              ![r].released = released, ![r].stale = FALSE]
  BY <1>1, <1>2, <1>3, Zenon DEF Complete, Completable
<1>5. /\ account'.balance = account.balance - charge
      /\ account'.reserved = account.reserved - held
      /\ account'.spent = account.spent + charge
      /\ account'.granted = account.granted
  <2>1. PICK x, y, z : /\ x = account.balance - charge
                       /\ y = account.reserved - held
                       /\ z = account.spent + charge
    OBVIOUS
  <2>2. account' = [account EXCEPT !.balance = x, !.reserved = y, !.spent = z]
    BY <1>4, <2>1, Zenon
  <2>3. account \in Accounts
    BY DEF TypeOK
  <2> QED
    BY <2>1, <2>2, <2>3 DEF Accounts
<1>6. Closes(r, "COMPLETED", charge, held - charge)
  <2>1. jobs \in [Requests -> Jobs] /\ jobs[r] \in Jobs
    BY DEF TypeOK
  <2>2. PICK row : row = [jobs[r] EXCEPT !.status = "COMPLETED", !.final = charge,
                                         !.released = released, !.stale = FALSE]
    OBVIOUS
  <2>3. /\ row.status = "COMPLETED" /\ row.source = jobs[r].source
        /\ row.reserved = jobs[r].reserved
        /\ row.final = charge /\ row.released = released
    BY <2>1, <2>2 DEF Jobs
  <2>4. jobs'[r] = row /\ \A q \in Requests \ {r} : jobs'[q] = jobs[q]
    BY <1>4, <2>1, <2>2
  <2>5. \A q \in Requests \ {r} : ledger'[q] = ledger[q]
    BY <1>4 DEF TypeOK
  <2> QED
    BY <1>3, <2>3, <2>4, <2>5, Zenon DEF Closes
<1>7. charge > 0 => WalletBilled(r)
  BY <1>2
<1>8. Posts(r, 0, held - charge, charge, 0)
  <2>1. PICK x, y : x = ledger[r].release + released /\ y = ledger[r].settle + charge
    OBVIOUS
  <2>2. ledger' = [ledger EXCEPT ![r].release = x, ![r].settle = y]
    BY <1>4, <2>1, Zenon
  <2>3. ledger \in [Requests -> LedgerRows] /\ ledger[r] \in LedgerRows
    BY DEF TypeOK
  <2>4. /\ ledger'[r].reserve = ledger[r].reserve /\ ledger'[r].release = x
        /\ ledger'[r].settle = y /\ ledger'[r].failedRelease = ledger[r].failedRelease
    BY <2>2, <2>3 DEF LedgerRows
  <2>5. ledger[r].reserve \in Nat /\ ledger[r].failedRelease \in Nat
    BY <2>3 DEF LedgerRows
  <2> QED
    BY <1>3, <2>1, <2>4, <2>5 DEF Posts
<1> QED
  BY <1>1, <1>4, <1>5, <1>6, <1>7, <1>8, Zenon

(* failPersistent gives the reservation back and charges nothing.          *)
LEMMA FailEffect ==
    ASSUME TypeOK, NEW r \in Requests, FailJob(r)
    PROVE  /\ Active(r)
           /\ account.reserved >= jobs[r].reserved
           /\ account'.balance = account.balance
           /\ account'.reserved = account.reserved - jobs[r].reserved
           /\ account'.spent = account.spent
           /\ account'.granted = account.granted
           /\ Closes(r, "FAILED", jobs[r].final, jobs[r].reserved)
           /\ Posts(r, 0, 0, 0, jobs[r].reserved)
<1>1. PICK held : held = jobs[r].reserved
  OBVIOUS
<1>2. /\ Active(r)
      /\ account.reserved >= held
      /\ account' = [account EXCEPT !.reserved = @ - held]
      /\ ledger' = [ledger EXCEPT ![r].failedRelease = @ + held]
      /\ jobs' = [jobs EXCEPT ![r].status = "FAILED", ![r].released = held,
                              ![r].stale = FALSE]
  BY <1>1, Zenon DEF FailJob
<1>3. /\ account'.balance = account.balance
      /\ account'.reserved = account.reserved - held
      /\ account'.spent = account.spent
      /\ account'.granted = account.granted
  BY <1>2 DEF TypeOK, Accounts
<1>4. Closes(r, "FAILED", jobs[r].final, held)
  <2>1. jobs \in [Requests -> Jobs] /\ jobs[r] \in Jobs
    BY DEF TypeOK
  <2>2. PICK row : row = [jobs[r] EXCEPT !.status = "FAILED", !.released = held,
                                         !.stale = FALSE]
    OBVIOUS
  <2>3. /\ row.status = "FAILED" /\ row.source = jobs[r].source
        /\ row.reserved = jobs[r].reserved
        /\ row.final = jobs[r].final /\ row.released = held
    BY <2>1, <2>2 DEF Jobs
  <2>4. jobs'[r] = row /\ \A q \in Requests \ {r} : jobs'[q] = jobs[q]
    BY <1>2, <2>1, <2>2
  <2>5. \A q \in Requests \ {r} : ledger'[q] = ledger[q]
    BY <1>2 DEF TypeOK
  <2> QED
    BY <2>3, <2>4, <2>5, Zenon DEF Closes
<1>5. Posts(r, 0, 0, 0, held)
  <2>1. PICK x : x = ledger[r].failedRelease + held
    OBVIOUS
  <2>2. ledger' = [ledger EXCEPT ![r].failedRelease = x]
    BY <1>2, <2>1, Zenon
  <2>3. ledger \in [Requests -> LedgerRows] /\ ledger[r] \in LedgerRows
    BY DEF TypeOK
  <2>4. /\ ledger'[r].reserve = ledger[r].reserve /\ ledger'[r].release = ledger[r].release
        /\ ledger'[r].settle = ledger[r].settle /\ ledger'[r].failedRelease = x
    BY <2>2, <2>3 DEF LedgerRows
  <2>5. /\ ledger[r].reserve \in Nat /\ ledger[r].release \in Nat
        /\ ledger[r].settle \in Nat
    BY <2>3 DEF LedgerRows
  <2> QED
    BY <2>1, <2>4, <2>5 DEF Posts
<1> QED
  BY <1>1, <1>2, <1>3, <1>4, <1>5

(* startPersistent reserves only money that no other job reserved.         *)
LEMMA CreateEffect ==
    ASSUME TypeOK, NEW h \in Handlers, NEW r \in Requests, NEW input \in StartInputs,
           NEW source \in BillingSources, CreateJob(h, r, input, source)
    PROVE  \E held \in 0..MaxCharge :
              /\ jobs[r].status = "NONE"
              /\ held = 0 \/ account.balance - account.reserved >= held
              /\ account'.balance = account.balance
              /\ account'.reserved = account.reserved + held
              /\ account'.spent = account.spent
              /\ account'.granted = account.granted
              /\ jobs'[r].status = "ACTIVE" /\ jobs'[r].reserved = held
              /\ jobs'[r].final = 0 /\ jobs'[r].released = 0
              /\ \A q \in Requests \ {r} : jobs'[q] = jobs[q] /\ ledger'[q] = ledger[q]
              /\ ledger'[r] = [ledger[r] EXCEPT !.reserve = held]
<1>1. PICK held \in 0..MaxCharge :
         held = IF source \in WalletSources
                THEN EstimateAnalysisJob(Policy, input).reservation ELSE 0
  <2>1. EstimateAnalysisJob(Policy, input).reservation \in 0..MaxCharge
        /\ 0 \in 0..MaxCharge
    BY StartReservation, CapType
  <2> QED
    BY <2>1
<1>2. /\ jobs[r].status = "NONE"
      /\ account' = [account EXCEPT !.reserved = @ + held]
      /\ ledger' = [ledger EXCEPT ![r].reserve = held]
      /\ jobs' = [jobs EXCEPT ![r] = [NoJob EXCEPT !.status = "ACTIVE", !.source = source,
                                                   !.reserved = held]]
  BY <1>1, Zenon DEF CreateJob
<1>3. held = 0 \/ account.balance - account.reserved >= held
  BY <1>1, Zenon DEF CreateJob, Spendable
<1>4. /\ account'.balance = account.balance
      /\ account'.reserved = account.reserved + held
      /\ account'.spent = account.spent
      /\ account'.granted = account.granted
  BY <1>2 DEF TypeOK, Accounts
<1>5. PICK row : row = [NoJob EXCEPT !.status = "ACTIVE", !.source = source,
                                     !.reserved = held]
  OBVIOUS
<1>6. row.status = "ACTIVE" /\ row.reserved = held /\ row.final = 0 /\ row.released = 0
  BY <1>5 DEF NoJob
<1>7. jobs'[r] = row /\ \A q \in Requests \ {r} : jobs'[q] = jobs[q] /\ ledger'[q] = ledger[q]
  BY <1>2, <1>5 DEF TypeOK
<1>8. ledger'[r] = [ledger[r] EXCEPT !.reserve = held]
  BY <1>2 DEF TypeOK
<1> QED
  BY <1>2, <1>3, <1>4, <1>6, <1>7, <1>8, Zenon

(* A job row that is charged with the cost of a call, or grows stale,      *)
(* keeps the columns that hold money.                                      *)
LEMMA ChargedEffect ==
    ASSUME TypeOK, NEW r \in Requests, NEW cost, UNCHANGED <<account, ledger>>,
           \/ jobs' = [jobs EXCEPT ![r] = Charged(@, cost)]
           \/ jobs' = [jobs EXCEPT ![r].stale = TRUE]
    PROVE  MoneyUntouched
<1>1. jobs \in [Requests -> Jobs] /\ jobs[r] \in Jobs
  BY DEF TypeOK
<1>2. PICK row : /\ row.status = jobs[r].status /\ row.source = jobs[r].source
                 /\ row.reserved = jobs[r].reserved
                 /\ row.final = jobs[r].final /\ row.released = jobs[r].released
                 /\ jobs' = [jobs EXCEPT ![r] = row]
  <2>1. CASE jobs' = [jobs EXCEPT ![r] = Charged(@, cost)]
    <3>1. PICK n : n = jobs[r].requestCount + 1
      OBVIOUS
    <3>2. PICK row : row = [jobs[r] EXCEPT !.cost = cost, !.requestCount = n, !.stale = FALSE]
      OBVIOUS
    <3>3. jobs' = [jobs EXCEPT ![r] = row]
      BY <2>1, <3>1, <3>2, Zenon DEF Charged
    <3>4. /\ row.status = jobs[r].status /\ row.source = jobs[r].source
          /\ row.reserved = jobs[r].reserved
          /\ row.final = jobs[r].final /\ row.released = jobs[r].released
      BY <1>1, <3>2 DEF Jobs
    <3> QED
      BY <3>3, <3>4, Zenon
  <2>2. CASE jobs' = [jobs EXCEPT ![r].stale = TRUE]
    <3>1. PICK row : row = [jobs[r] EXCEPT !.stale = TRUE]
      OBVIOUS
    <3>2. jobs' = [jobs EXCEPT ![r] = row]
      BY <2>2, <3>1, Zenon
    <3>3. /\ row.status = jobs[r].status /\ row.source = jobs[r].source
          /\ row.reserved = jobs[r].reserved
          /\ row.final = jobs[r].final /\ row.released = jobs[r].released
      BY <1>1, <3>1 DEF Jobs
    <3> QED
      BY <3>2, <3>3, Zenon
  <2> QED
    BY <2>1, <2>2
<1>3. jobs'[r] = row /\ \A q \in Requests \ {r} : jobs'[q] = jobs[q]
  BY <1>1, <1>2
<1> QED
  BY <1>2, <1>3, Zenon DEF MoneyUntouched

(* The steps that move money, and all others.                              *)
LEMMA StepKinds ==
    ASSUME TypeOK, [Next]_vars
    PROVE  \/ \E amount \in TopUpAmounts : TopUp(amount) \/ RefundTopUp(amount)
           \/ \E r \in Requests : \E usable \in BOOLEAN : Complete(r, usable)
           \/ \E r \in Requests : FailJob(r)
           \/ \E h \in Handlers, r \in Requests, input \in StartInputs,
                 source \in BillingSources : CreateJob(h, r, input, source)
           \/ MoneyUntouched
<1>1. ASSUME NEW c \in Calls, CallStep(c) PROVE MoneyUntouched
  <2>1. CASE RecordUsage(c) \/ WriteJobCost(c)
    <3>1. calls[c].job \in Requests
      BY <2>1 DEF RecordUsage, WriteJobCost, TypeOK, CallsNameRows
    <3>2. \E cost : jobs' = [jobs EXCEPT ![calls[c].job] = Charged(@, cost)]
      BY <2>1, Zenon DEF RecordUsage, WriteJobCost
    <3>3. UNCHANGED <<account, ledger>>
      BY <2>1, Zenon DEF RecordUsage, WriteJobCost
    <3> QED
      BY <3>1, <3>2, <3>3, ChargedEffect, Zenon
  <2>2. CASE UNCHANGED <<account, ledger, jobs>>
    BY <2>2 DEF MoneyUntouched
  <2> QED
    BY <1>1, <2>1, <2>2, Zenon
       DEF CallStep, AdmitCall, ProviderAnswers, CallFails, RecordDuplicate, ReadJobCost
<1>2. ASSUME NEW h \in Handlers, HandlerStep(h)
      PROVE  \/ \E r \in Requests : FailJob(r)
             \/ \E r \in Requests, input \in StartInputs, source \in BillingSources :
                   CreateJob(h, r, input, source)
             \/ UNCHANGED <<account, ledger, jobs>>
  BY <1>2, Zenon DEF HandlerStep, BeginSummary, EndSummary, BeginStart, RecoverJob, SkipJob,
                     StartWithoutJob
<1>3. UNCHANGED <<account, ledger, jobs>> => MoneyUntouched
  BY Zenon DEF MoneyUntouched
<1>4. ASSUME NEW r \in Requests, GrowStale(r) PROVE MoneyUntouched
  <2>1. jobs' = [jobs EXCEPT ![r].stale = TRUE] /\ UNCHANGED <<account, ledger>>
    BY <1>4, Zenon DEF GrowStale
  <2> QED
    BY <2>1, ChargedEffect, Zenon
<1>5. Crash \/ UNCHANGED vars => UNCHANGED <<account, ledger, jobs>>
  BY Zenon DEF Crash, vars
<1> QED
  BY <1>1, <1>2, <1>3, <1>4, <1>5, Zenon
     DEF Next, PaymentStep, ClientStep, ClientCompletes, ClientFails

-----------------------------------------------------------------------------
(* What was reserved is there, and the totals explain the balance *)

(* No step of a job takes from the balance what is reserved of it.         *)
LEMMA WithinStep ==
    ASSUME TypeOK, [Next]_vars, ReservedWithinBalance
    PROVE  ReservedWithinBalance'
<1>1. /\ account.balance \in Nat /\ account.reserved \in Nat
      /\ account.granted \in Nat /\ account.spent \in Nat
      /\ account.reserved <= account.balance
  BY DEF TypeOK, Accounts, ReservedWithinBalance
<1>2. SUFFICES account'.reserved <= account'.balance
  BY DEF ReservedWithinBalance
<1>3. ASSUME NEW amount \in TopUpAmounts, TopUp(amount)
      PROVE  account'.reserved <= account'.balance
  BY <1>1, <1>3, TopUpEffect
<1>4. ASSUME NEW amount \in TopUpAmounts, RefundTopUp(amount)
      PROVE  account'.reserved <= account'.balance
  BY <1>1, <1>4, RefundEffect
<1>5. ASSUME NEW r \in Requests, NEW usable \in BOOLEAN, Complete(r, usable)
      PROVE  account'.reserved <= account'.balance
  <2>1. PICK charge \in 0..jobs[r].reserved :
           /\ account'.balance = account.balance - charge
           /\ account'.reserved = account.reserved - jobs[r].reserved
           /\ account'.spent = account.spent + charge
           /\ account'.granted = account.granted
    BY <1>5, CompleteEffect, Zenon
  <2>2. jobs[r].reserved \in Nat
    BY CapType DEF TypeOK, Jobs
  <2> QED
    BY <1>1, <2>1, <2>2
<1>6. ASSUME NEW r \in Requests, FailJob(r)
      PROVE  account'.reserved <= account'.balance
  <2>1. /\ account'.balance = account.balance
        /\ account'.reserved = account.reserved - jobs[r].reserved
        /\ account'.spent = account.spent
        /\ account'.granted = account.granted
    BY <1>6, FailEffect
  <2>2. jobs[r].reserved \in Nat
    BY CapType DEF TypeOK, Jobs
  <2> QED
    BY <1>1, <2>1, <2>2
<1>7. ASSUME NEW h \in Handlers, NEW r \in Requests, NEW input \in StartInputs,
             NEW source \in BillingSources, CreateJob(h, r, input, source)
      PROVE  account'.reserved <= account'.balance
  <2>1. PICK held \in 0..MaxCharge :
           /\ held = 0 \/ account.balance - account.reserved >= held
           /\ account'.balance = account.balance
           /\ account'.reserved = account.reserved + held
           /\ account'.spent = account.spent
           /\ account'.granted = account.granted
    BY <1>7, CreateEffect, Zenon
  <2> QED
    BY <1>1, <2>1, CapType
<1>8. CASE MoneyUntouched
  BY <1>1, <1>8 DEF MoneyUntouched
<1> QED
  BY <1>3, <1>4, <1>5, <1>6, <1>7, <1>8, StepKinds, Zenon

(* Whatever jobs, refunds and recovery do in whatever order, the money a   *)
(* job reserved stays in the balance until the job is closed.              *)
THEOREM ReservedIsThere == Spec => []ReservedWithinBalance
<1>1. Init => ReservedWithinBalance
  BY DEF Init, ReservedWithinBalance
<1>2. TypeOK /\ [Next]_vars /\ ReservedWithinBalance => ReservedWithinBalance'
  BY WithinStep
<1> QED
  BY <1>1, <1>2, TypeCorrect, PTL DEF Spec

(* The balance moves with the lifetime totals.                             *)
LEMMA TotalsStep ==
    ASSUME TypeOK, [Next]_vars, LifetimeTotalsExplainBalance
    PROVE  LifetimeTotalsExplainBalance'
<1>1. /\ account.balance \in Nat /\ account.reserved \in Nat
      /\ account.granted \in Nat /\ account.spent \in Nat
      /\ account.balance + account.spent = account.granted
  BY DEF TypeOK, Accounts, LifetimeTotalsExplainBalance
<1>2. SUFFICES account'.balance + account'.spent = account'.granted
  BY DEF LifetimeTotalsExplainBalance
<1>3. ASSUME NEW amount \in TopUpAmounts, TopUp(amount)
      PROVE  account'.balance + account'.spent = account'.granted
  BY <1>1, <1>3, TopUpEffect
<1>4. ASSUME NEW amount \in TopUpAmounts, RefundTopUp(amount)
      PROVE  account'.balance + account'.spent = account'.granted
  BY <1>1, <1>4, RefundEffect
<1>5. ASSUME NEW r \in Requests, NEW usable \in BOOLEAN, Complete(r, usable)
      PROVE  account'.balance + account'.spent = account'.granted
  <2>1. PICK charge \in 0..jobs[r].reserved :
           /\ account'.balance = account.balance - charge
           /\ account'.reserved = account.reserved - jobs[r].reserved
           /\ account'.spent = account.spent + charge
           /\ account'.granted = account.granted
    BY <1>5, CompleteEffect, Zenon
  <2>2. jobs[r].reserved \in Nat
    BY CapType DEF TypeOK, Jobs
  <2> QED
    BY <1>1, <2>1, <2>2
<1>6. ASSUME NEW r \in Requests, FailJob(r)
      PROVE  account'.balance + account'.spent = account'.granted
  <2>1. /\ account'.balance = account.balance
        /\ account'.reserved = account.reserved - jobs[r].reserved
        /\ account'.spent = account.spent
        /\ account'.granted = account.granted
    BY <1>6, FailEffect
  <2>2. jobs[r].reserved \in Nat
    BY CapType DEF TypeOK, Jobs
  <2> QED
    BY <1>1, <2>1, <2>2
<1>7. ASSUME NEW h \in Handlers, NEW r \in Requests, NEW input \in StartInputs,
             NEW source \in BillingSources, CreateJob(h, r, input, source)
      PROVE  account'.balance + account'.spent = account'.granted
  <2>1. PICK held \in 0..MaxCharge :
           /\ held = 0 \/ account.balance - account.reserved >= held
           /\ account'.balance = account.balance
           /\ account'.reserved = account.reserved + held
           /\ account'.spent = account.spent
           /\ account'.granted = account.granted
    BY <1>7, CreateEffect, Zenon
  <2> QED
    BY <1>1, <2>1, CapType
<1>8. CASE MoneyUntouched
  BY <1>1, <1>8 DEF MoneyUntouched
<1> QED
  BY <1>3, <1>4, <1>5, <1>6, <1>7, <1>8, StepKinds, Zenon

(* No step changes the balance without the lifetime totals: what was       *)
(* granted is what was spent and what is left.                             *)
THEOREM TotalsExplainBalance == Spec => []LifetimeTotalsExplainBalance
<1>1. Init => LifetimeTotalsExplainBalance
  BY DEF Init, LifetimeTotalsExplainBalance
<1>2. TypeOK /\ [Next]_vars /\ LifetimeTotalsExplainBalance => LifetimeTotalsExplainBalance'
  BY TotalsStep
<1> QED
  BY <1>1, <1>2, TypeCorrect, PTL DEF Spec

-----------------------------------------------------------------------------
(* The reserved column is the sum of the open reservations *)

(* Every request holds an amount within the cap.                           *)
LEMMA HoldsType ==
    ASSUME TypeOK
    PROVE  HeldBy \in [Requests -> 0..MaxCharge]
<1>1. \A r \in Requests : jobs[r].reserved \in 0..MaxCharge
  BY DEF TypeOK, Jobs
<1>2. 0 \in 0..MaxCharge
  BY CapType
<1>3. \A r \in Requests : (IF Active(r) THEN jobs[r].reserved ELSE 0) \in 0..MaxCharge
  BY <1>1, <1>2
<1> QED
  BY <1>3 DEF HeldBy

(* A job that is opened holds what it reserved.                            *)
LEMMA HoldsOfOpened ==
    ASSUME TypeOK, NEW r \in Requests, NEW held, jobs[r].status = "NONE",
           jobs'[r].status = "ACTIVE", jobs'[r].reserved = held,
           \A q \in Requests \ {r} : jobs'[q] = jobs[q]
    PROVE  HeldBy[r] = 0 /\ HeldBy' = [HeldBy EXCEPT ![r] = held]
BY DEF HeldBy, Active

(* A job that is closed holds nothing any more.                            *)
LEMMA HoldsOfClosed ==
    ASSUME TypeOK, NEW r \in Requests, Active(r), jobs'[r].status # "ACTIVE",
           \A q \in Requests \ {r} : jobs'[q] = jobs[q]
    PROVE  HeldBy[r] = jobs[r].reserved /\ HeldBy' = [HeldBy EXCEPT ![r] = 0]
BY DEF HeldBy, Active

(* A step that leaves the money columns alone leaves the holds alone.      *)
LEMMA HoldsUntouched == ASSUME MoneyUntouched PROVE HeldBy' = HeldBy
BY DEF MoneyUntouched, HeldBy, Active

(* The reserved column moves with the sum of the holds through every step, *)
(* whatever else the column counts.                                        *)
LEMMA ReservedMoves ==
    ASSUME TypeOK, [Next]_vars
    PROVE  account'.reserved + SumOf(HeldBy) = account.reserved + SumOf(HeldBy')
<1>1. HeldBy \in [Requests -> Nat] /\ MaxCharge \in Nat /\ IsFiniteSet(Requests)
  BY HoldsType, CapType, ConstantsAssumption
<1>2. account.reserved \in Nat /\ SumOf(HeldBy) \in Nat
  <2>1. SumOf(HeldBy) \in Nat
    BY <1>1, SumType
  <2> QED
    BY <2>1 DEF TypeOK, Accounts
<1>4. ASSUME NEW r \in Requests, Active(r), jobs'[r].status # "ACTIVE",
             \A q \in Requests \ {r} : jobs'[q] = jobs[q],
             account'.reserved = account.reserved - jobs[r].reserved
      PROVE  account'.reserved + SumOf(HeldBy) = account.reserved + SumOf(HeldBy')
  <2>1. HeldBy[r] = jobs[r].reserved /\ HeldBy' = [HeldBy EXCEPT ![r] = 0]
    BY <1>4, HoldsOfClosed
  <2>2. PICK amount \in 0..MaxCharge : amount = jobs[r].reserved
    BY DEF TypeOK, Jobs
  <2>3. SumOf(HeldBy)
          = SumOf([HeldBy EXCEPT ![r] = 0]) + amount
    <3>1. \A before \in [Requests -> Nat], q \in Requests, n \in Nat :
             before[q] = n =>
               SumOf(before)
                 = SumOf([before EXCEPT ![q] = 0]) + n
      BY <1>1, SumDrop
    <3> QED
      BY <1>1, <2>1, <2>2, <3>1, Zenon
  <2>4. SumOf([HeldBy EXCEPT ![r] = 0]) \in Nat
    <3>1. [HeldBy EXCEPT ![r] = 0] \in [Requests -> Nat]
      BY <1>1
    <3> QED
      BY <1>1, <3>1, SumType, Zenon
  <2> QED
    BY <1>2, <1>4, <2>1, <2>2, <2>3, <2>4
<1>5. ASSUME NEW amount \in TopUpAmounts, TopUp(amount) \/ RefundTopUp(amount)
      PROVE  account'.reserved + SumOf(HeldBy) = account.reserved + SumOf(HeldBy')
  <2>1. account'.reserved = account.reserved /\ jobs' = jobs
    BY <1>5, TopUpEffect, RefundEffect
  <2>2. HeldBy' = HeldBy
    BY <2>1 DEF HeldBy, Active
  <2> QED
    BY <1>2, <2>1, <2>2
<1>6. ASSUME NEW r \in Requests, NEW usable \in BOOLEAN, Complete(r, usable)
      PROVE  account'.reserved + SumOf(HeldBy) = account.reserved + SumOf(HeldBy')
  <2>1. /\ Active(r) /\ jobs'[r].status = "COMPLETED"
        /\ account'.reserved = account.reserved - jobs[r].reserved
        /\ \A q \in Requests \ {r} : jobs'[q] = jobs[q]
    BY <1>6, CompleteEffect, Zenon DEF Closes
  <2> QED
    BY <1>4, <2>1
<1>7. ASSUME NEW r \in Requests, FailJob(r)
      PROVE  account'.reserved + SumOf(HeldBy) = account.reserved + SumOf(HeldBy')
  <2>1. /\ Active(r) /\ jobs'[r].status = "FAILED"
        /\ account'.reserved = account.reserved - jobs[r].reserved
        /\ \A q \in Requests \ {r} : jobs'[q] = jobs[q]
    BY <1>7, FailEffect, Zenon DEF Closes
  <2> QED
    BY <1>4, <2>1
<1>8. ASSUME NEW h \in Handlers, NEW r \in Requests, NEW input \in StartInputs,
             NEW source \in BillingSources, CreateJob(h, r, input, source)
      PROVE  account'.reserved + SumOf(HeldBy) = account.reserved + SumOf(HeldBy')
  <2>1. PICK held \in 0..MaxCharge :
           /\ jobs[r].status = "NONE"
           /\ jobs'[r].status = "ACTIVE" /\ jobs'[r].reserved = held
           /\ account'.reserved = account.reserved + held
           /\ \A q \in Requests \ {r} : jobs'[q] = jobs[q]
    BY <1>8, CreateEffect, Zenon
  <2>2. HeldBy[r] = 0 /\ HeldBy' = [HeldBy EXCEPT ![r] = held]
    BY <2>1, HoldsOfOpened
  <2>3. SumOf([HeldBy EXCEPT ![r] = held])
          = SumOf(HeldBy) + held
    <3>1. \A before \in [Requests -> Nat], q \in Requests, amount \in Nat :
             before[q] = 0 =>
               SumOf([before EXCEPT ![q] = amount])
                 = SumOf(before) + amount
      BY <1>1, SumTake
    <3>2. held \in Nat
      OBVIOUS
    <3> QED
      BY <1>1, <2>2, <3>1, <3>2, Zenon
  <2> QED
    BY <1>2, <2>1, <2>2, <2>3
<1>9. CASE MoneyUntouched
  <2>1. account' = account /\ HeldBy' = HeldBy
    BY <1>9, HoldsUntouched DEF MoneyUntouched
  <2> QED
    BY <1>2, <2>1
<1> QED
  BY <1>5, <1>6, <1>7, <1>8, <1>9, StepKinds, Zenon

LEMMA ReservedStep ==
    ASSUME TypeOK, [Next]_vars, ReservedMatchesOpenJobs
    PROVE  ReservedMatchesOpenJobs'
<1>1. account.reserved \in Nat /\ account.reserved = SumOf(HeldBy)
  BY DEF ReservedMatchesOpenJobs, TypeOK, Accounts
<1>2. account'.reserved + SumOf(HeldBy) = account.reserved + SumOf(HeldBy')
  BY ReservedMoves
<1>3. HeldBy' \in [Requests -> Nat] /\ account'.reserved \in Nat
  <2>1. TypeOK'
    BY TypeStep
  <2> QED
    BY <2>1, CapType DEF TypeOK, Jobs, Accounts, HeldBy, Active
<1>4. SumOf(HeldBy') \in Nat
  BY <1>3, SumType, ConstantsAssumption
<1> QED
  BY <1>1, <1>2, <1>3, <1>4 DEF ReservedMatchesOpenJobs

(* No path through complete, fail and recovery, however many handlers run  *)
(* them at once, releases a reservation twice or leaves one behind.        *)
THEOREM ReservedIsExact == Spec => []ReservedMatchesOpenJobs
<1>1. Init => ReservedMatchesOpenJobs
  <2> SUFFICES ASSUME Init PROVE ReservedMatchesOpenJobs
    OBVIOUS
  <2>1. HeldBy = [r \in Requests |-> 0]
    BY DEF Init, HeldBy, Active, NoJob
  <2>2. HeldBy \in [Requests -> Nat] /\ \A r \in Requests : HeldBy[r] = 0
    BY <2>1
  <2>3. SumOf(HeldBy) = 0
    BY <2>2, SumOfZeros
  <2> QED
    BY <2>3 DEF Init, ReservedMatchesOpenJobs
<1>2. TypeOK /\ [Next]_vars /\ ReservedMatchesOpenJobs => ReservedMatchesOpenJobs'
  BY ReservedStep
<1> QED
  BY <1>1, <1>2, TypeCorrect, PTL DEF Spec

-----------------------------------------------------------------------------
(* Charges, and the finality of closed jobs *)

(* The charge of a job stays within its reservation through every step.    *)
LEMMA ChargeStep ==
    ASSUME TypeOK, [Next]_vars, ChargeWithinReservation
    PROVE  ChargeWithinReservation'
<1>1. SUFFICES ASSUME NEW q \in Requests
      PROVE  /\ jobs'[q].final + jobs'[q].released <= jobs'[q].reserved
             /\ jobs'[q].final > 0
                  => jobs'[q].status = "COMPLETED" /\ jobs'[q].source \in WalletSources
  BY DEF ChargeWithinReservation, WalletBilled
<1>2. /\ jobs[q].final + jobs[q].released <= jobs[q].reserved
      /\ jobs[q].final > 0
           => jobs[q].status = "COMPLETED" /\ jobs[q].source \in WalletSources
  BY DEF ChargeWithinReservation, WalletBilled
<1>3. /\ jobs[q].final \in Nat /\ jobs[q].released \in Nat /\ jobs[q].reserved \in Nat
  <2>1. /\ jobs[q].final \in 0..MaxCharge /\ jobs[q].released \in 0..MaxCharge
        /\ jobs[q].reserved \in 0..MaxCharge
    BY DEF TypeOK, Jobs
  <2> QED
    BY <2>1, CapType
<1>4. ASSUME jobs'[q] = jobs[q]
      PROVE  /\ jobs'[q].final + jobs'[q].released <= jobs'[q].reserved
             /\ jobs'[q].final > 0
                  => jobs'[q].status = "COMPLETED" /\ jobs'[q].source \in WalletSources
  BY <1>2, <1>4
<1>5. ASSUME NEW amount \in TopUpAmounts, TopUp(amount) \/ RefundTopUp(amount)
      PROVE  jobs'[q] = jobs[q]
  BY <1>5, TopUpEffect, RefundEffect
<1>6. ASSUME NEW r \in Requests, NEW usable \in BOOLEAN, Complete(r, usable)
      PROVE  /\ jobs'[q].final + jobs'[q].released <= jobs'[q].reserved
             /\ jobs'[q].final > 0
                  => jobs'[q].status = "COMPLETED" /\ jobs'[q].source \in WalletSources
  <2>1. PICK charge \in 0..jobs[r].reserved :
           /\ charge > 0 => WalletBilled(r)
           /\ Closes(r, "COMPLETED", charge, jobs[r].reserved - charge)
    BY <1>6, CompleteEffect, Zenon
  <2>2. CASE q = r
    BY <1>3, <2>1, <2>2 DEF Closes, WalletBilled
  <2>3. CASE q # r
    BY <1>4, <2>1, <2>3 DEF Closes
  <2> QED
    BY <2>2, <2>3
<1>7. ASSUME NEW r \in Requests, FailJob(r)
      PROVE  /\ jobs'[q].final + jobs'[q].released <= jobs'[q].reserved
             /\ jobs'[q].final > 0
                  => jobs'[q].status = "COMPLETED" /\ jobs'[q].source \in WalletSources
  <2>1. Active(r) /\ Closes(r, "FAILED", jobs[r].final, jobs[r].reserved)
    BY <1>7, FailEffect
  <2>2. CASE q = r
    BY <1>2, <1>3, <2>1, <2>2 DEF Closes, Active
  <2>3. CASE q # r
    BY <1>4, <2>1, <2>3 DEF Closes
  <2> QED
    BY <2>2, <2>3
<1>8. ASSUME NEW h \in Handlers, NEW r \in Requests, NEW input \in StartInputs,
             NEW source \in BillingSources, CreateJob(h, r, input, source)
      PROVE  /\ jobs'[q].final + jobs'[q].released <= jobs'[q].reserved
             /\ jobs'[q].final > 0
                  => jobs'[q].status = "COMPLETED" /\ jobs'[q].source \in WalletSources
  <2>1. PICK held \in 0..MaxCharge :
           /\ jobs'[r].reserved = held /\ jobs'[r].final = 0 /\ jobs'[r].released = 0
           /\ \A p \in Requests \ {r} : jobs'[p] = jobs[p]
    BY <1>8, CreateEffect, Zenon
  <2>2. CASE q = r
    BY <2>1, <2>2, CapType
  <2>3. CASE q # r
    BY <1>4, <2>1, <2>3
  <2> QED
    BY <2>2, <2>3
<1>9. CASE MoneyUntouched
  BY <1>2, <1>9 DEF MoneyUntouched
<1> QED
  BY <1>4, <1>5, <1>6, <1>7, <1>8, <1>9, StepKinds, Zenon

(* A job costs the member at most what was reserved for it, and nothing    *)
(* when its source made it free or it failed.                              *)
THEOREM ChargeIsCovered == Spec => []ChargeWithinReservation
<1>1. Init => ChargeWithinReservation
  BY CapType DEF Init, NoJob, ChargeWithinReservation, WalletBilled
<1>2. TypeOK /\ [Next]_vars /\ ChargeWithinReservation => ChargeWithinReservation'
  BY ChargeStep
<1> QED
  BY <1>1, <1>2, TypeCorrect, PTL DEF Spec

(* No step changes the outcome of a closed job or its postings.            *)
LEMMA ClosedStep ==
    ASSUME TypeOK, [Next]_vars, NEW q \in Requests,
           jobs[q].status \in {"COMPLETED", "FAILED"}
    PROVE  /\ jobs'[q].status = jobs[q].status
           /\ jobs'[q].final = jobs[q].final
           /\ jobs'[q].released = jobs[q].released
           /\ ledger'[q] = ledger[q]
<1>1. ASSUME NEW amount \in TopUpAmounts, TopUp(amount) \/ RefundTopUp(amount)
      PROVE  jobs'[q] = jobs[q] /\ ledger'[q] = ledger[q]
  BY <1>1, TopUpEffect, RefundEffect
<1>2. ASSUME NEW r \in Requests, NEW usable \in BOOLEAN, Complete(r, usable)
      PROVE  jobs'[q] = jobs[q] /\ ledger'[q] = ledger[q]
  <2>1. Active(r) /\ \A p \in Requests \ {r} : jobs'[p] = jobs[p] /\ ledger'[p] = ledger[p]
    BY <1>2, CompleteEffect, Zenon DEF Closes
  <2> QED
    BY <2>1 DEF Active
<1>3. ASSUME NEW r \in Requests, FailJob(r)
      PROVE  jobs'[q] = jobs[q] /\ ledger'[q] = ledger[q]
  <2>1. Active(r) /\ \A p \in Requests \ {r} : jobs'[p] = jobs[p] /\ ledger'[p] = ledger[p]
    BY <1>3, FailEffect, Zenon DEF Closes
  <2> QED
    BY <2>1 DEF Active
<1>4. ASSUME NEW h \in Handlers, NEW r \in Requests, NEW input \in StartInputs,
             NEW source \in BillingSources, CreateJob(h, r, input, source)
      PROVE  jobs'[q] = jobs[q] /\ ledger'[q] = ledger[q]
  <2>1. /\ jobs[r].status = "NONE"
        /\ \A p \in Requests \ {r} : jobs'[p] = jobs[p] /\ ledger'[p] = ledger[p]
    BY <1>4, CreateEffect, Zenon
  <2> QED
    BY <2>1
<1>5. CASE MoneyUntouched
  BY <1>5 DEF MoneyUntouched
<1> QED
  BY <1>1, <1>2, <1>3, <1>4, <1>5, StepKinds, Zenon

(* The outcome of a closed job is final, whatever comes late: a complete   *)
(* after a fail, a fail after a complete, recovery or the usage of a call. *)
THEOREM ClosedIsFinal == Spec => ClosedJobsAreFinal
<1>1. TypeOK /\ [Next]_vars =>
        [\A r \in Requests : jobs[r].status \in {"COMPLETED", "FAILED"} =>
            /\ jobs'[r].status = jobs[r].status
            /\ jobs'[r].final = jobs[r].final
            /\ jobs'[r].released = jobs[r].released
            /\ ledger'[r] = ledger[r]]_vars
  BY ClosedStep
<1> QED
  BY <1>1, TypeCorrect, PTL DEF Spec, ClosedJobsAreFinal

-----------------------------------------------------------------------------
(* The ledger explains the rows *)

(* The postings of one job.                                                *)
RowExplained(r) ==
    LET rows == ledger[r]
    IN  IF jobs[r].status \in {"COMPLETED", "FAILED"}
        THEN rows.reserve = rows.release + rows.settle + rows.failedRelease
        ELSE rows = [NoRows EXCEPT !.reserve = HeldBy[r]]

Settled == [r \in Requests |-> ledger[r].settle]

LEMMA SettledType == ASSUME TypeOK PROVE Settled \in [Requests -> Nat]
BY DEF TypeOK, LedgerRows, Settled

(* What the postings of an open job are.                                   *)
LEMMA OpenRow ==
    ASSUME TypeOK, NEW r \in Requests, RowExplained(r), Active(r)
    PROVE  /\ ledger[r].reserve = jobs[r].reserved
           /\ ledger[r].release = 0 /\ ledger[r].settle = 0 /\ ledger[r].failedRelease = 0
BY DEF RowExplained, Active, HeldBy, NoRows

(* A closed job whose postings add up has a row that is explained.         *)
LEMMA ClosedRow ==
    ASSUME NEW r \in Requests, NEW held \in Nat, NEW charge \in Nat, NEW released \in Nat,
           NEW failed \in Nat, held = charge + released + failed,
           TypeOK, ledger[r].reserve = held, ledger[r].release = 0,
           ledger[r].settle = 0, ledger[r].failedRelease = 0,
           Posts(r, 0, released, charge, failed),
           jobs'[r].status \in {"COMPLETED", "FAILED"}
    PROVE  RowExplained(r)' /\ ledger'[r].settle = charge
<1>1. /\ ledger'[r].reserve = held /\ ledger'[r].release = released
      /\ ledger'[r].settle = charge /\ ledger'[r].failedRelease = failed
  BY DEF Posts
<1> QED
  BY <1>1 DEF RowExplained

(* A row that neither changes nor moves its job's money stays explained.   *)
LEMMA SameRow ==
    ASSUME NEW r \in Requests, RowExplained(r), ledger'[r] = ledger[r],
           jobs'[r].status = jobs[r].status, jobs'[r].reserved = jobs[r].reserved
    PROVE  RowExplained(r)'
BY DEF RowExplained, HeldBy, Active

(* One posting more, one sum more.                                         *)
LEMMA SettledTake ==
    ASSUME TypeOK, NEW r \in Requests, NEW charge \in Nat, ledger[r].settle = 0,
           ledger' \in [Requests -> LedgerRows],
           ledger'[r].settle = charge, \A q \in Requests \ {r} : ledger'[q] = ledger[q]
    PROVE  SumOf(Settled') = SumOf(Settled) + charge
<1>1. Settled \in [Requests -> Nat] /\ Settled[r] = 0 /\ IsFiniteSet(Requests)
  BY SettledType, ConstantsAssumption DEF Settled
<1>2. Settled' = [Settled EXCEPT ![r] = charge]
  BY DEF Settled
<1>3. \A f \in [Requests -> Nat] :
        f[r] = 0 => SumOf([f EXCEPT ![r] = charge]) = SumOf(f) + charge
  BY <1>1, SumTake
<1> QED
  BY <1>1, <1>2, <1>3, Zenon

(* Every posting is made with the change it explains.                      *)
LEMMA LedgerStep ==
    ASSUME TypeOK, TypeOK', [Next]_vars, LedgerExplainsRows
    PROVE  LedgerExplainsRows'
<1>1. /\ \A r \in Requests : RowExplained(r)
      /\ account.spent = SumOf(Settled)
      /\ ledger' \in [Requests -> LedgerRows]
  BY DEF LedgerExplainsRows, RowExplained, Settled, TypeOK
<1>2. SUFFICES (\A r \in Requests : RowExplained(r)') /\ account'.spent = SumOf(Settled')
  BY DEF LedgerExplainsRows, RowExplained, Settled
<1>3. ASSUME NEW r \in Requests, NEW charge \in Nat, NEW released \in Nat, NEW failed \in Nat,
             Active(r), jobs[r].reserved = charge + released + failed,
             account'.spent = account.spent + charge,
             Posts(r, 0, released, charge, failed),
             jobs'[r].status \in {"COMPLETED", "FAILED"},
             \A q \in Requests \ {r} : jobs'[q] = jobs[q] /\ ledger'[q] = ledger[q]
      PROVE  (\A q \in Requests : RowExplained(q)') /\ account'.spent = SumOf(Settled')
  <2>1. /\ ledger[r].reserve = jobs[r].reserved
        /\ ledger[r].release = 0 /\ ledger[r].settle = 0 /\ ledger[r].failedRelease = 0
    BY <1>1, <1>3, OpenRow
  <2>2. RowExplained(r)' /\ ledger'[r].settle = charge
    <3>1. PICK held \in Nat : held = charge + released + failed
      OBVIOUS
    <3>2. ledger[r].reserve = held
      BY <1>3, <2>1, <3>1
    <3> QED
      BY <1>3, <2>1, <3>1, <3>2, ClosedRow
  <2>3. \A q \in Requests \ {r} : RowExplained(q)'
    BY <1>1, <1>3, SameRow
  <2>4. SumOf(Settled') = SumOf(Settled) + charge
    BY <1>1, <1>3, <2>1, <2>2, SettledTake
  <2> QED
    BY <1>1, <1>3, <2>2, <2>3, <2>4
<1>4. ASSUME NEW amount \in TopUpAmounts, TopUp(amount) \/ RefundTopUp(amount)
      PROVE  (\A r \in Requests : RowExplained(r)') /\ account'.spent = SumOf(Settled')
  <2>1. account'.spent = account.spent /\ jobs' = jobs /\ ledger' = ledger
    BY <1>4, TopUpEffect, RefundEffect
  <2> QED
    BY <1>1, <2>1, SameRow DEF Settled
<1>5. ASSUME NEW r \in Requests, NEW usable \in BOOLEAN, Complete(r, usable)
      PROVE  (\A q \in Requests : RowExplained(q)') /\ account'.spent = SumOf(Settled')
  <2>1. PICK held \in 0..MaxCharge : held = jobs[r].reserved
    BY DEF TypeOK, Jobs
  <2>2. PICK charge \in 0..held :
           /\ Active(r)
           /\ account'.spent = account.spent + charge
           /\ Closes(r, "COMPLETED", charge, held - charge)
           /\ Posts(r, 0, held - charge, charge, 0)
    BY <1>5, <2>1, CompleteEffect, Zenon
  <2>3. charge \in Nat /\ held - charge \in Nat /\ held = charge + (held - charge) + 0
    BY CapType
  <2> QED
    BY <1>3, <2>1, <2>2, <2>3 DEF Closes
<1>6. ASSUME NEW r \in Requests, FailJob(r)
      PROVE  (\A q \in Requests : RowExplained(q)') /\ account'.spent = SumOf(Settled')
  <2>1. PICK held \in Nat : held = jobs[r].reserved
    BY CapType DEF TypeOK, Jobs
  <2>2. /\ Active(r) /\ account'.spent = account.spent
        /\ Closes(r, "FAILED", jobs[r].final, held)
        /\ Posts(r, 0, 0, 0, held)
    BY <1>6, <2>1, FailEffect
  <2>3. held = 0 + 0 + held /\ account'.spent = account.spent + 0
    BY <2>2 DEF TypeOK, Accounts
  <2> QED
    BY <1>3, <2>1, <2>2, <2>3 DEF Closes
<1>7. ASSUME NEW h \in Handlers, NEW r \in Requests, NEW input \in StartInputs,
             NEW source \in BillingSources, CreateJob(h, r, input, source)
      PROVE  (\A q \in Requests : RowExplained(q)') /\ account'.spent = SumOf(Settled')
  <2>1. PICK held \in 0..MaxCharge :
           /\ jobs[r].status = "NONE" /\ account'.spent = account.spent
           /\ jobs'[r].status = "ACTIVE" /\ jobs'[r].reserved = held
           /\ \A q \in Requests \ {r} : jobs'[q] = jobs[q] /\ ledger'[q] = ledger[q]
           /\ ledger'[r] = [ledger[r] EXCEPT !.reserve = held]
    BY <1>7, CreateEffect, Zenon
  <2>2. ledger[r] = NoRows
    BY <1>1, <2>1 DEF RowExplained, HeldBy, Active, NoRows
  <2>3. RowExplained(r)'
    BY <2>1, <2>2 DEF RowExplained, HeldBy, Active
  <2>4. \A q \in Requests \ {r} : RowExplained(q)'
    BY <1>1, <2>1, SameRow
  <2>5. Settled' = Settled
    BY <2>1, <2>2 DEF Settled, NoRows
  <2> QED
    BY <1>1, <2>1, <2>3, <2>4, <2>5
<1>8. CASE MoneyUntouched
  <2>1. \A r \in Requests : RowExplained(r)'
    BY <1>1, <1>8, SameRow DEF MoneyUntouched
  <2>2. account' = account /\ Settled' = Settled
    BY <1>8 DEF MoneyUntouched, Settled
  <2> QED
    BY <1>1, <2>1, <2>2
<1> QED
  BY <1>4, <1>5, <1>6, <1>7, <1>8, StepKinds, Zenon

(* What a job's postings release and settle is what it reserved, and the   *)
(* settlements of all jobs are what the member has spent.                  *)
THEOREM LedgerIsExplained == Spec => []LedgerExplainsRows
<1>1. Init => LedgerExplainsRows
  <2> SUFFICES ASSUME Init PROVE LedgerExplainsRows
    OBVIOUS
  <2>1. \A r \in Requests : RowExplained(r)
    BY DEF Init, RowExplained, NoRows, NoJob, HeldBy, Active
  <2>2. Settled \in [Requests -> Nat] /\ \A r \in Requests : Settled[r] = 0
    BY DEF Init, Settled, NoRows
  <2>3. SumOf(Settled) = 0 /\ account.spent = 0
    BY <2>2, SumOfZeros DEF Init
  <2> QED
    BY <2>1, <2>3 DEF LedgerExplainsRows, RowExplained, Settled
<1>2. TypeOK /\ TypeOK' /\ LedgerExplainsRows /\ [Next]_vars => LedgerExplainsRows'
  BY LedgerStep
<1> QED
  BY <1>1, <1>2, TypeCorrect, PTL DEF Spec

-----------------------------------------------------------------------------
(* What a step does to the calls and to the costs of their jobs *)

(* The job of request r can be settled when its providers cost that much.  *)
SettledAt(r, cost) ==
    LET quote == QuoteJobCost(Policy, cost, TRUE)
    IN  quote.capSafe /\ (WalletBilled(r) => quote.userCharge <= jobs[r].reserved)

(* Job r costs n from now on; nothing else of any job that matters here    *)
(* changes.                                                                *)
CostBecomes(r, n) ==
    /\ jobs'[r].cost = n
    /\ jobs'[r].status = jobs[r].status
    /\ jobs'[r].source = jobs[r].source
    /\ jobs'[r].reserved = jobs[r].reserved
    /\ \A q \in Requests \ {r} : jobs'[q] = jobs[q]

(* A call that goes on with the job and the estimate it was admitted with. *)
GoesOn(c) == calls'[c].job = calls[c].job /\ calls'[c].estimate = calls[c].estimate

Admits(c) ==
    /\ calls[c].phase = "idle" /\ calls'[c].phase = "routing"
    /\ Cardinality(InFlight) < Concurrency
    /\ calls'[c].job \in Requests /\ calls'[c].estimate \in DOMAIN ActualCosts
    /\ Active(calls'[c].job)
    /\ SettledAt(calls'[c].job, jobs[calls'[c].job].cost + calls'[c].estimate)
    /\ UNCHANGED <<jobs, usage>>

Answers(c) ==
    /\ calls[c].phase = "routing" /\ calls'[c].phase = "answered" /\ GoesOn(c)
    /\ calls'[c].cost \in ActualCosts[calls[c].estimate]
    /\ ~RepeatedIds => /\ usage[calls'[c].id] = NoUsage
                       /\ \A d \in Calls : calls[d].id # calls'[c].id
    /\ UNCHANGED <<jobs, usage>>

Ends(c) == calls'[c].phase = "over" /\ UNCHANGED <<jobs, usage>>

Records(c) ==
    /\ calls[c].phase = "answered" /\ calls'[c].phase = "over"
    /\ usage[calls[c].id] = NoUsage
    /\ usage' = [usage EXCEPT ![calls[c].id] =
                    [job |-> calls[c].job, cost |-> calls[c].cost]]
    /\ CostBecomes(calls[c].job, jobs[calls[c].job].cost + calls[c].cost)

Repeats(c) ==
    /\ calls[c].phase = "answered" /\ calls'[c].phase = "unaggregated" /\ GoesOn(c)
    /\ usage[calls[c].id] # NoUsage
    /\ calls'[c].cost = calls[c].cost
    /\ UNCHANGED <<jobs, usage>>

Reads(c) ==
    /\ calls[c].phase = "unaggregated" /\ calls'[c].phase = "writing" /\ GoesOn(c)
    /\ calls'[c].cost = calls[c].cost
    /\ calls'[c].read = jobs[calls[c].job].cost
    /\ UNCHANGED <<jobs, usage>>

Writes(c) ==
    /\ calls[c].phase = "writing" /\ calls'[c].phase = "over"
    /\ CostBecomes(calls[c].job, calls[c].read + calls[c].cost)
    /\ UNCHANGED usage

(* A row charged with the cost of a call.                                  *)
LEMMA ChargedRow ==
    ASSUME TypeOK, NEW r \in Requests, NEW n, jobs' = [jobs EXCEPT ![r] = Charged(@, n)]
    PROVE  CostBecomes(r, n)
<1>1. jobs \in [Requests -> Jobs] /\ jobs[r] \in Jobs
  BY DEF TypeOK
<1>2. PICK m : m = jobs[r].requestCount + 1
  OBVIOUS
<1>3. PICK row : row = [jobs[r] EXCEPT !.cost = n, !.requestCount = m, !.stale = FALSE]
  OBVIOUS
<1>4. jobs' = [jobs EXCEPT ![r] = row]
  BY <1>2, <1>3, Zenon DEF Charged
<1>5. /\ row.cost = n /\ row.status = jobs[r].status /\ row.source = jobs[r].source
      /\ row.reserved = jobs[r].reserved
  BY <1>1, <1>3 DEF Jobs
<1>6. jobs'[r] = row /\ \A q \in Requests \ {r} : jobs'[q] = jobs[q]
  BY <1>1, <1>4
<1> QED
  BY <1>5, <1>6, Zenon DEF CostBecomes

(* What admission checks is that the job can be settled after the call.    *)
LEMMA AdmissionChecks ==
    ASSUME TypeOK, NEW r \in Requests, NEW estimate \in Nat, NEW optional \in BOOLEAN,
           ProviderCallAllowed(r, estimate, optional)
    PROVE  Active(r) /\ SettledAt(r, jobs[r].cost + estimate)
<1>1. PICK projected : projected = jobs[r].cost + estimate
  OBVIOUS
<1>2. /\ Active(r)
      /\ QuoteJobCost(Policy, projected, TRUE).capSafe
      /\ jobs[r].source \notin FreeSources
            => QuoteJobCost(Policy, projected, TRUE).userCharge <= jobs[r].reserved
  BY <1>1, Zenon DEF ProviderCallAllowed
<1>3. WalletBilled(r) => jobs[r].source \notin FreeSources
  BY DEF WalletBilled, WalletSources, FreeSources
<1> QED
  BY <1>1, <1>2, <1>3, Zenon DEF SettledAt

(* The steps of a call, and that they leave the other calls alone.         *)
LEMMA CallKinds ==
    ASSUME TypeOK, NEW c \in Calls, CallStep(c)
    PROVE  /\ \A d \in Calls \ {c} : calls'[d] = calls[d]
           /\ \/ Admits(c) \/ Answers(c) \/ Ends(c) \/ Records(c)
              \/ Repeats(c) \/ Reads(c) \/ Writes(c)
<1>1. calls \in [Calls -> CallStates] /\ calls[c] \in CallStates
  BY DEF TypeOK
<1>2. OverCall.phase = "over"
  BY DEF OverCall, NewCall
<1>3. ASSUME NEW r \in Requests, NEW estimate \in DOMAIN ActualCosts, NEW optional \in BOOLEAN,
             AdmitCall(c, r, estimate, optional)
      PROVE  Admits(c) /\ \A d \in Calls \ {c} : calls'[d] = calls[d]
  <2>1. PICK call : call = [NewCall EXCEPT !.phase = "routing", !.job = r,
                                           !.estimate = estimate]
    OBVIOUS
  <2>2. call.phase = "routing" /\ call.job = r /\ call.estimate = estimate
    BY <2>1 DEF NewCall
  <2>3. /\ calls[c].phase = "idle" /\ Cardinality(InFlight) < Concurrency
        /\ ProviderCallAllowed(r, estimate, optional)
        /\ calls' = [calls EXCEPT ![c] = call]
        /\ UNCHANGED <<jobs, usage>>
    BY <1>3, <2>1, Zenon DEF AdmitCall
  <2>4. calls'[c] = call /\ \A d \in Calls \ {c} : calls'[d] = calls[d]
    BY <1>1, <2>3
  <2>5. estimate \in Nat
    BY ConstantsAssumption
  <2>6. Active(r) /\ SettledAt(r, jobs[r].cost + estimate)
    BY <2>3, <2>5, AdmissionChecks
  <2> QED
    BY <2>2, <2>3, <2>4, <2>6, Zenon DEF Admits
<1>4. ASSUME NEW id \in ResponseIds,
             NEW cost \in UNION {ActualCosts[e] : e \in DOMAIN ActualCosts},
             ProviderAnswers(c, id, cost)
      PROVE  Answers(c) /\ \A d \in Calls \ {c} : calls'[d] = calls[d]
  <2>1. PICK call : call = [calls[c] EXCEPT !.phase = "answered", !.id = id, !.cost = cost]
    OBVIOUS
  <2>2. /\ call.phase = "answered" /\ call.id = id /\ call.cost = cost
        /\ call.job = calls[c].job /\ call.estimate = calls[c].estimate
    BY <1>1, <2>1 DEF CallStates
  <2>3. /\ calls[c].phase = "routing"
        /\ cost \in ActualCosts[calls[c].estimate]
        /\ RepeatedIds \/ (usage[id] = NoUsage /\ \A d \in Calls : calls[d].id # id)
        /\ UNCHANGED <<jobs, usage>>
    BY <1>4 DEF ProviderAnswers
  <2>4. calls' = [calls EXCEPT ![c] = call]
    BY <1>1, <1>4, <2>1 DEF ProviderAnswers
  <2>5. calls'[c] = call /\ \A d \in Calls \ {c} : calls'[d] = calls[d]
    BY <1>1, <2>4
  <2> QED
    BY <2>2, <2>3, <2>5, Zenon DEF Answers, GoesOn
<1>5. ASSUME CallFails(c)
      PROVE  Ends(c) /\ \A d \in Calls \ {c} : calls'[d] = calls[d]
  BY <1>1, <1>2, <1>5 DEF CallFails, Ends
<1>6. ASSUME RecordUsage(c)
      PROVE  Records(c) /\ \A d \in Calls \ {c} : calls'[d] = calls[d]
  <2>1. calls[c].phase = "answered" /\ calls[c].job \in Requests
    BY <1>6 DEF RecordUsage, TypeOK, CallsNameRows
  <2>2. /\ usage[calls[c].id] = NoUsage
        /\ usage' = [usage EXCEPT ![calls[c].id] =
                        [job |-> calls[c].job, cost |-> calls[c].cost]]
        /\ calls' = [calls EXCEPT ![c] = OverCall]
    BY <1>6, Zenon DEF RecordUsage
  <2>3. PICK n : n = jobs[calls[c].job].cost + calls[c].cost
    OBVIOUS
  <2>4. jobs' = [jobs EXCEPT ![calls[c].job] = Charged(@, n)]
    BY <1>6, <2>3, Zenon DEF RecordUsage
  <2>5. CostBecomes(calls[c].job, n)
    BY <2>1, <2>4, ChargedRow
  <2>6. calls'[c].phase = "over" /\ \A d \in Calls \ {c} : calls'[d] = calls[d]
    BY <1>1, <1>2, <2>2
  <2> QED
    BY <2>1, <2>2, <2>3, <2>5, <2>6, Zenon DEF Records
<1>7. ASSUME RecordDuplicate(c)
      PROVE  Repeats(c) /\ \A d \in Calls \ {c} : calls'[d] = calls[d]
  <2>1. PICK call : call = [calls[c] EXCEPT !.phase = "unaggregated"]
    OBVIOUS
  <2>2. /\ call.phase = "unaggregated" /\ call.cost = calls[c].cost
        /\ call.job = calls[c].job /\ call.estimate = calls[c].estimate
    BY <1>1, <2>1 DEF CallStates
  <2>3. calls' = [calls EXCEPT ![c] = call]
    BY <1>1, <1>7, <2>1 DEF RecordDuplicate
  <2>4. calls'[c] = call /\ \A d \in Calls \ {c} : calls'[d] = calls[d]
    BY <1>1, <2>3
  <2> QED
    BY <1>7, <2>2, <2>4 DEF Repeats, RecordDuplicate, GoesOn
<1>8. ASSUME ReadJobCost(c)
      PROVE  (Reads(c) \/ Ends(c)) /\ \A d \in Calls \ {c} : calls'[d] = calls[d]
  <2>1. PICK call : call = [calls[c] EXCEPT !.phase = "writing",
                                            !.read = jobs[calls[c].job].cost]
    OBVIOUS
  <2>2. /\ call.phase = "writing" /\ call.cost = calls[c].cost
        /\ call.job = calls[c].job /\ call.estimate = calls[c].estimate
        /\ call.read = jobs[calls[c].job].cost
    BY <1>1, <2>1 DEF CallStates
  <2>3. /\ calls[c].phase = "unaggregated" /\ UNCHANGED <<jobs, usage>>
        /\ \/ calls' = [calls EXCEPT ![c] = call]
           \/ calls' = [calls EXCEPT ![c] = OverCall]
    BY <1>8, <2>1, Zenon DEF ReadJobCost
  <2>4. /\ calls'[c] = call \/ calls'[c] = OverCall
        /\ \A d \in Calls \ {c} : calls'[d] = calls[d]
    BY <1>1, <2>3
  <2> QED
    BY <1>2, <2>2, <2>3, <2>4 DEF Reads, Ends, GoesOn
<1>9. ASSUME WriteJobCost(c)
      PROVE  Writes(c) /\ \A d \in Calls \ {c} : calls'[d] = calls[d]
  <2>1. calls[c].phase = "writing" /\ calls[c].job \in Requests
    BY <1>9 DEF WriteJobCost, TypeOK, CallsNameRows
  <2>2. PICK n : n = calls[c].read + calls[c].cost
    OBVIOUS
  <2>3. /\ jobs' = [jobs EXCEPT ![calls[c].job] = Charged(@, n)]
        /\ calls' = [calls EXCEPT ![c] = OverCall] /\ UNCHANGED usage
    BY <1>9, <2>2, Zenon DEF WriteJobCost
  <2>4. CostBecomes(calls[c].job, n)
    BY <2>1, <2>3, ChargedRow
  <2>5. calls'[c].phase = "over" /\ \A d \in Calls \ {c} : calls'[d] = calls[d]
    BY <1>1, <1>2, <2>3
  <2> QED
    BY <2>1, <2>2, <2>3, <2>4, <2>5, Zenon DEF Writes
<1> QED
  BY <1>3, <1>4, <1>5, <1>6, <1>7, <1>8, <1>9, Zenon DEF CallStep

(* The terms of a job: what it cost and what it can be charged.            *)
Kept(r) ==
    /\ jobs'[r].cost = jobs[r].cost
    /\ jobs'[r].source = jobs[r].source
    /\ jobs'[r].reserved = jobs[r].reserved
    /\ jobs'[r].status = "NONE" <=> jobs[r].status = "NONE"
    /\ Active(r)' => Active(r)

Opened(r) ==
    /\ jobs[r].status = "NONE" /\ jobs'[r].status = "ACTIVE" /\ jobs'[r].cost = 0
    /\ \E input \in StartInputs :
          jobs'[r].source \in WalletSources
             => jobs'[r].reserved = EstimateAnalysisJob(Policy, input).reservation

(* A step that is no call's opens a job or keeps the terms of every job;   *)
(* a crash ends the calls, any other step leaves them alone.               *)
LEMMA OtherKinds ==
    ASSUME TypeOK, [Next]_vars
    PROVE  \/ \E c \in Calls : CallStep(c)
           \/ /\ \A r \in Requests : Kept(r) \/ Opened(r)
              /\ usage' = usage
              /\ \A c \in Calls : calls'[c] = calls[c] \/ calls'[c].phase = "over"
<1>1. /\ jobs \in [Requests -> Jobs]
      /\ calls \in [Calls -> CallStates]
      /\ OverCall.phase = "over"
  BY DEF TypeOK, OverCall, NewCall
<1>2. jobs' = jobs => \A r \in Requests : Kept(r)
  BY Zenon DEF Kept, Active
<1>3. ASSUME NEW r \in Requests, jobs[r].status = "ACTIVE", NEW row,
             jobs' = [jobs EXCEPT ![r] = row], row.status # "NONE",
             row.cost = jobs[r].cost, row.source = jobs[r].source,
             row.reserved = jobs[r].reserved
      PROVE  \A q \in Requests : Kept(q)
  <2>1. jobs'[r] = row /\ \A q \in Requests \ {r} : jobs'[q] = jobs[q]
    BY <1>1, <1>3
  <2> QED
    BY <1>3, <2>1 DEF Kept, Active
<1>4. ASSUME NEW r \in Requests, NEW usable \in BOOLEAN, Complete(r, usable)
      PROVE  (\A q \in Requests : Kept(q)) /\ UNCHANGED <<calls, usage>>
  <2>1. PICK final, released :
           jobs' = [jobs EXCEPT ![r].status = "COMPLETED", ![r].final = final,
                                ![r].released = released, ![r].stale = FALSE]
    BY <1>4, Zenon DEF Complete
  <2>2. PICK row : row = [jobs[r] EXCEPT !.status = "COMPLETED", !.final = final,
                                         !.released = released, !.stale = FALSE]
    OBVIOUS
  <2>3. /\ jobs' = [jobs EXCEPT ![r] = row] /\ row.status # "NONE"
        /\ row.cost = jobs[r].cost /\ row.source = jobs[r].source
        /\ row.reserved = jobs[r].reserved
    BY <1>1, <2>1, <2>2 DEF Jobs
  <2>4. Active(r) /\ UNCHANGED <<calls, usage>>
    BY <1>4, Zenon DEF Complete, Completable
  <2>5. jobs[r].status = "ACTIVE"
    BY <2>4 DEF Active
  <2>6. \A q \in Requests : Kept(q)
    BY <1>3, <2>3, <2>5
  <2> QED
    BY <2>4, <2>6
<1>5. ASSUME NEW r \in Requests, FailJob(r)
      PROVE  (\A q \in Requests : Kept(q)) /\ UNCHANGED <<calls, usage>>
  <2>1. PICK row : row = [jobs[r] EXCEPT !.status = "FAILED",
                                         !.released = jobs[r].reserved, !.stale = FALSE]
    OBVIOUS
  <2>2. /\ jobs' = [jobs EXCEPT ![r] = row] /\ row.status # "NONE"
        /\ row.cost = jobs[r].cost /\ row.source = jobs[r].source
        /\ row.reserved = jobs[r].reserved
    BY <1>1, <1>5, <2>1 DEF Jobs, FailJob
  <2>3. jobs[r].status = "ACTIVE" /\ UNCHANGED <<calls, usage>>
    BY <1>5 DEF FailJob, Active
  <2>4. \A q \in Requests : Kept(q)
    BY <1>3, <2>2, <2>3
  <2> QED
    BY <2>3, <2>4
<1>6. ASSUME NEW r \in Requests, GrowStale(r)
      PROVE  (\A q \in Requests : Kept(q)) /\ UNCHANGED <<calls, usage>>
  <2>1. PICK row : row = [jobs[r] EXCEPT !.stale = TRUE]
    OBVIOUS
  <2>2. /\ jobs' = [jobs EXCEPT ![r] = row] /\ row.status = jobs[r].status
        /\ row.cost = jobs[r].cost /\ row.source = jobs[r].source
        /\ row.reserved = jobs[r].reserved
    BY <1>1, <1>6, <2>1 DEF Jobs, GrowStale
  <2>3. jobs[r].status = "ACTIVE" /\ UNCHANGED <<calls, usage>>
    BY <1>6 DEF GrowStale, Active
  <2>4. \A q \in Requests : Kept(q)
    BY <1>3, <2>2, <2>3
  <2> QED
    BY <2>3, <2>4
<1>7. ASSUME NEW h \in Handlers, NEW r \in Requests, NEW input \in StartInputs,
             NEW source \in BillingSources, CreateJob(h, r, input, source)
      PROVE  (\A q \in Requests : Kept(q) \/ Opened(q)) /\ UNCHANGED <<calls, usage>>
  <2>1. PICK held : held = IF source \in WalletSources
                           THEN EstimateAnalysisJob(Policy, input).reservation ELSE 0
    OBVIOUS
  <2>2. PICK row : row = [NoJob EXCEPT !.status = "ACTIVE", !.source = source,
                                       !.reserved = held]
    OBVIOUS
  <2>3. /\ jobs[r].status = "NONE" /\ jobs' = [jobs EXCEPT ![r] = row]
        /\ UNCHANGED <<calls, usage>>
    BY <1>7, <2>1, <2>2, Zenon DEF CreateJob
  <2>4. row.status = "ACTIVE" /\ row.source = source /\ row.reserved = held /\ row.cost = 0
    BY <2>2 DEF NoJob
  <2>5. jobs'[r] = row /\ \A q \in Requests \ {r} : jobs'[q] = jobs[q]
    BY <1>1, <2>3
  <2>6. Opened(r)
    BY <2>1, <2>3, <2>4, <2>5, Zenon DEF Opened
  <2>7. \A q \in Requests \ {r} : Kept(q)
    BY <2>5 DEF Kept, Active
  <2> QED
    BY <2>3, <2>6, <2>7
<1>8. ASSUME NEW h \in Handlers, HandlerStep(h)
      PROVE  (\A q \in Requests : Kept(q) \/ Opened(q)) /\ UNCHANGED <<calls, usage>>
  BY <1>2, <1>5, <1>7, <1>8, Zenon
     DEF HandlerStep, BeginSummary, EndSummary, BeginStart, RecoverJob, SkipJob, StartWithoutJob
<1>9. CASE Crash
  <2>1. /\ UNCHANGED <<jobs, usage>>
        /\ calls' = [c \in Calls |-> IF c \in InFlight THEN OverCall ELSE calls[c]]
    BY <1>9 DEF Crash
  <2>2. \A c \in Calls : calls'[c] = calls[c] \/ calls'[c].phase = "over"
    BY <1>1, <2>1
  <2> QED
    BY <1>2, <2>1, <2>2
<1>10. ASSUME NEW amount \in TopUpAmounts, TopUp(amount) \/ RefundTopUp(amount)
       PROVE  UNCHANGED <<jobs, calls, usage>>
  BY <1>10, Zenon DEF TopUp, RefundTopUp
<1>11. UNCHANGED vars => UNCHANGED <<jobs, calls, usage>>
  BY Zenon DEF vars
<1> QED
  BY <1>2, <1>4, <1>5, <1>6, <1>8, <1>9, <1>10, <1>11, Zenon
     DEF Next, PaymentStep, ClientStep, ClientCompletes, ClientFails

(* A call names a job that was started.                                    *)
CallsNameJobs == \A c \in InFlight : jobs[calls[c].job].status # "NONE"

LEMMA NamesStep ==
    ASSUME TypeOK, TypeOK', [Next]_vars, CallsNameJobs
    PROVE  CallsNameJobs'
<1>1. \A c \in Calls : calls[c].phase \notin {"idle", "over"} =>
         calls[c].job \in Requests /\ jobs[calls[c].job].status # "NONE"
  BY DEF TypeOK, CallsNameRows, CallsNameJobs, InFlight
<1>2. SUFFICES ASSUME NEW c \in Calls, calls'[c].phase \notin {"idle", "over"}
               PROVE  jobs'[calls'[c].job].status # "NONE"
  BY DEF CallsNameJobs, InFlight
<1>3. ASSUME NEW d \in Calls, CallStep(d)
      PROVE  jobs'[calls'[c].job].status # "NONE"
  <2>1. \A r \in Requests : jobs[r].status # "NONE" => jobs'[r].status # "NONE"
    BY <1>3, CallKinds DEF Admits, Answers, Ends, Records, Repeats, Reads, Writes, CostBecomes
  <2>2. CASE c = d
    <3>1. CASE Admits(d)
      BY <2>1, <2>2, <3>1 DEF Admits, Active
    <3>2. CASE Answers(d) \/ Repeats(d) \/ Reads(d)
      BY <1>1, <2>1, <2>2, <3>2 DEF Answers, Repeats, Reads, GoesOn
    <3> QED
      BY <1>2, <1>3, <2>2, <3>1, <3>2, CallKinds DEF Ends, Records, Writes
  <2>3. CASE c # d
    BY <1>1, <1>2, <1>3, <2>1, <2>3, CallKinds
  <2> QED
    BY <2>2, <2>3
<1>4. CASE /\ \A r \in Requests : Kept(r) \/ Opened(r)
           /\ \A d \in Calls : calls'[d] = calls[d] \/ calls'[d].phase = "over"
  BY <1>1, <1>2, <1>4 DEF Kept, Opened
<1> QED
  BY <1>3, <1>4, OtherKinds

LEMMA NamesHold == Spec => []CallsNameJobs
<1>1. Init => CallsNameJobs
  BY DEF Init, CallsNameJobs, InFlight, NewCall
<1>2. TypeOK /\ TypeOK' /\ [Next]_vars /\ CallsNameJobs => CallsNameJobs'
  BY NamesStep
<1> QED
  BY <1>1, <1>2, TypeCorrect, PTL DEF Spec

-----------------------------------------------------------------------------
(* A job costs what its usage rows cost *)

CostsOf(r) == [i \in ResponseIds |-> IF usage[i].job = r THEN usage[i].cost ELSE 0]

LEMMA CostsType ==
    ASSUME TypeOK, NEW r PROVE CostsOf(r) \in [ResponseIds -> Nat]
BY DEF TypeOK, Usages, NoUsage, CostsOf

(* While no response id comes twice, an answer waits for a row that does   *)
(* not exist yet, no two answers wait for the same one, and the way around *)
(* UsageService.record is never taken.                                     *)
AnswersAreNew ==
    /\ \A c \in Calls : calls[c].phase \notin {"unaggregated", "writing"}
    /\ \A c \in Calls : calls[c].phase = "answered" =>
          /\ usage[calls[c].id] = NoUsage
          /\ \A d \in Calls \ {c} : calls[d].phase = "answered" => calls[d].id # calls[c].id
    /\ \A r \in Requests : jobs[r].status = "NONE" => jobs[r].cost = 0

(* A usage row more is its cost more, for its job and for no other.        *)
LEMMA CostsTake ==
    ASSUME TypeOK, TypeOK', NEW i \in ResponseIds, NEW job, NEW cost \in Nat,
           usage[i] = NoUsage, usage' = [usage EXCEPT ![i] = [job |-> job, cost |-> cost]],
           NEW r
    PROVE  SumOf(CostsOf(r)') = SumOf(CostsOf(r)) + (IF r = job THEN cost ELSE 0)
<1>1. PICK f \in [ResponseIds -> Nat] : f = CostsOf(r)
  BY CostsType
<1>2. PICK g \in [ResponseIds -> Nat] : g = CostsOf(r)'
  <2>1. CostsOf(r)' \in [ResponseIds -> Nat]
    BY DEF TypeOK, Usages, NoUsage, CostsOf
  <2> QED
    BY <2>1
<1>3. f[i] = 0 /\ g[i] = (IF r = job THEN cost ELSE 0)
  BY <1>1, <1>2 DEF CostsOf, NoUsage, TypeOK
<1>4. \A j \in ResponseIds \ {i} : g[j] = f[j]
  BY <1>1, <1>2 DEF CostsOf, TypeOK
<1>5. SumOf(g) + f[i] = SumOf(f) + g[i]
  BY <1>4, SumChange, ConstantsAssumption
<1>6. SumOf(g) \in Nat /\ SumOf(f) \in Nat
  BY SumType, ConstantsAssumption
<1>7. SumOf(g) = SumOf(f) + (IF r = job THEN cost ELSE 0)
  BY <1>3, <1>5, <1>6
<1> QED
  BY <1>1, <1>2, <1>7

LEMMA CostStep ==
    ASSUME ~RepeatedIds, TypeOK, TypeOK', [Next]_vars, CallsNameJobs,
           AnswersAreNew, JobCostCountsUsageOnce
    PROVE  AnswersAreNew' /\ JobCostCountsUsageOnce'
<1>1. /\ \A r \in Requests : jobs[r].cost = SumOf(CostsOf(r))
      /\ \A r \in Requests : jobs[r].cost \in Nat
      /\ usage \in [ResponseIds -> Usages \union {NoUsage}]
  BY DEF JobCostCountsUsageOnce, CostsOf, TypeOK, Jobs
<1>2. \A c \in Calls : calls[c].phase = "answered" =>
         /\ calls[c].job \in Requests /\ calls[c].id \in ResponseIds
         /\ calls[c].cost \in Nat /\ jobs[calls[c].job].status # "NONE"
  BY DEF TypeOK, CallsNameRows, CallStates, CallsNameJobs, InFlight
<1>3. ASSUME UNCHANGED usage, \A r \in Requests : jobs'[r].cost = jobs[r].cost
      PROVE  JobCostCountsUsageOnce'
  <2>1. \A r : CostsOf(r)' = CostsOf(r)
    BY <1>3 DEF CostsOf
  <2>2. \A r \in Requests : jobs'[r].cost = SumOf(CostsOf(r)')
    BY <1>1, <1>3, <2>1
  <2> QED
    BY <2>2 DEF JobCostCountsUsageOnce, CostsOf
<1>4. ASSUME NEW c \in Calls, CallStep(c), UNCHANGED <<jobs, usage>>,
             calls'[c].phase \in {"routing", "over"}
      PROVE  AnswersAreNew' /\ JobCostCountsUsageOnce'
  <2>1. \A d \in Calls \ {c} : calls'[d] = calls[d]
    BY <1>4, CallKinds
  <2>2. AnswersAreNew'
    BY <1>4, <2>1 DEF AnswersAreNew
  <2> QED
    BY <1>3, <1>4, <2>2
<1>5. ASSUME NEW c \in Calls, CallStep(c), Answers(c)
      PROVE  AnswersAreNew' /\ JobCostCountsUsageOnce'
  <2>1. \A d \in Calls \ {c} : calls'[d] = calls[d]
    BY <1>5, CallKinds
  <2>2. /\ UNCHANGED <<jobs, usage>> /\ calls'[c].phase = "answered"
        /\ usage[calls'[c].id] = NoUsage
        /\ \A d \in Calls : calls[d].id # calls'[c].id
    BY <1>5 DEF Answers
  <2>3. AnswersAreNew'
    BY <2>1, <2>2 DEF AnswersAreNew
  <2> QED
    BY <1>3, <2>2, <2>3
<1>6. ASSUME NEW c \in Calls, CallStep(c), Records(c)
      PROVE  AnswersAreNew' /\ JobCostCountsUsageOnce'
  <2>1. \A d \in Calls \ {c} : calls'[d] = calls[d]
    BY <1>6, CallKinds
  <2>2. PICK job \in Requests, i \in ResponseIds, cost \in Nat :
           /\ job = calls[c].job /\ i = calls[c].id /\ cost = calls[c].cost
           /\ jobs[job].status # "NONE"
    BY <1>2, <1>6 DEF Records
  <2>3. /\ usage[i] = NoUsage
        /\ usage' = [usage EXCEPT ![i] = [job |-> job, cost |-> cost]]
        /\ calls[c].phase = "answered" /\ calls'[c].phase = "over"
        /\ CostBecomes(job, jobs[job].cost + cost)
    BY <1>6, <2>2, Zenon DEF Records
  <2>4. AnswersAreNew'
    <3>1. \A d \in Calls : calls'[d].phase \notin {"unaggregated", "writing"}
      BY <2>1, <2>3 DEF AnswersAreNew
    <3>2. ASSUME NEW d \in Calls, calls'[d].phase = "answered"
          PROVE  /\ usage'[calls'[d].id] = NoUsage
                 /\ \A e \in Calls \ {d} :
                       calls'[e].phase = "answered" => calls'[e].id # calls'[d].id
      <4>1. d # c /\ calls'[d] = calls[d] /\ calls[d].id # calls[c].id
        BY <2>1, <2>3, <3>2 DEF AnswersAreNew
      <4>2. usage[calls[d].id] = NoUsage /\ calls[d].id \in ResponseIds
        BY <1>2, <3>2, <4>1 DEF AnswersAreNew
      <4>3. usage'[calls[d].id] = NoUsage
        BY <1>1, <2>2, <2>3, <4>1, <4>2
      <4> QED
        BY <2>1, <2>3, <3>2, <4>1, <4>3 DEF AnswersAreNew
    <3>3. \A r \in Requests : jobs'[r].status = "NONE" => jobs'[r].cost = 0
      BY <2>2, <2>3 DEF AnswersAreNew, CostBecomes
    <3> QED
      BY <3>1, <3>2, <3>3 DEF AnswersAreNew
  <2>5. ASSUME NEW r \in Requests PROVE jobs'[r].cost = SumOf(CostsOf(r)')
    <3>1. SumOf(CostsOf(r)') = SumOf(CostsOf(r)) + (IF r = job THEN cost ELSE 0)
      BY <2>3, CostsTake
    <3>2. jobs'[r].cost = (IF r = job THEN jobs[job].cost + cost ELSE jobs[r].cost)
      BY <2>3 DEF CostBecomes
    <3> QED
      BY <1>1, <3>1, <3>2
  <2> QED
    BY <2>4, <2>5 DEF JobCostCountsUsageOnce, CostsOf
<1>7. ASSUME NEW c \in Calls, CallStep(c)
      PROVE  AnswersAreNew' /\ JobCostCountsUsageOnce'
  <2>1. calls[c].phase \notin {"unaggregated", "writing"}
        /\ (calls[c].phase = "answered" => usage[calls[c].id] = NoUsage)
    BY DEF AnswersAreNew
  <2>2. Admits(c) \/ Answers(c) \/ Ends(c) \/ Records(c)
    BY <1>7, <2>1, CallKinds DEF Repeats, Reads, Writes
  <2> QED
    BY <1>4, <1>5, <1>6, <1>7, <2>2 DEF Admits, Ends
<1>8. CASE /\ \A r \in Requests : Kept(r) \/ Opened(r)
           /\ usage' = usage
           /\ \A c \in Calls : calls'[c] = calls[c] \/ calls'[c].phase = "over"
  <2>1. \A r \in Requests : jobs'[r].cost = jobs[r].cost
    BY <1>8 DEF Kept, Opened, AnswersAreNew
  <2>2. AnswersAreNew'
    BY <1>8, <2>1 DEF AnswersAreNew, Kept, Opened
  <2> QED
    BY <1>3, <1>8, <2>1, <2>2
<1> QED
  BY <1>7, <1>8, OtherKinds

(* Where providers do not reuse response ids, the cost that a job is       *)
(* charged for counts every usage row once, whatever the job's status was  *)
(* when the row came: after a crash, a late answer or a recovery, too.     *)
THEOREM JobCostIsUsageCost ==
    ASSUME ~RepeatedIds
    PROVE  Spec => []JobCostCountsUsageOnce
<1>1. Init => AnswersAreNew /\ JobCostCountsUsageOnce
  <2> SUFFICES ASSUME Init PROVE AnswersAreNew /\ JobCostCountsUsageOnce
    OBVIOUS
  <2>1. AnswersAreNew
    BY DEF Init, AnswersAreNew, NewCall, NoJob
  <2>2. ASSUME NEW r \in Requests PROVE jobs[r].cost = SumOf(CostsOf(r))
    <3>1. CostsOf(r) \in [ResponseIds -> Nat] /\ \A i \in ResponseIds : CostsOf(r)[i] = 0
      BY DEF Init, CostsOf, NoUsage
    <3>2. SumOf(CostsOf(r)) = 0
      BY <3>1, SumOfZeros
    <3> QED
      BY <3>2 DEF Init, NoJob
  <2> QED
    BY <2>1, <2>2 DEF JobCostCountsUsageOnce, CostsOf
<1>2. /\ TypeOK /\ TypeOK' /\ [Next]_vars /\ CallsNameJobs
      /\ AnswersAreNew /\ JobCostCountsUsageOnce
      => (AnswersAreNew /\ JobCostCountsUsageOnce)'
  BY CostStep
<1> QED
  BY <1>1, <1>2, TypeCorrect, NamesHold, PTL DEF Spec

-----------------------------------------------------------------------------
(* An open job can be settled *)

(* A job that can be settled at a cost can be settled at a lower one.      *)
LEMMA SettledBelow ==
    ASSUME TypeOK, NEW r \in Requests, NEW low \in Nat, NEW high \in Nat, low <= high,
           SettledAt(r, high)
    PROVE  SettledAt(r, low)
<1>1. /\ ProtectedPrice(Policy, low) \in Nat /\ ProtectedPrice(Policy, high) \in Nat
      /\ ProtectedPrice(Policy, low) <= ProtectedPrice(Policy, high)
  BY ProtectedPriceFacts, PriceFacts, ConstantsAssumption
<1>2. /\ Policy.maximumJobCharge \in Nat /\ Policy.hardProviderCost \in Nat
      /\ jobs[r].reserved \in Nat
  BY ConstantsAssumption, PolicyFields DEF TypeOK, Jobs, MaxCharge
<1>3. /\ ProtectedPrice(Policy, high) <= Policy.maximumJobCharge
      /\ high <= Policy.hardProviderCost
      /\ WalletBilled(r) => ProtectedPrice(Policy, high) <= jobs[r].reserved
  BY DEF SettledAt, QuoteJobCost
<1>4. /\ ProtectedPrice(Policy, low) <= Policy.maximumJobCharge
      /\ low <= Policy.hardProviderCost
      /\ WalletBilled(r) => ProtectedPrice(Policy, low) <= jobs[r].reserved
  BY <1>1, <1>2, <1>3
<1> QED
  BY <1>4 DEF SettledAt, QuoteJobCost

(* A job that has just been opened can be settled, as nothing was spent.   *)
LEMMA SettledAtStart ==
    ASSUME NEW r \in Requests, Opened(r)
    PROVE  SettledAt(r, 0)'
<1>1. PICK input \in StartInputs :
         jobs'[r].source \in WalletSources
            => jobs'[r].reserved = EstimateAnalysisJob(Policy, input).reservation
  BY DEF Opened
<1>2. input \in [seconds : Nat, clips : Nat] /\ ValidPolicy(Policy)
  BY ConstantsAssumption
<1>3. 0 <= EstimatedProviderCost(Policy, input.seconds, input.clips)
      /\ 0 <= Policy.hardProviderCost
  <2>1. input.seconds \in Nat /\ input.clips \in Nat
    BY <1>2
  <2>2. EstimatedProviderCost(Policy, input.seconds, input.clips) \in Nat
    BY <1>2, <2>1, EstimateIsBounded
  <2>3. Policy.hardProviderCost \in Nat
    BY <1>2, PolicyFields
  <2> QED
    BY <2>2, <2>3
<1>4. QuoteJobCost(Policy, 0, TRUE).userCharge
         <= EstimateAnalysisJob(Policy, input).reservation
  BY <1>2, <1>3, EstimateCoversJob
<1>5. QuoteJobCost(Policy, 0, TRUE).capSafe
  BY <1>2, <1>3, HardLimitIsSettled
<1> QED
  BY <1>1, <1>4, <1>5, Zenon DEF SettledAt, WalletBilled

(* While one call runs at a time and stays within its estimate, its job    *)
(* can still be settled when it is over: the check made before the call    *)
(* is not overtaken by another one's cost.                                 *)
CallIsAffordable(c) ==
    /\ calls[c].estimate \in DOMAIN ActualCosts
    /\ calls[c].phase # "routing" => calls[c].cost <= calls[c].estimate
    /\ calls[c].phase = "writing" => calls[c].read <= jobs[calls[c].job].cost
    /\ Active(calls[c].job)
          => SettledAt(calls[c].job, jobs[calls[c].job].cost + calls[c].estimate)

OneCall == \A c \in InFlight : \A d \in InFlight : c = d

CallsAreAffordable == OneCall /\ \A c \in InFlight : CallIsAffordable(c)

(* A job's terms decide what it can be settled at.                         *)
LEMMA KeptSettled ==
    ASSUME NEW r \in Requests, NEW cost, jobs'[r].source = jobs[r].source,
           jobs'[r].reserved = jobs[r].reserved, SettledAt(r, cost)
    PROVE  SettledAt(r, cost)'
BY Zenon DEF SettledAt, WalletBilled

LEMMA SettleStep ==
    ASSUME Concurrency = 1, \A e \in DOMAIN ActualCosts : ActualCosts[e] \subseteq 0..e,
           TypeOK, TypeOK', [Next]_vars, CallsNameJobs,
           CallsAreAffordable, OpenJobsCanBeSettled
    PROVE  CallsAreAffordable' /\ OpenJobsCanBeSettled'
<1> DEFINE CanSettle(r) == Active(r) => SettledAt(r, jobs[r].cost)
           Running(c) == calls[c].phase \notin {"idle", "over"}
<1>1. /\ \A r \in Requests : CanSettle(r)
      /\ \A r \in Requests : jobs[r].cost \in Nat
      /\ \A c \in Calls : Running(c) =>
            /\ c \in InFlight
            /\ CallIsAffordable(c)
            /\ calls[c].job \in Requests /\ jobs[calls[c].job].status # "NONE"
            /\ calls[c].estimate \in Nat /\ calls[c].cost \in Nat /\ calls[c].read \in Nat
            /\ \A d \in Calls : Running(d) => c = d
  BY DEF OpenJobsCanBeSettled, SettledAt, Quote, CallsAreAffordable, OneCall, InFlight,
         TypeOK, Jobs, CallStates, CallsNameRows, CallsNameJobs
<1>2. SUFFICES /\ \A r \in Requests : CanSettle(r)'
               /\ \A c \in Calls : Running(c)' => CallIsAffordable(c)'
               /\ \A c, d \in Calls : Running(c)' /\ Running(d)' => c = d
  BY DEF OpenJobsCanBeSettled, SettledAt, Quote, CallsAreAffordable, OneCall, InFlight, WalletBilled
<1>3. ASSUME \A r \in Requests : Kept(r) \/ Opened(r),
             \A c \in Calls : calls'[c] = calls[c] \/ calls'[c].phase = "over"
      PROVE  /\ \A r \in Requests : CanSettle(r)'
             /\ \A c \in Calls : Running(c)' => CallIsAffordable(c)'
             /\ \A c, d \in Calls : Running(c)' /\ Running(d)' => c = d
  <2>1. ASSUME NEW r \in Requests PROVE CanSettle(r)'
    <3>1. CASE Kept(r)
      <4>1. SettledAt(r, jobs[r].cost) => SettledAt(r, jobs[r].cost)'
        BY <3>1, Zenon DEF Kept, SettledAt, WalletBilled
      <4> QED
        BY <1>1, <3>1, <4>1 DEF Kept, SettledAt
    <3>2. CASE Opened(r)
      <4>1. SettledAt(r, 0)' /\ jobs'[r].cost = 0
        BY <3>2, SettledAtStart DEF Opened
      <4> QED
        BY <4>1 DEF SettledAt
    <3> QED
      BY <1>3, <3>1, <3>2
  <2>2. ASSUME NEW c \in Calls, Running(c)' PROVE CallIsAffordable(c)'
    <3>1. calls'[c] = calls[c] /\ Running(c)
      BY <1>3, <2>2
    <3>2. PICK r \in Requests : r = calls[c].job
      BY <1>1, <3>1
    <3>3. Kept(r) /\ CallIsAffordable(c)
      BY <1>1, <1>3, <3>1, <3>2 DEF Opened
    <3>4. PICK n : n = jobs[r].cost + calls[c].estimate
      OBVIOUS
    <3>5. Active(r)' => SettledAt(r, n)'
      <4>1. SettledAt(r, n) => SettledAt(r, n)'
        BY <3>3, KeptSettled DEF Kept
      <4> QED
        BY <3>2, <3>3, <3>4, <4>1 DEF CallIsAffordable, Kept
    <3>6. /\ calls'[c].job = r /\ n = jobs'[r].cost + calls'[c].estimate
          /\ jobs'[r].cost = jobs[r].cost
      BY <3>1, <3>2, <3>3, <3>4 DEF Kept
    <3>7. Active(calls[c].job)'
             => SettledAt(calls[c].job, jobs[calls[c].job].cost + calls[c].estimate)'
      BY <3>5, <3>6, Zenon DEF SettledAt, WalletBilled, Active
    <3> QED
      BY <3>1, <3>2, <3>3, <3>6, <3>7 DEF CallIsAffordable
  <2>3. ASSUME NEW c \in Calls, NEW d \in Calls, Running(c)', Running(d)' PROVE c = d
    BY <1>1, <1>3, <2>3
  <2> QED
    BY <2>1, <2>2, <2>3
<1>4. ASSUME NEW c \in Calls, CallStep(c)
      PROVE  /\ \A r \in Requests : CanSettle(r)'
             /\ \A d \in Calls : Running(d)' => CallIsAffordable(d)'
             /\ \A d, e \in Calls : Running(d)' /\ Running(e)' => d = e
  <2>1. \A d \in Calls \ {c} : calls'[d] = calls[d]
    BY <1>4, CallKinds
  <2>2. ASSUME jobs' = jobs PROVE \A r \in Requests : CanSettle(r)'
    BY <1>1, <2>2 DEF SettledAt, WalletBilled, Active
  <2>3. CASE Running(c)
    <3>1. \A d \in Calls \ {c} : ~Running(d) /\ ~Running(d)'
      BY <1>1, <2>1, <2>3
    <3>2. PICK r \in Requests : r = calls[c].job
      BY <1>1, <2>3
    <3>3. CASE calls'[c].phase = "over" /\ jobs' = jobs
      BY <2>2, <3>1, <3>3
    <3>4. ASSUME NEW n \in Nat, n <= jobs[r].cost + calls[c].estimate,
                 CostBecomes(r, n), calls'[c].phase = "over"
          PROVE  /\ \A q \in Requests : CanSettle(q)'
                 /\ \A d \in Calls : Running(d)' => CallIsAffordable(d)'
                 /\ \A d, e \in Calls : Running(d)' /\ Running(e)' => d = e
      <4>1. CanSettle(r)'
        <5>1. PICK high \in Nat : high = jobs[r].cost + calls[c].estimate
          BY <1>1, <2>3, <3>2
        <5>2. Active(r) => SettledAt(r, high)
          BY <1>1, <2>3, <3>2, <5>1 DEF CallIsAffordable
        <5>3. Active(r) => SettledAt(r, n)
          BY <3>4, <5>1, <5>2, SettledBelow
        <5>4. SettledAt(r, n) => SettledAt(r, n)'
          BY <3>4, KeptSettled DEF CostBecomes
        <5> QED
          BY <3>4, <5>3, <5>4 DEF CostBecomes, Active, SettledAt
      <4>2. \A q \in Requests \ {r} : CanSettle(q)'
        BY <1>1, <3>4 DEF CostBecomes, Active, SettledAt, WalletBilled
      <4> QED
        BY <3>1, <3>4, <4>1, <4>2
    <3>5. CASE Records(c)
      <4>1. jobs[r].cost + calls[c].cost \in Nat
            /\ jobs[r].cost + calls[c].cost <= jobs[r].cost + calls[c].estimate
        BY <1>1, <2>3, <3>2, <3>5 DEF Records, CallIsAffordable
      <4> QED
        BY <3>2, <3>4, <3>5, <4>1 DEF Records
    <3>6. CASE Writes(c)
      <4>1. calls[c].read + calls[c].cost \in Nat
            /\ calls[c].read + calls[c].cost <= jobs[r].cost + calls[c].estimate
        BY <1>1, <2>3, <3>2, <3>6 DEF Writes, CallIsAffordable
      <4> QED
        BY <3>2, <3>4, <3>6, <4>1 DEF Writes
    <3>7. ASSUME jobs' = jobs, GoesOn(c),
                 calls'[c].phase # "routing" => calls'[c].cost <= calls[c].estimate,
                 calls'[c].phase = "writing" => calls'[c].read <= jobs[r].cost
          PROVE  /\ \A q \in Requests : CanSettle(q)'
                 /\ \A d \in Calls : Running(d)' => CallIsAffordable(d)'
                 /\ \A d, e \in Calls : Running(d)' /\ Running(e)' => d = e
      <4>1. CallIsAffordable(c)
        BY <1>1, <2>3
      <4>2. CallIsAffordable(c)'
        BY <3>2, <3>7, <4>1 DEF CallIsAffordable, GoesOn, Active, SettledAt, WalletBilled
      <4> QED
        BY <2>2, <3>1, <3>7, <4>2
    <3>8. CASE Answers(c)
      <4>1. calls'[c].cost <= calls[c].estimate
        BY <1>1, <2>3, <3>8 DEF Answers, CallIsAffordable
      <4> QED
        BY <3>7, <3>8, <4>1 DEF Answers
    <3>9. CASE Repeats(c)
      BY <1>1, <2>3, <3>7, <3>9 DEF Repeats, CallIsAffordable
    <3>10. CASE Reads(c)
      <4>1. calls'[c].read <= jobs[r].cost
        BY <1>1, <3>2, <3>10 DEF Reads
      <4> QED
        BY <1>1, <2>3, <3>7, <3>10, <4>1 DEF Reads, CallIsAffordable
    <3> QED
      BY <1>4, <2>3, <3>3, <3>5, <3>6, <3>8, <3>9, <3>10, CallKinds DEF Admits, Ends
  <2>4. CASE ~Running(c)
    <3>1. Admits(c) \/ Ends(c)
      BY <1>4, <2>4, CallKinds DEF Answers, Records, Repeats, Reads, Writes
    <3>2. CASE Ends(c)
      <4>1. jobs' = jobs /\ calls'[c].phase = "over"
        BY <3>2 DEF Ends
      <4>2. ASSUME NEW d \in Calls, Running(d)' PROVE CallIsAffordable(d)'
        <5>1. d # c /\ calls'[d] = calls[d] /\ CallIsAffordable(d)
          BY <1>1, <2>1, <4>1, <4>2
        <5> QED
          BY <4>1, <5>1 DEF CallIsAffordable, Active, SettledAt, WalletBilled
      <4>3. \A d, e \in Calls : Running(d)' /\ Running(e)' => d = e
        BY <1>1, <2>1, <4>1
      <4> QED
        BY <2>2, <4>1, <4>2, <4>3
    <3>3. CASE Admits(c)
      <4>1. Cardinality(InFlight) < 1 /\ jobs' = jobs
        BY <3>3 DEF Admits
      <4>2. InFlight = {}
        <5>1. IsFiniteSet(InFlight)
          BY ConstantsAssumption, FS_Subset DEF InFlight
        <5>2. Cardinality(InFlight) \in Nat
          BY <5>1, FS_CardinalityType
        <5>3. Cardinality(InFlight) = 0
          BY <4>1, <5>2
        <5> QED
          BY <5>1, <5>3, FS_EmptySet
      <4>3. \A d \in Calls : ~Running(d)
        BY <4>2 DEF InFlight
      <4>4. \A d \in Calls \ {c} : ~Running(d)'
        BY <2>1, <4>3
      <4>5. CallIsAffordable(c)'
        BY <3>3, <4>1 DEF Admits, CallIsAffordable, Active, SettledAt, WalletBilled
      <4> QED
        BY <2>2, <4>1, <4>4, <4>5
    <3> QED
      BY <3>1, <3>2, <3>3
  <2> QED
    BY <2>3, <2>4
<1> QED
  BY <1>3, <1>4, OtherKinds

(* Where the concurrency lease admits one call at a time and no call costs *)
(* more than its estimate, an open job can always be settled: what          *)
(* assertProviderCallAllowed promises.                                     *)
THEOREM OpenJobsAreSettleable ==
    ASSUME Concurrency = 1, \A e \in DOMAIN ActualCosts : ActualCosts[e] \subseteq 0..e
    PROVE  Spec => []OpenJobsCanBeSettled
<1>1. Init => CallsAreAffordable /\ OpenJobsCanBeSettled
  <2> SUFFICES ASSUME Init PROVE CallsAreAffordable /\ OpenJobsCanBeSettled
    OBVIOUS
  <2>1. \A c \in Calls : calls[c].phase = "idle"
    BY DEF Init, NewCall
  <2>2. \A r \in Requests : ~Active(r)
    BY DEF Init, NoJob, Active
  <2> QED
    BY <2>1, <2>2, Zenon DEF CallsAreAffordable, OneCall, InFlight, OpenJobsCanBeSettled
<1>2. /\ TypeOK /\ TypeOK' /\ [Next]_vars /\ CallsNameJobs
      /\ CallsAreAffordable /\ OpenJobsCanBeSettled
      => (CallsAreAffordable /\ OpenJobsCanBeSettled)'
  BY SettleStep
<1> QED
  BY <1>1, <1>2, TypeCorrect, NamesHold, PTL DEF Spec

-----------------------------------------------------------------------------
(* The jobs implement the abstract wallet *)

Ended == {r \in Requests : jobs[r].status \in {"COMPLETED", "FAILED"}}

(* The abstract wallet adds up its holds as the concrete one does.         *)
LEMMA SameTotal == Promise!SumOf(HeldBy) = SumOf(HeldBy)
BY Zenon DEF Promise!SumOf, Promise!Units, SumOf, Units,
             Promise!Cardinality, Cardinality, Promise!IsFiniteSet, IsFiniteSet

(* Nothing is held at first.                                               *)
LEMMA PromiseInit == Init => Promise!WalletInit
BY DEF Init, Promise!WalletInit, HeldBy, Active, NoJob

(* Every step is a step of the abstract wallet or leaves it as it is.      *)
LEMMA PromiseStep ==
    ASSUME TypeOK, [Next]_vars, ReservedMatchesOpenJobs, ReservedWithinBalance
    PROVE  [Promise!WalletNext]_(Promise!walletVars)
<1>1. /\ account.balance \in Nat /\ account.reserved \in Nat
      /\ account.reserved = SumOf(HeldBy)
      /\ MaxCharge \in Nat
  BY CapType DEF TypeOK, Accounts, ReservedMatchesOpenJobs
<1>2. ASSUME NEW amount \in TopUpAmounts, TopUp(amount)
      PROVE  Promise!Deposit
  <2>1. account'.balance > account.balance /\ jobs' = jobs
    BY <1>1, <1>2, TopUpEffect
  <2> QED
    BY <2>1 DEF Promise!Deposit, HeldBy, Active
<1>3. ASSUME NEW amount \in TopUpAmounts, RefundTopUp(amount)
      PROVE  Promise!Withdraw
  <2>1. /\ account'.balance < account.balance
        /\ account'.balance >= account.reserved /\ jobs' = jobs
    BY <1>1, <1>3, RefundEffect
  <2>2. account'.balance >= SumOf(HeldBy)
    BY <1>1, <2>1
  <2> QED
    BY <2>1, <2>2, SameTotal DEF Promise!Withdraw, HeldBy, Active
<1>4. ASSUME NEW r \in Requests, NEW charge \in 0..jobs[r].reserved, Active(r),
             account'.balance = account.balance - charge,
             jobs'[r].status \in {"COMPLETED", "FAILED"},
             \A q \in Requests \ {r} : jobs'[q] = jobs[q]
      PROVE  Promise!WalletNext
  <2>1. HeldBy[r] = jobs[r].reserved /\ HeldBy' = [HeldBy EXCEPT ![r] = 0]
    BY <1>4, HoldsOfClosed
  <2>2. charge \in 0..MaxCharge /\ charge <= jobs[r].reserved
    <3>1. jobs[r].reserved \in 0..MaxCharge
      BY DEF TypeOK, Jobs
    <3> QED
      BY <1>1, <3>1
  <2>3. r \notin Ended /\ Ended' = Ended \union {r}
    BY <1>4 DEF Ended, Active
  <2>4. Promise!End(r, charge)
    BY <1>4, <2>1, <2>2, <2>3 DEF Promise!End, Ended
  <2> QED
    BY <2>2, <2>4 DEF Promise!WalletNext
<1>5. ASSUME NEW r \in Requests, NEW usable \in BOOLEAN, Complete(r, usable)
      PROVE  Promise!WalletNext
  <2>1. PICK charge \in 0..jobs[r].reserved :
           /\ Active(r)
           /\ account'.balance = account.balance - charge
           /\ Closes(r, "COMPLETED", charge, jobs[r].reserved - charge)
    BY <1>5, CompleteEffect, Zenon
  <2> QED
    BY <1>4, <2>1 DEF Closes
<1>6. ASSUME NEW r \in Requests, FailJob(r)
      PROVE  Promise!WalletNext
  <2>1. /\ Active(r) /\ account'.balance = account.balance - 0
        /\ Closes(r, "FAILED", jobs[r].final, jobs[r].reserved)
    BY <1>1, <1>6, FailEffect
  <2>2. 0 \in 0..jobs[r].reserved
    <3>1. jobs[r].reserved \in 0..MaxCharge
      BY DEF TypeOK, Jobs
    <3> QED
      BY <1>1, <3>1
  <2> QED
    BY <1>4, <2>1, <2>2 DEF Closes
<1>7. ASSUME NEW h \in Handlers, NEW r \in Requests, NEW input \in StartInputs,
             NEW source \in BillingSources, CreateJob(h, r, input, source)
      PROVE  Promise!WalletNext \/ UNCHANGED Promise!walletVars
  <2>1. PICK held \in 0..MaxCharge :
           /\ jobs[r].status = "NONE"
           /\ held = 0 \/ account.balance - account.reserved >= held
           /\ account'.balance = account.balance
           /\ jobs'[r].status = "ACTIVE" /\ jobs'[r].reserved = held
           /\ \A q \in Requests \ {r} : jobs'[q] = jobs[q]
    BY <1>7, CreateEffect, Zenon
  <2>2. HeldBy[r] = 0 /\ HeldBy' = [HeldBy EXCEPT ![r] = held]
    BY <2>1, HoldsOfOpened
  <2>3. r \notin Ended /\ Ended' = Ended
    BY <2>1 DEF Ended
  <2>4. CASE held = 0
    <3>1. HeldBy' = HeldBy
      BY <2>2, <2>4, HoldsType
    <3> QED
      BY <2>1, <2>3, <3>1 DEF Promise!walletVars, Ended
  <2>5. CASE held # 0
    <3>1. held \in 1..MaxCharge /\ held <= account.balance - SumOf(HeldBy)
      BY <1>1, <2>1, <2>5
    <3>2. Promise!Hold(r, held)
      BY <2>1, <2>2, <2>3, <3>1, SameTotal DEF Promise!Hold, Promise!Free, Ended
    <3> QED
      BY <3>1, <3>2 DEF Promise!WalletNext
  <2> QED
    BY <2>4, <2>5
<1>8. CASE MoneyUntouched
  <2>1. account' = account /\ HeldBy' = HeldBy /\ Ended' = Ended
    BY <1>8, HoldsUntouched DEF MoneyUntouched, Ended
  <2> QED
    BY <2>1 DEF Promise!walletVars, Ended
<1> QED
  BY <1>2, <1>3, <1>5, <1>6, <1>7, <1>8, StepKinds, Zenon DEF Promise!WalletNext

(* The analysis jobs spend the member's money as the abstract wallet does: *)
(* a hold that ends once, charged for at most what it held.                *)
THEOREM JobsKeepPromise == Spec => KeepsPromise
<1>1. TypeOK /\ ReservedMatchesOpenJobs /\ ReservedWithinBalance /\ [Next]_vars
        => [Promise!WalletNext]_(Promise!walletVars)
  BY PromiseStep
<1> QED
  BY <1>1, PromiseInit, TypeCorrect, ReservedIsExact, ReservedIsThere, PTL
     DEF Spec, KeepsPromise, Promise!WalletSpec
=============================================================================
