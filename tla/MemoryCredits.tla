---------------------------- MODULE MemoryCredits ----------------------------
(***************************************************************************)
(* The wallet of one member where billing is kept in memory, as it is      *)
(* outside production: CreditAccountService, the memory branches of        *)
(* AnalysisJobService and DirectCreditService, and AuthService, which sets *)
(* the balance.  Every call of the wallet is one step, as nothing in it is *)
(* awaited; the requests that hold reservations go on in between.  The     *)
(* list of transactions is for reading only and is left out.               *)
(***************************************************************************)
EXTENDS JobPricing, Sums

CONSTANTS
    MemoryChats,        \* requests to the gateway
    ChatIds,            \* request ids that the clients send with them
    JobIds,             \* ids that analysis jobs reserve under
    ReservationIds,     \* at least one for every chat and job
    MemoryPolicy,       \* the pricing policy of the jobs
    JobInput,           \* [seconds, clips] of every job
    ChatEstimate,       \* what a chat reserves
    ChatCharges,        \* what it may cost
    CallCosts,          \* what a provider call of a job may cost
    CallEstimate,       \* what it is estimated at
    CallsAtOnce,        \* provider calls of a job that the leases let run
    Balances            \* the balances an administrator or a payment sets

ASSUME MemoryAssumption ==
    /\ IsFiniteSet(MemoryChats) /\ IsFiniteSet(JobIds) /\ IsFiniteSet(ReservationIds)
    /\ Cardinality(ReservationIds) >= Cardinality(MemoryChats) + Cardinality(JobIds)
    /\ 0 \notin ReservationIds
    /\ "" \notin ChatIds \union JobIds
    /\ ValidPolicy(MemoryPolicy)
    /\ JobInput \in [seconds : Nat, clips : Nat]
    /\ ChatEstimate \in Nat /\ CallEstimate \in Nat /\ CallsAtOnce \in Nat
    /\ ChatCharges \subseteq Nat /\ CallCosts \subseteq Nat /\ Balances \subseteq Nat

VARIABLES
    wallet,         \* the account: balance, reserved; history: spent
    reservations,   \* reservations[i]: request and amount, or NoReservation
    memoryChats,    \* memoryChats[q]: where executeChat is with request q
    memoryJobs      \* memoryJobs[j]: the job that reserves under j; history:
                    \* sharedBy, whether a chat has had its reservation

memoryVars == <<wallet, reservations, memoryChats, memoryJobs>>

NoReservation == [request |-> "", amount |-> 0]
IdleChat == [step |-> "idle", id |-> 0, charge |-> 0]
NoMemoryJob == [status |-> "none", id |-> 0, reserved |-> 0, cost |-> 0, charge |-> 0, calls |-> 0,
                sharedBy |-> "nobody"]

InitMemory ==
    /\ \E balance \in Balances : wallet = [balance |-> balance, reserved |-> 0, spent |-> 0]
    /\ reservations = [i \in ReservationIds |-> NoReservation]
    /\ memoryChats = [q \in MemoryChats |-> IdleChat]
    /\ memoryJobs = [j \in JobIds |-> NoMemoryJob]

-----------------------------------------------------------------------------
(* CreditAccountService *)

Standing(i) == reservations[i] # NoReservation

(* The reservation of a request, or a new one.  An id is used again once   *)
(* nobody remembers it, which nobody can tell from a new one.              *)
Remembered(i) == \/ Standing(i)
                 \/ \E q \in MemoryChats : memoryChats[q].id = i
                 \/ \E j \in JobIds : memoryJobs[j].id = i

Existing(request) == {i \in ReservationIds : reservations[i].request = request}

ReservationFor(request) ==
    IF Existing(request) # {} THEN CHOOSE i \in Existing(request) : TRUE
    ELSE CHOOSE i \in ReservationIds : ~Remembered(i)

CanReserve(request, amount) ==
    Existing(request) # {} \/ wallet.balance - wallet.reserved >= amount

(* Mutant: a request that comes again reserves again under its id. *)
ReserveAgain(request, amount) ==
    /\ wallet' = [wallet EXCEPT !.reserved = @ + amount]
    /\ reservations' = [reservations EXCEPT
          ![ReservationFor(request)] = [request |-> request, amount |-> amount]]

ReserveMemory(request, amount) ==
    IF Existing(request) # {} THEN UNCHANGED <<wallet, reservations>>
    ELSE /\ wallet' = [wallet EXCEPT !.reserved = @ + amount]
         /\ reservations' = [reservations EXCEPT
               ![ReservationFor(request)] = [request |-> request, amount |-> amount]]

OthersReserve(i) == Larger(0, wallet.reserved - reservations[i].amount)

CanSettle(i, actual) == Standing(i) /\ wallet.balance - OthersReserve(i) >= actual

SettleMemory(i, actual) ==
    /\ wallet' = [balance |-> wallet.balance - actual, reserved |-> OthersReserve(i),
                  spent |-> wallet.spent + actual]
    /\ reservations' = [reservations EXCEPT ![i] = NoReservation]

ReleaseMemory(i) ==
    IF Standing(i)
    THEN /\ wallet' = [wallet EXCEPT !.reserved = OthersReserve(i)]
         /\ reservations' = [reservations EXCEPT ![i] = NoReservation]
    ELSE UNCHANGED <<wallet, reservations>>

(* updateMember and, after a payment, syncBillingState. *)
SetBalance(balance) ==
    /\ balance >= wallet.reserved
    /\ wallet' = [wallet EXCEPT !.balance = balance]
    /\ UNCHANGED <<reservations, memoryChats, memoryJobs>>

-----------------------------------------------------------------------------
(* A chat: executeChat with the memory branches of DirectCreditService *)

ChatTo(q, next) == memoryChats' = [memoryChats EXCEPT ![q] = next]
ChatAt(q, step) == memoryChats[q].step = step

(* The client may send the id that a job reserves under: it is not looked  *)
(* at, and the chat has the job's reservation.                             *)
Joined(request) ==
    [j \in JobIds |-> IF j = request /\ memoryJobs[j].status = "active"
                     THEN [memoryJobs[j] EXCEPT !.sharedBy = "chat"] ELSE memoryJobs[j]]

BeginChat(q, request) ==
    /\ ChatAt(q, "idle")
    /\ IF CanReserve(request, ChatEstimate)
       THEN /\ ReserveMemory(request, ChatEstimate)
            /\ ChatTo(q, [step |-> "routing", id |-> ReservationFor(request), charge |-> 0])
            /\ memoryJobs' = Joined(request)
       ELSE /\ ChatTo(q, [IdleChat EXCEPT !.step = "failed"])
            /\ UNCHANGED <<wallet, reservations, memoryJobs>>

RouteChat(q, charge) ==
    /\ ChatAt(q, "routing")
    /\ ChatTo(q, [memoryChats[q] EXCEPT !.step = "charging", !.charge = charge])
    /\ UNCHANGED <<wallet, reservations, memoryJobs>>

(* Whoever settles first ends the reservation two requests of one id share;*)
(* the other finds it gone and fails.                                      *)
ChargeChat(q) ==
    LET chat == memoryChats[q] IN
    /\ ChatAt(q, "charging")
    /\ IF CanSettle(chat.id, chat.charge)
       THEN /\ SettleMemory(chat.id, chat.charge)
            /\ ChatTo(q, [chat EXCEPT !.step = "delivered", !.id = 0])
       ELSE /\ ChatTo(q, [chat EXCEPT !.step = "releasing"])
            /\ UNCHANGED <<wallet, reservations>>
    /\ UNCHANGED memoryJobs

FailChat(q) ==
    /\ memoryChats[q].step \in {"routing", "charging"}
    /\ ChatTo(q, [memoryChats[q] EXCEPT !.step = "releasing"])
    /\ UNCHANGED <<wallet, reservations, memoryJobs>>

ReleaseChat(q) ==
    /\ ChatAt(q, "releasing")
    /\ ReleaseMemory(memoryChats[q].id)
    /\ ChatTo(q, [IdleChat EXCEPT !.step = "failed"])
    /\ UNCHANGED memoryJobs

-----------------------------------------------------------------------------
(* A job: startMemory, completeMemory, failMemory, provider calls *)

JobReservation == QuoteJobCost(MemoryPolicy,
                      EstimatedProviderCost(MemoryPolicy, JobInput.seconds, JobInput.clips),
                      TRUE).reservation

MemoryQuote(j, usable) == QuoteJobCost(MemoryPolicy, memoryJobs[j].cost, usable)

(* A job reserves under its request id with a prefix.  Where a chat has    *)
(* come under that id before, the job has the chat's reservation, and what *)
(* is reserved in it.                                                      *)
StartMemory(j) ==
    /\ memoryJobs[j].status = "none"
    /\ CanReserve(j, JobReservation)
    /\ ReserveMemory(j, JobReservation)
    /\ memoryJobs' = [memoryJobs EXCEPT ![j] =
          [NoMemoryJob EXCEPT !.status = "active", !.id = ReservationFor(j),
                              !.reserved = reservations'[ReservationFor(j)].amount,
                              !.sharedBy = IF Existing(j) = {} THEN "nobody" ELSE "chat"]]
    /\ UNCHANGED memoryChats

(* assertProviderCallAllowed: what other calls under way will cost is not  *)
(* known yet.                                                              *)
AllowCall(j) ==
    LET projected == QuoteJobCost(MemoryPolicy, memoryJobs[j].cost + CallEstimate, TRUE) IN
    /\ memoryJobs[j].status = "active"
    /\ memoryJobs[j].calls < CallsAtOnce
    /\ projected.capSafe
    /\ projected.userCharge <= memoryJobs[j].reserved
    /\ memoryJobs' = [memoryJobs EXCEPT ![j].calls = @ + 1]
    /\ UNCHANGED <<wallet, reservations, memoryChats>>

(* recordProviderUsage; a job that is over takes no more cost.             *)
RecordCall(j, cost) ==
    /\ memoryJobs[j].calls > 0
    /\ memoryJobs' = [memoryJobs EXCEPT
          ![j].calls = @ - 1,
          ![j].cost = IF memoryJobs[j].status = "active" THEN @ + cost ELSE @]
    /\ UNCHANGED <<wallet, reservations, memoryChats>>

(* Mutant: the charge is not compared with the reservation. *)
CompletableAtAnyCharge(j, usable) == MemoryQuote(j, usable).capSafe

Completable(j, usable) ==
    /\ MemoryQuote(j, usable).capSafe
    /\ MemoryQuote(j, usable).userCharge <= memoryJobs[j].reserved

CompleteMemory(j, usable) ==
    LET charge == MemoryQuote(j, usable).userCharge IN
    /\ memoryJobs[j].status = "active"
    /\ Completable(j, usable)
    /\ CanSettle(memoryJobs[j].id, charge)
    /\ SettleMemory(memoryJobs[j].id, charge)
    /\ memoryJobs' = [memoryJobs EXCEPT ![j].status = "completed", ![j].id = 0, ![j].charge = charge]
    /\ UNCHANGED memoryChats

FailMemory(j) ==
    /\ memoryJobs[j].status = "active"
    /\ ReleaseMemory(memoryJobs[j].id)
    /\ memoryJobs' = [memoryJobs EXCEPT ![j].status = "failed", ![j].id = 0]
    /\ UNCHANGED memoryChats

(* The process restarts, and everything that was in memory is gone.        *)
RestartMemory(balance) ==
    /\ wallet' = [balance |-> balance, reserved |-> 0, spent |-> 0]
    /\ reservations' = [i \in ReservationIds |-> NoReservation]
    /\ memoryChats' = [q \in MemoryChats |-> IdleChat]
    /\ memoryJobs' = [j \in JobIds |-> NoMemoryJob]

NextMemory ==
    \/ \E balance \in Balances : SetBalance(balance) \/ RestartMemory(balance)
    \/ \E q \in MemoryChats :
          \/ \E request \in ChatIds : BeginChat(q, request)
          \/ \E charge \in ChatCharges : RouteChat(q, charge)
          \/ ChargeChat(q) \/ FailChat(q) \/ ReleaseChat(q)
    \/ \E j \in JobIds :
          \/ StartMemory(j) \/ AllowCall(j) \/ FailMemory(j)
          \/ \E cost \in CallCosts : RecordCall(j, cost)
          \/ \E usable \in BOOLEAN : CompleteMemory(j, usable)

-----------------------------------------------------------------------------
Holding(i) == {q \in MemoryChats : memoryChats[q].id = i} \union {j \in JobIds : memoryJobs[j].id = i}

(* Nothing is reserved that no request alive or active job holds, and the  *)
(* member has what is reserved, whoever sets the balance.  An active job's *)
(* reservation is its own: it stands until the job ends it, so that the    *)
(* job can always be failed, and completed while its charge fits; unless a *)
(* chat has come under the id the job reserves under, which is not looked  *)
(* at (sharedBy): then either may end it under the other.                  *)
MemoryReservedIsHeld ==
    /\ wallet.reserved = SumOf([i \in ReservationIds |-> reservations[i].amount])
    /\ wallet.reserved <= wallet.balance
    /\ \A i \in ReservationIds : Standing(i) => Holding(i) # {}
    /\ \A j \in JobIds : memoryJobs[j].status = "active" /\ memoryJobs[j].sharedBy = "nobody" =>
          /\ reservations[memoryJobs[j].id].amount = memoryJobs[j].reserved
          /\ Holding(memoryJobs[j].id) = {j}

(* What was delivered, and nothing else, was charged, also when two        *)
(* requests of one id share a reservation; and a job never costs more than *)
(* it reserved.                                                            *)
MemoryPaidIffDelivered ==
    /\ wallet.spent =
          SumOf([q \in MemoryChats |->
              IF memoryChats[q].step = "delivered" THEN memoryChats[q].charge ELSE 0])
          + SumOf([j \in JobIds |-> memoryJobs[j].charge])
    /\ \A j \in JobIds : memoryJobs[j].charge <= memoryJobs[j].reserved
=============================================================================
