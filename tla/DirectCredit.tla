---------------------------- MODULE DirectCredit ----------------------------
(***************************************************************************)
(* One member's credit row and the chat requests billed one by one, on the *)
(* PostgreSQL path: DirectCreditService (reserve, settle, release) and the *)
(* branch of GatewayService.executeChat without a job.  A request reserves *)
(* its estimate, is routed, is charged what it cost, and is released when  *)
(* anything throws in between.  No record of an open reservation survives  *)
(* the process: only the sum in the credit row does.                       *)
(***************************************************************************)
EXTENDS Sums

CONSTANTS
    Chats,          \* HTTP requests to the gateway
    RequestIds,     \* request ids the clients send with them
    Estimates,      \* credit charges estimated before routing
    Charges,        \* credit charges of the provider's answers
    MaxEstimate,    \* the largest estimate
    Deposits,       \* credit of a paid invoice
    MaxDeposited    \* bound on the credit ever granted

ASSUME DirectAssumption ==
    /\ IsFiniteSet(Chats)
    /\ MaxEstimate \in Nat
    /\ Estimates \subseteq 0..MaxEstimate
    /\ Charges \subseteq Nat
    /\ Deposits \subseteq Nat \ {0}
    /\ MaxDeposited \in Nat

VARIABLES
    account,    \* the UserCreditAccount row
    postings,   \* postings[i]: ledger rows keyed by request id i
    chats,      \* chats[q]: where executeChat is with request q
    faults      \* history: the kinds of failure there have been so far

directVars == <<account, postings, chats, faults>>

-----------------------------------------------------------------------------
NewChat == [phase |-> "idle", id |-> {}, amount |-> 0, charge |-> 0, unlimited |-> FALSE]

Open(q) == chats[q].phase \in {"routing", "charging", "releasing"}

(* What each open request holds back of the member's balance. *)
ReservedBy == [q \in Chats |-> IF Open(q) THEN chats[q].amount ELSE 0]

(* The rows of a request as the unique idempotency keys that are taken. *)
Post(i, keys) == postings' = [postings EXCEPT ![i] = @ \union keys]
Unposted(i, keys) == postings[i] \intersect keys = {}

PhaseTo(q, phase) == chats' = [chats EXCEPT ![q].phase = phase]

InitDirect ==
    /\ account = [balance |-> 0, reserved |-> 0, granted |-> 0, spent |-> 0]
    /\ postings = [i \in RequestIds |-> {}]
    /\ chats = [q \in Chats |-> NewChat]
    /\ faults = {}

Deposit(amount) ==
    /\ account.granted + amount <= MaxDeposited
    /\ account' = [account EXCEPT !.balance = @ + amount, !.granted = @ + amount]
    /\ UNCHANGED <<postings, chats, faults>>

-----------------------------------------------------------------------------
(* reserve *)

Reserved(q, i, amount, unlimited) ==
    [NewChat EXCEPT !.phase = "routing", !.id = i, !.amount = amount,
                    !.unlimited = unlimited]

(* An account with unlimited credits reserves nothing. *)
ReserveUnlimited(q, i) ==
    /\ chats[q].phase = "idle"
    /\ chats' = [chats EXCEPT ![q] = Reserved(q, i, 0, TRUE)]
    /\ UNCHANGED <<account, postings, faults>>

ReserveRows(i, amount) ==
    /\ account.balance - account.reserved >= amount
    /\ Unposted(i, {"reserve"})
    /\ account' = [account EXCEPT !.reserved = @ + amount]
    /\ Post(i, {"reserve"})

Reserve(q, i, amount) ==
    /\ chats[q].phase = "idle"
    /\ ReserveRows(i, amount)
    /\ chats' = [chats EXCEPT ![q] = Reserved(q, i, amount, FALSE)]
    /\ UNCHANGED faults

(* The transaction commits but the caller is told it failed: executeChat    *)
(* ends before its try block, so nobody will release the reservation.       *)
ReserveUnheard(q, i, amount) ==
    /\ chats[q].phase = "idle"
    /\ ReserveRows(i, amount)
    /\ PhaseTo(q, "failed")
    /\ faults' = faults \union {"lost"}

(* Not enough to spend, or the request id was used before. *)
ReserveRefused(q, i, amount) ==
    /\ chats[q].phase = "idle"
    /\ \/ account.balance - account.reserved < amount
       \/ ~Unposted(i, {"reserve"})
    /\ PhaseTo(q, "failed")
    /\ UNCHANGED <<account, postings, faults>>

-----------------------------------------------------------------------------
(* The try block: route, record the usage, settle *)

Answered(q, charge) ==
    /\ chats[q].phase = "routing"
    /\ chats' = [chats EXCEPT ![q].phase = "charging",
                              ![q].charge = IF chats[q].unlimited THEN 0 ELSE charge]
    /\ UNCHANGED <<account, postings, faults>>

(* Mutant: something that throws after the settlement is caught as well. *)
ThrownAfterDelivery(q) ==
    /\ chats[q].phase \in {"routing", "charging", "delivered"}
    /\ PhaseTo(q, "releasing")
    /\ UNCHANGED <<account, postings, faults>>

(* Mutant: nobody catches it. *)
ThrownUncaught(q) ==
    /\ chats[q].phase \in {"routing", "charging"}
    /\ PhaseTo(q, "failed")
    /\ UNCHANGED <<account, postings, faults>>

(* Mutant: the request is routed again, without a bound. *)
RoutedAgain(q) ==
    /\ chats[q].phase = "charging"
    /\ PhaseTo(q, "routing")
    /\ UNCHANGED <<account, postings, faults>>

(* The router gives up, or recording the usage throws. *)
Thrown(q) ==
    /\ chats[q].phase \in {"routing", "charging"}
    /\ PhaseTo(q, "releasing")
    /\ UNCHANGED <<account, postings, faults>>

SettleKeys(chat) ==
    (IF chat.amount > chat.charge THEN {"release"} ELSE {})
    \union (IF chat.charge > 0 THEN {"settle"} ELSE {})

(* Mutants: the balance is not looked at; it is, but the reservations of   *)
(* others count as money to spend.                                         *)
SettleableUnchecked(chat) ==
    account.reserved >= chat.amount /\ Unposted(chat.id, SettleKeys(chat))

SettleableFromAll(chat) == SettleableUnchecked(chat) /\ account.balance >= chat.charge

Settleable(chat) ==
    /\ account.reserved >= chat.amount
    /\ account.balance - (account.reserved - chat.amount) >= chat.charge
    /\ Unposted(chat.id, SettleKeys(chat))

SettleRows(q) ==
    LET chat == chats[q]
    IN  /\ chat.phase = "charging"
        /\ ~chat.unlimited
        /\ Settleable(chat)
        /\ account' = [account EXCEPT !.balance = @ - chat.charge,
                                      !.reserved = @ - chat.amount,
                                      !.spent = @ + chat.charge]
        /\ Post(chat.id, SettleKeys(chat))

Settle(q) ==
    /\ SettleRows(q)
    /\ PhaseTo(q, "delivered")
    /\ UNCHANGED faults

SettleUnlimited(q) ==
    /\ chats[q].phase = "charging"
    /\ chats[q].unlimited
    /\ PhaseTo(q, "delivered")
    /\ UNCHANGED <<account, postings, faults>>

(* Mutant: the answer is given away. *)
SettleForgiven(q) ==
    /\ chats[q].phase = "charging"
    /\ ~chats[q].unlimited /\ ~Settleable(chats[q])
    /\ PhaseTo(q, "delivered")
    /\ UNCHANGED <<account, postings, faults>>

(* Mutant: what cannot be charged ends the request and nothing else. *)
SettleGivenUp(q) ==
    /\ chats[q].phase = "charging"
    /\ ~chats[q].unlimited /\ ~Settleable(chats[q])
    /\ PhaseTo(q, "failed")
    /\ UNCHANGED <<account, postings, faults>>

SettleRefused(q) ==
    /\ chats[q].phase = "charging"
    /\ ~chats[q].unlimited
    /\ ~Settleable(chats[q])
    /\ PhaseTo(q, "releasing")
    /\ UNCHANGED <<account, postings, faults>>

SettleUnheard(q) ==
    /\ SettleRows(q)
    /\ PhaseTo(q, "releasing")
    /\ faults' = faults \union {"lost"}

-----------------------------------------------------------------------------
(* The catch block: release, whatever threw *)

Release(q) ==
    LET chat == chats[q]
    IN  /\ chat.phase = "releasing"
        /\ IF chat.unlimited \/ chat.amount = 0 \/ account.reserved < chat.amount
           THEN UNCHANGED <<account, postings>>
           ELSE /\ account' = [account EXCEPT !.reserved = @ - chat.amount]
                /\ Post(chat.id, {"failedRelease"})
        /\ PhaseTo(q, "failed")
        /\ UNCHANGED faults

(* The release itself throws, a conflict between serializable transactions *)
(* being enough: it is not tried again.                                    *)
ReleaseFails(q) ==
    /\ chats[q].phase = "releasing"
    /\ PhaseTo(q, "failed")
    /\ faults' = faults \union {"stranded"}
    /\ UNCHANGED <<account, postings>>

(* The process dies with its requests; the credit row stays as it is. *)
CrashChats ==
    /\ \E q \in Chats : Open(q)
    /\ chats' = [q \in Chats |-> IF Open(q) THEN [chats[q] EXCEPT !.phase = "failed"]
                                            ELSE chats[q]]
    /\ faults' = faults \union {"stranded"}
    /\ UNCHANGED <<account, postings>>

-----------------------------------------------------------------------------
ChatStep(q) ==
    \/ \E i \in RequestIds :
          \/ ReserveUnlimited(q, i)
          \/ \E amount \in Estimates : \/ Reserve(q, i, amount)
                                       \/ ReserveUnheard(q, i, amount)
                                       \/ ReserveRefused(q, i, amount)
    \/ \E charge \in Charges : Answered(q, charge)
    \/ Thrown(q)
    \/ Settle(q)
    \/ SettleUnlimited(q)
    \/ SettleRefused(q)
    \/ SettleUnheard(q)
    \/ Release(q)
    \/ ReleaseFails(q)

NextDirect ==
    \/ \E amount \in Deposits : Deposit(amount)
    \/ \E q \in Chats : ChatStep(q)
    \/ CrashChats

SpecDirect == InitDirect /\ [][NextDirect]_directVars

(* A request that has been admitted runs to its end: provider calls have a *)
(* timeout, and the steps after them are awaited one by one.               *)
FairDirect ==
    SpecDirect /\ \A q \in Chats : WF_directVars(/\ Open(q)
                                                 /\ ChatStep(q))

-----------------------------------------------------------------------------
(* The reserved column is the sum of the reservations of open requests, as *)
(* long as nothing failed that a request cannot clean up after.            *)
ReservedMatchesOpenChats ==
    faults = {} => account.reserved = SumOf(ReservedBy)

(* A process that dies, or a release that throws, strands a reservation,   *)
(* but the column never falls below what the requests alive reserved.      *)
OpenChatsStayCovered ==
    "lost" \notin faults => account.reserved >= SumOf(ReservedBy)

(* BILLING_AND_DATA_MODEL.md: a reservation is completed atomically, a     *)
(* failed request releases it; so no request does both.                    *)
ClosedOnce ==
    "lost" \notin faults =>
        \A i \in RequestIds : ~({"settle", "failedRelease"} \subseteq postings[i])

(* What was delivered, and nothing else, was charged.                      *)
PaidIffDelivered ==
    LET due == SumOf([q \in Chats |->
                   IF chats[q].phase = "delivered" THEN chats[q].charge ELSE 0])
    IN  IF "lost" \in faults THEN account.spent >= due ELSE account.spent = due

(* No reservation stays behind: as requests come to an end, delivered,     *)
(* refused the charge or failed on the way, what they reserved is charged  *)
(* or given back, and with the last of them nothing is left in the column; *)
(* unless a release failed, an answer of the database was lost or the      *)
(* process died.                                                           *)
ReservationsEnd == <>[](account.reserved = 0 \/ faults # {})
=============================================================================
