------------------------------ MODULE Payments ------------------------------
(***************************************************************************)
(* The top-up invoices of one member: PaymentService (createTopupInvoice,  *)
(* invoiceStatus, cancelInvoice, syncPaymentStatus, refund, processWebhook *)
(* and the applyWebhook transaction under it) with the payment provider at *)
(* the other end.  A request does what it does in steps: it reads, calls   *)
(* the provider, and writes in a serializable transaction, and other       *)
(* requests and webhooks run between them.  Webhooks may be delivered      *)
(* twice, late, out of order or never.                                     *)
(***************************************************************************)
EXTENDS Integers, PaymentProviders

CONSTANTS
    Invoices,       \* invoice numbers; the provider's order has the same one
    Tasks,          \* HTTP requests to the payment endpoints
    Credit,         \* credit that an invoice grants, in whole units
    MaxChanges      \* bound: changes of the payment configuration

ASSUME PaymentsAssumption ==
    /\ Credit \in Nat \ {0}
    /\ MaxChanges \in Nat

VARIABLES
    account,    \* the UserCreditAccount row
    rows,       \* rows[n]: Invoice, PaymentTransaction and ledger rows of n
    logged,     \* PaymentLog: the ids of the provider events applied
    orders,     \* orders[n]: the order at the provider
    sent,       \* the webhooks the provider has sent
    expired,    \* the invoices whose expiresAt has passed
    tasks,      \* tasks[t]: where request t is
    changes     \* how often the configuration was changed

payVars == <<account, rows, logged, orders, sent, expired, tasks, changes, configVars>>

NoRow == [invoice |-> "NONE", payment |-> "NONE", grants |-> 0, refunds |-> 0]
NoOrderYet == [raw |-> "none", merchant |-> "none", amount |-> TRUE]
IdleTask == [op |-> "none", step |-> "idle", due |-> {}, n |-> {},
             raw |-> "none", merchant |-> "none"]

InitPay ==
    /\ account = [balance |-> 0, reserved |-> 0, granted |-> 0]
    /\ rows = [n \in Invoices |-> NoRow]
    /\ logged = {}
    /\ orders = [n \in Invoices |-> NoOrderYet]
    /\ sent = {}
    /\ expired = {}
    /\ tasks = [t \in Tasks |-> IdleTask]
    /\ changes = 0
    /\ InitConfig

At(t, step) == tasks[t].step = step
GoOn(t, step) == tasks' = [tasks EXCEPT ![t].step = step]
Finish(t) == tasks' = [tasks EXCEPT ![t] = IdleTask]
StillOpen(n) == rows[n].invoice = "OPEN" /\ rows[n].payment = "PENDING"

-----------------------------------------------------------------------------
(* The provider and its clock *)

Stands(n) == orders[n].raw

StillOpened(n) == Stands(n) = Opened(orders[n].merchant)
WasPaid(n) == Stands(n) = Paid(orders[n].merchant)

Notify(n, raw) == sent' = sent \union {<<n, raw>>}

(* The member pays with the code the API returned, or lets it be.          *)
OrderEnds(n) ==
    /\ StillOpened(n)
    /\ LET m == orders[n].merchant
           ends == {Denied(m), Lapsed(m)} \union {raw \in {Paid(m)} : rows[n].invoice # "NONE"}
       IN \E raw \in ends : orders' = [orders EXCEPT ![n].raw = raw] /\ Notify(n, raw)
    /\ UNCHANGED <<account, rows, logged, expired, tasks>>

TimePasses(n) ==
    /\ orders[n] # NoOrderYet
    /\ n \notin expired
    /\ expired' = expired \union {n}
    /\ UNCHANGED <<account, rows, logged, orders, sent, tasks>>

-----------------------------------------------------------------------------
(* applyWebhook, for a webhook and for a status asked of the provider *)

SetStatus(n, payment, invoice) ==
    /\ rows' = [rows EXCEPT ![n].payment = payment, ![n].invoice = invoice]
    /\ UNCHANGED account

Grant(n) ==
    /\ account' = [account EXCEPT !.balance = @ + Credit, !.granted = @ + Credit]
    /\ rows' = [rows EXCEPT ![n].payment = "PAID", ![n].invoice = "PAID",
                            ![n].grants = @ + 1]

PaymentStatus(status) ==
    CASE status = "failed" -> "FAILED"
      [] status = "expired" -> "EXPIRED"
      [] status = "refunded" -> "REFUNDED"
      [] OTHER -> "PENDING"

(* Mutant: the payment alone tells whether the invoice was paid. *)
PaymentPaid(n) == rows[n].payment = "PAID"

AlreadyPaid(n) == rows[n].payment = "PAID" \/ rows[n].invoice = "PAID"

(* late: the event is older than the 24 hours of the replay window; an     *)
(* event of another amount than the invoice's is refused.                  *)
Settle(n, status, late) ==
    IF \/ rows[n].invoice = "NONE"
       \/ late
       \/ ~orders[n].amount
       \/ status = "refunded" /\ rows[n].payment # "REFUNDED"
    THEN UNCHANGED <<account, rows>>
    ELSE IF status # "paid"
    THEN SetStatus(n, PaymentStatus(status),
                   IF status = "expired" THEN "OVERDUE" ELSE rows[n].invoice)
    ELSE IF n \in expired
    THEN SetStatus(n, "EXPIRED", "OVERDUE")
    ELSE IF AlreadyPaid(n)
    THEN UNCHANGED <<account, rows>>
    ELSE Grant(n)

ApplyEvent(channel, n, raw, late) ==
    LET id == EventId(channel, n, raw) IN
    IF id \in logged
    THEN UNCHANGED <<account, rows, logged>>
    ELSE /\ Settle(n, StatusOf(orders[n].merchant, channel, raw), late)
         /\ logged' = logged \union {id}

(* processWebhook: the event of a webhook keeps its id when it is repeated. *)
Deliver(n, raw, late) ==
    /\ <<n, raw>> \in sent
    /\ Verifies(orders[n].merchant)
    /\ late => n \in expired
    /\ ApplyEvent("webhook", n, raw, late)
    /\ UNCHANGED <<orders, sent, expired, tasks>>

-----------------------------------------------------------------------------
(* expireOpenInvoices, the first thing three of the requests do *)

Begin(t, op, n) ==
    /\ At(t, "idle")
    /\ op \in {"look", "cancel"} => rows[n].invoice # "NONE"
    /\ tasks' = [tasks EXCEPT ![t] =
          [IdleTask EXCEPT !.op = op, !.n = n, !.step = "expire",
              !.due = {m \in expired : rows[m].invoice = "OPEN"}]]
    /\ UNCHANGED <<account, rows, logged, orders, sent, expired>>

ExpireOpenInvoices(t) ==
    /\ At(t, "expire")
    /\ rows' = [n \in Invoices |->
          IF n \in tasks[t].due
          THEN [rows[n] EXCEPT !.invoice = "OVERDUE",
                               !.payment = IF @ = "PENDING" THEN "EXPIRED" ELSE @]
          ELSE rows[n]]
    /\ IF tasks[t].op = "look" THEN Finish(t) ELSE GoOn(t, "begun")
    /\ UNCHANGED <<account, logged, orders, sent, expired>>

-----------------------------------------------------------------------------
(* createTopupInvoice *)

Reusable == {n \in Invoices : rows[n].invoice = "OPEN" /\ n \notin expired}

ReuseInvoice(t) ==
    /\ At(t, "begun") /\ tasks[t].op = "create"
    /\ Reusable # {}
    /\ Finish(t)
    /\ UNCHANGED <<account, rows, logged, orders, sent, expired>>

CreatePayment(t) ==
    LET n == tasks[t].n
    IN  /\ At(t, "begun") /\ tasks[t].op = "create"
        /\ Reusable = {}
        /\ orders[n] = NoOrderYet
        /\ \E answer \in LikelyAnswers :
              /\ IF answer.rejected THEN UNCHANGED <<orders, sent>>
                 ELSE /\ orders' = [orders EXCEPT ![n] =
                            [raw |-> Opened(Active), merchant |-> Active, amount |-> answer.amount]]
                      /\ Notify(n, Opened(Active))
              /\ IF Accepts(Active, answer) THEN GoOn(t, "record") ELSE Finish(t)
        /\ UNCHANGED <<account, rows, logged, expired>>

RecordInvoice(t) ==
    /\ At(t, "record")
    /\ rows' = [rows EXCEPT ![tasks[t].n].invoice = "OPEN",
                            ![tasks[t].n].payment = "PENDING"]
    /\ Finish(t)
    /\ UNCHANGED <<account, logged, orders, sent, expired>>

-----------------------------------------------------------------------------
(* syncPaymentStatus, for its own sake or before and after a cancellation *)

BeginSync(t, n) ==
    /\ At(t, "idle")
    /\ rows[n].invoice # "NONE"
    /\ tasks' = [tasks EXCEPT ![t] = [IdleTask EXCEPT !.op = "sync", !.n = n, !.step = "query"]]
    /\ UNCHANGED <<account, rows, logged, orders, sent, expired>>

(* byCode and the adapter's answer.  The other merchant of Midtrans does   *)
(* not know the order, which then counts as not opened yet; an answer of   *)
(* another amount is refused.                                              *)
GetTransactionStatus(t) ==
    LET n == tasks[t].n
        known == Knows(orders[n].merchant)
    IN /\ At(t, "query")
       /\ Reachable(orders[n].merchant)
       /\ known => orders[n].amount
       /\ tasks' = [tasks EXCEPT ![t].raw = IF known THEN Stands(n) ELSE "unopened",
                                 ![t].step = "apply"]
       /\ UNCHANGED <<account, rows, logged, orders, sent, expired>>

ApplyStatus(t) ==
    /\ At(t, "apply")
    /\ ApplyEvent("sync", tasks[t].n, tasks[t].raw, FALSE)
    /\ IF tasks[t].op = "cancel" THEN GoOn(t, "recheck") ELSE Finish(t)
    /\ UNCHANGED <<orders, sent, expired>>

(* A cancellation goes on when its synchronization throws.                 *)
SyncThrows(t) ==
    /\ At(t, "query") \/ At(t, "apply")
    /\ tasks[t].op = "cancel"
    /\ GoOn(t, "recheck")
    /\ UNCHANGED <<account, rows, logged, orders, sent, expired>>

-----------------------------------------------------------------------------
(* cancelInvoice *)

(* The provider is looked up once, and kept for the rest of the request.   *)
CheckBeforeCancel(t) ==
    LET n == tasks[t].n IN
    /\ At(t, "begun") /\ tasks[t].op = "cancel"
    /\ IF StillOpen(n) /\ Reachable(orders[n].merchant)
       THEN tasks' = [tasks EXCEPT ![t].merchant = Active, ![t].step = "query"]
       ELSE Finish(t)
    /\ UNCHANGED <<account, rows, logged, orders, sent, expired>>

CheckAfterSync(t) ==
    /\ At(t, "recheck")
    /\ IF StillOpen(tasks[t].n) /\ CanCancel(tasks[t].merchant) THEN GoOn(t, "ask") ELSE Finish(t)
    /\ UNCHANGED <<account, rows, logged, orders, sent, expired>>

(* An order that is over without being paid counts as cancelled.           *)
CancelPayment(t) ==
    LET n == tasks[t].n
    IN  /\ At(t, "ask")
        /\ ~WasPaid(n)
        /\ IF StillOpened(n)
           THEN orders' = [orders EXCEPT ![n].raw = "CANCELED"] /\ Notify(n, "CANCELED")
           ELSE UNCHANGED <<orders, sent>>
        /\ GoOn(t, "void")
        /\ UNCHANGED <<account, rows, logged, expired>>

(* Mutant: a conflict at the provider counts as a cancellation. *)
CancelAnyway(t) ==
    /\ At(t, "ask")
    /\ WasPaid(tasks[t].n)
    /\ GoOn(t, "void")
    /\ UNCHANGED <<account, rows, logged, orders, sent, expired>>

(* The order was paid meanwhile, or the provider is out of reach: the status *)
(* is synchronized, then the error is passed on.                             *)
CancelRefused(t) ==
    /\ At(t, "ask")
    /\ tasks' = [tasks EXCEPT ![t].op = "sync", ![t].step = "query"]
    /\ UNCHANGED <<account, rows, logged, orders, sent, expired>>

VoidInvoice(t) ==
    LET n == tasks[t].n
    IN  /\ At(t, "void")
        /\ IF StillOpen(n) THEN SetStatus(n, "FAILED", "VOID")
                           ELSE UNCHANGED <<account, rows>>
        /\ Finish(t)
        /\ UNCHANGED <<logged, orders, sent, expired>>

-----------------------------------------------------------------------------
(* refund *)

(* Mutants: what is reserved of the balance is not looked at; the ledger   *)
(* key of the refund is not unique.                                        *)
CreditInBalance == account.balance >= Credit
AnyRefundKey(n) == n \in Invoices

RefundKeyFree(n) == rows[n].refunds = 0

CreditUnused == account.balance - Credit >= account.reserved

BeginRefund(t, n) ==
    /\ At(t, "idle")
    /\ rows[n].payment = "PAID"
    /\ CreditUnused
    /\ Reachable(orders[n].merchant)
    /\ CanRefund(Active)
    /\ tasks' = [tasks EXCEPT ![t] = [IdleTask EXCEPT !.op = "refund", !.n = n, !.step = "refund",
                                                      !.merchant = Active]]
    /\ UNCHANGED <<account, rows, logged, orders, sent, expired>>

(* The refund key of an order makes a repeated refund the same refund.     *)
(* Another merchant does not know the order.                               *)
ProviderRefund(t) ==
    LET n == tasks[t].n
    IN  /\ At(t, "refund")
        /\ tasks[t].merchant = orders[n].merchant
        /\ WasPaid(n) \/ Stands(n) = "refund"
        /\ orders' = [orders EXCEPT ![n].raw = "refund"]
        /\ Notify(n, "refund")
        /\ GoOn(t, "takeBack")
        /\ UNCHANGED <<account, rows, logged, expired>>

(* The ledger key of a refund is the payment: a second row is refused.     *)
TakeBack(t) ==
    LET n == tasks[t].n
    IN  /\ At(t, "takeBack")
        /\ IF rows[n].payment # "REFUNDED" /\ CreditUnused /\ RefundKeyFree(n)
           THEN /\ account' = [account EXCEPT !.balance = @ - Credit, !.granted = @ - Credit]
                /\ rows' = [rows EXCEPT ![n].payment = "REFUNDED", ![n].invoice = "REFUNDED",
                                        ![n].refunds = @ + 1]
           ELSE UNCHANGED <<account, rows>>
        /\ Finish(t)
        /\ UNCHANGED <<logged, orders, sent, expired>>

-----------------------------------------------------------------------------
(* A statement or a provider call throws, or the process dies. *)
Dies(t) ==
    /\ ~At(t, "idle")
    /\ Finish(t)
    /\ UNCHANGED <<account, rows, logged, orders, sent, expired>>

(* Analysis jobs and chats hold a unit, then spend it or give it back. *)
HoldCredit == /\ account.balance - account.reserved >= 1
              /\ account' = [account EXCEPT !.reserved = @ + 1]
              /\ UNCHANGED <<rows, logged, orders, sent, expired, tasks>>

UseCredit(charge) ==
    /\ account.reserved >= 1
    /\ account' = [account EXCEPT !.reserved = @ - 1, !.balance = @ - charge]
    /\ UNCHANGED <<rows, logged, orders, sent, expired, tasks>>

-----------------------------------------------------------------------------
TaskStep(t) ==
    \/ \E n \in Invoices : \/ \E op \in {"create", "look", "cancel"} : Begin(t, op, n)
                           \/ BeginSync(t, n)
                           \/ BeginRefund(t, n)
    \/ ExpireOpenInvoices(t)
    \/ ReuseInvoice(t)
    \/ CreatePayment(t)
    \/ RecordInvoice(t)
    \/ GetTransactionStatus(t)
    \/ ApplyStatus(t)
    \/ SyncThrows(t)
    \/ CheckBeforeCancel(t)
    \/ CheckAfterSync(t)
    \/ CancelPayment(t)
    \/ CancelRefused(t)
    \/ VoidInvoice(t)
    \/ ProviderRefund(t)
    \/ TakeBack(t)
    \/ Dies(t)

PayStep ==
    \/ \E t \in Tasks : TaskStep(t)
    \/ \E n \in Invoices : TimePasses(n) \/ OrderEnds(n)
    \/ \E event \in sent, late \in BOOLEAN : Deliver(event[1], event[2], late)
    \/ HoldCredit
    \/ \E charge \in {0, 1} : UseCredit(charge)

(* Another provider, or another merchant, while orders are under way: what *)
(* leaves the merchant as it is concerns no order, and the one that is     *)
(* active before the first order is chosen by InitConfig.                  *)
Reconfigure ==
    /\ changes < MaxChanges
    /\ \E n \in Invoices : orders[n] # NoOrderYet
    /\ Redeploy \/ \E enabled, keys \in BOOLEAN : SaveSettings(enabled, keys)
    /\ Active' # Active
    /\ changes' = changes + 1
    /\ UNCHANGED <<account, rows, logged, orders, sent, expired, tasks>>

NextPay == Reconfigure \/ (PayStep /\ UNCHANGED <<changes, configVars>>)

SpecPay == InitPay /\ [][NextPay]_payVars

(* A provider repeats a webhook until the API has answered it.             *)
FairPay == SpecPay /\ \A n \in Invoices :
    WF_payVars(/\ Deliver(n, Paid(orders[n].merchant), FALSE)
               /\ UNCHANGED <<changes, configVars>>)

-----------------------------------------------------------------------------
(* PAYMENT_ENGINE.md: a paid callback grants the credit exactly once, even *)
(* when the webhook and a status asked of the provider both report it.     *)
GrantedOnce == \A n \in Invoices : rows[n].grants <= 1

(* A member never has the credit of an invoice twice at a time: a second   *)
(* grant takes a refund between them.  And two refunds of one payment, or  *)
(* one that a late webhook made look open again, take the credit back      *)
(* once, and only credit that was granted.                                 *)
CreditedOnceAtATime ==
    \A n \in Invoices :
        /\ rows[n].grants - rows[n].refunds \in {0, 1}
        /\ rows[n].refunds <= 1

(* Credit is never granted for an order that was not paid, whatever stale  *)
(* status a request still carries.                                         *)
GrantedWasPaid ==
    \A n \in Invoices : rows[n].grants > 0 => WasPaid(n) \/ Stands(n) = "refund"

(* An invoice is not voided once it was paid: cancellation that races with *)
(* the payment loses.                                                      *)
VoidedWasNotPaid == \A n \in Invoices : rows[n].invoice = "VOID" => ~WasPaid(n)

(* No refund takes money that a job or a chat has reserved.                *)
RefundSparesReserved == account.reserved <= account.balance

(* MIDTRANS_SETUP.md: a status asked of the provider goes through the same *)
(* idempotent settlement, so hearing "paid" again, however late, does not  *)
(* turn a payment that was settled into one that expired.                  *)
SettledStaysSettled ==
    [][\A n \in Invoices : rows[n].payment = "PAID" => rows'[n].payment # "EXPIRED"]_payVars

(* An order that is paid is credited in the end, in whatever order its     *)
(* webhooks come, unless the time of its invoice runs out first or the API *)
(* is configured for another merchant: it then can verify, and ask for,    *)
(* nothing about the order (byCode).                                       *)
PaidIsCredited ==
    \A n \in Invoices :
        WasPaid(n) ~> rows[n].grants > 0 \/ n \in expired \/ Active # orders[n].merchant
=============================================================================
