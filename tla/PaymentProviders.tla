-------------------------- MODULE PaymentProviders --------------------------
(***************************************************************************)
(* The payment providers as PaymentService meets them: which one the       *)
(* configuration names (PaymentConfigurationService), what each adapter    *)
(* can be asked for, and how it reads what the provider says               *)
(* (MidtransPaymentProvider, XenditPaymentProvider).  A merchant is an     *)
(* account at a provider with its keys: Midtrans may have two of them, one *)
(* in the environment and one an administrator has stored.  The sandbox    *)
(* provider is left out.                                                   *)
(***************************************************************************)
EXTENDS Integers

VARIABLES
    primary,    \* PAYMENT_PRIMARY_PROVIDER of the deployment
    stored      \* the PaymentGatewaySetting row of Midtrans

configVars == <<primary, stored>>

ProviderOf(merchant) == IF merchant = "xendit" THEN "xendit" ELSE "midtrans"

InitConfig ==
    /\ primary \in {"xendit", "midtrans"}
    /\ stored = [enabled |-> FALSE, keys |-> FALSE]

(* resolveActive: the settings of an administrator come before Midtrans in *)
(* the environment, Xendit in the environment before both.                 *)
Active ==
    CASE primary = "xendit" -> "xendit"
      [] primary # "xendit" /\ stored.enabled /\ stored.keys -> "settings"
      [] OTHER -> "environment"

(* byCode, for the provider an invoice was opened with: that provider must *)
(* be the active one, and is then asked with the keys it has now.          *)
Reachable(merchant) == ProviderOf(Active) = ProviderOf(merchant)

(* Its webhooks are verified with the keys, or the token, of the moment.   *)
Verifies(merchant) == Active = merchant

(* So is a status asked for: another merchant does not know the order.     *)
Knows(merchant) == Active = merchant

(* The API is deployed with another primary provider, which ends no order. *)
Redeploy ==
    /\ primary' \in {"xendit", "midtrans"} \ {primary}
    /\ UNCHANGED stored

(* save: keys that are not given are kept. *)
SaveSettings(enabled, keys) ==
    /\ enabled => keys \/ stored.keys
    /\ stored' = [enabled |-> enabled, keys |-> keys \/ stored.keys]
    /\ UNCHANGED primary

(* Both adapters tell the status of an order. *)
CanCancel(merchant) == ProviderOf(merchant) = "xendit"
CanRefund(merchant) == ProviderOf(merchant) = "midtrans"

-----------------------------------------------------------------------------
(* createPayment.  The provider's answer is taken when it is about this    *)
(* order, in full, and has a code to pay it by; an answer that is refused  *)
(* leaves the order open at the provider.                                  *)

Answers == [rejected : BOOLEAN, orderId : BOOLEAN, amount : BOOLEAN,
            type : BOOLEAN, pending : BOOLEAN, image : BOOLEAN, text : BOOLEAN]

GoodAnswer == [rejected |-> FALSE, orderId |-> TRUE, amount |-> TRUE, type |-> TRUE,
               pending |-> TRUE, image |-> TRUE, text |-> TRUE]

(* The answers that are right, or wrong in one respect or two. *)
LikelyAnswers ==
    {GoodAnswer}
    \union {[GoodAnswer EXCEPT ![f] = ~@] : f \in DOMAIN GoodAnswer}
    \union {[GoodAnswer EXCEPT !.image = FALSE, !.text = FALSE]}

(* Midtrans says both how the payment stands and where its image is; the   *)
(* image may be out of reach as long as there is the text of the code.     *)
MidtransAccepts(answer) ==
    /\ ~answer.rejected
    /\ answer.orderId /\ answer.amount /\ answer.type /\ answer.pending
    /\ answer.image \/ answer.text

XenditAccepts(answer) ==
    /\ ~answer.rejected
    /\ answer.orderId /\ answer.amount /\ answer.type
    /\ answer.text

(* Mutant: the amount of the order is not compared. *)
AcceptsAnyAmount(merchant, answer) == MidtransAccepts([answer EXCEPT !.amount = TRUE])

Accepts(merchant, answer) ==
    IF ProviderOf(merchant) = "xendit" THEN XenditAccepts(answer) ELSE MidtransAccepts(answer)

-----------------------------------------------------------------------------
(* How a payment stands, in the words of the provider *)

(* What becomes of an order for a QRIS code. *)
Opened(merchant) == IF ProviderOf(merchant) = "xendit" THEN "ACCEPTING_PAYMENTS" ELSE "pending"
Paid(merchant) == IF ProviderOf(merchant) = "xendit" THEN "SUCCEEDED" ELSE "settlement"
Denied(merchant) == IF ProviderOf(merchant) = "xendit" THEN "FAILED" ELSE "deny"
Lapsed(merchant) == IF ProviderOf(merchant) = "xendit" THEN "EXPIRED" ELSE "expire"

(* Mutant: a denial counts as a capture that is accepted. *)
MidtransStatusDenied(raw) ==
    CASE raw \in {"settlement", "deny"} -> "paid"
      [] raw = "expire" -> "expired"
      [] raw = "refund" -> "refunded"
      [] OTHER -> "pending"

(* Midtrans does not know the order of another merchant: that is pending.  *)
(* Orders are QRIS payments, of which there is no capture.                 *)
MidtransStatus(raw) ==
    CASE raw = "settlement" -> "paid"
      [] raw = "expire" -> "expired"
      [] raw \in {"cancel", "deny", "failure"} -> "failed"
      [] raw \in {"refund", "partial_refund"} -> "refunded"
      [] OTHER -> "pending"

(* The event a webhook of Xendit is called by. *)
XenditEvent(raw) ==
    CASE raw = "SUCCEEDED" -> "payment.capture"
      [] raw = "EXPIRED" -> "payment_request.expiry"
      [] raw \in {"FAILED", "CANCELED"} -> "payment.failure"
      [] raw = "REFUNDED" -> "refund.succeeded"
      [] OTHER -> "payment_request.status"

(* Its name is believed before the status it carries. *)
XenditStatus(event, raw) ==
    CASE event = "payment.capture" \/ raw = "SUCCEEDED" -> "paid"
      [] event = "payment_request.expiry" \/ raw = "EXPIRED" -> "expired"
      [] event = "payment.failure" \/ raw \in {"FAILED", "CANCELED"} -> "failed"
      [] event = "refund.succeeded" \/ raw = "REFUNDED" -> "refunded"
      [] OTHER -> "pending"

(* A status that was asked for comes without the name of an event. *)
StatusOf(merchant, channel, raw) ==
    IF ProviderOf(merchant) # "xendit" THEN MidtransStatus(raw)
    ELSE XenditStatus(IF channel = "sync" THEN "payment_request.status" ELSE XenditEvent(raw), raw)

(* Mutant: the id of an event does not tell its status. *)
EventIdWithoutStatus(channel, n, raw) == [channel |-> channel, order |-> n, raw |-> ""]

(* What was asked for and what was told have different ids. *)
EventId(channel, n, raw) == [channel |-> channel, order |-> n, raw |-> raw]
=============================================================================
