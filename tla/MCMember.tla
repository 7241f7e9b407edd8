------------------------------ MODULE MCMember ------------------------------
(* What one member meets, each on its own: chats billed on PostgreSQL, with*)
(* estimates he can and cannot afford, and charges below, at and above     *)
(* what was estimated; the wallet in memory; and the billing page.         *)
EXTENDS DirectCredit, MemoryCredits, BillingPage

VARIABLE question

MCEstimates == 0..2
MCCharges == {0, 1, 3}

MCPolicy ==
    [minimumMarginBps |-> 5000, targetMarginBps |-> 5000,
     infrastructureCost |-> 0, paymentFeeBps |-> 0,
     safetyBufferBps |-> 0, retryAllowanceBps |-> 0,
     minimumJobCharge |-> 1, maximumJobCharge |-> 6,
     reservationHeadroomBps |-> 2500, targetProviderCost |-> 1,
     warningProviderCost |-> 2, hardProviderCost |-> 3]

MCJobInput == [seconds |-> 300, clips |-> 3]

InitMember ==
    /\ question \in {"chats", "memory", "page"}
    /\ InitDirect /\ InitMemory /\ InitPage
    /\ question # "memory" => wallet.balance = 3

NextChats == question = "chats" /\ NextDirect /\ UNCHANGED <<question, memoryVars, pageVars>>

NextInMemory == question = "memory" /\ NextMemory /\ UNCHANGED <<question, directVars, pageVars>>

NextOnPage == question = "page" /\ NextPage /\ UNCHANGED <<question, directVars, memoryVars>>

(* Provider calls have a timeout, and the steps after them are awaited one *)
(* by one; the browser answers or gives up every request, and its timers   *)
(* run while the page shows an open invoice.                               *)
Fairness ==
    /\ \A q \in Chats : WF_directVars(question = "chats" /\ Open(q) /\ ChatStep(q))
    /\ \A s \in Slots : /\ WF_pageVars(question = "page" /\ Serve(s))
                        /\ WF_pageVars(question = "page" /\ Receive(s))
                        /\ WF_pageVars(question = "page" /\ Poll(s))

SpecMember ==
    /\ InitMember
    /\ [][NextChats \/ NextInMemory \/ NextOnPage]_<<question, directVars, memoryVars, pageVars>>
    /\ Fairness

(* What is reserved is what is held: see ReservedMatchesOpenChats (on      *)
(* PostgreSQL) and MemoryReservedIsHeld (in memory).                       *)
ReservedIsHeld == ReservedMatchesOpenChats /\ MemoryReservedIsHeld

(* What is delivered, and nothing else, is paid: see PaidIffDelivered (on  *)
(* PostgreSQL) and MemoryPaidIffDelivered (in memory).                     *)
DeliveredIsPaid == PaidIffDelivered /\ MemoryPaidIffDelivered
=============================================================================
