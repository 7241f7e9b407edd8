SPECIFICATION FairPay
CONSTANTS
    Invoices = {n1}
    Tasks = {t1, t2}
    Credit = 1
    MaxChanges = 1
INVARIANTS
    CreditedOnceAtATime
    GrantedWasPaid
    VoidedWasNotPaid
    RefundSparesReserved
PROPERTY
    PaidIsCredited
