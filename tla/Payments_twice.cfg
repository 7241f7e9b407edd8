SPECIFICATION SpecPay
CONSTANTS
    Invoices = {n1}
    Tasks = {t1, t2}
    Credit = 1
    MaxChanges = 0
INVARIANT GrantedOnce
