SPECIFICATION Spec
CONSTANTS
    Requests = {r1, r2}
    Handlers = {h1}
    Calls = {c1, c2}
    ResponseIds = {i1}
    Policy <- MCPolicy
    BillingSources <- MCSources
    StartInputs <- MCStartInputs
    ActualCosts <- AnyCosts
    Concurrency = 2
    RepeatedIds = TRUE
    TopUpAmounts = {6}
    MaxGranted = 6
SYMMETRY MCSymmetry
INVARIANTS
    ReservedMatchesOpenJobs
    LifetimeTotalsExplainBalance
    LedgerExplainsRows
    ChargeWithinReservation
PROPERTIES
    ClosedJobsAreFinal
    KeepsPromise
