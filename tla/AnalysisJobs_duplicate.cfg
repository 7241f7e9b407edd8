SPECIFICATION Spec
CONSTANTS
    Requests = {r1}
    Handlers = {h1}
    Calls = {c1, c2}
    ResponseIds = {i1}
    Policy <- MCPolicy
    BillingSources <- MCSources
    StartInputs <- ShortStartInputs
    ActualCosts <- HonestCosts
    Concurrency = 1
    RepeatedIds = TRUE
    TopUpAmounts = {6}
    MaxGranted = 6
INVARIANTS
    JobCostCountsUsageOnce
