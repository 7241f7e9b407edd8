SPECIFICATION FairSpec
CONSTANTS
    Requests = {r1, r2}
    Handlers = {h1}
    Calls = {c1, c2}
    ResponseIds = {i1, i2}
    Policy <- MCPolicy
    BillingSources <- MCSources
    StartInputs <- ShortStartInputs
    ActualCosts <- HonestCosts
    Concurrency = 1
    RepeatedIds = FALSE
    TopUpAmounts = {6}
    MaxGranted = 6
INVARIANTS
    OpenJobsCanBeSettled
    JobCostCountsUsageOnce
PROPERTY
    EveryJobCloses
