SPECIFICATION Spec
CONSTANTS
    MaxProviderCost = 11
    MicroPerUsd = 100
    QrisLimit = 18200
    Requests = {r1, r2, r3, r4}
    Videos = {v1, v2, v3}
    Orders = {o1, o2}
    PlanRequests = 2
    PlanDays <- MCPlanDays
    Instants <- MCInstants
    DailyLimit = 1
    WeeklyLimit = 2
    TakeLimit = 3
    Fallback = TRUE
SYMMETRY Symmetry
INVARIANTS
    MarginIsKept
    EstimateIsReserved
    StartedCanSell
    FreeJobsWithinQuota
    DuesAreServed
