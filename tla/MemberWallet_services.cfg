SPECIFICATION SpecWallet
CONSTANTS
    Requests = {r1, r2}
    Handlers = {h1}
    Policy <- MCPolicy
    BillingSources = {"WALLET_STANDARD"}
    StartInputs <- MCStartInputs
    TopUpAmounts = {4}
    MaxGranted = 4
    Chats = {q1, q2}
    RequestIds = {i1, i2}
    Estimates = {1}
    Charges = {0, 3}
    MaxEstimate = 1
    Admins = {a1}
    AdminTargets = {1, 6}
SYMMETRY MCWalletSymmetry
INVARIANTS
    ReservedMatchesBoth
    BothStayWithinBalance
    OpenJobsCanRelease
