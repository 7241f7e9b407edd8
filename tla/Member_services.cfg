SPECIFICATION SpecMember
CONSTANTS
    Chats = {q1, q2}
    RequestIds = {i1, i2}
    Estimates <- MCEstimates
    Charges <- MCCharges
    MaxEstimate = 2
    Deposits = {2}
    MaxDeposited = 4
    MemoryChats = {"q1", "q2"}
    ChatIds = {"i1", "j1"}
    JobIds = {"j1"}
    ReservationIds = {1, 2, 3}
    MemoryPolicy <- MCPolicy
    JobInput <- MCJobInput
    ChatEstimate = 1
    ChatCharges = {0, 3}
    CallCosts = {0, 1}
    CallEstimate = 1
    CallsAtOnce = 2
    Balances = {3, 8}
    PageInvoices = {1, 2}
    Sandbox = {2}
    Slots = {1, 2}
    MaxRefusals = 1
INVARIANTS
    ReservedIsHeld
    OpenChatsStayCovered
    ClosedOnce
    DeliveredIsPaid
PROPERTIES
    ReservationsEnd
    PageFindsOut
CHECK_DEADLOCK FALSE
