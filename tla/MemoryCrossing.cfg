CONSTANTS
    ProposalIds = {p1, p2}
    MemoryIds = {m1, m2}
    Facts = {f1, f2}
    None = None
    MaxInbox = 2
    MaxLost = 0
SPECIFICATION DeliverySpec
INVARIANTS KeptAsRead
CHECK_DEADLOCK FALSE
