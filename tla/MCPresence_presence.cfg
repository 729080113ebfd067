SPECIFICATION PresenceSpec
CHECK_DEADLOCK FALSE
CONSTANTS
    MaxTime = 4
    Conns = {c, d}
    Hubs = {"h", "g"}
    MemberOf <- OneMember
    HubOf <- HubEach
    Lease = 3
    Stores = {"table"}
    MaxFaults = 0
INVARIANTS
    NoPageLeftWrong
