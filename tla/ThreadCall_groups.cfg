SPECIFICATION FairSpec
CONSTANTS
    call1 = call1
    call2 = call2
    entry = entry
    high = high
    low = low
    None = None
    Alloc = {call1, call2}
    Setup = {}
    Internal = {}
    Alike = {}
    Groups <- TwoGroups
    group_of <- TwoGroupOf
    Setups <- TwoSetups
    Workers = {w1, w2}
    Clients = {}
    Delays <- MCDelays
    Uses <- LiveUses
    Blocking = {}
    CanFail = FALSE
    THREAD_CALL_ADD_RATIO = 4
PROPERTIES PendingRuns
