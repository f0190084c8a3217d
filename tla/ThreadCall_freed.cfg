SPECIFICATION Spec
CONSTANTS
    call1 = call1
    call2 = call2
    entry = entry
    high = high
    low = low
    None = None
    Alloc = {call1}
    Setup = {}
    Internal = {}
    Alike = {}
    Groups <- MCGroups
    group_of <- MCGroupOf
    Setups <- LiveSetups
    Workers = {w1}
    Clients = {k}
    Delays <- MCDelays
    Uses <- MCUses
    Blocking = {call1}
    CanFail = FALSE
    THREAD_CALL_ADD_RATIO = 1
INVARIANTS WorkerOwnsCall
