SPECIFICATION Spec
CONSTANTS
    call1 = call1
    call2 = call2
    entry = entry
    high = high
    low = low
    None = None
    Alloc = {call1}
    Setup = {call2}
    Internal = {entry}
    Alike = {call1, entry}
    Groups <- MCGroups
    group_of <- MCGroupOf
    Setups <- MCSetups
    Workers = {w1, w2}
    Clients = {k}
    Delays <- MCDelays
    Uses <- MCUses
    Blocking = {call1}
    CanFail = TRUE
    THREAD_CALL_ADD_RATIO = 4
SYMMETRY WorkerSymmetry
INVARIANTS QueuesExact CountsExact DelayedCovered RefsExact
    OutstandingExact WaiterWillWake
