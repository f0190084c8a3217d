SPECIFICATION Spec
CONSTANTS
    s1 = s1
    s2 = s2
    r1 = r1
    r2 = r2
    m1 = m1
    m2 = m2
    m3 = m3
    full = full
    rcv = rcv
    mq = mq
    None = None
    Start = Start
    Threads = {s1, s2, r1, r2}
    Waitqs = {mq}
    GlobalQs = {}
    LifoQs = {}
    Preferred = {}
    AtHead = {}
    Events = {full, rcv}
    Bits = {}
    EventBits <- MCEventBits
    MaxFiring = 1
    IPC_MQUEUE_FULL = full
    IPC_MQUEUE_RECEIVE = rcv
    Msgs = {m1, m2, m3}
    Large = {m2}
    Sends <- MCSends
    Receives <- MCReceives
    Qlimits = {0, 1}
    MACH_PORT_QLIMIT_KERNEL = 2
    MsgcountRange = 8
    Aborts = {s1}
INVARIANTS TypeOK SlotsExact SendersRemembered ReceiversServed MessagesConserved
CHECK_DEADLOCK FALSE
