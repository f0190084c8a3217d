SPECIFICATION Spec
CONSTANTS
    t1 = t1
    t2 = t2
    t3 = t3
    s1 = s1
    s2 = s2
    e1 = e1
    None = None
    Start = Start
    Threads = {t1, t2, t3}
    Waitqs = {s1}
    GlobalQs = {}
    LifoQs = {}
    Preferred = {}
    AtHead = {}
    Events = {e1}
    Bits = {}
    EventBits <- MCBits
    SEMAPHORE_EVENT = e1
    InitialCount = 0
    Waits <- SignalWaits
    SignalKinds = {"prepost", "all", "thread", "any"}
    Endings = {"destroy"}
    Signallers = {t3}
    Aborts = {t1}
    MaxCount = 2
    MaxRefs = 3
    MaxFiring = 1
INVARIANTS TypeOK WaitersMarked UnitsDelivered
PROPERTY SignalCounts
