SPECIFICATION FairSpec
CONSTANTS
    t1 = t1
    t2 = t2
    t3 = t3
    s1 = s1
    s2 = s2
    e1 = e1
    None = None
    Start = Start
    Threads = {t1, t2, t3}
    Waitqs = {s1, s2}
    GlobalQs = {}
    LifoQs = {}
    Preferred = {}
    AtHead = {}
    Events = {e1}
    Bits = {}
    EventBits <- MCBits
    SEMAPHORE_EVENT = e1
    InitialCount = 0
    Waits <- PairWaits
    SignalKinds = {}
    Endings = {"destroy", "destroy_all", "notify"}
    Signallers = {t2, t3}
    Aborts = {}
    MaxCount = 1
    MaxRefs = 3
    MaxFiring = 1
INVARIANTS FreedUnused
PROPERTY LastReferenceFrees
