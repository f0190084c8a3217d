SPECIFICATION FairSpec
CONSTANTS
    t1 = t1
    t2 = t2
    t3 = t3
    q1 = q1
    e1 = e1
    e2 = e2
    b1 = b1
    b2 = b2
    None = None
    Start = Start
    Threads = {t1, t2, t3}
    Waitqs = {q1}
    GlobalQs = {q1}
    LifoQs = {}
    Preferred = {t2}
    AtHead = {t2}
    Events = {e1, e2}
    Bits = {b1, b2}
    EventBits <- MCBits
    global_eventq <- MCHash
    Waits <- MCWaits
    Aborts = {t1}
    MaxFiring = 2
INVARIANTS SleepersQueued TimersCounted AbortedAwake
PROPERTIES WakeupsFind TimeoutsDue DeadlineEnds
