-------------------------- MODULE SharedExclusive ---------------------------
(***************************************************************************)
(* What a reader-writer lock with upgrade promises the code that uses it.  *)
(* A thread whose upgrade is granted keeps every writer out from the       *)
(* moment it stops being a reader until it is the writer, so what it read  *)
(* under the shared hold is still true under the exclusive one; a thread   *)
(* whose upgrade is refused ends up with no hold at all.                   *)
(***************************************************************************)
CONSTANT Threads

VARIABLE mode   \* "none", "shared", "upgrading" or "exclusive", per thread

SE_Init == mode = [t \in Threads |-> "none"]

SE_Set(t, m) == mode' = [mode EXCEPT ![t] = m]

OthersIn(t, ms) == \A u \in Threads \ {t} : mode[u] \in ms

AcquireShared(t) ==
    /\ mode[t] = "none"
    /\ OthersIn(t, {"none", "shared", "upgrading"})
    /\ SE_Set(t, "shared")

AcquireExclusive(t) ==
    /\ mode[t] = "none"
    /\ OthersIn(t, {"none"})
    /\ SE_Set(t, "exclusive")

\* At most one thread upgrades at a time.
BeginUpgrade(t) ==
    /\ mode[t] = "shared"
    /\ OthersIn(t, {"none", "shared"})
    /\ SE_Set(t, "upgrading")

FinishUpgrade(t) ==
    /\ mode[t] \in {"shared", "upgrading"}
    /\ OthersIn(t, {"none"})
    /\ SE_Set(t, "exclusive")

\* A refused upgrade: another thread is upgrading.
RefuseUpgrade(t) ==
    /\ mode[t] = "shared"
    /\ \E u \in Threads \ {t} : mode[u] = "upgrading"
    /\ SE_Set(t, "none")

Downgrade(t) ==
    /\ mode[t] = "exclusive"
    /\ SE_Set(t, "shared")

Release(t) ==
    /\ mode[t] \in {"shared", "exclusive"}
    /\ SE_Set(t, "none")

SE_Next ==
    \E t \in Threads :
        \/ AcquireShared(t)
        \/ AcquireExclusive(t)
        \/ BeginUpgrade(t)
        \/ FinishUpgrade(t)
        \/ RefuseUpgrade(t)
        \/ Downgrade(t)
        \/ Release(t)

SE_Spec == SE_Init /\ [][SE_Next]_mode
=============================================================================
