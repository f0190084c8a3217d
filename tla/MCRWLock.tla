------------------------------ MODULE MCRWLock ------------------------------
\* Instances of RWLock for TLC.
EXTENDS RWLock, TLC

CONSTANT Writers   \* threads that only ever ask for the lock exclusively

ThreadSymmetry == Permutations(Threads)

\* For the liveness run the threads have fixed roles, which keeps the graph
\* small: the lock is privileged, a writer locks exclusively, the others lock shared and may upgrade
\* and downgrade.  The priority floor plays no part in who gets the lock.
RoleRequest(t) ==
    \/ t \in Writers /\ lck_rw_lock_exclusive(t)
    \/ t \notin Writers /\ lck_rw_lock_shared(t)
    \/ lck_rw_lock_shared_to_exclusive(t)
    \/ lck_rw_lock_shared_to_exclusive_lose(t)
    \/ lck_rw_lock_exclusive_to_shared(t)
    \/ lck_rw_done(t)

RoleInit == Init /\ priv_excl = TRUE

RoleSpec ==
    /\ RoleInit
    /\ [][(\E t \in Threads : Continue(t) \/ RoleRequest(t)) /\ UNCHANGED priv_excl]_vars
    /\ Fairness
=============================================================================
