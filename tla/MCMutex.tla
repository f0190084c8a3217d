------------------------------- MODULE MCMutex -------------------------------
(* Instances of Mutex for TLC: threads of different priorities, one below  *)
(* BASEPRI_DEFAULT = 2 and one above MAXPRI_PROMOTE = 3.                   *)
EXTENDS Mutex, TLC

CONSTANTS t1, t2, t3

ThreePri == t1 :> 1 @@ t2 :> 2 @@ t3 :> 4
=============================================================================
