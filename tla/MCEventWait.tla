---------------------------- MODULE MCEventWait ----------------------------
(* Two events of one queue; the bits of one are among those of the other.  *)
EXTENDS EventWait
CONSTANTS t1, t2, t3, q1, e1, e2, b1, b2
MCBits == [e \in Events |-> IF e = e1 THEN {b1} ELSE {b1, b2}]
MCHash == [e \in Events |-> q1]

\* t1 waits for one event at all levels, with and without a deadline, t2 is a preferred waiter that cannot be
\* interrupted, for both events; t3 only wakes.
MCWaits ==
    [t \in Threads |->
        CASE t = t1 -> [event : {e1}, level : {"UNINT"}, timed : {FALSE}]
                       \cup [event : {e1}, level : {"INTERRUPTIBLE", "ABORTSAFE"}, timed : {TRUE}]
          [] t = t2 -> [event : Events, level : {"UNINT"}, timed : {FALSE}]
          [] t = t3 -> {}]
=============================================================================
