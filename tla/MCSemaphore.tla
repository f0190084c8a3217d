---------------------------- MODULE MCSemaphore ----------------------------
(* The waits that the threads of the runs make. *)
EXTENDS Semaphore
CONSTANTS t1, t2, t3, s1, s2, e1
MCBits == [e \in Events |-> {}]
Plain(s) == [wait |-> s, signal |-> None, timed |-> FALSE, noblock |-> FALSE]
By(S, W) == [t \in Threads |-> IF t \in S THEN W ELSE {}]

\* For the signals: a thread that waits with a deadline or polls, and one that
\* waits for as long as it takes.
SignalWaits == [t \in Threads |->
    CASE t = t1 -> {[Plain(s1) EXCEPT !.timed = TRUE], [Plain(s1) EXCEPT !.noblock = TRUE]}
      [] t = t2 -> {Plain(s1)}
      [] t = t3 -> {}]

\* For the references: a thread that waits for one semaphore and signals the other.
PairWaits == By({t1}, {[Plain(s1) EXCEPT !.signal = s2]})
=============================================================================
