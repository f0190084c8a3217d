----------------------------- MODULE MCMsgQueue -----------------------------
(* Two senders and two receivers of three messages. *)
EXTENDS MsgQueue
CONSTANTS s1, s2, r1, r2, m1, m2, m3, full, rcv
MCEventBits == [e \in Events |-> {}]

\* s1 may be aborted; s2 sends two messages, one of them too large for most
\* receives, the other by a poll or beyond the limit.
MCSends ==
    [t \in Threads |->
        CASE t = s1 -> {[msg |-> m1, always |-> FALSE, timeout |-> "none"]}
          [] t = s2 -> {[msg |-> m2, always |-> FALSE, timeout |-> "none"],
                        [msg |-> m3, always |-> FALSE, timeout |-> "poll"],
                        [msg |-> m3, always |-> TRUE, timeout |-> "none"]}
          [] OTHER -> {}]

\* r1 has a deadline and wants to know of messages that do not fit; r2 takes
\* what comes, or polls with a large buffer.
MCReceives ==
    [t \in Threads |->
        CASE t = r1 -> {[room |-> FALSE, large |-> TRUE, timeout |-> "timed"]}
          [] t = r2 -> {[room |-> FALSE, large |-> FALSE, timeout |-> "none"],
                        [room |-> TRUE, large |-> TRUE, timeout |-> "poll"]}
          [] OTHER -> {}]
=============================================================================
