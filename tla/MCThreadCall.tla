---------------------------- MODULE MCThreadCall ----------------------------
(* Instances of ThreadCall for TLC. *)
EXTENDS ThreadCall, TLC

CONSTANTS call1, call2, entry, high, low

\* One group: an allocated call for everything, one in its client's storage, an
\* internal entry.
MCGroups == <<high>>
MCGroupOf == [c \in Calls |-> high]
MCSetups == [x \in {high} |-> {[target |-> 0, parallel |-> TRUE], [target |-> 1, parallel |-> FALSE]}]
MCUses == [c \in Calls |-> IF c = call1 THEN {"enter", "delay", "cancel", "wait", "free"}
                           ELSE IF c = call2 THEN {"enter"} ELSE {}]
MCDelays == [c \in Calls |-> {IF c = call1 THEN [soft |-> 1, hard |-> 2, limited |-> FALSE]
                                        ELSE [soft |-> 0, hard |-> 1, limited |-> TRUE]}]

WorkerSymmetry == Permutations(Workers)

\* For liveness: a call that is waited for and one that is not.
LiveSetups == [x \in {high} |-> MCSetups[x] \cup {[target |-> 1, parallel |-> TRUE]}]
LiveUses == [c \in Calls |-> IF c = call1 THEN {"enter", "wait"} ELSE {"enter"}]

\* Two groups: the one of high priority and a parallel one.
TwoGroups == <<high, low>>
TwoGroupOf == [c \in Calls |-> IF c = call1 THEN high ELSE low]
TwoSetups == [x \in {high, low} |-> {[target |-> 1, parallel |-> x = low]}]
=============================================================================
