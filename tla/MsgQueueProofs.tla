--------------------------- MODULE MsgQueueProofs ---------------------------
(***************************************************************************)
(* Slots, messages and waits of a port's queue, for any threads, messages, *)
(* limits and queues.                                                      *)
(***************************************************************************)
EXTENDS MsgQueue, ThreadWaitProofs

ClientTypes ==
    /\ wait_result \in [Threads -> Results]
    /\ imq_messages \in Seq(Msgs)
    /\ imq_msgcount \in 0 .. MsgcountRange - 1
    /\ imq_qlimit \in Qlimits
    /\ imq_fullwaiters \in BOOLEAN
    /\ port \in Phases
    /\ pc \in [Threads -> Pcs]
    /\ kmsg \in [Threads -> Msgs \cup {None}]
    /\ ith_option \in [Threads -> (UNION {Receives[t] : t \in Threads}) \cup {None}]
    /\ ith_state \in [Threads -> States]
    /\ ith_kmsg \in [Threads -> Msgs \cup {None}]
    /\ promoted \in SUBSET Threads
    /\ outside \in SUBSET Msgs

\* What mach_msg_receive_results takes for a message received.
Took(t) == ith_state[t] = "SUCCESS" \/ (ith_state[t] = "TOO_LARGE" /\ ~ith_option[t].large)

\* Where the thread is, and what its fields say of its message and its wait.
SenderKnown(t) == kmsg[t] # None <=> pc[t] \in {"sendWait", "post"}

WaitKnown(t) ==
    /\ waitq[t] # None => /\ waitq[t] = mq
                          /\ \/ pc[t] = "sendWait" /\ wait_event[t] = IPC_MQUEUE_FULL
                             \/ pc[t] = "rcvWait" /\ wait_event[t] = IPC_MQUEUE_RECEIVE
    /\ waitq[t] = None => wait_result[t] # "WAITING"

ReceiverKnown(t) ==
    /\ ith_option[t] \in Receives[t] \cup {None}
    /\ pc[t] \in {"copied", "rcvWait", "results"} => ith_option[t] \in Receives[t]
    /\ pc[t] = "rcvWait" /\ waitq[t] # None => ith_state[t] = "IN_PROGRESS"
    /\ ith_kmsg[t] # None <=>
         /\ Took(t)
         /\ \/ pc[t] = "results"
            \/ pc[t] = "rcvWait" /\ waitq[t] = None /\ wait_result[t] = "AWAKENED"

ThreadInv(t) == SenderKnown(t) /\ WaitKnown(t) /\ ReceiverKnown(t)

\* The places of a message: in each it is there once, or not at all.
NotSent(m) == \A t \in Threads : kmsg[t] # m
SentOnce(m) == \E t \in Threads : \A u \in Threads : kmsg[u] = m <=> u = t
NotGiven(m) == \A t \in Threads : ith_kmsg[t] # m
GivenOnce(m) == \E t \in Threads : \A u \in Threads : ith_kmsg[u] = m <=> u = t
NotQueued(m) == \A i \in 1 .. Len(imq_messages) : imq_messages[i] # m
QueuedOnce(m) == \E i \in 1 .. Len(imq_messages) : \A j \in 1 .. Len(imq_messages) : imq_messages[j] = m <=> j = i

Placed(m) ==
    \/ SentOnce(m) /\ NotGiven(m) /\ NotQueued(m) /\ m \notin outside
    \/ NotSent(m) /\ GivenOnce(m) /\ NotQueued(m) /\ m \notin outside
    \/ NotSent(m) /\ NotGiven(m) /\ QueuedOnce(m) /\ m \notin outside
    \/ NotSent(m) /\ NotGiven(m) /\ NotQueued(m) /\ m \in outside

\* The senders that own a slot, by their queue instead of their state.
Holds(t) == pc[t] = "post" \/ (pc[t] = "sendWait" /\ waitq[t] = None /\ wait_result[t] = "AWAKENED")
Holders == {t \in Threads : Holds(t)}

Slots == port \in {"active", "cleared"} => imq_msgcount = Len(imq_messages) + Cardinality(Holders)

IInv ==
    /\ QueueInv
    /\ ClientTypes
    /\ \A t \in Threads : ThreadInv(t)
    /\ \A m \in Msgs : Placed(m)
    /\ Slots
    /\ SendersRemembered
    /\ ReceiversServed

-----------------------------------------------------------------------------
(* What the invariant gives. *)

\* The constants, one by one.
LEMMA Constants ==
    /\ mq \in Waitqs /\ mq \notin GlobalQs /\ mq # None
    /\ IPC_MQUEUE_FULL \in Events /\ IPC_MQUEUE_RECEIVE \in Events
    /\ IPC_MQUEUE_FULL # None /\ IPC_MQUEUE_RECEIVE # None
    /\ IPC_MQUEUE_FULL # IPC_MQUEUE_RECEIVE
    /\ None \notin Msgs
    /\ IsFiniteSet(Threads) /\ IsFiniteSet(Msgs)
  BY MsgQueueConstants, ThreadWaitConstants, Zenon

\* The numbers among them.
LEMMA Numbers ==
    /\ MsgcountRange \in Nat /\ MACH_PORT_QLIMIT_KERNEL \in Nat
    /\ MACH_PORT_QLIMIT_KERNEL < MsgcountRange
    /\ \A l \in Qlimits : l \in Nat /\ l <= MACH_PORT_QLIMIT_KERNEL
    /\ Cardinality(Msgs) \in Nat /\ Cardinality(Msgs) < MsgcountRange
<1>1. Cardinality(Msgs) \in Nat
  BY MsgQueueConstants, FS_CardinalityType, Zenon
<1> QED
  BY <1>1, MsgQueueConstants

\* imq_msgcount-- wraps at zero only.
LEMMA LessIs ==
    ASSUME NEW c \in 0 .. MsgcountRange - 1
    PROVE  Less(c) \in 0 .. MsgcountRange - 1 /\ (c > 0 => Less(c) = c - 1)
  BY Numbers DEF Less

\* The threads that wait for an event of the queue are those that a wakeup sees.
LEMMA MqWaiting ==
    ASSUME QueueInv, NEW e \in Events
    PROVE  Waiting(mq, e) = {t \in Threads : WaitingFor(t, e)}
<1>1. ASSUME NEW t \in Threads PROVE t \in waitq_queue[mq] <=> waitq[t] = mq
  BY <1>1, Constants, Zenon DEF QueueInv, Linked
<1>2. waitq_queue[mq] \subseteq Threads
  BY Constants, Zenon DEF QueueInv, QueueTypes
<1> QED
  BY <1>1, <1>2, Constants, Zenon DEF Waiting, WaitingFor

\* Who owns a slot does not wait.
LEMMA OwnsIs == ASSUME NEW t, Linked(t) PROVE Owns(t) <=> Holds(t)
  BY Zenon DEF Linked, Owns, Holds

\* A set of threads is finite.
LEMMA ThreadsFinite ==
    ASSUME NEW S \in SUBSET Threads PROVE IsFiniteSet(S) /\ Cardinality(S) \in Nat
<1>1. IsFiniteSet(S)
  BY Constants, FS_Subset, Zenon
<1> QED
  BY <1>1, FS_CardinalityType, Zenon

\* Slots are in use by messages, each by another: there are no more than
\* messages, and imq_msgcount does not wrap.
LEMMA SlotsBounded ==
    ASSUME NEW queue \in Seq(Msgs), NEW k, NEW O \in SUBSET Threads,
           \A t \in O : k[t] \in Msgs,
           \A t, u \in O : k[t] = k[u] => t = u,
           \A i, j \in 1 .. Len(queue) : queue[i] = queue[j] => i = j,
           \A t \in O, i \in 1 .. Len(queue) : queue[i] # k[t]
    PROVE  Len(queue) + Cardinality(O) <= Cardinality(Msgs)
<1> DEFINE Q == {queue[i] : i \in 1 .. Len(queue)}
           K == {k[t] : t \in O}
           f == [i \in 1 .. Len(queue) |-> queue[i]]
           g == [t \in O |-> k[t]]
<1>1. Len(queue) \in Nat /\ \A i \in 1 .. Len(queue) : queue[i] \in Msgs
  OBVIOUS
<1>2. IsFiniteSet(1 .. Len(queue)) /\ Cardinality(1 .. Len(queue)) = Len(queue)
  <2>1. /\ IsFiniteSet(1 .. Len(queue))
        /\ Cardinality(1 .. Len(queue)) = IF 1 > Len(queue) THEN 0 ELSE Len(queue) - 1 + 1
    <3>1. 1 \in Int /\ Len(queue) \in Int
      BY <1>1
    <3> QED
      BY <3>1, FS_Interval, Zenon
  <2> QED
    BY <1>1, <2>1
<1>3. ExistsBijection(1 .. Len(queue), Q)
  <2>1. f \in [1 .. Len(queue) -> Q] /\ \A i \in 1 .. Len(queue) : f[i] = queue[i]
    BY Zenon
  <2>2. \A i, j \in 1 .. Len(queue) : f[i] = f[j] => i = j
    BY <2>1, Zenon
  <2>3. \A m \in Q : \E i \in 1 .. Len(queue) : f[i] = m
    BY <2>1, Zenon
  <2>4. f \in Bijection(1 .. Len(queue), Q)
    <3> HIDE DEF f, Q
    <3> QED
      BY <2>1, <2>2, <2>3, Zenon DEF Bijection, Injection, Surjection, IsInjective
  <2> QED
    BY <2>4, Zenon DEF ExistsBijection
<1>4. IsFiniteSet(Q) /\ Cardinality(Q) = Len(queue)
  BY <1>2, <1>3, FS_Bijection, Zenon
<1>5. ExistsBijection(O, K)
  <2>1. g \in [O -> K] /\ \A t \in O : g[t] = k[t]
    BY Zenon
  <2>2. \A t, u \in O : g[t] = g[u] => t = u
    BY <2>1, Zenon
  <2>3. \A m \in K : \E t \in O : g[t] = m
    BY <2>1, Zenon
  <2>4. g \in Bijection(O, K)
    <3> HIDE DEF g, K
    <3> QED
      BY <2>1, <2>2, <2>3, Zenon DEF Bijection, Injection, Surjection, IsInjective
  <2> QED
    BY <2>4, Zenon DEF ExistsBijection
<1>6. IsFiniteSet(K) /\ Cardinality(K) = Cardinality(O)
  BY <1>5, ThreadsFinite, FS_Bijection, Zenon
<1>7. Q \cap K = {}
  BY Zenon
<1>8. Q \cup K \in SUBSET Msgs
  <2>1. \A m \in Q : m \in Msgs
    BY <1>1, Zenon
  <2>2. \A m \in K : m \in Msgs
    BY Zenon
  <2> HIDE DEF Q, K
  <2> QED
    BY <2>1, <2>2, Zenon
<1> HIDE DEF Q, K
<1>9. Cardinality(Q \cup K) = Cardinality(Q) + Cardinality(K) - Cardinality(Q \cap K)
  BY <1>4, <1>6, FS_Union, Zenon
<1>10. Cardinality(Q \cap K) = 0
  BY <1>7, FS_EmptySet, Zenon
<1>11. Cardinality(Q \cup K) <= Cardinality(Msgs)
  BY <1>8, Constants, FS_Subset, Zenon
<1>12. Cardinality(O) \in Nat
  BY ThreadsFinite, Zenon
<1> QED
  BY <1>1, <1>4, <1>6, <1>9, <1>10, <1>11, <1>12

-----------------------------------------------------------------------------
(* Moving a message from one place to another. *)

\* Messages and the fields they are in.
PlaceTypes ==
    /\ kmsg \in [Threads -> Msgs \cup {None}]
    /\ ith_kmsg \in [Threads -> Msgs \cup {None}]
    /\ imq_messages \in Seq(Msgs)

\* kmsg[t] is written: messages other than the old and the new one stay.
LEMMA SentOthers ==
    ASSUME PlaceTypes, NEW t \in Threads, NEW x, kmsg' = [kmsg EXCEPT ![t] = x],
           NEW n, n # x, n # kmsg[t]
    PROVE  (NotSent(n) => NotSent(n)') /\ (SentOnce(n) => SentOnce(n)')
<1>1. \A u \in Threads : kmsg'[u] = n <=> kmsg[u] = n
  BY Zenon DEF PlaceTypes
<1> QED
  BY <1>1, Zenon DEF NotSent, SentOnce

\* A message that no sender had is now with t.
LEMMA SentIn ==
    ASSUME PlaceTypes, NEW t \in Threads, NEW x, kmsg' = [kmsg EXCEPT ![t] = x], NotSent(x)
    PROVE  SentOnce(x)'
<1>1. \A u \in Threads : kmsg'[u] = x <=> u = t
  BY Zenon DEF PlaceTypes, NotSent
<1> QED
  BY <1>1, Zenon DEF SentOnce

\* The message that t had is with no sender.
LEMMA SentOut ==
    ASSUME PlaceTypes, NEW t \in Threads, kmsg' = [kmsg EXCEPT ![t] = None],
           NEW x \in Msgs, x = kmsg[t], SentOnce(x)
    PROVE  NotSent(x)'
<1>1. \A u \in Threads : kmsg[u] = x => u = t
  BY Zenon DEF SentOnce
<1>2. x # None
  BY Constants, Zenon
<1> QED
  BY <1>1, <1>2, Zenon DEF PlaceTypes, NotSent

\* The same of ith_kmsg[t].
LEMMA GivenOthers ==
    ASSUME PlaceTypes, NEW t \in Threads, NEW x, ith_kmsg' = [ith_kmsg EXCEPT ![t] = x],
           NEW n, n # x, n # ith_kmsg[t]
    PROVE  (NotGiven(n) => NotGiven(n)') /\ (GivenOnce(n) => GivenOnce(n)')
<1>1. \A u \in Threads : ith_kmsg'[u] = n <=> ith_kmsg[u] = n
  BY Zenon DEF PlaceTypes
<1> QED
  BY <1>1, Zenon DEF NotGiven, GivenOnce

\* A message that no receiver had is now with t.
LEMMA GivenIn ==
    ASSUME PlaceTypes, NEW t \in Threads, NEW x, ith_kmsg' = [ith_kmsg EXCEPT ![t] = x], NotGiven(x)
    PROVE  GivenOnce(x)'
<1>1. \A u \in Threads : ith_kmsg'[u] = x <=> u = t
  BY Zenon DEF PlaceTypes, NotGiven
<1> QED
  BY <1>1, Zenon DEF GivenOnce

\* The message that t had is with no receiver.
LEMMA GivenOut ==
    ASSUME PlaceTypes, NEW t \in Threads, ith_kmsg' = [ith_kmsg EXCEPT ![t] = None],
           NEW x \in Msgs, x = ith_kmsg[t], GivenOnce(x)
    PROVE  NotGiven(x)'
<1>1. \A u \in Threads : ith_kmsg[u] = x => u = t
  BY Zenon DEF GivenOnce
<1>2. x # None
  BY Constants, Zenon
<1> QED
  BY <1>1, <1>2, Zenon DEF PlaceTypes, NotGiven

\* The end of the queue, and its head.
LEMMA QueuedOthers ==
    ASSUME PlaceTypes, NEW x \in Msgs, imq_messages' = Append(imq_messages, x), NEW n, n # x
    PROVE  (NotQueued(n) => NotQueued(n)') /\ (QueuedOnce(n) => QueuedOnce(n)')
<1> DEFINE l == Len(imq_messages)
<1>1. /\ l \in Nat /\ Len(imq_messages') = l + 1
      /\ \A i \in 1 .. l : imq_messages'[i] = imq_messages[i]
      /\ imq_messages'[l + 1] = x
  BY DEF PlaceTypes
<1>2. ASSUME NotQueued(n) PROVE NotQueued(n)'
  BY <1>1, <1>2 DEF NotQueued
<1>3. ASSUME QueuedOnce(n) PROVE QueuedOnce(n)'
  <2>1. PICK i \in 1 .. l : \A j \in 1 .. l : imq_messages[j] = n <=> j = i
    BY <1>3, Zenon DEF QueuedOnce
  <2>2. i \in 1 .. Len(imq_messages')
    BY <1>1, <2>1
  <2>3. \A j \in 1 .. Len(imq_messages') : imq_messages'[j] = n <=> j = i
    BY <1>1, <2>1
  <2> QED
    BY <2>2, <2>3, Zenon DEF QueuedOnce
<1> QED
  BY <1>2, <1>3, Zenon

\* A message that was not queued is now at the end.
LEMMA QueuedIn ==
    ASSUME PlaceTypes, NEW x \in Msgs, imq_messages' = Append(imq_messages, x), NotQueued(x)
    PROVE  QueuedOnce(x)'
<1> DEFINE l == Len(imq_messages)
<1>1. /\ l \in Nat /\ Len(imq_messages') = l + 1
      /\ \A i \in 1 .. l : imq_messages'[i] = imq_messages[i]
      /\ imq_messages'[l + 1] = x
  BY DEF PlaceTypes
<1>2. l + 1 \in 1 .. Len(imq_messages')
  BY <1>1
<1>3. \A j \in 1 .. Len(imq_messages') : imq_messages'[j] = x <=> j = l + 1
  BY <1>1 DEF NotQueued
<1> QED
  BY <1>2, <1>3, Zenon DEF QueuedOnce

\* Without its head, the queue has the other messages.
LEMMA QueuedRest ==
    ASSUME PlaceTypes, imq_messages # <<>>, imq_messages' = Tail(imq_messages), NEW n, n # Head(imq_messages)
    PROVE  (NotQueued(n) => NotQueued(n)') /\ (QueuedOnce(n) => QueuedOnce(n)')
<1> DEFINE l == Len(imq_messages)
<1>1. /\ l \in Nat /\ l > 0 /\ Len(imq_messages') = l - 1
      /\ \A i \in 1 .. l - 1 : imq_messages'[i] = imq_messages[i + 1]
      /\ imq_messages[1] = Head(imq_messages)
  BY DEF PlaceTypes
<1>2. ASSUME NotQueued(n) PROVE NotQueued(n)'
  BY <1>1, <1>2 DEF NotQueued
<1>3. ASSUME QueuedOnce(n) PROVE QueuedOnce(n)'
  <2>1. PICK i \in 1 .. l : \A j \in 1 .. l : imq_messages[j] = n <=> j = i
    BY <1>3, Zenon DEF QueuedOnce
  <2>2. i # 1
    BY <1>1, <2>1
  <2>3. i - 1 \in 1 .. Len(imq_messages')
    BY <1>1, <2>1, <2>2
  <2>4. \A j \in 1 .. Len(imq_messages') : imq_messages'[j] = n <=> j = i - 1
    BY <1>1, <2>1
  <2> QED
    BY <2>3, <2>4, Zenon DEF QueuedOnce
<1> QED
  BY <1>2, <1>3, Zenon

\* The head is queued no more.
LEMMA QueuedOut ==
    ASSUME PlaceTypes, imq_messages # <<>>, imq_messages' = Tail(imq_messages),
           NEW x, x = Head(imq_messages), QueuedOnce(x)
    PROVE  NotQueued(x)'
<1> DEFINE l == Len(imq_messages)
<1>1. /\ l \in Nat /\ l > 0 /\ Len(imq_messages') = l - 1
      /\ \A i \in 1 .. l - 1 : imq_messages'[i] = imq_messages[i + 1]
      /\ imq_messages[1] = Head(imq_messages)
  BY DEF PlaceTypes
<1>2. PICK i \in 1 .. l : \A j \in 1 .. l : imq_messages[j] = x <=> j = i
  BY Zenon DEF QueuedOnce
<1>3. i = 1
  BY <1>1, <1>2
<1> QED
  BY <1>1, <1>2, <1>3 DEF NotQueued

\* No field that holds messages is written.
LEMMA MessagesStay ==
    ASSUME NEW m, Placed(m), UNCHANGED <<kmsg, ith_kmsg, imq_messages, outside>>
    PROVE  Placed(m)'
<1>1. (NotSent(m)' <=> NotSent(m)) /\ (SentOnce(m)' <=> SentOnce(m))
  BY Zenon DEF NotSent, SentOnce
<1>2. (NotGiven(m)' <=> NotGiven(m)) /\ (GivenOnce(m)' <=> GivenOnce(m))
  BY Zenon DEF NotGiven, GivenOnce
<1>3. (NotQueued(m)' <=> NotQueued(m)) /\ (QueuedOnce(m)' <=> QueuedOnce(m))
  BY Zenon DEF NotQueued, QueuedOnce
<1> QED
  BY <1>1, <1>2, <1>3, Zenon DEF Placed

\* From outside to a sender.
LEMMA MoveIn ==
    ASSUME PlaceTypes, \A m \in Msgs : Placed(m), NEW t \in Threads, NEW x \in outside,
           kmsg[t] = None, kmsg' = [kmsg EXCEPT ![t] = x], outside' = outside \ {x},
           UNCHANGED <<ith_kmsg, imq_messages>>
    PROVE  \A m \in Msgs : Placed(m)'
<1> SUFFICES ASSUME NEW m \in Msgs PROVE Placed(m)'
  BY Zenon
<1>1. m # None /\ Placed(m)
  BY Constants, Zenon
<1>2. /\ NotGiven(m)' <=> NotGiven(m)
      /\ GivenOnce(m)' <=> GivenOnce(m)
      /\ NotQueued(m)' <=> NotQueued(m)
      /\ QueuedOnce(m)' <=> QueuedOnce(m)
  BY Zenon DEF NotGiven, GivenOnce, NotQueued, QueuedOnce
<1>3. CASE m = x
  BY <1>1, <1>2, <1>3, SentIn, Zenon DEF Placed
<1>4. CASE m # x
  <2>1. (NotSent(m) => NotSent(m)') /\ (SentOnce(m) => SentOnce(m)')
    BY <1>1, <1>4, SentOthers, Zenon
  <2> QED
    BY <1>1, <1>2, <1>4, <2>1, Zenon DEF Placed
<1> QED
  BY <1>3, <1>4, Zenon

\* The message of a sender is nowhere else.
LEMMA SenderHas ==
    ASSUME NEW t \in Threads, NEW x \in Msgs, kmsg[t] = x, Placed(x)
    PROVE  SentOnce(x) /\ NotGiven(x) /\ NotQueued(x) /\ x \notin outside
  BY Zenon DEF Placed, NotSent

\* From a sender to the outside.
LEMMA MoveBack ==
    ASSUME PlaceTypes, \A m \in Msgs : Placed(m), NEW t \in Threads, NEW x \in Msgs,
           kmsg[t] = x, kmsg' = [kmsg EXCEPT ![t] = None], outside' = outside \cup {x},
           UNCHANGED <<ith_kmsg, imq_messages>>
    PROVE  \A m \in Msgs : Placed(m)'
<1> SUFFICES ASSUME NEW m \in Msgs PROVE Placed(m)'
  BY Zenon
<1>1. m # None /\ Placed(m)
  BY Constants, Zenon
<1>2. /\ NotGiven(m)' <=> NotGiven(m)
      /\ GivenOnce(m)' <=> GivenOnce(m)
      /\ NotQueued(m)' <=> NotQueued(m)
      /\ QueuedOnce(m)' <=> QueuedOnce(m)
  BY Zenon DEF NotGiven, GivenOnce, NotQueued, QueuedOnce
<1>3. CASE m = x
  <2>1. SentOnce(x) /\ NotGiven(x) /\ NotQueued(x)
    BY <1>1, <1>3, SenderHas, Zenon
  <2>2. NotSent(x)'
    BY <2>1, SentOut, Zenon
  <2> QED
    BY <1>2, <1>3, <2>1, <2>2, Zenon DEF Placed
<1>4. CASE m # x
  <2>1. (NotSent(m) => NotSent(m)') /\ (SentOnce(m) => SentOnce(m)')
    BY <1>1, <1>4, SentOthers, Zenon
  <2> QED
    BY <1>1, <1>2, <1>4, <2>1, Zenon DEF Placed
<1> QED
  BY <1>3, <1>4, Zenon

\* From a sender to the end of the queue.
LEMMA MoveToQueue ==
    ASSUME PlaceTypes, \A m \in Msgs : Placed(m), NEW t \in Threads, NEW x \in Msgs,
           kmsg[t] = x, kmsg' = [kmsg EXCEPT ![t] = None], imq_messages' = Append(imq_messages, x),
           UNCHANGED <<ith_kmsg, outside>>
    PROVE  \A m \in Msgs : Placed(m)'
<1> SUFFICES ASSUME NEW m \in Msgs PROVE Placed(m)'
  BY Zenon
<1>1. m # None /\ Placed(m)
  BY Constants, Zenon
<1>2. /\ NotGiven(m)' <=> NotGiven(m)
      /\ GivenOnce(m)' <=> GivenOnce(m)
  BY Zenon DEF NotGiven, GivenOnce
<1>3. CASE m = x
  <2>1. SentOnce(x) /\ NotGiven(x) /\ NotQueued(x) /\ x \notin outside
    BY <1>1, <1>3, SenderHas, Zenon
  <2>2. NotSent(x)' /\ QueuedOnce(x)'
    BY <2>1, SentOut, QueuedIn, Zenon
  <2> QED
    BY <1>2, <1>3, <2>1, <2>2, Zenon DEF Placed
<1>4. CASE m # x
  <2>1. /\ (NotSent(m) => NotSent(m)') /\ (SentOnce(m) => SentOnce(m)')
        /\ (NotQueued(m) => NotQueued(m)') /\ (QueuedOnce(m) => QueuedOnce(m)')
    BY <1>1, <1>4, SentOthers, QueuedOthers, Zenon
  <2> QED
    BY <1>1, <1>2, <1>4, <2>1, Zenon DEF Placed
<1> QED
  BY <1>3, <1>4, Zenon

\* From a sender to a receiver.
LEMMA MoveOver ==
    ASSUME PlaceTypes, \A m \in Msgs : Placed(m), NEW t \in Threads, NEW x \in Msgs, NEW r \in Threads,
           kmsg[t] = x, kmsg' = [kmsg EXCEPT ![t] = None],
           ith_kmsg[r] = None, ith_kmsg' = [ith_kmsg EXCEPT ![r] = x],
           UNCHANGED <<imq_messages, outside>>
    PROVE  \A m \in Msgs : Placed(m)'
<1> SUFFICES ASSUME NEW m \in Msgs PROVE Placed(m)'
  BY Zenon
<1>1. m # None /\ Placed(m)
  BY Constants, Zenon
<1>2. /\ NotQueued(m)' <=> NotQueued(m)
      /\ QueuedOnce(m)' <=> QueuedOnce(m)
  BY Zenon DEF NotQueued, QueuedOnce
<1>3. CASE m = x
  <2>1. SentOnce(x) /\ NotGiven(x) /\ NotQueued(x) /\ x \notin outside
    BY <1>1, <1>3, SenderHas, Zenon
  <2>2. NotSent(x)' /\ GivenOnce(x)'
    BY <2>1, SentOut, GivenIn, Zenon
  <2> QED
    BY <1>2, <1>3, <2>1, <2>2, Zenon DEF Placed
<1>4. CASE m # x
  <2>1. /\ (NotSent(m) => NotSent(m)') /\ (SentOnce(m) => SentOnce(m)')
        /\ (NotGiven(m) => NotGiven(m)') /\ (GivenOnce(m) => GivenOnce(m)')
    BY <1>1, <1>4, SentOthers, GivenOthers, Zenon
  <2> QED
    BY <1>1, <1>2, <1>4, <2>1, Zenon DEF Placed
<1> QED
  BY <1>3, <1>4, Zenon

\* From the head of the queue to a receiver.
LEMMA MoveFromQueue ==
    ASSUME PlaceTypes, \A m \in Msgs : Placed(m), NEW x \in Msgs, NEW r \in Threads,
           imq_messages # <<>>, x = Head(imq_messages), imq_messages' = Tail(imq_messages),
           ith_kmsg[r] = None, ith_kmsg' = [ith_kmsg EXCEPT ![r] = x],
           UNCHANGED <<kmsg, outside>>
    PROVE  \A m \in Msgs : Placed(m)'
<1> SUFFICES ASSUME NEW m \in Msgs PROVE Placed(m)'
  BY Zenon
<1>1. m # None /\ Placed(m)
  BY Constants, Zenon
<1>2. /\ NotSent(m)' <=> NotSent(m)
      /\ SentOnce(m)' <=> SentOnce(m)
  BY Zenon DEF NotSent, SentOnce
<1>3. CASE m = x
  <2>1. ~NotQueued(x)
    <3>1. 1 \in 1 .. Len(imq_messages) /\ imq_messages[1] = x
      BY DEF PlaceTypes
    <3> QED
      BY <3>1, Zenon DEF NotQueued
  <2>2. NotSent(x) /\ NotGiven(x) /\ QueuedOnce(x) /\ x \notin outside
    BY <1>1, <1>3, <2>1, Zenon DEF Placed
  <2>3. NotQueued(x)' /\ GivenOnce(x)'
    BY <2>2, QueuedOut, GivenIn, Zenon
  <2> QED
    BY <1>2, <1>3, <2>2, <2>3, Zenon DEF Placed
<1>4. CASE m # x
  <2>1. /\ (NotQueued(m) => NotQueued(m)') /\ (QueuedOnce(m) => QueuedOnce(m)')
        /\ (NotGiven(m) => NotGiven(m)') /\ (GivenOnce(m) => GivenOnce(m)')
    BY <1>1, <1>4, QueuedRest, GivenOthers, Zenon
  <2> QED
    BY <1>1, <1>2, <1>4, <2>1, Zenon DEF Placed
<1> QED
  BY <1>3, <1>4, Zenon

\* From a receiver to the outside.
LEMMA MoveOut ==
    ASSUME PlaceTypes, \A m \in Msgs : Placed(m), NEW t \in Threads, NEW x \in Msgs,
           ith_kmsg[t] = x, ith_kmsg' = [ith_kmsg EXCEPT ![t] = None], outside' = outside \cup {x},
           UNCHANGED <<kmsg, imq_messages>>
    PROVE  \A m \in Msgs : Placed(m)'
<1> SUFFICES ASSUME NEW m \in Msgs PROVE Placed(m)'
  BY Zenon
<1>1. m # None /\ Placed(m)
  BY Constants, Zenon
<1>2. /\ NotSent(m)' <=> NotSent(m)
      /\ SentOnce(m)' <=> SentOnce(m)
      /\ NotQueued(m)' <=> NotQueued(m)
      /\ QueuedOnce(m)' <=> QueuedOnce(m)
  BY Zenon DEF NotSent, SentOnce, NotQueued, QueuedOnce
<1>3. CASE m = x
  <2>1. NotSent(x) /\ GivenOnce(x) /\ NotQueued(x)
    BY <1>1, <1>3, Zenon DEF Placed, NotGiven
  <2>2. NotGiven(x)'
    BY <2>1, GivenOut, Zenon
  <2> QED
    BY <1>2, <1>3, <2>1, <2>2, Zenon DEF Placed
<1>4. CASE m # x
  <2>1. (NotGiven(m) => NotGiven(m)') /\ (GivenOnce(m) => GivenOnce(m)')
    BY <1>1, <1>4, GivenOthers, Zenon
  <2> QED
    BY <1>1, <1>2, <1>4, <2>1, Zenon DEF Placed
<1> QED
  BY <1>3, <1>4, Zenon

\* The whole queue to the outside.
LEMMA MoveAll ==
    ASSUME PlaceTypes, \A m \in Msgs : Placed(m),
           imq_messages' = <<>>, outside' = outside \cup MessagesOf(imq_messages),
           UNCHANGED <<kmsg, ith_kmsg>>
    PROVE  \A m \in Msgs : Placed(m)'
<1> SUFFICES ASSUME NEW m \in Msgs PROVE Placed(m)'
  BY Zenon
<1>1. /\ NotSent(m)' <=> NotSent(m)
      /\ SentOnce(m)' <=> SentOnce(m)
      /\ NotGiven(m)' <=> NotGiven(m)
      /\ GivenOnce(m)' <=> GivenOnce(m)
  BY Zenon DEF NotSent, SentOnce, NotGiven, GivenOnce
<1>2. NotQueued(m)'
  BY DEF NotQueued
<1>3. DOMAIN imq_messages = 1 .. Len(imq_messages)
  BY DEF PlaceTypes
<1>4. (NotQueued(m) => m \notin MessagesOf(imq_messages)) /\ (QueuedOnce(m) => m \in MessagesOf(imq_messages))
  BY <1>3, Zenon DEF NotQueued, QueuedOnce, MessagesOf
<1>5. Placed(m)
  BY Zenon
<1> QED
  BY <1>1, <1>2, <1>4, <1>5, Zenon DEF Placed

-----------------------------------------------------------------------------
(* What a step leaves alone. *)

\* The fields of thread u that the invariant speaks of stay as they are.
Kept(u) ==
    /\ waitq'[u] = waitq[u] /\ wait_event'[u] = wait_event[u] /\ wait_result'[u] = wait_result[u]
    /\ pc'[u] = pc[u] /\ kmsg'[u] = kmsg[u] /\ ith_option'[u] = ith_option[u]
    /\ ith_state'[u] = ith_state[u] /\ ith_kmsg'[u] = ith_kmsg[u]

\* A thread whose fields stay keeps its invariant, its slot and its wait.
LEMMA KeptInv ==
    ASSUME NEW u, Kept(u)
    PROVE  /\ ThreadInv(u) => ThreadInv(u)'
           /\ Holds(u)' <=> Holds(u)
           /\ WaitingFor(u, IPC_MQUEUE_FULL)' <=> WaitingFor(u, IPC_MQUEUE_FULL)
           /\ WaitingFor(u, IPC_MQUEUE_RECEIVE)' <=> WaitingFor(u, IPC_MQUEUE_RECEIVE)
<1>1. ThreadInv(u) => ThreadInv(u)'
  BY Zenon DEF Kept, ThreadInv, SenderKnown, WaitKnown, ReceiverKnown, Took
<1> QED
  BY <1>1, Zenon DEF Kept, Holds, WaitingFor

\* No slot, no message of the queue and no new wait: the rest of the invariant.
LEMMA RestKept ==
    ASSUME IInv, UNCHANGED <<imq_messages, imq_msgcount, imq_qlimit, imq_fullwaiters>>,
           port \in {"active", "cleared"} <=> port' \in {"active", "cleared"},
           \A u \in Threads : Holds(u)' <=> Holds(u),
           \A u \in Threads : WaitingFor(u, IPC_MQUEUE_FULL)' => WaitingFor(u, IPC_MQUEUE_FULL),
           \/ imq_messages = <<>>
           \/ \A u \in Threads : WaitingFor(u, IPC_MQUEUE_RECEIVE)' => WaitingFor(u, IPC_MQUEUE_RECEIVE)
    PROVE  Slots' /\ SendersRemembered' /\ ReceiversServed'
<1>1. Holders' = Holders
  BY Zenon DEF Holders
<1>2. Slots'
  BY <1>1, Zenon DEF IInv, Slots
<1>3. SendersRemembered'
  BY Zenon DEF IInv, SendersRemembered, imq_full
<1> QED
  BY <1>2, <1>3, Zenon DEF IInv, ReceiversServed

\* A step of thread t that writes its own fields, and lets nothing else change.
LEMMA OwnStep ==
    ASSUME IInv, NEW t \in Threads, QueueInv', ClientTypes',
           \A u \in Threads : u # t => Kept(u),
           ThreadInv(t)', Holds(t)' <=> Holds(t),
           WaitingFor(t, IPC_MQUEUE_FULL)' => WaitingFor(t, IPC_MQUEUE_FULL),
           imq_messages = <<>> \/ (WaitingFor(t, IPC_MQUEUE_RECEIVE)' => WaitingFor(t, IPC_MQUEUE_RECEIVE)),
           UNCHANGED imqVars,
           \A m \in Msgs : Placed(m)'
    PROVE  IInv'
<1>1. \A u \in Threads : ThreadInv(u)'
  BY KeptInv, Zenon DEF IInv
<1>2. \A u \in Threads : Holds(u)' <=> Holds(u)
  BY KeptInv, Zenon
<1>3. \A u \in Threads : WaitingFor(u, IPC_MQUEUE_FULL)' => WaitingFor(u, IPC_MQUEUE_FULL)
  BY KeptInv, Zenon
<1>4. \/ imq_messages = <<>>
      \/ \A u \in Threads : WaitingFor(u, IPC_MQUEUE_RECEIVE)' => WaitingFor(u, IPC_MQUEUE_RECEIVE)
  BY KeptInv, Zenon
<1>5. UNCHANGED <<imq_messages, imq_msgcount, imq_qlimit, imq_fullwaiters, port>>
  BY Zenon DEF imqVars
<1>6. Slots' /\ SendersRemembered' /\ ReceiversServed'
  BY <1>2, <1>3, <1>4, <1>5, RestKept, Zenon
<1> QED
  BY <1>1, <1>6, Zenon DEF IInv

\* The fields after Run: the threads of S have left the queue.
LEMMA RunFields ==
    ASSUME NEW S, NEW r, Run(S, r), NEW u \in Threads
    PROVE  /\ u \in S => waitq'[u] = None /\ wait_event'[u] = None /\ wait_result'[u] = r
           /\ u \notin S => /\ waitq'[u] = waitq[u] /\ wait_event'[u] = wait_event[u]
                            /\ wait_result'[u] = wait_result[u]
  BY Zenon DEF Run

\* The types of the fields that hold messages.
LEMMA Places == ClientTypes => PlaceTypes
  BY Zenon DEF ClientTypes, PlaceTypes

-----------------------------------------------------------------------------
(* The steps that neither take nor give a slot. *)

\* Nothing happens.
LEMMA StutterStep == ASSUME IInv, UNCHANGED vars PROVE IInv'
<1>1. UNCHANGED <<state, waitq, wait_event, wait_result, waitq_queue, ahead>>
  BY Zenon DEF vars, waitVars, threadVars, queueVars
<1>2. UNCHANGED <<imq_messages, imq_msgcount, imq_qlimit, imq_fullwaiters, port, ith_option, ith_state, ith_kmsg,
                  pc, kmsg, promoted, outside>>
  BY Zenon DEF vars, imqVars, ithVars
<1>3. QueueInv'
  BY <1>1, SameQueue, Zenon DEF IInv
<1>4. ClientTypes'
  BY <1>1, <1>2, Zenon DEF IInv, ClientTypes
<1>5. \A u \in Threads : Kept(u)
  BY <1>1, <1>2, Zenon DEF Kept
<1>6. \A m \in Msgs : Placed(m)'
  BY <1>2, MessagesStay, Zenon DEF IInv
<1>7. Slots' /\ SendersRemembered' /\ ReceiversServed'
  BY <1>2, <1>5, KeptInv, RestKept, Zenon
<1> QED
  BY <1>3, <1>4, <1>5, <1>6, <1>7, KeptInv, Zenon DEF IInv

\* The clock, an abort or clear_wait ends the wait of t, or does not.
LEMMA OutsideStep ==
    ASSUME IInv, NEW t \in Threads, Spares(t) \/ Ends(t), UNCHANGED clientVars
    PROVE  IInv'
<1>1. QueueInv'
  BY OutsideQueue, Zenon DEF IInv
<1>2. UNCHANGED <<imq_messages, imq_msgcount, imq_qlimit, imq_fullwaiters, port, ith_option, ith_state, ith_kmsg,
                  pc, kmsg, promoted, outside>>
  BY Zenon DEF clientVars, imqVars, ithVars
<1>3. \A m \in Msgs : Placed(m)'
  BY <1>2, MessagesStay, Zenon DEF IInv
<1>4. CASE Spares(t)
  <2>1. UNCHANGED <<waitq, wait_event, wait_result>>
    BY <1>4, Zenon DEF Spares, threadVars
  <2>2. \A u \in Threads : Kept(u)
    BY <1>2, <2>1, Zenon DEF Kept
  <2>3. ClientTypes'
    BY <1>2, <2>1, Zenon DEF IInv, ClientTypes
  <2>4. Slots' /\ SendersRemembered' /\ ReceiversServed'
    BY <1>2, <2>2, KeptInv, RestKept, Zenon
  <2> QED
    BY <1>1, <1>3, <2>2, <2>3, <2>4, KeptInv, Zenon DEF IInv
<1>5. CASE Ends(t)
  <2>1. PICK r \in {"TIMED_OUT", "INTERRUPTED"} : Run({t}, r)
    BY <1>5, Zenon DEF Ends
  <2>2. waitq'[t] = None /\ wait_event'[t] = None /\ wait_result'[t] = r
    BY <2>1, RunFields, Zenon
  <2>3. ASSUME NEW u \in Threads, u # t PROVE Kept(u)
    <3>1. u \notin {t}
      BY <2>3, Zenon
    <3>2. waitq'[u] = waitq[u] /\ wait_event'[u] = wait_event[u] /\ wait_result'[u] = wait_result[u]
      BY <2>1, <2>3, <3>1, RunFields, Zenon
    <3> QED
      BY <1>2, <3>2, Zenon DEF Kept
  <2>4. waitq[t] # None
    BY <1>5, Zenon DEF Ends, IInv, QueueInv, Linked
  <2>5. ClientTypes'
    <3>1. wait_result' \in [Threads -> Results]
      BY <2>1, Zenon DEF IInv, ClientTypes, Run, Results
    <3> QED
      BY <1>2, <3>1, Zenon DEF IInv, ClientTypes
  <2>6. ThreadInv(t)
    BY Zenon DEF IInv
  <2>7. r # "WAITING" /\ r # "AWAKENED"
    BY <2>1, Zenon
  <2>8. ThreadInv(t)'
    <3>1. SenderKnown(t)'
      BY <1>2, <2>6, Zenon DEF ThreadInv, SenderKnown
    <3>2. WaitKnown(t)'
      BY <2>2, <2>7, Zenon DEF WaitKnown
    <3>3. pc[t] = "sendWait" \/ pc[t] = "rcvWait"
      BY <2>4, <2>6, Zenon DEF ThreadInv, WaitKnown
    <3>4. ReceiverKnown(t)'
      BY <1>2, <2>2, <2>4, <2>6, <2>7, <3>3, Zenon DEF ThreadInv, ReceiverKnown, Took
    <3> QED
      BY <3>1, <3>2, <3>4, Zenon DEF ThreadInv
  <2>9. Holds(t)' <=> Holds(t)
    BY <1>2, <2>2, <2>4, <2>7, Zenon DEF Holds
  <2>10. ~WaitingFor(t, IPC_MQUEUE_FULL)' /\ ~WaitingFor(t, IPC_MQUEUE_RECEIVE)'
    BY <2>2, Constants, Zenon DEF WaitingFor
  <2>11. UNCHANGED imqVars
    BY <1>2, Zenon DEF imqVars
  <2> QED
    BY <1>1, <1>3, <2>3, <2>5, <2>8, <2>9, <2>10, <2>11, OwnStep, Zenon
<1> QED
  BY <1>4, <1>5, Zenon

\* The thread leaves the kernel.
LEMMA ReturnStep == ASSUME IInv, NEW t \in Threads, Return(t) PROVE IInv'
<1>1. Spares(t) /\ UNCHANGED clientVars
  BY Zenon DEF Return, special_handler, Spares
<1> QED
  BY <1>1, OutsideStep, Zenon

\* The fields after ResultRead.
LEMMA ResultFields ==
    ASSUME IInv, NEW t \in Threads, ResultRead(t)
    PROVE  /\ QueueInv'
           /\ wait_result' \in [Threads -> Results]
           /\ UNCHANGED <<waitq, wait_event>>
           /\ wait_result'[t] = "AWAKENED"
           /\ \A u \in Threads : u # t => wait_result'[u] = wait_result[u]
<1>1. UNCHANGED <<state, waitq, wait_event, waitq_queue, ahead>>
  BY Zenon DEF ResultRead, queueVars
<1>2. QueueInv'
  BY <1>1, SameQueue, Zenon DEF IInv
<1> QED
  BY <1>1, <1>2, Zenon DEF ResultRead, IInv, ClientTypes, Results

\* A sender that waited goes on: with its slot, or back with its message.
LEMMA ResumeStep == ASSUME IInv, NEW t \in Threads, send_resumes(t) PROVE IInv'
<1>1. ResultRead(t) /\ pc[t] = "sendWait" /\ "WAIT" \notin state[t]
  BY Zenon DEF send_resumes
<1>2. waitq[t] = None
  BY <1>1, Zenon DEF IInv, QueueInv, Linked
<1>3. UNCHANGED <<imq_messages, imq_msgcount, imq_qlimit, imq_fullwaiters, port, ith_option, ith_state, ith_kmsg, promoted>>
  BY Zenon DEF send_resumes, imqVars, ithVars
<1>4. ThreadInv(t)
  BY Zenon DEF IInv
<1>5. PICK x \in Msgs : kmsg[t] = x
  BY <1>1, <1>4, Zenon DEF ThreadInv, SenderKnown, IInv, ClientTypes
<1>6. x # None
  BY Constants, Zenon
<1>7. /\ pc' = [pc EXCEPT ![t] = IF wait_result[t] = "AWAKENED" THEN "post" ELSE "idle"]
      /\ kmsg' = [kmsg EXCEPT ![t] = IF wait_result[t] = "AWAKENED" THEN x ELSE None]
      /\ outside' = IF wait_result[t] = "AWAKENED" THEN outside ELSE outside \cup {x}
  <2>1. CASE wait_result[t] = "AWAKENED"
    BY <1>5, <2>1, Zenon DEF send_resumes, Goto, IInv, ClientTypes
  <2>2. CASE wait_result[t] # "AWAKENED"
    BY <1>5, <2>2, Zenon DEF send_resumes, Goto
  <2> QED
    BY <2>1, <2>2, Zenon
<1>8. ClientTypes'
  BY <1>1, <1>3, <1>7, ResultFields, Zenon DEF IInv, ClientTypes, Pcs
<1>9. ASSUME NEW u \in Threads, u # t PROVE Kept(u)
  BY <1>1, <1>3, <1>7, <1>9, ResultFields, Zenon DEF Kept, IInv, ClientTypes
<1>10. /\ waitq'[t] = None /\ wait_result'[t] = "AWAKENED"
       /\ pc'[t] = IF wait_result[t] = "AWAKENED" THEN "post" ELSE "idle"
       /\ kmsg'[t] = IF wait_result[t] = "AWAKENED" THEN x ELSE None
  BY <1>1, <1>2, <1>7, ResultFields, Zenon DEF IInv, ClientTypes
<1>11. ThreadInv(t)'
  <2>1. SenderKnown(t)'
    BY <1>6, <1>10, Zenon DEF SenderKnown
  <2>2. WaitKnown(t)'
    BY <1>10, Zenon DEF WaitKnown
  <2>3. ReceiverKnown(t)'
    BY <1>1, <1>3, <1>4, <1>10, Zenon DEF ThreadInv, ReceiverKnown
  <2> QED
    BY <2>1, <2>2, <2>3, Zenon DEF ThreadInv
<1>12. Holds(t)' <=> Holds(t)
  BY <1>1, <1>2, <1>10, Zenon DEF Holds
<1>13. ~WaitingFor(t, IPC_MQUEUE_FULL)' /\ ~WaitingFor(t, IPC_MQUEUE_RECEIVE)'
  BY <1>10, Constants, Zenon DEF WaitingFor
<1>14. \A m \in Msgs : Placed(m)'
  <2>1. CASE wait_result[t] = "AWAKENED"
    <3>1. kmsg' = kmsg
      BY <1>5, <1>7, <2>1, Zenon DEF IInv, ClientTypes
    <3> QED
      BY <1>3, <1>7, <2>1, <3>1, MessagesStay, Zenon DEF IInv
  <2>2. CASE wait_result[t] # "AWAKENED"
    <3>1. kmsg' = [kmsg EXCEPT ![t] = None] /\ outside' = outside \cup {x}
      BY <1>7, <2>2, Zenon
    <3> QED
      BY <1>3, <1>5, <3>1, MoveBack, Places, Zenon DEF IInv
  <2> QED
    BY <2>1, <2>2, Zenon
<1>15. UNCHANGED imqVars
  BY <1>3, Zenon DEF imqVars
<1> QED
  BY <1>1, <1>8, <1>9, <1>11, <1>12, <1>13, <1>14, <1>15, OwnStep, ResultFields, Zenon

\* A receive begins.
LEMMA CopyinStep ==
    ASSUME IInv, NEW t \in Threads, NEW o \in Receives[t], ipc_mqueue_copyin(t, o)
    PROVE  IInv'
<1>1. UNCHANGED <<state, waitq, wait_event, wait_result, waitq_queue, ahead>>
  BY Zenon DEF ipc_mqueue_copyin, waitVars, threadVars, queueVars
<1>2. UNCHANGED <<ith_state, ith_kmsg, kmsg, promoted, outside>> /\ UNCHANGED imqVars
  BY Zenon DEF ipc_mqueue_copyin
<1>3. /\ pc[t] = "idle"
      /\ pc' = [pc EXCEPT ![t] = "copied"]
      /\ ith_option' = [ith_option EXCEPT ![t] = o]
  BY Zenon DEF ipc_mqueue_copyin, Goto
<1>4. QueueInv'
  BY <1>1, SameQueue, Zenon DEF IInv
<1>5. ClientTypes'
  <2>1. o \in UNION {Receives[u] : u \in Threads}
    BY Zenon
  <2> QED
    BY <1>1, <1>2, <1>3, <2>1, Zenon DEF IInv, ClientTypes, Pcs, imqVars
<1>6. ASSUME NEW u \in Threads, u # t PROVE Kept(u)
  BY <1>1, <1>2, <1>3, <1>6, Zenon DEF Kept, IInv, ClientTypes
<1>7. pc'[t] = "copied" /\ ith_option'[t] = o
  BY <1>3, Zenon DEF IInv, ClientTypes
<1>8. ThreadInv(t)
  BY Zenon DEF IInv
<1>9. waitq[t] = None
  BY <1>3, <1>8, Zenon DEF ThreadInv, WaitKnown
<1>10. ThreadInv(t)'
  <2>1. SenderKnown(t)'
    BY <1>2, <1>3, <1>7, <1>8, Zenon DEF ThreadInv, SenderKnown
  <2>2. WaitKnown(t)'
    BY <1>1, <1>8, <1>9, Zenon DEF ThreadInv, WaitKnown
  <2>3. ReceiverKnown(t)'
    BY <1>2, <1>3, <1>7, <1>8, Zenon DEF ThreadInv, ReceiverKnown
  <2> QED
    BY <2>1, <2>2, <2>3, Zenon DEF ThreadInv
<1>11. Holds(t)' <=> Holds(t)
  BY <1>3, <1>7, Zenon DEF Holds
<1>12. ~WaitingFor(t, IPC_MQUEUE_FULL)' /\ ~WaitingFor(t, IPC_MQUEUE_RECEIVE)'
  BY <1>1, <1>9, Constants, Zenon DEF WaitingFor
<1>13. \A m \in Msgs : Placed(m)'
  BY <1>2, MessagesStay, Zenon DEF IInv, imqVars
<1> QED
  BY <1>2, <1>4, <1>5, <1>6, <1>10, <1>11, <1>12, <1>13, OwnStep, Zenon

\* A receiver finds a message that does not fit and leaves it, or polls an
\* empty queue: only its ith_state changes.
LEMMA AnnounceStep ==
    ASSUME IInv, NEW t \in Threads, NEW v \in States,
           pc[t] = "copied", Goto(t, "results"), ith_state' = [ith_state EXCEPT ![t] = v],
           v # "SUCCESS", v = "TOO_LARGE" => ith_option[t].large,
           UNCHANGED <<waitVars, imqVars, ith_kmsg, promoted, ith_option, kmsg, outside>>
    PROVE  IInv'
<1>1. UNCHANGED <<state, waitq, wait_event, wait_result, waitq_queue, ahead>>
  BY Zenon DEF waitVars, threadVars, queueVars
<1>2. UNCHANGED <<ith_option, ith_kmsg, kmsg, promoted, outside>> /\ UNCHANGED imqVars
  BY Zenon
<1>3. QueueInv'
  BY <1>1, SameQueue, Zenon DEF IInv
<1>4. ClientTypes'
  BY <1>1, <1>2, Zenon DEF IInv, ClientTypes, Pcs, imqVars, Goto
<1>5. ASSUME NEW u \in Threads, u # t PROVE Kept(u)
  BY <1>1, <1>2, <1>5, Zenon DEF Kept, IInv, ClientTypes, Goto
<1>6. pc'[t] = "results" /\ ith_state'[t] = v
  BY Zenon DEF IInv, ClientTypes, Goto
<1>7. ThreadInv(t)
  BY Zenon DEF IInv
<1>8. waitq[t] = None
  BY <1>7, Zenon DEF ThreadInv, WaitKnown
<1>9. ThreadInv(t)'
  <2>1. SenderKnown(t)'
    BY <1>2, <1>6, <1>7, Zenon DEF ThreadInv, SenderKnown
  <2>2. WaitKnown(t)'
    BY <1>1, <1>7, <1>8, Zenon DEF ThreadInv, WaitKnown
  <2>3. ReceiverKnown(t)'
    BY <1>2, <1>6, <1>7, Zenon DEF ThreadInv, ReceiverKnown, Took
  <2> QED
    BY <2>1, <2>2, <2>3, Zenon DEF ThreadInv
<1>10. Holds(t)' <=> Holds(t)
  BY <1>6, Zenon DEF Holds
<1>11. ~WaitingFor(t, IPC_MQUEUE_FULL)' /\ ~WaitingFor(t, IPC_MQUEUE_RECEIVE)'
  BY <1>1, <1>8, Constants, Zenon DEF WaitingFor
<1>12. \A m \in Msgs : Placed(m)'
  BY <1>2, MessagesStay, Zenon DEF IInv, imqVars
<1> QED
  BY <1>2, <1>3, <1>4, <1>5, <1>9, <1>10, <1>11, <1>12, OwnStep, Zenon

\* The fields after a wait is declared, or refused to an aborted thread.
LEMMA AssertFields ==
    ASSUME IInv, NEW t \in Threads, waitq[t] = None, NEW e \in Events, NEW timed,
           waitq_assert_wait64_locked(t, mq, e, "ABORTSAFE", timed)
    PROVE  /\ QueueInv'
           /\ wait_result' \in [Threads -> Results]
           /\ \A u \in Threads : u # t => /\ waitq'[u] = waitq[u] /\ wait_event'[u] = wait_event[u]
                                          /\ wait_result'[u] = wait_result[u]
           /\ MayWait(t, "ABORTSAFE") => waitq'[t] = mq /\ wait_event'[t] = e
           /\ ~MayWait(t, "ABORTSAFE") => waitq'[t] = None /\ wait_result'[t] = "INTERRUPTED"
<1>1. QueueInv'
  BY AssertQueue, Constants, Zenon DEF IInv
<1>2. CASE MayWait(t, "ABORTSAFE")
  <2>1. /\ wait_result' = [wait_result EXCEPT ![t] = "WAITING"]
        /\ waitq' = [waitq EXCEPT ![t] = mq]
        /\ wait_event' = [wait_event EXCEPT ![t] = e]
    BY <1>2, Zenon DEF waitq_assert_wait64_locked
  <2> QED
    BY <1>1, <1>2, <2>1, Zenon DEF IInv, QueueInv, QueueTypes, ClientTypes, Results
<1>3. CASE ~MayWait(t, "ABORTSAFE")
  <2>1. /\ wait_result' = [wait_result EXCEPT ![t] = "INTERRUPTED"]
        /\ UNCHANGED <<waitq, wait_event>>
    BY <1>3, Zenon DEF waitq_assert_wait64_locked
  <2> QED
    BY <1>1, <1>3, <2>1, Zenon DEF IInv, ClientTypes, Results
<1> QED
  BY <1>2, <1>3, Zenon

\* A receiver finds no message and waits.
LEMMA ReceiveWaitsStep ==
    ASSUME IInv, NEW t \in Threads, pc[t] = "copied", ReceiveWaits(t), UNCHANGED <<ith_option, kmsg, outside>>
    PROVE  IInv'
<1>1. /\ imq_messages = <<>>
      /\ ith_state' = [ith_state EXCEPT ![t] = "IN_PROGRESS"]
      /\ waitq_assert_wait64_locked(t, mq, IPC_MQUEUE_RECEIVE, "ABORTSAFE", ith_option[t].timeout = "timed")
      /\ pc' = [pc EXCEPT ![t] = "rcvWait"]
      /\ UNCHANGED <<ith_kmsg, promoted>> /\ UNCHANGED imqVars
  BY Zenon DEF ReceiveWaits, Goto
<1>2. ThreadInv(t)
  BY Zenon DEF IInv
<1>3. waitq[t] = None
  BY <1>2, Zenon DEF ThreadInv, WaitKnown
<1>4. /\ QueueInv'
      /\ wait_result' \in [Threads -> Results]
      /\ \A u \in Threads : u # t => /\ waitq'[u] = waitq[u] /\ wait_event'[u] = wait_event[u]
                                     /\ wait_result'[u] = wait_result[u]
      /\ \/ waitq'[t] = mq /\ wait_event'[t] = IPC_MQUEUE_RECEIVE
         \/ waitq'[t] = None /\ wait_result'[t] = "INTERRUPTED"
  BY <1>1, <1>3, AssertFields, Constants, Zenon
<1>5. ClientTypes'
  BY <1>1, <1>4, Zenon DEF IInv, ClientTypes, Pcs, States, imqVars
<1>6. ASSUME NEW u \in Threads, u # t PROVE Kept(u)
  BY <1>1, <1>4, <1>6, Zenon DEF Kept, IInv, ClientTypes
<1>7. pc'[t] = "rcvWait" /\ ith_state'[t] = "IN_PROGRESS"
  BY <1>1, Zenon DEF IInv, ClientTypes
<1>8. ThreadInv(t)'
  <2>1. SenderKnown(t)'
    BY <1>2, <1>7, Zenon DEF ThreadInv, SenderKnown
  <2>2. WaitKnown(t)'
    BY <1>4, <1>7, Constants, Zenon DEF WaitKnown
  <2>3. ReceiverKnown(t)'
    BY <1>1, <1>2, <1>7, Zenon DEF ThreadInv, ReceiverKnown, Took
  <2> QED
    BY <2>1, <2>2, <2>3, Zenon DEF ThreadInv
<1>9. Holds(t)' <=> Holds(t)
  BY <1>7, Zenon DEF Holds
<1>10. ~WaitingFor(t, IPC_MQUEUE_FULL)'
  BY <1>4, Constants, Zenon DEF WaitingFor
<1>11. \A m \in Msgs : Placed(m)'
  BY <1>1, MessagesStay, Zenon DEF IInv, imqVars
<1> QED
  BY <1>1, <1>4, <1>5, <1>6, <1>8, <1>9, <1>10, <1>11, OwnStep, Zenon

\* A receiver's wait is over.
LEMMA ResultsStep == ASSUME IInv, NEW t \in Threads, ipc_mqueue_receive_results(t) PROVE IInv'
<1> DEFINE v == CASE wait_result[t] = "RESTART" -> "PORT_CHANGED"
                  [] wait_result[t] = "AWAKENED" -> ith_state[t]
                  [] OTHER -> wait_result[t]
<1>1. /\ pc[t] = "rcvWait" /\ "WAIT" \notin state[t]
      /\ ith_state' = [ith_state EXCEPT ![t] = v]
      /\ ResultRead(t)
      /\ pc' = [pc EXCEPT ![t] = "results"]
      /\ UNCHANGED <<ith_option, ith_kmsg, kmsg, promoted, outside>> /\ UNCHANGED imqVars
  BY Zenon DEF ipc_mqueue_receive_results, Goto
<1>2. waitq[t] = None
  BY <1>1, Zenon DEF IInv, QueueInv, Linked
<1>3. ThreadInv(t)
  BY Zenon DEF IInv
<1>4. wait_result[t] \in Results /\ wait_result[t] # "WAITING"
  BY <1>2, <1>3, Zenon DEF ThreadInv, WaitKnown, IInv, ClientTypes
<1>5. /\ v \in States
      /\ wait_result[t] = "AWAKENED" => v = ith_state[t]
      /\ wait_result[t] # "AWAKENED" => v # "SUCCESS" /\ v # "TOO_LARGE"
  BY <1>4, Zenon DEF Results, States, IInv, ClientTypes
<1> HIDE DEF v
<1>6. ClientTypes'
  BY <1>1, <1>5, ResultFields, Zenon DEF IInv, ClientTypes, Pcs, imqVars
<1>7. ASSUME NEW u \in Threads, u # t PROVE Kept(u)
  BY <1>1, <1>7, ResultFields, Zenon DEF Kept, IInv, ClientTypes
<1>8. pc'[t] = "results" /\ ith_state'[t] = v /\ waitq'[t] = None /\ wait_result'[t] = "AWAKENED"
  BY <1>1, <1>2, ResultFields, Zenon DEF IInv, ClientTypes
<1>9. ThreadInv(t)'
  <2>1. SenderKnown(t)'
    BY <1>1, <1>3, <1>8, Zenon DEF ThreadInv, SenderKnown
  <2>2. WaitKnown(t)'
    BY <1>8, Zenon DEF WaitKnown
  <2>3. ReceiverKnown(t)'
    BY <1>1, <1>2, <1>3, <1>5, <1>8, Zenon DEF ThreadInv, ReceiverKnown, Took
  <2> QED
    BY <2>1, <2>2, <2>3, Zenon DEF ThreadInv
<1>10. Holds(t)' <=> Holds(t)
  BY <1>1, <1>8, Zenon DEF Holds
<1>11. ~WaitingFor(t, IPC_MQUEUE_FULL)' /\ ~WaitingFor(t, IPC_MQUEUE_RECEIVE)'
  BY <1>8, Constants, Zenon DEF WaitingFor
<1>12. \A m \in Msgs : Placed(m)'
  BY <1>1, MessagesStay, Zenon DEF IInv, imqVars
<1> QED
  BY <1>1, <1>6, <1>7, <1>9, <1>10, <1>11, <1>12, OwnStep, ResultFields, Zenon

\* The receive returns, with its message if it has one.
LEMMA ReceivedStep == ASSUME IInv, NEW t \in Threads, mach_msg_receive_results(t) PROVE IInv'
<1>1. UNCHANGED <<state, waitq, wait_event, wait_result, waitq_queue, ahead>>
  BY Zenon DEF mach_msg_receive_results, waitVars, threadVars, queueVars
<1>2. /\ pc[t] = "results" /\ pc' = [pc EXCEPT ![t] = "idle"]
      /\ outside' = IF Took(t) THEN outside \cup {ith_kmsg[t]} ELSE outside
      /\ ith_kmsg' = [ith_kmsg EXCEPT ![t] = None]
      /\ ith_option' = [ith_option EXCEPT ![t] = None]
      /\ ith_state' = [ith_state EXCEPT ![t] = "SUCCESS"]
      /\ UNCHANGED <<kmsg, promoted>> /\ UNCHANGED imqVars
  BY Zenon DEF mach_msg_receive_results, Goto, Took
<1>3. ThreadInv(t)
  BY Zenon DEF IInv
<1>4. waitq[t] = None
  BY <1>2, <1>3, Zenon DEF ThreadInv, WaitKnown
<1>5. ith_kmsg[t] # None <=> Took(t)
  BY <1>2, <1>3, Zenon DEF ThreadInv, ReceiverKnown
<1>6. QueueInv'
  BY <1>1, SameQueue, Zenon DEF IInv
<1>7. ClientTypes'
  <2>1. outside' \in SUBSET Msgs
    BY <1>2, <1>5, Zenon DEF IInv, ClientTypes
  <2> QED
    BY <1>1, <1>2, <2>1, Zenon DEF IInv, ClientTypes, Pcs, States, imqVars
<1>8. ASSUME NEW u \in Threads, u # t PROVE Kept(u)
  BY <1>1, <1>2, <1>8, Zenon DEF Kept, IInv, ClientTypes
<1>9. pc'[t] = "idle" /\ ith_kmsg'[t] = None /\ ith_option'[t] = None
  BY <1>2, Zenon DEF IInv, ClientTypes
<1>10. ThreadInv(t)'
  <2>1. SenderKnown(t)'
    BY <1>2, <1>3, <1>9, Zenon DEF ThreadInv, SenderKnown
  <2>2. WaitKnown(t)'
    BY <1>1, <1>3, <1>4, Zenon DEF ThreadInv, WaitKnown
  <2>3. ReceiverKnown(t)'
    BY <1>9, Zenon DEF ReceiverKnown
  <2> QED
    BY <2>1, <2>2, <2>3, Zenon DEF ThreadInv
<1>11. Holds(t)' <=> Holds(t)
  BY <1>2, <1>9, Zenon DEF Holds
<1>12. ~WaitingFor(t, IPC_MQUEUE_FULL)' /\ ~WaitingFor(t, IPC_MQUEUE_RECEIVE)'
  BY <1>1, <1>4, Constants, Zenon DEF WaitingFor
<1>13. \A m \in Msgs : Placed(m)'
  <2>1. CASE Took(t)
    <3>1. PICK x \in Msgs : ith_kmsg[t] = x
      BY <1>5, <2>1, Zenon DEF IInv, ClientTypes
    <3>2. outside' = outside \cup {x} /\ UNCHANGED <<kmsg, imq_messages>>
      BY <1>2, <2>1, <3>1, Zenon DEF imqVars
    <3> QED
      BY <1>2, <3>1, <3>2, MoveOut, Places, Zenon DEF IInv
  <2>2. CASE ~Took(t)
    <3>1. ith_kmsg' = ith_kmsg /\ UNCHANGED <<kmsg, imq_messages, outside>>
      BY <1>2, <1>5, <2>2, Zenon DEF IInv, ClientTypes, imqVars
    <3> QED
      BY <3>1, MessagesStay, Zenon DEF IInv
  <2> QED
    BY <2>1, <2>2, Zenon
<1> QED
  BY <1>2, <1>6, <1>7, <1>8, <1>10, <1>11, <1>12, <1>13, OwnStep, Zenon

-----------------------------------------------------------------------------
(* The steps that wake threads. *)

\* The fields after a wakeup of S.
LEMMA WakeFields ==
    ASSUME IInv, NEW S, NEW r \in Results, Wake(S, r)
    PROVE  /\ QueueInv'
           /\ wait_result' \in [Threads -> Results]
           /\ \A u \in Threads :
                /\ u \in S => waitq'[u] = None /\ wait_result'[u] = r
                /\ u \notin S => /\ waitq'[u] = waitq[u] /\ wait_event'[u] = wait_event[u]
                                 /\ wait_result'[u] = wait_result[u]
<1>1. Run(S, r)
  BY Zenon DEF Wake
<1>2. QueueInv'
  BY <1>1, RunQueue, Zenon DEF IInv
<1>3. wait_result' \in [Threads -> Results]
  BY <1>1, Zenon DEF Run, IInv, ClientTypes
<1>4. ASSUME NEW u \in Threads
      PROVE  /\ u \in S => waitq'[u] = None /\ wait_result'[u] = r
             /\ u \notin S => /\ waitq'[u] = waitq[u] /\ wait_event'[u] = wait_event[u]
                              /\ wait_result'[u] = wait_result[u]
  BY <1>1, <1>4, Zenon DEF Run
<1> QED
  BY <1>2, <1>3, <1>4, Zenon

\* The fields of a thread that no wakeup writes.
Client(u) ==
    /\ pc'[u] = pc[u] /\ kmsg'[u] = kmsg[u] /\ ith_option'[u] = ith_option[u]
    /\ ith_state'[u] = ith_state[u] /\ ith_kmsg'[u] = ith_kmsg[u]

\* A sender is woken; with AWAKENED it has a slot.
LEMMA WokenSender ==
    ASSUME NEW u, ThreadInv(u), WaitingFor(u, IPC_MQUEUE_FULL), Client(u),
           waitq'[u] = None, wait_result'[u] # "WAITING"
    PROVE  /\ ThreadInv(u)'
           /\ ~Holds(u) /\ (Holds(u)' <=> wait_result'[u] = "AWAKENED")
           /\ ~WaitingFor(u, IPC_MQUEUE_FULL)' /\ ~WaitingFor(u, IPC_MQUEUE_RECEIVE)'
<1>1. pc[u] = "sendWait" /\ waitq[u] # None
  BY Constants, Zenon DEF WaitingFor, ThreadInv, WaitKnown
<1>2. SenderKnown(u)'
  BY Zenon DEF ThreadInv, SenderKnown, Client
<1>3. WaitKnown(u)'
  BY Zenon DEF WaitKnown
<1>4. ReceiverKnown(u)'
  BY <1>1, Zenon DEF ThreadInv, ReceiverKnown, Client, Took
<1>5. ~Holds(u) /\ (Holds(u)' <=> wait_result'[u] = "AWAKENED")
  BY <1>1, Zenon DEF Holds, Client
<1> QED
  BY <1>2, <1>3, <1>4, <1>5, Constants, Zenon DEF ThreadInv, WaitingFor

\* A receiver's wait is over without a message.
LEMMA WokenReceiver ==
    ASSUME NEW u, ThreadInv(u), WaitingFor(u, IPC_MQUEUE_RECEIVE), Client(u),
           waitq'[u] = None, wait_result'[u] = "RESTART"
    PROVE  /\ ThreadInv(u)'
           /\ ~Holds(u) /\ ~Holds(u)'
           /\ ~WaitingFor(u, IPC_MQUEUE_FULL)' /\ ~WaitingFor(u, IPC_MQUEUE_RECEIVE)'
<1>1. pc[u] = "rcvWait" /\ waitq[u] # None
  BY Constants, Zenon DEF WaitingFor, ThreadInv, WaitKnown
<1>2. SenderKnown(u)'
  BY Zenon DEF ThreadInv, SenderKnown, Client
<1>3. WaitKnown(u)'
  BY Zenon DEF WaitKnown
<1>4. ReceiverKnown(u)'
  BY <1>1, Zenon DEF ThreadInv, ReceiverKnown, Client, Took
<1>5. ~Holds(u) /\ ~Holds(u)'
  BY <1>1, Zenon DEF Holds, Client
<1> QED
  BY <1>2, <1>3, <1>4, <1>5, Constants, Zenon DEF ThreadInv, WaitingFor

\* A thread that is not woken.
LEMMA NotWoken ==
    ASSUME NEW u, Client(u), waitq'[u] = waitq[u], wait_event'[u] = wait_event[u],
           wait_result'[u] = wait_result[u]
    PROVE  Kept(u)
  BY Zenon DEF Client, Kept

\* The receive right moves or goes: the receivers look again.
LEMMA ClearReceiverStep ==
    ASSUME IInv, NEW moves, ipc_port_clear_receiver(moves)
    PROVE  IInv'
<1> DEFINE S == {u \in Threads : WaitingFor(u, IPC_MQUEUE_RECEIVE)}
<1>1. Wake(S, "RESTART")
  BY MqWaiting, Constants, Zenon DEF ipc_port_clear_receiver, ipc_mqueue_changed, waitq_select_n_locked, IInv
<1>2. /\ port = "active" /\ port' \in {"active", "cleared"}
      /\ UNCHANGED <<imq_messages, imq_msgcount, imq_qlimit, imq_fullwaiters, pc, kmsg, promoted, outside>>
      /\ UNCHANGED <<ith_option, ith_state, ith_kmsg>>
  BY Zenon DEF ipc_port_clear_receiver, ithVars
<1>3. /\ QueueInv'
      /\ wait_result' \in [Threads -> Results]
      /\ \A u \in Threads :
           /\ u \in S => waitq'[u] = None /\ wait_result'[u] = "RESTART"
           /\ u \notin S => /\ waitq'[u] = waitq[u] /\ wait_event'[u] = wait_event[u]
                            /\ wait_result'[u] = wait_result[u]
  <2>1. "RESTART" \in Results
    BY Zenon DEF Results
  <2> HIDE DEF S
  <2> QED
    BY <1>1, <2>1, WakeFields, Zenon
<1>4. ClientTypes'
  BY <1>2, <1>3, Zenon DEF IInv, ClientTypes, Phases
<1>5. ASSUME NEW u \in Threads
      PROVE  /\ ThreadInv(u)' /\ (Holds(u)' <=> Holds(u))
             /\ WaitingFor(u, IPC_MQUEUE_FULL)' => WaitingFor(u, IPC_MQUEUE_FULL)
             /\ WaitingFor(u, IPC_MQUEUE_RECEIVE)' => WaitingFor(u, IPC_MQUEUE_RECEIVE)
  <2>1. Client(u) /\ ThreadInv(u)
    BY <1>2, Zenon DEF Client, IInv
  <2>2. CASE u \in S
    BY <1>3, <1>5, <2>1, <2>2, WokenReceiver, Zenon
  <2>3. CASE u \notin S
    <3>1. Kept(u)
      BY <1>3, <1>5, <2>1, <2>3, NotWoken, Zenon
    <3> QED
      BY <2>1, <3>1, KeptInv, Zenon
  <2> QED
    BY <2>2, <2>3, Zenon
<1>6. \A m \in Msgs : Placed(m)'
  BY <1>2, MessagesStay, Zenon DEF IInv
<1>7. Slots' /\ SendersRemembered' /\ ReceiversServed'
  BY <1>2, <1>5, RestKept, Zenon
<1> QED
  BY <1>3, <1>4, <1>5, <1>6, <1>7, Zenon DEF IInv

\* The queue is destroyed: the senders that wait return, its messages go.
LEMMA DestroyStep == ASSUME IInv, ipc_mqueue_destroy PROVE IInv'
<1> DEFINE S == {u \in Threads : WaitingFor(u, IPC_MQUEUE_FULL)}
<1>1. Wake(S, "RESTART")
  BY MqWaiting, Constants, Zenon DEF ipc_mqueue_destroy, waitq_select_n_locked, IInv
<1>2. /\ port' = "destroyed" /\ imq_fullwaiters' = FALSE /\ imq_msgcount' = 0 /\ imq_messages' = <<>>
      /\ outside' = outside \cup MessagesOf(imq_messages)
      /\ UNCHANGED <<imq_qlimit, pc, kmsg, promoted, ith_option, ith_state, ith_kmsg>>
  BY Zenon DEF ipc_mqueue_destroy, ithVars
<1>3. /\ QueueInv'
      /\ wait_result' \in [Threads -> Results]
      /\ \A u \in Threads :
           /\ u \in S => waitq'[u] = None /\ wait_result'[u] = "RESTART"
           /\ u \notin S => /\ waitq'[u] = waitq[u] /\ wait_event'[u] = wait_event[u]
                            /\ wait_result'[u] = wait_result[u]
  <2>1. "RESTART" \in Results
    BY Zenon DEF Results
  <2> HIDE DEF S
  <2> QED
    BY <1>1, <2>1, WakeFields, Zenon
<1>4. ClientTypes'
  <2>1. imq_msgcount' \in 0 .. MsgcountRange - 1 /\ imq_messages' \in Seq(Msgs)
    BY <1>2, Numbers
  <2>2. MessagesOf(imq_messages) \subseteq Msgs
    <3>1. \A i \in DOMAIN imq_messages : imq_messages[i] \in Msgs
      BY DEF IInv, ClientTypes
    <3> QED
      BY <3>1, Zenon DEF MessagesOf
  <2> QED
    BY <1>2, <1>3, <2>1, <2>2, Zenon DEF IInv, ClientTypes, Phases
<1>5. ASSUME NEW u \in Threads PROVE ThreadInv(u)' /\ ~WaitingFor(u, IPC_MQUEUE_FULL)'
  <2>1. Client(u) /\ ThreadInv(u)
    BY <1>2, Zenon DEF Client, IInv
  <2>2. CASE u \in S
    <3>1. wait_result'[u] # "WAITING"
      BY <1>3, <1>5, <2>2, Zenon
    <3> QED
      BY <1>3, <1>5, <2>1, <2>2, <3>1, WokenSender, Zenon
  <2>3. CASE u \notin S
    <3>1. Kept(u)
      BY <1>3, <1>5, <2>1, <2>3, NotWoken, Zenon
    <3> QED
      BY <1>5, <2>1, <2>3, <3>1, KeptInv, Zenon
  <2> QED
    BY <2>2, <2>3, Zenon
<1>6. \A m \in Msgs : Placed(m)'
  BY <1>2, MoveAll, Places, Zenon DEF IInv
<1>7. Slots' /\ SendersRemembered' /\ ReceiversServed'
  BY <1>2, <1>5, Zenon DEF Slots, SendersRemembered, ReceiversServed
<1> QED
  BY <1>3, <1>4, <1>5, <1>6, <1>7, Zenon DEF IInv

\* Its wait queue is deinitialised.
LEMMA DeinitStep == ASSUME IInv, ipc_mqueue_deinit PROVE IInv'
<1>1. UNCHANGED <<state, waitq, wait_event, wait_result, waitq_queue, ahead>>
  BY Zenon DEF ipc_mqueue_deinit, waitVars, threadVars, queueVars
<1>2. /\ port = "destroyed" /\ port' = "dead"
      /\ UNCHANGED <<imq_messages, imq_msgcount, imq_qlimit, imq_fullwaiters, ith_option, ith_state, ith_kmsg,
                     pc, kmsg, promoted, outside>>
  BY Zenon DEF ipc_mqueue_deinit, ithVars
<1>3. QueueInv'
  BY <1>1, SameQueue, Zenon DEF IInv
<1>4. ClientTypes'
  BY <1>1, <1>2, Zenon DEF IInv, ClientTypes, Phases
<1>5. \A u \in Threads : Kept(u)
  BY <1>1, <1>2, Zenon DEF Kept
<1>6. \A m \in Msgs : Placed(m)'
  BY <1>2, MessagesStay, Zenon DEF IInv
<1>7. Slots' /\ SendersRemembered' /\ ReceiversServed'
  BY <1>2, <1>5, KeptInv, RestKept, Zenon
<1> QED
  BY <1>3, <1>4, <1>5, <1>6, <1>7, KeptInv, Zenon DEF IInv

-----------------------------------------------------------------------------
(* The steps that take, give or move slots. *)

\* Two sets of threads without a common one.
LEMMA CountBoth ==
    ASSUME NEW A \in SUBSET Threads, NEW B \in SUBSET Threads, A \cap B = {}
    PROVE  Cardinality(A \cup B) = Cardinality(A) + Cardinality(B)
<1>1. IsFiniteSet(A) /\ IsFiniteSet(B) /\ Cardinality(A) \in Nat /\ Cardinality(B) \in Nat
  BY ThreadsFinite, Zenon
<1>2. Cardinality(A \cup B) = Cardinality(A) + Cardinality(B) - Cardinality(A \cap B)
  BY <1>1, FS_Union, Zenon
<1>3. Cardinality(A \cap B) = 0
  BY FS_EmptySet, Zenon
<1> QED
  BY <1>1, <1>2, <1>3

\* A set of threads without one of its threads.
LEMMA CountOff ==
    ASSUME NEW A \in SUBSET Threads, NEW t \in A
    PROVE  /\ Cardinality(A) \in Nat /\ Cardinality(A) > 0
           /\ Cardinality(A \ {t}) = Cardinality(A) - 1
<1>1. IsFiniteSet(A) /\ Cardinality(A) \in Nat
  BY ThreadsFinite, Zenon
<1>2. Cardinality(A \ {t}) = Cardinality(A) - 1
  BY <1>1, FS_RemoveElement, Zenon
<1>3. Cardinality(A) # 0
  BY <1>1, FS_EmptySet, Zenon
<1> QED
  BY <1>1, <1>2, <1>3

\* The slots in use are no more than the messages, so that a count that is
\* exact is in the range of imq_msgcount.
LEMMA CountInRange ==
    ASSUME ClientTypes, \A m \in Msgs : Placed(m), NEW O \in SUBSET Threads,
           \A t \in O : kmsg[t] \in Msgs
    PROVE  Len(imq_messages) + Cardinality(O) \in 0 .. MsgcountRange - 1
<1>1. imq_messages \in Seq(Msgs) /\ \A i \in 1 .. Len(imq_messages) : imq_messages[i] \in Msgs
  BY DEF ClientTypes
<1>2. ASSUME NEW t \in O, NEW u \in O, kmsg[t] = kmsg[u] PROVE t = u
  <2>1. PICK x \in Msgs : kmsg[t] = x
    BY <1>2, Zenon
  <2>2. t \in Threads /\ u \in Threads /\ Placed(x)
    BY <1>2, Zenon
  <2>3. SentOnce(x)
    BY <2>1, <2>2, SenderHas, Zenon
  <2> QED
    BY <1>2, <2>1, <2>2, <2>3, Zenon DEF SentOnce
<1>3. ASSUME NEW i \in 1 .. Len(imq_messages) PROVE QueuedOnce(imq_messages[i]) /\ NotSent(imq_messages[i])
  BY <1>1, <1>3, Zenon DEF Placed, NotQueued
<1>4. \A i, j \in 1 .. Len(imq_messages) : imq_messages[i] = imq_messages[j] => i = j
  BY <1>3, Zenon DEF QueuedOnce
<1>5. \A t \in O, i \in 1 .. Len(imq_messages) : imq_messages[i] # kmsg[t]
  BY <1>3, Zenon DEF NotSent
<1>6. Len(imq_messages) + Cardinality(O) <= Cardinality(Msgs)
  BY <1>1, <1>2, <1>4, <1>5, SlotsBounded, Zenon
<1>7. Len(imq_messages) \in Nat
  BY <1>1
<1>8. Cardinality(O) \in Nat
  BY ThreadsFinite, Zenon
<1> QED
  BY <1>6, <1>7, <1>8, Numbers, SMTT(20)

\* A sender takes a free slot, or one beyond the limit.
LEMMA SendReservesStep ==
    ASSUME IInv, NEW t \in Threads, NEW s \in Sends[t], pc[t] = "idle", port = "active", s.msg \in outside,
           SendReserves(t, s)
    PROVE  IInv'
<1>1. UNCHANGED <<state, waitq, wait_event, wait_result, waitq_queue, ahead>>
  BY Zenon DEF SendReserves, waitVars, threadVars, queueVars
<1>2. PICK x \in Msgs : x = s.msg /\ x # None
  BY Constants, Zenon DEF IInv, ClientTypes
<1>3. /\ imq_msgcount' = imq_msgcount + 1
      /\ kmsg' = [kmsg EXCEPT ![t] = x]
      /\ outside' = outside \ {x}
      /\ pc' = [pc EXCEPT ![t] = "post"]
      /\ UNCHANGED <<imq_messages, imq_qlimit, imq_fullwaiters, port, ith_option, ith_state, ith_kmsg, promoted>>
  BY <1>2, Zenon DEF SendReserves, Goto, ithVars
<1>4. ThreadInv(t)
  BY Zenon DEF IInv
<1>5. waitq[t] = None /\ kmsg[t] = None
  BY <1>4, Zenon DEF ThreadInv, WaitKnown, SenderKnown
<1>6. QueueInv'
  BY <1>1, SameQueue, Zenon DEF IInv
<1>7. ClientTypes'
  <2>1. ~imq_full(imq_msgcount) \/ ~imq_full_kernel
    BY Zenon DEF SendReserves
  <2>2. imq_qlimit \in Qlimits /\ imq_msgcount \in 0 .. MsgcountRange - 1
    BY Zenon DEF IInv, ClientTypes
  <2>3. imq_msgcount' \in 0 .. MsgcountRange - 1
    BY <1>3, <2>1, <2>2, Numbers DEF imq_full, imq_full_kernel
  <2> QED
    BY <1>1, <1>3, <2>3, Zenon DEF IInv, ClientTypes, Pcs
<1>8. ASSUME NEW u \in Threads, u # t PROVE Kept(u)
  BY <1>1, <1>3, <1>8, Zenon DEF Kept, IInv, ClientTypes
<1>9. pc'[t] = "post" /\ kmsg'[t] = x
  BY <1>3, Zenon DEF IInv, ClientTypes
<1>10. ThreadInv(t)'
  <2>1. SenderKnown(t)'
    BY <1>2, <1>9, Zenon DEF SenderKnown
  <2>2. WaitKnown(t)'
    BY <1>1, <1>4, <1>5, Zenon DEF ThreadInv, WaitKnown
  <2>3. ReceiverKnown(t)'
    BY <1>3, <1>4, <1>9, Zenon DEF ThreadInv, ReceiverKnown
  <2> QED
    BY <2>1, <2>2, <2>3, Zenon DEF ThreadInv
<1>11. \A m \in Msgs : Placed(m)'
  BY <1>2, <1>3, <1>5, MoveIn, Places, Zenon DEF IInv
<1>12. Slots'
  <2>1. ~Holds(t) /\ Holds(t)'
    BY <1>9, Zenon DEF Holds
  <2>2. Holders' = Holders \cup {t} /\ Holders \cap {t} = {}
    BY <1>8, <2>1, KeptInv, Zenon DEF Holders
  <2>3. Holders \in SUBSET Threads /\ {t} \in SUBSET Threads
    BY Zenon DEF Holders
  <2>4. Cardinality(Holders') = Cardinality(Holders) + Cardinality({t})
    BY <2>2, <2>3, CountBoth, Zenon
  <2>5. Cardinality({t}) = 1
    BY FS_Singleton, Zenon
  <2>6. Cardinality(Holders) \in Nat
    BY <2>3, ThreadsFinite, Zenon
  <2>7. imq_msgcount = Len(imq_messages) + Cardinality(Holders) /\ Len(imq_messages) \in Nat
    BY DEF IInv, Slots, ClientTypes
  <2> QED
    BY <1>3, <2>4, <2>5, <2>6, <2>7, SMTT(20) DEF Slots
<1>13. \A u \in Threads : /\ WaitingFor(u, IPC_MQUEUE_FULL)' => WaitingFor(u, IPC_MQUEUE_FULL)
                          /\ WaitingFor(u, IPC_MQUEUE_RECEIVE)' => WaitingFor(u, IPC_MQUEUE_RECEIVE)
  BY <1>1, Zenon DEF WaitingFor
<1>14. SendersRemembered'
  <2> SUFFICES ASSUME NEW u \in Threads, WaitingFor(u, IPC_MQUEUE_FULL)'
               PROVE  (imq_fullwaiters /\ imq_full(imq_msgcount) /\ port \in {"active", "cleared"})'
    BY Zenon DEF SendersRemembered
  <2>1. imq_fullwaiters /\ imq_full(imq_msgcount) /\ port \in {"active", "cleared"}
    BY <1>13, Zenon DEF IInv, SendersRemembered
  <2>2. imq_qlimit \in Nat /\ imq_msgcount \in Nat
    BY Numbers DEF IInv, ClientTypes
  <2>3. imq_full(imq_msgcount)'
    BY <1>3, <2>1, <2>2 DEF imq_full
  <2> QED
    BY <1>3, <2>1, <2>3, Zenon
<1>15. ReceiversServed'
  BY <1>3, <1>13, Zenon DEF IInv, ReceiversServed
<1>16. \A u \in Threads : ThreadInv(u)'
  BY <1>8, <1>10, KeptInv, Zenon DEF IInv
<1> QED
  BY <1>6, <1>7, <1>11, <1>12, <1>14, <1>15, <1>16, Zenon DEF IInv

\* A sender finds the queue full and waits, or is refused the wait.
LEMMA SendWaitsStep ==
    ASSUME IInv, NEW t \in Threads, NEW s \in Sends[t], pc[t] = "idle", port = "active", s.msg \in outside,
           SendWaits(t, s)
    PROVE  IInv'
<1>1. PICK x \in Msgs : x = s.msg /\ x # None /\ x \in outside
  BY Constants, Zenon DEF IInv, ClientTypes
<1>2. /\ imq_full(imq_msgcount) /\ imq_fullwaiters'
      /\ waitq_assert_wait64_locked(t, mq, IPC_MQUEUE_FULL, "ABORTSAFE", s.timeout = "timed")
      /\ imq_fullwaiters' \in BOOLEAN
      /\ UNCHANGED <<imq_messages, imq_msgcount, imq_qlimit, port, ith_option, ith_state, ith_kmsg, promoted>>
  BY Zenon DEF SendWaits, ithVars
<1>3. MayWait(t, "ABORTSAFE") => /\ kmsg' = [kmsg EXCEPT ![t] = x]
                                 /\ outside' = outside \ {x}
                                 /\ pc' = [pc EXCEPT ![t] = "sendWait"]
  BY <1>1, Zenon DEF SendWaits, Goto
<1>4. ~MayWait(t, "ABORTSAFE") => UNCHANGED <<kmsg, outside, pc>>
  BY Zenon DEF SendWaits
<1>5. ThreadInv(t)
  BY Zenon DEF IInv
<1>6. waitq[t] = None /\ kmsg[t] = None
  BY <1>5, Zenon DEF ThreadInv, WaitKnown, SenderKnown
<1>7. /\ QueueInv'
      /\ wait_result' \in [Threads -> Results]
      /\ \A u \in Threads : u # t => /\ waitq'[u] = waitq[u] /\ wait_event'[u] = wait_event[u]
                                     /\ wait_result'[u] = wait_result[u]
      /\ MayWait(t, "ABORTSAFE") => waitq'[t] = mq /\ wait_event'[t] = IPC_MQUEUE_FULL
      /\ ~MayWait(t, "ABORTSAFE") => waitq'[t] = None /\ wait_result'[t] = "INTERRUPTED"
  BY <1>2, <1>6, AssertFields, Constants, Zenon
<1>8. ClientTypes'
  BY <1>1, <1>2, <1>3, <1>4, <1>7, Zenon DEF IInv, ClientTypes, Pcs
<1>9. ASSUME NEW u \in Threads, u # t PROVE Kept(u)
  BY <1>2, <1>3, <1>4, <1>7, <1>9, Zenon DEF Kept, IInv, ClientTypes
<1>10. /\ MayWait(t, "ABORTSAFE") => pc'[t] = "sendWait" /\ kmsg'[t] = x
       /\ ~MayWait(t, "ABORTSAFE") => pc'[t] = "idle" /\ kmsg'[t] = None
  BY <1>3, <1>4, <1>6, Zenon DEF IInv, ClientTypes
<1>11. ThreadInv(t)'
  <2>1. SenderKnown(t)'
    BY <1>1, <1>10, Zenon DEF SenderKnown
  <2>2. WaitKnown(t)'
    BY <1>7, <1>10, Constants, Zenon DEF WaitKnown
  <2>3. ReceiverKnown(t)'
    BY <1>2, <1>5, <1>10, Zenon DEF ThreadInv, ReceiverKnown
  <2> QED
    BY <2>1, <2>2, <2>3, Zenon DEF ThreadInv
<1>12. \A m \in Msgs : Placed(m)'
  <2>1. CASE MayWait(t, "ABORTSAFE")
    BY <1>1, <1>2, <1>3, <1>6, <2>1, MoveIn, Places, Zenon DEF IInv
  <2>2. CASE ~MayWait(t, "ABORTSAFE")
    BY <1>2, <1>4, <2>2, MessagesStay, Zenon DEF IInv
  <2> QED
    BY <2>1, <2>2, Zenon
<1>13. Slots'
  <2>1. ~Holds(t) /\ ~Holds(t)'
    BY <1>7, <1>10, Constants, Zenon DEF Holds
  <2>2. Holders' = Holders
    BY <1>9, <2>1, KeptInv, Zenon DEF Holders
  <2> QED
    BY <1>2, <2>2, Zenon DEF IInv, Slots
<1>14. SendersRemembered'
  BY <1>2, Zenon DEF SendersRemembered, imq_full
<1>15. ReceiversServed'
  <2>1. ~WaitingFor(t, IPC_MQUEUE_RECEIVE)'
    BY <1>7, Constants, Zenon DEF WaitingFor
  <2> QED
    BY <1>2, <1>9, <2>1, KeptInv, Zenon DEF IInv, ReceiversServed
<1>16. \A u \in Threads : ThreadInv(u)'
  BY <1>9, <1>11, KeptInv, Zenon DEF IInv
<1> QED
  BY <1>7, <1>8, <1>12, <1>13, <1>14, <1>15, <1>16, Zenon DEF IInv

\* The sender that ipc_mqueue_release_msgcount finds waits for a slot, and it
\* finds one if there is one.
LEMMA NextSenderIs ==
    ASSUME IInv
    PROVE  /\ \/ NextSender = {}
              \/ \E v \in Threads : NextSender = {v} /\ WaitingFor(v, IPC_MQUEUE_FULL)
           /\ NextSender # {} => imq_fullwaiters /\ ~imq_full(Less(imq_msgcount))
           /\ NextSender = {} /\ imq_fullwaiters /\ ~imq_full(Less(imq_msgcount)) =>
                \A u \in Threads : ~WaitingFor(u, IPC_MQUEUE_FULL)
<1>1. /\ Waiting(mq, IPC_MQUEUE_FULL) = {} => waitq_select_one_locked(mq, IPC_MQUEUE_FULL) = {}
      /\ Waiting(mq, IPC_MQUEUE_FULL) # {} =>
           \E v \in Waiting(mq, IPC_MQUEUE_FULL) : waitq_select_one_locked(mq, IPC_MQUEUE_FULL) = {v}
  BY SelectOne, Constants, Zenon DEF IInv
<1>2. Waiting(mq, IPC_MQUEUE_FULL) = {u \in Threads : WaitingFor(u, IPC_MQUEUE_FULL)}
  BY MqWaiting, Constants, Zenon DEF IInv
<1>3. CASE ~imq_full(Less(imq_msgcount)) /\ imq_fullwaiters
  <2>1. NextSender = waitq_select_one_locked(mq, IPC_MQUEUE_FULL)
    BY <1>3, Zenon DEF NextSender
  <2> QED
    BY <1>1, <1>2, <1>3, <2>1, Zenon
<1>4. CASE ~(~imq_full(Less(imq_msgcount)) /\ imq_fullwaiters)
  <2>1. NextSender = {}
    BY <1>4, Zenon DEF NextSender
  <2> QED
    BY <1>4, <2>1, Zenon
<1> QED
  BY <1>3, <1>4, Zenon

\* A slot is released: it goes to NextSender, or the count goes down.
LEMMA ReleaseCount ==
    ASSUME IInv, ipc_mqueue_release_msgcount
    PROVE  /\ imq_msgcount' \in 0 .. MsgcountRange - 1
           /\ imq_fullwaiters' \in BOOLEAN
           /\ imq_msgcount > 0 => imq_msgcount' = imq_msgcount - 1 + Cardinality(NextSender)
<1>1. imq_msgcount \in 0 .. MsgcountRange - 1
  BY Zenon DEF IInv, ClientTypes
<1>2. imq_msgcount' = IF NextSender = {} THEN Less(imq_msgcount) ELSE imq_msgcount
  BY Zenon DEF ipc_mqueue_release_msgcount
<1>3. imq_fullwaiters' \in BOOLEAN
  BY Zenon DEF ipc_mqueue_release_msgcount
<1>4. CASE NextSender = {}
  <2>1. Cardinality(NextSender) = 0
    BY <1>4, FS_EmptySet, Zenon
  <2> QED
    BY <1>1, <1>2, <1>3, <1>4, <2>1, LessIs, SMTT(20)
<1>5. CASE NextSender # {}
  <2>1. Cardinality(NextSender) = 1
    BY <1>5, NextSenderIs, FS_Singleton, Zenon
  <2> QED
    BY <1>1, <1>2, <1>3, <1>5, <2>1
<1> QED
  BY <1>4, <1>5, Zenon

\* The senders that still wait are remembered.
LEMMA ReleaseRemembers ==
    ASSUME IInv, ipc_mqueue_release_msgcount, UNCHANGED <<imq_qlimit, port>>,
           \A u \in Threads : WaitingFor(u, IPC_MQUEUE_FULL)' => WaitingFor(u, IPC_MQUEUE_FULL)
    PROVE  SendersRemembered'
<1> SUFFICES ASSUME NEW u \in Threads, WaitingFor(u, IPC_MQUEUE_FULL)'
             PROVE  (imq_fullwaiters /\ imq_full(imq_msgcount) /\ port \in {"active", "cleared"})'
  BY Zenon DEF SendersRemembered
<1>1. WaitingFor(u, IPC_MQUEUE_FULL)
  BY Zenon
<1>2. imq_fullwaiters /\ imq_full(imq_msgcount) /\ port \in {"active", "cleared"}
  BY <1>1, Zenon DEF IInv, SendersRemembered
<1>3. imq_full(Less(imq_msgcount)) \/ NextSender # {}
  BY <1>1, <1>2, NextSenderIs, Zenon
<1>4. imq_fullwaiters'
  BY <1>2, <1>3, Zenon DEF ipc_mqueue_release_msgcount
<1>5. imq_full(imq_msgcount)'
  <2>1. CASE NextSender = {}
    BY <1>3, <2>1, Zenon DEF ipc_mqueue_release_msgcount, imq_full
  <2>2. CASE NextSender # {}
    BY <1>2, <2>2, Zenon DEF ipc_mqueue_release_msgcount, imq_full
  <2> QED
    BY <2>1, <2>2, Zenon
<1> QED
  BY <1>2, <1>4, <1>5, Zenon

\* A receiver takes the first message; its slot goes to the next sender.
LEMMA TakeStep ==
    ASSUME IInv, NEW t \in Threads, pc[t] = "copied", imq_messages # <<>>, NEW v \in States,
           v = "SUCCESS" \/ (v = "TOO_LARGE" /\ ~ith_option[t].large),
           ith_state' = [ith_state EXCEPT ![t] = v],
           imq_messages' = Tail(imq_messages),
           ipc_mqueue_release_msgcount,
           Wake(NextSender, "AWAKENED"),
           promoted' = promoted \cup NextSender,
           ith_kmsg' = [ith_kmsg EXCEPT ![t] = Head(imq_messages)],
           Goto(t, "results"),
           UNCHANGED <<imq_qlimit, port, ith_option, kmsg, outside>>
    PROVE  IInv'
<1>1. PICK x \in Msgs : x = Head(imq_messages)
  BY DEF IInv, ClientTypes
<1>2. PICK S \in SUBSET Threads : S = NextSender
  BY NextSenderIs, Zenon
<1>3. \A u \in S : WaitingFor(u, IPC_MQUEUE_FULL)
  BY <1>2, NextSenderIs, Zenon
<1>4. ThreadInv(t)
  BY Zenon DEF IInv
<1>5. waitq[t] = None /\ ith_kmsg[t] = None /\ ~Holds(t) /\ x # None
  BY <1>4, Constants, Zenon DEF ThreadInv, WaitKnown, ReceiverKnown, Holds
<1>6. t \notin S
  BY <1>3, <1>5, Constants, Zenon DEF WaitingFor
<1>7. /\ QueueInv'
      /\ wait_result' \in [Threads -> Results]
      /\ \A u \in Threads :
           /\ u \in S => waitq'[u] = None /\ wait_result'[u] = "AWAKENED"
           /\ u \notin S => /\ waitq'[u] = waitq[u] /\ wait_event'[u] = wait_event[u]
                            /\ wait_result'[u] = wait_result[u]
  <2>1. "AWAKENED" \in Results
    BY Zenon DEF Results
  <2>2. Wake(S, "AWAKENED")
    BY <1>2, Zenon
  <2> QED
    BY <2>1, <2>2, WakeFields, Zenon
<1>8. ClientTypes'
  <2>1. imq_messages' \in Seq(Msgs)
    BY DEF IInv, ClientTypes
  <2>2. imq_msgcount' \in 0 .. MsgcountRange - 1 /\ imq_fullwaiters' \in BOOLEAN
    BY ReleaseCount, Zenon
  <2>3. promoted' \in SUBSET Threads
    BY <1>2, Zenon DEF IInv, ClientTypes
  <2>4. /\ ith_kmsg' \in [Threads -> Msgs \cup {None}]
        /\ ith_state' \in [Threads -> States]
        /\ pc' \in [Threads -> Pcs]
    BY <1>1, Zenon DEF IInv, ClientTypes, Pcs, Goto
  <2> QED
    BY <1>7, <2>1, <2>2, <2>3, <2>4, Zenon DEF IInv, ClientTypes
<1>9. ASSUME NEW u \in Threads, u # t PROVE Client(u)
  BY <1>9, Zenon DEF Client, Goto, IInv, ClientTypes
<1>10. /\ pc'[t] = "results" /\ ith_state'[t] = v /\ ith_kmsg'[t] = x
       /\ waitq'[t] = None /\ wait_result'[t] = wait_result[t]
  BY <1>1, <1>5, <1>6, <1>7, Zenon DEF Goto, IInv, ClientTypes
<1>11. ThreadInv(t)'
  <2>1. SenderKnown(t)'
    BY <1>4, <1>10, Zenon DEF ThreadInv, SenderKnown
  <2>2. WaitKnown(t)'
    BY <1>4, <1>5, <1>10, Zenon DEF ThreadInv, WaitKnown
  <2>3. ReceiverKnown(t)'
    BY <1>4, <1>5, <1>10, Zenon DEF ThreadInv, ReceiverKnown, Took
  <2> QED
    BY <2>1, <2>2, <2>3, Zenon DEF ThreadInv
<1>12. ASSUME NEW u \in Threads, u # t
       PROVE  /\ ThreadInv(u)'
              /\ Holds(u)' <=> Holds(u) \/ u \in S
              /\ u \in S => ~Holds(u)
              /\ WaitingFor(u, IPC_MQUEUE_FULL)' => WaitingFor(u, IPC_MQUEUE_FULL)
              /\ WaitingFor(u, IPC_MQUEUE_RECEIVE)' => WaitingFor(u, IPC_MQUEUE_RECEIVE)
  <2>1. Client(u) /\ ThreadInv(u)
    BY <1>9, <1>12, Zenon DEF IInv
  <2>2. CASE u \in S
    <3>1. waitq'[u] = None /\ wait_result'[u] = "AWAKENED" /\ wait_result'[u] # "WAITING"
      BY <1>7, <1>12, <2>2, Zenon
    <3> QED
      BY <1>3, <2>1, <2>2, <3>1, WokenSender, Zenon
  <2>3. CASE u \notin S
    <3>1. Kept(u)
      BY <1>7, <1>12, <2>1, <2>3, NotWoken, Zenon
    <3> QED
      BY <2>1, <2>3, <3>1, KeptInv, Zenon
  <2> QED
    BY <2>2, <2>3, Zenon
<1>13. ~Holds(t)' /\ ~WaitingFor(t, IPC_MQUEUE_FULL)' /\ ~WaitingFor(t, IPC_MQUEUE_RECEIVE)'
  BY <1>10, Constants, Zenon DEF Holds, WaitingFor
<1>14. \A m \in Msgs : Placed(m)'
  BY <1>1, <1>5, MoveFromQueue, Places, Zenon DEF IInv
<1>15. Slots'
  <2> SUFFICES ASSUME port \in {"active", "cleared"}
               PROVE  imq_msgcount' = Len(imq_messages') + Cardinality(Holders')
    BY Zenon DEF Slots
  <2>1. Holders' = Holders \cup S /\ Holders \cap S = {}
    BY <1>5, <1>6, <1>12, <1>13, Zenon DEF Holders
  <2>2. Holders \in SUBSET Threads
    BY Zenon DEF Holders
  <2>3. Cardinality(Holders') = Cardinality(Holders) + Cardinality(S)
    BY <2>1, <2>2, CountBoth, Zenon
  <2>4. Cardinality(Holders) \in Nat /\ Cardinality(S) \in Nat
    BY <2>2, ThreadsFinite, Zenon
  <2>5. Len(imq_messages) \in Nat /\ Len(imq_messages) > 0 /\ Len(imq_messages') = Len(imq_messages) - 1
    BY DEF IInv, ClientTypes
  <2>6. imq_msgcount = Len(imq_messages) + Cardinality(Holders)
    BY Zenon DEF IInv, Slots
  <2>7. imq_msgcount > 0
    BY <2>4, <2>5, <2>6
  <2>8. imq_msgcount' = imq_msgcount - 1 + Cardinality(S)
    BY <1>2, <2>7, ReleaseCount, Zenon
  <2> QED
    BY <2>3, <2>4, <2>5, <2>6, <2>8, SMTT(20)
<1>16. SendersRemembered'
  BY <1>12, <1>13, ReleaseRemembers, Zenon
<1>17. ReceiversServed'
  BY <1>12, <1>13, Zenon DEF IInv, ReceiversServed
<1> QED
  BY <1>7, <1>8, <1>11, <1>12, <1>14, <1>15, <1>16, <1>17, Zenon DEF IInv

\* The message goes to the first receiver that takes it, and the receivers
\* before that one are woken; or no receiver takes it, and all are.
LEMMA GivenIs ==
    ASSUME IInv, NEW m
    PROVE  LET W == {u \in Threads : WaitingFor(u, IPC_MQUEUE_RECEIVE)}
               asked == Asked(Waiting(mq, IPC_MQUEUE_RECEIVE), m)
               given == {r \in asked : Takes(r, m)}
           IN /\ asked \subseteq W
              /\ \/ given = {} /\ asked = W
                 \/ \E g \in asked : given = {g}
<1> DEFINE W == Waiting(mq, IPC_MQUEUE_RECEIVE)
           T == {r \in W : Takes(r, m)}
           asked == Asked(W, m)
           given == {r \in asked : Takes(r, m)}
<1>1. W = {u \in Threads : WaitingFor(u, IPC_MQUEUE_RECEIVE)}
  BY MqWaiting, Constants, Zenon DEF IInv
<1>2. W \in SUBSET waitq_queue[mq]
  BY Zenon DEF Waiting
<1>3. asked \subseteq W
  BY Zenon DEF Asked
<1>4. Listed(mq)
  BY Constants, Zenon DEF IInv, QueueInv
<1> HIDE DEF W
<1>5. CASE T = {}
  <2>1. Taker(W, m) = {}
    BY <1>5, Zenon DEF Taker, First
  <2>2. asked = W
    BY <2>1, Zenon DEF Asked
  <2>3. given = {}
    BY <1>5, <2>2, Zenon
  <2> QED
    BY <1>1, <1>3, <2>2, <2>3, Zenon DEF W
<1>6. CASE T # {}
  <2>1. T \in SUBSET waitq_queue[mq]
    BY <1>2, Zenon
  <2>2. PICK g \in T : First(T) = {g}
    BY <1>6, <2>1, FirstThread, Constants, Zenon DEF IInv
  <2>3. Taker(W, m) = {g}
    BY <2>2, Zenon DEF Taker
  <2>4. g \in waitq_queue[mq] /\ g \in W /\ Takes(g, m) /\ ahead[g] \cap T = {}
    BY <2>1, <2>2, Zenon DEF First
  <2>5. g \notin ahead[g]
    BY <1>4, <2>4, Zenon DEF Listed
  <2>6. g \in asked
    BY <2>3, <2>4, <2>5, Zenon DEF Asked
  <2>7. ASSUME NEW r \in asked, Takes(r, m) PROVE r = g
    <3>1. r \in T /\ r \in waitq_queue[mq] /\ g \notin ahead[r]
      BY <1>2, <2>3, <2>7, Zenon DEF Asked
    <3>2. r # g => r \in ahead[g]
      BY <1>4, <2>4, <3>1, Zenon DEF Listed
    <3> QED
      BY <2>4, <3>1, <3>2, Zenon
  <2>8. given = {g}
    BY <2>4, <2>6, <2>7, Zenon
  <2> QED
    BY <1>1, <1>3, <2>6, <2>8, Zenon DEF W
<1> QED
  BY <1>5, <1>6, Zenon

\* What ipc_mqueue_post does to the receivers it asks.
Answers(u, m, given) ==
    /\ waitq'[u] = None /\ wait_result'[u] = "AWAKENED"
    /\ pc'[u] = pc[u] /\ kmsg'[u] = kmsg[u] /\ ith_option'[u] = ith_option[u]
    /\ ith_state'[u] = IF TooLarge(m, ith_option[u]) THEN "TOO_LARGE" ELSE "SUCCESS"
    /\ ith_kmsg'[u] = IF u \in given THEN m ELSE ith_kmsg[u]

\* A receiver that is asked has the message or knows why not.
LEMMA AskedReceiver ==
    ASSUME NEW u, ThreadInv(u), WaitingFor(u, IPC_MQUEUE_RECEIVE), NEW m \in Msgs, NEW given,
           u \in given <=> Takes(u, m), Answers(u, m, given)
    PROVE  /\ ThreadInv(u)'
           /\ ~Holds(u) /\ ~Holds(u)'
           /\ ith_kmsg[u] = None
           /\ ~WaitingFor(u, IPC_MQUEUE_FULL)' /\ ~WaitingFor(u, IPC_MQUEUE_RECEIVE)'
<1>1. pc[u] = "rcvWait" /\ waitq[u] # None
  BY Constants, Zenon DEF WaitingFor, ThreadInv, WaitKnown
<1>2. ith_state[u] = "IN_PROGRESS" /\ ith_kmsg[u] = None
  BY <1>1, Zenon DEF ThreadInv, ReceiverKnown
<1>3. SenderKnown(u)'
  BY <1>1, Zenon DEF ThreadInv, SenderKnown, Answers
<1>4. WaitKnown(u)'
  BY Zenon DEF WaitKnown, Answers
<1>5. ReceiverKnown(u)'
  <2>1. Took(u)' <=> Takes(u, m)
    <3>1. CASE TooLarge(m, ith_option[u])
      BY <1>2, <3>1, Zenon DEF Answers, Took, Takes
    <3>2. CASE ~TooLarge(m, ith_option[u])
      BY <1>2, <3>2, Zenon DEF Answers, Took, Takes
    <3> QED
      BY <3>1, <3>2, Zenon
  <2>2. ith_kmsg'[u] # None <=> Took(u)'
    BY <1>2, <2>1, Constants, Zenon DEF Answers
  <2> QED
    BY <1>1, <2>2, Zenon DEF ReceiverKnown, ThreadInv, Answers
<1>6. ~Holds(u) /\ ~Holds(u)'
  BY <1>1, Zenon DEF Holds, Answers
<1> QED
  BY <1>2, <1>3, <1>4, <1>5, <1>6, Constants, Zenon DEF ThreadInv, WaitingFor, Answers

\* A message is posted: to a receiver, whose slot then goes to the next
\* sender; to the end of the queue; or to nobody, when the queue is gone.
LEMMA PostStep == ASSUME IInv, NEW t \in Threads, ipc_mqueue_post(t) PROVE IInv'
<1>1. ThreadInv(t) /\ pc[t] = "post"
  BY Zenon DEF IInv, ipc_mqueue_post
<1>2. PICK x \in Msgs : kmsg[t] = x
  BY <1>1, Zenon DEF ThreadInv, SenderKnown, IInv, ClientTypes
<1>3. PICK A : A = Asked(Waiting(mq, IPC_MQUEUE_RECEIVE), x)
  BY Zenon
<1>4. PICK G : G = {r \in A : Takes(r, x)}
  BY Zenon
<1>5. PICK N : N = IF G # {} THEN NextSender ELSE {}
  BY Zenon
<1>6. /\ A \in SUBSET Threads /\ G \in SUBSET Threads
      /\ \A u \in A : WaitingFor(u, IPC_MQUEUE_RECEIVE)
      /\ \A u \in A : u \in G <=> Takes(u, x)
      /\ (G = {} /\ A = {u \in Threads : WaitingFor(u, IPC_MQUEUE_RECEIVE)}) \/ \E g \in A : G = {g}
  BY <1>3, <1>4, GivenIs, Zenon
<1>7. /\ N \in SUBSET Threads
      /\ \A u \in N : WaitingFor(u, IPC_MQUEUE_FULL)
      /\ G = {} => N = {}
      /\ G # {} => N = NextSender
  BY <1>5, NextSenderIs, Zenon
<1>8. /\ Wake(A \cup N, "AWAKENED")
      /\ ith_state' = [r \in Threads |->
             IF r \in A /\ ith_state[r] = "IN_PROGRESS"
             THEN IF TooLarge(x, ith_option[r]) THEN "TOO_LARGE" ELSE "SUCCESS"
             ELSE ith_state[r]]
      /\ ith_kmsg' = [r \in Threads |-> IF r \in G THEN x ELSE ith_kmsg[r]]
      /\ G # {} => ipc_mqueue_release_msgcount /\ UNCHANGED <<imq_messages, outside>>
      /\ G = {} => QueueOrDestroy(x)
      /\ promoted' = (promoted \cup N) \ {t}
      /\ kmsg' = [kmsg EXCEPT ![t] = None]
      /\ pc' = [pc EXCEPT ![t] = "idle"]
      /\ UNCHANGED <<imq_qlimit, port, ith_option>>
  BY <1>2, <1>3, <1>4, <1>5, Zenon DEF ipc_mqueue_post, waitq_clear_promotion_locked, Goto
<1>9. /\ QueueInv'
      /\ wait_result' \in [Threads -> Results]
      /\ \A u \in Threads :
           /\ u \in A \cup N => waitq'[u] = None /\ wait_result'[u] = "AWAKENED"
           /\ u \notin A \cup N => /\ waitq'[u] = waitq[u] /\ wait_event'[u] = wait_event[u]
                                   /\ wait_result'[u] = wait_result[u]
  <2>1. "AWAKENED" \in Results
    BY Zenon DEF Results
  <2>2. PICK S : S = A \cup N
    BY Zenon
  <2>3. Wake(S, "AWAKENED")
    BY <1>8, <2>2, Zenon
  <2> QED
    BY <2>1, <2>2, <2>3, WakeFields, Zenon
<1>10. waitq[t] = None /\ ith_kmsg[t] = None
  BY <1>1, Zenon DEF ThreadInv, WaitKnown, ReceiverKnown
<1>11. t \notin A \cup N
  BY <1>6, <1>7, <1>10, Constants, Zenon DEF WaitingFor
<1>12. \A u \in Threads : u \in A => u \notin N
  BY <1>6, <1>7, Constants, Zenon DEF WaitingFor
<1>13. /\ pc'[t] = "idle" /\ kmsg'[t] = None /\ waitq'[t] = None /\ wait_result'[t] = wait_result[t]
       /\ ith_option'[t] = ith_option[t] /\ ith_kmsg'[t] = None
  BY <1>4, <1>8, <1>9, <1>10, <1>11, Zenon DEF IInv, ClientTypes
<1>14. ThreadInv(t)' /\ Holds(t) /\ ~Holds(t)'
       /\ ~WaitingFor(t, IPC_MQUEUE_FULL)' /\ ~WaitingFor(t, IPC_MQUEUE_RECEIVE)'
  <2>1. SenderKnown(t)'
    BY <1>13, Zenon DEF SenderKnown
  <2>2. WaitKnown(t)'
    BY <1>1, <1>10, <1>13, Zenon DEF ThreadInv, WaitKnown
  <2>3. ReceiverKnown(t)'
    BY <1>1, <1>13, Zenon DEF ThreadInv, ReceiverKnown
  <2> QED
    BY <1>1, <1>13, <2>1, <2>2, <2>3, Constants, Zenon DEF ThreadInv, Holds, WaitingFor
<1>15. ASSUME NEW u \in Threads, u # t
       PROVE  /\ ThreadInv(u)'
              /\ Holds(u)' <=> Holds(u) \/ u \in N
              /\ u \in N => ~Holds(u)
              /\ WaitingFor(u, IPC_MQUEUE_FULL)' => WaitingFor(u, IPC_MQUEUE_FULL)
              /\ WaitingFor(u, IPC_MQUEUE_RECEIVE)' => WaitingFor(u, IPC_MQUEUE_RECEIVE) /\ u \notin A
  <2>1. ThreadInv(u) /\ pc'[u] = pc[u] /\ kmsg'[u] = kmsg[u] /\ ith_option'[u] = ith_option[u]
    BY <1>8, <1>15, Zenon DEF IInv, ClientTypes
  <2>2. CASE u \in A
    <3>1. ith_state[u] = "IN_PROGRESS" /\ u \notin N
      BY <1>6, <1>12, <1>15, <2>1, <2>2, Constants, Zenon DEF ThreadInv, WaitKnown, ReceiverKnown, WaitingFor
    <3>2. Answers(u, x, G)
      BY <1>8, <1>9, <1>15, <2>1, <2>2, <3>1, Zenon DEF Answers
    <3>3. WaitingFor(u, IPC_MQUEUE_RECEIVE) /\ (u \in G <=> Takes(u, x))
      BY <1>6, <2>2, Zenon
    <3> QED
      BY <2>1, <3>1, <3>2, <3>3, AskedReceiver, Zenon
  <2>3. CASE u \in N
    <3>1. u \notin A /\ u \notin G
      BY <1>4, <1>12, <1>15, <2>3, Zenon
    <3>2. Client(u)
      BY <1>8, <1>15, <2>1, <3>1, Zenon DEF Client
    <3>3. waitq'[u] = None /\ wait_result'[u] = "AWAKENED" /\ wait_result'[u] # "WAITING"
      BY <1>9, <1>15, <2>3, Zenon
    <3> QED
      BY <1>7, <2>1, <2>3, <3>2, <3>3, WokenSender, Zenon
  <2>4. CASE u \notin A /\ u \notin N
    <3>1. u \notin G
      BY <1>4, <2>4, Zenon
    <3>2. Client(u)
      BY <1>8, <1>15, <2>1, <2>4, <3>1, Zenon DEF Client
    <3>3. waitq'[u] = waitq[u] /\ wait_event'[u] = wait_event[u] /\ wait_result'[u] = wait_result[u]
      BY <1>9, <1>15, <2>4, Zenon
    <3>4. Kept(u)
      BY <3>2, <3>3, NotWoken, Zenon
    <3> QED
      BY <2>1, <2>4, <3>4, KeptInv, Zenon
  <2> QED
    BY <2>2, <2>3, <2>4, Zenon
<1>16. /\ Holders' = (Holders \ {t}) \cup N /\ (Holders \ {t}) \cap N = {}
       /\ Holders \in SUBSET Threads /\ t \in Holders
  BY <1>7, <1>11, <1>14, <1>15, Zenon DEF Holders
<1>17. /\ Cardinality(Holders) \in Nat /\ Cardinality(Holders) > 0 /\ Cardinality(N) \in Nat
       /\ Cardinality(Holders') = Cardinality(Holders) - 1 + Cardinality(N)
  <2>1. Cardinality((Holders \ {t}) \cup N) = Cardinality(Holders \ {t}) + Cardinality(N)
    <3>1. Holders \ {t} \in SUBSET Threads
      BY <1>16, Zenon
    <3> QED
      BY <1>7, <1>16, <3>1, CountBoth, Zenon
  <2>2. /\ Cardinality(Holders) \in Nat /\ Cardinality(Holders) > 0
        /\ Cardinality(Holders \ {t}) = Cardinality(Holders) - 1
    BY <1>16, CountOff, Zenon
  <2>3. Cardinality(N) \in Nat
    BY <1>7, ThreadsFinite, Zenon
  <2> QED
    BY <1>16, <2>1, <2>2, <2>3, Zenon
<1>18. Len(imq_messages) \in Nat /\ imq_msgcount \in 0 .. MsgcountRange - 1
  BY DEF IInv, ClientTypes
<1>19. port \in {"active", "cleared"} =>
          imq_msgcount = Len(imq_messages) + Cardinality(Holders) /\ imq_msgcount > 0
  <2>1. port \in {"active", "cleared"} => imq_msgcount = Len(imq_messages) + Cardinality(Holders)
    BY Zenon DEF IInv, Slots
  <2> QED
    BY <1>17, <1>18, <2>1
<1>20. /\ pc' \in [Threads -> Pcs] /\ kmsg' \in [Threads -> Msgs \cup {None}]
       /\ ith_state' \in [Threads -> States] /\ ith_kmsg' \in [Threads -> Msgs \cup {None}]
       /\ promoted' \in SUBSET Threads
  <2>1. pc' \in [Threads -> Pcs] /\ kmsg' \in [Threads -> Msgs \cup {None}]
    BY <1>8, Zenon DEF IInv, ClientTypes, Pcs
  <2>2. ith_state' \in [Threads -> States]
    BY <1>8, Zenon DEF IInv, ClientTypes, States
  <2>3. ith_kmsg' \in [Threads -> Msgs \cup {None}]
    BY <1>8, Zenon DEF IInv, ClientTypes
  <2>4. promoted' \in SUBSET Threads
    BY <1>7, <1>8, Zenon DEF IInv, ClientTypes
  <2> QED
    BY <2>1, <2>2, <2>3, <2>4, Zenon
<1>21. \A u \in Threads : WaitingFor(u, IPC_MQUEUE_FULL)' => WaitingFor(u, IPC_MQUEUE_FULL)
  BY <1>14, <1>15, Zenon
<1>22. CASE G # {}
  <2>1. PICK g \in A : G = {g}
    BY <1>6, <1>22, Zenon
  <2>2. ipc_mqueue_release_msgcount /\ UNCHANGED <<imq_messages, outside, imq_qlimit, port, ith_option>> /\ N = NextSender
    BY <1>7, <1>8, <1>22, Zenon
  <2>3. ClientTypes'
    BY <1>9, <1>20, <2>2, ReleaseCount, Zenon DEF IInv, ClientTypes
  <2>4. \A m \in Msgs : Placed(m)'
    <3>1. g \in Threads /\ ThreadInv(g) /\ WaitingFor(g, IPC_MQUEUE_RECEIVE)
      BY <1>6, <2>1, Zenon DEF IInv
    <3>2. ith_kmsg[g] = None
      BY <3>1, Constants, Zenon DEF ThreadInv, WaitKnown, ReceiverKnown, WaitingFor
    <3>3. ith_kmsg' = [ith_kmsg EXCEPT ![g] = x]
      BY <1>8, <2>1, <3>1, Zenon DEF IInv, ClientTypes
    <3> QED
      BY <1>2, <1>8, <2>2, <3>1, <3>2, <3>3, MoveOver, Places, Zenon DEF IInv
  <2>5. Slots'
    <3> SUFFICES ASSUME port \in {"active", "cleared"}
                 PROVE  imq_msgcount' = Len(imq_messages') + Cardinality(Holders')
      BY <2>2, Zenon DEF Slots
    <3>1. imq_msgcount' = imq_msgcount - 1 + Cardinality(N)
      BY <1>19, <2>2, ReleaseCount, Zenon
    <3> QED
      BY <1>17, <1>18, <1>19, <2>2, <3>1, SMTT(20)
  <2>6. SendersRemembered'
    BY <1>21, <2>2, ReleaseRemembers, Zenon
  <2>7. ReceiversServed'
    BY <1>14, <1>15, <2>2, Zenon DEF IInv, ReceiversServed
  <2> QED
    BY <1>9, <1>14, <1>15, <2>3, <2>4, <2>5, <2>6, <2>7, Zenon DEF IInv
<1>23. CASE G = {}
  <2>1. /\ imq_messages' = IF imq_msgcount > 0 THEN Append(imq_messages, x) ELSE imq_messages
        /\ outside' = IF imq_msgcount > 0 THEN outside ELSE outside \cup {x}
        /\ UNCHANGED <<imq_msgcount, imq_fullwaiters, imq_qlimit, port, ith_option>>
        /\ N = {}
    BY <1>7, <1>8, <1>23, Zenon DEF QueueOrDestroy
  <2>2. ith_kmsg' = ith_kmsg
    BY <1>8, <1>23, Zenon DEF IInv, ClientTypes
  <2>3. ClientTypes'
    <3>1. imq_messages' \in Seq(Msgs)
      BY <2>1 DEF IInv, ClientTypes
    <3>2. outside' \in SUBSET Msgs
      BY <2>1, Zenon DEF IInv, ClientTypes
    <3> QED
      BY <1>9, <1>20, <2>1, <3>1, <3>2, Zenon DEF IInv, ClientTypes
  <2>4. \A m \in Msgs : Placed(m)'
    <3>1. CASE imq_msgcount > 0
      BY <1>2, <1>8, <2>1, <2>2, <3>1, MoveToQueue, Places, Zenon DEF IInv
    <3>2. CASE ~(imq_msgcount > 0)
      BY <1>2, <1>8, <2>1, <2>2, <3>2, MoveBack, Places, Zenon DEF IInv
    <3> QED
      BY <3>1, <3>2, Zenon
  <2>5. Slots'
    <3> SUFFICES ASSUME port \in {"active", "cleared"}
                 PROVE  imq_msgcount' = Len(imq_messages') + Cardinality(Holders')
      BY <2>1, Zenon DEF Slots
    <3>1. imq_messages' = Append(imq_messages, x)
      BY <1>19, <2>1, Zenon
    <3>2. Len(imq_messages') = Len(imq_messages) + 1
      BY <3>1 DEF IInv, ClientTypes
    <3>3. Cardinality(N) = 0
      BY <2>1, FS_EmptySet, Zenon
    <3> QED
      BY <1>17, <1>18, <1>19, <2>1, <3>2, <3>3, SMTT(20)
  <2>6. SendersRemembered'
    BY <1>21, <2>1, Zenon DEF IInv, SendersRemembered, imq_full
  <2>7. ReceiversServed'
    <3>1. A = {u \in Threads : WaitingFor(u, IPC_MQUEUE_RECEIVE)}
      BY <1>6, <1>23, Zenon
    <3>2. \A u \in Threads : ~WaitingFor(u, IPC_MQUEUE_RECEIVE)'
      BY <1>14, <1>15, <3>1, Zenon
    <3> QED
      BY <3>2, Zenon DEF ReceiversServed
  <2> QED
    BY <1>9, <1>14, <1>15, <2>3, <2>4, <2>5, <2>6, <2>7, Zenon DEF IInv
<1> QED
  BY <1>22, <1>23, Zenon

\* If a raised limit leaves a sender waiting, it has woken one for every slot
\* that the limit gained.
LEMMA LimitWakes ==
    ASSUME QueueInv, NEW W \in SUBSET waitq_queue[mq], NEW gain \in Nat, NEW woken,
           woken = {t \in W : Cardinality(ahead[t] \cap W) < gain},
           NEW u \in W, u \notin woken
    PROVE  Cardinality(woken) >= gain /\ Cardinality(W) >= gain
<1>1. W \in SUBSET Threads /\ woken \in SUBSET W
  BY Constants, Zenon DEF QueueInv, QueueTypes
<1>2. PICK R \in SUBSET waitq_queue[mq] : R = W \ woken
  BY Zenon
<1>3. PICK v \in R : First(R) = {v}
  BY <1>2, FirstThread, Constants, Zenon
<1>4. v \in W /\ v \notin woken /\ ahead[v] \cap R = {}
  BY <1>2, <1>3, Zenon DEF First
<1>5. ahead[v] \cap W \in SUBSET woken
  BY <1>2, <1>4, Zenon
<1>6. woken \in SUBSET Threads /\ IsFiniteSet(woken) /\ IsFiniteSet(W)
  BY <1>1, ThreadsFinite, Zenon
<1>7. Cardinality(ahead[v] \cap W) <= Cardinality(woken) /\ Cardinality(woken) <= Cardinality(W)
  BY <1>1, <1>5, <1>6, FS_Subset, Zenon
<1>8. Cardinality(ahead[v] \cap W) \in Nat /\ Cardinality(woken) \in Nat /\ Cardinality(W) \in Nat
  <2>1. ahead[v] \cap W \in SUBSET Threads
    BY <1>1, Zenon
  <2> QED
    BY <1>1, <1>6, <2>1, ThreadsFinite, Zenon
<1>9. ~(Cardinality(ahead[v] \cap W) < gain)
  BY <1>4, Zenon
<1> QED
  BY <1>7, <1>8, <1>9

\* The limit changes: every slot that it gains goes to a sender that waits.
LEMMA QlimitStep ==
    ASSUME IInv, NEW qlimit \in Qlimits, ipc_mqueue_set_qlimit(qlimit)
    PROVE  IInv'
<1>1. PICK W : W = Waiting(mq, IPC_MQUEUE_FULL)
  BY Zenon
<1>2. PICK gain : gain = IF qlimit > imq_qlimit THEN qlimit - imq_qlimit ELSE 0
  BY Zenon
<1>3. PICK S : S = {t \in W : Cardinality(ahead[t] \cap W) < gain}
  BY Zenon
<1>4. /\ port = "active"
      /\ Wake(S, "AWAKENED")
      /\ promoted' = promoted \cup S
      /\ imq_msgcount' = imq_msgcount + Cardinality(S)
      /\ imq_fullwaiters' = (imq_fullwaiters /\ Cardinality(W) >= gain)
      /\ imq_qlimit' = qlimit
      /\ UNCHANGED <<imq_messages, port, ith_option, ith_state, ith_kmsg, pc, kmsg, outside>>
  BY <1>1, <1>2, <1>3, Zenon DEF ipc_mqueue_set_qlimit, ithVars
<1>5. /\ W = {u \in Threads : WaitingFor(u, IPC_MQUEUE_FULL)}
      /\ W \in SUBSET waitq_queue[mq]
  BY <1>1, MqWaiting, Constants, Zenon DEF IInv, Waiting
<1>6. S \in SUBSET Threads /\ \A u \in S : WaitingFor(u, IPC_MQUEUE_FULL)
  BY <1>3, <1>5, Zenon
<1>7. qlimit \in Nat /\ imq_qlimit \in Nat /\ imq_msgcount \in Nat /\ gain \in Nat
  BY <1>2, Numbers DEF IInv, ClientTypes
<1>8. /\ QueueInv'
      /\ wait_result' \in [Threads -> Results]
      /\ \A u \in Threads :
           /\ u \in S => waitq'[u] = None /\ wait_result'[u] = "AWAKENED"
           /\ u \notin S => /\ waitq'[u] = waitq[u] /\ wait_event'[u] = wait_event[u]
                            /\ wait_result'[u] = wait_result[u]
  <2>1. "AWAKENED" \in Results
    BY Zenon DEF Results
  <2> QED
    BY <1>4, <2>1, WakeFields, Zenon
<1>9. ASSUME NEW u \in Threads
      PROVE  /\ ThreadInv(u)'
             /\ Holds(u)' <=> Holds(u) \/ u \in S
             /\ u \in S => ~Holds(u)
             /\ WaitingFor(u, IPC_MQUEUE_FULL)' => WaitingFor(u, IPC_MQUEUE_FULL) /\ u \notin S
             /\ WaitingFor(u, IPC_MQUEUE_RECEIVE)' => WaitingFor(u, IPC_MQUEUE_RECEIVE)
  <2>1. Client(u) /\ ThreadInv(u)
    BY <1>4, Zenon DEF Client, IInv
  <2>2. CASE u \in S
    <3>1. waitq'[u] = None /\ wait_result'[u] = "AWAKENED" /\ wait_result'[u] # "WAITING"
      BY <1>8, <1>9, <2>2, Zenon
    <3> QED
      BY <1>6, <2>1, <2>2, <3>1, WokenSender, Zenon
  <2>3. CASE u \notin S
    <3>1. Kept(u)
      BY <1>8, <1>9, <2>1, <2>3, NotWoken, Zenon
    <3> QED
      BY <2>1, <2>3, <3>1, KeptInv, Zenon
  <2> QED
    BY <2>2, <2>3, Zenon
<1>10. /\ Holders' = Holders \cup S /\ Holders \cap S = {}
       /\ Holders \in SUBSET Threads
  BY <1>6, <1>9, Zenon DEF Holders
<1>11. imq_msgcount' = Len(imq_messages) + Cardinality(Holders \cup S)
  <2>1. Cardinality(Holders \cup S) = Cardinality(Holders) + Cardinality(S)
    BY <1>6, <1>10, CountBoth, Zenon
  <2>2. Cardinality(Holders) \in Nat /\ Cardinality(S) \in Nat
    BY <1>6, <1>10, ThreadsFinite, Zenon
  <2>3. imq_msgcount = Len(imq_messages) + Cardinality(Holders)
    BY <1>4, Zenon DEF IInv, Slots
  <2>4. Len(imq_messages) \in Nat
    BY DEF IInv, ClientTypes
  <2> QED
    BY <1>4, <2>1, <2>2, <2>3, <2>4, SMTT(20)
<1>12. ClientTypes'
  <2>1. ASSUME NEW u \in Holders \cup S PROVE kmsg[u] \in Msgs
    <3>1. u \in Threads /\ ThreadInv(u) /\ pc[u] \in {"sendWait", "post"}
      <4>1. CASE u \in Holders
        BY <4>1, Zenon DEF Holders, Holds, IInv
      <4>2. CASE u \in S
        BY <1>6, <4>2, Constants, Zenon DEF IInv, ThreadInv, WaitKnown, WaitingFor
      <4> QED
        BY <2>1, <4>1, <4>2, Zenon
    <3> QED
      BY <3>1, Zenon DEF ThreadInv, SenderKnown, IInv, ClientTypes
  <2>2. imq_msgcount' \in 0 .. MsgcountRange - 1
    <3>1. Holders \cup S \in SUBSET Threads
      BY <1>6, <1>10, Zenon
    <3> QED
      BY <1>11, <2>1, <3>1, CountInRange, Zenon DEF IInv
  <2>3. promoted' \in SUBSET Threads /\ imq_fullwaiters' \in BOOLEAN
    BY <1>4, <1>6, Zenon DEF IInv, ClientTypes
  <2> QED
    BY <1>4, <1>8, <2>2, <2>3, Zenon DEF IInv, ClientTypes
<1>13. \A m \in Msgs : Placed(m)'
  BY <1>4, MessagesStay, Zenon DEF IInv
<1>14. Slots'
  BY <1>4, <1>10, <1>11, Zenon DEF Slots
<1>15. SendersRemembered'
  <2> SUFFICES ASSUME NEW u \in Threads, WaitingFor(u, IPC_MQUEUE_FULL)'
               PROVE  (imq_fullwaiters /\ imq_full(imq_msgcount) /\ port \in {"active", "cleared"})'
    BY Zenon DEF SendersRemembered
  <2>1. WaitingFor(u, IPC_MQUEUE_FULL) /\ u \notin S /\ u \in W
    BY <1>5, <1>9, Zenon
  <2>2. imq_fullwaiters /\ imq_full(imq_msgcount)
    BY <2>1, Zenon DEF IInv, SendersRemembered
  <2>3. Cardinality(S) >= gain /\ Cardinality(W) >= gain
    BY <1>3, <1>5, <1>7, <2>1, LimitWakes, Zenon DEF IInv
  <2>4. Cardinality(S) \in Nat
    BY <1>6, ThreadsFinite, Zenon
  <2>5. imq_full(imq_msgcount)'
    BY <1>2, <1>4, <1>7, <2>2, <2>3, <2>4, SMTT(20) DEF imq_full
  <2> QED
    BY <1>4, <2>2, <2>3, <2>5, Zenon
<1>16. ReceiversServed'
  BY <1>4, <1>9, Zenon DEF IInv, ReceiversServed
<1> QED
  BY <1>8, <1>9, <1>12, <1>13, <1>14, <1>15, <1>16, Zenon DEF IInv

-----------------------------------------------------------------------------
(* The theorems. *)

\* Every message is outside and no slot is taken at the start.
LEMMA InitIInv == Init => IInv
<1> SUFFICES ASSUME Init PROVE IInv
  BY Zenon
<1>1. QueueInv
  BY InitQueue, Zenon DEF Init
<1>2. ClientTypes
  <2>1. imq_msgcount \in 0 .. MsgcountRange - 1 /\ imq_messages \in Seq(Msgs)
    BY Numbers DEF Init
  <2> QED
    BY <2>1, Zenon DEF Init, WaitInit, ClientTypes, Results, Phases, Pcs, States
<1>3. ASSUME NEW t \in Threads PROVE ThreadInv(t) /\ ~Holds(t) /\ waitq[t] = None
  BY <1>3, Zenon DEF Init, WaitInit, ThreadInv, SenderKnown, WaitKnown, ReceiverKnown, Holds
<1>4. ASSUME NEW m \in Msgs PROVE Placed(m)
  <2>1. m # None /\ m \in outside
    BY <1>4, Constants, Zenon DEF Init
  <2>2. NotQueued(m)
    BY DEF Init, NotQueued
  <2> QED
    BY <2>1, <2>2, Zenon DEF Init, Placed, NotSent, NotGiven
<1>5. Slots
  <2>1. Cardinality(Holders) = 0
    BY <1>3, FS_EmptySet, Zenon DEF Holders
  <2> QED
    BY <2>1 DEF Slots, Init
<1>6. SendersRemembered /\ ReceiversServed
  BY <1>3, Constants, Zenon DEF SendersRemembered, ReceiversServed, WaitingFor
<1> QED
  BY <1>1, <1>2, <1>3, <1>4, <1>5, <1>6, Zenon DEF IInv

\* A receiver looks at the queue: it takes a message, announces one, polls or waits.
LEMMA ReceiveStep == ASSUME IInv, NEW t \in Threads, ipc_mqueue_receive_on_thread(t) PROVE IInv'
<1>1. pc[t] = "copied" /\ UNCHANGED <<ith_option, kmsg, outside>>
  BY Zenon DEF ipc_mqueue_receive_on_thread
<1>2. CASE ipc_mqueue_select_on_thread(t)
  <2>1. PICK large \in BOOLEAN : large = TooLarge(Head(imq_messages), ith_option[t])
    BY Zenon DEF TooLarge
  <2>2. PICK v \in States : v = IF large THEN "TOO_LARGE" ELSE "SUCCESS"
    BY Zenon DEF States
  <2>3. /\ imq_messages # <<>> /\ Goto(t, "results")
        /\ ith_state' = [ith_state EXCEPT ![t] = v]
    BY <1>2, <2>1, <2>2, Zenon DEF ipc_mqueue_select_on_thread
  <2>4. CASE large /\ ith_option[t].large
    <3>1. UNCHANGED <<waitVars, ith_kmsg, imqVars, promoted>>
      BY <1>2, <2>1, <2>4, Zenon DEF ipc_mqueue_select_on_thread
    <3> QED
      BY <1>1, <2>2, <2>3, <2>4, <3>1, AnnounceStep, Zenon
  <2>5. CASE ~(large /\ ith_option[t].large)
    <3>1. /\ imq_messages' = Tail(imq_messages)
          /\ ipc_mqueue_release_msgcount
          /\ Wake(NextSender, "AWAKENED")
          /\ promoted' = promoted \cup NextSender
          /\ ith_kmsg' = [ith_kmsg EXCEPT ![t] = Head(imq_messages)]
          /\ UNCHANGED <<imq_qlimit, port>>
      BY <1>2, <2>1, <2>5, Zenon DEF ipc_mqueue_select_on_thread
    <3>2. v = "SUCCESS" \/ (v = "TOO_LARGE" /\ ~ith_option[t].large)
      BY <2>2, <2>5, Zenon
    <3> QED
      BY <1>1, <2>2, <2>3, <3>1, <3>2, TakeStep, Zenon
  <2> QED
    BY <2>4, <2>5, Zenon
<1>3. CASE ReceivePolls(t)
  <2>1. "TIMED_OUT" \in States /\ "TIMED_OUT" # "SUCCESS" /\ "TIMED_OUT" # "TOO_LARGE"
    BY Zenon DEF States
  <2> QED
    BY <1>1, <1>3, <2>1, AnnounceStep, Zenon DEF ReceivePolls
<1>4. CASE ReceiveWaits(t)
  BY <1>1, <1>4, ReceiveWaitsStep, Zenon
<1> QED
  BY <1>2, <1>3, <1>4, Zenon DEF ipc_mqueue_receive_on_thread

\* Every step keeps the invariant.
LEMMA NextIInv == IInv /\ [Next]_vars => IInv'
<1> SUFFICES ASSUME IInv, [Next]_vars PROVE IInv'
  BY Zenon
<1>1. ASSUME NEW t \in Threads, NEW s \in Sends[t], ipc_mqueue_send(t, s) PROVE IInv'
  BY <1>1, SendReservesStep, SendWaitsStep, StutterStep, Zenon DEF ipc_mqueue_send, SendFails
<1>2. ASSUME NEW t \in Threads, ThreadStep(t) PROVE IInv'
  BY <1>1, <1>2, ResumeStep, PostStep, CopyinStep, ReceiveStep, ResultsStep, ReceivedStep, ReturnStep, Zenon DEF ThreadStep
<1>3. ASSUME NEW t \in Threads, Outside(t) PROVE IInv'
  <2>1. Spares(t) \/ Ends(t)
    BY <1>3, OutsideShape, Zenon DEF Outside
  <2> QED
    BY <1>3, <2>1, OutsideStep, Zenon DEF Outside
<1>4. ASSUME OwnerStep PROVE IInv'
  BY <1>4, ClearReceiverStep, DestroyStep, DeinitStep, QlimitStep, Zenon DEF OwnerStep
<1> QED
  BY <1>2, <1>3, <1>4, StutterStep, Zenon DEF Next

\* So it always holds.
LEMMA SpecIInv == Spec => []IInv
  BY InitIInv, NextIInv, PTL DEF Spec

\* imq_msgcount counts the messages queued and the slots that senders own, for
\* any number of threads and messages and any changes of the limit: reserving,
\* giving, moving and returning a slot (ipc_mqueue_send,
\* ipc_mqueue_release_msgcount, ipc_mqueue_set_qlimit) never lose one.
THEOREM SlotsAreExact == Spec => []SlotsExact
<1>1. IInv => SlotsExact
  <2> SUFFICES ASSUME IInv PROVE SlotsExact
    BY Zenon
  <2>1. Holders = {t \in Threads : Owns(t)}
    BY OwnsIs, Zenon DEF Holders, IInv, QueueInv
  <2> QED
    BY <2>1, Zenon DEF SlotsExact, IInv, Slots
<1> QED
  BY <1>1, SpecIInv, PTL

\* A sender waits only at a full queue that remembers it: imq_fullwaiters is
\* never cleared over a sender that waits, however the limit moves.
THEOREM SendersAreRemembered == Spec => []SendersRemembered
<1>1. IInv => SendersRemembered
  BY Zenon DEF IInv
<1> QED
  BY <1>1, SpecIInv, PTL

\* No receiver waits at a queue with a message.
THEOREM ReceiversAreServed == Spec => []ReceiversServed
<1>1. IInv => ReceiversServed
  BY Zenon DEF IInv
<1> QED
  BY <1>1, SpecIInv, PTL

\* The number of threads at a place, and of positions in the queue.
LEMMA PlaceCounts ==
    ASSUME ClientTypes, NEW m
    PROVE  /\ NotSent(m) => Cardinality({t \in Threads : kmsg[t] = m}) = 0
           /\ SentOnce(m) => Cardinality({t \in Threads : kmsg[t] = m}) = 1
           /\ NotGiven(m) => Cardinality({t \in Threads : ith_kmsg[t] = m}) = 0
           /\ GivenOnce(m) => Cardinality({t \in Threads : ith_kmsg[t] = m}) = 1
           /\ NotQueued(m) => Cardinality({i \in DOMAIN imq_messages : imq_messages[i] = m}) = 0
           /\ QueuedOnce(m) => Cardinality({i \in DOMAIN imq_messages : imq_messages[i] = m}) = 1
<1>1. DOMAIN imq_messages = 1 .. Len(imq_messages)
  BY DEF ClientTypes
<1>2. ASSUME NotSent(m) PROVE {t \in Threads : kmsg[t] = m} = {}
  BY <1>2, Zenon DEF NotSent
<1>3. ASSUME SentOnce(m) PROVE \E x : {t \in Threads : kmsg[t] = m} = {x}
  <2>1. PICK x \in Threads : \A y \in Threads : kmsg[y] = m <=> y = x
    BY <1>3, Zenon DEF SentOnce
  <2>2. {t \in Threads : kmsg[t] = m} = {x}
    BY <2>1, Zenon
  <2> QED
    BY <2>2, Zenon
<1>4. ASSUME NotGiven(m) PROVE {t \in Threads : ith_kmsg[t] = m} = {}
  BY <1>4, Zenon DEF NotGiven
<1>5. ASSUME GivenOnce(m) PROVE \E x : {t \in Threads : ith_kmsg[t] = m} = {x}
  <2>1. PICK x \in Threads : \A y \in Threads : ith_kmsg[y] = m <=> y = x
    BY <1>5, Zenon DEF GivenOnce
  <2>2. {t \in Threads : ith_kmsg[t] = m} = {x}
    BY <2>1, Zenon
  <2> QED
    BY <2>2, Zenon
<1>6. ASSUME NotQueued(m) PROVE {i \in DOMAIN imq_messages : imq_messages[i] = m} = {}
  BY <1>1, <1>6, Zenon DEF NotQueued
<1>7. ASSUME QueuedOnce(m) PROVE \E x : {i \in DOMAIN imq_messages : imq_messages[i] = m} = {x}
  <2>1. PICK x \in 1 .. Len(imq_messages) : \A y \in 1 .. Len(imq_messages) : imq_messages[y] = m <=> y = x
    BY <1>7, Zenon DEF QueuedOnce
  <2>2. {i \in DOMAIN imq_messages : imq_messages[i] = m} = {x}
    BY <1>1, <2>1, Zenon
  <2> QED
    BY <2>2, Zenon
<1>8. Cardinality({}) = 0 /\ \A x : Cardinality({x}) = 1
  BY FS_EmptySet, FS_Singleton, Zenon
<1> QED
  BY <1>2, <1>3, <1>4, <1>5, <1>6, <1>7, <1>8, Zenon

\* Every message is in one place, whatever ends the wait of the thread that
\* holds it or is to get it, and also when the port is destroyed around it.
THEOREM MessagesAreConserved == Spec => []MessagesConserved
<1>1. IInv => MessagesConserved
  <2> SUFFICES ASSUME IInv, NEW m \in Msgs
               PROVE  Cardinality({t \in Threads : kmsg[t] = m}) + Cardinality({t \in Threads : ith_kmsg[t] = m})
                      + Cardinality({i \in DOMAIN imq_messages : imq_messages[i] = m})
                      + (IF m \in outside THEN 1 ELSE 0) = 1
    BY Zenon DEF MessagesConserved
  <2>1. PICK k : k = Cardinality({t \in Threads : kmsg[t] = m})
    BY Zenon
  <2>2. PICK g : g = Cardinality({t \in Threads : ith_kmsg[t] = m})
    BY Zenon
  <2>3. PICK q : q = Cardinality({i \in DOMAIN imq_messages : imq_messages[i] = m})
    BY Zenon
  <2>4. /\ NotSent(m) => k = 0
        /\ SentOnce(m) => k = 1
        /\ NotGiven(m) => g = 0
        /\ GivenOnce(m) => g = 1
        /\ NotQueued(m) => q = 0
        /\ QueuedOnce(m) => q = 1
    BY <2>1, <2>2, <2>3, PlaceCounts, Zenon DEF IInv
  <2>5. Placed(m)
    BY Zenon DEF IInv
  <2>6. \/ k = 1 /\ g = 0 /\ q = 0 /\ m \notin outside
        \/ k = 0 /\ g = 1 /\ q = 0 /\ m \notin outside
        \/ k = 0 /\ g = 0 /\ q = 1 /\ m \notin outside
        \/ k = 0 /\ g = 0 /\ q = 0 /\ m \in outside
    BY <2>4, <2>5, Zenon DEF Placed
  <2>7. k + g + q + (IF m \in outside THEN 1 ELSE 0) = 1
    BY <2>6
  <2> QED
    BY <2>1, <2>2, <2>3, <2>7, Zenon
<1> QED
  BY <1>1, SpecIInv, PTL
=============================================================================
