-------------------------- MODULE ThreadWaitProofs --------------------------
(***************************************************************************)
(* What the operations of ThreadWait keep of the wait queues, for any      *)
(* threads, events and queues, whoever calls them: the links stay lists,   *)
(* and a thread is on a queue exactly while it waits.                      *)
(***************************************************************************)
EXTENDS ThreadWait, FiniteSetTheorems, TLAPS

QueueTypes ==
    /\ state \in [Threads -> SUBSET {"WAIT", "UNINT", "RUN"}]
    /\ waitq \in [Threads -> Waitqs \cup {None}]
    /\ wait_event \in [Threads -> Events \cup {None}]
    /\ waitq_queue \in [Waitqs -> SUBSET Threads]
    /\ ahead \in [Threads -> SUBSET Threads]

\* The fields of a thread that say that it waits.
Linked(t) ==
    /\ "WAIT" \in state[t] <=> waitq[t] # None
    /\ "RUN" \in state[t] \/ "WAIT" \in state[t]
    /\ waitq[t] # None <=> wait_event[t] # None
    /\ \A q \in Waitqs : t \in waitq_queue[q] <=> waitq[t] = q

\* The links of a queue make a list.
Listed(q) ==
    \A t \in waitq_queue[q] :
        /\ ahead[t] \subseteq waitq_queue[q] \ {t}
        /\ \A u \in waitq_queue[q] \ {t} : u \in ahead[t] <=> t \notin ahead[u]
        /\ \A u \in ahead[t] : ahead[u] \subseteq ahead[t]

QueueInv ==
    /\ QueueTypes
    /\ \A t \in Threads : Linked(t)
    /\ \A q \in Waitqs : Listed(q)

\* The mask of a global queue has the bits of the events that are waited for,
\* or do_waitq_select_n_locked would not look at the queue.
MaskInv ==
    /\ waitq_eventmask \in [Waitqs -> SUBSET Bits]
    /\ \A q \in GlobalQs, t \in Threads :
         waitq[t] = q => EventBits[wait_event[t]] \subseteq waitq_eventmask[q]

\* What SleepersQueued says is part of the invariant.
LEMMA QueueInvSleepers == QueueInv => SleepersQueued
  BY Zenon DEF QueueInv, Linked, Listed, SleepersQueued

\* The queues are empty at the start.
LEMMA InitQueue == WaitInit => QueueInv /\ MaskInv
<1> SUFFICES ASSUME WaitInit PROVE QueueInv /\ MaskInv
  BY Zenon
<1>1. QueueTypes
  BY Zenon DEF WaitInit, QueueTypes
<1>2. ASSUME NEW t \in Threads PROVE Linked(t)
  <2>1. waitq[t] = None /\ wait_event[t] = None /\ state[t] = {"RUN"} /\ (\A q \in Waitqs : waitq_queue[q] = {})
    BY <1>2, Zenon DEF WaitInit
  <2> QED
    BY <2>1, ThreadWaitConstants DEF Linked
<1>3. ASSUME NEW q \in Waitqs PROVE Listed(q)
  BY <1>3, Zenon DEF WaitInit, Listed
<1>4. MaskInv
  BY ThreadWaitConstants, Zenon DEF WaitInit, MaskInv
<1> QED
  BY <1>1, <1>2, <1>3, <1>4, Zenon DEF QueueInv

\* A step that leaves the queues and the fields of the waits alone.
LEMMA SameQueue ==
    ASSUME QueueInv, UNCHANGED <<state, waitq, wait_event, waitq_queue, ahead>>
    PROVE  QueueInv'
<1>1. QueueTypes'
  BY Zenon DEF QueueInv, QueueTypes
<1>2. ASSUME NEW t \in Threads PROVE Linked(t)'
  <2>1. Linked(t)
    BY <1>2, Zenon DEF QueueInv
  <2> QED
    BY <2>1 DEF Linked
<1>3. ASSUME NEW q \in Waitqs PROVE Listed(q)'
  <2>1. Listed(q)
    BY <1>3, Zenon DEF QueueInv
  <2> QED
    BY <2>1 DEF Listed
<1> QED
  BY <1>1, <1>2, <1>3, Zenon DEF QueueInv

\* thread_block.
LEMMA DispatchQueue ==
    ASSUME QueueInv, NEW t \in Threads, Dispatch(t)
    PROVE  QueueInv'
<1>1. /\ state' = [state EXCEPT ![t] = IF "WAIT" \in @ THEN @ \ {"RUN"} ELSE @]
      /\ UNCHANGED <<waitq, wait_event, waitq_queue, ahead>>
  BY Zenon DEF Dispatch, queueVars
<1>2. QueueTypes' /\ \A u \in Threads : u # t => state'[u] = state[u]
  BY <1>1, Zenon DEF QueueInv, QueueTypes
<1>3. state'[t] = IF "WAIT" \in state[t] THEN state[t] \ {"RUN"} ELSE state[t]
  BY <1>1, Zenon DEF QueueInv, QueueTypes
<1>4. ("WAIT" \in state'[t] <=> "WAIT" \in state[t]) /\ ("RUN" \in state'[t] \/ "WAIT" \in state'[t])
  BY <1>3, Zenon DEF QueueInv, Linked
<1>5. ASSUME NEW u \in Threads PROVE Linked(u)'
  <2>1. Linked(u) /\ Linked(t)
    BY <1>5, Zenon DEF QueueInv
  <2>2. ("WAIT" \in state'[u] <=> "WAIT" \in state[u]) /\ ("RUN" \in state'[u] \/ "WAIT" \in state'[u])
    BY <1>2, <1>4, <2>1, <1>5, Zenon DEF Linked
  <2> QED
    BY <1>1, <2>1, <2>2 DEF Linked
<1>6. ASSUME NEW q \in Waitqs PROVE Listed(q)'
  <2>1. Listed(q)
    BY <1>6, Zenon DEF QueueInv
  <2> QED
    BY <1>1, <2>1 DEF Listed
<1> QED
  BY <1>2, <1>5, <1>6, Zenon DEF QueueInv

\* Run: the threads of S leave their queues, and the others stay in order.
LEMMA RunQueue ==
    ASSUME QueueInv, NEW S, NEW r, Run(S, r)
    PROVE  QueueInv'
<1>1. ASSUME NEW t \in Threads
      PROVE  /\ t \in S => state'[t] = {"RUN"} /\ waitq'[t] = None /\ wait_event'[t] = None /\ ahead'[t] = {}
             /\ t \notin S => /\ state'[t] = state[t] /\ waitq'[t] = waitq[t] /\ wait_event'[t] = wait_event[t]
                              /\ ahead'[t] = ahead[t] \ S
  BY <1>1, Zenon DEF Run
<1>2. \A q \in Waitqs : waitq_queue'[q] = waitq_queue[q] \ S
  BY Zenon DEF Run
<1>3. QueueTypes'
  BY Zenon DEF Run, QueueInv, QueueTypes
<1>4. ASSUME NEW t \in Threads PROVE Linked(t)'
  <2>1. CASE t \in S
    <3>1. \A q \in Waitqs : t \notin waitq_queue'[q] /\ q # None
      BY <1>2, <2>1, ThreadWaitConstants, Zenon
    <3> QED
      BY <1>1, <1>4, <2>1, <3>1 DEF Linked
  <2>2. CASE t \notin S
    <3>1. Linked(t) /\ \A q \in Waitqs : t \in waitq_queue'[q] <=> t \in waitq_queue[q]
      BY <1>2, <1>4, <2>2, Zenon DEF QueueInv
    <3> QED
      BY <1>1, <1>4, <2>2, <3>1 DEF Linked
  <2> QED
    BY <2>1, <2>2, Zenon
<1>5. ASSUME NEW q \in Waitqs, NEW t \in waitq_queue'[q]
      PROVE  /\ ahead'[t] \subseteq waitq_queue'[q] \ {t}
             /\ \A u \in waitq_queue'[q] \ {t} : u \in ahead'[t] <=> t \notin ahead'[u]
             /\ \A u \in ahead'[t] : ahead'[u] \subseteq ahead'[t]
  <2>1. t \in waitq_queue[q] /\ t \notin S /\ waitq_queue[q] \subseteq Threads /\ t \in Threads /\ Listed(q)
    BY <1>2, <1>5, Zenon DEF QueueInv, QueueTypes
  <2>2. ahead'[t] = ahead[t] \ S
    BY <1>1, <2>1, Zenon
  <2>3. ahead'[t] \subseteq waitq_queue'[q] \ {t}
    <3>1. ahead[t] \subseteq waitq_queue[q] \ {t}
      BY <2>1, Zenon DEF Listed
    <3> QED
      BY <1>2, <1>5, <2>2, <3>1, Zenon
  <2>4. ASSUME NEW u \in waitq_queue'[q] \ {t} PROVE u \in ahead'[t] <=> t \notin ahead'[u]
    <3>1. u \in waitq_queue[q] \ {t} /\ u \notin S /\ u \in Threads
      BY <1>2, <2>1, <2>4, Zenon
    <3>2. ahead'[u] = ahead[u] \ S
      BY <1>1, <3>1, Zenon
    <3> QED
      BY <2>1, <2>2, <3>1, <3>2, Zenon DEF Listed
  <2>5. ASSUME NEW u \in ahead'[t] PROVE ahead'[u] \subseteq ahead'[t]
    <3>1. u \in ahead[t] /\ u \notin S /\ u \in Threads
      BY <2>1, <2>2, <2>5, Zenon DEF Listed
    <3>2. ahead'[u] = ahead[u] \ S
      BY <1>1, <3>1, Zenon
    <3> QED
      BY <2>1, <2>2, <3>1, <3>2, Zenon DEF Listed
  <2> QED
    BY <2>3, <2>4, <2>5, Zenon
<1>6. ASSUME NEW q \in Waitqs PROVE Listed(q)'
  BY <1>5, <1>6, Zenon DEF Listed
<1> QED
  BY <1>3, <1>4, <1>6, Zenon DEF QueueInv

\* waitq_assert_wait64_locked: a thread that is on no queue goes to the head or
\* to the tail of one, or is told that it was aborted.
LEMMA AssertQueue ==
    ASSUME QueueInv, NEW t \in Threads, NEW q \in Waitqs, NEW e \in Events, NEW level, NEW timed,
           waitq[t] = None, waitq_assert_wait64_locked(t, q, e, level, timed)
    PROVE  QueueInv'
<1>0. Linked(t) /\ q # None /\ e # None
  BY ThreadWaitConstants, Zenon DEF QueueInv
<1>1. CASE MayWait(t, level)
  <2>1. /\ state' = [state EXCEPT ![t] = @ \cup {"WAIT"} \cup (IF level = "UNINT" THEN {"UNINT"} ELSE {})]
        /\ waitq' = [waitq EXCEPT ![t] = q]
        /\ wait_event' = [wait_event EXCEPT ![t] = e]
        /\ Enqueue(t, q)
    BY <1>1, Zenon DEF waitq_assert_wait64_locked
  <2>2. state'[t] \in SUBSET {"WAIT", "UNINT", "RUN"} /\ "WAIT" \in state'[t]
    BY <2>1 DEF QueueInv, QueueTypes
  <2>3. \A u \in Threads : u # t => state'[u] = state[u] /\ waitq'[u] = waitq[u] /\ wait_event'[u] = wait_event[u]
    BY <2>1, Zenon DEF QueueInv, QueueTypes
  <2>4. waitq'[t] = q /\ wait_event'[t] = e
    BY <2>1, Zenon DEF QueueInv, QueueTypes
  <2>5. waitq_queue'[q] = waitq_queue[q] \cup {t} /\ \A p \in Waitqs : p # q => waitq_queue'[p] = waitq_queue[p]
    BY <2>1, Zenon DEF Enqueue, QueueInv, QueueTypes
  <2>6. \A p \in Waitqs : t \notin waitq_queue[p] /\ waitq_queue[p] \subseteq Threads
    <3>1. \A p \in Waitqs : waitq_queue[p] \subseteq Threads /\ p # None
      BY ThreadWaitConstants, Zenon DEF QueueInv, QueueTypes
    <3> QED
      BY <1>0, <3>1, Zenon DEF Linked
  <2>7. QueueTypes'
    <3>1. state' \in [Threads -> SUBSET {"WAIT", "UNINT", "RUN"}]
      BY <2>1, <2>2 DEF QueueInv, QueueTypes
    <3>2. waitq_queue' \in [Waitqs -> SUBSET Threads]
      BY <2>1, Zenon DEF Enqueue, QueueInv, QueueTypes
    <3>3. ahead' \in [Threads -> SUBSET Threads]
      BY <2>1, <2>6, Zenon DEF Enqueue, QueueInv, QueueTypes
    <3> QED
      BY <2>1, <3>1, <3>2, <3>3, Zenon DEF QueueInv, QueueTypes
  <2>8. ASSUME NEW u \in Threads PROVE Linked(u)'
    <3>1. CASE u = t
      <4>1. \A p \in Waitqs : t \in waitq_queue'[p] <=> q = p
        BY <2>5, <2>6, Zenon
      <4> QED
        BY <1>0, <2>2, <2>4, <3>1, <4>1 DEF Linked
    <3>2. CASE u # t
      <4>1. Linked(u) /\ \A p \in Waitqs : u \in waitq_queue'[p] <=> u \in waitq_queue[p]
        BY <2>5, <2>8, <3>2, Zenon DEF QueueInv
      <4> QED
        BY <2>3, <2>8, <3>2, <4>1 DEF Linked
    <3> QED
      BY <3>1, <3>2, Zenon
  <2>9. Listed(q) /\ (\A u \in waitq_queue[q] : u \in Threads /\ u # t)
    BY <2>6, Zenon DEF QueueInv
  <2>10. ASSUME q \in LifoQs \/ t \in AtHead PROVE Listed(q)'
    <3>1. ahead'[t] = {} /\ (\A u \in waitq_queue[q] : ahead'[u] = ahead[u] \cup {t})
      BY <2>1, <2>9, <2>10, Zenon DEF Enqueue
    <3>2. ASSUME NEW v \in waitq_queue'[q]
          PROVE  /\ ahead'[v] \subseteq waitq_queue'[q] \ {v}
                 /\ \A u \in waitq_queue'[q] \ {v} : u \in ahead'[v] <=> v \notin ahead'[u]
                 /\ \A u \in ahead'[v] : ahead'[u] \subseteq ahead'[v]
      <4>1. CASE v = t
        <5>1. ASSUME NEW u \in waitq_queue'[q] \ {v} PROVE v \in ahead'[u]
          <6>1. u \in waitq_queue[q]
            BY <2>5, <4>1, <5>1, Zenon
          <6> QED
            BY <3>1, <4>1, <6>1, Zenon
        <5> QED
          BY <3>1, <4>1, <5>1, Zenon
      <4>2. CASE v # t
        <5>1. v \in waitq_queue[q] /\ ahead'[v] = ahead[v] \cup {t}
          BY <2>5, <3>1, <3>2, <4>2, Zenon
        <5>2. /\ ahead[v] \subseteq waitq_queue[q] \ {v}
              /\ \A u \in waitq_queue[q] \ {v} : u \in ahead[v] <=> v \notin ahead[u]
              /\ \A u \in ahead[v] : ahead[u] \subseteq ahead[v]
          BY <2>9, <5>1, Zenon DEF Listed
        <5>3. ahead'[v] \subseteq waitq_queue'[q] \ {v}
          BY <2>5, <4>2, <5>1, <5>2, Zenon
        <5>4. ASSUME NEW u \in waitq_queue'[q] \ {v} PROVE u \in ahead'[v] <=> v \notin ahead'[u]
          <6>1. CASE u = t
            BY <3>1, <5>1, <6>1, Zenon
          <6>2. CASE u # t
            <7>1. u \in waitq_queue[q] \ {v}
              BY <2>5, <5>4, <6>2, Zenon
            <7>2. ahead'[u] = ahead[u] \cup {t}
              BY <3>1, <7>1, Zenon
            <7>3. u \in ahead[v] <=> v \notin ahead[u]
              BY <5>2, <7>1, Zenon
            <7> QED
              BY <4>2, <5>1, <6>2, <7>2, <7>3, Zenon
          <6> QED
            BY <6>1, <6>2, Zenon
        <5>5. ASSUME NEW u \in ahead'[v] PROVE ahead'[u] \subseteq ahead'[v]
          <6>1. CASE u = t
            BY <3>1, <6>1, Zenon
          <6>2. CASE u # t
            <7>1. u \in ahead[v] /\ u \in waitq_queue[q]
              BY <5>1, <5>2, <5>5, <6>2, Zenon
            <7>2. ahead'[u] = ahead[u] \cup {t}
              BY <3>1, <7>1, Zenon
            <7>3. ahead[u] \subseteq ahead[v]
              BY <5>2, <7>1, Zenon
            <7> QED
              BY <5>1, <7>2, <7>3, Zenon
          <6> QED
            BY <6>1, <6>2, Zenon
        <5> QED
          BY <5>3, <5>4, <5>5, Zenon
      <4> QED
        BY <4>1, <4>2, Zenon
    <3> QED
      BY <3>2, Zenon DEF Listed
  <2>11. ASSUME ~(q \in LifoQs \/ t \in AtHead) PROVE Listed(q)'
    <3>1. ahead'[t] = waitq_queue[q] /\ (\A u \in waitq_queue[q] : ahead'[u] = ahead[u])
      BY <2>1, <2>9, <2>11, Zenon DEF Enqueue
    <3>2. ASSUME NEW v \in waitq_queue'[q]
          PROVE  /\ ahead'[v] \subseteq waitq_queue'[q] \ {v}
                 /\ \A u \in waitq_queue'[q] \ {v} : u \in ahead'[v] <=> v \notin ahead'[u]
                 /\ \A u \in ahead'[v] : ahead'[u] \subseteq ahead'[v]
      <4>0. \A x \in waitq_queue[q] : t \notin ahead[x] /\ ahead[x] \subseteq waitq_queue[q]
        BY <2>9, Zenon DEF Listed
      <4>1. CASE v = t
        BY <2>5, <2>9, <3>1, <4>0, <4>1, Zenon
      <4>2. CASE v # t
        <5>1. v \in waitq_queue[q] /\ ahead'[v] = ahead[v]
          BY <2>5, <3>1, <3>2, <4>2, Zenon
        <5>2. /\ ahead[v] \subseteq waitq_queue[q] \ {v}
              /\ \A u \in waitq_queue[q] \ {v} : u \in ahead[v] <=> v \notin ahead[u]
              /\ \A u \in ahead[v] : ahead[u] \subseteq ahead[v]
          BY <2>9, <5>1, Zenon DEF Listed
        <5>3. ahead'[v] \subseteq waitq_queue'[q] \ {v}
          BY <2>5, <5>1, <5>2, Zenon
        <5>4. ASSUME NEW u \in waitq_queue'[q] \ {v} PROVE u \in ahead'[v] <=> v \notin ahead'[u]
          <6>1. CASE u = t
            BY <3>1, <4>0, <5>1, <6>1, Zenon
          <6>2. CASE u # t
            <7>1. u \in waitq_queue[q] \ {v}
              BY <2>5, <5>4, <6>2, Zenon
            <7>2. ahead'[u] = ahead[u]
              BY <3>1, <7>1, Zenon
            <7>3. u \in ahead[v] <=> v \notin ahead[u]
              BY <5>2, <7>1, Zenon
            <7> QED
              BY <5>1, <7>2, <7>3, Zenon
          <6> QED
            BY <6>1, <6>2, Zenon
        <5>5. ASSUME NEW u \in ahead'[v] PROVE ahead'[u] \subseteq ahead'[v]
          BY <3>1, <5>1, <5>2, <5>5, Zenon
        <5> QED
          BY <5>3, <5>4, <5>5, Zenon
      <4> QED
        BY <4>1, <4>2, Zenon
    <3> QED
      BY <3>2, Zenon DEF Listed
  <2>12. ASSUME NEW p \in Waitqs PROVE Listed(p)'
    <3>1. CASE p = q
      BY <2>10, <2>11, <3>1, Zenon
    <3>2. CASE p # q
      <4>1. waitq_queue'[p] = waitq_queue[p] /\ Listed(p)
        BY <2>5, <2>12, <3>2, Zenon DEF QueueInv
      <4>2. \A u \in waitq_queue[p] : u \in Threads /\ u # t /\ u \notin waitq_queue[q]
        <5>1. ASSUME NEW u \in waitq_queue[p] PROVE u \in Threads /\ u # t /\ u \notin waitq_queue[q]
          <6>1. u \in Threads /\ u # t
            BY <2>6, <2>12, <5>1, Zenon
          <6>2. Linked(u)
            BY <6>1, Zenon DEF QueueInv
          <6> QED
            BY <2>12, <3>2, <5>1, <6>1, <6>2, Zenon DEF Linked
        <5> QED
          BY <5>1, Zenon
      <4>3. \A u \in waitq_queue[p] : ahead'[u] = ahead[u]
        BY <2>1, <4>2, Zenon DEF Enqueue
      <4>4. \A u \in waitq_queue[p] : ahead[u] \subseteq waitq_queue[p]
        BY <4>1, Zenon DEF Listed
      <4> QED
        BY <4>1, <4>3, <4>4 DEF Listed
    <3> QED
      BY <3>1, <3>2, Zenon
  <2> QED
    BY <2>7, <2>8, <2>12, Zenon DEF QueueInv
<1>2. CASE ~MayWait(t, level)
  <2>1. UNCHANGED <<state, waitq, wait_event, waitq_queue, ahead>>
    BY <1>2, Zenon DEF waitq_assert_wait64_locked, queueVars
  <2> QED
    BY <2>1, SameQueue, Zenon
<1> QED
  BY <1>1, <1>2, Zenon

\* Threads of one queue have a first: what waitq_select_one_locked looks for is
\* found, and is one thread.
LEMMA FirstThread ==
    ASSUME QueueInv, NEW q \in Waitqs, NEW W \in SUBSET waitq_queue[q], W # {}
    PROVE  \E t \in W : First(W) = {t}
<1> DEFINE Before(t) == ahead[t] \cap W
           Sets == {Before(t) : t \in W}
<1>1. W \subseteq Threads /\ Listed(q) /\ IsFiniteSet(Threads)
  BY ThreadWaitConstants, Zenon DEF QueueInv, QueueTypes
<1>2. \A t \in W : Before(t) \in SUBSET Threads /\ IsFiniteSet(Before(t))
  <2>1. IsFiniteSet(W)
    BY <1>1, FS_Subset, Zenon
  <2> QED
    BY <1>1, <2>1, FS_Intersection, Zenon
<1>3. Sets \subseteq FiniteSubsetsOf(Threads) /\ Sets # {}
  BY <1>2, Zenon DEF FiniteSubsetsOf
<1>4. PICK B \in Sets : \A C \in Sets : <<C, B>> \notin StrictSubsetOrdering(Threads)
  <2>1. IsWellFoundedOn(StrictSubsetOrdering(Threads), FiniteSubsetsOf(Threads))
    BY FS_StrictSubsetOrderingWellFounded, Zenon
  <2> QED
    BY <1>3, <2>1, WFMin, Zenon
<1>5. PICK t \in W : B = Before(t)
  BY <1>4, Zenon
<1>6. ahead[t] \cap W = {}
  <2>1. SUFFICES ASSUME NEW u \in ahead[t] \cap W PROVE FALSE
    BY Zenon
  <2>2. u \in W /\ u \in waitq_queue[q] /\ ahead[u] \subseteq ahead[t] /\ u \notin ahead[u]
    BY <1>1, <1>5, <2>1, Zenon DEF Listed
  <2>3. Before(u) \subseteq Before(t) /\ Before(u) # Before(t)
    BY <2>1, <2>2, Zenon
  <2>4. Before(u) \in SUBSET Threads /\ Before(t) \in SUBSET Threads
    BY <1>2, <1>5, <2>2, Zenon
  <2>5. <<Before(u), Before(t)>> \in StrictSubsetOrdering(Threads)
    BY <2>3, <2>4, Zenon DEF StrictSubsetOrdering
  <2> QED
    BY <1>4, <1>5, <2>2, <2>5, Zenon
<1>7. ASSUME NEW u \in W, u # t PROVE ahead[u] \cap W # {}
  BY <1>1, <1>5, <1>6, <1>7, Zenon DEF Listed
<1> QED
  BY <1>5, <1>6, <1>7, Zenon DEF First

-----------------------------------------------------------------------------
(* The timer, aborts and clear_wait, from a client's side. *)

\* What they may do to the wait of t: nothing, or end it.
Spares(t) == UNCHANGED <<threadVars, queueVars>>
Ends(t) ==
    /\ "WAIT" \in state[t]
    /\ waitq_eventmask' = MaskWithout(t)
    /\ \E r \in {"TIMED_OUT", "INTERRUPTED"} : Run({t}, r)

\* One turn of clear_wait_internal does one or the other.
LEMMA TurnShape ==
    ASSUME NEW t, NEW kind, ClearTurn(t, kind)
    PROVE  Spares(t) \/ Ends(t)
  BY Zenon DEF ClearTurn, Spares, Ends, Rousts, ResultOf

\* So do the clock, the aborts and special_handler; none takes a queue's lock.
LEMMA OutsideShape ==
    ASSUME NEW t \in Threads,
           \/ Clock(t) \/ Abort(t) \/ special_handler(t)
           \/ \E kind \in Kinds : clear_wait_internal(t, kind)
    PROVE  (Spares(t) \/ Ends(t)) /\ waitq_lock' = waitq_lock
<1>1. CASE Clock(t)
  <2>1. CASE timer_queue_expire(t)
    BY <2>1, Zenon DEF timer_queue_expire, Spares
  <2>2. CASE thread_timer_expire(t)
    BY <2>2, TurnShape, Zenon DEF thread_timer_expire, Spares
  <2> QED
    BY <1>1, <2>1, <2>2, Zenon DEF Clock
<1>2. CASE Abort(t)
  <2>1. CASE act_abort(t)
    BY <2>1, Zenon DEF act_abort, Spares
  <2>2. CASE thread_abort_safely(t)
    BY <2>2, TurnShape, Zenon DEF thread_abort_safely, Spares
  <2> QED
    BY <1>2, <2>1, <2>2, Zenon DEF Abort
<1>3. CASE special_handler(t)
  BY <1>3, Zenon DEF special_handler, Spares
<1>4. CASE \E kind \in Kinds : clear_wait_internal(t, kind)
  BY <1>4, TurnShape, Zenon DEF clear_wait_internal, Spares
<1> QED
  BY <1>1, <1>2, <1>3, <1>4, Zenon

\* They keep the queues.
LEMMA OutsideQueue ==
    ASSUME QueueInv, NEW t \in Threads, Spares(t) \/ Ends(t)
    PROVE  QueueInv'
<1>1. CASE Spares(t)
  BY <1>1, SameQueue, Zenon DEF Spares, threadVars, queueVars
<1>2. CASE Ends(t)
  BY <1>2, RunQueue, Zenon DEF Ends
<1> QED
  BY <1>1, <1>2, Zenon
-----------------------------------------------------------------------------
(* The event masks. *)

\* The bits of an event that is waited for stay in the mask of its queue.
LEMMA SameMask ==
    ASSUME MaskInv, UNCHANGED <<waitq, wait_event, waitq_eventmask>>
    PROVE  MaskInv'
  BY Zenon DEF MaskInv

\* Threads that stay on a queue must find their bits in the new mask.
LEMMA RunMask ==
    ASSUME QueueInv, NEW S, NEW r, Run(S, r),
           waitq_eventmask' \in [Waitqs -> SUBSET Bits],
           \A q \in GlobalQs, u \in Threads :
              u \notin S /\ waitq[u] = q => EventBits[wait_event[u]] \subseteq waitq_eventmask'[q]
    PROVE  MaskInv'
<1>1. \A u \in Threads :
         /\ u \in S => waitq'[u] = None
         /\ u \notin S => waitq'[u] = waitq[u] /\ wait_event'[u] = wait_event[u]
  BY Zenon DEF Run
<1>2. \A q \in GlobalQs : q # None
  BY ThreadWaitConstants, Zenon
<1>3. ASSUME NEW q \in GlobalQs, NEW u \in Threads, waitq'[u] = q
      PROVE  EventBits[wait_event'[u]] \subseteq waitq_eventmask'[q]
  <2>1. u \notin S
    BY <1>1, <1>2, <1>3, Zenon
  <2>2. waitq[u] = q /\ wait_event'[u] = wait_event[u]
    BY <1>1, <1>3, <2>1, Zenon
  <2> QED
    BY <1>3, <2>1, <2>2, Zenon
<1> QED
  BY <1>3, Zenon DEF MaskInv

\* waitq_assert_wait64_locked adds the bits of the event.
LEMMA AssertMask ==
    ASSUME QueueInv, MaskInv, NEW t \in Threads, NEW q \in Waitqs, NEW e \in Events, NEW level, NEW timed,
           waitq_assert_wait64_locked(t, q, e, level, timed)
    PROVE  MaskInv'
<1>1. CASE MayWait(t, level)
  <2>1. /\ waitq' = [waitq EXCEPT ![t] = q]
        /\ wait_event' = [wait_event EXCEPT ![t] = e]
        /\ waitq_eventmask' = IF q \in GlobalQs
                              THEN [waitq_eventmask EXCEPT ![q] = @ \cup EventBits[e]]
                              ELSE waitq_eventmask
    BY <1>1, Zenon DEF waitq_assert_wait64_locked
  <2>2. EventBits[e] \in SUBSET Bits
    BY ThreadWaitConstants, Zenon
  <2>3. waitq_eventmask' \in [Waitqs -> SUBSET Bits]
    BY <2>1, <2>2, Zenon DEF MaskInv
  <2>4. \A p \in GlobalQs : waitq_eventmask[p] \subseteq waitq_eventmask'[p]
    BY <2>1, ThreadWaitConstants, Zenon DEF MaskInv
  <2>5. q \in GlobalQs => EventBits[e] \subseteq waitq_eventmask'[q]
    BY <2>1, ThreadWaitConstants, Zenon DEF MaskInv
  <2>6. \A u \in Threads :
           /\ u = t => waitq'[u] = q /\ wait_event'[u] = e
           /\ u # t => waitq'[u] = waitq[u] /\ wait_event'[u] = wait_event[u]
    BY <2>1, Zenon DEF QueueInv, QueueTypes
  <2>7. ASSUME NEW p \in GlobalQs, NEW u \in Threads, waitq'[u] = p
        PROVE  EventBits[wait_event'[u]] \subseteq waitq_eventmask'[p]
    <3>1. CASE u = t
      BY <2>5, <2>6, <2>7, <3>1, Zenon
    <3>2. CASE u # t
      <4>1. waitq[u] = p /\ wait_event'[u] = wait_event[u]
        BY <2>6, <2>7, <3>2, Zenon
      <4>2. EventBits[wait_event[u]] \subseteq waitq_eventmask[p]
        BY <2>7, <4>1, Zenon DEF MaskInv
      <4> QED
        BY <2>4, <2>7, <4>1, <4>2, Zenon
    <3> QED
      BY <3>1, <3>2, Zenon
  <2> QED
    BY <2>3, <2>7, Zenon DEF MaskInv
<1>2. CASE ~MayWait(t, level)
  <2>1. UNCHANGED <<waitq, wait_event, waitq_eventmask>>
    BY <1>2, Zenon DEF waitq_assert_wait64_locked, queueVars
  <2> QED
    BY <2>1, SameMask, Zenon
<1> QED
  BY <1>1, <1>2, Zenon

\* The event of a thread that waits.
LEMMA EventOf ==
    ASSUME QueueInv, NEW t \in Threads, NEW q \in Waitqs, waitq[t] = q
    PROVE  t \in waitq_queue[q] /\ wait_event[t] \in Events
<1>1. Linked(t) /\ wait_event[t] \in Events \cup {None} /\ q # None
  BY ThreadWaitConstants, Zenon DEF QueueInv, QueueTypes
<1> QED
  BY <1>1, Zenon DEF Linked

\* A wakeup empties the mask only with the queue, and recomputes it from the
\* threads that were on it.
LEMMA WakeMask ==
    ASSUME QueueInv, MaskInv, NEW q \in Waitqs, NEW e, NEW S, NEW chosen, NEW r,
           waitq_wakeup64_locked(q, e, S, chosen, r)
    PROVE  MaskInv'
<1>1. Run(S, r) /\ waitq_eventmask' = [waitq_eventmask EXCEPT ![q] = MaskAfter(q, e, S, chosen)]
  BY Zenon DEF waitq_wakeup64_locked
<1>2. MaskOf(waitq_queue[q]) \in SUBSET Bits
  <2>1. ASSUME NEW t \in waitq_queue[q] PROVE EventBits[wait_event[t]] \in SUBSET Bits
    <3>1. t \in Threads /\ Linked(t)
      BY <2>1, Zenon DEF QueueInv, QueueTypes
    <3>2. waitq[t] = q
      BY <2>1, <3>1, Zenon DEF Linked
    <3> QED
      BY <3>1, <3>2, EventOf, ThreadWaitConstants, Zenon
  <2> QED
    BY <2>1, Zenon DEF MaskOf
<1>3. MaskAfter(q, e, S, chosen) \in SUBSET Bits
  BY <1>2, Zenon DEF MaskAfter, MaskInv
<1>4. waitq_eventmask' \in [Waitqs -> SUBSET Bits]
  BY <1>1, <1>3, Zenon DEF MaskInv
<1>5. ASSUME NEW p \in GlobalQs, NEW u \in Threads, u \notin S, waitq[u] = p
      PROVE  EventBits[wait_event[u]] \subseteq waitq_eventmask'[p]
  <2>1. EventBits[wait_event[u]] \subseteq waitq_eventmask[p] /\ p \in Waitqs
    BY <1>5, ThreadWaitConstants, Zenon DEF MaskInv
  <2>2. CASE p # q
    BY <1>1, <2>1, <2>2, Zenon DEF MaskInv
  <2>3. CASE p = q
    <3>1. u \in waitq_queue[q]
      BY <1>5, <2>3, EventOf, Zenon
    <3>2. EventBits[wait_event[u]] \subseteq MaskOf(waitq_queue[q])
      BY <3>1, Zenon DEF MaskOf
    <3>3. EventBits[wait_event[u]] \subseteq MaskAfter(q, e, S, chosen)
      BY <1>5, <2>1, <2>3, <3>1, <3>2, Zenon DEF MaskAfter
    <3> QED
      BY <1>1, <2>3, <3>3, Zenon DEF MaskInv
  <2> QED
    BY <2>2, <2>3, Zenon
<1> QED
  BY <1>1, <1>4, <1>5, RunMask, Zenon

\* waitq_pull_thread_locked empties the mask when t was alone on the queue.
LEMMA OutsideMask ==
    ASSUME QueueInv, MaskInv, NEW t \in Threads, Spares(t) \/ Ends(t)
    PROVE  MaskInv'
<1>1. CASE Spares(t)
  BY <1>1, SameMask, Zenon DEF Spares, threadVars, queueVars
<1>2. CASE Ends(t)
  <2>1. PICK r : Run({t}, r)
    BY <1>2, Zenon DEF Ends
  <2>2. waitq_eventmask' = MaskWithout(t)
    BY <1>2, Zenon DEF Ends
  <2>3. waitq_eventmask' \in [Waitqs -> SUBSET Bits]
    BY <2>2, Zenon DEF MaskWithout, MaskInv
  <2>4. ASSUME NEW p \in GlobalQs, NEW u \in Threads, u \notin {t}, waitq[u] = p
        PROVE  EventBits[wait_event[u]] \subseteq waitq_eventmask'[p]
    <3>1. EventBits[wait_event[u]] \subseteq waitq_eventmask[p] /\ p \in Waitqs
      BY <2>4, ThreadWaitConstants, Zenon DEF MaskInv
    <3>2. u \in waitq_queue[p]
      BY <2>4, <3>1, EventOf, Zenon
    <3>3. waitq_queue[p] # {t}
      BY <2>4, <3>2, Zenon
    <3>4. waitq_eventmask'[p] = waitq_eventmask[p]
      BY <2>2, <3>1, <3>3, Zenon DEF MaskWithout
    <3> QED
      BY <3>1, <3>4, Zenon
  <2> QED
    BY <2>1, <2>3, <2>4, RunMask, Zenon
<1> QED
  BY <1>1, <1>2, Zenon

-----------------------------------------------------------------------------
(* Who is selected. *)

\* The threads that wait for e on q are all found.
LEMMA WaitingAll ==
    ASSUME QueueInv, MaskInv, NEW q \in Waitqs, NEW e \in Events
    PROVE  Waiting(q, e) = {t \in Threads : waitq[t] = q /\ wait_event[t] = e}
<1>1. ASSUME NEW t \in waitq_queue[q] PROVE t \in Threads /\ waitq[t] = q
  BY <1>1, Zenon DEF QueueInv, QueueTypes, Linked
<1>2. ASSUME NEW t \in Threads, waitq[t] = q, wait_event[t] = e
      PROVE  t \in waitq_queue[q] /\ (q \in GlobalQs => EventBits[e] \subseteq waitq_eventmask[q])
  <2>1. t \in waitq_queue[q]
    BY <1>2, EventOf, Zenon
  <2> QED
    BY <1>2, <2>1, Zenon DEF MaskInv
<1> QED
  BY <1>1, <1>2, Zenon DEF Waiting

\* waitq_select_one_locked takes one of them, if there is one.
LEMMA SelectOne ==
    ASSUME QueueInv, NEW q \in Waitqs, NEW e
    PROVE  /\ Waiting(q, e) = {} => waitq_select_one_locked(q, e) = {}
           /\ Waiting(q, e) # {} => \E t \in Waiting(q, e) : waitq_select_one_locked(q, e) = {t}
<1>1. Choices(q, e) \subseteq Waiting(q, e) /\ Waiting(q, e) \subseteq waitq_queue[q]
  BY Zenon DEF Choices, Waiting
<1>2. CASE Choices(q, e) # {}
  <2>1. \E t \in Choices(q, e) : First(Choices(q, e)) = {t}
    BY <1>1, <1>2, FirstThread, Zenon
  <2> QED
    BY <1>1, <1>2, <2>1, Zenon DEF waitq_select_one_locked
<1>3. CASE Choices(q, e) = {} /\ Waiting(q, e) # {}
  <2>1. \E t \in Waiting(q, e) : First(Waiting(q, e)) = {t}
    BY <1>1, <1>3, FirstThread, Zenon
  <2> QED
    BY <1>3, <2>1, Zenon DEF waitq_select_one_locked
<1>4. CASE Waiting(q, e) = {}
  BY <1>1, <1>4, Zenon DEF waitq_select_one_locked, First
<1> QED
  BY <1>2, <1>3, <1>4, Zenon
=============================================================================
