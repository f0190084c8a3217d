--------------------------- MODULE EventWaitProofs ---------------------------
(***************************************************************************)
(* Wait timers, aborts and wakeups, for any threads, events and queues.    *)
(***************************************************************************)
EXTENDS EventWait, ThreadWaitProofs

WaitTypes ==
    /\ state \in [Threads -> SUBSET {"WAIT", "UNINT", "RUN"}]
    /\ sched_flags \in [Threads -> SUBSET {"ABORT", "ABORTSAFELY"}]
    /\ wait_result \in [Threads -> Results]
    /\ waitq \in [Threads -> Waitqs \cup {None}]
    /\ wait_timer_is_set \in [Threads -> BOOLEAN]
    /\ wait_timer_active \in [Threads -> Nat]
    /\ armed \in SUBSET Threads
    /\ firing \in [Threads -> Nat]
    /\ clearing \in [Threads -> [Kinds -> Waitqs \cup {None, Start}]]

ClientTypes ==
    /\ pc \in [Threads -> Pcs]
    /\ req \in [Threads -> Calls \cup {NoCall}]
    /\ due \in [Threads -> BOOLEAN]

\* A thread that has not declared a wait.
NoWait(t) ==
    \/ pc[t] \in {"idle", "assert"}
    \/ pc[t] = "wake" /\ req[t].back = "idle"
    \/ pc[t] = "blocked" /\ "RUN" \in state[t]

TimerCounted(t) ==
    /\ wait_timer_active[t] = firing[t] + (IF t \in armed THEN 1 ELSE 0)
    /\ wait_timer_is_set[t] => wait_timer_active[t] # 0 /\ waitq[t] # None
    /\ t \in armed => wait_timer_is_set[t]

\* Where the thread is and what its fields say of its wait.
WaitKnown(t) ==
    /\ pc[t] \in {"assert", "wake"} => req[t] \in Calls
    /\ "WAIT" \in state[t] <=> waitq[t] # None
    /\ NoWait(t) => waitq[t] = None

\* A timer that is set and on no timer queue has expired for this wait.
ExpiredIsDue(t) == wait_timer_is_set[t] /\ t \notin armed => due[t]

\* While an aborted thread sleeps interruptibly, thread_abort is still at it.
AbortUnderWay(t) ==
    sched_flags[t] = {"ABORT"} /\ "WAIT" \in state[t] /\ "UNINT" \notin state[t] =>
        clearing[t]["abort"] \in {Start, waitq[t]}

ThreadInv(t) == TimerCounted(t) /\ WaitKnown(t) /\ ExpiredIsDue(t) /\ AbortUnderWay(t)

IInv == WaitTypes /\ ClientTypes /\ \A t \in Threads : ThreadInv(t)

\* The fields of thread u that the invariant speaks of stay as they are.
Same(u) ==
    /\ state'[u] = state[u] /\ sched_flags'[u] = sched_flags[u] /\ waitq'[u] = waitq[u]
    /\ wait_timer_is_set'[u] = wait_timer_is_set[u] /\ wait_timer_active'[u] = wait_timer_active[u]
    /\ (u \in armed') = (u \in armed) /\ firing'[u] = firing[u]
    /\ clearing'[u]["abort"] = clearing[u]["abort"]
    /\ pc'[u] = pc[u] /\ req'[u] = req[u] /\ due'[u] = due[u]

\* A thread whose fields stay keeps its invariant.
LEMMA SameKeeps == ASSUME NEW u \in Threads, ThreadInv(u), Same(u) PROVE ThreadInv(u)'
  BY Zenon DEF Same, ThreadInv, TimerCounted, WaitKnown, NoWait, ExpiredIsDue, AbortUnderWay

-----------------------------------------------------------------------------
(* The operations of ThreadWait. *)

\* What is left of thread u when it is among the threads of S whose wait ends,
\* and that others keep their wait and their timer.
Ended(u, S) ==
    /\ u \in S => /\ state'[u] = {"RUN"} /\ waitq'[u] = None
                  /\ ~wait_timer_is_set'[u] /\ u \notin armed'
                  /\ wait_timer_active'[u] = firing'[u] /\ firing'[u] = firing[u]
    /\ u \notin S => /\ state'[u] = state[u] /\ waitq'[u] = waitq[u]
                     /\ wait_timer_is_set'[u] = wait_timer_is_set[u]
                     /\ (u \in armed') = (u \in armed)
                     /\ wait_timer_active'[u] = wait_timer_active[u] /\ firing'[u] = firing[u]

\* Run and CancelTimers: whoever wakes a set of threads stops their timers, and
\* leaves the callouts in flight counted.
LEMMA RunEnds ==
    ASSUME WaitTypes, NEW S, NEW r \in Results,
           \A u \in Threads : TimerCounted(u),
           Run(S, r), CancelTimers(S)
    PROVE  /\ \A u \in Threads : Ended(u, S)
           /\ state' \in [Threads -> SUBSET {"WAIT", "UNINT", "RUN"}]
           /\ wait_result' \in [Threads -> Results]
           /\ waitq' \in [Threads -> Waitqs \cup {None}]
           /\ wait_timer_is_set' \in [Threads -> BOOLEAN]
           /\ wait_timer_active' \in [Threads -> Nat]
           /\ armed' \in SUBSET Threads
           /\ firing' \in [Threads -> Nat]
<1>1. ASSUME NEW u \in Threads PROVE Ended(u, S)
  <2>1. TimerCounted(u)
    BY <1>1, Zenon
  <2>2. CASE u \in S
    <3>1. state'[u] = {"RUN"} /\ waitq'[u] = None /\ firing'[u] = firing[u]
      BY <1>1, <2>2, Zenon DEF Run, CancelTimers
    <3>2. wait_timer_is_set'[u] = (wait_timer_is_set[u] /\ u \notin S)
      BY <1>1, Zenon DEF CancelTimers
    <3>3. ~wait_timer_is_set'[u] /\ u \notin armed'
      BY <1>1, <2>1, <2>2, <3>2, Zenon DEF CancelTimers, TimerCounted
    <3>4. ASSUME u \in armed PROVE wait_timer_active'[u] = firing[u]
      BY <1>1, <2>1, <2>2, <3>4 DEF CancelTimers, TimerCounted, WaitTypes
    <3>5. ASSUME u \notin armed PROVE wait_timer_active'[u] = firing[u]
      BY <1>1, <2>1, <2>2, <3>5 DEF CancelTimers, TimerCounted, WaitTypes
    <3> QED
      BY <2>2, <3>1, <3>3, <3>4, <3>5, Zenon DEF Ended
  <2>3. CASE u \notin S
    BY <1>1, <2>3 DEF Run, CancelTimers, Ended, WaitTypes
  <2> QED
    BY <2>2, <2>3, Zenon
<1>2. wait_timer_active' \in [Threads -> Nat]
  BY DEF CancelTimers, WaitTypes, TimerCounted
<1> QED
  BY <1>1, <1>2, Zenon DEF Run, CancelTimers, WaitTypes

\* Threads whose wait ends keep their invariant, and so do the others.
LEMMA EndedKeeps ==
    ASSUME NEW u \in Threads, NEW S, WaitTypes, ThreadInv(u), Ended(u, S),
           pc'[u] \in {"assert", "wake"} => req'[u] \in Calls,
           u \notin S /\ NoWait(u)' => NoWait(u),
           due'[u] = due[u], sched_flags'[u] = sched_flags[u],
           clearing'[u]["abort"] = clearing[u]["abort"]
    PROVE  ThreadInv(u)'
<1>1. CASE u \in S
  <2>1. TimerCounted(u)'
    BY <1>1 DEF Ended, TimerCounted, WaitTypes
  <2>2. WaitKnown(u)'
    BY <1>1, Zenon DEF Ended, WaitKnown
  <2> QED
    BY <1>1, <2>1, <2>2, Zenon DEF Ended, ThreadInv, ExpiredIsDue, AbortUnderWay
<1>2. CASE u \notin S
  <2>1. TimerCounted(u)'
    BY <1>2, Zenon DEF Ended, TimerCounted, ThreadInv
  <2>2. WaitKnown(u)'
    BY <1>2, Zenon DEF Ended, WaitKnown, ThreadInv
  <2> QED
    BY <1>2, <2>1, <2>2, Zenon DEF Ended, ThreadInv, ExpiredIsDue, AbortUnderWay
<1> QED
  BY <1>1, <1>2, Zenon

-----------------------------------------------------------------------------
(* The steps of a thread. *)

\* No thread waits at the start.
LEMMA InitIInv == Init => IInv
<1> SUFFICES ASSUME Init PROVE IInv
  BY Zenon
<1>1. WaitTypes /\ ClientTypes
  BY ThreadWaitConstants, Zenon DEF Init, WaitInit, WaitTypes, ClientTypes, Results, Pcs
<1>2. ASSUME NEW t \in Threads PROVE ThreadInv(t)
  BY <1>2 DEF Init, WaitInit, ThreadInv, TimerCounted, WaitKnown, NoWait, ExpiredIsDue, AbortUnderWay
<1> QED
  BY <1>1, <1>2, Zenon DEF IInv

\* assert_wait, up to the queue's lock.
LEMMA AssertStep ==
    ASSUME IInv, NEW t \in Threads, NEW w \in Waits[t], assert_wait(t, w)
    PROVE  IInv'
<1>1. w \in [event : Events, level : Levels, timed : BOOLEAN]
  BY EventWaitConstants, Zenon
<1>2. WaitTypes'
  BY Zenon DEF IInv, assert_wait, LockQueue, WaitTypes, threadVars, queueVars, timerVars
<1>3. ClientTypes' /\ req'[t] \in Calls
  BY <1>1, Zenon DEF IInv, assert_wait, LockQueue, ClientTypes, Goto, Pcs, Calls
<1>4. ASSUME NEW u \in Threads PROVE ThreadInv(u)'
  <2>1. CASE u = t
    BY <1>3, <1>4, <2>1, Zenon DEF IInv, assert_wait, LockQueue, threadVars, timerVars, Goto, ClientTypes, ThreadInv,
       TimerCounted, WaitKnown, NoWait, ExpiredIsDue, AbortUnderWay
  <2>2. CASE u # t
    <3>1. Same(u)
      BY <1>4, <2>2, Zenon DEF IInv, assert_wait, LockQueue, threadVars, timerVars, Goto, ClientTypes, Same
    <3> QED
      BY <1>4, <3>1, SameKeeps, Zenon DEF IInv
  <2> QED
    BY <2>1, <2>2, Zenon
<1> QED
  BY <1>2, <1>3, <1>4, Zenon DEF IInv

\* thread_wakeup_prim, up to the queue's lock.
LEMMA WakeStep ==
    ASSUME IInv, NEW t \in Threads, NEW e \in Events, NEW one \in BOOLEAN, thread_wakeup_prim(t, e, one)
    PROVE  IInv'
<1>2. WaitTypes'
  BY Zenon DEF IInv, thread_wakeup_prim, LockQueue, WaitTypes, threadVars, queueVars, timerVars
<1>3. ClientTypes' /\ req'[t] \in Calls /\ req'[t].back = pc[t]
  BY Zenon DEF IInv, thread_wakeup_prim, LockQueue, ClientTypes, Goto, Pcs, Calls, Levels
<1>4. ASSUME NEW u \in Threads PROVE ThreadInv(u)'
  <2>1. CASE u = t
    BY <1>3, <1>4, <2>1, Zenon DEF IInv, thread_wakeup_prim, LockQueue, threadVars, timerVars, Goto, ClientTypes, ThreadInv,
       TimerCounted, WaitKnown, NoWait, ExpiredIsDue, AbortUnderWay
  <2>2. CASE u # t
    <3>1. Same(u)
      BY <1>4, <2>2, Zenon DEF IInv, thread_wakeup_prim, LockQueue, threadVars, timerVars, Goto, ClientTypes, Same
    <3> QED
      BY <1>4, <3>1, SameKeeps, Zenon DEF IInv
  <2> QED
    BY <2>1, <2>2, Zenon
<1> QED
  BY <1>2, <1>3, <1>4, Zenon DEF IInv

\* The wait is declared, or refused to an aborted thread.
LEMMA AssertLockedStep ==
    ASSUME IInv, NEW t \in Threads, waitq_assert_wait64(t)
    PROVE  IInv'
<1> DEFINE q == global_eventq[req[t].event]
           e == req[t].event
           level == req[t].level
           timed == req[t].timed
<1>1. req[t] \in Calls /\ q \in Waitqs /\ level \in Levels /\ timed \in BOOLEAN
  BY EventWaitConstants, ThreadWaitConstants, Zenon DEF IInv, ThreadInv, WaitKnown, waitq_assert_wait64, Calls
<1>2. waitq[t] = None /\ ~wait_timer_is_set[t] /\ "WAIT" \notin state[t] /\ t \notin armed
  BY Zenon DEF IInv, ThreadInv, WaitKnown, NoWait, TimerCounted, waitq_assert_wait64
<1>3. ClientTypes'
  BY Zenon DEF IInv, ClientTypes, waitq_assert_wait64, Goto, Pcs
<1>4. pc'[t] = "asserted" /\ ~due'[t] /\ ~NoWait(t)' /\ clearing' = clearing
  BY Zenon DEF IInv, ClientTypes, waitq_assert_wait64, Goto, NoWait
<1>5. \A u \in Threads : u # t => pc'[u] = pc[u] /\ req'[u] = req[u] /\ due'[u] = due[u]
  BY Zenon DEF IInv, ClientTypes, waitq_assert_wait64, Goto
<1>6. waitq_assert_wait64_locked(t, q, e, level, timed)
  BY Zenon DEF waitq_assert_wait64
<1>7. CASE MayWait(t, level)
  <2>1. /\ state' = [state EXCEPT ![t] = @ \cup {"WAIT"} \cup (IF level = "UNINT" THEN {"UNINT"} ELSE {})]
        /\ wait_result' = [wait_result EXCEPT ![t] = "WAITING"]
        /\ waitq' = [waitq EXCEPT ![t] = q]
        /\ SetTimer(t, timed)
        /\ sched_flags' = sched_flags
    BY <1>6, <1>7, Zenon DEF waitq_assert_wait64_locked
  <2>2. WaitTypes'
    <3>1. wait_timer_active' \in [Threads -> Nat] /\ firing' \in [Threads -> Nat]
      BY <2>1 DEF SetTimer, IInv, WaitTypes
    <3>2. wait_timer_is_set' \in [Threads -> BOOLEAN] /\ armed' \in SUBSET Threads
      BY <2>1, <1>1, Zenon DEF SetTimer, IInv, WaitTypes
    <3>3. state' \in [Threads -> SUBSET {"WAIT", "UNINT", "RUN"}]
      BY <2>1, Zenon DEF IInv, WaitTypes
    <3> QED
      BY <1>1, <1>4, <2>1, <3>1, <3>2, <3>3, Zenon DEF IInv, WaitTypes, Results
  <2>3. ASSUME NEW u \in Threads, u # t PROVE ThreadInv(u)'
    <3>1. (u \in armed') = (u \in armed)
      BY <2>1, <2>3 DEF SetTimer
    <3>2. Same(u)
      BY <1>4, <1>5, <2>1, <2>3, <3>1, Zenon DEF Same, SetTimer, IInv, WaitTypes
    <3> QED
      BY <2>3, <3>2, SameKeeps, Zenon DEF IInv
  <2>4. TimerCounted(t)'
    <3>1. wait_timer_active[t] = firing[t] /\ firing'[t] = firing[t] /\ firing[t] \in Nat
      BY <1>2, <2>1 DEF IInv, ThreadInv, TimerCounted, WaitTypes, SetTimer
    <3>2. waitq'[t] # None
      BY <1>1, <2>1, ThreadWaitConstants, Zenon DEF IInv, WaitTypes
    <3>3. wait_timer_is_set'[t] = timed /\ (t \in armed') = timed
      BY <1>1, <1>2, <2>1 DEF SetTimer, IInv, WaitTypes
    <3>4. wait_timer_active'[t] = IF timed THEN wait_timer_active[t] + 1 ELSE wait_timer_active[t]
      BY <1>1, <1>2, <2>1, Zenon DEF SetTimer, IInv, WaitTypes
    <3> QED
      BY <1>1, <3>1, <3>2, <3>3, <3>4 DEF TimerCounted
  <2>5. WaitKnown(t)'
    BY <1>1, <1>4, <2>1, ThreadWaitConstants DEF WaitKnown, IInv, WaitTypes
  <2>6. ExpiredIsDue(t)'
    BY <1>1, <1>2, <2>1, Zenon DEF ExpiredIsDue, SetTimer, IInv, WaitTypes
  <2>7. AbortUnderWay(t)'
    <3>1. CASE level = "UNINT"
      BY <2>1, <3>1 DEF AbortUnderWay, IInv, WaitTypes
    <3>2. CASE level # "UNINT"
      BY <1>7, <2>1, <3>2 DEF AbortUnderWay, MayWait
    <3> QED
      BY <3>1, <3>2, Zenon
  <2> QED
    BY <1>3, <2>2, <2>3, <2>4, <2>5, <2>6, <2>7, Zenon DEF IInv, ThreadInv
<1>8. CASE ~MayWait(t, level)
  <2>1. /\ wait_result' = [wait_result EXCEPT ![t] = "INTERRUPTED"]
        /\ sched_flags' = [sched_flags EXCEPT ![t] = IF "ABORTSAFELY" \in @ THEN {} ELSE @]
        /\ UNCHANGED <<state, waitq, timerVars>>
    BY <1>6, <1>8, Zenon DEF waitq_assert_wait64_locked
  <2>2. WaitTypes'
    BY <1>4, <2>1, Zenon DEF IInv, WaitTypes, Results, timerVars
  <2>3. ASSUME NEW u \in Threads, u # t PROVE ThreadInv(u)'
    <3>1. Same(u)
      BY <1>4, <1>5, <2>1, <2>3, Zenon DEF Same, timerVars, IInv, WaitTypes
    <3> QED
      BY <2>3, <3>1, SameKeeps, Zenon DEF IInv
  <2>4. ThreadInv(t)'
    BY <1>2, <1>4, <2>1, Zenon DEF IInv, timerVars, ThreadInv, TimerCounted, WaitKnown, ExpiredIsDue, AbortUnderWay
  <2> QED
    BY <1>3, <2>2, <2>3, <2>4, Zenon DEF IInv
<1> QED
  BY <1>7, <1>8, Zenon

\* A wakeup: the woken threads keep their invariant, and the waker goes on.
LEMMA WakeLockedStep ==
    ASSUME IInv, NEW t \in Threads, waitq_wakeup64(t)
    PROVE  IInv'
<1>1. req[t] \in Calls /\ pc[t] = "wake"
  BY Zenon DEF IInv, ThreadInv, WaitKnown, waitq_wakeup64
<1>2. PICK S : Run(S, "AWAKENED") /\ CancelTimers(S)
  BY Zenon DEF waitq_wakeup64, waitq_wakeup64_one_locked, waitq_wakeup64_all_locked, waitq_wakeup64_locked
<1>3. ClientTypes'
  BY <1>1, Zenon DEF IInv, ClientTypes, waitq_wakeup64, Goto, Calls, Pcs
<1>4. /\ \A u \in Threads : Ended(u, S)
      /\ WaitTypes'
  BY <1>2, RunEnds, Zenon DEF IInv, ThreadInv, WaitTypes, Results, waitq_wakeup64
<1>5. ASSUME NEW u \in Threads PROVE ThreadInv(u)'
  <2>1. due'[u] = due[u] /\ sched_flags'[u] = sched_flags[u] /\ clearing'[u]["abort"] = clearing[u]["abort"]
    BY Zenon DEF waitq_wakeup64
  <2>2. pc'[u] \in {"assert", "wake"} => req'[u] \in Calls
    BY <1>1, <1>5, Zenon DEF waitq_wakeup64, Goto, IInv, ClientTypes, ThreadInv, WaitKnown, Calls
  <2>3. ASSUME u \notin S, NoWait(u)' PROVE NoWait(u)
    <3>1. CASE u = t
      BY <1>1, <1>5, <2>3, <3>1, Zenon DEF waitq_wakeup64, Goto, IInv, ClientTypes, NoWait, Calls
    <3>2. CASE u # t
      BY <1>4, <1>5, <2>3, <3>2, Zenon DEF waitq_wakeup64, Goto, IInv, ClientTypes, NoWait, Ended
    <3> QED
      BY <3>1, <3>2, Zenon
  <2> QED
    BY <1>4, <1>5, <2>1, <2>2, <2>3, EndedKeeps, Zenon DEF IInv
<1> QED
  BY <1>3, <1>4, <1>5, Zenon DEF IInv

\* thread_block, its return and the way out of the kernel.
LEMMA BlockStep ==
    ASSUME IInv, NEW t \in Threads, thread_block(t) \/ Resume(t) \/ Return(t)
    PROVE  IInv'
<1> USE DEF Dispatch, special_handler, Goto, waitVars, threadVars, queueVars, timerVars
<1>1. WaitTypes'
  <2>1. CASE thread_block(t)
    <3>1. state' \in [Threads -> SUBSET {"WAIT", "UNINT", "RUN"}]
      BY <2>1, Zenon DEF IInv, WaitTypes, thread_block
    <3> QED
      BY <2>1, <3>1, Zenon DEF IInv, WaitTypes, thread_block
  <2>2. CASE Resume(t)
    BY <2>2, Zenon DEF IInv, WaitTypes, Resume
  <2>3. CASE Return(t)
    BY <2>3, Zenon DEF IInv, WaitTypes, Return
  <2> QED
    BY <2>1, <2>2, <2>3, Zenon
<1>2. ClientTypes'
  BY Zenon DEF IInv, ClientTypes, Pcs, thread_block, Resume, Return
<1>3. ASSUME NEW u \in Threads, u # t PROVE ThreadInv(u)'
  <2>1. Same(u)
    BY <1>3, Zenon DEF IInv, WaitTypes, ClientTypes, thread_block, Resume, Return, Same
  <2> QED
    BY <1>3, <2>1, SameKeeps, Zenon DEF IInv
<1>4. ThreadInv(t) /\ state[t] \in SUBSET {"WAIT", "UNINT", "RUN"}
  BY Zenon DEF IInv, WaitTypes
<1>5. ASSUME thread_block(t) PROVE ThreadInv(t)'
  <2>1. pc[t] = "asserted" /\ pc'[t] = "blocked"
        /\ state'[t] = IF "WAIT" \in state[t] THEN state[t] \ {"RUN"} ELSE state[t]
    BY <1>5, Zenon DEF IInv, WaitTypes, ClientTypes, thread_block
  <2>2. "WAIT" \in state'[t] <=> "WAIT" \in state[t]
    BY <2>1, Zenon
  <2>3. "UNINT" \in state'[t] <=> "UNINT" \in state[t]
    BY <2>1, Zenon
  <2>4. NoWait(t)' => "WAIT" \notin state[t]
    BY <2>1, Zenon DEF NoWait
  <2> QED
    BY <1>4, <1>5, <2>1, <2>2, <2>3, <2>4, Zenon DEF thread_block, ThreadInv, TimerCounted, WaitKnown, ExpiredIsDue, AbortUnderWay
<1>6. ASSUME Resume(t) PROVE ThreadInv(t)'
  BY <1>4, <1>6, Zenon DEF Resume, ThreadInv, TimerCounted, WaitKnown, NoWait, ExpiredIsDue, AbortUnderWay, IInv, ClientTypes
<1>7. ASSUME Return(t) PROVE ThreadInv(t)'
  BY <1>4, <1>7, Zenon DEF Return, ThreadInv, TimerCounted, WaitKnown, NoWait, ExpiredIsDue, AbortUnderWay, IInv, WaitTypes
<1> QED
  BY <1>1, <1>2, <1>3, <1>5, <1>6, <1>7, Zenon DEF IInv

-----------------------------------------------------------------------------
(* What happens to a thread from outside. *)

\* The clock takes a timer off its queue: the callout stays counted, and is due.
LEMMA ExpireStep ==
    ASSUME IInv, NEW t \in Threads, Expire(t)
    PROVE  IInv'
<1> USE DEF timer_queue_expire, threadVars, queueVars
<1>1. WaitTypes'
  BY DEF IInv, WaitTypes, Expire
<1>2. ClientTypes'
  BY Zenon DEF IInv, ClientTypes, Expire
<1>3. ASSUME NEW u \in Threads, u # t PROVE ThreadInv(u)'
  <2>1. Same(u)
    BY <1>3 DEF IInv, WaitTypes, ClientTypes, Expire, Same
  <2> QED
    BY <1>3, <2>1, SameKeeps, Zenon DEF IInv
<1>4. TimerCounted(t)'
  BY DEF Expire, IInv, ThreadInv, TimerCounted, WaitTypes
<1>5. WaitKnown(t)' /\ ExpiredIsDue(t)' /\ AbortUnderWay(t)'
  BY Zenon DEF Expire, IInv, ThreadInv, WaitKnown, NoWait, ExpiredIsDue, AbortUnderWay, ClientTypes
<1> QED
  BY <1>1, <1>2, <1>3, <1>4, <1>5, Zenon DEF IInv, ThreadInv

\* The state and the queue of a thread after one turn of clear_wait_internal.
LEMMA TurnEnds ==
    ASSUME WaitTypes, NEW t \in Threads, NEW kind \in Kinds, ClearTurn(t, kind)
    PROVE  /\ state' = [state EXCEPT ![t] = IF Rousts(t, kind) THEN {"RUN"} ELSE @]
           /\ waitq' = [waitq EXCEPT ![t] = IF Rousts(t, kind) THEN None ELSE @]
           /\ wait_result' \in [Threads -> Results]
           /\ wait_result' = [wait_result EXCEPT ![t] = IF Rousts(t, kind) THEN ResultOf(kind) ELSE @]
           /\ clearing' \in [Threads -> [Kinds -> Waitqs \cup {None, Start}]]
           /\ \A u \in Threads, k \in Kinds :
                 clearing'[u][k] = IF u = t /\ k = kind
                                   THEN IF Retries(t, kind) THEN waitq[t] ELSE None
                                   ELSE clearing[u][k]
<1>1. /\ clearing' \in [Threads -> [Kinds -> Waitqs \cup {None, Start}]]
      /\ \A u \in Threads, k \in Kinds :
            clearing'[u][k] = IF u = t /\ k = kind
                              THEN IF Retries(t, kind) THEN waitq[t] ELSE None
                              ELSE clearing[u][k]
  BY Zenon DEF ClearTurn, WaitTypes
<1>2. CASE Rousts(t, kind)
  <2>1. Run({t}, ResultOf(kind)) /\ ResultOf(kind) \in Results
    BY <1>2, Zenon DEF ClearTurn, ResultOf, Results
  <2>2. state' = [state EXCEPT ![t] = {"RUN"}] /\ waitq' = [waitq EXCEPT ![t] = None]
        /\ wait_result' = [wait_result EXCEPT ![t] = ResultOf(kind)]
    BY <2>1, Zenon DEF Run, WaitTypes
  <2> QED
    BY <1>1, <1>2, <2>1, <2>2, Zenon DEF WaitTypes
<1>3. CASE ~Rousts(t, kind)
  BY <1>1, <1>3 DEF ClearTurn, WaitTypes, threadVars
<1> QED
  BY <1>2, <1>3, Zenon

\* The callout of the wait timer.
LEMMA CalloutStep ==
    ASSUME IInv, NEW t \in Threads, Callout(t)
    PROVE  IInv'
<1> USE DEF threadVars, queueVars
<1>1. /\ firing[t] > 0
      /\ firing' = [firing EXCEPT ![t] = @ - 1]
      /\ wait_timer_active' = [wait_timer_active EXCEPT ![t] = @ - 1]
      /\ UNCHANGED <<armed, sched_flags, pc, req, due>>
  BY Zenon DEF Callout, thread_timer_expire
<1>2. ClientTypes'
  BY <1>1, Zenon DEF IInv, ClientTypes
<1>3. ThreadInv(t) /\ firing[t] \in Nat /\ wait_timer_active[t] \in Nat
      /\ wait_timer_active[t] = firing[t] + (IF t \in armed THEN 1 ELSE 0)
  BY Zenon DEF IInv, WaitTypes, ThreadInv, TimerCounted
<1>4. firing' \in [Threads -> Nat] /\ wait_timer_active' \in [Threads -> Nat]
  BY <1>1, <1>3 DEF IInv, WaitTypes
<1>5. CASE wait_timer_active[t] = 1 /\ wait_timer_is_set[t]
  <2>1. wait_timer_is_set' = [wait_timer_is_set EXCEPT ![t] = FALSE] /\ ClearTurn(t, "timer")
    BY <1>5, Zenon DEF Callout, thread_timer_expire
  <2>2. /\ state' = [state EXCEPT ![t] = IF Rousts(t, "timer") THEN {"RUN"} ELSE @]
        /\ waitq' = [waitq EXCEPT ![t] = IF Rousts(t, "timer") THEN None ELSE @]
        /\ wait_result' \in [Threads -> Results]
        /\ clearing' \in [Threads -> [Kinds -> Waitqs \cup {None, Start}]]
        /\ \A u \in Threads : clearing'[u]["abort"] = clearing[u]["abort"]
    BY <2>1, TurnEnds DEF IInv, Kinds
  <2>3. WaitTypes'
    BY <1>1, <1>4, <2>1, <2>2, Zenon DEF IInv, WaitTypes
  <2>4. ASSUME NEW u \in Threads, u # t PROVE ThreadInv(u)'
    <3>1. Same(u)
      BY <1>1, <2>1, <2>2, <2>4, Zenon DEF IInv, WaitTypes, Same
    <3> QED
      BY <2>4, <3>1, SameKeeps, Zenon DEF IInv
  <2>5. wait_timer_active'[t] = 0 /\ firing'[t] = 0 /\ t \notin armed' /\ ~wait_timer_is_set'[t]
    BY <1>1, <1>3, <1>5, <2>1 DEF IInv, WaitTypes
  <2>6. ThreadInv(t)'
    <3>1. CASE Rousts(t, "timer")
      <4>1. state'[t] = {"RUN"} /\ waitq'[t] = None
        BY <2>2, <3>1, Zenon DEF IInv, WaitTypes
      <4> QED
        BY <1>1, <1>3, <2>5, <4>1 DEF ThreadInv, TimerCounted, WaitKnown, ExpiredIsDue, AbortUnderWay
    <3>2. CASE ~Rousts(t, "timer")
      <4>1. state'[t] = state[t] /\ waitq'[t] = waitq[t]
        BY <2>2, <3>2, Zenon DEF IInv, WaitTypes
      <4> QED
        BY <1>1, <1>3, <2>2, <2>5, <4>1 DEF ThreadInv, TimerCounted, WaitKnown, NoWait, ExpiredIsDue, AbortUnderWay
    <3> QED
      BY <3>1, <3>2, Zenon
  <2> QED
    BY <1>2, <2>3, <2>4, <2>6, Zenon DEF IInv
<1>6. CASE ~(wait_timer_active[t] = 1 /\ wait_timer_is_set[t])
  <2>1. UNCHANGED <<threadVars, clearing, wait_timer_is_set>>
    BY <1>6, Zenon DEF Callout, thread_timer_expire
  <2>2. WaitTypes'
    BY <1>1, <1>4, <2>1, Zenon DEF IInv, WaitTypes
  <2>3. ASSUME NEW u \in Threads, u # t PROVE ThreadInv(u)'
    <3>1. Same(u)
      BY <1>1, <2>1, <2>3, Zenon DEF IInv, WaitTypes, Same
    <3> QED
      BY <2>3, <3>1, SameKeeps, Zenon DEF IInv
  <2>4. wait_timer_active'[t] = wait_timer_active[t] - 1 /\ firing'[t] = firing[t] - 1
    BY <1>1, Zenon DEF IInv, WaitTypes
  <2>5. TimerCounted(t)'
    BY <1>1, <1>3, <1>6, <2>1, <2>4 DEF ThreadInv, TimerCounted
  <2>6. WaitKnown(t)' /\ ExpiredIsDue(t)' /\ AbortUnderWay(t)'
    BY <1>1, <1>3, <2>1, Zenon DEF ThreadInv, WaitKnown, NoWait, ExpiredIsDue, AbortUnderWay
  <2> QED
    BY <1>2, <2>2, <2>3, <2>5, <2>6, Zenon DEF IInv, ThreadInv
<1> QED
  BY <1>5, <1>6, Zenon

\* A turn for t that stops its timer when it ends the wait keeps the
\* invariant, whatever else it notes in the flags of t.
LEMMA TurnKeeps ==
    ASSUME IInv, NEW t \in Threads, NEW kind \in Kinds, ClearTurn(t, kind),
           IF Rousts(t, kind) THEN CancelTimers({t}) ELSE UNCHANGED timerVars,
           UNCHANGED <<pc, req, due>>,
           sched_flags' \in [Threads -> SUBSET {"ABORT", "ABORTSAFELY"}],
           \A u \in Threads : u # t => sched_flags'[u] = sched_flags[u],
           sched_flags'[t] = {"ABORT"} => sched_flags[t] = {"ABORT"}
    PROVE  IInv'
<1>1. /\ state' = [state EXCEPT ![t] = IF Rousts(t, kind) THEN {"RUN"} ELSE @]
      /\ waitq' = [waitq EXCEPT ![t] = IF Rousts(t, kind) THEN None ELSE @]
      /\ wait_result' \in [Threads -> Results]
      /\ clearing' \in [Threads -> [Kinds -> Waitqs \cup {None, Start}]]
      /\ \A u \in Threads, k \in Kinds :
            clearing'[u][k] = IF u = t /\ k = kind
                              THEN IF Retries(t, kind) THEN waitq[t] ELSE None
                              ELSE clearing[u][k]
  BY TurnEnds DEF IInv
<1>2. ClientTypes'
  BY Zenon DEF IInv, ClientTypes
<1>3. ThreadInv(t) /\ "abort" \in Kinds /\ (\A u \in Threads : ThreadInv(u))
  BY Zenon DEF IInv, Kinds
<1>4. CASE Rousts(t, kind)
  <2>1. Run({t}, ResultOf(kind)) /\ ResultOf(kind) \in Results /\ CancelTimers({t})
    BY <1>4, Zenon DEF ClearTurn, ResultOf, Results
  <2>2. /\ \A u \in Threads : Ended(u, {t})
        /\ WaitTypes'
    BY <1>1, <2>1, RunEnds, Zenon DEF IInv, ThreadInv, WaitTypes
  <2>3. ASSUME NEW u \in Threads, u # t PROVE ThreadInv(u)'
    BY <1>1, <1>3, <2>2, <2>3, SMTT(20) DEF Ended, ThreadInv, TimerCounted, WaitKnown, NoWait, ExpiredIsDue, AbortUnderWay
  <2>4. ThreadInv(t)'
    BY <1>3, <2>2 DEF Ended, ThreadInv, TimerCounted, WaitKnown, ExpiredIsDue, AbortUnderWay, WaitTypes
  <2> QED
    BY <1>2, <2>2, <2>3, <2>4, Zenon DEF IInv
<1>5. CASE ~Rousts(t, kind)
  <2>1. state' = state /\ waitq' = waitq /\ UNCHANGED timerVars
    BY <1>1, <1>5, Zenon DEF IInv, WaitTypes
  <2>2. WaitTypes'
    BY <1>1, <2>1, Zenon DEF IInv, WaitTypes, timerVars
  <2>3. ASSUME NEW u \in Threads, u # t PROVE ThreadInv(u)'
    <3>1. Same(u)
      BY <1>1, <1>3, <2>1, <2>3, Zenon DEF Same, timerVars
    <3> QED
      BY <1>3, <2>3, <3>1, SameKeeps, Zenon
  <2>4. TimerCounted(t)' /\ WaitKnown(t)' /\ ExpiredIsDue(t)'
    BY <1>3, <2>1, Zenon DEF timerVars, ThreadInv, TimerCounted, WaitKnown, NoWait, ExpiredIsDue
  <2>5. AbortUnderWay(t)'
    <3>1. CASE kind = "abort" /\ "WAIT" \in state[t] /\ "UNINT" \notin state[t]
      BY <1>1, <1>5, <2>1, <3>1, Zenon DEF AbortUnderWay, Rousts, Retries, Refused
    <3>2. CASE kind # "abort"
      BY <1>1, <1>3, <2>1, <3>2, Zenon DEF AbortUnderWay, ThreadInv
    <3>3. CASE ~("WAIT" \in state[t] /\ "UNINT" \notin state[t])
      BY <2>1, <3>3, Zenon DEF AbortUnderWay
    <3> QED
      BY <3>1, <3>2, <3>3, Zenon
  <2> QED
    BY <1>2, <2>2, <2>3, <2>4, <2>5, Zenon DEF IInv, ThreadInv
<1> QED
  BY <1>4, <1>5, Zenon

\* What thread_abort_safely leaves in the flags.
LEMMA AbortLaterFlags ==
    ASSUME WaitTypes, NEW t \in Threads, AbortLater(t)
    PROVE  /\ sched_flags' \in [Threads -> SUBSET {"ABORT", "ABORTSAFELY"}]
           /\ \A u \in Threads : u # t => sched_flags'[u] = sched_flags[u]
           /\ sched_flags'[t] = {"ABORT"} => sched_flags[t] = {"ABORT"}
<1>1. sched_flags' = [sched_flags EXCEPT ![t] = IF "ABORT" \in @ THEN @ ELSE {"ABORT", "ABORTSAFELY"}]
  BY Zenon DEF AbortLater
<1>2. {"ABORT", "ABORTSAFELY"} # {"ABORT"}
  OBVIOUS
<1> QED
  BY <1>1, <1>2, Zenon DEF WaitTypes

\* The same for a step that leaves the wait and the timer of t alone.
LEMMA FlagsKeep ==
    ASSUME IInv, NEW t \in Threads, UNCHANGED <<threadVars, timerVars, pc, req, due>>,
           sched_flags' \in [Threads -> SUBSET {"ABORT", "ABORTSAFELY"}],
           clearing' \in [Threads -> [Kinds -> Waitqs \cup {None, Start}]],
           \A u \in Threads : u # t => sched_flags'[u] = sched_flags[u] /\ clearing'[u] = clearing[u],
           AbortUnderWay(t)'
    PROVE  IInv'
<1> USE DEF threadVars, timerVars
<1>1. WaitTypes' /\ ClientTypes'
  BY Zenon DEF IInv, WaitTypes, ClientTypes
<1>2. ASSUME NEW u \in Threads, u # t PROVE ThreadInv(u)'
  <2>1. Same(u)
    BY <1>2, Zenon DEF Same
  <2> QED
    BY <1>2, <2>1, SameKeeps, Zenon DEF IInv
<1>3. TimerCounted(t)' /\ WaitKnown(t)' /\ ExpiredIsDue(t)'
  BY Zenon DEF IInv, ThreadInv, TimerCounted, WaitKnown, NoWait, ExpiredIsDue
<1> QED
  BY <1>1, <1>2, <1>3, Zenon DEF IInv, ThreadInv

\* thread_abort up to its clear_wait, and thread_abort_safely.
LEMMA AbortStep ==
    ASSUME IInv, NEW t \in Threads, Abort(t), UNCHANGED <<pc, req, due>>
    PROVE  IInv'
<1>1. ASSUME act_abort(t) PROVE IInv'
  <2>1. /\ UNCHANGED <<threadVars, timerVars>>
        /\ clearing' = [clearing EXCEPT ![t]["abort"] = Start]
        /\ sched_flags' = [sched_flags EXCEPT ![t] = IF "ABORT" \in @ THEN {"ABORT"} ELSE @ \cup {"ABORT"}]
    BY <1>1, Zenon DEF act_abort
  <2>2. /\ sched_flags' \in [Threads -> SUBSET {"ABORT", "ABORTSAFELY"}]
        /\ \A u \in Threads : u # t => sched_flags'[u] = sched_flags[u]
    BY <2>1, Zenon DEF IInv, WaitTypes
  <2>3. /\ clearing' \in [Threads -> [Kinds -> Waitqs \cup {None, Start}]]
        /\ \A u \in Threads : u # t => clearing'[u] = clearing[u]
        /\ clearing'[t]["abort"] = Start
    BY <2>1, Zenon DEF IInv, WaitTypes, Kinds
  <2> QED
    BY <2>1, <2>2, <2>3, FlagsKeep, Zenon DEF AbortUnderWay
<1>2. ASSUME thread_abort_safely(t) PROVE IInv'
  <2>1. CASE at_safe_point[t]
    <3>1. /\ ClearTurn(t, "safely")
          /\ IF Rousts(t, "safely") THEN CancelTimers({t}) ELSE UNCHANGED timerVars
          /\ sched_flags' = sched_flags \/ AbortLater(t)
      BY <1>2, <2>1, Zenon DEF thread_abort_safely
    <3>2. /\ sched_flags' \in [Threads -> SUBSET {"ABORT", "ABORTSAFELY"}]
          /\ \A u \in Threads : u # t => sched_flags'[u] = sched_flags[u]
          /\ sched_flags'[t] = {"ABORT"} => sched_flags[t] = {"ABORT"}
      BY <3>1, AbortLaterFlags, Zenon DEF IInv, WaitTypes
    <3>3. "safely" \in Kinds
      BY Zenon DEF Kinds
    <3> QED
      BY <3>1, <3>2, <3>3, TurnKeeps, Zenon
  <2>2. CASE ~at_safe_point[t]
    <3>1. AbortLater(t) /\ UNCHANGED <<threadVars, timerVars, clearing>>
      BY <1>2, <2>2, Zenon DEF thread_abort_safely
    <3>2. /\ sched_flags' \in [Threads -> SUBSET {"ABORT", "ABORTSAFELY"}]
          /\ \A u \in Threads : u # t => sched_flags'[u] = sched_flags[u]
          /\ sched_flags'[t] = {"ABORT"} => sched_flags[t] = {"ABORT"}
      BY <3>1, AbortLaterFlags, Zenon DEF IInv
    <3>3. AbortUnderWay(t)'
      BY <3>1, <3>2, Zenon DEF IInv, ThreadInv, AbortUnderWay, threadVars
    <3> QED
      BY <3>1, <3>2, <3>3, FlagsKeep, Zenon DEF IInv, WaitTypes
  <2> QED
    BY <2>1, <2>2, Zenon
<1> QED
  BY <1>1, <1>2, Zenon DEF Abort

\* clear_wait_internal, begun or after a failed try.
LEMMA ClearStep ==
    ASSUME IInv, NEW t \in Threads, NEW kind \in Kinds, Clear(t, kind)
    PROVE  IInv'
<1>0. clear_wait_internal(t, kind) /\ UNCHANGED <<pc, req, due>>
  BY Zenon DEF Clear
<1>1. ASSUME sched_flags' = sched_flags \/ AbortLater(t)
      PROVE  /\ sched_flags' \in [Threads -> SUBSET {"ABORT", "ABORTSAFELY"}]
             /\ \A u \in Threads : u # t => sched_flags'[u] = sched_flags[u]
             /\ sched_flags'[t] = {"ABORT"} => sched_flags[t] = {"ABORT"}
  BY <1>1, AbortLaterFlags, Zenon DEF IInv, WaitTypes
<1>2. CASE clearing[t][kind] \in {Start, waitq[t]}
  <2>1. /\ ClearTurn(t, kind)
        /\ IF Rousts(t, kind) THEN CancelTimers({t}) ELSE UNCHANGED timerVars
        /\ sched_flags' = sched_flags \/ AbortLater(t)
    BY <1>0, <1>2, Zenon DEF clear_wait_internal
  <2> QED
    BY <1>0, <1>1, <2>1, TurnKeeps, Zenon
<1>3. CASE clearing[t][kind] \notin {Start, waitq[t]}
  <2>1. /\ clearing' = [clearing EXCEPT ![t][kind] = None]
        /\ sched_flags' = sched_flags \/ AbortLater(t)
        /\ UNCHANGED <<threadVars, timerVars>>
    BY <1>0, <1>3, Zenon DEF clear_wait_internal
  <2>2. /\ clearing' \in [Threads -> [Kinds -> Waitqs \cup {None, Start}]]
        /\ \A u \in Threads : u # t => clearing'[u] = clearing[u]
        /\ \A k \in Kinds : clearing'[t][k] = IF k = kind THEN None ELSE clearing[t][k]
    BY <2>1, Zenon DEF IInv, WaitTypes
  <2>3. AbortUnderWay(t)'
    <3>1. CASE kind = "abort"
      BY <1>1, <1>3, <2>1, <3>1, Zenon DEF IInv, ThreadInv, AbortUnderWay, threadVars
    <3>2. CASE kind # "abort"
      <4>1. clearing'[t]["abort"] = clearing[t]["abort"]
        BY <2>2, <3>2, Zenon DEF Kinds
      <4> QED
        BY <1>1, <2>1, <4>1, Zenon DEF IInv, ThreadInv, AbortUnderWay, threadVars
    <3> QED
      BY <3>1, <3>2, Zenon
  <2> QED
    BY <1>0, <1>1, <2>1, <2>2, <2>3, FlagsKeep, Zenon
<1> QED
  BY <1>2, <1>3, Zenon

-----------------------------------------------------------------------------
(* The theorems. *)

\* Every step keeps the invariant.
LEMMA NextIInv == IInv /\ [Next]_vars => IInv'
<1> SUFFICES ASSUME IInv, [Next]_vars PROVE IInv'
  BY Zenon
<1>1. ASSUME NEW t \in Threads, NEW w \in Waits[t], assert_wait(t, w) PROVE IInv'
  BY <1>1, AssertStep, Zenon
<1>2. ASSUME NEW t \in Threads, waitq_assert_wait64(t) PROVE IInv'
  BY <1>2, AssertLockedStep, Zenon
<1>3. ASSUME NEW t \in Threads, NEW e \in Events, NEW one \in BOOLEAN, thread_wakeup_prim(t, e, one) PROVE IInv'
  BY <1>3, WakeStep, Zenon
<1>4. ASSUME NEW t \in Threads, waitq_wakeup64(t) PROVE IInv'
  BY <1>4, WakeLockedStep, Zenon
<1>5. ASSUME NEW t \in Threads, thread_block(t) \/ Resume(t) \/ Return(t) PROVE IInv'
  BY <1>5, BlockStep, Zenon
<1>6. ASSUME NEW t \in Threads, Outside(t) PROVE IInv'
  BY <1>6, ExpireStep, CalloutStep, AbortStep, ClearStep, Zenon DEF Outside
<1>7. CASE UNCHANGED vars
  <2>1. WaitTypes' /\ ClientTypes'
    BY <1>7, Zenon DEF vars, waitVars, threadVars, timerVars, IInv, WaitTypes, ClientTypes
  <2>2. ASSUME NEW u \in Threads PROVE Same(u)
    BY <1>7, Zenon DEF vars, waitVars, threadVars, timerVars, Same
  <2> QED
    BY <2>1, <2>2, SameKeeps, Zenon DEF IInv
<1> QED
  BY <1>1, <1>2, <1>3, <1>4, <1>5, <1>6, <1>7, Zenon DEF Next

\* So it always holds.
LEMMA SpecIInv == Spec => []IInv
  BY InitIInv, NextIInv, PTL DEF Spec

\* wait_timer_active counts the callouts to come, and a timer that is set has
\* one and belongs to a wait, for any number of threads, whatever wakeups,
\* expiries, cancellations and aborts meet (thread_unblock,
\* thread_timer_expire, waitq_assert_wait64_locked).
THEOREM TimersAreCounted == Spec => []TimersCounted
<1>1. IInv => TimersCounted
  BY Zenon DEF IInv, ThreadInv, TimerCounted, TimersCounted
<1> QED
  BY <1>1, SpecIInv, PTL

\* Once thread_abort has returned, the thread sleeps only uninterruptibly until
\* it leaves the kernel: neither the failed tries of clear_wait_internal for
\* the queue's lock nor a thread_abort_safely in between lose the abort.
THEOREM AbortsEndWaits == Spec => []AbortedAwake
<1>1. IInv => AbortedAwake
  BY ThreadWaitConstants, Zenon DEF IInv, ThreadInv, WaitKnown, AbortUnderWay, AbortedAwake
<1> QED
  BY <1>1, SpecIInv, PTL

\* A step that ends the wait of t with a timeout, other than by a clear_wait
\* that an expiry has begun, is a callout whose expiry was for this wait.
LEMMA TimeoutIsDue ==
    ASSUME IInv, Next, NEW t \in Threads,
           wait_result[t] = "WAITING", wait_result'[t] = "TIMED_OUT", clearing[t]["timer"] = None
    PROVE  due[t]
<1> SUFFICES ASSUME NEW s \in Threads,
               \/ \E w \in Waits[s] : assert_wait(s, w)
               \/ waitq_assert_wait64(s)
               \/ \E e \in Events, one \in BOOLEAN : thread_wakeup_prim(s, e, one)
               \/ waitq_wakeup64(s)
               \/ thread_block(s)
               \/ Resume(s)
               \/ Return(s)
               \/ Outside(s)
             PROVE due[t]
  BY Zenon DEF Next
<1>0. WaitTypes
  BY Zenon DEF IInv
<1>1. wait_result'[t] # wait_result[t] /\ wait_result'[t] \notin {"WAITING", "INTERRUPTED", "AWAKENED"}
  BY Zenon
<1>2. ~(\E w \in Waits[s] : assert_wait(s, w))
  BY <1>1, Zenon DEF assert_wait, LockQueue, threadVars
<1>3. ~waitq_assert_wait64(s)
  BY <1>0, <1>1, Zenon DEF waitq_assert_wait64, waitq_assert_wait64_locked, WaitTypes
<1>4. ~(\E e \in Events, one \in BOOLEAN : thread_wakeup_prim(s, e, one))
  BY <1>1, Zenon DEF thread_wakeup_prim, LockQueue, threadVars
<1>5. ~waitq_wakeup64(s)
  <2>1. SUFFICES ASSUME waitq_wakeup64(s) PROVE FALSE
    BY Zenon
  <2>2. PICK S : Run(S, "AWAKENED")
    BY <2>1, Zenon DEF waitq_wakeup64, waitq_wakeup64_one_locked, waitq_wakeup64_all_locked, waitq_wakeup64_locked
  <2> QED
    BY <1>1, <2>2, Zenon DEF Run
<1>6. ~thread_block(s) /\ ~Resume(s) /\ ~Return(s)
  BY <1>1, Zenon DEF thread_block, Dispatch, Resume, waitVars, threadVars, Return, special_handler
<1>7. ASSUME NEW kind \in Kinds, ClearTurn(s, kind) PROVE s = t /\ kind = "timer"
  <2>1. wait_result' = [wait_result EXCEPT ![s] = IF Rousts(s, kind) THEN ResultOf(kind) ELSE @]
    BY <1>0, <1>7, TurnEnds, Zenon
  <2>2. s = t
    BY <1>0, <1>1, <2>1, Zenon DEF WaitTypes
  <2>3. wait_result'[t] = wait_result[t] \/ wait_result'[t] = ResultOf(kind)
    BY <1>0, <2>1, <2>2, Zenon DEF WaitTypes
  <2>4. ResultOf(kind) # "INTERRUPTED"
    BY <1>1, <2>3, Zenon
  <2> QED
    BY <2>2, <2>4, Zenon DEF ResultOf
<1>8. ~Expire(s)
  BY <1>1, Zenon DEF Expire, timer_queue_expire, threadVars
<1>9. ASSUME Callout(s) PROVE due[t]
  <2>1. wait_timer_active[s] = 1 /\ wait_timer_is_set[s] /\ ClearTurn(s, "timer") /\ firing[s] > 0
    BY <1>1, <1>9, Zenon DEF Callout, thread_timer_expire, threadVars
  <2>2. s = t
    BY <1>7, <2>1, Zenon DEF Kinds
  <2>3. t \notin armed
    BY <1>0, <2>1, <2>2 DEF IInv, ThreadInv, TimerCounted, WaitTypes
  <2> QED
    BY <2>1, <2>2, <2>3, Zenon DEF IInv, ThreadInv, ExpiredIsDue
<1>10. ~Abort(s)
  BY <1>1, <1>7, Zenon DEF Abort, act_abort, thread_abort_safely, threadVars, Kinds
<1>11. ASSUME NEW kind \in Kinds PROVE ~Clear(s, kind)
  <2>1. SUFFICES ASSUME Clear(s, kind) PROVE FALSE
    BY Zenon
  <2>2. ClearTurn(s, kind)
    BY <1>1, <2>1, Zenon DEF Clear, clear_wait_internal, threadVars
  <2>3. s = t /\ kind = "timer"
    BY <1>7, <2>2, Zenon
  <2> QED
    BY <2>1, <2>3, Zenon DEF Clear, clear_wait_internal
<1> QED
  BY <1>2, <1>3, <1>4, <1>5, <1>6, <1>8, <1>9, <1>10, <1>11, Zenon DEF Outside

\* So is a callout that finds the queue locked and starts to try for its lock.
LEMMA RetryIsDue ==
    ASSUME IInv, Next, NEW t \in Threads,
           clearing[t]["timer"] = None, clearing'[t]["timer"] # None
    PROVE  due[t]
<1> SUFFICES ASSUME NEW s \in Threads,
               \/ \E w \in Waits[s] : assert_wait(s, w)
               \/ waitq_assert_wait64(s)
               \/ \E e \in Events, one \in BOOLEAN : thread_wakeup_prim(s, e, one)
               \/ waitq_wakeup64(s)
               \/ thread_block(s)
               \/ Resume(s)
               \/ Return(s)
               \/ Outside(s)
             PROVE due[t]
  BY Zenon DEF Next
<1>0. WaitTypes
  BY Zenon DEF IInv
<1>1. clearing' # clearing
  BY Zenon
<1>2. ~(\E w \in Waits[s] : assert_wait(s, w)) /\ ~(\E e \in Events, one \in BOOLEAN : thread_wakeup_prim(s, e, one))
  BY <1>1, Zenon DEF assert_wait, thread_wakeup_prim, LockQueue
<1>3. ~waitq_assert_wait64(s) /\ ~waitq_wakeup64(s)
  BY <1>1, Zenon DEF waitq_assert_wait64, waitq_wakeup64
<1>4. ~thread_block(s) /\ ~Resume(s) /\ ~Return(s) /\ ~Expire(s)
  BY <1>1, Zenon DEF thread_block, Dispatch, Resume, waitVars, Return, special_handler, Expire, timer_queue_expire
<1>5. ASSUME NEW kind \in Kinds, NEW x, clearing' = [clearing EXCEPT ![s][kind] = x] PROVE s = t /\ kind = "timer"
  BY <1>0, <1>5, Zenon DEF WaitTypes, Kinds
<1>6. ASSUME NEW kind \in Kinds, ClearTurn(s, kind) PROVE s = t /\ kind = "timer"
  BY <1>5, <1>6, Zenon DEF ClearTurn
<1>7. ASSUME Callout(s) PROVE due[t]
  <2>1. wait_timer_active[s] = 1 /\ wait_timer_is_set[s] /\ ClearTurn(s, "timer") /\ firing[s] > 0
    BY <1>1, <1>7, Zenon DEF Callout, thread_timer_expire
  <2>2. s = t
    BY <1>6, <2>1, Zenon DEF Kinds
  <2>3. t \notin armed
    BY <1>0, <2>1, <2>2 DEF IInv, ThreadInv, TimerCounted, WaitTypes
  <2> QED
    BY <2>1, <2>2, <2>3, Zenon DEF IInv, ThreadInv, ExpiredIsDue
<1>8. ~Abort(s)
  BY <1>1, <1>5, <1>6, Zenon DEF Abort, act_abort, thread_abort_safely, Kinds
<1>9. ASSUME NEW kind \in Kinds PROVE ~Clear(s, kind)
  <2>1. SUFFICES ASSUME Clear(s, kind) PROVE FALSE
    BY Zenon
  <2>2. s = t /\ kind = "timer"
    BY <1>5, <1>6, <2>1, Zenon DEF Clear, clear_wait_internal
  <2> QED
    BY <2>1, <2>2, Zenon DEF Clear, clear_wait_internal
<1> QED
  BY <1>2, <1>3, <1>4, <1>7, <1>8, <1>9, Zenon DEF Outside

\* thread_timer_expire acts only on a wait whose deadline has passed, by ending
\* it or by starting to try for its queue's lock: the count tells a callout left
\* over from an earlier wait apart, for any number of callouts in flight.  What
\* the loop of clear_wait_internal ends once it is trying is left open.
THEOREM TimeoutsAreDue == Spec => TimeoutsDue
<1>1. IInv /\ [Next]_vars =>
        [\A t \in Threads :
           /\ clearing[t]["timer"] = None
           /\ \/ wait_result[t] = "WAITING" /\ wait_result'[t] = "TIMED_OUT"
              \/ clearing'[t]["timer"] # None
           => due[t]]_vars
  BY TimeoutIsDue, RetryIsDue, Zenon
<1> QED
  BY <1>1, SpecIInv, PTL DEF Spec, TimeoutsDue
-----------------------------------------------------------------------------
(* The queues and the wakeups. *)

\* A thread waits on the queue that its event hashes to.
Hashed(t) == wait_event[t] # None => waitq[t] = global_eventq[wait_event[t]]

EventInv ==
    /\ IInv
    /\ QueueInv
    /\ MaskInv
    /\ \A t \in Threads : Hashed(t)

\* The queue of an event.
LEMMA EventQueue == ASSUME NEW e \in Events PROVE global_eventq[e] \in Waitqs
  BY EventWaitConstants, ThreadWaitConstants, Zenon

\* A step that changes no wait.
LEMMA SameEvents ==
    ASSUME EventInv, UNCHANGED <<threadVars, queueVars>>
    PROVE  QueueInv' /\ MaskInv' /\ \A t \in Threads : Hashed(t)'
<1>1. UNCHANGED <<state, waitq, wait_event, waitq_queue, ahead, waitq_eventmask>>
  BY Zenon DEF threadVars, queueVars
<1>2. QueueInv' /\ MaskInv'
  BY <1>1, SameQueue, SameMask, Zenon DEF EventInv
<1> QED
  BY <1>1, <1>2, Zenon DEF EventInv, Hashed

\* A step that ends waits.
LEMMA RunHashed ==
    ASSUME EventInv, NEW S, NEW r, Run(S, r), NEW t \in Threads
    PROVE  Hashed(t)'
<1>1. CASE t \in S
  BY <1>1, Zenon DEF Run, Hashed
<1>2. CASE t \notin S
  <2>1. waitq'[t] = waitq[t] /\ wait_event'[t] = wait_event[t]
    BY <1>2, Zenon DEF Run
  <2> QED
    BY <2>1, Zenon DEF EventInv, Hashed
<1> QED
  BY <1>1, <1>2, Zenon

\* A wait is declared on the queue of its event.
LEMMA AssertEvents ==
    ASSUME EventInv, NEW t \in Threads, waitq_assert_wait64(t)
    PROVE  QueueInv' /\ MaskInv' /\ \A u \in Threads : Hashed(u)'
<1>1. req[t] \in Calls /\ waitq[t] = None
  BY Zenon DEF EventInv, IInv, ThreadInv, WaitKnown, NoWait, waitq_assert_wait64
<1>2. PICK e \in Events : e = req[t].event
  BY <1>1, Zenon DEF Calls
<1>3. PICK q \in Waitqs : q = global_eventq[e]
  BY EventQueue, Zenon
<1>4. waitq_assert_wait64_locked(t, q, e, req[t].level, req[t].timed)
  BY <1>2, <1>3, Zenon DEF waitq_assert_wait64
<1>5. QueueInv'
  BY <1>1, <1>4, AssertQueue, Zenon DEF EventInv
<1>6. MaskInv'
  BY <1>4, AssertMask, Zenon DEF EventInv
<1>7. ASSUME NEW u \in Threads PROVE Hashed(u)'
  <2>1. Hashed(u)
    BY <1>7, Zenon DEF EventInv
  <2>2. \/ waitq' = [waitq EXCEPT ![t] = q] /\ wait_event' = [wait_event EXCEPT ![t] = e]
        \/ waitq' = waitq /\ wait_event' = wait_event
    BY <1>4, Zenon DEF waitq_assert_wait64_locked
  <2>3. \/ waitq'[u] = q /\ wait_event'[u] = e
        \/ waitq'[u] = waitq[u] /\ wait_event'[u] = wait_event[u]
    BY <1>7, <2>2, Zenon DEF EventInv, QueueInv, QueueTypes
  <2> QED
    BY <1>3, <2>1, <2>3, Zenon DEF Hashed
<1> QED
  BY <1>5, <1>6, <1>7, Zenon

\* The threads that a wakeup takes: all that wait for the event, or one.
LEMMA WakeTakes ==
    ASSUME EventInv, NEW t \in Threads, waitq_wakeup64(t)
    PROVE  \E e \in Events, q \in Waitqs, S \in SUBSET Threads, chosen \in BOOLEAN :
              /\ e = req[t].event
              /\ waitq_wakeup64_locked(q, e, S, chosen, "AWAKENED")
              /\ LET before == {u \in Threads : wait_event[u] = e}
                 IN IF req[t].one THEN (before = {} /\ S = {}) \/ \E v \in before : S = {v}
                                  ELSE S = before
<1>1. req[t] \in Calls
  BY Zenon DEF EventInv, IInv, ThreadInv, WaitKnown, waitq_wakeup64
<1>2. PICK e \in Events : e = req[t].event
  BY <1>1, Zenon DEF Calls
<1>3. PICK q \in Waitqs : q = global_eventq[e]
  BY EventQueue, Zenon
<1> DEFINE before == {u \in Threads : wait_event[u] = e}
<1>4. Waiting(q, e) = before
  <2>1. Waiting(q, e) = {u \in Threads : waitq[u] = q /\ wait_event[u] = e}
    BY WaitingAll, Zenon DEF EventInv
  <2>2. e # None
    BY ThreadWaitConstants, Zenon
  <2> QED
    BY <1>3, <2>1, <2>2, Zenon DEF EventInv, Hashed
<1>5. CASE req[t].one
  <2>1. waitq_wakeup64_locked(q, e, waitq_select_one_locked(q, e), Choices(q, e) # {}, "AWAKENED")
    BY <1>2, <1>3, <1>5, Zenon DEF waitq_wakeup64, waitq_wakeup64_one_locked
  <2>2. \/ before = {} /\ waitq_select_one_locked(q, e) = {}
        \/ \E v \in before : waitq_select_one_locked(q, e) = {v}
    BY <1>4, SelectOne, Zenon DEF EventInv
  <2>3. PICK S \in SUBSET Threads : S = waitq_select_one_locked(q, e)
    BY <2>2, Zenon
  <2>4. PICK chosen \in BOOLEAN : waitq_wakeup64_locked(q, e, S, chosen, "AWAKENED")
    BY <2>1, <2>3, Zenon
  <2>5. IF req[t].one THEN (before = {} /\ S = {}) \/ \E v \in before : S = {v}
                      ELSE S = before
    BY <1>5, <2>2, <2>3, Zenon
  <2> QED
    BY <1>2, <2>4, <2>5, Zenon
<1>6. CASE ~req[t].one
  <2>1. waitq_wakeup64_locked(q, e, before, before # {}, "AWAKENED")
    BY <1>2, <1>3, <1>4, <1>6, Zenon DEF waitq_wakeup64, waitq_wakeup64_all_locked, waitq_select_n_locked
  <2> QED
    BY <1>2, <1>6, <2>1, Zenon
<1> QED
  BY <1>5, <1>6, Zenon

\* A wakeup keeps the queues.
LEMMA WakeEvents ==
    ASSUME EventInv, NEW t \in Threads, waitq_wakeup64(t)
    PROVE  QueueInv' /\ MaskInv' /\ \A u \in Threads : Hashed(u)'
<1>1. PICK e \in Events, q \in Waitqs, S \in SUBSET Threads, chosen \in BOOLEAN : waitq_wakeup64_locked(q, e, S, chosen, "AWAKENED")
  BY WakeTakes, Zenon
<1>2. Run(S, "AWAKENED")
  BY <1>1, Zenon DEF waitq_wakeup64_locked
<1>3. QueueInv' /\ MaskInv'
  BY <1>1, <1>2, RunQueue, WakeMask, Zenon DEF EventInv
<1> QED
  BY <1>2, <1>3, RunHashed, Zenon

\* So do the clock, the aborts and clear_wait.
LEMMA OutsideEvents ==
    ASSUME EventInv, NEW t \in Threads, Outside(t)
    PROVE  QueueInv' /\ MaskInv' /\ \A u \in Threads : Hashed(u)'
<1>1. Spares(t) \/ Ends(t)
  BY OutsideShape, Zenon DEF Outside, Expire, Callout, Clear, Clock
<1>2. QueueInv' /\ MaskInv'
  BY <1>1, OutsideQueue, OutsideMask, Zenon DEF EventInv
<1>3. CASE Spares(t)
  BY <1>3, SameEvents, Zenon DEF Spares
<1>4. CASE Ends(t)
  BY <1>2, <1>4, RunHashed, Zenon DEF Ends
<1> QED
  BY <1>1, <1>3, <1>4, Zenon

\* Every step keeps the invariant of the queues.
LEMMA NextEventInv == EventInv /\ [Next]_vars => EventInv'
<1> SUFFICES ASSUME EventInv, [Next]_vars PROVE QueueInv' /\ MaskInv' /\ \A u \in Threads : Hashed(u)'
  BY NextIInv, Zenon DEF EventInv
<1>1. ASSUME NEW t \in Threads, NEW w \in Waits[t], assert_wait(t, w) PROVE UNCHANGED <<threadVars, queueVars>>
  BY <1>1, Zenon DEF assert_wait, LockQueue
<1>2. ASSUME NEW t \in Threads, NEW e \in Events, NEW one \in BOOLEAN, thread_wakeup_prim(t, e, one)
      PROVE  UNCHANGED <<threadVars, queueVars>>
  BY <1>2, Zenon DEF thread_wakeup_prim, LockQueue
<1>3. ASSUME NEW t \in Threads, Resume(t) \/ Return(t) PROVE UNCHANGED <<threadVars, queueVars>>
  BY <1>3, Zenon DEF Resume, Return, special_handler, waitVars
<1>4. ASSUME NEW t \in Threads, thread_block(t)
      PROVE  QueueInv' /\ MaskInv' /\ \A u \in Threads : Hashed(u)'
  <2>1. Dispatch(t) /\ UNCHANGED <<waitq, wait_event, waitq_eventmask>>
    BY <1>4, Zenon DEF thread_block, Dispatch, queueVars
  <2>2. QueueInv' /\ MaskInv'
    BY <1>4, <2>1, DispatchQueue, SameMask, Zenon DEF EventInv
  <2> QED
    BY <2>1, <2>2, Zenon DEF EventInv, Hashed
<1>5. CASE UNCHANGED vars
  BY <1>5, SameEvents, Zenon DEF vars, waitVars
<1> QED
  BY <1>1, <1>2, <1>3, <1>4, <1>5, SameEvents, AssertEvents, WakeEvents, OutsideEvents, Zenon DEF Next

\* So it always holds.
LEMMA SpecEventInv == Spec => []EventInv
<1>1. Init => EventInv
  <2> SUFFICES ASSUME Init PROVE EventInv
    BY Zenon
  <2>1. WaitInit /\ IInv
    BY InitIInv, Zenon DEF Init
  <2>2. \A t \in Threads : Hashed(t)
    BY <2>1, Zenon DEF WaitInit, Hashed
  <2> QED
    BY <2>1, <2>2, InitQueue, Zenon DEF EventInv
<1> QED
  BY <1>1, NextEventInv, PTL DEF Spec

\* A thread is on a queue exactly while it waits, on the one it names, and the
\* links of every queue stay a list, for any number of threads and queues:
\* wakeups (do_waitq_select_n_locked), expiries and aborts
\* (clear_wait_internal) take a thread off exactly once.
THEOREM SleepersAreQueued == Spec => []SleepersQueued
<1>1. EventInv => SleepersQueued
  BY QueueInvSleepers, Zenon DEF EventInv
<1> QED
  BY <1>1, SpecEventInv, PTL

\* A step that takes t out of its wakeup is the wakeup.
LEMMA LeavesWake ==
    ASSUME EventInv, Next, NEW t \in Threads, pc[t] = "wake", pc'[t] # "wake"
    PROVE  waitq_wakeup64(t)
<1> SUFFICES ASSUME NEW s \in Threads,
               \/ \E w \in Waits[s] : assert_wait(s, w)
               \/ waitq_assert_wait64(s)
               \/ \E e \in Events, one \in BOOLEAN : thread_wakeup_prim(s, e, one)
               \/ waitq_wakeup64(s)
               \/ thread_block(s)
               \/ Resume(s)
               \/ Return(s)
               \/ Outside(s)
             PROVE waitq_wakeup64(t)
  BY Zenon DEF Next
<1>1. pc \in [Threads -> Pcs]
  BY Zenon DEF EventInv, IInv, ClientTypes
<1>2. ASSUME NEW p, Goto(s, p) PROVE s = t
  BY <1>1, <1>2, Zenon DEF Goto
<1>3. ~(\E w \in Waits[s] : assert_wait(s, w)) /\ ~waitq_assert_wait64(s) /\ ~thread_block(s) /\ ~Resume(s)
  BY <1>2, Zenon DEF assert_wait, waitq_assert_wait64, thread_block, Resume
<1>4. ~(\E e \in Events, one \in BOOLEAN : thread_wakeup_prim(s, e, one)) /\ ~Return(s)
  BY <1>2, Zenon DEF thread_wakeup_prim, Return
<1>5. ~Outside(s)
  BY Zenon DEF Outside, Expire, Callout, Clear
<1> QED
  BY <1>2, <1>3, <1>4, <1>5, Zenon DEF waitq_wakeup64

\* thread_wakeup reaches every thread that waits for the event, and
\* thread_wakeup_one one of them: the walk of do_waitq_select_n_locked finds
\* them behind the event mask and among the waiters for other events, in a
\* queue of any length, and ends no other wait.
THEOREM WakeupsReach == Spec => WakeupsFind
<1> DEFINE Found(t) ==
        pc[t] = "wake" /\ pc'[t] # "wake" =>
           LET before == {u \in Threads : wait_event[u] = req[t].event}
               after == {u \in Threads : wait_event'[u] = req[t].event}
           IN /\ after \subseteq before
              /\ IF req[t].one THEN before = {} \/ Cardinality(before \ after) = 1 ELSE after = {}
              /\ \A u \in Threads \ before : wait_event'[u] = wait_event[u]
<1>1. ASSUME EventInv, Next, NEW t \in Threads, pc[t] = "wake", pc'[t] # "wake" PROVE Found(t)
  <2>1. waitq_wakeup64(t)
    BY <1>1, LeavesWake, Zenon
  <2>2. PICK e \in Events, q \in Waitqs, S \in SUBSET Threads, chosen \in BOOLEAN :
              /\ e = req[t].event
              /\ waitq_wakeup64_locked(q, e, S, chosen, "AWAKENED")
              /\ LET before == {u \in Threads : wait_event[u] = e}
                 IN IF req[t].one THEN (before = {} /\ S = {}) \/ \E v \in before : S = {v}
                                  ELSE S = before
    BY <1>1, <2>1, WakeTakes, Zenon
  <2> DEFINE before == {u \in Threads : wait_event[u] = e}
             after == {u \in Threads : wait_event'[u] = e}
  <2>3. \A u \in Threads : wait_event'[u] = IF u \in S THEN None ELSE wait_event[u]
    BY <2>2, Zenon DEF waitq_wakeup64_locked, Run
  <2>4. e # None
    BY ThreadWaitConstants, Zenon
  <2>5. after = before \ S
    BY <2>3, <2>4, Zenon
  <2>6. S \subseteq before
    BY <2>2, Zenon
  <2>7. \A u \in Threads \ before : wait_event'[u] = wait_event[u]
    BY <2>3, <2>6, Zenon
  <2>8. ASSUME req[t].one PROVE before = {} \/ Cardinality(before \ after) = 1
    <3>1. CASE before # {}
      <4>1. PICK v \in before : S = {v}
        BY <2>2, <2>8, <3>1, Zenon
      <4>2. before \ after = {v}
        BY <2>5, <4>1, Zenon
      <4> QED
        BY <4>2, FS_Singleton, Zenon
    <3> QED
      BY <3>1, Zenon
  <2>9. ASSUME ~req[t].one PROVE after = {}
    BY <2>2, <2>5, <2>9, Zenon
  <2> HIDE DEF before, after
  <2>10. /\ after \subseteq before
         /\ IF req[t].one THEN before = {} \/ Cardinality(before \ after) = 1 ELSE after = {}
         /\ \A u \in Threads \ before : wait_event'[u] = wait_event[u]
    BY <2>5, <2>7, <2>8, <2>9, Zenon
  <2> QED
    BY <2>2, <2>10, Zenon DEF before, after
<1>2. EventInv /\ [Next]_vars => [\A t \in Threads : Found(t)]_vars
  BY <1>1, Zenon
<1> QED
  BY <1>2, SpecEventInv, PTL DEF Spec, WakeupsFind
=============================================================================
