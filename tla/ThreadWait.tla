----------------------------- MODULE ThreadWait -----------------------------
(***************************************************************************)
(* How a thread waits and is woken: osfmk/kern/sched_prim.c and the wait   *)
(* queues of osfmk/kern/waitq.c (not their sets).  A wait is declared      *)
(* (waitq_assert_wait64_locked), then slept on (thread_block); in between  *)
(* and during the sleep it may be ended by a wakeup on the queue, by the   *)
(* wait timer or by an abort.                                              *)
(*                                                                         *)
(* Two spin locks order these: a queue's and a thread's.  Wakeups take the *)
(* queue's first; clear_wait_internal has the thread's and only tries the  *)
(* queue's, and on a failure drops the thread's and starts again.  A step  *)
(* here is what happens between two points where a lock is free: the       *)
(* thread lock is therefore never seen held, the queue lock is.            *)
(*                                                                         *)
(* The module has no behaviour of its own: EventWait, Semaphore and        *)
(* MsgQueue run it.                                                        *)
(***************************************************************************)
EXTENDS Naturals, FiniteSets

CONSTANTS
    Threads,
    Waitqs,
    GlobalQs,   \* the queues that events hash to; they keep an event mask
    Events,
    Bits,
    EventBits,  \* _CAST_TO_EVENT_MASK: the bits of each event
    Preferred,  \* importance donors, real-time and VM-privileged threads
    AtHead,     \* real-time and VM-privileged threads: queued at the head
    LifoQs,     \* queues made with SYNC_POLICY_REVERSED
    None,
    Start,      \* a clear_wait that has not yet read thread->waitq
    MaxFiring   \* bound: callouts of one wait timer in flight at a time

ASSUME ThreadWaitConstants ==
    /\ IsFiniteSet(Threads)
    /\ GlobalQs \subseteq Waitqs /\ LifoQs \subseteq Waitqs
    /\ EventBits \in [Events -> SUBSET Bits]
    /\ AtHead \subseteq Preferred /\ Preferred \subseteq Threads
    /\ None \notin Threads \cup Waitqs \cup Events
    /\ Start \notin Waitqs \cup {None}
    /\ MaxFiring \in Nat \ {0}

VARIABLES
    state,              \* the TH_WAIT, TH_UNINT and TH_RUN bits of a thread
    at_safe_point,
    sched_flags,        \* TH_SFLAG_ABORT, TH_SFLAG_ABORTSAFELY
    wait_result,
    waitq,              \* the queue a thread is on, or None
    wait_event,
    waitq_queue,        \* the threads linked on a queue
    ahead,              \* the links: for a thread, those before it on its queue
    waitq_eventmask,
    waitq_lock,         \* the holder of a queue's lock, or None
    wait_timer_is_set,
    wait_timer_active,
    armed,              \* threads whose wait timer is on a timer queue
    firing,             \* callouts taken off the timer queue, not yet run
    clearing            \* clear_wait_internal calls under way, by kind

threadVars == <<state, at_safe_point, wait_result, waitq, wait_event>>
queueVars == <<waitq_queue, ahead, waitq_eventmask>>
timerVars == <<wait_timer_is_set, wait_timer_active, armed, firing>>
waitVars == <<threadVars, queueVars, timerVars, sched_flags, waitq_lock, clearing>>

Results == {"WAITING", "AWAKENED", "TIMED_OUT", "INTERRUPTED", "RESTART"}
Levels == {"UNINT", "INTERRUPTIBLE", "ABORTSAFE"}

\* Who calls clear_wait_internal: the timer, thread_abort, thread_abort_safely
\* and a thread for itself.
Kinds == {"timer", "abort", "safely", "self"}

WaitTypeOK ==
    /\ state \in [Threads -> SUBSET {"WAIT", "UNINT", "RUN"}]
    /\ at_safe_point \in [Threads -> BOOLEAN]
    /\ sched_flags \in [Threads -> SUBSET {"ABORT", "ABORTSAFELY"}]
    /\ wait_result \in [Threads -> Results]
    /\ waitq \in [Threads -> Waitqs \cup {None}]
    /\ wait_event \in [Threads -> Events \cup {None}]
    /\ waitq_queue \in [Waitqs -> SUBSET Threads]
    /\ ahead \in [Threads -> SUBSET Threads]
    /\ waitq_eventmask \in [Waitqs -> SUBSET Bits]
    /\ waitq_lock \in [Waitqs -> Threads \cup {None}]
    /\ wait_timer_is_set \in [Threads -> BOOLEAN]
    /\ wait_timer_active \in [Threads -> Nat]
    /\ armed \subseteq Threads
    /\ firing \in [Threads -> 0 .. MaxFiring]
    /\ clearing \in [Threads -> [Kinds -> Waitqs \cup {None, Start}]]

WaitInit ==
    /\ state = [t \in Threads |-> {"RUN"}]
    /\ at_safe_point = [t \in Threads |-> FALSE]
    /\ sched_flags = [t \in Threads |-> {}]
    /\ wait_result = [t \in Threads |-> "AWAKENED"]
    /\ waitq = [t \in Threads |-> None]
    /\ wait_event = [t \in Threads |-> None]
    /\ waitq_queue = [q \in Waitqs |-> {}]
    /\ ahead = [t \in Threads |-> {}]
    /\ waitq_eventmask = [q \in Waitqs |-> {}]
    /\ waitq_lock = [q \in Waitqs |-> None]
    /\ wait_timer_is_set = [t \in Threads |-> FALSE]
    /\ wait_timer_active = [t \in Threads |-> 0]
    /\ armed = {}
    /\ firing = [t \in Threads |-> 0]
    /\ clearing = [t \in Threads |-> [k \in Kinds |-> None]]

-----------------------------------------------------------------------------
(* Declaring a wait. *)

\* Mutant: any abort is taken for a safe one.
may_wait_unsafely(t, level) ==
    level # "ABORTSAFE" \/ "ABORT" \notin sched_flags[t]

\* thread_mark_wait_locked: an aborted thread does not wait, unless the wait
\* is not interruptible or is not one that the abort may end.
MayWait(t, level) ==
    \/ level = "UNINT"
    \/ "ABORT" \notin sched_flags[t]
    \/ level # "ABORTSAFE" /\ "ABORTSAFELY" \in sched_flags[t]

\* enqueue_head and enqueue_tail.
Enqueue(t, q) ==
    LET head == q \in LifoQs \/ t \in AtHead
    IN /\ waitq_queue' = [waitq_queue EXCEPT ![q] = @ \cup {t}]
       /\ ahead' = [u \in Threads |->
             IF u = t THEN IF head THEN {} ELSE waitq_queue[q]
             ELSE IF head /\ u \in waitq_queue[q] THEN ahead[u] \cup {t} ELSE ahead[u]]

\* The timer of a wait with a deadline.
SetTimer(t, timed) ==
    /\ wait_timer_is_set' = [wait_timer_is_set EXCEPT ![t] = @ \/ timed]
    /\ wait_timer_active' = [wait_timer_active EXCEPT ![t] = IF timed /\ t \notin armed THEN @ + 1 ELSE @]
    /\ armed' = IF timed THEN armed \cup {t} ELSE armed
    /\ UNCHANGED firing

waitq_assert_wait64_locked(t, q, e, level, timed) ==
    \/ /\ MayWait(t, level)
       /\ state' = [state EXCEPT ![t] = @ \cup {"WAIT"} \cup (IF level = "UNINT" THEN {"UNINT"} ELSE {})]
       /\ at_safe_point' = [at_safe_point EXCEPT ![t] = level = "ABORTSAFE"]
       /\ wait_result' = [wait_result EXCEPT ![t] = "WAITING"]
       /\ waitq' = [waitq EXCEPT ![t] = q]
       /\ wait_event' = [wait_event EXCEPT ![t] = e]
       /\ Enqueue(t, q)
       /\ waitq_eventmask' = IF q \in GlobalQs
                             THEN [waitq_eventmask EXCEPT ![q] = @ \cup EventBits[e]]
                             ELSE waitq_eventmask
       /\ SetTimer(t, timed)
       /\ UNCHANGED sched_flags
    \/ /\ ~MayWait(t, level)
       /\ wait_result' = [wait_result EXCEPT ![t] = "INTERRUPTED"]
       /\ sched_flags' = [sched_flags EXCEPT ![t] = IF "ABORTSAFELY" \in @ THEN {} ELSE @]
       /\ UNCHANGED <<state, at_safe_point, waitq, wait_event, queueVars, timerVars>>

-----------------------------------------------------------------------------
(* Ending a wait. *)

\* Mutant: the thread stays on the queue.
run_still_queued(S, result) ==
    /\ state' = [t \in Threads |-> IF t \in S THEN {"RUN"} ELSE state[t]]
    /\ wait_result' = [t \in Threads |-> IF t \in S THEN result ELSE wait_result[t]]
    /\ waitq' = [t \in Threads |-> IF t \in S THEN None ELSE waitq[t]]
    /\ wait_event' = [t \in Threads |-> IF t \in S THEN None ELSE wait_event[t]]
    /\ at_safe_point' = [t \in Threads |-> at_safe_point[t] /\ t \notin S]
    /\ UNCHANGED <<waitq_queue, ahead>>

\* thread_clear_waitq_state, remqueue and thread_go of the threads in S, but
\* for their timers: they leave their queue and run, with the result given.
Run(S, result) ==
    /\ state' = [t \in Threads |-> IF t \in S THEN {"RUN"} ELSE state[t]]
    /\ wait_result' = [t \in Threads |-> IF t \in S THEN result ELSE wait_result[t]]
    /\ waitq' = [t \in Threads |-> IF t \in S THEN None ELSE waitq[t]]
    /\ wait_event' = [t \in Threads |-> IF t \in S THEN None ELSE wait_event[t]]
    /\ at_safe_point' = [t \in Threads |-> at_safe_point[t] /\ t \notin S]
    /\ waitq_queue' = [q \in Waitqs |-> waitq_queue[q] \ S]
    /\ ahead' = [t \in Threads |-> IF t \in S THEN {} ELSE ahead[t] \ S]

\* Mutant: a callout in flight is counted off as well.
cancel_timers_in_flight(S) ==
    LET off == {t \in S : wait_timer_is_set[t]}
    IN /\ wait_timer_active' = [t \in Threads |-> wait_timer_active[t] - (IF t \in off THEN 1 ELSE 0)]
       /\ armed' = armed \ off
       /\ wait_timer_is_set' = [t \in Threads |-> wait_timer_is_set[t] /\ t \notin S]
       /\ UNCHANGED firing

\* The part of thread_unblock that cancels the timer: a callout that has been
\* taken off the timer queue is not cancelled, and stays counted.
CancelTimers(S) ==
    LET off == {t \in S : wait_timer_is_set[t]}
    IN /\ wait_timer_active' = [t \in Threads |-> IF t \in off \cap armed
                                                 THEN wait_timer_active[t] - 1
                                                 ELSE wait_timer_active[t]]
       /\ armed' = armed \ off
       /\ wait_timer_is_set' = [t \in Threads |-> wait_timer_is_set[t] /\ t \notin S]
       /\ UNCHANGED firing

\* The event bits of the threads of a queue.
MaskOf(W) == UNION {EventBits[wait_event[t]] : t \in W}

\* The first of the threads W of a queue, as a set.
First(W) == {t \in W : ahead[t] \cap W = {}}

\* do_waitq_select_n_locked looks at a queue only if its mask has the event.
Waiting(q, e) ==
    {t \in waitq_queue[q] : /\ wait_event[t] = e
                            /\ q \in GlobalQs => EventBits[e] \subseteq waitq_eventmask[q]}

\* waitq_select_one_cb: on a global queue, the threads it would rather wake.
Choices(q, e) == {t \in Waiting(q, e) : q \notin GlobalQs \/ t \in Preferred}

\* Mutant: only a thread that the callback accepts is taken.
select_one_preferred_only(q, e) == First(Choices(q, e))

\* waitq_select_one_locked: the first that the callback accepts, or the first.
waitq_select_one_locked(q, e) ==
    IF Choices(q, e) # {} THEN First(Choices(q, e)) ELSE First(Waiting(q, e))

waitq_select_n_locked(q, e) == Waiting(q, e)

\* The mask is recomputed when the walk saw the whole queue: when it selected
\* nobody (before the first waiter is taken for want of a better one), or when
\* the queue is empty afterwards.
MaskAfter(q, e, S, chosen) ==
    IF q \notin GlobalQs \/ ~(EventBits[e] \subseteq waitq_eventmask[q]) THEN waitq_eventmask[q]
    ELSE IF waitq_queue[q] \subseteq S THEN {}
    ELSE IF chosen THEN waitq_eventmask[q]
    ELSE MaskOf(waitq_queue[q])

\* waitq_wakeup64_one_locked and waitq_wakeup64_all_locked.
waitq_wakeup64_locked(q, e, S, chosen, result) ==
    /\ Run(S, result)
    /\ CancelTimers(S)
    /\ waitq_eventmask' = [waitq_eventmask EXCEPT ![q] = MaskAfter(q, e, S, chosen)]

waitq_wakeup64_one_locked(q, e, result) ==
    waitq_wakeup64_locked(q, e, waitq_select_one_locked(q, e), Choices(q, e) # {}, result)

waitq_wakeup64_all_locked(q, e, result) ==
    waitq_wakeup64_locked(q, e, waitq_select_n_locked(q, e), waitq_select_n_locked(q, e) # {}, result)

\* waitq_wakeup64_thread_locked; the mask of a global queue stays as it is.
waitq_wakeup64_thread_locked(q, e, t, result) ==
    LET S == {u \in {t} : waitq[u] = q /\ wait_event[u] = e}
    IN Run(S, result) /\ CancelTimers(S) /\ UNCHANGED waitq_eventmask

-----------------------------------------------------------------------------
(* clear_wait_internal: ending the wait of one thread from outside. *)

ResultOf(kind) == IF kind = "timer" THEN "TIMED_OUT" ELSE "INTERRUPTED"

Refused(t, kind) == ResultOf(kind) = "INTERRUPTED" /\ "UNINT" \in state[t]
Contended(t) == waitq[t] # None /\ waitq_lock[waitq[t]] # None
Retries(t, kind) == ~Refused(t, kind) /\ Contended(t)
Rousts(t, kind) == ~Refused(t, kind) /\ ~Contended(t) /\ "WAIT" \in state[t]

\* waitq_pull_thread_locked empties the mask with the queue.
MaskWithout(t) ==
    [q \in Waitqs |-> IF q = waitq[t] /\ q \in GlobalQs /\ waitq_queue[q] = {t}
                      THEN {} ELSE waitq_eventmask[q]]

\* Mutant: a failed try for the queue's lock is not repeated.
clear_turn_gives_up(t, kind) ==
    /\ IF Rousts(t, kind)
       THEN /\ Run({t}, ResultOf(kind))
            /\ waitq_eventmask' = MaskWithout(t)
       ELSE UNCHANGED <<threadVars, queueVars>>
    /\ clearing' = [clearing EXCEPT ![t][kind] = None]

\* One turn of the loop, but for the timer.
ClearTurn(t, kind) ==
    /\ IF Rousts(t, kind)
       THEN /\ Run({t}, ResultOf(kind))
            /\ waitq_eventmask' = MaskWithout(t)
       ELSE UNCHANGED <<threadVars, queueVars>>
    /\ clearing' = [clearing EXCEPT ![t][kind] =
                      IF Retries(t, kind) THEN waitq[t] ELSE None]

\* Mutant: the clock's callout is trusted although the timer was set again.
thread_timer_expire_uncounted(t) ==
    /\ firing[t] > 0
    /\ clearing[t]["timer"] = None
    /\ firing' = [firing EXCEPT ![t] = @ - 1]
    /\ wait_timer_active' = [wait_timer_active EXCEPT ![t] = @ - 1]
    /\ IF wait_timer_is_set[t]
       THEN /\ wait_timer_is_set' = [wait_timer_is_set EXCEPT ![t] = FALSE]
            /\ ClearTurn(t, "timer")
       ELSE UNCHANGED <<threadVars, queueVars, clearing, wait_timer_is_set>>
    /\ UNCHANGED <<armed, sched_flags, waitq_lock>>

\* The callout.  It ends the wait only if it is the last one counted and the
\* timer is still set.
thread_timer_expire(t) ==
    /\ firing[t] > 0
    /\ clearing[t]["timer"] = None
    /\ firing' = [firing EXCEPT ![t] = @ - 1]
    /\ wait_timer_active' = [wait_timer_active EXCEPT ![t] = @ - 1]
    /\ IF wait_timer_active[t] = 1 /\ wait_timer_is_set[t]
       THEN /\ wait_timer_is_set' = [wait_timer_is_set EXCEPT ![t] = FALSE]
            /\ ClearTurn(t, "timer")
       ELSE UNCHANGED <<threadVars, queueVars, clearing, wait_timer_is_set>>
    /\ UNCHANGED <<armed, sched_flags, waitq_lock>>

\* The clock takes the timer off its queue, to run its callout.
timer_queue_expire(t) ==
    /\ t \in armed
    /\ firing[t] < MaxFiring
    /\ armed' = armed \ {t}
    /\ firing' = [firing EXCEPT ![t] = @ + 1]
    /\ UNCHANGED <<threadVars, queueVars, wait_timer_is_set, wait_timer_active, sched_flags,
                   waitq_lock, clearing>>

\* act_abort, the first half of thread_abort.
act_abort(t) ==
    /\ clearing[t]["abort"] = None /\ clearing[t]["safely"] = None
    /\ sched_flags' = [sched_flags EXCEPT ![t] = IF "ABORT" \in @ THEN {"ABORT"} ELSE @ \cup {"ABORT"}]
    /\ clearing' = [clearing EXCEPT ![t]["abort"] = Start]
    /\ UNCHANGED <<threadVars, queueVars, timerVars, waitq_lock>>

\* What thread_abort_safely does when it has not ended a wait.
AbortLater(t) ==
    sched_flags' = [sched_flags EXCEPT ![t] = IF "ABORT" \in @ THEN @ ELSE {"ABORT", "ABORTSAFELY"}]

thread_abort_safely(t) ==
    /\ clearing[t]["abort"] = None /\ clearing[t]["safely"] = None
    /\ IF at_safe_point[t]
       THEN /\ ClearTurn(t, "safely")
            /\ IF Rousts(t, "safely") \/ Retries(t, "safely") THEN UNCHANGED sched_flags ELSE AbortLater(t)
            /\ IF Rousts(t, "safely") THEN CancelTimers({t}) ELSE UNCHANGED timerVars
       ELSE /\ AbortLater(t)
            /\ UNCHANGED <<threadVars, queueVars, timerVars, clearing>>
    /\ UNCHANGED waitq_lock

\* clear_wait, and the loop of clear_wait_internal after a failed try: the
\* thread lock was dropped meanwhile, and thread->waitq is looked at again.
clear_wait_internal(t, kind) ==
    /\ clearing[t][kind] # None
    /\ IF clearing[t][kind] \in {Start, waitq[t]}
       THEN /\ ClearTurn(t, kind)
            /\ IF Rousts(t, kind) THEN CancelTimers({t}) ELSE UNCHANGED timerVars
            /\ IF kind = "safely" /\ ~Rousts(t, kind) /\ ~Retries(t, kind)
               THEN AbortLater(t) ELSE UNCHANGED sched_flags
       ELSE /\ clearing' = [clearing EXCEPT ![t][kind] = None]
            /\ IF kind = "safely" THEN AbortLater(t) ELSE UNCHANGED sched_flags
            /\ UNCHANGED <<threadVars, queueVars, timerVars>>
    /\ UNCHANGED waitq_lock

\* special_handler, on the way out of the kernel.
special_handler(t) ==
    /\ sched_flags[t] # {}
    /\ sched_flags' = [sched_flags EXCEPT ![t] = {}]
    /\ UNCHANGED <<threadVars, queueVars, timerVars, waitq_lock, clearing>>

\* thread_dispatch of a thread that has called thread_block: off the processor
\* if its wait has not been ended yet.
Dispatch(t) ==
    /\ state' = [state EXCEPT ![t] = IF "WAIT" \in @ THEN @ \ {"RUN"} ELSE @]
    /\ UNCHANGED <<at_safe_point, wait_result, waitq, wait_event, queueVars, timerVars, sched_flags,
                   waitq_lock, clearing>>

Clock(t) == timer_queue_expire(t) \/ thread_timer_expire(t)
Abort(t) == act_abort(t) \/ thread_abort_safely(t)

-----------------------------------------------------------------------------
(* What these keep. *)

\* A thread is on a queue exactly while it waits, on the one it names: whatever
\* ends a wait takes the thread off, and a thread that sleeps can be found by a
\* wakeup (do_waitq_select_n_locked) and by clear_wait_internal.  The links of a
\* queue make a list: a thread is on it once, and of two one is before the other.
SleepersQueued ==
    /\ \A t \in Threads :
         /\ "WAIT" \in state[t] <=> waitq[t] # None
         /\ "RUN" \in state[t] \/ "WAIT" \in state[t]
         /\ \A q \in Waitqs : t \in waitq_queue[q] <=> waitq[t] = q
    /\ \A q \in Waitqs : \A t \in waitq_queue[q] :
         /\ ahead[t] \subseteq waitq_queue[q] \ {t}
         /\ \A u \in waitq_queue[q] \ {t} : u \in ahead[t] <=> t \notin ahead[u]
         /\ \A u \in ahead[t] : ahead[u] \subseteq ahead[t]

\* wait_timer_active counts the callouts to come, and a timer that is set has
\* one: a wait with a deadline cannot lose it.
TimersCounted ==
    \A t \in Threads :
        /\ wait_timer_active[t] = firing[t] + (IF t \in armed THEN 1 ELSE 0)
        /\ wait_timer_is_set[t] => wait_timer_active[t] # 0 /\ waitq[t] # None
        /\ t \in armed => wait_timer_is_set[t]
=============================================================================
