------------------------------ MODULE EventWait ------------------------------
(***************************************************************************)
(* Waiting for events on the global wait queues: assert_wait and its       *)
(* variants, thread_wakeup_prim and thread_block of                        *)
(* osfmk/kern/sched_prim.c.  Several events share a queue.  A thread that  *)
(* has declared a wait may wake others before it blocks, as lck_mtx_sleep  *)
(* does when it drops the mutex in between.                                *)
(***************************************************************************)
EXTENDS ThreadWait

CONSTANTS
    global_eventq,  \* the queue an event hashes to
    Waits,          \* the waits each thread makes: [event, level, timed]
    Aborts          \* the threads that get aborted

ASSUME EventWaitConstants ==
    /\ global_eventq \in [Events -> GlobalQs]
    /\ Waits \in [Threads -> SUBSET [event : Events, level : Levels, timed : BOOLEAN]]
    /\ Aborts \subseteq Threads

VARIABLES
    pc,     \* where a thread is
    req,    \* the call it is making
    due     \* the clock has run out on its wait (no field of the code)

vars == <<waitVars, pc, req, due>>

Pcs == {"idle", "assert", "asserted", "wake", "blocked"}
Calls == [event : Events, level : Levels, timed : BOOLEAN, one : BOOLEAN, back : {"idle", "asserted"}]
NoCall == [event |-> None, level |-> "UNINT", timed |-> FALSE, one |-> FALSE, back |-> "idle"]

Init ==
    /\ WaitInit
    /\ pc = [t \in Threads |-> "idle"]
    /\ req = [t \in Threads |-> NoCall]
    /\ due = [t \in Threads |-> FALSE]

Goto(t, p) == pc' = [pc EXCEPT ![t] = p]

\* waitq_lock.
LockQueue(t, e) ==
    /\ waitq_lock[global_eventq[e]] = None
    /\ waitq_lock' = [waitq_lock EXCEPT ![global_eventq[e]] = t]
    /\ UNCHANGED <<threadVars, queueVars, timerVars, sched_flags, clearing, due>>

UnlockQueue(t) == waitq_lock' = [waitq_lock EXCEPT ![global_eventq[req[t].event]] = None]

\* assert_wait, assert_wait_timeout, assert_wait_deadline: the queue is locked.
assert_wait(t, w) ==
    /\ pc[t] = "idle"
    /\ LockQueue(t, w.event)
    /\ req' = [req EXCEPT ![t] = [event |-> w.event, level |-> w.level, timed |-> w.timed,
                                  one |-> FALSE, back |-> "idle"]]
    /\ Goto(t, "assert")

waitq_assert_wait64(t) ==
    /\ pc[t] = "assert"
    /\ waitq_assert_wait64_locked(t, global_eventq[req[t].event], req[t].event, req[t].level, req[t].timed)
    /\ UnlockQueue(t)
    /\ due' = [due EXCEPT ![t] = FALSE]
    /\ Goto(t, "asserted")
    /\ req' = [req EXCEPT ![t] = NoCall]
    /\ UNCHANGED clearing

\* thread_wakeup_prim.
thread_wakeup_prim(t, e, one) ==
    /\ pc[t] \in {"idle", "asserted"}
    /\ LockQueue(t, e)
    /\ req' = [req EXCEPT ![t] = [event |-> e, level |-> "UNINT", timed |-> FALSE, one |-> one, back |-> pc[t]]]
    /\ Goto(t, "wake")

waitq_wakeup64(t) ==
    /\ pc[t] = "wake"
    /\ LET e == req[t].event
           q == global_eventq[e]
       IN IF req[t].one
          THEN waitq_wakeup64_one_locked(q, e, "AWAKENED")
          ELSE waitq_wakeup64_all_locked(q, e, "AWAKENED")
    /\ UnlockQueue(t)
    /\ Goto(t, req[t].back)
    /\ req' = [req EXCEPT ![t] = NoCall]
    /\ UNCHANGED <<due, sched_flags, clearing>>

\* thread_block, and its return.
thread_block(t) ==
    /\ pc[t] = "asserted"
    /\ Dispatch(t)
    /\ Goto(t, "blocked")
    /\ UNCHANGED <<req, due>>

Resume(t) ==
    /\ pc[t] = "blocked"
    /\ "RUN" \in state[t]
    /\ Goto(t, "idle")
    /\ due' = [due EXCEPT ![t] = FALSE]
    /\ UNCHANGED <<waitVars, req>>

\* The way out of the kernel.
Return(t) ==
    /\ pc[t] = "idle"
    /\ special_handler(t)
    /\ UNCHANGED <<pc, req, due>>

\* What happens to a thread from outside.
Expire(t) ==
    /\ timer_queue_expire(t)
    /\ due' = [due EXCEPT ![t] = TRUE]
    /\ UNCHANGED <<pc, req>>

Callout(t) == thread_timer_expire(t) /\ UNCHANGED <<pc, req, due>>
Clear(t, kind) == clear_wait_internal(t, kind) /\ UNCHANGED <<pc, req, due>>

Outside(t) ==
    \/ Expire(t) \/ Callout(t)
    \/ t \in Aborts /\ Abort(t) /\ UNCHANGED <<pc, req, due>>
    \/ \E kind \in Kinds : Clear(t, kind)

Next ==
    \E t \in Threads :
        \/ \E w \in Waits[t] : assert_wait(t, w)
        \/ waitq_assert_wait64(t)
        \/ \E e \in Events, one \in BOOLEAN : thread_wakeup_prim(t, e, one)
        \/ waitq_wakeup64(t)
        \/ thread_block(t)
        \/ Resume(t)
        \/ Return(t)
        \/ Outside(t)

Spec == Init /\ [][Next]_vars

\* The threads that have a wait timer at all.
Timed == {t \in Threads : \E w \in Waits[t] : w.timed}

\* A thread that holds a queue's lock releases it, the clock advances, callouts
\* run, and a clear_wait that keeps trying for the queue's lock gets it (the
\* code panics after LockTimeOut tries).
Fairness ==
    /\ \A t \in Threads : WF_vars(waitq_assert_wait64(t) \/ waitq_wakeup64(t))
    /\ \A t \in Timed :
        /\ WF_vars(Expire(t))
        /\ WF_vars(Callout(t))
        /\ SF_vars(~Contended(t) /\ Clear(t, "timer"))

FairSpec == Spec /\ Fairness

-----------------------------------------------------------------------------
(* Properties of the clients' view. *)

\* A wakeup reaches the threads it is for: thread_wakeup leaves no thread
\* waiting for the event, thread_wakeup_one takes exactly one if there is one,
\* and neither ends the wait of a thread for another event.
WakeupsFind ==
    [][\A t \in Threads :
         pc[t] = "wake" /\ pc'[t] # "wake" =>
           LET before == {u \in Threads : wait_event[u] = req[t].event}
               after == {u \in Threads : wait_event'[u] = req[t].event}
           IN /\ after \subseteq before
              /\ IF req[t].one THEN before = {} \/ Cardinality(before \ after) = 1 ELSE after = {}
              /\ \A u \in Threads \ before : wait_event'[u] = wait_event[u]]_vars

\* thread_timer_expire acts only on a wait whose own deadline has passed: a
\* callout left over from an earlier wait of the thread neither ends the wait it
\* finds nor starts to try for its queue's lock (the count in
\* thread_timer_expire).  It says nothing of a clear_wait_internal that is
\* trying already: that one goes on if the thread waits on the same queue
\* again, and may end a newer wait that is not due.
TimeoutsDue ==
    [][\A t \in Threads :
         /\ clearing[t]["timer"] = None
         /\ \/ wait_result[t] = "WAITING" /\ wait_result'[t] = "TIMED_OUT"
            \/ clearing'[t]["timer"] # None
         => due[t]]_vars

\* A wait with a deadline ends: the callout of thread_timer_expire is not lost
\* among cancellations, late callouts and failed tries for the queue's lock.
DeadlineEnds ==
    \A t \in Timed : waitq[t] # None /\ wait_timer_is_set[t] ~> waitq[t] = None

\* Once thread_abort has returned, and until the thread leaves the kernel
\* (special_handler), it sleeps only where it cannot be interrupted.
AbortedAwake ==
    \A t \in Threads :
        sched_flags[t] = {"ABORT"} /\ clearing[t]["abort"] = None /\ "WAIT" \in state[t]
          => "UNINT" \in state[t]
=============================================================================
