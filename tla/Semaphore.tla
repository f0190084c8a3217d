------------------------------ MODULE Semaphore ------------------------------
(***************************************************************************)
(* The counting semaphores of osfmk/kern/sync_sema.c and their references  *)
(* (osfmk/kern/ipc_sync.c), over the wait queues of ThreadWait.            *)
(*                                                                         *)
(* A semaphore is its wait queue: semaphore_lock is the queue's lock.  One *)
(* task owns all the semaphores.  Each starts with one port that has send  *)
(* rights, and with the one reference that stands for these.  A call takes *)
(* a reference through the port, works under the lock in one step, and     *)
(* drops the reference; the traps and the in-kernel entry points differ in *)
(* who takes it.                                                           *)
(***************************************************************************)
EXTENDS ThreadWait, Integers

CONSTANTS
    SEMAPHORE_EVENT,
    InitialCount,   \* the value given to semaphore_create
    Waits,          \* the waits each thread calls: [wait, signal (or None), timed, noblock]
    SignalKinds,    \* "prepost", "all", "thread", "any"
    Endings,        \* "destroy", "destroy_all", "notify"
    Signallers,     \* the threads that signal and end semaphores
    Aborts,         \* threads that get aborted
    MaxCount,       \* bound: no prepost beyond this count
    MaxRefs         \* bound: no semaphore_destroy with so many references

Semaphores == Waitqs

ASSUME SemaphoreConstants ==
    /\ Events = {SEMAPHORE_EVENT} /\ GlobalQs = {}
    /\ InitialCount \in Nat /\ MaxCount \in Nat /\ MaxRefs \in Nat
    /\ Waits \in [Threads -> SUBSET [wait : Semaphores, signal : Semaphores \cup {None},
                                     timed : BOOLEAN, noblock : BOOLEAN]]
    /\ SignalKinds \subseteq {"prepost", "all", "thread", "any"}
    /\ Endings \subseteq {"destroy", "destroy_all", "notify"}
    /\ Signallers \subseteq Threads /\ Aborts \subseteq Threads

VARIABLES
    count,
    active,     \* also: owner is the task, and the semaphore is on its list
    ref_count,
    srights,    \* the port has send rights, which hold one reference
    freed,      \* given back to semaphore_zone
    task_lock,
    pc,
    req,        \* the call a thread is in
    kr,         \* what a wait returns
    units       \* units of a semaphore the call was given (no field of the code)

semVars == <<count, active, ref_count, srights, freed, task_lock>>
vars == <<waitVars, semVars, pc, req, kr, units>>

Pcs == {"idle", "translate", "wait", "locked", "signal", "signalling", "clear", "block", "blocked",
        "leave", "last", "last_locked", "destroy", "destroy_task", "destroying",
        "all", "all_locked"}
Returns == {"SUCCESS", "TERMINATED", "TIMED_OUT", "ABORTED", "ALREADY_WAITING", "INVALID"}
NoReq == [op |-> "none", wait |-> None, signal |-> None, timed |-> FALSE, noblock |-> FALSE,
          kind |-> "prepost", target |-> None, dying |-> None]
Reqs == [op : {"none", "wait", "signal", "end"}, wait : Semaphores \cup {None}, signal : Semaphores \cup {None},
         timed : BOOLEAN, noblock : BOOLEAN, kind : {"prepost", "all", "thread", "any"},
         target : Threads \cup {None}, dying : Semaphores \cup {None}]

TypeOK ==
    /\ WaitTypeOK
    /\ count \in [Semaphores -> -1 .. MaxCount]
    /\ active \in [Semaphores -> BOOLEAN]
    /\ ref_count \in [Semaphores -> Nat]
    /\ srights \in [Semaphores -> BOOLEAN]
    /\ freed \in [Semaphores -> BOOLEAN]
    /\ task_lock \in Threads \cup {None}
    /\ pc \in [Threads -> Pcs]
    /\ req \in [Threads -> Reqs]
    /\ kr \in [Threads -> Returns]
    /\ units \in [Threads -> 0 .. 1]

\* semaphore_create and convert_semaphore_to_port have been called.
Init ==
    /\ WaitInit
    /\ count = [s \in Semaphores |-> InitialCount]
    /\ active = [s \in Semaphores |-> TRUE]
    /\ ref_count = [s \in Semaphores |-> 1]
    /\ srights = [s \in Semaphores |-> TRUE]
    /\ freed = [s \in Semaphores |-> FALSE]
    /\ task_lock = None
    /\ pc = [t \in Threads |-> "idle"]
    /\ req = [t \in Threads |-> NoReq]
    /\ kr = [t \in Threads |-> "SUCCESS"]
    /\ units = [t \in Threads |-> 0]

Goto(t, p) == pc' = [pc EXCEPT ![t] = p]
Return(t, r) == kr' = [kr EXCEPT ![t] = r]
Reference(s) == ref_count' = [ref_count EXCEPT ![s] = @ + 1]
Unlock(s) == waitq_lock' = [waitq_lock EXCEPT ![s] = None]

\* semaphore_lock, before the step that works under it.
Lock(t, s, p) ==
    /\ waitq_lock[s] = None
    /\ waitq_lock' = [waitq_lock EXCEPT ![s] = t]
    /\ Goto(t, p)
    /\ UNCHANGED <<threadVars, queueVars, timerVars, sched_flags, clearing, semVars, req, kr, units>>

\* The call has dropped its references, or has others to drop first; k is what
\* it will return.
Finish(t, r, k) ==
    IF r.wait = None /\ r.signal = None
    THEN /\ Goto(t, "idle")
         /\ req' = [req EXCEPT ![t] = NoReq]
         /\ Return(t, "SUCCESS")
         /\ units' = [units EXCEPT ![t] = 0]
    ELSE /\ Goto(t, "leave")
         /\ req' = [req EXCEPT ![t] = r]
         /\ Return(t, k)
         /\ UNCHANGED units

-----------------------------------------------------------------------------
(* semaphore_wait and its variants. *)

\* The call, up to the reference on the semaphore to signal, if there is one.
WaitCall(t, w) ==
    /\ pc[t] = "idle"
    /\ w.signal # None => srights[w.signal]
    /\ req' = [req EXCEPT ![t] = [NoReq EXCEPT !.op = "wait", !.wait = w.wait, !.signal = w.signal,
                                              !.timed = w.timed, !.noblock = w.noblock]]
    /\ IF w.signal # None THEN Reference(w.signal) ELSE UNCHANGED ref_count
    /\ Goto(t, "translate")
    /\ UNCHANGED <<waitVars, count, active, srights, freed, task_lock, kr, units>>

\* port_name_to_semaphore of the semaphore to wait for.
port_name_to_semaphore(t) ==
    /\ pc[t] = "translate"
    /\ \/ /\ srights[req[t].wait]
          /\ Reference(req[t].wait)
          /\ Goto(t, "wait")
          /\ UNCHANGED <<req, kr, units>>
       \/ /\ ~srights[req[t].wait]
          /\ Finish(t, [req[t] EXCEPT !.wait = None], "INVALID")
          /\ UNCHANGED ref_count
    /\ UNCHANGED <<waitVars, count, active, srights, freed, task_lock>>

\* Where semaphore_wait_internal goes on once the result is known.
AfterSignal(r) == IF r = "ALREADY_WAITING" THEN "block" ELSE "leave"

NoWait == UNCHANGED <<threadVars, queueVars, timerVars, sched_flags>>

\* Mutant: a new waiter does not mark the count.
mark_none(s) == UNCHANGED count

\* Mutant: the waiters are counted.
mark_counts(s) == count' = [count EXCEPT ![s] = @ - 1]

\* A negative count stands for any number of waiters.
MarkWaiter(s) == count' = [count EXCEPT ![s] = -1]

\* The signal, if any, is made whatever became of the wait.
AfterWait(t, r) == IF req[t].signal # None THEN "signal" ELSE AfterSignal(r)

\* semaphore_wait_internal, under the lock of the semaphore to wait for.
semaphore_wait_internal(t) ==
    LET s == req[t].wait
    IN /\ pc[t] = "locked"
       /\ \/ ~active[s] /\ Return(t, "TERMINATED") /\ NoWait /\ UNCHANGED <<count, units>>
          \/ /\ active[s] /\ count[s] > 0
             /\ count' = [count EXCEPT ![s] = @ - 1]
             /\ units' = [units EXCEPT ![t] = 1]
             /\ Return(t, "SUCCESS")
             /\ NoWait
          \/ /\ active[s] /\ count[s] <= 0 /\ req[t].noblock
             /\ Return(t, "TIMED_OUT") /\ NoWait /\ UNCHANGED <<count, units>>
          \/ /\ active[s] /\ count[s] <= 0 /\ ~req[t].noblock
             /\ MarkWaiter(s)
             /\ waitq_assert_wait64_locked(t, s, SEMAPHORE_EVENT, "ABORTSAFE", req[t].timed)
             /\ Return(t, "ALREADY_WAITING")
             /\ UNCHANGED units
       /\ Unlock(s)
       /\ Goto(t, AfterWait(t, kr'[t]))
       /\ UNCHANGED <<clearing, active, ref_count, srights, freed, task_lock, req>>

semaphore_convert_wait_result(result) ==
    CASE result = "AWAKENED" -> "SUCCESS"
      [] result = "TIMED_OUT" -> "TIMED_OUT"
      [] result = "INTERRUPTED" -> "ABORTED"
      [] result = "RESTART" -> "TERMINATED"

\* The semaphore to signal was dead: the thread has cleared its own wait.
Cleared(t) ==
    /\ pc[t] = "clear" /\ clearing[t]["self"] = None
    /\ LET r == semaphore_convert_wait_result(wait_result[t])
       IN Return(t, IF r = "ABORTED" THEN "TERMINATED" ELSE r)
    /\ Goto(t, "leave")
    /\ UNCHANGED <<waitVars, semVars, req, units>>

thread_block(t) ==
    /\ pc[t] = "block"
    /\ Dispatch(t)
    /\ Goto(t, "blocked")
    /\ UNCHANGED <<semVars, req, kr, units>>

\* The return of thread_block, or semaphore_wait_continue.
semaphore_wait_continue(t) ==
    /\ pc[t] = "blocked" /\ "RUN" \in state[t]
    /\ Return(t, semaphore_convert_wait_result(wait_result[t]))
    /\ Goto(t, "leave")
    /\ UNCHANGED <<waitVars, semVars, req, units>>

-----------------------------------------------------------------------------
(* semaphore_signal and its variants. *)

\* A signal through the port; target is the thread of semaphore_signal_thread.
SignalCall(t, s, kind, target) ==
    /\ pc[t] = "idle" /\ t \in Signallers /\ srights[s]
    /\ kind = "thread" <=> target # None
    /\ Reference(s)
    /\ req' = [req EXCEPT ![t] = [NoReq EXCEPT !.op = "signal", !.signal = s, !.kind = kind, !.target = target]]
    /\ Goto(t, "signal")
    /\ UNCHANGED <<waitVars, count, active, srights, freed, task_lock, kr, units>>

\* Mutant: the count is not reset when all waiters have gone.
recount_keeps(c) == c

\* The count once no waiter was found.
Recount(c) == IF c < 0 THEN 0 ELSE c

\* Taking one waiter; if there is none, all are gone and the count starts anew.
SignalOne(s, prepost) ==
    IF count[s] < 0 /\ waitq_select_one_locked(s, SEMAPHORE_EVENT) # {}
    THEN /\ waitq_wakeup64_one_locked(s, SEMAPHORE_EVENT, "AWAKENED")
         /\ UNCHANGED count
    ELSE /\ count' = [count EXCEPT ![s] = Recount(@) + (IF prepost THEN 1 ELSE 0)]
         /\ UNCHANGED <<threadVars, queueVars, timerVars>>

SignalAll(s) ==
    IF count[s] < 0
    THEN /\ count' = [count EXCEPT ![s] = 0]
         /\ waitq_wakeup64_all_locked(s, SEMAPHORE_EVENT, "AWAKENED")
    ELSE UNCHANGED <<count, threadVars, queueVars, timerVars>>

SignalThread(s, target) ==
    /\ IF count[s] < 0
       THEN waitq_wakeup64_thread_locked(s, SEMAPHORE_EVENT, target, "AWAKENED")
       ELSE UNCHANGED <<threadVars, queueVars, timerVars>>
    /\ UNCHANGED count

Woken(s) == {u \in Threads : waitq[u] = s /\ waitq'[u] = None}

\* semaphore_signal_internal, under the lock, and what its two kinds of caller
\* do with the result.  A wait whose signal finds a dead semaphore is cleared.
semaphore_signal_internal(t) ==
    LET s == req[t].signal
    IN /\ pc[t] = "signalling"
       /\ \/ ~active[s] /\ UNCHANGED <<count, threadVars, queueVars, timerVars>>
          \/ active[s] /\ req[t].kind = "prepost" /\ SignalOne(s, TRUE)
          \/ active[s] /\ req[t].kind = "any" /\ SignalOne(s, FALSE)
          \/ active[s] /\ req[t].kind = "all" /\ SignalAll(s)
          \/ active[s] /\ req[t].kind = "thread" /\ SignalThread(s, req[t].target)
       /\ units' = [u \in Threads |-> IF u \in Woken(s) THEN 1 ELSE units[u]]
       /\ Unlock(s)
       /\ IF req[t].op = "wait"
          THEN /\ Goto(t, IF ~active[s] THEN "clear" ELSE AfterSignal(kr[t]))
               /\ clearing' = [clearing EXCEPT ![t]["self"] = IF ~active[s] THEN Start ELSE None]
          ELSE /\ Goto(t, "leave")
               /\ UNCHANGED clearing
       /\ UNCHANGED <<sched_flags, active, ref_count, srights, freed, task_lock, req, kr>>

-----------------------------------------------------------------------------
(* References and destruction. *)

\* Mutant: waiters are told that they were signalled.
wake_destroyed_awakened(s) == waitq_wakeup64_all_locked(s, SEMAPHORE_EVENT, "AWAKENED")

WakeDestroyed(s) == waitq_wakeup64_all_locked(s, SEMAPHORE_EVENT, "RESTART")

\* semaphore_destroy_internal, with the task and the semaphore locked.
semaphore_destroy_internal(s) ==
    /\ active' = [active EXCEPT ![s] = FALSE]
    /\ count' = [count EXCEPT ![s] = 0]
    /\ IF count[s] < 0
       THEN WakeDestroyed(s)
       ELSE UNCHANGED <<threadVars, queueVars, timerVars>>
    /\ Unlock(s)
    /\ UNCHANGED <<sched_flags, clearing>>

\* semaphore_dereference at the end of a call, first of the semaphore waited
\* for (or destroyed), then of the one signalled; the last reference goes on.
semaphore_dereference(t) ==
    LET s == IF req[t].wait # None THEN req[t].wait ELSE req[t].signal
        r == IF req[t].wait # None THEN [req[t] EXCEPT !.wait = None] ELSE [req[t] EXCEPT !.signal = None]
    IN /\ pc[t] = "leave"
       /\ ref_count' = [ref_count EXCEPT ![s] = @ - 1]
       /\ IF ref_count[s] # 1
          THEN Finish(t, r, kr[t])
          ELSE /\ Goto(t, "last")
               /\ req' = [req EXCEPT ![t] = [r EXCEPT !.dying = s]]
               /\ UNCHANGED <<kr, units>>
       /\ UNCHANGED <<waitVars, count, active, srights, freed, task_lock>>

\* zfree.
Free(t) ==
    /\ freed' = [freed EXCEPT ![req[t].dying] = TRUE]
    /\ Finish(t, [req[t] EXCEPT !.dying = None], kr[t])

\* Mutant: the semaphore is freed nevertheless.
task_busy_frees(t, s) ==
    /\ Unlock(s)
    /\ Free(t)
    /\ UNCHANGED <<threadVars, queueVars, timerVars, sched_flags, clearing, count, active>>

\* Mutant: the semaphore is left to its owner.
task_busy_leaks(t, s) ==
    /\ Unlock(s)
    /\ Finish(t, [req[t] EXCEPT !.dying = None], kr[t])
    /\ UNCHANGED <<threadVars, queueVars, timerVars, sched_flags, clearing, count, active, freed>>

\* task_lock_try failed: let go of the semaphore, and try again.
TaskBusy(t, s) ==
    /\ Unlock(s)
    /\ Goto(t, "last")
    /\ UNCHANGED <<threadVars, queueVars, timerVars, sched_flags, clearing, count, active, freed,
                   req, kr, units>>

\* The last reference: destroy the semaphore if that has not been done, with
\* the task's lock only tried, for it comes before the semaphore's.
LastReference(t) ==
    LET s == req[t].dying
    IN /\ pc[t] = "last_locked"
       /\ \/ /\ active[s] /\ task_lock = None
             /\ semaphore_destroy_internal(s)
             /\ Free(t)
          \/ active[s] /\ task_lock # None /\ TaskBusy(t, s)
          \/ /\ ~active[s]
             /\ Unlock(s)
             /\ Free(t)
             /\ UNCHANGED <<threadVars, queueVars, timerVars, sched_flags, clearing, count, active>>
       /\ UNCHANGED <<ref_count, srights, task_lock>>

\* semaphore_notify: the last send right is gone.
semaphore_notify(t, s) ==
    /\ pc[t] = "idle" /\ t \in Signallers /\ "notify" \in Endings
    /\ srights[s]
    /\ srights' = [srights EXCEPT ![s] = FALSE]
    /\ req' = [req EXCEPT ![t] = [NoReq EXCEPT !.op = "end", !.wait = s]]
    /\ Goto(t, "leave")
    /\ UNCHANGED <<waitVars, count, active, ref_count, freed, task_lock, kr, units>>

\* semaphore_destroy: the reference MIG hands over, then the task's lock.
DestroyCall(t, s) ==
    /\ pc[t] = "idle" /\ t \in Signallers /\ "destroy" \in Endings
    /\ srights[s] /\ ref_count[s] < MaxRefs
    /\ Reference(s)
    /\ req' = [req EXCEPT ![t] = [NoReq EXCEPT !.op = "end", !.wait = s]]
    /\ Goto(t, "destroy")
    /\ UNCHANGED <<waitVars, count, active, srights, freed, task_lock, kr, units>>

LockTask(t, from, to) ==
    /\ pc[t] = from /\ task_lock = None
    /\ task_lock' = t
    /\ Goto(t, to)
    /\ UNCHANGED <<waitVars, count, active, ref_count, srights, freed, req, kr, units>>

\* If the task is not (or no longer) the owner, the reference is kept.
semaphore_destroy(t) ==
    LET s == req[t].wait
    IN /\ pc[t] = "destroying"
       /\ \/ /\ active[s]
             /\ semaphore_destroy_internal(s)
             /\ Goto(t, "leave")
             /\ UNCHANGED req
          \/ /\ ~active[s]
             /\ Unlock(s)
             /\ Goto(t, "idle")
             /\ req' = [req EXCEPT ![t] = NoReq]
             /\ UNCHANGED <<threadVars, queueVars, timerVars, sched_flags, clearing, count, active>>
       /\ task_lock' = None
       /\ UNCHANGED <<ref_count, srights, freed, kr, units>>

\* semaphore_destroy_all, of a task that ends: one semaphore of its list after
\* the other, without a reference.
DestroyAllLock(t, s) ==
    /\ pc[t] = "all" /\ active[s] /\ waitq_lock[s] = None
    /\ waitq_lock' = [waitq_lock EXCEPT ![s] = t]
    /\ req' = [req EXCEPT ![t].dying = s]
    /\ Goto(t, "all_locked")
    /\ UNCHANGED <<threadVars, queueVars, timerVars, sched_flags, clearing, semVars, kr, units>>

semaphore_destroy_all(t) ==
    \/ /\ pc[t] = "all_locked"
       /\ semaphore_destroy_internal(req[t].dying)
       /\ req' = [req EXCEPT ![t] = NoReq]
       /\ Goto(t, "all")
       /\ UNCHANGED <<ref_count, srights, freed, task_lock, kr, units>>
    \/ /\ pc[t] = "all" /\ \A s \in Semaphores : ~active[s]
       /\ task_lock' = None
       /\ Goto(t, "idle")
       /\ UNCHANGED <<waitVars, count, active, ref_count, srights, freed, req, kr, units>>

-----------------------------------------------------------------------------
\* The calls a thread may make.
Call(t) ==
    \/ \E w \in Waits[t] : WaitCall(t, w)
    \/ \E s \in Semaphores, kind \in SignalKinds, u \in Threads \cup {None} :
         SignalCall(t, s, kind, u)
    \/ \E s \in Semaphores : DestroyCall(t, s) \/ semaphore_notify(t, s)
    \/ "destroy_all" \in Endings /\ t \in Signallers /\ LockTask(t, "idle", "all")

\* A thread in a call goes on.
Continue(t) ==
    \/ port_name_to_semaphore(t)
    \/ pc[t] = "wait" /\ Lock(t, req[t].wait, "locked")
    \/ semaphore_wait_internal(t)
    \/ /\ pc[t] = "signal"
       /\ req[t].kind = "prepost" => count[req[t].signal] < MaxCount
       /\ Lock(t, req[t].signal, "signalling")
    \/ semaphore_signal_internal(t)
    \/ Cleared(t)
    \/ thread_block(t)
    \/ semaphore_wait_continue(t)
    \/ semaphore_dereference(t)
    \/ pc[t] = "last" /\ Lock(t, req[t].dying, "last_locked")
    \/ LastReference(t)
    \/ LockTask(t, "destroy", "destroy_task")
    \/ pc[t] = "destroy_task" /\ Lock(t, req[t].wait, "destroying")
    \/ semaphore_destroy(t)
    \/ \E s \in Semaphores : DestroyAllLock(t, s)
    \/ semaphore_destroy_all(t)

Outside(t) ==
    /\ \/ Clock(t)
       \/ t \in Aborts /\ Abort(t)
       \/ \E kind \in Kinds : clear_wait_internal(t, kind)
       \/ pc[t] = "idle" /\ special_handler(t)
    /\ UNCHANGED <<semVars, pc, req, kr, units>>

Next == \E t \in Threads : Call(t) \/ Continue(t) \/ Outside(t)

Spec == Init /\ [][Next]_vars

\* A thread in a call goes on; a lock that is free again and again is got, by
\* the tries of semaphore_dereference too (mutex_pause backs off).
Fairness ==
    \A t \in Threads :
        /\ SF_vars(Continue(t) /\ pc[t] # "last_locked")
        /\ WF_vars(LastReference(t))
        /\ SF_vars(LastReference(t) /\ freed' # freed)

FairSpec == Spec /\ Fairness

-----------------------------------------------------------------------------
(* Properties. *)

\* A thread waits only on an active semaphore, and its count says so: signals,
\* timeouts, aborts and destruction never leave a sleeper behind a count that a
\* signal would merely raise.
WaitersMarked ==
    \A s \in Semaphores : waitq_queue[s] # {} => active[s] /\ count[s] = -1

\* A wait, plain, timed or polling, succeeds exactly if it was given a unit,
\* from the count or by a signal: no unit is lost when a wakeup races with a
\* timeout, an abort or destruction, and none is made up.  It does not hold of a
\* semaphore_wait_signal whose signal finds a dead semaphore: that one takes its
\* result from self->wait_result also when it has not waited, and may return
\* what an earlier wait left there.
UnitsDelivered ==
    \A t \in Threads :
        /\ pc[t] = "leave" /\ req[t].op = "wait"
        /\ req[t].signal # None => active[req[t].signal]
        => (kr[t] = "SUCCESS" <=> units[t] = 1)

\* semaphore_signal adds one unit: to the count, or to one thread that waits,
\* whatever the waiters that timed out left in the count.
SignalCounts ==
    [][\A t \in Threads :
         LET s == req[t].signal
             value(c) == IF c > 0 THEN c ELSE 0
         IN pc[t] = "signalling" /\ pc'[t] # "signalling" /\ req[t].kind = "prepost" /\ active[s]
              => value(count'[s]) + Cardinality(Woken(s)) = value(count[s]) + 1]_vars

\* The references that are in use: of the port's rights and of the calls.
Holders(s) ==
    (IF srights[s] THEN 1 ELSE 0)
    + Cardinality({t \in Threads : req[t].wait = s /\ pc[t] # "translate"})
    + Cardinality({t \in Threads : req[t].signal = s})

\* A semaphore that was freed is not active (the task's list would find it),
\* nobody holds a reference or its lock, or waits on it.
FreedUnused ==
    \A s \in Semaphores :
        freed[s] => ~active[s] /\ Holders(s) = 0 /\ waitq_lock[s] = None /\ waitq_queue[s] = {}

\* The last reference frees the semaphore, although it takes the task's lock
\* against the order in which semaphore_destroy and semaphore_destroy_all do.
LastReferenceFrees == \A s \in Semaphores : ref_count[s] = 0 ~> freed[s]
=============================================================================
