----------------------------- MODULE ThreadCall -----------------------------
(***************************************************************************)
(* Thread calls: osfmk/kern/thread_call.c.  A call is put on the pending   *)
(* or the delayed queue of its group; worker threads of the group take     *)
(* pending calls and run them; a daemon makes workers; a timer moves       *)
(* delayed calls that are due to the pending queue, another one retires    *)
(* surplus workers.                                                        *)
(*                                                                         *)
(* One lock orders everything.  A step is what happens while it is held,   *)
(* or one iteration of a loop under it: `locked' then names its holder.    *)
(* Times are distances from the present, so that the clock has no bound;   *)
(* of tc_submit_count and tc_finish_count only the difference is kept.     *)
(***************************************************************************)
EXTENDS Integers, Sequences, FiniteSets, Functions

CONSTANTS
    Alloc,      \* calls from thread_call_allocate
    Setup,      \* calls in their clients' storage, from thread_call_setup
    Internal,   \* internal_call_storage
    Alike,      \* calls with the function and parameter thread_call_func_cancel names
    Groups,     \* sequence of the groups, in the order the daemon looks at them
    group_of,   \* the group of each call (tc_pri)
    Setups,     \* for each group, the arguments thread_call_group_setup may get
    Workers,    \* bound: worker threads that exist at a time
    Clients,    \* threads that wait for calls
    Delays,     \* soft and hard deadlines, rate limited or not, asked for each call
    Uses,       \* what clients do with each call
    Blocking,   \* calls whose function may block
    CanFail,    \* thread creation may fail
    THREAD_CALL_ADD_RATIO,
    None

Calls == Alloc \cup Setup \cup Internal
GroupSet == {Groups[i] : i \in DOMAIN Groups}

ASSUME ThreadCallConstants ==
    /\ Groups \in Seq(GroupSet) /\ Groups # <<>>
    /\ Alloc \cap Setup = {} /\ (Alloc \cup Setup) \cap Internal = {}
    /\ group_of \in [Calls -> GroupSet]
    /\ \A g \in GroupSet : Setups[g] \subseteq [target : Nat, parallel : BOOLEAN]
    /\ \A g \in GroupSet \ {Groups[1]} : \A setup \in Setups[g] : setup.parallel
    /\ \A c \in Setup \cup Internal : group_of[c] = Groups[1]
    /\ Alike \subseteq Calls
    /\ \A c \in Setup : Uses[c] \subseteq {"enter", "delay", "cancel"}
    /\ \A c \in Calls : Delays[c] \subseteq [soft : Nat, hard : Nat \ {0}, limited : BOOLEAN]
    /\ \A c \in Calls : \A d \in Delays[c] : d.soft <= d.hard
    /\ None \notin [soft : Nat, hard : Nat, limited : BOOLEAN]
    /\ IsFiniteSet(Workers) /\ None \notin Workers \cup Calls \cup GroupSet

VARIABLES
    queue,          \* tc_call.queue of each call
    deadline,       \* soft and hard deadline of each call
    refs,           \* tc_refs
    wait,           \* THREAD_CALL_WAIT
    behind,         \* tc_submit_count - tc_finish_count, of calls in Alloc
    live,           \* the call's storage is allocated
    owned,          \* the client has not yet freed the call
    pending, delayed,                            \* the queues of each group
    pending_count, idle_count, active_count,     \* its counts
    target, parallel, sched_call, dealloc_active, \* its setup and flags
    delayed_timer, delayed_firing,               \* armed for, callout on its way
    dealloc_timer, dealloc_firing,
    worker,         \* where each worker is, its group and its call
    daemon,         \* where the daemon is, and the group it looks at
    daemon_awake,
    lost,           \* history: threads counted as active that could not be created
    client,         \* where each waiting client is
    locked          \* who goes on under the lock

callVars == <<queue, deadline, refs, wait, behind, live, owned, client>>
queueVars == <<pending, delayed, pending_count>>
poolVars == <<idle_count, active_count, parallel, worker, daemon, daemon_awake, lost>>
setupVars == <<target, sched_call>>
timerVars == <<delayed_timer, delayed_firing>>
deallocVars == <<dealloc_active, dealloc_timer, dealloc_firing>>
vars == <<callVars, queueVars, poolVars, setupVars, timerVars, deallocVars, locked>>

NoWork == [at |-> "none", group |-> None, call |-> None]
NoWait == [at |-> "out", call |-> None, left |-> 0]
NoDelay == [soft |-> 0, hard |-> 0, limited |-> FALSE]
HeldBy(what, who) == [by |-> what, who |-> who]
Free == HeldBy("none", None)

\* A panic: whoever it is keeps the lock for ever.
Panic == HeldBy("panic", None)

\* Workers that run a call's function, and those not yet done with the call.
Running(c) == {w \in Workers : worker[w].call = c /\ worker[w].at \in {"running", "blocked"}}
Touching(c) == {w \in Workers : worker[w].call = c}

\* A worker goes to another place, with a call or none.
Moved(w, at, c) == [worker EXCEPT ![w] = [at |-> at, group |-> worker[w].group, call |-> c]]

Asleep(g) == {w \in Workers : worker[w].at = "idle" /\ worker[w].group = g}

-----------------------------------------------------------------------------
(* The queues. *)

Position(s, c) == CHOOSE i \in DOMAIN s : s[i] = c

\* The entry at place i leaves a queue; entry c comes in at place i.
remque(s, i) == SubSeq(s, 1, i - 1) \o SubSeq(s, i + 1, Len(s))
insque(s, i, c) == SubSeq(s, 1, i - 1) \o <<c>> \o SubSeq(s, i, Len(s))

Without(s, c) == IF \E i \in DOMAIN s : s[i] = c THEN remque(s, Position(s, c)) ELSE s

\* call_entry_enqueue_deadline: after the entries with an earlier or the same
\* deadline; an entry whose deadline stays the same keeps its place.
Inserted(s, c, hard) ==
    LET others == Without(s, c)
        earlier == {i \in DOMAIN others : deadline[others[i]].hard <= hard}
    IN  IF others # s /\ deadline[c].hard = hard
        THEN s
        ELSE insque(others, Cardinality(earlier) + 1, c)

\* tc_submit_count and tc_finish_count go up.  Nobody can wait for calls other
\* than those in Alloc, and their counts are not kept.
Submitted(c) == IF c \in Alloc THEN [behind EXCEPT ![c] = @ + 1] ELSE behind
Retired(c) == IF c \in Alloc THEN [behind EXCEPT ![c] = @ - 1] ELSE behind

\* When tc_finish_count goes up, clients that wait for c have one less to wait for.
Finished(c) ==
    [k \in Clients |-> IF client[k].call = c /\ client[k].left > 0
                        THEN [client[k] EXCEPT !.left = @ - 1]
                        ELSE client[k]]

\* thread_call_group_should_add_thread, with p calls pending: it says yes when
\* MustAdd, may say yes when MayAdd (the load on the system decides), and
\* panics when the daemon asks in a state with IdlePanic.
MustAdd(g, p) ==
    /\ p > 0
    /\ active_count[g] = 0 \/ (parallel[g] /\ active_count[g] < target[g])

MayAdd(g, p) ==
    \/ MustAdd(g, p)
    \/ parallel[g] /\ p > THREAD_CALL_ADD_RATIO * active_count[g]

IdlePanic(g) == parallel[g] /\ pending_count[g] > 0 /\ idle_count[g] > 0

\* thread_call_wake, with p calls pending.
thread_call_wake(g, p) ==
    \/ /\ ~parallel[g] /\ active_count[g] # 0
       /\ UNCHANGED <<poolVars, dealloc_timer>>
    \/ /\ parallel[g] \/ active_count[g] = 0
       /\ \E w \in Asleep(g) : worker' = [worker EXCEPT ![w].at = "start"]
       /\ idle_count' = [idle_count EXCEPT ![g] = @ - 1]
       /\ active_count' = [active_count EXCEPT ![g] = @ + 1]
       \* group->flags &= TCG_DEALLOC_ACTIVE
       /\ parallel' = [parallel EXCEPT ![g] = @ /\ idle_count[g] # 1]
       /\ dealloc_timer' = [dealloc_timer EXCEPT ![g] = @ /\ idle_count[g] # 1]
       /\ UNCHANGED <<daemon, daemon_awake, lost>>
    \/ /\ parallel[g] \/ active_count[g] = 0
       /\ Asleep(g) = {}
       /\ \/ /\ ~daemon_awake /\ MayAdd(g, p)
             /\ daemon_awake' = TRUE
             /\ daemon' = [at |-> "scan", i |-> 1]
          \/ /\ daemon_awake \/ ~MustAdd(g, p)
             /\ UNCHANGED <<daemon, daemon_awake>>
       /\ UNCHANGED <<idle_count, active_count, parallel, worker, lost, dealloc_timer>>

\* Mutant: a delayed call is submitted again when it is due.
SubmitsTwice(c) ==
    LET g == group_of[c]
    IN  /\ queue' = [queue EXCEPT ![c] = "pending"]
        /\ deadline' = [deadline EXCEPT ![c] = NoDelay]
        /\ delayed' = [delayed EXCEPT ![g] = Without(@, c)]
        /\ pending' = [pending EXCEPT ![g] = Append(@, c)]
        /\ behind' = Submitted(c)
        /\ pending_count' = [pending_count EXCEPT ![g] = @ + 1]
        /\ thread_call_wake(g, pending_count[g] + 1)
        /\ UNCHANGED <<dealloc_active, dealloc_firing, setupVars>>

\* Mutant: a delayed call stays on its queue when it is entered.
StaysDelayed(c) ==
    LET g == group_of[c]
    IN  /\ queue' = [queue EXCEPT ![c] = "pending"]
        /\ deadline' = [deadline EXCEPT ![c] = NoDelay]
        /\ pending' = [pending EXCEPT ![g] = Append(@, c)]
        /\ behind' = IF queue[c] = "none" THEN Submitted(c) ELSE behind
        /\ pending_count' = [pending_count EXCEPT ![g] = @ + 1]
        /\ thread_call_wake(g, pending_count[g] + 1)
        /\ UNCHANGED <<delayed, dealloc_active, dealloc_firing, setupVars>>

\* _pending_call_enqueue
pending_call_enqueue(c) ==
    LET g == group_of[c]
    IN  /\ queue' = [queue EXCEPT ![c] = "pending"]
        /\ deadline' = [deadline EXCEPT ![c] = NoDelay]
        /\ delayed' = [delayed EXCEPT ![g] = Without(@, c)]
        /\ pending' = [pending EXCEPT ![g] = Append(@, c)]
        /\ behind' = IF queue[c] = "none" THEN Submitted(c) ELSE behind
        /\ pending_count' = [pending_count EXCEPT ![g] = @ + 1]
        /\ thread_call_wake(g, pending_count[g] + 1)
        /\ UNCHANGED <<dealloc_active, dealloc_firing, setupVars>>

\* _delayed_call_enqueue and, when the call comes first, _set_delayed_call_timer.
delayed_call_enqueue(c, d) ==
    LET g == group_of[c]
    IN  /\ queue' = [queue EXCEPT ![c] = "delayed"]
        /\ deadline' = [deadline EXCEPT ![c] = d]
        /\ delayed' = [delayed EXCEPT ![g] = Inserted(@, c, d.hard)]
        /\ pending' = [pending EXCEPT ![g] = Without(@, c)]
        /\ pending_count' = [pending_count EXCEPT ![g] = IF queue[c] = "pending" THEN @ - 1 ELSE @]
        /\ delayed_timer' = IF Head(delayed'[g]) = c THEN [delayed_timer EXCEPT ![g] = d] ELSE delayed_timer
        /\ UNCHANGED <<delayed_firing, poolVars, setupVars, deallocVars>>

\* _call_dequeue
call_dequeue(c) ==
    LET g == group_of[c]
    IN  /\ queue' = [queue EXCEPT ![c] = "none"]
        /\ deadline' = [deadline EXCEPT ![c] = NoDelay]
        /\ pending' = [pending EXCEPT ![g] = Without(@, c)]
        /\ delayed' = [delayed EXCEPT ![g] = Without(@, c)]
        /\ pending_count' = [pending_count EXCEPT ![g] = IF queue[c] = "pending" THEN @ - 1 ELSE @]
        /\ behind' = Retired(c)

-----------------------------------------------------------------------------
(* The clients.  A client uses a call it has allocated and not freed, in   *)
(* the ways Uses names.                                                    *)

May(c, use) == owned[c] /\ use \in Uses[c] /\ locked = Free

\* thread_call_enter, thread_call_enter1
thread_call_enter(c) ==
    /\ May(c, "enter")
    /\ queue[c] # "pending"
    /\ pending_call_enqueue(c)
    /\ UNCHANGED <<refs, wait, live, owned, client, timerVars, locked>>

\* thread_call_enter_delayed_internal
thread_call_enter_delayed(c, d) ==
    /\ May(c, "delay")
    /\ delayed_call_enqueue(c, d)
    /\ behind' = IF queue[c] = "none" THEN Submitted(c) ELSE behind
    /\ UNCHANGED <<refs, wait, live, owned, client, locked>>

\* Mutant: the timer is not set for the calls that remain.
CancelLeavesTimer(c) ==
    /\ May(c, "cancel")
    /\ queue[c] # "none"
    /\ call_dequeue(c)
    /\ client' = Finished(c)
    /\ LET g == group_of[c]
       IN  delayed_timer' =
               IF delayed[g] # <<>> /\ Head(delayed[g]) = c
               THEN [delayed_timer EXCEPT ![g] =
                       None]
               ELSE delayed_timer
    /\ UNCHANGED <<refs, wait, live, owned, delayed_firing, poolVars, setupVars, deallocVars, locked>>

\* thread_call_cancel
thread_call_cancel(c) ==
    /\ May(c, "cancel")
    /\ queue[c] # "none"
    /\ call_dequeue(c)
    /\ client' = Finished(c)
    /\ LET g == group_of[c]
       IN  delayed_timer' =
               IF delayed[g] # <<>> /\ Head(delayed[g]) = c
               THEN [delayed_timer EXCEPT ![g] =
                       IF delayed'[g] = <<>> THEN None ELSE deadline[Head(delayed'[g])]]
               ELSE delayed_timer
    /\ UNCHANGED <<refs, wait, live, owned, delayed_firing, poolVars, setupVars, deallocVars, locked>>

\* Mutant: the client waits without setting the flag.
WaitsSilently(k, c) ==
    /\ May(c, "wait")
    /\ client[k].at = "out"
    /\ \/ /\ queue[c] # "none"
          /\ call_dequeue(c)
          /\ client' = [Finished(c) EXCEPT ![k] =
                          [at |-> "done", call |-> c, left |-> 0]]
          /\ UNCHANGED wait
       \/ /\ queue[c] = "none"
          /\ client' = [client EXCEPT ![k] =
                          [at |-> IF behind[c] > 0 THEN "wait" ELSE "done",
                           call |-> c, left |-> behind[c]]]
          /\ UNCHANGED wait
          /\ UNCHANGED <<queue, deadline, pending, delayed, pending_count, behind>>
    /\ UNCHANGED <<refs, live, owned, timerVars, poolVars, setupVars, deallocVars, locked>>

\* thread_call_cancel_wait: take the call off its queue, or else note what has
\* been submitted (thread_call_wait_locked).
thread_call_cancel_wait(k, c) ==
    /\ May(c, "wait")
    /\ client[k].at = "out"
    /\ \/ /\ queue[c] # "none"
          /\ call_dequeue(c)
          /\ client' = [Finished(c) EXCEPT ![k] =
                          [at |-> "done", call |-> c, left |-> 0]]
          /\ UNCHANGED wait
       \/ /\ queue[c] = "none"
          /\ client' = [client EXCEPT ![k] =
                          [at |-> IF behind[c] > 0 THEN "wait" ELSE "done",
                           call |-> c, left |-> behind[c]]]
          /\ wait' = [wait EXCEPT ![c] = @ \/ behind[c] > 0]
          /\ UNCHANGED <<queue, deadline, pending, delayed, pending_count, behind>>
    /\ UNCHANGED <<refs, live, owned, timerVars, poolVars, setupVars, deallocVars, locked>>

\* Mutant: the client waits again without setting the flag.
WaitsUnmarked(k) ==
    LET c == client[k].call
    IN  /\ client[k].at = "woken"
        /\ locked = Free
        /\ client' = [client EXCEPT ![k].at = IF client[k].left > 0 THEN "wait" ELSE "done"]
        /\ UNCHANGED wait
        /\ UNCHANGED <<queue, deadline, refs, behind, live, owned, queueVars, timerVars, poolVars,
                       setupVars, deallocVars, locked>>

\* thread_call_wait_locked, after the client was woken.
thread_call_wait_locked(k) ==
    LET c == client[k].call
    IN  /\ client[k].at = "woken"
        /\ locked = Free
        /\ client' = [client EXCEPT ![k].at = IF client[k].left > 0 THEN "wait" ELSE "done"]
        /\ wait' = [wait EXCEPT ![c] = @ \/ client[k].left > 0]
        /\ UNCHANGED <<queue, deadline, refs, behind, live, owned, queueVars, timerVars, poolVars,
                       setupVars, deallocVars, locked>>

\* thread_call_cancel_wait returns.
cancel_wait_returns(k) ==
    /\ client[k].at = "done"
    /\ client' = [client EXCEPT ![k] = NoWait]
    /\ UNCHANGED <<queue, deadline, refs, wait, behind, live, owned, queueVars, timerVars, poolVars,
                   setupVars, deallocVars, locked>>

\* Mutant: the storage goes although a function is in flight.
FreeInFlight(c) ==
    /\ May(c, "free")
    /\ \A k \in Clients : client[k].call # c
    /\ queue[c] = "none"
    /\ refs' = [refs EXCEPT ![c] = @ - 1]
    /\ owned' = [owned EXCEPT ![c] = FALSE]
    /\ live' = [live EXCEPT ![c] = FALSE]
    /\ UNCHANGED <<queue, deadline, wait, behind, client, queueVars, timerVars, poolVars,
                   setupVars, deallocVars, locked>>

\* thread_call_free.  Nobody frees a call that another client still waits for.
thread_call_free(c) ==
    /\ May(c, "free")
    /\ \A k \in Clients : client[k].call # c
    /\ queue[c] = "none"
    /\ refs' = [refs EXCEPT ![c] = @ - 1]
    /\ owned' = [owned EXCEPT ![c] = FALSE]
    /\ live' = [live EXCEPT ![c] = refs[c] # 1]
    /\ UNCHANGED <<queue, deadline, wait, behind, client, queueVars, timerVars, poolVars,
                   setupVars, deallocVars, locked>>

\* thread_call_allocate: the storage may be used again.
thread_call_allocate(c) ==
    /\ c \in Alloc /\ ~live[c]
    /\ live' = [live EXCEPT ![c] = TRUE]
    /\ owned' = [owned EXCEPT ![c] = TRUE]
    /\ refs' = [refs EXCEPT ![c] = 1]
    /\ wait' = [wait EXCEPT ![c] = FALSE]
    /\ behind' = [behind EXCEPT ![c] = 0]
    /\ UNCHANGED <<queue, deadline, client, queueVars, timerVars, poolVars, setupVars,
                   deallocVars, locked>>

\* thread_call_func_delayed: an entry of the internal storage, taken off its
\* free list.
thread_call_func_delayed(c, d) ==
    /\ c \in Internal /\ ~live[c] /\ locked = Free
    /\ live' = [live EXCEPT ![c] = TRUE]
    /\ delayed_call_enqueue(c, d)
    /\ UNCHANGED <<refs, wait, behind, owned, client, locked>>

\* _remove_from_pending_queue, then _remove_from_delayed_queue: the first entry
\* of the first group that matches, whatever storage it is in.
FirstMatch(c) ==
    LET match(s) == SelectSeq(s, LAMBDA d : d \in Alike)
        all == match(pending[Groups[1]]) \o match(delayed[Groups[1]])
    IN  all # <<>> /\ c = Head(all)

\* thread_call_func_cancel, of one entry or of all; an internal one goes back to
\* its free list (_internal_call_release).
thread_call_func_cancel(c, cancel_all) ==
    /\ c \in Alike /\ group_of[c] = Groups[1] /\ queue[c] # "none"
    /\ locked = Free \/ (cancel_all /\ locked = HeldBy("cancel_all", None))
    /\ FirstMatch(c)
    /\ call_dequeue(c)
    /\ client' = Finished(c)
    /\ live' = [live EXCEPT ![c] = @ /\ c \notin Internal]
    /\ locked' = IF cancel_all /\ \E d \in Alike \ {c} : group_of[d] = Groups[1] /\ queue[d] # "none"
                 THEN HeldBy("cancel_all", None)
                 ELSE Free
    /\ UNCHANGED <<refs, wait, owned, timerVars, poolVars, setupVars, deallocVars>>

-----------------------------------------------------------------------------
(* The workers: thread_call_thread. *)

\* The head of the pending queue leaves it; its function runs without the lock.
TakeCall(w) ==
    LET g == worker[w].group
        c == Head(pending[g])
    IN  /\ pending_count[g] > 0
        /\ pending' = [pending EXCEPT ![g] = Tail(@)]
        /\ pending_count' = [pending_count EXCEPT ![g] = @ - 1]
        /\ queue' = [queue EXCEPT ![c] = "none"]
        /\ live' = [live EXCEPT ![c] = @ /\ c \notin Internal]
        /\ refs' = [refs EXCEPT ![c] = IF c \in Alloc THEN @ + 1 ELSE @]
        /\ worker' = Moved(w, "running", c)
        /\ UNCHANGED <<deadline, wait, behind, owned, client, delayed, idle_count, active_count,
                       parallel, daemon, daemon_awake, lost, deallocVars>>

\* Mutant: a worker that ends is counted as idle.
IdleCountsAll(w) ==
    LET g == worker[w].group
        stays == parallel[g] \/ idle_count[g] < target[g]
        surplus == active_count[g] + idle_count[g] > target[g]
        start == parallel[g] /\ ~dealloc_active[g] /\ surplus
    IN  /\ pending_count[g] = 0
        /\ active_count' = [active_count EXCEPT ![g] = @ - 1]
        /\ idle_count' = [idle_count EXCEPT ![g] = @ + 1]
        /\ worker' = [worker EXCEPT ![w] = IF stays THEN [NoWork EXCEPT !.at = "idle", !.group = g]
                                                     ELSE NoWork]
        /\ dealloc_active' = [dealloc_active EXCEPT ![g] = @ \/ start]
        /\ dealloc_timer' = [dealloc_timer EXCEPT ![g] = @ \/ start]
        /\ UNCHANGED <<callVars, queueVars, parallel, daemon, daemon_awake, lost, dealloc_firing>>

\* Mutant: the timer is started though it may be set.
StartsTimerAgain(w) ==
    LET g == worker[w].group
        stays == parallel[g] \/ idle_count[g] < target[g]
        surplus == active_count[g] + idle_count[g] > target[g]
        start == parallel[g] /\ surplus
    IN  /\ pending_count[g] = 0
        /\ active_count' = [active_count EXCEPT ![g] = @ - 1]
        /\ idle_count' = [idle_count EXCEPT ![g] = IF stays THEN @ + 1 ELSE @]
        /\ worker' = [worker EXCEPT ![w] = IF stays THEN [NoWork EXCEPT !.at = "idle", !.group = g]
                                                     ELSE NoWork]
        /\ dealloc_active' = [dealloc_active EXCEPT ![g] = @ \/ start]
        /\ dealloc_timer' = [dealloc_timer EXCEPT ![g] = @ \/ start]
        /\ UNCHANGED <<callVars, queueVars, parallel, daemon, daemon_awake, lost, dealloc_firing>>

\* Mutant: a worker may go idle with calls pending.
IdleDespiteWork(w) ==
    LET g == worker[w].group
        stays == parallel[g] \/ idle_count[g] < target[g]
        surplus == active_count[g] + idle_count[g] > target[g]
        start == parallel[g] /\ ~dealloc_active[g] /\ surplus
    IN  /\ active_count' = [active_count EXCEPT ![g] = @ - 1]
        /\ idle_count' = [idle_count EXCEPT ![g] = IF stays THEN @ + 1 ELSE @]
        /\ worker' = [worker EXCEPT ![w] = IF stays THEN [NoWork EXCEPT !.at = "idle", !.group = g]
                                                     ELSE NoWork]
        /\ dealloc_active' = [dealloc_active EXCEPT ![g] = @ \/ start]
        /\ dealloc_timer' = [dealloc_timer EXCEPT ![g] = @ \/ start]
        /\ UNCHANGED <<callVars, queueVars, parallel, daemon, daemon_awake, lost, dealloc_firing>>

\* No more work: the worker waits on the idle queue or, in a group that is not
\* parallel and has its target of idle threads, terminates.
GoIdle(w) ==
    LET g == worker[w].group
        stays == parallel[g] \/ idle_count[g] < target[g]
        surplus == active_count[g] + idle_count[g] > target[g]
        start == parallel[g] /\ ~dealloc_active[g] /\ surplus
    IN  /\ pending_count[g] = 0
        /\ active_count' = [active_count EXCEPT ![g] = @ - 1]
        /\ idle_count' = [idle_count EXCEPT ![g] = IF stays THEN @ + 1 ELSE @]
        /\ worker' = [worker EXCEPT ![w] = IF stays THEN [NoWork EXCEPT !.at = "idle", !.group = g]
                                                     ELSE NoWork]
        /\ dealloc_active' = [dealloc_active EXCEPT ![g] = @ \/ start]
        /\ dealloc_timer' = [dealloc_timer EXCEPT ![g] = @ \/ start]
        /\ UNCHANGED <<callVars, queueVars, parallel, daemon, daemon_awake, lost, dealloc_firing>>

\* The loop, entered with the lock just taken or still held.
WorkerLoop(w) ==
    /\ \/ worker[w].at = "start" /\ locked = Free
       \/ worker[w].at = "loop" /\ locked = HeldBy("worker", w)
    /\ TakeCall(w) \/ GoIdle(w)
    /\ locked' = Free
    /\ UNCHANGED <<setupVars, timerVars>>

\* The function returns; for a call that clients may wait for,
\* thread_call_finish up to the wakeup.
thread_call_finish(w) ==
    LET c == worker[w].call
    IN  /\ worker[w].at = "running"
        /\ locked = Free
        /\ \/ /\ c \notin Alloc
              /\ worker' = Moved(w, "loop", None)
              /\ locked' = HeldBy("worker", w)
              /\ UNCHANGED <<refs, wait, behind, live, client>>
           \/ /\ c \in Alloc
              /\ behind' = Retired(c)
              /\ refs' = [refs EXCEPT ![c] = @ - 1]
              /\ client' = Finished(c)
              /\ wait' = [wait EXCEPT ![c] = FALSE]
              /\ IF wait[c]
                 THEN /\ worker' = [worker EXCEPT ![w].at = "wakeup"]
                      /\ UNCHANGED <<live, locked>>
                 ELSE /\ live' = [live EXCEPT ![c] = refs[c] # 1]
                      /\ worker' = Moved(w, IF refs[c] = 1 THEN "start" ELSE "loop", None)
                      /\ locked' = IF refs[c] = 1 THEN Free ELSE HeldBy("worker", w)
        /\ UNCHANGED <<queue, deadline, owned, queueVars, idle_count, active_count, parallel,
                       daemon, daemon_awake, lost, setupVars, timerVars, deallocVars>>

\* thread_wakeup((event_t)call), without the lock.
finish_wakeup(w) ==
    LET c == worker[w].call
    IN  /\ worker[w].at = "wakeup"
        /\ client' = [k \in Clients |-> IF client[k].at = "wait" /\ client[k].call = c
                                         THEN [client[k] EXCEPT !.at = "woken"]
                                         ELSE client[k]]
        /\ worker' = [worker EXCEPT ![w].at = "relock"]
        /\ UNCHANGED <<queue, deadline, refs, wait, behind, live, owned, queueVars, idle_count,
                       active_count, parallel, daemon, daemon_awake, lost, setupVars, timerVars,
                       deallocVars, locked>>

\* The lock again, and then a look at the call: at what its storage holds by
\* now, which may be anything once it has been freed.
RefsRead(c) == IF live[c] THEN {refs[c]} ELSE {0, 1}

\* Somebody refers to the call still: the worker goes on.
finish_relock(w) ==
    /\ worker[w].at = "relock"
    /\ locked = Free
    /\ \E n \in RefsRead(worker[w].call) : n # 0
    /\ worker' = Moved(w, "loop", None)
    /\ locked' = HeldBy("worker", w)
    /\ UNCHANGED <<callVars, queueVars, idle_count, active_count, parallel, daemon, daemon_awake, lost,
                   setupVars, timerVars, deallocVars>>

\* Nobody does: "Someone waiting on a thread call that is scheduled for free".
finish_panic(w) ==
    /\ worker[w].at = "relock"
    /\ locked = Free
    /\ 0 \in RefsRead(worker[w].call)
    /\ locked' = Panic
    /\ UNCHANGED <<callVars, queueVars, poolVars, setupVars, timerVars, deallocVars>>

\* Mutant: no worker takes over the pending calls.
BlockWithoutWake(w) ==
    LET g == worker[w].group
    IN  /\ worker[w].at = "running" /\ worker[w].call \in Blocking
        /\ locked = Free
        /\ sched_call[g]
        /\ worker' = [worker EXCEPT ![w].at = "blocked"]
        /\ active_count' = [active_count EXCEPT ![g] = @ - 1]
        /\ locked' = Free
        /\ UNCHANGED <<callVars, queueVars, idle_count, parallel, daemon, daemon_awake, lost, setupVars,
                       timerVars, deallocVars>>

\* sched_call_thread, for the first group, the only one that is not set up
\* parallel: the scheduler tells it that a function blocks ...
sched_call_block(w) ==
    LET g == worker[w].group
    IN  /\ worker[w].at = "running" /\ worker[w].call \in Blocking
        /\ locked = Free
        /\ sched_call[g]
        /\ worker' = [worker EXCEPT ![w].at = "blocked"]
        /\ active_count' = [active_count EXCEPT ![g] = @ - 1]
        /\ locked' = IF pending_count[g] > 0 THEN HeldBy("sched_call", g) ELSE Free
        /\ UNCHANGED <<callVars, queueVars, idle_count, parallel, daemon, daemon_awake, lost, setupVars,
                       timerVars, deallocVars>>

\* ... so that it wakes or makes another worker for the pending work ...
sched_call_wake(g) ==
    /\ locked = HeldBy("sched_call", g)
    /\ thread_call_wake(g, pending_count[g])
    /\ locked' = Free
    /\ UNCHANGED <<callVars, queueVars, setupVars, timerVars, dealloc_active, dealloc_firing>>

\* ... and that the function goes on.
sched_call_unblock(w) ==
    /\ worker[w].at = "blocked"
    /\ locked = Free
    /\ worker' = [worker EXCEPT ![w].at = "running"]
    /\ active_count' = [active_count EXCEPT ![worker[w].group] = @ + 1]
    /\ UNCHANGED <<callVars, queueVars, idle_count, parallel, daemon, daemon_awake, lost, setupVars,
                   timerVars, deallocVars, locked>>

-----------------------------------------------------------------------------
(* The daemon: thread_call_daemon_continue. *)

\* From the group it looks at on, the first group that needs a thread.
DaemonScan ==
    /\ daemon.at = "scan"
    /\ locked = Free
    /\ \/ \E j \in daemon.i .. Len(Groups) :
             /\ \A m \in daemon.i .. j : ~IdlePanic(Groups[m])
             /\ \A m \in daemon.i .. j - 1 : ~MustAdd(Groups[m], pending_count[Groups[m]])
             /\ MayAdd(Groups[j], pending_count[Groups[j]])
             /\ active_count' = [active_count EXCEPT ![Groups[j]] = @ + 1]
             /\ daemon' = [at |-> "create", i |-> j]
             /\ UNCHANGED daemon_awake
       \/ /\ \A m \in daemon.i .. Len(Groups) :
                ~IdlePanic(Groups[m]) /\ ~MustAdd(Groups[m], pending_count[Groups[m]])
          /\ daemon' = [at |-> "asleep", i |-> 1]
          /\ daemon_awake' = FALSE
          /\ UNCHANGED active_count
    /\ UNCHANGED <<callVars, queueVars, idle_count, parallel, worker, lost, setupVars, timerVars,
                   deallocVars, locked>>

\* It comes to a group with idle threads and pending work: "Pending work, but
\* threads are idle?".
DaemonPanics ==
    /\ daemon.at = "scan"
    /\ locked = Free
    /\ \E j \in daemon.i .. Len(Groups) :
          /\ IdlePanic(Groups[j])
          /\ \A m \in daemon.i .. j - 1 : ~MustAdd(Groups[m], pending_count[Groups[m]])
    /\ locked' = Panic
    /\ UNCHANGED <<callVars, queueVars, poolVars, setupVars, timerVars, deallocVars>>

\* thread_call_thread_create, without the lock.
thread_call_thread_create ==
    /\ daemon.at = "create"
    /\ \E w \in Workers :
          /\ worker[w] = NoWork
          /\ worker' = [worker EXCEPT ![w] = [at |-> "start", group |-> Groups[daemon.i], call |-> None]]
    /\ daemon' = [daemon EXCEPT !.at = "scan"]
    /\ UNCHANGED <<callVars, queueVars, idle_count, active_count, parallel, daemon_awake, lost, setupVars,
                   timerVars, deallocVars, locked>>

\* The thread could not be created: the daemon gives up.
CreateFails ==
    /\ CanFail
    /\ daemon.at = "create"
    /\ locked = Free
    /\ daemon' = [at |-> "asleep", i |-> 1]
    /\ daemon_awake' = FALSE
    /\ lost' = [lost EXCEPT ![Groups[daemon.i]] = @ + 1]
    /\ UNCHANGED <<callVars, queueVars, idle_count, active_count, parallel, worker, setupVars,
                   timerVars, deallocVars, locked>>

-----------------------------------------------------------------------------
(* The delayed timer of a group, and time. *)

\* The timer expires within its window, at the end of it when it is rate
\* limited; until the callout gets the lock the queue may change.
DelayedTimerExpires(g) ==
    /\ delayed_timer[g] # None
    /\ IF delayed_timer[g].limited THEN delayed_timer[g].hard = 0 ELSE delayed_timer[g].soft = 0
    /\ ~delayed_firing[g]
    /\ delayed_timer' = [delayed_timer EXCEPT ![g] = None]
    /\ delayed_firing' = [delayed_firing EXCEPT ![g] = TRUE]
    /\ UNCHANGED <<callVars, queueVars, poolVars, setupVars, deallocVars, locked>>

Due(c, forced) == deadline[c].soft = 0 /\ (deadline[c].limited /\ ~forced => deadline[c].hard = 0)

\* _set_delayed_call_timer for the first call of a queue, if there is one.
SetTimer(g, q, dl) ==
    delayed_timer' = IF q = <<>> THEN delayed_timer ELSE [delayed_timer EXCEPT ![g] = dl[Head(q)]]

\* thread_call_delayed_timer: one call after the other, while the first is due,
\* rate limited or not if the platform forces it (ml_timer_forced_evaluation).
thread_call_delayed_timer(g) ==
    /\ \/ locked = Free /\ delayed_firing[g]
       \/ locked = HeldBy("timer", g)
    /\ delayed_firing' = [delayed_firing EXCEPT ![g] = FALSE]
    /\ \E forced \in BOOLEAN :
       IF delayed[g] # <<>> /\ Due(Head(delayed[g]), forced)
       THEN /\ pending_call_enqueue(Head(delayed[g]))
            /\ locked' = HeldBy("timer", g)
            /\ UNCHANGED <<refs, wait, live, owned, client, delayed_timer>>
       ELSE /\ SetTimer(g, delayed[g], deadline)
            /\ locked' = Free
            /\ UNCHANGED <<callVars, queueVars, poolVars, setupVars, deallocVars>>

\* thread_call_delayed_timer_rescan: first the calls that are due ...
rescan_due(g) ==
    /\ locked \in {Free, HeldBy("rescan", g)}
    /\ \E i \in DOMAIN delayed[g] :
          /\ Due(delayed[g][i], TRUE)
          /\ \A j \in 1 .. i - 1 : ~Due(delayed[g][j], TRUE)
          /\ pending_call_enqueue(delayed[g][i])
    /\ locked' = HeldBy("rescan", g)
    /\ UNCHANGED <<refs, wait, live, owned, client, timerVars>>

\* ... then those the platform picks (timer_resort_threshold) are taken off
\* the queue and put back by their soft deadline ...
rescan_resort(g) ==
    /\ locked \in {Free, HeldBy("rescan", g)}
    /\ \A i \in DOMAIN delayed[g] : ~Due(delayed[g][i], TRUE)
    /\ \E i \in DOMAIN delayed[g] :
          LET c == delayed[g][i]
              d == deadline[c]
          IN  /\ d.hard > d.soft
              /\ deadline' = [deadline EXCEPT ![c].hard = d.soft]
              /\ delayed' = [delayed EXCEPT ![g] = Inserted(Without(@, c), c, d.soft)]
              /\ client' = Finished(c)
    /\ locked' = HeldBy("rescan", g)
    /\ UNCHANGED <<queue, refs, wait, behind, live, owned, pending, pending_count, poolVars,
                   setupVars, timerVars, deallocVars>>

\* ... and the timer is set for the first.
rescan_ends(g) ==
    /\ locked \in {Free, HeldBy("rescan", g)}
    /\ \A i \in DOMAIN delayed[g] : ~Due(delayed[g][i], TRUE)
    /\ SetTimer(g, delayed[g], deadline)
    /\ locked' = Free
    /\ UNCHANGED <<callVars, queueVars, poolVars, setupVars, delayed_firing, deallocVars>>

\* Time passes.
Sooner(d) == [d EXCEPT !.soft = IF @ = 0 THEN 0 ELSE @ - 1, !.hard = IF @ = 0 THEN 0 ELSE @ - 1]

Tick ==
    /\ locked = Free
    /\ \/ \E c \in Calls : deadline[c].hard > 0
       \/ \E g \in GroupSet : delayed_timer[g] # None /\ delayed_timer[g].hard > 0
    /\ deadline' = [c \in Calls |-> Sooner(deadline[c])]
    /\ delayed_timer' = [g \in GroupSet |->
                            IF delayed_timer[g] = None THEN None ELSE Sooner(delayed_timer[g])]
    /\ UNCHANGED <<queue, refs, wait, behind, live, owned, client, queueVars, poolVars, setupVars,
                   delayed_firing, deallocVars, locked>>

-----------------------------------------------------------------------------
(* The timer that retires workers. *)

DeallocTimerExpires(g) ==
    /\ dealloc_timer[g]
    /\ dealloc_timer' = [dealloc_timer EXCEPT ![g] = FALSE]
    /\ dealloc_firing' = [dealloc_firing EXCEPT ![g] = TRUE]
    /\ UNCHANGED <<callVars, queueVars, poolVars, setupVars, timerVars, dealloc_active, locked>>

\* thread_call_dealloc_timer: when some worker has been idle for long, one
\* ends; the timer is started again while there is a surplus.
thread_call_dealloc_timer(g) ==
    /\ dealloc_firing[g]
    /\ locked = Free
    /\ \/ /\ idle_count[g] > 0
          /\ idle_count' = [idle_count EXCEPT ![g] = @ - 1]
          /\ \E w \in Asleep(g) : worker' = [worker EXCEPT ![w] = NoWork]
       \/ UNCHANGED <<idle_count, worker>>
    /\ LET again == idle_count'[g] > 0 /\ idle_count'[g] + active_count[g] > target[g]
       IN  /\ dealloc_active' = [dealloc_active EXCEPT ![g] = again]
           /\ dealloc_timer' = [dealloc_timer EXCEPT ![g] = @ \/ again]
    /\ dealloc_firing' = [dealloc_firing EXCEPT ![g] = FALSE]
    /\ UNCHANGED <<callVars, queueVars, active_count, parallel, daemon, daemon_awake, lost, setupVars,
                   timerVars, locked>>

-----------------------------------------------------------------------------
\* thread_call_initialize, thread_call_group_setup
Init ==
    /\ queue = [c \in Calls |-> "none"]
    /\ deadline = [c \in Calls |-> NoDelay]
    /\ refs = [c \in Calls |-> 0]
    /\ wait = [c \in Calls |-> FALSE]
    /\ behind = [c \in Calls |-> 0]
    /\ live = [c \in Calls |-> c \in Setup]
    /\ owned = [c \in Calls |-> c \in Setup]
    /\ pending = [g \in GroupSet |-> <<>>]
    /\ delayed = [g \in GroupSet |-> <<>>]
    /\ pending_count = [g \in GroupSet |-> 0]
    /\ idle_count = [g \in GroupSet |-> 0]
    /\ active_count = [g \in GroupSet |-> 0]
    /\ \E setup \in [GroupSet -> UNION {Setups[g] : g \in GroupSet}] :
          /\ \A g \in GroupSet : setup[g] \in Setups[g]
          /\ target = [g \in GroupSet |-> setup[g].target]
          /\ parallel = [g \in GroupSet |-> setup[g].parallel]
          /\ sched_call = [g \in GroupSet |-> ~setup[g].parallel]
    /\ dealloc_active = [g \in GroupSet |-> FALSE]
    /\ delayed_timer = [g \in GroupSet |-> None]
    /\ delayed_firing = [g \in GroupSet |-> FALSE]
    /\ dealloc_timer = [g \in GroupSet |-> FALSE]
    /\ dealloc_firing = [g \in GroupSet |-> FALSE]
    /\ worker = [w \in Workers |-> NoWork]
    /\ daemon = [at |-> "scan", i |-> 1]
    /\ daemon_awake = TRUE
    /\ lost = [g \in GroupSet |-> 0]
    /\ client = [k \in Clients |-> NoWait]
    /\ locked = Free

ClientStep ==
    \/ \E c \in Calls :
          \/ thread_call_enter(c)
          \/ \E d \in Delays[c] : thread_call_enter_delayed(c, d)
          \/ thread_call_cancel(c)
          \/ \E k \in Clients : thread_call_cancel_wait(k, c)
          \/ thread_call_free(c)
          \/ thread_call_allocate(c)
          \/ \E d \in Delays[c] : thread_call_func_delayed(c, d)
    \/ \E c \in Alike : \E all \in BOOLEAN : thread_call_func_cancel(c, all)
    \/ \E g \in GroupSet : rescan_due(g) \/ rescan_resort(g) \/ rescan_ends(g)
    \/ \E g \in GroupSet : sched_call_wake(g)

\* A client that waits goes on.
WaitStep(k) == thread_call_wait_locked(k) \/ cancel_wait_returns(k)

WorkerStep(w) ==
    \/ WorkerLoop(w)
    \/ thread_call_finish(w) \/ finish_wakeup(w) \/ finish_relock(w)
    \/ sched_call_block(w) \/ sched_call_unblock(w)

DaemonStep == DaemonScan \/ thread_call_thread_create \/ CreateFails

TimerStep(g) == DelayedTimerExpires(g) \/ thread_call_delayed_timer(g)

DeallocStep(g) == DeallocTimerExpires(g) \/ thread_call_dealloc_timer(g)

\* The kernel panics, or has: then nobody gets the lock any more.
PanicStep ==
    \/ DaemonPanics
    \/ \E w \in Workers : finish_panic(w)
    \/ locked = Panic /\ UNCHANGED vars

Next ==
    \/ ClientStep
    \/ \E k \in Clients : WaitStep(k)
    \/ \E w \in Workers : WorkerStep(w)
    \/ DaemonStep
    \/ \E g \in GroupSet : TimerStep(g) \/ DeallocStep(g)
    \/ Tick
    \/ PanicStep

Spec == Init /\ [][Next]_vars

\* Threads get the processor, the lock is not withheld from one of them for
\* ever, functions return and what they block on happens; a section under the
\* lock ends.
Fairness ==
    /\ WF_vars(locked # Free /\ ClientStep)
    /\ \A k \in Clients : SF_vars(WaitStep(k))
    /\ \A w \in Workers : SF_vars(WorkerLoop(w) \/ sched_call_unblock(w))
                          /\ SF_vars(thread_call_finish(w))
                          /\ SF_vars(finish_wakeup(w) \/ finish_relock(w) \/ finish_panic(w))
    /\ SF_vars(DaemonStep \/ DaemonPanics)

FairSpec == Spec /\ Fairness

-----------------------------------------------------------------------------
(* Properties. *)

IsQueue(s) == s \in Seq(Calls) /\ IsInjective(s)

\* The queue field of a call says which queue of its group holds it, once.
QueuesExact ==
    \A g \in GroupSet :
       /\ IsQueue(pending[g]) /\ IsQueue(delayed[g])
       /\ Range(pending[g]) = {c \in Calls : queue[c] = "pending" /\ group_of[c] = g}
       /\ Range(delayed[g]) = {c \in Calls : queue[c] = "delayed" /\ group_of[c] = g}

\* Workers that count as active: all that are neither asleep nor blocked in a
\* function, and one that the daemon is about to create.
Counted(g) == {w \in Workers : worker[w].group = g /\ worker[w].at \notin {"idle", "blocked"}}
Creating(g) == IF daemon.at = "create" /\ Groups[daemon.i] = g THEN 1 ELSE 0

\* The three counts of a group, which decide whether it wakes, makes or
\* retires a worker, are what they count, but for the threads that the daemon
\* counted and could not create.
CountsExact ==
    \A g \in GroupSet :
       /\ pending_count[g] = Len(pending[g])
       /\ idle_count[g] = Cardinality(Asleep(g))
       /\ active_count[g] = Cardinality(Counted(g)) + Creating(g) + lost[g]

\* With one group, whose threads can be created, pending work is never
\* forgotten: some worker is active or about to be created, the daemon is awake
\* and has yet to look at the group, or the thread that holds the lock is about
\* to wake a worker (thread_call_wake, thread_call_daemon_continue).  Where
\* thread_call_group_should_add_thread would panic, "Pending work, but threads
\* are idle?", a worker is awake already.
WorkNotForgotten ==
    \A g \in GroupSet :
       /\ pending_count[g] > 0 =>
             \/ Counted(g) # {} \/ Creating(g) = 1
             \/ daemon_awake /\ daemon.at = "scan"
             \/ locked = HeldBy("sched_call", g)
       /\ IdlePanic(g) => Counted(g) # {}

\* Every delayed call is covered: the callout is on its way or at work, or the
\* timer expires no later than the hard deadline of every delayed call, although
\* cancellations leave the timer set for calls that are gone.
DelayedCovered ==
    \A g \in GroupSet :
       delayed[g] # <<>> =>
          \/ delayed_firing[g]
          \/ locked \in {HeldBy("timer", g), HeldBy("rescan", g)}
          \/ /\ delayed_timer[g] # None
             /\ \A c \in Range(delayed[g]) : delayed_timer[g].hard <= deadline[c].hard

\* tc_refs counts the owner and the functions in flight, and storage is
\* allocated exactly as long as it counts something: thread_call_free and
\* thread_call_finish between them free a call once.  A worker that wakes the
\* clients of a call (thread_call_finish) has given up its reference by then;
\* only under it may a call without references be left, on the way to the panic.
RefsExact ==
    \A c \in Alloc :
       /\ refs[c] = Cardinality(Running(c)) + (IF owned[c] THEN 1 ELSE 0)
       /\ refs[c] > 0 => live[c]
       /\ live[c] /\ refs[c] = 0 => \E w \in Touching(c) : worker[w].at \in {"wakeup", "relock"}

\* A worker has a call it is not yet done with only while the call is allocated
\* (thread_call_thread: "Delay free until we're done").
WorkerOwnsCall ==
    \A c \in Alloc : Touching(c) # {} => live[c]

\* tc_submit_count - tc_finish_count, which thread_call_isactive and
\* thread_call_wait_locked go by, counts the call's place on a queue and its
\* functions in flight.
OutstandingExact ==
    \A c \in Alloc :
       live[c] => behind[c] = Cardinality(Running(c)) + (IF queue[c] = "none" THEN 0 ELSE 1)

\* A call on a queue is allocated, and so is one while its function runs, until
\* thread_call_finish gives up the worker's reference; an internal entry is off
\* its free list only while it is on a queue, so that it may be used again
\* while its function runs.
StorageSound ==
    /\ \A c \in Calls : queue[c] # "none" => live[c]
    /\ \A c \in Alloc : Running(c) # {} => live[c]
    /\ \A c \in Internal : live[c] => queue[c] # "none"

\* A client that waits in thread_call_wait_locked will be woken: its wakeup is
\* on its way, or the flag is set and a function is in flight whose
\* thread_call_finish will see it.
WaiterWillWake ==
    \A k \in Clients :
       client[k].at = "wait" =>
          LET c == client[k].call
          IN  \/ wait[c] /\ Running(c) # {}
              \/ \E w \in Touching(c) : worker[w].at = "wakeup"

\* thread_call_start_deallocate_timer never finds its timer set ("Deallocate
\* timer already active?"): while the timer is set or its callout is on its way
\* the flag keeps workers from starting it, and never both.
DeallocTimerOnce ==
    \A g \in GroupSet :
       /\ dealloc_timer[g] \/ dealloc_firing[g] => dealloc_active[g]
       /\ ~(dealloc_timer[g] /\ dealloc_firing[g])

\* A call that is pending is taken by a worker, cancelled or delayed again
\* (thread_call_enter: "for immediate execution"), unless the kernel panics.
PendingRuns ==
    \A c \in Calls : queue[c] = "pending" ~> queue[c] # "pending" \/ locked = Panic

\* A client that waits for a call returns (thread_call_cancel_wait), unless the
\* kernel panics.
WaiterReturns ==
    \A k \in Clients : client[k].at = "wait" ~> client[k].at = "out" \/ locked = Panic
=============================================================================
