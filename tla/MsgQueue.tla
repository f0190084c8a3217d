------------------------------ MODULE MsgQueue ------------------------------
(***************************************************************************)
(* The message queue of a port: osfmk/ipc/ipc_mqueue.c, over the waits of  *)
(* ThreadWait.  Senders reserve a slot, or wait for one on the queue's     *)
(* FULL event, and then post; receivers take the first message, or wait on *)
(* the RECEIVE event to be handed one.  The owner of the port changes the  *)
(* limit, moves the receive right and destroys the port.                   *)
(*                                                                         *)
(* A step is what happens under the queue's lock, or between two such      *)
(* sections.  Between declaring a wait and blocking nothing is done under  *)
(* a lock, so the two are one step here (EventWait has them apart).  Port  *)
(* sets, sequence numbers and the contents of messages are left out.       *)
(***************************************************************************)
EXTENDS ThreadWait, Sequences

CONSTANTS
    mq,                      \* imq_wait_queue
    IPC_MQUEUE_FULL,
    IPC_MQUEUE_RECEIVE,
    Msgs,
    Large,                   \* messages that need a buffer with room
    Sends,                   \* what each thread may send: [msg, always, timeout]
    Receives,                \* how each thread may receive: [room, large, timeout]
    Qlimits,
    MACH_PORT_QLIMIT_KERNEL,
    MsgcountRange,           \* 2^32 in the code: imq_msgcount is unsigned
    Aborts                   \* the threads that get aborted

Timeouts == {"none", "poll", "timed"}

ASSUME MsgQueueConstants ==
    /\ mq \in Waitqs \ GlobalQs
    /\ {IPC_MQUEUE_FULL, IPC_MQUEUE_RECEIVE} \subseteq Events
    /\ IPC_MQUEUE_FULL # IPC_MQUEUE_RECEIVE
    /\ Large \subseteq Msgs /\ None \notin Msgs
    /\ Sends \in [Threads -> SUBSET [msg : Msgs, always : BOOLEAN, timeout : Timeouts]]
    /\ Receives \in [Threads -> SUBSET [room : BOOLEAN, large : BOOLEAN, timeout : Timeouts]]
    /\ Qlimits \subseteq 0 .. MACH_PORT_QLIMIT_KERNEL
    /\ MACH_PORT_QLIMIT_KERNEL \in Nat /\ MsgcountRange \in Nat
    /\ MACH_PORT_QLIMIT_KERNEL < MsgcountRange
    /\ IsFiniteSet(Msgs) /\ Cardinality(Msgs) < MsgcountRange  \* they are in memory
    /\ Aborts \subseteq Threads

VARIABLES
    imq_messages,
    imq_msgcount,    \* messages queued and slots given to senders
    imq_qlimit,
    imq_fullwaiters,
    port,            \* how far the port's destruction has come
    pc,
    kmsg,            \* the message a sender has, or None
    ith_option,      \* how a receiver receives
    ith_state,
    ith_kmsg,        \* the message a receiver was given, or None
    promoted,        \* threads with TH_SFLAG_WAITQ_PROMOTED
    outside          \* messages that are not in the kernel (no field of the code)

imqVars == <<imq_messages, imq_msgcount, imq_qlimit, imq_fullwaiters, port>>
ithVars == <<ith_option, ith_state, ith_kmsg>>
vars == <<waitVars, imqVars, ithVars, pc, kmsg, promoted, outside>>

Pcs == {"idle", "sendWait", "post", "copied", "rcvWait", "results"}
States == {"SUCCESS", "IN_PROGRESS", "TOO_LARGE", "TIMED_OUT", "INTERRUPTED", "PORT_CHANGED"}

\* The port: in use, its receiver cleared (and then inactive), its queue
\* destroyed, its wait queue deinitialised.
Phases == {"active", "cleared", "destroyed", "dead"}

TypeOK ==
    /\ WaitTypeOK
    /\ imq_messages \in Seq(Msgs)
    /\ imq_msgcount \in 0 .. MsgcountRange - 1
    /\ imq_qlimit \in Qlimits
    /\ imq_fullwaiters \in BOOLEAN
    /\ port \in Phases
    /\ pc \in [Threads -> Pcs]
    /\ kmsg \in [Threads -> Msgs \cup {None}]
    /\ \A t \in Threads : ith_option[t] \in Receives[t] \cup {None}
    /\ ith_state \in [Threads -> States]
    /\ ith_kmsg \in [Threads -> Msgs \cup {None}]
    /\ promoted \subseteq Threads
    /\ outside \subseteq Msgs

Init ==
    /\ WaitInit
    /\ imq_messages = <<>>
    /\ imq_msgcount = 0
    /\ imq_qlimit \in Qlimits
    /\ imq_fullwaiters = FALSE
    /\ port = "active"
    /\ pc = [t \in Threads |-> "idle"]
    /\ kmsg = [t \in Threads |-> None]
    /\ ith_option = [t \in Threads |-> None]
    /\ ith_state = [t \in Threads |-> "SUCCESS"]
    /\ ith_kmsg = [t \in Threads |-> None]
    /\ promoted = {}
    /\ outside = Msgs

Goto(t, p) == pc' = [pc EXCEPT ![t] = p]

\* The queue's lock is never seen held: a section under it is one step.
QuietLocks == UNCHANGED <<waitq_lock, clearing>>

\* Waking the threads of S, in one or several calls of one section.
Wake(S, result) ==
    /\ Run(S, result)
    /\ CancelTimers(S)
    /\ UNCHANGED <<waitq_eventmask, sched_flags>>
    /\ QuietLocks

\* The result of a wait is read once; it is not kept afterwards.
ResultRead(t) ==
    /\ wait_result' = [wait_result EXCEPT ![t] = "AWAKENED"]
    /\ UNCHANGED <<state, at_safe_point, waitq, wait_event, queueVars, timerVars, sched_flags>>
    /\ QuietLocks

imq_full(count) == count >= imq_qlimit
imq_full_kernel == imq_msgcount >= MACH_PORT_QLIMIT_KERNEL

-----------------------------------------------------------------------------
(* Sending. *)

\* ipc_mqueue_send, called with the queue locked by ipc_kmsg_send, which saw
\* the port active under the port's lock: a slot is free, or the sender may
\* have one beyond the limit.
SendReserves(t, s) ==
    /\ ~imq_full(imq_msgcount) \/ (~imq_full_kernel /\ s.always)
    /\ imq_msgcount' = imq_msgcount + 1
    /\ kmsg' = [kmsg EXCEPT ![t] = s.msg]
    /\ outside' = outside \ {s.msg}
    /\ Goto(t, "post")
    /\ UNCHANGED <<waitVars, imq_messages, imq_qlimit, imq_fullwaiters, port, ithVars, promoted>>

\* No slot: a poll returns MACH_SEND_TIMED_OUT, a queue at the kernel's limit
\* MACH_SEND_NO_BUFFER, and the caller keeps its message.
SendFails(s) ==
    /\ imq_full(imq_msgcount) /\ (imq_full_kernel \/ ~s.always)
    /\ s.timeout = "poll" \/ imq_full_kernel
    /\ UNCHANGED vars

\* Otherwise it waits for one; an aborted thread returns at once.
SendWaits(t, s) ==
    /\ imq_full(imq_msgcount) /\ ~imq_full_kernel /\ ~s.always /\ s.timeout # "poll"
    /\ imq_fullwaiters' = TRUE
    /\ waitq_assert_wait64_locked(t, mq, IPC_MQUEUE_FULL, "ABORTSAFE", s.timeout = "timed")
    /\ QuietLocks
    /\ IF MayWait(t, "ABORTSAFE")
       THEN /\ kmsg' = [kmsg EXCEPT ![t] = s.msg]
            /\ outside' = outside \ {s.msg}
            /\ Goto(t, "sendWait")
       ELSE UNCHANGED <<kmsg, outside, pc>>
    /\ UNCHANGED <<imq_messages, imq_msgcount, imq_qlimit, port, ithVars, promoted>>

ipc_mqueue_send(t, s) ==
    /\ pc[t] = "idle" /\ port = "active" /\ s.msg \in outside
    /\ SendReserves(t, s) \/ SendFails(s) \/ SendWaits(t, s)

\* Its thread_block returns: with a slot that the waker gave, or with an error.
send_resumes(t) ==
    /\ pc[t] = "sendWait" /\ "WAIT" \notin state[t]
    /\ IF wait_result[t] = "AWAKENED"
       THEN Goto(t, "post") /\ UNCHANGED <<kmsg, outside>>
       ELSE /\ Goto(t, "idle")
            /\ kmsg' = [kmsg EXCEPT ![t] = None]
            /\ outside' = outside \cup {kmsg[t]}
    /\ ResultRead(t)
    /\ UNCHANGED <<imqVars, ithVars, promoted>>

\* Mutant: the count is taken for a signed number.
less_signed(count) == count - 1

\* imq_msgcount--, of an unsigned count.
Less(count) == (count + MsgcountRange - 1) % MsgcountRange

\* The sender that ipc_mqueue_release_msgcount wakes, if any.
NextSender ==
    IF ~imq_full(Less(imq_msgcount)) /\ imq_fullwaiters
    THEN waitq_select_one_locked(mq, IPC_MQUEUE_FULL) ELSE {}

\* Mutant: the slot given away is not counted.
release_uncounted ==
    /\ imq_msgcount' = Less(imq_msgcount)
    /\ imq_fullwaiters' = (imq_fullwaiters /\ (imq_full(Less(imq_msgcount)) \/ NextSender # {}))

\* ipc_mqueue_release_msgcount, but for the wakeup of NextSender: the slot of a
\* message that is off the queue goes to that sender, or back.
ipc_mqueue_release_msgcount ==
    /\ imq_msgcount' = IF NextSender = {} THEN Less(imq_msgcount) ELSE imq_msgcount
    /\ imq_fullwaiters' = (imq_fullwaiters /\ (imq_full(Less(imq_msgcount)) \/ NextSender # {}))

TooLarge(m, o) == m \in Large /\ ~o.room

\* A message goes to a receiver unless it does not fit and the receiver asked
\* to be told.
Takes(r, m) ==
    /\ ith_state[r] = "IN_PROGRESS"
    /\ ~TooLarge(m, ith_option[r]) \/ ~ith_option[r].large

\* The receiver of W that gets m, if there is one.
Taker(W, m) == First({r \in W : Takes(r, m)})

\* Mutant: only the first receiver is asked.
asked_once(W, m) == First(W)

\* The receivers that are woken: those that cannot take m, up to one that can.
Asked(W, m) == {r \in W : Taker(W, m) \cap ahead[r] = {}}

\* Mutant: a message that comes too late is forgotten.
queue_or_leak(m) ==
    /\ imq_messages' = IF imq_msgcount > 0 THEN Append(imq_messages, m) ELSE imq_messages
    /\ UNCHANGED <<imq_msgcount, imq_fullwaiters, outside>>

\* No receiver: m is queued if its slot is still there; otherwise the port is
\* inactive, and m is destroyed.
QueueOrDestroy(m) ==
    /\ imq_messages' = IF imq_msgcount > 0 THEN Append(imq_messages, m) ELSE imq_messages
    /\ outside' = IF imq_msgcount > 0 THEN outside ELSE outside \cup {m}
    /\ UNCHANGED <<imq_msgcount, imq_fullwaiters>>

\* waitq_clear_promotion_locked for t, after the wakeup of the threads boosted.
waitq_clear_promotion_locked(t, boosted) == promoted' = (promoted \cup boosted) \ {t}

ipc_mqueue_post(t) ==
    LET m == kmsg[t]
        asked == Asked(Waiting(mq, IPC_MQUEUE_RECEIVE), m)
        given == {r \in asked : Takes(r, m)}
        sender == IF given # {} THEN NextSender ELSE {}
    IN /\ pc[t] = "post"
       /\ Wake(asked \cup sender, "AWAKENED")
       /\ ith_state' = [r \in Threads |->
             IF r \in asked /\ ith_state[r] = "IN_PROGRESS"
             THEN IF TooLarge(m, ith_option[r]) THEN "TOO_LARGE" ELSE "SUCCESS"
             ELSE ith_state[r]]
       /\ ith_kmsg' = [r \in Threads |-> IF r \in given THEN m ELSE ith_kmsg[r]]
       /\ IF given # {}
          THEN ipc_mqueue_release_msgcount /\ UNCHANGED <<imq_messages, outside>>
          ELSE QueueOrDestroy(m)
       /\ waitq_clear_promotion_locked(t, sender)
       /\ kmsg' = [kmsg EXCEPT ![t] = None]
       /\ Goto(t, "idle")
       /\ UNCHANGED <<imq_qlimit, port, ith_option>>

-----------------------------------------------------------------------------
(* Receiving. *)

\* mach_msg_receive: ipc_mqueue_copyin finds the queue of an active port and
\* takes a reference, which keeps the queue but not the port.
ipc_mqueue_copyin(t, o) ==
    /\ pc[t] = "idle" /\ port = "active"
    /\ ith_option' = [ith_option EXCEPT ![t] = o]
    /\ Goto(t, "copied")
    /\ UNCHANGED <<waitVars, imqVars, ith_state, ith_kmsg, kmsg, promoted, outside>>

\* ipc_mqueue_select_on_thread: the first message is taken, or left where it
\* is and only announced.
ipc_mqueue_select_on_thread(t) ==
    LET m == Head(imq_messages)
        large == TooLarge(m, ith_option[t])
    IN /\ imq_messages # <<>>
       /\ ith_state' = [ith_state EXCEPT ![t] = IF large THEN "TOO_LARGE" ELSE "SUCCESS"]
       /\ IF large /\ ith_option[t].large
          THEN UNCHANGED <<waitVars, ith_kmsg, imqVars, promoted>>
          ELSE /\ imq_messages' = Tail(imq_messages)
               /\ ipc_mqueue_release_msgcount
               /\ Wake(NextSender, "AWAKENED")
               /\ promoted' = promoted \cup NextSender
               /\ ith_kmsg' = [ith_kmsg EXCEPT ![t] = m]
               /\ UNCHANGED <<imq_qlimit, port>>
       /\ Goto(t, "results")

\* No message: a poll returns, others wait to be handed one.
ReceivePolls(t) ==
    /\ imq_messages = <<>> /\ ith_option[t].timeout = "poll"
    /\ ith_state' = [ith_state EXCEPT ![t] = "TIMED_OUT"]
    /\ Goto(t, "results")
    /\ UNCHANGED <<waitVars, imqVars, ith_kmsg, promoted>>

ReceiveWaits(t) ==
    /\ imq_messages = <<>> /\ ith_option[t].timeout # "poll"
    /\ ith_state' = [ith_state EXCEPT ![t] = "IN_PROGRESS"]
    /\ waitq_assert_wait64_locked(t, mq, IPC_MQUEUE_RECEIVE, "ABORTSAFE", ith_option[t].timeout = "timed")
    /\ QuietLocks
    /\ Goto(t, "rcvWait")
    /\ UNCHANGED <<imqVars, ith_kmsg, promoted>>

ipc_mqueue_receive_on_thread(t) ==
    /\ pc[t] = "copied"
    /\ ipc_mqueue_select_on_thread(t) \/ ReceivePolls(t) \/ ReceiveWaits(t)
    /\ UNCHANGED <<ith_option, kmsg, outside>>

\* thread_block returns: what is told by the wait's result, or what the sender
\* left in ith_state.
ipc_mqueue_receive_results(t) ==
    /\ pc[t] = "rcvWait" /\ "WAIT" \notin state[t]
    /\ ith_state' = [ith_state EXCEPT ![t] =
          CASE wait_result[t] = "RESTART" -> "PORT_CHANGED"
            [] wait_result[t] = "AWAKENED" -> @
            [] OTHER -> wait_result[t]]
    /\ ResultRead(t)
    /\ Goto(t, "results")
    /\ UNCHANGED <<imqVars, ith_option, ith_kmsg, kmsg, promoted, outside>>

\* mach_msg_receive_results: the message is looked at only if ith_state says
\* that there is one, and leaves the kernel.  (What the fields hold between two
\* receives is not kept.)
mach_msg_receive_results(t) ==
    LET took == ith_state[t] = "SUCCESS" \/ (ith_state[t] = "TOO_LARGE" /\ ~ith_option[t].large)
    IN /\ pc[t] = "results"
       /\ outside' = IF took THEN outside \cup {ith_kmsg[t]} ELSE outside
       /\ ith_kmsg' = [ith_kmsg EXCEPT ![t] = None]
       /\ ith_option' = [ith_option EXCEPT ![t] = None]
       /\ ith_state' = [ith_state EXCEPT ![t] = "SUCCESS"]
       /\ Goto(t, "idle")
       /\ UNCHANGED <<waitVars, imqVars, kmsg, promoted>>

-----------------------------------------------------------------------------
(* What the owner of the port does. *)

ipc_mqueue_changed == Wake(waitq_select_n_locked(mq, IPC_MQUEUE_RECEIVE), "RESTART")

\* ipc_port_clear_receiver: the receive right moves (the port stays active), or
\* goes, and then the port is made inactive before its lock is dropped.
ipc_port_clear_receiver(moves) ==
    /\ port = "active"
    /\ ipc_mqueue_changed
    /\ port' = IF moves THEN "active" ELSE "cleared"
    /\ UNCHANGED <<imq_messages, imq_msgcount, imq_qlimit, imq_fullwaiters, ithVars, pc, kmsg,
                   promoted, outside>>

MessagesOf(queue) == {queue[i] : i \in DOMAIN queue}

\* ipc_port_destroy calls it with nothing locked.
ipc_mqueue_destroy ==
    /\ port = "cleared"
    /\ port' = "destroyed"
    /\ imq_fullwaiters' = FALSE
    /\ Wake(waitq_select_n_locked(mq, IPC_MQUEUE_FULL), "RESTART")
    /\ imq_messages' = <<>>
    /\ outside' = outside \cup MessagesOf(imq_messages)
    /\ imq_msgcount' = 0
    /\ UNCHANGED <<imq_qlimit, ithVars, pc, kmsg, promoted>>

ipc_mqueue_deinit ==
    /\ port = "destroyed"
    /\ port' = "dead"
    /\ UNCHANGED <<waitVars, imq_messages, imq_msgcount, imq_qlimit, imq_fullwaiters, ithVars, pc,
                   kmsg, promoted, outside>>

\* Mutant: a raised limit forgets the senders that still wait.
set_qlimit_forgets(qlimit) ==
    LET senders == Waiting(mq, IPC_MQUEUE_FULL)
        gain == IF qlimit > imq_qlimit THEN qlimit - imq_qlimit ELSE 0
        woken == {t \in senders : Cardinality(ahead[t] \cap senders) < gain}
    IN /\ port = "active"
       /\ Wake(woken, "AWAKENED")
       /\ promoted' = promoted \cup woken
       /\ imq_msgcount' = imq_msgcount + Cardinality(woken)
       /\ imq_fullwaiters' = (imq_fullwaiters /\ gain = 0)
       /\ imq_qlimit' = qlimit
       /\ UNCHANGED <<imq_messages, port, ithVars, pc, kmsg, outside>>

\* ipc_mqueue_set_qlimit: one sender is woken for every slot the limit gains.
ipc_mqueue_set_qlimit(qlimit) ==
    LET senders == Waiting(mq, IPC_MQUEUE_FULL)
        gain == IF qlimit > imq_qlimit THEN qlimit - imq_qlimit ELSE 0
        woken == {t \in senders : Cardinality(ahead[t] \cap senders) < gain}
    IN /\ port = "active"
       /\ Wake(woken, "AWAKENED")
       /\ promoted' = promoted \cup woken
       /\ imq_msgcount' = imq_msgcount + Cardinality(woken)
       /\ imq_fullwaiters' = (imq_fullwaiters /\ Cardinality(senders) >= gain)
       /\ imq_qlimit' = qlimit
       /\ UNCHANGED <<imq_messages, port, ithVars, pc, kmsg, outside>>

-----------------------------------------------------------------------------
clientVars == <<imqVars, ithVars, pc, kmsg, promoted, outside>>

\* The way out of the kernel.
Return(t) == pc[t] = "idle" /\ special_handler(t) /\ UNCHANGED clientVars

\* What happens to a thread from outside.
Outside(t) ==
    /\ \/ Clock(t)
       \/ t \in Aborts /\ Abort(t)
       \/ \E kind \in Kinds : clear_wait_internal(t, kind)
    /\ UNCHANGED clientVars

ThreadStep(t) ==
    \/ \E s \in Sends[t] : ipc_mqueue_send(t, s)
    \/ send_resumes(t)
    \/ ipc_mqueue_post(t)
    \/ \E o \in Receives[t] : ipc_mqueue_copyin(t, o)
    \/ ipc_mqueue_receive_on_thread(t)
    \/ ipc_mqueue_receive_results(t)
    \/ mach_msg_receive_results(t)
    \/ Return(t)

OwnerStep ==
    \/ \E moves \in BOOLEAN : ipc_port_clear_receiver(moves)
    \/ ipc_mqueue_destroy
    \/ ipc_mqueue_deinit
    \/ \E qlimit \in Qlimits : ipc_mqueue_set_qlimit(qlimit)

Next == OwnerStep \/ \E t \in Threads : ThreadStep(t) \/ Outside(t)

Spec == Init /\ [][Next]_vars

-----------------------------------------------------------------------------
(* What these keep. *)

WaitingFor(t, e) == waitq[t] = mq /\ wait_event[t] = e

\* The senders that own a slot: those that reserved one, and those that were
\* woken with one.
Owns(t) == pc[t] = "post" \/ (pc[t] = "sendWait" /\ "WAIT" \notin state[t] /\ wait_result[t] = "AWAKENED")

\* imq_msgcount is the messages queued and the slots that senders own, until
\* the queue is destroyed: no slot is lost or given twice between
\* ipc_mqueue_send, ipc_mqueue_release_msgcount and ipc_mqueue_set_qlimit,
\* whatever wakes, times out or is aborted in between.
SlotsExact ==
    port \in {"active", "cleared"} =>
        imq_msgcount = Len(imq_messages) + Cardinality({t \in Threads : Owns(t)})

\* A sender waits for a slot only while the queue is full, and is then known
\* to ipc_mqueue_release_msgcount by imq_fullwaiters: the flag is cleared
\* without looking at the wait queue, and limits come and go.
SendersRemembered ==
    \A t \in Threads : WaitingFor(t, IPC_MQUEUE_FULL) =>
        imq_fullwaiters /\ imq_full(imq_msgcount) /\ port \in {"active", "cleared"}

\* No receiver waits while there is a message: it looks and declares its wait
\* under one lock, and ipc_mqueue_post queues only when it has found nobody.
ReceiversServed ==
    imq_messages # <<>> => \A t \in Threads : ~WaitingFor(t, IPC_MQUEUE_RECEIVE)

\* A message is in one place: with a sender, on the queue, with a receiver or
\* outside.  None is lost when the wait of the thread that holds it or gets it
\* is ended by a timer, an abort or the port's end.
MessagesConserved ==
    \A m \in Msgs :
        Cardinality({t \in Threads : kmsg[t] = m}) + Cardinality({t \in Threads : ith_kmsg[t] = m})
        + Cardinality({i \in DOMAIN imq_messages : imq_messages[i] = m})
        + (IF m \in outside THEN 1 ELSE 0) = 1

\* waitq_deinit: assert(queue_empty(&waitq->waitq_queue)).
DeinitOfEmptyQueue ==
    [][port = "destroyed" /\ port' = "dead" => waitq_queue[mq] = {}]_vars
=============================================================================
