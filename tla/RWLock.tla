------------------------------- MODULE RWLock -------------------------------
(***************************************************************************)
(* The reader-writer sleep lock lck_rw_t of the x86_64 kernel:             *)
(* osfmk/i386/i386_lock.s (the compare-and-swap paths),                    *)
(* osfmk/i386/locks_i386.c (the contended paths and the wakeups),          *)
(* osfmk/kern/locks.c and sched_prim.c (the per-thread rwlock_count and    *)
(* the priority floor it earns a thread that stops running).               *)
(*                                                                         *)
(* One step is one atomic access to the lock word: a compare-and-swap that *)
(* succeeds, taking the interlock bit, or the code run under the interlock *)
(* up to its release.  A compare-and-swap that fails, a spin iteration and *)
(* a try-lock that returns FALSE change nothing and are stuttering steps.  *)
(* Spinning gives up at a moment the clock decides, so a thread on a slow  *)
(* path may turn to the interlock at any time.                             *)
(***************************************************************************)
EXTENDS Integers, FiniteSets

CONSTANT Threads   \* the threads that use the lock

ASSUME ThreadsFinite == IsFiniteSet(Threads)

VARIABLES lck,           \* the first word of the lock
          pc,            \* where each thread is in the lock's code
          prior,         \* prior_lock_state of a thread that is to wake others
          waiting,       \* the event a thread has asserted a wait on
          rwlock_count,  \* thread->rwlock_count
          rw_promoted,   \* thread->sched_flags & TH_SFLAG_RW_PROMOTED
          priv_excl      \* lck_rw_priv_excl: writers have privilege over readers

vars == <<lck, pc, prior, waiting, rwlock_count, rw_promoted, priv_excl>>

\* The bit fields of the word that every compare-and-swap covers.
Word == [shared_count : Nat,
         interlock    : BOOLEAN,
         want_upgrade : BOOLEAN,
         want_write   : BOOLEAN,
         r_waiting    : BOOLEAN,
         w_waiting    : BOOLEAN]

FreeWord == [shared_count |-> 0, interlock |-> FALSE, want_upgrade |-> FALSE,
             want_write |-> FALSE, r_waiting |-> FALSE, w_waiting |-> FALSE]

\* RW_LOCK_READER_EVENT, RW_LOCK_WRITER_EVENT, or no wait asserted.
Events == {"none", "reader", "writer"}

SharedPcs == {"tryShared", "shared", "downWake"}
WritePcs == {"exDrain", "exDrainIlk", "tryExcl", "exclW"}
UpgradePcs == {"upDrain", "upDrainIlk", "exclU"}
IlkPcs == {"shIlk", "exWantIlk", "exDrainIlk", "upDrainIlk"}
ExclPcs == {"tryExcl", "exclW", "exclU"}
Pcs == SharedPcs \cup WritePcs \cup UpgradePcs \cup IlkPcs \cup
       {"idle", "shFast", "shSlow", "exFast", "exWant",
        "wakeW", "wakeR", "drop", "demote", "upDrop", "upDemote", "upWake"}

Init ==
    /\ lck = FreeWord
    /\ pc = [t \in Threads |-> "idle"]
    /\ prior = [t \in Threads |-> FreeWord]
    /\ waiting = [t \in Threads |-> "none"]
    /\ rwlock_count = [t \in Threads |-> 0]
    /\ rw_promoted = [t \in Threads |-> FALSE]
    /\ priv_excl \in BOOLEAN

-----------------------------------------------------------------------------
(* Control. *)

\* Thread t runs at program point p: a thread that asserted a wait does not
\* run until a wakeup for its event.
At(t, p) == pc[t] = p /\ waiting[t] = "none"

Goto(t, p) == pc' = [pc EXCEPT ![t] = p]

\* thread_wakeup(event): every thread that asserted a wait on it.
WakeAll(event) ==
    waiting' = [u \in Threads |-> IF waiting[u] = event THEN "none" ELSE waiting[u]]

Held(w) == w.want_write \/ w.want_upgrade

\* lck_interlock_lock: wait for the bit to clear, then set it.
TakeInterlock(t, from, to) ==
    /\ At(t, from)
    /\ ~lck.interlock
    /\ lck' = [lck EXCEPT !.interlock = TRUE]
    /\ Goto(t, to)
    /\ UNCHANGED <<prior, waiting, rwlock_count, rw_promoted>>

\* lck_interlock_unlock
Unlocked(w) == [w EXCEPT !.interlock = FALSE]

\* Behind the interlock: assert_wait on an event and release the interlock;
\* thread_block follows.
SleepOn(t, event, w, to) ==
    /\ lck' = Unlocked(w)
    /\ waiting' = [waiting EXCEPT ![t] = event]
    /\ Goto(t, to)
    /\ UNCHANGED <<prior, rwlock_count, rw_promoted>>

\* Write the word, by compare-and-swap or with the release of the interlock.
Store(t, w, to) ==
    /\ lck' = w
    /\ Goto(t, to)
    /\ UNCHANGED <<prior, waiting, rwlock_count, rw_promoted>>

\* Write the word by compare-and-swap and keep the old one for the wakeups,
\* which do not look at its want bits.
StoreKeepPrior(t, w, to) ==
    /\ lck' = w
    /\ prior' = [prior EXCEPT ![t] = [lck EXCEPT !.want_write = FALSE, !.want_upgrade = FALSE]]
    /\ Goto(t, to)
    /\ UNCHANGED <<waiting, rwlock_count, rw_promoted>>

Count(t, from, to, n) ==
    /\ At(t, from)
    /\ rwlock_count' = [rwlock_count EXCEPT ![t] = @ + n]
    /\ Goto(t, to)
    /\ UNCHANGED <<lck, prior, waiting, rw_promoted>>

AddReader(w) == [w EXCEPT !.shared_count = @ + 1]
DropReader(w) == [w EXCEPT !.shared_count = @ - 1]
SetWantWrite(w) == [w EXCEPT !.want_write = TRUE]
SetWWaiting(w) == [w EXCEPT !.w_waiting = TRUE]

-----------------------------------------------------------------------------
(* Shared acquisition. *)

\* lck_rw_lock_shared counts the attempt before it touches the word.
lck_rw_lock_shared(t) == Count(t, "idle", "shFast", 1)

lck_rw_lock_shared_fast(t) ==
    /\ At(t, "shFast")
    /\ IF lck.interlock \/ Held(lck)
         THEN Store(t, lck, "shSlow")
         ELSE Store(t, AddReader(lck), "shared")

\* Mutant: a reader joins the readers ahead of a privileged writer too.
grab_shared_ahead_of_writer(t) ==
    /\ At(t, "shSlow")
    /\ ~lck.interlock
    /\ Held(lck) => lck.shared_count # 0
    /\ Store(t, AddReader(lck), "shared")

\* lck_rw_grab_shared: readers may join readers ahead of a pending writer
\* or upgrade only when writers have no privilege.
lck_rw_grab_shared(t) ==
    /\ At(t, "shSlow")
    /\ ~lck.interlock
    /\ Held(lck) => lck.shared_count # 0 /\ ~priv_excl
    /\ Store(t, AddReader(lck), "shared")

lck_rw_lock_shared_deadline(t) == TakeInterlock(t, "shSlow", "shIlk")

lck_rw_lock_shared_gen(t) ==
    /\ At(t, "shIlk")
    /\ IF Held(lck) /\ (lck.shared_count = 0 \/ priv_excl)
         THEN SleepOn(t, "reader", [lck EXCEPT !.r_waiting = TRUE], "shSlow")
         ELSE Store(t, Unlocked(AddReader(lck)), "shared")

\* A try-lock counts itself only after its compare-and-swap succeeded.
lck_rw_try_lock_shared(t) ==
    /\ At(t, "idle")
    /\ ~lck.interlock
    /\ ~Held(lck)
    /\ Store(t, AddReader(lck), "tryShared")

lck_rw_try_lock_shared_count(t) == Count(t, "tryShared", "shared", 1)

-----------------------------------------------------------------------------
(* Exclusive acquisition: own want_write, then outlast readers and upgrade. *)

lck_rw_lock_exclusive(t) == Count(t, "idle", "exFast", 1)

lck_rw_lock_exclusive_fast(t) ==
    /\ At(t, "exFast")
    /\ IF lck.interlock \/ Held(lck) \/ lck.shared_count # 0
         THEN Store(t, lck, "exWant")
         ELSE Store(t, SetWantWrite(lck), "exclW")

lck_rw_grab_want(t) ==
    /\ At(t, "exWant")
    /\ ~lck.interlock
    /\ ~lck.want_write
    /\ Store(t, SetWantWrite(lck), "exDrain")

lck_rw_lock_exclusive_want_deadline(t) == TakeInterlock(t, "exWant", "exWantIlk")

lck_rw_lock_exclusive_want(t) ==
    /\ At(t, "exWantIlk")
    /\ IF lck.want_write
         THEN SleepOn(t, "writer", SetWWaiting(lck), "exWant")
         ELSE Store(t, Unlocked(SetWantWrite(lck)), "exDrain")

\* Mutant: the mask of the test has no RW_WANT_UPGRADE.
held_read_only(t) ==
    /\ At(t, "exDrain")
    /\ lck.shared_count = 0 /\ ~lck.interlock
    /\ Store(t, lck, "exclW")

\* lck_rw_held_read_or_upgrade is false: one read of count, upgrade, interlock.
lck_rw_held_read_or_upgrade(t) ==
    /\ At(t, "exDrain")
    /\ lck.shared_count = 0 /\ ~lck.want_upgrade /\ ~lck.interlock
    /\ Store(t, lck, "exclW")

lck_rw_lock_exclusive_drain_deadline(t) == TakeInterlock(t, "exDrain", "exDrainIlk")

\* Mutant: behind the interlock only the readers are waited for.
exclusive_drain_readers_only(t) ==
    /\ At(t, "exDrainIlk")
    /\ IF lck.shared_count # 0
         THEN SleepOn(t, "writer", SetWWaiting(lck), "exDrain")
         ELSE Store(t, Unlocked(lck), "exclW")

lck_rw_lock_exclusive_drain(t) ==
    /\ At(t, "exDrainIlk")
    /\ IF lck.shared_count # 0 \/ lck.want_upgrade
         THEN SleepOn(t, "writer", SetWWaiting(lck), "exDrain")
         ELSE Store(t, Unlocked(lck), "exclW")

lck_rw_try_lock_exclusive(t) ==
    /\ At(t, "idle")
    /\ ~lck.interlock
    /\ ~Held(lck) /\ lck.shared_count = 0
    /\ Store(t, SetWantWrite(lck), "tryExcl")

lck_rw_try_lock_exclusive_count(t) == Count(t, "tryExcl", "exclW", 1)

-----------------------------------------------------------------------------
(* Upgrade and downgrade. *)

\* lck_rw_lock_shared_to_exclusive, want_upgrade free: take it and shed the
\* read count in one swap; the last reader owns the lock at once.
lck_rw_lock_shared_to_exclusive(t) ==
    /\ At(t, "shared")
    /\ ~lck.interlock
    /\ ~lck.want_upgrade
    /\ Store(t, [DropReader(lck) EXCEPT !.want_upgrade = TRUE],
             IF lck.shared_count = 1 THEN "exclU" ELSE "upDrain")

\* Someone else is upgrading: shed the read count and lose the lock.
lck_rw_lock_shared_to_exclusive_lose(t) ==
    /\ At(t, "shared")
    /\ ~lck.interlock
    /\ lck.want_upgrade
    /\ StoreKeepPrior(t, [DropReader(lck) EXCEPT !.w_waiting = @ /\ lck.shared_count # 1],
                      "upDrop")

\* lck_rw_lock_shared_to_exclusive_success: the count is read without the
\* interlock.
lck_rw_upgrade_drained(t) ==
    /\ At(t, "upDrain")
    /\ lck.shared_count = 0
    /\ Store(t, lck, "exclU")

lck_rw_upgrade_deadline(t) == TakeInterlock(t, "upDrain", "upDrainIlk")

lck_rw_lock_shared_to_exclusive_success(t) ==
    /\ At(t, "upDrainIlk")
    /\ IF lck.shared_count # 0
         THEN SleepOn(t, "writer", SetWWaiting(lck), "upDrain")
         ELSE Store(t, Unlocked(lck), "exclU")

\* Mutant: the losing upgrader goes on without clearing its promotion.
upgrade_failure_keeps_promotion(t) == Count(t, "upDrop", "upWake", -1)

\* lck_rw_lock_shared_to_exclusive_failure: uncount, demote, then wake.
lck_rw_upgrade_failure_drop(t) == Count(t, "upDrop", "upDemote", -1)

\* A done or a downgrade leaves the readers asleep when a privileged writer waits.
WakesReaders(w) == w.r_waiting /\ ~(priv_excl /\ w.w_waiting)

lck_rw_lock_shared_to_exclusive_failure(t) ==
    /\ At(t, "upWake")
    /\ IF prior[t].w_waiting /\ prior[t].shared_count = 1
         THEN WakeAll("writer")
         ELSE UNCHANGED waiting
    /\ prior' = [prior EXCEPT ![t] = FreeWord]
    /\ Goto(t, "idle")
    /\ UNCHANGED <<lck, rwlock_count, rw_promoted>>

Downgraded(w) ==
    [shared_count |-> w.shared_count + 1,
     interlock    |-> w.interlock,
     want_upgrade |-> FALSE,
     want_write   |-> w.want_write /\ w.want_upgrade,
     r_waiting    |-> w.r_waiting /\ ~WakesReaders(w),
     w_waiting    |-> w.w_waiting]

lck_rw_lock_exclusive_to_shared(t) ==
    /\ pc[t] \in {"exclW", "exclU"}
    /\ ~lck.interlock
    /\ StoreKeepPrior(t, Downgraded(lck), "downWake")

lck_rw_lock_exclusive_to_shared_gen(t) ==
    /\ At(t, "downWake")
    /\ IF WakesReaders(prior[t]) THEN WakeAll("reader") ELSE UNCHANGED waiting
    /\ prior' = [prior EXCEPT ![t] = FreeWord]
    /\ Goto(t, "shared")
    /\ UNCHANGED <<lck, rwlock_count, rw_promoted>>

-----------------------------------------------------------------------------
(* Release: the word alone tells lck_rw_done what kind of hold it drops. *)

DropHold(w) ==
    IF w.shared_count # 0 THEN DropReader(w)
    ELSE IF w.want_upgrade THEN [w EXCEPT !.want_upgrade = FALSE]
    ELSE [w EXCEPT !.want_write = FALSE]

\* Mutant: every release of a reader clears the writers' waiting bit.
released_clears_w_waiting(w) ==
    LET d == DropHold(w)
    IN IF d.shared_count # 0 THEN [d EXCEPT !.w_waiting = FALSE]
       ELSE [d EXCEPT !.w_waiting = FALSE, !.r_waiting = @ /\ ~WakesReaders(w)]

\* Mutant: the readers' waiting bit is cleared although nobody wakes them.
released_clears_r_waiting(w) ==
    LET d == DropHold(w)
    IN IF d.shared_count # 0 THEN d
       ELSE [d EXCEPT !.w_waiting = FALSE, !.r_waiting = FALSE]

\* When the hold dropped was the last one, the waiting bits of those that
\* lck_rw_done_gen is going to wake are cleared in the same swap.
Released(w) ==
    LET d == DropHold(w)
    IN IF d.shared_count # 0 THEN d
       ELSE [d EXCEPT !.w_waiting = FALSE, !.r_waiting = @ /\ ~WakesReaders(w)]

lck_rw_done(t) ==
    /\ pc[t] \in {"shared", "exclW", "exclU"}
    /\ ~lck.interlock
    /\ lck.shared_count # 0 \/ Held(lck)     \* otherwise it panics
    /\ StoreKeepPrior(t, Released(lck), "wakeW")

lck_rw_done_gen_writers(t) ==
    /\ At(t, "wakeW")
    /\ IF prior[t].shared_count <= 1 /\ prior[t].w_waiting
         THEN WakeAll("writer")
         ELSE UNCHANGED waiting
    /\ Goto(t, "wakeR")
    /\ UNCHANGED <<lck, prior, rwlock_count, rw_promoted>>

lck_rw_done_gen_readers(t) ==
    /\ At(t, "wakeR")
    /\ IF prior[t].shared_count <= 1 /\ WakesReaders(prior[t])
         THEN WakeAll("reader")
         ELSE UNCHANGED waiting
    /\ prior' = [prior EXCEPT ![t] = FreeWord]
    /\ Goto(t, "drop")
    /\ UNCHANGED <<lck, rwlock_count, rw_promoted>>

lck_rw_done_gen_drop(t) == Count(t, "drop", "demote", -1)

-----------------------------------------------------------------------------
(* Priority floor. *)

\* lck_rw_clear_promotion, when the last hold of the thread is gone.
lck_rw_clear_promotion(t) ==
    /\ pc[t] \in {"demote", "upDemote"}
    /\ rw_promoted' = [rw_promoted EXCEPT ![t] = @ /\ rwlock_count[t] # 0]
    /\ Goto(t, IF pc[t] = "demote" THEN "idle" ELSE "upWake")
    /\ UNCHANGED <<lck, prior, waiting, rwlock_count>>

\* thread_dispatch of a thread that blocks or is preempted while it counts a
\* lock.  Interrupts are off while the interlock is held.
thread_dispatch(t) ==
    /\ pc[t] \notin IlkPcs
    /\ rwlock_count[t] # 0
    /\ rw_promoted' = [rw_promoted EXCEPT ![t] = TRUE]
    /\ UNCHANGED <<lck, pc, prior, waiting, rwlock_count>>

-----------------------------------------------------------------------------

\* What a thread inside the lock's code does next, and returning the lock.
Continue(t) ==
    \/ lck_rw_lock_shared_fast(t)
    \/ lck_rw_grab_shared(t)
    \/ lck_rw_lock_shared_deadline(t)
    \/ lck_rw_lock_shared_gen(t)
    \/ lck_rw_try_lock_shared_count(t)
    \/ lck_rw_lock_exclusive_fast(t)
    \/ lck_rw_grab_want(t)
    \/ lck_rw_lock_exclusive_want_deadline(t)
    \/ lck_rw_lock_exclusive_want(t)
    \/ lck_rw_held_read_or_upgrade(t)
    \/ lck_rw_lock_exclusive_drain_deadline(t)
    \/ lck_rw_lock_exclusive_drain(t)
    \/ lck_rw_try_lock_exclusive_count(t)
    \/ lck_rw_upgrade_drained(t)
    \/ lck_rw_upgrade_deadline(t)
    \/ lck_rw_lock_shared_to_exclusive_success(t)
    \/ lck_rw_upgrade_failure_drop(t)
    \/ lck_rw_lock_shared_to_exclusive_failure(t)
    \/ lck_rw_lock_exclusive_to_shared_gen(t)
    \/ lck_rw_done_gen_writers(t)
    \/ lck_rw_done_gen_readers(t)
    \/ lck_rw_done_gen_drop(t)
    \/ lck_rw_clear_promotion(t)

\* What the code that uses the lock may ask for.
Request(t) ==
    \/ lck_rw_lock_shared(t)
    \/ lck_rw_try_lock_shared(t)
    \/ lck_rw_lock_exclusive(t)
    \/ lck_rw_try_lock_exclusive(t)
    \/ lck_rw_lock_shared_to_exclusive(t)
    \/ lck_rw_lock_shared_to_exclusive_lose(t)
    \/ lck_rw_lock_exclusive_to_shared(t)
    \/ lck_rw_done(t)

\* The privilege is given to a lock when it is made (lck_rw_init).
Next ==
    /\ \E t \in Threads : Continue(t) \/ Request(t) \/ thread_dispatch(t)
    /\ UNCHANGED priv_excl

Spec == Init /\ [][Next]_vars

\* A thread that is runnable runs, and a thread that keeps coming back to a
\* point where it holds the lock and may release it does release it in the end.
Fairness ==
    \A t \in Threads :
        /\ WF_vars(Continue(t) /\ UNCHANGED priv_excl)
        /\ SF_vars(lck_rw_done(t) /\ UNCHANGED priv_excl)

-----------------------------------------------------------------------------
(* Properties. *)

TypeOK ==
    /\ lck \in Word
    /\ pc \in [Threads -> Pcs]
    /\ prior \in [Threads -> Word]
    /\ waiting \in [Threads -> Events]
    /\ rwlock_count \in [Threads -> Int]
    /\ rw_promoted \in [Threads -> BOOLEAN]

Readers == {t \in Threads : pc[t] \in SharedPcs}

\* The 16-bit count is exactly the number of threads that hold the lock
\* shared: no path through the swaps, the interlock, a refused upgrade or a
\* downgrade loses or duplicates a reader.
SharedCountExact == lck.shared_count = Cardinality(Readers)

\* A thread that was told it holds the lock exclusively is alone: no reader,
\* no second writer, and no thread between its read hold and its upgrade.
Exclusion ==
    \A t, u \in Threads :
        pc[t] \in ExclPcs /\ u # t =>
            pc[u] \notin ExclPcs \cup SharedPcs \cup {"upDrain", "upDrainIlk"}

AtMostOne(pcs) == \A t, u \in Threads : pc[t] \in pcs /\ pc[u] \in pcs => t = u

\* Each bit of the word has exactly one owner while it is set, a waiting bit
\* apart: a bit set with no owner would never be cleared, one cleared under its
\* owner would let a second thread in.
BitsOwned ==
    /\ lck.interlock <=> \E t \in Threads : pc[t] \in IlkPcs
    /\ lck.want_write <=> \E t \in Threads : pc[t] \in WritePcs
    /\ lck.want_upgrade <=> \E t \in Threads : pc[t] \in UpgradePcs
    /\ AtMostOne(IlkPcs) /\ AtMostOne(WritePcs) /\ AtMostOne(UpgradePcs)

\* An exclusive hold leaves no reader and, unless it is itself an upgrade, no
\* upgrade; only a thread on a slow path sleeps.
HoldsExclude ==
    \A t \in Threads :
        /\ pc[t] \in ExclPcs => lck.shared_count = 0
        /\ pc[t] \in {"exclW", "tryExcl"} => ~lck.want_upgrade
        /\ waiting[t] = "writer" => pc[t] \in {"exWant", "exDrain", "upDrain"}
        /\ waiting[t] = "reader" => pc[t] = "shSlow"

\* lck_rw_done sees only the word.  It always finds in it the kind of hold
\* its caller has, so neither its own panic nor those of
\* lck_rw_unlock_shared and lck_rw_unlock_exclusive are reached, and an
\* upgraded holder never clears the want_write of a writer that waits.
ReleaseFindsItsHold ==
    \A t \in Threads :
        /\ pc[t] = "shared" => lck.shared_count # 0
        /\ pc[t] = "exclW" => lck.shared_count = 0 /\ lck.want_write /\ ~lck.want_upgrade
        /\ pc[t] = "exclU" => lck.shared_count = 0 /\ lck.want_upgrade

\* A thread about to wake the sleepers of an event, from the word it replaced.
WakesWriters(t) ==
    /\ prior[t].w_waiting
    /\ \/ pc[t] = "wakeW" /\ prior[t].shared_count <= 1
       \/ pc[t] \in {"upDrop", "upDemote", "upWake"} /\ prior[t].shared_count = 1

WillWakeReaders(t) ==
    /\ WakesReaders(prior[t])
    /\ \/ pc[t] \in {"wakeW", "wakeR"} /\ prior[t].shared_count <= 1
       \/ pc[t] = "downWake"

Busy == lck.shared_count # 0 \/ Held(lck)

\* What a sleeping writer waits for is still there: somebody else's hold, for
\* one that drains the readers not its own want bit.
StillBlocked(t) ==
    \/ pc[t] = "exWant" /\ Busy
    \/ pc[t] = "exDrain" /\ (lck.shared_count # 0 \/ lck.want_upgrade)
    \/ pc[t] = "upDrain" /\ lck.shared_count # 0

\* No wakeup is lost: a sleeping writer or upgrader has its waiting bit set and
\* something to wait for, or somebody is on the way to wake it, although the swap
\* that clears the bit and the thread_wakeup are two steps.
WritersNotForgotten ==
    \A t \in Threads : waiting[t] = "writer" =>
        \/ lck.w_waiting /\ StillBlocked(t)
        \/ \E u \in Threads : WakesWriters(u)

\* A writer that is awake, or about to be, and will hold and release the lock.
WriterComing ==
    \E u \in Threads :
        /\ pc[u] \in {"exWant", "exWantIlk"}
        /\ waiting[u] = "none" \/ \E v \in Threads : WakesWriters(v)

\* No wakeup of a reader is lost either.  A privileged writer woken in its place
\* may find the lock free: that writer is then the one who will wake it.
ReadersNotForgotten ==
    (\E t \in Threads : waiting[t] = "reader") =>
        \/ lck.r_waiting /\ (Busy \/ (priv_excl /\ WriterComing))
        \/ \E u \in Threads : WillWakeReaders(u)

\* rwlock_count, which thread_dispatch goes by to lend a preempted holder its
\* priority, covers the hold from the moment others see the lock held to the
\* moment they see it free.  The exception is a try-lock between its
\* compare-and-swap and its increment, which osfmk/i386/i386_lock.s admits ("a
\* 3 instr window") and osfmk/kern/locks.c excludes ("before a CAS is executed").
\* The priority floor lasts no longer: a thread that counts no lock has lost the
\* floor or is about to clear it, whenever it was preempted, and a thread outside
\* the lock's code counts nothing.
CountTracksHold ==
    \A t \in Threads :
        /\ rwlock_count[t] \in {0, 1}
        /\ rwlock_count[t] = 0 => pc[t] \notin SharedPcs \cup ExclPcs \/ pc[t] \in {"tryShared", "tryExcl"}
        /\ rw_promoted[t] => rwlock_count[t] = 1 \/ pc[t] \in {"demote", "upDemote"}
        /\ pc[t] = "idle" => rwlock_count[t] = 0

\* The inductive invariant: exclusion needs to know what each bit means.
IInv ==
    /\ TypeOK
    /\ SharedCountExact
    /\ BitsOwned
    /\ HoldsExclude

\* The lock implements the abstract shared / exclusive lock.
ModeOf(p) ==
    IF p \in SharedPcs THEN "shared"
    ELSE IF p \in {"upDrain", "upDrainIlk"} THEN "upgrading"
    ELSE IF p \in ExclPcs THEN "exclusive"
    ELSE "none"

ModeMap == [t \in Threads |-> ModeOf(pc[t])]

SE == INSTANCE SharedExclusive WITH mode <- ModeMap

\* Every step of the lock is a step of the abstract lock or invisible to its
\* users: an upgrade that is granted never lets a writer in between.
ImplementsSharedExclusive == SE!SE_Spec

\* With privilege for writers, a thread that has the want_write bit, or an
\* upgrade under way, does get the lock: new readers stay out, the readers
\* drain, and the last of them wakes it.
PrivilegedAcquires ==
    \A t \in Threads :
        /\ pc[t] = "exDrain" ~> pc[t] = "exclW"
        /\ pc[t] = "upDrain" ~> pc[t] = "exclU"

=============================================================================
