-------------------------------- MODULE Mutex --------------------------------
(***************************************************************************)
(* The blocking mutex lck_mtx_t of the x86_64 kernel: the compare-and-swap *)
(* paths of osfmk/i386/i386_lock.s and the contended paths of              *)
(* osfmk/i386/locks_i386.c, with the priority they lend to a holder.       *)
(*                                                                         *)
(* The interlock bit guards every plain store to the state word: a thread  *)
(* that has it works on its own copy of the word (the register ecx) and    *)
(* stores the copy back.  One step is a successful compare-and-swap, or    *)
(* the code from there to the store that gives the interlock back; a       *)
(* failed swap, a pause or a try that returns 0 changes nothing.           *)
(***************************************************************************)
EXTENDS Integers, FiniteSets

CONSTANTS Threads,
          Mutexes,          \* locked by blocking calls in increasing order
          BasePri,          \* base_pri of each thread, in fixed-priority mode
          BASEPRI_DEFAULT,  \* the least priority a waiter lends
          MAXPRI_PROMOTE,   \* the most a waiter lends
          None              \* no owner

ASSUME Finite == IsFiniteSet(Threads) /\ IsFiniteSet(Mutexes) /\ Mutexes \subseteq Nat
ASSUME Priorities == /\ BasePri \in [Threads -> Nat]
                     /\ BASEPRI_DEFAULT \in Nat /\ MAXPRI_PROMOTE \in Nat
                     /\ BASEPRI_DEFAULT <= MAXPRI_PROMOTE
ASSUME NoneIsNoThread == None \notin Threads

VARIABLES mtx,           \* lck_mtx_state of each mutex
          owner,         \* lck_mtx_owner of each mutex
          held,          \* the mutexes each thread was told it holds
          pc,            \* where each thread is in the mutex code
          obj,           \* the mutex it is working on there
          ecx,           \* its copy of the state word
          sched_pri,     \* thread->sched_pri
          promotions,    \* thread->promotions
          promoted,      \* thread->sched_flags & TH_SFLAG_PROMOTED
          was_promoted   \* thread->was_promoted_on_wakeup

prio == <<sched_pri, promotions, promoted, was_promoted>>
vars == <<mtx, owner, held, pc, obj, ecx, prio>>

Word == [waiters : Nat, pri : Nat, ilocked : BOOLEAN, mlocked : BOOLEAN,
         promoted : BOOLEAN, spin : BOOLEAN]

FreeWord == [waiters |-> 0, pri |-> 0, ilocked |-> FALSE, mlocked |-> FALSE,
             promoted |-> FALSE, spin |-> FALSE]

\* Points at which a thread has the interlock of the mutex it works on.
IlkPcs == {"acquired", "acquiredSlow", "spinIlk", "slowIlk", "release"}
Pcs == IlkPcs \cup {"idle", "spin", "spun", "slow", "asleep", "wake", "demote"}

Init ==
    /\ mtx = [m \in Mutexes |-> FreeWord]
    /\ owner = [m \in Mutexes |-> None]
    /\ held = [t \in Threads |-> {}]
    /\ pc = [t \in Threads |-> "idle"]
    /\ obj \in [Threads -> Mutexes]
    /\ ecx = [t \in Threads |-> FreeWord]
    /\ sched_pri = BasePri
    /\ promotions = [t \in Threads |-> 0]
    /\ promoted = [t \in Threads |-> FALSE]
    /\ was_promoted = [t \in Threads |-> FALSE]

-----------------------------------------------------------------------------
(* Control. *)

Goto(t, p) == pc' = [pc EXCEPT ![t] = p]
Store(m, w) == mtx' = [mtx EXCEPT ![m] = w]
Free(w) == ~w.ilocked /\ ~w.mlocked

\* What the code that uses mutexes keeps to: it does not lock what it holds.
\* A call that may block comes without a spin hold (preemption is disabled
\* under one) and in the order of the mutexes.
NotHeld(t, m) == pc[t] = "idle" /\ m \notin held[t]
MayBlock(t, m) ==
    /\ NotHeld(t, m)
    /\ \A k \in held[t] : k < m /\ ~mtx[k].spin

\* Compare-and-swap of a free word to a locked mutex with its interlock.
GrabMutex(t, m, to) ==
    /\ Free(mtx[m])
    /\ Store(m, [mtx[m] EXCEPT !.ilocked = TRUE, !.mlocked = TRUE])
    /\ obj' = [obj EXCEPT ![t] = m]
    /\ Goto(t, to)
    /\ UNCHANGED <<owner, held, ecx, prio>>

\* Mutant: the spin path tests the interlock only.
grab_spin_ignores_mutex(t, m) ==
    /\ ~mtx[m].ilocked
    /\ Store(m, [mtx[m] EXCEPT !.ilocked = TRUE, !.spin = TRUE])
    /\ owner' = [owner EXCEPT ![m] = t]
    /\ held' = [held EXCEPT ![t] = @ \cup {m}]
    /\ UNCHANGED <<pc, obj, ecx, prio>>

\* Compare-and-swap of a free word to its interlock kept as a spin lock.
GrabSpin(t, m) ==
    /\ Free(mtx[m])
    /\ Store(m, [mtx[m] EXCEPT !.ilocked = TRUE, !.spin = TRUE])
    /\ owner' = [owner EXCEPT ![m] = t]
    /\ held' = [held EXCEPT ![t] = @ \cup {m}]
    /\ UNCHANGED <<pc, obj, ecx, prio>>

\* Compare-and-swap that sets the interlock of the mutex t works on.
TakeInterlock(t, from, to) ==
    /\ pc[t] = from
    /\ ~mtx[obj[t]].ilocked
    /\ Store(obj[t], [mtx[obj[t]] EXCEPT !.ilocked = TRUE])
    /\ Goto(t, to)
    /\ UNCHANGED <<owner, held, obj, prio>>

Keep(t, w) == ecx' = [ecx EXCEPT ![t] = w]
Forget(t) == ecx' = [ecx EXCEPT ![t] = FreeWord]

-----------------------------------------------------------------------------
(* Acquisition. *)

lck_mtx_lock(t, m) == MayBlock(t, m) /\ GrabMutex(t, m, "acquired")
lck_mtx_try_lock(t, m) == NotHeld(t, m) /\ GrabMutex(t, m, "acquired")
lck_mtx_lock_spin(t, m) == MayBlock(t, m) /\ GrabSpin(t, m)
lck_mtx_try_lock_spin(t, m) == NotHeld(t, m) /\ GrabSpin(t, m)

\* lck_mtx_lock and lck_mtx_lock_spin find the mutex locked: Llml_contended.
lck_mtx_lock_contended(t, m) ==
    /\ MayBlock(t, m)
    /\ mtx[m].mlocked
    /\ obj' = [obj EXCEPT ![t] = m]
    /\ Goto(t, "spin")
    /\ UNCHANGED <<mtx, owner, held, ecx, prio>>

\* lck_mtx_lock_acquire_x86: with waiters, or after a wakeup that promoted
\* it, thread t is promoted for mutex m, whose word is w.
Lends(w) == IF w.waiters # 0 THEN w.pri ELSE 0
NeedsPromotion(t, w) == sched_pri[t] < Lends(w) \/ was_promoted[t]

lck_mtx_lock_acquire_x86(t, w) ==
    IF NeedsPromotion(t, w)
      THEN /\ sched_pri' = [sched_pri EXCEPT ![t] = IF @ < Lends(w) THEN Lends(w) ELSE @]
           /\ promotions' = [promotions EXCEPT ![t] = IF w.promoted THEN @ ELSE @ + 1]
           /\ promoted' = [promoted EXCEPT ![t] = @ \/ ~w.promoted]
           /\ was_promoted' = [was_promoted EXCEPT ![t] = FALSE]
      ELSE UNCHANGED prio

AcquiredWord(t, w) == [w EXCEPT !.promoted = @ \/ NeedsPromotion(t, w)]

\* From the owner store to Llml_finish.  The fast path looks at the waiters
\* only, the contended one also at was_promoted_on_wakeup.
lck_mtx_lock_finish(t) ==
    LET m == obj[t]
        w == mtx[m]
        promote == w.waiters # 0 \/ (pc[t] = "acquiredSlow" /\ was_promoted[t])
    IN /\ pc[t] \in {"acquired", "acquiredSlow"}
       /\ owner' = [owner EXCEPT ![m] = t]
       /\ held' = [held EXCEPT ![t] = @ \cup {m}]
       /\ IF promote THEN lck_mtx_lock_acquire_x86(t, w) ELSE UNCHANGED prio
       /\ Store(m, [IF promote THEN AcquiredWord(t, w) ELSE w EXCEPT !.ilocked = FALSE])
       /\ Goto(t, "idle")
       /\ UNCHANGED <<obj, ecx>>

\* Mutant: a spin hold becomes a mutex without looking at the waiters.
convert_spin_no_promotion(t, m) ==
    /\ pc[t] = "idle" /\ m \in held[t]
    /\ ~mtx[m].mlocked
    /\ Store(m, [mtx[m] EXCEPT !.ilocked = FALSE, !.spin = FALSE, !.mlocked = TRUE])
    /\ UNCHANGED <<owner, held, pc, obj, ecx, prio>>

lck_mtx_convert_spin(t, m) ==
    LET w == mtx[m]
        promote == w.waiters # 0
    IN /\ pc[t] = "idle" /\ m \in held[t]
       /\ ~w.mlocked
       /\ IF promote THEN lck_mtx_lock_acquire_x86(t, w) ELSE UNCHANGED prio
       /\ Store(m, [IF promote THEN AcquiredWord(t, w) ELSE w EXCEPT
                      !.ilocked = FALSE, !.spin = FALSE, !.mlocked = TRUE])
       /\ UNCHANGED <<owner, held, pc, obj, ecx>>

-----------------------------------------------------------------------------
(* Contention: lck_mtx_lock_spinwait_x86, then the interlock, then sleep. *)

lck_mtx_lock_grab_mutex(t) ==
    /\ pc[t] \in {"spin", "spun"}
    /\ GrabMutex(t, obj[t], "acquiredSlow")

\* Every so often the spinner looks, behind the interlock, whether the owner
\* runs on a processor.  The looks of one spin have no lasting effect: one.
lck_mtx_ilk_try_lock(t) ==
    /\ owner[obj[t]] # None
    /\ TakeInterlock(t, "spin", "spinIlk")
    /\ UNCHANGED ecx

lck_mtx_ilk_unlock(t) ==
    /\ pc[t] = "spinIlk"
    /\ Store(obj[t], [mtx[obj[t]] EXCEPT !.ilocked = FALSE])
    /\ \/ Goto(t, "spun")
       \/ owner[obj[t]] # None /\ Goto(t, "slow")   \* the holder is not running
    /\ UNCHANGED <<owner, held, obj, ecx, prio>>

\* The deadline of the spin has passed.
lck_mtx_lock_spinwait_x86(t) ==
    /\ pc[t] \in {"spin", "spun"}
    /\ Goto(t, "slow")
    /\ UNCHANGED <<mtx, owner, held, obj, ecx, prio>>

lck_mtx_lock_interlock(t) ==
    /\ TakeInterlock(t, "slow", "slowIlk")
    /\ Keep(t, [mtx[obj[t]] EXCEPT !.ilocked = TRUE])

\* The mutex has become free behind the interlock: grab it directly.
lck_mtx_lock_grab_direct(t) ==
    /\ pc[t] = "slowIlk"
    /\ ~ecx[t].mlocked
    /\ Store(obj[t], [ecx[t] EXCEPT !.mlocked = TRUE])
    /\ Goto(t, "acquiredSlow")
    /\ Forget(t)
    /\ UNCHANGED <<owner, held, obj, prio>>

\* The priority that a waiting thread lends to the holder.
WaitPri(t) ==
    LET own == IF sched_pri[t] < BasePri[t] THEN BasePri[t] ELSE sched_pri[t]
        least == IF own < BASEPRI_DEFAULT THEN BASEPRI_DEFAULT ELSE own
    IN IF least < MAXPRI_PROMOTE THEN least ELSE MAXPRI_PROMOTE

WaitWord(t, w) ==
    [w EXCEPT !.pri = IF w.waiters = 0 \/ WaitPri(t) > @ THEN WaitPri(t) ELSE @,
              !.waiters = @ + 1]

lck_mtx_lock_wait_x86(t) ==
    LET m == obj[t]
        w == WaitWord(t, mtx[m])
        holder == owner[m]
        promote == holder # None /\ sched_pri[holder] < w.pri
    IN /\ pc[t] = "slowIlk"
       /\ ecx[t].mlocked
       /\ IF promote
            THEN /\ sched_pri' = [sched_pri EXCEPT ![holder] = WaitPri(t)]
                 /\ promotions' = [promotions EXCEPT ![holder] = IF w.promoted THEN @ ELSE @ + 1]
                 /\ promoted' = [promoted EXCEPT ![holder] = @ \/ ~w.promoted]
                 /\ UNCHANGED was_promoted
            ELSE UNCHANGED prio
       /\ Store(m, [w EXCEPT !.promoted = @ \/ promote, !.ilocked = FALSE])
       /\ Goto(t, "asleep")
       /\ Forget(t)
       /\ UNCHANGED <<owner, held, obj>>

-----------------------------------------------------------------------------
(* Release. *)

\* Mutant: the unlock does not wait for the interlock to clear.
unlock_ignores_interlock(t, m) ==
    LET w == [mtx[m] EXCEPT !.mlocked = FALSE, !.ilocked = TRUE]
    IN /\ pc[t] = "idle" /\ m \in held[t]
       /\ mtx[m].mlocked
       /\ Store(m, w)
       /\ Keep(t, w)
       /\ held' = [held EXCEPT ![t] = @ \ {m}]
       /\ obj' = [obj EXCEPT ![t] = m]
       /\ Goto(t, "release")
       /\ UNCHANGED <<owner, prio>>

\* A full mutex: drop it and pick up the interlock in one swap.
lck_mtx_unlock(t, m) ==
    LET w == [mtx[m] EXCEPT !.mlocked = FALSE, !.ilocked = TRUE]
    IN /\ pc[t] = "idle" /\ m \in held[t]
       /\ mtx[m].mlocked /\ ~mtx[m].ilocked
       /\ Store(m, w)
       /\ Keep(t, w)
       /\ held' = [held EXCEPT ![t] = @ \ {m}]
       /\ obj' = [obj EXCEPT ![t] = m]
       /\ Goto(t, "release")
       /\ UNCHANGED <<owner, prio>>

\* A spin hold: the interlock is ours already.
lck_mtx_unlock_spin(t, m) ==
    /\ pc[t] = "idle" /\ m \in held[t]
    /\ ~mtx[m].mlocked
    /\ Keep(t, mtx[m])
    /\ held' = [held EXCEPT ![t] = @ \ {m}]
    /\ obj' = [obj EXCEPT ![t] = m]
    /\ Goto(t, "release")
    /\ UNCHANGED <<mtx, owner, prio>>

\* Mutant: the waiter count is left to the woken thread.
released_word_keeps_waiters(w) ==
    [w EXCEPT !.ilocked = FALSE, !.spin = FALSE, !.promoted = FALSE]

ReleasedWord(w) ==
    [w EXCEPT !.ilocked = FALSE, !.spin = FALSE, !.promoted = FALSE,
              !.waiters = IF @ = 0 THEN 0 ELSE @ - 1]

\* Mutant: the wakeup routine is called for a promoted holder only.
unlock_store_promoted_only(t) ==
    /\ pc[t] = "release"
    /\ owner' = [owner EXCEPT ![obj[t]] = None]
    /\ Store(obj[t], ReleasedWord(ecx[t]))
    /\ IF ecx[t].promoted
         THEN Goto(t, "wake") /\ UNCHANGED ecx
         ELSE Goto(t, "idle") /\ Forget(t)
    /\ UNCHANGED <<held, obj, prio>>

\* Llmu_unlock: the owner, then the word, which gives the interlock back.
lck_mtx_unlock_store(t) ==
    /\ pc[t] = "release"
    /\ owner' = [owner EXCEPT ![obj[t]] = None]
    /\ Store(obj[t], ReleasedWord(ecx[t]))
    /\ IF ecx[t].promoted \/ ecx[t].waiters # 0
         THEN Goto(t, "wake") /\ UNCHANGED ecx
         ELSE Goto(t, "idle") /\ Forget(t)
    /\ UNCHANGED <<held, obj, prio>>

Sleepers(m) == {t \in Threads : pc[t] = "asleep" /\ obj[t] = m}

\* waitq.c, maybe_adjust_thread_pri: a thread woken with a priority.
WokenWith(u, pri) ==
    IF sched_pri[u] < pri
      THEN /\ sched_pri' = [sched_pri EXCEPT ![u] = pri]
           /\ was_promoted' = [was_promoted EXCEPT ![u] = TRUE]
           /\ promoted' = [promoted EXCEPT ![u] = TRUE]
           /\ UNCHANGED promotions
      ELSE UNCHANGED prio

\* Mutant: a single waiter is not woken.
unlock_wakeup_many_only(t) ==
    /\ pc[t] = "wake"
    /\ IF ecx[t].waiters <= 1 \/ Sleepers(obj[t]) = {}
         THEN Goto(t, "demote") /\ UNCHANGED prio
         ELSE \E u \in Sleepers(obj[t]) :
                /\ pc' = [pc EXCEPT ![t] = "demote", ![u] = "spin"]
                /\ WokenWith(u, ecx[t].pri)
    /\ UNCHANGED <<mtx, owner, held, obj, ecx>>

\* lck_mtx_unlock_wakeup_x86, on the word from before the release: one sleeper
\* is woken, with the mutex's priority when there are more of them.  The woken
\* thread contends again.
lck_mtx_unlock_wakeup_x86(t) ==
    /\ pc[t] = "wake"
    /\ IF ecx[t].waiters = 0 \/ Sleepers(obj[t]) = {}
         THEN Goto(t, "demote") /\ UNCHANGED prio
         ELSE \E u \in Sleepers(obj[t]) :
                /\ pc' = [pc EXCEPT ![t] = "demote", ![u] = "spin"]
                /\ IF ecx[t].waiters > 1 THEN WokenWith(u, ecx[t].pri) ELSE UNCHANGED prio
    /\ UNCHANGED <<mtx, owner, held, obj, ecx>>

\* Mutant: the last promotion is looked for after the count has gone down.
unlock_demote_after(t) ==
    LET drop == ecx[t].promoted /\ promotions[t] > 0
        last == drop /\ promotions[t] = 2 /\ promoted[t]
    IN /\ pc[t] = "demote"
       /\ promotions' = [promotions EXCEPT ![t] = IF drop THEN @ - 1 ELSE @]
       /\ promoted' = [promoted EXCEPT ![t] = @ /\ ~last]
       /\ sched_pri' = [sched_pri EXCEPT ![t] = IF last THEN BasePri[t] ELSE @]
       /\ Goto(t, "idle")
       /\ Forget(t)
       /\ UNCHANGED <<mtx, owner, held, obj, was_promoted>>

\* The rest of it: a mutex that promoted its holder takes the promotion back;
\* with the last one goes the priority.
lck_mtx_unlock_demote(t) ==
    LET drop == ecx[t].promoted /\ promotions[t] > 0
        last == drop /\ promotions[t] = 1 /\ promoted[t]
    IN /\ pc[t] = "demote"
       /\ promotions' = [promotions EXCEPT ![t] = IF drop THEN @ - 1 ELSE @]
       /\ promoted' = [promoted EXCEPT ![t] = @ /\ ~last]
       /\ sched_pri' = [sched_pri EXCEPT ![t] = IF last THEN BasePri[t] ELSE @]
       /\ Goto(t, "idle")
       /\ Forget(t)
       /\ UNCHANGED <<mtx, owner, held, obj, was_promoted>>

-----------------------------------------------------------------------------

Continue(t) ==
    \/ lck_mtx_lock_finish(t)
    \/ lck_mtx_lock_grab_mutex(t)
    \/ lck_mtx_ilk_try_lock(t)
    \/ lck_mtx_ilk_unlock(t)
    \/ lck_mtx_lock_spinwait_x86(t)
    \/ lck_mtx_lock_interlock(t)
    \/ lck_mtx_lock_grab_direct(t)
    \/ lck_mtx_lock_wait_x86(t)
    \/ lck_mtx_unlock_store(t)
    \/ lck_mtx_unlock_wakeup_x86(t)
    \/ lck_mtx_unlock_demote(t)

Release(t, m) == lck_mtx_unlock(t, m) \/ lck_mtx_unlock_spin(t, m)

Request(t, m) ==
    \/ lck_mtx_lock(t, m)
    \/ lck_mtx_lock_contended(t, m)
    \/ lck_mtx_try_lock(t, m)
    \/ lck_mtx_lock_spin(t, m)
    \/ lck_mtx_try_lock_spin(t, m)
    \/ lck_mtx_convert_spin(t, m)
    \/ Release(t, m)

Next == \E t \in Threads : Continue(t) \/ \E m \in Mutexes : Request(t, m)

Spec == Init /\ [][Next]_vars

\* A thread inside the code runs, a compare-and-swap that could succeed again
\* and again succeeds in the end, and a held mutex is released in the end.
Fairness ==
    \A t \in Threads : /\ SF_vars(Continue(t))
                       /\ \A m \in Mutexes : SF_vars(Release(t, m))

FairSpec == Spec /\ Fairness

-----------------------------------------------------------------------------
(* Properties. *)

TypeOK ==
    /\ mtx \in [Mutexes -> Word]
    /\ owner \in [Mutexes -> Threads \cup {None}]
    /\ held \in [Threads -> SUBSET Mutexes]
    /\ pc \in [Threads -> Pcs]
    /\ obj \in [Threads -> Mutexes]
    /\ ecx \in [Threads -> Word]
    /\ sched_pri \in [Threads -> Nat]
    /\ promotions \in [Threads -> Nat]
    /\ promoted \in [Threads -> BOOLEAN]
    /\ was_promoted \in [Threads -> BOOLEAN]

\* No two threads hold a mutex, as a mutex or as a spin lock, and the owner
\* field names the holder, so that lck_mtx_assert agrees with the holder.
MutualExclusion ==
    \A t \in Threads : \A m \in held[t] :
        /\ owner[m] = t
        /\ mtx[m].mlocked \/ (mtx[m].spin /\ mtx[m].ilocked)
        /\ \A u \in Threads \ {t} : m \notin held[u]

\* Thread t has the interlock of m: on a path through its code, or because it
\* holds m as a spin lock.
Interlocks(t, m) ==
    \/ pc[t] \in IlkPcs /\ obj[t] = m
    \/ m \in held[t] /\ mtx[m].spin

\* Thread t holds m, is about to be told so, or is giving it back.
Claims(t, m) ==
    \/ m \in held[t]
    \/ pc[t] \in {"acquired", "acquiredSlow", "release"} /\ obj[t] = m

\* The interlock has one owner, and the copy of the word it is going to store
\* back is the word: the plain stores lose no update.
InterlockExclusive ==
    /\ \A m \in Mutexes : /\ mtx[m].ilocked <=> \E t \in Threads : Interlocks(t, m)
                          /\ \A t, u \in Threads : Interlocks(t, m) /\ Interlocks(u, m) => t = u
    /\ \A t \in Threads : pc[t] \in {"slowIlk", "release"} => ecx[t] = mtx[obj[t]]

\* Unlocks of m that have counted a waiter off and have still to wake it.
Waking(m) == {t \in Threads : pc[t] = "wake" /\ obj[t] = m /\ ecx[t].waiters # 0}

\* The waiter count is exact: every sleeper is counted, or an unlock under way
\* has counted it off and will wake it.
WaitersExact ==
    \A m \in Mutexes :
        Cardinality(Sleepers(m)) = mtx[m].waiters + Cardinality(Waking(m))

Contenders(m) ==
    {t \in Threads : obj[t] = m /\ pc[t] \in {"spin", "spun", "spinIlk", "slow", "slowIlk",
                                              "acquired", "acquiredSlow"}}

\* No wakeup is lost: while a thread sleeps on m, m is held (its unlock will
\* wake one), or an unlock is about to wake one, or an awake thread contends
\* for m and will unlock it.
NoLostWakeup ==
    \A m \in Mutexes :
        Sleepers(m) # {} =>
            \/ \E t \in Threads : m \in held[t] \/ (pc[t] = "release" /\ obj[t] = m)
            \/ Waking(m) # {}
            \/ Contenders(m) # {}

\* What the bits of the word say about the threads.
BitsOwned ==
    \A m \in Mutexes :
        /\ \A t, u \in Threads : Claims(t, m) /\ Claims(u, m) => t = u
        /\ mtx[m].mlocked =>
             /\ ~mtx[m].spin
             /\ \E t \in Threads : \/ m \in held[t]
                                   \/ pc[t] \in {"acquired", "acquiredSlow"} /\ obj[t] = m
        /\ mtx[m].spin =>
             \E t \in Threads : m \in held[t] \/ (pc[t] = "release" /\ obj[t] = m)

\* What the points in the code say about the word.
PointsAgree ==
    \A t \in Threads :
        /\ pc[t] \notin {"idle", "wake", "demote"} => obj[t] \notin held[t]
        /\ pc[t] \in {"acquired", "acquiredSlow"} => mtx[obj[t]].mlocked
        /\ pc[t] = "release" => ~mtx[obj[t]].mlocked

\* The inductive invariant behind mutual exclusion.
IInv ==
    /\ TypeOK
    /\ MutualExclusion
    /\ InterlockExclusive
    /\ BitsOwned
    /\ PointsAgree

\* The mutexes thread t is promoted for, the one it is releasing included.
PromotedFor(t) ==
    {m \in Mutexes : \/ owner[m] = t /\ mtx[m].promoted
                     \/ pc[t] \in {"wake", "demote"} /\ obj[t] = m /\ ecx[t].promoted}

\* The promotion count of a thread is the number of mutexes that promoted it,
\* whichever of the holder, a waiter or a wakeup did; without any of them
\* the thread runs at its own priority, so that a boost ends with the last mutex
\* it was lent for.
PromotionsExact ==
    \A t \in Threads :
        /\ promotions[t] = Cardinality(PromotedFor(t))
        /\ promoted[t] <=> promotions[t] # 0 \/ was_promoted[t]
        /\ ~promoted[t] => sched_pri[t] = BasePri[t]
        /\ pc[t] = "idle" /\ held[t] = {} => ~promoted[t]

\* With a single mutex, its holder runs at no less than the priority its
\* waiters lend.
HolderBoosted ==
    \A t \in Threads : \A m \in held[t] :
        mtx[m].mlocked /\ ~mtx[m].ilocked /\ mtx[m].waiters # 0 => sched_pri[t] >= mtx[m].pri

\* A mutex with a waiter is in the end unlocked by a thread that wakes one.
WaiterServed == \A m \in Mutexes : mtx[m].waiters # 0 ~> Waking(m) # {}
=============================================================================
