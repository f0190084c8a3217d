---------------------------- MODULE MutexProofs ----------------------------
(***************************************************************************)
(* Mutual exclusion and wakeups of lck_mtx_t for every set of threads,     *)
(* mutexes and priorities.  The invariant IInv says who owns each bit of the word; it  *)
(* is inductive.  The two halves of a release (the swap, then the plain    *)
(* store of a copy of the word) make the copy part of the invariant.       *)
(***************************************************************************)
EXTENDS Mutex, FiniteSetTheorems, TLAPS

\* IInv holds when every mutex is free.
LEMMA InitIInv == Init => IInv
<1> SUFFICES ASSUME Init PROVE IInv
  BY Zenon
<1>1. TypeOK
  BY Priorities, Zenon DEF Init, TypeOK, Word, FreeWord, Pcs
<1>2. MutualExclusion /\ InterlockExclusive /\ BitsOwned /\ PointsAgree
  BY Zenon DEF Init, MutualExclusion, InterlockExclusive, BitsOwned, PointsAgree,
         Interlocks, Claims, FreeWord, IlkPcs
<1> QED
  BY <1>1, <1>2, Zenon DEF IInv

-----------------------------------------------------------------------------
(* What the stores write: the fields that the invariant is about. *)

\* The swap of a free word to a locked mutex.
LEMMA LockedWord ==
    ASSUME NEW v \in Word
    PROVE  LET x == [v EXCEPT !.ilocked = TRUE, !.mlocked = TRUE]
           IN x \in Word /\ x.ilocked /\ x.mlocked /\ x.spin = v.spin
  BY ZenonT(60) DEF Word

\* The swap of a free word to a spin hold.
LEMMA SpinWord ==
    ASSUME NEW v \in Word
    PROVE  LET x == [v EXCEPT !.ilocked = TRUE, !.spin = TRUE]
           IN x \in Word /\ x.ilocked /\ x.mlocked = v.mlocked /\ x.spin
  BY ZenonT(60) DEF Word

\* The swap that takes the interlock.
LEMMA IlockedWord ==
    ASSUME NEW v \in Word
    PROVE  LET x == [v EXCEPT !.ilocked = TRUE]
           IN x \in Word /\ x.ilocked /\ x.mlocked = v.mlocked /\ x.spin = v.spin
  BY ZenonT(60) DEF Word

\* The store that gives the interlock back.
LEMMA UnilockedWord ==
    ASSUME NEW v \in Word
    PROVE  LET x == [v EXCEPT !.ilocked = FALSE]
           IN x \in Word /\ ~x.ilocked /\ x.mlocked = v.mlocked /\ x.spin = v.spin
  BY ZenonT(60) DEF Word

\* A spin hold converted to a mutex.
LEMMA ConvertedWord ==
    ASSUME NEW v \in Word
    PROVE  LET x == [v EXCEPT !.ilocked = FALSE, !.spin = FALSE, !.mlocked = TRUE]
           IN x \in Word /\ ~x.ilocked /\ x.mlocked /\ ~x.spin
  BY ZenonT(60) DEF Word

\* The store of a mutex taken behind the interlock.
LEMMA MlockedWord ==
    ASSUME NEW v \in Word
    PROVE  LET x == [v EXCEPT !.mlocked = TRUE]
           IN x \in Word /\ x.ilocked = v.ilocked /\ x.mlocked /\ x.spin = v.spin
  BY ZenonT(60) DEF Word

\* The swap of a mutex for its interlock, first half of a release.
LEMMA SwappedWord ==
    ASSUME NEW v \in Word
    PROVE  LET x == [v EXCEPT !.mlocked = FALSE, !.ilocked = TRUE]
           IN x \in Word /\ x.ilocked /\ ~x.mlocked /\ x.spin = v.spin
  BY ZenonT(60) DEF Word

\* The store of the second half of a release.
LEMMA StoredWord ==
    ASSUME NEW v \in Word
    PROVE  LET x == ReleasedWord(v)
           IN x \in Word /\ ~x.ilocked /\ x.mlocked = v.mlocked /\ ~x.spin
<1> DEFINE n == IF v.waiters = 0 THEN 0 ELSE v.waiters - 1
<1>1. n \in Nat
  BY DEF Word
<1>2. ReleasedWord(v) = [v EXCEPT !.ilocked = FALSE, !.spin = FALSE, !.promoted = FALSE,
                                  !.waiters = n]
  BY Zenon DEF Word, ReleasedWord
<1> HIDE DEF n
<1> QED
  BY <1>1, <1>2, ZenonT(60) DEF Word

\* The word with one more waiter.
LEMMA WaitingWord ==
    ASSUME NEW v \in Word, NEW t, WaitPri(t) \in Nat
    PROVE  LET x == WaitWord(t, v)
           IN /\ x \in Word
              /\ x.ilocked = v.ilocked /\ x.mlocked = v.mlocked /\ x.spin = v.spin
<1> DEFINE p == IF v.waiters = 0 \/ WaitPri(t) > v.pri THEN WaitPri(t) ELSE v.pri
<1>1. p \in Nat /\ v.waiters + 1 \in Nat
  BY DEF Word
<1>2. WaitWord(t, v) = [v EXCEPT !.pri = p, !.waiters = v.waiters + 1]
  BY Zenon DEF Word, WaitWord
<1> HIDE DEF p
<1> QED
  BY <1>1, <1>2, ZenonT(60) DEF Word

\* lck_mtx_lock_acquire_x86 writes the promoted bit and no other.
LEMMA PromotedWord ==
    ASSUME NEW v \in Word, NEW t
    PROVE  LET x == AcquiredWord(t, v)
           IN x \in Word /\ x.ilocked = v.ilocked /\ x.mlocked = v.mlocked /\ x.spin = v.spin
  BY ZenonT(60) DEF Word, AcquiredWord

\* The fields of the scheduler have their types.
PrioOK ==
    /\ sched_pri \in [Threads -> Nat]
    /\ promotions \in [Threads -> Nat]
    /\ promoted \in [Threads -> BOOLEAN]
    /\ was_promoted \in [Threads -> BOOLEAN]

\* The promotion made by lck_mtx_lock_acquire_x86 keeps them.
LEMMA AcquirePrio ==
    ASSUME PrioOK, NEW t \in Threads, NEW w \in Word,
           lck_mtx_lock_acquire_x86(t, w)
    PROVE  PrioOK'
<1>1. Lends(w) \in Nat /\ w.promoted \in BOOLEAN
  BY Zenon DEF Lends, Word
<1> HIDE DEF Lends
<1>2. CASE NeedsPromotion(t, w)
  <2>1. sched_pri' \in [Threads -> Nat] /\ promotions' \in [Threads -> Nat]
    BY <1>1, <1>2 DEF PrioOK, lck_mtx_lock_acquire_x86
  <2>2. promoted' \in [Threads -> BOOLEAN] /\ was_promoted' \in [Threads -> BOOLEAN]
    BY <1>1, <1>2, ZenonT(60) DEF PrioOK, lck_mtx_lock_acquire_x86
  <2> QED
    BY <2>1, <2>2, Zenon DEF PrioOK
<1>3. CASE ~NeedsPromotion(t, w)
  BY <1>3, Zenon DEF PrioOK, lck_mtx_lock_acquire_x86, prio
<1> QED
  BY <1>2, <1>3, Zenon

-----------------------------------------------------------------------------
(* The invariant, one mutex at a time. *)

\* At mutex m: who holds it is its owner, and no two threads claim it.
HoldersAt(m) ==
    /\ \A u \in Threads : m \in held[u] =>
          owner[m] = u /\ (mtx[m].mlocked \/ (mtx[m].spin /\ mtx[m].ilocked))
    /\ \A u, v \in Threads : Claims(u, m) /\ Claims(v, m) => u = v

\* Its interlock bit is set by one thread.
InterlockAt(m) ==
    /\ mtx[m].ilocked <=> \E u \in Threads : Interlocks(u, m)
    /\ \A u, v \in Threads : Interlocks(u, m) /\ Interlocks(v, m) => u = v

\* Its mutex and spin bits have been set by someone.
BitsAt(m) ==
    /\ mtx[m].mlocked =>
          /\ ~mtx[m].spin
          /\ \E u \in Threads : m \in held[u] \/ (pc[u] \in {"acquired", "acquiredSlow"} /\ obj[u] = m)
    /\ mtx[m].spin => \E u \in Threads : m \in held[u] \/ (pc[u] = "release" /\ obj[u] = m)

\* What the threads that work on it know of its word.
PointAt(u, m) ==
    obj[u] = m =>
        /\ pc[u] \in {"slowIlk", "release"} => ecx[u] = mtx[m]
        /\ pc[u] \notin {"idle", "wake", "demote"} => m \notin held[u]
        /\ pc[u] \in {"acquired", "acquiredSlow"} => mtx[m].mlocked
        /\ pc[u] = "release" => ~mtx[m].mlocked

PointsAt(m) == \A u \in Threads : PointAt(u, m)

\* The invariant at mutex m.
LocalInv(m) == HoldersAt(m) /\ InterlockAt(m) /\ BitsAt(m) /\ PointsAt(m)

\* IInv is the invariant at every mutex.
LEMMA LocalForm == IInv <=> TypeOK /\ \A m \in Mutexes : LocalInv(m)
<1>1. ASSUME IInv PROVE TypeOK /\ \A m \in Mutexes : LocalInv(m)
  BY <1>1 DEF IInv, TypeOK, MutualExclusion, InterlockExclusive, BitsOwned, PointsAgree, LocalInv, HoldersAt, InterlockAt, BitsAt, PointsAt, PointAt
<1>2. ASSUME TypeOK, \A m \in Mutexes : LocalInv(m) PROVE IInv
  <2>1. MutualExclusion
    BY <1>2 DEF TypeOK, MutualExclusion, LocalInv, HoldersAt, InterlockAt, BitsAt, PointsAt, PointAt, Claims
  <2>2. InterlockExclusive
    BY <1>2 DEF TypeOK, InterlockExclusive, LocalInv, HoldersAt, InterlockAt, BitsAt, PointsAt, PointAt
  <2>3. BitsOwned
    BY <1>2, Zenon DEF BitsOwned, LocalInv, HoldersAt, InterlockAt, BitsAt, PointsAt, PointAt
  <2>4. PointsAgree
    BY <1>2 DEF TypeOK, PointsAgree, LocalInv, HoldersAt, InterlockAt, BitsAt, PointsAt, PointAt
  <2> QED
    BY <1>2, <2>1, <2>2, <2>3, <2>4, Zenon DEF IInv
<1> QED
  BY <1>1, <1>2, Zenon

\* The same, in the next state.
LEMMA LocalFormNext ==
    ASSUME TypeOK', \A m \in Mutexes : LocalInv(m)'
    PROVE  IInv'
<1>1. MutualExclusion'
  BY DEF TypeOK, MutualExclusion, LocalInv, HoldersAt, InterlockAt, BitsAt, PointsAt, PointAt, Claims
<1>2. InterlockExclusive'
  BY DEF TypeOK, InterlockExclusive, LocalInv, HoldersAt, InterlockAt, BitsAt, PointsAt, PointAt
<1>3. BitsOwned'
  BY Zenon DEF BitsOwned, LocalInv, HoldersAt, InterlockAt, BitsAt, PointsAt, PointAt
<1>4. PointsAgree'
  BY DEF TypeOK, PointsAgree, LocalInv, HoldersAt, InterlockAt, BitsAt, PointsAt, PointAt
<1> QED
  BY <1>1, <1>2, <1>3, <1>4, Zenon DEF IInv

\* Behind the interlock of m a thread is alone with the word.
LEMMA Insider ==
    ASSUME NEW t \in Threads, NEW m \in Mutexes, LocalInv(m), Interlocks(t, m)
    PROVE  /\ mtx[m].ilocked
           /\ \A u \in Threads \ {t} : ~Interlocks(u, m)
           /\ ~mtx[m].mlocked => \A u \in Threads \ {t} : ~Claims(u, m)
           /\ m \notin held[t] /\ pc[t] # "release" => ~mtx[m].spin
<1>1. mtx[m].ilocked /\ \A u \in Threads \ {t} : ~Interlocks(u, m)
  BY Zenon DEF LocalInv, InterlockAt
<1>2. ASSUME ~mtx[m].mlocked, NEW u \in Threads \ {t} PROVE ~Claims(u, m)
  <2>1. m \notin held[u]
    BY <1>1, <1>2, Zenon DEF LocalInv, HoldersAt, Interlocks
  <2> QED
    BY <1>1, <1>2, <2>1, Zenon DEF Claims, Interlocks, IlkPcs
<1>3. ASSUME m \notin held[t], pc[t] # "release" PROVE ~mtx[m].spin
  BY <1>1, <1>3, Zenon DEF LocalInv, BitsAt, Interlocks, IlkPcs
<1> QED
  BY <1>1, <1>2, <1>3, Zenon

\* While nobody has the interlock nobody spins on it or is half way.
LEMMA Outside ==
    ASSUME NEW m \in Mutexes, LocalInv(m), ~mtx[m].ilocked
    PROVE  /\ ~mtx[m].spin
           /\ \A u \in Threads : ~Interlocks(u, m)
           /\ ~mtx[m].mlocked => \A u \in Threads : ~Claims(u, m)
<1>1. \A u \in Threads : ~Interlocks(u, m)
  BY Zenon DEF LocalInv, InterlockAt
<1>2. ~mtx[m].spin
  BY <1>1, Zenon DEF LocalInv, BitsAt, Interlocks, IlkPcs
<1>3. ASSUME ~mtx[m].mlocked, NEW u \in Threads PROVE ~Claims(u, m)
  <2>1. m \notin held[u]
    BY <1>2, <1>3, Zenon DEF LocalInv, HoldersAt
  <2> QED
    BY <1>1, <2>1, Zenon DEF Claims, Interlocks, IlkPcs
<1> QED
  BY <1>1, <1>2, <1>3, Zenon

\* Claims exclude each other.
LEMMA OneClaim ==
    ASSUME NEW t \in Threads, NEW m \in Mutexes, LocalInv(m), Claims(t, m)
    PROVE  \A u \in Threads \ {t} : ~Claims(u, m)
BY Zenon DEF LocalInv, HoldersAt

\* What t does to mutex m leaves the invariant at the other mutexes alone.
LEMMA Frame ==
    ASSUME NEW t \in Threads, NEW m \in Mutexes, NEW k \in Mutexes, k # m, LocalInv(k),
           mtx'[k] = mtx[k], owner'[k] = owner[k],
           \A u \in Threads : k \in held'[u] <=> k \in held[u],
           \A u \in Threads \ {t} : pc'[u] = pc[u] /\ obj'[u] = obj[u] /\ ecx'[u] = ecx[u],
           obj[t] = k => pc[t] \in {"idle", "wake", "demote"},
           obj'[t] = k => pc'[t] \in {"idle", "wake", "demote"}
    PROVE  LocalInv(k)'
<1>1. \A u \in Threads : /\ Claims(u, k)' <=> Claims(u, k)
                         /\ Interlocks(u, k)' <=> Interlocks(u, k)
  BY Zenon DEF Claims, Interlocks, IlkPcs
<1>2. \A u \in Threads : obj'[u] = k /\ pc'[u] \notin {"idle", "wake", "demote"} =>
         obj[u] = k /\ pc[u] = pc'[u] /\ ecx[u] = ecx'[u]
  BY Zenon
<1>3. \A u \in Threads : obj[u] = k /\ pc[u] \notin {"idle", "wake", "demote"} =>
         obj'[u] = k /\ pc[u] = pc'[u]
  BY Zenon
<1> QED
  BY <1>1, <1>2, <1>3 DEF LocalInv, HoldersAt, InterlockAt, BitsAt, PointsAt, PointAt

\* t turns the word of m into w: the state after the step, point by point.
Turns(t, m, w, p, o, e, x, h) ==
    /\ mtx' = [mtx EXCEPT ![m] = w]
    /\ owner' = [owner EXCEPT ![m] = x]
    /\ held' = [held EXCEPT ![t] = h]
    /\ pc' = [pc EXCEPT ![t] = p]
    /\ obj' = [obj EXCEPT ![t] = o]
    /\ ecx' = [ecx EXCEPT ![t] = e]

\* Read off from it.
LEMMA After ==
    ASSUME TypeOK, NEW t \in Threads, NEW m \in Mutexes, NEW w, NEW p, NEW o, NEW e, NEW x, NEW h,
           Turns(t, m, w, p, o, e, x, h)
    PROVE  /\ mtx'[m] = w /\ owner'[m] = x /\ held'[t] = h
           /\ pc'[t] = p /\ obj'[t] = o /\ ecx'[t] = e
           /\ \A u \in Threads \ {t} : /\ pc'[u] = pc[u] /\ obj'[u] = obj[u]
                                       /\ ecx'[u] = ecx[u] /\ held'[u] = held[u]
  BY Zenon DEF TypeOK, Turns

\* Such a step keeps the invariant when it keeps it at m.
LEMMA OneMutex ==
    ASSUME IInv, PrioOK', NEW t \in Threads, NEW m \in Mutexes,
           NEW w \in Word, NEW p \in Pcs, NEW o \in Mutexes, NEW e \in Word,
           NEW x \in Threads \cup {None}, NEW h \in SUBSET Mutexes,
           Turns(t, m, w, p, o, e, x, h), h \ {m} = held[t] \ {m},
           obj[t] = m \/ pc[t] = "idle", o = m \/ p = "idle", LocalInv(m)'
    PROVE  IInv'
<1>i. TypeOK
  BY Zenon DEF IInv
<1>t. TypeOK'
  <2>1. mtx' \in [Mutexes -> Word] /\ owner' \in [Mutexes -> Threads \cup {None}]
    BY <1>i, Zenon DEF TypeOK, Turns
  <2>2. pc' \in [Threads -> Pcs] /\ obj' \in [Threads -> Mutexes]
    BY <1>i, Zenon DEF TypeOK, Turns
  <2>3. ecx' \in [Threads -> Word] /\ held' \in [Threads -> SUBSET Mutexes]
    BY <1>i, Zenon DEF TypeOK, Turns
  <2> QED
    BY <2>1, <2>2, <2>3, Zenon DEF TypeOK, PrioOK
<1>1. ASSUME NEW k \in Mutexes, k # m PROVE LocalInv(k)'
  <2>1. LocalInv(k) /\ mtx'[k] = mtx[k] /\ owner'[k] = owner[k]
    BY <1>i, <1>1, LocalForm, Zenon DEF TypeOK, Turns
  <2>2. /\ pc'[t] = p /\ obj'[t] = o /\ held'[t] = h
        /\ \A u \in Threads \ {t} : /\ pc'[u] = pc[u] /\ obj'[u] = obj[u]
                                    /\ ecx'[u] = ecx[u] /\ held'[u] = held[u]
    BY <1>i, After
  <2>3. \A u \in Threads : k \in held'[u] <=> k \in held[u]
    BY <1>1, <2>2, Zenon
  <2> QED
    BY <1>1, <2>1, <2>2, <2>3, Frame
<1> QED
  BY <1>t, <1>1, LocalFormNext, Zenon

-----------------------------------------------------------------------------
(* Each kind of step keeps the invariant. *)

\* A free word is swapped for a locked mutex.
LEMMA GrabMutexKeeps ==
    ASSUME IInv, PrioOK', NEW t \in Threads, NEW m \in Mutexes,
           NEW to \in {"acquired", "acquiredSlow"}, GrabMutex(t, m, to), m \notin held[t],
           pc[t] = "idle" \/ (pc[t] \in {"spin", "spun"} /\ obj[t] = m)
    PROVE  IInv'
<1>i. TypeOK /\ InterlockExclusive /\ LocalInv(m)
  BY LocalForm, SMTT(60) DEF IInv
<1>1. PICK w \in Word : /\ mtx' = [mtx EXCEPT ![m] = w]
                        /\ w.ilocked /\ w.mlocked /\ w.spin = mtx[m].spin
  BY <1>i, LockedWord, ZenonT(60) DEF GrabMutex, Store, TypeOK
<1>2. /\ ~mtx[m].ilocked /\ ~mtx[m].mlocked
      /\ Turns(t, m, w, to, m, ecx[t], owner[m], held[t])
  BY <1>i, <1>1, Zenon DEF TypeOK, Turns, GrabMutex, Goto, Free
<1>3. /\ to \in Pcs /\ m \in Mutexes /\ ecx[t] \in Word
      /\ owner[m] \in Threads \cup {None} /\ held[t] \in SUBSET Mutexes
  BY <1>i, <1>1, SMTT(60) DEF TypeOK, Pcs, IlkPcs
<1>4. /\ ~mtx[m].spin
      /\ \A u \in Threads : ~Claims(u, m) /\ ~Interlocks(u, m)
  BY <1>i, <1>2, Outside, Zenon
<1>5. /\ mtx'[m] = w /\ owner'[m] = owner[m] /\ held'[t] = held[t]
      /\ pc'[t] = to /\ obj'[t] = m /\ ecx'[t] = ecx[t]
      /\ \A u \in Threads \ {t} : /\ pc'[u] = pc[u] /\ obj'[u] = obj[u]
                                  /\ ecx'[u] = ecx[u] /\ held'[u] = held[u]
  BY <1>i, <1>2, After, SMTT(60)
<1>6. LocalInv(m)'
  <2>1. Interlocks(t, m)'
    BY <1>i, <1>1, <1>2, <1>4, <1>5, SMTT(60) DEF Interlocks, IlkPcs
  <2>2. \A u \in Threads \ {t} : ~Interlocks(u, m)' /\ ~Claims(u, m)'
    BY <1>1, <1>4, <1>5, SMTT(60) DEF Interlocks, IlkPcs, Claims
  <2>3. HoldersAt(m)'
    BY <1>i, <1>1, <1>2, <1>4, <1>5, <2>2, SMTT(60) DEF HoldersAt, Claims
  <2>4. InterlockAt(m)'
    BY <1>1, <1>5, <2>1, <2>2, SMTT(60) DEF InterlockAt
  <2>5. BitsAt(m)'
    BY <1>i, <1>1, <1>2, <1>4, <1>5, SMTT(60) DEF LocalInv, BitsAt, Claims
  <2>6. PointsAt(m)'
    <3>1. ASSUME NEW u \in Threads \ {t} PROVE PointAt(u, m)'
      BY <1>i, <1>1, <1>2, <1>4, <1>5, SMTT(60) DEF LocalInv, PointsAt, PointAt, Claims, Interlocks, IlkPcs
    <3>2. PointAt(t, m)'
      BY <1>1, <1>2, <1>4, <1>5, SMTT(60) DEF PointAt
    <3> QED
      BY <3>1, <3>2, SMTT(60) DEF PointsAt
  <2> QED
    BY <2>3, <2>4, <2>5, <2>6, SMTT(60) DEF LocalInv
<1> QED
  BY <1>1, <1>2, <1>3, <1>6, OneMutex, ZenonT(60)

\* A free word is swapped for a spin hold.
LEMMA GrabSpinKeeps ==
    ASSUME IInv, PrioOK', NEW t \in Threads, NEW m \in Mutexes,
           GrabSpin(t, m), m \notin held[t], pc[t] = "idle"
    PROVE  IInv'
<1>i. TypeOK /\ InterlockExclusive /\ LocalInv(m)
  BY LocalForm, SMTT(60) DEF IInv
<1>1. PICK w \in Word : /\ mtx' = [mtx EXCEPT ![m] = w]
                        /\ w.ilocked /\ w.mlocked = mtx[m].mlocked /\ w.spin
  BY <1>i, SpinWord, ZenonT(60) DEF GrabSpin, Store, TypeOK
<1>2. /\ ~mtx[m].ilocked /\ ~mtx[m].mlocked
      /\ Turns(t, m, w, "idle", obj[t], ecx[t], t, held[t] \cup {m})
  BY <1>i, <1>1, Zenon DEF TypeOK, Turns, GrabSpin, Free
<1>3. /\ "idle" \in Pcs /\ obj[t] \in Mutexes /\ ecx[t] \in Word
      /\ t \in Threads \cup {None} /\ held[t] \cup {m} \in SUBSET Mutexes
  BY <1>i, <1>1, SMTT(60) DEF TypeOK, Pcs, IlkPcs
<1>4. /\ ~mtx[m].spin
      /\ \A u \in Threads : ~Claims(u, m) /\ ~Interlocks(u, m)
  BY <1>i, <1>2, Outside
<1>5. /\ mtx'[m] = w /\ owner'[m] = t /\ held'[t] = held[t] \cup {m}
      /\ pc'[t] = "idle" /\ obj'[t] = obj[t] /\ ecx'[t] = ecx[t]
      /\ \A u \in Threads \ {t} : /\ pc'[u] = pc[u] /\ obj'[u] = obj[u]
                                  /\ ecx'[u] = ecx[u] /\ held'[u] = held[u]
  BY <1>i, <1>2, After, SMTT(60)
<1>6. LocalInv(m)'
  <2>1. Interlocks(t, m)'
    BY <1>i, <1>1, <1>2, <1>4, <1>5, SMTT(60) DEF Interlocks, IlkPcs
  <2>2. \A u \in Threads \ {t} : ~Interlocks(u, m)' /\ ~Claims(u, m)'
    BY <1>1, <1>4, <1>5, SMTT(60) DEF Interlocks, IlkPcs, Claims
  <2>3. HoldersAt(m)'
    BY <1>i, <1>1, <1>2, <1>4, <1>5, <2>2, SMTT(60) DEF HoldersAt, Claims
  <2>4. InterlockAt(m)'
    BY <1>1, <1>5, <2>1, <2>2, SMTT(60) DEF InterlockAt
  <2>5. BitsAt(m)'
    BY <1>i, <1>1, <1>2, <1>4, <1>5, SMTT(60) DEF LocalInv, BitsAt, Claims
  <2>6. PointsAt(m)'
    <3>1. ASSUME NEW u \in Threads \ {t} PROVE PointAt(u, m)'
      BY <1>i, <1>1, <1>2, <1>4, <1>5, SMTT(60) DEF LocalInv, PointsAt, PointAt, Claims, Interlocks, IlkPcs
    <3>2. PointAt(t, m)'
      BY <1>1, <1>2, <1>4, <1>5, SMTT(60) DEF PointAt
    <3> QED
      BY <3>1, <3>2, SMTT(60) DEF PointsAt
  <2> QED
    BY <2>3, <2>4, <2>5, <2>6, SMTT(60) DEF LocalInv
<1> QED
  BY <1>1, <1>2, <1>3, <1>6, OneMutex, SMTT(60)

\* The interlock is taken, with or without a copy of the word.
LEMMA TakeInterlockKeeps ==
    ASSUME IInv, PrioOK', NEW t \in Threads, NEW m \in Mutexes,
           NEW from \in {"spin", "slow"}, NEW to \in {"spinIlk", "slowIlk"}, obj[t] = m,
           TakeInterlock(t, from, to),
           NEW e \in Word, ecx' = [ecx EXCEPT ![t] = e],
           to = "slowIlk" => e = [mtx[m] EXCEPT !.ilocked = TRUE]
    PROVE  IInv'
<1>i. TypeOK /\ InterlockExclusive /\ LocalInv(m)
  BY LocalForm, SMTT(60) DEF IInv
<1>1. PICK w \in Word : /\ mtx' = [mtx EXCEPT ![m] = w]
                        /\ w = [mtx[m] EXCEPT !.ilocked = TRUE]
                        /\ w.ilocked /\ w.mlocked = mtx[m].mlocked /\ w.spin = mtx[m].spin
  BY <1>i, IlockedWord, ZenonT(60) DEF TakeInterlock, Store, TypeOK
<1>2. /\ ~mtx[m].ilocked /\ pc[t] = from /\ (to = "slowIlk" => e = w)
      /\ Turns(t, m, w, to, m, e, owner[m], held[t])
  BY <1>i, <1>1, Zenon DEF TypeOK, Turns, TakeInterlock, Goto
<1>3. /\ to \in Pcs /\ m \in Mutexes /\ e \in Word
      /\ owner[m] \in Threads \cup {None} /\ held[t] \in SUBSET Mutexes
  BY <1>i, <1>1, SMTT(60) DEF TypeOK, Pcs, IlkPcs
<1>4. /\ ~mtx[m].spin /\ m \notin held[t]
      /\ \A u \in Threads : ~Interlocks(u, m)
  <2>1. m \notin held[t]
    BY <1>i, <1>2, SMTT(30) DEF LocalInv, PointsAt, PointAt
  <2> QED
    BY <1>i, <1>2, <2>1, Outside, Zenon
<1>5. /\ mtx'[m] = w /\ owner'[m] = owner[m] /\ held'[t] = held[t]
      /\ pc'[t] = to /\ obj'[t] = m /\ ecx'[t] = e
      /\ \A u \in Threads \ {t} : /\ pc'[u] = pc[u] /\ obj'[u] = obj[u]
                                  /\ ecx'[u] = ecx[u] /\ held'[u] = held[u]
  BY <1>i, <1>2, After, SMTT(60)
<1>6. LocalInv(m)'
  <2>1. Interlocks(t, m)'
    BY <1>i, <1>1, <1>2, <1>4, <1>5, SMTT(60) DEF Interlocks, IlkPcs
  <2>2. \A u \in Threads \ {t} : ~Interlocks(u, m)'
    BY <1>1, <1>4, <1>5, SMTT(60) DEF Interlocks, IlkPcs, Claims
  <2>3. HoldersAt(m)'
    BY <1>i, <1>1, <1>2, <1>4, <1>5 DEF LocalInv, HoldersAt, Claims
  <2>4. InterlockAt(m)'
    BY <1>1, <1>5, <2>1, <2>2, ZenonT(60) DEF InterlockAt
  <2>5. BitsAt(m)'
    BY <1>i, <1>1, <1>2, <1>4, <1>5, SMTT(60) DEF LocalInv, BitsAt, Claims
  <2>6. PointsAt(m)'
    <3>1. ASSUME NEW u \in Threads \ {t} PROVE PointAt(u, m)'
      BY <1>i, <1>1, <1>2, <1>4, <1>5, SMTT(60) DEF LocalInv, PointsAt, PointAt, Claims, Interlocks, IlkPcs
    <3>2. PointAt(t, m)'
      BY <1>1, <1>2, <1>4, <1>5, ZenonT(60) DEF PointAt
    <3> QED
      BY <3>1, <3>2, SMTT(60) DEF PointsAt
  <2> QED
    BY <2>3, <2>4, <2>5, <2>6, SMTT(60) DEF LocalInv
<1> QED
  BY <1>1, <1>2, <1>3, <1>6, OneMutex, SMTT(60)

\* The acquirer is recorded as the owner and gives the interlock back.
LEMMA FinishKeeps ==
    ASSUME IInv, PrioOK', NEW t \in Threads, NEW m \in Mutexes,
           obj[t] = m, lck_mtx_lock_finish(t)
    PROVE  IInv'
<1>i. TypeOK /\ InterlockExclusive /\ LocalInv(m)
  BY LocalForm, SMTT(60) DEF IInv
<1>1. PICK w \in Word : /\ mtx' = [mtx EXCEPT ![m] = w]
                        /\ ~w.ilocked /\ w.mlocked = mtx[m].mlocked /\ w.spin = mtx[m].spin
  <2> DEFINE promote == mtx[m].waiters # 0 \/ (pc[t] = "acquiredSlow" /\ was_promoted[t])
             v == IF promote THEN AcquiredWord(t, mtx[m]) ELSE mtx[m]
  <2>1. v \in Word /\ v.mlocked = mtx[m].mlocked /\ v.spin = mtx[m].spin
    BY <1>i, PromotedWord, Zenon DEF TypeOK
  <2>2. mtx' = [mtx EXCEPT ![m] = [v EXCEPT !.ilocked = FALSE]]
    BY Zenon DEF lck_mtx_lock_finish, Store
  <2> HIDE DEF v
  <2> DEFINE x == [v EXCEPT !.ilocked = FALSE]
  <2>3. x \in Word /\ ~x.ilocked /\ x.mlocked = v.mlocked /\ x.spin = v.spin
    BY <2>1, UnilockedWord, Zenon
  <2>4. mtx' = [mtx EXCEPT ![m] = x]
    BY <2>2, Zenon
  <2> HIDE DEF x
  <2> QED
    BY <2>1, <2>3, <2>4, ZenonT(60)
<1>2. /\ pc[t] \in {"acquired", "acquiredSlow"}
      /\ Turns(t, m, w, "idle", m, ecx[t], t, held[t] \cup {m})
  BY <1>i, <1>1, Zenon DEF TypeOK, Turns, lck_mtx_lock_finish, Goto
<1>3. /\ "idle" \in Pcs /\ m \in Mutexes /\ ecx[t] \in Word
      /\ t \in Threads \cup {None} /\ held[t] \cup {m} \in SUBSET Mutexes
  BY <1>i, <1>1, SMTT(60) DEF TypeOK, Pcs, IlkPcs
<1>4. /\ mtx[m].mlocked /\ ~mtx[m].spin
      /\ \A u \in Threads \ {t} : ~Claims(u, m) /\ ~Interlocks(u, m)
      /\ m \notin held[t]
  <2>1. Interlocks(t, m) /\ Claims(t, m)
    BY <1>i, <1>2, Zenon DEF Interlocks, IlkPcs, Claims
  <2>2. m \notin held[t] /\ mtx[m].mlocked
    BY <1>i, <1>2, Zenon DEF LocalInv, PointsAt, PointAt
  <2> QED
    BY <1>i, <1>2, <2>1, <2>2, Insider, OneClaim, Zenon
<1>5. /\ mtx'[m] = w /\ owner'[m] = t /\ held'[t] = held[t] \cup {m}
      /\ pc'[t] = "idle" /\ obj'[t] = m /\ ecx'[t] = ecx[t]
      /\ \A u \in Threads \ {t} : /\ pc'[u] = pc[u] /\ obj'[u] = obj[u]
                                  /\ ecx'[u] = ecx[u] /\ held'[u] = held[u]
  BY <1>i, <1>2, After, SMTT(60)
<1>6. LocalInv(m)'
  <2>1. ~Interlocks(t, m)'
    BY <1>i, <1>1, <1>2, <1>4, <1>5, SMTT(60) DEF Interlocks, IlkPcs
  <2>2. \A u \in Threads \ {t} : ~Interlocks(u, m)' /\ ~Claims(u, m)'
    BY <1>1, <1>4, <1>5, SMTT(60) DEF Interlocks, IlkPcs, Claims
  <2>3. HoldersAt(m)'
    BY <1>i, <1>1, <1>2, <1>4, <1>5, <2>2, ZenonT(60) DEF HoldersAt, Claims
  <2>4. InterlockAt(m)'
    BY <1>1, <1>5, <2>1, <2>2, SMTT(60) DEF InterlockAt
  <2>5. BitsAt(m)'
    BY <1>i, <1>1, <1>2, <1>4, <1>5, SMTT(60) DEF LocalInv, BitsAt, Claims
  <2>6. PointsAt(m)'
    <3>1. ASSUME NEW u \in Threads \ {t} PROVE PointAt(u, m)'
      BY <1>i, <1>1, <1>2, <1>4, <1>5, SMTT(60) DEF LocalInv, PointsAt, PointAt, Claims, Interlocks, IlkPcs
    <3>2. PointAt(t, m)'
      BY <1>1, <1>2, <1>4, <1>5, SMTT(60) DEF PointAt
    <3> QED
      BY <3>1, <3>2, SMTT(60) DEF PointsAt
  <2> QED
    BY <2>3, <2>4, <2>5, <2>6, SMTT(60) DEF LocalInv
<1> QED
  BY <1>1, <1>2, <1>3, <1>6, OneMutex, SMTT(60)

\* A spin hold becomes a mutex.
LEMMA ConvertKeeps ==
    ASSUME IInv, PrioOK', NEW t \in Threads, NEW m \in Mutexes,
           lck_mtx_convert_spin(t, m)
    PROVE  IInv'
<1>i. TypeOK /\ InterlockExclusive /\ LocalInv(m)
  BY LocalForm, SMTT(60) DEF IInv
<1>1. PICK w \in Word : /\ mtx' = [mtx EXCEPT ![m] = w]
                        /\ ~w.ilocked /\ w.mlocked /\ ~w.spin
  <2> DEFINE v == IF mtx[m].waiters # 0 THEN AcquiredWord(t, mtx[m]) ELSE mtx[m]
  <2>1. v \in Word
    BY <1>i, PromotedWord, Zenon DEF TypeOK
  <2>2. mtx' = [mtx EXCEPT ![m] = [v EXCEPT !.ilocked = FALSE, !.spin = FALSE, !.mlocked = TRUE]]
    BY Zenon DEF lck_mtx_convert_spin, Store
  <2> HIDE DEF v
  <2> QED
    BY <2>1, <2>2, ConvertedWord, ZenonT(60)
<1>2. /\ pc[t] = "idle" /\ m \in held[t] /\ ~mtx[m].mlocked
      /\ Turns(t, m, w, "idle", obj[t], ecx[t], owner[m], held[t])
  BY <1>i, <1>1, Zenon DEF TypeOK, Turns, lck_mtx_convert_spin
<1>3. /\ "idle" \in Pcs /\ obj[t] \in Mutexes /\ ecx[t] \in Word
      /\ owner[m] \in Threads \cup {None} /\ held[t] \in SUBSET Mutexes
  BY <1>i, <1>1, SMTT(60) DEF TypeOK, Pcs, IlkPcs
<1>4. /\ \A u \in Threads \ {t} : ~Claims(u, m) /\ ~Interlocks(u, m)
  <2>1. Interlocks(t, m)
    BY <1>i, <1>2, Zenon DEF LocalInv, HoldersAt, Interlocks
  <2> QED
    BY <1>i, <1>2, <2>1, Insider, Zenon
<1>5. /\ mtx'[m] = w /\ owner'[m] = owner[m] /\ held'[t] = held[t]
      /\ pc'[t] = "idle" /\ obj'[t] = obj[t] /\ ecx'[t] = ecx[t]
      /\ \A u \in Threads \ {t} : /\ pc'[u] = pc[u] /\ obj'[u] = obj[u]
                                  /\ ecx'[u] = ecx[u] /\ held'[u] = held[u]
  BY <1>i, <1>2, After, SMTT(60)
<1>6. LocalInv(m)'
  <2>1. ~Interlocks(t, m)'
    BY <1>i, <1>1, <1>2, <1>4, <1>5, SMTT(60) DEF Interlocks, IlkPcs
  <2>2. \A u \in Threads \ {t} : ~Interlocks(u, m)' /\ ~Claims(u, m)'
    BY <1>1, <1>4, <1>5, SMTT(60) DEF Interlocks, IlkPcs, Claims
  <2>3. HoldersAt(m)'
    BY <1>i, <1>1, <1>2, <1>4, <1>5, <2>2, SMTT(60) DEF LocalInv, HoldersAt, Claims
  <2>4. InterlockAt(m)'
    BY <1>1, <1>5, <2>1, <2>2, SMTT(60) DEF InterlockAt
  <2>5. BitsAt(m)'
    BY <1>i, <1>1, <1>2, <1>4, <1>5, SMTT(60) DEF LocalInv, BitsAt, Claims
  <2>6. PointsAt(m)'
    <3>1. ASSUME NEW u \in Threads \ {t} PROVE PointAt(u, m)'
      BY <1>i, <1>1, <1>2, <1>4, <1>5, SMTT(60) DEF LocalInv, PointsAt, PointAt, Claims, Interlocks, IlkPcs
    <3>2. PointAt(t, m)'
      BY <1>1, <1>2, <1>4, <1>5, SMTT(60) DEF PointAt
    <3> QED
      BY <3>1, <3>2, SMTT(60) DEF PointsAt
  <2> QED
    BY <2>3, <2>4, <2>5, <2>6, SMTT(60) DEF LocalInv
<1> QED
  BY <1>1, <1>2, <1>3, <1>6, OneMutex, ZenonT(60)

\* A thread that did not get the mutex gives the interlock back.
LEMMA GiveInterlockKeeps ==
    ASSUME IInv, PrioOK', NEW t \in Threads, NEW m \in Mutexes,
           NEW to \in {"spun", "slow", "asleep"}, NEW e \in Word,
           obj[t] = m, pc[t] \in {"spinIlk", "slowIlk"}, Goto(t, to), UNCHANGED <<owner, held, obj>>,
           ecx' = [ecx EXCEPT ![t] = e],
           NEW v \in Word, v.mlocked = mtx[m].mlocked, v.spin = mtx[m].spin,
           mtx' = [mtx EXCEPT ![m] = [v EXCEPT !.ilocked = FALSE]]
    PROVE  IInv'
<1>i. TypeOK /\ InterlockExclusive /\ LocalInv(m)
  BY LocalForm, SMTT(60) DEF IInv
<1>1. PICK w \in Word : /\ mtx' = [mtx EXCEPT ![m] = w]
                        /\ ~w.ilocked /\ w.mlocked = mtx[m].mlocked /\ w.spin = mtx[m].spin
  <2> DEFINE x == [v EXCEPT !.ilocked = FALSE]
  <2>1. x \in Word /\ ~x.ilocked /\ x.mlocked = v.mlocked /\ x.spin = v.spin
    BY UnilockedWord, Zenon
  <2>2. mtx' = [mtx EXCEPT ![m] = x]
    BY Zenon
  <2> HIDE DEF x
  <2> QED
    BY <2>1, <2>2, ZenonT(60)
<1>2. /\ pc[t] \in {"spinIlk", "slowIlk"}
      /\ Turns(t, m, w, to, m, e, owner[m], held[t])
  BY <1>i, <1>1, ZenonT(60) DEF TypeOK, Turns, Goto
<1>3. /\ to \in Pcs /\ m \in Mutexes /\ e \in Word
      /\ owner[m] \in Threads \cup {None} /\ held[t] \in SUBSET Mutexes
  BY <1>i, <1>1, SMTT(60) DEF TypeOK, Pcs, IlkPcs
<1>4. /\ m \notin held[t] /\ ~mtx[m].spin
      /\ \A u \in Threads \ {t} : ~Interlocks(u, m)
  <2>1. Interlocks(t, m)
    BY <1>i, <1>2, Zenon DEF Interlocks, IlkPcs
  <2>2. m \notin held[t]
    BY <1>i, <1>2, Zenon DEF LocalInv, PointsAt, PointAt
  <2> QED
    BY <1>i, <1>2, <2>1, <2>2, Insider, Zenon
<1>5. /\ mtx'[m] = w /\ owner'[m] = owner[m] /\ held'[t] = held[t]
      /\ pc'[t] = to /\ obj'[t] = m /\ ecx'[t] = e
      /\ \A u \in Threads \ {t} : /\ pc'[u] = pc[u] /\ obj'[u] = obj[u]
                                  /\ ecx'[u] = ecx[u] /\ held'[u] = held[u]
  BY <1>i, <1>2, After, SMTT(60)
<1>6. LocalInv(m)'
  <2>1. ~Interlocks(t, m)'
    BY <1>i, <1>1, <1>2, <1>4, <1>5, SMTT(60) DEF Interlocks, IlkPcs
  <2>2. \A u \in Threads \ {t} : ~Interlocks(u, m)'
    BY <1>1, <1>4, <1>5, SMTT(60) DEF Interlocks, IlkPcs, Claims
  <2>3. HoldersAt(m)'
    BY <1>i, <1>1, <1>2, <1>4, <1>5 DEF LocalInv, HoldersAt, Claims
  <2>4. InterlockAt(m)'
    BY <1>1, <1>5, <2>1, <2>2, SMTT(60) DEF InterlockAt
  <2>5. BitsAt(m)'
    BY <1>i, <1>1, <1>2, <1>4, <1>5, SMTT(60) DEF LocalInv, BitsAt, Claims
  <2>6. PointsAt(m)'
    <3>1. ASSUME NEW u \in Threads \ {t} PROVE PointAt(u, m)'
      BY <1>i, <1>1, <1>2, <1>4, <1>5, SMTT(60) DEF LocalInv, PointsAt, PointAt, Claims, Interlocks, IlkPcs
    <3>2. PointAt(t, m)'
      BY <1>1, <1>2, <1>4, <1>5, SMTT(60) DEF PointAt
    <3> QED
      BY <3>1, <3>2, SMTT(60) DEF PointsAt
  <2> QED
    BY <2>3, <2>4, <2>5, <2>6, SMTT(60) DEF LocalInv
<1> QED
  BY <1>1, <1>2, <1>3, <1>6, OneMutex, SMTT(60)

\* The mutex is found free behind the interlock.
LEMMA GrabDirectKeeps ==
    ASSUME IInv, PrioOK', NEW t \in Threads, NEW m \in Mutexes,
           obj[t] = m, lck_mtx_lock_grab_direct(t)
    PROVE  IInv'
<1>i. TypeOK /\ InterlockExclusive /\ LocalInv(m)
  BY LocalForm, SMTT(60) DEF IInv
<1>1. PICK w \in Word : /\ mtx' = [mtx EXCEPT ![m] = w]
                        /\ w.ilocked = mtx[m].ilocked /\ w.mlocked /\ w.spin = mtx[m].spin
  <2>1. mtx' = [mtx EXCEPT ![m] = [mtx[m] EXCEPT !.mlocked = TRUE]] /\ mtx[m] \in Word
    BY <1>i, ZenonT(60) DEF lck_mtx_lock_grab_direct, Store, InterlockExclusive, TypeOK
  <2> QED
    BY <2>1, MlockedWord, ZenonT(60)
<1>2. /\ pc[t] = "slowIlk" /\ ~mtx[m].mlocked
      /\ Turns(t, m, w, "acquiredSlow", m, FreeWord, owner[m], held[t])
  BY <1>i, <1>1, Zenon DEF TypeOK, Turns, lck_mtx_lock_grab_direct, Goto, Forget, InterlockExclusive
<1>3. /\ "acquiredSlow" \in Pcs /\ m \in Mutexes /\ FreeWord \in Word
      /\ owner[m] \in Threads \cup {None} /\ held[t] \in SUBSET Mutexes
  BY <1>i, <1>1, SMTT(60) DEF TypeOK, Pcs, IlkPcs, FreeWord, Word
<1>4. /\ m \notin held[t] /\ ~mtx[m].spin /\ mtx[m].ilocked
      /\ \A u \in Threads \ {t} : ~Claims(u, m) /\ ~Interlocks(u, m)
  <2>1. Interlocks(t, m)
    BY <1>i, <1>2, Zenon DEF Interlocks, IlkPcs
  <2>2. m \notin held[t]
    BY <1>i, <1>2 DEF LocalInv, PointsAt, PointAt
  <2> QED
    BY <1>i, <1>2, <2>1, <2>2, Insider, Zenon
<1>5. /\ mtx'[m] = w /\ owner'[m] = owner[m] /\ held'[t] = held[t]
      /\ pc'[t] = "acquiredSlow" /\ obj'[t] = m /\ ecx'[t] = FreeWord
      /\ \A u \in Threads \ {t} : /\ pc'[u] = pc[u] /\ obj'[u] = obj[u]
                                  /\ ecx'[u] = ecx[u] /\ held'[u] = held[u]
  BY <1>i, <1>2, After, SMTT(60)
<1>6. LocalInv(m)'
  <2>1. Interlocks(t, m)'
    BY <1>i, <1>1, <1>2, <1>4, <1>5, SMTT(60) DEF Interlocks, IlkPcs
  <2>2. \A u \in Threads \ {t} : ~Interlocks(u, m)' /\ ~Claims(u, m)'
    BY <1>1, <1>4, <1>5, SMTT(60) DEF Interlocks, IlkPcs, Claims
  <2>3. HoldersAt(m)'
    BY <1>i, <1>1, <1>2, <1>4, <1>5, <2>2, SMTT(60) DEF HoldersAt, Claims
  <2>4. InterlockAt(m)'
    BY <1>1, <1>5, <2>1, <2>2, <1>i, <1>4, ZenonT(60) DEF InterlockAt
  <2>5. BitsAt(m)'
    BY <1>i, <1>1, <1>2, <1>4, <1>5, SMTT(60) DEF LocalInv, BitsAt, Claims
  <2>6. PointsAt(m)'
    <3>1. ASSUME NEW u \in Threads \ {t} PROVE PointAt(u, m)'
      BY <1>i, <1>1, <1>2, <1>4, <1>5, SMTT(60) DEF LocalInv, PointsAt, PointAt, Claims, Interlocks, IlkPcs
    <3>2. PointAt(t, m)'
      BY <1>1, <1>2, <1>4, <1>5, SMTT(60) DEF PointAt
    <3> QED
      BY <3>1, <3>2, SMTT(60) DEF PointsAt
  <2> QED
    BY <2>3, <2>4, <2>5, <2>6, SMTT(60) DEF LocalInv
<1> QED
  BY <1>1, <1>2, <1>3, <1>6, OneMutex, SMTT(60)

\* The mutex is swapped for its interlock.
LEMMA UnlockKeeps ==
    ASSUME IInv, PrioOK', NEW t \in Threads, NEW m \in Mutexes,
           lck_mtx_unlock(t, m)
    PROVE  IInv'
<1>i. TypeOK /\ InterlockExclusive /\ LocalInv(m)
  BY LocalForm, SMTT(60) DEF IInv
<1>1. PICK w \in Word : /\ mtx' = [mtx EXCEPT ![m] = w]
                        /\ w = [mtx[m] EXCEPT !.mlocked = FALSE, !.ilocked = TRUE]
                        /\ w.ilocked /\ ~w.mlocked /\ w.spin = mtx[m].spin
  <2>1. mtx' = [mtx EXCEPT ![m] = [mtx[m] EXCEPT !.mlocked = FALSE, !.ilocked = TRUE]]
        /\ mtx[m] \in Word
    BY <1>i, Zenon DEF lck_mtx_unlock, Store, TypeOK
  <2> QED
    BY <2>1, SwappedWord, ZenonT(60)
<1>2. /\ pc[t] = "idle" /\ m \in held[t] /\ mtx[m].mlocked /\ ~mtx[m].ilocked
      /\ Turns(t, m, w, "release", m, w, owner[m], held[t] \ {m})
  BY <1>i, <1>1, Zenon DEF TypeOK, Turns, lck_mtx_unlock, Goto, Keep
<1>3. /\ "release" \in Pcs /\ m \in Mutexes /\ w \in Word
      /\ owner[m] \in Threads \cup {None} /\ held[t] \ {m} \in SUBSET Mutexes
  BY <1>i, <1>1, SMTT(60) DEF TypeOK, Pcs, IlkPcs
<1>4. /\ ~mtx[m].spin
      /\ \A u \in Threads \ {t} : ~Claims(u, m) /\ ~Interlocks(u, m)
  <2>1. Claims(t, m)
    BY <1>2, Zenon DEF Claims
  <2> QED
    BY <1>i, <1>2, <2>1, Outside, OneClaim, Zenon
<1>5. /\ mtx'[m] = w /\ owner'[m] = owner[m] /\ held'[t] = held[t] \ {m}
      /\ pc'[t] = "release" /\ obj'[t] = m /\ ecx'[t] = w
      /\ \A u \in Threads \ {t} : /\ pc'[u] = pc[u] /\ obj'[u] = obj[u]
                                  /\ ecx'[u] = ecx[u] /\ held'[u] = held[u]
  BY <1>i, <1>2, After, SMTT(60)
<1>6. LocalInv(m)'
  <2>1. Interlocks(t, m)'
    BY <1>i, <1>1, <1>2, <1>4, <1>5, SMTT(60) DEF Interlocks, IlkPcs
  <2>2. \A u \in Threads \ {t} : ~Interlocks(u, m)' /\ ~Claims(u, m)'
    BY <1>1, <1>4, <1>5, SMTT(60) DEF Interlocks, IlkPcs, Claims
  <2>3. HoldersAt(m)'
    BY <1>i, <1>1, <1>2, <1>4, <1>5, <2>2, SMTT(60) DEF HoldersAt, Claims
  <2>4. InterlockAt(m)'
    BY <1>1, <1>5, <2>1, <2>2, ZenonT(60) DEF InterlockAt
  <2>5. BitsAt(m)'
    BY <1>i, <1>1, <1>2, <1>4, <1>5, ZenonT(60) DEF LocalInv, BitsAt, Claims
  <2>6. PointsAt(m)'
    <3>1. ASSUME NEW u \in Threads \ {t} PROVE PointAt(u, m)'
      BY <1>i, <1>1, <1>2, <1>4, <1>5, SMTT(60) DEF LocalInv, PointsAt, PointAt, Claims, Interlocks, IlkPcs
    <3>2. PointAt(t, m)'
      BY <1>1, <1>2, <1>4, <1>5, ZenonT(60) DEF PointAt
    <3> QED
      BY <3>1, <3>2, SMTT(60) DEF PointsAt
  <2> QED
    BY <2>3, <2>4, <2>5, <2>6, SMTT(60) DEF LocalInv
<1> QED
  BY <1>1, <1>2, <1>3, <1>6, OneMutex, SMTT(60)

\* A spin hold is given up.
LEMMA UnlockSpinKeeps ==
    ASSUME IInv, PrioOK', NEW t \in Threads, NEW m \in Mutexes,
           lck_mtx_unlock_spin(t, m)
    PROVE  IInv'
<1>i. TypeOK /\ InterlockExclusive /\ LocalInv(m)
  BY LocalForm, SMTT(60) DEF IInv
<1>1. PICK w \in Word : /\ mtx' = [mtx EXCEPT ![m] = w]
                        /\ w = mtx[m]
  BY <1>i, Zenon DEF lck_mtx_unlock_spin, TypeOK
<1>2. /\ pc[t] = "idle" /\ m \in held[t] /\ ~mtx[m].mlocked
      /\ Turns(t, m, w, "release", m, w, owner[m], held[t] \ {m})
  BY <1>i, <1>1, ZenonT(60) DEF TypeOK, Turns, lck_mtx_unlock_spin, Goto, Keep
<1>3. /\ "release" \in Pcs /\ m \in Mutexes /\ w \in Word
      /\ owner[m] \in Threads \cup {None} /\ held[t] \ {m} \in SUBSET Mutexes
  BY <1>i, <1>1, SMTT(60) DEF TypeOK, Pcs, IlkPcs
<1>4. /\ mtx[m].ilocked
      /\ \A u \in Threads \ {t} : ~Claims(u, m) /\ ~Interlocks(u, m)
  <2>1. Interlocks(t, m)
    BY <1>i, <1>2, Zenon DEF LocalInv, HoldersAt, Interlocks
  <2> QED
    BY <1>i, <1>2, <2>1, Insider, Zenon
<1>5. /\ mtx'[m] = w /\ owner'[m] = owner[m] /\ held'[t] = held[t] \ {m}
      /\ pc'[t] = "release" /\ obj'[t] = m /\ ecx'[t] = w
      /\ \A u \in Threads \ {t} : /\ pc'[u] = pc[u] /\ obj'[u] = obj[u]
                                  /\ ecx'[u] = ecx[u] /\ held'[u] = held[u]
  BY <1>i, <1>2, After, SMTT(60)
<1>6. LocalInv(m)'
  <2>1. Interlocks(t, m)'
    BY <1>i, <1>1, <1>2, <1>4, <1>5, SMTT(60) DEF Interlocks, IlkPcs
  <2>2. \A u \in Threads \ {t} : ~Interlocks(u, m)' /\ ~Claims(u, m)'
    BY <1>1, <1>4, <1>5, SMTT(60) DEF Interlocks, IlkPcs, Claims
  <2>3. HoldersAt(m)'
    BY <1>i, <1>1, <1>2, <1>4, <1>5, <2>2, SMTT(60) DEF HoldersAt, Claims
  <2>4. InterlockAt(m)'
    BY <1>1, <1>5, <2>1, <2>2, <1>i, <1>4, SMTT(60) DEF InterlockAt
  <2>5. BitsAt(m)'
    BY <1>i, <1>1, <1>2, <1>4, <1>5, SMTT(60) DEF LocalInv, BitsAt, Claims
  <2>6. PointsAt(m)'
    <3>1. ASSUME NEW u \in Threads \ {t} PROVE PointAt(u, m)'
      BY <1>i, <1>1, <1>2, <1>4, <1>5, SMTT(60) DEF LocalInv, PointsAt, PointAt, Claims, Interlocks, IlkPcs
    <3>2. PointAt(t, m)'
      BY <1>1, <1>2, <1>4, <1>5, SMTT(60) DEF PointAt
    <3> QED
      BY <3>1, <3>2, SMTT(60) DEF PointsAt
  <2> QED
    BY <2>3, <2>4, <2>5, <2>6, SMTT(60) DEF LocalInv
<1> QED
  BY <1>1, <1>2, <1>3, <1>6, OneMutex, ZenonT(60)

\* The second half of a release.
LEMMA UnlockStoreKeeps ==
    ASSUME IInv, PrioOK', NEW t \in Threads, NEW m \in Mutexes,
           NEW p \in {"wake", "idle"}, NEW e \in Word, obj[t] = m, pc[t] = "release",
           Store(m, ReleasedWord(ecx[t])), owner' = [owner EXCEPT ![m] = None],
           Goto(t, p), ecx' = [ecx EXCEPT ![t] = e], UNCHANGED <<held, obj>>
    PROVE  IInv'
<1>i. TypeOK /\ InterlockExclusive /\ LocalInv(m)
  BY LocalForm, SMTT(60) DEF IInv
<1>1. PICK w \in Word : /\ mtx' = [mtx EXCEPT ![m] = w]
                        /\ ~w.ilocked /\ w.mlocked = mtx[m].mlocked /\ ~w.spin
  <2>1. mtx' = [mtx EXCEPT ![m] = ReleasedWord(mtx[m])] /\ mtx[m] \in Word
    BY <1>i, ZenonT(60) DEF Store, InterlockExclusive, TypeOK
  <2> QED
    BY <2>1, StoredWord, ZenonT(60)
<1>2. /\ pc[t] = "release"
      /\ Turns(t, m, w, p, m, e, None, held[t])
  BY <1>i, <1>1, Zenon DEF TypeOK, Turns, Goto
<1>3. /\ p \in Pcs /\ m \in Mutexes /\ e \in Word
      /\ None \in Threads \cup {None} /\ held[t] \in SUBSET Mutexes
  BY <1>i, <1>1, SMTT(60) DEF TypeOK, Pcs, IlkPcs
<1>4. /\ ~mtx[m].mlocked /\ m \notin held[t]
      /\ \A u \in Threads \ {t} : ~Claims(u, m) /\ ~Interlocks(u, m)
  <2>1. Interlocks(t, m)
    BY <1>i, <1>2, Zenon DEF Interlocks, IlkPcs
  <2>2. m \notin held[t] /\ ~mtx[m].mlocked
    BY <1>i, <1>2, Zenon DEF LocalInv, PointsAt, PointAt
  <2> QED
    BY <1>i, <1>2, <2>1, <2>2, Insider, Zenon
<1>5. /\ mtx'[m] = w /\ owner'[m] = None /\ held'[t] = held[t]
      /\ pc'[t] = p /\ obj'[t] = m /\ ecx'[t] = e
      /\ \A u \in Threads \ {t} : /\ pc'[u] = pc[u] /\ obj'[u] = obj[u]
                                  /\ ecx'[u] = ecx[u] /\ held'[u] = held[u]
  BY <1>i, <1>2, After, SMTT(60)
<1>6. LocalInv(m)'
  <2>1. ~Interlocks(t, m)'
    BY <1>i, <1>1, <1>2, <1>4, <1>5, SMTT(60) DEF Interlocks, IlkPcs
  <2>2. \A u \in Threads \ {t} : ~Interlocks(u, m)' /\ ~Claims(u, m)'
    BY <1>1, <1>4, <1>5, SMTT(60) DEF Interlocks, IlkPcs, Claims
  <2>3. HoldersAt(m)'
    BY <1>i, <1>1, <1>2, <1>4, <1>5, <2>2, SMTT(60) DEF HoldersAt, Claims
  <2>4. InterlockAt(m)'
    BY <1>1, <1>5, <2>1, <2>2, SMTT(60) DEF InterlockAt
  <2>5. BitsAt(m)'
    <3>1. ~mtx'[m].mlocked /\ ~mtx'[m].spin
      BY <1>1, <1>4, <1>5, ZenonT(60)
    <3> QED
      BY <3>1, ZenonT(60) DEF BitsAt
  <2>6. PointsAt(m)'
    <3>1. ASSUME NEW u \in Threads \ {t} PROVE PointAt(u, m)'
      BY <1>i, <1>1, <1>2, <1>4, <1>5, SMTT(60) DEF LocalInv, PointsAt, PointAt, Claims, Interlocks, IlkPcs
    <3>2. PointAt(t, m)'
      BY <1>1, <1>2, <1>4, <1>5, SMTT(60) DEF PointAt
    <3> QED
      BY <3>1, <3>2, SMTT(60) DEF PointsAt
  <2> QED
    BY <2>3, <2>4, <2>5, <2>6, SMTT(60) DEF LocalInv
<1> QED
  BY <1>1, <1>2, <1>3, <1>6, OneMutex, SMTT(60)

\* A step that leaves the words, the owners and the holds alone.
LEMMA QuietKeeps ==
    ASSUME IInv, PrioOK', pc' \in [Threads -> Pcs], obj' \in [Threads -> Mutexes],
           ecx' \in [Threads -> Word], UNCHANGED <<mtx, owner, held>>,
           \A u \in Threads :
              \/ pc'[u] = pc[u] /\ obj'[u] = obj[u]
              \/ /\ pc[u] \notin IlkPcs /\ pc'[u] \notin IlkPcs
                 /\ pc'[u] \notin {"idle", "wake", "demote"} => obj'[u] \notin held[u],
           \A u \in Threads : pc[u] \in IlkPcs => ecx'[u] = ecx[u]
    PROVE  IInv'
<1>i. TypeOK /\ MutualExclusion /\ InterlockExclusive /\ BitsOwned /\ PointsAgree
  BY Zenon DEF IInv
<1>t. TypeOK'
  BY <1>i, Zenon DEF TypeOK, PrioOK
<1>1. MutualExclusion'
  BY <1>i, Zenon DEF MutualExclusion
<1>2. \A u \in Threads, k \in Mutexes :
         /\ Interlocks(u, k)' <=> Interlocks(u, k)
         /\ Claims(u, k)' <=> Claims(u, k)
  BY <1>i DEF TypeOK, Interlocks, Claims, IlkPcs
<1>3. \A u \in Threads : pc'[u] \in {"slowIlk", "release"} => ecx'[u] = mtx'[obj'[u]]
  BY <1>i, SMTT(60) DEF TypeOK, InterlockExclusive, IlkPcs
<1>4. InterlockExclusive'
  BY <1>i, <1>2, <1>3, SMTT(60) DEF InterlockExclusive
<1>5. BitsOwned'
  BY <1>i, <1>2 DEF TypeOK, BitsOwned, IlkPcs
<1>6. PointsAgree'
  BY <1>i, Zenon DEF TypeOK, PointsAgree, IlkPcs
<1> QED
  BY <1>t, <1>1, <1>4, <1>5, <1>6, SMTT(60) DEF IInv

\* A thread counts itself as a waiter, lends its priority and goes to sleep.
LEMMA WaitKeeps ==
    ASSUME IInv, NEW t \in Threads, lck_mtx_lock_wait_x86(t)
    PROVE  IInv'
<1> DEFINE m == obj[t]
           holder == owner[m]
           w == WaitWord(t, mtx[m])
           promote == holder # None /\ sched_pri[holder] < w.pri
<1>i. TypeOK /\ PrioOK
  BY Zenon DEF IInv, TypeOK, PrioOK
<1>1. m \in Mutexes /\ mtx[m] \in Word /\ holder \in Threads \cup {None}
  BY <1>i, Zenon DEF TypeOK
<1>2. WaitPri(t) \in Nat
  BY <1>i, Priorities, Zenon DEF TypeOK, WaitPri
<1>3. /\ w \in Word
      /\ w.ilocked = mtx[m].ilocked /\ w.mlocked = mtx[m].mlocked /\ w.spin = mtx[m].spin
  BY <1>1, <1>2, WaitingWord, Zenon
<1>4. PrioOK'
  <2> HIDE DEF w
  <2>1. CASE promote
    <3>1. holder \in Threads /\ w.promoted \in BOOLEAN
      BY <1>1, <1>3, <2>1, SMTT(60) DEF Word
    <3> HIDE DEF holder
    <3>2. /\ sched_pri' = [sched_pri EXCEPT ![holder] = WaitPri(t)]
          /\ promotions' = [promotions EXCEPT ![holder] = IF w.promoted THEN @ ELSE @ + 1]
          /\ promoted' = [promoted EXCEPT ![holder] = @ \/ ~w.promoted]
          /\ UNCHANGED was_promoted
      BY <2>1, Zenon DEF lck_mtx_lock_wait_x86, holder, w
    <3>3. sched_pri' \in [Threads -> Nat] /\ promotions' \in [Threads -> Nat]
      BY <1>i, <1>2, <3>1, <3>2 DEF PrioOK
    <3>4. promoted' \in [Threads -> BOOLEAN] /\ was_promoted' \in [Threads -> BOOLEAN]
      BY <1>i, <3>1, <3>2, Zenon DEF PrioOK
    <3> QED
      BY <3>3, <3>4, Zenon DEF PrioOK
  <2>2. CASE ~promote
    BY <1>i, <2>2, Zenon DEF lck_mtx_lock_wait_x86, PrioOK, prio, w
  <2> QED
    BY <2>1, <2>2, Zenon
<1>5. \E v \in Word : /\ v.mlocked = mtx[m].mlocked /\ v.spin = mtx[m].spin
                      /\ mtx' = [mtx EXCEPT ![m] = [v EXCEPT !.ilocked = FALSE]]
  <2> HIDE DEF w
  <2> DEFINE v == [w EXCEPT !.promoted = @ \/ promote]
  <2>1. v \in Word /\ v.mlocked = w.mlocked /\ v.spin = w.spin
    BY <1>3, ZenonT(60) DEF Word
  <2>2. [v EXCEPT !.ilocked = FALSE] = [w EXCEPT !.promoted = @ \/ promote, !.ilocked = FALSE]
    BY <1>3, Zenon DEF Word
  <2>3. mtx' = [mtx EXCEPT ![m] = [v EXCEPT !.ilocked = FALSE]]
    BY <2>2, Zenon DEF lck_mtx_lock_wait_x86, Store, w
  <2> HIDE DEF v
  <2> QED
    BY <1>3, <2>1, <2>3, ZenonT(60)
<1>6. PICK v \in Word : /\ v.mlocked = mtx[m].mlocked /\ v.spin = mtx[m].spin
                        /\ mtx' = [mtx EXCEPT ![m] = [v EXCEPT !.ilocked = FALSE]]
  BY <1>5, ZenonT(60)
<1>7. /\ pc[t] \in {"spinIlk", "slowIlk"} /\ Goto(t, "asleep")
      /\ UNCHANGED <<owner, held, obj>>
      /\ ecx' = [ecx EXCEPT ![t] = FreeWord] /\ FreeWord \in Word
  BY Zenon DEF lck_mtx_lock_wait_x86, Forget, FreeWord, Word
<1> QED
  BY <1>1, <1>4, <1>6, <1>7, GiveInterlockKeeps, ZenonT(60)

\* The wakeup moves one sleeper and the unlocker, neither behind an interlock.
LEMMA WakeupKeeps ==
    ASSUME IInv, NEW t \in Threads, lck_mtx_unlock_wakeup_x86(t)
    PROVE  IInv'
<1>i. TypeOK /\ PrioOK /\ PointsAgree
  BY Zenon DEF IInv, TypeOK, PrioOK
<1>1. /\ pc[t] = "wake" /\ UNCHANGED <<mtx, owner, held, obj, ecx>>
      /\ \/ pc' = [pc EXCEPT ![t] = "demote"]
         \/ \E u \in Threads : pc[u] = "asleep" /\ pc' = [pc EXCEPT ![t] = "demote", ![u] = "spin"]
  BY Zenon DEF lck_mtx_unlock_wakeup_x86, Goto, Sleepers
<1>2. PrioOK'
  <2>1. UNCHANGED prio \/ \E u \in Threads : WokenWith(u, ecx[t].pri)
    BY Zenon DEF lck_mtx_unlock_wakeup_x86, Sleepers
  <2>2. CASE UNCHANGED prio
    BY <1>i, <2>2, Zenon DEF PrioOK, prio
  <2>3. ASSUME NEW u \in Threads, WokenWith(u, ecx[t].pri) PROVE PrioOK'
    <3>1. ecx[t].pri \in Nat
      BY <1>i, Zenon DEF TypeOK, Word
    <3>2. CASE sched_pri[u] < ecx[t].pri
      BY <1>i, <2>3, <3>1, <3>2, ZenonT(60) DEF PrioOK, WokenWith
    <3>3. CASE ~(sched_pri[u] < ecx[t].pri)
      BY <1>i, <2>3, <3>3, Zenon DEF PrioOK, prio, WokenWith
    <3> QED
      BY <3>2, <3>3, Zenon
  <2> QED
    BY <2>1, <2>2, <2>3, SMTT(60)
<1>3. pc' \in [Threads -> Pcs]
  BY <1>i, <1>1 DEF TypeOK, Pcs
<1>4. \A u \in Threads :
         \/ pc'[u] = pc[u] /\ obj'[u] = obj[u]
         \/ /\ pc[u] \notin IlkPcs /\ pc'[u] \notin IlkPcs
            /\ pc'[u] \notin {"idle", "wake", "demote"} => obj'[u] \notin held[u]
  BY <1>i, <1>1 DEF TypeOK, PointsAgree, IlkPcs
<1> QED
  BY <1>i, <1>1, <1>2, <1>3, <1>4, QuietKeeps, Zenon DEF TypeOK

\* Taking a promotion back touches no word.
LEMMA DemoteKeeps ==
    ASSUME IInv, NEW t \in Threads, lck_mtx_unlock_demote(t)
    PROVE  IInv'
<1>i. TypeOK /\ PrioOK
  BY Zenon DEF IInv, TypeOK, PrioOK
<1>1. /\ pc[t] = "demote" /\ UNCHANGED <<mtx, owner, held, obj>>
      /\ pc' = [pc EXCEPT ![t] = "idle"]
      /\ ecx' = [ecx EXCEPT ![t] = FreeWord]
  BY Zenon DEF lck_mtx_unlock_demote, Goto, Forget
<1>2. PrioOK'
  <2>1. promotions' \in [Threads -> Nat]
    BY <1>i, SMTT(60) DEF lck_mtx_unlock_demote, PrioOK
  <2>2. sched_pri' \in [Threads -> Nat]
    BY <1>i, Priorities, SMTT(60) DEF lck_mtx_unlock_demote, PrioOK
  <2>3. promoted' \in [Threads -> BOOLEAN] /\ was_promoted' \in [Threads -> BOOLEAN]
    BY <1>i, SMTT(60) DEF lck_mtx_unlock_demote, PrioOK
  <2> QED
    BY <2>1, <2>2, <2>3, SMTT(60) DEF PrioOK
<1>3. pc' \in [Threads -> Pcs] /\ ecx' \in [Threads -> Word]
  BY <1>i, <1>1, Zenon DEF TypeOK, Pcs, FreeWord, Word
<1> QED
  BY <1>i, <1>1, <1>2, <1>3, QuietKeeps, SMTT(60) DEF TypeOK, IlkPcs

\* Every step keeps the invariant.
LEMMA StepIInv ==
    ASSUME IInv, [Next]_vars
    PROVE  IInv'
<1>i. TypeOK /\ PrioOK /\ MutualExclusion /\ InterlockExclusive /\ BitsOwned /\ PointsAgree
  BY Zenon DEF IInv, TypeOK, PrioOK
<1>p. UNCHANGED prio => PrioOK'
  BY <1>i, SMTT(60) DEF PrioOK, prio
<1>1. CASE UNCHANGED vars
  BY <1>1, SMTT(60) DEF IInv, TypeOK, MutualExclusion, InterlockExclusive, BitsOwned, PointsAgree,
              Interlocks, Claims, vars, prio
<1>2. ASSUME NEW t \in Threads, Continue(t)
      PROVE  IInv'
  <2> DEFINE m == obj[t]
  <2>m. m \in Mutexes
    BY <1>i, Zenon DEF TypeOK
  <2>1. CASE lck_mtx_lock_finish(t)
    <3>1. PrioOK'
      BY <1>i, <1>p, <2>1, AcquirePrio, Zenon DEF lck_mtx_lock_finish, TypeOK
    <3> QED
      BY <2>1, <2>m, <3>1, FinishKeeps, Zenon
  <2>2. CASE lck_mtx_lock_grab_mutex(t)
    <3>1. pc[t] \in {"spin", "spun"} /\ GrabMutex(t, m, "acquiredSlow") /\ UNCHANGED prio
      BY <2>2, Zenon DEF lck_mtx_lock_grab_mutex, GrabMutex
    <3>2. m \notin held[t]
      BY <1>i, <3>1, Zenon DEF PointsAgree
    <3> QED
      BY <1>p, <2>m, <3>1, <3>2, GrabMutexKeeps, Zenon
  <2>3. CASE lck_mtx_ilk_try_lock(t)
    <3>1. ecx[t] \in Word /\ ecx' = [ecx EXCEPT ![t] = ecx[t]]
      BY <1>i, <2>3, Zenon DEF lck_mtx_ilk_try_lock, TypeOK
    <3> QED
      BY <1>p, <2>3, <2>m, <3>1, TakeInterlockKeeps, ZenonT(60) DEF lck_mtx_ilk_try_lock, TakeInterlock
  <2>4. CASE lck_mtx_ilk_unlock(t)
    <3>1. /\ mtx' = [mtx EXCEPT ![m] = [mtx[m] EXCEPT !.ilocked = FALSE]] /\ mtx[m] \in Word
          /\ ecx' = [ecx EXCEPT ![t] = ecx[t]] /\ ecx[t] \in Word
      BY <1>i, <2>4, Zenon DEF lck_mtx_ilk_unlock, Store, TypeOK
    <3>2. PICK to \in {"spun", "slow", "asleep"} : Goto(t, to)
      BY <2>4, Zenon DEF lck_mtx_ilk_unlock
    <3>3. pc[t] \in {"spinIlk", "slowIlk"} /\ UNCHANGED <<owner, held, obj, prio>>
      BY <2>4, Zenon DEF lck_mtx_ilk_unlock
    <3> QED
      BY <1>p, <2>m, <3>1, <3>2, <3>3, GiveInterlockKeeps, ZenonT(60)
  <2>5. CASE lck_mtx_lock_spinwait_x86(t)
    BY SMTT(60), <1>i, <1>p, <2>5, QuietKeeps
       DEF lck_mtx_lock_spinwait_x86, Goto, TypeOK, PointsAgree, Pcs, IlkPcs
  <2>6. CASE lck_mtx_lock_interlock(t)
    <3>1. [mtx[m] EXCEPT !.ilocked = TRUE] \in Word
      BY <1>i, <2>m, IlockedWord, Zenon DEF TypeOK
    <3> QED
      BY <1>p, <2>6, <2>m, <3>1, TakeInterlockKeeps, ZenonT(60) DEF lck_mtx_lock_interlock, TakeInterlock, Keep
  <2>7. CASE lck_mtx_lock_grab_direct(t)
    BY <1>p, <2>7, <2>m, GrabDirectKeeps, Zenon DEF lck_mtx_lock_grab_direct
  <2>8. CASE lck_mtx_lock_wait_x86(t)
    BY <1>i, <2>8, WaitKeeps, Zenon
  <2>9. CASE lck_mtx_unlock_store(t)
    <3>1. /\ pc[t] = "release" /\ UNCHANGED <<held, obj, prio>>
          /\ Store(m, ReleasedWord(ecx[t])) /\ owner' = [owner EXCEPT ![m] = None]
      BY <2>9, Zenon DEF lck_mtx_unlock_store
    <3>2. CASE ecx[t].promoted \/ ecx[t].waiters # 0
      <4>1. Goto(t, "wake") /\ ecx' = [ecx EXCEPT ![t] = ecx[t]] /\ ecx[t] \in Word
        BY <1>i, <2>9, <3>2, Zenon DEF lck_mtx_unlock_store, TypeOK
      <4> QED
        BY <1>p, <2>m, <3>1, <4>1, UnlockStoreKeeps, ZenonT(60)
    <3>3. CASE ~(ecx[t].promoted \/ ecx[t].waiters # 0)
      <4>1. Goto(t, "idle") /\ ecx' = [ecx EXCEPT ![t] = FreeWord] /\ FreeWord \in Word
        BY <2>9, <3>3 DEF lck_mtx_unlock_store, Forget, FreeWord, Word
      <4> QED
        BY <1>p, <2>m, <3>1, <4>1, UnlockStoreKeeps, ZenonT(60)
    <3> QED
      BY <3>2, <3>3, Zenon
  <2>10. CASE lck_mtx_unlock_wakeup_x86(t)
    BY <1>i, <2>10, WakeupKeeps, Zenon
  <2>11. CASE lck_mtx_unlock_demote(t)
    BY <1>i, <2>11, DemoteKeeps, Zenon
  <2> QED
    BY <1>2, <2>1, <2>2, <2>3, <2>4, <2>5, <2>6, <2>7, <2>8, <2>9, <2>10, <2>11, SMTT(60) DEF Continue
<1>3. ASSUME NEW t \in Threads, NEW m \in Mutexes, Request(t, m)
      PROVE  IInv'
  <2>1. CASE lck_mtx_lock(t, m) \/ lck_mtx_try_lock(t, m)
    BY ZenonT(60), <1>p, <2>1, GrabMutexKeeps
       DEF lck_mtx_lock, lck_mtx_try_lock, MayBlock, NotHeld, GrabMutex
  <2>2. CASE lck_mtx_lock_spin(t, m) \/ lck_mtx_try_lock_spin(t, m)
    BY ZenonT(60), <1>p, <2>2, GrabSpinKeeps
       DEF lck_mtx_lock_spin, lck_mtx_try_lock_spin, MayBlock, NotHeld, GrabSpin
  <2>3. CASE lck_mtx_lock_contended(t, m)
    BY <1>i, <1>p, <2>3, QuietKeeps
       DEF lck_mtx_lock_contended, MayBlock, NotHeld, Goto, TypeOK, Pcs, IlkPcs
  <2>4. CASE lck_mtx_convert_spin(t, m)
    <3>1. PrioOK'
      BY <1>i, <1>p, <2>4, AcquirePrio, SMTT(60) DEF lck_mtx_convert_spin, TypeOK
    <3> QED
      BY <2>4, <3>1, ConvertKeeps, Zenon
  <2>5. CASE lck_mtx_unlock(t, m)
    BY <1>p, <2>5, UnlockKeeps, ZenonT(60) DEF lck_mtx_unlock
  <2>6. CASE lck_mtx_unlock_spin(t, m)
    BY <1>p, <2>6, UnlockSpinKeeps, ZenonT(60) DEF lck_mtx_unlock_spin
  <2> QED
    BY <1>3, <2>1, <2>2, <2>3, <2>4, <2>5, <2>6 DEF Request, Release
<1> QED
  BY <1>1, <1>2, <1>3, SMTT(60) DEF Next

\* The invariant about the owners of the bits holds in every reachable state.
THEOREM Invariance == Spec => []IInv
<1>1. IInv /\ [Next]_vars => IInv'
  BY StepIInv, Zenon
<1> QED
  BY InitIInv, <1>1, PTL DEF Spec

\* No two threads hold a lck_mtx_t, as a mutex or as a spin lock, and the
\* owner field names the holder, for any number of threads and mutexes.
THEOREM MutexExclusion == Spec => []MutualExclusion
<1>1. IInv => MutualExclusion
  BY Zenon DEF IInv
<1> QED
  BY Invariance, <1>1, PTL

\* The interlock has one owner and the copy of the word that its owner stores
\* back is current, so the plain stores of the slow paths lose no update.
THEOREM InterlockSafe == Spec => []InterlockExclusive
<1>1. IInv => InterlockExclusive
  BY Zenon DEF IInv
<1> QED
  BY Invariance, <1>1, PTL

-----------------------------------------------------------------------------
(* No wakeup is lost.  The waiter count in the word is exact: every sleeper *)
(* is counted, or an unlock under way has counted it off.  On that rests    *)
(* NoLostWakeup: an unlock that reads zero waiters leaves nobody asleep     *)
(* without a waker.                                                         *)

\* Thread t will come to wake a sleeper of m, or to unlock m.
Serves(t, m) ==
    \/ m \in held[t]
    \/ pc[t] = "release" /\ obj[t] = m
    \/ t \in Waking(m)
    \/ t \in Contenders(m)

WInv == IInv /\ WaitersExact /\ NoLostWakeup

\* NoLostWakeup, in terms of the threads that serve a mutex.
LEMMA ServedForm ==
    NoLostWakeup <=> \A m \in Mutexes : Sleepers(m) # {} => \E t \in Threads : Serves(t, m)
  BY Zenon DEF NoLostWakeup, Serves, Waking, Contenders

\* The sets that are counted are finite.
LEMMA FiniteCounts ==
    ASSUME NEW m
    PROVE  IsFiniteSet(Sleepers(m)) /\ IsFiniteSet(Waking(m))
<1>1. Sleepers(m) \subseteq Threads /\ Waking(m) \subseteq Threads
  BY Zenon DEF Sleepers, Waking
<1> QED
  BY <1>1, Finite, FS_Subset, Zenon

\* Nobody sleeps and nobody is counted when every mutex is free.
LEMMA InitWInv == Init => WInv
<1> SUFFICES ASSUME Init PROVE WInv
  BY Zenon
<1>1. \A m \in Mutexes : Sleepers(m) = {} /\ Waking(m) = {} /\ mtx[m].waiters = 0
  BY Zenon DEF Init, Sleepers, Waking, FreeWord
<1>2. WaitersExact
  BY <1>1, FS_EmptySet DEF WaitersExact
<1> QED
  BY <1>1, <1>2, InitIInv, Zenon DEF WInv, NoLostWakeup

\* A step of t that neither counts nor wakes a sleeper, and after which t
\* serves what it served.
LEMMA OneMoves ==
    ASSUME WInv, NEW t \in Threads, NEW p, NEW o, NEW e,
           pc' = [pc EXCEPT ![t] = p], obj' = [obj EXCEPT ![t] = o], ecx' = [ecx EXCEPT ![t] = e],
           pc[t] # "asleep", p # "asleep", p # "wake",
           pc[t] = "wake" => ecx[t].waiters = 0,
           \A u \in Threads \ {t} : held'[u] = held[u],
           \A k \in Mutexes : mtx'[k].waiters = mtx[k].waiters,
           \A k \in Mutexes : Serves(t, k) => Serves(t, k)'
    PROVE  (WaitersExact /\ NoLostWakeup)'
<1>1. TypeOK
  BY Zenon DEF WInv, IInv
<1>2. \A u \in Threads \ {t} : pc'[u] = pc[u] /\ obj'[u] = obj[u] /\ ecx'[u] = ecx[u]
  BY <1>1, Zenon DEF TypeOK
<1>3. pc'[t] = p
  BY <1>1, Zenon DEF TypeOK
<1>4. \A k \in Mutexes : Sleepers(k)' = Sleepers(k) /\ Waking(k)' = Waking(k)
  BY <1>2, <1>3 DEF Sleepers, Waking
<1>5. WaitersExact'
  BY <1>4, Zenon DEF WInv, WaitersExact
<1>6. \A u \in Threads, k \in Mutexes : Serves(u, k) => Serves(u, k)'
  <2> SUFFICES ASSUME NEW u \in Threads \ {t}, NEW k \in Mutexes, Serves(u, k)
               PROVE  Serves(u, k)'
    BY Zenon
  <2>1. held'[u] = held[u] /\ pc'[u] = pc[u] /\ obj'[u] = obj[u]
    BY <1>2, Zenon
  <2> QED
    BY <1>4, <2>1, Zenon DEF Serves, Contenders
<1>7. NoLostWakeup'
  <2>1. \A k \in Mutexes : Sleepers(k)' # {} => \E u \in Threads : Serves(u, k)'
    BY <1>4, <1>6, ServedForm, Zenon DEF WInv
  <2> QED
    BY <2>1 DEF NoLostWakeup, Serves, Waking, Contenders
<1> QED
  BY <1>5, <1>7, Zenon

\* A store of a word with the same waiter count.
LEMMA SameWaiters ==
    ASSUME TypeOK, NEW m \in Mutexes, NEW w, w.waiters = mtx[m].waiters, Store(m, w)
    PROVE  \A k \in Mutexes : mtx'[k].waiters = mtx[k].waiters
  BY Zenon DEF TypeOK, Store

\* The words that the steps other than a wait and a release store.
LEMMA WordWaiters ==
    ASSUME NEW v \in Word, NEW t
    PROVE  /\ [v EXCEPT !.ilocked = TRUE, !.mlocked = TRUE].waiters = v.waiters
           /\ [v EXCEPT !.ilocked = TRUE, !.spin = TRUE].waiters = v.waiters
           /\ [v EXCEPT !.ilocked = TRUE].waiters = v.waiters
           /\ [v EXCEPT !.ilocked = FALSE].waiters = v.waiters
           /\ [v EXCEPT !.mlocked = TRUE].waiters = v.waiters
           /\ [v EXCEPT !.mlocked = FALSE, !.ilocked = TRUE].waiters = v.waiters
           /\ [v EXCEPT !.ilocked = FALSE, !.spin = FALSE, !.mlocked = TRUE].waiters = v.waiters
           /\ AcquiredWord(t, v).waiters = v.waiters
  BY Zenon DEF Word, AcquiredWord

\* The calls keep the wakeups.
LEMMA RequestKeeps ==
    ASSUME WInv, NEW t \in Threads, NEW m \in Mutexes, Request(t, m)
    PROVE  (WaitersExact /\ NoLostWakeup)'
<1>i. TypeOK /\ mtx[m] \in Word /\ pc[t] = "idle"
  BY Zenon DEF WInv, IInv, TypeOK, Request, Release, lck_mtx_lock, lck_mtx_try_lock, lck_mtx_lock_spin,
         lck_mtx_try_lock_spin, lck_mtx_lock_contended, lck_mtx_convert_spin, lck_mtx_unlock,
         lck_mtx_unlock_spin, MayBlock, NotHeld
<1>s. \A k \in Mutexes : Serves(t, k) => k \in held[t]
  BY <1>i, Zenon DEF Serves, Waking, Contenders
<1>1. CASE lck_mtx_lock(t, m) \/ lck_mtx_try_lock(t, m)
  <2>1. GrabMutex(t, m, "acquired")
    BY <1>1, Zenon DEF lck_mtx_lock, lck_mtx_try_lock
  <2>2. \A k \in Mutexes : mtx'[k].waiters = mtx[k].waiters
    BY <1>i, <2>1, SameWaiters, WordWaiters, ZenonT(60) DEF GrabMutex
  <2>3. /\ pc' = [pc EXCEPT ![t] = "acquired"] /\ obj' = [obj EXCEPT ![t] = m]
        /\ ecx' = [ecx EXCEPT ![t] = ecx[t]] /\ held' = held
    BY <1>i, <2>1, Zenon DEF GrabMutex, Goto, TypeOK
  <2>4. \A k \in Mutexes : Serves(t, k) => Serves(t, k)'
    BY <1>s, <2>3, Zenon DEF Serves
  <2> QED
    BY <1>i, <2>2, <2>3, <2>4, OneMoves, ZenonT(60)
<1>2. CASE lck_mtx_lock_spin(t, m) \/ lck_mtx_try_lock_spin(t, m)
  <2>1. GrabSpin(t, m)
    BY <1>2, Zenon DEF lck_mtx_lock_spin, lck_mtx_try_lock_spin
  <2>2. \A k \in Mutexes : mtx'[k].waiters = mtx[k].waiters
    BY <1>i, <2>1, SameWaiters, WordWaiters, ZenonT(60) DEF GrabSpin
  <2>3. /\ pc' = [pc EXCEPT ![t] = "idle"] /\ obj' = [obj EXCEPT ![t] = obj[t]]
        /\ ecx' = [ecx EXCEPT ![t] = ecx[t]] /\ held' = [held EXCEPT ![t] = @ \cup {m}]
    BY <1>i, <2>1, Zenon DEF GrabSpin, TypeOK
  <2>4. \A k \in Mutexes : Serves(t, k) => Serves(t, k)'
    BY <1>i, <1>s, <2>3, Zenon DEF Serves, TypeOK
  <2> QED
    BY <1>i, <2>2, <2>3, <2>4, OneMoves, ZenonT(60) DEF TypeOK
<1>3. CASE lck_mtx_lock_contended(t, m)
  <2>1. /\ pc' = [pc EXCEPT ![t] = "spin"] /\ obj' = [obj EXCEPT ![t] = m]
        /\ ecx' = [ecx EXCEPT ![t] = ecx[t]] /\ held' = held /\ mtx' = mtx
    BY <1>i, <1>3, Zenon DEF lck_mtx_lock_contended, Goto, TypeOK
  <2>2. \A k \in Mutexes : Serves(t, k) => Serves(t, k)'
    BY <1>s, <2>1, Zenon DEF Serves
  <2> QED
    BY <1>i, <2>1, <2>2, OneMoves, ZenonT(60)
<1>4. CASE lck_mtx_convert_spin(t, m)
  <2> DEFINE v == IF mtx[m].waiters # 0 THEN AcquiredWord(t, mtx[m]) ELSE mtx[m]
  <2>1. v \in Word /\ v.waiters = mtx[m].waiters
    BY <1>i, PromotedWord, WordWaiters, Zenon
  <2>2. Store(m, [v EXCEPT !.ilocked = FALSE, !.spin = FALSE, !.mlocked = TRUE])
    BY <1>4, Zenon DEF lck_mtx_convert_spin
  <2> HIDE DEF v
  <2>3. \A k \in Mutexes : mtx'[k].waiters = mtx[k].waiters
    <3>1. [v EXCEPT !.ilocked = FALSE, !.spin = FALSE, !.mlocked = TRUE].waiters = mtx[m].waiters
      BY <2>1, WordWaiters, Zenon
    <3> QED
      BY <1>i, <2>2, <3>1, SameWaiters, ZenonT(60)
  <2>4. /\ pc' = [pc EXCEPT ![t] = "idle"] /\ obj' = [obj EXCEPT ![t] = obj[t]]
        /\ ecx' = [ecx EXCEPT ![t] = ecx[t]] /\ held' = held
    BY <1>i, <1>4, Zenon DEF lck_mtx_convert_spin, TypeOK
  <2>5. \A k \in Mutexes : Serves(t, k) => Serves(t, k)'
    BY <1>s, <2>4, Zenon DEF Serves
  <2> QED
    BY <1>i, <2>3, <2>4, <2>5, OneMoves, ZenonT(60)
<1>5. CASE Release(t, m)
  <2>1. \A k \in Mutexes : mtx'[k].waiters = mtx[k].waiters
    BY <1>i, <1>5, SameWaiters, WordWaiters, ZenonT(60) DEF Release, lck_mtx_unlock, lck_mtx_unlock_spin
  <2>2. PICK e : ecx' = [ecx EXCEPT ![t] = e]
    BY <1>5, Zenon DEF Release, lck_mtx_unlock, lck_mtx_unlock_spin, Keep
  <2>3. /\ pc' = [pc EXCEPT ![t] = "release"] /\ obj' = [obj EXCEPT ![t] = m]
        /\ held' = [held EXCEPT ![t] = @ \ {m}]
    BY <1>5, Zenon DEF Release, lck_mtx_unlock, lck_mtx_unlock_spin, Goto
  <2>4. \A k \in Mutexes : Serves(t, k) => Serves(t, k)'
    BY <1>i, <1>s, <2>3, Zenon DEF Serves, TypeOK
  <2> QED
    BY <1>i, <2>1, <2>2, <2>3, <2>4, OneMoves, ZenonT(60) DEF TypeOK
<1> QED
  BY <1>1, <1>2, <1>3, <1>4, <1>5, Zenon DEF Request

\* The steps of a thread that neither sleeps nor wakes keep the wakeups.
LEMMA ContinueKeeps ==
    ASSUME WInv, NEW t \in Threads, Continue(t),
           ~lck_mtx_lock_wait_x86(t), ~lck_mtx_unlock_store(t), ~lck_mtx_unlock_wakeup_x86(t)
    PROVE  (WaitersExact /\ NoLostWakeup)'
<1> DEFINE m == obj[t]
<1>i. TypeOK /\ InterlockExclusive /\ m \in Mutexes /\ mtx[m] \in Word
  BY Zenon DEF WInv, IInv, TypeOK
<1>1. CASE lck_mtx_lock_finish(t)
  <2> DEFINE promote == mtx[m].waiters # 0 \/ (pc[t] = "acquiredSlow" /\ was_promoted[t])
             v == IF promote THEN AcquiredWord(t, mtx[m]) ELSE mtx[m]
  <2>1. v \in Word /\ v.waiters = mtx[m].waiters
    BY <1>i, PromotedWord, WordWaiters, Zenon
  <2>2. Store(m, [v EXCEPT !.ilocked = FALSE])
    BY <1>1, Zenon DEF lck_mtx_lock_finish
  <2> HIDE DEF v
  <2>3. \A k \in Mutexes : mtx'[k].waiters = mtx[k].waiters
    <3>1. [v EXCEPT !.ilocked = FALSE].waiters = mtx[m].waiters
      BY <2>1, WordWaiters, Zenon
    <3> QED
      BY <1>i, <2>2, <3>1, SameWaiters, ZenonT(60)
  <2>4. /\ pc' = [pc EXCEPT ![t] = "idle"] /\ obj' = [obj EXCEPT ![t] = m]
        /\ ecx' = [ecx EXCEPT ![t] = ecx[t]] /\ held' = [held EXCEPT ![t] = @ \cup {m}]
        /\ pc[t] \in {"acquired", "acquiredSlow"}
    BY <1>i, <1>1, Zenon DEF lck_mtx_lock_finish, Goto, TypeOK
  <2>5. \A k \in Mutexes : Serves(t, k) => Serves(t, k)'
    BY <1>i, <2>4, Zenon DEF TypeOK, Serves, Waking, Contenders
  <2> QED
    BY <1>i, <2>3, <2>4, <2>5, OneMoves, ZenonT(60) DEF TypeOK
<1>2. CASE lck_mtx_lock_grab_mutex(t)
  <2>1. \A k \in Mutexes : mtx'[k].waiters = mtx[k].waiters
    BY <1>i, <1>2, SameWaiters, WordWaiters, ZenonT(60) DEF lck_mtx_lock_grab_mutex, GrabMutex
  <2>2. /\ pc' = [pc EXCEPT ![t] = "acquiredSlow"] /\ obj' = [obj EXCEPT ![t] = m]
        /\ ecx' = [ecx EXCEPT ![t] = ecx[t]] /\ held' = held /\ pc[t] \in {"spin", "spun"}
    BY <1>i, <1>2, Zenon DEF lck_mtx_lock_grab_mutex, GrabMutex, Goto, TypeOK
  <2>3. \A k \in Mutexes : Serves(t, k) => Serves(t, k)'
    BY <1>i, <2>2, Zenon DEF TypeOK, Serves, Waking, Contenders
  <2> QED
    BY <1>i, <2>1, <2>2, <2>3, OneMoves, ZenonT(60) DEF TypeOK
<1>3. CASE lck_mtx_ilk_try_lock(t)
  <2>1. \A k \in Mutexes : mtx'[k].waiters = mtx[k].waiters
    BY <1>i, <1>3, SameWaiters, WordWaiters, ZenonT(60) DEF lck_mtx_ilk_try_lock, TakeInterlock
  <2>2. /\ pc' = [pc EXCEPT ![t] = "spinIlk"] /\ obj' = [obj EXCEPT ![t] = m]
        /\ ecx' = [ecx EXCEPT ![t] = ecx[t]] /\ held' = held /\ pc[t] \in {"spin"}
    BY <1>i, <1>3, Zenon DEF lck_mtx_ilk_try_lock, TakeInterlock, Goto, TypeOK
  <2>3. \A k \in Mutexes : Serves(t, k) => Serves(t, k)'
    BY <1>i, <2>2, Zenon DEF TypeOK, Serves, Waking, Contenders
  <2> QED
    BY <1>i, <2>1, <2>2, <2>3, OneMoves, ZenonT(60) DEF TypeOK
<1>4. CASE lck_mtx_ilk_unlock(t)
  <2>1. \A k \in Mutexes : mtx'[k].waiters = mtx[k].waiters
    BY <1>i, <1>4, SameWaiters, WordWaiters, ZenonT(60) DEF lck_mtx_ilk_unlock
  <2>2. PICK p \in {"spun", "slow"} : pc' = [pc EXCEPT ![t] = p]
    BY <1>4, Zenon DEF lck_mtx_ilk_unlock, Goto
  <2>3. /\ obj' = [obj EXCEPT ![t] = m] /\ ecx' = [ecx EXCEPT ![t] = ecx[t]]
        /\ held' = held /\ pc[t] = "spinIlk"
    BY <1>i, <1>4, Zenon DEF lck_mtx_ilk_unlock, TypeOK
  <2>4. \A k \in Mutexes : Serves(t, k) => Serves(t, k)'
    BY <1>i, <2>2, <2>3, Zenon DEF TypeOK, Serves, Waking, Contenders
  <2> QED
    BY <1>i, <2>1, <2>2, <2>3, <2>4, OneMoves, ZenonT(60) DEF TypeOK
<1>5. CASE lck_mtx_lock_spinwait_x86(t)
  <2>1. \A k \in Mutexes : mtx'[k].waiters = mtx[k].waiters
    BY <1>5, Zenon DEF lck_mtx_lock_spinwait_x86
  <2>2. /\ pc' = [pc EXCEPT ![t] = "slow"] /\ obj' = [obj EXCEPT ![t] = m]
        /\ ecx' = [ecx EXCEPT ![t] = ecx[t]] /\ held' = held /\ pc[t] \in {"spin", "spun"}
    BY <1>i, <1>5, Zenon DEF lck_mtx_lock_spinwait_x86, Goto, TypeOK
  <2>3. \A k \in Mutexes : Serves(t, k) => Serves(t, k)'
    BY <1>i, <2>2, Zenon DEF TypeOK, Serves, Waking, Contenders
  <2> QED
    BY <1>i, <2>1, <2>2, <2>3, OneMoves, ZenonT(60) DEF TypeOK
<1>6. CASE lck_mtx_lock_interlock(t)
  <2>1. \A k \in Mutexes : mtx'[k].waiters = mtx[k].waiters
    BY <1>i, <1>6, SameWaiters, WordWaiters, ZenonT(60) DEF lck_mtx_lock_interlock, TakeInterlock
  <2>2. /\ pc' = [pc EXCEPT ![t] = "slowIlk"] /\ obj' = [obj EXCEPT ![t] = m]
        /\ ecx' = [ecx EXCEPT ![t] = [mtx[m] EXCEPT !.ilocked = TRUE]] /\ held' = held /\ pc[t] \in {"slow"}
    BY <1>i, <1>6, Zenon DEF lck_mtx_lock_interlock, TakeInterlock, Goto, Keep, TypeOK
  <2>3. \A k \in Mutexes : Serves(t, k) => Serves(t, k)'
    BY <1>i, <2>2, Zenon DEF TypeOK, Serves, Waking, Contenders
  <2> QED
    BY <1>i, <2>1, <2>2, <2>3, OneMoves, ZenonT(60) DEF TypeOK
<1>7. CASE lck_mtx_lock_grab_direct(t)
  <2>1. \A k \in Mutexes : mtx'[k].waiters = mtx[k].waiters
    <3>1. Store(m, [mtx[m] EXCEPT !.mlocked = TRUE])
      BY <1>i, <1>7, ZenonT(60) DEF lck_mtx_lock_grab_direct, InterlockExclusive
    <3> QED
      BY <1>i, <3>1, SameWaiters, WordWaiters, ZenonT(60)
  <2>2. /\ pc' = [pc EXCEPT ![t] = "acquiredSlow"] /\ obj' = [obj EXCEPT ![t] = m]
        /\ ecx' = [ecx EXCEPT ![t] = FreeWord] /\ held' = held /\ pc[t] \in {"slowIlk"}
    BY <1>i, <1>7, Zenon DEF lck_mtx_lock_grab_direct, Goto, Forget, TypeOK
  <2>3. \A k \in Mutexes : Serves(t, k) => Serves(t, k)'
    BY <1>i, <2>2, Zenon DEF TypeOK, Serves, Waking, Contenders
  <2> QED
    BY <1>i, <2>1, <2>2, <2>3, OneMoves, ZenonT(60) DEF TypeOK
<1>8. CASE lck_mtx_unlock_demote(t)
  <2>1. \A k \in Mutexes : mtx'[k].waiters = mtx[k].waiters
    BY <1>8, Zenon DEF lck_mtx_unlock_demote
  <2>2. /\ pc' = [pc EXCEPT ![t] = "idle"] /\ obj' = [obj EXCEPT ![t] = m]
        /\ ecx' = [ecx EXCEPT ![t] = FreeWord] /\ held' = held /\ pc[t] \in {"demote"}
    BY <1>i, <1>8, Zenon DEF lck_mtx_unlock_demote, Goto, Forget, TypeOK
  <2>3. \A k \in Mutexes : Serves(t, k) => Serves(t, k)'
    BY <1>i, <2>2, Zenon DEF TypeOK, Serves, Waking, Contenders
  <2> QED
    BY <1>i, <2>1, <2>2, <2>3, OneMoves, ZenonT(60) DEF TypeOK
<1> QED
  BY <1>1, <1>2, <1>3, <1>4, <1>5, <1>6, <1>7, <1>8 DEF Continue

\* A step of t alone, after which every mutex with a sleeper is served.
LEMMA OthersServe ==
    ASSUME TypeOK, NEW t \in Threads, NEW k \in Mutexes, NEW u \in Threads \ {t}, Serves(u, k),
           pc'[u] = pc[u], obj'[u] = obj[u], ecx'[u] = ecx[u], held'[u] = held[u]
    PROVE  Serves(u, k)'
  BY Zenon DEF Serves, Waking, Contenders

\* A thread that goes to sleep is counted, and leaves a holder or an acquirer
\* of the mutex behind: it saw the mutex locked behind the interlock.
LEMMA WaitServed ==
    ASSUME WInv, NEW t \in Threads, NEW m \in Mutexes, obj[t] = m,
           lck_mtx_lock_wait_x86(t)
    PROVE  (WaitersExact /\ NoLostWakeup)'
<1>i. TypeOK /\ InterlockExclusive /\ BitsOwned /\ PointsAgree /\ mtx[m] \in Word
  BY Zenon DEF WInv, IInv, TypeOK
<1>1. /\ pc' = [pc EXCEPT ![t] = "asleep"] /\ pc[t] = "slowIlk" /\ ecx[t].mlocked
      /\ ecx' = [ecx EXCEPT ![t] = FreeWord] /\ UNCHANGED <<held, obj>>
  BY Zenon DEF lck_mtx_lock_wait_x86, Goto, Forget
<1>2. \A u \in Threads \ {t} : pc'[u] = pc[u] /\ obj'[u] = obj[u] /\ ecx'[u] = ecx[u]
  BY <1>i, <1>1, Zenon DEF TypeOK
<1>3. mtx'[m].waiters = mtx[m].waiters + 1
      /\ \A k \in Mutexes \ {m} : mtx'[k].waiters = mtx[k].waiters
  <2> DEFINE w == WaitWord(t, mtx[m])
             b == w.promoted \/ (owner[m] # None /\ sched_pri[owner[m]] < w.pri)
  <2>1. Store(m, [w EXCEPT !.promoted = b, !.ilocked = FALSE])
    BY Zenon DEF lck_mtx_lock_wait_x86
  <2>2. WaitPri(t) \in Nat
    BY <1>i, Priorities, SMTT(60) DEF TypeOK, WaitPri
  <2>3. w \in Word /\ w.waiters = mtx[m].waiters + 1
    BY <1>i, <2>2, WaitingWord, ZenonT(60) DEF WaitWord, Word
  <2> HIDE DEF w, b
  <2>4. [w EXCEPT !.promoted = b, !.ilocked = FALSE].waiters = w.waiters
    BY <2>3, Zenon DEF Word
  <2> QED
    BY <1>i, <2>1, <2>3, <2>4, Zenon DEF Store, TypeOK
<1>4. \A k \in Mutexes : Waking(k)' = Waking(k)
  BY <1>i, <1>1, <1>2, Zenon DEF Waking, TypeOK
<1>5. /\ Sleepers(m)' = Sleepers(m) \cup {t} /\ t \notin Sleepers(m)
      /\ \A k \in Mutexes \ {m} : Sleepers(k)' = Sleepers(k)
  BY <1>i, <1>1, <1>2 DEF Sleepers, TypeOK
<1>6. WaitersExact'
  <2>1. Cardinality(Sleepers(m)') = Cardinality(Sleepers(m)) + 1
    BY <1>5, FiniteCounts, FS_AddElement, ZenonT(60)
  <2>2. /\ Cardinality(Waking(m)) \in Nat /\ mtx[m].waiters \in Nat
        /\ Cardinality(Sleepers(m)) = mtx[m].waiters + Cardinality(Waking(m))
    BY <1>i, FiniteCounts, FS_CardinalityType, Zenon DEF Word, WInv, WaitersExact
  <2>3. Cardinality(Sleepers(m)') = mtx'[m].waiters + Cardinality(Waking(m)')
    BY <1>3, <1>4, <2>1, <2>2
  <2> QED
    BY <1>3, <1>4, <1>5, <2>3, Zenon DEF WInv, WaitersExact
<1>7. \E u \in Threads : Serves(u, m)'
  <2>1. mtx[m].mlocked /\ m \notin held[t]
    BY <1>i, <1>1, Zenon DEF InterlockExclusive, PointsAgree
  <2>2. PICK u \in Threads : m \in held[u] \/ (pc[u] \in {"acquired", "acquiredSlow"} /\ obj[u] = m)
    BY <1>i, <2>1, Zenon DEF BitsOwned
  <2>3. u # t /\ Serves(u, m)
    BY <1>1, <2>1, <2>2, Zenon DEF Serves, Contenders
  <2> QED
    BY <1>i, <1>1, <1>2, <2>3, OthersServe, Zenon
<1>8. ASSUME NEW k \in Mutexes \ {m}, Sleepers(k)' # {} PROVE \E u \in Threads : Serves(u, k)'
  <2>1. PICK u \in Threads : Serves(u, k)
    BY <1>5, <1>8, ServedForm, Zenon DEF WInv
  <2>2. CASE u = t
    BY <1>1, <2>1, <2>2, Zenon DEF Serves, Waking, Contenders
  <2>3. CASE u # t
    BY <1>i, <1>1, <1>2, <2>1, <2>3, OthersServe, Zenon
  <2> QED
    BY <2>2, <2>3, Zenon
<1>9. \A k \in Mutexes : Sleepers(k)' # {} => \E u \in Threads : Serves(u, k)'
  BY <1>7, <1>8, Zenon
<1>10. NoLostWakeup'
  BY <1>9, Zenon DEF NoLostWakeup, Serves, Waking, Contenders
<1> QED
  BY <1>6, <1>10, Zenon

\* The store of a release counts one waiter off, which the unlocker will wake;
\* when it counts none, an earlier unlocker has counted every sleeper off.
LEMMA StoreServed ==
    ASSUME WInv, NEW t \in Threads, NEW m \in Mutexes, obj[t] = m,
           lck_mtx_unlock_store(t)
    PROVE  (WaitersExact /\ NoLostWakeup)'
<1>i. TypeOK /\ InterlockExclusive /\ PointsAgree /\ mtx[m] \in Word
  BY Zenon DEF WInv, IInv, TypeOK
<1>1. /\ pc[t] = "release" /\ ecx[t] = mtx[m] /\ UNCHANGED <<held, obj>>
      /\ Store(m, ReleasedWord(mtx[m]))
  BY <1>i, Zenon DEF lck_mtx_unlock_store, InterlockExclusive
<1>2. /\ mtx[m].waiters # 0 => (pc' = [pc EXCEPT ![t] = "wake"] /\ ecx' = ecx)
      /\ \/ pc' = [pc EXCEPT ![t] = "wake"] /\ ecx' = ecx
         \/ pc' = [pc EXCEPT ![t] = "idle"] /\ ecx' = [ecx EXCEPT ![t] = FreeWord]
  BY <1>1, Zenon DEF lck_mtx_unlock_store, Goto, Forget
<1>3. \A u \in Threads \ {t} : pc'[u] = pc[u] /\ obj'[u] = obj[u] /\ ecx'[u] = ecx[u]
  BY <1>i, <1>1, <1>2, Zenon DEF TypeOK
<1>4. /\ mtx'[m].waiters = IF mtx[m].waiters = 0 THEN 0 ELSE mtx[m].waiters - 1
      /\ \A k \in Mutexes \ {m} : mtx'[k].waiters = mtx[k].waiters
  <2>1. ReleasedWord(mtx[m]).waiters = IF mtx[m].waiters = 0 THEN 0 ELSE mtx[m].waiters - 1
    BY <1>i, Zenon DEF ReleasedWord, Word
  <2> QED
    BY <1>i, <1>1, <2>1, Zenon DEF Store, TypeOK
<1>5. \A k \in Mutexes : Sleepers(k)' = Sleepers(k)
  BY <1>i, <1>1, <1>2, <1>3, Zenon DEF Sleepers, TypeOK
<1>6. /\ Waking(m)' = (IF mtx[m].waiters = 0 THEN Waking(m) ELSE Waking(m) \cup {t})
      /\ t \notin Waking(m)
      /\ \A k \in Mutexes \ {m} : Waking(k)' = Waking(k)
  BY <1>i, <1>1, <1>2, <1>3, SMTT(20) DEF Waking, TypeOK
<1>7. /\ Cardinality(Waking(m)) \in Nat /\ mtx[m].waiters \in Nat
      /\ Cardinality(Sleepers(m)) = mtx[m].waiters + Cardinality(Waking(m))
  BY <1>i, FiniteCounts, FS_CardinalityType, Zenon DEF Word, WInv, WaitersExact
<1>8. WaitersExact'
  <2>1. Cardinality(Sleepers(m)') = mtx'[m].waiters + Cardinality(Waking(m)')
    <3>1. CASE mtx[m].waiters = 0
      BY <1>4, <1>5, <1>6, <1>7, <3>1, Zenon
    <3>2. CASE mtx[m].waiters # 0
      <4>1. Cardinality(Waking(m)') = Cardinality(Waking(m)) + 1
        BY <1>6, <3>2, FiniteCounts, FS_AddElement, ZenonT(60)
      <4> QED
        BY <1>4, <1>5, <1>7, <3>2, <4>1
    <3> QED
      BY <3>1, <3>2, Zenon
  <2> QED
    BY <1>4, <1>5, <1>6, <2>1 DEF WInv, WaitersExact
<1>9. ASSUME Sleepers(m) # {} PROVE \E u \in Threads : Serves(u, m)'
  <2>1. Waking(m)' # {}
    <3>1. CASE mtx[m].waiters # 0
      BY <1>6, <3>1, Zenon
    <3>2. CASE mtx[m].waiters = 0
      <4>1. Cardinality(Sleepers(m)) # 0
        BY <1>9, FiniteCounts, FS_EmptySet, Zenon
      <4>2. Waking(m) # {}
        BY <1>7, <3>2, <4>1, FS_EmptySet
      <4> QED
        BY <1>6, <3>2, <4>2, Zenon
    <3> QED
      BY <3>1, <3>2, Zenon
  <2> QED
    BY <2>1, Zenon DEF Serves, Waking
<1>10. ASSUME NEW k \in Mutexes \ {m}, Sleepers(k)' # {} PROVE \E u \in Threads : Serves(u, k)'
  <2>1. PICK u \in Threads : Serves(u, k)
    BY <1>5, <1>10, ServedForm, Zenon DEF WInv
  <2>2. CASE u = t
    BY <1>1, <2>1, <2>2, Zenon DEF Serves, Waking, Contenders
  <2>3. CASE u # t
    BY <1>i, <1>1, <1>3, <2>1, <2>3, OthersServe, Zenon
  <2> QED
    BY <2>2, <2>3, Zenon
<1>11. \A k \in Mutexes : Sleepers(k)' # {} => \E u \in Threads : Serves(u, k)'
  BY <1>5, <1>9, <1>10, Zenon
<1>12. NoLostWakeup'
  BY <1>11, Zenon DEF NoLostWakeup, Serves, Waking, Contenders
<1> QED
  BY <1>8, <1>12, Zenon

\* The wakeup takes one thread off the sleepers and one off those that have
\* still to wake one; the woken thread contends for the mutex.
LEMMA WakeupServed ==
    ASSUME WInv, NEW t \in Threads, NEW m \in Mutexes, obj[t] = m,
           lck_mtx_unlock_wakeup_x86(t)
    PROVE  (WaitersExact /\ NoLostWakeup)'
<1>i. TypeOK /\ PointsAgree /\ mtx[m] \in Word /\ ecx[t] \in Word
  BY Zenon DEF WInv, IInv, TypeOK
<1>1. pc[t] = "wake" /\ UNCHANGED <<mtx, held, obj, ecx>>
  BY Zenon DEF lck_mtx_unlock_wakeup_x86
<1>2. CASE ecx[t].waiters = 0
  <2>1. /\ pc' = [pc EXCEPT ![t] = "demote"] /\ obj' = [obj EXCEPT ![t] = m]
        /\ ecx' = [ecx EXCEPT ![t] = ecx[t]]
    BY <1>i, <1>1, <1>2 DEF lck_mtx_unlock_wakeup_x86, Goto, TypeOK
  <2>2. \A k \in Mutexes : Serves(t, k) => Serves(t, k)'
    BY <1>1, <1>2, Zenon DEF Serves, Waking, Contenders
  <2> QED
    BY <1>1, <1>2, <2>1, <2>2, OneMoves, ZenonT(60)
<1>3. CASE ecx[t].waiters # 0
  <2>1. /\ Cardinality(Waking(m)) \in Nat /\ mtx[m].waiters \in Nat
        /\ Cardinality(Sleepers(m)) = mtx[m].waiters + Cardinality(Waking(m))
    BY <1>i, FiniteCounts, FS_CardinalityType, Zenon DEF Word, WInv, WaitersExact
  <2>2. t \in Waking(m)
    BY <1>1, <1>3, Zenon DEF Waking
  <2>3. Cardinality(Waking(m)) # 0
    BY <2>2, FiniteCounts, FS_EmptySet, Zenon
  <2>4. Sleepers(m) # {}
    BY <2>1, <2>3, FS_EmptySet
  <2>5. PICK u \in Sleepers(m) : pc' = [pc EXCEPT ![t] = "demote", ![u] = "spin"]
    BY <1>3, <2>4, Zenon DEF lck_mtx_unlock_wakeup_x86
  <2>6. /\ u \in Threads \ {t} /\ obj[u] = m /\ pc[u] = "asleep"
        /\ pc'[t] = "demote" /\ pc'[u] = "spin"
        /\ \A v \in Threads \ {t, u} : pc'[v] = pc[v]
    BY <1>i, <1>1, <2>5, Zenon DEF Sleepers, TypeOK
  <2>7. /\ Sleepers(m)' = Sleepers(m) \ {u}
        /\ \A k \in Mutexes \ {m} : Sleepers(k)' = Sleepers(k)
    BY <1>1, <2>6, Zenon DEF Sleepers
  <2>8. /\ Waking(m)' = Waking(m) \ {t}
        /\ \A k \in Mutexes \ {m} : Waking(k)' = Waking(k)
    BY <1>1, <2>6, Zenon DEF Waking
  <2>9. WaitersExact'
    <3>1. Cardinality(Sleepers(m)') = Cardinality(Sleepers(m)) - 1
      BY <2>5, <2>7, FiniteCounts, FS_RemoveElement, ZenonT(60)
    <3>2. Cardinality(Waking(m)') = Cardinality(Waking(m)) - 1
      BY <2>2, <2>8, FiniteCounts, FS_RemoveElement, ZenonT(60)
    <3>3. Cardinality(Sleepers(m)') = mtx'[m].waiters + Cardinality(Waking(m)')
      BY <1>1, <2>1, <3>1, <3>2
    <3> QED
      BY <1>1, <2>7, <2>8, <3>3, Zenon DEF WInv, WaitersExact
  <2>10. Serves(u, m)'
    BY <1>1, <2>6, Zenon DEF Serves, Contenders
  <2>11. ASSUME NEW k \in Mutexes \ {m}, Sleepers(k)' # {} PROVE \E v \in Threads : Serves(v, k)'
    <3>1. PICK v \in Threads : Serves(v, k)
      BY <2>7, <2>11, ServedForm, SMTT(20) DEF WInv
    <3>2. CASE v \in {t, u}
      BY <1>1, <2>6, <3>1, <3>2, SMTT(60) DEF Serves, Waking, Contenders
    <3>3. CASE v \notin {t, u}
      BY <1>i, <1>1, <2>6, <3>1, <3>3, OthersServe
    <3> QED
      BY <3>2, <3>3, Zenon
  <2>12. \A k \in Mutexes : Sleepers(k)' # {} => \E v \in Threads : Serves(v, k)'
    BY <2>6, <2>10, <2>11, Zenon
  <2>13. NoLostWakeup'
    BY <2>12, Zenon DEF NoLostWakeup, Serves, Waking, Contenders
  <2> QED
    BY <2>9, <2>13, Zenon
<1> QED
  BY <1>2, <1>3, Zenon

\* Every step keeps the waiter counts and the wakeups.
LEMMA StepWInv ==
    ASSUME WInv, [Next]_vars
    PROVE  WInv'
<1>1. IInv'
  BY StepIInv, Zenon DEF WInv
<1>2. CASE UNCHANGED vars
  BY <1>1, <1>2, ZenonT(60) DEF WInv, WaitersExact, NoLostWakeup, Sleepers, Waking, Contenders, vars
<1>3. ASSUME NEW t \in Threads, Continue(t)
      PROVE  (WaitersExact /\ NoLostWakeup)'
  <2>1. obj[t] \in Mutexes
    BY Zenon DEF WInv, IInv, TypeOK
  <2> QED
    BY <1>3, <2>1, ContinueKeeps, WaitServed, StoreServed, WakeupServed, Zenon
<1>4. ASSUME NEW t \in Threads, NEW m \in Mutexes, Request(t, m)
      PROVE  (WaitersExact /\ NoLostWakeup)'
  BY <1>4, RequestKeeps, Zenon
<1> QED
  BY <1>1, <1>2, <1>3, <1>4, Zenon DEF Next, WInv

\* The invariant behind the wakeups holds in every reachable state.
LEMMA WakeupInvariance == Spec => []WInv
<1>1. WInv /\ [Next]_vars => WInv'
  BY StepWInv, Zenon
<1> QED
  BY InitWInv, <1>1, PTL DEF Spec

\* The waiter count in the word of a lck_mtx_t is the number of sleepers that
\* no unlock under way has yet counted off.
THEOREM WaitersCounted == Spec => []WaitersExact
<1>1. WInv => WaitersExact
  BY Zenon DEF WInv
<1> QED
  BY WakeupInvariance, <1>1, PTL

\* No thread sleeps on a lck_mtx_t that nobody will unlock or wake for.
THEOREM WakeupsNotLost == Spec => []NoLostWakeup
<1>1. WInv => NoLostWakeup
  BY Zenon DEF WInv
<1> QED
  BY WakeupInvariance, <1>1, PTL

=============================================================================
