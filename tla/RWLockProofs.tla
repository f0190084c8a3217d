---------------------------- MODULE RWLockProofs ----------------------------
(***************************************************************************)
(* Proofs about RWLock for any finite set of threads and either privilege. *)
(***************************************************************************)
EXTENDS RWLock, FiniteSetTheorems, TLAPS

\* The readers of a lock are finitely many, and no reader means count zero.
LEMMA ReadersFinite ==
    /\ IsFiniteSet(Readers)
    /\ Cardinality(Readers) \in Nat
    /\ Cardinality(Readers) = 0 <=> Readers = {}
<1>1. IsFiniteSet(Readers)
  BY ThreadsFinite, FS_Subset, Zenon DEF Readers
<1> QED
  BY <1>1, FS_CardinalityType, FS_EmptySet, Zenon

\* A thread that becomes a reader, stops being one, or neither, changes the
\* number of readers by one up, one down, or not at all.
LEMMA ReadersStep ==
    ASSUME TypeOK, NEW t \in Threads, NEW p, Goto(t, p)
    PROVE  /\ pc[t] \notin SharedPcs /\ p \in SharedPcs =>
                 Cardinality(Readers') = Cardinality(Readers) + 1
           /\ pc[t] \in SharedPcs /\ p \notin SharedPcs =>
                 /\ Cardinality(Readers') = Cardinality(Readers) - 1
                 /\ Cardinality(Readers) > 0
           /\ (pc[t] \in SharedPcs <=> p \in SharedPcs) =>
                 Cardinality(Readers') = Cardinality(Readers)
<1>1. pc' = [pc EXCEPT ![t] = p] /\ pc \in [Threads -> Pcs]
  BY Zenon DEF Goto, TypeOK
<1>2. CASE pc[t] \notin SharedPcs /\ p \in SharedPcs
  <2>1. Readers' = Readers \cup {t} /\ t \notin Readers
    BY <1>1, <1>2, Zenon DEF Readers
  <2> QED
    BY <2>1, <1>2, ReadersFinite, FS_AddElement, ZenonT(60)
<1>3. CASE pc[t] \in SharedPcs /\ p \notin SharedPcs
  <2>1. Readers' = Readers \ {t} /\ t \in Readers
    BY <1>1, <1>3, Zenon DEF Readers
  <2>2. Cardinality(Readers') = Cardinality(Readers) - 1
    BY <2>1, ReadersFinite, FS_RemoveElement, SMTT(60)
  <2>3. Cardinality(Readers) > 0
    BY <2>1, ReadersFinite
  <2> QED
    BY <2>2, <2>3, <1>3, Zenon
<1>4. CASE pc[t] \in SharedPcs <=> p \in SharedPcs
  <2>1. Readers' = Readers
    BY <1>1, <1>4, Zenon DEF Readers
  <2> QED
    BY <2>1, <1>4, Zenon
<1> QED
  BY <1>2, <1>3, <1>4, Zenon

\* Initially the lock is free and every thread is outside it.
LEMMA InitIInv == Init => IInv
<1> SUFFICES ASSUME Init PROVE IInv
  BY Zenon
<1>1. Readers = {}
  BY Zenon DEF Init, Readers, SharedPcs
<1> QED
  BY <1>1, FS_EmptySet DEF Init, IInv, TypeOK, SharedCountExact, BitsOwned, HoldsExclude,
     AtMostOne, Word, FreeWord, Pcs, Events, SharedPcs, WritePcs, UpgradePcs, IlkPcs, ExclPcs

\* How a bit must follow its owners when thread t goes to program point p: set
\* when t enters the owning points, and then free before; cleared when t leaves.
Follows(bit, bitNext, owners, t, p) ==
    /\ bitNext <=> (p \in owners \/ (bit /\ pc[t] \notin owners))
    /\ p \in owners /\ pc[t] \notin owners => ~bit

Owned(owners) == \E u \in Threads : pc[u] \in owners

\* How the owners of a bit change when one thread moves.
LEMMA OwnedStep ==
    ASSUME NEW t \in Threads, NEW p, NEW owners,
           pc \in [Threads -> Pcs], pc' = [pc EXCEPT ![t] = p],
           AtMostOne(owners),
           p \in owners /\ pc[t] \notin owners => ~Owned(owners)
    PROVE  /\ Owned(owners)' <=> (p \in owners \/ (Owned(owners) /\ pc[t] \notin owners))
           /\ AtMostOne(owners)'
<1>1. \A u \in Threads : pc'[u] = IF u = t THEN p ELSE pc[u]
  BY Zenon
<1> QED
  BY <1>1, Zenon DEF Owned, AtMostOne

\* What a step that moves one thread owes the counting and ownership parts of
\* the invariant.
WordFollows(t, p) ==
    /\ Goto(t, p)
    /\ p \in Pcs
    /\ lck' \in Word
    /\ Follows(lck.interlock, lck'.interlock, IlkPcs, t, p)
    /\ Follows(lck.want_write, lck'.want_write, WritePcs, t, p)
    /\ Follows(lck.want_upgrade, lck'.want_upgrade, UpgradePcs, t, p)
    /\ pc[t] \notin SharedPcs /\ p \in SharedPcs => lck'.shared_count = lck.shared_count + 1
    /\ pc[t] \in SharedPcs /\ p \notin SharedPcs => lck'.shared_count = lck.shared_count - 1
    /\ (pc[t] \in SharedPcs <=> p \in SharedPcs) => lck'.shared_count = lck.shared_count

\* Bits and count that follow the point of one thread stay exact.
LEMMA WordFollowsKeeps ==
    ASSUME TypeOK, SharedCountExact, BitsOwned, NEW t \in Threads, NEW p, WordFollows(t, p)
    PROVE  SharedCountExact' /\ BitsOwned'
<1> USE DEF WordFollows
<1>0. pc \in [Threads -> Pcs] /\ pc' = [pc EXCEPT ![t] = p]
  BY Zenon DEF TypeOK, Goto
<1>1. SharedCountExact'
  BY ReadersStep, Zenon DEF SharedCountExact
<1>2. /\ lck'.interlock <=> Owned(IlkPcs)'
      /\ AtMostOne(IlkPcs)'
  BY <1>0, OwnedStep, ZenonT(60) DEF BitsOwned, Follows, Owned
<1>3. /\ lck'.want_write <=> Owned(WritePcs)'
      /\ AtMostOne(WritePcs)'
  BY <1>0, OwnedStep, ZenonT(60) DEF BitsOwned, Follows, Owned
<1>4. /\ lck'.want_upgrade <=> Owned(UpgradePcs)'
      /\ AtMostOne(UpgradePcs)'
  BY <1>0, OwnedStep, ZenonT(60) DEF BitsOwned, Follows, Owned
<1>5. BitsOwned'
  BY <1>2, <1>3, <1>4, Zenon DEF BitsOwned, Owned
<1> QED
  BY <1>1, <1>5, Zenon

\* Releasing the interlock changes nothing else in the word.
LEMMA UnlockedWord ==
    ASSUME NEW w \in Word
    PROVE
    /\ Unlocked(w) \in Word
    /\ Unlocked(w).shared_count = w.shared_count
    /\ Unlocked(w).interlock = FALSE
    /\ Unlocked(w).want_upgrade = w.want_upgrade
    /\ Unlocked(w).want_write = w.want_write
    /\ Unlocked(w).r_waiting = w.r_waiting
    /\ Unlocked(w).w_waiting = w.w_waiting
  BY ZenonT(60) DEF Word, Unlocked

\* Adding a reader changes only the count.
LEMMA AddReaderWord ==
    ASSUME NEW w \in Word
    PROVE
    /\ AddReader(w) \in Word
    /\ AddReader(w).shared_count = w.shared_count + 1
    /\ AddReader(w).interlock = w.interlock
    /\ AddReader(w).want_upgrade = w.want_upgrade
    /\ AddReader(w).want_write = w.want_write
    /\ AddReader(w).r_waiting = w.r_waiting
    /\ AddReader(w).w_waiting = w.w_waiting
  BY DEF Word, AddReader

\* Taking want_write changes nothing else in the word.
LEMMA SetWantWriteWord ==
    ASSUME NEW w \in Word
    PROVE
    /\ SetWantWrite(w) \in Word
    /\ SetWantWrite(w).shared_count = w.shared_count
    /\ SetWantWrite(w).interlock = w.interlock
    /\ SetWantWrite(w).want_upgrade = w.want_upgrade
    /\ SetWantWrite(w).want_write = TRUE
    /\ SetWantWrite(w).r_waiting = w.r_waiting
    /\ SetWantWrite(w).w_waiting = w.w_waiting
  BY ZenonT(60) DEF Word, SetWantWrite

\* Announcing a sleeping writer changes nothing else in the word.
LEMMA SetWWaitingWord ==
    ASSUME NEW w \in Word
    PROVE
    /\ SetWWaiting(w) \in Word
    /\ SetWWaiting(w).shared_count = w.shared_count
    /\ SetWWaiting(w).interlock = w.interlock
    /\ SetWWaiting(w).want_upgrade = w.want_upgrade
    /\ SetWWaiting(w).want_write = w.want_write
    /\ SetWWaiting(w).r_waiting = w.r_waiting
    /\ SetWWaiting(w).w_waiting = TRUE
  BY ZenonT(60) DEF Word, SetWWaiting

\* Dropping a reader of a word that has one.
LEMMA DropReaderWord ==
    ASSUME NEW w \in Word, w.shared_count # 0
    PROVE
    /\ DropReader(w) \in Word
    /\ DropReader(w).shared_count = w.shared_count - 1
    /\ DropReader(w).interlock = w.interlock
    /\ DropReader(w).want_upgrade = w.want_upgrade
    /\ DropReader(w).want_write = w.want_write
    /\ DropReader(w).r_waiting = w.r_waiting
    /\ DropReader(w).w_waiting = w.w_waiting
  BY DEF Word, DropReader

\* lck_rw_done changes the count or one want bit, and clears waiting bits only.
LEMMA ReleasedWord ==
    ASSUME NEW w \in Word
    PROVE
    /\ Released(w) \in Word
    /\ Released(w).interlock = w.interlock
    /\ w.shared_count # 0 =>
          /\ Released(w).shared_count = w.shared_count - 1
          /\ Released(w).want_upgrade = w.want_upgrade
          /\ Released(w).want_write = w.want_write
    /\ w.shared_count = 0 =>
          /\ Released(w).shared_count = 0
          /\ Released(w).want_upgrade = FALSE
          /\ Released(w).want_write = (w.want_write /\ w.want_upgrade)
<1>1. CASE w.shared_count # 0
  BY <1>1, DropReaderWord, ZenonT(60) DEF Released, DropHold, Word
<1>2. CASE w.shared_count = 0 /\ w.want_upgrade
  BY <1>2, ZenonT(60) DEF Released, DropHold, Word
<1>3. CASE w.shared_count = 0 /\ ~w.want_upgrade
  BY <1>3, ZenonT(60) DEF Released, DropHold, Word
<1> QED
  BY <1>1, <1>2, <1>3, ZenonT(60)

\* A downgrade trades the exclusive hold for a read count.
LEMMA DowngradedWord ==
    ASSUME NEW w \in Word
    PROVE
    /\ Downgraded(w) \in Word
    /\ Downgraded(w).shared_count = w.shared_count + 1
    /\ Downgraded(w).interlock = w.interlock
    /\ Downgraded(w).want_upgrade = FALSE
    /\ Downgraded(w).want_write = (w.want_write /\ w.want_upgrade)
  BY DEF Word, Downgraded

\* Every step that moves a thread keeps the inductive invariant.
LEMMA StepIInv ==
    ASSUME IInv, NEW t \in Threads, Continue(t) \/ Request(t)
    PROVE  IInv'
<1>a. TypeOK /\ SharedCountExact /\ BitsOwned /\ HoldsExclude
  BY Zenon DEF IInv
<1>b. pc[t] \in SharedPcs => lck.shared_count # 0
  BY <1>a, ReadersFinite, Zenon DEF SharedCountExact, Readers
<1>c. lck \in Word
  BY <1>a, Zenon DEF TypeOK
<1>d. [lck EXCEPT !.want_write = FALSE, !.want_upgrade = FALSE] \in Word
  BY <1>c, Zenon DEF Word
<1> USE DEF At, TakeInterlock, SleepOn, Store, StoreKeepPrior, Count, Held, WakeAll
<1>1. ASSUME lck_rw_lock_shared_fast(t) PROVE IInv'
  <2>1. CASE lck.interlock \/ Held(lck)
    <3>1. /\ lck' \in Word
          /\ lck'.shared_count = lck.shared_count
          /\ lck'.interlock = lck.interlock
          /\ lck'.want_upgrade = lck.want_upgrade
          /\ lck'.want_write = lck.want_write
      BY <1>c, <1>1, <2>1, Zenon DEF lck_rw_lock_shared_fast
    <3>2. pc[t] = "shFast" /\ Goto(t, "shSlow")
      BY <1>1, <2>1, Zenon DEF lck_rw_lock_shared_fast
    <3>3. WordFollows(t, "shSlow")
      BY <1>a, <1>1, <2>1, <3>1, <3>2, Zenon DEF lck_rw_lock_shared_fast, WordFollows,
         Follows, BitsOwned,
         Pcs, SharedPcs, WritePcs, UpgradePcs, IlkPcs
    <3>4. TypeOK'
      BY <1>a, <1>1, <2>1, <3>1, <3>2, Zenon DEF lck_rw_lock_shared_fast, TypeOK, Goto, Events,
         Pcs, SharedPcs, WritePcs, UpgradePcs, IlkPcs
    <3>5. HoldsExclude'
      BY <1>a, <1>1, <2>1, <3>1, <3>2 DEF lck_rw_lock_shared_fast, TypeOK, Goto,
         HoldsExclude, BitsOwned,
         ExclPcs, WritePcs, UpgradePcs
    <3> QED
      BY <1>a, <3>3, <3>4, <3>5, WordFollowsKeeps, Zenon DEF IInv
  <2>2. CASE ~(lck.interlock \/ Held(lck))
    <3>1. /\ lck' \in Word
          /\ lck'.shared_count = lck.shared_count + 1
          /\ lck'.interlock = lck.interlock
          /\ lck'.want_upgrade = lck.want_upgrade
          /\ lck'.want_write = lck.want_write
      BY <1>c, <1>1, <2>2, AddReaderWord, Zenon DEF lck_rw_lock_shared_fast
    <3>2. pc[t] = "shFast" /\ Goto(t, "shared")
      BY <1>1, <2>2, Zenon DEF lck_rw_lock_shared_fast
    <3>3. WordFollows(t, "shared")
      BY <1>a, <1>1, <2>2, <3>1, <3>2, Zenon DEF lck_rw_lock_shared_fast, WordFollows,
         Follows, BitsOwned,
         Pcs, SharedPcs, WritePcs, UpgradePcs, IlkPcs
    <3>4. TypeOK'
      BY <1>a, <1>1, <2>2, <3>1, <3>2, Zenon DEF lck_rw_lock_shared_fast, TypeOK, Goto, Events,
         Pcs, SharedPcs, WritePcs, UpgradePcs, IlkPcs
    <3>5. HoldsExclude'
      BY <1>a, <1>1, <2>2, <3>1, <3>2, Zenon DEF lck_rw_lock_shared_fast, TypeOK, Goto,
         HoldsExclude, BitsOwned,
         ExclPcs, WritePcs, UpgradePcs
    <3> QED
      BY <1>a, <3>3, <3>4, <3>5, WordFollowsKeeps, Zenon DEF IInv
  <2> QED
    BY <2>1, <2>2, Zenon
<1>2. ASSUME lck_rw_grab_shared(t) PROVE IInv'
  <2>1. /\ lck' \in Word
        /\ lck'.shared_count = lck.shared_count + 1
        /\ lck'.interlock = lck.interlock
        /\ lck'.want_upgrade = lck.want_upgrade
        /\ lck'.want_write = lck.want_write
    BY <1>c, <1>2, AddReaderWord, Zenon DEF lck_rw_grab_shared
  <2>2. pc[t] = "shSlow" /\ Goto(t, "shared")
    BY <1>2, Zenon DEF lck_rw_grab_shared
  <2>3. WordFollows(t, "shared")
    BY <1>a, <1>2, <2>1, <2>2, Zenon DEF lck_rw_grab_shared, WordFollows, Follows, BitsOwned,
       Pcs, SharedPcs, WritePcs, UpgradePcs, IlkPcs
  <2>4. TypeOK'
    BY <1>a, <1>2, <2>1, <2>2, Zenon DEF lck_rw_grab_shared, TypeOK, Goto, Events,
       Pcs, SharedPcs, WritePcs, UpgradePcs, IlkPcs
  <2>5. HoldsExclude'
    BY <1>a, <1>2, <2>1, <2>2 DEF lck_rw_grab_shared, TypeOK, Goto, HoldsExclude, BitsOwned,
       ExclPcs, WritePcs, UpgradePcs
  <2> QED
    BY <1>a, <2>3, <2>4, <2>5, WordFollowsKeeps, Zenon DEF IInv
<1>3. ASSUME lck_rw_lock_shared_deadline(t) PROVE IInv'
  <2>1. WordFollows(t, pc'[t])
    BY <1>a, <1>3, ZenonT(60) DEF lck_rw_lock_shared_deadline, WordFollows, Follows,
       TypeOK, Word, Pcs,
       SharedPcs, WritePcs, UpgradePcs, IlkPcs, Goto, BitsOwned, HoldsExclude, ExclPcs
  <2>2. TypeOK'
    BY <1>a, <1>3, ZenonT(60) DEF lck_rw_lock_shared_deadline, TypeOK, Word, FreeWord, Pcs,
       SharedPcs, WritePcs, UpgradePcs, IlkPcs, Events, Goto
  <2>3. HoldsExclude'
    BY <1>a, <1>3, Zenon DEF lck_rw_lock_shared_deadline, TypeOK, Word, HoldsExclude, ExclPcs, Goto,
       BitsOwned, WritePcs, UpgradePcs, SharedPcs
  <2> QED
    BY <1>a, <2>1, <2>2, <2>3, WordFollowsKeeps, Zenon DEF IInv
<1>4. ASSUME lck_rw_lock_shared_gen(t) PROVE IInv'
  <2>1. CASE Held(lck) /\ (lck.shared_count = 0 \/ priv_excl)
    <3> DEFINE w == [lck EXCEPT !.r_waiting = TRUE]
    <3>0. w \in Word /\ w.shared_count = lck.shared_count /\ w.interlock = lck.interlock
           /\ w.want_upgrade = lck.want_upgrade /\ w.want_write = lck.want_write
      BY <1>c, ZenonT(60) DEF Word
    <3>1. /\ lck' \in Word
          /\ lck'.shared_count = lck.shared_count
          /\ lck'.interlock = FALSE
          /\ lck'.want_upgrade = lck.want_upgrade
          /\ lck'.want_write = lck.want_write
      BY <1>c, <1>4, <2>1, UnlockedWord, <3>0, ZenonT(60) DEF lck_rw_lock_shared_gen
    <3>2. pc[t] = "shIlk" /\ Goto(t, "shSlow")
      BY <1>4, <2>1, Zenon DEF lck_rw_lock_shared_gen
    <3>3. WordFollows(t, "shSlow")
      BY <1>a, <1>4, <2>1, <3>1, <3>2 DEF lck_rw_lock_shared_gen, WordFollows, Follows, BitsOwned,
         Pcs, SharedPcs, WritePcs, UpgradePcs, IlkPcs
    <3>4. TypeOK'
      BY <1>a, <1>4, <2>1, <3>1, <3>2 DEF lck_rw_lock_shared_gen, TypeOK, Goto, Events,
         Pcs, SharedPcs, WritePcs, UpgradePcs, IlkPcs
    <3>5. HoldsExclude'
      BY <1>a, <1>4, <2>1, <3>1, <3>2 DEF lck_rw_lock_shared_gen, TypeOK, Goto,
         HoldsExclude, BitsOwned,
         ExclPcs, WritePcs, UpgradePcs
    <3> QED
      BY <1>a, <3>3, <3>4, <3>5, WordFollowsKeeps, Zenon DEF IInv
  <2>2. CASE ~(Held(lck) /\ (lck.shared_count = 0 \/ priv_excl))
    <3>0. /\ AddReader(lck) \in Word
          /\ AddReader(lck).shared_count = lck.shared_count + 1
          /\ AddReader(lck).interlock = lck.interlock
          /\ AddReader(lck).want_upgrade = lck.want_upgrade
          /\ AddReader(lck).want_write = lck.want_write
      BY <1>c, AddReaderWord, Zenon
    <3>1. /\ lck' \in Word
          /\ lck'.shared_count = lck.shared_count + 1
          /\ lck'.interlock = FALSE
          /\ lck'.want_upgrade = lck.want_upgrade
          /\ lck'.want_write = lck.want_write
      BY <1>c, <1>4, <2>2, <3>0, UnlockedWord, ZenonT(60) DEF lck_rw_lock_shared_gen
    <3>2. pc[t] = "shIlk" /\ Goto(t, "shared")
      BY <1>4, <2>2, Zenon DEF lck_rw_lock_shared_gen
    <3>3. WordFollows(t, "shared")
      BY <1>a, <1>4, <2>2, <3>1, <3>2, Zenon DEF lck_rw_lock_shared_gen, WordFollows,
         Follows, BitsOwned,
         Pcs, SharedPcs, WritePcs, UpgradePcs, IlkPcs
    <3>4. TypeOK'
      BY <1>a, <1>4, <2>2, <3>1, <3>2, Zenon DEF lck_rw_lock_shared_gen, TypeOK, Goto, Events,
         Pcs, SharedPcs, WritePcs, UpgradePcs, IlkPcs
    <3>5. HoldsExclude'
      BY <1>a, <1>4, <2>2, <3>1, <3>2 DEF lck_rw_lock_shared_gen, TypeOK, Goto,
         HoldsExclude, BitsOwned,
         ExclPcs, WritePcs, UpgradePcs
    <3> QED
      BY <1>a, <3>3, <3>4, <3>5, WordFollowsKeeps, Zenon DEF IInv
  <2> QED
    BY <2>1, <2>2
<1>5. ASSUME lck_rw_try_lock_shared_count(t) PROVE IInv'
  <2>1. WordFollows(t, pc'[t])
    BY <1>a, <1>5, Zenon DEF lck_rw_try_lock_shared_count, WordFollows, Follows, TypeOK, Word, Pcs,
       SharedPcs, WritePcs, UpgradePcs, IlkPcs, Goto, BitsOwned, HoldsExclude, ExclPcs
  <2>2. TypeOK'
    BY <1>a, <1>5 DEF lck_rw_try_lock_shared_count, TypeOK, Word, FreeWord, Pcs,
       SharedPcs, WritePcs, UpgradePcs, IlkPcs, Events, Goto
  <2>3. HoldsExclude'
    BY <1>a, <1>5, Zenon DEF lck_rw_try_lock_shared_count, TypeOK, Word, HoldsExclude,
       ExclPcs, Goto,
       BitsOwned, WritePcs, UpgradePcs, SharedPcs
  <2> QED
    BY <1>a, <2>1, <2>2, <2>3, WordFollowsKeeps, Zenon DEF IInv
<1>6. ASSUME lck_rw_lock_exclusive_fast(t) PROVE IInv'
  <2>1. CASE lck.interlock \/ Held(lck) \/ lck.shared_count # 0
    <3>1. /\ lck' \in Word
          /\ lck'.shared_count = lck.shared_count
          /\ lck'.interlock = lck.interlock
          /\ lck'.want_upgrade = lck.want_upgrade
          /\ lck'.want_write = lck.want_write
      BY <1>c, <1>6, <2>1, Zenon DEF lck_rw_lock_exclusive_fast
    <3>2. pc[t] = "exFast" /\ Goto(t, "exWant")
      BY <1>6, <2>1, Zenon DEF lck_rw_lock_exclusive_fast
    <3>3. WordFollows(t, "exWant")
      BY <1>a, <1>6, <2>1, <3>1, <3>2, Zenon DEF lck_rw_lock_exclusive_fast, WordFollows,
         Follows, BitsOwned,
         Pcs, SharedPcs, WritePcs, UpgradePcs, IlkPcs
    <3>4. TypeOK'
      BY <1>a, <1>6, <2>1, <3>1, <3>2, Zenon DEF lck_rw_lock_exclusive_fast, TypeOK, Goto, Events,
         Pcs, SharedPcs, WritePcs, UpgradePcs, IlkPcs
    <3>5. HoldsExclude'
      BY <1>a, <1>6, <2>1, <3>1, <3>2 DEF lck_rw_lock_exclusive_fast, TypeOK, Goto,
         HoldsExclude, BitsOwned,
         ExclPcs, WritePcs, UpgradePcs
    <3> QED
      BY <1>a, <3>3, <3>4, <3>5, WordFollowsKeeps, Zenon DEF IInv
  <2>2. CASE ~(lck.interlock \/ Held(lck) \/ lck.shared_count # 0)
    <3>1. /\ lck' \in Word
          /\ lck'.shared_count = lck.shared_count
          /\ lck'.interlock = lck.interlock
          /\ lck'.want_upgrade = lck.want_upgrade
          /\ lck'.want_write = TRUE
      BY <1>c, <1>6, <2>2, SetWantWriteWord, ZenonT(60) DEF lck_rw_lock_exclusive_fast
    <3>2. pc[t] = "exFast" /\ Goto(t, "exclW")
      BY <1>6, <2>2, Zenon DEF lck_rw_lock_exclusive_fast
    <3>3. WordFollows(t, "exclW")
      BY <1>a, <1>6, <2>2, <3>1, <3>2, Zenon DEF lck_rw_lock_exclusive_fast, WordFollows,
         Follows, BitsOwned,
         Pcs, SharedPcs, WritePcs, UpgradePcs, IlkPcs
    <3>4. TypeOK'
      BY <1>a, <1>6, <2>2, <3>1, <3>2, Zenon DEF lck_rw_lock_exclusive_fast, TypeOK, Goto, Events,
         Pcs, SharedPcs, WritePcs, UpgradePcs, IlkPcs
    <3>5. HoldsExclude'
      BY <1>a, <1>6, <2>2, <3>1, <3>2, Zenon DEF lck_rw_lock_exclusive_fast, TypeOK,
         Goto, HoldsExclude, BitsOwned,
         ExclPcs, WritePcs, UpgradePcs
    <3> QED
      BY <1>a, <3>3, <3>4, <3>5, WordFollowsKeeps, Zenon DEF IInv
  <2> QED
    BY <2>1, <2>2, Zenon
<1>7. ASSUME lck_rw_grab_want(t) PROVE IInv'
  <2>1. /\ lck' \in Word
        /\ lck'.shared_count = lck.shared_count
        /\ lck'.interlock = lck.interlock
        /\ lck'.want_upgrade = lck.want_upgrade
        /\ lck'.want_write = TRUE
    BY <1>c, <1>7, SetWantWriteWord, ZenonT(60) DEF lck_rw_grab_want
  <2>2. pc[t] = "exWant" /\ Goto(t, "exDrain")
    BY <1>7, Zenon DEF lck_rw_grab_want
  <2>3. WordFollows(t, "exDrain")
    BY <1>a, <1>7, <2>1, <2>2, Zenon DEF lck_rw_grab_want, WordFollows, Follows, BitsOwned,
       Pcs, SharedPcs, WritePcs, UpgradePcs, IlkPcs
  <2>4. TypeOK'
    BY <1>a, <1>7, <2>1, <2>2, Zenon DEF lck_rw_grab_want, TypeOK, Goto, Events,
       Pcs, SharedPcs, WritePcs, UpgradePcs, IlkPcs
  <2>5. HoldsExclude'
    BY <1>a, <1>7, <2>1, <2>2 DEF lck_rw_grab_want, TypeOK, Goto, HoldsExclude, BitsOwned,
       ExclPcs, WritePcs, UpgradePcs
  <2> QED
    BY <1>a, <2>3, <2>4, <2>5, WordFollowsKeeps, Zenon DEF IInv
<1>8. ASSUME lck_rw_lock_exclusive_want_deadline(t) PROVE IInv'
  <2>1. WordFollows(t, pc'[t])
    BY <1>a, <1>8, ZenonT(60) DEF lck_rw_lock_exclusive_want_deadline, WordFollows,
       Follows, TypeOK, Word, Pcs,
       SharedPcs, WritePcs, UpgradePcs, IlkPcs, Goto, BitsOwned, HoldsExclude, ExclPcs
  <2>2. TypeOK'
    BY <1>a, <1>8, ZenonT(60) DEF lck_rw_lock_exclusive_want_deadline, TypeOK, Word, FreeWord, Pcs,
       SharedPcs, WritePcs, UpgradePcs, IlkPcs, Events, Goto
  <2>3. HoldsExclude'
    BY <1>a, <1>8, Zenon DEF lck_rw_lock_exclusive_want_deadline, TypeOK, Word,
       HoldsExclude, ExclPcs, Goto,
       BitsOwned, WritePcs, UpgradePcs, SharedPcs
  <2> QED
    BY <1>a, <2>1, <2>2, <2>3, WordFollowsKeeps, Zenon DEF IInv
<1>9. ASSUME lck_rw_lock_exclusive_want(t) PROVE IInv'
  <2>1. CASE lck.want_write
    <3>0. /\ SetWWaiting(lck) \in Word
          /\ SetWWaiting(lck).shared_count = lck.shared_count
          /\ SetWWaiting(lck).interlock = lck.interlock
          /\ SetWWaiting(lck).want_upgrade = lck.want_upgrade
          /\ SetWWaiting(lck).want_write = lck.want_write
      BY <1>c, SetWWaitingWord, ZenonT(60)
    <3>1. /\ lck' \in Word
          /\ lck'.shared_count = lck.shared_count
          /\ lck'.interlock = FALSE
          /\ lck'.want_upgrade = lck.want_upgrade
          /\ lck'.want_write = lck.want_write
      BY <1>c, <1>9, <2>1, <3>0, UnlockedWord, ZenonT(60) DEF lck_rw_lock_exclusive_want
    <3>2. pc[t] = "exWantIlk" /\ Goto(t, "exWant")
      BY <1>9, <2>1, Zenon DEF lck_rw_lock_exclusive_want
    <3>3. WordFollows(t, "exWant")
      BY <1>a, <1>9, <2>1, <3>1, <3>2, Zenon DEF lck_rw_lock_exclusive_want, WordFollows,
         Follows, BitsOwned,
         Pcs, SharedPcs, WritePcs, UpgradePcs, IlkPcs
    <3>4. TypeOK'
      BY <1>a, <1>9, <2>1, <3>1, <3>2, Zenon DEF lck_rw_lock_exclusive_want, TypeOK, Goto, Events,
         Pcs, SharedPcs, WritePcs, UpgradePcs, IlkPcs
    <3>5. HoldsExclude'
      BY <1>a, <1>9, <2>1, <3>1, <3>2 DEF lck_rw_lock_exclusive_want, TypeOK, Goto,
         HoldsExclude, BitsOwned,
         ExclPcs, WritePcs, UpgradePcs
    <3> QED
      BY <1>a, <3>3, <3>4, <3>5, WordFollowsKeeps, Zenon DEF IInv
  <2>2. CASE ~lck.want_write
    <3>0. /\ SetWantWrite(lck) \in Word
          /\ SetWantWrite(lck).shared_count = lck.shared_count
          /\ SetWantWrite(lck).interlock = lck.interlock
          /\ SetWantWrite(lck).want_upgrade = lck.want_upgrade
          /\ SetWantWrite(lck).want_write = TRUE
      BY <1>c, SetWantWriteWord, ZenonT(60)
    <3>1. /\ lck' \in Word
          /\ lck'.shared_count = lck.shared_count
          /\ lck'.interlock = FALSE
          /\ lck'.want_upgrade = lck.want_upgrade
          /\ lck'.want_write = TRUE
      BY <1>c, <1>9, <2>2, <3>0, UnlockedWord, ZenonT(60) DEF lck_rw_lock_exclusive_want
    <3>2. pc[t] = "exWantIlk" /\ Goto(t, "exDrain")
      BY <1>9, <2>2, Zenon DEF lck_rw_lock_exclusive_want
    <3>3. WordFollows(t, "exDrain")
      BY <1>a, <1>9, <2>2, <3>1, <3>2, Zenon DEF lck_rw_lock_exclusive_want, WordFollows,
         Follows, BitsOwned,
         Pcs, SharedPcs, WritePcs, UpgradePcs, IlkPcs
    <3>4. TypeOK'
      BY <1>a, <1>9, <2>2, <3>1, <3>2, Zenon DEF lck_rw_lock_exclusive_want, TypeOK, Goto, Events,
         Pcs, SharedPcs, WritePcs, UpgradePcs, IlkPcs
    <3>5. HoldsExclude'
      BY <1>a, <1>9, <2>2, <3>1, <3>2, Zenon DEF lck_rw_lock_exclusive_want, TypeOK,
         Goto, HoldsExclude, BitsOwned,
         ExclPcs, WritePcs, UpgradePcs
    <3> QED
      BY <1>a, <3>3, <3>4, <3>5, WordFollowsKeeps, Zenon DEF IInv
  <2> QED
    BY <2>1, <2>2, Zenon
<1>10. ASSUME lck_rw_held_read_or_upgrade(t) PROVE IInv'
  <2>1. WordFollows(t, pc'[t])
    BY <1>a, <1>10, Zenon DEF lck_rw_held_read_or_upgrade, WordFollows, Follows, TypeOK, Word, Pcs,
       SharedPcs, WritePcs, UpgradePcs, IlkPcs, Goto, BitsOwned, HoldsExclude, ExclPcs
  <2>2. TypeOK'
    BY <1>a, <1>10, Zenon DEF lck_rw_held_read_or_upgrade, TypeOK, Word, FreeWord, Pcs,
       SharedPcs, WritePcs, UpgradePcs, IlkPcs, Events, Goto
  <2>3. HoldsExclude'
    BY <1>a, <1>10, Zenon DEF lck_rw_held_read_or_upgrade, TypeOK, Word, HoldsExclude,
       ExclPcs, Goto,
       BitsOwned, WritePcs, UpgradePcs, SharedPcs
  <2> QED
    BY <1>a, <2>1, <2>2, <2>3, WordFollowsKeeps, Zenon DEF IInv
<1>11. ASSUME lck_rw_lock_exclusive_drain_deadline(t) PROVE IInv'
  <2>1. WordFollows(t, pc'[t])
    BY <1>a, <1>11, ZenonT(60) DEF lck_rw_lock_exclusive_drain_deadline, WordFollows,
       Follows, TypeOK, Word, Pcs,
       SharedPcs, WritePcs, UpgradePcs, IlkPcs, Goto, BitsOwned, HoldsExclude, ExclPcs
  <2>2. TypeOK'
    BY <1>a, <1>11, ZenonT(60) DEF lck_rw_lock_exclusive_drain_deadline, TypeOK, Word,
       FreeWord, Pcs,
       SharedPcs, WritePcs, UpgradePcs, IlkPcs, Events, Goto
  <2>3. HoldsExclude'
    BY <1>a, <1>11, Zenon DEF lck_rw_lock_exclusive_drain_deadline, TypeOK, Word,
       HoldsExclude, ExclPcs, Goto,
       BitsOwned, WritePcs, UpgradePcs, SharedPcs
  <2> QED
    BY <1>a, <2>1, <2>2, <2>3, WordFollowsKeeps, Zenon DEF IInv
<1>12. ASSUME lck_rw_lock_exclusive_drain(t) PROVE IInv'
  <2>1. CASE lck.shared_count # 0 \/ lck.want_upgrade
    <3>0. /\ SetWWaiting(lck) \in Word
          /\ SetWWaiting(lck).shared_count = lck.shared_count
          /\ SetWWaiting(lck).interlock = lck.interlock
          /\ SetWWaiting(lck).want_upgrade = lck.want_upgrade
          /\ SetWWaiting(lck).want_write = lck.want_write
      BY <1>c, SetWWaitingWord, ZenonT(60)
    <3>1. /\ lck' \in Word
          /\ lck'.shared_count = lck.shared_count
          /\ lck'.interlock = FALSE
          /\ lck'.want_upgrade = lck.want_upgrade
          /\ lck'.want_write = lck.want_write
      BY <1>c, <1>12, <2>1, <3>0, UnlockedWord, ZenonT(60) DEF lck_rw_lock_exclusive_drain
    <3>2. pc[t] = "exDrainIlk" /\ Goto(t, "exDrain")
      BY <1>12, <2>1, Zenon DEF lck_rw_lock_exclusive_drain
    <3>3. WordFollows(t, "exDrain")
      BY <1>a, <1>12, <2>1, <3>1, <3>2, Zenon DEF lck_rw_lock_exclusive_drain,
         WordFollows, Follows, BitsOwned,
         Pcs, SharedPcs, WritePcs, UpgradePcs, IlkPcs
    <3>4. TypeOK'
      BY <1>a, <1>12, <2>1, <3>1, <3>2, Zenon DEF lck_rw_lock_exclusive_drain, TypeOK, Goto, Events,
         Pcs, SharedPcs, WritePcs, UpgradePcs, IlkPcs
    <3>5. HoldsExclude'
      BY <1>a, <1>12, <2>1, <3>1, <3>2 DEF lck_rw_lock_exclusive_drain, TypeOK, Goto,
         HoldsExclude, BitsOwned,
         ExclPcs, WritePcs, UpgradePcs
    <3> QED
      BY <1>a, <3>3, <3>4, <3>5, WordFollowsKeeps, Zenon DEF IInv
  <2>2. CASE ~(lck.shared_count # 0 \/ lck.want_upgrade)
    <3>1. /\ lck' \in Word
          /\ lck'.shared_count = lck.shared_count
          /\ lck'.interlock = FALSE
          /\ lck'.want_upgrade = lck.want_upgrade
          /\ lck'.want_write = lck.want_write
      BY <1>c, <1>12, <2>2, UnlockedWord, ZenonT(60) DEF lck_rw_lock_exclusive_drain
    <3>2. pc[t] = "exDrainIlk" /\ Goto(t, "exclW")
      BY <1>12, <2>2, Zenon DEF lck_rw_lock_exclusive_drain
    <3>3. WordFollows(t, "exclW")
      BY <1>a, <1>12, <2>2, <3>1, <3>2, Zenon DEF lck_rw_lock_exclusive_drain,
         WordFollows, Follows, BitsOwned,
         Pcs, SharedPcs, WritePcs, UpgradePcs, IlkPcs
    <3>4. TypeOK'
      BY <1>a, <1>12, <2>2, <3>1, <3>2, Zenon DEF lck_rw_lock_exclusive_drain, TypeOK, Goto, Events,
         Pcs, SharedPcs, WritePcs, UpgradePcs, IlkPcs
    <3>5. HoldsExclude'
      BY <1>a, <1>12, <2>2, <3>1, <3>2 DEF lck_rw_lock_exclusive_drain, TypeOK, Goto,
         HoldsExclude, BitsOwned,
         ExclPcs, WritePcs, UpgradePcs
    <3> QED
      BY <1>a, <3>3, <3>4, <3>5, WordFollowsKeeps, Zenon DEF IInv
  <2> QED
    BY <2>1, <2>2, Zenon
<1>13. ASSUME lck_rw_try_lock_exclusive_count(t) PROVE IInv'
  <2>1. WordFollows(t, pc'[t])
    BY <1>a, <1>13, Zenon DEF lck_rw_try_lock_exclusive_count, WordFollows, Follows,
       TypeOK, Word, Pcs,
       SharedPcs, WritePcs, UpgradePcs, IlkPcs, Goto, BitsOwned, HoldsExclude, ExclPcs
  <2>2. TypeOK'
    BY <1>a, <1>13 DEF lck_rw_try_lock_exclusive_count, TypeOK, Word, FreeWord, Pcs,
       SharedPcs, WritePcs, UpgradePcs, IlkPcs, Events, Goto
  <2>3. HoldsExclude'
    BY <1>a, <1>13, Zenon DEF lck_rw_try_lock_exclusive_count, TypeOK, Word, HoldsExclude,
       ExclPcs, Goto,
       BitsOwned, WritePcs, UpgradePcs, SharedPcs
  <2> QED
    BY <1>a, <2>1, <2>2, <2>3, WordFollowsKeeps, Zenon DEF IInv
<1>14. ASSUME lck_rw_upgrade_drained(t) PROVE IInv'
  <2>1. WordFollows(t, pc'[t])
    BY <1>a, <1>14, Zenon DEF lck_rw_upgrade_drained, WordFollows, Follows, TypeOK, Word, Pcs,
       SharedPcs, WritePcs, UpgradePcs, IlkPcs, Goto, BitsOwned, HoldsExclude, ExclPcs
  <2>2. TypeOK'
    BY <1>a, <1>14, Zenon DEF lck_rw_upgrade_drained, TypeOK, Word, FreeWord, Pcs,
       SharedPcs, WritePcs, UpgradePcs, IlkPcs, Events, Goto
  <2>3. HoldsExclude'
    BY <1>a, <1>14, Zenon DEF lck_rw_upgrade_drained, TypeOK, Word, HoldsExclude, ExclPcs, Goto,
       BitsOwned, WritePcs, UpgradePcs, SharedPcs
  <2> QED
    BY <1>a, <2>1, <2>2, <2>3, WordFollowsKeeps, Zenon DEF IInv
<1>15. ASSUME lck_rw_upgrade_deadline(t) PROVE IInv'
  <2>1. WordFollows(t, pc'[t])
    BY <1>a, <1>15, ZenonT(60) DEF lck_rw_upgrade_deadline, WordFollows, Follows, TypeOK, Word, Pcs,
       SharedPcs, WritePcs, UpgradePcs, IlkPcs, Goto, BitsOwned, HoldsExclude, ExclPcs
  <2>2. TypeOK'
    BY <1>a, <1>15, ZenonT(60) DEF lck_rw_upgrade_deadline, TypeOK, Word, FreeWord, Pcs,
       SharedPcs, WritePcs, UpgradePcs, IlkPcs, Events, Goto
  <2>3. HoldsExclude'
    BY <1>a, <1>15, Zenon DEF lck_rw_upgrade_deadline, TypeOK, Word, HoldsExclude, ExclPcs, Goto,
       BitsOwned, WritePcs, UpgradePcs, SharedPcs
  <2> QED
    BY <1>a, <2>1, <2>2, <2>3, WordFollowsKeeps, Zenon DEF IInv
<1>16. ASSUME lck_rw_lock_shared_to_exclusive_success(t) PROVE IInv'
  <2>1. CASE lck.shared_count # 0
    <3>0. /\ SetWWaiting(lck) \in Word
          /\ SetWWaiting(lck).shared_count = lck.shared_count
          /\ SetWWaiting(lck).interlock = lck.interlock
          /\ SetWWaiting(lck).want_upgrade = lck.want_upgrade
          /\ SetWWaiting(lck).want_write = lck.want_write
      BY <1>c, SetWWaitingWord, ZenonT(60)
    <3>1. /\ lck' \in Word
          /\ lck'.shared_count = lck.shared_count
          /\ lck'.interlock = FALSE
          /\ lck'.want_upgrade = lck.want_upgrade
          /\ lck'.want_write = lck.want_write
      BY <1>c, <1>16, <2>1, <3>0, UnlockedWord, ZenonT(60) DEF
         lck_rw_lock_shared_to_exclusive_success
    <3>2. pc[t] = "upDrainIlk" /\ Goto(t, "upDrain")
      BY <1>16, <2>1, Zenon DEF lck_rw_lock_shared_to_exclusive_success
    <3>3. WordFollows(t, "upDrain")
      BY <1>a, <1>16, <2>1, <3>1, <3>2, Zenon DEF
         lck_rw_lock_shared_to_exclusive_success, WordFollows, Follows, BitsOwned,
         Pcs, SharedPcs, WritePcs, UpgradePcs, IlkPcs
    <3>4. TypeOK'
      BY <1>a, <1>16, <2>1, <3>1, <3>2, Zenon DEF
         lck_rw_lock_shared_to_exclusive_success, TypeOK, Goto, Events,
         Pcs, SharedPcs, WritePcs, UpgradePcs, IlkPcs
    <3>5. HoldsExclude'
      BY <1>a, <1>16, <2>1, <3>1, <3>2 DEF lck_rw_lock_shared_to_exclusive_success,
         TypeOK, Goto, HoldsExclude, BitsOwned,
         ExclPcs, WritePcs, UpgradePcs
    <3> QED
      BY <1>a, <3>3, <3>4, <3>5, WordFollowsKeeps, Zenon DEF IInv
  <2>2. CASE lck.shared_count = 0
    <3>1. /\ lck' \in Word
          /\ lck'.shared_count = lck.shared_count
          /\ lck'.interlock = FALSE
          /\ lck'.want_upgrade = lck.want_upgrade
          /\ lck'.want_write = lck.want_write
      BY <1>c, <1>16, <2>2, UnlockedWord, ZenonT(60) DEF lck_rw_lock_shared_to_exclusive_success
    <3>2. pc[t] = "upDrainIlk" /\ Goto(t, "exclU")
      BY <1>16, <2>2, Zenon DEF lck_rw_lock_shared_to_exclusive_success
    <3>3. WordFollows(t, "exclU")
      BY <1>a, <1>16, <2>2, <3>1, <3>2, Zenon DEF
         lck_rw_lock_shared_to_exclusive_success, WordFollows, Follows, BitsOwned,
         Pcs, SharedPcs, WritePcs, UpgradePcs, IlkPcs
    <3>4. TypeOK'
      BY <1>a, <1>16, <2>2, <3>1, <3>2, Zenon DEF
         lck_rw_lock_shared_to_exclusive_success, TypeOK, Goto, Events,
         Pcs, SharedPcs, WritePcs, UpgradePcs, IlkPcs
    <3>5. HoldsExclude'
      BY <1>a, <1>16, <2>2, <3>1, <3>2 DEF lck_rw_lock_shared_to_exclusive_success,
         TypeOK, Goto, HoldsExclude, BitsOwned,
         ExclPcs, WritePcs, UpgradePcs
    <3> QED
      BY <1>a, <3>3, <3>4, <3>5, WordFollowsKeeps, Zenon DEF IInv
  <2> QED
    BY <2>1, <2>2, Zenon
<1>17. ASSUME lck_rw_upgrade_failure_drop(t) PROVE IInv'
  <2>1. WordFollows(t, pc'[t])
    BY <1>a, <1>17, Zenon DEF lck_rw_upgrade_failure_drop, WordFollows, Follows, TypeOK, Word, Pcs,
       SharedPcs, WritePcs, UpgradePcs, IlkPcs, Goto, BitsOwned, HoldsExclude, ExclPcs
  <2>2. TypeOK'
    BY <1>a, <1>17 DEF lck_rw_upgrade_failure_drop, TypeOK, Word, FreeWord, Pcs,
       SharedPcs, WritePcs, UpgradePcs, IlkPcs, Events, Goto
  <2>3. HoldsExclude'
    BY <1>a, <1>17, Zenon DEF lck_rw_upgrade_failure_drop, TypeOK, Word, HoldsExclude,
       ExclPcs, Goto,
       BitsOwned, WritePcs, UpgradePcs, SharedPcs
  <2> QED
    BY <1>a, <2>1, <2>2, <2>3, WordFollowsKeeps, Zenon DEF IInv
<1>18. ASSUME lck_rw_lock_shared_to_exclusive_failure(t) PROVE IInv'
  <2>1. WordFollows(t, pc'[t])
    BY <1>a, <1>18, Zenon DEF lck_rw_lock_shared_to_exclusive_failure, WordFollows,
       Follows, TypeOK, Word, Pcs,
       SharedPcs, WritePcs, UpgradePcs, IlkPcs, Goto, BitsOwned, HoldsExclude, ExclPcs
  <2>2. TypeOK'
    BY <1>a, <1>18 DEF lck_rw_lock_shared_to_exclusive_failure, TypeOK, Word, FreeWord, Pcs,
       SharedPcs, WritePcs, UpgradePcs, IlkPcs, Events, Goto
  <2>3. HoldsExclude'
    BY <1>a, <1>18, SMTT(20) DEF lck_rw_lock_shared_to_exclusive_failure, TypeOK, Word,
       HoldsExclude, ExclPcs, Goto,
       BitsOwned, WritePcs, UpgradePcs, SharedPcs
  <2> QED
    BY <1>a, <2>1, <2>2, <2>3, WordFollowsKeeps, Zenon DEF IInv
<1>19. ASSUME lck_rw_lock_exclusive_to_shared_gen(t) PROVE IInv'
  <2>1. WordFollows(t, pc'[t])
    BY <1>a, <1>19, Zenon DEF lck_rw_lock_exclusive_to_shared_gen, WordFollows, Follows,
       TypeOK, Word, Pcs,
       SharedPcs, WritePcs, UpgradePcs, IlkPcs, Goto, BitsOwned, HoldsExclude, ExclPcs
  <2>2. TypeOK'
    BY <1>a, <1>19 DEF lck_rw_lock_exclusive_to_shared_gen, TypeOK, Word, FreeWord, Pcs,
       SharedPcs, WritePcs, UpgradePcs, IlkPcs, Events, Goto
  <2>3. HoldsExclude'
    BY <1>a, <1>19 DEF lck_rw_lock_exclusive_to_shared_gen, TypeOK, Word, HoldsExclude,
       ExclPcs, Goto,
       BitsOwned, WritePcs, UpgradePcs, SharedPcs
  <2> QED
    BY <1>a, <2>1, <2>2, <2>3, WordFollowsKeeps, Zenon DEF IInv
<1>20. ASSUME lck_rw_done_gen_writers(t) PROVE IInv'
  <2>1. WordFollows(t, pc'[t])
    BY <1>a, <1>20 DEF lck_rw_done_gen_writers, WordFollows, Follows, TypeOK, Word, Pcs,
       SharedPcs, WritePcs, UpgradePcs, IlkPcs, Goto, BitsOwned, HoldsExclude, ExclPcs
  <2>2. TypeOK'
    BY <1>a, <1>20 DEF lck_rw_done_gen_writers, TypeOK, Word, FreeWord, Pcs,
       SharedPcs, WritePcs, UpgradePcs, IlkPcs, Events, Goto
  <2>3. HoldsExclude'
    BY <1>a, <1>20 DEF lck_rw_done_gen_writers, TypeOK, Word, HoldsExclude, ExclPcs, Goto,
       BitsOwned, WritePcs, UpgradePcs, SharedPcs
  <2> QED
    BY <1>a, <2>1, <2>2, <2>3, WordFollowsKeeps, Zenon DEF IInv
<1>21. ASSUME lck_rw_done_gen_readers(t) PROVE IInv'
  <2>1. WordFollows(t, pc'[t])
    BY <1>a, <1>21 DEF lck_rw_done_gen_readers, WordFollows, Follows, TypeOK, Word, Pcs,
       SharedPcs, WritePcs, UpgradePcs, IlkPcs, Goto, BitsOwned, HoldsExclude, ExclPcs
  <2>2. TypeOK'
    BY <1>a, <1>21 DEF lck_rw_done_gen_readers, TypeOK, Word, FreeWord, Pcs,
       SharedPcs, WritePcs, UpgradePcs, IlkPcs, Events, Goto
  <2>3. HoldsExclude'
    BY <1>a, <1>21 DEF lck_rw_done_gen_readers, TypeOK, Word, HoldsExclude, ExclPcs, Goto,
       BitsOwned, WritePcs, UpgradePcs, SharedPcs
  <2> QED
    BY <1>a, <2>1, <2>2, <2>3, WordFollowsKeeps, Zenon DEF IInv
<1>22. ASSUME lck_rw_done_gen_drop(t) PROVE IInv'
  <2>1. WordFollows(t, pc'[t])
    BY <1>a, <1>22, Zenon DEF lck_rw_done_gen_drop, WordFollows, Follows, TypeOK, Word, Pcs,
       SharedPcs, WritePcs, UpgradePcs, IlkPcs, Goto, BitsOwned, HoldsExclude, ExclPcs
  <2>2. TypeOK'
    BY <1>a, <1>22 DEF lck_rw_done_gen_drop, TypeOK, Word, FreeWord, Pcs,
       SharedPcs, WritePcs, UpgradePcs, IlkPcs, Events, Goto
  <2>3. HoldsExclude'
    BY <1>a, <1>22, Zenon DEF lck_rw_done_gen_drop, TypeOK, Word, HoldsExclude, ExclPcs, Goto,
       BitsOwned, WritePcs, UpgradePcs, SharedPcs
  <2> QED
    BY <1>a, <2>1, <2>2, <2>3, WordFollowsKeeps, Zenon DEF IInv
<1>23. ASSUME lck_rw_clear_promotion(t) PROVE IInv'
  <2>1. WordFollows(t, pc'[t])
    BY <1>a, <1>23 DEF lck_rw_clear_promotion, WordFollows, Follows, TypeOK, Word, Pcs,
       SharedPcs, WritePcs, UpgradePcs, IlkPcs, Goto, BitsOwned, HoldsExclude, ExclPcs
  <2>2. TypeOK'
    BY <1>a, <1>23, Zenon DEF lck_rw_clear_promotion, TypeOK, Word, FreeWord, Pcs,
       SharedPcs, WritePcs, UpgradePcs, IlkPcs, Events, Goto
  <2>3. HoldsExclude'
    BY <1>a, <1>23 DEF lck_rw_clear_promotion, TypeOK, Word, HoldsExclude, ExclPcs, Goto,
       BitsOwned, WritePcs, UpgradePcs, SharedPcs
  <2> QED
    BY <1>a, <2>1, <2>2, <2>3, WordFollowsKeeps, Zenon DEF IInv
<1>24. ASSUME lck_rw_lock_shared(t) PROVE IInv'
  <2>1. WordFollows(t, pc'[t])
    BY <1>a, <1>24 DEF lck_rw_lock_shared, WordFollows, Follows, TypeOK, Word, Pcs,
       SharedPcs, WritePcs, UpgradePcs, IlkPcs, Goto, BitsOwned, HoldsExclude, ExclPcs
  <2>2. TypeOK'
    BY <1>a, <1>24 DEF lck_rw_lock_shared, TypeOK, Word, FreeWord, Pcs,
       SharedPcs, WritePcs, UpgradePcs, IlkPcs, Events, Goto
  <2>3. HoldsExclude'
    BY <1>a, <1>24 DEF lck_rw_lock_shared, TypeOK, Word, HoldsExclude, ExclPcs, Goto,
       BitsOwned, WritePcs, UpgradePcs, SharedPcs
  <2> QED
    BY <1>a, <2>1, <2>2, <2>3, WordFollowsKeeps, Zenon DEF IInv
<1>25. ASSUME lck_rw_try_lock_shared(t) PROVE IInv'
  <2>1. /\ lck' \in Word
        /\ lck'.shared_count = lck.shared_count + 1
        /\ lck'.interlock = lck.interlock
        /\ lck'.want_upgrade = lck.want_upgrade
        /\ lck'.want_write = lck.want_write
    BY <1>c, <1>25, AddReaderWord, Zenon DEF lck_rw_try_lock_shared
  <2>2. pc[t] = "idle" /\ Goto(t, "tryShared")
    BY <1>25, Zenon DEF lck_rw_try_lock_shared
  <2>3. WordFollows(t, "tryShared")
    BY <1>a, <1>25, <2>1, <2>2 DEF lck_rw_try_lock_shared, WordFollows, Follows, BitsOwned,
       Pcs, SharedPcs, WritePcs, UpgradePcs, IlkPcs
  <2>4. TypeOK'
    BY <1>a, <1>25, <2>1, <2>2 DEF lck_rw_try_lock_shared, TypeOK, Goto, Events,
       Pcs, SharedPcs, WritePcs, UpgradePcs, IlkPcs
  <2>5. HoldsExclude'
    BY <1>a, <1>25, <2>1, <2>2 DEF lck_rw_try_lock_shared, TypeOK, Goto, HoldsExclude, BitsOwned,
       ExclPcs, WritePcs, UpgradePcs
  <2> QED
    BY <1>a, <2>3, <2>4, <2>5, WordFollowsKeeps, Zenon DEF IInv
<1>26. ASSUME lck_rw_lock_exclusive(t) PROVE IInv'
  <2>1. WordFollows(t, pc'[t])
    BY <1>a, <1>26 DEF lck_rw_lock_exclusive, WordFollows, Follows, TypeOK, Word, Pcs,
       SharedPcs, WritePcs, UpgradePcs, IlkPcs, Goto, BitsOwned, HoldsExclude, ExclPcs
  <2>2. TypeOK'
    BY <1>a, <1>26 DEF lck_rw_lock_exclusive, TypeOK, Word, FreeWord, Pcs,
       SharedPcs, WritePcs, UpgradePcs, IlkPcs, Events, Goto
  <2>3. HoldsExclude'
    BY <1>a, <1>26 DEF lck_rw_lock_exclusive, TypeOK, Word, HoldsExclude, ExclPcs, Goto,
       BitsOwned, WritePcs, UpgradePcs, SharedPcs
  <2> QED
    BY <1>a, <2>1, <2>2, <2>3, WordFollowsKeeps, Zenon DEF IInv
<1>27. ASSUME lck_rw_try_lock_exclusive(t) PROVE IInv'
  <2>1. /\ lck' \in Word
        /\ lck'.shared_count = lck.shared_count
        /\ lck'.interlock = lck.interlock
        /\ lck'.want_upgrade = lck.want_upgrade
        /\ lck'.want_write = TRUE
    BY <1>c, <1>27, SetWantWriteWord, ZenonT(60) DEF lck_rw_try_lock_exclusive
  <2>2. pc[t] = "idle" /\ Goto(t, "tryExcl")
    BY <1>27, Zenon DEF lck_rw_try_lock_exclusive
  <2>3. WordFollows(t, "tryExcl")
    BY <1>a, <1>27, <2>1, <2>2 DEF lck_rw_try_lock_exclusive, WordFollows, Follows, BitsOwned,
       Pcs, SharedPcs, WritePcs, UpgradePcs, IlkPcs
  <2>4. TypeOK'
    BY <1>a, <1>27, <2>1, <2>2 DEF lck_rw_try_lock_exclusive, TypeOK, Goto, Events,
       Pcs, SharedPcs, WritePcs, UpgradePcs, IlkPcs
  <2>5. HoldsExclude'
    BY <1>a, <1>27, <2>1, <2>2 DEF lck_rw_try_lock_exclusive, TypeOK, Goto, HoldsExclude, BitsOwned,
       ExclPcs, WritePcs, UpgradePcs
  <2> QED
    BY <1>a, <2>3, <2>4, <2>5, WordFollowsKeeps DEF IInv
<1>28. ASSUME lck_rw_lock_shared_to_exclusive(t) PROVE IInv'
  <2>1. WordFollows(t, pc'[t])
    BY <1>a, <1>28, <1>b, DropReaderWord, ZenonT(60) DEF lck_rw_lock_shared_to_exclusive,
       WordFollows, Follows, TypeOK, Word, Pcs,
       SharedPcs, WritePcs, UpgradePcs, IlkPcs, Goto, BitsOwned, HoldsExclude, ExclPcs
  <2>2. TypeOK'
    BY <1>a, <1>28, <1>b, DropReaderWord, ZenonT(60) DEF lck_rw_lock_shared_to_exclusive,
       TypeOK, Word, FreeWord, Pcs,
       SharedPcs, WritePcs, UpgradePcs, IlkPcs, Events, Goto
  <2>3. HoldsExclude'
    BY <1>a, <1>28, <1>b, DropReaderWord DEF lck_rw_lock_shared_to_exclusive, TypeOK, Word,
       HoldsExclude, ExclPcs, Goto,
       BitsOwned, WritePcs, UpgradePcs, SharedPcs
  <2> QED
    BY <1>a, <2>1, <2>2, <2>3, WordFollowsKeeps, Zenon DEF IInv
<1>29. ASSUME lck_rw_lock_shared_to_exclusive_lose(t) PROVE IInv'
  <2>1. WordFollows(t, pc'[t])
    BY <1>a, <1>29, <1>b, DropReaderWord DEF lck_rw_lock_shared_to_exclusive_lose,
       WordFollows, Follows, TypeOK, Word, Pcs,
       SharedPcs, WritePcs, UpgradePcs, IlkPcs, Goto, BitsOwned, HoldsExclude, ExclPcs
  <2>2. TypeOK'
    BY <1>a, <1>d, <1>29, <1>b, DropReaderWord DEF lck_rw_lock_shared_to_exclusive_lose,
       TypeOK, Word, FreeWord, Pcs,
       SharedPcs, WritePcs, UpgradePcs, IlkPcs, Events, Goto
  <2>3. HoldsExclude'
    BY <1>a, <1>29, <1>b, DropReaderWord DEF lck_rw_lock_shared_to_exclusive_lose, TypeOK,
       Word, HoldsExclude, ExclPcs, Goto,
       BitsOwned, WritePcs, UpgradePcs, SharedPcs
  <2> QED
    BY <1>a, <2>1, <2>2, <2>3, WordFollowsKeeps, Zenon DEF IInv
<1>30. ASSUME lck_rw_lock_exclusive_to_shared(t) PROVE IInv'
  <2>1. /\ lck' \in Word
      /\ lck'.shared_count = lck.shared_count + 1
      /\ lck'.interlock = lck.interlock
      /\ lck'.want_upgrade = FALSE
      /\ lck'.want_write = (lck.want_write /\ lck.want_upgrade)
    BY <1>c, <1>30, DowngradedWord, ZenonT(60) DEF lck_rw_lock_exclusive_to_shared
  <2>2. pc[t] \in {"exclW", "exclU"} /\ Goto(t, "downWake")
    BY <1>30 DEF lck_rw_lock_exclusive_to_shared
  <2>3. WordFollows(t, "downWake")
    <3>1. CASE pc[t] = "exclU"
      BY <1>a, <2>1, <2>2, <3>1, ZenonT(60) DEF WordFollows, Follows, BitsOwned,
         Pcs, SharedPcs, WritePcs, UpgradePcs, IlkPcs
    <3>2. CASE pc[t] = "exclW"
      BY <1>a, <2>1, <2>2, <3>2, ZenonT(60) DEF WordFollows, Follows, BitsOwned, HoldsExclude,
         Pcs, SharedPcs, WritePcs, UpgradePcs, IlkPcs
    <3> QED
      BY <2>2, <3>1, <3>2
  <2>4. TypeOK'
    BY <1>a, <1>d, <1>30, <2>1, <2>2 DEF lck_rw_lock_exclusive_to_shared, TypeOK, Goto,
       Pcs, SharedPcs, WritePcs, UpgradePcs, IlkPcs
  <2>5. HoldsExclude'
    <3>1. \A u \in Threads : u # t => pc[u] \notin ExclPcs
      BY <1>a, <2>2 DEF HoldsExclude, BitsOwned, AtMostOne, ExclPcs, WritePcs, UpgradePcs
    <3>2. waiting' = waiting /\ \A u \in Threads : pc'[u] = IF u = t THEN "downWake" ELSE pc[u]
      BY <1>a, <1>30, <2>2, Zenon DEF lck_rw_lock_exclusive_to_shared, Goto, TypeOK
    <3>3. waiting[t] = "none"
      BY <1>a, <2>2 DEF HoldsExclude, TypeOK, Events
    <3>4. \A u \in Threads : pc'[u] \notin ExclPcs
      BY <3>1, <3>2 DEF ExclPcs
    <3>5. ASSUME NEW u \in Threads
          PROVE /\ waiting'[u] = "writer" => pc'[u] \in {"exWant", "exDrain", "upDrain"}
                /\ waiting'[u] = "reader" => pc'[u] = "shSlow"
      BY <1>a, <3>2, <3>3 DEF HoldsExclude
    <3> QED
      BY <3>4, <3>5 DEF HoldsExclude, ExclPcs
  <2> QED
    BY <1>a, <2>3, <2>4, <2>5, WordFollowsKeeps, Zenon DEF IInv
<1>31. ASSUME lck_rw_done(t) PROVE IInv'
  <2>1. lck' = Released(lck) /\ lck' \in Word /\ lck'.interlock = lck.interlock
    BY <1>c, <1>31, ReleasedWord, ZenonT(60) DEF lck_rw_done
  <2>2. pc[t] \in {"shared", "exclW", "exclU"} /\ Goto(t, "wakeW")
    BY <1>31, Zenon DEF lck_rw_done
  <2>3. WordFollows(t, "wakeW")
    <3>1. CASE pc[t] = "shared"
      <4>1. /\ lck'.shared_count = lck.shared_count - 1
            /\ lck'.want_upgrade = lck.want_upgrade
            /\ lck'.want_write = lck.want_write
        BY <1>b, <1>c, <2>1, <3>1, ReleasedWord, ZenonT(60) DEF SharedPcs
      <4> QED
        BY <1>a, <2>1, <2>2, <3>1, <4>1 DEF WordFollows, Follows, BitsOwned,
           Pcs, SharedPcs, WritePcs, UpgradePcs, IlkPcs
    <3>2. CASE pc[t] \in {"exclW", "exclU"}
      <4>1. lck.shared_count = 0
        BY <1>a, <3>2 DEF HoldsExclude, ExclPcs
      <4>2. /\ lck'.shared_count = 0
            /\ lck'.want_upgrade = FALSE
            /\ lck'.want_write = (lck.want_write /\ lck.want_upgrade)
        BY <1>c, <2>1, <4>1, ReleasedWord, ZenonT(60)
      <4>3. CASE pc[t] = "exclW"
        BY <1>a, <2>1, <2>2, <4>1, <4>2, <4>3, ZenonT(60) DEF WordFollows, Follows,
           BitsOwned, HoldsExclude,
           Pcs, SharedPcs, WritePcs, UpgradePcs, IlkPcs
      <4>4. CASE pc[t] = "exclU"
        BY <1>a, <2>1, <2>2, <4>1, <4>2, <4>4, ZenonT(60) DEF WordFollows, Follows, BitsOwned,
           Pcs, SharedPcs, WritePcs, UpgradePcs, IlkPcs
      <4> QED
        BY <3>2, <4>3, <4>4
    <3> QED
      BY <2>2, <3>1, <3>2
  <2>4. TypeOK'
    BY <1>a, <1>d, <1>31, <2>1, <2>2 DEF lck_rw_done, TypeOK, Goto,
       Pcs, SharedPcs, WritePcs, UpgradePcs, IlkPcs
  <2>5. HoldsExclude'
    BY <1>a, <1>b, <1>31, ReleasedWord, ZenonT(60) DEF lck_rw_done, TypeOK, Word,
       HoldsExclude, ExclPcs, Goto,
       BitsOwned, WritePcs, UpgradePcs, SharedPcs
  <2> QED
    BY <1>a, <2>3, <2>4, <2>5, WordFollowsKeeps DEF IInv
<1> QED
  BY <1>1, <1>2, <1>3, <1>4, <1>5, <1>6, <1>7, <1>8, <1>9, <1>10, <1>11, <1>12, <1>13, <1>14,
     <1>15, <1>16, <1>17, <1>18, <1>19, <1>20, <1>21, <1>22, <1>23, <1>24, <1>25, <1>26,
     <1>27, <1>28, <1>29, <1>30, <1>31 DEF Continue, Request

-----------------------------------------------------------------------------

\* The invariant holds of the lock however its threads are scheduled.
THEOREM Invariance == Spec => []IInv
<1>1. IInv /\ [Next]_vars => IInv'
  <2> SUFFICES ASSUME IInv, [Next]_vars PROVE IInv'
    BY Zenon
  <2>1. ASSUME NEW t \in Threads, Continue(t) \/ Request(t) PROVE IInv'
    BY <2>1, StepIInv, Zenon
  <2>2. ASSUME NEW t \in Threads, thread_dispatch(t) PROVE IInv'
    BY <2>2, Zenon DEF thread_dispatch, IInv, TypeOK, SharedCountExact, Readers, BitsOwned,
       AtMostOne,
       HoldsExclude
  <2>3. CASE UNCHANGED vars
    BY <2>3, Zenon DEF vars, IInv, TypeOK, SharedCountExact, Readers, BitsOwned, AtMostOne,
       HoldsExclude
  <2> QED
    BY <2>1, <2>2, <2>3, Zenon DEF Next
<1> QED
  BY <1>1, InitIInv, PTL DEF Spec

\* The lock's variables keep their types; in particular the count of readers
\* never goes below zero.
THEOREM TypeCorrect == Spec => []TypeOK
<1>1. IInv => TypeOK
  BY Zenon DEF IInv
<1> QED
  BY <1>1, Invariance, PTL

\* A thread with an exclusive hold leaves every other thread without a hold.
LEMMA ExclusiveAlone ==
    ASSUME IInv, NEW t \in Threads, NEW u \in Threads, pc[t] \in ExclPcs, u # t
    PROVE  pc[u] \notin ExclPcs \cup SharedPcs \cup {"upDrain", "upDrainIlk"}
<1>1. lck.shared_count = 0
  BY Zenon DEF IInv, HoldsExclude
<1>2. pc[u] \notin SharedPcs
  BY <1>1, ReadersFinite, Zenon DEF IInv, SharedCountExact, Readers
<1>3. CASE pc[t] = "exclU"
  <2>1. pc[u] \notin UpgradePcs
    BY <1>3, Zenon DEF IInv, BitsOwned, AtMostOne, UpgradePcs
  <2>2. lck.want_upgrade
    BY <1>3, Zenon DEF IInv, BitsOwned, UpgradePcs
  <2>3. pc[u] \notin {"exclW", "tryExcl"}
    BY <2>2, Zenon DEF IInv, HoldsExclude
  <2> QED
    BY <1>2, <2>1, <2>3, Zenon DEF ExclPcs, UpgradePcs
<1>4. CASE pc[t] \in {"exclW", "tryExcl"}
  <2>1. pc[u] \notin WritePcs
    BY <1>4, Zenon DEF IInv, BitsOwned, AtMostOne, WritePcs
  <2>2. ~lck.want_upgrade
    BY <1>4, Zenon DEF IInv, HoldsExclude
  <2>3. pc[u] \notin UpgradePcs
    BY <2>2, Zenon DEF IInv, BitsOwned
  <2> QED
    BY <1>2, <2>1, <2>3, Zenon DEF ExclPcs, UpgradePcs, WritePcs
<1> QED
  BY <1>3, <1>4, Zenon DEF ExclPcs

\* Mutual exclusion: a thread that was told it holds the lock exclusively is
\* alone, for any number of threads and whichever side has privilege.
THEOREM ExclusionHolds == Spec => []Exclusion
<1>1. IInv => Exclusion
  BY ExclusiveAlone, Zenon DEF Exclusion
<1> QED
  BY <1>1, Invariance, PTL

\* lck_rw_done always finds in the word the kind of hold its caller has, so
\* none of the panics of the release path is reached.
THEOREM ReleaseSafe == Spec => []ReleaseFindsItsHold
<1>1. IInv => ReleaseFindsItsHold
  <2> SUFFICES ASSUME IInv, NEW t \in Threads
               PROVE /\ pc[t] = "shared" => lck.shared_count # 0
                     /\ pc[t] = "exclW" =>
                          lck.shared_count = 0 /\ lck.want_write /\ ~lck.want_upgrade
                     /\ pc[t] = "exclU" => lck.shared_count = 0 /\ lck.want_upgrade
    BY Zenon DEF ReleaseFindsItsHold
  <2>1. pc[t] = "shared" => lck.shared_count # 0
    BY ReadersFinite, Zenon DEF IInv, SharedCountExact, Readers, SharedPcs
  <2>2. pc[t] = "exclW" => lck.shared_count = 0 /\ lck.want_write /\ ~lck.want_upgrade
    BY Zenon DEF IInv, HoldsExclude, BitsOwned, ExclPcs, WritePcs
  <2>3. pc[t] = "exclU" => lck.shared_count = 0 /\ lck.want_upgrade
    BY Zenon DEF IInv, HoldsExclude, BitsOwned, ExclPcs, UpgradePcs
  <2> QED
    BY <2>1, <2>2, <2>3, Zenon
<1> QED
  BY <1>1, Invariance, PTL

-----------------------------------------------------------------------------
(* RWLock implements the abstract lock of SharedExclusive: every step of a  *)
(* thread is a step of the abstract lock or invisible to its users.         *)

\* A step that sends one thread to another program point changes the abstract
\* mode of that thread and of no other.
LEMMA ModeMove ==
    ASSUME TypeOK, NEW t \in Threads, NEW p, Goto(t, p)
    PROVE  /\ ModeMap[t] = ModeOf(pc[t])
           /\ ModeMap' = [ModeMap EXCEPT ![t] = ModeOf(p)]
           /\ ModeOf(p) = ModeOf(pc[t]) => ModeMap' = ModeMap
  BY ZenonT(60) DEF TypeOK, Goto, ModeMap

\* While the word shows a reader, or no want bit, nobody is exclusive.
LEMMA NobodyExclusive ==
    ASSUME IInv, lck.shared_count # 0 \/ ~Held(lck)
    PROVE  \A u \in Threads : ModeMap[u] \in {"none", "shared", "upgrading"}
<1>1. ASSUME NEW u \in Threads PROVE pc[u] \notin ExclPcs
  BY Zenon DEF IInv, HoldsExclude, BitsOwned, Held, ExclPcs, WritePcs, UpgradePcs
<1> QED
  BY <1>1, Zenon DEF ModeMap, ModeOf

\* With no reader and no upgrade in the word, only an owner of want_write can
\* have a hold.
LEMMA OthersNone ==
    ASSUME IInv, NEW t \in Threads, lck.shared_count = 0,
           \A u \in Threads : u # t => pc[u] \notin UpgradePcs /\ pc[u] \notin {"exclW", "tryExcl"}
    PROVE  \A u \in Threads \ {t} : ModeMap[u] \in {"none"}
<1>1. \A u \in Threads : pc[u] \notin SharedPcs
  BY ReadersFinite, Zenon DEF IInv, SharedCountExact, Readers
<1> QED
  BY <1>1, Zenon DEF ModeMap, ModeOf, ExclPcs, UpgradePcs

\* Each step of a thread is a step of the abstract lock or changes no mode.
LEMMA StepRefines ==
    ASSUME IInv, NEW t \in Threads, Continue(t) \/ Request(t)
    PROVE  SE!SE_Next \/ ModeMap' = ModeMap
<1>a. TypeOK /\ BitsOwned /\ HoldsExclude
  BY Zenon DEF IInv
<1>b. pc[t] \in SharedPcs => lck.shared_count # 0
  BY ReadersFinite, Zenon DEF IInv, SharedCountExact, Readers
<1>c. ASSUME Goto(t, "shared") \/ Goto(t, "tryShared"), ModeOf(pc[t]) = "none",
             lck.shared_count # 0 \/ ~Held(lck)
      PROVE  SE!SE_Next
  <2>1. ModeMap[t] = "none" /\ ModeMap' = [ModeMap EXCEPT ![t] = "shared"]
    BY <1>a, <1>c, ModeMove, Zenon DEF ModeOf, SharedPcs
  <2>2. SE!AcquireShared(t)
    BY <1>c, <2>1, NobodyExclusive, Zenon DEF SE!AcquireShared, SE!OthersIn, SE!SE_Set
  <2> QED
    BY <2>2, Zenon DEF SE!SE_Next
<1>d. ASSUME NEW p \in ExclPcs, Goto(t, p), ModeOf(pc[t]) = "none",
             lck.shared_count = 0, ~lck.want_upgrade,
             ~lck.want_write \/ pc[t] \in WritePcs
      PROVE  SE!SE_Next
  <2>1. ModeMap[t] = "none" /\ ModeMap' = [ModeMap EXCEPT ![t] = "exclusive"]
    BY <1>a, <1>d, ModeMove, Zenon DEF ModeOf, ExclPcs, SharedPcs
  <2>2. \A u \in Threads : u # t => pc[u] \notin UpgradePcs /\ pc[u] \notin {"exclW", "tryExcl"}
    BY <1>a, <1>d, Zenon DEF BitsOwned, AtMostOne, WritePcs
  <2>3. SE!AcquireExclusive(t)
    BY <1>d, <2>1, <2>2, OthersNone, Zenon DEF SE!AcquireExclusive, SE!OthersIn, SE!SE_Set
  <2> QED
    BY <2>3, Zenon DEF SE!SE_Next
<1>e. ASSUME pc[t] \in {"upDrain", "upDrainIlk"}, Goto(t, "exclU"), lck.shared_count = 0
      PROVE  SE!SE_Next
  <2>1. ModeMap[t] = "upgrading" /\ ModeMap' = [ModeMap EXCEPT ![t] = "exclusive"]
    BY <1>a, <1>e, ModeMove, Zenon DEF ModeOf, ExclPcs, SharedPcs
  <2>2. \A u \in Threads : u # t => pc[u] \notin UpgradePcs /\ pc[u] \notin {"exclW", "tryExcl"}
    BY <1>a, <1>e, Zenon DEF BitsOwned, AtMostOne, HoldsExclude, UpgradePcs
  <2>3. SE!FinishUpgrade(t)
    BY <1>e, <2>1, <2>2, OthersNone, Zenon DEF SE!FinishUpgrade, SE!OthersIn, SE!SE_Set
  <2> QED
    BY <2>3, Zenon DEF SE!SE_Next
<1> USE DEF At, TakeInterlock, SleepOn, Store, StoreKeepPrior, Count
<1>1. ASSUME lck_rw_lock_shared_fast(t) PROVE SE!SE_Next \/ ModeMap' = ModeMap
  <2>1. CASE lck.interlock \/ Held(lck)
    BY <1>a, <1>1, <2>1, ModeMove DEF lck_rw_lock_shared_fast, ModeOf, SharedPcs, ExclPcs
  <2>2. CASE ~(lck.interlock \/ Held(lck))
    BY <1>c, <1>1, <2>2, Zenon DEF lck_rw_lock_shared_fast, ModeOf, SharedPcs, ExclPcs
  <2> QED
    BY <2>1, <2>2, Zenon
<1>2. ASSUME lck_rw_grab_shared(t) PROVE SE!SE_Next \/ ModeMap' = ModeMap
  BY <1>c, <1>2, Zenon DEF lck_rw_grab_shared, ModeOf, SharedPcs, ExclPcs
<1>3. ASSUME lck_rw_lock_shared_deadline(t) PROVE SE!SE_Next \/ ModeMap' = ModeMap
  BY <1>a, <1>3, ModeMove DEF lck_rw_lock_shared_deadline, ModeOf, SharedPcs, ExclPcs
<1>4. ASSUME lck_rw_lock_shared_gen(t) PROVE SE!SE_Next \/ ModeMap' = ModeMap
  <2>1. CASE Held(lck) /\ (lck.shared_count = 0 \/ priv_excl)
    BY <1>a, <1>4, <2>1, ModeMove DEF lck_rw_lock_shared_gen, ModeOf, SharedPcs, ExclPcs
  <2>2. CASE ~(Held(lck) /\ (lck.shared_count = 0 \/ priv_excl))
    BY <1>c, <1>4, <2>2, Zenon DEF lck_rw_lock_shared_gen, ModeOf, SharedPcs, ExclPcs
  <2> QED
    BY <2>1, <2>2, Zenon
<1>5. ASSUME lck_rw_try_lock_shared_count(t) PROVE SE!SE_Next \/ ModeMap' = ModeMap
  BY <1>a, <1>5, ModeMove, Zenon DEF lck_rw_try_lock_shared_count, ModeOf, SharedPcs, ExclPcs
<1>6. ASSUME lck_rw_lock_exclusive_fast(t) PROVE SE!SE_Next \/ ModeMap' = ModeMap
  <2>1. CASE lck.interlock \/ Held(lck) \/ lck.shared_count # 0
    BY <1>a, <1>6, <2>1, ModeMove DEF lck_rw_lock_exclusive_fast, ModeOf, SharedPcs, ExclPcs
  <2>2. CASE ~(lck.interlock \/ Held(lck) \/ lck.shared_count # 0)
    BY <1>d, <1>6, <2>2, Zenon DEF lck_rw_lock_exclusive_fast, Held, ModeOf, SharedPcs, ExclPcs
  <2> QED
    BY <2>1, <2>2, Zenon
<1>7. ASSUME lck_rw_grab_want(t) PROVE SE!SE_Next \/ ModeMap' = ModeMap
  BY <1>a, <1>7, ModeMove DEF lck_rw_grab_want, ModeOf, SharedPcs, ExclPcs
<1>8. ASSUME lck_rw_lock_exclusive_want_deadline(t) PROVE SE!SE_Next \/ ModeMap' = ModeMap
  BY <1>a, <1>8, ModeMove DEF lck_rw_lock_exclusive_want_deadline, ModeOf, SharedPcs, ExclPcs
<1>9. ASSUME lck_rw_lock_exclusive_want(t) PROVE SE!SE_Next \/ ModeMap' = ModeMap
  BY <1>a, <1>9, ModeMove DEF lck_rw_lock_exclusive_want, ModeOf, SharedPcs, ExclPcs
<1>10. ASSUME lck_rw_held_read_or_upgrade(t) PROVE SE!SE_Next \/ ModeMap' = ModeMap
  BY <1>d, <1>10, Zenon DEF lck_rw_held_read_or_upgrade, ModeOf, SharedPcs, ExclPcs, WritePcs
<1>11. ASSUME lck_rw_lock_exclusive_drain_deadline(t) PROVE SE!SE_Next \/ ModeMap' = ModeMap
  BY <1>a, <1>11, ModeMove DEF lck_rw_lock_exclusive_drain_deadline, ModeOf, SharedPcs, ExclPcs
<1>12. ASSUME lck_rw_lock_exclusive_drain(t) PROVE SE!SE_Next \/ ModeMap' = ModeMap
  <2>1. CASE lck.shared_count # 0 \/ lck.want_upgrade
    BY <1>a, <1>12, <2>1, ModeMove DEF lck_rw_lock_exclusive_drain, ModeOf, SharedPcs, ExclPcs
  <2>2. CASE ~(lck.shared_count # 0 \/ lck.want_upgrade)
    BY <1>d, <1>12, <2>2, Zenon DEF lck_rw_lock_exclusive_drain, ModeOf, SharedPcs,
       ExclPcs, WritePcs
  <2> QED
    BY <2>1, <2>2, Zenon
<1>13. ASSUME lck_rw_try_lock_exclusive_count(t) PROVE SE!SE_Next \/ ModeMap' = ModeMap
  BY <1>a, <1>13, ModeMove DEF lck_rw_try_lock_exclusive_count, ModeOf, SharedPcs, ExclPcs
<1>14. ASSUME lck_rw_upgrade_drained(t) PROVE SE!SE_Next \/ ModeMap' = ModeMap
  BY <1>e, <1>14 DEF lck_rw_upgrade_drained
<1>15. ASSUME lck_rw_upgrade_deadline(t) PROVE SE!SE_Next \/ ModeMap' = ModeMap
  BY <1>a, <1>15, ModeMove DEF lck_rw_upgrade_deadline, ModeOf, SharedPcs, ExclPcs
<1>16. ASSUME lck_rw_lock_shared_to_exclusive_success(t) PROVE SE!SE_Next \/ ModeMap' = ModeMap
  <2>1. CASE lck.shared_count # 0
    BY <1>a, <1>16, <2>1, ModeMove DEF lck_rw_lock_shared_to_exclusive_success, ModeOf,
       SharedPcs, ExclPcs
  <2>2. CASE lck.shared_count = 0
    BY <1>e, <1>16, <2>2 DEF lck_rw_lock_shared_to_exclusive_success
  <2> QED
    BY <2>1, <2>2, Zenon
<1>17. ASSUME lck_rw_upgrade_failure_drop(t) PROVE SE!SE_Next \/ ModeMap' = ModeMap
  BY <1>a, <1>17, ModeMove DEF lck_rw_upgrade_failure_drop, ModeOf, SharedPcs, ExclPcs
<1>18. ASSUME lck_rw_lock_shared_to_exclusive_failure(t) PROVE SE!SE_Next \/ ModeMap' = ModeMap
  BY <1>a, <1>18, ModeMove DEF lck_rw_lock_shared_to_exclusive_failure, ModeOf, SharedPcs, ExclPcs
<1>19. ASSUME lck_rw_lock_exclusive_to_shared_gen(t) PROVE SE!SE_Next \/ ModeMap' = ModeMap
  BY <1>a, <1>19, ModeMove DEF lck_rw_lock_exclusive_to_shared_gen, ModeOf, SharedPcs, ExclPcs
<1>20. ASSUME lck_rw_done_gen_writers(t) PROVE SE!SE_Next \/ ModeMap' = ModeMap
  BY <1>a, <1>20, ModeMove DEF lck_rw_done_gen_writers, ModeOf, SharedPcs, ExclPcs
<1>21. ASSUME lck_rw_done_gen_readers(t) PROVE SE!SE_Next \/ ModeMap' = ModeMap
  BY <1>a, <1>21, ModeMove DEF lck_rw_done_gen_readers, ModeOf, SharedPcs, ExclPcs
<1>22. ASSUME lck_rw_done_gen_drop(t) PROVE SE!SE_Next \/ ModeMap' = ModeMap
  BY <1>a, <1>22, ModeMove DEF lck_rw_done_gen_drop, ModeOf, SharedPcs, ExclPcs
<1>23. ASSUME lck_rw_clear_promotion(t) PROVE SE!SE_Next \/ ModeMap' = ModeMap
  BY <1>a, <1>23, ModeMove DEF lck_rw_clear_promotion, ModeOf, SharedPcs, ExclPcs
<1>24. ASSUME lck_rw_lock_shared(t) PROVE SE!SE_Next \/ ModeMap' = ModeMap
  BY <1>a, <1>24, ModeMove DEF lck_rw_lock_shared, ModeOf, SharedPcs, ExclPcs
<1>25. ASSUME lck_rw_try_lock_shared(t) PROVE SE!SE_Next \/ ModeMap' = ModeMap
  BY <1>c, <1>25 DEF lck_rw_try_lock_shared, ModeOf, SharedPcs, ExclPcs
<1>26. ASSUME lck_rw_lock_exclusive(t) PROVE SE!SE_Next \/ ModeMap' = ModeMap
  BY <1>a, <1>26, ModeMove DEF lck_rw_lock_exclusive, ModeOf, SharedPcs, ExclPcs
<1>27. ASSUME lck_rw_try_lock_exclusive(t) PROVE SE!SE_Next \/ ModeMap' = ModeMap
  BY <1>d, <1>27 DEF lck_rw_try_lock_exclusive, Held, ModeOf, SharedPcs, ExclPcs
<1>28. ASSUME lck_rw_lock_shared_to_exclusive(t) PROVE SE!SE_Next \/ ModeMap' = ModeMap
  <2>1. ModeMap[t] = "shared" /\ lck.shared_count # 0
    BY <1>a, <1>b, <1>28 DEF lck_rw_lock_shared_to_exclusive, ModeMap, ModeOf, SharedPcs
  <2>2. \A u \in Threads : pc[u] \notin UpgradePcs
    BY <1>a, <1>28 DEF lck_rw_lock_shared_to_exclusive, BitsOwned
  <2>3. CASE lck.shared_count = 1
    <3>1. ModeMap' = [ModeMap EXCEPT ![t] = "exclusive"]
      BY <1>a, <1>28, <2>3, ModeMove DEF lck_rw_lock_shared_to_exclusive, ModeOf, SharedPcs, ExclPcs
    <3>2. \A u \in Threads \ {t} : pc[u] \notin SharedPcs
      <4>1. t \in Readers /\ IsFiniteSet(Readers) /\ Cardinality(Readers) = 1
        BY <1>28, <2>3, ReadersFinite DEF IInv, SharedCountExact, Readers,
           lck_rw_lock_shared_to_exclusive, SharedPcs
      <4>2. Cardinality(Readers \ {t}) = 0 /\ IsFiniteSet(Readers \ {t})
        BY <4>1, FS_RemoveElement
      <4>3. Readers \ {t} = {}
        BY <4>2, FS_EmptySet, Zenon
      <4> QED
        BY <4>3 DEF Readers
    <3>3. \A u \in Threads : pc[u] \notin ExclPcs
      BY <1>a, <2>1 DEF HoldsExclude
    <3>4. \A u \in Threads \ {t} : ModeMap[u] \in {"none"}
      BY <2>2, <3>2, <3>3 DEF ModeMap, ModeOf, UpgradePcs
    <3>5. SE!FinishUpgrade(t)
      BY <2>1, <3>1, <3>4 DEF SE!FinishUpgrade, SE!OthersIn, SE!SE_Set
    <3> QED
      BY <3>5 DEF SE!SE_Next
  <2>4. CASE lck.shared_count # 1
    <3>1. ModeMap' = [ModeMap EXCEPT ![t] = "upgrading"]
      BY <1>a, <1>28, <2>4, ModeMove DEF lck_rw_lock_shared_to_exclusive, ModeOf, SharedPcs, ExclPcs
    <3>2. \A u \in Threads \ {t} : ModeMap[u] \in {"none", "shared"}
      BY <1>a, <2>1, <2>2 DEF ModeMap, ModeOf, UpgradePcs, HoldsExclude
    <3>3. SE!BeginUpgrade(t)
      BY <2>1, <3>1, <3>2 DEF SE!BeginUpgrade, SE!OthersIn, SE!SE_Set
    <3> QED
      BY <3>3 DEF SE!SE_Next
  <2> QED
    BY <2>3, <2>4
<1>29. ASSUME lck_rw_lock_shared_to_exclusive_lose(t) PROVE SE!SE_Next \/ ModeMap' = ModeMap
  <2>1. ModeMap[t] = "shared" /\ ModeMap' = [ModeMap EXCEPT ![t] = "none"]
    BY <1>a, <1>29, ModeMove DEF lck_rw_lock_shared_to_exclusive_lose, ModeOf, SharedPcs, ExclPcs
  <2>2. PICK u \in Threads : pc[u] \in UpgradePcs
    BY <1>a, <1>29 DEF lck_rw_lock_shared_to_exclusive_lose, BitsOwned
  <2>3. u # t /\ ModeMap[u] = "upgrading"
    BY <1>a, <1>b, <1>29, <2>2 DEF lck_rw_lock_shared_to_exclusive_lose, HoldsExclude,
       ModeMap, ModeOf, UpgradePcs, SharedPcs, ExclPcs
  <2>4. SE!RefuseUpgrade(t)
    BY <2>1, <2>3 DEF SE!RefuseUpgrade, SE!SE_Set
  <2> QED
    BY <2>4 DEF SE!SE_Next
<1>30. ASSUME lck_rw_lock_exclusive_to_shared(t) PROVE SE!SE_Next \/ ModeMap' = ModeMap
  <2>1. ModeMap[t] = "exclusive" /\ ModeMap' = [ModeMap EXCEPT ![t] = "shared"]
    BY <1>a, <1>30, ModeMove DEF lck_rw_lock_exclusive_to_shared, ModeOf, SharedPcs, ExclPcs
  <2>2. SE!Downgrade(t)
    BY <2>1 DEF SE!Downgrade, SE!SE_Set
  <2> QED
    BY <2>2 DEF SE!SE_Next
<1>31. ASSUME lck_rw_done(t) PROVE SE!SE_Next \/ ModeMap' = ModeMap
  <2>1. ModeMap[t] \in {"shared", "exclusive"} /\ ModeMap' = [ModeMap EXCEPT ![t] = "none"]
    BY <1>a, <1>31, ModeMove DEF lck_rw_done, ModeOf, SharedPcs, ExclPcs
  <2>2. SE!Release(t)
    BY <2>1 DEF SE!Release, SE!SE_Set
  <2> QED
    BY <2>2 DEF SE!SE_Next
<1> QED
  BY <1>1, <1>2, <1>3, <1>4, <1>5, <1>6, <1>7, <1>8, <1>9, <1>10, <1>11, <1>12, <1>13, <1>14,
     <1>15, <1>16, <1>17, <1>18, <1>19, <1>20, <1>21, <1>22, <1>23, <1>24, <1>25, <1>26,
     <1>27, <1>28, <1>29, <1>30, <1>31, SMTT(20) DEF Continue, Request

\* The lock implements the abstract shared / exclusive lock: in particular no
\* writer gets in between the read hold of a thread and its granted upgrade.
THEOREM Refinement == Spec => ImplementsSharedExclusive
<1>1. Init => SE!SE_Init
  BY Zenon DEF Init, SE!SE_Init, ModeMap, ModeOf, SharedPcs, ExclPcs
<1>2. IInv /\ [Next]_vars => [SE!SE_Next]_ModeMap
  <2> SUFFICES ASSUME IInv, [Next]_vars PROVE SE!SE_Next \/ ModeMap' = ModeMap
    BY Zenon
  <2>1. ASSUME NEW t \in Threads, Continue(t) \/ Request(t)
        PROVE SE!SE_Next \/ ModeMap' = ModeMap
    BY <2>1, StepRefines
  <2>2. ASSUME NEW t \in Threads, thread_dispatch(t) PROVE ModeMap' = ModeMap
    BY <2>2 DEF thread_dispatch, ModeMap
  <2>3. CASE UNCHANGED vars
    BY <2>3, Zenon DEF vars, ModeMap
  <2> QED
    BY <2>1, <2>2, <2>3 DEF Next
<1> QED
  BY <1>1, <1>2, Invariance, PTL DEF Spec, ImplementsSharedExclusive, SE!SE_Spec

-----------------------------------------------------------------------------
(* No wakeup of a writer or an upgrader is lost. *)

SleepingWriter == \E u \in Threads : waiting[u] = "writer"

\* What a step of thread t owes the sleeping writers: it leaves the others'
\* pending wakeups alone; if it was to wake the writers it still is or it has
\* done so; it puts a writer to sleep only in a held word with the waiting bit
\* set; and it gives up such a word only by taking on the wakeup.
KeepsWriters(t) ==
    /\ \A u \in Threads : u # t => pc'[u] = pc[u] /\ prior'[u] = prior[u]
    /\ WakesWriters(t) => WakesWriters(t)' \/ ~SleepingWriter'
    /\ \A u \in Threads : waiting'[u] = "writer" =>
          waiting[u] = "writer" \/ (lck'.w_waiting /\ Busy')
    /\ lck.w_waiting /\ Busy => (lck'.w_waiting /\ Busy') \/ WakesWriters(t)'

\* What it owes those that drain the readers: it puts one to sleep only with
\* something to drain; and if the bit is set it takes on the wakeup, or leaves a
\* reader, or the word as it is, or an upgrade that was not there, when nobody
\* can be draining for one.
KeepsDrainers(t) ==
    /\ \A u \in Threads : u # t /\ waiting'[u] = "writer" => waiting[u] = "writer"
    /\ waiting'[t] = "writer" => StillBlocked(t)' \/ pc'[t] = "exWant"
    /\ lck.w_waiting =>
         \/ WakesWriters(t)'
         \/ lck'.shared_count # 0
         \/ lck'.shared_count = lck.shared_count /\ lck'.want_upgrade = lck.want_upgrade
         \/ lck'.want_upgrade /\ ~lck.want_upgrade

\* A step of that kind forgets no sleeping writer.
LEMMA KeepsWritersSuffices ==
    ASSUME IInv, IInv', WritersNotForgotten, NEW t \in Threads, KeepsWriters(t), KeepsDrainers(t)
    PROVE  WritersNotForgotten'
<1> SUFFICES ASSUME NEW u \in Threads, waiting'[u] = "writer", \A v \in Threads : ~WakesWriters(v)'
             PROVE  lck'.w_waiting /\ StillBlocked(u)'
  BY Zenon DEF WritersNotForgotten
<1>1. SleepingWriter'
  BY Zenon DEF SleepingWriter
<1>2. \A v \in Threads : ~WakesWriters(v)
  <2> SUFFICES ASSUME NEW v \in Threads, WakesWriters(v) PROVE FALSE
    BY Zenon
  <2>1. CASE v = t
    BY <1>1, <2>1, Zenon DEF KeepsWriters
  <2>2. CASE v # t
    BY <2>2, Zenon DEF KeepsWriters, WakesWriters
  <2> QED
    BY <2>1, <2>2, Zenon
<1>3. ASSUME NEW v \in Threads, waiting[v] = "writer" PROVE lck.w_waiting /\ StillBlocked(v) /\ Busy
  BY <1>2, <1>3, Zenon DEF WritersNotForgotten, StillBlocked, Busy, Held
<1>4. lck'.w_waiting /\ Busy'
  <2>1. CASE \E v \in Threads : waiting[v] = "writer"
    BY <1>3, <2>1, Zenon DEF KeepsWriters
  <2>2. CASE ~\E v \in Threads : waiting[v] = "writer"
    BY <2>2, Zenon DEF KeepsWriters
  <2> QED
    BY <2>1, <2>2, Zenon
<1>5. pc'[u] \in {"exWant", "exDrain", "upDrain"}
  BY Zenon DEF IInv, HoldsExclude
<1>6. CASE pc'[u] = "exWant"
  BY <1>4, <1>6, Zenon DEF StillBlocked
<1>7. CASE u = t /\ pc'[u] # "exWant"
  BY <1>4, <1>7, Zenon DEF KeepsDrainers
<1>8. CASE u # t /\ pc'[u] # "exWant"
  <2>1. pc'[u] = pc[u] /\ waiting[u] = "writer"
    BY <1>8, Zenon DEF KeepsWriters, KeepsDrainers
  <2>2. lck.w_waiting /\ StillBlocked(u)
    BY <1>3, <2>1, Zenon
  <2>3. pc[u] = "upDrain" => lck.want_upgrade
    BY Zenon DEF IInv, BitsOwned, UpgradePcs
  <2>4. \/ lck'.shared_count # 0
        \/ lck'.shared_count = lck.shared_count /\ lck'.want_upgrade = lck.want_upgrade
        \/ lck'.want_upgrade /\ ~lck.want_upgrade
    BY <2>2, Zenon DEF KeepsDrainers
  <2>5. CASE pc[u] = "exDrain"
    BY <1>4, <2>1, <2>2, <2>4, <2>5, Zenon DEF StillBlocked
  <2>6. CASE pc[u] = "upDrain"
    BY <1>4, <2>1, <2>2, <2>3, <2>4, <2>6, Zenon DEF StillBlocked
  <2> QED
    BY <1>5, <1>8, <2>1, <2>5, <2>6, Zenon
<1> QED
  BY <1>6, <1>7, <1>8, Zenon

\* Every step of a thread keeps the promise to the sleeping writers.
LEMMA StepKeepsWriters ==
    ASSUME IInv, NEW t \in Threads, Continue(t) \/ Request(t)
    PROVE  KeepsWriters(t)
<1>a. TypeOK /\ lck \in Word /\ BitsOwned /\ HoldsExclude
  BY Zenon DEF IInv, TypeOK
<1>b. pc[t] \in SharedPcs => lck.shared_count # 0
  BY ReadersFinite, Zenon DEF IInv, SharedCountExact, Readers
<1> USE DEF At, TakeInterlock, SleepOn, Store, StoreKeepPrior, Count, Held, WakeAll, Goto
<1>1. ASSUME lck_rw_lock_shared_fast(t) PROVE KeepsWriters(t)
  BY <1>a, <1>b, <1>1 DEF lck_rw_lock_shared_fast, AddReader, TypeOK, Word, KeepsWriters,
     SleepingWriter, WakesWriters,
     Busy, SharedPcs
<1>2. ASSUME lck_rw_grab_shared(t) PROVE KeepsWriters(t)
  BY <1>a, <1>b, <1>2 DEF lck_rw_grab_shared, AddReader, TypeOK, Word, KeepsWriters,
     SleepingWriter, WakesWriters,
     Busy, SharedPcs
<1>3. ASSUME lck_rw_lock_shared_deadline(t) PROVE KeepsWriters(t)
  BY <1>a, <1>b, <1>3, Zenon DEF lck_rw_lock_shared_deadline, TypeOK, Word, KeepsWriters,
     SleepingWriter, WakesWriters,
     Busy, SharedPcs
<1>4. ASSUME lck_rw_lock_shared_gen(t) PROVE KeepsWriters(t)
  <2>1. /\ \A u \in Threads : u # t => pc'[u] = pc[u] /\ prior'[u] = prior[u]
        /\ ~WakesWriters(t)
    BY <1>a, <1>4, Zenon DEF lck_rw_lock_shared_gen, TypeOK, WakesWriters
  <2>2. \A u \in Threads : waiting'[u] = "writer" => waiting[u] = "writer"
    BY <1>a, <1>4 DEF lck_rw_lock_shared_gen, TypeOK
  <2>3. CASE Held(lck) /\ (lck.shared_count = 0 \/ priv_excl)
    <3>1. lck'.w_waiting = lck.w_waiting /\ (Busy => Busy')
      BY <1>a, <1>4, <2>3, ZenonT(60) DEF lck_rw_lock_shared_gen, Unlocked, Word, Busy
    <3> QED
      BY <2>1, <2>2, <3>1, Zenon DEF KeepsWriters
  <2>4. CASE ~(Held(lck) /\ (lck.shared_count = 0 \/ priv_excl))
    <3>1. AddReader(lck) \in Word /\ AddReader(lck).w_waiting = lck.w_waiting
          /\ AddReader(lck).shared_count # 0
      BY <1>a, AddReaderWord DEF Word
    <3>2. lck'.w_waiting = lck.w_waiting /\ Busy'
      BY <1>4, <2>4, <3>1, UnlockedWord, ZenonT(60) DEF lck_rw_lock_shared_gen, Busy
    <3> QED
      BY <2>1, <2>2, <3>2, Zenon DEF KeepsWriters
  <2> QED
    BY <2>3, <2>4, Zenon
<1>5. ASSUME lck_rw_try_lock_shared_count(t) PROVE KeepsWriters(t)
  BY <1>a, <1>b, <1>5, Zenon DEF lck_rw_try_lock_shared_count, TypeOK, Word, KeepsWriters,
     SleepingWriter, WakesWriters,
     Busy, SharedPcs
<1>6. ASSUME lck_rw_lock_exclusive_fast(t) PROVE KeepsWriters(t)
  BY <1>a, <1>b, <1>6, Zenon DEF lck_rw_lock_exclusive_fast, SetWantWrite, TypeOK, Word,
     KeepsWriters, SleepingWriter, WakesWriters,
     Busy, SharedPcs
<1>7. ASSUME lck_rw_grab_want(t) PROVE KeepsWriters(t)
  BY <1>a, <1>b, <1>7, Zenon DEF lck_rw_grab_want, SetWantWrite, TypeOK, Word, KeepsWriters,
     SleepingWriter, WakesWriters,
     Busy, SharedPcs
<1>8. ASSUME lck_rw_lock_exclusive_want_deadline(t) PROVE KeepsWriters(t)
  BY <1>a, <1>b, <1>8, Zenon DEF lck_rw_lock_exclusive_want_deadline, TypeOK, Word,
     KeepsWriters, SleepingWriter, WakesWriters,
     Busy, SharedPcs
<1>9. ASSUME lck_rw_lock_exclusive_want(t) PROVE KeepsWriters(t)
  BY <1>a, <1>b, <1>9, ZenonT(60) DEF lck_rw_lock_exclusive_want, SetWantWrite, SetWWaiting,
     Unlocked, TypeOK, Word, KeepsWriters, SleepingWriter, WakesWriters,
     Busy, SharedPcs
<1>10. ASSUME lck_rw_held_read_or_upgrade(t) PROVE KeepsWriters(t)
  BY <1>a, <1>b, <1>10, Zenon DEF lck_rw_held_read_or_upgrade, TypeOK, Word, KeepsWriters,
     SleepingWriter, WakesWriters,
     Busy, SharedPcs
<1>11. ASSUME lck_rw_lock_exclusive_drain_deadline(t) PROVE KeepsWriters(t)
  BY <1>a, <1>b, <1>11, Zenon DEF lck_rw_lock_exclusive_drain_deadline, TypeOK, Word,
     KeepsWriters, SleepingWriter, WakesWriters,
     Busy, SharedPcs
<1>12. ASSUME lck_rw_lock_exclusive_drain(t) PROVE KeepsWriters(t)
  BY <1>a, <1>b, <1>12, ZenonT(60) DEF lck_rw_lock_exclusive_drain, SetWWaiting, Unlocked,
     TypeOK, Word, KeepsWriters, SleepingWriter, WakesWriters,
     Busy, SharedPcs
<1>13. ASSUME lck_rw_try_lock_exclusive_count(t) PROVE KeepsWriters(t)
  BY <1>a, <1>b, <1>13, Zenon DEF lck_rw_try_lock_exclusive_count, TypeOK, Word,
     KeepsWriters, SleepingWriter, WakesWriters,
     Busy, SharedPcs
<1>14. ASSUME lck_rw_upgrade_drained(t) PROVE KeepsWriters(t)
  BY <1>a, <1>b, <1>14, Zenon DEF lck_rw_upgrade_drained, TypeOK, Word, KeepsWriters,
     SleepingWriter, WakesWriters,
     Busy, SharedPcs
<1>15. ASSUME lck_rw_upgrade_deadline(t) PROVE KeepsWriters(t)
  BY <1>a, <1>b, <1>15, Zenon DEF lck_rw_upgrade_deadline, TypeOK, Word, KeepsWriters,
     SleepingWriter, WakesWriters,
     Busy, SharedPcs
<1>16. ASSUME lck_rw_lock_shared_to_exclusive_success(t) PROVE KeepsWriters(t)
  BY <1>a, <1>b, <1>16, ZenonT(60) DEF lck_rw_lock_shared_to_exclusive_success, SetWWaiting,
     Unlocked, TypeOK, Word, KeepsWriters, SleepingWriter, WakesWriters,
     Busy, SharedPcs
<1>17. ASSUME lck_rw_upgrade_failure_drop(t) PROVE KeepsWriters(t)
  BY <1>a, <1>b, <1>17, Zenon DEF lck_rw_upgrade_failure_drop, TypeOK, Word, KeepsWriters,
     SleepingWriter, WakesWriters,
     Busy, SharedPcs
<1>18. ASSUME lck_rw_lock_shared_to_exclusive_failure(t) PROVE KeepsWriters(t)
  BY <1>a, <1>b, <1>18 DEF lck_rw_lock_shared_to_exclusive_failure, TypeOK, Word,
     KeepsWriters, SleepingWriter, WakesWriters,
     Busy, SharedPcs
<1>19. ASSUME lck_rw_lock_exclusive_to_shared_gen(t) PROVE KeepsWriters(t)
  BY <1>a, <1>b, <1>19, Zenon DEF lck_rw_lock_exclusive_to_shared_gen, TypeOK, Word,
     KeepsWriters, SleepingWriter, WakesWriters,
     Busy, SharedPcs
<1>20. ASSUME lck_rw_done_gen_writers(t) PROVE KeepsWriters(t)
  BY <1>a, <1>b, <1>20 DEF lck_rw_done_gen_writers, TypeOK, Word, KeepsWriters,
     SleepingWriter, WakesWriters,
     Busy, SharedPcs
<1>21. ASSUME lck_rw_done_gen_readers(t) PROVE KeepsWriters(t)
  BY <1>a, <1>b, <1>21, Zenon DEF lck_rw_done_gen_readers, TypeOK, Word, KeepsWriters,
     SleepingWriter, WakesWriters,
     Busy, SharedPcs
<1>22. ASSUME lck_rw_done_gen_drop(t) PROVE KeepsWriters(t)
  BY <1>a, <1>b, <1>22, Zenon DEF lck_rw_done_gen_drop, TypeOK, Word, KeepsWriters,
     SleepingWriter, WakesWriters,
     Busy, SharedPcs
<1>23. ASSUME lck_rw_clear_promotion(t) PROVE KeepsWriters(t)
  BY <1>a, <1>b, <1>23, Zenon DEF lck_rw_clear_promotion, TypeOK, Word, KeepsWriters,
     SleepingWriter, WakesWriters,
     Busy, SharedPcs
<1>24. ASSUME lck_rw_lock_shared(t) PROVE KeepsWriters(t)
  BY <1>a, <1>b, <1>24, Zenon DEF lck_rw_lock_shared, TypeOK, Word, KeepsWriters,
     SleepingWriter, WakesWriters,
     Busy, SharedPcs
<1>25. ASSUME lck_rw_try_lock_shared(t) PROVE KeepsWriters(t)
  BY <1>a, <1>b, <1>25 DEF lck_rw_try_lock_shared, AddReader, TypeOK, Word, KeepsWriters,
     SleepingWriter, WakesWriters,
     Busy, SharedPcs
<1>26. ASSUME lck_rw_lock_exclusive(t) PROVE KeepsWriters(t)
  BY <1>a, <1>b, <1>26, Zenon DEF lck_rw_lock_exclusive, TypeOK, Word, KeepsWriters,
     SleepingWriter, WakesWriters,
     Busy, SharedPcs
<1>27. ASSUME lck_rw_try_lock_exclusive(t) PROVE KeepsWriters(t)
  BY <1>a, <1>b, <1>27, Zenon DEF lck_rw_try_lock_exclusive, SetWantWrite, TypeOK, Word,
     KeepsWriters, SleepingWriter, WakesWriters,
     Busy, SharedPcs
<1>28. ASSUME lck_rw_lock_shared_to_exclusive(t) PROVE KeepsWriters(t)
  BY <1>a, <1>b, <1>28, Zenon DEF lck_rw_lock_shared_to_exclusive, DropReader, TypeOK, Word,
     KeepsWriters, SleepingWriter, WakesWriters,
     Busy, SharedPcs
<1>29. ASSUME lck_rw_lock_shared_to_exclusive_lose(t) PROVE KeepsWriters(t)
  BY <1>a, <1>b, <1>29, Zenon DEF lck_rw_lock_shared_to_exclusive_lose, DropReader, TypeOK,
     Word, KeepsWriters, SleepingWriter, WakesWriters,
     Busy, SharedPcs
<1>30. ASSUME lck_rw_lock_exclusive_to_shared(t) PROVE KeepsWriters(t)
  BY <1>a, <1>b, <1>30 DEF lck_rw_lock_exclusive_to_shared, Downgraded, TypeOK, Word,
     KeepsWriters, SleepingWriter, WakesWriters,
     Busy, SharedPcs
<1>31. ASSUME lck_rw_done(t) PROVE KeepsWriters(t)
  BY <1>a, <1>b, <1>31 DEF lck_rw_done, Released, DropHold, DropReader, TypeOK, Word,
     KeepsWriters, SleepingWriter, WakesWriters,
     Busy, SharedPcs
<1> QED
  <2> HIDE DEF At, TakeInterlock, SleepOn, Store, StoreKeepPrior, Count, Held, WakeAll, Goto
  <2>1. CASE Continue(t)
    BY <2>1, <1>1, <1>2, <1>3, <1>4, <1>5, <1>6, <1>7, <1>8, <1>9, <1>10, <1>11, <1>12,
       <1>13, <1>14, <1>15, <1>16, <1>17, <1>18, <1>19, <1>20, <1>21, <1>22, <1>23, Zenon
       DEF Continue
  <2>2. CASE Request(t)
    BY <2>2, <1>24, <1>25, <1>26, <1>27, <1>28, <1>29, <1>30, <1>31, Zenon DEF Request
  <2> QED
    BY <2>1, <2>2, Zenon

\* Every step of a thread keeps the promise to those that drain the readers.
LEMMA StepKeepsDrainers ==
    ASSUME IInv, NEW t \in Threads, Continue(t) \/ Request(t)
    PROVE  KeepsDrainers(t)
<1>a. TypeOK /\ lck \in Word /\ HoldsExclude
  BY Zenon DEF IInv, TypeOK
<1>b. pc[t] \in SharedPcs => lck.shared_count # 0
  BY ReadersFinite, Zenon DEF IInv, SharedCountExact, Readers
<1>c. waiting[t] = "writer" => pc[t] \in {"exWant", "exDrain", "upDrain"}
  BY <1>a, Zenon DEF HoldsExclude
<1> USE DEF At, TakeInterlock, SleepOn, Store, StoreKeepPrior, Count, Held, WakeAll, Goto
<1>1. ASSUME lck_rw_lock_shared_fast(t) PROVE KeepsDrainers(t)
  BY <1>a, <1>b, <1>c, <1>1 DEF lck_rw_lock_shared_fast, AddReader, TypeOK, Word,
     KeepsDrainers, StillBlocked, WakesWriters, SharedPcs
<1>2. ASSUME lck_rw_grab_shared(t) PROVE KeepsDrainers(t)
  BY <1>a, <1>b, <1>c, <1>2 DEF lck_rw_grab_shared, AddReader, TypeOK, Word, KeepsDrainers,
     StillBlocked, WakesWriters, SharedPcs
<1>3. ASSUME lck_rw_lock_shared_deadline(t) PROVE KeepsDrainers(t)
  BY <1>a, <1>b, <1>c, <1>3, Zenon DEF lck_rw_lock_shared_deadline, TypeOK, Word,
     KeepsDrainers, StillBlocked, WakesWriters, SharedPcs
<1>4. ASSUME lck_rw_lock_shared_gen(t) PROVE KeepsDrainers(t)
  <2>1. \A u \in Threads : waiting'[u] = "writer" => u # t /\ waiting[u] = "writer"
    BY <1>a, <1>4 DEF lck_rw_lock_shared_gen, TypeOK
  <2>2. CASE Held(lck) /\ (lck.shared_count = 0 \/ priv_excl)
    <3>1. lck'.shared_count = lck.shared_count /\ lck'.want_upgrade = lck.want_upgrade
      BY <1>a, <1>4, <2>2, Zenon DEF lck_rw_lock_shared_gen, Unlocked, Word
    <3> QED
      BY <2>1, <3>1, Zenon DEF KeepsDrainers
  <2>3. CASE ~(Held(lck) /\ (lck.shared_count = 0 \/ priv_excl))
    <3>1. AddReader(lck) \in Word /\ AddReader(lck).shared_count # 0
      BY <1>a, AddReaderWord DEF Word
    <3>2. lck'.shared_count # 0
      BY <1>4, <2>3, <3>1, UnlockedWord, Zenon DEF lck_rw_lock_shared_gen
    <3> QED
      BY <2>1, <3>2, Zenon DEF KeepsDrainers
  <2> QED
    BY <2>2, <2>3, Zenon
<1>5. ASSUME lck_rw_try_lock_shared_count(t) PROVE KeepsDrainers(t)
  BY <1>a, <1>b, <1>c, <1>5, Zenon DEF lck_rw_try_lock_shared_count, TypeOK, Word,
     KeepsDrainers, StillBlocked, WakesWriters, SharedPcs
<1>6. ASSUME lck_rw_lock_exclusive_fast(t) PROVE KeepsDrainers(t)
  BY <1>a, <1>b, <1>c, <1>6, Zenon DEF lck_rw_lock_exclusive_fast, SetWantWrite, TypeOK,
     Word, KeepsDrainers, StillBlocked, WakesWriters, SharedPcs
<1>7. ASSUME lck_rw_grab_want(t) PROVE KeepsDrainers(t)
  BY <1>a, <1>b, <1>c, <1>7, Zenon DEF lck_rw_grab_want, SetWantWrite, TypeOK, Word,
     KeepsDrainers, StillBlocked, WakesWriters, SharedPcs
<1>8. ASSUME lck_rw_lock_exclusive_want_deadline(t) PROVE KeepsDrainers(t)
  BY <1>a, <1>b, <1>c, <1>8, Zenon DEF lck_rw_lock_exclusive_want_deadline, TypeOK, Word,
     KeepsDrainers, StillBlocked, WakesWriters, SharedPcs
<1>9. ASSUME lck_rw_lock_exclusive_want(t) PROVE KeepsDrainers(t)
  BY <1>a, <1>b, <1>c, <1>9, Zenon DEF lck_rw_lock_exclusive_want, SetWantWrite, SetWWaiting,
     Unlocked, TypeOK, Word, KeepsDrainers, StillBlocked, WakesWriters, SharedPcs
<1>10. ASSUME lck_rw_held_read_or_upgrade(t) PROVE KeepsDrainers(t)
  BY <1>a, <1>b, <1>c, <1>10, Zenon DEF lck_rw_held_read_or_upgrade, TypeOK, Word,
     KeepsDrainers, StillBlocked, WakesWriters, SharedPcs
<1>11. ASSUME lck_rw_lock_exclusive_drain_deadline(t) PROVE KeepsDrainers(t)
  BY <1>a, <1>b, <1>c, <1>11, Zenon DEF lck_rw_lock_exclusive_drain_deadline, TypeOK, Word,
     KeepsDrainers, StillBlocked, WakesWriters, SharedPcs
<1>12. ASSUME lck_rw_lock_exclusive_drain(t) PROVE KeepsDrainers(t)
  BY <1>a, <1>b, <1>c, <1>12, Zenon DEF lck_rw_lock_exclusive_drain, SetWWaiting, Unlocked,
     TypeOK, Word, KeepsDrainers, StillBlocked, WakesWriters, SharedPcs
<1>13. ASSUME lck_rw_try_lock_exclusive_count(t) PROVE KeepsDrainers(t)
  BY <1>a, <1>b, <1>c, <1>13, Zenon DEF lck_rw_try_lock_exclusive_count, TypeOK, Word,
     KeepsDrainers, StillBlocked, WakesWriters, SharedPcs
<1>14. ASSUME lck_rw_upgrade_drained(t) PROVE KeepsDrainers(t)
  BY <1>a, <1>b, <1>c, <1>14, Zenon DEF lck_rw_upgrade_drained, TypeOK, Word, KeepsDrainers,
     StillBlocked, WakesWriters, SharedPcs
<1>15. ASSUME lck_rw_upgrade_deadline(t) PROVE KeepsDrainers(t)
  BY <1>a, <1>b, <1>c, <1>15, Zenon DEF lck_rw_upgrade_deadline, TypeOK, Word, KeepsDrainers,
     StillBlocked, WakesWriters, SharedPcs
<1>16. ASSUME lck_rw_lock_shared_to_exclusive_success(t) PROVE KeepsDrainers(t)
  BY <1>a, <1>b, <1>c, <1>16, Zenon DEF lck_rw_lock_shared_to_exclusive_success, SetWWaiting,
     Unlocked, TypeOK, Word, KeepsDrainers, StillBlocked, WakesWriters, SharedPcs
<1>17. ASSUME lck_rw_upgrade_failure_drop(t) PROVE KeepsDrainers(t)
  BY <1>a, <1>b, <1>c, <1>17, Zenon DEF lck_rw_upgrade_failure_drop, TypeOK, Word,
     KeepsDrainers, StillBlocked, WakesWriters, SharedPcs
<1>18. ASSUME lck_rw_lock_shared_to_exclusive_failure(t) PROVE KeepsDrainers(t)
  BY <1>a, <1>b, <1>c, <1>18 DEF lck_rw_lock_shared_to_exclusive_failure, TypeOK, Word,
     KeepsDrainers, StillBlocked, WakesWriters, SharedPcs
<1>19. ASSUME lck_rw_lock_exclusive_to_shared_gen(t) PROVE KeepsDrainers(t)
  BY <1>a, <1>b, <1>c, <1>19, Zenon DEF lck_rw_lock_exclusive_to_shared_gen, TypeOK, Word,
     KeepsDrainers, StillBlocked, WakesWriters, SharedPcs
<1>20. ASSUME lck_rw_done_gen_writers(t) PROVE KeepsDrainers(t)
  BY <1>a, <1>b, <1>c, <1>20 DEF lck_rw_done_gen_writers, TypeOK, Word, KeepsDrainers,
     StillBlocked, WakesWriters, SharedPcs
<1>21. ASSUME lck_rw_done_gen_readers(t) PROVE KeepsDrainers(t)
  BY <1>a, <1>b, <1>c, <1>21, Zenon DEF lck_rw_done_gen_readers, TypeOK, Word, KeepsDrainers,
     StillBlocked, WakesWriters, SharedPcs
<1>22. ASSUME lck_rw_done_gen_drop(t) PROVE KeepsDrainers(t)
  BY <1>a, <1>b, <1>c, <1>22, Zenon DEF lck_rw_done_gen_drop, TypeOK, Word, KeepsDrainers,
     StillBlocked, WakesWriters, SharedPcs
<1>23. ASSUME lck_rw_clear_promotion(t) PROVE KeepsDrainers(t)
  BY <1>a, <1>b, <1>c, <1>23, Zenon DEF lck_rw_clear_promotion, TypeOK, Word, KeepsDrainers,
     StillBlocked, WakesWriters, SharedPcs
<1>24. ASSUME lck_rw_lock_shared(t) PROVE KeepsDrainers(t)
  BY <1>a, <1>b, <1>c, <1>24, Zenon DEF lck_rw_lock_shared, TypeOK, Word, KeepsDrainers,
     StillBlocked, WakesWriters, SharedPcs
<1>25. ASSUME lck_rw_try_lock_shared(t) PROVE KeepsDrainers(t)
  BY <1>a, <1>b, <1>c, <1>25 DEF lck_rw_try_lock_shared, AddReader, TypeOK, Word,
     KeepsDrainers, StillBlocked, WakesWriters, SharedPcs
<1>26. ASSUME lck_rw_lock_exclusive(t) PROVE KeepsDrainers(t)
  BY <1>a, <1>b, <1>c, <1>26, Zenon DEF lck_rw_lock_exclusive, TypeOK, Word, KeepsDrainers,
     StillBlocked, WakesWriters, SharedPcs
<1>27. ASSUME lck_rw_try_lock_exclusive(t) PROVE KeepsDrainers(t)
  BY <1>a, <1>b, <1>c, <1>27, Zenon DEF lck_rw_try_lock_exclusive, SetWantWrite, TypeOK,
     Word, KeepsDrainers, StillBlocked, WakesWriters, SharedPcs
<1>28. ASSUME lck_rw_lock_shared_to_exclusive(t) PROVE KeepsDrainers(t)
  BY <1>a, <1>b, <1>c, <1>28, Zenon DEF lck_rw_lock_shared_to_exclusive, DropReader, TypeOK,
     Word, KeepsDrainers, StillBlocked, WakesWriters, SharedPcs
<1>29. ASSUME lck_rw_lock_shared_to_exclusive_lose(t) PROVE KeepsDrainers(t)
  <2>1. waiting' = waiting /\ waiting[t] # "writer"
    BY <1>29, Zenon DEF lck_rw_lock_shared_to_exclusive_lose
  <2>2. pc'[t] = "upDrop" /\ prior'[t].w_waiting = lck.w_waiting /\ prior'[t].shared_count = lck.shared_count
    BY <1>a, <1>29, Zenon DEF lck_rw_lock_shared_to_exclusive_lose, TypeOK, Word
  <2>3. lck.shared_count \in Nat /\ lck.shared_count # 0 /\ lck'.shared_count = lck.shared_count - 1
    BY <1>a, <1>b, <1>29 DEF lck_rw_lock_shared_to_exclusive_lose, DropReader, Word, SharedPcs
  <2>4. CASE lck.shared_count = 1
    BY <2>1, <2>2, <2>4, Zenon DEF KeepsDrainers, WakesWriters
  <2>5. CASE lck.shared_count # 1
    <3>1. lck'.shared_count # 0
      BY <2>3, <2>5
    <3> QED
      BY <2>1, <3>1, Zenon DEF KeepsDrainers
  <2> QED
    BY <2>4, <2>5, Zenon
<1>30. ASSUME lck_rw_lock_exclusive_to_shared(t) PROVE KeepsDrainers(t)
  <2>1. lck'.shared_count = lck.shared_count + 1 /\ lck.shared_count \in Nat
    BY <1>a, <1>30, Zenon DEF lck_rw_lock_exclusive_to_shared, Downgraded, Word
  <2>2. lck'.shared_count # 0
    BY <2>1
  <2>3. waiting' = waiting /\ waiting[t] # "writer"
    BY <1>c, <1>30, Zenon DEF lck_rw_lock_exclusive_to_shared
  <2> QED
    BY <2>2, <2>3, Zenon DEF KeepsDrainers
<1>31. ASSUME lck_rw_done(t) PROVE KeepsDrainers(t)
  <2>1. waiting' = waiting /\ waiting[t] # "writer"
    BY <1>c, <1>31, Zenon DEF lck_rw_done
  <2>2. pc'[t] = "wakeW" /\ prior'[t].w_waiting = lck.w_waiting /\ prior'[t].shared_count = lck.shared_count
    BY <1>a, <1>31, Zenon DEF lck_rw_done, TypeOK, Word
  <2>3. lck' = Released(lck) /\ lck.shared_count \in Nat
    BY <1>a, <1>31, Zenon DEF lck_rw_done, Word
  <2>4. CASE lck.shared_count <= 1
    BY <2>1, <2>2, <2>4, Zenon DEF KeepsDrainers, WakesWriters
  <2>5. CASE ~(lck.shared_count <= 1)
    <3>1. lck.shared_count # 0 /\ lck.shared_count - 1 # 0
      BY <2>3, <2>5
    <3>2. lck'.shared_count = lck.shared_count - 1
      BY <1>a, <2>3, <3>1, ReleasedWord, Zenon
    <3> QED
      BY <2>1, <3>1, <3>2, Zenon DEF KeepsDrainers
  <2> QED
    BY <2>4, <2>5, Zenon
<1> QED
  <2> HIDE DEF At, TakeInterlock, SleepOn, Store, StoreKeepPrior, Count, Held, WakeAll, Goto
  <2>1. CASE Continue(t)
    BY <2>1, <1>1, <1>2, <1>3, <1>4, <1>5, <1>6, <1>7, <1>8, <1>9, <1>10, <1>11, <1>12,
       <1>13, <1>14, <1>15, <1>16, <1>17, <1>18, <1>19, <1>20, <1>21, <1>22, <1>23, Zenon
       DEF Continue
  <2>2. CASE Request(t)
    BY <2>2, <1>24, <1>25, <1>26, <1>27, <1>28, <1>29, <1>30, <1>31, Zenon DEF Request
  <2> QED
    BY <2>1, <2>2, Zenon

\* A writer or upgrader never sleeps without something to wait for, its own want
\* bit apart, unless its wakeup is on the way.
THEOREM WritersAreWoken == Spec => []WritersNotForgotten
<1>1. Init => WritersNotForgotten
  BY Zenon DEF Init, WritersNotForgotten
<1>2. IInv /\ IInv' /\ WritersNotForgotten /\ [Next]_vars => WritersNotForgotten'
  <2> SUFFICES ASSUME IInv, IInv', WritersNotForgotten, [Next]_vars PROVE WritersNotForgotten'
    BY Zenon
  <2>1. ASSUME NEW t \in Threads, Continue(t) \/ Request(t) PROVE WritersNotForgotten'
    BY <2>1, StepKeepsWriters, StepKeepsDrainers, KeepsWritersSuffices, Zenon
  <2>2. ASSUME NEW t \in Threads, thread_dispatch(t) PROVE WritersNotForgotten'
    BY <2>2, Zenon DEF thread_dispatch, WritersNotForgotten, StillBlocked, WakesWriters, Busy, Held
  <2>3. CASE UNCHANGED vars
    BY <2>3, Zenon DEF vars, WritersNotForgotten, StillBlocked, WakesWriters, Busy, Held
  <2> QED
    BY <2>1, <2>2, <2>3, Zenon DEF Next
<1> QED
  BY <1>1, <1>2, Invariance, PTL DEF Spec

-----------------------------------------------------------------------------
(* No wakeup of a reader is lost. *)

\* The next word, its interlock apart, when a step keeps want_upgrade.
WordNext(n, ww, rw, wt) ==
    /\ lck'.shared_count = n
    /\ lck'.want_upgrade = lck.want_upgrade
    /\ lck'.want_write = ww
    /\ lck'.r_waiting = rw
    /\ lck'.w_waiting = wt

\* What the four steps under the interlock do: each sleeps with its waiting
\* bit set, or goes on.
Shares(t) ==
    /\ pc[t] = "shIlk" /\ prior' = prior
    /\ \/ /\ Held(lck) /\ (lck.shared_count = 0 \/ priv_excl)
          /\ WordNext(lck.shared_count, lck.want_write, TRUE, lck.w_waiting)
          /\ pc' = [pc EXCEPT ![t] = "shSlow"] /\ waiting' = [waiting EXCEPT ![t] = "reader"]
       \/ /\ WordNext(lck.shared_count + 1, lck.want_write, lck.r_waiting, lck.w_waiting)
          /\ pc' = [pc EXCEPT ![t] = "shared"] /\ waiting' = waiting

Wants(t) ==
    /\ pc[t] = "exWantIlk" /\ prior' = prior
    /\ \/ /\ lck.want_write
          /\ WordNext(lck.shared_count, lck.want_write, lck.r_waiting, TRUE)
          /\ pc' = [pc EXCEPT ![t] = "exWant"] /\ waiting' = [waiting EXCEPT ![t] = "writer"]
       \/ /\ ~lck.want_write
          /\ WordNext(lck.shared_count, TRUE, lck.r_waiting, lck.w_waiting)
          /\ pc' = [pc EXCEPT ![t] = "exDrain"] /\ waiting' = waiting

Drains(t) ==
    /\ pc[t] = "exDrainIlk" /\ prior' = prior
    /\ \/ /\ lck.shared_count # 0 \/ lck.want_upgrade
          /\ WordNext(lck.shared_count, lck.want_write, lck.r_waiting, TRUE)
          /\ pc' = [pc EXCEPT ![t] = "exDrain"] /\ waiting' = [waiting EXCEPT ![t] = "writer"]
       \/ /\ ~(lck.shared_count # 0 \/ lck.want_upgrade)
          /\ WordNext(lck.shared_count, lck.want_write, lck.r_waiting, lck.w_waiting)
          /\ pc' = [pc EXCEPT ![t] = "exclW"] /\ waiting' = waiting

Upgrades(t) ==
    /\ pc[t] = "upDrainIlk" /\ prior' = prior
    /\ \/ /\ lck.shared_count # 0
          /\ WordNext(lck.shared_count, lck.want_write, lck.r_waiting, TRUE)
          /\ pc' = [pc EXCEPT ![t] = "upDrain"] /\ waiting' = [waiting EXCEPT ![t] = "writer"]
       \/ /\ lck.shared_count = 0
          /\ WordNext(lck.shared_count, lck.want_write, lck.r_waiting, lck.w_waiting)
          /\ pc' = [pc EXCEPT ![t] = "exclU"] /\ waiting' = waiting

\* lck_rw_lock_shared_gen, in terms of the fields of the word.
LEMMA ShareStep ==
    ASSUME lck \in Word, NEW t \in Threads, lck_rw_lock_shared_gen(t)
    PROVE  Shares(t)
<1>1. CASE Held(lck) /\ (lck.shared_count = 0 \/ priv_excl)
  <2> DEFINE w == [lck EXCEPT !.r_waiting = TRUE]
  <2>1. /\ w \in Word /\ w.shared_count = lck.shared_count /\ w.want_upgrade = lck.want_upgrade
        /\ w.want_write = lck.want_write /\ w.r_waiting = TRUE /\ w.w_waiting = lck.w_waiting
    BY ZenonT(60) DEF Word
  <2>2. lck' = Unlocked(w)
    BY <1>1, Zenon DEF lck_rw_lock_shared_gen, SleepOn
  <2> HIDE DEF w
  <2>3. WordNext(lck.shared_count, lck.want_write, TRUE, lck.w_waiting)
    BY <2>1, <2>2, UnlockedWord, Zenon DEF WordNext
  <2> QED
    BY <1>1, <2>3, Zenon DEF lck_rw_lock_shared_gen, SleepOn, Shares, At, Goto
<1>2. CASE ~(Held(lck) /\ (lck.shared_count = 0 \/ priv_excl))
  <2> DEFINE w == AddReader(lck)
  <2>1. /\ w \in Word /\ w.shared_count = lck.shared_count + 1 /\ w.want_upgrade = lck.want_upgrade
        /\ w.want_write = lck.want_write /\ w.r_waiting = lck.r_waiting /\ w.w_waiting = lck.w_waiting
    BY AddReaderWord, Zenon
  <2>2. lck' = Unlocked(w)
    BY <1>2, Zenon DEF lck_rw_lock_shared_gen, Store
  <2> HIDE DEF w
  <2>3. WordNext(lck.shared_count + 1, lck.want_write, lck.r_waiting, lck.w_waiting)
    BY <2>1, <2>2, UnlockedWord, Zenon DEF WordNext
  <2> QED
    BY <1>2, <2>3, Zenon DEF lck_rw_lock_shared_gen, Store, Shares, At, Goto
<1> QED
  BY <1>1, <1>2, Zenon

\* lck_rw_lock_exclusive_want, likewise.
LEMMA WantStep ==
    ASSUME lck \in Word, NEW t \in Threads, lck_rw_lock_exclusive_want(t)
    PROVE  Wants(t)
<1>1. CASE lck.want_write
  <2> DEFINE w == SetWWaiting(lck)
  <2>1. /\ w \in Word /\ w.shared_count = lck.shared_count /\ w.want_upgrade = lck.want_upgrade
        /\ w.want_write = lck.want_write /\ w.r_waiting = lck.r_waiting /\ w.w_waiting = TRUE
    BY SetWWaitingWord, Zenon
  <2>2. lck' = Unlocked(w)
    BY <1>1, Zenon DEF lck_rw_lock_exclusive_want, SleepOn
  <2> HIDE DEF w
  <2>3. WordNext(lck.shared_count, lck.want_write, lck.r_waiting, TRUE)
    BY <2>1, <2>2, UnlockedWord, Zenon DEF WordNext
  <2> QED
    BY <1>1, <2>3, Zenon DEF lck_rw_lock_exclusive_want, SleepOn, Wants, At, Goto
<1>2. CASE ~(lck.want_write)
  <2> DEFINE w == SetWantWrite(lck)
  <2>1. /\ w \in Word /\ w.shared_count = lck.shared_count /\ w.want_upgrade = lck.want_upgrade
        /\ w.want_write = TRUE /\ w.r_waiting = lck.r_waiting /\ w.w_waiting = lck.w_waiting
    BY SetWantWriteWord, Zenon
  <2>2. lck' = Unlocked(w)
    BY <1>2, Zenon DEF lck_rw_lock_exclusive_want, Store
  <2> HIDE DEF w
  <2>3. WordNext(lck.shared_count, TRUE, lck.r_waiting, lck.w_waiting)
    BY <2>1, <2>2, UnlockedWord, Zenon DEF WordNext
  <2> QED
    BY <1>2, <2>3, Zenon DEF lck_rw_lock_exclusive_want, Store, Wants, At, Goto
<1> QED
  BY <1>1, <1>2, Zenon

\* lck_rw_lock_exclusive_drain, likewise.
LEMMA DrainStep ==
    ASSUME lck \in Word, NEW t \in Threads, lck_rw_lock_exclusive_drain(t)
    PROVE  Drains(t)
<1>1. CASE lck.shared_count # 0 \/ lck.want_upgrade
  <2> DEFINE w == SetWWaiting(lck)
  <2>1. /\ w \in Word /\ w.shared_count = lck.shared_count /\ w.want_upgrade = lck.want_upgrade
        /\ w.want_write = lck.want_write /\ w.r_waiting = lck.r_waiting /\ w.w_waiting = TRUE
    BY SetWWaitingWord, Zenon
  <2>2. lck' = Unlocked(w)
    BY <1>1, Zenon DEF lck_rw_lock_exclusive_drain, SleepOn
  <2> HIDE DEF w
  <2>3. WordNext(lck.shared_count, lck.want_write, lck.r_waiting, TRUE)
    BY <2>1, <2>2, UnlockedWord, Zenon DEF WordNext
  <2> QED
    BY <1>1, <2>3, Zenon DEF lck_rw_lock_exclusive_drain, SleepOn, Drains, At, Goto
<1>2. CASE ~(lck.shared_count # 0 \/ lck.want_upgrade)
  <2>1. lck' = Unlocked(lck)
    BY <1>2, Zenon DEF lck_rw_lock_exclusive_drain, Store
  <2>2. WordNext(lck.shared_count, lck.want_write, lck.r_waiting, lck.w_waiting)
    BY <2>1, UnlockedWord, Zenon DEF WordNext
  <2> QED
    BY <1>2, <2>2, Zenon DEF lck_rw_lock_exclusive_drain, Store, Drains, At, Goto
<1> QED
  BY <1>1, <1>2, Zenon

\* lck_rw_lock_shared_to_exclusive_success, likewise.
LEMMA UpgradeStep ==
    ASSUME lck \in Word, NEW t \in Threads, lck_rw_lock_shared_to_exclusive_success(t)
    PROVE  Upgrades(t)
<1>1. CASE lck.shared_count # 0
  <2> DEFINE w == SetWWaiting(lck)
  <2>1. /\ w \in Word /\ w.shared_count = lck.shared_count /\ w.want_upgrade = lck.want_upgrade
        /\ w.want_write = lck.want_write /\ w.r_waiting = lck.r_waiting /\ w.w_waiting = TRUE
    BY SetWWaitingWord, Zenon
  <2>2. lck' = Unlocked(w)
    BY <1>1, Zenon DEF lck_rw_lock_shared_to_exclusive_success, SleepOn
  <2> HIDE DEF w
  <2>3. WordNext(lck.shared_count, lck.want_write, lck.r_waiting, TRUE)
    BY <2>1, <2>2, UnlockedWord, Zenon DEF WordNext
  <2> QED
    BY <1>1, <2>3, Zenon DEF lck_rw_lock_shared_to_exclusive_success, SleepOn, Upgrades, At, Goto
<1>2. CASE ~(lck.shared_count # 0)
  <2>1. lck' = Unlocked(lck)
    BY <1>2, Zenon DEF lck_rw_lock_shared_to_exclusive_success, Store
  <2>2. WordNext(lck.shared_count, lck.want_write, lck.r_waiting, lck.w_waiting)
    BY <2>1, UnlockedWord, Zenon DEF WordNext
  <2> QED
    BY <1>2, <2>2, Zenon DEF lck_rw_lock_shared_to_exclusive_success, Store, Upgrades, At, Goto
<1> QED
  BY <1>1, <1>2, Zenon

\* A writer on the way to the lock, which a set w_waiting bit is there for.
InTheWay(u) ==
    \/ pc[u] \in {"exWant", "exWantIlk"}
    \/ pc[u] \in {"exDrain", "exDrainIlk"} /\ (lck.shared_count # 0 \/ lck.want_upgrade)
    \/ pc[u] \in {"upDrain", "upDrainIlk"} /\ lck.shared_count # 0

\* The waiting bit of the writers is set in a held word only, and never without
\* a writer that is still on its way: a stale bit would leave the readers asleep
\* for a privileged writer that does not exist.
WriterBitExplained ==
    lck.w_waiting => Busy /\ \E u \in Threads : InTheWay(u)

\* What a step of thread t does to the bit and to the writers on their way.
KeepsBit(t) ==
    /\ \A u \in Threads : u # t => pc'[u] = pc[u]
    /\ lck'.w_waiting =>
          /\ Busy'
          /\ lck.w_waiting \/ InTheWay(t)'
          /\ InTheWay(t) => InTheWay(t)'
          /\ lck.shared_count # 0 \/ lck.want_upgrade => lck'.shared_count # 0 \/ lck'.want_upgrade
          /\ lck.shared_count # 0 /\ lck.want_upgrade /\ pc[t] \notin UpgradePcs => lck'.shared_count # 0

\* A step of that kind leaves the bit explained.
LEMMA KeepsBitSuffices ==
    ASSUME IInv, WriterBitExplained, NEW t \in Threads, KeepsBit(t)
    PROVE  WriterBitExplained'
<1> SUFFICES ASSUME lck'.w_waiting PROVE Busy' /\ \E u \in Threads : InTheWay(u)'
  BY Zenon DEF WriterBitExplained
<1>1. CASE ~lck.w_waiting \/ InTheWay(t)
  BY <1>1, Zenon DEF KeepsBit
<1>2. CASE lck.w_waiting /\ ~InTheWay(t)
  <2>1. PICK u \in Threads : InTheWay(u)
    BY <1>2, Zenon DEF WriterBitExplained
  <2>2. u # t /\ pc'[u] = pc[u]
    BY <1>2, <2>1, Zenon DEF KeepsBit
  <2>3. pc[u] \in UpgradePcs => lck.want_upgrade /\ pc[t] \notin UpgradePcs
    BY <2>2, Zenon DEF IInv, BitsOwned, AtMostOne
  <2>4. InTheWay(u)'
    BY <2>1, <2>2, <2>3, Zenon DEF KeepsBit, InTheWay, UpgradePcs
  <2> QED
    BY <2>4, Zenon DEF KeepsBit
<1> QED
  BY <1>1, <1>2, Zenon

\* Every step of a thread is of that kind.
LEMMA StepKeepsBit ==
    ASSUME IInv, WriterBitExplained, NEW t \in Threads, Continue(t) \/ Request(t)
    PROVE  KeepsBit(t)
<1>a. TypeOK /\ lck \in Word /\ BitsOwned /\ HoldsExclude /\ WriterBitExplained
  BY Zenon DEF IInv, TypeOK
<1>b. pc[t] \in SharedPcs => lck.shared_count # 0
  BY ReadersFinite, Zenon DEF IInv, SharedCountExact, Readers
<1> USE DEF At, TakeInterlock, SleepOn, Store, StoreKeepPrior, Count, Held, WakeAll, Goto
<1>1. ASSUME lck_rw_lock_shared_fast(t) PROVE KeepsBit(t)
  BY <1>a, <1>b, <1>1 DEF lck_rw_lock_shared_fast, AddReader, TypeOK, Word, BitsOwned,
     HoldsExclude, WriterBitExplained, KeepsBit, InTheWay,
     Busy, SharedPcs, UpgradePcs, WritePcs, ExclPcs
<1>2. ASSUME lck_rw_grab_shared(t) PROVE KeepsBit(t)
  BY <1>a, <1>b, <1>2 DEF lck_rw_grab_shared, AddReader, TypeOK, Word, BitsOwned,
     HoldsExclude, WriterBitExplained, KeepsBit, InTheWay,
     Busy, SharedPcs, UpgradePcs, WritePcs, ExclPcs
<1>3. ASSUME lck_rw_lock_shared_deadline(t) PROVE KeepsBit(t)
  BY <1>a, <1>b, <1>3, Zenon DEF lck_rw_lock_shared_deadline, TypeOK, Word, BitsOwned,
     HoldsExclude, WriterBitExplained, KeepsBit, InTheWay,
     Busy, SharedPcs, UpgradePcs, WritePcs, ExclPcs
<1>4. ASSUME lck_rw_lock_shared_gen(t) PROVE KeepsBit(t)
  <2>1. Shares(t)
    BY <1>a, <1>4, ShareStep, Zenon
  <2> QED
    BY <1>a, <1>b, <2>1 DEF Shares, WordNext, TypeOK, Word, BitsOwned, HoldsExclude,
       WriterBitExplained, KeepsBit, InTheWay,
     Busy, SharedPcs, UpgradePcs, WritePcs, ExclPcs
<1>5. ASSUME lck_rw_try_lock_shared_count(t) PROVE KeepsBit(t)
  BY <1>a, <1>b, <1>5, Zenon DEF lck_rw_try_lock_shared_count, TypeOK, Word, BitsOwned,
     HoldsExclude, WriterBitExplained, KeepsBit, InTheWay,
     Busy, SharedPcs, UpgradePcs, WritePcs, ExclPcs
<1>6. ASSUME lck_rw_lock_exclusive_fast(t) PROVE KeepsBit(t)
  BY <1>a, <1>b, <1>6 DEF lck_rw_lock_exclusive_fast, SetWantWrite, TypeOK, Word, BitsOwned,
     HoldsExclude, WriterBitExplained, KeepsBit, InTheWay,
     Busy, SharedPcs, UpgradePcs, WritePcs, ExclPcs
<1>7. ASSUME lck_rw_grab_want(t) PROVE KeepsBit(t)
  BY <1>a, <1>b, <1>7, Zenon DEF lck_rw_grab_want, SetWantWrite, TypeOK, Word, BitsOwned,
     HoldsExclude, WriterBitExplained, KeepsBit, InTheWay,
     Busy, SharedPcs, UpgradePcs, WritePcs, ExclPcs
<1>8. ASSUME lck_rw_lock_exclusive_want_deadline(t) PROVE KeepsBit(t)
  BY <1>a, <1>b, <1>8, Zenon DEF lck_rw_lock_exclusive_want_deadline, TypeOK, Word,
     BitsOwned, HoldsExclude, WriterBitExplained, KeepsBit, InTheWay,
     Busy, SharedPcs, UpgradePcs, WritePcs, ExclPcs
<1>9. ASSUME lck_rw_lock_exclusive_want(t) PROVE KeepsBit(t)
  <2>1. Wants(t)
    BY <1>a, <1>9, WantStep, Zenon
  <2> QED
    BY <1>a, <1>b, <2>1 DEF Wants, WordNext, TypeOK, Word, BitsOwned, HoldsExclude,
       WriterBitExplained, KeepsBit, InTheWay,
     Busy, SharedPcs, UpgradePcs, WritePcs, ExclPcs
<1>10. ASSUME lck_rw_held_read_or_upgrade(t) PROVE KeepsBit(t)
  BY <1>a, <1>b, <1>10, Zenon DEF lck_rw_held_read_or_upgrade, TypeOK, Word, BitsOwned,
     HoldsExclude, WriterBitExplained, KeepsBit, InTheWay,
     Busy, SharedPcs, UpgradePcs, WritePcs, ExclPcs
<1>11. ASSUME lck_rw_lock_exclusive_drain_deadline(t) PROVE KeepsBit(t)
  BY <1>a, <1>b, <1>11, Zenon DEF lck_rw_lock_exclusive_drain_deadline, TypeOK, Word,
     BitsOwned, HoldsExclude, WriterBitExplained, KeepsBit, InTheWay,
     Busy, SharedPcs, UpgradePcs, WritePcs, ExclPcs
<1>12. ASSUME lck_rw_lock_exclusive_drain(t) PROVE KeepsBit(t)
  <2>1. Drains(t)
    BY <1>a, <1>12, DrainStep, Zenon
  <2> QED
    BY <1>a, <1>b, <2>1, Zenon DEF Drains, WordNext, TypeOK, Word, BitsOwned, HoldsExclude,
       WriterBitExplained, KeepsBit, InTheWay,
     Busy, SharedPcs, UpgradePcs, WritePcs, ExclPcs
<1>13. ASSUME lck_rw_try_lock_exclusive_count(t) PROVE KeepsBit(t)
  BY <1>a, <1>b, <1>13, Zenon DEF lck_rw_try_lock_exclusive_count, TypeOK, Word, BitsOwned,
     HoldsExclude, WriterBitExplained, KeepsBit, InTheWay,
     Busy, SharedPcs, UpgradePcs, WritePcs, ExclPcs
<1>14. ASSUME lck_rw_upgrade_drained(t) PROVE KeepsBit(t)
  BY <1>a, <1>b, <1>14, Zenon DEF lck_rw_upgrade_drained, TypeOK, Word, BitsOwned,
     HoldsExclude, WriterBitExplained, KeepsBit, InTheWay,
     Busy, SharedPcs, UpgradePcs, WritePcs, ExclPcs
<1>15. ASSUME lck_rw_upgrade_deadline(t) PROVE KeepsBit(t)
  BY <1>a, <1>b, <1>15, Zenon DEF lck_rw_upgrade_deadline, TypeOK, Word, BitsOwned,
     HoldsExclude, WriterBitExplained, KeepsBit, InTheWay,
     Busy, SharedPcs, UpgradePcs, WritePcs, ExclPcs
<1>16. ASSUME lck_rw_lock_shared_to_exclusive_success(t) PROVE KeepsBit(t)
  <2>1. Upgrades(t)
    BY <1>a, <1>16, UpgradeStep, Zenon
  <2> QED
    BY <1>a, <1>b, <2>1 DEF Upgrades, WordNext, TypeOK, Word, BitsOwned, HoldsExclude,
       WriterBitExplained, KeepsBit, InTheWay,
     Busy, SharedPcs, UpgradePcs, WritePcs, ExclPcs
<1>17. ASSUME lck_rw_upgrade_failure_drop(t) PROVE KeepsBit(t)
  BY <1>a, <1>b, <1>17, Zenon DEF lck_rw_upgrade_failure_drop, TypeOK, Word, BitsOwned,
     HoldsExclude, WriterBitExplained, KeepsBit, InTheWay,
     Busy, SharedPcs, UpgradePcs, WritePcs, ExclPcs
<1>18. ASSUME lck_rw_lock_shared_to_exclusive_failure(t) PROVE KeepsBit(t)
  BY <1>a, <1>b, <1>18, Zenon DEF lck_rw_lock_shared_to_exclusive_failure, TypeOK, Word,
     BitsOwned, HoldsExclude, WriterBitExplained, KeepsBit, InTheWay,
     Busy, SharedPcs, UpgradePcs, WritePcs, ExclPcs
<1>19. ASSUME lck_rw_lock_exclusive_to_shared_gen(t) PROVE KeepsBit(t)
  BY <1>a, <1>b, <1>19, Zenon DEF lck_rw_lock_exclusive_to_shared_gen, TypeOK, Word,
     BitsOwned, HoldsExclude, WriterBitExplained, KeepsBit, InTheWay,
     Busy, SharedPcs, UpgradePcs, WritePcs, ExclPcs
<1>20. ASSUME lck_rw_done_gen_writers(t) PROVE KeepsBit(t)
  BY <1>a, <1>b, <1>20, Zenon DEF lck_rw_done_gen_writers, TypeOK, Word, BitsOwned,
     HoldsExclude, WriterBitExplained, KeepsBit, InTheWay,
     Busy, SharedPcs, UpgradePcs, WritePcs, ExclPcs
<1>21. ASSUME lck_rw_done_gen_readers(t) PROVE KeepsBit(t)
  BY <1>a, <1>b, <1>21, Zenon DEF lck_rw_done_gen_readers, TypeOK, Word, BitsOwned,
     HoldsExclude, WriterBitExplained, KeepsBit, InTheWay,
     Busy, SharedPcs, UpgradePcs, WritePcs, ExclPcs
<1>22. ASSUME lck_rw_done_gen_drop(t) PROVE KeepsBit(t)
  BY <1>a, <1>b, <1>22, Zenon DEF lck_rw_done_gen_drop, TypeOK, Word, BitsOwned,
     HoldsExclude, WriterBitExplained, KeepsBit, InTheWay,
     Busy, SharedPcs, UpgradePcs, WritePcs, ExclPcs
<1>23. ASSUME lck_rw_clear_promotion(t) PROVE KeepsBit(t)
  BY <1>a, <1>b, <1>23, Zenon DEF lck_rw_clear_promotion, TypeOK, Word, BitsOwned,
     HoldsExclude, WriterBitExplained, KeepsBit, InTheWay,
     Busy, SharedPcs, UpgradePcs, WritePcs, ExclPcs
<1>24. ASSUME lck_rw_lock_shared(t) PROVE KeepsBit(t)
  BY <1>a, <1>b, <1>24, Zenon DEF lck_rw_lock_shared, TypeOK, Word, BitsOwned, HoldsExclude,
     WriterBitExplained, KeepsBit, InTheWay,
     Busy, SharedPcs, UpgradePcs, WritePcs, ExclPcs
<1>25. ASSUME lck_rw_try_lock_shared(t) PROVE KeepsBit(t)
  BY <1>a, <1>b, <1>25 DEF lck_rw_try_lock_shared, AddReader, TypeOK, Word, BitsOwned,
     HoldsExclude, WriterBitExplained, KeepsBit, InTheWay,
     Busy, SharedPcs, UpgradePcs, WritePcs, ExclPcs
<1>26. ASSUME lck_rw_lock_exclusive(t) PROVE KeepsBit(t)
  BY <1>a, <1>b, <1>26, Zenon DEF lck_rw_lock_exclusive, TypeOK, Word, BitsOwned,
     HoldsExclude, WriterBitExplained, KeepsBit, InTheWay,
     Busy, SharedPcs, UpgradePcs, WritePcs, ExclPcs
<1>27. ASSUME lck_rw_try_lock_exclusive(t) PROVE KeepsBit(t)
  BY <1>a, <1>b, <1>27, Zenon DEF lck_rw_try_lock_exclusive, SetWantWrite, TypeOK, Word,
     BitsOwned, HoldsExclude, WriterBitExplained, KeepsBit, InTheWay,
     Busy, SharedPcs, UpgradePcs, WritePcs, ExclPcs
<1>28. ASSUME lck_rw_lock_shared_to_exclusive(t) PROVE KeepsBit(t)
  BY <1>a, <1>b, <1>28, Zenon DEF lck_rw_lock_shared_to_exclusive, DropReader, TypeOK, Word,
     BitsOwned, HoldsExclude, WriterBitExplained, KeepsBit, InTheWay,
     Busy, SharedPcs, UpgradePcs, WritePcs, ExclPcs
<1>29. ASSUME lck_rw_lock_shared_to_exclusive_lose(t) PROVE KeepsBit(t)
  BY <1>a, <1>b, <1>29 DEF lck_rw_lock_shared_to_exclusive_lose, DropReader, TypeOK, Word,
     BitsOwned, HoldsExclude, WriterBitExplained, KeepsBit, InTheWay,
     Busy, SharedPcs, UpgradePcs, WritePcs, ExclPcs
<1>30. ASSUME lck_rw_lock_exclusive_to_shared(t) PROVE KeepsBit(t)
  BY <1>a, <1>b, <1>30 DEF lck_rw_lock_exclusive_to_shared, Downgraded, TypeOK, Word,
     BitsOwned, HoldsExclude, WriterBitExplained, KeepsBit, InTheWay,
     Busy, SharedPcs, UpgradePcs, WritePcs, ExclPcs
<1>31. ASSUME lck_rw_done(t) PROVE KeepsBit(t)
  BY <1>a, <1>b, <1>31, Zenon DEF lck_rw_done, Released, DropHold, DropReader, TypeOK, Word,
     BitsOwned, HoldsExclude, WriterBitExplained, KeepsBit, InTheWay,
     Busy, SharedPcs, UpgradePcs, WritePcs, ExclPcs
<1> QED
  BY <1>1, <1>2, <1>3, <1>4, <1>5, <1>6, <1>7, <1>8, <1>9, <1>10, <1>11, <1>12, <1>13, <1>14,
     <1>15, <1>16, <1>17, <1>18, <1>19, <1>20, <1>21, <1>22, <1>23, <1>24, <1>25, <1>26,
     <1>27, <1>28, <1>29, <1>30, <1>31, Zenon DEF Continue, Request

\* A thread that asked for the lock exclusively and has not got it.
OnTheWay(u) == pc[u] \in {"exWant", "exWantIlk", "exDrain", "exDrainIlk", "upDrain", "upDrainIlk"}

SleepingReader == \E u \in Threads : waiting[u] = "reader"

\* What a step of thread t owes the sleeping readers.  It puts one to sleep in a
\* held word only; it keeps their waiting bit and its own promise to wake them;
\* it lets go of the lock only by promising to wake them or, for a privileged
\* writer, the writers; and a writer that gets on does not go back to sleep.
KeepsReaders(t) ==
    /\ WillWakeReaders(t) => WillWakeReaders(t)' \/ ~SleepingReader'
    /\ \A u \in Threads : waiting'[u] = "reader" => waiting[u] = "reader" \/ (lck'.r_waiting /\ Busy')
    /\ lck.r_waiting => lck'.r_waiting \/ WillWakeReaders(t)'
    /\ Busy /\ ~Busy' /\ lck.r_waiting =>
          WillWakeReaders(t)' \/ (priv_excl /\ lck.w_waiting /\ ~OnTheWay(t) /\ WakesWriters(t)')
    /\ pc[t] \in {"exWant", "exWantIlk"} =>
          Busy' \/ (pc'[t] \in {"exWant", "exWantIlk"} /\ waiting'[t] = "none")

\* Every step of a thread keeps the promise to the sleeping readers.
LEMMA StepKeepsReaders ==
    ASSUME IInv, NEW t \in Threads, Continue(t) \/ Request(t), priv_excl' = priv_excl
    PROVE  KeepsReaders(t)
<1>a. TypeOK /\ lck \in Word /\ BitsOwned /\ HoldsExclude /\ priv_excl' = priv_excl
  BY Zenon DEF IInv, TypeOK
<1>b. pc[t] \in SharedPcs => lck.shared_count # 0
  BY ReadersFinite, Zenon DEF IInv, SharedCountExact, Readers
<1> USE DEF At, TakeInterlock, SleepOn, Store, StoreKeepPrior, Count, Held, WakeAll, Goto
<1>1. ASSUME lck_rw_lock_shared_fast(t) PROVE KeepsReaders(t)
  BY <1>a, <1>b, <1>1 DEF lck_rw_lock_shared_fast, AddReader, TypeOK, Word, BitsOwned,
     HoldsExclude, KeepsReaders, OnTheWay, SleepingReader, WillWakeReaders, WakesReaders,
     WakesWriters,
     Busy, SharedPcs, UpgradePcs, WritePcs, ExclPcs
<1>2. ASSUME lck_rw_grab_shared(t) PROVE KeepsReaders(t)
  BY <1>a, <1>b, <1>2 DEF lck_rw_grab_shared, AddReader, TypeOK, Word, BitsOwned,
     HoldsExclude, KeepsReaders, OnTheWay, SleepingReader, WillWakeReaders, WakesReaders,
     WakesWriters,
     Busy, SharedPcs, UpgradePcs, WritePcs, ExclPcs
<1>3. ASSUME lck_rw_lock_shared_deadline(t) PROVE KeepsReaders(t)
  BY <1>a, <1>b, <1>3, Zenon DEF lck_rw_lock_shared_deadline, TypeOK, Word, BitsOwned,
     HoldsExclude, KeepsReaders, OnTheWay, SleepingReader, WillWakeReaders, WakesReaders,
     WakesWriters,
     Busy, SharedPcs, UpgradePcs, WritePcs, ExclPcs
<1>4. ASSUME lck_rw_lock_shared_gen(t) PROVE KeepsReaders(t)
  <2>1. Shares(t)
    BY <1>a, <1>4, ShareStep, Zenon
  <2> QED
    BY <1>a, <1>b, <2>1 DEF Shares, WordNext, TypeOK, Word, BitsOwned, HoldsExclude,
       KeepsReaders, OnTheWay, SleepingReader, WillWakeReaders, WakesReaders, WakesWriters,
     Busy, SharedPcs, UpgradePcs, WritePcs, ExclPcs
<1>5. ASSUME lck_rw_try_lock_shared_count(t) PROVE KeepsReaders(t)
  BY <1>a, <1>b, <1>5, Zenon DEF lck_rw_try_lock_shared_count, TypeOK, Word, BitsOwned,
     HoldsExclude, KeepsReaders, OnTheWay, SleepingReader, WillWakeReaders, WakesReaders,
     WakesWriters,
     Busy, SharedPcs, UpgradePcs, WritePcs, ExclPcs
<1>6. ASSUME lck_rw_lock_exclusive_fast(t) PROVE KeepsReaders(t)
  BY <1>a, <1>b, <1>6, Zenon DEF lck_rw_lock_exclusive_fast, SetWantWrite, TypeOK, Word,
     BitsOwned, HoldsExclude, KeepsReaders, OnTheWay, SleepingReader, WillWakeReaders,
     WakesReaders, WakesWriters,
     Busy, SharedPcs, UpgradePcs, WritePcs, ExclPcs
<1>7. ASSUME lck_rw_grab_want(t) PROVE KeepsReaders(t)
  BY <1>a, <1>b, <1>7, Zenon DEF lck_rw_grab_want, SetWantWrite, TypeOK, Word, BitsOwned,
     HoldsExclude, KeepsReaders, OnTheWay, SleepingReader, WillWakeReaders, WakesReaders,
     WakesWriters,
     Busy, SharedPcs, UpgradePcs, WritePcs, ExclPcs
<1>8. ASSUME lck_rw_lock_exclusive_want_deadline(t) PROVE KeepsReaders(t)
  BY <1>a, <1>b, <1>8, Zenon DEF lck_rw_lock_exclusive_want_deadline, TypeOK, Word,
     BitsOwned, HoldsExclude, KeepsReaders, OnTheWay, SleepingReader, WillWakeReaders,
     WakesReaders, WakesWriters,
     Busy, SharedPcs, UpgradePcs, WritePcs, ExclPcs
<1>9. ASSUME lck_rw_lock_exclusive_want(t) PROVE KeepsReaders(t)
  <2>1. Wants(t)
    BY <1>a, <1>9, WantStep, Zenon
  <2> QED
    BY <1>a, <1>b, <2>1 DEF Wants, WordNext, TypeOK, Word, BitsOwned, HoldsExclude,
       KeepsReaders, OnTheWay, SleepingReader, WillWakeReaders, WakesReaders, WakesWriters,
     Busy, SharedPcs, UpgradePcs, WritePcs, ExclPcs
<1>10. ASSUME lck_rw_held_read_or_upgrade(t) PROVE KeepsReaders(t)
  BY <1>a, <1>b, <1>10, Zenon DEF lck_rw_held_read_or_upgrade, TypeOK, Word, BitsOwned,
     HoldsExclude, KeepsReaders, OnTheWay, SleepingReader, WillWakeReaders, WakesReaders,
     WakesWriters,
     Busy, SharedPcs, UpgradePcs, WritePcs, ExclPcs
<1>11. ASSUME lck_rw_lock_exclusive_drain_deadline(t) PROVE KeepsReaders(t)
  BY <1>a, <1>b, <1>11, Zenon DEF lck_rw_lock_exclusive_drain_deadline, TypeOK, Word,
     BitsOwned, HoldsExclude, KeepsReaders, OnTheWay, SleepingReader, WillWakeReaders,
     WakesReaders, WakesWriters,
     Busy, SharedPcs, UpgradePcs, WritePcs, ExclPcs
<1>12. ASSUME lck_rw_lock_exclusive_drain(t) PROVE KeepsReaders(t)
  <2>1. Drains(t)
    BY <1>a, <1>12, DrainStep, Zenon
  <2> QED
    BY <1>a, <1>b, <2>1 DEF Drains, WordNext, TypeOK, Word, BitsOwned, HoldsExclude,
       KeepsReaders, OnTheWay, SleepingReader, WillWakeReaders, WakesReaders, WakesWriters,
     Busy, SharedPcs, UpgradePcs, WritePcs, ExclPcs
<1>13. ASSUME lck_rw_try_lock_exclusive_count(t) PROVE KeepsReaders(t)
  BY <1>a, <1>b, <1>13, Zenon DEF lck_rw_try_lock_exclusive_count, TypeOK, Word, BitsOwned,
     HoldsExclude, KeepsReaders, OnTheWay, SleepingReader, WillWakeReaders, WakesReaders,
     WakesWriters,
     Busy, SharedPcs, UpgradePcs, WritePcs, ExclPcs
<1>14. ASSUME lck_rw_upgrade_drained(t) PROVE KeepsReaders(t)
  BY <1>a, <1>b, <1>14, Zenon DEF lck_rw_upgrade_drained, TypeOK, Word, BitsOwned,
     HoldsExclude, KeepsReaders, OnTheWay, SleepingReader, WillWakeReaders, WakesReaders,
     WakesWriters,
     Busy, SharedPcs, UpgradePcs, WritePcs, ExclPcs
<1>15. ASSUME lck_rw_upgrade_deadline(t) PROVE KeepsReaders(t)
  BY <1>a, <1>b, <1>15, Zenon DEF lck_rw_upgrade_deadline, TypeOK, Word, BitsOwned,
     HoldsExclude, KeepsReaders, OnTheWay, SleepingReader, WillWakeReaders, WakesReaders,
     WakesWriters,
     Busy, SharedPcs, UpgradePcs, WritePcs, ExclPcs
<1>16. ASSUME lck_rw_lock_shared_to_exclusive_success(t) PROVE KeepsReaders(t)
  <2>1. Upgrades(t)
    BY <1>a, <1>16, UpgradeStep, Zenon
  <2> QED
    BY <1>a, <1>b, <2>1 DEF Upgrades, WordNext, TypeOK, Word, BitsOwned, HoldsExclude,
       KeepsReaders, OnTheWay, SleepingReader, WillWakeReaders, WakesReaders, WakesWriters,
     Busy, SharedPcs, UpgradePcs, WritePcs, ExclPcs
<1>17. ASSUME lck_rw_upgrade_failure_drop(t) PROVE KeepsReaders(t)
  BY <1>a, <1>b, <1>17, Zenon DEF lck_rw_upgrade_failure_drop, TypeOK, Word, BitsOwned,
     HoldsExclude, KeepsReaders, OnTheWay, SleepingReader, WillWakeReaders, WakesReaders,
     WakesWriters,
     Busy, SharedPcs, UpgradePcs, WritePcs, ExclPcs
<1>18. ASSUME lck_rw_lock_shared_to_exclusive_failure(t) PROVE KeepsReaders(t)
  BY <1>a, <1>b, <1>18, SMTT(20) DEF lck_rw_lock_shared_to_exclusive_failure, TypeOK, Word,
     BitsOwned, HoldsExclude, KeepsReaders, OnTheWay, SleepingReader, WillWakeReaders,
     WakesReaders, WakesWriters,
     Busy, SharedPcs, UpgradePcs, WritePcs, ExclPcs
<1>19. ASSUME lck_rw_lock_exclusive_to_shared_gen(t) PROVE KeepsReaders(t)
  BY <1>a, <1>b, <1>19 DEF lck_rw_lock_exclusive_to_shared_gen, TypeOK, Word, BitsOwned,
     HoldsExclude, KeepsReaders, OnTheWay, SleepingReader, WillWakeReaders, WakesReaders,
     WakesWriters,
     Busy, SharedPcs, UpgradePcs, WritePcs, ExclPcs
<1>20. ASSUME lck_rw_done_gen_writers(t) PROVE KeepsReaders(t)
  BY <1>a, <1>b, <1>20, SMTT(20) DEF lck_rw_done_gen_writers, TypeOK, Word, BitsOwned,
     HoldsExclude, KeepsReaders, OnTheWay, SleepingReader, WillWakeReaders, WakesReaders,
     WakesWriters,
     Busy, SharedPcs, UpgradePcs, WritePcs, ExclPcs
<1>21. ASSUME lck_rw_done_gen_readers(t) PROVE KeepsReaders(t)
  BY <1>a, <1>b, <1>21 DEF lck_rw_done_gen_readers, TypeOK, Word, BitsOwned, HoldsExclude,
     KeepsReaders, OnTheWay, SleepingReader, WillWakeReaders, WakesReaders, WakesWriters,
     Busy, SharedPcs, UpgradePcs, WritePcs, ExclPcs
<1>22. ASSUME lck_rw_done_gen_drop(t) PROVE KeepsReaders(t)
  BY <1>a, <1>b, <1>22, Zenon DEF lck_rw_done_gen_drop, TypeOK, Word, BitsOwned,
     HoldsExclude, KeepsReaders, OnTheWay, SleepingReader, WillWakeReaders, WakesReaders,
     WakesWriters,
     Busy, SharedPcs, UpgradePcs, WritePcs, ExclPcs
<1>23. ASSUME lck_rw_clear_promotion(t) PROVE KeepsReaders(t)
  BY <1>a, <1>b, <1>23, Zenon DEF lck_rw_clear_promotion, TypeOK, Word, BitsOwned,
     HoldsExclude, KeepsReaders, OnTheWay, SleepingReader, WillWakeReaders, WakesReaders,
     WakesWriters,
     Busy, SharedPcs, UpgradePcs, WritePcs, ExclPcs
<1>24. ASSUME lck_rw_lock_shared(t) PROVE KeepsReaders(t)
  BY <1>a, <1>b, <1>24, Zenon DEF lck_rw_lock_shared, TypeOK, Word, BitsOwned, HoldsExclude,
     KeepsReaders, OnTheWay, SleepingReader, WillWakeReaders, WakesReaders, WakesWriters,
     Busy, SharedPcs, UpgradePcs, WritePcs, ExclPcs
<1>25. ASSUME lck_rw_try_lock_shared(t) PROVE KeepsReaders(t)
  BY <1>a, <1>b, <1>25 DEF lck_rw_try_lock_shared, AddReader, TypeOK, Word, BitsOwned,
     HoldsExclude, KeepsReaders, OnTheWay, SleepingReader, WillWakeReaders, WakesReaders,
     WakesWriters,
     Busy, SharedPcs, UpgradePcs, WritePcs, ExclPcs
<1>26. ASSUME lck_rw_lock_exclusive(t) PROVE KeepsReaders(t)
  BY <1>a, <1>b, <1>26, Zenon DEF lck_rw_lock_exclusive, TypeOK, Word, BitsOwned,
     HoldsExclude, KeepsReaders, OnTheWay, SleepingReader, WillWakeReaders, WakesReaders,
     WakesWriters,
     Busy, SharedPcs, UpgradePcs, WritePcs, ExclPcs
<1>27. ASSUME lck_rw_try_lock_exclusive(t) PROVE KeepsReaders(t)
  BY <1>a, <1>b, <1>27, Zenon DEF lck_rw_try_lock_exclusive, SetWantWrite, TypeOK, Word,
     BitsOwned, HoldsExclude, KeepsReaders, OnTheWay, SleepingReader, WillWakeReaders,
     WakesReaders, WakesWriters,
     Busy, SharedPcs, UpgradePcs, WritePcs, ExclPcs
<1>28. ASSUME lck_rw_lock_shared_to_exclusive(t) PROVE KeepsReaders(t)
  BY <1>a, <1>b, <1>28, Zenon DEF lck_rw_lock_shared_to_exclusive, DropReader, TypeOK, Word,
     BitsOwned, HoldsExclude, KeepsReaders, OnTheWay, SleepingReader, WillWakeReaders,
     WakesReaders, WakesWriters,
     Busy, SharedPcs, UpgradePcs, WritePcs, ExclPcs
<1>29. ASSUME lck_rw_lock_shared_to_exclusive_lose(t) PROVE KeepsReaders(t)
  BY <1>a, <1>b, <1>29, Zenon DEF lck_rw_lock_shared_to_exclusive_lose, DropReader, TypeOK,
     Word, BitsOwned, HoldsExclude, KeepsReaders, OnTheWay, SleepingReader, WillWakeReaders,
     WakesReaders, WakesWriters,
     Busy, SharedPcs, UpgradePcs, WritePcs, ExclPcs
<1>30. ASSUME lck_rw_lock_exclusive_to_shared(t) PROVE KeepsReaders(t)
  BY <1>a, <1>b, <1>30 DEF lck_rw_lock_exclusive_to_shared, Downgraded, TypeOK, Word,
     BitsOwned, HoldsExclude, KeepsReaders, OnTheWay, SleepingReader, WillWakeReaders,
     WakesReaders, WakesWriters,
     Busy, SharedPcs, UpgradePcs, WritePcs, ExclPcs
<1>31. ASSUME lck_rw_done(t) PROVE KeepsReaders(t)
  BY <1>a, <1>b, <1>31 DEF lck_rw_done, Released, DropHold, DropReader, TypeOK, Word,
     BitsOwned, HoldsExclude, KeepsReaders, OnTheWay, SleepingReader, WillWakeReaders,
     WakesReaders, WakesWriters,
     Busy, SharedPcs, UpgradePcs, WritePcs, ExclPcs
<1> QED
  BY <1>1, <1>2, <1>3, <1>4, <1>5, <1>6, <1>7, <1>8, <1>9, <1>10, <1>11, <1>12, <1>13, <1>14,
     <1>15, <1>16, <1>17, <1>18, <1>19, <1>20, <1>21, <1>22, <1>23, <1>24, <1>25, <1>26,
     <1>27, <1>28, <1>29, <1>30, <1>31, Zenon DEF Continue, Request

\* A step of that kind forgets no sleeping reader.
LEMMA KeepsReadersSuffices ==
    ASSUME IInv, IInv', WriterBitExplained, ReadersNotForgotten, priv_excl' = priv_excl,
           NEW t \in Threads, KeepsWriters(t), KeepsReaders(t)
    PROVE  ReadersNotForgotten'
<1> DEFINE Safe == (lck.r_waiting /\ (Busy \/ (priv_excl /\ WriterComing)))' \/ \E u \in Threads : WillWakeReaders(u)'
<1> SUFFICES ASSUME SleepingReader' PROVE Safe
  BY Zenon DEF ReadersNotForgotten, SleepingReader
<1>1. CASE ~SleepingReader
  BY <1>1, Zenon DEF KeepsReaders, SleepingReader
<1>2. CASE \E u \in Threads : WillWakeReaders(u)
  <2>1. PICK u \in Threads : WillWakeReaders(u)
    BY <1>2, Zenon
  <2>2. CASE u = t
    BY <2>1, <2>2, Zenon DEF KeepsReaders
  <2>3. CASE u # t
    <3>1. WillWakeReaders(u)'
      BY <2>1, <2>3, Zenon DEF KeepsWriters, WillWakeReaders, WakesReaders
    <3> QED
      BY <3>1, Zenon
  <2> QED
    BY <2>2, <2>3, Zenon
<1>3. CASE lck.r_waiting /\ (Busy \/ (priv_excl /\ WriterComing))
  <2> SUFFICES ASSUME lck'.r_waiting, ~Busy', ~WillWakeReaders(t)' PROVE priv_excl /\ WriterComing'
    BY <1>3, Zenon DEF KeepsReaders
  <2>a. \A u \in Threads : u # t => pc'[u] = pc[u]
    BY Zenon DEF KeepsWriters
  <2>1. CASE Busy
    <3>1. priv_excl /\ lck.w_waiting /\ ~OnTheWay(t) /\ WakesWriters(t)'
      BY <1>3, <2>1, Zenon DEF KeepsReaders
    <3>2. PICK u \in Threads : InTheWay(u)
      BY <3>1, Zenon DEF WriterBitExplained
    <3>3. OnTheWay(u) /\ u # t
      BY <3>1, <3>2, Zenon DEF InTheWay, OnTheWay
    <3>4. pc'[u] = pc[u] /\ pc[u] \notin WritePcs /\ pc[u] \notin UpgradePcs
      BY <2>a, <3>3, Zenon DEF IInv, BitsOwned, Busy, Held
    <3>5. pc'[u] \in {"exWant", "exWantIlk"}
      BY <3>3, <3>4, Zenon DEF OnTheWay, WritePcs, UpgradePcs
    <3> QED
      BY <3>1, <3>5, Zenon DEF WriterComing
  <2>2. CASE priv_excl /\ WriterComing
    <3>1. PICK u \in Threads : /\ pc[u] \in {"exWant", "exWantIlk"}
                               /\ waiting[u] = "none" \/ \E v \in Threads : WakesWriters(v)
      BY <2>2, Zenon DEF WriterComing
    <3>2. CASE u = t
      BY <2>2, <3>1, <3>2, Zenon DEF KeepsReaders, WriterComing
    <3>3. CASE u # t
      <4>1. pc'[u] \in {"exWant", "exWantIlk"}
        BY <2>a, <3>1, <3>3, Zenon
      <4>2. waiting'[u] \in {"none", "writer"}
        BY <4>1, Zenon DEF IInv, TypeOK, Events, HoldsExclude
      <4>3. waiting'[u] = "writer" => waiting[u] = "writer"
        BY Zenon DEF KeepsWriters
      <4>4. waiting'[u] = "writer" => \E v \in Threads : WakesWriters(v)'
        <5> SUFFICES ASSUME waiting'[u] = "writer" PROVE \E v \in Threads : WakesWriters(v)'
          BY Zenon
        <5>1. PICK v \in Threads : WakesWriters(v)
          BY <3>1, <4>3, Zenon
        <5>2. CASE v = t
          BY <5>1, <5>2, Zenon DEF KeepsWriters, SleepingWriter
        <5>3. CASE v # t
          <6>1. WakesWriters(v)'
            BY <5>1, <5>3, Zenon DEF KeepsWriters, WakesWriters
          <6> QED
            BY <6>1, Zenon
        <5> QED
          BY <5>2, <5>3, Zenon
      <4>5. waiting'[u] = "none" \/ \E v \in Threads : WakesWriters(v)'
        BY <4>2, <4>4, Zenon
      <4> QED
        BY <2>2, <4>1, <4>5, Zenon DEF WriterComing
    <3> QED
      BY <3>2, <3>3, Zenon
  <2> QED
    BY <1>3, <2>1, <2>2, Zenon
<1> QED
  BY <1>1, <1>2, <1>3, Zenon DEF ReadersNotForgotten, SleepingReader

\* A step of a thread that only changes the priority floor, or no step at all.
LEMMA QuietStep ==
    ASSUME UNCHANGED <<lck, pc, prior, waiting, priv_excl>>
    PROVE  /\ WriterBitExplained => WriterBitExplained'
           /\ ReadersNotForgotten => ReadersNotForgotten'
<1>1. WriterBitExplained => WriterBitExplained'
  BY Zenon DEF WriterBitExplained, InTheWay, Busy, Held
<1>2. ReadersNotForgotten => ReadersNotForgotten'
  BY Zenon DEF ReadersNotForgotten, WriterComing, WillWakeReaders, WakesReaders,
     WakesWriters, Busy, Held
<1> QED
  BY <1>1, <1>2, Zenon

\* A reader never sleeps on a lock that nobody holds unless its wakeup is on the
\* way, or that of a privileged writer that will hold the lock and wake it.
THEOREM ReadersAreWoken == Spec => []ReadersNotForgotten
<1> DEFINE RInv == WriterBitExplained /\ ReadersNotForgotten
<1>1. Init => RInv
  BY DEF Init, FreeWord, WriterBitExplained, ReadersNotForgotten
<1>2. IInv /\ IInv' /\ RInv /\ [Next]_vars => RInv'
  <2> SUFFICES ASSUME IInv, IInv', RInv, [Next]_vars PROVE RInv'
    BY Zenon
  <2>1. ASSUME NEW t \in Threads, Continue(t) \/ Request(t), priv_excl' = priv_excl PROVE RInv'
    <3>1. KeepsBit(t) /\ KeepsWriters(t) /\ KeepsReaders(t)
      BY <2>1, StepKeepsBit, StepKeepsWriters, StepKeepsReaders, Zenon
    <3> QED
      BY <2>1, <3>1, KeepsBitSuffices, KeepsReadersSuffices, Zenon
  <2>2. ASSUME NEW t \in Threads, thread_dispatch(t), priv_excl' = priv_excl PROVE RInv'
    BY <2>2, QuietStep, Zenon DEF thread_dispatch
  <2>3. CASE UNCHANGED vars
    BY <2>3, QuietStep, Zenon DEF vars
  <2> QED
    BY <2>1, <2>2, <2>3, Zenon DEF Next
<1>3. RInv => ReadersNotForgotten
  BY Zenon
<1> QED
  BY <1>1, <1>2, <1>3, Invariance, PTL DEF Spec

-----------------------------------------------------------------------------
(* The count of locks a thread holds. *)

\* Where a thread counts no lock, and where it has no priority floor to lose.
Uncounted == {"idle", "tryShared", "tryExcl", "demote", "upDemote", "upWake"}
Unpromoted == {"idle", "tryShared", "tryExcl", "upWake"}

CountAt(t) ==
    /\ rwlock_count[t] = IF pc[t] \in Uncounted THEN 0 ELSE 1
    /\ rw_promoted[t] => pc[t] \notin Unpromoted

\* The inductive invariant: the place in the code tells the count.
CountInv == \A t \in Threads : CountAt(t)

\* What a step of thread t does to the counts.
KeepsCount(t) ==
    /\ \A u \in Threads : u # t =>
          pc'[u] = pc[u] /\ rwlock_count'[u] = rwlock_count[u] /\ rw_promoted'[u] = rw_promoted[u]
    /\ CountAt(t)'

\* Every step of a thread moves its count as its hold.
LEMMA StepKeepsCount ==
    ASSUME TypeOK, NEW t \in Threads, Continue(t) \/ Request(t), CountAt(t)
    PROVE  KeepsCount(t)
<1>a. TypeOK /\ CountAt(t)
  BY Zenon
<1> USE DEF At, TakeInterlock, SleepOn, Store, StoreKeepPrior, Count, Goto
<1>1. ASSUME lck_rw_lock_shared_fast(t) PROVE KeepsCount(t)
  BY <1>a, <1>1, Zenon DEF lck_rw_lock_shared_fast, AddReader, TypeOK, KeepsCount, CountAt,
     Uncounted, Unpromoted
<1>2. ASSUME lck_rw_grab_shared(t) PROVE KeepsCount(t)
  BY <1>a, <1>2, Zenon DEF lck_rw_grab_shared, AddReader, TypeOK, KeepsCount, CountAt,
     Uncounted, Unpromoted
<1>3. ASSUME lck_rw_lock_shared_deadline(t) PROVE KeepsCount(t)
  BY <1>a, <1>3, Zenon DEF lck_rw_lock_shared_deadline, TypeOK, KeepsCount, CountAt,
     Uncounted, Unpromoted
<1>4. ASSUME lck_rw_lock_shared_gen(t) PROVE KeepsCount(t)
  BY <1>a, <1>4, Zenon DEF lck_rw_lock_shared_gen, AddReader, Unlocked, TypeOK, KeepsCount, CountAt,
     Uncounted, Unpromoted
<1>5. ASSUME lck_rw_try_lock_shared_count(t) PROVE KeepsCount(t)
  BY <1>a, <1>5 DEF lck_rw_try_lock_shared_count, TypeOK, KeepsCount, CountAt,
     Uncounted, Unpromoted
<1>6. ASSUME lck_rw_lock_exclusive_fast(t) PROVE KeepsCount(t)
  BY <1>a, <1>6, Zenon DEF lck_rw_lock_exclusive_fast, SetWantWrite, TypeOK, KeepsCount, CountAt,
     Uncounted, Unpromoted
<1>7. ASSUME lck_rw_grab_want(t) PROVE KeepsCount(t)
  BY <1>a, <1>7, Zenon DEF lck_rw_grab_want, SetWantWrite, TypeOK, KeepsCount, CountAt,
     Uncounted, Unpromoted
<1>8. ASSUME lck_rw_lock_exclusive_want_deadline(t) PROVE KeepsCount(t)
  BY <1>a, <1>8, Zenon DEF lck_rw_lock_exclusive_want_deadline, TypeOK, KeepsCount, CountAt,
     Uncounted, Unpromoted
<1>9. ASSUME lck_rw_lock_exclusive_want(t) PROVE KeepsCount(t)
  BY <1>a, <1>9, Zenon DEF lck_rw_lock_exclusive_want, SetWantWrite, SetWWaiting, Unlocked,
     TypeOK, KeepsCount, CountAt,
     Uncounted, Unpromoted
<1>10. ASSUME lck_rw_held_read_or_upgrade(t) PROVE KeepsCount(t)
  BY <1>a, <1>10, Zenon DEF lck_rw_held_read_or_upgrade, TypeOK, KeepsCount, CountAt,
     Uncounted, Unpromoted
<1>11. ASSUME lck_rw_lock_exclusive_drain_deadline(t) PROVE KeepsCount(t)
  BY <1>a, <1>11, Zenon DEF lck_rw_lock_exclusive_drain_deadline, TypeOK, KeepsCount, CountAt,
     Uncounted, Unpromoted
<1>12. ASSUME lck_rw_lock_exclusive_drain(t) PROVE KeepsCount(t)
  BY <1>a, <1>12, Zenon DEF lck_rw_lock_exclusive_drain, SetWWaiting, Unlocked, TypeOK,
     KeepsCount, CountAt,
     Uncounted, Unpromoted
<1>13. ASSUME lck_rw_try_lock_exclusive_count(t) PROVE KeepsCount(t)
  BY <1>a, <1>13 DEF lck_rw_try_lock_exclusive_count, TypeOK, KeepsCount, CountAt,
     Uncounted, Unpromoted
<1>14. ASSUME lck_rw_upgrade_drained(t) PROVE KeepsCount(t)
  BY <1>a, <1>14, Zenon DEF lck_rw_upgrade_drained, TypeOK, KeepsCount, CountAt,
     Uncounted, Unpromoted
<1>15. ASSUME lck_rw_upgrade_deadline(t) PROVE KeepsCount(t)
  BY <1>a, <1>15, Zenon DEF lck_rw_upgrade_deadline, TypeOK, KeepsCount, CountAt,
     Uncounted, Unpromoted
<1>16. ASSUME lck_rw_lock_shared_to_exclusive_success(t) PROVE KeepsCount(t)
  BY <1>a, <1>16, Zenon DEF lck_rw_lock_shared_to_exclusive_success, SetWWaiting, Unlocked,
     TypeOK, KeepsCount, CountAt,
     Uncounted, Unpromoted
<1>17. ASSUME lck_rw_upgrade_failure_drop(t) PROVE KeepsCount(t)
  BY <1>a, <1>17 DEF lck_rw_upgrade_failure_drop, TypeOK, KeepsCount, CountAt,
     Uncounted, Unpromoted
<1>18. ASSUME lck_rw_lock_shared_to_exclusive_failure(t) PROVE KeepsCount(t)
  BY <1>a, <1>18, Zenon DEF lck_rw_lock_shared_to_exclusive_failure, TypeOK, KeepsCount, CountAt,
     Uncounted, Unpromoted
<1>19. ASSUME lck_rw_lock_exclusive_to_shared_gen(t) PROVE KeepsCount(t)
  BY <1>a, <1>19, Zenon DEF lck_rw_lock_exclusive_to_shared_gen, TypeOK, KeepsCount, CountAt,
     Uncounted, Unpromoted
<1>20. ASSUME lck_rw_done_gen_writers(t) PROVE KeepsCount(t)
  BY <1>a, <1>20, Zenon DEF lck_rw_done_gen_writers, TypeOK, KeepsCount, CountAt,
     Uncounted, Unpromoted
<1>21. ASSUME lck_rw_done_gen_readers(t) PROVE KeepsCount(t)
  BY <1>a, <1>21, Zenon DEF lck_rw_done_gen_readers, TypeOK, KeepsCount, CountAt,
     Uncounted, Unpromoted
<1>22. ASSUME lck_rw_done_gen_drop(t) PROVE KeepsCount(t)
  BY <1>a, <1>22 DEF lck_rw_done_gen_drop, TypeOK, KeepsCount, CountAt,
     Uncounted, Unpromoted
<1>23. ASSUME lck_rw_clear_promotion(t) PROVE KeepsCount(t)
  BY <1>a, <1>23, Zenon DEF lck_rw_clear_promotion, TypeOK, KeepsCount, CountAt,
     Uncounted, Unpromoted
<1>24. ASSUME lck_rw_lock_shared(t) PROVE KeepsCount(t)
  BY <1>a, <1>24 DEF lck_rw_lock_shared, TypeOK, KeepsCount, CountAt,
     Uncounted, Unpromoted
<1>25. ASSUME lck_rw_try_lock_shared(t) PROVE KeepsCount(t)
  BY <1>a, <1>25, Zenon DEF lck_rw_try_lock_shared, AddReader, TypeOK, KeepsCount, CountAt,
     Uncounted, Unpromoted
<1>26. ASSUME lck_rw_lock_exclusive(t) PROVE KeepsCount(t)
  BY <1>a, <1>26 DEF lck_rw_lock_exclusive, TypeOK, KeepsCount, CountAt,
     Uncounted, Unpromoted
<1>27. ASSUME lck_rw_try_lock_exclusive(t) PROVE KeepsCount(t)
  BY <1>a, <1>27, Zenon DEF lck_rw_try_lock_exclusive, SetWantWrite, TypeOK, KeepsCount, CountAt,
     Uncounted, Unpromoted
<1>28. ASSUME lck_rw_lock_shared_to_exclusive(t) PROVE KeepsCount(t)
  BY <1>a, <1>28, Zenon DEF lck_rw_lock_shared_to_exclusive, DropReader, TypeOK, KeepsCount,
     CountAt,
     Uncounted, Unpromoted
<1>29. ASSUME lck_rw_lock_shared_to_exclusive_lose(t) PROVE KeepsCount(t)
  BY <1>a, <1>29, Zenon DEF lck_rw_lock_shared_to_exclusive_lose, DropReader, TypeOK,
     KeepsCount, CountAt,
     Uncounted, Unpromoted
<1>30. ASSUME lck_rw_lock_exclusive_to_shared(t) PROVE KeepsCount(t)
  BY <1>a, <1>30, Zenon DEF lck_rw_lock_exclusive_to_shared, Downgraded, TypeOK, KeepsCount,
     CountAt,
     Uncounted, Unpromoted
<1>31. ASSUME lck_rw_done(t) PROVE KeepsCount(t)
  BY <1>a, <1>31, Zenon DEF lck_rw_done, Released, DropHold, DropReader, TypeOK, KeepsCount,
     CountAt,
     Uncounted, Unpromoted
<1> QED
  BY <1>1, <1>2, <1>3, <1>4, <1>5, <1>6, <1>7, <1>8, <1>9, <1>10, <1>11, <1>12, <1>13, <1>14,
     <1>15, <1>16, <1>17, <1>18, <1>19, <1>20, <1>21, <1>22, <1>23, <1>24, <1>25, <1>26,
     <1>27, <1>28, <1>29, <1>30, <1>31, Zenon DEF Continue, Request

\* rwlock_count covers every hold, and the priority floor ends with it.
THEOREM CountTracks == Spec => []CountTracksHold
<1>1. Init => CountInv
  BY Zenon DEF Init, CountInv, CountAt, Uncounted
<1>2. TypeOK /\ CountInv /\ [Next]_vars => CountInv'
  <2> SUFFICES ASSUME TypeOK, CountInv, [Next]_vars PROVE CountInv'
    BY Zenon
  <2>1. ASSUME NEW t \in Threads, Continue(t) \/ Request(t) PROVE CountInv'
    <3>1. KeepsCount(t)
      BY <2>1, StepKeepsCount, Zenon DEF CountInv
    <3>2. ASSUME NEW u \in Threads, u # t PROVE CountAt(u)'
      BY <3>1, <3>2, Zenon DEF KeepsCount, CountInv, CountAt
    <3> QED
      BY <3>1, <3>2, Zenon DEF KeepsCount, CountInv
  <2>2. ASSUME NEW t \in Threads, thread_dispatch(t) PROVE CountInv'
    BY <2>2, Zenon DEF thread_dispatch, TypeOK, CountInv, CountAt, Uncounted, Unpromoted
  <2>3. CASE UNCHANGED vars
    BY <2>3, Zenon DEF vars, CountInv, CountAt
  <2> QED
    BY <2>1, <2>2, <2>3, Zenon DEF Next
<1>3. CountInv => CountTracksHold
  BY DEF CountInv, CountAt, CountTracksHold, Uncounted, Unpromoted, SharedPcs, ExclPcs
<1> QED
  BY <1>1, <1>2, <1>3, TypeCorrect, PTL DEF Spec
==============================================================================
