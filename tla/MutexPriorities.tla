-------------------------- MODULE MutexPriorities --------------------------
(***************************************************************************)
(* The priority that waiters lend to the holder of a lck_mtx_t, for every  *)
(* set of threads, mutexes and priorities.  The promotion count of a       *)
(* thread is the number of words whose promoted bit was set for it: the    *)
(* owner field says for whom, and a release keeps the bit in its copy of   *)
(* the word until the promotion is taken back.                             *)
(***************************************************************************)
EXTENDS MutexProofs, FiniteSetTheorems

\* The owner field outlives the hold only on the way through a release.
OwnerHolds ==
    \A m \in Mutexes, t \in Threads :
        owner[m] = t => m \in held[t] \/ (pc[t] = "release" /\ obj[t] = m)

\* A promoted bit has an owner whom it promoted.
PromotedOwned == \A m \in Mutexes : mtx[m].promoted => owner[m] # None

\* A thread that was promoted when it was woken contends until it acquires.
WokenPcs == {"spin", "spun", "spinIlk", "slow", "slowIlk", "acquiredSlow", "asleep"}
WokenContends == \A t \in Threads : was_promoted[t] => pc[t] \in WokenPcs

\* A thread that wakes and demotes has given the mutex back.
ReleasedNotHeld == \A t \in Threads : pc[t] \in {"wake", "demote"} => obj[t] \notin held[t]

\* PromotionsExact for thread t, without its last part, which follows.
Exact(t) ==
    /\ promotions[t] = Cardinality(PromotedFor(t))
    /\ promoted[t] <=> promotions[t] # 0 \/ was_promoted[t]
    /\ ~promoted[t] => sched_pri[t] = BasePri[t]

Lent ==
    /\ OwnerHolds
    /\ PromotedOwned
    /\ WokenContends
    /\ ReleasedNotHeld
    /\ \A t \in Threads : Exact(t)

PInv == IInv /\ Lent

\* The mutexes a thread is promoted for are finitely many.
LEMMA PromotedForFinite ==
    ASSUME NEW t
    PROVE  /\ IsFiniteSet(PromotedFor(t)) /\ Cardinality(PromotedFor(t)) \in Nat
           /\ Cardinality(PromotedFor(t)) = 0 <=> PromotedFor(t) = {}
<1>1. PromotedFor(t) \subseteq Mutexes
  BY Zenon DEF PromotedFor
<1>2. IsFiniteSet(PromotedFor(t))
  BY <1>1, Finite, FS_Subset, Zenon
<1> QED
  BY <1>2, FS_EmptySet, FS_CardinalityType, Zenon

\* Nobody is promoted when every mutex is free.
LEMMA InitPInv == Init => PInv
<1> SUFFICES ASSUME Init PROVE PInv
  BY Zenon
<1>1. \A t \in Threads : PromotedFor(t) = {}
  BY Zenon DEF Init, PromotedFor, FreeWord
<1>2. \A t \in Threads : promotions[t] = Cardinality(PromotedFor(t))
  BY <1>1, FS_EmptySet, Zenon DEF Init
<1>3. \A t \in Threads : Exact(t)
  BY <1>2, Zenon DEF Init, Exact
<1>4. OwnerHolds /\ PromotedOwned /\ WokenContends /\ ReleasedNotHeld
  BY NoneIsNoThread, Zenon DEF Init, OwnerHolds, PromotedOwned, WokenContends, ReleasedNotHeld, FreeWord
<1> QED
  BY <1>3, <1>4, InitIInv, Zenon DEF PInv, Lent

-----------------------------------------------------------------------------
(* What a step does to the promotions of one thread. *)

\* Nothing.
LEMMA ExactSame ==
    ASSUME NEW u \in Threads, Exact(u), PromotedFor(u)' = PromotedFor(u),
           promotions'[u] = promotions[u], promoted'[u] = promoted[u],
           sched_pri'[u] = sched_pri[u], was_promoted'[u] = was_promoted[u]
    PROVE  Exact(u)'
  BY Zenon DEF Exact

\* It is promoted for m, which may have promoted it before.
LEMMA ExactJoins ==
    ASSUME TypeOK, TypeOK', NEW u \in Threads, NEW m \in Mutexes, Exact(u),
           PromotedFor(u)' = PromotedFor(u) \cup {m},
           promotions'[u] = IF m \in PromotedFor(u) THEN promotions[u] ELSE promotions[u] + 1,
           promoted'[u] = (promoted[u] \/ m \notin PromotedFor(u))
    PROVE  Exact(u)'
<1> DEFINE S == PromotedFor(u)
<1>1. IsFiniteSet(S) /\ Cardinality(S) \in Nat /\ (Cardinality(S) = 0 <=> S = {})
  BY PromotedForFinite, Zenon
<1>2. promotions[u] = Cardinality(S) /\ (promotions[u] # 0 => promoted[u])
  BY Zenon DEF Exact
<1>3. CASE m \in S
  <2>1. S \cup {m} = S /\ promotions[u] # 0
    BY <1>1, <1>2, <1>3, Zenon
  <2>2. promotions'[u] = Cardinality(S \cup {m}) /\ promotions'[u] # 0 /\ promoted'[u]
    BY <1>2, <1>3, <2>1, Zenon
  <2> QED
    BY <2>2, Zenon DEF Exact
<1>4. CASE m \notin S
  <2>1. Cardinality(S \cup {m}) = Cardinality(S) + 1
    BY <1>1, <1>4, FS_AddElement, Zenon
  <2>2. promotions'[u] = Cardinality(S \cup {m}) /\ promotions'[u] # 0
    BY <1>1, <1>2, <1>4, <2>1
  <2>3. promoted'[u]
    BY <1>4, Zenon
  <2> QED
    BY <2>2, <2>3, Zenon DEF Exact
<1> QED
  BY <1>3, <1>4, Zenon

\* The promotion for m is taken back; with the last one goes the priority.
LEMMA ExactLeaves ==
    ASSUME TypeOK, NEW u \in Threads, NEW m \in PromotedFor(u), Exact(u),
           PromotedFor(u)' = PromotedFor(u) \ {m},
           promotions'[u] = promotions[u] - 1,
           promoted'[u] = (promoted[u] /\ promotions[u] # 1),
           promotions[u] = 1 => sched_pri'[u] = BasePri[u],
           ~was_promoted'[u]
    PROVE  Exact(u)'
<1> DEFINE S == PromotedFor(u)
<1>1. IsFiniteSet(S) /\ Cardinality(S) \in Nat /\ (Cardinality(S) = 0 <=> S = {})
  BY PromotedForFinite, Zenon
<1>2. promotions[u] = Cardinality(S) /\ (promotions[u] # 0 => promoted[u])
  BY Zenon DEF Exact
<1>3. promotions[u] # 0
  BY <1>1, <1>2, Zenon
<1>4. Cardinality(S \ {m}) = Cardinality(S) - 1
  BY <1>1, FS_RemoveElement, Zenon
<1>5. promotions'[u] = Cardinality(S \ {m}) /\ (promotions'[u] # 0 <=> promotions[u] # 1)
  BY <1>1, <1>2, <1>4
<1>6. promoted'[u] <=> promotions[u] # 1
  BY <1>2, <1>3, Zenon
<1> QED
  BY <1>5, <1>6, Zenon DEF Exact

-----------------------------------------------------------------------------
(* Each kind of step keeps the promotions exact. *)

\* The promoted bit in the words that the steps other than an acquisition, a
\* wait and a release store.
LEMMA WordPromoted ==
    ASSUME NEW v \in Word
    PROVE  /\ [v EXCEPT !.ilocked = TRUE, !.mlocked = TRUE].promoted = v.promoted
           /\ [v EXCEPT !.ilocked = TRUE, !.spin = TRUE].promoted = v.promoted
           /\ [v EXCEPT !.ilocked = TRUE].promoted = v.promoted
           /\ [v EXCEPT !.ilocked = FALSE].promoted = v.promoted
           /\ [v EXCEPT !.mlocked = TRUE].promoted = v.promoted
           /\ [v EXCEPT !.mlocked = FALSE, !.ilocked = TRUE].promoted = v.promoted
           /\ [v EXCEPT !.ilocked = FALSE, !.spin = FALSE, !.mlocked = TRUE].promoted = v.promoted
  BY Zenon DEF Word

\* A store that leaves the promoted bit of its word alone.
LEMMA SamePromoted ==
    ASSUME TypeOK, NEW m \in Mutexes, NEW w, w.promoted = mtx[m].promoted, Store(m, w)
    PROVE  \A k \in Mutexes : mtx'[k].promoted = mtx[k].promoted
  BY Zenon DEF TypeOK, Store

\* A step of t that touches no owner, no promoted bit and no priority, and
\* that is not part of the tail of a release.
Quiet(t, p, o, e, h) ==
    /\ pc' = [pc EXCEPT ![t] = p] /\ obj' = [obj EXCEPT ![t] = o]
    /\ ecx' = [ecx EXCEPT ![t] = e] /\ held' = [held EXCEPT ![t] = h]
    /\ owner' = owner /\ prio' = prio
    /\ \A k \in Mutexes : mtx'[k].promoted = mtx[k].promoted
    /\ pc[t] \notin {"wake", "demote"} /\ p \notin {"wake", "demote"}
    /\ \A k \in Mutexes : owner[k] = t => k \in h \/ (p = "release" /\ o = k)
    /\ pc[t] \in WokenPcs => p \in WokenPcs

\* Such a step keeps the promotions exact.
LEMMA QuietLent ==
    ASSUME PInv, NEW t \in Threads, NEW p, NEW o, NEW e, NEW h, Quiet(t, p, o, e, h)
    PROVE  Lent'
<1> /\ pc' = [pc EXCEPT ![t] = p] /\ obj' = [obj EXCEPT ![t] = o]
    /\ ecx' = [ecx EXCEPT ![t] = e] /\ held' = [held EXCEPT ![t] = h]
    /\ owner' = owner /\ prio' = prio
    /\ \A k \in Mutexes : mtx'[k].promoted = mtx[k].promoted
    /\ pc[t] \notin {"wake", "demote"} /\ p \notin {"wake", "demote"}
    /\ \A k \in Mutexes : owner[k] = t => k \in h \/ (p = "release" /\ o = k)
    /\ pc[t] \in WokenPcs => p \in WokenPcs
  BY Zenon DEF Quiet
<1>i. TypeOK /\ Lent
  BY Zenon DEF PInv, IInv
<1>1. /\ pc'[t] = p /\ obj'[t] = o /\ held'[t] = h
      /\ \A u \in Threads \ {t} : /\ pc'[u] = pc[u] /\ obj'[u] = obj[u]
                                  /\ ecx'[u] = ecx[u] /\ held'[u] = held[u]
  BY <1>i, Zenon DEF TypeOK
<1>2. /\ sched_pri' = sched_pri /\ promotions' = promotions
      /\ promoted' = promoted /\ was_promoted' = was_promoted
  BY Zenon DEF prio
<1>3. ASSUME NEW u \in Threads PROVE PromotedFor(u)' = PromotedFor(u)
  <2>1. ASSUME NEW k \in Mutexes PROVE k \in PromotedFor(u)' <=> k \in PromotedFor(u)
    BY <1>1, <1>3, Zenon DEF PromotedFor
  <2>2. PromotedFor(u)' \subseteq Mutexes /\ PromotedFor(u) \subseteq Mutexes
    BY Zenon DEF PromotedFor
  <2> QED
    BY <2>1, <2>2, Zenon
<1>4. ASSUME NEW u \in Threads PROVE Exact(u)'
  BY <1>i, <1>2, <1>3, ExactSame, Zenon DEF Lent
<1>5. OwnerHolds'
  BY <1>i, <1>1 DEF Lent, OwnerHolds
<1>6. PromotedOwned'
  BY <1>i, Zenon DEF Lent, PromotedOwned
<1>7. WokenContends'
  BY <1>i, <1>1, <1>2, Zenon DEF Lent, WokenContends
<1>8. ReleasedNotHeld'
  BY <1>i, <1>1, Zenon DEF Lent, ReleasedNotHeld
<1> QED
  BY <1>4, <1>5, <1>6, <1>7, <1>8, Zenon DEF Lent

\* Nobody owns a mutex that is free, or that t is about to be told it holds.
LEMMA NoOwnerYet ==
    ASSUME PInv, NEW m \in Mutexes,
           \/ Free(mtx[m])
           \/ \E t \in Threads : pc[t] \in {"acquired", "acquiredSlow"} /\ obj[t] = m
    PROVE  owner[m] = None /\ ~mtx[m].promoted
<1>i. TypeOK /\ IInv /\ OwnerHolds /\ PromotedOwned
  BY Zenon DEF PInv, Lent, IInv
<1>1. ASSUME NEW u \in Threads, owner[m] = u PROVE FALSE
  <2>1. Claims(u, m) /\ (m \in held[u] \/ (pc[u] = "release" /\ obj[u] = m))
    BY <1>i, <1>1, Zenon DEF OwnerHolds, Claims
  <2>2. CASE Free(mtx[m])
    BY <1>i, <2>1, <2>2, LocalForm, Outside, Zenon DEF Free
  <2>3. ASSUME NEW t \in Threads, pc[t] \in {"acquired", "acquiredSlow"}, obj[t] = m
        PROVE  FALSE
    <3>1. Claims(t, m) /\ m \notin held[t]
      BY <1>i, <2>3, Zenon DEF Claims, IInv, PointsAgree
    <3>2. u = t
      BY <1>i, <2>1, <3>1 DEF IInv, BitsOwned
    <3> QED
      BY <2>1, <2>3, <3>1, <3>2, Zenon
  <2> QED
    BY <2>2, <2>3, Zenon
<1>2. owner[m] = None
  BY <1>i, <1>1, Zenon DEF TypeOK
<1> QED
  BY <1>i, <1>2, Zenon DEF PromotedOwned

\* A spin hold: the owner is set, nobody is promoted for it.
LEMMA GrabSpinLent ==
    ASSUME PInv, NEW t \in Threads, NEW m \in Mutexes, GrabSpin(t, m), pc[t] = "idle"
    PROVE  Lent'
<1>i. TypeOK /\ Lent /\ mtx[m] \in Word
  BY Zenon DEF PInv, IInv, TypeOK
<1>n. owner[m] = None /\ ~mtx[m].promoted
  BY NoOwnerYet, Zenon DEF GrabSpin
<1>1. /\ UNCHANGED <<pc, obj, ecx, prio>> /\ owner' = [owner EXCEPT ![m] = t]
      /\ held' = [held EXCEPT ![t] = @ \cup {m}]
  BY Zenon DEF GrabSpin
<1>2. /\ held'[t] = held[t] \cup {m} /\ \A u \in Threads \ {t} : held'[u] = held[u]
      /\ owner'[m] = t /\ \A k \in Mutexes \ {m} : owner'[k] = owner[k]
  BY <1>i, <1>1, Zenon DEF TypeOK
<1>3. \A k \in Mutexes : mtx'[k].promoted = mtx[k].promoted
  BY <1>i, SamePromoted, WordPromoted, Zenon DEF GrabSpin
<1>4. /\ sched_pri' = sched_pri /\ promotions' = promotions
      /\ promoted' = promoted /\ was_promoted' = was_promoted
  BY <1>1, Zenon DEF prio
<1>5. ASSUME NEW u \in Threads PROVE PromotedFor(u)' = PromotedFor(u)
  <2>1. ASSUME NEW k \in Mutexes PROVE k \in PromotedFor(u)' <=> k \in PromotedFor(u)
    BY <1>n, <1>1, <1>2, <1>3, NoneIsNoThread, Zenon DEF PromotedFor
  <2>2. PromotedFor(u)' \subseteq Mutexes /\ PromotedFor(u) \subseteq Mutexes
    BY Zenon DEF PromotedFor
  <2> QED
    BY <2>1, <2>2, Zenon
<1>6. ASSUME NEW u \in Threads PROVE Exact(u)'
  BY <1>i, <1>4, <1>5, ExactSame, Zenon DEF Lent
<1>7. OwnerHolds'
  BY <1>i, <1>1, <1>2 DEF Lent, OwnerHolds
<1>8. PromotedOwned'
  BY <1>i, <1>n, <1>2, <1>3, Zenon DEF Lent, PromotedOwned
<1>9. WokenContends' /\ ReleasedNotHeld'
  BY <1>i, <1>1, <1>2, <1>4, Zenon DEF Lent, WokenContends, ReleasedNotHeld
<1> QED
  BY <1>6, <1>7, <1>8, <1>9, Zenon DEF Lent

\* Thread h is promoted for m, once.
Promotes(h, m) ==
    /\ promotions' = [promotions EXCEPT ![h] = IF mtx[m].promoted THEN @ ELSE @ + 1]
    /\ promoted' = [promoted EXCEPT ![h] = @ \/ ~mtx[m].promoted]
    /\ \A u \in Threads \ {h} : sched_pri'[u] = sched_pri[u] /\ was_promoted'[u] = was_promoted[u]

\* A step of t after which h owns m, promoted for it when promote is TRUE.
Lending(t, h, m, promote, p, e, s) ==
    /\ pc' = [pc EXCEPT ![t] = p] /\ obj' = obj /\ ecx' = [ecx EXCEPT ![t] = e]
    /\ held' = [held EXCEPT ![t] = s] /\ held[t] \subseteq s
    /\ owner' = [owner EXCEPT ![m] = h] /\ owner[m] \in {None, h}
    /\ \A k \in Mutexes \ {m} : mtx'[k].promoted = mtx[k].promoted
    /\ mtx'[m].promoted <=> mtx[m].promoted \/ promote
    /\ promote => Promotes(h, m)
    /\ ~promote => prio' = prio
    /\ pc[t] \notin {"release", "wake", "demote"} /\ p \notin {"wake", "demote"}
    /\ m \in held'[h]
    /\ h = t \/ m \in held[h]
    /\ \A u \in Threads \ {t} : was_promoted'[u] = was_promoted[u]
    /\ was_promoted'[t] => p \in WokenPcs

\* Such a step keeps the promotions exact.
LEMMA LendingLent ==
    ASSUME PInv, TypeOK', NEW t \in Threads, NEW h \in Threads, NEW m \in Mutexes,
           NEW promote \in BOOLEAN, NEW p, NEW e, NEW s, Lending(t, h, m, promote, p, e, s)
    PROVE  Lent'
<1> /\ pc' = [pc EXCEPT ![t] = p] /\ obj' = obj /\ ecx' = [ecx EXCEPT ![t] = e]
    /\ held' = [held EXCEPT ![t] = s] /\ held[t] \subseteq s
    /\ owner' = [owner EXCEPT ![m] = h] /\ owner[m] \in {None, h}
    /\ \A k \in Mutexes \ {m} : mtx'[k].promoted = mtx[k].promoted
    /\ mtx'[m].promoted <=> mtx[m].promoted \/ promote
    /\ promote => Promotes(h, m)
    /\ ~promote => prio' = prio
    /\ pc[t] \notin {"release", "wake", "demote"} /\ p \notin {"wake", "demote"}
    /\ m \in held'[h]
    /\ h = t \/ m \in held[h]
    /\ \A u \in Threads \ {t} : was_promoted'[u] = was_promoted[u]
    /\ was_promoted'[t] => p \in WokenPcs
  BY Zenon DEF Lending
<1>i. TypeOK /\ Lent
  BY Zenon DEF PInv, IInv
<1>n. owner[m] = None => ~mtx[m].promoted
  BY <1>i, Zenon DEF Lent, PromotedOwned
<1>1. /\ pc'[t] = p /\ held'[t] = s
      /\ \A u \in Threads \ {t} : pc'[u] = pc[u] /\ ecx'[u] = ecx[u] /\ held'[u] = held[u]
      /\ owner'[m] = h /\ \A k \in Mutexes \ {m} : owner'[k] = owner[k]
  BY <1>i DEF TypeOK
<1>2. ~(pc[h] \in {"wake", "demote"} /\ obj[h] = m) /\ ~(pc'[h] \in {"wake", "demote"} /\ obj'[h] = m)
  BY <1>i, <1>1 DEF Lent, ReleasedNotHeld
<1>3. /\ m \in PromotedFor(h) <=> mtx[m].promoted
      /\ m \in PromotedFor(h)' <=> mtx'[m].promoted
  BY <1>n, <1>1, <1>2, NoneIsNoThread DEF PromotedFor
<1>4. \A u \in Threads : PromotedFor(u)' \subseteq Mutexes /\ PromotedFor(u) \subseteq Mutexes
  BY Zenon DEF PromotedFor
<1>5. ASSUME NEW u \in Threads, NEW k \in Mutexes, u # h \/ k # m
      PROVE  k \in PromotedFor(u)' <=> k \in PromotedFor(u)
  BY <1>1, <1>5, NoneIsNoThread DEF PromotedFor
<1>6. ASSUME NEW u \in Threads, u # h PROVE Exact(u)'
  <2>1. PromotedFor(u)' = PromotedFor(u)
    BY <1>4, <1>5, <1>6, Zenon
  <2>2. /\ promotions'[u] = promotions[u] /\ promoted'[u] = promoted[u]
        /\ sched_pri'[u] = sched_pri[u] /\ was_promoted'[u] = was_promoted[u]
    BY <1>i, <1>6 DEF TypeOK, Promotes, prio
  <2> QED
    BY <1>i, <2>1, <2>2, ExactSame, Zenon DEF Lent
<1>7. Exact(h)'
  <2>1. CASE promote
    <3>1. PromotedFor(h)' = PromotedFor(h) \cup {m}
      BY <1>3, <1>4, <1>5, <2>1, Zenon
    <3>2. promotions'[h] = IF m \in PromotedFor(h) THEN promotions[h] ELSE promotions[h] + 1
      BY <1>i, <1>3, <2>1 DEF TypeOK, Promotes
    <3>3. promoted'[h] = (promoted[h] \/ m \notin PromotedFor(h))
      BY <1>i, <1>3, <2>1 DEF TypeOK, Promotes
    <3> QED
      BY <1>i, <3>1, <3>2, <3>3, ExactJoins, Zenon DEF Lent
  <2>2. CASE ~promote
    <3>1. PromotedFor(h)' = PromotedFor(h)
      <4>1. m \in PromotedFor(h)' <=> m \in PromotedFor(h)
        BY <1>3, <2>2, Zenon
      <4>2. \A k \in Mutexes : k \in PromotedFor(h)' <=> k \in PromotedFor(h)
        BY <1>5, <4>1, Zenon
      <4> QED
        BY <1>4, <4>2, Zenon
    <3>2. /\ promotions'[h] = promotions[h] /\ promoted'[h] = promoted[h]
          /\ sched_pri'[h] = sched_pri[h] /\ was_promoted'[h] = was_promoted[h]
      BY <2>2, Zenon DEF prio
    <3> QED
      BY <1>i, <3>1, <3>2, ExactSame, Zenon DEF Lent
  <2> QED
    BY <2>1, <2>2, Zenon
<1>8. OwnerHolds'
  <2>1. ASSUME NEW k \in Mutexes, NEW u \in Threads, owner'[k] = u
        PROVE  k \in held'[u] \/ (pc'[u] = "release" /\ obj'[u] = k)
    <3>1. CASE k = m
      BY <1>1, <2>1, <3>1, Zenon
    <3>2. CASE k # m
      BY <1>i, <1>1, <2>1, <3>2 DEF Lent, OwnerHolds
    <3> QED
      BY <3>1, <3>2, Zenon
  <2> QED
    BY <2>1, Zenon DEF OwnerHolds
<1>9. PromotedOwned'
  BY <1>i, <1>1, NoneIsNoThread DEF Lent, PromotedOwned
<1>10. WokenContends'
  <2>1. ASSUME NEW u \in Threads, u # t, was_promoted'[u] PROVE pc'[u] \in WokenPcs
    <3>1. was_promoted[u] /\ pc'[u] = pc[u]
      BY <1>1, <2>1, Zenon
    <3> QED
      BY <1>i, <3>1, Zenon DEF Lent, WokenContends
  <2>2. was_promoted'[t] => pc'[t] \in WokenPcs
    BY <1>1, Zenon
  <2> QED
    BY <2>1, <2>2, Zenon DEF WokenContends
<1>11. ReleasedNotHeld'
  BY <1>i, <1>1 DEF Lent, ReleasedNotHeld
<1> QED
  BY <1>6, <1>7, <1>8, <1>9, <1>10, <1>11 DEF Lent

\* An acquisition, and a spin hold that becomes a mutex: the word it stores
\* and the promotion agree.
LEMMA AcquireLends ==
    ASSUME TypeOK, NEW t \in Threads, NEW m \in Mutexes, NEW looks \in BOOLEAN,
           IF looks THEN lck_mtx_lock_acquire_x86(t, mtx[m]) ELSE prio' = prio,
           was_promoted[t] => looks
    PROVE  LET promote == looks /\ NeedsPromotion(t, mtx[m])
               v == IF looks THEN AcquiredWord(t, mtx[m]) ELSE mtx[m]
           IN /\ v \in Word /\ (v.promoted <=> mtx[m].promoted \/ promote)
              /\ promote => Promotes(t, m)
              /\ ~promote => prio' = prio
              /\ \A u \in Threads \ {t} : was_promoted'[u] = was_promoted[u]
              /\ ~was_promoted'[t]
<1> DEFINE promote == looks /\ NeedsPromotion(t, mtx[m])
           v == IF looks THEN AcquiredWord(t, mtx[m]) ELSE mtx[m]
<1>1. mtx[m] \in Word
  BY Zenon DEF TypeOK
<1>2. v \in Word /\ (v.promoted <=> mtx[m].promoted \/ promote)
  <2>1. AcquiredWord(t, mtx[m]).promoted <=> mtx[m].promoted \/ NeedsPromotion(t, mtx[m])
    BY <1>1, Zenon DEF AcquiredWord, Word
  <2> QED
    BY <1>1, <2>1, PromotedWord, Zenon
<1>3. CASE promote
  <2>1. /\ sched_pri' = [sched_pri EXCEPT ![t] = IF @ < Lends(mtx[m]) THEN Lends(mtx[m]) ELSE @]
        /\ promotions' = [promotions EXCEPT ![t] = IF mtx[m].promoted THEN @ ELSE @ + 1]
        /\ promoted' = [promoted EXCEPT ![t] = @ \/ ~mtx[m].promoted]
        /\ was_promoted' = [was_promoted EXCEPT ![t] = FALSE]
    BY <1>3, Zenon DEF lck_mtx_lock_acquire_x86
  <2>2. \A u \in Threads \ {t} : sched_pri'[u] = sched_pri[u] /\ was_promoted'[u] = was_promoted[u]
    BY <2>1, Zenon DEF TypeOK
  <2>3. ~was_promoted'[t]
    BY <2>1, Zenon DEF TypeOK
  <2> QED
    BY <1>2, <1>3, <2>1, <2>2, <2>3, Zenon DEF Promotes
<1>4. CASE ~promote
  <2>1. prio' = prio
    BY <1>4, Zenon DEF lck_mtx_lock_acquire_x86
  <2>2. was_promoted' = was_promoted
    BY <2>1, Zenon DEF prio
  <2>3. ~was_promoted[t]
    BY <1>4, Zenon DEF NeedsPromotion
  <2> QED
    BY <1>2, <1>4, <2>1, <2>2, <2>3, Zenon
<1> QED
  BY <1>3, <1>4, Zenon

\* A mutex has been taken: its waiters promote the new owner.
LEMMA FinishLent ==
    ASSUME PInv, TypeOK', NEW t \in Threads, NEW m \in Mutexes, obj[t] = m,
           lck_mtx_lock_finish(t)
    PROVE  Lent'
<1> DEFINE looks == mtx[m].waiters # 0 \/ (pc[t] = "acquiredSlow" /\ was_promoted[t])
           promote == looks /\ NeedsPromotion(t, mtx[m])
           v == IF looks THEN AcquiredWord(t, mtx[m]) ELSE mtx[m]
<1>i. TypeOK /\ Lent
  BY Zenon DEF PInv, IInv, TypeOK
<1>1. /\ pc[t] \in {"acquired", "acquiredSlow"} /\ owner' = [owner EXCEPT ![m] = t]
      /\ held' = [held EXCEPT ![t] = held[t] \cup {m}] /\ obj' = obj
      /\ pc' = [pc EXCEPT ![t] = "idle"] /\ ecx' = [ecx EXCEPT ![t] = ecx[t]]
  BY <1>i, Zenon DEF lck_mtx_lock_finish, Goto, TypeOK
<1>2. /\ IF looks THEN lck_mtx_lock_acquire_x86(t, mtx[m]) ELSE prio' = prio
      /\ Store(m, [v EXCEPT !.ilocked = FALSE])
  BY Zenon DEF lck_mtx_lock_finish
<1>3. was_promoted[t] => looks
  BY <1>i, <1>1, Zenon DEF Lent, WokenContends, WokenPcs
<1> looks \in BOOLEAN /\ promote \in BOOLEAN
  BY Zenon
<1> HIDE DEF looks
<1>4. /\ v \in Word /\ (v.promoted <=> mtx[m].promoted \/ promote)
      /\ promote => Promotes(t, m)
      /\ ~promote => prio' = prio
      /\ \A u \in Threads \ {t} : was_promoted'[u] = was_promoted[u]
      /\ ~was_promoted'[t]
  BY <1>i, <1>2, <1>3, AcquireLends, Zenon
<1> HIDE DEF v, promote
<1>5. /\ mtx'[m].promoted <=> mtx[m].promoted \/ promote
      /\ \A k \in Mutexes \ {m} : mtx'[k].promoted = mtx[k].promoted
  <2>1. [v EXCEPT !.ilocked = FALSE].promoted = v.promoted
    BY <1>4, WordPromoted, Zenon
  <2>2. mtx'[m] = [v EXCEPT !.ilocked = FALSE] /\ \A k \in Mutexes \ {m} : mtx'[k] = mtx[k]
    BY <1>i, <1>2, Zenon DEF Store, TypeOK
  <2> QED
    BY <1>4, <2>1, <2>2, Zenon
<1>6. owner[m] = None
  BY <1>i, <1>1, NoOwnerYet
<1>7. m \in held'[t]
  BY <1>i, <1>1, Zenon DEF TypeOK
<1>8. /\ pc[t] \notin {"release", "wake", "demote"} /\ "idle" \notin {"wake", "demote"}
      /\ held[t] \subseteq held[t] \cup {m} /\ owner[m] \in {None, t}
  BY <1>1, <1>6
<1>10. Lending(t, t, m, promote, "idle", ecx[t], held[t] \cup {m})
  BY <1>1, <1>4, <1>5, <1>7, <1>8, Zenon DEF Lending
<1> QED
  BY <1>10, LendingLent

\* A spin hold becomes a mutex: its waiters promote the owner.
LEMMA ConvertLent ==
    ASSUME PInv, TypeOK', NEW t \in Threads, NEW m \in Mutexes, lck_mtx_convert_spin(t, m)
    PROVE  Lent'
<1> DEFINE looks == mtx[m].waiters # 0
           promote == looks /\ NeedsPromotion(t, mtx[m])
           v == IF looks THEN AcquiredWord(t, mtx[m]) ELSE mtx[m]
<1>i. TypeOK /\ Lent /\ MutualExclusion
  BY Zenon DEF PInv, IInv
<1>1. /\ pc[t] = "idle" /\ m \in held[t] /\ obj' = obj /\ UNCHANGED <<owner, held, pc, ecx>>
  BY Zenon DEF lck_mtx_convert_spin
<1>2. /\ IF looks THEN lck_mtx_lock_acquire_x86(t, mtx[m]) ELSE prio' = prio
      /\ Store(m, [v EXCEPT !.ilocked = FALSE, !.spin = FALSE, !.mlocked = TRUE])
  BY Zenon DEF lck_mtx_convert_spin
<1>3. was_promoted[t] => looks
  BY <1>i, <1>1, Zenon DEF Lent, WokenContends, WokenPcs
<1> looks \in BOOLEAN /\ promote \in BOOLEAN
  BY Zenon
<1> HIDE DEF looks
<1>4. /\ v \in Word /\ (v.promoted <=> mtx[m].promoted \/ promote)
      /\ promote => Promotes(t, m)
      /\ ~promote => prio' = prio
      /\ \A u \in Threads \ {t} : was_promoted'[u] = was_promoted[u]
      /\ ~was_promoted'[t]
  BY <1>i, <1>2, <1>3, AcquireLends, Zenon
<1> HIDE DEF v, promote
<1>5. /\ mtx'[m].promoted <=> mtx[m].promoted \/ promote
      /\ \A k \in Mutexes \ {m} : mtx'[k].promoted = mtx[k].promoted
  <2>1. [v EXCEPT !.ilocked = FALSE, !.spin = FALSE, !.mlocked = TRUE].promoted = v.promoted
    BY <1>4, WordPromoted, Zenon
  <2>2. /\ mtx'[m] = [v EXCEPT !.ilocked = FALSE, !.spin = FALSE, !.mlocked = TRUE]
        /\ \A k \in Mutexes \ {m} : mtx'[k] = mtx[k]
    BY <1>i, <1>2, Zenon DEF Store, TypeOK
  <2> QED
    BY <1>4, <2>1, <2>2, Zenon
<1>6. owner[m] = t
  BY <1>i, <1>1, Zenon DEF MutualExclusion
<1>7. /\ pc' = [pc EXCEPT ![t] = "idle"] /\ ecx' = [ecx EXCEPT ![t] = ecx[t]]
      /\ held' = [held EXCEPT ![t] = held[t]] /\ owner' = [owner EXCEPT ![m] = t]
      /\ m \in held'[t]
  BY <1>i, <1>1, <1>6 DEF TypeOK
<1>8. /\ pc[t] \notin {"release", "wake", "demote"} /\ "idle" \notin {"wake", "demote"}
      /\ held[t] \subseteq held[t] /\ owner[m] \in {None, t}
  BY <1>1, <1>6, Zenon
<1>10. Lending(t, t, m, promote, "idle", ecx[t], held[t])
  BY <1>1, <1>4, <1>5, <1>7, <1>8, Zenon DEF Lending
<1> QED
  BY <1>10, LendingLent, Zenon

\* A thread about to sleep lends its priority to the owner.
LEMMA WaitLent ==
    ASSUME PInv, TypeOK', NEW t \in Threads, NEW m \in Mutexes, obj[t] = m,
           lck_mtx_lock_wait_x86(t)
    PROVE  Lent'
<1> DEFINE h == owner[m]
           w == WaitWord(t, mtx[m])
           promote == h # None /\ sched_pri[h] < w.pri
<1>i. TypeOK /\ Lent /\ InterlockExclusive /\ mtx[m] \in Word
  BY Zenon DEF PInv, IInv, TypeOK
<1>1. /\ pc[t] = "slowIlk" /\ owner' = owner /\ held' = held /\ obj' = obj
      /\ pc' = [pc EXCEPT ![t] = "asleep"] /\ ecx' = [ecx EXCEPT ![t] = FreeWord]
  BY Zenon DEF lck_mtx_lock_wait_x86, Goto, Forget
<1>2. w \in Word /\ w.promoted = mtx[m].promoted
  <2>1. WaitPri(t) \in Nat
    BY <1>i, Priorities, Zenon DEF TypeOK, WaitPri
  <2> QED
    BY <1>i, <2>1, WaitingWord, Zenon DEF WaitWord, Word
<1>3. /\ mtx'[m] = [w EXCEPT !.promoted = @ \/ promote, !.ilocked = FALSE]
      /\ \A k \in Mutexes \ {m} : mtx'[k] = mtx[k]
  BY <1>i, Zenon DEF lck_mtx_lock_wait_x86, Store, TypeOK
<1>4. /\ promote => /\ sched_pri' = [sched_pri EXCEPT ![h] = WaitPri(t)]
                    /\ promotions' = [promotions EXCEPT ![h] = IF w.promoted THEN @ ELSE @ + 1]
                    /\ promoted' = [promoted EXCEPT ![h] = @ \/ ~w.promoted]
                    /\ was_promoted' = was_promoted
      /\ ~promote => prio' = prio
  BY Zenon DEF lck_mtx_lock_wait_x86
<1> promote \in BOOLEAN
  BY Zenon
<1> HIDE DEF w, promote
<1>5. /\ mtx'[m].promoted <=> mtx[m].promoted \/ promote
      /\ \A k \in Mutexes \ {m} : mtx'[k].promoted = mtx[k].promoted
  BY <1>2, <1>3, Zenon DEF Word
<1>6. was_promoted' = was_promoted
  BY <1>4, Zenon DEF prio
<1>7. CASE h = None
  <2>1. ~promote
    BY <1>7, Zenon DEF promote
  <2>2. \A k \in Mutexes : mtx'[k].promoted = mtx[k].promoted
    <3>1. \A k \in Mutexes : mtx'[k].promoted \in BOOLEAN /\ mtx[k].promoted \in BOOLEAN
      BY <1>i DEF TypeOK, Word
    <3> QED
      BY <1>5, <2>1, <3>1
  <2>3. /\ obj' = [obj EXCEPT ![t] = obj[t]] /\ held' = [held EXCEPT ![t] = held[t]]
    BY <1>i, <1>1, Zenon DEF TypeOK
  <2>4. \A k \in Mutexes : owner[k] = t => k \in held[t]
    BY <1>i, <1>1, Zenon DEF Lent, OwnerHolds
  <2>5. /\ pc[t] \notin {"wake", "demote"} /\ "asleep" \notin {"wake", "demote"}
        /\ "asleep" \in WokenPcs
    BY <1>1, Zenon DEF WokenPcs
  <2>6. prio' = prio
    BY <1>4, <2>1, Zenon
  <2>7. Quiet(t, "asleep", obj[t], FreeWord, held[t])
    BY <1>1, <2>2, <2>3, <2>4, <2>5, <2>6, Zenon DEF Quiet
  <2> QED
    BY <2>7, QuietLent, Zenon
<1>8. CASE h # None
  <2>1. h \in Threads
    BY <1>i, <1>8, Zenon DEF TypeOK
  <2>2. m \in held[h]
    <3>1. ~(pc[h] = "release" /\ obj[h] = m)
      <4>1. Interlocks(t, m) /\ (pc[h] = "release" /\ obj[h] = m => Interlocks(h, m))
        BY <1>1, Zenon DEF Interlocks, IlkPcs
      <4> QED
        BY <1>i, <1>1, <2>1, <4>1, Zenon DEF InterlockExclusive
    <3> QED
      BY <1>i, <2>1, <3>1, Zenon DEF Lent, OwnerHolds
  <2>3. promote => Promotes(h, m)
    <3>1. ASSUME promote PROVE \A u \in Threads \ {h} : sched_pri'[u] = sched_pri[u] /\ was_promoted'[u] = was_promoted[u]
      BY <1>i, <1>4, <3>1 DEF TypeOK
    <3> QED
      BY <1>2, <1>4, <3>1, Zenon DEF Promotes
  <2>4. /\ held' = [held EXCEPT ![t] = held[t]] /\ owner' = [owner EXCEPT ![m] = h]
        /\ m \in held'[h]
    BY <1>i, <1>1, <2>2 DEF TypeOK
  <2>5. /\ pc[t] \notin {"release", "wake", "demote"} /\ "asleep" \notin {"wake", "demote"}
        /\ held[t] \subseteq held[t] /\ owner[m] \in {None, h} /\ "asleep" \in WokenPcs
        /\ \A u \in Threads \ {t} : was_promoted'[u] = was_promoted[u]
    BY <1>1, <1>6, Zenon DEF WokenPcs
  <2> HIDE DEF h
  <2>6. Lending(t, h, m, promote, "asleep", FreeWord, held[t])
    BY <1>1, <1>4, <1>5, <2>2, <2>3, <2>4, <2>5, Zenon DEF Lending
  <2> QED
    BY <2>1, <2>6, LendingLent, Zenon
<1> QED
  BY <1>7, <1>8, Zenon

\* The store of a release: the promotion moves from the word to the copy.
LEMMA StoreLent ==
    ASSUME PInv, NEW t \in Threads, lck_mtx_unlock_store(t)
    PROVE  Lent'
<1> DEFINE m == obj[t]
<1>i. TypeOK /\ Lent /\ InterlockExclusive /\ BitsOwned /\ PointsAgree
      /\ m \in Mutexes /\ mtx[m] \in Word
  BY Zenon DEF PInv, IInv, TypeOK
<1>1. /\ pc[t] = "release" /\ ecx[t] = mtx[m] /\ held' = held /\ obj' = obj /\ prio' = prio
      /\ owner' = [owner EXCEPT ![m] = None] /\ Store(m, ReleasedWord(mtx[m]))
  BY <1>i, Zenon DEF lck_mtx_unlock_store, InterlockExclusive
<1>2. PICK p \in {"wake", "idle"} :
         /\ pc' = [pc EXCEPT ![t] = p]
         /\ p = "wake" => ecx' = ecx
         /\ p = "idle" => ecx' = [ecx EXCEPT ![t] = FreeWord] /\ ~mtx[m].promoted
  BY <1>1, Zenon DEF lck_mtx_unlock_store, Goto, Forget
<1>3. /\ pc'[t] = p /\ \A u \in Threads \ {t} : pc'[u] = pc[u] /\ ecx'[u] = ecx[u]
      /\ p = "wake" => ecx'[t] = mtx[m]
      /\ owner'[m] = None /\ \A k \in Mutexes \ {m} : owner'[k] = owner[k]
  BY <1>i, <1>1, <1>2, Zenon DEF TypeOK
<1>4. ~mtx'[m].promoted /\ \A k \in Mutexes \ {m} : mtx'[k] = mtx[k]
  <2>1. ~ReleasedWord(mtx[m]).promoted
    BY <1>i, Zenon DEF ReleasedWord, Word
  <2> QED
    BY <1>i, <1>1, <2>1, Zenon DEF Store, TypeOK
<1>5. m \notin held[t]
  BY <1>i, <1>1, Zenon DEF PointsAgree
<1>6. ASSUME NEW u \in Threads, owner[m] = u PROVE u = t
  <2>1. Claims(u, m) /\ Claims(t, m)
    BY <1>i, <1>1, <1>6 DEF Lent, OwnerHolds, Claims
  <2> QED
    BY <1>i, <2>1, Zenon DEF BitsOwned
<1>7. mtx[m].promoted => owner[m] = t
  BY <1>i, <1>6, Zenon DEF Lent, PromotedOwned, TypeOK
<1>8. ASSUME NEW u \in Threads PROVE PromotedFor(u)' = PromotedFor(u)
  <2>1. ASSUME NEW k \in Mutexes, k # m \/ u # t
        PROVE  k \in PromotedFor(u)' <=> k \in PromotedFor(u)
    BY <1>1, <1>3, <1>4, <1>6, <2>1, NoneIsNoThread, SMTT(20) DEF PromotedFor
  <2>2. m \in PromotedFor(t) <=> mtx[m].promoted
    BY <1>i, <1>1, <1>7, Zenon DEF PromotedFor
  <2>3. m \in PromotedFor(t)' <=> mtx[m].promoted
    BY <1>i, <1>1, <1>2, <1>3, NoneIsNoThread DEF PromotedFor
  <2>4. PromotedFor(u)' \subseteq Mutexes /\ PromotedFor(u) \subseteq Mutexes
    BY Zenon DEF PromotedFor
  <2> QED
    BY <2>1, <2>2, <2>3, <2>4
<1>9. ASSUME NEW u \in Threads PROVE Exact(u)'
  <2>1. /\ promotions'[u] = promotions[u] /\ promoted'[u] = promoted[u]
        /\ sched_pri'[u] = sched_pri[u] /\ was_promoted'[u] = was_promoted[u]
    BY <1>1, Zenon DEF prio
  <2> QED
    BY <1>i, <1>8, <2>1, ExactSame, Zenon DEF Lent
<1>10. OwnerHolds'
  BY <1>i, <1>1, <1>3, NoneIsNoThread DEF Lent, OwnerHolds
<1>11. PromotedOwned'
  BY <1>i, <1>3, <1>4 DEF Lent, PromotedOwned
<1>12. WokenContends'
  <2>1. was_promoted' = was_promoted /\ ~was_promoted[t]
    BY <1>i, <1>1, Zenon DEF prio, Lent, WokenContends, WokenPcs
  <2> QED
    BY <1>i, <1>3, <2>1 DEF Lent, WokenContends
<1>13. ReleasedNotHeld'
  BY <1>i, <1>1, <1>3, <1>5 DEF Lent, ReleasedNotHeld
<1> QED
  BY <1>9, <1>10, <1>11, <1>12, <1>13 DEF Lent

\* The wakeup may promote the sleeper it wakes, for no mutex yet.
LEMMA WakeupLent ==
    ASSUME PInv, NEW t \in Threads, lck_mtx_unlock_wakeup_x86(t)
    PROVE  Lent'
<1>i. TypeOK /\ Lent
  BY Zenon DEF PInv, IInv
<1>1. pc[t] = "wake" /\ UNCHANGED <<mtx, owner, held, obj, ecx>>
  BY Zenon DEF lck_mtx_unlock_wakeup_x86
<1>2. /\ pc'[t] = "demote"
      /\ \A u \in Threads \ {t} : pc'[u] = pc[u] \/ (pc[u] = "asleep" /\ pc'[u] = "spin")
  BY <1>i, <1>1, Zenon DEF lck_mtx_unlock_wakeup_x86, Sleepers, Goto, TypeOK
<1>3. /\ promotions' = promotions
      /\ \A u \in Threads :
           \/ /\ was_promoted'[u] = was_promoted[u] /\ promoted'[u] = promoted[u]
              /\ sched_pri'[u] = sched_pri[u]
           \/ pc[u] = "asleep" /\ was_promoted'[u] = TRUE /\ promoted'[u] = TRUE
  <2>1. prio' = prio \/ \E u \in Threads : pc[u] = "asleep" /\ WokenWith(u, ecx[t].pri)
    BY Zenon DEF lck_mtx_unlock_wakeup_x86, Sleepers
  <2>2. CASE prio' = prio
    BY <2>2, Zenon DEF prio
  <2>3. ASSUME NEW u \in Threads, pc[u] = "asleep", WokenWith(u, ecx[t].pri), prio' # prio
        PROVE  /\ promotions' = promotions /\ was_promoted'[u] = TRUE /\ promoted'[u] = TRUE
               /\ \A x \in Threads \ {u} : /\ was_promoted'[x] = was_promoted[x]
                                           /\ promoted'[x] = promoted[x]
                                           /\ sched_pri'[x] = sched_pri[x]
    <3>1. /\ sched_pri' = [sched_pri EXCEPT ![u] = ecx[t].pri]
          /\ was_promoted' = [was_promoted EXCEPT ![u] = TRUE]
          /\ promoted' = [promoted EXCEPT ![u] = TRUE]
          /\ promotions' = promotions
      BY <2>3, Zenon DEF WokenWith
    <3> QED
      BY <1>i, <3>1, Zenon DEF TypeOK
  <2> QED
    BY <2>1, <2>2, <2>3, Zenon
<1>4. ASSUME NEW u \in Threads PROVE PromotedFor(u)' = PromotedFor(u)
  <2>1. pc'[u] \in {"wake", "demote"} <=> pc[u] \in {"wake", "demote"}
    BY <1>1, <1>2, Zenon
  <2> QED
    BY <1>1, <2>1, Zenon DEF PromotedFor
<1>5. ASSUME NEW u \in Threads PROVE Exact(u)'
  <2>1. CASE /\ was_promoted'[u] = was_promoted[u] /\ promoted'[u] = promoted[u]
             /\ sched_pri'[u] = sched_pri[u]
    BY <1>i, <1>3, <1>4, <2>1, ExactSame, Zenon DEF Lent
  <2>2. CASE was_promoted'[u] = TRUE /\ promoted'[u] = TRUE
    <3>1. promotions[u] = Cardinality(PromotedFor(u))
      BY <1>i, Zenon DEF Lent, Exact
    <3> QED
      BY <1>3, <1>4, <2>2, <3>1, Zenon DEF Exact
  <2> QED
    BY <1>3, <2>1, <2>2, Zenon
<1>6. OwnerHolds'
  BY <1>i, <1>1, <1>2 DEF Lent, OwnerHolds
<1>7. PromotedOwned'
  BY <1>i, <1>1, Zenon DEF Lent, PromotedOwned
<1>8. WokenContends'
  BY <1>i, <1>1, <1>2, <1>3, Zenon DEF Lent, WokenContends, WokenPcs
<1>9. ReleasedNotHeld'
  BY <1>i, <1>1, <1>2, Zenon DEF Lent, ReleasedNotHeld
<1> QED
  BY <1>5, <1>6, <1>7, <1>8, <1>9 DEF Lent

\* The promotion for the mutex that was released is taken back.
LEMMA DemoteLent ==
    ASSUME PInv, NEW t \in Threads, lck_mtx_unlock_demote(t)
    PROVE  Lent'
<1> DEFINE m == obj[t]
<1>i. TypeOK /\ Lent /\ m \in Mutexes /\ ecx[t] \in Word
  BY Zenon DEF PInv, IInv, TypeOK
<1>1. /\ pc[t] = "demote" /\ UNCHANGED <<mtx, owner, held, obj, was_promoted>>
      /\ pc' = [pc EXCEPT ![t] = "idle"] /\ ecx' = [ecx EXCEPT ![t] = FreeWord]
  BY Zenon DEF lck_mtx_unlock_demote, Goto, Forget
<1>2. pc'[t] = "idle" /\ \A u \in Threads \ {t} : pc'[u] = pc[u] /\ ecx'[u] = ecx[u]
  BY <1>i, <1>1, Zenon DEF TypeOK
<1>3. owner[m] # t /\ m \notin held[t]
  BY <1>i, <1>1, Zenon DEF Lent, OwnerHolds, ReleasedNotHeld
<1>4. ~was_promoted[t]
  BY <1>i, <1>1, Zenon DEF Lent, WokenContends, WokenPcs
<1>5. \A u \in Threads \ {t} : /\ promotions'[u] = promotions[u] /\ promoted'[u] = promoted[u]
                               /\ sched_pri'[u] = sched_pri[u]
  BY <1>i, Zenon DEF lck_mtx_unlock_demote, TypeOK
<1>6. \A u \in Threads \ {t} : PromotedFor(u)' = PromotedFor(u)
  BY <1>1, <1>2, Zenon DEF PromotedFor
<1>7. ASSUME NEW u \in Threads \ {t} PROVE Exact(u)'
  BY <1>i, <1>1, <1>5, <1>6, ExactSame, Zenon DEF Lent
<1>8. PromotedFor(t)' = PromotedFor(t) \ {m} /\ (m \in PromotedFor(t) <=> ecx[t].promoted)
  BY <1>i, <1>1, <1>2, <1>3, Zenon DEF PromotedFor
<1>9. Exact(t)
  BY <1>i, Zenon DEF Lent
<1>10. Exact(t)'
  <2>1. CASE ecx[t].promoted
    <3>1. promotions[t] \in Nat /\ promotions[t] # 0 /\ promoted[t]
      BY <1>8, <1>9, <2>1, PromotedForFinite, Zenon DEF Exact
    <3>2. promotions'[t] = promotions[t] - 1
      BY <1>i, <2>1, <3>1 DEF lck_mtx_unlock_demote, TypeOK
    <3>3. promoted'[t] = (promoted[t] /\ promotions[t] # 1)
      BY <1>i, <2>1, <3>1 DEF lck_mtx_unlock_demote, TypeOK
    <3>4. promotions[t] = 1 => sched_pri'[t] = BasePri[t]
      BY <1>i, <2>1, <3>1 DEF lck_mtx_unlock_demote, TypeOK
    <3>5. ~was_promoted'[t] /\ m \in PromotedFor(t) /\ PromotedFor(t)' = PromotedFor(t) \ {m}
      BY <1>1, <1>4, <1>8, <2>1, Zenon
    <3> QED
      BY <1>i, <1>9, <3>2, <3>3, <3>4, <3>5, ExactLeaves, Zenon
  <2>2. CASE ~ecx[t].promoted
    <3>1. /\ promotions'[t] = promotions[t] /\ promoted'[t] = promoted[t]
          /\ sched_pri'[t] = sched_pri[t] /\ was_promoted'[t] = was_promoted[t]
      BY <1>i, <1>1, <2>2, Zenon DEF lck_mtx_unlock_demote, TypeOK
    <3>2. PromotedFor(t)' = PromotedFor(t)
      BY <1>8, <2>2, Zenon
    <3> QED
      BY <1>9, <3>1, <3>2, ExactSame, Zenon
  <2> QED
    BY <2>1, <2>2, Zenon
<1>11. OwnerHolds' /\ PromotedOwned'
  BY <1>i, <1>1, <1>2 DEF Lent, OwnerHolds, PromotedOwned
<1>12. WokenContends' /\ ReleasedNotHeld'
  BY <1>i, <1>1, <1>2, <1>4, Zenon DEF Lent, WokenContends, ReleasedNotHeld
<1> QED
  BY <1>7, <1>10, <1>11, <1>12, Zenon DEF Lent

\* The steps of a caller keep the promotions exact.
LEMMA RequestLent ==
    ASSUME PInv, TypeOK', NEW t \in Threads, NEW m \in Mutexes, Request(t, m)
    PROVE  Lent'
<1>i. TypeOK /\ Lent /\ mtx[m] \in Word
  BY Zenon DEF PInv, IInv, TypeOK
<1>p. pc[t] = "idle"
  BY Zenon DEF Request, Release, lck_mtx_lock, lck_mtx_try_lock, lck_mtx_lock_spin,
         lck_mtx_try_lock_spin, lck_mtx_lock_contended, lck_mtx_convert_spin, lck_mtx_unlock,
         lck_mtx_unlock_spin, MayBlock, NotHeld
<1>o. /\ \A k \in Mutexes : owner[k] = t => k \in held[t]
      /\ pc[t] \notin {"wake", "demote"} /\ pc[t] \notin WokenPcs
      /\ \A p \in {"acquired", "spin", "release"} : p \notin {"wake", "demote"}
  BY <1>i, <1>p, Zenon DEF Lent, OwnerHolds, WokenPcs
<1>1. CASE lck_mtx_lock(t, m) \/ lck_mtx_try_lock(t, m)
  <2>1. GrabMutex(t, m, "acquired")
    BY <1>1, Zenon DEF lck_mtx_lock, lck_mtx_try_lock
  <2>2. \A k \in Mutexes : mtx'[k].promoted = mtx[k].promoted
    BY <1>i, <2>1, SamePromoted, WordPromoted, Zenon DEF GrabMutex
  <2>3. /\ pc' = [pc EXCEPT ![t] = "acquired"] /\ obj' = [obj EXCEPT ![t] = m]
        /\ ecx' = [ecx EXCEPT ![t] = ecx[t]] /\ held' = [held EXCEPT ![t] = held[t]]
        /\ owner' = owner /\ prio' = prio
    BY <1>i, <2>1, Zenon DEF GrabMutex, Goto, TypeOK
  <2>q. Quiet(t, "acquired", m, ecx[t], held[t])
    BY <1>o, <2>2, <2>3, Zenon DEF Quiet
  <2> QED
    BY <2>q, QuietLent, Zenon
<1>2. CASE lck_mtx_lock_spin(t, m) \/ lck_mtx_try_lock_spin(t, m)
  BY <1>p, <1>2, GrabSpinLent, Zenon DEF lck_mtx_lock_spin, lck_mtx_try_lock_spin
<1>3. CASE lck_mtx_lock_contended(t, m)
  <2>1. /\ pc' = [pc EXCEPT ![t] = "spin"] /\ obj' = [obj EXCEPT ![t] = m]
        /\ ecx' = [ecx EXCEPT ![t] = ecx[t]] /\ held' = [held EXCEPT ![t] = held[t]]
        /\ owner' = owner /\ prio' = prio /\ mtx' = mtx
    BY <1>i, <1>3, Zenon DEF lck_mtx_lock_contended, Goto, TypeOK
  <2>q. Quiet(t, "spin", m, ecx[t], held[t])
    BY <1>o, <2>1, Zenon DEF Quiet
  <2> QED
    BY <2>q, QuietLent, Zenon
<1>4. CASE lck_mtx_convert_spin(t, m)
  BY <1>4, ConvertLent, Zenon
<1>5. CASE Release(t, m)
  <2>1. \A k \in Mutexes : mtx'[k].promoted = mtx[k].promoted
    <3>1. CASE lck_mtx_unlock(t, m)
      BY <1>i, <3>1, SamePromoted, WordPromoted, Zenon DEF lck_mtx_unlock
    <3>2. CASE lck_mtx_unlock_spin(t, m)
      BY <3>2, Zenon DEF lck_mtx_unlock_spin
    <3> QED
      BY <1>5, <3>1, <3>2, Zenon DEF Release
  <2>2. PICK e : ecx' = [ecx EXCEPT ![t] = e]
    BY <1>5, Zenon DEF Release, lck_mtx_unlock, lck_mtx_unlock_spin, Keep
  <2>3. /\ pc' = [pc EXCEPT ![t] = "release"] /\ obj' = [obj EXCEPT ![t] = m]
        /\ held' = [held EXCEPT ![t] = held[t] \ {m}]
        /\ owner' = owner /\ prio' = prio
    BY <1>5, Zenon DEF Release, lck_mtx_unlock, lck_mtx_unlock_spin, Goto
  <2>4. \A k \in Mutexes : owner[k] = t =>
           k \in held[t] \ {m} \/ ("release" = "release" /\ m = k)
    BY <1>o, Zenon
  <2>q. Quiet(t, "release", m, e, held[t] \ {m})
    BY <1>o, <2>1, <2>2, <2>3, <2>4, Zenon DEF Quiet
  <2> QED
    BY <2>q, QuietLent, Zenon
<1> QED
  BY <1>1, <1>2, <1>3, <1>4, <1>5 DEF Request

\* The steps of a thread inside the mutex code keep the promotions exact.
LEMMA ContinueLent ==
    ASSUME PInv, TypeOK', NEW t \in Threads, Continue(t)
    PROVE  Lent'
<1> DEFINE m == obj[t]
<1>i. TypeOK /\ Lent /\ InterlockExclusive /\ m \in Mutexes /\ mtx[m] \in Word
  BY Zenon DEF PInv, IInv, TypeOK
<1>o. pc[t] \in {"spin", "spun", "spinIlk", "slow", "slowIlk"} =>
        /\ \A k \in Mutexes : owner[k] = t => k \in held[t]
        /\ pc[t] \notin {"wake", "demote"}
  BY <1>i, Zenon DEF Lent, OwnerHolds
<1>w. \A p \in {"acquiredSlow", "spun", "spinIlk", "slow", "slowIlk"} :
         p \in WokenPcs /\ p \notin {"wake", "demote"}
  BY Zenon DEF WokenPcs
<1>1. CASE lck_mtx_lock_finish(t)
  BY <1>i, <1>1, FinishLent, Zenon
<1>2. CASE lck_mtx_lock_grab_mutex(t)
  <2>1. \A k \in Mutexes : mtx'[k].promoted = mtx[k].promoted
    BY <1>i, <1>2, SamePromoted, WordPromoted, Zenon DEF lck_mtx_lock_grab_mutex, GrabMutex
  <2>2. /\ pc' = [pc EXCEPT ![t] = "acquiredSlow"] /\ obj' = [obj EXCEPT ![t] = m]
        /\ ecx' = [ecx EXCEPT ![t] = ecx[t]] /\ held' = [held EXCEPT ![t] = held[t]]
        /\ owner' = owner /\ prio' = prio
        /\ pc[t] \in {"spin", "spun", "spinIlk", "slow", "slowIlk"}
    BY <1>i, <1>2, Zenon DEF lck_mtx_lock_grab_mutex, GrabMutex, Goto, TypeOK
  <2>q. Quiet(t, "acquiredSlow", m, ecx[t], held[t])
    BY <1>o, <1>w, <2>1, <2>2, Zenon DEF Quiet
  <2> QED
    BY <2>q, QuietLent, Zenon
<1>3. CASE lck_mtx_ilk_try_lock(t)
  <2>1. \A k \in Mutexes : mtx'[k].promoted = mtx[k].promoted
    BY <1>i, <1>3, SamePromoted, WordPromoted, Zenon DEF lck_mtx_ilk_try_lock, TakeInterlock
  <2>2. /\ pc' = [pc EXCEPT ![t] = "spinIlk"] /\ obj' = [obj EXCEPT ![t] = m]
        /\ ecx' = [ecx EXCEPT ![t] = ecx[t]] /\ held' = [held EXCEPT ![t] = held[t]]
        /\ owner' = owner /\ prio' = prio
        /\ pc[t] \in {"spin", "spun", "spinIlk", "slow", "slowIlk"}
    BY <1>i, <1>3, Zenon DEF lck_mtx_ilk_try_lock, TakeInterlock, Goto, TypeOK
  <2>q. Quiet(t, "spinIlk", m, ecx[t], held[t])
    BY <1>o, <1>w, <2>1, <2>2, Zenon DEF Quiet
  <2> QED
    BY <2>q, QuietLent, Zenon
<1>4. CASE lck_mtx_ilk_unlock(t)
  <2>1. \A k \in Mutexes : mtx'[k].promoted = mtx[k].promoted
    BY <1>i, <1>4, SamePromoted, WordPromoted, Zenon DEF lck_mtx_ilk_unlock
  <2>2. PICK p \in {"spun", "slow"} : pc' = [pc EXCEPT ![t] = p]
    BY <1>4, Zenon DEF lck_mtx_ilk_unlock, Goto
  <2>3. /\ obj' = [obj EXCEPT ![t] = m]
        /\ ecx' = [ecx EXCEPT ![t] = ecx[t]] /\ held' = [held EXCEPT ![t] = held[t]]
        /\ owner' = owner /\ prio' = prio
        /\ pc[t] \in {"spin", "spun", "spinIlk", "slow", "slowIlk"}
    BY <1>i, <1>4, Zenon DEF lck_mtx_ilk_unlock, TypeOK
  <2>4. p \in WokenPcs /\ p \notin {"wake", "demote"}
    BY <1>w, Zenon
  <2>q. Quiet(t, p, m, ecx[t], held[t])
    BY <1>o, <2>1, <2>2, <2>3, <2>4, Zenon DEF Quiet
  <2> QED
    BY <2>q, QuietLent, Zenon
<1>5. CASE lck_mtx_lock_spinwait_x86(t)
  <2>1. /\ pc' = [pc EXCEPT ![t] = "slow"] /\ obj' = [obj EXCEPT ![t] = m]
        /\ ecx' = [ecx EXCEPT ![t] = ecx[t]] /\ held' = [held EXCEPT ![t] = held[t]]
        /\ owner' = owner /\ prio' = prio /\ mtx' = mtx
        /\ pc[t] \in {"spin", "spun", "spinIlk", "slow", "slowIlk"}
    BY <1>i, <1>5, Zenon DEF lck_mtx_lock_spinwait_x86, Goto, TypeOK
  <2>q. Quiet(t, "slow", m, ecx[t], held[t])
    BY <1>o, <1>w, <2>1, Zenon DEF Quiet
  <2> QED
    BY <2>q, QuietLent, Zenon
<1>6. CASE lck_mtx_lock_interlock(t)
  <2>1. \A k \in Mutexes : mtx'[k].promoted = mtx[k].promoted
    BY <1>i, <1>6, SamePromoted, WordPromoted, Zenon DEF lck_mtx_lock_interlock, TakeInterlock
  <2>2. /\ pc' = [pc EXCEPT ![t] = "slowIlk"] /\ obj' = [obj EXCEPT ![t] = m]
        /\ ecx' = [ecx EXCEPT ![t] = [mtx[m] EXCEPT !.ilocked = TRUE]]
        /\ held' = [held EXCEPT ![t] = held[t]] /\ owner' = owner /\ prio' = prio
        /\ pc[t] \in {"spin", "spun", "spinIlk", "slow", "slowIlk"}
    BY <1>i, <1>6, Zenon DEF lck_mtx_lock_interlock, TakeInterlock, Goto, Keep, TypeOK
  <2>q. Quiet(t, "slowIlk", m, [mtx[m] EXCEPT !.ilocked = TRUE], held[t])
    BY <1>o, <1>w, <2>1, <2>2, Zenon DEF Quiet
  <2> QED
    BY <2>q, QuietLent, Zenon
<1>7. CASE lck_mtx_lock_grab_direct(t)
  <2>1. \A k \in Mutexes : mtx'[k].promoted = mtx[k].promoted
    <3>1. Store(m, [mtx[m] EXCEPT !.mlocked = TRUE])
      BY <1>i, <1>7, Zenon DEF lck_mtx_lock_grab_direct, InterlockExclusive
    <3> QED
      BY <1>i, <3>1, SamePromoted, WordPromoted, Zenon
  <2>2. /\ pc' = [pc EXCEPT ![t] = "acquiredSlow"] /\ obj' = [obj EXCEPT ![t] = m]
        /\ ecx' = [ecx EXCEPT ![t] = FreeWord] /\ held' = [held EXCEPT ![t] = held[t]]
        /\ owner' = owner /\ prio' = prio
        /\ pc[t] \in {"spin", "spun", "spinIlk", "slow", "slowIlk"}
    BY <1>i, <1>7, Zenon DEF lck_mtx_lock_grab_direct, Goto, Forget, TypeOK
  <2>q. Quiet(t, "acquiredSlow", m, FreeWord, held[t])
    BY <1>o, <1>w, <2>1, <2>2, Zenon DEF Quiet
  <2> QED
    BY <2>q, QuietLent, Zenon
<1>8. CASE lck_mtx_lock_wait_x86(t)
  BY <1>i, <1>8, WaitLent, Zenon
<1>9. CASE lck_mtx_unlock_store(t)
  BY <1>9, StoreLent, Zenon
<1>10. CASE lck_mtx_unlock_wakeup_x86(t)
  BY <1>10, WakeupLent
<1>11. CASE lck_mtx_unlock_demote(t)
  BY <1>11, DemoteLent, Zenon
<1> QED
  BY <1>1, <1>2, <1>3, <1>4, <1>5, <1>6, <1>7, <1>8, <1>9, <1>10, <1>11, SMTT(20) DEF Continue

\* Every step keeps the invariant.
LEMMA StepPInv ==
    ASSUME PInv, [Next]_vars
    PROVE  PInv'
<1>1. IInv' /\ TypeOK'
  BY StepIInv, Zenon DEF PInv, IInv
<1>2. CASE UNCHANGED vars
  <2>1. Lent'
    <3>1. UNCHANGED <<mtx, owner, held, pc, obj, ecx, sched_pri, promotions, promoted, was_promoted>>
      BY <1>2, Zenon DEF vars, prio
    <3>2. ASSUME NEW u \in Threads PROVE Exact(u)'
      <4>1. PromotedFor(u)' = PromotedFor(u)
        BY <3>1, Zenon DEF PromotedFor
      <4> QED
        BY <3>1, <4>1, ExactSame, Zenon DEF PInv, Lent
    <3>3. OwnerHolds' /\ PromotedOwned' /\ WokenContends' /\ ReleasedNotHeld'
      BY <3>1, Zenon DEF PInv, Lent, OwnerHolds, PromotedOwned, WokenContends, ReleasedNotHeld
    <3> QED
      BY <3>2, <3>3, Zenon DEF Lent
  <2> QED
    BY <1>1, <2>1, Zenon DEF PInv
<1>3. ASSUME NEW t \in Threads, Continue(t) PROVE PInv'
  BY <1>1, <1>3, ContinueLent DEF PInv
<1>4. ASSUME NEW t \in Threads, NEW m \in Mutexes, Request(t, m) PROVE PInv'
  BY <1>1, <1>4, RequestLent, Zenon DEF PInv
<1> QED
  BY <1>2, <1>3, <1>4, Zenon DEF Next

\* The invariant holds of every execution.
LEMMA LendingInvariance == Spec => []PInv
<1>1. PInv /\ [Next]_vars => PInv'
  BY StepPInv, Zenon
<1> QED
  BY InitPInv, <1>1, PTL DEF Spec

\* The promotion count of a thread is the number of mutexes that promoted it,
\* and its priority is its own again once it has released the last of them:
\* lck_mtx_lock_acquire_x86, lck_mtx_lock_wait_x86 and the wakeup lend what
\* lck_mtx_unlock_wakeup_x86 takes back.
THEOREM PromotionsBalance == Spec => []PromotionsExact
<1>1. PInv => PromotionsExact
  <2> SUFFICES ASSUME PInv, NEW t \in Threads
               PROVE  Exact(t) /\ (pc[t] = "idle" /\ held[t] = {} => ~promoted[t])
    BY Zenon DEF PromotionsExact, Exact
  <2>1. Exact(t)
    BY Zenon DEF PInv, Lent
  <2>2. ASSUME pc[t] = "idle", held[t] = {} PROVE ~promoted[t]
    <3>1. PromotedFor(t) = {}
      BY <2>2 DEF PInv, Lent, OwnerHolds, PromotedFor
    <3>2. promotions[t] = 0
      BY <2>1, <3>1, PromotedForFinite, Zenon DEF Exact
    <3>3. ~was_promoted[t]
      BY <2>2, Zenon DEF PInv, Lent, WokenContends, WokenPcs
    <3> QED
      BY <2>1, <3>2, <3>3, Zenon DEF Exact
  <2> QED
    BY <2>1, <2>2, Zenon
<1> QED
  BY LendingInvariance, <1>1, PTL
-----------------------------------------------------------------------------
(* One mutex: its holder runs at the priority its waiters lend. *)

\* HolderBoosted, also while somebody has the interlock.
Boosted ==
    \A u \in Threads : \A k \in held[u] :
        mtx[k].mlocked /\ mtx[k].waiters # 0 => sched_pri[u] >= mtx[k].pri

\* A hold that is as it was, of a thread whose priority did not fall.
Unharmed(u, k) ==
    /\ k \in held[u] /\ mtx[k].mlocked
    /\ mtx'[k].waiters = mtx[k].waiters /\ mtx'[k].pri = mtx[k].pri
    /\ sched_pri'[u] >= sched_pri[u]

\* A step keeps Boosted when it boosts or leaves alone every hold there is.
LEMMA HoldsBoosted ==
    ASSUME TypeOK, TypeOK', Boosted,
           \A u \in Threads : \A k \in held'[u] :
               \/ ~mtx'[k].mlocked
               \/ mtx'[k].waiters = 0
               \/ sched_pri'[u] >= mtx'[k].pri
               \/ Unharmed(u, k)
    PROVE  Boosted'
<1> SUFFICES ASSUME NEW u \in Threads, NEW k \in held'[u],
                    mtx'[k].mlocked, mtx'[k].waiters # 0
             PROVE  sched_pri'[u] >= mtx'[k].pri
  BY Zenon DEF Boosted
<1>1. CASE sched_pri'[u] >= mtx'[k].pri
  BY <1>1, Zenon
<1>2. CASE Unharmed(u, k)
  <2>1. sched_pri[u] >= mtx[k].pri
    BY <1>2, Zenon DEF Boosted, Unharmed
  <2>2. k \in Mutexes
    BY Zenon DEF TypeOK
  <2>3. sched_pri[u] \in Nat /\ sched_pri'[u] \in Nat /\ mtx[k].pri \in Nat
    BY <2>2, Zenon DEF TypeOK, Word
  <2>4. sched_pri'[u] >= sched_pri[u] /\ mtx'[k].pri = mtx[k].pri
    BY <1>2, Zenon DEF Unharmed
  <2> QED
    BY <2>1, <2>3, <2>4
<1> QED
  BY <1>1, <1>2, Zenon

\* The fields of a word that the other steps leave alone.
LEMMA WordLends ==
    ASSUME NEW v \in Word, NEW t
    PROVE  /\ LET x == [v EXCEPT !.ilocked = TRUE]
              IN x.mlocked = v.mlocked /\ x.waiters = v.waiters /\ x.pri = v.pri
           /\ LET x == [v EXCEPT !.ilocked = FALSE]
              IN x.mlocked = v.mlocked /\ x.waiters = v.waiters /\ x.pri = v.pri
           /\ LET x == [v EXCEPT !.ilocked = FALSE, !.spin = FALSE, !.mlocked = TRUE]
              IN x.waiters = v.waiters /\ x.pri = v.pri
           /\ LET x == AcquiredWord(t, v)
              IN x.mlocked = v.mlocked /\ x.waiters = v.waiters /\ x.pri = v.pri
           /\ ~[v EXCEPT !.ilocked = TRUE, !.spin = TRUE].mlocked = ~v.mlocked
  BY Zenon DEF Word, AcquiredWord

\* A step of t that lowers no priority and that, of the words of held mutexes,
\* touches only the bits that do not matter here.
LEMMA QuietBoosted ==
    ASSUME TypeOK, TypeOK', Boosted, NEW m \in Mutexes, NEW w, Store(m, w),
           \A u \in Threads : held'[u] \subseteq held[u],
           \A u \in Threads : sched_pri'[u] >= sched_pri[u],
           \/ \A u \in Threads : m \notin held[u]
           \/ w.mlocked = mtx[m].mlocked /\ w.waiters = mtx[m].waiters /\ w.pri = mtx[m].pri
           \/ ~w.mlocked
    PROVE  Boosted'
<1>1. mtx'[m] = w /\ \A k \in Mutexes \ {m} : mtx'[k] = mtx[k]
  BY DEF TypeOK, Store
<1>2. ASSUME NEW u \in Threads, NEW k \in held'[u] PROVE ~mtx'[k].mlocked \/ Unharmed(u, k)
  <2>1. k \in Mutexes /\ k \in held[u] /\ sched_pri'[u] >= sched_pri[u]
    BY Zenon DEF TypeOK
  <2>2. CASE k = m
    BY <1>1, <2>1, <2>2, Zenon DEF Unharmed
  <2>3. CASE k # m
    BY <1>1, <2>1, <2>3, Zenon DEF Unharmed
  <2> QED
    BY <2>2, <2>3, Zenon
<1> QED
  BY <1>2, HoldsBoosted, Zenon
\* A promotion on acquisition raises the owner to what the word lends.
LEMMA AcquireBoosts ==
    ASSUME TypeOK, NEW t \in Threads, NEW w \in Word, lck_mtx_lock_acquire_x86(t, w)
    PROVE  /\ w.waiters # 0 => sched_pri'[t] >= w.pri
           /\ \A u \in Threads : sched_pri'[u] >= sched_pri[u]
<1>1. /\ w.pri \in Nat /\ Lends(w) \in Nat /\ (w.waiters # 0 => Lends(w) = w.pri)
      /\ \A u \in Threads : sched_pri[u] \in Nat
  BY Zenon DEF Lends, Word, TypeOK
<1> HIDE DEF Lends
<1>2. CASE NeedsPromotion(t, w)
  <2>1. sched_pri' = [sched_pri EXCEPT ![t] = IF @ < Lends(w) THEN Lends(w) ELSE @]
    BY <1>2, Zenon DEF lck_mtx_lock_acquire_x86
  <2> QED
    BY <1>1, <2>1 DEF TypeOK
<1>3. CASE ~NeedsPromotion(t, w)
  <2>1. sched_pri' = sched_pri
    BY <1>3, Zenon DEF lck_mtx_lock_acquire_x86, prio
  <2>2. ~(sched_pri[t] < Lends(w))
    BY <1>3, Zenon DEF NeedsPromotion
  <2> QED
    BY <1>1, <2>1, <2>2
<1> QED
  BY <1>2, <1>3, Zenon

\* The new hold of an acquisition is boosted, the others are left alone.
LEMMA AcquireBoosted ==
    ASSUME PInv, TypeOK', Boosted, NEW t \in Threads, NEW m \in Mutexes, NEW looks \in BOOLEAN,
           mtx[m].waiters # 0 => looks,
           IF looks THEN lck_mtx_lock_acquire_x86(t, mtx[m]) ELSE prio' = prio,
           NEW w, Store(m, w), w.waiters = mtx[m].waiters, w.pri = mtx[m].pri,
           held' = [held EXCEPT ![t] = @ \cup {m}],
           \A u \in Threads \ {t} : m \notin held[u]
    PROVE  Boosted'
<1>i. TypeOK /\ mtx[m] \in Word
  BY Zenon DEF PInv, IInv, TypeOK
<1>1. /\ mtx[m].waiters # 0 => sched_pri'[t] >= mtx[m].pri
      /\ \A u \in Threads : sched_pri'[u] >= sched_pri[u]
  <2>1. CASE looks
    BY <1>i, <2>1, AcquireBoosts, Zenon
  <2>2. CASE ~looks
    <3>1. sched_pri' = sched_pri /\ \A u \in Threads : sched_pri[u] \in Nat
      BY <1>i, <2>2, Zenon DEF prio, TypeOK
    <3> QED
      BY <2>2, <3>1
  <2> QED
    BY <2>1, <2>2, Zenon
<1>2. mtx'[m] = w /\ \A k \in Mutexes \ {m} : mtx'[k] = mtx[k]
  BY <1>i, Zenon DEF TypeOK, Store
<1>3. ASSUME NEW u \in Threads, NEW k \in held'[u]
      PROVE  \/ ~mtx'[k].mlocked \/ mtx'[k].waiters = 0
             \/ sched_pri'[u] >= mtx'[k].pri \/ Unharmed(u, k)
  <2>1. CASE k = m
    <3>1. u = t
      BY <1>i, <1>3, <2>1, Zenon DEF TypeOK
    <3> QED
      BY <1>1, <1>2, <2>1, <3>1, Zenon
  <2>2. CASE k # m
    <3>1. k \in held[u] /\ k \in Mutexes
      BY <1>i, <1>3, <2>2 DEF TypeOK
    <3> QED
      BY <1>1, <1>2, <2>2, <3>1, Zenon DEF Unharmed
  <2> QED
    BY <2>1, <2>2, Zenon
<1> QED
  BY <1>i, <1>3, HoldsBoosted, Zenon

\* The owner is raised to what the waiters lend, when it does not run so high.
LEMMA WaitBoosted ==
    ASSUME PInv, TypeOK', Boosted, NEW t \in Threads, lck_mtx_lock_wait_x86(t),
           NEW one, Mutexes = {one}
    PROVE  Boosted'
<1> DEFINE m == obj[t]
           h == owner[m]
           w == WaitWord(t, mtx[m])
           promote == h # None /\ sched_pri[h] < w.pri
<1>i. TypeOK /\ Lent /\ MutualExclusion /\ InterlockExclusive /\ m \in Mutexes /\ mtx[m] \in Word
  BY Zenon DEF PInv, IInv, TypeOK
<1>1. pc[t] = "slowIlk" /\ ecx[t].mlocked /\ held' = held
  BY Zenon DEF lck_mtx_lock_wait_x86
<1>2. WaitPri(t) \in Nat
  BY <1>i, Priorities, Zenon DEF TypeOK, WaitPri
<1>3. /\ w \in Word
      /\ w.pri = IF mtx[m].waiters = 0 \/ WaitPri(t) > mtx[m].pri THEN WaitPri(t) ELSE mtx[m].pri
  <2>1. w \in Word
    BY <1>i, <1>2, WaitingWord, Zenon
  <2> QED
    BY <1>i, <2>1, Zenon DEF WaitWord, Word
<1>4. /\ mtx'[m] = [w EXCEPT !.promoted = @ \/ promote, !.ilocked = FALSE]
      /\ \A k \in Mutexes \ {m} : mtx'[k] = mtx[k]
  BY <1>i, Zenon DEF lck_mtx_lock_wait_x86, Store, TypeOK
<1>5. /\ promote => sched_pri' = [sched_pri EXCEPT ![h] = WaitPri(t)]
      /\ ~promote => sched_pri' = sched_pri
  BY Zenon DEF lck_mtx_lock_wait_x86, prio
<1>6. mtx[m].mlocked
  BY <1>i, <1>1, Zenon DEF InterlockExclusive
<1> HIDE DEF w
<1>7. mtx'[m].pri = w.pri
  BY <1>3, <1>4, Zenon DEF Word
<1>8. ASSUME NEW u \in Threads, m \in held[u] PROVE sched_pri'[u] >= w.pri /\ u = h
  <2>1. owner[m] = u
    BY <1>i, <1>8, Zenon DEF MutualExclusion
  <2>2. u # None /\ h = u
    BY <2>1, NoneIsNoThread, Zenon
  <2>3. CASE promote
    <3>1. sched_pri'[u] = WaitPri(t) /\ sched_pri[u] < w.pri /\ sched_pri[u] \in Nat
      BY <1>i, <1>5, <2>2, <2>3 DEF TypeOK
    <3>2. mtx[m].waiters # 0 => sched_pri[u] >= mtx[m].pri
      BY <1>6, <1>8, Zenon DEF Boosted
    <3>3. mtx[m].pri \in Nat
      BY <1>i, Zenon DEF Word
    <3>4. w.pri = WaitPri(t)
      BY <1>2, <1>3, <3>1, <3>2, <3>3, SMTT(20)
    <3> QED
      BY <1>2, <2>2, <3>1, <3>4
  <2>4. CASE ~promote
    <3>1. ~(sched_pri[u] < w.pri) /\ sched_pri'[u] = sched_pri[u]
      BY <1>5, <2>2, <2>4, Zenon DEF promote
    <3>2. sched_pri[u] \in Nat /\ w.pri \in Nat
      BY <1>i, <1>3, Zenon DEF TypeOK, Word
    <3> QED
      BY <2>2, <3>1, <3>2
  <2> QED
    BY <2>3, <2>4, Zenon
<1>9. ASSUME NEW u \in Threads, NEW k \in held'[u] PROVE sched_pri'[u] >= mtx'[k].pri
  <2>1. k = m /\ m \in held[u]
    BY <1>i, <1>1 DEF TypeOK
  <2> QED
    BY <1>7, <1>8, <2>1, Zenon
<1> QED
  BY <1>i, <1>9, HoldsBoosted, Zenon

\* With a single mutex, a demotion finds nothing held.
LEMMA DemoteBoosted ==
    ASSUME PInv, TypeOK', Boosted, NEW t \in Threads, lck_mtx_unlock_demote(t),
           NEW one, Mutexes = {one}
    PROVE  Boosted'
<1>i. TypeOK /\ Lent
  BY Zenon DEF PInv, IInv
<1>1. pc[t] = "demote" /\ held' = held /\ mtx' = mtx
  BY Zenon DEF lck_mtx_unlock_demote
<1>2. held[t] = {}
  BY <1>i, <1>1 DEF Lent, ReleasedNotHeld, TypeOK
<1>3. \A u \in Threads \ {t} : sched_pri'[u] = sched_pri[u]
  BY <1>i DEF lck_mtx_unlock_demote, TypeOK
<1>4. ASSUME NEW u \in Threads, NEW k \in held'[u] PROVE ~mtx'[k].mlocked \/ Unharmed(u, k)
  <2>1. u # t /\ k \in held[u] /\ sched_pri'[u] >= sched_pri[u]
    BY <1>i, <1>1, <1>2, <1>3, <1>4 DEF TypeOK
  <2> QED
    BY <1>1, <2>1, Zenon DEF Unharmed
<1> QED
  BY <1>i, <1>4, HoldsBoosted, Zenon

\* Every step keeps the only mutex's holder boosted.
LEMMA StepBoosted ==
    ASSUME PInv, PInv', Boosted, [Next]_vars, NEW one, Mutexes = {one}
    PROVE  Boosted'
<1>i. TypeOK /\ TypeOK' /\ IInv
  BY Zenon DEF PInv, IInv
<1>q. prio' = prio => \A u \in Threads : sched_pri'[u] >= sched_pri[u]
  BY <1>i DEF prio, TypeOK
<1>s. held' = held => \A u \in Threads : held'[u] \subseteq held[u]
  BY Zenon
<1>1. CASE UNCHANGED vars
  BY <1>1, Zenon DEF Boosted, vars, prio
<1>2. ASSUME NEW t \in Threads, NEW m \in Mutexes, Request(t, m) PROVE Boosted'
  <2>w. mtx[m] \in Word
    BY <1>i, Zenon DEF TypeOK
  <2>1. CASE lck_mtx_lock(t, m) \/ lck_mtx_try_lock(t, m)
    <3>1. GrabMutex(t, m, "acquired")
      BY <2>1, Zenon DEF lck_mtx_lock, lck_mtx_try_lock
    <3>2. \A u \in Threads : m \notin held[u]
      BY <1>i, <3>1, LocalForm, Outside DEF GrabMutex, Free, Claims
    <3>3. held' = held /\ prio' = prio /\ \E w : Store(m, w)
      BY <3>1, Zenon DEF GrabMutex
    <3> QED
      BY <1>i, <1>q, <1>s, <3>2, <3>3, QuietBoosted, Zenon
  <2>2. CASE lck_mtx_lock_spin(t, m) \/ lck_mtx_try_lock_spin(t, m)
    <3> DEFINE w == [mtx[m] EXCEPT !.ilocked = TRUE, !.spin = TRUE]
    <3>1. GrabSpin(t, m)
      BY <2>2, Zenon DEF lck_mtx_lock_spin, lck_mtx_try_lock_spin
    <3>2. ~w.mlocked
      BY <2>w, <3>1, Zenon DEF GrabSpin, Free, Word
    <3>3. /\ mtx'[m] = w /\ prio' = prio
      BY <1>i, <3>1, Zenon DEF GrabSpin, Store, TypeOK
    <3> HIDE DEF w
    <3>4. ASSUME NEW u \in Threads, NEW k \in held'[u] PROVE ~mtx'[k].mlocked
      <4>1. k = m
        BY <1>i DEF TypeOK
      <4> QED
        BY <3>2, <3>3, <4>1, Zenon
    <3> QED
      BY <1>i, <3>4, HoldsBoosted, Zenon
  <2>3. CASE lck_mtx_lock_contended(t, m)
    <3>1. held' = held /\ prio' = prio /\ mtx' = mtx
      BY <2>3 DEF lck_mtx_lock_contended
    <3> QED
      BY <3>1, Zenon DEF Boosted, prio
  <2>4. CASE lck_mtx_convert_spin(t, m)
    <3> DEFINE looks == mtx[m].waiters # 0
               v == IF looks THEN AcquiredWord(t, mtx[m]) ELSE mtx[m]
               w == [v EXCEPT !.ilocked = FALSE, !.spin = FALSE, !.mlocked = TRUE]
    <3>1. /\ IF looks THEN lck_mtx_lock_acquire_x86(t, mtx[m]) ELSE prio' = prio
          /\ Store(m, w) /\ held' = held /\ m \in held[t]
      BY <2>4, Zenon DEF lck_mtx_convert_spin
    <3>2. v \in Word /\ v.waiters = mtx[m].waiters /\ v.pri = mtx[m].pri
      BY <2>w, PromotedWord, WordLends, Zenon
    <3>3. looks \in BOOLEAN /\ (mtx[m].waiters # 0 => looks)
      BY Zenon
    <3> HIDE DEF v, looks
    <3>4. w.waiters = mtx[m].waiters /\ w.pri = mtx[m].pri
      BY <3>2, WordLends, Zenon
    <3>5. /\ held' = [held EXCEPT ![t] = @ \cup {m}]
          /\ \A u \in Threads \ {t} : m \notin held[u]
      BY <1>i, <3>1 DEF IInv, MutualExclusion, TypeOK
    <3> HIDE DEF w
    <3> QED
      BY <1>i, <3>1, <3>3, <3>4, <3>5, AcquireBoosted, Zenon
  <2>5. CASE lck_mtx_unlock(t, m)
    <3>1. /\ mtx' = [mtx EXCEPT ![m] = [mtx[m] EXCEPT !.mlocked = FALSE, !.ilocked = TRUE]]
          /\ prio' = prio /\ held' = [held EXCEPT ![t] = @ \ {m}]
      BY <2>5, Zenon DEF lck_mtx_unlock, Store
    <3>2. ~[mtx[m] EXCEPT !.mlocked = FALSE, !.ilocked = TRUE].mlocked
      BY <2>w, Zenon DEF Word
    <3>3. \A u \in Threads : held'[u] \subseteq held[u]
      BY <1>i, <3>1 DEF TypeOK
    <3> QED
      BY <1>i, <1>q, <3>1, <3>2, <3>3, QuietBoosted, Zenon DEF Store
  <2>6. CASE lck_mtx_unlock_spin(t, m)
    <3>1. /\ mtx' = [mtx EXCEPT ![m] = mtx[m]]
          /\ prio' = prio /\ held' = [held EXCEPT ![t] = @ \ {m}]
      BY <1>i, <2>6, Zenon DEF lck_mtx_unlock_spin, TypeOK
    <3>3. \A u \in Threads : held'[u] \subseteq held[u]
      BY <1>i, <3>1 DEF TypeOK
    <3> QED
      BY <1>i, <1>q, <3>1, <3>3, QuietBoosted, Zenon DEF Store
  <2> QED
    BY <1>2, <2>1, <2>2, <2>3, <2>4, <2>5, <2>6, SMTT(20) DEF Request, Release
<1>3. ASSUME NEW t \in Threads, Continue(t) PROVE Boosted'
  <2> DEFINE m == obj[t]
  <2>w. m \in Mutexes /\ mtx[m] \in Word
    BY <1>i, Zenon DEF TypeOK
  <2>1. CASE lck_mtx_lock_finish(t)
    <3> DEFINE looks == mtx[m].waiters # 0 \/ (pc[t] = "acquiredSlow" /\ was_promoted[t])
               v == IF looks THEN AcquiredWord(t, mtx[m]) ELSE mtx[m]
               w == [v EXCEPT !.ilocked = FALSE]
    <3>1. /\ IF looks THEN lck_mtx_lock_acquire_x86(t, mtx[m]) ELSE prio' = prio
          /\ Store(m, w) /\ held' = [held EXCEPT ![t] = @ \cup {m}]
          /\ pc[t] \in {"acquired", "acquiredSlow"}
      BY <2>1, Zenon DEF lck_mtx_lock_finish
    <3>2. v \in Word /\ v.waiters = mtx[m].waiters /\ v.pri = mtx[m].pri
      BY <2>w, PromotedWord, WordLends, Zenon
    <3>3. looks \in BOOLEAN /\ (mtx[m].waiters # 0 => looks)
      BY Zenon
    <3> HIDE DEF v, looks
    <3>4. w.waiters = mtx[m].waiters /\ w.pri = mtx[m].pri
      BY <3>2, WordLends, Zenon
    <3>5. \A u \in Threads \ {t} : m \notin held[u]
      BY <1>i, <2>w, <3>1, SMTT(20) DEF IInv, BitsOwned, Claims
    <3> HIDE DEF w, m
    <3> QED
      BY <1>i, <2>w, <3>1, <3>3, <3>4, <3>5, AcquireBoosted, Zenon
  <2>2. CASE lck_mtx_lock_grab_mutex(t)
    <3>1. GrabMutex(t, m, "acquiredSlow")
      BY <2>2, Zenon DEF lck_mtx_lock_grab_mutex
    <3>2. \A u \in Threads : m \notin held[u]
      BY <1>i, <2>w, <3>1, LocalForm, Outside DEF GrabMutex, Free, Claims
    <3>3. held' = held /\ prio' = prio /\ \E w : Store(m, w)
      BY <3>1, Zenon DEF GrabMutex
    <3> HIDE DEF m
    <3> QED
      BY <1>i, <1>q, <1>s, <2>w, <3>2, <3>3, QuietBoosted, Zenon
  <2>3. CASE lck_mtx_ilk_try_lock(t) \/ lck_mtx_lock_interlock(t)
    <3>1. Store(m, [mtx[m] EXCEPT !.ilocked = TRUE]) /\ held' = held /\ prio' = prio
      BY <2>3, Zenon DEF lck_mtx_ilk_try_lock, lck_mtx_lock_interlock, TakeInterlock
    <3> HIDE DEF m
    <3> QED
      BY <1>i, <1>q, <1>s, <2>w, <3>1, WordLends, QuietBoosted, Zenon
  <2>4. CASE lck_mtx_ilk_unlock(t)
    <3>1. Store(m, [mtx[m] EXCEPT !.ilocked = FALSE]) /\ held' = held /\ prio' = prio
      BY <2>4, Zenon DEF lck_mtx_ilk_unlock
    <3> HIDE DEF m
    <3> QED
      BY <1>i, <1>q, <1>s, <2>w, <3>1, WordLends, QuietBoosted, Zenon
  <2>5. CASE lck_mtx_lock_spinwait_x86(t)
    <3>1. held' = held /\ prio' = prio /\ mtx' = mtx
      BY <2>5, SMTT(20) DEF lck_mtx_lock_spinwait_x86
    <3> QED
      BY <3>1, Zenon DEF Boosted, prio
  <2>6. CASE lck_mtx_lock_grab_direct(t)
    <3>1. pc[t] = "slowIlk" /\ ecx[t] = mtx[m] /\ ~mtx[m].mlocked
      BY <1>i, <2>6, Zenon DEF lck_mtx_lock_grab_direct, IInv, InterlockExclusive
    <3>2. \A u \in Threads : m \notin held[u]
      <4>1. LocalInv(m) /\ Interlocks(t, m) /\ m \notin held[t]
        BY <1>i, <2>w, <3>1, LocalForm DEF Interlocks, IlkPcs, IInv, PointsAgree
      <4> QED
        BY <2>w, <3>1, <4>1, Insider DEF Claims
    <3>3. held' = held /\ prio' = prio /\ \E w : Store(m, w)
      BY <2>6, Zenon DEF lck_mtx_lock_grab_direct
    <3> HIDE DEF m
    <3> QED
      BY <1>i, <1>q, <1>s, <2>w, <3>2, <3>3, QuietBoosted, Zenon
  <2>7. CASE lck_mtx_lock_wait_x86(t)
    BY <1>i, <2>7, WaitBoosted, Zenon
  <2>8. CASE lck_mtx_unlock_store(t)
    <3>1. pc[t] = "release" /\ held' = held /\ prio' = prio /\ \E w : Store(m, w)
      BY <2>8, Zenon DEF lck_mtx_unlock_store
    <3>2. \A u \in Threads : m \notin held[u]
      BY <1>i, <2>w, <3>1, SMTT(20) DEF IInv, BitsOwned, PointsAgree, Claims
    <3> HIDE DEF m
    <3> QED
      BY <1>i, <1>q, <1>s, <2>w, <3>1, <3>2, QuietBoosted, Zenon
  <2>9. CASE lck_mtx_unlock_wakeup_x86(t)
    <3>1. mtx' = mtx /\ held' = held
      BY <2>9, Zenon DEF lck_mtx_unlock_wakeup_x86
    <3>2. \A u \in Threads : sched_pri'[u] >= sched_pri[u]
      <4>1. prio' = prio \/ \E u \in Threads : WokenWith(u, ecx[t].pri)
        BY <2>9, Zenon DEF lck_mtx_unlock_wakeup_x86, Sleepers
      <4>2. ASSUME NEW u \in Threads, WokenWith(u, ecx[t].pri), prio' # prio
            PROVE  \A x \in Threads : sched_pri'[x] >= sched_pri[x]
        <5>1. sched_pri[u] < ecx[t].pri /\ sched_pri' = [sched_pri EXCEPT ![u] = ecx[t].pri]
          BY <4>2, Zenon DEF WokenWith
        <5>2. ecx[t].pri \in Nat
          BY <1>i, Zenon DEF TypeOK, Word
        <5> QED
          BY <1>i, <5>1, <5>2 DEF TypeOK
      <4> QED
        BY <1>q, <4>1, <4>2, Zenon
    <3>3. mtx' = [mtx EXCEPT ![m] = mtx[m]]
      BY <1>i, <3>1, SMTT(20) DEF TypeOK
    <3> HIDE DEF m
    <3> QED
      BY <1>i, <1>s, <2>w, <3>1, <3>2, <3>3, QuietBoosted, Zenon DEF Store
  <2>10. CASE lck_mtx_unlock_demote(t)
    BY <1>i, <2>10, DemoteBoosted, Zenon
  <2> QED
    BY <1>3, <2>1, <2>2, <2>3, <2>4, <2>5, <2>6, <2>7, <2>8, <2>9, <2>10, SMTT(20) DEF Continue
<1> QED
  BY <1>1, <1>2, <1>3, Zenon DEF Next

\* With a single mutex, its holder runs at no less than the priority its
\* waiters lend, whatever the priorities are: lck_mtx_lock_acquire_x86 and
\* lck_mtx_lock_wait_x86 leave no moment at which a waiter is not lent for.
\* (With two, releasing one takes back what the other relies on.)
THEOREM OneMutexBoosts ==
    ASSUME NEW CONSTANT one, Mutexes = {one}
    PROVE  Spec => []HolderBoosted
<1>1. Init => Boosted
  BY Zenon DEF Init, Boosted
<1>2. PInv /\ PInv' /\ Boosted /\ [Next]_vars => Boosted'
  BY StepBoosted, Zenon
<1>3. Boosted => HolderBoosted
  BY Zenon DEF Boosted, HolderBoosted
<1> QED
  BY <1>1, <1>2, <1>3, LendingInvariance, PTL DEF Spec

=============================================================================
