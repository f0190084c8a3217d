-------------------------- MODULE ThreadCallProofs --------------------------
(***************************************************************************)
(* The theorems about thread calls, for any calls, groups, clients and     *)
(* delays, and any finite set of workers.  ThreadCallSteps shows that each *)
(* step keeps the invariant of the queues, counts and references; the      *)
(* waiting clients follow here.                                            *)
(***************************************************************************)
EXTENDS ThreadCallSteps, FiniteSetTheorems

\* Finite sets have the numbers of elements that the steps count with.
LEMMA CountsOfFiniteSets == FiniteCounts
<1>1. Cardinality({}) = 0
  BY FS_EmptySet, Zenon
<1>2. ASSUME NEW S \in SUBSET Workers PROVE IsFiniteSet(S)
  <2>1. IsFiniteSet(Workers)
    BY ThreadCallConstants, Zenon DEF ThreadCallConstants
  <2> QED
    BY <1>2, <2>1, FS_Subset, Zenon
<1>3. \A S \in SUBSET Workers : Cardinality(S) \in Nat
  BY <1>2, FS_CardinalityType, Zenon
<1>4. \A S \in SUBSET Workers : \A x \in Workers :
         /\ Cardinality(S \cup {x}) = IF x \in S THEN Cardinality(S) ELSE Cardinality(S) + 1
         /\ Cardinality(S \ {x}) = IF x \in S THEN Cardinality(S) - 1 ELSE Cardinality(S)
  BY <1>2, FS_AddElement, FS_RemoveElement, Zenon
<1>5. ASSUME NEW n \in Nat, NEW S \in SUBSET (1 .. n)
      PROVE  Cardinality(S) \in Nat /\ Cardinality(S) <= n
  <2>1. IsFiniteSet(1 .. n) /\ Cardinality(1 .. n) = IF 1 > n THEN 0 ELSE n - 1 + 1
    BY FS_Interval
  <2>2. Cardinality(1 .. n) = n
    BY <2>1
  <2> QED
    BY <2>1, <2>2, FS_Subset, FS_CardinalityType, Zenon
<1> QED
  BY <1>1, <1>3, <1>4, <1>5, Zenon DEF FiniteCounts

-----------------------------------------------------------------------------
(* The theorems. *)

\* The invariant holds at the start.
LEMMA InitInv ==
    ASSUME Init
    PROVE  IInv
<1>1. QueueInv
  <2>1. <<>> \in Seq(Calls) /\ IsInjective(<<>>) /\ Range(<<>>) = {} /\ Len(<<>>) = 0
    BY DEF IsInjective, Range
  <2>2. QueuesExact
    BY <2>1, Zenon DEF Init, QueuesExact, IsQueue
  <2> QED
    BY <2>1, <2>2, Zenon DEF Init, QueueInv
<1>2. PoolInv
  <2>1. 1 \in DOMAIN Groups
    BY ThreadCallConstants DEF ThreadCallConstants
  <2>2. WorkerShape(NoWork)
    BY Zenon DEF WorkerShape, NoWork, Places
  <2>3. worker = [w \in Workers |-> worker[w]] /\ \A w \in Workers : worker[w] = NoWork
    BY Zenon DEF Init
  <2>4. ASSUME NEW g \in GroupSet PROVE Asleep(g) = {} /\ Counted(g) = {}
    <3>1. NoWork.at = "none" /\ NoWork.group = None /\ None \notin GroupSet
      BY ThreadCallConstants, Zenon DEF ThreadCallConstants, NoWork
    <3> QED
      BY <2>3, <3>1, Zenon DEF Asleep, Counted
  <2>5. Cardinality({}) = 0
    BY FS_EmptySet, Zenon
  <2>6. daemon = [at |-> "scan", i |-> 1] /\ daemon_awake = TRUE
    BY Zenon DEF Init
  <2>7. \A g \in GroupSet : Creating(g) = 0
    BY <2>6, Zenon DEF Creating
  <2>8. /\ daemon \in [at : {"scan", "create", "asleep"}, i : DOMAIN Groups]
        /\ daemon_awake \in BOOLEAN /\ (daemon.at = "create" => daemon_awake)
        /\ daemon.at = "scan" => daemon_awake
    BY <2>1, <2>6, Zenon
  <2>9. ASSUME NEW g \in GroupSet
        PROVE  /\ idle_count[g] = Cardinality(Asleep(g))
               /\ active_count[g] = Cardinality(Counted(g)) + Creating(g) + lost[g]
    <3>1. idle_count[g] = 0 /\ active_count[g] = 0 /\ lost[g] = 0
      BY Zenon DEF Init
    <3>2. Cardinality(Asleep(g)) = 0 /\ Cardinality(Counted(g)) = 0 /\ Creating(g) = 0
      BY <2>4, <2>5, <2>7, Zenon
    <3> QED
      BY <3>1, <3>2
  <2>10. idle_count \in [GroupSet -> Nat] /\ active_count \in [GroupSet -> Nat] /\ lost \in [GroupSet -> Nat]
    BY Zenon DEF Init
  <2> QED
    BY <2>2, <2>3, <2>8, <2>9, <2>10 DEF PoolInv
<1>3. CallInv
  <2>1. /\ refs \in [Calls -> Nat] /\ behind \in [Calls -> Int]
        /\ live \in [Calls -> BOOLEAN] /\ owned \in [Calls -> BOOLEAN]
    BY DEF Init
  <2>2. ASSUME NEW c \in Calls PROVE CallSound(c)
    <3>1. /\ queue[c] = "none" /\ refs[c] = 0 /\ behind[c] = 0
          /\ live[c] <=> c \in Setup
          /\ owned[c] <=> c \in Setup
      BY Zenon DEF Init
    <3>2. c \in Setup => c \notin Alloc /\ c \notin Internal
      BY ThreadCallConstants, Zenon DEF ThreadCallConstants
    <3>3. Cardinality(Running(c)) = 0
      <4>1. NoWork.call = None /\ None \notin Calls
        BY ThreadCallConstants, Zenon DEF ThreadCallConstants, NoWork
      <4>2. \A w \in Workers : worker[w] = NoWork
        BY Zenon DEF Init
      <4>3. Running(c) = {}
        BY <4>1, <4>2, Zenon DEF Running
      <4> QED
        BY <4>3, FS_EmptySet, Zenon
    <3> QED
      BY <3>1, <3>2, <3>3 DEF CallSound, Count
  <2> QED
    BY <2>1, <2>2, Zenon DEF CallInv
<1> QED
  BY <1>1, <1>2, <1>3 DEF IInv

\* Queues, pool and calls together are inductive.
LEMMA Invariance ==
    Spec => []IInv
<1>1. Init => IInv
  BY InitInv, Zenon
<1>2. IInv /\ [Next]_vars => IInv'
  BY CountsOfFiniteSets, QueueStep, PoolStep, CallStep, Zenon DEF IInv
<1> QED
  BY <1>1, <1>2, PTL DEF Spec

\* The queue field of every call names the queue of its group that holds it, and
\* holds it once, through entering, delaying, cancelling and taking calls, the
\* timer's moves and rescans (_pending_call_enqueue, _delayed_call_enqueue,
\* _call_dequeue, thread_call_thread).
THEOREM QueuesAreExact == Spec => []QueuesExact
<1>1. IInv => QueuesExact
  BY DEF IInv, QueueInv
<1> QED
  BY <1>1, Invariance, PTL

\* pending_count, idle_count and active_count count the pending calls, the idle
\* workers and the active ones, with those the daemon is creating or failed to
\* create (thread_call_wake, thread_call_thread, sched_call_thread,
\* thread_call_daemon_continue, thread_call_dealloc_timer).
THEOREM CountsAreExact == Spec => []CountsExact
<1>1. IInv => CountsExact
  BY DEF IInv, QueueInv, PoolInv, CountsExact
<1> QED
  BY <1>1, Invariance, PTL

\* tc_refs counts the owner and the functions in flight, the storage is there as
\* long as it counts something, and it is given back with the last reference
\* unless a worker is between its wakeup and its second look at the call, however
\* thread_call_free and the ends of the functions interleave (thread_call_free,
\* thread_call_finish).
THEOREM ReferencesAreExact == Spec => []RefsExact
<1>1. ASSUME CallInv PROVE RefsExact
  <2>1. ASSUME NEW c \in Alloc
        PROVE  /\ refs[c] = Cardinality(Running(c)) + (IF owned[c] THEN 1 ELSE 0)
               /\ refs[c] > 0 => live[c]
               /\ live[c] /\ refs[c] = 0 => \E w \in Touching(c) : worker[w].at \in {"wakeup", "relock"}
    <3>1. CallSound(c)
      BY <1>1, Zenon DEF CallInv, Calls
    <3>2. Leaving(c) => \E w \in Touching(c) : worker[w].at \in {"wakeup", "relock"}
      BY Zenon DEF Leaving, Touching
    <3> QED
      BY <3>1, <3>2, Zenon DEF CallSound, Count
  <2> QED
    BY <2>1, Zenon DEF RefsExact
<1>2. IInv => RefsExact
  BY <1>1 DEF IInv
<1> QED
  BY <1>2, Invariance, PTL

\* tc_submit_count - tc_finish_count is the number of functions in flight, and one
\* more while the call is on a queue, which is what thread_call_cancel_wait
\* waits by (thread_call_wait_locked, thread_call_isactive).
THEOREM OutstandingIsExact == Spec => []OutstandingExact
<1>1. ASSUME CallInv PROVE OutstandingExact
  <2>1. ASSUME NEW c \in Alloc, live[c]
        PROVE  behind[c] = Cardinality(Running(c)) + (IF queue[c] = "none" THEN 0 ELSE 1)
    <3>1. CallSound(c)
      BY <1>1, Zenon DEF CallInv, Calls
    <3> QED
      BY <2>1, <3>1 DEF CallSound, Count
  <2> QED
    BY <2>1, Zenon DEF OutstandingExact
<1>2. IInv => OutstandingExact
  BY <1>1, Zenon DEF IInv
<1> QED
  BY <1>2, Invariance, PTL

\* A queued call and a call whose function runs have their storage, and an
\* internal entry is off the free list only while a queue holds it
\* (thread_call_free, thread_call_thread, _internal_call_allocate,
\* _internal_call_release).  It ends with the function: what a worker may find
\* afterwards is the subject of WorkerOwnsCall.
THEOREM StorageIsSound == Spec => []StorageSound
<1>1. ASSUME CallInv PROVE StorageSound
  <2>1. \A c \in Calls : CallSound(c)
    BY <1>1, Zenon DEF CallInv
  <2>2. (\A c \in Internal : c \in Calls) /\ (\A c \in Alloc : c \in Calls)
    BY Zenon DEF Calls
  <2>3. ASSUME NEW c \in Alloc, Running(c) # {} PROVE live[c]
    <3>1. PICK w \in Workers : w \in Running(c)
      BY <2>3, Zenon DEF Running
    <3>2. Running(c) \in SUBSET Workers /\ Running(c) \ {w} \in SUBSET Workers
      BY Zenon DEF Running
    <3>3. /\ Cardinality(Running(c)) \in Nat /\ Cardinality(Running(c) \ {w}) \in Nat
          /\ Cardinality(Running(c) \ {w}) = Cardinality(Running(c)) - 1
      BY <3>1, <3>2, CountsOfFiniteSets, Zenon DEF FiniteCounts
    <3>4. refs[c] = Cardinality(Running(c)) + Count(owned[c]) /\ (refs[c] > 0 => live[c])
      BY <2>1, <2>2, Zenon DEF CallSound
    <3>5. Count(owned[c]) \in Nat
      BY DEF Count
    <3> QED
      BY <3>3, <3>4, <3>5
  <2> QED
    BY <2>1, <2>2, <2>3, Zenon DEF CallSound, StorageSound
<1>2. IInv => StorageSound
  BY <1>1, Zenon DEF IInv
<1> QED
  BY <1>2, Invariance, PTL

\* The timer that retires workers is never started while it is set or its callout
\* is on its way, although the flag that says so is set by workers, cleared by
\* the callout, and survives the cancellation in thread_call_wake
\* (thread_call_start_deallocate_timer, thread_call_dealloc_timer).
THEOREM DeallocTimerIsOnce == Spec => []DeallocTimerOnce
<1>1. Init => DeallocInv
  BY Zenon DEF Init, DeallocInv, DeallocTimerOnce
<1>2. IInv /\ DeallocInv /\ [Next]_vars => DeallocInv'
  BY DeallocKept, Zenon
<1>3. DeallocInv => DeallocTimerOnce
  BY Zenon DEF DeallocInv
<1> QED
  BY <1>1, <1>2, <1>3, Invariance, PTL DEF Spec

-----------------------------------------------------------------------------
(* The clients that wait. *)

\* A worker is about to wake those that wait for the call.
IsWaking(r, c) == r.call = c /\ r.at = "wakeup"
Waking(c) == \E w \in Workers : IsWaking(worker[w], c)

\* A client that waits: it has a call that stays allocated, it has no more to
\* wait for than there are functions in flight, and one of them, or a worker
\* about to wake it, knows of it.
WaitOf(r) ==
    /\ r.at # "out" => r.call \in Alloc /\ owned[r.call]
    /\ r.at \in {"wait", "woken"} => r.left <= Cardinality(Running(r.call))
    /\ r.at = "wait" => (wait[r.call] /\ Running(r.call) # {}) \/ Waking(r.call)

WaitSound(k) == WaitOf(client[k])

WaitRecords == [at : {"out", "wait", "woken", "done"}, call : Calls \cup {None}, left : Nat]

WaitTypes == client \in [Clients -> WaitRecords] /\ wait \in [Calls -> BOOLEAN]

WaitInv == WaitTypes /\ \A k \in Clients : WaitSound(k)

\* No call loses a function in flight, or a wakeup on its way.
KeptRun(c) ==
    /\ Cardinality(Running(c)) <= Cardinality(Running(c)')
    /\ Running(c) # {} => Running(c)' # {}
    /\ Waking(c) => Waking(c)'
KeptRuns == \A c \in Alloc : KeptRun(c)

\* Steps that move no worker.
LEMMA KeptSame ==
    ASSUME FiniteCounts, worker' = worker
    PROVE  KeptRuns
<1>1. ASSUME NEW c \in Alloc PROVE KeptRun(c)
  <2>1. Running(c)' = Running(c) /\ (Waking(c) => Waking(c)')
    BY Zenon DEF Running, Waking
  <2>2. Cardinality(Running(c)) \in Nat
    BY CountsNat, Zenon
  <2>3. Cardinality(Running(c)) <= Cardinality(Running(c)')
    BY <2>1, <2>2
  <2> QED
    BY <2>1, <2>3, Zenon DEF KeptRun
<1> QED
  BY <1>1, Zenon DEF KeptRuns

\* A worker moves that neither leaves the call's function nor owes a wakeup.
LEMMA KeptMove ==
    ASSUME FiniteCounts, PoolInv, NEW w \in Workers, NEW r, worker' = [worker EXCEPT ![w] = r], NEW c,
           IsRunning(worker[w], c) => IsRunning(r, c), IsWaking(worker[w], c) => IsWaking(r, c)
    PROVE  KeptRun(c)
<1>1. \A v \in Workers : worker'[v] = IF v = w THEN r ELSE worker[v]
  BY Zenon DEF PoolInv
<1>2. Waking(c) => Waking(c)'
  BY <1>1, Zenon DEF Waking
<1>3. \A v \in Workers : v \in Running(c) => v \in Running(c)'
  BY <1>1, Zenon DEF Running, IsRunning
<1>4. Running(c) # {} => Running(c)' # {}
  BY <1>3, Zenon DEF Running
<1>5. Cardinality(Running(c)) <= Cardinality(Running(c)')
  <2>1. worker = [v \in Workers |-> worker[v]]
    BY Zenon DEF PoolInv
  <2>2. /\ Cardinality(Running(c)) \in Nat /\ Cardinality(Running(c)') \in Nat
        /\ Cardinality(Running(c)') =
              Cardinality(Running(c)) - Count(IsRunning(worker[w], c)) + Count(IsRunning(r, c))
    BY <2>1, WorkerMoves, Zenon
  <2>3. /\ Count(IsRunning(worker[w], c)) \in {0, 1} /\ Count(IsRunning(r, c)) \in {0, 1}
        /\ Count(IsRunning(worker[w], c)) = 1 => Count(IsRunning(r, c)) = 1
    BY Zenon DEF Count
  <2> QED
    BY <2>2, <2>3
<1> QED
  BY <1>2, <1>4, <1>5, Zenon DEF KeptRun

\* A worker without a call.
LEMMA KeptIdle ==
    ASSUME FiniteCounts, PoolInv, NEW w \in Workers, NEW r, worker' = [worker EXCEPT ![w] = r],
           worker[w].call = None
    PROVE  KeptRuns
<1>1. None \notin Alloc
  BY ThreadCallConstants, Zenon DEF ThreadCallConstants, Calls
<1>2. ASSUME NEW c \in Alloc PROVE KeptRun(c)
  <2>1. ~IsRunning(worker[w], c) /\ ~IsWaking(worker[w], c)
    BY <1>1, <1>2, Zenon DEF IsRunning, IsWaking
  <2> QED
    BY <2>1, KeptMove, Zenon
<1> QED
  BY <1>2, Zenon DEF KeptRuns

\* The worker that thread_call_wake wakes has no call.
LEMMA KeptWake ==
    ASSUME FiniteCounts, PoolInv, NEW g \in GroupSet, NEW p, thread_call_wake(g, p)
    PROVE  KeptRuns
<1>1. CASE worker' = worker
  BY <1>1, KeptSame, Zenon
<1>2. ASSUME NEW w \in Asleep(g), worker' = [worker EXCEPT ![w].at = "start"] PROVE KeptRuns
  <2>1. w \in Workers /\ worker[w].at = "idle" /\ WorkerShape(worker[w]) /\ worker[w].call = None
    BY Zenon DEF Asleep, PoolInv, WorkerShape
  <2>2. worker' = [worker EXCEPT ![w] = [at |-> "start", group |-> worker[w].group, call |-> worker[w].call]]
    BY <1>2, <2>1, WorkerAt, Zenon
  <2> QED
    BY <2>1, <2>2, KeptIdle, Zenon
<1> QED
  BY <1>1, <1>2, Zenon DEF thread_call_wake, poolVars

\* A client stays where it is, with no more to wait for.
LessWait(r, s) == r.at = s.at /\ r.call = s.call /\ r.left \in Nat /\ r.left <= s.left
SameWait(k) == LessWait(client'[k], client[k])

\* What holds of a client's next record holds of the client next.
LEMMA WaitNext ==
    ASSUME NEW k, NEW r, NEW c, client'[k] = r, r.call = c,
           r.at # "out" => c \in Alloc /\ owned'[c],
           r.at \in {"wait", "woken"} => r.left <= Cardinality(Running(c)'),
           r.at = "wait" => (wait'[c] /\ Running(c)' # {}) \/ Waking(c)'
    PROVE  WaitSound(k)'
  BY Zenon DEF WaitSound, WaitOf, Running, Waking, IsWaking

\* What a waiting client knows of its call is kept.
LEMMA WaitSame ==
    ASSUME FiniteCounts, WaitInv, NEW k \in Clients, SameWait(k),
           NEW c, c = client[k].call,
           client[k].at # "out" => KeptRun(c) /\ owned'[c] /\ (wait[c] => wait'[c])
    PROVE  WaitSound(k)'
<1>1. WaitOf(client[k]) /\ client[k].left \in Nat
  BY Zenon DEF WaitInv, WaitTypes, WaitRecords, WaitSound
<1>2. PICK r : client'[k] = r
  BY Zenon
<1>3. /\ r.at = client[k].at /\ r.call = c
      /\ r.left \in Nat /\ r.left <= client[k].left
  BY <1>2, Zenon DEF SameWait, LessWait
<1>4. r.at # "out" => c \in Alloc /\ owned'[c]
  BY <1>1, <1>3, Zenon DEF WaitOf
<1>5. ASSUME r.at \in {"wait", "woken"} PROVE r.left <= Cardinality(Running(c)')
  <2>1. /\ client[k].left <= Cardinality(Running(c))
        /\ Cardinality(Running(c)) <= Cardinality(Running(c)')
    BY <1>1, <1>3, <1>5, Zenon DEF WaitOf, KeptRun
  <2>2. Cardinality(Running(c)) \in Nat /\ Cardinality(Running(c)') \in Nat
    <3>1. Running(c) \in SUBSET Workers /\ Running(c)' \in SUBSET Workers
      BY Zenon DEF Running
    <3> QED
      BY <3>1, Zenon DEF FiniteCounts
  <2> QED
    BY <1>1, <1>3, <2>1, <2>2
<1>6. r.at = "wait" => (wait'[c] /\ Running(c)' # {}) \/ Waking(c)'
  BY <1>1, <1>3, Zenon DEF WaitOf, KeptRun
<1> QED
  BY <1>2, <1>3, <1>4, <1>5, <1>6, WaitNext, Zenon

\* Nothing that matters to a waiting client changes.
LEMMA WaitsKept ==
    ASSUME FiniteCounts, WaitInv, WaitTypes', KeptRuns, \A k \in Clients : SameWait(k),
           \A c \in Alloc : owned[c] => owned'[c] /\ (wait[c] => wait'[c])
    PROVE  WaitInv'
<1>1. ASSUME NEW k \in Clients PROVE WaitSound(k)'
  <2>1. PICK c : c = client[k].call
    BY Zenon
  <2>2. client[k].at # "out" => c \in Alloc /\ owned[c]
    BY <2>1, Zenon DEF WaitInv, WaitSound, WaitOf
  <2>3. client[k].at # "out" => KeptRun(c) /\ owned'[c] /\ (wait[c] => wait'[c])
    BY <2>2, Zenon DEF KeptRuns
  <2> QED
    BY <2>1, <2>3, WaitSame, Zenon
<1> QED
  BY <1>1, Zenon DEF WaitInv

\* The clients stay, or have one less to wait for.
LEMMA ClientsSame ==
    ASSUME WaitTypes, client' = client
    PROVE  client' \in [Clients -> WaitRecords] /\ \A k \in Clients : SameWait(k)
<1>1. \A k \in Clients : client[k].left \in Nat
  BY Zenon DEF WaitTypes, WaitRecords
<1>2. \A n \in Nat : n <= n
  OBVIOUS
<1> QED
  BY <1>1, <1>2, Zenon DEF WaitTypes, SameWait, LessWait

\* A finish leaves the clients of its call one less to wait for.
LEMMA ClientsFinished ==
    ASSUME WaitTypes, NEW c, NEW f, f = Finished(c)
    PROVE  f \in [Clients -> WaitRecords] /\ \A k \in Clients : LessWait(f[k], client[k])
<1>1. ASSUME NEW k \in Clients PROVE f[k] \in WaitRecords /\ LessWait(f[k], client[k])
  <2>1. client[k] \in WaitRecords
    BY Zenon DEF WaitTypes
  <2>2. f[k] = IF client[k].call = c /\ client[k].left > 0
               THEN [client[k] EXCEPT !.left = @ - 1] ELSE client[k]
    BY Zenon DEF Finished
  <2>3. CASE client[k].call = c /\ client[k].left > 0
    <3>1. f[k] = [client[k] EXCEPT !.left = client[k].left - 1]
      BY <2>2, <2>3, Zenon
    <3>2. client[k].left \in Nat /\ client[k].left - 1 \in Nat /\ client[k].left - 1 <= client[k].left
      BY <2>1, <2>3 DEF WaitRecords
    <3> QED
      BY <2>1, <3>1, <3>2, Zenon DEF WaitRecords, LessWait
  <2>4. CASE ~(client[k].call = c /\ client[k].left > 0)
    <3>1. f[k] = client[k]
      BY <2>2, <2>4, Zenon
    <3>2. client[k].left \in Nat /\ client[k].left <= client[k].left
      BY <2>1 DEF WaitRecords
    <3> QED
      BY <2>1, <3>1, <3>2, Zenon DEF LessWait
  <2> QED
    BY <2>3, <2>4, Zenon
<1>2. f = [k \in Clients |-> f[k]]
  BY Zenon DEF Finished
<1> QED
  BY <1>1, <1>2, Zenon

\* Steps of everybody else: no worker is lost, no client moves, and the flag and
\* the owner stay.
LEMMA WaitQuiet ==
    ASSUME FiniteCounts, WaitInv, KeptRuns, UNCHANGED <<wait, owned>>,
           client' = client \/ \E c \in Calls : client' = Finished(c)
    PROVE  WaitInv'
<1>1. client' \in [Clients -> WaitRecords] /\ \A k \in Clients : SameWait(k)
  BY ClientsSame, ClientsFinished, Zenon DEF WaitInv, SameWait
<1>2. WaitTypes'
  BY <1>1, Zenon DEF WaitInv, WaitTypes
<1> QED
  BY <1>1, <1>2, WaitsKept, Zenon

\* thread_call_free and thread_call_allocate: nobody waits for the call.
LEMMA FreeWaits ==
    ASSUME FiniteCounts, CallInv, WaitInv, NEW c \in Calls, thread_call_free(c) \/ thread_call_allocate(c)
    PROVE  WaitInv'
<1>1. worker' = worker /\ client' = client
  BY Zenon DEF thread_call_free, thread_call_allocate, poolVars
<1>2. /\ KeptRuns
      /\ client' \in [Clients -> WaitRecords] /\ \A k \in Clients : SameWait(k)
  BY <1>1, KeptSame, ClientsSame, Zenon DEF WaitInv
<1>3. wait' \in [Calls -> BOOLEAN]
  BY Zenon DEF thread_call_free, thread_call_allocate, WaitInv, WaitTypes
<1>4. \A b \in Calls : b # c => owned'[b] = owned[b] /\ wait'[b] = wait[b]
  BY Zenon DEF thread_call_free, thread_call_allocate, WaitInv, WaitTypes, CallInv
<1>5. \A k \in Clients : client[k].at # "out" => client[k].call # c
  BY Zenon DEF thread_call_free, thread_call_allocate, WaitInv, WaitSound, WaitOf, CallInv, CallSound
<1>6. ASSUME NEW k \in Clients PROVE WaitSound(k)'
  <2>1. PICK b : b = client[k].call
    BY Zenon
  <2>2. client[k].at # "out" => b \in Alloc /\ b \in Calls /\ owned[b] /\ b # c
    BY <1>5, <2>1, Zenon DEF WaitInv, WaitSound, WaitOf, Calls
  <2>3. client[k].at # "out" => KeptRun(b) /\ owned'[b] /\ (wait[b] => wait'[b])
    BY <1>2, <1>4, <2>2, Zenon DEF KeptRuns
  <2> QED
    BY <1>2, <2>1, <2>3, WaitSame, Zenon
<1> QED
  BY <1>2, <1>3, <1>6, Zenon DEF WaitInv, WaitTypes

\* A client that counts functions in flight finds some.
LEMMA SomeRun ==
    ASSUME FiniteCounts, NEW c, Cardinality(Running(c)) # 0
    PROVE  Running(c) # {}
  BY Zenon DEF FiniteCounts

\* One client moves, the others stay or have less to wait for.
LEMMA OneClient ==
    ASSUME FiniteCounts, WaitInv, KeptRuns, NEW k \in Clients,
           NEW f \in [Clients -> WaitRecords], \A j \in Clients : LessWait(f[j], client[j]),
           NEW r \in WaitRecords, client' = [f EXCEPT ![k] = r], owned' = owned,
           wait' \in [Calls -> BOOLEAN], \A b \in Alloc : wait[b] => wait'[b],
           NEW c, r.call = c, r.at # "out" => c \in Alloc /\ owned[c],
           r.at \in {"wait", "woken"} => r.left <= Cardinality(Running(c)'),
           r.at = "wait" => wait'[c] /\ Running(c)' # {}
    PROVE  WaitInv'
<1>1. WaitTypes'
  BY Zenon DEF WaitTypes
<1>2. WaitSound(k)'
  <2>1. client'[k] = r
    BY Zenon
  <2> QED
    BY <2>1, WaitNext, Zenon
<1>3. ASSUME NEW j \in Clients, j # k PROVE WaitSound(j)'
  <2>1. SameWait(j)
    BY <1>3, Zenon DEF SameWait
  <2>2. PICK b : b = client[j].call
    BY Zenon
  <2>3. client[j].at # "out" => b \in Alloc /\ owned[b]
    BY <2>2, Zenon DEF WaitInv, WaitSound, WaitOf
  <2>4. client[j].at # "out" => KeptRun(b) /\ owned'[b] /\ (wait[b] => wait'[b])
    BY <2>3, Zenon DEF KeptRuns
  <2> QED
    BY <2>1, <2>2, <2>4, WaitSame, Zenon
<1> QED
  BY <1>1, <1>2, <1>3, Zenon DEF WaitInv

\* thread_call_cancel_wait: a client takes the call off its queue, or waits for the
\* functions that are in flight, with the flag set.
LEMMA CancelWaits ==
    ASSUME FiniteCounts, CallInv, WaitInv, NEW k \in Clients, NEW c \in Calls, thread_call_cancel_wait(k, c)
    PROVE  WaitInv'
<1>1. owned[c] /\ c \in Alloc /\ live[c] /\ worker' = worker /\ owned' = owned
  <2>1. /\ owned[c] /\ "wait" \in Uses[c] /\ worker' = worker /\ owned' = owned
    BY Zenon DEF thread_call_cancel_wait, May, poolVars
  <2>2. c \notin Internal /\ live[c]
    BY <2>1, Zenon DEF CallInv, CallSound
  <2>3. c \notin Setup
    BY <2>1, ThreadCallConstants, Zenon DEF ThreadCallConstants
  <2> QED
    BY <2>1, <2>2, <2>3, Zenon DEF Calls
<1>2. KeptRuns /\ Running(c)' = Running(c)
  BY <1>1, KeptSame, Zenon DEF Running
<1>3. wait \in [Calls -> BOOLEAN] /\ client \in [Clients -> WaitRecords]
  BY Zenon DEF WaitInv, WaitTypes
<1>4. CASE /\ client' = [Finished(c) EXCEPT ![k] = [at |-> "done", call |-> c, left |-> 0]]
           /\ wait' = wait
  <2>1. PICK f : f = Finished(c)
    BY Zenon
  <2>2. PICK r : r = [at |-> "done", call |-> c, left |-> 0]
    BY Zenon
  <2>3. f \in [Clients -> WaitRecords] /\ \A j \in Clients : LessWait(f[j], client[j])
    BY <2>1, ClientsFinished, Zenon DEF WaitInv
  <2>4. client' = [f EXCEPT ![k] = r] /\ r.at = "done" /\ r.call = c /\ r \in WaitRecords
    <3>1. 0 \in Nat
      OBVIOUS
    <3> QED
      BY <1>4, <2>1, <2>2, <3>1, Zenon DEF WaitRecords
  <2> QED
    BY <1>1, <1>2, <1>3, <1>4, <2>3, <2>4, OneClient, Zenon
<1>5. CASE /\ queue[c] = "none"
           /\ client' = [client EXCEPT ![k] = [at |-> IF behind[c] > 0 THEN "wait" ELSE "done",
                                               call |-> c, left |-> behind[c]]]
           /\ wait' = [wait EXCEPT ![c] = @ \/ behind[c] > 0]
  <2>1. behind[c] = Cardinality(Running(c)) /\ Cardinality(Running(c)) \in Nat
    BY <1>1, <1>5, CountsNat DEF CallInv, CallSound, Count
  <2>2. PICK r : r = [at |-> IF behind[c] > 0 THEN "wait" ELSE "done", call |-> c, left |-> behind[c]]
    BY Zenon
  <2>3. /\ r.call = c /\ r.left = behind[c] /\ r \in WaitRecords /\ r.at \in {"wait", "done"}
        /\ r.at = "wait" => behind[c] > 0
    BY <2>1, <2>2, Zenon DEF WaitRecords
  <2>4. r.left <= Cardinality(Running(c)') /\ (r.at = "wait" => Cardinality(Running(c)) # 0)
    BY <1>2, <2>1, <2>3
  <2>5. r.at = "wait" => Running(c)' # {}
    BY <1>2, <2>4, SomeRun, Zenon
  <2>6. wait' \in [Calls -> BOOLEAN] /\ (r.at = "wait" => wait'[c]) /\ \A b \in Calls : wait[b] => wait'[b]
    BY <1>3, <1>5, <2>3, Zenon
  <2>7. client' = [client EXCEPT ![k] = r] /\ \A j \in Clients : LessWait(client[j], client[j])
    <3>1. \A j \in Clients : client[j].left \in Nat
      BY <1>3, Zenon DEF WaitRecords
    <3>2. \A n \in Nat : n <= n
      OBVIOUS
    <3> QED
      BY <1>5, <2>2, <3>1, <3>2, Zenon DEF LessWait
  <2>8. \A b \in Alloc : b \in Calls
    BY Zenon DEF Calls
  <2> QED
    BY <1>1, <1>2, <1>3, <2>3, <2>4, <2>5, <2>6, <2>7, <2>8, OneClient, Zenon
<1> QED
  BY <1>4, <1>5, Zenon DEF thread_call_cancel_wait

\* A woken client waits again, with the flag set, or goes on; or it returns.
LEMMA WokenWaits ==
    ASSUME FiniteCounts, WaitInv, NEW k \in Clients, WaitStep(k)
    PROVE  WaitInv'
<1>1. worker' = worker /\ owned' = owned
  BY Zenon DEF WaitStep, thread_call_wait_locked, cancel_wait_returns, poolVars
<1>2. KeptRuns
  BY <1>1, KeptSame, Zenon
<1>3. /\ wait \in [Calls -> BOOLEAN] /\ client \in [Clients -> WaitRecords] /\ client[k] \in WaitRecords
      /\ WaitOf(client[k])
  BY Zenon DEF WaitInv, WaitTypes, WaitSound
<1>4. \A j \in Clients : LessWait(client[j], client[j])
  <2>1. \A j \in Clients : client[j].left \in Nat
    BY <1>3, Zenon DEF WaitRecords
  <2>2. \A n \in Nat : n <= n
    OBVIOUS
  <2> QED
    BY <2>1, <2>2, Zenon DEF LessWait
<1>5. \A b \in Alloc : b \in Calls
  BY Zenon DEF Calls
<1>6. CASE thread_call_wait_locked(k)
  <2>1. PICK c : c = client[k].call
    BY Zenon
  <2>2. /\ client[k].at = "woken"
        /\ client' = [client EXCEPT ![k].at = IF client[k].left > 0 THEN "wait" ELSE "done"]
        /\ wait' = [wait EXCEPT ![c] = @ \/ client[k].left > 0]
    BY <1>6, <2>1, Zenon DEF thread_call_wait_locked
  <2>3. PICK a : a = IF client[k].left > 0 THEN "wait" ELSE "done"
    BY Zenon
  <2>4. PICK r : r = [at |-> a, call |-> c, left |-> client[k].left]
    BY Zenon
  <2>5. a \in {"wait", "done"} /\ (a = "wait" => client[k].left > 0)
    BY <2>3, Zenon
  <2>6. [client[k] EXCEPT !.at = a] = r
    BY <1>3, <2>1, <2>4 DEF WaitRecords
  <2>7. client' = [client EXCEPT ![k] = r]
    BY <2>2, <2>3, <2>6, Zenon
  <2>8. c \in Alloc /\ owned[c] /\ client[k].left \in Nat /\ client[k].left <= Cardinality(Running(c))
    BY <1>3, <2>1, <2>2, Zenon DEF WaitOf, WaitRecords
  <2>9. r.at = a /\ r.call = c /\ r.left = client[k].left
    BY <2>4, Zenon
  <2>10. r \in WaitRecords
    BY <1>5, <2>4, <2>5, <2>8, Zenon DEF WaitRecords
  <2>11. Running(c)' = Running(c)
    BY <1>1, Zenon DEF Running
  <2>12. a = "wait" => Cardinality(Running(c)) # 0
    BY <2>5, <2>8, CountsNat
  <2>13. a = "wait" => Running(c)' # {}
    BY <2>11, <2>12, SomeRun, Zenon
  <2>14. wait' \in [Calls -> BOOLEAN] /\ (a = "wait" => wait'[c]) /\ \A b \in Calls : wait[b] => wait'[b]
    BY <1>3, <1>5, <2>2, <2>5, <2>8, Zenon
  <2>15. r.left <= Cardinality(Running(c)')
    BY <2>8, <2>9, <2>11, Zenon
  <2> QED
    BY <1>1, <1>2, <1>3, <1>4, <1>5, <2>7, <2>8, <2>9, <2>10, <2>13, <2>14, <2>15, OneClient, Zenon
<1>7. CASE cancel_wait_returns(k)
  <2>1. client' = [client EXCEPT ![k] = NoWait] /\ wait' = wait
    BY <1>7, Zenon DEF cancel_wait_returns
  <2>2. NoWait \in WaitRecords /\ NoWait.at = "out"
    BY DEF NoWait, WaitRecords
  <2> QED
    BY <1>1, <1>2, <1>3, <1>4, <2>1, <2>2, OneClient, Zenon
<1> QED
  BY <1>6, <1>7, Zenon DEF WaitStep

\* A function returns: a client that waits for it finds one function less in
\* flight and has one less to wait for, and the flag it set makes the worker wake
\* it.
LEMMA FinishWaits ==
    ASSUME FiniteCounts, PoolInv, WaitInv, NEW w \in Workers, thread_call_finish(w), worker[w].call \in Alloc
    PROVE  WaitInv'
<1>1. PICK c : c = worker[w].call
  BY Zenon
<1>2. c \in Alloc /\ c \in Calls /\ None \notin Calls /\ \A b \in Alloc : b \in Calls
  BY <1>1, ThreadCallConstants, Zenon DEF Calls, ThreadCallConstants
<1>3. worker[w].at = "running" /\ WorkerShape(worker[w]) /\ worker = [v \in Workers |-> worker[v]]
  BY Zenon DEF thread_call_finish, PoolInv
<1>4. /\ client' = Finished(c) /\ wait' = [wait EXCEPT ![c] = FALSE] /\ owned' = owned
      /\ \/ wait[c] /\ worker' = [worker EXCEPT ![w].at = "wakeup"]
         \/ ~wait[c] /\ worker' = Moved(w, IF refs[c] = 1 THEN "start" ELSE "loop", None)
  BY <1>1, Zenon DEF thread_call_finish
<1>5. PICK r : /\ worker' = [worker EXCEPT ![w] = r]
               /\ ~IsRunning(r, c) /\ (wait[c] => IsWaking(r, c))
               /\ r.call \in {c, None}
  <2>1. CASE wait[c] /\ worker' = [worker EXCEPT ![w].at = "wakeup"]
    <3>1. PICK r : r = [at |-> "wakeup", group |-> worker[w].group, call |-> worker[w].call]
      BY Zenon
    <3>2. worker' = [worker EXCEPT ![w] = r]
      BY <1>3, <2>1, <3>1, WorkerAt, Zenon
    <3>3. r.at = "wakeup" /\ r.call = c
      BY <1>1, <3>1, Zenon
    <3> QED
      BY <3>2, <3>3, Zenon DEF IsRunning, IsWaking
  <2>2. CASE ~wait[c] /\ worker' = Moved(w, IF refs[c] = 1 THEN "start" ELSE "loop", None)
    <3>1. PICK a : a = IF refs[c] = 1 THEN "start" ELSE "loop"
      BY Zenon
    <3>2. PICK r : r = [at |-> a, group |-> worker[w].group, call |-> None]
      BY Zenon
    <3>3. worker' = [worker EXCEPT ![w] = r] /\ r.call = None
      BY <2>2, <3>1, <3>2, Zenon DEF Moved
    <3> QED
      BY <1>2, <2>2, <3>3, Zenon DEF IsRunning
  <2> QED
    BY <1>4, <2>1, <2>2, Zenon
<1>6. \A v \in Workers : worker'[v] = IF v = w THEN r ELSE worker[v]
  BY <1>3, <1>5, Zenon
<1>7. IsRunning(worker[w], c) /\ ~IsWaking(worker[w], c)
  BY <1>1, <1>3, Zenon DEF IsRunning, IsWaking
<1>8. /\ Cardinality(Running(c)) \in Nat /\ Cardinality(Running(c)) > 0
      /\ Cardinality(Running(c)') = Cardinality(Running(c)) - 1
  <2>1. /\ Cardinality(Running(c)) \in Nat
        /\ Cardinality(Running(c)') =
              Cardinality(Running(c)) - Count(IsRunning(worker[w], c)) + Count(IsRunning(r, c))
        /\ IsRunning(worker[w], c) => Cardinality(Running(c)) > 0
    BY <1>3, <1>5, WorkerMoves, Zenon
  <2>2. Count(IsRunning(worker[w], c)) = 1 /\ Count(IsRunning(r, c)) = 0
    BY <1>5, <1>7, Zenon DEF Count
  <2>3. PICK n \in Nat : n = Cardinality(Running(c))
    BY <2>1, Zenon
  <2>4. n > 0 /\ Cardinality(Running(c)') = n - 1 + 0
    BY <1>7, <2>1, <2>2, <2>3, Zenon
  <2>5. n - 1 + 0 = n - 1
    OBVIOUS
  <2> QED
    BY <2>3, <2>4, <2>5, Zenon
<1>9. (wait[c] \/ Waking(c)) => Waking(c)'
  BY <1>5, <1>6, <1>7, Zenon DEF Waking
<1>10. /\ client' \in [Clients -> WaitRecords] /\ \A k \in Clients : SameWait(k)
       /\ client \in [Clients -> WaitRecords]
       /\ wait' \in [Calls -> BOOLEAN] /\ \A b \in Calls : b # c => wait'[b] = wait[b]
  BY <1>4, ClientsFinished, Zenon DEF WaitInv, WaitTypes, SameWait
<1>11. ASSUME NEW k \in Clients, client[k].at # "out" => client[k].call # c PROVE WaitSound(k)'
  <2>1. PICK b : b = client[k].call
    BY Zenon
  <2>2. client[k].at # "out" => b \in Alloc /\ owned[b] /\ b # c
    BY <1>11, <2>1, Zenon DEF WaitInv, WaitSound, WaitOf
  <2>3. ASSUME client[k].at # "out" PROVE KeptRun(b)
    <3>1. ~IsRunning(worker[w], b) /\ ~IsWaking(worker[w], b)
      BY <1>1, <2>2, <2>3, Zenon DEF IsRunning, IsWaking
    <3> QED
      BY <1>5, <3>1, KeptMove, Zenon
  <2> QED
    BY <1>2, <1>4, <1>10, <2>1, <2>2, <2>3, WaitSame, Zenon
<1>12. ASSUME NEW k \in Clients, client[k].at # "out", client[k].call = c PROVE WaitSound(k)'
  <2>1. client[k] \in WaitRecords /\ WaitOf(client[k])
    BY <1>10, Zenon DEF WaitInv, WaitSound
  <2>2. PICK s : s = client'[k]
    BY Zenon
  <2>3. s.at = client[k].at /\ s.call = c /\ s.left \in Nat
    BY <1>10, <1>12, <2>2, Zenon DEF SameWait, LessWait
  <2>4. s.left = IF client[k].left > 0 THEN client[k].left - 1 ELSE client[k].left
    <3>1. s = IF client[k].left > 0 THEN [client[k] EXCEPT !.left = @ - 1] ELSE client[k]
      BY <1>4, <1>12, <2>2, Zenon DEF Finished
    <3> QED
      BY <2>1, <3>1, Zenon DEF WaitRecords
  <2>5. ASSUME s.at \in {"wait", "woken"} PROVE s.left <= Cardinality(Running(c)')
    <3>1. client[k].left <= Cardinality(Running(c)) /\ client[k].left \in Nat
      BY <1>12, <2>1, <2>3, <2>5, Zenon DEF WaitOf, WaitRecords
    <3> QED
      BY <1>8, <2>4, <3>1
  <2>6. s.at = "wait" => Waking(c)'
    BY <1>9, <1>12, <2>1, <2>3, Zenon DEF WaitOf
  <2>7. owned'[c]
    BY <1>4, <1>12, <2>1, Zenon DEF WaitOf
  <2> QED
    BY <1>2, <2>2, <2>3, <2>5, <2>6, <2>7, WaitNext, Zenon
<1> QED
  BY <1>4, <1>10, <1>11, <1>12, Zenon DEF WaitInv, WaitTypes

\* The wakeup: every client that waits for the call goes on, and the others do
\* not notice.
LEMMA WakeupWaits ==
    ASSUME FiniteCounts, PoolInv, WaitInv, NEW w \in Workers, finish_wakeup(w)
    PROVE  WaitInv'
<1>1. PICK c : c = worker[w].call
  BY Zenon
<1>2. worker[w].at = "wakeup" /\ WorkerShape(worker[w]) /\ wait' = wait /\ owned' = owned
  BY Zenon DEF finish_wakeup, PoolInv
<1>3. PICK r : r = [at |-> "relock", group |-> worker[w].group, call |-> worker[w].call]
  BY Zenon
<1>4. worker' = [worker EXCEPT ![w] = r]
  <2>1. worker' = [worker EXCEPT ![w].at = "relock"]
    BY Zenon DEF finish_wakeup
  <2> QED
    BY <1>2, <1>3, <2>1, WorkerAt, Zenon
<1>5. client \in [Clients -> WaitRecords] /\ wait \in [Calls -> BOOLEAN]
  BY Zenon DEF WaitInv, WaitTypes
<1>6. client' = [k \in Clients |-> IF client[k].at = "wait" /\ client[k].call = c
                                   THEN [client[k] EXCEPT !.at = "woken"] ELSE client[k]]
  BY <1>1, Zenon DEF finish_wakeup
<1>7. ASSUME NEW k \in Clients PROVE client'[k] \in WaitRecords /\ WaitSound(k)'
  <2>1. client[k] \in WaitRecords /\ WaitOf(client[k])
    BY <1>5, Zenon DEF WaitInv, WaitSound
  <2>2. PICK b : b = client[k].call
    BY Zenon
  <2>3. ~IsRunning(worker[w], b) /\ (IsWaking(worker[w], b) => b = c)
    BY <1>1, <1>2, Zenon DEF IsRunning, IsWaking
  <2>4. CASE client[k].at = "wait" /\ b = c
    <3>1. PICK s : s = client'[k]
      BY Zenon
    <3>2. s = [client[k] EXCEPT !.at = "woken"]
      BY <1>6, <2>2, <2>4, <3>1, Zenon
    <3>3. s \in WaitRecords /\ s.at = "woken" /\ s.call = b /\ s.left = client[k].left
      BY <2>1, <2>2, <3>2, Zenon DEF WaitRecords
    <3>4. b \in Alloc /\ owned[b] /\ client[k].left <= Cardinality(Running(b)) /\ client[k].left \in Nat
      BY <2>1, <2>2, <2>4, Zenon DEF WaitOf, WaitRecords
    <3>5. Running(b)' = Running(b)
      <4>1. ~IsRunning(r, b)
        BY <1>3, Zenon DEF IsRunning
      <4>2. \A v \in Workers : worker'[v] = IF v = w THEN r ELSE worker[v]
        BY <1>4, Zenon DEF PoolInv
      <4> QED
        BY <2>3, <4>1, <4>2, Zenon DEF Running, IsRunning
    <3>6. s.left <= Cardinality(Running(b)')
      BY <3>3, <3>4, <3>5, Zenon
    <3> QED
      BY <1>2, <3>1, <3>3, <3>4, <3>6, WaitNext, Zenon
  <2>5. CASE ~(client[k].at = "wait" /\ b = c)
    <3>1. client'[k] = client[k]
      BY <1>6, <2>2, <2>5, Zenon
    <3>2. PICK s : s = client[k]
      BY Zenon
    <3>3. s.at # "out" => b \in Alloc /\ owned'[b]
      BY <1>2, <2>1, <2>2, <3>2, Zenon DEF WaitOf
    <3>4. s.at \in {"wait", "woken"} => s.left <= Cardinality(Running(b))
      BY <2>1, <2>2, <3>2, Zenon DEF WaitOf
    <3>5. \A v \in Workers : worker'[v] = IF v = w THEN r ELSE worker[v]
      BY <1>4, Zenon DEF PoolInv
    <3>6. Running(b)' = Running(b)
      <4>1. ~IsRunning(r, b)
        BY <1>3, Zenon DEF IsRunning
      <4> QED
        BY <2>3, <3>5, <4>1, Zenon DEF Running, IsRunning
    <3>7. s.at = "wait" => (wait'[b] /\ Running(b)' # {}) \/ Waking(b)'
      <4>1. s.at = "wait" => b # c /\ ((wait[b] /\ Running(b) # {}) \/ Waking(b))
        BY <2>1, <2>2, <2>5, <3>2, Zenon DEF WaitOf
      <4>2. b # c => (Waking(b) => Waking(b)')
        BY <2>3, <3>5, Zenon DEF Waking
      <4> QED
        BY <1>2, <3>6, <4>1, <4>2, Zenon
    <3>8. s.at \in {"wait", "woken"} => s.left <= Cardinality(Running(b)')
      BY <3>4, <3>6, Zenon
    <3> QED
      BY <2>1, <2>2, <3>1, <3>2, <3>3, <3>7, <3>8, WaitNext, Zenon
  <2> QED
    BY <2>4, <2>5, Zenon
<1>8. client' \in [Clients -> WaitRecords]
  BY <1>6, <1>7, Zenon
<1> QED
  BY <1>2, <1>5, <1>7, <1>8, Zenon DEF WaitInv, WaitTypes

\* The other steps of a worker: it takes a call, goes idle, blocks or goes on.
LEMMA WorkerWaits ==
    ASSUME FiniteCounts, PoolInv, WaitInv, NEW w \in Workers,
           \/ WorkerLoop(w) \/ finish_relock(w) \/ sched_call_block(w) \/ sched_call_unblock(w)
           \/ thread_call_finish(w) /\ worker[w].call \notin Alloc
    PROVE  WaitInv'
<1>1. UNCHANGED <<wait, owned, client>>
  BY Zenon DEF WorkerLoop, TakeCall, GoIdle, finish_relock, sched_call_block, sched_call_unblock,
               thread_call_finish, callVars
<1>2. WorkerShape(worker[w])
  BY Zenon DEF PoolInv
<1>3. KeptRuns
  <2>1. CASE WorkerLoop(w)
    <3>1. worker[w].call = None
      BY <1>2, <2>1, Zenon DEF WorkerLoop, WorkerShape
    <3>2. \E r : worker' = [worker EXCEPT ![w] = r]
      BY <2>1, Zenon DEF WorkerLoop, TakeCall, GoIdle, Moved
    <3> QED
      BY <3>1, <3>2, KeptIdle, Zenon
  <2>2. ASSUME NEW a, worker' = [worker EXCEPT ![w].at = a],
               worker[w].at \in {"running", "blocked"}, a \in {"running", "blocked"}
        PROVE  KeptRuns
    <3>1. PICK r : r = [at |-> a, group |-> worker[w].group, call |-> worker[w].call]
      BY Zenon
    <3>2. worker' = [worker EXCEPT ![w] = r]
      BY <1>2, <2>2, <3>1, WorkerAt, Zenon
    <3>3. \A c : /\ IsRunning(worker[w], c) => IsRunning(r, c)
                 /\ IsWaking(worker[w], c) => IsWaking(r, c)
      BY <2>2, <3>1, Zenon DEF IsRunning, IsWaking
    <3> QED
      BY <3>2, <3>3, KeptMove, Zenon DEF KeptRuns
  <2>3. CASE \/ finish_relock(w)
             \/ thread_call_finish(w) /\ worker[w].call \notin Alloc
    <3>1. PICK r : worker' = [worker EXCEPT ![w] = r]
      BY <2>3, Zenon DEF finish_relock, thread_call_finish, Moved
    <3>2. \A c \in Alloc : ~IsRunning(worker[w], c) /\ ~IsWaking(worker[w], c)
      BY <2>3, Zenon DEF finish_relock, thread_call_finish, IsRunning, IsWaking
    <3> QED
      BY <3>1, <3>2, KeptMove, Zenon DEF KeptRuns
  <2>4. CASE sched_call_block(w)
    BY <2>2, <2>4, Zenon DEF sched_call_block
  <2>5. CASE sched_call_unblock(w)
    BY <2>2, <2>5, Zenon DEF sched_call_unblock
  <2> QED
    BY <2>1, <2>3, <2>4, <2>5, Zenon
<1> QED
  BY <1>1, <1>3, WaitQuiet, Zenon

\* Putting a call on the pending queue takes nothing from the clients that wait.
LEMMA EnqueueWaits ==
    ASSUME FiniteCounts, PoolInv, WaitInv, NEW c \in Calls, pending_call_enqueue(c),
           UNCHANGED <<wait, owned, client>>
    PROVE  WaitInv'
<1>1. group_of[c] \in GroupSet /\ thread_call_wake(group_of[c], pending_count[group_of[c]] + 1)
  BY ThreadCallConstants, Zenon DEF ThreadCallConstants, pending_call_enqueue
<1>2. KeptRuns
  BY <1>1, KeptWake, Zenon
<1> QED
  BY <1>2, WaitQuiet, Zenon

\* Every step keeps what the clients that wait rely on.
LEMMA WaitingStep ==
    ASSUME FiniteCounts, IInv, WaitInv, [Next]_vars
    PROVE  WaitInv'
<1> QueueInv /\ PoolInv /\ CallInv
  BY Zenon DEF IInv
<1> DEFINE Quiet == /\ UNCHANGED <<wait, owned, worker>>
                    /\ client' = client \/ \E c \in Calls : client' = Finished(c)
<1>1. Quiet => WaitInv'
  BY KeptSame, WaitQuiet, Zenon
<1>2. ASSUME NEW c \in Calls, NEW d,
             \/ thread_call_enter(c) \/ thread_call_enter_delayed(c, d) \/ thread_call_cancel(c)
             \/ thread_call_func_delayed(c, d)
      PROVE  WaitInv'
  <2>1. CASE thread_call_enter(c)
    BY <2>1, EnqueueWaits, Zenon DEF thread_call_enter
  <2>2. CASE ~thread_call_enter(c)
    <3>1. Quiet
      BY <1>2, <2>2, Zenon DEF thread_call_enter_delayed, thread_call_cancel, thread_call_func_delayed,
                               delayed_call_enqueue, poolVars
    <3> QED
      BY <1>1, <3>1, Zenon
  <2> QED
    BY <2>1, <2>2, Zenon
<1>3. ASSUME NEW c \in Calls,
             \/ \E k \in Clients : thread_call_cancel_wait(k, c)
             \/ thread_call_free(c) \/ thread_call_allocate(c)
      PROVE  WaitInv'
  BY <1>3, CancelWaits, FreeWaits, Zenon
<1>4. ASSUME NEW c \in Calls, NEW all, thread_call_func_cancel(c, all) PROVE WaitInv'
  <2>1. Quiet
    BY <1>4, Zenon DEF thread_call_func_cancel, poolVars
  <2> QED
    BY <1>1, <2>1, Zenon
<1>5. ASSUME NEW g \in GroupSet, rescan_due(g) PROVE WaitInv'
  <2>1. PICK i \in DOMAIN delayed[g] : pending_call_enqueue(delayed[g][i])
    BY <1>5, Zenon DEF rescan_due
  <2>2. delayed[g][i] \in Range(delayed[g])
    BY Zenon DEF Range
  <2>3. delayed[g][i] \in Calls
    BY <2>2, Zenon DEF QueueInv, QueuesExact
  <2>4. UNCHANGED <<wait, owned, client>>
    BY <1>5, Zenon DEF rescan_due
  <2> QED
    BY <2>1, <2>3, <2>4, EnqueueWaits, Zenon
<1>6. ASSUME NEW g \in GroupSet, rescan_resort(g) \/ rescan_ends(g) PROVE WaitInv'
  <2>1. ASSUME NEW i \in DOMAIN delayed[g] PROVE delayed[g][i] \in Calls
    <3>1. delayed[g][i] \in Range(delayed[g])
      BY Zenon DEF Range
    <3> QED
      BY <3>1, Zenon DEF QueueInv, QueuesExact
  <2>2. UNCHANGED <<wait, owned, worker>>
    BY <1>6, Zenon DEF rescan_resort, rescan_ends, poolVars, callVars
  <2>3. client' = client \/ \E i \in DOMAIN delayed[g] : client' = Finished(delayed[g][i])
    BY <1>6, Zenon DEF rescan_resort, rescan_ends, callVars
  <2>4. Quiet
    BY <2>1, <2>2, <2>3, Zenon
  <2> QED
    BY <1>1, <2>4, Zenon
<1>7. ASSUME NEW g \in GroupSet, sched_call_wake(g) PROVE WaitInv'
  <2>1. UNCHANGED <<wait, owned, client>> /\ thread_call_wake(g, pending_count[g])
    BY <1>7, Zenon DEF sched_call_wake, callVars
  <2>2. KeptRuns
    BY <2>1, KeptWake, Zenon
  <2> QED
    BY <2>1, <2>2, WaitQuiet, Zenon
<1>8. ASSUME NEW w \in Workers, WorkerStep(w) PROVE WaitInv'
  BY <1>8, FinishWaits, WakeupWaits, WorkerWaits, Zenon DEF WorkerStep
<1>9. ASSUME DaemonStep PROVE WaitInv'
  <2>1. UNCHANGED <<wait, owned, client>>
    BY <1>9, Zenon DEF DaemonStep, DaemonScan, thread_call_thread_create, CreateFails, callVars
  <2>2. CASE worker' = worker
    BY <1>1, <2>1, <2>2, Zenon
  <2>3. CASE thread_call_thread_create
    <3>1. PICK w \in Workers : worker[w] = NoWork /\ \E r : worker' = [worker EXCEPT ![w] = r]
      BY <2>3, Zenon DEF thread_call_thread_create
    <3>2. worker[w].call = None
      <4>1. NoWork.call = None
        BY Zenon DEF NoWork
      <4> QED
        BY <3>1, <4>1, Zenon
    <3>3. PICK r : worker' = [worker EXCEPT ![w] = r]
      BY <3>1, Zenon
    <3>4. KeptRuns
      BY <3>2, <3>3, KeptIdle, Zenon
    <3> QED
      BY <2>1, <3>4, WaitQuiet, Zenon
  <2> QED
    BY <1>9, <2>2, <2>3, Zenon DEF DaemonStep, DaemonScan, CreateFails
<1>10. ASSUME NEW g \in GroupSet, thread_call_delayed_timer(g) PROVE WaitInv'
  <2>1. CASE /\ delayed[g] # <<>> /\ pending_call_enqueue(Head(delayed[g]))
             /\ UNCHANGED <<wait, owned, client>>
    <3>1. Head(delayed[g]) \in Range(delayed[g])
      BY <2>1, TailQueue, Zenon DEF QueueInv, QueuesExact
    <3>2. Head(delayed[g]) \in Calls
      BY <3>1, Zenon DEF QueueInv, QueuesExact
    <3> QED
      BY <2>1, <3>2, EnqueueWaits, Zenon
  <2>2. CASE UNCHANGED <<callVars, poolVars>>
    BY <1>1, <2>2, Zenon DEF callVars, poolVars
  <2> QED
    BY <1>10, <2>1, <2>2, Zenon DEF thread_call_delayed_timer
<1>11. ASSUME NEW g \in GroupSet, DelayedTimerExpires(g) \/ DeallocStep(g) PROVE WaitInv'
  <2>1. UNCHANGED <<wait, owned, client>>
    BY <1>11, Zenon DEF DelayedTimerExpires, DeallocStep, DeallocTimerExpires, thread_call_dealloc_timer, callVars
  <2>2. CASE worker' = worker
    BY <1>1, <2>1, <2>2, Zenon
  <2>3. ASSUME NEW w \in Asleep(g), worker' = [worker EXCEPT ![w] = NoWork] PROVE WaitInv'
    <3>1. w \in Workers /\ worker[w].call = None
      BY Zenon DEF Asleep, PoolInv, WorkerShape
    <3>2. KeptRuns
      BY <2>3, <3>1, KeptIdle, Zenon
    <3> QED
      BY <2>1, <3>2, WaitQuiet, Zenon
  <2> QED
    BY <1>11, <2>2, <2>3, Zenon DEF DelayedTimerExpires, DeallocStep, DeallocTimerExpires,
                                    thread_call_dealloc_timer, poolVars
<1>12. CASE Tick \/ PanicStep \/ UNCHANGED vars
  <2>1. Quiet
    BY <1>12, PanicQuiet, Zenon DEF Tick, vars, callVars, poolVars
  <2> QED
    BY <1>1, <2>1, Zenon
<1>13. CASE ClientStep
  BY <1>2, <1>3, <1>4, <1>5, <1>6, <1>7, <1>13, AlikeCalls, Zenon DEF ClientStep
<1> QED
  <2>1. ASSUME NEW g \in GroupSet, TimerStep(g) \/ DeallocStep(g) PROVE WaitInv'
    BY <1>10, <1>11, <2>1, Zenon DEF TimerStep
  <2> QED
    BY <1>8, <1>9, <1>12, <1>13, <2>1, WokenWaits, Zenon DEF Next

\* A client in thread_call_wait_locked is never forgotten: while it waits, the flag
\* is set and a function is in flight whose thread_call_finish will see it, or a
\* worker has seen it and is about to wake the client, however finishing, cancelling,
\* requeueing and other waiting clients interleave.
THEOREM WaitersWillWake == Spec => []WaiterWillWake
<1>1. ASSUME Init PROVE WaitInv
  <2>1. client = [k \in Clients |-> NoWait] /\ wait = [c \in Calls |-> FALSE]
    BY <1>1, Zenon DEF Init
  <2>2. NoWait \in WaitRecords /\ NoWait.at = "out"
    BY DEF NoWait, WaitRecords
  <2> QED
    BY <2>1, <2>2, Zenon DEF WaitInv, WaitTypes, WaitSound, WaitOf
<1>2. IInv /\ WaitInv /\ [Next]_vars => WaitInv'
  BY CountsOfFiniteSets, WaitingStep, Zenon
<1>3. WaitInv => WaiterWillWake
  BY Zenon DEF WaitInv, WaitSound, WaitOf, Waking, IsWaking, WaiterWillWake, Touching
<1> QED
  BY <1>1, <1>2, <1>3, Invariance, PTL DEF Spec
=============================================================================
