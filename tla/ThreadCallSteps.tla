-------------------------- MODULE ThreadCallSteps ---------------------------
(***************************************************************************)
(* The queues, counts and references of thread calls, for any calls,       *)
(* groups, clients and delays, and any finite set of workers.              *)
(***************************************************************************)
EXTENDS ThreadCall, TLAPS

\* What the steps use of the numbers of elements of finite sets: the empty set
\* has none, a set of workers has a number of them, a worker more or less makes
\* it one more or less, and n places have at most n.
FiniteCounts ==
    /\ Cardinality({}) = 0
    /\ \A S \in SUBSET Workers : Cardinality(S) \in Nat
    /\ \A S \in SUBSET Workers : \A x \in Workers :
          /\ Cardinality(S \cup {x}) = IF x \in S THEN Cardinality(S) ELSE Cardinality(S) + 1
          /\ Cardinality(S \ {x}) = IF x \in S THEN Cardinality(S) - 1 ELSE Cardinality(S)
    /\ \A n \in Nat : \A S \in SUBSET (1 .. n) : Cardinality(S) \in Nat /\ Cardinality(S) <= n

-----------------------------------------------------------------------------
(* Sequences. *)

\* What is before a place of a sequence, and what is after it.
LEMMA Parts ==
    ASSUME NEW S, NEW s \in Seq(S), NEW p \in 1 .. Len(s) + 1
    PROVE  /\ SubSeq(s, 1, p - 1) \in Seq(S)
           /\ Len(SubSeq(s, 1, p - 1)) = p - 1
           /\ \A i \in 1 .. p - 1 : SubSeq(s, 1, p - 1)[i] = s[i]
           /\ SubSeq(s, p, Len(s)) \in Seq(S)
           /\ Len(SubSeq(s, p, Len(s))) = Len(s) + 1 - p
           /\ \A i \in 1 .. Len(s) + 1 - p : SubSeq(s, p, Len(s))[i] = s[p + i - 1]
<1>3. SubSeq(s, 1, p - 1) \in Seq(S) /\ SubSeq(s, p, Len(s)) \in Seq(S)
  OBVIOUS
<1>4. Len(SubSeq(s, 1, p - 1)) = p - 1 /\ \A i \in 1 .. p - 1 : SubSeq(s, 1, p - 1)[i] = s[i]
  OBVIOUS
<1>5. Len(SubSeq(s, p, Len(s))) = Len(s) + 1 - p
  OBVIOUS
<1>6. \A i \in 1 .. Len(s) + 1 - p : SubSeq(s, p, Len(s))[i] = s[p + i - 1]
  OBVIOUS
<1> QED
  BY <1>3, <1>4, <1>5, <1>6, Zenon

\* Two sequences put together.
LEMMA Joined ==
    ASSUME NEW S, NEW s \in Seq(S), NEW t \in Seq(S)
    PROVE  /\ s \o t \in Seq(S)
           /\ Len(s \o t) = Len(s) + Len(t)
           /\ \A i \in 1 .. Len(s) + Len(t) : (s \o t)[i] = IF i <= Len(s) THEN s[i] ELSE t[i - Len(s)]
  OBVIOUS

\* The elements of a sequence with one taken out or put in.
LEMMA RemqueElements ==
    ASSUME NEW S, NEW s \in Seq(S), NEW p \in 1 .. Len(s)
    PROVE  /\ remque(s, p) \in Seq(S)
           /\ Len(remque(s, p)) = Len(s) - 1
           /\ \A i \in 1 .. Len(s) - 1 : remque(s, p)[i] = IF i < p THEN s[i] ELSE s[i + 1]
<1> DEFINE u == SubSeq(s, 1, p - 1)
           v == SubSeq(s, p + 1, Len(s))
<1>1. u \in Seq(S) /\ Len(u) = p - 1 /\ \A i \in 1 .. p - 1 : u[i] = s[i]
  BY Parts
<1>2. v \in Seq(S) /\ Len(v) = Len(s) - p /\ \A i \in 1 .. Len(s) - p : v[i] = s[p + i]
  <2>1. p + 1 \in 1 .. Len(s) + 1
    OBVIOUS
  <2>2. v \in Seq(S) /\ Len(v) = Len(s) + 1 - (p + 1)
        /\ \A i \in 1 .. Len(s) + 1 - (p + 1) : v[i] = s[(p + 1) + i - 1]
    BY <2>1, Parts, Zenon
  <2> HIDE DEF v
  <2> QED
    BY <2>2
<1>3. remque(s, p) = u \o v
  BY Zenon DEF remque
<1> HIDE DEF u, v
<1>4. u \o v \in Seq(S) /\ Len(u \o v) = Len(u) + Len(v)
      /\ \A i \in 1 .. Len(u) + Len(v) : (u \o v)[i] = IF i <= Len(u) THEN u[i] ELSE v[i - Len(u)]
  BY <1>1, <1>2, Joined, Zenon
<1>5. ASSUME NEW i \in 1 .. Len(s) - 1 PROVE (u \o v)[i] = IF i < p THEN s[i] ELSE s[i + 1]
  <2>1. CASE i < p
    BY <1>1, <1>2, <1>4, <2>1
  <2>2. CASE ~(i < p)
    <3>1. (u \o v)[i] = v[i - (p - 1)] /\ i - (p - 1) \in 1 .. Len(s) - p
      BY <1>1, <1>2, <1>4, <2>2
    <3>2. v[i - (p - 1)] = s[p + (i - (p - 1))] /\ p + (i - (p - 1)) = i + 1
      BY <1>2, <3>1
    <3> QED
      BY <2>2, <3>1, <3>2, Zenon
  <2> QED
    BY <2>1, <2>2, Zenon
<1> QED
  BY <1>1, <1>2, <1>3, <1>4, <1>5

\* What a queue holds after insque, place by place.
LEMMA InsqueElements ==
    ASSUME NEW S, NEW s \in Seq(S), NEW p \in 1 .. Len(s) + 1, NEW e \in S
    PROVE  /\ insque(s, p, e) \in Seq(S)
           /\ Len(insque(s, p, e)) = Len(s) + 1
           /\ \A i \in 1 .. p - 1 : insque(s, p, e)[i] = s[i]
           /\ insque(s, p, e)[p] = e
           /\ \A i \in p + 1 .. Len(s) + 1 : insque(s, p, e)[i] = s[i - 1]
<1> DEFINE u == SubSeq(s, 1, p - 1)
           v == SubSeq(s, p, Len(s))
           m == u \o <<e>>
<1>1. u \in Seq(S) /\ Len(u) = p - 1 /\ \A i \in 1 .. p - 1 : u[i] = s[i]
  BY Parts
<1>2. v \in Seq(S) /\ Len(v) = Len(s) + 1 - p /\ \A i \in 1 .. Len(s) + 1 - p : v[i] = s[p + i - 1]
  BY Parts, Zenon
<1>3. insque(s, p, e) = m \o v
  BY Zenon DEF insque
<1> HIDE DEF u, v
<1>4. m \in Seq(S) /\ Len(m) = p /\ \A i \in 1 .. p : m[i] = IF i < p THEN s[i] ELSE e
  <2>1. <<e>> \in Seq(S) /\ Len(<<e>>) = 1 /\ <<e>>[1] = e
    OBVIOUS
  <2>2. m \in Seq(S) /\ Len(m) = Len(u) + Len(<<e>>)
        /\ \A i \in 1 .. Len(u) + Len(<<e>>) : m[i] = IF i <= Len(u) THEN u[i] ELSE <<e>>[i - Len(u)]
    BY <1>1, <2>1, Joined, Zenon
  <2> HIDE DEF m
  <2> QED
    BY <1>1, <2>1, <2>2
<1> HIDE DEF m
<1>5. m \o v \in Seq(S) /\ Len(m \o v) = Len(m) + Len(v)
      /\ \A i \in 1 .. Len(m) + Len(v) : (m \o v)[i] = IF i <= Len(m) THEN m[i] ELSE v[i - Len(m)]
  BY <1>2, <1>4, Joined, Zenon
<1>6. ASSUME NEW i \in 1 .. Len(s) + 1
      PROVE  (m \o v)[i] = IF i < p THEN s[i] ELSE IF i = p THEN e ELSE s[i - 1]
  <2>1. CASE i <= p
    <3>1. Len(m) = p /\ i \in 1 .. Len(m) + Len(v) /\ i \in 1 .. p /\ (i < p \/ i = p)
      BY <1>2, <1>4, <2>1
    <3>2. (m \o v)[i] = m[i]
      BY <1>5, <2>1, <3>1
    <3>3. m[i] = IF i < p THEN s[i] ELSE e
      BY <1>4, <3>1, Zenon
    <3> QED
      BY <3>1, <3>2, <3>3, Zenon
  <2>2. CASE ~(i <= p)
    <3>1. (m \o v)[i] = v[i - p] /\ i - p \in 1 .. Len(s) + 1 - p
      BY <1>2, <1>4, <1>5, <2>2
    <3>2. v[i - p] = s[p + (i - p) - 1] /\ p + (i - p) - 1 = i - 1
      BY <1>2, <3>1
    <3> QED
      BY <2>2, <3>1, <3>2
  <2> QED
    BY <2>1, <2>2, Zenon
<1> QED
  BY <1>2, <1>3, <1>4, <1>5, <1>6

\* What it takes to be a queue.
LEMMA QueueElements ==
    ASSUME NEW s, IsQueue(s)
    PROVE  /\ s \in Seq(Calls) /\ Len(s) \in Nat /\ DOMAIN s = 1 .. Len(s)
           /\ \A i, j \in 1 .. Len(s) : s[i] = s[j] => i = j
  BY DEF IsQueue, IsInjective

\* remque takes off one call and leaves a queue.
LEMMA WithoutQueue ==
    ASSUME NEW s, IsQueue(s), NEW c
    PROVE  /\ IsQueue(Without(s, c))
           /\ Range(Without(s, c)) = Range(s) \ {c}
           /\ Len(Without(s, c)) = IF c \in Range(s) THEN Len(s) - 1 ELSE Len(s)
<1>0. s \in Seq(Calls) /\ Len(s) \in Nat /\ DOMAIN s = 1 .. Len(s)
      /\ \A i, j \in 1 .. Len(s) : s[i] = s[j] => i = j
  BY QueueElements, Zenon
<1>1. CASE c \in Range(s)
  <2>1. PICK p \in 1 .. Len(s) : s[p] = c
    BY <1>0, <1>1, Zenon DEF Range
  <2>2. Position(s, c) = p
    BY <1>0, <2>1, Zenon DEF Position
  <2> DEFINE r == remque(s, p)
  <2>3. Without(s, c) = r
    BY <1>0, <2>1, <2>2, Zenon DEF Without
  <2>6. /\ r \in Seq(Calls) /\ Len(r) = Len(s) - 1
        /\ \A i \in 1 .. Len(s) - 1 : r[i] = IF i < p THEN s[i] ELSE s[i + 1]
    BY <1>0, RemqueElements, Zenon
  <2> HIDE DEF r
  <2>7. DOMAIN r = 1 .. Len(s) - 1
    BY <2>6
  <2>8. IsInjective(r)
    <3>1. ASSUME NEW i \in 1 .. Len(s) - 1, NEW j \in 1 .. Len(s) - 1, r[i] = r[j] PROVE i = j
      <4> DEFINE at(k) == IF k < p THEN k ELSE k + 1
      <4>1. at(i) \in 1 .. Len(s) /\ at(j) \in 1 .. Len(s)
        BY <1>0
      <4>2. r[i] = s[at(i)] /\ r[j] = s[at(j)]
        BY <2>6, Zenon
      <4>3. at(i) = at(j) => i = j
        OBVIOUS
      <4> HIDE DEF at
      <4> QED
        BY <1>0, <3>1, <4>1, <4>2, <4>3, Zenon
    <3> QED
      BY <2>7, <3>1, Zenon DEF IsInjective
  <2>9. Range(r) = Range(s) \ {c}
    <3>1. ASSUME NEW i \in 1 .. Len(s) - 1 PROVE r[i] \in Range(s) /\ r[i] # c
      <4>1. CASE i < p
        <5>1. r[i] = s[i] /\ i \in 1 .. Len(s) /\ i # p
          BY <1>0, <2>6, <4>1
        <5>2. s[i] # s[p]
          BY <1>0, <2>1, <5>1, Zenon
        <5> QED
          BY <1>0, <2>1, <5>1, <5>2, Zenon DEF Range
      <4>2. CASE ~(i < p)
        <5>1. r[i] = s[i + 1] /\ i + 1 \in 1 .. Len(s) /\ i + 1 # p
          BY <1>0, <2>1, <2>6, <3>1, <4>2
        <5>2. s[i + 1] # s[p]
          BY <1>0, <2>1, <5>1, Zenon
        <5> QED
          BY <1>0, <2>1, <5>1, <5>2, Zenon DEF Range
      <4> QED
        BY <4>1, <4>2, Zenon
    <3>2. ASSUME NEW i \in 1 .. Len(s), s[i] # c PROVE s[i] \in Range(r)
      <4>1. CASE i < p
        BY <1>0, <2>1, <2>6, <2>7, <3>2, <4>1 DEF Range
      <4>2. CASE i > p
        <5>1. i - 1 \in 1 .. Len(s) - 1 /\ r[i - 1] = s[i]
          BY <1>0, <2>1, <2>6, <3>2, <4>2
        <5> QED
          BY <2>7, <5>1, Zenon DEF Range
      <4> QED
        BY <1>0, <2>1, <3>2, <4>1, <4>2
    <3> QED
      BY <1>0, <2>7, <3>1, <3>2 DEF Range
  <2> QED
    BY <1>1, <2>3, <2>6, <2>8, <2>9, Zenon DEF IsQueue
<1>2. CASE c \notin Range(s)
  <2>1. Without(s, c) = s
    BY <1>2, Zenon DEF Without, Range
  <2> QED
    BY <1>2, <2>1, Zenon
<1> QED
  BY <1>1, <1>2, Zenon

\* enqueue_tail of a call that is not on the queue.
LEMMA AppendQueue ==
    ASSUME NEW s, IsQueue(s), NEW c \in Calls, c \notin Range(s)
    PROVE  /\ IsQueue(Append(s, c))
           /\ Range(Append(s, c)) = Range(s) \cup {c}
           /\ Len(Append(s, c)) = Len(s) + 1
<1>0. s \in Seq(Calls) /\ Len(s) \in Nat /\ DOMAIN s = 1 .. Len(s)
      /\ \A i, j \in 1 .. Len(s) : s[i] = s[j] => i = j
  BY QueueElements, Zenon
<1> DEFINE r == Append(s, c)
<1>1. /\ r \in Seq(Calls) /\ Len(r) = Len(s) + 1
      /\ \A i \in 1 .. Len(s) : r[i] = s[i]
      /\ r[Len(s) + 1] = c
  BY <1>0
<1> HIDE DEF r
<1>2. DOMAIN r = 1 .. Len(s) + 1
  BY <1>1
<1>3. \A i \in 1 .. Len(s) : s[i] # c
  BY <1>0, Zenon DEF Range
<1>4. IsInjective(r)
  <2>1. ASSUME NEW i \in 1 .. Len(s) + 1, NEW j \in 1 .. Len(s) + 1, r[i] = r[j] PROVE i = j
    BY <1>0, <1>1, <1>3, <2>1
  <2> QED
    BY <1>2, <2>1, Zenon DEF IsInjective
<1>5. Range(r) = Range(s) \cup {c}
  <2>1. ASSUME NEW i \in 1 .. Len(s) + 1 PROVE r[i] \in Range(s) \cup {c}
    BY <1>0, <1>1, <2>1 DEF Range
  <2>2. ASSUME NEW i \in 1 .. Len(s) PROVE s[i] \in Range(r)
    <3>1. i \in 1 .. Len(s) + 1 /\ r[i] = s[i]
      BY <1>0, <1>1, <2>2
    <3> QED
      BY <1>2, <3>1, Zenon DEF Range
  <2>3. c \in Range(r)
    <3>1. Len(s) + 1 \in 1 .. Len(s) + 1
      BY <1>0
    <3> QED
      BY <1>1, <1>2, <3>1, Zenon DEF Range
  <2> QED
    BY <1>0, <1>2, <2>1, <2>2, <2>3 DEF Range
<1> QED
  BY <1>1, <1>4, <1>5, Zenon DEF IsQueue, r

\* dequeue_head.
LEMMA TailQueue ==
    ASSUME NEW s, IsQueue(s), s # <<>>
    PROVE  /\ IsQueue(Tail(s)) /\ Head(s) \in Range(s)
           /\ Range(Tail(s)) = Range(s) \ {Head(s)}
           /\ Len(Tail(s)) = Len(s) - 1
<1>0. s \in Seq(Calls) /\ Len(s) \in Nat /\ DOMAIN s = 1 .. Len(s)
      /\ \A i, j \in 1 .. Len(s) : s[i] = s[j] => i = j
  BY QueueElements, Zenon
<1>1. Len(s) > 0 /\ Head(s) = s[1]
  BY <1>0
<1> DEFINE r == Tail(s)
<1>2. r \in Seq(Calls) /\ Len(r) = Len(s) - 1 /\ \A i \in 1 .. Len(s) - 1 : r[i] = s[i + 1]
  BY <1>0
<1> HIDE DEF r
<1>3. DOMAIN r = 1 .. Len(s) - 1
  BY <1>2
<1>4. IsInjective(r)
  <2>1. ASSUME NEW i \in 1 .. Len(s) - 1, NEW j \in 1 .. Len(s) - 1, r[i] = r[j] PROVE i = j
    BY <1>0, <1>2, <2>1
  <2> QED
    BY <1>3, <2>1, Zenon DEF IsInjective
<1>5. Range(r) = Range(s) \ {s[1]}
  <2>1. ASSUME NEW i \in 1 .. Len(s) - 1 PROVE r[i] \in Range(s) /\ r[i] # s[1]
    <3>1. i + 1 \in 1 .. Len(s) /\ i + 1 # 1 /\ r[i] = s[i + 1]
      BY <1>0, <1>2, <2>1
    <3> QED
      BY <1>0, <1>1, <3>1 DEF Range
  <2>2. ASSUME NEW i \in 1 .. Len(s), s[i] # s[1] PROVE s[i] \in Range(r)
    <3>1. i - 1 \in 1 .. Len(s) - 1 /\ r[i - 1] = s[i]
      BY <1>0, <1>2, <2>2
    <3> QED
      BY <1>3, <3>1, Zenon DEF Range
  <2> QED
    BY <1>0, <1>3, <2>1, <2>2 DEF Range
<1>6. Head(s) \in Range(s)
  <2>1. 1 \in DOMAIN s
    BY <1>0, <1>1
  <2> QED
    BY <1>1, <2>1, Zenon DEF Range
<1> QED
  BY <1>1, <1>2, <1>4, <1>5, <1>6, Zenon DEF IsQueue, r

\* A sequence without repetition with something new put in.
LEMMA InsqueQueue ==
    ASSUME NEW S, NEW s \in Seq(S), IsInjective(s), NEW p \in 1 .. Len(s) + 1,
           NEW e \in S, e \notin Range(s)
    PROVE  /\ insque(s, p, e) \in Seq(S)
           /\ IsInjective(insque(s, p, e))
           /\ Range(insque(s, p, e)) = Range(s) \cup {e}
<1> DEFINE r == insque(s, p, e)
<1>4. /\ Len(s) \in Nat /\ DOMAIN s = 1 .. Len(s)
      /\ \A i, j \in 1 .. Len(s) : s[i] = s[j] => i = j
  BY DEF IsInjective
<1>5. /\ r \in Seq(S) /\ Len(r) = Len(s) + 1
      /\ \A i \in 1 .. p - 1 : r[i] = s[i]
      /\ r[p] = e
      /\ \A i \in p + 1 .. Len(s) + 1 : r[i] = s[i - 1]
  BY InsqueElements
<1> HIDE DEF r
<1>6. /\ r \in Seq(S) /\ Len(r) = Len(s) + 1
      /\ \A i \in 1 .. Len(s) + 1 :
            r[i] = IF i < p THEN s[i] ELSE IF i = p THEN e ELSE s[i - 1]
  BY <1>4, <1>5
<1>7. DOMAIN r = 1 .. Len(s) + 1
  BY <1>6
<1>8. \A i \in 1 .. Len(s) : s[i] # e
  BY <1>4, Zenon DEF Range
<1>9. IsInjective(r)
  <2>1. ASSUME NEW i \in 1 .. Len(s) + 1, NEW j \in 1 .. Len(s) + 1, r[i] = r[j] PROVE i = j
    BY <1>4, <1>6, <1>8, <2>1, SMTT(20)
  <2> QED
    BY <1>7, <2>1, Zenon DEF IsInjective
<1>10. Range(r) = Range(s) \cup {e}
  <2>1. ASSUME NEW i \in 1 .. Len(s) + 1 PROVE r[i] \in Range(s) \cup {e}
    <3>1. CASE i < p
      BY <1>4, <1>6, <2>1, <3>1 DEF Range
    <3>2. CASE i > p
      <4>1. i - 1 \in 1 .. Len(s) /\ r[i] = s[i - 1]
        BY <1>4, <1>6, <2>1, <3>2
      <4> QED
        BY <1>4, <4>1, Zenon DEF Range
    <3> QED
      BY <1>4, <1>6, <2>1, <3>1, <3>2
  <2>2. ASSUME NEW i \in 1 .. Len(s) PROVE s[i] \in Range(r)
    <3>1. CASE i < p
      BY <1>4, <1>6, <1>7, <2>2, <3>1 DEF Range
    <3>2. CASE i >= p
      <4>1. i + 1 \in 1 .. Len(s) + 1 /\ r[i + 1] = s[i]
        BY <1>4, <1>6, <2>2, <3>2
      <4> QED
        BY <1>7, <4>1, Zenon DEF Range
    <3> QED
      BY <1>4, <2>2, <3>1, <3>2
  <2>3. e \in Range(r)
    BY <1>4, <1>6, <1>7 DEF Range
  <2> QED
    BY <1>4, <1>7, <2>1, <2>2, <2>3 DEF Range
<1> QED
  BY <1>6, <1>9, <1>10, Zenon DEF r

\* call_entry_enqueue_deadline puts the call on the queue, once.
LEMMA InsertedQueue ==
    ASSUME FiniteCounts, NEW s, IsQueue(s), NEW c \in Calls, NEW hard
    PROVE  /\ IsQueue(Inserted(s, c, hard))
           /\ Range(Inserted(s, c, hard)) = Range(s) \cup {c}
<1> DEFINE others == Without(s, c)
           earlier == {i \in DOMAIN others : deadline[others[i]].hard <= hard}
           p == Cardinality(earlier) + 1
           r == insque(others, p, c)
<1>1. IsQueue(others) /\ Range(others) = Range(s) \ {c}
  BY WithoutQueue, Zenon
<1>2. Inserted(s, c, hard) = IF others # s /\ deadline[c].hard = hard THEN s ELSE r
  BY Zenon DEF Inserted
<1>3. ASSUME others # s PROVE c \in Range(s)
  BY <1>3, Zenon DEF Without, Range
<1>4. others \in Seq(Calls) /\ IsInjective(others) /\ c \notin Range(others)
  BY <1>1, Zenon DEF IsQueue
<1> HIDE DEF others
<1>5. p \in 1 .. Len(others) + 1
  <2>0. Len(others) \in Nat /\ DOMAIN others = 1 .. Len(others)
    BY <1>1, QueueElements, Zenon
  <2>2. earlier \subseteq 1 .. Len(others)
    BY <2>0, Zenon
  <2> HIDE DEF earlier
  <2>3. Cardinality(earlier) \in Nat /\ Cardinality(earlier) <= Len(others)
    BY <2>0, <2>2, Zenon DEF FiniteCounts
  <2> QED
    BY <2>0, <2>3
<1> HIDE DEF p
<1>6. r \in Seq(Calls) /\ IsInjective(r) /\ Range(r) = Range(others) \cup {c}
  <2>1. \A q \in Seq(Calls) : \A i \in 1 .. Len(q) + 1 :
           IsInjective(q) /\ c \notin Range(q) =>
              /\ insque(q, i, c) \in Seq(Calls) /\ IsInjective(insque(q, i, c))
              /\ Range(insque(q, i, c)) = Range(q) \cup {c}
    <3> SUFFICES ASSUME NEW q \in Seq(Calls), NEW i \in 1 .. Len(q) + 1, IsInjective(q), c \notin Range(q)
                 PROVE  /\ insque(q, i, c) \in Seq(Calls) /\ IsInjective(insque(q, i, c))
                        /\ Range(insque(q, i, c)) = Range(q) \cup {c}
      BY Zenon
    <3>1. c \in Calls
      BY Zenon
    <3> QED
      BY <3>1, InsqueQueue
  <2>2. \A i \in 1 .. Len(others) + 1 :
           /\ insque(others, i, c) \in Seq(Calls) /\ IsInjective(insque(others, i, c))
           /\ Range(insque(others, i, c)) = Range(others) \cup {c}
    BY <1>4, <2>1, Zenon
  <2> QED
    BY <1>5, <2>2, Zenon
<1> QED
  BY <1>1, <1>2, <1>3, <1>6, Zenon DEF IsQueue

-----------------------------------------------------------------------------
(* Counting workers. *)

Count(b) == IF b THEN 1 ELSE 0

\* A set of workers that loses a worker or not, or gains one or not.
LEMMA CountOne ==
    ASSUME FiniteCounts, NEW S \in SUBSET Workers, NEW T, NEW x \in Workers, T \in {S \cup {x}, S \ {x}}
    PROVE  /\ Cardinality(S) \in Nat /\ Cardinality(T) \in Nat
           /\ Cardinality(T) = Cardinality(S) - Count(x \in S) + Count(x \in T)
           /\ x \in S => Cardinality(S) > 0
<1>1. T \in SUBSET Workers /\ S \ {x} \in SUBSET Workers
  BY Zenon
<1>2. Cardinality(S) \in Nat /\ Cardinality(T) \in Nat /\ Cardinality(S \ {x}) \in Nat
  BY <1>1, Zenon DEF FiniteCounts
<1>3. Cardinality(S \cup {x}) = IF x \in S THEN Cardinality(S) ELSE Cardinality(S) + 1
  BY Zenon DEF FiniteCounts
<1>4. Cardinality(S \ {x}) = IF x \in S THEN Cardinality(S) - 1 ELSE Cardinality(S)
  BY Zenon DEF FiniteCounts
<1>5. CASE T = S \cup {x}
  BY <1>2, <1>3, <1>4, <1>5 DEF Count
<1>6. CASE T = S \ {x}
  BY <1>2, <1>4, <1>6 DEF Count
<1> QED
  BY <1>5, <1>6, Zenon

\* What a worker that is at r counts for.
IsIdle(r, g) == r.at = "idle" /\ r.group = g
IsCounted(r, g) == r.group = g /\ r.at \notin {"idle", "blocked"}
IsRunning(r, c) == r.call = c /\ r.at \in {"running", "blocked"}

\* When one worker moves, each number of workers changes by what it counted for
\* before and after.
LEMMA WorkerMoves ==
    ASSUME FiniteCounts, NEW w \in Workers, NEW r, worker = [v \in Workers |-> worker[v]],
           worker' = [worker EXCEPT ![w] = r], NEW x
    PROVE  /\ Cardinality(Asleep(x)) \in Nat /\ Cardinality(Asleep(x)') \in Nat
           /\ Cardinality(Counted(x)) \in Nat /\ Cardinality(Counted(x)') \in Nat
           /\ Cardinality(Running(x)) \in Nat /\ Cardinality(Running(x)') \in Nat
           /\ Cardinality(Asleep(x)') =
                 Cardinality(Asleep(x)) - Count(IsIdle(worker[w], x)) + Count(IsIdle(r, x))
           /\ Cardinality(Counted(x)') =
                 Cardinality(Counted(x)) - Count(IsCounted(worker[w], x)) + Count(IsCounted(r, x))
           /\ Cardinality(Running(x)') =
                 Cardinality(Running(x)) - Count(IsRunning(worker[w], x)) + Count(IsRunning(r, x))
           /\ IsRunning(worker[w], x) => Cardinality(Running(x)) > 0
<1>1. \A v \in Workers : worker'[v] = IF v = w THEN r ELSE worker[v]
  BY Zenon
<1>2. /\ Asleep(x)' \in {Asleep(x) \cup {w}, Asleep(x) \ {w}}
      /\ (w \in Asleep(x) <=> IsIdle(worker[w], x)) /\ (w \in Asleep(x)' <=> IsIdle(r, x))
  BY <1>1, Zenon DEF Asleep, IsIdle
<1>3. /\ Counted(x)' \in {Counted(x) \cup {w}, Counted(x) \ {w}}
      /\ (w \in Counted(x) <=> IsCounted(worker[w], x)) /\ (w \in Counted(x)' <=> IsCounted(r, x))
  BY <1>1, Zenon DEF Counted, IsCounted
<1>4. /\ Running(x)' \in {Running(x) \cup {w}, Running(x) \ {w}}
      /\ (w \in Running(x) <=> IsRunning(worker[w], x)) /\ (w \in Running(x)' <=> IsRunning(r, x))
  BY <1>1, Zenon DEF Running, IsRunning
<1>5. Asleep(x) \in SUBSET Workers /\ Counted(x) \in SUBSET Workers /\ Running(x) \in SUBSET Workers
  BY Zenon DEF Asleep, Counted, Running
<1>6. /\ Cardinality(Asleep(x)) \in Nat /\ Cardinality(Asleep(x)') \in Nat
      /\ Cardinality(Asleep(x)') =
            Cardinality(Asleep(x)) - Count(w \in Asleep(x)) + Count(w \in Asleep(x)')
  BY <1>2, <1>5, CountOne, Zenon
<1>7. /\ Cardinality(Counted(x)) \in Nat /\ Cardinality(Counted(x)') \in Nat
      /\ Cardinality(Counted(x)') =
            Cardinality(Counted(x)) - Count(w \in Counted(x)) + Count(w \in Counted(x)')
  BY <1>3, <1>5, CountOne, Zenon
<1>8. /\ Cardinality(Running(x)) \in Nat /\ Cardinality(Running(x)') \in Nat
      /\ Cardinality(Running(x)') =
            Cardinality(Running(x)) - Count(w \in Running(x)) + Count(w \in Running(x)')
      /\ w \in Running(x) => Cardinality(Running(x)) > 0
  BY <1>4, <1>5, CountOne, Zenon
<1> QED
  BY <1>2, <1>3, <1>4, <1>6, <1>7, <1>8, Zenon DEF Count
-----------------------------------------------------------------------------
(* The inductive invariant, in three parts. *)

\* The queues: QueuesExact, and the count of pending calls.
QueueInv ==
    /\ queue \in [Calls -> {"none", "pending", "delayed"}]
    /\ pending \in [GroupSet -> Seq(Calls)] /\ delayed \in [GroupSet -> Seq(Calls)]
    /\ pending_count \in [GroupSet -> Nat]
    /\ QueuesExact
    /\ \A g \in GroupSet : pending_count[g] = Len(pending[g])

\* Where a worker can be: with a call from the time it takes one to the end of
\* thread_call_finish, and in a group as long as it exists.
Places == {"none", "start", "running", "blocked", "wakeup", "relock", "loop", "idle"}

WorkerShape(r) ==
    /\ r \in [at : Places, group : GroupSet \cup {None}, call : Calls \cup {None}]
    /\ r.at = "none" => r = NoWork
    /\ r.at # "none" => r.group \in GroupSet
    /\ r.at \in {"running", "blocked", "wakeup", "relock"} <=> r.call # None

\* The workers and the daemon: the counts of idle and of active workers.
PoolInv ==
    /\ worker = [w \in Workers |-> worker[w]] /\ \A w \in Workers : WorkerShape(worker[w])
    /\ daemon \in [at : {"scan", "create", "asleep"}, i : DOMAIN Groups]
    /\ daemon_awake \in BOOLEAN /\ (daemon.at = "create" => daemon_awake)
    /\ daemon.at = "scan" => daemon_awake
    /\ idle_count \in [GroupSet -> Nat] /\ active_count \in [GroupSet -> Nat] /\ lost \in [GroupSet -> Nat]
    /\ \A g \in GroupSet :
          /\ idle_count[g] = Cardinality(Asleep(g))
          /\ active_count[g] = Cardinality(Counted(g)) + Creating(g) + lost[g]

\* A worker is in thread_call_finish, past the lock, for the call.
Leaving(c) == \E w \in Workers : worker[w].call = c /\ worker[w].at \in {"wakeup", "relock"}

\* One call: its references, outstanding submissions and storage.  A client has
\* what it put on a queue, but for the internal entries, which nobody owns.
CallSound(c) ==
    /\ owned[c] => live[c] /\ c \notin Internal
    /\ queue[c] # "none" => live[c] /\ (owned[c] \/ c \in Internal)
    /\ c \in Internal /\ live[c] => queue[c] # "none"
    /\ c \in Alloc =>
          /\ refs[c] = Cardinality(Running(c)) + Count(owned[c])
          /\ refs[c] > 0 => live[c]
          /\ live[c] /\ refs[c] = 0 => Leaving(c)
          /\ live[c] => behind[c] = Cardinality(Running(c)) + Count(queue[c] # "none")

CallInv ==
    /\ refs \in [Calls -> Nat] /\ behind \in [Calls -> Int]
    /\ live \in [Calls -> BOOLEAN] /\ owned \in [Calls -> BOOLEAN]
    /\ \A c \in Calls : CallSound(c)

IInv == QueueInv /\ PoolInv /\ CallInv

-----------------------------------------------------------------------------
(* The queues. *)

\* One call leaves the queue it is on, if any, for another, if any.
LEMMA QueueChange ==
    ASSUME QueueInv, NEW c \in Calls, NEW g \in GroupSet, g = group_of[c],
           NEW q \in {"none", "pending", "delayed"}, queue' = [queue EXCEPT ![c] = q],
           NEW p, IsQueue(p), Range(p) = IF q = "pending" THEN Range(pending[g]) \cup {c}
                                                          ELSE Range(pending[g]) \ {c},
           NEW d, IsQueue(d), Range(d) = IF q = "delayed" THEN Range(delayed[g]) \cup {c}
                                                          ELSE Range(delayed[g]) \ {c},
           pending' = [pending EXCEPT ![g] = p],
           delayed' = [delayed EXCEPT ![g] = d],
           pending_count' = [pending_count EXCEPT ![g] = Len(p)]
    PROVE  QueueInv'
<1>1. p \in Seq(Calls) /\ d \in Seq(Calls) /\ Len(p) \in Nat
  BY DEF IsQueue
<1>2. /\ queue' \in [Calls -> {"none", "pending", "delayed"}]
      /\ pending' \in [GroupSet -> Seq(Calls)] /\ delayed' \in [GroupSet -> Seq(Calls)]
      /\ pending_count' \in [GroupSet -> Nat]
  BY <1>1, Zenon DEF QueueInv
<1>3. ASSUME NEW h \in GroupSet PROVE pending_count'[h] = Len(pending'[h])
  BY <1>1, Zenon DEF QueueInv
<1>4. ASSUME NEW h \in GroupSet
      PROVE  /\ IsQueue(pending'[h]) /\ IsQueue(delayed'[h])
             /\ Range(pending'[h]) = {b \in Calls : queue'[b] = "pending" /\ group_of[b] = h}
             /\ Range(delayed'[h]) = {b \in Calls : queue'[b] = "delayed" /\ group_of[b] = h}
  <2>1. CASE h = g
    <3>1. pending'[h] = p /\ delayed'[h] = d
      BY <2>1, Zenon DEF QueueInv
    <3>2. \A b \in Calls : queue'[b] = IF b = c THEN q ELSE queue[b]
      BY Zenon DEF QueueInv
    <3>3. /\ Range(pending[g]) = {b \in Calls : queue[b] = "pending" /\ group_of[b] = g}
          /\ Range(delayed[g]) = {b \in Calls : queue[b] = "delayed" /\ group_of[b] = g}
      BY Zenon DEF QueueInv, QueuesExact
    <3> QED
      BY <2>1, <3>1, <3>2, <3>3
  <2>2. CASE h # g
    <3>1. pending'[h] = pending[h] /\ delayed'[h] = delayed[h]
      BY <2>2, Zenon DEF QueueInv
    <3>2. \A b \in Calls : b # c => queue'[b] = queue[b]
      BY Zenon DEF QueueInv
    <3>3. /\ IsQueue(pending[h]) /\ IsQueue(delayed[h])
          /\ Range(pending[h]) = {b \in Calls : queue[b] = "pending" /\ group_of[b] = h}
          /\ Range(delayed[h]) = {b \in Calls : queue[b] = "delayed" /\ group_of[b] = h}
      BY Zenon DEF QueueInv, QueuesExact
    <3> QED
      BY <2>2, <3>1, <3>2, <3>3
  <2> QED
    BY <2>1, <2>2, Zenon
<1>5. QueuesExact'
  BY <1>4, Zenon DEF QueuesExact, IsQueue, Range, IsInjective
<1> QED
  BY <1>2, <1>3, <1>5, Zenon DEF QueueInv

\* Which queue of its group a call is on.
LEMMA OnQueue ==
    ASSUME QueueInv, NEW c \in Calls
    PROVE  /\ group_of[c] \in GroupSet
           /\ IsQueue(pending[group_of[c]]) /\ IsQueue(delayed[group_of[c]])
           /\ c \in Range(pending[group_of[c]]) <=> queue[c] = "pending"
           /\ c \in Range(delayed[group_of[c]]) <=> queue[c] = "delayed"
           /\ pending_count[group_of[c]] = Len(pending[group_of[c]])
  BY ThreadCallConstants DEF ThreadCallConstants, QueueInv, QueuesExact

\* _pending_call_enqueue moves a call to the pending queue of its group.
LEMMA PendingEnqueue ==
    ASSUME QueueInv, NEW c \in Calls, queue[c] # "pending", pending_call_enqueue(c)
    PROVE  QueueInv'
<1> DEFINE g == group_of[c]
           p == Append(pending[g], c)
           d == Without(delayed[g], c)
<1>1. /\ g \in GroupSet /\ IsQueue(pending[g]) /\ IsQueue(delayed[g]) /\ c \notin Range(pending[g])
      /\ pending_count[g] = Len(pending[g])
  BY OnQueue, Zenon
<1>2. IsQueue(p) /\ Range(p) = Range(pending[g]) \cup {c} /\ Len(p) = Len(pending[g]) + 1
  BY <1>1, AppendQueue, Zenon
<1>3. IsQueue(d) /\ Range(d) = Range(delayed[g]) \ {c}
  BY <1>1, WithoutQueue, Zenon
<1>4. /\ queue' = [queue EXCEPT ![c] = "pending"]
      /\ pending' = [pending EXCEPT ![g] = p]
      /\ delayed' = [delayed EXCEPT ![g] = d]
      /\ pending_count' = [pending_count EXCEPT ![g] = Len(p)]
  BY <1>1, <1>2, Zenon DEF pending_call_enqueue, QueueInv
<1> HIDE DEF g, p, d
<1> QED
  BY <1>1, <1>2, <1>3, <1>4, QueueChange, Zenon DEF g

\* _delayed_call_enqueue moves a call to the delayed queue of its group.
LEMMA DelayedEnqueue ==
    ASSUME FiniteCounts, QueueInv, NEW c \in Calls, NEW dl, delayed_call_enqueue(c, dl)
    PROVE  QueueInv'
<1> DEFINE g == group_of[c]
           p == Without(pending[g], c)
           d == Inserted(delayed[g], c, dl.hard)
<1>1. /\ g \in GroupSet /\ IsQueue(pending[g]) /\ IsQueue(delayed[g])
      /\ c \in Range(pending[g]) <=> queue[c] = "pending"
      /\ pending_count[g] = Len(pending[g])
  BY OnQueue, Zenon
<1>2. /\ IsQueue(p) /\ Range(p) = Range(pending[g]) \ {c}
      /\ Len(p) = IF c \in Range(pending[g]) THEN Len(pending[g]) - 1 ELSE Len(pending[g])
  BY <1>1, WithoutQueue, Zenon
<1>3. IsQueue(d) /\ Range(d) = Range(delayed[g]) \cup {c}
  BY <1>1, InsertedQueue, Zenon
<1>4. /\ queue' = [queue EXCEPT ![c] = "delayed"]
      /\ pending' = [pending EXCEPT ![g] = p]
      /\ delayed' = [delayed EXCEPT ![g] = d]
      /\ pending_count' = [pending_count EXCEPT ![g] = Len(p)]
  BY <1>1, <1>2, Zenon DEF delayed_call_enqueue, QueueInv
<1> HIDE DEF g, p, d
<1> QED
  BY <1>1, <1>2, <1>3, <1>4, QueueChange, Zenon DEF g

\* _call_dequeue takes a call off the queue it is on.
LEMMA Dequeue ==
    ASSUME QueueInv, NEW c \in Calls, call_dequeue(c)
    PROVE  QueueInv'
<1> DEFINE g == group_of[c]
           p == Without(pending[g], c)
           d == Without(delayed[g], c)
<1>1. /\ g \in GroupSet /\ IsQueue(pending[g]) /\ IsQueue(delayed[g])
      /\ c \in Range(pending[g]) <=> queue[c] = "pending"
      /\ pending_count[g] = Len(pending[g])
  BY OnQueue, Zenon
<1>2. /\ IsQueue(p) /\ Range(p) = Range(pending[g]) \ {c}
      /\ Len(p) = IF c \in Range(pending[g]) THEN Len(pending[g]) - 1 ELSE Len(pending[g])
  BY <1>1, WithoutQueue, Zenon
<1>3. IsQueue(d) /\ Range(d) = Range(delayed[g]) \ {c}
  BY <1>1, WithoutQueue, Zenon
<1>4. /\ queue' = [queue EXCEPT ![c] = "none"]
      /\ pending' = [pending EXCEPT ![g] = p]
      /\ delayed' = [delayed EXCEPT ![g] = d]
      /\ pending_count' = [pending_count EXCEPT ![g] = Len(p)]
  BY <1>1, <1>2, Zenon DEF call_dequeue, QueueInv
<1> HIDE DEF g, p, d
<1> QED
  BY <1>1, <1>2, <1>3, <1>4, QueueChange, Zenon DEF g

\* The call a worker takes is a pending call of its group.
LEMMA TakesPending ==
    ASSUME QueueInv, NEW w \in Workers, worker[w].group \in GroupSet, TakeCall(w)
    PROVE  LET c == Head(pending[worker[w].group])
           IN  c \in Calls /\ queue[c] = "pending" /\ group_of[c] = worker[w].group
<1> DEFINE g == worker[w].group
<1>1. IsQueue(pending[g]) /\ pending[g] # <<>>
  BY DEF QueueInv, QueuesExact, TakeCall
<1>2. Head(pending[g]) \in Range(pending[g])
  BY <1>1, TailQueue, Zenon
<1> QED
  BY <1>2, Zenon DEF QueueInv, QueuesExact

\* A worker takes the first pending call of its group off the queue.
LEMMA Take ==
    ASSUME QueueInv, NEW w \in Workers, worker[w].group \in GroupSet, TakeCall(w)
    PROVE  QueueInv'
<1> DEFINE g == worker[w].group
           c == Head(pending[g])
           p == Tail(pending[g])
           d == delayed[g]
<1>1. c \in Calls /\ queue[c] = "pending" /\ group_of[c] = g
  BY TakesPending, Zenon
<1>2. /\ IsQueue(pending[g]) /\ IsQueue(d) /\ pending[g] # <<>>
      /\ pending_count[g] = Len(pending[g]) /\ c \notin Range(d)
  <2>1. /\ IsQueue(pending[g]) /\ IsQueue(d) /\ pending_count[g] = Len(pending[g])
        /\ Range(d) = {b \in Calls : queue[b] = "delayed" /\ group_of[b] = g}
    BY Zenon DEF QueueInv, QueuesExact
  <2>2. pending_count[g] > 0
    BY Zenon DEF TakeCall
  <2> HIDE DEF g, c, d
  <2>3. pending[g] # <<>>
    BY <2>1, <2>2
  <2> QED
    BY <1>1, <2>1, <2>3, Zenon
<1>3. IsQueue(p) /\ Range(p) = Range(pending[g]) \ {c} /\ Len(p) = Len(pending[g]) - 1
  BY <1>2, TailQueue, Zenon
<1>4. /\ queue' = [queue EXCEPT ![c] = "none"]
      /\ pending' = [pending EXCEPT ![g] = p]
      /\ delayed' = [delayed EXCEPT ![g] = d]
      /\ pending_count' = [pending_count EXCEPT ![g] = Len(p)]
  BY <1>2, <1>3, Zenon DEF TakeCall, QueueInv
<1>5. Range(d) = Range(delayed[g]) \ {c}
  BY <1>2, Zenon
<1>6. g \in GroupSet
  BY Zenon
<1> HIDE DEF g, c, p, d
<1> QED
  BY <1>1, <1>2, <1>3, <1>4, <1>5, <1>6, QueueChange, Zenon

\* The rescan puts a delayed call back at its soft deadline, on the same queue.
LEMMA Resort ==
    ASSUME FiniteCounts, QueueInv, NEW g \in GroupSet, rescan_resort(g)
    PROVE  QueueInv'
<1>1. PICK i \in DOMAIN delayed[g] :
         delayed' = [delayed EXCEPT ![g] =
                       Inserted(Without(@, delayed[g][i]), delayed[g][i], deadline[delayed[g][i]].soft)]
  BY Zenon DEF rescan_resort
<1> DEFINE c == delayed[g][i]
           o == Without(delayed[g], c)
           p == pending[g]
           d == Inserted(o, c, deadline[c].soft)
<1>2. c \in Range(delayed[g])
  BY Zenon DEF Range
<1>3. c \in Calls /\ queue[c] = "delayed" /\ group_of[c] = g
  BY <1>2 DEF QueueInv, QueuesExact
<1>4. IsQueue(p) /\ IsQueue(delayed[g]) /\ c \notin Range(p) /\ pending_count[g] = Len(p)
  BY <1>3, Zenon DEF QueueInv, QueuesExact
<1>5. IsQueue(o) /\ Range(o) = Range(delayed[g]) \ {c}
  BY <1>4, WithoutQueue
<1>6. IsQueue(d) /\ Range(d) = Range(delayed[g]) \cup {c}
  <2> HIDE DEF o
  <2>1. IsQueue(d) /\ Range(d) = Range(o) \cup {c}
    BY <1>3, <1>5, InsertedQueue, Zenon
  <2> QED
    BY <1>5, <2>1, Zenon
<1>7. /\ queue' = [queue EXCEPT ![c] = "delayed"]
      /\ pending' = [pending EXCEPT ![g] = p]
      /\ delayed' = [delayed EXCEPT ![g] = d]
      /\ pending_count' = [pending_count EXCEPT ![g] = Len(p)]
  <2>1. queue' = queue /\ pending' = pending /\ pending_count' = pending_count
    BY Zenon DEF rescan_resort
  <2>2. delayed' = [delayed EXCEPT ![g] = d]
    BY <1>1, Zenon
  <2>3. /\ queue \in [Calls -> {"none", "pending", "delayed"}] /\ pending \in [GroupSet -> Seq(Calls)]
        /\ pending_count \in [GroupSet -> Nat]
    BY Zenon DEF QueueInv
  <2> HIDE DEF c, d
  <2> QED
    BY <1>3, <1>4, <2>1, <2>2, <2>3, Zenon
<1>8. Range(p) = Range(pending[g]) \ {c}
  BY <1>4, Zenon
<1> HIDE DEF c, o, p, d
<1> QED
  BY <1>3, <1>4, <1>6, <1>7, <1>8, QueueChange, Zenon

\* A panic changes nothing but who has the lock.
LEMMA PanicQuiet ==
    ASSUME PanicStep
    PROVE  UNCHANGED <<callVars, queueVars, poolVars, setupVars, timerVars, deallocVars>>
  BY Zenon DEF PanicStep, DaemonPanics, finish_panic, vars

\* The calls that thread_call_func_cancel looks for are calls.
LEMMA AlikeCalls == Alike \subseteq Calls
  BY ThreadCallConstants, Zenon DEF ThreadCallConstants

\* The queue invariant is about the queues alone.
LEMMA QueueSame ==
    ASSUME QueueInv, UNCHANGED <<queue, pending, delayed, pending_count>>
    PROVE  QueueInv'
  BY DEF QueueInv, QueuesExact, IsQueue, IsInjective, Range

\* Every step keeps the queues exact.
LEMMA QueueStep ==
    ASSUME FiniteCounts, IInv, [Next]_vars
    PROVE  QueueInv'
<1> QueueInv
  BY Zenon DEF IInv
<1>1. ASSUME NEW c \in Calls, thread_call_enter(c) PROVE QueueInv'
  BY <1>1, PendingEnqueue, Zenon DEF thread_call_enter
<1>2. ASSUME NEW c \in Calls, NEW d, thread_call_enter_delayed(c, d) \/ thread_call_func_delayed(c, d)
      PROVE  QueueInv'
  BY <1>2, DelayedEnqueue, Zenon DEF thread_call_enter_delayed, thread_call_func_delayed
<1>3. ASSUME NEW c \in Calls, NEW all, thread_call_cancel(c) \/ thread_call_func_cancel(c, all)
      PROVE  QueueInv'
  BY <1>3, Dequeue, Zenon DEF thread_call_cancel, thread_call_func_cancel
<1>4. ASSUME NEW c \in Calls, NEW k, thread_call_cancel_wait(k, c) PROVE QueueInv'
  <2>1. CASE call_dequeue(c)
    BY <2>1, Dequeue, Zenon
  <2>2. CASE UNCHANGED <<queue, pending, delayed, pending_count>>
    BY <2>2, QueueSame, Zenon
  <2> QED
    BY <1>4, <2>1, <2>2, Zenon DEF thread_call_cancel_wait
<1>5. ASSUME NEW c \in Calls, thread_call_free(c) \/ thread_call_allocate(c) PROVE QueueInv'
  BY <1>5, QueueSame, Zenon DEF thread_call_free, thread_call_allocate, queueVars
<1>6. ASSUME NEW g \in GroupSet, rescan_due(g) PROVE QueueInv'
  <2>1. PICK i \in DOMAIN delayed[g] : pending_call_enqueue(delayed[g][i])
    BY <1>6, Zenon DEF rescan_due
  <2>2. delayed[g][i] \in Range(delayed[g])
    BY Zenon DEF Range
  <2>3. delayed[g][i] \in Calls /\ queue[delayed[g][i]] # "pending"
    BY <2>2, Zenon DEF QueueInv, QueuesExact
  <2> QED
    BY <2>1, <2>3, PendingEnqueue, Zenon
<1>7. ASSUME NEW g \in GroupSet, rescan_resort(g) PROVE QueueInv'
  BY <1>7, Resort, Zenon
<1>8. ASSUME NEW g \in GroupSet, rescan_ends(g) \/ sched_call_wake(g) PROVE QueueInv'
  BY <1>8, QueueSame, Zenon DEF rescan_ends, sched_call_wake, callVars, queueVars
<1>9. ASSUME NEW k, WaitStep(k) PROVE QueueInv'
  BY <1>9, QueueSame, Zenon DEF WaitStep, thread_call_wait_locked, cancel_wait_returns, queueVars
<1>10. ASSUME NEW w \in Workers, WorkerLoop(w) PROVE QueueInv'
  <2>1. CASE TakeCall(w)
    <3>1. worker[w].group \in GroupSet
      BY <1>10, Zenon DEF IInv, PoolInv, WorkerShape, WorkerLoop
    <3> QED
      BY <2>1, <3>1, Take, Zenon
  <2>2. CASE GoIdle(w)
    BY <2>2, QueueSame, Zenon DEF GoIdle, callVars, queueVars
  <2> QED
    BY <1>10, <2>1, <2>2, Zenon DEF WorkerLoop
<1>11. ASSUME NEW w \in Workers,
              thread_call_finish(w) \/ finish_wakeup(w) \/ finish_relock(w)
                 \/ sched_call_block(w) \/ sched_call_unblock(w)
       PROVE  QueueInv'
  BY <1>11, QueueSame, Zenon DEF thread_call_finish, finish_wakeup, finish_relock, sched_call_block,
                          sched_call_unblock, callVars, queueVars
<1>12. ASSUME DaemonStep \/ Tick \/ UNCHANGED vars PROVE QueueInv'
  BY <1>12, QueueSame, Zenon DEF DaemonStep, DaemonScan, thread_call_thread_create, CreateFails, Tick, vars,
                          callVars, queueVars
<1>13. ASSUME NEW g \in GroupSet, thread_call_delayed_timer(g) PROVE QueueInv'
  <2>1. CASE delayed[g] # <<>> /\ pending_call_enqueue(Head(delayed[g]))
    <3>1. Head(delayed[g]) \in Range(delayed[g])
      BY <2>1, TailQueue, Zenon DEF QueueInv, QueuesExact
    <3>2. Head(delayed[g]) \in Calls /\ queue[Head(delayed[g])] # "pending"
      BY <3>1, Zenon DEF QueueInv, QueuesExact
    <3> QED
      BY <2>1, <3>2, PendingEnqueue, Zenon
  <2>2. CASE UNCHANGED <<callVars, queueVars>>
    BY <2>2, QueueSame, Zenon DEF callVars, queueVars
  <2> QED
    BY <1>13, <2>1, <2>2, Zenon DEF thread_call_delayed_timer
<1>14. ASSUME NEW g \in GroupSet, DelayedTimerExpires(g) \/ DeallocStep(g) PROVE QueueInv'
  BY <1>14, QueueSame, Zenon DEF DelayedTimerExpires, DeallocStep, DeallocTimerExpires,
                          thread_call_dealloc_timer, callVars, queueVars
<1>15. ASSUME PanicStep PROVE QueueInv'
  BY <1>15, PanicQuiet, QueueSame, Zenon DEF callVars, queueVars
<1> QED
  <2>1. CASE ClientStep
    BY <1>1, <1>2, <1>3, <1>4, <1>5, <1>6, <1>7, <1>8, <2>1, AlikeCalls, Zenon DEF ClientStep
  <2>2. ASSUME NEW w \in Workers, WorkerStep(w) PROVE QueueInv'
    BY <1>10, <1>11, <2>2, Zenon DEF WorkerStep
  <2>3. ASSUME NEW g \in GroupSet, TimerStep(g) \/ DeallocStep(g) PROVE QueueInv'
    BY <1>13, <1>14, <2>3, Zenon DEF TimerStep
  <2> QED
    BY <1>9, <1>12, <1>15, <2>1, <2>2, <2>3, Zenon DEF Next
-----------------------------------------------------------------------------
(* The workers and the daemon. *)

\* The numbers of workers are numbers.
LEMMA CountsNat ==
    ASSUME FiniteCounts, NEW x
    PROVE  Cardinality(Asleep(x)) \in Nat /\ Cardinality(Counted(x)) \in Nat /\ Cardinality(Running(x)) \in Nat
<1>1. Asleep(x) \in SUBSET Workers /\ Counted(x) \in SUBSET Workers /\ Running(x) \in SUBSET Workers
  BY Zenon DEF Asleep, Counted, Running
<1> QED
  BY <1>1, Zenon DEF FiniteCounts

\* The pool invariant is about the workers, the daemon and the counts alone.
LEMMA PoolSame ==
    ASSUME PoolInv, UNCHANGED <<worker, daemon, daemon_awake, lost, idle_count, active_count>>
    PROVE  PoolInv'
<1>1. \A w \in Workers : WorkerShape(worker[w])'
  BY Zenon DEF PoolInv, WorkerShape
<1>2. \A g \in GroupSet : Asleep(g)' = Asleep(g) /\ Counted(g)' = Counted(g) /\ Creating(g)' = Creating(g)
  BY Zenon DEF Asleep, Counted, Creating
<1> QED
  BY <1>1, <1>2, Zenon DEF PoolInv

\* One worker moves, and the counts with it.
LEMMA PoolMove ==
    ASSUME FiniteCounts, PoolInv, NEW w \in Workers, NEW r, WorkerShape(r), worker' = [worker EXCEPT ![w] = r],
           UNCHANGED <<daemon_awake, lost>>,
           daemon' \in [at : {"scan", "create", "asleep"}, i : DOMAIN Groups],
           daemon'.at # "asleep" => daemon_awake,
           idle_count' = [g \in GroupSet |-> idle_count'[g]],
           active_count' = [g \in GroupSet |-> active_count'[g]],
           \A g \in GroupSet :
              /\ idle_count'[g] = idle_count[g] - Count(IsIdle(worker[w], g)) + Count(IsIdle(r, g))
              /\ active_count'[g] = active_count[g] - Count(IsCounted(worker[w], g)) + Count(IsCounted(r, g))
                                       - Creating(g) + Creating(g)'
    PROVE  PoolInv'
<1>1. worker' = [v \in Workers |-> worker'[v]] /\ \A v \in Workers : WorkerShape(worker'[v])
  BY Zenon DEF PoolInv
<1>2. ASSUME NEW g \in GroupSet
      PROVE  /\ idle_count'[g] = Cardinality(Asleep(g)') /\ idle_count'[g] \in Nat
             /\ active_count'[g] = Cardinality(Counted(g)') + Creating(g)' + lost[g]
             /\ active_count'[g] \in Nat
  <2>1. worker = [v \in Workers |-> worker[v]]
    BY Zenon DEF PoolInv
  <2>2. /\ Cardinality(Asleep(g)) \in Nat /\ Cardinality(Asleep(g)') \in Nat
        /\ Cardinality(Counted(g)) \in Nat /\ Cardinality(Counted(g)') \in Nat
        /\ Cardinality(Asleep(g)') =
              Cardinality(Asleep(g)) - Count(IsIdle(worker[w], g)) + Count(IsIdle(r, g))
        /\ Cardinality(Counted(g)') =
              Cardinality(Counted(g)) - Count(IsCounted(worker[w], g)) + Count(IsCounted(r, g))
    BY <2>1, WorkerMoves
  <2>3. /\ idle_count[g] = Cardinality(Asleep(g)) /\ lost[g] \in Nat
        /\ active_count[g] = Cardinality(Counted(g)) + Creating(g) + lost[g]
    BY Zenon DEF PoolInv
  <2>4. Creating(g) \in Nat /\ Creating(g)' \in Nat
    BY Zenon DEF Creating
  <2>5. /\ Count(IsIdle(worker[w], g)) \in Nat /\ Count(IsIdle(r, g)) \in Nat
        /\ Count(IsCounted(worker[w], g)) \in Nat /\ Count(IsCounted(r, g)) \in Nat
    BY Zenon DEF Count
  <2> QED
    BY <2>2, <2>3, <2>4, <2>5
<1>3. \A v \in Workers : WorkerShape(worker[v])'
  BY <1>1, Zenon DEF WorkerShape
<1>4. idle_count' \in [GroupSet -> Nat] /\ active_count' \in [GroupSet -> Nat] /\ lost' \in [GroupSet -> Nat]
  BY <1>2, Zenon DEF PoolInv
<1>5. /\ daemon_awake' \in BOOLEAN /\ (daemon'.at = "create" => daemon_awake')
      /\ daemon'.at = "scan" => daemon_awake'
  BY Zenon DEF PoolInv
<1> QED
  BY <1>1, <1>2, <1>3, <1>4, <1>5, Zenon DEF PoolInv

\* A worker that changes its place.
LEMMA WorkerAt ==
    ASSUME NEW w \in Workers, WorkerShape(worker[w]), NEW a, worker' = [worker EXCEPT ![w].at = a]
    PROVE  worker' = [worker EXCEPT ![w] = [at |-> a, group |-> worker[w].group, call |-> worker[w].call]]
<1>1. [worker[w] EXCEPT !.at = a] = [at |-> a, group |-> worker[w].group, call |-> worker[w].call]
  BY DEF WorkerShape
<1>2. [worker EXCEPT ![w].at = a] = [worker EXCEPT ![w] = [worker[w] EXCEPT !.at = a]]
  BY Zenon
<1> QED
  BY <1>1, <1>2, Zenon

\* thread_call_wake moves one idle worker, or wakes the daemon.
LEMMA WakePool ==
    ASSUME FiniteCounts, PoolInv, NEW g \in GroupSet, NEW p, thread_call_wake(g, p)
    PROVE  PoolInv'
<1>1. CASE UNCHANGED <<poolVars, dealloc_timer>>
  BY <1>1, PoolSame, Zenon DEF poolVars
<1>2. ASSUME NEW w \in Asleep(g), worker' = [worker EXCEPT ![w].at = "start"],
             idle_count' = [idle_count EXCEPT ![g] = @ - 1],
             active_count' = [active_count EXCEPT ![g] = @ + 1],
             UNCHANGED <<daemon, daemon_awake, lost>>
      PROVE  PoolInv'
  <2>1. w \in Workers /\ worker[w].at = "idle" /\ worker[w].group = g
    BY Zenon DEF Asleep
  <2>2. worker = [v \in Workers |-> worker[v]] /\ WorkerShape(worker[w])
    BY <2>1, Zenon DEF PoolInv
  <2> DEFINE r == [at |-> "start", group |-> g, call |-> worker[w].call]
  <2>3. worker' = [worker EXCEPT ![w] = r]
    BY <1>2, <2>1, <2>2, WorkerAt, Zenon
  <2>4. WorkerShape(r)
    BY <2>1, <2>2, Zenon DEF WorkerShape, Places
  <2>5. ASSUME NEW h \in GroupSet
        PROVE  /\ Count(IsIdle(worker[w], h)) = (IF h = g THEN 1 ELSE 0) /\ Count(IsIdle(r, h)) = 0
               /\ Count(IsCounted(worker[w], h)) = 0
               /\ Count(IsCounted(r, h)) = (IF h = g THEN 1 ELSE 0)
               /\ Creating(h)' = Creating(h) /\ Creating(h) \in Nat
    BY <1>2, <2>1, Zenon DEF Count, IsIdle, IsCounted, Creating
  <2>6. /\ daemon' \in [at : {"scan", "create", "asleep"}, i : DOMAIN Groups]
        /\ daemon'.at # "asleep" => daemon_awake
    BY <1>2, Zenon DEF PoolInv
  <2>7. /\ idle_count' = [h \in GroupSet |-> idle_count'[h]]
        /\ active_count' = [h \in GroupSet |-> active_count'[h]]
        /\ \A h \in GroupSet : idle_count'[h] = (IF h = g THEN idle_count[h] - 1 ELSE idle_count[h])
        /\ \A h \in GroupSet : active_count'[h] = (IF h = g THEN active_count[h] + 1 ELSE active_count[h])
        /\ \A h \in GroupSet : idle_count[h] \in Nat /\ active_count[h] \in Nat
    BY <1>2, Zenon DEF PoolInv
  <2> HIDE DEF r
  <2>8. \A h \in GroupSet :
           /\ idle_count'[h] = idle_count[h] - Count(IsIdle(worker[w], h)) + Count(IsIdle(r, h))
           /\ active_count'[h] = active_count[h] - Count(IsCounted(worker[w], h)) + Count(IsCounted(r, h))
                                    - Creating(h) + Creating(h)'
    BY <2>5, <2>7
  <2> QED
    BY <1>2, <2>1, <2>3, <2>4, <2>6, <2>7, <2>8, PoolMove, Zenon
<1>3. ASSUME ~daemon_awake, daemon_awake' = TRUE, daemon' = [at |-> "scan", i |-> 1],
             UNCHANGED <<idle_count, active_count, worker, lost>>
      PROVE  PoolInv'
  <2>1. 1 \in DOMAIN Groups
    BY ThreadCallConstants DEF ThreadCallConstants
  <2>2. \A h \in GroupSet : Creating(h)' = Creating(h)
    BY <1>3, Zenon DEF Creating, PoolInv
  <2>3. \A h \in GroupSet : Asleep(h)' = Asleep(h) /\ Counted(h)' = Counted(h)
    BY <1>3, Zenon DEF Asleep, Counted
  <2>4. \A w \in Workers : WorkerShape(worker[w])'
    BY <1>3, Zenon DEF PoolInv, WorkerShape
  <2> QED
    BY <1>3, <2>1, <2>2, <2>3, <2>4, Zenon DEF PoolInv
<1> QED
  BY <1>1, <1>2, <1>3, PoolSame, Zenon DEF thread_call_wake, poolVars

\* One worker of a group moves or ends, the daemon does not.
LEMMA PoolShift ==
    ASSUME FiniteCounts, PoolInv, NEW w \in Workers, worker[w].group \in GroupSet,
           NEW r, WorkerShape(r), r.group \in {worker[w].group, None}, worker' = [worker EXCEPT ![w] = r],
           UNCHANGED <<daemon, daemon_awake, lost>>,
           NEW i \in Int, i = Count(r.at = "idle") - Count(worker[w].at = "idle"),
           NEW a \in Int, a = Count(r.at \notin {"idle", "blocked", "none"})
                                 - Count(worker[w].at \notin {"idle", "blocked"}),
           idle_count' = [idle_count EXCEPT ![worker[w].group] = @ + i],
           active_count' = [active_count EXCEPT ![worker[w].group] = @ + a]
    PROVE  PoolInv'
<1>1. None \notin GroupSet
  BY ThreadCallConstants, Zenon DEF ThreadCallConstants
<1>2. r.group = None <=> r.at = "none"
  BY <1>1 DEF WorkerShape, NoWork
<1>3. ASSUME NEW h \in GroupSet
      PROVE  /\ Count(IsIdle(worker[w], h)) = IF h = worker[w].group THEN Count(worker[w].at = "idle") ELSE 0
             /\ Count(IsIdle(r, h)) = IF h = worker[w].group THEN Count(r.at = "idle") ELSE 0
             /\ Count(IsCounted(worker[w], h)) =
                   IF h = worker[w].group THEN Count(worker[w].at \notin {"idle", "blocked"}) ELSE 0
             /\ Count(IsCounted(r, h)) =
                   IF h = worker[w].group THEN Count(r.at \notin {"idle", "blocked", "none"}) ELSE 0
             /\ Creating(h)' = Creating(h) /\ Creating(h) \in Nat
  BY <1>1, <1>2, Zenon DEF Count, IsIdle, IsCounted, Creating
<1>4. /\ daemon' \in [at : {"scan", "create", "asleep"}, i : DOMAIN Groups]
      /\ daemon'.at # "asleep" => daemon_awake
  BY Zenon DEF PoolInv
<1>5. /\ \A h \in GroupSet : idle_count[h] \in Nat /\ active_count[h] \in Nat
      /\ \A h \in GroupSet : idle_count'[h] = IF h = worker[w].group THEN idle_count[h] + i ELSE idle_count[h]
      /\ \A h \in GroupSet : active_count'[h] = IF h = worker[w].group THEN active_count[h] + a ELSE active_count[h]
  BY Zenon DEF PoolInv
<1>6. \A h \in GroupSet :
         /\ idle_count'[h] = idle_count[h] - Count(IsIdle(worker[w], h)) + Count(IsIdle(r, h))
         /\ active_count'[h] = active_count[h] - Count(IsCounted(worker[w], h)) + Count(IsCounted(r, h))
                                  - Creating(h) + Creating(h)'
  BY <1>3, <1>5 DEF Count
<1>7. /\ idle_count' = [h \in GroupSet |-> idle_count'[h]]
      /\ active_count' = [h \in GroupSet |-> active_count'[h]]
  BY Zenon DEF PoolInv
<1> QED
  BY <1>4, <1>6, <1>7, PoolMove, Zenon

\* A worker moves on in its loop.
LEMMA PoolSteady ==
    ASSUME PoolInv, NEW w \in Workers, worker[w].at \notin {"none", "idle", "blocked"},
           NEW r, WorkerShape(r), r.group = worker[w].group, r.at \notin {"none", "idle", "blocked"},
           worker' = [worker EXCEPT ![w] = r],
           UNCHANGED <<daemon, daemon_awake, lost, idle_count, active_count>>
    PROVE  PoolInv'
<1>1. worker' = [v \in Workers |-> worker'[v]] /\ \A v \in Workers : worker'[v] = IF v = w THEN r ELSE worker[v]
  BY Zenon DEF PoolInv
<1>2. \A v \in Workers : WorkerShape(worker[v])'
  BY <1>1, Zenon DEF PoolInv, WorkerShape
<1>3. \A g \in GroupSet : Asleep(g)' = Asleep(g) /\ Counted(g)' = Counted(g) /\ Creating(g)' = Creating(g)
  BY <1>1 DEF Asleep, Counted, Creating
<1> QED
  BY <1>1, <1>2, <1>3, Zenon DEF PoolInv

\* A worker that takes a call was and stays counted as active.
LEMMA TakePool ==
    ASSUME QueueInv, PoolInv, NEW w \in Workers, worker[w].at \in {"start", "loop"}, TakeCall(w)
    PROVE  PoolInv'
<1>1. WorkerShape(worker[w]) /\ worker[w].group \in GroupSet
  BY Zenon DEF PoolInv, WorkerShape
<1>2. PICK c : c = Head(pending[worker[w].group])
  BY Zenon
<1>3. c \in Calls /\ None \notin Calls
  BY <1>1, <1>2, TakesPending, ThreadCallConstants, Zenon DEF ThreadCallConstants
<1>4. worker' = Moved(w, "running", c)
      /\ UNCHANGED <<daemon, daemon_awake, lost, idle_count, active_count>>
  BY <1>2, Zenon DEF TakeCall
<1> DEFINE r == [at |-> "running", group |-> worker[w].group, call |-> c]
<1>5. worker' = [worker EXCEPT ![w] = r]
  BY <1>4, Zenon DEF Moved
<1>6. WorkerShape(r)
  BY <1>1, <1>3, Zenon DEF WorkerShape, Places
<1>7. r.group = worker[w].group /\ r.at \notin {"none", "idle", "blocked"}
      /\ worker[w].at \notin {"none", "idle", "blocked"}
  BY Zenon
<1> HIDE DEF r
<1> QED
  BY <1>4, <1>5, <1>6, <1>7, PoolSteady, Zenon

\* A worker without work sleeps or ends, and the counts follow.
LEMMA IdlePool ==
    ASSUME FiniteCounts, PoolInv, NEW w \in Workers, worker[w].at \in {"start", "loop"}, GoIdle(w)
    PROVE  PoolInv'
<1> DEFINE g == worker[w].group
           stays == parallel[g] \/ idle_count[g] < target[g]
<1>1. g \in GroupSet /\ idle_count \in [GroupSet -> Nat] /\ active_count \in [GroupSet -> Nat]
  BY Zenon DEF PoolInv, WorkerShape
<1>2. UNCHANGED <<daemon, daemon_awake, lost>>
  BY Zenon DEF GoIdle
<1>3. /\ idle_count' = [idle_count EXCEPT ![g] = IF stays THEN @ + 1 ELSE @]
      /\ active_count' = [active_count EXCEPT ![g] = @ - 1]
      /\ worker' = [worker EXCEPT ![w] = IF stays THEN [NoWork EXCEPT !.at = "idle", !.group = g] ELSE NoWork]
  BY Zenon DEF GoIdle
<1>4. /\ Count(worker[w].at = "idle") = 0 /\ Count(worker[w].at \notin {"idle", "blocked"}) = 1
  BY Zenon DEF Count
<1> HIDE DEF stays
<1>5. CASE stays
  <2> DEFINE r == [at |-> "idle", group |-> g, call |-> None]
  <2>1. worker' = [worker EXCEPT ![w] = r]
    <3>1. [NoWork EXCEPT !.at = "idle", !.group = g] = r
      <4>1. [NoWork EXCEPT !.at = "idle", !.group = g] = [[NoWork EXCEPT !.at = "idle"] EXCEPT !.group = g]
        BY Zenon
      <4>2. [NoWork EXCEPT !.at = "idle"] = [at |-> "idle", group |-> None, call |-> None]
        BY DEF NoWork
      <4>3. [[at |-> "idle", group |-> None, call |-> None] EXCEPT !.group = g] = r
        OBVIOUS
      <4> QED
        BY <4>1, <4>2, <4>3, Zenon
    <3> QED
      BY <1>3, <1>5, <3>1, Zenon
  <2>2. WorkerShape(r) /\ r.group \in {g, None}
    BY <1>1, Zenon DEF WorkerShape, Places
  <2>3. Count(r.at = "idle") = 1 /\ Count(r.at \notin {"idle", "blocked", "none"}) = 0
    BY Zenon DEF Count
  <2> HIDE DEF r
  <2>4. /\ idle_count' = [idle_count EXCEPT ![g] = @ + 1]
        /\ active_count' = [active_count EXCEPT ![g] = @ + (-1)]
    BY <1>1, <1>3, <1>5, Zenon
  <2>5. /\ 1 = Count(r.at = "idle") - Count(worker[w].at = "idle") /\ 1 \in Int /\ -1 \in Int
        /\ -1 = Count(r.at \notin {"idle", "blocked", "none"}) - Count(worker[w].at \notin {"idle", "blocked"})
    BY <1>4, <2>3
  <2> QED
    BY <1>1, <1>2, <2>1, <2>2, <2>4, <2>5, PoolShift, Zenon
<1>6. CASE ~stays
  <2>1. worker' = [worker EXCEPT ![w] = NoWork]
    BY <1>3, <1>6, Zenon
  <2>2. WorkerShape(NoWork) /\ NoWork.group \in {g, None}
    BY Zenon DEF WorkerShape, Places, NoWork
  <2>3. Count(NoWork.at = "idle") = 0 /\ Count(NoWork.at \notin {"idle", "blocked", "none"}) = 0
    BY Zenon DEF Count, NoWork
  <2>4. /\ idle_count' = [idle_count EXCEPT ![g] = @ + 0]
        /\ active_count' = [active_count EXCEPT ![g] = @ + (-1)]
    <3> HIDE DEF g
    <3>1. idle_count' = [idle_count EXCEPT ![g] = idle_count[g]]
      BY <1>3, <1>6, Zenon
    <3>2. idle_count[g] = idle_count[g] + 0
      BY <1>1
    <3>3. active_count' = [active_count EXCEPT ![g] = @ + (-1)]
      BY <1>1, <1>3, Zenon
    <3> QED
      BY <3>1, <3>2, <3>3, Zenon
  <2>5. /\ 0 = Count(NoWork.at = "idle") - Count(worker[w].at = "idle") /\ 0 \in Int /\ -1 \in Int
        /\ -1 = Count(NoWork.at \notin {"idle", "blocked", "none"}) - Count(worker[w].at \notin {"idle", "blocked"})
    BY <1>4, <2>3
  <2> QED
    BY <1>1, <1>2, <2>1, <2>2, <2>4, <2>5, PoolShift, Zenon
<1> QED
  BY <1>5, <1>6, Zenon

\* thread_call_finish, whichever way the worker goes.
LEMMA FinishPool ==
    ASSUME PoolInv, NEW w \in Workers, thread_call_finish(w) \/ finish_wakeup(w) \/ finish_relock(w)
    PROVE  PoolInv'
<1>1. WorkerShape(worker[w]) /\ worker[w].group \in GroupSet
      /\ worker[w].at \in {"running", "wakeup", "relock"} /\ worker[w].call # None
  BY Zenon DEF PoolInv, WorkerShape, thread_call_finish, finish_wakeup, finish_relock
<1>2. PICK a \in {"loop", "start", "wakeup", "relock"} :
         worker' = [worker EXCEPT ![w] = [at |-> a, group |-> worker[w].group,
                                          call |-> IF a \in {"loop", "start"} THEN None ELSE worker[w].call]]
  <2>1. CASE worker' = Moved(w, "loop", None) \/ worker' = Moved(w, "start", None)
    BY <2>1, Zenon DEF Moved
  <2>2. CASE worker' = [worker EXCEPT ![w].at = "wakeup"]
    <3>1. worker' = [worker EXCEPT ![w] = [at |-> "wakeup", group |-> worker[w].group, call |-> worker[w].call]]
      BY <1>1, <2>2, WorkerAt, Zenon
    <3> QED
      BY <3>1, Zenon
  <2>3. CASE worker' = [worker EXCEPT ![w].at = "relock"]
    <3>1. worker' = [worker EXCEPT ![w] = [at |-> "relock", group |-> worker[w].group, call |-> worker[w].call]]
      BY <1>1, <2>3, WorkerAt, Zenon
    <3> QED
      BY <3>1, Zenon
  <2> QED
    BY <2>1, <2>2, <2>3, Zenon DEF thread_call_finish, finish_wakeup, finish_relock
<1> DEFINE r == [at |-> a, group |-> worker[w].group,
                 call |-> IF a \in {"loop", "start"} THEN None ELSE worker[w].call]
<1>3. WorkerShape(r)
  BY <1>1, Zenon DEF WorkerShape, Places
<1>4. r.group = worker[w].group /\ r.at \notin {"none", "idle", "blocked"}
      /\ worker[w].at \notin {"none", "idle", "blocked"}
  BY <1>1, Zenon
<1>5. worker' = [worker EXCEPT ![w] = r]
  BY <1>2, Zenon
<1>6. UNCHANGED <<daemon, daemon_awake, lost, idle_count, active_count>>
  BY Zenon DEF thread_call_finish, finish_wakeup, finish_relock
<1> HIDE DEF r
<1> QED
  BY <1>3, <1>4, <1>5, <1>6, PoolSteady, Zenon

\* A function blocks, or goes on.
LEMMA BlockPool ==
    ASSUME FiniteCounts, PoolInv, NEW w \in Workers, sched_call_block(w) \/ sched_call_unblock(w)
    PROVE  PoolInv'
<1> DEFINE g == worker[w].group
<1>1. WorkerShape(worker[w]) /\ g \in GroupSet /\ worker[w].call # None
  BY Zenon DEF PoolInv, WorkerShape, sched_call_block, sched_call_unblock
<1>2. idle_count \in [GroupSet -> Nat] /\ active_count \in [GroupSet -> Nat]
  BY Zenon DEF PoolInv
<1>3. UNCHANGED <<daemon, daemon_awake, lost>>
  BY Zenon DEF sched_call_block, sched_call_unblock
<1>4. idle_count' = [idle_count EXCEPT ![g] = @ + 0]
  BY <1>1, <1>2 DEF sched_call_block, sched_call_unblock
<1>5. CASE sched_call_block(w)
  <2> DEFINE r == [at |-> "blocked", group |-> g, call |-> worker[w].call]
  <2>1. worker' = [worker EXCEPT ![w] = r]
    BY <1>1, <1>5, WorkerAt, Zenon DEF sched_call_block
  <2>2. WorkerShape(r) /\ r.group \in {g, None}
    BY <1>1, Zenon DEF WorkerShape, Places
  <2>3. /\ 0 = Count(r.at = "idle") - Count(worker[w].at = "idle") /\ 0 \in Int /\ -1 \in Int
        /\ -1 = Count(r.at \notin {"idle", "blocked", "none"}) - Count(worker[w].at \notin {"idle", "blocked"})
    BY <1>5 DEF Count, sched_call_block
  <2>4. active_count' = [active_count EXCEPT ![g] = @ + (-1)]
    BY <1>1, <1>2, <1>5, Zenon DEF sched_call_block
  <2> HIDE DEF r
  <2> QED
    BY <1>1, <1>3, <1>4, <2>1, <2>2, <2>3, <2>4, PoolShift, Zenon
<1>6. CASE sched_call_unblock(w)
  <2> DEFINE r == [at |-> "running", group |-> g, call |-> worker[w].call]
  <2>1. worker' = [worker EXCEPT ![w] = r]
    BY <1>1, <1>6, WorkerAt, Zenon DEF sched_call_unblock
  <2>2. WorkerShape(r) /\ r.group \in {g, None}
    BY <1>1, Zenon DEF WorkerShape, Places
  <2>3. /\ 0 = Count(r.at = "idle") - Count(worker[w].at = "idle") /\ 0 \in Int /\ 1 \in Int
        /\ 1 = Count(r.at \notin {"idle", "blocked", "none"}) - Count(worker[w].at \notin {"idle", "blocked"})
    BY <1>6 DEF Count, sched_call_unblock
  <2>4. active_count' = [active_count EXCEPT ![g] = @ + 1]
    BY <1>6, Zenon DEF sched_call_unblock
  <2> HIDE DEF r
  <2> QED
    BY <1>1, <1>3, <1>4, <2>1, <2>2, <2>3, <2>4, PoolShift, Zenon
<1> QED
  BY <1>5, <1>6, Zenon

\* thread_call_dealloc_timer ends an idle worker.
LEMMA RetirePool ==
    ASSUME FiniteCounts, PoolInv, NEW g \in GroupSet, thread_call_dealloc_timer(g)
    PROVE  PoolInv'
<1>1. UNCHANGED <<daemon, daemon_awake, lost>>
  BY Zenon DEF thread_call_dealloc_timer
<1>2. CASE UNCHANGED <<idle_count, worker>>
  BY <1>1, <1>2, PoolSame, Zenon DEF thread_call_dealloc_timer
<1>3. ASSUME NEW w \in Asleep(g), worker' = [worker EXCEPT ![w] = NoWork],
             idle_count' = [idle_count EXCEPT ![g] = @ - 1]
      PROVE  PoolInv'
  <2>1. w \in Workers /\ worker[w].at = "idle" /\ worker[w].group = g
    BY Zenon DEF Asleep
  <2>2. idle_count \in [GroupSet -> Nat] /\ active_count \in [GroupSet -> Nat]
    BY Zenon DEF PoolInv
  <2>3. WorkerShape(NoWork) /\ NoWork.group \in {worker[w].group, None}
    BY Zenon DEF WorkerShape, Places, NoWork
  <2>4. /\ -1 = Count(NoWork.at = "idle") - Count(worker[w].at = "idle") /\ 0 \in Int /\ -1 \in Int
        /\ 0 = Count(NoWork.at \notin {"idle", "blocked", "none"}) - Count(worker[w].at \notin {"idle", "blocked"})
    BY <2>1 DEF Count, NoWork
  <2>5. idle_count' = [idle_count EXCEPT ![worker[w].group] = @ + (-1)]
    BY <1>3, <2>1, <2>2, Zenon
  <2>6. active_count' = [active_count EXCEPT ![worker[w].group] = @ + 0]
    BY <2>1, <2>2 DEF thread_call_dealloc_timer
  <2>7. w \in Workers /\ worker[w].group \in GroupSet
    BY <2>1, Zenon
  <2>8. worker' = [worker EXCEPT ![w] = NoWork]
    BY <1>3, Zenon
  <2> QED
    BY <1>1, <2>3, <2>4, <2>5, <2>6, <2>7, <2>8, PoolShift, Zenon
<1> QED
  BY <1>2, <1>3, Zenon DEF thread_call_dealloc_timer

\* The daemon counts a thread before it makes it.
LEMMA ScanPool ==
    ASSUME FiniteCounts, PoolInv, DaemonScan
    PROVE  PoolInv'
<1>0. Len(Groups) \in Nat /\ DOMAIN Groups = 1 .. Len(Groups) /\ 1 \in DOMAIN Groups
  BY ThreadCallConstants DEF ThreadCallConstants
<1>1. UNCHANGED <<worker, lost, idle_count>> /\ daemon.at = "scan" /\ daemon_awake /\ daemon.i \in DOMAIN Groups
  BY Zenon DEF DaemonScan, PoolInv
<1>2. \A w \in Workers : WorkerShape(worker[w])'
  BY <1>1, Zenon DEF PoolInv, WorkerShape
<1>3. \A g \in GroupSet : Asleep(g)' = Asleep(g) /\ Counted(g)' = Counted(g) /\ Creating(g) = 0
  BY <1>1, Zenon DEF Asleep, Counted, Creating
<1>4. ASSUME NEW j \in daemon.i .. Len(Groups), active_count' = [active_count EXCEPT ![Groups[j]] = @ + 1],
             daemon' = [at |-> "create", i |-> j], daemon_awake' = daemon_awake
      PROVE  PoolInv'
  <2>1. j \in DOMAIN Groups /\ Groups[j] \in GroupSet
    BY <1>0, <1>1 DEF GroupSet
  <2>2. \A g \in GroupSet : Creating(g)' = IF g = Groups[j] THEN 1 ELSE 0
    BY <1>4, Zenon DEF Creating
  <2>3. active_count' \in [GroupSet -> Nat]
        /\ \A g \in GroupSet : active_count'[g] = IF g = Groups[j] THEN active_count[g] + 1 ELSE active_count[g]
    BY <1>4, <2>1 DEF PoolInv
  <2>4. \A g \in GroupSet : /\ active_count[g] = Cardinality(Counted(g)) + Creating(g) + lost[g]
                            /\ active_count[g] \in Nat /\ lost[g] \in Nat
    BY Zenon DEF PoolInv
  <2>5. \A g \in GroupSet : Cardinality(Counted(g)) \in Nat
    BY CountsNat, Zenon
  <2>6. ASSUME NEW g \in GroupSet
        PROVE  active_count'[g] = Cardinality(Counted(g)) + Creating(g)' + lost[g]
    <3>1. PICK n \in Nat : n = Cardinality(Counted(g))
      BY <2>5, Zenon
    <3>2. active_count[g] = n + 0 + lost[g] /\ lost[g] \in Nat
      BY <1>3, <2>4, <3>1, Zenon
    <3>3. /\ Creating(g)' = IF g = Groups[j] THEN 1 ELSE 0
          /\ active_count'[g] = IF g = Groups[j] THEN active_count[g] + 1 ELSE active_count[g]
      BY <2>2, <2>3, Zenon
    <3>4. active_count'[g] = n + Creating(g)' + lost[g]
      BY <3>2, <3>3
    <3> QED
      BY <3>1, <3>4, Zenon
  <2> QED
    BY <1>1, <1>2, <1>3, <1>4, <2>1, <2>3, <2>6 DEF PoolInv
<1>5. ASSUME daemon' = [at |-> "asleep", i |-> 1], daemon_awake' = FALSE, active_count' = active_count
      PROVE  PoolInv'
  <2>1. \A g \in GroupSet : Creating(g)' = 0
    BY <1>5, Zenon DEF Creating
  <2> QED
    BY <1>0, <1>1, <1>2, <1>3, <1>5, <2>1, Zenon DEF PoolInv
<1> QED
  BY <1>4, <1>5, Zenon DEF DaemonScan

\* The thread is there, and takes the place it was counted for.
LEMMA CreatePool ==
    ASSUME FiniteCounts, PoolInv, thread_call_thread_create
    PROVE  PoolInv'
<1>1. PICK w \in Workers : /\ worker[w] = NoWork
                           /\ worker' = [worker EXCEPT ![w] = [at |-> "start", group |-> Groups[daemon.i], call |-> None]]
  BY Zenon DEF thread_call_thread_create
<1>2. PICK g : g = Groups[daemon.i]
  BY Zenon
<1> DEFINE r == [at |-> "start", group |-> g, call |-> None]
<1>3. g \in GroupSet /\ None \notin GroupSet
  BY <1>2, ThreadCallConstants, Zenon DEF ThreadCallConstants, PoolInv, GroupSet
<1>4. /\ daemon.at = "create" /\ daemon' = [at |-> "scan", i |-> daemon.i] /\ daemon.i \in DOMAIN Groups
      /\ UNCHANGED <<idle_count, active_count, daemon_awake, lost>> /\ daemon_awake
  BY Zenon DEF thread_call_thread_create, PoolInv
<1>5. ASSUME NEW h \in GroupSet
      PROVE  /\ Count(IsIdle(worker[w], h)) = 0 /\ Count(IsIdle(r, h)) = 0
             /\ Count(IsCounted(worker[w], h)) = 0
             /\ Count(IsCounted(r, h)) = (IF h = g THEN 1 ELSE 0)
             /\ Creating(h)' = 0 /\ Creating(h) = (IF h = g THEN 1 ELSE 0)
  BY <1>1, <1>2, <1>3, <1>4 DEF Count, IsIdle, IsCounted, Creating, NoWork
<1>6. WorkerShape(r)
  BY <1>3, Zenon DEF WorkerShape, Places
<1>7. worker' = [worker EXCEPT ![w] = r]
  BY <1>1, <1>2, Zenon
<1> HIDE DEF r
<1>8. \A h \in GroupSet : idle_count[h] \in Nat /\ active_count[h] \in Nat
  BY Zenon DEF PoolInv
<1>9. \A h \in GroupSet :
         /\ idle_count'[h] = idle_count[h] - Count(IsIdle(worker[w], h)) + Count(IsIdle(r, h))
         /\ active_count'[h] = active_count[h] - Count(IsCounted(worker[w], h)) + Count(IsCounted(r, h))
                                  - Creating(h) + Creating(h)'
  BY <1>4, <1>5, <1>8
<1>10. /\ idle_count' = [h \in GroupSet |-> idle_count'[h]]
       /\ active_count' = [h \in GroupSet |-> active_count'[h]]
  BY <1>4, Zenon DEF PoolInv
<1>11. /\ daemon' \in [at : {"scan", "create", "asleep"}, i : DOMAIN Groups]
       /\ daemon'.at # "asleep" => daemon_awake
  BY <1>4, Zenon
<1>12. UNCHANGED <<daemon_awake, lost>>
  BY <1>4, Zenon
<1> QED
  BY <1>6, <1>7, <1>9, <1>10, <1>11, <1>12, PoolMove, Zenon

\* The thread could not be made, and stays counted.
LEMMA FailPool ==
    ASSUME FiniteCounts, PoolInv, CreateFails
    PROVE  PoolInv'
<1> DEFINE g == Groups[daemon.i]
<1>0. 1 \in DOMAIN Groups
  BY ThreadCallConstants DEF ThreadCallConstants
<1>1. g \in GroupSet
  BY Zenon DEF PoolInv, GroupSet
<1>2. /\ UNCHANGED <<worker, idle_count, active_count>> /\ daemon.at = "create"
      /\ daemon' = [at |-> "asleep", i |-> 1] /\ daemon_awake' = FALSE
      /\ lost' = [lost EXCEPT ![g] = @ + 1]
  BY Zenon DEF CreateFails
<1>3. \A w \in Workers : WorkerShape(worker[w])'
  BY <1>2, Zenon DEF PoolInv, WorkerShape
<1>4. \A h \in GroupSet : /\ Asleep(h)' = Asleep(h) /\ Counted(h)' = Counted(h)
                          /\ Creating(h) = (IF h = g THEN 1 ELSE 0) /\ Creating(h)' = 0
  BY <1>2, Zenon DEF Asleep, Counted, Creating
<1>5. /\ lost' \in [GroupSet -> Nat]
      /\ \A h \in GroupSet : lost'[h] = IF h = g THEN lost[h] + 1 ELSE lost[h]
  BY <1>1, <1>2 DEF PoolInv
<1>6. \A h \in GroupSet : /\ active_count[h] = Cardinality(Counted(h)) + Creating(h) + lost[h]
                          /\ lost[h] \in Nat /\ Cardinality(Counted(h)) \in Nat
  BY CountsNat, Zenon DEF PoolInv
<1> HIDE DEF g
<1>7. \A h \in GroupSet : active_count[h] = Cardinality(Counted(h)) + Creating(h)' + lost'[h]
  BY <1>4, <1>5, <1>6
<1> QED
  BY <1>0, <1>2, <1>3, <1>4, <1>5, <1>7, Zenon DEF PoolInv

\* Entering a call wakes a worker or the daemon, which the counts follow.
LEMMA EnqueuePool ==
    ASSUME FiniteCounts, PoolInv, NEW c \in Calls, pending_call_enqueue(c)
    PROVE  PoolInv'
<1>1. group_of[c] \in GroupSet
  BY ThreadCallConstants, Zenon DEF ThreadCallConstants
<1>2. thread_call_wake(group_of[c], pending_count[group_of[c]] + 1)
  BY Zenon DEF pending_call_enqueue
<1> QED
  BY <1>1, <1>2, WakePool, Zenon

\* Every step keeps the counts of the groups exact.
LEMMA PoolStep ==
    ASSUME FiniteCounts, IInv, [Next]_vars
    PROVE  PoolInv'
<1> QueueInv /\ PoolInv
  BY Zenon DEF IInv
<1>1. ASSUME NEW c \in Calls, thread_call_enter(c) PROVE PoolInv'
  BY <1>1, EnqueuePool, Zenon DEF thread_call_enter
<1>2. ASSUME NEW c, NEW d, thread_call_enter_delayed(c, d) \/ thread_call_func_delayed(c, d)
      PROVE  PoolInv'
  BY <1>2, PoolSame, Zenon DEF thread_call_enter_delayed, thread_call_func_delayed, delayed_call_enqueue, poolVars
<1>3. ASSUME NEW c, NEW all, thread_call_cancel(c) \/ thread_call_func_cancel(c, all) PROVE PoolInv'
  <2>1. UNCHANGED poolVars
    BY <1>3, Zenon DEF thread_call_cancel, thread_call_func_cancel
  <2> QED
    BY <2>1, PoolSame, Zenon DEF poolVars
<1>4. ASSUME NEW c, NEW k,
             thread_call_cancel_wait(k, c) \/ thread_call_free(c) \/ thread_call_allocate(c)
      PROVE  PoolInv'
  <2>1. UNCHANGED poolVars
    BY <1>4, Zenon DEF thread_call_cancel_wait, thread_call_free, thread_call_allocate
  <2> QED
    BY <2>1, PoolSame, Zenon DEF poolVars
<1>5. ASSUME NEW g \in GroupSet, rescan_due(g) PROVE PoolInv'
  <2>1. PICK i \in DOMAIN delayed[g] : pending_call_enqueue(delayed[g][i])
    BY <1>5, Zenon DEF rescan_due
  <2>2. delayed[g][i] \in Range(delayed[g])
    BY Zenon DEF Range
  <2>3. delayed[g][i] \in Calls
    BY <2>2, Zenon DEF QueueInv, QueuesExact
  <2> QED
    BY <2>1, <2>3, EnqueuePool, Zenon
<1>6. ASSUME NEW g \in GroupSet, rescan_resort(g) \/ rescan_ends(g) PROVE PoolInv'
  <2>1. UNCHANGED poolVars
    BY <1>6, Zenon DEF rescan_resort, rescan_ends
  <2> QED
    BY <2>1, PoolSame, Zenon DEF poolVars
<1>7. ASSUME NEW g \in GroupSet, sched_call_wake(g) PROVE PoolInv'
  BY <1>7, WakePool, Zenon DEF sched_call_wake
<1>8. ASSUME NEW k, WaitStep(k) PROVE PoolInv'
  <2>1. UNCHANGED poolVars
    BY <1>8, Zenon DEF WaitStep, thread_call_wait_locked, cancel_wait_returns
  <2> QED
    BY <2>1, PoolSame, Zenon DEF poolVars
<1>9. ASSUME NEW w \in Workers, WorkerStep(w) PROVE PoolInv'
  <2>1. CASE WorkerLoop(w)
    <3>1. worker[w].at \in {"start", "loop"}
      BY <2>1, Zenon DEF WorkerLoop
    <3>2. CASE TakeCall(w)
      BY <3>1, <3>2, TakePool, Zenon
    <3>3. CASE GoIdle(w)
      BY <3>1, <3>3, IdlePool, Zenon
    <3> QED
      BY <2>1, <3>2, <3>3, Zenon DEF WorkerLoop
  <2>2. CASE thread_call_finish(w) \/ finish_wakeup(w) \/ finish_relock(w)
    BY <2>2, FinishPool, Zenon
  <2>3. CASE sched_call_block(w) \/ sched_call_unblock(w)
    BY <2>3, BlockPool, Zenon
  <2> QED
    BY <1>9, <2>1, <2>2, <2>3, Zenon DEF WorkerStep
<1>10. ASSUME DaemonStep PROVE PoolInv'
  BY <1>10, ScanPool, CreatePool, FailPool, Zenon DEF DaemonStep
<1>11. ASSUME NEW g \in GroupSet, thread_call_delayed_timer(g) PROVE PoolInv'
  <2>1. CASE delayed[g] # <<>> /\ pending_call_enqueue(Head(delayed[g]))
    <3>1. Head(delayed[g]) \in Range(delayed[g])
      BY <2>1, TailQueue, Zenon DEF QueueInv, QueuesExact
    <3>2. Head(delayed[g]) \in Calls
      BY <3>1, Zenon DEF QueueInv, QueuesExact
    <3> QED
      BY <2>1, <3>2, EnqueuePool, Zenon
  <2>2. CASE UNCHANGED poolVars
    BY <2>2, PoolSame, Zenon DEF poolVars
  <2> QED
    BY <1>11, <2>1, <2>2, Zenon DEF thread_call_delayed_timer
<1>12. ASSUME NEW g \in GroupSet, DelayedTimerExpires(g) \/ DeallocStep(g) PROVE PoolInv'
  <2>1. CASE UNCHANGED poolVars
    BY <2>1, PoolSame, Zenon DEF poolVars
  <2>2. CASE thread_call_dealloc_timer(g)
    BY <2>2, RetirePool, Zenon
  <2> QED
    BY <1>12, <2>1, <2>2, Zenon DEF DelayedTimerExpires, DeallocStep, DeallocTimerExpires
<1>13. ASSUME Tick \/ PanicStep \/ UNCHANGED vars PROVE PoolInv'
  <2>1. UNCHANGED poolVars
    BY <1>13, PanicQuiet, Zenon DEF Tick, vars
  <2> QED
    BY <2>1, PoolSame, Zenon DEF poolVars
<1> QED
  <2>1. CASE ClientStep
    BY <1>1, <1>2, <1>3, <1>4, <1>5, <1>6, <1>7, <2>1, Zenon DEF ClientStep
  <2>2. ASSUME NEW g \in GroupSet, TimerStep(g) \/ DeallocStep(g) PROVE PoolInv'
    BY <1>11, <1>12, <2>2, Zenon DEF TimerStep
  <2> QED
    BY <1>8, <1>9, <1>10, <1>13, <2>1, <2>2, Zenon DEF Next
-----------------------------------------------------------------------------
(* The calls. *)

\* Nothing in flight changes, for one call and for all.
SameRun(c) == Running(c)' = Running(c) /\ (Leaving(c) => Leaving(c)')
SameRuns == \A c \in Calls : SameRun(c)

\* Steps that move no worker leave every call with its functions in flight.
LEMMA RunSame ==
    ASSUME worker' = worker
    PROVE  SameRuns
  BY Zenon DEF SameRuns, SameRun, Running, Leaving

\* A worker moves that has no call, or stays with it.
LEMMA RunMove ==
    ASSUME PoolInv, NEW w \in Workers, NEW r, worker' = [worker EXCEPT ![w] = r],
           \/ worker[w].call = None /\ r.call = None
           \/ /\ r.call = worker[w].call
              /\ \/ worker[w].at \in {"running", "blocked"} /\ r.at \in {"running", "blocked"}
                 \/ worker[w].at \in {"wakeup", "relock"} /\ r.at \in {"wakeup", "relock"}
    PROVE  SameRuns
<1> SUFFICES ASSUME NEW c \in Calls PROVE SameRun(c)
  BY Zenon DEF SameRuns
<1>1. \A v \in Workers : worker'[v] = IF v = w THEN r ELSE worker[v]
  BY Zenon DEF PoolInv
<1>2. None \notin Calls
  BY ThreadCallConstants, Zenon DEF ThreadCallConstants
<1>3. Running(c)' = Running(c)
  BY <1>1, <1>2 DEF Running
<1>4. ASSUME Leaving(c) PROVE Leaving(c)'
  <2>1. PICK v \in Workers : worker[v].call = c /\ worker[v].at \in {"wakeup", "relock"}
    BY <1>4, Zenon DEF Leaving
  <2>2. worker'[v].call = c /\ worker'[v].at \in {"wakeup", "relock"}
    BY <1>1, <1>2, <2>1, Zenon
  <2> QED
    BY <2>2, Zenon DEF Leaving
<1> QED
  BY <1>3, <1>4, Zenon DEF SameRun

\* The worker that thread_call_wake wakes has no call.
LEMMA WakeRuns ==
    ASSUME PoolInv, NEW g \in GroupSet, NEW p, thread_call_wake(g, p)
    PROVE  SameRuns
<1>1. CASE worker' = worker
  BY <1>1, RunSame, Zenon
<1>2. ASSUME NEW w \in Asleep(g), worker' = [worker EXCEPT ![w].at = "start"] PROVE SameRuns
  <2>1. w \in Workers /\ worker[w].at = "idle" /\ WorkerShape(worker[w]) /\ worker[w].call = None
    BY Zenon DEF Asleep, PoolInv, WorkerShape
  <2>2. worker' = [worker EXCEPT ![w] = [at |-> "start", group |-> worker[w].group, call |-> worker[w].call]]
    BY <1>2, <2>1, WorkerAt, Zenon
  <2> QED
    BY <2>1, <2>2, RunMove, Zenon
<1> QED
  BY <1>1, <1>2, Zenon DEF thread_call_wake, poolVars

\* What a call can be taken not to notice.
SameCall(c) ==
    /\ refs'[c] = refs[c] /\ behind'[c] = behind[c] /\ live'[c] = live[c] /\ owned'[c] = owned[c]
    /\ (queue'[c] = "none") <=> (queue[c] = "none")
    /\ SameRun(c)

\* What is said of a call depends on its own state and its functions in flight.
LEMMA CallSame ==
    ASSUME NEW c \in Calls, CallSound(c), SameCall(c)
    PROVE  CallSound(c)'
  BY Zenon DEF CallSound, SameCall, SameRun, Count

CallTypes ==
    /\ refs \in [Calls -> Nat] /\ behind \in [Calls -> Int]
    /\ live \in [Calls -> BOOLEAN] /\ owned \in [Calls -> BOOLEAN]

\* One call changes.
LEMMA CallChange ==
    ASSUME CallInv, NEW c \in Calls, CallTypes', CallSound(c)',
           \A b \in Calls \ {c} : SameCall(b)
    PROVE  CallInv'
<1>1. ASSUME NEW b \in Calls PROVE CallSound(b)'
  <2>1. CASE b = c
    BY <2>1, Zenon
  <2>2. CASE b # c
    BY <2>2, CallSame, Zenon DEF CallInv
  <2> QED
    BY <2>1, <2>2, Zenon
<1> QED
  BY <1>1, Zenon DEF CallInv, CallTypes

\* No call changes.
LEMMA CallsSame ==
    ASSUME CallInv, QueueInv, UNCHANGED <<refs, behind, live, owned>>, SameRuns,
           \A b \in Calls : (queue'[b] = "none") <=> (queue[b] = "none")
    PROVE  CallInv'
<1>1. ASSUME NEW b \in Calls PROVE CallSound(b)'
  <2>1. SameCall(b)
    BY Zenon DEF SameCall, SameRuns
  <2> QED
    BY <2>1, CallSame, Zenon DEF CallInv
<1> QED
  BY <1>1, Zenon DEF CallInv

\* A call that its client owns is put on a queue: thread_call_enter and its kin.
LEMMA SubmitCall ==
    ASSUME FiniteCounts, CallInv, QueueInv, NEW c \in Calls, owned[c], NEW q \in {"pending", "delayed"},
           queue' = [queue EXCEPT ![c] = q],
           behind' = IF queue[c] = "none" THEN Submitted(c) ELSE behind,
           UNCHANGED <<refs, live, owned>>, SameRuns
    PROVE  CallInv'
<1>1. behind' \in [Calls -> Int] /\ queue' \in [Calls -> {"none", "pending", "delayed"}] /\ queue'[c] # "none"
  BY DEF CallInv, QueueInv, Submitted
<1>2. ASSUME NEW b \in Calls \ {c} PROVE SameCall(b)
  BY <1>2, Zenon DEF SameCall, SameRuns, Submitted, CallInv, QueueInv
<1>3. CallSound(c)'
  <2>1. CallSound(c) /\ SameRun(c)
    BY Zenon DEF CallInv, SameRuns
  <2>2. ASSUME c \in Alloc
        PROVE  live[c] /\ behind'[c] = Cardinality(Running(c)) + 1 /\ Cardinality(Running(c)) \in Nat
    <3>1. /\ live[c] /\ behind[c] = Cardinality(Running(c)) + Count(queue[c] # "none")
          /\ Cardinality(Running(c)) \in Nat
      BY <2>1, <2>2, CountsNat, Zenon DEF CallSound
    <3>2. behind'[c] = IF queue[c] = "none" THEN behind[c] + 1 ELSE behind[c]
      BY <2>2, Zenon DEF Submitted, CallInv
    <3> QED
      BY <3>1, <3>2 DEF Count
  <2> QED
    BY <1>1, <2>1, <2>2, Zenon DEF CallSound, SameRun, Count
<1>4. CallTypes'
  BY <1>1, Zenon DEF CallInv, CallTypes
<1> QED
  BY <1>2, <1>3, <1>4, CallChange, Zenon

\* A call leaves its queue without being run: thread_call_cancel and its kin.
LEMMA RetireCall ==
    ASSUME FiniteCounts, CallInv, QueueInv, NEW c \in Calls, queue[c] # "none", owned[c],
           queue' = [queue EXCEPT ![c] = "none"], behind' = Retired(c),
           UNCHANGED <<refs, live, owned>>, SameRuns
    PROVE  CallInv'
<1>1. behind' \in [Calls -> Int] /\ queue'[c] = "none"
  BY DEF CallInv, QueueInv, Retired
<1>2. ASSUME NEW b \in Calls \ {c} PROVE SameCall(b)
  BY <1>2, Zenon DEF SameCall, SameRuns, Retired, CallInv, QueueInv
<1>3. CallSound(c)'
  <2>1. CallSound(c) /\ SameRun(c)
    BY Zenon DEF CallInv, SameRuns
  <2>2. ASSUME c \in Alloc
        PROVE  live[c] /\ behind'[c] = Cardinality(Running(c)) + 0 /\ Cardinality(Running(c)) \in Nat
    <3>1. /\ live[c] /\ behind[c] = Cardinality(Running(c)) + 1
          /\ Cardinality(Running(c)) \in Nat
      BY <2>1, <2>2, CountsNat, Zenon DEF CallSound, Count
    <3>2. behind'[c] = behind[c] - 1
      BY <2>2, Zenon DEF Retired, CallInv
    <3> QED
      BY <3>1, <3>2
  <2> QED
    BY <1>1, <2>1, <2>2, Zenon DEF CallSound, SameRun, Count
<1>4. CallTypes'
  BY <1>1, Zenon DEF CallInv, CallTypes
<1> QED
  BY <1>2, <1>3, <1>4, CallChange, Zenon

\* An internal entry comes into use, or goes out of use.
LEMMA InternalCall ==
    ASSUME CallInv, QueueInv, NEW c \in Internal, NEW b \in BOOLEAN, NEW q \in {"none", "delayed"}, b <=> q # "none",
           queue' = [queue EXCEPT ![c] = q], live' = [live EXCEPT ![c] = b], UNCHANGED <<refs, behind, owned>>,
           SameRuns
    PROVE  CallInv'
<1>1. c \in Calls /\ c \notin Alloc
  BY ThreadCallConstants, Zenon DEF ThreadCallConstants, Calls
<1>2. ASSUME NEW d \in Calls \ {c} PROVE SameCall(d)
  BY <1>1, <1>2, Zenon DEF SameCall, SameRuns, CallInv, QueueInv
<1>3. live' \in [Calls -> BOOLEAN] /\ live'[c] = b /\ queue'[c] = q
  BY <1>1, Zenon DEF CallInv, QueueInv
<1>4. CallSound(c)'
  BY <1>1, <1>3, Zenon DEF CallInv, CallSound
<1>5. CallTypes'
  BY <1>3, Zenon DEF CallInv, CallTypes
<1> QED
  BY <1>1, <1>2, <1>4, <1>5, CallChange, Zenon

\* thread_call_free and thread_call_allocate.
LEMMA FreeCall ==
    ASSUME FiniteCounts, CallInv, QueueInv, NEW c \in Calls, thread_call_free(c)
    PROVE  CallInv'
<1>1. /\ owned[c] /\ queue[c] = "none" /\ worker' = worker
      /\ refs' = [refs EXCEPT ![c] = @ - 1] /\ owned' = [owned EXCEPT ![c] = FALSE]
      /\ live' = [live EXCEPT ![c] = refs[c] # 1] /\ UNCHANGED <<queue, behind>>
  BY Zenon DEF thread_call_free, May, poolVars
<1>2. SameRuns
  BY <1>1, RunSame, Zenon
<1>3. c \in Alloc
  <2>1. c \notin Internal
    BY <1>1, Zenon DEF CallInv, CallSound
  <2>2. c \notin Setup
    BY ThreadCallConstants, Zenon DEF ThreadCallConstants, thread_call_free, May
  <2> QED
    BY <2>1, <2>2, Zenon DEF Calls
<1>4. /\ CallSound(c) /\ SameRun(c) /\ refs[c] \in Nat
      /\ refs[c] = Cardinality(Running(c)) + 1 /\ Cardinality(Running(c)) \in Nat
  BY <1>1, <1>2, <1>3, CountsNat, Zenon DEF CallInv, CallSound, SameRuns, Count
<1>5. /\ refs'[c] = Cardinality(Running(c)) /\ owned'[c] = FALSE /\ live'[c] = (refs'[c] # 0) /\ live[c]
      /\ behind'[c] = behind[c] /\ queue'[c] = "none"
  BY <1>1, <1>3, <1>4 DEF CallInv, CallSound
<1>6. refs' \in [Calls -> Nat] /\ owned' \in [Calls -> BOOLEAN] /\ live' \in [Calls -> BOOLEAN]
  BY <1>1, <1>4 DEF CallInv
<1>7. ASSUME NEW b \in Calls \ {c} PROVE SameCall(b)
  BY <1>1, <1>2, <1>7, Zenon DEF SameCall, SameRuns, CallInv, QueueInv
<1>8. behind[c] = Cardinality(Running(c))
  BY <1>1, <1>3, <1>4, <1>5 DEF CallSound, Count
<1>9. Running(c)' = Running(c)
  BY <1>4, Zenon DEF SameRun
<1>10. CallSound(c)'
  <2>1. /\ refs'[c] = Cardinality(Running(c)') + Count(owned'[c])
        /\ refs'[c] > 0 => live'[c]
        /\ ~(live'[c] /\ refs'[c] = 0)
        /\ behind'[c] = Cardinality(Running(c)') + Count(queue'[c] # "none")
    <3>1. Count(owned'[c]) = 0 /\ Count(queue'[c] # "none") = 0
      BY <1>5, Zenon DEF Count
    <3>2. refs'[c] = Cardinality(Running(c)) /\ behind'[c] = Cardinality(Running(c)) /\ (refs'[c] > 0 => refs'[c] # 0)
      BY <1>4, <1>5, <1>8
    <3>3. refs'[c] # 0 <=> live'[c]
      BY <1>5, Zenon
    <3>4. /\ refs'[c] = Cardinality(Running(c)') + Count(owned'[c])
          /\ behind'[c] = Cardinality(Running(c)') + Count(queue'[c] # "none")
      BY <1>4, <1>9, <3>1, <3>2
    <3> QED
      BY <3>2, <3>3, <3>4, Zenon
  <2>2. c \notin Internal
    BY <1>1, Zenon DEF CallInv, CallSound
  <2> QED
    BY <1>5, <2>1, <2>2, Zenon DEF CallSound
<1>11. CallTypes'
  BY <1>1, <1>6, Zenon DEF CallInv, CallTypes
<1> QED
  BY <1>7, <1>10, <1>11, CallChange, Zenon

\* thread_call_allocate hands out storage nobody uses, with one reference.
LEMMA AllocateCall ==
    ASSUME FiniteCounts, CallInv, QueueInv, NEW c \in Calls, thread_call_allocate(c)
    PROVE  CallInv'
<1>1. /\ c \in Alloc /\ ~live[c] /\ worker' = worker
      /\ refs' = [refs EXCEPT ![c] = 1] /\ owned' = [owned EXCEPT ![c] = TRUE]
      /\ live' = [live EXCEPT ![c] = TRUE] /\ behind' = [behind EXCEPT ![c] = 0] /\ UNCHANGED queue
  BY Zenon DEF thread_call_allocate, poolVars
<1>2. SameRuns
  BY <1>1, RunSame, Zenon
<1>3. /\ CallSound(c) /\ SameRun(c) /\ refs[c] \in Nat
      /\ refs[c] = Cardinality(Running(c)) + Count(owned[c]) /\ Cardinality(Running(c)) \in Nat
      /\ ~(refs[c] > 0) /\ queue[c] = "none"
  BY <1>1, <1>2, CountsNat, Zenon DEF CallInv, CallSound, SameRuns
<1>4. Cardinality(Running(c)') = 0
  BY <1>3 DEF SameRun, Count
<1>5. /\ refs'[c] = 1 /\ owned'[c] = TRUE /\ live'[c] = TRUE /\ behind'[c] = 0 /\ queue'[c] = "none"
      /\ refs' \in [Calls -> Nat] /\ owned' \in [Calls -> BOOLEAN] /\ live' \in [Calls -> BOOLEAN]
      /\ behind' \in [Calls -> Int]
  BY <1>1, <1>3 DEF CallInv
<1>6. ASSUME NEW b \in Calls \ {c} PROVE SameCall(b)
  BY <1>1, <1>2, <1>6, Zenon DEF SameCall, SameRuns, CallInv, QueueInv
<1>7. c \notin Internal
  BY <1>1, ThreadCallConstants, Zenon DEF ThreadCallConstants
<1>8. CallSound(c)'
  BY <1>4, <1>5, <1>7 DEF CallSound, Count
<1>9. CallTypes'
  BY <1>5, Zenon DEF CallTypes
<1> QED
  BY <1>6, <1>8, <1>9, CallChange, Zenon

\* What a worker does with its call says nothing of other calls.
LEMMA OtherRuns ==
    ASSUME PoolInv, NEW w \in Workers, NEW r, worker' = [worker EXCEPT ![w] = r], NEW b \in Calls,
           worker[w].call # b, r.call # b
    PROVE  SameRun(b)
<1>1. \A v \in Workers : worker'[v] = IF v = w THEN r ELSE worker[v]
  BY Zenon DEF PoolInv
<1>2. Running(b)' = Running(b)
  BY <1>1, Zenon DEF Running
<1>3. ASSUME Leaving(b) PROVE Leaving(b)'
  <2>1. PICK v \in Workers : worker[v].call = b /\ worker[v].at \in {"wakeup", "relock"}
    BY <1>3, Zenon DEF Leaving
  <2>2. worker'[v].call = b /\ worker'[v].at \in {"wakeup", "relock"}
    BY <1>1, <2>1, Zenon
  <2> QED
    BY <2>2, Zenon DEF Leaving
<1> QED
  BY <1>2, <1>3, Zenon DEF SameRun

\* A worker takes a call: one function more in flight, one queue entry less.
LEMMA TakeRuns ==
    ASSUME FiniteCounts, CallInv, QueueInv, PoolInv, NEW w \in Workers, worker[w].at \in {"start", "loop"}, TakeCall(w)
    PROVE  CallInv'
<1>1. worker[w].group \in GroupSet /\ worker[w].call = None
  BY Zenon DEF PoolInv, WorkerShape
<1>2. PICK c : c = Head(pending[worker[w].group])
  BY Zenon
<1>3. c \in Calls /\ queue[c] = "pending" /\ None \notin Calls
  BY <1>1, <1>2, TakesPending, ThreadCallConstants, Zenon DEF ThreadCallConstants
<1>4. /\ queue' = [queue EXCEPT ![c] = "none"]
      /\ live' = [live EXCEPT ![c] = @ /\ c \notin Internal]
      /\ refs' = [refs EXCEPT ![c] = IF c \in Alloc THEN @ + 1 ELSE @]
      /\ UNCHANGED <<behind, owned>>
      /\ worker' = Moved(w, "running", c)
  BY <1>2, Zenon DEF TakeCall
<1> DEFINE r == [at |-> "running", group |-> worker[w].group, call |-> c]
<1>5. worker' = [worker EXCEPT ![w] = r]
  BY <1>4, Zenon DEF Moved
<1>6. r.call = c /\ r.at = "running"
  BY Zenon
<1> HIDE DEF r
<1>7. ASSUME NEW b \in Calls \ {c} PROVE SameCall(b)
  <2>1. SameRun(b)
    BY <1>1, <1>3, <1>5, <1>6, <1>7, OtherRuns, Zenon
  <2> QED
    BY <1>4, <1>7, <2>1, Zenon DEF SameCall, CallInv, QueueInv
<1>8. /\ refs' \in [Calls -> Nat] /\ live' \in [Calls -> BOOLEAN]
      /\ refs'[c] = (IF c \in Alloc THEN refs[c] + 1 ELSE refs[c])
      /\ live'[c] = (live[c] /\ c \notin Internal)
      /\ queue'[c] = "none" /\ behind'[c] = behind[c] /\ owned'[c] = owned[c]
  BY <1>3, <1>4 DEF CallInv, QueueInv
<1>9. Cardinality(Running(c)) \in Nat /\ Cardinality(Running(c)') = Cardinality(Running(c)) + 1
  <2>1. worker = [v \in Workers |-> worker[v]]
    BY Zenon DEF PoolInv
  <2>2. Count(IsRunning(worker[w], c)) = 0 /\ Count(IsRunning(r, c)) = 1
    BY <1>1, <1>3, <1>6, Zenon DEF Count, IsRunning
  <2>3. /\ Cardinality(Running(c)) \in Nat
        /\ Cardinality(Running(c)') =
              Cardinality(Running(c)) - Count(IsRunning(worker[w], c)) + Count(IsRunning(r, c))
    BY <1>5, <2>1, WorkerMoves, Zenon
  <2> QED
    BY <2>2, <2>3
<1>10. CallSound(c) /\ live[c] /\ refs[c] \in Nat
  BY <1>3, Zenon DEF CallInv, CallSound
<1>11. CallSound(c)'
  <2>1. ASSUME c \in Alloc
        PROVE  /\ refs'[c] = Cardinality(Running(c)') + Count(owned'[c]) /\ refs'[c] > 0 /\ live'[c]
               /\ behind'[c] = Cardinality(Running(c)') + 0
    <3>1. c \notin Internal
      BY <2>1, ThreadCallConstants, Zenon DEF ThreadCallConstants
    <3>2. /\ refs[c] = Cardinality(Running(c)) + Count(owned[c])
          /\ behind[c] = Cardinality(Running(c)) + 1
      BY <1>3, <1>10, <2>1, Zenon DEF CallSound, Count
    <3>3. live'[c]
      BY <1>8, <1>10, <3>1, Zenon
    <3>4. refs'[c] = refs[c] + 1 /\ behind'[c] = behind[c] /\ owned'[c] = owned[c]
      BY <1>8, <2>1, Zenon
    <3>5. Count(owned[c]) \in Nat
      BY Zenon DEF Count
    <3>6. /\ refs'[c] = Cardinality(Running(c)') + Count(owned[c]) /\ refs'[c] > 0
          /\ behind'[c] = Cardinality(Running(c)') + 0
      BY <1>9, <1>10, <3>2, <3>4, <3>5
    <3> QED
      BY <3>3, <3>4, <3>6, Zenon
  <2>2. ASSUME owned[c] PROVE live'[c] /\ c \notin Internal
    BY <1>8, <1>10, <2>2, Zenon DEF CallSound
  <2>3. ASSUME c \in Internal PROVE ~live'[c]
    BY <1>8, <2>3, Zenon
  <2> QED
    BY <1>8, <1>9, <2>1, <2>2, <2>3 DEF CallSound, Count
<1>12. CallTypes'
  BY <1>4, <1>8, Zenon DEF CallInv, CallTypes
<1> QED
  BY <1>3, <1>7, <1>11, <1>12, CallChange, Zenon

\* A function returns, up to the wakeup: one function less in flight.
LEMMA FinishRuns ==
    ASSUME FiniteCounts, CallInv, QueueInv, PoolInv, NEW w \in Workers, thread_call_finish(w), worker[w].call \in Alloc
    PROVE  CallInv'
<1>1. PICK c : c = worker[w].call
  BY Zenon
<1>2. c \in Calls /\ c \in Alloc /\ c \notin Internal /\ None \notin Calls
  BY <1>1, ThreadCallConstants, Zenon DEF Calls, ThreadCallConstants
<1>3. worker[w].at = "running" /\ WorkerShape(worker[w])
  BY Zenon DEF thread_call_finish, PoolInv
<1>4. /\ behind' = Retired(c) /\ refs' = [refs EXCEPT ![c] = @ - 1] /\ UNCHANGED <<queue, owned>>
      /\ \/ worker' = [worker EXCEPT ![w].at = "wakeup"] /\ live' = live
         \/ /\ live' = [live EXCEPT ![c] = refs[c] # 1]
            /\ worker' = Moved(w, IF refs[c] = 1 THEN "start" ELSE "loop", None)
  BY <1>1, Zenon DEF thread_call_finish
<1>5. /\ CallSound(c) /\ refs[c] \in Nat /\ Cardinality(Running(c)) \in Nat /\ Cardinality(Running(c)) > 0
      /\ refs[c] = Cardinality(Running(c)) + Count(owned[c]) /\ live[c]
      /\ behind[c] = Cardinality(Running(c)) + Count(queue[c] # "none")
  <2>1. worker = [v \in Workers |-> worker[v]] /\ IsRunning(worker[w], c)
    BY <1>1, <1>3, Zenon DEF PoolInv, IsRunning
  <2>2. w \in Running(c)
    BY <2>1, Zenon DEF Running, IsRunning
  <2>3. Running(c) \in SUBSET Workers
    BY Zenon DEF Running
  <2>4. Cardinality(Running(c)) \in Nat /\ Cardinality(Running(c)) # 0
    <3>1. Running(c) \in {Running(c) \cup {w}, Running(c) \ {w}}
      BY <2>2, Zenon
    <3> QED
      BY <2>2, <2>3, <3>1, CountOne
  <2>5. CallSound(c) /\ refs[c] \in Nat /\ refs[c] = Cardinality(Running(c)) + Count(owned[c])
    BY <1>2, Zenon DEF CallInv, CallSound
  <2>6. Cardinality(Running(c)) > 0 /\ refs[c] > 0
    BY <2>4, <2>5 DEF Count
  <2>7. live[c] /\ behind[c] = Cardinality(Running(c)) + Count(queue[c] # "none")
    BY <1>2, <2>5, <2>6, Zenon DEF CallSound
  <2> QED
    BY <2>4, <2>5, <2>6, <2>7, Zenon
<1>6. /\ refs'[c] = refs[c] - 1 /\ behind'[c] = behind[c] - 1
      /\ refs' \in [Calls -> Nat] /\ behind' \in [Calls -> Int]
  BY <1>2, <1>4, <1>5 DEF CallInv, Retired, Count
<1>7. live' \in [Calls -> BOOLEAN] /\ \A b \in Calls \ {c} : live'[b] = live[b]
  BY <1>4, Zenon DEF CallInv
<1>8. PICK r : /\ worker' = [worker EXCEPT ![w] = r]
               /\ \/ r.at = "wakeup" /\ r.call = c /\ live'[c] = live[c]
                  \/ r.at \in {"start", "loop"} /\ r.call = None /\ live'[c] = (refs[c] # 1)
  <2>1. CASE worker' = [worker EXCEPT ![w].at = "wakeup"] /\ live' = live
    <3>1. worker' = [worker EXCEPT ![w] = [at |-> "wakeup", group |-> worker[w].group, call |-> worker[w].call]]
      BY <1>3, <2>1, WorkerAt, Zenon
    <3> QED
      BY <1>1, <2>1, <3>1, Zenon
  <2>2. CASE /\ live' = [live EXCEPT ![c] = refs[c] # 1]
             /\ worker' = Moved(w, IF refs[c] = 1 THEN "start" ELSE "loop", None)
    <3> DEFINE a == IF refs[c] = 1 THEN "start" ELSE "loop"
    <3>1. worker' = [worker EXCEPT ![w] = [at |-> a, group |-> worker[w].group, call |-> None]]
      BY <2>2, Zenon DEF Moved
    <3>2. live'[c] = (refs[c] # 1) /\ a \in {"start", "loop"}
      BY <1>2, <2>2, Zenon DEF CallInv
    <3> HIDE DEF a
    <3>3. PICK r : r = [at |-> a, group |-> worker[w].group, call |-> None]
      BY Zenon
    <3>4. r.at = a /\ r.call = None
      BY <3>3, Zenon
    <3>5. worker' = [worker EXCEPT ![w] = r]
      BY <3>1, <3>3, Zenon
    <3> QED
      BY <3>2, <3>4, <3>5, Zenon
  <2> QED
    BY <1>4, <2>1, <2>2, Zenon
<1>9. ASSUME NEW b \in Calls \ {c} PROVE SameCall(b)
  <2>1. SameRun(b)
    BY <1>1, <1>2, <1>8, <1>9, OtherRuns, Zenon
  <2>2. refs'[b] = refs[b] /\ behind'[b] = behind[b] /\ live'[b] = live[b] /\ owned'[b] = owned[b] /\ queue'[b] = queue[b]
    BY <1>2, <1>4, <1>7, <1>9, Zenon DEF CallInv, Retired
  <2> QED
    BY <2>1, <2>2, Zenon DEF SameCall
<1>10. Cardinality(Running(c)') = Cardinality(Running(c)) - 1
  <2>1. worker = [v \in Workers |-> worker[v]]
    BY Zenon DEF PoolInv
  <2>2. Count(IsRunning(worker[w], c)) = 1 /\ Count(IsRunning(r, c)) = 0
    BY <1>1, <1>2, <1>3, <1>8, Zenon DEF Count, IsRunning
  <2>3. Cardinality(Running(c)') =
           Cardinality(Running(c)) - Count(IsRunning(worker[w], c)) + Count(IsRunning(r, c))
    BY <1>8, <2>1, WorkerMoves, Zenon
  <2> QED
    BY <1>5, <2>2, <2>3
<1>11. CallTypes'
  BY <1>4, <1>6, <1>7, Zenon DEF CallInv, CallTypes
<1>12. CallSound(c)'
  <2>1. /\ refs'[c] = Cardinality(Running(c)') + Count(owned[c])
        /\ behind'[c] = Cardinality(Running(c)') + Count(queue[c] # "none")
        /\ refs'[c] > 0 => refs[c] # 1
        /\ refs'[c] = 0 => refs[c] = 1
        /\ owned[c] => refs[c] # 1
    BY <1>5, <1>6, <1>10 DEF Count
  <2>2. CASE r.at = "wakeup" /\ r.call = c /\ live'[c] = live[c]
    <3>1. Leaving(c)'
      BY <1>8, <2>2, Zenon DEF PoolInv, Leaving
    <3> QED
      BY <1>2, <1>4, <1>5, <2>1, <2>2, <3>1, Zenon DEF CallSound
  <2>3. CASE live'[c] = (refs[c] # 1)
    BY <1>2, <1>4, <1>5, <2>1, <2>3, Zenon DEF CallSound
  <2> QED
    BY <1>8, <2>2, <2>3, Zenon
<1> QED
  BY <1>2, <1>9, <1>11, <1>12, CallChange, Zenon

\* A function returns that nobody counts: of a call that is not from Alloc.
LEMMA FinishOther ==
    ASSUME CallInv, QueueInv, PoolInv, NEW w \in Workers, thread_call_finish(w), worker[w].call \notin Alloc
    PROVE  CallInv'
<1>1. /\ worker' = Moved(w, "loop", None) /\ UNCHANGED <<refs, behind, live, owned, queue>>
  BY Zenon DEF thread_call_finish
<1>2. PICK r : worker' = [worker EXCEPT ![w] = r] /\ r.call = None
  <2>1. PICK r : r = [at |-> "loop", group |-> worker[w].group, call |-> None]
    BY Zenon
  <2>2. r.call = None
    BY <2>1, Zenon
  <2>3. worker' = [worker EXCEPT ![w] = r]
    BY <1>1, <2>1, Zenon DEF Moved
  <2> QED
    BY <2>2, <2>3, Zenon
<1>3. None \notin Calls
  BY ThreadCallConstants, Zenon DEF ThreadCallConstants
<1>4. ASSUME NEW b \in Calls PROVE CallSound(b)'
  <2>1. CASE b \in Alloc
    <3>1. SameRun(b)
      BY <1>2, <1>3, <2>1, OtherRuns, Zenon
    <3>2. SameCall(b)
      BY <1>1, <3>1, Zenon DEF SameCall
    <3> QED
      BY <3>2, CallSame, Zenon DEF CallInv
  <2>2. CASE b \notin Alloc
    BY <1>1, <2>2, Zenon DEF CallInv, CallSound
  <2> QED
    BY <2>1, <2>2, Zenon
<1> QED
  BY <1>1, <1>4, Zenon DEF CallInv

\* A worker has the lock again after the wakeup: the call, if it is still
\* allocated, has references.
LEMMA RelockRuns ==
    ASSUME CallInv, QueueInv, PoolInv, NEW w \in Workers, finish_relock(w)
    PROVE  CallInv'
<1>1. PICK c : c = worker[w].call
  BY Zenon
<1>2. /\ worker[w].at = "relock" /\ (live[c] => refs[c] # 0) /\ worker' = Moved(w, "loop", None)
      /\ UNCHANGED <<refs, behind, live, owned, queue>>
  BY <1>1, Zenon DEF finish_relock, RefsRead, callVars
<1>3. PICK r : worker' = [worker EXCEPT ![w] = r] /\ r.call = None /\ r.at = "loop"
  <2>1. PICK r : r = [at |-> "loop", group |-> worker[w].group, call |-> None]
    BY Zenon
  <2>2. r.call = None /\ r.at = "loop"
    BY <2>1, Zenon
  <2>3. worker' = [worker EXCEPT ![w] = r]
    BY <1>2, <2>1, Zenon DEF Moved
  <2> QED
    BY <2>2, <2>3, Zenon
<1>4. None \notin Calls
  BY ThreadCallConstants, Zenon DEF ThreadCallConstants
<1>5. ASSUME NEW b \in Calls PROVE CallSound(b)'
  <2>1. CASE b # c
    <3>1. SameRun(b)
      BY <1>1, <1>3, <1>4, <2>1, OtherRuns, Zenon
    <3>2. SameCall(b)
      BY <1>2, <3>1, Zenon DEF SameCall
    <3> QED
      BY <3>2, CallSame, Zenon DEF CallInv
  <2>2. CASE b = c
    <3>1. \A v \in Workers : worker'[v] = IF v = w THEN r ELSE worker[v]
      BY <1>3, Zenon DEF PoolInv
    <3>2. Running(b)' = Running(b)
      BY <1>2, <1>3, <3>1, Zenon DEF Running
    <3>3. live[b] => refs[b] # 0
      BY <1>2, <2>2, Zenon
    <3> QED
      BY <1>2, <3>2, <3>3, Zenon DEF CallInv, CallSound, Count
  <2> QED
    BY <2>1, <2>2, Zenon
<1> QED
  BY <1>2, <1>5, Zenon DEF CallInv

\* A worker goes on without taking or leaving a call.
LEMMA StayRuns ==
    ASSUME CallInv, QueueInv, PoolInv, NEW w \in Workers,
           \/ worker[w].at \in {"start", "loop"} /\ GoIdle(w)
           \/ finish_wakeup(w) \/ sched_call_block(w) \/ sched_call_unblock(w)
    PROVE  CallInv'
<1>1. UNCHANGED <<refs, behind, live, owned, queue>>
  BY Zenon DEF GoIdle, finish_wakeup, sched_call_block, sched_call_unblock, callVars
<1>2. SameRuns
  <2>1. WorkerShape(worker[w])
    BY Zenon DEF PoolInv
  <2>2. CASE worker[w].at \in {"start", "loop"} /\ GoIdle(w)
    <3>1. worker[w].call = None
      BY <2>1, <2>2, Zenon DEF WorkerShape
    <3>2. PICK r : worker' = [worker EXCEPT ![w] = r] /\ r.call = None
      <4>1. PICK r : /\ worker' = [worker EXCEPT ![w] = r]
                     /\ r = NoWork \/ r = [NoWork EXCEPT !.at = "idle", !.group = worker[w].group]
        BY <2>2, Zenon DEF GoIdle
      <4>2. NoWork.call = None /\ [NoWork EXCEPT !.at = "idle", !.group = worker[w].group].call = None
        BY Zenon DEF NoWork
      <4> QED
        BY <4>1, <4>2, Zenon
    <3> QED
      BY <3>1, <3>2, RunMove, Zenon
  <2>3. ASSUME NEW a, worker[w].at # "none", worker' = [worker EXCEPT ![w].at = a],
               \/ worker[w].at \in {"running", "blocked"} /\ a \in {"running", "blocked"}
               \/ worker[w].at \in {"wakeup", "relock"} /\ a \in {"wakeup", "relock"}
        PROVE  SameRuns
    <3>1. PICK r : r = [at |-> a, group |-> worker[w].group, call |-> worker[w].call]
      BY Zenon
    <3>2. r.at = a /\ r.call = worker[w].call
      BY <3>1, Zenon
    <3>3. worker' = [worker EXCEPT ![w] = r]
      BY <2>1, <2>3, <3>1, WorkerAt, Zenon
    <3> QED
      BY <2>3, <3>2, <3>3, RunMove, Zenon
  <2>4. CASE finish_wakeup(w)
    BY <2>3, <2>4, Zenon DEF finish_wakeup
  <2>5. CASE sched_call_block(w)
    BY <2>3, <2>5, Zenon DEF sched_call_block
  <2>6. CASE sched_call_unblock(w)
    BY <2>3, <2>6, Zenon DEF sched_call_unblock
  <2> QED
    BY <2>2, <2>4, <2>5, <2>6, Zenon
<1> QED
  BY <1>1, <1>2, CallsSame, Zenon

\* A delayed call becomes pending: it was submitted before.
LEMMA DueCall ==
    ASSUME CallInv, QueueInv, PoolInv, NEW c \in Calls, queue[c] = "delayed", pending_call_enqueue(c),
           UNCHANGED <<refs, live, owned>>
    PROVE  CallInv'
<1>1. queue' = [queue EXCEPT ![c] = "pending"] /\ behind' = behind /\ queue \in [Calls -> {"none", "pending", "delayed"}]
  BY Zenon DEF pending_call_enqueue, QueueInv
<1>2. \A b \in Calls : (queue'[b] = "none") <=> (queue[b] = "none")
  BY <1>1, Zenon
<1>3. group_of[c] \in GroupSet /\ thread_call_wake(group_of[c], pending_count[group_of[c]] + 1)
  BY OnQueue, Zenon DEF pending_call_enqueue
<1>4. SameRuns
  BY <1>3, WakeRuns, Zenon
<1> QED
  BY <1>1, <1>2, <1>4, CallsSame, Zenon

\* What one of the client's operations does to the calls.
LEMMA ClientCalls ==
    ASSUME FiniteCounts, CallInv, QueueInv, PoolInv, NEW c \in Calls, NEW k, NEW d,
           \/ thread_call_enter(c) \/ thread_call_enter_delayed(c, d) \/ thread_call_cancel(c)
           \/ thread_call_cancel_wait(k, c)
    PROVE  CallInv'
<1>1. UNCHANGED <<refs, live, owned>> /\ owned[c]
  BY Zenon DEF thread_call_enter, thread_call_enter_delayed, thread_call_cancel, thread_call_cancel_wait, May
<1>2. CASE thread_call_enter(c)
  <2>1. /\ queue' = [queue EXCEPT ![c] = "pending"]
        /\ behind' = IF queue[c] = "none" THEN Submitted(c) ELSE behind
    BY <1>2, Zenon DEF thread_call_enter, pending_call_enqueue
  <2>2. group_of[c] \in GroupSet /\ thread_call_wake(group_of[c], pending_count[group_of[c]] + 1)
    BY <1>2, OnQueue, Zenon DEF thread_call_enter, pending_call_enqueue
  <2>3. SameRuns
    BY <2>2, WakeRuns, Zenon
  <2> QED
    BY <1>1, <2>1, <2>3, SubmitCall, Zenon
<1>3. CASE thread_call_enter_delayed(c, d)
  <2>1. /\ queue' = [queue EXCEPT ![c] = "delayed"] /\ worker' = worker
        /\ behind' = IF queue[c] = "none" THEN Submitted(c) ELSE behind
    BY <1>3, Zenon DEF thread_call_enter_delayed, delayed_call_enqueue, poolVars
  <2>2. SameRuns
    BY <2>1, RunSame, Zenon
  <2> QED
    BY <1>1, <2>1, <2>2, SubmitCall, Zenon
<1>4. CASE call_dequeue(c) /\ queue[c] # "none" /\ worker' = worker
  <2>1. queue' = [queue EXCEPT ![c] = "none"] /\ behind' = Retired(c)
    BY <1>4, Zenon DEF call_dequeue
  <2>2. SameRuns
    BY <1>4, RunSame, Zenon
  <2> QED
    BY <1>1, <1>4, <2>1, <2>2, RetireCall, Zenon
<1>5. CASE UNCHANGED <<queue, behind, worker>>
  <2>1. SameRuns
    BY <1>5, RunSame, Zenon
  <2> QED
    BY <1>1, <1>5, <2>1, CallsSame, Zenon
<1> QED
  BY <1>2, <1>3, <1>4, <1>5, Zenon DEF thread_call_cancel, thread_call_cancel_wait, poolVars

\* The internal entries leave their free list and return to it; a call of a
\* client that is cancelled by its function only leaves its queue.
LEMMA FuncCalls ==
    ASSUME FiniteCounts, CallInv, QueueInv, NEW c \in Calls, NEW d, NEW all,
           thread_call_func_delayed(c, d) \/ thread_call_func_cancel(c, all)
    PROVE  CallInv'
<1>1. c \in Internal => c \notin Alloc
  BY ThreadCallConstants, Zenon DEF ThreadCallConstants
<1>2. worker' = worker /\ UNCHANGED <<refs, owned>>
  BY Zenon DEF thread_call_func_delayed, delayed_call_enqueue, thread_call_func_cancel, poolVars
<1>3. SameRuns
  BY <1>2, RunSame, Zenon
<1>4. CASE thread_call_func_delayed(c, d)
  <2>1. /\ queue' = [queue EXCEPT ![c] = "delayed"] /\ live' = [live EXCEPT ![c] = TRUE] /\ behind' = behind
        /\ c \in Internal
    BY <1>4, Zenon DEF thread_call_func_delayed, delayed_call_enqueue
  <2> QED
    BY <1>2, <1>3, <2>1, InternalCall, Zenon
<1>5. CASE thread_call_func_cancel(c, all) /\ c \in Internal
  <2>1. queue' = [queue EXCEPT ![c] = "none"] /\ behind' = behind
    BY <1>1, <1>5, Zenon DEF thread_call_func_cancel, call_dequeue, Retired
  <2>2. live' = [live EXCEPT ![c] = FALSE]
    BY <1>5 DEF thread_call_func_cancel
  <2> QED
    BY <1>2, <1>3, <1>5, <2>1, <2>2, InternalCall, Zenon
<1>6. CASE thread_call_func_cancel(c, all) /\ c \notin Internal
  <2>1. queue' = [queue EXCEPT ![c] = "none"] /\ behind' = Retired(c) /\ queue[c] # "none"
    BY <1>6, Zenon DEF thread_call_func_cancel, call_dequeue
  <2>2. live' = live
    <3>1. live' = [live EXCEPT ![c] = @ /\ c \notin Internal] /\ live \in [Calls -> BOOLEAN]
      BY <1>6, Zenon DEF thread_call_func_cancel, CallInv
    <3> QED
      BY <1>6, <3>1
  <2>3. owned[c]
    BY <1>6, <2>1, Zenon DEF CallInv, CallSound
  <2> QED
    BY <1>2, <1>3, <2>1, <2>2, <2>3, RetireCall, Zenon
<1> QED
  BY <1>4, <1>5, <1>6, Zenon

\* Steps that leave the calls, and who runs them, alone.
LEMMA CallsQuiet ==
    ASSUME CallInv, QueueInv, UNCHANGED <<refs, behind, live, owned, queue, worker>>
    PROVE  CallInv'
<1>1. SameRuns
  BY RunSame, Zenon
<1> QED
  BY <1>1, CallsSame, Zenon

\* The daemon's new worker, and the worker that the timer retires, have no call.
LEMMA PoolRuns ==
    ASSUME CallInv, QueueInv, PoolInv, UNCHANGED <<refs, behind, live, owned, queue>>, NEW w \in Workers,
           worker[w].at \in {"none", "idle"}, NEW r, r.call = None, worker' = [worker EXCEPT ![w] = r]
    PROVE  CallInv'
<1>1. worker[w].call = None
  BY Zenon DEF PoolInv, WorkerShape
<1>2. SameRuns
  BY <1>1, RunMove, Zenon
<1> QED
  BY <1>2, CallsSame, Zenon

\* Every step keeps references and submissions of every call exact.
LEMMA CallStep ==
    ASSUME FiniteCounts, IInv, [Next]_vars
    PROVE  CallInv'
<1> QueueInv /\ PoolInv /\ CallInv
  BY Zenon DEF IInv
<1>1. ASSUME NEW c \in Calls, NEW k, NEW d,
             \/ thread_call_enter(c) \/ thread_call_enter_delayed(c, d) \/ thread_call_cancel(c)
             \/ thread_call_cancel_wait(k, c)
      PROVE  CallInv'
  BY <1>1, ClientCalls, Zenon
<1>2. ASSUME NEW c \in Calls, thread_call_free(c) PROVE CallInv'
  BY <1>2, FreeCall, Zenon
<1>3. ASSUME NEW c \in Calls, thread_call_allocate(c) PROVE CallInv'
  BY <1>3, AllocateCall, Zenon
<1>4. ASSUME NEW c \in Calls, NEW d, NEW all,
             thread_call_func_delayed(c, d) \/ thread_call_func_cancel(c, all)
      PROVE  CallInv'
  BY <1>4, FuncCalls, Zenon
<1>5. ASSUME NEW g \in GroupSet, rescan_due(g) PROVE CallInv'
  <2>1. PICK i \in DOMAIN delayed[g] : pending_call_enqueue(delayed[g][i])
    BY <1>5, Zenon DEF rescan_due
  <2>2. delayed[g][i] \in Range(delayed[g])
    BY Zenon DEF Range
  <2>3. delayed[g][i] \in Calls /\ queue[delayed[g][i]] = "delayed"
    BY <2>2, Zenon DEF QueueInv, QueuesExact
  <2>4. UNCHANGED <<refs, live, owned>>
    BY <1>5, Zenon DEF rescan_due
  <2> QED
    BY <2>1, <2>3, <2>4, DueCall, Zenon
<1>6. ASSUME NEW g \in GroupSet, rescan_resort(g) \/ rescan_ends(g) PROVE CallInv'
  <2>1. UNCHANGED <<refs, behind, live, owned, queue, worker>>
    BY <1>6, Zenon DEF rescan_resort, rescan_ends, poolVars, callVars
  <2> QED
    BY <2>1, CallsQuiet, Zenon
<1>7. ASSUME NEW g \in GroupSet, sched_call_wake(g) PROVE CallInv'
  <2>1. UNCHANGED <<refs, behind, live, owned, queue>> /\ thread_call_wake(g, pending_count[g])
    BY <1>7, Zenon DEF sched_call_wake, callVars
  <2>2. SameRuns
    BY <2>1, WakeRuns, Zenon
  <2> QED
    BY <2>1, <2>2, CallsSame, Zenon
<1>8. ASSUME NEW k, WaitStep(k) PROVE CallInv'
  <2>1. UNCHANGED <<refs, behind, live, owned, queue, worker>>
    BY <1>8, Zenon DEF WaitStep, thread_call_wait_locked, cancel_wait_returns, poolVars
  <2> QED
    BY <2>1, CallsQuiet, Zenon
<1>9. ASSUME NEW w \in Workers, WorkerStep(w) PROVE CallInv'
  <2>1. CASE WorkerLoop(w)
    <3>1. worker[w].at \in {"start", "loop"}
      BY <2>1, Zenon DEF WorkerLoop
    <3> QED
      BY <2>1, <3>1, TakeRuns, StayRuns, Zenon DEF WorkerLoop
  <2>2. CASE thread_call_finish(w)
    BY <2>2, FinishRuns, FinishOther, Zenon
  <2>3. CASE finish_relock(w)
    BY <2>3, RelockRuns, Zenon
  <2>4. CASE finish_wakeup(w) \/ sched_call_block(w) \/ sched_call_unblock(w)
    BY <2>4, StayRuns, Zenon
  <2> QED
    BY <1>9, <2>1, <2>2, <2>3, <2>4, Zenon DEF WorkerStep
<1>10. ASSUME DaemonStep PROVE CallInv'
  <2>1. UNCHANGED <<refs, behind, live, owned, queue>>
    BY <1>10, Zenon DEF DaemonStep, DaemonScan, thread_call_thread_create, CreateFails, callVars
  <2>2. CASE worker' = worker
    BY <2>1, <2>2, CallsQuiet, Zenon
  <2>3. CASE thread_call_thread_create
    <3>1. PICK w \in Workers : worker[w] = NoWork /\
              worker' = [worker EXCEPT ![w] = [at |-> "start", group |-> Groups[daemon.i], call |-> None]]
      BY <2>3, Zenon DEF thread_call_thread_create
    <3>2. worker[w].at \in {"none", "idle"}
      BY <3>1 DEF NoWork
    <3>3. [at |-> "start", group |-> Groups[daemon.i], call |-> None].call = None
      BY Zenon
    <3> QED
      BY <2>1, <3>1, <3>2, <3>3, PoolRuns, Zenon
  <2> QED
    BY <1>10, <2>2, <2>3, Zenon DEF DaemonStep, DaemonScan, CreateFails
<1>11. ASSUME NEW g \in GroupSet, thread_call_delayed_timer(g) PROVE CallInv'
  <2>1. CASE delayed[g] # <<>> /\ pending_call_enqueue(Head(delayed[g])) /\ UNCHANGED <<refs, live, owned>>
    <3>1. Head(delayed[g]) \in Range(delayed[g])
      BY <2>1, TailQueue, Zenon DEF QueueInv, QueuesExact
    <3>2. Head(delayed[g]) \in Calls /\ queue[Head(delayed[g])] = "delayed"
      BY <3>1, Zenon DEF QueueInv, QueuesExact
    <3> QED
      BY <2>1, <3>2, DueCall, Zenon
  <2>2. CASE UNCHANGED <<callVars, poolVars>>
    BY <2>2, CallsQuiet, Zenon DEF callVars, poolVars
  <2> QED
    BY <1>11, <2>1, <2>2, Zenon DEF thread_call_delayed_timer
<1>12. ASSUME NEW g \in GroupSet, DelayedTimerExpires(g) \/ DeallocStep(g) PROVE CallInv'
  <2>1. UNCHANGED <<refs, behind, live, owned, queue>>
    BY <1>12, Zenon DEF DelayedTimerExpires, DeallocStep, DeallocTimerExpires, thread_call_dealloc_timer, callVars
  <2>2. CASE worker' = worker
    BY <2>1, <2>2, CallsQuiet, Zenon
  <2>3. ASSUME NEW w \in Asleep(g), worker' = [worker EXCEPT ![w] = NoWork] PROVE CallInv'
    <3>1. w \in Workers /\ worker[w].at \in {"none", "idle"} /\ NoWork.call = None
      BY Zenon DEF Asleep, NoWork
    <3> QED
      BY <2>1, <2>3, <3>1, PoolRuns, Zenon
  <2> QED
    BY <1>12, <2>2, <2>3, Zenon DEF DelayedTimerExpires, DeallocStep, DeallocTimerExpires, thread_call_dealloc_timer,
                             poolVars
<1>13. ASSUME Tick \/ PanicStep \/ UNCHANGED vars PROVE CallInv'
  <2>1. UNCHANGED <<refs, behind, live, owned, queue, worker>>
    BY <1>13, PanicQuiet, Zenon DEF Tick, vars, callVars, poolVars
  <2> QED
    BY <2>1, CallsQuiet, Zenon
<1> QED
  <2>1. CASE ClientStep
    BY <1>1, <1>2, <1>3, <1>4, <1>5, <1>6, <1>7, <2>1, AlikeCalls, Zenon DEF ClientStep
  <2>2. ASSUME NEW g \in GroupSet, TimerStep(g) \/ DeallocStep(g) PROVE CallInv'
    BY <1>11, <1>12, <2>2, Zenon DEF TimerStep
  <2> QED
    BY <1>8, <1>9, <1>10, <1>13, <2>1, <2>2, Zenon DEF Next

\* The flags of the timer that retires workers.
DeallocInv ==
    /\ dealloc_active \in [GroupSet -> BOOLEAN] /\ dealloc_timer \in [GroupSet -> BOOLEAN]
    /\ dealloc_firing \in [GroupSet -> BOOLEAN]
    /\ DeallocTimerOnce

\* thread_call_wake only clears the timer.
LEMMA WakeDealloc ==
    ASSUME DeallocInv, NEW g \in GroupSet, NEW p, thread_call_wake(g, p),
           UNCHANGED <<dealloc_active, dealloc_firing>>
    PROVE  DeallocInv'
<1>1. \/ dealloc_timer' = dealloc_timer
      \/ dealloc_timer' = [dealloc_timer EXCEPT ![g] = @ /\ idle_count[g] # 1]
  BY Zenon DEF thread_call_wake
<1>2. /\ dealloc_timer' \in [GroupSet -> BOOLEAN]
      /\ \A h \in GroupSet : dealloc_timer'[h] => dealloc_timer[h]
  BY <1>1, Zenon DEF DeallocInv
<1> QED
  BY <1>2, Zenon DEF DeallocInv, DeallocTimerOnce

\* A worker starts the timer only when the flag is clear.
LEMMA IdleDealloc ==
    ASSUME DeallocInv, NEW w \in Workers, worker[w].group \in GroupSet, GoIdle(w)
    PROVE  DeallocInv'
<1>1. PICK g \in GroupSet : g = worker[w].group
  BY Zenon
<1>2. PICK start \in BOOLEAN :
         /\ start => ~dealloc_active[g]
         /\ dealloc_active' = [dealloc_active EXCEPT ![g] = @ \/ start]
         /\ dealloc_timer' = [dealloc_timer EXCEPT ![g] = @ \/ start]
         /\ dealloc_firing' = dealloc_firing
  <2> DEFINE go == parallel[g] /\ ~dealloc_active[g] /\ active_count[g] + idle_count[g] > target[g]
  <2>1. go \in BOOLEAN /\ (go => ~dealloc_active[g])
    BY Zenon
  <2>2. /\ dealloc_active' = [dealloc_active EXCEPT ![g] = @ \/ go]
        /\ dealloc_timer' = [dealloc_timer EXCEPT ![g] = @ \/ go]
        /\ dealloc_firing' = dealloc_firing
    BY <1>1, Zenon DEF GoIdle
  <2> HIDE DEF go
  <2> QED
    BY <2>1, <2>2, Zenon
<1>3. /\ dealloc_active' \in [GroupSet -> BOOLEAN] /\ dealloc_timer' \in [GroupSet -> BOOLEAN]
      /\ dealloc_firing' \in [GroupSet -> BOOLEAN]
  BY <1>2, Zenon DEF DeallocInv
<1>4. ASSUME NEW h \in GroupSet
      PROVE  /\ dealloc_timer'[h] \/ dealloc_firing'[h] => dealloc_active'[h]
             /\ ~(dealloc_timer'[h] /\ dealloc_firing'[h])
  <2>1. /\ dealloc_timer[h] \/ dealloc_firing[h] => dealloc_active[h]
        /\ ~(dealloc_timer[h] /\ dealloc_firing[h])
    BY Zenon DEF DeallocInv, DeallocTimerOnce
  <2>2. CASE h = g
    <3>1. /\ dealloc_active'[h] <=> (dealloc_active[h] \/ start)
          /\ dealloc_timer'[h] <=> (dealloc_timer[h] \/ start)
          /\ dealloc_firing'[h] = dealloc_firing[h]
      BY <1>2, <2>2, Zenon DEF DeallocInv
    <3> QED
      BY <1>2, <2>1, <2>2, <3>1, Zenon
  <2>3. CASE h # g
    BY <1>2, <2>1, <2>3, Zenon DEF DeallocInv
  <2> QED
    BY <2>2, <2>3, Zenon
<1> QED
  BY <1>3, <1>4, Zenon DEF DeallocInv, DeallocTimerOnce

\* The callout is on its way, and then at work.
LEMMA TimerDealloc ==
    ASSUME DeallocInv, NEW g \in GroupSet, DeallocStep(g)
    PROVE  DeallocInv'
<1>1. CASE DeallocTimerExpires(g)
  <2>1. /\ dealloc_timer[g] /\ dealloc_active' = dealloc_active
        /\ dealloc_timer' = [dealloc_timer EXCEPT ![g] = FALSE]
        /\ dealloc_firing' = [dealloc_firing EXCEPT ![g] = TRUE]
    BY <1>1, Zenon DEF DeallocTimerExpires
  <2> QED
    BY <2>1, Zenon DEF DeallocInv, DeallocTimerOnce
<1>2. CASE thread_call_dealloc_timer(g)
  <2>1. PICK again \in BOOLEAN :
           /\ dealloc_firing[g]
           /\ dealloc_active' = [dealloc_active EXCEPT ![g] = again]
           /\ dealloc_timer' = [dealloc_timer EXCEPT ![g] = @ \/ again]
           /\ dealloc_firing' = [dealloc_firing EXCEPT ![g] = FALSE]
    <3> DEFINE go == idle_count'[g] > 0 /\ idle_count'[g] + active_count[g] > target[g]
    <3>1. go \in BOOLEAN
      BY Zenon
    <3>2. /\ dealloc_firing[g]
          /\ dealloc_active' = [dealloc_active EXCEPT ![g] = go]
          /\ dealloc_timer' = [dealloc_timer EXCEPT ![g] = @ \/ go]
          /\ dealloc_firing' = [dealloc_firing EXCEPT ![g] = FALSE]
      BY <1>2, Zenon DEF thread_call_dealloc_timer
    <3> HIDE DEF go
    <3> QED
      BY <3>1, <3>2, Zenon
  <2> QED
    BY <2>1, Zenon DEF DeallocInv, DeallocTimerOnce
<1> QED
  BY <1>1, <1>2, Zenon DEF DeallocStep

\* Every step keeps the flag and the timer that retires workers together.
LEMMA DeallocKept ==
    ASSUME IInv, DeallocInv, [Next]_vars
    PROVE  DeallocInv'
<1> QueueInv /\ PoolInv
  BY Zenon DEF IInv
<1>1. ASSUME UNCHANGED deallocVars PROVE DeallocInv'
  BY <1>1, Zenon DEF DeallocInv, DeallocTimerOnce, deallocVars
<1>2. ASSUME NEW c \in Calls, pending_call_enqueue(c) PROVE DeallocInv'
  <2>1. group_of[c] \in GroupSet
    BY OnQueue, Zenon
  <2> QED
    BY <1>2, <2>1, WakeDealloc, Zenon DEF pending_call_enqueue
<1>3. ASSUME NEW g \in GroupSet, NEW i \in DOMAIN delayed[g] PROVE delayed[g][i] \in Calls
  BY DEF QueueInv
<1>4. ASSUME NEW g \in GroupSet, delayed[g] # <<>> PROVE Head(delayed[g]) \in Calls
  BY <1>4 DEF QueueInv
<1>5. ASSUME ClientStep PROVE DeallocInv'
  <2>1. CASE UNCHANGED deallocVars
    BY <1>1, <2>1, Zenon
  <2>2. ASSUME NEW c \in Calls, thread_call_enter(c) PROVE DeallocInv'
    BY <1>2, <2>2, Zenon DEF thread_call_enter
  <2>3. ASSUME NEW g \in GroupSet, rescan_due(g) PROVE DeallocInv'
    BY <1>2, <1>3, <2>3, Zenon DEF rescan_due
  <2>4. ASSUME NEW g \in GroupSet, sched_call_wake(g) PROVE DeallocInv'
    BY <2>4, WakeDealloc, Zenon DEF sched_call_wake
  <2>5. ASSUME NEW c, NEW d, thread_call_enter_delayed(c, d) \/ thread_call_func_delayed(c, d)
        PROVE  UNCHANGED deallocVars
    BY <2>5, Zenon DEF thread_call_enter_delayed, thread_call_func_delayed, delayed_call_enqueue
  <2>6. ASSUME NEW c, NEW k, NEW all,
               \/ thread_call_cancel(c) \/ thread_call_cancel_wait(k, c) \/ thread_call_free(c)
               \/ thread_call_allocate(c) \/ thread_call_func_cancel(c, all)
        PROVE  UNCHANGED deallocVars
    BY <2>6, Zenon DEF thread_call_cancel, thread_call_cancel_wait, thread_call_free, thread_call_allocate,
                       thread_call_func_cancel
  <2>7. ASSUME NEW g, rescan_resort(g) \/ rescan_ends(g) PROVE UNCHANGED deallocVars
    BY <2>7, Zenon DEF rescan_resort, rescan_ends
  <2> QED
    BY <1>5, <2>1, <2>2, <2>3, <2>4, <2>5, <2>6, <2>7, Zenon DEF ClientStep
<1>6. ASSUME NEW w \in Workers, WorkerStep(w) PROVE DeallocInv'
  <2>1. CASE WorkerLoop(w)
    <3>1. worker[w].group \in GroupSet
      BY <2>1, Zenon DEF PoolInv, WorkerShape, WorkerLoop
    <3>2. CASE GoIdle(w)
      BY <3>1, <3>2, IdleDealloc, Zenon
    <3>3. CASE TakeCall(w)
      BY <1>1, <3>3, Zenon DEF TakeCall
    <3> QED
      BY <2>1, <3>2, <3>3, Zenon DEF WorkerLoop
  <2>2. CASE UNCHANGED deallocVars
    BY <1>1, <2>2, Zenon
  <2> QED
    BY <1>6, <2>1, <2>2, Zenon DEF WorkerStep, thread_call_finish, finish_wakeup, finish_relock,
                                   sched_call_block, sched_call_unblock
<1>7. ASSUME NEW g \in GroupSet, TimerStep(g) \/ DeallocStep(g) PROVE DeallocInv'
  <2>1. CASE DelayedTimerExpires(g)
    BY <1>1, <2>1, Zenon DEF DelayedTimerExpires
  <2>2. CASE thread_call_delayed_timer(g)
    BY <1>1, <1>2, <1>4, <2>2, Zenon DEF thread_call_delayed_timer
  <2>3. CASE DeallocStep(g)
    BY <2>3, TimerDealloc, Zenon
  <2> QED
    BY <1>7, <2>1, <2>2, <2>3, Zenon DEF TimerStep
<1>8. ASSUME DaemonStep \/ Tick \/ (\E k \in Clients : WaitStep(k)) PROVE DeallocInv'
  <2>1. UNCHANGED deallocVars
    BY <1>8, Zenon DEF DaemonStep, DaemonScan, thread_call_thread_create, CreateFails, Tick, WaitStep,
                       thread_call_wait_locked, cancel_wait_returns
  <2> QED
    BY <1>1, <2>1, Zenon
<1>9. ASSUME PanicStep \/ UNCHANGED vars PROVE DeallocInv'
  BY <1>1, <1>9, PanicQuiet, Zenon DEF vars
<1> QED
  BY <1>5, <1>6, <1>7, <1>8, <1>9, Zenon DEF Next

=============================================================================
