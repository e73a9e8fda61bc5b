---------------------------- MODULE QueueLemmas ----------------------------
(***************************************************************************)
(* Facts about queues without duplicates: what enqueueing at the tail,     *)
(* dequeueing the head and unlinking an element do to the set of elements. *)
(* The wait queues and message queues of the kernel are all of this kind.  *)
(***************************************************************************)
EXTENDS KernQueue, SequenceTheorems, TLAPS

\* queue_init.
LEMMA EmptyFacts == Range(<< >>) = {} /\ IsInjective(<< >>)
BY DEF Range, IsInjective

\* A queue of elements of S has only elements of S on it.
LEMMA ElementFacts ==
    ASSUME NEW S, NEW q \in Seq(S)
    PROVE  Range(q) \subseteq S
BY DEF Range

\* queue_empty.
LEMMA NonEmptyFacts ==
    ASSUME NEW S, NEW q \in Seq(S), q # << >>
    PROVE  q[1] \in Range(q)
<1>1. Len(q) \in Nat /\ Len(q) # 0 /\ DOMAIN q = 1 .. Len(q)
  OBVIOUS
<1>2. 1 \in DOMAIN q
  BY <1>1
<1> QED
  BY <1>2 DEF Range

\* enqueue_tail of a new element.
LEMMA EnqueueFacts ==
    ASSUME NEW S, NEW q \in Seq(S), NEW x \in S
    PROVE  /\ Append(q, x) \in Seq(S)
           /\ Append(q, x) # << >>
           /\ Range(Append(q, x)) = Range(q) \cup {x}
           /\ IsInjective(q) /\ x \notin Range(q) => IsInjective(Append(q, x))
<1> DEFINE r == Append(q, x)
<1>1. /\ r \in Seq(S) /\ Len(r) = Len(q) + 1 /\ r[Len(q) + 1] = x
      /\ \A i \in 1 .. Len(q) : r[i] = q[i]
      /\ DOMAIN r = 1 .. Len(q) + 1 /\ DOMAIN q = 1 .. Len(q) /\ Len(q) \in Nat
  OBVIOUS
<1> HIDE DEF r
<1>2. r # << >>
  BY <1>1
<1>3. Range(r) = Range(q) \cup {x}
  BY <1>1 DEF Range
<1>4. IsInjective(q) /\ x \notin Range(q) => IsInjective(r)
  BY <1>1 DEF Range, IsInjective
<1> QED
  BY <1>1, <1>2, <1>3, <1>4 DEF r

\* dequeue_head of a queue that is not empty.
LEMMA DequeueFacts ==
    ASSUME NEW S, NEW q \in Seq(S), q # << >>
    PROVE  /\ Tail(q) \in Seq(S)
           /\ Head(q) \in S
           /\ Head(q) \in Range(q)
           /\ IsInjective(q) => /\ Range(Tail(q)) = Range(q) \ {Head(q)}
                                /\ IsInjective(Tail(q))
<1> DEFINE r == Tail(q)
<1>1. /\ r \in Seq(S) /\ Len(r) = Len(q) - 1 /\ Len(q) \in Nat \ {0}
      /\ Head(q) = q[1] /\ q[1] \in S
      /\ \A i \in 1 .. Len(q) - 1 : r[i] = q[i + 1]
      /\ DOMAIN r = 1 .. Len(q) - 1 /\ DOMAIN q = 1 .. Len(q)
  BY HeadTailProperties, LenProperties, EmptySeq
<1> HIDE DEF r
<1>2. Head(q) \in Range(q)
  BY <1>1 DEF Range
<1>3. ASSUME IsInjective(q) PROVE Range(r) = Range(q) \ {Head(q)}
  <2>1. ASSUME NEW i \in 1 .. Len(q) - 1 PROVE r[i] \in Range(q) \ {Head(q)}
    <3>1. i + 1 \in 1 .. Len(q) /\ i + 1 # 1 /\ 1 \in 1 .. Len(q)
      BY <1>1
    <3> QED
      BY <1>1, <1>3, <3>1 DEF Range, IsInjective
  <2>2. ASSUME NEW i \in 1 .. Len(q), q[i] # Head(q) PROVE q[i] \in Range(r)
    <3>1. i - 1 \in 1 .. Len(q) - 1 /\ (i - 1) + 1 = i
      BY <1>1, <2>2
    <3> QED
      BY <1>1, <3>1, Zenon DEF Range
  <2> QED
    BY <1>1, <2>1, <2>2, SMTT(30) DEF Range
<1>4. ASSUME IsInjective(q) PROVE IsInjective(r)
  <2> SUFFICES ASSUME NEW i \in 1 .. Len(q) - 1, NEW j \in 1 .. Len(q) - 1, r[i] = r[j]
               PROVE  i = j
    BY <1>1 DEF IsInjective
  <2>1. i + 1 \in 1 .. Len(q) /\ j + 1 \in 1 .. Len(q) /\ (i + 1 = j + 1 => i = j)
    BY <1>1
  <2>2. q[i + 1] = q[j + 1]
    BY <1>1
  <2> QED
    BY <1>1, <1>4, <2>1, <2>2, Zenon DEF IsInjective
<1> QED
  BY <1>1, <1>2, <1>3, <1>4 DEF r

\* remqueue of the element in place i.
LEMMA UnlinkFacts ==
    ASSUME NEW S, NEW q \in Seq(S), NEW i \in 1 .. Len(q)
    PROVE  /\ remqueue(q, i) \in Seq(S)
           /\ IsInjective(q) => /\ Range(remqueue(q, i)) = Range(q) \ {q[i]}
                                /\ IsInjective(remqueue(q, i))
<1> DEFINE a == SubSeq(q, 1, i - 1)
           b == SubSeq(q, i + 1, Len(q))
           r == remqueue(q, i)
<1>1. Len(q) \in Nat /\ DOMAIN q = 1 .. Len(q) /\ i \in Int
      /\ \A j \in 1 .. Len(q) : q[j] \in S
  OBVIOUS
<1>2. /\ a \in Seq(S) /\ Len(a) = i - 1
      /\ \A j \in 1 .. i - 1 : a[j] = q[j]
  BY <1>1, SubSeqProperties
<1>3. /\ b \in Seq(S) /\ Len(b) = Len(q) - i
      /\ \A j \in 1 .. Len(q) - i : b[j] = q[i + j]
  <2>1. i + 1 \in 1 .. Len(q) + 1 /\ Len(q) \in i .. Len(q)
    BY <1>1
  <2>2. b \in Seq(S) /\ Len(b) = Len(q) - i
    <3>1. /\ i + 1 \in Int /\ Len(q) \in Int
          /\ \A k \in i + 1 .. Len(q) : q[k] \in S
      BY <1>1
    <3>2. /\ b \in Seq(S)
          /\ Len(b) = IF i + 1 <= Len(q) THEN Len(q) - (i + 1) + 1 ELSE 0
      BY <3>1, SubSeqProperties, ZenonT(30)
    <3>3. \A n \in Nat : \A m \in 1 .. n :
            (IF m + 1 <= n THEN n - (m + 1) + 1 ELSE 0) = n - m
      OBVIOUS
    <3> QED
      BY <1>1, <3>2, <3>3, Zenon
  <2>3. ASSUME NEW j \in 1 .. Len(q) - i PROVE b[j] = q[i + j]
    BY <1>1, <2>1
  <2> QED
    BY <2>2, <2>3
<1>4. r = a \o b
  BY DEF remqueue
<1> HIDE DEF a, b, r
<1>5. /\ r \in Seq(S) /\ Len(r) = Len(q) - 1
      /\ \A j \in 1 .. Len(q) - 1 : r[j] = IF j < i THEN q[j] ELSE q[j + 1]
      /\ DOMAIN r = 1 .. Len(q) - 1
  <2>1. r \in Seq(S) /\ Len(r) = Len(q) - 1
    <3>1. a \o b \in Seq(S) /\ Len(a \o b) = Len(a) + Len(b)
      BY <1>2, <1>3, ConcatProperties, Zenon
    <3>2. Len(a) + Len(b) = Len(q) - 1
      BY <1>1, <1>2, <1>3
    <3> QED
      BY <3>1, <3>2, <1>4, Zenon
  <2>2. ASSUME NEW j \in 1 .. Len(q) - 1
        PROVE r[j] = IF j < i THEN q[j] ELSE q[j + 1]
    <3>1. CASE j < i
      BY <1>1, <1>2, <1>3, <1>4, <3>1
    <3>2. CASE ~(j < i)
      <4>1. j - (i - 1) \in 1 .. Len(q) - i /\ i + (j - (i - 1)) = j + 1
        BY <1>1, <3>2
      <4>2. r[j] = b[j - (i - 1)]
        BY <1>1, <1>2, <1>3, <1>4, <3>2
      <4> QED
        BY <3>2, <4>1, <4>2, <1>3, Zenon
    <3> QED
      BY <3>1, <3>2
  <2> QED
    BY <2>1, <2>2
<1>6. ASSUME IsInjective(q) PROVE Range(r) = Range(q) \ {q[i]}
  <2>1. ASSUME NEW j \in 1 .. Len(q) - 1 PROVE r[j] \in Range(q) \ {q[i]}
    <3>1. PICK k \in 1 .. Len(q) : k # i /\ r[j] = q[k]
      BY <1>1, <1>5
    <3> QED
      BY <1>1, <1>6, <3>1 DEF Range, IsInjective
  <2>2. ASSUME NEW j \in 1 .. Len(q), q[j] # q[i] PROVE q[j] \in Range(r)
    <3>1. CASE j < i
      BY <1>1, <1>5, <3>1 DEF Range
    <3>2. CASE ~(j < i)
      <4>1. j - 1 \in 1 .. Len(q) - 1 /\ (j - 1) + 1 = j /\ ~(j - 1 < i)
        BY <1>1, <3>2, <2>2
      <4> QED
        BY <1>1, <1>5, <4>1, Zenon DEF Range
    <3> QED
      BY <3>1, <3>2
  <2> QED
    BY <1>1, <1>5, <2>1, <2>2 DEF Range
<1>7. ASSUME IsInjective(q) PROVE IsInjective(r)
  <2> SUFFICES ASSUME NEW j \in 1 .. Len(q) - 1, NEW k \in 1 .. Len(q) - 1,
                      r[j] = r[k]
               PROVE  j = k
    BY <1>5 DEF IsInjective
  <2> DEFINE at(n) == IF n < i THEN n ELSE n + 1
  <2>1. /\ at(j) \in 1 .. Len(q) /\ at(k) \in 1 .. Len(q)
        /\ at(j) = at(k) => j = k
    BY <1>1
  <2>2. r[j] = q[at(j)] /\ r[k] = q[at(k)]
    BY <1>5
  <2> HIDE DEF at
  <2> QED
    BY <1>1, <1>7, <2>1, <2>2, Zenon DEF IsInjective
<1> QED
  BY <1>5, <1>6, <1>7 DEF r

\* remqueue of element x, if it is there.
LEMMA RmqueueFacts ==
    ASSUME NEW S, NEW q \in Seq(S), NEW x, IsInjective(q)
    PROVE  /\ ipc_thread_rmqueue(q, x) \in Seq(S)
           /\ Range(ipc_thread_rmqueue(q, x)) = Range(q) \ {x}
           /\ IsInjective(ipc_thread_rmqueue(q, x))
<1>1. CASE x \in Range(q)
  <2> DEFINE i == CHOOSE i \in DOMAIN q : q[i] = x
  <2>1. i \in DOMAIN q /\ q[i] = x
    BY <1>1 DEF Range
  <2>2. i \in 1 .. Len(q)
    BY <2>1
  <2>3. ipc_thread_rmqueue(q, x) = remqueue(q, i)
    BY <1>1 DEF ipc_thread_rmqueue
  <2> HIDE DEF i
  <2> QED
    BY <2>1, <2>2, <2>3, UnlinkFacts
<1>2. CASE x \notin Range(q)
  BY <1>2 DEF ipc_thread_rmqueue
<1> QED
  BY <1>1, <1>2

\* The first k elements are dequeued.
LEMMA DropFacts ==
    ASSUME NEW S, NEW q \in Seq(S), NEW k \in 0 .. Len(q)
    PROVE  /\ SubSeq(q, k + 1, Len(q)) \in Seq(S)
           /\ SubSeq(q, k + 1, Len(q)) # << >> => k < Len(q)
           /\ Range(SubSeq(q, k + 1, Len(q))) = {q[j] : j \in k + 1 .. Len(q)}
           /\ IsInjective(q) => IsInjective(SubSeq(q, k + 1, Len(q)))
<1> DEFINE r == SubSeq(q, k + 1, Len(q))
<1>1. Len(q) \in Nat /\ DOMAIN q = 1 .. Len(q) /\ k \in Nat
      /\ \A j \in 1 .. Len(q) : q[j] \in S
  OBVIOUS
<1>2. r \in Seq(S) /\ Len(r) = Len(q) - k
  <2>1. /\ k + 1 \in Int /\ Len(q) \in Int
        /\ \A j \in k + 1 .. Len(q) : q[j] \in S
    BY <1>1
  <2>2. /\ r \in Seq(S)
        /\ Len(r) = IF k + 1 <= Len(q) THEN Len(q) - (k + 1) + 1 ELSE 0
    BY <2>1, SubSeqProperties, ZenonT(30)
  <2>3. \A n \in Nat : \A m \in 0 .. n :
          (IF m + 1 <= n THEN n - (m + 1) + 1 ELSE 0) = n - m
    OBVIOUS
  <2> QED
    BY <1>1, <2>2, <2>3, Zenon
<1>3. ASSUME NEW j \in 1 .. Len(q) - k PROVE r[j] = q[k + j]
  BY <1>1
<1> HIDE DEF r
<1>4. DOMAIN r = 1 .. Len(q) - k
  BY <1>1, <1>2
<1>5. r # << >> => k < Len(q)
  BY <1>1, <1>2
<1>6. Range(r) = {q[j] : j \in k + 1 .. Len(q)}
  <2>1. ASSUME NEW j \in k + 1 .. Len(q) PROVE q[j] \in Range(r)
    <3>1. j - k \in 1 .. Len(q) - k /\ k + (j - k) = j
      BY <1>1
    <3> QED
      BY <1>3, <1>4, <3>1, Zenon DEF Range
  <2>2. ASSUME NEW j \in 1 .. Len(q) - k
        PROVE k + j \in k + 1 .. Len(q) /\ r[j] = q[k + j]
    BY <1>1, <1>3
  <2> QED
    BY <1>4, <2>1, <2>2 DEF Range
<1>7. IsInjective(q) => IsInjective(r)
  BY <1>1, <1>3, <1>4 DEF IsInjective
<1> QED
  BY <1>2, <1>5, <1>6, <1>7 DEF r
=============================================================================
