-------------------------- MODULE IpcMqueueProofs --------------------------
(***************************************************************************)
(* Proofs about the message queues: no sender stays blocked on a port that *)
(* has room for its message, whatever the number of threads, ports and     *)
(* sets, and receivers wait only where messages can arrive.                *)
(***************************************************************************)
EXTENDS IpcMqueueInvariant, FiniteSetTheorems
-----------------------------------------------------------------------------
(***************************************************************************)
(* Making room                                                             *)
(***************************************************************************)
\* The first k elements of a queue.
LEMMA TakeFacts ==
    ASSUME NEW S, NEW q \in Seq(S), NEW k \in 0 .. Len(q)
    PROVE  Range(SubSeq(q, 1, k)) = {q[j] : j \in 1 .. k}
<1> DEFINE r == SubSeq(q, 1, k)
<1>1. Len(q) \in Nat /\ k \in Nat
  OBVIOUS
<1>2. DOMAIN r = 1 .. k /\ \A j \in 1 .. k : r[j] = q[j]
  BY <1>1
<1> QED
  BY <1>2, Zenon DEF Range

LEMMA WokenCounted ==
    ASSUME ThreadsCounted, NEW p
    PROVE  /\ Woken(p) \in SUBSET Thread /\ Cardinality(Woken(p)) \in Nat
           /\ Woken(p)' \in SUBSET Thread /\ Cardinality(Woken(p)') \in Nat
<1>1. Woken(p) \in SUBSET Thread /\ Woken(p)' \in SUBSET Thread
  BY DEF Woken, Senders
<1> QED
  BY <1>1, Zenon DEF ThreadsCounted

\* Blocked senders wake of port p are let through: they leave its queue and,
\* like those let through before, are on their way.
LEMMA LetThrough ==
    ASSUME Shape, SendInv, NEW p \in Port, NEW wake, wake \subseteq Range(ip_blocked[p]),
           NEW rest \in Seq(Thread), IsInjective(rest), Range(rest) = Range(ip_blocked[p]) \ wake,
           ip_blocked' = [ip_blocked EXCEPT ![p] = rest],
           \A u \in Thread : pc[u] = "snd_wait" =>
               ith_state'[u] = IF u \in wake THEN "SUCCESS" ELSE ith_state[u],
           \A u \in Thread : pc[u] = "snd_wait" <=> pc'[u] = "snd_wait",
           \A u \in Thread : pc[u] = "snd_wait" => op'[u] = op[u]
    PROVE  /\ Blocked' /\ Sending'
           /\ Woken(p)' = Woken(p) \cup wake /\ Woken(p) \cap wake = {}
           /\ \A r \in Port : r # p => Woken(r)' = Woken(r) /\ ip_blocked'[r] = ip_blocked[r]
<1>1. /\ \A r \in Port : r # p => ip_blocked'[r] = ip_blocked[r]
      /\ ip_blocked'[p] = rest
  BY Zenon DEF Shape
<1>2. \A u \in wake : u \in Thread /\ pc[u] = "snd_wait" /\ op[u].obj = p /\ ith_state[u] # "SUCCESS"
  <2>1. Range(ip_blocked[p]) \subseteq Thread
    BY DEF Shape, Range
  <2> QED
    BY <2>1, Zenon DEF SendInv, Blocked
<1>3. Blocked'
  <2>1. ASSUME NEW r \in Port
        PROVE  /\ IsInjective(ip_blocked'[r])
               /\ \A u \in Thread : u \in Range(ip_blocked'[r]) <=>
                    pc'[u] = "snd_wait" /\ op'[u].obj = r /\ ith_state'[u] # "SUCCESS"
    <3>1. CASE r = p
      BY <1>1, <3>1 DEF SendInv, Blocked
    <3>2. CASE r # p
      BY <1>1, <1>2, <3>2 DEF SendInv, Blocked
    <3> QED
      BY <3>1, <3>2
  <2> QED
    BY <2>1 DEF Blocked
<1>4. Sending'
  BY DEF SendInv, Sending
<1>5. Woken(p)' = Woken(p) \cup wake /\ Woken(p) \cap wake = {}
  BY <1>2 DEF Woken, Senders
<1>6. ASSUME NEW r \in Port, r # p PROVE Woken(r)' = Woken(r)
  BY <1>2, <1>6 DEF Woken, Senders
<1> QED
  BY <1>1, <1>3, <1>4, <1>5, <1>6, Zenon

LEMMA FinishInv ==
    ASSUME IInv, ThreadsCounted, NEW t \in Thread, receive_finish(t)
    PROVE  IInv'
<1>1. /\ Shape /\ SendInv /\ Blocked /\ Sending /\ NoStrandedSender /\ ReceiveInv /\ pc[t] = "rcv_done"
  BY DEF IInv, SendInv, receive_finish
<1>2. PICK p \in Port : p = ith_kmsg[t].port
  <2>1. ith_kmsg[t] \in AnyKmsg
    BY <1>1 DEF ReceiveInv, Carrying, Carries
  <2> QED
    BY <2>1 DEF AnyKmsg
<1> DEFINE count == ip_msgcount[p] - 1
           wake == IF ip_blocked[p] # << >> /\ count < ip_qlimit[p]
                   THEN {Head(ip_blocked[p])} ELSE {}
<1>3. /\ pc' = [pc EXCEPT ![t] = "idle"] /\ op' = [op EXCEPT ![t] = NoOp]
      /\ ith_kmsg' = [ith_kmsg EXCEPT ![t] = NoKmsg]
      /\ UNCHANGED <<ip_active, ip_qlimit, ip_pset, ips_active, imq_messages, imq_threads, sent>>
  BY Zenon DEF receive_finish, Return, queueVars
<1>4. /\ \A u \in Thread : u # t =>
           pc'[u] = pc[u] /\ op'[u] = op[u] /\ ith_kmsg'[u] = ith_kmsg[u]
      /\ pc'[t] = "idle"
  BY <1>1, <1>3 DEF Shape
<1>5. CASE ~ip_active[p] /\ UNCHANGED <<ip_msgcount, ip_blocked, ith_state>>
  <2>1. Shape'
    BY <1>1, <1>3, <1>5 DEF Shape
  <2>2. SendInv'
    BY <1>1, <1>3, <1>4, <1>5, SendersUndisturbed
  <2>3. ReceiveInv'
    BY <1>1, <1>3, <1>4, <1>5, ReceiversUndisturbed
  <2> QED
    BY <2>1, <2>2, <2>3 DEF IInv
<1>6. CASE /\ ip_active[p]
           /\ ip_msgcount' = [ip_msgcount EXCEPT ![p] = count]
           /\ ip_blocked' = [ip_blocked EXCEPT ![p] = IF wake = {} THEN @ ELSE Tail(@)]
           /\ ith_state' = [u \in Thread |-> IF u \in wake THEN "SUCCESS" ELSE ith_state[u]]
  <2> DEFINE rest == IF wake = {} THEN ip_blocked[p] ELSE Tail(ip_blocked[p])
  <2>1. ip_blocked[p] \in Seq(Thread) /\ IsInjective(ip_blocked[p])
    BY <1>1, <1>2, Zenon DEF Shape, Blocked
  <2>2. /\ wake \subseteq Range(ip_blocked[p]) /\ rest \in Seq(Thread) /\ IsInjective(rest)
        /\ Range(rest) = Range(ip_blocked[p]) \ wake
    <3>1. CASE wake = {}
      BY <2>1, <3>1, Zenon
    <3>2. CASE wake # {}
      <4>1. ip_blocked[p] # << >> /\ wake = {Head(ip_blocked[p])}
        BY <3>2
      <4>2. rest = Tail(ip_blocked[p])
        BY <3>2, Zenon
      <4> HIDE DEF wake, rest
      <4> QED
        BY <2>1, <4>1, <4>2, DequeueFacts
    <3> QED
      BY <3>1, <3>2, Zenon
  <2>3. ip_blocked' = [ip_blocked EXCEPT ![p] = rest]
    BY <1>6
  <2>4. /\ wake # {} => \E h : wake = {h}
        /\ wake = {} => ip_blocked[p] = << >> \/ ip_msgcount[p] - 1 >= ip_qlimit[p]
    <3>1. ip_msgcount[p] \in Int /\ ip_qlimit[p] \in Int
      BY <1>1 DEF Shape
    <3>2. CASE ip_blocked[p] # << >> /\ count < ip_qlimit[p]
      <4>1. wake = {Head(ip_blocked[p])}
        BY <3>2, Zenon
      <4> QED
        BY <4>1, Zenon
    <3>3. CASE ~(ip_blocked[p] # << >> /\ count < ip_qlimit[p])
      BY <3>1, <3>3
    <3> QED
      BY <3>2, <3>3, Zenon
  <2>5. wake = {} => rest = ip_blocked[p]
    OBVIOUS
  <2>6. \A u \in Thread : ith_state'[u] = IF u \in wake THEN "SUCCESS" ELSE ith_state[u]
    BY <1>6
  <2>7. Shape'
    <3>1. ip_blocked' \in [Port -> Seq(Thread)]
      BY <1>1, <1>2, <2>2, <2>3, Zenon DEF Shape
    <3>2. ith_state' \in [Thread -> States]
      BY <1>1, <1>6 DEF Shape, States
    <3>3. ip_msgcount' \in [Port -> Int]
      BY <1>1, <1>2, <1>6 DEF Shape
    <3> QED
      BY <1>1, <1>3, <3>1, <3>2, <3>3, Zenon DEF Shape
  <2> HIDE DEF wake, rest
  <2>8. /\ Blocked' /\ Sending'
        /\ Woken(p)' = Woken(p) \cup wake /\ Woken(p) \cap wake = {}
        /\ \A r \in Port : r # p => Woken(r)' = Woken(r) /\ ip_blocked'[r] = ip_blocked[r]
    <3>1. /\ \A u \in Thread : pc[u] = "snd_wait" <=> pc'[u] = "snd_wait"
          /\ \A u \in Thread : pc[u] = "snd_wait" => op'[u] = op[u]
          /\ \A u \in Thread : pc[u] = "snd_wait" =>
               ith_state'[u] = IF u \in wake THEN "SUCCESS" ELSE ith_state[u]
      BY <1>1, <1>4, <2>6, Zenon
    <3> QED
      BY <1>1, <2>2, <2>3, <3>1, LetThrough, Zenon
  <2>9. NoStrandedSender'
    <3> SUFFICES ASSUME NEW r \in Port, ip_blocked'[r] # << >>
                 PROVE  /\ ip_active'[r]
                        /\ ip_qlimit'[r] - ip_msgcount'[r] <= Cardinality(Woken(r)')
      BY DEF NoStrandedSender
    <3>0. /\ ip_qlimit[r] \in Int /\ ip_msgcount[r] \in Int /\ ip_qlimit'[r] = ip_qlimit[r]
          /\ ip_active'[r] = ip_active[r]
      BY <1>1, <1>3 DEF Shape
    <3>a. /\ Woken(r) \in SUBSET Thread /\ Cardinality(Woken(r)) \in Nat
          /\ Cardinality(Woken(r)') \in Nat
      BY WokenCounted, Zenon
    <3>1. CASE r # p
      <4>1. ip_msgcount'[r] = ip_msgcount[r] /\ ip_blocked[r] # << >>
        BY <1>1, <1>6, <2>8, <3>1 DEF Shape
      <4> QED
        BY <1>1, <2>8, <3>0, <3>1, <4>1, Zenon DEF NoStrandedSender
    <3>2. CASE r = p
      <4>1. ip_msgcount'[p] = ip_msgcount[p] - 1 /\ ip_blocked'[p] = rest
        BY <1>1, <1>2, <1>6, <2>3, Zenon DEF Shape
      <4>2. CASE wake = {}
        <5>1. ip_msgcount[p] - 1 >= ip_qlimit[p]
          BY <2>4, <2>5, <3>2, <4>1, <4>2, Zenon
        <5>2. ip_qlimit'[r] - ip_msgcount'[r] <= 0
          BY <3>0, <3>2, <4>1, <5>1
        <5> QED
          BY <1>6, <3>0, <3>a, <3>2, <4>1, <5>2 DEF Shape
      <4>3. CASE wake # {}
        <5>1. PICK h : wake = {h}
          BY <2>4, <4>3, Zenon
        <5>2. Cardinality(Woken(p)') = Cardinality(Woken(p)) + 1
          <6>1. h \in Thread
            BY <2>1, <2>2, <5>1, ElementFacts, Zenon
          <6>2. Cardinality(wake) = 1 /\ wake \in SUBSET Thread
            BY <5>1, <6>1, Zenon DEF ThreadsCounted
          <6> QED
            BY <2>8, <3>a, <3>2, <6>2, Zenon DEF ThreadsCounted
        <5>3. ip_blocked[p] # << >>
          BY <2>2, <4>3, EmptyFacts
        <5>4. ip_qlimit[p] - ip_msgcount[p] <= Cardinality(Woken(p))
          BY <1>1, <1>2, <5>3 DEF NoStrandedSender
        <5>5. ip_qlimit'[r] - ip_msgcount'[r] <= Cardinality(Woken(r)')
          BY <3>0, <3>a, <3>2, <4>1, <5>2, <5>4
        <5> QED
          BY <1>6, <3>0, <3>2, <5>5
      <4> QED
        BY <4>2, <4>3, Zenon
    <3> QED
      BY <3>1, <3>2, Zenon
  <2>10. ReceiveInv'
    <3>1. \A u \in Thread : pc[u] = "rcv_wait" => u \notin wake
      BY <1>1, <1>2, <2>2, Zenon DEF Blocked
    <3> QED
      BY <1>1, <1>3, <1>4, <2>6, <3>1, ReceiversUndisturbed, Zenon
  <2> QED
    BY <2>7, <2>8, <2>9, <2>10, Zenon DEF IInv, SendInv
<1> QED
  BY <1>2, <1>5, <1>6, Zenon DEF receive_finish, waitVars

LEMMA SetQlimitInv ==
    ASSUME IInv, ThreadsCounted, NEW p \in Port, NEW limit \in Limits, ipc_port_set_qlimit(p, limit)
    PROVE  IInv'
<1> DEFINE more == limit - ip_qlimit[p]
           k == IF more > 0 THEN Min2(more, Len(ip_blocked[p])) ELSE 0
           wake == Range(SubSeq(ip_blocked[p], 1, k))
           rest == SubSeq(ip_blocked[p], k + 1, Len(ip_blocked[p]))
<1>1. /\ Shape /\ SendInv /\ Blocked /\ NoStrandedSender /\ ReceiveInv
      /\ ip_qlimit[p] \in Int /\ ip_msgcount[p] \in Int /\ limit \in Int
      /\ ip_blocked[p] \in Seq(Thread) /\ IsInjective(ip_blocked[p]) /\ Len(ip_blocked[p]) \in Nat
  BY ConstantsAssumption DEF IInv, SendInv, Shape, Blocked
<1>2. /\ ip_active[p] /\ ip_qlimit' = [ip_qlimit EXCEPT ![p] = limit]
      /\ ip_blocked' = [ip_blocked EXCEPT ![p] = rest]
      /\ ith_state' = [u \in Thread |-> IF u \in wake THEN "SUCCESS" ELSE ith_state[u]]
      /\ UNCHANGED <<ip_active, ip_msgcount, ip_pset, ips_active, imq_messages, imq_threads,
                     ith_kmsg, pc, op, sent>>
  BY DEF ipc_port_set_qlimit, queueVars, threadVars
<1>3. /\ k \in 0 .. Len(ip_blocked[p]) /\ k \in Nat
      /\ k < Len(ip_blocked[p]) => more <= k
  <2> DEFINE n == Len(ip_blocked[p])
  <2>1. more \in Int /\ n \in Nat
    BY <1>1
  <2> HIDE DEF more, n
  <2>2. \A m \in Int : \A l \in Nat :
          LET j == IF m > 0 THEN (IF m < l THEN m ELSE l) ELSE 0
          IN  j \in 0 .. l /\ j \in Nat /\ (j < l => m <= j)
    OBVIOUS
  <2>3. k = IF more > 0 THEN (IF more < n THEN more ELSE n) ELSE 0
    BY DEF Min2, n
  <2> HIDE DEF k
  <2> QED
    BY <2>1, <2>2, <2>3 DEF n
<1> HIDE DEF k
<1>4. /\ wake = {ip_blocked[p][j] : j \in 1 .. k}
      /\ Cardinality(wake) = k
  <2>1. wake = {ip_blocked[p][j] : j \in 1 .. k}
    BY <1>1, <1>3, TakeFacts, Zenon
  <2>2. Cardinality({ip_blocked[p][j] : j \in 1 .. k}) = k
    BY <1>1, <1>3, Zenon DEF ThreadsCounted
  <2> QED
    BY <2>1, <2>2, Zenon
<1>5. /\ rest \in Seq(Thread) /\ IsInjective(rest)
      /\ rest # << >> => k < Len(ip_blocked[p])
      /\ Range(rest) = {ip_blocked[p][j] : j \in k + 1 .. Len(ip_blocked[p])}
  BY <1>1, <1>3, DropFacts, Zenon
<1> HIDE DEF wake, rest
<1>6. wake \subseteq Range(ip_blocked[p]) /\ Range(rest) = Range(ip_blocked[p]) \ wake
  <2> DEFINE q == ip_blocked[p]
  <2>1. DOMAIN q = 1 .. Len(q) /\ IsInjective(q) /\ Len(q) \in Nat
    BY <1>1
  <2>2. Range(q) = {q[j] : j \in 1 .. Len(q)}
    BY <2>1 DEF Range
  <2>3. /\ 1 .. k \subseteq 1 .. Len(q) /\ k + 1 .. Len(q) \subseteq 1 .. Len(q)
        /\ \A j \in 1 .. Len(q) : j \in 1 .. k \/ j \in k + 1 .. Len(q)
        /\ \A i \in 1 .. k, j \in k + 1 .. Len(q) : i # j
    BY <1>3, <2>1
  <2>4. \A i \in 1 .. k, j \in k + 1 .. Len(q) : q[i] # q[j]
    BY <2>1, <2>3 DEF IsInjective
  <2> HIDE DEF q
  <2>5. wake = {q[j] : j \in 1 .. k} /\ Range(rest) = {q[j] : j \in k + 1 .. Len(q)}
    BY <1>4, <1>5 DEF q
  <2>6. wake \subseteq Range(q)
    BY <2>2, <2>3, <2>5
  <2>7. Range(rest) = Range(q) \ wake
    BY <2>2, <2>3, <2>4, <2>5
  <2> QED
    BY <2>6, <2>7 DEF q
<1>7. \A u \in Thread : ith_state'[u] = IF u \in wake THEN "SUCCESS" ELSE ith_state[u]
  BY <1>2
<1>8. /\ Blocked' /\ Sending'
      /\ Woken(p)' = Woken(p) \cup wake /\ Woken(p) \cap wake = {}
      /\ \A r \in Port : r # p => Woken(r)' = Woken(r) /\ ip_blocked'[r] = ip_blocked[r]
  BY <1>1, <1>2, <1>5, <1>6, <1>7, LetThrough, Zenon
<1>9. Shape'
  <2>1. ip_blocked' \in [Port -> Seq(Thread)]
    BY <1>1, <1>2, <1>5, Zenon DEF Shape
  <2>2. ith_state' \in [Thread -> States]
    BY <1>1, <1>2 DEF Shape, States
  <2>3. ip_qlimit' \in [Port -> Int]
    BY <1>1, <1>2 DEF Shape
  <2> QED
    BY <1>1, <1>2, <2>1, <2>2, <2>3, Zenon DEF Shape
<1>10. NoStrandedSender'
  <2> SUFFICES ASSUME NEW r \in Port, ip_blocked'[r] # << >>
               PROVE  /\ ip_active'[r]
                      /\ ip_qlimit'[r] - ip_msgcount'[r] <= Cardinality(Woken(r)')
    BY DEF NoStrandedSender
  <2>0. Cardinality(Woken(r)) \in Nat /\ Woken(r) \in SUBSET Thread
    BY WokenCounted, Zenon
  <2>1. CASE r # p
    BY <1>1, <1>2, <1>8, <2>1 DEF NoStrandedSender, Shape
  <2>2. CASE r = p
    <3>1. ip_blocked'[p] = rest /\ ip_qlimit'[p] = limit /\ ip_msgcount' = ip_msgcount /\ ip_active' = ip_active
      BY <1>1, <1>2 DEF Shape
    <3>2. k < Len(ip_blocked[p]) /\ more <= k
      BY <1>3, <1>5, <2>2, <3>1, Zenon
    <3>3. ip_blocked[p] # << >>
      BY <1>1, <1>3, <3>2
    <3>4. ip_qlimit[p] - ip_msgcount[p] <= Cardinality(Woken(p))
      BY <1>1, <3>3 DEF NoStrandedSender
    <3>5. Cardinality(Woken(p)') = Cardinality(Woken(p)) + k
      <4>1. wake \in SUBSET Thread
        BY <1>1, <1>6, ElementFacts, Zenon
      <4>2. Cardinality(Woken(p) \cup wake) = Cardinality(Woken(p)) + Cardinality(wake)
        BY <1>8, <2>0, <2>2, <4>1, Zenon DEF ThreadsCounted
      <4> QED
        BY <1>4, <1>8, <4>2, Zenon
    <3>6. limit - ip_msgcount[p] <= Cardinality(Woken(p)) + k
      <4>1. /\ ip_qlimit[p] \in Int /\ ip_msgcount[p] \in Int /\ limit \in Int
            /\ Cardinality(Woken(p)) \in Nat
        BY <1>1, <2>0, <2>2, Zenon DEF Shape
      <4>2. k \in Int /\ limit - ip_qlimit[p] <= k
        BY <1>3, <3>2, <4>1
      <4> QED
        BY <3>4, <4>1, <4>2
    <3> QED
      BY <1>2, <2>2, <3>1, <3>5, <3>6, Zenon
  <2> QED
    BY <2>1, <2>2, Zenon
<1>11. ReceiveInv'
  <2>1. \A u \in Thread : pc[u] = "rcv_wait" => u \notin wake
    BY <1>1, <1>6, Zenon DEF Blocked
  <2> QED
    BY <1>1, <1>2, <1>7, <2>1, ReceiversUndisturbed
<1> QED
  BY <1>8, <1>9, <1>10, <1>11, Zenon DEF IInv, SendInv

LEMMA DestroyInv ==
    ASSUME IInv, PickSound, NEW p \in Port, ipc_port_destroy(p)
    PROVE  IInv'
<1> DEFINE senders == Range(ip_blocked[p])
           gone == Range(imq_threads[p])
           q == MqueueOf(p)
<1>1. /\ Shape /\ SendInv /\ Blocked /\ NoStrandedSender
      /\ Receiving /\ Carrying /\ NobodyWaitsInVain
      /\ p \in Queue /\ q \in Queue
  BY DEF IInv, SendInv, ReceiveInv, Queue, MqueueOf, Shape
<1>2. /\ ip_active' = [ip_active EXCEPT ![p] = FALSE]
      /\ ip_pset' = [ip_pset EXCEPT ![p] = NoPset]
      /\ ip_blocked' = [ip_blocked EXCEPT ![p] = << >>]
      /\ imq_messages' = [imq_messages EXCEPT ![q] = Remainder(q, p)]
      /\ imq_threads' = [imq_threads EXCEPT ![p] = << >>]
      /\ ith_state' = [u \in Thread |-> IF u \in senders THEN "SUCCESS"
                                        ELSE IF u \in gone THEN "PORT_DIED" ELSE ith_state[u]]
      /\ UNCHANGED <<ip_msgcount, ip_qlimit, ips_active, ith_kmsg, pc, op, sent>>
  BY DEF ipc_port_destroy, threadVars
<1>3. /\ Remainder(q, p) \in Seq(AnyKmsg)
      /\ imq_messages[q] = << >> => Remainder(q, p) = << >>
  <2> DEFINE M == imq_messages[q]
             Others == {j \in DOMAIN M : M[j].port # p}
  <2>1. Remainder(q, p) = Pick(M, Others)
    BY DEF Remainder
  <2>2. Others \subseteq DOMAIN M /\ (M = << >> => Others = {})
    OBVIOUS
  <2>3. M \in Seq(AnyKmsg)
    BY <1>1 DEF Shape
  <2> HIDE DEF M, Others
  <2>4. Pick(M, Others) \in Seq(AnyKmsg) /\ (Others = {} => Pick(M, Others) = << >>)
    BY <2>2, <2>3, Zenon DEF PickSound
  <2> QED
    BY <2>1, <2>2, <2>4 DEF M
<1>4. /\ \A u \in senders : u \in Thread /\ pc[u] = "snd_wait"
      /\ \A u \in gone : pc[u] = "rcv_wait" /\ op[u].obj = p
  <2>1. senders \subseteq Thread
    BY <1>1 DEF Shape, Range
  <2> QED
    BY <1>1, <2>1, Zenon DEF Blocked, Receiving
<1>5. /\ \A u \in Thread : pc[u] = "snd_wait" =>
           ith_state'[u] = IF u \in senders THEN "SUCCESS" ELSE ith_state[u]
      /\ \A u \in Thread : pc[u] = "rcv_wait" =>
           ith_state'[u] = IF u \in gone THEN "PORT_DIED" ELSE ith_state[u]
  BY <1>2, <1>4, Zenon
<1>6. Shape'
  <2>1. ip_blocked' \in [Port -> Seq(Thread)] /\ imq_threads' \in [Queue -> Seq(Thread)]
    BY <1>1, <1>2 DEF Shape
  <2>2. ith_state' \in [Thread -> States]
    BY <1>1, <1>2 DEF Shape, States
  <2>3. imq_messages' \in [Queue -> Seq(AnyKmsg)]
    BY <1>1, <1>2, <1>3 DEF Shape
  <2>4. ip_active' \in [Port -> BOOLEAN] /\ ip_pset' \in [Port -> Pset \cup {NoPset}]
    BY <1>1, <1>2 DEF Shape
  <2> QED
    BY <1>1, <1>2, <2>1, <2>2, <2>3, <2>4, Zenon DEF Shape
<1> HIDE DEF senders, gone, q
<1>7. /\ Blocked' /\ Sending'
      /\ \A r \in Port : r # p => Woken(r)' = Woken(r) /\ ip_blocked'[r] = ip_blocked[r]
  <2>1. << >> \in Seq(Thread) /\ Range(<< >>) = senders \ senders /\ IsInjective(<< >>)
    BY EmptyFacts
  <2>2. senders \subseteq Range(ip_blocked[p]) /\ Range(<< >>) = Range(ip_blocked[p]) \ senders
    BY <2>1 DEF senders
  <2> QED
    BY <1>1, <1>2, <1>5, <2>1, <2>2, LetThrough, Zenon
<1>8. NoStrandedSender'
  <2>1. ip_blocked'[p] = << >>
    BY <1>1, <1>2 DEF Shape
  <2>2. \A r \in Port : r # p => ip_active'[r] = ip_active[r]
    BY <1>1, <1>2 DEF Shape
  <2> QED
    BY <1>1, <1>2, <1>7, <2>1, <2>2, Zenon DEF NoStrandedSender
<1>9. imq_threads'[p] = << >> /\ \A r \in Queue : r # p => imq_threads'[r] = imq_threads[r]
  BY <1>1, <1>2 DEF Shape
<1>10. Receiving'
  <2>1. ASSUME NEW r \in Queue
        PROVE  /\ IsInjective(imq_threads'[r])
               /\ \A u \in Range(imq_threads'[r]) :
                    pc'[u] = "rcv_wait" /\ op'[u].obj = r /\ ith_state'[u] = "RCV_IN_PROGRESS"
    <3>1. CASE r = p
      BY <1>9, <3>1, EmptyFacts, Zenon
    <3>2. CASE r # p
      <4>1. \A u \in Range(imq_threads[r]) : u \in Thread
        BY <1>1, SMTT(30) DEF Shape, Range
      <4>2. \A u \in Range(imq_threads[r]) : u \notin gone
        BY <1>1, <1>4, <3>2 DEF Receiving
      <4>3. /\ imq_threads'[r] = imq_threads[r] /\ IsInjective(imq_threads[r])
            /\ \A u \in Range(imq_threads[r]) :
                 pc[u] = "rcv_wait" /\ op[u].obj = r /\ ith_state[u] = "RCV_IN_PROGRESS"
        BY <1>1, <1>9, <3>2, Zenon DEF Receiving
      <4> QED
        BY <1>2, <1>5, <4>1, <4>2, <4>3, ZenonT(30)
    <3> QED
      BY <3>1, <3>2, Zenon
  <2> QED
    BY <1>1, <1>2, <2>1, Zenon DEF Receiving
<1>11. Carrying'
  BY <1>1, <1>2, <1>5, Zenon DEF Carrying, Carries
<1>12. NobodyWaitsInVain'
  <2> SUFFICES ASSUME NEW r \in Queue, imq_threads'[r] # << >>
               PROVE  /\ imq_messages'[r] = << >>
                      /\ r \in Pset => ips_active'[r]
                      /\ r \in Port => ip_active'[r] /\ ip_pset'[r] = NoPset
    BY Zenon DEF NobodyWaitsInVain
  <2>1. r # p /\ imq_threads[r] # << >>
    BY <1>9, ZenonT(30)
  <2>2. /\ imq_messages[r] = << >>
        /\ r \in Pset => ips_active[r]
        /\ r \in Port => ip_active[r] /\ ip_pset[r] = NoPset
    BY <1>1, <2>1, ZenonT(30) DEF NobodyWaitsInVain
  <2>3. imq_messages'[r] = << >>
    BY <1>1, <1>2, <1>3, <2>2 DEF Shape
  <2> QED
    BY <1>1, <1>2, <2>1, <2>2, <2>3, ZenonT(30) DEF Shape
<1> QED
  BY <1>6, <1>7, <1>8, <1>10, <1>11, <1>12, Zenon DEF IInv, SendInv, ReceiveInv
-----------------------------------------------------------------------------
(***************************************************************************)
(* Sending                                                                 *)
(***************************************************************************)
\* The queues of blocked senders once t is not on any.
Without(t, blocked) ==
    /\ blocked \in [Port -> Seq(Thread)]
    /\ \A r \in Port : /\ IsInjective(blocked[r])
                       /\ Range(blocked[r]) = Range(ip_blocked[r]) \ {t}
                       /\ blocked[r] # << >> => ip_blocked[r] # << >>

\* Sender t, to port p, leaves ipc_mqueue_send.
LEMMA SenderLeaves ==
    ASSUME Shape, Blocked, Sending, NEW t \in Thread, NEW p \in Port,
           pc[t] = "idle" \/ (pc[t] = "snd_wait" /\ op[t].obj = p),
           Without(t, ip_blocked'),
           pc'[t] # "snd_wait",
           \A u \in Thread : u # t => pc'[u] = pc[u] /\ op'[u] = op[u],
           \A u \in Thread : u # t /\ pc[u] = "snd_wait" => ith_state'[u] = ith_state[u]
    PROVE  /\ Blocked' /\ Sending' /\ Woken(p)' = Woken(p) \ {t}
           /\ \A r \in Port : r # p => Woken(r)' = Woken(r)
<1>1. Blocked'
  BY SMTT(30) DEF Blocked, Without
<1>2. Sending'
  BY DEF Sending
<1>3. Woken(p)' = Woken(p) \ {t}
  BY DEF Woken, Senders
<1>4. ASSUME NEW r \in Port, r # p PROVE Woken(r)' = Woken(r)
  BY <1>4 DEF Woken, Senders
<1> QED
  BY <1>1, <1>2, <1>3, <1>4, Zenon

\* A sender that finds no room, or a dead port, and gives up, or is interrupted
\* before it was let through.
LEMMA GiveUpInv ==
    ASSUME IInv, ThreadsCounted, NEW t \in Thread, NEW p \in Port,
           pc[t] = "idle" \/ (pc[t] = "snd_wait" /\ op[t].obj = p),
           Without(t, ip_blocked'),
           ~ip_active[p] \/ ~(ip_msgcount[p] < ip_qlimit[p]) \/ t \notin Woken(p),
           pc' = [pc EXCEPT ![t] = "idle"] \/ pc' = [pc EXCEPT ![t] = "panic"],
           op' = [op EXCEPT ![t] = NoOp] \/ op' = op,
           UNCHANGED <<ip_active, ip_msgcount, ip_qlimit, ip_pset, ips_active, imq_messages,
                       imq_threads, ith_state, ith_kmsg, sent>>
    PROVE  IInv'
<1>1. Shape /\ Blocked /\ Sending /\ NoStrandedSender /\ ReceiveInv
  BY DEF IInv, SendInv
<1>2. /\ \A u \in Thread : u # t => pc'[u] = pc[u] /\ op'[u] = op[u]
      /\ pc'[t] \in {"idle", "panic"}
  BY <1>1 DEF Shape
<1>3. /\ Blocked' /\ Sending' /\ Woken(p)' = Woken(p) \ {t}
      /\ \A r \in Port : r # p => Woken(r)' = Woken(r)
  <2>1. pc'[t] # "snd_wait" /\ \A u \in Thread : ith_state'[u] = ith_state[u]
    BY <1>2, Zenon
  <2> QED
    BY <1>1, <1>2, <2>1, SenderLeaves, Zenon
<1>4. Shape'
  <2>1. pc' \in [Thread -> {"idle", "snd_wait", "rcv_wait", "rcv_done", "panic"}]
    BY <1>1, Zenon DEF Shape
  <2>2. op' \in [Thread -> Ops \cup {NoOp}]
    BY <1>1, Zenon DEF Shape
  <2>3. ip_blocked' \in [Port -> Seq(Thread)]
    BY DEF Without
  <2> QED
    BY <1>1, <2>1, <2>2, <2>3, Zenon DEF Shape
<1>5. NoStrandedSender'
  <2> SUFFICES ASSUME NEW r \in Port, ip_blocked'[r] # << >>
               PROVE  /\ ip_active'[r]
                      /\ ip_qlimit'[r] - ip_msgcount'[r] <= Cardinality(Woken(r)')
    BY Zenon DEF NoStrandedSender
  <2>1. ip_active[r] /\ ip_qlimit[r] - ip_msgcount[r] <= Cardinality(Woken(r))
    BY <1>1 DEF NoStrandedSender, Without
  <2>2. ip_qlimit[r] \in Int /\ ip_msgcount[r] \in Int /\ Cardinality(Woken(r)') \in Nat
    BY <1>1, WokenCounted, Zenon DEF Shape
  <2>3. CASE r # p \/ t \notin Woken(p)
    <3>1. Woken(r)' = Woken(r)
      BY <1>3, <2>3, Zenon
    <3> QED
      BY <2>1, <3>1, Zenon
  <2>4. CASE r = p /\ t \in Woken(p)
    BY <2>1, <2>2, <2>4
  <2> QED
    BY <2>3, <2>4, Zenon
<1>6. ReceiveInv'
  BY <1>1, <1>2, ReceiversUndisturbed, ZenonT(30)
<1> QED
  BY <1>3, <1>4, <1>5, <1>6, Zenon DEF IInv, SendInv

\* A sender for whom there is no room waits (again).
LEMMA BlockInv ==
    ASSUME IInv, ThreadsCounted, NEW t \in Thread, NEW o \in Ops, NEW p \in Port, o.obj = p,
           pc[t] = "idle" \/ (pc[t] = "snd_wait" /\ op[t].obj = p),
           NEW blocked, Without(t, blocked),
           ip_active[p], ~(ip_msgcount[p] < ip_qlimit[p]),
           ip_blocked' = [blocked EXCEPT ![p] = Append(@, t)],
           ith_state' = [ith_state EXCEPT ![t] = "SEND_IN_PROGRESS"],
           pc' = [pc EXCEPT ![t] = "snd_wait"], op' = [op EXCEPT ![t] = o],
           UNCHANGED <<ip_active, ip_msgcount, ip_qlimit, ip_pset, ips_active, imq_messages,
                       imq_threads, ith_kmsg, sent>>
    PROVE  IInv'
<1>1. Shape /\ Blocked /\ Sending /\ NoStrandedSender /\ ReceiveInv
  BY Zenon DEF IInv, SendInv
<1>2. /\ \A u \in Thread : u # t =>
           pc'[u] = pc[u] /\ op'[u] = op[u] /\ ith_state'[u] = ith_state[u]
      /\ pc'[t] = "snd_wait" /\ op'[t] = o /\ ith_state'[t] = "SEND_IN_PROGRESS"
  BY <1>1, Zenon DEF Shape
<1>3. /\ Append(blocked[p], t) \in Seq(Thread) /\ IsInjective(Append(blocked[p], t))
      /\ Range(Append(blocked[p], t)) = Range(blocked[p]) \cup {t}
  <2>1. blocked[p] \in Seq(Thread) /\ IsInjective(blocked[p]) /\ t \notin Range(blocked[p])
    BY DEF Without
  <2> DEFINE b == blocked[p]
  <2>2. b \in Seq(Thread) /\ IsInjective(b) /\ t \notin Range(b)
    BY <2>1, Zenon
  <2> HIDE DEF b
  <2>3. /\ Append(b, t) \in Seq(Thread) /\ IsInjective(Append(b, t))
        /\ Range(Append(b, t)) = Range(b) \cup {t}
    BY <2>2, EnqueueFacts, ZenonT(30)
  <2> QED
    BY <2>3, Zenon DEF b
<1>4. /\ ip_blocked'[p] = Append(blocked[p], t)
      /\ \A r \in Port : r # p => ip_blocked'[r] = blocked[r]
      /\ ip_blocked' \in [Port -> Seq(Thread)]
  BY <1>3 DEF Without
<1>5. Shape'
  <2>1. pc' \in [Thread -> {"idle", "snd_wait", "rcv_wait", "rcv_done", "panic"}]
    BY <1>1 DEF Shape
  <2>2. op' \in [Thread -> Ops \cup {NoOp}]
    BY <1>1 DEF Shape
  <2>3. ith_state' \in [Thread -> States]
    BY <1>1, ZenonT(30) DEF Shape, States
  <2> QED
    BY <1>1, <1>4, <2>1, <2>2, <2>3, Zenon DEF Shape
<1>6. Blocked'
  <2>1. ASSUME NEW r \in Port
        PROVE  /\ IsInjective(ip_blocked'[r])
               /\ \A u \in Thread : u \in Range(ip_blocked'[r]) <=>
                    pc'[u] = "snd_wait" /\ op'[u].obj = r /\ ith_state'[u] # "SUCCESS"
    <3>1. IsInjective(blocked[r]) /\ Range(blocked[r]) = Range(ip_blocked[r]) \ {t}
      BY Zenon DEF Without
    <3>2. CASE r = p
      <4>1. /\ IsInjective(ip_blocked'[r])
            /\ Range(ip_blocked'[r]) = (Range(ip_blocked[r]) \ {t}) \cup {t}
        BY <1>3, <1>4, <3>1, <3>2, Zenon
      <4>2. \A u \in Thread : u \in Range(ip_blocked[r]) <=>
               pc[u] = "snd_wait" /\ op[u].obj = r /\ ith_state[u] # "SUCCESS"
        BY <1>1, Zenon DEF Blocked
      <4> QED
        BY <1>2, <3>2, <4>1, <4>2
    <3>3. CASE r # p
      BY <1>1, <1>2, <1>4, <3>1, <3>3 DEF Blocked
    <3> QED
      BY <3>2, <3>3, Zenon
  <2> QED
    BY <2>1 DEF Blocked
<1>7. Sending'
  BY <1>1, <1>2, ZenonT(30) DEF Sending
<1>8. NoStrandedSender'
  <2> SUFFICES ASSUME NEW r \in Port, ip_blocked'[r] # << >>
               PROVE  /\ ip_active'[r]
                      /\ ip_qlimit'[r] - ip_msgcount'[r] <= Cardinality(Woken(r)')
    BY Zenon DEF NoStrandedSender
  <2>1. CASE r = p
    <3>1. ip_qlimit[r] \in Int /\ ip_msgcount[r] \in Int /\ Cardinality(Woken(r)') \in Nat
      BY <1>1, WokenCounted, Zenon DEF Shape
    <3> QED
      BY <2>1, <3>1
  <2>2. CASE r # p
    <3>1. Woken(r)' = Woken(r)
      BY <1>2, <2>2, ZenonT(30) DEF Woken, Senders
    <3>2. ip_blocked[r] # << >>
      BY <1>4, <2>2, Zenon DEF Without
    <3> QED
      BY <1>1, <3>1, <3>2, ZenonT(30) DEF NoStrandedSender
  <2> QED
    BY <2>1, <2>2, Zenon
<1>9. ReceiveInv'
  BY <1>1, <1>2, ReceiversUndisturbed, Zenon
<1> QED
  BY <1>5, <1>6, <1>7, <1>8, <1>9, ZenonT(30) DEF IInv, SendInv

\* The message is queued or given to a receiver.
LEMMA AcceptInv ==
    ASSUME IInv, ThreadsCounted, NEW t \in Thread, NEW p \in Port, NEW size \in Size,
           pc[t] = "idle" \/ (pc[t] = "snd_wait" /\ op[t].obj = p),
           NEW blocked, Without(t, blocked), Accept(t, p, size, blocked)
    PROVE  IInv'
<1>1. /\ Shape /\ Blocked /\ Sending /\ NoStrandedSender
      /\ Receiving /\ Carrying /\ NobodyWaitsInVain
  BY DEF IInv, SendInv, ReceiveInv
<1>2. PICK q \in Queue : q = MqueueOf(p)
  BY <1>1 DEF MqueueOf, Shape, Queue
<1> DEFINE ms == <<[port |-> p, n |-> sent[p] + 1, size |-> size]>>
<1>3. ms \in Seq(AnyKmsg)
  <2>1. sent[p] + 1 \in Nat
    BY <1>1, SMTT(30) DEF Shape
  <2>2. [port |-> p, n |-> sent[p] + 1, size |-> size] \in AnyKmsg
    BY <2>1, Zenon DEF AnyKmsg
  <2> QED
    BY <2>2
<1>4. PICK f \in Turns(imq_threads[q], ms) :
        LET d == Deliver(q, ms, f) IN
        /\ ip_msgcount' = [ip_msgcount EXCEPT ![p] = @ + 1]
        /\ ip_blocked' = blocked
        /\ imq_messages' = [imq_messages EXCEPT ![q] = d.messages]
        /\ imq_threads' = [imq_threads EXCEPT ![q] = d.threads]
        /\ Notify(d, {}, "SUCCESS")
        /\ sent' = [sent EXCEPT ![p] = @ + 1]
        /\ pc' = [pc EXCEPT ![t] = "idle"] /\ op' = [op EXCEPT ![t] = NoOp]
        /\ UNCHANGED <<ip_active, ip_qlimit, ip_pset, ips_active>>
  BY <1>2, ZenonT(30) DEF Accept
<1> DEFINE d == Deliver(q, ms, f)
           R == Range(imq_threads[q])
           S == R \ Range(d.threads)
<1> HIDE DEF ms, d
<1>5. /\ d.threads \in Seq(Thread) /\ IsInjective(d.threads)
      /\ Range(d.threads) \subseteq R
      /\ \A g \in d.given \cup d.small :
           g[1] \in R /\ g[1] \notin Range(d.threads) /\ g[2] \in AnyKmsg
      /\ d.messages \in Seq(AnyKmsg)
      /\ d.threads # << >> => d.messages = imq_messages[q] /\ imq_threads[q] # << >>
  <2>1. d = Deliver(q, ms, f)
    BY Zenon DEF d
  <2>2. Delivered(d, q)
    BY <1>1, <1>3, <2>1, DeliverFacts, Zenon
  <2> QED
    BY <2>2, Zenon DEF Delivered, R
<1>6. /\ ip_msgcount' = [ip_msgcount EXCEPT ![p] = @ + 1]
      /\ ip_blocked' = blocked
      /\ imq_messages' = [imq_messages EXCEPT ![q] = d.messages]
      /\ imq_threads' = [imq_threads EXCEPT ![q] = d.threads]
      /\ Notify(d, {}, "SUCCESS")
      /\ sent' = [sent EXCEPT ![p] = @ + 1]
      /\ pc' = [pc EXCEPT ![t] = "idle"] /\ op' = [op EXCEPT ![t] = NoOp]
      /\ UNCHANGED <<ip_active, ip_qlimit, ip_pset, ips_active>>
  BY <1>4, Zenon DEF d
<1>7. /\ ith_state' \in [Thread -> States]
      /\ ith_kmsg' \in [Thread -> AnyKmsg \cup {NoKmsg}]
      /\ \A u \in Thread : u \notin S =>
           ith_state'[u] = ith_state[u] /\ ith_kmsg'[u] = ith_kmsg[u]
      /\ \A u \in Thread : ith_kmsg'[u] = ith_kmsg[u] \/ ith_kmsg'[u] \in AnyKmsg
      /\ \A u \in Thread : u \in S /\ ith_state'[u] = "SUCCESS" =>
           ith_kmsg'[u] \in AnyKmsg \/ ith_state[u] = "SUCCESS"
  <2>1. "SUCCESS" \in States
    BY ZenonT(30) DEF States
  <2>2. \A g \in d.given \cup d.small : g[1] \in S /\ g[2] \in AnyKmsg
    BY <1>5, Zenon
  <2> HIDE DEF S
  <2>3. /\ ith_state' \in [Thread -> States]
        /\ ith_kmsg' \in [Thread -> AnyKmsg \cup {NoKmsg}]
        /\ \A u \in Thread : u \notin S /\ u \notin {} =>
             ith_state'[u] = ith_state[u] /\ ith_kmsg'[u] = ith_kmsg[u]
        /\ \A u \in Thread : ith_kmsg'[u] = ith_kmsg[u] \/ ith_kmsg'[u] \in AnyKmsg
        /\ \A u \in Thread : u \in S \cup {} /\ ith_state'[u] = "SUCCESS" =>
             ith_kmsg'[u] \in AnyKmsg \/ ith_state[u] = "SUCCESS"
    BY <1>1, <1>6, <2>1, <2>2, NotifyFacts, ZenonT(30)
  <2> QED
    BY <2>3, Zenon
<1>8. Shape'
  <2>1. ip_blocked' \in [Port -> Seq(Thread)]
    BY <1>6, Zenon DEF Without
  <2>2. ip_msgcount' \in [Port -> Int] /\ sent' \in [Port -> Nat]
    BY <1>1, <1>6, SMTT(30) DEF Shape
  <2>3. imq_messages' \in [Queue -> Seq(AnyKmsg)] /\ imq_threads' \in [Queue -> Seq(Thread)]
    BY <1>1, <1>5, <1>6, Zenon DEF Shape
  <2>4. /\ pc' \in [Thread -> {"idle", "snd_wait", "rcv_wait", "rcv_done", "panic"}]
        /\ op' \in [Thread -> Ops \cup {NoOp}]
    BY <1>1, <1>6, Zenon DEF Shape
  <2> QED
    BY <1>1, <1>6, <1>7, <2>1, <2>2, <2>3, <2>4, Zenon DEF Shape
<1>9. /\ \A u \in Thread : u # t => pc'[u] = pc[u] /\ op'[u] = op[u]
      /\ pc'[t] = "idle"
  BY <1>1, <1>6 DEF Shape
<1>10. \A u \in R : pc[u] = "rcv_wait" /\ u \in Thread /\ u # t
  <2>1. R \subseteq Thread
    <3>1. imq_threads[q] \in Seq(Thread)
      BY <1>1, Zenon DEF Shape
    <3> QED
      BY <3>1, ElementFacts, Zenon DEF R
  <2> QED
    BY <1>1, <2>1, ZenonT(30) DEF Receiving
<1> HIDE DEF R
<1>11. /\ Blocked' /\ Sending' /\ Woken(p)' = Woken(p) \ {t}
       /\ \A r \in Port : r # p => Woken(r)' = Woken(r)
  <2>1. \A u \in Thread : u # t /\ pc[u] = "snd_wait" => ith_state'[u] = ith_state[u]
    BY <1>7, <1>10, ZenonT(30)
  <2>2. Without(t, ip_blocked')
    BY <1>6, ZenonT(30)
  <2> QED
    BY <1>1, <1>9, <2>1, <2>2, SenderLeaves, ZenonT(30)
<1>12. NoStrandedSender'
  <2> SUFFICES ASSUME NEW r \in Port, ip_blocked'[r] # << >>
               PROVE  /\ ip_active'[r]
                      /\ ip_qlimit'[r] - ip_msgcount'[r] <= Cardinality(Woken(r)')
    BY ZenonT(30) DEF NoStrandedSender
  <2>1. ip_active[r] /\ ip_qlimit[r] - ip_msgcount[r] <= Cardinality(Woken(r))
    BY <1>1, <1>6, ZenonT(30) DEF NoStrandedSender, Without
  <2>2. /\ ip_qlimit[r] \in Int /\ ip_msgcount[r] \in Int
        /\ Woken(r) \in SUBSET Thread /\ Cardinality(Woken(r)) \in Nat
    BY <1>1, WokenCounted, ZenonT(30) DEF Shape
  <2>3. ip_active' = ip_active /\ ip_qlimit' = ip_qlimit
    BY <1>6, ZenonT(30)
  <2>4. CASE r # p
    <3>1. Woken(r)' = Woken(r) /\ ip_msgcount'[r] = ip_msgcount[r]
      BY <1>1, <1>6, <1>11, <2>4, ZenonT(30) DEF Shape
    <3> QED
      BY <2>1, <2>3, <3>1, ZenonT(30)
  <2>5. CASE r = p
    <3>1. ip_msgcount'[r] = ip_msgcount[r] + 1
      BY <1>1, <1>6, <2>5, Zenon DEF Shape
    <3>2. Cardinality(Woken(r)') >= Cardinality(Woken(r)) - 1
      <4>1. Cardinality(Woken(r) \ {t}) \in {Cardinality(Woken(r)) - 1, Cardinality(Woken(r))}
        <5>1. CASE t \in Woken(r)
          <6>1. Cardinality(Woken(r) \ {t}) = Cardinality(Woken(r)) - 1
            BY <2>2, <5>1, Zenon DEF ThreadsCounted
          <6> QED
            BY <6>1, Zenon
        <5>2. CASE t \notin Woken(r)
          <6>1. Woken(r) \ {t} = Woken(r)
            BY <5>2, Zenon
          <6> QED
            BY <6>1, Zenon
        <5> QED
          BY <5>1, <5>2, Zenon
      <4>2. Woken(r)' = Woken(r) \ {t}
        BY <1>11, <2>5, Zenon
      <4>3. Cardinality(Woken(r)') = Cardinality(Woken(r) \ {t})
        BY <4>2, Zenon
      <4>4. \A n \in Nat : n >= n - 1 /\ n - 1 >= n - 1
        BY SMTT(30)
      <4> QED
        BY <2>2, <4>1, <4>3, <4>4, ZenonT(30)
    <3>3. Cardinality(Woken(r)') \in Nat
      BY WokenCounted, Zenon
    <3> QED
      <4>1. \A l, m, n, k \in Int : l - m <= n /\ k >= n - 1 => l - (m + 1) <= k
        OBVIOUS
      <4>2. /\ ip_qlimit[r] \in Int /\ ip_msgcount[r] \in Int
            /\ Cardinality(Woken(r)) \in Int /\ Cardinality(Woken(r)') \in Int
        BY <2>2, <3>3
      <4>3. ip_qlimit[r] - (ip_msgcount[r] + 1) <= Cardinality(Woken(r)')
        BY <2>1, <3>2, <4>1, <4>2, Zenon
      <4> QED
        BY <2>1, <2>3, <3>1, <4>3, Zenon
  <2> QED
    BY <2>4, <2>5, ZenonT(30)
<1>13. ASSUME NEW r \in Queue
       PROVE  imq_threads'[r] = IF r = q THEN d.threads ELSE imq_threads[r]
  BY <1>1, <1>6, ZenonT(30) DEF Shape
<1>14. Receiving'
  <2>1. ASSUME NEW r \in Queue
        PROVE  /\ IsInjective(imq_threads'[r])
               /\ \A u \in Range(imq_threads'[r]) :
                    pc'[u] = "rcv_wait" /\ op'[u].obj = r /\ ith_state'[u] = "RCV_IN_PROGRESS"
    <3>0. \A u \in Range(imq_threads[r]) :
            /\ u \in Thread /\ u # t /\ pc[u] = "rcv_wait" /\ op[u].obj = r
            /\ ith_state[u] = "RCV_IN_PROGRESS"
      <4>1. Range(imq_threads[r]) \subseteq Thread
        <5>1. imq_threads[r] \in Seq(Thread)
          BY <1>1, Zenon DEF Shape
        <5> QED
          BY <5>1, ElementFacts, Zenon
      <4>2. \A u \in Range(imq_threads[r]) :
              pc[u] = "rcv_wait" /\ op[u].obj = r /\ ith_state[u] = "RCV_IN_PROGRESS"
        BY <1>1, Zenon DEF Receiving
      <4>3. pc[t] # "rcv_wait"
        OBVIOUS
      <4> QED
        BY <4>1, <4>2, <4>3, Zenon
    <3>1. CASE r = q
      <4>1. \A u \in Range(d.threads) : u \in Range(imq_threads[r]) /\ u \notin S
        BY <1>5, <3>1 DEF R
      <4>2. imq_threads'[r] = d.threads
        BY <1>13, <3>1, Zenon
      <4>3. \A u \in Range(d.threads) :
              pc'[u] = pc[u] /\ op'[u] = op[u] /\ ith_state'[u] = ith_state[u]
        BY <1>7, <1>9, <3>0, <4>1, Zenon
      <4>4. \A u \in Range(d.threads) :
              pc'[u] = "rcv_wait" /\ op'[u].obj = r /\ ith_state'[u] = "RCV_IN_PROGRESS"
        BY <3>0, <4>1, <4>3, Zenon
      <4>5. IsInjective(d.threads)
        BY <1>5, Zenon
      <4> QED
        BY <4>2, <4>4, <4>5, ZenonT(30)
    <3>2. CASE r # q
      <4>1. \A u \in Range(imq_threads[r]) : u \notin R
        <5>1. \A u \in R : op[u].obj = q
          BY <1>1, Zenon DEF Receiving, R
        <5> QED
          BY <3>0, <3>2, <5>1, Zenon
      <4>2. imq_threads'[r] = imq_threads[r]
        BY <1>13, <3>2, Zenon
      <4>3. \A u \in Range(imq_threads[r]) :
              pc'[u] = pc[u] /\ op'[u] = op[u] /\ ith_state'[u] = ith_state[u]
        BY <1>7, <1>9, <3>0, <4>1, Zenon
      <4>4. IsInjective(imq_threads[r])
        BY <1>1, ZenonT(30) DEF Receiving
      <4> QED
        BY <3>0, <4>2, <4>3, <4>4, Zenon
    <3> QED
      BY <3>1, <3>2, ZenonT(30)
  <2> QED
    BY <1>1, <1>9, <2>1, ZenonT(30) DEF Receiving
<1>15. Carrying'
  BY <1>1, <1>7, <1>9, Zenon DEF Carrying, Carries
<1>16. NobodyWaitsInVain'
  <2> SUFFICES ASSUME NEW r \in Queue, imq_threads'[r] # << >>
               PROVE  /\ imq_messages'[r] = << >>
                      /\ r \in Pset => ips_active'[r]
                      /\ r \in Port => ip_active'[r] /\ ip_pset'[r] = NoPset
    BY ZenonT(30) DEF NobodyWaitsInVain
  <2>1. imq_threads[r] # << >> /\ imq_messages'[r] = imq_messages[r]
    BY <1>1, <1>5, <1>6, <1>13, ZenonT(30) DEF Shape
  <2> QED
    BY <1>1, <1>6, <2>1, ZenonT(30) DEF NobodyWaitsInVain
<1> QED
  BY <1>8, <1>11, <1>12, <1>14, <1>15, <1>16, Zenon DEF IInv, SendInv, ReceiveInv

LEMMA SendLoopInv ==
    ASSUME IInv, ThreadsCounted, NEW t \in Thread, NEW o \in Ops, o.obj \in Port, NEW always \in BOOLEAN,
           pc[t] = "idle" \/ (pc[t] = "snd_wait" /\ op[t].obj = o.obj),
           NEW blocked, Without(t, blocked), SendLoop(t, o, always, blocked)
    PROVE  IInv'
<1> DEFINE p == o.obj
           room == ip_msgcount[p] < ip_qlimit[p] \/ always
<1>1. CASE /\ ~ip_active[p] \/ (~room /\ o.timeout = "zero")
           /\ Return(t) /\ ip_blocked' = blocked
           /\ UNCHANGED <<ip_active, ip_msgcount, ip_qlimit, ip_pset, ips_active,
                          queueVars, ithVars, waitVars, sent, taken>>
  <2>1. Without(t, ip_blocked')
    BY <1>1, ZenonT(30)
  <2>2. /\ pc' = [pc EXCEPT ![t] = "idle"] /\ op' = [op EXCEPT ![t] = NoOp]
        /\ UNCHANGED <<ip_active, ip_msgcount, ip_qlimit, ip_pset, ips_active, imq_messages,
                       imq_threads, ith_state, ith_kmsg, sent>>
    BY <1>1, ZenonT(30) DEF Return, queueVars, ithVars
  <2> QED
    BY <1>1, <2>1, <2>2, GiveUpInv, ZenonT(30)
<1>2. CASE ip_active[p] /\ room /\ Accept(t, p, o.size, blocked)
  <2>1. o.size \in Size
    BY ZenonT(30) DEF Ops
  <2> QED
    BY <1>2, <2>1, AcceptInv, ZenonT(30)
<1>3. CASE /\ ip_active[p] /\ ~room /\ o.timeout # "zero"
           /\ ip_blocked' = [blocked EXCEPT ![p] = Append(@, t)]
           /\ ith_state' = [ith_state EXCEPT ![t] = "SEND_IN_PROGRESS"]
           /\ pc' = [pc EXCEPT ![t] = "snd_wait"] /\ op' = [op EXCEPT ![t] = o]
           /\ UNCHANGED <<ip_active, ip_msgcount, ip_qlimit, ip_pset, ips_active,
                          queueVars, ith_kmsg, ith_msize, owes, sent, taken>>
  <2>1. UNCHANGED <<ip_active, ip_msgcount, ip_qlimit, ip_pset, ips_active, imq_messages,
                    imq_threads, ith_kmsg, sent>>
    BY <1>3 DEF queueVars
  <2> QED
    BY <1>3, <2>1, BlockInv, ZenonT(30)
<1> QED
  BY <1>1, <1>2, <1>3, ZenonT(30) DEF SendLoop

LEMMA SendInv1 ==
    ASSUME IInv, ThreadsCounted, NEW t \in Thread, NEW o \in Calls, NEW always \in BOOLEAN,
           ipc_mqueue_send(t, o, always)
    PROVE  IInv'
<1>1. o \in Ops /\ o.obj \in Port /\ pc[t] = "idle" /\ SendLoop(t, o, always, ip_blocked)
  BY ConstantsAssumption, Zenon DEF Calls, Ops, ipc_mqueue_send, Idle
<1>2. Without(t, ip_blocked)
  BY <1>1 DEF IInv, Shape, SendInv, Blocked, Without
<1> QED
  BY <1>1, <1>2, SendLoopInv

LEMMA SendResumeInv ==
    ASSUME IInv, ThreadsCounted, NEW t \in Thread, send_resume(t)
    PROVE  IInv'
<1>1. /\ Shape /\ Blocked /\ Sending /\ pc[t] = "snd_wait"
      /\ op[t] \in Ops /\ op[t].obj \in Port
  BY DEF IInv, SendInv, Sending, send_resume
<1>2. PICK p \in Port : p = op[t].obj
  BY <1>1, Zenon
<1> DEFINE unlinked == [ip_blocked EXCEPT ![p] = ipc_thread_rmqueue(@, t)]
<1>3. Without(t, unlinked)
  <2>1. ip_blocked[p] \in Seq(Thread) /\ IsInjective(ip_blocked[p])
    BY <1>1 DEF Shape, Blocked
  <2>2. /\ ipc_thread_rmqueue(ip_blocked[p], t) \in Seq(Thread)
        /\ Range(ipc_thread_rmqueue(ip_blocked[p], t)) = Range(ip_blocked[p]) \ {t}
        /\ IsInjective(ipc_thread_rmqueue(ip_blocked[p], t))
    BY <2>1, RmqueueFacts, ZenonT(30)
  <2>3. ipc_thread_rmqueue(ip_blocked[p], t) # << >> => ip_blocked[p] # << >>
    BY <2>2, NonEmptyFacts, EmptyFacts, Zenon
  <2>4. \A r \in Port : r # p => t \notin Range(ip_blocked[r]) /\ IsInjective(ip_blocked[r])
    BY <1>1, <1>2, Zenon DEF Blocked
  <2>5. unlinked \in [Port -> Seq(Thread)]
    BY <1>1, <2>2 DEF Shape
  <2>6. /\ unlinked[p] = ipc_thread_rmqueue(ip_blocked[p], t)
        /\ \A r \in Port : r # p => unlinked[r] = ip_blocked[r]
    BY <1>1 DEF Shape
  <2> HIDE DEF unlinked
  <2> QED
    BY <2>2, <2>3, <2>4, <2>5, <2>6, Zenon DEF Without
<1> HIDE DEF unlinked
<1>4. CASE ith_state[t] = "SUCCESS" /\ SendLoop(t, op[t], FALSE, ip_blocked)
  <2>1. Without(t, ip_blocked)
    BY <1>1, <1>4, SMTT(30) DEF Shape, Blocked, Without
  <2> QED
    BY <1>1, <1>4, <2>1, SendLoopInv, Zenon
<1>5. CASE /\ ith_state[t] # "SUCCESS" /\ ip_blocked' = unlinked
           /\ (pc' = [pc EXCEPT ![t] = "idle"] /\ op' = [op EXCEPT ![t] = NoOp])
                \/ (pc' = [pc EXCEPT ![t] = "panic"] /\ op' = op)
           /\ UNCHANGED <<ip_active, ip_msgcount, ip_qlimit, ip_pset, ips_active,
                          queueVars, ithVars, sent>>
  <2>1. t \notin Woken(p)
    BY <1>5 DEF Woken
  <2>2. UNCHANGED <<ip_active, ip_msgcount, ip_qlimit, ip_pset, ips_active, imq_messages,
                    imq_threads, ith_state, ith_kmsg, sent>>
    BY <1>5 DEF queueVars, ithVars
  <2> QED
    BY <1>1, <1>2, <1>3, <1>5, <2>1, <2>2, GiveUpInv, Zenon
<1>6. CASE SendLoop(t, [op[t] EXCEPT !.timeout = "zero"], FALSE, unlinked)
  <2> DEFINE o == [op[t] EXCEPT !.timeout = "zero"]
  <2>1. o \in Ops /\ o.obj = op[t].obj
    BY <1>1 DEF Ops
  <2>2. SendLoop(t, o, FALSE, unlinked)
    BY <1>6, Zenon
  <2> HIDE DEF o
  <2> QED
    BY <1>1, <1>3, <2>1, <2>2, SendLoopInv, Zenon
<1> QED
  BY <1>2, <1>4, <1>5, <1>6, Zenon DEF send_resume, unlinked, Return
-----------------------------------------------------------------------------
(***************************************************************************)
(* The theorems                                                            *)
(***************************************************************************)
LEMMA UnchangedInv ==
    ASSUME IInv,
           UNCHANGED <<ip_active, ip_msgcount, ip_qlimit, ip_blocked, ip_pset, ips_active,
                       imq_messages, imq_threads, ith_state, ith_kmsg, pc, op, sent>>
    PROVE  IInv'
<1>1. Shape'
  BY DEF IInv, Shape
<1>2. SendInv'
  <2>1. Blocked' /\ Sending'
    <3>1. Blocked /\ Sending /\ ip_blocked' = ip_blocked /\ pc' = pc /\ op' = op
          /\ ith_state' = ith_state
      BY Zenon DEF IInv, SendInv
    <3> QED
      BY <3>1, ZenonT(30) DEF Blocked, Sending
  <2>2. \A p \in Port : Woken(p)' = Woken(p)
    BY ZenonT(30) DEF Woken, Senders
  <2>3. NoStrandedSender'
    BY <2>2, Zenon DEF IInv, SendInv, NoStrandedSender
  <2> QED
    BY <2>1, <2>3, ZenonT(30) DEF SendInv
<1>3. ReceiveInv'
  BY DEF IInv, ReceiveInv, Receiving, Carrying, Carries, NobodyWaitsInVain
<1> QED
  BY <1>1, <1>2, <1>3, Zenon DEF IInv

LEMMA InitInv == Init => IInv
<1> SUFFICES ASSUME Init PROVE IInv
  OBVIOUS
<1>1. Shape
  <2>1. << >> \in Seq(Thread) /\ << >> \in Seq(AnyKmsg)
    OBVIOUS
  <2>2. ip_qlimit \in [Port -> Int]
    <3>1. Limits \subseteq Int
      BY ConstantsAssumption
    <3>2. ip_qlimit \in [Port -> Limits]
      BY DEF Init
    <3> QED
      BY <3>1, <3>2, Zenon
  <2>3. /\ ip_blocked \in [Port -> Seq(Thread)]
        /\ imq_messages \in [Queue -> Seq(AnyKmsg)]
        /\ imq_threads \in [Queue -> Seq(Thread)]
    BY <2>1 DEF Init
  <2>4. /\ ip_active \in [Port -> BOOLEAN] /\ ips_active \in [Pset -> BOOLEAN]
        /\ ip_pset \in [Port -> Pset \cup {NoPset}]
        /\ ip_msgcount \in [Port -> Int] /\ sent \in [Port -> Nat]
    BY DEF Init
  <2>5. /\ ith_state \in [Thread -> States]
        /\ ith_kmsg \in [Thread -> AnyKmsg \cup {NoKmsg}]
        /\ pc \in [Thread -> {"idle", "snd_wait", "rcv_wait", "rcv_done", "panic"}]
        /\ op \in [Thread -> Ops \cup {NoOp}]
    BY DEF Init, States
  <2> QED
    BY <2>2, <2>3, <2>4, <2>5 DEF Shape
<1>2. \A S : Range(<< >>) \cap S = {} /\ IsInjective(<< >>)
  BY EmptyFacts DEF Range, IsInjective
<1>3. Blocked /\ Sending /\ NoStrandedSender
  BY <1>2 DEF Init, Blocked, Sending, NoStrandedSender
<1>4. Receiving /\ Carrying /\ NobodyWaitsInVain
  BY <1>2 DEF Init, Receiving, Carrying, Carries, NobodyWaitsInVain
<1> QED
  BY <1>1, <1>3, <1>4 DEF IInv, SendInv, ReceiveInv

LEMMA NextInv ==
    ASSUME IInv, PickSound, ThreadsCounted, [Next]_vars
    PROVE  IInv'
<1>1. ASSUME NEW t \in Thread, NEW o \in Calls, NEW always \in BOOLEAN,
             ipc_mqueue_send(t, o, always)
      PROVE  IInv'
  BY <1>1, SendInv1
<1>2. ASSUME NEW t \in Thread, NEW o \in Calls, ipc_mqueue_receive(t, o)
      PROVE  IInv'
  BY <1>2, ReceiveInv1
<1>3. ASSUME NEW t \in Thread, send_resume(t) PROVE IInv'
  BY <1>3, SendResumeInv
<1>4. ASSUME NEW t \in Thread, receive_resume(t) PROVE IInv'
  BY <1>4, ReceiveResumeInv, Zenon
<1>5. ASSUME NEW t \in Thread, receive_finish(t) PROVE IInv'
  BY <1>5, FinishInv
<1>6. ASSUME NEW t \in Thread,
             interrupt(t) \/ softclock(t) \/ thread_timeout(t) \/ thread_go(t)
      PROVE  IInv'
  BY <1>6, UnchangedInv, ZenonT(30) DEF interrupt, softclock, thread_timeout, thread_go, portVars,
     queueVars, ithVars, threadVars
<1>7. ASSUME NEW p \in Port, ipc_port_destroy(p) PROVE IInv'
  BY <1>7, DestroyInv
<1>8. ASSUME NEW p \in Port, ipc_port_clear_receiver(p) PROVE IInv'
  BY <1>8, ClearReceiverInv
<1>9. ASSUME NEW p \in Port, NEW limit \in Limits, ipc_port_set_qlimit(p, limit)
      PROVE  IInv'
  BY <1>9, SetQlimitInv
<1>10. ASSUME NEW p \in Port, NEW s \in Pset \cup {NoPset}, ipc_pset_move(p, s)
       PROVE  IInv'
  BY <1>10, MoveInv
<1>11. ASSUME NEW s \in Pset, ipc_pset_destroy(s) PROVE IInv'
  BY <1>11, DestroySetInv
<1>12. CASE UNCHANGED vars
  BY <1>12, UnchangedInv DEF vars, portVars, queueVars, ithVars, threadVars
<1> QED
  BY <1>1, <1>2, <1>3, <1>4, <1>5, <1>6, <1>7, <1>8, <1>9, <1>10, <1>11, <1>12, Zenon DEF Next
-----------------------------------------------------------------------------

\* Induction, as a fact about sets: a set of numbers has a least element.
LEMMA LeastElement ==
    ASSUME NEW T, T \subseteq Nat, T # {}
    PROVE  \E x \in T : \A y \in T : x <= y
<1> DEFINE R == OpToRel(<, Nat)
<1>1. PICK x \in T : \A y \in T : ~(<<y, x>> \in R)
  <2> HIDE DEF R
  <2>1. IsWellFoundedOn(R, Nat)
    BY NatLessThanWellFounded, Zenon DEF R
  <2> QED
    BY WFMin, <2>1, Zenon
<1>2. \A y \in T : ~(y < x)
  BY <1>1, Zenon DEF OpToRel
<1> QED
  BY <1>2

\* Every place of Pick(s, J) is filled by an element of s in J.
LEMMA PickFacts ==
    ASSUME NEW S, NEW s \in Seq(S), NEW J, J \subseteq DOMAIN s
    PROVE  /\ Pick(s, J) \in Seq(S)
           /\ J = {} => Pick(s, J) = << >>
<1> DEFINE Below(j) == {k \in J : k < j}
           Rank(i, j) == Cardinality(Below(j)) = i - 1
           B == {i \in 1 .. Cardinality(J) : ~ \E j \in J : Rank(i, j)}
<1>1. Len(s) \in Nat /\ DOMAIN s = 1 .. Len(s) /\ \A j \in 1 .. Len(s) : s[j] \in S
  OBVIOUS
<1>2. IsFiniteSet(J) /\ Cardinality(J) \in Nat /\ J \subseteq Nat
  <2>1. IsFiniteSet(1 .. Len(s))
    BY <1>1, FS_Interval
  <2> QED
    BY <1>1, <2>1, FS_Subset, FS_CardinalityType
<1>3. ASSUME NEW j \in J
      PROVE IsFiniteSet(Below(j)) /\ Cardinality(Below(j)) \in Nat
  BY <1>2, FS_Subset, FS_CardinalityType
<1>4. B = {}
  <2> SUFFICES ASSUME B # {} PROVE FALSE
    BY Zenon
  <2>1. B \subseteq Nat
    BY <1>2
  <2>2. PICK i \in B : \A y \in B : i <= y
    BY <2>1, LeastElement, Zenon
  <2>3. i \in 1 .. Cardinality(J) /\ i \in Nat
    BY <1>2
  <2>4. CASE i = 1
    <3>1. J # {}
      BY <1>2, <2>3, FS_EmptySet
    <3>2. PICK j \in J : \A k \in J : j <= k
      BY <1>2, <3>1, LeastElement, Zenon
    <3>3. Below(j) = {}
      BY <1>2, <3>2
    <3>4. Cardinality(Below(j)) = 0
      BY <3>3, FS_EmptySet, Zenon
    <3>5. Rank(i, j)
      BY <3>4, <2>4
    <3> QED
      BY <3>5, Zenon
  <2>5. CASE i # 1
    <3>0. i - 1 \notin B
      <4> HIDE DEF B
      <4> QED
        BY <2>1, <2>2, <2>3
    <3>1. i - 1 \in 1 .. Cardinality(J)
      <4>1. \A c \in Nat : \A m \in 1 .. c : m # 1 => m - 1 \in 1 .. c
        OBVIOUS
      <4> QED
        BY <1>2, <2>3, <2>5, <4>1, Zenon
    <3>2. PICK j \in J : Cardinality(Below(j)) = (i - 1) - 1
      BY <3>0, <3>1, Zenon
    <3> DEFINE L == Below(j) \cup {j}
    <3>3. j \notin Below(j)
      BY <1>2
    <3>4. IsFiniteSet(L) /\ Cardinality(L) = i - 1
      <4> HIDE DEF Below
      <4>1. IsFiniteSet(L) /\ Cardinality(L) = Cardinality(Below(j)) + 1
        BY <1>3, <3>3, FS_AddElement
      <4>2. \A m \in Nat : ((m - 1) - 1) + 1 = m - 1
        OBVIOUS
      <4>3. i \in Nat
        BY <2>3, Zenon
      <4> QED
        BY <3>2, <4>1, <4>2, <4>3, Zenon
    <3>5. J \ L # {}
      <4>1. SUFFICES ASSUME J \ L = {} PROVE FALSE
        OBVIOUS
      <4>2. J = L
        BY <4>1
      <4>3. Cardinality(J) = i - 1
        BY <3>4, <4>2, Zenon
      <4> QED
        BY <1>2, <2>3, <4>3
    <3>6. PICK n \in J \ L : \A k \in J \ L : n <= k
      BY <1>2, <3>5, LeastElement, Zenon
    <3>7. Below(n) = L
      BY <1>2, <3>6
    <3> QED
      BY <3>4, <3>6, <3>7, Zenon
  <2> QED
    BY <2>4, <2>5
<1>5. ASSUME NEW i \in 1 .. Cardinality(J) PROVE Pick(s, J)[i] \in S
  <2>1. \E j \in J : Cardinality({k \in J : k < j}) = i - 1
    BY <1>4, Zenon
  <2>2. (CHOOSE j \in J : Cardinality({k \in J : k < j}) = i - 1) \in J
    BY <2>1, Zenon
  <2> QED
    BY <1>1, <2>2 DEF Pick
<1>6. Pick(s, J) \in Seq(S)
  <2> DEFINE at(i) == CHOOSE j \in J : Cardinality({k \in J : k < j}) = i - 1
  <2>1. ASSUME NEW i \in 1 .. Cardinality(J) PROVE s[at(i)] \in S
    BY <1>5, Zenon DEF Pick
  <2> HIDE DEF at
  <2>2. [i \in 1 .. Cardinality(J) |-> s[at(i)]] \in Seq(S)
    BY <1>2, <2>1
  <2> QED
    BY <2>2 DEF Pick, at
<1>7. ASSUME J = {} PROVE Pick(s, J) = << >>
  <2>1. Cardinality(J) = 0
    BY <1>7, FS_EmptySet
  <2> QED
    BY <2>1 DEF Pick
<1> QED
  BY <1>6, <1>7

\* The first k elements of a queue without duplicates are k elements.
LEMMA FirstCounted ==
    ASSUME NEW S, NEW q \in Seq(S), IsInjective(q), NEW k \in 0 .. Len(q)
    PROVE  Cardinality({q[j] : j \in 1 .. k}) = k
<1> DEFINE W == {q[j] : j \in 1 .. k}
           f == [j \in 1 .. k |-> q[j]]
<1>1. /\ Len(q) \in Nat /\ DOMAIN q = 1 .. Len(q) /\ k \in Nat
      /\ 1 .. k \subseteq 1 .. Len(q)
  OBVIOUS
<1>2. f \in Surjection(1 .. k, W)
  BY DEF Surjection
<1>3. f \in Injection(1 .. k, W)
  BY <1>1 DEF Injection, IsInjective
<1>4. IsFiniteSet(1 .. k) /\ Cardinality(1 .. k) = k
  BY <1>1, FS_Interval
<1> HIDE DEF f, W
<1>5. IsFiniteSet(W) /\ Cardinality(W) = Cardinality(1 .. k)
  BY <1>2, <1>3, <1>4, FS_Surjection
<1> QED
  BY <1>4, <1>5, Zenon DEF W

-----------------------------------------------------------------------------
LEMMA PickIsSound == PickSound
BY PickFacts, Zenon DEF PickSound

LEMMA ThreadsAreCounted == ThreadsCounted
<1>0. IsFiniteSet(Thread)
  BY ConstantsAssumption
<1>1. ASSUME NEW W \in SUBSET Thread PROVE IsFiniteSet(W) /\ Cardinality(W) \in Nat
  BY <1>0, FS_Subset, FS_CardinalityType, Zenon
<1>2. ASSUME NEW W \in SUBSET Thread, NEW t \in W
      PROVE  Cardinality(W \ {t}) = Cardinality(W) - 1
  BY <1>1, FS_RemoveElement
<1>3. ASSUME NEW W \in SUBSET Thread, NEW V \in SUBSET Thread, W \cap V = {}
      PROVE  Cardinality(W \cup V) = Cardinality(W) + Cardinality(V)
  <2>1. IsFiniteSet(W) /\ IsFiniteSet(V) /\ Cardinality(W) \in Nat /\ Cardinality(V) \in Nat
    BY <1>1, Zenon
  <2>2. Cardinality(W \cup V) = Cardinality(W) + Cardinality(V) - Cardinality(W \cap V)
    BY <2>1, FS_Union, Zenon
  <2>3. Cardinality(W \cap V) = 0
    BY <1>3, FS_EmptySet, Zenon
  <2>4. \A m, n \in Nat : m + n - 0 = m + n
    OBVIOUS
  <2> QED
    BY <2>1, <2>2, <2>3, <2>4, Zenon
<1>4. ASSUME NEW t \in Thread PROVE Cardinality({t}) = 1
  BY FS_Singleton, ZenonT(30)
<1>5. ASSUME NEW q \in Seq(Thread), IsInjective(q), NEW k \in 0 .. Len(q)
      PROVE  Cardinality({q[j] : j \in 1 .. k}) = k
  BY <1>5, FirstCounted, Zenon
<1> QED
  BY <1>1, <1>2, <1>3, <1>4, <1>5, Zenon DEF ThreadsCounted

\* The inductive invariant: blocked senders and waiting receivers are on the
\* queues they should be on and on no others, whatever sends, receives,
\* timeouts, interrupts, wakeups, moves and destructions interleave.
THEOREM IInvInvariant == Spec => []IInv
<1>1. Init => IInv
  BY InitInv
<1>2. IInv /\ [Next]_vars => IInv'
  BY NextInv, PickIsSound, ThreadsAreCounted
<1> QED
  BY <1>1, <1>2, PTL DEF Spec

\* No sender stays blocked on a dead port, or on a live one that has more room
\* than senders on their way to use it: ipc_mqueue_receive,
\* ipc_port_set_qlimit and ipc_port_destroy wake enough of them.
THEOREM NoStrandedSenderInvariant == Spec => []NoStrandedSender
<1>1. IInv => NoStrandedSender
  BY DEF IInv, SendInv
<1> QED
  BY <1>1, IInvInvariant, PTL

\* A receiver waits only at an empty queue into which messages can still
\* arrive: what ipc_mqueue_send asserts, and what ipc_mqueue_changed and
\* ipc_mqueue_move see to.
THEOREM NobodyWaitsInVainInvariant == Spec => []NobodyWaitsInVain
<1>1. IInv => NobodyWaitsInVain
  BY DEF IInv, ReceiveInv
<1> QED
  BY <1>1, IInvInvariant, PTL
=============================================================================
