------------------------ MODULE IpcMqueueInvariant ------------------------
(***************************************************************************)
(* The inductive invariant of the message queues, and the proof that       *)
(* receiving and moving ports between sets preserve it.                    *)
(***************************************************************************)
EXTENDS IpcMqueue, QueueLemmas
-----------------------------------------------------------------------------
(***************************************************************************)
(* The inductive invariant                                                 *)
(***************************************************************************)
States == {"SUCCESS", "SEND_IN_PROGRESS", "RCV_IN_PROGRESS", "TOO_LARGE", "PORT_DIED",
           "PORT_CHANGED"}
AnyKmsg == [port : Port, n : Nat, size : Size]

Shape ==
    /\ ip_active \in [Port -> BOOLEAN] /\ ips_active \in [Pset -> BOOLEAN]
    /\ ip_msgcount \in [Port -> Int] /\ ip_qlimit \in [Port -> Int]
    /\ ip_blocked \in [Port -> Seq(Thread)]
    /\ ip_pset \in [Port -> Pset \cup {NoPset}]
    /\ imq_messages \in [Queue -> Seq(AnyKmsg)]
    /\ imq_threads \in [Queue -> Seq(Thread)]
    /\ ith_state \in [Thread -> States]
    /\ ith_kmsg \in [Thread -> AnyKmsg \cup {NoKmsg}]
    /\ pc \in [Thread -> {"idle", "snd_wait", "rcv_wait", "rcv_done", "panic"}]
    /\ op \in [Thread -> Ops \cup {NoOp}]
    /\ sent \in [Port -> Nat]

\* The threads blocked on a port are its senders that nobody has let through.
Blocked ==
    \A p \in Port :
        /\ IsInjective(ip_blocked[p])
        /\ \A u \in Thread : u \in Range(ip_blocked[p]) <=>
               pc[u] = "snd_wait" /\ op[u].obj = p /\ ith_state[u] # "SUCCESS"

Sending ==
    \A u \in Thread : pc[u] = "snd_wait" =>
        /\ op[u] \in Ops /\ op[u].obj \in Port
        /\ ith_state[u] \in {"SUCCESS", "SEND_IN_PROGRESS"}

Receiving ==
    /\ \A q \in Queue :
         /\ IsInjective(imq_threads[q])
         /\ \A u \in Range(imq_threads[q]) :
              pc[u] = "rcv_wait" /\ op[u].obj = q /\ ith_state[u] = "RCV_IN_PROGRESS"
    /\ \A u \in Thread : pc[u] = "rcv_wait" => op[u] \in Ops

Carrying == \A u \in Thread : Carries(u) => ith_kmsg[u] \in AnyKmsg

SendInv == Blocked /\ Sending /\ NoStrandedSender
ReceiveInv == Receiving /\ Carrying /\ NobodyWaitsInVain
IInv == Shape /\ SendInv /\ ReceiveInv

\* What the steps need to know about Pick, and about the number of threads in
\* a set: facts of arithmetic, proved with the theorems (IpcMqueueProofs).
PickSound ==
    \A s \in Seq(AnyKmsg) : \A J \in SUBSET DOMAIN s :
        Pick(s, J) \in Seq(AnyKmsg) /\ (J = {} => Pick(s, J) = << >>)

ThreadsCounted ==
    /\ \A W \in SUBSET Thread : Cardinality(W) \in Nat
    /\ \A W \in SUBSET Thread : \A t \in W : Cardinality(W \ {t}) = Cardinality(W) - 1
    /\ \A W, V \in SUBSET Thread :
         W \cap V = {} => Cardinality(W \cup V) = Cardinality(W) + Cardinality(V)
    /\ \A t \in Thread : Cardinality({t}) = 1
    /\ \A q \in Seq(Thread) : IsInjective(q) =>
         \A k \in 0 .. Len(q) : Cardinality({q[j] : j \in 1 .. k}) = k
-----------------------------------------------------------------------------
(***************************************************************************)
(* Delivery                                                                *)
(***************************************************************************)
\* The receivers that delivery concerns are taken off the queue, those left on
\* it are not concerned, and some are left only if no message is.
Delivered(d, q) ==
    /\ d.threads \in Seq(Thread) /\ IsInjective(d.threads)
    /\ Range(d.threads) \subseteq Range(imq_threads[q])
    /\ \A g \in d.given \cup d.small :
         /\ g[1] \in Range(imq_threads[q]) /\ g[1] \notin Range(d.threads)
         /\ g[2] \in AnyKmsg
    /\ d.messages \in Seq(AnyKmsg)
    /\ d.threads # << >> => d.messages = imq_messages[q] /\ imq_threads[q] # << >>

LEMMA DeliverFacts ==
    ASSUME Shape, Receiving, NEW q \in Queue, NEW ms \in Seq(AnyKmsg),
           NEW f \in Turns(imq_threads[q], ms), NEW d, d = Deliver(q, ms, f)
    PROVE  Delivered(d, q)
<1> DEFINE T == imq_threads[q]
           k == Len(f) - 1
<1>1. /\ T \in Seq(Thread) /\ IsInjective(T) /\ Len(T) \in Nat /\ DOMAIN T = 1 .. Len(T)
      /\ imq_messages[q] \in Seq(AnyKmsg) /\ Len(ms) \in Nat
      /\ \A j \in 1 .. Len(ms) : ms[j] \in AnyKmsg
  BY DEF Shape, Receiving
<1>2. /\ k \in 0 .. Len(T) /\ Len(f) = k + 1 /\ f \in [1 .. k + 1 -> 1 .. Len(ms) + 1]
      /\ \A j \in 1 .. k : f[j] <= Len(ms)
      /\ k = Len(T) \/ f[k + 1] = Len(ms) + 1
  <2>1. PICK n \in 0 .. Len(T) : f \in [1 .. n + 1 -> 1 .. Len(ms) + 1]
    BY DEF Turns
  <2>2. n \in Nat /\ Len(f) = n + 1
    BY <1>1, <2>1
  <2>3. /\ \A j \in 1 .. Len(f) - 1 : f[j] <= Len(ms)
        /\ Len(f) = Len(T) + 1 \/ f[Len(f)] = Len(ms) + 1
    BY DEF Turns
  <2> QED
    BY <1>1, <2>1, <2>2, <2>3
<1> HIDE DEF T, k
<1>3. /\ d.messages = imq_messages[q] \o SubSeq(ms, f[k + 1], Len(ms))
      /\ d.threads = SubSeq(T, k + 1, Len(T))
      /\ \A g \in d.given \cup d.small : \E j \in 1 .. k : g = <<T[j], ms[f[j]]>>
  BY Zenon DEF Deliver, Meet, Fitting, T, k
<1>4. /\ d.threads \in Seq(Thread) /\ IsInjective(d.threads)
      /\ d.threads # << >> => k < Len(T)
      /\ Range(d.threads) = {T[j] : j \in k + 1 .. Len(T)}
  BY <1>1, <1>2, <1>3, DropFacts, Zenon
<1>b. k \in Nat /\ Len(T) \in Nat /\ k <= Len(T)
  <2>1. \A n \in Nat : \A m \in 0 .. n : m \in Nat /\ m <= n
    OBVIOUS
  <2> QED
    BY <1>1, <1>2, <2>1, Zenon
<1>a. Range(T) = {T[j] : j \in 1 .. Len(T)}
  BY <1>1 DEF Range
<1>5. Range(d.threads) \subseteq Range(T)
  <2>1. \A n \in Nat : \A m \in 0 .. n : \A j \in m + 1 .. n : j \in 1 .. n
    OBVIOUS
  <2> QED
    BY <1>1, <1>2, <1>a, <1>4, <2>1, Zenon
<1>6. ASSUME NEW g \in d.given \cup d.small
      PROVE  g[1] \in Range(T) /\ g[1] \notin Range(d.threads) /\ g[2] \in AnyKmsg
  <2>1. PICK j \in 1 .. k : g = <<T[j], ms[f[j]]>>
    BY <1>3
  <2>2. j \in 1 .. Len(T) /\ j \in 1 .. k + 1
    BY <1>b
  <2>3. f[j] \in 1 .. Len(ms) + 1 /\ f[j] <= Len(ms)
    BY <1>2, <2>2
  <2>4. f[j] \in 1 .. Len(ms)
    BY <1>1, <2>3
  <2>5. ASSUME NEW i \in k + 1 .. Len(T) PROVE T[j] # T[i]
    <3>1. i \in 1 .. Len(T) /\ i # j
      BY <1>b
    <3> QED
      BY <1>1, <2>2, <3>1 DEF IsInjective
  <2> QED
    BY <1>1, <1>a, <1>4, <2>1, <2>2, <2>4, <2>5
<1>7. SubSeq(ms, f[k + 1], Len(ms)) \in Seq(AnyKmsg)
  <2>1. f[k + 1] \in 1 .. Len(ms) + 1
    BY <1>2
  <2> QED
    BY <1>1, <2>1, SubSeqProperties
<1>8. d.messages \in Seq(AnyKmsg)
  BY <1>1, <1>3, <1>7, ConcatProperties
<1>9. ASSUME d.threads # << >> PROVE d.messages = imq_messages[q] /\ T # << >>
  <2>1. f[k + 1] = Len(ms) + 1 /\ k < Len(T)
    BY <1>2, <1>4, <1>9
  <2>2. SubSeq(ms, Len(ms) + 1, Len(ms)) = << >>
    BY <1>1
  <2>3. T # << >>
    BY <1>1, <1>2, <2>1
  <2> QED
    BY <1>1, <1>3, <2>1, <2>2, <2>3
<1> QED
  BY <1>4, <1>5, <1>6, <1>8, <1>9 DEF T, Delivered

\* Threads off the queue are left alone; who is given a message has one.
LEMMA NotifyFacts ==
    ASSUME Shape, NEW d, NEW S, NEW gone, NEW reason \in States,
           gone = {} \/ reason # "SUCCESS",
           \A g \in d.given \cup d.small : g[1] \in S /\ g[2] \in AnyKmsg,
           Notify(d, gone, reason)
    PROVE  /\ ith_state' \in [Thread -> States]
           /\ ith_kmsg' \in [Thread -> AnyKmsg \cup {NoKmsg}]
           /\ \A u \in Thread : u \notin S /\ u \notin gone =>
                ith_state'[u] = ith_state[u] /\ ith_kmsg'[u] = ith_kmsg[u]
           /\ \A u \in Thread : ith_kmsg'[u] = ith_kmsg[u] \/ ith_kmsg'[u] \in AnyKmsg
           /\ \A u \in Thread : u \in S \cup gone /\ ith_state'[u] = "SUCCESS" =>
                ith_kmsg'[u] \in AnyKmsg \/ ith_state[u] = "SUCCESS"
<1> DEFINE got(u) == {g \in d.given : g[1] = u}
           big(u) == {g \in d.small : g[1] = u}
           kmsg(G) == (CHOOSE g \in G : TRUE)[2]
<1>1. /\ ith_state' = [u \in Thread |->
            IF u \in gone THEN reason
            ELSE IF got(u) # {} THEN "SUCCESS"
            ELSE IF big(u) # {} THEN "TOO_LARGE" ELSE ith_state[u]]
      /\ ith_kmsg' = [u \in Thread |-> IF got(u) # {} THEN kmsg(got(u)) ELSE ith_kmsg[u]]
  BY DEF Notify
<1>2. ASSUME NEW u \in Thread, got(u) # {} PROVE kmsg(got(u)) \in AnyKmsg /\ u \in S
  <2>1. (CHOOSE g \in got(u) : TRUE) \in got(u)
    BY <1>2
  <2> QED
    BY <2>1
<1>3. ASSUME NEW u \in Thread, big(u) # {} PROVE u \in S
  BY <1>3
<1> HIDE DEF got, big, kmsg
<1>4. ith_state \in [Thread -> States] /\ ith_kmsg \in [Thread -> AnyKmsg \cup {NoKmsg}]
      /\ "SUCCESS" \in States /\ "TOO_LARGE" \in States
  BY DEF Shape, States
<1>5. ith_state' \in [Thread -> States]
  BY <1>1, <1>4
<1>6. ith_kmsg' \in [Thread -> AnyKmsg \cup {NoKmsg}]
  BY <1>1, <1>2, <1>4
<1> QED
  BY <1>1, <1>2, <1>3, <1>4, <1>5, <1>6
-----------------------------------------------------------------------------
(***************************************************************************)
(* Steps that leave senders alone, and steps that leave receivers alone    *)
(***************************************************************************)
\* A step that does not touch blocked senders, limits and counts.
LEMMA SendersUndisturbed ==
    ASSUME SendInv,
           UNCHANGED <<ip_active, ip_msgcount, ip_qlimit, ip_blocked>>,
           \A u \in Thread : pc'[u] = "snd_wait" <=> pc[u] = "snd_wait",
           \A u \in Thread : pc[u] = "snd_wait" =>
               op'[u] = op[u] /\ ith_state'[u] = ith_state[u]
    PROVE  SendInv'
<1>1. Blocked'
  BY DEF SendInv, Blocked
<1>2. Sending'
  BY DEF SendInv, Sending
<1>3. ASSUME NEW p \in Port PROVE Woken(p)' = Woken(p)
  BY DEF Woken, Senders
<1>4. NoStrandedSender'
  BY <1>3 DEF SendInv, NoStrandedSender
<1> QED
  BY <1>1, <1>2, <1>4 DEF SendInv

\* A step that does not touch queues and receivers.
LEMMA ReceiversUndisturbed ==
    ASSUME ReceiveInv, Shape,
           UNCHANGED <<ip_active, ip_pset, ips_active, imq_messages, imq_threads>>,
           \A u \in Thread : pc'[u] \in {"rcv_wait", "rcv_done"} =>
               pc'[u] = pc[u] /\ op'[u] = op[u] /\ ith_kmsg'[u] = ith_kmsg[u],
           \A u \in Thread : pc[u] = "rcv_wait" =>
               pc'[u] = "rcv_wait" /\ ith_state'[u] = ith_state[u]
    PROVE  ReceiveInv'
<1>1. Receiving'
  <2>1. ASSUME NEW q \in Queue, NEW u \in Range(imq_threads[q]) PROVE u \in Thread
    BY DEF Shape, Range
  <2> QED
    BY <2>1 DEF ReceiveInv, Receiving
<1>2. Carrying'
  BY DEF ReceiveInv, Carrying, Carries
<1>3. NobodyWaitsInVain'
  BY DEF ReceiveInv, NobodyWaitsInVain
<1> QED
  BY <1>1, <1>2, <1>3 DEF ReceiveInv
-----------------------------------------------------------------------------
(***************************************************************************)
(* Operations on port sets                                                 *)
(***************************************************************************)
\* ipc_mqueue_changed: the receivers of one queue leave it without a message.
LEMMA ChangedFacts ==
    ASSUME Shape, Receiving, Carrying, Sending, NEW q \in Queue,
           NEW reason \in States \ {"SUCCESS"},
           Changed(q, reason), UNCHANGED <<pc, op>>
    PROVE  /\ imq_threads' \in [Queue -> Seq(Thread)]
           /\ ith_state' \in [Thread -> States]
           /\ ith_kmsg' = ith_kmsg
           /\ Receiving' /\ Carrying'
           /\ \A u \in Thread : pc[u] = "snd_wait" => ith_state'[u] = ith_state[u]
<1> DEFINE gone == Range(imq_threads[q])
<1>1. /\ imq_threads' = [imq_threads EXCEPT ![q] = << >>]
      /\ ith_state' = [u \in Thread |-> IF u \in gone THEN reason ELSE ith_state[u]]
      /\ ith_kmsg' = ith_kmsg
  BY DEF Changed
<1>2. \A u \in gone : pc[u] = "rcv_wait" /\ op[u].obj = q
  BY DEF Receiving
<1>3. \A r \in Queue : imq_threads[r] \in Seq(Thread) /\ Range(imq_threads[r]) \subseteq Thread
  BY DEF Shape, Range
<1> HIDE DEF gone
<1>4. imq_threads' \in [Queue -> Seq(Thread)] /\ ith_state' \in [Thread -> States]
  BY <1>1 DEF Shape
<1>5. Receiving'
  <2>1. ASSUME NEW r \in Queue, r # q
        PROVE  /\ imq_threads'[r] = imq_threads[r]
               /\ \A u \in Range(imq_threads[r]) : u \in Thread /\ u \notin gone
    <3>1. imq_threads'[r] = imq_threads[r]
      BY <1>1, <2>1 DEF Shape
    <3>2. \A u \in Range(imq_threads[r]) : u \in Thread /\ op[u].obj = r
      BY <1>3 DEF Receiving
    <3> QED
      BY <1>2, <2>1, <3>1, <3>2
  <2>2. imq_threads'[q] = << >>
    BY <1>1 DEF Shape
  <2>3. ASSUME NEW r \in Queue
        PROVE  /\ IsInjective(imq_threads'[r])
               /\ \A u \in Range(imq_threads'[r]) :
                    pc'[u] = "rcv_wait" /\ op'[u].obj = r /\ ith_state'[u] = "RCV_IN_PROGRESS"
    <3>1. CASE r = q
      BY <2>2, <3>1, EmptyFacts
    <3>2. CASE r # q
      BY <1>1, <2>1, <3>2 DEF Receiving
    <3> QED
      BY <3>1, <3>2
  <2> QED
    BY <2>3 DEF Receiving
<1>6. Carrying'
  BY <1>1 DEF Carrying, Carries
<1> QED
  BY <1>1, <1>2, <1>4, <1>5, <1>6

LEMMA DestroySetInv ==
    ASSUME IInv, NEW s \in Pset, ipc_pset_destroy(s)
    PROVE  IInv'
<1>1. /\ Shape /\ Receiving /\ Carrying /\ Sending /\ SendInv /\ NobodyWaitsInVain
      /\ s \in Queue
  BY DEF IInv, SendInv, ReceiveInv, Queue
<1>2. /\ Changed(s, "PORT_DIED") /\ ips_active' = [ips_active EXCEPT ![s] = FALSE]
      /\ UNCHANGED <<ip_active, ip_msgcount, ip_qlimit, ip_blocked, ip_pset, imq_messages,
                     pc, op, sent>>
  BY DEF ipc_pset_destroy, threadVars
<1>3. "PORT_DIED" \in States \ {"SUCCESS"}
  BY DEF States
<1>4. /\ imq_threads' \in [Queue -> Seq(Thread)] /\ ith_state' \in [Thread -> States]
      /\ ith_kmsg' = ith_kmsg /\ Receiving' /\ Carrying'
      /\ \A u \in Thread : pc[u] = "snd_wait" => ith_state'[u] = ith_state[u]
  BY <1>1, <1>2, <1>3, ChangedFacts
<1>5. Shape'
  BY <1>1, <1>2, <1>4 DEF Shape
<1>6. SendInv'
  BY <1>1, <1>2, <1>4, SendersUndisturbed
<1>7. NobodyWaitsInVain'
  <2>1. imq_threads' = [imq_threads EXCEPT ![s] = << >>]
    BY <1>2, ZenonT(30) DEF Changed
  <2> QED
    BY <1>1, <1>2, <2>1 DEF NobodyWaitsInVain, Shape
<1> QED
  BY <1>4, <1>5, <1>6, <1>7 DEF IInv, ReceiveInv

\* ipc_pset_add and ipc_pset_remove.
LEMMA RelocateInv ==
    ASSUME IInv, PickSound, NEW p \in Port, NEW s \in Pset \cup {NoPset}, s # ip_pset[p],
           ip_active[p], s # NoPset => ips_active[s],
           Relocate(p, s),
           UNCHANGED <<ip_active, ip_msgcount, ip_qlimit, ip_blocked, ips_active, threadVars,
                       sent>>
    PROVE  IInv'
<1> DEFINE dest == IF s = NoPset THEN p ELSE s
           source == MqueueOf(p)
           ms == Moved(source, p)
           moved == IF s = NoPset THEN {} ELSE Range(imq_threads[p])
<1>1. /\ Shape /\ Receiving /\ Carrying /\ Sending /\ SendInv /\ NobodyWaitsInVain
      /\ UNCHANGED <<pc, op>>
  BY DEF IInv, SendInv, ReceiveInv, threadVars
<1>2. dest \in Queue /\ source \in Queue /\ dest # source /\ p \in Queue
  <2>1. ip_pset[p] \in Pset \cup {NoPset} /\ source = (IF ip_pset[p] = NoPset THEN p ELSE ip_pset[p])
    BY <1>1, Zenon DEF MqueueOf, Shape
  <2>2. Queue = Port \cup Pset /\ Port \cap Pset = {} /\ NoPset \notin Pset
    BY ConstantsAssumption, ZenonT(30) DEF Queue
  <2> HIDE DEF source
  <2> QED BY <2>1, <2>2
<1>3. /\ ms \in Seq(AnyKmsg) /\ Remainder(source, p) \in Seq(AnyKmsg)
      /\ imq_messages[source] = << >> => Remainder(source, p) = << >>
  <2>1. imq_messages[source] \in Seq(AnyKmsg)
    BY <1>1, <1>2 DEF Shape
  <2> DEFINE M == imq_messages[source]
             Mine == {j \in DOMAIN M : M[j].port = p}
             Others == {j \in DOMAIN M : M[j].port # p}
  <2>2. ms = Pick(M, Mine) /\ Remainder(source, p) = Pick(M, Others)
    BY DEF Moved, Remainder
  <2>3. Mine \subseteq DOMAIN M /\ Others \subseteq DOMAIN M /\ (M = << >> => Others = {})
    OBVIOUS
  <2> HIDE DEF M, Mine, Others, ms
  <2>4. M \in Seq(AnyKmsg)
    BY <2>1 DEF M
  <2>5. /\ Pick(M, Mine) \in Seq(AnyKmsg) /\ Pick(M, Others) \in Seq(AnyKmsg)
        /\ Others = {} => Pick(M, Others) = << >>
    BY <2>3, <2>4, Zenon DEF PickSound
  <2> QED
    BY <2>2, <2>3, <2>5 DEF M
<1>4. PICK f \in Turns(imq_threads[dest], ms) :
        LET d == Deliver(dest, ms, f) IN
        /\ ip_pset' = [ip_pset EXCEPT ![p] = s]
        /\ imq_messages' = [imq_messages EXCEPT ![source] = Remainder(source, p),
                                                ![dest] = d.messages]
        /\ imq_threads' = [imq_threads EXCEPT ![p] = IF s = NoPset THEN @ ELSE << >>,
                                              ![dest] = d.threads]
        /\ Notify(d, moved, "PORT_CHANGED")
  BY Zenon DEF Relocate
<1> DEFINE d == Deliver(dest, ms, f)
           R == Range(imq_threads[dest])
<1> HIDE DEF dest, source, ms, moved, d
<1>5. /\ d.threads \in Seq(Thread) /\ IsInjective(d.threads)
      /\ Range(d.threads) \subseteq R
      /\ \A g \in d.given \cup d.small :
           g[1] \in R /\ g[1] \notin Range(d.threads) /\ g[2] \in AnyKmsg
      /\ d.messages \in Seq(AnyKmsg)
      /\ d.threads # << >> => d.messages = imq_messages[dest] /\ imq_threads[dest] # << >>
  <2>1. d = Deliver(dest, ms, f)
    BY DEF d
  <2>2. Delivered(d, dest)
    BY <1>1, <1>2, <1>3, <2>1, DeliverFacts, Zenon
  <2> QED
    BY <2>2, Zenon DEF Delivered, R
<1> HIDE DEF R
<1> DEFINE S == R \ Range(d.threads)
<1>6. /\ ith_state' \in [Thread -> States]
      /\ ith_kmsg' \in [Thread -> AnyKmsg \cup {NoKmsg}]
      /\ \A u \in Thread : u \notin S /\ u \notin moved =>
           ith_state'[u] = ith_state[u] /\ ith_kmsg'[u] = ith_kmsg[u]
      /\ \A u \in Thread : ith_kmsg'[u] = ith_kmsg[u] \/ ith_kmsg'[u] \in AnyKmsg
      /\ \A u \in Thread : u \in S \cup moved /\ ith_state'[u] = "SUCCESS" =>
           ith_kmsg'[u] \in AnyKmsg \/ ith_state[u] = "SUCCESS"
  <2>1. "PORT_CHANGED" \in States /\ Notify(d, moved, "PORT_CHANGED")
    BY <1>4 DEF States, d
  <2>2. \A g \in d.given \cup d.small : g[1] \in S /\ g[2] \in AnyKmsg
    BY <1>5, Zenon
  <2> HIDE DEF S
  <2> QED
    BY <1>1, <2>1, <2>2, NotifyFacts, Zenon
<1>7. /\ imq_threads' \in [Queue -> Seq(Thread)]
      /\ imq_messages' \in [Queue -> Seq(AnyKmsg)]
      /\ ip_pset' \in [Port -> Pset \cup {NoPset}]
  <2>1. imq_threads' \in [Queue -> Seq(Thread)]
    <3> DEFINE A == [imq_threads EXCEPT ![p] = IF s = NoPset THEN @ ELSE << >>]
    <3>1. A \in [Queue -> Seq(Thread)]
      BY <1>1, <1>2 DEF Shape
    <3>2. imq_threads' = [A EXCEPT ![dest] = d.threads]
      BY <1>4 DEF d
    <3> HIDE DEF A
    <3> QED
      BY <1>2, <1>5, <3>1, <3>2
  <2>2. imq_messages' \in [Queue -> Seq(AnyKmsg)]
    BY <1>1, <1>2, <1>3, <1>4, <1>5, Zenon DEF Shape, d
  <2>3. ip_pset' \in [Port -> Pset \cup {NoPset}]
    BY <1>1, <1>4 DEF Shape
  <2> QED
    BY <2>1, <2>2, <2>3, Zenon
<1>8. Shape'
  BY <1>1, <1>6, <1>7, ZenonT(30) DEF Shape
<1>9. \A u \in R \cup moved : pc[u] = "rcv_wait"
  BY <1>1, <1>2 DEF R, moved, Receiving, Queue
<1>10. SendInv'
  <2>1. \A u \in Thread : pc[u] = "snd_wait" => ith_state'[u] = ith_state[u]
    BY <1>6, <1>9, Zenon
  <2> QED
    BY <1>1, <2>1, SendersUndisturbed, Zenon
<1>11. ASSUME NEW q \in Queue
       PROVE  imq_threads'[q] = IF q = dest THEN d.threads
                                ELSE IF q = p /\ s # NoPset THEN << >> ELSE imq_threads[q]
  BY <1>1, <1>2, <1>4, Zenon DEF Shape, d, dest
<1>12. Receiving'
  <2>1. ASSUME NEW q \in Queue
        PROVE  /\ IsInjective(imq_threads'[q])
               /\ \A u \in Range(imq_threads'[q]) :
                    pc'[u] = "rcv_wait" /\ op'[u].obj = q /\ ith_state'[u] = "RCV_IN_PROGRESS"
    <3>0. \A r \in Queue : Range(imq_threads[r]) \subseteq Thread
      <4>1. \A r \in Queue : imq_threads[r] \in Seq(Thread)
        BY <1>1, Zenon DEF Shape
      <4> QED
        BY <4>1, ElementFacts, Zenon
    <3>1. CASE q = dest
      <4>1. \A u \in Range(d.threads) : u \in Thread /\ u \in Range(imq_threads[q]) /\ u \notin S
        BY <1>5, <3>0, <3>1, Zenon DEF R
      <4>2. \A u \in Range(d.threads) : u \notin moved
        <5>1. \A u \in moved : op[u].obj = p /\ s # NoPset
          BY <1>1, Zenon DEF Receiving, moved, Queue
        <5>2. \A u \in Range(d.threads) : op[u].obj = dest
          BY <1>1, <1>2, <3>1, <4>1, Zenon DEF Receiving
        <5>3. s # NoPset => dest # p
          BY ConstantsAssumption, ZenonT(30) DEF dest
        <5> QED
          BY <5>1, <5>2, <5>3
      <4> QED
        <5>1. imq_threads'[q] = d.threads /\ IsInjective(d.threads)
          BY <1>5, <1>11, <3>1, Zenon
        <5>2. pc' = pc /\ op' = op
          BY <1>1, Zenon
        <5>3. \A u \in Range(imq_threads[q]) :
                 pc[u] = "rcv_wait" /\ op[u].obj = q /\ ith_state[u] = "RCV_IN_PROGRESS"
          BY <1>1, Zenon DEF Receiving
        <5>4. \A u \in Range(d.threads) : ith_state'[u] = ith_state[u]
          BY <1>6, <4>1, <4>2, Zenon
        <5> QED
          BY <4>1, <5>1, <5>2, <5>3, <5>4, Zenon
    <3>2. CASE q # dest /\ q = p /\ s # NoPset
      BY <1>11, <3>2, EmptyFacts, ZenonT(30)
    <3>3. CASE q # dest /\ ~(q = p /\ s # NoPset)
      <4>1. imq_threads'[q] = imq_threads[q]
        BY <1>11, <3>3
      <4>2. \A u \in Range(imq_threads[q]) : u \in Thread /\ u \notin R /\ u \notin moved
        BY <1>1, <1>2, <3>0, <3>3 DEF Receiving, moved, R, Queue
      <4>3. /\ IsInjective(imq_threads[q])
            /\ \A u \in Range(imq_threads[q]) :
                 pc[u] = "rcv_wait" /\ op[u].obj = q /\ ith_state[u] = "RCV_IN_PROGRESS"
        BY <1>1, Zenon DEF Receiving
      <4>4. \A u \in Range(imq_threads[q]) : ith_state'[u] = ith_state[u]
        BY <1>6, <4>2, Zenon
      <4>5. pc' = pc /\ op' = op
        BY <1>1, Zenon
      <4> QED
        BY <4>1, <4>3, <4>4, <4>5, Zenon
    <3> QED
      BY <3>1, <3>2, <3>3, ZenonT(30)
  <2> QED
    BY <1>1, <2>1 DEF Receiving
<1>13. Carrying'
  BY <1>1, <1>6 DEF Carrying, Carries
<1>14. NobodyWaitsInVain'
  <2> SUFFICES ASSUME NEW q \in Queue, imq_threads'[q] # << >>
               PROVE  /\ imq_messages'[q] = << >>
                      /\ q \in Pset => ips_active'[q]
                      /\ q \in Port => ip_active'[q] /\ ip_pset'[q] = NoPset
    BY Zenon DEF NobodyWaitsInVain
  <2>1. imq_threads[q] # << >>
    BY <1>5, <1>11, Zenon DEF d
  <2>2. /\ imq_messages[q] = << >>
        /\ q \in Pset => ips_active[q]
        /\ q \in Port => ip_active[q] /\ ip_pset[q] = NoPset
    BY <1>1, <2>1, Zenon DEF NobodyWaitsInVain
  <2>3. imq_messages'[q] = << >>
    <3>1. CASE q = dest
      <4>1. imq_messages'[q] = d.messages
        BY <1>1, <1>2, <1>4, <3>1, ZenonT(30) DEF Shape, d
      <4> QED
        BY <1>5, <1>11, <2>2, <3>1, <4>1, ZenonT(30)
    <3>2. CASE q # dest
      <4>1. imq_messages'[q] = IF q = source THEN Remainder(source, p) ELSE imq_messages[q]
        BY <1>1, <1>2, <1>4, <3>2, Zenon DEF Shape, d
      <4> QED
        BY <1>3, <2>2, <4>1
    <3> QED
      BY <3>1, <3>2
  <2>4. q \in Port => ip_pset'[q] = NoPset
    <3>1. CASE q = p
      <4>1. s = NoPset
        BY <1>11, <3>1, ConstantsAssumption, ZenonT(30) DEF dest
      <4> QED
        BY <1>1, <1>4, <3>1, <4>1, ZenonT(30) DEF Shape
    <3>2. CASE q # p
      BY <1>1, <1>4, <2>2, <3>2, Zenon DEF Shape
    <3> QED
      BY <3>1, <3>2, Zenon
  <2> QED
    BY <2>2, <2>3, <2>4, ZenonT(30)
<1> QED
  BY <1>8, <1>10, <1>12, <1>13, <1>14, ZenonT(30) DEF IInv, ReceiveInv

LEMMA MoveInv ==
    ASSUME IInv, PickSound, NEW p \in Port, NEW s \in Pset \cup {NoPset}, ipc_pset_move(p, s)
    PROVE  IInv'
BY RelocateInv DEF ipc_pset_move

LEMMA ClearReceiverInv ==
    ASSUME IInv, PickSound, NEW p \in Port, ipc_port_clear_receiver(p)
    PROVE  IInv'
<1>1. /\ Shape /\ Receiving /\ Carrying /\ Sending /\ SendInv /\ NobodyWaitsInVain
      /\ p \in Queue
  BY DEF IInv, SendInv, ReceiveInv, Queue
<1>2. CASE ip_pset[p] # NoPset /\ Relocate(p, NoPset)
  BY <1>2, RelocateInv, ZenonT(30) DEF ipc_port_clear_receiver
<1>3. CASE /\ Changed(p, "PORT_DIED") /\ ip_pset[p] = NoPset
           /\ UNCHANGED <<ip_pset, imq_messages, taken>>
  <2>1. UNCHANGED <<ip_active, ip_msgcount, ip_qlimit, ip_blocked, ips_active, ip_pset,
                    imq_messages, pc, op, sent>>
    BY <1>3 DEF ipc_port_clear_receiver, threadVars
  <2>2. "PORT_DIED" \in States \ {"SUCCESS"}
    BY DEF States
  <2>3. /\ imq_threads' \in [Queue -> Seq(Thread)] /\ ith_state' \in [Thread -> States]
        /\ ith_kmsg' = ith_kmsg /\ Receiving' /\ Carrying'
        /\ \A u \in Thread : pc[u] = "snd_wait" => ith_state'[u] = ith_state[u]
    BY <1>1, <1>3, <2>1, <2>2, ChangedFacts, ZenonT(30)
  <2>4. Shape'
    BY <1>1, <2>1, <2>3, ZenonT(30) DEF Shape
  <2>5. SendInv'
    BY <1>1, <2>1, <2>3, SendersUndisturbed
  <2>6. NobodyWaitsInVain'
    <3>1. imq_threads' = [imq_threads EXCEPT ![p] = << >>]
      BY <1>3 DEF Changed
    <3> QED
      BY <1>1, <2>1, <3>1 DEF NobodyWaitsInVain, Shape
  <2> QED
    BY <2>3, <2>4, <2>5, <2>6 DEF IInv, ReceiveInv
<1> QED
  BY <1>2, <1>3 DEF ipc_port_clear_receiver
-----------------------------------------------------------------------------
(***************************************************************************)
(* Receiving                                                               *)
(***************************************************************************)
Live(q) == (q \in Pset => ips_active[q]) /\ (q \in Port => ip_active[q] /\ ip_pset[q] = NoPset)

\* The loop of ipc_mqueue_receive, for queues M and T that differ from the
\* current ones by what happened since the lock was taken.
LEMMA ReceiveLoopInv ==
    ASSUME IInv, NEW t \in Thread, NEW o \in Ops,
           NEW M \in [Queue -> Seq(AnyKmsg)], NEW T \in [Queue -> Seq(Thread)],
           pc[t] # "snd_wait",
           \A q \in Queue : /\ IsInjective(T[q]) /\ t \notin Range(T[q])
                            /\ Range(T[q]) \subseteq Range(imq_threads[q])
                            /\ T[q] # << >> => M[q] = << >> /\ Live(q)',
           o.timeout # "zero" => Live(o.obj)',
           ReceiveLoop(t, o, M, T),
           UNCHANGED <<ip_active, ip_msgcount, ip_qlimit, ip_blocked, ips_active, sent>>,
           ip_pset' \in [Port -> Pset \cup {NoPset}]
    PROVE  IInv'
<1> DEFINE q == o.obj
<1>1. /\ Shape /\ Receiving /\ Carrying /\ Sending /\ SendInv /\ NobodyWaitsInVain
      /\ q \in Queue
  BY Zenon DEF IInv, SendInv, ReceiveInv, Ops
<1>2. ASSUME NEW r \in Queue, NEW u \in Range(T[r])
      PROVE  /\ u \in Thread /\ u # t /\ pc[u] = "rcv_wait" /\ op[u].obj = r
             /\ ith_state[u] = "RCV_IN_PROGRESS"
  <2>1. u \in Range(imq_threads[r]) /\ u # t
    BY ZenonT(30)
  <2>2. u \in Thread
    <3>1. imq_threads[r] \in Seq(Thread)
      BY <1>1, Zenon DEF Shape
    <3> QED
      BY <2>1, <3>1, ElementFacts, Zenon
  <2> QED
    BY <1>1, <2>1, <2>2, ZenonT(30) DEF Receiving
<1> HIDE DEF q
<1>3. CASE Return(t) /\ imq_messages' = M /\ imq_threads' = T /\ UNCHANGED ithVars
  <2>1. /\ pc' = [pc EXCEPT ![t] = "idle"] /\ op' = [op EXCEPT ![t] = NoOp]
        /\ imq_messages' = M /\ imq_threads' = T /\ ith_state' = ith_state /\ ith_kmsg' = ith_kmsg
    BY <1>3 DEF Return, ithVars
  <2>2. Shape'
    BY <1>1, <2>1, Zenon DEF Shape
  <2>3. \A u \in Thread : u # t => pc'[u] = pc[u] /\ op'[u] = op[u]
    BY <1>1, <2>1, Zenon DEF Shape
  <2>3a. pc'[t] = "idle"
    BY <1>1, <2>1, Zenon DEF Shape
  <2>4. SendInv'
    BY <1>1, <2>1, <2>3, <2>3a, SendersUndisturbed, Zenon
  <2>5. Receiving'
    BY <1>1, <1>2, <2>1, <2>3, <2>3a, SMTT(30) DEF Receiving
  <2>6. Carrying'
    BY <1>1, <2>1, <2>3, <2>3a, ZenonT(30) DEF Carrying, Carries
  <2>7. NobodyWaitsInVain'
    BY <2>1, ZenonT(30) DEF NobodyWaitsInVain, Live
  <2> QED
    BY <2>2, <2>4, <2>5, <2>6, <2>7, Zenon DEF IInv, ReceiveInv
<1>4. CASE /\ M[q] # << >>
           /\ imq_messages' = [M EXCEPT ![q] = Tail(@)] /\ imq_threads' = T
           /\ ith_kmsg' = [ith_kmsg EXCEPT ![t] = Head(M[q])]
           /\ pc' = [pc EXCEPT ![t] = "rcv_done"] /\ op' = [op EXCEPT ![t] = o]
           /\ UNCHANGED ith_state
  <2>1. Head(M[q]) \in AnyKmsg /\ Tail(M[q]) \in Seq(AnyKmsg)
    <3>1. M[q] \in Seq(AnyKmsg) /\ M[q] # << >>
      BY <1>1, <1>4, Zenon
    <3> QED
      BY <3>1, DequeueFacts, Zenon
  <2>2. /\ \A u \in Thread : u # t =>
             pc'[u] = pc[u] /\ op'[u] = op[u] /\ ith_kmsg'[u] = ith_kmsg[u]
        /\ pc'[t] = "rcv_done" /\ ith_kmsg'[t] \in AnyKmsg /\ ith_state' = ith_state
    BY <1>1, <1>4, <2>1, ZenonT(30) DEF Shape
  <2>3. imq_messages' \in [Queue -> Seq(AnyKmsg)]
    BY <1>1, <1>4, <2>1, Zenon
  <2>4. Shape'
    BY <1>1, <1>4, <2>1, <2>3, Zenon DEF Shape
  <2>5. SendInv'
    BY <1>1, <2>2, SendersUndisturbed, ZenonT(30)
  <2>6. Receiving'
    BY <1>1, <1>2, <1>4, <2>2 DEF Receiving
  <2>7. Carrying'
    BY <1>1, <2>2, Zenon DEF Carrying, Carries
  <2>8. NobodyWaitsInVain'
    BY <1>1, <1>4, ZenonT(30) DEF NobodyWaitsInVain, Live
  <2> QED
    BY <2>4, <2>5, <2>6, <2>7, <2>8, Zenon DEF IInv, ReceiveInv
<1>5. CASE /\ M[q] = << >> /\ o.timeout # "zero"
           /\ imq_messages' = M /\ imq_threads' = [T EXCEPT ![q] = Append(@, t)]
           /\ ith_state' = [ith_state EXCEPT ![t] = "RCV_IN_PROGRESS"]
           /\ pc' = [pc EXCEPT ![t] = "rcv_wait"] /\ op' = [op EXCEPT ![t] = o]
           /\ UNCHANGED ith_kmsg
  <2>1. /\ Append(T[q], t) \in Seq(Thread) /\ IsInjective(Append(T[q], t))
        /\ Range(Append(T[q], t)) = Range(T[q]) \cup {t}
    <3>1. T[q] \in Seq(Thread) /\ IsInjective(T[q]) /\ t \notin Range(T[q])
      BY <1>1, Zenon
    <3>2. \A r \in Seq(Thread) :
            /\ Append(r, t) \in Seq(Thread)
            /\ Range(Append(r, t)) = Range(r) \cup {t}
            /\ IsInjective(r) /\ t \notin Range(r) => IsInjective(Append(r, t))
      <4> SUFFICES ASSUME NEW r \in Seq(Thread)
                   PROVE  /\ Append(r, t) \in Seq(Thread)
                          /\ Range(Append(r, t)) = Range(r) \cup {t}
                          /\ IsInjective(r) /\ t \notin Range(r) => IsInjective(Append(r, t))
        BY Zenon
      <4> QED
        BY EnqueueFacts
    <3> QED
      BY <3>1, <3>2, Zenon
  <2>2. /\ \A u \in Thread : u # t =>
             pc'[u] = pc[u] /\ op'[u] = op[u] /\ ith_state'[u] = ith_state[u]
        /\ pc'[t] = "rcv_wait" /\ op'[t] = o /\ ith_state'[t] = "RCV_IN_PROGRESS"
        /\ ith_kmsg' = ith_kmsg
    BY <1>1, <1>5 DEF Shape
  <2>3. imq_threads' \in [Queue -> Seq(Thread)]
    BY <1>1, <1>5, <2>1, Zenon
  <2>4. Shape'
    <3>1. "RCV_IN_PROGRESS" \in States
      BY DEF States
    <3> QED
      BY <1>1, <1>5, <2>3, <3>1, Zenon DEF Shape
  <2>5. SendInv'
    BY <1>1, <2>2, SendersUndisturbed, Zenon
  <2>6. Receiving'
    <3>1. ASSUME NEW r \in Queue
          PROVE  /\ IsInjective(imq_threads'[r])
                 /\ \A u \in Range(imq_threads'[r]) :
                      /\ pc'[u] = "rcv_wait" /\ op'[u].obj = r
                      /\ ith_state'[u] = "RCV_IN_PROGRESS"
      <4>1. CASE r = q
        <5>1. imq_threads'[r] = Append(T[q], t)
          BY <1>1, <1>5, <4>1, ZenonT(30)
        <5>2. ASSUME NEW u \in Range(T[q])
              PROVE  /\ pc'[u] = "rcv_wait" /\ op'[u].obj = q
                     /\ ith_state'[u] = "RCV_IN_PROGRESS"
          <6>1. /\ u \in Thread /\ u # t /\ pc[u] = "rcv_wait" /\ op[u].obj = q
                /\ ith_state[u] = "RCV_IN_PROGRESS"
            BY <1>1, <1>2, ZenonT(30)
          <6> QED
            BY <2>2, <6>1
        <5>3. op'[t].obj = q
          BY <2>2, ZenonT(30) DEF q
        <5> QED
          BY <2>1, <2>2, <4>1, <5>1, <5>2, <5>3, Zenon
      <4>2. CASE r # q
        <5>1. imq_threads'[r] = T[r]
          BY <1>1, <1>5, <4>2
        <5>2. /\ IsInjective(T[r])
              /\ \A u \in Range(T[r]) : /\ u \in Thread /\ u # t /\ pc[u] = "rcv_wait"
                                        /\ op[u].obj = r /\ ith_state[u] = "RCV_IN_PROGRESS"
          BY <1>1, <1>2, ZenonT(30)
        <5> QED
          BY <2>2, <5>1, <5>2, ZenonT(30)
      <4> QED
        BY <4>1, <4>2, Zenon
    <3> QED
      BY <1>1, <2>2, <3>1, ZenonT(30) DEF Receiving
  <2>7. Carrying'
    BY <1>1, <2>2, ZenonT(30) DEF Carrying, Carries
  <2>8. NobodyWaitsInVain'
    <3>1. Live(q)'
      BY <1>5, Zenon DEF q
    <3> QED
      BY <1>1, <1>5, <3>1 DEF NobodyWaitsInVain, Live
  <2> QED
    BY <2>4, <2>5, <2>6, <2>7, <2>8, Zenon DEF IInv, ReceiveInv
<1> QED
  BY <1>3, <1>4, <1>5, Zenon DEF ReceiveLoop, q

LEMMA ReceiveInv1 ==
    ASSUME IInv, PickSound, NEW t \in Thread, NEW o \in Calls, ipc_mqueue_receive(t, o)
    PROVE  IInv'
<1>1. /\ Shape /\ Receiving /\ NobodyWaitsInVain /\ o \in Ops /\ pc[t] = "idle"
      /\ UNCHANGED <<ip_active, ip_msgcount, ip_qlimit, ip_blocked, ips_active, sent>>
  <2>1. o \in Ops
    BY ConstantsAssumption, Zenon DEF Calls, Ops
  <2> QED
    BY <2>1, Zenon DEF IInv, ReceiveInv, ipc_mqueue_receive, Idle
<1>2. /\ imq_messages \in [Queue -> Seq(AnyKmsg)] /\ imq_threads \in [Queue -> Seq(Thread)]
      /\ ip_pset \in [Port -> Pset \cup {NoPset}]
  BY <1>1, ZenonT(30) DEF Shape
<1>3. \A q \in Queue : IsInjective(imq_threads[q]) /\ t \notin Range(imq_threads[q])
  BY <1>1, ZenonT(30) DEF Receiving
<1>4. \A q \in Queue : imq_threads[q] # << >> => imq_messages[q] = << >> /\ Live(q)
  BY <1>1, Zenon DEF NobodyWaitsInVain, Live
<1>5. CASE /\ ReceiveLoop(t, o, imq_messages, imq_threads) /\ UNCHANGED ip_pset
           /\ Live(o.obj)
  <2>1. \A q : Live(q)' <=> Live(q)
    BY <1>1, <1>5, Zenon DEF Live
  <2>2. \A q \in Queue : imq_threads[q] # << >> => imq_messages[q] = << >> /\ Live(q)'
    BY <1>4, <2>1
  <2>3. ip_pset' \in [Port -> Pset \cup {NoPset}] /\ Live(o.obj)'
    BY <1>2, <1>5, <2>1
  <2> QED
    BY <1>1, <1>2, <1>3, <1>5, <2>2, <2>3, ReceiveLoopInv, Zenon
<1>6. CASE /\ o.obj \in Port /\ ip_active[o.obj] /\ ip_pset[o.obj] # NoPset
           /\ ~ips_active[ip_pset[o.obj]]
           /\ LET s == ip_pset[o.obj]
              IN  ReceiveLoop(t, o, [imq_messages EXCEPT ![o.obj] = Moved(s, o.obj),
                                                         ![s] = Remainder(s, o.obj)], imq_threads)
           /\ ip_pset' = [ip_pset EXCEPT ![o.obj] = NoPset]
  <2> DEFINE p == o.obj
             s == ip_pset[p]
             M == [imq_messages EXCEPT ![p] = Moved(s, p), ![s] = Remainder(s, p)]
  <2>1. p \in Port /\ p \in Queue /\ s \in Pset /\ s \in Queue /\ p # s
    BY <1>2, <1>6, ConstantsAssumption, ZenonT(30) DEF Queue
  <2>2. Moved(s, p) \in Seq(AnyKmsg) /\ Remainder(s, p) \in Seq(AnyKmsg)
    <3>1. imq_messages[s] \in Seq(AnyKmsg)
      BY <1>2, <2>1, Zenon
    <3> QED
      <4> DEFINE N == imq_messages[s]
                 Mine == {j \in DOMAIN N : N[j].port = p}
                 Others == {j \in DOMAIN N : N[j].port # p}
      <4>1. Mine \in SUBSET DOMAIN N /\ Others \in SUBSET DOMAIN N
        OBVIOUS
      <4>2. Moved(s, p) = Pick(N, Mine) /\ Remainder(s, p) = Pick(N, Others)
        BY DEF Moved, Remainder
      <4> HIDE DEF N, Mine, Others
      <4>3. N \in Seq(AnyKmsg)
        BY <3>1 DEF N
      <4> QED
        BY <4>1, <4>2, <4>3, Zenon DEF PickSound
  <2>3. ReceiveLoop(t, o, M, imq_threads)
    BY <1>6
  <2> HIDE DEF s
  <2>4. M \in [Queue -> Seq(AnyKmsg)]
    BY <1>2, <2>1, <2>2, Zenon
  <2>5. ip_pset' \in [Port -> Pset \cup {NoPset}]
    BY <1>2, <1>6, ZenonT(30)
  <2>6. imq_threads[p] = << >> /\ imq_threads[s] = << >>
    <3>1. ~Live(p) /\ ~Live(s)
      BY <1>6, <2>1 DEF Live, s
    <3> QED
      BY <1>4, <2>1, <3>1, Zenon
  <2>7. ASSUME NEW q \in Queue, imq_threads[q] # << >> PROVE M[q] = << >> /\ Live(q)'
    <3>1. q # p /\ q # s /\ imq_messages[q] = << >> /\ Live(q)
      BY <1>4, <2>6, <2>7, Zenon
    <3>2. Live(q)'
      BY <1>1, <1>2, <1>6, <3>1, ZenonT(30) DEF Live
    <3> QED
      BY <1>2, <2>1, <3>1, <3>2
  <2>8. Live(p)'
    BY <1>1, <1>2, <1>6, <2>1, ConstantsAssumption, ZenonT(30) DEF Live
  <2> HIDE DEF M, p
  <2>9. o.obj = p
    BY DEF p
  <2> QED
    BY <1>1, <1>2, <1>3, <2>3, <2>4, <2>5, <2>7, <2>8, <2>9, ReceiveLoopInv, ZenonT(30)
<1> QED
  <2>1. /\ o.obj \in Pset /\ ips_active[o.obj] => Live(o.obj)
        /\ o.obj \in Port /\ ip_active[o.obj] /\ ip_pset[o.obj] = NoPset => Live(o.obj)
    BY ConstantsAssumption, Zenon DEF Live
  <2> QED
    BY <1>5, <1>6, <2>1, Zenon DEF ipc_mqueue_receive

LEMMA ReceiveResumeInv ==
    ASSUME IInv, NEW t \in Thread, receive_resume(t)
    PROVE  IInv'
<1> DEFINE q == op[t].obj
           unlinked == [imq_threads EXCEPT ![q] = ipc_thread_rmqueue(@, t)]
<1>1. /\ Shape /\ Receiving /\ Carrying /\ Sending /\ SendInv /\ NobodyWaitsInVain
      /\ pc[t] = "rcv_wait" /\ op[t] \in Ops /\ q \in Queue
      /\ UNCHANGED <<ip_active, ip_msgcount, ip_qlimit, ip_blocked, ip_pset, ips_active, sent>>
  <2>1. Receiving /\ pc[t] = "rcv_wait"
    BY DEF IInv, ReceiveInv, receive_resume
  <2>2. op[t] \in Ops
    BY <2>1 DEF Receiving
  <2> QED
    BY <2>1, <2>2 DEF IInv, ReceiveInv, SendInv, receive_resume, portVars, Ops
<1>2. /\ imq_messages \in [Queue -> Seq(AnyKmsg)] /\ imq_threads \in [Queue -> Seq(Thread)]
      /\ ip_pset \in [Port -> Pset \cup {NoPset}]
  BY <1>1, Zenon DEF Shape
<1>3. /\ unlinked \in [Queue -> Seq(Thread)]
      /\ \A r \in Queue : /\ IsInjective(unlinked[r])
                           /\ t \notin Range(unlinked[r])
                           /\ Range(unlinked[r]) \subseteq Range(imq_threads[r])
  <2>1. /\ ipc_thread_rmqueue(imq_threads[q], t) \in Seq(Thread)
        /\ Range(ipc_thread_rmqueue(imq_threads[q], t)) = Range(imq_threads[q]) \ {t}
        /\ IsInjective(ipc_thread_rmqueue(imq_threads[q], t))
    <3>1. imq_threads[q] \in Seq(Thread)
      BY <1>1, <1>2, Zenon
    <3>2. IsInjective(imq_threads[q])
      BY <1>1, ZenonT(30) DEF Receiving
    <3> QED
      BY <3>1, <3>2, RmqueueFacts, ZenonT(30)
  <2>2. \A r \in Queue : r # q => t \notin Range(imq_threads[r]) /\ IsInjective(imq_threads[r])
    BY <1>1, ZenonT(30) DEF Receiving
  <2> QED
    BY <1>1, <1>2, <2>1, <2>2, Zenon
<1>4. \A r \in Queue : unlinked[r] # << >> => imq_threads[r] # << >>
  <2>1. ASSUME NEW r \in Queue, unlinked[r] # << >> PROVE Range(unlinked[r]) # {}
    BY <1>3, <2>1, NonEmptyFacts
  <2> QED
    BY <1>3, <2>1, EmptyFacts, Zenon
<1>5. \A r \in Queue : imq_threads[r] # << >> => imq_messages[r] = << >> /\ Live(r)'
  BY <1>1, Zenon DEF NobodyWaitsInVain, Live
<1> HIDE DEF unlinked, q
<1>6. ASSUME /\ imq_messages' = imq_messages
             /\ imq_threads' = unlinked \/ (imq_threads' = imq_threads /\ \A r \in Queue : t \notin Range(imq_threads[r]))
             /\ UNCHANGED <<ith_state, ith_kmsg>>
             /\ pc' = [pc EXCEPT ![t] = "idle"] \/ pc' = [pc EXCEPT ![t] = "panic"]
             /\ op' = [op EXCEPT ![t] = NoOp] \/ op' = op
      PROVE  IInv'
  <2>1. Shape'
    BY <1>1, <1>2, <1>3, <1>6, Zenon DEF Shape
  <2>2. /\ \A u \in Thread : u # t => pc'[u] = pc[u] /\ op'[u] = op[u]
        /\ pc'[t] \in {"idle", "panic"}
    BY <1>1, <1>6, ZenonT(30) DEF Shape
  <2>3. SendInv'
    BY <1>1, <1>6, <2>2, SendersUndisturbed, ZenonT(30)
  <2>4. \A r \in Queue : /\ IsInjective(imq_threads'[r])
                         /\ t \notin Range(imq_threads'[r])
                         /\ Range(imq_threads'[r]) \subseteq Range(imq_threads[r])
                         /\ imq_threads'[r] # << >> => imq_threads[r] # << >>
    BY <1>1, <1>3, <1>4, <1>6, Zenon DEF Receiving
  <2>5. Receiving'
    <3>1. \A r \in Queue : Range(imq_threads[r]) \subseteq Thread
      BY <1>2 DEF Range
    <3>2. ASSUME NEW r \in Queue, NEW u \in Range(imq_threads'[r])
          PROVE  pc'[u] = "rcv_wait" /\ op'[u].obj = r /\ ith_state'[u] = "RCV_IN_PROGRESS"
      <4>1. u \in Range(imq_threads[r]) /\ u \in Thread /\ u # t
        BY <2>4, <3>1, <3>2, ZenonT(30)
      <4>2. pc[u] = "rcv_wait" /\ op[u].obj = r /\ ith_state[u] = "RCV_IN_PROGRESS"
        BY <1>1, <4>1, ZenonT(30) DEF Receiving
      <4> QED
        BY <1>6, <2>2, <4>1, <4>2, ZenonT(30)
    <3>3. \A u \in Thread : pc'[u] = "rcv_wait" => op'[u] \in Ops
      <4>1. \A u \in Thread : pc'[u] = "rcv_wait" => u # t
        BY <2>2
      <4> QED
        BY <1>1, <2>2, <4>1, ZenonT(30) DEF Receiving
    <3> QED
      BY <2>4, <3>2, <3>3, ZenonT(30) DEF Receiving
  <2>6. Carrying'
    BY <1>1, <1>6, <2>2, Zenon DEF Carrying, Carries
  <2>7. NobodyWaitsInVain'
    BY <1>5, <1>6, <2>4, Zenon DEF NobodyWaitsInVain, Live
  <2> QED
    BY <2>1, <2>3, <2>5, <2>6, <2>7, ZenonT(30) DEF IInv, ReceiveInv
<1>7. CASE /\ ith_state[t] = "SUCCESS" /\ pc' = [pc EXCEPT ![t] = "rcv_done"]
           /\ UNCHANGED <<queueVars, ithVars, op>>
  <2>1. /\ UNCHANGED <<imq_messages, imq_threads, ith_state, ith_kmsg, op>>
        /\ \A u \in Thread : u # t => pc'[u] = pc[u]
        /\ pc'[t] = "rcv_done"
    BY <1>1, <1>7 DEF Shape, queueVars, ithVars
  <2>2. Shape'
    BY <1>1, <1>7, <2>1, ZenonT(30) DEF Shape
  <2>3. SendInv'
    BY <1>1, <2>1, SendersUndisturbed, ZenonT(30)
  <2>4. Receiving'
    <3>1. \A r \in Queue : t \notin Range(imq_threads[r]) /\ Range(imq_threads[r]) \subseteq Thread
      <4>1. \A r \in Queue : Range(imq_threads[r]) \subseteq Thread
        BY <1>2 DEF Range
      <4> QED
        BY <1>1, <1>7, <4>1, ZenonT(30) DEF Receiving
    <3>2. ASSUME NEW r \in Queue, NEW u \in Range(imq_threads[r])
          PROVE  pc'[u] = "rcv_wait" /\ op[u].obj = r /\ ith_state[u] = "RCV_IN_PROGRESS"
      <4>1. u \in Thread /\ u # t
        BY <3>1, Zenon
      <4>2. pc[u] = "rcv_wait" /\ op[u].obj = r /\ ith_state[u] = "RCV_IN_PROGRESS"
        BY <1>1, Zenon DEF Receiving
      <4>3. pc'[u] = pc[u]
        BY <2>1, <4>1, Zenon
      <4> QED
        BY <4>2, <4>3, Zenon
    <3>3. \A u \in Thread : pc'[u] = "rcv_wait" => op[u] \in Ops
      BY <1>1, <2>1, Zenon DEF Receiving
    <3>4. /\ \A r \in Queue : IsInjective(imq_threads[r])
          /\ imq_threads' = imq_threads /\ op' = op /\ ith_state' = ith_state
      BY <1>1, <2>1, Zenon DEF Receiving
    <3> QED
      BY <3>2, <3>3, <3>4, ZenonT(30) DEF Receiving
  <2>5. Carrying'
    BY <1>1, <1>7, <2>1, ZenonT(30) DEF Carrying, Carries
  <2>6. NobodyWaitsInVain'
    BY <1>1, <2>1, Zenon DEF NobodyWaitsInVain
  <2> QED
    BY <2>2, <2>3, <2>4, <2>5, <2>6 DEF IInv, ReceiveInv
<1>8. CASE /\ ith_state[t] \in {"TOO_LARGE", "PORT_DIED", "PORT_CHANGED"}
           /\ Return(t) /\ UNCHANGED <<queueVars, ithVars>>
  <2>1. \A r \in Queue : t \notin Range(imq_threads[r])
    BY <1>1, <1>8 DEF Receiving
  <2> QED
    BY <1>6, <1>8, <2>1, ZenonT(30) DEF Return, queueVars, ithVars
<1>9. CASE Return(t) /\ imq_threads' = unlinked /\ UNCHANGED <<imq_messages, ithVars>>
  BY <1>6, <1>9 DEF Return, ithVars
<1>10. CASE ReceiveLoop(t, [op[t] EXCEPT !.timeout = "zero"], imq_messages, unlinked)
  <2> DEFINE o == [op[t] EXCEPT !.timeout = "zero"]
  <2>1. o \in Ops /\ o.timeout = "zero"
    BY <1>1 DEF Ops
  <2>2. ReceiveLoop(t, o, imq_messages, unlinked)
    BY <1>10
  <2>3. ip_pset' \in [Port -> Pset \cup {NoPset}]
    BY <1>1, <1>2, Zenon
  <2> HIDE DEF o
  <2> QED
    BY <1>1, <1>2, <1>3, <1>4, <1>5, <2>1, <2>2, <2>3, ReceiveLoopInv, ZenonT(30)
<1>11. CASE /\ imq_threads' = unlinked /\ pc' = [pc EXCEPT ![t] = "panic"]
            /\ UNCHANGED <<imq_messages, ithVars, op>>
  BY <1>6, <1>11 DEF ithVars
<1> QED
  BY <1>7, <1>8, <1>9, <1>10, <1>11, ZenonT(30) DEF receive_resume, unlinked, q
=============================================================================
