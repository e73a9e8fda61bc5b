----------------------------- MODULE IpcMqueue -----------------------------
(***************************************************************************)
(* Message queues of ports and port sets: ipc/ipc_mqueue.c, with the parts *)
(* of ipc_port.c, ipc_pset.c and of the thread wait primitives that act on *)
(* them.                                                                   *)
(*                                                                         *)
(* A port and a message queue each have a lock.  A sender takes the queue  *)
(* lock before it drops the port lock, so a step is what happens from      *)
(* taking the port lock to dropping the last lock.  Blocking ends a step.  *)
(* Two things happen outside the locks and race with everything else on a  *)
(* multiprocessor: the thread_go of the receiver a message was handed to,  *)
(* and the call of thread_timeout after softclock unlinked the timer.      *)
(*                                                                         *)
(* A message is known by its port, its number among the messages sent to   *)
(* that port, and its size.  sent and taken count per port; taken is       *)
(* ip_seqno, counted from the creation of the port.                        *)
(***************************************************************************)
EXTENDS FiniteSets, KernQueue

CONSTANTS
    Thread, Port, Pset,
    NoPset,         \* IPS_NULL
    Size,           \* message and buffer sizes
    Shrink,         \* how much smaller a message is for a 32-bit user (USER32)
    Limits,         \* queue limits that are set
    Timeouts,       \* the timeouts callers use: "none", "some" or "zero"
    MaxSent,        \* bound on the number of messages per port
    MultiProcessor  \* NCPUS > 1

ASSUME ConstantsAssumption ==
    /\ IsFiniteSet(Thread)
    /\ Port \cap Pset = {} /\ NoPset \notin Pset
    /\ Size \subseteq Nat /\ Shrink \in Nat
    /\ Limits \subseteq Nat /\ Limits # {}
    /\ Timeouts \subseteq {"none", "some", "zero"}
    /\ MaxSent \in Nat
    /\ MultiProcessor \in BOOLEAN

VARIABLES
    ip_active, ip_msgcount, ip_qlimit, ip_blocked, ip_pset,     \* of a port
    ips_active,                                                 \* of a port set
    imq_messages, imq_threads,                                  \* of a queue
    ith_state, ith_kmsg, ith_msize,                             \* of a thread
    waiting,        \* TH_WAIT
    wait_result,
    timer,          \* the thread's timer is set
    expired,        \* softclock is about to call thread_timeout
    pc,             \* where the thread is
    op,             \* the object, size and timeout of its operation
    owes,           \* the receiver it still has to call thread_go for
    sent, taken

portVars == <<ip_active, ip_msgcount, ip_qlimit, ip_blocked, ip_pset, ips_active>>
queueVars == <<imq_messages, imq_threads>>
ithVars == <<ith_state, ith_kmsg, ith_msize>>
waitVars == <<waiting, wait_result, timer, expired>>
threadVars == <<pc, op, owes>>
vars == <<portVars, queueVars, ithVars, waitVars, threadVars, sent, taken>>

NoKmsg == [port |-> NoPset, n |-> 0, size |-> 0]
NoOp == [obj |-> NoPset, size |-> 0, timeout |-> "none"]

Queue == Port \cup Pset
Kmsg == [port : Port, n : 1 .. MaxSent, size : Size]
Ops == [obj : Queue, size : Size, timeout : {"none", "some", "zero"}]

TypeOK ==
    /\ ip_active \in [Port -> BOOLEAN] /\ ips_active \in [Pset -> BOOLEAN]
    /\ ip_msgcount \in [Port -> Nat] /\ ip_qlimit \in [Port -> Limits]
    /\ ip_blocked \in [Port -> Seq(Thread)]
    /\ ip_pset \in [Port -> Pset \cup {NoPset}]
    /\ imq_messages \in [Queue -> Seq(Kmsg)]
    /\ imq_threads \in [Queue -> Seq(Thread)]
    /\ ith_state \in [Thread -> {"SUCCESS", "SEND_IN_PROGRESS", "RCV_IN_PROGRESS",
                                 "TOO_LARGE", "PORT_DIED", "PORT_CHANGED"}]
    /\ ith_kmsg \in [Thread -> Kmsg \cup {NoKmsg}]
    /\ ith_msize \in [Thread -> Size \cup {0}]
    /\ waiting \in [Thread -> BOOLEAN]
    /\ wait_result \in [Thread -> {"AWAKENED", "TIMED_OUT", "INTERRUPTED"}]
    /\ timer \in [Thread -> BOOLEAN] /\ expired \in [Thread -> BOOLEAN]
    /\ pc \in [Thread -> {"idle", "snd_wait", "rcv_wait", "rcv_done", "panic"}]
    /\ op \in [Thread -> Ops \cup {NoOp}]
    /\ owes \in [Thread -> SUBSET Thread]
    /\ sent \in [Port -> 0 .. MaxSent] /\ taken \in [Port -> 0 .. MaxSent]

\* ipc_port_init and ipc_mqueue_init, for ports and sets that are all alive.
Init ==
    /\ ip_active = [p \in Port |-> TRUE] /\ ips_active = [s \in Pset |-> TRUE]
    /\ ip_msgcount = [p \in Port |-> 0]
    /\ ip_qlimit \in [Port -> Limits]
    /\ ip_blocked = [p \in Port |-> <<>>] /\ ip_pset = [p \in Port |-> NoPset]
    /\ imq_messages = [q \in Queue |-> <<>>] /\ imq_threads = [q \in Queue |-> <<>>]
    /\ ith_state = [t \in Thread |-> "SUCCESS"]
    /\ ith_kmsg = [t \in Thread |-> NoKmsg] /\ ith_msize = [t \in Thread |-> 0]
    /\ waiting = [t \in Thread |-> FALSE]
    /\ wait_result = [t \in Thread |-> "AWAKENED"]
    /\ timer = [t \in Thread |-> FALSE] /\ expired = [t \in Thread |-> FALSE]
    /\ pc = [t \in Thread |-> "idle"] /\ op = [t \in Thread |-> NoOp]
    /\ owes = [t \in Thread |-> {}]
    /\ sent = [p \in Port |-> 0] /\ taken = [p \in Port |-> 0]
-----------------------------------------------------------------------------
(***************************************************************************)
(* Waiting and waking                                                      *)
(***************************************************************************)
Idle(t) == pc[t] = "idle" /\ owes[t] = {}

\* A wakeup that leaves the timer running.
ClearWait_keeptimer(S, result) ==
    /\ waiting' = [u \in Thread |-> waiting[u] /\ u \notin S]
    /\ wait_result' = [u \in Thread |->
                        IF waiting[u] /\ u \in S THEN result ELSE wait_result[u]]
    /\ UNCHANGED <<timer, expired>>

\* thread_go, or clear_wait with the given result, on every thread of S: the
\* timer is taken back, and a thread that waits stops waiting.
ClearWait(S, result) ==
    /\ timer' = [u \in Thread |-> timer[u] /\ u \notin S]
    /\ waiting' = [u \in Thread |-> waiting[u] /\ u \notin S]
    /\ wait_result' = [u \in Thread |->
                        IF waiting[u] /\ u \in S THEN result ELSE wait_result[u]]
    /\ UNCHANGED expired

\* thread_will_wait and thread_will_wait_with_timeout.
WillWait(t, timeout) ==
    /\ waiting' = [waiting EXCEPT ![t] = TRUE]
    /\ timer' = [timer EXCEPT ![t] = @ \/ timeout = "some"]
    /\ UNCHANGED <<wait_result, expired>>

\* The operation of t returns.
Return(t) ==
    /\ pc' = [pc EXCEPT ![t] = "idle"]
    /\ op' = [op EXCEPT ![t] = NoOp]
    /\ UNCHANGED owes

\* A waiting thread is aborted.
interrupt(t) ==
    /\ waiting[t]
    /\ ClearWait({t}, "INTERRUPTED")
    /\ UNCHANGED <<portVars, queueVars, ithVars, threadVars, sent, taken>>

\* softclock: on a uniprocessor nothing runs between its two halves.
softclock(t) ==
    /\ timer[t]
    /\ \/ /\ MultiProcessor
          /\ timer' = [timer EXCEPT ![t] = FALSE]
          /\ expired' = [expired EXCEPT ![t] = TRUE]
          /\ UNCHANGED <<waiting, wait_result>>
       \/ /\ ~MultiProcessor
          /\ ClearWait({t}, "TIMED_OUT")
    /\ UNCHANGED <<portVars, queueVars, ithVars, threadVars, sent, taken>>

thread_timeout(t) ==
    /\ expired[t]
    /\ expired' = [expired EXCEPT ![t] = FALSE]
    /\ timer' = [timer EXCEPT ![t] = FALSE]
    /\ waiting' = [waiting EXCEPT ![t] = FALSE]
    /\ wait_result' = [wait_result EXCEPT ![t] = IF waiting[t] THEN "TIMED_OUT" ELSE @]
    /\ UNCHANGED <<portVars, queueVars, ithVars, threadVars, sent, taken>>

\* The sender gets round to waking the receiver it handed its message to.
thread_go(t) ==
    /\ owes[t] # {}
    /\ ClearWait(owes[t], "AWAKENED")
    /\ owes' = [owes EXCEPT ![t] = {}]
    /\ UNCHANGED <<portVars, queueVars, ithVars, pc, op, sent, taken>>
-----------------------------------------------------------------------------
(***************************************************************************)
(* Delivery                                                                *)
(***************************************************************************)
msg_usize(kmsg) == kmsg.size - Shrink

\* The queue a port uses.
MqueueOf(p) == IF ip_pset[p] = NoPset THEN p ELSE ip_pset[p]

\* The loops that match arriving messages ms, in order, with the receivers T of
\* a queue: f[j] is the message that receiver j meets.  A receiver that meets a
\* message leaves the queue, with the message if its buffer is large enough; the
\* loops end when there are no more messages or no more receivers.
Fits(u, kmsg) == kmsg.size <= ith_msize[u]

Turns(T, ms) ==
    {f \in UNION {[1 .. k + 1 -> 1 .. Len(ms) + 1] : k \in 0 .. Len(T)} :
        /\ f[1] = 1
        /\ \A j \in 1 .. Len(f) - 1 :
             /\ f[j] <= Len(ms)
             /\ f[j + 1] = IF Fits(T[j], ms[f[j]]) THEN f[j] + 1 ELSE f[j]
        /\ Len(f) = Len(T) + 1 \/ f[Len(f)] = Len(ms) + 1}

Meet(T, ms, f, J) == {<<T[j], ms[f[j]]>> : j \in J}
Fitting(T, ms, f) == {j \in 1 .. Len(f) - 1 : Fits(T[j], ms[f[j]])}

\* Leaves the last receiver that meets a message on the queue.
Deliver_keep(q, ms, f) ==
    LET T == imq_threads[q]
        k == Len(f) - 1
        fit == Fitting(T, ms, f)
    IN  [messages |-> imq_messages[q] \o SubSeq(ms, f[k + 1], Len(ms)),
         threads |-> SubSeq(T, IF k = 0 THEN 1 ELSE k, Len(T)),
         given |-> Meet(T, ms, f, fit),
         small |-> Meet(T, ms, f, (1 .. k) \ fit),
         count |-> f[k + 1] - 1]

\* Puts the messages in front of the others.
Deliver_lifo(q, ms, f) ==
    LET T == imq_threads[q]
        k == Len(f) - 1
        fit == Fitting(T, ms, f)
    IN  [messages |-> SubSeq(ms, f[k + 1], Len(ms)) \o imq_messages[q],
         threads |-> SubSeq(T, k + 1, Len(T)),
         given |-> Meet(T, ms, f, fit),
         small |-> Meet(T, ms, f, (1 .. k) \ fit),
         count |-> f[k + 1] - 1]

\* What is left of queue q, who is given which message, who meets a message that
\* is too large, and how many messages are given away.
Deliver(q, ms, f) ==
    LET T == imq_threads[q]
        k == Len(f) - 1
        fit == Fitting(T, ms, f)
    IN  [messages |-> imq_messages[q] \o SubSeq(ms, f[k + 1], Len(ms)),
         threads |-> SubSeq(T, k + 1, Len(T)),
         given |-> Meet(T, ms, f, fit),
         small |-> Meet(T, ms, f, (1 .. k) \ fit),
         count |-> f[k + 1] - 1]

\* The receivers that delivery d concerns, and the threads gone, which are told
\* the reason why they do not get a message.
Notify(d, gone, reason) ==
    LET got(u) == {g \in d.given : g[1] = u}
        big(u) == {g \in d.small : g[1] = u}
        kmsg(G) == (CHOOSE g \in G : TRUE)[2]
    IN  /\ ith_state' = [u \in Thread |->
                IF u \in gone THEN reason
                ELSE IF got(u) # {} THEN "SUCCESS"
                ELSE IF big(u) # {} THEN "TOO_LARGE" ELSE ith_state[u]]
        /\ ith_kmsg' = [u \in Thread |-> IF got(u) # {} THEN kmsg(got(u)) ELSE ith_kmsg[u]]
        /\ ith_msize' = [u \in Thread |->
                IF big(u) # {} THEN kmsg(big(u)).size ELSE ith_msize[u]]

ThreadsOf(R) == {r[1] : r \in R}
-----------------------------------------------------------------------------
(***************************************************************************)
(* ipc_mqueue_send                                                         *)
(***************************************************************************)
\* The message is accepted: queued or given to a receiver.  The receivers that
\* are sent away are woken under the queue lock, the one that gets the message
\* only after it is dropped.
Accept(t, p, size, blocked) ==
    LET q == MqueueOf(p)
        ms == <<[port |-> p, n |-> sent[p] + 1, size |-> size]>>
    IN  \E f \in Turns(imq_threads[q], ms) :
          LET d == Deliver(q, ms, f)
              late == IF MultiProcessor THEN ThreadsOf(d.given) ELSE {}
          IN  /\ ip_msgcount' = [ip_msgcount EXCEPT ![p] = @ + 1]
              /\ ip_blocked' = blocked
              /\ imq_messages' = [imq_messages EXCEPT ![q] = d.messages]
              /\ imq_threads' = [imq_threads EXCEPT ![q] = d.threads]
              /\ Notify(d, {}, "SUCCESS")
              /\ ClearWait(ThreadsOf(d.small) \cup (ThreadsOf(d.given) \ late), "AWAKENED")
              /\ sent' = [sent EXCEPT ![p] = @ + 1]
              /\ taken' = [taken EXCEPT ![p] = @ + d.count]
              /\ pc' = [pc EXCEPT ![t] = "idle"] /\ op' = [op EXCEPT ![t] = NoOp]
              /\ owes' = [owes EXCEPT ![t] = late]
              /\ UNCHANGED <<ip_active, ip_qlimit, ip_pset, ips_active>>

\* The loop of ipc_mqueue_send, with the port locked.  A message for a dead port
\* is destroyed, which counts as success.
SendLoop(t, o, always, blocked) ==
    LET p == o.obj
        room == ip_msgcount[p] < ip_qlimit[p] \/ always
    IN  \/ /\ ~ip_active[p] \/ (~room /\ o.timeout = "zero")
           /\ Return(t)
           /\ ip_blocked' = blocked
           /\ UNCHANGED <<ip_active, ip_msgcount, ip_qlimit, ip_pset, ips_active,
                          queueVars, ithVars, waitVars, sent, taken>>
        \/ /\ ip_active[p] /\ room
           /\ Accept(t, p, o.size, blocked)
        \/ /\ ip_active[p] /\ ~room /\ o.timeout # "zero"
           /\ WillWait(t, o.timeout)
           /\ ip_blocked' = [blocked EXCEPT ![p] = Append(@, t)]
           /\ ith_state' = [ith_state EXCEPT ![t] = "SEND_IN_PROGRESS"]
           /\ pc' = [pc EXCEPT ![t] = "snd_wait"] /\ op' = [op EXCEPT ![t] = o]
           /\ UNCHANGED <<ip_active, ip_msgcount, ip_qlimit, ip_pset, ips_active,
                          queueVars, ith_kmsg, ith_msize, owes, sent, taken>>

Senders(p) == {t \in Thread : pc[t] = "snd_wait" /\ op[t].obj = p}

\* A call of ipc_mqueue_send for a port the kernel does not receive from.
\* always stands for MACH_SEND_ALWAYS and for messages to send-once rights.
ipc_mqueue_send(t, o, always) ==
    /\ Idle(t) /\ o.obj \in Port
    /\ sent[o.obj] + Cardinality(Senders(o.obj)) < MaxSent
    /\ SendLoop(t, o, always, ip_blocked)

\* What a sender does after thread_block.
send_resume(t) ==
    /\ pc[t] = "snd_wait" /\ ~waiting[t]
    /\ LET p == op[t].obj
           unlinked == [ip_blocked EXCEPT ![p] = ipc_thread_rmqueue(@, t)]
       IN  \/ /\ ith_state[t] = "SUCCESS"
              /\ SendLoop(t, op[t], FALSE, ip_blocked)
           \/ /\ ith_state[t] # "SUCCESS" /\ wait_result[t] = "INTERRUPTED"
              /\ Return(t)
              /\ ip_blocked' = unlinked
              /\ UNCHANGED <<ip_active, ip_msgcount, ip_qlimit, ip_pset, ips_active,
                             queueVars, ithVars, waitVars, sent, taken>>
           \/ /\ ith_state[t] # "SUCCESS" /\ wait_result[t] = "TIMED_OUT"
              /\ SendLoop(t, [op[t] EXCEPT !.timeout = "zero"], FALSE, unlinked)
           \/ /\ ith_state[t] # "SUCCESS" /\ wait_result[t] = "AWAKENED"
              /\ ip_blocked' = unlinked
              /\ pc' = [pc EXCEPT ![t] = "panic"]
              /\ UNCHANGED <<ip_active, ip_msgcount, ip_qlimit, ip_pset, ips_active,
                             queueVars, ithVars, waitVars, op, owes, sent, taken>>
-----------------------------------------------------------------------------
(***************************************************************************)
(* Moving a port's messages between its own queue and that of a set        *)
(***************************************************************************)
\* The elements in places J of a sequence, in order.
Pick(s, J) ==
    [i \in 1 .. Cardinality(J) |-> s[CHOOSE j \in J : Cardinality({k \in J : k < j}) = i - 1]]

\* The messages that ipc_mqueue_move takes, in order, from queue source for the
\* other queue and the receivers that wait there: those of port p.
Moved(source, p) ==
    LET M == imq_messages[source] IN Pick(M, {j \in DOMAIN M : M[j].port = p})

\* Leaves the messages behind as well.
Remainder_all(source, p) == imq_messages[source]

\* The part of a queue that ipc_mqueue_move leaves behind.
Remainder(source, p) ==
    LET M == imq_messages[source] IN Pick(M, {j \in DOMAIN M : M[j].port # p})

\* ipc_pset_remove and ipc_pset_add: port p goes to set s, or to no set.
\* Receivers that wait at the port itself are told that it moved.
Relocate(p, s) ==
    LET dest == IF s = NoPset THEN p ELSE s
        source == MqueueOf(p)
        ms == Moved(source, p)
        moved == IF s = NoPset THEN {} ELSE Range(imq_threads[p])
    IN  \E f \in Turns(imq_threads[dest], ms) :
          LET d == Deliver(dest, ms, f)
          IN  /\ ip_pset' = [ip_pset EXCEPT ![p] = s]
              /\ imq_messages' = [imq_messages EXCEPT ![source] = Remainder(source, p),
                                                      ![dest] = d.messages]
              /\ imq_threads' = [imq_threads EXCEPT ![p] = IF s = NoPset THEN @ ELSE <<>>,
                                                    ![dest] = d.threads]
              /\ Notify(d, moved, "PORT_CHANGED")
              /\ ClearWait(ThreadsOf(d.small) \cup ThreadsOf(d.given) \cup moved, "AWAKENED")
              /\ taken' = [taken EXCEPT ![p] = @ + d.count]

ipc_pset_move(p, s) ==
    /\ ip_active[p] /\ s # ip_pset[p]
    /\ s # NoPset => ips_active[s]
    /\ Relocate(p, s)
    /\ UNCHANGED <<ip_active, ip_msgcount, ip_qlimit, ip_blocked, ips_active,
                   threadVars, sent>>

\* Wakes the receivers but does not say why.
Changed_noreason(q, reason) ==
    /\ imq_threads' = [imq_threads EXCEPT ![q] = <<>>]
    /\ ClearWait(Range(imq_threads[q]), "AWAKENED")
    /\ UNCHANGED <<ith_state, ith_kmsg, ith_msize>>

\* Wakes the first receiver only.
Changed_first(q, reason) ==
    LET gone == IF imq_threads[q] = <<>> THEN {} ELSE {Head(imq_threads[q])}
    IN  /\ imq_threads' = [imq_threads EXCEPT ![q] = IF @ = <<>> THEN @ ELSE Tail(@)]
        /\ ith_state' = [u \in Thread |-> IF u \in gone THEN reason ELSE ith_state[u]]
        /\ ClearWait(gone, "AWAKENED")
        /\ UNCHANGED <<ith_kmsg, ith_msize>>

\* ipc_mqueue_changed
Changed(q, reason) ==
    LET gone == Range(imq_threads[q])
    IN  /\ imq_threads' = [imq_threads EXCEPT ![q] = <<>>]
        /\ ith_state' = [u \in Thread |-> IF u \in gone THEN reason ELSE ith_state[u]]
        /\ ClearWait(gone, "AWAKENED")
        /\ UNCHANGED <<ith_kmsg, ith_msize>>

\* The members of a dead set are taken out later, when they are used.
ipc_pset_destroy(s) ==
    /\ ips_active[s]
    /\ ips_active' = [ips_active EXCEPT ![s] = FALSE]
    /\ Changed(s, "PORT_DIED")
    /\ UNCHANGED <<ip_active, ip_msgcount, ip_qlimit, ip_blocked, ip_pset,
                   imq_messages, threadVars, sent, taken>>
-----------------------------------------------------------------------------
(***************************************************************************)
(* ipc_mqueue_receive                                                      *)
(***************************************************************************)
\* The loop of ipc_mqueue_receive for a queue whose messages and receivers are
\* those of M and T.
ReceiveLoop(t, o, M, T) ==
    LET q == o.obj
        kmsg == Head(M[q])
    IN  \/ /\ \/ M[q] # <<>> /\ msg_usize(kmsg) > o.size
              \/ M[q] = <<>> /\ o.timeout = "zero"
           /\ Return(t)
           /\ imq_messages' = M /\ imq_threads' = T
           /\ UNCHANGED <<ithVars, waitVars, taken>>
        \/ /\ M[q] # <<>> /\ msg_usize(kmsg) <= o.size
           /\ imq_messages' = [M EXCEPT ![q] = Tail(@)] /\ imq_threads' = T
           /\ ith_kmsg' = [ith_kmsg EXCEPT ![t] = kmsg]
           /\ taken' = [taken EXCEPT ![kmsg.port] = @ + 1]
           /\ pc' = [pc EXCEPT ![t] = "rcv_done"] /\ op' = [op EXCEPT ![t] = o]
           /\ UNCHANGED <<ith_state, ith_msize, waitVars, owes>>
        \/ /\ M[q] = <<>> /\ o.timeout # "zero"
           /\ WillWait(t, o.timeout)
           /\ imq_messages' = M /\ imq_threads' = [T EXCEPT ![q] = Append(@, t)]
           /\ ith_state' = [ith_state EXCEPT ![t] = "RCV_IN_PROGRESS"]
           /\ ith_msize' = [ith_msize EXCEPT ![t] = o.size]
           /\ pc' = [pc EXCEPT ![t] = "rcv_wait"] /\ op' = [op EXCEPT ![t] = o]
           /\ UNCHANGED <<ith_kmsg, owes, taken>>

\* ipc_mqueue_copyin and then the receive: a port that is in a live set cannot
\* be received from, and one in a dead set is taken out first.  (Nobody waits at
\* a port in a set, so its messages are simply queued there.)
ipc_mqueue_receive(t, o) ==
    /\ Idle(t)
    /\ \/ /\ o.obj \in Pset /\ ips_active[o.obj]
          /\ ReceiveLoop(t, o, imq_messages, imq_threads)
          /\ UNCHANGED ip_pset
       \/ /\ o.obj \in Port /\ ip_active[o.obj] /\ ip_pset[o.obj] = NoPset
          /\ ReceiveLoop(t, o, imq_messages, imq_threads)
          /\ UNCHANGED ip_pset
       \/ /\ o.obj \in Port /\ ip_active[o.obj] /\ ip_pset[o.obj] # NoPset
          /\ ~ips_active[ip_pset[o.obj]]
          /\ LET s == ip_pset[o.obj]
             IN  ReceiveLoop(t, o, [imq_messages EXCEPT
                                        ![o.obj] = Moved(s, o.obj),
                                        ![s] = Remainder(s, o.obj)], imq_threads)
          /\ ip_pset' = [ip_pset EXCEPT ![o.obj] = NoPset]
    /\ UNCHANGED <<ip_active, ip_msgcount, ip_qlimit, ip_blocked, ips_active, sent>>

\* What a receiver does after thread_block.
receive_resume(t) ==
    /\ pc[t] = "rcv_wait" /\ ~waiting[t]
    /\ LET q == op[t].obj
           unlinked == [imq_threads EXCEPT ![q] = ipc_thread_rmqueue(@, t)]
       IN  \/ /\ ith_state[t] = "SUCCESS"
              /\ pc' = [pc EXCEPT ![t] = "rcv_done"]
              /\ UNCHANGED <<queueVars, ithVars, waitVars, op, owes, taken>>
           \/ /\ ith_state[t] \in {"TOO_LARGE", "PORT_DIED", "PORT_CHANGED"}
              /\ Return(t)
              /\ UNCHANGED <<queueVars, ithVars, waitVars, taken>>
           \/ /\ ith_state[t] = "RCV_IN_PROGRESS" /\ wait_result[t] = "INTERRUPTED"
              /\ Return(t)
              /\ imq_threads' = unlinked
              /\ UNCHANGED <<imq_messages, ithVars, waitVars, taken>>
           \/ /\ ith_state[t] = "RCV_IN_PROGRESS" /\ wait_result[t] = "TIMED_OUT"
              /\ ReceiveLoop(t, [op[t] EXCEPT !.timeout = "zero"], imq_messages, unlinked)
           \/ /\ ith_state[t] = "RCV_IN_PROGRESS" /\ wait_result[t] = "AWAKENED"
              /\ imq_threads' = unlinked
              /\ pc' = [pc EXCEPT ![t] = "panic"]
              /\ UNCHANGED <<imq_messages, ithVars, waitVars, op, owes, taken>>
    /\ UNCHANGED <<portVars, sent>>

\* Makes room but wakes no sender.
receive_finish_nowake(t) ==
    LET p == ith_kmsg[t].port
    IN  /\ pc[t] = "rcv_done"
        /\ Return(t)
        /\ ith_kmsg' = [ith_kmsg EXCEPT ![t] = NoKmsg]
        /\ ip_msgcount' = [ip_msgcount EXCEPT ![p] = @ - 1]
        /\ UNCHANGED <<ip_active, ip_qlimit, ip_blocked, ip_pset, ips_active, queueVars,
                       ith_state, ith_msize, waitVars, sent, taken>>

\* The receiver, now with the port locked, makes room for one more message.
receive_finish(t) ==
    LET p == ith_kmsg[t].port
        count == ip_msgcount[p] - 1
        wake == IF ip_blocked[p] # <<>> /\ count < ip_qlimit[p]
                THEN {Head(ip_blocked[p])} ELSE {}
    IN  /\ pc[t] = "rcv_done"
        /\ Return(t)
        /\ ith_kmsg' = [ith_kmsg EXCEPT ![t] = NoKmsg]
        /\ \/ /\ ip_active[p]
              /\ ip_msgcount' = [ip_msgcount EXCEPT ![p] = count]
              /\ ip_blocked' = [ip_blocked EXCEPT ![p] = IF wake = {} THEN @ ELSE Tail(@)]
              /\ ith_state' = [u \in Thread |-> IF u \in wake THEN "SUCCESS" ELSE ith_state[u]]
              /\ ClearWait(wake, "AWAKENED")
           \/ /\ ~ip_active[p]
              /\ UNCHANGED <<ip_msgcount, ip_blocked, ith_state, waitVars>>
        /\ UNCHANGED <<ip_active, ip_qlimit, ip_pset, ips_active, queueVars,
                       ith_msize, sent, taken>>
-----------------------------------------------------------------------------
(***************************************************************************)
(* Operations on the port                                                  *)
(***************************************************************************)
Min2(a, b) == IF a < b THEN a ELSE b

\* As many senders are woken as the limit grows by.
ipc_port_set_qlimit(p, limit) ==
    LET more == limit - ip_qlimit[p]
        k == IF more > 0 THEN Min2(more, Len(ip_blocked[p])) ELSE 0
        wake == Range(SubSeq(ip_blocked[p], 1, k))
    IN  /\ ip_active[p] /\ limit # ip_qlimit[p]
        /\ ip_qlimit' = [ip_qlimit EXCEPT ![p] = limit]
        /\ ip_blocked' = [ip_blocked EXCEPT ![p] = SubSeq(@, k + 1, Len(@))]
        /\ ith_state' = [u \in Thread |-> IF u \in wake THEN "SUCCESS" ELSE ith_state[u]]
        /\ ClearWait(wake, "AWAKENED")
        /\ UNCHANGED <<ip_active, ip_msgcount, ip_pset, ips_active, queueVars,
                       ith_kmsg, ith_msize, threadVars, sent, taken>>

\* The receive right is moved: the port leaves its set, its receivers are told.
ipc_port_clear_receiver(p) ==
    /\ ip_active[p]
    /\ \/ /\ ip_pset[p] # NoPset
          /\ Relocate(p, NoPset)
       \/ /\ ip_pset[p] = NoPset
          /\ imq_threads[p] # <<>>
          /\ Changed(p, "PORT_DIED")
          /\ UNCHANGED <<ip_pset, imq_messages, taken>>
    /\ UNCHANGED <<ip_active, ip_msgcount, ip_qlimit, ip_blocked, ips_active,
                   threadVars, sent>>

\* ipc_port_clear_receiver and ipc_port_destroy.  The blocked senders go round
\* their loop and find the port dead.  The queued messages are destroyed.
ipc_port_destroy(p) ==
    LET q == MqueueOf(p)
        senders == Range(ip_blocked[p])
        gone == Range(imq_threads[p])
    IN  /\ ip_active[p]
        /\ ip_active' = [ip_active EXCEPT ![p] = FALSE]
        /\ ip_pset' = [ip_pset EXCEPT ![p] = NoPset]
        /\ ip_blocked' = [ip_blocked EXCEPT ![p] = <<>>]
        /\ imq_messages' = [imq_messages EXCEPT ![q] = Remainder(q, p)]
        /\ imq_threads' = [imq_threads EXCEPT ![p] = <<>>]
        /\ ith_state' = [u \in Thread |->
                IF u \in senders THEN "SUCCESS"
                ELSE IF u \in gone THEN "PORT_DIED" ELSE ith_state[u]]
        /\ ClearWait(senders \cup gone, "AWAKENED")
        /\ UNCHANGED <<ip_msgcount, ip_qlimit, ips_active, ith_kmsg, ith_msize,
                       threadVars, sent, taken>>

Calls == [obj : Queue, size : Size, timeout : Timeouts]

Next ==
    \/ \E t \in Thread :
         \/ \E o \in Calls : \/ \E always \in BOOLEAN : ipc_mqueue_send(t, o, always)
                           \/ ipc_mqueue_receive(t, o)
         \/ send_resume(t) \/ receive_resume(t) \/ receive_finish(t)
         \/ interrupt(t) \/ softclock(t) \/ thread_timeout(t) \/ thread_go(t)
    \/ \E p \in Port :
         \/ ipc_port_destroy(p) \/ ipc_port_clear_receiver(p)
         \/ \E limit \in Limits : ipc_port_set_qlimit(p, limit)
         \/ \E s \in Pset \cup {NoPset} : ipc_pset_move(p, s)
    \/ \E s \in Pset : ipc_pset_destroy(s)

Spec == Init /\ [][Next]_vars
-----------------------------------------------------------------------------
\* A thread that has been given a message and has not yet returned it.
Carries(t) == pc[t] = "rcv_done" \/ (pc[t] = "rcv_wait" /\ ith_state[t] = "SUCCESS")

\* No message is lost, duplicated, reordered or left in a queue where nobody
\* looks for it, however sends, receives, timeouts and moves between sets
\* interleave: the queue a live port uses holds exactly the messages sent and
\* not taken, in the order sent, no other queue holds any, and each taken
\* message went to one receiver.
Conservation ==
    /\ \A p \in Port : \A q \in Queue :
         [i \in DOMAIN Moved(q, p) |-> Moved(q, p)[i].n] =
           IF ip_active[p] /\ q = MqueueOf(p)
           THEN [i \in 1 .. sent[p] - taken[p] |-> taken[p] + i] ELSE <<>>
    /\ \A t, u \in Thread :
         Carries(t) /\ Carries(u) /\ ith_kmsg[t] = ith_kmsg[u] => t = u

\* ip_msgcount, on which senders block, counts the messages of a live port that
\* are queued or still in the hands of their receiver.
MsgcountExact ==
    \A p \in Port : ip_active[p] =>
        ip_msgcount[p] = (sent[p] - taken[p])
                         + Cardinality({t \in Thread : Carries(t) /\ ith_kmsg[t].port = p})

\* "Don't block if we're under the queue limit": senders block on a live port
\* only, and when there is room for some of them as many have been woken and
\* are on their way to take it.
Woken(p) == {t \in Senders(p) : ith_state[t] = "SUCCESS"}
NoStrandedSender ==
    \A p \in Port : ip_blocked[p] # <<>> =>
        ip_active[p] /\ ip_qlimit[p] - ip_msgcount[p] <= Cardinality(Woken(p))

\* Receivers wait at a queue only while it is empty (asserted in
\* ipc_mqueue_send), and only at a queue where messages can arrive: that of a
\* live set, or of a live port that is in no set.
NobodyWaitsInVain ==
    \A q \in Queue : imq_threads[q] # <<>> =>
        /\ imq_messages[q] = <<>>
        /\ q \in Pset => ips_active[q]
        /\ q \in Port => ip_active[q] /\ ip_pset[q] = NoPset

\* "assert(!"ipc_mqueue_receive")": a thread whose operation is in progress is
\* woken by a timeout or an interruption only.
NoStrangeWakeup == \A t \in Thread : pc[t] # "panic"

\* "assert(option & MACH_RCV_TIMEOUT)": a wait that times out asked for it.
TimeoutWasAskedFor ==
    \A t \in Thread :
        /\ pc[t] \in {"snd_wait", "rcv_wait"} /\ ~waiting[t]
        /\ wait_result[t] = "TIMED_OUT"
        /\ ith_state[t] \in {"SEND_IN_PROGRESS", "RCV_IN_PROGRESS"}
        => op[t].timeout = "some"

=============================================================================
