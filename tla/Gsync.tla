------------------------------- MODULE Gsync -------------------------------
(***************************************************************************)
(* kern/gsync.c: waiting on, waking and requeueing the waiters of a user   *)
(* address.                                                                *)
(*                                                                         *)
(* The waiters of an address are the nodes, on the stacks of the blocked   *)
(* threads, of the doubly linked list of a hash bucket, which a kmutex     *)
(* protects.  The lists are modelled by their pointers.  A step is what a  *)
(* thread does between two places where it can sleep: taking a bucket's    *)
(* mutex, touching user memory, or blocking.  The mutex is the kmutex of   *)
(* module KMutex with each call taken as one step: an unlocker hands it to *)
(* the oldest sleeper, which owns it from then on.                         *)
(*                                                                         *)
(* A key stands for an address, local or shared, with the word stored      *)
(* there; keys are ordered as gsync_key_lt orders them.                    *)
(***************************************************************************)
EXTENDS Integers, SequencesExt

CONSTANTS
    Thread,
    Key,            \* addresses, a set of numbers
    NBuckets,       \* GSYNC_NBUCKETS
    Values,         \* of the word at an address
    Impatient,      \* waits may be interrupted, and may have a timeout
    Requeue,        \* gsync_requeue is called
    Broadcast,      \* the values of the flag GSYNC_BROADCAST in calls
    Garbage         \* what an uninitialised truth value can be

ASSUME GsyncAssumption ==
    /\ Key \subseteq Nat /\ NBuckets \in Nat \ {0}
    /\ Impatient \in BOOLEAN /\ Requeue \in BOOLEAN 
    /\ Garbage \subseteq BOOLEAN /\ Broadcast \subseteq BOOLEAN

VARIABLES
    val,            \* the word at each address
    next, prev,     \* the links of the nodes: a thread's waiter or a bucket's head
    key,            \* the key of each thread's waiter
    held,           \* the mutex of a bucket is not available
    sleepers,       \* the threads asleep on the mutex of a bucket, oldest first
    pc, after,      \* where a thread is, and where it will be once it has the mutex
    call,           \* the arguments of its call
    wait_result,
    wild            \* the kernel follows a bad pointer, or writes through one

lockVars == <<held, sleepers, pc, after, wait_result>>
listVars == <<next, prev, key>>
vars == <<val, listVars, lockVars, call, wild>>

Bucket == 0 .. NBuckets - 1
Null == -1
NoKey == -1
gsync_key_hash(k) == k % NBuckets

NoCall == [op |-> "none"]
Calls ==
    [op : {"wait"}, key : Key, value : Values, timed : BOOLEAN]
      \cup [op : {"wake"}, key : Key, value : Values, mutate : BOOLEAN, broadcast : BOOLEAN]
      \cup [op : {"requeue"}, src : Key, key : Key, wake_one : BOOLEAN, broadcast : BOOLEAN]

TypeOK ==
    /\ val \in [Key -> Values]
    /\ next \in [Thread \cup Bucket -> Thread \cup Bucket \cup {Null}]
    /\ prev \in [Thread \cup Bucket -> Thread \cup Bucket \cup {Null}]
    /\ key \in [Thread -> Key \cup {NoKey}]
    /\ held \in [Bucket -> BOOLEAN] /\ sleepers \in [Bucket -> Seq(Thread)]
    /\ pc \in [Thread -> {"idle", "asleep", "wait", "blocked", "back", "leave",
                          "wake", "dequeue", "requeue_second", "requeue"}]
    /\ after \in [Thread -> {"none", "wait", "leave", "wake", "dequeue",
                             "requeue_second", "requeue"}]
    /\ call \in [Thread -> Calls \cup {NoCall}]
    /\ wait_result \in [Thread -> {"AWAKENED", "INTERRUPTED", "TIMED_OUT"}]
    /\ wild \in BOOLEAN

gsync_setup ==
    /\ next = [n \in Thread \cup Bucket |-> IF n \in Bucket THEN n ELSE Null]
    /\ prev = next
    /\ held = [b \in Bucket |-> FALSE] /\ sleepers = [b \in Bucket |-> <<>>]

Init ==
    /\ gsync_setup
    /\ val \in [Key -> Values]
    /\ key = [t \in Thread |-> NoKey]
    /\ pc = [t \in Thread |-> "idle"] /\ after = [t \in Thread |-> "none"]
    /\ call = [t \in Thread |-> NoCall]
    /\ wait_result = [t \in Thread |-> "AWAKENED"]
    /\ wild = FALSE
-----------------------------------------------------------------------------
(***************************************************************************)
(* The mutexes and the scheduler, as functions of their state              *)
(***************************************************************************)
Sched == [held |-> held, sleepers |-> sleepers, pc |-> pc, after |-> after, wr |-> wait_result]

Become(m) ==
    /\ held' = m.held /\ sleepers' = m.sleepers /\ pc' = m.pc /\ after' = m.after
    /\ wait_result' = m.wr

\* kmutex_lock, not interruptible: t goes on at place p once it has the mutex.
kmutex_lock(m, t, b, p) ==
    IF m.held[b]
    THEN [m EXCEPT !.sleepers[b] = Append(@, t), !.pc[t] = "asleep", !.after[t] = p]
    ELSE [m EXCEPT !.held[b] = TRUE, !.pc[t] = p]

\* The sleeper u runs, with the wait result that a wakeup gives.
Awaken(m, u) == [m EXCEPT !.pc[u] = m.after[u], !.after[u] = "none", !.wr[u] = "AWAKENED"]

kmutex_unlock(m, b) ==
    IF m.sleepers[b] = <<>> THEN [m EXCEPT !.held[b] = FALSE]
    ELSE Awaken([m EXCEPT !.sleepers[b] = Tail(@)], Head(m.sleepers[b]))

\* clear_wait(u, THREAD_AWAKENED, FALSE): whatever u sleeps for, it runs.
clear_wait(m, u) ==
    CASE m.pc[u] = "blocked" -> [m EXCEPT !.pc[u] = "back", !.wr[u] = "AWAKENED"]
      [] m.pc[u] = "asleep" ->
           Awaken([m EXCEPT !.sleepers = [b \in Bucket |-> RemoveFirst(@[b], u)]], u)
      [] OTHER -> m

Goto(m, t, p) == [m EXCEPT !.pc[t] = p]
-----------------------------------------------------------------------------
(***************************************************************************)
(* The lists                                                               *)
(***************************************************************************)
\* A walk from the head of bucket b that stops at the first node that Stop
\* holds of or at the head.  A walk that does neither meets Null or the head of
\* another list, or runs in circles; Null stands for it.
RECURSIVE WalkFrom(_, _, _, _)
WalkFrom(b, n, Stop(_), steps) ==
    IF n \notin Thread \cup {b} \/ steps = 0 THEN Null
    ELSE IF n = b \/ Stop(n) THEN n
    ELSE WalkFrom(b, next[n], Stop, steps - 1)

Walk(b, Stop(_)) == WalkFrom(b, next[b], Stop, 2 * Cardinality(Thread) + 2)

\* gsync_find_key: the first node whose key is not smaller, and whether it is k.
gsync_find_key(b, k) == Walk(b, LAMBDA n : key[n] >= k)
Exact(n, k) == n \in Thread /\ key[n] = k

\* Where gsync_wait inserts a waiter: before the first greater key.
FirstGreater(b, k) == Walk(b, LAMBDA n : key[n] > k)

list_add(l, p, n, new) ==
    LET l1 == [l EXCEPT !.prev[n] = new, !.next[new] = n]
    IN  [l1 EXCEPT !.next[p] = new, !.prev[new] = p]

list_remove(l, n) ==
    LET l1 == [l EXCEPT !.next[l.prev[n]] = l.next[n]]
    IN  [l1 EXCEPT !.prev[l1.next[n]] = l1.prev[n]]

list_node_init(l, n) == [l EXCEPT !.next[n] = Null, !.prev[n] = Null]

Lists == [next |-> next, prev |-> prev]
Relink(l) == next' = l.next /\ prev' = l.prev

\* dequeue_waiter on the waiters of k from node n on, all of them or one: the
\* lists and the scheduler's state afterwards.
RECURSIVE Dequeue(_, _, _, _, _, _)
Dequeue(l, m, b, n, k, all) ==
    LET l1 == list_node_init(list_remove(l, n), n)
        m1 == clear_wait(m, n)
        n1 == l.next[n]
    IN  IF all /\ n1 \in Thread /\ Exact(n1, k) THEN Dequeue(l1, m1, b, n1, k, all)
        ELSE [lists |-> l1, sched |-> m1]
-----------------------------------------------------------------------------
(***************************************************************************)
(* gsync_wait                                                              *)
(***************************************************************************)
Lock(t, k, p) == Become(kmutex_lock(Sched, t, gsync_key_hash(k), p))

Start(t, c, p) ==
    /\ pc[t] = "idle" /\ ~wild
    /\ call' = [call EXCEPT ![t] = c]
    /\ Lock(t, c.key, p)
    /\ UNCHANGED <<listVars, wild>>

\* The call of t is over; m is the scheduler's state with its mutex released.
\* What the next call overwrites is cleared, to have fewer states.
Return(t, m) ==
    /\ Become([Goto(m, t, "idle") EXCEPT !.wr[t] = "AWAKENED"])
    /\ call' = [call EXCEPT ![t] = NoCall]

gsync_wait(t, k, v, timed) ==
    /\ timed => Impatient
    /\ Start(t, [op |-> "wait", key |-> k, value |-> v, timed |-> timed], "wait")
    /\ UNCHANGED val

\* A thread that blocks whatever the word is by now.
wait_check_blind(t) ==
    LET c == call[t]
        b == gsync_key_hash(c.key)
        n == FirstGreater(b, c.key)
    IN  /\ pc[t] = "wait" /\ ~wild
        /\ Relink(list_add(Lists, prev[n], n, t))
        /\ key' = [key EXCEPT ![t] = c.key]
        /\ Become(Goto(kmutex_unlock(Sched, b), t, "blocked"))
        /\ UNCHANGED <<val, call, wild>>

\* The word is read and compared; if it is the one expected, the thread queues
\* up and blocks.
wait_check(t) ==
    LET c == call[t]
        b == gsync_key_hash(c.key)
        n == FirstGreater(b, c.key)
    IN  /\ pc[t] = "wait" /\ ~wild
        /\ \/ /\ \/ Return(t, kmutex_unlock(Sched, b))
                 \/ /\ val[c.key] # c.value
                    /\ Return(t, kmutex_unlock(Sched, b))
              /\ UNCHANGED <<listVars, wild>>
           \/ /\ val[c.key] = c.value /\ n # Null
              /\ Relink(list_add(Lists, prev[n], n, t))
              /\ key' = [key EXCEPT ![t] = c.key]
              /\ Become(Goto(kmutex_unlock(Sched, b), t, "blocked"))
              /\ UNCHANGED <<call, wild>>
           \/ /\ val[c.key] = c.value /\ n = Null
              /\ wild' = TRUE
              /\ UNCHANGED <<listVars, lockVars, call>>
        /\ UNCHANGED val

\* The wait ends without a wakeup: clear_wait from thread_abort or a timer.
interrupt(t) ==
    /\ pc[t] = "blocked" /\ Impatient /\ ~wild
    /\ Become([Goto(Sched, t, "back") EXCEPT !.wr[t] = "INTERRUPTED"])
    /\ UNCHANGED <<val, listVars, call, wild>>

thread_timeout(t) ==
    /\ pc[t] = "blocked" /\ call[t].timed /\ ~wild
    /\ Become([Goto(Sched, t, "back") EXCEPT !.wr[t] = "TIMED_OUT"])
    /\ UNCHANGED <<val, listVars, call, wild>>

\* We're back.
wait_back(t) ==
    /\ pc[t] = "back" /\ ~wild
    /\ \/ /\ wait_result[t] = "AWAKENED"
          /\ Return(t, Sched)
          /\ key' = [key EXCEPT ![t] = NoKey]
       \/ /\ wait_result[t] # "AWAKENED"
          /\ Lock(t, call[t].key, "leave")
          /\ UNCHANGED <<call, key>>
    /\ UNCHANGED <<val, next, prev, wild>>

\* A thread that returns without looking whether it is still on the list.
wait_leave_linked(t) ==
    /\ pc[t] = "leave" /\ ~wild
    /\ UNCHANGED <<next, prev>>
    /\ Return(t, kmutex_unlock(Sched, gsync_key_hash(call[t].key)))
    /\ key' = [key EXCEPT ![t] = NoKey]
    /\ UNCHANGED <<val, wild>>

\* The waiter takes itself off the list, if nobody has.  The links of a stack
\* frame that is gone are given as Null.  The value returned is left out.
wait_leave(t) ==
    /\ pc[t] = "leave" /\ ~wild
    /\ Relink(list_node_init(IF prev[t] = Null THEN Lists ELSE list_remove(Lists, t), t))
    /\ Return(t, kmutex_unlock(Sched, gsync_key_hash(call[t].key)))
    /\ key' = [key EXCEPT ![t] = NoKey]
    /\ UNCHANGED <<val, wild>>
-----------------------------------------------------------------------------
(***************************************************************************)
(* gsync_wake                                                              *)
(***************************************************************************)
\* A waker that does not ask for GSYNC_MUTATE may have stored the new value
\* itself, from user space, before the call.
gsync_wake(t, k, v, mutate, broadcast) ==
    /\ Start(t, [op |-> "wake", key |-> k, value |-> v, mutate |-> mutate,
                 broadcast |-> broadcast], IF mutate THEN "wake" ELSE "dequeue")
    /\ val' = IF mutate THEN val ELSE [val EXCEPT ![k] = v]

\* The word is set, or the address turns out to be bad.
wake_mutate(t) ==
    /\ pc[t] = "wake" /\ ~wild
    /\ \/ /\ val' = [val EXCEPT ![call[t].key] = call[t].value]
          /\ Become(Goto(Sched, t, "dequeue"))
          /\ UNCHANGED call
       \/ /\ Return(t, kmutex_unlock(Sched, gsync_key_hash(call[t].key)))
          /\ UNCHANGED val
    /\ UNCHANGED <<listVars, wild>>

\* The waiters of the key are dequeued and woken, and the mutex is released.
wake_dequeue(t) ==
    LET c == call[t]
        b == gsync_key_hash(c.key)
        n == gsync_find_key(b, c.key)
        d == Dequeue(Lists, Sched, b, n, c.key, c.broadcast)
    IN  /\ pc[t] = "dequeue" /\ ~wild
        /\ \/ /\ Exact(n, c.key)
              /\ Relink(d.lists)
              /\ Return(t, kmutex_unlock(d.sched, b))
              /\ UNCHANGED wild
           \/ /\ ~Exact(n, c.key) /\ n # Null
              /\ Return(t, kmutex_unlock(Sched, b))
              /\ UNCHANGED <<next, prev, wild>>
           \/ /\ n = Null /\ wild' = TRUE
              /\ UNCHANGED <<next, prev, lockVars, call>>
        /\ UNCHANGED <<val, key>>
-----------------------------------------------------------------------------
(***************************************************************************)
(* gsync_requeue                                                           *)
(***************************************************************************)
\* The two mutexes are taken in the order of their buckets.
FirstBucket_source(c) == gsync_key_hash(c.src)
FirstBucket(c) == Min({gsync_key_hash(c.src), gsync_key_hash(c.key)})
SecondBucket(c) ==
    IF FirstBucket(c) = gsync_key_hash(c.src) THEN gsync_key_hash(c.key) ELSE gsync_key_hash(c.src)

gsync_requeue(t, src, dst, wake_one, broadcast) ==
    LET c == [op |-> "requeue", src |-> src, key |-> dst, wake_one |-> wake_one,
              broadcast |-> broadcast]
    IN  /\ pc[t] = "idle" /\ Requeue /\ ~wild
        /\ call' = [call EXCEPT ![t] = c]
        /\ Become(kmutex_lock(Sched, t, FirstBucket(c),
                    IF FirstBucket(c) = SecondBucket(c) THEN "requeue" ELSE "requeue_second"))
        /\ UNCHANGED <<val, listVars, wild>>

requeue_lock_second(t) ==
    /\ pc[t] = "requeue_second" /\ ~wild
    /\ Become(kmutex_lock(Sched, t, SecondBucket(call[t]), "requeue"))
    /\ UNCHANGED <<val, listVars, call, wild>>

\* The nodes from n on that are moved: at most nw of them unless all are.
RECURSIVE Moved(_, _, _, _, _)
Moved(b, n, src, nw, all) ==
    IF (all \/ nw > 1) /\ next[n] # b /\ Exact(next[n], src)
    THEN {n} \cup Moved(b, next[n], src, nw - 1, all)
    ELSE {n}

\* The splice, assignment by assignment.
Splice(l, inp, outp, endp) ==
    LET l1 == [l EXCEPT !.next[l.prev[inp]] = endp]
        l2 == [l1 EXCEPT !.next[l1.prev[endp]] = l1.next[outp]]
        l3 == [l2 EXCEPT !.prev[endp] = l2.prev[inp]]
    IN  [l3 EXCEPT !.next[outp] = inp, !.prev[inp] = outp]

\* exact is assigned only when the key is found.
requeue_splice(t) ==
    LET c == call[t]
        b1 == gsync_key_hash(c.src)
        b2 == gsync_key_hash(c.key)
        inp == gsync_find_key(b1, c.src)
        outp == gsync_find_key(b2, c.key)
        moved == Moved(b1, inp, c.src, IF c.wake_one THEN 2 ELSE 1, c.broadcast)
        endp == CHOOSE n \in {next[u] : u \in moved} : n \notin moved
        spliced == Splice(Lists, inp, outp, endp)
        d == IF c.wake_one
             THEN [lists |-> list_node_init(list_remove(spliced, inp), inp),
                   sched |-> clear_wait(Sched, inp)]
             ELSE [lists |-> spliced, sched |-> Sched]
        Unlock(m) == IF b1 = b2 THEN kmutex_unlock(m, b1)
                     ELSE kmutex_unlock(kmutex_unlock(m, b1), b2)
    IN  /\ pc[t] = "requeue" /\ ~wild
        /\ \E exact \in IF Exact(inp, c.src) THEN {TRUE} ELSE Garbage :
             \/ /\ ~exact /\ inp # Null
                /\ Return(t, Unlock(Sched))
                /\ UNCHANGED <<listVars, wild>>
             \/ /\ exact /\ inp \in Thread /\ outp # Null
                /\ Relink(d.lists)
                /\ key' = [u \in Thread |-> IF u \in moved THEN c.key ELSE key[u]]
                /\ Return(t, Unlock(d.sched))
                /\ UNCHANGED wild
             \/ /\ inp = Null \/ (exact /\ (inp \notin Thread \/ outp = Null))
                /\ wild' = TRUE
                /\ UNCHANGED <<listVars, lockVars, call>>
        /\ UNCHANGED val
-----------------------------------------------------------------------------
Step(t) ==
    \/ wait_check(t) \/ wait_back(t) \/ wait_leave(t)
    \/ wake_mutate(t) \/ wake_dequeue(t)
    \/ requeue_lock_second(t) \/ requeue_splice(t)

\* A gsync_requeue from an address to itself is left out: it links the waiter
\* to itself and drops it from the list.
Next ==
    \E t \in Thread :
        \/ \E k \in Key :
             \/ \E v \in Values :
                  \/ \E timed \in BOOLEAN : gsync_wait(t, k, v, timed)
                  \/ \E mutate \in BOOLEAN, broadcast \in Broadcast :
                       gsync_wake(t, k, v, mutate, broadcast)
             \/ \E src \in Key \ {k} : \E wake_one \in BOOLEAN, broadcast \in Broadcast :
                  gsync_requeue(t, src, k, wake_one, broadcast)
        \/ Step(t) \/ interrupt(t) \/ thread_timeout(t)

Spec == Init /\ [][Next]_vars
-----------------------------------------------------------------------------
\* Who takes itself to hold the mutex of a bucket.
Holders(b) ==
    {t \in Thread :
        \/ pc[t] \in {"wait", "leave", "wake", "dequeue"} /\ b = gsync_key_hash(call[t].key)
        \/ pc[t] = "requeue" /\ b \in {FirstBucket(call[t]), SecondBucket(call[t])}
        \/ /\ pc[t] = "requeue_second" \/ (pc[t] = "asleep" /\ after[t] = "requeue"
                                            /\ FirstBucket(call[t]) # SecondBucket(call[t]))
           /\ b = FirstBucket(call[t])}

\* "the buckets' simple locks give us atomicity": at most one thread is between
\* taking and releasing the mutex of a bucket, in gsync_wait, gsync_wake and
\* gsync_requeue.  The code does not keep it when waits can be interrupted: the
\* clear_wait of dequeue_waiter may end a sleep for the mutex itself.
Exclusion == \A b \in Bucket : Cardinality(Holders(b)) <= 1

\* gsync_requeue takes two mutexes "in order, to prevent any potential
\* deadlock": whenever threads sleep for a mutex, a thread that can run holds
\* that one or a later one.
NoLockDeadlock ==
    \A b \in Bucket : sleepers[b] # <<>> =>
        \E c \in b .. NBuckets - 1 : \E t \in Holders(c) : pc[t] # "asleep"

RECURSIVE ListFrom(_, _, _)
ListFrom(b, n, steps) ==
    IF n \notin Thread \/ steps = 0 THEN <<>> ELSE <<n>> \o ListFrom(b, next[n], steps - 1)
Entries(b) == ListFrom(b, next[b], 2 * Cardinality(Thread))

\* A wake of its address finds every thread that is blocked: it is on the list
\* of the bucket of its key.  A thread whose gsync_wait has returned, and whose
\* stack frame is gone, is on no list.
EveryWaiterListed ==
    ~wild =>
      /\ \A t \in Thread : pc[t] = "blocked" => t \in ToSet(Entries(gsync_key_hash(key[t])))
      /\ \A b \in Bucket : \A t \in ToSet(Entries(b)) :
           pc[t] \in {"blocked", "back", "leave"} \/ (pc[t] = "asleep" /\ after[t] = "leave")

\* "the waiting thread could potentially miss a wakeup": if every store is
\* followed by a broadcast, a thread blocks on a word that has changed only
\* while a waker is on its way.
Stale(t) == pc[t] = "blocked" /\ val[call[t].key] # call[t].value
NoStaleWaiter ==
    \A t \in Thread : Stale(t) =>
        \E u \in Thread :
            /\ call[u].op = "wake" /\ call[u].key = call[t].key
            /\ pc[u] = "dequeue" \/ after[u] = "dequeue"

=============================================================================
