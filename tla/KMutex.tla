------------------------------- MODULE KMutex -------------------------------
(***************************************************************************)
(* kern/kmutex.c: the three-state sleeping mutex.  A locker that loses the *)
(* compare-and-swap takes the internal spin lock, swaps the state to       *)
(* CONTENDED and sleeps; an unlocker that finds CONTENDED wakes exactly    *)
(* one sleeper, which then owns the mutex without touching the state word. *)
(*                                                                         *)
(* A step is one atomic instruction on the state word, or one critical     *)
(* section of the internal spin lock mtxp->lock (nothing else that the     *)
(* section reads can change while it is held).  thread_sleep enqueues the  *)
(* thread before the spin lock is dropped, so going to sleep is part of    *)
(* the section; an interruption takes the thread off the wait queue        *)
(* without the spin lock, at any time.                                     *)
(***************************************************************************)
EXTENDS KernQueue

CONSTANT Thread     \* the threads that use the mutex

VARIABLES
    state,          \* mtxp->state
    queue,          \* the threads asleep on the event mtxp, oldest first
    pc,             \* where each thread is in kmutex_lock / kmutex_unlock
    interruptible,  \* the argument of the kmutex_lock call in progress
    wait_result     \* thread->wait_result of the last sleep

vars == <<state, queue, pc, interruptible, wait_result>>

States == {"AVAIL", "LOCKED", "CONTENDED"}
Points == {"idle", "lock_slow", "sleeping", "awake", "owner", "unlock_slow"}

TypeOK ==
    /\ state \in States
    /\ queue \in Seq(Thread)
    /\ pc \in [Thread -> Points]
    /\ interruptible \in [Thread -> BOOLEAN]
    /\ wait_result \in [Thread -> {"AWAKENED", "INTERRUPTED"}]

Goto(t, p) == pc' = [pc EXCEPT ![t] = p]

\* Threads that may touch what the mutex protects.  A thread that was woken
\* by an unlocker owns the mutex from that moment on.
Holds(t) ==
    \/ pc[t] \in {"owner", "unlock_slow"}
    \/ pc[t] = "awake" /\ wait_result[t] = "AWAKENED"

kmutex_init ==
    /\ state = "AVAIL"
    /\ queue = << >>
    /\ pc = [t \in Thread |-> "idle"]
    /\ interruptible = [t \in Thread |-> FALSE]
    /\ wait_result = [t \in Thread |-> "AWAKENED"]

\* The compare-and-swap that opens kmutex_lock.
kmutex_lock_fast(t, intr) ==
    /\ pc[t] = "idle"
    /\ interruptible' = [interruptible EXCEPT ![t] = intr]
    /\ \/ /\ state = "AVAIL"
          /\ state' = "LOCKED"
          /\ Goto(t, "owner")
       \/ /\ state # "AVAIL"
          /\ state' = state
          /\ Goto(t, "lock_slow")
    /\ UNCHANGED <<queue, wait_result>>

\* A sleeper that forgets to leave the CONTENDED mark behind.
kmutex_lock_slow_nomark(t) ==
    /\ pc[t] = "lock_slow"
    /\ state' = IF state = "AVAIL" THEN "CONTENDED" ELSE state
    /\ IF state = "AVAIL"
       THEN Goto(t, "owner") /\ queue' = queue
       ELSE Goto(t, "sleeping") /\ queue' = Append(queue, t)
    /\ UNCHANGED <<interruptible, wait_result>>

\* The critical section of kmutex_lock: the swap, and the sleep.
kmutex_lock_slow(t) ==
    /\ pc[t] = "lock_slow"
    /\ state' = "CONTENDED"
    /\ \/ /\ state = "AVAIL"
          /\ Goto(t, "owner")
          /\ queue' = queue
       \/ /\ state # "AVAIL"
          /\ Goto(t, "sleeping")
          /\ queue' = Append(queue, t)
    /\ UNCHANGED <<interruptible, wait_result>>

\* The thread runs again and looks at its wait result.
kmutex_lock_return(t) ==
    /\ pc[t] = "awake"
    /\ Goto(t, IF wait_result[t] = "AWAKENED" THEN "owner" ELSE "idle")
    /\ UNCHANGED <<state, queue, interruptible, wait_result>>

kmutex_trylock(t) ==
    /\ pc[t] = "idle"
    /\ state = "AVAIL"
    /\ state' = "LOCKED"
    /\ Goto(t, "owner")
    /\ UNCHANGED <<queue, interruptible, wait_result>>

\* An unlocker that does not look whether the mutex is contended.
kmutex_unlock_fast_blind(t) ==
    /\ pc[t] = "owner"
    /\ state' = "AVAIL"
    /\ Goto(t, "idle")
    /\ UNCHANGED <<queue, interruptible, wait_result>>

\* The compare-and-swap that opens kmutex_unlock.
kmutex_unlock_fast(t) ==
    /\ pc[t] = "owner"
    /\ \/ /\ state = "LOCKED"
          /\ state' = "AVAIL"
          /\ Goto(t, "idle")
       \/ /\ state # "LOCKED"
          /\ state' = state
          /\ Goto(t, "unlock_slow")
    /\ UNCHANGED <<queue, interruptible, wait_result>>

\* An unlocker that frees the mutex although it woke a sleeper.
kmutex_unlock_slow_free(t) ==
    /\ pc[t] = "unlock_slow"
    /\ state' = "AVAIL"
    /\ IF queue = << >>
       THEN Goto(t, "idle") /\ UNCHANGED <<queue, wait_result>>
       ELSE /\ pc' = [pc EXCEPT ![t] = "idle", ![Head(queue)] = "awake"]
            /\ queue' = Tail(queue)
            /\ wait_result' = [wait_result EXCEPT ![Head(queue)] = "AWAKENED"]
    /\ UNCHANGED interruptible

\* An unlocker that wakes the newest sleeper.
kmutex_unlock_slow_newest(t) ==
    /\ pc[t] = "unlock_slow"
    /\ state' = IF queue = << >> THEN "AVAIL" ELSE state
    /\ IF queue = << >>
       THEN Goto(t, "idle") /\ UNCHANGED <<queue, wait_result>>
       ELSE /\ pc' = [pc EXCEPT ![t] = "idle", ![queue[Len(queue)]] = "awake"]
            /\ queue' = remqueue(queue, Len(queue))
            /\ wait_result' = [wait_result EXCEPT ![queue[Len(queue)]] = "AWAKENED"]
    /\ UNCHANGED interruptible

\* The critical section of kmutex_unlock: thread_wakeup_one makes the oldest
\* sleeper runnable; when there is none, the mutex becomes available.
kmutex_unlock_slow(t) ==
    /\ pc[t] = "unlock_slow"
    /\ \/ /\ queue = << >>
          /\ state' = "AVAIL"
          /\ Goto(t, "idle")
          /\ UNCHANGED <<queue, wait_result>>
       \/ /\ queue # << >>
          /\ pc' = [pc EXCEPT ![t] = "idle", ![Head(queue)] = "awake"]
          /\ queue' = Tail(queue)
          /\ wait_result' = [wait_result EXCEPT ![Head(queue)] = "AWAKENED"]
          /\ state' = state
    /\ UNCHANGED interruptible

\* clear_wait(thread, THREAD_INTERRUPTED, TRUE) on a sleeper that allows it.
interrupt(i) ==
    /\ i \in 1 .. Len(queue)
    /\ interruptible[queue[i]]
    /\ Goto(queue[i], "awake")
    /\ wait_result' = [wait_result EXCEPT ![queue[i]] = "INTERRUPTED"]
    /\ queue' = remqueue(queue, i)
    /\ UNCHANGED <<state, interruptible>>

Step(t) ==
    \/ kmutex_lock_slow(t)
    \/ kmutex_lock_return(t)
    \/ kmutex_unlock_fast(t)
    \/ kmutex_unlock_slow(t)

Next ==
    \/ \E t \in Thread :
        \/ \E intr \in BOOLEAN : kmutex_lock_fast(t, intr)
        \/ kmutex_trylock(t)
        \/ Step(t)
    \/ \E i \in 1 .. Len(queue) : interrupt(i)

Spec == kmutex_init /\ [][Next]_vars

\* Fairness: a thread inside kmutex_lock or kmutex_unlock that is not asleep
\* keeps running, and a holder eventually calls kmutex_unlock.  Nothing makes
\* a thread call kmutex_lock, and nothing makes an interruption happen.
FairSpec == Spec /\ \A t \in Thread : WF_vars(Step(t))
-----------------------------------------------------------------------------
\* Mutual exclusion: kmutex_lock or kmutex_trylock has returned KERN_SUCCESS
\* to, or an unlocker has handed the mutex to, at most one thread.
MutualExclusion == \A t, u \in Thread : Holds(t) /\ Holds(u) => t = u

\* The state word says AVAIL exactly when nobody owns the mutex: interrupted
\* sleepers cannot leave a mutex behind that is locked for ever.
AvailableIffUnowned == (state = "AVAIL") <=> (\A t \in Thread : ~Holds(t))

\* No lost wakeup: while a thread sleeps on the mutex its owner will find
\* CONTENDED and take the slow path of kmutex_unlock.
SleepersSeen ==
    queue # << >> => state = "CONTENDED" /\ \E t \in Thread : Holds(t)

\* The wait queue holds exactly the threads asleep in kmutex_lock, each once.
QueueIsSleepers ==
    /\ Range(queue) = {t \in Thread : pc[t] = "sleeping"}
    /\ IsInjective(queue)

Inv ==
    /\ TypeOK
    /\ MutualExclusion
    /\ AvailableIffUnowned
    /\ SleepersSeen
    /\ QueueIsSleepers

Holders == {t \in Thread : Holds(t)}

M == INSTANCE Mutex WITH holders <- Holders, waiting <- queue

\* kmutex.c implements Mutex.  Whatever the compare-and-swaps, the sections of
\* the spin lock and the interruptions interleave to, kmutex_unlock gives the
\* mutex to the thread that has slept longest and frees it only when nobody
\* sleeps, a sleeper that is interrupted leaves without it, and kmutex_lock
\* sleeps only while another thread owns it.
ImplementsMutex == M!Spec

\* Because the mutex is handed to the oldest sleeper, a thread that calls
\* kmutex_lock cannot starve: it comes to own the mutex, unless it asked for
\* an interruptible wait and returns KERN_INTERRUPTED.
LockReturns ==
    \A t \in Thread :
        pc[t] = "lock_slow"
            ~> pc[t] = "owner" \/ (pc[t] = "idle" /\ interruptible[t])
=============================================================================
