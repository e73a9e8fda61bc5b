------------------------------- MODULE Sched -------------------------------
(***************************************************************************)
(* The thread states of kern/sched_prim.c: how a thread goes to sleep, is  *)
(* woken, is put on a run queue or given to an idle processor, is switched *)
(* to and away from, loses and gets back its kernel stack, and how another *)
(* thread stops it (thread_hold and thread_dowait, or thread_halt) and     *)
(* lets it go on (thread_release).                                         *)
(*                                                                         *)
(* A step is what the code does under one thread lock, wait queue lock or  *)
(* run queue lock; the steps of the processors interleave.  Threads are    *)
(* not bound to processors and have one priority: the run queue is a set,  *)
(* of which any member may be chosen.                                      *)
(***************************************************************************)
EXTENDS Integers, FiniteSets

CONSTANTS
    Thread,
    Processor,
    Event,      \* what threads wait for, apart from one another
    Null,       \* THREAD_NULL, and the event 0
    Idle,       \* the idle thread of a processor
    MayWait,    \* the threads that wait for events
    MayStop     \* MayStop[t]: the threads that t holds or halts

ASSUME Distinct ==
    /\ Thread \cap Event = {}
    /\ {Null, Idle} \cap (Thread \cup Event) = {}
    /\ Null # Idle
    /\ IsFiniteSet(Thread) /\ IsFiniteSet(Processor) /\ Processor # {}
    /\ MayWait \subseteq Thread
    /\ MayStop \in [Thread -> SUBSET Thread]
    /\ \A t \in Thread : t \notin MayStop[t]

VARIABLES
    state,          \* per thread: its TH_ flags
    wait_event,     \* per thread: the event on whose wait queue it is
    wake_active,    \* per thread: someone waits for it to stop
    suspend_count,  \* per thread
    swap_func,      \* per thread: it is to resume at a continuation
    ast_halt,       \* per thread: AST_HALT is set
    runq,           \* the threads on the run queue of the processor set
    swapin_queue,   \* the threads waiting for a kernel stack
    active_thread,  \* per processor: the thread it runs
    pstate,         \* per processor: processor->state
    next_thread,    \* per processor: the thread an idle one was given
    idle_queue, idle_count,
    pc,             \* per processor: where it is in the scheduler
    arg,            \* per processor: the thread being switched to or from, or cleared
    event,          \* per processor: the event of the wakeup or clear_wait it is in
    call,           \* per thread: which call it is in
    target          \* per thread: the thread it stops

threadVars == <<state, wait_event, wake_active, suspend_count, ast_halt, swap_func>>
queueVars == <<runq, pstate, next_thread, idle_queue, idle_count>>
cpuVars == <<active_thread, pc, arg, event>>
callVars == <<call, target>>
vars == <<threadVars, queueVars, swapin_queue, cpuVars, callVars>>

\* The wakeup key TH_EV_WAKE_ACTIVE of a thread is an address inside its structure.
TH_EV_WAKE_ACTIVE(t) == t

Flags == {"RUN", "WAIT", "SUSP", "UNINT", "HALTED", "SWAPPED", "COMING_IN"}
TH_SWAP_STATE == {"SWAPPED", "COMING_IN"}
TH_SCHED_STATE == {"RUN", "WAIT", "SUSP", "UNINT"}

(***************************************************************************)
(* Calls of a thread: "asserted" is between assert_wait and thread_block;  *)
(* "dowait" is thread_dowait; "stopped" is from its return to              *)
(* thread_release.  "halt" is thread_halt until it owns AST_HALT, "halting"*)
(* its thread_dowait, and "interrupting" and "halted" the rest of its loop *)
(* before and after clear_wait.                                            *)
(***************************************************************************)
Calls == {"none", "asserted", "dowait", "stopped", "halt", "halting", "interrupting", "halted"}

TypeOK ==
    /\ state \in [Thread -> SUBSET Flags]
    /\ wait_event \in [Thread -> Event \cup Thread \cup {Null}]
    /\ wake_active \in [Thread -> BOOLEAN]
    /\ suspend_count \in [Thread -> Int]
    /\ ast_halt \in [Thread -> BOOLEAN]
    /\ swap_func \in [Thread -> BOOLEAN]
    /\ runq \subseteq Thread
    /\ swapin_queue \subseteq Thread
    /\ active_thread \in [Processor -> Thread \cup {Idle}]
    /\ pstate \in [Processor -> {"RUNNING", "IDLE", "DISPATCHING"}]
    /\ next_thread \in [Processor -> Thread \cup {Null}]
    /\ idle_queue \subseteq Processor
    /\ idle_count \in Int
    /\ pc \in [Processor -> {"run", "select", "idle", "invoke", "dispatch",
                             "wake", "wakeup", "clear"}]
    /\ arg \in [Processor -> Thread \cup {Idle, Null}]
    /\ event \in [Processor -> Event \cup Thread \cup {Null}]
    /\ call \in [Thread -> Calls]
    /\ target \in [Thread -> Thread \cup {Null}]

\* Every thread is ready to run for the first time, without a stack: what
\* thread_create and thread_resume leave; the processors run their idle threads.
Init ==
    /\ state = [t \in Thread |-> {"RUN", "SWAPPED"}]
    /\ wait_event = [t \in Thread |-> Null]
    /\ wake_active = [t \in Thread |-> FALSE]
    /\ suspend_count = [t \in Thread |-> 0]
    /\ ast_halt = [t \in Thread |-> FALSE]
    /\ swap_func = [t \in Thread |-> TRUE]
    /\ runq = Thread
    /\ swapin_queue = {}
    /\ active_thread = [p \in Processor |-> Idle]
    /\ pstate = [p \in Processor |-> "RUNNING"]
    /\ next_thread = [p \in Processor |-> Null]
    /\ idle_queue = {}
    /\ idle_count = 0
    /\ pc = [p \in Processor |-> "select"]
    /\ arg = [p \in Processor |-> Null]
    /\ event = [p \in Processor |-> Null]
    /\ call = [t \in Thread |-> "none"]
    /\ target = [t \in Thread |-> Null]
-----------------------------------------------------------------------------
(***************************************************************************)
(* Run queues and idle processors                                          *)
(***************************************************************************)
Current(p) == active_thread[p]

\* Processor p is executing thread code, or the loop of its idle thread.
Running(p) == pc[p] = "run"

\* Processor p goes to step s of the scheduler with thread t and event e.
Goto(p, s, t, e) ==
    /\ pc' = [pc EXCEPT ![p] = s]
    /\ arg' = [arg EXCEPT ![p] = t]
    /\ event' = [event EXCEPT ![p] = e]

Return(p) == Goto(p, "run", Null, Null)

\* An idle processor is given the thread directly; otherwise it is queued.
thread_setrun(t) ==
    \/ /\ idle_count > 0
       /\ \E q \in idle_queue :
             /\ idle_queue' = idle_queue \ {q}
             /\ next_thread' = [next_thread EXCEPT ![q] = t]
             /\ pstate' = [pstate EXCEPT ![q] = "DISPATCHING"]
       /\ idle_count' = idle_count - 1
       /\ UNCHANGED runq
    \/ /\ idle_count = 0
       /\ runq' = runq \cup {t}
       /\ UNCHANGED <<pstate, next_thread, idle_queue, idle_count>>

(***************************************************************************)
(* Waiting and waking                                                      *)
(***************************************************************************)
\* The lock of the wait queue of event e is free.  A processor at "wakeup" is
\* in the loop of thread_wakeup_prim and holds it.
waitq_unlocked(e) == \A q \in Processor : ~(pc[q] = "wakeup" /\ event[q] = e)

\* The assignments of assert_wait to the thread that calls it.
AssertWait(t, e, interruptible) ==
    /\ wait_event' = [wait_event EXCEPT ![t] = e]
    /\ state' = [state EXCEPT ![t] = @ \cup {"WAIT"}
                                        \cup (IF interruptible THEN {} ELSE {"UNINT"})]

assert_wait(p, e, interruptible) ==
    LET t == Current(p) IN
    /\ Running(p) /\ t # Idle
    /\ call[t] = "none" /\ t \in MayWait
    /\ e # Null => waitq_unlocked(e)
    /\ AssertWait(t, e, interruptible)
    /\ call' = [call EXCEPT ![t] = "asserted"]
    /\ UNCHANGED <<wake_active, suspend_count, ast_halt, swap_func, queueVars, swapin_queue,
                   cpuVars, target>>

\* Takes a thread that is still running for one that sleeps.
Sleeping_running(t) == "SUSP" \in state[t] => "UNINT" \in state[t]

\* Forgets that a suspended thread is not to run.
Sleeping_suspended(t) == "RUN" \notin state[t]

\* Thread t sleeps, and is not to stay suspended when it is woken.
Sleeping(t) ==
    /\ "RUN" \notin state[t]
    /\ "SUSP" \in state[t] => "UNINT" \in state[t]

\* Leaves wait_event set.
EndWait_keep(t) ==
    /\ \/ /\ Sleeping(t)
          /\ state' = [state EXCEPT ![t] = (@ \ {"WAIT"}) \cup {"RUN"}]
          /\ thread_setrun(t)
       \/ /\ ~Sleeping(t)
          /\ state' = [state EXCEPT ![t] = @ \ {"WAIT"}]
          /\ UNCHANGED queueVars
    /\ UNCHANGED <<wait_event, wake_active, suspend_count, ast_halt, swap_func>>

\* What thread_wakeup_prim and clear_wait do with a waiting thread.
EndWait(t) ==
    /\ wait_event' = [wait_event EXCEPT ![t] = Null]
    /\ \/ /\ Sleeping(t)
          /\ state' = [state EXCEPT ![t] = (@ \ {"WAIT"}) \cup {"RUN"}]
          /\ thread_setrun(t)
       \/ /\ ~Sleeping(t)
          /\ state' = [state EXCEPT ![t] = @ \ {"WAIT"}]
          /\ UNCHANGED queueVars
    /\ UNCHANGED <<wake_active, suspend_count, ast_halt, swap_func>>

Waiters(e) == {t \in Thread : wait_event[t] = e}

\* One turn of the loop of thread_wakeup_prim: the first wakes one waiter and
\* takes the lock of the wait queue, which the last gives back.
thread_wakeup_prim(p, e, one_thread) ==
    /\ one_thread => e \in Event
    /\ \/ Running(p) /\ e \in Event /\ waitq_unlocked(e)
       \/ pc[p] = "wake" /\ event[p] = e /\ waitq_unlocked(e)
       \/ pc[p] = "wakeup" /\ event[p] = e
    /\ \E t \in Waiters(e) :
          /\ EndWait(t)
          /\ IF one_thread \/ Waiters(e) = {t}
             THEN Return(p)
             ELSE Goto(p, "wakeup", Null, e)
    /\ UNCHANGED <<swapin_queue, active_thread, callVars>>

\* A wakeup that finds nobody.
thread_wakeup_none(p) ==
    /\ pc[p] = "wake"
    /\ Waiters(event[p]) = {}
    /\ Return(p)
    /\ UNCHANGED <<threadVars, queueVars, swapin_queue, active_thread, callVars>>

\* clear_wait looks at the thread.  If it waits for an event, the thread lock
\* is given back before the lock of the wait queue is taken.
clear_wait(p, t, interrupt_only) ==
    /\ Running(p)
    /\ "WAIT" \in state[t]
    /\ interrupt_only => "UNINT" \notin state[t]
    /\ \/ /\ wait_event[t] # Null
          /\ Goto(p, "clear", t, wait_event[t])
          /\ UNCHANGED <<threadVars, queueVars>>
       \/ /\ wait_event[t] = Null
          /\ EndWait(t)
          /\ UNCHANGED <<pc, arg, event>>
    /\ UNCHANGED <<swapin_queue, active_thread, callVars>>

\* clear_wait with both locks: someone else may have ended that wait.
clear_wait_locked(p) ==
    /\ pc[p] = "clear" /\ waitq_unlocked(event[p])
    /\ IF wait_event[arg[p]] = event[p]
       THEN EndWait(arg[p])
       ELSE UNCHANGED <<threadVars, queueVars>>
    /\ Return(p)
    /\ UNCHANGED <<swapin_queue, active_thread, callVars>>
-----------------------------------------------------------------------------
(***************************************************************************)
(* Switching threads                                                       *)
(***************************************************************************)
\* The current thread gives up the processor: it waits, or its AST says so.
thread_block(p, with_continuation) ==
    LET t == Current(p) IN
    /\ Running(p) /\ t # Idle
    /\ call[t] \in {"none", "asserted", "stopped"}
    /\ call' = [call EXCEPT ![t] = IF @ = "asserted" THEN "none" ELSE @]
    /\ swap_func' = [swap_func EXCEPT ![t] = with_continuation]
    /\ Goto(p, "select", Null, Null)
    /\ UNCHANGED <<state, wait_event, wake_active, suspend_count, ast_halt,
                   queueVars, swapin_queue, active_thread, target>>

\* thread_select, with the first part of choose_pset_thread: a queued thread, the
\* current one if it may go on, or, with the run queue unlocked again, none.
thread_select(p) ==
    LET t == Current(p) IN
    /\ pc[p] = "select"
    /\ \/ \E new \in runq :
             /\ runq' = runq \ {new}
             /\ Goto(p, "invoke", new, Null)
       \/ /\ runq = {}
          /\ IF t # Idle /\ state[t] = {"RUN"}
             THEN Return(p)
             ELSE Goto(p, "idle", Null, Null)
          /\ UNCHANGED runq
    /\ UNCHANGED <<threadVars, pstate, next_thread, idle_queue, idle_count,
                   swapin_queue, active_thread, callVars>>

\* The rest of choose_pset_thread, and the switch to the idle thread.
choose_idle(p) ==
    LET t == Current(p) IN
    /\ pc[p] = "idle" /\ pstate[p] = "RUNNING"
    /\ pstate' = [pstate EXCEPT ![p] = "IDLE"]
    /\ idle_queue' = idle_queue \cup {p}
    /\ idle_count' = idle_count + 1
    /\ active_thread' = [active_thread EXCEPT ![p] = Idle]
    /\ IF t = Idle THEN Return(p) ELSE Goto(p, "dispatch", t, Null)
    /\ UNCHANGED <<threadVars, runq, next_thread, swapin_queue, callVars>>

\* Leaves the idle queue without being counted out.
idle_thread_continue_uncounted(p) ==
    /\ Running(p) /\ Current(p) = Idle
    /\ \/ /\ pstate[p] = "DISPATCHING"
          /\ Goto(p, "invoke", next_thread[p], Null)
          /\ next_thread' = [next_thread EXCEPT ![p] = Null]
          /\ UNCHANGED <<idle_queue, idle_count>>
       \/ /\ pstate[p] = "IDLE" /\ runq # {}
          /\ idle_queue' = idle_queue \ {p}
          /\ UNCHANGED idle_count
          /\ Goto(p, "select", Null, Null)
          /\ UNCHANGED next_thread
    /\ pstate' = [pstate EXCEPT ![p] = "RUNNING"]
    /\ UNCHANGED <<threadVars, runq, swapin_queue, active_thread, callVars>>

\* The loop of the idle thread: it was given a thread, or sees a queued one.
idle_thread_continue(p) ==
    /\ Running(p) /\ Current(p) = Idle
    /\ \/ /\ pstate[p] = "DISPATCHING"
          /\ Goto(p, "invoke", next_thread[p], Null)
          /\ next_thread' = [next_thread EXCEPT ![p] = Null]
          /\ UNCHANGED <<idle_queue, idle_count>>
       \/ /\ pstate[p] = "IDLE" /\ runq # {}
          /\ idle_queue' = idle_queue \ {p}
          /\ idle_count' = idle_count - 1
          /\ Goto(p, "select", Null, Null)
          /\ UNCHANGED next_thread
    /\ pstate' = [pstate EXCEPT ![p] = "RUNNING"]
    /\ UNCHANGED <<threadVars, runq, swapin_queue, active_thread, callVars>>

\* A thread without a stack is queued for the swapin thread, unless it is.
thread_swapin(t) ==
    LET swapped == "SWAPPED" \in state[t] IN
    /\ state' = [state EXCEPT ![t] = IF swapped THEN (@ \ TH_SWAP_STATE) \cup {"COMING_IN"} ELSE @]
    /\ swapin_queue' = swapin_queue \cup (IF swapped THEN {t} ELSE {})

\* The new thread gets the processor if it has a stack, is handed that of the
\* old one, or one can be allocated at once.  The idle thread keeps its stack.
\* The wakeups on TH_EV_STATE concern thread_suspend only, and are left out.
thread_invoke(p) ==
    LET new == arg[p]
        old == Current(p)
        handoff == old # Idle /\ swap_func[old]
    IN
    /\ pc[p] = "invoke"
    /\ \/ /\ ~(handoff /\ "COMING_IN" \in state[new])
          /\ state' = [state EXCEPT ![new] = @ \ {"SWAPPED", "UNINT"}]
          /\ active_thread' = [active_thread EXCEPT ![p] = new]
          /\ swap_func' = [swap_func EXCEPT ![new] = FALSE]
          /\ IF old = Idle THEN Return(p) ELSE Goto(p, "dispatch", old, Null)
          /\ UNCHANGED swapin_queue
       \/ /\ (IF handoff THEN "COMING_IN" ELSE "SWAPPED") \in state[new]
          /\ thread_swapin(new)
          /\ Goto(p, "select", Null, Null)
          /\ UNCHANGED <<active_thread, swap_func>>
    /\ UNCHANGED <<wait_event, wake_active, suspend_count, ast_halt, queueVars, callVars>>

\* Suspends a thread that is not interruptible yet.
Suspending_unint ==
    {{"RUN", "SUSP"}, {"RUN", "SUSP", "UNINT"}, {"RUN", "SUSP", "HALTED"}, {"RUN", "WAIT", "SUSP"}}

Suspending == {{"RUN", "SUSP"}, {"RUN", "SUSP", "HALTED"}, {"RUN", "WAIT", "SUSP"}}
Continuing == {{"RUN", "SUSP", "UNINT"}, {"RUN", "UNINT"}, {"RUN"}}
Blocking == {{"RUN", "WAIT", "SUSP", "UNINT"}, {"RUN", "WAIT", "UNINT"}, {"RUN", "WAIT"}}

\* The thread that gave up the processor, once it is off it.
thread_dispatch(p) ==
    LET t == arg[p]
        s == state[t] \cup (IF swap_func[t] THEN {"SWAPPED"} ELSE {})
        sched == s \ TH_SWAP_STATE
    IN
    /\ pc[p] = "dispatch"
    /\ \/ /\ sched \in Suspending
          /\ state' = [state EXCEPT ![t] = s \ {"RUN"}]
          /\ wake_active' = [wake_active EXCEPT ![t] = FALSE]
          /\ IF wake_active[t] THEN Goto(p, "wake", Null, TH_EV_WAKE_ACTIVE(t)) ELSE Return(p)
          /\ UNCHANGED queueVars
       \/ /\ sched \in Continuing
          /\ state' = [state EXCEPT ![t] = s]
          /\ thread_setrun(t)
          /\ Return(p)
          /\ UNCHANGED wake_active
       \/ /\ sched \in Blocking
          /\ state' = [state EXCEPT ![t] = s \ {"RUN"}]
          /\ Return(p)
          /\ UNCHANGED <<wake_active, queueVars>>
    /\ UNCHANGED <<wait_event, suspend_count, ast_halt, swap_func, swapin_queue,
                   active_thread, callVars>>

\* The swapin thread has got a stack for t.
thread_doswapin(t) ==
    /\ t \in swapin_queue
    /\ swapin_queue' = swapin_queue \ {t}
    /\ state' = [state EXCEPT ![t] = @ \ TH_SWAP_STATE]
    /\ IF "RUN" \in state[t] THEN thread_setrun(t) ELSE UNCHANGED queueVars
    /\ UNCHANGED <<wait_event, wake_active, suspend_count, ast_halt, swap_func,
                   cpuVars, callVars>>
-----------------------------------------------------------------------------
(***************************************************************************)
(* Stopping another thread                                                 *)
(***************************************************************************)
\* Thread t, current on p, is to stop thread x next: it makes no call now.
Stopper(p, x) ==
    /\ Running(p) /\ Current(p) # Idle
    /\ call[Current(p)] = "none" /\ x \in MayStop[Current(p)]

\* Thread t goes on with call c, of which x is the target.
Enter(t, c, x) ==
    /\ call' = [call EXCEPT ![t] = c]
    /\ target' = [target EXCEPT ![t] = x]

\* thread_sleep on TH_EV_WAKE_ACTIVE(x) by the current thread t of p, which may
\* in the same step have asked x to suspend.
SleepUntilStopped(p, x, susp) ==
    LET t == Current(p) IN
    /\ waitq_unlocked(TH_EV_WAKE_ACTIVE(x))
    /\ wake_active' = [wake_active EXCEPT ![x] = TRUE]
    /\ wait_event' = [wait_event EXCEPT ![t] = TH_EV_WAKE_ACTIVE(x)]
    /\ state' = [state EXCEPT ![t] = @ \cup {"WAIT"}, ![x] = @ \cup susp]
    /\ swap_func' = [swap_func EXCEPT ![t] = FALSE]
    /\ Goto(p, "select", Null, Null)

thread_hold(p, x) ==
    /\ Stopper(p, x)
    /\ suspend_count' = [suspend_count EXCEPT ![x] = @ + 1]
    /\ state' = [state EXCEPT ![x] = @ \cup {"SUSP"}]
    /\ Enter(Current(p), "dowait", x)
    /\ UNCHANGED <<wait_event, wake_active, ast_halt, swap_func, queueVars,
                   swapin_queue, cpuVars>>

MustSleep == {{"RUN", "SUSP"}, {"RUN", "SUSP", "UNINT"}, {"RUN", "WAIT", "SUSP"},
              {"RUN", "WAIT", "SUSP", "UNINT"}, {"WAIT", "SUSP", "UNINT"}}

\* Takes the thread off the run queue and does not tell the others that wait for it.
thread_dowait_nowake(p) ==
    LET t == Current(p)
        x == target[t]
        s == state[x] \cap TH_SCHED_STATE
        dequeue == s = {"RUN", "SUSP"} /\ x \in runq
    IN
    /\ Running(p) /\ t # Idle /\ call[t] \in {"dowait", "halting"}
    /\ \/ /\ s \in MustSleep /\ ~dequeue
          /\ SleepUntilStopped(p, x, {})
          /\ UNCHANGED <<runq, callVars>>
       \/ /\ s \in MustSleep => dequeue
          /\ Enter(t, IF call[t] = "halting" THEN "interrupting" ELSE "stopped", x)
          /\ IF dequeue
             THEN /\ runq' = runq \ {x}
                  /\ state' = [state EXCEPT ![x] = @ \ {"RUN"}]
                  /\ wake_active' = [wake_active EXCEPT ![x] = FALSE]
             ELSE UNCHANGED <<runq, state, wake_active>>
          /\ UNCHANGED <<pc, arg, event>>
          /\ UNCHANGED <<wait_event, swap_func>>
    /\ UNCHANGED <<suspend_count, ast_halt, pstate, next_thread, idle_queue, idle_count,
                   swapin_queue, active_thread>>

\* One turn of the loop of thread_dowait, which thread_halt calls too.
thread_dowait(p) ==
    LET t == Current(p)
        x == target[t]
        s == state[x] \cap TH_SCHED_STATE
        dequeue == s = {"RUN", "SUSP"} /\ x \in runq
    IN
    /\ Running(p) /\ t # Idle /\ call[t] \in {"dowait", "halting"}
    /\ \/ /\ s \in MustSleep /\ ~dequeue
          /\ SleepUntilStopped(p, x, {})
          /\ UNCHANGED <<runq, callVars>>
       \/ /\ s \in MustSleep => dequeue
          /\ Enter(t, IF call[t] = "halting" THEN "interrupting" ELSE "stopped", x)
          /\ IF dequeue
             THEN /\ runq' = runq \ {x}
                  /\ state' = [state EXCEPT ![x] = @ \ {"RUN"}]
                  /\ wake_active' = [wake_active EXCEPT ![x] = FALSE]
             ELSE UNCHANGED <<runq, state, wake_active>>
          /\ IF dequeue /\ wake_active[x]
             THEN Goto(p, "wake", Null, TH_EV_WAKE_ACTIVE(x))
             ELSE UNCHANGED <<pc, arg, event>>
          /\ UNCHANGED <<wait_event, swap_func>>
    /\ UNCHANGED <<suspend_count, ast_halt, pstate, next_thread, idle_queue, idle_count,
                   swapin_queue, active_thread>>

\* Leaves TH_HALTED set.
thread_release_halted(p) ==
    LET t == Current(p)
        x == target[t]
        last == suspend_count[x] = 1
        s == IF last THEN state[x] \ {"SUSP"} ELSE state[x]
        start == last /\ s \cap {"WAIT", "RUN"} = {}
    IN
    /\ Running(p) /\ t # Idle /\ call[t] = "stopped"
    /\ suspend_count' = [suspend_count EXCEPT ![x] = @ - 1]
    /\ state' = [state EXCEPT ![x] = s \cup (IF start THEN {"RUN"} ELSE {})]
    /\ IF start THEN thread_setrun(x) ELSE UNCHANGED queueVars
    /\ Enter(t, "none", Null)
    /\ UNCHANGED <<wait_event, wake_active, ast_halt, swap_func, swapin_queue, cpuVars>>

thread_release(p) ==
    LET t == Current(p)
        x == target[t]
        last == suspend_count[x] = 1
        s == IF last THEN state[x] \ {"SUSP", "HALTED"} ELSE state[x]
        start == last /\ s \cap {"WAIT", "RUN"} = {}
    IN
    /\ Running(p) /\ t # Idle /\ call[t] = "stopped"
    /\ suspend_count' = [suspend_count EXCEPT ![x] = @ - 1]
    /\ state' = [state EXCEPT ![x] = s \cup (IF start THEN {"RUN"} ELSE {})]
    /\ IF start THEN thread_setrun(x) ELSE UNCHANGED queueVars
    /\ Enter(t, "none", Null)
    /\ UNCHANGED <<wait_event, wake_active, ast_halt, swap_func, swapin_queue, cpuVars>>

(***************************************************************************)
(* thread_halt with must_halt.  A thread that is already halted is only    *)
(* held; if another one is halting it, wait for that.                      *)
(***************************************************************************)
thread_halt(p, x) ==
    LET t == Current(p) IN
    /\ Stopper(p, x)
    /\ suspend_count' = [suspend_count EXCEPT ![x] = @ + 1]
    /\ \/ /\ "HALTED" \in state[x]
          /\ Enter(t, "stopped", x)
          /\ UNCHANGED <<state, wait_event, wake_active, ast_halt, swap_func, pc, arg, event>>
       \/ /\ "HALTED" \notin state[x] /\ ast_halt[x]
          /\ SleepUntilStopped(p, x, {"SUSP"})
          /\ Enter(t, "halt", x)
          /\ UNCHANGED ast_halt
       \/ /\ "HALTED" \notin state[x] /\ ~ast_halt[x]
          /\ state' = [state EXCEPT ![x] = @ \cup {"SUSP"}]
          /\ ast_halt' = [ast_halt EXCEPT ![x] = TRUE]
          /\ Enter(t, "halting", x)
          /\ UNCHANGED <<wait_event, wake_active, swap_func, pc, arg, event>>
    /\ UNCHANGED <<queueVars, swapin_queue, active_thread>>

\* thread_halt after its sleep for the other halt.  With must_halt that one does
\* not fail: AST_HALT stays set until the thread is halted.
thread_halt_retry(p) ==
    LET t == Current(p)
        x == target[t]
    IN
    /\ Running(p) /\ t # Idle /\ call[t] = "halt"
    /\ \/ /\ "HALTED" \in state[x]
          /\ Enter(t, "stopped", x)
          /\ UNCHANGED <<state, wait_event, wake_active, swap_func, pc, arg, event>>
       \/ /\ "HALTED" \notin state[x] /\ ast_halt[x]
          /\ SleepUntilStopped(p, x, {})
          /\ UNCHANGED callVars
    /\ UNCHANGED <<suspend_count, ast_halt, queueVars, swapin_queue, active_thread>>

\* thread_halt calls clear_wait on the thread that has stopped and, being
\* suspended, is not set running by it.
thread_halt_clear(p) ==
    LET t == Current(p)
        x == target[t]
        waits == "WAIT" \in state[x] /\ "UNINT" \notin state[x]
    IN
    /\ Running(p) /\ t # Idle /\ call[t] = "interrupting"
    /\ Enter(t, "halted", x)
    /\ \/ /\ waits /\ wait_event[x] # Null
          /\ Goto(p, "clear", x, wait_event[x])
          /\ UNCHANGED state
       \/ /\ waits => wait_event[x] = Null
          /\ state' = [state EXCEPT ![x] = IF waits THEN @ \ {"WAIT"} ELSE @]
          /\ UNCHANGED <<pc, arg, event>>
    /\ UNCHANGED <<wait_event, wake_active, suspend_count, ast_halt, swap_func, queueVars,
                   swapin_queue, active_thread>>

\* The end of a turn of its loop: the thread has halted itself, or is at a
\* continuation that can be left (which ones are is not modelled), or is set
\* running, uninterruptibly, to reach a clean point.
thread_halt_check(p) ==
    LET t == Current(p)
        x == target[t]
        finish == Enter(t, "stopped", x) /\ UNCHANGED queueVars
    IN
    /\ Running(p) /\ t # Idle /\ call[t] = "halted"
    /\ \/ /\ "HALTED" \in state[x]
          /\ finish
          /\ UNCHANGED <<state, ast_halt>>
       \/ /\ "HALTED" \notin state[x] /\ swap_func[x]
          /\ state' = [state EXCEPT ![x] = @ \cup {"HALTED"}]
          /\ ast_halt' = [ast_halt EXCEPT ![x] = FALSE]
          /\ finish
       \/ /\ state[x] \cap (TH_SCHED_STATE \cup {"HALTED"}) = {"SUSP"}
          /\ state' = [state EXCEPT ![x] = @ \cup {"RUN", "UNINT"}]
          /\ thread_setrun(x)
          /\ Enter(t, "halting", x)
          /\ UNCHANGED ast_halt
    /\ UNCHANGED <<wait_event, wake_active, suspend_count, swap_func, swapin_queue, cpuVars>>

\* A thread that is asked to halt does so when it leaves the kernel.
thread_halt_self(p) ==
    LET t == Current(p) IN
    /\ Running(p) /\ t # Idle /\ call[t] = "none"
    /\ ast_halt[t]
    /\ state' = [state EXCEPT ![t] = @ \cup {"HALTED"}]
    /\ ast_halt' = [ast_halt EXCEPT ![t] = FALSE]
    /\ swap_func' = [swap_func EXCEPT ![t] = TRUE]
    /\ Goto(p, "select", Null, Null)
    /\ UNCHANGED <<wait_event, wake_active, suspend_count, queueVars, swapin_queue,
                   active_thread, callVars>>
-----------------------------------------------------------------------------
step(p) ==
    \/ \E e \in Event \cup {Null}, interruptible \in BOOLEAN : assert_wait(p, e, interruptible)
    \/ \E e \in Event \cup Thread, one_thread \in BOOLEAN : thread_wakeup_prim(p, e, one_thread)
    \/ thread_wakeup_none(p)
    \/ \E t \in Thread, interrupt_only \in BOOLEAN : clear_wait(p, t, interrupt_only)
    \/ clear_wait_locked(p)
    \/ \E with_continuation \in BOOLEAN : thread_block(p, with_continuation)
    \/ thread_select(p)
    \/ choose_idle(p)
    \/ idle_thread_continue(p)
    \/ thread_invoke(p)
    \/ thread_dispatch(p)
    \/ \E x \in Thread : thread_hold(p, x)
    \/ thread_dowait(p)
    \/ thread_release(p)
    \/ \E x \in Thread : thread_halt(p, x)
    \/ thread_halt_retry(p)
    \/ thread_halt_clear(p)
    \/ thread_halt_check(p)
    \/ thread_halt_self(p)

Next ==
    \/ \E p \in Processor : step(p)
    \/ \E t \in Thread : thread_doswapin(t)

Spec == Init /\ [][Next]_vars
-----------------------------------------------------------------------------
\* Thread t is in transit on processor p: chosen but not yet running, or no
\* longer running and not yet dispatched.
InTransit(t, p) == pc[p] \in {"invoke", "dispatch"} /\ arg[p] = t

\* Where a thread that is to run can be: in place k, of processor p unless the
\* place is one of the two queues.
ProcessorPlaces == {"active", "transit", "next"}
Places == ProcessorPlaces \cup {"runq", "swapin"}
At(t, k, p) ==
    \/ k = "active" /\ active_thread[p] = t
    \/ k = "transit" /\ InTransit(t, p)
    \/ k = "next" /\ next_thread[p] = t
    \/ k = "runq" /\ t \in runq
    \/ k = "swapin" /\ t \in swapin_queue

\* A thread is marked TH_RUN iff it is on a processor, on its way to or from one,
\* on the run queue or on the swapin queue, and it is in one such place only: no
\* thread runs twice, and none that is to run is forgotten by a wakeup, a
\* release or a context switch.
OnePlace ==
    \A t \in Thread :
        /\ "RUN" \in state[t] <=> \E k \in Places, p \in Processor : At(t, k, p)
        /\ \A k \in Places, p \in Processor : At(t, k, p) =>
              \A l \in Places, q \in Processor : At(t, l, q) =>
                  k = l /\ (k \in ProcessorPlaces => p = q)

\* The links of a thread structure serve the wait queues, the run queue and the
\* swapin queue: a thread is never on two of them.
LinksUsedOnce ==
    \A t \in Thread :
        wait_event[t] # Null => "WAIT" \in state[t] /\ t \notin runq \cup swapin_queue

\* None of the panics for an unexpected state can happen: in thread_dispatch and
\* thread_invoke, in thread_swapin, in thread_halt, in assert_wait if a wait is
\* left over from before; no thread is switched to that waits for a stack; and a
\* thread_halt that waits for another one finds the thread halted or still being
\* halted.
NoPanic ==
    /\ \A p \in Processor :
          /\ pc[p] = "dispatch" =>
                state[arg[p]] \in Suspending \cup Continuing \cup Blocking
          /\ pc[p] = "invoke" => "COMING_IN" \notin state[arg[p]]
          /\ Running(p) /\ active_thread[p] # Idle /\ call[active_thread[p]] # "asserted" =>
                wait_event[active_thread[p]] = Null
    /\ \A t \in Thread :
          call[t] = "halted" /\ (\E p \in Processor : Running(p) /\ active_thread[p] = t) =>
                state[target[t]] \cap TH_SCHED_STATE = {"SUSP"}
    /\ \A t \in Thread :
          call[t] = "halt" => ast_halt[target[t]] \/ "HALTED" \in state[target[t]]

\* The idle queue holds the idle processors, idle_count counts them, and a
\* processor has been given a thread iff it is being dispatched.
IdleExact ==
    /\ idle_queue = {p \in Processor : pstate[p] = "IDLE"}
    /\ idle_count = Cardinality(idle_queue)
    /\ \A p \in Processor : (next_thread[p] # Null) <=> (pstate[p] = "DISPATCHING")

\* Thread t holds x and has been told that it is stopped.
Stopped(t, x) == call[t] \in {"stopped", "interrupting", "halted"} /\ target[t] = x

\* A thread that thread_dowait reported as stopped does not run, and is not
\* going to, until it is released or set running by the one that halts it.
StaysStopped ==
    \A t, x \in Thread :
        Stopped(t, x) /\ (\A u \in Thread : call[u] = "halting" => target[u] # x) =>
            "RUN" \notin state[x] /\ "SUSP" \in state[x]

\* Nobody sleeps in thread_dowait for a thread that has stopped: it is woken, or
\* the wakeup is on its way.
NoStrandedStopper ==
    \A t, x \in Thread :
        wait_event[t] = TH_EV_WAKE_ACTIVE(x) /\ call[t] \in {"dowait", "halting"} =>
            \/ wake_active[x] /\ ("RUN" \in state[x] \/ {"WAIT", "UNINT"} \subseteq state[x])
            \/ \E p \in Processor : pc[p] \in {"wake", "wakeup"} /\ event[p] = TH_EV_WAKE_ACTIVE(x)

(***************************************************************************)
(* Whatever interleaves, the state of every thread changes only as the     *)
(* table at the head of kern/sched_prim.c says it does.                    *)
(***************************************************************************)
States == INSTANCE ThreadStates WITH sched <- [t \in Thread |-> state[t] \cap TH_SCHED_STATE]
FollowsTable == States!Spec
=============================================================================
