--------------------------- MODULE SchedInvariant ---------------------------
(***************************************************************************)
(* What Sched promises for any number of threads and processors.           *)
(***************************************************************************)
EXTENDS Sched, FiniteSetTheorems, TLAPS

\* Which thread a processor or a call deals with, and how the state of a
\* processor, the idle queue and next_thread go together.
Args ==
    /\ \A p \in Processor : pc[p] \in {"invoke", "dispatch", "clear"} => arg[p] \in Thread
    /\ \A t \in Thread : call[t] \notin {"none", "asserted"} => target[t] \in Thread

Busy(p) == pc[p] \in {"select", "idle", "invoke"} \/ active_thread[p] # Idle

Queues ==
    /\ IdleExact
    /\ \A p \in Processor : Busy(p) => pstate[p] = "RUNNING"

Base == TypeOK /\ Args /\ Queues

LEMMA InitBase == Init => Base
<1> SUFFICES ASSUME Init PROVE Base
  OBVIOUS
<1>1. TypeOK /\ Args
  BY Distinct DEF Init, TypeOK, Args, Flags, Calls
<1>2. Cardinality({}) = 0
  BY FS_EmptySet
<1>3. Queues
  BY <1>2, Distinct DEF Init, Queues, IdleExact, Busy
<1> QED BY <1>1, <1>3 DEF Base

\* The definitions every action is made of.
CpuType ==
    /\ pc \in [Processor -> {"run", "select", "idle", "invoke", "dispatch",
                             "wake", "wakeup", "clear"}]
    /\ arg \in [Processor -> Thread \cup {Idle, Null}]
    /\ event \in [Processor -> Event \cup Thread \cup {Null}]

LEMMA GotoType ==
    ASSUME TypeOK, NEW p \in Processor,
           NEW s \in {"run", "select", "idle", "invoke", "dispatch", "wake", "wakeup", "clear"},
           NEW t \in Thread \cup {Idle, Null}, NEW e \in Event \cup Thread \cup {Null},
           Goto(p, s, t, e)
    PROVE  CpuType'
  BY DEF TypeOK, CpuType, Goto

LEMMA ReturnType ==
    ASSUME TypeOK, NEW p \in Processor, Return(p)
    PROVE  CpuType'
  BY GotoType DEF Return

LEMMA SetrunType ==
    ASSUME TypeOK, NEW t \in Thread, thread_setrun(t)
    PROVE  /\ runq' \subseteq Thread
           /\ pstate' \in [Processor -> {"RUNNING", "IDLE", "DISPATCHING"}]
           /\ next_thread' \in [Processor -> Thread \cup {Null}]
           /\ idle_queue' \subseteq Processor
           /\ idle_count' \in Int
  BY DEF TypeOK, thread_setrun

LEMMA EndWaitType ==
    ASSUME TypeOK, NEW t \in Thread, EndWait(t)
    PROVE  /\ runq' \subseteq Thread
           /\ pstate' \in [Processor -> {"RUNNING", "IDLE", "DISPATCHING"}]
           /\ next_thread' \in [Processor -> Thread \cup {Null}]
           /\ idle_queue' \subseteq Processor
           /\ idle_count' \in Int
           /\ state' \in [Thread -> SUBSET Flags]
           /\ wait_event' \in [Thread -> Event \cup Thread \cup {Null}]
           /\ UNCHANGED <<wake_active, suspend_count, ast_halt, swap_func>>
<1>1. CASE Sleeping(t)
  <2>1. thread_setrun(t) /\ state' = [state EXCEPT ![t] = (@ \ {"WAIT"}) \cup {"RUN"}]
    BY <1>1 DEF EndWait
  <2> QED BY <2>1, SetrunType DEF TypeOK, EndWait, Flags
<1>2. CASE ~Sleeping(t)
  BY <1>2 DEF TypeOK, EndWait, Flags, queueVars
<1> QED BY <1>1, <1>2

SleepTypes ==
    /\ CpuType
    /\ state \in [Thread -> SUBSET Flags]
    /\ wake_active \in [Thread -> BOOLEAN]
    /\ wait_event \in [Thread -> Event \cup Thread \cup {Null}]
    /\ swap_func \in [Thread -> BOOLEAN]

LEMMA SleepType ==
    ASSUME TypeOK, NEW p \in Processor, NEW x \in Thread, NEW susp \in SUBSET Flags,
           Current(p) \in Thread, SleepUntilStopped(p, x, susp)
    PROVE  SleepTypes'
<1>1. CpuType'
  BY GotoType, Zenon DEF SleepUntilStopped
<1>2. state' \in [Thread -> SUBSET Flags]
  BY Zenon DEF TypeOK, SleepUntilStopped, Flags
<1> QED BY <1>1, <1>2 DEF TypeOK, SleepTypes, SleepUntilStopped, TH_EV_WAKE_ACTIVE

LEMMA StepType ==
    ASSUME Base, NEW p \in Processor, step(p)
    PROVE  TypeOK'
<1> USE Distinct
<1>0. TypeOK /\ Args /\ Queues
  BY DEF Base
<1>1. ASSUME NEW e \in Event \cup {Null}, NEW interruptible \in BOOLEAN,
             assert_wait(p, e, interruptible)
      PROVE  TypeOK'
  BY <1>0, <1>1 DEF TypeOK, assert_wait, AssertWait, Current, Flags, Calls, queueVars, cpuVars
<1>2. ASSUME NEW e \in Event \cup Thread, NEW one_thread \in BOOLEAN,
             thread_wakeup_prim(p, e, one_thread)
      PROVE  TypeOK'
  <2>1. PICK t \in Waiters(e) : EndWait(t)
    BY <1>0, <1>2 DEF thread_wakeup_prim
  <2>2. t \in Thread
    BY DEF Waiters
  <2>3. CpuType'
    BY <1>0, <1>2, GotoType, ReturnType DEF thread_wakeup_prim
  <2> QED BY <1>0, <1>2, <2>1, <2>2, <2>3, EndWaitType DEF TypeOK, CpuType, thread_wakeup_prim, callVars
<1>3. CASE thread_wakeup_none(p)
  BY <1>0, <1>3 DEF TypeOK, thread_wakeup_none, Return, Goto, threadVars, queueVars, callVars
<1>4. ASSUME NEW t \in Thread, NEW interrupt_only \in BOOLEAN, clear_wait(p, t, interrupt_only)
      PROVE  TypeOK'
  <2>1. CASE wait_event[t] # Null
    BY <1>0, <1>4, <2>1 DEF TypeOK, clear_wait, Goto, threadVars, queueVars, callVars
  <2>2. CASE wait_event[t] = Null
    <3>1. EndWait(t)
      BY <1>0, <1>4, <2>2 DEF clear_wait
    <3> QED BY <1>0, <1>4, <2>2, <3>1, EndWaitType DEF TypeOK, clear_wait, callVars
  <2> QED BY <2>1, <2>2
<1>5. CASE clear_wait_locked(p)
  <2>0. arg[p] \in Thread
    BY <1>0, <1>5 DEF clear_wait_locked, Args
  <2>1. CASE wait_event[arg[p]] = event[p]
    <3>1. EndWait(arg[p])
      BY <1>0, <1>5, <2>1 DEF clear_wait_locked
    <3> QED BY <1>0, <1>5, <2>0, <2>1, <3>1, EndWaitType DEF TypeOK, clear_wait_locked, Return, Goto, callVars
  <2>2. CASE wait_event[arg[p]] # event[p]
    BY <1>0, <1>5, <2>2 DEF TypeOK, clear_wait_locked, Return, Goto, threadVars, queueVars, callVars
  <2> QED BY <2>1, <2>2
<1>6. ASSUME NEW with_continuation \in BOOLEAN, thread_block(p, with_continuation)
      PROVE  TypeOK'
  BY <1>0, <1>6 DEF TypeOK, thread_block, Current, Goto, Calls, queueVars
<1>7. CASE thread_select(p)
  <2>1. CpuType' /\ runq' \subseteq Thread
    BY <1>0, <1>7, GotoType, ReturnType, Zenon DEF thread_select, TypeOK
  <2> QED BY <1>0, <1>7, <2>1 DEF TypeOK, CpuType, thread_select, threadVars, callVars
<1>8. CASE choose_idle(p)
  <2>0. Current(p) \in Thread \cup {Idle, Null}
    BY <1>0 DEF TypeOK, Current
  <2>1. CpuType'
    <3>1. CASE Return(p)
      BY <1>0, <3>1, ReturnType
    <3>2. CASE Goto(p, "dispatch", Current(p), Null)
      BY <1>0, <2>0, <3>2, GotoType
    <3> QED BY <1>8, <3>1, <3>2, Zenon DEF choose_idle
  <2>2. /\ active_thread' \in [Processor -> Thread \cup {Idle}]
        /\ pstate' \in [Processor -> {"RUNNING", "IDLE", "DISPATCHING"}]
        /\ idle_queue' \subseteq Processor
    BY <1>0, <1>8 DEF TypeOK, choose_idle
  <2>3. idle_count' \in Int
    BY <1>0, <1>8 DEF TypeOK, choose_idle
  <2> QED BY <1>0, <1>8, <2>1, <2>2, <2>3, Zenon DEF TypeOK, CpuType, choose_idle, threadVars, callVars
<1>9. CASE idle_thread_continue(p)
  <2>1. CpuType'
    BY <1>0, <1>9, GotoType, Zenon DEF idle_thread_continue, TypeOK
  <2>2. idle_count' \in Int
    BY <1>0, <1>9 DEF idle_thread_continue, TypeOK
  <2> QED BY <1>0, <1>9, <2>1, <2>2, Zenon DEF TypeOK, CpuType, idle_thread_continue, threadVars, callVars
<1>10. CASE thread_invoke(p)
  <2>1. arg[p] \in Thread
    BY <1>0, <1>10 DEF thread_invoke, Args
  <2>2. CpuType'
    BY <1>0, <1>10, GotoType, ReturnType, ZenonT(30) DEF thread_invoke, TypeOK, Current
  <2>3. state' \in [Thread -> SUBSET Flags]
    BY <1>0, <1>10, <2>1 DEF thread_invoke, thread_swapin, TypeOK, Flags, TH_SWAP_STATE
  <2>4. swapin_queue' \subseteq Thread
    BY <1>0, <1>10, <2>1 DEF thread_invoke, thread_swapin, TypeOK
  <2> QED BY <1>0, <1>10, <2>1, <2>2, <2>3, <2>4, Zenon DEF TypeOK, CpuType, thread_invoke, queueVars, callVars
<1>11. CASE thread_dispatch(p)
  <2>1. arg[p] \in Thread
    BY <1>0, <1>11 DEF thread_dispatch, Args
  <2>2. UNCHANGED queueVars \/ thread_setrun(arg[p])
    BY <1>11 DEF thread_dispatch, queueVars
  <2>3. /\ runq' \subseteq Thread
        /\ pstate' \in [Processor -> {"RUNNING", "IDLE", "DISPATCHING"}]
        /\ next_thread' \in [Processor -> Thread \cup {Null}]
        /\ idle_queue' \subseteq Processor
        /\ idle_count' \in Int
    BY <1>0, <2>1, <2>2, SetrunType DEF TypeOK, queueVars
  <2>4. state' \in [Thread -> SUBSET Flags]
    BY <1>0, <1>11, <2>1 DEF TypeOK, thread_dispatch, Flags
  <2>5. CpuType'
    BY <1>0, <1>11, <2>1, GotoType, ReturnType, Zenon DEF thread_dispatch, TH_EV_WAKE_ACTIVE
  <2>6. wake_active' \in [Thread -> BOOLEAN]
    BY <1>0, <1>11, Zenon DEF thread_dispatch, TypeOK
  <2> QED BY <1>0, <1>11, <2>3, <2>4, <2>5, <2>6 DEF TypeOK, CpuType, thread_dispatch, callVars
<1>12. ASSUME NEW x \in Thread, thread_hold(p, x)
       PROVE  TypeOK'
  <2>1. state' \in [Thread -> SUBSET Flags] /\ suspend_count' \in [Thread -> Int]
    BY <1>0, <1>12 DEF TypeOK, thread_hold, Flags
  <2>2. Enter(Current(p), "dowait", x)
    BY <1>12 DEF thread_hold
  <2>3. call' \in [Thread -> Calls] /\ target' \in [Thread -> Thread \cup {Null}]
    BY <1>0, <2>2, Zenon DEF TypeOK, Enter, Calls
  <2> QED BY <1>0, <1>12, <2>1, <2>3 DEF TypeOK, thread_hold, queueVars, cpuVars
<1>13. CASE thread_dowait(p)
  <2> DEFINE t == Current(p)
             x == target[t]
  <2>1. t \in Thread /\ x \in Thread
    BY <1>0, <1>13, Zenon DEF thread_dowait, Args, TypeOK, Current
  <2>2. CASE SleepUntilStopped(p, x, {}) /\ UNCHANGED <<runq, callVars>>
    <3>1. SleepTypes'
      BY <1>0, <2>1, <2>2, SleepType, Zenon
    <3> QED BY <1>0, <1>13, <2>2, <3>1 DEF TypeOK, SleepTypes, CpuType, thread_dowait, callVars
  <2>3. CASE ~(SleepUntilStopped(p, x, {}) /\ UNCHANGED <<runq, callVars>>)
    <3>1. PICK c \in {"interrupting", "stopped"} : Enter(t, c, x)
      BY <1>13, <2>3 DEF thread_dowait
    <3>2. call' \in [Thread -> Calls] /\ target' \in [Thread -> Thread \cup {Null}]
      BY <1>0, <2>1, <3>1 DEF TypeOK, Enter, Calls
    <3>3. CpuType'
      BY <1>0, <1>13, <2>1, <2>3, GotoType, Zenon DEF thread_dowait, TypeOK, CpuType, TH_EV_WAKE_ACTIVE
    <3>4. /\ UNCHANGED runq \/ runq' = runq \ {x}
          /\ UNCHANGED wake_active \/ wake_active' = [wake_active EXCEPT ![x] = FALSE]
      BY <1>13, <2>3 DEF thread_dowait
    <3>7. wake_active' \in [Thread -> BOOLEAN] /\ runq' \subseteq Thread
      BY <1>0, <2>1, <3>4, Zenon DEF TypeOK
    <3>5. UNCHANGED state \/ state' = [state EXCEPT ![x] = @ \ {"RUN"}]
      BY <1>13, <2>3 DEF thread_dowait
    <3>6. state' \in [Thread -> SUBSET Flags]
      BY <1>0, <2>1, <3>5 DEF TypeOK
    <3> QED BY <1>0, <1>13, <2>3, <3>2, <3>3, <3>6, <3>7, Zenon DEF TypeOK, CpuType, thread_dowait
  <2> QED BY <2>2, <2>3
<1>14. CASE thread_release(p)
  <2> DEFINE t == Current(p)
             x == target[t]
  <2>1. t \in Thread /\ x \in Thread
    BY <1>0, <1>14, Zenon DEF thread_release, Args, TypeOK, Current
  <2>2. UNCHANGED queueVars \/ thread_setrun(x)
    BY <1>14 DEF thread_release
  <2>3. /\ runq' \subseteq Thread
        /\ pstate' \in [Processor -> {"RUNNING", "IDLE", "DISPATCHING"}]
        /\ next_thread' \in [Processor -> Thread \cup {Null}]
        /\ idle_queue' \subseteq Processor
        /\ idle_count' \in Int
    BY <1>0, <2>1, <2>2, SetrunType, Zenon DEF TypeOK, queueVars
  <2>4. state' \in [Thread -> SUBSET Flags]
    BY <1>0, <1>14, <2>1 DEF TypeOK, thread_release, Flags
  <2>5. suspend_count' \in [Thread -> Int]
    BY <1>0, <1>14, <2>1 DEF TypeOK, thread_release
  <2>6. call' \in [Thread -> Calls] /\ target' \in [Thread -> Thread \cup {Null}]
    BY <1>0, <1>14, <2>1 DEF TypeOK, thread_release, Enter, Calls
  <2> QED BY <1>0, <1>14, <2>3, <2>4, <2>5, <2>6, Zenon DEF TypeOK, thread_release, cpuVars
<1>15. ASSUME NEW x \in Thread, thread_halt(p, x)
       PROVE  TypeOK'
  <2>1. Current(p) \in Thread
    BY <1>0, <1>15 DEF thread_halt, Stopper, TypeOK, Current
  <2>2. PICK c \in {"stopped", "halt", "halting"} : Enter(Current(p), c, x)
    BY <1>15 DEF thread_halt
  <2>3. call' \in [Thread -> Calls] /\ target' \in [Thread -> Thread \cup {Null}]
    BY <1>0, <2>1, <2>2 DEF TypeOK, Enter, Calls
  <2>4. suspend_count' \in [Thread -> Int]
    BY <1>0, <1>15 DEF TypeOK, thread_halt
  <2>5. CASE SleepUntilStopped(p, x, {"SUSP"}) /\ UNCHANGED ast_halt
    <3>1. SleepTypes'
      BY <1>0, <2>1, <2>5, SleepType, Zenon DEF Flags
    <3> QED BY <1>0, <1>15, <2>3, <2>4, <2>5, <3>1 DEF TypeOK, SleepTypes, CpuType, thread_halt, queueVars
  <2>6. CASE ~(SleepUntilStopped(p, x, {"SUSP"}) /\ UNCHANGED ast_halt)
    <3>1. /\ UNCHANGED <<wait_event, wake_active, swap_func, pc, arg, event>>
          /\ \/ UNCHANGED <<state, ast_halt>>
             \/ /\ state' = [state EXCEPT ![x] = @ \cup {"SUSP"}]
                /\ ast_halt' = [ast_halt EXCEPT ![x] = TRUE]
      BY <1>15, <2>6 DEF thread_halt
    <3>2. state' \in [Thread -> SUBSET Flags]
      BY <1>0, <3>1 DEF TypeOK, Flags
    <3>3. ast_halt' \in [Thread -> BOOLEAN]
      BY <1>0, <3>1, Zenon DEF TypeOK
    <3> QED BY <1>0, <1>15, <2>3, <2>4, <3>1, <3>2, <3>3, Zenon DEF TypeOK, thread_halt, queueVars
  <2> QED BY <2>5, <2>6
<1>16. CASE thread_halt_retry(p)
  <2> DEFINE t == Current(p)
             x == target[t]
  <2>1. t \in Thread /\ x \in Thread
    BY <1>0, <1>16 DEF thread_halt_retry, Args, TypeOK, Current
  <2>2. call' \in [Thread -> Calls] /\ target' \in [Thread -> Thread \cup {Null}]
    BY <1>0, <1>16, <2>1, Zenon DEF TypeOK, thread_halt_retry, Enter, Calls, callVars
  <2>3. CASE SleepUntilStopped(p, x, {})
    <3>1. SleepTypes'
      BY <1>0, <2>1, <2>3, SleepType, Zenon
    <3> QED BY <1>0, <1>16, <2>2, <3>1 DEF TypeOK, SleepTypes, CpuType, thread_halt_retry, queueVars
  <2>4. CASE ~SleepUntilStopped(p, x, {})
    BY <1>0, <1>16, <2>2, <2>4, Zenon DEF TypeOK, thread_halt_retry, queueVars
  <2> QED BY <2>3, <2>4
<1>17. CASE thread_halt_clear(p)
  <2> DEFINE t == Current(p)
             x == target[t]
  <2>1. t \in Thread /\ x \in Thread
    BY <1>0, <1>17, ZenonT(30) DEF thread_halt_clear, Args, TypeOK, Current
  <2>2. CpuType'
    BY <1>0, <1>17, <2>1, GotoType, Zenon DEF thread_halt_clear, TypeOK, CpuType
  <2>3. call' \in [Thread -> Calls] /\ target' \in [Thread -> Thread \cup {Null}]
    BY <1>0, <1>17, <2>1, Zenon DEF TypeOK, thread_halt_clear, Enter, Calls
  <2>4. state' \in [Thread -> SUBSET Flags]
    BY <1>0, <1>17, <2>1, SMTT(30) DEF TypeOK, thread_halt_clear
  <2> QED BY <1>0, <1>17, <2>2, <2>3, <2>4, Zenon DEF TypeOK, CpuType, thread_halt_clear, queueVars
<1>18. CASE thread_halt_check(p)
  <2> DEFINE t == Current(p)
             x == target[t]
  <2>1. t \in Thread /\ x \in Thread
    BY <1>0, <1>18, Zenon DEF thread_halt_check, Args, TypeOK, Current
  <2>2. UNCHANGED queueVars \/ thread_setrun(x)
    BY <1>18, Zenon DEF thread_halt_check
  <2>3. /\ runq' \subseteq Thread
        /\ pstate' \in [Processor -> {"RUNNING", "IDLE", "DISPATCHING"}]
        /\ next_thread' \in [Processor -> Thread \cup {Null}]
        /\ idle_queue' \subseteq Processor
        /\ idle_count' \in Int
    BY <1>0, <2>1, <2>2, SetrunType, ZenonT(30) DEF TypeOK, queueVars
  <2>4. PICK c \in {"stopped", "halting"} : Enter(t, c, x)
    BY <1>18 DEF thread_halt_check
  <2>5. call' \in [Thread -> Calls] /\ target' \in [Thread -> Thread \cup {Null}]
    BY <1>0, <2>1, <2>4, Zenon DEF TypeOK, Enter, Calls
  <2>6. /\ \/ UNCHANGED state
           \/ state' = [state EXCEPT ![x] = @ \cup {"HALTED"}]
           \/ state' = [state EXCEPT ![x] = @ \cup {"RUN", "UNINT"}]
        /\ UNCHANGED ast_halt \/ ast_halt' = [ast_halt EXCEPT ![x] = FALSE]
    BY <1>18 DEF thread_halt_check
  <2>7. state' \in [Thread -> SUBSET Flags]
    <3>1. /\ state \in [Thread -> SUBSET Flags] /\ x \in Thread
          /\ "HALTED" \in Flags /\ "RUN" \in Flags /\ "UNINT" \in Flags
      BY <1>0, <2>1 DEF TypeOK, Flags
    <3> QED BY <2>6, <3>1
  <2>8. ast_halt' \in [Thread -> BOOLEAN]
    BY <1>0, <2>1, <2>6, Zenon DEF TypeOK
  <2> QED BY <1>0, <1>18, <2>3, <2>5, <2>7, <2>8, Zenon DEF TypeOK, thread_halt_check, cpuVars
<1>19. CASE thread_halt_self(p)
  <2>1. Current(p) \in Thread
    BY <1>0, <1>19 DEF thread_halt_self, TypeOK, Current
  <2>2. CpuType'
    BY <1>0, <1>19, GotoType, Zenon DEF thread_halt_self
  <2>3. state' \in [Thread -> SUBSET Flags] /\ ast_halt' \in [Thread -> BOOLEAN]
        /\ swap_func' \in [Thread -> BOOLEAN]
    BY <1>0, <1>19, <2>1, Zenon DEF TypeOK, thread_halt_self, Flags
  <2> QED BY <1>0, <1>19, <2>2, <2>3, ZenonT(30) DEF TypeOK, CpuType, thread_halt_self, queueVars, callVars
<1> QED
  BY <1>1, <1>2, <1>3, <1>4, <1>5, <1>6, <1>7, <1>8, <1>9, <1>10, <1>11, <1>12, <1>13, <1>14,
     <1>15, <1>16, <1>17, <1>18, <1>19 DEF step

LEMMA SwapinType ==
    ASSUME Base, NEW t \in Thread, thread_doswapin(t)
    PROVE  TypeOK'
<1>1. UNCHANGED queueVars \/ thread_setrun(t)
  BY DEF thread_doswapin
<1>2. /\ runq' \subseteq Thread
      /\ pstate' \in [Processor -> {"RUNNING", "IDLE", "DISPATCHING"}]
      /\ next_thread' \in [Processor -> Thread \cup {Null}]
      /\ idle_queue' \subseteq Processor
      /\ idle_count' \in Int
  BY <1>1, SetrunType DEF Base, TypeOK, queueVars
<1> QED BY <1>2 DEF Base, TypeOK, thread_doswapin, cpuVars, callVars
-----------------------------------------------------------------------------
LEMMA GotoArgs ==
    ASSUME TypeOK, Args, NEW p \in Processor, NEW s, NEW t, NEW e, Goto(p, s, t, e),
           s \in {"invoke", "dispatch", "clear"} => t \in Thread
    PROVE  \A q \in Processor : pc'[q] \in {"invoke", "dispatch", "clear"} => arg'[q] \in Thread
  BY DEF TypeOK, Args, Goto

LEMMA EnterArgs ==
    ASSUME TypeOK, Args, NEW t \in Thread, NEW c, NEW x, Enter(t, c, x),
           c \notin {"none", "asserted"} => x \in Thread
    PROVE  \A u \in Thread : call'[u] \notin {"none", "asserted"} => target'[u] \in Thread
  BY ZenonT(30) DEF TypeOK, Args, Enter

LEMMA StepArgs ==
    ASSUME Base, NEW p \in Processor, step(p)
    PROVE  Args'
<1> USE Distinct
<1>0. TypeOK /\ Args /\ Queues
  BY DEF Base
<1> DEFINE A == \A q \in Processor : pc'[q] \in {"invoke", "dispatch", "clear"} => arg'[q] \in Thread
           B == \A u \in Thread : call'[u] \notin {"none", "asserted"} => target'[u] \in Thread
<1> SUFFICES A /\ B
  BY DEF Args
<1>r. ASSUME Return(p) PROVE A
  BY <1>0, <1>r, GotoArgs DEF Return
<1>s. ASSUME NEW x, NEW susp, SleepUntilStopped(p, x, susp) PROVE A
  BY <1>0, <1>s, GotoArgs DEF SleepUntilStopped
<1>c. ASSUME UNCHANGED callVars PROVE B
  BY <1>0, <1>c DEF Args, callVars
<1>u. ASSUME UNCHANGED <<pc, arg>> PROVE A
  BY <1>0, <1>u DEF Args
<1>1. ASSUME NEW e \in Event \cup {Null}, NEW interruptible \in BOOLEAN,
             assert_wait(p, e, interruptible)
      PROVE  A /\ B
  <2>1. A
    BY <1>1, <1>u DEF assert_wait, cpuVars
  <2>2. B
    BY <1>0, <1>1 DEF assert_wait, Args, TypeOK
  <2> QED BY <2>1, <2>2
<1>2. ASSUME NEW e \in Event \cup Thread, NEW one_thread \in BOOLEAN,
             thread_wakeup_prim(p, e, one_thread)
      PROVE  A /\ B
  <2>1. Return(p) \/ Goto(p, "wakeup", Null, e)
    BY <1>2 DEF thread_wakeup_prim
  <2>2. A
    BY <1>0, <2>1, <1>r, GotoArgs
  <2> QED BY <1>2, <2>2, <1>c, Zenon DEF thread_wakeup_prim
<1>3. CASE thread_wakeup_none(p)
  BY <1>3, <1>r, <1>c DEF thread_wakeup_none
<1>4. ASSUME NEW t \in Thread, NEW interrupt_only \in BOOLEAN, clear_wait(p, t, interrupt_only)
      PROVE  A /\ B
  <2>1. Goto(p, "clear", t, wait_event[t]) \/ UNCHANGED <<pc, arg>>
    BY <1>4 DEF clear_wait
  <2>2. A
    BY <1>0, <2>1, <1>u, GotoArgs
  <2> QED BY <1>4, <2>2, <1>c, Zenon DEF clear_wait
<1>5. CASE clear_wait_locked(p)
  BY <1>5, <1>r, <1>c DEF clear_wait_locked
<1>6. ASSUME NEW with_continuation \in BOOLEAN, thread_block(p, with_continuation)
      PROVE  A /\ B
  <2>1. A
    BY <1>0, <1>6, GotoArgs, Zenon DEF thread_block
  <2>2. B
    BY <1>0, <1>6 DEF thread_block, Args, TypeOK
  <2> QED BY <2>1, <2>2, ZenonT(30)
<1>7. CASE thread_select(p)
  <2>1. (\E new \in runq : Goto(p, "invoke", new, Null)) \/ Return(p) \/ Goto(p, "idle", Null, Null)
    BY <1>7, ZenonT(30) DEF thread_select
  <2>2. A
    BY <1>0, <2>1, <1>r, GotoArgs, Zenon DEF TypeOK
  <2> QED BY <1>7, <2>2, <1>c, Zenon DEF thread_select
<1>8. CASE choose_idle(p)
  <2>1. Return(p) \/ (Current(p) # Idle /\ Goto(p, "dispatch", Current(p), Null))
    BY <1>8, ZenonT(30) DEF choose_idle
  <2>2. A
    BY <1>0, <2>1, <1>r, GotoArgs, Zenon DEF TypeOK, Current
  <2> QED BY <1>8, <2>2, <1>c DEF choose_idle
<1>9. CASE idle_thread_continue(p)
  <2>1. \/ pstate[p] = "DISPATCHING" /\ Goto(p, "invoke", next_thread[p], Null)
        \/ Goto(p, "select", Null, Null)
    BY <1>9, ZenonT(30) DEF idle_thread_continue
  <2>2. A
    BY <1>0, <2>1, GotoArgs, Zenon DEF TypeOK, Queues, IdleExact
  <2> QED BY <1>9, <2>2, <1>c DEF idle_thread_continue
<1>10. CASE thread_invoke(p)
  <2>1. \/ Return(p) \/ Goto(p, "select", Null, Null)
        \/ Current(p) # Idle /\ Goto(p, "dispatch", Current(p), Null)
    BY <1>10, ZenonT(30) DEF thread_invoke
  <2>2. A
    BY <1>0, <2>1, <1>r, GotoArgs, Zenon DEF TypeOK, Current
  <2> QED BY <1>10, <2>2, <1>c, Zenon DEF thread_invoke
<1>11. CASE thread_dispatch(p)
  <2>1. Return(p) \/ Goto(p, "wake", Null, TH_EV_WAKE_ACTIVE(arg[p]))
    BY <1>11, Zenon DEF thread_dispatch
  <2>2. A
    BY <1>0, <2>1, <1>r, GotoArgs, Zenon
  <2> QED BY <1>11, <2>2, <1>c, Zenon DEF thread_dispatch
<1>e. ASSUME Current(p) # Idle PROVE Current(p) \in Thread
  BY <1>0, <1>e, Zenon DEF TypeOK, Current
<1>12. ASSUME NEW x \in Thread, thread_hold(p, x)
       PROVE  A /\ B
  <2>1. Enter(Current(p), "dowait", x) /\ Current(p) \in Thread
    BY <1>12, <1>e DEF thread_hold, Stopper
  <2>2. B
    BY <1>0, <2>1, EnterArgs
  <2> QED BY <1>12, <2>2, <1>u DEF thread_hold, cpuVars
<1>t. ASSUME Current(p) # Idle, call[Current(p)] \notin {"none", "asserted"}
      PROVE  target[Current(p)] \in Thread
  BY <1>0, <1>e, <1>t DEF Args
<1>13. CASE thread_dowait(p)
  <2> DEFINE t == Current(p)
             x == target[t]
  <2>1. t \in Thread /\ x \in Thread
    BY <1>13, <1>e, <1>t, Zenon DEF thread_dowait
  <2>2. SleepUntilStopped(p, x, {}) \/ UNCHANGED <<pc, arg>> \/ Goto(p, "wake", Null, TH_EV_WAKE_ACTIVE(x))
    BY <1>13, Zenon DEF thread_dowait
  <2>3. A
    BY <1>0, <2>2, <1>s, <1>u, GotoArgs, Zenon
  <2>4. UNCHANGED callVars \/ \E c \in Calls : Enter(t, c, x)
    BY <1>13, Zenon DEF thread_dowait, Calls
  <2>5. B
    BY <1>0, <2>1, <2>4, <1>c, EnterArgs, Zenon
  <2> QED BY <2>3, <2>5, ZenonT(30)
<1>14. CASE thread_release(p)
  <2>1. Enter(Current(p), "none", Null) /\ Current(p) \in Thread
    BY <1>14, <1>e, ZenonT(30) DEF thread_release
  <2>2. B
    BY <1>0, <2>1, EnterArgs, ZenonT(30)
  <2> QED BY <1>14, <2>2, <1>u, Zenon DEF thread_release, cpuVars
<1>15. ASSUME NEW x \in Thread, thread_halt(p, x)
       PROVE  A /\ B
  <2>1. Current(p) \in Thread /\ \E c \in Calls : Enter(Current(p), c, x)
    BY <1>15, <1>e, Zenon DEF thread_halt, Stopper, Calls
  <2>2. B
    BY <1>0, <2>1, EnterArgs
  <2>3. SleepUntilStopped(p, x, {"SUSP"}) \/ UNCHANGED <<pc, arg>>
    BY <1>15, Zenon DEF thread_halt
  <2> QED BY <2>2, <2>3, <1>s, <1>u, Zenon
<1>16. CASE thread_halt_retry(p)
  <2> DEFINE t == Current(p)
             x == target[t]
  <2>1. t \in Thread /\ x \in Thread
    BY <1>16, <1>e, <1>t, Zenon DEF thread_halt_retry
  <2>2. SleepUntilStopped(p, x, {}) \/ UNCHANGED <<pc, arg>>
    BY <1>16, Zenon DEF thread_halt_retry
  <2>3. UNCHANGED callVars \/ Enter(t, "stopped", x)
    BY <1>16, Zenon DEF thread_halt_retry
  <2>4. B
    BY <1>0, <2>1, <2>3, <1>c, EnterArgs, Zenon
  <2> QED BY <2>2, <2>4, <1>s, <1>u, Zenon
<1>17. CASE thread_halt_clear(p)
  <2> DEFINE t == Current(p)
             x == target[t]
  <2>1. t \in Thread /\ x \in Thread
    BY <1>17, <1>e, <1>t, Zenon DEF thread_halt_clear
  <2>2. Goto(p, "clear", x, wait_event[x]) \/ UNCHANGED <<pc, arg>>
    BY <1>17, Zenon DEF thread_halt_clear
  <2>3. A
    BY <1>0, <2>1, <2>2, <1>u, GotoArgs, Zenon
  <2>4. Enter(t, "halted", x)
    BY <1>17, Zenon DEF thread_halt_clear
  <2> QED BY <1>0, <2>1, <2>3, <2>4, EnterArgs, ZenonT(30)
<1>18. CASE thread_halt_check(p)
  <2> DEFINE t == Current(p)
             x == target[t]
  <2>1. t \in Thread /\ x \in Thread
    BY <1>18, <1>e, <1>t, Zenon DEF thread_halt_check
  <2>2. \E c \in Calls : Enter(t, c, x)
    BY <1>18, Zenon DEF thread_halt_check, Calls
  <2>3. B
    BY <1>0, <2>1, <2>2, EnterArgs, Zenon
  <2> QED BY <1>18, <2>3, <1>u, Zenon DEF thread_halt_check, cpuVars
<1>19. CASE thread_halt_self(p)
  <2>1. A
    BY <1>0, <1>19, GotoArgs DEF thread_halt_self
  <2> QED BY <1>19, <2>1, <1>c, Zenon DEF thread_halt_self
<1> QED
  BY <1>1, <1>2, <1>3, <1>4, <1>5, <1>6, <1>7, <1>8, <1>9, <1>10, <1>11, <1>12, <1>13, <1>14,
     <1>15, <1>16, <1>17, <1>18, <1>19, Zenon DEF step
-----------------------------------------------------------------------------
\* Only processors that are running are in the scheduler or run a thread.
Calm == \A q \in Processor : Busy(q)' => pstate[q] = "RUNNING"

LEMMA CalmUnchanged ==
    ASSUME Queues, UNCHANGED <<pc, active_thread>>
    PROVE  Calm
  BY DEF Queues, Busy, Calm

LEMMA CalmGoto ==
    ASSUME TypeOK, Queues, NEW p \in Processor, NEW s, NEW t, NEW e, Goto(p, s, t, e),
           UNCHANGED active_thread,
           s \in {"select", "idle", "invoke"} => pstate[p] = "RUNNING"
    PROVE  Calm
  BY DEF TypeOK, Queues, Busy, Calm, Goto

IdleVars == <<pstate, next_thread, idle_queue, idle_count>>

LEMMA QueuesKept ==
    ASSUME TypeOK, Queues, Calm, NEW t \in Thread, thread_setrun(t) \/ UNCHANGED IdleVars
    PROVE  Queues'
<1> USE Distinct
<1>1. CASE UNCHANGED IdleVars
  BY <1>1, Zenon DEF Queues, IdleExact, IdleVars, Calm
<1>2. CASE thread_setrun(t) /\ ~UNCHANGED IdleVars
  <2>1. PICK q \in idle_queue :
             /\ idle_queue' = idle_queue \ {q}
             /\ next_thread' = [next_thread EXCEPT ![q] = t]
             /\ pstate' = [pstate EXCEPT ![q] = "DISPATCHING"]
             /\ idle_count' = idle_count - 1
    BY <1>2 DEF thread_setrun, IdleVars
  <2>2. q \in Processor /\ pstate[q] = "IDLE"
    BY DEF Queues, IdleExact
  <2>3. IsFiniteSet(idle_queue)
    BY FS_Subset DEF TypeOK
  <2>4. Cardinality(idle_queue \ {q}) = Cardinality(idle_queue) - 1
    BY <2>3, FS_RemoveElement, Zenon
  <2>5. idle_count' = Cardinality(idle_queue')
    BY <2>1, <2>4 DEF Queues, IdleExact
  <2>6. idle_queue' = {p \in Processor : pstate'[p] = "IDLE"}
    BY <2>1, <2>2 DEF Queues, IdleExact, TypeOK
  <2>7. \A p \in Processor : (next_thread'[p] # Null) <=> (pstate'[p] = "DISPATCHING")
    BY <2>1, <2>2, Zenon DEF Queues, IdleExact, TypeOK
  <2>8. \A p \in Processor : Busy(p)' => pstate'[p] = "RUNNING"
    BY <2>1, <2>2 DEF Calm, TypeOK
  <2> QED BY <2>5, <2>6, <2>7, <2>8 DEF Queues, IdleExact
<1> QED BY <1>1, <1>2, Zenon

LEMMA EndWaitQueues ==
    ASSUME NEW t \in Thread, EndWait(t)
    PROVE  thread_setrun(t) \/ UNCHANGED IdleVars
  BY DEF EndWait, queueVars, IdleVars

LEMMA StepQueues ==
    ASSUME Base, NEW p \in Processor, step(p)
    PROVE  Queues'
<1> USE Distinct
<1>0. TypeOK /\ Args /\ Queues
  BY DEF Base
<1>k. ASSUME Calm, UNCHANGED IdleVars PROVE Queues'
  BY <1>0, <1>k, ZenonT(30) DEF Queues, IdleExact, IdleVars, Calm
<1>m. ASSUME Calm, UNCHANGED queueVars PROVE Queues'
  BY <1>k, <1>m DEF queueVars, IdleVars
<1>r. ASSUME Return(p), UNCHANGED active_thread PROVE Calm
  BY <1>0, <1>r, CalmGoto DEF Return
<1>b. ASSUME Current(p) # Idle PROVE Current(p) \in Thread /\ pstate[p] = "RUNNING"
  BY <1>0, <1>b DEF Queues, Busy, Current, TypeOK
<1>s. ASSUME NEW x, NEW susp, SleepUntilStopped(p, x, susp), UNCHANGED active_thread, Current(p) # Idle
      PROVE  Calm
  BY <1>0, <1>s, <1>b, CalmGoto DEF SleepUntilStopped
<1>u. ASSUME UNCHANGED cpuVars PROVE Calm
  BY <1>0, <1>u, CalmUnchanged DEF cpuVars
<1>1. ASSUME NEW e \in Event \cup {Null}, NEW interruptible \in BOOLEAN,
             assert_wait(p, e, interruptible)
      PROVE  Queues'
  BY <1>1, <1>u, <1>m, ZenonT(30) DEF assert_wait
<1>2. ASSUME NEW e \in Event \cup Thread, NEW one_thread \in BOOLEAN,
             thread_wakeup_prim(p, e, one_thread)
      PROVE  Queues'
  <2>1. /\ Return(p) \/ Goto(p, "wakeup", Null, e)
        /\ UNCHANGED active_thread
        /\ \E t \in Waiters(e) : EndWait(t)
    BY <1>2 DEF thread_wakeup_prim
  <2>2. Calm
    BY <1>0, <2>1, <1>r, CalmGoto
  <2> QED BY <1>0, <2>1, <2>2, EndWaitQueues, QueuesKept, Zenon DEF Waiters
<1>3. CASE thread_wakeup_none(p)
  BY <1>3, <1>r, <1>m DEF thread_wakeup_none
<1>4. ASSUME NEW t \in Thread, NEW interrupt_only \in BOOLEAN, clear_wait(p, t, interrupt_only)
      PROVE  Queues'
  <2>1. /\ Goto(p, "clear", t, wait_event[t]) \/ UNCHANGED pc
        /\ UNCHANGED active_thread
        /\ EndWait(t) \/ UNCHANGED queueVars
    BY <1>4, Zenon DEF clear_wait
  <2>2. Calm
    BY <1>0, <2>1, CalmUnchanged, CalmGoto, Zenon
  <2> QED BY <1>0, <2>1, <2>2, <1>m, EndWaitQueues, QueuesKept, Zenon
<1>5. CASE clear_wait_locked(p)
  <2>1. Calm
    BY <1>5, <1>r, Zenon DEF clear_wait_locked
  <2>2. EndWait(arg[p]) \/ UNCHANGED queueVars
    BY <1>5 DEF clear_wait_locked
  <2>3. arg[p] \in Thread
    BY <1>0, <1>5 DEF Args, clear_wait_locked
  <2> QED BY <1>0, <2>1, <2>2, <2>3, <1>m, EndWaitQueues, QueuesKept, Zenon
<1>6. ASSUME NEW with_continuation \in BOOLEAN, thread_block(p, with_continuation)
      PROVE  Queues'
  <2>1. Calm
    BY <1>0, <1>6, <1>b, CalmGoto DEF thread_block
  <2> QED BY <1>6, <2>1, <1>m DEF thread_block
<1>7. CASE thread_select(p)
  <2>1. /\ \/ \E new \in runq : Goto(p, "invoke", new, Null)
           \/ Return(p) \/ Goto(p, "idle", Null, Null)
        /\ UNCHANGED active_thread /\ UNCHANGED IdleVars
    BY <1>7, Zenon DEF thread_select, IdleVars
  <2>2. pstate[p] = "RUNNING"
    BY <1>0, <1>7 DEF thread_select, Queues, Busy
  <2>3. Calm
    BY <1>0, <2>1, <2>2, <1>r, CalmGoto
  <2> QED BY <2>1, <2>3, <1>k, Zenon
<1>8. CASE choose_idle(p)
  <2>1. /\ pstate[p] = "RUNNING" /\ pstate' = [pstate EXCEPT ![p] = "IDLE"]
        /\ idle_queue' = idle_queue \cup {p} /\ idle_count' = idle_count + 1
        /\ active_thread' = [active_thread EXCEPT ![p] = Idle]
        /\ UNCHANGED next_thread
        /\ \E s \in {"run", "dispatch"} : pc' = [pc EXCEPT ![p] = s]
    BY <1>8, ZenonT(30) DEF choose_idle, Return, Goto
  <2>2. IsFiniteSet(idle_queue) /\ p \notin idle_queue
    BY <1>0, <2>1, FS_Subset DEF TypeOK, Queues, IdleExact
  <2>3. Cardinality(idle_queue \cup {p}) = Cardinality(idle_queue) + 1
    BY <2>2, FS_AddElement, Zenon
  <2>4. idle_count' = Cardinality(idle_queue')
    BY <1>0, <2>1, <2>3, Zenon DEF Queues, IdleExact
  <2>5. idle_queue' = {q \in Processor : pstate'[q] = "IDLE"}
    BY <1>0, <2>1 DEF Queues, IdleExact, TypeOK
  <2>6. \A q \in Processor : (next_thread'[q] # Null) <=> (pstate'[q] = "DISPATCHING")
    BY <1>0, <2>1, Zenon DEF Queues, IdleExact, TypeOK
  <2>7. \A q \in Processor : Busy(q)' => pstate'[q] = "RUNNING"
    BY <1>0, <2>1 DEF Queues, Busy, TypeOK
  <2> QED BY <2>4, <2>5, <2>6, <2>7 DEF Queues, IdleExact
<1>9. CASE idle_thread_continue(p)
  <2>1. /\ pstate' = [pstate EXCEPT ![p] = "RUNNING"]
        /\ UNCHANGED active_thread
        /\ \E s \in {"invoke", "select"} : pc' = [pc EXCEPT ![p] = s]
    BY <1>9 DEF idle_thread_continue, Goto
  <2>2. \A q \in Processor : Busy(q)' => pstate'[q] = "RUNNING"
    BY <1>0, <2>1, Zenon DEF Queues, Busy, TypeOK
  <2>3. CASE pstate[p] = "DISPATCHING"
    <3>1. next_thread' = [next_thread EXCEPT ![p] = Null] /\ UNCHANGED <<idle_queue, idle_count>>
      BY <1>9, <2>3, Zenon DEF idle_thread_continue
    <3>2. idle_queue' = {q \in Processor : pstate'[q] = "IDLE"}
      BY <1>0, <2>1, <2>3, <3>1, Zenon DEF Queues, IdleExact, TypeOK
    <3>3. \A q \in Processor : (next_thread'[q] # Null) <=> (pstate'[q] = "DISPATCHING")
      BY <1>0, <2>1, <2>3, <3>1, Zenon DEF Queues, IdleExact, TypeOK
    <3> QED BY <1>0, <2>2, <3>1, <3>2, <3>3 DEF Queues, IdleExact
  <2>4. CASE pstate[p] # "DISPATCHING"
    <3>1. /\ pstate[p] = "IDLE" /\ idle_queue' = idle_queue \ {p}
          /\ idle_count' = idle_count - 1 /\ UNCHANGED next_thread
      BY <1>9, <2>4, Zenon DEF idle_thread_continue
    <3>2. IsFiniteSet(idle_queue) /\ p \in idle_queue
      BY <1>0, <3>1, FS_Subset DEF TypeOK, Queues, IdleExact
    <3>3. Cardinality(idle_queue \ {p}) = Cardinality(idle_queue) - 1
      BY <3>2, FS_RemoveElement, Zenon
    <3>4. idle_count' = Cardinality(idle_queue')
      BY <1>0, <3>1, <3>3, Zenon DEF Queues, IdleExact
    <3>5. idle_queue' = {q \in Processor : pstate'[q] = "IDLE"}
      BY <1>0, <2>1, <3>1, Zenon DEF Queues, IdleExact, TypeOK
    <3>6. \A q \in Processor : (next_thread'[q] # Null) <=> (pstate'[q] = "DISPATCHING")
      BY <1>0, <2>1, <3>1 DEF Queues, IdleExact, TypeOK
    <3> QED BY <2>2, <3>4, <3>5, <3>6, Zenon DEF Queues, IdleExact
  <2> QED BY <2>3, <2>4
<1>10. CASE thread_invoke(p)
  <2>1. /\ UNCHANGED active_thread \/ active_thread' = [active_thread EXCEPT ![p] = arg[p]]
        /\ \E s \in {"run", "dispatch", "select"} : pc' = [pc EXCEPT ![p] = s]
        /\ UNCHANGED queueVars
    BY <1>10, Zenon DEF thread_invoke, Return, Goto
  <2>2. pstate[p] = "RUNNING"
    BY <1>0, <1>10, Zenon DEF thread_invoke, Queues, Busy
  <2>3. Calm
    BY <1>0, <2>1, <2>2, ZenonT(30) DEF Queues, Busy, Calm, TypeOK
  <2> QED BY <2>1, <2>3, <1>m, Zenon
<1>11. CASE thread_dispatch(p)
  <2>1. /\ Return(p) \/ Goto(p, "wake", Null, TH_EV_WAKE_ACTIVE(arg[p]))
        /\ UNCHANGED active_thread
        /\ thread_setrun(arg[p]) \/ UNCHANGED queueVars
    BY <1>11, Zenon DEF thread_dispatch
  <2>2. Calm
    BY <1>0, <2>1, <1>r, CalmGoto, Zenon
  <2>3. arg[p] \in Thread
    BY <1>0, <1>11 DEF Args, thread_dispatch
  <2> QED BY <1>0, <2>1, <2>2, <2>3, <1>m, QueuesKept, Zenon
<1>12. ASSUME NEW x \in Thread, thread_hold(p, x)
       PROVE  Queues'
  BY <1>12, <1>u, <1>m, Zenon DEF thread_hold
<1>t. ASSUME Current(p) # Idle, call[Current(p)] \notin {"none", "asserted"}
      PROVE  target[Current(p)] \in Thread
  BY <1>0, <1>b, <1>t DEF Args
<1>13. CASE thread_dowait(p)
  <2>1. /\ \/ SleepUntilStopped(p, target[Current(p)], {})
           \/ UNCHANGED pc
           \/ Goto(p, "wake", Null, TH_EV_WAKE_ACTIVE(target[Current(p)]))
        /\ UNCHANGED active_thread /\ UNCHANGED IdleVars /\ Current(p) # Idle
    BY <1>13, Zenon DEF thread_dowait, IdleVars
  <2>2. Calm
    BY <1>0, <2>1, <1>s, CalmUnchanged, CalmGoto, Zenon
  <2> QED BY <2>1, <2>2, <1>k, ZenonT(30)
<1>14. CASE thread_release(p)
  <2>1. /\ UNCHANGED queueVars \/ thread_setrun(target[Current(p)])
        /\ Calm
    BY <1>14, <1>u, Zenon DEF thread_release
  <2>2. target[Current(p)] \in Thread
    BY <1>14, <1>t, Zenon DEF thread_release
  <2> QED BY <1>0, <2>1, <2>2, <1>m, QueuesKept, ZenonT(30)
<1>15. ASSUME NEW x \in Thread, thread_halt(p, x)
       PROVE  Queues'
  <2>1. /\ SleepUntilStopped(p, x, {"SUSP"}) \/ UNCHANGED pc
        /\ UNCHANGED active_thread /\ UNCHANGED queueVars /\ Current(p) # Idle
    BY <1>15 DEF thread_halt, Stopper
  <2>2. Calm
    BY <1>0, <2>1, <1>s, CalmUnchanged
  <2> QED BY <2>1, <2>2, <1>m, Zenon
<1>16. CASE thread_halt_retry(p)
  <2>1. /\ SleepUntilStopped(p, target[Current(p)], {}) \/ UNCHANGED pc
        /\ UNCHANGED active_thread /\ UNCHANGED queueVars /\ Current(p) # Idle
    BY <1>16, Zenon DEF thread_halt_retry
  <2>2. Calm
    BY <1>0, <2>1, <1>s, CalmUnchanged, Zenon
  <2> QED BY <2>1, <2>2, <1>m, Zenon
<1>17. CASE thread_halt_clear(p)
  <2>1. /\ Goto(p, "clear", target[Current(p)], wait_event[target[Current(p)]]) \/ UNCHANGED pc
        /\ UNCHANGED active_thread /\ UNCHANGED queueVars
    BY <1>17, Zenon DEF thread_halt_clear
  <2>2. Calm
    BY <1>0, <2>1, CalmUnchanged, CalmGoto, ZenonT(30)
  <2> QED BY <2>1, <2>2, <1>m, ZenonT(30)
<1>18. CASE thread_halt_check(p)
  <2>1. /\ UNCHANGED queueVars \/ thread_setrun(target[Current(p)])
        /\ Calm
    BY <1>18, <1>u, Zenon DEF thread_halt_check
  <2>2. target[Current(p)] \in Thread
    BY <1>18, <1>t, Zenon DEF thread_halt_check
  <2> QED BY <1>0, <2>1, <2>2, <1>m, QueuesKept
<1>19. CASE thread_halt_self(p)
  <2>1. Calm
    BY <1>0, <1>19, <1>b, CalmGoto, Zenon DEF thread_halt_self
  <2> QED BY <1>19, <2>1, <1>m, Zenon DEF thread_halt_self
<1> QED
  BY <1>1, <1>2, <1>3, <1>4, <1>5, <1>6, <1>7, <1>8, <1>9, <1>10, <1>11, <1>12, <1>13, <1>14,
     <1>15, <1>16, <1>17, <1>18, <1>19, ZenonT(30) DEF step
-----------------------------------------------------------------------------
\* Where the threads are: A, X and N give the active thread of a processor, the
\* one in transit there and the one it was given; Q and S are the queues, R the
\* threads marked TH_RUN.
Apart(A, X, N, Q, S) ==
    /\ \A p, q \in Processor :
          /\ A[p] \in Thread => /\ A[p] # X[q] /\ A[p] # N[q] /\ A[p] \notin Q /\ A[p] \notin S
                                /\ A[p] = A[q] => p = q
          /\ X[p] \in Thread => /\ X[p] # N[q] /\ X[p] \notin Q /\ X[p] \notin S
                                /\ X[p] = X[q] => p = q
          /\ N[p] \in Thread => /\ N[p] \notin Q /\ N[p] \notin S
                                /\ N[p] = N[q] => p = q
    /\ \A t \in Thread : ~(t \in Q /\ t \in S)
Covered(A, X, N, Q, S, R) ==
    \A t \in Thread :
        t \in R <=> \/ t \in Q \/ t \in S
                   \/ \E p \in Processor : A[p] = t \/ X[p] = t \/ N[p] = t
Placed(A, X, N, Q, S, R) == Apart(A, X, N, Q, S) /\ Covered(A, X, N, Q, S, R)

LEMMA DropQ ==
    ASSUME NEW A, NEW X, NEW N, NEW Q, NEW S, NEW R, Placed(A, X, N, Q, S, R), NEW t \in Q
    PROVE  Placed(A, X, N, Q \ {t}, S, R \ {t})
<1>1. Apart(A, X, N, Q \ {t}, S)
  BY ZenonT(30) DEF Placed, Apart, Covered
<1>2. Covered(A, X, N, Q \ {t}, S, R \ {t})
  BY SMTT(30) DEF Placed, Apart, Covered
<1> QED BY <1>1, <1>2, Zenon DEF Placed

LEMMA DropS ==
    ASSUME NEW A, NEW X, NEW N, NEW Q, NEW S, NEW R, Placed(A, X, N, Q, S, R), NEW t \in S
    PROVE  Placed(A, X, N, Q, S \ {t}, R \ {t})
<1>1. Apart(A, X, N, Q, S \ {t})
  BY ZenonT(30) DEF Placed, Apart, Covered
<1>2. Covered(A, X, N, Q, S \ {t}, R \ {t})
  BY SMTT(30) DEF Placed, Apart, Covered
<1> QED BY <1>1, <1>2, Zenon DEF Placed

LEMMA DropX ==
    ASSUME NEW D, NEW A, NEW X \in [Processor -> D], NEW N, NEW Q, NEW S, NEW R,
           Placed(A, X, N, Q, S, R), NEW p \in Processor, NEW o, o \notin Thread
    PROVE  Placed(A, [X EXCEPT ![p] = o], N, Q, S, R \ {X[p]})
<1>1. Apart(A, [X EXCEPT ![p] = o], N, Q, S)
  BY ZenonT(30) DEF Placed, Apart, Covered
<1>2. Covered(A, [X EXCEPT ![p] = o], N, Q, S, R \ {X[p]})
  BY SMTT(30) DEF Placed, Apart, Covered
<1> QED BY <1>1, <1>2, Zenon DEF Placed

LEMMA DropN ==
    ASSUME NEW D, NEW A, NEW X, NEW N \in [Processor -> D], NEW Q, NEW S, NEW R,
           Placed(A, X, N, Q, S, R), NEW p \in Processor, NEW o, o \notin Thread
    PROVE  Placed(A, X, [N EXCEPT ![p] = o], Q, S, R \ {N[p]})
<1>1. Apart(A, X, [N EXCEPT ![p] = o], Q, S)
  BY ZenonT(30) DEF Placed, Apart, Covered
<1>2. Covered(A, X, [N EXCEPT ![p] = o], Q, S, R \ {N[p]})
  BY SMTT(30) DEF Placed, Apart, Covered
<1> QED BY <1>1, <1>2, Zenon DEF Placed

LEMMA DropA ==
    ASSUME NEW D, NEW A \in [Processor -> D], NEW X, NEW N, NEW Q, NEW S, NEW R,
           Placed(A, X, N, Q, S, R), NEW p \in Processor, NEW o, o \notin Thread
    PROVE  Placed([A EXCEPT ![p] = o], X, N, Q, S, R \ {A[p]})
<1>1. Apart([A EXCEPT ![p] = o], X, N, Q, S)
  BY ZenonT(30) DEF Placed, Apart, Covered
<1>2. Covered([A EXCEPT ![p] = o], X, N, Q, S, R \ {A[p]})
  BY SMTT(30) DEF Placed, Apart, Covered
<1> QED BY <1>1, <1>2, Zenon DEF Placed

LEMMA PutQ ==
    ASSUME NEW A, NEW X, NEW N, NEW Q, NEW S, NEW R, Placed(A, X, N, Q, S, R), NEW t \in Thread, t \notin R
    PROVE  Placed(A, X, N, Q \cup {t}, S, R \cup {t})
<1>1. Apart(A, X, N, Q \cup {t}, S)
  BY ZenonT(30) DEF Placed, Apart, Covered
<1>2. Covered(A, X, N, Q \cup {t}, S, R \cup {t})
  BY ZenonT(30) DEF Placed, Covered
<1> QED BY <1>1, <1>2, Zenon DEF Placed

LEMMA PutS ==
    ASSUME NEW A, NEW X, NEW N, NEW Q, NEW S, NEW R, Placed(A, X, N, Q, S, R), NEW t \in Thread, t \notin R
    PROVE  Placed(A, X, N, Q, S \cup {t}, R \cup {t})
<1>1. Apart(A, X, N, Q, S \cup {t})
  BY ZenonT(30) DEF Placed, Apart, Covered
<1>2. Covered(A, X, N, Q, S \cup {t}, R \cup {t})
  BY ZenonT(30) DEF Placed, Covered
<1> QED BY <1>1, <1>2, Zenon DEF Placed

LEMMA PutX ==
    ASSUME NEW D, NEW A, NEW X \in [Processor -> D], NEW N, NEW Q, NEW S, NEW R,
           Placed(A, X, N, Q, S, R), NEW p \in Processor, X[p] \notin Thread,
           NEW t \in Thread, t \notin R
    PROVE  Placed(A, [X EXCEPT ![p] = t], N, Q, S, R \cup {t})
<1>1. Apart(A, [X EXCEPT ![p] = t], N, Q, S)
  BY ZenonT(30) DEF Placed, Apart, Covered
<1>2. Covered(A, [X EXCEPT ![p] = t], N, Q, S, R \cup {t})
  BY ZenonT(30) DEF Placed, Covered
<1> QED BY <1>1, <1>2, Zenon DEF Placed

LEMMA PutN ==
    ASSUME NEW D, NEW A, NEW X, NEW N \in [Processor -> D], NEW Q, NEW S, NEW R,
           Placed(A, X, N, Q, S, R), NEW p \in Processor, N[p] \notin Thread,
           NEW t \in Thread, t \notin R
    PROVE  Placed(A, X, [N EXCEPT ![p] = t], Q, S, R \cup {t})
<1>1. Apart(A, X, [N EXCEPT ![p] = t], Q, S)
  BY ZenonT(30) DEF Placed, Apart, Covered
<1>2. Covered(A, X, [N EXCEPT ![p] = t], Q, S, R \cup {t})
  BY ZenonT(30) DEF Placed, Covered
<1> QED BY <1>1, <1>2, Zenon DEF Placed

LEMMA PutA ==
    ASSUME NEW D, NEW A \in [Processor -> D], NEW X, NEW N, NEW Q, NEW S, NEW R,
           Placed(A, X, N, Q, S, R), NEW p \in Processor, A[p] \notin Thread,
           NEW t \in Thread, t \notin R
    PROVE  Placed([A EXCEPT ![p] = t], X, N, Q, S, R \cup {t})
<1>1. Apart([A EXCEPT ![p] = t], X, N, Q, S)
  BY ZenonT(30) DEF Placed, Apart, Covered
<1>2. Covered([A EXCEPT ![p] = t], X, N, Q, S, R \cup {t})
  BY ZenonT(30) DEF Placed, Covered
<1> QED BY <1>1, <1>2, Zenon DEF Placed

\* The thread in transit on each processor, and the threads marked TH_RUN.
Transit == [p \in Processor |-> IF pc[p] \in {"invoke", "dispatch"} THEN arg[p] ELSE Null]
Runs == {t \in Thread : "RUN" \in state[t]}
PlaceInv == Placed(active_thread, Transit, next_thread, runq, swapin_queue, Runs)

\* A thread that waits for a stack is on the swapin queue.
SwapInv == \A t \in Thread : "COMING_IN" \in state[t] => t \in swapin_queue

LEMMA SetrunPlaced ==
    ASSUME TypeOK, Queues, NEW A, NEW X, NEW S, NEW R, NEW t \in Thread, t \notin R,
           Placed(A, X, next_thread, runq, S, R), thread_setrun(t)
    PROVE  Placed(A, X, next_thread', runq', S, R \cup {t})
<1>1. CASE idle_count = 0
  <2>1. runq' = runq \cup {t} /\ next_thread' = next_thread
    BY <1>1 DEF thread_setrun
  <2> QED BY <2>1, PutQ
<1>2. CASE idle_count # 0
  <2>1. PICK q \in idle_queue : runq' = runq /\ next_thread' = [next_thread EXCEPT ![q] = t]
    BY <1>2 DEF thread_setrun
  <2>2. q \in Processor /\ next_thread[q] = Null
    BY Zenon DEF Queues, IdleExact
  <2>3. next_thread \in [Processor -> Thread \cup {Null}] /\ Null \notin Thread
    BY Distinct DEF TypeOK
  <2> QED BY <2>1, <2>2, <2>3, PutN, Zenon
<1> QED BY <1>1, <1>2

LEMMA TransitGoto ==
    ASSUME TypeOK, NEW p \in Processor, NEW s, NEW t, NEW e, Goto(p, s, t, e)
    PROVE  Transit' = [Transit EXCEPT ![p] = IF s \in {"invoke", "dispatch"} THEN t ELSE Null]
  BY Zenon DEF TypeOK, Transit, Goto

LEMMA TransitSame ==
    ASSUME TypeOK, NEW p \in Processor, NEW s, NEW t, NEW e,
           Goto(p, s, t, e) \/ UNCHANGED <<pc, arg>>,
           pc[p] \notin {"invoke", "dispatch"}, s \notin {"invoke", "dispatch"}
    PROVE  Transit' = Transit
  BY DEF TypeOK, Transit, Goto

LEMMA PlacedRuns ==
    ASSUME PlaceInv, NEW p \in Processor, active_thread[p] \in Thread
    PROVE  "RUN" \in state[active_thread[p]]
  BY Zenon DEF PlaceInv, Placed, Apart, Covered, Runs

PlaceVars == <<active_thread, next_thread, runq, swapin_queue>>

LEMMA PlaceSame ==
    ASSUME PlaceInv, UNCHANGED PlaceVars, Transit' = Transit, Runs' = Runs
    PROVE  PlaceInv'
  BY DEF PlaceInv, PlaceVars, Placed, Apart, Covered

LEMMA PlaceSetrun ==
    ASSUME TypeOK, Queues, PlaceInv, NEW t \in Thread, t \notin Runs, thread_setrun(t),
           Transit' = Transit, Runs' = Runs \cup {t}, UNCHANGED <<active_thread, swapin_queue>>
    PROVE  PlaceInv'
<1>1. Placed(active_thread, Transit, next_thread', runq', swapin_queue, Runs \cup {t})
  BY SetrunPlaced DEF PlaceInv
<1> QED BY <1>1 DEF PlaceInv

LEMMA EndWaitPlaced ==
    ASSUME TypeOK, Queues, PlaceInv, NEW t \in Thread, EndWait(t),
           Transit' = Transit, UNCHANGED <<active_thread, swapin_queue>>
    PROVE  PlaceInv'
<1>1. CASE Sleeping(t)
  <2>1. thread_setrun(t) /\ state' = [state EXCEPT ![t] = (state[t] \ {"WAIT"}) \cup {"RUN"}]
    BY <1>1 DEF EndWait
  <2>2. t \notin Runs
    BY <1>1 DEF Sleeping, Runs
  <2>3. Runs' = Runs \cup {t}
    BY <2>1 DEF TypeOK, Runs
  <2> QED BY <2>1, <2>2, <2>3, PlaceSetrun
<1>2. CASE ~Sleeping(t)
  <2>1. UNCHANGED queueVars /\ state' = [state EXCEPT ![t] = state[t] \ {"WAIT"}]
    BY <1>2 DEF EndWait
  <2>2. Runs' = Runs
    BY <2>1, Zenon DEF TypeOK, Runs
  <2> QED BY <2>1, <2>2, PlaceSame DEF PlaceVars, queueVars
<1> QED BY <1>1, <1>2

LEMMA InitPlace == Init => PlaceInv
  BY Distinct DEF Init, PlaceInv, Placed, Apart, Covered, Transit, Runs

LEMMA SwapinPlace ==
    ASSUME TypeOK, Queues, PlaceInv, NEW t \in Thread, thread_doswapin(t)
    PROVE  PlaceInv'
<1>1. t \in swapin_queue /\ swapin_queue' = swapin_queue \ {t} /\ UNCHANGED active_thread
  BY Zenon DEF thread_doswapin, cpuVars
<1>2. "RUN" \in state[t] /\ thread_setrun(t)
  BY <1>1, Zenon DEF PlaceInv, Placed, Apart, Covered, Runs, thread_doswapin
<1>3. Transit' = Transit
  BY Zenon DEF thread_doswapin, cpuVars, Transit
<1>4. Runs' = (Runs \ {t}) \cup {t}
  BY <1>2 DEF thread_doswapin, TypeOK, Runs, TH_SWAP_STATE
<1>5. Placed(active_thread, Transit, next_thread, runq, swapin_queue \ {t}, Runs \ {t})
  BY <1>1, DropS, Zenon DEF PlaceInv
<1>6. Placed(active_thread, Transit, next_thread', runq', swapin_queue \ {t}, (Runs \ {t}) \cup {t})
  BY <1>2, <1>5, SetrunPlaced, Zenon
<1> QED BY <1>1, <1>3, <1>4, <1>6 DEF PlaceInv

LEMMA StepPlace ==
    ASSUME Base, PlaceInv, SwapInv, NEW p \in Processor, step(p)
    PROVE  PlaceInv'
<1> USE Distinct
<1>0. TypeOK /\ Args /\ Queues
  BY Zenon DEF Base
<1>f. /\ Transit \in [Processor -> Thread \cup {Idle, Null}]
      /\ active_thread \in [Processor -> Thread \cup {Idle}]
      /\ next_thread \in [Processor -> Thread \cup {Null}]
      /\ Null \notin Thread /\ Idle \notin Thread
  BY <1>0, Zenon DEF TypeOK, Transit
<1>st. state \in [Thread -> SUBSET Flags]
  BY <1>0 DEF TypeOK
<1>b. ASSUME Current(p) # Idle PROVE Current(p) \in Thread
  BY <1>0, <1>b, Zenon DEF Current, TypeOK
<1>t. ASSUME Current(p) # Idle, call[Current(p)] \notin {"none", "asserted"}
      PROVE  target[Current(p)] \in Thread
  BY <1>0, <1>b, <1>t, Zenon DEF Args
<1>u. ASSUME UNCHANGED cpuVars PROVE Transit' = Transit /\ UNCHANGED active_thread
  BY <1>u DEF cpuVars, Transit
<1>r. ASSUME Return(p), pc[p] \notin {"invoke", "dispatch"} PROVE Transit' = Transit
  BY <1>0, <1>r, TransitSame DEF Return
<1>s. ASSUME Running(p), Goto(p, "select", Null, Null) PROVE Transit' = Transit
  BY <1>0, <1>s, TransitSame DEF Running
<1>v. ASSUME Running(p), NEW s \in {"wake", "clear"}, NEW t, NEW e,
             Goto(p, s, t, e) \/ UNCHANGED <<pc, arg>>
      PROVE  Transit' = Transit
  <2>1. pc[p] \notin {"invoke", "dispatch"} /\ s \notin {"invoke", "dispatch"}
    BY <1>v DEF Running
  <2> QED BY <1>0, <1>v, <2>1, TransitSame, Zenon
<1>w. ASSUME NEW x \in Thread, NEW susp \in {{}, {"SUSP"}}, SleepUntilStopped(p, x, susp),
             Running(p), Current(p) # Idle
      PROVE  Transit' = Transit /\ Runs' = Runs
  <2>1. Transit' = Transit
    BY <1>w, <1>s DEF SleepUntilStopped
  <2>2. state' = [state EXCEPT ![Current(p)] = @ \cup {"WAIT"}, ![x] = @ \cup susp]
    BY <1>w DEF SleepUntilStopped
  <2>3. Runs' = Runs
    BY <1>st, <1>b, <1>w, <2>2 DEF Runs
  <2> QED BY <2>1, <2>3
<1>m. ASSUME UNCHANGED <<queueVars, swapin_queue, active_thread>>, Transit' = Transit, Runs' = Runs
      PROVE  PlaceInv'
  BY <1>m, PlaceSame, Zenon DEF PlaceVars, queueVars
<1>1. ASSUME NEW e \in Event \cup {Null}, NEW interruptible \in BOOLEAN,
             assert_wait(p, e, interruptible)
      PROVE  PlaceInv'
  <2>1. Runs' = Runs
    BY <1>0, <1>1, <1>b, ZenonT(30) DEF assert_wait, AssertWait, TypeOK, Runs
  <2> QED BY <1>1, <2>1, <1>u, <1>m, Zenon DEF assert_wait
<1>2. ASSUME NEW e \in Event \cup Thread, NEW one_thread \in BOOLEAN,
             thread_wakeup_prim(p, e, one_thread)
      PROVE  PlaceInv'
  <2>1. /\ Return(p) \/ Goto(p, "wakeup", Null, e)
        /\ UNCHANGED <<active_thread, swapin_queue>>
        /\ pc[p] \notin {"invoke", "dispatch"}
        /\ \E t \in Waiters(e) : EndWait(t)
    BY <1>2, Zenon DEF thread_wakeup_prim, Running
  <2>2. Transit' = Transit
    BY <1>0, <2>1, <1>r, TransitSame
  <2> QED BY <1>0, <2>1, <2>2, EndWaitPlaced, Zenon DEF Waiters
<1>3. CASE thread_wakeup_none(p)
  <2>1. Transit' = Transit
    BY <1>3, <1>r, Zenon DEF thread_wakeup_none
  <2>2. Runs' = Runs
    BY <1>3, Zenon DEF thread_wakeup_none, threadVars, Runs
  <2> QED BY <1>3, <2>1, <2>2, <1>m, Zenon DEF thread_wakeup_none
<1>4. ASSUME NEW t \in Thread, NEW interrupt_only \in BOOLEAN, clear_wait(p, t, interrupt_only)
      PROVE  PlaceInv'
  <2>1. /\ Goto(p, "clear", t, wait_event[t]) \/ UNCHANGED <<pc, arg>>
        /\ pc[p] \notin {"invoke", "dispatch"}
        /\ UNCHANGED <<active_thread, swapin_queue>>
        /\ EndWait(t) \/ UNCHANGED <<threadVars, queueVars>>
    BY <1>4, Zenon DEF clear_wait, Running
  <2>2. Transit' = Transit
    BY <1>0, <2>1, TransitSame, SMTT(30)
  <2>3. UNCHANGED threadVars => Runs' = Runs
    BY Zenon DEF threadVars, Runs
  <2> QED BY <1>0, <2>1, <2>2, <2>3, <1>m, EndWaitPlaced, Zenon
<1>5. CASE clear_wait_locked(p)
  <2>1. Transit' = Transit
    BY <1>5, <1>r, ZenonT(30) DEF clear_wait_locked
  <2>2. /\ EndWait(arg[p]) \/ UNCHANGED <<threadVars, queueVars>>
        /\ UNCHANGED <<active_thread, swapin_queue>>
    BY <1>5, Zenon DEF clear_wait_locked
  <2>3. arg[p] \in Thread
    BY <1>0, <1>5, Zenon DEF Args, clear_wait_locked
  <2>4. UNCHANGED threadVars => Runs' = Runs
    BY Zenon DEF threadVars, Runs
  <2> QED BY <1>0, <2>1, <2>2, <2>3, <2>4, <1>m, EndWaitPlaced, ZenonT(30)
<1>6. ASSUME NEW with_continuation \in BOOLEAN, thread_block(p, with_continuation)
      PROVE  PlaceInv'
  <2>1. Transit' = Transit
    BY <1>6, <1>s, Zenon DEF thread_block
  <2>2. Runs' = Runs
    BY <1>6, ZenonT(30) DEF thread_block, Runs
  <2> QED BY <1>6, <2>1, <2>2, <1>m, Zenon DEF thread_block
<1>7. CASE thread_select(p)
  <2>0. Runs' = Runs /\ UNCHANGED <<active_thread, next_thread, swapin_queue>> /\ Transit[p] = Null
    BY <1>7, Zenon DEF thread_select, threadVars, Runs, Transit
  <2>1. CASE \E new \in runq : runq' = runq \ {new} /\ Goto(p, "invoke", new, Null)
    <3>1. PICK new \in runq : runq' = runq \ {new} /\ Goto(p, "invoke", new, Null)
      BY <2>1
    <3>2. new \in Thread /\ Transit' = [Transit EXCEPT ![p] = new]
      BY <1>0, <3>1, TransitGoto, Zenon DEF TypeOK
    <3>3. Placed(active_thread, Transit, next_thread, runq \ {new}, swapin_queue, Runs \ {new})
      BY DropQ DEF PlaceInv
    <3>4. Placed(active_thread, [Transit EXCEPT ![p] = new], next_thread, runq \ {new},
                 swapin_queue, (Runs \ {new}) \cup {new})
      BY <1>f, <2>0, <3>2, <3>3, PutX, Zenon
    <3>5. (Runs \ {new}) \cup {new} = Runs
      BY <3>2, Zenon DEF PlaceInv, Placed, Covered, Runs
    <3> QED BY <2>0, <3>1, <3>2, <3>4, <3>5, Zenon DEF PlaceInv
  <2>2. CASE UNCHANGED runq
    <3>1. \/ \E s \in {"run", "idle"} : Goto(p, s, Null, Null)
          \/ \E new \in runq : runq' = runq \ {new} /\ Goto(p, "invoke", new, Null)
      BY <1>7, Zenon DEF thread_select, Return
    <3>2. CASE \E s \in {"run", "idle"} : Goto(p, s, Null, Null)
      <4>1. pc[p] = "select"
        BY <1>7, Zenon DEF thread_select
      <4>2. Transit' = Transit
        BY <1>0, <3>2, <4>1, TransitSame, Zenon
      <4> QED BY <2>0, <2>2, <4>2, PlaceSame, Zenon DEF PlaceVars
    <3> QED BY <3>1, <3>2, <2>1
  <2> QED BY <1>7, <2>1, <2>2, Zenon DEF thread_select
<1>8. CASE choose_idle(p)
  <2>0. /\ Runs' = Runs /\ UNCHANGED <<runq, next_thread, swapin_queue>> /\ Transit[p] = Null
        /\ active_thread' = [active_thread EXCEPT ![p] = Idle]
    BY <1>8, Zenon DEF choose_idle, threadVars, Runs, Transit
  <2>1. CASE active_thread[p] = Idle
    <3>1. Transit' = Transit
      BY <1>8, <2>1, <1>r DEF choose_idle, Current
    <3>2. active_thread' = active_thread
      BY <1>f, <2>0, <2>1, Zenon
    <3> QED BY <2>0, <3>1, <3>2, PlaceSame, Zenon DEF PlaceVars
  <2>2. CASE active_thread[p] # Idle
    <3> DEFINE t == active_thread[p]
    <3>1. t \in Thread /\ Goto(p, "dispatch", t, Null)
      BY <1>8, <2>2, <1>f, Zenon DEF choose_idle, Current
    <3>2. Transit' = [Transit EXCEPT ![p] = t]
      BY <1>0, <3>1, TransitGoto
    <3>3. Placed(active_thread', Transit, next_thread, runq, swapin_queue, Runs \ {t})
      BY <1>f, <2>0, DropA, Zenon DEF PlaceInv
    <3>4. Placed(active_thread', Transit', next_thread, runq, swapin_queue, (Runs \ {t}) \cup {t})
      BY <1>f, <2>0, <3>1, <3>2, <3>3, PutX, Zenon
    <3>5. (Runs \ {t}) \cup {t} = Runs
      BY <3>1, ZenonT(30) DEF PlaceInv, Placed, Apart, Covered, Runs
    <3> QED BY <2>0, <3>4, <3>5, Zenon DEF PlaceInv
  <2> QED BY <2>1, <2>2, ZenonT(30)
<1>9. CASE idle_thread_continue(p)
  <2>0. Runs' = Runs /\ UNCHANGED <<runq, active_thread, swapin_queue>> /\ Transit[p] = Null
    BY <1>9, Zenon DEF idle_thread_continue, threadVars, Runs, Transit, Running
  <2>1. CASE pstate[p] = "DISPATCHING"
    <3> DEFINE t == next_thread[p]
    <3>1. Goto(p, "invoke", t, Null) /\ next_thread' = [next_thread EXCEPT ![p] = Null]
      BY <1>9, <2>1, Zenon DEF idle_thread_continue
    <3>2. t \in Thread
      BY <1>0, <2>1, <1>f, Zenon DEF Queues, IdleExact
    <3>3. Transit' = [Transit EXCEPT ![p] = t]
      BY <1>0, <3>1, TransitGoto
    <3>4. Placed(active_thread, Transit, next_thread', runq, swapin_queue, Runs \ {t})
      BY <1>f, <3>1, DropN, Zenon DEF PlaceInv
    <3>5. Placed(active_thread, Transit', next_thread', runq, swapin_queue, (Runs \ {t}) \cup {t})
      BY <1>f, <2>0, <3>2, <3>3, <3>4, PutX, ZenonT(30)
    <3>6. (Runs \ {t}) \cup {t} = Runs
      BY <3>2, Zenon DEF PlaceInv, Placed, Covered, Runs
    <3> QED BY <2>0, <3>5, <3>6, Zenon DEF PlaceInv
  <2>2. CASE pstate[p] # "DISPATCHING"
    <3>1. UNCHANGED next_thread /\ Running(p) /\ Goto(p, "select", Null, Null)
      BY <1>9, <2>2, ZenonT(30) DEF idle_thread_continue
    <3> QED BY <2>0, <3>1, <1>s, PlaceSame, Zenon DEF PlaceVars
  <2> QED BY <2>1, <2>2, ZenonT(30)
<1>10. CASE thread_invoke(p)
  <2> DEFINE new == arg[p]
             old == active_thread[p]
  <2>0. /\ new \in Thread /\ Transit[p] = new /\ "RUN" \in state[new] /\ new # old
        /\ UNCHANGED <<runq, next_thread>>
    BY <1>0, <1>10, ZenonT(30) DEF thread_invoke, Args, Transit, PlaceInv, Placed, Apart, Covered, Runs, queueVars
  <2>a. "COMING_IN" \notin state[new]
    <3>1. new \notin swapin_queue
      BY <2>0, Zenon DEF PlaceInv, Placed, Apart
    <3> QED BY <2>0, <3>1, Zenon DEF SwapInv
  <2>b. \/ /\ state' = [state EXCEPT ![new] = @ \ {"SWAPPED", "UNINT"}]
           /\ active_thread' = [active_thread EXCEPT ![p] = new]
           /\ UNCHANGED swapin_queue
           /\ IF old = Idle THEN Return(p) ELSE Goto(p, "dispatch", old, Null)
        \/ /\ state' = [state EXCEPT ![new] = (@ \ TH_SWAP_STATE) \cup {"COMING_IN"}]
           /\ UNCHANGED active_thread
           /\ swapin_queue' = swapin_queue \cup {new}
           /\ Goto(p, "select", Null, Null)
    BY <1>10, <2>a, ZenonT(30) DEF thread_invoke, thread_swapin, Current
  <2>1. Runs' = Runs
    <3>1. \/ state' = [state EXCEPT ![new] = @ \ {"SWAPPED", "UNINT"}]
          \/ state' = [state EXCEPT ![new] = (@ \ TH_SWAP_STATE) \cup {"COMING_IN"}]
      BY <2>b, Zenon
    <3> QED BY <1>st, <2>0, <3>1 DEF Runs, TH_SWAP_STATE
  <2>2. (Runs \ {new}) \cup {new} = Runs
    BY <2>0, Zenon DEF Runs
  <2>3. Placed(active_thread, [Transit EXCEPT ![p] = Null], next_thread, runq, swapin_queue,
               Runs \ {new})
    BY <1>f, <2>0, DropX, Zenon DEF PlaceInv
  <2>4. [Transit EXCEPT ![p] = Null] \in [Processor -> Thread \cup {Idle, Null}]
    BY <1>f, Zenon
  <2>5. CASE /\ active_thread' = [active_thread EXCEPT ![p] = new]
             /\ UNCHANGED swapin_queue
             /\ IF old = Idle THEN Return(p) ELSE Goto(p, "dispatch", old, Null)
    <3>1. CASE old = Idle
      <4>1. Transit' = [Transit EXCEPT ![p] = Null]
        BY <1>0, <2>5, <3>1, TransitGoto, ZenonT(30) DEF Return
      <4>2. Placed(active_thread', Transit', next_thread, runq, swapin_queue, (Runs \ {new}) \cup {new})
        BY <1>f, <2>0, <2>3, <2>5, <3>1, <4>1, PutA, Zenon
      <4> QED BY <2>0, <2>1, <2>2, <2>5, <4>2, Zenon DEF PlaceInv
    <3>2. CASE old # Idle
      <4>1. old \in Thread /\ "RUN" \in state[old]
        <5>1. old \in Thread
          BY <1>f, <3>2
        <5> HIDE DEF new
        <5> QED BY <5>1, PlacedRuns
      <4>2. Transit' = [[Transit EXCEPT ![p] = Null] EXCEPT ![p] = old]
        <5>1. Transit' = [Transit EXCEPT ![p] = old]
          BY <1>0, <2>5, <3>2, TransitGoto, Zenon
        <5> QED BY <1>f, <5>1
      <4>3. Placed([active_thread EXCEPT ![p] = Idle], [Transit EXCEPT ![p] = Null], next_thread,
                   runq, swapin_queue, (Runs \ {new}) \ {old})
        BY <1>f, <2>3, DropA, Zenon
      <4>4. Placed([active_thread EXCEPT ![p] = Idle], Transit', next_thread,
                   runq, swapin_queue, ((Runs \ {new}) \ {old}) \cup {old})
        BY <1>f, <2>4, <4>1, <4>2, <4>3, PutX, ZenonT(30)
      <4>5. active_thread' = [[active_thread EXCEPT ![p] = Idle] EXCEPT ![p] = new]
        BY <1>f, <2>5, Zenon
      <4>6. Placed(active_thread', Transit', next_thread, runq, swapin_queue,
                   (((Runs \ {new}) \ {old}) \cup {old}) \cup {new})
        <5>1. [active_thread EXCEPT ![p] = Idle] \in [Processor -> Thread \cup {Idle}]
          BY <1>f, Zenon
        <5>2. new \notin ((Runs \ {new}) \ {old}) \cup {old}
          BY <2>0
        <5>3. [active_thread EXCEPT ![p] = Idle][p] \notin Thread
          BY <1>f, Zenon
        <5> HIDE DEF new, old
        <5> QED BY <2>0, <4>4, <4>5, <5>1, <5>2, <5>3, PutA, Zenon
      <4>7. (((Runs \ {new}) \ {old}) \cup {old}) \cup {new} = Runs
        BY <2>0, <4>1, ZenonT(30) DEF Runs
      <4>8. Placed(active_thread', Transit', next_thread', runq', swapin_queue', Runs')
        BY <2>0, <2>1, <2>5, <4>6, <4>7, Zenon
      <4> QED BY <4>8, Zenon DEF PlaceInv
    <3> QED BY <3>1, <3>2, ZenonT(30)
  <2>6. CASE /\ UNCHANGED active_thread
             /\ swapin_queue' = swapin_queue \cup {new}
             /\ Goto(p, "select", Null, Null)
    <3>1. Transit' = [Transit EXCEPT ![p] = Null]
      BY <1>0, <2>6, TransitGoto, ZenonT(30)
    <3>2. Placed(active_thread, [Transit EXCEPT ![p] = Null], next_thread, runq,
                 swapin_queue \cup {new}, (Runs \ {new}) \cup {new})
      BY <2>0, <2>3, PutS, Zenon
    <3> QED BY <2>0, <2>1, <2>2, <2>6, <3>1, <3>2, Zenon DEF PlaceInv
  <2> QED BY <2>b, <2>5, <2>6, Zenon
<1>11. CASE thread_dispatch(p)
  <2> DEFINE t == arg[p]
             s == state[t] \cup (IF swap_func[t] THEN {"SWAPPED"} ELSE {})
  <2>0. /\ t \in Thread /\ Transit[p] = t /\ "RUN" \in state[t]
        /\ UNCHANGED <<active_thread, swapin_queue>>
    BY <1>0, <1>11, Zenon DEF thread_dispatch, Args, Transit, PlaceInv, Placed, Apart, Covered, Runs
  <2>1. Return(p) \/ Goto(p, "wake", Null, TH_EV_WAKE_ACTIVE(t))
    BY <1>11, Zenon DEF thread_dispatch
  <2>2. Transit' = [Transit EXCEPT ![p] = Null]
    BY <1>0, <2>1, TransitGoto, ZenonT(30) DEF Return
  <2>3. Placed(active_thread, Transit', next_thread, runq, swapin_queue, Runs \ {t})
    BY <1>f, <2>0, <2>2, DropX, Zenon DEF PlaceInv
  <2>4. CASE state' = [state EXCEPT ![t] = s] /\ thread_setrun(t)
    <3>1. Runs' = (Runs \ {t}) \cup {t}
      BY <1>st, <2>0, <2>4 DEF Runs
    <3>2. Placed(active_thread, Transit', next_thread', runq', swapin_queue, (Runs \ {t}) \cup {t})
      BY <1>0, <2>0, <2>3, <2>4, SetrunPlaced, Zenon
    <3> QED BY <2>0, <3>1, <3>2, Zenon DEF PlaceInv
  <2>5. CASE state' = [state EXCEPT ![t] = s \ {"RUN"}] /\ UNCHANGED queueVars
    <3>1. Runs' = Runs \ {t}
      BY <1>st, <2>0, <2>5, Zenon DEF Runs
    <3> QED BY <2>0, <2>3, <2>5, <3>1, Zenon DEF PlaceInv, queueVars
  <2> QED BY <1>11, <2>4, <2>5, Zenon DEF thread_dispatch
<1>12. ASSUME NEW x \in Thread, thread_hold(p, x)
       PROVE  PlaceInv'
  <2>1. Runs' = Runs
    BY <1>0, <1>12, ZenonT(30) DEF thread_hold, TypeOK, Runs
  <2> QED BY <1>12, <2>1, <1>u, <1>m, Zenon DEF thread_hold
<1>13. CASE thread_dowait(p)
  <2> DEFINE x == target[Current(p)]
  <2>0. /\ x \in Thread /\ UNCHANGED <<active_thread, next_thread, swapin_queue>>
        /\ Running(p) /\ Current(p) # Idle
    BY <1>13, <1>t, Zenon DEF thread_dowait
  <2>1. CASE SleepUntilStopped(p, x, {}) /\ UNCHANGED runq
    BY <2>0, <2>1, <1>w, PlaceSame, Zenon DEF PlaceVars
  <2>2. CASE /\ UNCHANGED <<pc, arg>> \/ Goto(p, "wake", Null, TH_EV_WAKE_ACTIVE(x))
             /\ \/ UNCHANGED <<runq, state>>
                \/ x \in runq /\ runq' = runq \ {x} /\ state' = [state EXCEPT ![x] = @ \ {"RUN"}]
    <3>1. Transit' = Transit
      BY <2>0, <2>2, <1>v, Zenon
    <3>2. CASE UNCHANGED <<runq, state>>
      BY <2>0, <3>1, <3>2, PlaceSame, Zenon DEF PlaceVars, Runs
    <3>3. CASE x \in runq /\ runq' = runq \ {x} /\ state' = [state EXCEPT ![x] = @ \ {"RUN"}]
      <4>1. Runs' = Runs \ {x}
        BY <1>st, <2>0, <3>3, Zenon DEF Runs
      <4>2. Placed(active_thread, Transit, next_thread, runq \ {x}, swapin_queue, Runs \ {x})
        BY <3>3, DropQ, ZenonT(30) DEF PlaceInv
      <4>3. Placed(active_thread', Transit', next_thread', runq', swapin_queue', Runs')
        BY <2>0, <3>1, <3>3, <4>1, <4>2, Zenon
      <4> QED BY <4>3 DEF PlaceInv
    <3> QED BY <2>2, <3>2, <3>3, ZenonT(30)
  <2> QED BY <1>13, <2>1, <2>2, Zenon DEF thread_dowait
<1>14. CASE thread_release(p)
  <2> DEFINE x == target[Current(p)]
  <2>0. x \in Thread /\ Transit' = Transit /\ UNCHANGED <<active_thread, swapin_queue>>
    BY <1>14, <1>t, <1>u, Zenon DEF thread_release
  <2>1. \/ /\ UNCHANGED queueVars
           /\ \E s \in {state[x], state[x] \ {"SUSP", "HALTED"}} :
                 state' = [state EXCEPT ![x] = s \cup {}]
        \/ /\ thread_setrun(x) /\ "RUN" \notin state[x]
           /\ state' = [state EXCEPT ![x] = (state[x] \ {"SUSP", "HALTED"}) \cup {"RUN"}]
    BY <1>14, Zenon DEF thread_release
  <2>2. CASE /\ UNCHANGED queueVars
             /\ \E s \in {state[x], state[x] \ {"SUSP", "HALTED"}} :
                   state' = [state EXCEPT ![x] = s \cup {}]
    <3>1. Runs' = Runs
      BY <1>st, <2>0, <2>2 DEF Runs
    <3> QED BY <2>0, <2>2, <3>1, <1>m, Zenon
  <2>3. CASE /\ thread_setrun(x) /\ "RUN" \notin state[x]
             /\ state' = [state EXCEPT ![x] = (state[x] \ {"SUSP", "HALTED"}) \cup {"RUN"}]
    <3>1. x \notin Runs
      BY <2>3, Zenon DEF Runs
    <3>2. Runs' = Runs \cup {x}
      BY <1>st, <2>0, <2>3, Zenon DEF Runs
    <3> QED BY <1>0, <2>0, <2>3, <3>1, <3>2, PlaceSetrun, Zenon
  <2> QED BY <2>1, <2>2, <2>3, ZenonT(30)
<1>15. ASSUME NEW x \in Thread, thread_halt(p, x)
       PROVE  PlaceInv'
  <2>0. UNCHANGED <<queueVars, swapin_queue, active_thread>> /\ Running(p) /\ Current(p) # Idle
    BY <1>15 DEF thread_halt, Stopper
  <2>1. CASE SleepUntilStopped(p, x, {"SUSP"})
    BY <2>0, <2>1, <1>w, <1>m, Zenon
  <2>2. CASE UNCHANGED <<pc, arg>> /\ (UNCHANGED state \/ state' = [state EXCEPT ![x] = @ \cup {"SUSP"}])
    <3>1. Transit' = Transit
      BY <2>2, ZenonT(30) DEF Transit
    <3>2. Runs' = Runs
      BY <1>st, <2>2 DEF Runs
    <3> QED BY <2>0, <3>1, <3>2, <1>m, Zenon
  <2> QED BY <1>15, <2>1, <2>2, Zenon DEF thread_halt
<1>16. CASE thread_halt_retry(p)
  <2>0. /\ UNCHANGED <<queueVars, swapin_queue, active_thread>> /\ Running(p) /\ Current(p) # Idle
        /\ target[Current(p)] \in Thread
    BY <1>16, <1>t, Zenon DEF thread_halt_retry
  <2>1. CASE SleepUntilStopped(p, target[Current(p)], {})
    BY <2>0, <2>1, <1>w, <1>m, Zenon
  <2>2. CASE UNCHANGED <<pc, arg, state>>
    BY <2>0, <2>2, <1>m, Zenon DEF Transit, Runs
  <2> QED BY <1>16, <2>1, <2>2, Zenon DEF thread_halt_retry
<1>17. CASE thread_halt_clear(p)
  <2> DEFINE x == target[Current(p)]
  <2>0. /\ UNCHANGED <<queueVars, swapin_queue, active_thread>> /\ Running(p)
        /\ Goto(p, "clear", x, wait_event[x]) \/ UNCHANGED <<pc, arg>>
        /\ x \in Thread
    BY <1>17, <1>t, Zenon DEF thread_halt_clear
  <2>1. UNCHANGED state \/ \E s \in {state[x], state[x] \ {"WAIT"}} : state' = [state EXCEPT ![x] = s]
    BY <1>17, Zenon DEF thread_halt_clear
  <2>2. Runs' = Runs
    <3>1. CASE UNCHANGED state
      BY <3>1, Zenon DEF Runs
    <3>2. ASSUME NEW s \in {state[x], state[x] \ {"WAIT"}}, state' = [state EXCEPT ![x] = s]
          PROVE  Runs' = Runs
      BY <1>st, <2>0, <3>2, Zenon DEF Runs
    <3> QED BY <2>1, <3>1, <3>2, Zenon
  <2>3. Transit' = Transit
    BY <2>0, <1>v, Zenon
  <2> QED BY <2>0, <2>2, <2>3, <1>m, Zenon
<1>18. CASE thread_halt_check(p)
  <2> DEFINE x == target[Current(p)]
  <2>0. x \in Thread /\ Transit' = Transit /\ UNCHANGED <<active_thread, swapin_queue>>
    BY <1>18, <1>t, <1>u, Zenon DEF thread_halt_check
  <2>1. CASE /\ UNCHANGED queueVars
             /\ UNCHANGED state \/ state' = [state EXCEPT ![x] = @ \cup {"HALTED"}]
    <3>1. Runs' = Runs
      BY <1>st, <2>0, <2>1 DEF Runs
    <3> QED BY <2>0, <2>1, <3>1, <1>m, Zenon
  <2>2. CASE /\ state[x] \cap (TH_SCHED_STATE \cup {"HALTED"}) = {"SUSP"}
             /\ state' = [state EXCEPT ![x] = @ \cup {"RUN", "UNINT"}]
             /\ thread_setrun(x)
    <3>1. x \notin Runs
      BY <2>2, SMTT(30) DEF Runs, TH_SCHED_STATE
    <3>2. Runs' = Runs \cup {x}
      BY <1>st, <2>0, <2>2, Zenon DEF Runs
    <3> QED BY <1>0, <2>0, <2>2, <3>1, <3>2, PlaceSetrun, Zenon
  <2> QED BY <1>18, <2>1, <2>2, Zenon DEF thread_halt_check
<1>19. CASE thread_halt_self(p)
  <2>0. /\ UNCHANGED <<queueVars, swapin_queue, active_thread>> /\ Running(p)
        /\ Goto(p, "select", Null, Null) /\ Current(p) # Idle
        /\ state' = [state EXCEPT ![Current(p)] = @ \cup {"HALTED"}]
    BY <1>19, ZenonT(30) DEF thread_halt_self
  <2>1. Runs' = Runs
    BY <1>st, <1>b, <2>0 DEF Runs
  <2> QED BY <2>0, <2>1, <1>s, <1>m, Zenon
<1> QED
  BY <1>1, <1>2, <1>3, <1>4, <1>5, <1>6, <1>7, <1>8, <1>9, <1>10, <1>11, <1>12, <1>13, <1>14,
     <1>15, <1>16, <1>17, <1>18, <1>19, Zenon DEF step
=============================================================================
