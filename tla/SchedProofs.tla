---------------------------- MODULE SchedProofs ----------------------------
(***************************************************************************)
(* What Sched promises for any number of threads and processors.           *)
(***************************************************************************)
EXTENDS SchedInvariant

\* A thread on a wait queue is marked TH_WAIT, and one that is to run next is not.
Ready(t) ==
    \/ t \in runq \/ t \in swapin_queue
    \/ \E p \in Processor : next_thread[p] = t \/ (pc[p] = "invoke" /\ arg[p] = t)
WaitInv ==
    \A t \in Thread :
        /\ wait_event[t] # Null => "WAIT" \in state[t]
        /\ Ready(t) => "WAIT" \notin state[t]

LEMMA InitWait == Init => WaitInv
  BY Distinct DEF Init, WaitInv, Ready

LEMMA ReadySetrun ==
    ASSUME TypeOK, NEW t \in Thread, thread_setrun(t),
           \A p \in Processor : pc'[p] = "invoke" => pc[p] = "invoke" /\ arg'[p] = arg[p],
           UNCHANGED swapin_queue
    PROVE  \A u \in Thread : Ready(u)' => Ready(u) \/ u = t
  BY DEF TypeOK, Ready, thread_setrun

LEMMA ReadySame ==
    ASSUME \A p \in Processor : pc'[p] = "invoke" => pc[p] = "invoke" /\ arg'[p] = arg[p],
           UNCHANGED <<queueVars, swapin_queue>>
    PROVE  \A u \in Thread : Ready(u)' => Ready(u)
  BY DEF Ready, queueVars

LEMMA InvokeGoto ==
    ASSUME TypeOK, NEW p \in Processor, NEW s, NEW t, NEW e,
           Goto(p, s, t, e) \/ UNCHANGED <<pc, arg>>, s # "invoke"
    PROVE  \A q \in Processor : pc'[q] = "invoke" => pc[q] = "invoke" /\ arg'[q] = arg[q]
  BY DEF TypeOK, Goto

LEMMA InvokeReturn ==
    ASSUME TypeOK, NEW p \in Processor, Return(p)
    PROVE  \A q \in Processor : pc'[q] = "invoke" => pc[q] = "invoke" /\ arg'[q] = arg[q]
  BY InvokeGoto DEF Return

\* The thread that processor p runs is ready nowhere.
LEMMA CurrentNotReady ==
    ASSUME TypeOK, PlaceInv, NEW p \in Processor, Current(p) # Idle
    PROVE  Current(p) \in Thread /\ ~Ready(Current(p))
<1>1. Current(p) \in Thread
  BY DEF TypeOK, Current
<1>2. \A q \in Processor : pc[q] = "invoke" => Transit[q] = arg[q]
  BY DEF Transit
<1> QED BY <1>1, <1>2 DEF PlaceInv, Placed, Apart, Covered, Ready, Current

LEMMA EndWaitWait ==
    ASSUME TypeOK, WaitInv, NEW t \in Thread, EndWait(t), UNCHANGED swapin_queue,
           \A p \in Processor : pc'[p] = "invoke" => pc[p] = "invoke" /\ arg'[p] = arg[p]
    PROVE  WaitInv'
<1>1. \A u \in Thread : Ready(u)' => Ready(u) \/ u = t
  <2>1. CASE thread_setrun(t)
    BY <2>1, ReadySetrun
  <2>2. CASE UNCHANGED queueVars
    BY <2>2, ReadySame
  <2> QED BY <2>1, <2>2 DEF EndWait
<1>2. /\ wait_event' = [wait_event EXCEPT ![t] = Null]
      /\ \E s \in {state[t] \ {"WAIT"}, (state[t] \ {"WAIT"}) \cup {"RUN"}} :
            state' = [state EXCEPT ![t] = s]
  BY DEF EndWait
<1>3. "WAIT" \notin state'[t] /\ wait_event'[t] = Null
  BY <1>2 DEF TypeOK
<1>4. \A u \in Thread \ {t} : state'[u] = state[u] /\ wait_event'[u] = wait_event[u]
  BY <1>2 DEF TypeOK
<1> QED BY <1>1, <1>3, <1>4 DEF WaitInv

\* Steps that start nothing, and mark only the current thread as waiting.
LEMMA WaitKept ==
    ASSUME TypeOK, WaitInv, PlaceInv, NEW p \in Processor,
           \A u \in Thread : Ready(u)' => Ready(u),
           \A u \in Thread : wait_event'[u] # Null =>
                "WAIT" \in state'[u] \/ (wait_event[u] = wait_event'[u] /\ state'[u] = state[u]),
           \A u \in Thread : "WAIT" \in state'[u] => "WAIT" \in state[u] \/ u = Current(p)
    PROVE  WaitInv'
<1>1. \A u \in Thread : wait_event'[u] # Null => "WAIT" \in state'[u]
  BY DEF WaitInv
<1>2. \A u \in Thread : Ready(u)' => u # Current(p)
  BY CurrentNotReady, Distinct DEF TypeOK
<1> QED BY <1>1, <1>2 DEF WaitInv

LEMMA SwapinWait ==
    ASSUME TypeOK, WaitInv, PlaceInv, NEW t \in Thread, thread_doswapin(t)
    PROVE  WaitInv'
<1>1. \A u \in Thread : Ready(u)' => Ready(u) \/ u = t
  BY DEF thread_doswapin, Ready, thread_setrun, TypeOK, cpuVars, queueVars
<1>2. Ready(t) /\ state' = [state EXCEPT ![t] = @ \ TH_SWAP_STATE] /\ UNCHANGED wait_event
  BY DEF thread_doswapin, Ready
<1>3. \A u \in Thread : "WAIT" \in state'[u] <=> "WAIT" \in state[u]
  BY <1>2 DEF TypeOK, TH_SWAP_STATE
<1> QED BY <1>1, <1>2, <1>3, ZenonT(30) DEF WaitInv

LEMMA StepWait ==
    ASSUME Base, PlaceInv, WaitInv, NEW p \in Processor, step(p)
    PROVE  WaitInv'
<1> USE Distinct
<1>0. TypeOK /\ Args /\ Queues
  BY DEF Base
<1>b. ASSUME Current(p) # Idle PROVE Current(p) \in Thread
  BY <1>0, <1>b DEF Current, TypeOK
<1>t. ASSUME Current(p) # Idle, call[Current(p)] \notin {"none", "asserted"}
      PROVE  target[Current(p)] \in Thread
  BY <1>0, <1>b, <1>t DEF Args
<1>u. ASSUME UNCHANGED cpuVars
      PROVE  \A q \in Processor : pc'[q] = "invoke" => pc[q] = "invoke" /\ arg'[q] = arg[q]
  BY <1>u DEF cpuVars
<1>w. ASSUME NEW x \in Thread, NEW susp \in {{}, {"SUSP"}}, SleepUntilStopped(p, x, susp),
             Current(p) # Idle, \A u \in Thread : Ready(u)' => Ready(u)
      PROVE  WaitInv'
  <2>1. /\ state' = [state EXCEPT ![Current(p)] = @ \cup {"WAIT"}, ![x] = @ \cup susp]
        /\ wait_event' = [wait_event EXCEPT ![Current(p)] = x]
    BY <1>w DEF SleepUntilStopped, TH_EV_WAKE_ACTIVE
  <2>2. \A u \in Thread : "WAIT" \in state'[u] <=> "WAIT" \in state[u] \/ u = Current(p)
    BY <1>0, <1>b, <1>w, <2>1 DEF TypeOK
  <2>3. \A u \in Thread : wait_event'[u] # Null => "WAIT" \in state'[u]
    BY <1>0, <1>b, <1>w, <2>1, <2>2, Zenon DEF TypeOK, WaitInv
  <2> QED BY <1>0, <1>w, <2>2, <2>3, WaitKept
\* Steps that leave wait_event alone, and WAIT too but for threads not on a wait queue.
<1>k. ASSUME NEW x \in Thread, NEW s, state' = [state EXCEPT ![x] = s], UNCHANGED wait_event,
             "WAIT" \in s => "WAIT" \in state[x],
             "WAIT" \in state[x] => "WAIT" \in s \/ wait_event[x] = Null,
             \A u \in Thread : Ready(u)' => Ready(u) \/ (u = x /\ "WAIT" \notin s)
      PROVE  WaitInv'
  <2>1. \A u \in Thread : u # x => state'[u] = state[u]
    BY <1>0, <1>k DEF TypeOK
  <2>2. state'[x] = s
    BY <1>0, <1>k DEF TypeOK
  <2> QED BY <1>k, <2>1, <2>2 DEF WaitInv
<1>n. ASSUME UNCHANGED <<state, wait_event>>, \A u \in Thread : Ready(u)' => Ready(u)
      PROVE  WaitInv'
  BY <1>n DEF WaitInv
<1>1. ASSUME NEW e \in Event \cup {Null}, NEW interruptible \in BOOLEAN,
             assert_wait(p, e, interruptible)
      PROVE  WaitInv'
  <2>1. \A u \in Thread : Ready(u)' => Ready(u)
    BY <1>1, <1>u, ReadySame DEF assert_wait
  <2>2. /\ Current(p) # Idle
        /\ wait_event' = [wait_event EXCEPT ![Current(p)] = e]
        /\ \E s \in {{}, {"UNINT"}} :
              state' = [state EXCEPT ![Current(p)] = (state[Current(p)] \cup {"WAIT"}) \cup s]
    BY <1>1, Zenon DEF assert_wait, AssertWait
  <2>3. \A u \in Thread : "WAIT" \in state'[u] <=> "WAIT" \in state[u] \/ u = Current(p)
    BY <1>0, <1>b, <2>2 DEF TypeOK
  <2>4. \A u \in Thread : wait_event'[u] # Null => "WAIT" \in state'[u]
    BY <1>0, <1>b, <2>2, <2>3 DEF TypeOK, WaitInv
  <2> QED BY <1>0, <2>1, <2>3, <2>4, WaitKept
<1>2. ASSUME NEW e \in Event \cup Thread, NEW one_thread \in BOOLEAN,
             thread_wakeup_prim(p, e, one_thread)
      PROVE  WaitInv'
  <2>1. /\ Return(p) \/ Goto(p, "wakeup", Null, e)
        /\ UNCHANGED swapin_queue
        /\ \E t \in Waiters(e) : EndWait(t)
    BY <1>2 DEF thread_wakeup_prim
  <2>2. \A q \in Processor : pc'[q] = "invoke" => pc[q] = "invoke" /\ arg'[q] = arg[q]
    BY <1>0, <2>1, InvokeGoto, InvokeReturn
  <2> QED BY <1>0, <2>1, <2>2, EndWaitWait DEF Waiters
<1>3. CASE thread_wakeup_none(p)
  BY <1>0, <1>3, <1>n, InvokeReturn, ReadySame DEF thread_wakeup_none, threadVars
<1>4. ASSUME NEW t \in Thread, NEW interrupt_only \in BOOLEAN, clear_wait(p, t, interrupt_only)
      PROVE  WaitInv'
  <2>1. /\ Goto(p, "clear", t, wait_event[t]) \/ UNCHANGED <<pc, arg>>
        /\ UNCHANGED swapin_queue
        /\ EndWait(t) \/ UNCHANGED <<threadVars, queueVars>>
    BY <1>4 DEF clear_wait
  <2>2. \A q \in Processor : pc'[q] = "invoke" => pc[q] = "invoke" /\ arg'[q] = arg[q]
    BY <1>0, <2>1, InvokeGoto
  <2>3. UNCHANGED threadVars => UNCHANGED <<state, wait_event>>
    BY DEF threadVars
  <2> QED BY <1>0, <2>1, <2>2, <2>3, <1>n, ReadySame, EndWaitWait, Zenon
<1>5. CASE clear_wait_locked(p)
  <2>1. /\ UNCHANGED swapin_queue
        /\ EndWait(arg[p]) \/ UNCHANGED <<threadVars, queueVars>>
    BY <1>5 DEF clear_wait_locked
  <2>2. \A q \in Processor : pc'[q] = "invoke" => pc[q] = "invoke" /\ arg'[q] = arg[q]
    BY <1>0, <1>5, InvokeReturn DEF clear_wait_locked
  <2>3. arg[p] \in Thread
    BY <1>0, <1>5 DEF Args, clear_wait_locked
  <2>4. UNCHANGED threadVars => UNCHANGED <<state, wait_event>>
    BY DEF threadVars
  <2> QED BY <1>0, <2>1, <2>2, <2>3, <2>4, <1>n, ReadySame, EndWaitWait, Zenon
<1>6. ASSUME NEW with_continuation \in BOOLEAN, thread_block(p, with_continuation)
      PROVE  WaitInv'
  BY <1>0, <1>6, <1>n, InvokeGoto, ReadySame DEF thread_block
<1>7. CASE thread_select(p)
  <2>1. UNCHANGED <<state, wait_event, swapin_queue, next_thread>> /\ runq' \subseteq runq
    BY <1>7 DEF thread_select, threadVars
  <2>2. \/ \E new \in runq : Goto(p, "invoke", new, Null)
        \/ \E s \in {"run", "idle"} : Goto(p, s, Null, Null)
    BY <1>7 DEF thread_select, Return
  <2>3. \A u \in Thread : Ready(u)' => Ready(u)
    BY <1>0, <2>1, <2>2 DEF Ready, Goto, TypeOK
  <2> QED BY <2>1, <2>3, <1>n
<1>8. CASE choose_idle(p)
  <2>1. UNCHANGED <<state, wait_event, swapin_queue, next_thread, runq>>
    BY <1>8 DEF choose_idle, threadVars
  <2>2. \E s \in {"run", "dispatch"}, t \in {Current(p), Null} : Goto(p, s, t, Null)
    BY <1>8 DEF choose_idle, Return
  <2>3. \A u \in Thread : Ready(u)' => Ready(u)
    BY <1>0, <2>1, <2>2 DEF Ready, Goto, TypeOK
  <2> QED BY <2>1, <2>3, <1>n
<1>9. CASE idle_thread_continue(p)
  <2>1. UNCHANGED <<state, wait_event, swapin_queue, runq>>
    BY <1>9 DEF idle_thread_continue, threadVars
  <2>2. \/ Goto(p, "invoke", next_thread[p], Null) /\ next_thread' = [next_thread EXCEPT ![p] = Null]
        \/ Goto(p, "select", Null, Null) /\ UNCHANGED next_thread
    BY <1>9 DEF idle_thread_continue
  <2>3. \A u \in Thread : Ready(u)' => Ready(u)
    BY <1>0, <2>1, <2>2 DEF Ready, Goto, TypeOK
  <2> QED BY <2>1, <2>3, <1>n
<1>10. CASE thread_invoke(p)
  <2> DEFINE new == arg[p]
  <2>0. new \in Thread /\ pc[p] = "invoke" /\ UNCHANGED wait_event
    BY <1>0, <1>10, Zenon DEF thread_invoke, Args
  <2>1. \E s \in {state[new] \ {"SWAPPED", "UNINT"}, (state[new] \ TH_SWAP_STATE) \cup {"COMING_IN"},
                 state[new]} :
           state' = [state EXCEPT ![new] = s]
    BY <1>10 DEF thread_invoke, thread_swapin
  <2>2. \A u \in Thread : "WAIT" \in state'[u] <=> "WAIT" \in state[u]
    <3>1. state \in [Thread -> SUBSET Flags]
      BY <1>0, Zenon DEF TypeOK
    <3>2. PICK s : /\ state' = [state EXCEPT ![new] = s]
                   /\ "WAIT" \in s <=> "WAIT" \in state[new]
      BY <2>1, Zenon DEF TH_SWAP_STATE
    <3> QED BY <2>0, <3>1, <3>2
  <2>3. UNCHANGED <<runq, next_thread>> /\ swapin_queue' \in {swapin_queue, swapin_queue \cup {new}}
    BY <1>10 DEF thread_invoke, thread_swapin, queueVars
  <2>4. \E s \in {"run", "dispatch", "select"}, t \in {Null, Current(p)} : Goto(p, s, t, Null)
    BY <1>10 DEF thread_invoke, Return
  <2>5. \A u \in Thread : Ready(u)' => Ready(u)
    <3>1. DOMAIN pc = Processor /\ arg \in [Processor -> Thread \cup {Idle, Null}]
      BY <1>0, Zenon DEF TypeOK
    <3>2. \A q \in Processor : pc'[q] = "invoke" => pc[q] = "invoke" /\ arg'[q] = arg[q]
      BY <2>0, <2>4, <3>1 DEF Goto
    <3>3. new \in Thread => Ready(new)
      BY <2>0, Zenon DEF Ready
    <3> QED BY <2>0, <2>3, <3>2, <3>3, ZenonT(30) DEF Ready
  <2> QED BY <2>0, <2>2, <2>5, Zenon DEF WaitInv
<1>11. CASE thread_dispatch(p)
  <2> DEFINE t == arg[p]
             s == state[t] \cup (IF swap_func[t] THEN {"SWAPPED"} ELSE {})
  <2>0. t \in Thread /\ UNCHANGED <<swapin_queue, wait_event>>
    BY <1>0, <1>11 DEF thread_dispatch, Args
  <2>1. Return(p) \/ Goto(p, "wake", Null, TH_EV_WAKE_ACTIVE(t))
    BY <1>11 DEF thread_dispatch
  <2>2. \A q \in Processor : pc'[q] = "invoke" => pc[q] = "invoke" /\ arg'[q] = arg[q]
    BY <1>0, <2>1, InvokeGoto, InvokeReturn
  <2>3. CASE state' = [state EXCEPT ![t] = s] /\ thread_setrun(t) /\ s \ TH_SWAP_STATE \in Continuing
    <3>1. "WAIT" \notin s
      BY <2>3 DEF Continuing, TH_SWAP_STATE
    <3>2. \A u \in Thread : Ready(u)' => Ready(u) \/ u = t
      BY <1>0, <2>0, <2>2, <2>3, ReadySetrun
    <3>3. "WAIT" \notin state[t]
      BY <3>1
    <3> HIDE DEF s
    <3> QED BY <2>0, <2>3, <3>1, <3>2, <3>3, <1>k, Zenon
  <2>4. CASE state' = [state EXCEPT ![t] = s \ {"RUN"}] /\ UNCHANGED queueVars
    <3>1. \A u \in Thread : Ready(u)' => Ready(u)
      BY <1>0, <2>0, <2>2, <2>4, ReadySame
    <3>2. "WAIT" \in s \ {"RUN"} <=> "WAIT" \in state[t]
      OBVIOUS
    <3> HIDE DEF s
    <3> QED BY <2>0, <2>4, <3>1, <3>2, <1>k, Zenon
  <2> QED BY <1>11, <2>3, <2>4, Zenon DEF thread_dispatch
<1>12. ASSUME NEW x \in Thread, thread_hold(p, x)
       PROVE  WaitInv'
  <2>1. \A u \in Thread : Ready(u)' => Ready(u)
    BY <1>12, <1>u, ReadySame DEF thread_hold
  <2>2. state' = [state EXCEPT ![x] = state[x] \cup {"SUSP"}] /\ UNCHANGED wait_event
    BY <1>12, Zenon DEF thread_hold
  <2> QED BY <2>1, <2>2, <1>k, Zenon
<1>13. CASE thread_dowait(p)
  <2> DEFINE x == target[Current(p)]
  <2>0. /\ x \in Thread /\ UNCHANGED <<next_thread, swapin_queue>>
        /\ Current(p) # Idle
    BY <1>13, <1>t, Zenon DEF thread_dowait
  <2>1. CASE SleepUntilStopped(p, x, {}) /\ UNCHANGED runq
    <3>1. \A q \in Processor : pc'[q] = "invoke" => pc[q] = "invoke" /\ arg'[q] = arg[q]
      BY <1>0, <2>1, InvokeGoto, Zenon DEF SleepUntilStopped
    <3>2. \A u \in Thread : Ready(u)' => Ready(u)
      BY <2>0, <2>1, <3>1, Zenon DEF Ready
    <3> QED BY <2>0, <2>1, <3>2, <1>w, Zenon
  <2>2. CASE /\ UNCHANGED <<pc, arg>> \/ Goto(p, "wake", Null, TH_EV_WAKE_ACTIVE(x))
             /\ UNCHANGED wait_event
             /\ \/ UNCHANGED <<runq, state>>
                \/ runq' = runq \ {x} /\ state' = [state EXCEPT ![x] = state[x] \ {"RUN"}]
    <3>1. \A q \in Processor : pc'[q] = "invoke" => pc[q] = "invoke" /\ arg'[q] = arg[q]
      BY <1>0, <2>2, InvokeGoto, Zenon
    <3>2. \A u \in Thread : Ready(u)' => Ready(u)
      BY <2>0, <2>2, <3>1, Zenon DEF Ready
    <3> QED BY <2>0, <2>2, <3>2, <1>k, <1>n, Zenon
  <2> QED BY <1>13, <2>1, <2>2, Zenon DEF thread_dowait
<1>14. CASE thread_release(p)
  <2> DEFINE x == target[Current(p)]
  <2>0. x \in Thread /\ UNCHANGED <<swapin_queue, wait_event>>
    BY <1>14, <1>t, ZenonT(30) DEF thread_release
  <2>1. \/ /\ UNCHANGED queueVars
           /\ \E s \in {state[x], state[x] \ {"SUSP", "HALTED"}} :
                 state' = [state EXCEPT ![x] = s \cup {}]
        \/ /\ thread_setrun(x) /\ "WAIT" \notin state[x]
           /\ state' = [state EXCEPT ![x] = (state[x] \ {"SUSP", "HALTED"}) \cup {"RUN"}]
    BY <1>14, Zenon DEF thread_release
  <2>2. CASE /\ UNCHANGED queueVars
             /\ \E s \in {state[x], state[x] \ {"SUSP", "HALTED"}} :
                   state' = [state EXCEPT ![x] = s \cup {}]
    <3>1. \A u \in Thread : Ready(u)' => Ready(u)
      BY <1>14, <2>0, <2>2, <1>u, ReadySame, Zenon DEF thread_release
    <3>2. PICK s : s \in {state[x], state[x] \ {"SUSP", "HALTED"}} /\ state' = [state EXCEPT ![x] = s \cup {}]
      BY <2>2, Zenon
    <3> QED BY <2>0, <3>1, <3>2, <1>k, Zenon
  <2>3. CASE /\ thread_setrun(x) /\ "WAIT" \notin state[x]
             /\ state' = [state EXCEPT ![x] = (state[x] \ {"SUSP", "HALTED"}) \cup {"RUN"}]
    <3>1. \A u \in Thread : Ready(u)' => Ready(u) \/ u = x
      BY <1>0, <1>14, <2>0, <2>3, <1>u, ReadySetrun, Zenon DEF thread_release
    <3>2. \A u \in Thread : "WAIT" \in state'[u] <=> "WAIT" \in state[u]
      BY <1>0, <2>0, <2>3, Zenon DEF TypeOK
    <3> QED BY <2>0, <2>3, <3>1, <3>2, Zenon DEF WaitInv
  <2> QED BY <2>1, <2>2, <2>3, Zenon
<1>15. ASSUME NEW x \in Thread, thread_halt(p, x)
       PROVE  WaitInv'
  <2>0. Current(p) # Idle
    BY <1>15 DEF thread_halt, Stopper
  <2>1. Goto(p, "select", Null, Null) \/ UNCHANGED <<pc, arg>>
    BY <1>15, Zenon DEF thread_halt, SleepUntilStopped
  <2>2. \A u \in Thread : Ready(u)' => Ready(u)
    <3>1. \A q \in Processor : pc'[q] = "invoke" => pc[q] = "invoke" /\ arg'[q] = arg[q]
      BY <1>0, <2>1, InvokeGoto
    <3> QED BY <1>15, <3>1, ReadySame, Zenon DEF thread_halt
  <2>3. CASE SleepUntilStopped(p, x, {"SUSP"})
    BY <2>0, <2>2, <2>3, <1>w, Zenon
  <2>4. CASE /\ UNCHANGED wait_event
             /\ UNCHANGED state \/ state' = [state EXCEPT ![x] = state[x] \cup {"SUSP"}]
    BY <2>2, <2>4, <1>k, <1>n, Zenon
  <2> QED BY <1>15, <2>3, <2>4, Zenon DEF thread_halt
<1>16. CASE thread_halt_retry(p)
  <2>0. Current(p) # Idle /\ target[Current(p)] \in Thread
    BY <1>16, <1>t, Zenon DEF thread_halt_retry
  <2>1. Goto(p, "select", Null, Null) \/ UNCHANGED <<pc, arg>>
    BY <1>16, Zenon DEF thread_halt_retry, SleepUntilStopped
  <2>2. \A u \in Thread : Ready(u)' => Ready(u)
    <3>1. \A q \in Processor : pc'[q] = "invoke" => pc[q] = "invoke" /\ arg'[q] = arg[q]
      BY <1>0, <2>1, InvokeGoto, Zenon
    <3> QED BY <1>16, <3>1, ReadySame, Zenon DEF thread_halt_retry
  <2>3. CASE SleepUntilStopped(p, target[Current(p)], {})
    BY <2>0, <2>2, <2>3, <1>w, Zenon
  <2>4. CASE UNCHANGED <<wait_event, state>>
    BY <2>2, <2>4, <1>n
  <2> QED BY <1>16, <2>3, <2>4, Zenon DEF thread_halt_retry
<1>17. CASE thread_halt_clear(p)
  <2> DEFINE x == target[Current(p)]
  <2>0. /\ Goto(p, "clear", x, wait_event[x]) \/ UNCHANGED <<pc, arg>>
        /\ x \in Thread /\ UNCHANGED wait_event
    BY <1>17, <1>t, Zenon DEF thread_halt_clear
  <2>1. \/ UNCHANGED state
        \/ state' = [state EXCEPT ![x] = state[x]]
        \/ wait_event[x] = Null /\ state' = [state EXCEPT ![x] = state[x] \ {"WAIT"}]
    BY <1>17, ZenonT(30) DEF thread_halt_clear
  <2>2. \A u \in Thread : Ready(u)' => Ready(u)
    <3>1. \A q \in Processor : pc'[q] = "invoke" => pc[q] = "invoke" /\ arg'[q] = arg[q]
      BY <1>0, <2>0, InvokeGoto, Zenon
    <3> QED BY <1>17, <3>1, ReadySame, Zenon DEF thread_halt_clear
  <2> QED BY <2>0, <2>1, <2>2, <1>k, <1>n, Zenon
<1>18. CASE thread_halt_check(p)
  <2> DEFINE x == target[Current(p)]
  <2>0. x \in Thread /\ UNCHANGED <<swapin_queue, wait_event>>
    BY <1>18, <1>t, Zenon DEF thread_halt_check
  <2>1. CASE /\ UNCHANGED queueVars
             /\ UNCHANGED state \/ state' = [state EXCEPT ![x] = state[x] \cup {"HALTED"}]
    <3>1. \A u \in Thread : Ready(u)' => Ready(u)
      BY <1>18, <2>0, <2>1, <1>u, ReadySame, Zenon DEF thread_halt_check
    <3> QED BY <2>0, <2>1, <3>1, <1>k, <1>n, ZenonT(30)
  <2>2. CASE /\ state[x] \cap (TH_SCHED_STATE \cup {"HALTED"}) = {"SUSP"}
             /\ state' = [state EXCEPT ![x] = state[x] \cup {"RUN", "UNINT"}]
             /\ thread_setrun(x)
    <3>1. "WAIT" \notin state[x]
      BY <2>2, SMTT(30) DEF TH_SCHED_STATE
    <3>2. \A u \in Thread : Ready(u)' => Ready(u) \/ u = x
      BY <1>0, <1>18, <2>0, <2>2, <1>u, ReadySetrun, Zenon DEF thread_halt_check
    <3>3. \A u \in Thread : "WAIT" \in state'[u] <=> "WAIT" \in state[u]
      BY <1>0, <2>0, <2>2, ZenonT(30) DEF TypeOK
    <3> QED BY <2>0, <3>1, <3>2, <3>3 DEF WaitInv
  <2> QED BY <1>18, <2>1, <2>2, Zenon DEF thread_halt_check
<1>19. CASE thread_halt_self(p)
  <2>1. \A u \in Thread : Ready(u)' => Ready(u)
    BY <1>0, <1>19, InvokeGoto, ReadySame DEF thread_halt_self
  <2>2. /\ state' = [state EXCEPT ![Current(p)] = state[Current(p)] \cup {"HALTED"}]
        /\ UNCHANGED wait_event /\ Current(p) # Idle
    BY <1>19 DEF thread_halt_self
  <2> QED BY <2>1, <2>2, <1>b, <1>k, Zenon
<1> QED
  BY <1>1, <1>2, <1>3, <1>4, <1>5, <1>6, <1>7, <1>8, <1>9, <1>10, <1>11, <1>12, <1>13, <1>14,
     <1>15, <1>16, <1>17, <1>18, <1>19, Zenon DEF step
-----------------------------------------------------------------------------
LEMMA InitSwap == Init => SwapInv
  BY DEF Init, SwapInv

LEMMA StepSwap ==
    ASSUME TypeOK, Args, SwapInv, NEW p \in Processor, step(p)
    PROVE  SwapInv'
<1> USE Distinct
<1>b. ASSUME Current(p) # Idle PROVE Current(p) \in Thread
  BY <1>b DEF Current, TypeOK
<1>t. ASSUME Current(p) # Idle, call[Current(p)] \notin {"none", "asserted"}
      PROVE  target[Current(p)] \in Thread
  BY <1>b, <1>t DEF Args
<1>k. ASSUME NEW x \in Thread, NEW s, state' = [state EXCEPT ![x] = s], UNCHANGED swapin_queue,
             "COMING_IN" \in s => "COMING_IN" \in state[x]
      PROVE  SwapInv'
  <2>1. \A u \in Thread : u # x => state'[u] = state[u]
    BY <1>k DEF TypeOK
  <2>2. state'[x] = s
    BY <1>k DEF TypeOK
  <2> QED BY <1>k, <2>1, <2>2 DEF SwapInv
<1>n. ASSUME UNCHANGED <<state, swapin_queue>> PROVE SwapInv'
  BY <1>n DEF SwapInv
<1>w. ASSUME NEW x \in Thread, NEW susp \in {{}, {"SUSP"}}, SleepUntilStopped(p, x, susp),
             Current(p) # Idle, UNCHANGED swapin_queue
      PROVE  SwapInv'
  <2>1. state' = [state EXCEPT ![Current(p)] = @ \cup {"WAIT"}, ![x] = @ \cup susp]
    BY <1>w DEF SleepUntilStopped
  <2>2. \A u \in Thread : "COMING_IN" \in state'[u] => "COMING_IN" \in state[u]
    BY <1>b, <1>w, <2>1 DEF TypeOK
  <2> QED BY <1>w, <2>2 DEF SwapInv
<1>e. ASSUME NEW t \in Thread, EndWait(t), UNCHANGED swapin_queue PROVE SwapInv'
  <2>1. \E s \in {(state[t] \ {"WAIT"}) \cup {"RUN"}, state[t] \ {"WAIT"}} :
           state' = [state EXCEPT ![t] = s]
    BY <1>e, Zenon DEF EndWait
  <2> QED BY <1>e, <2>1, <1>k, Zenon
<1>1. ASSUME NEW e \in Event \cup {Null}, NEW interruptible \in BOOLEAN,
             assert_wait(p, e, interruptible)
      PROVE  SwapInv'
  <2>1. /\ Current(p) # Idle /\ UNCHANGED swapin_queue
        /\ \E s \in {{}, {"UNINT"}} :
              state' = [state EXCEPT ![Current(p)] = (state[Current(p)] \cup {"WAIT"}) \cup s]
    BY <1>1, Zenon DEF assert_wait, AssertWait
  <2> QED BY <2>1, <1>b, <1>k, Zenon
<1>2. ASSUME NEW e \in Event \cup Thread, NEW one_thread \in BOOLEAN,
             thread_wakeup_prim(p, e, one_thread)
      PROVE  SwapInv'
  BY <1>2, <1>e, Zenon DEF thread_wakeup_prim, Waiters
<1>3. CASE thread_wakeup_none(p)
  BY <1>3, <1>n DEF thread_wakeup_none, threadVars
<1>4. ASSUME NEW t \in Thread, NEW interrupt_only \in BOOLEAN, clear_wait(p, t, interrupt_only)
      PROVE  SwapInv'
  <2>1. UNCHANGED swapin_queue /\ (EndWait(t) \/ UNCHANGED state)
    BY <1>4 DEF clear_wait, threadVars
  <2> QED BY <2>1, <1>e, <1>n, Zenon
<1>5. CASE clear_wait_locked(p)
  <2>1. UNCHANGED swapin_queue /\ (EndWait(arg[p]) \/ UNCHANGED state)
    BY <1>5 DEF clear_wait_locked, threadVars
  <2>2. arg[p] \in Thread
    BY <1>5 DEF Args, clear_wait_locked
  <2> QED BY <2>1, <2>2, <1>e, <1>n, Zenon
<1>6. ASSUME NEW with_continuation \in BOOLEAN, thread_block(p, with_continuation)
      PROVE  SwapInv'
  BY <1>6, <1>n DEF thread_block
<1>7. CASE thread_select(p)
  BY <1>7, <1>n DEF thread_select, threadVars
<1>8. CASE choose_idle(p)
  BY <1>8, <1>n DEF choose_idle, threadVars
<1>9. CASE idle_thread_continue(p)
  BY <1>9, <1>n DEF idle_thread_continue, threadVars
<1>10. CASE thread_invoke(p)
  <2> DEFINE new == arg[p]
  <2>0. new \in Thread
    BY <1>10, Zenon DEF thread_invoke, Args
  <2>1. CASE state' = [state EXCEPT ![new] = @ \ {"SWAPPED", "UNINT"}] /\ UNCHANGED swapin_queue
    BY <2>0, <2>1, <1>k, Zenon
  <2>2. CASE thread_swapin(new)
    <3>1. \A u \in Thread : u # new => state'[u] = state[u]
      BY <2>0, <2>2 DEF thread_swapin, TypeOK
    <3>2. CASE "SWAPPED" \in state[new]
      BY <2>2, <3>1, <3>2 DEF thread_swapin, SwapInv
    <3>3. CASE "SWAPPED" \notin state[new]
      BY <2>0, <2>2, <3>1, <3>3 DEF thread_swapin, SwapInv, TypeOK
    <3> QED BY <3>2, <3>3
  <2> QED BY <1>10, <2>1, <2>2, Zenon DEF thread_invoke
<1>11. CASE thread_dispatch(p)
  <2> DEFINE t == arg[p]
             s == state[t] \cup (IF swap_func[t] THEN {"SWAPPED"} ELSE {})
  <2>0. t \in Thread /\ UNCHANGED swapin_queue
    BY <1>11 DEF thread_dispatch, Args
  <2>1. state' = [state EXCEPT ![t] = s] \/ state' = [state EXCEPT ![t] = s \ {"RUN"}]
    BY <1>11, Zenon DEF thread_dispatch
  <2>2. "COMING_IN" \in s => "COMING_IN" \in state[t]
    OBVIOUS
  <2> HIDE DEF s
  <2> QED BY <2>0, <2>1, <2>2, <1>k, Zenon
<1>12. ASSUME NEW x \in Thread, thread_hold(p, x)
       PROVE  SwapInv'
  BY <1>12, <1>k, Zenon DEF thread_hold
<1>13. CASE thread_dowait(p)
  <2> DEFINE x == target[Current(p)]
  <2>0. x \in Thread /\ UNCHANGED swapin_queue /\ Current(p) # Idle
    BY <1>13, <1>t, Zenon DEF thread_dowait
  <2>1. CASE SleepUntilStopped(p, x, {})
    BY <2>0, <2>1, <1>w, Zenon
  <2>2. CASE UNCHANGED state \/ state' = [state EXCEPT ![x] = state[x] \ {"RUN"}]
    BY <2>0, <2>2, <1>k, <1>n, Zenon
  <2> QED BY <1>13, <2>1, <2>2, Zenon DEF thread_dowait
<1>14. CASE thread_release(p)
  <2> DEFINE x == target[Current(p)]
  <2>0. x \in Thread /\ UNCHANGED swapin_queue
    BY <1>14, <1>t, ZenonT(30) DEF thread_release
  <2>1. \E s \in {state[x], state[x] \ {"SUSP", "HALTED"}}, r \in {{}, {"RUN"}} :
           state' = [state EXCEPT ![x] = s \cup r]
    BY <1>14, Zenon DEF thread_release
  <2> QED BY <2>0, <2>1, <1>k, Zenon
<1>15. ASSUME NEW x \in Thread, thread_halt(p, x)
       PROVE  SwapInv'
  <2>0. Current(p) # Idle /\ UNCHANGED swapin_queue
    BY <1>15 DEF thread_halt, Stopper
  <2>1. CASE SleepUntilStopped(p, x, {"SUSP"})
    BY <2>0, <2>1, <1>w, Zenon
  <2>2. CASE UNCHANGED state \/ state' = [state EXCEPT ![x] = state[x] \cup {"SUSP"}]
    BY <2>0, <2>2, <1>k, <1>n, Zenon
  <2> QED BY <1>15, <2>1, <2>2, Zenon DEF thread_halt
<1>16. CASE thread_halt_retry(p)
  <2>0. /\ Current(p) # Idle /\ target[Current(p)] \in Thread
        /\ UNCHANGED swapin_queue
    BY <1>16, <1>t, Zenon DEF thread_halt_retry
  <2>1. CASE SleepUntilStopped(p, target[Current(p)], {})
    BY <2>0, <2>1, <1>w, Zenon
  <2>2. CASE UNCHANGED state
    BY <2>0, <2>2, <1>n
  <2> QED BY <1>16, <2>1, <2>2, Zenon DEF thread_halt_retry
<1>17. CASE thread_halt_clear(p)
  <2> DEFINE x == target[Current(p)]
  <2>0. x \in Thread /\ UNCHANGED swapin_queue
    BY <1>17, <1>t, Zenon DEF thread_halt_clear
  <2>1. UNCHANGED state \/ \E s \in {state[x], state[x] \ {"WAIT"}} : state' = [state EXCEPT ![x] = s]
    BY <1>17, ZenonT(30) DEF thread_halt_clear
  <2> QED BY <2>0, <2>1, <1>k, <1>n, Zenon
<1>18. CASE thread_halt_check(p)
  <2> DEFINE x == target[Current(p)]
  <2>0. x \in Thread /\ UNCHANGED swapin_queue
    BY <1>18, <1>t, Zenon DEF thread_halt_check
  <2>1. UNCHANGED state \/ \E r \in {{"HALTED"}, {"RUN", "UNINT"}} :
                             state' = [state EXCEPT ![x] = state[x] \cup r]
    BY <1>18, Zenon DEF thread_halt_check
  <2> QED BY <2>0, <2>1, <1>k, <1>n, Zenon
<1>19. CASE thread_halt_self(p)
  <2>1. /\ state' = [state EXCEPT ![Current(p)] = state[Current(p)] \cup {"HALTED"}]
        /\ UNCHANGED swapin_queue /\ Current(p) # Idle
    BY <1>19 DEF thread_halt_self
  <2> QED BY <2>1, <1>b, <1>k, Zenon
<1> QED
  BY <1>1, <1>2, <1>3, <1>4, <1>5, <1>6, <1>7, <1>8, <1>9, <1>10, <1>11, <1>12, <1>13, <1>14,
     <1>15, <1>16, <1>17, <1>18, <1>19, Zenon DEF step

LEMMA SwapinSwap ==
    ASSUME TypeOK, SwapInv, NEW t \in Thread, thread_doswapin(t)
    PROVE  SwapInv'
  BY DEF SwapInv, TypeOK, thread_doswapin, TH_SWAP_STATE
-----------------------------------------------------------------------------
\* The inductive invariant: a thread is in one place, on the swapin queue if it is
\* marked TH_SW_COMING_IN, and it is marked as waiting when it is on a wait queue
\* and not when it is to run.
SchedInv == Base /\ PlaceInv /\ SwapInv /\ WaitInv

LEMMA SwapinBase ==
    ASSUME Base, NEW t \in Thread, thread_doswapin(t)
    PROVE  Base'
<1>0. TypeOK /\ Args /\ Queues
  BY DEF Base
<1>1. TypeOK'
  BY <1>0, SwapinType, ZenonT(30)
<1>2. Args'
  BY <1>0, Zenon DEF Args, thread_doswapin, cpuVars, callVars
<1>3. Calm
  BY <1>0, CalmUnchanged DEF thread_doswapin, cpuVars
<1>4. thread_setrun(t) \/ UNCHANGED IdleVars
  BY DEF thread_doswapin, queueVars, IdleVars
<1>5. Queues'
  BY <1>0, <1>3, <1>4, QueuesKept
<1> QED BY <1>1, <1>2, <1>5 DEF Base

LEMMA StutterInv ==
    ASSUME SchedInv, UNCHANGED vars
    PROVE  SchedInv'
<1>0. UNCHANGED <<state, wait_event, wake_active, suspend_count, ast_halt, swap_func>>
      /\ UNCHANGED <<runq, pstate, next_thread, idle_queue, idle_count, swapin_queue>>
      /\ UNCHANGED <<active_thread, pc, arg, event, call, target>>
  BY DEF vars, threadVars, queueVars, cpuVars, callVars
<1>1. TypeOK' /\ Args'
  BY <1>0 DEF SchedInv, Base, TypeOK, Args
<1>2. Queues'
  BY <1>0 DEF SchedInv, Base, Queues, IdleExact, Busy
<1>3. PlaceInv'
  BY <1>0, PlaceSame, Zenon DEF SchedInv, PlaceVars, Transit, Runs
<1>4. WaitInv'
  BY <1>0 DEF SchedInv, WaitInv, Ready
<1>5. SwapInv'
  BY <1>0 DEF SchedInv, SwapInv
<1> QED BY <1>1, <1>2, <1>3, <1>4, <1>5 DEF SchedInv, Base

\* SchedInv holds in every reachable state, whatever the steps of the processors
\* and of the swapin thread interleave to.
THEOREM SchedInvInvariant == Spec => []SchedInv
<1>1. Init => SchedInv
  BY InitBase, InitPlace, InitSwap, InitWait DEF SchedInv
<1>2. SchedInv /\ [Next]_vars => SchedInv'
  <2> SUFFICES ASSUME SchedInv, [Next]_vars PROVE SchedInv'
    OBVIOUS
  <2>0. Base /\ PlaceInv /\ SwapInv /\ WaitInv /\ TypeOK /\ Args /\ Queues
    BY DEF SchedInv, Base
  <2>1. ASSUME NEW p \in Processor, step(p) PROVE SchedInv'
    <3>1. TypeOK' /\ Args'
      BY <2>0, <2>1, StepType, StepArgs
    <3>2. Queues'
      BY <2>0, <2>1, StepQueues
    <3>3. PlaceInv'
      BY <2>0, <2>1, StepPlace
    <3>4. WaitInv'
      BY <2>0, <2>1, StepWait
    <3>5. SwapInv'
      BY <2>0, <2>1, StepSwap
    <3> QED BY <3>1, <3>2, <3>3, <3>4, <3>5 DEF SchedInv, Base
  <2>2. ASSUME NEW t \in Thread, thread_doswapin(t) PROVE SchedInv'
    <3>1. Base'
      BY <2>0, <2>2, SwapinBase
    <3>2. PlaceInv'
      BY <2>0, <2>2, SwapinPlace
    <3>3. WaitInv'
      BY <2>0, <2>2, SwapinWait
    <3>4. SwapInv'
      BY <2>0, <2>2, SwapinSwap
    <3> QED BY <3>1, <3>2, <3>3, <3>4 DEF SchedInv
  <2>3. CASE UNCHANGED vars
    BY <2>3, StutterInv
  <2> QED BY <2>1, <2>2, <2>3 DEF Next
<1> QED BY <1>1, <1>2, PTL DEF Spec

\* For every number of threads and processors, the idle queue, idle_count and
\* next_thread agree with the states of the processors.
THEOREM IdleExactInvariant == Spec => []IdleExact
<1>1. SchedInv => IdleExact
  BY DEF SchedInv, Base, Queues
<1> QED BY <1>1, SchedInvInvariant, PTL

LEMMA PlaceMeansOnePlace == TypeOK /\ PlaceInv => OnePlace
<1> SUFFICES ASSUME TypeOK, PlaceInv, NEW t \in Thread
             PROVE  /\ "RUN" \in state[t] <=> \E k \in Places, p \in Processor : At(t, k, p)
                    /\ \A k \in Places, p \in Processor : At(t, k, p) =>
                          \A l \in Places, q \in Processor : At(t, l, q) =>
                              k = l /\ (k \in ProcessorPlaces => p = q)
  BY DEF OnePlace
<1>0. \A p \in Processor : InTransit(t, p) <=> Transit[p] = t
  BY Distinct DEF InTransit, Transit
<1>1. "RUN" \in state[t] <=> \/ t \in runq \/ t \in swapin_queue
                              \/ \E p \in Processor : \/ active_thread[p] = t \/ Transit[p] = t
                                                       \/ next_thread[p] = t
  BY DEF PlaceInv, Placed, Apart, Covered, Runs
<1>2. "RUN" \in state[t] <=> \E k \in Places, p \in Processor : At(t, k, p)
  <2>1. PICK p0 \in Processor : TRUE
    BY Distinct
  <2>2. \A k \in Places, p \in Processor : At(t, k, p) =>
            \/ t \in runq \/ t \in swapin_queue
            \/ active_thread[p] = t \/ Transit[p] = t \/ next_thread[p] = t
    BY <1>0 DEF At
  <2>3. \A p \in Processor :
            /\ t \in runq => At(t, "runq", p)
            /\ t \in swapin_queue => At(t, "swapin", p)
            /\ active_thread[p] = t => At(t, "active", p)
            /\ Transit[p] = t => At(t, "transit", p)
            /\ next_thread[p] = t => At(t, "next", p)
    BY <1>0 DEF At
  <2>4. {"runq", "swapin", "active", "transit", "next"} = Places
    BY DEF Places, ProcessorPlaces
  <2> HIDE DEF At
  <2> QED BY <1>1, <2>1, <2>2, <2>3, <2>4
<1>3. ASSUME NEW k \in Places, NEW l \in Places, NEW p \in Processor, NEW q \in Processor,
             At(t, k, p), At(t, l, q)
      PROVE  k = l /\ (k \in ProcessorPlaces => p = q)
  BY <1>0, <1>3 DEF At, Places, ProcessorPlaces, PlaceInv, Placed, Apart, Covered
<1> QED BY <1>2, <1>3

\* For every number of threads and processors, a thread is marked TH_RUN iff it is
\* on a processor, in transit or on one of the queues, and then in one place only.
THEOREM OnePlaceInvariant == Spec => []OnePlace
<1>1. SchedInv => OnePlace
  BY PlaceMeansOnePlace, Zenon DEF SchedInv, Base
<1> QED BY <1>1, SchedInvInvariant, PTL

\* For every number of threads and processors, the links of a thread are on one of
\* the wait queues, the run queue and the swapin queue at most.
THEOREM LinksUsedOnceInvariant == Spec => []LinksUsedOnce
<1>1. SchedInv => LinksUsedOnce
  BY DEF SchedInv, WaitInv, Ready, LinksUsedOnce
<1> QED BY <1>1, SchedInvInvariant, PTL
=============================================================================
