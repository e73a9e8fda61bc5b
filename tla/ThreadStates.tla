---------------------------- MODULE ThreadStates ----------------------------
(***************************************************************************)
(* The state machine of a thread, as the table at the head of              *)
(* kern/sched_prim.c gives it: R running, W waiting, S suspended,          *)
(* N non-interruptible.                                                    *)
(***************************************************************************)
CONSTANT Thread
VARIABLE sched

R == {"RUN"}
RS == {"RUN", "SUSP"}
RN == {"RUN", "UNINT"}
RNS == {"RUN", "UNINT", "SUSP"}
RW == {"RUN", "WAIT"}
RWN == {"RUN", "WAIT", "UNINT"}
RWS == {"RUN", "WAIT", "SUSP"}
RWNS == {"RUN", "WAIT", "UNINT", "SUSP"}
W == {"WAIT"}
WN == {"WAIT", "UNINT"}
WNS == {"WAIT", "UNINT", "SUSP"}
S == {"SUSP"}
WS == {"WAIT", "SUSP"}

assert_wait == {<<R, RW>>, <<R, RWN>>, <<RS, RWS>>, <<RS, RWNS>>, <<RN, RWN>>, <<RNS, RWNS>>}
thread_block == {<<RS, S>>, <<RW, W>>, <<RWN, WN>>, <<RWS, WS>>, <<RWNS, WNS>>}
clear_wait == {<<RW, R>>, <<RWN, RN>>, <<RWS, RS>>, <<RWNS, RNS>>,
               <<W, R>>, <<WN, RN>>, <<WNS, RNS>>, <<WS, S>>}
suspend == {<<R, RS>>, <<RN, RNS>>, <<RW, RWS>>, <<RWN, RWNS>>, <<W, WS>>, <<WN, WNS>>}
resume == {<<RS, R>>, <<RNS, RN>>, <<RWS, RW>>, <<RWNS, RWN>>, <<WNS, WN>>, <<S, R>>, <<WS, W>>}

\* What the table leaves out: a thread that is switched to becomes
\* interruptible, and thread_halt sets a stopped thread running.
invoke == {<<RN, R>>, <<RNS, RS>>}
halt == {<<S, RNS>>}

Table == assert_wait \cup thread_block \cup clear_wait \cup suspend \cup resume
         \cup invoke \cup halt

Init == sched = [t \in Thread |-> R]

Next ==
    /\ DOMAIN sched' = Thread
    /\ \A t \in Thread : sched'[t] = sched[t] \/ <<sched[t], sched'[t]>> \in Table

Spec == Init /\ [][Next]_sched
=============================================================================
