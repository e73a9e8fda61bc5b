---------------------------- MODULE MCIpcMqueue ----------------------------
EXTENDS IpcMqueue, TLC

\* Nothing tells threads, ports or sets apart.
Symmetry == Permutations(Thread) \cup Permutations(Port) \cup Permutations(Pset)

\* The fields that nobody reads before they are set again are left out: a
\* receiver whose operation has been completed for it reads the outcome alone,
\* and the result of a wait is looked at while the operation is in progress.
Blocks(t) == pc[t] \in {"snd_wait", "rcv_wait"}
InProgress(t) == Blocks(t) /\ ith_state[t] \in {"SEND_IN_PROGRESS", "RCV_IN_PROGRESS"}
View ==
    <<portVars, queueVars, pc, owes, waiting, timer, expired, ith_kmsg, sent, taken,
      [t \in {u \in Thread : Blocks(u)} |-> ith_state[t]],
      [t \in {u \in Thread : pc[u] = "snd_wait" \/ InProgress(u)} |-> op[t]],
      [t \in {u \in Thread : pc[u] = "rcv_wait" /\ InProgress(u)} |-> ith_msize[t]],
      [t \in {u \in Thread : InProgress(u) /\ ~waiting[u]} |-> wait_result[t]]>>
=============================================================================
