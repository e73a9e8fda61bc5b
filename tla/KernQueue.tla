----------------------------- MODULE KernQueue -----------------------------
(***************************************************************************)
(* The queues that link kernel structures (kern/queue.h, ipc/ipc_thread.h) *)
(* as sequences: unlinking an element wherever it is.  Range(q) is the set *)
(* of the elements of q.                                                   *)
(***************************************************************************)
EXTENDS Integers, Sequences, Functions

\* The queue without the element in place i.
remqueue(q, i) == SubSeq(q, 1, i - 1) \o SubSeq(q, i + 1, Len(q))

\* The queue without thread t, which waits on it.
ipc_thread_rmqueue(q, t) ==
    IF t \in Range(q) THEN remqueue(q, CHOOSE i \in DOMAIN q : q[i] = t) ELSE q
=============================================================================
