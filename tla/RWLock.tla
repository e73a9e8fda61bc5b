------------------------------- MODULE RWLock -------------------------------
(***************************************************************************)
(* What the complex lock of kern/lock.c promises its callers, as atomic    *)
(* steps: readers share, a writer excludes everybody else, a successful    *)
(* upgrade turns a read hold into the write hold with nobody writing in    *)
(* between, and a downgrade keeps the protection of a read hold.           *)
(* A read hold is a pair <<thread, k>>: the lock may be held for reading   *)
(* several times by a thread that is allowed to lock recursively.          *)
(***************************************************************************)

CONSTANTS
    Thread,     \* the threads of the kernel
    Hold        \* tells the read holds of one thread apart

VARIABLES
    readers,    \* the read holds
    writers     \* the threads that hold the lock for writing

vars == <<readers, writers>>

Init == readers = {} /\ writers = {}

\* Only threads in S hold the lock.
OnlyHeldBy(S) == writers \subseteq S /\ \A r \in readers : r[1] \in S

Read(t, k) ==
    /\ writers \subseteq {t}
    /\ <<t, k>> \notin readers
    /\ readers' = readers \cup {<<t, k>>}
    /\ UNCHANGED writers

Write(t) ==
    /\ OnlyHeldBy({})
    /\ writers' = {t}
    /\ UNCHANGED readers

Upgrade(t, k) ==
    /\ readers = {<<t, k>>} /\ writers = {}
    /\ readers' = {} /\ writers' = {t}

Downgrade(t, k) ==
    /\ writers = {t}
    /\ <<t, k>> \notin readers
    /\ readers' = readers \cup {<<t, k>>}
    /\ writers' = {}

ReleaseRead(t, k) == readers' = readers \ {<<t, k>>} /\ UNCHANGED writers

ReleaseWrite(t) == writers = {t} /\ writers' = {} /\ UNCHANGED readers

\* A recursive writer trades nested holds: they do not change who is excluded.
Nested(t) ==
    /\ writers = {t} /\ OnlyHeldBy({t})
    /\ OnlyHeldBy({t})' /\ UNCHANGED writers

Next ==
    \E t \in Thread :
        \/ Write(t) \/ ReleaseWrite(t) \/ Nested(t)
        \/ \E k \in Hold :
            Read(t, k) \/ Upgrade(t, k) \/ Downgrade(t, k) \/ ReleaseRead(t, k)

Spec == Init /\ [][Next]_vars
=============================================================================
