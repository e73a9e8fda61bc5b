---------------------------- MODULE ComplexLock ----------------------------
(***************************************************************************)
(* kern/lock.c: the multiple-reader / single-writer "complex" lock with    *)
(* upgrade, downgrade and recursion.                                       *)
(*                                                                         *)
(* All fields are read and written under the interlock, a spin lock, so a  *)
(* step is what happens between taking and dropping it.  A thread that has *)
(* to wait drops it to spin (lock_wait_time > 0, i.e. NCPUS > 1) or in     *)
(* thread_sleep, which enqueues the thread first.  thread_wakeup wakes     *)
(* every sleeper.  The sleeps are not interruptible.                       *)
(*                                                                         *)
(* The variables reads, upgrading and base record what the callers were    *)
(* granted; the code has no such state.  They follow the return values     *)
(* only, never the counters of the lock.                                   *)
(***************************************************************************)
EXTENDS Integers, FiniteSets

CONSTANTS
    Thread,         \* the threads that use the lock
    NoThread,       \* LOCK_THREAD_INVALID
    Hold,           \* names for the read holds of one thread
    MaxDepth,       \* bound on recursion_depth
    RecThread,      \* the threads that may call lock_set_recursive
    MultiProcessor, \* NCPUS > 1: waiting threads spin before they sleep
    CanSleep        \* the argument of lock_init

\* read_count has 16 bits and recursion_depth 12; these bounds keep both from
\* wrapping.  A uniprocessor cannot spin, so its locks must be sleepable.
ASSUME ConstantsAssumption ==
    /\ NoThread \notin Thread
    /\ IsFiniteSet(Thread) /\ IsFiniteSet(Hold)
    /\ MaxDepth \in Nat /\ MaxDepth < 4096
    /\ Cardinality(Thread) * Cardinality(Hold) < 65536
    /\ RecThread \subseteq Thread
    /\ MultiProcessor \in BOOLEAN /\ CanSleep \in BOOLEAN
    /\ MultiProcessor \/ CanSleep

VARIABLES
    read_count, want_upgrade, want_write, waiting, can_sleep,
    thread, recursion_depth,
    pc,         \* the loop a thread waits in, "run" when in none
    mode,       \* how it waits there
    reads,      \* the read holds granted and not released
    upgrading,  \* the read holds given up in an upgrade that is under way
    base        \* how a thread came to hold the lock for writing

flags == <<read_count, want_upgrade, want_write>>
recursion == <<thread, recursion_depth>>
holds == <<reads, upgrading, base>>
vars == <<flags, waiting, can_sleep, recursion, pc, mode, holds>>

Loops == {"want_write", "drain", "read", "upgrade", "try_upgrade"}

TypeOK ==
    /\ read_count \in Nat
    /\ want_upgrade \in BOOLEAN /\ want_write \in BOOLEAN
    /\ waiting \in BOOLEAN /\ can_sleep \in BOOLEAN
    /\ thread \in Thread \cup {NoThread}
    /\ recursion_depth \in 0 .. MaxDepth
    /\ pc \in [Thread -> Loops \cup {"run"}]
    /\ mode \in [Thread -> {"none", "spin", "sleep", "woken"}]
    /\ reads \subseteq Thread \X Hold
    /\ upgrading \subseteq Thread \X Hold
    /\ base \in [Thread -> {"none", "write", "upgraded"}]

Idle(t) == pc[t] = "run"
HasRead(t) == \E r \in reads : r[1] = t
HasWrite(t) == base[t] # "none"
HoldsNothing(t) == ~HasRead(t) /\ ~HasWrite(t)

\* lock.c lets one thread lock recursively.  Its callers do so below a write
\* hold, or for reading below a hold that was downgraded (vm_map.c).
MayNestWrite(t) == thread = t /\ HasWrite(t) /\ recursion_depth < MaxDepth

lock_init ==
    /\ read_count = 0 /\ want_upgrade = FALSE /\ want_write = FALSE
    /\ waiting = FALSE /\ can_sleep = CanSleep
    /\ thread = NoThread /\ recursion_depth = 0
    /\ pc = [t \in Thread |-> "run"]
    /\ mode = [t \in Thread |-> "none"]
    /\ reads = {} /\ upgrading = {}
    /\ base = [t \in Thread |-> "none"]

\* On a uniprocessor a thread would loop for ever with the interlock held.
lock_sleepable(b) ==
    /\ b \/ MultiProcessor
    /\ can_sleep' = b
    /\ UNCHANGED <<flags, waiting, recursion, pc, mode, holds>>
-----------------------------------------------------------------------------
\* A writer that waits for the readers but not for an upgrade.
Blocked_noupgrade(p) ==
    \/ p = "want_write" /\ want_write
    \/ p = "drain" /\ read_count # 0
    \/ p = "read" /\ (want_write \/ want_upgrade)
    \/ p \in {"upgrade", "try_upgrade"} /\ read_count # 0

\* The condition of each waiting loop.
Blocked(p) ==
    \/ p = "want_write" /\ want_write
    \/ p = "drain" /\ (read_count # 0 \/ want_upgrade)
    \/ p = "read" /\ (want_write \/ want_upgrade)
    \/ p \in {"upgrade", "try_upgrade"} /\ read_count # 0

\* Sleeps without announcing it.
Sleep_unmarked(t, p) ==
    /\ pc' = [pc EXCEPT ![t] = p]
    /\ mode' = [mode EXCEPT ![t] = "sleep"]
    /\ UNCHANGED waiting

Sleep(t, p) ==
    /\ pc' = [pc EXCEPT ![t] = p]
    /\ mode' = [mode EXCEPT ![t] = "sleep"]
    /\ waiting' = TRUE

\* The body of a waiting loop up to the point where the interlock is dropped.
Wait(t, p) ==
    \/ /\ MultiProcessor /\ p # "try_upgrade"
       /\ pc' = [pc EXCEPT ![t] = p]
       /\ mode' = [mode EXCEPT ![t] = "spin"]
       /\ UNCHANGED waiting
    \/ /\ ~MultiProcessor \/ p = "try_upgrade"
       /\ Sleep(t, p)

Leave(t) ==
    /\ pc' = [pc EXCEPT ![t] = "run"]
    /\ mode' = [mode EXCEPT ![t] = "none"]
    /\ UNCHANGED waiting

\* thread_wakeup, when somebody announced that it sleeps.
WakeupIf(c) ==
    /\ waiting' = (waiting /\ ~c)
    /\ mode' = [u \in Thread |->
                 IF waiting /\ c /\ mode[u] = "sleep" THEN "woken" ELSE mode[u]]
    /\ UNCHANGED pc

\* What follows the loop that waits for want_write to be clear.
TakeWantWrite(t) ==
    /\ want_write' = TRUE
    /\ \/ /\ Blocked("drain")
          /\ Wait(t, "drain")
          /\ UNCHANGED base
       \/ /\ ~Blocked("drain")
          /\ Leave(t)
          /\ base' = [base EXCEPT ![t] = "write"]
    /\ UNCHANGED <<read_count, want_upgrade, can_sleep, recursion, reads, upgrading>>

\* What follows the loop of each lock operation when its condition is false.
Proceed(t, p) ==
    \/ /\ p = "want_write"
       /\ TakeWantWrite(t)
    \/ /\ p = "drain"
       /\ Leave(t)
       /\ base' = [base EXCEPT ![t] = "write"]
       /\ UNCHANGED <<flags, can_sleep, recursion, reads, upgrading>>
    \/ /\ p = "read"
       /\ Leave(t)
       /\ read_count' = read_count + 1
       /\ \E k \in Hold : <<t, k>> \notin reads /\ reads' = reads \cup {<<t, k>>}
       /\ UNCHANGED <<want_upgrade, want_write, can_sleep, recursion, upgrading, base>>
    \/ /\ p \in {"upgrade", "try_upgrade"}
       /\ Leave(t)
       /\ base' = [base EXCEPT ![t] = "upgraded"]
       /\ upgrading' = {r \in upgrading : r[1] # t}
       /\ UNCHANGED <<flags, can_sleep, recursion, reads>>

\* A waiting thread gets the interlock again: it was woken, or stops spinning.
resume(t) ==
    /\ mode[t] \in {"woken", "spin"}
    /\ \/ /\ ~Blocked(pc[t])
          /\ Proceed(t, pc[t])
       \/ /\ Blocked(pc[t]) /\ mode[t] = "woken"
          /\ Wait(t, pc[t])
          /\ UNCHANGED <<flags, can_sleep, recursion, holds>>
       \/ /\ Blocked(pc[t]) /\ mode[t] = "spin" /\ can_sleep
          /\ Sleep(t, pc[t])
          /\ UNCHANGED <<flags, can_sleep, recursion, holds>>
-----------------------------------------------------------------------------
\* The branches taken by the thread that may lock recursively.
NestWrite(t) ==
    /\ Idle(t) /\ MayNestWrite(t)
    /\ recursion_depth' = recursion_depth + 1
    /\ UNCHANGED <<flags, waiting, can_sleep, thread, pc, mode, holds>>

NestRead(t) ==
    /\ Idle(t) /\ thread = t
    /\ read_count' = read_count + 1
    /\ \E k \in Hold : <<t, k>> \notin reads /\ reads' = reads \cup {<<t, k>>}
    /\ UNCHANGED <<want_upgrade, want_write, waiting, can_sleep, recursion,
                   pc, mode, upgrading, base>>

NestUpgrade(t, k) ==
    /\ Idle(t) /\ MayNestWrite(t)
    /\ <<t, k>> \in reads
    /\ read_count' = read_count - 1
    /\ recursion_depth' = recursion_depth + 1
    /\ reads' = reads \ {<<t, k>>}
    /\ UNCHANGED <<want_upgrade, want_write, waiting, can_sleep, thread,
                   pc, mode, upgrading, base>>

lock_write(t) ==
    \/ NestWrite(t)
    \/ /\ Idle(t) /\ HoldsNothing(t)
       /\ \/ /\ want_write
             /\ Wait(t, "want_write")
             /\ UNCHANGED <<flags, can_sleep, recursion, holds>>
          \/ /\ ~want_write
             /\ TakeWantWrite(t)

lock_read(t) ==
    \/ NestRead(t)
    \/ /\ Idle(t) /\ HoldsNothing(t)
       /\ \/ /\ Blocked("read")
             /\ Wait(t, "read")
             /\ UNCHANGED <<flags, can_sleep, recursion, holds>>
          \/ /\ ~Blocked("read")
             /\ Proceed(t, "read")

\* The caller drops its innermost hold.  A thread that still is the recursive
\* one keeps its outermost hold until lock_clear_recursive.
lock_done(t) ==
    /\ Idle(t) /\ ~HoldsNothing(t)
    /\ thread = t => \/ HasWrite(t) /\ (HasRead(t) \/ recursion_depth # 0)
                     \/ ~HasWrite(t) /\ \E r, s \in reads : r # s /\ r[1] = t /\ s[1] = t
    /\ \/ /\ read_count # 0
          /\ read_count' = read_count - 1
          /\ UNCHANGED <<recursion_depth, want_upgrade, want_write>>
       \/ /\ read_count = 0 /\ recursion_depth # 0
          /\ recursion_depth' = recursion_depth - 1
          /\ UNCHANGED <<read_count, want_upgrade, want_write>>
       \/ /\ read_count = 0 /\ recursion_depth = 0 /\ want_upgrade
          /\ want_upgrade' = FALSE
          /\ UNCHANGED <<read_count, recursion_depth, want_write>>
       \/ /\ read_count = 0 /\ recursion_depth = 0 /\ ~want_upgrade
          /\ want_write' = FALSE
          /\ UNCHANGED <<read_count, recursion_depth, want_upgrade>>
    /\ WakeupIf(read_count' = 0)
    /\ \/ \E r \in reads : r[1] = t /\ reads' = reads \ {r} /\ UNCHANGED base
       \/ ~HasRead(t) /\ thread = t /\ UNCHANGED <<reads, base>>
       \/ ~HasRead(t) /\ thread # t /\ base' = [base EXCEPT ![t] = "none"] /\ UNCHANGED reads
    /\ UNCHANGED <<can_sleep, thread, upgrading>>

\* An upgrade that gives up its read hold without looking for sleepers.
lock_read_to_write_nowake(t) == \E k \in Hold :
    \/ NestUpgrade(t, k)
    \/ /\ Idle(t) /\ thread # t /\ ~HasWrite(t)
       /\ {r \in reads : r[1] = t} = {<<t, k>>}
       /\ read_count' = read_count - 1
       /\ reads' = reads \ {<<t, k>>}
       /\ \/ /\ want_upgrade
             /\ WakeupIf(FALSE)
             /\ UNCHANGED <<want_upgrade, upgrading, base>>
          \/ /\ ~want_upgrade /\ read_count # 1
             /\ want_upgrade' = TRUE
             /\ upgrading' = upgrading \cup {<<t, k>>}
             /\ Wait(t, "upgrade")
             /\ UNCHANGED base
          \/ /\ ~want_upgrade /\ read_count = 1
             /\ want_upgrade' = TRUE
             /\ base' = [base EXCEPT ![t] = "upgraded"]
             /\ UNCHANGED <<upgrading, pc, mode, waiting>>
       /\ UNCHANGED <<want_write, can_sleep, recursion>>

\* The read hold is given up at once.  With another upgrade under way the call
\* fails and the caller is left with nothing; otherwise it waits for the
\* remaining readers.
lock_read_to_write(t) == \E k \in Hold :
    \/ NestUpgrade(t, k)
    \/ /\ Idle(t) /\ thread # t /\ ~HasWrite(t)
       /\ {r \in reads : r[1] = t} = {<<t, k>>}
       /\ read_count' = read_count - 1
       /\ reads' = reads \ {<<t, k>>}
       /\ \/ /\ want_upgrade
             /\ WakeupIf(read_count' = 0)
             /\ UNCHANGED <<want_upgrade, upgrading, base>>
          \/ /\ ~want_upgrade /\ read_count # 1
             /\ want_upgrade' = TRUE
             /\ upgrading' = upgrading \cup {<<t, k>>}
             /\ Wait(t, "upgrade")
             /\ UNCHANGED base
          \/ /\ ~want_upgrade /\ read_count = 1
             /\ want_upgrade' = TRUE
             /\ base' = [base EXCEPT ![t] = "upgraded"]
             /\ UNCHANGED <<upgrading, pc, mode, waiting>>
       /\ UNCHANGED <<want_write, can_sleep, recursion>>

\* Like lock_read_to_write, but a second upgrade keeps its read hold, which
\* changes nothing, and the wait never spins.
lock_try_read_to_write(t) == \E k \in Hold :
    \/ NestUpgrade(t, k)
    \/ /\ Idle(t) /\ thread # t /\ ~HasWrite(t)
       /\ {r \in reads : r[1] = t} = {<<t, k>>}
       /\ ~want_upgrade
       /\ want_upgrade' = TRUE
       /\ read_count' = read_count - 1
       /\ reads' = reads \ {<<t, k>>}
       /\ \/ /\ read_count # 1
             /\ upgrading' = upgrading \cup {<<t, k>>}
             /\ Wait(t, "try_upgrade")
             /\ UNCHANGED base
          \/ /\ read_count = 1
             /\ base' = [base EXCEPT ![t] = "upgraded"]
             /\ UNCHANGED <<upgrading, pc, mode, waiting>>
       /\ UNCHANGED <<want_write, can_sleep, recursion>>

\* A downgrade whose reader is not counted.
lock_write_to_read_uncounted(t) ==
    /\ Idle(t) /\ HasWrite(t)
    /\ \/ /\ recursion_depth # 0
          /\ recursion_depth' = recursion_depth - 1
          /\ UNCHANGED <<want_upgrade, want_write, base>>
       \/ /\ recursion_depth = 0
          /\ IF want_upgrade THEN want_upgrade' = FALSE /\ UNCHANGED want_write
                             ELSE want_write' = FALSE /\ UNCHANGED want_upgrade
          /\ base' = [base EXCEPT ![t] = "none"]
          /\ UNCHANGED recursion_depth
    /\ \E k \in Hold : <<t, k>> \notin reads /\ reads' = reads \cup {<<t, k>>}
    /\ WakeupIf(TRUE)
    /\ UNCHANGED <<read_count, can_sleep, thread, upgrading>>

\* A nested write hold becomes a nested read hold, an outermost one a plain
\* read hold.  All sleepers are woken: there may be readers among them.
lock_write_to_read(t) ==
    /\ Idle(t) /\ HasWrite(t)
    /\ read_count' = read_count + 1
    /\ \/ /\ recursion_depth # 0
          /\ recursion_depth' = recursion_depth - 1
          /\ UNCHANGED <<want_upgrade, want_write, base>>
       \/ /\ recursion_depth = 0 /\ want_upgrade
          /\ want_upgrade' = FALSE
          /\ base' = [base EXCEPT ![t] = "none"]
          /\ UNCHANGED <<recursion_depth, want_write>>
       \/ /\ recursion_depth = 0 /\ ~want_upgrade
          /\ want_write' = FALSE
          /\ base' = [base EXCEPT ![t] = "none"]
          /\ UNCHANGED <<recursion_depth, want_upgrade>>
    /\ \E k \in Hold : <<t, k>> \notin reads /\ reads' = reads \cup {<<t, k>>}
    /\ WakeupIf(TRUE)
    /\ UNCHANGED <<can_sleep, thread, upgrading>>

\* Failing attempts change nothing.
lock_try_write(t) ==
    \/ NestWrite(t)
    \/ /\ Idle(t) /\ HoldsNothing(t)
       /\ ~want_write /\ ~want_upgrade /\ read_count = 0
       /\ want_write' = TRUE
       /\ base' = [base EXCEPT ![t] = "write"]
       /\ UNCHANGED <<read_count, want_upgrade, waiting, can_sleep, recursion,
                      pc, mode, reads, upgrading>>

lock_try_read(t) ==
    \/ NestRead(t)
    \/ /\ Idle(t) /\ HoldsNothing(t)
       /\ ~Blocked("read")
       /\ Proceed(t, "read")

\* Panics, which ends the run, unless want_write is set.
lock_set_recursive(t) ==
    /\ Idle(t) /\ HasWrite(t) /\ t \in RecThread
    /\ want_write
    /\ thread' = t
    /\ UNCHANGED <<flags, waiting, can_sleep, recursion_depth, pc, mode, holds>>

lock_clear_recursive(t) ==
    /\ Idle(t) /\ thread = t
    /\ recursion_depth = 0
    /\ thread' = NoThread
    /\ UNCHANGED <<flags, waiting, can_sleep, recursion_depth, pc, mode, holds>>

Next ==
    \/ \E t \in Thread :
         \/ lock_write(t) \/ lock_read(t) \/ lock_done(t)
         \/ lock_read_to_write(t) \/ lock_try_read_to_write(t)
         \/ lock_write_to_read(t)
         \/ lock_try_write(t) \/ lock_try_read(t)
         \/ lock_set_recursive(t) \/ lock_clear_recursive(t)
         \/ resume(t)
    \/ \E b \in BOOLEAN : lock_sleepable(b)

Spec == lock_init /\ [][Next]_vars

\* A thread that can get the interlock gets it, and callers release what they
\* lock, sooner or later everything, unless they wait for ever.
FairSpec ==
    /\ Spec
    /\ \A t \in Thread : /\ WF_vars(resume(t))
                         /\ []<>HoldsNothing(t) \/ <>[]~Idle(t)
-----------------------------------------------------------------------------
\* lock_read_to_write promises that nobody writes between the read hold and
\* the write hold it is turned into, so a thread waiting for its upgrade still
\* counts as a reader.  The lock as its users see it (RWLock): writers exclude
\* everybody else, upgrades included.
Promise == INSTANCE RWLock WITH readers <- reads \cup upgrading,
                                writers <- {t \in Thread : HasWrite(t)}
ImplementsRWLock == Promise!Spec

\* A thread that writes excludes every other reader, writer and pending
\* upgrade: want_write, want_upgrade and read_count together, tested in
\* different orders by seven operations, never let two parties through.
Exclusion ==
    \A t \in Thread : HasWrite(t) =>
        /\ \A r \in reads \cup upgrading : r[1] = t
        /\ \A u \in Thread : HasWrite(u) => u = t

\* read_count counts the holds its callers still have to release: no path of
\* a failed upgrade, a downgrade or a nested hold leaks or loses one.
ReadCountExact == read_count = Cardinality(reads)

\* No lost wakeup: a thread sleeps only while the condition it waits for still
\* keeps it out, and the waiting flag that makes the next release wake it is
\* set (every path that clears the condition wakes it in the same step).
NoLostWakeup ==
    \A t \in Thread : mode[t] = "sleep" => waiting /\ Blocked(pc[t])

\* want_write and want_upgrade each have exactly one owner, who clears it.
WantWriteOwned ==
    /\ want_write <=> \E t \in Thread : pc[t] = "drain" \/ base[t] = "write"
    /\ \A t, u \in Thread :
         (pc[t] = "drain" \/ base[t] = "write") /\ (pc[u] = "drain" \/ base[u] = "write")
            => t = u

Upgrades(t) == pc[t] \in {"upgrade", "try_upgrade"} \/ base[t] = "upgraded"

WantUpgradeOwned ==
    /\ want_upgrade <=> \E t \in Thread : Upgrades(t)
    /\ \A t, u \in Thread : Upgrades(t) /\ Upgrades(u) => t = u

\* What a thread holds while it waits, and what the recursive thread holds.
WaitersHoldNothing ==
    /\ \A t \in Thread :
        /\ pc[t] # "run" => HoldsNothing(t)
        /\ pc[t] = "run" <=> mode[t] = "none"
        /\ pc[t] \in {"upgrade", "try_upgrade"} <=> \E r \in upgrading : r[1] = t
    /\ \A r, s \in upgrading : r = s

RecursionOwned ==
    /\ thread # NoThread => pc[thread] = "run" /\ ~HoldsNothing(thread)
    /\ recursion_depth # 0 => thread # NoThread /\ HasWrite(thread)

WriteExcludesUpgrade ==
    \A t \in Thread : base[t] = "write" => ~want_upgrade

Inv ==
    /\ TypeOK /\ ReadCountExact /\ WantWriteOwned /\ WantUpgradeOwned
    /\ WaitersHoldNothing /\ RecursionOwned /\ Exclusion
    /\ WriteExcludesUpgrade /\ NoLostWakeup

\* An upgrade that was accepted completes, and a writer that has set want_write
\* is not starved by readers: lock_read lets no new one pass it.
UpgradeCompletes ==
    \A t \in Thread : pc[t] \in {"upgrade", "try_upgrade"} ~> base[t] = "upgraded"
WriterGetsLock ==
    \A t \in Thread : pc[t] = "drain" ~> base[t] = "write"

=============================================================================
