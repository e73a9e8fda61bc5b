------------------------- MODULE ComplexLockProofs -------------------------
(***************************************************************************)
(* Proofs about ComplexLock for any number of threads and nested holds:    *)
(* the invariant Inv is inductive, and every step is a step of RWLock or   *)
(* changes no hold.                                                        *)
(***************************************************************************)
EXTENDS ComplexLock, FiniteSetTheorems, TLAPS

\* What the steps use of the number of read holds: taking or releasing one
\* changes it by one.
ReadsCounted ==
    /\ read_count = 0 <=> reads = {}
    /\ \A x : x \notin reads => Cardinality(reads \cup {x}) = read_count + 1
    /\ \A x : x \in reads => Cardinality(reads \ {x}) = read_count - 1
    /\ \A x : x \in reads => (read_count = 1 <=> reads \ {x} = {})

LEMMA Constants == MaxDepth \in Nat /\ NoThread \notin Thread
BY ConstantsAssumption
-----------------------------------------------------------------------------
(***************************************************************************)
(* Each step preserves the invariant                                       *)
(***************************************************************************)
USE DEF flags, recursion, holds, Idle, MayNestWrite, HasWrite, HasRead,
        HoldsNothing, Blocked, ReadsCounted

\* A nested write hold.
LEMMA NestWriteInv ==
    ASSUME Inv, NEW t \in Thread, NestWrite(t)
    PROVE  Inv'
<1> USE DEF Inv, TypeOK, ReadCountExact, WantWriteOwned, WantUpgradeOwned, Upgrades,
            WaitersHoldNothing, RecursionOwned, Exclusion, WriteExcludesUpgrade,
            NoLostWakeup
<1> QED
  BY Constants DEF NestWrite

\* A nested read hold.
LEMMA NestReadInv ==
    ASSUME Inv, ReadsCounted, NEW t \in Thread, NestRead(t)
    PROVE  Inv'
<1> USE DEF Inv, TypeOK, ReadCountExact, WantWriteOwned, WantUpgradeOwned, Upgrades,
            WaitersHoldNothing, RecursionOwned, Exclusion, WriteExcludesUpgrade,
            NoLostWakeup
<1> QED
  BY Constants DEF NestRead

\* An upgrade by the recursive holder.
LEMMA NestUpgradeInv ==
    ASSUME Inv, ReadsCounted, NEW t \in Thread, NEW k \in Hold, NestUpgrade(t, k)
    PROVE  Inv'
<1>a. /\ TypeOK /\ ReadCountExact /\ WantWriteOwned /\ WantUpgradeOwned
      /\ WaitersHoldNothing /\ RecursionOwned /\ Exclusion /\ WriteExcludesUpgrade
      /\ NoLostWakeup
  BY DEF Inv
<1>1. TypeOK'
  BY <1>a, Constants DEF NestUpgrade, TypeOK
<1>2. ReadCountExact'
  BY <1>a, Constants DEF NestUpgrade, TypeOK, ReadCountExact
<1>3. WantWriteOwned'
  BY <1>a, Constants DEF NestUpgrade, TypeOK, WantWriteOwned
<1>4. WantUpgradeOwned'
  BY <1>a, Constants DEF NestUpgrade, TypeOK, WantUpgradeOwned, Upgrades
<1>5. WaitersHoldNothing'
  BY <1>a, Constants DEF NestUpgrade, TypeOK, WaitersHoldNothing
<1>6. RecursionOwned'
  BY <1>a, Constants DEF NestUpgrade, TypeOK, RecursionOwned
<1>7. Exclusion'
  BY <1>a, Constants DEF NestUpgrade, TypeOK, Exclusion
<1>8. WriteExcludesUpgrade'
  BY <1>a, Constants DEF NestUpgrade, TypeOK, WriteExcludesUpgrade, Upgrades
<1>9. NoLostWakeup'
  <2>1. base \in [Thread -> {"none", "write", "upgraded"}] /\ pc[t] = "run" /\ base[t] # "none"
    BY <1>a DEF NestUpgrade, TypeOK
  <2>2. ASSUME NEW u \in Thread
        PROVE  (pc[u] = "drain" => want_upgrade) /\ pc[u] \notin {"upgrade", "try_upgrade"}
    <3>1. CASE base[t] = "write"
      BY <1>a, <2>1, <3>1 DEF WantWriteOwned, WantUpgradeOwned, WriteExcludesUpgrade, Upgrades
    <3>2. CASE base[t] = "upgraded"
      BY <1>a, <2>1, <3>2 DEF WantUpgradeOwned, Upgrades
    <3> QED BY <2>1, <3>1, <3>2
  <2>3. UNCHANGED <<want_upgrade, want_write, waiting, pc, mode>>
    BY DEF NestUpgrade
  <2> QED BY <1>a, <2>2, <2>3 DEF NoLostWakeup
<1> QED
  BY <1>1, <1>2, <1>3, <1>4, <1>5, <1>6, <1>7, <1>8, <1>9, Zenon DEF Inv

\* lock_write or lock_read finds the lock taken and waits.
LEMMA WaitInv ==
    ASSUME Inv, NEW t \in Thread, NEW p \in {"want_write", "read"}, Idle(t), HoldsNothing(t),
           Blocked(p), Wait(t, p), UNCHANGED <<flags, can_sleep, recursion, holds>>
    PROVE  Inv'
<1>a. /\ TypeOK /\ ReadCountExact /\ WantWriteOwned /\ WantUpgradeOwned
      /\ WaitersHoldNothing /\ RecursionOwned /\ Exclusion /\ WriteExcludesUpgrade
      /\ NoLostWakeup
  BY DEF Inv
<1>1. TypeOK'
  <2>1. (read_count \in Nat)'
    BY <1>a, Constants DEF Wait, Sleep, Loops, TypeOK
  <2>2. (want_upgrade \in BOOLEAN /\ want_write \in BOOLEAN)'
    BY <1>a, Constants DEF Wait, Sleep, Loops, TypeOK
  <2>3. (waiting \in BOOLEAN /\ can_sleep \in BOOLEAN)'
    BY <1>a, Constants, Zenon DEF Wait, Sleep, Loops, TypeOK
  <2>4. (thread \in Thread \cup {NoThread} /\ recursion_depth \in 0 .. MaxDepth)'
    BY <1>a, Constants DEF Wait, Sleep, Loops, TypeOK
  <2>5. (pc \in [Thread -> Loops \cup {"run"}])'
    BY <1>a, Constants DEF Wait, Sleep, Loops, TypeOK
  <2>6. (mode \in [Thread -> {"none", "spin", "sleep", "woken"}])'
    BY <1>a, Constants DEF Wait, Sleep, Loops, TypeOK
  <2>7. (reads \subseteq Thread \X Hold /\ upgrading \subseteq Thread \X Hold)'
    BY <1>a, Constants DEF Wait, Sleep, Loops, TypeOK
  <2>8. (base \in [Thread -> {"none", "write", "upgraded"}])'
    BY <1>a, Constants DEF Wait, Sleep, Loops, TypeOK
  <2> QED
    BY <2>1, <2>2, <2>3, <2>4, <2>5, <2>6, <2>7, <2>8, Zenon DEF TypeOK
<1>2. ReadCountExact'
  BY <1>a, Constants DEF Wait, Sleep, Loops, TypeOK, ReadCountExact
<1>3. WantWriteOwned'
  BY <1>a, Constants DEF Wait, Sleep, Loops, TypeOK, WantWriteOwned
<1>4. WantUpgradeOwned'
  BY <1>a, Constants DEF Wait, Sleep, Loops, TypeOK, WantUpgradeOwned, Upgrades
<1>5. WaitersHoldNothing'
  BY <1>a, Constants DEF Wait, Sleep, Loops, TypeOK, WaitersHoldNothing
<1>6. RecursionOwned'
  BY <1>a, Constants DEF Wait, Sleep, Loops, TypeOK, RecursionOwned
<1>7. Exclusion'
  BY <1>a, Constants DEF Wait, Sleep, Loops, TypeOK, Exclusion
<1>8. WriteExcludesUpgrade'
  BY <1>a, Constants DEF Wait, Sleep, Loops, TypeOK, WriteExcludesUpgrade
<1>9. NoLostWakeup'
  BY <1>a, Constants DEF Wait, Sleep, Loops, TypeOK, NoLostWakeup
<1> QED
  BY <1>1, <1>2, <1>3, <1>4, <1>5, <1>6, <1>7, <1>8, <1>9, Zenon DEF Inv

\* A thread that was woken, or spins, waits once more.
LEMMA WaitAgainInv ==
    ASSUME Inv, NEW t \in Thread, mode[t] \in {"woken", "spin"}, Blocked(pc[t]),
           Wait(t, pc[t]) \/ Sleep(t, pc[t]),
           UNCHANGED <<flags, can_sleep, recursion, holds>>
    PROVE  Inv'
<1>a. /\ TypeOK /\ ReadCountExact /\ WantWriteOwned /\ WantUpgradeOwned
      /\ WaitersHoldNothing /\ RecursionOwned /\ Exclusion /\ WriteExcludesUpgrade
      /\ NoLostWakeup
  BY DEF Inv
<1>1. TypeOK'
  <2>1. (read_count \in Nat)'
    BY <1>a, Constants DEF Wait, Sleep, TypeOK
  <2>2. (want_upgrade \in BOOLEAN /\ want_write \in BOOLEAN)'
    BY <1>a, Constants DEF Wait, Sleep, TypeOK
  <2>3. (waiting \in BOOLEAN /\ can_sleep \in BOOLEAN)'
    BY <1>a, Constants, Zenon DEF Wait, Sleep, TypeOK
  <2>4. (thread \in Thread \cup {NoThread} /\ recursion_depth \in 0 .. MaxDepth)'
    BY <1>a, Constants DEF Wait, Sleep, TypeOK
  <2>5. (pc \in [Thread -> Loops \cup {"run"}])'
    BY <1>a, Constants DEF Wait, Sleep, TypeOK
  <2>6. (mode \in [Thread -> {"none", "spin", "sleep", "woken"}])'
    BY <1>a, Constants DEF Wait, Sleep, TypeOK
  <2>7. (reads \subseteq Thread \X Hold /\ upgrading \subseteq Thread \X Hold)'
    BY <1>a, Constants DEF Wait, Sleep, TypeOK
  <2>8. (base \in [Thread -> {"none", "write", "upgraded"}])'
    BY <1>a, Constants DEF Wait, Sleep, TypeOK
  <2> QED
    BY <2>1, <2>2, <2>3, <2>4, <2>5, <2>6, <2>7, <2>8, Zenon DEF TypeOK
<1>2. ReadCountExact'
  BY <1>a, Constants DEF Wait, Sleep, TypeOK, ReadCountExact
<1>3. WantWriteOwned'
  BY <1>a, Constants DEF Wait, Sleep, TypeOK, WantWriteOwned
<1>4. WantUpgradeOwned'
  BY <1>a, Constants DEF Wait, Sleep, TypeOK, WantUpgradeOwned, Upgrades
<1>5. WaitersHoldNothing'
  BY <1>a, Constants DEF Wait, Sleep, TypeOK, WaitersHoldNothing
<1>6. RecursionOwned'
  BY <1>a, Constants DEF Wait, Sleep, TypeOK, RecursionOwned
<1>7. Exclusion'
  BY <1>a, Constants DEF Wait, Sleep, TypeOK, Exclusion
<1>8. WriteExcludesUpgrade'
  BY <1>a, Constants DEF Wait, Sleep, TypeOK, WriteExcludesUpgrade
<1>9. NoLostWakeup'
  BY <1>a, Constants DEF Wait, Sleep, TypeOK, NoLostWakeup
<1> QED
  BY <1>1, <1>2, <1>3, <1>4, <1>5, <1>6, <1>7, <1>8, <1>9, Zenon DEF Inv

\* The writer takes want_write, and has the lock or waits for the readers.
LEMMA TakeWantWriteInv ==
    ASSUME Inv, ReadsCounted, NEW t \in Thread, Idle(t) \/ pc[t] = "want_write", HoldsNothing(t),
           ~want_write, TakeWantWrite(t)
    PROVE  Inv'
<1>a. /\ TypeOK /\ ReadCountExact /\ WantWriteOwned /\ WantUpgradeOwned
      /\ WaitersHoldNothing /\ RecursionOwned /\ Exclusion /\ WriteExcludesUpgrade
      /\ NoLostWakeup
  BY DEF Inv
<1>1. TypeOK'
  <2>1. (read_count \in Nat)'
    BY <1>a, Constants DEF TakeWantWrite, Wait, Sleep, Leave, Loops, TypeOK
  <2>2. (want_upgrade \in BOOLEAN /\ want_write \in BOOLEAN)'
    BY <1>a, Constants DEF TakeWantWrite, Wait, Sleep, Leave, Loops, TypeOK
  <2>3. (waiting \in BOOLEAN /\ can_sleep \in BOOLEAN)'
    BY <1>a, Constants, Zenon DEF TakeWantWrite, Wait, Sleep, Leave, Loops, TypeOK
  <2>4. (thread \in Thread \cup {NoThread} /\ recursion_depth \in 0 .. MaxDepth)'
    BY <1>a, Constants DEF TakeWantWrite, Wait, Sleep, Leave, Loops, TypeOK
  <2>5. (pc \in [Thread -> Loops \cup {"run"}])'
    BY <1>a, Constants DEF TakeWantWrite, Wait, Sleep, Leave, Loops, TypeOK
  <2>6. (mode \in [Thread -> {"none", "spin", "sleep", "woken"}])'
    BY <1>a, Constants DEF TakeWantWrite, Wait, Sleep, Leave, Loops, TypeOK
  <2>7. (reads \subseteq Thread \X Hold /\ upgrading \subseteq Thread \X Hold)'
    BY <1>a, Constants DEF TakeWantWrite, Wait, Sleep, Leave, Loops, TypeOK
  <2>8. (base \in [Thread -> {"none", "write", "upgraded"}])'
    BY <1>a, Constants DEF TakeWantWrite, Wait, Sleep, Leave, Loops, TypeOK
  <2> QED
    BY <2>1, <2>2, <2>3, <2>4, <2>5, <2>6, <2>7, <2>8, Zenon DEF TypeOK
<1>2. ReadCountExact'
  BY <1>a, Constants DEF TakeWantWrite, Wait, Sleep, Leave, Loops, TypeOK, ReadCountExact
<1>3. WantWriteOwned'
  BY <1>a, Constants DEF TakeWantWrite, Wait, Sleep, Leave, Loops, TypeOK, WantWriteOwned
<1>4. WantUpgradeOwned'
  BY <1>a, Constants DEF TakeWantWrite, Wait, Sleep, Leave, Loops, TypeOK, WantUpgradeOwned, Upgrades
<1>5. WaitersHoldNothing'
  BY <1>a, Constants DEF TakeWantWrite, Wait, Sleep, Leave, Loops, TypeOK, WaitersHoldNothing
<1>6. RecursionOwned'
  BY <1>a, Constants DEF TakeWantWrite, Wait, Sleep, Leave, Loops, TypeOK, RecursionOwned
<1>7. Exclusion'
  BY <1>a, Constants DEF TakeWantWrite, Wait, Sleep, Leave, Loops, TypeOK, ReadCountExact, WantWriteOwned, WantUpgradeOwned, WaitersHoldNothing, RecursionOwned, Exclusion, WriteExcludesUpgrade, NoLostWakeup, Upgrades
<1>8. WriteExcludesUpgrade'
  BY <1>a, Constants DEF TakeWantWrite, Wait, Sleep, Leave, Loops, TypeOK, WriteExcludesUpgrade
<1>9. NoLostWakeup'
  BY <1>a, Constants DEF TakeWantWrite, Wait, Sleep, Leave, Loops, TypeOK, NoLostWakeup
<1> QED
  BY <1>1, <1>2, <1>3, <1>4, <1>5, <1>6, <1>7, <1>8, <1>9, Zenon DEF Inv

\* A reader gets in.
LEMMA ReadInv ==
    ASSUME Inv, ReadsCounted, NEW t \in Thread, Idle(t) \/ pc[t] = "read", HoldsNothing(t),
           ~Blocked("read"), Proceed(t, "read")
    PROVE  Inv'
<1>a. /\ TypeOK /\ ReadCountExact /\ WantWriteOwned /\ WantUpgradeOwned
      /\ WaitersHoldNothing /\ RecursionOwned /\ Exclusion /\ WriteExcludesUpgrade
      /\ NoLostWakeup
  BY DEF Inv
<1>0. /\ Leave(t)
      /\ read_count' = read_count + 1
      /\ \E k \in Hold : <<t, k>> \notin reads /\ reads' = reads \cup {<<t, k>>}
      /\ UNCHANGED <<want_upgrade, want_write, can_sleep, recursion, upgrading, base>>
  BY <1>a, Zenon DEF Proceed
<1>1. TypeOK'
  <2>1. (read_count \in Nat)'
    BY <1>a, <1>0, Constants DEF Leave, TypeOK
  <2>2. (want_upgrade \in BOOLEAN /\ want_write \in BOOLEAN)'
    BY <1>a, <1>0, Constants DEF Leave, TypeOK
  <2>3. (waiting \in BOOLEAN /\ can_sleep \in BOOLEAN)'
    BY <1>a, <1>0, Constants DEF Leave, TypeOK
  <2>4. (thread \in Thread \cup {NoThread} /\ recursion_depth \in 0 .. MaxDepth)'
    BY <1>a, <1>0, Constants DEF Leave, TypeOK
  <2>5. (pc \in [Thread -> Loops \cup {"run"}])'
    BY <1>a, <1>0, Constants DEF Leave, TypeOK
  <2>6. (mode \in [Thread -> {"none", "spin", "sleep", "woken"}])'
    BY <1>a, <1>0, Constants DEF Leave, TypeOK
  <2>7. (reads \subseteq Thread \X Hold /\ upgrading \subseteq Thread \X Hold)'
    BY <1>a, <1>0, Constants DEF Leave, TypeOK
  <2>8. (base \in [Thread -> {"none", "write", "upgraded"}])'
    BY <1>a, <1>0, Constants DEF Leave, TypeOK
  <2> QED
    BY <2>1, <2>2, <2>3, <2>4, <2>5, <2>6, <2>7, <2>8, Zenon DEF TypeOK
<1>2. ReadCountExact'
  BY <1>a, <1>0, Constants DEF Leave, TypeOK, ReadCountExact
<1>3. WantWriteOwned'
  BY <1>a, <1>0, Constants DEF Leave, TypeOK, WantWriteOwned
<1>4. WantUpgradeOwned'
  BY <1>a, <1>0, Constants DEF Leave, TypeOK, WantUpgradeOwned, Upgrades
<1>5. WaitersHoldNothing'
  BY <1>a, <1>0, Constants DEF Leave, TypeOK, WaitersHoldNothing
<1>6. RecursionOwned'
  BY <1>a, <1>0, Constants DEF Leave, TypeOK, RecursionOwned
<1>7. Exclusion'
  BY <1>a, <1>0, Constants DEF Leave, TypeOK, ReadCountExact, WantWriteOwned, WantUpgradeOwned, WaitersHoldNothing, RecursionOwned, Exclusion, WriteExcludesUpgrade, NoLostWakeup, Upgrades
<1>8. WriteExcludesUpgrade'
  BY <1>a, <1>0, Constants DEF Leave, TypeOK, WriteExcludesUpgrade
<1>9. NoLostWakeup'
  BY <1>a, <1>0, Constants DEF Leave, TypeOK, NoLostWakeup
<1> QED
  BY <1>1, <1>2, <1>3, <1>4, <1>5, <1>6, <1>7, <1>8, <1>9, Zenon DEF Inv

\* The last reader is gone: the writer has the lock.
LEMMA DrainedInv ==
    ASSUME Inv, ReadsCounted, NEW t \in Thread, pc[t] = "drain", ~Blocked(pc[t]), Proceed(t, pc[t])
    PROVE  Inv'
<1>a. /\ TypeOK /\ ReadCountExact /\ WantWriteOwned /\ WantUpgradeOwned
      /\ WaitersHoldNothing /\ RecursionOwned /\ Exclusion
      /\ WriteExcludesUpgrade /\ NoLostWakeup
  BY Zenon DEF Inv
<1>0. /\ Leave(t) /\ base' = [base EXCEPT ![t] = "write"]
      /\ UNCHANGED <<flags, can_sleep, recursion, reads, upgrading>>
  BY DEF Proceed
<1>1. TypeOK'
  BY <1>a, <1>0, Constants DEF Leave, TypeOK
<1>2. ReadCountExact'
  BY <1>a, <1>0, Constants DEF Leave, TypeOK, ReadCountExact
<1>3. WantWriteOwned'
  BY <1>a, <1>0, Constants DEF Leave, TypeOK, WantWriteOwned
<1>4. WantUpgradeOwned'
  BY <1>a, <1>0, Constants DEF Leave, TypeOK, Upgrades, WantUpgradeOwned
<1>5. WaitersHoldNothing'
  BY <1>a, <1>0, Constants DEF Leave, TypeOK, WaitersHoldNothing
<1>6. RecursionOwned'
  BY <1>a, <1>0, Constants DEF Leave, TypeOK, WaitersHoldNothing, RecursionOwned
<1>7. Exclusion'
  BY <1>a, <1>0, Constants DEF Leave, TypeOK, ReadCountExact, WantWriteOwned, WaitersHoldNothing, Upgrades, WantUpgradeOwned, Exclusion
<1>8. WriteExcludesUpgrade'
  BY <1>a, <1>0, Constants DEF Leave, TypeOK, WantUpgradeOwned, Upgrades, WriteExcludesUpgrade
<1>9. NoLostWakeup'
  BY <1>a, <1>0, Constants DEF Leave, TypeOK, NoLostWakeup
<1> QED
  BY <1>1, <1>2, <1>3, <1>4, <1>5, <1>6, <1>7, <1>8, <1>9, Zenon DEF Inv

\* The last other reader is gone: the upgrade is complete.
LEMMA UpgradedInv ==
    ASSUME Inv, ReadsCounted, NEW t \in Thread, pc[t] \in {"upgrade", "try_upgrade"}, ~Blocked(pc[t]),
           Proceed(t, pc[t])
    PROVE  Inv'
<1> USE DEF Inv, TypeOK, ReadCountExact, WantWriteOwned, WantUpgradeOwned, Upgrades,
            WaitersHoldNothing, RecursionOwned, Exclusion, WriteExcludesUpgrade,
            NoLostWakeup
<1> QED
  BY Constants DEF Proceed, Leave

\* lock_done.
LEMMA DoneInv ==
    ASSUME Inv, ReadsCounted, NEW t \in Thread, lock_done(t)
    PROVE  Inv'
<1>a. /\ TypeOK /\ ReadCountExact /\ WantWriteOwned /\ WantUpgradeOwned
      /\ WaitersHoldNothing /\ RecursionOwned /\ Exclusion /\ WriteExcludesUpgrade
      /\ NoLostWakeup
  BY DEF Inv
<1>1. TypeOK'
  <2>1. (read_count \in Nat)'
    BY <1>a, Constants DEF lock_done, WakeupIf, TypeOK
  <2>2. (want_upgrade \in BOOLEAN /\ want_write \in BOOLEAN)'
    BY <1>a, Constants, Zenon DEF lock_done, WakeupIf, TypeOK
  <2>3. (waiting \in BOOLEAN /\ can_sleep \in BOOLEAN)'
    BY <1>a, Constants DEF lock_done, WakeupIf, TypeOK
  <2>4. (thread \in Thread \cup {NoThread} /\ recursion_depth \in 0 .. MaxDepth)'
    BY <1>a, Constants DEF lock_done, WakeupIf, TypeOK
  <2>5. (pc \in [Thread -> Loops \cup {"run"}])'
    BY <1>a, Constants DEF lock_done, WakeupIf, TypeOK
  <2>6. (mode \in [Thread -> {"none", "spin", "sleep", "woken"}])'
    BY <1>a, Constants DEF lock_done, WakeupIf, TypeOK
  <2>7. (reads \subseteq Thread \X Hold /\ upgrading \subseteq Thread \X Hold)'
    BY <1>a, Constants DEF lock_done, WakeupIf, TypeOK
  <2>8. (base \in [Thread -> {"none", "write", "upgraded"}])'
    BY <1>a, Constants DEF lock_done, WakeupIf, TypeOK
  <2> QED
    BY <2>1, <2>2, <2>3, <2>4, <2>5, <2>6, <2>7, <2>8, Zenon DEF TypeOK
<1>2. ReadCountExact'
  BY <1>a, Constants DEF lock_done, WakeupIf, TypeOK, ReadCountExact, WantWriteOwned, WantUpgradeOwned, WaitersHoldNothing, RecursionOwned, Exclusion, WriteExcludesUpgrade, NoLostWakeup, Upgrades
<1>3. WantWriteOwned'
  BY <1>a, Constants DEF lock_done, WakeupIf, TypeOK, ReadCountExact, WantWriteOwned, WantUpgradeOwned, WaitersHoldNothing, RecursionOwned, Exclusion, WriteExcludesUpgrade, NoLostWakeup, Upgrades
<1>4. WantUpgradeOwned'
  BY <1>a, Constants DEF lock_done, WakeupIf, TypeOK, ReadCountExact, WantWriteOwned, WantUpgradeOwned, WaitersHoldNothing, RecursionOwned, Exclusion, WriteExcludesUpgrade, NoLostWakeup, Upgrades
<1>5. WaitersHoldNothing'
  BY <1>a, Constants DEF lock_done, WakeupIf, TypeOK, WaitersHoldNothing
<1>6. RecursionOwned'
  BY <1>a, Constants DEF lock_done, WakeupIf, TypeOK, RecursionOwned
<1>7. Exclusion'
  BY <1>a, Constants DEF lock_done, WakeupIf, TypeOK, Exclusion
<1>8. WriteExcludesUpgrade'
  BY <1>a, Constants DEF lock_done, WakeupIf, TypeOK, WriteExcludesUpgrade
<1>9. NoLostWakeup'
  BY <1>a, Constants, ZenonT(30) DEF lock_done, WakeupIf, TypeOK, NoLostWakeup
<1> QED
  BY <1>1, <1>2, <1>3, <1>4, <1>5, <1>6, <1>7, <1>8, <1>9, Zenon DEF Inv

\* lock_write_to_read.
LEMMA WriteToReadInv ==
    ASSUME Inv, ReadsCounted, NEW t \in Thread, lock_write_to_read(t)
    PROVE  Inv'
<1>a. /\ TypeOK /\ ReadCountExact /\ WantWriteOwned /\ WantUpgradeOwned
      /\ WaitersHoldNothing /\ RecursionOwned /\ Exclusion /\ WriteExcludesUpgrade
      /\ NoLostWakeup
  BY DEF Inv
<1>1. TypeOK'
  <2>1. (read_count \in Nat)'
    BY <1>a, Constants DEF lock_write_to_read, WakeupIf, TypeOK
  <2>2. (want_upgrade \in BOOLEAN /\ want_write \in BOOLEAN)'
    BY <1>a, Constants, Zenon DEF lock_write_to_read, WakeupIf, TypeOK
  <2>3. (waiting \in BOOLEAN /\ can_sleep \in BOOLEAN)'
    BY <1>a, Constants DEF lock_write_to_read, WakeupIf, TypeOK
  <2>4. (thread \in Thread \cup {NoThread} /\ recursion_depth \in 0 .. MaxDepth)'
    BY <1>a, Constants DEF lock_write_to_read, WakeupIf, TypeOK
  <2>5. (pc \in [Thread -> Loops \cup {"run"}])'
    BY <1>a, Constants DEF lock_write_to_read, WakeupIf, TypeOK
  <2>6. (mode \in [Thread -> {"none", "spin", "sleep", "woken"}])'
    BY <1>a, Constants DEF lock_write_to_read, WakeupIf, TypeOK
  <2>7. (reads \subseteq Thread \X Hold /\ upgrading \subseteq Thread \X Hold)'
    BY <1>a, Constants DEF lock_write_to_read, WakeupIf, TypeOK
  <2>8. (base \in [Thread -> {"none", "write", "upgraded"}])'
    BY <1>a, Constants DEF lock_write_to_read, WakeupIf, TypeOK
  <2> QED
    BY <2>1, <2>2, <2>3, <2>4, <2>5, <2>6, <2>7, <2>8, Zenon DEF TypeOK
<1>2. ReadCountExact'
  BY <1>a, Constants DEF lock_write_to_read, WakeupIf, TypeOK, ReadCountExact
<1>3. WantWriteOwned'
  BY <1>a, Constants DEF lock_write_to_read, WakeupIf, TypeOK, ReadCountExact, WantWriteOwned, WantUpgradeOwned, WaitersHoldNothing, RecursionOwned, Exclusion, WriteExcludesUpgrade, NoLostWakeup, Upgrades
<1>4. WantUpgradeOwned'
  BY <1>a, Constants DEF lock_write_to_read, WakeupIf, TypeOK, ReadCountExact, WantWriteOwned, WantUpgradeOwned, WaitersHoldNothing, RecursionOwned, Exclusion, WriteExcludesUpgrade, NoLostWakeup, Upgrades
<1>5. WaitersHoldNothing'
  BY <1>a, Constants DEF lock_write_to_read, WakeupIf, TypeOK, WaitersHoldNothing
<1>6. RecursionOwned'
  BY <1>a, Constants DEF lock_write_to_read, WakeupIf, TypeOK, RecursionOwned
<1>7. Exclusion'
  BY <1>a, Constants DEF lock_write_to_read, WakeupIf, TypeOK, Exclusion
<1>8. WriteExcludesUpgrade'
  BY <1>a, Constants DEF lock_write_to_read, WakeupIf, TypeOK, WriteExcludesUpgrade
<1>9. NoLostWakeup'
  BY <1>a, Constants DEF lock_write_to_read, WakeupIf, TypeOK, NoLostWakeup
<1> QED
  BY <1>1, <1>2, <1>3, <1>4, <1>5, <1>6, <1>7, <1>8, <1>9, Zenon DEF Inv

\* The first reader to ask for an upgrade.
LEMMA UpgradeInv ==
    ASSUME Inv, ReadsCounted, NEW t \in Thread, NEW k \in Hold, NEW p \in {"upgrade", "try_upgrade"},
           Idle(t), thread # t, ~HasWrite(t), {r \in reads : r[1] = t} = {<<t, k>>},
           read_count' = read_count - 1, reads' = reads \ {<<t, k>>},
           ~want_upgrade, want_upgrade' = TRUE,
           UNCHANGED <<want_write, can_sleep, recursion>>,
           \/ /\ read_count # 1
              /\ upgrading' = upgrading \cup {<<t, k>>}
              /\ Wait(t, p)
              /\ UNCHANGED base
           \/ /\ read_count = 1
              /\ base' = [base EXCEPT ![t] = "upgraded"]
              /\ UNCHANGED <<upgrading, pc, mode, waiting>>
    PROVE  Inv'
<1>a. /\ TypeOK /\ ReadCountExact /\ WantWriteOwned /\ WantUpgradeOwned
      /\ WaitersHoldNothing /\ RecursionOwned /\ Exclusion /\ WriteExcludesUpgrade
      /\ NoLostWakeup
  BY DEF Inv
<1>0. /\ <<t, k>> \in reads /\ read_count # 0 /\ read_count - 1 \in Nat
      /\ \A r \in reads : r[1] = t => r = <<t, k>>
      /\ \A u \in Thread : ~HasWrite(u)
      /\ read_count = 1 <=> reads' = {}
  <2>1. <<t, k>> \in reads /\ \A r \in reads : r[1] = t => r = <<t, k>>
    BY Zenon
  <2>2. \A u \in Thread : ~HasWrite(u)
    BY <1>a, <2>1 DEF Exclusion
  <2>3. read_count # 0 /\ read_count - 1 \in Nat
    BY <1>a, <2>1 DEF TypeOK, ReadCountExact
  <2>4. read_count = 1 <=> reads' = {}
    BY <1>a, <2>1 DEF TypeOK, ReadCountExact
  <2> QED BY <2>1, <2>2, <2>3, <2>4
<1>1. TypeOK'
  <2>1. (read_count \in Nat)'
    BY <1>a, <1>0, Constants DEF Wait, Sleep, Loops, TypeOK
  <2>2. (want_upgrade \in BOOLEAN /\ want_write \in BOOLEAN)'
    BY <1>a, <1>0, Constants DEF Wait, Sleep, Loops, TypeOK
  <2>3. (waiting \in BOOLEAN /\ can_sleep \in BOOLEAN)'
    BY <1>a, <1>0, Constants, Zenon DEF Wait, Sleep, Loops, TypeOK
  <2>4. (thread \in Thread \cup {NoThread} /\ recursion_depth \in 0 .. MaxDepth)'
    BY <1>a, <1>0, Constants DEF Wait, Sleep, Loops, TypeOK
  <2>5. (pc \in [Thread -> Loops \cup {"run"}])'
    BY <1>a DEF Wait, Sleep, Loops, TypeOK
  <2>6. (mode \in [Thread -> {"none", "spin", "sleep", "woken"}])'
    BY <1>a DEF Wait, Sleep, Loops, TypeOK
  <2>7. (reads \subseteq Thread \X Hold /\ upgrading \subseteq Thread \X Hold)'
    BY <1>a, <1>0, Constants DEF Wait, Sleep, Loops, TypeOK
  <2>8. (base \in [Thread -> {"none", "write", "upgraded"}])'
    BY <1>a, <1>0, Constants DEF Wait, Sleep, Loops, TypeOK
  <2> QED
    BY <2>1, <2>2, <2>3, <2>4, <2>5, <2>6, <2>7, <2>8, Zenon DEF TypeOK
<1>2. ReadCountExact'
  BY <1>a, <1>0, Constants, Zenon DEF Wait, Sleep, Loops, TypeOK, ReadCountExact
<1>3. WantWriteOwned'
  BY <1>a, <1>0, Constants DEF Wait, Sleep, Loops, TypeOK, WantWriteOwned
<1>4. WantUpgradeOwned'
  BY <1>a, <1>0, Constants DEF Wait, Sleep, Loops, TypeOK, WantUpgradeOwned, Upgrades
<1>5. WaitersHoldNothing'
  <2>0. /\ \A r \in upgrading : FALSE
        /\ pc[t] = "run" /\ mode[t] = "none"
        /\ \A u \in Thread : pc[u] \notin {"upgrade", "try_upgrade"}
    BY <1>a, <1>0, ZenonT(30) DEF WaitersHoldNothing, WantUpgradeOwned, Upgrades, TypeOK
  <2>1. CASE read_count # 1
    <3>1. /\ upgrading' = {<<t, k>>}
          /\ pc' = [pc EXCEPT ![t] = p] /\ base' = base
      BY <2>0, <2>1 DEF Wait, Sleep
    <3>2. mode' = [mode EXCEPT ![t] = "sleep"] \/ mode' = [mode EXCEPT ![t] = "spin"]
      BY <2>1 DEF Wait, Sleep
    <3>3. \A u \in Thread : u # t =>
            pc'[u] = pc[u] /\ mode'[u] = mode[u] /\ base'[u] = base[u]
      BY <1>a, <3>1, <3>2 DEF TypeOK
    <3>4. pc'[t] = p /\ mode'[t] # "none" /\ base'[t] = "none"
      BY <1>a, <1>0, <3>1, <3>2 DEF TypeOK
    <3>5. \A r \in reads' : r \in reads /\ r[1] # t
      BY <1>0
    <3> QED
      BY <1>a, <2>0, <3>1, <3>3, <3>4, <3>5, SMTT(30) DEF WaitersHoldNothing
  <2>2. CASE read_count = 1
    <3>1. /\ base' = [base EXCEPT ![t] = "upgraded"]
          /\ upgrading' = upgrading /\ pc' = pc /\ mode' = mode
      BY <2>2
    <3>2. \A u \in Thread : u # t => base'[u] = base[u]
      BY <1>a, <3>1 DEF TypeOK
    <3> QED
      BY <1>a, <2>0, <3>1, <3>2, ZenonT(30) DEF WaitersHoldNothing
  <2> QED
    BY <2>1, <2>2
<1>6. RecursionOwned'
  BY <1>a, <1>0, Constants DEF Wait, Sleep, Loops, TypeOK, RecursionOwned
<1>7. Exclusion'
  BY <1>a, <1>0, Constants DEF Wait, Sleep, Loops, TypeOK, ReadCountExact, WantWriteOwned, WantUpgradeOwned, WaitersHoldNothing, RecursionOwned, Exclusion, WriteExcludesUpgrade, NoLostWakeup, Upgrades
<1>8. WriteExcludesUpgrade'
  BY <1>a, <1>0, Constants, ZenonT(30) DEF Wait, Sleep, Loops, TypeOK, WriteExcludesUpgrade
<1>9. NoLostWakeup'
  BY <1>a, <1>0, Constants DEF Wait, Sleep, Loops, TypeOK, ReadCountExact, WantWriteOwned, WantUpgradeOwned, WaitersHoldNothing, RecursionOwned, Exclusion, WriteExcludesUpgrade, NoLostWakeup, Upgrades
<1> QED
  BY <1>1, <1>2, <1>3, <1>4, <1>5, <1>6, <1>7, <1>8, <1>9, Zenon DEF Inv

\* A reader that asks for an upgrade after another gives up its hold.
LEMMA UpgradeLostInv ==
    ASSUME Inv, ReadsCounted, NEW t \in Thread, NEW k \in Hold,
           Idle(t), thread # t, ~HasWrite(t), {r \in reads : r[1] = t} = {<<t, k>>},
           read_count' = read_count - 1, reads' = reads \ {<<t, k>>},
           want_upgrade, WakeupIf(read_count' = 0),
           UNCHANGED <<want_write, can_sleep, recursion, want_upgrade, upgrading, base>>
    PROVE  Inv'
<1>a. /\ TypeOK /\ ReadCountExact /\ WantWriteOwned /\ WantUpgradeOwned
      /\ WaitersHoldNothing /\ RecursionOwned /\ Exclusion /\ WriteExcludesUpgrade
      /\ NoLostWakeup
  BY DEF Inv
<1>0. /\ <<t, k>> \in reads /\ read_count # 0 /\ read_count - 1 \in Nat
      /\ \A r \in reads : r[1] = t => r = <<t, k>>
      /\ \A u \in Thread : ~HasWrite(u)
      /\ read_count = 1 <=> reads' = {}
  <2>1. <<t, k>> \in reads /\ \A r \in reads : r[1] = t => r = <<t, k>>
    BY Zenon
  <2>2. \A u \in Thread : ~HasWrite(u)
    BY <1>a, <2>1 DEF Exclusion
  <2>3. read_count # 0 /\ read_count - 1 \in Nat
    BY <1>a, <2>1 DEF TypeOK, ReadCountExact
  <2>4. read_count = 1 <=> reads' = {}
    BY <1>a, <2>1 DEF TypeOK, ReadCountExact
  <2> QED BY <2>1, <2>2, <2>3, <2>4
<1>1. TypeOK'
  <2>1. (read_count \in Nat)'
    BY <1>a, <1>0, Constants DEF WakeupIf, TypeOK
  <2>2. (want_upgrade \in BOOLEAN /\ want_write \in BOOLEAN)'
    BY <1>a, <1>0, Constants DEF WakeupIf, TypeOK
  <2>3. (waiting \in BOOLEAN /\ can_sleep \in BOOLEAN)'
    BY <1>a, <1>0, Constants DEF WakeupIf, TypeOK
  <2>4. (thread \in Thread \cup {NoThread} /\ recursion_depth \in 0 .. MaxDepth)'
    BY <1>a, <1>0, Constants DEF WakeupIf, TypeOK
  <2>5. (pc \in [Thread -> Loops \cup {"run"}])'
    BY <1>a, <1>0, Constants DEF WakeupIf, TypeOK
  <2>6. (mode \in [Thread -> {"none", "spin", "sleep", "woken"}])'
    BY <1>a, <1>0, Constants DEF WakeupIf, TypeOK
  <2>7. (reads \subseteq Thread \X Hold /\ upgrading \subseteq Thread \X Hold)'
    BY <1>a, <1>0, Constants DEF WakeupIf, TypeOK
  <2>8. (base \in [Thread -> {"none", "write", "upgraded"}])'
    BY <1>a, <1>0, Constants DEF WakeupIf, TypeOK
  <2> QED
    BY <2>1, <2>2, <2>3, <2>4, <2>5, <2>6, <2>7, <2>8, Zenon DEF TypeOK
<1>2. ReadCountExact'
  BY <1>a, <1>0, Constants DEF WakeupIf, TypeOK, ReadCountExact
<1>3. WantWriteOwned'
  BY <1>a, <1>0, Constants DEF WakeupIf, TypeOK, WantWriteOwned
<1>4. WantUpgradeOwned'
  BY <1>a, <1>0, Constants DEF WakeupIf, TypeOK, WantUpgradeOwned, Upgrades
<1>5. WaitersHoldNothing'
  BY <1>a, <1>0, Constants DEF WakeupIf, TypeOK, WaitersHoldNothing
<1>6. RecursionOwned'
  BY <1>a, <1>0, Constants DEF WakeupIf, TypeOK, RecursionOwned
<1>7. Exclusion'
  BY <1>a, <1>0, Constants DEF WakeupIf, TypeOK, Exclusion
<1>8. WriteExcludesUpgrade'
  BY <1>a, <1>0, Constants DEF WakeupIf, TypeOK, WriteExcludesUpgrade
<1>9. NoLostWakeup'
  BY <1>a, <1>0, Constants DEF WakeupIf, TypeOK, NoLostWakeup
<1> QED
  BY <1>1, <1>2, <1>3, <1>4, <1>5, <1>6, <1>7, <1>8, <1>9, Zenon DEF Inv

\* lock_try_write.
LEMMA TryWriteInv ==
    ASSUME Inv, ReadsCounted, NEW t \in Thread, Idle(t), HoldsNothing(t),
           ~want_write, ~want_upgrade, read_count = 0, want_write' = TRUE,
           base' = [base EXCEPT ![t] = "write"],
           UNCHANGED <<read_count, want_upgrade, waiting, can_sleep, recursion,
                       pc, mode, reads, upgrading>>
    PROVE  Inv'
<1>a. /\ TypeOK /\ ReadCountExact /\ WantWriteOwned /\ WantUpgradeOwned
      /\ WaitersHoldNothing /\ RecursionOwned /\ Exclusion /\ WriteExcludesUpgrade
      /\ NoLostWakeup
  BY DEF Inv
<1>1. TypeOK'
  <2>1. (read_count \in Nat)'
    BY <1>a, Constants DEF TypeOK
  <2>2. (want_upgrade \in BOOLEAN /\ want_write \in BOOLEAN)'
    BY <1>a, Constants DEF TypeOK
  <2>3. (waiting \in BOOLEAN /\ can_sleep \in BOOLEAN)'
    BY <1>a, Constants DEF TypeOK
  <2>4. (thread \in Thread \cup {NoThread} /\ recursion_depth \in 0 .. MaxDepth)'
    BY <1>a, Constants DEF TypeOK
  <2>5. (pc \in [Thread -> Loops \cup {"run"}])'
    BY <1>a, Constants DEF TypeOK
  <2>6. (mode \in [Thread -> {"none", "spin", "sleep", "woken"}])'
    BY <1>a, Constants DEF TypeOK
  <2>7. (reads \subseteq Thread \X Hold /\ upgrading \subseteq Thread \X Hold)'
    BY <1>a, Constants DEF TypeOK
  <2>8. (base \in [Thread -> {"none", "write", "upgraded"}])'
    BY <1>a, Constants DEF TypeOK
  <2> QED
    BY <2>1, <2>2, <2>3, <2>4, <2>5, <2>6, <2>7, <2>8, Zenon DEF TypeOK
<1>2. ReadCountExact'
  BY <1>a, Constants DEF TypeOK, ReadCountExact
<1>3. WantWriteOwned'
  BY <1>a, Constants DEF TypeOK, WantWriteOwned
<1>4. WantUpgradeOwned'
  BY <1>a, Constants DEF TypeOK, WantUpgradeOwned, Upgrades
<1>5. WaitersHoldNothing'
  BY <1>a, Constants DEF TypeOK, WaitersHoldNothing
<1>6. RecursionOwned'
  BY <1>a, Constants DEF TypeOK, RecursionOwned
<1>7. Exclusion'
  BY <1>a, Constants DEF TypeOK, ReadCountExact, WantWriteOwned, WantUpgradeOwned, WaitersHoldNothing, RecursionOwned, Exclusion, WriteExcludesUpgrade, NoLostWakeup, Upgrades
<1>8. WriteExcludesUpgrade'
  BY <1>a, Constants DEF TypeOK, WriteExcludesUpgrade
<1>9. NoLostWakeup'
  BY <1>a, Constants, Zenon DEF TypeOK, NoLostWakeup
<1> QED
  BY <1>1, <1>2, <1>3, <1>4, <1>5, <1>6, <1>7, <1>8, <1>9, ZenonT(30) DEF Inv

\* lock_set_recursive.
LEMMA SetRecursiveInv ==
    ASSUME Inv, NEW t \in Thread, lock_set_recursive(t)
    PROVE  Inv'
<1>a. /\ TypeOK /\ ReadCountExact /\ WantWriteOwned /\ WantUpgradeOwned
      /\ WaitersHoldNothing /\ RecursionOwned /\ Exclusion /\ WriteExcludesUpgrade
      /\ NoLostWakeup
  BY DEF Inv
<1>1. TypeOK'
  BY <1>a, Constants DEF lock_set_recursive, TypeOK
<1>2. ReadCountExact'
  BY <1>a, Constants DEF lock_set_recursive, TypeOK, ReadCountExact
<1>3. WantWriteOwned'
  BY <1>a, Constants DEF lock_set_recursive, TypeOK, WantWriteOwned
<1>4. WantUpgradeOwned'
  BY <1>a, Constants DEF lock_set_recursive, TypeOK, WantUpgradeOwned, Upgrades
<1>5. WaitersHoldNothing'
  BY <1>a, Constants DEF lock_set_recursive, TypeOK, WaitersHoldNothing
<1>6. RecursionOwned'
  BY <1>a, Constants DEF lock_set_recursive, TypeOK, RecursionOwned
<1>7. Exclusion'
  BY <1>a, Constants DEF lock_set_recursive, TypeOK, Exclusion
<1>8. WriteExcludesUpgrade'
  BY <1>a, Constants DEF lock_set_recursive, TypeOK, WriteExcludesUpgrade, Upgrades
<1>9. NoLostWakeup'
  BY <1>a, Constants, ZenonT(30) DEF lock_set_recursive, TypeOK, NoLostWakeup
<1> QED
  BY <1>1, <1>2, <1>3, <1>4, <1>5, <1>6, <1>7, <1>8, <1>9, Zenon DEF Inv

\* lock_clear_recursive.
LEMMA ClearRecursiveInv ==
    ASSUME Inv, NEW t \in Thread, lock_clear_recursive(t)
    PROVE  Inv'
<1>a. /\ TypeOK /\ ReadCountExact /\ WantWriteOwned /\ WantUpgradeOwned
      /\ WaitersHoldNothing /\ RecursionOwned /\ Exclusion /\ WriteExcludesUpgrade
      /\ NoLostWakeup
  BY DEF Inv
<1>1. TypeOK'
  BY <1>a, Constants DEF lock_clear_recursive, TypeOK
<1>2. ReadCountExact'
  BY <1>a, Constants DEF lock_clear_recursive, TypeOK, ReadCountExact
<1>3. WantWriteOwned'
  BY <1>a, Constants DEF lock_clear_recursive, TypeOK, WantWriteOwned
<1>4. WantUpgradeOwned'
  BY <1>a, Constants DEF lock_clear_recursive, TypeOK, WantUpgradeOwned, Upgrades
<1>5. WaitersHoldNothing'
  BY <1>a, Constants DEF lock_clear_recursive, TypeOK, WaitersHoldNothing
<1>6. RecursionOwned'
  BY <1>a, Constants DEF lock_clear_recursive, TypeOK, RecursionOwned
<1>7. Exclusion'
  BY <1>a, Constants DEF lock_clear_recursive, TypeOK, Exclusion
<1>8. WriteExcludesUpgrade'
  BY <1>a, Constants DEF lock_clear_recursive, TypeOK, WriteExcludesUpgrade, Upgrades
<1>9. NoLostWakeup'
  BY <1>a, Constants DEF lock_clear_recursive, TypeOK, NoLostWakeup
<1> QED
  BY <1>1, <1>2, <1>3, <1>4, <1>5, <1>6, <1>7, <1>8, <1>9, Zenon DEF Inv

\* lock_sleepable.
LEMMA SleepableInv ==
    ASSUME Inv, NEW b \in BOOLEAN, lock_sleepable(b)
    PROVE  Inv'
<1>a. /\ TypeOK /\ ReadCountExact /\ WantWriteOwned /\ WantUpgradeOwned
      /\ WaitersHoldNothing /\ RecursionOwned /\ Exclusion /\ WriteExcludesUpgrade
      /\ NoLostWakeup
  BY DEF Inv
<1>1. TypeOK'
  BY <1>a, Constants DEF lock_sleepable, TypeOK
<1>2. ReadCountExact'
  BY <1>a, Constants DEF lock_sleepable, TypeOK, ReadCountExact
<1>3. WantWriteOwned'
  BY <1>a, Constants DEF lock_sleepable, TypeOK, WantWriteOwned
<1>4. WantUpgradeOwned'
  BY <1>a, Constants DEF lock_sleepable, TypeOK, WantUpgradeOwned, Upgrades
<1>5. WaitersHoldNothing'
  BY <1>a, Constants DEF lock_sleepable, TypeOK, WaitersHoldNothing
<1>6. RecursionOwned'
  BY <1>a, Constants DEF lock_sleepable, TypeOK, RecursionOwned
<1>7. Exclusion'
  BY <1>a, Constants DEF lock_sleepable, TypeOK, Exclusion
<1>8. WriteExcludesUpgrade'
  BY <1>a, Constants DEF lock_sleepable, TypeOK, WriteExcludesUpgrade, Upgrades
<1>9. NoLostWakeup'
  BY <1>a, Constants, ZenonT(30) DEF lock_sleepable, TypeOK, NoLostWakeup
<1> QED
  BY <1>1, <1>2, <1>3, <1>4, <1>5, <1>6, <1>7, <1>8, <1>9, Zenon DEF Inv

\* No step.
LEMMA StutterInv ==
    ASSUME Inv, UNCHANGED vars
    PROVE  Inv'
<1>a. /\ read_count' = read_count /\ want_upgrade' = want_upgrade /\ want_write' = want_write
      /\ waiting' = waiting /\ can_sleep' = can_sleep
      /\ thread' = thread /\ recursion_depth' = recursion_depth
      /\ pc' = pc /\ mode' = mode /\ reads' = reads /\ upgrading' = upgrading /\ base' = base
  BY DEF vars
<1>b. /\ TypeOK /\ ReadCountExact /\ WantWriteOwned /\ WantUpgradeOwned
      /\ WaitersHoldNothing /\ RecursionOwned /\ Exclusion
      /\ WriteExcludesUpgrade /\ NoLostWakeup
  BY Zenon DEF Inv
<1>1. TypeOK'
  BY <1>a, <1>b DEF TypeOK
<1>2. ReadCountExact'
  BY <1>a, <1>b, ZenonT(30) DEF ReadCountExact
<1>3. WantWriteOwned'
  BY <1>a, <1>b DEF WantWriteOwned
<1>4. WantUpgradeOwned'
  BY <1>a, <1>b DEF WantUpgradeOwned, Upgrades
<1>5. WaitersHoldNothing'
  BY <1>a, <1>b DEF WaitersHoldNothing
<1>6. RecursionOwned'
  BY <1>a, <1>b DEF RecursionOwned
<1>7. Exclusion'
  BY <1>a, <1>b DEF Exclusion
<1>8. WriteExcludesUpgrade'
  BY <1>a, <1>b DEF WriteExcludesUpgrade
<1>9. NoLostWakeup'
  BY <1>a, <1>b DEF NoLostWakeup
<1> QED
  BY <1>1, <1>2, <1>3, <1>4, <1>5, <1>6, <1>7, <1>8, <1>9, Zenon DEF Inv

HIDE DEF flags, recursion, holds, Idle, MayNestWrite, HasWrite, HasRead,
         HoldsNothing, Blocked, ReadsCounted

-----------------------------------------------------------------------------
\* Every step preserves the invariant.
LEMMA NextInv ==
    ASSUME Inv, ReadsCounted, [Next]_vars
    PROVE  Inv'
<1>1. ASSUME NEW t \in Thread, resume(t) PROVE Inv'
  <2>1. CASE Blocked(pc[t])
    BY WaitAgainInv, <1>1, <2>1, ZenonT(30) DEF resume
  <2>2. CASE ~Blocked(pc[t]) /\ pc[t] = "want_write"
    <3>1. Proceed(t, "want_write") /\ ~Blocked("want_write")
      BY <1>1, <2>2 DEF resume
    <3>2. TakeWantWrite(t) /\ ~want_write
      BY <3>1 DEF Proceed, Blocked
    <3>3. HoldsNothing(t)
      BY <2>2 DEF Inv, WaitersHoldNothing
    <3> QED
      BY TakeWantWriteInv, <2>2, <3>2, <3>3, Zenon
  <2>3. CASE ~Blocked(pc[t]) /\ pc[t] = "read"
    <3>1. Proceed(t, "read") /\ ~Blocked("read")
      BY <1>1, <2>3 DEF resume
    <3>2. HoldsNothing(t)
      BY <2>3 DEF Inv, WaitersHoldNothing
    <3> QED
      BY ReadInv, <2>3, <3>1, <3>2, Zenon
  <2>4. CASE ~Blocked(pc[t]) /\ pc[t] = "drain"
    <3>1. Proceed(t, pc[t]) /\ ~Blocked(pc[t])
      BY <1>1, <2>4, Zenon DEF resume
    <3> QED
      BY DrainedInv, <2>4, <3>1, Zenon
  <2>5. CASE ~Blocked(pc[t]) /\ pc[t] \in {"upgrade", "try_upgrade"}
    <3>1. Proceed(t, pc[t]) /\ ~Blocked(pc[t])
      BY <1>1, <2>5, Zenon DEF resume
    <3> QED
      BY UpgradedInv, <2>5, <3>1, Zenon
  <2>6. CASE ~Blocked(pc[t]) /\ pc[t] = "run"
    BY <1>1, <2>6 DEF resume, Proceed
  <2>7. pc[t] \in {"run", "want_write", "drain", "read", "upgrade", "try_upgrade"}
    BY DEF Loops, Inv, TypeOK
  <2> QED
    BY <2>1, <2>2, <2>3, <2>4, <2>5, <2>6, <2>7, Zenon
<1>2. ASSUME NEW t \in Thread, lock_write(t) PROVE Inv'
  <2>1. want_write <=> Blocked("want_write")
    BY DEF Blocked
  <2> QED
    BY NestWriteInv, WaitInv, TakeWantWriteInv, <1>2, <2>1 DEF lock_write
<1>3. ASSUME NEW t \in Thread, lock_read(t) \/ lock_try_read(t) PROVE Inv'
  BY NestReadInv, WaitInv, ReadInv, <1>3 DEF lock_read, lock_try_read
<1>4. ASSUME NEW t \in Thread, lock_read_to_write(t) PROVE Inv'
  BY NestUpgradeInv, UpgradeInv, UpgradeLostInv, <1>4, Zenon DEF lock_read_to_write
<1>5. ASSUME NEW t \in Thread, lock_try_read_to_write(t) PROVE Inv'
  BY NestUpgradeInv, UpgradeInv, <1>5, Zenon DEF lock_try_read_to_write
<1>6. ASSUME NEW t \in Thread, lock_try_write(t) PROVE Inv'
  BY NestWriteInv, TryWriteInv, <1>6, Zenon DEF lock_try_write
<1> QED
  BY DoneInv, WriteToReadInv, SetRecursiveInv, ClearRecursiveInv, SleepableInv,
     StutterInv, <1>1, <1>2, <1>3, <1>4, <1>5, <1>6
     DEF Next

-----------------------------------------------------------------------------
(***************************************************************************)
(* Each step is a step of RWLock, or changes no hold                       *)
(***************************************************************************)
USE DEF Promise!vars, Promise!OnlyHeldBy, ReadsCounted

\* A step that changes no hold.
LEMMA SameHolds ==
    ASSUME Inv, UNCHANGED holds
    PROVE  UNCHANGED Promise!vars
BY DEF holds, HasWrite

\* A read hold more.
LEMMA SimRead ==
    ASSUME Inv, NEW t \in Thread, NEW k \in Hold, <<t, k>> \notin reads,
           reads' = reads \cup {<<t, k>>}, UNCHANGED <<upgrading, base>>,
           \A u \in Thread : HasWrite(u) => u = t
    PROVE  [Promise!Next]_(Promise!vars)
<1>1. CASE <<t, k>> \in upgrading
  BY <1>1 DEF HasWrite
<1>2. CASE <<t, k>> \notin upgrading
  BY <1>2 DEF Promise!Next, Promise!Read, HasWrite
<1> QED
  BY <1>1, <1>2

\* The write hold is taken.
LEMMA SimWrite ==
    ASSUME Inv, NEW t \in Thread, reads = {}, upgrading = {}, \A u \in Thread : ~HasWrite(u),
           base' = [base EXCEPT ![t] = "write"], UNCHANGED <<reads, upgrading>>
    PROVE  Promise!Next
BY DEF Promise!Next, Promise!Write, HasWrite, Inv, TypeOK

\* A read hold becomes the write hold.
LEMMA SimUpgrade ==
    ASSUME Inv, NEW t \in Thread, NEW k \in Hold, reads \cup upgrading = {<<t, k>>},
           \A u \in Thread : ~HasWrite(u), base' = [base EXCEPT ![t] = "upgraded"],
           reads' = {}, upgrading' = {}
    PROVE  Promise!Next
BY DEF Promise!Next, Promise!Upgrade, HasWrite, Inv, TypeOK

\* A read hold less.
LEMMA SimReleaseRead ==
    ASSUME Inv, NEW t \in Thread, NEW k \in Hold, reads' = reads \ {<<t, k>>},
           <<t, k>> \notin upgrading, UNCHANGED <<upgrading, base>>
    PROVE  Promise!Next
BY DEF Promise!Next, Promise!ReleaseRead, HasWrite

\* The write hold is released.
LEMMA SimReleaseWrite ==
    ASSUME Inv, NEW t \in Thread, HasWrite(t), base' = [base EXCEPT ![t] = "none"],
           UNCHANGED <<reads, upgrading>>
    PROVE  Promise!Next
BY DEF Promise!Next, Promise!ReleaseWrite, HasWrite, Inv, TypeOK, Exclusion

\* The write hold becomes a read hold.
LEMMA SimDowngrade ==
    ASSUME Inv, NEW t \in Thread, NEW k \in Hold, HasWrite(t), <<t, k>> \notin reads \cup upgrading,
           base' = [base EXCEPT ![t] = "none"], reads' = reads \cup {<<t, k>>},
           UNCHANGED upgrading
    PROVE  Promise!Next
<1>1. {u \in Thread : HasWrite(u)} = {t}
  BY DEF Inv, Exclusion
<1>2. {u \in Thread : HasWrite(u)}' = {}
  BY DEF HasWrite, Inv, TypeOK, Exclusion
<1>3. Promise!Downgrade(t, k)
  BY <1>1, <1>2 DEF Promise!Downgrade
<1> QED
  BY <1>3 DEF Promise!Next

\* An upgrade by the recursive holder.
LEMMA SimNestUpgrade ==
    ASSUME Inv, NEW t \in Thread, NEW k \in Hold, NestUpgrade(t, k)
    PROVE  Promise!Next
<1>1. /\ HasWrite(t) /\ reads' = reads \ {<<t, k>>}
      /\ upgrading' = upgrading /\ base' = base
  BY DEF NestUpgrade, MayNestWrite
<1>2. {u \in Thread : HasWrite(u)} = {t}
  BY <1>1 DEF Inv, Exclusion
<1>3. \A r \in reads \cup upgrading : r[1] = t
  BY <1>1 DEF Inv, Exclusion
<1>4. {u \in Thread : HasWrite(u)}' = {t}
  BY <1>1, <1>2 DEF HasWrite
<1>5. \A r \in (reads \cup upgrading)' : r[1] = t
  BY <1>1, <1>3
<1>6. Promise!Nested(t)
  BY <1>2, <1>3, <1>4, <1>5 DEF Promise!Nested, Promise!OnlyHeldBy
<1> QED
  BY <1>6 DEF Promise!Next

\* A nested read hold.
LEMMA SimNestRead ==
    ASSUME Inv, NEW t \in Thread, NestRead(t)
    PROVE  [Promise!Next]_(Promise!vars)
<1>0. ~HoldsNothing(t)
  BY ConstantsAssumption DEF NestRead, Inv, RecursionOwned
<1>1. \A u \in Thread : HasWrite(u) => u = t
  BY <1>0 DEF Inv, Exclusion, HoldsNothing, HasRead
<1> QED
  BY SimRead, <1>1 DEF NestRead

\* Without want_upgrade nobody upgrades.
LEMMA NoUpgrade ==
    ASSUME Inv, ~want_upgrade
    PROVE  upgrading = {} /\ \A u \in Thread : base[u] # "upgraded"
BY DEF Inv, TypeOK, WaitersHoldNothing, WantUpgradeOwned, Upgrades

\* Without want_write nobody has the write hold.
LEMMA NoWriter ==
    ASSUME Inv, ~want_write
    PROVE  \A u \in Thread : base[u] # "write"
BY DEF Inv, WantWriteOwned

\* A reader gets in.
LEMMA SimTakeRead ==
    ASSUME Inv, NEW t \in Thread, ~Blocked("read"), Proceed(t, "read")
    PROVE  [Promise!Next]_(Promise!vars)
<1>1. ~want_write /\ ~want_upgrade
  BY DEF Blocked
<1>2. \A u \in Thread : ~HasWrite(u)
  BY NoUpgrade, NoWriter, <1>1 DEF Inv, TypeOK, HasWrite
<1>3. /\ \E k \in Hold : <<t, k>> \notin reads /\ reads' = reads \cup {<<t, k>>}
      /\ UNCHANGED <<upgrading, base>>
  BY Zenon DEF Proceed
<1> QED
  BY SimRead, <1>2, <1>3

\* The writer gets in.
LEMMA SimTakeWrite ==
    ASSUME Inv, ReadsCounted, NEW t \in Thread, ~Blocked("drain"),
           ~want_write \/ pc[t] = "drain",
           base' = [base EXCEPT ![t] = "write"], UNCHANGED <<reads, upgrading>>
    PROVE  Promise!Next
<1>1. read_count = 0 /\ ~want_upgrade
  BY Zenon DEF Blocked
<1>2. \A u \in Thread : base[u] # "write"
  <2>1. CASE ~want_write
    BY <2>1, NoWriter, Zenon
  <2>2. CASE pc[t] = "drain"
    <3>1. base[t] # "write"
      <4>1. pc[t] # "run"
        BY <2>2
      <4>2. base[t] = "none"
        BY <4>1, Zenon DEF Inv, WaitersHoldNothing, HoldsNothing, HasWrite
      <4> QED BY <4>2
    <3>2. \A u \in Thread : base[u] = "write" => t = u
      BY <2>2, Zenon DEF Inv, WantWriteOwned
    <3> QED BY <3>1, <3>2, Zenon
  <2> QED BY <2>1, <2>2, Zenon
<1>3. \A u \in Thread : ~HasWrite(u)
  BY NoUpgrade, <1>1, <1>2 DEF Inv, TypeOK, HasWrite
<1> QED
  BY SimWrite, NoUpgrade, <1>1, <1>3, Zenon

\* The upgrade is complete.
LEMMA SimTakeUpgrade ==
    ASSUME Inv, ReadsCounted, NEW t \in Thread, pc[t] \in {"upgrade", "try_upgrade"}, ~Blocked(pc[t]),
           base' = [base EXCEPT ![t] = "upgraded"],
           upgrading' = {r \in upgrading : r[1] # t}, UNCHANGED reads
    PROVE  Promise!Next
<1>1. reads = {}
  BY DEF Blocked
<1>2. PICK r \in upgrading : r[1] = t
  BY DEF Inv, WaitersHoldNothing
<1>3. PICK k \in Hold : r = <<t, k>>
  BY <1>2 DEF Inv, TypeOK
<1>4. upgrading = {<<t, k>>}
  BY <1>2, <1>3 DEF Inv, WaitersHoldNothing
<1>5. upgrading' = {}
  BY <1>4
<1>6. \A u \in Thread : ~HasWrite(u)
  BY <1>2 DEF Inv, Exclusion, WaitersHoldNothing, HoldsNothing
<1>7. reads \cup upgrading = {<<t, k>>} /\ reads' = {}
  BY <1>1, <1>4
<1> QED
  BY SimUpgrade, <1>5, <1>6, <1>7, Zenon

\* A reader asks for an upgrade.
LEMMA SimAskUpgrade ==
    ASSUME Inv, ReadsCounted, NEW t \in Thread, NEW k \in Hold, Idle(t), ~HasWrite(t),
           {r \in reads : r[1] = t} = {<<t, k>>}, reads' = reads \ {<<t, k>>},
           \/ want_upgrade /\ UNCHANGED <<upgrading, base>>
           \/ upgrading' = upgrading \cup {<<t, k>>} /\ UNCHANGED base
           \/ /\ ~want_upgrade /\ read_count = 1
              /\ base' = [base EXCEPT ![t] = "upgraded"] /\ UNCHANGED upgrading
    PROVE  [Promise!Next]_(Promise!vars)
<1>0. <<t, k>> \in reads /\ \A u \in Thread : ~HasWrite(u)
  BY DEF Inv, Exclusion
<1>1. CASE UNCHANGED <<upgrading, base>>
  <2>1. <<t, k>> \notin upgrading
    BY DEF Idle, Inv, WaitersHoldNothing
  <2> QED
    BY SimReleaseRead, <1>1, <2>1, Zenon
<1>2. CASE upgrading' = upgrading \cup {<<t, k>>} /\ UNCHANGED base
  BY <1>0, <1>2 DEF HasWrite
<1>3. CASE /\ ~want_upgrade /\ read_count = 1
           /\ base' = [base EXCEPT ![t] = "upgraded"] /\ UNCHANGED upgrading
  <2>1. reads \ {<<t, k>>} = {}
    BY <1>0, <1>3
  <2>2. upgrading = {} /\ reads \cup upgrading = {<<t, k>>}
    BY NoUpgrade, <1>0, <1>3, <2>1
  <2> QED
    BY SimUpgrade, <1>0, <1>3, <2>1, <2>2, ZenonT(30)
<1> QED
  BY <1>1, <1>2, <1>3, Zenon

HIDE DEF Promise!vars, Promise!OnlyHeldBy, ReadsCounted

\* Every step of lock.c is a step of RWLock, or changes no hold.
LEMMA StepSimulation ==
    ASSUME Inv, ReadsCounted, [Next]_vars
    PROVE  [Promise!Next]_(Promise!vars)
<1>1. ASSUME NEW t \in Thread, resume(t) PROVE [Promise!Next]_(Promise!vars)
  <2>1. CASE Blocked(pc[t])
    BY SameHolds, <1>1, <2>1, Zenon DEF resume
  <2>2. CASE ~Blocked(pc[t]) /\ pc[t] = "want_write"
    <3>1. TakeWantWrite(t) /\ ~want_write
      BY <1>1, <2>2, Zenon DEF resume, Proceed, Blocked
    <3> QED
      BY SameHolds, SimTakeWrite, <3>1, Zenon DEF TakeWantWrite, holds
  <2>3. CASE ~Blocked(pc[t]) /\ pc[t] = "read"
    <3>1. Proceed(t, "read") /\ ~Blocked("read")
      BY <1>1, <2>3 DEF resume
    <3> QED
      BY SimTakeRead, <3>1, Zenon
  <2>4. CASE ~Blocked(pc[t]) /\ pc[t] = "drain"
    <3>1. Proceed(t, "drain") /\ ~Blocked("drain")
      BY <1>1, <2>4, ZenonT(30) DEF resume
    <3>2. base' = [base EXCEPT ![t] = "write"] /\ UNCHANGED <<reads, upgrading>>
      BY <3>1, Zenon DEF Proceed
    <3> QED
      BY SimTakeWrite, <2>4, <3>1, <3>2, Zenon
  <2>5. CASE ~Blocked(pc[t]) /\ pc[t] \in {"upgrade", "try_upgrade"}
    <3>1. Proceed(t, pc[t])
      BY <1>1, <2>5, Zenon DEF resume
    <3>2. /\ base' = [base EXCEPT ![t] = "upgraded"]
          /\ upgrading' = {r \in upgrading : r[1] # t} /\ UNCHANGED reads
      BY <2>5, <3>1, ZenonT(30) DEF Proceed
    <3> QED
      BY SimTakeUpgrade, <2>5, <3>2, Zenon
  <2>6. CASE ~Blocked(pc[t]) /\ pc[t] = "run"
    BY <1>1, <2>6, ZenonT(30) DEF resume, Proceed
  <2>7. pc[t] \in {"run", "want_write", "drain", "read", "upgrade", "try_upgrade"}
    BY DEF Loops, Inv, TypeOK
  <2> QED
    BY <2>1, <2>2, <2>3, <2>4, <2>5, <2>6, <2>7
<1>2. ASSUME NEW t \in Thread, lock_write(t) PROVE [Promise!Next]_(Promise!vars)
  BY SameHolds, SimTakeWrite, <1>2, ZenonT(30) DEF lock_write, NestWrite, TakeWantWrite, holds
<1>3. ASSUME NEW t \in Thread, lock_read(t) \/ lock_try_read(t)
       PROVE  [Promise!Next]_(Promise!vars)
  BY SameHolds, SimNestRead, SimTakeRead, <1>3 DEF lock_read, lock_try_read
<1>4. ASSUME NEW t \in Thread, lock_try_write(t) PROVE [Promise!Next]_(Promise!vars)
  BY SameHolds, SimTakeWrite, <1>4 DEF lock_try_write, NestWrite, holds, Blocked
<1>5. ASSUME NEW t \in Thread, lock_done(t) PROVE [Promise!Next]_(Promise!vars)
  <2>1. CASE \E r \in reads : r[1] = t /\ reads' = reads \ {r} /\ UNCHANGED base
    <3>1. PICK k \in Hold : /\ <<t, k>> \in reads /\ reads' = reads \ {<<t, k>>}
                            /\ UNCHANGED base
      <4>1. reads \subseteq Thread \X Hold
        BY Zenon DEF Inv, TypeOK
      <4> QED BY <2>1, <4>1
    <3>2. <<t, k>> \notin upgrading
      <4>1. pc[t] = "run"
        BY <1>5, Zenon DEF lock_done, Idle
      <4>2. \A r \in upgrading : r[1] # t
        BY <4>1 DEF Inv, WaitersHoldNothing
      <4> QED BY <4>2
    <3> QED
      BY SimReleaseRead, <1>5, <3>1, <3>2 DEF lock_done
  <2>2. CASE UNCHANGED <<reads, base>>
    BY SameHolds, <1>5, <2>2 DEF lock_done, holds
  <2>3. CASE ~HasRead(t) /\ base' = [base EXCEPT ![t] = "none"] /\ UNCHANGED reads
    BY SimReleaseWrite, <1>5, <2>3, Zenon DEF lock_done, HoldsNothing
  <2> QED
    BY <1>5, <2>1, <2>2, <2>3 DEF lock_done
<1>6. ASSUME NEW t \in Thread, lock_read_to_write(t) \/ lock_try_read_to_write(t)
       PROVE  [Promise!Next]_(Promise!vars)
  BY SimNestUpgrade, SimAskUpgrade, <1>6 DEF lock_read_to_write, lock_try_read_to_write
<1>7. ASSUME NEW t \in Thread, lock_write_to_read(t) PROVE [Promise!Next]_(Promise!vars)
  <2>1. PICK k \in Hold : <<t, k>> \notin reads /\ reads' = reads \cup {<<t, k>>}
    BY <1>7 DEF lock_write_to_read
  <2>2. /\ HasWrite(t) /\ UNCHANGED upgrading
        /\ UNCHANGED base \/ base' = [base EXCEPT ![t] = "none"]
    BY <1>7, ZenonT(30) DEF lock_write_to_read
  <2>3. <<t, k>> \notin upgrading
    BY <1>7 DEF lock_write_to_read, Idle, Inv, WaitersHoldNothing
  <2>4. \A u \in Thread : HasWrite(u) => u = t
    BY <2>2 DEF Inv, Exclusion
  <2> QED
    BY SimRead, SimDowngrade, <2>1, <2>2, <2>3, <2>4, ZenonT(30)
<1> QED
  BY SameHolds, <1>1, <1>2, <1>3, <1>4, <1>5, <1>6, <1>7
     DEF Next, vars, holds, lock_set_recursive, lock_clear_recursive, lock_sleepable
-----------------------------------------------------------------------------
\* Counting the read holds: adding or removing one changes the count by one.
LEMMA CountReads ==
    ASSUME TypeOK
    PROVE  /\ Cardinality(reads) \in Nat
           /\ Cardinality(reads) = 0 <=> reads = {}
           /\ \A x : x \notin reads => Cardinality(reads \cup {x}) = Cardinality(reads) + 1
           /\ \A x : x \in reads => Cardinality(reads \ {x}) = Cardinality(reads) - 1
           /\ \A x : x \in reads => (Cardinality(reads) = 1 <=> reads \ {x} = {})
<1>1. IsFiniteSet(Thread \X Hold)
  BY ConstantsAssumption, FS_Product
<1>2. IsFiniteSet(reads)
  BY <1>1, FS_Subset DEF TypeOK
<1>3. \A x : IsFiniteSet(reads \ {x})
  BY <1>2, FS_RemoveElement
<1>4. /\ Cardinality(reads) \in Nat
      /\ Cardinality(reads) = 0 <=> reads = {}
      /\ \A x : x \notin reads => Cardinality(reads \cup {x}) = Cardinality(reads) + 1
      /\ \A x : x \in reads => Cardinality(reads \ {x}) = Cardinality(reads) - 1
  BY <1>2, FS_CardinalityType, FS_EmptySet, FS_AddElement, FS_RemoveElement, ZenonT(30)
<1>5. \A x : Cardinality(reads \ {x}) = 0 <=> reads \ {x} = {}
  BY <1>3, FS_EmptySet
<1>6. ASSUME NEW x, x \in reads PROVE Cardinality(reads) = 1 <=> reads \ {x} = {}
  <2>1. Cardinality(reads) = 1 <=> Cardinality(reads) - 1 = 0
    BY <1>4
  <2>2. Cardinality(reads \ {x}) = Cardinality(reads) - 1
    BY <1>4, <1>6
  <2> QED
    BY <2>1, <2>2, <1>5, Zenon
<1> QED
  BY <1>4, <1>6

\* lock_init establishes the invariant.
LEMMA InitInv == lock_init => Inv
<1> SUFFICES ASSUME lock_init PROVE Inv
  OBVIOUS
<1>0. MaxDepth \in Nat /\ CanSleep \in BOOLEAN
  BY ConstantsAssumption
<1>1. TypeOK
  <2>1. can_sleep \in BOOLEAN
    BY <1>0 DEF lock_init
  <2>2. recursion_depth \in 0 .. MaxDepth
    BY <1>0 DEF lock_init
  <2> QED
    BY <2>1, <2>2, ZenonT(30) DEF lock_init, TypeOK, Loops
<1>2. ReadCountExact
  BY FS_EmptySet, Zenon DEF lock_init, ReadCountExact
<1>3. /\ WantWriteOwned /\ WantUpgradeOwned /\ WaitersHoldNothing /\ RecursionOwned
      /\ Exclusion /\ WriteExcludesUpgrade /\ NoLostWakeup
  BY DEF lock_init, WantWriteOwned, WantUpgradeOwned, Upgrades, WaitersHoldNothing,
         RecursionOwned, Exclusion, WriteExcludesUpgrade, NoLostWakeup,
         HasWrite, HasRead, HoldsNothing
<1> QED
  BY <1>1, <1>2, <1>3 DEF Inv

LEMMA ReadFacts == Inv => ReadsCounted
BY CountReads DEF Inv, ReadCountExact, ReadsCounted
-----------------------------------------------------------------------------
\* Type correctness and the whole invariant hold in every reachable state.
THEOREM InvInvariant == Spec => []Inv
<1>1. Inv /\ [Next]_vars => Inv'
  BY NextInv, ReadFacts, Zenon
<1> QED
  BY <1>1, InitInv, PTL DEF Spec

\* Readers, the writer and a pending upgrade exclude each other.
THEOREM ExclusionInvariant == Spec => []Exclusion
BY InvInvariant, PTL DEF Inv

\* read_count is the number of read holds.
THEOREM ReadCountExactInvariant == Spec => []ReadCountExact
BY InvInvariant, PTL DEF Inv

\* No thread sleeps on a condition that has become false.
THEOREM NoLostWakeupInvariant == Spec => []NoLostWakeup
BY InvInvariant, PTL DEF Inv

\* lock.c implements the reader/writer lock RWLock.
THEOREM LockImplementsRWLock == Spec => ImplementsRWLock
<1>1. lock_init => Promise!Init
  BY DEF lock_init, Promise!Init, HasWrite
<1>2. Inv /\ [Next]_vars => [Promise!Next]_(Promise!vars)
  BY StepSimulation, ReadFacts, Zenon
<1> QED
  BY <1>1, <1>2, InvInvariant, PTL DEF Spec, ImplementsRWLock, Promise!Spec
=============================================================================
