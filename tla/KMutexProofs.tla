---------------------------- MODULE KMutexProofs ----------------------------
(***************************************************************************)
(* Proofs about KMutex for any set of threads: the invariant Inv is        *)
(* inductive, and every step is a step of Mutex or a stutter of it.        *)
(***************************************************************************)
EXTENDS KMutex, QueueLemmas

\* kmutex_init establishes the invariant.
LEMMA InitInv == kmutex_init => Inv
BY EmptyFacts DEF kmutex_init, Inv, TypeOK, MutualExclusion, AvailableIffUnowned,
       SleepersSeen, QueueIsSleepers, Holds, States, Points

USE DEF Goto, States, Points

\* Each action preserves the invariant.
LEMMA NextInv == Inv /\ [Next]_vars => Inv'
<1> SUFFICES ASSUME Inv, [Next]_vars PROVE Inv'
  OBVIOUS
<1> USE DEF Inv, TypeOK, MutualExclusion, AvailableIffUnowned, SleepersSeen,
            QueueIsSleepers, Holds
<1>1. ASSUME NEW t \in Thread, NEW intr \in BOOLEAN, kmutex_lock_fast(t, intr)
      PROVE  Inv'
  BY <1>1 DEF kmutex_lock_fast
<1>2. ASSUME NEW t \in Thread, kmutex_trylock(t)
      PROVE  Inv'
  BY <1>2 DEF kmutex_trylock
<1>3. ASSUME NEW t \in Thread, kmutex_lock_slow(t)
      PROVE  Inv'
  <2>1. CASE state = "AVAIL"
    BY <1>3, <2>1 DEF kmutex_lock_slow
  <2>2. CASE state # "AVAIL"
    <3>1. /\ queue' = Append(queue, t) /\ pc' = [pc EXCEPT ![t] = "sleeping"]
          /\ pc[t] = "lock_slow" /\ state' = "CONTENDED"
          /\ interruptible' = interruptible /\ wait_result' = wait_result
      BY <1>3, <2>2 DEF kmutex_lock_slow
    <3>2. t \notin Range(queue)
      BY <3>1
    <3>3. /\ queue' \in Seq(Thread) /\ Range(queue') = Range(queue) \cup {t}
          /\ IsInjective(queue')
      BY <3>1, <3>2, EnqueueFacts
    <3>4. TypeOK'
      BY <3>1, <3>3
    <3>5. \A u \in Thread : Holds(u)' <=> Holds(u)
      BY <3>1
    <3>6. MutualExclusion' /\ AvailableIffUnowned' /\ SleepersSeen'
      BY <2>2, <3>1, <3>5
    <3>7. QueueIsSleepers'
      BY <3>1, <3>3
    <3> QED
      BY <3>4, <3>6, <3>7
  <2> QED
    BY <2>1, <2>2
<1>4. ASSUME NEW t \in Thread, kmutex_lock_return(t)
      PROVE  Inv'
  BY <1>4 DEF kmutex_lock_return
<1>5. ASSUME NEW t \in Thread, kmutex_unlock_fast(t)
      PROVE  Inv'
  BY <1>5 DEF kmutex_unlock_fast
<1>6. ASSUME NEW t \in Thread, kmutex_unlock_slow(t)
      PROVE  Inv'
  <2>1. CASE queue = << >>
    BY <1>6, <2>1 DEF kmutex_unlock_slow
  <2>2. CASE queue # << >>
    <3> DEFINE h == Head(queue)
    <3>1. /\ queue' = Tail(queue)
          /\ pc' = [pc EXCEPT ![t] = "idle", ![h] = "awake"]
          /\ wait_result' = [wait_result EXCEPT ![h] = "AWAKENED"]
          /\ state' = state /\ interruptible' = interruptible
          /\ pc[t] = "unlock_slow"
      BY <1>6, <2>2 DEF kmutex_unlock_slow
    <3>2. /\ queue' \in Seq(Thread) /\ h \in Thread /\ h \in Range(queue)
          /\ Range(queue') = Range(queue) \ {h} /\ IsInjective(queue')
      BY <2>2, <3>1, DequeueFacts
    <3> HIDE DEF h
    <3>3. pc[h] = "sleeping" /\ h # t
      BY <3>1, <3>2
    <3>4. TypeOK'
      BY <3>1, <3>2
    <3>5. \A u \in Thread : Holds(u)' <=> u = h
      BY <3>1, <3>2, <3>3
    <3>6. MutualExclusion' /\ AvailableIffUnowned' /\ SleepersSeen'
      BY <2>2, <3>1, <3>2, <3>5
    <3>7. QueueIsSleepers'
      BY <3>1, <3>2, <3>3
    <3> QED
      BY <3>4, <3>6, <3>7
  <2> QED
    BY <2>1, <2>2
<1>7. ASSUME NEW i \in 1 .. Len(queue), interrupt(i)
      PROVE  Inv'
  <2> DEFINE h == queue[i]
  <2>1. /\ queue' = remqueue(queue, i)
        /\ pc' = [pc EXCEPT ![h] = "awake"]
        /\ wait_result' = [wait_result EXCEPT ![h] = "INTERRUPTED"]
        /\ state' = state /\ interruptible' = interruptible
    BY <1>7 DEF interrupt
  <2>2. h \in Thread /\ h \in Range(queue)
    BY DEF Range
  <2>3. /\ queue' \in Seq(Thread)
        /\ Range(queue') = Range(queue) \ {h} /\ IsInjective(queue')
    BY <2>1, UnlinkFacts
  <2> HIDE DEF h
  <2>4. pc[h] = "sleeping"
    BY <2>2
  <2>5. TypeOK'
    BY <2>1, <2>2, <2>3
  <2>6. \A u \in Thread : Holds(u)' <=> Holds(u)
    BY <2>1, <2>2, <2>4
  <2>7. MutualExclusion' /\ AvailableIffUnowned'
    BY <2>1, <2>6
  <2>8. SleepersSeen'
    BY <2>1, <2>2, <2>6 DEF Range
  <2>9. QueueIsSleepers'
    BY <2>1, <2>2, <2>3, <2>4
  <2> QED
    BY <2>5, <2>7, <2>8, <2>9
<1>8. CASE UNCHANGED vars
  BY <1>8 DEF vars
<1> QED
  BY <1>1, <1>2, <1>3, <1>4, <1>5, <1>6, <1>7, <1>8 DEF Next, Step

\* Type correctness and the four safety invariants of KMutex, for any number
\* of threads calling kmutex_lock, kmutex_trylock and kmutex_unlock.
THEOREM InvInvariant == Spec => []Inv
BY InitInv, NextInv, PTL DEF Spec

\* kmutex_lock and kmutex_trylock give the mutex to at most one thread.
THEOREM MutualExclusionInvariant == Spec => []MutualExclusion
<1>1. Inv => MutualExclusion
  BY DEF Inv
<1> QED
  BY <1>1, InvInvariant, PTL

\* A sleeper is always seen by the owner: kmutex_unlock cannot miss it.
THEOREM SleepersSeenInvariant == Spec => []SleepersSeen
<1>1. Inv => SleepersSeen
  BY DEF Inv
<1> QED
  BY <1>1, InvInvariant, PTL

\* Every step of kmutex.c is a step of Mutex or changes neither the holder nor
\* the threads that wait.
LEMMA StepSimulation == Inv /\ [Next]_vars => [M!Next]_<<Holders, queue>>
<1> SUFFICES ASSUME Inv, [Next]_vars PROVE [M!Next]_<<Holders, queue>>
  OBVIOUS
<1> USE DEF Inv, TypeOK, Holds
<1>1. ASSUME NEW t \in Thread, NEW intr \in BOOLEAN, kmutex_lock_fast(t, intr)
      PROVE  M!Acquire(t) \/ UNCHANGED <<Holders, queue>>
  BY <1>1 DEF kmutex_lock_fast, M!Acquire, Holders, AvailableIffUnowned
<1>2. ASSUME NEW t \in Thread, kmutex_trylock(t)
      PROVE  M!Acquire(t)
  BY <1>2 DEF kmutex_trylock, M!Acquire, Holders, AvailableIffUnowned
<1>3. ASSUME NEW t \in Thread, kmutex_lock_slow(t)
      PROVE  M!Acquire(t) \/ M!Wait(t)
  <2>1. CASE state = "AVAIL"
    BY <1>3, <2>1 DEF kmutex_lock_slow, M!Acquire, Holders, AvailableIffUnowned
  <2>2. CASE state # "AVAIL"
    BY <1>3, <2>2 DEF kmutex_lock_slow, M!Wait, Holders, AvailableIffUnowned
  <2> QED
    BY <2>1, <2>2
<1>4. ASSUME NEW t \in Thread, kmutex_lock_return(t)
      PROVE  UNCHANGED <<Holders, queue>>
  BY <1>4 DEF kmutex_lock_return, Holders
<1>5. ASSUME NEW t \in Thread, kmutex_unlock_fast(t)
      PROVE  M!Release(t) \/ UNCHANGED <<Holders, queue>>
  BY <1>5 DEF kmutex_unlock_fast, M!Release, Holders, MutualExclusion, SleepersSeen
<1>6. ASSUME NEW t \in Thread, kmutex_unlock_slow(t)
      PROVE  M!Release(t) \/ M!Pass(t)
  <2>1. Holders = {t}
    BY <1>6 DEF kmutex_unlock_slow, Holders, MutualExclusion
  <2>2. CASE queue = << >>
    BY <1>6, <2>1, <2>2 DEF kmutex_unlock_slow, M!Release, Holders, MutualExclusion
  <2>3. CASE queue # << >>
    <3>1. Head(queue) \in Range(queue) /\ Head(queue) \in Thread
      BY <2>3, DequeueFacts
    <3>2. pc[Head(queue)] = "sleeping" /\ Head(queue) # t
      BY <1>6, <3>1 DEF kmutex_unlock_slow, QueueIsSleepers
    <3>3. Holders' = {Head(queue)} /\ queue' = Tail(queue)
      BY <1>6, <2>3, <3>1, <3>2 DEF kmutex_unlock_slow, Holders, MutualExclusion
    <3> QED
      BY <2>1, <2>3, <3>3 DEF M!Pass
  <2> QED
    BY <2>2, <2>3
<1>7. ASSUME NEW i \in 1 .. Len(queue), interrupt(i)
      PROVE  M!GiveUp(i)
  <2>1. queue[i] \in Thread /\ pc[queue[i]] = "sleeping"
    BY DEF QueueIsSleepers, Range
  <2>2. Holders' = Holders
    BY <1>7, <2>1 DEF interrupt, Holders
  <2> QED
    BY <1>7, <2>2 DEF interrupt, M!GiveUp, M!remqueue, remqueue
<1>8. CASE UNCHANGED vars
  BY <1>8 DEF vars, Holders
<1> QED
  BY <1>1, <1>2, <1>3, <1>4, <1>5, <1>6, <1>7, <1>8 DEF Next, Step, M!Next

\* kmutex.c implements a mutex that is handed to the thread that has slept
\* longest, and is free only when nobody sleeps.
THEOREM KMutexImplementsMutex == Spec => ImplementsMutex
<1>1. kmutex_init => M!Init
  BY DEF kmutex_init, M!Init, Holders, Holds
<1> QED
  BY <1>1, StepSimulation, InvInvariant, PTL DEF Spec, ImplementsMutex, M!Spec
=============================================================================
