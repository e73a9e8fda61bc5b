------------------------------ MODULE MCGsync ------------------------------
(* Instances of Gsync for TLC. *)
EXTENDS Gsync, TLC

Symmetry == Permutations(Thread)

\* States are told apart by what is still read of a call and of a wait result.
At(t) == IF pc[t] = "asleep" THEN after[t] ELSE pc[t]
ReadOf(t) ==
    CASE At(t) \in {"back", "leave"} -> <<call[t].key>>
      [] At(t) = "dequeue" -> <<call[t].key, call[t].broadcast>>
      [] OTHER -> <<call[t]>>
View ==
    <<val, next, prev, key, held, sleepers, pc, after, wild,
      [t \in Thread |-> <<ReadOf(t), pc[t] = "back" /\ wait_result[t] = "AWAKENED">>]>>
=============================================================================
