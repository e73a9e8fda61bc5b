----------------------------- MODULE MCIpcRight -----------------------------
(* Instances of IpcRight for TLC. *)
EXTENDS IpcRight, TLC

CONSTANTS
    Backup,             \* ports that requests are only directed to
    Kinds               \* the kinds of requests registered for the others

Made == [p \in Port |-> IF p \in Backup THEN 0 ELSE 1]
Registered == [p \in Port |-> IF p \in Backup THEN {} ELSE Kinds]

Symmetry == Permutations(Space) \cup Permutations(Name)
=============================================================================
