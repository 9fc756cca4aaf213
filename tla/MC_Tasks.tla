------------------------------ MODULE MC_Tasks ------------------------------
(* Instances of Tasks for TLC: a turn and two cancels of its task.           *)
EXTENDS Tasks, TLC

Symmetry == Permutations(Cancel) \cup Permutations(Inode)

=============================================================================
