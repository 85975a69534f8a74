------------------------------ MODULE MC_Sched ------------------------------
(* Instances of Sched for model checking. *)
EXTENDS Sched, TLC

PageSymmetry == Permutations(Page)
=============================================================================
