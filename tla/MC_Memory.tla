----------------------------- MODULE MC_Memory -----------------------------
(* Instances of Memory for model checking. *)
EXTENDS Memory
=============================================================================
