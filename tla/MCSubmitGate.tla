---------------------------- MODULE MCSubmitGate ----------------------------
(***************************************************************************)
(* Small instance of SubmitGate: two keys, two cycles, and two kills of    *)
(* which one is a whole-jobset kill.  Cycles and keys are interchangeable. *)
(***************************************************************************)
EXTENDS SubmitGate, TLC

Symmetry == Permutations(Keys) \cup Permutations(Cycles)
=============================================================================
