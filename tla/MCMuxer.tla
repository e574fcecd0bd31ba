------------------------------ MODULE MCMuxer ------------------------------
(* Model-checking instances of Muxer. *)
EXTENDS Muxer, TLC

\* The slots of the thread pool are interchangeable.
SlotSymmetry == Permutations(Slots)
=============================================================================
