----------------------------- MODULE MCSession ------------------------------
(* Session with interchangeable file names. *)
EXTENDS Session, TLC

FileSymmetry == Permutations(Files)
=============================================================================
