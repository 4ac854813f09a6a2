----------------------------- MODULE MCDocument -----------------------------
(* Document for TLC: texts and names as model values.  Only the names are  *)
(* interchangeable, because one of the texts is Empty.                     *)
EXTENDS Document, TLC

NameSymmetry == Permutations(Names)
=============================================================================
