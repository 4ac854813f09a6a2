----------------------------- MODULE MCRecorder -----------------------------
(* Two documents, which are alike, and texts and recordings of two pieces. *)
EXTENDS Recorder

Symmetry == Permutations(Tab)

=============================================================================
