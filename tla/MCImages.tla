------------------------------ MODULE MCImages ------------------------------
(* Instances of Images for TLC. *)
EXTENDS Images, TLC

ImageSymmetry == Permutations(Keys) \cup Permutations(Editors)

=============================================================================
