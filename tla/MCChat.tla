--------------------------------- MODULE MCChat ---------------------------------
(* Instances of Chat for TLC. *)
EXTENDS Chat, TLC

\* Posts differ in nothing but their names.
RequestSymmetry == Permutations(Posts)
=============================================================================
