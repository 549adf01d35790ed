--------------------------- MODULE MCImagePipeline ---------------------------
(* Symmetry and bound for the safety run of ImagePipeline: DELETE requests    *)
(* and workers are interchangeable; images are not, one of them is undoable.  *)
EXTENDS ImagePipeline, TLC

\* A crash or a failed call, not both: the proofs have any number of each.
OneFault == crashes + errors <= 1

Symmetry == Permutations(Deletes) \cup Permutations(Workers)
=============================================================================
