--------------------------- MODULE MCFileStorage ---------------------------
(* Two uploads of a file of two chunks, one kill. *)
EXTENDS FileStorage, TLC
CONSTANTS a, b
UploadSymmetry == Permutations({a, b})
=============================================================================
