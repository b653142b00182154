--------------------------- MODULE MCMediaUpload ---------------------------
(***************************************************************************)
(* MediaUpload for TLC: the symmetric sets of the safety runs.             *)
(***************************************************************************)
EXTENDS MediaUpload, TLC

Symmetry ==
  Permutations(Tokens) \cup Permutations(Declarations) \cup Permutations(Images)
    \cup Permutations(Finalizers) \cup Permutations(Requests)
=============================================================================
