--------------------------- MODULE MCImgfsShared ---------------------------
(* Model values for ImgfsShared. *)
EXTENDS ImgfsShared, TLC

CONSTANTS a, b, x, y, p1, p2

Symmetry == Permutations(Procs) \cup Permutations(ImgIds) \cup Permutations(Images)
=============================================================================
