--------------------------- MODULE MCImgfsServer ---------------------------
(* Model values for ImgfsServer. *)
EXTENDS ImgfsServer, TLC

CONSTANTS a, b, x, w1, w2, SIGINT, SIGTERM

Symmetry == Permutations(Workers)
=============================================================================
