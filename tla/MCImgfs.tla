------------------------------ MODULE MCImgfs ------------------------------
(* Model values for Imgfs. *)
EXTENDS Imgfs, TLC

CONSTANTS a, b, c, x, y, garbage

IdSymmetry == Permutations(ImgIds)
ImageSymmetry == Permutations(Images)
Symmetry == IdSymmetry \cup ImageSymmetry
=============================================================================
