---------------------------- MODULE MCShimInstall ----------------------------
(* Small instances of ShimInstall.                                           *)
EXTENDS ShimInstall, TLC

CwSymmetry == Permutations(Cw)
=============================================================================
