---------------------------- MODULE MCGdsClient ----------------------------
(* Symmetry of the application threads, which differ only in name.         *)
EXTENDS GdsClient, TLC

UserSymmetry == Permutations(Users)
=============================================================================
