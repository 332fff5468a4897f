---------------------------- MODULE MCEstSession ----------------------------
(* Small instances of EstSession for TLC.                                 *)
EXTENDS EstSession, TLC

EstSymmetry == Permutations(Outs)
=============================================================================
