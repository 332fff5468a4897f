---------------------------- MODULE MCScepSession ----------------------------
(* Small instances of ScepSession for TLC.                                 *)
EXTENDS ScepSession, TLC

ScepSymmetry == Permutations(Outs) \cup Permutations(Keys) \cup Permutations(Certs)
=============================================================================
