---------------------------- MODULE MCHttpSession ----------------------------
(* Small instances of HttpSession for TLC.                                 *)
EXTENDS HttpSession, TLC

RespSymmetry == Permutations(Resps)
=============================================================================
