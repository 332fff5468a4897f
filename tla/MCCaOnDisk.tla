------------------------------ MODULE MCCaOnDisk ------------------------------
(* A small instance of CaOnDisk for TLC.                                   *)
EXTENDS CaOnDisk, TLC

CaOnDiskSymmetry == Permutations(Servers)
=============================================================================
