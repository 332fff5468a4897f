---------------------------- MODULE MCScepEnroll ----------------------------
(* A small instance of ScepEnroll for TLC.                                 *)
EXTENDS ScepEnroll, TLC

CONSTANTS k1, k2, t1, t2

MCConfigs == {[approval |-> TRUE, getCert |-> FALSE],
              [approval |-> FALSE, getCert |-> TRUE]}

MCKeyTid == k1 :> t1 @@ k2 :> t2
=============================================================================
