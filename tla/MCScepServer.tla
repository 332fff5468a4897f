---------------------------- MODULE MCScepServer ----------------------------
(* Small instances of ScepServer for TLC.                                  *)
EXTENDS ScepServer, TLC

ServerSymmetry == Permutations(Keys) \cup Permutations(Subjects) \cup Permutations(Tids)

MCConfigs == {[approval |-> TRUE, getCert |-> FALSE],
              [approval |-> FALSE, getCert |-> TRUE]}
=============================================================================
