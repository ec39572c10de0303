--------------------------------- MODULE MCLink ---------------------------------
(* Small instances of Link for TLC.                                              *)
EXTENDS Link, TLC

Symmetry == Permutations(Phones)

================================================================================
