---------------------------- MODULE MCCallRecords ----------------------------
(* The records of a call on small sets of requests and bridges, given in the   *)
(* cfg files. The bridges are alike: the passing run explores them up to        *)
(* symmetry.                                                                *)
EXTENDS CallRecords, TLC

Symmetry == Permutations(Bridges)

=============================================================================
