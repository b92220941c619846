---------------------------- MODULE MCTreeDelete ----------------------------
(***************************************************************************)
(* A tree with a directory d (1) holding x (2) and room for y (3), beside  *)
(* a file f (4).                                                           *)
(***************************************************************************)
EXTENDS TreeDelete

MCParent == [n \in 0..4 |-> IF n \in {2, 3} THEN 1 ELSE 0]
MCAbove == [n \in 0..4 |-> IF n = 0 THEN {} ELSE IF n \in {2, 3} THEN {0, 1} ELSE {0}]
=============================================================================
