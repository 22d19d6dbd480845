---------------------------- MODULE MCCiReports ----------------------------
(***************************************************************************)
(* Two runs of one job each; the two jobs have names of their own or share *)
(* one, as jobs of two workflows may.                                      *)
(***************************************************************************)
EXTENDS CiReports

CONSTANTS r1, r2, j1, j2

OneJobEach == [r \in Runs |-> IF r = r1 THEN {j1} ELSE {j2}]
OwnNames == [j \in Jobs |-> j]
SharedName == [j \in Jobs |-> j1]
=============================================================================
