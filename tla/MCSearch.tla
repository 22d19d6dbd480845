------------------------------ MODULE MCSearch ------------------------------
(***************************************************************************)
(* Three series of one patch each: a version of T, one of U, another of T. *)
(***************************************************************************)
EXTENDS Search

CONSTANTS T, U

OnePatchEach == [p \in Patches |-> p]
TwoSubjects == [s \in Series |-> IF s = 2 THEN U ELSE T]
=============================================================================
