---------------------------- MODULE MCGithubSync ----------------------------
(***************************************************************************)
(* Small instances of GithubSync for TLC.                                  *)
(***************************************************************************)
EXTENDS GithubSync

CONSTANTS w1, w2

\* Every series maps to one target.
OneTarget == {<<w1>>}

\* Or to none: no tag matches and there is no __DEFAULT__.
OneTargetOrNone == {<<w1>>, <<>>}

\* Every series maps to both targets, in the configured order.
TwoTargets == {<<w1, w2>>}
=============================================================================
