---------------------------- MODULE MCPrComments ----------------------------
(***************************************************************************)
(* Two patches: tag "a" names the first, "b" is in the names of both and   *)
(* "c" names the second.                                                   *)
(***************************************************************************)
EXTENDS PrComments

TwoNames ==
    [t \in Tags |-> CASE t = "a" -> {1} [] t = "b" -> {1, 2} [] OTHER -> {2}]
=============================================================================
