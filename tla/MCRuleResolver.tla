--------------------------- MODULE MCRuleResolver ---------------------------
(* Model-checking instance of RuleResolver: paths of one to three bytes that *)
(* extend one another or part. *)
EXTENDS RuleResolver

MCPaths == {<<"/">>, <<"/", "a">>, <<"/", "a", "b">>, <<"/", "c">>}
=============================================================================
