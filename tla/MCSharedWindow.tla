--------------------------- MODULE MCSharedWindow ---------------------------
(* SharedWindow for two spellings of a route with rules of their own. *)
EXTENDS SharedWindow, TLC

CONSTANTS upper, lower     \* the spellings /A and /a

MCRoutes == {upper, lower}
MCLower == [route \in MCRoutes |-> lower]
MCRuleOf == (upper :> [limit |-> 1, window |-> 2]) @@ (lower :> [limit |-> 2, window |-> 4])
MCEqualWindows == (upper :> [limit |-> 1, window |-> 2]) @@ (lower :> [limit |-> 2, window |-> 2])
CallerSymmetry == Permutations(Callers)
=============================================================================
