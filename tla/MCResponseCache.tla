-------------------------- MODULE MCResponseCache --------------------------
(* ResponseCache with two functions of one prefix, and two tenants. *)
EXTENDS ResponseCache, TLC
CONSTANTS f, g
SmallPrefix == [x \in Functions |-> "p"]
SmallFallback == [x \in Functions |-> x = f]
SmallBases == {<<"user">>, <<"profile">>}
Symmetry == Permutations(Clients) \cup Permutations(Tenants)
============================================================================
