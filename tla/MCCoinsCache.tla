---------------------------- MODULE MCCoinsCache ----------------------------
(* Small instances of CoinsCache. *)
EXTENDS CoinsCache, TLC

CONSTANTS t1, t2, c1, c2, h1, h2

Symmetry == Permutations({t1, t2}) \union Permutations({c1, c2}) \union Permutations({h1, h2})
=============================================================================
