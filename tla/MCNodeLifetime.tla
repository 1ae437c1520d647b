--------------------------- MODULE MCNodeLifetime ---------------------------
EXTENDS NodeLifetime, TLC

CONSTANTS x1, x2

\* Two pointers for one address.
MCNodes == {x1, x2}
MCAddr == (x1 :> 1) @@ (x2 :> 1)
=============================================================================
