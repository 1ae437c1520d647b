----------------------------- MODULE MCMemPool -----------------------------
EXTENDS Miner

MCTxs == {"a", "b", "c", "d", "e", "f"}
MCCoinbases == {"x1", "y1", "x2", "x3", "x4", "x5"}
\* a splits x1; b and c take its two outputs; d conflicts with a; f joins b and c again; e
\* takes c's output from it.
MCVin == [t \in MCTxs |-> CASE t = "a" -> {<<"x1", 0>>}
                            [] t = "b" -> {<<"a", 0>>, <<"x2", 0>>}
                            [] t = "c" -> {<<"a", 1>>}
                            [] t = "d" -> {<<"x1", 0>>}
                            [] t = "e" -> {<<"c", 0>>}
                            [] t = "f" -> {<<"b", 0>>, <<"c", 0>>}]
MCVout == [t \in MCTxs \union MCCoinbases |-> IF t = "a" THEN {0, 1} ELSE {0}]
MCHeight == [c \in MCCoinbases |-> CASE c \in {"x1", "y1"} -> 1
                                      [] c = "x2" -> 2 [] c = "x3" -> 3 [] c = "x4" -> 4 [] c = "x5" -> 5]
=============================================================================
