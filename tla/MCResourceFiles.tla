--------------------------- MODULE MCResourceFiles ---------------------------
EXTENDS ResourceFiles

\* Two creations of one upload, which name its files in a different order.
MCWants == [r \in Resources |-> IF r = "r1" THEN <<"x", "y">> ELSE <<"y", "x">>]
=============================================================================
