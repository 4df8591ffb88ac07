---------------------------- MODULE MCPluginVault ----------------------------
EXTENDS PluginVault

\* Two batches that share a file, and two more files than the quota admits.
MCWants == [b \in Batches |-> IF b = "b1" THEN <<"x", "y", "z">> ELSE <<"z", "u", "v">>]
=============================================================================
