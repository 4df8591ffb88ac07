-------------------------- MODULE MCPluginInstall --------------------------
EXTENDS PluginInstall, TLC

\* Installations are interchangeable.
Symmetry == Permutations(Installs)
=============================================================================
