-------------------------- MODULE MCTdSourceCache --------------------------
(* A small instance of TdSourceCache for TLC: two profiles, two files.     *)
EXTENDS TdSourceCache, TLC

CONSTANTS dev, release, file1
MCProfiles == {dev, release}
MCFiles == {CMakeLists, file1}
Symmetry == Permutations(MCProfiles)
=============================================================================
