---- MODULE MCTokenRotation ----
EXTENDS TokenRotation, TLC
Perms == Permutations(Rotations) \cup Permutations(Readers)
====
