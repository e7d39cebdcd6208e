---- MODULE MCUserCache ----
EXTENDS UserCache, TLC
Perms == Permutations(Handlers)
====
