---------------------------- MODULE MCDispatcher ----------------------------
EXTENDS Dispatcher, TLC

\* A route to one of the honeypots, and a path that leaves the choice to chance.
TheRoute == [p \in Paths |-> IF p = "/php" THEN "php" ELSE Unknown]

Perms == Permutations(Conns)
=============================================================================
