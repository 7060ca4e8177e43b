----------------------------- MODULE MCAccounts -----------------------------
EXTENDS Accounts, TLC

CONSTANTS c1, c2, n1, n2, p1, p2, s1, s2

Symmetry == Permutations({c1, c2}) \cup Permutations({n1, n2}) \cup Permutations({p1, p2})
=============================================================================
