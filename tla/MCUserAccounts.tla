--------------------------- MODULE MCUserAccounts ---------------------------
(* Two calls of any kind on two accounts, one of which can act on the other *)
(* and be deleted; two ids and an email are free, so that two creations can *)
(* meet.                                                                    *)
EXTENDS UserAccounts, TLC
CONSTANTS u1, u2, u3, u4, e1, e2, e3, super, p1, c1, c2
Symmetry == Permutations({c1, c2}) \cup Permutations({u3, u4})
=============================================================================
