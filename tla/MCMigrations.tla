---------------------------- MODULE MCMigrations ----------------------------
EXTENDS Migrations, TLC

\* The second references the first.
Pair == 1 :> {} @@ 2 :> {1}

Symmetry == Permutations(Runs)
=============================================================================
