-------------------------------- MODULE Sums ---------------------------------
(***************************************************************************)
(* The sum of the numbers f[h], as the number of unit tokens that h with   *)
(* f[h] = 3 owns three of: <<h, 1>>, <<h, 2>>, <<h, 3>>.  A cardinality,   *)
(* unlike a fold, has library theorems a proof can cite.                   *)
(***************************************************************************)
EXTENDS Integers, FiniteSets

Units(f) == UNION {{h} \X (1..f[h]) : h \in DOMAIN f}

SumOf(f) == Cardinality(Units(f))
=============================================================================
