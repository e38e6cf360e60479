------------------------------ MODULE MCStores ------------------------------
(* Bounded instance of Stores.                                             *)
EXTENDS Stores

TwoTenants == <<"t1", "t2">>
OneType == <<"email", "email">>
Backwards == <<2, 1>>
Symmetry == Permutations(Procs)
=============================================================================
