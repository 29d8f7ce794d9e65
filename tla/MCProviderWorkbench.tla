------------------------- MODULE MCProviderWorkbench -------------------------
(* ProviderWorkbench on small instances.  Cases and providers are           *)
(* interchangeable.                                                         *)
EXTENDS ProviderWorkbench, TLC

Symmetry == Permutations(Case) \cup Permutations(Provider)
=============================================================================
