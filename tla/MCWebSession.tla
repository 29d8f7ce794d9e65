---------------------------- MODULE MCWebSession ----------------------------
(* WebSession on small instances.  Branches, locations, providers and keys  *)
(* are interchangeable.                                                     *)
EXTENDS WebSession, TLC

Symmetry == Permutations(Branch) \cup Permutations(Location)
            \cup Permutations(Provider) \cup Permutations(Key)
=============================================================================
