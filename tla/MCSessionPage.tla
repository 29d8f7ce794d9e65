---------------------------- MODULE MCSessionPage ----------------------------
(* SessionPage on small instances.  Checklist items are interchangeable.    *)
EXTENDS SessionPage, TLC

Symmetry == Permutations(Item)
=============================================================================
