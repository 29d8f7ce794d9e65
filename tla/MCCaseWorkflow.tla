--------------------------- MODULE MCCaseWorkflow ---------------------------
(* CaseWorkflow on a small instance: sessions, providers and keys are model *)
(* values, interchangeable, so TLC explores them up to renaming.            *)
EXTENDS CaseWorkflow, TLC

Symmetry == Permutations(Session) \cup Permutations(Provider) \cup Permutations(Key)
=============================================================================
