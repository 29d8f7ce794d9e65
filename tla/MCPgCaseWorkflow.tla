-------------------------- MODULE MCPgCaseWorkflow --------------------------
(* PgCaseWorkflow with two workers on one database.  Workers, providers and *)
(* keys are interchangeable; the safety runs explore them up to renaming.   *)
EXTENDS PgCaseWorkflow, TLC

Symmetry == Permutations(Worker) \cup Permutations(Provider) \cup Permutations(Key)
=============================================================================
