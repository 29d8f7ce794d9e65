------------------------------- MODULE DataGate -------------------------------
(***************************************************************************)
(* What importing the organizer's data promises to the agent, which reads  *)
(* the database through the views of the agent schema: the database is     *)
(* only ever changed by loading, at once, everything the rules derive from *)
(* one dataset that passes them and fits the rows already there.           *)
(***************************************************************************)
EXTENDS DataRules

CONSTANT Sources        \* the datasets the organizer may provide

VARIABLE db

Init == db = EmptyDatabase

\* A load that changes nothing is a stutter.
Load(src) ==
    /\ db' # db
    /\ RulesPass(src)
    /\ Integrity(Loaded(db, src))
    /\ db' = Loaded(db, src)

Next == \E src \in Sources : Load(src)

Spec == Init /\ [][Next]_db
===============================================================================
