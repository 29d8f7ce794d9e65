----------------------------- MODULE MCAgentLoop -----------------------------
(* AgentLoop with the texts that differ for the location checks: a place, a *)
(* bare district, a refused district, another county, two counties at once, *)
(* a correction, and no place at all.                                       *)
EXTENDS AgentLoop, TLC
CONSTANTS c1, c2, d1, d2

Said(cs, yes, no, corrects) ==
    [counties |-> cs, yes |-> yes, no |-> no, corrects |-> corrects]
Utterances ==
    {Said({c1}, {d1}, {}, FALSE), Said({}, {d2}, {}, FALSE),
     Said({}, {}, {d1}, FALSE), Said({c2}, {}, {}, FALSE),
     Said({c1, c2}, {}, {}, FALSE), Said({c1}, {d2}, {d1}, TRUE),
     Said({}, {}, {}, FALSE)}

Symmetry == Permutations(Branch)
=============================================================================
