---------------------------- MODULE MCDataImport ----------------------------
(* DataImport on small instances: two services and two vendors, an area     *)
(* that the demo rows use and one they do not, two districts that share the *)
(* name of the first.                                                       *)
EXTENDS DataImport, TLC

CONSTANTS v1, v2, s17, s18, d1, d2, n1, n2, o1

Vendors == {v1, v2}
ServiceIds == {s17, s18}
DistrictCodes == {d1, d2}
AreaNames == {n1, n2}
Orders == {o1}
Named1 == [d \in {d1, d2} |-> n1]
Demo == {n1}

Source(vs, of, ds, orphans, ref, fb, os) ==
    [vendors |-> vs, vendorOf |-> of, districts |-> ds, orphans |-> orphans,
     reference |-> ref, feedback |-> fb, orders |-> os]
Row(s, v, f) == o1 :> [service |-> s, vendor |-> v, finding |-> f]

\* What differs between datasets: the services and their vendors, then the areas.
Catalogues ==
    {[of |-> s17 :> v1, fb |-> {s18}, os |-> Row(s18, v2, "none")],
     [of |-> s17 :> v1 @@ s18 :> v2, fb |-> {}, os |-> Row(s18, v1, "error")],
     [of |-> s17 :> v2 @@ s18 :> v1, fb |-> {s17}, os |-> Row(s17, v1, "warning")],
     [of |-> s18 :> v1, fb |-> {}, os |-> << >>]}
SmallSources ==
    {Source(vs, c.of, {d1}, {}, {n1, n2}, c.fb, c.os) :
        vs \in {{v1}, {v1, v2}}, c \in Catalogues}
    \cup
    {Source({v1}, s17 :> v1, ds, orphans, ref, {}, << >>) :
        ds \in SUBSET {d1, d2}, orphans \in {{}, {d2}}, ref \in {{n1, n2}, {n1}, {}}}
=============================================================================
