----------------------------- MODULE MCConfluence -----------------------------
(* A space with two pages, one with an older version; a space with a page   *)
(* that is too large in its first version; an empty space and a hidden one. *)
EXTENDS Confluence, TLC

CONSTANTS p1, p2, p3, hidden, s1, s2, empty, secret, bad

PageSpaces == (p1 :> s1) @@ (p2 :> s1) @@ (p3 :> s2) @@ (hidden :> secret)
Before == (p1 :> 2) @@ (p2 :> 1) @@ (p3 :> 1) @@ (hidden :> 1)
After == (p1 :> 3) @@ (p2 :> 1) @@ (p3 :> 2) @@ (hidden :> 1)
LargeBodies == {<<p3, 1>>}

SomeSelections == {
    [ids |-> {}, keys |-> {}, pages |-> {}],
    [ids |-> {s2, empty, bad}, keys |-> {s1, empty, secret}, pages |-> {}],
    [ids |-> {}, keys |-> {empty}, pages |-> {}],
    [ids |-> {s1}, keys |-> {s1}, pages |-> {p2, p3, hidden, bad}]}
=============================================================================
