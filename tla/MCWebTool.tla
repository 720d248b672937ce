------------------------------ MODULE MCWebTool ------------------------------
(* A token found by a provider's and by a keyword rule at one spot, and a     *)
(* keyword match of the same value, a placeholder there, in an excluded file. *)
EXTENDS WebTool, TLC

CONSTANTS s1, j1, j2, a, b, v, aws1, key1, key2

MCFileOf == (aws1 :> a) @@ (key1 :> a) @@ (key2 :> b)
MCLineOf == [f \in {aws1, key1, key2} |-> 1]
MCRuleOf == (aws1 :> "aws") @@ (key1 :> "keyword") @@ (key2 :> "keyword")
MCValueOf == [f \in {aws1, key1, key2} |-> 1]
MCFails == (aws1 :> {"comment"}) @@ (key1 :> {}) @@ (key2 :> {"placeholder"})

Scan(source, filters) == [source |-> source, excludes |-> ~filters, filters |-> filters,
                          feedback |-> TRUE, aggressive |-> TRUE]
MCOptions == (j1 :> {Scan("git", TRUE)}) @@ (j2 :> {Scan("path", FALSE)})
=============================================================================
