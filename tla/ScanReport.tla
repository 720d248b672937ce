----------------------------- MODULE ScanReport -----------------------------
(***************************************************************************)
(* What one scan promises its caller, with no goroutine, channel or pool:  *)
(* findings are added to the report one by one, each at most once and      *)
(* never more than the configured limit; the report is published once it   *)
(* holds everything it should, and it does not change afterwards.          *)
(***************************************************************************)
EXTENDS Integers, FiniteSets

CONSTANTS Reportable,  \* the findings of the scanned items that no filter ignores
          Limit        \* --max-findings; 0 means no limit

VARIABLES reported, published

vars == <<reported, published>>

Init == reported = {} /\ published = FALSE

Full == Limit > 0 /\ Cardinality(reported) = Limit

Report(f) ==
    /\ ~published /\ ~Full
    /\ f \notin reported
    /\ reported' = reported \cup {f}
    /\ UNCHANGED published

Publish ==
    /\ ~published
    /\ Full \/ reported = Reportable
    /\ published' = TRUE
    /\ UNCHANGED reported

Next == Publish \/ \E f \in Reportable : Report(f)

Safety == Init /\ [][Next]_vars

Spec == Safety /\ WF_vars(Next)
=============================================================================
