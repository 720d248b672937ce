---------------------------- MODULE MCLibraryCalls ----------------------------
(* Two calls; the errors of one just fit into the places there are.         *)
EXTENDS LibraryCalls

ASSUME MaxErrors = ErrorsCap + DynamicBuffer + 1
=============================================================================
