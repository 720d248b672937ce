---------------------------- MODULE MCCommandLine ----------------------------
(* Two readers, one of them with more items than the channel holds.         *)
EXTENDS CommandLine, TLC

CONSTANTS r1, r2

TwoAndOne == (r1 :> 2) @@ (r2 :> 1)
=============================================================================
