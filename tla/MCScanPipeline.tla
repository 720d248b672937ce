--------------------------- MODULE MCScanPipeline ---------------------------
(* Instances of ScanPipeline small enough for TLC.                         *)
EXTENDS ScanPipeline, TLC

CONSTANTS i1, i2, i3, i4, f1, f2, f3, f4, f5, f6, id1, id2

\* Two messages, one fragment each; f2 is ignored, and f5 cannot be built: f6 behind
\* it is lost.
MessageItems == {i1, i2}
MessageFragments == i1 :> <<<<f1, f2, f3>>>> @@ i2 :> <<<<f4, f5, f6>>>>
NoWeights == [i \in Items |-> 0]

\* Four files, of which i1 and i2 do not fit into memory together: i1 can fill the
\* secrets channel and wait on it with the memory that i2 queues for, while i3 fills
\* the pool's queue and i4 is with the submitter.  A build error ends i2 in its second
\* chunk, i3 is too heavy, and i4 cannot be read.
FileItems == {i1, i2, i3, i4}
FileFragments == i1 :> <<<<f1, f2>>>> @@ i2 :> <<<<f3>>, <<f5, f6>>>> @@ i3 :> <<<<f4>>>> @@ i4 :> <<<<>>>>
FileWeights == i1 :> 2 @@ i2 :> 2 @@ i3 :> 4 @@ i4 :> 1

AllFindings == {f1, f2, f3, f4, f5, f6}

\* f1 and f3 are two occurrences of one secret
SharedIDs == [f \in AllFindings |-> IF f \in {f1, f3} THEN id1 ELSE id2]
=============================================================================
