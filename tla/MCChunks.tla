------------------------------ MODULE MCChunks ------------------------------
(* What cuts a text into chunks: all files of up to MaxLength bytes, and    *)
(* diffs of two hunks of up to MaxLines lines each.  A scan is of files or  *)
(* of a repository: one of the two is at work, the other has nothing to do. *)
EXTENDS ChunkReader, GitChanges

CONSTANTS MaxLength, MaxLines, Sizes

AllFiles == UNION {[1..n -> Bytes] : n \in 0..MaxLength}

Lines == [op : Ops, size : Sizes]
HunkLines == UNION {[1..n -> Lines] : n \in 1..MaxLines}
Hunks(new, old) == {[newPosition |-> new, oldPosition |-> old, lines |-> l] : l \in HunkLines}
SmallDiffs == {<<>>} \cup {<<g, h>> : g \in Hunks(3, 2), h \in Hunks(20, 30)}

ChunksInit == \/ file = <<>> /\ Init /\ GitInit
              \/ diff = <<>> /\ GitInit /\ Init

ChunksNext == (Next /\ UNCHANGED gitVars) \/ (GitNext /\ UNCHANGED vars)

ChunksSpec == ChunksInit /\ [][ChunksNext]_<<vars, gitVars>>
=============================================================================
