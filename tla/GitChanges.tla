----------------------------- MODULE GitChanges -----------------------------
(***************************************************************************)
(* The git plugin's path from a file diff to a reported line               *)
(* (plugins/git.go): extractChanges packs the added and the removed lines  *)
(* of the hunks into chunks of bounded size, processFileDiff emits each    *)
(* chunk as two items, and, for a finding in an item, GetGitStartAndEndLine*)
(* walks the hunks again to recover the line of the file.                  *)
(*                                                                         *)
(* A diff is a sequence of hunks [newPosition, oldPosition, lines], a line *)
(* is [op, size].  A content is the sequence of the places <<hunk, line>>  *)
(* of the diff lines written to it.                                        *)
(***************************************************************************)
EXTENDS Integers, Sequences, FiniteSets

CONSTANTS Diffs, MaxChunkSize, MaxLineSize, MaxFileDiffSize

Ops == {"add", "delete", "context"}
Kinds == {"add", "delete"}   \* AddedContent, RemovedContent

\* a line has its newline, or is the last and not empty
DiffLine == [op : Ops, size : Nat \ {0}]
Hunk == [newPosition : Nat, oldPosition : Nat, lines : Seq(DiffLine)]

ASSUME GitAssumption ==
    /\ MaxChunkSize \in Nat \ {0} /\ MaxLineSize \in Nat /\ MaxFileDiffSize \in Nat
    /\ Diffs \subseteq Seq(Hunk)

VARIABLES diff, at,                \* the hunks; the place of the next line
          current, currentSize,    \* the builders and what they hold
          totalSize, packed,       \* the chunks packed and not emitted yet
          items,                   \* the items emitted: [kind, content]
          phase

gitVars == <<diff, at, current, currentSize, totalSize, packed, items, phase>>

Empty == [k \in Kinds |-> <<>>]

GitInit ==
    /\ diff \in Diffs
    /\ at = <<1, 1>>
    /\ current = Empty /\ currentSize = 0 /\ totalSize = 0
    /\ packed = <<>> /\ items = <<>>
    /\ phase = "extracting"

Line(place) == diff[place[1]].lines[place[2]]

AtLine == /\ phase = "extracting" /\ at[1] \in DOMAIN diff
          /\ at[2] \in DOMAIN diff[at[1]].lines

Advance == at' = <<at[1], at[2] + 1>>

NextHunk ==
    /\ phase = "extracting" /\ at[1] \in DOMAIN diff /\ at[2] > Len(diff[at[1]].lines)
    /\ at' = <<at[1] + 1, 1>>
    /\ UNCHANGED <<diff, current, currentSize, totalSize, packed, items, phase>>

NewTotal == totalSize + Line(at).size

\* ErrFileDiffSizeExceeded: the whole file diff is skipped, its chunks dropped
DiffTooLarge ==
    /\ AtLine /\ NewTotal > MaxFileDiffSize
    /\ totalSize' = NewTotal
    /\ packed' = <<>> /\ phase' = "done"
    /\ UNCHANGED <<diff, at, current, currentSize, items>>

SkipLongLine ==
    /\ AtLine /\ NewTotal <= MaxFileDiffSize /\ Line(at).size > MaxLineSize
    /\ totalSize' = NewTotal
    /\ Advance
    /\ UNCHANGED <<diff, current, currentSize, packed, items, phase>>

\* Mutant: the chunk is flushed only once it is too large.
FlushesLate == currentSize > MaxChunkSize

\* the line would make the chunk too large, unless it is the first in it
Flushes == currentSize > 0 /\ currentSize + Line(at).size > MaxChunkSize

Written(builders) ==
    [k \in Kinds |-> IF k = Line(at).op THEN Append(builders[k], at) ELSE builders[k]]

AddLine ==
    /\ AtLine /\ NewTotal <= MaxFileDiffSize /\ Line(at).size <= MaxLineSize
    /\ totalSize' = NewTotal
    /\ packed' = IF Flushes THEN Append(packed, current) ELSE packed
    /\ current' = Written(IF Flushes THEN Empty ELSE current)
    /\ currentSize' = (IF Flushes THEN 0 ELSE currentSize)
                      + (IF Line(at).op \in Kinds THEN Line(at).size ELSE 0)
    /\ Advance
    /\ UNCHANGED <<diff, items, phase>>

\* Mutant: what is left in the builders is forgotten.
NoFinalChunk ==
    /\ phase = "extracting" /\ at[1] \notin DOMAIN diff
    /\ phase' = "emitting"
    /\ UNCHANGED <<diff, at, current, currentSize, totalSize, packed, items>>

FinalChunk ==
    /\ phase = "extracting" /\ at[1] \notin DOMAIN diff
    /\ packed' = IF currentSize > 0 THEN Append(packed, current) ELSE packed
    /\ phase' = "emitting"
    /\ UNCHANGED <<diff, at, current, currentSize, totalSize, items>>

\* processFileDiff: the added, then the removed content, unless they are empty
Emitted(chunk) ==
    (IF chunk["add"] = <<>> THEN <<>> ELSE <<[kind |-> "add", content |-> chunk["add"]]>>) \o
    (IF chunk["delete"] = <<>> THEN <<>> ELSE <<[kind |-> "delete", content |-> chunk["delete"]]>>)

EmitChunk ==
    /\ phase = "emitting" /\ packed # <<>>
    /\ items' = items \o Emitted(Head(packed))
    /\ packed' = Tail(packed)
    /\ UNCHANGED <<diff, at, current, currentSize, totalSize, phase>>

AllEmitted ==
    /\ phase = "emitting" /\ packed = <<>>
    /\ phase' = "done"
    /\ UNCHANGED <<diff, at, current, currentSize, totalSize, packed, items>>

GitEnded == phase = "done" /\ UNCHANGED gitVars

GitNext == \/ NextHunk \/ DiffTooLarge \/ SkipLongLine \/ AddLine \/ FinalChunk
           \/ EmitChunk \/ AllEmitted \/ GitEnded

GitSpec == GitInit /\ [][GitNext]_gitVars

-----------------------------------------------------------------------------
(* GetGitStartAndEndLine, for a finding on local lines first..last (from 0) *)
(* of an item of that kind.                                                 *)

HunkPosition(kind, hunk) == IF kind = "add" THEN hunk.newPosition ELSE hunk.oldPosition

CountOf(kind, lines) == Cardinality({n \in DOMAIN lines : lines[n].op = kind})

\* the places of the diff's lines of one kind, in the order the hunks are walked
PlacesOf(kind) == {p \in UNION {{h} \X DOMAIN diff[h].lines : h \in DOMAIN diff} : Line(p).op = kind}

Earlier(p, q) == p[1] < q[1] \/ (p[1] = q[1] /\ p[2] < q[2])

\* the line that counts as number "local": it has so many lines of its kind before it
Walk(kind, local) ==
    {p \in PlacesOf(kind) : Cardinality({q \in PlacesOf(kind) : Earlier(q, p)}) = local}

\* Mutant: the context lines are not counted.
FileLineWithoutContext(kind, p) ==
    HunkPosition(kind, diff[p[1]]) + CountOf(kind, SubSeq(diff[p[1]].lines, 1, p[2] - 1))

\* the hunk's position, one more for each line of the kind and each context line
FileLine(kind, p) ==
    LET before == SubSeq(diff[p[1]].lines, 1, p[2] - 1)
    IN  HunkPosition(kind, diff[p[1]]) + CountOf(kind, before) + CountOf("context", before)

NoLine == <<0, 0>>

GetGitStartAndEndLine(kind, first, last) ==
    IF Walk(kind, first) = {} THEN NoLine
    ELSE LET start == CHOOSE n \in {FileLine(kind, p) : p \in Walk(kind, first)} : TRUE
         IN  <<start, start + (last - first)>>

-----------------------------------------------------------------------------
(* Properties.                                                             *)

\* the bytes of a content, each with its line's place in it
SizeOf(content) ==
    Cardinality(UNION {{n} \X (1..Line(content[n]).size) : n \in DOMAIN content})

ChunkSize(chunk) == SizeOf(chunk["add"]) + SizeOf(chunk["delete"])

\* Memory stays bounded, and the flush test is right at both ends: no packed
\* chunk is empty, and a chunk over the chunk size holds a single line.
ChunksAreBounded ==
    \A n \in DOMAIN packed :
        /\ ChunkSize(packed[n]) > 0
        /\ \/ ChunkSize(packed[n]) <= MaxChunkSize
           \/ Len(packed[n]["add"]) + Len(packed[n]["delete"]) = 1

\* where the contents of a kind have their lines: in which item, at which place
Spots(kind) ==
    UNION {{n} \X DOMAIN items[n].content : n \in {m \in DOMAIN items : items[m].kind = kind}}

EmittedAt(spot) == items[spot[1]].content[spot[2]]

\* A file diff over the size limit emits nothing; of any other, every added and
\* every removed line that is not overlong is emitted exactly once, in the order
\* of the diff: chunking loses no line and repeats none.
EveryLineIsEmitted ==
    phase = "done" =>
        \A kind \in Kinds :
            LET expected == IF totalSize > MaxFileDiffSize THEN {}
                            ELSE {p \in PlacesOf(kind) : Line(p).size <= MaxLineSize}
            IN  /\ {EmittedAt(s) : s \in Spots(kind)} = expected
                /\ \A r, s \in Spots(kind) : Earlier(r, s) => Earlier(EmittedAt(r), EmittedAt(s))

IsFirst(n) == \A m \in 1..n - 1 : items[m].kind # items[n].kind

\* The line of the file that a line of the diff is, by the definition of a diff:
\* the added (removed) lines and the context are the new (old) file.
TrueLine(kind, p) ==
    LET other == IF kind = "add" THEN "delete" ELSE "add"
        hunk == diff[p[1]]
    IN  (IF kind = "add" THEN hunk.newPosition ELSE hunk.oldPosition)
        + Cardinality({n \in 1..p[2] - 1 : hunk.lines[n].op # other})

\* In the first content of its kind, with no overlong line before it, a finding
\* on one line is reported at that line of the file.
FirstContentLinesAreExact ==
    \A i \in DOMAIN items : IsFirst(i) =>
        \A n \in DOMAIN items[i].content :
            LET kind == items[i].kind
                p == items[i].content[n]
            IN  (\A q \in PlacesOf(kind) : Earlier(q, p) => Line(q).size <= MaxLineSize)
                    => GetGitStartAndEndLine(kind, n - 1, n - 1)
                         = <<TrueLine(kind, p), TrueLine(kind, p)>>
=============================================================================
