----------------------------- MODULE ChunkReader -----------------------------
(***************************************************************************)
(* How a file above the size threshold is scanned: detectChunks            *)
(* (engine/engine.go) reads it window by window and ReadChunk              *)
(* (engine/chunk/chunk.go) cuts each window down to one chunk.             *)
(*                                                                         *)
(* A byte is "nl" (a newline), "ws" (other white space), "tx" (text) or    *)
(* "sig" (text that starts the signature of an application type: a window  *)
(* that begins with it looks like a binary file to the filetype library).  *)
(***************************************************************************)
EXTENDS Integers, Sequences, FiniteSetsExt

CONSTANTS Size, MaxPeekSize, Files

Bytes == {"nl", "ws", "tx", "sig"}

ASSUME ChunkAssumption ==
    /\ Size \in Nat \ {0} /\ MaxPeekSize \in Nat
    /\ Files \subseteq Seq(Bytes)

VARIABLES file,        \* its content
          consumed,    \* bytes the reader has taken from it
          totalLines,  \* newlines in the chunks scanned so far
          chunks,      \* the chunks handed to the detector
          status

vars == <<file, consumed, totalLines, chunks, status>>

Init ==
    /\ file \in Files
    /\ consumed = 0 /\ totalLines = 0 /\ chunks = <<>>
    /\ status = "reading"

AtEOF == consumed = Len(file)

\* reader.Read fills the whole buffer, of chunk size + peek size, from a file
WindowEnd == Min({consumed + Size + MaxPeekSize, Len(file)})

\* only the first bytes decide the type
LooksBinary == file[consumed + 1] = "sig"

ChecksType == totalLines = 0

\* does file[from..to] end in two newlines, white space between them aside?
EndsWithTwoNewlines(from, to) ==
    \E a, b \in from..to : /\ a < b /\ file[a] = "nl" /\ file[b] = "nl"
                           /\ \A k \in a..to : file[k] \in {"nl", "ws"}

\* Mutant: a single newline is taken for a safe boundary.
ChunkEndAtNewline ==
    LET first == Min({consumed + Size, WindowEnd})
        safe == {n \in first..WindowEnd : file[n] = "nl"}
    IN  Min(safe \cup {WindowEnd})

\* generateChunk: the first safe boundary at or after Size, else all of it
ChunkEnd ==
    LET first == Min({consumed + Size, WindowEnd})
        safe == {n \in first..WindowEnd : EndsWithTwoNewlines(consumed + 1, n)}
    IN  Min(safe \cup {WindowEnd})

LinesIn(from, to) == Cardinality({k \in from..to : file[k] = "nl"})

Scanned(lines) ==
    chunks' = Append(chunks, [from |-> consumed + 1, to |-> ChunkEnd, lines |-> lines])

ScansFile == status = "reading" /\ ~AtEOF /\ ~(ChecksType /\ LooksBinary)

\* Mutant: the whole look-ahead is given back.
ReadChunkTwice ==
    /\ ScansFile
    /\ totalLines' = totalLines + LinesIn(consumed + 1, ChunkEnd)
    /\ Scanned(totalLines)
    /\ consumed' = Min({consumed + Size, Len(file)})
    /\ UNCHANGED <<file, status>>

\* Mutant: the lines of a chunk count as lines before it.
ReadChunkCountsFirst ==
    /\ ScansFile
    /\ totalLines' = totalLines + LinesIn(consumed + 1, ChunkEnd)
    /\ Scanned(totalLines')
    /\ consumed' = WindowEnd
    /\ UNCHANGED <<file, status>>

\* ReadChunk returns a chunk; detectChunks counts its lines and scans it.  The
\* window's bytes after the chunk have been read and are not given back.
ReadChunk ==
    /\ ScansFile
    /\ totalLines' = totalLines + LinesIn(consumed + 1, ChunkEnd)
    /\ Scanned(totalLines)
    /\ consumed' = WindowEnd
    /\ UNCHANGED <<file, status>>

\* ErrUnsupportedFileType: the rest of the file is skipped
SkipFile ==
    /\ status = "reading" /\ ~AtEOF /\ ChecksType /\ LooksBinary
    /\ status' = "skipped"
    /\ consumed' = WindowEnd
    /\ UNCHANGED <<file, totalLines, chunks>>

EndOfFile ==
    /\ status = "reading" /\ AtEOF
    /\ status' = "done"
    /\ UNCHANGED <<file, consumed, totalLines, chunks>>

Ended == status # "reading" /\ UNCHANGED vars

Next == ReadChunk \/ SkipFile \/ EndOfFile \/ Ended

Spec == Init /\ [][Next]_vars

-----------------------------------------------------------------------------
(* Properties.                                                             *)

\* The chunks are in file order, do not overlap, are not empty and fit the pooled
\* buffers: no text is scanned twice, whatever the cut points.
ChunksInOrder ==
    /\ \A k \in DOMAIN chunks : /\ chunks[k].from <= chunks[k].to
                                /\ chunks[k].to <= consumed
                                /\ chunks[k].to - chunks[k].from < Size + MaxPeekSize
    /\ \A k, n \in DOMAIN chunks : k < n => chunks[k].to < chunks[n].from

\* A chunk of less than the whole window is cut at a safe boundary, after the
\* base size: a secret inside a paragraph is never cut by the look-ahead.
CutsAreSafe ==
    \A k \in DOMAIN chunks :
        LET c == chunks[k]
            windowEnd == Min({c.from - 1 + Size + MaxPeekSize, Len(file)})
        IN  c.to = windowEnd \/ (c.to - c.from + 1 >= Size /\ EndsWithTwoNewlines(c.from, c.to))

\* detectChunks adds a chunk's "lines" to the lines it reports: they are the real
\* lines of the file as long as no chunk so far has left bytes behind.
OffsetsFollowChunks ==
    (\A k \in DOMAIN chunks \ {1} : chunks[k].from = chunks[k - 1].to + 1)
        => \A k \in DOMAIN chunks : chunks[k].lines = LinesIn(1, chunks[k].from - 1)
=============================================================================
