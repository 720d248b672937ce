----------------------------- MODULE ChunkProofs -----------------------------
(* Proofs about what cuts a text into chunks: ChunkReader, for every file,   *)
(* chunk size and look-ahead, and GitChanges, for every diff and all limits. *)
EXTENDS ChunkReader, GitChanges, FiniteSetTheorems, SequenceTheorems, TLAPS

-----------------------------------------------------------------------------
(* Facts about the operators.                                              *)

\* Min is what its name says, for any nonempty set of natural numbers.
LEMMA MinIsLeast ==
  ASSUME NEW T, T \subseteq Nat, T # {}
  PROVE  Min(T) \in T /\ \A y \in T : Min(T) <= y
  <1>1. PICK x \in T : \A y \in T : ~(<<y, x>> \in OpToRel(<, Nat))
    BY WFMin, NatLessThanWellFounded, Zenon
  <1>2. \A y \in T : ~(y < x)
    BY <1>1, Zenon DEF OpToRel
  <1>3. \A y \in T : x <= y
    BY <1>2
  <1> QED
    BY <1>3 DEF Min

LEMMA LinesInType == ASSUME NEW a \in Int, NEW b \in Int PROVE LinesIn(a, b) \in Nat
  <1>1. IsFiniteSet({k \in a..b : file[k] = "nl"})
    BY FS_Interval, FS_Subset, Zenon
  <1> QED
    BY <1>1, FS_CardinalityType DEF LinesIn

\* The lines of two stretches that follow each other add up.
LEMMA LinesAddUp ==
  ASSUME NEW b \in Nat, NEW c \in Nat, b <= c
  PROVE  LinesIn(1, c) = LinesIn(1, b) + LinesIn(b + 1, c)
  <1> DEFINE S == {k \in 1..b : file[k] = "nl"}
             T == {k \in (b + 1)..c : file[k] = "nl"}
  <1>1. IsFiniteSet(S) /\ IsFiniteSet(T)
    <2>1. IsFiniteSet(1..b) /\ IsFiniteSet((b + 1)..c)
      BY FS_Interval
    <2> QED
      BY <2>1, FS_Subset, Zenon
  <1>2. S \cap T = {} /\ S \cup T = {k \in 1..c : file[k] = "nl"}
    OBVIOUS
  <1>3. Cardinality(S \cup T) = Cardinality(S) + Cardinality(T) - Cardinality(S \cap T)
    BY <1>1, FS_Union, Zenon
  <1>4. Cardinality(S \cap T) = 0 /\ Cardinality(S) \in Nat /\ Cardinality(T) \in Nat
    BY <1>1, <1>2, FS_EmptySet, FS_CardinalityType
  <1>5. /\ LinesIn(1, c) = Cardinality(S \cup T)
        /\ LinesIn(1, b) = Cardinality(S) /\ LinesIn(b + 1, c) = Cardinality(T)
    BY <1>2 DEF LinesIn
  <1> HIDE DEF S, T
  <1> QED
    BY <1>3, <1>4, <1>5

-----------------------------------------------------------------------------
(* The inductive invariant: chunks are records of places in the file, each *)
(* is right, and the next one begins where the reader is.                  *)

Chunk == [from : Nat \ {0}, to : Nat, lines : Nat]

Types ==
    /\ file \in Seq(Bytes) /\ consumed \in 0..Len(file)
    /\ totalLines \in Nat /\ chunks \in Seq(Chunk)

LastEnd == IF chunks = <<>> THEN 0 ELSE chunks[Len(chunks)].to

NoneLeftBehind == \A k \in DOMAIN chunks \ {1} : chunks[k].from = chunks[k - 1].to + 1

IInv ==
    /\ Types /\ ChunksInOrder /\ CutsAreSafe /\ OffsetsFollowChunks
    /\ status = "reading" /\ chunks = <<>> => consumed = 0
    /\ NoneLeftBehind => totalLines = LinesIn(1, LastEnd)

LEMMA InitHolds == Init => IInv
  <1> SUFFICES ASSUME Init PROVE IInv
    OBVIOUS
  <1>1. Types
    <2>1. Len(file) \in Nat /\ <<>> \in Seq(Chunk)
      BY ChunkAssumption DEF Init, ChunkAssumption
    <2> QED
      BY <2>1, ChunkAssumption DEF Init, ChunkAssumption, Types
  <1>2. LinesIn(1, 0) = 0
    BY FS_EmptySet DEF LinesIn
  <1> QED
    BY <1>1, <1>2 DEF IInv, Init, ChunksInOrder, CutsAreSafe, OffsetsFollowChunks, LastEnd

\* The reader advances, by a window at most, and a chunk is a beginning of the
\* window: not empty, at least as long as the base size unless it is all of it.
LEMMA CutInWindow ==
  ASSUME Types, ~AtEOF
  PROVE  /\ consumed < WindowEnd /\ WindowEnd <= Len(file)
         /\ WindowEnd <= consumed + Size + MaxPeekSize
         /\ ChunkEnd \in (consumed + 1)..WindowEnd
         /\ \/ ChunkEnd = WindowEnd
            \/ /\ ChunkEnd >= consumed + Size
               /\ EndsWithTwoNewlines(consumed + 1, ChunkEnd)
  <1> USE DEF Types
  <1>1. Size \in Nat \ {0} /\ MaxPeekSize \in Nat /\ Len(file) \in Nat /\ consumed \in Nat
        /\ consumed < Len(file)
    BY ChunkAssumption DEF ChunkAssumption, AtEOF
  <1>2. /\ WindowEnd \in {consumed + Size + MaxPeekSize, Len(file)}
        /\ WindowEnd <= Len(file) /\ WindowEnd <= consumed + Size + MaxPeekSize
    <2> DEFINE T == {consumed + Size + MaxPeekSize, Len(file)}
    <2>1. T \subseteq Nat /\ T # {}
      BY <1>1
    <2>2. Min(T) \in T /\ \A y \in T : Min(T) <= y
      BY <2>1, MinIsLeast
    <2> QED
      BY <2>2 DEF WindowEnd
  <1>3. consumed < WindowEnd /\ WindowEnd \in Nat
    BY <1>1, <1>2
  <1> DEFINE first == Min({consumed + Size, WindowEnd})
             safe == {n \in first..WindowEnd : EndsWithTwoNewlines(consumed + 1, n)}
  <1>4. first \in {consumed + Size, WindowEnd} /\ first <= WindowEnd
    <2> DEFINE T == {consumed + Size, WindowEnd}
    <2>1. T \subseteq Nat /\ T # {}
      BY <1>1, <1>3
    <2>2. Min(T) \in T /\ \A y \in T : Min(T) <= y
      BY <2>1, MinIsLeast
    <2> QED
      BY <2>2
  <1> HIDE DEF first
  <1>5. first \in Nat /\ consumed < first
    BY <1>1, <1>3, <1>4
  <1>6. ChunkEnd \in safe \cup {WindowEnd}
    <2>1. safe \cup {WindowEnd} \subseteq Nat
      BY <1>3, <1>5
    <2> DEFINE T == safe \cup {WindowEnd}
    <2>2. T # {}
      OBVIOUS
    <2>3. Min(T) \in T
      <3> HIDE DEF T
      <3> QED
        BY <2>1, <2>2, MinIsLeast DEF T
    <2> QED
      BY <2>3 DEF ChunkEnd, first
  <1> QED
    BY <1>1, <1>2, <1>3, <1>4, <1>5, <1>6

LEMMA ReadChunkKeeps == IInv /\ ReadChunk => IInv'
  <1> SUFFICES ASSUME IInv, ReadChunk PROVE IInv'
    OBVIOUS
  <1> DEFINE c == [from |-> consumed + 1, to |-> ChunkEnd, lines |-> totalLines]
             n == Len(chunks) + 1
  <1>1. /\ Types /\ Size \in Nat /\ MaxPeekSize \in Nat /\ Len(file) \in Nat
        /\ file' = file /\ status = "reading" /\ status' = status
        /\ consumed' = WindowEnd /\ chunks' = Append(chunks, c)
        /\ totalLines' = totalLines + LinesIn(consumed + 1, ChunkEnd)
    BY ChunkAssumption DEF IInv, Types, ReadChunk, ScansFile, Scanned, ChunkAssumption
  <1>2. /\ consumed < WindowEnd /\ WindowEnd <= Len(file)
        /\ WindowEnd <= consumed + Size + MaxPeekSize
        /\ ChunkEnd \in (consumed + 1)..WindowEnd
        /\ \/ ChunkEnd = WindowEnd
           \/ ChunkEnd >= consumed + Size /\ EndsWithTwoNewlines(consumed + 1, ChunkEnd)
    BY <1>1, CutInWindow DEF ReadChunk, ScansFile
  <1>3. WindowEnd \in Nat /\ consumed \in Nat /\ ChunkEnd \in Nat /\ c \in Chunk
        /\ totalLines \in Nat /\ LinesIn(consumed + 1, ChunkEnd) \in Nat
    <2>1. WindowEnd \in Int
      <3>1. {consumed + Size + MaxPeekSize, Len(file)} \subseteq Nat
        BY <1>1 DEF Types
      <3> QED
        BY <3>1, MinIsLeast DEF WindowEnd
    <2>2. consumed \in Nat /\ ChunkEnd \in Nat /\ totalLines \in Nat /\ WindowEnd \in Nat
      BY <1>1, <1>2, <2>1 DEF Types
    <2> QED
      BY <2>2, LinesInType DEF Chunk
  <1>4. chunks \in Seq(Chunk) /\ Len(chunks) \in Nat /\ DOMAIN chunks = 1..Len(chunks)
    BY <1>1 DEF Types
  <1>5. /\ DOMAIN chunks' = 1..n /\ Len(chunks') = n /\ chunks' # <<>>
        /\ chunks'[n] = c /\ \A k \in 1..Len(chunks) : chunks'[k] = chunks[k]
    BY <1>1, <1>3, <1>4
  <1>6. Types'
    BY <1>1, <1>2, <1>3, <1>4 DEF Types
  <1>7. ChunksInOrder'
    <2>1. \A k \in 1..Len(chunks) :
              /\ chunks[k] \in Chunk /\ chunks[k].from <= chunks[k].to
              /\ chunks[k].to <= consumed /\ chunks[k].to - chunks[k].from < Size + MaxPeekSize
      BY <1>4 DEF IInv, ChunksInOrder
    <2>2. \A k, m \in 1..Len(chunks) : k < m => chunks[k].to < chunks[m].from
      BY <1>4 DEF IInv, ChunksInOrder
    <2>3. \A k \in 1..n : /\ chunks'[k].from <= chunks'[k].to /\ chunks'[k].to <= WindowEnd
                          /\ chunks'[k].to - chunks'[k].from < Size + MaxPeekSize
      <3> SUFFICES ASSUME NEW k \in 1..n
                   PROVE  /\ chunks'[k].from <= chunks'[k].to /\ chunks'[k].to <= WindowEnd
                          /\ chunks'[k].to - chunks'[k].from < Size + MaxPeekSize
        OBVIOUS
      <3>1. CASE k = n
        BY <1>1, <1>2, <1>3, <1>5, <3>1
      <3>2. CASE k \in 1..Len(chunks)
        <4>1. chunks[k].to \in Nat /\ chunks'[k] = chunks[k]
          BY <1>5, <2>1, <3>2 DEF Chunk
        <4>2. chunks[k].to <= WindowEnd
          BY <1>2, <1>3, <2>1, <3>2, <4>1
        <4> QED
          BY <2>1, <3>2, <4>1, <4>2
      <3> QED
        BY <1>4, <3>1, <3>2
    <2>4. \A k, m \in 1..n : k < m => chunks'[k].to < chunks'[m].from
      <3> SUFFICES ASSUME NEW k \in 1..n, NEW m \in 1..n, k < m
                   PROVE  chunks'[k].to < chunks'[m].from
        OBVIOUS
      <3>1. k \in 1..Len(chunks) /\ (m = n \/ m \in 1..Len(chunks))
        BY <1>4
      <3>2. CASE m = n
        BY <1>3, <1>5, <2>1, <3>1, <3>2 DEF Chunk
      <3> QED
        BY <1>5, <2>2, <3>1, <3>2
    <2> QED
      BY <1>1, <1>5, <2>3, <2>4 DEF ChunksInOrder
  <1>8. CutsAreSafe'
    <2>1. ASSUME NEW k \in 1..Len(chunks)
          PROVE  \/ chunks[k].to = Min({chunks[k].from - 1 + Size + MaxPeekSize, Len(file)})
                 \/ /\ chunks[k].to - chunks[k].from + 1 >= Size
                    /\ EndsWithTwoNewlines(chunks[k].from, chunks[k].to)
      BY <1>4 DEF IInv, CutsAreSafe
    <2>2. \/ c.to = Min({c.from - 1 + Size + MaxPeekSize, Len(file)})
          \/ c.to - c.from + 1 >= Size /\ EndsWithTwoNewlines(c.from, c.to)
      <3>1. c.from - 1 = consumed /\ c.to - c.from + 1 = c.to - consumed
        BY <1>3
      <3>2. CASE ChunkEnd = WindowEnd
        BY <3>1, <3>2 DEF WindowEnd
      <3>3. CASE ChunkEnd >= consumed + Size /\ EndsWithTwoNewlines(consumed + 1, ChunkEnd)
        BY <1>1, <1>3, <3>1, <3>3
      <3> QED
        BY <1>2, <3>2, <3>3
    <2>3. \A a, b \in Nat : EndsWithTwoNewlines(a, b)' = EndsWithTwoNewlines(a, b)
      BY <1>1 DEF EndsWithTwoNewlines
    <2>4. ASSUME NEW k \in 1..n
          PROVE  \/ chunks'[k].to = Min({chunks'[k].from - 1 + Size + MaxPeekSize, Len(file)})
                 \/ /\ chunks'[k].to - chunks'[k].from + 1 >= Size
                    /\ EndsWithTwoNewlines(chunks'[k].from, chunks'[k].to)
      <3>1. k = n \/ k \in 1..Len(chunks)
        BY <1>4
      <3> HIDE DEF c
      <3> QED
        BY <1>5, <2>1, <2>2, <3>1
    <2> QED
      BY <1>1, <1>5, <2>4 DEF CutsAreSafe, EndsWithTwoNewlines
  <1>9. OffsetsFollowChunks' /\ (NoneLeftBehind => totalLines = LinesIn(1, LastEnd))'
    <2>1. \A a, b \in Int : LinesIn(a, b)' = LinesIn(a, b)
      BY <1>1 DEF LinesIn
    <2> SUFFICES ASSUME NoneLeftBehind'
                 PROVE  /\ \A k \in 1..n : chunks'[k].lines = LinesIn(1, chunks'[k].from - 1)
                        /\ totalLines' = LinesIn(1, ChunkEnd)
      <3>1. LastEnd' = ChunkEnd
        BY <1>5 DEF LastEnd
      <3>2. ASSUME NEW k \in 1..n PROVE chunks'[k].from - 1 \in Int
        <4>1. chunks'[k] \in Chunk
          BY <1>5, <1>6 DEF Types
        <4> QED
          BY <4>1 DEF Chunk
      <3> QED
        BY <1>3, <1>5, <2>1, <3>1, <3>2 DEF OffsetsFollowChunks, NoneLeftBehind
    <2>2. NoneLeftBehind
      <3> SUFFICES ASSUME NEW k \in (1..Len(chunks)) \ {1}
                   PROVE  chunks[k].from = chunks[k - 1].to + 1
        BY <1>4 DEF NoneLeftBehind
      <3>1. k \in (1..n) \ {1} /\ k - 1 \in 1..Len(chunks)
        BY <1>4
      <3> QED
        BY <1>5, <3>1 DEF NoneLeftBehind
    <2>3. \A k \in 1..Len(chunks) : chunks[k].lines = LinesIn(1, chunks[k].from - 1)
      BY <1>4, <2>2 DEF IInv, OffsetsFollowChunks, NoneLeftBehind
    <2>4. totalLines = LinesIn(1, consumed)
      <3>1. totalLines = LinesIn(1, LastEnd)
        BY <2>2 DEF IInv
      <3>2. LastEnd = consumed
        <4>1. CASE chunks = <<>>
          BY <1>1, <4>1 DEF IInv, LastEnd
        <4>2. CASE chunks # <<>>
          <5>1. n \in (1..n) \ {1} /\ n - 1 = Len(chunks) /\ Len(chunks) \in 1..Len(chunks)
            BY <1>4, <4>2
          <5>2. chunks'[n].from = chunks'[n - 1].to + 1
            BY <1>5, <5>1 DEF NoneLeftBehind
          <5>3. chunks'[n - 1] = chunks[Len(chunks)] /\ chunks[Len(chunks)] \in Chunk
            BY <1>4, <1>5, <5>1
          <5>4. chunks[Len(chunks)].to \in Nat
            BY <5>3 DEF Chunk
          <5>5. consumed + 1 = chunks[Len(chunks)].to + 1
            BY <1>5, <5>2, <5>3
          <5> QED
            BY <1>3, <4>2, <5>4, <5>5 DEF LastEnd
        <4> QED
          BY <4>1, <4>2
      <3> QED
        BY <3>1, <3>2
    <2>5. c.lines = LinesIn(1, c.from - 1)
      <3>1. c.from - 1 = consumed
        BY <1>3
      <3> QED
        BY <2>4, <3>1
    <2>6. totalLines' = LinesIn(1, ChunkEnd)
      BY <1>1, <1>2, <1>3, <2>4, LinesAddUp
    <2>7. ASSUME NEW k \in 1..n PROVE chunks'[k].lines = LinesIn(1, chunks'[k].from - 1)
      <3>1. k = n \/ k \in 1..Len(chunks)
        BY <1>4
      <3> HIDE DEF c
      <3> QED
        BY <1>5, <2>3, <2>5, <3>1
    <2> QED
      BY <2>6, <2>7
  <1> QED
    BY <1>5, <1>6, <1>7, <1>8, <1>9 DEF IInv

LEMMA StepKeeps == IInv /\ [Next]_vars => IInv'
  <1> SUFFICES ASSUME IInv, [Next]_vars PROVE IInv'
    OBVIOUS
  <1>1. CASE ReadChunk
    BY <1>1, ReadChunkKeeps
  <1>2. ASSUME UNCHANGED <<file, totalLines, chunks>>, consumed' \in consumed..Len(file),
               status' = "reading" => consumed' = consumed /\ status = "reading"
        PROVE  IInv'
    <2>1. Types /\ Types'
      BY <1>2 DEF IInv, Types
    <2>2. ChunksInOrder'
      <3>1. ASSUME NEW k \in DOMAIN chunks PROVE chunks[k].to \in Nat
        <4>1. chunks[k] \in Chunk
          BY <2>1 DEF Types
        <4> QED
          BY <4>1 DEF Chunk
      <3> QED
        BY <1>2, <2>1, <3>1 DEF IInv, ChunksInOrder, Types
    <2>3. CutsAreSafe'
      BY <1>2 DEF IInv, CutsAreSafe, EndsWithTwoNewlines
    <2>4. OffsetsFollowChunks' /\ (NoneLeftBehind => totalLines = LinesIn(1, LastEnd))'
      BY <1>2 DEF IInv, OffsetsFollowChunks, NoneLeftBehind, LastEnd, LinesIn
    <2> QED
      BY <1>2, <2>1, <2>2, <2>3, <2>4 DEF IInv
  <1>3. consumed \in 0..Len(file) /\ Len(file) \in Nat
    BY DEF IInv, Types
  <1>4. CASE SkipFile
    <2>1. consumed < WindowEnd /\ WindowEnd <= Len(file) /\ WindowEnd \in Int
      <3>1. {consumed + Size + MaxPeekSize, Len(file)} \subseteq Nat
        BY <1>3, ChunkAssumption DEF ChunkAssumption
      <3>2. WindowEnd \in Nat
        BY <3>1, MinIsLeast DEF WindowEnd
      <3> QED
        BY <1>4, <3>2, CutInWindow DEF SkipFile, IInv
    <2> QED
      BY <1>2, <1>3, <1>4, <2>1 DEF SkipFile
  <1>5. CASE EndOfFile
    BY <1>2, <1>3, <1>5 DEF EndOfFile
  <1>6. CASE UNCHANGED vars
    BY <1>2, <1>3, <1>6 DEF vars, IInv
  <1> QED
    BY <1>1, <1>4, <1>5, <1>6 DEF Next, Ended

-----------------------------------------------------------------------------
(* The theorems.                                                           *)

\* No text is scanned twice, no chunk is empty or larger than its buffer, whatever
\* the file, the chunk size and the look-ahead (ReadChunk, generateChunk).
THEOREM OrderIsKept == Spec => []ChunksInOrder
  <1>1. IInv => ChunksInOrder
    BY DEF IInv
  <1> QED
    BY InitHolds, StepKeeps, <1>1, PTL DEF Spec

\* A chunk is cut at a safe boundary or is the whole window (generateChunk).
THEOREM CutsAreAlwaysSafe == Spec => []CutsAreSafe
  <1>1. IInv => CutsAreSafe
    BY DEF IInv
  <1> QED
    BY InitHolds, StepKeeps, <1>1, PTL DEF Spec

\* The line offset of each chunk is right as long as no bytes were left behind
\* (detectChunks).
THEOREM OffsetsAreRight == Spec => []OffsetsFollowChunks
  <1>1. IInv => OffsetsFollowChunks
    BY DEF IInv
  <1> QED
    BY InitHolds, StepKeeps, <1>1, PTL DEF Spec

-----------------------------------------------------------------------------
(* The changes of a git diff: contents and their sizes.                    *)

AllPlaces == UNION {{h} \X DOMAIN diff[h].lines : h \in DOMAIN diff}
GitChunk == [Kinds -> Seq(AllPlaces)]
Item == [kind : Kinds, content : Seq(AllPlaces)]

GitTypes ==
  /\ MaxChunkSize \in Nat \ {0} /\ MaxLineSize \in Nat /\ MaxFileDiffSize \in Nat
  /\ diff \in Seq(Hunk)
  /\ at \in (Nat \ {0}) \X (Nat \ {0})
  /\ current \in GitChunk /\ currentSize \in Nat /\ totalSize \in Nat
  /\ packed \in Seq(GitChunk) /\ items \in Seq(Item)
  /\ phase \in {"extracting", "emitting", "done"}

\* Each place has a line, with an operation and a size.
LEMMA PlaceFacts ==
  ASSUME GitTypes, NEW p \in AllPlaces
  PROVE  /\ p = <<p[1], p[2]>>
         /\ p[1] \in Nat \ {0} /\ p[1] \in DOMAIN diff /\ diff[p[1]] \in Hunk
         /\ p[2] \in Nat \ {0} /\ p[2] \in DOMAIN diff[p[1]].lines
         /\ Line(p) \in DiffLine /\ Line(p).size \in Nat \ {0} /\ Line(p).op \in Ops
  <1>1. PICK h \in DOMAIN diff : p \in {h} \X DOMAIN diff[h].lines
    BY DEF AllPlaces
  <1>2. p = <<p[1], p[2]>> /\ p[1] = h /\ p[2] \in DOMAIN diff[h].lines
    BY <1>1
  <1>3. h \in Nat \ {0} /\ diff[h] \in Hunk
    BY DEF GitTypes
  <1>4. diff[h].lines \in Seq(DiffLine)
    BY <1>3 DEF Hunk
  <1>5. p[2] \in Nat \ {0} /\ diff[h].lines[p[2]] \in DiffLine
    BY <1>2, <1>4
  <1>6. Line(p) = diff[h].lines[p[2]]
    BY <1>2 DEF Line
  <1> QED
    BY <1>2, <1>3, <1>5, <1>6 DEF DiffLine

LEMMA KindPlaces ==
  ASSUME NEW kind
  PROVE  PlacesOf(kind) = {p \in AllPlaces : Line(p).op = kind}
  BY DEF PlacesOf, AllPlaces

LEMMA UpTo == \A k \in Nat : IsFiniteSet(1..k) /\ Cardinality(1..k) = k
  <1> SUFFICES ASSUME NEW k \in Nat PROVE IsFiniteSet(1..k) /\ Cardinality(1..k) = k
    OBVIOUS
  <1>1. IsFiniteSet(1..k) /\ Cardinality(1..k) = IF 1 > k THEN 0 ELSE k - 1 + 1
    BY FS_Interval
  <1> QED
    BY <1>1

\* The bytes of one content are finitely many, and a line adds its own.
BytesOf(s) == UNION {{n} \X (1..Line(s[n]).size) : n \in DOMAIN s}

LEMMA SizeIsFinite ==
  ASSUME GitTypes, NEW s \in Seq(AllPlaces)
  PROVE  IsFiniteSet(BytesOf(s)) /\ SizeOf(s) = Cardinality(BytesOf(s)) /\ SizeOf(s) \in Nat
  <1> DEFINE B(n) == {n} \X (1..Line(s[n]).size)
             Parts == {B(n) : n \in DOMAIN s}
  <1>1. IsFiniteSet(DOMAIN s)
    BY FS_Interval, LenProperties
  <1>2. IsFiniteSet(Parts)
    <2>1. DEFINE f == [n \in DOMAIN s |-> B(n)]
    <2>2. f \in Surjection(DOMAIN s, Parts)
      BY DEF Surjection
    <2> HIDE DEF f
    <2> QED
      BY <1>1, <2>2, FS_Surjection
  <1>3. \A n \in DOMAIN s : IsFiniteSet(B(n))
    <2> SUFFICES ASSUME NEW n \in DOMAIN s PROVE IsFiniteSet(B(n))
      OBVIOUS
    <2>1. Line(s[n]).size \in Nat
      BY PlaceFacts
    <2>2. IsFiniteSet({n}) /\ IsFiniteSet(1..Line(s[n]).size)
      BY <2>1, FS_Singleton, UpTo
    <2> QED
      BY <2>2, FS_Product
  <1>4. IsFiniteSet(UNION Parts)
    BY <1>2, <1>3, FS_UNION
  <1>5. UNION Parts = BytesOf(s) /\ SizeOf(s) = Cardinality(BytesOf(s))
    BY DEF BytesOf, SizeOf
  <1> QED
    BY <1>4, <1>5, FS_CardinalityType

LEMMA EmptySize == SizeOf(<<>>) = 0
  <1>1. BytesOf(<<>>) = {}
    BY DEF BytesOf
  <1> QED
    BY <1>1, FS_EmptySet DEF SizeOf, BytesOf

LEMMA AppendedSize ==
  ASSUME GitTypes, NEW s \in Seq(AllPlaces), NEW p \in AllPlaces
  PROVE  SizeOf(Append(s, p)) = SizeOf(s) + Line(p).size
  <1> DEFINE t == Append(s, p)
             k == Len(s) + 1
             New == {k} \X (1..Line(p).size)
  <1>1. t \in Seq(AllPlaces) /\ Len(s) \in Nat /\ DOMAIN s = 1..Len(s) /\ DOMAIN t = 1..k /\ t[k] = p
        /\ \A n \in DOMAIN s : t[n] = s[n]
    OBVIOUS
  <1>2. DOMAIN t = DOMAIN s \cup {k} /\ k \notin DOMAIN s
    BY <1>1
  <1>3. BytesOf(t) = BytesOf(s) \cup New
    <2> HIDE DEF t, k
    <2>1. \A n \in DOMAIN s : {n} \X (1..Line(t[n]).size) = {n} \X (1..Line(s[n]).size)
      BY <1>1
    <2>2. {k} \X (1..Line(t[k]).size) = New
      BY <1>1
    <2> QED
      BY <1>2, <2>1, <2>2 DEF BytesOf
  <1>4. BytesOf(s) \cap New = {}
    <2> SUFFICES ASSUME NEW b \in BytesOf(s), b \in New PROVE FALSE
      OBVIOUS
    <2>1. PICK n \in DOMAIN s : b \in {n} \X (1..Line(s[n]).size)
      BY DEF BytesOf
    <2>2. b[1] = n /\ b[1] = k
      BY <2>1
    <2> QED
      BY <1>2, <2>2
  <1>5. IsFiniteSet(New) /\ Cardinality(New) = Line(p).size
    <2>1. Line(p).size \in Nat
      BY PlaceFacts
    <2>2. IsFiniteSet({k}) /\ Cardinality({k}) = 1
      BY FS_Singleton
    <2>3. IsFiniteSet(1..Line(p).size) /\ Cardinality(1..Line(p).size) = Line(p).size
      BY <2>1, UpTo
    <2>4. IsFiniteSet(New) /\ Cardinality(New) = 1 * Line(p).size
      BY <2>2, <2>3, FS_Product
    <2>5. 1 * Line(p).size = Line(p).size
      <3> DEFINE z == Line(p).size
      <3>1. z \in Nat
        BY <2>1
      <3> HIDE DEF z
      <3>2. 1 * z = z
        BY <3>1
      <3> QED
        BY <3>2 DEF z
    <2> QED
      BY <2>4, <2>5
  <1>6. IsFiniteSet(BytesOf(s)) /\ SizeOf(s) = Cardinality(BytesOf(s)) /\ SizeOf(t) = Cardinality(BytesOf(t))
    BY <1>1, SizeIsFinite
  <1>7. Cardinality(BytesOf(s) \cup New) = Cardinality(BytesOf(s)) + Cardinality(New) - 0
    BY <1>4, <1>5, <1>6, FS_Union, FS_EmptySet
  <1> QED
    BY <1>3, <1>5, <1>6, <1>7, SizeIsFinite, PlaceFacts

LEMMA SizeStays == ASSUME UNCHANGED diff, NEW s PROVE SizeOf(s)' = SizeOf(s)
  BY DEF SizeOf, Line

-----------------------------------------------------------------------------
(* Types.                                                                  *)

LEMMA GitTypesInit == ASSUME GitInit PROVE GitTypes
  <1>1. diff \in Seq(Hunk) /\ current = [k \in Kinds |-> <<>>]
    BY GitAssumption DEF GitAssumption, GitInit, Empty
  <1>2. current \in GitChunk
    BY <1>1 DEF GitChunk
  <1> QED
    BY <1>1, <1>2, GitAssumption DEF GitAssumption, GitInit, GitTypes

LEMMA AtPlace ==
  ASSUME GitTypes, AtLine
  PROVE  /\ at = <<at[1], at[2]>> /\ at[1] \in Nat \ {0} /\ at[2] \in Nat \ {0}
         /\ at \in AllPlaces
         /\ Line(at).size \in Nat \ {0} /\ Line(at).op \in Ops
  <1>1. at = <<at[1], at[2]>> /\ at[1] \in Nat \ {0} /\ at[2] \in Nat \ {0}
    BY DEF GitTypes
  <1>2. at \in AllPlaces
    BY <1>1 DEF AllPlaces, AtLine
  <1> QED
    BY <1>1, <1>2, PlaceFacts

\* What AddLine does, told by whether the line is of a kind that is kept.
LEMMA AddLineEffect ==
  ASSUME GitTypes, AddLine
  PROVE  LET builders == IF Flushes THEN Empty ELSE current IN
         /\ builders \in GitChunk /\ current' \in GitChunk
         /\ Line(at).op \in Kinds =>
              \A k \in Kinds : current'[k] = IF k = Line(at).op THEN Append(builders[k], at) ELSE builders[k]
         /\ Line(at).op \notin Kinds => current' = builders
         /\ currentSize' = (IF Flushes THEN 0 ELSE currentSize)
                             + (IF Line(at).op \in Kinds THEN Line(at).size ELSE 0)
  <1> DEFINE builders == IF Flushes THEN Empty ELSE current
  <1>1. at \in AllPlaces
    BY AtPlace DEF AddLine
  <1>2. builders \in GitChunk
    BY DEF GitTypes, Empty, GitChunk
  <1>3. current' = [k \in Kinds |-> IF k = Line(at).op THEN Append(builders[k], at) ELSE builders[k]]
    BY DEF AddLine, Written
  <1> HIDE DEF builders
  <1>4. current' \in GitChunk
    BY <1>1, <1>2, <1>3 DEF GitChunk
  <1>5. Line(at).op \notin Kinds => current' = builders
    <2> SUFFICES ASSUME Line(at).op \notin Kinds PROVE current' = builders
      OBVIOUS
    <2>1. \A k \in Kinds : current'[k] = builders[k]
      BY <1>3
    <2>2. builders = [k \in Kinds |-> builders[k]]
      BY <1>2 DEF GitChunk
    <2> QED
      BY <1>3, <2>1, <2>2
  <1>6. \A k \in Kinds : current'[k] = IF k = Line(at).op THEN Append(builders[k], at) ELSE builders[k]
    BY <1>3
  <1>7. currentSize' = (IF Flushes THEN 0 ELSE currentSize)
                             + (IF Line(at).op \in Kinds THEN Line(at).size ELSE 0)
    BY DEF AddLine
  <1> QED
    BY <1>2, <1>4, <1>5, <1>6, <1>7 DEF builders

LEMMA EmittedType == ASSUME GitTypes, NEW c \in GitChunk PROVE Emitted(c) \in Seq(Item)
  <1> DEFINE A == [kind |-> "add", content |-> c["add"]]
             D == [kind |-> "delete", content |-> c["delete"]]
  <1>1. A \in Item /\ D \in Item
    BY DEF Item, GitChunk, Kinds
  <1> HIDE DEF A, D
  <1>2. <<A>> \in Seq(Item) /\ <<D>> \in Seq(Item)
    BY <1>1
  <1>3. Emitted(c) = (IF c["add"] = <<>> THEN <<>> ELSE <<A>>) \o (IF c["delete"] = <<>> THEN <<>> ELSE <<D>>)
    BY DEF Emitted, A, D
  <1> QED
    BY <1>2, <1>3

LEMMA GitTypesNext == ASSUME GitTypes, [GitNext]_gitVars PROVE GitTypes'
  <1>1. CASE NextHunk
    <2>1. at'[1] = at[1] + 1 /\ at' = <<at[1] + 1, 1>> /\ at[1] \in Nat \ {0}
      BY <1>1 DEF NextHunk, GitTypes
    <2>2. at' \in (Nat \ {0}) \X (Nat \ {0})
      BY <2>1
    <2> QED
      BY <1>1, <2>2 DEF NextHunk, GitTypes, GitChunk, Item, AllPlaces
  <1>2. CASE DiffTooLarge
    <2>1. totalSize' \in Nat
      BY <1>2, AtPlace DEF DiffTooLarge, NewTotal, GitTypes
    <2> QED
      BY <1>2, <2>1 DEF DiffTooLarge, GitTypes, GitChunk, Item, AllPlaces
  <1>3. ASSUME SkipLongLine \/ AddLine PROVE totalSize' \in Nat /\ at' \in (Nat \ {0}) \X (Nat \ {0})
    <2>1. totalSize' = totalSize + Line(at).size /\ at' = <<at[1], at[2] + 1>> /\ AtLine
      BY <1>3 DEF SkipLongLine, AddLine, Advance, NewTotal
    <2>2. totalSize \in Nat
      BY DEF GitTypes
    <2>3. Line(at).size \in Nat /\ at[1] \in Nat \ {0} /\ at[2] \in Nat \ {0}
      BY <2>1, AtPlace
    <2> QED
      BY <2>1, <2>2, <2>3
  <1>4. CASE SkipLongLine
    BY <1>3, <1>4 DEF SkipLongLine, GitTypes, GitChunk, Item, AllPlaces
  <1>5. CASE AddLine
    <2>1. current' \in GitChunk
      BY <1>5, AddLineEffect
    <2>2. currentSize' \in Nat
      <3>1. currentSize \in Nat
        BY DEF GitTypes
      <3>2. Line(at).size \in Nat
        BY <1>5, AtPlace DEF AddLine
      <3>3. currentSize' = (IF Flushes THEN 0 ELSE currentSize)
                            + (IF Line(at).op \in Kinds THEN Line(at).size ELSE 0)
        BY <1>5 DEF AddLine
      <3> QED
        BY <3>1, <3>2, <3>3
    <2>3. packed' \in Seq(GitChunk)
      BY <1>5 DEF AddLine, GitTypes
    <2>4. UNCHANGED <<diff, items, phase>>
      BY <1>5 DEF AddLine
    <2> QED
      BY <1>3, <1>5, <2>1, <2>2, <2>3, <2>4 DEF GitTypes, GitChunk, Item, AllPlaces
  <1>6. CASE FinalChunk
    <2>1. packed' \in Seq(GitChunk)
      BY <1>6 DEF FinalChunk, GitTypes
    <2> QED
      BY <1>6, <2>1 DEF FinalChunk, GitTypes, GitChunk, Item, AllPlaces
  <1>7. CASE EmitChunk
    <2>1. Head(packed) \in GitChunk /\ packed' \in Seq(GitChunk)
      BY <1>7 DEF EmitChunk, GitTypes
    <2>2. items' \in Seq(Item)
      BY <1>7, <2>1, EmittedType DEF EmitChunk, GitTypes
    <2> QED
      BY <1>7, <2>1, <2>2 DEF EmitChunk, GitTypes, GitChunk, Item, AllPlaces
  <1>8. CASE AllEmitted \/ GitEnded \/ UNCHANGED gitVars
    BY <1>8 DEF AllEmitted, GitEnded, gitVars, GitTypes, GitChunk, Item, AllPlaces
  <1> QED
    BY <1>1, <1>2, <1>4, <1>5, <1>6, <1>7, <1>8 DEF GitNext

-----------------------------------------------------------------------------
(* The size of the chunks.                                                 *)

Bounded(c) ==
  /\ ChunkSize(c) > 0
  /\ ChunkSize(c) <= MaxChunkSize \/ Len(c["add"]) + Len(c["delete"]) = 1

\* The builders hold what their size says, and are bounded like a chunk.
SizesInv ==
  /\ phase = "extracting" => currentSize = ChunkSize(current) /\ (currentSize > 0 => Bounded(current))
  /\ \A n \in DOMAIN packed : Bounded(packed[n])

LEMMA ChunkSizeStays == ASSUME UNCHANGED diff, NEW c PROVE ChunkSize(c)' = ChunkSize(c) /\ Bounded(c)' = Bounded(c)
  <1>1. \A s : SizeOf(s)' = SizeOf(s)
    BY SizeStays
  <1> QED
    BY <1>1 DEF ChunkSize, Bounded

LEMMA EmptyChunk ==
  /\ Empty["add"] = <<>> /\ Empty["delete"] = <<>>
  /\ ChunkSize(Empty) = 0
  <1>1. Empty["add"] = <<>> /\ Empty["delete"] = <<>>
    BY DEF Empty, Kinds
  <1> QED
    BY <1>1, EmptySize DEF ChunkSize

LEMMA AppendedChunkSize ==
  ASSUME GitTypes, NEW c \in GitChunk, NEW d \in GitChunk, NEW p \in AllPlaces, Line(p).op \in Kinds,
         \A k \in Kinds : d[k] = IF k = Line(p).op THEN Append(c[k], p) ELSE c[k]
  PROVE  /\ ChunkSize(d) = ChunkSize(c) + Line(p).size
         /\ Len(d["add"]) + Len(d["delete"]) = Len(c["add"]) + Len(c["delete"]) + 1
  <1>1. c["add"] \in Seq(AllPlaces) /\ c["delete"] \in Seq(AllPlaces)
    BY DEF GitChunk, Kinds
  <1>2. /\ SizeOf(c["add"]) \in Nat /\ SizeOf(c["delete"]) \in Nat /\ Line(p).size \in Nat
        /\ Len(c["add"]) \in Nat /\ Len(c["delete"]) \in Nat
    BY <1>1, SizeIsFinite, PlaceFacts
  <1>3. CASE Line(p).op = "add"
    <2>1. d["add"] = Append(c["add"], p) /\ d["delete"] = c["delete"]
      BY <1>3 DEF Kinds
    <2>2. SizeOf(d["add"]) = SizeOf(c["add"]) + Line(p).size /\ Len(d["add"]) = Len(c["add"]) + 1
      BY <1>1, <2>1, AppendedSize
    <2>3. ChunkSize(d) = ChunkSize(c) + Line(p).size
      BY <1>2, <2>1, <2>2 DEF ChunkSize
    <2>4. Len(d["add"]) + Len(d["delete"]) = Len(c["add"]) + Len(c["delete"]) + 1
      <3> DEFINE a == Len(c["add"])  b == Len(c["delete"])
                 x == Len(d["add"])  y == Len(d["delete"])
      <3>1. a \in Nat /\ b \in Nat /\ x = a + 1 /\ y = b
        BY <1>2, <2>1, <2>2
      <3> HIDE DEF a, b, x, y
      <3>2. x + y = a + b + 1
        BY <3>1
      <3> QED
        BY <3>2 DEF a, b, x, y
    <2> QED
      BY <2>3, <2>4
  <1>4. CASE Line(p).op = "delete"
    <2>1. d["delete"] = Append(c["delete"], p) /\ d["add"] = c["add"]
      BY <1>4 DEF Kinds
    <2>2. SizeOf(d["delete"]) = SizeOf(c["delete"]) + Line(p).size /\ Len(d["delete"]) = Len(c["delete"]) + 1
      BY <1>1, <2>1, AppendedSize
    <2>3. ChunkSize(d) = ChunkSize(c) + Line(p).size
      BY <1>2, <2>1, <2>2 DEF ChunkSize
    <2>4. Len(d["add"]) + Len(d["delete"]) = Len(c["add"]) + Len(c["delete"]) + 1
      <3> DEFINE a == Len(c["add"])  b == Len(c["delete"])
                 x == Len(d["add"])  y == Len(d["delete"])
      <3>1. a \in Nat /\ b \in Nat /\ x = a /\ y = b + 1
        BY <1>2, <2>1, <2>2
      <3> HIDE DEF a, b, x, y
      <3>2. x + y = a + b + 1
        BY <3>1
      <3> QED
        BY <3>2 DEF a, b, x, y
    <2> QED
      BY <2>3, <2>4
  <1> QED
    BY <1>3, <1>4 DEF Kinds

\* Builders without bytes are empty: a line has one at least.
LEMMA NothingInside ==
  ASSUME GitTypes, NEW c \in GitChunk, ChunkSize(c) = 0
  PROVE  c["add"] = <<>> /\ c["delete"] = <<>>
  <1>1. ASSUME NEW s \in Seq(AllPlaces), SizeOf(s) = 0 PROVE s = <<>>
    <2> SUFFICES ASSUME s # <<>> PROVE FALSE
      OBVIOUS
    <2>1. 1 \in DOMAIN s /\ s[1] \in AllPlaces
      BY <1>1
    <2>2. 1 \in 1..Line(s[1]).size
      BY <2>1, PlaceFacts
    <2>3. <<1, 1>> \in BytesOf(s)
      BY <2>1, <2>2 DEF BytesOf
    <2>4. BytesOf(s) = {}
      BY <1>1, SizeIsFinite, FS_EmptySet
    <2> QED
      BY <2>3, <2>4
  <1>2. c["add"] \in Seq(AllPlaces) /\ c["delete"] \in Seq(AllPlaces)
    BY DEF GitChunk, Kinds
  <1>3. SizeOf(c["add"]) = 0 /\ SizeOf(c["delete"]) = 0
    BY <1>2, SizeIsFinite DEF ChunkSize
  <1> QED
    BY <1>1, <1>2, <1>3

LEMMA SizesInit == ASSUME GitInit PROVE SizesInv
  BY EmptyChunk DEF GitInit, SizesInv

LEMMA ChunksGrow ==
  ASSUME NEW S, NEW list \in Seq(S), NEW c \in S
  PROVE  /\ DOMAIN Append(list, c) = 1..(Len(list) + 1) /\ DOMAIN list = 1..Len(list) /\ Len(list) \in Nat
         /\ Append(list, c)[Len(list) + 1] = c
         /\ \A n \in DOMAIN list : Append(list, c)[n] = list[n]
         /\ DOMAIN Append(list, c) = DOMAIN list \cup {Len(list) + 1}
  OBVIOUS

LEMMA AddLineSizes == ASSUME GitTypes, SizesInv, AddLine PROVE SizesInv'
  <1> DEFINE builders == IF Flushes THEN Empty ELSE current
  <1>1. phase = "extracting" /\ AtLine /\ UNCHANGED <<diff, phase>>
        /\ packed' = IF Flushes THEN Append(packed, current) ELSE packed
    BY DEF AddLine, AtLine
  <1>2. \A c : ChunkSize(c)' = ChunkSize(c) /\ Bounded(c)' = Bounded(c)
    BY <1>1, ChunkSizeStays
  <1>3. at \in AllPlaces /\ Line(at).size \in Nat \ {0}
    BY <1>1, AtPlace
  <1>4. builders \in GitChunk /\ current' \in GitChunk
    BY AddLineEffect
  <1>5. ChunkSize(builders) = IF Flushes THEN 0 ELSE currentSize
    BY <1>1, EmptyChunk DEF SizesInv
  <1>6. currentSize' = ChunkSize(current')
    <2>1. CASE Line(at).op \in Kinds
      <3>1. \A k \in Kinds : current'[k] = IF k = Line(at).op THEN Append(builders[k], at) ELSE builders[k]
        BY <2>1, AddLineEffect
      <3> HIDE DEF builders
      <3>2. ChunkSize(current') = ChunkSize(builders) + Line(at).size
        BY <1>3, <1>4, <2>1, <3>1, AppendedChunkSize
      <3> QED
        BY <1>5, <2>1, <3>2, AddLineEffect
    <2>2. CASE Line(at).op \notin Kinds
      <3>1. current' = builders /\ currentSize' = (IF Flushes THEN 0 ELSE currentSize) + 0
        BY <2>2, AddLineEffect
      <3> QED
        BY <1>5, <3>1 DEF GitTypes
    <2> QED
      BY <2>1, <2>2
  <1>7. currentSize' > 0 => Bounded(current')
    <2>1. CASE Line(at).op \in Kinds
      <3>1. \A k \in Kinds : current'[k] = IF k = Line(at).op THEN Append(builders[k], at) ELSE builders[k]
        BY <2>1, AddLineEffect
      <3>2. CASE Flushes \/ currentSize = 0
        <4>1. ChunkSize(builders) = 0
          BY <1>5, <3>2
        <4> HIDE DEF builders
        <4>2. builders["add"] = <<>> /\ builders["delete"] = <<>>
          BY <1>4, <4>1, NothingInside
        <4>3. Len(current'["add"]) + Len(current'["delete"]) = Len(builders["add"]) + Len(builders["delete"]) + 1
          BY <1>3, <1>4, <2>1, <3>1, AppendedChunkSize
        <4>4. Len(current'["add"]) + Len(current'["delete"]) = 1
          <5> DEFINE a == Len(builders["add"])  b == Len(builders["delete"])
                     x == Len(current'["add"])  y == Len(current'["delete"])
          <5>1. a = 0 /\ b = 0 /\ x + y = a + b + 1
            BY <4>2, <4>3
          <5> HIDE DEF a, b, x, y
          <5>2. x + y = 1
            BY <5>1
          <5> QED
            BY <5>2 DEF x, y
        <4> QED
          BY <1>6, <4>4 DEF Bounded
      <3>3. CASE ~Flushes /\ currentSize # 0
        <4>1. currentSize' = currentSize + Line(at).size /\ currentSize + Line(at).size <= MaxChunkSize
          BY <1>3, <2>1, <3>3, AddLineEffect DEF Flushes, GitTypes
        <4> QED
          BY <1>6, <4>1 DEF Bounded
      <3> QED
        BY <3>2, <3>3
    <2>2. CASE Line(at).op \notin Kinds
      <3>1. current' = builders /\ currentSize' = ChunkSize(builders)
        BY <1>6, <2>2, AddLineEffect
      <3> QED
        BY <1>1, <1>5, <3>1 DEF SizesInv
    <2> QED
      BY <2>1, <2>2
  <1>8. \A n \in DOMAIN packed' : Bounded(packed'[n])
    <2>1. CASE Flushes
      <3>1. Bounded(current)
        BY <1>1, <2>1 DEF SizesInv, Flushes
      <3>2. packed \in Seq(GitChunk) /\ current \in GitChunk /\ packed' = Append(packed, current)
        BY <1>1, <2>1 DEF GitTypes
      <3>3. /\ DOMAIN packed' = DOMAIN packed \cup {Len(packed) + 1} /\ packed'[Len(packed) + 1] = current
            /\ \A n \in DOMAIN packed : packed'[n] = packed[n]
        BY <3>2, ChunksGrow
      <3> QED
        BY <3>1, <3>3 DEF SizesInv
    <2>2. CASE ~Flushes
      BY <1>1, <2>2 DEF SizesInv
    <2> QED
      BY <2>1, <2>2
  <1> QED
    BY <1>2, <1>6, <1>7, <1>8 DEF SizesInv

LEMMA SizesNext == ASSUME GitTypes, SizesInv, [GitNext]_gitVars PROVE SizesInv'
  <1>1. UNCHANGED diff
    BY DEF GitNext, NextHunk, DiffTooLarge, SkipLongLine, AddLine, FinalChunk, EmitChunk, AllEmitted, GitEnded, gitVars
  <1>2. \A c : ChunkSize(c)' = ChunkSize(c) /\ Bounded(c)' = Bounded(c)
    BY <1>1, ChunkSizeStays
  <1>3. CASE NextHunk \/ SkipLongLine \/ AllEmitted \/ GitEnded \/ UNCHANGED gitVars
    BY <1>2, <1>3 DEF NextHunk, SkipLongLine, AllEmitted, GitEnded, gitVars, SizesInv
  <1>4. CASE DiffTooLarge
    BY <1>4 DEF DiffTooLarge, SizesInv
  <1>5. CASE FinalChunk
    <2>1. CASE currentSize > 0
      <3>1. packed \in Seq(GitChunk) /\ current \in GitChunk /\ packed' = Append(packed, current)
        BY <1>5, <2>1 DEF FinalChunk, GitTypes
      <3>2. /\ DOMAIN packed' = DOMAIN packed \cup {Len(packed) + 1} /\ packed'[Len(packed) + 1] = current
            /\ \A n \in DOMAIN packed : packed'[n] = packed[n]
        BY <3>1, ChunksGrow
      <3>3. Bounded(current) /\ phase' = "emitting"
        BY <1>5, <2>1 DEF FinalChunk, SizesInv
      <3> QED
        BY <1>2, <3>2, <3>3 DEF SizesInv
    <2>2. CASE ~(currentSize > 0)
      BY <1>2, <1>5, <2>2 DEF FinalChunk, SizesInv
    <2> QED
      BY <2>1, <2>2
  <1>6. CASE EmitChunk
    <2>1. packed \in Seq(GitChunk) /\ packed # <<>> /\ packed' = Tail(packed) /\ phase' = "emitting"
      BY <1>6 DEF EmitChunk, GitTypes
    <2>2. \A n \in DOMAIN packed' : n + 1 \in DOMAIN packed /\ packed'[n] = packed[n + 1]
      BY <2>1
    <2> QED
      BY <1>2, <2>1, <2>2 DEF SizesInv
  <1> QED
    BY <1>3, <1>4, <1>5, <1>6, AddLineSizes DEF GitNext

\* No packed chunk is empty, and one over the chunk size holds a single line, however
\* the lines of the diff and their sizes follow each other (extractChanges).
THEOREM ChunksStayBounded == GitSpec => []ChunksAreBounded
  <1>1. GitInit => GitTypes /\ SizesInv
    BY GitTypesInit, SizesInit
  <1>2. GitTypes /\ SizesInv /\ [GitNext]_gitVars => (GitTypes /\ SizesInv)'
    BY GitTypesNext, SizesNext
  <1>3. SizesInv => ChunksAreBounded
    BY DEF SizesInv, Bounded, ChunksAreBounded
  <1> QED
    BY <1>1, <1>2, <1>3, PTL DEF GitSpec

-----------------------------------------------------------------------------
(* Which lines are packed and emitted, and in which order.                 *)

PlacesIn(s) == {s[n] : n \in DOMAIN s}
Increasing(s) == \A m, n \in DOMAIN s : m < n => Earlier(s[m], s[n])
Below(s, t) == \A m \in DOMAIN s, n \in DOMAIN t : Earlier(s[m], t[n])

\* A list of chunks has its lines of a kind in the order of the diff.
Arranged(list, kind) ==
  /\ \A n \in DOMAIN list : Increasing(list[n][kind])
  /\ \A m, n \in DOMAIN list : m < n => Below(list[m][kind], list[n][kind])

Gathered(list, kind) == UNION {PlacesIn(list[n][kind]) : n \in DOMAIN list}

Kept(kind) == {p \in PlacesOf(kind) : Line(p).size <= MaxLineSize}

\* The items of a kind are in that order too, before what is not emitted yet.
ItemsArranged(kind) ==
  \A i \in DOMAIN items : items[i].kind = kind =>
    /\ Increasing(items[i].content)
    /\ \A j \in DOMAIN items : items[j].kind = kind /\ i < j => Below(items[i].content, items[j].content)
    /\ \A n \in DOMAIN packed : Below(items[i].content, packed[n][kind])

EmittedOf(kind) == UNION {PlacesIn(items[i].content) : i \in {j \in DOMAIN items : items[j].kind = kind}}

PackedInv ==
  phase = "extracting" =>
    /\ items = <<>> /\ totalSize <= MaxFileDiffSize
    /\ \A kind \in Kinds :
         /\ Arranged(Append(packed, current), kind)
         /\ Gathered(Append(packed, current), kind) = {p \in Kept(kind) : Earlier(p, at)}

EmitInv ==
  phase # "extracting" =>
    /\ phase = "done" => packed = <<>>
    /\ totalSize > MaxFileDiffSize => phase = "done" /\ items = <<>>
    /\ totalSize <= MaxFileDiffSize =>
         \A kind \in Kinds :
           /\ Arranged(packed, kind) /\ ItemsArranged(kind)
           /\ EmittedOf(kind) \cup Gathered(packed, kind) = Kept(kind)

LinesInv == PackedInv /\ EmitInv

LEMMA EarlierIsOrder ==
  /\ \A p, q \in (Nat \ {0}) \X (Nat \ {0}) :
       /\ ~(Earlier(p, q) /\ Earlier(q, p)) /\ ~Earlier(p, p)
       /\ p # q => Earlier(p, q) \/ Earlier(q, p)
  /\ \A p, q, r \in (Nat \ {0}) \X (Nat \ {0}) : Earlier(p, q) /\ Earlier(q, r) => Earlier(p, r)
  <1>1. ASSUME NEW p \in (Nat \ {0}) \X (Nat \ {0}), NEW q \in (Nat \ {0}) \X (Nat \ {0})
        PROVE  /\ ~(Earlier(p, q) /\ Earlier(q, p)) /\ ~Earlier(p, p)
               /\ p # q => Earlier(p, q) \/ Earlier(q, p)
    <2>1. p = <<p[1], p[2]>> /\ q = <<q[1], q[2]>> /\ p[1] \in Nat /\ p[2] \in Nat /\ q[1] \in Nat /\ q[2] \in Nat
      OBVIOUS
    <2>2. p # q => p[1] # q[1] \/ p[2] # q[2]
      BY <2>1
    <2> QED
      BY <2>1, <2>2 DEF Earlier
  <1>2. ASSUME NEW p \in (Nat \ {0}) \X (Nat \ {0}), NEW q \in (Nat \ {0}) \X (Nat \ {0}),
               NEW r \in (Nat \ {0}) \X (Nat \ {0}), Earlier(p, q), Earlier(q, r)
        PROVE  Earlier(p, r)
    BY <1>2 DEF Earlier
  <1> QED
    BY <1>1, <1>2

LEMMA PlacesAreOrdered ==
  ASSUME GitTypes, NEW p \in AllPlaces
  PROVE  p \in (Nat \ {0}) \X (Nat \ {0})
  BY PlaceFacts

\* What makes a chunk the next of a list.
Fits(list, c, kind) ==
  /\ Arranged(list, kind) /\ Increasing(c[kind])
  /\ \A n \in DOMAIN list : Below(list[n][kind], c[kind])

LEMMA ArrangedAppend ==
  ASSUME NEW S, NEW list \in Seq(S), NEW c \in S, NEW kind
  PROVE  /\ Arranged(Append(list, c), kind) <=> Fits(list, c, kind)
         /\ Gathered(Append(list, c), kind) = Gathered(list, kind) \cup PlacesIn(c[kind])
  <1> DEFINE t == Append(list, c)
             k == Len(list) + 1
  <1>1. /\ DOMAIN t = DOMAIN list \cup {k} /\ t[k] = c /\ \A n \in DOMAIN list : t[n] = list[n]
        /\ DOMAIN list = 1..Len(list) /\ Len(list) \in Nat
    BY ChunksGrow
  <1>2. \A n \in DOMAIN list : n < k /\ ~(k < n) /\ k # n
    BY <1>1
  <1>3. ~(k < k)
    BY <1>1
  <1> HIDE DEF t, k
  <1>4. Arranged(t, kind) <=> Fits(list, c, kind)
    BY <1>1, <1>2, <1>3 DEF Arranged, Fits
  <1>5. Gathered(t, kind) = Gathered(list, kind) \cup PlacesIn(c[kind])
    BY <1>1 DEF Gathered
  <1> QED
    BY <1>4, <1>5 DEF t

LEMMA IncreasingAppend ==
  ASSUME NEW T, NEW s \in Seq(T), NEW p \in T, Increasing(s), \A q \in PlacesIn(s) : Earlier(q, p)
  PROVE  /\ Increasing(Append(s, p))
         /\ PlacesIn(Append(s, p)) = PlacesIn(s) \cup {p}
  <1> DEFINE t == Append(s, p)
             k == Len(s) + 1
  <1>1. /\ DOMAIN t = DOMAIN s \cup {k} /\ t[k] = p /\ \A n \in DOMAIN s : t[n] = s[n]
        /\ DOMAIN s = 1..Len(s) /\ Len(s) \in Nat
    BY ChunksGrow
  <1>2. \A n \in DOMAIN s : n < k /\ ~(k < n)
    BY <1>1
  <1>3. ~(k < k)
    BY <1>1
  <1> HIDE DEF t, k
  <1>4. PlacesIn(t) = PlacesIn(s) \cup {p}
    BY <1>1 DEF PlacesIn
  <1>5. \A n \in DOMAIN s : Earlier(s[n], p)
    BY DEF PlacesIn
  <1>6. Increasing(t)
    BY <1>1, <1>2, <1>3, <1>5 DEF Increasing
  <1> QED
    BY <1>4, <1>6 DEF t

LEMMA EmptyContent ==
  /\ Increasing(<<>>) /\ PlacesIn(<<>>) = {}
  /\ \A s : Below(s, <<>>) /\ Below(<<>>, s)
  BY DEF Increasing, PlacesIn, Below

LEMMA GatheredAppend ==
  \A list \in Seq(GitChunk), c \in GitChunk, kind \in Kinds :
    Gathered(Append(list, c), kind) = Gathered(list, kind) \cup PlacesIn(c[kind])
  BY ArrangedAppend

\* A line behind all that is gathered may be added to the last chunk.
LEMMA AddedToLast ==
  ASSUME NEW list \in Seq(GitChunk), NEW b \in GitChunk, NEW c \in GitChunk, NEW kind \in Kinds,
         NEW p \in AllPlaces, c[kind] = Append(b[kind], p),
         Arranged(Append(list, b), kind), \A q \in Gathered(Append(list, b), kind) : Earlier(q, p)
  PROVE  /\ Arranged(Append(list, c), kind)
         /\ Gathered(Append(list, c), kind) = Gathered(Append(list, b), kind) \cup {p}
  <1>1. /\ Arranged(list, kind) /\ Increasing(b[kind])
        /\ \A n \in DOMAIN list : Below(list[n][kind], b[kind])
        /\ Gathered(Append(list, b), kind) = Gathered(list, kind) \cup PlacesIn(b[kind])
    BY ArrangedAppend DEF Fits
  <1>2. Increasing(c[kind]) /\ PlacesIn(c[kind]) = PlacesIn(b[kind]) \cup {p}
    <2>1. b[kind] \in Seq(AllPlaces)
      BY DEF GitChunk
    <2> QED
      BY <1>1, <2>1, IncreasingAppend
  <1>3. ASSUME NEW n \in DOMAIN list PROVE Below(list[n][kind], c[kind])
    <2> SUFFICES ASSUME NEW i \in DOMAIN list[n][kind], NEW j \in DOMAIN c[kind]
                 PROVE  Earlier(list[n][kind][i], c[kind][j])
      BY DEF Below
    <2>1. list[n][kind][i] \in Gathered(list, kind)
      BY <1>3 DEF Gathered, PlacesIn
    <2>2. CASE c[kind][j] = p
      BY <1>1, <2>1, <2>2
    <2>3. CASE c[kind][j] \in PlacesIn(b[kind])
      <3>1. PICK m \in DOMAIN b[kind] : c[kind][j] = b[kind][m]
        BY <2>3 DEF PlacesIn
      <3> QED
        BY <1>1, <1>3, <3>1 DEF Below
    <2>4. c[kind][j] \in PlacesIn(c[kind])
      BY DEF PlacesIn
    <2> QED
      BY <1>2, <2>2, <2>3, <2>4
  <1>4. Fits(list, c, kind)
    BY <1>1, <1>2, <1>3 DEF Fits
  <1>5. Arranged(Append(list, c), kind)
    BY <1>4, ArrangedAppend
  <1>6. Gathered(Append(list, c), kind) = Gathered(list, kind) \cup PlacesIn(c[kind])
    BY GatheredAppend
  <1> QED
    BY <1>1, <1>2, <1>5, <1>6

LEMMA KeptStays ==
  ASSUME UNCHANGED diff
  PROVE  \A kind : Kept(kind)' = Kept(kind)
  BY DEF Kept, PlacesOf, Line

LEMMA KeptFacts ==
  ASSUME GitTypes, NEW kind \in Kinds
  PROVE  Kept(kind) \subseteq AllPlaces
         /\ \A p \in AllPlaces : p \in Kept(kind) <=> Line(p).op = kind /\ Line(p).size <= MaxLineSize
  BY KindPlaces DEF Kept

\* What lies before the next line, told for each way to go on.
LEMMA PassedByLine ==
  ASSUME GitTypes, AtLine, NEW p \in AllPlaces
  PROVE  Earlier(p, <<at[1], at[2] + 1>>) <=> Earlier(p, at) \/ p = at
  <1>1. p = <<p[1], p[2]>> /\ p[1] \in Nat \ {0} /\ p[2] \in Nat \ {0}
    BY PlaceFacts
  <1>2. at = <<at[1], at[2]>> /\ at[1] \in Nat \ {0} /\ at[2] \in Nat \ {0}
    BY AtPlace
  <1>3. p = at <=> p[1] = at[1] /\ p[2] = at[2]
    BY <1>1, <1>2
  <1>4. Earlier(p, <<at[1], at[2] + 1>>) <=> p[1] < at[1] \/ (p[1] = at[1] /\ p[2] < at[2] + 1)
    BY DEF Earlier
  <1> QED
    BY <1>1, <1>2, <1>3, <1>4 DEF Earlier

LEMMA PassedByHunk ==
  ASSUME GitTypes, NextHunk, NEW p \in AllPlaces
  PROVE  Earlier(p, <<at[1] + 1, 1>>) <=> Earlier(p, at)
  <1>1. p[1] \in Nat \ {0} /\ p[2] \in Nat \ {0} /\ p[2] \in DOMAIN diff[p[1]].lines /\ diff[p[1]] \in Hunk
    BY PlaceFacts
  <1>2. diff[p[1]].lines \in Seq(DiffLine)
    BY <1>1 DEF Hunk
  <1>3. p[2] <= Len(diff[p[1]].lines) /\ Len(diff[p[1]].lines) \in Nat
    BY <1>1, <1>2
  <1>4. at[1] \in Nat \ {0} /\ at[2] \in Nat \ {0} /\ at[2] > Len(diff[at[1]].lines)
    BY DEF GitTypes, NextHunk
  <1>5. Earlier(p, <<at[1] + 1, 1>>) <=> p[1] < at[1] + 1 \/ (p[1] = at[1] + 1 /\ p[2] < 1)
    BY DEF Earlier
  <1>6. p[1] = at[1] => p[2] < at[2]
    BY <1>1, <1>3, <1>4
  <1> QED
    BY <1>1, <1>4, <1>5, <1>6 DEF Earlier

LEMMA PassedAll ==
  ASSUME GitTypes, at[1] \notin DOMAIN diff, NEW p \in AllPlaces
  PROVE  Earlier(p, at)
  <1>1. p[1] \in DOMAIN diff /\ DOMAIN diff = 1..Len(diff) /\ Len(diff) \in Nat /\ at[1] \in Nat \ {0}
    BY PlaceFacts DEF GitTypes
  <1>2. p[1] < at[1]
    BY <1>1
  <1> QED
    BY <1>2 DEF Earlier

LEMMA LinesInit == ASSUME GitInit, MaxFileDiffSize \in Nat, diff \in Seq(Hunk) PROVE LinesInv
  <1>1. /\ items = <<>> /\ totalSize = 0 /\ phase = "extracting" /\ at = <<1, 1>>
        /\ packed = <<>> /\ current = Empty
    BY DEF GitInit
  <1>2. ASSUME NEW kind \in Kinds
        PROVE  Arranged(Append(packed, current), kind)
               /\ Gathered(Append(packed, current), kind) = {}
    <2>1. current[kind] = <<>>
      BY <1>1 DEF Empty
    <2>2. packed \in Seq({current}) /\ DOMAIN packed = {}
      BY <1>1
    <2>3. Arranged(packed, kind) /\ Gathered(packed, kind) = {}
      BY <2>2 DEF Arranged, Gathered
    <2>4. /\ Arranged(Append(packed, current), kind) <=> Fits(packed, current, kind)
          /\ Gathered(Append(packed, current), kind) = Gathered(packed, kind) \cup PlacesIn(current[kind])
      BY <2>2, ArrangedAppend
    <2> QED
      BY <2>1, <2>2, <2>3, <2>4, EmptyContent DEF Fits
  <1>3. ASSUME NEW kind \in Kinds, NEW p \in Kept(kind) PROVE ~Earlier(p, at)
    <2>1. PICK h \in DOMAIN diff : p \in {h} \X DOMAIN diff[h].lines
      BY KindPlaces DEF Kept, PlacesOf
    <2>2. p[1] = h /\ p[2] \in DOMAIN diff[h].lines /\ h \in Nat \ {0} /\ diff[h] \in Hunk
      BY <2>1
    <2>3. diff[h].lines \in Seq(DiffLine)
      BY <2>2 DEF Hunk
    <2>4. p[2] \in Nat \ {0}
      BY <2>2, <2>3
    <2> QED
      BY <1>1, <2>2, <2>4 DEF Earlier
  <1>4. PackedInv
    BY <1>1, <1>2, <1>3 DEF PackedInv
  <1> QED
    BY <1>1, <1>4 DEF LinesInv, EmitInv

LEMMA AddLineLines == ASSUME GitTypes, LinesInv, AddLine PROVE LinesInv'
  <1> DEFINE builders == IF Flushes THEN Empty ELSE current
  <1>1. /\ phase = "extracting" /\ AtLine /\ UNCHANGED <<diff, items, phase>>
        /\ NewTotal <= MaxFileDiffSize /\ totalSize' = NewTotal /\ Line(at).size <= MaxLineSize
        /\ packed' = (IF Flushes THEN Append(packed, current) ELSE packed)
        /\ at' = <<at[1], at[2] + 1>>
    BY DEF AddLine, AtLine, Advance
  <1>2. builders \in GitChunk /\ current' \in GitChunk /\ packed \in Seq(GitChunk) /\ current \in GitChunk
        /\ packed' \in Seq(GitChunk)
    BY <1>1, AddLineEffect DEF GitTypes
  <1>3. \A kind : Kept(kind)' = Kept(kind)
    BY <1>1, KeptStays
  <1>4. at \in AllPlaces /\ Line(at).op \in Ops
    BY <1>1, AtPlace
  <1>5. ASSUME NEW kind \in Kinds
        PROVE  /\ Arranged(Append(packed', current'), kind)
               /\ Gathered(Append(packed', current'), kind) = {p \in Kept(kind) : Earlier(p, at')}
    <2> DEFINE before == {p \in Kept(kind) : Earlier(p, at)}
    <2>1. Arranged(Append(packed, current), kind) /\ Gathered(Append(packed, current), kind) = before
      BY <1>1 DEF LinesInv, PackedInv
    <2>2. Arranged(Append(packed', builders), kind) /\ Gathered(Append(packed', builders), kind) = before
      <3>1. CASE Flushes
        <4>1. packed' = Append(packed, current) /\ builders[kind] = <<>>
          BY <1>1, <3>1 DEF Empty
        <4> HIDE DEF builders
        <4>2. /\ Arranged(Append(packed', builders), kind) <=> Fits(packed', builders, kind)
              /\ Gathered(Append(packed', builders), kind) = Gathered(packed', kind) \cup PlacesIn(builders[kind])
          BY <1>2, ArrangedAppend
        <4> QED
          BY <2>1, <4>1, <4>2, EmptyContent DEF Fits
      <3>2. CASE ~Flushes
        BY <1>1, <2>1, <3>2
      <3> QED
        BY <3>1, <3>2
    <2>3. {p \in Kept(kind) : Earlier(p, at')} =
             IF kind = Line(at).op THEN before \cup {at} ELSE before
      <3>1. \A p \in AllPlaces : Earlier(p, at') <=> Earlier(p, at) \/ p = at
        BY <1>1, PassedByLine
      <3>2. at \in Kept(kind) <=> Line(at).op = kind
        BY <1>1, <1>4, KeptFacts
      <3>3. Kept(kind) \subseteq AllPlaces
        BY KeptFacts
      <3> QED
        BY <1>4, <3>1, <3>2, <3>3
    <2> HIDE DEF builders
    <2>4. CASE kind = Line(at).op
      <3>1. current'[kind] = Append(builders[kind], at)
        BY <2>4, AddLineEffect DEF builders
      <3>2. builders[kind] \in Seq(AllPlaces)
        BY <1>2 DEF GitChunk
      <3>3. \A q \in Gathered(Append(packed', builders), kind) : Earlier(q, at)
        BY <2>2
      <3>4. /\ Arranged(Append(packed', current'), kind)
            /\ Gathered(Append(packed', current'), kind) = Gathered(Append(packed', builders), kind) \cup {at}
        BY <1>2, <1>4, <2>2, <3>1, <3>2, <3>3, AddedToLast
      <3> QED
        BY <2>2, <2>3, <2>4, <3>4
    <2>5. CASE kind # Line(at).op
      <3>1. current'[kind] = builders[kind]
        BY <2>5, AddLineEffect DEF builders
      <3>2. \A c \in GitChunk :
              /\ Arranged(Append(packed', c), kind) <=> Fits(packed', c, kind)
              /\ Gathered(Append(packed', c), kind) = Gathered(packed', kind) \cup PlacesIn(c[kind])
        BY <1>2, ArrangedAppend
      <3> QED
        BY <1>2, <2>2, <2>3, <2>5, <3>1, <3>2 DEF Fits
    <2> QED
      BY <2>4, <2>5
  <1>6. PackedInv'
    BY <1>1, <1>3, <1>5 DEF LinesInv, PackedInv
  <1>7. EmitInv'
    BY <1>1 DEF EmitInv
  <1> QED
    BY <1>6, <1>7 DEF LinesInv

\* Extraction hands everything it kept to the emission.
LEMMA FinalChunkLines == ASSUME GitTypes, SizesInv, LinesInv, FinalChunk PROVE LinesInv'
  <1>1. /\ phase = "extracting" /\ at[1] \notin DOMAIN diff
        /\ packed' = (IF currentSize > 0 THEN Append(packed, current) ELSE packed)
        /\ phase' = "emitting" /\ UNCHANGED <<diff, at, current, currentSize, totalSize, items>>
    BY DEF FinalChunk
  <1>2. \A kind : Kept(kind)' = Kept(kind)
    BY <1>1, KeptStays
  <1>3. items = <<>> /\ totalSize <= MaxFileDiffSize /\ MaxFileDiffSize \in Nat /\ totalSize \in Nat
    BY <1>1 DEF LinesInv, PackedInv, GitTypes
  <1>4. ASSUME NEW kind \in Kinds PROVE Arranged(packed', kind) /\ Gathered(packed', kind) = Kept(kind)
    <2>1. Arranged(Append(packed, current), kind)
          /\ Gathered(Append(packed, current), kind) = {p \in Kept(kind) : Earlier(p, at)}
      BY <1>1 DEF LinesInv, PackedInv
    <2>2. {p \in Kept(kind) : Earlier(p, at)} = Kept(kind)
      BY <1>1, PassedAll, KeptFacts
    <2>3. CASE currentSize > 0
      BY <1>1, <2>1, <2>2, <2>3
    <2>4. CASE ~(currentSize > 0)
      <3>1. ChunkSize(current) = 0
        BY <1>1, <2>4 DEF SizesInv, GitTypes
      <3>2. current[kind] = <<>>
        BY <3>1, NothingInside DEF GitTypes, Kinds
      <3>3. packed \in Seq(GitChunk) /\ current \in GitChunk
        BY DEF GitTypes
      <3>4. /\ Arranged(Append(packed, current), kind) <=> Fits(packed, current, kind)
            /\ Gathered(Append(packed, current), kind) = Gathered(packed, kind) \cup PlacesIn(current[kind])
        BY <3>3, ArrangedAppend
      <3> QED
        BY <1>1, <2>1, <2>2, <2>4, <3>2, <3>4, EmptyContent DEF Fits
    <2> QED
      BY <2>3, <2>4
  <1>5. ASSUME NEW kind \in Kinds PROVE ItemsArranged(kind)' /\ EmittedOf(kind)' = {}
    BY <1>1, <1>3 DEF ItemsArranged, EmittedOf
  <1>6. EmitInv'
    BY <1>1, <1>2, <1>3, <1>4, <1>5 DEF EmitInv
  <1>7. PackedInv'
    BY <1>1 DEF PackedInv
  <1> QED
    BY <1>6, <1>7 DEF LinesInv

\* The items of one chunk: at most one of each kind, with the chunk's content.
LEMMA EmittedFacts ==
  ASSUME NEW c
  PROVE  /\ Emitted(c) \in Seq({[kind |-> k, content |-> c[k]] : k \in Kinds})
         /\ \A j \in DOMAIN Emitted(c) : Emitted(c)[j].kind \in Kinds /\ Emitted(c)[j].content = c[Emitted(c)[j].kind]
         /\ \A i, j \in DOMAIN Emitted(c) : Emitted(c)[i].kind = Emitted(c)[j].kind => i = j
         /\ \A k \in Kinds : c[k] # <<>> => \E j \in DOMAIN Emitted(c) : Emitted(c)[j].kind = k
  <1> DEFINE A == [kind |-> "add", content |-> c["add"]]
             D == [kind |-> "delete", content |-> c["delete"]]
             S == {[kind |-> k, content |-> c[k]] : k \in Kinds}
  <1>1. A \in S /\ D \in S
    BY DEF Kinds
  <1>2. A.kind = "add" /\ A.content = c["add"] /\ D.kind = "delete" /\ D.content = c["delete"]
    OBVIOUS
  <1>3. Emitted(c) = (IF c["add"] = <<>> THEN <<>> ELSE <<A>>) \o (IF c["delete"] = <<>> THEN <<>> ELSE <<D>>)
    BY DEF Emitted
  <1> HIDE DEF A, D, S
  <1>4. Emitted(c) \in {<<>>, <<A>>, <<D>>, <<A, D>>} /\ Emitted(c) \in Seq(S)
        /\ (c["add"] # <<>> => Emitted(c) = <<A>> \/ Emitted(c) = <<A, D>>)
        /\ (c["delete"] # <<>> => Emitted(c) = <<D>> \/ Emitted(c) = <<A, D>>)
    <2>1. <<A>> \in Seq(S) /\ <<D>> \in Seq(S) /\ <<A, D>> \in Seq(S) /\ <<>> \in Seq(S)
      BY <1>1
    <2>2. <<A>> \o <<D>> = <<A, D>> /\ <<A>> \o <<>> = <<A>> /\ <<>> \o <<D>> = <<D>> /\ <<>> \o <<>> = <<>>
      <3>1. <<A>> \o <<D>> = <<A, D>>
        <4> DEFINE t == <<A>> \o <<D>>
        <4>1. t \in Seq(S) /\ Len(t) = 2 /\ t[1] = A /\ t[2] = D
          BY <1>1, <2>1
        <4> HIDE DEF t
        <4>2. t = <<A, D>>
          BY <4>1
        <4> QED
          BY <4>2 DEF t
      <3>2. <<A>> \o <<>> = <<A>> /\ <<>> \o <<D>> = <<D>> /\ <<>> \o <<>> = <<>>
        BY <2>1
      <3> QED
        BY <3>1, <3>2
    <2>3. CASE c["add"] = <<>>
      BY <1>3, <2>2, <2>1, <2>3
    <2>4. CASE c["add"] # <<>>
      BY <1>3, <2>2, <2>1, <2>4
    <2> QED
      BY <2>3, <2>4
  <1>5. \A j \in DOMAIN Emitted(c) : Emitted(c)[j] = A \/ Emitted(c)[j] = D
    BY <1>4
  <1>6. \A j \in DOMAIN Emitted(c) : Emitted(c)[j].kind \in Kinds /\ Emitted(c)[j].content = c[Emitted(c)[j].kind]
    BY <1>2, <1>5 DEF Kinds
  <1>7. \A i, j \in DOMAIN Emitted(c) : Emitted(c)[i].kind = Emitted(c)[j].kind => i = j
    BY <1>2, <1>4
  <1>8. c["add"] # <<>> => 1 \in DOMAIN Emitted(c) /\ Emitted(c)[1].kind = "add"
    BY <1>2, <1>4
  <1>9. c["delete"] # <<>> => \E j \in DOMAIN Emitted(c) : Emitted(c)[j].kind = "delete"
    <2>1. CASE Emitted(c) = <<D>>
      <3>1. 1 \in DOMAIN Emitted(c) /\ Emitted(c)[1] = D
        BY <2>1
      <3> QED
        BY <1>2, <3>1
    <2>2. CASE Emitted(c) = <<A, D>>
      <3>1. 2 \in DOMAIN Emitted(c) /\ Emitted(c)[2] = D
        BY <2>2
      <3> QED
        BY <1>2, <3>1
    <2> QED
      BY <1>4, <2>1, <2>2
  <1> QED
    BY <1>4, <1>6, <1>7, <1>8, <1>9 DEF Kinds, S

LEMMA EmitChunkLines == ASSUME GitTypes, LinesInv, EmitChunk PROVE LinesInv'
  <1> DEFINE c == Head(packed)
             added == Emitted(c)
             old == Len(items)
  <1>1. /\ phase = "emitting" /\ packed \in Seq(GitChunk) /\ packed # <<>> /\ c = packed[1] /\ c \in GitChunk
        /\ items \in Seq(Item) /\ items' = items \o added /\ packed' = Tail(packed)
        /\ UNCHANGED <<diff, at, current, currentSize, totalSize, phase>>
    BY DEF EmitChunk, GitTypes
  <1>2. \A kind : Kept(kind)' = Kept(kind)
    BY <1>1, KeptStays
  <1>3. totalSize <= MaxFileDiffSize
    BY <1>1 DEF LinesInv, EmitInv, GitTypes
  <1>4. /\ 1 \in DOMAIN packed
        /\ \A n \in DOMAIN packed' : n + 1 \in DOMAIN packed /\ packed'[n] = packed[n + 1] /\ n \in Nat /\ 1 < n + 1
        /\ \A n \in DOMAIN packed : n = 1 \/ (n - 1 \in DOMAIN packed' /\ packed'[n - 1] = packed[n])
    BY <1>1
  <1>5. added \in Seq(Item)
    BY <1>1, EmittedType
  <1> HIDE DEF c
  <1>6. /\ \A j \in DOMAIN added : added[j].kind \in Kinds /\ added[j].content = c[added[j].kind]
        /\ \A i, j \in DOMAIN added : added[i].kind = added[j].kind => i = j
        /\ \A k \in Kinds : c[k] # <<>> => \E j \in DOMAIN added : added[j].kind = k
    BY EmittedFacts
  <1> HIDE DEF added
  \* each item is an earlier one, or one of the chunk
  <1>7. /\ \A i \in DOMAIN items' : \/ i \in DOMAIN items /\ items'[i] = items[i]
                                    \/ i > old /\ i - old \in DOMAIN added /\ items'[i] = added[i - old]
        /\ \A i \in DOMAIN items : i \in DOMAIN items' /\ items'[i] = items[i] /\ i <= old /\ i \in Nat
        /\ \A j \in DOMAIN added : j + old \in DOMAIN items' /\ items'[j + old] = added[j]
        /\ old \in Nat
    BY <1>1, <1>5
  <1>8. DOMAIN items' \subseteq Nat
    BY <1>1, <1>5
  <1> HIDE DEF old
  <1>9. ASSUME NEW kind \in Kinds
        PROVE  Arranged(packed', kind) /\ ItemsArranged(kind)'
               /\ EmittedOf(kind)' \cup Gathered(packed', kind) = Kept(kind)
    <2>1. Arranged(packed, kind) /\ ItemsArranged(kind) /\ EmittedOf(kind) \cup Gathered(packed, kind) = Kept(kind)
      BY <1>1, <1>3 DEF LinesInv, EmitInv
    <2>2. Arranged(packed', kind)
      <3>1. \A m, n \in DOMAIN packed' : m < n => m + 1 < n + 1
        BY <1>4
      <3> QED
        BY <1>4, <2>1, <3>1 DEF Arranged
    <2>3. Increasing(c[kind]) /\ \A n \in DOMAIN packed' : Below(c[kind], packed'[n][kind])
      BY <1>1, <1>4, <2>1 DEF Arranged
    \* of the items of the kind, those of the chunk hold its content
    <2>4. \A i \in DOMAIN items' : items'[i].kind = kind =>
             \/ i \in DOMAIN items /\ items'[i] = items[i]
             \/ i > old /\ i - old \in DOMAIN added /\ added[i - old].kind = kind /\ items'[i].content = c[kind]
      BY <1>6, <1>7
    <2>5. ItemsArranged(kind)'
      <3> SUFFICES ASSUME NEW i \in DOMAIN items', items'[i].kind = kind
                   PROVE  /\ Increasing(items'[i].content)
                          /\ \A j \in DOMAIN items' : items'[j].kind = kind /\ i < j
                               => Below(items'[i].content, items'[j].content)
                          /\ \A n \in DOMAIN packed' : Below(items'[i].content, packed'[n][kind])
        BY DEF ItemsArranged
      <3>1. CASE i \in DOMAIN items /\ items'[i] = items[i]
        <4>1. /\ Increasing(items[i].content)
              /\ \A j \in DOMAIN items : items[j].kind = kind /\ i < j => Below(items[i].content, items[j].content)
              /\ \A n \in DOMAIN packed : Below(items[i].content, packed[n][kind])
          BY <2>1, <3>1 DEF ItemsArranged
        <4>2. Below(items[i].content, c[kind])
          BY <1>1, <1>4, <4>1
        <4> QED
          BY <1>4, <2>4, <3>1, <4>1, <4>2
      <3>2. CASE i > old /\ i - old \in DOMAIN added /\ added[i - old].kind = kind /\ items'[i].content = c[kind]
        <4>1. ASSUME NEW j \in DOMAIN items', items'[j].kind = kind, i < j PROVE FALSE
          <5>1. CASE j \in DOMAIN items
            BY <1>7, <1>8, <3>2, <4>1, <5>1
          <5>2. CASE j > old /\ j - old \in DOMAIN added /\ added[j - old].kind = kind
            <6>1. i - old = j - old
              BY <1>6, <3>2, <5>2
            <6> QED
              BY <1>7, <1>8, <4>1, <6>1
          <5> QED
            BY <2>4, <4>1, <5>1, <5>2
        <4> QED
          BY <2>3, <3>2, <4>1
      <3> QED
        BY <2>4, <3>1, <3>2
    <2>6. Gathered(packed, kind) = PlacesIn(c[kind]) \cup Gathered(packed', kind)
      <3>1. \A x : x \in Gathered(packed, kind) <=> \E n \in DOMAIN packed : x \in PlacesIn(packed[n][kind])
        BY DEF Gathered
      <3>2. \A x : x \in Gathered(packed', kind) <=> \E n \in DOMAIN packed' : x \in PlacesIn(packed'[n][kind])
        BY DEF Gathered
      <3>3. \A x : x \in Gathered(packed', kind) => x \in Gathered(packed, kind)
        BY <1>4, <3>1, <3>2
      <3>4. \A x : x \in PlacesIn(c[kind]) => x \in Gathered(packed, kind)
        BY <1>1, <1>4, <3>1
      <3>5. ASSUME NEW x \in Gathered(packed, kind), x \notin PlacesIn(c[kind])
            PROVE  x \in Gathered(packed', kind)
        <4>1. PICK n \in DOMAIN packed : x \in PlacesIn(packed[n][kind])
          BY <3>1, <3>5
        <4>2. n - 1 \in DOMAIN packed' /\ packed'[n - 1] = packed[n]
          BY <1>1, <1>4, <3>5, <4>1
        <4> QED
          BY <3>2, <4>1, <4>2
      <3> QED
        BY <3>3, <3>4, <3>5
    <2>7. EmittedOf(kind)' = EmittedOf(kind) \cup PlacesIn(c[kind])
      <3>1. \A x : x \in EmittedOf(kind) <=>
                     \E i \in DOMAIN items : items[i].kind = kind /\ x \in PlacesIn(items[i].content)
        BY DEF EmittedOf
      <3>2. \A x : x \in EmittedOf(kind)' <=>
                     \E i \in DOMAIN items' : items'[i].kind = kind /\ x \in PlacesIn(items'[i].content)
        BY DEF EmittedOf
      <3>3. \A x : x \in EmittedOf(kind)' => x \in EmittedOf(kind) \/ x \in PlacesIn(c[kind])
        BY <2>4, <3>1, <3>2
      <3>4. \A x : x \in EmittedOf(kind) => x \in EmittedOf(kind)'
        BY <1>7, <3>1, <3>2
      <3>5. ASSUME NEW x \in PlacesIn(c[kind]) PROVE x \in EmittedOf(kind)'
        <4>1. c[kind] # <<>>
          BY <3>5 DEF PlacesIn
        <4>2. PICK j \in DOMAIN added : added[j].kind = kind
          BY <1>6, <4>1
        <4>3. j + old \in DOMAIN items' /\ items'[j + old].kind = kind /\ items'[j + old].content = c[kind]
          BY <1>6, <1>7, <4>2
        <4> QED
          BY <3>2, <3>5, <4>3
      <3> QED
        BY <3>3, <3>4, <3>5
    <2> QED
      BY <2>1, <2>2, <2>5, <2>6, <2>7
  <1>10. EmitInv'
    BY <1>1, <1>2, <1>3, <1>9 DEF EmitInv, GitTypes
  <1>11. PackedInv'
    BY <1>1 DEF PackedInv
  <1> QED
    BY <1>10, <1>11 DEF LinesInv

LEMMA LinesNext == ASSUME GitTypes, SizesInv, LinesInv, [GitNext]_gitVars PROVE LinesInv'
  <1>1. UNCHANGED diff
    BY DEF GitNext, NextHunk, DiffTooLarge, SkipLongLine, AddLine, FinalChunk, EmitChunk, AllEmitted, GitEnded, gitVars
  <1>2. \A kind : Kept(kind)' = Kept(kind)
    BY <1>1, KeptStays
  <1>3. \A kind \in Kinds : Kept(kind) \subseteq AllPlaces
    BY KeptFacts
  <1>4. CASE NextHunk
    <2>1. /\ phase = "extracting" /\ at' = <<at[1] + 1, 1>>
          /\ UNCHANGED <<current, totalSize, packed, items, phase>>
      BY <1>4 DEF NextHunk
    <2>2. \A kind \in Kinds : {p \in Kept(kind) : Earlier(p, at')} = {p \in Kept(kind) : Earlier(p, at)}
      BY <1>3, <1>4, <2>1, PassedByHunk
    <2> QED
      BY <1>2, <2>1, <2>2 DEF LinesInv, PackedInv, EmitInv
  <1>5. CASE SkipLongLine
    <2>1. /\ phase = "extracting" /\ at' = <<at[1], at[2] + 1>> /\ AtLine
          /\ totalSize' <= MaxFileDiffSize /\ Line(at).size > MaxLineSize
          /\ UNCHANGED <<current, packed, items, phase>>
      BY <1>5 DEF SkipLongLine, AtLine, Advance
    <2>2. \A kind \in Kinds : at \notin Kept(kind)
      BY <2>1, AtPlace DEF Kept, GitTypes
    <2>3. \A kind \in Kinds : {p \in Kept(kind) : Earlier(p, at')} = {p \in Kept(kind) : Earlier(p, at)}
      BY <1>3, <2>1, <2>2, PassedByLine
    <2> QED
      BY <1>2, <2>1, <2>3 DEF LinesInv, PackedInv, EmitInv
  <1>6. CASE DiffTooLarge
    <2>1. /\ phase = "extracting" /\ phase' = "done" /\ packed' = <<>> /\ items' = items
          /\ totalSize' > MaxFileDiffSize /\ totalSize' \in Nat
      BY <1>6, AtPlace DEF DiffTooLarge, AtLine, NewTotal, GitTypes
    <2>2. items = <<>>
      BY <2>1 DEF LinesInv, PackedInv
    <2> QED
      BY <2>1, <2>2 DEF LinesInv, PackedInv, EmitInv, GitTypes
  <1>7. CASE AllEmitted \/ GitEnded \/ UNCHANGED gitVars
    <2>1. /\ UNCHANGED <<at, current, totalSize, packed, items>>
          /\ \/ phase = "emitting" /\ phase' = "done" /\ packed = <<>>
             \/ phase' = phase
      BY <1>7 DEF AllEmitted, GitEnded, gitVars
    <2>2. \A kind : ItemsArranged(kind)' = ItemsArranged(kind) /\ EmittedOf(kind)' = EmittedOf(kind)
      BY <2>1 DEF ItemsArranged, EmittedOf
    <2> QED
      BY <1>2, <2>1, <2>2 DEF LinesInv, PackedInv, EmitInv
  <1> QED
    BY <1>4, <1>5, <1>6, <1>7, AddLineLines, FinalChunkLines, EmitChunkLines DEF GitNext

LEMMA LinesAlwaysKept ==
  GitSpec => [](GitTypes /\ SizesInv /\ LinesInv)
  <1>1. GitInit => GitTypes /\ SizesInv /\ LinesInv
    BY GitTypesInit, SizesInit, LinesInit DEF GitTypes
  <1>2. GitTypes /\ SizesInv /\ LinesInv /\ [GitNext]_gitVars => (GitTypes /\ SizesInv /\ LinesInv)'
    BY GitTypesNext, SizesNext, LinesNext
  <1> QED
    BY <1>1, <1>2, PTL DEF GitSpec

LEMMA SpotFacts ==
  ASSUME GitTypes, NEW kind, NEW s
  PROVE  s \in Spots(kind) <=>
           /\ s = <<s[1], s[2]>> /\ s[1] \in DOMAIN items /\ items[s[1]].kind = kind
           /\ s[2] \in DOMAIN items[s[1]].content
  BY DEF Spots

\* Every added and every removed line that is not overlong is emitted once, in the
\* order of the diff, unless the file diff is over its limit (extractChanges,
\* processFileDiff): chunking loses no line and repeats none.
THEOREM LinesAreEmitted == GitSpec => []EveryLineIsEmitted
  <1>1. ASSUME GitTypes, LinesInv PROVE EveryLineIsEmitted
    <2> SUFFICES ASSUME phase = "done", NEW kind \in Kinds
                 PROVE  /\ {EmittedAt(s) : s \in Spots(kind)} =
                              IF totalSize > MaxFileDiffSize THEN {} ELSE Kept(kind)
                        /\ \A r, s \in Spots(kind) : Earlier(r, s) => Earlier(EmittedAt(r), EmittedAt(s))
      BY DEF EveryLineIsEmitted, Kept
    <2>1. CASE totalSize > MaxFileDiffSize
      <3>1. items = <<>>
        BY <1>1, <2>1 DEF LinesInv, EmitInv
      <3>2. Spots(kind) = {}
        BY <3>1 DEF Spots
      <3> QED
        BY <2>1, <3>2
    <2>2. CASE ~(totalSize > MaxFileDiffSize)
      <3>1. /\ ItemsArranged(kind) /\ EmittedOf(kind) \cup Gathered(packed, kind) = Kept(kind)
            /\ packed = <<>>
        BY <1>1, <2>2 DEF LinesInv, EmitInv, GitTypes
      <3>2. Gathered(packed, kind) = {}
        BY <3>1 DEF Gathered
      <3>3. {EmittedAt(s) : s \in Spots(kind)} = EmittedOf(kind)
        <4>1. ASSUME NEW s \in Spots(kind) PROVE EmittedAt(s) \in EmittedOf(kind)
          BY <1>1, SpotFacts DEF EmittedAt, EmittedOf, PlacesIn
        <4>2. ASSUME NEW x \in EmittedOf(kind) PROVE \E s \in Spots(kind) : EmittedAt(s) = x
          <5>1. PICK i \in DOMAIN items : items[i].kind = kind /\ x \in PlacesIn(items[i].content)
            BY <4>2 DEF EmittedOf
          <5>2. PICK n \in DOMAIN items[i].content : x = items[i].content[n]
            BY <5>1 DEF PlacesIn
          <5>3. <<i, n>> \in Spots(kind) /\ EmittedAt(<<i, n>>) = x
            BY <5>1, <5>2 DEF Spots, EmittedAt
          <5> QED
            BY <5>3
        <4> QED
          BY <4>1, <4>2
      <3>4. ASSUME NEW r \in Spots(kind), NEW s \in Spots(kind), Earlier(r, s)
            PROVE  Earlier(EmittedAt(r), EmittedAt(s))
        <4>1. /\ r[1] \in DOMAIN items /\ items[r[1]].kind = kind /\ r[2] \in DOMAIN items[r[1]].content
              /\ s[1] \in DOMAIN items /\ items[s[1]].kind = kind /\ s[2] \in DOMAIN items[s[1]].content
          BY <1>1, SpotFacts
        <4>2. CASE r[1] < s[1]
          <5>1. Below(items[r[1]].content, items[s[1]].content)
            BY <3>1, <4>1, <4>2 DEF ItemsArranged
          <5> QED
            BY <4>1, <5>1 DEF Below, EmittedAt
        <4>3. CASE r[1] = s[1] /\ r[2] < s[2]
          <5>1. Increasing(items[r[1]].content)
            BY <3>1, <4>1 DEF ItemsArranged
          <5> QED
            BY <4>1, <4>3, <5>1 DEF Increasing, EmittedAt
        <4> QED
          BY <3>4, <4>2, <4>3 DEF Earlier
      <3> QED
        BY <2>2, <3>1, <3>2, <3>3, <3>4
    <2> QED
      BY <2>1, <2>2
  <1> QED
    BY <1>1, LinesAlwaysKept, PTL

-----------------------------------------------------------------------------
(* The line of a finding.                                                  *)

LEMMA PlacesAreFinite == ASSUME GitTypes PROVE IsFiniteSet(AllPlaces)
  <1> DEFINE B(h) == {h} \X DOMAIN diff[h].lines
             Parts == {B(h) : h \in DOMAIN diff}
  <1>1. IsFiniteSet(DOMAIN diff)
    BY FS_Interval, LenProperties DEF GitTypes
  <1>2. IsFiniteSet(Parts)
    <2>1. DEFINE f == [h \in DOMAIN diff |-> B(h)]
    <2>2. f \in Surjection(DOMAIN diff, Parts)
      BY DEF Surjection
    <2> HIDE DEF f
    <2> QED
      BY <1>1, <2>2, FS_Surjection
  <1>3. \A h \in DOMAIN diff : IsFiniteSet(B(h))
    <2> SUFFICES ASSUME NEW h \in DOMAIN diff PROVE IsFiniteSet(B(h))
      OBVIOUS
    <2>1. diff[h].lines \in Seq(DiffLine)
      <3>1. diff[h] \in Hunk
        BY DEF GitTypes
      <3> QED
        BY <3>1 DEF Hunk
    <2>2. DOMAIN diff[h].lines = 1..Len(diff[h].lines) /\ Len(diff[h].lines) \in Nat
      BY <2>1
    <2>3. IsFiniteSet(DOMAIN diff[h].lines)
      BY <2>2, UpTo
    <2>4. IsFiniteSet({h})
      BY FS_Singleton
    <2> QED
      BY <2>3, <2>4, FS_Product
  <1>4. IsFiniteSet(UNION Parts)
    BY <1>2, <1>3, FS_UNION
  <1> QED
    BY <1>4 DEF AllPlaces

Preceding(kind, p) == {q \in PlacesOf(kind) : Earlier(q, p)}

LEMMA WalkIsUnique ==
  ASSUME GitTypes, NEW kind \in Kinds, NEW p \in PlacesOf(kind),
         NEW local \in Nat, Cardinality(Preceding(kind, p)) = local
  PROVE  Walk(kind, local) = {p}
  <1>1. \A q : IsFiniteSet(Preceding(kind, q))
    BY PlacesAreFinite, KindPlaces, FS_Subset DEF Preceding
  <1>2. \A q \in PlacesOf(kind) : q \in AllPlaces /\ q \in (Nat \ {0}) \X (Nat \ {0})
    BY KindPlaces, PlacesAreOrdered
  <1>3. ASSUME NEW q \in PlacesOf(kind), NEW r \in PlacesOf(kind), Earlier(q, r)
        PROVE  Cardinality(Preceding(kind, q)) # Cardinality(Preceding(kind, r))
    <2>1. Preceding(kind, q) \subseteq Preceding(kind, r)
      BY <1>2, <1>3, EarlierIsOrder DEF Preceding
    <2>2. q \in Preceding(kind, r) /\ q \notin Preceding(kind, q)
      BY <1>2, <1>3, EarlierIsOrder DEF Preceding
    <2> QED
      BY <1>1, <2>1, <2>2, FS_Subset
  <1>4. \A q \in PlacesOf(kind) : Cardinality(Preceding(kind, q)) = local => q = p
    BY <1>2, <1>3, EarlierIsOrder
  <1>5. Walk(kind, local) = {q \in PlacesOf(kind) : Cardinality(Preceding(kind, q)) = local}
    BY DEF Walk, Preceding
  <1> QED
    BY <1>4, <1>5

LEMMA FileLineIsTrue ==
  ASSUME GitTypes, NEW kind \in Kinds, NEW p \in AllPlaces
  PROVE  FileLine(kind, p) = TrueLine(kind, p) /\ FileLine(kind, p) \in Nat
  <1> DEFINE hunk == diff[p[1]]
             before == SubSeq(hunk.lines, 1, p[2] - 1)
             other == IF kind = "add" THEN "delete" ELSE "add"
             Of(op) == {n \in 1..p[2] - 1 : hunk.lines[n].op = op}
  <1>1. p[2] \in Nat \ {0} /\ p[2] \in DOMAIN hunk.lines /\ hunk \in Hunk
    BY PlaceFacts
  <1>2. hunk.lines \in Seq(DiffLine) /\ hunk.newPosition \in Nat /\ hunk.oldPosition \in Nat
    BY <1>1 DEF Hunk
  <1>3. DOMAIN before = 1..p[2] - 1 /\ \A n \in 1..p[2] - 1 : before[n] = hunk.lines[n]
    BY <1>1, <1>2
  <1>4. \A n \in 1..p[2] - 1 : hunk.lines[n].op \in Ops
    <2> SUFFICES ASSUME NEW n \in 1..p[2] - 1 PROVE hunk.lines[n].op \in Ops
      OBVIOUS
    <2>1. n \in DOMAIN hunk.lines
      BY <1>1, <1>2
    <2>2. hunk.lines[n] \in DiffLine
      BY <1>2, <2>1
    <2> QED
      BY <2>2 DEF DiffLine
  <1>5. \A op : CountOf(op, before) = Cardinality(Of(op))
    BY <1>3 DEF CountOf
  <1>6. \A op : IsFiniteSet(Of(op)) /\ Cardinality(Of(op)) \in Nat
    <2>1. IsFiniteSet(1..p[2] - 1)
      BY <1>1, FS_Interval
    <2> QED
      BY <2>1, FS_Subset, FS_CardinalityType
  <1>7. /\ Of(kind) \cap Of("context") = {}
        /\ Of(kind) \cup Of("context") = {n \in 1..p[2] - 1 : hunk.lines[n].op # other}
    BY <1>4 DEF Ops, Kinds
  <1>8. HunkPosition(kind, hunk) = (IF kind = "add" THEN hunk.newPosition ELSE hunk.oldPosition)
        /\ HunkPosition(kind, hunk) \in Nat
    BY <1>2 DEF HunkPosition
  <1> DEFINE a == Cardinality(Of(kind))
             b == Cardinality(Of("context"))
             c == Cardinality(Of(kind) \cup Of("context"))
  <1>9. c = a + b /\ a \in Nat /\ b \in Nat
    <2> DEFINE d == Cardinality(Of(kind) \cap Of("context"))
    <2>1. a \in Nat /\ b \in Nat /\ IsFiniteSet(Of(kind)) /\ IsFiniteSet(Of("context"))
      BY <1>6
    <2>2. d = 0
      BY <1>7, FS_EmptySet
    <2> HIDE DEF Of
    <2>3. c = a + b - d
      BY <2>1, FS_Union
    <2> HIDE DEF a, b, c, d
    <2> QED
      BY <2>1, <2>2, <2>3
  <1>10. FileLine(kind, p) = HunkPosition(kind, hunk) + a + b
    BY <1>5 DEF FileLine
  <1>11. TrueLine(kind, p) = HunkPosition(kind, hunk) + c
    BY <1>7, <1>8 DEF TrueLine
  <1> HIDE DEF a, b, c
  <1> QED
    BY <1>8, <1>9, <1>10, <1>11

LEMMA FirstContentPrecedes ==
  ASSUME GitTypes, LinesInv, NEW i \in DOMAIN items, IsFirst(i),
         NEW n \in DOMAIN items[i].content,
         \A q \in PlacesOf(items[i].kind) : Earlier(q, items[i].content[n]) => Line(q).size <= MaxLineSize
  PROVE  /\ items[i].content[n] \in PlacesOf(items[i].kind)
         /\ Preceding(items[i].kind, items[i].content[n]) = {items[i].content[m] : m \in 1..n - 1}
         /\ \A m, k \in 1..n - 1 : items[i].content[m] = items[i].content[k] => m = k
         /\ n \in Nat \ {0}
  <1> DEFINE kind == items[i].kind
             content == items[i].content
             p == content[n]
  <1>1. kind \in Kinds /\ content \in Seq(AllPlaces) /\ i \in Nat \ {0} /\ items \in Seq(Item) /\ items # <<>>
    <2>1. items \in Seq(Item)
      BY DEF GitTypes
    <2>2. items[i] \in Item /\ i \in Nat \ {0} /\ items # <<>>
      BY <2>1
    <2> QED
      BY <2>1, <2>2 DEF Item
  <1>2. /\ ItemsArranged(kind) /\ EmittedOf(kind) \cup Gathered(packed, kind) = Kept(kind)
    BY <1>1 DEF LinesInv, PackedInv, EmitInv, GitTypes
  <1>3. /\ n \in Nat \ {0} /\ \A m \in 1..n - 1 : m \in DOMAIN content /\ m < n
        /\ \A m \in DOMAIN content : m = n \/ m < n \/ n < m
        /\ \A m \in DOMAIN content : m < n => m \in 1..n - 1
        /\ \A m, k \in DOMAIN content : m = k \/ m < k \/ k < m
    BY <1>1
  <1>4. \A j \in DOMAIN items : j = i \/ j \in 1..i - 1 \/ i < j
    BY <1>1
  <1>5. /\ Increasing(content)
        /\ \A j \in DOMAIN items : items[j].kind = kind /\ i < j => Below(content, items[j].content)
        /\ \A m \in DOMAIN packed : Below(content, packed[m][kind])
    BY <1>2 DEF ItemsArranged
  <1>6. \A m \in DOMAIN content : content[m] \in EmittedOf(kind)
    BY DEF EmittedOf, PlacesIn
  <1>7. Kept(kind) \subseteq PlacesOf(kind) /\ PlacesOf(kind) \subseteq AllPlaces
    BY KindPlaces DEF Kept
  <1>8. p \in PlacesOf(kind) /\ \A m \in 1..n - 1 : content[m] \in PlacesOf(kind)
    BY <1>2, <1>3, <1>6, <1>7
  <1>9. \A q \in PlacesOf(kind) : q \in (Nat \ {0}) \X (Nat \ {0})
    BY <1>7, PlacesAreOrdered
  <1> HIDE DEF kind, content
  <1>10. ASSUME NEW q \in PlacesOf(kind), Earlier(q, p) PROVE q \in {content[m] : m \in 1..n - 1}
    <2>1. ~Earlier(p, q) /\ q # p
      BY <1>8, <1>9, <1>10, EarlierIsOrder
    <2>2. q \in Kept(kind)
      BY <1>10 DEF Kept, kind, content
    <2>3. CASE q \in Gathered(packed, kind)
      <3>1. PICK m \in DOMAIN packed : q \in PlacesIn(packed[m][kind])
        BY <2>3 DEF Gathered
      <3>2. Earlier(p, q)
        BY <1>5, <3>1 DEF PlacesIn, Below, content
      <3> QED
        BY <2>1, <3>2
    <2>4. CASE q \in EmittedOf(kind)
      <3>1. PICK j \in DOMAIN items : items[j].kind = kind /\ q \in PlacesIn(items[j].content)
        BY <2>4 DEF EmittedOf
      <3>2. j \notin 1..i - 1
        BY <3>1 DEF IsFirst, kind
      <3>3. CASE i < j
        <4>1. Earlier(p, q)
          BY <1>5, <3>1, <3>3 DEF PlacesIn, Below, content
        <4> QED
          BY <2>1, <4>1
      <3>4. CASE j = i
        <4>1. PICK m \in DOMAIN content : q = content[m]
          BY <3>1, <3>4 DEF PlacesIn, content
        <4>2. ~(n < m) /\ m # n
          BY <1>5, <2>1, <4>1 DEF Increasing, content
        <4> QED
          BY <1>3, <4>1, <4>2 DEF content
      <3> QED
        BY <1>4, <3>2, <3>3, <3>4
    <2> QED
      BY <1>2, <2>2, <2>3, <2>4
  <1>11. \A m \in 1..n - 1 : Earlier(content[m], p)
    BY <1>3, <1>5 DEF Increasing, content
  <1>12. \A m, k \in 1..n - 1 : content[m] = content[k] => m = k
    <2> SUFFICES ASSUME NEW m \in 1..n - 1, NEW k \in 1..n - 1, content[m] = content[k], m # k PROVE FALSE
      OBVIOUS
    <2>1. Earlier(content[m], content[k]) \/ Earlier(content[k], content[m])
      BY <1>3, <1>5 DEF Increasing, content
    <2> QED
      BY <1>8, <1>9, <2>1, EarlierIsOrder
  <1>13. Preceding(kind, p) = {content[m] : m \in 1..n - 1}
    BY <1>8, <1>10, <1>11 DEF Preceding
  <1> QED
    BY <1>3, <1>8, <1>12, <1>13 DEF kind, content

\* In the first content of its kind, with no overlong line before it, a finding on
\* one line is reported at that line of the file, whatever the hunks and their
\* positions, and wherever the chunks are cut (GetGitStartAndEndLine).
THEOREM FirstContentIsExact == GitSpec => []FirstContentLinesAreExact
  <1>1. ASSUME GitTypes, LinesInv PROVE FirstContentLinesAreExact
    <2> SUFFICES ASSUME NEW i \in DOMAIN items, IsFirst(i), NEW n \in DOMAIN items[i].content,
                        \A q \in PlacesOf(items[i].kind) :
                          Earlier(q, items[i].content[n]) => Line(q).size <= MaxLineSize
                 PROVE  GetGitStartAndEndLine(items[i].kind, n - 1, n - 1)
                          = <<TrueLine(items[i].kind, items[i].content[n]),
                              TrueLine(items[i].kind, items[i].content[n])>>
      BY DEF FirstContentLinesAreExact
    <2> DEFINE kind == items[i].kind
               content == items[i].content
               p == content[n]
    <2>1. /\ p \in PlacesOf(kind) /\ Preceding(kind, p) = {content[m] : m \in 1..n - 1}
          /\ \A m, k \in 1..n - 1 : content[m] = content[k] => m = k
          /\ n \in Nat \ {0} /\ kind \in Kinds /\ p \in AllPlaces
      <3>1. kind \in Kinds
        <4>1. items[i] \in Item
          BY <1>1 DEF GitTypes
        <4> QED
          BY <4>1 DEF Item
      <3>2. /\ p \in PlacesOf(kind) /\ Preceding(kind, p) = {content[m] : m \in 1..n - 1}
            /\ \A m, k \in 1..n - 1 : content[m] = content[k] => m = k
            /\ n \in Nat \ {0}
        BY <1>1, FirstContentPrecedes
      <3> QED
        BY <3>1, <3>2, KindPlaces
    <2> HIDE DEF kind, content
    <2>2. Cardinality(Preceding(kind, p)) = n - 1
      <3> DEFINE f == [m \in 1..n - 1 |-> content[m]]
      <3>1. f \in Bijection(1..n - 1, Preceding(kind, p))
        BY <2>1 DEF Bijection, Injection, Surjection, IsInjective
      <3>2. IsFiniteSet(1..n - 1) /\ Cardinality(1..n - 1) = n - 1
        BY <2>1, UpTo
      <3> HIDE DEF f
      <3> QED
        BY <3>1, <3>2, FS_Bijection DEF ExistsBijection
    <2>3. Walk(kind, n - 1) = {p}
      BY <1>1, <2>1, <2>2, WalkIsUnique
    <2>4. FileLine(kind, p) = TrueLine(kind, p) /\ FileLine(kind, p) \in Nat
      BY <1>1, <2>1, FileLineIsTrue
    <2>5. {FileLine(kind, q) : q \in Walk(kind, n - 1)} = {FileLine(kind, p)}
      BY <2>3
    <2>6. (CHOOSE x \in {FileLine(kind, q) : q \in Walk(kind, n - 1)} : TRUE) = FileLine(kind, p)
      BY <2>5
    <2>7. GetGitStartAndEndLine(kind, n - 1, n - 1)
            = <<FileLine(kind, p), FileLine(kind, p) + ((n - 1) - (n - 1))>>
      BY <2>3, <2>6 DEF GetGitStartAndEndLine
    <2>8. FileLine(kind, p) + ((n - 1) - (n - 1)) = FileLine(kind, p)
      BY <2>1, <2>4
    <2> QED
      BY <2>4, <2>7, <2>8 DEF kind, content
  <1> QED
    BY <1>1, LinesAlwaysKept, PTL
=============================================================================
