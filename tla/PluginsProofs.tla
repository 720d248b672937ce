----------------------------- MODULE PluginsProofs -----------------------------
(* Proofs about Plugins, for every set of channels, threads, folders and      *)
(* components, every history and git log, every page size and every limit.    *)
EXTENDS Plugins, FiniteSetTheorems, SequenceTheorems, TLAPS

Ats == {None, "permission", "request", "page", "thread", "fail", "send", "end", "failed"}
Mains == {"start", "wait", "closed", "left", "log", "crashed"}
Items == Messages \cup Components \cup Contents

FlagTypes ==
  /\ plugin \in {"slack", "discord", "paligo", "git"} /\ selection \in Selections
  /\ maxAge \in Nat /\ maxCount \in Counts /\ maxCount \in Nat
  /\ main \in Mains /\ wg \in Int /\ sent \in [Items -> Nat]

ReadTypes ==
  /\ unlisted \subseteq Channels /\ selected \subseteq Channels
  /\ guild \in [Guilds -> {None, "started", "done"}]
  /\ at \in [Histories -> Ats] /\ pos \in [Histories -> Nat] /\ pageEnd \in [Histories -> Nat]
  /\ got \in [Histories -> SUBSET Nat] /\ last \in [Histories -> BOOLEAN]

PaligoTypes ==
  /\ folderQueue \in Seq(Folders) /\ children \in Seq(Folders \cup Components)
  /\ offered \in Components \cup {None, Walking, Over}
  /\ fetcher \in Components \cup {None, "receive", "done"}

GitTypes ==
  /\ diffs \in Seq(FileDiffs) /\ toSend \in Seq(Contents) /\ gitFailed \in BOOLEAN
  /\ binder \in {None, "forward", "done"}

ReadBounds ==
  \A h \in Histories : pos[h] <= pageEnd[h] /\ pageEnd[h] <= Len(History[h]) /\ got[h] \subseteq 1..pos[h]

TypeOK == FlagTypes /\ ReadTypes /\ ReadBounds /\ PaligoTypes /\ GitTypes

USE DEF None, Walking, Over

-----------------------------------------------------------------------------
(* Types.                                                                    *)

LEMMA SequenceTail ==
  ASSUME NEW S, NEW s \in Seq(S), s # <<>> PROVE Head(s) \in S /\ Tail(s) \in Seq(S)
  OBVIOUS

\* Every message of a history is an item, and is [age, text, thread].
LEMMA MessageTypes ==
  ASSUME NEW h \in Histories
  PROVE  /\ History[h] \in Seq([age : Nat, text : BOOLEAN, thread : Threads \cup {None}])
         /\ Len(History[h]) \in Nat /\ DOMAIN History[h] = 1..Len(History[h])
         /\ \A i \in DOMAIN History[h] :
               /\ <<h, i>> \in Messages /\ <<h, i>> \in Items
               /\ History[h][i].age \in Nat /\ History[h][i].text \in BOOLEAN
               /\ History[h][i].thread \in Threads \cup {None}
  <1>1. History[h] \in Seq([age : Nat, text : BOOLEAN, thread : Threads \cup {None}])
    BY HistoryAssumption DEF HistoryAssumption
  <1>2. \A i \in DOMAIN History[h] : <<h, i>> \in Messages
    BY DEF Messages
  <1>3. Len(History[h]) \in Nat /\ DOMAIN History[h] = 1..Len(History[h])
    BY <1>1
  <1>4. ASSUME NEW i \in DOMAIN History[h]
        PROVE  History[h][i].age \in Nat /\ History[h][i].text \in BOOLEAN
               /\ History[h][i].thread \in Threads \cup {None}
    <2>1. History[h][i] \in [age : Nat, text : BOOLEAN, thread : Threads \cup {None}]
      BY <1>1, <1>3, <1>4, ElementOfSeq
    <2> QED
      BY <2>1
  <1> QED
    BY <1>1, <1>2, <1>3, <1>4 DEF Items

LEMMA TypeInit == Init => TypeOK
  <1> SUFFICES ASSUME Init PROVE TypeOK
    OBVIOUS
  <1> USE DEF Init
  <1>1. FlagTypes
    BY HistoryAssumption DEF HistoryAssumption, FlagTypes, Mains, Items
  <1>2. ReadTypes
    BY DEF ReadTypes, Ats
  <1>3. PaligoTypes
    BY DEF PaligoTypes
  <1>4. GitTypes
    <2>1. diffs = <<>> /\ toSend = <<>> /\ gitFailed = FALSE /\ binder = None
      OBVIOUS
    <2>2. diffs \in Seq(FileDiffs) /\ toSend \in Seq(Contents)
      BY <2>1
    <2>3. gitFailed \in BOOLEAN /\ binder \in {None, "forward", "done"}
      BY <2>1
    <2> QED
      BY <2>2, <2>3 DEF GitTypes
  <1>5. ReadBounds
    BY MessageTypes DEF ReadBounds
  <1> QED
    BY <1>1, <1>2, <1>3, <1>4, <1>5 DEF TypeOK

LEMMA GitStepTypes ==
  ASSUME TypeOK, ReadLog \/ GitFails \/ BindChannels PROVE TypeOK'
  <1> USE DEF TypeOK
  <1>1. ReadTypes' /\ ReadBounds' /\ PaligoTypes'
    BY DEF ReadLog, readGitLog, LogDoesNotStart, processFileDiff, SendContent, WaitForGit, GitFails, BindChannels,
       listVars, readVars, paligoVars, ReadTypes, ReadBounds, PaligoTypes
  <1>2. FlagTypes' /\ GitTypes'
    <2>1. CASE readGitLog
      <3>1. Logged(maxCount) \in Seq(FileDiffs)
        BY GitAssumption DEF GitAssumption, FlagTypes
      <3> QED
        BY <2>1, <3>1 DEF readGitLog, flagVars, FlagTypes, Mains, GitTypes
    <2>2. CASE LogDoesNotStart \/ WaitForGit
      BY <2>2 DEF LogDoesNotStart, WaitForGit, flagVars, gitVars, FlagTypes, Mains, GitTypes
    <2>3. CASE processFileDiff
      <3>1. Head(diffs) \in FileDiffs /\ Tail(diffs) \in Seq(FileDiffs)
        BY <2>3 DEF processFileDiff, GitTypes
      <3>2. toSend' \in Seq(Contents)
        BY <2>3, <3>1, GitAssumption DEF processFileDiff, GitAssumption
      <3> QED
        BY <2>3, <3>1, <3>2 DEF processFileDiff, flagVars, FlagTypes, GitTypes
    <2>4. CASE SendContent
      <3>1. Head(toSend) \in Contents /\ Tail(toSend) \in Seq(Contents) /\ Head(toSend) \in Items
        BY <2>4 DEF SendContent, GitTypes, Items
      <3>2. sent' \in [Items -> Nat]
        BY <2>4, <3>1 DEF SendContent, Send, FlagTypes
      <3> QED
        BY <2>4, <3>1, <3>2 DEF SendContent, flagVars, FlagTypes, GitTypes
    <2>5. CASE GitFails
      <3>1. diffs' \in Seq(FileDiffs)
        BY <2>5 DEF GitFails, GitTypes
      <3> QED
        BY <2>5, <3>1 DEF GitFails, flagVars, FlagTypes, GitTypes
    <2>6. CASE BindChannels
      BY <2>6 DEF BindChannels, flagVars, FlagTypes, GitTypes
    <2> QED
      BY <2>1, <2>2, <2>3, <2>4, <2>5, <2>6 DEF ReadLog
  <1> QED
    BY <1>1, <1>2

LEMMA PaligoStepTypes ==
  ASSUME TypeOK, processFolders \/ FolderWalk \/ Fetch \/ RateLimited \/ NoAnswer PROVE TypeOK'
  <1> USE DEF TypeOK
  <1>1. ReadTypes' /\ ReadBounds' /\ GitTypes'
    BY DEF processFolders, FolderWalk, ShowFolder, NextChild, FoldersDone, Fetch, ReceiveComponent, handleComponent,
       ComponentsDone, RateLimited, NoAnswer, listVars, readVars, gitVars, ReadTypes, ReadBounds, GitTypes
  <1>2. FlagTypes'
    <2>1. CASE handleComponent
      <3>1. fetcher \in Items
        BY <2>1 DEF handleComponent, Items
      <3> QED
        BY <2>1, <3>1 DEF handleComponent, Send, flagVars, FlagTypes
    <2>2. CASE ~handleComponent
      BY <2>2 DEF processFolders, FolderWalk, ShowFolder, NextChild, FoldersDone, Fetch, ReceiveComponent,
         ComponentsDone, RateLimited, NoAnswer, flagVars, FlagTypes, Mains
    <2> QED
      BY <2>1, <2>2
  <1>3. PaligoTypes'
    <2>1. CASE processFolders
      BY <2>1, FolderAssumption DEF processFolders, FolderAssumption, PaligoTypes
    <2>2. CASE ShowFolder
      <3>1. Head(folderQueue) \in Folders /\ Tail(folderQueue) \in Seq(Folders)
        BY <2>2 DEF ShowFolder, PaligoTypes
      <3>2. children' \in Seq(Folders \cup Components)
        BY <2>2, <3>1, FolderAssumption DEF ShowFolder, FolderAssumption, PaligoTypes
      <3> QED
        BY <2>2, <3>1, <3>2 DEF ShowFolder, PaligoTypes
    <2>3. CASE NextChild
      <3>1. Head(children) \in Folders \cup Components /\ Tail(children) \in Seq(Folders \cup Components)
        BY <2>3 DEF NextChild, PaligoTypes
      <3>2. CASE Head(children) \in Folders
        BY <2>3, <3>1, <3>2 DEF NextChild, PaligoTypes
      <3>3. CASE Head(children) \notin Folders
        BY <2>3, <3>1, <3>3 DEF NextChild, PaligoTypes
      <3> QED
        BY <3>2, <3>3
    <2>4. CASE FoldersDone \/ ReceiveComponent \/ handleComponent \/ ComponentsDone \/ RateLimited \/ NoAnswer
      BY <2>4 DEF FoldersDone, ReceiveComponent, handleComponent, ComponentsDone, RateLimited, NoAnswer, paligoVars,
         PaligoTypes
    <2> QED
      BY <2>1, <2>2, <2>3, <2>4 DEF FolderWalk, Fetch
  <1> QED
    BY <1>1, <1>2, <1>3

LEMMA GuildsFinite == IsFiniteSet(Guilds)
  <1> DEFINE f == [c \in Channels |-> GuildOf[c]]
  <1>1. f \in Surjection(Channels, Guilds)
    BY DEF Surjection, Guilds
  <1> QED
    BY <1>1, FS_Surjection, HistoryAssumption DEF HistoryAssumption

LEMMA ListStepTypes ==
  ASSUME TypeOK, \/ CloseItems \/ NotInitialized \/ StartFails \/ getChannels \/ getItems
                 \/ \E g \in Guilds : readGuildMessages(g)
  PROVE  TypeOK'
  <1> USE DEF TypeOK
  <1>1. PaligoTypes' /\ ReadBounds' /\ GitTypes'
    BY DEF CloseItems, NotInitialized, StartFails, getChannels, getItems, readGuildMessages, listVars, readVars, paligoVars,
       gitVars, ReadBounds, PaligoTypes, GitTypes
  <1>2. \A S : IsFiniteSet(S) => Cardinality(S) \in Nat
    BY FS_CardinalityType
  <1>3. \A S \in SUBSET Channels : Cardinality(S) \in Nat
    BY <1>2, FS_Subset, HistoryAssumption DEF HistoryAssumption
  <1>4. FlagTypes' /\ ReadTypes'
    <2>1. CASE CloseItems \/ NotInitialized \/ StartFails
      BY <2>1 DEF CloseItems, NotInitialized, StartFails, flagVars, listVars, readVars, FlagTypes, ReadTypes, Mains
    <2>2. CASE getChannels
      <3>1. selected' \subseteq Channels /\ unlisted' \subseteq Channels
        BY <2>2 DEF getChannels, ReadTypes
      <3>2. at' \in [Histories -> Ats] /\ wg' \in Int /\ main' \in Mains
        BY <1>3, <2>2, <3>1 DEF getChannels, StartReaders, ReadTypes, FlagTypes, Ats, Mains
      <3> QED
        BY <2>2, <3>1, <3>2 DEF getChannels, flagVars, FlagTypes, ReadTypes
    <2>3. CASE getItems
      BY <2>3, GuildsFinite, <1>2 DEF getItems, flagVars, readVars, FlagTypes, ReadTypes, Mains
    <2>4. CASE \E g \in Guilds : readGuildMessages(g)
      <3>1. PICK g \in Guilds : readGuildMessages(g)
        BY <2>4
      <3>2. Cardinality(ChannelsOf(g)) \in Nat
        BY <1>3 DEF ChannelsOf
      <3> QED
        BY <3>1, <3>2 DEF readGuildMessages, flagVars, FlagTypes, ReadTypes, Ats
    <2> QED
      BY <2>1, <2>2, <2>3, <2>4
  <1> QED
    BY <1>1, <1>4

LEMMA ReaderKeeps ==
  ASSUME NEW h \in Histories, Reader(h)
  PROVE  /\ UNCHANGED <<plugin, selection, maxAge, maxCount, main, unlisted, selected, guild, paligoVars, gitVars>>
         /\ at[h] \in {"permission", "request", "page", "fail", "send"}
  BY DEF Reader, CheckPermission, Request, RequestFails, OutOfRange, TakeMessage, PageDone, SendCollected, InPage,
     flagVars, listVars

\* A reader's step is in the range of its variables, and only of its own ones but
\* for its thread's and its channel's place.
LEMMA ReaderReads ==
  ASSUME TypeOK, NEW h \in Histories, Reader(h)
  PROVE  /\ wg' \in Int /\ at' \in [Histories -> Ats] /\ pos' \in [Histories -> Nat] /\ pageEnd' \in [Histories -> Nat]
         /\ got' \in [Histories -> SUBSET Nat] /\ last' \in [Histories -> BOOLEAN]
         /\ \A b \in Histories : b # h => /\ pos'[b] = pos[b] /\ pageEnd'[b] = pageEnd[b]
                                          /\ got'[b] = got[b] /\ last'[b] = last[b]
  <1> USE DEF TypeOK, ReadTypes, FlagTypes
  <1>1. CASE CheckPermission(h) \/ RequestFails(h) \/ PageDone(h) \/ SendCollected(h)
    <2>1. UNCHANGED <<pos, pageEnd, got, last>>
      BY <1>1 DEF CheckPermission, RequestFails, PageDone, SendCollected
    <2>2. wg' \in {wg, wg - 1}
      BY <1>1 DEF CheckPermission, RequestFails, PageDone, SendCollected, Returns
    <2>3. at' \in [Histories -> Ats]
      BY <1>1 DEF CheckPermission, RequestFails, PageDone, SendCollected, Returns, Ats
    <2>4. wg' \in Int
      BY <2>2
    <2> QED
      BY <2>1, <2>3, <2>4
  <1>2. CASE Request(h)
    <2>1. UNCHANGED <<pos, got, last>>
      BY <1>2 DEF Request
    <2>2. PICK n \in 0..PageSize : /\ pageEnd' = [pageEnd EXCEPT ![h] = @ + n]
                                   /\ IF plugin = "discord" /\ (n = 0 \/ last[h])
                                      THEN IF h \in Threads THEN Returns(h, "end")
                                           ELSE at' = [at EXCEPT ![h] = "send"] /\ UNCHANGED <<wg, failed>>
                                      ELSE at' = [at EXCEPT ![h] = "page"] /\ UNCHANGED <<wg, failed>>
      BY <1>2 DEF Request
    <2>3. n \in Nat
      BY HistoryAssumption DEF HistoryAssumption
    <2>4. wg' \in {wg, wg - 1}
      BY <2>2 DEF Returns
    <2>5. at' \in [Histories -> Ats]
      BY <2>2 DEF Returns, Ats
    <2>6. pageEnd[h] + n \in Nat
      BY <2>3
    <2>7. pageEnd' \in [Histories -> Nat] /\ \A b \in Histories : b # h => pageEnd'[b] = pageEnd[b]
      BY <2>2, <2>6
    <2>8. wg' \in Int
      BY <2>4
    <2> QED
      BY <2>1, <2>5, <2>7, <2>8
  <1>3. CASE OutOfRange(h)
    BY <1>3 DEF OutOfRange
  <1>4. CASE TakeMessage(h)
    <2>1. UNCHANGED <<wg, pageEnd, last>>
      BY <1>4 DEF TakeMessage
    <2>2. at' \in [Histories -> Ats]
      BY <1>4 DEF TakeMessage, Ats
    <2>3. UNCHANGED <<pos, got>> \/ (pos' = [pos EXCEPT ![h] = @ + 1] /\ got' = [got EXCEPT ![h] = @ \cup {pos[h] + 1}])
      BY <1>4 DEF TakeMessage
    <2>4. pos[h] + 1 \in Nat
      OBVIOUS
    <2> QED
      BY <2>1, <2>2, <2>3, <2>4
  <1> QED
    BY <1>1, <1>2, <1>3, <1>4 DEF Reader

LEMMA ReaderBounds ==
  ASSUME TypeOK, NEW h \in Histories, Reader(h) PROVE ReadBounds'
  <1> SUFFICES ASSUME NEW b \in Histories
               PROVE  pos'[b] <= pageEnd'[b] /\ pageEnd'[b] <= Len(History[b]) /\ got'[b] \subseteq 1..pos'[b]
    BY DEF ReadBounds
  <1>1. pos[b] <= pageEnd[b] /\ pageEnd[b] <= Len(History[b]) /\ got[b] \subseteq 1..pos[b]
        /\ pos[b] \in Nat /\ pageEnd[b] \in Nat /\ Len(History[b]) \in Nat
    BY MessageTypes DEF TypeOK, ReadBounds, ReadTypes
  <1>2. CASE b # h
    BY <1>1, <1>2, ReaderReads
  <1>3. CASE b = h
    <2> USE DEF TypeOK, ReadTypes
    <2>1. CASE CheckPermission(h) \/ RequestFails(h) \/ PageDone(h) \/ SendCollected(h)
      BY <1>1, <1>3, <2>1 DEF CheckPermission, RequestFails, PageDone, SendCollected
    <2>2. CASE Request(h)
      <3>1. PICK n \in 0..PageSize : pageEnd[h] + n <= Len(History[h]) /\ pageEnd' = [pageEnd EXCEPT ![h] = @ + n]
        BY <2>2 DEF Request
      <3> QED
        BY <1>1, <1>3, <2>2, <3>1, HistoryAssumption DEF Request, HistoryAssumption
    <2>3. CASE OutOfRange(h)
      BY <1>1, <1>3, <2>3 DEF OutOfRange, InPage
    <2>4. CASE TakeMessage(h)
      BY <1>1, <1>3, <2>4 DEF TakeMessage, InPage
    <2> QED
      BY <2>1, <2>2, <2>3, <2>4 DEF Reader
  <1> QED
    BY <1>2, <1>3

\* What is sent are messages that were read.
LEMMA GotMessages ==
  ASSUME TypeOK, NEW h \in Histories, NEW i \in got[h] PROVE i \in DOMAIN History[h] /\ <<h, i>> \in Messages
  <1>1. got[h] \subseteq 1..pos[h] /\ pos[h] <= pageEnd[h] /\ pageEnd[h] <= Len(History[h])
    BY DEF TypeOK, ReadBounds
  <1>2. pos[h] \in Nat /\ pageEnd[h] \in Nat /\ Len(History[h]) \in Nat /\ DOMAIN History[h] = 1..Len(History[h])
    BY MessageTypes DEF TypeOK, ReadTypes
  <1> QED
    BY <1>1, <1>2, MessageTypes

LEMMA CollectedMessages ==
  ASSUME TypeOK, NEW h \in Histories, NEW x \in Collected(h) PROVE x \in Messages
  BY GotMessages DEF Collected, Histories

LEMMA NextInPage ==
  ASSUME TypeOK, NEW h \in Histories, InPage(h)
  PROVE  pos[h] + 1 \in DOMAIN History[h] /\ <<h, pos[h] + 1>> \in Messages
  <1>1. pos[h] < pageEnd[h] /\ pageEnd[h] <= Len(History[h])
    BY DEF TypeOK, ReadBounds, InPage
  <1>2. pos[h] \in Nat /\ pageEnd[h] \in Nat /\ Len(History[h]) \in Nat /\ DOMAIN History[h] = 1..Len(History[h])
    BY MessageTypes DEF TypeOK, ReadTypes
  <1> QED
    BY <1>1, <1>2, MessageTypes

LEMMA ReaderSends ==
  ASSUME TypeOK, NEW h \in Histories, Reader(h)
  PROVE  sent' \in [Items -> Nat] /\ \A x \in Items : x \notin Messages => sent'[x] = sent[x]
  <1> USE DEF TypeOK, ReadTypes, FlagTypes
  <1>1. sent' = sent \/ \E x \in Messages : sent' = [sent EXCEPT ![x] = @ + 1]
    <2>1. CASE TakeMessage(h)
      <3>1. sent' # sent => sent' = [sent EXCEPT ![<<h, pos[h] + 1>>] = @ + 1] \/ sent' = sent
        BY <2>1 DEF TakeMessage, Send
      <3> QED
        BY <2>1, <3>1, NextInPage DEF TakeMessage
    <2>2. CASE SendCollected(h)
      <3>1. sent' = sent \/ \E x \in Collected(h) : sent' = [sent EXCEPT ![x] = @ + 1]
        BY <2>2 DEF SendCollected, Send
      <3> QED
        BY <3>1, CollectedMessages
    <2>3. CASE ~TakeMessage(h) /\ ~SendCollected(h)
      BY <2>3 DEF Reader, CheckPermission, Request, RequestFails, OutOfRange, PageDone
    <2> QED
      BY <2>1, <2>2, <2>3
  <1> QED
    BY <1>1 DEF Items

LEMMA TypeNext == ASSUME TypeOK, [Next]_vars PROVE TypeOK'
  <1>1. CASE \E h \in Histories : Reader(h)
    <2>1. PICK h \in Histories : Reader(h)
      BY <1>1
    <2>2. FlagTypes' /\ ReadTypes' /\ PaligoTypes' /\ GitTypes'
      BY <2>1, ReaderKeeps, ReaderReads, ReaderSends DEF TypeOK, FlagTypes, ReadTypes, PaligoTypes, GitTypes, paligoVars,
         gitVars
    <2> QED
      BY <2>1, <2>2, ReaderBounds DEF TypeOK
  <1>2. CASE UNCHANGED vars
    BY <1>2 DEF vars, flagVars, listVars, readVars, paligoVars, gitVars, TypeOK, FlagTypes, ReadTypes, ReadBounds,
       PaligoTypes, GitTypes
  <1> QED
    BY <1>1, <1>2, GitStepTypes, PaligoStepTypes, ListStepTypes DEF Next, Run

-----------------------------------------------------------------------------
(* Reading a history up to the limits.                                       *)

\* The first k messages of h are taken, all in range; a reader that has not met a
\* message out of range has taken all it has come by, and one that has will find
\* the others out of range as well.
Taken(h, k) ==
  /\ got[h] = 1..k /\ (last[h] \/ k = pos[h])
  /\ \A i \in 1..k : i \in InRange(h)
  /\ last[h] => \A i \in DOMAIN History[h] : i > k => i \notin InRange(h)

TakenInv == \A h \in Histories : \E k \in 0..pos[h] : Taken(h, k)

LEMMA IntervalSize == ASSUME NEW k \in Nat PROVE Cardinality(1..k) = k
  BY FS_Interval

LEMMA AgesAreSorted ==
  ASSUME NEW h \in Histories, NEW i \in DOMAIN History[h], NEW j \in DOMAIN History[h], i <= j
  PROVE  History[h][i].age <= History[h][j].age
  <1>1. i \in Nat /\ j \in Nat /\ History[h][i].age \in Nat
    <2>1. DOMAIN History[h] = 1..Len(History[h]) /\ Len(History[h]) \in Nat
      BY MessageTypes
    <2>2. i \in Nat /\ j \in Nat
      BY <2>1
    <2> QED
      BY <2>2, MessageTypes
  <1>2. i < j \/ i = j
    BY <1>1
  <1> QED
    BY <1>1, <1>2, HistoryAssumption DEF HistoryAssumption

\* The tests of isMessageOutOfRange and getMessages, for a reader that has taken k messages.
LEMMA OutOfRangeTests ==
  ASSUME TypeOK, NEW h \in Histories, InPage(h), NEW k \in 0..pos[h], Taken(h, k)
  PROVE  /\ TooOld(h) \/ CountReached(h) <=> last[h] \/ pos[h] + 1 \notin InRange(h)
         /\ TooOld(h) \/ CountReached(h) => \A i \in DOMAIN History[h] : i > k => i \notin InRange(h)
  <1> DEFINE p == pos[h] + 1
  <1>1. k \in Nat /\ pos[h] \in Nat /\ maxAge \in Nat /\ maxCount \in Nat /\ k <= pos[h]
    BY DEF TypeOK, ReadTypes, FlagTypes
  <1>2. p \in DOMAIN History[h] /\ Len(History[h]) \in Nat /\ DOMAIN History[h] = 1..Len(History[h])
    BY NextInPage, MessageTypes
  <1>3. Cardinality(got[h]) = k
    BY <1>1, IntervalSize DEF Taken
  <1>4. CountReached(h) <=> maxCount # 0 /\ k >= maxCount
    BY <1>3 DEF CountReached
  <1>5. TooOld(h) <=> maxAge # 0 /\ History[h][p].age > maxAge
    BY DEF TooOld
  <1>6. \A i \in DOMAIN History[h] : i \in Nat /\ History[h][i].age \in Nat
    <2>1. \A i \in DOMAIN History[h] : History[h][i].age \in Nat
      BY MessageTypes
    <2> QED
      BY <1>2, <2>1
  <1>7. ASSUME NEW i \in DOMAIN History[h]
        PROVE  i \in InRange(h) <=> (maxAge # 0 => History[h][i].age <= maxAge) /\ (maxCount # 0 => i <= maxCount)
    BY DEF InRange
  <1>8. ASSUME ~last[h], TooOld(h) \/ CountReached(h) PROVE \A i \in DOMAIN History[h] : i > k => i \notin InRange(h)
    <2> SUFFICES ASSUME NEW i \in DOMAIN History[h], i > k PROVE i \notin InRange(h)
      OBVIOUS
    <2>1. i \in Nat /\ History[h][i].age \in Nat /\ History[h][p].age \in Nat
      BY <1>2, <1>6
    <2>2. k = pos[h]
      BY <1>8 DEF Taken
    <2>3. p <= i
      BY <1>1, <2>1, <2>2
    <2>4. History[h][p].age <= History[h][i].age
      BY <1>2, <2>3, AgesAreSorted
    <2>5. CASE TooOld(h)
      <3>1. maxAge # 0 /\ History[h][i].age > maxAge
        BY <1>1, <1>5, <2>1, <2>4, <2>5
      <3>2. ~(History[h][i].age <= maxAge)
        BY <1>1, <2>1, <3>1
      <3> QED
        BY <1>7, <3>1, <3>2
    <2>6. CASE CountReached(h)
      <3>1. maxCount # 0 /\ ~(i <= maxCount)
        BY <1>1, <1>4, <2>1, <2>6
      <3> QED
        BY <1>7, <3>1
    <2> QED
      BY <1>8, <2>5, <2>6
  <1>9. ASSUME NEW i \in DOMAIN History[h], i <= p, i = k + 1, i \notin InRange(h) PROVE TooOld(h) \/ CountReached(h)
    <2>1. i \in Nat /\ History[h][i].age \in Nat /\ History[h][p].age \in Nat
      BY <1>2, <1>6
    <2>2. History[h][i].age <= History[h][p].age
      BY <1>2, <1>9, AgesAreSorted
    <2>3. (maxAge # 0 /\ ~(History[h][i].age <= maxAge)) \/ (maxCount # 0 /\ ~(i <= maxCount))
      BY <1>7, <1>9
    <2> QED
      BY <1>1, <1>4, <1>5, <1>9, <2>1, <2>2, <2>3
  <1>10. last[h] \/ p \notin InRange(h) => TooOld(h) \/ CountReached(h)
    <2>1. k + 1 \in DOMAIN History[h] /\ k + 1 <= p /\ k + 1 > k
      BY <1>1, <1>2
    <2>2. CASE last[h]
      <3>1. k + 1 \notin InRange(h)
        BY <2>1, <2>2 DEF Taken
      <3> QED
        BY <1>9, <2>1, <3>1
    <2>3. CASE ~last[h] /\ p \notin InRange(h)
      <3>1. p = k + 1
        BY <2>3 DEF Taken
      <3> QED
        BY <1>9, <2>1, <2>3, <3>1
    <2> QED
      BY <2>2, <2>3
  <1>11. p > k
    BY <1>1
  <1>12. last[h] => \A i \in DOMAIN History[h] : i > k => i \notin InRange(h)
    BY DEF Taken
  <1> QED
    BY <1>2, <1>8, <1>10, <1>11, <1>12

LEMMA TakenInit == ASSUME Init PROVE TakenInv
  <1> SUFFICES ASSUME NEW h \in Histories PROVE \E k \in 0..pos[h] : Taken(h, k)
    BY DEF TakenInv
  <1>1. 0 \in 0..pos[h] /\ got[h] = 1..0 /\ pos[h] = 0 /\ ~last[h]
    BY DEF Init
  <1> QED
    BY <1>1 DEF Taken

LEMMA TakenReader ==
  ASSUME TypeOK, TakenInv, NEW h \in Histories, Reader(h) PROVE TakenInv'
  <1> SUFFICES ASSUME NEW b \in Histories PROVE \E k \in 0..pos'[b] : Taken(b, k)'
    BY DEF TakenInv
  <1>1. PICK k \in 0..pos[b] : Taken(b, k)
    BY DEF TakenInv
  <1>2. InRange(b)' = InRange(b)
    BY ReaderKeeps DEF InRange
  <1>3. k \in Nat /\ pos[b] \in Nat /\ pageEnd[b] \in Nat /\ k <= pos[b]
    BY DEF TypeOK, ReadTypes
  <1>4. CASE UNCHANGED <<pos[b], got[b], last[b]>>
    BY <1>1, <1>2, <1>4 DEF Taken
  <1>5. CASE b = h /\ OutOfRange(h)
    <2>1. pos'[b] = pageEnd[b] /\ last'[b] = TRUE /\ got'[b] = got[b] /\ k <= pageEnd[b]
      BY <1>3, <1>5 DEF OutOfRange, InPage, TypeOK, ReadTypes
    <2>2. \A i \in DOMAIN History[b] : i > k => i \notin InRange(b)
      BY <1>1, <1>5, OutOfRangeTests DEF OutOfRange
    <2> QED
      BY <1>1, <1>2, <1>3, <2>1, <2>2 DEF Taken
  <1>6. CASE b = h /\ TakeMessage(h) /\ pos'[b] # pos[b]
    <2>1. pos'[b] = pos[b] + 1 /\ got'[b] = got[b] \cup {pos[b] + 1} /\ last'[b] = last[b]
      BY <1>6 DEF TakeMessage, TypeOK, ReadTypes
    <2>2. pos[b] + 1 \in InRange(b) /\ ~last[b]
      BY <1>1, <1>6, OutOfRangeTests DEF TakeMessage
    <2>3. k = pos[b] /\ got'[b] = 1..(k + 1)
      BY <1>1, <1>3, <2>1, <2>2 DEF Taken
    <2>4. \A i \in 1..(k + 1) : i \in 1..k \/ i = k + 1
      BY <1>3
    <2>5. Taken(b, k + 1)'
      BY <1>1, <1>2, <2>1, <2>2, <2>3, <2>4 DEF Taken
    <2> QED
      BY <1>3, <2>1, <2>3, <2>5
  <1>7. \/ UNCHANGED <<pos[b], got[b], last[b]>>
        \/ b = h /\ OutOfRange(h)
        \/ b = h /\ TakeMessage(h) /\ pos'[b] # pos[b]
    <2>1. CASE b # h
      BY <2>1, ReaderReads
    <2>2. CASE b = h /\ TakeMessage(h)
      <3>1. UNCHANGED <<pos, got, last>> \/ pos' = [pos EXCEPT ![h] = @ + 1]
        BY <2>2 DEF TakeMessage
      <3> QED
        BY <1>3, <2>2, <3>1 DEF TypeOK, ReadTypes
    <2>3. CASE ~TakeMessage(h) /\ ~OutOfRange(h)
      BY <2>3 DEF Reader, CheckPermission, Request, RequestFails, PageDone, SendCollected
    <2> QED
      BY <2>1, <2>2, <2>3
  <1> QED
    BY <1>4, <1>5, <1>6, <1>7

\* Steps that are not a reader's leave the histories alone.
LEMMA OthersKeepReading ==
  ASSUME [Next]_vars, \A h \in Histories : ~Reader(h)
  PROVE  UNCHANGED <<plugin, selection, maxAge, maxCount, pos, pageEnd, got, last>>
  BY DEF Next, Run, ReadLog, FolderWalk, Fetch, readGitLog, LogDoesNotStart, processFileDiff, SendContent, WaitForGit,
     GitFails, BindChannels, processFolders, ShowFolder, NextChild, FoldersDone, ReceiveComponent, handleComponent,
     ComponentsDone, RateLimited, NoAnswer, CloseItems, NotInitialized, StartFails, getChannels, getItems,
     readGuildMessages, vars, flagVars, readVars

LEMMA TakenNext == ASSUME TypeOK, TakenInv, [Next]_vars PROVE TakenInv'
  <1>1. CASE \E h \in Histories : Reader(h)
    BY <1>1, TakenReader
  <1>2. CASE \A h \in Histories : ~Reader(h)
    BY <1>2, OthersKeepReading DEF TakenInv, Taken, InRange
  <1> QED
    BY <1>1, <1>2

-----------------------------------------------------------------------------
(* The places of the readers: a channel waits while one of its threads is read. *)

Live == {"request", "page"}

\* t hangs on a message of its channel that the limits let through.
Found(t) ==
  /\ plugin = "discord" /\ Parent(t) \in Channels
  /\ \E i \in InRange(Parent(t)) : History[Parent(t)][i].thread = t

ThreadPlaces ==
  \A t \in Threads :
    /\ at[t] \in {None, "request", "page", "end", "failed"}
    /\ at[t] # None => Found(t)
    /\ at[t] \in Live => at[Parent(t)] = "thread"
    /\ at[t] = "failed" => at[Parent(t)] \in {"fail", "failed"}

OneThread == \A t, u \in Threads : at[t] \in Live /\ at[u] \in Live /\ Parent(t) = Parent(u) => t = u

SlackPlaces == plugin = "slack" => \A c \in Channels : at[c] \in {None, "request", "page", "end", "failed"}

\* A step of the reader of h: of a channel, of a thread, back from a thread or into one.
ChannelMoves(h) ==
  /\ h \in Channels /\ at[h] \in {"permission", "request", "page", "fail", "send"}
  /\ \E v \in {"request", "page", "send", "end", "failed"} :
       /\ at' = [at EXCEPT ![h] = v]
       /\ wg' = IF v \in {"end", "failed"} THEN wg - 1 ELSE wg
       /\ failed' = IF v = "failed" THEN failed \cup {h} ELSE failed
       /\ v = "send" => plugin = "discord"

ThreadMoves(h) ==
  /\ h \in Threads /\ at[h] \in Live /\ UNCHANGED <<wg, failed>>
  /\ \E v \in Live : at' = [at EXCEPT ![h] = v]

ThreadReturns(h) ==
  /\ h \in Threads /\ at[h] \in Live /\ UNCHANGED <<wg, failed>>
  /\ \/ at' = [at EXCEPT ![h] = "end", ![Parent(h)] = "page"]
     \/ at' = [at EXCEPT ![h] = "failed", ![Parent(h)] = "fail"]

ThreadStarts(h) ==
  /\ h \in Channels /\ at[h] = "page" /\ plugin = "discord" /\ UNCHANGED <<wg, failed>>
  /\ \E i \in InRange(h) : LET t == History[h][i].thread
                           IN  /\ t \in Threads /\ at[t] = None
                               /\ at' = [at EXCEPT ![h] = "thread", ![t] = "request"]

ParentOfThread ==
  \A c \in Channels : \A i \in DOMAIN History[c] : History[c][i].thread # None => Parent(History[c][i].thread) = c

LEMMA ParentIsUnique == ParentOfThread
  <1> SUFFICES ASSUME NEW c \in Channels, NEW i \in DOMAIN History[c], History[c][i].thread # None
               PROVE  Parent(History[c][i].thread) = c
    BY DEF ParentOfThread
  <1> DEFINE t == History[c][i].thread
             On(d) == \E j \in DOMAIN History[d] : History[d][j].thread = t
  <1>1. \A d \in Channels : On(d) => d = c
    BY HistoryAssumption DEF HistoryAssumption
  <1>2. Parent(t) \in Channels /\ On(Parent(t))
    BY DEF Parent
  <1> QED
    BY <1>1, <1>2

LEMMA ReturnsMoves ==
  ASSUME TypeOK, ThreadPlaces, NEW h \in Histories, NEW how \in {"end", "failed"}, Returns(h, how),
         at[h] \in {"permission", "request", "page", "fail", "send"}
  PROVE  ChannelMoves(h) \/ ThreadReturns(h)
  <1>1. CASE h \in Threads
    <2>1. at[h] \in Live
      BY <1>1 DEF ThreadPlaces, Live
    <2> QED
      BY <1>1, <2>1 DEF Returns, ThreadReturns
  <1>2. CASE h \notin Threads
    BY <1>2 DEF Returns, SendError, ChannelMoves, Histories
  <1> QED
    BY <1>1, <1>2

LEMMA ReaderMoves ==
  ASSUME TypeOK, TakenInv, ThreadPlaces, NEW h \in Histories, Reader(h)
  PROVE  \/ UNCHANGED <<at, wg, failed>>
         \/ ChannelMoves(h) \/ ThreadMoves(h) \/ ThreadReturns(h) \/ ThreadStarts(h)
  <1>1. h \in Threads => at[h] \in {None, "request", "page", "end", "failed"}
    BY DEF ThreadPlaces
  <1>2. CASE CheckPermission(h)
    <2>1. h \in Channels
      BY <1>1, <1>2 DEF CheckPermission, Histories
    <2> QED
      BY <1>2, <2>1 DEF CheckPermission, ChannelMoves
  <1>3. CASE RequestFails(h)
    BY <1>3, ReturnsMoves DEF RequestFails
  <1>4. CASE Request(h)
    <2>1. at[h] = "request"
      BY <1>4 DEF Request
    <2>2. \/ plugin = "discord" /\ h \in Threads /\ Returns(h, "end")
          \/ plugin = "discord" /\ h \notin Threads /\ at' = [at EXCEPT ![h] = "send"] /\ UNCHANGED <<wg, failed>>
          \/ at' = [at EXCEPT ![h] = "page"] /\ UNCHANGED <<wg, failed>>
      BY <1>4 DEF Request
    <2>3. CASE Returns(h, "end")
      BY <2>1, <2>3, ReturnsMoves
    <2>4. CASE plugin = "discord" /\ h \notin Threads /\ at' = [at EXCEPT ![h] = "send"] /\ UNCHANGED <<wg, failed>>
      BY <2>1, <2>4 DEF ChannelMoves, Histories
    <2>5. CASE at' = [at EXCEPT ![h] = "page"] /\ UNCHANGED <<wg, failed>>
      BY <2>1, <2>5 DEF ChannelMoves, ThreadMoves, Live, Histories
    <2> QED
      BY <2>2, <2>3, <2>4, <2>5
  <1>5. CASE OutOfRange(h)
    BY <1>5 DEF OutOfRange
  <1>6. CASE PageDone(h)
    <2>1. CASE Returns(h, "end")
      BY <1>6, <2>1, ReturnsMoves DEF PageDone
    <2>2. CASE at' = [at EXCEPT ![h] = "request"] /\ UNCHANGED <<wg, failed>>
      BY <1>6, <2>2 DEF PageDone, ChannelMoves, ThreadMoves, Live, Histories
    <2> QED
      BY <1>6, <2>1, <2>2 DEF PageDone
  <1>7. CASE SendCollected(h)
    <2>1. UNCHANGED <<at, wg, failed>> \/ Returns(h, "end")
      BY <1>7 DEF SendCollected
    <2> QED
      BY <1>7, <2>1, ReturnsMoves DEF SendCollected
  <1>8. CASE TakeMessage(h) /\ ~UNCHANGED at
    <2> DEFINE i == pos[h] + 1
               t == History[h][i].thread
    <2>1. plugin = "discord" /\ t # None /\ at[t] = None /\ at' = [at EXCEPT ![h] = "thread", ![t] = "request"]
      BY <1>8 DEF TakeMessage
    <2>2. InPage(h) /\ at[h] = "page" /\ UNCHANGED <<wg, failed>> /\ ~TooOld(h) /\ ~CountReached(h)
      BY <1>8 DEF TakeMessage, InPage
    <2>3. i \in DOMAIN History[h]
      BY <2>2, NextInPage
    <2>4. t \in Threads
      BY <2>1, <2>3, MessageTypes
    <2>5. h \in Channels
      BY <2>1, <2>3, HistoryAssumption DEF HistoryAssumption, Histories
    <2>6. PICK k \in 0..pos[h] : Taken(h, k)
      BY DEF TakenInv
    <2>7. i \in InRange(h)
      BY <2>2, <2>6, OutOfRangeTests
    <2> HIDE DEF i
    <2>8. ThreadStarts(h)
      BY <2>1, <2>2, <2>4, <2>5, <2>7 DEF ThreadStarts
    <2> QED
      BY <2>8
  <1>9. CASE TakeMessage(h) /\ UNCHANGED at
    BY <1>9 DEF TakeMessage
  <1> QED
    BY <1>2, <1>3, <1>4, <1>5, <1>6, <1>7, <1>8, <1>9 DEF Reader

\* What has not been started is idle, and only the parts of the plugin are started.
Idle ==
  /\ main = "start" => /\ wg = 0 /\ \A h \in Histories : at[h] = None
                       /\ \A g \in Guilds : guild[g] = None
                       /\ offered = None /\ fetcher = None /\ binder = None
  /\ \A c \in Channels : guild[GuildOf[c]] = "started" => at[c] = None
  /\ plugin # "discord" => \A g \in Guilds : guild[g] = None
  /\ plugin \notin {"slack", "discord"} => \A h \in Histories : at[h] = None
  /\ plugin # "paligo" => offered = None /\ fetcher = None
  /\ plugin # "git" => binder = None /\ main # "log"

PlaceInv == ThreadPlaces /\ OneThread /\ SlackPlaces /\ Idle

LEMMA PlaceInit == ASSUME Init PROVE PlaceInv
  <1>1. \A h \in Histories : at[h] = None
    BY DEF Init
  <1>2. \A g \in Guilds : guild[g] = None
    BY DEF Init
  <1>3. main = "start" /\ wg = 0 /\ offered = None /\ fetcher = None /\ binder = None
    BY DEF Init
  <1>4. \A c \in Channels : GuildOf[c] \in Guilds /\ c \in Histories
    BY DEF Guilds, Histories
  <1>5. Idle
    BY <1>1, <1>2, <1>3, <1>4 DEF Idle
  <1>6. ThreadPlaces /\ OneThread /\ SlackPlaces
    BY <1>1 DEF ThreadPlaces, OneThread, SlackPlaces, Histories, Live
  <1> QED
    BY <1>5, <1>6 DEF PlaceInv

LEMMA PlaceReader ==
  ASSUME TypeOK, TakenInv, PlaceInv, NEW h \in Histories, Reader(h) PROVE PlaceInv'
  <1>1. UNCHANGED <<plugin, selection, maxAge, maxCount, main, guild, offered, fetcher, binder>>
    BY ReaderKeeps DEF paligoVars, gitVars
  <1>2. ThreadPlaces /\ OneThread /\ SlackPlaces /\ Idle
    BY DEF PlaceInv
  <1>3. at \in [Histories -> Ats] /\ Channels \subseteq Histories /\ Threads \subseteq Histories
        /\ Channels \cap Threads = {}
    BY HistoryAssumption DEF HistoryAssumption, TypeOK, ReadTypes, Histories
  <1>4. \A t \in Threads : Found(t)' <=> Found(t)
    BY <1>1 DEF Found, InRange
  <1>5. main # "start" /\ plugin \in {"slack", "discord"} /\ at[h] # None
    BY <1>2, ReaderKeeps DEF Idle, TypeOK, FlagTypes
  <1>6. \/ UNCHANGED at
        \/ ChannelMoves(h) \/ ThreadMoves(h) \/ ThreadReturns(h) \/ ThreadStarts(h)
    BY <1>2, ReaderMoves
  <1>7. \A t \in Threads : at[t] # None => Parent(t) \in Channels
    BY <1>2 DEF ThreadPlaces, Found
  <1>8. CASE UNCHANGED at
    <2>1. ThreadPlaces' /\ OneThread' /\ SlackPlaces'
      BY <1>1, <1>2, <1>4, <1>8 DEF ThreadPlaces, OneThread, SlackPlaces
    <2>2. Idle'
      BY <1>1, <1>2, <1>5, <1>8 DEF Idle
    <2> QED
      BY <2>1, <2>2 DEF PlaceInv
  <1>9. CASE ChannelMoves(h)
    <2>1. PICK v \in {"request", "page", "send", "end", "failed"} :
            at' = [at EXCEPT ![h] = v] /\ (v = "send" => plugin = "discord")
      BY <1>9 DEF ChannelMoves
    <2>2. h \in Channels /\ at[h] \in {"permission", "request", "page", "fail", "send"}
      BY <1>9 DEF ChannelMoves
    <2>3. \A b \in Histories : at'[b] = IF b = h THEN v ELSE at[b]
      BY <1>3, <2>1
    <2>4. \A t \in Threads : at'[t] = at[t]
      BY <1>3, <2>2, <2>3
    <2>5. \A t \in Threads : at[t] \in Live \cup {"failed"} /\ Parent(t) = h => at[h] = "fail"
      BY <1>2, <2>2 DEF ThreadPlaces
    <2>6. at[h] = "fail" => v = "failed"
      <3> SUFFICES ASSUME at[h] = "fail" PROVE v = "failed"
        OBVIOUS
      <3>1. RequestFails(h)
        BY DEF Reader, CheckPermission, Request, OutOfRange, TakeMessage, InPage, PageDone, SendCollected
      <3>2. at' = [at EXCEPT ![h] = "failed"]
        BY <1>3, <2>2, <3>1 DEF RequestFails, Returns
      <3> QED
        BY <1>3, <2>2, <2>3, <3>2
    <2>7. ThreadPlaces'
      BY <1>2, <1>3, <1>4, <1>7, <2>3, <2>4, <2>5, <2>6 DEF ThreadPlaces, Live
    <2>8. OneThread'
      BY <1>2, <2>4 DEF OneThread
    <2>9. SlackPlaces' /\ Idle'
      BY <1>1, <1>2, <1>3, <1>5, <2>1, <2>2, <2>3 DEF SlackPlaces, Idle
    <2> QED
      BY <2>7, <2>8, <2>9 DEF PlaceInv
  <1>10. CASE ThreadMoves(h)
    <2>1. PICK v \in Live : at' = [at EXCEPT ![h] = v]
      BY <1>10 DEF ThreadMoves
    <2>2. h \in Threads /\ at[h] \in Live
      BY <1>10 DEF ThreadMoves
    <2>3. \A b \in Histories : at'[b] = IF b = h THEN v ELSE at[b]
      BY <1>3, <2>1
    <2>4. \A c \in Channels : at'[c] = at[c]
      BY <1>3, <2>2, <2>3
    <2>5. ThreadPlaces'
      BY <1>2, <1>3, <1>4, <1>7, <2>2, <2>3, <2>4 DEF ThreadPlaces, Live
    <2>6. OneThread'
      BY <1>2, <1>3, <2>2, <2>3 DEF OneThread
    <2>7. SlackPlaces' /\ Idle'
      BY <1>1, <1>2, <1>5, <2>4 DEF SlackPlaces, Idle
    <2> QED
      BY <2>5, <2>6, <2>7 DEF PlaceInv
  <1>11. CASE ThreadReturns(h)
    <2> DEFINE p == Parent(h)
    <2>1. h \in Threads /\ at[h] \in Live /\ p \in Channels /\ at[p] = "thread" /\ plugin = "discord"
      BY <1>2, <1>11 DEF ThreadReturns, ThreadPlaces, Found, Live
    <2>2. PICK v \in {"end", "failed"} :
            at' = [at EXCEPT ![h] = v, ![Parent(h)] = IF v = "end" THEN "page" ELSE "fail"]
      BY <1>11 DEF ThreadReturns
    <2> HIDE DEF p
    <2>3. at' = [at EXCEPT ![h] = v, ![p] = IF v = "end" THEN "page" ELSE "fail"]
      BY <2>2 DEF p
    <2>4. h # p
      BY <1>3, <2>1
    <2>5. \A b \in Histories : at'[b] = IF b = h THEN v ELSE IF b = p THEN (IF v = "end" THEN "page" ELSE "fail")
                                        ELSE at[b]
      BY <1>3, <2>1, <2>3, <2>4
    <2>6. \A t \in Threads : at[t] \in Live /\ Parent(t) = p => t = h
      BY <1>2, <2>1 DEF OneThread, p
    <2>7. \A t \in Threads : at[t] = "failed" => Parent(t) # p
      BY <1>2, <2>1 DEF ThreadPlaces
    <2>8. \A t \in Threads : t # h => at'[t] = at[t]
      BY <1>3, <2>1, <2>5
    <2>9. \A c \in Channels : c # p => at'[c] = at[c]
      BY <1>3, <2>1, <2>5
    <2>10. at'[h] = v /\ at'[p] = (IF v = "end" THEN "page" ELSE "fail") /\ Parent(h) = p
      BY <1>3, <2>1, <2>5 DEF p
    <2>11. ASSUME NEW t \in Threads
           PROVE  /\ at'[t] \in {None, "request", "page", "end", "failed"}
                  /\ at'[t] # None => Found(t)'
                  /\ at'[t] \in Live => at'[Parent(t)] = "thread"
                  /\ at'[t] = "failed" => at'[Parent(t)] \in {"fail", "failed"}
      <3>1. CASE t = h
        <4>1. at[t] # None
          BY <2>1, <3>1 DEF Live
        <4>2. Found(t)'
          BY <1>2, <1>4, <4>1 DEF ThreadPlaces
        <4> QED
          BY <2>10, <3>1, <4>2 DEF Live
      <3>2. CASE t # h
        <4>1. at'[t] = at[t]
          BY <2>8, <3>2
        <4>2. at[t] \in Live \cup {"failed"} => at'[Parent(t)] = at[Parent(t)]
          BY <1>7, <2>6, <2>7, <2>9, <3>2 DEF Live
        <4> QED
          BY <1>2, <1>4, <4>1, <4>2 DEF ThreadPlaces
      <3> QED
        BY <3>1, <3>2
    <2>12. ThreadPlaces'
      BY <2>11 DEF ThreadPlaces
    <2>13. OneThread'
      BY <1>2, <2>8, <2>10 DEF OneThread, Live
    <2>14. SlackPlaces' /\ Idle'
      BY <1>1, <1>2, <1>5, <2>1, <2>9 DEF SlackPlaces, Idle
    <2> QED
      BY <2>12, <2>13, <2>14 DEF PlaceInv
  <1>12. CASE ThreadStarts(h)
    <2>1. h \in Channels /\ at[h] = "page" /\ plugin = "discord"
      BY <1>12 DEF ThreadStarts
    <2>2. PICK i \in InRange(h) : /\ History[h][i].thread \in Threads /\ at[History[h][i].thread] = None
                                  /\ at' = [at EXCEPT ![h] = "thread", ![History[h][i].thread] = "request"]
      BY <1>12 DEF ThreadStarts
    <2>3. PICK t \in Threads : t = History[h][i].thread
      BY <2>2
    <2>4. at[t] = None /\ at' = [at EXCEPT ![h] = "thread", ![t] = "request"] /\ h # t
      BY <1>3, <2>1, <2>2, <2>3
    <2>5. Parent(t) = h
      BY <2>1, <2>2, <2>3, ParentIsUnique, HistoryAssumption DEF ParentOfThread, InRange, HistoryAssumption
    <2>6. Found(t)
      BY <2>1, <2>2, <2>3, <2>5 DEF Found
    <2>7. at'[t] = "request" /\ at'[h] = "thread"
      BY <1>3, <2>1, <2>4
    <2>8. \A b \in Histories : b # t /\ b # h => at'[b] = at[b]
      BY <1>3, <2>4
    <2>9. \A u \in Threads : at[u] \in Live \cup {"failed"} => Parent(u) # h /\ u # h
      BY <1>2, <1>3, <2>1 DEF ThreadPlaces
    <2>10. ASSUME NEW u \in Threads
           PROVE  /\ at'[u] \in {None, "request", "page", "end", "failed"}
                  /\ at'[u] # None => Found(u)'
                  /\ at'[u] \in Live => at'[Parent(u)] = "thread"
                  /\ at'[u] = "failed" => at'[Parent(u)] \in {"fail", "failed"}
      <3>1. CASE u = t
        BY <1>4, <2>5, <2>6, <2>7, <3>1 DEF Live
      <3>2. CASE u # t
        <4>1. at'[u] = at[u]
          BY <1>3, <2>1, <2>8, <3>2
        <4>2. at[u] \in Live \cup {"failed"} => at'[Parent(u)] = at[Parent(u)]
          BY <1>3, <1>7, <2>8, <2>9 DEF Live
        <4> QED
          BY <1>2, <1>4, <4>1, <4>2 DEF ThreadPlaces
      <3> QED
        BY <3>1, <3>2
    <2>11. ThreadPlaces'
      BY <2>10 DEF ThreadPlaces
    <2>12. OneThread'
      <3>1. \A u \in Threads : u # t => at'[u] = at[u]
        BY <1>3, <2>1, <2>8
      <3> QED
        BY <1>2, <2>5, <2>9, <3>1 DEF OneThread
    <2>13. SlackPlaces' /\ Idle'
      <3>1. \A c \in Channels : c # h => at'[c] = at[c]
        BY <1>3, <2>8
      <3> QED
        BY <1>1, <1>2, <1>5, <2>1, <3>1 DEF SlackPlaces, Idle
    <2> QED
      BY <2>11, <2>12, <2>13 DEF PlaceInv
  <1> QED
    BY <1>6, <1>8, <1>9, <1>10, <1>11, <1>12

LEMMA PlaceOthers ==
  ASSUME TypeOK, PlaceInv, [Next]_vars, \A h \in Histories : ~Reader(h) PROVE PlaceInv'
  <1>1. ThreadPlaces /\ OneThread /\ SlackPlaces /\ Idle
    BY DEF PlaceInv
  <1>2. UNCHANGED <<plugin, selection, maxAge, maxCount, pos, pageEnd, got, last>>
    BY OthersKeepReading
  <1>3. \A t \in Threads : Found(t)' <=> Found(t)
    BY <1>2 DEF Found, InRange
  <1>4. Channels \subseteq Histories /\ Threads \subseteq Histories /\ Channels \cap Threads = {}
        /\ \A c \in Channels : GuildOf[c] \in Guilds
    BY HistoryAssumption DEF HistoryAssumption, Histories, Guilds
  <1>5. CASE getChannels
    <2>1. main = "start" /\ plugin = "slack"
      BY <1>5 DEF getChannels
    <2>2. CASE StartReaders(selected')
      <3>1. \A h \in Histories : at'[h] \in {None, "request"}
        BY <1>1, <2>1, <2>2 DEF StartReaders, Idle
      <3>2. \A h \in Threads : at'[h] = None
        BY <1>1, <1>4, <1>5, <2>1, <2>2 DEF StartReaders, getChannels, TypeOK, ReadTypes, Idle
      <3>3. ThreadPlaces' /\ OneThread'
        BY <3>2 DEF ThreadPlaces, OneThread, Live
      <3>4. SlackPlaces' /\ Idle'
        BY <1>1, <1>2, <1>4, <1>5, <2>1, <2>2, <3>1 DEF StartReaders, getChannels, SlackPlaces, Idle, paligoVars, gitVars
      <3> QED
        BY <3>3, <3>4 DEF PlaceInv
    <2>3. CASE UNCHANGED <<main, wg, at>>
      BY <1>1, <1>2, <1>3, <1>5, <2>3 DEF getChannels, paligoVars, gitVars, PlaceInv, ThreadPlaces, OneThread, SlackPlaces,
         Idle
    <2> QED
      BY <1>5, <2>2, <2>3 DEF getChannels
  <1>6. CASE \E g \in Guilds : readGuildMessages(g)
    <2>1. PICK g \in Guilds : readGuildMessages(g)
      BY <1>6
    <2>2. /\ guild[g] = "started" /\ guild' = [guild EXCEPT ![g] = "done"]
          /\ at' = [h \in Histories |-> IF h \in ChannelsOf(g) THEN "permission" ELSE at[h]]
          /\ UNCHANGED <<main, offered, fetcher, binder>>
      BY <2>1 DEF readGuildMessages, paligoVars, gitVars
    <2>3. plugin = "discord" /\ main # "start"
      BY <1>1, <2>2 DEF Idle
    <2>4. \A c \in ChannelsOf(g) : c \in Channels /\ GuildOf[c] = g /\ at[c] = None
      BY <1>1, <2>2 DEF ChannelsOf, Idle
    <2>5. \A t \in Threads : at'[t] = at[t]
      BY <1>4, <2>2, <2>4
    <2>6. \A c \in Channels : at[c] # None => at'[c] = at[c]
      BY <1>4, <2>2, <2>4
    <2>7. ThreadPlaces'
      BY <1>1, <1>3, <2>5, <2>6 DEF ThreadPlaces, Found, Live
    <2>8. OneThread' /\ SlackPlaces'
      BY <1>1, <1>2, <2>3, <2>5 DEF OneThread, SlackPlaces
    <2>9. \A c \in Channels : guild'[GuildOf[c]] = "started" => at'[c] = None
      <3>1. guild \in [Guilds -> {None, "started", "done"}]
        BY DEF TypeOK, ReadTypes
      <3>2. SUFFICES ASSUME NEW c \in Channels, guild'[GuildOf[c]] = "started" PROVE at'[c] = None
        OBVIOUS
      <3>3. GuildOf[c] # g /\ guild[GuildOf[c]] = "started"
        BY <1>4, <2>2, <3>1, <3>2
      <3>4. c \notin ChannelsOf(g) /\ at[c] = None
        BY <1>1, <3>3 DEF ChannelsOf, Idle
      <3> QED
        BY <1>4, <2>2, <3>4
    <2>10. Idle'
      BY <1>1, <1>2, <2>2, <2>3, <2>9 DEF Idle
    <2> QED
      BY <2>7, <2>8, <2>10 DEF PlaceInv
  <1>7. CASE ~getChannels /\ ~\E g \in Guilds : readGuildMessages(g)
    <2>1. at' = at
      BY <1>7 DEF Next, Run, ReadLog, FolderWalk, Fetch, readGitLog, LogDoesNotStart, processFileDiff, SendContent,
         WaitForGit, GitFails, BindChannels, processFolders, ShowFolder, NextChild, FoldersDone, ReceiveComponent,
         handleComponent, ComponentsDone, RateLimited, NoAnswer, CloseItems, NotInitialized, StartFails, getItems, vars,
         readVars
    <2>2. ThreadPlaces' /\ OneThread' /\ SlackPlaces'
      BY <1>1, <1>2, <1>3, <2>1 DEF ThreadPlaces, OneThread, SlackPlaces
    <2>3. CASE getItems
      <3>1. main = "start" /\ main' = "wait" /\ plugin = "discord" /\ UNCHANGED <<offered, fetcher, binder>>
        BY <2>3 DEF getItems, paligoVars, gitVars
      <3> QED
        BY <1>1, <1>2, <1>4, <2>1, <2>2, <3>1 DEF Idle, PlaceInv
    <2>4. CASE ~getItems
      <3>1. guild' = guild
        BY <1>7, <2>4 DEF Next, Run, ReadLog, FolderWalk, Fetch, readGitLog, LogDoesNotStart, processFileDiff,
           SendContent, WaitForGit, GitFails, BindChannels, processFolders, ShowFolder, NextChild, FoldersDone,
           ReceiveComponent, handleComponent, ComponentsDone, RateLimited, NoAnswer, CloseItems, NotInitialized,
           StartFails, vars, listVars
      <3>2. main' = "start" => UNCHANGED <<main, wg, offered, fetcher, binder>>
        <4> SUFFICES ASSUME main' = "start" PROVE UNCHANGED <<main, wg, offered, fetcher, binder>>
          OBVIOUS
        <4>1. CASE FolderWalk \/ Fetch \/ BindChannels \/ GitFails
          <5>1. main = "start"
            BY <4>1 DEF FolderWalk, Fetch, BindChannels, GitFails, ShowFolder, NextChild, FoldersDone, ReceiveComponent,
               handleComponent, ComponentsDone
          <5>2. offered = None /\ fetcher = None /\ binder = None
            BY <1>1, <5>1 DEF Idle
          <5> QED
            BY <4>1, <5>2, FolderAssumption DEF FolderAssumption, FolderWalk, Fetch, BindChannels, GitFails, ShowFolder,
               NextChild, FoldersDone, ReceiveComponent, handleComponent, ComponentsDone
        <4>2. CASE RateLimited \/ UNCHANGED vars
          BY <4>2 DEF RateLimited, vars, paligoVars, gitVars
        <4>3. CASE ~(FolderWalk \/ Fetch \/ BindChannels \/ GitFails \/ RateLimited \/ UNCHANGED vars)
          BY <1>7, <2>4, <4>3 DEF Next, Run, ReadLog, readGitLog, LogDoesNotStart, processFileDiff, SendContent,
             WaitForGit, processFolders, NoAnswer, CloseItems, NotInitialized, StartFails
        <4> QED
          BY <4>1, <4>2, <4>3
      <3>3. plugin # "paligo" => offered' = None /\ fetcher' = None
        BY <1>1, <1>7, <2>4, FolderAssumption
           DEF FolderAssumption, Idle, Next, Run, ReadLog, FolderWalk, Fetch, readGitLog, LogDoesNotStart, processFileDiff,
           SendContent, WaitForGit, GitFails, BindChannels, processFolders, ShowFolder, NextChild, FoldersDone,
           ReceiveComponent, handleComponent, ComponentsDone, RateLimited, NoAnswer, CloseItems, NotInitialized,
           StartFails, vars, paligoVars
      <3>4. plugin # "git" => binder' = None /\ main' # "log"
        BY <1>1, <1>7, <2>4 DEF Idle, Next, Run, ReadLog, FolderWalk, Fetch, readGitLog, LogDoesNotStart, processFileDiff,
           SendContent, WaitForGit, GitFails, BindChannels, processFolders, ShowFolder, NextChild, FoldersDone,
           ReceiveComponent, handleComponent, ComponentsDone, RateLimited, NoAnswer, CloseItems, NotInitialized,
           StartFails, vars, gitVars
      <3>5. Idle'
        BY <1>1, <1>2, <2>1, <3>1, <3>2, <3>3, <3>4 DEF Idle
      <3> QED
        BY <2>2, <3>5 DEF PlaceInv
    <2> QED
      BY <2>3, <2>4
  <1> QED
    BY <1>5, <1>6, <1>7

LEMMA PlaceNext == ASSUME TypeOK, TakenInv, PlaceInv, [Next]_vars PROVE PlaceInv'
  BY PlaceReader, PlaceOthers

-----------------------------------------------------------------------------
(* The wait group.                                                           *)

ActiveChannels == {c \in Channels : at[c] \notin {None, "end", "failed"}}
StartedGuilds == {g \in Guilds : guild[g] = "started"}
FolderWalks == IF offered \in {None, Over} THEN 0 ELSE 1
Fetches == IF fetcher \in {None, "done"} THEN 0 ELSE 1
Binders == IF binder = "forward" THEN 1 ELSE 0
Goroutines == Cardinality(ActiveChannels) + Cardinality(StartedGuilds) + FolderWalks + Fetches + Binders

LEMMA CountsAre ==
  /\ WaitGroupCounts <=> (main # "crashed" => wg = Goroutines) /\ (main = "closed" => wg = 0)
  /\ WaitGroupCounts' <=> (main' # "crashed" => wg' = Goroutines') /\ (main' = "closed" => wg' = 0)
  BY DEF WaitGroupCounts, Goroutines, ActiveChannels, StartedGuilds, FolderWalks, Fetches, Binders

LEMMA CountsAreFinite ==
  /\ IsFiniteSet(ActiveChannels) /\ IsFiniteSet(StartedGuilds)
  /\ Cardinality(ActiveChannels) \in Nat /\ Cardinality(StartedGuilds) \in Nat
  /\ FolderWalks \in {0, 1} /\ Fetches \in {0, 1} /\ Binders \in {0, 1}
  /\ IsFiniteSet(Guilds) /\ Cardinality(Guilds) \in Nat
  <1>1. IsFiniteSet(Channels) /\ IsFiniteSet(Guilds)
    BY GuildsFinite, HistoryAssumption DEF HistoryAssumption
  <1>2. ActiveChannels \subseteq Channels /\ StartedGuilds \subseteq Guilds
    BY DEF ActiveChannels, StartedGuilds
  <1>3. IsFiniteSet(ActiveChannels) /\ IsFiniteSet(StartedGuilds)
    BY <1>1, <1>2, FS_Subset
  <1>4. Cardinality(ActiveChannels) \in Nat /\ Cardinality(StartedGuilds) \in Nat /\ Cardinality(Guilds) \in Nat
    BY <1>1, <1>3, FS_CardinalityType
  <1> QED
    BY <1>1, <1>3, <1>4 DEF FolderWalks, Fetches, Binders

LEMMA SumIsZero ==
  ASSUME NEW a \in Nat, NEW b \in Nat, NEW c \in Nat, NEW d \in Nat, NEW e \in Nat, a + b + c + d + e = 0
  PROVE  a = 0 /\ b = 0 /\ c = 0 /\ d = 0 /\ e = 0
  OBVIOUS

\* When the wait group is at zero, nothing is at work.
LEMMA ZeroIsIdle ==
  ASSUME WaitGroupCounts, wg = 0, main # "crashed"
  PROVE  /\ \A c \in Channels : at[c] \in {None, "end", "failed"}
         /\ \A g \in Guilds : guild[g] # "started"
         /\ offered \in {None, Over} /\ fetcher \in {None, "done"} /\ binder # "forward"
  <1>1. Goroutines = 0
    BY CountsAre
  <1>2. Cardinality(ActiveChannels) = 0 /\ Cardinality(StartedGuilds) = 0 /\ FolderWalks = 0 /\ Fetches = 0 /\ Binders = 0
    <2>1. Cardinality(ActiveChannels) \in Nat /\ Cardinality(StartedGuilds) \in Nat
          /\ FolderWalks \in Nat /\ Fetches \in Nat /\ Binders \in Nat
      BY CountsAreFinite
    <2>2. Cardinality(ActiveChannels) + Cardinality(StartedGuilds) + FolderWalks + Fetches + Binders = 0
      BY <1>1 DEF Goroutines
    <2> QED
      BY <2>1, <2>2, SumIsZero, ZenonT(40)
  <1>3. ActiveChannels = {} /\ StartedGuilds = {}
    BY <1>2, CountsAreFinite, FS_EmptySet
  <1>4. (\A c \in Channels : at[c] \in {None, "end", "failed"}) /\ \A g \in Guilds : guild[g] # "started"
    BY <1>3 DEF ActiveChannels, StartedGuilds
  <1>5. offered \in {None, Over} /\ fetcher \in {None, "done"} /\ binder # "forward"
    BY <1>2 DEF FolderWalks, Fetches, Binders
  <1> QED
    BY <1>4, <1>5

LEMMA CountsInit == ASSUME Init PROVE WaitGroupCounts
  <1>1. ActiveChannels = {} /\ StartedGuilds = {}
    BY DEF Init, ActiveChannels, StartedGuilds, Histories
  <1>2. FolderWalks = 0 /\ Fetches = 0 /\ Binders = 0 /\ wg = 0
    BY DEF Init, FolderWalks, Fetches, Binders
  <1>3. Cardinality({}) = 0
    BY FS_EmptySet
  <1> QED
    BY <1>1, <1>2, <1>3, CountsAre DEF Goroutines

LEMMA CountsReader ==
  ASSUME TypeOK, TakenInv, PlaceInv, WaitGroupCounts, NEW h \in Histories, Reader(h) PROVE WaitGroupCounts'
  <1>1. UNCHANGED <<main, guild, offered, fetcher, binder>>
    BY ReaderKeeps DEF paligoVars, gitVars
  <1>2. StartedGuilds' = StartedGuilds /\ FolderWalks' = FolderWalks /\ Fetches' = Fetches /\ Binders' = Binders
    BY <1>1 DEF StartedGuilds, FolderWalks, Fetches, Binders
  <1>3. at \in [Histories -> Ats] /\ Channels \subseteq Histories /\ Threads \subseteq Histories
        /\ Channels \cap Threads = {} /\ wg \in Int
    BY HistoryAssumption DEF HistoryAssumption, TypeOK, ReadTypes, FlagTypes, Histories
  <1>4. ThreadPlaces
    BY DEF PlaceInv
  <1>5. ASSUME ActiveChannels' = ActiveChannels, wg' = wg PROVE WaitGroupCounts'
    <2>1. Goroutines' = Goroutines
      BY <1>2, <1>5 DEF Goroutines
    <2> QED
      BY <1>1, <1>5, <2>1, CountsAre
  <1>6. CASE UNCHANGED <<at, wg, failed>>
    BY <1>5, <1>6 DEF ActiveChannels
  <1>7. CASE ThreadMoves(h)
    BY <1>3, <1>5, <1>7 DEF ThreadMoves, ActiveChannels
  <1>8. CASE ThreadReturns(h)
    <2>1. h \in Threads /\ Parent(h) \in Channels /\ at[Parent(h)] = "thread" /\ wg' = wg
      BY <1>4, <1>8 DEF ThreadReturns, ThreadPlaces, Found, Live
    <2>2. \A c \in Channels : c # Parent(h) => at'[c] = at[c]
      BY <1>3, <1>8, <2>1 DEF ThreadReturns
    <2>3. at'[Parent(h)] \in {"page", "fail"}
      BY <1>3, <1>8, <2>1 DEF ThreadReturns
    <2>4. ActiveChannels' = ActiveChannels
      BY <2>1, <2>2, <2>3 DEF ActiveChannels
    <2> QED
      BY <1>5, <2>1, <2>4
  <1>9. CASE ThreadStarts(h)
    <2>1. h \in Channels /\ at[h] = "page" /\ wg' = wg /\ \A c \in Channels : c # h => at'[c] = at[c]
      BY <1>3, <1>9 DEF ThreadStarts
    <2>2. at'[h] = "thread"
      BY <1>3, <1>9 DEF ThreadStarts
    <2>3. ActiveChannels' = ActiveChannels
      BY <2>1, <2>2 DEF ActiveChannels
    <2> QED
      BY <1>5, <2>1, <2>3
  <1>10. CASE ChannelMoves(h)
    <2>1. PICK v \in {"request", "page", "send", "end", "failed"} :
             at' = [at EXCEPT ![h] = v] /\ wg' = IF v \in {"end", "failed"} THEN wg - 1 ELSE wg
      BY <1>10 DEF ChannelMoves
    <2>2. h \in Channels /\ h \in ActiveChannels
      BY <1>10 DEF ChannelMoves, ActiveChannels
    <2>3. \A c \in Channels : at'[c] = IF c = h THEN v ELSE at[c]
      BY <1>3, <2>1
    <2>4. CASE v \notin {"end", "failed"}
      <3>1. ActiveChannels' = ActiveChannels
        BY <2>1, <2>2, <2>3, <2>4 DEF ActiveChannels
      <3> QED
        BY <1>5, <2>1, <2>4, <3>1
    <2>5. CASE v \in {"end", "failed"}
      <3>1. ActiveChannels' = ActiveChannels \ {h}
        BY <2>2, <2>3, <2>5 DEF ActiveChannels
      <3>2. Cardinality(ActiveChannels') = Cardinality(ActiveChannels) - 1
        BY <2>2, <3>1, CountsAreFinite, FS_RemoveElement
      <3>3. Goroutines' = Goroutines - 1
        BY <1>2, <3>2, CountsAreFinite DEF Goroutines
      <3>4. main # "crashed" => wg' = Goroutines'
        BY <1>3, <2>1, <2>5, <3>3, CountsAre
      <3>5. main # "closed"
        BY <2>2, ZeroIsIdle, CountsAre DEF ActiveChannels
      <3> QED
        BY <1>1, <3>4, <3>5, CountsAre
    <2> QED
      BY <2>4, <2>5
  <1> QED
    BY <1>4, <1>6, <1>7, <1>8, <1>9, <1>10, ReaderMoves

LEMMA CountsStart ==
  ASSUME TypeOK, PlaceInv, WaitGroupCounts, getChannels \/ getItems \/ \E g \in Guilds : readGuildMessages(g)
  PROVE  WaitGroupCounts'
  <1>1. UNCHANGED <<offered, fetcher, binder>> /\ wg \in Int
    BY DEF getChannels, getItems, readGuildMessages, paligoVars, gitVars, TypeOK, FlagTypes
  <1>2. FolderWalks' = FolderWalks /\ Fetches' = Fetches /\ Binders' = Binders
    BY <1>1 DEF FolderWalks, Fetches, Binders
  <1>3. at \in [Histories -> Ats] /\ Channels \subseteq Histories /\ Idle
    BY DEF TypeOK, ReadTypes, Histories, PlaceInv
  <1>4. CASE getChannels
    <2>1. main = "start" /\ UNCHANGED guild /\ main' \in {"start", "wait"}
      BY <1>4 DEF getChannels, StartReaders
    <2>2. StartedGuilds' = StartedGuilds
      BY <2>1 DEF StartedGuilds
    <2>3. CASE UNCHANGED <<main, wg, at>>
      <3>1. ActiveChannels' = ActiveChannels
        BY <2>3 DEF ActiveChannels
      <3>2. Goroutines' = Goroutines
        BY <1>2, <2>2, <3>1 DEF Goroutines
      <3> QED
        BY <2>3, <3>2, CountsAre
    <2>4. CASE StartReaders(selected')
      <3>1. selected' \subseteq Channels
        BY <1>4 DEF getChannels, TypeOK, ReadTypes
      <3>2. \A h \in Histories : at[h] = None
        BY <1>3, <2>1 DEF Idle
      <3>3. \A c \in Channels : at[c] = None /\ at'[c] = IF c \in selected' THEN "request" ELSE at[c]
        BY <1>3, <2>4, <3>2 DEF StartReaders
      <3>4. ActiveChannels = {} /\ ActiveChannels' = selected'
        BY <3>1, <3>3 DEF ActiveChannels
      <3>5. Cardinality(ActiveChannels) = 0
        BY <3>4, FS_EmptySet
      <3>6. wg' = wg + Cardinality(selected')
        BY <2>4 DEF StartReaders
      <3>7. Cardinality(selected') \in Nat
        BY <3>1, HistoryAssumption, FS_Subset, FS_CardinalityType DEF HistoryAssumption
      <3>8. Goroutines' = Goroutines + Cardinality(selected')
        BY <1>2, <2>2, <3>4, <3>5, <3>7, CountsAreFinite DEF Goroutines
      <3>9. wg' = Goroutines'
        BY <2>1, <3>6, <3>8, CountsAre
      <3> QED
        BY <2>1, <3>9, CountsAre
    <2> QED
      BY <1>4, <2>3, <2>4 DEF getChannels
  <1>5. CASE getItems
    <2>1. main = "start" /\ main' = "wait" /\ wg' = wg + Cardinality(Guilds) /\ guild' = [g \in Guilds |-> "started"]
          /\ UNCHANGED at
      BY <1>5 DEF getItems, readVars
    <2>2. StartedGuilds = {} /\ StartedGuilds' = Guilds /\ ActiveChannels' = ActiveChannels
      BY <1>3, <2>1 DEF Idle, StartedGuilds, ActiveChannels
    <2>3. Cardinality(StartedGuilds) = 0
      BY <2>2, FS_EmptySet
    <2>4. Goroutines' = Goroutines + Cardinality(Guilds)
      BY <1>2, <2>2, <2>3, CountsAreFinite DEF Goroutines
    <2> QED
      BY <2>1, <2>4, CountsAre
  <1>6. CASE \E g \in Guilds : readGuildMessages(g)
    <2>1. PICK g \in Guilds : readGuildMessages(g)
      BY <1>6
    <2>2. /\ guild[g] = "started" /\ guild' = [guild EXCEPT ![g] = "done"] /\ UNCHANGED main
          /\ wg' = wg + Cardinality(ChannelsOf(g)) - 1
          /\ at' = [h \in Histories |-> IF h \in ChannelsOf(g) THEN "permission" ELSE at[h]]
      BY <2>1 DEF readGuildMessages
    <2>3. guild \in [Guilds -> {None, "started", "done"}]
      BY DEF TypeOK, ReadTypes
    <2>4. g \in StartedGuilds /\ StartedGuilds' = StartedGuilds \ {g}
      BY <2>2, <2>3 DEF StartedGuilds
    <2>5. Cardinality(StartedGuilds') = Cardinality(StartedGuilds) - 1
      BY <2>4, CountsAreFinite, FS_RemoveElement
    <2>6. \A c \in ChannelsOf(g) : c \in Channels /\ at[c] = None
      BY <1>3, <2>2 DEF ChannelsOf, Idle
    <2>7. ActiveChannels' = ActiveChannels \cup ChannelsOf(g) /\ ActiveChannels \cap ChannelsOf(g) = {}
      BY <1>3, <2>2, <2>6 DEF ActiveChannels
    <2>8. IsFiniteSet(ChannelsOf(g)) /\ Cardinality(ChannelsOf(g)) \in Nat
      BY HistoryAssumption, FS_Subset, FS_CardinalityType DEF HistoryAssumption, ChannelsOf
    <2>9. Cardinality(ActiveChannels') = Cardinality(ActiveChannels) + Cardinality(ChannelsOf(g))
      <3>1. Cardinality(ActiveChannels \cap ChannelsOf(g)) = 0
        BY <2>7, FS_EmptySet
      <3>2. Cardinality(ActiveChannels \cup ChannelsOf(g))
              = Cardinality(ActiveChannels) + Cardinality(ChannelsOf(g)) - Cardinality(ActiveChannels \cap ChannelsOf(g))
        BY <2>8, CountsAreFinite, FS_Union
      <3> QED
        BY <2>7, <2>8, <3>1, <3>2, CountsAreFinite
    <2>10. Goroutines' = Goroutines + Cardinality(ChannelsOf(g)) - 1
      BY <1>2, <2>5, <2>8, <2>9, CountsAreFinite DEF Goroutines
    <2>11. main # "closed"
      BY <2>2, ZeroIsIdle, CountsAre
    <2> QED
      BY <1>1, <2>2, <2>8, <2>10, <2>11, CountsAre
  <1> QED
    BY <1>4, <1>5, <1>6

LEMMA CountsOthers ==
  ASSUME TypeOK, PlaceInv, WaitGroupCounts, [Next]_vars, \A h \in Histories : ~Reader(h),
         ~(getChannels \/ getItems \/ \E g \in Guilds : readGuildMessages(g))
  PROVE  WaitGroupCounts'
  <1>1. UNCHANGED <<at, guild>> /\ wg \in Int
    BY DEF Next, Run, ReadLog, FolderWalk, Fetch, readGitLog, LogDoesNotStart, processFileDiff, SendContent,
       WaitForGit, GitFails, BindChannels, processFolders, ShowFolder, NextChild, FoldersDone, ReceiveComponent,
       handleComponent, ComponentsDone, RateLimited, NoAnswer, CloseItems, NotInitialized, StartFails, vars,
       readVars, listVars, TypeOK, FlagTypes
  <1>2. ActiveChannels' = ActiveChannels /\ StartedGuilds' = StartedGuilds
    BY <1>1 DEF ActiveChannels, StartedGuilds
  <1>3. main # "crashed" /\ main' # "crashed" => wg = Goroutines
    BY CountsAre
  <1>4. offered \in Components \cup {None, Walking, Over} /\ fetcher \in Components \cup {None, "receive", "done"}
        /\ Components \cap {None, Walking, Over, "receive", "done"} = {}
    BY FolderAssumption DEF TypeOK, PaligoTypes, FolderAssumption
  <1>5. Idle
    BY DEF PlaceInv
  <1>6. ASSUME UNCHANGED <<wg, main>>, FolderWalks' + Fetches' + Binders' = FolderWalks + Fetches + Binders
        PROVE  WaitGroupCounts'
    <2>1. Goroutines' = Cardinality(ActiveChannels) + Cardinality(StartedGuilds) + (FolderWalks' + Fetches' + Binders')
      BY <1>2, CountsAreFinite DEF Goroutines, FolderWalks, Fetches, Binders
    <2>2. Goroutines' = Goroutines
      BY <1>6, <2>1, CountsAreFinite DEF Goroutines
    <2> QED
      BY <1>6, <2>2, CountsAre
  <1>7. ASSUME wg' = wg - 1, UNCHANGED main, FolderWalks' + Fetches' + Binders' = FolderWalks + Fetches + Binders - 1
        PROVE  WaitGroupCounts'
    <2>1. Goroutines' = Cardinality(ActiveChannels) + Cardinality(StartedGuilds) + (FolderWalks' + Fetches' + Binders')
      BY <1>2, CountsAreFinite DEF Goroutines, FolderWalks, Fetches, Binders
    <2>2. Goroutines' = Goroutines - 1
      BY <1>7, <2>1, CountsAreFinite DEF Goroutines
    <2>3. FolderWalks + Fetches + Binders # 0
      BY <1>7 DEF FolderWalks, Fetches, Binders
    <2>4. Goroutines # 0
      BY <2>3, CountsAreFinite DEF Goroutines
    <2>5. main # "closed"
      BY <1>3, <2>4, CountsAre
    <2> QED
      BY <1>1, <1>7, <2>2, <2>5, CountsAre
  <1>8. CASE ShowFolder \/ NextChild \/ ReceiveComponent \/ handleComponent \/ RateLimited
    <2>1. UNCHANGED <<wg, main, binder>>
      BY <1>8 DEF ShowFolder, NextChild, ReceiveComponent, handleComponent, RateLimited, gitVars
    <2>2. FolderWalks' = FolderWalks
      <3>1. CASE NextChild
        <4>1. offered = Walking /\ offered' \in {Walking} \cup Components
          BY <3>1, SequenceTail DEF NextChild, TypeOK, PaligoTypes
        <4> QED
          BY <1>4, <4>1 DEF FolderWalks
      <3>2. CASE ~NextChild
        BY <1>4, <1>8, <3>2 DEF ShowFolder, ReceiveComponent, handleComponent, RateLimited, FolderWalks
      <3> QED
        BY <3>1, <3>2
    <2>3. Fetches' = Fetches
      BY <1>4, <1>8 DEF ShowFolder, NextChild, ReceiveComponent, handleComponent, RateLimited, Fetches
    <2>4. Binders' = Binders
      BY <2>1 DEF Binders
    <2> QED
      BY <1>6, <2>1, <2>2, <2>3, <2>4
  <1>9. CASE FoldersDone
    BY <1>7, <1>9 DEF FoldersDone, FolderWalks, Fetches, Binders, gitVars
  <1>10. CASE ComponentsDone
    BY <1>7, <1>10 DEF ComponentsDone, FolderWalks, Fetches, Binders, gitVars
  <1>11. CASE BindChannels
    BY <1>7, <1>11 DEF BindChannels, FolderWalks, Fetches, Binders, paligoVars
  <1>12. CASE processFolders
    <2>1. main = "start" /\ main' = "wait" /\ wg' = wg + 2 /\ offered' = Walking /\ fetcher' = "receive" /\ UNCHANGED binder
      BY <1>12 DEF processFolders, gitVars
    <2>2. FolderWalks = 0 /\ Fetches = 0 /\ FolderWalks' = 1 /\ Fetches' = 1 /\ Binders' = Binders
      BY <1>5, <2>1 DEF Idle, FolderWalks, Fetches, Binders
    <2>3. Goroutines' = Goroutines + 2
      BY <1>2, <2>2, CountsAreFinite DEF Goroutines
    <2> QED
      BY <1>1, <1>3, <2>1, <2>3, CountsAre
  <1>13. CASE readGitLog
    <2>1. main = "start" /\ main' = "log" /\ wg' = wg + 1 /\ binder' = "forward" /\ UNCHANGED <<offered, fetcher>>
      BY <1>13 DEF readGitLog, paligoVars
    <2>2. Binders = 0 /\ Binders' = 1 /\ FolderWalks' = FolderWalks /\ Fetches' = Fetches
      BY <1>5, <2>1 DEF Idle, FolderWalks, Fetches, Binders
    <2>3. Goroutines' = Goroutines + 1
      BY <1>2, <2>2, CountsAreFinite DEF Goroutines
    <2> QED
      BY <1>1, <1>3, <2>1, <2>3, CountsAre
  <1>14. CASE LogDoesNotStart \/ NoAnswer
    BY <1>14, CountsAre DEF LogDoesNotStart, NoAnswer
  <1>15. CASE processFileDiff \/ SendContent \/ GitFails \/ UNCHANGED vars
    <2>1. UNCHANGED <<wg, main, binder, offered, fetcher>>
      BY <1>15 DEF processFileDiff, SendContent, GitFails, vars, paligoVars, gitVars
    <2> QED
      BY <1>6, <2>1 DEF FolderWalks, Fetches, Binders
  <1>16. CASE WaitForGit \/ NotInitialized \/ StartFails
    <2>1. UNCHANGED <<wg, binder, offered, fetcher>> /\ main \in {"start", "log"} /\ main' \in {"wait", "left"}
      BY <1>16 DEF WaitForGit, NotInitialized, StartFails, paligoVars, gitVars
    <2>2. Goroutines' = Goroutines
      BY <1>2, <2>1 DEF Goroutines, FolderWalks, Fetches, Binders
    <2> QED
      BY <2>1, <2>2, CountsAre
  <1>17. CASE CloseItems
    <2>1. UNCHANGED <<wg, binder, offered, fetcher>> /\ main = "wait" /\ wg = 0 /\ main' = "closed"
      BY <1>17 DEF CloseItems, paligoVars, gitVars
    <2>2. Goroutines' = Goroutines
      BY <1>2, <2>1 DEF Goroutines, FolderWalks, Fetches, Binders
    <2> QED
      BY <2>1, <2>2, CountsAre
  <1> QED
    BY <1>8, <1>9, <1>10, <1>11, <1>12, <1>13, <1>14, <1>15, <1>16, <1>17 DEF Next, Run, ReadLog, FolderWalk, Fetch

LEMMA CountsNext == ASSUME TypeOK, TakenInv, PlaceInv, WaitGroupCounts, [Next]_vars PROVE WaitGroupCounts'
  BY CountsReader, CountsStart, CountsOthers

PlacesInv == TypeOK /\ TakenInv /\ PlaceInv /\ WaitGroupCounts

LEMMA PlacesAlways == Spec => []PlacesInv
  <1>1. Init => PlacesInv
    BY TypeInit, TakenInit, PlaceInit, CountsInit DEF PlacesInv
  <1>2. PlacesInv /\ [Next]_vars => PlacesInv'
    BY TypeNext, TakenNext, PlaceNext, CountsNext DEF PlacesInv
  <1> QED
    BY <1>1, <1>2, PTL DEF Spec

\* The wait group counts the goroutines that are at work, so the items channel is
\* closed after the last of them (the Add and Done of the Run functions).
THEOREM GoroutinesAreCounted == Spec => []WaitGroupCounts
  <1>1. PlacesInv => WaitGroupCounts
    BY DEF PlacesInv
  <1> QED
    BY <1>1, PlacesAlways, PTL

-----------------------------------------------------------------------------
(* Which messages are sent.                                                  *)

Allowed(c) == Asked(c) /\ (plugin = "discord" => c \in Readable)

\* Only what was asked for and may be read is read.
AllowedInv ==
  /\ \A c \in selected : Asked(c)
  /\ \A c \in Channels : /\ at[c] # None => Asked(c)
                         /\ at[c] \in {"request", "page", "thread", "fail", "send"} \/ got[c] # {} => Allowed(c)
  /\ \A t \in Threads : /\ at[t] # None => Allowed(Parent(t))
                        /\ got[t] # {} => at[t] # None

\* Slack sends a message when it takes it; Discord sends what it has taken, once.
SentMessages ==
  \A h \in Histories : \A i \in DOMAIN History[h] :
    /\ plugin = "slack" => sent[<<h, i>>] = IF i \in got[h] /\ History[h][i].text THEN 1 ELSE 0
    /\ plugin = "discord" => sent[<<h, i>>] \in {0, 1} /\ (sent[<<h, i>>] = 1 => i \in got[h])
    /\ plugin \notin {"slack", "discord"} => sent[<<h, i>>] = 0

LEMMA AllowedInit == ASSUME Init PROVE AllowedInv /\ SentMessages
  <1>1. AllowedInv
    BY DEF Init, AllowedInv, Histories
  <1>2. \A h \in Histories : \A i \in DOMAIN History[h] : sent[<<h, i>>] = 0 /\ got[h] = {}
    BY MessageTypes DEF Init, Items
  <1>3. SentMessages
    <2> SUFFICES ASSUME NEW h \in Histories, NEW i \in DOMAIN History[h]
                 PROVE  /\ plugin = "slack" => sent[<<h, i>>] = IF i \in got[h] /\ History[h][i].text THEN 1 ELSE 0
                        /\ plugin = "discord" => sent[<<h, i>>] \in {0, 1} /\ (sent[<<h, i>>] = 1 => i \in got[h])
                        /\ plugin \notin {"slack", "discord"} => sent[<<h, i>>] = 0
      BY DEF SentMessages
    <2>1. sent[<<h, i>>] = 0 /\ i \notin got[h]
      BY <1>2
    <2>2. ~(i \in got[h] /\ History[h][i].text)
      BY <2>1
    <2> QED
      BY <2>1, <2>2
  <1> QED
    BY <1>1, <1>3

LEMMA OthersSendNoMessage ==
  ASSUME TypeOK, [Next]_vars, \A h \in Histories : ~Reader(h)
  PROVE  \A x \in Messages : sent'[x] = sent[x]
  <1> SUFFICES ASSUME NEW x \in Messages PROVE sent'[x] = sent[x]
    OBVIOUS
  <1>1. x \notin Components /\ x \notin Contents /\ sent \in [Items -> Nat] /\ x \in Items
    BY ItemsAssumption DEF ItemsAssumption, TypeOK, FlagTypes, Items
  <1>2. CASE handleComponent
    BY <1>1, <1>2 DEF handleComponent, Send
  <1>3. CASE SendContent
    <2>1. Head(toSend) \in Contents /\ sent' = [sent EXCEPT ![Head(toSend)] = @ + 1]
      BY <1>3, SequenceTail DEF SendContent, Send, TypeOK, GitTypes
    <2> QED
      BY <1>1, <2>1
  <1>4. CASE ~handleComponent /\ ~SendContent
    BY <1>4 DEF Next, Run, ReadLog, FolderWalk, Fetch, readGitLog, LogDoesNotStart, processFileDiff, WaitForGit, GitFails,
       BindChannels, processFolders, ShowFolder, NextChild, FoldersDone, ReceiveComponent, ComponentsDone, RateLimited,
       NoAnswer, CloseItems, NotInitialized, StartFails, getChannels, getItems, readGuildMessages, vars
  <1> QED
    BY <1>2, <1>3, <1>4

LEMMA AllowedOthers ==
  ASSUME TypeOK, PlaceInv, AllowedInv, [Next]_vars, \A h \in Histories : ~Reader(h) PROVE AllowedInv'
  <1>1. UNCHANGED <<plugin, selection, got>>
    BY OthersKeepReading
  <1>2. \A c : (Asked(c)' <=> Asked(c)) /\ (Allowed(c)' <=> Allowed(c))
    BY <1>1 DEF Asked, Allowed
  <1>3. CASE getChannels
    <2>1. \A c \in selected' : c \in Channels /\ Asked(c)
      BY <1>3 DEF getChannels, AllowedInv, TypeOK, ReadTypes
    <2>2. plugin = "slack" /\ (UNCHANGED at \/ StartReaders(selected'))
      BY <1>3 DEF getChannels
    <2>3. \A c : Asked(c) => Allowed(c)
      BY <2>2 DEF Allowed
    <2>4. \A h \in Histories : at'[h] = at[h] \/ (h \in selected' /\ at'[h] = "request")
      BY <2>2 DEF StartReaders
    <2>5. \A t \in Threads : at'[t] = at[t]
      BY <2>1, <2>4, HistoryAssumption DEF HistoryAssumption, Histories
    <2>6. \A c \in Channels : at'[c] = at[c] \/ (Asked(c) /\ at'[c] = "request")
      BY <2>1, <2>4 DEF Histories
    <2> QED
      BY <1>1, <1>2, <2>1, <2>3, <2>5, <2>6 DEF AllowedInv
  <1>4. CASE \E g \in Guilds : readGuildMessages(g)
    <2>1. PICK g \in Guilds : readGuildMessages(g)
      BY <1>4
    <2>2. UNCHANGED selected
      BY <2>1 DEF readGuildMessages
    <2>3. \A h \in Histories : at'[h] = IF h \in ChannelsOf(g) THEN "permission" ELSE at[h]
      BY <2>1 DEF readGuildMessages
    <2>4. \A t \in Threads : at'[t] = at[t]
      BY <2>3, HistoryAssumption DEF HistoryAssumption, Histories, ChannelsOf
    <2>5. \A c \in Channels : at'[c] = at[c] \/ (Asked(c) /\ at'[c] = "permission")
      BY <2>3 DEF Histories, ChannelsOf
    <2> QED
      BY <1>1, <1>2, <2>2, <2>4, <2>5 DEF AllowedInv
  <1>5. CASE ~getChannels /\ ~\E g \in Guilds : readGuildMessages(g)
    <2>1. UNCHANGED <<at, selected>>
      BY <1>5 DEF Next, Run, ReadLog, FolderWalk, Fetch, readGitLog, LogDoesNotStart, processFileDiff, SendContent,
         WaitForGit, GitFails, BindChannels, processFolders, ShowFolder, NextChild, FoldersDone, ReceiveComponent,
         handleComponent, ComponentsDone, RateLimited, NoAnswer, CloseItems, NotInitialized, StartFails, getItems, vars,
         readVars, listVars
    <2> QED
      BY <1>1, <1>2, <2>1 DEF AllowedInv
  <1> QED
    BY <1>3, <1>4, <1>5

LEMMA AllowedReader ==
  ASSUME TypeOK, TakenInv, PlaceInv, AllowedInv, NEW h \in Histories, Reader(h) PROVE AllowedInv'
  <1>1. UNCHANGED <<plugin, selection, selected>>
    BY ReaderKeeps
  <1>2. \A c : (Asked(c)' <=> Asked(c)) /\ (Allowed(c)' <=> Allowed(c))
    BY <1>1 DEF Asked, Allowed
  <1>3. at \in [Histories -> Ats] /\ Channels \subseteq Histories /\ Threads \subseteq Histories
        /\ Channels \cap Threads = {} /\ Histories = Channels \cup Threads
    BY HistoryAssumption DEF HistoryAssumption, TypeOK, ReadTypes, Histories
  <1>4. \A t \in Threads : at[t] # None => Parent(t) \in Channels
    BY DEF PlaceInv, ThreadPlaces, Found
  <1>5. \A b \in Histories : got'[b] # {} => got[b] # {} \/ (b = h /\ at[h] = "page")
    <2>1. \A b \in Histories : b # h => got'[b] = got[b]
      BY ReaderReads
    <2>2. got'[h] = got[h] \/ at[h] = "page"
      BY DEF Reader, CheckPermission, Request, RequestFails, OutOfRange, TakeMessage, InPage, PageDone, SendCollected
    <2> QED
      BY <2>1, <2>2
  <1>6. \A b \in Histories : at[b] # None => at'[b] # None
    <2>1. \/ UNCHANGED at
          \/ ChannelMoves(h) \/ ThreadMoves(h) \/ ThreadReturns(h) \/ ThreadStarts(h)
      BY ReaderMoves DEF PlaceInv
    <2> QED
      BY <1>3, <2>1 DEF ChannelMoves, ThreadMoves, ThreadReturns, ThreadStarts, Live
  <1>7. \A c \in Channels : got'[c] # {} => Allowed(c)
    BY <1>3, <1>5 DEF AllowedInv
  <1>8. \A t \in Threads : got'[t] # {} => at'[t] # None
    BY <1>3, <1>5, <1>6 DEF AllowedInv
  <1>9. ASSUME \A c \in Channels : /\ at'[c] # None => Asked(c)
                                   /\ at'[c] \in {"request", "page", "thread", "fail", "send"} => Allowed(c),
               \A t \in Threads : at'[t] # None => Allowed(Parent(t))
        PROVE  AllowedInv'
    BY <1>1, <1>2, <1>7, <1>8, <1>9 DEF AllowedInv
  <1>10. CASE UNCHANGED at
    BY <1>9, <1>10 DEF AllowedInv
  <1>11. CASE ChannelMoves(h)
    <2>1. PICK v \in {"request", "page", "send", "end", "failed"} : at' = [at EXCEPT ![h] = v]
      BY <1>11 DEF ChannelMoves
    <2>2. h \in Channels /\ at[h] \in {"permission", "request", "page", "fail", "send"} /\ Asked(h)
      BY <1>11 DEF ChannelMoves, AllowedInv
    <2>3. \A b \in Histories : at'[b] = IF b = h THEN v ELSE at[b]
      BY <1>3, <2>1
    <2>4. v \in {"request", "page", "send"} => Allowed(h)
      <3>1. CASE at[h] = "permission"
        <4>1. CheckPermission(h) \/ RequestFails(h)
          BY <3>1 DEF Reader, Request, OutOfRange, TakeMessage, InPage, PageDone, SendCollected
        <4>2. plugin # "slack"
          BY <2>2, <3>1 DEF PlaceInv, SlackPlaces
        <4>3. CASE CheckPermission(h)
          <5>1. at' = [at EXCEPT ![h] = "end"] \/ h \in Readable
            BY <4>3 DEF CheckPermission
          <5>2. at' = [at EXCEPT ![h] = "end"] => v = "end"
            BY <1>3, <2>3
          <5> QED
            BY <2>2, <5>1, <5>2 DEF Allowed
        <4>4. CASE RequestFails(h)
          <5>1. at' = [at EXCEPT ![h] = "failed"]
            BY <1>3, <2>2, <4>4 DEF RequestFails, Returns
          <5> QED
            BY <1>3, <2>3, <5>1
        <4> QED
          BY <4>1, <4>3, <4>4
      <3>2. CASE at[h] # "permission"
        BY <2>2, <3>2 DEF AllowedInv
      <3> QED
        BY <3>1, <3>2
    <2>5. \A c \in Channels : /\ at'[c] # None => Asked(c)
                              /\ at'[c] \in {"request", "page", "thread", "fail", "send"} => Allowed(c)
      <3> SUFFICES ASSUME NEW c \in Channels
                   PROVE  /\ at'[c] # None => Asked(c)
                          /\ at'[c] \in {"request", "page", "thread", "fail", "send"} => Allowed(c)
        OBVIOUS
      <3>1. CASE c = h
        BY <1>3, <2>2, <2>3, <2>4, <3>1
      <3>2. CASE c # h
        BY <1>3, <2>3, <3>2 DEF AllowedInv
      <3> QED
        BY <3>1, <3>2
    <2>6. \A t \in Threads : at'[t] = at[t]
      BY <1>3, <2>2, <2>3
    <2> QED
      BY <1>9, <2>5, <2>6 DEF AllowedInv
  <1>12. CASE ThreadMoves(h)
    <2>1. \A b \in Histories : b # h => at'[b] = at[b]
      BY <1>3, <1>12 DEF ThreadMoves
    <2>2. h \in Threads /\ at[h] # None
      BY <1>12 DEF ThreadMoves, Live
    <2>3. \A c \in Channels : at'[c] = at[c]
      BY <1>3, <2>1, <2>2
    <2>4. \A t \in Threads : at'[t] # None => at[t] # None
      BY <1>3, <2>1, <2>2
    <2> QED
      BY <1>9, <2>3, <2>4 DEF AllowedInv
  <1>13. CASE ThreadReturns(h)
    <2>1. h \in Threads /\ at[h] # None /\ Parent(h) \in Channels /\ Allowed(Parent(h))
      BY <1>4, <1>13 DEF ThreadReturns, AllowedInv, Live
    <2>2. \A b \in Histories : b # h /\ b # Parent(h) => at'[b] = at[b]
      BY <1>3, <1>13 DEF ThreadReturns
    <2>3. \A c \in Channels : c # Parent(h) => at'[c] = at[c]
      BY <1>3, <2>1, <2>2
    <2>4. \A t \in Threads : at'[t] # None => at[t] # None
      BY <1>3, <2>1, <2>2
    <2>5. Asked(Parent(h))
      BY <2>1 DEF Allowed
    <2>6. \A c \in Channels : /\ at'[c] # None => Asked(c)
                              /\ at'[c] \in {"request", "page", "thread", "fail", "send"} => Allowed(c)
      BY <2>1, <2>3, <2>5 DEF AllowedInv
    <2> QED
      BY <1>9, <2>4, <2>6 DEF AllowedInv
  <1>14. CASE ThreadStarts(h)
    <2>1. PICK i \in InRange(h) : /\ History[h][i].thread \in Threads
                                  /\ at' = [at EXCEPT ![h] = "thread", ![History[h][i].thread] = "request"]
      BY <1>14 DEF ThreadStarts
    <2>2. PICK t \in Threads : t = History[h][i].thread
      BY <2>1
    <2>3. h \in Channels /\ at[h] = "page" /\ Allowed(h) /\ Asked(h)
      BY <1>14 DEF ThreadStarts, AllowedInv
    <2>4. Parent(t) = h
      BY <2>1, <2>2, <2>3, ParentIsUnique, HistoryAssumption DEF ParentOfThread, InRange, HistoryAssumption
    <2>5. \A b \in Histories : b # t /\ b # h => at'[b] = at[b]
      BY <1>3, <2>1, <2>2
    <2>6. \A c \in Channels : c # h => at'[c] = at[c]
      BY <1>3, <2>5
    <2>7. \A u \in Threads : u # t => at'[u] = at[u]
      BY <1>3, <2>3, <2>5
    <2>8. \A c \in Channels : /\ at'[c] # None => Asked(c)
                              /\ at'[c] \in {"request", "page", "thread", "fail", "send"} => Allowed(c)
      BY <2>3, <2>6 DEF AllowedInv
    <2>9. \A u \in Threads : at'[u] # None => Allowed(Parent(u))
      BY <2>3, <2>4, <2>7 DEF AllowedInv
    <2> QED
      BY <1>9, <2>8, <2>9
  <1> QED
    BY <1>10, <1>11, <1>12, <1>13, <1>14, ReaderMoves DEF PlaceInv

LEMMA SentReader ==
  ASSUME TypeOK, TakenInv, PlaceInv, SentMessages, NEW h \in Histories, Reader(h) PROVE SentMessages'
  <1>1. plugin' = plugin /\ plugin \in {"slack", "discord"} /\ at[h] # None
    BY ReaderKeeps DEF PlaceInv, Idle, TypeOK, FlagTypes
  <1>2. sent \in [Items -> Nat] /\ got \in [Histories -> SUBSET Nat] /\ pos \in [Histories -> Nat]
    BY DEF TypeOK, FlagTypes, ReadTypes
  <1>3. SUFFICES ASSUME NEW b \in Histories, NEW j \in DOMAIN History[b]
                 PROVE  /\ plugin = "slack" => sent'[<<b, j>>] = IF j \in got'[b] /\ History[b][j].text THEN 1 ELSE 0
                        /\ plugin = "discord" => sent'[<<b, j>>] \in {0, 1} /\ (sent'[<<b, j>>] = 1 => j \in got'[b])
    BY <1>1 DEF SentMessages
  <1>4. /\ plugin = "slack" => sent[<<b, j>>] = IF j \in got[b] /\ History[b][j].text THEN 1 ELSE 0
        /\ plugin = "discord" => sent[<<b, j>>] \in {0, 1} /\ (sent[<<b, j>>] = 1 => j \in got[b])
    BY DEF SentMessages
  <1>5. <<b, j>> \in Items /\ History[b][j].text \in BOOLEAN
    BY MessageTypes
  <1>6. CASE UNCHANGED <<sent, got>>
    BY <1>4, <1>6
  <1>7. CASE TakeMessage(h) /\ ~UNCHANGED <<sent, got>>
    <2> DEFINE p == pos[h] + 1
    <2>1. /\ InPage(h) /\ got' = [got EXCEPT ![h] = @ \cup {p}]
          /\ IF plugin = "slack" /\ History[h][p].text THEN Send(<<h, p>>) ELSE UNCHANGED sent
      BY <1>7 DEF TakeMessage
    <2>2. p \in DOMAIN History[h] /\ <<h, p>> \in Items /\ History[h][p].text \in BOOLEAN
      BY <2>1, NextInPage, MessageTypes
    <2>3. got'[b] = IF b = h THEN got[b] \cup {p} ELSE got[b]
      BY <1>2, <2>1
    <2>4. p \notin got[h]
      <3>1. got[h] \subseteq 1..pos[h] /\ pos[h] \in Nat
        BY <1>2 DEF TypeOK, ReadBounds
      <3> QED
        BY <3>1
    <2> HIDE DEF p
    <2>5. CASE b = h /\ j = p
      <3>1. j \in got'[b] /\ j \notin got[b]
        BY <2>3, <2>4, <2>5
      <3>2. CASE plugin = "slack"
        <4>1. sent[<<b, j>>] = 0
          BY <1>4, <3>1, <3>2
        <4>2. CASE History[b][j].text
          <5>1. sent'[<<b, j>>] = 1
            BY <1>2, <1>5, <2>1, <2>5, <3>2, <4>1, <4>2 DEF Send
          <5> QED
            BY <1>1, <3>1, <3>2, <4>2, <5>1
        <4>3. CASE ~History[b][j].text
          <5>1. sent' = sent
            BY <2>1, <2>5, <4>3
          <5> QED
            BY <3>1, <3>2, <4>1, <4>3, <5>1
        <4> QED
          BY <4>2, <4>3
      <3>3. CASE plugin # "slack"
        BY <1>1, <1>4, <2>1, <3>1, <3>3
      <3> QED
        BY <3>2, <3>3
    <2>6. CASE ~(b = h /\ j = p)
      <3>1. sent'[<<b, j>>] = sent[<<b, j>>]
        <4>1. <<b, j>> # <<h, p>>
          BY <2>6
        <4> QED
          BY <1>2, <1>5, <2>1, <4>1 DEF Send
      <3>2. j \in got'[b] <=> j \in got[b]
        BY <2>3, <2>6
      <3> QED
        BY <1>4, <3>1, <3>2
    <2> QED
      BY <2>5, <2>6
  <1>8. CASE SendCollected(h) /\ ~UNCHANGED <<sent, got>>
    <2>1. at[h] = "send" /\ UNCHANGED got
      BY <1>8 DEF SendCollected
    <2>2. plugin = "discord"
      BY <1>1, <2>1 DEF PlaceInv, SlackPlaces, ThreadPlaces, Histories
    <2>3. PICK x \in Collected(h) : sent[x] = 0 /\ sent' = [sent EXCEPT ![x] = @ + 1]
      BY <1>8, <2>1 DEF SendCollected, Send
    <2>4. \E c \in Histories : \E i \in got[c] : x = <<c, i>>
      BY <2>3 DEF Collected, Histories
    <2>5. CASE x = <<b, j>>
      <3>1. j \in got[b]
        BY <2>4, <2>5
      <3>2. sent'[<<b, j>>] = 1
        BY <1>2, <1>5, <2>3, <2>5
      <3> QED
        BY <2>1, <2>2, <3>1, <3>2
    <2>6. CASE x # <<b, j>>
      BY <1>2, <1>4, <1>5, <2>1, <2>2, <2>3, <2>6
    <2> QED
      BY <2>5, <2>6
  <1>9. UNCHANGED <<sent, got>> \/ TakeMessage(h) \/ SendCollected(h)
    BY DEF Reader, CheckPermission, Request, RequestFails, OutOfRange, PageDone
  <1> QED
    BY <1>6, <1>7, <1>8, <1>9

LEMMA SentOthers ==
  ASSUME TypeOK, SentMessages, [Next]_vars, \A h \in Histories : ~Reader(h) PROVE SentMessages'
  <1>1. UNCHANGED <<plugin, got>>
    BY OthersKeepReading
  <1>2. \A h \in Histories : \A i \in DOMAIN History[h] : sent'[<<h, i>>] = sent[<<h, i>>]
    BY OthersSendNoMessage, MessageTypes
  <1> SUFFICES ASSUME NEW h \in Histories, NEW i \in DOMAIN History[h]
               PROVE  /\ plugin' = "slack" => sent'[<<h, i>>] = IF i \in got'[h] /\ History[h][i].text THEN 1 ELSE 0
                      /\ plugin' = "discord" => sent'[<<h, i>>] \in {0, 1} /\ (sent'[<<h, i>>] = 1 => i \in got'[h])
                      /\ plugin' \notin {"slack", "discord"} => sent'[<<h, i>>] = 0
    BY DEF SentMessages
  <1>3. sent'[<<h, i>>] = sent[<<h, i>>]
    BY <1>2
  <1>4. /\ plugin = "slack" => sent[<<h, i>>] = IF i \in got[h] /\ History[h][i].text THEN 1 ELSE 0
        /\ plugin = "discord" => sent[<<h, i>>] \in {0, 1} /\ (sent[<<h, i>>] = 1 => i \in got[h])
        /\ plugin \notin {"slack", "discord"} => sent[<<h, i>>] = 0
    BY DEF SentMessages
  <1> QED
    BY <1>1, <1>3, <1>4

MessagesInv == AllowedInv /\ SentMessages

LEMMA MessagesNext ==
  ASSUME TypeOK, TakenInv, PlaceInv, MessagesInv, [Next]_vars PROVE MessagesInv'
  BY AllowedReader, AllowedOthers, SentReader, SentOthers DEF MessagesInv

\* Of the messages, only those asked for are sent, and none twice.
LEMMA MessagesAreWanted ==
  ASSUME TypeOK, TakenInv, PlaceInv, MessagesInv, NEW x \in Messages
  PROVE  sent[x] <= (IF Wanted(x) THEN 1 ELSE 0)
  <1>0. PICK h \in Histories : \E i \in DOMAIN History[h] : x = <<h, i>>
    BY DEF Messages
  <1>1. PICK i \in DOMAIN History[h] : x = <<h, i>>
    BY <1>0
  <1>2. x[1] = h /\ x[2] = i /\ x \notin Components /\ x \notin Contents
    BY <1>1, ItemsAssumption DEF ItemsAssumption
  <1>3. /\ plugin = "slack" => sent[x] = IF i \in got[h] /\ History[h][i].text THEN 1 ELSE 0
        /\ plugin = "discord" => sent[x] \in {0, 1} /\ (sent[x] = 1 => i \in got[h])
        /\ plugin \notin {"slack", "discord"} => sent[x] = 0
    BY <1>1 DEF MessagesInv, SentMessages
  <1>4. sent[x] \in {0, 1}
    BY <1>3 DEF TypeOK, FlagTypes
  <1>5. ASSUME sent[x] = 1 PROVE Wanted(x)
    <2>1. plugin \in {"slack", "discord"} /\ i \in got[h] /\ (plugin = "slack" => History[h][i].text)
      BY <1>3, <1>5
    <2>2. i \in InRange(h)
      BY <2>1 DEF TakenInv, Taken
    <2>3. h \in Channels => Allowed(h)
      BY <2>1 DEF MessagesInv, AllowedInv
    <2>4. h \notin Channels => h \in Threads /\ Allowed(Parent(h)) /\ Found(h)
      BY <2>1 DEF MessagesInv, AllowedInv, Histories, PlaceInv, ThreadPlaces
    <2>5. CASE h \in Channels
      BY <1>2, <2>1, <2>2, <2>3, <2>5 DEF Wanted, Allowed
    <2>6. CASE h \notin Channels
      BY <1>2, <2>1, <2>2, <2>4, <2>6 DEF Wanted, Allowed, Found
    <2> QED
      BY <2>5, <2>6
  <1> QED
    BY <1>4, <1>5

-----------------------------------------------------------------------------
(* Folders and what is in them.                                              *)

Nodes == Folders \cup Components
Closed(S) == \A f \in S \cap Folders : Range(Children[f]) \subseteq S
BelowAll(list) == UNION {Below[list[i]] : i \in DOMAIN list}

LEMMA BelowIs ==
  ASSUME NEW x \in Nodes
  PROVE  Below[x] = {y \in Nodes : \A S \in SUBSET Nodes : x \in S /\ Closed(S) => y \in S}
  BY DEF Below, Nodes, Closed

LEMMA ChildrenAreNodes ==
  ASSUME NEW f \in Folders
  PROVE  /\ Children[f] \in Seq(Nodes) /\ ListedApart(Children[f])
         /\ \A i \in DOMAIN Children[f] : Children[f][i] \in Nodes /\ Children[f][i] \in Range(Children[f])
         /\ Range(Children[f]) \subseteq Nodes
  <1>1. Children[f] \in Seq(Nodes) /\ ListedApart(Children[f])
    BY FolderAssumption DEF FolderAssumption, Nodes
  <1>2. \A i \in DOMAIN Children[f] : Children[f][i] \in Nodes
    BY <1>1, ElementOfSeq, LenProperties
  <1> QED
    BY <1>1, <1>2 DEF Range

\* x is below itself, and what is below x is a node and closed.
LEMMA BelowClosed ==
  ASSUME NEW x \in Nodes PROVE x \in Below[x] /\ Below[x] \subseteq Nodes /\ Closed(Below[x])
  <1>1. x \in Below[x] /\ Below[x] \subseteq Nodes
    BY BelowIs
  <1>2. ASSUME NEW f \in Below[x] \cap Folders, NEW y \in Range(Children[f]) PROVE y \in Below[x]
    <2>1. y \in Nodes
      BY ChildrenAreNodes, <1>2
    <2>2. ASSUME NEW S \in SUBSET Nodes, x \in S, Closed(S) PROVE y \in S
      <3>1. f \in S
        BY <2>2, BelowIs
      <3> QED
        BY <2>2, <3>1 DEF Closed
    <2> QED
      BY <2>1, <2>2, BelowIs
  <1> QED
    BY <1>1, <1>2 DEF Closed

LEMMA BelowComponent == ASSUME NEW x \in Components PROVE Below[x] = {x}
  <1>1. x \in Nodes /\ {x} \in SUBSET Nodes
    BY DEF Nodes
  <1>2. Closed({x})
    BY FolderAssumption DEF FolderAssumption, Closed
  <1>3. Below[x] \subseteq {x}
    BY <1>1, <1>2, BelowIs
  <1> QED
    BY <1>1, <1>3, BelowClosed

\* A folder's contents are the folder and the contents of its children.
LEMMA BelowFolder == ASSUME NEW f \in Folders PROVE Below[f] = {f} \cup BelowAll(Children[f])
  <1> DEFINE U == {f} \cup BelowAll(Children[f])
  <1>1. f \in Nodes
    BY DEF Nodes
  <1>2. ASSUME NEW i \in DOMAIN Children[f] PROVE Below[Children[f][i]] \subseteq Below[f]
    <2> SUFFICES ASSUME NEW y \in Below[Children[f][i]] PROVE y \in Below[f]
      OBVIOUS
    <2>1. Children[f][i] \in Nodes /\ Children[f][i] \in Range(Children[f])
      BY ChildrenAreNodes
    <2>2. y \in Nodes
      BY <2>1, BelowClosed
    <2>3. ASSUME NEW S \in SUBSET Nodes, f \in S, Closed(S) PROVE y \in S
      <3>1. Children[f][i] \in S
        BY <2>1, <2>3 DEF Closed
      <3> QED
        BY <2>1, <2>3, <3>1, BelowIs
    <2> QED
      BY <1>1, <2>2, <2>3, BelowIs
  <1>3. U \subseteq Below[f]
    BY <1>1, <1>2, BelowClosed DEF BelowAll
  <1>4. U \in SUBSET Nodes
    BY <1>1, <1>3, BelowClosed
  <1>5. ASSUME NEW g \in U \cap Folders, NEW y \in Range(Children[g]) PROVE y \in U
    <2>1. CASE g = f
      <3>1. PICK i \in DOMAIN Children[f] : y = Children[f][i]
        BY <1>5, <2>1 DEF Range
      <3>2. y \in Below[Children[f][i]]
        BY <3>1, ChildrenAreNodes, BelowClosed
      <3> QED
        BY <3>2 DEF BelowAll
    <2>2. CASE g # f
      <3>1. PICK i \in DOMAIN Children[f] : g \in Below[Children[f][i]]
        BY <1>5, <2>2 DEF BelowAll
      <3>2. y \in Below[Children[f][i]]
        BY <1>5, <3>1, ChildrenAreNodes, BelowClosed DEF Closed
      <3> QED
        BY <3>2 DEF BelowAll
    <2> QED
      BY <2>1, <2>2
  <1>6. Closed(U)
    BY <1>5 DEF Closed
  <1>7. Below[f] \subseteq U
    BY <1>1, <1>4, <1>6, BelowIs
  <1> QED
    BY <1>3, <1>7

LEMMA BelowEmpty == BelowAll(<<>>) = {} /\ ListedApart(<<>>)
  BY DEF BelowAll, ListedApart

LEMMA BelowTail ==
  ASSUME NEW s \in Seq(Nodes), s # <<>>
  PROVE  /\ BelowAll(s) = Below[Head(s)] \cup BelowAll(Tail(s))
         /\ ListedApart(s) => ListedApart(Tail(s)) /\ Below[Head(s)] \cap BelowAll(Tail(s)) = {}
  <1>1. Len(s) \in Nat /\ Len(s) >= 1 /\ DOMAIN s = 1..Len(s) /\ Head(s) = s[1]
    OBVIOUS
  <1>2. Tail(s) \in Seq(Nodes) /\ Len(Tail(s)) = Len(s) - 1 /\ DOMAIN Tail(s) = 1..(Len(s) - 1)
        /\ \A i \in 1..(Len(s) - 1) : Tail(s)[i] = s[i + 1]
    BY <1>1
  <1>3. BelowAll(Tail(s)) \subseteq BelowAll(s)
    <2> SUFFICES ASSUME NEW i \in DOMAIN Tail(s) PROVE Below[Tail(s)[i]] \subseteq BelowAll(s)
      BY DEF BelowAll
    <2>1. i + 1 \in DOMAIN s /\ Tail(s)[i] = s[i + 1]
      BY <1>1, <1>2
    <2> QED
      BY <2>1 DEF BelowAll
  <1>4. Below[Head(s)] \subseteq BelowAll(s)
    BY <1>1 DEF BelowAll
  <1>5. ASSUME NEW i \in DOMAIN s, i # 1 PROVE i - 1 \in DOMAIN Tail(s) /\ Tail(s)[i - 1] = s[i]
    BY <1>1, <1>2, <1>5
  <1>6. BelowAll(s) \subseteq Below[Head(s)] \cup BelowAll(Tail(s))
    <2> SUFFICES ASSUME NEW i \in DOMAIN s PROVE Below[s[i]] \subseteq Below[Head(s)] \cup BelowAll(Tail(s))
      BY DEF BelowAll
    <2>1. CASE i = 1
      BY <1>1, <2>1
    <2>2. CASE i # 1
      <3>1. i - 1 \in DOMAIN Tail(s) /\ Tail(s)[i - 1] = s[i]
        BY <1>5, <2>2
      <3>2. Below[Tail(s)[i - 1]] \subseteq BelowAll(Tail(s))
        BY <3>1 DEF BelowAll
      <3> QED
        BY <3>1, <3>2
    <2> QED
      BY <2>1, <2>2
  <1>7. ASSUME ListedApart(s) PROVE ListedApart(Tail(s))
    <2> SUFFICES ASSUME NEW i \in DOMAIN Tail(s), NEW j \in DOMAIN Tail(s), i # j
                 PROVE  Below[Tail(s)[i]] \cap Below[Tail(s)[j]] = {}
      BY DEF ListedApart
    <2>1. i + 1 \in DOMAIN s /\ j + 1 \in DOMAIN s /\ i + 1 # j + 1
      BY <1>1, <1>2
    <2>2. Tail(s)[i] = s[i + 1] /\ Tail(s)[j] = s[j + 1]
      BY <1>2
    <2> QED
      BY <1>7, <2>1, <2>2 DEF ListedApart
  <1>8. ASSUME ListedApart(s) PROVE Below[Head(s)] \cap BelowAll(Tail(s)) = {}
    <2> SUFFICES ASSUME NEW i \in DOMAIN Tail(s) PROVE Below[Head(s)] \cap Below[Tail(s)[i]] = {}
      BY DEF BelowAll
    <2>1. i + 1 \in DOMAIN s /\ 1 \in DOMAIN s /\ i + 1 # 1 /\ Tail(s)[i] = s[i + 1]
      BY <1>1, <1>2
    <2> QED
      BY <1>1, <1>8, <2>1 DEF ListedApart
  <1> QED
    BY <1>3, <1>4, <1>6, <1>7, <1>8

LEMMA BelowAppend ==
  ASSUME NEW s \in Seq(Nodes), NEW x \in Nodes
  PROVE  /\ BelowAll(Append(s, x)) = BelowAll(s) \cup Below[x]
         /\ ListedApart(s) /\ Below[x] \cap BelowAll(s) = {} => ListedApart(Append(s, x))
  <1> DEFINE a == Append(s, x)
  <1>1. Len(s) \in Nat /\ DOMAIN s = 1..Len(s) /\ DOMAIN a = 1..(Len(s) + 1)
        /\ a[Len(s) + 1] = x /\ \A i \in 1..Len(s) : a[i] = s[i]
    OBVIOUS
  <1>2. \A i \in DOMAIN a : (i \in DOMAIN s /\ a[i] = s[i]) \/ (i = Len(s) + 1 /\ a[i] = x)
    BY <1>1
  <1>3. Len(s) + 1 \in DOMAIN a /\ \A i \in DOMAIN s : i \in DOMAIN a /\ a[i] = s[i]
    BY <1>1
  <1> HIDE DEF a
  <1>4. BelowAll(a) \subseteq BelowAll(s) \cup Below[x]
    BY <1>2 DEF BelowAll
  <1>5. Below[x] \subseteq BelowAll(a)
    BY <1>1, <1>3 DEF BelowAll
  <1>6. BelowAll(s) \subseteq BelowAll(a)
    BY <1>3 DEF BelowAll
  <1>7. ASSUME ListedApart(s), Below[x] \cap BelowAll(s) = {} PROVE ListedApart(a)
    <2> SUFFICES ASSUME NEW i \in DOMAIN a, NEW j \in DOMAIN a, i # j PROVE Below[a[i]] \cap Below[a[j]] = {}
      BY DEF ListedApart
    <2>1. \A k \in DOMAIN s : Below[s[k]] \cap Below[x] = {}
      BY <1>7 DEF BelowAll
    <2> QED
      BY <1>2, <1>7, <2>1 DEF ListedApart
  <1> QED
    BY <1>4, <1>5, <1>6, <1>7 DEF a

-----------------------------------------------------------------------------
(* Which components are sent.                                                *)

\* What is in the queue, what is left of the present folder, the component handed
\* over and the one being fetched are apart from each other, and nothing of them
\* has been sent.
WalkApart ==
  /\ ListedApart(folderQueue) /\ ListedApart(children)
  /\ BelowAll(folderQueue) \cap BelowAll(children) = {}
  /\ \A x \in Components :
       /\ x \in {offered, fetcher} => x \notin BelowAll(folderQueue) /\ x \notin BelowAll(children)
       /\ sent[x] \in {0, 1}
       /\ sent[x] = 1 => /\ x \notin BelowAll(folderQueue) /\ x \notin BelowAll(children)
                         /\ x # offered /\ x # fetcher
  /\ fetcher \in Components => offered # fetcher

WalkStarted ==
  /\ main = "start" \/ plugin # "paligo" => /\ folderQueue = <<>> /\ children = <<>>
                                            /\ \A x \in Components : sent[x] = 0
  /\ offered = Over => folderQueue = <<>> /\ children = <<>>
  /\ fetcher = "done" => offered = Over

Handled(x) ==
  \/ sent[x] = 1 \/ Lost(x) \/ x \in {offered, fetcher}
  \/ x \in BelowAll(folderQueue) \/ x \in BelowAll(children)

\* Every component is still ahead, or sent, or below what an error was sent for.
WalkComplete ==
  plugin = "paligo" /\ main \in {"wait", "closed"} /\ plugin \notin failed =>
     /\ offered # None /\ fetcher # None
     /\ \A x \in Components : Handled(x)

WalkInv == WalkApart /\ WalkStarted /\ WalkComplete

LEMMA WalkInit == ASSUME Init PROVE WalkInv
  <1>1. folderQueue = <<>> /\ children = <<>> /\ offered = None /\ fetcher = None /\ main = "start"
        /\ None \notin Components
    BY FolderAssumption DEF Init, FolderAssumption
  <1>2. \A x \in Components : sent[x] = 0
    BY DEF Init
  <1>3. WalkApart
    BY <1>1, <1>2, BelowEmpty DEF WalkApart
  <1> QED
    BY <1>1, <1>2, <1>3 DEF WalkInv, WalkStarted, WalkComplete

LEMMA LostStays == ASSUME NEW x \in Components, Lost(x), failed \subseteq failed' PROVE Lost(x)'
  BY ItemsAssumption DEF Lost, ItemsAssumption

\* Steps that leave the walk alone.
LEMMA WalkKept ==
  ASSUME WalkInv, UNCHANGED <<plugin, folderQueue, children, offered, fetcher>>, failed \subseteq failed',
         \A x \in Components : sent'[x] = sent[x],
         main' = "start" => main = "start",
         plugin = "paligo" /\ main' \in {"wait", "closed"} /\ plugin \notin failed' => main \in {"wait", "closed"}
  PROVE  WalkInv'
  <1>1. WalkApart'
    BY DEF WalkInv, WalkApart
  <1>2. WalkStarted'
    BY DEF WalkInv, WalkStarted
  <1>3. WalkComplete'
    <2> SUFFICES ASSUME plugin = "paligo", main' \in {"wait", "closed"}, plugin \notin failed'
                 PROVE  offered' # None /\ fetcher' # None /\ \A x \in Components : Handled(x)'
      BY DEF WalkComplete
    <2>1. offered # None /\ fetcher # None /\ \A x \in Components : Handled(x)
      BY DEF WalkInv, WalkComplete
    <2> SUFFICES ASSUME NEW x \in Components PROVE Handled(x)'
      BY <2>1
    <2>2. sent'[x] = sent[x] /\ (Lost(x) => Lost(x)')
      BY LostStays
    <2> QED
      BY <2>1, <2>2 DEF Handled
  <1> QED
    BY <1>1, <1>2, <1>3 DEF WalkInv

LEMMA WalkOthers ==
  ASSUME TypeOK, PlaceInv, WalkInv, [Next]_vars, ~(processFolders \/ FolderWalk \/ Fetch) PROVE WalkInv'
  <1>1. CASE \E h \in Histories : Reader(h)
    <2>1. PICK h \in Histories : Reader(h)
      BY <1>1
    <2>2. UNCHANGED <<plugin, main, folderQueue, children, offered, fetcher>>
      BY <2>1, ReaderKeeps DEF paligoVars
    <2>3. \A x \in Components : sent'[x] = sent[x]
      BY <2>1, ReaderSends, ItemsAssumption DEF ItemsAssumption, Items
    <2>4. failed \subseteq failed'
      BY <2>1 DEF Reader, CheckPermission, Request, RequestFails, OutOfRange, TakeMessage, PageDone, SendCollected,
         Returns, SendError
    <2> QED
      BY <2>2, <2>3, <2>4, WalkKept
  <1>2. CASE \A h \in Histories : ~Reader(h)
    <2>1. UNCHANGED <<plugin, folderQueue, children, offered, fetcher>>
      BY <1>2 DEF Next, Run, ReadLog, readGitLog, LogDoesNotStart, processFileDiff, SendContent, WaitForGit, GitFails,
         BindChannels, RateLimited, NoAnswer, CloseItems, NotInitialized, StartFails, getChannels, getItems,
         readGuildMessages, vars, flagVars, paligoVars
    <2>2. failed \subseteq failed'
      BY <1>2 DEF Next, Run, ReadLog, readGitLog, LogDoesNotStart, processFileDiff, SendContent, WaitForGit, GitFails,
         BindChannels, RateLimited, NoAnswer, CloseItems, NotInitialized, StartFails, getChannels, getItems,
         readGuildMessages, SendError, vars
    <2>3. \A x \in Components : sent'[x] = sent[x]
      <3>1. CASE SendContent
        <4>1. Head(toSend) \in Contents /\ sent' = [sent EXCEPT ![Head(toSend)] = @ + 1] /\ sent \in [Items -> Nat]
          BY <3>1, SequenceTail DEF SendContent, Send, TypeOK, GitTypes, FlagTypes
        <4> QED
          BY <4>1, ItemsAssumption DEF ItemsAssumption, Items
      <3>2. CASE ~SendContent
        BY <1>2, <3>2 DEF Next, Run, ReadLog, readGitLog, LogDoesNotStart, processFileDiff, WaitForGit, GitFails,
           BindChannels, RateLimited, NoAnswer, CloseItems, NotInitialized, StartFails, getChannels, getItems,
           readGuildMessages, vars
      <3> QED
        BY <3>1, <3>2
    <2>4. main' = "start" => main = "start"
      BY <1>2 DEF Next, Run, ReadLog, readGitLog, LogDoesNotStart, processFileDiff, SendContent, WaitForGit, GitFails,
         BindChannels, RateLimited, NoAnswer, CloseItems, NotInitialized, StartFails, getChannels, getItems,
         readGuildMessages, StartReaders, vars
    <2>5. plugin = "paligo" /\ main' \in {"wait", "closed"} /\ plugin \notin failed' => main \in {"wait", "closed"}
      BY <1>2 DEF Next, Run, ReadLog, readGitLog, LogDoesNotStart, processFileDiff, SendContent, WaitForGit, GitFails,
         BindChannels, RateLimited, NoAnswer, CloseItems, NotInitialized, StartFails, getChannels, getItems,
         readGuildMessages, StartReaders, SendError, vars, PlaceInv, Idle
    <2> QED
      BY <2>1, <2>2, <2>3, <2>4, <2>5, WalkKept
  <1> QED
    BY <1>1, <1>2

LEMMA WalkStarts == ASSUME TypeOK, PlaceInv, WalkInv, processFolders PROVE WalkInv'
  <1>1. /\ plugin = "paligo" /\ main = "start" /\ main' = "wait" /\ folderQueue' = Roots /\ offered' = Walking
        /\ fetcher' = "receive" /\ UNCHANGED <<plugin, children, failed, sent>>
    BY DEF processFolders, flagVars
  <1>2. children = <<>> /\ \A x \in Components : sent[x] = 0 /\ x \notin {offered', fetcher'}
    BY <1>1, FolderAssumption DEF WalkInv, WalkStarted, FolderAssumption
  <1>3. ListedApart(Roots) /\ \A x \in Components : x \in BelowAll(Roots)
    BY FolderAssumption DEF FolderAssumption, BelowAll
  <1>4. fetcher' \notin Components
    BY <1>1, FolderAssumption DEF FolderAssumption
  <1>5. WalkApart'
    BY <1>1, <1>2, <1>3, <1>4, BelowEmpty DEF WalkApart
  <1> QED
    BY <1>1, <1>3, <1>5 DEF WalkInv, WalkStarted, WalkComplete, Handled

LEMMA WalkShows == ASSUME TypeOK, PlaceInv, WalkInv, main # "crashed", ShowFolder PROVE WalkInv'
  <1> DEFINE f == Head(folderQueue)
             Q == BelowAll(folderQueue)
             T == BelowAll(Tail(folderQueue))
             C == BelowAll(Children[f])
  <1>1. /\ offered = Walking /\ children = <<>> /\ folderQueue # <<>> /\ folderQueue' = Tail(folderQueue)
        /\ UNCHANGED <<plugin, main, offered, fetcher, sent>>
        /\ \/ children' = Children[f] /\ failed' = failed
           \/ failed' = failed \cup {f} /\ children' = <<>>
    BY DEF ShowFolder, flagVars, SendError
  <1>2. folderQueue \in Seq(Folders) /\ folderQueue \in Seq(Nodes) /\ f \in Folders /\ f \in Nodes
    BY <1>1, SequenceTail DEF TypeOK, PaligoTypes, Nodes
  <1>3. Q = Below[f] \cup T /\ ListedApart(Tail(folderQueue)) /\ Below[f] \cap T = {}
    BY <1>1, <1>2, BelowTail DEF WalkInv, WalkApart
  <1>4. Below[f] = {f} \cup C /\ ListedApart(Children[f])
    BY <1>2, BelowFolder, ChildrenAreNodes
  <1>5. main # "start" /\ plugin = "paligo"
    BY <1>1 DEF WalkInv, WalkStarted
  <1>6. fetcher # "done" /\ offered # Over
    BY <1>1 DEF WalkInv, WalkStarted
  <1>7. f \notin Components
    BY <1>2, FolderAssumption DEF FolderAssumption
  <1>8. folderQueue' = Tail(folderQueue) /\ BelowAll(folderQueue)' = T /\ BelowAll(folderQueue) = Q
    BY <1>1 DEF BelowAll
  <1>9. BelowAll(children)' \subseteq Below[f] /\ ListedApart(children)'
    <2>1. CASE children' = Children[f]
      <3>1. BelowAll(children)' = C
        BY <2>1 DEF BelowAll
      <3>2. ListedApart(children)'
        BY <1>4, <2>1 DEF ListedApart
      <3> QED
        BY <1>4, <3>1, <3>2
    <2>2. CASE children' = <<>>
      BY <2>2, BelowEmpty
    <2> QED
      BY <1>1, <2>1, <2>2
  <1>10. ListedApart(folderQueue)'
    BY <1>1, <1>3
  <1> HIDE DEF f, Q, T, C
  <1>11. WalkApart'
    BY <1>1, <1>3, <1>8, <1>9, <1>10 DEF WalkInv, WalkApart
  <1>12. WalkStarted'
    BY <1>1, <1>5, <1>6 DEF WalkInv, WalkStarted
  <1>13. WalkComplete'
    <2> SUFFICES ASSUME main' \in {"wait", "closed"}, plugin' \notin failed'
                 PROVE  offered' # None /\ fetcher' # None /\ \A x \in Components : Handled(x)'
      BY DEF WalkComplete
    <2>1. plugin \notin failed /\ offered # None /\ fetcher # None /\ \A x \in Components : Handled(x)
      BY <1>1, <1>5 DEF WalkInv, WalkComplete
    <2> SUFFICES ASSUME NEW x \in Components PROVE Handled(x)'
      BY <1>1, <2>1
    <2>2. failed \subseteq failed'
      BY <1>1
    <2>3. CASE x \in Below[f]
      <3>1. CASE children' = Children[f]
        <4>1. x \in C /\ BelowAll(children)' = C
          BY <1>4, <1>7, <2>3, <3>1 DEF C
        <4> QED
          BY <4>1 DEF Handled
      <3>2. CASE failed' = failed \cup {f}
        <4>1. Lost(x)'
          BY <1>2, <2>3, <3>2, ItemsAssumption DEF Lost, ItemsAssumption, Below, Nodes
        <4> QED
          BY <4>1 DEF Handled
      <3> QED
        BY <1>1, <3>1, <3>2
    <2>4. CASE x \notin Below[f]
      <3>1. sent[x] = 1 \/ Lost(x) \/ x \in {offered, fetcher} \/ x \in T
        BY <1>1, <1>3, <1>8, <2>1, <2>4, BelowEmpty DEF Handled
      <3>2. Lost(x) => Lost(x)'
        BY <2>2, LostStays
      <3> QED
        BY <1>1, <1>8, <3>1, <3>2 DEF Handled
    <2> QED
      BY <2>3, <2>4
  <1> QED
    BY <1>11, <1>12, <1>13 DEF WalkInv

LEMMA WalkTakes == ASSUME TypeOK, PlaceInv, WalkInv, main # "crashed", NextChild PROVE WalkInv'
  <1> DEFINE y == Head(children)
             T == BelowAll(Tail(children))
             Q == BelowAll(folderQueue)
  <1>1. /\ offered = Walking /\ children # <<>> /\ children' = Tail(children)
        /\ UNCHANGED <<plugin, main, failed, fetcher, sent>>
        /\ \/ y \in Folders /\ folderQueue' = Append(folderQueue, y) /\ offered' = offered
           \/ y \notin Folders /\ offered' = y /\ folderQueue' = folderQueue
    BY DEF NextChild, flagVars
  <1>2. children \in Seq(Nodes) /\ folderQueue \in Seq(Nodes) /\ y \in Nodes /\ (y \notin Folders => y \in Components)
    BY <1>1, SequenceTail DEF TypeOK, PaligoTypes, Nodes
  <1>3. BelowAll(children) = Below[y] \cup T /\ ListedApart(Tail(children)) /\ Below[y] \cap T = {}
    BY <1>1, <1>2, BelowTail DEF WalkInv, WalkApart
  <1>4. Q \cap Below[y] = {} /\ Q \cap T = {}
    BY <1>3 DEF WalkInv, WalkApart
  <1>5. main # "start" /\ plugin = "paligo"
    BY <1>1 DEF WalkInv, WalkStarted
  <1>6. BelowAll(children)' = T /\ ListedApart(children)'
    BY <1>1, <1>3
  <1>7. fetcher # "done" /\ (y \in Components => y # Over)
    BY <1>1, FolderAssumption DEF WalkInv, WalkStarted, FolderAssumption
  <1>8. ASSUME NEW x \in Components
        PROVE  Lost(x) => Lost(x)'
    BY <1>1, LostStays
  <1>9. CASE y \in Folders
    <2>1. folderQueue' = Append(folderQueue, y) /\ offered' = offered /\ y \notin Components
      BY <1>1, <1>9, FolderAssumption DEF FolderAssumption
    <2>2. BelowAll(folderQueue)' = Q \cup Below[y] /\ ListedApart(folderQueue)'
      BY <1>2, <1>4, <2>1, BelowAppend DEF WalkInv, WalkApart
    <2>3. BelowAll(folderQueue) = Q
      OBVIOUS
    <2> HIDE DEF y, T, Q
    <2>4. WalkApart'
      BY <1>1, <1>3, <1>4, <1>6, <2>1, <2>2, <2>3 DEF WalkInv, WalkApart
    <2>5. WalkStarted'
      BY <1>1, <1>5, <1>7, <2>1 DEF WalkInv, WalkStarted
    <2>6. WalkComplete'
      BY <1>1, <1>3, <1>6, <1>8, <2>1, <2>2, <2>3 DEF WalkInv, WalkComplete, Handled
    <2> QED
      BY <2>4, <2>5, <2>6 DEF WalkInv
  <1>10. CASE y \notin Folders
    <2>1. folderQueue' = folderQueue /\ offered' = y /\ y \in Components /\ Below[y] = {y}
      BY <1>1, <1>2, <1>10, BelowComponent
    <2>2. BelowAll(folderQueue)' = Q /\ BelowAll(folderQueue) = Q /\ ListedApart(folderQueue)'
      BY <2>1 DEF WalkInv, WalkApart
    <2>3. y \in BelowAll(children) /\ y \notin T /\ y \notin Q
      BY <1>3, <1>4, <2>1
    <2>4. y # fetcher /\ sent[y] = 0
      BY <2>1, <2>3 DEF WalkInv, WalkApart
    <2> HIDE DEF y, T, Q
    <2>5. WalkApart'
      BY <1>1, <1>3, <1>4, <1>6, <2>1, <2>2, <2>3, <2>4 DEF WalkInv, WalkApart
    <2>6. WalkStarted'
      BY <1>1, <1>5, <1>7, <2>1 DEF WalkInv, WalkStarted
    <2>7. WalkComplete'
      <3>1. y # None /\ \A x \in Components : x # offered
        BY <1>1, <2>1, FolderAssumption DEF FolderAssumption
      <3> QED
        BY <1>1, <1>3, <1>6, <1>8, <2>1, <2>2, <3>1 DEF WalkInv, WalkComplete, Handled
    <2> QED
      BY <2>5, <2>6, <2>7 DEF WalkInv
  <1> QED
    BY <1>9, <1>10

LEMMA WalkFetches ==
  ASSUME TypeOK, PlaceInv, WalkInv, main # "crashed", FoldersDone \/ ReceiveComponent \/ handleComponent \/ ComponentsDone
  PROVE  WalkInv'
  <1>1. UNCHANGED <<plugin, main, folderQueue, children>>
    BY DEF FoldersDone, ReceiveComponent, handleComponent, ComponentsDone, flagVars
  <1>2. main # "start" /\ plugin = "paligo"
    BY FolderAssumption DEF PlaceInv, Idle, FoldersDone, ReceiveComponent, handleComponent, ComponentsDone, FolderAssumption
  <1>3. failed \subseteq failed' /\ \A x \in Components : Lost(x) => Lost(x)'
    BY LostStays DEF FoldersDone, ReceiveComponent, handleComponent, ComponentsDone, SendError
  <1>4. Components \cap {None, Walking, Over, "receive", "done"} = {} /\ sent \in [Items -> Nat]
        /\ Components \subseteq Items /\ Components \subseteq Nodes
    BY FolderAssumption DEF FolderAssumption, TypeOK, FlagTypes, Items, Nodes
  <1>5. ListedApart(folderQueue)' /\ ListedApart(children)' /\ BelowAll(folderQueue)' = BelowAll(folderQueue)
        /\ BelowAll(children)' = BelowAll(children)
    BY <1>1 DEF WalkInv, WalkApart
  <1>6. CASE FoldersDone
    <2>1. UNCHANGED <<fetcher, sent, failed>> /\ offered = Walking /\ offered' = Over /\ children = <<>> /\ folderQueue = <<>>
      BY <1>6 DEF FoldersDone
    <2>2. WalkApart'
      BY <1>1, <1>4, <1>5, <2>1 DEF WalkInv, WalkApart
    <2>3. WalkStarted'
      BY <1>1, <1>2, <2>1 DEF WalkInv, WalkStarted
    <2>4. WalkComplete'
      BY <1>1, <1>3, <1>4, <1>5, <2>1 DEF WalkInv, WalkComplete, Handled
    <2> QED
      BY <2>2, <2>3, <2>4 DEF WalkInv
  <1>7. CASE ReceiveComponent
    <2>1. UNCHANGED <<sent, failed>> /\ fetcher = "receive" /\ offered \in Components /\ fetcher' = offered
          /\ offered' = Walking
      BY <1>7 DEF ReceiveComponent
    <2>2. WalkApart'
      BY <1>1, <1>4, <1>5, <2>1 DEF WalkInv, WalkApart
    <2>3. WalkStarted'
      BY <1>1, <1>2, <1>4, <2>1 DEF WalkInv, WalkStarted
    <2>4. WalkComplete'
      BY <1>1, <1>3, <1>4, <1>5, <2>1 DEF WalkInv, WalkComplete, Handled
    <2> QED
      BY <2>2, <2>3, <2>4 DEF WalkInv
  <1>8. CASE handleComponent
    <2>1. /\ fetcher \in Components /\ fetcher' = "receive" /\ offered' = offered
          /\ \/ sent' = [sent EXCEPT ![fetcher] = @ + 1] /\ failed' = failed
             \/ failed' = failed \cup {fetcher} /\ sent' = sent
      BY <1>8 DEF handleComponent, Send, SendError
    <2>2. sent[fetcher] = 0 /\ offered # fetcher /\ fetcher \notin BelowAll(folderQueue) /\ fetcher \notin BelowAll(children)
      BY <2>1 DEF WalkInv, WalkApart
    <2>3. \A x \in Components : sent'[x] = IF x = fetcher /\ sent' # sent THEN 1 ELSE sent[x]
      BY <1>4, <2>1, <2>2
    <2>4. sent' # sent \/ failed' = failed \cup {fetcher}
      BY <1>4, <2>1, <2>2
    <2>5. WalkApart'
      BY <1>1, <1>4, <1>5, <2>1, <2>2, <2>3 DEF WalkInv, WalkApart
    <2>6. WalkStarted'
      BY <1>1, <1>2, <2>1 DEF WalkInv, WalkStarted
    <2>7. WalkComplete'
      <3> SUFFICES ASSUME main' \in {"wait", "closed"}, plugin' \notin failed'
                   PROVE  offered' # None /\ fetcher' # None /\ \A x \in Components : Handled(x)'
        BY DEF WalkComplete
      <3>1. offered # None /\ \A x \in Components : Handled(x)
        BY <1>1, <1>2, <1>3 DEF WalkInv, WalkComplete
      <3> SUFFICES ASSUME NEW x \in Components PROVE Handled(x)'
        BY <2>1, <3>1
      <3>2. CASE x = fetcher
        <4>1. sent'[x] = 1 \/ Lost(x)'
          <5>1. CASE sent' # sent
            BY <2>3, <3>2, <5>1
          <5>2. CASE sent' = sent
            <6>1. failed' = failed \cup {x} /\ x \in Below[x] /\ x \in DOMAIN Below /\ x \notin Contents
              BY <1>4, <2>1, <2>2, <2>4, <3>2, <5>2, BelowClosed, ItemsAssumption DEF ItemsAssumption, Below, Nodes
            <6> QED
              BY <6>1 DEF Lost
          <5> QED
            BY <5>1, <5>2
        <4> QED
          BY <4>1 DEF Handled
      <3>3. CASE x # fetcher
        <4>1. sent'[x] = sent[x]
          BY <2>3, <3>3
        <4> QED
          BY <1>3, <1>5, <2>1, <3>1, <3>3, <4>1 DEF Handled
      <3> QED
        BY <3>2, <3>3
    <2> QED
      BY <2>5, <2>6, <2>7 DEF WalkInv
  <1>9. CASE ComponentsDone
    <2>1. UNCHANGED <<offered, sent, failed>> /\ fetcher = "receive" /\ offered = Over /\ fetcher' = "done"
      BY <1>9 DEF ComponentsDone
    <2>2. WalkApart'
      BY <1>1, <1>4, <1>5, <2>1 DEF WalkInv, WalkApart
    <2>3. WalkStarted'
      BY <1>1, <1>2, <2>1 DEF WalkInv, WalkStarted
    <2>4. WalkComplete'
      BY <1>1, <1>3, <1>4, <1>5, <2>1 DEF WalkInv, WalkComplete, Handled
    <2> QED
      BY <2>2, <2>3, <2>4 DEF WalkInv
  <1> QED
    BY <1>6, <1>7, <1>8, <1>9

LEMMA WalkNext == ASSUME TypeOK, PlaceInv, WalkInv, [Next]_vars PROVE WalkInv'
  BY WalkOthers, WalkStarts, WalkShows, WalkTakes, WalkFetches DEF FolderWalk, Fetch

-----------------------------------------------------------------------------
(* Which contents git sends.                                                 *)

LEMMA InjectiveTail ==
  ASSUME NEW S, NEW s \in Seq(S), s # <<>>, IsInjective(s)
  PROVE  IsInjective(Tail(s)) /\ Head(s) \notin Range(Tail(s))
  <1>1. Len(s) \in Nat /\ Len(s) >= 1 /\ DOMAIN s = 1..Len(s) /\ Head(s) = s[1]
    OBVIOUS
  <1>2. DOMAIN Tail(s) = 1..(Len(s) - 1) /\ \A i \in 1..(Len(s) - 1) : Tail(s)[i] = s[i + 1]
    BY <1>1
  <1>3. \A i \in DOMAIN Tail(s) : i + 1 \in DOMAIN s /\ i + 1 # 1 /\ Tail(s)[i] = s[i + 1] /\ i \in Int
    BY <1>1, <1>2
  <1>4. 1 \in DOMAIN s
    BY <1>1
  <1>5. ASSUME NEW i \in DOMAIN Tail(s), NEW j \in DOMAIN Tail(s), Tail(s)[i] = Tail(s)[j] PROVE i = j
    <2>1. i + 1 = j + 1
      BY <1>3, <1>5 DEF IsInjective
    <2> QED
      BY <1>3, <2>1
  <1>6. IsInjective(Tail(s))
    BY <1>5 DEF IsInjective
  <1>7. Head(s) \notin Range(Tail(s))
    BY <1>1, <1>3, <1>4 DEF Range, IsInjective
  <1> QED
    BY <1>6, <1>7

LEMMA RangeTail ==
  ASSUME NEW S, NEW s \in Seq(S), s # <<>> PROVE Range(s) = {Head(s)} \cup Range(Tail(s))
  <1>1. Len(s) \in Nat /\ Len(s) >= 1 /\ DOMAIN s = 1..Len(s) /\ Head(s) = s[1]
    OBVIOUS
  <1>2. DOMAIN Tail(s) = 1..(Len(s) - 1) /\ \A i \in 1..(Len(s) - 1) : Tail(s)[i] = s[i + 1]
    BY <1>1
  <1>3. \A i \in DOMAIN Tail(s) : i + 1 \in DOMAIN s /\ Tail(s)[i] = s[i + 1]
    BY <1>1, <1>2
  <1>4. \A i \in DOMAIN s : i # 1 => i - 1 \in DOMAIN Tail(s) /\ Tail(s)[i - 1] = s[i]
    BY <1>1, <1>2
  <1>5. 1 \in DOMAIN s
    BY <1>1
  <1>6. ASSUME NEW x \in Range(s) PROVE x \in {Head(s)} \cup Range(Tail(s))
    <2>1. PICK i \in DOMAIN s : x = s[i]
      BY <1>6 DEF Range
    <2> QED
      BY <1>1, <1>4, <2>1 DEF Range
  <1>7. ASSUME NEW x \in Range(Tail(s)) PROVE x \in Range(s)
    <2>1. PICK i \in DOMAIN Tail(s) : x = Tail(s)[i]
      BY <1>7 DEF Range
    <2> QED
      BY <1>3, <2>1 DEF Range
  <1>8. Head(s) \in Range(s)
    BY <1>1, <1>5 DEF Range
  <1> QED
    BY <1>6, <1>7, <1>8

LEMMA InjectivePrefix ==
  ASSUME NEW S, NEW s \in Seq(S), NEW n \in 0..Len(s), IsInjective(s)
  PROVE  IsInjective(SubSeq(s, 1, n)) /\ Range(SubSeq(s, 1, n)) \subseteq Range(s)
  <1> DEFINE t == SubSeq(s, 1, n)
  <1>1. DOMAIN s = 1..Len(s) /\ Len(s) \in Nat /\ DOMAIN t = 1..n /\ \A i \in 1..n : t[i] = s[i]
    OBVIOUS
  <1>2. \A i \in DOMAIN t : i \in DOMAIN s /\ t[i] = s[i]
    BY <1>1
  <1> HIDE DEF t
  <1>3. IsInjective(t) /\ Range(t) \subseteq Range(s)
    BY <1>2 DEF IsInjective, Range
  <1> QED
    BY <1>3 DEF t

LEMMA ContentTypes ==
  ASSUME NEW d \in FileDiffs
  PROVE  /\ ContentsOf[d] \in Seq(Contents) /\ IsInjective(ContentsOf[d])
         /\ \A e \in FileDiffs : d # e => Range(ContentsOf[d]) \cap Range(ContentsOf[e]) = {}
  BY GitAssumption DEF GitAssumption

Forwarded == Range(Logged(maxCount)) \ SkippedDiffs
InDiffs(x) == \E d \in Range(diffs) : x \in Range(ContentsOf[d])
Kept(x) == \E d \in Forwarded : x \in Range(ContentsOf[d])

\* What is left of the present file diff and the file diffs still to come are apart,
\* belong to the log, and nothing of them has been sent.
LogApart ==
  /\ IsInjective(diffs) /\ IsInjective(toSend) /\ (plugin = "git" => Range(diffs) \subseteq Range(Logged(maxCount)))
  /\ \A x \in Contents : /\ x \in Range(toSend) => Kept(x) /\ ~InDiffs(x)
                         /\ sent[x] \in {0, 1}
                         /\ sent[x] = 1 => Kept(x) /\ x \notin Range(toSend) /\ ~InDiffs(x)

LogStarted ==
  /\ main = "start" \/ plugin # "git" => diffs = <<>> /\ toSend = <<>> /\ ~gitFailed /\ \A x \in Contents : sent[x] = 0
  /\ main \in {"wait", "closed"} => diffs = <<>> /\ toSend = <<>> /\ (gitFailed => "git" \in failed)

\* Unless git has failed, what the log has is sent or still to come.
LogComplete ==
  plugin = "git" /\ main \in {"log", "wait", "closed"} /\ ~gitFailed =>
     \A x \in Contents : Kept(x) => sent[x] = 1 \/ x \in Range(toSend) \/ InDiffs(x)

LogInv == LogApart /\ LogStarted /\ LogComplete

LEMMA EmptyLog == IsInjective(<<>>) /\ Range(<<>>) = {}
  BY DEF IsInjective, Range

LEMMA LogInit == ASSUME Init PROVE LogInv
  <1>1. diffs = <<>> /\ toSend = <<>> /\ ~gitFailed /\ main = "start" /\ \A x \in Contents : sent[x] = 0
    BY DEF Init
  <1> QED
    BY <1>1, EmptyLog DEF LogInv, LogApart, LogStarted, LogComplete

LEMMA LogKept ==
  ASSUME LogInv, UNCHANGED <<plugin, maxCount, diffs, toSend, gitFailed>>, failed \subseteq failed',
         \A x \in Contents : sent'[x] = sent[x],
         main' = main \/ (plugin # "git" /\ main' # "log") \/ main' \in {"left", "crashed"}
         \/ (main = "wait" /\ main' = "closed")
  PROVE  LogInv'
  <1>1. \A x : (Kept(x)' <=> Kept(x)) /\ (InDiffs(x)' <=> InDiffs(x))
    BY DEF Kept, InDiffs, Forwarded
  <1>2. LogApart'
    BY <1>1 DEF LogInv, LogApart
  <1>3. LogStarted'
    BY DEF LogInv, LogStarted
  <1>4. LogComplete'
    BY <1>1 DEF LogInv, LogComplete
  <1> QED
    BY <1>2, <1>3, <1>4 DEF LogInv

LEMMA LogOthers ==
  ASSUME TypeOK, PlaceInv, LogInv, [Next]_vars,
         ~(readGitLog \/ processFileDiff \/ SendContent \/ WaitForGit \/ GitFails)
  PROVE  LogInv'
  <1>1. CASE \E h \in Histories : Reader(h)
    <2>1. PICK h \in Histories : Reader(h)
      BY <1>1
    <2>2. UNCHANGED <<plugin, main, maxCount, diffs, toSend, gitFailed>>
      BY <2>1, ReaderKeeps DEF gitVars
    <2>3. \A x \in Contents : sent'[x] = sent[x]
      BY <2>1, ReaderSends, ItemsAssumption DEF ItemsAssumption, Items
    <2>4. failed \subseteq failed'
      BY <2>1 DEF Reader, CheckPermission, Request, RequestFails, OutOfRange, TakeMessage, PageDone, SendCollected,
         Returns, SendError
    <2> QED
      BY <2>2, <2>3, <2>4, LogKept
  <1>2. CASE \A h \in Histories : ~Reader(h)
    <2>1. UNCHANGED <<plugin, maxCount, diffs, toSend, gitFailed>>
      BY <1>2 DEF Next, Run, ReadLog, LogDoesNotStart, BindChannels, RateLimited, NoAnswer, CloseItems, NotInitialized,
         StartFails, getChannels, getItems, readGuildMessages, processFolders, FolderWalk, ShowFolder, NextChild,
         FoldersDone, Fetch, ReceiveComponent, handleComponent, ComponentsDone, vars, flagVars, gitVars
    <2>2. failed \subseteq failed'
      BY <1>2 DEF Next, Run, ReadLog, LogDoesNotStart, BindChannels, RateLimited, NoAnswer, CloseItems, NotInitialized,
         StartFails, getChannels, getItems, readGuildMessages, processFolders, FolderWalk, ShowFolder, NextChild,
         FoldersDone, Fetch, ReceiveComponent, handleComponent, ComponentsDone, SendError, vars
    <2>3. \A x \in Contents : sent'[x] = sent[x]
      <3>1. CASE handleComponent
        BY <3>1, ItemsAssumption DEF handleComponent, Send, ItemsAssumption, TypeOK, FlagTypes, Items
      <3>2. CASE ~handleComponent
        BY <1>2, <3>2 DEF Next, Run, ReadLog, LogDoesNotStart, BindChannels, RateLimited, NoAnswer, CloseItems,
           NotInitialized, StartFails, getChannels, getItems, readGuildMessages, processFolders, FolderWalk, ShowFolder,
           NextChild, FoldersDone, Fetch, ReceiveComponent, ComponentsDone, vars
      <3> QED
        BY <3>1, <3>2
    <2>4. main' = main \/ (plugin # "git" /\ main' # "log") \/ main' \in {"left", "crashed"}
          \/ (main = "wait" /\ main' = "closed")
      BY <1>2 DEF Next, Run, ReadLog, LogDoesNotStart, BindChannels, RateLimited, NoAnswer, CloseItems, NotInitialized,
         StartFails, getChannels, StartReaders, getItems, readGuildMessages, processFolders, FolderWalk, ShowFolder,
         NextChild, FoldersDone, Fetch, ReceiveComponent, handleComponent, ComponentsDone, vars
    <2> QED
      BY <2>1, <2>2, <2>3, <2>4, LogKept
  <1> QED
    BY <1>1, <1>2

LEMMA LogStarts == ASSUME TypeOK, LogInv, readGitLog PROVE LogInv'
  <1>1. /\ plugin = "git" /\ main = "start" /\ main' = "log" /\ diffs' = Logged(maxCount)
        /\ UNCHANGED <<plugin, maxCount, toSend, gitFailed, sent>>
    BY DEF readGitLog, flagVars
  <1>2. toSend = <<>> /\ \A x \in Contents : sent[x] = 0
    BY <1>1 DEF LogInv, LogStarted
  <1>3. IsInjective(diffs')
    BY <1>1, GitAssumption DEF GitAssumption, TypeOK, FlagTypes
  <1>4. LogApart'
    BY <1>1, <1>2, <1>3, EmptyLog DEF LogApart
  <1>5. LogComplete'
    BY <1>1 DEF LogComplete, Kept, InDiffs, Forwarded
  <1> QED
    BY <1>1, <1>4, <1>5 DEF LogInv, LogStarted

LEMMA LogProcesses == ASSUME TypeOK, PlaceInv, LogInv, processFileDiff PROVE LogInv'
  <1> DEFINE d == Head(diffs)
  <1>1. /\ main = "log" /\ toSend = <<>> /\ diffs # <<>> /\ diffs' = Tail(diffs)
        /\ toSend' = IF d \in SkippedDiffs THEN <<>> ELSE ContentsOf[d]
        /\ UNCHANGED <<plugin, maxCount, main, gitFailed, sent>>
    BY DEF processFileDiff, flagVars
  <1>2. plugin = "git" /\ diffs \in Seq(FileDiffs) /\ d \in FileDiffs
    BY <1>1, SequenceTail DEF PlaceInv, Idle, TypeOK, GitTypes
  <1>3. IsInjective(Tail(diffs)) /\ d \notin Range(Tail(diffs)) /\ Range(diffs) = {d} \cup Range(Tail(diffs))
    BY <1>1, <1>2, InjectiveTail, RangeTail DEF LogInv, LogApart
  <1>4. Range(Tail(diffs)) \subseteq FileDiffs
    <2>1. Tail(diffs) \in Seq(FileDiffs)
      BY <1>1, <1>2, SequenceTail
    <2>2. \A i \in DOMAIN Tail(diffs) : Tail(diffs)[i] \in FileDiffs
      BY <2>1, ElementOfSeq, LenProperties
    <2> QED
      BY <2>2 DEF Range
  <1>5. ContentsOf[d] \in Seq(Contents) /\ IsInjective(ContentsOf[d])
        /\ \A e \in Range(Tail(diffs)) : Range(ContentsOf[d]) \cap Range(ContentsOf[e]) = {}
    BY <1>2, <1>3, <1>4, ContentTypes
  <1>6. d \in Range(Logged(maxCount))
    BY <1>2, <1>3 DEF LogInv, LogApart
  <1> HIDE DEF d
  <1>7. \A x : InDiffs(x) <=> x \in Range(ContentsOf[d]) \/ InDiffs(x)'
    BY <1>1, <1>3 DEF InDiffs
  <1>8. \A x : Kept(x)' <=> Kept(x)
    BY <1>1 DEF Kept, Forwarded
  <1>9. \A x \in Range(toSend') : d \notin SkippedDiffs /\ x \in Range(ContentsOf[d])
    BY <1>1, EmptyLog
  <1>10. \A x \in Range(toSend') : Kept(x) /\ ~InDiffs(x)'
    BY <1>1, <1>5, <1>6, <1>9 DEF Kept, Forwarded, InDiffs
  <1>11. IsInjective(toSend')
    BY <1>1, <1>5, EmptyLog
  <1>12. LogApart'
    BY <1>1, <1>3, <1>7, <1>8, <1>9, <1>10, <1>11 DEF LogInv, LogApart
  <1>13. ASSUME NEW x \in Contents, Kept(x), x \in Range(ContentsOf[d]) PROVE x \in Range(toSend')
    <2>1. PICK e \in Forwarded : x \in Range(ContentsOf[e])
      BY <1>13 DEF Kept
    <2>2. e \in FileDiffs
      <3>1. Logged(maxCount) \in Seq(FileDiffs)
        BY GitAssumption DEF GitAssumption, TypeOK, FlagTypes
      <3>2. \A i \in DOMAIN Logged(maxCount) : Logged(maxCount)[i] \in FileDiffs
        BY <3>1, ElementOfSeq, LenProperties
      <3> QED
        BY <3>2 DEF Forwarded, Range
    <2>3. e = d
      BY <1>2, <1>13, <2>1, <2>2, ContentTypes
    <2> QED
      BY <1>1, <1>13, <2>1, <2>3 DEF Forwarded
  <1>14. LogComplete'
    BY <1>1, <1>7, <1>8, <1>13, EmptyLog DEF LogInv, LogComplete
  <1> QED
    BY <1>1, <1>2, <1>12, <1>14 DEF LogInv, LogStarted

LEMMA LogSends == ASSUME TypeOK, PlaceInv, LogInv, SendContent PROVE LogInv'
  <1> DEFINE y == Head(toSend)
  <1>1. /\ main = "log" /\ toSend # <<>> /\ toSend' = Tail(toSend) /\ sent' = [sent EXCEPT ![y] = @ + 1]
        /\ UNCHANGED <<plugin, maxCount, main, diffs, gitFailed>>
    BY DEF SendContent, Send, flagVars
  <1>2. plugin = "git" /\ toSend \in Seq(Contents) /\ y \in Contents /\ sent \in [Items -> Nat] /\ Contents \subseteq Items
    BY <1>1, SequenceTail DEF PlaceInv, Idle, TypeOK, GitTypes, FlagTypes, Items
  <1>3. IsInjective(Tail(toSend)) /\ y \notin Range(Tail(toSend)) /\ Range(toSend) = {y} \cup Range(Tail(toSend))
    BY <1>1, <1>2, InjectiveTail, RangeTail DEF LogInv, LogApart
  <1> HIDE DEF y
  <1>4. \A x : (Kept(x)' <=> Kept(x)) /\ (InDiffs(x)' <=> InDiffs(x))
    BY <1>1 DEF Kept, Forwarded, InDiffs
  <1>5. sent[y] = 0 /\ Kept(y) /\ ~InDiffs(y)
    BY <1>2, <1>3 DEF LogInv, LogApart
  <1>6. \A x \in Contents : sent'[x] = IF x = y THEN 1 ELSE sent[x]
    BY <1>1, <1>2, <1>5
  <1>7. LogApart'
    BY <1>1, <1>3, <1>4, <1>5, <1>6 DEF LogInv, LogApart
  <1>8. LogComplete'
    BY <1>1, <1>3, <1>4, <1>6 DEF LogInv, LogComplete
  <1> QED
    BY <1>1, <1>2, <1>7, <1>8 DEF LogInv, LogStarted

LEMMA LogEnds == ASSUME TypeOK, PlaceInv, LogInv, WaitForGit \/ GitFails PROVE LogInv'
  <1>1. UNCHANGED <<plugin, maxCount, toSend, sent>> /\ main = "log" /\ plugin = "git"
    BY DEF WaitForGit, GitFails, flagVars, gitVars, PlaceInv, Idle
  <1>2. \A x : Kept(x)' <=> Kept(x)
    BY <1>1 DEF Kept, Forwarded
  <1>3. CASE WaitForGit
    <2>1. toSend = <<>> /\ diffs = <<>> /\ main' = "wait" /\ UNCHANGED <<diffs, gitFailed>>
          /\ (gitFailed => "git" \in failed')
      BY <1>3 DEF WaitForGit, gitVars, SendError
    <2>2. \A x : InDiffs(x)' <=> InDiffs(x)
      BY <2>1 DEF InDiffs
    <2> QED
      BY <1>1, <1>2, <2>1, <2>2 DEF LogInv, LogApart, LogStarted, LogComplete
  <1>4. CASE GitFails
    <2>1. PICK n \in 0..Len(diffs) : diffs' = SubSeq(diffs, 1, n)
      BY <1>4 DEF GitFails
    <2>2. UNCHANGED main /\ gitFailed' = TRUE
      BY <1>4 DEF GitFails
    <2>3. IsInjective(diffs') /\ Range(diffs') \subseteq Range(diffs)
      BY <2>1, InjectivePrefix DEF LogInv, LogApart, TypeOK, GitTypes
    <2>4. \A x : InDiffs(x)' => InDiffs(x)
      BY <2>3 DEF InDiffs
    <2>5. LogApart'
      BY <1>1, <1>2, <2>3, <2>4 DEF LogInv, LogApart
    <2> QED
      BY <1>1, <2>2, <2>5 DEF LogInv, LogStarted, LogComplete
  <1> QED
    BY <1>3, <1>4

LEMMA LogNext == ASSUME TypeOK, PlaceInv, LogInv, [Next]_vars PROVE LogInv'
  BY LogOthers, LogStarts, LogProcesses, LogSends, LogEnds

-----------------------------------------------------------------------------
(* Only what was asked for is sent.                                          *)

SentInv == PlacesInv /\ MessagesInv /\ WalkInv /\ LogInv

LEMMA SentAlways == Spec => []SentInv
  <1>1. Init => SentInv
    BY TypeInit, TakenInit, PlaceInit, CountsInit, AllowedInit, WalkInit, LogInit DEF SentInv, PlacesInv, MessagesInv
  <1>2. SentInv /\ [Next]_vars => SentInv'
    BY TypeNext, TakenNext, PlaceNext, CountsNext, MessagesNext, WalkNext, LogNext DEF SentInv, PlacesInv
  <1> QED
    BY <1>1, <1>2, PTL DEF Spec

\* Nothing is sent twice, and nothing beyond the limits or that was not asked for,
\* wherever the pages end (isMessageOutOfRange, getMessages).
THEOREM NothingElseIsSent == Spec => []OnlyWanted
  <1>1. SentInv => OnlyWanted
    <2> SUFFICES ASSUME SentInv, NEW x \in Items PROVE sent[x] <= (IF Wanted(x) THEN 1 ELSE 0)
      BY DEF OnlyWanted, SentInv, PlacesInv, TypeOK, FlagTypes
    <2>1. CASE x \in Messages
      BY <2>1, MessagesAreWanted DEF SentInv, PlacesInv
    <2>2. CASE x \in Components
      BY <2>2 DEF SentInv, WalkInv, WalkApart, WalkStarted, Wanted
    <2>3. CASE x \in Contents
      <3>1. x \notin Components
        BY <2>3, ItemsAssumption DEF ItemsAssumption
      <3>2. plugin # "git" => sent[x] = 0
        BY <2>3 DEF SentInv, LogInv, LogStarted
      <3>3. sent[x] \in {0, 1} /\ (sent[x] = 1 => Kept(x))
        BY <2>3 DEF SentInv, LogInv, LogApart
      <3> QED
        BY <2>3, <3>1, <3>2, <3>3 DEF Wanted, Kept, Forwarded
    <2> QED
      BY <2>1, <2>2, <2>3 DEF Items
  <1> QED
    BY <1>1, SentAlways, PTL

-----------------------------------------------------------------------------
(* Everything asked for is sent.                                             *)

AllTaken(h) == InRange(h) \subseteq got[h]

\* What has been read of a history that is waited for, or done with.
ReadInv ==
  /\ \A h \in Histories : /\ at[h] \in {None, "permission", "request"} => pos[h] = pageEnd[h]
                          /\ at[h] = "send" => AllTaken(h)
  /\ \A t \in Threads : at[t] = "end" => AllTaken(t)
  /\ \A c \in Channels : /\ at[c] = "end" /\ Allowed(c) => AllTaken(c)
                         /\ at[c] = "failed" => c \in failed

\* The threads of the messages that were taken have been read, and when a channel
\* is done its messages and theirs are sent.
CollectInv ==
  plugin = "discord" =>
    \A c \in Channels :
      /\ \A i \in got[c] : History[c][i].thread # None => at[History[c][i].thread] # None
      /\ at[c] = "end" => \A x \in Collected(c) : sent[x] = 1

\* The channels asked for are started, unless the plugin could not list them.
StartInv ==
  /\ main = "start" => selected = {c \in Channels \ unlisted : Asked(c)}
  /\ main \in {"wait", "closed"} /\ plugin \notin failed =>
        /\ plugin = "slack" => \A c \in Channels : Asked(c) => at[c] # None
        /\ plugin = "discord" => \A g \in Guilds : guild[g] # None
  /\ \A g \in Guilds : guild[g] = "done" => \A c \in ChannelsOf(g) : at[c] # None

CompleteInv == ReadInv /\ CollectInv /\ StartInv

LEMMA CompleteInit == ASSUME Init PROVE CompleteInv
  <1>1. \A h \in Histories : at[h] = None /\ pos[h] = 0 /\ pageEnd[h] = 0 /\ got[h] = {}
    BY DEF Init
  <1>2. main = "start" /\ selected = {} /\ unlisted = Channels /\ \A g \in Guilds : guild[g] = None
    BY DEF Init
  <1>3. ReadInv
    BY <1>1 DEF ReadInv, Histories
  <1>4. CollectInv
    BY <1>1 DEF CollectInv, Histories
  <1> QED
    BY <1>2, <1>3, <1>4 DEF CompleteInv, StartInv

\* A reader that has met a message out of range, or the end, has taken all in range.
LEMMA AllIsTaken ==
  ASSUME TypeOK, TakenInv, NEW h \in Histories, last[h] \/ pos[h] = Len(History[h]) PROVE AllTaken(h)
  <1>1. PICK k \in 0..pos[h] : Taken(h, k)
    BY DEF TakenInv
  <1>2. pos[h] \in Nat /\ k \in Nat /\ Len(History[h]) \in Nat /\ DOMAIN History[h] = 1..Len(History[h])
    BY MessageTypes DEF TypeOK, ReadTypes
  <1> SUFFICES ASSUME NEW i \in InRange(h) PROVE i \in got[h]
    BY DEF AllTaken
  <1>3. i \in DOMAIN History[h] /\ i \in Nat /\ i >= 1 /\ i <= Len(History[h])
    BY <1>2 DEF InRange
  <1>4. i <= k
    BY <1>1, <1>2, <1>3 DEF Taken
  <1> QED
    BY <1>1, <1>2, <1>3, <1>4 DEF Taken

\* What a reader's step does to the other histories.
LEMMA ReaderElse ==
  ASSUME TypeOK, TakenInv, PlaceInv, NEW h \in Histories, Reader(h), NEW b \in Histories, b # h
  PROVE  /\ \/ at'[b] = at[b] \/ at'[b] \in {"page", "fail", "thread"}
            \/ at[b] = None /\ at'[b] = "request"
         /\ UNCHANGED <<pos[b], pageEnd[b], got[b], last[b]>>
  <1>1. at \in [Histories -> Ats] /\ Channels \subseteq Histories /\ Threads \subseteq Histories
    BY DEF TypeOK, ReadTypes, Histories
  <1>2. UNCHANGED <<pos[b], pageEnd[b], got[b], last[b]>>
    BY ReaderReads
  <1>3. \/ UNCHANGED at
        \/ ChannelMoves(h) \/ ThreadMoves(h) \/ ThreadReturns(h) \/ ThreadStarts(h)
    BY ReaderMoves DEF PlaceInv
  <1>4. \/ at'[b] = at[b] \/ at'[b] \in {"page", "fail", "thread"}
        \/ at[b] = None /\ at'[b] = "request"
    <2>1. CASE UNCHANGED at \/ ChannelMoves(h) \/ ThreadMoves(h)
      BY <1>1, <2>1 DEF ChannelMoves, ThreadMoves
    <2>2. CASE ThreadReturns(h)
      BY <1>1, <2>2 DEF ThreadReturns
    <2>3. CASE ThreadStarts(h)
      <3>1. PICK i \in InRange(h) : /\ History[h][i].thread \in Threads /\ at[History[h][i].thread] = None
                                    /\ at' = [at EXCEPT ![h] = "thread", ![History[h][i].thread] = "request"]
        BY <2>3 DEF ThreadStarts
      <3> QED
        BY <1>1, <3>1
    <2> QED
      BY <1>3, <2>1, <2>2, <2>3
  <1> QED
    BY <1>2, <1>4

\* How a reader's own history is left by a failure, a return, a permission check.
LEMMA ReturnsTo ==
  ASSUME TypeOK, PlaceInv, NEW h \in Histories, NEW how \in {"end", "failed"}, Returns(h, how), at[h] # None
  PROVE  at'[h] = how /\ (how = "failed" /\ h \in Channels => h \in failed')
  <1>1. at \in [Histories -> Ats] /\ Channels \cap Threads = {}
    BY HistoryAssumption DEF HistoryAssumption, TypeOK, ReadTypes
  <1>2. CASE h \in Threads
    <2>1. Parent(h) \in Channels /\ Parent(h) # h
      BY <1>1, <1>2 DEF PlaceInv, ThreadPlaces, Found
    <2> QED
      BY <1>1, <1>2, <2>1 DEF Returns
  <1>3. CASE h \notin Threads
    BY <1>1, <1>3 DEF Returns, SendError
  <1> QED
    BY <1>2, <1>3

LEMMA ReaderOwn ==
  ASSUME TypeOK, TakenInv, PlaceInv, AllowedInv, CompleteInv, NEW h \in Histories, Reader(h)
  PROVE  /\ at'[h] # None /\ at'[h] # "permission"
         /\ at'[h] = "request" => pos'[h] = pageEnd'[h]
         /\ at'[h] = "send" => AllTaken(h)'
         /\ at'[h] = "end" /\ (h \in Channels => Allowed(h)) => AllTaken(h)'
         /\ at'[h] = "failed" /\ h \in Channels => h \in failed'
  <1>1. at \in [Histories -> Ats] /\ pos[h] \in Nat /\ pageEnd[h] \in Nat /\ Len(History[h]) \in Nat
        /\ Channels \cap Threads = {} /\ Histories = Channels \cup Threads
    BY MessageTypes, HistoryAssumption DEF HistoryAssumption, TypeOK, ReadTypes, Histories
  <1>2. at[h] \in {"permission", "request", "page", "fail", "send"} /\ InRange(h)' = InRange(h)
    BY ReaderKeeps DEF InRange
  <1>3. \A how \in {"end", "failed"} : Returns(h, how) => at'[h] = how /\ (how = "failed" /\ h \in Channels => h \in failed')
    BY <1>2, ReturnsTo
  <1>4. CASE CheckPermission(h)
    <2>1. UNCHANGED <<pos, pageEnd>> /\ at[h] = "permission"
      BY <1>4 DEF CheckPermission
    <2>2. pos[h] = pageEnd[h]
      BY <2>1 DEF CompleteInv, ReadInv
    <2>3. h \in Channels /\ plugin = "discord"
      BY <1>1, <2>1 DEF PlaceInv, ThreadPlaces, SlackPlaces, Idle, TypeOK, FlagTypes
    <2>4. at'[h] = (IF h \in Readable THEN "request" ELSE "end")
      BY <1>1, <1>4 DEF CheckPermission
    <2> QED
      BY <2>1, <2>2, <2>3, <2>4 DEF Allowed
  <1>5. CASE RequestFails(h)
    BY <1>3, <1>5 DEF RequestFails
  <1>6. CASE Request(h)
    <2>1. PICK n \in 0..PageSize :
            /\ n = 0 => pageEnd[h] = Len(History[h])
            /\ IF plugin = "discord" /\ (n = 0 \/ last[h])
               THEN IF h \in Threads THEN Returns(h, "end") ELSE at' = [at EXCEPT ![h] = "send"]
               ELSE at' = [at EXCEPT ![h] = "page"]
      BY <1>6 DEF Request
    <2>2. at[h] = "request" /\ UNCHANGED <<pos, got, last>>
      BY <1>6 DEF Request
    <2>3. pos[h] = pageEnd[h]
      BY <2>2 DEF CompleteInv, ReadInv
    <2>4. CASE plugin = "discord" /\ (n = 0 \/ last[h])
      <3>1. AllTaken(h)
        BY <2>1, <2>3, <2>4, AllIsTaken
      <3>2. AllTaken(h)'
        BY <1>2, <2>2, <3>1 DEF AllTaken
      <3>3. at'[h] \in {"send", "end"}
        BY <1>1, <1>3, <2>1, <2>4
      <3> QED
        BY <3>2, <3>3
    <2>5. CASE ~(plugin = "discord" /\ (n = 0 \/ last[h]))
      <3>1. at'[h] = "page"
        BY <1>1, <2>1, <2>5
      <3> QED
        BY <3>1
    <2> QED
      BY <2>4, <2>5
  <1>7. CASE OutOfRange(h) \/ TakeMessage(h)
    <2>1. at[h] = "page"
      BY <1>7 DEF OutOfRange, TakeMessage, InPage
    <2>2. at'[h] \in {"page", "thread"}
      <3>1. CASE UNCHANGED at
        BY <2>1, <3>1
      <3>2. CASE ~UNCHANGED at
        <4>1. TakeMessage(h) /\ InPage(h) /\ plugin = "discord"
              /\ at' = [at EXCEPT ![h] = "thread", ![History[h][pos[h] + 1].thread] = "request"]
              /\ at[History[h][pos[h] + 1].thread] = None
          BY <1>7, <3>2 DEF OutOfRange, TakeMessage
        <4>2. h # History[h][pos[h] + 1].thread
          BY <2>1, <4>1
        <4> QED
          BY <1>1, <4>1, <4>2
      <3> QED
        BY <3>1, <3>2
    <2> QED
      BY <2>2
  <1>8. CASE PageDone(h)
    <2>1. /\ pos[h] = pageEnd[h] /\ UNCHANGED <<pos, pageEnd, got, last>>
          /\ \/ pageEnd[h] = Len(History[h]) /\ Returns(h, "end")
             \/ at' = [at EXCEPT ![h] = "request"]
      BY <1>8 DEF PageDone
    <2>2. CASE pageEnd[h] = Len(History[h]) /\ Returns(h, "end")
      <3>1. AllTaken(h)
        BY <2>1, <2>2, AllIsTaken
      <3> QED
        BY <1>2, <1>3, <2>1, <2>2, <3>1 DEF AllTaken
    <2>3. CASE at' = [at EXCEPT ![h] = "request"]
      BY <1>1, <2>1, <2>3
    <2> QED
      BY <2>1, <2>2, <2>3
  <1>9. CASE SendCollected(h)
    <2>1. at[h] = "send" /\ UNCHANGED <<pos, pageEnd, got, last>> /\ (UNCHANGED at \/ Returns(h, "end"))
      BY <1>9 DEF SendCollected
    <2>2. AllTaken(h)
      BY <2>1 DEF CompleteInv, ReadInv
    <2>3. AllTaken(h)'
      BY <1>2, <2>1, <2>2 DEF AllTaken
    <2>4. at'[h] \in {"send", "end"}
      BY <1>3, <2>1
    <2> QED
      BY <2>3, <2>4
  <1> QED
    BY <1>4, <1>5, <1>6, <1>7, <1>8, <1>9 DEF Reader

LEMMA ReadReader ==
  ASSUME TypeOK, TakenInv, PlaceInv, AllowedInv, CompleteInv, NEW h \in Histories, Reader(h) PROVE ReadInv'
  <1>1. \A b : (InRange(b)' = InRange(b)) /\ (Allowed(b)' <=> Allowed(b))
    BY ReaderKeeps DEF InRange, Allowed, Asked
  <1>2. failed \subseteq failed'
    BY DEF Reader, CheckPermission, Request, RequestFails, OutOfRange, TakeMessage, PageDone, SendCollected, Returns,
       SendError
  <1>3. Histories = Channels \cup Threads /\ Channels \cap Threads = {}
    BY HistoryAssumption DEF HistoryAssumption, Histories
  <1>4. ASSUME NEW b \in Histories
        PROVE  /\ at'[b] \in {None, "permission", "request"} => pos'[b] = pageEnd'[b]
               /\ at'[b] = "send" => AllTaken(b)'
               /\ b \in Threads /\ at'[b] = "end" => AllTaken(b)'
               /\ b \in Channels /\ at'[b] = "end" /\ Allowed(b)' => AllTaken(b)'
               /\ b \in Channels /\ at'[b] = "failed" => b \in failed'
    <2>1. CASE b = h
      BY <1>1, <1>3, <2>1, ReaderOwn
    <2>2. CASE b # h
      <3>1. /\ \/ at'[b] = at[b] \/ at'[b] \in {"page", "fail", "thread"}
               \/ at[b] = None /\ at'[b] = "request"
            /\ UNCHANGED <<pos[b], pageEnd[b], got[b], last[b]>>
        BY <2>2, ReaderElse
      <3>2. AllTaken(b)' <=> AllTaken(b)
        BY <1>1, <3>1 DEF AllTaken
      <3>3. /\ at[b] \in {None, "permission", "request"} => pos[b] = pageEnd[b]
            /\ at[b] = "send" => AllTaken(b)
            /\ b \in Threads /\ at[b] = "end" => AllTaken(b)
            /\ b \in Channels /\ at[b] = "end" /\ Allowed(b) => AllTaken(b)
            /\ b \in Channels /\ at[b] = "failed" => b \in failed
        BY DEF CompleteInv, ReadInv
      <3> QED
        BY <1>1, <1>2, <3>1, <3>2, <3>3
    <2> QED
      BY <2>1, <2>2
  <1> QED
    BY <1>3, <1>4 DEF ReadInv

LEMMA CollectReader ==
  ASSUME TypeOK, TakenInv, PlaceInv, AllowedInv, SentMessages, CompleteInv, NEW h \in Histories, Reader(h)
  PROVE  CollectInv'
  <1>1. plugin' = plugin
    BY ReaderKeeps
  <1> SUFFICES ASSUME plugin = "discord", NEW c \in Channels
               PROVE  /\ \A i \in got'[c] : History[c][i].thread # None => at'[History[c][i].thread] # None
                      /\ at'[c] = "end" => \A x \in Collected(c)' : sent'[x] = 1
    BY <1>1 DEF CollectInv
  <1>2. Histories = Channels \cup Threads /\ Channels \cap Threads = {} /\ at \in [Histories -> Ats]
        /\ sent \in [Items -> Nat] /\ pos \in [Histories -> Nat] /\ got \in [Histories -> SUBSET Nat]
    BY HistoryAssumption DEF HistoryAssumption, Histories, TypeOK, ReadTypes, FlagTypes
  <1>3. \A b \in Histories : at[b] # None => at'[b] # None
    <2> SUFFICES ASSUME NEW b \in Histories, at[b] # None PROVE at'[b] # None
      OBVIOUS
    <2>1. b = h => at'[b] # None
      BY ReaderOwn
    <2>2. b # h => at'[b] # None
      BY ReaderElse
    <2> QED
      BY <2>1, <2>2
  <1>4. ASSUME NEW i \in got'[c], History[c][i].thread # None PROVE at'[History[c][i].thread] # None
    <2>1. CASE i \in got[c]
      <3>1. at[History[c][i].thread] # None
        BY <1>4, <2>1 DEF CompleteInv, CollectInv
      <3>2. History[c][i].thread \in Histories
        BY <1>2, <1>4, <2>1, GotMessages, MessageTypes
      <3> QED
        BY <1>3, <3>1, <3>2
    <2>2. CASE i \notin got[c]
      <3>1. c = h
        BY <1>2, <1>4, <2>2, ReaderElse
      <3>2. TakeMessage(h) /\ ~UNCHANGED got
        BY <1>4, <2>2 DEF Reader, CheckPermission, Request, RequestFails, OutOfRange, PageDone, SendCollected
      <3>3. /\ InPage(h) /\ got' = [got EXCEPT ![h] = @ \cup {pos[h] + 1}] /\ at' = at
            /\ ~(History[h][pos[h] + 1].thread # None /\ at[History[h][pos[h] + 1].thread] = None)
        BY <3>2 DEF TakeMessage
      <3>4. i = pos[h] + 1
        BY <1>2, <1>4, <2>2, <3>1, <3>3
      <3> QED
        BY <1>4, <3>1, <3>3, <3>4
    <2> QED
      BY <2>1, <2>2
  <1>5. ASSUME NEW x \in Messages, sent[x] = 1 PROVE sent'[x] = 1
    <2>1. sent' = sent \/ \E y : sent[y] = 0 /\ sent' = [sent EXCEPT ![y] = @ + 1]
      <3>1. CASE SendCollected(h)
        BY <3>1 DEF SendCollected, Send
      <3>2. CASE ~SendCollected(h)
        BY <3>2 DEF Reader, CheckPermission, Request, RequestFails, OutOfRange, TakeMessage, PageDone
      <3> QED
        BY <3>1, <3>2
    <2> QED
      BY <1>2, <1>5, <2>1 DEF Items
  <1>6. ASSUME at'[c] = "end", NEW x \in Collected(c)' PROVE sent'[x] = 1
    <2>1. \A y \in Collected(c) : y \in Messages
      BY <1>2, CollectedMessages
    <2>2. CASE c # h
      <3>1. at[c] = "end"
        BY <1>2, <1>6, <2>2, ReaderElse
      <3>2. h \in Threads => Parent(h) # c
        <4>1. h \in Threads => at[h] \in Live
          BY ReaderKeeps DEF PlaceInv, ThreadPlaces, Live
        <4> QED
          BY <3>1, <4>1 DEF PlaceInv, ThreadPlaces
      <3>3. got'[c] = got[c] /\ \A t \in Threads : Parent(t) = c => got'[t] = got[t]
        BY <1>2, <2>2, <3>2, ReaderReads
      <3>4. x \in Collected(c)
        BY <1>6, <3>3 DEF Collected
      <3>5. sent[x] = 1
        BY <3>1, <3>4 DEF CompleteInv, CollectInv
      <3> QED
        BY <1>5, <2>1, <3>4, <3>5
    <2>3. CASE c = h
      <3>1. CheckPermission(h) \/ SendCollected(h)
        <4>1. h \notin Threads /\ at[h] # None
          BY <1>2, <2>3, ReaderKeeps
        <4>2. RequestFails(h) => at'[h] = "failed"
          BY <4>1, ReturnsTo DEF RequestFails
        <4>3. Request(h) => at'[h] \in {"send", "page"}
          BY <1>2, <4>1 DEF Request
        <4>4. PageDone(h) => at'[h] = "request"
          BY <1>2 DEF PageDone
        <4>5. OutOfRange(h) => at'[h] = "page"
          BY DEF OutOfRange, InPage
        <4>6. TakeMessage(h) => at'[h] \in {"page", "thread"}
          <5> SUFFICES ASSUME TakeMessage(h) PROVE at'[h] \in {"page", "thread"}
            OBVIOUS
          <5>1. at[h] = "page"
            BY DEF TakeMessage, InPage
          <5>2. UNCHANGED at
                \/ /\ at' = [at EXCEPT ![h] = "thread", ![History[h][pos[h] + 1].thread] = "request"]
                   /\ at[History[h][pos[h] + 1].thread] = None
            BY DEF TakeMessage
          <5>3. History[h][pos[h] + 1].thread = h => at[History[h][pos[h] + 1].thread] # None
            BY <5>1
          <5> QED
            BY <1>2, <5>1, <5>2, <5>3
        <4> QED
          BY <1>6, <2>3, <4>2, <4>3, <4>4, <4>5, <4>6 DEF Reader
      <3>2. UNCHANGED got
        BY <3>1 DEF CheckPermission, SendCollected
      <3>3. x \in Collected(c)
        BY <1>6, <3>2 DEF Collected
      <3>4. CASE CheckPermission(h)
        <4>1. ~Allowed(c)
          BY <1>2, <1>6, <2>3, <3>4 DEF CheckPermission, Allowed
        <4>2. got[c] = {} /\ \A t \in Threads : Parent(t) = c => got[t] = {}
          BY <4>1 DEF AllowedInv
        <4>3. Collected(c) = {}
          BY <4>2 DEF Collected
        <4> QED
          BY <3>3, <4>3
      <3>5. CASE SendCollected(h)
        <4>1. at[h] = "send" /\ (({y \in Collected(h) : sent[y] = 0} = {} /\ sent' = sent) \/ at' = at)
          BY <3>5 DEF SendCollected
        <4>2. sent[x] # 0 /\ sent' = sent
          BY <1>6, <2>3, <3>3, <4>1
        <4>3. \E b \in Histories : \E i \in got[b] : x = <<b, i>>
          BY <1>2, <3>3 DEF Collected
        <4>4. sent[x] \in {0, 1}
          BY <4>3, GotMessages DEF SentMessages
        <4> QED
          BY <4>2, <4>4
      <3> QED
        BY <3>1, <3>4, <3>5
    <2> QED
      BY <2>2, <2>3
  <1> QED
    BY <1>4, <1>6

LEMMA StartReader ==
  ASSUME TypeOK, TakenInv, PlaceInv, AllowedInv, CompleteInv, NEW h \in Histories, Reader(h) PROVE StartInv'
  <1>1. UNCHANGED <<plugin, selection, main, unlisted, selected, guild>>
    BY ReaderKeeps
  <1>2. failed \subseteq failed'
    BY DEF Reader, CheckPermission, Request, RequestFails, OutOfRange, TakeMessage, PageDone, SendCollected, Returns,
       SendError
  <1>3. \A b \in Histories : at[b] # None => at'[b] # None
    <2> SUFFICES ASSUME NEW b \in Histories, at[b] # None PROVE at'[b] # None
      OBVIOUS
    <2>1. b = h => at'[b] # None
      BY ReaderOwn
    <2>2. b # h => at'[b] # None
      BY ReaderElse
    <2> QED
      BY <2>1, <2>2
  <1>4. \A g : ChannelsOf(g)' = ChannelsOf(g) /\ ChannelsOf(g) \subseteq Histories
    BY <1>1 DEF ChannelsOf, Asked, Histories
  <1>5. Channels \subseteq Histories
    BY DEF Histories
  <1> QED
    BY <1>1, <1>2, <1>3, <1>4, <1>5 DEF CompleteInv, StartInv, Asked

\* What the other steps do to the readers: they start some, at their beginning.
LEMMA OthersStart ==
  ASSUME TypeOK, PlaceInv, [Next]_vars, \A h \in Histories : ~Reader(h)
  PROVE  /\ failed \subseteq failed'
         /\ \A h \in Histories : at'[h] = at[h] \/ (at[h] = None /\ at'[h] \in {"request", "permission"})
  <1>1. failed \subseteq failed'
    BY DEF Next, Run, ReadLog, FolderWalk, Fetch, readGitLog, LogDoesNotStart, processFileDiff, SendContent, WaitForGit,
       GitFails, BindChannels, processFolders, ShowFolder, NextChild, FoldersDone, ReceiveComponent, handleComponent,
       ComponentsDone, RateLimited, NoAnswer, CloseItems, NotInitialized, StartFails, getChannels, getItems,
       readGuildMessages, SendError, vars
  <1>2. CASE getChannels
    <2>1. main = "start" /\ (at' = at \/ StartReaders(selected'))
      BY <1>2 DEF getChannels
    <2>2. \A h \in Histories : at[h] = None
      BY <2>1 DEF PlaceInv, Idle
    <2> QED
      BY <1>1, <2>1, <2>2 DEF StartReaders
  <1>3. CASE \E g \in Guilds : readGuildMessages(g)
    <2>1. PICK g \in Guilds : readGuildMessages(g)
      BY <1>3
    <2>2. \A c \in ChannelsOf(g) : at[c] = None
      BY <2>1 DEF readGuildMessages, ChannelsOf, PlaceInv, Idle
    <2>3. at' = [h \in Histories |-> IF h \in ChannelsOf(g) THEN "permission" ELSE at[h]]
      BY <2>1 DEF readGuildMessages
    <2> QED
      BY <1>1, <2>2, <2>3
  <1>4. CASE ~getChannels /\ ~\E g \in Guilds : readGuildMessages(g)
    <2>1. at' = at
      BY <1>4 DEF Next, Run, ReadLog, FolderWalk, Fetch, readGitLog, LogDoesNotStart, processFileDiff, SendContent,
         WaitForGit, GitFails, BindChannels, processFolders, ShowFolder, NextChild, FoldersDone, ReceiveComponent,
         handleComponent, ComponentsDone, RateLimited, NoAnswer, CloseItems, NotInitialized, StartFails, getItems, vars,
         readVars
    <2> QED
      BY <1>1, <2>1
  <1> QED
    BY <1>2, <1>3, <1>4

LEMMA ReadOthers ==
  ASSUME TypeOK, PlaceInv, CompleteInv, [Next]_vars, \A h \in Histories : ~Reader(h) PROVE ReadInv' /\ CollectInv'
  <1>1. UNCHANGED <<plugin, selection, maxAge, maxCount, pos, pageEnd, got, last>>
    BY OthersKeepReading
  <1>2. /\ failed \subseteq failed'
        /\ \A h \in Histories : at'[h] = at[h] \/ (at[h] = None /\ at'[h] \in {"request", "permission"})
    BY OthersStart
  <1>3. \A b : (AllTaken(b)' <=> AllTaken(b)) /\ (Allowed(b)' <=> Allowed(b)) /\ Collected(b)' = Collected(b)
    BY <1>1 DEF AllTaken, InRange, Allowed, Asked, Collected
  <1>4. ReadInv'
    BY <1>1, <1>2, <1>3 DEF CompleteInv, ReadInv, Histories
  <1>5. CollectInv'
    <2> SUFFICES ASSUME plugin = "discord", NEW c \in Channels
                 PROVE  /\ \A i \in got[c] : History[c][i].thread # None => at'[History[c][i].thread] # None
                        /\ at'[c] = "end" => \A x \in Collected(c) : sent'[x] = 1
      BY <1>1, <1>3 DEF CollectInv
    <2>1. ASSUME NEW i \in got[c], History[c][i].thread # None PROVE at'[History[c][i].thread] # None
      <3>1. History[c][i].thread \in Histories
        BY <2>1, GotMessages, MessageTypes DEF Histories
      <3> QED
        BY <1>2, <2>1, <3>1 DEF CompleteInv, CollectInv
    <2>2. ASSUME at'[c] = "end", NEW x \in Collected(c) PROVE sent'[x] = 1
      <3>1. at[c] = "end" /\ x \in Messages
        BY <1>2, <2>2, CollectedMessages DEF Histories
      <3> QED
        BY <3>1, OthersSendNoMessage DEF CompleteInv, CollectInv
    <2> QED
      BY <2>1, <2>2
  <1> QED
    BY <1>4, <1>5

\* getChannels stops when every channel asked for is found, or all are listed.
LEMMA StartListing ==
  ASSUME TypeOK, PlaceInv, AllowedInv, CompleteInv, getChannels PROVE StartInv'
  <1>1. /\ plugin = "slack" /\ main = "start" /\ UNCHANGED <<plugin, selection, guild, failed>>
        /\ \E D \in SUBSET unlisted : unlisted' = unlisted \ D /\ selected' = selected \cup {c \in D : Asked(c)}
    BY DEF getChannels, flagVars
  <1>2. unlisted \subseteq Channels /\ selected = {c \in Channels \ unlisted : Asked(c)}
    BY <1>1 DEF TypeOK, ReadTypes, CompleteInv, StartInv
  <1>3. selected' = {c \in Channels \ unlisted' : Asked(c)}
    BY <1>1, <1>2
  <1>4. \A c : Asked(c)' <=> Asked(c)
    BY <1>1 DEF Asked
  <1>5. \A g \in Guilds : guild'[g] = None
    BY <1>1 DEF PlaceInv, Idle
  <1>6. CASE main' = "start"
    BY <1>3, <1>4, <1>5, <1>6 DEF StartInv
  <1>7. CASE main' # "start"
    <2>1. StartReaders(selected')
          /\ (unlisted' = {} \/ (selection # {} /\ Cardinality(selected') = Cardinality(selection)))
      BY <1>1, <1>7 DEF getChannels
    <2>2. \A c \in selected' : at'[c] # None
      <3>1. selected' \subseteq Histories
        BY <1>3 DEF Histories
      <3> QED
        BY <2>1, <3>1 DEF StartReaders
    <2>3. ASSUME NEW c \in Channels, Asked(c) PROVE c \in selected'
      <3>1. CASE unlisted' = {}
        BY <1>3, <2>3, <3>1
      <3>2. CASE selection # {} /\ Cardinality(selected') = Cardinality(selection)
        <4>1. selected' \subseteq selection /\ c \in selection
          BY <1>3, <2>3, <3>2 DEF Asked
        <4>2. IsFiniteSet(selection)
          BY HistoryAssumption DEF HistoryAssumption, TypeOK, FlagTypes
        <4>3. selected' = selection
          BY <3>2, <4>1, <4>2, FS_Subset
        <4> QED
          BY <4>1, <4>3
      <3> QED
        BY <2>1, <3>1, <3>2
    <2> QED
      BY <1>1, <1>4, <1>5, <1>7, <2>2, <2>3 DEF StartInv
  <1> QED
    BY <1>6, <1>7

LEMMA StartOthers ==
  ASSUME TypeOK, PlaceInv, AllowedInv, CompleteInv, [Next]_vars, \A h \in Histories : ~Reader(h) PROVE StartInv'
  <1>1. UNCHANGED <<plugin, selection>>
    BY OthersKeepReading
  <1>2. /\ failed \subseteq failed'
        /\ \A h \in Histories : at[h] # None => at'[h] = at[h]
    BY OthersStart
  <1>3. \A g : ChannelsOf(g)' = ChannelsOf(g) /\ ChannelsOf(g) \subseteq Channels
    BY <1>1 DEF ChannelsOf, Asked
  <1>4. Channels \subseteq Histories /\ guild \in [Guilds -> {None, "started", "done"}]
    BY DEF Histories, TypeOK, ReadTypes
  <1>5. CASE getChannels
    BY <1>5, StartListing
  <1>6. CASE getItems
    <2>1. plugin = "discord" /\ main' = "wait" /\ \A g \in Guilds : guild'[g] = "started"
      BY <1>6 DEF getItems
    <2> QED
      BY <1>1, <2>1 DEF StartInv
  <1>7. CASE \E g \in Guilds : readGuildMessages(g)
    <2>1. PICK g \in Guilds : readGuildMessages(g)
      BY <1>7
    <2>2. /\ guild[g] = "started" /\ guild' = [guild EXCEPT ![g] = "done"] /\ UNCHANGED <<main, failed, unlisted, selected>>
          /\ at' = [h \in Histories |-> IF h \in ChannelsOf(g) THEN "permission" ELSE at[h]]
      BY <2>1 DEF readGuildMessages
    <2>3. plugin = "discord" /\ main # "start"
      BY <2>2 DEF PlaceInv, Idle
    <2>4. \A e \in Guilds : guild[e] # None => guild'[e] # None
      BY <1>4, <2>2
    <2>5. ASSUME NEW e \in Guilds, guild'[e] = "done", NEW c \in ChannelsOf(e) PROVE at'[c] # None
      <3>1. CASE e = g
        BY <1>3, <1>4, <2>2, <2>5, <3>1
      <3>2. CASE e # g
        <4>1. guild[e] = "done"
          BY <1>4, <2>2, <2>5, <3>2
        <4>2. at[c] # None /\ c \in Histories
          BY <1>3, <1>4, <2>5, <4>1 DEF CompleteInv, StartInv
        <4> QED
          BY <1>2, <4>2
      <3> QED
        BY <3>1, <3>2
    <2>6. main \in {"wait", "closed"} /\ plugin \notin failed => \A e \in Guilds : guild'[e] # None
      BY <2>3, <2>4 DEF CompleteInv, StartInv
    <2> QED
      BY <1>1, <1>3, <2>2, <2>3, <2>5, <2>6 DEF StartInv
  <1>8. CASE ~getChannels /\ ~getItems /\ ~\E g \in Guilds : readGuildMessages(g)
    <2>1. UNCHANGED listVars
      BY <1>8 DEF Next, Run, ReadLog, FolderWalk, Fetch, readGitLog, LogDoesNotStart, processFileDiff, SendContent,
         WaitForGit, GitFails, BindChannels, processFolders, ShowFolder, NextChild, FoldersDone, ReceiveComponent,
         handleComponent, ComponentsDone, RateLimited, NoAnswer, CloseItems, NotInitialized, StartFails, vars
    <2>2. UNCHANGED <<unlisted, selected, guild>>
      BY <2>1 DEF listVars
    <2>3. main' = "start" => main = "start"
      BY <1>8 DEF Next, Run, ReadLog, FolderWalk, Fetch, readGitLog, LogDoesNotStart, processFileDiff, SendContent,
         WaitForGit, GitFails, BindChannels, processFolders, ShowFolder, NextChild, FoldersDone, ReceiveComponent,
         handleComponent, ComponentsDone, RateLimited, NoAnswer, CloseItems, NotInitialized, StartFails, vars
    <2>4. main' \in {"wait", "closed"} /\ plugin' \notin failed' => main \in {"wait", "closed"} \/ plugin \in {"paligo", "git"}
      BY <1>1, <1>8 DEF Next, Run, ReadLog, FolderWalk, Fetch, readGitLog, LogDoesNotStart, processFileDiff, SendContent,
         WaitForGit, GitFails, BindChannels, processFolders, ShowFolder, NextChild, FoldersDone, ReceiveComponent,
         handleComponent, ComponentsDone, RateLimited, NoAnswer, CloseItems, NotInitialized, StartFails, vars,
         SendError, PlaceInv, Idle
    <2>5. \A c : Asked(c)' <=> Asked(c)
      BY <1>1 DEF Asked
    <2>6. \A c \in Channels : at[c] # None => at'[c] # None
      BY <1>2, <1>4
    <2>7. \A g \in Guilds : guild'[g] = "done" => \A c \in ChannelsOf(g) : at'[c] # None
      BY <1>3, <2>2, <2>6 DEF CompleteInv, StartInv
    <2>8. main' = "start" => selected' = {c \in Channels \ unlisted' : Asked(c)'}
      BY <2>2, <2>3, <2>5 DEF CompleteInv, StartInv
    <2>9. main' \in {"wait", "closed"} /\ plugin' \notin failed' =>
            /\ plugin' = "slack" => \A c \in Channels : Asked(c)' => at'[c] # None
            /\ plugin' = "discord" => \A g \in Guilds : guild'[g] # None
      BY <1>1, <1>2, <2>2, <2>4, <2>5, <2>6 DEF CompleteInv, StartInv
    <2> QED
      BY <1>3, <2>7, <2>8, <2>9 DEF StartInv
  <1> QED
    BY <1>5, <1>6, <1>7, <1>8

LEMMA CompleteNext ==
  ASSUME TypeOK, TakenInv, PlaceInv, MessagesInv, CompleteInv, [Next]_vars PROVE CompleteInv'
  BY ReadReader, CollectReader, StartReader, ReadOthers, StartOthers DEF CompleteInv, MessagesInv

LEMMA CompleteAlways == Spec => [](SentInv /\ CompleteInv)
  <1>1. Init => CompleteInv
    BY CompleteInit
  <1>2. SentInv /\ CompleteInv /\ [Next]_vars => CompleteInv'
    BY CompleteNext DEF SentInv, PlacesInv
  <1> QED
    BY <1>1, <1>2, SentAlways, PTL DEF Spec

\* A message asked for has been sent when nothing is at work any more, unless it
\* is lost with its channel.
LEMMA WantedMessagesAreSent ==
  ASSUME SentInv, CompleteInv, main = "closed", plugin \notin failed, NEW x \in Messages, Wanted(x), ~Lost(x)
  PROVE  sent[x] = 1
  <1>0. PICK h \in Histories : \E i \in DOMAIN History[h] : x = <<h, i>>
    BY DEF Messages
  <1>1. PICK i \in DOMAIN History[h] : x = <<h, i>>
    BY <1>0
  <1>2. x[1] = h /\ x[2] = i /\ x \notin Components /\ x \notin Contents
    BY <1>1, ItemsAssumption DEF ItemsAssumption
  <1>3. /\ plugin \in {"slack", "discord"} /\ i \in InRange(h)
        /\ IF h \in Channels THEN Allowed(h) /\ (plugin = "slack" => History[h][i].text)
           ELSE /\ plugin = "discord" /\ Allowed(Parent(h))
                /\ \E j \in InRange(Parent(h)) : History[Parent(h)][j].thread = h
    BY <1>2 DEF Wanted, Allowed
  <1>4. h \notin failed /\ (h \in Threads => Parent(h) \notin failed)
    BY <1>2 DEF Lost
  <1>5. \A c \in Channels : at[c] \in {None, "end", "failed"}
    BY ZeroIsIdle, CountsAre DEF SentInv, PlacesInv
  <1>6. \A g \in Guilds : guild[g] # "started" /\ guild[g] \in {None, "started", "done"}
    BY ZeroIsIdle, CountsAre DEF SentInv, PlacesInv, TypeOK, ReadTypes
  <1>7. ASSUME NEW c \in Channels, Allowed(c), c \notin failed PROVE at[c] = "end"
    <2>1. Asked(c)
      BY <1>7 DEF Allowed
    <2>2. at[c] # None
      <3>1. CASE plugin = "slack"
        BY <2>1, <3>1 DEF CompleteInv, StartInv
      <3>2. CASE plugin = "discord"
        <4>1. GuildOf[c] \in Guilds /\ c \in ChannelsOf(GuildOf[c])
          BY <2>1 DEF Guilds, ChannelsOf
        <4>2. guild[GuildOf[c]] = "done"
          BY <1>6, <3>2, <4>1 DEF CompleteInv, StartInv
        <4> QED
          BY <4>1, <4>2 DEF CompleteInv, StartInv
      <3> QED
        BY <1>3, <3>1, <3>2
    <2>3. at[c] # "failed"
      BY <1>7 DEF CompleteInv, ReadInv
    <2> QED
      BY <1>5, <2>2, <2>3
  <1>8. CASE h \in Channels
    <2>1. at[h] = "end" /\ i \in got[h]
      BY <1>3, <1>4, <1>7, <1>8 DEF CompleteInv, ReadInv, AllTaken
    <2>2. CASE plugin = "slack"
      BY <1>1, <1>3, <1>8, <2>1, <2>2 DEF SentInv, MessagesInv, SentMessages
    <2>3. CASE plugin = "discord"
      BY <1>1, <1>8, <2>1, <2>3 DEF CompleteInv, CollectInv, Collected
    <2> QED
      BY <1>3, <2>2, <2>3
  <1>9. CASE h \notin Channels
    <2>1. h \in Threads /\ plugin = "discord" /\ Allowed(Parent(h)) /\ Parent(h) \in Channels
      BY <1>3, <1>9, HistoryAssumption DEF HistoryAssumption, Allowed, Histories
    <2>2. PICK c \in Channels : c = Parent(h)
      BY <2>1
    <2>3. at[c] = "end"
      BY <1>4, <1>7, <2>1, <2>2
    <2>4. PICK j \in InRange(c) : History[c][j].thread = h
      BY <1>3, <1>9, <2>2
    <2>5. j \in got[c]
      BY <2>1, <2>2, <2>3, <2>4 DEF CompleteInv, ReadInv, AllTaken
    <2>6. at[h] # None
      BY <2>1, <2>4, <2>5, HistoryAssumption DEF CompleteInv, CollectInv, HistoryAssumption
    <2>7. at[h] = "end"
      BY <2>1, <2>2, <2>3, <2>6 DEF SentInv, PlacesInv, PlaceInv, ThreadPlaces, Live
    <2>8. i \in got[h]
      BY <1>3, <2>1, <2>7 DEF CompleteInv, ReadInv, AllTaken
    <2>9. x \in Collected(c)
      BY <1>1, <2>1, <2>2, <2>8 DEF Collected
    <2> QED
      BY <2>1, <2>3, <2>9 DEF CompleteInv, CollectInv
  <1> QED
    BY <1>8, <1>9

\* When the items channel is closed, everything asked for has been sent, but for
\* what an error was sent for (getItemsFromChannel, processFolders, scanGit's wait).
THEOREM NothingElseIsLost == Spec => []AllWanted
  <1>1. SentInv /\ CompleteInv => AllWanted
    <2> SUFFICES ASSUME SentInv, CompleteInv, main = "closed", plugin \notin failed, NEW x \in Items, Wanted(x), ~Lost(x)
                 PROVE  sent[x] = 1
      BY DEF AllWanted, SentInv, PlacesInv, TypeOK, FlagTypes
    <2>1. CASE x \in Messages
      BY <2>1, WantedMessagesAreSent
    <2>2. CASE x \in Components
      <3>1. plugin = "paligo"
        BY <2>2 DEF Wanted
      <3>2. offered = Over /\ fetcher = "done" /\ Handled(x)
        BY <2>2, <3>1, ZeroIsIdle, CountsAre DEF SentInv, PlacesInv, WalkInv, WalkComplete
      <3>3. folderQueue = <<>> /\ children = <<>>
        BY <3>2 DEF SentInv, WalkInv, WalkStarted
      <3>4. x # Over /\ x # "done"
        BY <2>2, FolderAssumption DEF FolderAssumption
      <3> QED
        BY <3>2, <3>3, <3>4, BelowEmpty DEF Handled
    <2>3. CASE x \in Contents
      <3>1. x \notin Components
        BY <2>3, ItemsAssumption DEF ItemsAssumption
      <3>2. plugin = "git" /\ Kept(x)
        BY <2>3, <3>1 DEF Wanted, Kept, Forwarded
      <3>3. diffs = <<>> /\ toSend = <<>> /\ ~gitFailed
        BY <3>2 DEF SentInv, LogInv, LogStarted
      <3> QED
        BY <2>3, <3>2, <3>3, EmptyLog DEF SentInv, LogInv, LogComplete, InDiffs
    <2> QED
      BY <2>1, <2>2, <2>3 DEF Items
  <1> QED
    BY <1>1, CompleteAlways, PTL
=============================================================================
