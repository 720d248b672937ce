------------------------------- MODULE Plugins -------------------------------
(***************************************************************************)
(* The plugins that read with several goroutines, from Run to close(items):*)
(* Slack, Discord, Paligo and git (plugins/slack.go, discord.go, paligo.go,*)
(* git.go).  A wait group counts the goroutines; Run waits for it and      *)
(* closes the items channel.                                               *)
(*                                                                         *)
(* Slack and Discord read histories, newest message first, in pages, up to *)
(* an age and a count.  Slack sends each message as it comes; Discord      *)
(* collects a channel with its threads and sends everything at the end.    *)
(* Paligo walks folders in one goroutine and fetches the components it     *)
(* finds in another one.  Git reads the file diffs of a git log in Run and *)
(* forwards its errors in a goroutine.  The services answer with pages of  *)
(* any size, and may fail at any request; git log may end early.           *)
(***************************************************************************)
EXTENDS Integers, SequencesExt

CONSTANTS
    Channels, Threads,
    GuildOf,            \* GuildOf[c]: the guild of channel c
    History,            \* History[h]: messages [age, text, thread], newest first
    Selections,         \* sets of channels to ask for; {} means all
    Readable,           \* the channels the account may read
    Ages, Counts,       \* values of the two limits; 0 means no limit
    PageSize,           \* messages in an answer, at most
    Folders, Components,
    Children,           \* Children[f]: folders and components, in order
    Roots,              \* the folders the scan starts with
    MaxLimited,         \* how often a request is answered with 429
    Commits,            \* the history of HEAD, newest first: commits are sequences of file diffs
    Contents,           \* the contents of all file diffs
    ContentsOf,         \* ContentsOf[d]: what extractChanges makes of the diff, in order
    SkippedDiffs        \* binary ones and ones that are too large

None == "none"
Walking == "walking"    \* the folder goroutine is between two folders
Over == "over"          \* it has closed its channel
Histories == Channels \cup Threads
Guilds == {GuildOf[c] : c \in Channels}
Messages == UNION {{<<h, i>> : i \in DOMAIN History[h]} : h \in Histories}
FileDiffs == DOMAIN ContentsOf

\* a thread hangs on messages of one channel, and threads have no threads
ASSUME HistoryAssumption ==
    /\ IsFiniteSet(Channels) /\ Channels \cap Threads = {} /\ None \notin Threads
    /\ Readable \subseteq Channels /\ DOMAIN GuildOf = Channels /\ DOMAIN History = Histories
    /\ \A h \in Histories :
          History[h] \in Seq([age : Nat, text : BOOLEAN, thread : Threads \cup {None}])
    /\ \A h \in Histories : \A i, j \in DOMAIN History[h] :
            i < j => History[h][i].age <= History[h][j].age
    /\ \A t \in Threads : \A i \in DOMAIN History[t] : History[t][i].thread = None
    /\ \A c, d \in Channels : \A i \in DOMAIN History[c], j \in DOMAIN History[d] :
            History[c][i].thread = History[d][j].thread /\ History[c][i].thread # None => c = d
    /\ \A s \in Selections : IsFiniteSet(s)
    /\ Ages \subseteq Nat /\ Counts \subseteq Nat /\ PageSize \in Nat \ {0} /\ MaxLimited \in Nat

\* Below[x]: x and all that is in it, the smallest set with the contents of its folders
Below ==
    LET Nodes == Folders \cup Components
        Closed(S) == \A f \in S \cap Folders : Range(Children[f]) \subseteq S
    IN  [x \in Nodes |->
            {y \in Nodes : \A S \in SUBSET Nodes : x \in S /\ Closed(S) => y \in S}]

\* the folders and components form a tree, or several, with the roots at the top
ListedApart(list) ==
    \A i, j \in DOMAIN list : i # j => Below[list[i]] \cap Below[list[j]] = {}

ASSUME FolderAssumption ==
    /\ Folders \cap Components = {} /\ DOMAIN Children = Folders
    /\ Components \cap {None, Walking, Over, "receive", "done"} = {}
    /\ Roots \in Seq(Folders) /\ \A f \in Folders : Children[f] \in Seq(Folders \cup Components)
    /\ ListedApart(Roots) /\ \A f \in Folders : ListedApart(Children[f])
    /\ \A x \in Components : \E i \in DOMAIN Roots : x \in Below[Roots[i]]

\* git log -n depth
Logged(depth) ==
    FlattenSeq(IF depth = 0 THEN Commits ELSE SubSeq(Commits, 1, Min({depth, Len(Commits)})))

\* no file diff is logged twice, and no content belongs to two
ASSUME GitAssumption ==
    /\ \A n \in Counts : Logged(n) \in Seq(FileDiffs) /\ IsInjective(Logged(n))
    /\ \A d \in FileDiffs : ContentsOf[d] \in Seq(Contents) /\ IsInjective(ContentsOf[d])
    /\ \A d, e \in FileDiffs : d # e => Range(ContentsOf[d]) \cap Range(ContentsOf[e]) = {}

ASSUME ItemsAssumption ==
    Messages \cap (Components \cup Contents) = {} /\ Components \cap Contents = {}

VARIABLES
    plugin, selection, maxAge, maxCount,
    main, wg,               \* Run; the wait group
    failed,                 \* the parts that an error was sent for
    unlisted, selected,     \* Slack's channels: not yet listed, chosen
    guild,                  \* Discord's guild goroutines
    at, pos, pageEnd, got, last,    \* the readers of the histories
    folderQueue, children,  \* Paligo's folders, and what is left of the present one
    offered, fetcher, limited,      \* the component handed over; the fetching goroutine
    diffs, toSend,          \* git log's file diffs still to come; what is left of the present one
    gitFailed, binder,      \* git's exit status; the goroutine that forwards its errors
    sent                    \* how often each item was sent

flagVars == <<plugin, selection, maxAge, maxCount>>
listVars == <<unlisted, selected, guild>>
readVars == <<at, pos, pageEnd, got, last>>
paligoVars == <<folderQueue, children, offered, fetcher, limited>>
gitVars == <<diffs, toSend, gitFailed, binder>>
vars == <<flagVars, main, wg, failed, listVars, readVars, paligoVars, gitVars, sent>>

Init ==
    /\ plugin \in {"slack", "discord", "paligo", "git"}
    /\ selection \in Selections /\ maxAge \in Ages /\ maxCount \in Counts
    /\ plugin = "paligo" => selection = {} /\ maxAge = 0 /\ maxCount = 0
    /\ plugin = "git" => selection = {} /\ maxAge = 0       \* maxCount is --depth
    /\ main = "start" /\ wg = 0 /\ failed = {}
    /\ unlisted = Channels /\ selected = {}
    /\ guild = [g \in Guilds |-> None]
    /\ at = [h \in Histories |-> None] /\ pos = [h \in Histories |-> 0]
    /\ pageEnd = [h \in Histories |-> 0] /\ got = [h \in Histories |-> {}]
    /\ last = [h \in Histories |-> FALSE]
    /\ folderQueue = <<>> /\ children = <<>> /\ offered = None
    /\ fetcher = None /\ limited = 0
    /\ diffs = <<>> /\ toSend = <<>> /\ gitFailed = FALSE /\ binder = None
    /\ sent = [x \in Messages \cup Components \cup Contents |-> 0]

SendError(x) == failed' = failed \cup {x}

\* Run: wg.Wait() and close(items)
CloseItems ==
    /\ main = "wait" /\ wg = 0 /\ main' = "closed"
    /\ UNCHANGED <<flagVars, wg, failed, listVars, readVars, paligoVars, gitVars, sent>>

\* Run's own checks: the error is sent, and nothing is closed
NotInitialized ==
    /\ main = "start" /\ main' = "left" /\ SendError(plugin)
    /\ plugin = "paligo" \/ (plugin = "discord" /\ maxAge = 0 /\ maxCount = 0)
    /\ UNCHANGED <<flagVars, wg, listVars, readVars, paligoVars, gitVars, sent>>

\* an error before any goroutine was started is sent, and Run goes on
StartFails ==
    /\ main = "start" /\ main' = "wait" /\ SendError(plugin)
    /\ plugin # "git" /\ (plugin = "discord" => maxAge # 0 \/ maxCount # 0)
    /\ UNCHANGED <<flagVars, wg, listVars, readVars, paligoVars, gitVars, sent>>

Asked(c) == selection = {} \/ c \in selection

-----------------------------------------------------------------------------
(* Slack: the channels are listed page by page, until all are found.       *)

StartReaders(chosen) ==
    /\ main' = "wait" /\ wg' = wg + Cardinality(chosen)
    /\ at' = [h \in Histories |-> IF h \in chosen THEN "request" ELSE at[h]]

getChannels ==
    /\ plugin = "slack" /\ main = "start"
    /\ \E D \in SUBSET unlisted :
        /\ D # {} /\ unlisted' = unlisted \ D
        /\ selected' = selected \cup {c \in D : Asked(c)}
    /\ IF unlisted' = {} \/ (selection # {} /\ Cardinality(selected') = Cardinality(selection))
       THEN StartReaders(selected')
       ELSE UNCHANGED <<main, wg, at>>
    /\ UNCHANGED <<flagVars, failed, guild, pos, pageEnd, got, last, paligoVars, gitVars, sent>>

-----------------------------------------------------------------------------
(* Discord: a goroutine per guild starts one per channel.                  *)

getItems ==
    /\ plugin = "discord" /\ main = "start" /\ main' = "wait" /\ (maxAge # 0 \/ maxCount # 0)
    /\ wg' = wg + Cardinality(Guilds)
    /\ guild' = [g \in Guilds |-> "started"]
    /\ UNCHANGED <<flagVars, failed, unlisted, selected, readVars, paligoVars, gitVars, sent>>

ChannelsOf(g) == {c \in Channels : GuildOf[c] = g /\ Asked(c)}

\* mutant: the guild's goroutine starts its channels without counting them
StartUncounted(g) ==
    /\ guild[g] = "started" /\ guild' = [guild EXCEPT ![g] = "done"]
    /\ wg' = wg - 1
    /\ at' = [h \in Histories |-> IF h \in ChannelsOf(g) THEN "permission" ELSE at[h]]
    /\ UNCHANGED <<flagVars, main, failed, unlisted, selected, pos, pageEnd, got, last,
                   paligoVars, gitVars, sent>>

readGuildMessages(g) ==
    /\ guild[g] = "started" /\ guild' = [guild EXCEPT ![g] = "done"]
    /\ wg' = wg + Cardinality(ChannelsOf(g)) - 1
    /\ at' = [h \in Histories |-> IF h \in ChannelsOf(g) THEN "permission" ELSE at[h]]
    /\ UNCHANGED <<flagVars, main, failed, unlisted, selected, pos, pageEnd, got, last,
                   paligoVars, gitVars, sent>>

CheckPermission(c) ==
    /\ at[c] = "permission"
    /\ IF c \in Readable THEN at' = [at EXCEPT ![c] = "request"] /\ UNCHANGED wg
                         ELSE at' = [at EXCEPT ![c] = "end"] /\ wg' = wg - 1
    /\ UNCHANGED <<flagVars, main, failed, listVars, pos, pageEnd, got, last, paligoVars, gitVars, sent>>

-----------------------------------------------------------------------------
(* Reading a history.                                                      *)

\* mutant: only messages with a text are counted
CountTexts(h) ==
    /\ maxCount # 0
    /\ Cardinality({i \in got[h] : History[h][i].text}) >= maxCount

CountReached(h) == maxCount # 0 /\ Cardinality(got[h]) >= maxCount
TooOld(h) == maxAge # 0 /\ History[h][pos[h] + 1].age > maxAge

Parent(t) == CHOOSE c \in Channels : \E i \in DOMAIN History[c] : History[c][i].thread = t

\* a thread is read within the reading of its channel
Returns(h, how) ==
    IF h \in Threads
    THEN /\ at' = [at EXCEPT ![h] = how,
                             ![Parent(h)] = IF how = "end" THEN "page" ELSE "fail"]
         /\ UNCHANGED <<wg, failed>>
    ELSE /\ at' = [at EXCEPT ![h] = how] /\ wg' = wg - 1
         /\ IF how = "failed" THEN SendError(h) ELSE UNCHANGED failed

\* Discord asks once more when it is done, and stops at an empty answer
Request(h) ==
    /\ at[h] = "request"
    /\ \E n \in 0..PageSize :
        /\ pageEnd[h] + n <= Len(History[h])
        /\ n = 0 => pageEnd[h] = Len(History[h])
        /\ pageEnd' = [pageEnd EXCEPT ![h] = @ + n]
        /\ IF plugin = "discord" /\ (n = 0 \/ last[h])
           THEN IF h \in Threads THEN Returns(h, "end")
                ELSE at' = [at EXCEPT ![h] = "send"] /\ UNCHANGED <<wg, failed>>
           ELSE at' = [at EXCEPT ![h] = "page"] /\ UNCHANGED <<wg, failed>>
    /\ UNCHANGED <<flagVars, main, listVars, pos, got, last, paligoVars, gitVars, sent>>

RequestFails(h) ==
    /\ at[h] \in {"request", "permission", "fail"}
    /\ Returns(h, "failed")
    /\ UNCHANGED <<flagVars, main, listVars, pos, pageEnd, got, last, paligoVars, gitVars, sent>>

Send(x) == sent' = [sent EXCEPT ![x] = @ + 1]

InPage(h) == at[h] = "page" /\ pos[h] < pageEnd[h]

\* Slack breaks out of the page and goes on with the next; Discord stops
OutOfRange(h) ==
    /\ InPage(h) /\ (TooOld(h) \/ CountReached(h))
    /\ pos' = [pos EXCEPT ![h] = pageEnd[h]]
    /\ last' = [last EXCEPT ![h] = TRUE]
    /\ UNCHANGED <<flagVars, main, wg, failed, listVars, at, pageEnd, got, paligoVars, gitVars, sent>>

TakeMessage(h) ==
    /\ InPage(h) /\ ~TooOld(h) /\ ~CountReached(h)
    /\ LET m == History[h][pos[h] + 1]
           unread == plugin = "discord" /\ m.thread # None /\ at[m.thread] = None
       IN  IF unread
           THEN /\ at' = [at EXCEPT ![h] = "thread", ![m.thread] = "request"]
                /\ UNCHANGED <<pos, got, sent>>
           ELSE /\ pos' = [pos EXCEPT ![h] = @ + 1]
                /\ got' = [got EXCEPT ![h] = @ \cup {pos[h] + 1}]
                /\ IF plugin = "slack" /\ m.text THEN Send(<<h, pos[h] + 1>>) ELSE UNCHANGED sent
                /\ UNCHANGED at
    /\ UNCHANGED <<flagVars, main, wg, failed, listVars, pageEnd, last, paligoVars, gitVars>>

PageDone(h) ==
    /\ at[h] = "page" /\ pos[h] = pageEnd[h]
    /\ IF plugin = "slack" /\ pageEnd[h] = Len(History[h])
       THEN Returns(h, "end")
       ELSE at' = [at EXCEPT ![h] = "request"] /\ UNCHANGED <<wg, failed>>
    /\ UNCHANGED <<flagVars, main, listVars, pos, pageEnd, got, last, paligoVars, gitVars, sent>>

\* messages of the channel, then those of its threads
Collected(c) ==
    {<<c, i>> : i \in got[c]}
        \cup UNION {{<<t, i>> : i \in got[t]} : t \in {u \in Threads : Parent(u) = c}}

SendCollected(c) ==
    /\ at[c] = "send"
    /\ LET unsent == {x \in Collected(c) : sent[x] = 0}
       IN  IF unsent # {}
           THEN (\E x \in unsent : Send(x)) /\ UNCHANGED <<at, wg, failed>>
           ELSE Returns(c, "end") /\ UNCHANGED sent
    /\ UNCHANGED <<flagVars, main, listVars, pos, pageEnd, got, last, paligoVars, gitVars>>

-----------------------------------------------------------------------------
(* Paligo.                                                                 *)

processFolders ==
    /\ plugin = "paligo" /\ main = "start" /\ main' = "wait" /\ wg' = wg + 2
    /\ folderQueue' = Roots /\ offered' = Walking /\ fetcher' = "receive"
    /\ UNCHANGED <<flagVars, failed, listVars, readVars, children, limited, gitVars, sent>>

\* 429 with a Retry-After: the goroutine sleeps and asks again
RateLimited ==
    /\ main # "crashed"
    /\ fetcher \in Components \/ (offered = Walking /\ children = <<>> /\ folderQueue # <<>>)
    /\ limited < MaxLimited /\ limited' = limited + 1
    /\ UNCHANGED <<flagVars, main, wg, failed, listVars, readVars, folderQueue, children,
                   offered, fetcher, gitVars, sent>>

\* There is no answer whose status could be looked at: the goroutine panics, and
\* the process ends.
NoAnswer ==
    /\ plugin = "paligo" /\ main # "crashed" /\ main' = "crashed"
    /\ \/ main = "start" \/ fetcher \in Components
       \/ offered = Walking /\ children = <<>> /\ folderQueue # <<>>
    /\ UNCHANGED <<flagVars, wg, failed, listVars, readVars, paligoVars, gitVars, sent>>

\* mutant: after an error the folders still in the queue are given up
GiveUpFolders ==
    /\ offered = Walking /\ children = <<>> /\ folderQueue # <<>>
    /\ \/ children' = Children[Head(folderQueue)] /\ folderQueue' = Tail(folderQueue)
          /\ UNCHANGED failed
       \/ SendError(Head(folderQueue)) /\ folderQueue' = <<>> /\ UNCHANGED children
    /\ UNCHANGED <<flagVars, main, wg, listVars, readVars, offered, fetcher, limited, gitVars, sent>>

\* a folder that cannot be shown is reported and left out
ShowFolder ==
    /\ offered = Walking /\ children = <<>> /\ folderQueue # <<>>
    /\ folderQueue' = Tail(folderQueue)
    /\ \/ children' = Children[Head(folderQueue)] /\ UNCHANGED failed
       \/ SendError(Head(folderQueue)) /\ UNCHANGED children
    /\ UNCHANGED <<flagVars, main, wg, listVars, readVars, offered, fetcher, limited, gitVars, sent>>

NextChild ==
    /\ offered = Walking /\ children # <<>> /\ children' = Tail(children)
    /\ IF Head(children) \in Folders
       THEN folderQueue' = Append(folderQueue, Head(children)) /\ UNCHANGED offered
       ELSE offered' = Head(children) /\ UNCHANGED folderQueue
    /\ UNCHANGED <<flagVars, main, wg, failed, listVars, readVars, fetcher, limited, gitVars, sent>>

\* mutant: the channel of components is left open
LeaveOpen ==
    /\ offered = Walking /\ children = <<>> /\ folderQueue = <<>>
    /\ offered' = None /\ wg' = wg - 1
    /\ UNCHANGED <<flagVars, main, failed, listVars, readVars, folderQueue, children,
                   fetcher, limited, gitVars, sent>>

\* close(itemsChan)
FoldersDone ==
    /\ offered = Walking /\ children = <<>> /\ folderQueue = <<>>
    /\ offered' = Over /\ wg' = wg - 1
    /\ UNCHANGED <<flagVars, main, failed, listVars, readVars, folderQueue, children,
                   fetcher, limited, gitVars, sent>>

ReceiveComponent ==
    /\ fetcher = "receive" /\ offered \in Components
    /\ fetcher' = offered /\ offered' = Walking
    /\ UNCHANGED <<flagVars, main, wg, failed, listVars, readVars, folderQueue, children,
                   limited, gitVars, sent>>

handleComponent ==
    /\ fetcher \in Components /\ fetcher' = "receive"
    /\ \/ Send(fetcher) /\ UNCHANGED failed
       \/ SendError(fetcher) /\ UNCHANGED sent
    /\ UNCHANGED <<flagVars, main, wg, listVars, readVars, folderQueue, children, offered,
                   limited, gitVars>>

ComponentsDone ==
    /\ fetcher = "receive" /\ offered = Over
    /\ fetcher' = "done" /\ wg' = wg - 1
    /\ UNCHANGED <<flagVars, main, failed, listVars, readVars, folderQueue, children,
                   offered, limited, gitVars, sent>>

-----------------------------------------------------------------------------
(* Git.                                                                    *)

readGitLog ==
    /\ plugin = "git" /\ main = "start" /\ main' = "log" /\ wg' = wg + 1
    /\ diffs' = Logged(maxCount) /\ binder' = "forward"
    /\ UNCHANGED <<flagVars, failed, listVars, readVars, paligoVars, toSend, gitFailed, sent>>

\* the error is sent, and then the log that there is not is asked for its channel
LogDoesNotStart ==
    /\ plugin = "git" /\ main = "start" /\ main' = "crashed" /\ SendError("git")
    /\ wg' = wg + 1
    /\ UNCHANGED <<flagVars, listVars, readVars, paligoVars, gitVars, sent>>

\* git ends early, with an exit status
GitFails ==
    /\ main = "log" /\ binder = "forward" /\ ~gitFailed /\ gitFailed' = TRUE
    /\ \E n \in 0..Len(diffs) : diffs' = SubSeq(diffs, 1, n)
    /\ UNCHANGED <<flagVars, main, wg, failed, listVars, readVars, paligoVars, toSend, binder, sent>>

processFileDiff ==
    /\ main = "log" /\ toSend = <<>> /\ diffs # <<>> /\ diffs' = Tail(diffs)
    /\ toSend' = IF Head(diffs) \in SkippedDiffs THEN <<>> ELSE ContentsOf[Head(diffs)]
    /\ UNCHANGED <<flagVars, main, wg, failed, listVars, readVars, paligoVars, gitFailed, binder, sent>>

SendContent ==
    /\ main = "log" /\ toSend # <<>> /\ toSend' = Tail(toSend) /\ Send(Head(toSend))
    /\ UNCHANGED <<flagVars, main, wg, failed, listVars, readVars, paligoVars, diffs, gitFailed,
                   binder>>

\* the deferred wait of scanGit
WaitForGit ==
    /\ main = "log" /\ toSend = <<>> /\ diffs = <<>> /\ main' = "wait"
    /\ IF gitFailed THEN SendError("git") ELSE UNCHANGED failed
    /\ UNCHANGED <<flagVars, wg, listVars, readVars, paligoVars, gitVars, sent>>

\* what git wrote to stderr is one error, sent when git is over
BindChannels ==
    /\ binder = "forward" /\ binder' = "done" /\ wg' = wg - 1
    /\ SendError("git") \/ UNCHANGED failed
    /\ UNCHANGED <<flagVars, main, listVars, readVars, paligoVars, diffs, toSend, gitFailed, sent>>

-----------------------------------------------------------------------------
Reader(h) ==
    \/ CheckPermission(h) \/ Request(h) \/ RequestFails(h)
    \/ OutOfRange(h) \/ TakeMessage(h) \/ PageDone(h) \/ SendCollected(h)

FolderWalk == main # "crashed" /\ (ShowFolder \/ NextChild \/ FoldersDone)
Fetch == main # "crashed" /\ (ReceiveComponent \/ handleComponent \/ ComponentsDone)
ReadLog == readGitLog \/ LogDoesNotStart \/ processFileDiff \/ SendContent \/ WaitForGit
Run == getChannels \/ getItems \/ processFolders \/ ReadLog \/ NotInitialized \/ StartFails \/ CloseItems

Next ==
    \/ Run \/ FolderWalk \/ Fetch \/ RateLimited \/ NoAnswer \/ GitFails \/ BindChannels
    \/ \E g \in Guilds : readGuildMessages(g)
    \/ \E h \in Histories : Reader(h)

\* every goroutine runs when it can; services answer, be it with an error, and
\* do not answer with 429 for ever
Fairness ==
    /\ WF_vars(Run) /\ WF_vars(FolderWalk) /\ WF_vars(Fetch) /\ WF_vars(BindChannels)
    /\ \A g \in Guilds : WF_vars(readGuildMessages(g))
    /\ \A h \in Histories : WF_vars(Reader(h))

Spec == Init /\ [][Next]_vars /\ Fairness

-----------------------------------------------------------------------------
\* The wait group counts the goroutines that are still at work, so the items
\* channel is closed after the last of them: no guild, channel, folder walk, fetch
\* or git log may still be running then (the Add and Done of all four plugins).
WaitGroupCounts ==
    /\ main # "crashed" =>
           wg = Cardinality({c \in Channels : at[c] \notin {None, "end", "failed"}})
                + Cardinality({g \in Guilds : guild[g] = "started"})
                + (IF offered \in {None, Over} THEN 0 ELSE 1)
                + (IF fetcher \in {None, "done"} THEN 0 ELSE 1)
                + (IF binder = "forward" THEN 1 ELSE 0)
    /\ main = "closed" => wg = 0

\* the messages of h that the limits let through
InRange(h) ==
    {i \in DOMAIN History[h] : /\ maxAge # 0 => History[h][i].age <= maxAge
                               /\ maxCount # 0 => i <= maxCount}

\* what the user asked for
Wanted(x) ==
    IF x \in Components THEN plugin = "paligo"
    ELSE IF x \in Contents
    THEN plugin = "git" /\ \E d \in Range(Logged(maxCount)) \ SkippedDiffs : x \in Range(ContentsOf[d])
    ELSE LET h == x[1]
             ok(c) == Asked(c) /\ (plugin = "discord" => c \in Readable)
         IN  /\ plugin \in {"slack", "discord"} /\ x[2] \in InRange(h)
             /\ IF h \in Channels
                THEN ok(h) /\ (plugin = "slack" => History[h][x[2]].text)
                ELSE /\ plugin = "discord" /\ ok(Parent(h))
                     /\ \E i \in InRange(Parent(h)) : History[Parent(h)][i].thread = h

\* Nothing is sent twice, and nothing that was not asked for: not a message
\* beyond the age or the count, wherever the pages end (isMessageOutOfRange,
\* getMessages).
OnlyWanted == \A x \in DOMAIN sent : sent[x] <= (IF Wanted(x) THEN 1 ELSE 0)

\* lost with the part that failed: a component with a folder, a message with a channel
Lost(x) ==
    IF x \in Contents THEN FALSE
    ELSE IF x \in Components THEN \E y \in failed \cap DOMAIN Below : x \in Below[y]
    ELSE x[1] \in failed \/ (x[1] \in Threads /\ Parent(x[1]) \in failed)

\* When the items channel is closed, everything asked for has been sent, but for
\* what belongs to a channel, folder or component an error was sent for: one
\* failure takes nothing else away (getItemsFromChannel, processFolders).  A git
\* log that ends early has reported it by then (scanGit's wait).
AllWanted ==
    main = "closed" /\ plugin \notin failed =>
        \A x \in DOMAIN sent : Wanted(x) /\ ~Lost(x) => sent[x] = 1

\* The items channel is closed in the end, whatever fails, or Run has left with an
\* error for the listener to end the process, or a panic has ended it: nobody waits
\* for a plugin that has silently stopped (the Run functions, processFolders).
PluginEnds == <>(main \in {"closed", "crashed"} \/ (main = "left" /\ failed = {plugin}))
=============================================================================
