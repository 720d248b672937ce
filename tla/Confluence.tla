------------------------------ MODULE Confluence ------------------------------
(***************************************************************************)
(* A scan of Confluence (plugins/confluence.go, confluence_client.go): the *)
(* site is found, the space keys are resolved, then the pages of the       *)
(* selected spaces and the selected pages are walked (or all pages, when   *)
(* nothing is selected).  A walk sends one request for each batch of IDs   *)
(* and follows the cursors of the answers; pages are emitted while an      *)
(* answer is still being decoded, and the older versions of a page before  *)
(* the next page is.                                                       *)
(*                                                                         *)
(* The service decides which pages an answer brings, where it puts the     *)
(* next cursor, and whether it answers at all; it may repeat a page.       *)
(* Pages are edited during the scan.  A page, a list of versions and an    *)
(* old version count as one unit of data each.                             *)
(***************************************************************************)
EXTENDS Integers, FiniteSetsExt

CONSTANTS
    Pages, Spaces,
    SpaceOf,            \* SpaceOf[p]: the space of page p
    Visible, Listed,    \* the pages and the spaces the account may read
    Invalid,            \* selected IDs that isValidNumericID rejects
    Selections,         \* what the user may select: [ids, keys, pages]
    FirstVersion, MaxVersion,   \* versions before and after all edits
    TooLarge,           \* <<page, version>> with a body over the limit
    PerRequest,         \* IDs in one request (250)
    APILimit, TotalLimit    \* the limits, when they are set

ASSUME ConfluenceAssumption ==
    /\ SpaceOf \in [Pages -> Spaces] /\ Visible \subseteq Pages /\ Listed \subseteq Spaces
    /\ \A s \in Selections : /\ s.ids \subseteq Spaces \cup Invalid
                             /\ s.keys \subseteq Spaces
                             /\ s.pages \subseteq Pages \cup Invalid
    /\ Invalid \cap (Spaces \cup Pages) = {}
    /\ FirstVersion \in [Pages -> Nat \ {0}] /\ MaxVersion \in [Pages -> Nat]
    /\ \A p \in Pages : FirstVersion[p] <= MaxVersion[p]
    /\ PerRequest \in Nat \ {0} /\ APILimit \in Nat \ {0} /\ TotalLimit \in Nat \ {0}

VARIABLES
    sel, History, maxAPIResponse, maxTotalScan,     \* flags; 0 is no limit
    version,            \* the service: the current version of each page
    phase, todo,        \* the walks: IDs not yet asked for
    at,                 \* the walk: idle, request, decode, versions, version
    rest,               \* what it still has to be told
    wire, next,         \* the present answer: pages left in it, its cursor
    apiConsumed, totalScanBytes, apiResponseLimitHit,
    visiting, unlisted, toFetch,    \* the page whose history is read
    returnedPageIDs, returnedSpaceIDs, resolvedSpaceKeys,
    emitted,            \* how often each version of each page was
    err, outcome, warned

flagVars == <<sel, History, maxAPIResponse, maxTotalScan>>
answerVars == <<wire, next, apiConsumed>>
historyVars == <<visiting, unlisted, toFetch>>
seenVars == <<returnedPageIDs, returnedSpaceIDs, emitted>>
endVars == <<err, outcome, warned>>
vars == <<flagVars, version, phase, todo, at, rest, answerVars, totalScanBytes,
          apiResponseLimitHit, historyVars, seenVars, resolvedSpaceKeys, endVars>>

None == <<>>
All == {"all"}
Versions == UNION {{p} \X (1..MaxVersion[p]) : p \in Pages}

Init ==
    /\ sel \in Selections /\ History \in BOOLEAN
    /\ maxAPIResponse \in {0, APILimit} /\ maxTotalScan \in {0, TotalLimit}
    /\ version = FirstVersion
    /\ phase = "connect" /\ todo = {} /\ at = "request"
    /\ rest = {} /\ wire = {} /\ next = "none"
    /\ apiConsumed = 0 /\ totalScanBytes = 0 /\ apiResponseLimitHit = FALSE
    /\ visiting = None /\ unlisted = {} /\ toFetch = {}
    /\ returnedPageIDs = {} /\ returnedSpaceIDs = {} /\ resolvedSpaceKeys = {}
    /\ emitted = [pv \in Versions |-> 0]
    /\ err = "none" /\ outcome = "running" /\ warned = {}

Running == outcome = "running"

\* one unit of data; beyond the limit the amount makes no difference
Counted(n) == IF maxTotalScan = 0 THEN 0 ELSE Min({n, maxTotalScan + 1})
OverTotal(n) == maxTotalScan > 0 /\ n > maxTotalScan
OverAPI(n) == maxAPIResponse > 0 /\ n > maxAPIResponse

\* walkAndEmitPages: the total limit closes the items channel, an error does not
Stop(e) == outcome' = (IF e = "total" THEN "stopped" ELSE "failed") /\ err' = e

EditPage(p) ==
    /\ Running /\ version[p] < MaxVersion[p]
    /\ version' = [version EXCEPT ![p] = @ + 1]
    /\ UNCHANGED <<flagVars, phase, todo, at, rest, answerVars, totalScanBytes,
                   apiResponseLimitHit, historyVars, seenVars, resolvedSpaceKeys, endVars>>

-----------------------------------------------------------------------------
(* The walks.                                                              *)

\* NewConfluenceClient asks for the cloud ID; without one the command does not run
Connect ==
    /\ Running /\ phase = "connect" /\ at = "request"
    /\ phase' = "keys" /\ todo' = sel.keys /\ at' = "idle"
    /\ UNCHANGED <<flagVars, version, rest, answerVars, totalScanBytes,
                   apiResponseLimitHit, historyVars, seenVars, resolvedSpaceKeys, endVars>>

isValidNumericID(x) == x \notin Invalid

ValidIDs(set) == {x \in set : isValidNumericID(x)}

NothingSelected == sel.ids = {} /\ sel.keys = {} /\ sel.pages = {}

NextPhase ==
    /\ Running /\ at = "idle" /\ todo = {} /\ phase # "finish"
    /\ \/ phase = "keys" /\ phase' = "spaces"
          /\ todo' = ValidIDs(sel.ids) \cup resolvedSpaceKeys
       \/ phase = "spaces" /\ phase' = "pages" /\ todo' = ValidIDs(sel.pages)
       \/ phase = "pages" /\ phase' = "all" /\ todo' = IF NothingSelected THEN All ELSE {}
       \/ phase = "all" /\ phase' = "finish" /\ todo' = {}
    /\ UNCHANGED <<flagVars, version, at, rest, answerVars, totalScanBytes,
                   apiResponseLimitHit, historyVars, seenVars, resolvedSpaceKeys, endVars>>

Matching(batch) ==
    CASE phase = "keys" -> batch \cap Listed
      [] phase = "spaces" -> {p \in Visible : SpaceOf[p] \in batch}
      [] phase = "pages" -> batch \cap Visible
      [] phase = "all" -> Visible

StartWalk ==
    /\ Running /\ at = "idle"
    /\ \E batch \in kSubset(Min({PerRequest, Cardinality(todo)}), todo) :
        /\ batch # {} /\ todo' = todo \ batch /\ rest' = Matching(batch)
    /\ at' = "request"
    /\ UNCHANGED <<flagVars, version, phase, answerVars, totalScanBytes,
                   apiResponseLimitHit, historyVars, seenVars, resolvedSpaceKeys, endVars>>

\* no answer, one that breaks off, or any status but 2xx, 429 included: nothing is
\* tried again
RequestFails ==
    /\ Running /\ at \in {"request", "decode", "versions", "version"}
    /\ Stop("service")
    /\ UNCHANGED <<flagVars, version, phase, todo, at, rest, answerVars, totalScanBytes,
                   apiResponseLimitHit, historyVars, seenVars, resolvedSpaceKeys, warned>>

\* a part of what the walk still has to be told; a cursor leads to the rest
Part(D) == D \subseteq rest /\ (D = {} => rest = {})

AnswerSpaces ==
    /\ Running /\ at = "request" /\ phase = "keys"
    /\ totalScanBytes' = Counted(totalScanBytes + 1)
    /\ IF OverTotal(totalScanBytes')
       THEN Stop("total") /\ UNCHANGED <<at, rest, resolvedSpaceKeys>>
       ELSE /\ \E D \in SUBSET rest : /\ Part(D) /\ rest' = rest \ D
                                      /\ resolvedSpaceKeys' = resolvedSpaceKeys \cup D
            /\ at' = IF rest' = {} THEN "idle" ELSE "request"
            /\ UNCHANGED <<err, outcome>>
    /\ UNCHANGED <<flagVars, version, phase, todo, answerVars, apiResponseLimitHit,
                   historyVars, seenVars, warned>>

AnswerPages ==
    /\ Running /\ at = "request" /\ phase \in {"spaces", "pages", "all"}
    /\ \E D \in SUBSET rest, again \in {{}} \cup {{p} : p \in returnedPageIDs} :
        /\ Part(D) /\ rest' = rest \ D
        /\ wire' = {<<p, version[p]>> : p \in D \cup again}
    /\ next' \in IF rest' = {} THEN {"none"} ELSE {"header", "body"}
    /\ apiConsumed' = 0 /\ at' = "decode"
    /\ UNCHANGED <<flagVars, version, phase, todo, totalScanBytes, apiResponseLimitHit,
                   historyVars, seenVars, resolvedSpaceKeys, endVars>>

-----------------------------------------------------------------------------
(* Decoding an answer.  A Read that goes over a limit still delivers its   *)
(* data: the decoder uses it, and forgets the error if that completes the  *)
(* value it needs.  So a page beyond a limit may be decoded or not.        *)

DataRead(n) ==
    /\ apiConsumed' = IF maxAPIResponse = 0 THEN 0 ELSE Min({apiConsumed + n, maxAPIResponse + 1})
    /\ totalScanBytes' = IF OverAPI(apiConsumed + n) THEN totalScanBytes
                         ELSE Counted(totalScanBytes + n)

Emit(pv) == emitted' = [emitted EXCEPT ![pv] = @ + 1]

\* mutant: a page is marked only when its body is not too large
EmitUniqueUnlessLarge(pv) ==
    IF pv[1] \in returnedPageIDs \/ pv \in TooLarge
    THEN at' = at /\ UNCHANGED <<seenVars, visiting, unlisted>>
    ELSE /\ returnedPageIDs' = returnedPageIDs \cup {pv[1]}
         /\ returnedSpaceIDs' = returnedSpaceIDs \cup {SpaceOf[pv[1]]}
         /\ Emit(pv)
         /\ IF History THEN at' = "versions" /\ visiting' = pv /\ unlisted' = {0}
                       ELSE at' = at /\ UNCHANGED <<visiting, unlisted>>

emitUniquePage(pv) ==
    IF pv[1] \in returnedPageIDs
    THEN at' = at /\ UNCHANGED <<seenVars, visiting, unlisted>>
    ELSE /\ returnedPageIDs' = returnedPageIDs \cup {pv[1]}
         /\ returnedSpaceIDs' = returnedSpaceIDs \cup {SpaceOf[pv[1]]}
         /\ IF pv \in TooLarge THEN UNCHANGED emitted ELSE Emit(pv)
         /\ IF pv \notin TooLarge /\ History
            THEN at' = "versions" /\ visiting' = pv /\ unlisted' = {0}
            ELSE at' = at /\ UNCHANGED <<visiting, unlisted>>

DecodePage(pv) ==
    /\ Running /\ at = "decode"
    /\ wire' = wire \ {pv} /\ DataRead(1)
    /\ emitUniquePage(pv)
    /\ UNCHANGED <<flagVars, version, phase, todo, rest, next, apiResponseLimitHit,
                   toFetch, resolvedSpaceKeys, endVars>>

\* the answer's last bytes, or the beginning of a page
Ahead == IF wire = {} THEN 0 ELSE 1

\* mutant: without a cursor in its header the answer is asked for again
AskAgain ==
    /\ Running /\ at = "decode" /\ OverAPI(apiConsumed + Ahead)
    /\ apiResponseLimitHit' = TRUE
    /\ wire' = {} /\ apiConsumed' = 0 /\ next' = "none" /\ at' = "request"
    /\ rest' = IF next = "header" THEN rest ELSE rest \cup {pv[1] : pv \in wire}
    /\ UNCHANGED <<flagVars, version, phase, todo, totalScanBytes, historyVars, seenVars,
                   resolvedSpaceKeys, endVars>>

\* handleStreamError: an answer that is too large is given up; only a cursor
\* in its header is known by then
ResponseTooLarge ==
    /\ Running /\ at = "decode" /\ OverAPI(apiConsumed + Ahead)
    /\ apiResponseLimitHit' = TRUE
    /\ wire' = {} /\ apiConsumed' = 0 /\ next' = "none"
    /\ IF next = "header" THEN at' = "request" /\ UNCHANGED rest
                          ELSE at' = "idle" /\ rest' = {}
    /\ UNCHANGED <<flagVars, version, phase, todo, totalScanBytes, historyVars, seenVars,
                   resolvedSpaceKeys, endVars>>

TotalExceeded ==
    /\ Running /\ at = "decode"
    /\ ~OverAPI(apiConsumed + Ahead) /\ OverTotal(totalScanBytes + Ahead)
    /\ totalScanBytes' = Counted(totalScanBytes + Ahead) /\ Stop("total")
    /\ UNCHANGED <<flagVars, version, phase, todo, at, rest, answerVars,
                   apiResponseLimitHit, historyVars, seenVars, resolvedSpaceKeys, warned>>

\* mutant: only the header is looked at
HeaderCursor == next = "header"

HasCursor == next \in {"header", "body"}

EndOfAnswer ==
    /\ Running /\ at = "decode" /\ wire = {}
    /\ IF HasCursor THEN at' = "request" /\ UNCHANGED rest
                    ELSE at' = "idle" /\ rest' = {}
    /\ next' = "none" /\ apiConsumed' = 0
    /\ UNCHANGED <<flagVars, version, phase, todo, wire, totalScanBytes,
                   apiResponseLimitHit, historyVars, seenVars, resolvedSpaceKeys, endVars>>

-----------------------------------------------------------------------------
(* The history of a page (emitHistory): its versions are listed, part by   *)
(* part, and each but the one emitted already is fetched.  A total limit   *)
(* met here passes through the decoder of the answer the page came with.   *)

\* 0 stands for the first request: the list is made when it arrives.  It is assumed
\* to name each version once; emitHistory would fetch a repeated one again.
Unlisted == IF unlisted = {0} THEN 1..version[visiting[1]] ELSE unlisted

\* mutant: the current version is not left out
FetchAll(D) == D

ToFetch(D) == D \ {visiting[2]}

ListVersions ==
    /\ Running /\ at = "versions"
    /\ totalScanBytes' = Counted(totalScanBytes + 1)
    /\ IF OverTotal(totalScanBytes')
       THEN Stop("total") /\ UNCHANGED <<at, unlisted, toFetch>>
       ELSE /\ \E D \in SUBSET Unlisted : /\ D # {} /\ unlisted' = Unlisted \ D
                                          /\ toFetch' = ToFetch(D)
            /\ at' = "version" /\ UNCHANGED <<err, outcome>>
    /\ UNCHANGED <<flagVars, version, phase, todo, rest, answerVars, apiResponseLimitHit,
                   visiting, seenVars, resolvedSpaceKeys, warned>>

FetchVersion(n) ==
    /\ Running /\ at = "version"
    /\ totalScanBytes' = Counted(totalScanBytes + 1)
    /\ IF OverTotal(totalScanBytes')
       THEN Stop("total") /\ UNCHANGED <<toFetch, emitted>>
       ELSE /\ toFetch' = toFetch \ {n}
            /\ IF <<visiting[1], n>> \in TooLarge THEN UNCHANGED emitted
                                                  ELSE Emit(<<visiting[1], n>>)
            /\ UNCHANGED <<err, outcome>>
    /\ UNCHANGED <<flagVars, version, phase, todo, at, rest, answerVars,
                   apiResponseLimitHit, visiting, unlisted, returnedPageIDs,
                   returnedSpaceIDs, resolvedSpaceKeys, warned>>

VersionsFetched ==
    /\ Running /\ at = "version" /\ toFetch = {}
    /\ IF unlisted = {} THEN at' = "decode" /\ visiting' = None
                        ELSE at' = "versions" /\ UNCHANGED visiting
    /\ UNCHANGED <<flagVars, version, phase, todo, rest, answerVars, totalScanBytes,
                   apiResponseLimitHit, unlisted, toFetch, seenVars, resolvedSpaceKeys,
                   endVars>>

-----------------------------------------------------------------------------
\* missingSelectorsWarningMessage
missingSelectors ==
    (sel.pages \ returnedPageIDs) \cup (sel.keys \ resolvedSpaceKeys)
        \cup (sel.ids \ returnedSpaceIDs)

Finish ==
    /\ Running /\ phase = "finish"
    /\ warned' = missingSelectors /\ outcome' = "done"
    /\ UNCHANGED <<flagVars, version, phase, todo, at, rest, answerVars, totalScanBytes,
                   apiResponseLimitHit, historyVars, seenVars, resolvedSpaceKeys, err>>

Scan ==
    \/ Connect \/ NextPhase \/ StartWalk \/ RequestFails \/ AnswerSpaces \/ AnswerPages
    \/ ResponseTooLarge \/ TotalExceeded \/ EndOfAnswer
    \/ ListVersions \/ VersionsFetched \/ Finish
    \/ \E pv \in wire : DecodePage(pv)
    \/ \E n \in toFetch : FetchVersion(n)

Next == Scan \/ \E p \in Visible : EditPage(p)

\* requests end: the HTTP client has a timeout
Spec == Init /\ [][Next]_vars /\ WF_vars(Scan)

-----------------------------------------------------------------------------
Selected == IF NothingSelected THEN Visible
            ELSE {p \in Visible : \/ p \in sel.pages \/ SpaceOf[p] \in sel.ids
                                  \/ SpaceOf[p] \in sel.keys \cap Listed}

\* No version of a page is scanned twice, although walks overlap, answers repeat
\* pages, and pages are edited while their history is read - as long as the list of
\* a page's versions repeats none (returnedPageIDs, emitHistory).
EachVersionOnce == \A pv \in Versions : emitted[pv] <= 1

\* A scan that ends without meeting a limit has emitted every page selected and
\* readable, in a version it had during the scan; with --history also every
\* older version.  Only bodies over the page limit are missing.
NothingIsMissed ==
    outcome = "done" /\ ~apiResponseLimitHit => \A p \in Selected :
        \E v \in FirstVersion[p]..version[p] :
            \/ <<p, v>> \in TooLarge
            \/ /\ emitted[<<p, v>>] = 1
               /\ History => \A n \in 1..v : <<p, n>> \in TooLarge \/ emitted[<<p, n>>] = 1

\* The final warning names the pages and keys that are invalid, unknown or not
\* readable and the space IDs without a readable page, and no others: not a page
\* whose body is too large, nor one seen by an earlier walk, nor, against the comment
\* on returnedSpaceIDs (confluence.go:72-74), a key that was resolved to a space
\* without pages (missingSelectorsWarningMessage).
WarningIsRight ==
    outcome = "done" /\ ~apiResponseLimitHit =>
        warned = (sel.pages \ Visible) \cup (sel.keys \ Listed)
                     \cup {s \in sel.ids : \A p \in Visible : SpaceOf[p] # s}

\* The scan ends, whatever the service answers, as long as its cursors do.
ScanEnds == <>~Running
=============================================================================
