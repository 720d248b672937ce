--------------------------- MODULE ConfluenceProofs ---------------------------
(* Proofs about Confluence, for every site, every selection, every edit of    *)
(* the pages, every way the service cuts its answers, and every limit.        *)
EXTENDS Confluence, TLAPS

Phases == {"connect", "keys", "spaces", "pages", "all", "finish"}
Places == {"idle", "request", "decode", "versions", "version"}

\* a version that page p has had during the scan
Current(p) == FirstVersion[p]..version[p]

FlagTypes ==
  /\ sel \in Selections /\ History \in BOOLEAN /\ version \in [Pages -> Nat]
  /\ \A p \in Pages : FirstVersion[p] <= version[p] /\ version[p] <= MaxVersion[p]
  /\ outcome \in {"running", "stopped", "failed", "done"} /\ apiResponseLimitHit \in BOOLEAN

SeenTypes ==
  /\ returnedPageIDs \subseteq Visible
  /\ returnedSpaceIDs = {SpaceOf[p] : p \in returnedPageIDs}
  /\ resolvedSpaceKeys \subseteq sel.keys \cap Listed
  /\ emitted \in [Versions -> Nat]

\* Where a walk is, and what it holds there.
WalkTypes ==
  /\ phase \in Phases /\ at \in Places /\ next \in {"none", "header", "body"}
  /\ rest \subseteq (IF phase = "keys" THEN sel.keys \cap Listed ELSE Visible)
  /\ phase = "keys" => todo \subseteq sel.keys
  /\ phase = "pages" => todo \subseteq sel.pages
  /\ phase = "connect" => at = "request" /\ todo = {} /\ rest = {}
  /\ phase = "keys" => at \in {"idle", "request"}
  /\ phase = "finish" => at = "idle" /\ todo = {}
  /\ at = "idle" => rest = {}
  /\ at \in {"idle", "request"} => wire = {}
  /\ at \in {"decode", "versions", "version"} => (next = "none" <=> rest = {})
  /\ \A pv \in wire : pv \in Versions /\ pv[1] \in Visible /\ pv[2] \in Current(pv[1])

\* The page whose history is read, if any.
VisitTypes ==
  /\ visiting # None <=> at \in {"versions", "version"}
  /\ visiting # None => /\ History /\ visiting \in Versions /\ visiting[1] \in returnedPageIDs
                        /\ visiting[2] \in Current(visiting[1])
                        /\ unlisted = {0} \/ unlisted \subseteq 1..version[visiting[1]]
                        /\ toFetch \subseteq 1..version[visiting[1]]
                        /\ at = "version" => unlisted # {0}
  /\ at # "version" => toFetch = {}

TypeOK == FlagTypes /\ SeenTypes /\ WalkTypes /\ VisitTypes

-----------------------------------------------------------------------------
(* Types.                                                                    *)

USE DEF None, All

LEMMA InVersions ==
  ASSUME NEW p \in Pages, NEW n \in 1..MaxVersion[p] PROVE <<p, n>> \in Versions
  BY DEF Versions

LEMMA VersionParts ==
  ASSUME NEW pv \in Versions
  PROVE  pv[1] \in Pages /\ pv[2] \in 1..MaxVersion[pv[1]] /\ pv = <<pv[1], pv[2]>>
  <1>1. PICK p \in Pages : pv \in {p} \X (1..MaxVersion[p])
    BY DEF Versions
  <1> QED
    BY <1>1

LEMMA TypeInit == Init => TypeOK
  <1> SUFFICES ASSUME Init PROVE TypeOK
    OBVIOUS
  <1> USE ConfluenceAssumption DEF ConfluenceAssumption, Init
  <1>1. FlagTypes
    <2>1. version \in [Pages -> Nat] /\ \A p \in Pages : FirstVersion[p] \in Nat
      OBVIOUS
    <2>2. \A p \in Pages : FirstVersion[p] <= version[p] /\ version[p] <= MaxVersion[p]
      BY <2>1
    <2> QED
      BY <2>1, <2>2 DEF FlagTypes
  <1>2. SeenTypes
    BY DEF SeenTypes
  <1>3. WalkTypes
    BY DEF WalkTypes, Phases, Places
  <1>4. VisitTypes
    BY DEF VisitTypes
  <1> QED
    BY <1>1, <1>2, <1>3, <1>4 DEF TypeOK

\* What no step of the scan changes.
LEMMA ScanKeeps ==
  ASSUME Scan PROVE Running /\ UNCHANGED <<flagVars, version>>
  BY DEF Scan, Connect, NextPhase, StartWalk, RequestFails, AnswerSpaces, AnswerPages, ResponseTooLarge,
     TotalExceeded, EndOfAnswer, ListVersions, VersionsFetched, Finish, DecodePage, FetchVersion

LEMMA ScanFlags == ASSUME TypeOK, Scan PROVE FlagTypes'
  <1>1. UNCHANGED <<sel, History, version>>
    BY ScanKeeps DEF flagVars
  <1>2. outcome' \in {"running", "stopped", "failed", "done"} /\ apiResponseLimitHit' \in BOOLEAN
    BY DEF Scan, Connect, NextPhase, StartWalk, RequestFails, AnswerSpaces, AnswerPages, ResponseTooLarge,
       TotalExceeded, EndOfAnswer, ListVersions, VersionsFetched, Finish, DecodePage, FetchVersion, Stop,
       endVars, TypeOK, FlagTypes
  <1> QED
    BY <1>1, <1>2 DEF TypeOK, FlagTypes

LEMMA EditTypes == ASSUME TypeOK, NEW p \in Visible, EditPage(p) PROVE TypeOK'
  <1>1. p \in Pages /\ version[p] < MaxVersion[p] /\ version' = [version EXCEPT ![p] = @ + 1]
        /\ UNCHANGED <<flagVars, phase, todo, at, rest, answerVars, apiResponseLimitHit, historyVars, seenVars,
                       resolvedSpaceKeys, endVars>>
    BY ConfluenceAssumption DEF ConfluenceAssumption, EditPage
  <1>2. version' \in [Pages -> Nat] /\ \A q \in Pages : version[q] <= version'[q] /\ version'[q] <= MaxVersion[q]
    <2>1. version \in [Pages -> Nat] /\ \A q \in Pages : version[q] <= MaxVersion[q] /\ MaxVersion[q] \in Nat
      BY ConfluenceAssumption DEF ConfluenceAssumption, TypeOK, FlagTypes
    <2>2. version'[p] = version[p] + 1 /\ \A q \in Pages : q # p => version'[q] = version[q]
      BY <1>1, <2>1
    <2>3. version' \in [Pages -> Nat]
      BY <1>1, <2>1
    <2>4. \A q \in Pages : version[q] <= version'[q] /\ version'[q] <= MaxVersion[q]
      BY <1>1, <2>1, <2>2
    <2> QED
      BY <2>3, <2>4
  <1>3. \A q \in Pages : version[q] \in Nat /\ version'[q] \in Nat /\ FirstVersion[q] \in Nat
                         /\ FirstVersion[q] <= version[q]
    BY <1>2, ConfluenceAssumption DEF ConfluenceAssumption, TypeOK, FlagTypes
  <1>4. FlagTypes'
    BY <1>1, <1>2, <1>3 DEF flagVars, endVars, TypeOK, FlagTypes
  <1>5. SeenTypes'
    BY <1>1 DEF seenVars, flagVars, TypeOK, SeenTypes
  <1>6. \A q \in Pages : Current(q) \subseteq Current(q)' /\ 1..version[q] \subseteq 1..version'[q]
    BY <1>2, <1>3 DEF Current
  <1>7. WalkTypes'
    <2>1. \A pv \in wire : pv[1] \in Pages
      BY VersionParts DEF TypeOK, WalkTypes
    <2>2. \A pv \in wire' : pv \in Versions /\ pv[1] \in Visible /\ pv[2] \in Current(pv[1])'
      BY <1>1, <1>6, <2>1 DEF answerVars, TypeOK, WalkTypes
    <2> QED
      BY <1>1, <2>2 DEF answerVars, flagVars, TypeOK, WalkTypes
  <1>8. VisitTypes'
    <2>1. visiting # None => visiting[1] \in Pages
      BY VersionParts DEF TypeOK, VisitTypes
    <2> QED
      BY <1>1, <1>6, <2>1 DEF historyVars, seenVars, flagVars, TypeOK, VisitTypes
  <1> QED
    BY <1>4, <1>5, <1>7, <1>8 DEF TypeOK

\* Steps between the walks and their answers, which see no page.
LEMMA WalkStepTypes ==
  ASSUME TypeOK, Connect \/ NextPhase \/ StartWalk \/ RequestFails \/ AnswerSpaces \/ ResponseTooLarge
                 \/ TotalExceeded \/ EndOfAnswer \/ Finish
  PROVE  TypeOK'
  <1>1. UNCHANGED <<sel, History, version, seenVars, historyVars>>
    BY ScanKeeps DEF Scan, Connect, NextPhase, StartWalk, RequestFails, AnswerSpaces, ResponseTooLarge,
       TotalExceeded, EndOfAnswer, Finish, flagVars
  <1>2. FlagTypes'
    BY ScanFlags DEF Scan
  <1> USE DEF TypeOK
  <1>3. SeenTypes'
    <2>1. resolvedSpaceKeys' \subseteq sel.keys \cap Listed
      <3>1. CASE AnswerSpaces
        BY <3>1 DEF AnswerSpaces, WalkTypes, SeenTypes
      <3>2. CASE ~AnswerSpaces
        BY <3>2 DEF Connect, NextPhase, StartWalk, RequestFails, ResponseTooLarge, TotalExceeded, EndOfAnswer,
           Finish, SeenTypes
      <3> QED
        BY <3>1, <3>2
    <2> QED
      BY <1>1, <2>1 DEF seenVars, SeenTypes
  <1>4. VisitTypes'
    <2>1. visiting = None => at' \notin {"versions", "version"}
      BY DEF Connect, NextPhase, StartWalk, RequestFails, AnswerSpaces, ResponseTooLarge, TotalExceeded,
         EndOfAnswer, Finish, VisitTypes, WalkTypes
    <2>2. visiting # None => at' = at
      BY DEF Connect, NextPhase, StartWalk, RequestFails, AnswerSpaces, ResponseTooLarge, TotalExceeded,
         EndOfAnswer, Finish, VisitTypes
    <2>3. toFetch = {} \/ at = "version"
      BY DEF VisitTypes
    <2> QED
      BY <1>1, <2>1, <2>2, <2>3 DEF VisitTypes, historyVars, seenVars, Current
  <1>5. WalkTypes'
    <2> USE DEF WalkTypes, Phases, Places
    <2>1. CASE Connect
      BY <1>1, <2>1 DEF Connect, answerVars, Current
    <2>2. CASE NextPhase
      <3>1. /\ at = "idle" /\ rest = {} /\ wire = {} /\ UNCHANGED <<at, rest, wire, next>>
            /\ phase' \in {"spaces", "pages", "all", "finish"}
            /\ (phase' = "pages" => todo' = ValidIDs(sel.pages)) /\ (phase' = "finish" => todo' = {})
        BY <2>2 DEF NextPhase, answerVars
      <3> QED
        BY <1>1, <3>1 DEF ValidIDs, Current
    <2>3. CASE StartWalk
      <3>1. PICK batch \in SUBSET todo : batch # {} /\ todo' = todo \ batch /\ rest' = Matching(batch)
        BY <2>3 DEF StartWalk, kSubset
      <3>2. at = "idle" /\ at' = "request" /\ wire = {} /\ UNCHANGED <<phase, wire, next>>
            /\ phase \in {"keys", "spaces", "pages", "all"}
        BY <2>3, <3>1 DEF StartWalk, answerVars
      <3>3. rest' \subseteq (IF phase = "keys" THEN sel.keys \cap Listed ELSE Visible)
        BY <3>1, <3>2 DEF Matching
      <3> QED
        BY <1>1, <3>1, <3>2, <3>3 DEF Current
    <2>4. CASE RequestFails \/ TotalExceeded \/ Finish
      BY <1>1, <2>4 DEF RequestFails, TotalExceeded, Finish, answerVars, Current
    <2>5. CASE AnswerSpaces
      <3>1. phase = "keys" /\ at = "request" /\ UNCHANGED <<phase, todo, wire, next>> /\ wire = {}
            /\ rest' \subseteq rest /\ (at' = "request" \/ (at' = "idle" /\ rest' = {}))
        BY <2>5 DEF AnswerSpaces, answerVars
      <3> QED
        BY <1>1, <3>1 DEF Current
    <2>6. CASE ResponseTooLarge
      <3>1. at = "decode" /\ wire' = {} /\ next' = "none" /\ rest' \subseteq rest /\ UNCHANGED <<phase, todo>>
            /\ (at' = "request" \/ (at' = "idle" /\ rest' = {}))
        BY <2>6 DEF ResponseTooLarge
      <3> QED
        BY <1>1, <3>1 DEF Current
    <2>7. CASE EndOfAnswer
      <3>1. at = "decode" /\ wire' = {} /\ next' = "none" /\ rest' \subseteq rest /\ UNCHANGED <<phase, todo>>
            /\ (at' = "request" \/ (at' = "idle" /\ rest' = {}))
        BY <2>7 DEF EndOfAnswer
      <3> QED
        BY <1>1, <3>1 DEF Current
    <2> QED
      BY <2>1, <2>2, <2>3, <2>4, <2>5, <2>6, <2>7
  <1> QED
    BY <1>2, <1>3, <1>4, <1>5

LEMMA AnswerTypes == ASSUME TypeOK, AnswerPages PROVE TypeOK'
  <1> USE DEF TypeOK
  <1>1. UNCHANGED <<sel, History, version, seenVars, historyVars, resolvedSpaceKeys, phase, todo>>
        /\ at = "request" /\ at' = "decode" /\ phase \in {"spaces", "pages", "all"}
    BY DEF AnswerPages, flagVars
  <1>2. FlagTypes' /\ SeenTypes' /\ VisitTypes'
    BY <1>1, ScanFlags DEF Scan, SeenTypes, VisitTypes, seenVars, historyVars
  <1>3. PICK D \in SUBSET rest, again \in {{}} \cup {{p} : p \in returnedPageIDs} :
              Part(D) /\ rest' = rest \ D /\ wire' = {<<p, version[p]>> : p \in D \cup again}
    BY DEF AnswerPages
  <1>4. D \cup again \subseteq Visible /\ rest' \subseteq Visible
    BY <1>1, <1>3 DEF WalkTypes, SeenTypes
  <1>5. ASSUME NEW p \in Visible
        PROVE  <<p, version[p]>> \in Versions /\ version[p] \in Current(p)
    <2>1. p \in Pages /\ version[p] \in Nat /\ FirstVersion[p] \in Nat \ {0} /\ MaxVersion[p] \in Nat
          /\ FirstVersion[p] <= version[p] /\ version[p] <= MaxVersion[p]
      BY ConfluenceAssumption DEF ConfluenceAssumption, FlagTypes
    <2>2. version[p] \in 1..MaxVersion[p]
      BY <2>1
    <2> QED
      BY <2>1, <2>2, InVersions DEF Current
  <1>6. \A pv \in wire' : pv \in Versions /\ pv[1] \in Visible /\ pv[2] \in Current(pv[1])'
    <2>1. \A p \in Visible : Current(p)' = Current(p)
      BY <1>1 DEF Current
    <2> QED
      BY <1>3, <1>4, <1>5, <2>1
  <1>7. next' \in {"none", "header", "body"} /\ (next' = "none" <=> rest' = {})
    BY DEF AnswerPages
  <1>8. WalkTypes'
    BY <1>1, <1>4, <1>6, <1>7 DEF WalkTypes, Phases, Places
  <1> QED
    BY <1>2, <1>8

LEMMA DecodeTypes ==
  ASSUME TypeOK, NEW pv \in wire, DecodePage(pv) PROVE TypeOK'
  <1> USE DEF TypeOK
  <1>1. UNCHANGED <<sel, History, version, phase, todo, rest, next, toFetch, resolvedSpaceKeys>>
        /\ at = "decode" /\ wire' = wire \ {pv} /\ emitUniquePage(pv) /\ visiting = None /\ toFetch = {}
    BY DEF DecodePage, flagVars, VisitTypes
  <1>2. pv \in Versions /\ pv[1] \in Visible /\ pv[2] \in Current(pv[1])
        /\ \A p : Current(p)' = Current(p)
    BY <1>1 DEF WalkTypes, Current
  <1>3. FlagTypes'
    BY ScanFlags DEF Scan
  <1>4. at' \in {"decode", "versions"}
    BY <1>1 DEF emitUniquePage
  <1>5. WalkTypes'
    BY <1>1, <1>2, <1>4 DEF WalkTypes, Phases, Places
  <1>6. SeenTypes'
    <2>1. \/ UNCHANGED <<returnedPageIDs, returnedSpaceIDs, emitted>>
          \/ /\ returnedPageIDs' = returnedPageIDs \cup {pv[1]}
             /\ returnedSpaceIDs' = returnedSpaceIDs \cup {SpaceOf[pv[1]]}
             /\ emitted' = emitted \/ emitted' = [emitted EXCEPT ![pv] = @ + 1]
      BY <1>1 DEF emitUniquePage, Emit, seenVars
    <2>2. emitted' \in [Versions -> Nat]
      BY <2>1 DEF SeenTypes
    <2> QED
      BY <1>1, <1>2, <2>1, <2>2 DEF SeenTypes
  <1>7. VisitTypes'
    <2>1. CASE visiting' = None /\ at' = "decode"
      BY <1>1, <2>1 DEF VisitTypes
    <2>2. CASE visiting' = pv /\ at' = "versions" /\ unlisted' = {0} /\ History /\ pv[1] \in returnedPageIDs'
      <3>1. pv # None
        BY <1>2, VersionParts
      <3> QED
        BY <1>1, <1>2, <2>2, <3>1 DEF VisitTypes
    <2> QED
      BY <1>1, <2>1, <2>2 DEF emitUniquePage
  <1> QED
    BY <1>3, <1>5, <1>6, <1>7

LEMMA HistoryTypes ==
  ASSUME TypeOK, ListVersions \/ VersionsFetched \/ \E n \in toFetch : FetchVersion(n)
  PROVE  TypeOK'
  <1> USE DEF TypeOK
  <1>1. /\ UNCHANGED <<sel, History, version, phase, todo, rest, wire, next, returnedPageIDs, returnedSpaceIDs,
                       resolvedSpaceKeys>>
        /\ at \in {"versions", "version"} /\ at' \in {"versions", "version", "decode"}
        /\ (at' = "decode" => wire' = wire)
    BY DEF ListVersions, VersionsFetched, FetchVersion, flagVars, answerVars, seenVars
  <1>2. FlagTypes'
    BY ScanFlags DEF Scan
  <1>3. WalkTypes'
    BY <1>1 DEF WalkTypes, Places, Current
  <1>4. SeenTypes'
    <2>1. emitted' = emitted \/ \E pv \in Versions : emitted' = [emitted EXCEPT ![pv] = @ + 1]
      <3>1. ASSUME NEW n \in toFetch, FetchVersion(n), emitted' # emitted
            PROVE  \E pv \in Versions : emitted' = [emitted EXCEPT ![pv] = @ + 1]
        <4>1. emitted' = [emitted EXCEPT ![<<visiting[1], n>>] = @ + 1] /\ at = "version"
          BY <3>1 DEF FetchVersion, Emit
        <4>2. visiting \in Versions /\ n \in 1..version[visiting[1]]
          BY <4>1 DEF VisitTypes
        <4>3. visiting[1] \in Pages /\ n \in 1..MaxVersion[visiting[1]]
          <5>1. visiting[1] \in Pages
            BY <4>2, VersionParts
          <5>2. version[visiting[1]] \in Nat /\ version[visiting[1]] <= MaxVersion[visiting[1]]
                /\ MaxVersion[visiting[1]] \in Nat
            BY <5>1, ConfluenceAssumption DEF ConfluenceAssumption, FlagTypes
          <5> QED
            BY <4>2, <5>1, <5>2
        <4> QED
          BY <4>1, <4>3, InVersions
      <3> QED
        BY <3>1 DEF ListVersions, VersionsFetched, seenVars
    <2> QED
      BY <1>1, <2>1 DEF SeenTypes
  <1>5. VisitTypes'
    <2> USE DEF VisitTypes
    <2>0. visiting # None /\ visiting[1] \in Pages /\ version[visiting[1]] \in Nat
          /\ \A p : Current(p)' = Current(p)
      BY <1>1, VersionParts DEF Current, FlagTypes
    <2>1. CASE ListVersions
      <3>1. CASE at' = "versions"
        <4>1. UNCHANGED <<at, visiting, unlisted, toFetch>>
          BY <2>1, <3>1 DEF ListVersions
        <4> QED
          BY <1>1, <2>0, <4>1
      <3>2. CASE at' # "versions"
        <4>1. PICK D \in SUBSET Unlisted : D # {} /\ unlisted' = Unlisted \ D /\ toFetch' = ToFetch(D)
          BY <2>1, <3>2 DEF ListVersions
        <4>2. at' = "version" /\ visiting' = visiting
          BY <2>1, <3>2 DEF ListVersions
        <4>3. Unlisted \subseteq 1..version[visiting[1]] /\ 0 \notin Unlisted
          BY <2>0 DEF Unlisted
        <4>4. unlisted' \subseteq 1..version[visiting[1]] /\ toFetch' \subseteq 1..version[visiting[1]]
              /\ unlisted' # {0}
          BY <4>1, <4>3 DEF ToFetch
        <4> QED
          BY <1>1, <2>0, <4>2, <4>4
      <3> QED
        BY <3>1, <3>2
    <2>2. CASE VersionsFetched
      BY <1>1, <2>0, <2>2 DEF VersionsFetched
    <2>3. CASE \E n \in toFetch : FetchVersion(n)
      <3>1. UNCHANGED <<at, visiting, unlisted>> /\ toFetch' \subseteq toFetch
        BY <2>3 DEF FetchVersion
      <3> QED
        BY <1>1, <2>0, <3>1
    <2> QED
      BY <2>1, <2>2, <2>3
  <1> QED
    BY <1>2, <1>3, <1>4, <1>5

LEMMA TypeCorrect == Spec => []TypeOK
  <1>1. TypeOK /\ UNCHANGED vars => TypeOK'
    BY DEF TypeOK, FlagTypes, SeenTypes, WalkTypes, VisitTypes, Current, vars, flagVars, answerVars, historyVars,
       seenVars, endVars
  <1>2. TypeOK /\ [Next]_vars => TypeOK'
    BY <1>1, EditTypes, WalkStepTypes, AnswerTypes, DecodeTypes, HistoryTypes DEF Next, Scan
  <1> QED
    BY <1>2, TypeInit, PTL DEF Spec


-----------------------------------------------------------------------------
(* The versions of the pages.                                                *)

\* the versions of the visited page that its history may still bring
Pending == IF unlisted = {0} THEN Nat ELSE unlisted \cup toFetch

\* No version is emitted twice, and none before its page is marked; what the
\* history of a page still brings has not been emitted yet.
OnceInv ==
  /\ \A pv \in Versions : emitted[pv] <= 1 /\ (emitted[pv] = 1 => pv[1] \in returnedPageIDs)
  /\ visiting # None =>
        /\ emitted[visiting] = 1
        /\ \A n \in 1..MaxVersion[visiting[1]] :
              n # visiting[2] /\ n \in Pending => emitted[<<visiting[1], n>>] = 0
        /\ unlisted \cap toFetch = {} /\ visiting[2] \notin toFetch

Has(p, n) == <<p, n>> \in TooLarge \/ emitted[<<p, n>>] = 1

\* Everything of page p has been emitted.
Complete(p) ==
  \E v \in Current(p) :
     \/ <<p, v>> \in TooLarge
     \/ emitted[<<p, v>>] = 1 /\ (History => \A n \in 1..v : Has(p, n))

\* A page that was returned is complete, or its history is being read.
CompleteInv ==
  /\ \A p \in returnedPageIDs : Complete(p) \/ (visiting # None /\ visiting[1] = p)
  /\ visiting # None => \A n \in 1..visiting[2] : Has(visiting[1], n) \/ n \in Pending

\* the walk will bring page p
InWalk(p) == p \in rest \/ \E pv \in wire : pv[1] = p

BySpace(p) == SpaceOf[p] \in sel.ids \/ SpaceOf[p] \in sel.keys \cap Listed

\* No selected page and no key is forgotten: it has been seen, its walk is still to
\* come, or it is in the present walk or what this one will ask for.
CoverInv == ~apiResponseLimitHit =>
  /\ \A k \in sel.keys \cap Listed :
        k \in resolvedSpaceKeys \/ phase = "connect" \/ (phase = "keys" /\ k \in rest \cup todo)
  /\ \A p \in Visible : BySpace(p) =>
        \/ p \in returnedPageIDs \/ phase \in {"connect", "keys"}
        \/ phase = "spaces" /\ (InWalk(p) \/ SpaceOf[p] \in todo)
  /\ \A p \in Visible : p \in sel.pages =>
        \/ p \in returnedPageIDs \/ phase \in {"connect", "keys", "spaces"}
        \/ phase = "pages" /\ (InWalk(p) \/ p \in todo)
  /\ NothingSelected => \A p \in Visible :
        \/ p \in returnedPageIDs \/ phase \in {"connect", "keys", "spaces", "pages"}
        \/ phase = "all" /\ (InWalk(p) \/ todo # {})

EndInv == outcome = "done" => phase = "finish" /\ warned = missingSelectors

LEMMA VersionInit == Init => OnceInv /\ CompleteInv
  BY DEF Init, OnceInv, CompleteInv

LEMMA CurrentRange ==
  ASSUME TypeOK, NEW p \in Pages, NEW v \in Current(p)
  PROVE  v \in 1..MaxVersion[p] /\ 1..v \subseteq 1..MaxVersion[p]
  <1>1. FirstVersion[p] \in Nat \ {0} /\ version[p] \in Nat /\ MaxVersion[p] \in Nat /\ version[p] <= MaxVersion[p]
    BY ConfluenceAssumption DEF ConfluenceAssumption, TypeOK, FlagTypes
  <1> QED
    BY <1>1 DEF Current

\* A complete page stays so as long as nothing emitted is taken back.
LEMMA CompleteStays ==
  ASSUME TypeOK, NEW p \in Pages, Complete(p), UNCHANGED History, Current(p) \subseteq Current(p)',
         \A n \in 1..MaxVersion[p] : emitted[<<p, n>>] = 1 => emitted'[<<p, n>>] = 1
  PROVE  Complete(p)'
  <1>1. PICK v \in Current(p) : \/ <<p, v>> \in TooLarge
                                \/ emitted[<<p, v>>] = 1 /\ (History => \A n \in 1..v : Has(p, n))
    BY DEF Complete
  <1>2. v \in Current(p)' /\ v \in 1..MaxVersion[p] /\ \A n \in 1..v : n \in 1..MaxVersion[p]
    BY CurrentRange
  <1>3. \A n \in 1..MaxVersion[p] : Has(p, n) => Has(p, n)'
    BY DEF Has
  <1> QED
    BY <1>1, <1>2, <1>3 DEF Complete

\* Steps that touch neither the pages seen nor the history that is read.
LEMMA UnseenSteps ==
  ASSUME TypeOK, OnceInv, CompleteInv,
         UNCHANGED <<History, emitted, visiting, unlisted, toFetch, returnedPageIDs>>,
         \A p \in Pages : Current(p) \subseteq Current(p)'
  PROVE  OnceInv' /\ CompleteInv'
  <1>1. OnceInv'
    BY DEF OnceInv, Pending
  <1>2. ASSUME NEW p \in returnedPageIDs, Complete(p) PROVE Complete(p)'
    <2>1. p \in Pages
      BY ConfluenceAssumption DEF ConfluenceAssumption, TypeOK, SeenTypes
    <2> QED
      BY <1>2, <2>1, CompleteStays
  <1>3. CompleteInv'
    BY <1>2 DEF CompleteInv, Has, Pending
  <1> QED
    BY <1>1, <1>3

LEMMA DecodeVersions ==
  ASSUME TypeOK, OnceInv, CompleteInv, NEW pv \in wire, DecodePage(pv) PROVE OnceInv' /\ CompleteInv'
  <1> USE DEF TypeOK
  <1>1. UNCHANGED <<History, version, toFetch>> /\ at = "decode" /\ emitUniquePage(pv) /\ visiting = None
        /\ toFetch = {}
    BY DEF DecodePage, flagVars, VisitTypes
  <1>2. pv \in Versions /\ pv[1] \in Visible /\ pv[2] \in Current(pv[1])
        /\ \A p : Current(p)' = Current(p)
    BY <1>1 DEF WalkTypes, Current
  <1>3. CASE pv[1] \in returnedPageIDs
    <2>1. UNCHANGED <<History, emitted, visiting, unlisted, toFetch, returnedPageIDs>>
      BY <1>1, <1>3 DEF emitUniquePage, seenVars
    <2> QED
      BY <1>2, <2>1, UnseenSteps
  <1>4. CASE pv[1] \notin returnedPageIDs
    <2>1. returnedPageIDs' = returnedPageIDs \cup {pv[1]} /\ pv = <<pv[1], pv[2]>> /\ pv[1] \in Pages
          /\ pv[2] \in 1..MaxVersion[pv[1]]
      BY <1>1, <1>2, <1>4, VersionParts DEF emitUniquePage
    <2>2. \A qv \in Versions : qv[1] = pv[1] => emitted[qv] = 0
      BY <1>4 DEF OnceInv, SeenTypes
    <2>3. ASSUME NEW p \in returnedPageIDs, Complete(p), emitted' = emitted \/ emitted' = [emitted EXCEPT ![pv] = @ + 1]
          PROVE  Complete(p)'
      <3>1. p \in Pages /\ p # pv[1]
        BY <1>4, ConfluenceAssumption DEF ConfluenceAssumption, SeenTypes
      <3>2. ASSUME NEW n \in 1..MaxVersion[p] PROVE emitted'[<<p, n>>] = emitted[<<p, n>>]
        <4>1. <<p, n>> \in Versions /\ <<p, n>> # pv
          BY <2>1, <3>1, InVersions
        <4> QED
          BY <2>3, <4>1 DEF SeenTypes
      <3> QED
        BY <1>1, <1>2, <2>3, <3>1, <3>2, CompleteStays
    <2>4. CASE pv \in TooLarge
      <3>1. UNCHANGED <<emitted, visiting, unlisted>>
        BY <1>1, <1>4, <2>4 DEF emitUniquePage
      <3>2. OnceInv'
        BY <1>1, <2>1, <3>1 DEF OnceInv
      <3>3. Complete(pv[1])'
        BY <1>2, <2>1, <2>4 DEF Complete
      <3>4. CompleteInv'
        BY <1>1, <2>1, <2>3, <3>1, <3>3 DEF CompleteInv
      <3> QED
        BY <3>2, <3>4
    <2>5. CASE pv \notin TooLarge
      <3>1. emitted' = [emitted EXCEPT ![pv] = @ + 1]
        BY <1>1, <1>4, <2>5 DEF emitUniquePage, Emit
      <3>2. emitted'[pv] = 1 /\ \A qv \in Versions : qv # pv => emitted'[qv] = emitted[qv]
        BY <1>2, <2>2, <3>1 DEF SeenTypes
      <3>3. \A qv \in Versions : emitted'[qv] <= 1 /\ (emitted'[qv] = 1 => qv[1] \in returnedPageIDs')
        BY <2>1, <3>2 DEF OnceInv
      <3>4. CASE History
        <4>1. visiting' = pv /\ unlisted' = {0} /\ toFetch' = {} /\ pv # None
          BY <1>1, <1>4, <2>1, <2>5, <3>4 DEF emitUniquePage
        <4>2. \A n \in 1..MaxVersion[pv[1]] : n # pv[2] => emitted'[<<pv[1], n>>] = 0
          <5>1. ASSUME NEW n \in 1..MaxVersion[pv[1]], n # pv[2] PROVE emitted'[<<pv[1], n>>] = 0
            <6>1. <<pv[1], n>> \in Versions /\ <<pv[1], n>> # pv
              BY <2>1, <5>1, InVersions
            <6> QED
              BY <2>2, <3>2, <6>1
          <5> QED
            BY <5>1
        <4>3. OnceInv'
          BY <3>2, <3>3, <4>1, <4>2 DEF OnceInv
        <4>4. \A n \in 1..pv[2] : n \in Pending'
          BY <2>1, <4>1 DEF Pending
        <4>5. CompleteInv'
          BY <1>1, <2>1, <2>3, <3>1, <4>1, <4>4 DEF CompleteInv
        <4> QED
          BY <4>3, <4>5
      <3>5. CASE ~History
        <4>1. visiting' = None
          BY <1>1, <1>4, <3>5 DEF emitUniquePage
        <4>2. OnceInv'
          BY <3>3, <4>1 DEF OnceInv
        <4>3. Complete(pv[1])'
          BY <1>1, <1>2, <2>1, <3>2, <3>5 DEF Complete
        <4>4. CompleteInv'
          BY <1>1, <2>1, <2>3, <3>1, <4>1, <4>3 DEF CompleteInv
        <4> QED
          BY <4>2, <4>4
      <3> QED
        BY <3>4, <3>5
    <2> QED
      BY <2>4, <2>5
  <1> QED
    BY <1>3, <1>4

LEMMA ListVersionsKeeps ==
  ASSUME TypeOK, OnceInv, CompleteInv, ListVersions PROVE OnceInv' /\ CompleteInv'
  <1> USE DEF TypeOK
  <1>1. UNCHANGED <<History, version, visiting, emitted, returnedPageIDs>> /\ at = "versions" /\ toFetch = {}
        /\ visiting # None /\ \A p : Current(p)' = Current(p)
    BY DEF ListVersions, flagVars, seenVars, VisitTypes, Current
  <1>2. CASE at' = at
    <2>1. UNCHANGED <<unlisted, toFetch>>
      BY <1>1, <1>2 DEF ListVersions
    <2> QED
      BY <1>1, <2>1, UnseenSteps
  <1>3. CASE at' # at
    <2>1. PICK D \in SUBSET Unlisted : D # {} /\ unlisted' = Unlisted \ D /\ toFetch' = ToFetch(D)
      BY <1>1, <1>3 DEF ListVersions
    <2>2. /\ visiting \in Versions /\ visiting[1] \in Pages /\ visiting[2] \in Current(visiting[1])
          /\ unlisted = {0} \/ unlisted \subseteq 1..version[visiting[1]]
          /\ version[visiting[1]] \in Nat
      BY <1>1, VersionParts DEF VisitTypes, FlagTypes
    <2>3. Unlisted \subseteq 1..version[visiting[1]] /\ 0 \notin Unlisted /\ Unlisted \subseteq Pending
      BY <2>2 DEF Unlisted, Pending
    <2>4. Pending' \subseteq Pending /\ unlisted' \cap toFetch' = {} /\ visiting[2] \notin toFetch'
      BY <1>1, <2>1, <2>3 DEF Pending, ToFetch
    <2>5. OnceInv'
      BY <1>1, <2>4 DEF OnceInv
    <2>6. \A n \in 1..visiting[2] : n \in Pending => n \in Unlisted
      <3>1. 1..visiting[2] \subseteq 1..version[visiting[1]]
        BY <2>2, ConfluenceAssumption DEF Current, ConfluenceAssumption
      <3> QED
        BY <1>1, <3>1 DEF Pending, Unlisted
    <2>7. \A n \in Unlisted : n \in Pending' \/ n = visiting[2]
      BY <1>1, <2>1, <2>3 DEF Pending, ToFetch
    <2>8. \A n \in 1..visiting[2] : Has(visiting[1], n) \/ n \in Pending'
      <3>1. Has(visiting[1], visiting[2])
        BY <1>1, <2>2, VersionParts DEF OnceInv, Has
      <3> QED
        BY <1>1, <2>6, <2>7, <3>1 DEF CompleteInv
    <2>9. CompleteInv'
      BY <1>1, <2>8 DEF CompleteInv, Complete, Has
    <2> QED
      BY <2>5, <2>9
  <1> QED
    BY <1>2, <1>3

LEMMA FetchVersionKeeps ==
  ASSUME TypeOK, OnceInv, CompleteInv, NEW m \in toFetch, FetchVersion(m) PROVE OnceInv' /\ CompleteInv'
  <1> USE DEF TypeOK
  <1>1. UNCHANGED <<History, version, visiting, unlisted, returnedPageIDs>> /\ at = "version" /\ unlisted # {0}
        /\ visiting # None /\ \A p : Current(p)' = Current(p)
    BY DEF FetchVersion, flagVars, VisitTypes, Current
  <1>0. PICK q \in Pages : q = visiting[1]
    BY <1>1, VersionParts DEF VisitTypes
  <1>2. q \in Pages /\ q \in returnedPageIDs /\ visiting = <<q, visiting[2]>> /\ visiting \in Versions
        /\ m \in 1..MaxVersion[q] /\ <<q, m>> \in Versions /\ m # visiting[2]
    <2>1. q \in Pages /\ q \in returnedPageIDs /\ visiting = <<q, visiting[2]>> /\ visiting \in Versions
          /\ m \in 1..version[q] /\ m # visiting[2]
      BY <1>1, <1>0, VersionParts DEF VisitTypes, OnceInv
    <2>2. version[q] \in Nat /\ version[q] <= MaxVersion[q] /\ MaxVersion[q] \in Nat
      BY <2>1, ConfluenceAssumption DEF ConfluenceAssumption, FlagTypes
    <2>3. m \in 1..MaxVersion[q]
      BY <2>1, <2>2
    <2> QED
      BY <2>1, <2>3, InVersions
  <1>3. m \in Pending /\ emitted[<<q, m>>] = 0
    BY <1>1, <1>2, <1>0 DEF Pending, OnceInv
  <1>4. CASE toFetch' = toFetch /\ emitted' = emitted
    BY <1>1, <1>4, UnseenSteps
  <1>5. CASE toFetch' = toFetch \ {m} /\ (<<q, m>> \in TooLarge \/ emitted' = [emitted EXCEPT ![<<q, m>>] = @ + 1])
             /\ (<<q, m>> \in TooLarge => emitted' = emitted)
    <2>1. \A qv \in Versions : qv # <<q, m>> => emitted'[qv] = emitted[qv]
      BY <1>2, <1>5 DEF SeenTypes
    <2>2. emitted'[<<q, m>>] \in {0, 1} /\ (<<q, m>> \in TooLarge \/ emitted'[<<q, m>>] = 1)
      BY <1>2, <1>3, <1>5 DEF SeenTypes
    <2>3. Pending' \subseteq Pending /\ m \notin Pending' /\ \A n \in Pending : n \in Pending' \/ n = m
      BY <1>1, <1>5 DEF Pending, OnceInv
    <2>4. \A pv \in Versions : emitted'[pv] <= 1 /\ (emitted'[pv] = 1 => pv[1] \in returnedPageIDs)
      BY <1>2, <2>1, <2>2 DEF OnceInv
    <2>5. ASSUME NEW n \in 1..MaxVersion[q], n # visiting[2], n \in Pending' PROVE emitted'[<<q, n>>] = 0
      <3>1. <<q, n>> \in Versions /\ n # m /\ n \in Pending
        BY <1>2, <2>3, <2>5, InVersions
      <3> QED
        BY <1>1, <1>0, <2>1, <2>5, <3>1 DEF OnceInv
    <2>6. emitted'[visiting] = 1
      BY <1>1, <1>2, <2>1 DEF OnceInv
    <2>7. unlisted' \cap toFetch' = {} /\ visiting[2] \notin toFetch'
      BY <1>1, <1>5 DEF OnceInv
    <2>8. OnceInv'
      BY <1>1, <1>0, <2>4, <2>5, <2>6, <2>7 DEF OnceInv
    <2>9. ASSUME NEW p \in Pages, NEW n \in 1..MaxVersion[p], emitted[<<p, n>>] = 1
          PROVE  emitted'[<<p, n>>] = 1
      <3>1. <<p, n>> \in Versions /\ <<p, n>> # <<q, m>>
        BY <1>3, <2>9, InVersions
      <3> QED
        BY <2>1, <2>9, <3>1
    <2>10. ASSUME NEW n \in 1..visiting[2] PROVE Has(q, n)' \/ n \in Pending'
      <3>1. n \in 1..MaxVersion[q]
        BY <1>1, <1>2, <1>0, CurrentRange DEF VisitTypes
      <3>2. Has(q, n) => Has(q, n)'
        BY <1>2, <2>9, <3>1 DEF Has
      <3>3. Has(q, m)'
        BY <2>2 DEF Has
      <3> QED
        BY <1>1, <1>0, <2>3, <3>2, <3>3 DEF CompleteInv
    <2>11. ASSUME NEW p \in returnedPageIDs, p # q, Complete(p) PROVE Complete(p)'
      <3>1. p \in Pages
        BY ConfluenceAssumption DEF ConfluenceAssumption, SeenTypes
      <3> QED
        BY <1>1, <2>9, <2>11, <3>1, CompleteStays
    <2>12. CompleteInv'
      BY <1>1, <1>0, <2>10, <2>11 DEF CompleteInv
    <2> QED
      BY <2>8, <2>12
  <1> QED
    BY <1>4, <1>5, <1>0 DEF FetchVersion, Emit

LEMMA VersionsFetchedKeeps ==
  ASSUME TypeOK, OnceInv, CompleteInv, VersionsFetched PROVE OnceInv' /\ CompleteInv'
  <1> USE DEF TypeOK
  <1>1. UNCHANGED <<History, version, unlisted, toFetch, emitted, returnedPageIDs>> /\ at = "version" /\ toFetch = {}
        /\ visiting # None /\ \A p : Current(p)' = Current(p)
    BY DEF VersionsFetched, flagVars, seenVars, VisitTypes, Current
  <1>2. CASE visiting' = visiting
    BY <1>1, <1>2, UnseenSteps
  <1>3. CASE unlisted = {} /\ visiting' = None
    <2>1. Pending = {}
      BY <1>1, <1>3 DEF Pending
    <2>2. visiting = <<visiting[1], visiting[2]>> /\ visiting[2] \in Current(visiting[1])
      BY <1>1, VersionParts DEF VisitTypes
    <2>3. emitted[visiting] = 1 /\ \A n \in 1..visiting[2] : Has(visiting[1], n)
      BY <1>1, <2>1 DEF OnceInv, CompleteInv
    <2>4. Complete(visiting[1])
      BY <2>2, <2>3 DEF Complete
    <2>5. \A p \in returnedPageIDs : Complete(p)
      BY <2>4 DEF CompleteInv
    <2>6. CompleteInv'
      <3>1. \A p \in returnedPageIDs : Complete(p)'
        BY <1>1, <2>5 DEF Complete, Has
      <3> QED
        BY <1>1, <1>3, <3>1 DEF CompleteInv
    <2>7. OnceInv'
      BY <1>1, <1>3 DEF OnceInv
    <2> QED
      BY <2>6, <2>7
  <1> QED
    BY <1>2, <1>3 DEF VersionsFetched

LEMMA VersionStep ==
  ASSUME TypeOK, OnceInv, CompleteInv, [Next]_vars PROVE OnceInv' /\ CompleteInv'
  <1>1. CASE Connect \/ NextPhase \/ StartWalk \/ RequestFails \/ AnswerSpaces \/ AnswerPages \/ ResponseTooLarge
             \/ TotalExceeded \/ EndOfAnswer \/ Finish \/ UNCHANGED vars
    <2>1. UNCHANGED <<History, version, emitted, visiting, unlisted, toFetch, returnedPageIDs>>
      BY <1>1 DEF Connect, NextPhase, StartWalk, RequestFails, AnswerSpaces, AnswerPages, ResponseTooLarge,
         TotalExceeded, EndOfAnswer, Finish, vars, flagVars, seenVars, historyVars
    <2> QED
      BY <2>1, UnseenSteps DEF Current
  <1>2. CASE \E p \in Visible : EditPage(p)
    <2>1. PICK p \in Visible : EditPage(p)
      BY <1>2
    <2>2. UNCHANGED <<History, emitted, visiting, unlisted, toFetch, returnedPageIDs>>
      BY <2>1 DEF EditPage, flagVars, seenVars, historyVars
    <2>3. \A q \in Pages : Current(q) \subseteq Current(q)'
      <3>1. version' = [version EXCEPT ![p] = @ + 1]
        BY <2>1 DEF EditPage
      <3>2. \A q \in Pages : version[q] \in Nat /\ FirstVersion[q] \in Nat /\ version'[q] \in {version[q], version[q] + 1}
        BY <3>1, ConfluenceAssumption DEF ConfluenceAssumption, TypeOK, FlagTypes
      <3> QED
        BY <3>2 DEF Current
    <2> QED
      BY <2>2, <2>3, UnseenSteps
  <1> QED
    BY <1>1, <1>2, DecodeVersions, ListVersionsKeeps, FetchVersionKeeps, VersionsFetchedKeeps DEF Next, Scan

LEMMA VersionsCorrect == Spec => [](TypeOK /\ OnceInv /\ CompleteInv)
  BY VersionInit, VersionStep, TypeCorrect, PTL DEF Spec

\* No version of a page is emitted twice, although walks overlap, answers repeat
\* pages, and pages are edited while their history is read (returnedPageIDs,
\* emitHistory).
THEOREM NoVersionTwice == Spec => []EachVersionOnce
  <1>1. OnceInv => EachVersionOnce
    BY DEF OnceInv, EachVersionOnce
  <1> QED
    BY <1>1, VersionsCorrect, PTL

-----------------------------------------------------------------------------
(* The walks bring all that was selected.                                    *)

LEMMA CoverInit == Init => CoverInv /\ EndInv
  BY DEF Init, CoverInv, EndInv

\* Within a phase: what the walk was to bring it still brings, or it has come.
LEMMA CoverStays ==
  ASSUME TypeOK, CoverInv, UNCHANGED <<sel, phase, todo>>, apiResponseLimitHit => apiResponseLimitHit',
         returnedPageIDs \subseteq returnedPageIDs', resolvedSpaceKeys \subseteq resolvedSpaceKeys',
         phase = "keys" => \A k \in rest : k \in rest' \/ k \in resolvedSpaceKeys',
         phase # "keys" => \A p \in Visible : InWalk(p) => InWalk(p)' \/ p \in returnedPageIDs'
  PROVE  CoverInv'
  <1> SUFFICES ASSUME ~apiResponseLimitHit' PROVE CoverInv'
    BY DEF CoverInv
  <1>1. (\A k \in sel.keys \cap Listed :
            k \in resolvedSpaceKeys \/ phase = "connect" \/ (phase = "keys" /\ k \in rest \cup todo))'
    BY DEF CoverInv
  <1>2. (\A p \in Visible : BySpace(p) =>
            \/ p \in returnedPageIDs \/ phase \in {"connect", "keys"}
            \/ phase = "spaces" /\ (InWalk(p) \/ SpaceOf[p] \in todo))'
    BY DEF CoverInv, BySpace
  <1>3. (\A p \in Visible : p \in sel.pages =>
            \/ p \in returnedPageIDs \/ phase \in {"connect", "keys", "spaces"}
            \/ phase = "pages" /\ (InWalk(p) \/ p \in todo))'
    BY DEF CoverInv
  <1>4. (NothingSelected => \A p \in Visible :
            \/ p \in returnedPageIDs \/ phase \in {"connect", "keys", "spaces", "pages"}
            \/ phase = "all" /\ (InWalk(p) \/ todo # {}))'
    BY DEF CoverInv, NothingSelected
  <1> QED
    BY <1>1, <1>2, <1>3, <1>4 DEF CoverInv

LEMMA ConnectCovers == ASSUME TypeOK, CoverInv, Connect PROVE CoverInv'
  <1>1. phase' = "keys" /\ todo' = sel.keys /\ UNCHANGED sel
    BY DEF Connect, flagVars
  <1> QED
    BY <1>1 DEF CoverInv

LEMMA NextPhaseCovers == ASSUME TypeOK, CoverInv, NextPhase PROVE CoverInv'
  <1> SUFFICES ASSUME ~apiResponseLimitHit PROVE CoverInv'
    BY DEF NextPhase, CoverInv
  <1>1. /\ UNCHANGED <<sel, rest, wire, returnedPageIDs, resolvedSpaceKeys>>
        /\ at = "idle" /\ todo = {} /\ rest = {} /\ wire = {}
    BY DEF NextPhase, flagVars, answerVars, seenVars, TypeOK, WalkTypes
  <1>2. \A p : ~InWalk(p)
    BY <1>1 DEF InWalk
  <1> USE DEF CoverInv
  <1>3. CASE phase = "keys"
    <2>1. phase' = "spaces" /\ todo' = ValidIDs(sel.ids) \cup resolvedSpaceKeys
      BY <1>3 DEF NextPhase
    <2>2. \A k \in sel.keys \cap Listed : k \in resolvedSpaceKeys
      BY <1>1, <1>3
    <2>3. \A p \in Visible : SpaceOf[p] \in sel.ids => SpaceOf[p] \in ValidIDs(sel.ids)
      BY ConfluenceAssumption DEF ConfluenceAssumption, ValidIDs, isValidNumericID
    <2>4. \A p \in Visible : BySpace(p) => SpaceOf[p] \in todo'
      BY <2>1, <2>2, <2>3 DEF BySpace
    <2> QED
      BY <1>1, <2>1, <2>2, <2>4 DEF BySpace
  <1>4. CASE phase = "spaces"
    <2>1. phase' = "pages" /\ todo' = ValidIDs(sel.pages)
      BY <1>4 DEF NextPhase
    <2>2. \A p \in Visible : p \in sel.pages => p \in todo'
      BY <2>1, ConfluenceAssumption DEF ConfluenceAssumption, ValidIDs, isValidNumericID
    <2> QED
      BY <1>1, <1>2, <1>4, <2>1, <2>2 DEF BySpace
  <1>5. CASE phase = "pages"
    <2>1. phase' = "all" /\ (NothingSelected => todo' = {"all"})
      BY <1>5 DEF NextPhase
    <2> QED
      BY <1>1, <1>2, <1>5, <2>1 DEF BySpace, NothingSelected
  <1>6. CASE phase = "all"
    <2>1. phase' = "finish"
      BY <1>6 DEF NextPhase
    <2> QED
      BY <1>1, <1>2, <1>6, <2>1 DEF BySpace, NothingSelected
  <1> QED
    BY <1>3, <1>4, <1>5, <1>6 DEF NextPhase

LEMMA StartWalkCovers == ASSUME TypeOK, CoverInv, StartWalk PROVE CoverInv'
  <1> SUFFICES ASSUME ~apiResponseLimitHit PROVE CoverInv'
    BY DEF StartWalk, CoverInv
  <1>1. PICK batch \in SUBSET todo : batch # {} /\ todo' = todo \ batch /\ rest' = Matching(batch)
    BY DEF StartWalk, kSubset
  <1>2. UNCHANGED <<sel, phase, wire, returnedPageIDs, resolvedSpaceKeys>> /\ at = "idle" /\ rest = {} /\ wire = {}
    BY DEF StartWalk, flagVars, answerVars, seenVars, TypeOK, WalkTypes
  <1>3. \A p : ~InWalk(p) /\ (InWalk(p)' <=> p \in rest')
    BY <1>2 DEF InWalk
  <1> USE DEF CoverInv
  <1>4. CASE phase = "keys"
    <2>1. rest' = batch \cap Listed
      BY <1>1, <1>4 DEF Matching
    <2> QED
      BY <1>1, <1>2, <1>4, <2>1
  <1>5. CASE phase = "spaces"
    <2>1. rest' = {p \in Visible : SpaceOf[p] \in batch}
      BY <1>1, <1>5 DEF Matching
    <2> QED
      BY <1>1, <1>2, <1>3, <1>5, <2>1 DEF BySpace, NothingSelected
  <1>6. CASE phase = "pages"
    <2>1. rest' = batch \cap Visible
      BY <1>1, <1>6 DEF Matching
    <2> QED
      BY <1>1, <1>2, <1>3, <1>6, <2>1 DEF BySpace, NothingSelected
  <1>7. CASE phase = "all"
    <2>1. rest' = Visible
      BY <1>1, <1>7 DEF Matching
    <2> QED
      BY <1>1, <1>2, <1>3, <1>7, <2>1 DEF BySpace, NothingSelected
  <1>8. phase \in {"keys", "spaces", "pages", "all"}
    BY <1>1, <1>2 DEF TypeOK, WalkTypes, Phases
  <1> QED
    BY <1>4, <1>5, <1>6, <1>7, <1>8

LEMMA AnswersCover ==
  ASSUME TypeOK, CoverInv, AnswerSpaces \/ AnswerPages \/ EndOfAnswer PROVE CoverInv'
  <1>1. UNCHANGED <<sel, phase, todo, apiResponseLimitHit, returnedPageIDs>>
    BY DEF AnswerSpaces, AnswerPages, EndOfAnswer, flagVars, seenVars
  <1>2. CASE AnswerSpaces
    <2>1. phase = "keys" /\ resolvedSpaceKeys \subseteq resolvedSpaceKeys'
          /\ \A k \in rest : k \in rest' \/ k \in resolvedSpaceKeys'
      BY <1>2 DEF AnswerSpaces
    <2> QED
      BY <1>1, <2>1, CoverStays
  <1>3. CASE AnswerPages
    <2>1. PICK D \in SUBSET rest, again \in {{}} \cup {{p} : p \in returnedPageIDs} :
                rest' = rest \ D /\ wire' = {<<p, version[p]>> : p \in D \cup again}
      BY <1>3 DEF AnswerPages
    <2>2. phase # "keys" /\ UNCHANGED resolvedSpaceKeys /\ wire = {}
      BY <1>3 DEF AnswerPages, TypeOK, WalkTypes
    <2>3. ASSUME NEW p \in rest PROVE InWalk(p)'
      <3>1. p \in D => <<p, version[p]>> \in wire' /\ <<p, version[p]>>[1] = p
        BY <2>1
      <3>2. p \notin D => p \in rest'
        BY <2>1
      <3> QED
        BY <3>1, <3>2 DEF InWalk
    <2>4. \A p \in Visible : InWalk(p) => InWalk(p)'
      BY <2>2, <2>3 DEF InWalk
    <2> QED
      BY <1>1, <2>2, <2>4, CoverStays
  <1>4. CASE EndOfAnswer
    <2>1. phase # "keys" /\ UNCHANGED resolvedSpaceKeys /\ wire = {} /\ (rest' = rest \/ next = "none")
          /\ (next = "none" => rest = {})
      BY <1>4 DEF EndOfAnswer, HasCursor, TypeOK, WalkTypes
    <2>2. \A p \in Visible : InWalk(p) => InWalk(p)'
      BY <2>1 DEF InWalk
    <2> QED
      BY <1>1, <2>1, <2>2, CoverStays
  <1> QED
    BY <1>2, <1>3, <1>4

LEMMA DecodeCovers ==
  ASSUME TypeOK, CoverInv, NEW pv \in wire, DecodePage(pv) PROVE CoverInv'
  <1>1. UNCHANGED <<sel, phase, todo, rest, apiResponseLimitHit, resolvedSpaceKeys>> /\ wire' = wire \ {pv}
        /\ phase # "keys"
    BY DEF DecodePage, flagVars, TypeOK, WalkTypes
  <1>2. returnedPageIDs \subseteq returnedPageIDs' /\ pv[1] \in returnedPageIDs'
    BY DEF DecodePage, emitUniquePage, seenVars
  <1>3. \A p \in Visible : InWalk(p) => InWalk(p)' \/ p \in returnedPageIDs'
    BY <1>1, <1>2 DEF InWalk
  <1> QED
    BY <1>1, <1>2, <1>3, CoverStays

LEMMA CoverStep == ASSUME TypeOK, CoverInv, [Next]_vars PROVE CoverInv'
  <1>1. CASE ResponseTooLarge
    BY <1>1 DEF ResponseTooLarge, CoverInv
  <1>2. CASE RequestFails \/ TotalExceeded \/ Finish \/ ListVersions \/ VersionsFetched \/ UNCHANGED vars
             \/ (\E n \in toFetch : FetchVersion(n)) \/ (\E p \in Visible : EditPage(p))
    <2>1. UNCHANGED <<sel, phase, todo, rest, wire, apiResponseLimitHit, resolvedSpaceKeys, returnedPageIDs>>
      BY <1>2 DEF RequestFails, TotalExceeded, Finish, ListVersions, VersionsFetched, FetchVersion, EditPage,
         vars, flagVars, answerVars, seenVars
    <2>2. \A p : InWalk(p)' <=> InWalk(p)
      BY <2>1 DEF InWalk
    <2> QED
      BY <2>1, <2>2, CoverStays
  <1> QED
    BY <1>1, <1>2, ConnectCovers, NextPhaseCovers, StartWalkCovers, AnswersCover, DecodeCovers DEF Next, Scan

LEMMA EndStep == ASSUME EndInv, [Next]_vars PROVE EndInv'
  <1>1. CASE Finish
    BY <1>1 DEF Finish, EndInv, missingSelectors, flagVars, seenVars
  <1>2. CASE UNCHANGED vars
    BY <1>2 DEF vars, EndInv, missingSelectors, flagVars, seenVars, endVars
  <1>3. CASE ~Finish /\ ~UNCHANGED vars
    <2>1. outcome' # "done"
      BY <1>3 DEF Next, Scan, Connect, NextPhase, StartWalk, RequestFails, AnswerSpaces, AnswerPages,
         ResponseTooLarge, TotalExceeded, EndOfAnswer, ListVersions, VersionsFetched, DecodePage, FetchVersion,
         EditPage, Stop, endVars, Running
    <2> QED
      BY <2>1 DEF EndInv
  <1> QED
    BY <1>1, <1>2, <1>3

LEMMA CoverCorrect == Spec => [](TypeOK /\ OnceInv /\ CompleteInv /\ CoverInv /\ EndInv)
  BY CoverInit, CoverStep, EndStep, VersionsCorrect, PTL DEF Spec

\* When a scan has ended without a limit, each selected page and each known key
\* has been seen.
LEMMA AllSeen ==
  ASSUME TypeOK, CoverInv, EndInv, outcome = "done", ~apiResponseLimitHit
  PROVE  /\ sel.keys \cap Listed \subseteq resolvedSpaceKeys
         /\ \A p \in Visible : BySpace(p) \/ p \in sel.pages \/ NothingSelected => p \in returnedPageIDs
  <1>1. phase = "finish"
    BY DEF EndInv
  <1> QED
    BY <1>1 DEF CoverInv

\* A scan that ends without meeting a limit has emitted every page selected and
\* readable, in a version it had during the scan, and with --history every older
\* version, but for bodies over the page limit (walkAndEmitPages, emitHistory).
THEOREM NoPageIsMissed == Spec => []NothingIsMissed
  <1>1. TypeOK /\ OnceInv /\ CompleteInv /\ CoverInv /\ EndInv => NothingIsMissed
    <2> SUFFICES ASSUME TypeOK, CompleteInv, CoverInv, EndInv, outcome = "done", ~apiResponseLimitHit, NEW p \in Selected
                 PROVE  \E v \in FirstVersion[p]..version[p] :
                           \/ <<p, v>> \in TooLarge
                           \/ /\ emitted[<<p, v>>] = 1
                              /\ History => \A n \in 1..v : <<p, n>> \in TooLarge \/ emitted[<<p, n>>] = 1
      BY DEF NothingIsMissed
    <2>1. p \in returnedPageIDs
      BY AllSeen DEF Selected, BySpace
    <2>2. visiting = None
      BY DEF EndInv, TypeOK, WalkTypes, VisitTypes
    <2> QED
      BY <2>1, <2>2 DEF CompleteInv, Complete, Current, Has
  <1> QED
    BY <1>1, CoverCorrect, PTL

\* After a scan that met no limit the warning names exactly the pages and keys that
\* are invalid, unknown or not readable, and the space IDs without a readable page;
\* a key whose space was found is not named, whether it has pages or not
\* (missingSelectorsWarningMessage).
THEOREM WarningsAreRight == Spec => []WarningIsRight
  <1>1. TypeOK /\ CoverInv /\ EndInv => WarningIsRight
    <2> SUFFICES ASSUME TypeOK, CoverInv, EndInv, outcome = "done", ~apiResponseLimitHit
                 PROVE  warned = (sel.pages \ Visible) \cup (sel.keys \ Listed)
                                    \cup {s \in sel.ids : \A p \in Visible : SpaceOf[p] # s}
      BY DEF WarningIsRight
    <2>1. warned = missingSelectors
      BY DEF EndInv
    <2>2. sel.pages \ returnedPageIDs = sel.pages \ Visible
      BY AllSeen DEF TypeOK, SeenTypes
    <2>3. sel.keys \ resolvedSpaceKeys = sel.keys \ Listed
      BY AllSeen DEF TypeOK, SeenTypes
    <2>4. sel.ids \ returnedSpaceIDs = {s \in sel.ids : \A p \in Visible : SpaceOf[p] # s}
      <3>1. \A s \in sel.ids : s \in returnedSpaceIDs <=> \E p \in Visible : SpaceOf[p] = s
        BY AllSeen DEF TypeOK, SeenTypes, BySpace
      <3> QED
        BY <3>1
    <2> QED
      BY <2>1, <2>2, <2>3, <2>4 DEF missingSelectors
  <1> QED
    BY <1>1, CoverCorrect, PTL
===============================================================================
