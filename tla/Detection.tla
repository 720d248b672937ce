------------------------------ MODULE Detection ------------------------------
(***************************************************************************)
(* The detector (engine/detect/) with the rules it is given, from the      *)
(* user's configuration to the secrets of one fragment: the engine is set  *)
(* up, every rule whose keywords occur is run over the text in any order   *)
(* (they are kept in a map), generic findings give way to specific ones,   *)
(* and a secret is built of each finding that is left.                     *)
(*                                                                         *)
(* Texts are sequences of characters, "n" is the newline and "r" the       *)
(* carriage return; other white space is left out.  A regular expression   *)
(* is a word that is looked for, of which the first r.prefix characters    *)
(* are outside the capture group.  Entropy is the number of distinct       *)
(* characters.  Offsets count from zero, as in the code.                   *)
(***************************************************************************)
EXTENDS RuleSelection

CONSTANTS
    Configs,            \* [selected, ignored, special, additional, customs, patterns]
    Texts, Paths,       \* what a fragment may be made of
    GlobalLists,        \* allow lists of the base configuration
    AllowSignature,     \* "gitleaks:allow"
    GenericIDs,         \* the IDs that contain the one of the generic rule
    MaxTarget, MaxMatches, MaxSecretSize,   \* zero: no limit
    LineOffset,         \* of the plugin: lines count from one in files
    MaxParse, ContextLeft, ContextRight     \* of the line content

IsText(s) == s \in Seq(Range(s))

IsRule(r) ==
    /\ DOMAIN r = {"id", "name", "tags", "deprecated", "valid", "word", "prefix", "keywords",
                   "entropy", "paths", "lists"}
    /\ IsText(r.word) /\ r.prefix \in Nat /\ r.entropy \in Nat

ConfiguredRules ==
    AllRules \cup SpecialRules \cup UNION {Range(c.customs) \cup c.patterns : c \in Configs}

ASSUME DetectionAssumption ==
    /\ \A r \in ConfiguredRules : IsRule(r)
    /\ \A c \in Configs : c.customs \in Seq(Range(c.customs))
    /\ \A t \in Texts : IsText(t)
    /\ LineOffset \in Nat /\ MaxSecretSize \in Nat
    /\ MaxParse \in Nat /\ ContextLeft \in Nat /\ ContextRight \in Nat

VARIABLES
    config, fragment,   \* fragment is [raw, path]
    step,               \* "init", "detect", "build", "done" or "error"
    rules, left,        \* engine.rules, and those the detector has still to run
    found, secrets

detectVars == <<config, fragment, step, rules, left, found, secrets>>

Has(text, word) == word \in SubSeqs(text)

DetectInit ==
    /\ config \in Configs /\ fragment \in [raw : Texts, path : Paths]
    /\ step = "init" /\ rules = <<>> /\ left = {} /\ found = {} /\ secrets = {}

-----------------------------------------------------------------------------
(* The engine.                                                             *)

\* An allow list is [and, target, paths, regexes, stops].  The two slices are
\* declared outside the loop: each list has the paths and the regular expressions
\* of those before it as well.
convertAllowLists(lists) ==
    [k \in DOMAIN lists |->
        [lists[k] EXCEPT !.paths = UNION {lists[m].paths : m \in 1..k},
                         !.regexes = UNION {lists[m].regexes : m \in 1..k}]]

TwomsToGitleaksRule(r) == [r EXCEPT !.lists = convertAllowLists(@)]

initEngine ==
    LET final == filterIgnoredRules(FilterRules(config.selected, config.ignored, config.special,
                                                config.customs), config.additional)
        regex == createCustomRegexRules(config.patterns)
    IN  /\ step = "init"
        /\ IF /\ CheckRulesRequiredFields(config.customs)
              /\ \E n \in DOMAIN final : final[n] # <<>>
              /\ \A i \in DOMAIN regex : regex[i].valid
           THEN /\ step' = "detect"
                /\ rules' = Merged(Merged(final[1], final[2]), regex)
                /\ left' = DOMAIN rules'
           ELSE step' = "error" /\ UNCHANGED <<rules, left>>
        /\ UNCHANGED <<config, fragment, found, secrets>>

-----------------------------------------------------------------------------
(* The lists.                                                              *)

\* commits are not given to the detector.  Lists that need their expressions or stop
\* words as well are left to checkFindingAllowed.
checkCommitOrPathAllowed(lists) ==
    \E k \in DOMAIN lists :
        IF lists[k].and
        THEN /\ lists[k].regexes = {} /\ lists[k].stops = {}
             /\ lists[k].paths # {} => fragment.path \in lists[k].paths
        ELSE fragment.path \in lists[k].paths

Target(f, list) == CASE list.target = "match" -> f.match
                     [] list.target = "line" -> f.line
                     [] OTHER -> f.secret

AllowedBy(f, list) ==
    LET byRegex == \E w \in list.regexes : Has(Target(f, list), w)
        byStop == \E w \in list.stops : Has(f.secret, w)
    IN  IF list.and
        THEN /\ list.paths # {} => fragment.path \in list.paths
             /\ list.regexes # {} => byRegex
             /\ list.stops # {} => byStop
        ELSE byRegex \/ byStop

checkFindingAllowed(f, lists) == \E k \in DOMAIN lists : AllowedBy(f, lists[k])

-----------------------------------------------------------------------------
(* Places.                                                                 *)

\* strings.Trim(s, "\n")
Trim(s) ==
    LET kept == {i \in DOMAIN s : s[i] # "n"}
    IN  IF kept = {} THEN <<>>
        ELSE SubSeq(s, CHOOSE i \in kept : \A m \in kept : i <= m,
                       CHOOSE i \in kept : \A m \in kept : i >= m)

\* strings.TrimSpace(s) = ""
Blank(s) == \A i \in DOMAIN s : s[i] \in {"n", "r"}

\* strings.ReplaceAll(s, c, "")
Without(s, c) ==
    LET kept == {i \in DOMAIN s : s[i] # c}
        Nth(k) == CHOOSE i \in kept : Cardinality({m \in kept : m <= i}) = k
    IN  [k \in 1..Cardinality(kept) |-> s[Nth(k)]]

\* the offsets of the newlines, with one more behind a text that does not end
\* with one (a text with one gets it as well, at its length)
newlineIndices(raw) ==
    {i - 1 : i \in {k \in DOMAIN raw : raw[k] = "n"}} \cup {Len(raw)}

\* A line ends at an offset of newlineIndices.  From the second line on, it starts at
\* the newline before it.
location(raw, start, end) ==
    LET nl == newlineIndices(raw)
        Prev(x) == Max({0} \cup {y \in nl : y < x})
        Number(x) == Cardinality({y \in nl : y < x})
        s == CHOOSE x \in nl : Prev(x) <= start /\ start < x
        ends == {x \in nl : Prev(x) < end /\ end <= x}
        e == IF ends = {} THEN s ELSE CHOOSE x \in ends : TRUE
    IN  [startLine |-> Number(s), startColumn |-> start - Prev(s) + 1, startIndex |-> Prev(s),
         endLine |-> Number(e), endColumn |-> IF ends = {} THEN 0 ELSE end - Prev(e),
         endIndex |-> e]

-----------------------------------------------------------------------------
(* The detector.                                                           *)

Here(raw, word, i) ==
    i + Len(word) - 1 <= Len(raw) /\ SubSeq(raw, i, i + Len(word) - 1) = word

\* the places no earlier match goes over
Untaken(raw, word) ==
    LET free[i \in DOMAIN raw] ==
            \A k \in DOMAIN raw : k < i /\ i < k + Len(word) => ~(Here(raw, word, k) /\ free[k])
    IN  free

\* FindAllStringIndex: from the left, not overlapping, up to the limit
Matches(raw, word) == {i \in DOMAIN raw : Here(raw, word, i) /\ Untaken(raw, word)[i]}

Limited(set) ==
    {i \in set : MaxMatches > 0 => Cardinality({k \in set : k < i}) < MaxMatches}

Finding(r, i) ==
    LET match == Trim(r.word)
        start == i - 1
        end == start + Len(match)
        loc == location(fragment.raw, start, end)
    IN  [rule |-> r.id, start |-> start, end |-> end, startLine |-> loc.startLine,
         endLine |-> loc.endLine, startColumn |-> loc.startColumn, endColumn |-> loc.endColumn,
         line |-> SubSeq(fragment.raw, loc.startIndex + 1, loc.endIndex), match |-> match,
         secret |-> IF match = r.word THEN SubSeq(match, r.prefix + 1, Len(match)) ELSE match]

Keeps(r, f) ==
    /\ ~Has(f.line, AllowSignature)
    /\ MaxSecretSize > 0 => Len(f.secret) <= MaxSecretSize
    /\ r.entropy # 0 => Cardinality(Range(f.secret)) > r.entropy
    /\ ~checkFindingAllowed(f, GlobalLists) /\ ~checkFindingAllowed(f, r.lists)

detectRule(r) ==
    IF \/ checkCommitOrPathAllowed(r.lists) \/ fragment.path \notin r.paths
       \/ MaxTarget > 0 /\ Len(fragment.raw) > MaxTarget
    THEN {}
    ELSE {f \in {Finding(r, i) : i \in Limited(Matches(fragment.raw, r.word))} : Keeps(r, f)}

Prefiltered(r) == r.keywords # {} /\ \A w \in r.keywords : ~Has(fragment.raw, w)

SkipFragment ==
    /\ step = "detect" /\ left = DOMAIN rules /\ checkCommitOrPathAllowed(GlobalLists)
    /\ step' = "done" /\ UNCHANGED <<config, fragment, rules, left, found, secrets>>

DetectRule(i) ==
    /\ step = "detect" /\ i \in left /\ ~checkCommitOrPathAllowed(GlobalLists)
    /\ left' = left \ {i}
    /\ found' = IF Prefiltered(rules[i]) THEN found ELSE found \cup detectRule(TwomsToGitleaksRule(rules[i]))
    /\ UNCHANGED <<config, fragment, step, rules, secrets>>

\* mutant: the line is not compared
CoversAnywhere(g, f) == Has(g.secret, f.secret) /\ g.rule \notin GenericIDs

Covers(g, f) ==
    g.startLine = f.startLine /\ Has(g.secret, f.secret) /\ g.rule \notin GenericIDs

filter(findings) ==
    {f \in findings : /\ ~Blank(f.secret) /\ ~Blank(f.line)
                      /\ f.rule \in GenericIDs => \A g \in findings : ~Covers(g, f)}

Filter ==
    /\ step = "detect" /\ left = {} /\ step' = "build" /\ found' = filter(found)
    /\ UNCHANGED <<config, fragment, rules, left, secrets>>

-----------------------------------------------------------------------------
(* The secret.                                                             *)

\* mutant: the context is counted from where the secret begins
GetLineContentShort(line, secret) ==
    LET head == SubSeq(line, 1, IF Len(line) < MaxParse THEN Len(line) ELSE MaxParse)
        Cut(from, to) == SubSeq(head, IF from < 1 THEN 1 ELSE from,
                                      IF to > Len(head) THEN Len(head) ELSE to)
    IN  IF ~Has(head, secret) THEN Cut(1, ContextLeft + ContextRight)
        ELSE LET at == IndexFirstSubSeq(secret, head)
             IN  Cut(at - ContextLeft, at - 1 + ContextRight)

\* the secret with some of the line around it, or the head of a line without it
GetLineContent(line, secret) ==
    LET head == SubSeq(line, 1, IF Len(line) < MaxParse THEN Len(line) ELSE MaxParse)
        Cut(from, to) == SubSeq(head, IF from < 1 THEN 1 ELSE from,
                                      IF to > Len(head) THEN Len(head) ELSE to)
    IN  IF ~Has(head, secret) THEN Cut(1, ContextLeft + ContextRight)
        ELSE LET at == IndexFirstSubSeq(secret, head)
             IN  Cut(at - ContextLeft, at + Len(secret) - 1 + ContextRight)

\* mutant: the column counts the newline before the line
buildSecretUnadjusted(f) ==
    [rule |-> f.rule, value |-> f.secret, start |-> f.start, end |-> f.end,
     startLine |-> f.startLine + LineOffset, endLine |-> f.endLine + LineOffset,
     startColumn |-> f.startColumn, endColumn |-> f.endColumn,
     content |-> GetLineContent(Without(f.line, "r"), f.secret)]

\* The line is without the newline it began with, and so are the columns.  The
\* secret is looked for in the line without its carriage returns.
buildSecret(f) ==
    LET behind == Head(f.line) = "n"
        shift == IF behind THEN 1 ELSE 0
    IN  [rule |-> f.rule, value |-> f.secret, start |-> f.start, end |-> f.end,
         startLine |-> f.startLine + LineOffset, endLine |-> f.endLine + LineOffset,
         startColumn |-> f.startColumn - shift, endColumn |-> f.endColumn - shift,
         content |-> GetLineContent(Without(IF behind THEN Tail(f.line) ELSE f.line, "r"), f.secret)]

BuildSecrets ==
    /\ step = "build" /\ step' = "done" /\ secrets' = {buildSecret(f) : f \in found}
    /\ UNCHANGED <<config, fragment, rules, left, found>>

-----------------------------------------------------------------------------
DetectNext == initEngine \/ SkipFragment \/ (\E i \in left : DetectRule(i)) \/ Filter \/ BuildSecrets

DetectSpec == DetectInit /\ [][DetectNext]_detectVars

-----------------------------------------------------------------------------
\* A rule of the detector is one that the user asked for (initEngine).
OnlyAskedRules == RunsAsAsked(rules, config)

\* A rule that the user asked for is one of the detector's (initEngine).
AskedRulesRun == step \in {"detect", "build", "done"} => AskedForRuns(rules, config)

\* The rules of the detector are exactly those the user asked for (initEngine).
RulesAreAsAsked == OnlyAskedRules /\ AskedRulesRun

\* The line and the column of the character at an offset, from one.
LineOf(raw, offset) == Cardinality({i \in 1..offset : raw[i] = "n"})
ColumnOf(raw, offset) ==
    offset + 1 - Max({0} \cup {i \in 1..offset : raw[i] = "n"})

\* The match of a secret is where the report says: the line and the column of its
\* first and its last character (location, buildSecret).  The secret itself begins
\* behind what the rule matches before its group.  Two cases are excepted: a match
\* that begins with a newline, and the end column of one that begins in the first
\* line and ends in another, which is one too large.
PositionsAreRight ==
    \A s \in secrets : fragment.raw[s.start + 1] # "n" =>
        /\ s.startLine = LineOf(fragment.raw, s.start) + LineOffset
        /\ s.endLine = LineOf(fragment.raw, s.end - 1) + LineOffset
        /\ s.startColumn = ColumnOf(fragment.raw, s.start)
        /\ s.endColumn = ColumnOf(fragment.raw, s.end - 1)
              + (IF s.startLine = LineOffset /\ s.endLine > LineOffset THEN 1 ELSE 0)

\* The line of such a finding ends before the match proper, and may be blank.
BeginsWithTwoNewlines(f) ==
    f.start + 2 <= Len(fragment.raw)
    /\ fragment.raw[f.start + 1] = "n" /\ fragment.raw[f.start + 2] = "n"

\* The content of a secret shows all of it, if its match ends in the part of the line
\* that is parsed, and no more than the context around it (location, buildSecret,
\* GetLineContent).  Two cases are excepted: a match that begins with two newlines, and
\* a secret with a carriage return, which is not in the line it is looked for in.
SecretIsShown ==
    \A s \in secrets :
        LET last == s.startColumn + (s.end - s.start)
                    - (IF fragment.raw[s.start + 1] = "n" THEN 0 ELSE 1)
        IN  /\ Len(s.content) <= ContextLeft + Len(s.value) + ContextRight
            /\ ~BeginsWithTwoNewlines(s) /\ "r" \notin Range(s.value) /\ last <= MaxParse
                  => Has(s.content, s.value)

\* What the report says of a secret, where its match is and how its line reads, is
\* right (location, buildSecret, GetLineContent).
SecretsAreRight == PositionsAreRight /\ SecretIsShown

\* What a rule's limits, its prefilter or an allow list keep from being reported.  A
\* match that begins with two newlines is excepted as well.
Excluded(r, lists, f) ==
    \/ checkCommitOrPathAllowed(GlobalLists) \/ checkFindingAllowed(f, GlobalLists)
    \/ checkCommitOrPathAllowed(lists) \/ checkFindingAllowed(f, lists)
    \/ Prefiltered(r) \/ fragment.path \notin r.paths \/ Blank(f.secret)
    \/ MaxTarget > 0 /\ Len(fragment.raw) > MaxTarget
    \/ MaxSecretSize > 0 /\ Len(f.secret) > MaxSecretSize
    \/ r.entropy # 0 /\ Cardinality(Range(f.secret)) <= r.entropy
    \/ BeginsWithTwoNewlines(f) \/ Has(f.line, AllowSignature)

\* A finding of rule i is reported, by that rule or as part of the secret of a specific
\* rule on the same line.
Reported(f, i) ==
    \E s \in secrets :
        \/ s.rule = i /\ s.start = f.start
        \/ /\ i \in GenericIDs /\ s.rule \notin GenericIDs /\ Has(s.value, f.secret)
           /\ s.startLine = f.startLine + LineOffset

\* Whatever a rule matches is reported, in whatever order the rules ran, unless it is
\* excluded, by the allow lists as the rule declares them (Detect, filter,
\* convertAllowLists).
NothingIsLost ==
    step = "done" => \A i \in DOMAIN rules : \A k \in Limited(Matches(fragment.raw, rules[i].word)) :
        LET f == Finding(rules[i], k)
        IN  Excluded(rules[i], rules[i].lists, f) \/ Reported(f, i)
=============================================================================
