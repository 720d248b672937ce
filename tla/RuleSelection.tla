---------------------------- MODULE RuleSelection ----------------------------
(***************************************************************************)
(* Which rules a scan runs with (engine/rules/rules.go, engine.initEngine, *)
(* score.NewScorer): the default rules, selected and ignored by name, ID   *)
(* or tag, the user's own rules, which may override a default one, special *)
(* rules, and rules made of --regex patterns.                              *)
(*                                                                         *)
(* A rule is a record [id, name, tags, deprecated, valid, and what the     *)
(* detector needs].  A collection of rules is a function from IDs, a list  *)
(* that may have two rules of one ID a sequence of them.  What the user    *)
(* writes is compared without regard to case, the IDs of two rules with    *)
(* it: IDs that differ in case only are left out.                          *)
(***************************************************************************)
EXTENDS Integers, Sequences, FiniteSets, SequencesExt

CONSTANTS
    AllRules,           \* the rules of ruledefine
    SpecialRules,
    Unnamed             \* the name of a rule without one

ASSUME RulesAssumption ==
    /\ \A r, q \in AllRules : r.id = q.id => r = q
    /\ \A r, q \in SpecialRules : r.id = q.id => r = q
    /\ \A r \in AllRules \cup SpecialRules : r.name # Unnamed

\* rules of a later collection take the place of those before it
Merged(rules, more) ==
    [i \in DOMAIN rules \cup DOMAIN more |-> IF i \in DOMAIN more THEN more[i] ELSE rules[i]]

ById(rules) == [i \in {r.id : r \in rules} |-> CHOOSE r \in rules : r.id = i]

GetDefaultRules == ById({r \in AllRules : ~r.deprecated})

isRuleMatch(r, strings) == ({r.name, r.id} \cup r.tags) \cap strings # {}

selectRules(rules, strings) ==
    ById({r \in Range(rules) : isRuleMatch(r, strings)})

ignoreRules(rules, strings) ==
    ById({r \in Range(rules) : ~isRuleMatch(r, strings)})

\* every custom rule has an ID, a regular expression that compiles, and values in
\* their ranges
CheckRulesRequiredFields(customs) == \A c \in Range(customs) : c.valid

\* an override without a name gets the one of the rule it overrides
completeQueriesFields(customs) ==
    [k \in DOMAIN customs |->
        IF customs[k].name = Unnamed /\ customs[k].id \in DOMAIN GetDefaultRules
        THEN [customs[k] EXCEPT !.name = GetDefaultRules[customs[k].id].name]
        ELSE customs[k]]

\* in the order of the file: the last of two with one ID is the one that runs.  Only
\* one that replaces no rule is named after its ID when it has no name.
addCustomRules(rules, customs) ==
    LET added == {k \in DOMAIN customs : ~customs[k].deprecated}
        Of(i) == {k \in added : customs[k].id = i}
        Latest(i) == CHOOSE k \in Of(i) : \A m \in Of(i) : m <= k
        Named(c) == IF c.name = Unnamed THEN [c EXCEPT !.name = c.id] ELSE c
    IN  [i \in DOMAIN rules \cup {customs[k].id : k \in added} |->
            IF Of(i) = {} THEN rules[i]
            ELSE IF i \notin DOMAIN rules /\ Of(i) = {Latest(i)} THEN Named(customs[Latest(i)])
            ELSE customs[Latest(i)]]

\* an empty selection selects everything
Wanted(r, selected, ignored) ==
    (selected = {} \/ isRuleMatch(r, selected)) /\ ~isRuleMatch(r, ignored)

\* the custom rules that are wanted stay at their places
Selected(customs, selected, ignored) ==
    [k \in {m \in DOMAIN customs : Wanted(customs[m], selected, ignored)} |-> customs[k]]

SpecialOf(special) == ById({r \in SpecialRules : r.name \in special})

\* mutant: the fields are completed after the selection
FilterRulesLate(selected, ignored, special, customs) ==
    LET some == ById({r \in Range(GetDefaultRules) : Wanted(r, selected, ignored)})
    IN  <<addCustomRules(some, completeQueriesFields(Selected(customs, selected, ignored))),
          SpecialOf(special)>>

\* mutant: the custom rules are added before the selection
FilterRulesEarly(selected, ignored, special, customs) ==
    LET all == addCustomRules(GetDefaultRules, completeQueriesFields(customs))
    IN  <<ById({r \in Range(all) : Wanted(r, selected, ignored)}), SpecialOf(special)>>

\* special rules are appended whatever is selected and ignored, behind a custom rule
\* with the ID of one if there is any
FilterRules(selected, ignored, special, customs) ==
    LET some == IF selected = {} THEN GetDefaultRules ELSE selectRules(GetDefaultRules, selected)
        all == addCustomRules(ignoreRules(some, ignored),
                              Selected(completeQueriesFields(customs), selected, ignored))
    IN  <<all, SpecialOf(special)>>

\* by name or tag, not by ID
filterIgnoredRules(lists, additional) ==
    [n \in DOMAIN lists |->
        ById({r \in Range(lists[n]) : ({r.name} \cup r.tags) \cap additional = {}})]

\* --regex: rules without keywords, tags or allow lists
createCustomRegexRules(patterns) == ById(patterns)

-----------------------------------------------------------------------------
\* the name of a rule, or what takes its place
NamesOf(r) ==
    LET overridden == {q \in AllRules : q.id = r.id /\ ~q.deprecated}
    IN  IF r.name # Unnamed THEN {r.name}
        ELSE IF overridden # {} THEN {q.name : q \in overridden}
        ELSE {Unnamed, r.id}

\* A rule is asked for if it is selected and not ignored, by its ID, its name (for an
\* override without one, that of the default rule) or a tag, and is not deprecated.
Asked(r, config) ==
    LET In(strings) == (NamesOf(r) \cup {r.id} \cup r.tags) \cap strings # {}
    IN  ~r.deprecated /\ ~In(config.ignored) /\ (config.selected # {} => In(config.selected))

\* Of the user's rules with one ID that are asked for, the last one runs, and then the
\* default rule of that ID does not; a default rule runs only if it is asked for
\* itself.  Special rules and --regex patterns are not subject to the lists
\* (FilterRules, initEngine).
RunsAsAsked(rules, config) ==
    LET Own(i) == {k \in DOMAIN config.customs :
                      config.customs[k].id = i /\ Asked(config.customs[k], config)}
        Free == config.patterns \cup {r \in SpecialRules : r.name \in config.special}
        Same(r, q) == \A x \in DOMAIN q \ {"name"} : r[x] = q[x]
    IN  \A i \in DOMAIN rules :
            \/ rules[i] \in Free
            \/ Own(i) = {} /\ rules[i] \in AllRules /\ rules[i].id = i /\ Asked(rules[i], config)
            \/ \E k \in Own(i) : (\A m \in Own(i) : m <= k) /\ Same(rules[i], config.customs[k])

\* A rule that is asked for runs, or another one of its ID, unless one of this ID that
\* is asked for is ignored additionally: what is ignored or selected for an override
\* only takes nothing away from the rule it overrides, and what is ignored for a
\* special rule nothing from the user's rule of its ID (FilterRules, initEngine).
AskedForRuns(rules, config) ==
    LET Known == AllRules \cup Range(config.customs)
        Dropped(r) == (NamesOf(r) \cup r.tags) \cap config.additional # {}
    IN  \A r \in Known : Asked(r, config) =>
            \/ r.id \in DOMAIN rules
            \/ \E q \in Known : q.id = r.id /\ Asked(q, config) /\ Dropped(q)
=============================================================================
