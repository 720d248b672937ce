-------------------------- MODULE SecretEvaluation --------------------------
(***************************************************************************)
(* What happens to the fields of a secret after it is found: the extras    *)
(* goroutine (engine.go: processSecretsExtras) and the evaluation          *)
(* goroutine (processSecretsEvaluation) work on the same secrets, in the   *)
(* same order but each at its own pace.  The evaluation asks a service     *)
(* whether the secret is live (engine/validation) and derives severity and *)
(* CVSS score from the answer (engine/score); the secrets of rules that    *)
(* only make sense in pairs are collected and validated at the very end.   *)
(*                                                                         *)
(* Scores are in tenths; a severity is its index in SeverityOrder, from    *)
(* Critical (1) to Info (5).  ExtraDetails is a map that may be nil: the   *)
(* set of its keys, and whether it was made.                               *)
(***************************************************************************)
EXTENDS Integers, Sequences, FiniteSetsExt

CONSTANTS
    Secrets,
    Rule, Source,                    \* the RuleID and the source of each secret
    Disabled,                        \* the rules with disableValidation
    Orders,                          \* the orders in which the secrets may arrive
    ScoredRules,                     \* the rules the scorer was made with; --regex rules are not
    Category, RuleType, RuleSeverity \* of each scored rule

NoStatus == ""                       \* a secret that was never validated

VARIABLES
    order, validating,               \* the arrivals; is --validate on
    evaluated, pc,                   \* the evaluation goroutine
    annotated,                       \* the extras goroutine
    hasDetails, details,             \* ExtraDetails
    status, extraData,               \* the validator's answer
    severity, cvss,
    pairs                            \* the pairs collector

vars == <<order, validating, evaluated, pc, annotated, hasDetails, details,
          status, extraData, severity, cvss, pairs>>

detailVars == <<hasDetails, details>>
scoreVars == <<severity, cvss>>

-----------------------------------------------------------------------------
(* The rules the code names.                                               *)

\* Mutant: the claims are also added to GitLab tokens.
RulesWithMoreExtras == {"jwt", "gitlab-pat"}

\* extra.RuleIDToFunction
RulesWithExtras == {"jwt"}

\* validation.ruleIDToFunction
ValidatedRules == {"github-pat", "github-fine-grained-pat", "gitlab-pat", "gcp-api-key"}

\* an answer of a service: its status code, zero if there is none, whether its body
\* can be read, and whether the body holds the detail that is looked for
Answers == [code : {0, 200, 400, 403, 404, 500}, readable : BOOLEAN, found : BOOLEAN]

\* what a validator makes of an answer: a status, and whether it has extra data
validateGithub(a) ==
    <<CASE a.code = 0 -> "Unknown" [] a.code = 200 -> "Valid" [] OTHER -> "Invalid", FALSE>>

validateGitlab(a) == <<validateGithub(a)[1], a.code = 200 /\ a.readable /\ a.found>>

\* a key that is known but not allowed is live
validateGCP(a) ==
    IF a.code # 403 THEN validateGithub(a)
    ELSE IF a.readable THEN <<"Valid", a.found>> ELSE <<"Unknown", FALSE>>

alibabaRequest(a) ==
    CASE a.code = 200 -> "Valid" [] a.code \in {400, 404} -> "Invalid" [] OTHER -> "Unknown"

Replies(rule) ==
    {CASE rule = "gitlab-pat" -> validateGitlab(a)
       [] rule = "gcp-api-key" -> validateGCP(a)
       [] OTHER -> validateGithub(a) : a \in Answers}

AccessKeyRule == "a093db05-dd07-4cb5-a387-05749c098546"
SecretKeyRule == "29adbc13-0261-418a-b04d-02506551295d"

\* validation.ruleToGeneralKey: one group, "alibaba"
PairRules == {AccessKeyRule, SecretKeyRule}

\* Mutant: the pairs are looked up by the IDs they are collected under.
LookupByID == <<AccessKeyRule, SecretKeyRule>>

\* validateAlibaba looks its keys up by these
AlibabaKeys == <<"alibaba-access-key-id", "alibaba-secret-key">>

\* a --regex rule has an ID of its own, which is neither validated nor paired
ASSUME EvaluationAssumption ==
    /\ Orders \subseteq Seq(Secrets)
    /\ \A o \in Orders : \A m, n \in DOMAIN o : o[m] = o[n] => m = n     \* each arrives once
    /\ \A s \in Secrets : Rule[s] \in ValidatedRules \cup PairRules => Rule[s] \in ScoredRules
    /\ Category \in [ScoredRules -> 1..4] /\ RuleType \in [ScoredRules -> 1..4]
    /\ RuleSeverity \in [ScoredRules -> 1..5]

-----------------------------------------------------------------------------
(* engine/score                                                            *)

GetValidityScore(base, result) ==
    CASE result = "Valid" -> Min({10, 40 - base})
      [] result = "Invalid" -> Max({-10, 10 - base})
      [] OTHER -> 0

\* a rule that is not in the scorer's map has the zero value
BaseRiskScore(rule) ==
    IF rule \in ScoredRules THEN Category[rule] * 6 + RuleType[rule] * 4 ELSE 0

GetCvssScore(rule, result) ==
    LET base == BaseRiskScore(rule) IN (base + GetValidityScore(base, result) - 10) * 3 + 10

\* Mutant: the index moves the other way.
LoweredSeverity(rule, result) ==
    LET index == IF rule \in ScoredRules THEN RuleSeverity[rule] ELSE 2
    IN  CASE result = "Valid" -> Min({5, index + 1})
          [] result = "Invalid" -> Max({1, index - 1})
          [] OTHER -> index

GetSeverity(rule, result) ==
    LET index == IF rule \in ScoredRules THEN RuleSeverity[rule] ELSE 2   \* High
    IN  CASE result = "Valid" -> Max({1, index - 1})
          [] result = "Invalid" -> Min({5, index + 1})
          [] OTHER -> index

-----------------------------------------------------------------------------
FirstStep == IF validating THEN "register" ELSE "score"

Init ==
    /\ order \in Orders /\ validating \in BOOLEAN
    /\ evaluated = 0 /\ annotated = 0 /\ pc = FirstStep
    /\ hasDetails = [s \in Secrets |-> FALSE] /\ details = [s \in Secrets |-> {}]
    /\ status = [s \in Secrets |-> NoStatus] /\ extraData = [s \in Secrets |-> FALSE]
    /\ severity = [s \in Secrets |-> 0] /\ cvss = [s \in Secrets |-> 0]
    /\ pairs = <<>>

\* the secret in the evaluation goroutine's hands
Current == order[evaluated + 1]

At(state) == pc = state /\ evaluated < Len(order)

\* the service is asked, with no lock held, for as long as it takes
RequestValidation ==
    /\ At("register") /\ Rule[Current] \in ValidatedRules \ Disabled
    /\ \E reply \in Replies(Rule[Current]) :
          /\ status' = [status EXCEPT ![Current] = reply[1]]
          /\ extraData' = [extraData EXCEPT ![Current] = reply[2]]
          /\ pc' = IF reply[2] THEN "check" ELSE "score"
    /\ UNCHANGED <<detailVars, pairs>>

CollectPair ==
    /\ At("register") /\ Rule[Current] \in PairRules
    /\ pairs' = Append(pairs, Current)
    /\ pc' = "score"
    /\ UNCHANGED <<detailVars, status, extraData>>

CannotValidate ==
    /\ At("register") /\ Rule[Current] \notin (ValidatedRules \ Disabled) \cup PairRules
    /\ status' = [status EXCEPT ![Current] = "Unknown"]
    /\ pc' = "score"
    /\ UNCHANGED <<detailVars, extraData, pairs>>

\* addExtraToSecret: the map is looked at and made without the secret's mutex
CheckDetails ==
    /\ At("check")
    /\ pc' = IF hasDetails[Current] THEN "update" ELSE "make"
    /\ UNCHANGED <<detailVars, status, extraData, pairs>>

MakeDetails ==
    /\ At("make")
    /\ hasDetails' = [hasDetails EXCEPT ![Current] = TRUE]
    /\ details' = [details EXCEPT ![Current] = {}]
    /\ pc' = "update"
    /\ UNCHANGED <<status, extraData, pairs>>

\* UpdateExtraField, under the secret's mutex
UpdateExtraField(s, name) ==
    /\ hasDetails' = [hasDetails EXCEPT ![s] = TRUE]
    /\ details' = [details EXCEPT ![s] = @ \cup {name}]

AddValidationDetails ==
    /\ At("update")
    /\ UpdateExtraField(Current, "validationDetails")
    /\ pc' = "score"
    /\ UNCHANGED <<status, extraData, pairs>>

RegisterForValidation ==
    /\ \/ RequestValidation \/ CollectPair \/ CannotValidate
       \/ CheckDetails \/ MakeDetails \/ AddValidationDetails
    /\ UNCHANGED <<order, validating, evaluated, annotated, scoreVars>>

AssignScoreAndSeverity ==
    LET result == IF validating THEN status[Current] ELSE "Unknown" IN
    /\ At("score")
    /\ severity' = [severity EXCEPT ![Current] = GetSeverity(Rule[Current], result)]
    /\ cvss' = [cvss EXCEPT ![Current] = GetCvssScore(Rule[Current], result)]
    /\ evaluated' = evaluated + 1
    /\ pc' = FirstStep
    /\ UNCHANGED <<order, validating, annotated, detailVars, status, extraData, pairs>>

-----------------------------------------------------------------------------
(* Validate, after the last secret: validateAlibaba, source by source.     *)

\* the best of some answers: Valid before Invalid before Unknown (CompareTo)
Best(results) == CASE "Valid" \in results -> "Valid"
                   [] "Invalid" \in results -> "Invalid"
                   [] OTHER -> "Unknown"

Collected(rule) == {n \in DOMAIN pairs : Rule[pairs[n]] = rule}

SameSource(m, n) == Source[pairs[m]] = Source[pairs[n]]

\* Every access key gets the best answer of its source's secret keys, every
\* secret key the answer it got with the last access key.
Validate ==
    LET accessKeys == Collected(AlibabaKeys[1])
        secretKeys == Collected(AlibabaKeys[2])
        Requests == {p \in accessKeys \X secretKeys : SameSource(p[1], p[2])}
    IN
    /\ validating /\ evaluated = Len(order) /\ pc = "register"
    /\ \E answer \in [Requests -> {alibabaRequest(a) : a \in Answers}] :
          LET AccessKeyStatus(n) == Best({answer[p] : p \in {p \in Requests : p[1] = n}})
              AskedWith(n) == {p[1] : p \in {p \in Requests : p[2] = n}}
              StatusOf(n) == IF n \in accessKeys THEN AccessKeyStatus(n)
                             ELSE answer[<<Max(AskedWith(n)), n>>]
              settled == accessKeys \cup {n \in secretKeys : AskedWith(n) # {}}
          IN  status' = [s \in Secrets |->
                  IF \E n \in settled : pairs[n] = s
                  THEN StatusOf(CHOOSE n \in settled : pairs[n] = s) ELSE status[s]]
    /\ pc' = "done"
    /\ UNCHANGED <<order, validating, evaluated, annotated, detailVars, extraData, scoreVars, pairs>>

-----------------------------------------------------------------------------
\* processSecretsExtras: what a rule has to add goes into ExtraDetails.
AddExtras ==
    LET s == order[annotated + 1] IN
    /\ annotated < Len(order)
    /\ annotated' = annotated + 1
    /\ IF Rule[s] \in RulesWithExtras THEN UpdateExtraField(s, "secretDetails")
                                      ELSE UNCHANGED detailVars
    /\ UNCHANGED <<order, validating, evaluated, pc, status, extraData, scoreVars, pairs>>

Finished == /\ annotated = Len(order) /\ evaluated = Len(order)
            /\ validating => pc = "done"

Ended == Finished /\ UNCHANGED vars

Next == RegisterForValidation \/ AssignScoreAndSeverity \/ Validate \/ AddExtras \/ Ended

Spec == Init /\ [][Next]_vars

-----------------------------------------------------------------------------
(* Properties.                                                             *)

Arrived(n) == {order[k] : k \in 1..n}

\* What was added to a secret stays: the evaluation goroutine replaces a nil map
\* without the mutex, between any two steps of the extras goroutine, and must not
\* throw away what that one has just put there (nor the other way round).
ExtrasSurvive ==
    /\ \A s \in Arrived(annotated) : Rule[s] \in RulesWithExtras => "secretDetails" \in details[s]
    /\ \A s \in Arrived(evaluated) : extraData[s] => "validationDetails" \in details[s]

\* The severity and the score in the report are those of the status in the
\* report: nothing sets a status after AssignScoreAndSeverity has read it,
\* although Validate runs after all of them.
ScoreMatchesFinalStatus ==
    Finished => \A s \in Arrived(Len(order)) :
        LET result == IF validating THEN status[s] ELSE "Unknown"
        IN  /\ severity[s] = GetSeverity(Rule[s], result)
            /\ cvss[s] = GetCvssScore(Rule[s], result)

\* A secret found live is never ranked below one of the same rule that is not
\* known to be, nor that one below a dead one.
LiveSecretsRankHigher ==
    \A s, t \in Arrived(evaluated) :
        Rule[s] = Rule[t] /\ (status[s] = "Valid" \/ status[t] = "Invalid") =>
            severity[s] <= severity[t] /\ cvss[s] >= cvss[t]
=============================================================================
