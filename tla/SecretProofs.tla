---------------------------- MODULE SecretProofs ----------------------------
(***************************************************************************)
(* Proofs about SecretEvaluation and Detection, for all secrets, rules,    *)
(* configurations, texts and orders.                                       *)
(***************************************************************************)
EXTENDS SecretEvaluation, Detection, FiniteSetTheorems, SequenceTheorems,
        WellFoundedInduction, TLAPS

(* The secrets and their evaluation.                                       *)

Statuses == {"Valid", "Invalid", "Unknown"}

-----------------------------------------------------------------------------
(* Facts about the operators of SecretEvaluation.                          *)

\* Whatever a service answers, a validator makes one of three statuses of it.
LEMMA ReplyStatus == ASSUME NEW rule, NEW reply \in Replies(rule) PROVE reply[1] \in Statuses
  <1>1. \A a \in Answers : validateGithub(a)[1] \in Statuses
    BY DEF validateGithub, Statuses
  <1>2. \A a \in Answers : validateGitlab(a)[1] \in Statuses
    BY <1>1 DEF validateGitlab
  <1>3. \A a \in Answers : validateGCP(a)[1] \in Statuses
    <2> SUFFICES ASSUME NEW a \in Answers PROVE validateGCP(a)[1] \in Statuses
      OBVIOUS
    <2>1. CASE a.code # 403
      BY <1>1, <2>1 DEF validateGCP
    <2>2. CASE a.code = 403 /\ a.readable
      BY <2>2 DEF validateGCP, Statuses
    <2>3. CASE a.code = 403 /\ ~a.readable
      BY <2>3 DEF validateGCP, Statuses
    <2> QED
      BY <2>1, <2>2, <2>3
  <1>4. PICK a \in Answers :
            reply = CASE rule = "gitlab-pat" -> validateGitlab(a)
                      [] rule = "gcp-api-key" -> validateGCP(a)
                      [] OTHER -> validateGithub(a)
    BY DEF Replies
  <1> QED
    BY <1>1, <1>2, <1>3, <1>4

LEMMA MaxOfTwo == ASSUME NEW a \in Int, NEW b \in Int
                  PROVE  Max({a, b}) = IF a >= b THEN a ELSE b
  BY DEF Max

LEMMA MinOfTwo == ASSUME NEW a \in Int, NEW b \in Int
                  PROVE  Min({a, b}) = IF a <= b THEN a ELSE b
  BY DEF Min

\* A status only moves a score and a severity the way it should, and never beyond
\* the bounds, which is where the way could be lost.
LEMMA RanksFollowStatus ==
  ASSUME NEW r \in ScoredRules, NEW a, NEW b, a = "Valid" \/ b = "Invalid"
  PROVE  GetSeverity(r, a) <= GetSeverity(r, b) /\ GetCvssScore(r, a) >= GetCvssScore(r, b)
  <1>1. RuleSeverity[r] \in 1..5 /\ Category[r] \in 1..4 /\ RuleType[r] \in 1..4
    BY EvaluationAssumption DEF EvaluationAssumption
  <1>2. BaseRiskScore(r) \in 10..40
    BY <1>1 DEF BaseRiskScore
  <1>3. GetSeverity(r, a) <= GetSeverity(r, b)
    <2>1. Max({1, RuleSeverity[r] - 1}) \in 1..RuleSeverity[r]
      BY <1>1, MaxOfTwo
    <2>2. Min({5, RuleSeverity[r] + 1}) \in RuleSeverity[r]..5
      BY <1>1, MinOfTwo
    <2> QED
      BY <1>1, <2>1, <2>2 DEF GetSeverity
  <1>4. GetCvssScore(r, a) >= GetCvssScore(r, b)
    <2> DEFINE base == BaseRiskScore(r)
    <2> HIDE DEF base
    <2>1. base \in 10..40
      BY <1>2 DEF base
    <2>2. Min({10, 40 - base}) \in 0..10
      BY <2>1, MinOfTwo
    <2>3. Max({-10, 10 - base}) \in (-10)..0
      BY <2>1, MaxOfTwo
    <2>4. GetValidityScore(base, a) >= GetValidityScore(base, b)
          /\ GetValidityScore(base, a) \in Int /\ GetValidityScore(base, b) \in Int
      BY <2>2, <2>3 DEF GetValidityScore
    <2> QED
      BY <2>1, <2>4 DEF GetCvssScore, base
  <1> QED
    BY <1>3, <1>4

-----------------------------------------------------------------------------
(* The inductive invariant.  Its parts: where the two goroutines are, what *)
(* the evaluation has done for the secret in its hands, and that no secret *)
(* is touched before its turn.                                             *)

Types ==
    /\ order \in Orders /\ validating \in BOOLEAN
    /\ evaluated \in 0..Len(order) /\ annotated \in 0..Len(order)
    /\ pc \in {"register", "check", "make", "update", "score", "done"}
    /\ details \in [Secrets -> SUBSET {"secretDetails", "validationDetails"}]
    /\ DOMAIN extraData = Secrets /\ status \in [Secrets -> Statuses \cup {NoStatus}]
    /\ DOMAIN severity = Secrets /\ DOMAIN cvss = Secrets
    /\ pairs \in Seq(Secrets)

\* only a rule with a validator gets as far as its details
AddsDetails == pc \in {"check", "make", "update"} =>
                   evaluated < Len(order) /\ Rule[Current] \in ValidatedRules

InTurn ==
    /\ \A n \in (evaluated + 2)..Len(order) : ~extraData[order[n]]
    /\ evaluated < Len(order) /\ extraData[Current] =>
          /\ pc # "register"
          /\ pc = "score" => "validationDetails" \in details[Current]
    /\ pc = "done" => evaluated = Len(order)

PairsAreOfPairs == \A n \in DOMAIN pairs : Rule[pairs[n]] \in PairRules

\* where a status can come from
StatusIsOfRule ==
    /\ \A s \in Secrets :
        status[s] \in {"Valid", "Invalid"} => Rule[s] \in ValidatedRules /\ validating
    /\ ~validating => pc = "score"

ResultOf(s) == IF validating THEN status[s] ELSE "Unknown"

ScoresAreOfStatus ==
    \A n \in 1..evaluated :
        /\ severity[order[n]] = GetSeverity(Rule[order[n]], ResultOf(order[n]))
        /\ cvss[order[n]] = GetCvssScore(Rule[order[n]], ResultOf(order[n]))

IInv == /\ Types /\ ExtrasSurvive /\ AddsDetails /\ InTurn
        /\ PairsAreOfPairs /\ StatusIsOfRule /\ ScoresAreOfStatus

LEMMA InitHolds == Init => IInv
  <1> SUFFICES ASSUME Init PROVE IInv
    OBVIOUS
  <1>1. order \in Seq(Secrets) /\ Len(order) \in Nat
    BY EvaluationAssumption DEF Init, EvaluationAssumption
  <1>2. pc \in {"register", "score"} /\ (~validating => pc = "score")
    BY DEF Init, FirstStep
  <1>3. Types
    BY <1>1, <1>2 DEF Init, Types
  <1>4. \A n \in 1..Len(order) : order[n] \in Secrets
    BY <1>1
  <1>5. ExtrasSurvive /\ ScoresAreOfStatus
    BY DEF Init, ExtrasSurvive, Arrived, ScoresAreOfStatus
  <1>6. InTurn
    BY <1>1, <1>2, <1>4 DEF Init, InTurn, Current
  <1>7. PairsAreOfPairs /\ AddsDetails
    BY <1>2 DEF Init, PairsAreOfPairs, AddsDetails
  <1>8. StatusIsOfRule
    <2>1. \A s \in Secrets : status[s] = ""
      BY DEF Init, NoStatus
    <2> QED
      BY <1>2, <2>1 DEF StatusIsOfRule
  <1> QED
    BY <1>3, <1>5, <1>6, <1>7, <1>8 DEF IInv

\* Each secret has one turn.
LEMMA OneTurn ==
  ASSUME Types
  PROVE  /\ Len(order) \in Nat /\ evaluated \in Nat /\ annotated \in Nat
         /\ \A n \in 1..Len(order) : order[n] \in Secrets
         /\ \A m, n \in 1..Len(order) : order[m] = order[n] => m = n
         /\ evaluated < Len(order) =>
                evaluated + 1 \in 1..Len(order) /\ Current \in Secrets
  <1>1. order \in Seq(Secrets) /\ DOMAIN order = 1..Len(order) /\ Len(order) \in Nat
    BY EvaluationAssumption DEF Types, EvaluationAssumption
  <1>2. evaluated \in Nat /\ annotated \in Nat
    BY <1>1 DEF Types
  <1>3. \A n \in 1..Len(order) : order[n] \in Secrets
    BY <1>1
  <1>4. \A m, n \in 1..Len(order) : order[m] = order[n] => m = n
    BY <1>1, EvaluationAssumption DEF Types, EvaluationAssumption
  <1> QED
    BY <1>1, <1>2, <1>3, <1>4 DEF Current

\* What every step of RegisterForValidation leaves as it was: all but the secret in
\* its hands.
LEMMA OthersUntouched ==
  ASSUME IInv, RegisterForValidation
  PROVE  /\ evaluated < Len(order) /\ pc \in {"register", "check", "make", "update"}
         /\ \A n \in 1..Len(order) : n # evaluated + 1 =>
                /\ details'[order[n]] = details[order[n]]
                /\ status'[order[n]] = status[order[n]]
                /\ extraData'[order[n]] = extraData[order[n]]
  <1>1. Types
    BY DEF IInv
  <1>2. evaluated < Len(order) /\ pc \in {"register", "check", "make", "update"}
    BY DEF RegisterForValidation, RequestValidation, CollectPair, CannotValidate, CheckDetails,
           MakeDetails, AddValidationDetails, At
  <1>3. ASSUME NEW n \in 1..Len(order), n # evaluated + 1 PROVE order[n] # Current
    BY <1>1, <1>2, <1>3, OneTurn DEF Current
  <1>4. ASSUME NEW n \in 1..Len(order), n # evaluated + 1
        PROVE  /\ details'[order[n]] = details[order[n]]
               /\ status'[order[n]] = status[order[n]]
               /\ extraData'[order[n]] = extraData[order[n]]
    <2>1. order[n] \in Secrets /\ order[n] # Current
      BY <1>1, <1>3, <1>4, OneTurn
    <2> USE <2>1 DEF Types, detailVars
    <2>2. CASE RequestValidation
      BY <1>1, <2>2 DEF RequestValidation
    <2>3. CASE CollectPair \/ CannotValidate \/ CheckDetails
      BY <1>1, <2>3 DEF CollectPair, CannotValidate, CheckDetails
    <2>4. CASE MakeDetails \/ AddValidationDetails
      BY <1>1, <2>4 DEF MakeDetails, AddValidationDetails, UpdateExtraField
    <2> QED
      BY <2>2, <2>3, <2>4 DEF RegisterForValidation
  <1> QED
    BY <1>2, <1>4

LEMMA RegisterTypes == IInv /\ RegisterForValidation => Types'
  <1> SUFFICES ASSUME IInv, RegisterForValidation PROVE Types'
    OBVIOUS
  <1>1. Types
    BY DEF IInv
  <1>2. evaluated < Len(order) /\ Current \in Secrets
    BY <1>1, OthersUntouched, OneTurn
  <1> USE <1>2 DEF Types, At, detailVars, scoreVars, Statuses
  <1>3. CASE RequestValidation
    <2>1. PICK reply \in Replies(Rule[Current]) :
              /\ status' = [status EXCEPT ![Current] = reply[1]]
              /\ extraData' = [extraData EXCEPT ![Current] = reply[2]]
              /\ pc' = IF reply[2] THEN "check" ELSE "score"
      BY <1>3 DEF RequestValidation
    <2>2. reply[1] \in Statuses
      BY ReplyStatus
    <2> QED
      BY <1>1, <1>3, <2>1, <2>2 DEF RequestValidation, RegisterForValidation
  <1>4. CASE CollectPair
    BY <1>1, <1>4 DEF CollectPair, RegisterForValidation
  <1>5. CASE CannotValidate \/ CheckDetails
    BY <1>1, <1>5 DEF CannotValidate, CheckDetails, RegisterForValidation
  <1>6. CASE MakeDetails \/ AddValidationDetails
    BY <1>1, <1>6 DEF MakeDetails, AddValidationDetails, UpdateExtraField, RegisterForValidation
  <1> QED
    BY <1>3, <1>4, <1>5, <1>6 DEF RegisterForValidation

LEMMA RegisterKeeps == IInv /\ RegisterForValidation => IInv'
  <1> SUFFICES ASSUME IInv, RegisterForValidation PROVE IInv'
    OBVIOUS
  <1>1. Types /\ Types'
    BY RegisterTypes DEF IInv
  <1>2. UNCHANGED <<order, validating, evaluated, annotated, severity, cvss>> /\ Current' = Current
    BY DEF RegisterForValidation, scoreVars, Current
  <1>3. evaluated < Len(order) /\ Current \in Secrets /\ evaluated + 1 \in 1..Len(order)
    BY <1>1, OthersUntouched, OneTurn
  <1>4. \A n \in 1..Len(order) : n # evaluated + 1 =>
            /\ details'[order[n]] = details[order[n]] /\ status'[order[n]] = status[order[n]]
            /\ extraData'[order[n]] = extraData[order[n]]
    BY OthersUntouched
  <1>5. Rule[Current] \in RulesWithExtras => Rule[Current] \notin ValidatedRules
    BY DEF RulesWithExtras, ValidatedRules
  <1>6. ExtrasSurvive'
    <2>1. "secretDetails" \in details[Current] /\ Rule[Current] \in RulesWithExtras
              => "secretDetails" \in details'[Current]
      <3>1. CASE MakeDetails
        BY <1>5, <3>1 DEF MakeDetails, At, IInv, AddsDetails
      <3>2. CASE AddValidationDetails
        BY <1>1, <1>3, <3>2 DEF AddValidationDetails, UpdateExtraField, Types
      <3>3. CASE UNCHANGED details
        BY <3>3
      <3> QED
        BY <3>1, <3>2, <3>3 DEF RegisterForValidation, RequestValidation, CollectPair,
             CannotValidate, CheckDetails, detailVars
    <2>2. ASSUME NEW n \in 1..annotated, Rule[order[n]] \in RulesWithExtras
          PROVE  "secretDetails" \in details'[order[n]]
      <3>1. "secretDetails" \in details[order[n]] /\ n \in 1..Len(order)
        BY <1>1, <2>2, OneTurn DEF IInv, ExtrasSurvive, Arrived, Types
      <3> QED
        BY <1>4, <2>1, <2>2, <3>1 DEF Current
    <2>3. ASSUME NEW n \in 1..evaluated, extraData'[order[n]]
          PROVE  "validationDetails" \in details'[order[n]]
      <3>1. n \in 1..Len(order) /\ n # evaluated + 1
        BY <1>1, <1>3, OneTurn
      <3> QED
        BY <1>4, <2>3, <3>1 DEF IInv, ExtrasSurvive, Arrived
    <2> QED
      BY <1>2, <2>2, <2>3 DEF ExtrasSurvive, Arrived
  <1>7. AddsDetails'
    <2>1. CASE RequestValidation
      BY <1>2, <1>3, <2>1 DEF RequestValidation, AddsDetails
    <2>2. CASE CollectPair \/ CannotValidate \/ AddValidationDetails
      BY <1>2, <2>2 DEF CollectPair, CannotValidate, AddValidationDetails, AddsDetails
    <2>3. CASE CheckDetails \/ MakeDetails
      BY <1>2, <1>3, <2>3 DEF CheckDetails, MakeDetails, At, AddsDetails, IInv
    <2> QED
      BY <2>1, <2>2, <2>3 DEF RegisterForValidation
  <1>8. InTurn'
    <2>1. ASSUME NEW n \in (evaluated + 2)..Len(order) PROVE ~extraData'[order[n]]
      <3>1. n \in 1..Len(order) /\ n # evaluated + 1
        BY <1>1, OneTurn
      <3> QED
        BY <1>4, <3>1 DEF IInv, InTurn
    <2>2. pc' # "register" /\ pc' # "done"
      BY DEF RegisterForValidation, RequestValidation, CollectPair, CannotValidate, CheckDetails,
             MakeDetails, AddValidationDetails
    <2>3. extraData'[Current] /\ pc' = "score" => "validationDetails" \in details'[Current]
      <3>1. CASE RequestValidation
        <4>1. PICK reply \in Replies(Rule[Current]) :
                  /\ extraData' = [extraData EXCEPT ![Current] = reply[2]]
                  /\ pc' = IF reply[2] THEN "check" ELSE "score"
          BY <3>1 DEF RequestValidation
        <4>2. extraData'[Current] = reply[2]
          BY <1>1, <1>3, <4>1 DEF Types
        <4> QED
          BY <4>1, <4>2
      <3>2. CASE CollectPair \/ CannotValidate
        BY <1>3, <3>2 DEF CollectPair, CannotValidate, At, IInv, InTurn
      <3>3. CASE CheckDetails \/ MakeDetails
        BY <3>3 DEF CheckDetails, MakeDetails
      <3>4. CASE AddValidationDetails
        BY <1>1, <1>3, <3>4 DEF AddValidationDetails, UpdateExtraField, Types
      <3> QED
        BY <3>1, <3>2, <3>3, <3>4 DEF RegisterForValidation
    <2> QED
      BY <1>2, <2>1, <2>2, <2>3 DEF InTurn
  <1>9. PairsAreOfPairs'
    <2>1. CASE CollectPair
      <3>1. pairs \in Seq(Secrets) /\ pairs' = Append(pairs, Current) /\ Rule[Current] \in PairRules
        BY <1>1, <2>1 DEF CollectPair, Types
      <3>2. \A n \in DOMAIN pairs' : pairs'[n] = Current \/ (n \in DOMAIN pairs /\ pairs'[n] = pairs[n])
        BY <1>3, <3>1
      <3> QED
        BY <3>1, <3>2 DEF IInv, PairsAreOfPairs
    <2>2. CASE UNCHANGED pairs
      BY <2>2 DEF IInv, PairsAreOfPairs
    <2> QED
      BY <2>1, <2>2 DEF RegisterForValidation, RequestValidation, CannotValidate, CheckDetails,
           MakeDetails, AddValidationDetails
  <1>10. StatusIsOfRule'
    <2>1. validating
      BY OthersUntouched DEF IInv, StatusIsOfRule
    <2>2. ASSUME NEW s \in Secrets, status'[s] \in {"Valid", "Invalid"}
          PROVE  Rule[s] \in ValidatedRules
      <3>1. CASE RequestValidation
        BY <1>1, <2>2, <3>1 DEF RequestValidation, IInv, StatusIsOfRule, Types
      <3>2. CASE CannotValidate
        BY <1>1, <2>2, <3>2 DEF CannotValidate, IInv, StatusIsOfRule, Types
      <3>3. CASE UNCHANGED status
        BY <2>2, <3>3 DEF IInv, StatusIsOfRule
      <3> QED
        BY <3>1, <3>2, <3>3 DEF RegisterForValidation, CollectPair, CheckDetails, MakeDetails,
             AddValidationDetails
    <2> QED
      BY <1>2, <2>1, <2>2 DEF StatusIsOfRule
  <1>11. ScoresAreOfStatus'
    <2>1. ASSUME NEW n \in 1..evaluated
          PROVE  /\ severity[order[n]] = GetSeverity(Rule[order[n]], ResultOf(order[n])')
                 /\ cvss[order[n]] = GetCvssScore(Rule[order[n]], ResultOf(order[n])')
      <3>1. n \in 1..Len(order) /\ n # evaluated + 1
        BY <1>1, <1>3, OneTurn
      <3>2. ResultOf(order[n])' = ResultOf(order[n])
        BY <1>2, <1>4, <3>1 DEF ResultOf
      <3> QED
        BY <3>2 DEF IInv, ScoresAreOfStatus
    <2> QED
      BY <1>2, <2>1 DEF ScoresAreOfStatus
  <1> QED
    BY <1>1, <1>6, <1>7, <1>8, <1>9, <1>10, <1>11 DEF IInv

LEMMA AssignKeeps == IInv /\ AssignScoreAndSeverity => IInv'
  <1> SUFFICES ASSUME IInv, AssignScoreAndSeverity PROVE IInv'
    OBVIOUS
  <1>1. /\ Types /\ evaluated < Len(order) /\ pc = "score"
        /\ evaluated' = evaluated + 1 /\ pc' = FirstStep
        /\ severity' = [severity EXCEPT ![Current] = GetSeverity(Rule[Current], ResultOf(Current))]
        /\ cvss' = [cvss EXCEPT ![Current] = GetCvssScore(Rule[Current], ResultOf(Current))]
        /\ UNCHANGED <<order, validating, annotated, hasDetails, details, status, extraData, pairs>>
    BY DEF IInv, AssignScoreAndSeverity, At, ResultOf, detailVars
  <1>2. /\ Len(order) \in Nat /\ evaluated \in Nat /\ Current \in Secrets
        /\ evaluated + 1 \in 1..Len(order) /\ Current = order[evaluated + 1]
        /\ \A n \in 1..Len(order) : order[n] \in Secrets
        /\ \A n \in 1..Len(order) : n # evaluated + 1 => order[n] # Current
    BY <1>1, OneTurn DEF Current
  <1>3. FirstStep \in {"register", "score"} /\ (validating => FirstStep = "register")
        /\ (~validating => FirstStep = "score")
    BY DEF FirstStep
  <1>4. Types'
    BY <1>1, <1>2, <1>3 DEF Types
  <1>5. ExtrasSurvive'
    <2>1. \A n \in 1..annotated : Rule[order[n]] \in RulesWithExtras
                                      => "secretDetails" \in details[order[n]]
      BY DEF IInv, ExtrasSurvive, Arrived
    <2>2. \A n \in 1..evaluated : extraData[order[n]] => "validationDetails" \in details[order[n]]
      BY DEF IInv, ExtrasSurvive, Arrived
    <2>3. extraData[Current] => "validationDetails" \in details[Current]
      BY <1>1 DEF IInv, InTurn
    <2>4. \A n \in 1..(evaluated + 1) : n \in 1..evaluated \/ n = evaluated + 1
      BY <1>2
    <2>5. \A n \in 1..(evaluated + 1) :
              extraData[order[n]] => "validationDetails" \in details[order[n]]
      BY <1>2, <2>2, <2>3, <2>4
    <2> QED
      BY <1>1, <2>1, <2>5 DEF ExtrasSurvive, Arrived
  <1>6. AddsDetails'
    BY <1>1, <1>3 DEF AddsDetails
  <1>7. InTurn'
    <2>1. \A n \in (evaluated + 2)..Len(order) : ~extraData[order[n]]
      BY DEF IInv, InTurn
    <2>2. ASSUME NEW n \in ((evaluated + 1) + 2)..Len(order) PROVE ~extraData[order[n]]
      BY <1>2, <2>1
    <2>3. evaluated + 1 < Len(order) => ~extraData[order[(evaluated + 1) + 1]]
      BY <1>2, <2>1
    <2> QED
      BY <1>1, <1>3, <2>2, <2>3 DEF InTurn, Current
  <1>8. PairsAreOfPairs'
    BY <1>1 DEF IInv, PairsAreOfPairs
  <1>9. StatusIsOfRule'
    BY <1>1, <1>3 DEF IInv, StatusIsOfRule
  <1>10. ScoresAreOfStatus'
    <2>1. ASSUME NEW n \in 1..(evaluated + 1)
          PROVE  /\ severity'[order[n]] = GetSeverity(Rule[order[n]], ResultOf(order[n]))
                 /\ cvss'[order[n]] = GetCvssScore(Rule[order[n]], ResultOf(order[n]))
      <3>1. CASE n = evaluated + 1
        BY <1>1, <1>2, <3>1 DEF Types
      <3>2. CASE n \in 1..evaluated
        <4>1. order[n] \in Secrets /\ order[n] # Current
          BY <1>2, <3>2
        <4>2. /\ severity[order[n]] = GetSeverity(Rule[order[n]], ResultOf(order[n]))
              /\ cvss[order[n]] = GetCvssScore(Rule[order[n]], ResultOf(order[n]))
          BY <3>2 DEF IInv, ScoresAreOfStatus
        <4> QED
          BY <1>1, <4>1, <4>2 DEF Types
      <3> QED
        BY <1>2, <3>1, <3>2
    <2>2. \A s : ResultOf(s)' = ResultOf(s)
      BY <1>1 DEF ResultOf
    <2> QED
      BY <1>1, <2>1, <2>2 DEF ScoresAreOfStatus, ResultOf
  <1> QED
    BY <1>4, <1>5, <1>6, <1>7, <1>8, <1>9, <1>10 DEF IInv

\* The pairs are collected by ID and looked up by name: no status is ever set here.
LEMMA ValidateKeeps == IInv /\ Validate => IInv' /\ UNCHANGED status
  <1> SUFFICES ASSUME IInv, Validate PROVE IInv' /\ UNCHANGED status
    OBVIOUS
  <1> USE DEF detailVars, scoreVars
  <1>1. Collected(AlibabaKeys[1]) = {} /\ Collected(AlibabaKeys[2]) = {}
    BY DEF Collected, AlibabaKeys, IInv, PairsAreOfPairs, PairRules, AccessKeyRule, SecretKeyRule
  <1>2. status' = status
    <2>1. status' = [s \in Secrets |-> status[s]]
      BY <1>1 DEF Validate
    <2> QED
      BY <2>1 DEF IInv, Types
  <1>3. /\ pc' = "done" /\ evaluated = Len(order) /\ validating
        /\ UNCHANGED <<order, validating, evaluated, annotated, hasDetails, details, extraData,
                       severity, cvss, pairs>>
    BY DEF Validate
  <1>4. Types' /\ ExtrasSurvive' /\ AddsDetails' /\ PairsAreOfPairs' /\ StatusIsOfRule'
    BY <1>2, <1>3 DEF IInv, Types, ExtrasSurvive, Arrived, AddsDetails, PairsAreOfPairs,
       StatusIsOfRule
  <1>5. Len(order) \in Nat
    BY OneTurn DEF IInv
  <1>6. InTurn' /\ ScoresAreOfStatus'
    BY <1>2, <1>3, <1>5 DEF IInv, InTurn, Current, ScoresAreOfStatus, ResultOf
  <1> QED
    BY <1>2, <1>4, <1>6 DEF IInv

LEMMA AddExtrasKeeps == IInv /\ AddExtras => IInv'
  <1> SUFFICES ASSUME IInv, AddExtras PROVE IInv'
    OBVIOUS
  <1> DEFINE x == order[annotated + 1]
  <1>1. /\ Types /\ annotated < Len(order) /\ annotated' = annotated + 1
        /\ UNCHANGED <<order, validating, evaluated, pc, status, extraData, severity, cvss, pairs>>
    BY DEF IInv, AddExtras, scoreVars
  <1>2. /\ Len(order) \in Nat /\ annotated \in Nat /\ annotated + 1 \in 1..Len(order)
        /\ \A n \in 1..Len(order) : order[n] \in Secrets
    BY <1>1, OneTurn
  <1>3. x \in Secrets
    BY <1>2
  <1>4. /\ details' \in [Secrets -> SUBSET {"secretDetails", "validationDetails"}]
        /\ \A s \in Secrets : details[s] \subseteq details'[s]
        /\ Rule[x] \in RulesWithExtras => "secretDetails" \in details'[x]
    <2>1. details \in [Secrets -> SUBSET {"secretDetails", "validationDetails"}]
      BY <1>1 DEF Types
    <2>2. IF Rule[x] \in RulesWithExtras THEN UpdateExtraField(x, "secretDetails")
                                         ELSE UNCHANGED detailVars
      BY DEF AddExtras
    <2> HIDE DEF x
    <2> QED
      BY <1>3, <2>1, <2>2 DEF UpdateExtraField, detailVars
  <1>5. Types'
    BY <1>1, <1>2, <1>4 DEF Types
  <1>6. ExtrasSurvive'
    <2>1. ASSUME NEW n \in 1..(annotated + 1), Rule[order[n]] \in RulesWithExtras
          PROVE  "secretDetails" \in details'[order[n]]
      <3>1. CASE n = annotated + 1
        BY <1>4, <2>1, <3>1
      <3>2. CASE n \in 1..annotated
        BY <1>2, <1>4, <2>1, <3>2 DEF IInv, ExtrasSurvive, Arrived
      <3> QED
        BY <1>2, <3>1, <3>2
    <2>2. ASSUME NEW n \in 1..evaluated, extraData[order[n]]
          PROVE  "validationDetails" \in details'[order[n]]
      <3>1. n \in 1..Len(order)
        BY <1>1, <1>2 DEF Types
      <3> QED
        BY <1>2, <1>4, <2>2, <3>1 DEF IInv, ExtrasSurvive, Arrived
    <2> QED
      BY <1>1, <2>1, <2>2 DEF ExtrasSurvive, Arrived
  <1>7. InTurn'
    <2>1. evaluated < Len(order) => Current \in Secrets /\ details[Current] \subseteq details'[Current]
      BY <1>1, <1>4, OneTurn
    <2> QED
      BY <1>1, <2>1 DEF IInv, InTurn, Current
  <1>8. AddsDetails' /\ PairsAreOfPairs' /\ StatusIsOfRule' /\ ScoresAreOfStatus'
    BY <1>1 DEF IInv, AddsDetails, Current, PairsAreOfPairs, StatusIsOfRule, ScoresAreOfStatus,
       ResultOf
  <1> QED
    BY <1>5, <1>6, <1>7, <1>8 DEF IInv

LEMMA StepKeeps == IInv /\ [Next]_vars => IInv'
  <1> SUFFICES ASSUME IInv, [Next]_vars PROVE IInv'
    OBVIOUS
  <1>1. CASE RegisterForValidation
    BY <1>1, RegisterKeeps
  <1>2. CASE AssignScoreAndSeverity
    BY <1>2, AssignKeeps
  <1>3. CASE Validate
    BY <1>3, ValidateKeeps
  <1>4. CASE AddExtras
    BY <1>4, AddExtrasKeeps
  <1>5. CASE UNCHANGED vars
    BY <1>5 DEF vars, IInv, Types, ExtrasSurvive, Arrived, AddsDetails, InTurn, Current,
       PairsAreOfPairs, StatusIsOfRule, ScoresAreOfStatus, ResultOf
  <1> QED
    BY <1>1, <1>2, <1>3, <1>4, <1>5 DEF Next, Ended

-----------------------------------------------------------------------------
(* The theorems.                                                           *)

\* No extra detail of a secret is lost, although the evaluation goroutine makes the
\* map without the mutex (addExtraToSecret): it only does so for secrets the extras
\* goroutine has nothing to add to.
THEOREM ExtrasAreKept == Spec => []ExtrasSurvive
  <1>1. IInv => ExtrasSurvive
    BY DEF IInv
  <1> QED
    BY InitHolds, StepKeeps, <1>1, PTL DEF Spec

\* Score and severity are those of the status in the report
\* (AssignScoreAndSeverity, Validate).
THEOREM ScoresAreFinal == Spec => []ScoreMatchesFinalStatus
  <1>1. IInv => ScoreMatchesFinalStatus
    BY DEF IInv, ScoresAreOfStatus, ScoreMatchesFinalStatus, Finished, Arrived, ResultOf
  <1> QED
    BY InitHolds, StepKeeps, <1>1, PTL DEF Spec

\* A live secret never ranks below one of its rule that is not known to be live, nor
\* that one below a dead one (getSeverity, getCvssScore).
THEOREM LiveRanksHigher == Spec => []LiveSecretsRankHigher
  <1>1. IInv => LiveSecretsRankHigher
    <2> SUFFICES ASSUME IInv, NEW m \in 1..evaluated, NEW n \in 1..evaluated,
                        Rule[order[m]] = Rule[order[n]],
                        status[order[m]] = "Valid" \/ status[order[n]] = "Invalid"
                 PROVE  /\ severity[order[m]] <= severity[order[n]]
                        /\ cvss[order[m]] >= cvss[order[n]]
      BY DEF LiveSecretsRankHigher, Arrived
    <2>1. order[m] \in Secrets /\ order[n] \in Secrets
      <3>1. Types /\ m \in 1..Len(order) /\ n \in 1..Len(order)
        BY OneTurn DEF IInv, Types
      <3> QED
        BY <3>1, OneTurn
    <2>2. Rule[order[m]] \in ValidatedRules /\ validating
      BY <2>1 DEF IInv, StatusIsOfRule
    <2>3. Rule[order[m]] \in ScoredRules
      BY <2>1, <2>2, EvaluationAssumption DEF EvaluationAssumption
    <2>4. ResultOf(order[m]) = status[order[m]] /\ ResultOf(order[n]) = status[order[n]]
      BY <2>2 DEF ResultOf
    <2>5. /\ severity[order[m]] = GetSeverity(Rule[order[m]], status[order[m]])
          /\ cvss[order[m]] = GetCvssScore(Rule[order[m]], status[order[m]])
          /\ severity[order[n]] = GetSeverity(Rule[order[m]], status[order[n]])
          /\ cvss[order[n]] = GetCvssScore(Rule[order[m]], status[order[n]])
      BY <2>4 DEF IInv, ScoresAreOfStatus
    <2> QED
      BY <2>3, <2>5, RanksFollowStatus
  <1> QED
    BY InitHolds, StepKeeps, <1>1, PTL DEF Spec

-----------------------------------------------------------------------------
(* The detector: the rules that run.                                       *)

LEMMA LeastExists ==
  ASSUME NEW T, T \subseteq Nat, T # {}
  PROVE  \E x \in T : \A y \in T : x <= y
  <1>1. PICK l \in T : TRUE
    OBVIOUS
  <1>2. \E x \in T : \A y \in T : ~(<<y, x>> \in OpToRel(<, Nat))
    BY <1>1, WFMin, NatLessThanWellFounded, Zenon
  <1>3. PICK x \in T : \A y \in T : ~(<<y, x>> \in OpToRel(<, Nat))
    BY <1>2
  <1>4. ASSUME NEW y \in T, y < x PROVE FALSE
    <2>1. y \in Nat /\ x \in Nat
      OBVIOUS
    <2>2. <<y, x>> \in OpToRel(<, Nat)
      BY <1>4, <2>1, Zenon DEF OpToRel
    <2> QED
      BY <1>3, <2>2
  <1> QED
    BY <1>4

LEMMA GreatestExists ==
  ASSUME NEW n \in Nat, NEW T, T \subseteq 0..n, T # {}
  PROVE  \E k \in T : \A m \in T : m <= k
  <1> DEFINE U == {n - k : k \in T}
  <1>1. \A k \in T : k \in Nat /\ k <= n /\ n - k \in U
    <2>1. \A k \in T : k \in Nat /\ k <= n
      OBVIOUS
    <2>2. \A k \in T : n - k \in U
      BY Zenon
    <2> QED
      BY <2>1, <2>2, Zenon
  <1>2. U \subseteq Nat /\ U # {}
    <2>1. U \subseteq Nat
      BY <1>1
    <2> QED
      BY <1>1, <2>1
  <1>3. PICK x \in U : \A y \in U : x <= y
    <2> HIDE DEF U
    <2> QED
      BY <1>2, LeastExists
  <1>4. PICK k \in T : x = n - k
    BY <1>3
  <1>5. \A m \in T : m <= k
    <2> HIDE DEF U
    <2> QED
      BY <1>1, <1>3, <1>4
  <1> QED
    BY <1>5

LEMMA MergedFacts ==
  ASSUME NEW F, NEW G
  PROVE  /\ DOMAIN Merged(F, G) = DOMAIN F \cup DOMAIN G
         /\ \A i \in DOMAIN G : Merged(F, G)[i] = G[i]
         /\ \A i \in DOMAIN F \ DOMAIN G : Merged(F, G)[i] = F[i]
  BY DEF Merged

LEMMA MergedDomain ==
  \A F, G : DOMAIN Merged(F, G) = DOMAIN F \cup DOMAIN G
  BY MergedFacts

LEMMA ByIdFacts ==
  ASSUME NEW S
  PROVE  /\ DOMAIN ById(S) = {r.id : r \in S}
         /\ \A i \in DOMAIN ById(S) : ById(S)[i] \in S /\ ById(S)[i].id = i
         /\ Range(ById(S)) \subseteq S
  <1>1. DOMAIN ById(S) = {r.id : r \in S}
    BY DEF ById
  <1>2. ASSUME NEW i \in DOMAIN ById(S) PROVE ById(S)[i] \in S /\ ById(S)[i].id = i
    <2>1. PICK r \in S : r.id = i
      BY <1>1
    <2>2. ById(S)[i] = CHOOSE q \in S : q.id = i
      BY <1>1, <1>2 DEF ById
    <2> QED
      BY <2>1, <2>2
  <1>3. Range(ById(S)) \subseteq S
    BY <1>2 DEF Range
  <1> QED
    BY <1>1, <1>2, <1>3

LEMMA DefaultFacts ==
  /\ \A i \in DOMAIN GetDefaultRules :
       /\ GetDefaultRules[i] \in AllRules /\ ~GetDefaultRules[i].deprecated
       /\ GetDefaultRules[i].id = i
       /\ {q \in AllRules : q.id = i /\ ~q.deprecated} = {GetDefaultRules[i]}
  /\ \A i : i \notin DOMAIN GetDefaultRules => {q \in AllRules : q.id = i /\ ~q.deprecated} = {}
  /\ \A r \in Range(GetDefaultRules) :
       r \in AllRules /\ ~r.deprecated /\ {q \in AllRules : q.id = r.id /\ ~q.deprecated} = {r}
  <1> DEFINE S == {r \in AllRules : ~r.deprecated}
  <1>1. GetDefaultRules = ById(S)
    BY DEF GetDefaultRules
  <1> HIDE DEF S
  <1>2. /\ DOMAIN ById(S) = {r.id : r \in S}
        /\ \A i \in DOMAIN ById(S) : ById(S)[i] \in S /\ ById(S)[i].id = i
        /\ Range(ById(S)) \subseteq S
    BY ByIdFacts
  <1>3. \A i \in DOMAIN GetDefaultRules : GetDefaultRules[i] \in S /\ GetDefaultRules[i].id = i
    BY <1>1, <1>2
  <1>4. Range(GetDefaultRules) \subseteq S
    BY <1>1, <1>2
  <1>5. \A r, q \in AllRules : r.id = q.id => r = q
    BY RulesAssumption DEF RulesAssumption
  <1>6. DOMAIN GetDefaultRules = {r.id : r \in S}
    BY <1>1, <1>2
  <1> QED
    BY <1>3, <1>4, <1>5, <1>6 DEF S

\* The name a rule of the user goes by.
NameOf(r) == IF r.name = Unnamed /\ r.id \in DOMAIN GetDefaultRules
             THEN GetDefaultRules[r.id].name ELSE r.name

LEMMA NamesFacts ==
  ASSUME NEW r
  PROVE  /\ NamesOf(r) \cup {r.id} = {NameOf(r), r.id}
         /\ NameOf(r) \in NamesOf(r)
         /\ NameOf(r) = Unnamed => r.id \in NamesOf(r)
  <1> DEFINE overridden == {q \in AllRules : q.id = r.id /\ ~q.deprecated}
  <1>1. CASE r.name # Unnamed
    BY <1>1 DEF NamesOf, NameOf
  <1>2. CASE r.name = Unnamed /\ r.id \in DOMAIN GetDefaultRules
    <2>1. overridden = {GetDefaultRules[r.id]} /\ GetDefaultRules[r.id] \in AllRules
      BY <1>2, DefaultFacts
    <2>2. NamesOf(r) = {GetDefaultRules[r.id].name} /\ NameOf(r) = GetDefaultRules[r.id].name
      BY <1>2, <2>1 DEF NamesOf, NameOf
    <2>3. GetDefaultRules[r.id].name # Unnamed
      BY <2>1, RulesAssumption DEF RulesAssumption
    <2> QED
      BY <2>2, <2>3
  <1>3. CASE r.name = Unnamed /\ r.id \notin DOMAIN GetDefaultRules
    <2>1. overridden = {}
      BY <1>3, DefaultFacts
    <2>2. NamesOf(r) = {Unnamed, r.id} /\ NameOf(r) = Unnamed
      BY <1>3, <2>1 DEF NamesOf, NameOf
    <2> QED
      BY <2>2
  <1> QED
    BY <1>1, <1>2, <1>3

LEMMA AskedIsMatch ==
  ASSUME NEW r, NEW cfg
  PROVE  Asked(r, cfg) <=>
           LET In(strings) == ({NameOf(r), r.id} \cup r.tags) \cap strings # {}
           IN  ~r.deprecated /\ ~In(cfg.ignored) /\ (cfg.selected # {} => In(cfg.selected))
  <1>1. NamesOf(r) \cup {r.id} \cup r.tags = {NameOf(r), r.id} \cup r.tags
    BY NamesFacts
  <1> QED
    BY <1>1 DEF Asked

\* A rule the detector has is one of the configuration, but for its name.
Renamed(r, q) == r = q \/ \E v : r = [q EXCEPT !.name = v]

LEMMA RenamedFacts ==
  ASSUME NEW q, IsRule(q), NEW r, Renamed(r, q)
  PROVE  IsRule(r) /\ \A x \in DOMAIN q \ {"name"} : r[x] = q[x]
  <1>1. DOMAIN r = DOMAIN q /\ \A x \in DOMAIN q \ {"name"} : r[x] = q[x]
    BY DEF Renamed
  <1> QED
    BY <1>1 DEF IsRule

LEMMA RenamedAgain ==
  ASSUME NEW q, NEW r, NEW s, Renamed(r, q), Renamed(s, r)
  PROVE  Renamed(s, q)
  <1>1. CASE r = q \/ s = r
    BY <1>1 DEF Renamed
  <1>2. ASSUME NEW v, NEW w, r = [q EXCEPT !.name = v], s = [r EXCEPT !.name = w]
        PROVE  s = [q EXCEPT !.name = w]
    BY <1>2
  <1> QED
    BY <1>1, <1>2 DEF Renamed

\* The rules of the user after their names are completed.
LEMMA CompletedFacts ==
  ASSUME NEW customs, \A k \in DOMAIN customs : IsRule(customs[k])
  PROVE  /\ DOMAIN completeQueriesFields(customs) = DOMAIN customs
         /\ \A k \in DOMAIN customs :
              /\ Renamed(completeQueriesFields(customs)[k], customs[k])
              /\ completeQueriesFields(customs)[k].name = NameOf(customs[k])
  <1> DEFINE full == completeQueriesFields(customs)
  <1>1. DOMAIN full = DOMAIN customs
    BY DEF completeQueriesFields
  <1>2. ASSUME NEW k \in DOMAIN customs
        PROVE  Renamed(full[k], customs[k]) /\ full[k].name = NameOf(customs[k])
    <2>1. "name" \in DOMAIN customs[k]
      BY DEF IsRule
    <2>2. CASE customs[k].name = Unnamed /\ customs[k].id \in DOMAIN GetDefaultRules
      <3>1. full[k] = [customs[k] EXCEPT !.name = GetDefaultRules[customs[k].id].name]
        BY <2>2 DEF completeQueriesFields
      <3> QED
        BY <2>1, <2>2, <3>1 DEF Renamed, NameOf
    <2>3. CASE ~(customs[k].name = Unnamed /\ customs[k].id \in DOMAIN GetDefaultRules)
      <3>1. full[k] = customs[k]
        BY <2>3 DEF completeQueriesFields
      <3> QED
        BY <2>3, <3>1 DEF Renamed, NameOf
    <2> QED
      BY <2>2, <2>3
  <1> QED
    BY <1>1, <1>2

\* A rule of the user runs as it is, or named after its ID if it has no name.
Given(r, q) == r = q \/ (q.name = Unnamed /\ r = [q EXCEPT !.name = q.id])

\* Of the rules that are added under one ID, the last is there.
LEMMA AddedFacts ==
  ASSUME NEW rs, NEW sel, NEW n \in Nat, DOMAIN sel \subseteq 1..n,
         NEW i \in DOMAIN addCustomRules(rs, sel)
  PROVE  LET Of == {k \in DOMAIN sel : ~sel[k].deprecated /\ sel[k].id = i}
         IN  \/ Of = {} /\ i \in DOMAIN rs /\ addCustomRules(rs, sel)[i] = rs[i]
             \/ \E k \in Of : /\ \A m \in Of : m <= k
                             /\ Given(addCustomRules(rs, sel)[i], sel[k])
  <1> DEFINE added == {k \in DOMAIN sel : ~sel[k].deprecated}
             Of(j) == {k \in added : sel[k].id = j}
             Latest(j) == CHOOSE k \in Of(j) : \A m \in Of(j) : m <= k
             Named(c) == IF c.name = Unnamed THEN [c EXCEPT !.name = c.id] ELSE c
  <1>1. addCustomRules(rs, sel) =
          [j \in DOMAIN rs \cup {sel[k].id : k \in added} |->
            IF Of(j) = {} THEN rs[j]
            ELSE IF j \notin DOMAIN rs /\ Of(j) = {Latest(j)} THEN Named(sel[Latest(j)])
            ELSE sel[Latest(j)]]
    BY DEF addCustomRules
  <1>2. i \in DOMAIN rs \cup {sel[k].id : k \in added}
    BY <1>1
  <1>3. {k \in DOMAIN sel : ~sel[k].deprecated /\ sel[k].id = i} = Of(i)
    OBVIOUS
  <1>4. addCustomRules(rs, sel)[i] =
            IF Of(i) = {} THEN rs[i]
            ELSE IF i \notin DOMAIN rs /\ Of(i) = {Latest(i)} THEN Named(sel[Latest(i)])
            ELSE sel[Latest(i)]
    BY <1>1, <1>2
  <1>5. CASE Of(i) = {}
    <2>1. i \in DOMAIN rs
      BY <1>2, <1>5
    <2> QED
      BY <1>3, <1>4, <1>5, <2>1
  <1>6. CASE Of(i) # {}
    <2>1. Of(i) \subseteq 1..n
      OBVIOUS
    <2>2. \E k \in Of(i) : \A m \in Of(i) : m <= k
      <3> HIDE DEF Of
      <3> QED
        BY <1>6, <2>1, GreatestExists
    <2>3. Latest(i) \in Of(i) /\ \A m \in Of(i) : m <= Latest(i)
      BY <2>2
    <2>4. \A c : Given(Named(c), c) /\ Given(c, c)
      BY DEF Given
    <2>5. \/ addCustomRules(rs, sel)[i] = Named(sel[Latest(i)])
          \/ addCustomRules(rs, sel)[i] = sel[Latest(i)]
      <3> HIDE DEF Of, Named, Latest
      <3> QED
        BY <1>4, <1>6
    <2>6. Given(addCustomRules(rs, sel)[i], sel[Latest(i)])
      <3> HIDE DEF Of, Named, Latest
      <3> QED
        BY <2>4, <2>5
    <2> QED
      BY <1>3, <2>3, <2>6
  <1> QED
    BY <1>5, <1>6

\* The rules of the user under an ID that are asked for.
OwnRules(i, cfg) ==
    {k \in DOMAIN cfg.customs : cfg.customs[k].id = i /\ Asked(cfg.customs[k], cfg)}

\* What is said of the rule under an ID, for one that runs and is not special.
OfUser(r, i, cfg) ==
    \/ OwnRules(i, cfg) = {} /\ r \in AllRules /\ Asked(r, cfg)
    \/ \E k \in OwnRules(i, cfg) : /\ \A m \in OwnRules(i, cfg) : m <= k
                                   /\ Renamed(r, cfg.customs[k]) /\ r.name \in NamesOf(cfg.customs[k])

OfSpecial(r, cfg) == r \in SpecialRules /\ r.name \in cfg.special

Passes(r, cfg) == Wanted(r, cfg.selected, cfg.ignored)

LEMMA CustomsFacts ==
  ASSUME NEW cfg \in Configs
  PROVE  /\ \A k \in DOMAIN cfg.customs : IsRule(cfg.customs[k])
         /\ Len(cfg.customs) \in Nat /\ DOMAIN cfg.customs = 1..Len(cfg.customs)
         /\ \A k \in DOMAIN cfg.customs : cfg.customs[k] \in ConfiguredRules
         /\ cfg.patterns \subseteq ConfiguredRules
  <1>1. cfg.customs \in Seq(Range(cfg.customs))
    BY DetectionAssumption DEF DetectionAssumption
  <1>2. DOMAIN cfg.customs = 1..Len(cfg.customs) /\ Len(cfg.customs) \in Nat
    BY <1>1
  <1>3. \A k \in DOMAIN cfg.customs : cfg.customs[k] \in Range(cfg.customs)
    BY DEF Range
  <1>4. Range(cfg.customs) \cup cfg.patterns \subseteq ConfiguredRules
    BY DEF ConfiguredRules
  <1>5. \A r \in ConfiguredRules : IsRule(r)
    BY DetectionAssumption DEF DetectionAssumption
  <1> QED
    BY <1>2, <1>3, <1>4, <1>5

LEMMA DefaultsAsked ==
  ASSUME NEW cfg, NEW r \in Range(GetDefaultRules), Passes(r, cfg)
  PROVE  r \in AllRules /\ Asked(r, cfg)
  <1>1. r \in AllRules /\ ~r.deprecated /\ {q \in AllRules : q.id = r.id /\ ~q.deprecated} = {r}
    BY DefaultFacts
  <1>2. NameOf(r) = r.name
    <2>1. CASE r.id \in DOMAIN GetDefaultRules
      <3>1. {r} = {GetDefaultRules[r.id]}
        BY <1>1, <2>1, DefaultFacts
      <3> QED
        BY <3>1 DEF NameOf
    <2>2. CASE r.id \notin DOMAIN GetDefaultRules
      BY <2>2 DEF NameOf
    <2> QED
      BY <2>1, <2>2
  <1> QED
    BY <1>1, <1>2, AskedIsMatch DEF Passes, Wanted, isRuleMatch

LEMMA OwnAsked ==
  ASSUME NEW cfg \in Configs, NEW k \in DOMAIN cfg.customs
  PROVE  LET c == completeQueriesFields(cfg.customs)[k]
         IN  /\ c.id = cfg.customs[k].id /\ Renamed(c, cfg.customs[k])
             /\ Passes(c, cfg) /\ ~c.deprecated <=> Asked(cfg.customs[k], cfg)
  <1> DEFINE q == cfg.customs[k]
             c == completeQueriesFields(cfg.customs)[k]
  <1>1. IsRule(q) /\ Renamed(c, q) /\ c.name = NameOf(q)
    BY CustomsFacts, CompletedFacts
  <1>2. c.id = q.id /\ c.tags = q.tags /\ c.deprecated = q.deprecated
    <2> HIDE DEF c, q
    <2>1. \A x \in DOMAIN q \ {"name"} : c[x] = q[x]
      BY <1>1, RenamedFacts
    <2> QED
      BY <1>1, <2>1 DEF IsRule
  <1>3. \A strings : isRuleMatch(c, strings) <=> ({NameOf(q), q.id} \cup q.tags) \cap strings # {}
    BY <1>1, <1>2 DEF isRuleMatch
  <1>4. Passes(c, cfg) /\ ~c.deprecated <=> Asked(q, cfg)
    <2> HIDE DEF c, q
    <2> QED
      BY <1>2, <1>3, AskedIsMatch DEF Passes, Wanted
  <1> QED
    BY <1>1, <1>2, <1>4

LEMMA SelectionFacts ==
  ASSUME NEW cfg \in Configs,
         NEW i \in DOMAIN FilterRules(cfg.selected, cfg.ignored, cfg.special, cfg.customs)[1]
  PROVE  LET r == FilterRules(cfg.selected, cfg.ignored, cfg.special, cfg.customs)[1][i]
         IN  r.id = i /\ OfUser(r, i, cfg)
  <1> DEFINE some == IF cfg.selected = {} THEN GetDefaultRules
                     ELSE selectRules(GetDefaultRules, cfg.selected)
             full == completeQueriesFields(cfg.customs)
             sel == Selected(full, cfg.selected, cfg.ignored)
             base == ignoreRules(some, cfg.ignored)
             all == addCustomRules(base, sel)
  <1>1. FilterRules(cfg.selected, cfg.ignored, cfg.special, cfg.customs)[1] = all
    BY DEF FilterRules
  <1>2. i \in DOMAIN all
    BY <1>1
  <1>3. ASSUME NEW j \in DOMAIN base
        PROVE  base[j] \in Range(GetDefaultRules) /\ base[j].id = j /\ Passes(base[j], cfg)
    <2> DEFINE T == {r \in Range(some) : ~isRuleMatch(r, cfg.ignored)}
               U == {r \in Range(GetDefaultRules) : isRuleMatch(r, cfg.selected)}
    <2>1. base[j] \in T /\ base[j].id = j
      <3>1. base = ById(T)
        BY DEF ignoreRules
      <3> HIDE DEF T, base
      <3> QED
        BY <1>3, <3>1, ByIdFacts
    <2>2. Range(some) \subseteq IF cfg.selected = {} THEN Range(GetDefaultRules) ELSE U
      <3>1. CASE cfg.selected = {}
        BY <3>1
      <3>2. CASE cfg.selected # {}
        <4>1. some = ById(U)
          BY <3>2 DEF selectRules
        <4> HIDE DEF U, some
        <4> QED
          BY <3>2, <4>1, ByIdFacts
      <3> QED
        BY <3>1, <3>2
    <2> HIDE DEF some
    <2> QED
      BY <2>1, <2>2 DEF Passes, Wanted
  <1>4. DOMAIN full = DOMAIN cfg.customs /\ DOMAIN cfg.customs = 1..Len(cfg.customs)
        /\ Len(cfg.customs) \in Nat
    BY CustomsFacts, CompletedFacts
  <1>5. \A k : k \in DOMAIN sel <=> k \in DOMAIN full /\ Passes(full[k], cfg)
    BY DEF Selected, Passes
  <1>6. DOMAIN sel \subseteq 1..Len(cfg.customs)
        /\ \A k \in DOMAIN sel : sel[k] = full[k]
    BY <1>4 DEF Selected
  <1>7. {k \in DOMAIN sel : ~sel[k].deprecated /\ sel[k].id = i} = OwnRules(i, cfg)
    <2>1. \A k \in DOMAIN full :
            /\ full[k].id = cfg.customs[k].id
            /\ Passes(full[k], cfg) /\ ~full[k].deprecated <=> Asked(cfg.customs[k], cfg)
      BY <1>4, OwnAsked
    <2> HIDE DEF sel, full
    <2> QED
      BY <1>4, <1>5, <1>6, <2>1 DEF OwnRules
  <1>8. \/ OwnRules(i, cfg) = {} /\ i \in DOMAIN base /\ all[i] = base[i]
        \/ \E k \in OwnRules(i, cfg) : /\ \A m \in OwnRules(i, cfg) : m <= k
                                       /\ Given(all[i], sel[k])
    <2> HIDE DEF base, sel
    <2> QED
      BY <1>2, <1>4, <1>6, <1>7, AddedFacts
  <1>9. CASE OwnRules(i, cfg) = {} /\ i \in DOMAIN base /\ all[i] = base[i]
    <2> HIDE DEF base, all
    <2>1. all[i] = base[i] /\ base[i] \in Range(GetDefaultRules) /\ base[i].id = i
          /\ Passes(base[i], cfg)
      BY <1>3, <1>9
    <2>2. base[i] \in AllRules /\ Asked(base[i], cfg)
      BY <2>1, DefaultsAsked
    <2> QED
      BY <1>1, <1>9, <2>1, <2>2 DEF OfUser
  <1>10. ASSUME NEW k \in OwnRules(i, cfg), \A m \in OwnRules(i, cfg) : m <= k,
                Given(all[i], sel[k])
         PROVE  all[i].id = i /\ OfUser(all[i], i, cfg)
    <2>1. k \in DOMAIN sel /\ sel[k] = full[k] /\ k \in DOMAIN cfg.customs
      BY <1>4, <1>6, <1>7
    <2>2. /\ Renamed(full[k], cfg.customs[k]) /\ full[k].id = cfg.customs[k].id
          /\ IsRule(full[k]) /\ full[k].name = NameOf(cfg.customs[k])
      BY <2>1, OwnAsked, CustomsFacts, CompletedFacts, RenamedFacts
    <2> HIDE DEF all, sel, full
    <2>3. Renamed(all[i], cfg.customs[k])
      <3>1. Renamed(all[i], full[k])
        BY <1>10, <2>1 DEF Given, Renamed
      <3> QED
        BY <2>2, <3>1, RenamedAgain
    <2>4. all[i].name \in NamesOf(cfg.customs[k])
      <3>1. CASE all[i] = full[k]
        BY <2>2, <3>1, NamesFacts
      <3>2. CASE full[k].name = Unnamed /\ all[i] = [full[k] EXCEPT !.name = full[k].id]
        <4>1. all[i].name = cfg.customs[k].id
          BY <2>2, <3>2 DEF IsRule
        <4> QED
          BY <2>2, <3>2, <4>1, NamesFacts
      <3> QED
        BY <1>10, <2>1, <3>1, <3>2 DEF Given
    <2>5. IsRule(cfg.customs[k]) /\ cfg.customs[k].id = i
      BY <2>1, CustomsFacts DEF OwnRules
    <2>6. \A x \in DOMAIN cfg.customs[k] \ {"name"} : all[i][x] = cfg.customs[k][x]
      BY <2>3, <2>5, RenamedFacts
    <2>7. all[i].id = i
      BY <2>5, <2>6 DEF IsRule
    <2> QED
      BY <1>10, <2>3, <2>7, <2>4 DEF OfUser
  <1> QED
    <2> HIDE DEF all, base, sel
    <2> QED
      BY <1>1, <1>8, <1>9, <1>10

LEMMA SpecialFacts ==
  ASSUME NEW cfg,
         NEW i \in DOMAIN FilterRules(cfg.selected, cfg.ignored, cfg.special, cfg.customs)[2]
  PROVE  LET r == FilterRules(cfg.selected, cfg.ignored, cfg.special, cfg.customs)[2][i]
         IN  r.id = i /\ OfSpecial(r, cfg)
  <1> DEFINE S == {r \in SpecialRules : r.name \in cfg.special}
  <1>1. FilterRules(cfg.selected, cfg.ignored, cfg.special, cfg.customs)[2] = ById(S)
    BY DEF FilterRules, SpecialOf
  <1> HIDE DEF S
  <1>2. ById(S)[i] \in S /\ ById(S)[i].id = i
    BY <1>1, ByIdFacts
  <1> QED
    BY <1>1, <1>2 DEF S, OfSpecial

\* A rule that is asked for is selected, or another one of its ID.
LEMMA SelectionIsWhole ==
  ASSUME NEW cfg \in Configs, NEW r \in AllRules \cup Range(cfg.customs), Asked(r, cfg)
  PROVE  r.id \in DOMAIN FilterRules(cfg.selected, cfg.ignored, cfg.special, cfg.customs)[1]
  <1> DEFINE some == IF cfg.selected = {} THEN GetDefaultRules
                     ELSE selectRules(GetDefaultRules, cfg.selected)
             full == completeQueriesFields(cfg.customs)
             sel == Selected(full, cfg.selected, cfg.ignored)
             base == ignoreRules(some, cfg.ignored)
             all == addCustomRules(base, sel)
  <1>1. FilterRules(cfg.selected, cfg.ignored, cfg.special, cfg.customs)[1] = all
    BY DEF FilterRules
  <1>2. DOMAIN all = DOMAIN base \cup {sel[k].id : k \in {m \in DOMAIN sel : ~sel[m].deprecated}}
    <2> HIDE DEF base, sel
    <2> QED
      BY DEF addCustomRules
  <1>3. CASE r \in AllRules
    <2>1. ~r.deprecated /\ r.id \in DOMAIN GetDefaultRules /\ GetDefaultRules[r.id] = r
      <3>1. ~r.deprecated
        BY DEF Asked
      <3>2. r.id \in DOMAIN GetDefaultRules
        BY <1>3, <3>1, DefaultFacts
      <3>3. GetDefaultRules[r.id] \in AllRules /\ GetDefaultRules[r.id].id = r.id
        BY <3>2, DefaultFacts
      <3> QED
        BY <1>3, <3>1, <3>2, <3>3, RulesAssumption DEF RulesAssumption
    <2>2. Passes(r, cfg)
      <3>1. NameOf(r) = r.name
        BY <2>1 DEF NameOf
      <3> QED
        BY <3>1, AskedIsMatch DEF Passes, Wanted, isRuleMatch
    <2>3. r \in Range(GetDefaultRules)
      BY <2>1 DEF Range
    <2>4. r \in Range(some)
      <3>1. CASE cfg.selected = {}
        BY <2>3, <3>1
      <3>2. CASE cfg.selected # {}
        <4> DEFINE U == {q \in Range(GetDefaultRules) : isRuleMatch(q, cfg.selected)}
        <4>1. r \in U
          BY <2>2, <2>3, <3>2 DEF Passes, Wanted
        <4>2. U \subseteq AllRules
          BY DefaultFacts
        <4>3. some = ById(U)
          BY <3>2 DEF selectRules
        <4> HIDE DEF U
        <4>4. r.id \in DOMAIN ById(U) /\ ById(U)[r.id] \in U /\ ById(U)[r.id].id = r.id
          <5>1. DOMAIN ById(U) = {q.id : q \in U}
            BY ByIdFacts
          <5>2. r.id \in DOMAIN ById(U)
            BY <4>1, <5>1
          <5> QED
            BY <5>2, ByIdFacts
        <4>5. ById(U)[r.id] = r
          BY <1>3, <4>2, <4>4, RulesAssumption DEF RulesAssumption
        <4> QED
          BY <4>3, <4>4, <4>5 DEF Range
      <3> QED
        BY <3>1, <3>2
    <2>5. r.id \in DOMAIN base
      <3> DEFINE T == {q \in Range(some) : ~isRuleMatch(q, cfg.ignored)}
      <3>1. r \in T
        BY <2>2, <2>4 DEF Passes, Wanted
      <3>2. base = ById(T)
        BY DEF ignoreRules
      <3> HIDE DEF T, base
      <3>3. DOMAIN ById(T) = {q.id : q \in T}
        BY ByIdFacts
      <3> QED
        BY <3>1, <3>2, <3>3
    <2> QED
      BY <1>1, <1>2, <2>5
  <1>4. CASE r \in Range(cfg.customs)
    <2>1. PICK k \in DOMAIN cfg.customs : cfg.customs[k] = r
      BY <1>4 DEF Range
    <2>2. full[k].id = r.id /\ Passes(full[k], cfg) /\ ~full[k].deprecated
      BY <2>1, OwnAsked
    <2>3. k \in DOMAIN full
      BY <2>1, CustomsFacts, CompletedFacts
    <2>4. k \in DOMAIN sel /\ sel[k] = full[k]
      <3> HIDE DEF full
      <3> QED
        BY <2>2, <2>3 DEF Selected, Passes
    <2>5. r.id \in DOMAIN all
      <3> HIDE DEF full, sel, base, all
      <3> QED
        BY <1>2, <2>2, <2>4
    <2> QED
      BY <1>1, <2>5
  <1> QED
    BY <1>3, <1>4

-----------------------------------------------------------------------------
(* The state of the detector.                                              *)

DetectTypes ==
    /\ config \in Configs /\ fragment \in [raw : Texts, path : Paths]
    /\ step \in {"init", "detect", "build", "done", "error"}
    /\ left \subseteq DOMAIN rules

\* Each rule stands under its ID, and is one that was asked for.
RulesInv ==
    \A i \in DOMAIN rules :
        /\ rules[i].id = i
        /\ \/ rules[i] \in config.patterns
           \/ OfSpecial(rules[i], config)
           \/ OfUser(rules[i], i, config)

LEMMA FinalFacts ==
  ASSUME NEW lists, NEW additional, NEW n \in DOMAIN lists,
         \A i \in DOMAIN lists[n] : lists[n][i].id = i,
         NEW i \in DOMAIN filterIgnoredRules(lists, additional)[n]
  PROVE  i \in DOMAIN lists[n] /\ filterIgnoredRules(lists, additional)[n][i] = lists[n][i]
  <1> DEFINE F == lists[n]
             S == {r \in Range(F) : ({r.name} \cup r.tags) \cap additional = {}}
  <1>1. filterIgnoredRules(lists, additional)[n] = ById(S)
    BY DEF filterIgnoredRules
  <1>2. ById(S)[i] \in S /\ ById(S)[i].id = i
    <2> HIDE DEF S
    <2> QED
      BY <1>1, ByIdFacts
  <1>3. PICK j \in DOMAIN F : F[j] = ById(S)[i]
    BY <1>2 DEF Range
  <1>4. j = i
    BY <1>2, <1>3
  <1> QED
    BY <1>1, <1>3, <1>4

\* What is not ignored additionally is left.
LEMMA FinalIsWhole ==
  ASSUME NEW lists, NEW additional, NEW n \in DOMAIN lists, NEW i \in DOMAIN lists[n],
         lists[n][i].id = i
  PROVE  \/ i \in DOMAIN filterIgnoredRules(lists, additional)[n]
         \/ ({lists[n][i].name} \cup lists[n][i].tags) \cap additional # {}
  <1> DEFINE F == lists[n]
             S == {r \in Range(F) : ({r.name} \cup r.tags) \cap additional = {}}
  <1>1. filterIgnoredRules(lists, additional)[n] = ById(S)
    BY DEF filterIgnoredRules
  <1>2. SUFFICES ASSUME ({F[i].name} \cup F[i].tags) \cap additional = {}
                 PROVE  i \in DOMAIN ById(S)
    BY <1>1
  <1>3. F[i] \in S
    BY <1>2 DEF Range
  <1> HIDE DEF S
  <1>4. DOMAIN ById(S) = {r.id : r \in S}
    BY ByIdFacts
  <1>5. i = F[i].id
    OBVIOUS
  <1> QED
    BY <1>3, <1>4, <1>5

LEMMA TypesStep == DetectTypes /\ [DetectNext]_detectVars => DetectTypes'
  <1> SUFFICES ASSUME DetectTypes, [DetectNext]_detectVars PROVE DetectTypes'
    OBVIOUS
  <1> USE DEF DetectTypes
  <1>1. CASE initEngine
    BY <1>1 DEF initEngine
  <1>2. CASE SkipFragment
    BY <1>2 DEF SkipFragment
  <1>3. ASSUME NEW i \in left, DetectRule(i) PROVE DetectTypes'
    BY <1>3 DEF DetectRule
  <1>4. CASE Filter
    BY <1>4 DEF Filter
  <1>5. CASE BuildSecrets
    BY <1>5 DEF BuildSecrets
  <1>6. CASE UNCHANGED detectVars
    BY <1>6 DEF detectVars
  <1> QED
    BY <1>1, <1>2, <1>3, <1>4, <1>5, <1>6 DEF DetectNext

\* What is left of the rules of the user and of the special ones.
LEMMA FinalRules ==
  ASSUME NEW cfg \in Configs
  PROVE  LET final == filterIgnoredRules(FilterRules(cfg.selected, cfg.ignored, cfg.special,
                                                     cfg.customs), cfg.additional)
         IN  /\ \A i \in DOMAIN final[1] : final[1][i].id = i /\ OfUser(final[1][i], i, cfg)
             /\ \A i \in DOMAIN final[2] : final[2][i].id = i /\ OfSpecial(final[2][i], cfg)
  <1> DEFINE F == FilterRules(cfg.selected, cfg.ignored, cfg.special, cfg.customs)
             final == filterIgnoredRules(F, cfg.additional)
  <1>1. 1 \in DOMAIN F /\ 2 \in DOMAIN F
    BY DEF FilterRules
  <1>2. \A i \in DOMAIN F[1] : F[1][i].id = i /\ OfUser(F[1][i], i, cfg)
    BY SelectionFacts
  <1>3. \A i \in DOMAIN F[2] : F[2][i].id = i /\ OfSpecial(F[2][i], cfg)
    BY SpecialFacts
  <1> HIDE DEF F
  <1>4. \A i \in DOMAIN final[1] : i \in DOMAIN F[1] /\ final[1][i] = F[1][i]
    BY <1>1, <1>2, FinalFacts
  <1>5. \A i \in DOMAIN final[2] : i \in DOMAIN F[2] /\ final[2][i] = F[2][i]
    BY <1>1, <1>3, FinalFacts
  <1> HIDE DEF final
  <1>6. /\ \A i \in DOMAIN final[1] : final[1][i].id = i /\ OfUser(final[1][i], i, cfg)
        /\ \A i \in DOMAIN final[2] : final[2][i].id = i /\ OfSpecial(final[2][i], cfg)
    BY <1>2, <1>3, <1>4, <1>5
  <1> QED
    BY <1>6 DEF final, F

LEMMA RulesStep == DetectTypes /\ RulesInv /\ [DetectNext]_detectVars => RulesInv'
  <1> SUFFICES ASSUME DetectTypes, RulesInv, [DetectNext]_detectVars PROVE RulesInv'
    OBVIOUS
  <1>1. CASE initEngine
    <2> DEFINE final == filterIgnoredRules(FilterRules(config.selected, config.ignored,
                                                       config.special, config.customs),
                                           config.additional)
               regex == createCustomRegexRules(config.patterns)
    <2>1. config \in Configs /\ config' = config
      BY <1>1 DEF initEngine, DetectTypes
    <2>2. /\ \A i \in DOMAIN final[1] : final[1][i].id = i /\ OfUser(final[1][i], i, config)
          /\ \A i \in DOMAIN final[2] : final[2][i].id = i /\ OfSpecial(final[2][i], config)
      BY <2>1, FinalRules
    <2>3. \A i \in DOMAIN regex : regex[i].id = i /\ regex[i] \in config.patterns
      BY ByIdFacts DEF createCustomRegexRules
    <2>4. CASE rules' = rules
      BY <2>1, <2>4 DEF RulesInv
    <2>5. CASE rules' = Merged(Merged(final[1], final[2]), regex)
      <3> HIDE DEF final, regex
      <3>1. ASSUME NEW i \in DOMAIN rules'
            PROVE  \/ i \in DOMAIN regex /\ rules'[i] = regex[i]
                   \/ i \in DOMAIN final[2] /\ rules'[i] = final[2][i]
                   \/ i \in DOMAIN final[1] /\ rules'[i] = final[1][i]
        <4> DEFINE M == Merged(final[1], final[2])
        <4>1. /\ DOMAIN M = DOMAIN final[1] \cup DOMAIN final[2]
              /\ \A j \in DOMAIN final[2] : M[j] = final[2][j]
              /\ \A j \in DOMAIN final[1] \ DOMAIN final[2] : M[j] = final[1][j]
          BY MergedFacts
        <4> HIDE DEF M
        <4>2. /\ DOMAIN Merged(M, regex) = DOMAIN M \cup DOMAIN regex
              /\ \A j \in DOMAIN regex : Merged(M, regex)[j] = regex[j]
              /\ \A j \in DOMAIN M \ DOMAIN regex : Merged(M, regex)[j] = M[j]
          BY MergedFacts
        <4>3. rules' = Merged(M, regex)
          BY <2>5 DEF M
        <4> QED
          BY <3>1, <4>1, <4>2, <4>3
      <3> QED
        BY <2>1, <2>2, <2>3, <3>1 DEF RulesInv
    <2>6. rules' = rules \/ rules' = Merged(Merged(final[1], final[2]), regex)
      BY <1>1 DEF initEngine
    <2> QED
      BY <2>4, <2>5, <2>6
  <1>2. CASE UNCHANGED <<config, rules>>
    BY <1>2 DEF RulesInv
  <1> QED
    BY <1>1, <1>2
    DEF DetectNext, detectVars, SkipFragment, DetectRule, Filter, BuildSecrets

LEMMA AskedStep ==
  ASSUME DetectTypes, AskedRulesRun, [DetectNext]_detectVars
  PROVE  AskedRulesRun'
  <1>1. CASE initEngine
    <2> DEFINE lists == FilterRules(config.selected, config.ignored, config.special, config.customs)
               F == lists[1]
               final == filterIgnoredRules(lists, config.additional)
               regex == createCustomRegexRules(config.patterns)
               Known == AllRules \cup Range(config.customs)
               Dropped(r) == (NamesOf(r) \cup r.tags) \cap config.additional # {}
    <2>1. config \in Configs /\ config' = config
      BY <1>1 DEF initEngine, DetectTypes
    <2>2. CASE step' = "error"
      BY <2>2 DEF AskedRulesRun
    <2>3. CASE rules' = Merged(Merged(final[1], final[2]), regex)
      <3>1. ASSUME NEW r \in Known, Asked(r, config), r.id \notin DOMAIN final[1]
            PROVE  \E q \in Known : q.id = r.id /\ Asked(q, config) /\ Dropped(q)
        <4> DEFINE i == r.id
        <4>1. i \in DOMAIN F
          BY <2>1, <3>1, SelectionIsWhole
        <4>2. F[i].id = i /\ OfUser(F[i], i, config)
          <5> HIDE DEF i
          <5> QED
            BY <2>1, <4>1, SelectionFacts
        <4>3. ({F[i].name} \cup F[i].tags) \cap config.additional # {}
          <5>1. 1 \in DOMAIN lists
            BY DEF FilterRules
          <5> HIDE DEF lists, i
          <5> QED
            BY <3>1, <4>1, <4>2, <5>1, FinalIsWhole DEF i
        <4> HIDE DEF F, i
        <4>4. CASE F[i] \in AllRules /\ Asked(F[i], config)
          <5>1. NamesOf(F[i]) = {F[i].name}
            BY <4>4, RulesAssumption DEF RulesAssumption, NamesOf
          <5>2. F[i] \in Known /\ Dropped(F[i])
            BY <4>3, <4>4, <5>1
          <5> QED
            BY <4>2, <4>4, <5>2 DEF i
        <4>5. ASSUME NEW k \in OwnRules(i, config), Renamed(F[i], config.customs[k]),
                     F[i].name \in NamesOf(config.customs[k])
              PROVE  \E q \in Known : q.id = r.id /\ Asked(q, config) /\ Dropped(q)
          <5> DEFINE q == config.customs[k]
          <5>1. k \in DOMAIN config.customs /\ q.id = i /\ Asked(q, config)
            BY DEF OwnRules
          <5>2. q \in Known
            BY <5>1 DEF Range
          <5>3. F[i].tags = q.tags
            <6>1. IsRule(q)
              BY <2>1, <5>1, CustomsFacts
            <6> HIDE DEF q
            <6>2. \A x \in DOMAIN q \ {"name"} : F[i][x] = q[x]
              BY <4>5, <6>1, RenamedFacts DEF q
            <6> QED
              BY <6>1, <6>2 DEF IsRule
          <5>4. Dropped(q)
            BY <4>3, <4>5, <5>3
          <5> QED
            BY <5>1, <5>2, <5>4 DEF i
        <4> QED
          BY <4>2, <4>4, <4>5 DEF OfUser
      <3>2. DOMAIN final[1] \subseteq DOMAIN rules'
        <4> HIDE DEF final, regex
        <4> DEFINE M == Merged(final[1], final[2])
        <4>1. DOMAIN Merged(M, regex) = DOMAIN M \cup DOMAIN regex
          <5> HIDE DEF M
          <5> QED
            BY MergedDomain
        <4>2. DOMAIN M = DOMAIN final[1] \cup DOMAIN final[2]
          BY MergedDomain
        <4> QED
          BY <2>3, <4>1, <4>2
      <3> QED
        BY <2>1, <2>3, <3>1, <3>2 DEF AskedRulesRun, AskedForRuns
    <2> QED
      BY <1>1, <2>2, <2>3 DEF initEngine
  <1>2. CASE UNCHANGED <<config, rules>> /\ (step' \in {"detect", "build", "done"} => step \in {"detect", "build", "done"})
    BY <1>2 DEF AskedRulesRun
  <1> QED
    BY <1>1, <1>2
    DEF DetectNext, detectVars, SkipFragment, DetectRule, Filter, BuildSecrets

LEMMA RulesFacts ==
  ASSUME DetectTypes, RulesInv, NEW i \in DOMAIN rules
  PROVE  /\ rules[i].id = i /\ IsRule(rules[i])
         /\ \E q \in ConfiguredRules : IsRule(q) /\ Renamed(rules[i], q)
  <1>1. \E q \in ConfiguredRules : Renamed(rules[i], q)
    <2>1. CASE rules[i] \in config.patterns
      <3>1. rules[i] \in ConfiguredRules
        BY <2>1, CustomsFacts DEF DetectTypes
      <3> QED
        BY <3>1 DEF Renamed
    <2>2. CASE rules[i] \in SpecialRules \/ rules[i] \in AllRules
      <3>1. rules[i] \in ConfiguredRules
        BY <2>2 DEF ConfiguredRules
      <3> QED
        BY <3>1 DEF Renamed
    <2>3. ASSUME NEW k \in OwnRules(i, config), Renamed(rules[i], config.customs[k])
          PROVE  \E q \in ConfiguredRules : Renamed(rules[i], q)
      <3>1. config.customs[k] \in ConfiguredRules
        BY CustomsFacts DEF DetectTypes, OwnRules
      <3> QED
        BY <2>3, <3>1
    <2> QED
      BY <2>1, <2>2, <2>3 DEF RulesInv, OfUser, OfSpecial
  <1>2. PICK q \in ConfiguredRules : Renamed(rules[i], q)
    BY <1>1
  <1>3. IsRule(q)
    BY DetectionAssumption DEF DetectionAssumption
  <1>4. IsRule(rules[i])
    BY <1>2, <1>3, RenamedFacts
  <1> QED
    BY <1>2, <1>3, <1>4 DEF RulesInv

LEMMA RulesAsAsked ==
  ASSUME DetectTypes, RulesInv
  PROVE  OnlyAskedRules
  <1> DEFINE Own(i) == {k \in DOMAIN config.customs :
                           config.customs[k].id = i /\ Asked(config.customs[k], config)}
             Free == config.patterns \cup {r \in SpecialRules : r.name \in config.special}
             Same(r, q) == \A x \in DOMAIN q \ {"name"} : r[x] = q[x]
  <1>1. ASSUME NEW i \in DOMAIN rules
        PROVE  \/ rules[i] \in Free
               \/ Own(i) = {} /\ rules[i] \in AllRules /\ rules[i].id = i /\ Asked(rules[i], config)
               \/ \E k \in Own(i) : (\A m \in Own(i) : m <= k) /\ Same(rules[i], config.customs[k])
    <2>1. Own(i) = OwnRules(i, config)
      BY DEF OwnRules
    <2>2. \A k \in OwnRules(i, config) :
            Renamed(rules[i], config.customs[k]) => Same(rules[i], config.customs[k])
      <3>1. \A k \in OwnRules(i, config) : IsRule(config.customs[k])
        BY CustomsFacts DEF OwnRules, DetectTypes
      <3> QED
        BY <3>1, RenamedFacts
    <2>3. CASE rules[i] \in config.patterns
      BY <2>3
    <2>4. CASE OfSpecial(rules[i], config)
      BY <2>4 DEF OfSpecial
    <2>5. CASE OfUser(rules[i], i, config)
      <3>1. rules[i].id = i
        BY DEF RulesInv
      <3> HIDE DEF Own, Same
      <3> QED
        BY <2>1, <2>2, <2>5, <3>1 DEF OfUser
    <2> QED
      BY <2>3, <2>4, <2>5 DEF RulesInv
  <1> HIDE DEF Own, Free, Same
  <1>2. RunsAsAsked(rules, config)
    BY <1>1 DEF RunsAsAsked, Own, Free, Same
  <1> QED
    BY <1>2 DEF OnlyAskedRules

LEMMA MaxFacts ==
  ASSUME NEW n \in Nat, NEW T, T \subseteq 0..n, T # {}
  PROVE  Max(T) \in T /\ \A y \in T : Max(T) >= y
  <1>1. \E k \in T : \A m \in T : k >= m
    <2>1. PICK k \in T : \A m \in T : m <= k
      BY GreatestExists
    <2> QED
      BY <2>1
  <1> QED
    BY <1>1 DEF Max

LEMMA TextFacts ==
  ASSUME NEW raw, IsText(raw)
  PROVE  /\ raw \in Seq(Range(raw)) /\ Len(raw) \in Nat /\ DOMAIN raw = 1..Len(raw)
         /\ newlineIndices(raw) \subseteq 0..Len(raw) /\ Len(raw) \in newlineIndices(raw)
         /\ \A y \in Int : y \in newlineIndices(raw) <=>
               y = Len(raw) \/ (y + 1 \in 1..Len(raw) /\ raw[y + 1] = "n")
  <1>1. raw \in Seq(Range(raw)) /\ Len(raw) \in Nat /\ DOMAIN raw = 1..Len(raw)
    BY DEF IsText
  <1>2. newlineIndices(raw) \subseteq 0..Len(raw) /\ Len(raw) \in newlineIndices(raw)
    BY <1>1 DEF newlineIndices
  <1>3. ASSUME NEW y \in Int
        PROVE  y \in newlineIndices(raw) <=>
                   y = Len(raw) \/ (y + 1 \in 1..Len(raw) /\ raw[y + 1] = "n")
    <2>1. ASSUME y \in newlineIndices(raw)
          PROVE  y = Len(raw) \/ (y + 1 \in 1..Len(raw) /\ raw[y + 1] = "n")
      <3>1. y = Len(raw) \/ \E i \in 1..Len(raw) : raw[i] = "n" /\ y = i - 1
        BY <1>1, <2>1 DEF newlineIndices
      <3>2. ASSUME NEW i \in 1..Len(raw), raw[i] = "n", y = i - 1
            PROVE  y + 1 \in 1..Len(raw) /\ raw[y + 1] = "n"
        <4>1. y + 1 = i
          BY <1>1, <3>2
        <4> QED
          BY <3>2, <4>1
      <3> QED
        BY <3>1, <3>2
    <2>2. ASSUME y + 1 \in 1..Len(raw), raw[y + 1] = "n" PROVE y \in newlineIndices(raw)
      <3>1. y = (y + 1) - 1
        OBVIOUS
      <3> QED
        BY <1>1, <2>2, <3>1 DEF newlineIndices
    <2> QED
      BY <1>2, <2>1, <2>2
  <1> QED
    BY <1>1, <1>2, <1>3

\* What location says of the line that ends at x.
LineStart(raw, x) == Max({0} \cup {y \in newlineIndices(raw) : y < x})
LineNumber(raw, x) == Cardinality({y \in newlineIndices(raw) : y < x})
OnLine(raw, x, o) == x \in newlineIndices(raw) /\ LineStart(raw, x) <= o /\ o < x

LEMMA StartFacts ==
  ASSUME NEW raw, IsText(raw), NEW x \in newlineIndices(raw)
  PROVE  /\ x \in Nat /\ LineStart(raw, x) \in Nat
         /\ LineStart(raw, x) = 0 \/ LineStart(raw, x) \in newlineIndices(raw)
         /\ LineStart(raw, x) # 0 => LineStart(raw, x) < x
         /\ \A y \in newlineIndices(raw) : y < x => y <= LineStart(raw, x)
  <1> DEFINE T == {0} \cup {y \in newlineIndices(raw) : y < x}
  <1>1. T \subseteq 0..Len(raw) /\ Len(raw) \in Nat
    BY TextFacts
  <1>2. Max(T) \in T /\ \A y \in T : Max(T) >= y
    <2>1. T # {}
      OBVIOUS
    <2> HIDE DEF T
    <2> QED
      BY <1>1, <2>1, MaxFacts
  <1>3. LineStart(raw, x) = Max(T)
    BY DEF LineStart
  <1>4. x \in Nat /\ Max(T) \in Nat
    BY <1>1, <1>2, TextFacts
  <1>5. \A y \in newlineIndices(raw) : y \in Nat
    BY TextFacts
  <1>6. Max(T) = 0 \/ (Max(T) \in newlineIndices(raw) /\ Max(T) < x)
    BY <1>2
  <1>7. \A y \in newlineIndices(raw) : y < x => Max(T) >= y
    BY <1>2
  <1> HIDE DEF T
  <1> QED
    BY <1>3, <1>4, <1>5, <1>6, <1>7

\* Every offset is on a line.
LEMMA LineExists ==
  ASSUME NEW raw, IsText(raw), NEW o \in Nat, o < Len(raw)
  PROVE  \E x \in newlineIndices(raw) : OnLine(raw, x, o)
  <1> DEFINE T == {x \in newlineIndices(raw) : o < x}
  <1>1. T \subseteq Nat /\ Len(raw) \in T
    BY TextFacts
  <1>2. PICK x \in T : \A y \in T : x <= y
    <2> HIDE DEF T
    <2> QED
      BY <1>1, LeastExists
  <1>3. \A y \in newlineIndices(raw) : y \in Nat
    BY TextFacts
  <1>4. x \in newlineIndices(raw) /\ o < x /\ x \in Nat
    BY <1>2, <1>3
  <1>5. LineStart(raw, x) <= o
    <2>1. CASE LineStart(raw, x) = 0
      BY <2>1
    <2>2. CASE LineStart(raw, x) # 0
      <3>1. LineStart(raw, x) \in newlineIndices(raw) /\ LineStart(raw, x) < x
            /\ LineStart(raw, x) \in Nat
        BY <1>4, <2>2, StartFacts
      <3>2. LineStart(raw, x) \notin T
        BY <1>2, <1>4, <3>1
      <3> QED
        BY <3>1, <3>2
    <2> QED
      BY <2>1, <2>2
  <1> QED
    BY <1>4, <1>5 DEF OnLine

\* The newlines up to an offset are those of the lines before it: their places count
\* from one, their offsets from zero.
LEMMA LineFacts ==
  ASSUME NEW raw, IsText(raw), NEW o \in Nat, o < Len(raw), raw[o + 1] # "n",
         NEW x, OnLine(raw, x, o)
  PROVE  /\ LineNumber(raw, x) = LineOf(raw, o) /\ LineOf(raw, o) \in Nat
         /\ o - LineStart(raw, x) + 1
               = ColumnOf(raw, o) + (IF LineOf(raw, o) = 0 THEN 0 ELSE 1)
         /\ raw[LineStart(raw, x) + 1] = "n" <=> LineOf(raw, o) # 0
         /\ ColumnOf(raw, o) \in Int
  <1> DEFINE L == {i \in 1..o : raw[i] = "n"}
             T == {y \in newlineIndices(raw) : y < x}
             P == LineStart(raw, x)
             M == Max({0} \cup L)
  <1>1. x \in newlineIndices(raw) /\ P \in Nat /\ x \in Nat /\ P <= o /\ o < x
    BY StartFacts DEF OnLine
  <1>2. Len(raw) \in Nat /\ \A y \in newlineIndices(raw) : y \in Nat
    BY TextFacts
  <1>3. ASSUME NEW y \in T PROVE y \in Nat /\ y + 1 \in L
    <2>1. y \in newlineIndices(raw) /\ y < x /\ y \in Nat
      BY <1>2
    <2>2. y <= P
      BY <1>1, <2>1, StartFacts
    <2>3. y # Len(raw)
      BY <1>1, <1>2, <2>1, <2>2
    <2>4. raw[y + 1] = "n"
      BY <2>1, <2>3, TextFacts
    <2>5. y # o
      BY <2>4
    <2> QED
      BY <1>1, <2>1, <2>2, <2>4, <2>5
  <1>4. ASSUME NEW i \in L PROVE i - 1 \in T /\ i \in Nat /\ i >= 1 /\ i <= o
    <2>1. i \in 1..o /\ raw[i] = "n" /\ (i - 1) + 1 = i /\ i - 1 \in Int
      OBVIOUS
    <2>2. i - 1 \in newlineIndices(raw)
      BY <1>2, <2>1, TextFacts
    <2> QED
      BY <1>1, <2>1, <2>2
  <1>5. IsFiniteSet(L) /\ Cardinality(L) \in Nat /\ (Cardinality(L) = 0 <=> L = {})
    <2>1. IsFiniteSet(1..o) /\ L \in SUBSET (1..o)
      BY FS_Interval
    <2>2. IsFiniteSet(L)
      BY <2>1, FS_Subset
    <2> HIDE DEF L
    <2> QED
      BY <2>2, FS_CardinalityType, FS_EmptySet
  <1>6. Cardinality(T) = Cardinality(L)
    <2> DEFINE f == [i \in L |-> i - 1]
    <2>1. f \in Bijection(L, T)
      <3>1. f \in [L -> T]
        BY <1>4
      <3>2. \A i, j \in L : f[i] = f[j] => i = j
        BY <1>4
      <3>3. \A y \in T : \E i \in L : f[i] = y
        <4> TAKE y \in T
        <4>1. y + 1 \in L /\ f[y + 1] = (y + 1) - 1 /\ y \in Nat
          BY <1>3
        <4>2. f[y + 1] = y
          BY <4>1
        <4> QED
          BY <4>1, <4>2
      <3> HIDE DEF f, L, T
      <3> QED
        BY <3>1, <3>2, <3>3 DEF Bijection, Injection, Surjection, IsInjective
    <2> HIDE DEF f, L, T
    <2>2. ExistsBijection(L, T)
      BY <2>1 DEF ExistsBijection
    <2> QED
      BY <1>5, <2>2, FS_Bijection
  <1>7. LineNumber(raw, x) = LineOf(raw, o) /\ LineOf(raw, o) \in Nat
        /\ (LineOf(raw, o) = 0 <=> L = {})
    <2>1. LineNumber(raw, x) = Cardinality(T)
      BY DEF LineNumber
    <2>2. LineOf(raw, o) = Cardinality(L)
      BY DEF LineOf
    <2> HIDE DEF L, T
    <2> QED
      BY <1>5, <1>6, <2>1, <2>2
  <1>8. ColumnOf(raw, o) = o + 1 - M
    BY DEF ColumnOf
  <1>9. M \in {0} \cup L /\ (\A i \in {0} \cup L : M >= i) /\ M \in Nat /\ M <= o
    <2>1. {0} \cup L \subseteq 0..o
      OBVIOUS
    <2>2. {0} \cup L # {}
      OBVIOUS
    <2> HIDE DEF L
    <2>3. M \in {0} \cup L /\ \A i \in {0} \cup L : M >= i
      BY <2>1, <2>2, MaxFacts
    <2>4. M \in 0..o
      BY <2>1, <2>3
    <2>5. M \in Nat /\ M <= o
      BY <2>4
    <2> QED
      BY <2>3, <2>5
  <1>10. P = 0 \/ P \in T
    BY <1>1, StartFacts
  <1>11. \A y \in T : y <= P
    BY <1>1, StartFacts
  <1>12. CASE L = {}
    <2>1. T = {} /\ M = 0
      BY <1>3, <1>9, <1>12
    <2>2. P = 0
      BY <1>10, <2>1
    <2>3. raw[1] # "n"
      <3>1. CASE o = 0
        BY <3>1
      <3>2. CASE o # 0
        <4>1. 1 \in 1..o /\ 1 \notin L
          BY <1>12, <3>2
        <4> QED
          BY <4>1
      <3> QED
        BY <3>1, <3>2
    <2> HIDE DEF P, M, L, T
    <2> QED
      BY <1>7, <1>8, <1>12, <2>1, <2>2, <2>3 DEF P, M
  <1>13. CASE L # {}
    <2>1. M \in L
      <3>1. PICK i \in L : TRUE
        BY <1>13
      <3>2. i >= 1 /\ M >= i /\ i \in Nat
        BY <1>4, <1>9, <3>1
      <3>3. M # 0
        BY <1>9, <3>2
      <3> HIDE DEF M, L
      <3> QED
        BY <1>9, <3>3
    <2>2. raw[M] = "n" /\ M \in Nat /\ M >= 1
      BY <2>1, <1>4
    <2>3. P = M - 1
      <3>1. M - 1 \in T
        BY <1>4, <2>1
      <3>2. M - 1 <= P
        BY <1>11, <3>1
      <3>3. P <= M - 1
        <4>1. CASE P = 0
          BY <4>1, <2>2
        <4>2. CASE P \in T
          <5>1. P + 1 \in L
            BY <1>3, <4>2
          <5>2. M >= P + 1
            BY <1>9, <5>1
          <5> QED
            BY <1>1, <2>2, <5>2
        <4> QED
          BY <1>10, <4>1, <4>2
      <3> HIDE DEF P, M
      <3> QED
        BY <1>1, <2>2, <3>2, <3>3
    <2>4. P + 1 = M
      <3> HIDE DEF P, M
      <3> QED
        BY <2>2, <2>3
    <2> HIDE DEF P, M, L, T
    <2>5. o - P + 1 = o + 1 - M + 1 /\ o + 1 - M \in Int
      BY <2>2, <2>3
    <2>6. raw[P + 1] = "n"
      BY <2>2, <2>4
    <2> QED
      BY <1>7, <1>8, <1>13, <2>5, <2>6 DEF P
  <1> QED
    BY <1>12, <1>13

LEMMA LocationFacts ==
  ASSUME NEW raw, IsText(raw), NEW start \in Nat, NEW end \in Nat,
         start < end, end <= Len(raw)
  PROVE  \E s, e \in newlineIndices(raw) :
            /\ OnLine(raw, s, start) /\ OnLine(raw, e, end - 1)
            /\ location(raw, start, end) =
                 [startLine |-> LineNumber(raw, s), startColumn |-> start - LineStart(raw, s) + 1,
                  startIndex |-> LineStart(raw, s), endLine |-> LineNumber(raw, e),
                  endColumn |-> end - LineStart(raw, e), endIndex |-> e]
  <1> DEFINE nl == newlineIndices(raw)
             s == CHOOSE x \in nl : LineStart(raw, x) <= start /\ start < x
             ends == {x \in nl : LineStart(raw, x) < end /\ end <= x}
             e0 == CHOOSE x \in ends : TRUE
             e == IF ends = {} THEN s ELSE e0
  <1>1. Len(raw) \in Nat
    BY TextFacts
  <1>2. s \in nl /\ OnLine(raw, s, start)
    <2>1. \E x \in nl : LineStart(raw, x) <= start /\ start < x
      BY <1>1, LineExists DEF OnLine
    <2>2. s \in nl /\ LineStart(raw, s) <= start /\ start < s
      BY <2>1
    <2> QED
      BY <2>2 DEF OnLine
  <1>3. ends # {}
    <2>1. end - 1 \in Nat /\ end - 1 < Len(raw)
      BY <1>1
    <2>2. PICK x \in nl : LineStart(raw, x) <= end - 1 /\ end - 1 < x
      BY <2>1, LineExists DEF OnLine
    <2>3. x \in Nat /\ LineStart(raw, x) \in Nat
      BY StartFacts
    <2> QED
      BY <2>2, <2>3
  <1>4. e0 \in nl /\ LineStart(raw, e0) < end /\ end <= e0
    BY <1>3
  <1>5. OnLine(raw, e0, end - 1)
    <2>1. e0 \in Nat /\ LineStart(raw, e0) \in Nat
      BY <1>4, StartFacts
    <2> HIDE DEF e0
    <2> QED
      BY <1>4, <2>1 DEF OnLine
  <1>6. location(raw, start, end) =
          [startLine |-> LineNumber(raw, s), startColumn |-> start - LineStart(raw, s) + 1,
           startIndex |-> LineStart(raw, s), endLine |-> LineNumber(raw, e),
           endColumn |-> IF ends = {} THEN 0 ELSE end - LineStart(raw, e), endIndex |-> e]
    BY DEF location, LineNumber, LineStart
  <1>7. e = e0
    BY <1>3
  <1> HIDE DEF s, ends, e0, e
  <1> QED
    BY <1>2, <1>3, <1>4, <1>5, <1>6, <1>7

\* The first and the last character of a text that are kept by Trim.
TrimmedTo(s, a, b) ==
    /\ a <= b /\ s[a] # "n" /\ s[b] # "n"
    /\ \A i \in 1..Len(s) : i < a => s[i] = "n"
    /\ Trim(s) = SubSeq(s, a, b) /\ Len(Trim(s)) = b - a + 1
    /\ \A i \in 1..b - a + 1 : Trim(s)[i] = s[a + i - 1]

LEMMA TrimFacts ==
  ASSUME NEW s, IsText(s)
  PROVE  Trim(s) = <<>> \/ \E a, b \in 1..Len(s) : TrimmedTo(s, a, b)
  <1> DEFINE kept == {i \in DOMAIN s : s[i] # "n"}
             a == CHOOSE i \in kept : \A m \in kept : i <= m
             b == CHOOSE i \in kept : \A m \in kept : i >= m
  <1>1. s \in Seq(Range(s)) /\ Len(s) \in Nat /\ DOMAIN s = 1..Len(s)
    BY TextFacts
  <1>2. Trim(s) = IF kept = {} THEN <<>> ELSE SubSeq(s, a, b)
    BY DEF Trim
  <1>3. ASSUME kept # {}
        PROVE  /\ a \in 1..Len(s) /\ b \in 1..Len(s) /\ a <= b /\ s[a] # "n" /\ s[b] # "n"
               /\ \A i \in 1..Len(s) : i < a => s[i] = "n"
               /\ Len(SubSeq(s, a, b)) = b - a + 1
               /\ \A i \in 1..b - a + 1 : SubSeq(s, a, b)[i] = s[a + i - 1]
    <2>1. kept \subseteq Nat /\ kept \subseteq 0..Len(s)
      BY <1>1
    <2>2. \E i \in kept : \A m \in kept : i <= m
      <3> HIDE DEF kept
      <3> QED
        BY <1>3, <2>1, LeastExists
    <2>3. \E i \in kept : \A m \in kept : i >= m
      <3>1. PICK i \in kept : \A m \in kept : m <= i
        <4> HIDE DEF kept
        <4> QED
          BY <1>1, <1>3, <2>1, GreatestExists
      <3>2. \A m \in kept : i >= m
        BY <2>1, <3>1
      <3> QED
        BY <3>2
    <2>4. a \in kept /\ (\A m \in kept : a <= m)
      BY <2>2
    <2>5. b \in kept /\ (\A m \in kept : b >= m)
      BY <2>3
    <2>6. a \in 1..Len(s) /\ b \in 1..Len(s) /\ a <= b /\ s[a] # "n" /\ s[b] # "n"
      <3> HIDE DEF a, b
      <3> QED
        BY <1>1, <2>4, <2>5
    <2>7. \A i \in 1..Len(s) : i < a => s[i] = "n"
      <3> HIDE DEF a, b
      <3> QED
        BY <1>1, <2>4
    <2>8. /\ Len(SubSeq(s, a, b)) = IF a <= b THEN b - a + 1 ELSE 0
          /\ \A i \in 1..b - a + 1 : SubSeq(s, a, b)[i] = s[a + i - 1]
      <3>1. \A i \in a..b : s[i] \in Range(s)
        <4> HIDE DEF a, b
        <4> QED
          BY <1>1, <2>6 DEF Range
      <3>2. a \in Int /\ b \in Int
        BY <2>6
      <3> HIDE DEF a, b
      <3> QED
        BY <3>1, <3>2, SubSeqProperties
    <2> HIDE DEF a, b, kept
    <2> QED
      BY <2>6, <2>7, <2>8
  <1> HIDE DEF a, b, kept
  <1> QED
    BY <1>2, <1>3 DEF TrimmedTo

LEMMA MatchFacts ==
  ASSUME NEW raw, IsText(raw), NEW word, IsText(word), NEW k \in Matches(raw, word)
  PROVE  /\ k \in 1..Len(raw) /\ k + Len(word) - 1 <= Len(raw) /\ Len(word) \in Nat
         /\ \A i \in 1..Len(word) : raw[k + i - 1] = word[i]
  <1>1. k \in 1..Len(raw) /\ Len(raw) \in Nat /\ Len(word) \in Nat /\ DOMAIN raw = 1..Len(raw)
    BY TextFacts DEF Matches
  <1>2. k + Len(word) - 1 <= Len(raw) /\ SubSeq(raw, k, k + Len(word) - 1) = word
    BY DEF Matches, Here
  <1>3. \A i \in k..k + Len(word) - 1 : raw[i] \in Range(raw)
    BY <1>1, <1>2 DEF Range
  <1>4. \A i \in 1..(k + Len(word) - 1) - k + 1 :
           SubSeq(raw, k, k + Len(word) - 1)[i] = raw[k + i - 1]
    BY <1>1, <1>3, SubSeqProperties
  <1> QED
    BY <1>1, <1>2, <1>4

\* A finding whose secret is not blank: where it is, and where location puts it.
\* match[1] is word[a], and match ends with word[b].
LEMMA FindingFacts ==
  ASSUME fragment \in [raw : Texts, path : Paths], NEW r, IsRule(r),
         NEW k \in Matches(fragment.raw, r.word), ~Blank(Finding(r, k).secret)
  PROVE  LET raw == fragment.raw
             f == Finding(r, k)
         IN  /\ IsText(raw) /\ Len(raw) \in Nat /\ f.start = k - 1
             /\ f.start \in Nat /\ f.end \in Nat /\ f.start < f.end /\ f.end <= Len(raw)
             /\ f.rule = r.id
             /\ \E a \in 1..Len(r.word) :
                   /\ k + a - 1 <= Len(raw) /\ raw[k + a - 1] # "n"
                   /\ \A i \in k..k + a - 2 : raw[i] = "n"
             /\ raw[k] # "n" => raw[f.end] # "n"
             /\ \E s, e \in newlineIndices(raw) :
                   /\ OnLine(raw, s, f.start) /\ OnLine(raw, e, f.end - 1)
                   /\ f.startLine = LineNumber(raw, s) /\ f.endLine = LineNumber(raw, e)
                   /\ f.startColumn = f.start - LineStart(raw, s) + 1
                   /\ f.endColumn = f.end - LineStart(raw, e)
                   /\ f.line = SubSeq(raw, LineStart(raw, s) + 1, e)
  <1> DEFINE raw == fragment.raw
             word == r.word
             f == Finding(r, k)
             match == Trim(word)
             loc == location(raw, k - 1, k - 1 + Len(match))
  <1>1. IsText(raw) /\ Len(raw) \in Nat /\ IsText(word) /\ Len(word) \in Nat
    BY TextFacts, DetectionAssumption DEF DetectionAssumption, IsRule
  <1>2. f = [rule |-> r.id, start |-> k - 1, end |-> k - 1 + Len(match), startLine |-> loc.startLine,
             endLine |-> loc.endLine, startColumn |-> loc.startColumn, endColumn |-> loc.endColumn,
             line |-> SubSeq(raw, loc.startIndex + 1, loc.endIndex), match |-> match,
             secret |-> IF match = word THEN SubSeq(match, r.prefix + 1, Len(match)) ELSE match]
    BY DEF Finding
  <1>3. /\ k \in 1..Len(raw) /\ k + Len(word) - 1 <= Len(raw)
        /\ \A i \in 1..Len(word) : raw[k + i - 1] = word[i]
    BY <1>1, MatchFacts
  <1>4. match # <<>>
    <2>1. SUFFICES ASSUME match = <<>> PROVE FALSE
      OBVIOUS
    <2>2. f.secret = <<>>
      <3>1. SubSeq(<<>>, r.prefix + 1, Len(<<>>)) = <<>>
        BY SubSeqEmpty DEF IsRule
      <3> HIDE DEF match, loc, f
      <3> QED
        BY <1>2, <2>1, <3>1
    <2>3. Blank(<<>>)
      BY DEF Blank
    <2> QED
      BY <2>2, <2>3
  <1>5. PICK a, b \in 1..Len(word) :
           /\ a <= b /\ word[a] # "n" /\ word[b] # "n"
           /\ \A i \in 1..Len(word) : i < a => word[i] = "n"
           /\ Len(match) = b - a + 1
    <2> HIDE DEF word
    <2>1. \E a, b \in 1..Len(word) : TrimmedTo(word, a, b)
      BY <1>1, <1>4, TrimFacts
    <2> QED
      BY <2>1 DEF TrimmedTo
  <1> DEFINE end == k - 1 + Len(match)
  <1>6. k - 1 \in Nat /\ end \in Nat /\ k - 1 < end /\ end <= Len(raw)
    <2>1. a \in Nat /\ b \in Nat /\ a >= 1 /\ a <= b /\ b <= Len(word) /\ k \in Nat /\ k >= 1
      BY <1>1, <1>3, <1>5
    <2>2. k + Len(word) - 1 <= Len(raw) /\ Len(match) = b - a + 1
      BY <1>3, <1>5
    <2> HIDE DEF match, raw, word
    <2> QED
      BY <1>1, <2>1, <2>2
  <1>7. PICK s, e \in newlineIndices(raw) :
            /\ OnLine(raw, s, k - 1) /\ OnLine(raw, e, end - 1)
            /\ loc = [startLine |-> LineNumber(raw, s),
                      startColumn |-> (k - 1) - LineStart(raw, s) + 1,
                      startIndex |-> LineStart(raw, s), endLine |-> LineNumber(raw, e),
                      endColumn |-> end - LineStart(raw, e), endIndex |-> e]
    <2> HIDE DEF match
    <2> QED
      BY <1>1, <1>6, LocationFacts
  <1> HIDE DEF loc, match
  <1>8. f.start = k - 1 /\ f.end = end /\ f.rule = r.id
    BY <1>2
  <1>9. /\ f.startLine = LineNumber(raw, s) /\ f.endLine = LineNumber(raw, e)
        /\ f.startColumn = f.start - LineStart(raw, s) + 1
        /\ f.endColumn = f.end - LineStart(raw, e)
        /\ f.line = SubSeq(raw, LineStart(raw, s) + 1, e)
    <2>1. /\ f.startLine = loc.startLine /\ f.endLine = loc.endLine
          /\ f.startColumn = loc.startColumn /\ f.endColumn = loc.endColumn
          /\ f.line = SubSeq(raw, loc.startIndex + 1, loc.endIndex)
      <3> HIDE DEF f, raw
      <3> QED
        BY <1>2
    <2> HIDE DEF f, raw, end
    <2> QED
      BY <1>7, <1>8, <2>1
  <1>10. raw[k + a - 1] # "n" /\ k + a - 1 <= Len(raw)
    BY SMTT(30), <1>1, <1>3, <1>5
  <1>11. ASSUME NEW i \in k..k + a - 2 PROVE raw[i] = "n"
    <2>1. (i - k + 1) \in 1..Len(word) /\ i - k + 1 < a /\ k + (i - k + 1) - 1 = i
      BY <1>1, <1>3, <1>5
    <2>2. raw[k + (i - k + 1) - 1] = word[i - k + 1]
      BY <1>3, <2>1
    <2>3. word[i - k + 1] = "n"
      BY <1>5, <2>1
    <2> QED
      BY <2>1, <2>2, <2>3
  <1>12. ASSUME raw[k] # "n" PROVE raw[end] # "n"
    <2>1. a = 1
      <3>1. SUFFICES ASSUME a # 1 PROVE FALSE
        OBVIOUS
      <3>2. k \in k..k + a - 2
        BY <1>1, <1>3, <1>5, <3>1
      <3> QED
        BY <1>11, <1>12, <3>2
    <2>2. end = k + b - 1
      BY <1>1, <1>3, <1>5, <2>1
    <2>3. raw[k + b - 1] = word[b]
      BY <1>3
    <2> QED
      BY <1>5, <2>2, <2>3
  <1> HIDE DEF f, end, raw, word
  <1>13. f.start \in Nat /\ f.end \in Nat /\ f.start < f.end /\ f.end <= Len(raw)
    BY <1>6, <1>8
  <1>14. \E c \in 1..Len(word) :
            /\ k + c - 1 <= Len(raw) /\ raw[k + c - 1] # "n"
            /\ \A i \in k..k + c - 2 : raw[i] = "n"
    BY <1>10, <1>11
  <1>15. raw[k] # "n" => raw[f.end] # "n"
    BY <1>8, <1>12
  <1>16. OnLine(raw, s, f.start) /\ OnLine(raw, e, f.end - 1)
    BY <1>7, <1>8
  <1> QED
    BY <1>1, <1>8, <1>9, <1>13, <1>14, <1>15, <1>16 DEF f, raw, word

-----------------------------------------------------------------------------
(* What has been found, and where.                                         *)

FoundBy(f, i) == \E k \in Matches(fragment.raw, rules[i].word) : f = Finding(rules[i], k)

\* A secret is one of the findings left, which come of a match of a rule.
FoundInv ==
    /\ \A f \in found : \E i \in DOMAIN rules : FoundBy(f, i)
    /\ step = "init" => found = {}
    /\ step \in {"build", "done"} => \A f \in found : ~Blank(f.secret)
    /\ found # {} => ~checkCommitOrPathAllowed(GlobalLists)
    /\ secrets = IF step = "done" THEN {buildSecret(f) : f \in found} ELSE {}

LEMMA FindingStays ==
  ASSUME UNCHANGED fragment, NEW r, NEW k, NEW lists
  PROVE  /\ Finding(r, k)' = Finding(r, k)
         /\ checkCommitOrPathAllowed(lists)' = checkCommitOrPathAllowed(lists)
  BY DEF Finding, checkCommitOrPathAllowed

LEMMA FoundStays ==
  ASSUME UNCHANGED <<fragment, rules>>, NEW f, NEW i
  PROVE  FoundBy(f, i)' <=> FoundBy(f, i)
  BY FindingStays DEF FoundBy

LEMMA ConvertedFacts ==
  ASSUME NEW r, IsRule(r)
  PROVE  LET c == TwomsToGitleaksRule(r)
         IN  /\ c.id = r.id /\ c.word = r.word /\ c.prefix = r.prefix /\ c.keywords = r.keywords
             /\ c.entropy = r.entropy /\ c.paths = r.paths
             /\ c.lists = convertAllowLists(r.lists)
             /\ \A k : Finding(c, k) = Finding(r, k)
  <1> DEFINE c == TwomsToGitleaksRule(r)
  <1>1. /\ c.id = r.id /\ c.word = r.word /\ c.prefix = r.prefix /\ c.keywords = r.keywords
        /\ c.entropy = r.entropy /\ c.paths = r.paths /\ c.lists = convertAllowLists(r.lists)
    BY DEF TwomsToGitleaksRule, IsRule
  <1>2. ASSUME NEW k PROVE Finding(c, k) = Finding(r, k)
    <2> HIDE DEF c
    <2> QED
      BY <1>1 DEF Finding
  <1> QED
    BY <1>1, <1>2

LEMMA DetectedFacts ==
  ASSUME NEW r, IsRule(r), NEW f \in detectRule(TwomsToGitleaksRule(r))
  PROVE  \E k \in Matches(fragment.raw, r.word) : f = Finding(r, k)
  <1> DEFINE c == TwomsToGitleaksRule(r)
  <1>1. PICK k \in Limited(Matches(fragment.raw, c.word)) : f = Finding(c, k)
    BY DEF detectRule
  <1>2. k \in Matches(fragment.raw, c.word)
    BY DEF Limited
  <1> QED
    BY <1>1, <1>2, ConvertedFacts

LEMMA FoundStep ==
  ASSUME DetectTypes, RulesInv, FoundInv, [DetectNext]_detectVars
  PROVE  FoundInv'
  <1>1. fragment' = fragment
    BY DEF DetectNext, detectVars, initEngine, SkipFragment, DetectRule, Filter, BuildSecrets
  <1>2. checkCommitOrPathAllowed(GlobalLists)' = checkCommitOrPathAllowed(GlobalLists)
    BY <1>1, FindingStays
  <1>3. CASE initEngine
    <2>1. step = "init" /\ step' \in {"detect", "error"} /\ found' = found /\ secrets' = secrets
      BY <1>3 DEF initEngine
    <2>2. found = {} /\ secrets = {}
      BY <2>1 DEF FoundInv
    <2> QED
      BY <2>1, <2>2 DEF FoundInv
  <1>4. CASE SkipFragment
    <2>1. /\ step = "detect" /\ step' = "done" /\ found' = found /\ secrets' = secrets
          /\ checkCommitOrPathAllowed(GlobalLists)
      BY <1>4 DEF SkipFragment
    <2>2. found = {} /\ secrets = {}
      BY <2>1 DEF FoundInv
    <2>3. {buildSecret(f) : f \in found'} = {}
      BY <2>1, <2>2
    <2> QED
      BY <2>1, <2>2, <2>3 DEF FoundInv
  <1>5. ASSUME NEW i \in left, DetectRule(i) PROVE FoundInv'
    <2>1. /\ step = "detect" /\ step' = step /\ secrets' = secrets /\ rules' = rules
          /\ ~checkCommitOrPathAllowed(GlobalLists)
          /\ found' = found \/ found' = found \cup detectRule(TwomsToGitleaksRule(rules[i]))
      BY <1>5 DEF DetectRule
    <2>2. i \in DOMAIN rules /\ IsRule(rules[i])
      BY RulesFacts DEF DetectTypes
    <2>3. \A f \in detectRule(TwomsToGitleaksRule(rules[i])) : FoundBy(f, i)
      BY <2>2, DetectedFacts DEF FoundBy
    <2>4. \A f \in found' : \E j \in DOMAIN rules : FoundBy(f, j)
      BY <2>1, <2>2, <2>3 DEF FoundInv
    <2>5. \A f \in found' : \E j \in DOMAIN rules' : FoundBy(f, j)'
      BY <1>1, <2>1, <2>4, FoundStays
    <2> QED
      BY <1>2, <2>1, <2>5 DEF FoundInv
  <1>6. CASE Filter
    <2>1. /\ step = "detect" /\ step' = "build" /\ secrets' = secrets /\ rules' = rules
          /\ found' = filter(found)
      BY <1>6 DEF Filter
    <2>2. found' \subseteq found /\ \A f \in found' : ~Blank(f.secret)
      BY <2>1 DEF filter
    <2>3. \A f \in found' : \E j \in DOMAIN rules' : FoundBy(f, j)'
      BY <1>1, <2>1, <2>2, FoundStays DEF FoundInv
    <2> QED
      BY <1>2, <2>1, <2>2, <2>3 DEF FoundInv
  <1>7. CASE BuildSecrets
    <2>1. /\ step = "build" /\ step' = "done" /\ rules' = rules /\ found' = found
          /\ secrets' = {buildSecret(f) : f \in found}
      BY <1>7 DEF BuildSecrets
    <2>2. \A f \in found' : \E j \in DOMAIN rules' : FoundBy(f, j)'
      BY <1>1, <2>1, FoundStays DEF FoundInv
    <2>3. \A f \in found' : ~Blank(f.secret)
      BY <2>1 DEF FoundInv
    <2>4. secrets' = {buildSecret(f) : f \in found'}
      BY <2>1
    <2> QED
      BY <1>2, <2>1, <2>2, <2>3, <2>4 DEF FoundInv
  <1>8. CASE UNCHANGED detectVars
    <2>1. \A f \in found' : \E j \in DOMAIN rules' : FoundBy(f, j)'
      BY <1>1, <1>8, FoundStays DEF FoundInv, detectVars
    <2>2. secrets' = IF step' = "done" THEN {buildSecret(f) : f \in found'} ELSE {}
      BY <1>8 DEF FoundInv, detectVars
    <2> QED
      BY <1>2, <1>8, <2>1, <2>2 DEF FoundInv, detectVars
  <1> QED
    BY <1>3, <1>4, <1>5, <1>6, <1>7, <1>8 DEF DetectNext

LEMMA FoundFacts ==
  ASSUME DetectTypes, RulesInv, FoundInv, NEW f \in found
  PROVE  \E i \in DOMAIN rules :
            /\ rules[i].id = i /\ IsRule(rules[i])
            /\ \E k \in Matches(fragment.raw, rules[i].word) : f = Finding(rules[i], k)
  BY RulesFacts DEF FoundInv, FoundBy

LEMMA RightPlaces ==
  ASSUME DetectTypes, RulesInv, FoundInv
  PROVE  PositionsAreRight
  <1> DEFINE raw == fragment.raw
  <1> SUFFICES ASSUME NEW t \in secrets, raw[t.start + 1] # "n"
               PROVE  /\ t.startLine = LineOf(raw, t.start) + LineOffset
                      /\ t.endLine = LineOf(raw, t.end - 1) + LineOffset
                      /\ t.startColumn = ColumnOf(raw, t.start)
                      /\ t.endColumn = ColumnOf(raw, t.end - 1)
                            + (IF t.startLine = LineOffset /\ t.endLine > LineOffset THEN 1 ELSE 0)
    BY DEF PositionsAreRight
  <1>1. step = "done" /\ secrets = {buildSecret(f) : f \in found}
    BY DEF FoundInv
  <1>2. PICK f \in found : t = buildSecret(f)
    BY <1>1
  <1>3. ~Blank(f.secret)
    BY <1>1 DEF FoundInv
  <1>4. PICK i \in DOMAIN rules :
            /\ IsRule(rules[i])
            /\ \E k \in Matches(raw, rules[i].word) : f = Finding(rules[i], k)
    BY FoundFacts
  <1>5. PICK k \in Matches(raw, rules[i].word) : f = Finding(rules[i], k)
    BY <1>4
  <1>6. /\ IsText(raw) /\ Len(raw) \in Nat /\ f.start = k - 1
        /\ f.start \in Nat /\ f.end \in Nat /\ f.start < f.end /\ f.end <= Len(raw)
        /\ raw[k] # "n" => raw[f.end] # "n"
        /\ \E s, e \in newlineIndices(raw) :
              /\ OnLine(raw, s, f.start) /\ OnLine(raw, e, f.end - 1)
              /\ f.startLine = LineNumber(raw, s) /\ f.endLine = LineNumber(raw, e)
              /\ f.startColumn = f.start - LineStart(raw, s) + 1
              /\ f.endColumn = f.end - LineStart(raw, e)
              /\ f.line = SubSeq(raw, LineStart(raw, s) + 1, e)
    <2>1. fragment \in [raw : Texts, path : Paths]
      BY DEF DetectTypes
    <2> QED
      BY <1>3, <1>4, <1>5, <2>1, FindingFacts, SMTT(30)
  <1>7. PICK s, e \in newlineIndices(raw) :
            /\ OnLine(raw, s, f.start) /\ OnLine(raw, e, f.end - 1)
            /\ f.startLine = LineNumber(raw, s) /\ f.endLine = LineNumber(raw, e)
            /\ f.startColumn = f.start - LineStart(raw, s) + 1
            /\ f.endColumn = f.end - LineStart(raw, e)
            /\ f.line = SubSeq(raw, LineStart(raw, s) + 1, e)
    BY <1>6
  <1> DEFINE shift == IF Head(f.line) = "n" THEN 1 ELSE 0
  <1>8. /\ t.start = f.start /\ t.end = f.end
        /\ t.startLine = f.startLine + LineOffset /\ t.endLine = f.endLine + LineOffset
        /\ t.startColumn = f.startColumn - shift /\ t.endColumn = f.endColumn - shift
    BY <1>2 DEF buildSecret
  <1>9. raw[f.start + 1] # "n" /\ raw[f.end] # "n"
    <2>1. f.start + 1 = k /\ raw[f.start + 1] # "n"
      <3>1. k \in Nat
        BY <1>6, TextFacts DEF Matches
      <3> QED
        BY <1>6, <1>8, <3>1
    <2> QED
      BY <1>6, <2>1
  <1> DEFINE o == f.start
             p == f.end - 1
  <1> HIDE DEF raw
  <1>10. o \in Nat /\ p \in Nat /\ o <= p /\ p < Len(raw) /\ raw[o + 1] # "n" /\ raw[p + 1] # "n"
    <2>1. p + 1 = f.end
      BY <1>6
    <2> QED
      BY <1>6, <1>9, <2>1
  <1>11. /\ LineNumber(raw, s) = LineOf(raw, o) /\ LineOf(raw, o) \in Nat
         /\ o - LineStart(raw, s) + 1
                = ColumnOf(raw, o) + (IF LineOf(raw, o) = 0 THEN 0 ELSE 1)
         /\ raw[LineStart(raw, s) + 1] = "n" <=> LineOf(raw, o) # 0
         /\ ColumnOf(raw, o) \in Int
    <2>1. o < Len(raw)
      BY <1>6, <1>10
    <2> HIDE DEF o
    <2> QED
      BY <1>6, <1>7, <1>10, <2>1, LineFacts DEF o
  <1>12. /\ LineNumber(raw, e) = LineOf(raw, p) /\ LineOf(raw, p) \in Nat
         /\ p - LineStart(raw, e) + 1
                = ColumnOf(raw, p) + (IF LineOf(raw, p) = 0 THEN 0 ELSE 1)
         /\ ColumnOf(raw, p) \in Int
    <2>1. OnLine(raw, e, p)
      BY <1>7
    <2> HIDE DEF p
    <2> QED
      BY <1>6, <1>10, <2>1, LineFacts
  <1>13. Head(f.line) = raw[LineStart(raw, s) + 1]
    <2>1. LineStart(raw, s) \in Nat /\ s \in Nat /\ LineStart(raw, s) <= o /\ o < s
      BY <1>6, <1>7, StartFacts DEF OnLine
    <2>2. s <= Len(raw) /\ e <= Len(raw) /\ e \in Nat /\ p < e
      BY <1>6, <1>7, TextFacts DEF OnLine
    <2>3. LineStart(raw, s) + 1 \in 1..Len(raw) /\ e \in (LineStart(raw, s) + 1)..Len(raw)
      <3>1. Len(raw) \in Nat /\ o \in Nat /\ p \in Nat /\ o <= p /\ p < Len(raw)
        BY <1>6, <1>10
      <3> HIDE DEF o, p
      <3> QED
        BY <2>1, <2>2, <3>1
    <2>4. raw \in Seq(Range(raw))
      BY <1>6 DEF IsText
    <2> QED
      BY <1>7, <2>3, <2>4, HeadTailOfSubSeq
  <1>14. LineOf(raw, p) = 0 => LineOf(raw, o) = 0
    <2> DEFINE L == {j \in 1..o : raw[j] = "n"}
               M == {j \in 1..p : raw[j] = "n"}
    <2>1. L \subseteq M
      BY <1>10
    <2>2. IsFiniteSet(M) /\ IsFiniteSet(L)
      <3>1. IsFiniteSet(1..p) /\ M \in SUBSET (1..p)
        BY <1>10, FS_Interval
      <3>2. IsFiniteSet(M)
        BY <3>1, FS_Subset
      <3> HIDE DEF L, M
      <3> QED
        BY <2>1, <3>2, FS_Subset
    <2>3. LineOf(raw, p) = Cardinality(M) /\ LineOf(raw, o) = Cardinality(L)
      BY DEF LineOf
    <2> HIDE DEF L, M
    <2> QED
      BY <2>1, <2>2, <2>3, FS_EmptySet
  <1>15. LineOffset \in Nat
    BY DetectionAssumption DEF DetectionAssumption
  <1>16. f.end - LineStart(raw, e) = p - LineStart(raw, e) + 1 /\ LineStart(raw, e) \in Nat
    <2>1. LineStart(raw, e) \in Nat
      BY <1>6, <1>7, StartFacts
    <2> QED
      BY <1>6, <2>1
  <1>17. shift = IF LineOf(raw, o) # 0 THEN 1 ELSE 0
    BY <1>11, <1>13
  <1> HIDE DEF o, p, shift
  <1>18. t.startLine = LineOf(raw, o) + LineOffset /\ t.endLine = LineOf(raw, p) + LineOffset
    BY <1>7, <1>8, <1>11, <1>12
  <1>19. t.startColumn = ColumnOf(raw, o)
    <2>1. f.startColumn = o - LineStart(raw, s) + 1
      BY <1>7 DEF o
    <2> QED
      BY <1>8, <1>11, <1>17, <2>1
  <1>20. t.endColumn = ColumnOf(raw, p)
              + (IF t.startLine = LineOffset /\ t.endLine > LineOffset THEN 1 ELSE 0)
    <2>1. t.endColumn = ColumnOf(raw, p) + (IF LineOf(raw, p) = 0 THEN 0 ELSE 1) - shift
      <3>1. f.endColumn = f.end - LineStart(raw, e)
        BY <1>7
      <3>2. p \in Nat /\ shift \in Int
        BY <1>10, <1>17 DEF p
      <3> QED
        BY <1>8, <1>12, <1>16, <3>1, <3>2
    <2> QED
      BY <1>11, <1>12, <1>14, <1>15, <1>17, <1>18, <2>1
  <1> QED
    BY <1>8, <1>18, <1>19, <1>20 DEF o, p

LEMMA PartFacts ==
  ASSUME NEW s, IsText(s), NEW a \in Nat, a >= 1, NEW b \in Nat, b <= Len(s)
  PROVE  /\ IsText(SubSeq(s, a, b)) /\ Len(SubSeq(s, a, b)) = IF a <= b THEN b - a + 1 ELSE 0
         /\ \A i \in 1..b - a + 1 : SubSeq(s, a, b)[i] = s[a + i - 1]
  <1>1. Len(s) \in Nat /\ DOMAIN s = 1..Len(s)
    BY TextFacts
  <1>2. \A i \in a..b : s[i] \in Range(s)
    BY <1>1 DEF Range
  <1>3. /\ SubSeq(s, a, b) \in Seq(Range(s))
        /\ Len(SubSeq(s, a, b)) = IF a <= b THEN b - a + 1 ELSE 0
        /\ \A i \in 1..b - a + 1 : SubSeq(s, a, b)[i] = s[a + i - 1]
    <2>1. a \in Int /\ b \in Int
      OBVIOUS
    <2> QED
      BY <1>2, <2>1, SubSeqProperties
  <1>4. ASSUME NEW S, NEW t \in Seq(S) PROVE t \in Seq(Range(t))
    <2>1. \A i \in 1..Len(t) : t[i] \in Range(t)
      BY DEF Range
    <2> QED
      BY <2>1
  <1> QED
    BY <1>3, <1>4 DEF IsText

LEMMA SecretFacts ==
  ASSUME NEW r, IsRule(r), NEW k
  PROVE  LET s == Finding(r, k).secret
         IN  IsText(s) /\ Len(s) \in Nat /\ Cardinality(Range(s)) \in Nat
  <1> DEFINE s == Finding(r, k).secret
             match == Trim(r.word)
  <1>1. IsText(<<>>) /\ Len(<<>>) = 0
    BY DEF IsText
  <1>2. IsText(match)
    <2>1. IsText(r.word)
      BY DEF IsRule
    <2>2. CASE match = <<>>
      BY <1>1, <2>2
    <2>3. CASE match # <<>>
      <3>1. PICK a, b \in 1..Len(r.word) : TrimmedTo(r.word, a, b)
        BY <2>1, <2>3, TrimFacts
      <3>2. a \in Nat /\ b \in Nat /\ a >= 1 /\ b <= Len(r.word)
        BY <2>1, TextFacts
      <3>3. match = SubSeq(r.word, a, b)
        BY <3>1 DEF TrimmedTo
      <3>4. IsText(SubSeq(r.word, a, b))
        BY <2>1, <3>2, PartFacts
      <3> QED
        BY <3>3, <3>4
    <2> QED
      BY <2>2, <2>3
  <1>3. s = IF match = r.word THEN SubSeq(match, r.prefix + 1, Len(match)) ELSE match
    BY DEF Finding
  <1>4. IsText(SubSeq(match, r.prefix + 1, Len(match)))
    <2>1. r.prefix + 1 \in Nat /\ r.prefix + 1 >= 1
      BY DEF IsRule
    <2>2. Len(match) \in Nat /\ Len(match) <= Len(match)
      BY <1>2, TextFacts
    <2> HIDE DEF match
    <2> QED
      BY <1>2, <2>1, <2>2, PartFacts
  <1> HIDE DEF s, match
  <1>5. IsText(s)
    BY <1>2, <1>3, <1>4
  <1>6. Len(s) \in Nat /\ DOMAIN s = 1..Len(s) /\ s \in Seq(Range(s))
    BY <1>5, TextFacts
  <1>7. Cardinality(Range(s)) \in Nat
    <2>1. s \in Surjection(1..Len(s), Range(s))
      BY <1>6 DEF Surjection, Range
    <2>2. IsFiniteSet(1..Len(s))
      BY <1>6, FS_Interval
    <2>3. IsFiniteSet(Range(s))
      BY <2>1, <2>2, FS_Surjection
    <2> QED
      BY <2>3, FS_CardinalityType
  <1> QED
    BY <1>5, <1>6, <1>7 DEF s

\* A text with a part that is not blank is not blank.
LEMMA PartOfBlank ==
  ASSUME NEW text, IsText(text), NEW part, Has(text, part), ~Blank(part)
  PROVE  ~Blank(text)
  <1>1. Len(text) \in Nat /\ DOMAIN text = 1..Len(text)
    BY TextFacts
  <1>2. PICK i, j \in 0..Len(text) : part = SubSeq(text, i + 1, j)
    BY DEF Has, SubSeqs
  <1>3. /\ IsText(part) /\ Len(part) = IF i + 1 <= j THEN j - (i + 1) + 1 ELSE 0
        /\ \A m \in 1..j - (i + 1) + 1 : part[m] = text[i + 1 + m - 1]
    <2>1. i + 1 \in Nat /\ i + 1 >= 1 /\ j \in Nat /\ j <= Len(text)
      BY <1>1
    <2> QED
      BY <1>2, <2>1, PartFacts
  <1>4. PICK m \in DOMAIN part : part[m] \notin {"n", "r"}
    BY DEF Blank
  <1>5. m \in 1..Len(part)
    BY <1>3, <1>4, TextFacts
  <1>6. m \in 1..j - (i + 1) + 1 /\ i + 1 + m - 1 \in 1..Len(text)
    BY <1>1, <1>3, <1>5
  <1>7. text[i + 1 + m - 1] \notin {"n", "r"}
    BY <1>3, <1>4, <1>6
  <1> QED
    BY <1>1, <1>6, <1>7 DEF Blank

LEMMA SameNumber ==
  ASSUME NEW raw, IsText(raw), NEW s \in newlineIndices(raw), NEW t \in newlineIndices(raw),
         LineNumber(raw, s) = LineNumber(raw, t)
  PROVE  s = t
  <1> DEFINE Before(x) == {y \in newlineIndices(raw) : y < x}
  <1>1. newlineIndices(raw) \subseteq Nat /\ IsFiniteSet(newlineIndices(raw))
    <2>1. newlineIndices(raw) \in SUBSET (0..Len(raw)) /\ Len(raw) \in Nat
      BY TextFacts
    <2>2. IsFiniteSet(0..Len(raw))
      BY <2>1, FS_Interval
    <2> QED
      BY <2>1, <2>2, FS_Subset
  <1>2. ASSUME NEW x \in newlineIndices(raw), NEW z \in newlineIndices(raw), x < z,
               LineNumber(raw, x) = LineNumber(raw, z)
        PROVE  FALSE
    <2>1. Before(x) \in SUBSET Before(z)
      BY <1>1, <1>2
    <2>2. x \in Before(z) /\ x \notin Before(x)
      BY <1>1, <1>2
    <2>3. IsFiniteSet(Before(z))
      <3>1. Before(z) \in SUBSET newlineIndices(raw)
        OBVIOUS
      <3> HIDE DEF Before
      <3> QED
        BY <1>1, <3>1, FS_Subset
    <2>4. Cardinality(Before(z)) = Cardinality(Before(x))
      BY <1>2 DEF LineNumber
    <2>5. Before(z) = Before(x)
      <3> HIDE DEF Before
      <3> QED
        BY <2>1, <2>3, <2>4, FS_Subset
    <2> HIDE DEF Before
    <2> QED
      BY <2>2, <2>5
  <1>3. s \in Nat /\ t \in Nat
    BY <1>1
  <1>4. ~(s < t) /\ ~(t < s)
    BY <1>2
  <1> QED
    BY <1>3, <1>4

\* Of two findings in one line, none begins with two newlines that the other does not
\* begin with.
LEMMA SameLine ==
  ASSUME DetectTypes,
         NEW r, IsRule(r), NEW k \in Matches(fragment.raw, r.word), ~Blank(Finding(r, k).secret),
         NEW q, IsRule(q), NEW m \in Matches(fragment.raw, q.word), ~Blank(Finding(q, m).secret),
         Finding(r, k).startLine = Finding(q, m).startLine,
         BeginsWithTwoNewlines(Finding(r, k))
  PROVE  BeginsWithTwoNewlines(Finding(q, m))
  <1> DEFINE raw == fragment.raw
             g == Finding(r, k)
             f == Finding(q, m)
  <1>1. fragment \in [raw : Texts, path : Paths]
    BY DEF DetectTypes
  <1>2. PICK s \in newlineIndices(raw) : OnLine(raw, s, g.start) /\ g.startLine = LineNumber(raw, s)
    BY <1>1, FindingFacts
  <1>3. PICK t \in newlineIndices(raw) : OnLine(raw, t, f.start) /\ f.startLine = LineNumber(raw, t)
    BY <1>1, FindingFacts
  <1>4. IsText(raw) /\ Len(raw) \in Nat /\ g.start \in Nat /\ f.start \in Nat
    BY <1>1, FindingFacts
  <1>5. g.startLine = f.startLine /\ BeginsWithTwoNewlines(g)
    OBVIOUS
  <1> HIDE DEF raw, f, g
  <1>6. s = t
    BY <1>2, <1>3, <1>4, <1>5, SameNumber
  <1>7. g.start + 2 <= Len(raw) /\ raw[g.start + 1] = "n" /\ raw[g.start + 2] = "n"
    BY <1>5 DEF BeginsWithTwoNewlines, raw
  <1>8. g.start \in newlineIndices(raw) /\ g.start + 1 \in newlineIndices(raw)
    <2>1. (g.start + 1) + 1 = g.start + 2 /\ g.start + 1 \in Int
      BY <1>4
    <2> QED
      BY <1>4, <1>7, <2>1, TextFacts
  <1>9. /\ LineStart(raw, s) \in Nat /\ s \in Nat /\ LineStart(raw, s) <= g.start /\ g.start < s
        /\ LineStart(raw, s) <= f.start /\ f.start < s
    BY <1>2, <1>3, <1>4, <1>6, StartFacts DEF OnLine
  <1>10. g.start <= LineStart(raw, s)
    BY <1>2, <1>4, <1>8, <1>9, StartFacts
  <1>11. s <= g.start + 1
    <2>1. SUFFICES ASSUME g.start + 1 < s PROVE FALSE
      BY <1>4, <1>9
    <2>2. g.start + 1 <= LineStart(raw, s)
      BY <1>2, <1>4, <1>8, <2>1, StartFacts
    <2> QED
      BY <1>4, <1>9, <2>2
  <1>12. f.start = g.start
    BY <1>4, <1>9, <1>10, <1>11
  <1>13. BeginsWithTwoNewlines(f)
    BY <1>7, <1>12 DEF BeginsWithTwoNewlines, raw
  <1> QED
    BY <1>13 DEF f

-----------------------------------------------------------------------------
(* The content of a secret.                                                *)

LEMMA PartOf ==
  ASSUME NEW text, IsText(text), NEW word, IsText(word), NEW p \in Nat,
         p + Len(word) <= Len(text), \A i \in 1..Len(word) : word[i] = text[p + i]
  PROVE  Has(text, word)
  <1>1. Len(text) \in Nat /\ Len(word) \in Nat /\ DOMAIN word = 1..Len(word)
    BY TextFacts
  <1> DEFINE part == SubSeq(text, p + 1, p + Len(word))
  <1>2. /\ IsText(part) /\ Len(part) = Len(word)
        /\ \A i \in 1..Len(word) : part[i] = text[p + i]
    <2>1. p + 1 \in Nat /\ p + 1 >= 1 /\ p + Len(word) \in Nat
      BY <1>1
    <2>2. /\ IsText(part)
          /\ Len(part) = IF p + 1 <= p + Len(word) THEN p + Len(word) - (p + 1) + 1 ELSE 0
          /\ \A i \in 1..p + Len(word) - (p + 1) + 1 : part[i] = text[p + 1 + i - 1]
      BY <2>1, PartFacts
    <2>3. p + Len(word) - (p + 1) + 1 = Len(word)
      BY <1>1
    <2>4. Len(part) = Len(word)
      BY <1>1, <2>2, <2>3
    <2>5. \A i \in 1..Len(word) : p + 1 + i - 1 = p + i
      BY <1>1
    <2> HIDE DEF part
    <2> QED
      BY <2>2, <2>3, <2>4, <2>5
  <1>3. part = word
    <2>1. DOMAIN part = 1..Len(part) /\ part \in Seq(Range(part)) /\ word \in Seq(Range(word))
      BY <1>2, TextFacts DEF IsText
    <2> HIDE DEF part
    <2>2. \A i \in 1..Len(word) : part[i] = word[i]
      BY <1>2
    <2>3. part = [i \in 1..Len(part) |-> part[i]] /\ word = [i \in 1..Len(word) |-> word[i]]
      BY <1>1, <2>1
    <2> QED
      BY <1>2, <2>2, <2>3
  <1>4. p \in 0..Len(text) /\ p + Len(word) \in 0..Len(text)
    BY <1>1
  <1> QED
    BY <1>3, <1>4 DEF Has, SubSeqs

LEMMA PlaceOfPart ==
  ASSUME NEW text, IsText(text), NEW word, Has(text, word)
  PROVE  /\ IsText(word) /\ Len(word) \in Nat
         /\ \E p \in 0..Len(text) :
               p + Len(word) <= Len(text) /\ \A i \in 1..Len(word) : word[i] = text[p + i]
  <1>1. Len(text) \in Nat
    BY TextFacts
  <1>2. PICK i, j \in 0..Len(text) : word = SubSeq(text, i + 1, j)
    BY DEF Has, SubSeqs
  <1>3. /\ IsText(word) /\ Len(word) = IF i + 1 <= j THEN j - (i + 1) + 1 ELSE 0
        /\ \A m \in 1..j - (i + 1) + 1 : word[m] = text[i + 1 + m - 1]
    <2>1. i + 1 \in Nat /\ i + 1 >= 1 /\ j \in Nat /\ j <= Len(text)
      BY <1>1
    <2> QED
      BY <1>2, <2>1, PartFacts
  <1>4. \A m \in 1..Len(word) : m \in 1..j - (i + 1) + 1 /\ i + 1 + m - 1 = i + m
    BY <1>1, <1>3
  <1>5. i + Len(word) <= Len(text) /\ Len(word) \in Nat
    BY <1>1, <1>3
  <1> QED
    BY <1>3, <1>4, <1>5

LEMMA PartOfPart ==
  ASSUME NEW text, IsText(text), NEW part, Has(text, part), NEW word, Has(part, word)
  PROVE  Has(text, word)
  <1>1. /\ IsText(part) /\ Len(part) \in Nat /\ Len(text) \in Nat
        /\ IsText(word) /\ Len(word) \in Nat
    BY PlaceOfPart, TextFacts
  <1>2. PICK p \in 0..Len(text) :
            p + Len(part) <= Len(text) /\ \A i \in 1..Len(part) : part[i] = text[p + i]
    BY PlaceOfPart
  <1>3. PICK q \in 0..Len(part) :
            q + Len(word) <= Len(part) /\ \A i \in 1..Len(word) : word[i] = part[q + i]
    BY <1>1, PlaceOfPart
  <1>4. p + q \in Nat /\ p + q + Len(word) <= Len(text)
    BY <1>1, <1>2, <1>3
  <1>5. \A i \in 1..Len(word) : word[i] = text[p + q + i]
    <2>1. \A i \in 1..Len(word) : q + i \in 1..Len(part) /\ p + (q + i) = p + q + i
      BY <1>1, <1>2, <1>3
    <2> QED
      BY <1>2, <1>3, <2>1
  <1> QED
    BY <1>1, <1>4, <1>5, PartOf

\* The index that is found is a place of the word.
LEMMA FirstPlace ==
  ASSUME NEW text, IsText(text), NEW word, Has(text, word), Len(word) >= 1
  PROVE  LET at == IndexFirstSubSeq(word, text)
         IN  /\ at \in Nat /\ at >= 1 /\ at + Len(word) - 1 <= Len(text)
             /\ \A i \in 1..Len(word) : word[i] = text[at - 1 + i]
  <1>1. IsText(word) /\ Len(word) \in Nat /\ Len(text) \in Nat
    BY PlaceOfPart, TextFacts
  <1> DEFINE Up(i) == SubSeq(text, 1, i)
             T == {i \in 0..Len(text) : Has(Up(i), word)}
             last == CHOOSE i \in 0..Len(text) :
                        /\ word \in SubSeqs(SubSeq(text, 1, i))
                        /\ \A j \in 0..i-1 : word \notin SubSeqs(SubSeq(text, 1, j))
  <1>2. ASSUME NEW i \in 0..Len(text)
        PROVE  /\ IsText(Up(i)) /\ Len(Up(i)) = i
               /\ \A m \in 1..i : Up(i)[m] = text[m]
    <2>1. i \in Nat /\ i <= Len(text) /\ 1 \in Nat
      BY <1>1
    <2>2. /\ IsText(Up(i)) /\ Len(Up(i)) = IF 1 <= i THEN i - 1 + 1 ELSE 0
          /\ \A m \in 1..i - 1 + 1 : Up(i)[m] = text[1 + m - 1]
      BY <2>1, PartFacts
    <2> HIDE DEF Up
    <2> QED
      BY <2>1, <2>2
  <1>3. Len(text) \in T
    <2>1. PICK p \in 0..Len(text) :
              p + Len(word) <= Len(text) /\ \A i \in 1..Len(word) : word[i] = text[p + i]
      BY PlaceOfPart
    <2>2. Len(text) \in 0..Len(text) /\ p \in Nat
      BY <1>1
    <2>3. IsText(Up(Len(text))) /\ Len(Up(Len(text))) = Len(text)
          /\ \A m \in 1..Len(text) : Up(Len(text))[m] = text[m]
      BY <1>2, <2>2
    <2> HIDE DEF Up
    <2>4. \A i \in 1..Len(word) : word[i] = Up(Len(text))[p + i]
      BY <1>1, <2>1, <2>3
    <2>5. Has(Up(Len(text)), word)
      BY <1>1, <2>1, <2>2, <2>3, <2>4, PartOf
    <2> QED
      BY <2>2, <2>5
  <1>4. \E i \in T : \A j \in T : i <= j
    <2>1. T \subseteq Nat /\ T # {}
      BY <1>1, <1>3
    <2> HIDE DEF T
    <2> QED
      BY <2>1, LeastExists
  <1>5. PICK i \in T : \A j \in T : i <= j
    <2> HIDE DEF T
    <2> QED
      BY <1>4
  <1>6. \E x \in 0..Len(text) :
            /\ word \in SubSeqs(SubSeq(text, 1, x))
            /\ \A j \in 0..x-1 : word \notin SubSeqs(SubSeq(text, 1, j))
    <2>1. i \in 0..Len(text) /\ Has(Up(i), word)
      OBVIOUS
    <2>2. ASSUME NEW j \in 0..i-1 PROVE ~Has(Up(j), word)
      <3>1. j \in 0..Len(text) /\ ~(i <= j)
        BY <1>1, <2>1
      <3>2. j \notin T
        <4> HIDE DEF T
        <4> QED
          BY <1>5, <3>1
      <3> QED
        BY <3>1, <3>2
    <2> QED
      BY <2>1, <2>2 DEF Has
  <1>7. /\ last \in 0..Len(text) /\ Has(Up(last), word)
        /\ \A j \in 0..last-1 : ~Has(Up(j), word)
    BY <1>6 DEF Has
  <1> HIDE DEF last, T
  <1>8. IsText(Up(last)) /\ Len(Up(last)) = last /\ last \in Nat /\ last <= Len(text)
        /\ \A m \in 1..last : Up(last)[m] = text[m]
    BY <1>1, <1>2, <1>7
  <1>9. PICK p \in 0..last :
            p + Len(word) <= last /\ \A m \in 1..Len(word) : word[m] = Up(last)[p + m]
    <2> DEFINE part == Up(last)
    <2>1. IsText(part) /\ Has(part, word)
      BY <1>7, <1>8
    <2>2. \E p \in 0..Len(part) :
              p + Len(word) <= Len(part) /\ \A m \in 1..Len(word) : word[m] = part[p + m]
      <3> HIDE DEF part
      <3> QED
        BY <2>1, PlaceOfPart
    <2>3. Len(part) = last
      BY <1>8
    <2> HIDE DEF Up
    <2> QED
      BY <2>2, <2>3
  <1>10. \A m \in 1..Len(word) : word[m] = text[p + m]
    <2>1. \A m \in 1..Len(word) : p + m \in 1..last
      BY <1>1, <1>8, <1>9
    <2> HIDE DEF Up
    <2> QED
      BY <1>8, <1>9, <2>1
  <1>11. p + Len(word) = last
    <2>1. SUFFICES ASSUME p + Len(word) < last PROVE FALSE
      BY <1>1, <1>8, <1>9
    <2> DEFINE b == last - 1
    <2>2. b \in 0..Len(text) /\ b \in 0..last-1 /\ p + Len(word) <= b /\ p \in Nat
      BY <1>1, <1>8, <1>9, <2>1
    <2>3. IsText(Up(b)) /\ Len(Up(b)) = b /\ \A m \in 1..b : Up(b)[m] = text[m]
      BY <1>2, <2>2
    <2> HIDE DEF Up, b
    <2>4. \A m \in 1..Len(word) : word[m] = Up(b)[p + m]
      <3>1. \A m \in 1..Len(word) : p + m \in 1..b
        BY <1>1, <2>2
      <3> QED
        BY <1>10, <2>3, <3>1
    <2>5. Has(Up(b), word)
      <3>1. Len(Up(b)) \in Nat /\ p + Len(word) <= Len(Up(b))
        BY <1>1, <2>2, <2>3
      <3>2. IsText(Up(b)) /\ IsText(word) /\ p \in Nat
        BY <1>1, <2>2, <2>3
      <3> QED
        BY <2>4, <3>1, <3>2, PartOf
    <2> QED
      BY <1>7, <2>2, <2>5
  <1>12. IndexFirstSubSeq(word, text) = last - (Len(word) - 1)
    BY DEF IndexFirstSubSeq, last
  <1>13. IndexFirstSubSeq(word, text) = p + 1
    BY <1>1, <1>9, <1>11, <1>12
  <1>14. \A m \in 1..Len(word) : p + 1 - 1 + m = p + m
    BY <1>1, <1>9
  <1> QED
    BY <1>1, <1>8, <1>9, <1>10, <1>11, <1>13, <1>14

\* The part of a line that is parsed.
Parsed(line) == SubSeq(line, 1, IF Len(line) < MaxParse THEN Len(line) ELSE MaxParse)

LEMMA ParsedFacts ==
  ASSUME NEW line, IsText(line)
  PROVE  /\ IsText(Parsed(line)) /\ Len(Parsed(line)) \in Nat
         /\ Len(Parsed(line)) = IF Len(line) < MaxParse THEN Len(line) ELSE MaxParse
         /\ \A i \in 1..Len(Parsed(line)) : Parsed(line)[i] = line[i]
  <1> DEFINE n == IF Len(line) < MaxParse THEN Len(line) ELSE MaxParse
  <1>1. n \in Nat /\ n <= Len(line) /\ 1 \in Nat
    BY TextFacts, DetectionAssumption DEF DetectionAssumption
  <1> HIDE DEF n
  <1>2. /\ IsText(SubSeq(line, 1, n)) /\ Len(SubSeq(line, 1, n)) = IF 1 <= n THEN n - 1 + 1 ELSE 0
        /\ \A i \in 1..n - 1 + 1 : SubSeq(line, 1, n)[i] = line[1 + i - 1]
    BY <1>1, PartFacts
  <1>3. Parsed(line) = SubSeq(line, 1, n)
    BY DEF Parsed, n
  <1>4. Len(Parsed(line)) = n
    BY <1>1, <1>2, <1>3
  <1>5. ASSUME NEW i \in 1..n PROVE Parsed(line)[i] = line[i]
    <2>1. i \in 1..n - 1 + 1 /\ 1 + i - 1 = i
      BY <1>1
    <2> QED
      BY <1>2, <1>3, <2>1
  <1> QED
    BY <1>1, <1>2, <1>3, <1>4, <1>5 DEF n

\* The cut is within the line, not larger than the context, and around the secret.
LEMMA ContentFacts ==
  ASSUME NEW line, IsText(line), NEW secret, IsText(secret), Len(secret) >= 1
  PROVE  /\ Len(GetLineContent(line, secret)) <= ContextLeft + Len(secret) + ContextRight
         /\ Has(Parsed(line), secret) => Has(GetLineContent(line, secret), secret)
  <1> DEFINE head == Parsed(line)
             Lower(from) == IF from < 1 THEN 1 ELSE from
             Upper(to) == IF to > Len(head) THEN Len(head) ELSE to
             at == IndexFirstSubSeq(secret, head)
             content == GetLineContent(line, secret)
  <1>1. /\ IsText(head) /\ Len(head) \in Nat /\ Len(secret) \in Nat
        /\ ContextLeft \in Nat /\ ContextRight \in Nat
    BY ParsedFacts, TextFacts, DetectionAssumption DEF DetectionAssumption
  <1>2. content = IF ~Has(head, secret)
                  THEN SubSeq(head, Lower(1), Upper(ContextLeft + ContextRight))
                  ELSE SubSeq(head, Lower(at - ContextLeft), Upper(at + Len(secret) - 1 + ContextRight))
    BY DEF GetLineContent, Parsed
  <1> HIDE DEF head, content, at
  <1>3. ASSUME NEW from \in Int, NEW to \in Nat
        PROVE  LET part == SubSeq(head, Lower(from), Upper(to))
               IN  /\ IsText(part)
                   /\ Len(part) = IF Lower(from) <= Upper(to) THEN Upper(to) - Lower(from) + 1 ELSE 0
                   /\ \A i \in 1..Upper(to) - Lower(from) + 1 : part[i] = head[Lower(from) + i - 1]
    <2>1. /\ Lower(from) \in Nat /\ Lower(from) >= 1
          /\ Upper(to) \in Nat /\ Upper(to) <= Len(head)
      BY <1>1
    <2> HIDE DEF Lower, Upper
    <2> QED
      BY <1>1, <2>1, PartFacts
  <1>4. CASE ~Has(head, secret)
    <2>1. content = SubSeq(head, Lower(1), Upper(ContextLeft + ContextRight))
      BY <1>2, <1>4
    <2>2. 1 \in Int /\ ContextLeft + ContextRight \in Nat
      BY <1>1
    <2>3. Len(content) = IF Lower(1) <= Upper(ContextLeft + ContextRight)
                         THEN Upper(ContextLeft + ContextRight) - Lower(1) + 1 ELSE 0
      <3> HIDE DEF Lower, Upper
      <3> QED
        BY <1>3, <2>1, <2>2
    <2>4. Len(content) <= ContextLeft + Len(secret) + ContextRight
      BY <1>1, <2>3
    <2> QED
      BY <1>4, <2>4 DEF head, content
  <1>5. CASE Has(head, secret)
    <2>1. /\ at \in Nat /\ at >= 1 /\ at + Len(secret) - 1 <= Len(head)
          /\ \A i \in 1..Len(secret) : secret[i] = head[at - 1 + i]
      BY <1>1, <1>5, FirstPlace DEF at
    <2> DEFINE from == at - ContextLeft
               to == at + Len(secret) - 1 + ContextRight
    <2>2. from \in Int /\ to \in Nat
      BY <1>1, <2>1
    <2>3. content = SubSeq(head, Lower(from), Upper(to))
      BY <1>2, <1>5
    <2>4. /\ IsText(content)
          /\ Len(content) = IF Lower(from) <= Upper(to) THEN Upper(to) - Lower(from) + 1 ELSE 0
          /\ \A i \in 1..Upper(to) - Lower(from) + 1 : content[i] = head[Lower(from) + i - 1]
      <3> HIDE DEF Lower, Upper, from, to
      <3> QED
        BY <1>3, <2>2, <2>3
    <2>5. /\ Lower(from) \in Nat /\ Lower(from) >= 1 /\ Lower(from) <= at /\ Lower(from) >= at - ContextLeft
          /\ Upper(to) \in Nat /\ Upper(to) >= at + Len(secret) - 1
          /\ Upper(to) <= at + Len(secret) - 1 + ContextRight
      BY <1>1, <2>1
    <2> HIDE DEF Lower, Upper, from, to
    <2>6. Len(content) = Upper(to) - Lower(from) + 1
      BY <1>1, <2>1, <2>4, <2>5
    <2>7. Len(content) <= ContextLeft + Len(secret) + ContextRight
      BY <1>1, <2>1, <2>5, <2>6
    <2> DEFINE p == at - Lower(from)
    <2>8. p \in Nat /\ p + Len(secret) <= Len(content)
      BY <1>1, <2>1, <2>5, <2>6
    <2>9. ASSUME NEW i \in 1..Len(secret) PROVE secret[i] = content[p + i]
      <3>1. /\ Lower(from) \in Nat /\ Upper(to) \in Nat /\ at \in Nat /\ i \in Nat /\ i >= 1
            /\ i <= Len(secret) /\ Len(secret) \in Nat /\ Upper(to) >= at + Len(secret) - 1
            /\ Lower(from) <= at
        BY <1>1, <2>1, <2>5
      <3>2. p + i \in 1..Upper(to) - Lower(from) + 1
        BY <3>1
      <3>3. Lower(from) + (p + i) - 1 = at - 1 + i
        BY <3>1
      <3>4. content[p + i] = head[Lower(from) + (p + i) - 1]
        <4> HIDE DEF p
        <4> QED
          BY <2>4, <3>2
      <3> QED
        BY <2>1, <3>4, <3>3
    <2>10. Has(content, secret)
      <3> HIDE DEF p
      <3> QED
        BY <2>4, <2>8, <2>9, PartOf
    <2> QED
      BY <2>7, <2>10 DEF content
  <1> QED
    BY <1>4, <1>5

\* Where the match of a finding lies, behind the newlines its word begins with.
LEMMA MatchPlace ==
  ASSUME fragment \in [raw : Texts, path : Paths], NEW r, IsRule(r),
         NEW k \in Matches(fragment.raw, r.word), ~Blank(Finding(r, k).secret)
  PROVE  LET raw == fragment.raw
             f == Finding(r, k)
         IN  /\ IsText(f.match) /\ f.end = f.start + Len(f.match) /\ Has(f.match, f.secret)
             /\ IsText(f.secret) /\ Len(f.secret) >= 1
             /\ \E a \in Nat : /\ a >= 1 /\ k + a - 1 + Len(f.match) - 1 <= Len(raw)
                               /\ raw[k + a - 1 + Len(f.match) - 1] # "n" /\ raw[k + a - 1] # "n"
                               /\ \A i \in k..k + a - 2 : raw[i] = "n"
                               /\ \A i \in 1..Len(f.match) : f.match[i] = raw[k + a - 2 + i]
  <1> DEFINE raw == fragment.raw
             word == r.word
             f == Finding(r, k)
             match == Trim(word)
  <1>1. IsText(raw) /\ Len(raw) \in Nat /\ IsText(word) /\ Len(word) \in Nat
    BY TextFacts, DetectionAssumption DEF DetectionAssumption, IsRule
  <1>2. /\ f.start = k - 1 /\ f.end = k - 1 + Len(match) /\ f.match = match
        /\ f.secret = IF match = word THEN SubSeq(match, r.prefix + 1, Len(match)) ELSE match
    BY DEF Finding
  <1>3. /\ k \in 1..Len(raw) /\ k + Len(word) - 1 <= Len(raw)
        /\ \A i \in 1..Len(word) : raw[k + i - 1] = word[i]
    BY <1>1, MatchFacts
  <1>4. IsText(f.secret) /\ Len(f.secret) >= 1
    <2>1. IsText(f.secret) /\ Len(f.secret) \in Nat
      BY SecretFacts
    <2>2. \E i \in DOMAIN f.secret : f.secret[i] \notin {"n", "r"}
      BY DEF Blank
    <2>3. DOMAIN f.secret = 1..Len(f.secret)
      BY <2>1, TextFacts
    <2> HIDE DEF f
    <2> QED
      BY <2>1, <2>2, <2>3
  <1>5. match # <<>>
    <2>1. SUFFICES ASSUME match = <<>> PROVE FALSE
      OBVIOUS
    <2>3. SubSeq(<<>>, r.prefix + 1, Len(<<>>)) = <<>>
      BY SubSeqEmpty DEF IsRule
    <2>4. f.secret = <<>>
      <3> HIDE DEF match, f
      <3> QED
        BY <1>2, <2>1, <2>3
    <2>5. Len(<<>>) = 0
      OBVIOUS
    <2> HIDE DEF f
    <2> QED
      BY <1>4, <2>4, <2>5
  <1>6. PICK a, b \in 1..Len(word) : TrimmedTo(word, a, b)
    <2> HIDE DEF word
    <2> QED
      BY <1>1, <1>5, TrimFacts
  <1>7. /\ a <= b /\ word[a] # "n" /\ word[b] # "n"
        /\ \A i \in 1..Len(word) : i < a => word[i] = "n"
        /\ match = SubSeq(word, a, b) /\ Len(match) = b - a + 1
        /\ \A i \in 1..b - a + 1 : match[i] = word[a + i - 1]
    BY <1>6 DEF TrimmedTo
  <1>8. a \in Nat /\ b \in Nat /\ a >= 1 /\ b <= Len(word) /\ k \in Nat /\ k >= 1
    BY <1>1, <1>3
  <1>9. IsText(match)
    <2> HIDE DEF word
    <2> QED
      BY <1>1, <1>7, <1>8, PartFacts
  <1> HIDE DEF match, raw, word, f
  <1>10. Has(match, f.secret)
    <2>1. Len(match) \in Nat /\ Len(match) >= 1
      BY <1>7, <1>8
    <2>2. CASE f.secret = match
      <3>1. \A i \in 1..Len(match) : match[i] = match[0 + i]
        BY <2>1
      <3>2. 0 \in Nat /\ 0 + Len(match) <= Len(match)
        BY <2>1
      <3> QED
        BY <1>9, <2>2, <3>1, <3>2, PartOf
    <2>3. CASE f.secret = SubSeq(match, r.prefix + 1, Len(match))
      <3>1. r.prefix \in Nat
        BY DEF IsRule
      <3>2. Len(f.secret) = IF r.prefix + 1 <= Len(match) THEN Len(match) - (r.prefix + 1) + 1 ELSE 0
        BY <1>9, <2>1, <2>3, <3>1, PartFacts
      <3>3. r.prefix \in 0..Len(match) /\ Len(match) \in 0..Len(match)
        BY <1>4, <2>1, <2>3, <3>1, <3>2
      <3>4. ASSUME NEW i \in 0..Len(match), NEW j \in 0..Len(match)
            PROVE  Has(match, SubSeq(match, i + 1, j))
        BY DEF Has, SubSeqs
      <3>5. Has(match, SubSeq(match, r.prefix + 1, Len(match)))
        BY <3>3, <3>4
      <3> QED
        BY <2>3, <3>5
    <2> QED
      BY <1>2, <2>2, <2>3
  <1>11. /\ k + a - 1 + Len(match) - 1 <= Len(raw) /\ raw[k + a - 1 + Len(match) - 1] # "n"
         /\ raw[k + a - 1] # "n"
    <2>1. k + a - 1 + Len(match) - 1 = k + b - 1
      BY <1>7, <1>8
    <2>2. raw[k + b - 1] = word[b] /\ raw[k + a - 1] = word[a]
      BY <1>3
    <2>3. k + b - 1 <= Len(raw)
      BY <1>1, <1>3, <1>8
    <2> QED
      BY <1>7, <2>1, <2>2, <2>3
  <1>12. ASSUME NEW i \in k..k + a - 2 PROVE raw[i] = "n"
    <2>1. (i - k + 1) \in 1..Len(word) /\ i - k + 1 < a /\ k + (i - k + 1) - 1 = i
      BY <1>1, <1>7, <1>8
    <2> QED
      BY <1>3, <1>7, <2>1
  <1>13. ASSUME NEW i \in 1..Len(match) PROVE match[i] = raw[k + a - 2 + i]
    <2>1. i \in 1..b - a + 1 /\ a + i - 1 \in 1..Len(word) /\ k + (a + i - 1) - 1 = k + a - 2 + i
      BY <1>1, <1>7, <1>8
    <2>2. raw[k + (a + i - 1) - 1] = word[a + i - 1]
      BY <1>3, <2>1
    <2> QED
      BY <1>7, <2>1, <2>2
  <1> QED
    BY <1>2, <1>4, <1>8, <1>9, <1>10, <1>11, <1>12, <1>13 DEF f, raw

\* Where what is matched lies on the finding's line: at most one newline comes before
\* it, and of that newline and of the line's own one the place makes up for both.
LEMMA PlaceOnLine ==
  ASSUME NEW raw, IsText(raw), NEW k \in Nat, NEW m \in Nat, NEW P \in Nat, NEW e \in Nat,
         NEW a \in Nat, NEW shift \in Nat, NEW size \in Nat, Len(raw) \in Nat,
         k >= 1, m >= 1, a >= 1, P <= k - 1, k + m - 2 < e, e <= Len(raw),
         e # k - 1 + m \/ raw[k + m] = "n" \/ k - 1 + m = Len(raw),
         k + a - 1 + m - 1 <= Len(raw), raw[k + a - 1 + m - 1] # "n", raw[k + a - 1] # "n",
         \A j \in k..k + a - 2 : raw[j] = "n",
         shift = 0 \/ shift = 1, shift = 1 => raw[P + 1] = "n",
         k < Len(raw) => ~(raw[k] = "n" /\ raw[k + 1] = "n"),
         k - P - shift + m - (IF raw[k] = "n" THEN 0 ELSE 1) <= size
  PROVE  /\ k + a - 2 - P - shift \in Nat
         /\ k + a - 2 + m <= e
         /\ k + a - 2 - P - shift + m <= size
  <1>1. (a = 1 /\ raw[k] # "n") \/ (a = 2 /\ raw[k] = "n")
    <2>1. CASE a = 1
      <3>1. k + a - 1 = k
        BY <2>1
      <3> QED
        BY <2>1, <3>1
    <2>2. CASE a = 2
      <3>1. k \in k..k + a - 2
        BY <2>2
      <3> QED
        BY <2>2, <3>1
    <2>3. CASE a >= 3
      <3>1. k \in k..k + a - 2 /\ k + 1 \in k..k + a - 2 /\ k < Len(raw)
        BY <2>3
      <3> QED
        BY <3>1
    <2> QED
      BY <2>1, <2>2, <2>3
  <1>2. CASE a = 1 /\ raw[k] # "n"
    <2>1. P = k - 1 => P + 1 = k
      OBVIOUS
    <2>2. P = k - 1 => shift = 0
      BY <1>2, <2>1
    <2>3. k - P - shift + m - 1 <= size
      BY <1>2
    <2> QED
      BY <1>2, <2>2, <2>3
  <1>3. CASE a = 2 /\ raw[k] = "n"
    <2>1. k + a - 1 + m - 1 = k + m
      BY <1>3
    <2>2. k + m <= Len(raw) /\ raw[k + m] # "n"
      BY <2>1
    <2>3. e # k - 1 + m
      BY <2>2
    <2>4. k - P - shift + m - 0 <= size
      BY <1>3
    <2> QED
      BY <1>3, <2>3, <2>4
  <1> QED
    BY <1>1, <1>2, <1>3

LEMMA WithoutText ==
  ASSUME NEW text, IsText(text), NEW c
  PROVE  LET kept == {i \in DOMAIN text : text[i] # c}
             rest == Without(text, c)
         IN  /\ kept \subseteq 1..Len(text) /\ IsFiniteSet(kept) /\ Cardinality(kept) \in Nat
             /\ IsText(rest) /\ Len(rest) = Cardinality(kept)
  <1> DEFINE kept == {i \in DOMAIN text : text[i] # c}
             Nth(k) == CHOOSE i \in kept : Cardinality({m \in kept : m <= i}) = k
             n == Cardinality(kept)
             rest == Without(text, c)
  <1>1. kept \subseteq 1..Len(text) /\ IsFiniteSet(kept) /\ n \in Nat
    <2>1. kept \in SUBSET (1..Len(text)) /\ 1 \in Int /\ Len(text) \in Int
      BY TextFacts
    <2>2. IsFiniteSet(1..Len(text))
      BY <2>1, FS_Interval
    <2> HIDE DEF kept
    <2>3. IsFiniteSet(kept)
      BY <2>1, <2>2, FS_Subset
    <2> QED
      BY <2>1, <2>3, FS_CardinalityType
  <1>2. rest = [k \in 1..n |-> text[Nth(k)]]
    BY DEF Without
  <1>3. IsText(rest) /\ Len(rest) = n
    <2> DEFINE at(k) == text[Nth(k)]
    <2> HIDE DEF n, Nth, rest, at
    <2>1. rest = [k \in 1..n |-> at(k)]
      BY <1>2 DEF at
    <2>2. DOMAIN rest = 1..n /\ \A k \in 1..n : rest[k] \in Range(rest)
      BY <2>1 DEF Range
    <2> QED
      BY <1>1, <2>1, <2>2 DEF IsText
  <1> HIDE DEF kept, rest
  <1> QED
    BY <1>1, <1>3 DEF kept, rest

\* A part of a text stands behind its first p characters.
PartAt(text, word, p) ==
    p + Len(word) <= Len(text) /\ \A i \in 1..Len(word) : word[i] = text[p + i]

\* What is left of a text without a character has every part of it that has not that
\* character, not behind where it was.
LEMMA WithoutFacts ==
  ASSUME NEW text, IsText(text), NEW c, NEW word, IsText(word), Len(word) >= 1, NEW p \in Nat,
         PartAt(text, word, p), c \notin Range(word)
  PROVE  \E q \in Nat : q <= p /\ PartAt(Without(text, c), word, q)
  <1> DEFINE kept == {i \in DOMAIN text : text[i] # c}
             Upto(i) == {m \in kept : m <= i}
             rank(i) == Cardinality(Upto(i))
             Nth(k) == CHOOSE i \in kept : Cardinality({m \in kept : m <= i}) = k
             n == Cardinality(kept)
             rest == Without(text, c)
  <1>1. Len(text) \in Nat /\ DOMAIN text = 1..Len(text) /\ Len(word) \in Nat
        /\ DOMAIN word = 1..Len(word) /\ p + Len(word) <= Len(text)
        /\ \A i \in 1..Len(word) : word[i] = text[p + i]
    BY TextFacts DEF PartAt
  <1>2. kept \subseteq 1..Len(text) /\ IsFiniteSet(kept) /\ n \in Nat
    BY WithoutText
  <1>3. rest = [k \in 1..n |-> text[Nth(k)]]
    BY DEF Without
  <1>4. IsText(rest) /\ Len(rest) = n
    BY WithoutText
  <1> HIDE DEF rest
  <1>5. ASSUME NEW i \in Int
        PROVE  Upto(i) \in SUBSET kept /\ IsFiniteSet(Upto(i)) /\ rank(i) \in Nat /\ rank(i) <= n
    <2>1. Upto(i) \in SUBSET kept
      OBVIOUS
    <2> DEFINE U == Upto(i)
    <2> HIDE DEF kept, Upto, U
    <2>2. U \in SUBSET kept
      BY <2>1 DEF U
    <2>3. IsFiniteSet(U) /\ Cardinality(U) <= Cardinality(kept) /\ Cardinality(U) \in Nat
      BY <1>2, <2>2, FS_Subset, FS_CardinalityType
    <2> QED
      BY <2>1, <2>3 DEF U
  <1>6. ASSUME NEW i \in kept, NEW j \in kept, i < j PROVE rank(i) # rank(j)
    <2>1. i \in Int /\ j \in Int
      BY <1>2, <1>1
    <2>2. Upto(i) \in SUBSET Upto(j) /\ j \in Upto(j) /\ j \notin Upto(i)
      BY <1>6, <1>2, <1>1
    <2>3. IsFiniteSet(Upto(j))
      BY <1>5, <2>1
    <2> HIDE DEF Upto, kept
    <2>4. Cardinality(Upto(j)) = Cardinality(Upto(i)) => Upto(j) = Upto(i)
      BY <2>2, <2>3, FS_Subset
    <2> QED
      BY <2>2, <2>4
  <1>7. ASSUME NEW i \in kept PROVE rank(i) \in 1..n /\ rest[rank(i)] = text[i]
    <2>1. i \in Int /\ i \in Upto(i)
      BY <1>1, <1>2
    <2>2. rank(i) # 0
      <3> DEFINE U == Upto(i)
      <3>1. IsFiniteSet(U) /\ U # {}
        BY <1>5, <2>1
      <3> HIDE DEF U
      <3>2. Cardinality(U) # 0
        BY <3>1, FS_EmptySet
      <3> QED
        BY <3>2 DEF U
    <2>3. rank(i) \in 1..n
      <3>1. rank(i) \in Nat /\ rank(i) <= n
        BY <1>5, <2>1
      <3> HIDE DEF rank, n
      <3> QED
        BY <1>2, <3>1, <2>2
    <2>4. Nth(rank(i)) = i
      <3>1. \A j \in kept : rank(j) = rank(i) => j = i
        <4>1. SUFFICES ASSUME NEW j \in kept, rank(j) = rank(i) PROVE j = i
          OBVIOUS
        <4>2. ~(i < j) /\ ~(j < i)
          BY <1>6, <4>1
        <4>3. i \in Int /\ j \in Int
          BY <1>1, <1>2
        <4> HIDE DEF rank, kept
        <4> QED
          BY <4>2, <4>3
      <3> DEFINE x == rank(i)
      <3>2. x = rank(i)
        OBVIOUS
      <3> HIDE DEF x
      <3>3. Nth(x) = CHOOSE j \in kept : rank(j) = x
        OBVIOUS
      <3> HIDE DEF Nth, rank, kept
      <3>4. (CHOOSE j \in kept : rank(j) = x) = i
        BY <3>1, <3>2
      <3> QED
        BY <3>2, <3>3, <3>4
    <2>5. rest[rank(i)] = text[Nth(rank(i))]
      <3> HIDE DEF rank, n, Nth
      <3> QED
        BY <1>3, <2>3
    <2> QED
      BY <2>3, <2>4, <2>5
  <1>8. rank(p) <= p
    <2> DEFINE U == Upto(p)
    <2>1. U \in SUBSET (1..p) /\ p \in Int /\ 1 \in Int
      BY <1>1, <1>2
    <2> HIDE DEF U
    <2>2. IsFiniteSet(1..p) /\ Cardinality(1..p) = p
      BY <2>1, FS_Interval
    <2>3. Cardinality(U) <= Cardinality(1..p)
      BY <2>1, <2>2, FS_Subset
    <2> QED
      BY <2>2, <2>3 DEF U
  <1>9. ASSUME NEW i \in 1..Len(word)
        PROVE  p + i \in kept /\ rank(p + i) = rank(p) + i
    <2>1. \A j \in 1..i : p + j \in 1..Len(text) /\ text[p + j] # c
      <3>1. ASSUME NEW j \in 1..i PROVE p + j \in 1..Len(text) /\ j \in 1..Len(word)
        BY <1>1
      <3>2. \A j \in 1..Len(word) : word[j] # c
        BY <1>1 DEF Range
      <3> QED
        BY <1>1, <3>1, <3>2
    <2>2. p + i \in kept
      <3>1. i \in 1..i
        BY <1>1
      <3> QED
        BY <1>1, <2>1, <3>1
    <2> DEFINE A == Upto(p)
               B == (p + 1)..(p + i)
    <2>3. B \subseteq kept
      <3>1. ASSUME NEW x \in B PROVE x \in kept
        <4>1. x - p \in 1..i /\ p + (x - p) = x
          BY <1>1
        <4>2. x \in 1..Len(text) /\ text[x] # c
          BY <2>1, <4>1
        <4> QED
          BY <1>1, <4>2
      <3> QED
        BY <3>1
    <2>4. Upto(p + i) = A \cup B
      <3>1. ASSUME NEW x \in kept PROVE x <= p + i <=> x <= p \/ x \in B
        BY <1>1, <1>2
      <3>2. \A x : x \in Upto(p + i) <=> x \in A \/ x \in B
        <4>1. \A x \in B : x <= p + i
          BY <1>1
        <4> HIDE DEF B, kept
        <4> QED
          BY <2>3, <3>1, <4>1
      <3> HIDE DEF A, B, Upto
      <3> QED
        BY <3>2
    <2>5. A \cap B = {}
      BY <1>1, <1>2
    <2>6. IsFiniteSet(A) /\ Cardinality(A) \in Nat
      <3>1. p \in Int
        OBVIOUS
      <3> QED
        BY <1>5, <3>1
    <2>7. IsFiniteSet(B) /\ Cardinality(B) = i
      <3>1. p + 1 \in Int /\ p + i \in Int /\ ~(p + 1 > p + i) /\ p + i - (p + 1) + 1 = i
        BY <1>1
      <3> QED
        BY <3>1, FS_Interval
    <2>8. Cardinality(A \cup B) = Cardinality(A) + i
      <3> HIDE DEF A, B
      <3>1. Cardinality(A \cup B) = Cardinality(A) + Cardinality(B) - Cardinality(A \cap B)
        BY <2>6, <2>7, FS_Union
      <3>2. Cardinality(A \cap B) = 0
        BY <2>5, FS_EmptySet
      <3> QED
        BY <1>1, <2>6, <2>7, <3>1, <3>2
    <2> HIDE DEF B, kept, Upto
    <2> QED
      BY <2>2, <2>4, <2>8
  <1> DEFINE q == rank(p)
  <1>10. q \in Nat /\ q <= p
    <2>1. p \in Int
      OBVIOUS
    <2> QED
      BY <1>5, <1>8, <2>1
  <1>11. ASSUME NEW i \in 1..Len(word) PROVE q + i \in 1..n /\ word[i] = rest[q + i]
    <2>1. p + i \in kept /\ rank(p + i) = q + i
      BY <1>9
    <2>2. rank(p + i) \in 1..n /\ rest[rank(p + i)] = text[p + i]
      BY <1>7, <2>1
    <2> HIDE DEF rank, n, kept, q
    <2> QED
      BY <1>1, <2>1, <2>2
  <1> HIDE DEF q, n
  <1>12. q + Len(word) <= n
    <2>1. Len(word) \in 1..Len(word)
      BY <1>1
    <2>2. q + Len(word) \in 1..n
      BY <1>11, <2>1
    <2> QED
      BY <1>2, <2>2
  <1> QED
    BY <1>4, <1>10, <1>11, <1>12 DEF rest, PartAt

\* The line of a finding has the whole match, and is not blank, unless the match begins
\* with two newlines.
LEMMA LineIsNotBlank ==
  ASSUME DetectTypes, NEW r, IsRule(r), NEW k \in Matches(fragment.raw, r.word),
         ~Blank(Finding(r, k).secret), ~BeginsWithTwoNewlines(Finding(r, k))
  PROVE  ~Blank(Finding(r, k).line)
  <1> DEFINE raw == fragment.raw
             f == Finding(r, k)
             m == Len(f.match)
  <1>1. fragment \in [raw : Texts, path : Paths]
    BY DEF DetectTypes
  <1>2. /\ IsText(raw) /\ Len(raw) \in Nat /\ f.start = k - 1
        /\ f.start \in Nat /\ f.end \in Nat /\ f.start < f.end /\ f.end <= Len(raw)
    BY <1>1, FindingFacts
  <1>3. PICK s, e \in newlineIndices(raw) :
            /\ OnLine(raw, s, f.start) /\ OnLine(raw, e, f.end - 1)
            /\ f.line = SubSeq(raw, LineStart(raw, s) + 1, e)
    BY <1>1, FindingFacts
  <1>4. /\ IsText(f.match) /\ f.end = f.start + m /\ Has(f.match, f.secret)
        /\ IsText(f.secret) /\ ~Blank(f.secret)
        /\ \E a \in Nat : /\ a >= 1 /\ k + a - 1 + m - 1 <= Len(raw)
                          /\ raw[k + a - 1 + m - 1] # "n" /\ raw[k + a - 1] # "n"
                          /\ \A i \in k..k + a - 2 : raw[i] = "n"
                          /\ \A i \in 1..m : f.match[i] = raw[k + a - 2 + i]
    <2>1. ~Blank(f.secret)
      OBVIOUS
    <2> HIDE DEF f
    <2> QED
      BY <1>1, <2>1, MatchPlace DEF f
  <1>5. PICK a \in Nat :
            /\ a >= 1 /\ k + a - 1 + m - 1 <= Len(raw)
            /\ raw[k + a - 1 + m - 1] # "n" /\ raw[k + a - 1] # "n"
            /\ \A i \in k..k + a - 2 : raw[i] = "n"
            /\ \A i \in 1..m : f.match[i] = raw[k + a - 2 + i]
    BY <1>4
  <1>6. k \in Nat /\ k >= 1
    BY <1>2, TextFacts DEF Matches
  <1>7. ~(f.start + 2 <= Len(raw) /\ raw[f.start + 1] = "n" /\ raw[f.start + 2] = "n")
    BY DEF BeginsWithTwoNewlines
  <1> DEFINE match == f.match
             secret == f.secret
             line == f.line
             start == f.start
             end == f.end
             P == LineStart(raw, s)
             p == k + a - 2 - P - 0
  <1> HIDE DEF f, raw, m, match, secret, line, start, end, P
  <1>8. /\ P \in Nat /\ s \in Nat /\ e \in Nat /\ e <= Len(raw) /\ P <= start /\ start < s
        /\ end - 1 < e /\ m \in Nat
    <2>1. s \in Nat /\ e \in Nat /\ P \in Nat /\ e <= Len(raw)
      BY <1>2, StartFacts, TextFacts DEF P
    <2>2. m \in Nat
      BY <1>4, TextFacts DEF m
    <2> QED
      BY <1>3, <2>1, <2>2 DEF OnLine, P, start, end
  <1>9. /\ start = k - 1 /\ end = k - 1 + m /\ m >= 1 /\ end <= Len(raw) /\ Len(raw) \in Nat
        /\ end \in Nat
    <2>1. /\ start = k - 1 /\ start < end /\ end = start + m /\ end <= Len(raw)
          /\ Len(raw) \in Nat /\ end \in Nat
      BY <1>2, <1>4 DEF start, end
    <2> QED
      BY <1>6, <1>8, <2>1
  <1>10. e # end \/ raw[end + 1] = "n" \/ end = Len(raw)
    BY <1>2, <1>9, TextFacts
  <1>11. p \in Nat /\ k + a - 2 + m <= e
    <2>1. k < Len(raw) => ~(raw[k] = "n" /\ raw[k + 1] = "n")
      <3>1. start + 1 = k /\ start + 2 = k + 1 /\ (k < Len(raw) => k + 1 <= Len(raw))
        BY <1>6, <1>9
      <3> QED
        BY <1>7, <3>1 DEF start
    <2>2. /\ P <= k - 1 /\ k + m - 2 < e /\ end + 1 = k + m /\ 0 \in Nat
          /\ k - P - 0 + m \in Nat
          /\ k - P - 0 + m - (IF raw[k] = "n" THEN 0 ELSE 1) <= k - P - 0 + m
      BY <1>6, <1>8, <1>9
    <2>3. e # k - 1 + m \/ raw[k + m] = "n" \/ k - 1 + m = Len(raw)
      BY <1>9, <1>10, <2>2
    <2> QED
      BY SMTT(30), <1>2, <1>5, <1>6, <1>8, <1>9, <2>1, <2>2, <2>3, PlaceOnLine
  <1>12. /\ IsText(line) /\ Len(line) = IF P + 1 <= e THEN e - (P + 1) + 1 ELSE 0
         /\ \A i \in 1..e - (P + 1) + 1 : line[i] = raw[P + 1 + i - 1]
    <2>1. P + 1 \in Nat /\ P + 1 >= 1
      BY <1>8
    <2>2. line = SubSeq(raw, P + 1, e)
      BY <1>3 DEF line, P
    <2> QED
      BY <1>2, <1>8, <2>1, <2>2, PartFacts
  <1>13. p + m <= Len(line)
    <2>1. P + 1 <= e
      BY <1>6, <1>8, <1>9
    <2>2. Len(line) = e - P
      BY <1>8, <1>12, <2>1
    <2> QED
      BY <1>6, <1>8, <1>11, <2>2
  <1>14. ASSUME NEW i \in 1..m PROVE match[i] = line[p + i]
    <2>1. p + i \in 1..e - (P + 1) + 1 /\ P + 1 + (p + i) - 1 = k + a - 2 + i
      BY <1>6, <1>8, <1>9, <1>11
    <2>2. line[p + i] = raw[P + 1 + (p + i) - 1]
      <3> HIDE DEF p
      <3> QED
        BY <1>12, <2>1
    <2>3. match[i] = raw[k + a - 2 + i]
      BY <1>5 DEF match
    <2> QED
      BY <2>1, <2>2, <2>3
  <1>15. IsText(match) /\ m = Len(match) /\ Has(match, secret) /\ ~Blank(secret)
    BY <1>4 DEF match, m, secret
  <1>16. Has(line, match)
    <2> HIDE DEF p
    <2> QED
      BY <1>11, <1>12, <1>13, <1>14, <1>15, PartOf
  <1>17. Has(line, secret)
    BY <1>12, <1>15, <1>16, PartOfPart
  <1>18. ~Blank(line)
    BY <1>12, <1>15, <1>17, PartOfBlank
  <1> QED
    BY <1>18 DEF line, f

LEMMA SecretsShown ==
  ASSUME DetectTypes, RulesInv, FoundInv
  PROVE  SecretIsShown
  <1> DEFINE raw == fragment.raw
  <1> SUFFICES ASSUME NEW t \in secrets
               PROVE  /\ Len(t.content) <= ContextLeft + Len(t.value) + ContextRight
                      /\ ~BeginsWithTwoNewlines(t) /\ "r" \notin Range(t.value)
                         /\ t.startColumn + (t.end - t.start) - (IF raw[t.start + 1] = "n" THEN 0 ELSE 1)
                              <= MaxParse
                         => Has(t.content, t.value)
    BY DEF SecretIsShown
  <1>1. step = "done" /\ secrets = {buildSecret(f) : f \in found}
    BY DEF FoundInv
  <1>2. PICK f \in found : t = buildSecret(f)
    BY <1>1
  <1>3. ~Blank(f.secret)
    BY <1>1 DEF FoundInv
  <1>4. PICK i \in DOMAIN rules :
            /\ IsRule(rules[i])
            /\ \E k \in Matches(raw, rules[i].word) : f = Finding(rules[i], k)
    BY FoundFacts
  <1>5. PICK k \in Matches(raw, rules[i].word) : f = Finding(rules[i], k)
    BY <1>4
  <1>6. fragment \in [raw : Texts, path : Paths]
    BY DEF DetectTypes
  <1>7. /\ IsText(raw) /\ Len(raw) \in Nat /\ f.start = k - 1
        /\ f.start \in Nat /\ f.end \in Nat /\ f.start < f.end /\ f.end <= Len(raw)
        /\ \E s, e \in newlineIndices(raw) :
              /\ OnLine(raw, s, f.start) /\ OnLine(raw, e, f.end - 1)
              /\ f.startColumn = f.start - LineStart(raw, s) + 1
              /\ f.line = SubSeq(raw, LineStart(raw, s) + 1, e)
    BY <1>6, <1>3, <1>4, <1>5, FindingFacts
  <1>8. PICK s, e \in newlineIndices(raw) :
            /\ OnLine(raw, s, f.start) /\ OnLine(raw, e, f.end - 1)
            /\ f.startColumn = f.start - LineStart(raw, s) + 1
            /\ f.line = SubSeq(raw, LineStart(raw, s) + 1, e)
    BY <1>7
  <1>9. /\ IsText(f.match) /\ f.end = f.start + Len(f.match) /\ Has(f.match, f.secret)
        /\ IsText(f.secret) /\ Len(f.secret) >= 1
        /\ \E a \in Nat : /\ a >= 1 /\ k + a - 1 + Len(f.match) - 1 <= Len(raw)
                          /\ raw[k + a - 1 + Len(f.match) - 1] # "n" /\ raw[k + a - 1] # "n"
                          /\ \A j \in k..k + a - 2 : raw[j] = "n"
                          /\ \A j \in 1..Len(f.match) : f.match[j] = raw[k + a - 2 + j]
    BY <1>6, <1>3, <1>4, <1>5, MatchPlace
  <1>10. PICK a \in Nat :
            /\ a >= 1 /\ k + a - 1 + Len(f.match) - 1 <= Len(raw)
            /\ raw[k + a - 1 + Len(f.match) - 1] # "n" /\ raw[k + a - 1] # "n"
            /\ \A j \in k..k + a - 2 : raw[j] = "n"
            /\ \A j \in 1..Len(f.match) : f.match[j] = raw[k + a - 2 + j]
    BY <1>9
  <1> DEFINE P == LineStart(raw, s)
             shift == IF Head(f.line) = "n" THEN 1 ELSE 0
             line == IF Head(f.line) = "n" THEN Tail(f.line) ELSE f.line
             clean == Without(line, "r")
             m == Len(f.match)
  <1>11. /\ t.start = f.start /\ t.end = f.end /\ t.value = f.secret
         /\ t.startColumn = f.startColumn - shift /\ t.content = GetLineContent(clean, f.secret)
    BY <1>2 DEF buildSecret
  <1>12. /\ P \in Nat /\ s \in Nat /\ e \in Nat /\ e <= Len(raw) /\ P <= f.start /\ f.start < s
         /\ f.end - 1 < e /\ m \in Nat
    <2>1. s \in Nat /\ e \in Nat /\ P \in Nat /\ e <= Len(raw)
      BY <1>7, StartFacts, TextFacts
    <2>2. m \in Nat
      BY <1>9, TextFacts
    <2> QED
      BY SMTT(30), <1>8, <2>1, <2>2 DEF OnLine
  <1>13. k \in Nat /\ k >= 1 /\ k = f.start + 1 /\ f.end = k - 1 + m /\ m >= 1
    <2>1. k \in 1..Len(raw)
      BY <1>7, TextFacts DEF Matches
    <2>2. f.start = k - 1 /\ f.start \in Nat /\ f.end \in Nat /\ f.start < f.end
      BY <1>7
    <2>3. f.end = f.start + m
      BY <1>9
    <2> HIDE DEF raw, m
    <2> QED
      BY <1>12, <2>1, <2>2, <2>3
  <1>14. /\ IsText(raw) /\ Len(raw) \in Nat /\ f.start \in Nat /\ f.end \in Nat
         /\ f.start < f.end /\ f.end <= Len(raw)
    BY <1>7
  <1>15. e # f.end \/ raw[f.end + 1] = "n" \/ f.end = Len(raw)
    BY <1>14, TextFacts
  <1> HIDE DEF raw, P, m
  <1>16. /\ Head(f.line) = raw[P + 1] /\ Tail(f.line) = SubSeq(raw, P + 2, e)
         /\ f.line = SubSeq(raw, P + 1, e)
    <2>1. P + 1 \in 1..Len(raw) /\ e \in (P + 1)..Len(raw) /\ P + 1 + 1 = P + 2
      <3> DEFINE fs == f.start
                 fe == f.end
      <3>1. /\ fs \in Nat /\ fe \in Nat /\ fs < fe /\ fe <= Len(raw) /\ P <= fs /\ fe - 1 < e
        BY <1>12, <1>14
      <3>2. P \in Nat /\ e \in Nat /\ e <= Len(raw) /\ Len(raw) \in Nat
        BY <1>12, <1>14
      <3> HIDE DEF fs, fe
      <3> QED
        BY <3>1, <3>2
    <2>2. raw \in Seq(Range(raw))
      BY <1>14 DEF IsText
    <2>3. f.line = SubSeq(raw, P + 1, e)
      BY <1>8 DEF P
    <2> DEFINE u == P + 1
    <2>4. u \in 1..Len(raw) /\ e \in u..Len(raw)
      BY <2>1
    <2> HIDE DEF u
    <2>5. Head(SubSeq(raw, u, e)) = raw[u] /\ Tail(SubSeq(raw, u, e)) = SubSeq(raw, u + 1, e)
      BY <2>2, <2>4, HeadTailOfSubSeq
    <2> QED
      BY <2>1, <2>3, <2>5 DEF u
  <1>17. line = SubSeq(raw, P + shift + 1, e) /\ shift \in {0, 1} /\ (shift = 1 <=> raw[P + 1] = "n")
    <2>1. CASE Head(f.line) = "n"
      <3>1. P + shift + 1 = P + 2 /\ shift = 1
        BY <1>12, <2>1
      <3>2. line = Tail(f.line)
        BY <2>1
      <3> HIDE DEF line, shift
      <3> QED
        BY <1>16, <2>1, <3>1, <3>2
    <2>2. CASE Head(f.line) # "n"
      <3>1. P + shift + 1 = P + 1 /\ shift = 0
        BY <1>12, <2>2
      <3>2. line = f.line
        BY <2>2
      <3>3. raw[P + 1] # "n" /\ f.line = SubSeq(raw, P + 1, e)
        BY <1>16, <2>2
      <3> HIDE DEF line, shift
      <3>4. line = SubSeq(raw, P + shift + 1, e)
        BY <3>1, <3>2, <3>3
      <3> QED
        BY <3>1, <3>3, <3>4
    <2> QED
      BY <2>1, <2>2
  <1> HIDE DEF line, shift, clean
  <1>18. /\ k \in Nat /\ m \in Nat /\ P \in Nat /\ e \in Nat /\ shift \in Nat /\ Len(raw) \in Nat
         /\ k >= 1 /\ m >= 1 /\ P <= k - 1 /\ k + m - 2 < e /\ e <= Len(raw)
         /\ shift = 0 \/ shift = 1
         /\ e # k - 1 + m \/ raw[k + m] = "n" \/ k - 1 + m = Len(raw)
    <2> DEFINE fs == f.start
               fe == f.end
    <2>1. /\ fs \in Nat /\ fe \in Nat /\ k = fs + 1 /\ fe = k - 1 + m /\ P <= fs /\ fe - 1 < e
          /\ e # fe \/ raw[fe + 1] = "n" \/ fe = Len(raw)
      BY <1>12, <1>13, <1>15, <1>14
    <2>2. k \in Nat /\ m \in Nat /\ k >= 1 /\ m >= 1 /\ P \in Nat /\ e \in Nat
      BY <1>12, <1>13
    <2> HIDE DEF fs, fe
    <2>3. P <= k - 1 /\ fe + 1 = k + m /\ k + m - 2 < e
      BY <2>1, <2>2
    <2> QED
      BY <1>12, <1>17, <1>14, <2>1, <2>2, <2>3
  <1>19. t.start = k - 1 /\ t.end - t.start = m /\ t.startColumn = k - P - shift
    <2> DEFINE fs == f.start
               fe == f.end
               fc == f.startColumn
    <2>1. fs \in Nat /\ fe \in Nat /\ k = fs + 1 /\ fe = k - 1 + m /\ fc = fs - P + 1
      BY <1>8, <1>13, <1>14 DEF P
    <2>2. t.start = fs /\ t.end = fe /\ t.startColumn = fc - shift
      BY <1>11
    <2> HIDE DEF fs, fe, fc
    <2> QED
      BY <1>18, <2>1, <2>2
  <1>20. /\ IsText(line) /\ Len(line) = IF P + shift + 1 <= e THEN e - (P + shift + 1) + 1 ELSE 0
         /\ \A j \in 1..e - (P + shift + 1) + 1 : line[j] = raw[P + shift + 1 + j - 1]
    <2>1. P + shift + 1 \in Nat /\ P + shift + 1 >= 1
      BY <1>12, <1>17
    <2> QED
      BY <1>12, <1>17, <1>14, <2>1, PartFacts
  <1>21. IsText(clean) /\ Len(t.content) <= ContextLeft + Len(t.value) + ContextRight
    <2>1. IsText(clean)
      BY <1>20, WithoutText DEF clean
    <2> QED
      BY <1>9, <1>11, <2>1, ContentFacts
  <1>22. ASSUME ~BeginsWithTwoNewlines(t), "r" \notin Range(t.value),
                t.startColumn + (t.end - t.start) - (IF raw[t.start + 1] = "n" THEN 0 ELSE 1) <= MaxParse
         PROVE  Has(t.content, t.value)
    <2> DEFINE p == k + a - 2 - P - shift
    <2>1. MaxParse \in Nat
      BY DetectionAssumption DEF DetectionAssumption
    <2>2. k < Len(raw) => ~(raw[k] = "n" /\ raw[k + 1] = "n")
      <3>1. t.start + 1 = k /\ t.start + 2 = k + 1 /\ (k < Len(raw) => k + 1 <= Len(raw))
        BY <1>18, <1>19
      <3> QED
        BY <1>22, <3>1 DEF BeginsWithTwoNewlines, raw
    <2>3. k - P - shift + m - (IF raw[k] = "n" THEN 0 ELSE 1) <= MaxParse
      <3>1. t.startColumn = k - P - shift /\ t.end - t.start = m /\ t.start + 1 = k
        BY <1>18, <1>19
      <3> QED
        BY <1>22, <3>1
    <2>4. p \in Nat /\ k + a - 2 + m <= e /\ p + m <= MaxParse
      <3>1. /\ k + a - 1 + m - 1 <= Len(raw) /\ raw[k + a - 1 + m - 1] # "n"
            /\ raw[k + a - 1] # "n" /\ a >= 1
            /\ \A j \in k..k + a - 2 : raw[j] = "n"
        BY <1>10 DEF m
      <3>2. shift = 1 => raw[P + 1] = "n"
        BY <1>17
      <3> QED
        BY <1>14, <1>18, <2>1, <2>2, <2>3, <3>1, <3>2, PlaceOnLine
    <2>5. p + m <= Len(line)
      <3>1. P + shift + 1 <= e /\ p + m <= e - (P + shift + 1) + 1
        BY <1>18, <2>4
      <3> QED
        BY <1>20, <3>1
    <2>6. ASSUME NEW j \in 1..m PROVE f.match[j] = line[p + j]
      <3>1. j \in Nat /\ j >= 1 /\ j <= m
        BY <1>12
      <3>2. p + j \in 1..e - (P + shift + 1) + 1 /\ P + shift + 1 + (p + j) - 1 = k + a - 2 + j
        BY <1>18, <2>4, <3>1
      <3>3. line[p + j] = raw[P + shift + 1 + (p + j) - 1]
        <4> HIDE DEF p
        <4> QED
          BY <1>20, <3>2
      <3>4. f.match[j] = raw[k + a - 2 + j]
        BY <1>10 DEF m
      <3> QED
        BY <3>2, <3>3, <3>4
    <2> HIDE DEF p
    <2> DEFINE word == f.secret
               match == f.match
    <2>7. /\ IsText(word) /\ Len(word) >= 1 /\ Len(word) \in Nat /\ "r" \notin Range(word)
          /\ t.value = word /\ IsText(match) /\ Len(match) = m /\ Has(match, word)
      BY <1>9, <1>11, <1>22, TextFacts DEF m
    <2>8. \A j \in 1..m : match[j] = line[p + j]
      BY <2>6
    <2> HIDE DEF word, match
    <2>9. PICK d \in 0..Len(match) :
              /\ d + Len(word) <= Len(match)
              /\ \A j \in 1..Len(word) : word[j] = match[d + j]
      BY <2>7, PlaceOfPart
    <2>10. p + d \in Nat /\ p + d + Len(word) <= Len(line) /\ p + d + Len(word) <= MaxParse
      <3>1. Len(line) \in Nat
        BY <1>20, TextFacts
      <3> QED
        BY <1>12, <2>1, <2>4, <2>5, <2>7, <2>9, <3>1
    <2>11. ASSUME NEW j \in 1..Len(word) PROVE word[j] = line[p + d + j]
      <3>1. d + j \in 1..m /\ p + (d + j) = p + d + j
        BY <1>12, <2>4, <2>7, <2>9
      <3> QED
        BY <2>9, <2>8, <3>1
    <2> DEFINE pd == p + d
    <2>12. /\ pd \in Nat /\ pd + Len(word) <= Len(line)
           /\ \A j \in 1..Len(word) : word[j] = line[pd + j]
      BY <2>10, <2>11
    <2> HIDE DEF pd
    <2>13. PICK q \in Nat : q <= pd /\ PartAt(clean, word, q)
      <3>1. IsText(line) /\ IsText(word) /\ Len(word) >= 1 /\ PartAt(line, word, pd) /\ pd \in Nat
        BY <1>20, <2>7, <2>12 DEF PartAt
      <3>2. \E q \in Nat : q <= pd /\ PartAt(Without(line, "r"), word, q)
        BY <2>7, <3>1, WithoutFacts
      <3> QED
        BY <3>2 DEF clean
    <2> DEFINE head == Parsed(clean)
    <2>14. /\ IsText(head) /\ Len(head) \in Nat /\ Len(clean) \in Nat
           /\ Len(head) = IF Len(clean) < MaxParse THEN Len(clean) ELSE MaxParse
           /\ \A j \in 1..Len(head) : head[j] = clean[j]
      BY <1>21, ParsedFacts, TextFacts
    <2> HIDE DEF head
    <2>15. q + Len(word) <= Len(head)
      <3>1. q + Len(word) <= MaxParse
        BY <2>1, <2>7, <2>10, <2>12, <2>13 DEF pd
      <3> QED
        BY <2>1, <2>7, <2>13, <2>14, <3>1 DEF PartAt
    <2>16. \A j \in 1..Len(word) : word[j] = head[q + j]
      <3>1. \A j \in 1..Len(word) : q + j \in 1..Len(head)
        BY <2>7, <2>13, <2>14, <2>15
      <3> QED
        BY <2>13, <2>14, <3>1 DEF PartAt
    <2>17. Has(head, word)
      BY <2>7, <2>14, <2>15, <2>16, PartOf
    <2> QED
      BY <1>11, <1>21, <2>7, <2>17, ContentFacts DEF head, word
  <1> QED
    BY <1>21, <1>22 DEF raw

-----------------------------------------------------------------------------
(* What is not lost.                                                       *)

\* No list of a rule gets what an earlier one of the rule has.
ListsAreApart == \A r \in ConfiguredRules : convertAllowLists(r.lists) = r.lists

\* What the rules that have run detect is there until the generic findings go, and
\* then what is not there any more is blank or has been covered by what is.
DetectedInv ==
    /\ step = "detect" /\ left # DOMAIN rules => ~checkCommitOrPathAllowed(GlobalLists)
    /\ step = "detect" =>
          \A i \in DOMAIN rules \ left :
             ~Prefiltered(rules[i]) => detectRule(TwomsToGitleaksRule(rules[i])) \subseteq found
    /\ step \in {"build", "done"} =>
          checkCommitOrPathAllowed(GlobalLists) \/
          \A i \in DOMAIN rules :
             ~Prefiltered(rules[i]) =>
                \A f \in detectRule(TwomsToGitleaksRule(rules[i])) :
                   \/ f \in found \/ Blank(f.secret) \/ BeginsWithTwoNewlines(f)
                   \/ f.rule \in GenericIDs /\ \E g \in found : Covers(g, f)

LEMMA DetectorStays ==
  ASSUME UNCHANGED fragment, NEW r, NEW f
  PROVE  /\ Prefiltered(r)' <=> Prefiltered(r)
         /\ detectRule(r)' = detectRule(r)
         /\ BeginsWithTwoNewlines(f)' <=> BeginsWithTwoNewlines(f)
  <1>1. Prefiltered(r)' <=> Prefiltered(r)
    BY DEF Prefiltered
  <1>2. BeginsWithTwoNewlines(f)' <=> BeginsWithTwoNewlines(f)
    BY DEF BeginsWithTwoNewlines
  <1>3. ASSUME NEW lists PROVE checkCommitOrPathAllowed(lists)' <=> checkCommitOrPathAllowed(lists)
    BY FindingStays
  <1>4. ASSUME NEW h PROVE Keeps(r, h)' <=> Keeps(r, h)
    BY DEF Keeps, checkFindingAllowed, AllowedBy
  <1>5. \A k : Finding(r, k)' = Finding(r, k)
    BY FindingStays
  <1>6. detectRule(r)' = detectRule(r)
    BY <1>3, <1>4, <1>5 DEF detectRule
  <1> QED
    BY <1>1, <1>2, <1>6

\* Whatever filter removes is blank, begins with two newlines, or is covered by what
\* filter leaves.
LEMMA FilterFacts ==
  ASSUME DetectTypes, RulesInv, FoundInv, NEW f \in found, f \notin filter(found),
         ~Blank(f.secret), ~BeginsWithTwoNewlines(f)
  PROVE  f.rule \in GenericIDs /\ \E g \in filter(found) : Covers(g, f)
  <1>1. PICK i \in DOMAIN rules :
            /\ IsRule(rules[i])
            /\ \E k \in Matches(fragment.raw, rules[i].word) : f = Finding(rules[i], k)
    BY FoundFacts
  <1>2. PICK k \in Matches(fragment.raw, rules[i].word) : f = Finding(rules[i], k)
    BY <1>1
  <1>3. ~Blank(f.line)
    BY <1>1, <1>2, LineIsNotBlank
  <1>4. PICK g \in found : f.rule \in GenericIDs /\ Covers(g, f)
    BY <1>3 DEF filter
  <1>5. g.startLine = f.startLine /\ Has(g.secret, f.secret) /\ g.rule \notin GenericIDs
    BY <1>4 DEF Covers
  <1>6. PICK j \in DOMAIN rules :
            /\ IsRule(rules[j])
            /\ \E m \in Matches(fragment.raw, rules[j].word) : g = Finding(rules[j], m)
    BY FoundFacts
  <1>7. PICK m \in Matches(fragment.raw, rules[j].word) : g = Finding(rules[j], m)
    BY <1>6
  <1>8. ~Blank(g.secret)
    <2>1. IsText(g.secret)
      BY <1>6, <1>7, SecretFacts
    <2> QED
      BY <1>5, <2>1, PartOfBlank
  <1>9. ~BeginsWithTwoNewlines(g)
    <2>1. SUFFICES ASSUME BeginsWithTwoNewlines(Finding(rules[j], m)) PROVE FALSE
      BY <1>7
    <2>2. Finding(rules[j], m).startLine = Finding(rules[i], k).startLine
      BY <1>2, <1>5, <1>7
    <2>3. ~Blank(Finding(rules[j], m).secret) /\ ~Blank(Finding(rules[i], k).secret)
      BY <1>2, <1>7, <1>8
    <2>4. BeginsWithTwoNewlines(Finding(rules[i], k))
      BY <1>1, <1>6, <2>1, <2>2, <2>3, SameLine
    <2> QED
      BY <1>2, <2>4
  <1>10. ~Blank(g.line)
    BY <1>6, <1>7, <1>8, <1>9, LineIsNotBlank
  <1>11. g \in filter(found)
    BY <1>5, <1>8, <1>10 DEF filter
  <1> QED
    BY <1>4, <1>11

LEMMA DetectedStep ==
  ASSUME DetectTypes, RulesInv, FoundInv, DetectedInv, [DetectNext]_detectVars
  PROVE  DetectedInv'
  <1>1. fragment' = fragment
    BY DEF DetectNext, detectVars, initEngine, SkipFragment, DetectRule, Filter, BuildSecrets
  <1>2. checkCommitOrPathAllowed(GlobalLists)' <=> checkCommitOrPathAllowed(GlobalLists)
    BY <1>1, FindingStays
  <1>3. CASE initEngine
    <2>1. \/ step' = "error"
          \/ step' = "detect" /\ left' = DOMAIN rules'
      BY <1>3 DEF initEngine
    <2> QED
      BY <2>1 DEF DetectedInv
  <1>4. CASE SkipFragment
    <2>1. step' = "done" /\ checkCommitOrPathAllowed(GlobalLists)
      BY <1>4 DEF SkipFragment
    <2> QED
      BY <1>2, <2>1 DEF DetectedInv
  <1>5. ASSUME NEW i \in left, DetectRule(i) PROVE DetectedInv'
    <2> DEFINE D(j) == detectRule(TwomsToGitleaksRule(rules[j]))
    <2>1. /\ step = "detect" /\ step' = step /\ rules' = rules /\ left' = left \ {i}
          /\ ~checkCommitOrPathAllowed(GlobalLists)
          /\ found' = IF Prefiltered(rules[i]) THEN found ELSE found \cup D(i)
      BY <1>5 DEF DetectRule
    <2>2. ASSUME NEW j \in DOMAIN rules \ left', ~Prefiltered(rules[j]) PROVE D(j) \subseteq found'
      <3>1. CASE j = i
        <4> HIDE DEF D
        <4> QED
          BY <2>1, <2>2, <3>1
      <3>2. CASE j # i
        <4>1. j \in DOMAIN rules \ left
          BY <2>1, <3>2
        <4>2. D(j) \subseteq found
          BY <2>1, <2>2, <4>1 DEF DetectedInv
        <4> HIDE DEF D
        <4> QED
          BY <2>1, <4>2
      <3> QED
        BY <3>1, <3>2
    <2>3. \A j \in DOMAIN rules' \ left' :
             ~Prefiltered(rules[j])' =>
                 detectRule(TwomsToGitleaksRule(rules[j]))' \subseteq found'
      <3>1. \A r : (Prefiltered(r)' <=> Prefiltered(r)) /\ detectRule(r)' = detectRule(r)
        BY <1>1, DetectorStays
      <3>2. \A j : rules'[j] = rules[j]
        BY <2>1
      <3> QED
        BY <2>1, <2>2, <3>1, <3>2
    <2> QED
      BY <1>2, <2>1, <2>3 DEF DetectedInv
  <1>6. CASE Filter
    <2>1. /\ step = "detect" /\ step' = "build" /\ rules' = rules /\ left = {}
          /\ found' = filter(found)
      BY <1>6 DEF Filter
    <2>2. ASSUME NEW i \in DOMAIN rules, ~Prefiltered(rules[i]),
                 NEW f \in detectRule(TwomsToGitleaksRule(rules[i]))
          PROVE  \/ f \in found' \/ Blank(f.secret) \/ BeginsWithTwoNewlines(f)
                 \/ f.rule \in GenericIDs /\ \E g \in found' : Covers(g, f)
      <3>1. f \in found
        BY <2>1, <2>2 DEF DetectedInv
      <3> QED
        BY <2>1, <3>1, FilterFacts
    <2>3. \A i \in DOMAIN rules' :
             ~Prefiltered(rules[i])' =>
                \A f \in detectRule(TwomsToGitleaksRule(rules[i]))' :
                   \/ f \in found' \/ Blank(f.secret) \/ BeginsWithTwoNewlines(f)'
                   \/ f.rule \in GenericIDs /\ \E g \in found' : Covers(g, f)
      <3>1. \A r : (Prefiltered(r)' <=> Prefiltered(r)) /\ detectRule(r)' = detectRule(r)
        BY <1>1, DetectorStays
      <3>2. \A f : BeginsWithTwoNewlines(f)' <=> BeginsWithTwoNewlines(f)
        BY <1>1, DetectorStays
      <3> QED
        BY <2>1, <2>2, <3>1, <3>2
    <2> QED
      BY <2>1, <2>3 DEF DetectedInv
  <1>7. CASE (BuildSecrets \/ UNCHANGED detectVars)
    <2>1. /\ rules' = rules /\ found' = found /\ left' = left
          /\ \/ step' = step
             \/ step = "build" /\ step' = "done"
      BY <1>7 DEF BuildSecrets, detectVars
    <2>2. \A r : (Prefiltered(r)' <=> Prefiltered(r)) /\ detectRule(r)' = detectRule(r)
      BY <1>1, DetectorStays
    <2>3. \A f : BeginsWithTwoNewlines(f)' <=> BeginsWithTwoNewlines(f)
      BY <1>1, DetectorStays
    <2>4. step \in {"build", "done"} /\ ~checkCommitOrPathAllowed(GlobalLists) =>
             \A i \in DOMAIN rules' :
                ~Prefiltered(rules[i])' =>
                   \A f \in detectRule(TwomsToGitleaksRule(rules[i]))' :
                      \/ f \in found' \/ Blank(f.secret) \/ BeginsWithTwoNewlines(f)'
                      \/ f.rule \in GenericIDs /\ \E g \in found' : Covers(g, f)
      BY <2>1, <2>2, <2>3 DEF DetectedInv
    <2>5. step = "detect" =>
             \A j \in DOMAIN rules' \ left' :
                ~Prefiltered(rules[j])' =>
                    detectRule(TwomsToGitleaksRule(rules[j]))' \subseteq found'
      BY <2>1, <2>2 DEF DetectedInv
    <2>6. step = "detect" /\ left # DOMAIN rules => ~checkCommitOrPathAllowed(GlobalLists)
      BY DEF DetectedInv
    <2> QED
      BY <1>2, <2>1, <2>4, <2>5, <2>6 DEF DetectedInv
  <1> QED
    BY <1>3, <1>4, <1>5, <1>6, <1>7 DEF DetectNext

\* Whatever a rule matches is reported, unless it is excluded by the allow lists as the
\* detector has them.
OnlyConvertedListsLose ==
    step = "done" => \A i \in DOMAIN rules : \A k \in Limited(Matches(fragment.raw, rules[i].word)) :
        LET f == Finding(rules[i], k)
        IN  Excluded(rules[i], convertAllowLists(rules[i].lists), f) \/ Reported(f, i)

LEMMA NotLost ==
  ASSUME DetectTypes, RulesInv, FoundInv, DetectedInv
  PROVE  OnlyConvertedListsLose
  <1>1. ASSUME step = "done", NEW i \in DOMAIN rules,
               NEW k \in Limited(Matches(fragment.raw, rules[i].word)),
               ~Excluded(rules[i], convertAllowLists(rules[i].lists), Finding(rules[i], k))
        PROVE  Reported(Finding(rules[i], k), i)
    <2> DEFINE r == rules[i]
               c == TwomsToGitleaksRule(r)
               f == Finding(r, k)
    <2>1. IsRule(r) /\ r.id = i
      BY RulesFacts
    <2>2. /\ c.word = r.word /\ c.entropy = r.entropy /\ c.paths = r.paths
          /\ c.lists = convertAllowLists(r.lists) /\ Finding(c, k) = f
      BY <2>1, ConvertedFacts
    <2>3. Len(f.secret) \in Nat /\ Cardinality(Range(f.secret)) \in Nat /\ r.entropy \in Nat
          /\ MaxSecretSize \in Nat
      BY <2>1, SecretFacts, DetectionAssumption DEF DetectionAssumption, IsRule
    <2>4. ~Excluded(r, c.lists, f)
      BY <1>1, <2>2
    <2>5. f.rule = i
      BY <2>1 DEF Finding
    <2> HIDE DEF c, f, r
    <2>6. Keeps(c, f)
      BY <2>2, <2>3, <2>4 DEF Keeps, Excluded
    <2>7. f \in detectRule(c)
      <3>1. k \in Limited(Matches(fragment.raw, c.word)) /\ f = Finding(c, k)
        BY <2>2 DEF r
      <3>2. ~(\/ checkCommitOrPathAllowed(c.lists) \/ fragment.path \notin c.paths
              \/ MaxTarget > 0 /\ Len(fragment.raw) > MaxTarget)
        BY <2>2, <2>4 DEF Excluded
      <3> QED
        BY <2>6, <3>1, <3>2 DEF detectRule
    <2>8. \/ f \in found
          \/ f.rule \in GenericIDs /\ \E g \in found : Covers(g, f)
      BY <1>1, <2>4, <2>7 DEF DetectedInv, Excluded, c, r
    <2>9. secrets = {buildSecret(g) : g \in found}
      BY <1>1 DEF FoundInv
    <2>10. CASE f \in found
      <3>1. buildSecret(f) \in secrets
        BY <2>9, <2>10
      <3>2. buildSecret(f).rule = i /\ buildSecret(f).start = f.start
        BY <2>5 DEF buildSecret
      <3> QED
        BY <3>1, <3>2 DEF Reported, f, r
    <2>11. ASSUME f.rule \in GenericIDs, NEW g \in found, Covers(g, f)
           PROVE  Reported(f, i)
      <3>1. buildSecret(g) \in secrets
        BY <2>9
      <3>2. /\ buildSecret(g).rule = g.rule /\ buildSecret(g).value = g.secret
            /\ buildSecret(g).startLine = g.startLine + LineOffset
        BY DEF buildSecret
      <3>3. g.startLine = f.startLine /\ Has(g.secret, f.secret) /\ g.rule \notin GenericIDs
        BY <2>11 DEF Covers
      <3> QED
        BY <2>5, <2>11, <3>1, <3>2, <3>3 DEF Reported
    <2> QED
      BY <2>8, <2>10, <2>11 DEF f, r
  <1> QED
    BY <1>1 DEF OnlyConvertedListsLose

LEMMA ListsOfRules ==
  ASSUME ListsAreApart, DetectTypes, RulesInv, NEW i \in DOMAIN rules
  PROVE  convertAllowLists(rules[i].lists) = rules[i].lists
  <1>1. PICK q \in ConfiguredRules : IsRule(q) /\ Renamed(rules[i], q)
    BY RulesFacts
  <1>2. rules[i].lists = q.lists
    BY <1>1, RenamedFacts DEF IsRule
  <1> QED
    BY <1>2 DEF ListsAreApart

LEMMA DetectInvariant ==
  DetectSpec => [](DetectTypes /\ RulesInv /\ FoundInv /\ DetectedInv)
  <1>1. DetectInit => DetectTypes /\ RulesInv /\ FoundInv /\ DetectedInv
    BY DEF DetectInit, DetectTypes, RulesInv, FoundInv, DetectedInv
  <1>2. DetectTypes /\ RulesInv /\ FoundInv /\ DetectedInv /\ [DetectNext]_detectVars
            => DetectTypes' /\ RulesInv' /\ FoundInv' /\ DetectedInv'
    BY TypesStep, RulesStep, FoundStep, DetectedStep
  <1> QED
    BY <1>1, <1>2, PTL DEF DetectSpec

\* Every rule that was asked for runs, or another one of its ID, unless one of this ID that
\* is asked for is ignored additionally (engine.initEngine, rules.FilterRules).
THEOREM NoRuleIsMissing == DetectSpec => []AskedRulesRun
  <1>1. DetectInit => AskedRulesRun
    BY DEF DetectInit, AskedRulesRun
  <1>2. DetectTypes /\ AskedRulesRun /\ [DetectNext]_detectVars => AskedRulesRun'
    BY AskedStep
  <1> QED
    BY <1>1, <1>2, DetectInvariant, PTL DEF DetectSpec

\* Whatever the configuration selects, ignores and adds, the detector has the rules
\* that were asked for (engine.initEngine, rules.FilterRules).
THEOREM RulesFollowTheConfiguration == DetectSpec => []RulesAreAsAsked
  <1>1. DetectTypes /\ RulesInv => OnlyAskedRules
    BY RulesAsAsked
  <1>2. OnlyAskedRules /\ AskedRulesRun => RulesAreAsAsked
    BY DEF RulesAreAsAsked
  <1> QED
    BY <1>1, <1>2, DetectInvariant, NoRuleIsMissing, PTL

\* The lines and the columns a report gives for a secret are those of the first and the
\* last character of its match in the text, but for the two cases excepted (location,
\* buildSecret).
THEOREM PlacesAreRight == DetectSpec => []PositionsAreRight
  <1>1. DetectTypes /\ RulesInv /\ FoundInv => PositionsAreRight
    BY RightPlaces
  <1> QED
    BY <1>1, DetectInvariant, PTL

\* Whatever the line, and wherever its secret is found first, the content of a secret shows
\* all of it if the match ends in the part that is parsed, and no more than the context
\* around it, but for the two cases excepted: a match that begins with two newlines and a
\* secret with a carriage return (location, buildSecret, GetLineContent).
THEOREM SecretsAreShown == DetectSpec => []SecretIsShown
  <1>1. DetectTypes /\ RulesInv /\ FoundInv => SecretIsShown
    BY SecretsShown
  <1> QED
    BY <1>1, DetectInvariant, PTL

\* What the report says of a secret is right: the place of its match and the content it
\* shows it in, but for the cases excepted (location, buildSecret, GetLineContent).
THEOREM ReportsAreRight == DetectSpec => []SecretsAreRight
  <1>1. PositionsAreRight /\ SecretIsShown => SecretsAreRight
    BY DEF SecretsAreRight
  <1> QED
    BY <1>1, PlacesAreRight, SecretsAreShown, PTL

\* Whatever the rules and their lists are, a match is only lost for a limit, a prefilter,
\* two newlines at its beginning, or a list as convertAllowLists makes it (Detect, filter).
THEOREM LossesHaveReasons == DetectSpec => []OnlyConvertedListsLose
  <1>1. DetectTypes /\ RulesInv /\ FoundInv /\ DetectedInv => OnlyConvertedListsLose
    BY NotLost
  <1> QED
    BY <1>1, DetectInvariant, PTL

\* When no list gets anything of the lists before it, as when no rule has two, a match
\* is only lost for a list as the rule declares it.  Two rules of ruledefine have more
\* than one list (kubernetes_secret.go, generic_credential.go).
THEOREM MatchesAreReported == ListsAreApart => (DetectSpec => []NothingIsLost)
  <1> SUFFICES ASSUME ListsAreApart PROVE DetectSpec => []NothingIsLost
    OBVIOUS
  <1>1. DetectTypes /\ RulesInv /\ OnlyConvertedListsLose => NothingIsLost
    BY ListsOfRules DEF NothingIsLost, OnlyConvertedListsLose
  <1> QED
    BY <1>1, DetectInvariant, LossesHaveReasons, PTL

=============================================================================
