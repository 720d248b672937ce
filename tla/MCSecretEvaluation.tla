------------------------- MODULE MCSecretEvaluation -------------------------
(* A JWT, a GitHub token whose rule has its validation disabled, two       *)
(* GitLab tokens, a Google key, a match of a --regex rule, and an Alibaba  *)
(* access key with two secret keys, one of them in another source.         *)
EXTENDS SecretEvaluation, TLC

CONSTANTS jwt, hub, lab1, lab2, gcp, custom, access, key1, key2

AllSecrets == {jwt, hub, lab1, lab2, gcp, custom, access, key1, key2}

RuleOf == jwt :> "jwt" @@ hub :> "github-pat" @@ lab1 :> "gitlab-pat" @@ lab2 :> "gitlab-pat" @@ custom :> "custom-regex-1"
          @@ gcp :> "gcp-api-key" @@ access :> AccessKeyRule @@ key1 :> SecretKeyRule @@ key2 :> SecretKeyRule

SourceOf == [s \in AllSecrets |-> IF s = key2 THEN "b.txt" ELSE "a.txt"]

Scored == {"jwt", "github-pat", "gitlab-pat", "gcp-api-key", AccessKeyRule, SecretKeyRule}

\* the smallest base score, one in between, the largest
Categories == [r \in Scored |-> IF r = "gitlab-pat" THEN 1 ELSE IF r = "jwt" THEN 3 ELSE 4]
RuleTypes == [r \in Scored |-> IF r = "gitlab-pat" THEN 1 ELSE 4]
Severities == [r \in Scored |-> IF r = "jwt" THEN 1 ELSE IF r = "gitlab-pat" THEN 5 ELSE 2]

\* the interesting neighbours first, in the middle and last
SomeOrders == {<<jwt, lab1, lab2, gcp, hub, custom, access, key1, key2>>,
               <<key1, hub, lab1, access, jwt, key2, lab2, custom, gcp>>,
               <<custom, gcp, key2, key1, lab2, lab1, jwt, access, hub>>}
=============================================================================
