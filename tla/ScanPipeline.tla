---------------------------- MODULE ScanPipeline ----------------------------
(***************************************************************************)
(* One scan of the engine (engine/engine.go: Scan, processItems,           *)
(* detectSecrets, processSecrets, processSecretsExtras,                    *)
(* processSecretsEvaluation, Wait), with the detector worker pool and the  *)
(* memory semaphore it runs on.                                            *)
(*                                                                         *)
(*   plugin -> items -> [processItems] -> pool queue -> [workers]          *)
(*                                                         |               *)
(*                            secrets <--------------------+               *)
(*                               |                                         *)
(*                        [processSecrets] -> extras     -> [extras]       *)
(*                               |         -> evaluation -> [evaluation]   *)
(*                            results                                      *)
(*                                                                         *)
(* Every bracketed box is a goroutine (the workers are several), every     *)
(* arrow a bounded channel.  A finding stands for one *secrets.Secret: two *)
(* findings with the same text are two pointers with one SecretID.         *)
(***************************************************************************)
EXTENDS Integers, Sequences, FiniteSets, Functions

CONSTANTS
    Items,          \* the items the plugin emits
    Findings,       \* the detector's matches, over all items
    IDs,            \* result IDs
    NoItem, NoFinding,
    Workers,        \* goroutines of the detector pool
    Fragments,      \* Fragments[i]: what the detector finds in each piece of item i
    SecretID,       \* SecretID[f]: the ID buildSecret gives f
    Ignored,        \* findings isSecretIgnored accepts
    Unbuildable,    \* findings buildSecret fails on
    Unreadable,     \* files os.Stat fails on, or above --max-target-megabytes
    FromFiles,      \* the plugin is "filesystem": DetectFile, else DetectFragment
    Weight,         \* Weight[i]: memory a file needs while it is scanned
    MemoryBudget,
    QueueSize,      \* capacity of the pool's task queue
    ChanCap,        \* capacity of every channel (runtime.GOMAXPROCS(0))
    MaxFindings,    \* 0: no limit
    WithValidation

ASSUME PipelineAssumption ==
    /\ IsFiniteSet(Workers) /\ Workers # {}
    /\ IsFiniteSet(Items)
    /\ Fragments \in [Items -> Seq(Seq(Findings))]
    /\ SecretID \in [Findings -> IDs]
    /\ Ignored \subseteq Findings /\ Unbuildable \subseteq Findings
    /\ Unreadable \subseteq Items
    /\ FromFiles \in BOOLEAN /\ WithValidation \in BOOLEAN
    /\ Weight \in [Items -> Nat]
    /\ MemoryBudget \in Nat
    /\ QueueSize \in Nat \ {0} /\ ChanCap \in Nat \ {0}
    /\ MaxFindings \in Nat

\* the detector builds a new secret for every match, so no pointer occurs twice
ASSUME EachFindingHasOnePlace ==
    \A i, j \in Items :
      \A k \in DOMAIN Fragments[i], l \in DOMAIN Fragments[j] :
        \A m \in DOMAIN Fragments[i][k], n \in DOMAIN Fragments[j][l] :
          Fragments[i][k][m] = Fragments[j][l][n] => i = j /\ k = l /\ m = n

VARIABLES
    unsent,                          \* the plugin's items not yet sent
    buf, closed,                     \* the channels: what they hold, closed or not
    pc, hand,                        \* the engine's goroutines: where each is, what it holds
    queue, queueClosed,              \* the pool
    wpc, job, frag, pos,             \* the pool's workers
    memFree, memWaiters,             \* the weighted semaphore
    findingsCounter,
    totalItems, totalSecrets, results,
    annotated, registered, scored,   \* findings that have their extras, validation, score
    caller                           \* engine.Wait

chanVars == <<buf, closed>>
goVars == <<pc, hand>>
poolVars == <<queue, queueClosed>>
workerVars == <<wpc, job, frag, pos>>
memVars == <<memFree, memWaiters>>
reportVars == <<totalItems, totalSecrets, results>>
secretVars == <<annotated, registered, scored>>

vars == <<unsent, chanVars, goVars, poolVars, workerVars, memVars, findingsCounter,
          reportVars, secretVars, caller>>

Channels == {"items", "secrets", "extras", "evaluation"}
Goroutines == {"processItems", "processSecrets", "processExtras", "processEvaluation"}

-----------------------------------------------------------------------------
Init ==
    /\ unsent = Items
    /\ buf = [c \in Channels |-> <<>>] /\ closed = [c \in Channels |-> FALSE]
    /\ pc = [g \in Goroutines |-> "receive"]
    /\ hand = [g \in Goroutines |-> NoFinding]
    /\ queue = <<>> /\ queueClosed = FALSE
    /\ wpc = [w \in Workers |-> "idle"]
    /\ job = [w \in Workers |-> NoItem]
    /\ frag = [w \in Workers |-> 1] /\ pos = [w \in Workers |-> 1]
    /\ memFree = MemoryBudget /\ memWaiters = <<>>
    /\ findingsCounter = 0
    /\ totalItems = 0 /\ totalSecrets = 0 /\ results = [id \in IDs |-> <<>>]
    /\ annotated = {} /\ registered = {} /\ scored = {}
    /\ caller = "waiting"

-----------------------------------------------------------------------------
(* A goroutine and a channel: the send blocks while the buffer is full.    *)

Push(c, x) == Len(buf[c]) < ChanCap /\ buf' = [buf EXCEPT ![c] = Append(@, x)]

Goto(g, state) == pc' = [pc EXCEPT ![g] = state]

\* back at the head of the range loop
LetGo(g) == Goto(g, "receive") /\ hand' = [hand EXCEPT ![g] = NoFinding]

Receive(g, c, next) ==
    /\ pc[g] = "receive" /\ buf[c] # <<>>
    /\ hand' = [hand EXCEPT ![g] = Head(buf[c])]
    /\ buf' = [buf EXCEPT ![c] = Tail(@)]
    /\ Goto(g, next)
    /\ UNCHANGED closed

Send(g, c, state, next) ==
    /\ pc[g] = state /\ Push(c, hand[g]) /\ Goto(g, next)
    /\ UNCHANGED <<hand, closed>>

\* the range over the channel ends: it is closed and empty
Drained(g, c, next) ==
    /\ pc[g] = "receive" /\ buf[c] = <<>> /\ closed[c]
    /\ Goto(g, next)
    /\ UNCHANGED <<hand, chanVars>>

Close(g, c, state, next) ==
    /\ pc[g] = state /\ Goto(g, next)
    /\ closed' = [closed EXCEPT ![c] = TRUE]
    /\ UNCHANGED <<hand, buf>>

-----------------------------------------------------------------------------
(* The plugin: it sends its items, in any order, and closes the channel.   *)

SendItem(i) ==
    /\ i \in unsent /\ Push("items", i)
    /\ unsent' = unsent \ {i}
    /\ UNCHANGED closed

CloseItems ==
    /\ unsent = {} /\ ~closed["items"]
    /\ closed' = [closed EXCEPT !["items"] = TRUE]
    /\ UNCHANGED <<unsent, buf>>

Plugin ==
    /\ CloseItems \/ \E i \in Items : SendItem(i)
    /\ UNCHANGED <<goVars, poolVars, workerVars, memVars, findingsCounter,
                   reportVars, secretVars, caller>>

-----------------------------------------------------------------------------
(* processItems: consumeItems, then CloseQueue, Wait and close.            *)

ReceiveItem ==
    /\ Receive("processItems", "items", "submit")
    /\ totalItems' = totalItems + 1
    /\ UNCHANGED <<totalSecrets, results, poolVars>>

\* pond's bounded queue: the submitter blocks while it is full.
SubmitTask ==
    /\ pc["processItems"] = "submit" /\ ~queueClosed /\ Len(queue) < QueueSize
    /\ queue' = Append(queue, hand["processItems"])
    /\ LetGo("processItems")
    /\ UNCHANGED <<chanVars, queueClosed, reportVars>>

ItemsDrained ==
    /\ Drained("processItems", "items", "closeQueue")
    /\ UNCHANGED <<poolVars, reportVars>>

CloseQueue ==
    /\ pc["processItems"] = "closeQueue"
    /\ queueClosed' = TRUE /\ Goto("processItems", "wait")
    /\ UNCHANGED <<hand, chanVars, queue, reportVars>>

PoolDrained == queue = <<>> /\ \A w \in Workers : wpc[w] = "idle"

\* Mutant: Wait does not wait for the pool's tasks.
WaitForPoolEarly ==
    /\ pc["processItems"] = "wait"
    /\ Goto("processItems", "closeSecrets")
    /\ UNCHANGED <<hand, chanVars, poolVars, reportVars>>

WaitForPool ==
    /\ pc["processItems"] = "wait" /\ PoolDrained
    /\ Goto("processItems", "closeSecrets")
    /\ UNCHANGED <<hand, chanVars, poolVars, reportVars>>

CloseSecrets ==
    /\ Close("processItems", "secrets", "closeSecrets", "done")
    /\ UNCHANGED <<poolVars, reportVars>>

ProcessItems ==
    /\ \/ ReceiveItem \/ SubmitTask \/ ItemsDrained
       \/ CloseQueue \/ WaitForPool \/ CloseSecrets
    /\ UNCHANGED <<unsent, workerVars, memVars, findingsCounter, secretVars, caller>>

-----------------------------------------------------------------------------
(* A pool worker running DetectFile or DetectFragment on its item.         *)

Step(w, state) == wpc' = [wpc EXCEPT ![w] = state]

\* the task has returned, its closure is gone
Return(w) == /\ Step(w, "idle") /\ job' = [job EXCEPT ![w] = NoItem]
             /\ frag' = [frag EXCEPT ![w] = 1] /\ pos' = [pos EXCEPT ![w] = 1]

TakeTask(w) ==
    /\ wpc[w] = "idle" /\ queue # <<>>
    /\ job' = [job EXCEPT ![w] = Head(queue)] /\ queue' = Tail(queue)
    /\ Step(w, IF FromFiles THEN "open" ELSE "fragment")
    /\ UNCHANGED <<frag, pos, chanVars, memVars, findingsCounter>>

\* stat fails, the file is over the size limit, or its weight is over the budget
SkipFile(w) ==
    /\ wpc[w] = "open"
    /\ job[w] \in Unreadable \/ Weight[job[w]] > MemoryBudget
    /\ Return(w)
    /\ UNCHANGED <<chanVars, queue, memVars, findingsCounter>>

WantsMemory(w) == /\ wpc[w] = "open"
                  /\ job[w] \notin Unreadable /\ Weight[job[w]] <= MemoryBudget

TakeMemory(w) ==
    /\ Weight[job[w]] <= memFree
    /\ memFree' = memFree - Weight[job[w]]
    /\ Step(w, "fragment")
    /\ UNCHANGED <<job, frag, pos, chanVars, queue, findingsCounter>>

\* semaphore.Weighted: take what is free unless someone is already queued
AcquireMemory(w) == WantsMemory(w) /\ memWaiters = <<>> /\ TakeMemory(w) /\ UNCHANGED memWaiters

QueueForMemory(w) ==
    /\ WantsMemory(w) /\ (memWaiters # <<>> \/ Weight[job[w]] > memFree)
    /\ memWaiters' = Append(memWaiters, w)
    /\ Step(w, "waitMemory")
    /\ UNCHANGED <<memFree, job, frag, pos, chanVars, queue, findingsCounter>>

\* the queue is served in order: a waiter that does not fit holds back the others
GrantMemory(w) ==
    /\ wpc[w] = "waitMemory" /\ memWaiters # <<>> /\ w = Head(memWaiters)
    /\ TakeMemory(w) /\ memWaiters' = Tail(memWaiters)

\* Mutant: the limit counts as reached one finding too early.
LimitReachedEarly == MaxFindings > 0 /\ findingsCounter >= MaxFindings - 1

LimitReached == MaxFindings > 0 /\ findingsCounter >= MaxFindings

NextFragment(w) == frag' = [frag EXCEPT ![w] = @ + 1] /\ Step(w, "fragment")

NextMatch(w) == pos' = [pos EXCEPT ![w] = @ + 1] /\ Step(w, "emit")

\* Mutant: the loop over the fragments runs once too often.
StartFragmentPastEnd(w) ==
    /\ wpc[w] = "fragment" /\ frag[w] <= Len(Fragments[job[w]]) + 1
    /\ \/ LimitReached /\ NextFragment(w) /\ UNCHANGED pos
       \/ ~LimitReached /\ pos' = [pos EXCEPT ![w] = 1] /\ Step(w, "emit") /\ UNCHANGED frag
    /\ UNCHANGED <<job, chanVars, queue, memVars, findingsCounter>>

StartFragment(w) ==
    /\ wpc[w] = "fragment" /\ frag[w] <= Len(Fragments[job[w]])
    /\ \/ LimitReached /\ NextFragment(w) /\ UNCHANGED pos
       \/ ~LimitReached /\ pos' = [pos EXCEPT ![w] = 1] /\ Step(w, "emit") /\ UNCHANGED frag
    /\ UNCHANGED <<job, chanVars, queue, memVars, findingsCounter>>

Matches(w) == Fragments[job[w]][frag[w]]

EndFragment(w) ==
    /\ wpc[w] = "emit" /\ pos[w] > Len(Matches(w))
    /\ NextFragment(w)
    /\ UNCHANGED <<job, pos, chanVars, queue, memVars, findingsCounter>>

AtMatch(w, kind) == /\ wpc[w] = "emit" /\ pos[w] <= Len(Matches(w))
                    /\ Matches(w)[pos[w]] \in kind

\* Mutant: only the finding that cannot be built is left out.
BuildFailureSkipsMatch(w) ==
    /\ AtMatch(w, Unbuildable)
    /\ NextMatch(w)
    /\ UNCHANGED <<job, frag, chanVars, queue, memVars, findingsCounter>>

\* Mutant: the error return misses the release of the memory.
BuildFailureKeepsMemory(w) ==
    /\ AtMatch(w, Unbuildable)
    /\ Return(w)
    /\ UNCHANGED <<chanVars, queue, memVars, findingsCounter>>

\* buildSecret returns an error: the whole task ends, its error is only logged
BuildFails(w) ==
    /\ AtMatch(w, Unbuildable)
    /\ frag' = [frag EXCEPT ![w] = Len(Fragments[job[w]]) + 1]
    /\ Step(w, "fragment")
    /\ UNCHANGED <<job, pos, chanVars, queue, memVars, findingsCounter>>

IgnoreMatch(w) ==
    /\ AtMatch(w, Ignored \ Unbuildable)
    /\ NextMatch(w)
    /\ UNCHANGED <<job, frag, chanVars, queue, memVars, findingsCounter>>

\* Mutant: the limit is only checked before the fragment, not after the Add.
CountMatchUnchecked(w) ==
    /\ AtMatch(w, Findings \ (Ignored \cup Unbuildable))
    /\ findingsCounter' = findingsCounter + 1
    /\ Step(w, "send")
    /\ UNCHANGED <<frag, job, pos, chanVars, queue, memVars>>

\* Mutant: the finding that reaches the limit is dropped.
CountMatchOffByOne(w) ==
    /\ AtMatch(w, Findings \ (Ignored \cup Unbuildable))
    /\ findingsCounter' = findingsCounter + 1
    /\ IF MaxFindings > 0 /\ findingsCounter' >= MaxFindings
         THEN NextFragment(w)
         ELSE Step(w, "send") /\ UNCHANGED frag
    /\ UNCHANGED <<job, pos, chanVars, queue, memVars>>

\* findingsCounter.Add(1): the worker acts on the count its own Add returned
CountMatch(w) ==
    /\ AtMatch(w, Findings \ (Ignored \cup Unbuildable))
    /\ findingsCounter' = findingsCounter + 1
    /\ IF MaxFindings > 0 /\ findingsCounter' > MaxFindings
         THEN NextFragment(w)
         ELSE Step(w, "send") /\ UNCHANGED frag
    /\ UNCHANGED <<job, pos, chanVars, queue, memVars>>

SendSecret(w) ==
    /\ wpc[w] = "send" /\ Push("secrets", Matches(w)[pos[w]])
    /\ NextMatch(w)
    /\ UNCHANGED <<job, frag, closed, queue, memVars, findingsCounter>>

\* Mutant: the release is not deferred: a fragment loop left early keeps it.
FinishTaskWithoutRelease(w) ==
    /\ wpc[w] = "fragment" /\ frag[w] > Len(Fragments[job[w]])
    /\ Return(w)
    /\ UNCHANGED <<memVars, chanVars, queue, findingsCounter>>

\* the task returns; the deferred release gives the memory back
FinishTask(w) ==
    /\ wpc[w] = "fragment" /\ frag[w] > Len(Fragments[job[w]])
    /\ memFree' = IF FromFiles THEN memFree + Weight[job[w]] ELSE memFree
    /\ Return(w)
    /\ UNCHANGED <<memWaiters, chanVars, queue, findingsCounter>>

Worker(w) ==
    /\ \/ TakeTask(w) \/ SkipFile(w)
       \/ AcquireMemory(w) \/ QueueForMemory(w) \/ GrantMemory(w)
       \/ StartFragment(w) \/ EndFragment(w)
       \/ BuildFails(w) \/ IgnoreMatch(w) \/ CountMatch(w)
       \/ SendSecret(w) \/ FinishTask(w)
    /\ UNCHANGED <<unsent, goVars, queueClosed, reportVars, secretVars, caller>>

-----------------------------------------------------------------------------
(* processSecrets: every secret goes to the extras goroutine, then to the  *)
(* evaluation goroutine, then into the results.                            *)

ReceiveSecret ==
    /\ Receive("processSecrets", "secrets", "extras")
    /\ totalSecrets' = totalSecrets + 1
    /\ UNCHANGED results

SendToExtras ==
    /\ Send("processSecrets", "extras", "extras", "evaluation")
    /\ UNCHANGED <<totalSecrets, results>>

SendToEvaluation ==
    /\ Send("processSecrets", "evaluation", "evaluation", "append")
    /\ UNCHANGED <<totalSecrets, results>>

\* Mutant: a later secret replaces the earlier ones with its ID.
ReplaceResult ==
    LET secret == hand["processSecrets"] IN
    /\ pc["processSecrets"] = "append" /\ LetGo("processSecrets")
    /\ results' = [results EXCEPT ![SecretID[secret]] = <<secret>>]
    /\ UNCHANGED <<chanVars, totalSecrets>>

AppendResult ==
    LET secret == hand["processSecrets"] IN
    /\ pc["processSecrets"] = "append" /\ LetGo("processSecrets")
    /\ results' = [results EXCEPT ![SecretID[secret]] = Append(@, secret)]
    /\ UNCHANGED <<chanVars, totalSecrets>>

SecretsDrained ==
    /\ Drained("processSecrets", "secrets", "closeExtras")
    /\ UNCHANGED <<totalSecrets, results>>

CloseExtras ==
    /\ Close("processSecrets", "extras", "closeExtras", "closeEvaluation")
    /\ UNCHANGED <<totalSecrets, results>>

CloseEvaluation ==
    /\ Close("processSecrets", "evaluation", "closeEvaluation", "done")
    /\ UNCHANGED <<totalSecrets, results>>

ProcessSecrets ==
    /\ \/ ReceiveSecret \/ SendToExtras \/ SendToEvaluation \/ AppendResult
       \/ SecretsDrained \/ CloseExtras \/ CloseEvaluation
    /\ UNCHANGED <<unsent, poolVars, workerVars, memVars, findingsCounter, totalItems,
                   secretVars, caller>>

-----------------------------------------------------------------------------
(* processSecretsExtras: rule name, category and rule specific details.    *)

ReceiveForExtras == Receive("processExtras", "extras", "add") /\ UNCHANGED secretVars

AddExtras ==
    /\ pc["processExtras"] = "add" /\ LetGo("processExtras")
    /\ annotated' = annotated \cup {hand["processExtras"]}
    /\ UNCHANGED <<chanVars, registered, scored>>

ExtrasDrained == Drained("processExtras", "extras", "done") /\ UNCHANGED secretVars

-----------------------------------------------------------------------------
(* processSecretsEvaluation: validation (when enabled), then the score.    *)

\* Mutant: the evaluation loop is the one without validation.
ReceiveWithoutValidation ==
    /\ Receive("processEvaluation", "evaluation", "score")
    /\ UNCHANGED secretVars

ReceiveForEvaluation ==
    /\ Receive("processEvaluation", "evaluation", IF WithValidation THEN "register" ELSE "score")
    /\ UNCHANGED secretVars

RegisterForValidation ==
    /\ pc["processEvaluation"] = "register" /\ Goto("processEvaluation", "score")
    /\ registered' = registered \cup {hand["processEvaluation"]}
    /\ UNCHANGED <<hand, chanVars, annotated, scored>>

AssignScoreAndSeverity ==
    /\ pc["processEvaluation"] = "score" /\ LetGo("processEvaluation")
    /\ scored' = scored \cup {hand["processEvaluation"]}
    /\ UNCHANGED <<chanVars, annotated, registered>>

EvaluationDrained ==
    /\ Drained("processEvaluation", "evaluation", IF WithValidation THEN "validate" ELSE "done")
    /\ UNCHANGED secretVars

\* validator.Validate: the collected pairs, after the last secret
ValidatePairs ==
    /\ pc["processEvaluation"] = "validate" /\ Goto("processEvaluation", "done")
    /\ UNCHANGED <<hand, chanVars, secretVars>>

OnlySecretsChange ==
    UNCHANGED <<unsent, poolVars, workerVars, memVars, findingsCounter, reportVars, caller>>

ProcessExtras == (ReceiveForExtras \/ AddExtras \/ ExtrasDrained) /\ OnlySecretsChange

ProcessEvaluation ==
    /\ \/ ReceiveForEvaluation \/ RegisterForValidation \/ AssignScoreAndSeverity
       \/ EvaluationDrained \/ ValidatePairs
    /\ OnlySecretsChange

-----------------------------------------------------------------------------
\* engine.Wait returns when the four goroutines of the wait group have.
WaitReturns ==
    /\ caller = "waiting" /\ \A g \in Goroutines : pc[g] = "done"
    /\ caller' = "returned"
    /\ UNCHANGED <<unsent, chanVars, goVars, poolVars, workerVars, memVars, findingsCounter,
                   reportVars, secretVars>>

Terminated == caller = "returned" /\ UNCHANGED vars

Next == \/ Plugin \/ ProcessItems \/ (\E w \in Workers : Worker(w))
        \/ ProcessSecrets \/ ProcessExtras \/ ProcessEvaluation
        \/ WaitReturns \/ Terminated

\* The Go scheduler runs every goroutine that can take a step.
Fairness == /\ WF_vars(Plugin) /\ WF_vars(ProcessItems) /\ WF_vars(ProcessSecrets)
            /\ WF_vars(ProcessExtras) /\ WF_vars(ProcessEvaluation) /\ WF_vars(WaitReturns)
            /\ \A w \in Workers : WF_vars(Worker(w))

Safety == Init /\ [][Next]_vars

Spec == Safety /\ Fairness

-----------------------------------------------------------------------------
(* Properties.                                                             *)

WorkerStates == {"idle", "open", "waitMemory", "fragment", "emit", "send"}

ItemsStates == {"receive", "submit", "closeQueue", "wait", "closeSecrets", "done"}
SecretsStates == {"receive", "extras", "evaluation", "append", "closeExtras", "closeEvaluation", "done"}
ExtrasStates == {"receive", "add", "done"}
EvaluationStates == {"receive", "register", "score", "validate", "done"}

ChannelTypes ==
    /\ buf \in [Channels -> Seq(Items \cup Findings)]
    /\ buf["items"] \in Seq(Items)
    /\ \A c \in Channels \ {"items"} : buf[c] \in Seq(Findings)
    /\ closed \in [Channels -> BOOLEAN]

GoroutineTypes ==
    /\ pc \in [Goroutines -> ItemsStates \cup SecretsStates \cup ExtrasStates \cup EvaluationStates]
    /\ pc["processItems"] \in ItemsStates /\ pc["processSecrets"] \in SecretsStates
    /\ pc["processExtras"] \in ExtrasStates /\ pc["processEvaluation"] \in EvaluationStates
    /\ hand \in [Goroutines -> Items \cup Findings \cup {NoFinding}]
    /\ pc["processItems"] = "submit" => hand["processItems"] \in Items
    /\ pc["processSecrets"] \in {"extras", "evaluation", "append"} => hand["processSecrets"] \in Findings
    /\ pc["processExtras"] = "add" => hand["processExtras"] \in Findings
    /\ pc["processEvaluation"] \in {"register", "score"} => hand["processEvaluation"] \in Findings

WorkerTypes ==
    /\ wpc \in [Workers -> WorkerStates]
    /\ job \in [Workers -> Items \cup {NoItem}]
    /\ frag \in [Workers -> Nat \ {0}] /\ pos \in [Workers -> Nat \ {0}]
    /\ \A w \in Workers :
          /\ wpc[w] # "idle" => job[w] \in Items
          /\ wpc[w] \in {"emit", "send"} => frag[w] <= Len(Fragments[job[w]])
          /\ wpc[w] = "send" => pos[w] <= Len(Matches(w))

ResourceTypes ==
    /\ queue \in Seq(Items) /\ queueClosed \in BOOLEAN
    /\ memFree \in Nat /\ memWaiters \in Seq(Workers)
    /\ findingsCounter \in Nat

ReportTypes ==
    /\ unsent \subseteq Items
    /\ totalItems \in Nat /\ totalSecrets \in Nat
    /\ results \in [IDs -> Seq(Findings)]
    /\ annotated \subseteq Findings /\ registered \subseteq Findings /\ scored \subseteq Findings
    /\ caller \in {"waiting", "returned"}

\* Every variable keeps its type; in particular a goroutine that uses what it
\* holds holds the right kind of thing, and a worker never reads past the end
\* of the file's fragments or matches.
TypeOK == ChannelTypes /\ GoroutineTypes /\ WorkerTypes /\ ResourceTypes /\ ReportTypes

Senders == {w \in Workers : wpc[w] = "send"}

\* findings let past the limit check: counted, queued, or about to be sent
Admitted == totalSecrets + Len(buf["secrets"]) + Cardinality(Senders)

\* --max-findings holds whatever the workers' interleaving: no more findings
\* pass detectSecrets' check than the limit, so no more are ever reported.
FindingsLimitRespected == MaxFindings > 0 => Admitted <= MaxFindings

\* Every slot the counter hands out is used and none twice: nothing is lost
\* between findingsCounter.Add and the report's total.
SlotsAccounted == Admitted = IF LimitReached THEN MaxFindings ELSE findingsCounter

\* Nobody can still send on a channel that is closed, nor submit to the closed
\* queue: a worker that did would panic, and the pool would swallow the panic
\* together with the rest of the file's findings.
NoSendAfterClose ==
    /\ closed["items"] => unsent = {}
    /\ queueClosed => pc["processItems"] \in {"wait", "closeSecrets", "done"} /\ buf["items"] = <<>>
    /\ closed["secrets"] => PoolDrained
    /\ closed["extras"] => pc["processSecrets"] \in {"closeEvaluation", "done"}
    /\ closed["evaluation"] => pc["processSecrets"] = "done"

\* The order in which the scan shuts down, stage by stage: each stage ends only
\* when what feeds it is closed and empty.
ShutdownOrder ==
    /\ NoSendAfterClose
    /\ pc["processItems"] \in {"wait", "closeSecrets", "done"} => queueClosed
    /\ pc["processItems"] \in {"closeQueue", "wait", "closeSecrets", "done"} =>
          closed["items"] /\ buf["items"] = <<>>
    /\ pc["processItems"] \in {"closeSecrets", "done"} => PoolDrained
    /\ closed["secrets"] => pc["processItems"] = "done"
    /\ pc["processSecrets"] \in {"closeExtras", "closeEvaluation", "done"} =>
          closed["secrets"] /\ buf["secrets"] = <<>>
    /\ pc["processExtras"] = "done" => closed["extras"] /\ buf["extras"] = <<>>
    /\ pc["processEvaluation"] \in {"validate", "done"} =>
          closed["evaluation"] /\ buf["evaluation"] = <<>>
    /\ caller = "returned" => \A g \in Goroutines : pc[g] = "done"

Reported == UNION {Range(results[id]) : id \in IDs}

\* When Wait returns, every reported secret has its extras and its score, and
\* its validation when that is on: the report is read without a lock.
ReportedSecretsAreComplete ==
    caller = "returned" =>
        /\ annotated = Reported /\ scored = Reported
        /\ registered = IF WithValidation THEN Reported ELSE {}

\* When Wait returns, the two totals of the report are those of its contents
\* and of the plugin's items.
TotalsMatchResults ==
    caller = "returned" =>
        /\ totalItems = Cardinality(Items)
        /\ totalSecrets = Cardinality({o \in IDs \X (1..totalSecrets + 1) :
                                         o[2] \in DOMAIN results[o[1]]})

\* No path of DetectFile keeps the memory it acquired, and nobody is left in
\* the semaphore's queue, once the pool is idle.
MemoryReturned == PoolDrained => memFree = MemoryBudget /\ memWaiters = <<>>

\* The scan ends: no cycle of full channels, memory waiters and closed queues.
ScanCompletes == <>(caller = "returned")

\* what detectSecrets would report of one item, in order, up to the first
\* finding it cannot build
EligibleIn(i) ==
    LET At == UNION {{k} \X DOMAIN Fragments[i][k] : k \in DOMAIN Fragments[i]}
        Before(o, n) == o[1] < n[1] \/ (o[1] = n[1] /\ o[2] < n[2])
        Found(o) == Fragments[i][o[1]][o[2]]
    IN  {Found(n) : n \in {n \in At : /\ Found(n) \notin Ignored \cup Unbuildable
                                      /\ \A o \in At : Before(o, n) => Found(o) \notin Unbuildable}}

Eligible == UNION {EligibleIn(i) : i \in IF FromFiles
                                           THEN {i \in Items \ Unreadable : Weight[i] <= MemoryBudget}
                                           ELSE Items}

\* The pipeline implements ScanReport: each eligible finding is reported once,
\* up to the limit, none is lost between the goroutines, and nothing is added
\* after Wait has returned.
Report == INSTANCE ScanReport WITH
              Reportable <- Eligible, Limit <- MaxFindings,
              reported <- Reported, published <- caller = "returned"

ImplementsScanReport == Report!Spec
=============================================================================
