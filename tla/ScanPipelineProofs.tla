------------------------- MODULE ScanPipelineProofs -------------------------
(* Proofs about ScanPipeline, for every number of items, workers and       *)
(* findings, every channel capacity and every limit.                       *)
EXTENDS ScanPipeline, FiniteSetTheorems, TLAPS

USE DEF Channels, Goroutines, ItemsStates, SecretsStates, ExtrasStates, EvaluationStates

-----------------------------------------------------------------------------
(* Types.                                                                  *)

LEMMA TypeInit == Init => TypeOK
  <1> SUFFICES ASSUME Init PROVE TypeOK
    OBVIOUS
  <1> USE PipelineAssumption DEF PipelineAssumption, Init
  <1>1. ChannelTypes
    BY DEF ChannelTypes
  <1>2. GoroutineTypes
    BY DEF GoroutineTypes
  <1>3. WorkerTypes
    BY DEF WorkerTypes, WorkerStates
  <1>4. ResourceTypes
    <2>1. MemoryBudget \in Nat /\ <<>> \in Seq(Items) /\ <<>> \in Seq(Workers)
      OBVIOUS
    <2> QED
      BY <2>1 DEF ResourceTypes
  <1>5. ReportTypes
    BY DEF ReportTypes
  <1> QED
    BY <1>1, <1>2, <1>3, <1>4, <1>5 DEF TypeOK

LEMMA PluginTypes == TypeOK /\ Plugin => TypeOK'
  <1> SUFFICES ASSUME TypeOK, Plugin PROVE TypeOK'
    OBVIOUS
  <1> USE DEF TypeOK
  <1>1. (unsent \subseteq Items)' /\ ChannelTypes'
    <2>1. CASE CloseItems
      BY <2>1 DEF ChannelTypes, ReportTypes, CloseItems
    <2>2. ASSUME NEW i \in Items, SendItem(i) PROVE (unsent \subseteq Items)' /\ ChannelTypes'
      BY <2>2 DEF ChannelTypes, ReportTypes, SendItem, Push
    <2> QED
      BY <2>1, <2>2 DEF Plugin
  <1>2. GoroutineTypes' /\ WorkerTypes' /\ ResourceTypes'
    BY DEF GoroutineTypes, WorkerTypes, ResourceTypes, Matches, Plugin, goVars, poolVars,
           workerVars, memVars
  <1>3. ReportTypes'
    BY <1>1 DEF ReportTypes, Plugin, reportVars, secretVars
  <1> QED
    BY <1>1, <1>2, <1>3

LEMMA ProcessItemsTypes == TypeOK /\ ProcessItems => TypeOK'
  <1> SUFFICES ASSUME TypeOK, ProcessItems PROVE TypeOK'
    OBVIOUS
  <1> USE DEF TypeOK
  <1>1. WorkerTypes'
    BY DEF WorkerTypes, Matches, ProcessItems, workerVars
  <1>2. /\ (memFree \in Nat)' /\ (memWaiters \in Seq(Workers))' /\ (findingsCounter \in Nat)'
        /\ UNCHANGED <<unsent, annotated, registered, scored, caller>>
    BY DEF ResourceTypes, ProcessItems, memVars, secretVars
  <1> USE DEF ChannelTypes, GoroutineTypes, ResourceTypes, ReportTypes, Goto
  <1>3. CASE ReceiveItem
    BY <1>1, <1>2, <1>3 DEF ReceiveItem, Receive, poolVars
  <1>4. CASE SubmitTask
    BY <1>1, <1>2, <1>4 DEF SubmitTask, LetGo, chanVars, reportVars
  <1>5. CASE ItemsDrained
    BY <1>1, <1>2, <1>5 DEF ItemsDrained, Drained, chanVars, poolVars, reportVars
  <1>6. CASE CloseQueue
    BY <1>1, <1>2, <1>6 DEF CloseQueue, chanVars, reportVars
  <1>7. CASE WaitForPool
    BY <1>1, <1>2, <1>7 DEF WaitForPool, chanVars, poolVars, reportVars
  <1>8. CASE CloseSecrets
    BY <1>1, <1>2, <1>8 DEF CloseSecrets, Close, poolVars, reportVars
  <1> QED
    BY <1>3, <1>4, <1>5, <1>6, <1>7, <1>8 DEF ProcessItems

\* What the type correctness of a worker's step needs of the worker itself.
LEMMA WorkerTypesStep ==
  ASSUME TypeOK, NEW w \in Workers, Worker(w) PROVE WorkerTypes'
  <1> USE DEF TypeOK, WorkerTypes, WorkerStates, Matches, Step, NextFragment, NextMatch
  <1>0. Fragments \in [Items -> Seq(Seq(Findings))]
    BY PipelineAssumption DEF PipelineAssumption
  <1>1. CASE TakeTask(w)
    BY <1>1 DEF TakeTask, ResourceTypes
  <1>2. CASE SkipFile(w)
    BY <1>2 DEF SkipFile, Return
  <1>3. CASE AcquireMemory(w)
    BY <1>3 DEF AcquireMemory, TakeMemory, WantsMemory
  <1>4. CASE QueueForMemory(w)
    BY <1>4 DEF QueueForMemory, WantsMemory
  <1>5. CASE GrantMemory(w)
    BY <1>5 DEF GrantMemory, TakeMemory
  <1>6. CASE StartFragment(w)
    <2>1. CASE NextFragment(w) /\ UNCHANGED pos
      BY <1>6, <2>1 DEF StartFragment
    <2>2. CASE pos' = [pos EXCEPT ![w] = 1] /\ Step(w, "emit") /\ UNCHANGED frag
      BY <1>6, <2>2 DEF StartFragment
    <2> QED
      BY <1>6, <2>1, <2>2 DEF StartFragment
  <1>7. CASE EndFragment(w)
    BY <1>7 DEF EndFragment
  <1>8. CASE BuildFails(w)
    BY <1>0, <1>8 DEF BuildFails, AtMatch
  <1>9. CASE IgnoreMatch(w)
    BY <1>9 DEF IgnoreMatch, AtMatch
  <1>10. CASE CountMatch(w)
    <2>1. CASE NextFragment(w)
      BY <1>10, <2>1 DEF CountMatch, AtMatch
    <2>2. CASE Step(w, "send") /\ UNCHANGED frag
      BY <1>10, <2>2 DEF CountMatch, AtMatch
    <2> QED
      BY <1>10, <2>1, <2>2 DEF CountMatch
  <1>11. CASE SendSecret(w)
    BY <1>11 DEF SendSecret
  <1>12. CASE FinishTask(w)
    BY <1>12 DEF FinishTask, Return
  <1> QED
    BY <1>1, <1>2, <1>3, <1>4, <1>5, <1>6, <1>7, <1>8, <1>9, <1>10, <1>11, <1>12 DEF Worker

LEMMA WorkerStepTypes == ASSUME TypeOK, NEW w \in Workers, Worker(w) PROVE TypeOK'
  <1> USE DEF TypeOK
  <1>1. WorkerTypes'
    BY WorkerTypesStep
  <1>2. GoroutineTypes' /\ ReportTypes'
    BY DEF GoroutineTypes, ReportTypes, Worker, goVars, reportVars, secretVars
  <1>3. ChannelTypes'
    <2>1. CASE SendSecret(w)
      <3>1. Matches(w)[pos[w]] \in Findings
        BY <2>1, PipelineAssumption DEF SendSecret, WorkerTypes, Matches, PipelineAssumption
      <3> QED
        BY <2>1, <3>1 DEF SendSecret, Push, ChannelTypes
    <2>2. CASE ~SendSecret(w)
      <3>1. UNCHANGED chanVars
        BY <2>2 DEF Worker, TakeTask, SkipFile, AcquireMemory, TakeMemory, QueueForMemory,
                    GrantMemory, StartFragment, EndFragment, BuildFails, IgnoreMatch,
                    CountMatch, FinishTask
      <3> QED
        BY <3>1 DEF chanVars, ChannelTypes
    <2> QED
      BY <2>1, <2>2
  <1>4. (queue \in Seq(Items))' /\ (queueClosed \in BOOLEAN)' /\ (findingsCounter \in Nat)'
    <2> USE DEF ResourceTypes, Worker
    <2>1. CASE TakeTask(w)
      BY <2>1 DEF TakeTask
    <2>2. CASE CountMatch(w)
      BY <2>2 DEF CountMatch
    <2>3. CASE ~TakeTask(w) /\ ~CountMatch(w)
      BY <2>3 DEF SkipFile, AcquireMemory, TakeMemory, QueueForMemory, GrantMemory, StartFragment,
                  EndFragment, BuildFails, IgnoreMatch, SendSecret, FinishTask
    <2> QED
      BY <2>1, <2>2, <2>3
  <1>5. (memFree \in Nat)' /\ (memWaiters \in Seq(Workers))'
    <2> USE PipelineAssumption DEF ResourceTypes, WorkerTypes, memVars
    <2>0. wpc[w] # "idle" => Weight[job[w]] \in Nat
      BY DEF PipelineAssumption
    <2>1. CASE AcquireMemory(w)
      BY <2>0, <2>1 DEF AcquireMemory, WantsMemory, TakeMemory
    <2>2. CASE QueueForMemory(w)
      BY <2>2 DEF QueueForMemory
    <2>3. CASE GrantMemory(w)
      BY <2>0, <2>3 DEF GrantMemory, TakeMemory
    <2>4. CASE FinishTask(w)
      BY <2>0, <2>4 DEF FinishTask
    <2>5. CASE UNCHANGED memVars
      BY <2>5
    <2> QED
      BY <2>1, <2>2, <2>3, <2>4, <2>5
         DEF Worker, TakeTask, SkipFile, StartFragment, EndFragment, BuildFails, IgnoreMatch,
             CountMatch, SendSecret
  <1> QED
    BY <1>1, <1>2, <1>3, <1>4, <1>5 DEF ResourceTypes

LEMMA ProcessSecretsTypes == ASSUME TypeOK, ProcessSecrets PROVE TypeOK'
  <1> USE DEF TypeOK
  <1>1. WorkerTypes' /\ ResourceTypes'
    BY DEF WorkerTypes, Matches, ResourceTypes, ProcessSecrets, workerVars, poolVars, memVars
  <1>2. UNCHANGED <<unsent, totalItems, annotated, registered, scored, caller>>
    BY DEF ProcessSecrets, secretVars
  <1> USE DEF ChannelTypes, GoroutineTypes, ReportTypes, Goto
  <1>3. CASE ReceiveSecret
    BY <1>1, <1>2, <1>3 DEF ReceiveSecret, Receive
  <1>4. CASE SendToExtras
    BY <1>1, <1>2, <1>4 DEF SendToExtras, Send, Push
  <1>5. CASE SendToEvaluation
    BY <1>1, <1>2, <1>5 DEF SendToEvaluation, Send, Push
  <1>6. CASE AppendResult
    BY <1>1, <1>2, <1>6, PipelineAssumption, SMTT(30) DEF AppendResult, LetGo, chanVars, PipelineAssumption
  <1>7. CASE SecretsDrained
    BY <1>1, <1>2, <1>7 DEF SecretsDrained, Drained, chanVars
  <1>8. CASE CloseExtras
    BY <1>1, <1>2, <1>8 DEF CloseExtras, Close
  <1>9. CASE CloseEvaluation
    BY <1>1, <1>2, <1>9 DEF CloseEvaluation, Close
  <1> QED
    BY <1>3, <1>4, <1>5, <1>6, <1>7, <1>8, <1>9 DEF ProcessSecrets

LEMMA ExtrasAndEvaluationTypes ==
  ASSUME TypeOK, ProcessExtras \/ ProcessEvaluation PROVE TypeOK'
  <1> USE DEF TypeOK
  <1>1. /\ WorkerTypes' /\ ResourceTypes'
        /\ UNCHANGED <<unsent, totalItems, totalSecrets, results, caller>>
    BY DEF WorkerTypes, Matches, ResourceTypes, ProcessExtras, ProcessEvaluation,
           OnlySecretsChange, workerVars, poolVars, memVars, reportVars
  <1> USE DEF ChannelTypes, GoroutineTypes, ReportTypes, Goto, secretVars
  <1>2. CASE ReceiveForExtras
    BY <1>1, <1>2 DEF ReceiveForExtras, Receive
  <1>3. CASE AddExtras
    BY <1>1, <1>3 DEF AddExtras, LetGo, chanVars
  <1>4. CASE ExtrasDrained
    BY <1>1, <1>4 DEF ExtrasDrained, Drained, chanVars
  <1>5. CASE ReceiveForEvaluation
    BY <1>1, <1>5 DEF ReceiveForEvaluation, Receive
  <1>6. CASE RegisterForValidation
    BY <1>1, <1>6 DEF RegisterForValidation, chanVars
  <1>7. CASE AssignScoreAndSeverity
    BY <1>1, <1>7 DEF AssignScoreAndSeverity, LetGo, chanVars
  <1>8. CASE EvaluationDrained
    BY <1>1, <1>8 DEF EvaluationDrained, Drained, chanVars
  <1>9. CASE ValidatePairs
    BY <1>1, <1>9 DEF ValidatePairs, chanVars
  <1> QED
    BY <1>2, <1>3, <1>4, <1>5, <1>6, <1>7, <1>8, <1>9 DEF ProcessExtras, ProcessEvaluation

\* Whatever the interleaving, every variable keeps its type: no goroutine uses
\* a value it does not hold, no worker reads past the fragments or the matches
\* of its item, and the semaphore never hands out more than it has.
THEOREM TypeCorrect == Spec => []TypeOK
  <1>1. TypeOK /\ [Next]_vars => TypeOK'
    <2> SUFFICES ASSUME TypeOK, [Next]_vars PROVE TypeOK'
      OBVIOUS
    <2>1. CASE UNCHANGED vars
      BY <2>1 DEF vars, chanVars, goVars, poolVars, workerVars, memVars, reportVars, secretVars,
                  TypeOK, ChannelTypes, GoroutineTypes, WorkerTypes, Matches, ResourceTypes, ReportTypes
    <2>2. CASE WaitReturns
      BY <2>2 DEF WaitReturns, chanVars, goVars, poolVars, workerVars, memVars, reportVars, secretVars,
                  TypeOK, ChannelTypes, GoroutineTypes, WorkerTypes, Matches, ResourceTypes, ReportTypes
    <2> QED
      BY <2>1, <2>2, PluginTypes, ProcessItemsTypes, WorkerStepTypes, ProcessSecretsTypes,
         ExtrasAndEvaluationTypes DEF Next, Terminated
  <1> QED
    BY <1>1, TypeInit, PTL DEF Spec, Safety

-----------------------------------------------------------------------------
(* The findings limit.                                                     *)

LEMMA SendersFinite == ASSUME TypeOK PROVE IsFiniteSet(Senders) /\ Cardinality(Senders) \in Nat
  BY PipelineAssumption, FS_Subset, FS_CardinalityType DEF PipelineAssumption, Senders

\* A step that neither counts nor sends nor receives a finding.
LEMMA SlotsUnchanged ==
  ASSUME SlotsAccounted, Senders' = Senders, Len(buf["secrets"])' = Len(buf["secrets"]),
         UNCHANGED <<findingsCounter, totalSecrets>>
  PROVE  SlotsAccounted'
  BY DEF SlotsAccounted, Admitted, LimitReached

LEMMA CountKeepsSlots ==
  ASSUME TypeOK, SlotsAccounted, NEW w \in Workers, CountMatch(w), UNCHANGED totalSecrets
  PROVE  SlotsAccounted'
  <1> DEFINE old == Cardinality(Senders)
  <1>1. /\ findingsCounter \in Nat /\ totalSecrets \in Nat /\ Len(buf["secrets"]) \in Nat
        /\ MaxFindings \in Nat /\ old \in Nat /\ IsFiniteSet(Senders)
        /\ Len(buf["secrets"])' = Len(buf["secrets"]) /\ findingsCounter' = findingsCounter + 1
    BY PipelineAssumption, SendersFinite
       DEF PipelineAssumption, TypeOK, ResourceTypes, ReportTypes, ChannelTypes, CountMatch, chanVars
  <1>2. w \notin Senders /\ wpc \in [Workers -> WorkerStates]
    BY DEF CountMatch, AtMatch, Senders, TypeOK, WorkerTypes
  <1>3. CASE MaxFindings > 0 /\ findingsCounter' > MaxFindings
    <2>1. Senders' = Senders
      BY <1>2, <1>3 DEF CountMatch, NextFragment, Step, Senders
    <2> QED
      BY <1>1, <1>3, <2>1 DEF SlotsAccounted, Admitted, LimitReached
  <1>4. CASE ~(MaxFindings > 0 /\ findingsCounter' > MaxFindings)
    <2>1. Senders' = Senders \cup {w}
      BY <1>2, <1>4 DEF CountMatch, Step, Senders
    <2>2. Cardinality(Senders)' = old + 1
      BY <1>1, <1>2, <2>1, FS_AddElement
    <2> QED
      BY <1>1, <1>4, <2>2 DEF SlotsAccounted, Admitted, LimitReached
  <1> QED
    BY <1>3, <1>4

LEMMA SendKeepsSlots ==
  ASSUME TypeOK, SlotsAccounted, NEW w \in Workers, SendSecret(w), UNCHANGED totalSecrets
  PROVE  SlotsAccounted'
  <1>1. Len(buf["secrets"])' = Len(buf["secrets"]) + 1
    BY DEF SendSecret, Push, TypeOK, ChannelTypes
  <1>2. w \in Senders /\ Senders' = Senders \ {w}
    BY DEF SendSecret, NextMatch, Step, Senders, TypeOK, WorkerTypes
  <1>3. Cardinality(Senders)' = Cardinality(Senders) - 1
    BY <1>2, SendersFinite, FS_RemoveElement
  <1>4. totalSecrets \in Nat /\ Len(buf["secrets"]) \in Nat /\ UNCHANGED <<findingsCounter, totalSecrets>>
    BY DEF SendSecret, TypeOK, ReportTypes, ChannelTypes
  <1> QED
    BY <1>1, <1>3, <1>4, SendersFinite DEF SlotsAccounted, Admitted, LimitReached

LEMMA WorkerKeepsSlots ==
  ASSUME TypeOK, SlotsAccounted, NEW w \in Workers, Worker(w) PROVE SlotsAccounted'
  <1>1. UNCHANGED totalSecrets
    BY DEF Worker, reportVars
  <1>2. CASE CountMatch(w) \/ SendSecret(w)
    BY <1>1, <1>2, CountKeepsSlots, SendKeepsSlots
  <1>3. CASE ~CountMatch(w) /\ ~SendSecret(w)
    <2>1. UNCHANGED <<findingsCounter, buf>>
      BY <1>3 DEF Worker, TakeTask, SkipFile, AcquireMemory, TakeMemory, QueueForMemory, GrantMemory,
                  StartFragment, EndFragment, BuildFails, IgnoreMatch, FinishTask, chanVars
    <2>2. \E state \in WorkerStates \ {"send"} : wpc' = [wpc EXCEPT ![w] = state] /\ wpc[w] # "send"
      BY <1>3 DEF Worker, TakeTask, SkipFile, AcquireMemory, TakeMemory, WantsMemory, QueueForMemory,
                  GrantMemory, StartFragment, EndFragment, BuildFails, IgnoreMatch, FinishTask,
                  AtMatch, Step, Return, NextFragment, NextMatch, WorkerStates
    <2>3. Senders' = Senders
      BY <2>2 DEF Senders, TypeOK, WorkerTypes
    <2> QED
      BY <1>1, <2>1, <2>3, SlotsUnchanged
  <1> QED
    BY <1>2, <1>3

LEMMA ReceiveKeepsSlots == ASSUME TypeOK, SlotsAccounted, ReceiveSecret, UNCHANGED <<findingsCounter, wpc>>
                           PROVE  SlotsAccounted'
  <1>1. Len(buf["secrets"])' = Len(buf["secrets"]) - 1 /\ totalSecrets' = totalSecrets + 1
    BY DEF ReceiveSecret, Receive, TypeOK, ChannelTypes
  <1>2. totalSecrets \in Nat /\ Len(buf["secrets"]) \in Nat
    BY DEF TypeOK, ReportTypes, ChannelTypes
  <1>3. Senders' = Senders
    BY DEF Senders
  <1>4. Cardinality(Senders)' = Cardinality(Senders) /\ Cardinality(Senders) \in Nat
    BY <1>3, SendersFinite
  <1>5. Admitted' = Admitted
    <2>1. \A t, l, c \in Nat : (t + 1) + (l - 1) + c = t + l + c
      OBVIOUS
    <2>2. Admitted' = (totalSecrets + 1) + (Len(buf["secrets"]) - 1) + Cardinality(Senders)
      BY <1>1, <1>4 DEF Admitted
    <2> QED
      BY <1>2, <1>4, <2>1, <2>2 DEF Admitted
  <1> QED
    BY <1>5 DEF SlotsAccounted, LimitReached

\* The slots of the findings counter are accounted for in every reachable state.
THEOREM SlotsAreAccounted == Spec => []SlotsAccounted
  <1>1. Init => SlotsAccounted
    <2> SUFFICES ASSUME Init PROVE SlotsAccounted
      OBVIOUS
    <2>1. Senders = {}
      BY DEF Init, Senders
    <2>2. Admitted = 0 /\ findingsCounter = 0
      BY <2>1, FS_EmptySet DEF Init, Admitted
    <2> QED
      BY <2>2, PipelineAssumption DEF PipelineAssumption, SlotsAccounted, LimitReached
  <1>2. TypeOK /\ SlotsAccounted /\ [Next]_vars => SlotsAccounted'
    <2> SUFFICES ASSUME TypeOK, SlotsAccounted, [Next]_vars PROVE SlotsAccounted'
      OBVIOUS
    <2>1. CASE \E w \in Workers : Worker(w)
      BY <2>1, WorkerKeepsSlots
    <2>2. CASE ProcessSecrets /\ ReceiveSecret
      BY <2>2, ReceiveKeepsSlots DEF ProcessSecrets, workerVars
    <2>3. CASE ProcessSecrets /\ ~ReceiveSecret
      <3>1. UNCHANGED <<findingsCounter, totalSecrets>> /\ Senders' = Senders
        BY <2>3 DEF ProcessSecrets, SendToExtras, SendToEvaluation, AppendResult, SecretsDrained,
                    CloseExtras, CloseEvaluation, workerVars, Senders
      <3>2. buf["secrets"]' = buf["secrets"]
        BY <2>3 DEF ProcessSecrets, SendToExtras, SendToEvaluation, AppendResult, SecretsDrained,
                    CloseExtras, CloseEvaluation, Send, Push, Drained, Close, chanVars,
                    TypeOK, ChannelTypes
      <3> QED
        BY <3>1, <3>2, SlotsUnchanged
    <2>4. CASE Plugin \/ ProcessItems \/ ProcessExtras \/ ProcessEvaluation
      <3>1. UNCHANGED <<findingsCounter, totalSecrets>> /\ Senders' = Senders
        BY <2>4 DEF Plugin, ProcessItems, ProcessExtras, ProcessEvaluation, OnlySecretsChange,
                    ReceiveItem, SubmitTask, ItemsDrained, CloseQueue, WaitForPool, CloseSecrets,
                    reportVars, workerVars, Senders
      <3>2. buf["secrets"]' = buf["secrets"]
        BY <2>4 DEF Plugin, CloseItems, SendItem, ProcessItems, ReceiveItem, SubmitTask, ItemsDrained,
                    CloseQueue, WaitForPool, CloseSecrets, ProcessExtras, ReceiveForExtras, AddExtras,
                    ExtrasDrained, ProcessEvaluation, ReceiveForEvaluation, RegisterForValidation,
                    AssignScoreAndSeverity, EvaluationDrained, ValidatePairs,
                    Receive, Push, Drained, Close, chanVars, TypeOK, ChannelTypes
      <3> QED
        BY <3>1, <3>2, SlotsUnchanged
    <2>5. CASE WaitReturns \/ Terminated \/ UNCHANGED vars
      <3>1. UNCHANGED <<findingsCounter, totalSecrets, buf>> /\ Senders' = Senders
        BY <2>5 DEF WaitReturns, Terminated, vars, chanVars, reportVars, workerVars, Senders
      <3> QED
        BY <3>1, SlotsUnchanged
    <2> QED
      BY <2>1, <2>2, <2>3, <2>4, <2>5 DEF Next
  <1> QED
    BY <1>1, <1>2, TypeCorrect, PTL DEF Spec, Safety

\* --max-findings holds for every number of workers, items and findings, every
\* channel capacity and every interleaving of the workers' atomic additions.
THEOREM LimitRespected == Spec => []FindingsLimitRespected
  <1>1. TypeOK /\ SlotsAccounted => FindingsLimitRespected
    BY PipelineAssumption
       DEF PipelineAssumption, SlotsAccounted, FindingsLimitRespected, LimitReached, TypeOK, ResourceTypes
  <1> QED
    BY <1>1, TypeCorrect, SlotsAreAccounted, PTL

-----------------------------------------------------------------------------
(* Shutting down.                                                          *)

LEMMA ShutdownInit == Init => ShutdownOrder
  BY DEF Init, ShutdownOrder, NoSendAfterClose

LEMMA PluginShutdown == ASSUME TypeOK, ShutdownOrder, Plugin PROVE ShutdownOrder'
  <1> USE DEF TypeOK, ChannelTypes, ShutdownOrder, NoSendAfterClose, PoolDrained, Plugin, goVars,
              poolVars, workerVars
  <1>1. CASE CloseItems
    BY <1>1 DEF CloseItems
  <1>2. ASSUME NEW i \in Items, SendItem(i) PROVE ShutdownOrder'
    <2>1. ~closed["items"] /\ i \in unsent
      BY <1>2 DEF SendItem
    <2> QED
      BY <1>2, <2>1 DEF SendItem, Push
  <1> QED
    BY <1>1, <1>2

LEMMA ProcessItemsShutdown == ASSUME TypeOK, ShutdownOrder, ProcessItems PROVE ShutdownOrder'
  <1> USE DEF TypeOK, ChannelTypes, GoroutineTypes, ShutdownOrder, NoSendAfterClose, PoolDrained,
              ProcessItems, workerVars, Goto
  <1>1. CASE ReceiveItem
    BY <1>1 DEF ReceiveItem, Receive, poolVars
  <1>2. CASE SubmitTask
    BY <1>2 DEF SubmitTask, LetGo, chanVars
  <1>3. CASE ItemsDrained
    BY <1>3 DEF ItemsDrained, Drained, chanVars, poolVars
  <1>4. CASE CloseQueue
    BY <1>4 DEF CloseQueue, chanVars
  <1>5. CASE WaitForPool
    BY <1>5 DEF WaitForPool, chanVars, poolVars
  <1>6. CASE CloseSecrets
    BY <1>6 DEF CloseSecrets, Close, poolVars
  <1> QED
    BY <1>1, <1>2, <1>3, <1>4, <1>5, <1>6

\* A worker only runs while the pool is not drained, so it finds the secrets
\* channel open.
LEMMA WorkerShutdown ==
  ASSUME TypeOK, ShutdownOrder, NEW w \in Workers, Worker(w) PROVE ShutdownOrder'
  <1>1. ~PoolDrained
    BY DEF PoolDrained, Worker, TakeTask, SkipFile, AcquireMemory, WantsMemory, QueueForMemory,
           GrantMemory, StartFragment, EndFragment, BuildFails, IgnoreMatch, CountMatch, AtMatch,
           SendSecret, FinishTask
  <1>2. ~closed["secrets"] /\ pc["processItems"] \notin {"closeSecrets", "done"}
    BY <1>1 DEF ShutdownOrder, NoSendAfterClose
  <1>3. UNCHANGED <<unsent, closed, pc, queueClosed, caller>>
    BY DEF Worker, goVars, chanVars, TakeTask, SkipFile, AcquireMemory, TakeMemory, QueueForMemory,
           GrantMemory, StartFragment, EndFragment, BuildFails, IgnoreMatch, CountMatch, SendSecret,
           FinishTask
  <1>4. \A c \in Channels \ {"secrets"} : buf[c]' = buf[c]
    BY DEF Worker, chanVars, TakeTask, SkipFile, AcquireMemory, TakeMemory, QueueForMemory,
           GrantMemory, StartFragment, EndFragment, BuildFails, IgnoreMatch, CountMatch, SendSecret,
           Push, FinishTask, TypeOK, ChannelTypes
  <1> QED
    BY <1>2, <1>3, <1>4 DEF ShutdownOrder, NoSendAfterClose

LEMMA ProcessSecretsShutdown == ASSUME TypeOK, ShutdownOrder, ProcessSecrets PROVE ShutdownOrder'
  <1> USE DEF TypeOK, ChannelTypes, GoroutineTypes, ShutdownOrder, NoSendAfterClose, PoolDrained,
              ProcessSecrets, workerVars, poolVars, Goto
  <1>1. CASE ReceiveSecret
    BY <1>1 DEF ReceiveSecret, Receive
  <1>2. CASE SendToExtras
    BY <1>2 DEF SendToExtras, Send, Push
  <1>3. CASE SendToEvaluation
    BY <1>3 DEF SendToEvaluation, Send, Push
  <1>4. CASE AppendResult
    BY <1>4 DEF AppendResult, LetGo, chanVars
  <1>5. CASE SecretsDrained
    BY <1>5 DEF SecretsDrained, Drained, chanVars
  <1>6. CASE CloseExtras
    BY <1>6 DEF CloseExtras, Close
  <1>7. CASE CloseEvaluation
    BY <1>7 DEF CloseEvaluation, Close
  <1> QED
    BY <1>1, <1>2, <1>3, <1>4, <1>5, <1>6, <1>7

LEMMA SinksShutdown ==
  ASSUME TypeOK, ShutdownOrder, ProcessExtras \/ ProcessEvaluation PROVE ShutdownOrder'
  <1> USE DEF TypeOK, ChannelTypes, GoroutineTypes, ShutdownOrder, NoSendAfterClose, PoolDrained, Goto
  <1>0. UNCHANGED <<unsent, queue, queueClosed, wpc, caller>>
    BY DEF ProcessExtras, ProcessEvaluation, OnlySecretsChange, poolVars, workerVars
  <1>1. CASE ReceiveForExtras
    BY <1>0, <1>1 DEF ReceiveForExtras, Receive
  <1>2. CASE AddExtras
    BY <1>0, <1>2 DEF AddExtras, LetGo, chanVars
  <1>3. CASE ExtrasDrained
    BY <1>0, <1>3 DEF ExtrasDrained, Drained, chanVars
  <1>4. CASE ReceiveForEvaluation
    BY <1>0, <1>4 DEF ReceiveForEvaluation, Receive
  <1>5. CASE RegisterForValidation
    BY <1>0, <1>5 DEF RegisterForValidation, chanVars
  <1>6. CASE AssignScoreAndSeverity
    BY <1>0, <1>6 DEF AssignScoreAndSeverity, LetGo, chanVars
  <1>7. CASE EvaluationDrained
    BY <1>0, <1>7 DEF EvaluationDrained, Drained, chanVars
  <1>8. CASE ValidatePairs
    BY <1>0, <1>8 DEF ValidatePairs, chanVars
  <1> QED
    BY <1>1, <1>2, <1>3, <1>4, <1>5, <1>6, <1>7, <1>8 DEF ProcessExtras, ProcessEvaluation

\* The stages end in order for every instance: a channel is closed only when
\* its senders are done, and a stage ends only when its input is used up.
THEOREM ShutdownInOrder == Spec => []ShutdownOrder
  <1>1. TypeOK /\ ShutdownOrder /\ [Next]_vars => ShutdownOrder'
    <2> SUFFICES ASSUME TypeOK, ShutdownOrder, [Next]_vars PROVE ShutdownOrder'
      OBVIOUS
    <2>1. CASE WaitReturns
      BY <2>1 DEF WaitReturns, chanVars, goVars, poolVars, workerVars, ShutdownOrder, NoSendAfterClose,
                  PoolDrained
    <2>2. CASE UNCHANGED vars
      BY <2>2 DEF vars, chanVars, goVars, poolVars, workerVars, ShutdownOrder, NoSendAfterClose,
                  PoolDrained
    <2> QED
      BY <2>1, <2>2, PluginShutdown, ProcessItemsShutdown, WorkerShutdown, ProcessSecretsShutdown,
         SinksShutdown DEF Next, Terminated
  <1> QED
    BY <1>1, ShutdownInit, TypeCorrect, PTL DEF Spec, Safety

\* When Wait returns, the report's total is the number of slots the findings
\* counter handed out: nothing is left in a channel or in a worker's hands.
THEOREM TotalIsExact ==
  Spec => [](caller = "returned" =>
               totalSecrets = IF LimitReached THEN MaxFindings ELSE findingsCounter)
  <1>1. ASSUME TypeOK, SlotsAccounted, ShutdownOrder, caller = "returned"
        PROVE  totalSecrets = IF LimitReached THEN MaxFindings ELSE findingsCounter
    <2>1. PoolDrained /\ buf["secrets"] = <<>>
      BY <1>1 DEF ShutdownOrder
    <2>2. Senders = {}
      BY <2>1 DEF PoolDrained, Senders
    <2>3. Admitted = totalSecrets
      BY <1>1, <2>1, <2>2, FS_EmptySet DEF Admitted, TypeOK, ReportTypes
    <2> QED
      BY <1>1, <2>3 DEF SlotsAccounted
  <1> QED
    BY <1>1, TypeCorrect, SlotsAreAccounted, ShutdownInOrder, PTL
-----------------------------------------------------------------------------
(* What a channel or a queue holds.                                        *)

NoDuplicates(s) == \A j, k \in DOMAIN s : s[j] = s[k] => j = k

LEMMA EmptyQueue == Range(<<>>) = {} /\ NoDuplicates(<<>>)
  BY DEF Range, NoDuplicates

LEMMA Enqueued ==
  ASSUME NEW S, NEW s \in Seq(S), NEW x \in S
  PROVE  /\ Range(Append(s, x)) = Range(s) \cup {x}
         /\ NoDuplicates(s) /\ x \notin Range(s) => NoDuplicates(Append(s, x))
  <1>1. /\ DOMAIN s = 1..Len(s) /\ Len(s) \in Nat
        /\ DOMAIN Append(s, x) = 1..(Len(s) + 1)
        /\ \A k \in 1..Len(s) : Append(s, x)[k] = s[k]
        /\ Append(s, x)[Len(s) + 1] = x
    OBVIOUS
  <1>2. 1..(Len(s) + 1) = (1..Len(s)) \cup {Len(s) + 1}
    BY <1>1
  <1>3. Range(Append(s, x)) = Range(s) \cup {x}
    BY <1>1, <1>2 DEF Range
  <1>4. NoDuplicates(s) /\ x \notin Range(s) => NoDuplicates(Append(s, x))
    BY <1>1, <1>2 DEF NoDuplicates, Range
  <1> QED
    BY <1>3, <1>4

LEMMA Dequeued ==
  ASSUME NEW S, NEW s \in Seq(S), s # <<>>
  PROVE  /\ Head(s) \in S /\ Tail(s) \in Seq(S) /\ Len(Tail(s)) = Len(s) - 1
         /\ Range(s) = Range(Tail(s)) \cup {Head(s)}
         /\ NoDuplicates(s) => NoDuplicates(Tail(s)) /\ Head(s) \notin Range(Tail(s))
  <1>1. /\ DOMAIN s = 1..Len(s) /\ Len(s) \in Nat /\ Len(s) > 0
        /\ DOMAIN Tail(s) = 1..(Len(s) - 1)
        /\ \A k \in 1..(Len(s) - 1) : Tail(s)[k] = s[k + 1]
        /\ Head(s) = s[1] /\ Head(s) \in S /\ Tail(s) \in Seq(S) /\ Len(Tail(s)) = Len(s) - 1
    OBVIOUS
  <1>2. \A k \in 1..Len(s) : k = 1 \/ k - 1 \in 1..(Len(s) - 1)
    BY <1>1
  <1>3. Range(s) = Range(Tail(s)) \cup {Head(s)}
    <2>1. ASSUME NEW x \in Range(s) PROVE x \in Range(Tail(s)) \cup {Head(s)}
      <3>1. PICK k \in 1..Len(s) : x = s[k]
        BY <1>1 DEF Range
      <3>2. CASE k = 1
        BY <1>1, <3>1, <3>2
      <3>3. CASE k # 1
        <4>1. k - 1 \in DOMAIN Tail(s) /\ Tail(s)[k - 1] = s[k]
          BY <1>1, <1>2, <3>3
        <4> QED
          BY <3>1, <4>1 DEF Range
      <3> QED
        BY <3>2, <3>3
    <2>2. Range(Tail(s)) \cup {Head(s)} \subseteq Range(s)
      <3>1. \A k \in 1..(Len(s) - 1) : k + 1 \in 1..Len(s)
        BY <1>1
      <3>2. 1 \in 1..Len(s)
        BY <1>1
      <3> QED
        BY <1>1, <3>1, <3>2 DEF Range
    <2> QED
      BY <2>1, <2>2
  <1>4. NoDuplicates(s) => NoDuplicates(Tail(s)) /\ Head(s) \notin Range(Tail(s))
    BY <1>1 DEF NoDuplicates, Range
  <1> QED
    BY <1>1, <1>3, <1>4

-----------------------------------------------------------------------------
(* The memory of files.                                                    *)

\* workers that hold memory, and its units: their number is the sum of the weights
Holders == {w \in Workers : FromFiles /\ wpc[w] \in {"fragment", "emit", "send"}}
Held == UNION {{w} \X (1..Weight[job[w]]) : w \in Holders}

\* The units that are free and the units that are held make up the budget, and
\* whoever is in the semaphore's queue waits for it, once.
MemoryAccounted ==
  /\ IsFiniteSet(Held) /\ memFree + Cardinality(Held) = MemoryBudget
  /\ \A k \in DOMAIN memWaiters : wpc[memWaiters[k]] = "waitMemory"
  /\ NoDuplicates(memWaiters)
  /\ ~FromFiles => \A w \in Workers : wpc[w] \notin {"open", "waitMemory"}

LEMMA Sums ==
  ASSUME NEW A, IsFiniteSet(A), NEW w, NEW n \in Nat, \A p \in A : p[1] # w
  PROVE  /\ IsFiniteSet(A \cup ({w} \X (1..n))) /\ Cardinality(A) \in Nat
         /\ Cardinality(A \cup ({w} \X (1..n))) = Cardinality(A) + n
  <1> DEFINE H == A \cup ({w} \X (1..n))
  <1>1. IsFiniteSet(1..n) /\ Cardinality(1..n) = n
    BY FS_Interval
  <1>2. IsFiniteSet({w}) /\ Cardinality({w}) = 1
    BY FS_Singleton
  <1>3. IsFiniteSet({w} \X (1..n)) /\ Cardinality({w} \X (1..n)) = 1 * n
    BY <1>1, <1>2, FS_Product
  <1>4. A \cap ({w} \X (1..n)) = {}
    OBVIOUS
  <1>5. Cardinality(A) \in Nat /\ Cardinality({}) = 0
    BY FS_CardinalityType, FS_EmptySet
  <1>6. Cardinality(H) = Cardinality(A) + Cardinality({w} \X (1..n)) - Cardinality({})
    BY <1>3, <1>4, FS_Union
  <1> QED
    BY <1>3, <1>5, <1>6, FS_Union

LEMMA TakeKeepsMemory ==
  ASSUME TypeOK, MemoryAccounted, NEW w \in Workers, TakeMemory(w), w \notin Holders,
         wpc[w] # "idle", FromFiles
  PROVE  IsFiniteSet(Held') /\ memFree' + Cardinality(Held') = MemoryBudget
  <1>1. Weight[job[w]] \in Nat
    BY PipelineAssumption DEF PipelineAssumption, TypeOK, WorkerTypes
  <1>2. Held' = Held \cup ({w} \X (1..Weight[job[w]])) /\ \A p \in Held : p[1] # w
    BY DEF Held, Holders, TakeMemory, Step, TypeOK, WorkerTypes
  <1>3. /\ IsFiniteSet(Held') /\ Cardinality(Held') = Cardinality(Held) + Weight[job[w]]
        /\ Cardinality(Held) \in Nat
    <2>1. IsFiniteSet(Held)
      BY DEF MemoryAccounted
    <2> HIDE DEF Held
    <2> QED
      BY <1>1, <1>2, <2>1, Sums
  <1> QED
    BY <1>1, <1>3 DEF MemoryAccounted, TakeMemory, TypeOK, ResourceTypes

LEMMA ReleaseKeepsMemory ==
  ASSUME TypeOK, MemoryAccounted, NEW w \in Workers, FinishTask(w), FromFiles
  PROVE  IsFiniteSet(Held') /\ memFree' + Cardinality(Held') = MemoryBudget
  <1>1. Weight[job[w]] \in Nat
    BY PipelineAssumption DEF PipelineAssumption, TypeOK, WorkerTypes, FinishTask
  <1>2. Holders' = Holders \ {w} /\ w \in Holders /\ \A v \in Holders' : job'[v] = job[v]
    BY DEF Holders, FinishTask, Return, Step, TypeOK, WorkerTypes
  <1>3. Held = Held' \cup ({w} \X (1..Weight[job[w]])) /\ \A p \in Held' : p[1] # w
    BY <1>2 DEF Held
  <1>4. IsFiniteSet(Held')
    BY <1>3, FS_Subset DEF MemoryAccounted
  <1>5. Cardinality(Held) = Cardinality(Held') + Weight[job[w]] /\ Cardinality(Held') \in Nat
    BY <1>1, <1>3, <1>4, Sums
  <1> QED
    BY <1>1, <1>4, <1>5 DEF MemoryAccounted, FinishTask, TypeOK, ResourceTypes

\* A step that neither takes nor releases memory.
LEMMA OthersKeepMemory ==
  ASSUME TypeOK, MemoryAccounted, NEW w \in Workers, Worker(w),
         ~AcquireMemory(w), ~GrantMemory(w), ~(FinishTask(w) /\ FromFiles)
  PROVE  IsFiniteSet(Held') /\ memFree' + Cardinality(Held') = MemoryBudget
  <1>1. memFree' = memFree
    BY DEF Worker, TakeTask, SkipFile, QueueForMemory, StartFragment, EndFragment, BuildFails,
           IgnoreMatch, CountMatch, SendSecret, FinishTask, memVars
  <1>2. Holders' = Holders /\ \A v \in Holders : job'[v] = job[v]
    <2> USE DEF Holders, TypeOK, WorkerTypes, Step, Return, NextFragment, NextMatch
    <2>1. CASE TakeTask(w) \/ SkipFile(w) \/ QueueForMemory(w) \/ FinishTask(w)
      BY <2>1 DEF TakeTask, SkipFile, QueueForMemory, WantsMemory, FinishTask
    <2>2. CASE StartFragment(w) \/ EndFragment(w) \/ BuildFails(w) \/ IgnoreMatch(w) \/ CountMatch(w)
               \/ SendSecret(w)
      <3>1. /\ wpc[w] \in {"fragment", "emit", "send"} /\ UNCHANGED job
            /\ \E state \in {"fragment", "emit", "send"} : wpc' = [wpc EXCEPT ![w] = state]
        BY <2>2 DEF StartFragment, EndFragment, BuildFails, IgnoreMatch, CountMatch, SendSecret, AtMatch
      <3> QED
        BY <3>1
    <2> QED
      BY <2>1, <2>2 DEF Worker
  <1>3. Held' = Held
    BY <1>2 DEF Held
  <1> QED
    BY <1>1, <1>3 DEF MemoryAccounted

LEMMA WorkerKeepsWaiters ==
  ASSUME TypeOK, MemoryAccounted, NEW w \in Workers, Worker(w)
  PROVE  /\ (\A k \in DOMAIN memWaiters : wpc[memWaiters[k]] = "waitMemory")'
         /\ NoDuplicates(memWaiters')
  <1> DEFINE InQueue(s) == \A x \in Range(s) : wpc[x] = "waitMemory"
  <1>0. memWaiters \in Seq(Workers) /\ InQueue(memWaiters) /\ wpc \in [Workers -> WorkerStates]
    BY DEF MemoryAccounted, TypeOK, ResourceTypes, WorkerTypes, Range
  <1>1. CASE QueueForMemory(w)
    <2>1. w \notin Range(memWaiters) /\ wpc' = [wpc EXCEPT ![w] = "waitMemory"]
      BY <1>0, <1>1 DEF QueueForMemory, WantsMemory, Step
    <2>2. Range(memWaiters') = Range(memWaiters) \cup {w} /\ NoDuplicates(memWaiters')
      BY <1>0, <1>1, <2>1, Enqueued DEF QueueForMemory, MemoryAccounted
    <2>3. \A x \in Range(memWaiters') : wpc'[x] = "waitMemory"
      BY <1>0, <2>1, <2>2
    <2> QED
      BY <2>2, <2>3 DEF Range
  <1>2. CASE GrantMemory(w)
    <2>1. memWaiters' = Tail(memWaiters) /\ wpc' = [wpc EXCEPT ![w] = "fragment"]
      BY <1>2 DEF GrantMemory, TakeMemory, Step
    <2>2. /\ Range(memWaiters) = Range(memWaiters') \cup {w} /\ NoDuplicates(memWaiters')
          /\ w \notin Range(memWaiters')
      BY <1>0, <1>2, <2>1, Dequeued DEF GrantMemory, MemoryAccounted
    <2>3. \A x \in Range(memWaiters') : wpc'[x] = "waitMemory"
      BY <1>0, <2>1, <2>2
    <2> QED
      BY <2>2, <2>3 DEF Range
  <1>3. CASE ~QueueForMemory(w) /\ ~GrantMemory(w)
    <2>1. UNCHANGED memWaiters /\ wpc[w] # "waitMemory" /\ \A v \in Workers \ {w} : wpc'[v] = wpc[v]
      BY <1>3, <1>0 DEF Worker, TakeTask, SkipFile, AcquireMemory, WantsMemory, TakeMemory,
         StartFragment, EndFragment, BuildFails, IgnoreMatch, CountMatch, AtMatch, SendSecret,
         FinishTask, Return, Step, NextFragment, NextMatch, memVars
    <2> QED
      BY <1>0, <2>1 DEF MemoryAccounted
  <1> QED
    BY <1>1, <1>2, <1>3

LEMMA WorkerKeepsMemory ==
  ASSUME TypeOK, MemoryAccounted, NEW w \in Workers, Worker(w) PROVE MemoryAccounted'
  <1>1. (~FromFiles => \A v \in Workers : wpc[v] \notin {"open", "waitMemory"})'
    BY DEF MemoryAccounted, TypeOK, WorkerTypes, Worker, TakeTask, SkipFile, AcquireMemory,
           WantsMemory, TakeMemory, QueueForMemory, GrantMemory,
           StartFragment, EndFragment, BuildFails, IgnoreMatch, CountMatch, SendSecret,
           FinishTask, Return, Step, NextFragment, NextMatch
  <1>2. IsFiniteSet(Held') /\ memFree' + Cardinality(Held') = MemoryBudget
    <2>1. CASE AcquireMemory(w) \/ GrantMemory(w)
      <3>1. wpc[w] \in {"open", "waitMemory"} /\ TakeMemory(w)
        BY <2>1 DEF AcquireMemory, GrantMemory, WantsMemory
      <3>2. w \notin Holders /\ FromFiles
        BY <3>1 DEF Holders, MemoryAccounted
      <3> QED
        BY <3>1, <3>2, TakeKeepsMemory
    <2> QED
      BY <2>1, ReleaseKeepsMemory, OthersKeepMemory
  <1> QED
    BY <1>1, <1>2, WorkerKeepsWaiters DEF MemoryAccounted

\* In every reachable state the semaphore's free units and those of the running
\* tasks make up the budget: no path of DetectFile keeps what it acquired, and
\* the memory is back once the pool is idle.
THEOREM MemoryIsReturned == Spec => []MemoryReturned
  <1>1. Init => MemoryAccounted
    <2> SUFFICES ASSUME Init PROVE MemoryAccounted
      OBVIOUS
    <2>1. Held = {} /\ memWaiters = <<>> /\ memFree = MemoryBudget
      BY DEF Init, Held, Holders
    <2>2. memFree + Cardinality(Held) = MemoryBudget /\ IsFiniteSet(Held)
      BY <2>1, FS_EmptySet, PipelineAssumption DEF PipelineAssumption
    <2> QED
      BY <2>1, <2>2 DEF Init, MemoryAccounted, NoDuplicates
  <1>2. TypeOK /\ MemoryAccounted /\ [Next]_vars => MemoryAccounted'
    <2> SUFFICES ASSUME TypeOK, MemoryAccounted, [Next]_vars PROVE MemoryAccounted'
      OBVIOUS
    <2>1. CASE \E w \in Workers : Worker(w)
      BY <2>1, WorkerKeepsMemory
    <2>2. CASE ~\E w \in Workers : Worker(w)
      <3>1. UNCHANGED <<workerVars, memVars>>
        BY <2>2 DEF Next, Plugin, ProcessItems, ProcessSecrets, ProcessExtras, ProcessEvaluation,
                    OnlySecretsChange, WaitReturns, Terminated, vars
      <3> QED
        BY <3>1 DEF workerVars, memVars, MemoryAccounted, Held, Holders
    <2> QED
      BY <2>1, <2>2
  <1>3. TypeOK /\ MemoryAccounted => MemoryReturned
    <2> SUFFICES ASSUME TypeOK, MemoryAccounted, PoolDrained
                 PROVE  memFree = MemoryBudget /\ memWaiters = <<>>
      BY DEF MemoryReturned
    <2>1. Held = {}
      BY DEF PoolDrained, Held, Holders
    <2>2. memFree = MemoryBudget
      BY <2>1, FS_EmptySet DEF MemoryAccounted, TypeOK, ResourceTypes
    <2>3. memWaiters = <<>>
      <3>1. memWaiters \in Seq(Workers) /\ \A k \in DOMAIN memWaiters : wpc[memWaiters[k]] = "waitMemory"
        BY DEF TypeOK, ResourceTypes, MemoryAccounted
      <3>2. ASSUME memWaiters # <<>> PROVE FALSE
        <4>1. 1 \in DOMAIN memWaiters /\ memWaiters[1] \in Workers
          BY <3>1, <3>2
        <4> QED
          BY <3>1, <4>1 DEF PoolDrained
      <3> QED
        BY <3>2
    <2> QED
      BY <2>2, <2>3
  <1> QED
    BY <1>1, <1>2, <1>3, TypeCorrect, PTL DEF Spec, Safety
-----------------------------------------------------------------------------
(* The secrets between the goroutines behind processSecrets.               *)

Holding(g, states) == {hand[h] : h \in {h \in {g} : pc[h] \in states}}

\* Whatever has been sent to a sink is in its channel, in its hands or done:
\* the extras goroutine and the evaluation goroutine get each secret that is in
\* the results, and besides those only the one processSecrets still holds.
SecretsAccounted ==
  /\ annotated \cup Range(buf["extras"]) \cup Holding("processExtras", {"add"})
       = Reported \cup Holding("processSecrets", {"evaluation", "append"})
  /\ scored \cup Range(buf["evaluation"]) \cup Holding("processEvaluation", {"register", "score"})
       = Reported \cup Holding("processSecrets", {"append"})
  /\ WithValidation =>
       registered \cup Range(buf["evaluation"]) \cup Holding("processEvaluation", {"register"})
         = Reported \cup Holding("processSecrets", {"append"})
  /\ ~WithValidation => registered = {} /\ pc["processEvaluation"] # "register"

LEMMA Appended ==
  ASSUME TypeOK, AppendResult PROVE Reported' = Reported \cup {hand["processSecrets"]}
  <1> DEFINE secret == hand["processSecrets"] own == SecretID[secret]
  <1>1. secret \in Findings /\ own \in IDs /\ results \in [IDs -> Seq(Findings)]
    BY PipelineAssumption
       DEF PipelineAssumption, TypeOK, GoroutineTypes, ReportTypes, AppendResult
  <1>2. results' = [results EXCEPT ![own] = Append(results[own], secret)]
    BY DEF AppendResult
  <1>3. Range(Append(results[own], secret)) = Range(results[own]) \cup {secret}
    BY <1>1, Enqueued
  <1>4. \A id \in IDs : Range(results'[id]) =
                          IF id = own THEN Range(results[id]) \cup {secret} ELSE Range(results[id])
    BY <1>1, <1>2, <1>3
  <1> HIDE DEF secret, own
  <1>5. Reported' = Reported \cup {secret}
    BY <1>1, <1>4 DEF Reported
  <1> QED
    BY <1>5 DEF secret

LEMMA ReportUnchanged == UNCHANGED results => Reported' = Reported
  BY DEF Reported

LEMMA SecretsKeepSecrets ==
  ASSUME TypeOK, SecretsAccounted, ProcessSecrets PROVE SecretsAccounted'
  <1>0. /\ UNCHANGED <<annotated, registered, scored>>
        /\ pc'["processExtras"] = pc["processExtras"] /\ pc'["processEvaluation"] = pc["processEvaluation"]
        /\ hand'["processExtras"] = hand["processExtras"]
        /\ hand'["processEvaluation"] = hand["processEvaluation"]
    BY DEF ProcessSecrets, secretVars, ReceiveSecret, SendToExtras, SendToEvaluation, AppendResult,
           SecretsDrained, CloseExtras, CloseEvaluation, Receive, Send, Drained, Close, LetGo, Goto,
           TypeOK, GoroutineTypes
  <1> DEFINE secret == hand["processSecrets"]
  <1>1. CASE SendToExtras
    <2>1. /\ secret \in Findings /\ pc["processSecrets"] = "extras" /\ pc'["processSecrets"] = "evaluation"
          /\ buf["extras"]' = Append(buf["extras"], secret) /\ buf["extras"] \in Seq(Findings)
          /\ buf["evaluation"]' = buf["evaluation"] /\ UNCHANGED <<hand, results>>
      BY <1>1 DEF SendToExtras, Send, Push, Goto, TypeOK, GoroutineTypes, ChannelTypes
    <2>2. Range(buf["extras"]') = Range(buf["extras"]) \cup {secret}
      BY <2>1, Enqueued
    <2> QED
      BY <1>0, <2>1, <2>2, ReportUnchanged DEF SecretsAccounted, Holding
  <1>2. CASE SendToEvaluation
    <2>1. /\ secret \in Findings /\ pc["processSecrets"] = "evaluation" /\ pc'["processSecrets"] = "append"
          /\ buf["evaluation"]' = Append(buf["evaluation"], secret) /\ buf["evaluation"] \in Seq(Findings)
          /\ buf["extras"]' = buf["extras"] /\ UNCHANGED <<hand, results>>
      BY <1>2 DEF SendToEvaluation, Send, Push, Goto, TypeOK, GoroutineTypes, ChannelTypes
    <2>2. Range(buf["evaluation"]') = Range(buf["evaluation"]) \cup {secret}
      BY <2>1, Enqueued
    <2> QED
      BY <1>0, <2>1, <2>2, ReportUnchanged DEF SecretsAccounted, Holding
  <1>3. CASE AppendResult
    <2>1. pc["processSecrets"] = "append" /\ pc'["processSecrets"] = "receive" /\ UNCHANGED buf
      BY <1>3 DEF AppendResult, LetGo, Goto, chanVars, TypeOK, GoroutineTypes
    <2> QED
      BY <1>0, <1>3, <2>1, Appended DEF SecretsAccounted, Holding
  <1>4. CASE ReceiveSecret \/ SecretsDrained \/ CloseExtras \/ CloseEvaluation
    <2>1. /\ pc["processSecrets"] \notin {"evaluation", "append"}
          /\ pc'["processSecrets"] \notin {"evaluation", "append"}
          /\ buf["extras"]' = buf["extras"] /\ buf["evaluation"]' = buf["evaluation"] /\ UNCHANGED results
      BY <1>4 DEF ReceiveSecret, SecretsDrained, CloseExtras, CloseEvaluation, Receive, Drained, Close,
                  Goto, chanVars, TypeOK, GoroutineTypes, ChannelTypes
    <2> QED
      BY <1>0, <2>1, ReportUnchanged DEF SecretsAccounted, Holding
  <1> QED
    BY <1>1, <1>2, <1>3, <1>4 DEF ProcessSecrets

LEMMA ExtrasKeepSecrets ==
  ASSUME TypeOK, SecretsAccounted, ProcessExtras PROVE SecretsAccounted'
  <1>0. /\ UNCHANGED <<registered, scored, results>>
        /\ pc'["processSecrets"] = pc["processSecrets"] /\ pc'["processEvaluation"] = pc["processEvaluation"]
        /\ hand'["processSecrets"] = hand["processSecrets"]
        /\ hand'["processEvaluation"] = hand["processEvaluation"]
        /\ buf'["evaluation"] = buf["evaluation"]
    BY DEF ProcessExtras, OnlySecretsChange, secretVars, reportVars, ReceiveForExtras, AddExtras,
           ExtrasDrained, Receive, Drained, LetGo, Goto, chanVars, TypeOK, GoroutineTypes, ChannelTypes
  <1>1. annotated' \cup Range(buf["extras"]') \cup Holding("processExtras", {"add"})'
          = annotated \cup Range(buf["extras"]) \cup Holding("processExtras", {"add"})
    <2>1. CASE ReceiveForExtras
      <3>1. /\ buf["extras"] \in Seq(Findings) /\ buf["extras"] # <<>>
            /\ buf["extras"]' = Tail(buf["extras"]) /\ hand'["processExtras"] = Head(buf["extras"])
            /\ pc["processExtras"] = "receive" /\ pc'["processExtras"] = "add" /\ UNCHANGED annotated
        BY <2>1 DEF ReceiveForExtras, Receive, Goto, secretVars, TypeOK, GoroutineTypes, ChannelTypes
      <3>2. Range(buf["extras"]) = Range(buf["extras"]') \cup {hand'["processExtras"]}
        BY <3>1, Dequeued
      <3> QED
        BY <3>1, <3>2 DEF Holding
    <2>2. CASE AddExtras
      BY <2>2 DEF AddExtras, LetGo, Goto, chanVars, Holding, TypeOK, GoroutineTypes
    <2>3. CASE ExtrasDrained
      BY <2>3 DEF ExtrasDrained, Drained, Goto, chanVars, secretVars, Holding, TypeOK, GoroutineTypes
    <2> QED
      BY <2>1, <2>2, <2>3 DEF ProcessExtras
  <1> QED
    BY <1>0, <1>1, ReportUnchanged DEF SecretsAccounted, Holding

LEMMA EvaluationKeepsSecrets ==
  ASSUME TypeOK, SecretsAccounted, ProcessEvaluation PROVE SecretsAccounted'
  <1>0. /\ UNCHANGED <<annotated, results>>
        /\ pc'["processSecrets"] = pc["processSecrets"] /\ pc'["processExtras"] = pc["processExtras"]
        /\ hand'["processSecrets"] = hand["processSecrets"]
        /\ hand'["processExtras"] = hand["processExtras"]
        /\ buf'["extras"] = buf["extras"]
    BY DEF ProcessEvaluation, OnlySecretsChange, secretVars, reportVars, ReceiveForEvaluation,
           RegisterForValidation, AssignScoreAndSeverity, EvaluationDrained, ValidatePairs,
           Receive, Drained, LetGo, Goto, chanVars, TypeOK, GoroutineTypes, ChannelTypes
  <1> DEFINE mine == {"register", "score"}
  <1>1. CASE ReceiveForEvaluation
    <2>1. /\ buf["evaluation"] \in Seq(Findings) /\ buf["evaluation"] # <<>>
          /\ buf["evaluation"]' = Tail(buf["evaluation"])
          /\ hand'["processEvaluation"] = Head(buf["evaluation"])
          /\ pc["processEvaluation"] = "receive" /\ UNCHANGED <<registered, scored>>
          /\ pc'["processEvaluation"] = IF WithValidation THEN "register" ELSE "score"
      BY <1>1 DEF ReceiveForEvaluation, Receive, Goto, secretVars, TypeOK, GoroutineTypes, ChannelTypes
    <2>2. Range(buf["evaluation"]) = Range(buf["evaluation"]') \cup {hand'["processEvaluation"]}
      BY <2>1, Dequeued
    <2> QED
      BY <1>0, <2>1, <2>2, ReportUnchanged DEF SecretsAccounted, Holding
  <1>2. CASE RegisterForValidation
    BY <1>0, <1>2, ReportUnchanged
       DEF RegisterForValidation, Goto, chanVars, SecretsAccounted, Holding, TypeOK, GoroutineTypes
  <1>3. CASE AssignScoreAndSeverity
    BY <1>0, <1>3, ReportUnchanged
       DEF AssignScoreAndSeverity, LetGo, Goto, chanVars, SecretsAccounted, Holding, TypeOK, GoroutineTypes
  <1>4. CASE EvaluationDrained \/ ValidatePairs
    BY <1>0, <1>4, ReportUnchanged
       DEF EvaluationDrained, ValidatePairs, Drained, Goto, chanVars, secretVars, SecretsAccounted,
           Holding, TypeOK, GoroutineTypes
  <1> QED
    BY <1>1, <1>2, <1>3, <1>4 DEF ProcessEvaluation

\* Before processSecrets nothing of this changes.
LEMMA OthersKeepSecrets ==
  ASSUME TypeOK, SecretsAccounted,
         Plugin \/ ProcessItems \/ (\E w \in Workers : Worker(w)) \/ WaitReturns \/ UNCHANGED vars
  PROVE  SecretsAccounted'
  <1> DEFINE late == {"processSecrets", "processExtras", "processEvaluation"}
  <1>1. \A g \in late : pc'[g] = pc[g] /\ hand'[g] = hand[g]
    BY DEF Plugin, ProcessItems, Worker, WaitReturns, vars, goVars, ReceiveItem, SubmitTask, ItemsDrained,
           CloseQueue, WaitForPool, CloseSecrets, Receive, Drained, Close, LetGo, Goto,
           TypeOK, GoroutineTypes
  <1>2. buf'["extras"] = buf["extras"] /\ buf'["evaluation"] = buf["evaluation"]
    BY DEF Plugin, CloseItems, SendItem, ProcessItems, Worker, WaitReturns, vars, chanVars, ReceiveItem,
           SubmitTask, ItemsDrained, CloseQueue, WaitForPool, CloseSecrets, Receive, Drained, Close, Push,
           TakeTask, SkipFile, AcquireMemory, TakeMemory, QueueForMemory, GrantMemory, StartFragment,
           EndFragment, BuildFails, IgnoreMatch, CountMatch, SendSecret, FinishTask,
           TypeOK, ChannelTypes
  <1>3. UNCHANGED <<annotated, registered, scored, results>>
    BY DEF Plugin, ProcessItems, Worker, WaitReturns, vars, reportVars, secretVars, ReceiveItem, SubmitTask,
           ItemsDrained, CloseQueue, WaitForPool, CloseSecrets
  <1> QED
    BY <1>1, <1>2, <1>3, ReportUnchanged DEF SecretsAccounted, Holding

\* Every secret that processSecrets has dealt with is accounted for in both sinks.
THEOREM SecretsAreAccounted == Spec => []SecretsAccounted
  <1>1. Init => SecretsAccounted
    <2> SUFFICES ASSUME Init PROVE SecretsAccounted
      OBVIOUS
    <2>1. Reported = {}
      BY EmptyQueue DEF Init, Reported
    <2> QED
      BY <2>1, EmptyQueue DEF Init, SecretsAccounted, Holding
  <1>2. TypeOK /\ SecretsAccounted /\ [Next]_vars => SecretsAccounted'
    BY SecretsKeepSecrets, ExtrasKeepSecrets, EvaluationKeepsSecrets, OthersKeepSecrets
       DEF Next, Terminated
  <1> QED
    BY <1>1, <1>2, TypeCorrect, PTL DEF Spec, Safety

\* When Wait returns, every reported secret has been through the extras
\* goroutine and the evaluation goroutine, and nothing else has: the report is
\* read without a lock and finds every secret complete.
THEOREM SecretsAreComplete == Spec => []ReportedSecretsAreComplete
  <1>1. TypeOK /\ ShutdownOrder /\ SecretsAccounted => ReportedSecretsAreComplete
    <2> SUFFICES ASSUME TypeOK, ShutdownOrder, SecretsAccounted, caller = "returned"
                 PROVE  /\ annotated = Reported /\ scored = Reported
                        /\ registered = IF WithValidation THEN Reported ELSE {}
      BY DEF ReportedSecretsAreComplete
    <2>1. /\ \A g \in Goroutines : pc[g] = "done"
          /\ buf["extras"] = <<>> /\ buf["evaluation"] = <<>>
      BY DEF ShutdownOrder
    <2> QED
      BY <2>1, EmptyQueue DEF SecretsAccounted, Holding
  <1> QED
    BY <1>1, TypeCorrect, ShutdownInOrder, SecretsAreAccounted, PTL
-----------------------------------------------------------------------------
(* The totals.                                                             *)

\* where a secret stands in the results: under its ID, at its position
Entries == {o \in IDs \X Nat : o[2] \in DOMAIN results[o[1]]}

Unfinished == IF pc["processSecrets"] \in {"extras", "evaluation", "append"} THEN 1 ELSE 0

\* An item is unsent, in the channel or counted; a counted secret is in the
\* results, at one place, or in processSecrets' hands.
TotalsAccounted ==
  /\ totalItems + Len(buf["items"]) + Cardinality(unsent) = Cardinality(Items)
  /\ IsFiniteSet(Entries) /\ totalSecrets = Cardinality(Entries) + Unfinished
  /\ \A id \in IDs : Len(results[id]) <= Cardinality(Entries)

LEMMA CountsAreNumbers ==
  ASSUME TypeOK
  PROVE  /\ IsFiniteSet(unsent) /\ Cardinality(unsent) \in Nat /\ Cardinality(Items) \in Nat
         /\ buf["items"] \in Seq(Items) /\ Len(buf["items"]) \in Nat /\ totalItems \in Nat
         /\ totalSecrets \in Nat
  BY PipelineAssumption, FS_Subset, FS_CardinalityType
     DEF PipelineAssumption, TypeOK, ChannelTypes, ReportTypes

LEMMA EntriesUnchanged ==
  ASSUME TotalsAccounted, UNCHANGED <<results, totalSecrets>>, Unfinished' = Unfinished,
         (totalItems + Len(buf["items"]) + Cardinality(unsent) = Cardinality(Items))'
  PROVE  TotalsAccounted'
  <1>1. Entries' = Entries
    BY DEF Entries
  <1> QED
    BY <1>1 DEF TotalsAccounted

LEMMA AppendKeepsTotals ==
  ASSUME TypeOK, TotalsAccounted, AppendResult, UNCHANGED <<totalItems, unsent>>
  PROVE  TotalsAccounted'
  <1> DEFINE secret == hand["processSecrets"]
             own == SecretID[secret]
             last == Len(results[own]) + 1
  <1>1. secret \in Findings /\ own \in IDs /\ results \in [IDs -> Seq(Findings)]
    BY PipelineAssumption
       DEF PipelineAssumption, TypeOK, GoroutineTypes, ReportTypes, AppendResult
  <1>2. results' = [results EXCEPT ![own] = Append(results[own], secret)]
    BY DEF AppendResult
  <1>3. /\ results[own] \in Seq(Findings) /\ last \in Nat /\ Len(results[own]) = last - 1
        /\ DOMAIN results[own] = 1..(last - 1) /\ DOMAIN results'[own] = 1..last
        /\ Len(results'[own]) = last
    BY <1>1, <1>2
  <1>4. \A id \in IDs \ {own} : results'[id] = results[id]
    BY <1>1, <1>2
  <1>5. /\ pc["processSecrets"] = "append" /\ pc'["processSecrets"] = "receive"
        /\ UNCHANGED <<buf, totalSecrets>>
    BY DEF AppendResult, LetGo, Goto, chanVars, TypeOK, GoroutineTypes
  <1> HIDE DEF secret, own, last
  <1>6. \A j \in Nat : j \in 1..last <=> j \in 1..(last - 1) \/ j = last
    BY <1>3
  <1>7. Entries' = Entries \cup {<<own, last>>} /\ <<own, last>> \notin Entries
    <2>1. \A id \in IDs, j \in Nat : j \in DOMAIN results'[id] <=>
                                       j \in DOMAIN results[id] \/ (id = own /\ j = last)
      BY <1>3, <1>4, <1>6
    <2>2. last \notin DOMAIN results[own]
      BY <1>3
    <2> QED
      BY <1>1, <1>3, <2>1, <2>2 DEF Entries
  <1>8. IsFiniteSet(Entries) /\ Cardinality(Entries) \in Nat
    BY FS_CardinalityType DEF TotalsAccounted
  <1>9. IsFiniteSet(Entries') /\ Cardinality(Entries') = Cardinality(Entries) + 1
    BY <1>7, <1>8, FS_AddElement
  <1>10. totalSecrets' = Cardinality(Entries') + Unfinished'
    BY <1>5, <1>8, <1>9 DEF TotalsAccounted, Unfinished
  <1>11. \A id \in IDs : Len(results'[id]) <= Cardinality(Entries')
    <2> SUFFICES ASSUME NEW id \in IDs PROVE Len(results'[id]) <= Cardinality(Entries')
      OBVIOUS
    <2>1. Len(results[id]) \in Nat /\ Len(results[id]) <= Cardinality(Entries)
      BY <1>1 DEF TotalsAccounted
    <2>2. CASE id = own
      BY <1>3, <1>8, <1>9, <2>1, <2>2
    <2>3. CASE id # own
      BY <1>4, <1>8, <1>9, <2>1, <2>3
    <2> QED
      BY <2>2, <2>3
  <1> QED
    BY <1>5, <1>9, <1>10, <1>11 DEF TotalsAccounted

LEMMA SecretsKeepTotals ==
  ASSUME TypeOK, TotalsAccounted, ProcessSecrets PROVE TotalsAccounted'
  <1>0. UNCHANGED <<totalItems, unsent>> /\ buf'["items"] = buf["items"]
    BY DEF ProcessSecrets, ReceiveSecret, SendToExtras, SendToEvaluation, AppendResult,
           SecretsDrained, CloseExtras, CloseEvaluation, Receive, Send, Push, Drained, Close,
           chanVars, TypeOK, ChannelTypes
  <1>1. CASE ReceiveSecret
    <2>1. /\ totalSecrets' = totalSecrets + 1 /\ UNCHANGED results
          /\ pc["processSecrets"] = "receive" /\ pc'["processSecrets"] = "extras"
      BY <1>1 DEF ReceiveSecret, Receive, Goto, TypeOK, GoroutineTypes
    <2>2. Entries' = Entries /\ Cardinality(Entries) \in Nat
      BY <2>1, FS_CardinalityType DEF Entries, TotalsAccounted
    <2> QED
      BY <1>0, <2>1, <2>2 DEF TotalsAccounted, Unfinished
  <1>2. CASE AppendResult
    BY <1>0, <1>2, AppendKeepsTotals
  <1>3. CASE SendToExtras \/ SendToEvaluation \/ SecretsDrained \/ CloseExtras \/ CloseEvaluation
    <2>1. Unfinished' = Unfinished /\ UNCHANGED <<results, totalSecrets>>
      BY <1>3 DEF SendToExtras, SendToEvaluation, SecretsDrained, CloseExtras, CloseEvaluation, Send,
                  Drained, Close, Goto, Unfinished, TypeOK, GoroutineTypes
    <2> QED
      BY <1>0, <2>1, EntriesUnchanged DEF TotalsAccounted
  <1> QED
    BY <1>1, <1>2, <1>3 DEF ProcessSecrets

LEMMA ItemsKeepTotals ==
  ASSUME TypeOK, TotalsAccounted, Plugin \/ ProcessItems PROVE TotalsAccounted'
  <1>1. UNCHANGED <<results, totalSecrets>>
    BY DEF Plugin, ProcessItems, ReceiveItem, SubmitTask, ItemsDrained, CloseQueue, WaitForPool,
           CloseSecrets, reportVars
  <1>2. Unfinished' = Unfinished
    BY DEF Plugin, ProcessItems, ReceiveItem, SubmitTask, ItemsDrained, CloseQueue, WaitForPool,
           CloseSecrets, goVars, Receive, Drained, Close, LetGo, Goto, Unfinished, TypeOK, GoroutineTypes
  <1>3. (totalItems + Len(buf["items"]) + Cardinality(unsent) = Cardinality(Items))'
    <2>1. ASSUME NEW i \in Items, SendItem(i), UNCHANGED totalItems
          PROVE  (totalItems + Len(buf["items"]) + Cardinality(unsent) = Cardinality(Items))'
      <3>1. i \in unsent /\ unsent' = unsent \ {i} /\ Len(buf'["items"]) = Len(buf["items"]) + 1
        BY <2>1, CountsAreNumbers DEF SendItem, Push, TypeOK, ChannelTypes
      <3>2. Cardinality(unsent') = Cardinality(unsent) - 1
        BY <3>1, CountsAreNumbers, FS_RemoveElement
      <3> QED
        BY <2>1, <3>1, <3>2, CountsAreNumbers DEF TotalsAccounted
    <2>2. CASE ReceiveItem /\ UNCHANGED unsent
      <3>1. Len(buf'["items"]) = Len(buf["items"]) - 1 /\ totalItems' = totalItems + 1
        BY <2>2, CountsAreNumbers DEF ReceiveItem, Receive, TypeOK, ChannelTypes
      <3> QED
        BY <2>2, <3>1, CountsAreNumbers DEF TotalsAccounted
    <2>3. CASE UNCHANGED <<unsent, totalItems, buf>>
      BY <2>3 DEF TotalsAccounted
    <2> QED
      BY <2>1, <2>2, <2>3 DEF Plugin, CloseItems, ProcessItems, SubmitTask, ItemsDrained, CloseQueue,
         WaitForPool, CloseSecrets, Drained, Close, reportVars, chanVars
  <1> QED
    BY <1>1, <1>2, <1>3, EntriesUnchanged

LEMMA OthersKeepTotals ==
  ASSUME TypeOK, TotalsAccounted,
         (\E w \in Workers : Worker(w)) \/ ProcessExtras \/ ProcessEvaluation \/ WaitReturns \/ UNCHANGED vars
  PROVE  TotalsAccounted'
  <1>1. UNCHANGED <<unsent, totalItems, totalSecrets, results>>
    BY DEF Worker, ProcessExtras, ProcessEvaluation, OnlySecretsChange, WaitReturns, vars, reportVars
  <1>2. buf'["items"] = buf["items"]
    BY DEF Worker, TakeTask, SkipFile, AcquireMemory, TakeMemory, QueueForMemory, GrantMemory,
           StartFragment, EndFragment, BuildFails, IgnoreMatch, CountMatch, SendSecret, Push, FinishTask,
           ProcessExtras, ReceiveForExtras, AddExtras, ExtrasDrained, ProcessEvaluation,
           ReceiveForEvaluation, RegisterForValidation, AssignScoreAndSeverity, EvaluationDrained,
           ValidatePairs, Receive, Drained, WaitReturns, vars, chanVars, TypeOK, ChannelTypes
  <1>3. Unfinished' = Unfinished
    BY DEF Worker, ProcessExtras, ReceiveForExtras, AddExtras, ExtrasDrained, ProcessEvaluation,
           ReceiveForEvaluation, RegisterForValidation, AssignScoreAndSeverity, EvaluationDrained,
           ValidatePairs, Receive, Drained, LetGo, Goto, WaitReturns, vars, goVars, Unfinished,
           TypeOK, GoroutineTypes
  <1> QED
    BY <1>1, <1>2, <1>3, EntriesUnchanged DEF TotalsAccounted

\* When Wait returns, the report's totals are those of the plugin's items and of
\* the report's contents, whatever IDs the secrets share.
THEOREM TotalsAreRight == Spec => []TotalsMatchResults
  <1>1. Init => TotalsAccounted
    <2> SUFFICES ASSUME Init PROVE TotalsAccounted
      OBVIOUS
    <2>1. Entries = {} /\ Cardinality(Items) \in Nat
      BY PipelineAssumption, FS_CardinalityType DEF Init, Entries, PipelineAssumption
    <2>2. IsFiniteSet(Entries) /\ Cardinality(Entries) = 0
      BY <2>1, FS_EmptySet
    <2> QED
      BY <2>1, <2>2 DEF Init, TotalsAccounted, Unfinished
  <1>2. TypeOK /\ TotalsAccounted /\ [Next]_vars => TotalsAccounted'
    BY SecretsKeepTotals, ItemsKeepTotals, OthersKeepTotals DEF Next, Terminated
  <1>3. TypeOK /\ ShutdownOrder /\ TotalsAccounted => TotalsMatchResults
    <2> SUFFICES ASSUME TypeOK, ShutdownOrder, TotalsAccounted, caller = "returned"
                 PROVE  /\ totalItems = Cardinality(Items)
                        /\ totalSecrets = Cardinality({o \in IDs \X (1..totalSecrets + 1) :
                                                         o[2] \in DOMAIN results[o[1]]})
      BY DEF TotalsMatchResults
    <2>1. \A g \in Goroutines : pc[g] = "done"
      BY DEF ShutdownOrder
    <2>2. buf["items"] = <<>> /\ unsent = {}
      BY <2>1 DEF ShutdownOrder, NoSendAfterClose
    <2>3. totalItems = Cardinality(Items)
      BY <2>2, CountsAreNumbers, FS_EmptySet DEF TotalsAccounted
    <2>4. totalSecrets = Cardinality(Entries) /\ Cardinality(Entries) \in Nat
      BY <2>1, FS_CardinalityType DEF TotalsAccounted, Unfinished
    <2>5. Entries = {o \in IDs \X (1..totalSecrets + 1) : o[2] \in DOMAIN results[o[1]]}
      <3>1. ASSUME NEW id \in IDs, NEW j \in DOMAIN results[id] PROVE j \in 1..totalSecrets + 1
        <4>1. results[id] \in Seq(Findings) /\ Len(results[id]) <= totalSecrets
          BY <2>4 DEF TypeOK, ReportTypes, TotalsAccounted
        <4> QED
          BY <2>4, <4>1
      <3>2. 1..totalSecrets + 1 \subseteq Nat
        BY <2>4
      <3> QED
        BY <3>1, <3>2 DEF Entries
    <2> QED
      BY <2>3, <2>4, <2>5
  <1> QED
    BY <1>1, <1>2, <1>3, TypeCorrect, ShutdownInOrder, PTL DEF Spec, Safety
-----------------------------------------------------------------------------
(* What becomes of an item and of its findings.                            *)

\* DetectFile gets as far as the fragments of item i
Readable(i) == FromFiles => i \notin Unreadable /\ Weight[i] <= MemoryBudget

\* match n of fragment k of item i, in the order in which a worker meets them:
\* nothing before it ends the task
CleanBefore(i, k, n) ==
  \A c \in DOMAIN Fragments[i] : \A d \in DOMAIN Fragments[i][c] :
     c < k \/ (c = k /\ d < n) => Fragments[i][c][d] \notin Unbuildable

Wanted(i, k, n) ==
  Readable(i) /\ CleanBefore(i, k, n) /\ Fragments[i][k][n] \notin Ignored \cup Unbuildable

\* items that no worker has taken yet
Todo == unsent \cup Range(buf["items"]) \cup Holding("processItems", {"submit"}) \cup Range(queue)

Busy == {w \in Workers : wpc[w] # "idle"}

\* An item is at one place between the plugin and the worker that takes it, and
\* no two workers run the same item.
ItemsOnce ==
  /\ NoDuplicates(buf["items"]) /\ NoDuplicates(queue)
  /\ Range(buf["items"]) \cap unsent = {}
  /\ Holding("processItems", {"submit"}) \cap (unsent \cup Range(buf["items"])) = {}
  /\ Range(queue) \cap (unsent \cup Range(buf["items"]) \cup Holding("processItems", {"submit"})) = {}
  /\ \A w \in Busy : job[w] \notin Todo
  /\ \A v, w \in Busy : job[v] = job[w] => v = w

\* worker w is behind match n of fragment k
Passed(w, k, n) ==
  \/ wpc[w] \in {"fragment", "emit", "send"} /\ k < frag[w]
  \/ wpc[w] \in {"emit", "send"} /\ k = frag[w] /\ n < pos[w]

\* Until the limit is reached, a worker only goes on behind matches it could
\* build; a build error takes it to the end of the item at once.
OnTrack ==
  \A w \in Workers :
    /\ wpc[w] \in {"open", "waitMemory"} => FromFiles
    /\ wpc[w] \in {"idle", "open", "waitMemory"} => frag[w] = 1
    /\ wpc[w] \in {"waitMemory", "fragment", "emit", "send"} => Readable(job[w])
    /\ wpc[w] = "fragment" /\ frag[w] <= Len(Fragments[job[w]]) /\ ~LimitReached =>
         CleanBefore(job[w], frag[w], 1)
    /\ wpc[w] \in {"emit", "send"} => CleanBefore(job[w], frag[w], pos[w])
    /\ wpc[w] = "send" => Matches(w)[pos[w]] \notin Ignored \cup Unbuildable

\* no worker will come to match n of fragment k of item i any more
Gone(i, k, n) == i \notin Todo /\ \A w \in Busy : job[w] = i => Passed(w, k, n)

\* secrets sent by the workers
Sent == Reported \cup Range(buf["secrets"]) \cup Holding("processSecrets", {"extras", "evaluation", "append"})

\* What has been sent is wanted, and behind the workers.
SentIsWanted ==
  \A f \in Sent : \E i \in Items : \E k \in DOMAIN Fragments[i] : \E n \in DOMAIN Fragments[i][k] :
     f = Fragments[i][k][n] /\ Wanted(i, k, n) /\ Gone(i, k, n)

\* Below the limit, what is wanted and behind the workers has been sent.
WantedIsSent ==
  ~LimitReached =>
    \A i \in Items : \A k \in DOMAIN Fragments[i] : \A n \in DOMAIN Fragments[i][k] :
       Wanted(i, k, n) /\ Gone(i, k, n) => Fragments[i][k][n] \in Sent

\* No secret is sent twice, so the total counts different secrets.
SentOnce ==
  /\ NoDuplicates(buf["secrets"]) /\ Range(buf["secrets"]) \cap Reported = {}
  /\ Holding("processSecrets", {"extras", "evaluation", "append"})
       \cap (Reported \cup Range(buf["secrets"])) = {}
  /\ IsFiniteSet(Reported) /\ totalSecrets = Cardinality(Reported) + Unfinished

\* What Todo and ItemsOnce are built from.
LEMMA ItemsUnchanged ==
  ASSUME ItemsOnce, UNCHANGED <<unsent, queue>>, buf'["items"] = buf["items"],
         Holding("processItems", {"submit"})' = Holding("processItems", {"submit"}),
         \A w \in Busy' : w \in Busy /\ job'[w] = job[w]
  PROVE  ItemsOnce' /\ Todo' = Todo
  BY DEF ItemsOnce, Todo

LEMMA PluginKeepsItems == ASSUME TypeOK, ItemsOnce, Plugin PROVE ItemsOnce' /\ Todo' = Todo
  <1>0. /\ Busy' = Busy /\ UNCHANGED <<job, queue>>
        /\ Holding("processItems", {"submit"})' = Holding("processItems", {"submit"})
    BY DEF Plugin, workerVars, poolVars, goVars, Busy, Holding
  <1>1. CASE CloseItems
    BY <1>0, <1>1, ItemsUnchanged DEF CloseItems
  <1>2. ASSUME NEW i \in Items, SendItem(i) PROVE ItemsOnce' /\ Todo' = Todo
    <2>1. /\ i \in unsent /\ unsent' = unsent \ {i}
          /\ buf["items"] \in Seq(Items) /\ buf["items"]' = Append(buf["items"], i)
      BY <1>2 DEF SendItem, Push, TypeOK, ChannelTypes
    <2>2. i \notin Range(buf["items"])
      BY <2>1 DEF ItemsOnce
    <2>3. Range(buf["items"]') = Range(buf["items"]) \cup {i} /\ NoDuplicates(buf["items"]')
      BY <2>1, <2>2, Enqueued DEF ItemsOnce
    <2>4. Todo' = Todo
      BY <1>0, <2>1, <2>3 DEF Todo
    <2> QED
      BY <1>0, <2>1, <2>3, <2>4 DEF ItemsOnce
  <1> QED
    BY <1>1, <1>2 DEF Plugin

LEMMA ProcessItemsKeepsItems == ASSUME TypeOK, ItemsOnce, ProcessItems PROVE ItemsOnce' /\ Todo' = Todo
  <1>0. Busy' = Busy /\ UNCHANGED <<job, unsent>>
    BY DEF ProcessItems, workerVars, Busy
  <1> DEFINE mine == Holding("processItems", {"submit"})
  <1>1. CASE ReceiveItem
    <2>1. /\ buf["items"] \in Seq(Items) /\ buf["items"] # <<>> /\ buf["items"]' = Tail(buf["items"])
          /\ mine = {} /\ mine' = {Head(buf["items"])} /\ UNCHANGED queue
      BY <1>1 DEF ReceiveItem, Receive, Goto, poolVars, Holding, TypeOK, ChannelTypes, GoroutineTypes
    <2>2. /\ Range(buf["items"]) = Range(buf["items"]') \cup mine' /\ NoDuplicates(buf["items"]')
          /\ mine' \cap Range(buf["items"]') = {}
      BY <2>1, Dequeued DEF ItemsOnce
    <2> HIDE DEF mine
    <2>3. Todo' = Todo
      BY <1>0, <2>1, <2>2 DEF Todo, mine
    <2> QED
      BY <1>0, <2>1, <2>2, <2>3 DEF ItemsOnce, mine
  <1>2. CASE SubmitTask
    <2>1. /\ queue \in Seq(Items) /\ queue' = Append(queue, hand["processItems"])
          /\ hand["processItems"] \in Items /\ mine = {hand["processItems"]} /\ mine' = {} /\ UNCHANGED buf
      BY <1>2 DEF SubmitTask, LetGo, Goto, chanVars, Holding, TypeOK, ResourceTypes, GoroutineTypes
    <2>2. hand["processItems"] \notin Range(queue)
      BY <2>1 DEF ItemsOnce
    <2>3. Range(queue') = Range(queue) \cup mine /\ NoDuplicates(queue')
      BY <2>1, <2>2, Enqueued DEF ItemsOnce
    <2> HIDE DEF mine
    <2>4. Todo' = Todo
      BY <1>0, <2>1, <2>3 DEF Todo, mine
    <2> QED
      BY <1>0, <2>1, <2>3, <2>4 DEF ItemsOnce, mine
  <1>3. CASE ItemsDrained \/ CloseQueue \/ WaitForPool \/ CloseSecrets
    <2>1. mine' = mine /\ UNCHANGED <<queue, buf>>
      BY <1>3 DEF ItemsDrained, CloseQueue, WaitForPool, CloseSecrets, Drained, Close, Goto, chanVars,
                  poolVars, Holding, TypeOK, GoroutineTypes
    <2> QED
      BY <1>0, <2>1, ItemsUnchanged
  <1> QED
    BY <1>1, <1>2, <1>3 DEF ProcessItems

\* The item a worker takes leaves the queue, and nobody else has it.
LEMMA TakeKeepsItems ==
  ASSUME TypeOK, ItemsOnce, NEW w \in Workers, TakeTask(w), UNCHANGED <<unsent, goVars>>
  PROVE  /\ ItemsOnce' /\ Todo = Todo' \cup {job'[w]} /\ job'[w] \notin Todo'
         /\ Busy' = Busy \cup {w} /\ w \notin Busy
         /\ \A v \in Busy : job'[v] = job[v] /\ job[v] # job'[w]
  <1>1. /\ queue \in Seq(Items) /\ queue # <<>> /\ queue' = Tail(queue) /\ UNCHANGED buf
        /\ job' = [job EXCEPT ![w] = Head(queue)] /\ job'[w] = Head(queue)
        /\ Holding("processItems", {"submit"})' = Holding("processItems", {"submit"})
    BY DEF TakeTask, chanVars, goVars, Holding, TypeOK, ResourceTypes, WorkerTypes
  <1>2. /\ Range(queue) = Range(queue') \cup {job'[w]} /\ NoDuplicates(queue')
        /\ job'[w] \notin Range(queue')
    BY <1>1, Dequeued DEF ItemsOnce
  <1>3. Busy' = Busy \cup {w} /\ w \notin Busy /\ \A v \in Busy : job'[v] = job[v]
    BY <1>1 DEF TakeTask, Step, Busy, TypeOK, WorkerTypes
  <1>4. Todo = Todo' \cup {job'[w]} /\ job'[w] \notin Todo'
    BY <1>1, <1>2 DEF Todo, ItemsOnce
  <1>5. \A v \in Busy : job[v] # job'[w]
    BY <1>4 DEF ItemsOnce
  <1> QED
    BY <1>1, <1>2, <1>3, <1>4, <1>5 DEF ItemsOnce

LEMMA WorkKeepsItems ==
  ASSUME TypeOK, ItemsOnce, NEW w \in Workers, Worker(w), ~TakeTask(w)
  PROVE  /\ ItemsOnce' /\ Todo' = Todo /\ w \in Busy
         /\ \A v \in Busy' : v \in Busy /\ job'[v] = job[v]
         /\ \A v \in Workers \ {w} : wpc'[v] = wpc[v] /\ job'[v] = job[v] /\ frag'[v] = frag[v] /\ pos'[v] = pos[v]
  <1>1. UNCHANGED <<unsent, queue>> /\ buf'["items"] = buf["items"]
        /\ Holding("processItems", {"submit"})' = Holding("processItems", {"submit"})
    BY DEF Worker, SkipFile, AcquireMemory, TakeMemory, QueueForMemory, GrantMemory,
           StartFragment, EndFragment, BuildFails, IgnoreMatch, CountMatch, SendSecret, Push, FinishTask,
           chanVars, goVars, Holding, TypeOK, ChannelTypes
  <1>2. w \in Busy
    BY DEF Worker, SkipFile, AcquireMemory, WantsMemory, QueueForMemory, GrantMemory, StartFragment,
           EndFragment, BuildFails, IgnoreMatch, CountMatch, AtMatch, SendSecret, FinishTask, Busy
  <1>3. \A v \in Workers \ {w} : wpc'[v] = wpc[v] /\ job'[v] = job[v] /\ frag'[v] = frag[v] /\ pos'[v] = pos[v]
    BY DEF Worker, SkipFile, AcquireMemory, TakeMemory, QueueForMemory, GrantMemory, StartFragment,
           EndFragment, BuildFails, IgnoreMatch, CountMatch, SendSecret, FinishTask, Return, Step,
           NextFragment, NextMatch, TypeOK, WorkerTypes
  <1>4. wpc'[w] # "idle" => job'[w] = job[w]
    BY DEF Worker, SkipFile, AcquireMemory, TakeMemory, QueueForMemory, GrantMemory, StartFragment,
           EndFragment, BuildFails, IgnoreMatch, CountMatch, SendSecret, FinishTask, Return, Step,
           NextFragment, NextMatch, TypeOK, WorkerTypes
  <1>5. \A v \in Busy' : v \in Busy /\ job'[v] = job[v]
    BY <1>2, <1>3, <1>4 DEF Busy
  <1> QED
    BY <1>1, <1>2, <1>3, <1>5, ItemsUnchanged

\* Every item is at one place, in every reachable state.
THEOREM EveryItemIsTakenOnce == Spec => []ItemsOnce
  <1>1. Init => ItemsOnce
    BY EmptyQueue DEF Init, ItemsOnce, Holding, Busy
  <1>2. TypeOK /\ ItemsOnce /\ [Next]_vars => ItemsOnce'
    <2> SUFFICES ASSUME TypeOK, ItemsOnce, [Next]_vars PROVE ItemsOnce'
      OBVIOUS
    <2>1. ASSUME NEW w \in Workers, Worker(w) PROVE ItemsOnce'
      BY <2>1, TakeKeepsItems, WorkKeepsItems DEF Worker
    <2>2. CASE ProcessSecrets \/ ProcessExtras \/ ProcessEvaluation \/ WaitReturns \/ UNCHANGED vars
      <3>1. UNCHANGED <<unsent, queue>> /\ Busy' = Busy /\ UNCHANGED job
        BY <2>2 DEF ProcessSecrets, ProcessExtras, ProcessEvaluation, OnlySecretsChange, WaitReturns, vars,
                    poolVars, workerVars, Busy
      <3>2. /\ buf'["items"] = buf["items"] /\ pc'["processItems"] = pc["processItems"]
            /\ hand'["processItems"] = hand["processItems"]
        BY <2>2 DEF ProcessSecrets, ReceiveSecret, SendToExtras, SendToEvaluation, AppendResult, SecretsDrained,
                    CloseExtras, CloseEvaluation, ProcessExtras, ReceiveForExtras, AddExtras, ExtrasDrained,
                    ProcessEvaluation, ReceiveForEvaluation, RegisterForValidation, AssignScoreAndSeverity,
                    EvaluationDrained, ValidatePairs, WaitReturns, vars, Receive, Send, Push, Drained, Close,
                    LetGo, Goto, chanVars, goVars, TypeOK, ChannelTypes, GoroutineTypes
      <3> QED
        BY <3>1, <3>2, ItemsUnchanged DEF Holding
    <2> QED
      BY <2>1, <2>2, PluginKeepsItems, ProcessItemsKeepsItems DEF Next, Terminated
  <1> QED
    BY <1>1, <1>2, TypeCorrect, PTL DEF Spec, Safety

-----------------------------------------------------------------------------
(* The workers' way through their items.                                   *)

LEMMA LimitIsPassedOnce == ASSUME TypeOK, LimitReached, [Next]_vars PROVE LimitReached'
  <1>1. findingsCounter' = findingsCounter \/ findingsCounter' = findingsCounter + 1
    BY DEF Next, Plugin, ProcessItems, Worker, TakeTask, SkipFile, AcquireMemory, TakeMemory, QueueForMemory,
           GrantMemory, StartFragment, EndFragment, BuildFails, IgnoreMatch, CountMatch, SendSecret,
           FinishTask, ProcessSecrets, ProcessExtras, ProcessEvaluation, OnlySecretsChange, WaitReturns,
           Terminated, vars
  <1> QED
    BY <1>1, PipelineAssumption DEF PipelineAssumption, LimitReached, TypeOK, ResourceTypes

\* what OnTrack says of one worker
TrackOf(w) ==
  /\ wpc[w] \in {"open", "waitMemory"} => FromFiles
  /\ wpc[w] \in {"idle", "open", "waitMemory"} => frag[w] = 1
  /\ wpc[w] \in {"waitMemory", "fragment", "emit", "send"} => Readable(job[w])
  /\ wpc[w] = "fragment" /\ frag[w] <= Len(Fragments[job[w]]) /\ ~LimitReached =>
       CleanBefore(job[w], frag[w], 1)
  /\ wpc[w] \in {"emit", "send"} => CleanBefore(job[w], frag[w], pos[w])
  /\ wpc[w] = "send" => Matches(w)[pos[w]] \notin Ignored \cup Unbuildable

\* the places of an item, numbered as the loops number them
LEMMA PlacesAreNumbers ==
  ASSUME NEW i \in Items
  PROVE  /\ Fragments[i] \in Seq(Seq(Findings)) /\ DOMAIN Fragments[i] = 1..Len(Fragments[i])
         /\ Len(Fragments[i]) \in Nat
         /\ \A k \in DOMAIN Fragments[i] :
              /\ k \in Nat \ {0} /\ Fragments[i][k] \in Seq(Findings)
              /\ DOMAIN Fragments[i][k] = 1..Len(Fragments[i][k])
              /\ \A n \in DOMAIN Fragments[i][k] : n \in Nat \ {0} /\ Fragments[i][k][n] \in Findings
  <1>1. Fragments[i] \in Seq(Seq(Findings))
    BY PipelineAssumption DEF PipelineAssumption
  <1>2. \A k \in DOMAIN Fragments[i] : k \in Nat \ {0} /\ Fragments[i][k] \in Seq(Findings)
    BY <1>1
  <1> QED
    BY <1>1, <1>2

LEMMA CleanStart == ASSUME NEW i \in Items PROVE CleanBefore(i, 1, 1)
  <1>1. \A c \in DOMAIN Fragments[i] : \A d \in DOMAIN Fragments[i][c] : ~(c < 1) /\ ~(d < 1)
    BY PlacesAreNumbers
  <1> QED
    BY <1>1 DEF CleanBefore

LEMMA CleanNextMatch ==
  ASSUME NEW i \in Items, NEW k \in DOMAIN Fragments[i], NEW n \in DOMAIN Fragments[i][k],
         CleanBefore(i, k, n), Fragments[i][k][n] \notin Unbuildable
  PROVE  CleanBefore(i, k, n + 1)
  <1>1. \A c \in DOMAIN Fragments[i] : \A d \in DOMAIN Fragments[i][c] : d < n + 1 => d < n \/ d = n
    BY PlacesAreNumbers
  <1> QED
    BY <1>1 DEF CleanBefore

LEMMA CleanNextFragment ==
  ASSUME NEW i \in Items, NEW k \in DOMAIN Fragments[i], NEW n \in Nat,
         CleanBefore(i, k, n), n > Len(Fragments[i][k])
  PROVE  CleanBefore(i, k + 1, 1)
  <1>1. \A c \in DOMAIN Fragments[i] : \A d \in DOMAIN Fragments[i][c] :
           (c < k + 1 \/ (c = k + 1 /\ d < 1)) => c < k \/ (c = k /\ d < n)
    BY PlacesAreNumbers
  <1> QED
    BY <1>1 DEF CleanBefore

LEMMA WorkerStaysOnTrack ==
  ASSUME TypeOK, OnTrack, NEW w \in Workers, Worker(w) PROVE TrackOf(w)'
  <1> USE DEF TypeOK, WorkerTypes, Step
  <1>0. TrackOf(w) /\ wpc[w] \in WorkerStates
    BY DEF OnTrack, TrackOf
  <1> DEFINE i == job[w] k == frag[w] n == pos[w]
  <1>1. wpc[w] # "idle" => i \in Items
    OBVIOUS
  <1>2. wpc[w] \in {"emit", "send"} => k \in DOMAIN Fragments[i] /\ n \in Nat \ {0}
    BY <1>1, PlacesAreNumbers
  <1>3. (wpc[w] = "send" \/ (wpc[w] = "emit" /\ n <= Len(Matches(w)))) => n \in DOMAIN Fragments[i][k]
    BY <1>1, <1>2, PlacesAreNumbers DEF Matches
  <1>4. CASE TakeTask(w)
    <2>1. /\ wpc'[w] \in {"open", "fragment"} /\ (wpc'[w] = "open" <=> FromFiles)
          /\ frag'[w] = 1 /\ job'[w] \in Items
      BY <1>0, <1>4 DEF TakeTask, TrackOf, ResourceTypes
    <2> QED
      BY <2>1, CleanStart DEF TrackOf, Readable
  <1>5. CASE SkipFile(w) \/ FinishTask(w)
    <2>1. wpc'[w] = "idle" /\ frag'[w] = 1
      BY <1>5 DEF SkipFile, FinishTask, Return
    <2> QED
      BY <2>1 DEF TrackOf
  <1>6. CASE AcquireMemory(w)
    BY <1>0, <1>1, <1>6, CleanStart DEF AcquireMemory, WantsMemory, TakeMemory, TrackOf, Readable
  <1>7. CASE QueueForMemory(w)
    BY <1>0, <1>1, <1>7 DEF QueueForMemory, WantsMemory, TrackOf, Readable
  <1>8. CASE GrantMemory(w)
    BY <1>0, <1>1, <1>8, CleanStart DEF GrantMemory, TakeMemory, TrackOf, Readable
  <1>9. CASE StartFragment(w)
    <2>1. UNCHANGED <<job, findingsCounter>> /\ wpc[w] = "fragment" /\ frag[w] <= Len(Fragments[job[w]])
      BY <1>9 DEF StartFragment
    <2>2. CASE LimitReached /\ NextFragment(w)
      BY <1>0, <2>1, <2>2 DEF NextFragment, TrackOf, LimitReached, Readable
    <2>3. CASE ~LimitReached /\ pos' = [pos EXCEPT ![w] = 1] /\ Step(w, "emit") /\ UNCHANGED frag
      BY <1>0, <2>1, <2>3 DEF TrackOf, LimitReached, Readable
    <2> QED
      BY <1>9, <2>2, <2>3 DEF StartFragment
  <1>10. CASE EndFragment(w)
    <2>1. CleanBefore(i, k + 1, 1)
      BY <1>0, <1>1, <1>2, <1>10, CleanNextFragment DEF EndFragment, TrackOf, Matches
    <2> QED
      BY <1>0, <1>10, <2>1 DEF EndFragment, NextFragment, TrackOf
  <1>11. CASE BuildFails(w)
    <2>1. /\ wpc[w] = "emit" /\ wpc'[w] = "fragment" /\ UNCHANGED job
          /\ frag'[w] = Len(Fragments[i]) + 1 /\ Len(Fragments[i]) \in Nat
      BY <1>1, <1>11, PlacesAreNumbers DEF BuildFails, AtMatch
    <2>2. ~(frag'[w] <= Len(Fragments[job'[w]]))
      BY <2>1
    <2> QED
      BY <1>0, <2>1, <2>2 DEF TrackOf
  <1>12. CASE IgnoreMatch(w)
    <2>1. CleanBefore(i, k, n + 1)
      BY <1>0, <1>1, <1>2, <1>3, <1>12, CleanNextMatch DEF IgnoreMatch, AtMatch, TrackOf, Matches
    <2> QED
      BY <1>0, <1>12, <2>1 DEF IgnoreMatch, AtMatch, NextMatch, TrackOf
  <1>13. CASE CountMatch(w)
    <2>1. CASE MaxFindings > 0 /\ findingsCounter' > MaxFindings
      <3>1. LimitReached' /\ NextFragment(w) /\ wpc[w] = "emit" /\ UNCHANGED job
        BY <1>13, <2>1, PipelineAssumption
           DEF CountMatch, AtMatch, LimitReached, PipelineAssumption, ResourceTypes
      <3> QED
        BY <1>0, <3>1 DEF NextFragment, TrackOf
    <2>2. CASE ~(MaxFindings > 0 /\ findingsCounter' > MaxFindings)
      BY <1>0, <1>13, <2>2 DEF CountMatch, AtMatch, TrackOf, Matches
    <2> QED
      BY <2>1, <2>2
  <1>14. CASE SendSecret(w)
    <2>1. CleanBefore(i, k, n + 1)
      BY <1>0, <1>1, <1>2, <1>3, <1>14, CleanNextMatch DEF SendSecret, TrackOf, Matches
    <2> QED
      BY <1>0, <1>14, <2>1 DEF SendSecret, NextMatch, TrackOf
  <1> QED
    BY <1>4, <1>5, <1>6, <1>7, <1>8, <1>9, <1>10, <1>11, <1>12, <1>13, <1>14 DEF Worker

\* Every worker stays on track: a match is only sent when nothing before it in
\* its item ended the task, and it is neither ignored nor beyond building.
THEOREM WorkersStayOnTrack == Spec => []OnTrack
  <1>1. Init => OnTrack
    BY DEF Init, OnTrack
  <1>2. TypeOK /\ OnTrack /\ [Next]_vars => OnTrack'
    <2> SUFFICES ASSUME TypeOK, OnTrack, [Next]_vars, NEW v \in Workers PROVE TrackOf(v)'
      BY DEF OnTrack, TrackOf
    <2>1. ASSUME wpc'[v] = wpc[v], job'[v] = job[v], frag'[v] = frag[v], pos'[v] = pos[v] PROVE TrackOf(v)'
      <3>1. ~LimitReached' => ~LimitReached
        BY LimitIsPassedOnce
      <3> QED
        BY <2>1, <3>1 DEF OnTrack, TrackOf, Matches
    <2>2. ASSUME NEW w \in Workers, Worker(w) PROVE TrackOf(v)'
      <3>1. CASE v = w
        BY <2>2, <3>1, WorkerStaysOnTrack
      <3>2. CASE v # w
        BY <2>1, <2>2, <3>2
           DEF Worker, TakeTask, SkipFile, AcquireMemory, TakeMemory, QueueForMemory, GrantMemory, StartFragment,
               EndFragment, BuildFails, IgnoreMatch, CountMatch, SendSecret, FinishTask, Return, Step,
               NextFragment, NextMatch, TypeOK, WorkerTypes
      <3> QED
        BY <3>1, <3>2
    <2>3. CASE ~\E w \in Workers : Worker(w)
      BY <2>1, <2>3 DEF Next, Plugin, ProcessItems, ProcessSecrets, ProcessExtras, ProcessEvaluation,
         OnlySecretsChange, WaitReturns, Terminated, vars, workerVars
    <2> QED
      BY <2>2, <2>3
  <1> QED
    BY <1>1, <1>2, TypeCorrect, PTL DEF Spec, Safety

-----------------------------------------------------------------------------
(* What is sent.                                                           *)

LEMMA SentByWorker ==
  ASSUME TypeOK, NEW w \in Workers, SendSecret(w), UNCHANGED <<goVars, reportVars>>
  PROVE  Sent' = Sent \cup {Matches(w)[pos[w]]}
  <1>1. Matches(w)[pos[w]] \in Findings
    BY PipelineAssumption DEF PipelineAssumption, SendSecret, TypeOK, WorkerTypes, Matches
  <1>2. buf["secrets"] \in Seq(Findings) /\ buf'["secrets"] = Append(buf["secrets"], Matches(w)[pos[w]])
    BY DEF SendSecret, Push, TypeOK, ChannelTypes
  <1>3. Range(buf'["secrets"]) = Range(buf["secrets"]) \cup {Matches(w)[pos[w]]}
    BY <1>1, <1>2, Enqueued
  <1>4. Reported' = Reported /\ UNCHANGED <<pc, hand>>
    BY ReportUnchanged DEF reportVars, goVars
  <1> QED
    BY <1>3, <1>4 DEF Sent, Holding

\* No other step adds to what is sent or takes from it.
LEMMA SentUnchanged ==
  ASSUME TypeOK, [Next]_vars, \A w \in Workers : ~(Worker(w) /\ SendSecret(w))
  PROVE  Sent' = Sent
  <1> DEFINE late == {"extras", "evaluation", "append"}
             mine == Holding("processSecrets", late)
  <1>1. CASE ProcessSecrets /\ ReceiveSecret
    <2>1. /\ buf["secrets"] \in Seq(Findings) /\ buf["secrets"] # <<>> /\ buf'["secrets"] = Tail(buf["secrets"])
          /\ mine = {} /\ mine' = {Head(buf["secrets"])} /\ UNCHANGED results
      BY <1>1 DEF ReceiveSecret, Receive, Goto, Holding, TypeOK, ChannelTypes, GoroutineTypes
    <2>2. Range(buf["secrets"]) = Range(buf'["secrets"]) \cup mine'
      BY <2>1, Dequeued
    <2> QED
      BY <2>1, <2>2, ReportUnchanged DEF Sent
  <1>2. CASE ProcessSecrets /\ AppendResult
    <2>1. mine = {hand["processSecrets"]} /\ mine' = {} /\ UNCHANGED buf
      BY <1>2 DEF AppendResult, LetGo, Goto, Holding, chanVars, TypeOK, GoroutineTypes
    <2> QED
      BY <1>2, <2>1, Appended DEF Sent
  <1>3. CASE ProcessSecrets /\ ~ReceiveSecret /\ ~AppendResult
    <2>1. mine' = mine /\ buf'["secrets"] = buf["secrets"] /\ UNCHANGED results
      BY <1>3 DEF ProcessSecrets, SendToExtras, SendToEvaluation, SecretsDrained, CloseExtras,
                  CloseEvaluation, Send, Push, Drained, Close, Goto, Holding, chanVars, TypeOK,
                  ChannelTypes, GoroutineTypes
    <2> QED
      BY <2>1, ReportUnchanged DEF Sent
  <1>4. CASE \E w \in Workers : Worker(w) /\ ~SendSecret(w)
    <2>1. UNCHANGED <<pc, hand, buf, results>>
      BY <1>4 DEF Worker, TakeTask, SkipFile, AcquireMemory, TakeMemory, QueueForMemory, GrantMemory,
                  StartFragment, EndFragment, BuildFails, IgnoreMatch, CountMatch, FinishTask,
                  goVars, chanVars, reportVars
    <2> QED
      BY <2>1, ReportUnchanged DEF Sent, Holding
  <1>5. CASE Plugin \/ ProcessItems \/ ProcessExtras \/ ProcessEvaluation \/ WaitReturns \/ UNCHANGED vars
    <2>1. UNCHANGED results /\ buf'["secrets"] = buf["secrets"]
      BY <1>5 DEF Plugin, CloseItems, SendItem, ProcessItems, ReceiveItem, SubmitTask, ItemsDrained,
                  CloseQueue, WaitForPool, CloseSecrets, ProcessExtras, ReceiveForExtras, AddExtras,
                  ExtrasDrained, ProcessEvaluation, ReceiveForEvaluation, RegisterForValidation,
                  AssignScoreAndSeverity, EvaluationDrained, ValidatePairs, OnlySecretsChange,
                  WaitReturns, vars, Receive, Push, Drained, Close, chanVars, reportVars, TypeOK, ChannelTypes
    <2>2. pc'["processSecrets"] = pc["processSecrets"] /\ hand'["processSecrets"] = hand["processSecrets"]
      BY <1>5 DEF Plugin, ProcessItems, ReceiveItem, SubmitTask, ItemsDrained,
                  CloseQueue, WaitForPool, CloseSecrets, ProcessExtras, ReceiveForExtras, AddExtras,
                  ExtrasDrained, ProcessEvaluation, ReceiveForEvaluation, RegisterForValidation,
                  AssignScoreAndSeverity, EvaluationDrained, ValidatePairs,
                  WaitReturns, vars, Receive, Drained, Close, LetGo, Goto, goVars, TypeOK, GoroutineTypes
    <2> QED
      BY <2>1, <2>2, ReportUnchanged DEF Sent, Holding
  <1> QED
    BY <1>1, <1>2, <1>3, <1>4, <1>5 DEF Next, Terminated

\* Only a worker takes an item from those still to do.
LEMMA TodoUnchanged ==
  ASSUME TypeOK, ItemsOnce, [Next]_vars, ~\E w \in Workers : Worker(w) PROVE Todo' = Todo
  <1>1. CASE Plugin \/ ProcessItems
    BY <1>1, PluginKeepsItems, ProcessItemsKeepsItems
  <1>2. CASE ~Plugin /\ ~ProcessItems
    <2>1. /\ UNCHANGED <<unsent, queue>> /\ buf'["items"] = buf["items"]
          /\ pc'["processItems"] = pc["processItems"] /\ hand'["processItems"] = hand["processItems"]
      BY <1>2
         DEF Next, Terminated, ProcessSecrets, ReceiveSecret, SendToExtras, SendToEvaluation, AppendResult,
             SecretsDrained, CloseExtras, CloseEvaluation, ProcessExtras, ReceiveForExtras, AddExtras,
             ExtrasDrained, ProcessEvaluation, ReceiveForEvaluation, RegisterForValidation,
             AssignScoreAndSeverity, EvaluationDrained, ValidatePairs, WaitReturns, vars, Receive, Send,
             Push, Drained, Close, LetGo, Goto, chanVars, goVars, poolVars, OnlySecretsChange, TypeOK,
             ChannelTypes, GoroutineTypes
    <2> QED
      BY <2>1 DEF Todo, Holding
  <1> QED
    BY <1>1, <1>2

\* A match that no worker will come to any more stays so.
LEMMA GoneForGood ==
  ASSUME TypeOK, ItemsOnce, [Next]_vars,
         NEW i \in Items, NEW k \in DOMAIN Fragments[i], NEW n \in DOMAIN Fragments[i][k], Gone(i, k, n)
  PROVE  Gone(i, k, n)'
  <1>1. CASE \E w \in Workers : Worker(w) /\ TakeTask(w)
    <2>1. PICK w \in Workers : Worker(w) /\ TakeTask(w)
      BY <1>1
    <2>2. /\ Todo = Todo' \cup {job'[w]} /\ Busy' = Busy \cup {w} /\ w \notin Busy
          /\ \A v \in Busy : job'[v] = job[v]
      BY <2>1, TakeKeepsItems DEF Worker
    <2>3. i \notin Todo' /\ job'[w] # i
      BY <2>2 DEF Gone
    <2>4. \A v \in Busy : wpc'[v] = wpc[v] /\ frag'[v] = frag[v] /\ pos'[v] = pos[v]
      BY <2>1, <2>2 DEF TakeTask, Step, Busy, TypeOK, WorkerTypes
    <2> QED
      BY <2>2, <2>3, <2>4 DEF Gone, Passed
  <1>2. CASE \E w \in Workers : Worker(w) /\ ~TakeTask(w)
    <2>1. PICK w \in Workers : Worker(w) /\ ~TakeTask(w)
      BY <1>2
    <2>2. /\ Todo' = Todo /\ w \in Busy /\ \A v \in Busy' : v \in Busy /\ job'[v] = job[v]
          /\ \A v \in Workers \ {w} : wpc'[v] = wpc[v] /\ job'[v] = job[v] /\ frag'[v] = frag[v] /\ pos'[v] = pos[v]
      BY <2>1, WorkKeepsItems
    <2>3. ASSUME w \in Busy', job[w] = i, Passed(w, k, n) PROVE Passed(w, k, n)'
      <3> USE DEF TypeOK, WorkerTypes, Step, NextFragment, NextMatch, Passed, Busy
      <3>0. k \in Nat /\ n \in Nat /\ Len(Fragments[i]) \in Nat /\ k <= Len(Fragments[i])
        BY PlacesAreNumbers
      <3>1. CASE StartFragment(w)
        <4>1. wpc[w] = "fragment" /\ k < frag[w] /\ (frag'[w] = frag[w] \/ frag'[w] = frag[w] + 1)
              /\ wpc'[w] \in {"fragment", "emit"}
          BY <2>3, <3>1 DEF StartFragment
        <4> QED
          BY <3>0, <4>1
      <3>2. CASE EndFragment(w)
        BY <2>3, <3>0, <3>2 DEF EndFragment
      <3>3. CASE BuildFails(w)
        BY <2>3, <3>0, <3>3 DEF BuildFails, AtMatch
      <3>4. CASE IgnoreMatch(w) \/ SendSecret(w)
        BY <2>3, <3>0, <3>4 DEF IgnoreMatch, AtMatch, SendSecret
      <3>5. CASE CountMatch(w)
        BY <2>3, <3>0, <3>5 DEF CountMatch, AtMatch
      <3>6. CASE SkipFile(w) \/ FinishTask(w)
        BY <2>3, <3>6 DEF SkipFile, FinishTask, Return
      <3>7. CASE AcquireMemory(w) \/ QueueForMemory(w) \/ GrantMemory(w)
        BY <2>3, <3>7 DEF AcquireMemory, WantsMemory, QueueForMemory, GrantMemory
      <3> QED
        BY <2>1, <3>1, <3>2, <3>3, <3>4, <3>5, <3>6, <3>7 DEF Worker
    <2> QED
      BY <2>2, <2>3 DEF Gone, Passed, Busy
  <1>3. CASE ~\E w \in Workers : Worker(w)
    <2>1. UNCHANGED workerVars
      BY <1>3 DEF Next, Plugin, ProcessItems, ProcessSecrets, ProcessExtras, ProcessEvaluation,
         OnlySecretsChange, WaitReturns, Terminated, vars
    <2>2. Todo' = Todo
      BY <1>3, TodoUnchanged
    <2> QED
      BY <2>1, <2>2 DEF workerVars, Gone, Passed, Busy
  <1> QED
    BY <1>1, <1>2, <1>3

\* the match a sender is about to send
LEMMA SenderPlace ==
  ASSUME TypeOK, OnTrack, NEW w \in Workers, SendSecret(w)
  PROVE  /\ job[w] \in Items /\ frag[w] \in DOMAIN Fragments[job[w]]
         /\ pos[w] \in DOMAIN Fragments[job[w]][frag[w]] /\ pos[w] \in Nat /\ w \in Busy
         /\ Wanted(job[w], frag[w], pos[w]) /\ ~Passed(w, frag[w], pos[w])
  <1>1. /\ job[w] \in Items /\ wpc[w] = "send" /\ frag[w] \in Nat \ {0} /\ pos[w] \in Nat \ {0}
        /\ frag[w] <= Len(Fragments[job[w]]) /\ pos[w] <= Len(Fragments[job[w]][frag[w]])
    BY DEF SendSecret, TypeOK, WorkerTypes, Matches
  <1>2. frag[w] \in DOMAIN Fragments[job[w]]
    BY <1>1, PlacesAreNumbers
  <1>3. pos[w] \in DOMAIN Fragments[job[w]][frag[w]]
    BY <1>1, <1>2, PlacesAreNumbers
  <1>4. Wanted(job[w], frag[w], pos[w])
    BY <1>1 DEF OnTrack, Matches, Wanted
  <1> QED
    BY <1>1, <1>2, <1>3, <1>4 DEF Busy, Passed

\* The findings limit holds back what is not wanted only: whatever the workers
\* have sent is wanted, and they will not come to it again.
THEOREM OnlyWantedIsSent == Spec => []SentIsWanted
  <1>1. Init => SentIsWanted
    <2> SUFFICES ASSUME Init PROVE Sent = {}
      BY DEF SentIsWanted
    <2> QED
      BY EmptyQueue DEF Init, Sent, Reported, Holding
  <1>2. TypeOK /\ ItemsOnce /\ OnTrack /\ SentIsWanted /\ [Next]_vars => SentIsWanted'
    <2> SUFFICES ASSUME TypeOK, ItemsOnce, OnTrack, SentIsWanted, [Next]_vars, NEW f \in Sent'
                 PROVE  \E i \in Items : \E k \in DOMAIN Fragments[i] : \E n \in DOMAIN Fragments[i][k] :
                          f = Fragments[i][k][n] /\ Wanted(i, k, n) /\ Gone(i, k, n)'
      BY DEF SentIsWanted, Wanted, Readable, CleanBefore
    <2>1. CASE f \in Sent
      <3>1. PICK i \in Items : \E k \in DOMAIN Fragments[i] : \E n \in DOMAIN Fragments[i][k] :
               f = Fragments[i][k][n] /\ Wanted(i, k, n) /\ Gone(i, k, n)
        BY <2>1 DEF SentIsWanted
      <3>2. PICK k \in DOMAIN Fragments[i] : \E n \in DOMAIN Fragments[i][k] :
               f = Fragments[i][k][n] /\ Wanted(i, k, n) /\ Gone(i, k, n)
        BY <3>1
      <3>3. PICK n \in DOMAIN Fragments[i][k] :
               f = Fragments[i][k][n] /\ Wanted(i, k, n) /\ Gone(i, k, n)
        BY <3>2
      <3> QED
        BY <3>3, GoneForGood
    <2>2. CASE f \notin Sent
      <3>1. PICK w \in Workers : Worker(w) /\ SendSecret(w)
        BY <2>2, SentUnchanged
      <3>2. f = Matches(w)[pos[w]]
        BY <2>2, <3>1, SentByWorker DEF Worker
      <3>3. PICK i \in Items, k \in Nat, n \in Nat : i = job[w] /\ k = frag[w] /\ n = pos[w]
        BY <3>1, SenderPlace DEF TypeOK, WorkerTypes
      <3>4. /\ k \in DOMAIN Fragments[i] /\ n \in DOMAIN Fragments[i][k]
            /\ Wanted(i, k, n) /\ w \in Busy
        BY <3>1, <3>3, SenderPlace
      <3>5. ~TakeTask(w)
        BY <3>1 DEF SendSecret, TakeTask
      <3>6. i \notin Todo' /\ \A v \in Busy' : v \in Busy /\ job'[v] = job[v]
        BY <3>1, <3>3, <3>4, <3>5, WorkKeepsItems DEF ItemsOnce
      <3>7. Passed(w, k, n)'
        BY <3>1, <3>3 DEF SendSecret, NextMatch, Step, Passed, TypeOK, WorkerTypes
      <3>8. Gone(i, k, n)'
        <4>1. \A v \in Busy' : job'[v] = i => v = w
          BY <3>3, <3>4, <3>6 DEF ItemsOnce
        <4> QED
          BY <3>6, <3>7, <4>1 DEF Gone
      <3> QED
        BY <3>2, <3>3, <3>4, <3>8 DEF Matches
    <2> QED
      BY <2>1, <2>2
  <1> QED
    BY <1>1, <1>2, TypeCorrect, EveryItemIsTakenOnce, WorkersStayOnTrack, PTL DEF Spec, Safety

\* Below the limit, a worker gets behind a wanted match only by sending it.
LEMMA PassedBySending ==
  ASSUME TypeOK, OnTrack, NEW w \in Workers, Worker(w), w \in Busy, ~LimitReached', ~LimitReached,
         NEW i \in Items, i = job[w], NEW k \in DOMAIN Fragments[i], NEW n \in DOMAIN Fragments[i][k],
         Wanted(i, k, n), ~Passed(w, k, n), w \notin Busy' \/ Passed(w, k, n)'
  PROVE  SendSecret(w) /\ k = frag[w] /\ n = pos[w]
  <1> USE DEF TypeOK, WorkerTypes, Step, NextFragment, NextMatch, Passed, Busy
  <1>0. /\ k \in Nat \ {0} /\ n \in Nat \ {0} /\ Len(Fragments[i]) \in Nat /\ k <= Len(Fragments[i])
        /\ Len(Fragments[i][k]) \in Nat /\ n <= Len(Fragments[i][k])
        /\ frag[w] \in Nat \ {0} /\ pos[w] \in Nat \ {0}
    <2>1. Fragments[i][k] \in Seq(Findings)
      BY PlacesAreNumbers
    <2> QED
      BY <2>1, PlacesAreNumbers
  <1>1. CASE SkipFile(w)
    BY <1>1, PipelineAssumption DEF PipelineAssumption, SkipFile, OnTrack, Wanted, Readable
  <1>2. CASE AcquireMemory(w) \/ QueueForMemory(w) \/ GrantMemory(w)
    <2>1. frag'[w] = 1 /\ wpc'[w] \in {"fragment", "waitMemory"}
      BY <1>2 DEF AcquireMemory, TakeMemory, WantsMemory, QueueForMemory, GrantMemory, OnTrack
    <2> QED
      BY <1>0, <2>1
  <1>3. CASE StartFragment(w)
    <2>1. wpc'[w] = "emit" /\ pos'[w] = 1 /\ UNCHANGED frag /\ wpc[w] = "fragment"
      BY <1>3 DEF StartFragment
    <2> QED
      BY <1>0, <2>1
  <1>4. CASE EndFragment(w)
    <2>1. /\ wpc[w] = "emit" /\ frag'[w] = frag[w] + 1 /\ wpc'[w] = "fragment"
          /\ pos[w] > Len(Fragments[i][frag[w]])
      BY <1>4 DEF EndFragment, Matches
    <2>2. k = frag[w]
      BY <1>0, <2>1
    <2> QED
      BY <1>0, <2>1, <2>2
  <1>5. CASE BuildFails(w)
    <2>1. /\ wpc[w] = "emit" /\ frag[w] \in DOMAIN Fragments[i] /\ pos[w] \in DOMAIN Fragments[i][frag[w]]
          /\ Fragments[i][frag[w]][pos[w]] \in Unbuildable
      <3>1. wpc[w] = "emit" /\ frag[w] <= Len(Fragments[i]) /\ pos[w] <= Len(Fragments[i][frag[w]])
            /\ Fragments[i][frag[w]][pos[w]] \in Unbuildable
        BY <1>5 DEF BuildFails, AtMatch, Matches
      <3>2. frag[w] \in DOMAIN Fragments[i]
        BY <1>0, <3>1, PlacesAreNumbers
      <3> QED
        BY <1>0, <3>1, <3>2, PlacesAreNumbers
    <2>2. frag[w] < k \/ (frag[w] = k /\ pos[w] < n) \/ (frag[w] = k /\ pos[w] = n)
      BY <1>0, <2>1
    <2> QED
      BY <2>1, <2>2 DEF Wanted, CleanBefore
  <1>6. CASE IgnoreMatch(w)
    <2>1. /\ wpc[w] = "emit" /\ wpc'[w] = "emit" /\ UNCHANGED frag /\ pos'[w] = pos[w] + 1
          /\ Fragments[i][frag[w]][pos[w]] \in Ignored
      BY <1>6 DEF IgnoreMatch, AtMatch, Matches
    <2>2. k = frag[w] /\ n = pos[w]
      BY <1>0, <2>1
    <2> QED
      BY <2>1, <2>2 DEF Wanted
  <1>7. CASE CountMatch(w)
    <2>1. ~(MaxFindings > 0 /\ findingsCounter' > MaxFindings)
      BY PipelineAssumption, <1>7
         DEF PipelineAssumption, LimitReached, CountMatch, AtMatch, ResourceTypes
    <2>2. wpc[w] = "emit" /\ wpc'[w] = "send" /\ UNCHANGED <<frag, pos>>
      BY <1>7, <2>1 DEF CountMatch, AtMatch
    <2> QED
      BY <1>0, <2>2
  <1>8. CASE SendSecret(w)
    <2>1. wpc[w] = "send" /\ wpc'[w] = "emit" /\ UNCHANGED frag /\ pos'[w] = pos[w] + 1
      BY <1>8 DEF SendSecret
    <2> QED
      BY <1>0, <1>8, <2>1
  <1>9. CASE FinishTask(w)
    BY <1>0, <1>9 DEF FinishTask
  <1>10. CASE TakeTask(w)
    BY <1>10 DEF TakeTask
  <1> QED
    BY <1>1, <1>2, <1>3, <1>4, <1>5, <1>6, <1>7, <1>8, <1>9, <1>10 DEF Worker

\* Below the limit nothing wanted is lost: what the workers will not come to any
\* more has been sent.
THEOREM NothingWantedIsLost == Spec => []WantedIsSent
  <1>1. Init => WantedIsSent
    <2> SUFFICES ASSUME Init PROVE Todo = Items
      BY DEF WantedIsSent, Gone
    <2> QED
      BY EmptyQueue DEF Init, Todo, Holding
  <1>2. TypeOK /\ ItemsOnce /\ OnTrack /\ WantedIsSent /\ [Next]_vars => WantedIsSent'
    <2> SUFFICES ASSUME TypeOK, ItemsOnce, OnTrack, WantedIsSent, [Next]_vars, ~LimitReached',
                        NEW i \in Items, NEW k \in DOMAIN Fragments[i], NEW n \in DOMAIN Fragments[i][k],
                        Wanted(i, k, n), Gone(i, k, n)'
                 PROVE  Fragments[i][k][n] \in Sent'
      BY DEF WantedIsSent, Wanted, Readable, CleanBefore
    <2>1. ~LimitReached
      BY LimitIsPassedOnce
    <2>2. Sent \subseteq Sent'
      <3>1. CASE \E w \in Workers : Worker(w) /\ SendSecret(w)
        BY <3>1, SentByWorker DEF Worker
      <3> QED
        BY <3>1, SentUnchanged
    <2>3. CASE Gone(i, k, n)
      BY <2>1, <2>2, <2>3 DEF WantedIsSent
    <2>4. ASSUME ~Gone(i, k, n), NEW w \in Workers, Worker(w), ~TakeTask(w) PROVE Fragments[i][k][n] \in Sent'
      <3>1. /\ Todo' = Todo /\ w \in Busy
            /\ \A v \in Workers \ {w} : wpc'[v] = wpc[v] /\ job'[v] = job[v] /\ frag'[v] = frag[v] /\ pos'[v] = pos[v]
            /\ \A v \in Busy' : v \in Busy /\ job'[v] = job[v]
        BY <2>4, WorkKeepsItems
      <3>2. PICK v \in Busy : job[v] = i /\ ~Passed(v, k, n)
        BY <2>4, <3>1 DEF Gone
      <3>3. v \notin Busy' \/ Passed(v, k, n)'
        BY <3>1, <3>2 DEF Gone
      <3>4. v = w
        BY <3>1, <3>2, <3>3 DEF Busy, Passed
      <3>5. SendSecret(w) /\ k = frag[w] /\ n = pos[w]
        BY <2>1, <2>4, <3>2, <3>3, <3>4, PassedBySending DEF Busy
      <3> QED
        BY <2>4, <3>2, <3>4, <3>5, SentByWorker DEF Worker, Matches
    <2>5. ASSUME ~Gone(i, k, n), NEW w \in Workers, Worker(w), TakeTask(w) PROVE FALSE
      <3>1. /\ Todo = Todo' \cup {job'[w]} /\ Busy' = Busy \cup {w} /\ w \notin Busy
            /\ \A v \in Busy : job'[v] = job[v]
        BY <2>5, TakeKeepsItems DEF Worker
      <3>2. wpc'[w] \in {"open", "fragment"} /\ frag'[w] = 1
            /\ \A v \in Workers \ {w} : wpc'[v] = wpc[v] /\ frag'[v] = frag[v] /\ pos'[v] = pos[v]
        BY <2>5 DEF TakeTask, Step, OnTrack, TypeOK, WorkerTypes
      <3>3. ~Passed(w, k, n)'
        BY <3>2, PlacesAreNumbers DEF Passed
      <3>4. job'[w] # i
        BY <3>1, <3>3 DEF Gone
      <3>5. \A v \in Busy : Passed(v, k, n)' => Passed(v, k, n)
        BY <3>1, <3>2 DEF Passed, Busy
      <3> QED
        BY <2>5, <3>1, <3>4, <3>5 DEF Gone
    <2>6. CASE ~\E w \in Workers : Worker(w)
      <3>1. UNCHANGED workerVars
        BY <2>6 DEF Next, Plugin, ProcessItems, ProcessSecrets, ProcessExtras, ProcessEvaluation,
           OnlySecretsChange, WaitReturns, Terminated, vars
      <3>2. Todo' = Todo
        BY <2>6, TodoUnchanged
      <3>3. Gone(i, k, n)
        BY <3>1, <3>2 DEF Gone, Passed, Busy, workerVars
      <3> QED
        BY <2>3, <3>3
    <2> QED
      BY <2>3, <2>4, <2>5, <2>6
  <1> QED
    BY <1>1, <1>2, TypeCorrect, EveryItemIsTakenOnce, WorkersStayOnTrack, PTL DEF Spec, Safety

LEMMA SendKeepsOnce ==
  ASSUME TypeOK, OnTrack, SentIsWanted, SentOnce, NEW w \in Workers, Worker(w), SendSecret(w)
  PROVE  SentOnce'
  <1>1. PICK f \in Findings : f = Matches(w)[pos[w]]
    BY PipelineAssumption DEF PipelineAssumption, SendSecret, TypeOK, WorkerTypes, Matches
  <1>2. f \notin Sent
    <2> SUFFICES ASSUME f \in Sent PROVE FALSE
      OBVIOUS
    <2>1. PICK i \in Items : \E k \in DOMAIN Fragments[i] : \E n \in DOMAIN Fragments[i][k] :
             f = Fragments[i][k][n] /\ Gone(i, k, n)
      BY DEF SentIsWanted
    <2>2. PICK k \in DOMAIN Fragments[i] : \E n \in DOMAIN Fragments[i][k] :
             f = Fragments[i][k][n] /\ Gone(i, k, n)
      BY <2>1
    <2>3. PICK n \in DOMAIN Fragments[i][k] : f = Fragments[i][k][n] /\ Gone(i, k, n)
      BY <2>2
    <2>4. /\ job[w] \in Items /\ frag[w] \in DOMAIN Fragments[job[w]]
          /\ pos[w] \in DOMAIN Fragments[job[w]][frag[w]]
          /\ Fragments[job[w]][frag[w]][pos[w]] = Fragments[i][k][n]
      BY <1>1, <2>3, SenderPlace DEF Matches
    <2>5. job[w] = i /\ frag[w] = k /\ pos[w] = n
      BY <2>4, EachFindingHasOnePlace
    <2>6. w \in Busy /\ ~Passed(w, k, n)
      BY <2>5, SenderPlace
    <2> QED
      BY <2>3, <2>5, <2>6 DEF Gone
  <1>3. buf["secrets"] \in Seq(Findings) /\ buf'["secrets"] = Append(buf["secrets"], f)
    BY <1>1 DEF SendSecret, Push, TypeOK, ChannelTypes
  <1>4. f \notin Range(buf["secrets"])
    BY <1>2 DEF Sent
  <1>5. Range(buf'["secrets"]) = Range(buf["secrets"]) \cup {f} /\ NoDuplicates(buf'["secrets"])
    BY <1>3, <1>4, Enqueued DEF SentOnce
  <1>6. Reported' = Reported /\ UNCHANGED <<pc, hand, totalSecrets>>
    BY ReportUnchanged DEF Worker, reportVars, goVars
  <1> QED
    BY <1>2, <1>5, <1>6 DEF SentOnce, Sent, Holding, Unfinished

LEMMA SecretsKeepOnce ==
  ASSUME TypeOK, SentOnce, ProcessSecrets PROVE SentOnce'
  <1> DEFINE late == {"extras", "evaluation", "append"}
             mine == Holding("processSecrets", late)
  <1>0. totalSecrets \in Nat /\ Cardinality(Reported) \in Nat /\ IsFiniteSet(Reported)
    BY FS_CardinalityType DEF TypeOK, ReportTypes, SentOnce
  <1>1. CASE ReceiveSecret
    <2>1. /\ buf["secrets"] \in Seq(Findings) /\ buf["secrets"] # <<>> /\ buf'["secrets"] = Tail(buf["secrets"])
          /\ mine' = {Head(buf["secrets"])} /\ UNCHANGED results
          /\ totalSecrets' = totalSecrets + 1 /\ Unfinished = 0 /\ Unfinished' = 1
      BY <1>1 DEF ReceiveSecret, Receive, Goto, Holding, Unfinished, TypeOK, ChannelTypes, GoroutineTypes
    <2>2. /\ Range(buf["secrets"]) = Range(buf'["secrets"]) \cup mine' /\ NoDuplicates(buf'["secrets"])
          /\ mine' \cap Range(buf'["secrets"]) = {}
      BY <2>1, Dequeued DEF SentOnce
    <2>3. Reported' = Reported
      BY <2>1, ReportUnchanged
    <2> HIDE DEF mine
    <2>4. mine' \cap (Reported' \cup Range(buf'["secrets"])) = {} /\ Range(buf'["secrets"]) \cap Reported' = {}
      BY <2>2, <2>3 DEF SentOnce
    <2>5. totalSecrets' = Cardinality(Reported') + Unfinished'
      BY <1>0, <2>1, <2>3 DEF SentOnce
    <2> QED
      BY <1>0, <2>2, <2>3, <2>4, <2>5 DEF SentOnce, mine
  <1>2. CASE AppendResult
    <2>1. /\ mine = {hand["processSecrets"]} /\ mine' = {} /\ UNCHANGED <<buf, totalSecrets>>
          /\ Unfinished = 1 /\ Unfinished' = 0
      BY <1>2 DEF AppendResult, LetGo, Goto, Holding, Unfinished, chanVars, TypeOK, GoroutineTypes
    <2>2. Reported' = Reported \cup {hand["processSecrets"]} /\ hand["processSecrets"] \notin Reported
      BY <1>2, <2>1, Appended DEF SentOnce
    <2>3. IsFiniteSet(Reported') /\ Cardinality(Reported') = Cardinality(Reported) + 1
      BY <1>0, <2>2, FS_AddElement
    <2>4. totalSecrets' = Cardinality(Reported') + Unfinished'
      BY <1>0, <2>1, <2>3 DEF SentOnce
    <2>5. hand["processSecrets"] \notin Range(buf["secrets"])
      BY <2>1 DEF SentOnce
    <2> QED
      BY <2>1, <2>2, <2>3, <2>4, <2>5 DEF SentOnce
  <1>3. CASE ~ReceiveSecret /\ ~AppendResult
    <2>1. mine' = mine /\ buf'["secrets"] = buf["secrets"] /\ UNCHANGED <<results, totalSecrets>>
          /\ Unfinished' = Unfinished
      BY <1>3 DEF ProcessSecrets, SendToExtras, SendToEvaluation, SecretsDrained, CloseExtras,
                  CloseEvaluation, Send, Push, Drained, Close, Goto, Holding, Unfinished, chanVars, TypeOK,
                  ChannelTypes, GoroutineTypes
    <2> QED
      BY <2>1, ReportUnchanged DEF SentOnce
  <1> QED
    BY <1>1, <1>2, <1>3

\* Each secret is sent once and stands in the report once, so the report's total
\* is the number of different secrets in it.
THEOREM EverySecretIsSentOnce == Spec => []SentOnce
  <1>1. Init => SentOnce
    <2> SUFFICES ASSUME Init PROVE SentOnce
      OBVIOUS
    <2>1. Reported = {}
      BY EmptyQueue DEF Init, Reported
    <2> QED
      BY <2>1, EmptyQueue, FS_EmptySet DEF Init, SentOnce, Holding, Unfinished
  <1>2. TypeOK /\ OnTrack /\ SentIsWanted /\ SentOnce /\ [Next]_vars => SentOnce'
    <2> SUFFICES ASSUME TypeOK, OnTrack, SentIsWanted, SentOnce, [Next]_vars PROVE SentOnce'
      OBVIOUS
    <2>1. CASE \E w \in Workers : Worker(w) /\ SendSecret(w)
      BY <2>1, SendKeepsOnce
    <2>2. CASE ProcessSecrets
      BY <2>2, SecretsKeepOnce
    <2>3. CASE \/ \E w \in Workers : Worker(w) /\ ~SendSecret(w)
               \/ Plugin \/ ProcessItems \/ ProcessExtras \/ ProcessEvaluation \/ WaitReturns \/ UNCHANGED vars
      <3>1. UNCHANGED <<results, totalSecrets>>
        BY <2>3 DEF Worker, Plugin, ProcessItems, ReceiveItem, SubmitTask, ItemsDrained, CloseQueue,
                    WaitForPool, CloseSecrets, ProcessExtras, ProcessEvaluation, OnlySecretsChange,
                    WaitReturns, vars, reportVars
      <3>2. buf'["secrets"] = buf["secrets"]
        BY <2>3 DEF Worker, TakeTask, SkipFile, AcquireMemory, TakeMemory, QueueForMemory, GrantMemory,
                    StartFragment, EndFragment, BuildFails, IgnoreMatch, CountMatch, FinishTask,
                    Plugin, CloseItems, SendItem, ProcessItems, ReceiveItem, SubmitTask, ItemsDrained,
                    CloseQueue, WaitForPool, CloseSecrets, ProcessExtras, ReceiveForExtras, AddExtras,
                    ExtrasDrained, ProcessEvaluation, ReceiveForEvaluation, RegisterForValidation,
                    AssignScoreAndSeverity, EvaluationDrained, ValidatePairs, WaitReturns, vars,
                    Receive, Push, Drained, Close, chanVars, TypeOK, ChannelTypes
      <3>3. pc'["processSecrets"] = pc["processSecrets"] /\ hand'["processSecrets"] = hand["processSecrets"]
        BY <2>3 DEF Worker, Plugin, ProcessItems, ReceiveItem, SubmitTask, ItemsDrained,
                    CloseQueue, WaitForPool, CloseSecrets, ProcessExtras, ReceiveForExtras, AddExtras,
                    ExtrasDrained, ProcessEvaluation, ReceiveForEvaluation, RegisterForValidation,
                    AssignScoreAndSeverity, EvaluationDrained, ValidatePairs, WaitReturns, vars,
                    Receive, Drained, Close, LetGo, Goto, goVars, TypeOK, GoroutineTypes
      <3> QED
        BY <3>1, <3>2, <3>3, ReportUnchanged DEF SentOnce, Holding, Unfinished
    <2> QED
      BY <2>1, <2>2, <2>3 DEF Next, Terminated
  <1> QED
    BY <1>1, <1>2, TypeCorrect, WorkersStayOnTrack, OnlyWantedIsSent, PTL DEF Spec, Safety

-----------------------------------------------------------------------------
(* The pipeline implements ScanReport, as far as safety goes.              *)

LEMMA WantedIsEligible ==
  ASSUME NEW i \in Items, NEW k \in DOMAIN Fragments[i], NEW n \in DOMAIN Fragments[i][k], Wanted(i, k, n)
  PROVE  Fragments[i][k][n] \in Eligible
  <1> DEFINE At == UNION {{c} \X DOMAIN Fragments[i][c] : c \in DOMAIN Fragments[i]}
             Before(o, m) == o[1] < m[1] \/ (o[1] = m[1] /\ o[2] < m[2])
             Found(o) == Fragments[i][o[1]][o[2]]
             place == <<k, n>>
  <1>1. place \in At /\ Found(place) = Fragments[i][k][n]
    OBVIOUS
  <1>2. ASSUME NEW o \in At, Before(o, place) PROVE Found(o) \notin Unbuildable
    BY <1>2 DEF Wanted, CleanBefore
  <1>3. Found(place) \notin Ignored \cup Unbuildable
    BY DEF Wanted
  <1> HIDE DEF place, At, Before, Found
  <1>4. Found(place) \in EligibleIn(i)
    BY <1>1, <1>2, <1>3 DEF EligibleIn, At, Before, Found
  <1> QED
    BY <1>1, <1>4 DEF Eligible, Wanted, Readable

LEMMA EligibleIsWanted ==
  ASSUME NEW f \in Eligible
  PROVE  \E i \in Items : \E k \in DOMAIN Fragments[i] : \E n \in DOMAIN Fragments[i][k] :
           f = Fragments[i][k][n] /\ Wanted(i, k, n)
  <1>1. PICK i \in Items : f \in EligibleIn(i) /\ Readable(i)
    BY DEF Eligible, Readable
  <1> DEFINE At == UNION {{c} \X DOMAIN Fragments[i][c] : c \in DOMAIN Fragments[i]}
             Before(o, m) == o[1] < m[1] \/ (o[1] = m[1] /\ o[2] < m[2])
             Found(o) == Fragments[i][o[1]][o[2]]
  <1>2. PICK m \in At : /\ f = Found(m) /\ Found(m) \notin Ignored \cup Unbuildable
                        /\ \A o \in At : Before(o, m) => Found(o) \notin Unbuildable
    BY <1>1 DEF EligibleIn
  <1>3. PICK k \in DOMAIN Fragments[i] : \E n \in DOMAIN Fragments[i][k] : m = <<k, n>>
    BY <1>2
  <1>4. PICK n \in DOMAIN Fragments[i][k] : m = <<k, n>>
    BY <1>3
  <1>5. CleanBefore(i, k, n)
    <2> SUFFICES ASSUME NEW c \in DOMAIN Fragments[i], NEW d \in DOMAIN Fragments[i][c],
                        c < k \/ (c = k /\ d < n)
                 PROVE  Fragments[i][c][d] \notin Unbuildable
      BY DEF CleanBefore
    <2>1. <<c, d>> \in At /\ Before(<<c, d>>, m)
      BY <1>4
    <2> QED
      BY <1>2, <2>1
  <1> QED
    BY <1>1, <1>2, <1>4, <1>5 DEF Wanted

LEMMA SentIsEligible == ASSUME SentIsWanted PROVE Sent \subseteq Eligible
  BY WantedIsEligible DEF SentIsWanted

\* INSTANCE gives the instance a Cardinality of its own.
LEMMA FullReport == Report!Full <=> MaxFindings > 0 /\ Cardinality(Reported) = MaxFindings
  <1>1. Report!Cardinality(Reported) = Cardinality(Reported)
    BY DEF Report!Cardinality, Cardinality
  <1> QED
    BY <1>1 DEF Report!Full

\* the state every step of the refinement starts from
Accounted ==
  TypeOK /\ SlotsAccounted /\ ShutdownOrder /\ SentIsWanted /\ WantedIsSent /\ SentOnce

LEMMA AppendReports == ASSUME Accounted, AppendResult, UNCHANGED caller
                       PROVE  Report!Report(hand["processSecrets"]) /\ hand["processSecrets"] \in Eligible
  <1> USE DEF Accounted
  <1> DEFINE f == hand["processSecrets"]
  <1>1. pc["processSecrets"] = "append"
    BY DEF AppendResult
  <1>2. f \in Holding("processSecrets", {"extras", "evaluation", "append"}) /\ Unfinished = 1
    BY <1>1 DEF Holding, Unfinished
  <1>3. f \notin Reported /\ f \in Eligible
    BY <1>2, SentIsEligible DEF SentOnce, Sent
  <1>4. caller # "returned"
    BY <1>1 DEF ShutdownOrder
  <1>5. ~(MaxFindings > 0 /\ Cardinality(Reported) = MaxFindings)
    <2>1. /\ totalSecrets \in Nat /\ Len(buf["secrets"]) \in Nat /\ findingsCounter \in Nat
          /\ Cardinality(Reported) \in Nat /\ totalSecrets = Cardinality(Reported) + 1
      BY <1>2, FS_CardinalityType DEF TypeOK, ReportTypes, ResourceTypes, ChannelTypes, SentOnce
    <2>2. MaxFindings > 0 => Admitted <= MaxFindings
      BY <2>1, PipelineAssumption DEF PipelineAssumption, SlotsAccounted, LimitReached
    <2> QED
      BY <2>1, <2>2, SendersFinite, PipelineAssumption DEF PipelineAssumption, Admitted
  <1>6. Reported' = Reported \cup {f} /\ (caller' = "returned") = (caller = "returned")
    BY Appended
  <1> QED
    BY <1>3, <1>4, <1>5, <1>6, FullReport DEF Report!Report

LEMMA ReturnPublishes == ASSUME Accounted, WaitReturns PROVE Report!Publish
  <1> USE DEF Accounted
  <1>1. \A g \in Goroutines : pc[g] = "done"
    BY DEF WaitReturns
  <1>2. /\ PoolDrained /\ buf["secrets"] = <<>> /\ buf["items"] = <<>> /\ unsent = {}
    BY <1>1 DEF ShutdownOrder, NoSendAfterClose
  <1>3. Senders = {} /\ Busy = {} /\ Todo = {}
    BY <1>1, <1>2, EmptyQueue DEF PoolDrained, Senders, Busy, Todo, Holding
  <1>4. totalSecrets = IF LimitReached THEN MaxFindings ELSE findingsCounter
    <2>1. Admitted = totalSecrets
      BY <1>2, <1>3, FS_EmptySet DEF Admitted, TypeOK, ReportTypes
    <2> QED
      BY <2>1 DEF SlotsAccounted
  <1>5. Unfinished = 0 /\ Sent = Reported
    BY <1>1, <1>2, EmptyQueue DEF Unfinished, Sent, Holding
  <1>6. Cardinality(Reported) = totalSecrets
    BY <1>5, FS_CardinalityType DEF SentOnce
  <1>7. CASE LimitReached
    <2>1. MaxFindings > 0 /\ Cardinality(Reported) = MaxFindings
      BY <1>4, <1>6, <1>7 DEF LimitReached
    <2>2. Report!Full
      BY <2>1, FullReport
    <2> QED
      BY <2>2, ReportUnchanged DEF WaitReturns, reportVars, Report!Publish
  <1>8. CASE ~LimitReached
    <2>1. Eligible \subseteq Reported
      BY <1>3, <1>5, <1>8, EligibleIsWanted DEF WantedIsSent, Gone
    <2>2. Reported = Eligible
      BY <1>5, <2>1, SentIsEligible
    <2> QED
      BY <2>2, ReportUnchanged DEF WaitReturns, reportVars, Report!Publish
  <1> QED
    BY <1>7, <1>8

\* Whatever the interleaving of plugin, workers and goroutines, the report grows
\* by one eligible finding at a time, none twice and never past the limit; and
\* Wait returns only when it holds every eligible finding or the limit is
\* reached, after which it does not change.
THEOREM ImplementsReport == Spec => Report!Safety
  <1>1. Init => Report!Init
    <2> SUFFICES ASSUME Init PROVE Report!Init
      OBVIOUS
    <2>1. Reported = {}
      BY EmptyQueue DEF Init, Reported
    <2> QED
      BY <2>1 DEF Init, Report!Init
  <1>2. Accounted /\ [Next]_vars => [Report!Next]_(Report!vars)
    <2> SUFFICES ASSUME Accounted, [Next]_vars PROVE [Report!Next]_(Report!vars)
      OBVIOUS
    <2>1. CASE ProcessSecrets /\ AppendResult
      BY <2>1, AppendReports DEF ProcessSecrets, Report!Next
    <2>2. CASE WaitReturns
      BY <2>2, ReturnPublishes DEF Report!Next
    <2>3. CASE ~(ProcessSecrets /\ AppendResult) /\ ~WaitReturns
      <3>1. UNCHANGED <<results, caller>>
        BY <2>3 DEF Next, Plugin, ProcessItems, ReceiveItem, SubmitTask, ItemsDrained, CloseQueue,
                    WaitForPool, CloseSecrets, Worker, ProcessSecrets, ReceiveSecret, SendToExtras,
                    SendToEvaluation, SecretsDrained, CloseExtras, CloseEvaluation, ProcessExtras,
                    ProcessEvaluation, OnlySecretsChange, Terminated, vars, reportVars
      <3> QED
        BY <3>1, ReportUnchanged DEF Report!vars
    <2> QED
      BY <2>1, <2>2, <2>3
  <1> QED
    BY <1>1, <1>2, TypeCorrect, SlotsAreAccounted, ShutdownInOrder, OnlyWantedIsSent, NothingWantedIsLost,
       EverySecretIsSentOnce, PTL DEF Spec, Safety, Accounted, Report!Safety
=============================================================================
