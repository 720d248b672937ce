--------------------------- MODULE CommandLineProofs ---------------------------
(* Proofs about CommandLine, for every set of readers, every number of items  *)
(* and report files, and every capacity of the two channels.                  *)
EXTENDS CommandLine, FiniteSetTheorems, TLAPS

Phases == {"initialize", "plugin", "wait", "show", "write", "shutdown", "exit"}

TypeOK ==
  /\ givesUp \in BOOLEAN /\ ignoreOnExit \in {"none", "all", "results", "errors"}
  /\ disabled \in BOOLEAN
  /\ left \in [Readers -> Nat] /\ failed \subseteq Readers /\ unsent \subseteq Readers
  /\ items \in Nat /\ itemsClosed \in BOOLEAN /\ errors \in Nat
  /\ scanned \in Nat /\ secretsFound \in Nat
  /\ main \in Phases /\ listener \in {"receive", "exit"} /\ runErr \in BOOLEAN
  /\ shown \in BOOLEAN /\ opened \in 0..Paths /\ written \in 0..Paths

-----------------------------------------------------------------------------
(* Types.                                                                    *)

LEMMA TypeInit == Init => TypeOK
  <1> SUFFICES ASSUME Init PROVE TypeOK
    OBVIOUS
  <1> USE CommandLineAssumption DEF CommandLineAssumption, Init
  <1>1. main \in Phases /\ opened \in 0..Paths /\ written \in 0..Paths
    BY DEF Phases
  <1> QED
    BY <1>1 DEF TypeOK

LEMMA PluginTypes ==
  ASSUME TypeOK, NEW r \in Readers, Plugin(r) PROVE TypeOK'
  <1> USE DEF TypeOK
  <1>1. CASE ReadItem(r)
    BY <1>1 DEF ReadItem, engineVars, outputVars
  <1>2. CASE ReadFails(r)
    <2>1. left' \in [Readers -> Nat]
      BY <1>2 DEF ReadFails
    <2> QED
      BY <1>2, <2>1 DEF ReadFails, chanVars, engineVars, outputVars
  <1>3. CASE SendError(r)
    BY <1>3 DEF SendError, engineVars, outputVars
  <1> QED
    BY <1>1, <1>2, <1>3 DEF Plugin

LEMMA MainTypes == ASSUME TypeOK, Main PROVE TypeOK'
  <1> USE CommandLineAssumption DEF CommandLineAssumption, TypeOK
  <1>1. UNCHANGED <<givesUp, ignoreOnExit, disabled, left, failed, unsent, items, errors, scanned, secretsFound, listener>>
    BY DEF Main, BadConfiguration, PreRun, PluginReturns, Wait, ShowReport, OpenReport, WriteReport, AllWritten,
       Shutdown, ExitMain, readerVars, chanVars, engineVars
  <1>2. itemsClosed' \in BOOLEAN
    BY DEF Main, BadConfiguration, PreRun, PluginReturns, Wait, ShowReport, OpenReport, WriteReport, AllWritten,
       Shutdown, ExitMain, chanVars
  <1>3. main' \in Phases /\ runErr' \in BOOLEAN
    BY DEF Main, BadConfiguration, PreRun, PluginReturns, Wait, ShowReport, OpenReport, WriteReport, AllWritten,
       Shutdown, ExitMain, Phases
  <1>4. shown' \in BOOLEAN /\ opened' \in 0..Paths /\ written' \in 0..Paths
    <2>1. CASE OpenReport
      BY <2>1 DEF OpenReport
    <2>2. CASE WriteReport
      BY <2>2 DEF WriteReport
    <2>3. CASE ShowReport
      BY <2>3 DEF ShowReport
    <2>4. CASE ~OpenReport /\ ~WriteReport /\ ~ShowReport
      <3>1. UNCHANGED outputVars
        BY <2>4 DEF Main, BadConfiguration, PreRun, PluginReturns, Wait, AllWritten, Shutdown, ExitMain
      <3> QED
        BY <3>1 DEF outputVars
    <2> QED
      BY <2>1, <2>2, <2>3, <2>4
  <1> QED
    BY <1>1, <1>2, <1>3, <1>4

LEMMA OtherTypes == ASSUME TypeOK, Listener \/ ScanItem \/ Interrupt PROVE TypeOK'
  <1> USE DEF TypeOK
  <1>1. CASE ReceiveError
    BY <1>1 DEF ReceiveError, readerVars, engineVars, outputVars
  <1>2. CASE ExitListener \/ Interrupt
    BY <1>2 DEF ExitListener, Interrupt, readerVars, chanVars, engineVars, outputVars
  <1>3. CASE ScanItem
    BY <1>3 DEF ScanItem, readerVars, outputVars
  <1> QED
    BY <1>1, <1>2, <1>3 DEF Listener

LEMMA TypeCorrect == Spec => []TypeOK
  <1>1. TypeOK /\ UNCHANGED vars => TypeOK'
    BY DEF TypeOK, vars, readerVars, chanVars, engineVars, outputVars
  <1>2. TypeOK /\ [Next]_vars => TypeOK'
    BY <1>1, PluginTypes, MainTypes, OtherTypes DEF Next
  <1> QED
    BY <1>2, TypeInit, PTL DEF Spec

-----------------------------------------------------------------------------
(* The items that are read and those that are still to be read.              *)

LEMMA ItemSetIsFinite ==
  ASSUME NEW n \in [Readers -> Nat] PROVE IsFiniteSet(ItemSet(n))
  <1> DEFINE f == [r \in Readers |-> {r} \X (1..n[r])]
             T == {{r} \X (1..n[r]) : r \in Readers}
  <1>1. f \in Surjection(Readers, T)
    BY DEF Surjection
  <1>2. IsFiniteSet(T)
    BY <1>1, FS_Surjection, CommandLineAssumption DEF CommandLineAssumption
  <1>3. \A t \in T : IsFiniteSet(t)
    <2> SUFFICES ASSUME NEW r \in Readers PROVE IsFiniteSet({r} \X (1..n[r]))
      OBVIOUS
    <2>1. n[r] \in Int /\ 1 \in Int
      OBVIOUS
    <2>2. IsFiniteSet({r}) /\ IsFiniteSet(1..n[r])
      BY <2>1, FS_Singleton, FS_Interval
    <2> QED
      BY <2>2, FS_Product
  <1> QED
    BY <1>2, <1>3, FS_UNION DEF ItemSet

LEMMA InItemSet ==
  ASSUME NEW n, NEW x
  PROVE  x \in ItemSet(n) <=> \E q \in Readers : \E k \in 1..n[q] : x = <<q, k>>
  BY DEF ItemSet

LEMMA OneItemLess ==
  ASSUME NEW n \in [Readers -> Nat], NEW r \in Readers, n[r] > 0
  PROVE  /\ Cardinality(ItemSet([n EXCEPT ![r] = @ - 1])) \in Nat
         /\ Cardinality(ItemSet(n)) = Cardinality(ItemSet([n EXCEPT ![r] = @ - 1])) + 1
  <1> DEFINE m == [n EXCEPT ![r] = @ - 1]
  <1>1. m \in [Readers -> Nat] /\ <<r, n[r]>> \in ItemSet(n)
    BY DEF ItemSet
  <1>2. ItemSet(m) = ItemSet(n) \ {<<r, n[r]>>}
    <2>0. (\A q \in Readers : q # r => m[q] = n[q]) /\ m[r] = n[r] - 1
      OBVIOUS
    <2> HIDE DEF m
    <2>1. ASSUME NEW x PROVE x \in ItemSet(m) <=> x \in ItemSet(n) /\ x # <<r, n[r]>>
      <3>1. x \in ItemSet(m) <=> \E q \in Readers : \E k \in 1..m[q] : x = <<q, k>>
        BY InItemSet
      <3>2. x \in ItemSet(n) <=> \E q \in Readers : \E k \in 1..n[q] : x = <<q, k>>
        BY InItemSet
      <3>3. \A k : k \in 1..m[r] <=> k \in 1..n[r] /\ k # n[r]
        BY <2>0
      <3> QED
        BY <2>0, <3>1, <3>2, <3>3
    <2> QED
      BY <2>1
  <1>3. IsFiniteSet(ItemSet(n)) /\ IsFiniteSet(ItemSet(m))
    BY <1>1, ItemSetIsFinite
  <1>4. Cardinality(ItemSet(n) \ {<<r, n[r]>>}) = Cardinality(ItemSet(n)) - 1
    BY <1>1, <1>3, FS_RemoveElement
  <1>5. Cardinality(ItemSet(n)) \in Nat /\ Cardinality(ItemSet(m)) \in Nat
    BY <1>3, FS_CardinalityType
  <1> HIDE DEF m
  <1>6. Cardinality(ItemSet(n)) = Cardinality(ItemSet(m)) + 1
    BY <1>2, <1>4, <1>5
  <1> QED
    BY <1>5, <1>6 DEF m

LEMMA NothingLeft ==
  ASSUME NEW n \in [Readers -> Nat], \A r \in Readers : n[r] = 0
  PROVE  Cardinality(ItemSet(n)) = 0
  BY FS_EmptySet DEF ItemSet

-----------------------------------------------------------------------------
(* The end of a run.                                                         *)

AllRead == unsent = {} /\ \A r \in Readers : left[r] = 0

\* What holds in each phase of the main goroutine: the readers have ended when
\* it waits for the engine, the engine has ended when it makes the report, and
\* the report is out when it goes to shut down.
PhasesInOrder ==
  /\ main \in {"wait", "show", "write", "shutdown"} \/ (main = "exit" /\ ~runErr) => AllRead
  /\ main \in {"show", "write", "shutdown"} \/ (main = "exit" /\ ~runErr) => EngineDone
  /\ main = "write" => disabled \/ shown
  /\ main = "shutdown" \/ (main = "exit" /\ ~runErr) => (scanned > 0 => (disabled \/ shown) /\ written = Paths)

\* No item is lost and none is made up while no reader fails.
ItemsAccounted == failed = {} => scanned + items + Cardinality(ItemSet(left)) = AllItems

\* The error of a reader that failed is with the reader, in the channel or with the
\* listener.
ErrorUnderWay == failed # {} => unsent # {} \/ errors > 0 \/ listener = "exit"

EndInv == PhasesInOrder /\ ItemsAccounted /\ ErrorUnderWay /\ ZeroMeansFinished

LEMMA EndInit == Init => EndInv
  <1> SUFFICES ASSUME Init PROVE EndInv
    OBVIOUS
  <1> USE DEF Init
  <1>1. PhasesInOrder /\ ErrorUnderWay /\ ZeroMeansFinished
    BY DEF PhasesInOrder, ErrorUnderWay, ZeroMeansFinished, Running
  <1>2. Cardinality(ItemSet(ItemsOf)) \in Nat
    BY ItemSetIsFinite, FS_CardinalityType, CommandLineAssumption DEF CommandLineAssumption
  <1>3. ItemsAccounted
    BY <1>2 DEF ItemsAccounted, AllItems
  <1> QED
    BY <1>1, <1>3 DEF EndInv

LEMMA PluginKeepsEnd ==
  ASSUME TypeOK, EndInv, NEW r \in Readers, Plugin(r) PROVE EndInv'
  <1> USE DEF TypeOK
  <1>1. UNCHANGED <<main, runErr, itemsClosed, scanned, secretsFound, shown, written, exitCode, ignoreOnExit, disabled,
                    listener>>
        /\ exitCode = Running
    BY DEF Plugin, ReadItem, ReadFails, SendError, engineVars, outputVars, chanVars, Alive
  <1>2. ReadItem(r) \/ ReadFails(r) => main = "plugin"
    BY DEF ReadItem, ReadFails
  <1>3. SendError(r) => UNCHANGED <<items, left, failed>> /\ unsent # {}
    BY DEF SendError
  <1>4. PhasesInOrder'
    <2>1. CASE ReadItem(r) \/ ReadFails(r)
      BY <1>1, <1>2, <2>1 DEF PhasesInOrder
    <2>2. CASE SendError(r)
      BY <1>1, <1>3, <2>2 DEF PhasesInOrder, EndInv, AllRead, EngineDone
    <2> QED
      BY <2>1, <2>2 DEF Plugin
  <1>5. ItemsAccounted'
    <2>1. CASE ReadItem(r)
      <3>1. left' = [left EXCEPT ![r] = @ - 1] /\ items' = items + 1 /\ failed' = failed /\ left[r] > 0
        BY <2>1 DEF ReadItem
      <3>2. /\ Cardinality(ItemSet(left')) \in Nat
            /\ Cardinality(ItemSet(left)) = Cardinality(ItemSet(left')) + 1
        BY <3>1, OneItemLess
      <3> QED
        BY <1>1, <3>1, <3>2 DEF EndInv, ItemsAccounted
    <2>2. CASE ReadFails(r)
      BY <2>2 DEF ReadFails, ItemsAccounted
    <2>3. CASE SendError(r)
      BY <1>1, <1>3, <2>3 DEF EndInv, ItemsAccounted
    <2> QED
      BY <2>1, <2>2, <2>3 DEF Plugin
  <1>6. ErrorUnderWay'
    BY <1>1 DEF Plugin, ReadItem, ReadFails, SendError, chanVars, EndInv, ErrorUnderWay
  <1>7. ZeroMeansFinished'
    BY <1>1 DEF ZeroMeansFinished, Running
  <1> QED
    BY <1>4, <1>5, <1>6, <1>7 DEF EndInv

LEMMA MainKeepsEnd == ASSUME TypeOK, EndInv, Main PROVE EndInv'
  <1> USE DEF TypeOK
  <1>1. UNCHANGED <<left, failed, unsent, items, errors, listener, scanned, secretsFound, ignoreOnExit, disabled>>
        /\ exitCode = Running
    BY DEF Main, BadConfiguration, PreRun, PluginReturns, Wait, ShowReport, OpenReport, WriteReport, AllWritten,
       Shutdown, ExitMain, readerVars, chanVars, engineVars, Alive
  <1>2. ItemsAccounted' /\ ErrorUnderWay'
    BY <1>1 DEF EndInv, ItemsAccounted, ErrorUnderWay
  <1>3. PhasesInOrder'
    <2> USE DEF EndInv, PhasesInOrder, AllRead, EngineDone
    <2>1. CASE BadConfiguration \/ ExitMain
      BY <1>1, <2>1 DEF BadConfiguration, ExitMain, chanVars, outputVars
    <2>2. CASE PreRun
      BY <1>1, <2>2 DEF PreRun
    <2>3. CASE PluginReturns
      BY <1>1, <2>3 DEF PluginReturns, ReadersDone
    <2>4. CASE Wait
      BY <1>1, <2>4 DEF Wait, chanVars, outputVars
    <2>5. CASE ShowReport
      BY <1>1, <2>5 DEF ShowReport, chanVars
    <2>6. CASE OpenReport \/ WriteReport
      BY <1>1, <2>6 DEF OpenReport, WriteReport, chanVars
    <2>7. CASE AllWritten \/ Shutdown
      BY <1>1, <2>7 DEF AllWritten, Shutdown, chanVars, outputVars
    <2> QED
      BY <2>1, <2>2, <2>3, <2>4, <2>5, <2>6, <2>7 DEF Main
  <1>4. ZeroMeansFinished'
    <2>1. CASE ExitMain
      <3>1. /\ main = "exit" /\ UNCHANGED <<itemsClosed, shown, written>>
            /\ exitCode' = exitCodeIfError(runErr) + exitCodeIfResults(IF runErr THEN 0 ELSE secretsFound)
        BY <2>1 DEF ExitMain, Exit, chanVars, outputVars
      <3>2. ASSUME ignoreOnExit = "none", exitCode' = 0 PROVE ~runErr /\ secretsFound = 0
        BY <3>1, <3>2 DEF exitCodeIfError, exitCodeIfResults, isNeedReturnErrorCodeFor, errorCode, resultsCode
      <3> SUFFICES ASSUME exitCode' = 0, ignoreOnExit = "none"
                   PROVE  /\ secretsFound = 0 /\ EngineDone
                          /\ scanned > 0 => (disabled \/ shown) /\ written = Paths
                          /\ scanned = AllItems \/ errors > 0 \/ listener = "exit"
        BY <1>1, <3>1 DEF ZeroMeansFinished, EngineDone, AllItems
      <3>3. ~runErr /\ secretsFound = 0 /\ main = "exit"
        BY <3>1, <3>2
      <3>4. EngineDone /\ AllRead /\ (scanned > 0 => (disabled \/ shown) /\ written = Paths)
        BY <3>3 DEF EndInv, PhasesInOrder
      <3>5. CASE failed = {}
        <4>1. Cardinality(ItemSet(left)) = 0
          BY <3>4, NothingLeft DEF AllRead
        <4>2. scanned = AllItems
          BY <3>4, <3>5, <4>1 DEF EndInv, ItemsAccounted, EngineDone
        <4> QED
          BY <3>3, <3>4, <4>2
      <3>6. CASE failed # {}
        BY <3>3, <3>4, <3>6 DEF EndInv, ErrorUnderWay, AllRead
      <3> QED
        BY <3>5, <3>6
    <2>2. CASE ~ExitMain
      <3>1. exitCode' # 0
        BY <1>1, <2>2 DEF Main, BadConfiguration, PreRun, PluginReturns, Wait, ShowReport, OpenReport, WriteReport,
           AllWritten, Shutdown, Running
      <3> QED
        BY <3>1 DEF ZeroMeansFinished
    <2> QED
      BY <2>1, <2>2
  <1> QED
    BY <1>2, <1>3, <1>4 DEF EndInv

LEMMA OthersKeepEnd == ASSUME TypeOK, EndInv, Listener \/ ScanItem \/ Interrupt PROVE EndInv'
  <1> USE DEF TypeOK
  <1>1. UNCHANGED <<left, failed, unsent, itemsClosed, main, runErr, shown, written, ignoreOnExit, disabled>>
        /\ exitCode = Running
    BY DEF Listener, ReceiveError, ExitListener, ScanItem, Interrupt, readerVars, chanVars, outputVars, Alive
  <1>2. CASE Listener \/ Interrupt
    <2>1. UNCHANGED <<items, scanned, secretsFound>>
      BY <1>2 DEF Listener, ReceiveError, ExitListener, Interrupt, chanVars, engineVars
    <2>2. ZeroMeansFinished'
      BY <1>1, <1>2 DEF Listener, ReceiveError, ExitListener, Interrupt, Exit, exitCodeIfError, exitCodeIfResults,
         isNeedReturnErrorCodeFor, errorCode, resultsCode, ZeroMeansFinished, Running
    <2>3. ErrorUnderWay'
      BY <1>1, <1>2 DEF Listener, ReceiveError, ExitListener, Interrupt, chanVars, EndInv, ErrorUnderWay
    <2> QED
      BY <1>1, <2>1, <2>2, <2>3 DEF EndInv, PhasesInOrder, AllRead, EngineDone, ItemsAccounted
  <1>3. CASE ScanItem
    <2>1. items' = items - 1 /\ scanned' = scanned + 1 /\ items > 0
          /\ UNCHANGED <<exitCode, errors, listener>>
      BY <1>3 DEF ScanItem
    <2>2. Cardinality(ItemSet(left)) \in Nat
      BY ItemSetIsFinite, FS_CardinalityType
    <2>3. ItemsAccounted'
      BY <1>1, <2>1, <2>2 DEF EndInv, ItemsAccounted
    <2>4. PhasesInOrder'
      BY <1>1, <2>1 DEF EndInv, PhasesInOrder, AllRead, EngineDone
    <2> QED
      BY <1>1, <2>1, <2>3, <2>4 DEF EndInv, ErrorUnderWay, ZeroMeansFinished, Running
  <1> QED
    BY <1>2, <1>3

LEMMA EndCorrect == Spec => [](TypeOK /\ EndInv)
  <1>1. EndInv /\ UNCHANGED vars => EndInv'
    BY DEF EndInv, PhasesInOrder, AllRead, EngineDone, ItemsAccounted, ErrorUnderWay, ZeroMeansFinished, vars, readerVars, chanVars,
       engineVars, outputVars
  <1>2. TypeOK /\ EndInv /\ [Next]_vars => EndInv'
    BY <1>1, PluginKeepsEnd, MainKeepsEnd, OthersKeepEnd DEF Next
  <1> QED
    BY <1>2, EndInit, TypeCorrect, PTL DEF Spec

\* Exit code 0 with nothing ignored: the scan was finished, found no secret, was
\* shown (unless logging is disabled) and written in full to every report file, and
\* covers every item there was - unless an error was still in the channel or in the
\* listener's hands when main exited (postRun, Exit, listenForErrors).
THEOREM ZeroIsFinished == Spec => []ZeroMeansFinished
  <1>1. EndInv => ZeroMeansFinished
    BY DEF EndInv
  <1> QED
    BY <1>1, EndCorrect, PTL

\* When the report is made no reader has anything left, no item is in the channel,
\* and if no reader failed it counts every item there was (the plugins' Wait before
\* close(items), engine.Wait before GetReport).
THEOREM ReportsAreFinal == Spec => []ReportIsFinal
  <1>1. TypeOK /\ EndInv => ReportIsFinal
    <2> SUFFICES ASSUME TypeOK, EndInv, main \in {"show", "write", "shutdown"}
                 PROVE  unsent = {} /\ items = 0 /\ (\A r \in Readers : left[r] = 0)
                        /\ (failed = {} => scanned = AllItems)
      BY DEF ReportIsFinal
    <2>1. AllRead /\ items = 0
      BY DEF EndInv, PhasesInOrder, EngineDone
    <2>2. Cardinality(ItemSet(left)) = 0
      BY <2>1, NothingLeft DEF TypeOK, AllRead
    <2> QED
      BY <2>1, <2>2 DEF EndInv, ItemsAccounted, AllRead, TypeOK
  <1> QED
    BY <1>1, EndCorrect, PTL

===============================================================================
