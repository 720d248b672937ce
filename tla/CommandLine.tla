----------------------------- MODULE CommandLine -----------------------------
(***************************************************************************)
(* One run of the 2ms command (cmd/main.go: Execute, preRun, postRun;      *)
(* cmd/exit_handler.go; main.go).  Three goroutines decide how the process *)
(* ends: the main one, which runs the plugin, waits for the engine and     *)
(* writes the report; the listener, which ends the process at the first    *)
(* error a plugin sends; and the one that waits for an interrupt.          *)
(*                                                                         *)
(* A plugin is its readers (a Slack channel, a folder, a space...).  It    *)
(* either gives up at the first error and leaves the items channel open    *)
(* (filesystem, confluence), or goes on with its other readers and closes  *)
(* the channel when all are done (slack, discord, paligo, git).  The       *)
(* engine is what ScanPipeline promises: it takes the items one by one and *)
(* Wait returns when the channel is closed and everything is scanned.      *)
(***************************************************************************)
EXTENDS Integers, FiniteSets

CONSTANTS
    Readers,
    ItemsOf,        \* ItemsOf[r]: the items reader r would send
    ItemsCap,       \* capacity of the items channel
    ErrorsCap,      \* capacity of the errors channel (4)
    Paths           \* the number of --report-path values

ASSUME CommandLineAssumption ==
    /\ IsFiniteSet(Readers)
    /\ ItemsOf \in [Readers -> Nat]
    /\ ItemsCap \in Nat \ {0} /\ ErrorsCap \in Nat \ {0}
    /\ Paths \in Nat

VARIABLES
    givesUp,        \* the kind of the plugin
    ignoreOnExit,
    disabled,       \* --log-level none
    left,           \* left[r]: items reader r still has to send
    failed,         \* readers that met an error
    unsent,         \* errors their readers are about to send
    items, itemsClosed, errors,     \* the channels
    scanned, secretsFound,          \* the report
    main, listener,
    runErr,         \* Execute returns an error
    shown, opened, written,         \* the report's copies
    exitCode

readerVars == <<left, failed, unsent>>
chanVars == <<items, itemsClosed, errors>>
engineVars == <<scanned, secretsFound>>
outputVars == <<shown, opened, written>>
vars == <<givesUp, ignoreOnExit, disabled, readerVars, chanVars, engineVars, main, listener,
          runErr, outputVars, exitCode>>

Running == -1
errorCode == 1
resultsCode == 2

Init ==
    /\ givesUp \in BOOLEAN
    /\ ignoreOnExit \in {"none", "all", "results", "errors"}
    /\ disabled \in BOOLEAN
    /\ left = ItemsOf /\ failed = {} /\ unsent = {}
    /\ items = 0 /\ itemsClosed = FALSE /\ errors = 0
    /\ scanned = 0 /\ secretsFound = 0
    /\ main = "initialize" /\ listener = "receive"
    /\ runErr = FALSE
    /\ shown = FALSE /\ opened = 0 /\ written = 0
    /\ exitCode = Running

-----------------------------------------------------------------------------
(* The exit code.                                                          *)

isNeedReturnErrorCodeFor(kind) == ignoreOnExit \notin {"all", kind}

exitCodeIfError(err) == IF err /\ isNeedReturnErrorCodeFor("errors") THEN errorCode ELSE 0

\* mutant: the boundary of "any results" is off by one
CountsFromTwo(count) ==
    IF count > 1 /\ isNeedReturnErrorCodeFor("results") THEN resultsCode ELSE 0

exitCodeIfResults(count) ==
    IF count > 0 /\ isNeedReturnErrorCodeFor("results") THEN resultsCode ELSE 0

Alive == exitCode = Running

Exit(count, err) == exitCode' = exitCodeIfError(err) + exitCodeIfResults(count)

-----------------------------------------------------------------------------
(* The main goroutine up to the scan.  cobra.CheckErr exits with 1 whatever *)
(* --ignore-on-exit says; an error of preRun is returned by Execute.        *)

BadConfiguration ==
    /\ Alive /\ main = "initialize" /\ exitCode' = 1
    /\ UNCHANGED <<givesUp, ignoreOnExit, disabled, readerVars, chanVars, engineVars, main, listener,
                   runErr, outputVars>>

PreRun ==
    /\ Alive /\ main = "initialize"
    /\ \/ main' = "plugin" /\ UNCHANGED runErr
       \/ main' = "exit" /\ runErr' = TRUE     \* validateFormat, the plugin's own PreRunE
    /\ UNCHANGED <<givesUp, ignoreOnExit, disabled, readerVars, chanVars, engineVars, listener,
                   outputVars, exitCode>>

-----------------------------------------------------------------------------
(* The plugin.                                                             *)

ReadItem(r) ==
    /\ Alive /\ main = "plugin" /\ left[r] > 0 /\ items < ItemsCap
    /\ left' = [left EXCEPT ![r] = @ - 1]
    /\ items' = items + 1
    /\ UNCHANGED <<givesUp, ignoreOnExit, disabled, failed, unsent, itemsClosed, errors, engineVars,
                   main, listener, runErr, outputVars, exitCode>>

\* mutant: the error is logged but not sent
FailsSilently(r) ==
    /\ Alive /\ main = "plugin" /\ r \notin failed /\ left[r] > 0
    /\ givesUp => failed = {}
    /\ left' = IF givesUp THEN [q \in Readers |-> 0] ELSE [left EXCEPT ![r] = 0]
    /\ failed' = failed \cup {r}
    /\ UNCHANGED <<givesUp, ignoreOnExit, disabled, unsent, chanVars, engineVars, main, listener,
                   runErr, outputVars, exitCode>>

\* the service or the file system answers with an error: the reader ends
ReadFails(r) ==
    /\ Alive /\ main = "plugin" /\ r \notin failed /\ left[r] > 0
    /\ givesUp => failed = {}
    /\ left' = IF givesUp THEN [q \in Readers |-> 0] ELSE [left EXCEPT ![r] = 0]
    /\ failed' = failed \cup {r} /\ unsent' = unsent \cup {r}
    /\ UNCHANGED <<givesUp, ignoreOnExit, disabled, chanVars, engineVars, main, listener, runErr,
                   outputVars, exitCode>>

SendError(r) ==
    /\ Alive /\ r \in unsent /\ errors < ErrorsCap
    /\ errors' = errors + 1 /\ unsent' = unsent \ {r}
    /\ UNCHANGED <<givesUp, ignoreOnExit, disabled, left, failed, items, itemsClosed, engineVars,
                   main, listener, runErr, outputVars, exitCode>>

\* mutant: the readers are not waited for
NoWait == TRUE

ReadersDone == unsent = {} /\ \A r \in Readers : left[r] = 0

\* Run returns: after an error, a plugin that gives up does not close the channel
PluginReturns ==
    /\ Alive /\ main = "plugin" /\ ReadersDone
    /\ itemsClosed' = (givesUp => failed = {})
    /\ main' = "wait"
    /\ UNCHANGED <<givesUp, ignoreOnExit, disabled, readerVars, items, errors, engineVars, listener,
                   runErr, outputVars, exitCode>>

-----------------------------------------------------------------------------
(* The engine.                                                             *)

ScanItem ==
    /\ Alive /\ items > 0
    /\ items' = items - 1 /\ scanned' = scanned + 1
    /\ \E found \in 0..1 : secretsFound' = secretsFound + found
    /\ UNCHANGED <<givesUp, ignoreOnExit, disabled, readerVars, itemsClosed, errors, main, listener,
                   runErr, outputVars, exitCode>>

EngineDone == itemsClosed /\ items = 0

-----------------------------------------------------------------------------
(* The main goroutine after the plugin: postRun and Exit.                  *)

Wait ==
    /\ Alive /\ main = "wait" /\ EngineDone
    /\ main' = IF scanned > 0 THEN "show" ELSE "shutdown"
    /\ UNCHANGED <<givesUp, ignoreOnExit, disabled, readerVars, chanVars, engineVars, listener,
                   runErr, outputVars, exitCode>>

ShowReport ==
    /\ Alive /\ main = "show"
    /\ \/ ~disabled /\ shown' = TRUE /\ main' = "write" /\ UNCHANGED runErr
       \/ disabled /\ main' = "write" /\ UNCHANGED <<shown, runErr>>
       \/ ~disabled /\ runErr' = TRUE /\ main' = "exit" /\ UNCHANGED shown
    /\ UNCHANGED <<givesUp, ignoreOnExit, disabled, readerVars, chanVars, engineVars, listener,
                   opened, written, exitCode>>

OpenReport ==
    /\ Alive /\ main = "write" /\ opened = written /\ opened < Paths
    /\ \/ opened' = opened + 1 /\ UNCHANGED <<main, runErr>>
       \/ runErr' = TRUE /\ main' = "exit" /\ UNCHANGED opened
    /\ UNCHANGED <<givesUp, ignoreOnExit, disabled, readerVars, chanVars, engineVars, listener,
                   shown, written, exitCode>>

WriteReport ==
    /\ Alive /\ main = "write" /\ opened > written
    /\ \/ written' = written + 1 /\ UNCHANGED <<main, runErr>>
       \/ runErr' = TRUE /\ main' = "exit" /\ UNCHANGED written
    /\ UNCHANGED <<givesUp, ignoreOnExit, disabled, readerVars, chanVars, engineVars, listener,
                   shown, opened, exitCode>>

AllWritten ==
    /\ Alive /\ main = "write" /\ written = Paths
    /\ main' = "shutdown"
    /\ UNCHANGED <<givesUp, ignoreOnExit, disabled, readerVars, chanVars, engineVars, listener,
                   runErr, outputVars, exitCode>>

\* the pool has been waited for: Stop has nothing left to wait for
Shutdown ==
    /\ Alive /\ main = "shutdown" /\ main' = "exit"
    /\ UNCHANGED <<givesUp, ignoreOnExit, disabled, readerVars, chanVars, engineVars, listener,
                   runErr, outputVars, exitCode>>

ExitMain ==
    /\ Alive /\ main = "exit"
    /\ Exit(IF runErr THEN 0 ELSE secretsFound, runErr)
    /\ UNCHANGED <<givesUp, ignoreOnExit, disabled, readerVars, chanVars, engineVars, main, listener,
                   runErr, outputVars>>

-----------------------------------------------------------------------------
(* The listener: it ends the process, whatever the others are doing.       *)

ReceiveError ==
    /\ Alive /\ listener = "receive" /\ errors > 0
    /\ errors' = errors - 1 /\ listener' = "exit"
    /\ UNCHANGED <<givesUp, ignoreOnExit, disabled, readerVars, items, itemsClosed, engineVars, main,
                   runErr, outputVars, exitCode>>

ExitListener ==
    /\ Alive /\ listener = "exit" /\ Exit(0, TRUE)
    /\ UNCHANGED <<givesUp, ignoreOnExit, disabled, readerVars, chanVars, engineVars, main, listener,
                   runErr, outputVars>>

Interrupt ==
    /\ Alive /\ exitCode' = 1
    /\ UNCHANGED <<givesUp, ignoreOnExit, disabled, readerVars, chanVars, engineVars, main, listener,
                   runErr, outputVars>>

-----------------------------------------------------------------------------
Plugin(r) == ReadItem(r) \/ ReadFails(r) \/ SendError(r)

Main ==
    \/ BadConfiguration \/ PreRun \/ PluginReturns \/ Wait
    \/ ShowReport \/ OpenReport \/ WriteReport \/ AllWritten \/ Shutdown \/ ExitMain

Listener == ReceiveError \/ ExitListener

Next == Main \/ Listener \/ ScanItem \/ Interrupt \/ \E r \in Readers : Plugin(r)

\* the Go scheduler runs every goroutine that can run; services are assumed to
\* answer, be it with an error; nobody has to press Ctrl-C
Fairness ==
    /\ WF_vars(Main) /\ WF_vars(Listener) /\ WF_vars(ScanItem)
    /\ \A r \in Readers : WF_vars(Plugin(r))

Spec == Init /\ [][Next]_vars /\ Fairness

-----------------------------------------------------------------------------
\* the items there are when reader r has n[r] of them
ItemSet(n) == UNION {{r} \X (1..n[r]) : r \in Readers}

AllItems == Cardinality(ItemSet(ItemsOf))

\* Exit code 0 with nothing ignored: the scan was finished, no secret was found,
\* the report is out and complete in every file asked for, and every item there was
\* has been scanned - but for one race.  main does not look at the errors channel
\* before it exits, so an error that is still in it, or that the listener has taken
\* and not acted upon yet, is the only thing that may hide behind a zero
\* (postRun, Exit, listenForErrors).
ZeroMeansFinished ==
    exitCode = 0 /\ ignoreOnExit = "none" =>
        /\ secretsFound = 0 /\ EngineDone
        /\ scanned > 0 => (disabled \/ shown) /\ written = Paths
        /\ scanned = AllItems \/ errors > 0 \/ listener = "exit"

\* When the report is made nothing is being read or scanned any more: no reader
\* has items or an error left, no item is in the channel, and without errors it
\* counts every item there was (the plugins' Wait before close(items),
\* engine.Wait before GetReport).
ReportIsFinal ==
    main \in {"show", "write", "shutdown"} =>
        /\ unsent = {} /\ items = 0 /\ \A r \in Readers : left[r] = 0
        /\ failed = {} => scanned = AllItems

\* What the help of --ignore-on-exit says: when only results are ignored, an error
\* makes the exit code different from 0 (config.go:129).  Not so of the code: main
\* may exit before the listener has received the error.
ErrorsAreNotHidden == exitCode = 0 /\ ignoreOnExit = "results" => failed = {}

\* The process ends.  After an error of a plugin that leaves the items channel
\* open, engine.Wait never returns, and only the listener can see to it.
ProcessEnds == <>~Alive

=============================================================================
