----------------------------- MODULE LibraryCalls -----------------------------
(***************************************************************************)
(* One scanner of the library (pkg/scan.go: Reset, Scan, ScanDynamic) and  *)
(* the calls its owner makes on it, one after the other.  Each call makes  *)
(* an engine of its own and starts three goroutines: the producer, which   *)
(* feeds the items to the engine, one that waits for the engine, and the   *)
(* collector, which moves errors into a buffer.  The first two are joined  *)
(* before the call returns; the collector is not, and it reads the         *)
(* scanner's engine only when it starts to run.                            *)
(*                                                                         *)
(* Errors come from the owner of the plugin channels, who may pass his own *)
(* (engine.WithPluginChannels).  He sends them from before the call until  *)
(* its errors channel is closed, but not after he cancelled it; a later    *)
(* send would panic, and that he does not try.  What he ends by closing    *)
(* itemsIn, a ScanDynamic, he ends when he has sent his errors; a Scan     *)
(* does not wait for him.  The engine is what ScanPipeline promises: it    *)
(* takes items until the channel is closed.                                *)
(***************************************************************************)
EXTENDS Integers, Sequences

CONSTANTS
    N,              \* the calls are 1..N
    MaxItems,       \* the most items in a call
    MaxErrors,      \* the most errors in a call
    ItemsCap, ErrorsCap,    \* capacities of the plugin channels
    DynamicBuffer   \* what ScanDynamic's error buffer holds (2)

ASSUME LibraryAssumption ==
    /\ N \in Nat /\ MaxItems \in Nat /\ MaxErrors \in Nat
    /\ ItemsCap \in Nat \ {0} /\ ErrorsCap \in Nat \ {0} /\ DynamicBuffer \in Nat

Calls == 1..N
None == 0
NoError == <<None, 0>>      \* an error is its call, with a number

VARIABLES
    engineInstance,     \* the call whose engine the scanner holds
    step, call,         \* the caller: where he is, in which call
    dynamic,            \* dynamic[c]: ScanDynamic, else Scan
    size,               \* size[c]: its number of items
    cancelled,          \* calls whose context is done
    errs, outcome,      \* what each call returned
    toFeed, items, itemsClosed, scanned,    \* the items of each engine
    toSend, sent, errorsCh, errorsClosed,   \* its errors
    collector, reading, holding,    \* each call's collector: state, the engine it
                                    \* reads from, the error in its hand
    buffered, bufferClosed

callVars == <<engineInstance, step, call, dynamic, size, errs, outcome>>
itemVars == <<toFeed, items, itemsClosed, scanned>>
errorVars == <<toSend, sent, errorsCh, errorsClosed>>
collectorVars == <<collector, reading, holding, buffered, bufferClosed>>
vars == <<callVars, cancelled, itemVars, errorVars, collectorVars>>

Init ==
    /\ engineInstance = None /\ step = "idle" /\ call = None
    /\ dynamic = [c \in Calls |-> FALSE] /\ cancelled = {}
    /\ size = [c \in Calls |-> 0]
    /\ errs = [c \in Calls |-> <<>>] /\ outcome = [c \in Calls |-> "none"]
    /\ toFeed = [c \in Calls |-> 0] /\ items = [c \in Calls |-> 0]
    /\ itemsClosed = [c \in Calls |-> FALSE] /\ scanned = [c \in Calls |-> 0]
    /\ toSend = [c \in Calls |-> 0] /\ sent = [c \in Calls |-> 0]
    /\ errorsCh = [c \in Calls |-> <<>>] /\ errorsClosed = [c \in Calls |-> FALSE]
    /\ collector = [c \in Calls |-> "none"] /\ reading = [c \in Calls |-> None]
    /\ holding = [c \in Calls |-> NoError]
    /\ buffered = [c \in Calls |-> <<>>] /\ bufferClosed = [c \in Calls |-> FALSE]

-----------------------------------------------------------------------------
(* The owner of the plugin channels, and of the context.                   *)

SendError ==
    /\ step \in {"launch", "wait", "close"} /\ toSend[call] > 0 /\ call \notin cancelled
    /\ Len(errorsCh[call]) < ErrorsCap
    /\ toSend' = [toSend EXCEPT ![call] = @ - 1]
    /\ sent' = [sent EXCEPT ![call] = @ + 1]
    /\ errorsCh' = [errorsCh EXCEPT ![call] = Append(@, <<call, sent[call] + 1>>)]
    /\ UNCHANGED <<callVars, cancelled, itemVars, errorsClosed, collectorVars>>

Cancel ==
    /\ step # "idle" /\ call \notin cancelled
    /\ cancelled' = cancelled \cup {call}
    /\ UNCHANGED <<callVars, itemVars, errorVars, collectorVars>>

-----------------------------------------------------------------------------
(* The caller.                                                             *)

Goto(s) == step' = s /\ UNCHANGED <<engineInstance, call, dynamic, size, errs, outcome>>

Returns(what) ==
    /\ step' = "idle" /\ outcome' = [outcome EXCEPT ![call] = what]
    /\ UNCHANGED <<engineInstance, call, dynamic, size, errs>>

\* a call with n items, to which e errors may be sent
Reset(c, d, n, e) ==
    /\ step = "idle" /\ c = call + 1
    /\ call' = c /\ engineInstance' = c /\ step' = "launch"
    /\ dynamic' = [dynamic EXCEPT ![c] = d]
    /\ size' = [size EXCEPT ![c] = n] /\ toFeed' = [toFeed EXCEPT ![c] = n]
    /\ toSend' = [toSend EXCEPT ![c] = e]
    /\ UNCHANGED <<errs, outcome, cancelled, items, itemsClosed, scanned, sent, errorsCh,
                   errorsClosed, collectorVars>>

\* returns at once: the errors there are stay in the channel
NothingToScan ==
    /\ step = "launch" /\ ~dynamic[call] /\ size[call] = 0
    /\ Returns("nothing")
    /\ UNCHANGED <<cancelled, itemVars, errorVars, collectorVars>>

\* engine.Scan, and the three goroutines
Launch ==
    /\ step = "launch" /\ (dynamic[call] \/ size[call] > 0)
    /\ Goto("wait")
    /\ collector' = [collector EXCEPT ![call] = "started"]
    /\ UNCHANGED <<cancelled, itemVars, errorVars, reading, holding, buffered, bufferClosed>>

\* mutant: only the producer is waited for
FedIsDone(c) == itemsClosed[c]

EngineDone(c) == itemsClosed[c] /\ items[c] = 0

WaitForEngine ==
    /\ step = "wait" /\ EngineDone(call)
    /\ Goto("close")
    /\ UNCHANGED <<cancelled, itemVars, errorVars, collectorVars>>

\* mutant: the channel is left open
LeaveErrorsOpen ==
    /\ step = "close" /\ Goto("check")
    /\ UNCHANGED <<cancelled, itemVars, errorVars, collectorVars>>

CloseErrors ==
    /\ step = "close" /\ Goto("check")
    /\ errorsClosed' = [errorsClosed EXCEPT ![call] = TRUE]
    /\ UNCHANGED <<cancelled, itemVars, toSend, sent, errorsCh, collectorVars>>

CheckContext ==
    /\ step = "check"
    /\ IF call \in cancelled THEN Returns("cancelled") ELSE Goto("drain")
    /\ UNCHANGED <<cancelled, itemVars, errorVars, collectorVars>>

DrainError ==
    /\ step = "drain" /\ buffered[call] # <<>>
    /\ errs' = [errs EXCEPT ![call] = Append(@, Head(buffered[call]))]
    /\ buffered' = [buffered EXCEPT ![call] = Tail(@)]
    /\ UNCHANGED <<engineInstance, step, call, dynamic, size, outcome, cancelled, itemVars,
                   errorVars, collector, reading, holding, bufferClosed>>

\* mutant: what is in the buffer now is taken for all there is
DrainedNow(c) == buffered[c] = <<>>

Drained(c) == buffered[c] = <<>> /\ bufferClosed[c]

ReturnResult ==
    /\ step = "drain" /\ Drained(call)
    /\ Returns(IF errs[call] = <<>> THEN "report" ELSE "errors")
    /\ UNCHANGED <<cancelled, itemVars, errorVars, collectorVars>>

-----------------------------------------------------------------------------
(* The producer: the items end when they have all been sent (for           *)
(* ScanDynamic: when the owner has closed itemsIn), or at a cancellation.  *)

Feeding == step = "wait" /\ ~itemsClosed[call]

FeedItem ==
    /\ Feeding /\ toFeed[call] > 0 /\ items[call] < ItemsCap
    /\ toFeed' = [toFeed EXCEPT ![call] = @ - 1]
    /\ items' = [items EXCEPT ![call] = @ + 1]
    /\ UNCHANGED <<callVars, cancelled, itemsClosed, scanned, errorVars, collectorVars>>

CloseItems ==
    /\ Feeding
    /\ \/ call \in cancelled
       \/ toFeed[call] = 0 /\ (dynamic[call] => toSend[call] = 0)
    /\ itemsClosed' = [itemsClosed EXCEPT ![call] = TRUE]
    /\ UNCHANGED <<callVars, cancelled, toFeed, items, scanned, errorVars, collectorVars>>

ScanItem(c) ==
    /\ items[c] > 0
    /\ items' = [items EXCEPT ![c] = @ - 1]
    /\ scanned' = [scanned EXCEPT ![c] = @ + 1]
    /\ UNCHANGED <<callVars, cancelled, toFeed, itemsClosed, errorVars, collectorVars>>

-----------------------------------------------------------------------------
(* The collector of call c.                                                *)

BufferSize(c) == IF dynamic[c] THEN DynamicBuffer ELSE size[c] + 1

CollectorStarts(c) ==
    /\ collector[c] = "started"
    /\ reading' = [reading EXCEPT ![c] = engineInstance]
    /\ collector' = [collector EXCEPT ![c] = "receive"]
    /\ UNCHANGED <<callVars, cancelled, itemVars, errorVars, holding, buffered, bufferClosed>>

CollectorReceives(c) ==
    /\ collector[c] = "receive" /\ errorsCh[reading[c]] # <<>>
    /\ holding' = [holding EXCEPT ![c] = Head(errorsCh[reading[c]])]
    /\ errorsCh' = [errorsCh EXCEPT ![reading[c]] = Tail(@)]
    /\ collector' = [collector EXCEPT ![c] = "send"]
    /\ UNCHANGED <<callVars, cancelled, itemVars, toSend, sent, errorsClosed, reading,
                   buffered, bufferClosed>>

CollectorSends(c) ==
    /\ collector[c] = "send" /\ Len(buffered[c]) < BufferSize(c)
    /\ buffered' = [buffered EXCEPT ![c] = Append(@, holding[c])]
    /\ holding' = [holding EXCEPT ![c] = NoError]
    /\ collector' = [collector EXCEPT ![c] = "receive"]
    /\ UNCHANGED <<callVars, cancelled, itemVars, errorVars, reading, bufferClosed>>

CollectorEnds(c) ==
    /\ collector[c] = "receive" /\ errorsCh[reading[c]] = <<>> /\ errorsClosed[reading[c]]
    /\ bufferClosed' = [bufferClosed EXCEPT ![c] = TRUE]
    /\ collector' = [collector EXCEPT ![c] = "done"]
    /\ UNCHANGED <<callVars, cancelled, itemVars, errorVars, reading, holding, buffered>>

Collector(c) ==
    CollectorStarts(c) \/ CollectorReceives(c) \/ CollectorSends(c) \/ CollectorEnds(c)

-----------------------------------------------------------------------------
Caller ==
    \/ NothingToScan \/ Launch \/ WaitForEngine \/ CloseErrors \/ CheckContext
    \/ DrainError \/ ReturnResult

Producer == FeedItem \/ CloseItems

Next ==
    \/ \E c \in Calls, d \in BOOLEAN, n \in 0..MaxItems, e \in 0..MaxErrors : Reset(c, d, n, e)
    \/ Caller \/ Producer \/ SendError \/ Cancel
    \/ \E c \in Calls : ScanItem(c) \/ Collector(c)

\* the goroutines run whenever they can, and the owner ends what he began to send
Fairness ==
    /\ WF_vars(Caller) /\ WF_vars(Producer) /\ WF_vars(SendError)
    /\ \A c \in Calls : WF_vars(ScanItem(c)) /\ WF_vars(Collector(c))

Spec == Init /\ [][Next]_vars /\ Fairness

-----------------------------------------------------------------------------
\* the items in the report a call returned: with errors it is a new, empty one
ItemsReturned(c) == IF outcome[c] = "errors" THEN 0 ELSE scanned[c]

\* No engine works on after its call has returned, so the report no longer changes
\* (wg.Wait on every path).  A report without an error covers all the items; a call
\* that was not cancelled returns one that is short of some only with errors.
ReportsAreWhole ==
    \A c \in Calls :
        /\ outcome[c] \in {"report", "errors", "cancelled"} => itemsClosed[c] /\ items[c] = 0
        /\ outcome[c] = "report" => ItemsReturned(c) = size[c]
        /\ outcome[c] # "none" /\ c \notin cancelled /\ ItemsReturned(c) < size[c] => errs[c] # <<>>

\* the collector that a cancelled call d left behind began only in a later call c,
\* and reads from the engine of that one
Strays(d, c) == d \in cancelled /\ reading[d] = c /\ d # c

TakenBy(d) == {buffered[d][k] : k \in DOMAIN buffered[d]} \cup {holding[d]}

\* A call that is not cancelled, and is not a Scan without items (it returns at once,
\* without its errors), returns the errors sent to its plugin channels, in their order,
\* none twice, none of another call - and all of them but those that a collector left
\* behind by a cancelled call has taken and keeps for good (the errors.Join of Scan and
\* ScanDynamic; the collector reads the scanner's engine when it starts).
ErrorsReachTheirCall ==
    \A c \in Calls : outcome[c] \in {"report", "errors"} =>
        /\ \A k \in DOMAIN errs[c] : errs[c][k] \in {c} \X (1..sent[c])
        /\ \A k, l \in DOMAIN errs[c] : k < l => errs[c][k][2] < errs[c][l][2]
        /\ \A k \in 1..sent[c] :
              \/ \E l \in DOMAIN errs[c] : errs[c][l] = <<c, k>>
              \/ \E d \in Calls : Strays(d, c) /\ <<c, k>> \in TakenBy(d)

\* Every call returns, cancelled or not, while the errors of a ScanDynamic fit into
\* the errors channel, its buffer and the collector's hand.
CallsReturn == \A c \in Calls : call = c ~> outcome[c] # "none"
=============================================================================
