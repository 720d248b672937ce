-------------------------- MODULE LibraryCallsProofs --------------------------
(* Proofs about LibraryCalls, for every number of calls, items and errors,   *)
(* and every capacity of the channels and buffers.                           *)
EXTENDS LibraryCalls, SequenceTheorems, TLAPS

Errors == Nat \X Nat
Steps == {"idle", "launch", "wait", "close", "check", "drain"}
Outcomes == {"none", "nothing", "cancelled", "report", "errors"}
CollectorStates == {"none", "started", "receive", "send", "done"}

CallTypes ==
  /\ call \in 0..N /\ engineInstance = call /\ step \in Steps
  /\ dynamic \in [Calls -> BOOLEAN] /\ size \in [Calls -> Nat]
  /\ errs \in [Calls -> Seq(Errors)] /\ outcome \in [Calls -> Outcomes]
  /\ step # "idle" => call \in Calls

ItemTypes ==
  /\ toFeed \in [Calls -> Nat] /\ items \in [Calls -> Nat] /\ scanned \in [Calls -> Nat]
  /\ itemsClosed \in [Calls -> BOOLEAN]

ErrorTypes ==
  /\ toSend \in [Calls -> Nat] /\ sent \in [Calls -> Nat]
  /\ errorsCh \in [Calls -> Seq(Errors)] /\ errorsClosed \in [Calls -> BOOLEAN]

CollectorTypes ==
  /\ collector \in [Calls -> CollectorStates] /\ reading \in [Calls -> 0..N]
  /\ holding \in [Calls -> Errors] /\ buffered \in [Calls -> Seq(Errors)]
  /\ bufferClosed \in [Calls -> BOOLEAN]
  /\ \A c \in Calls : /\ collector[c] # "none" => c <= call
                      /\ collector[c] \in {"receive", "send", "done"} => reading[c] \in Calls

TypeOK == CallTypes /\ ItemTypes /\ ErrorTypes /\ CollectorTypes

USE DEF Calls, None, NoError

-----------------------------------------------------------------------------
(* Types.                                                                    *)

LEMMA TypeInit == Init => TypeOK
  <1> SUFFICES ASSUME Init PROVE TypeOK
    OBVIOUS
  <1> USE LibraryAssumption DEF LibraryAssumption, Init
  <1>1. CallTypes
    BY DEF CallTypes, Steps, Outcomes
  <1>2. ItemTypes /\ ErrorTypes
    BY DEF ItemTypes, ErrorTypes
  <1>3. CollectorTypes
    BY DEF CollectorTypes, CollectorStates, Errors
  <1> QED
    BY <1>1, <1>2, <1>3 DEF TypeOK

LEMMA ResetTypes ==
  ASSUME TypeOK, NEW c \in Calls, NEW d \in BOOLEAN, NEW n \in 0..MaxItems, NEW e \in 0..MaxErrors,
         Reset(c, d, n, e)
  PROVE  TypeOK'
  <1> USE DEF TypeOK
  <1>1. n \in Nat /\ e \in Nat /\ N \in Nat /\ c = call + 1
    BY LibraryAssumption DEF LibraryAssumption, Reset
  <1>2. CallTypes'
    BY <1>1 DEF CallTypes, Steps, Reset
  <1>3. ItemTypes'
    BY <1>1 DEF ItemTypes, Reset
  <1>4. ErrorTypes'
    BY <1>1 DEF ErrorTypes, Reset
  <1>5. CollectorTypes'
    <2>1. \A b \in Calls : b <= call => b <= c
      BY <1>1 DEF CallTypes
    <2> QED
      BY <2>1 DEF CollectorTypes, Reset, collectorVars
  <1> QED
    BY <1>2, <1>3, <1>4, <1>5

LEMMA CallerTypes == ASSUME TypeOK, Caller PROVE TypeOK'
  <1> USE DEF TypeOK
  <1>1. CASE NothingToScan \/ WaitForEngine \/ CheckContext \/ ReturnResult
    <2>1. /\ UNCHANGED <<itemVars, errorVars, collectorVars, engineInstance, call, dynamic, size, errs>>
          /\ step' \in Steps /\ (step' # "idle" => step # "idle")
          /\ outcome' = outcome \/ \E what \in Outcomes : outcome' = [outcome EXCEPT ![call] = what]
      BY <1>1 DEF NothingToScan, WaitForEngine, CheckContext, ReturnResult, Goto, Returns, Steps, Outcomes
    <2>2. CallTypes'
      BY <2>1 DEF CallTypes
    <2> QED
      BY <2>1, <2>2 DEF itemVars, errorVars, collectorVars, ItemTypes, ErrorTypes, CollectorTypes
  <1>2. CASE Launch
    <2>1. CallTypes' /\ ItemTypes' /\ ErrorTypes' /\ call \in Calls
      BY <1>2 DEF Launch, Goto, itemVars, errorVars, CallTypes, ItemTypes, ErrorTypes, Steps
    <2>2. call <= call /\ call' = call
      BY <1>2 DEF Launch, Goto, CallTypes
    <2>3. CollectorTypes'
      BY <1>2, <2>1, <2>2 DEF Launch, CollectorTypes, CollectorStates
    <2> QED
      BY <2>1, <2>3
  <1>3. CASE CloseErrors
    <2>1. CallTypes' /\ ErrorTypes'
      BY <1>3 DEF CloseErrors, Goto, CallTypes, ErrorTypes, Steps
    <2>2. ItemTypes' /\ CollectorTypes'
      BY <1>3 DEF CloseErrors, Goto, itemVars, collectorVars, ItemTypes, CollectorTypes
    <2> QED
      BY <2>1, <2>2
  <1>4. CASE DrainError
    <2>1. call \in Calls /\ buffered[call] \in Seq(Errors) /\ buffered[call] # <<>>
      BY <1>4 DEF DrainError, CallTypes, CollectorTypes
    <2>2. Head(buffered[call]) \in Errors /\ Tail(buffered[call]) \in Seq(Errors)
      BY <2>1
    <2>3. CallTypes'
      BY <1>4, <2>1, <2>2 DEF DrainError, CallTypes
    <2>4. CollectorTypes'
      BY <1>4, <2>1, <2>2 DEF DrainError, CollectorTypes
    <2>5. ItemTypes' /\ ErrorTypes'
      BY <1>4 DEF DrainError, itemVars, errorVars, ItemTypes, ErrorTypes
    <2> QED
      BY <2>3, <2>4, <2>5
  <1> QED
    BY <1>1, <1>2, <1>3, <1>4 DEF Caller

LEMMA OwnerTypes == ASSUME TypeOK, Producer \/ SendError \/ Cancel PROVE TypeOK'
  <1> USE DEF TypeOK
  <1>1. CallTypes' /\ CollectorTypes'
    BY DEF Producer, FeedItem, CloseItems, SendError, Cancel, callVars, collectorVars, CallTypes, CollectorTypes
  <1>2. ItemTypes'
    <2>1. CASE FeedItem
      BY <2>1 DEF FeedItem, Feeding, CallTypes, ItemTypes
    <2>2. CASE ~FeedItem
      BY <2>2 DEF Producer, CloseItems, SendError, Cancel, itemVars, ItemTypes
    <2> QED
      BY <2>1, <2>2
  <1>3. ErrorTypes'
    <2>1. CASE SendError
      <3>1. call \in Calls
        BY <2>1 DEF SendError, CallTypes
      <3>2. <<call, sent[call] + 1>> \in Errors
        BY <3>1, LibraryAssumption DEF LibraryAssumption, ErrorTypes, Errors
      <3>3. Append(errorsCh[call], <<call, sent[call] + 1>>) \in Seq(Errors)
        BY <3>1, <3>2 DEF ErrorTypes
      <3> QED
        BY <2>1, <3>1, <3>3 DEF SendError, ErrorTypes
    <2>2. CASE Producer \/ Cancel
      BY <2>2 DEF Producer, FeedItem, CloseItems, Cancel, errorVars, ErrorTypes
    <2> QED
      BY <2>1, <2>2
  <1> QED
    BY <1>1, <1>2, <1>3

LEMMA EngineTypes == ASSUME TypeOK, NEW c \in Calls, ScanItem(c) \/ Collector(c) PROVE TypeOK'
  <1> USE DEF TypeOK
  <1>1. CASE ScanItem(c)
    <2>1. ItemTypes'
      BY <1>1 DEF ScanItem, ItemTypes
    <2> QED
      BY <1>1, <2>1 DEF ScanItem, callVars, errorVars, collectorVars, CallTypes, ErrorTypes, CollectorTypes
  <1>2. CASE Collector(c)
    <2>0. CallTypes' /\ ItemTypes'
      BY <1>2 DEF Collector, CollectorStarts, CollectorReceives, CollectorSends, CollectorEnds, callVars,
                  itemVars, CallTypes, ItemTypes
    <2> USE DEF CallTypes, ErrorTypes, CollectorTypes, CollectorStates, callVars, errorVars
    <2>1. CASE CollectorStarts(c)
      <3>1. call \in Calls
        BY <2>1, LibraryAssumption DEF LibraryAssumption, CollectorStarts
      <3> QED
        BY <2>0, <2>1, <3>1 DEF CollectorStarts
    <2>2. CASE CollectorReceives(c)
      <3>1. /\ reading[c] \in Calls /\ Head(errorsCh[reading[c]]) \in Errors
            /\ Tail(errorsCh[reading[c]]) \in Seq(Errors)
        BY <2>2 DEF CollectorReceives
      <3> QED
        BY <2>0, <2>2, <3>1 DEF CollectorReceives
    <2>3. CASE CollectorSends(c)
      <3>1. NoError \in Errors
        BY DEF Errors
      <3>2. /\ collector' \in [Calls -> CollectorStates]
            /\ \A b \in Calls : collector'[b] # "none" => collector[b] # "none"
            /\ \A b \in Calls : collector'[b] \in {"receive", "send", "done"} =>
                                  collector[b] \in {"receive", "send", "done"}
        BY <2>3 DEF CollectorSends
      <3>3. holding' \in [Calls -> Errors] /\ buffered' \in [Calls -> Seq(Errors)]
        <4>1. holding' = [holding EXCEPT ![c] = NoError]
          BY <2>3 DEF CollectorSends
        <4>2. Append(buffered[c], holding[c]) \in Seq(Errors)
          OBVIOUS
        <4>3. buffered' = [buffered EXCEPT ![c] = Append(buffered[c], holding[c])]
          BY <2>3 DEF CollectorSends
        <4> QED
          BY <3>1, <4>1, <4>2, <4>3
      <3>4. UNCHANGED <<reading, bufferClosed, call>>
        BY <2>3 DEF CollectorSends
      <3>5. CollectorTypes'
        BY <3>2, <3>3, <3>4
      <3> QED
        BY <2>0, <2>3, <3>5 DEF CollectorSends
    <2>4. CASE CollectorEnds(c)
      BY <2>0, <2>4 DEF CollectorEnds
    <2> QED
      BY <1>2, <2>1, <2>2, <2>3, <2>4 DEF Collector
  <1> QED
    BY <1>1, <1>2

\* The variables keep their types; in particular a collector that receives has
\* an engine to receive from.
THEOREM TypeCorrect == Spec => []TypeOK
  <1>1. TypeOK /\ [Next]_vars => TypeOK'
    <2> SUFFICES ASSUME TypeOK, [Next]_vars PROVE TypeOK'
      OBVIOUS
    <2>1. CASE UNCHANGED vars
      BY <2>1 DEF vars, callVars, itemVars, errorVars, collectorVars, TypeOK, CallTypes, ItemTypes,
                  ErrorTypes, CollectorTypes
    <2> QED
      BY <2>1, ResetTypes, CallerTypes, OwnerTypes, EngineTypes DEF Next
  <1> QED
    BY <1>1, TypeInit, PTL DEF Spec

-----------------------------------------------------------------------------
(* The items.                                                                *)

\* Every item of a call is still to be fed, in the channel or scanned; once the
\* engine was waited for, none is in the channel, and none is left to be fed if
\* the context was not done when the call looked at it.
ItemsAccounted ==
  /\ \A c \in Calls : c > call =>
        toFeed[c] = 0 /\ items[c] = 0 /\ scanned[c] = 0 /\ size[c] = 0 /\ ~itemsClosed[c] /\ outcome[c] = "none"
  /\ \A c \in Calls : toFeed[c] + items[c] + scanned[c] = size[c]
  /\ \A c \in Calls : itemsClosed[c] /\ c \notin cancelled => toFeed[c] = 0
  /\ step \in {"close", "check", "drain"} => itemsClosed[call] /\ items[call] = 0
  /\ step = "drain" => toFeed[call] = 0
  /\ \A c \in Calls : outcome[c] \in {"report", "errors", "cancelled"} => itemsClosed[c] /\ items[c] = 0
  /\ \A c \in Calls : outcome[c] \in {"report", "errors"} => toFeed[c] = 0
  /\ \A c \in Calls : outcome[c] = "nothing" => size[c] = 0
  /\ \A c \in Calls : outcome[c] = "cancelled" => c \in cancelled
  /\ \A c \in Calls : outcome[c] = "errors" => errs[c] # <<>>

LEMMA ResetKeepsItems ==
  ASSUME TypeOK, ItemsAccounted, NEW c \in Calls, NEW d \in BOOLEAN, NEW n \in 0..MaxItems,
         NEW e \in 0..MaxErrors, Reset(c, d, n, e)
  PROVE  ItemsAccounted'
  <1> USE DEF TypeOK, CallTypes, ItemTypes
  <1>1. n \in Nat /\ N \in Nat /\ call \in Int /\ c = call + 1 /\ call' = c /\ c > call
    BY LibraryAssumption DEF LibraryAssumption, Reset
  <1>2. /\ step' = "launch" /\ size' = [size EXCEPT ![c] = n] /\ toFeed' = [toFeed EXCEPT ![c] = n]
        /\ UNCHANGED <<items, itemsClosed, scanned, outcome, cancelled, errs>>
    BY DEF Reset
  <1>3. toFeed[c] = 0 /\ items[c] = 0 /\ scanned[c] = 0 /\ size[c] = 0 /\ ~itemsClosed[c] /\ outcome[c] = "none"
    BY <1>1 DEF ItemsAccounted
  <1>4. \A b \in Calls : b > c => b > call /\ b # c
    BY <1>1
  <1>5. \A b \in Calls : toFeed'[b] + items'[b] + scanned'[b] = size'[b]
    <2>1. toFeed'[c] + items'[c] + scanned'[c] = size'[c]
      <3>1. toFeed'[c] = n /\ items'[c] = 0 /\ scanned'[c] = 0 /\ size'[c] = n
        BY <1>2, <1>3
      <3> QED
        BY <1>1, <3>1
    <2>2. \A b \in Calls \ {c} : toFeed'[b] = toFeed[b] /\ size'[b] = size[b]
      BY <1>2
    <2> QED
      BY <1>2, <2>1, <2>2 DEF ItemsAccounted
  <1>6. \A b \in Calls : b > call' =>
          toFeed'[b] = 0 /\ items'[b] = 0 /\ scanned'[b] = 0 /\ size'[b] = 0 /\ ~itemsClosed'[b] /\ outcome'[b] = "none"
    BY <1>1, <1>2, <1>4 DEF ItemsAccounted
  <1>7. \A b \in Calls : outcome'[b] = "nothing" => size'[b] = 0
    BY <1>2, <1>3 DEF ItemsAccounted
  <1> QED
    BY <1>2, <1>3, <1>5, <1>6, <1>7 DEF ItemsAccounted

LEMMA CallerKeepsItems == ASSUME TypeOK, ItemsAccounted, Caller PROVE ItemsAccounted'
  <1> USE DEF TypeOK, CallTypes
  <1>1. UNCHANGED <<itemVars, cancelled, call, size>> /\ call \in Calls
    BY DEF Caller, NothingToScan, Launch, WaitForEngine, CloseErrors, CheckContext, DrainError, ReturnResult,
           Goto, Returns
  <1>2. \A c \in Calls : c > call => outcome'[c] = outcome[c]
    <2>1. ~(call > call)
      BY LibraryAssumption DEF LibraryAssumption
    <2> QED
      BY <1>1, <2>1 DEF Caller, NothingToScan, Launch, WaitForEngine, CloseErrors, CheckContext, DrainError, ReturnResult,
             Goto, Returns
  <1>3. step' \in {"close", "check", "drain"} => itemsClosed[call] /\ items[call] = 0
    BY DEF ItemsAccounted, Caller, NothingToScan, Launch, WaitForEngine, EngineDone, CloseErrors, CheckContext,
           DrainError, ReturnResult, Goto, Returns
  <1>4. step' = "drain" => toFeed[call] = 0
    BY <1>1 DEF ItemsAccounted, Caller, NothingToScan, Launch, WaitForEngine, CloseErrors, CheckContext,
           DrainError, ReturnResult, Goto, Returns
  <1>5. \A c \in Calls : outcome'[c] \in {"report", "errors", "cancelled"} => itemsClosed[c] /\ items[c] = 0
    BY DEF ItemsAccounted, Caller, NothingToScan, Launch, WaitForEngine, CloseErrors, CheckContext,
           DrainError, ReturnResult, Goto, Returns
  <1>6. \A c \in Calls : outcome'[c] \in {"report", "errors"} => toFeed[c] = 0
    BY DEF ItemsAccounted, Caller, NothingToScan, Launch, WaitForEngine, CloseErrors, CheckContext,
           DrainError, ReturnResult, Goto, Returns
  <1>7. \A c \in Calls : /\ outcome'[c] = "nothing" => size[c] = 0
                         /\ outcome'[c] = "cancelled" => c \in cancelled
    <2>1. CASE NothingToScan
      BY <2>1 DEF ItemsAccounted, NothingToScan, Returns
    <2>2. CASE CheckContext
      BY <2>2 DEF ItemsAccounted, CheckContext, Returns, Goto
    <2>3. CASE ReturnResult
      BY <2>3 DEF ItemsAccounted, ReturnResult, Returns
    <2>4. CASE Launch \/ WaitForEngine \/ CloseErrors \/ DrainError
      BY <2>4 DEF ItemsAccounted, Launch, WaitForEngine, CloseErrors, DrainError, Goto
    <2> QED
      BY <2>1, <2>2, <2>3, <2>4 DEF Caller
  <1>8. \A c \in Calls : outcome'[c] = "errors" => errs'[c] # <<>>
    <2>1. CASE DrainError
      <3>1. errs' = [errs EXCEPT ![call] = Append(@, Head(buffered[call]))] /\ outcome' = outcome
        BY <2>1 DEF DrainError
      <3>2. errs[call] \in Seq(Errors) /\ Append(errs[call], Head(buffered[call])) # <<>>
        BY <1>1
      <3> QED
        BY <3>1, <3>2 DEF ItemsAccounted
    <2>2. CASE ReturnResult
      BY <2>2 DEF ItemsAccounted, ReturnResult, Returns
    <2>3. CASE NothingToScan
      BY <2>3 DEF ItemsAccounted, NothingToScan, Returns
    <2>5. CASE CheckContext
      BY <2>5 DEF ItemsAccounted, CheckContext, Goto, Returns
    <2>4. CASE Launch \/ WaitForEngine \/ CloseErrors
      BY <2>4 DEF ItemsAccounted, Launch, WaitForEngine, CloseErrors, Goto
    <2> QED
      BY <2>1, <2>2, <2>3, <2>4, <2>5 DEF Caller
  <1> QED
    BY <1>1, <1>2, <1>3, <1>4, <1>5, <1>6, <1>7, <1>8 DEF ItemsAccounted, itemVars

LEMMA ProducerKeepsItems == ASSUME TypeOK, ItemsAccounted, Producer PROVE ItemsAccounted'
  <1> USE DEF TypeOK, CallTypes, ItemTypes
  <1>1. call \in Calls /\ ~(call > call) /\ step = "wait" /\ ~itemsClosed[call]
        /\ UNCHANGED <<callVars, cancelled, scanned>>
    BY LibraryAssumption, SMTT(30) DEF LibraryAssumption, Producer, FeedItem, CloseItems, Feeding
  <1>2. CASE FeedItem
    <2>1. \A c \in Calls : toFeed'[c] + items'[c] + scanned[c] = size[c]
      <3>1. \A c \in Calls \ {call} : toFeed'[c] = toFeed[c] /\ items'[c] = items[c]
        BY <1>2 DEF FeedItem
      <3>2. toFeed'[call] = toFeed[call] - 1 /\ items'[call] = items[call] + 1
        BY <1>1, <1>2 DEF FeedItem
      <3>3. toFeed[call] + items[call] + scanned[call] = size[call]
        BY <1>1 DEF ItemsAccounted
      <3>4. toFeed'[call] + items'[call] + scanned[call] = size[call]
        BY <1>1, <3>2, <3>3
      <3> QED
        BY <3>1, <3>4 DEF ItemsAccounted
    <2> QED
      BY <1>1, <1>2, <2>1 DEF FeedItem, ItemsAccounted, callVars
  <1>3. CASE CloseItems
    BY <1>1, <1>3 DEF CloseItems, ItemsAccounted, callVars
  <1> QED
    BY <1>2, <1>3 DEF Producer

LEMMA ScanKeepsItems == ASSUME TypeOK, ItemsAccounted, NEW c \in Calls, ScanItem(c) PROVE ItemsAccounted'
  <1> USE DEF TypeOK, CallTypes, ItemTypes
  <1>1. \A b \in Calls \ {c} : items'[b] = items[b] /\ scanned'[b] = scanned[b]
    BY DEF ScanItem
  <1>2. items'[c] = items[c] - 1 /\ scanned'[c] = scanned[c] + 1 /\ items[c] > 0
    BY DEF ScanItem
  <1>3. UNCHANGED <<callVars, cancelled, toFeed, itemsClosed>>
    BY DEF ScanItem
  <1>4. toFeed[c] + items'[c] + scanned'[c] = size[c]
    <2>1. toFeed[c] + items[c] + scanned[c] = size[c]
      BY DEF ItemsAccounted
    <2> QED
      BY <1>2, <2>1
  <1>5. ~(c > call) /\ (step \in {"close", "check", "drain"} => c # call)
        /\ outcome[c] \notin {"report", "errors", "cancelled"}
    BY <1>2 DEF ItemsAccounted
  <1> QED
    BY <1>1, <1>3, <1>4, <1>5 DEF ItemsAccounted, callVars

LEMMA ItemsInvariant == Spec => []ItemsAccounted
  <1>1. Init => ItemsAccounted
    BY DEF Init, ItemsAccounted
  <1>2. TypeOK /\ ItemsAccounted /\ [Next]_vars => ItemsAccounted'
    <2> SUFFICES ASSUME TypeOK, ItemsAccounted, [Next]_vars PROVE ItemsAccounted'
      OBVIOUS
    <2>1. CASE Cancel
      BY <2>1 DEF Cancel, callVars, itemVars, ItemsAccounted
    <2>2. CASE SendError \/ (\E c \in Calls : Collector(c)) \/ UNCHANGED vars
      BY <2>2 DEF SendError, Collector, CollectorStarts, CollectorReceives, CollectorSends, CollectorEnds, vars,
                  callVars, itemVars, ItemsAccounted
    <2> QED
      BY <2>1, <2>2, ResetKeepsItems, CallerKeepsItems, ProducerKeepsItems, ScanKeepsItems DEF Next
  <1> QED
    BY <1>1, <1>2, TypeCorrect, PTL DEF Spec

\* Whatever the calls, the cancellations and the interleaving, a call that
\* returned has let its engine finish, a report without an error covers all the
\* items, and one that is short of some comes with errors unless the call was
\* cancelled.
THEOREM EveryReportIsWhole == Spec => []ReportsAreWhole
  <1>1. TypeOK /\ ItemsAccounted => ReportsAreWhole
    <2> SUFFICES ASSUME TypeOK, ItemsAccounted, NEW c \in Calls
                 PROVE  /\ outcome[c] \in {"report", "errors", "cancelled"} => itemsClosed[c] /\ items[c] = 0
                        /\ outcome[c] = "report" => ItemsReturned(c) = size[c]
                        /\ outcome[c] # "none" /\ c \notin cancelled /\ ItemsReturned(c) < size[c] => errs[c] # <<>>
      BY DEF ReportsAreWhole
    <2>1. /\ toFeed[c] \in Nat /\ items[c] \in Nat /\ scanned[c] \in Nat
          /\ toFeed[c] + items[c] + scanned[c] = size[c]
      BY DEF TypeOK, ItemTypes, ItemsAccounted
    <2>2. outcome[c] = "report" => ItemsReturned(c) = size[c]
      BY <2>1 DEF ItemsAccounted, ItemsReturned
    <2>3. outcome[c] = "nothing" => ~(ItemsReturned(c) < size[c])
      BY <2>1 DEF ItemsAccounted, ItemsReturned
    <2>4. outcome[c] \in {"none", "nothing", "cancelled", "report", "errors"}
      BY DEF TypeOK, CallTypes, Outcomes
    <2>5. outcome[c] = "report" => ~(ItemsReturned(c) < size[c])
      <3>1. size[c] \in Nat
        BY DEF TypeOK, CallTypes
      <3> QED
        BY <2>2, <3>1
    <2>6. outcome[c] # "none" /\ c \notin cancelled /\ ItemsReturned(c) < size[c] => errs[c] # <<>>
      BY <2>3, <2>4, <2>5 DEF ItemsAccounted
    <2> QED
      BY <2>2, <2>6 DEF ItemsAccounted
  <1> QED
    BY <1>1, TypeCorrect, ItemsInvariant, PTL

-----------------------------------------------------------------------------
(* The errors.                                                               *)

\* s holds the errors n + 1, n + 2, ... of call c
IsRun(s, c, n) == \A k \in DOMAIN s : s[k] = <<c, n + k>>

\* the number of errors of call c that collectors have taken from its channel
Taken(c) == sent[c] - Len(errorsCh[c])

ChannelInOrder(c) == Taken(c) \in Nat /\ IsRun(errorsCh[c], c, Taken(c))

\* what the collector of call d has passed on: returned by the call, or buffered
Line(d) == errs[d] \o buffered[d]

InHand(d) == collector[d] = "send"

\* The errors a collector took are those of the call it reads from, in order.
LineInOrder(d) ==
  /\ \A k \in DOMAIN Line(d) : Line(d)[k] \in {reading[d]} \X (1..Taken(reading[d]))
  /\ \A k, l \in DOMAIN Line(d) : k < l => Line(d)[k][2] < Line(d)[l][2]
  /\ InHand(d) => /\ holding[d] \in {reading[d]} \X (1..Taken(reading[d]))
                  /\ \A k \in DOMAIN Line(d) : Line(d)[k][2] < holding[d][2]

Has(d, x) == (\E k \in DOMAIN Line(d) : Line(d)[k] = x) \/ (InHand(d) /\ holding[d] = x)

\* Every error that was sent to a call is in its channel, or with a collector
\* that reads from it.
ErrorsInPlace ==
  /\ \A c \in Calls : ChannelInOrder(c)
  /\ \A d \in Calls : reading[d] # None => LineInOrder(d)
  /\ \A c \in Calls : \A n \in 1..Taken(c) : \E d \in Calls : reading[d] = c /\ Has(d, <<c, n>>)

\* Where the calls and their collectors are: a collector reads from its own call
\* or, if that was cancelled, from a later one.
CollectorsInOrder ==
  /\ \A c \in Calls : c > call =>
        errs[c] = <<>> /\ buffered[c] = <<>> /\ errorsCh[c] = <<>> /\ sent[c] = 0 /\ ~errorsClosed[c]
        /\ outcome[c] = "none"
  /\ step = "launch" => collector[call] = "none"
  /\ step \in {"launch", "wait", "close"} => ~errorsClosed[call]
  /\ \A c \in Calls : collector[c] \in {"none", "started"} <=> reading[c] = None
  /\ \A c \in Calls : reading[c] = None => errs[c] = <<>> /\ buffered[c] = <<>>
  /\ \A c \in Calls : reading[c] # None => c <= reading[c] /\ reading[c] <= call
  /\ \A c \in Calls : collector[c] = "started" /\ (c # call \/ step = "idle") => c \in cancelled
  /\ \A c \in Calls : reading[c] \notin {None, c} => c \in cancelled /\ errs[c] = <<>>
  /\ \A c \in Calls : bufferClosed[c] => collector[c] = "done"
  /\ \A c \in Calls : collector[c] = "done" => errorsClosed[reading[c]] /\ errorsCh[reading[c]] = <<>>
  /\ \A c \in Calls : outcome[c] \in {"report", "errors"} =>
                        collector[c] = "done" /\ buffered[c] = <<>> /\ reading[c] = c

LEMMA RunAppended ==
  ASSUME NEW s \in Seq(Errors), NEW c, NEW n \in Nat, IsRun(s, c, n)
  PROVE  IsRun(Append(s, <<c, n + Len(s) + 1>>), c, n)
  <1> DEFINE x == <<c, n + Len(s) + 1>>
  <1>1. /\ DOMAIN Append(s, x) = 1..(Len(s) + 1) /\ Len(s) \in Nat /\ DOMAIN s = 1..Len(s)
        /\ \A k \in 1..Len(s) : Append(s, x)[k] = s[k]
        /\ Append(s, x)[Len(s) + 1] = x
    OBVIOUS
  <1>2. n + (Len(s) + 1) = n + Len(s) + 1
    BY <1>1
  <1> HIDE DEF x
  <1>3. ASSUME NEW k \in 1..(Len(s) + 1) PROVE Append(s, x)[k] = <<c, n + k>>
    <2>1. CASE k = Len(s) + 1
      BY <1>1, <1>2, <2>1 DEF x
    <2>2. CASE k # Len(s) + 1
      <3>1. k \in 1..Len(s)
        BY <1>1, <2>2
      <3> QED
        BY <1>1, <3>1 DEF IsRun
    <2> QED
      BY <2>1, <2>2
  <1>4. IsRun(Append(s, x), c, n)
    BY <1>1, <1>3 DEF IsRun
  <1> QED
    BY <1>4 DEF x

LEMMA RunTail ==
  ASSUME NEW s \in Seq(Errors), NEW c, NEW n \in Nat, IsRun(s, c, n), s # <<>>
  PROVE  Head(s) = <<c, n + 1>> /\ IsRun(Tail(s), c, n + 1) /\ Len(Tail(s)) = Len(s) - 1
  <1>1. /\ DOMAIN s = 1..Len(s) /\ Len(s) \in Nat /\ Len(s) > 0
        /\ DOMAIN Tail(s) = 1..(Len(s) - 1) /\ Len(Tail(s)) = Len(s) - 1
        /\ \A k \in 1..(Len(s) - 1) : Tail(s)[k] = s[k + 1]
        /\ Head(s) = s[1]
    OBVIOUS
  <1>2. \A k \in 1..(Len(s) - 1) : k + 1 \in 1..Len(s) /\ n + (k + 1) = n + 1 + k
    BY <1>1
  <1>3. 1 \in 1..Len(s)
    BY <1>1
  <1> QED
    BY <1>1, <1>2, <1>3 DEF IsRun

LEMMA AppendRight ==
  ASSUME NEW s \in Seq(Errors), NEW t \in Seq(Errors), NEW x \in Errors
  PROVE  s \o Append(t, x) = Append(s \o t, x)
  <1>1. s \o Append(t, x) \in Seq(Errors) /\ Append(s \o t, x) \in Seq(Errors)
    OBVIOUS
  <1>2. Len(s \o Append(t, x)) = Len(s) + Len(t) + 1 /\ Len(Append(s \o t, x)) = Len(s) + Len(t) + 1
    OBVIOUS
  <1>3. \A i \in 1..(Len(s) + Len(t) + 1) : (s \o Append(t, x))[i] = Append(s \o t, x)[i]
    OBVIOUS
  <1> QED
    BY <1>1, <1>2, <1>3, SeqEqual

LEMMA HeadMoves ==
  ASSUME NEW s \in Seq(Errors), NEW t \in Seq(Errors), t # <<>>
  PROVE  Append(s, Head(t)) \o Tail(t) = s \o t
  <1>1. Append(s, Head(t)) \o Tail(t) \in Seq(Errors) /\ s \o t \in Seq(Errors)
    OBVIOUS
  <1>2. Len(Append(s, Head(t)) \o Tail(t)) = Len(s) + Len(t) /\ Len(s \o t) = Len(s) + Len(t)
    OBVIOUS
  <1>3. \A i \in 1..(Len(s) + Len(t)) : (Append(s, Head(t)) \o Tail(t))[i] = (s \o t)[i]
    OBVIOUS
  <1> QED
    BY <1>1, <1>2, <1>3, SeqEqual

LEMMA LineTypes ==
  ASSUME TypeOK, NEW d \in Calls
  PROVE  /\ errs[d] \in Seq(Errors) /\ buffered[d] \in Seq(Errors) /\ Line(d) \in Seq(Errors)
         /\ holding[d] \in Errors
         /\ DOMAIN Line(d) = 1..Len(Line(d)) /\ Len(Line(d)) \in Nat
         /\ \A k \in DOMAIN Line(d) : Line(d)[k] \in Errors
  <1>1. errs[d] \in Seq(Errors) /\ buffered[d] \in Seq(Errors) /\ holding[d] \in Errors
    BY DEF TypeOK, CallTypes, CollectorTypes
  <1>2. Line(d) \in Seq(Errors)
    BY <1>1 DEF Line
  <1>3. DOMAIN Line(d) = 1..Len(Line(d)) /\ Len(Line(d)) \in Nat /\ \A k \in DOMAIN Line(d) : Line(d)[k] \in Errors
    BY <1>2
  <1> QED
    BY <1>1, <1>2, <1>3

\* A step that leaves what the collector of d passed on, and takes nothing back
\* into a channel, keeps the order.
LEMMA OrderKept ==
  ASSUME NEW d \in Calls, LineInOrder(d), Line(d)' = Line(d),
         InHand(d)' => InHand(d) /\ holding'[d] = holding[d], NEW r, r = reading[d], r = reading'[d],
         \A n \in 1..Taken(r) : n \in 1..(Taken(r)')
  PROVE  LineInOrder(d)'
  BY DEF LineInOrder

LEMMA TakenKept ==
  ASSUME UNCHANGED <<errorsCh, sent>>, NEW c \in Calls
  PROVE  Taken(c)' = Taken(c) /\ (ChannelInOrder(c) => ChannelInOrder(c)')
  BY DEF Taken, ChannelInOrder, IsRun

LEMMA PlacesKept ==
  ASSUME TypeOK, ErrorsInPlace, UNCHANGED <<reading, errorsCh, sent>>,
         \A d \in Calls : Line(d)' = Line(d) /\ (InHand(d)' <=> InHand(d)) /\ holding'[d] = holding[d]
  PROVE  ErrorsInPlace'
  <1>1. \A c \in Calls : Taken(c)' = Taken(c) /\ ChannelInOrder(c)'
    BY TakenKept DEF ErrorsInPlace
  <1>2. ASSUME NEW d \in Calls, reading'[d] # None PROVE LineInOrder(d)'
    <2>1. LineInOrder(d) /\ reading[d] \in Calls
      BY <1>2, LibraryAssumption DEF LibraryAssumption, ErrorsInPlace, TypeOK, CollectorTypes
    <2> QED
      BY <1>1, <2>1, OrderKept
  <1>3. \A d \in Calls : \A x : Has(d, x) => Has(d, x)'
    BY DEF Has
  <1>4. ASSUME NEW c \in Calls, NEW n \in 1..(Taken(c)')
        PROVE  \E d \in Calls : reading'[d] = c /\ Has(d, <<c, n>>)'
    BY <1>1, <1>3, <1>4 DEF ErrorsInPlace
  <1> QED
    BY <1>1, <1>2, <1>4 DEF ErrorsInPlace

LEMMA StartKeepsPlaces ==
  ASSUME TypeOK, CollectorsInOrder, ErrorsInPlace, NEW b \in Calls, CollectorStarts(b)
  PROVE  ErrorsInPlace'
  <1>1. /\ UNCHANGED <<errs, buffered, holding, errorsCh, sent>>
        /\ collector[b] = "started" /\ collector' = [collector EXCEPT ![b] = "receive"]
        /\ \A d \in Calls \ {b} : reading'[d] = reading[d]
    BY DEF CollectorStarts, callVars, errorVars, TypeOK, CollectorTypes
  <1>2. reading[b] = None /\ errs[b] = <<>> /\ buffered[b] = <<>> /\ ~InHand(b)
    BY <1>1 DEF CollectorsInOrder, InHand
  <1>3. \A d \in Calls : Line(d)' = Line(d) /\ (InHand(d)' <=> InHand(d))
    BY <1>1 DEF Line, InHand, TypeOK, CollectorTypes
  <1>4. DOMAIN Line(b) = {}
    BY <1>2 DEF Line
  <1>5. \A c \in Calls : Taken(c)' = Taken(c) /\ ChannelInOrder(c)'
    BY <1>1, TakenKept DEF ErrorsInPlace
  <1>6. ASSUME NEW d \in Calls, reading'[d] # None PROVE LineInOrder(d)'
    <2>1. CASE d = b
      BY <1>2, <1>3, <1>4, <2>1 DEF LineInOrder
    <2>2. CASE d # b
      <3>1. LineInOrder(d) /\ reading[d] \in Calls /\ reading'[d] = reading[d]
        BY <1>1, <1>6, <2>2, LibraryAssumption DEF LibraryAssumption, ErrorsInPlace, TypeOK, CollectorTypes
      <3> QED
        BY <1>1, <1>3, <1>5, <3>1, OrderKept
    <2> QED
      BY <2>1, <2>2
  <1>7. ASSUME NEW c \in Calls, NEW n \in 1..(Taken(c)')
        PROVE  \E d \in Calls : reading'[d] = c /\ Has(d, <<c, n>>)'
    <2>1. PICK d \in Calls : reading[d] = c /\ Has(d, <<c, n>>)
      BY <1>5 DEF ErrorsInPlace
    <2>2. d # b
      BY <1>2, <2>1, LibraryAssumption DEF LibraryAssumption
    <2>3. Has(d, <<c, n>>)'
      BY <1>1, <1>3, <2>1 DEF Has
    <2> QED
      BY <1>1, <2>1, <2>2, <2>3
  <1> QED
    BY <1>5, <1>6, <1>7 DEF ErrorsInPlace

LEMMA SendErrorKeepsPlaces == ASSUME TypeOK, ErrorsInPlace, SendError PROVE ErrorsInPlace'
  <1>1. /\ UNCHANGED <<errs, buffered, holding, collector, reading>> /\ call \in Calls
        /\ sent' = [sent EXCEPT ![call] = @ + 1]
        /\ errorsCh' = [errorsCh EXCEPT ![call] = Append(@, <<call, sent[call] + 1>>)]
    <2>1. step # "idle"
      BY DEF SendError
    <2> QED
      BY <2>1 DEF SendError, callVars, collectorVars, TypeOK, CallTypes
  <1>2. \A d \in Calls : Line(d)' = Line(d) /\ (InHand(d)' <=> InHand(d))
    BY <1>1 DEF Line, InHand
  <1>3. ASSUME NEW c \in Calls PROVE Taken(c)' = Taken(c) /\ ChannelInOrder(c)'
    <2>0. /\ errorsCh[c] \in Seq(Errors) /\ Len(errorsCh[c]) \in Nat /\ sent[c] \in Nat
          /\ Taken(c) \in Nat /\ IsRun(errorsCh[c], c, Taken(c))
      <3>1. errorsCh[c] \in Seq(Errors) /\ sent[c] \in Nat
        BY DEF TypeOK, ErrorTypes
      <3> QED
        BY <3>1 DEF ErrorsInPlace, ChannelInOrder
    <2>1. CASE c = call
      <3>1. sent[c] + 1 = Taken(c) + Len(errorsCh[c]) + 1
        BY <2>0 DEF Taken
      <3>2. errorsCh'[c] = Append(errorsCh[c], <<c, Taken(c) + Len(errorsCh[c]) + 1>>) /\ sent'[c] = sent[c] + 1
        BY <1>1, <2>1, <3>1 DEF TypeOK, ErrorTypes
      <3>3. Len(errorsCh'[c]) = Len(errorsCh[c]) + 1
        <4>1. <<c, Taken(c) + Len(errorsCh[c]) + 1>> \in Errors
          BY <2>0, LibraryAssumption DEF LibraryAssumption, Errors
        <4> QED
          BY <2>0, <3>2, <4>1
      <3>4. Taken(c)' = Taken(c)
        BY <2>0, <3>2, <3>3 DEF Taken
      <3>5. IsRun(errorsCh'[c], c, Taken(c))
        BY <2>0, <3>2, RunAppended
      <3> QED
        BY <2>0, <3>4, <3>5 DEF ChannelInOrder, IsRun
    <2>2. CASE c # call
      <3>1. sent'[c] = sent[c] /\ errorsCh'[c] = errorsCh[c]
        BY <1>1, <2>2 DEF TypeOK, ErrorTypes
      <3> QED
        BY <2>0, <3>1 DEF Taken, ChannelInOrder, IsRun
    <2> QED
      BY <2>1, <2>2
  <1>4. ASSUME NEW d \in Calls, reading'[d] # None PROVE LineInOrder(d)'
    <2>1. LineInOrder(d) /\ reading[d] \in Calls
      BY <1>1, <1>4, LibraryAssumption DEF LibraryAssumption, ErrorsInPlace, TypeOK, CollectorTypes
    <2> QED
      BY <1>1, <1>2, <1>3, <2>1, OrderKept
  <1>5. \A d \in Calls : \A x : Has(d, x) => Has(d, x)'
    BY <1>1, <1>2 DEF Has
  <1>6. ASSUME NEW c \in Calls, NEW n \in 1..(Taken(c)')
        PROVE  \E d \in Calls : reading'[d] = c /\ Has(d, <<c, n>>)'
    BY <1>1, <1>3, <1>5, <1>6 DEF ErrorsInPlace
  <1> QED
    BY <1>3, <1>4, <1>6 DEF ErrorsInPlace

LEMMA SendsKeepsPlaces ==
  ASSUME TypeOK, CollectorsInOrder, ErrorsInPlace, NEW b \in Calls, CollectorSends(b)
  PROVE  ErrorsInPlace'
  <1>1. /\ UNCHANGED <<errs, errorsCh, sent, reading>>
        /\ buffered' = [buffered EXCEPT ![b] = Append(@, holding[b])]
        /\ holding' = [holding EXCEPT ![b] = NoError]
        /\ collector[b] = "send" /\ collector' = [collector EXCEPT ![b] = "receive"]
    BY DEF CollectorSends, callVars, errorVars
  <1>2. \A d \in Calls \ {b} : /\ Line(d)' = Line(d) /\ (InHand(d)' <=> InHand(d))
                               /\ holding'[d] = holding[d]
    BY <1>1 DEF Line, InHand, TypeOK, CollectorTypes
  <1>3. InHand(b) /\ ~InHand(b)'
    BY <1>1 DEF InHand, TypeOK, CollectorTypes
  <1>4. /\ Line(b)' = Append(Line(b), holding[b]) /\ DOMAIN Line(b)' = 1..(Len(Line(b)) + 1)
        /\ \A k \in DOMAIN Line(b) : k \in DOMAIN Line(b)' /\ Line(b)'[k] = Line(b)[k]
        /\ Line(b)'[Len(Line(b)) + 1] = holding[b]
    <2>1. errs'[b] = errs[b] /\ buffered'[b] = Append(buffered[b], holding[b])
      BY <1>1 DEF TypeOK, CollectorTypes
    <2>2. Line(b)' = Append(Line(b), holding[b])
      <3>1. errs[b] \in Seq(Errors) /\ buffered[b] \in Seq(Errors) /\ holding[b] \in Errors
        BY LineTypes
      <3> QED
        BY <2>1, <3>1, AppendRight DEF Line
    <2> QED
      BY <2>2, LineTypes
  <1>5. \A c \in Calls : Taken(c)' = Taken(c) /\ ChannelInOrder(c)'
    BY <1>1, TakenKept DEF ErrorsInPlace
  <1>6. reading[b] \in Calls /\ LineInOrder(b)
    BY <1>1, LibraryAssumption DEF LibraryAssumption, TypeOK, CollectorTypes, ErrorsInPlace
  <1>7. LineInOrder(b)'
    <2> DEFINE r == reading[b]
    <2>1. \A k \in DOMAIN Line(b)' : k \in DOMAIN Line(b) \/ k = Len(Line(b)) + 1
      BY <1>4, LineTypes
    <2>2. \A k \in DOMAIN Line(b)' : Line(b)'[k] \in {r} \X (1..Taken(r))
      BY <1>3, <1>4, <1>6, <2>1 DEF LineInOrder
    <2>3. ASSUME NEW k \in DOMAIN Line(b)', NEW l \in DOMAIN Line(b)', k < l
          PROVE  Line(b)'[k][2] < Line(b)'[l][2]
      <3>1. k \in DOMAIN Line(b)
        BY <1>4, <2>1, <2>3, LineTypes
      <3> QED
        BY <1>3, <1>4, <1>6, <2>1, <2>3, <3>1 DEF LineInOrder
    <2>4. reading'[b] = r /\ Taken(r)' = Taken(r)
      BY <1>1, <1>5, <1>6
    <2> QED
      BY <1>3, <2>2, <2>3, <2>4 DEF LineInOrder
  <1>8. ASSUME NEW d \in Calls, reading'[d] # None PROVE LineInOrder(d)'
    <2>1. CASE d # b
      <3>1. LineInOrder(d) /\ reading[d] \in Calls
        BY <1>1, <1>8, LibraryAssumption DEF LibraryAssumption, ErrorsInPlace, TypeOK, CollectorTypes
      <3> QED
        BY <1>1, <1>2, <1>5, <2>1, <3>1, OrderKept
    <2> QED
      BY <1>7, <2>1
  <1>9. ASSUME NEW d \in Calls, NEW x, Has(d, x) PROVE Has(d, x)'
    <2>1. CASE d # b
      BY <1>2, <1>9, <2>1 DEF Has
    <2>2. CASE d = b
      <3>1. Len(Line(b)) + 1 \in DOMAIN Line(b)'
        BY <1>4, LineTypes
      <3> QED
        BY <1>4, <1>9, <2>2, <3>1 DEF Has
    <2> QED
      BY <2>1, <2>2
  <1>10. ASSUME NEW c \in Calls, NEW n \in 1..(Taken(c)')
         PROVE  \E d \in Calls : reading'[d] = c /\ Has(d, <<c, n>>)'
    BY <1>1, <1>5, <1>9, <1>10 DEF ErrorsInPlace
  <1> QED
    BY <1>5, <1>8, <1>10 DEF ErrorsInPlace

LEMMA ReceivesKeepsPlaces ==
  ASSUME TypeOK, CollectorsInOrder, ErrorsInPlace, NEW b \in Calls, CollectorReceives(b)
  PROVE  ErrorsInPlace'
  <1>0. PICK r \in Calls : r = reading[b]
    BY DEF CollectorReceives, TypeOK, CollectorTypes
  <1>1. /\ UNCHANGED <<errs, buffered, sent, reading>> /\ errorsCh[r] # <<>>
        /\ holding' = [holding EXCEPT ![b] = Head(errorsCh[r])]
        /\ errorsCh' = [errorsCh EXCEPT ![r] = Tail(@)]
        /\ collector[b] = "receive" /\ collector' = [collector EXCEPT ![b] = "send"]
    BY <1>0 DEF CollectorReceives, callVars, TypeOK, CollectorTypes
  <1>2. \A d \in Calls : Line(d)' = Line(d)
    BY <1>1 DEF Line
  <1>3. \A d \in Calls \ {b} : (InHand(d)' <=> InHand(d)) /\ holding'[d] = holding[d]
    BY <1>1 DEF InHand, TypeOK, CollectorTypes
  <1>4. ~InHand(b) /\ InHand(b)' /\ holding'[b] = Head(errorsCh[r])
    BY <1>1 DEF InHand, TypeOK, CollectorTypes
  <1>5. /\ errorsCh[r] \in Seq(Errors) /\ Len(errorsCh[r]) \in Nat /\ sent[r] \in Nat
        /\ Taken(r) \in Nat /\ IsRun(errorsCh[r], r, Taken(r))
    <2>1. errorsCh[r] \in Seq(Errors) /\ sent[r] \in Nat
      BY <1>1 DEF TypeOK, ErrorTypes
    <2> QED
      BY <1>1, <2>1 DEF ErrorsInPlace, ChannelInOrder
  <1>6. /\ Head(errorsCh[r]) = <<r, Taken(r) + 1>> /\ IsRun(Tail(errorsCh[r]), r, Taken(r) + 1)
        /\ Len(Tail(errorsCh[r])) = Len(errorsCh[r]) - 1
    BY <1>1, <1>5, RunTail
  <1>7. errorsCh'[r] = Tail(errorsCh[r]) /\ \A c \in Calls \ {r} : errorsCh'[c] = errorsCh[c]
    BY <1>1 DEF TypeOK, ErrorTypes
  <1>8. ASSUME NEW c \in Calls
        PROVE  ChannelInOrder(c)' /\ Taken(c)' = IF c = r THEN Taken(c) + 1 ELSE Taken(c)
    <2>1. CASE c = r
      <3>1. sent'[c] - Len(errorsCh'[c]) = sent[c] - Len(errorsCh[c]) + 1
        <4>1. sent'[c] = sent[r] /\ Len(errorsCh'[c]) = Len(errorsCh[r]) - 1
          BY <1>1, <1>6, <1>7, <2>1
        <4> QED
          BY <1>5, <2>1, <4>1
      <3>2. Taken(c)' = Taken(c) + 1
        BY <3>1 DEF Taken
      <3>3. IsRun(errorsCh'[c], c, Taken(c) + 1)
        BY <1>6, <1>7, <2>1
      <3> QED
        BY <1>5, <2>1, <3>2, <3>3 DEF ChannelInOrder, IsRun
    <2>2. CASE c # r
      BY <1>1, <1>7, <2>2 DEF ErrorsInPlace, ChannelInOrder, Taken, IsRun
    <2> QED
      BY <2>1, <2>2
  <1>9. \A c \in Calls : \A n \in 1..Taken(c) : n \in 1..(Taken(c)')
    <2>1. \A c \in Calls : Taken(c) \in Nat
      BY DEF ErrorsInPlace, ChannelInOrder
    <2> QED
      BY <1>8, <2>1
  <1>10. LineInOrder(b)'
    <2>1. LineInOrder(b) /\ reading'[b] = r /\ r = reading[b]
      BY <1>0, <1>1, LibraryAssumption DEF LibraryAssumption, ErrorsInPlace
    <2>2. Taken(r)' = Taken(r) + 1 /\ holding'[b] = <<r, Taken(r) + 1>>
      BY <1>4, <1>6, <1>8
    <2>3. \A k \in DOMAIN Line(b) : Line(b)[k] \in {r} \X (1..Taken(r))
      BY <2>1 DEF LineInOrder
    <2>4. \A k \in DOMAIN Line(b) : Line(b)[k] \in {r} \X (1..(Taken(r) + 1)) /\ Line(b)[k][2] < Taken(r) + 1
      BY <1>5, <2>3
    <2>5. holding'[b] \in {r} \X (1..(Taken(r) + 1)) /\ holding'[b][2] = Taken(r) + 1
      BY <1>5, <2>2
    <2>6. \A k, l \in DOMAIN Line(b) : k < l => Line(b)[k][2] < Line(b)[l][2]
      BY <2>1 DEF LineInOrder
    <2> QED
      BY <1>2, <2>1, <2>2, <2>4, <2>5, <2>6 DEF LineInOrder
  <1>11. ASSUME NEW d \in Calls, reading'[d] # None PROVE LineInOrder(d)'
    <2>1. CASE d # b
      <3>1. LineInOrder(d) /\ reading[d] \in Calls
        BY <1>1, <1>11, LibraryAssumption DEF LibraryAssumption, ErrorsInPlace, TypeOK, CollectorTypes
      <3> QED
        BY <1>1, <1>2, <1>3, <1>9, <2>1, <3>1, OrderKept
    <2> QED
      BY <1>10, <2>1
  <1>12. ASSUME NEW d \in Calls, NEW x, Has(d, x) PROVE Has(d, x)'
    BY <1>2, <1>3, <1>4, <1>12 DEF Has
  <1>13. ASSUME NEW c \in Calls, NEW n \in 1..(Taken(c)')
         PROVE  \E d \in Calls : reading'[d] = c /\ Has(d, <<c, n>>)'
    <2>1. CASE n \in 1..Taken(c)
      BY <1>1, <1>12, <2>1 DEF ErrorsInPlace
    <2>2. CASE n \notin 1..Taken(c)
      <3>1. c = r /\ n = Taken(r) + 1
        <4>1. Taken(c) \in Nat
          BY DEF ErrorsInPlace, ChannelInOrder
        <4> QED
          BY <1>8, <2>2, <4>1
      <3>2. Has(b, <<c, n>>)'
        BY <1>4, <1>6, <3>1 DEF Has
      <3> QED
        BY <1>0, <1>1, <3>1, <3>2
    <2> QED
      BY <2>1, <2>2
  <1> QED
    BY <1>8, <1>11, <1>13 DEF ErrorsInPlace

\* What one step of the collector of call b does to all calls.
LEMMA CollectorChanges ==
  ASSUME TypeOK, NEW b \in Calls, Collector(b)
  PROVE  /\ UNCHANGED <<step, call, errs, outcome, sent, errorsClosed>>
         /\ collector[b] \in {"started", "receive", "send"} /\ collector'[b] \in {"receive", "send", "done"}
         /\ bufferClosed'[b] => bufferClosed[b] \/ collector'[b] = "done"
         /\ \A c \in Calls : c # b => /\ collector'[c] = collector[c] /\ reading'[c] = reading[c]
                                     /\ buffered'[c] = buffered[c] /\ bufferClosed'[c] = bufferClosed[c]
         /\ \A c \in Calls : errorsCh[c] = <<>> => errorsCh'[c] = <<>>
  <1> USE DEF TypeOK, CollectorTypes, ErrorTypes
  <1>1. CASE CollectorStarts(b)
    BY <1>1 DEF CollectorStarts, callVars, errorVars
  <1>2. CASE CollectorSends(b)
    BY <1>2 DEF CollectorSends, callVars, errorVars
  <1>3. CASE CollectorEnds(b)
    BY <1>3 DEF CollectorEnds, callVars, errorVars
  <1>4. CASE CollectorReceives(b)
    <2>1. \A c \in Calls : errorsCh[c] = <<>> => errorsCh'[c] = <<>>
      BY <1>4 DEF CollectorReceives
    <2> QED
      BY <1>4, <2>1 DEF CollectorReceives, callVars
  <1> QED
    BY <1>1, <1>2, <1>3, <1>4 DEF Collector

\* What the calls not yet made look like.
Untouched(c) ==
  /\ errs[c] = <<>> /\ buffered[c] = <<>> /\ errorsCh[c] = <<>> /\ sent[c] = 0 /\ ~errorsClosed[c]
  /\ outcome[c] = "none"

LEMMA ResetKeepsCollectors ==
  ASSUME TypeOK, CollectorsInOrder, NEW b \in Calls, NEW d \in BOOLEAN, NEW n \in 0..MaxItems,
         NEW e \in 0..MaxErrors, Reset(b, d, n, e)
  PROVE  CollectorsInOrder'
  <1>1. /\ UNCHANGED <<errs, outcome, cancelled, sent, errorsCh, errorsClosed, collector, reading, buffered, bufferClosed>>
        /\ step = "idle" /\ step' = "launch" /\ call' = b /\ b = call + 1 /\ call \in Int
    BY LibraryAssumption DEF LibraryAssumption, Reset, collectorVars, TypeOK, CallTypes
  <1>2. Untouched(b) /\ \A c \in Calls : c > b => Untouched(c)
    <2>1. \A c \in Calls : c >= b => c > call
      BY <1>1
    <2> QED
      BY <1>1, <2>1 DEF CollectorsInOrder, Untouched
  <1>3. collector[b] = "none"
    BY <1>1 DEF TypeOK, CollectorTypes
  <1>4. \A c \in Calls : reading[c] # None => c <= reading[c] /\ reading[c] <= b
    <2>1. \A c \in Calls : reading[c] \in Int
      BY LibraryAssumption DEF LibraryAssumption, TypeOK, CollectorTypes
    <2> QED
      BY <1>1, <2>1 DEF CollectorsInOrder
  <1>5. \A c \in Calls : collector[c] = "started" => c \in cancelled
    BY <1>1 DEF CollectorsInOrder
  <1> QED
    BY <1>1, <1>2, <1>3, <1>4, <1>5 DEF CollectorsInOrder, Untouched

LEMMA CallerKeepsCollectors == ASSUME TypeOK, CollectorsInOrder, Caller PROVE CollectorsInOrder'
  <1>0. step # "idle" /\ call \in Calls /\ ~(call > call)
    BY LibraryAssumption DEF LibraryAssumption, Caller, NothingToScan, Launch, WaitForEngine, CloseErrors, CheckContext,
       DrainError, ReturnResult, TypeOK, CallTypes
  <1>1. CASE NothingToScan
    <2>1. /\ UNCHANGED <<call, errs, cancelled, sent, errorsCh, errorsClosed, collector, reading, buffered, bufferClosed>>
          /\ step = "launch" /\ step' = "idle" /\ outcome' = [outcome EXCEPT ![call] = "nothing"]
      BY <1>1 DEF NothingToScan, Returns, errorVars, collectorVars
    <2>2. /\ \A c \in Calls \ {call} : outcome'[c] = outcome[c]
          /\ outcome'[call] = "nothing"
      BY <1>0, <2>1 DEF TypeOK, CallTypes
    <2>3. collector[call] = "none"
      BY <2>1 DEF CollectorsInOrder
    <2> QED
      BY <1>0, <2>1, <2>2, <2>3 DEF CollectorsInOrder
  <1>2. CASE Launch
    <2>1. /\ UNCHANGED <<call, errs, outcome, cancelled, sent, errorsCh, errorsClosed, reading, buffered, bufferClosed>>
          /\ step = "launch" /\ step' = "wait"
      BY <1>2 DEF Launch, Goto, errorVars
    <2>2. /\ \A c \in Calls \ {call} : collector'[c] = collector[c]
          /\ collector[call] = "none" /\ collector'[call] = "started"
      BY <1>0, <1>2 DEF Launch, TypeOK, CollectorTypes, CollectorsInOrder
    <2>3. outcome[call] \notin {"report", "errors"} /\ ~bufferClosed[call] /\ reading[call] = None
      BY <1>0, <2>2 DEF CollectorsInOrder
    <2> QED
      BY <1>0, <2>1, <2>2, <2>3, SMTT(30) DEF CollectorsInOrder
  <1>3. CASE WaitForEngine
    BY <1>3 DEF WaitForEngine, Goto, errorVars, collectorVars, CollectorsInOrder
  <1>4. CASE CloseErrors
    <2>1. /\ UNCHANGED <<call, errs, outcome, cancelled, sent, errorsCh, collector, reading, buffered, bufferClosed>>
          /\ step' = "check"
      BY <1>4 DEF CloseErrors, Goto, collectorVars
    <2>2. /\ \A c \in Calls \ {call} : errorsClosed'[c] = errorsClosed[c]
          /\ errorsClosed'[call] = TRUE
      BY <1>0, <1>4 DEF CloseErrors, TypeOK, ErrorTypes
    <2>3. \A c \in Calls : errorsClosed[c] => errorsClosed'[c]
      BY <2>2
    <2>4. \A c \in Calls : collector[c] = "done" => reading[c] \in Calls
      BY DEF TypeOK, CollectorTypes
    <2>5. \A c \in Calls : c > call => c # call
      BY <1>0
    <2>6. step # "idle" /\ step' # "idle" /\ step' \notin {"launch", "wait", "close"}
      BY <1>0, <2>1
    <2> QED
      BY <2>1, <2>2, <2>3, <2>4, <2>5, <2>6 DEF CollectorsInOrder
  <1>5. CASE CheckContext
    <2>1. /\ UNCHANGED <<call, errs, cancelled, sent, errorsCh, errorsClosed, collector, reading, buffered, bufferClosed>>
          /\ \/ call \in cancelled /\ step' = "idle" /\ outcome' = [outcome EXCEPT ![call] = "cancelled"]
             \/ step' = "drain" /\ outcome' = outcome
      BY <1>5 DEF CheckContext, Goto, Returns, errorVars, collectorVars
    <2>2. /\ \A c \in Calls \ {call} : outcome'[c] = outcome[c]
          /\ outcome'[call] = outcome[call] \/ outcome'[call] = "cancelled"
      BY <1>0, <2>1 DEF TypeOK, CallTypes
    <2>3. step' = "idle" => call \in cancelled
      BY <2>1
    <2>4. step' \notin {"launch", "wait", "close"}
      BY <2>1
    <2> QED
      BY <1>0, <2>1, <2>2, <2>3, <2>4 DEF CollectorsInOrder
  <1>6. CASE DrainError
    <2>1. /\ UNCHANGED <<call, step, outcome, cancelled, sent, errorsCh, errorsClosed, collector, reading, bufferClosed>>
          /\ buffered[call] # <<>>
      BY <1>6 DEF DrainError, errorVars
    <2>2. \A c \in Calls \ {call} : errs'[c] = errs[c] /\ buffered'[c] = buffered[c]
      BY <1>6 DEF DrainError, TypeOK, CallTypes, CollectorTypes
    <2>3. reading[call] # None /\ outcome[call] \notin {"report", "errors"}
      BY <1>0, <2>1 DEF CollectorsInOrder
    <2>4. reading[call] = call
      <3>1. reading[call] \in Int /\ call \in Int
        BY <1>0, LibraryAssumption DEF LibraryAssumption, TypeOK, CollectorTypes
      <3> QED
        BY <1>0, <2>3, <3>1 DEF CollectorsInOrder
    <2> QED
      BY <1>0, <2>1, <2>2, <2>3, <2>4 DEF CollectorsInOrder
  <1>7. CASE ReturnResult
    <2>1. /\ UNCHANGED <<call, errs, cancelled, sent, errorsCh, errorsClosed, collector, reading, buffered, bufferClosed>>
          /\ step' = "idle" /\ buffered[call] = <<>> /\ bufferClosed[call]
      BY <1>7 DEF ReturnResult, Drained, Returns, errorVars, collectorVars
    <2>2. \A c \in Calls \ {call} : outcome'[c] = outcome[c]
      BY <1>7 DEF ReturnResult, Returns, TypeOK, CallTypes
    <2>3. collector[call] = "done" /\ reading[call] # None
      BY <1>0, <2>1 DEF CollectorsInOrder
    <2>4. reading[call] = call
      <3>1. reading[call] \in Int /\ call \in Int
        BY <1>0, LibraryAssumption DEF LibraryAssumption, TypeOK, CollectorTypes
      <3> QED
        BY <1>0, <2>3, <3>1 DEF CollectorsInOrder
    <2> QED
      BY <1>0, <2>1, <2>2, <2>3, <2>4 DEF CollectorsInOrder
  <1> QED
    BY <1>1, <1>2, <1>3, <1>4, <1>5, <1>6, <1>7 DEF Caller

LEMMA OwnerKeepsCollectors == ASSUME TypeOK, CollectorsInOrder, SendError \/ Cancel PROVE CollectorsInOrder'
  <1>1. CASE SendError
    <2>1. /\ UNCHANGED <<call, step, errs, outcome, cancelled, errorsClosed, collector, reading, buffered, bufferClosed>>
          /\ ~errorsClosed[call] /\ call \in Calls
      <3>1. step # "idle"
        BY <1>1 DEF SendError
      <3> QED
        BY <1>1, <3>1 DEF SendError, callVars, collectorVars, CollectorsInOrder, TypeOK, CallTypes
    <2>2. \A c \in Calls \ {call} : sent'[c] = sent[c] /\ errorsCh'[c] = errorsCh[c]
      BY <1>1 DEF SendError, TypeOK, ErrorTypes
    <2>3. \A c \in Calls : c > call => c # call
      BY LibraryAssumption DEF LibraryAssumption
    <2>4. \A c \in Calls : collector[c] = "done" => reading[c] \in Calls \ {call}
      BY <2>1 DEF CollectorsInOrder, TypeOK, CollectorTypes
    <2> QED
      BY <2>1, <2>2, <2>3, <2>4 DEF CollectorsInOrder
  <1>2. CASE Cancel
    BY <1>2 DEF Cancel, callVars, errorVars, collectorVars, CollectorsInOrder
  <1> QED
    BY <1>1, <1>2

LEMMA StepsKeepCollectors ==
  ASSUME TypeOK, CollectorsInOrder, NEW b \in Calls, Collector(b)
  PROVE  CollectorsInOrder'
  <1>0. /\ UNCHANGED <<step, call, errs, outcome, cancelled, sent, errorsClosed>>
        /\ collector[b] # "none" /\ b <= call
        /\ \A c \in Calls \ {b} : /\ collector'[c] = collector[c] /\ reading'[c] = reading[c]
                                  /\ buffered'[c] = buffered[c] /\ bufferClosed'[c] = bufferClosed[c]
        /\ \A c \in Calls : errorsCh[c] = <<>> => errorsCh'[c] = <<>>
    <2>1. UNCHANGED cancelled
      BY DEF Collector, CollectorStarts, CollectorReceives, CollectorSends, CollectorEnds
    <2> QED
      BY <2>1, CollectorChanges DEF TypeOK, CollectorTypes
  <1>1. outcome[b] \notin {"report", "errors"} /\ collector[b] # "done"
    BY CollectorChanges DEF CollectorsInOrder
  <1>2. ~(b > call)
    <2>1. call \in Int
      BY LibraryAssumption DEF LibraryAssumption, TypeOK, CallTypes
    <2> QED
      BY <1>0, <2>1
  <1>3. CASE CollectorStarts(b)
    <2>1. /\ collector[b] = "started" /\ collector'[b] = "receive" /\ reading'[b] = call /\ call \in Calls
          /\ UNCHANGED <<errorsCh, buffered, bufferClosed>>
      <3>1. call \in Calls
        BY <1>0, LibraryAssumption DEF LibraryAssumption, TypeOK, CallTypes
      <3> QED
        BY <1>3, <3>1 DEF CollectorStarts, errorVars, TypeOK, CallTypes, CollectorTypes
    <2>2. reading[b] = None /\ errs[b] = <<>> /\ ~bufferClosed[b] /\ (b # call => b \in cancelled)
      BY <2>1 DEF CollectorsInOrder
    <2>3. call # None /\ call <= call
      BY <2>1, LibraryAssumption DEF LibraryAssumption
    <2>4. step = "launch" => collector[call] = "none"
      BY DEF CollectorsInOrder
    <2> QED
      BY <1>0, <1>1, <1>2, <2>1, <2>2, <2>3, <2>4 DEF CollectorsInOrder
  <1>4. CASE CollectorReceives(b) \/ CollectorSends(b)
    <2>1. /\ collector[b] \in {"receive", "send"} /\ collector'[b] \in {"receive", "send"}
          /\ UNCHANGED <<reading, bufferClosed>>
      BY <1>4 DEF CollectorReceives, CollectorSends, TypeOK, CollectorTypes
    <2>2. reading[b] # None
      BY <2>1 DEF CollectorsInOrder
    <2>3. ~bufferClosed[b]
      BY <1>1 DEF CollectorsInOrder
    <2>4. step = "launch" => collector'[call] = "none"
      <3>1. step = "launch" => call \in Calls
        BY DEF TypeOK, CallTypes
      <3> QED
        BY <1>0, <3>1 DEF CollectorsInOrder
    <2>5. \A c \in Calls : collector'[c] = "done" => errorsClosed[reading[c]] /\ errorsCh'[reading[c]] = <<>>
      <3>1. \A c \in Calls : collector'[c] = "done" => collector[c] = "done"
        BY <1>0, <2>1
      <3>2. \A c \in Calls : collector[c] = "done" => reading[c] \in Calls
        BY DEF TypeOK, CollectorTypes
      <3> QED
        BY <1>0, <3>1, <3>2 DEF CollectorsInOrder
    <2>6. \A c \in Calls : /\ bufferClosed[c] => collector'[c] = "done"
                           /\ collector'[c] \in {"none", "started"} <=> reading[c] = None
                           /\ reading[c] = None => buffered'[c] = <<>>
      BY <1>0, <2>1, <2>2, <2>3 DEF CollectorsInOrder
    <2>7. \A c \in Calls : outcome[c] \in {"report", "errors"} => collector'[c] = "done" /\ buffered'[c] = <<>>
      BY <1>0, <1>1 DEF CollectorsInOrder
    <2> QED
      BY <1>0, <1>2, <2>1, <2>4, <2>5, <2>6, <2>7 DEF CollectorsInOrder
  <1>5. CASE CollectorEnds(b)
    <2>1. /\ collector[b] = "receive" /\ collector'[b] = "done"
          /\ errorsCh[reading[b]] = <<>> /\ errorsClosed[reading[b]]
          /\ UNCHANGED <<reading, buffered, errorsCh>>
      BY <1>5 DEF CollectorEnds, errorVars, TypeOK, CollectorTypes
    <2>2. reading[b] # None
      BY <2>1 DEF CollectorsInOrder
    <2>3. step = "launch" => collector'[call] = "none"
      <3>1. step = "launch" => call \in Calls
        BY DEF TypeOK, CallTypes
      <3> QED
        BY <1>0, <3>1 DEF CollectorsInOrder
    <2>4. \A c \in Calls : /\ bufferClosed'[c] => collector'[c] = "done"
                           /\ collector'[c] \in {"none", "started"} <=> reading[c] = None
                           /\ collector'[c] = "done" => errorsClosed[reading[c]] /\ errorsCh[reading[c]] = <<>>
      BY <1>0, <2>1, <2>2 DEF CollectorsInOrder
    <2>5. \A c \in Calls : outcome[c] \in {"report", "errors"} => collector'[c] = "done"
      BY <1>0, <1>1 DEF CollectorsInOrder
    <2> QED
      BY <1>0, <1>2, <2>1, <2>3, <2>4, <2>5 DEF CollectorsInOrder
  <1> QED
    BY <1>3, <1>4, <1>5 DEF Collector

LEMMA CollectorsStep == ASSUME TypeOK, CollectorsInOrder, [Next]_vars PROVE CollectorsInOrder'
  <1>1. CASE Producer \/ (\E c \in Calls : ScanItem(c)) \/ UNCHANGED vars
    BY <1>1 DEF Producer, FeedItem, CloseItems, ScanItem, vars, callVars, errorVars, collectorVars, CollectorsInOrder
  <1> QED
    BY <1>1, ResetKeepsCollectors, CallerKeepsCollectors, OwnerKeepsCollectors, StepsKeepCollectors DEF Next

LEMMA DrainKeepsPlaces == ASSUME TypeOK, ErrorsInPlace, DrainError PROVE ErrorsInPlace'
  <1>1. /\ UNCHANGED <<errorsCh, sent, holding, collector, reading>> /\ call \in Calls /\ buffered[call] # <<>>
        /\ errs' = [errs EXCEPT ![call] = Append(@, Head(buffered[call]))]
        /\ buffered' = [buffered EXCEPT ![call] = Tail(@)]
    BY DEF DrainError, errorVars, TypeOK, CallTypes
  <1>2. errs'[call] \o buffered'[call] = errs[call] \o buffered[call]
    <2>1. /\ errs[call] \in Seq(Errors) /\ buffered[call] \in Seq(Errors)
          /\ errs'[call] = Append(errs[call], Head(buffered[call])) /\ buffered'[call] = Tail(buffered[call])
      BY <1>1 DEF TypeOK, CallTypes, CollectorTypes
    <2>2. Append(errs[call], Head(buffered[call])) \o Tail(buffered[call]) = errs[call] \o buffered[call]
      BY <1>1, <2>1, HeadMoves
    <2> QED
      BY <2>1, <2>2
  <1>3. \A d \in Calls \ {call} : errs'[d] = errs[d] /\ buffered'[d] = buffered[d]
    BY <1>1 DEF TypeOK, CallTypes, CollectorTypes
  <1>4. \A d \in Calls : Line(d)' = Line(d)
    BY <1>2, <1>3 DEF Line
  <1>5. \A d \in Calls : (InHand(d)' <=> InHand(d)) /\ holding'[d] = holding[d]
    BY <1>1 DEF InHand
  <1> QED
    BY <1>1, <1>4, <1>5, PlacesKept

LEMMA PlacesStep == ASSUME TypeOK, CollectorsInOrder, ErrorsInPlace, [Next]_vars PROVE ErrorsInPlace'
  <1>1. ASSUME UNCHANGED <<errs, buffered, holding, reading, errorsCh, sent>>,
               \A d \in Calls : collector'[d] = "send" <=> collector[d] = "send"
        PROVE  ErrorsInPlace'
    <2>1. \A d \in Calls : Line(d)' = Line(d) /\ (InHand(d)' <=> InHand(d)) /\ holding'[d] = holding[d]
      BY <1>1 DEF Line, InHand
    <2> QED
      BY <1>1, <2>1, PlacesKept
  <1>2. CASE \E c \in Calls, d \in BOOLEAN, n \in 0..MaxItems, e \in 0..MaxErrors : Reset(c, d, n, e)
    BY <1>1, <1>2 DEF Reset, collectorVars
  <1>3. CASE Caller /\ ~DrainError /\ ~Launch
    BY <1>1, <1>3 DEF Caller, NothingToScan, WaitForEngine, CloseErrors, CheckContext, ReturnResult, Goto, Returns,
       errorVars, collectorVars
  <1>4. CASE Launch
    <2>1. collector[call] = "none" /\ collector' = [collector EXCEPT ![call] = "started"]
      BY <1>4 DEF Launch, CollectorsInOrder
    <2>2. \A d \in Calls : collector'[d] = "send" <=> collector[d] = "send"
      BY <2>1 DEF TypeOK, CollectorTypes
    <2> QED
      BY <1>1, <1>4, <2>2 DEF Launch, Goto, errorVars
  <1>5. CASE Producer \/ Cancel \/ (\E c \in Calls : ScanItem(c)) \/ UNCHANGED vars
    BY <1>1, <1>5 DEF Producer, FeedItem, CloseItems, Cancel, ScanItem, vars, callVars, errorVars, collectorVars
  <1>6. ASSUME NEW b \in Calls, CollectorEnds(b) PROVE ErrorsInPlace'
    <2>1. \A d \in Calls : collector'[d] = "send" <=> collector[d] = "send"
      BY <1>6 DEF CollectorEnds, TypeOK, CollectorTypes
    <2> QED
      BY <1>1, <1>6, <2>1 DEF CollectorEnds, callVars, errorVars
  <1> QED
    BY <1>2, <1>3, <1>4, <1>5, <1>6, DrainKeepsPlaces, SendErrorKeepsPlaces, StartKeepsPlaces, SendsKeepsPlaces,
       ReceivesKeepsPlaces DEF Next, Caller, Collector

\* A call that is not cancelled, and is not a Scan without items, returns the errors
\* sent to its plugin channels, in their order, none twice and none of another call,
\* all of them but those that a collector left behind by a cancelled call has taken.
THEOREM EveryErrorReachesItsCall == Spec => []ErrorsReachTheirCall
  <1>1. Init => CollectorsInOrder
    BY LibraryAssumption DEF LibraryAssumption, Init, CollectorsInOrder
  <1>2. Init => ErrorsInPlace
    <2> SUFFICES ASSUME Init PROVE ErrorsInPlace
      OBVIOUS
    <2>1. \A c \in Calls : sent[c] = 0 /\ errorsCh[c] = <<>> /\ reading[c] = None
      BY DEF Init
    <2>2. \A c \in Calls : Taken(c) = 0
      BY <2>1 DEF Taken
    <2> QED
      BY <2>1, <2>2 DEF ErrorsInPlace, ChannelInOrder, IsRun
  <1>3. TypeOK /\ CollectorsInOrder /\ ErrorsInPlace => ErrorsReachTheirCall
    <2> SUFFICES ASSUME TypeOK, CollectorsInOrder, ErrorsInPlace, NEW c \in Calls,
                        outcome[c] \in {"report", "errors"}
                 PROVE  /\ \A k \in DOMAIN errs[c] : errs[c][k] \in {c} \X (1..sent[c])
                        /\ \A k, l \in DOMAIN errs[c] : k < l => errs[c][k][2] < errs[c][l][2]
                        /\ \A k \in 1..sent[c] :
                              \/ \E l \in DOMAIN errs[c] : errs[c][l] = <<c, k>>
                              \/ \E d \in Calls : Strays(d, c) /\ <<c, k>> \in TakenBy(d)
      BY DEF ErrorsReachTheirCall
    <2>1. collector[c] = "done" /\ buffered[c] = <<>> /\ reading[c] = c /\ errorsCh[c] = <<>>
      BY DEF CollectorsInOrder
    <2>2. Line(c) = errs[c]
      BY <2>1, LineTypes DEF Line
    <2>3. Taken(c) = sent[c]
      BY <2>1 DEF Taken, TypeOK, ErrorTypes
    <2>4. LineInOrder(c)
      BY <2>1, LibraryAssumption DEF LibraryAssumption, ErrorsInPlace
    <2>5. ASSUME NEW k \in 1..sent[c], ~\E l \in DOMAIN errs[c] : errs[c][l] = <<c, k>>
          PROVE  \E d \in Calls : Strays(d, c) /\ <<c, k>> \in TakenBy(d)
      <3>1. PICK d \in Calls : reading[d] = c /\ Has(d, <<c, k>>)
        BY <2>3 DEF ErrorsInPlace
      <3>2. d # c
        BY <2>1, <2>2, <2>5, <3>1 DEF Has, InHand
      <3>3. d \in cancelled /\ errs[d] = <<>>
        BY <3>1, <3>2, LibraryAssumption DEF LibraryAssumption, CollectorsInOrder
      <3>4. Line(d) = buffered[d]
        BY <3>3, LineTypes DEF Line
      <3> QED
        BY <3>1, <3>2, <3>3, <3>4 DEF Has, Strays, TakenBy
    <2> QED
      BY <2>1, <2>2, <2>3, <2>4, <2>5 DEF LineInOrder
  <1> QED
    BY <1>1, <1>2, <1>3, CollectorsStep, PlacesStep, TypeCorrect, PTL DEF Spec
=============================================================================
