------------------------- MODULE OrderbookSystemAccounts -------------------------
(***************************************************************************)
(* Proofs about OrderbookSystem, for any number of streams, starts and     *)
(* packets: core.Metrics conserves packets, the manager starts all         *)
(* receivers or none, and no packet is received after a stop.              *)
(***************************************************************************)
EXTENDS OrderbookSystemProofs, FiniteSetTheorems

(* Packets add up. *)

\* The sum of one receiver.
Hands(r) == Cardinality(Holding(r))
AddsUp(r) == received[r] + failedReads[r] = processed[r] + dropped[r] + Hands(r)

LEMMA HoldingIsFinite ==
  ASSUME IndInv, NEW r \in Receivers
  PROVE  IsFiniteSet(Holding(r)) /\ Hands(r) \in Nat
<1>1. IsFiniteSet(Loops)
  BY CountAssumption, FS_Interval DEF Loops
<1>2. Holding(r) \subseteq Loops
  BY DEF Holding
<1> QED
  BY <1>1, <1>2, FS_Subset, FS_CardinalityType DEF Hands

\* Nothing happens to the receiver's counters and to who holds a packet.
LEMMA SumStays ==
  ASSUME NEW r \in Receivers, AddsUp(r),
         UNCHANGED <<received[r], failedReads[r], processed[r], dropped[r]>>,
         \A g \in Loops : (loop'[r][g] = "parse") <=> (loop[r][g] = "parse")
  PROVE  AddsUp(r)'
<1>1. Holding(r)' = Holding(r)
  BY DEF Holding
<1>2. Hands(r)' = Hands(r)
  BY <1>1 DEF Hands
<1> QED
  BY <1>2 DEF AddsUp

\* How many hold a packet when one goroutine goes from a place to another.
LEMMA HandsChange ==
  ASSUME IndInv, NEW r \in Receivers, NEW g \in Loops, NEW from, NEW to,
         GoTo(r, g, from, to)
  PROVE  /\ \A s \in Receivers \ {r} : \A h \in Loops : loop'[s][h] = loop[s][h]
         /\ (from = "parse") = (to = "parse") =>
              \A h \in Loops : (loop'[r][h] = "parse") <=> (loop[r][h] = "parse")
         /\ from # "parse" /\ to = "parse" => Hands(r)' = Hands(r) + 1
         /\ from = "parse" /\ to # "parse" => Hands(r)' = Hands(r) - 1
<1>1. /\ loop \in [Receivers -> [Loops -> Places]]
      /\ loop[r][g] = from /\ loop' = [loop EXCEPT ![r][g] = to]
  BY InvParts DEF GoTo
<1>2. \A h \in Loops : loop'[r][h] = IF h = g THEN to ELSE loop[r][h]
  BY <1>1
<1>3. IsFiniteSet(Holding(r))
  BY HoldingIsFinite
<1>4. \A s \in Receivers \ {r} : \A h \in Loops : loop'[s][h] = loop[s][h]
  BY <1>1
<1>5. (from = "parse") = (to = "parse") =>
        \A h \in Loops : (loop'[r][h] = "parse") <=> (loop[r][h] = "parse")
  BY <1>1, <1>2
<1>6. ASSUME from # "parse", to = "parse" PROVE Hands(r)' = Hands(r) + 1
  <2>1. Holding(r)' = Holding(r) \union {g} /\ g \notin Holding(r)
    BY <1>1, <1>2, <1>6 DEF Holding
  <2>2. Cardinality(Holding(r) \union {g}) = Cardinality(Holding(r)) + 1
    BY <1>3, <2>1, FS_AddElement
  <2> QED
    BY <2>1, <2>2 DEF Hands
<1>7. ASSUME from = "parse", to # "parse" PROVE Hands(r)' = Hands(r) - 1
  <2>1. Holding(r)' = Holding(r) \ {g} /\ g \in Holding(r)
    BY <1>1, <1>2, <1>7 DEF Holding
  <2>2. Cardinality(Holding(r) \ {g}) = Cardinality(Holding(r)) - 1
    BY <1>3, <2>1, FS_RemoveElement
  <2> QED
    BY <2>1, <2>2 DEF Hands
<1> QED
  BY <1>4, <1>5, <1>6, <1>7

\* A step of a goroutine: a packet comes into its hand with a read, and leaves it
\* with exactly one count.
LEMMA LoopStepAddsUp ==
  ASSUME IndInv, NEW r \in Receivers, NEW g \in Loops, receiveLoop(r, g),
         NEW s \in Receivers, AddsUp(s)
  PROVE  AddsUp(s)'
<1>1. /\ received \in [Receivers -> Nat] /\ processed \in [Receivers -> Nat]
      /\ dropped \in [Receivers -> Nat] /\ failedReads \in [Receivers -> Nat]
  <2>1. ReceiversTypeOK /\ MaxErrors \in Nat
    BY CountAssumption DEF IndInv, TypeOK
  <2> QED
    BY <2>1 DEF ReceiversTypeOK
<1>2. Hands(s) \in Nat
  BY HoldingIsFinite
<1>3. CASE TestRunning(r, g) \/ CallRead(r, g) \/ ReadFails(r, g)
  <2>1. PICK from \in Places \ {"parse"}, to \in Places \ {"parse"} :
          GoTo(r, g, from, to)
    BY <1>3 DEF TestRunning, CallRead, ReadFails, GoTo, Places
  <2>2. \A h \in Loops : (loop'[s][h] = "parse") <=> (loop[s][h] = "parse")
    BY <2>1, HandsChange
  <2>3. UNCHANGED <<received, processed, dropped, failedReads>>
    BY <1>3 DEF TestRunning, CallRead, ReadFails, counters
  <2> QED
    BY <2>2, <2>3, SumStays
<1>4. CASE AfterError(r, g)
  <2>1. PICK to \in {"ended", "test"} : GoTo(r, g, "error", to)
    BY <1>4 DEF AfterError
  <2>2. \A h \in Loops : (loop'[s][h] = "parse") <=> (loop[s][h] = "parse")
    BY <2>1, HandsChange
  <2>3. Holding(s)' = Holding(s)
    BY <2>2 DEF Holding
  <2>4. Hands(s)' = Hands(s)
    BY <2>3 DEF Hands
  <2>5. /\ UNCHANGED <<received, processed>>
        /\ \/ UNCHANGED <<dropped, failedReads>>
           \/ /\ failedReads' = [failedReads EXCEPT ![r] = @ + 1]
              /\ dropped' = [dropped EXCEPT ![r] = @ + 1]
    BY <1>4 DEF AfterError
  <2>6. \/ failedReads'[s] = failedReads[s] /\ dropped'[s] = dropped[s]
        \/ failedReads'[s] = failedReads[s] + 1 /\ dropped'[s] = dropped[s] + 1
    BY <1>1, <2>5
  <2> QED
    BY <1>1, <1>2, <2>4, <2>5, <2>6 DEF AddsUp
<1>5. ASSUME s # r PROVE AddsUp(s)'
  <2>1. \A h \in Loops : loop'[s][h] = loop[s][h]
    BY <1>5, HandsChange DEF receiveLoop, LoopProceeds, ReadEnds, TestRunning, CallRead,
       AfterError, Refuse, Enqueue, LetGo, Read, ReadFails
  <2>2. /\ \/ UNCHANGED received \/ received' = [received EXCEPT ![r] = @ + 1]
        /\ \/ UNCHANGED processed \/ processed' = [processed EXCEPT ![r] = @ + 1]
        /\ \/ UNCHANGED dropped \/ dropped' = [dropped EXCEPT ![r] = @ + 1]
        /\ \/ UNCHANGED failedReads \/ failedReads' = [failedReads EXCEPT ![r] = @ + 1]
    BY DEF receiveLoop, LoopProceeds, ReadEnds, TestRunning, CallRead, AfterError, Refuse,
       Enqueue, LetGo, Read, ReadFails, Drop, counters
  <2>3. UNCHANGED <<received[s], failedReads[s], processed[s], dropped[s]>>
    BY <1>1, <1>5, <2>2
  <2> QED
    BY <2>1, <2>3, SumStays
<1>6. ASSUME s = r, NEW p \in Packets, Read(r, g, p) PROVE AddsUp(s)'
  <2>1. /\ GoTo(r, g, "read", "parse")
        /\ received' = [received EXCEPT ![r] = @ + 1]
        /\ UNCHANGED <<processed, dropped, failedReads>>
    BY <1>6 DEF Read
  <2>2. Hands(s)' = Hands(s) + 1
    BY <1>6, <2>1, HandsChange
  <2>3. received'[s] = received[s] + 1
    BY <1>1, <1>6, <2>1
  <2> QED
    BY <1>1, <1>2, <2>1, <2>2, <2>3 DEF AddsUp
<1>7. ASSUME s = r, Refuse(r, g) \/ Enqueue(r, g) PROVE AddsUp(s)'
  <2>1. /\ GoTo(r, g, "parse", "test")
        /\ UNCHANGED <<received, failedReads>>
        /\ \/ dropped' = [dropped EXCEPT ![r] = @ + 1] /\ UNCHANGED processed
           \/ processed' = [processed EXCEPT ![r] = @ + 1] /\ UNCHANGED dropped
    BY <1>7 DEF Refuse, Enqueue, LetGo, Drop
  <2>2. Hands(s)' = Hands(s) - 1
    BY <1>7, <2>1, HandsChange
  <2>3. \/ dropped'[s] = dropped[s] + 1 /\ processed'[s] = processed[s]
        \/ processed'[s] = processed[s] + 1 /\ dropped'[s] = dropped[s]
    BY <1>1, <1>7, <2>1
  <2> QED
    BY <1>1, <1>2, <2>1, <2>2, <2>3 DEF AddsUp
<1> QED
  BY <1>3, <1>4, <1>5, <1>6, <1>7 DEF receiveLoop, LoopProceeds, ReadEnds

\* Every other step leaves the counters alone, and the goroutine that begins holds
\* no packet.
LEMMA OtherStepAddsUp ==
  ASSUME IndInv, NEW s \in Receivers, AddsUp(s),
         \/ OwnerSteps \/ InManager \/ RunMetricsMonitor \/ UNCHANGED vars
         \/ \E g \in Loops : processLoop(g)
  PROVE  AddsUp(s)'
<1>1. UNCHANGED counters /\ (UNCHANGED loop \/ StartReceiver)
  BY DEF OwnerSteps, StartSystem, StartFailed, StartHandler, StopSystem, StopManager,
         StopReturned, StartEnter, StopEnter, InManager, ManagerProceeds, StartReceiver,
         StartReceiverFails, StartReturns, StopReceiverFlag, StopReceiverClose,
         StopReceiverDone, StopReturns, Start, StartFails, StopFlag, CloseSocket,
         processLoop, WorkerTest, WorkerNext, RunMetricsMonitor, MonitorTest, MonitorLock,
         MonitorReport, MonitorGoes, vars, receivers, reception
<1>2. CASE UNCHANGED loop
  BY <1>1, <1>2, SumStays DEF counters
<1>3. CASE StartReceiver
  <2>1. /\ loop \in [Receivers -> [Loops -> Places]] /\ at \in Receivers
        /\ begun[at] \in Nat
        /\ loop' = [loop EXCEPT ![at][begun[at] + 1] = "test"]
    BY <1>3, InvParts DEF StartReceiver, Start, Receivers
  <2>2. \A g \in Loops : g \in Nat
    BY DEF Loops
  <2>3. ASSUME begun[at] + 1 \in Loops PROVE loop[at][begun[at] + 1] = "none"
    BY <2>1, <2>3 DEF IndInv, Numbered
  <2>4. \A g \in Loops : (loop'[s][g] = "parse") <=> (loop[s][g] = "parse")
    BY <2>1, <2>3
  <2> QED
    BY <1>1, <2>4, SumStays DEF counters
<1> QED
  BY <1>1, <1>2, <1>3

\* core.Metrics conserves packets, for any number of goroutines per receiver:
\* what was received, and what failed, is processed, dropped, or in some hand.
THEOREM PacketsConserved == Spec => []PacketsAddUp
<1>1. PacketsAddUp <=> \A r \in Receivers : AddsUp(r)
  BY DEF PacketsAddUp, AddsUp, Hands
<1>2. Init => PacketsAddUp
  <2> SUFFICES ASSUME Init, NEW r \in Receivers PROVE AddsUp(r)
    BY <1>1
  <2>1. Holding(r) = {}
    BY DEF Init, ReceiversInit, Holding
  <2> QED
    BY <2>1, FS_EmptySet DEF Init, ReceiversInit, AddsUp, Hands
<1>3. IndInv /\ PacketsAddUp /\ [Next]_vars => PacketsAddUp'
  <2> SUFFICES ASSUME IndInv, PacketsAddUp, [Next]_vars, NEW s \in Receivers
               PROVE  AddsUp(s)'
    BY DEF PacketsAddUp, AddsUp, Hands
  <2>1. AddsUp(s)
    BY <1>1
  <2>2. ASSUME NEW r \in Receivers, NEW g \in Loops, receiveLoop(r, g)
        PROVE  AddsUp(s)'
    BY <2>1, <2>2, LoopStepAddsUp
  <2>3. \/ OwnerSteps \/ InManager \/ RunMetricsMonitor \/ UNCHANGED vars
        \/ \E g \in Loops : processLoop(g)
        \/ \E r \in Receivers, g \in Loops : receiveLoop(r, g)
    BY DEF Next, OwnerProceeds, OwnerSteps
  <2> QED
    BY <2>1, <2>2, <2>3, OtherStepAddsUp
<1> QED
  BY <1>2, <1>3, Invariance, PTL DEF Spec
--------------------------------------------------------------------------------
(* All receivers or none.                                                   *)
(*                                                                          *)
(* A receiver that Start got through is up, and only a Stop takes it down.  *)
(* In the first Start the receivers are halted from the one at on: no       *)
(* goroutine of theirs began.  When a stop comes to its end the receivers   *)
(* are down, and nobody puts a flag back to 1 before the next Start.        *)

Up(r) == running[r] = 1 /\ \E g \in Loops : Alive(r, g)
Down(r) == running[r] = 0 /\ ~open[r]
NotBegun(r) == begun[r] = 0

\* What a running manager, and a call of Start on its way, have achieved.
Achieved ==
  /\ call = "none" /\ smRunning => \A r \in Receivers : Up(r)
  /\ call = "start" => \A r \in Receivers : r < at => Up(r)
  /\ call \in {"start", "undo"} => ~smRunning

\* What the first Start has left to do, and a stop has done.
FirstTime ==
  /\ call = "none" /\ ~smRunning => \A r \in Receivers : Down(r) \/ NotBegun(r)
  /\ call = "start" => \A r \in Receivers : r >= at => NotBegun(r)
  /\ call = "undo" => \A r \in Receivers : r > last => NotBegun(r)
  /\ call \in {"undo", "stop"} => \A r \in Receivers : r < at => Down(r)
  /\ closing # "no" => running[at] = 0
  /\ closing = "closed" => ~open[at]

\* Nothing begins before the first Start.
BeforeStart ==
  /\ starts = 0 => \A r \in Receivers : NotBegun(r)
  /\ call \in {"start", "undo"} => starts > 0

AllInv == Achieved /\ (FirstStart => FirstTime) /\ BeforeStart

\* Only StartReceiver begins a goroutine, and no goroutine that runs ends while
\* its flag is 1.
LEMMA UpStays ==
  ASSUME IndInv, Next \/ UNCHANGED vars, NEW r \in Receivers, Up(r), running'[r] = 1
  PROVE  Up(r)'
<1>1. /\ loop \in [Receivers -> [Loops -> Places]]
      /\ at \in 1 .. N + 1 /\ begun \in [Receivers -> 0 .. MaxStarts]
  BY InvParts
<1>2. PICK g \in Loops : Alive(r, g)
  BY DEF Up
<1>3. Alive(r, g)'
  <2>1. CASE UNCHANGED loop
    BY <1>2, <2>1 DEF Alive
  <2>2. CASE StartReceiver
    BY <1>1, <1>2, <2>2 DEF StartReceiver, Start, Alive
  <2>3. ASSUME NEW s \in Receivers, NEW h \in Loops, receiveLoop(s, h)
        PROVE  Alive(r, g)'
    <3>1. PICK to \in Places : loop' = [loop EXCEPT ![s][h] = to]
                               /\ (to \in {"none", "ended"} => running[s] # 1)
      BY <2>3 DEF receiveLoop, LoopProceeds, ReadEnds, TestRunning, CallRead, AfterError,
                  Refuse, Enqueue, LetGo, Read, ReadFails, GoTo, Places
    <3>2. loop'[r][g] = IF s = r /\ h = g THEN to ELSE loop[r][g]
      BY <1>1, <3>1
    <3>3. running[r] = 1
      BY DEF Up
    <3> QED
      BY <1>2, <3>1, <3>2, <3>3 DEF Alive
  <2> QED
    BY <2>1, <2>2, <2>3 DEF Next, OwnerProceeds, StartSystem, StartFailed, StartHandler,
       StopSystem, StopManager, StopReturned, StartEnter, StopEnter, InManager,
       ManagerProceeds, StartReceiverFails, StartReturns, StopReceiverFlag,
       StopReceiverClose, StopReceiverDone, StopReturns, StartFails, StopFlag, CloseSocket,
       processLoop, WorkerTest, WorkerNext, RunMetricsMonitor, MonitorTest, MonitorLock,
       MonitorReport, MonitorGoes, vars, receivers, reception
<1> QED
  BY <1>3 DEF Up

\* A step beside the manager's calls: flags, sockets and goroutines begun stay.
LEMMA BesideKeepsAll ==
  ASSUME IndInv, AllInv, Next \/ UNCHANGED vars,
         UNCHANGED <<socket, starts, smRunning, call, at, last, closing>>
  PROVE  AllInv'
<1>1. UNCHANGED <<running, open, begun>>
  BY DEF socket
<1>2. \A r \in Receivers : Up(r) => Up(r)'
  BY <1>1, UpStays DEF Up
<1>3. Achieved'
  BY <1>2 DEF AllInv, Achieved
<1>4. FirstStart' => FirstTime'
  BY <1>1 DEF AllInv, FirstStart, FirstTime, Down, NotBegun
<1>5. BeforeStart'
  BY <1>1 DEF AllInv, BeforeStart, NotBegun
<1> QED
  BY <1>3, <1>4, <1>5 DEF AllInv

LEMMA StartReceiverKeepsAll ==
  ASSUME IndInv, AllInv, StartReceiver, UNCHANGED starts, Next
  PROVE  AllInv'
<1>1. /\ N \in Nat \ {0} /\ at \in 1 .. N /\ at \in Receivers
      /\ running \in [Receivers -> {0, 1}]
      /\ begun \in [Receivers -> 0 .. MaxStarts]
      /\ loop \in [Receivers -> [Loops -> Places]]
      /\ Receivers \subseteq Nat
  BY InvParts DEF StartReceiver, Receivers
<1>2. /\ begun[at] < MaxStarts
      /\ running' = [running EXCEPT ![at] = 1]
      /\ begun' = [begun EXCEPT ![at] = @ + 1]
      /\ loop' = [loop EXCEPT ![at][begun[at] + 1] = "test"]
      /\ UNCHANGED <<open, starts, smRunning, call, closing>>
      /\ call = "start" /\ at' = at + 1
      /\ closing = "no"
  BY DEF StartReceiver, Start, IndInv, InLoop
<1>3. ASSUME NEW r \in Receivers, r = at PROVE Up(r)'
  <2>1. begun[at] + 1 \in Loops
    BY <1>1, <1>2, InvParts DEF Loops
  <2>2. loop'[r][begun[at] + 1] = "test" /\ running'[r] = 1
    BY <1>1, <1>2, <1>3, <2>1
  <2> QED
    BY <2>1, <2>2 DEF Up, Alive
<1>4. ASSUME NEW r \in Receivers, r < at PROVE Up(r)'
  <2>1. Up(r)
    BY <1>2, <1>4 DEF AllInv, Achieved
  <2>2. running'[r] = 1
    BY <1>1, <1>2, <1>4, <2>1 DEF Up
  <2> QED
    BY <2>1, <2>2, UpStays
<1>5. Achieved'
  <2>1. ASSUME NEW r \in Receivers, r < at' PROVE Up(r)'
    <3>1. r < at \/ r = at
      BY <1>1, <1>2, <2>1
    <3> QED
      BY <1>3, <1>4, <3>1
  <2> QED
    BY <1>2, <2>1 DEF AllInv, Achieved
<1>6. FirstStart' => FirstTime'
  <2> SUFFICES ASSUME FirstStart' PROVE FirstTime'
    OBVIOUS
  <2>1. \A r \in Receivers : r >= at => begun[r] = 0
    BY <1>2 DEF AllInv, FirstStart, FirstTime, NotBegun
  <2>2. \A r \in Receivers : r >= at + 1 => begun'[r] = 0
    BY <1>1, <1>2, <2>1
  <2> QED
    BY <1>2, <2>2 DEF FirstTime, NotBegun
<1>7. BeforeStart'
  BY <1>2 DEF AllInv, BeforeStart
<1> QED
  BY <1>5, <1>6, <1>7 DEF AllInv

\* The receivers from the failing one on have begun nothing in the first Start.
LEMMA StartReceiverFailsKeepsAll ==
  ASSUME IndInv, AllInv, StartReceiverFails, UNCHANGED starts
  PROVE  AllInv'
<1>1. at \in 1 .. N /\ Receivers \subseteq Nat
  BY InvParts DEF StartReceiverFails, Receivers
<1>2. /\ UNCHANGED <<open, begun, starts, smRunning, closing>>
      /\ call = "start" /\ call' = "undo" /\ at' = 1 /\ last' = at - 1
      /\ closing = "no"
  BY DEF StartReceiverFails, StartFails, IndInv, InLoop
<1>3. Achieved' /\ BeforeStart'
  BY <1>2 DEF AllInv, Achieved, BeforeStart
<1>4. FirstStart' => FirstTime'
  <2> SUFFICES ASSUME FirstStart' PROVE FirstTime'
    OBVIOUS
  <2>1. \A r \in Receivers : r >= at => begun[r] = 0
    BY <1>2 DEF AllInv, FirstStart, FirstTime, NotBegun
  <2>2. \A r \in Receivers : r > at - 1 => begun'[r] = 0
    BY <1>1, <1>2, <2>1
  <2>3. \A r \in Receivers : ~(r < 1)
    BY DEF Receivers
  <2> QED
    BY <1>2, <2>2, <2>3 DEF FirstTime, NotBegun
<1> QED
  BY <1>3, <1>4 DEF AllInv

LEMMA StopReceiverKeepsAll ==
  ASSUME IndInv, AllInv, StopReceiverFlag \/ StopReceiverClose \/ StopReceiverDone,
         UNCHANGED starts
  PROVE  AllInv'
<1>1. /\ at \in 1 .. N + 1 /\ last \in 0 .. N /\ N \in Nat
      /\ running \in [Receivers -> {0, 1}]
      /\ open \in [Receivers -> BOOLEAN]
      /\ Receivers \subseteq Nat
  BY InvParts DEF Receivers
<1>2. call \in {"undo", "stop"} /\ at <= last /\ at \in Receivers
  <2>1. call \in {"undo", "stop"} /\ at <= last
    BY DEF StopReceiverFlag, StopReceiverClose, StopReceiverDone, IndInv, InLoop
  <2> QED
    BY <1>1, <2>1 DEF Receivers
<1>3. UNCHANGED <<begun, starts, smRunning, call, last>>
  BY DEF StopReceiverFlag, StopReceiverClose, StopReceiverDone, StopFlag, CloseSocket,
         socket
<1>4. Achieved' /\ BeforeStart'
  BY <1>2, <1>3 DEF AllInv, Achieved, BeforeStart, NotBegun
<1>5. ASSUME FirstStart' PROVE FirstTime'
  <2>1. FirstTime
    BY <1>3, <1>5 DEF AllInv, FirstStart
  <2>2. call = "undo" => \A r \in Receivers : r > last' => NotBegun(r)'
    BY <1>3, <2>1 DEF FirstTime, NotBegun
  <2>3. \A r \in Receivers : r < at => Down(r)
    BY <1>2, <2>1 DEF FirstTime
  <2>4. CASE StopReceiverFlag
    <3>1. /\ running' = [running EXCEPT ![at] = 0] /\ closing' = "flag"
          /\ UNCHANGED <<open, at>>
      BY <2>4 DEF StopReceiverFlag, StopFlag
    <3>2. \A r \in Receivers : r < at' => Down(r)'
      BY <1>1, <2>3, <3>1 DEF Down
    <3>3. running'[at'] = 0
      BY <1>1, <1>2, <3>1
    <3> QED
      BY <1>2, <1>3, <2>2, <3>1, <3>2, <3>3 DEF FirstTime
  <2>5. CASE StopReceiverClose
    <3>1. /\ open' = [open EXCEPT ![at] = FALSE] /\ closing = "flag" /\ closing' = "closed"
          /\ UNCHANGED <<running, at>>
      BY <2>5 DEF StopReceiverClose, CloseSocket
    <3>2. running'[at'] = 0
      BY <2>1, <3>1 DEF FirstTime
    <3>3. ~open'[at]
      BY <1>1, <1>2, <3>1
    <3>4. \A r \in Receivers : r < at => r # at
      BY <1>1
    <3>5. \A r \in Receivers : r < at => ~open'[r]
      BY <1>1, <2>3, <3>1, <3>4, Zenon DEF Down
    <3>6. \A r \in Receivers : r < at' => Down(r)'
      BY <2>3, <3>1, <3>5 DEF Down
    <3> QED
      BY <1>2, <1>3, <2>2, <3>1, <3>2, <3>3, <3>6 DEF FirstTime
  <2>6. CASE StopReceiverDone
    <3>1. /\ at' = at + 1 /\ closing = "closed" /\ closing' = "no"
          /\ UNCHANGED <<running, open>>
      BY <2>6 DEF StopReceiverDone, socket
    <3>2. Down(at)
      BY <2>1, <3>1 DEF FirstTime, Down
    <3>3. \A r \in Receivers : r < at' => r < at \/ r = at
      BY <1>1, <3>1
    <3>4. \A r \in Receivers : r < at' => Down(r)'
      BY <2>3, <3>1, <3>2, <3>3 DEF Down
    <3> QED
      BY <1>2, <1>3, <2>2, <3>1, <3>4 DEF FirstTime
  <2> QED
    BY <2>4, <2>5, <2>6
<1> QED
  BY <1>4, <1>5 DEF AllInv

\* A call returns: whatever its loop has passed is all there is.
LEMMA ReturnKeepsAll ==
  ASSUME IndInv, AllInv, StartReturns \/ StopReturns, UNCHANGED starts, Next
  PROVE  AllInv'
<1>1. /\ at \in 1 .. N + 1 /\ last \in 0 .. N /\ N \in Nat
      /\ \A r \in Receivers : r \in 1 .. N
  BY InvParts DEF Receivers
<1>2. /\ UNCHANGED <<running, open, begun, starts, closing>>
      /\ call' = "none"
  BY DEF StartReturns, StopReturns, Leave, socket
<1>3. closing = "no"
  BY <1>1 DEF StartReturns, StopReturns, IndInv, InLoop
<1>4. BeforeStart'
  BY <1>2 DEF AllInv, BeforeStart, NotBegun
<1>5. Achieved'
  <2>1. CASE StartReturns
    <3>1. \A r \in Receivers : Up(r)
      BY <1>1, <2>1 DEF StartReturns, AllInv, Achieved
    <3>2. \A r \in Receivers : Up(r)'
      BY <1>2, <3>1, UpStays DEF Up
    <3> QED
      BY <1>2, <3>2 DEF Achieved
  <2>2. CASE StopReturns
    BY <1>2, <2>2 DEF StopReturns, Achieved
  <2> QED
    BY <2>1, <2>2
<1>6. ASSUME FirstStart' PROVE FirstTime'
  <2>1. FirstTime
    BY <1>2, <1>6 DEF AllInv, FirstStart
  <2>2. CASE StartReturns
    BY <1>2, <1>3, <2>2 DEF StartReturns, FirstTime
  <2>3. CASE StopReturns
    <3>1. \A r \in Receivers : Down(r) \/ NotBegun(r)
      <4> TAKE r \in Receivers
      <4>1. CASE r < at
        BY <2>1, <2>3, <4>1 DEF StopReturns, FirstTime
      <4>2. CASE ~(r < at)
        <5>1. r > last
          BY <1>1, <2>3, <4>2 DEF StopReturns
        <5>2. call = "undo"
          BY <1>1, <2>3, <5>1 DEF StopReturns, IndInv, InLoop
        <5> QED
          BY <2>1, <5>1, <5>2 DEF FirstTime
      <4> QED
        BY <4>1, <4>2
    <3>2. \A r \in Receivers : Down(r)' \/ NotBegun(r)'
      BY <1>2, <3>1 DEF Down, NotBegun
    <3> QED
      BY <1>2, <1>3, <3>2 DEF FirstTime
  <2> QED
    BY <2>2, <2>3
<1> QED
  BY <1>4, <1>5, <1>6 DEF AllInv

\* The first Start finds receivers that have begun nothing.
LEMMA EnterKeepsAll ==
  ASSUME IndInv, AllInv, StartSystem \/ StopManager, Next
  PROVE  AllInv'
<1>1. /\ starts \in Nat /\ Receivers \subseteq Nat
      /\ UNCHANGED <<running, open, begun, smRunning, at, last, closing>>
      /\ call = "none"
      /\ at = 1 /\ closing = "no"
      /\ \A r \in Receivers : r >= 1
  <2>1. starts \in Nat
    <3>1. starts \in 0 .. MaxStarts
      BY Zenon DEF IndInv, TypeOK
    <3> QED
      BY <3>1, InvParts
  <2>2. /\ UNCHANGED <<running, open, begun, smRunning, at, last, closing>>
        /\ call = "none"
    <3>1. StartEnter \/ StopEnter
      BY DEF StartSystem, StopManager
    <3>2. CASE StartEnter
      BY <3>2 DEF StartEnter, Unlocked, Enter, socket
    <3>3. CASE StopEnter
      BY <3>3 DEF StopEnter, Unlocked, Enter, socket
    <3> QED
      BY <3>1, <3>2, <3>3
  <2>3. at = 1 /\ closing = "no"
    BY <2>2 DEF IndInv, InLoop
  <2> QED
    BY <2>1, <2>2, <2>3 DEF Receivers
<1>2. \A r \in Receivers : Up(r) => Up(r)'
  BY <1>1, UpStays DEF Up
<1>3. CASE UNCHANGED <<call, starts>>
  BY <1>1, <1>3, BesideKeepsAll DEF socket
<1>4. CASE StartSystem
  <2>1. starts' = starts + 1
        /\ \/ call' = "none" /\ smRunning
           \/ call' = "start" /\ ~smRunning
    BY <1>1, <1>4 DEF StartSystem, StartEnter, Enter
  <2>2. Achieved'
    BY <1>1, <1>2, <2>1 DEF AllInv, Achieved
  <2>3. BeforeStart'
    BY <1>1, <2>1 DEF BeforeStart
  <2>4. ASSUME FirstStart' PROVE FirstTime'
    <3>1. starts = 0
      BY <1>1, <2>1, <2>4 DEF FirstStart
    <3>2. \A r \in Receivers : NotBegun(r)'
      BY <1>1, <3>1 DEF AllInv, BeforeStart, NotBegun
    <3> QED
      BY <1>1, <2>1, <3>2 DEF FirstTime
  <2> QED
    BY <2>2, <2>3, <2>4 DEF AllInv
<1>5. CASE StopManager /\ call' # call
  <2>1. smRunning /\ call' = "stop" /\ starts' = starts
    BY <1>5 DEF StopManager, StopEnter, Enter
  <2>2. Achieved' /\ BeforeStart'
    BY <1>1, <2>1 DEF AllInv, Achieved, BeforeStart, NotBegun
  <2>3. FirstTime'
    BY <1>1, <2>1 DEF FirstTime
  <2> QED
    BY <2>2, <2>3 DEF AllInv
<1> QED
  BY <1>3, <1>4, <1>5 DEF StopManager

LEMMA NextKeepsAll ==
  IndInv /\ AllInv /\ [Next]_vars => AllInv'
<1> SUFFICES ASSUME IndInv, AllInv, Next \/ UNCHANGED vars PROVE AllInv'
  OBVIOUS
<1>1. CASE StartSystem \/ StopManager
  BY <1>1, EnterKeepsAll DEF Next, OwnerProceeds
<1>2. CASE InManager
  <2>1. UNCHANGED starts /\ Next
    BY <1>2 DEF InManager, system, Next, OwnerProceeds
  <2> QED
    BY <1>2, <2>1, StartReceiverKeepsAll, StartReceiverFailsKeepsAll,
       StopReceiverKeepsAll, ReturnKeepsAll DEF InManager, ManagerProceeds
<1>3. ASSUME UNCHANGED <<socket, starts, smRunning, call, at, last, closing>> PROVE AllInv'
  BY <1>3, BesideKeepsAll
<1>4. CASE StartFailed \/ StartHandler \/ StopSystem \/ StopReturned
  <2>1. UNCHANGED <<receivers, starts>>
    BY <1>4 DEF StartFailed, StartHandler, StopSystem, StopReturned
  <2>2. UNCHANGED manager \/ Returned
    BY <1>4 DEF StartFailed, StartHandler, StopSystem, StopReturned
  <2> QED
    BY <1>3, <2>1, <2>2 DEF receivers, socket, manager, Returned
<1>5. CASE RunMetricsMonitor
  BY <1>3, <1>5 DEF RunMetricsMonitor, MonitorTest, MonitorLock, MonitorReport, MonitorGoes,
     ReadLock, ReadUnlock, receivers, socket, manager, system
<1>6. ASSUME NEW g \in Loops, processLoop(g) PROVE AllInv'
  BY <1>3, <1>6 DEF processLoop, WorkerTest, WorkerNext, receivers, socket, manager, system
<1>7. ASSUME NEW r \in Receivers, NEW g \in Loops, receiveLoop(r, g),
             UNCHANGED <<manager, system, goroutines>>
      PROVE  AllInv'
  <2>1. UNCHANGED socket
    BY <1>7 DEF receiveLoop, LoopProceeds, ReadEnds, TestRunning, CallRead, AfterError,
       Refuse, Enqueue, LetGo, Read, ReadFails
  <2> QED
    BY <1>3, <1>7, <2>1 DEF manager, system
<1>8. CASE UNCHANGED vars
  BY <1>3, <1>8 DEF vars, receivers, manager, system
<1> QED
  BY <1>1, <1>2, <1>4, <1>5, <1>6, <1>7, <1>8 DEF Next, OwnerProceeds

\* All receivers run or none does between two calls, for any number of receivers
\* and whichever of them failed to start.
THEOREM AllStartedOrNone == Spec => []AllOrNone
<1>1. Init => AllInv
  <2> SUFFICES ASSUME Init PROVE AllInv
    OBVIOUS
  <2>1. \A r \in Receivers : NotBegun(r)
    BY DEF Init, ReceiversInit, NotBegun
  <2>2. call = "none" /\ ~smRunning /\ closing = "no" /\ starts = 0
    BY DEF Init, ManagerInit
  <2> QED
    <3>1. Achieved /\ BeforeStart
      BY <2>1, <2>2 DEF Achieved, BeforeStart
    <3>2. FirstTime
      BY <2>1, <2>2 DEF FirstTime
    <3> QED
      BY <3>1, <3>2 DEF AllInv
<1>2. IndInv /\ AllInv => AllOrNone
  <2> SUFFICES ASSUME IndInv, AllInv, call = "none" PROVE AllOrNone
    BY DEF AllOrNone
  <2>1. smRunning => \A r \in Receivers : running[r] = 1 /\ \E g \in Loops : Alive(r, g)
    BY DEF AllInv, Achieved, Up
  <2>2. ASSUME ~smRunning, FirstStart, NEW r \in Receivers, NEW g \in Loops, Alive(r, g)
        PROVE  running[r] = 0 /\ ~open[r]
    <3>1. g <= begun[r] /\ g \in Nat \ {0}
      BY <2>2 DEF IndInv, Numbered, Alive, Loops
    <3>2. ~NotBegun(r)
      BY <3>1 DEF NotBegun
    <3> QED
      BY <2>2, <3>2 DEF AllInv, FirstTime, Down
  <2> QED
    BY <2>1, <2>2 DEF AllOrNone
<1> QED
  BY <1>1, <1>2, NextKeepsAll, Invariance, PTL DEF Spec
--------------------------------------------------------------------------------
(* No reception after a stop.                                               *)
(*                                                                          *)
(* A read in progress is one of an open socket, or one that Close waits     *)
(* for; and an open socket with a goroutine belongs to a manager that runs, *)
(* or to a call whose loop has not come past it.                            *)

OpenInTime ==
  \A r \in Receivers : open[r] /\ begun[r] = 1 =>
    /\ call = "none" => smRunning
    /\ call = "start" => r < at
    /\ call \in {"undo", "stop"} => at <= r
    /\ call = "undo" => r <= last

ClosedInTurn == closing = "closed" => ~open[at]

ReadsWhatIsOpen ==
  \A r \in Receivers, g \in Loops :
    loop[r][g] = "read" => open[r] \/ (closing = "closed" /\ at = r)

ReceptionInv == OpenInTime /\ ClosedInTurn /\ ReadsWhatIsOpen

\* Steps that leave flags, sockets and the manager alone.
LEMMA BesideKeepsReception ==
  ASSUME IndInv, ReceptionInv,
         UNCHANGED <<open, begun, smRunning, call, at, last, closing>>,
         \A r \in Receivers, g \in Loops :
           loop'[r][g] = "read" => loop[r][g] = "read" \/ open[r]
  PROVE  ReceptionInv'
BY DEF ReceptionInv, OpenInTime, ClosedInTurn, ReadsWhatIsOpen

LEMMA StartKeepsReception ==
  ASSUME IndInv, ReceptionInv, StartReceiver \/ StartReceiverFails
  PROVE  ReceptionInv'
<1>1. /\ at \in 1 .. N /\ at \in Receivers /\ Receivers \subseteq Nat /\ N \in Nat
      /\ \A r \in Receivers : r >= 1
      /\ begun \in [Receivers -> 0 .. MaxStarts]
      /\ loop \in [Receivers -> [Loops -> Places]]
  BY InvParts DEF StartReceiver, StartReceiverFails, Receivers
<1>2. call = "start" /\ closing = "no" /\ closing' = "no" /\ UNCHANGED open
  BY DEF StartReceiver, StartReceiverFails, Start, StartFails, IndInv, InLoop
<1>3. ASSUME NEW r \in Receivers, open[r], begun[r] = 1 PROVE r < at
  BY <1>2, <1>3 DEF ReceptionInv, OpenInTime
<1>4. OpenInTime'
  <2>1. CASE StartReceiver
    <3>1. at' = at + 1 /\ call' = "start"
          /\ \A r \in Receivers : r # at => begun'[r] = begun[r]
      BY <1>1, <2>1 DEF StartReceiver, Start
    <3>2. ASSUME NEW r \in Receivers, open[r], begun'[r] = 1 PROVE r < at'
      <4>1. r < at \/ r = at
        BY <1>3, <3>1, <3>2
      <4> QED
        BY <1>1, <3>1, <4>1
    <3> QED
      BY <1>2, <3>1, <3>2 DEF OpenInTime
  <2>2. CASE StartReceiverFails
    <3>1. at' = 1 /\ last' = at - 1 /\ call' = "undo" /\ begun' = begun
      BY <2>2 DEF StartReceiverFails, StartFails
    <3>2. \A r \in Receivers : r < at => r <= last' /\ at' <= r
      BY <1>1, <3>1
    <3> QED
      BY <1>2, <1>3, <3>1, <3>2 DEF OpenInTime
  <2> QED
    BY <2>1, <2>2
<1>5. ReadsWhatIsOpen'
  <2>1. \A r \in Receivers, g \in Loops : loop'[r][g] = "read" => loop[r][g] = "read"
    BY <1>1 DEF StartReceiver, StartReceiverFails, Start, StartFails, reception
  <2> QED
    BY <1>2, <2>1 DEF ReceptionInv, ReadsWhatIsOpen
<1>6. ClosedInTurn'
  BY <1>2 DEF ClosedInTurn
<1> QED
  BY <1>4, <1>5, <1>6 DEF ReceptionInv

LEMMA StopKeepsReception ==
  ASSUME IndInv, ReceptionInv, StopReceiverFlag \/ StopReceiverClose \/ StopReceiverDone
  PROVE  ReceptionInv'
<1>1. /\ at \in 1 .. N + 1 /\ Receivers \subseteq Nat /\ N \in Nat
      /\ open \in [Receivers -> BOOLEAN]
  BY InvParts DEF Receivers
<1>2. at \in Receivers /\ call \in {"undo", "stop"}
  <2>1. at <= last /\ last \in 0 .. N /\ call \in {"undo", "stop"}
    BY InvParts DEF StopReceiverFlag, StopReceiverClose, StopReceiverDone, IndInv, InLoop
  <2> QED
    BY <1>1, <2>1 DEF Receivers
<1>3. UNCHANGED <<begun, loop, smRunning, call, last>>
  BY DEF StopReceiverFlag, StopReceiverClose, StopReceiverDone, StopFlag, CloseSocket,
         reception, socket
<1>4. CASE StopReceiverFlag
  BY <1>3, <1>4 DEF StopReceiverFlag, StopFlag, ReceptionInv, OpenInTime, ClosedInTurn,
                    ReadsWhatIsOpen
<1>5. CASE StopReceiverClose
  <2>1. /\ open' = [open EXCEPT ![at] = FALSE]
        /\ at' = at /\ closing = "flag" /\ closing' = "closed"
    BY <1>5 DEF StopReceiverClose, CloseSocket
  <2>2. \A r \in Receivers : r # at => (open'[r] <=> open[r])
    BY <1>1, <2>1
  <2>3. ~open'[at]
    BY <1>1, <1>2, <2>1
  <2>4. OpenInTime'
    BY <1>3, <2>1, <2>2, <2>3 DEF ReceptionInv, OpenInTime
  <2>5. ReadsWhatIsOpen'
    BY <1>3, <2>1, <2>2 DEF ReceptionInv, ReadsWhatIsOpen
  <2> QED
    BY <2>1, <2>3, <2>4, <2>5 DEF ReceptionInv, ClosedInTurn
<1>6. CASE StopReceiverDone
  <2>1. /\ UNCHANGED open
        /\ at' = at + 1 /\ closing = "closed" /\ closing' = "no"
        /\ \A g \in Loops : loop[at][g] # "read"
    BY <1>6 DEF StopReceiverDone, NoReader, socket
  <2>2. ~open[at]
    BY <2>1 DEF ReceptionInv, ClosedInTurn
  <2>3. \A r \in Receivers : at <= r /\ r # at => at' <= r
    BY <1>1, <2>1
  <2>4. \A r \in Receivers : open[r] => r # at
    BY <2>2
  <2>5. OpenInTime'
    BY <1>2, <1>3, <2>1, <2>3, <2>4 DEF ReceptionInv, OpenInTime
  <2>6. ReadsWhatIsOpen'
    BY <1>3, <2>1 DEF ReceptionInv, ReadsWhatIsOpen
  <2> QED
    BY <2>1, <2>5, <2>6 DEF ReceptionInv, ClosedInTurn
<1> QED
  BY <1>4, <1>5, <1>6

\* The calls begin and return.
LEMMA CallsKeepReception ==
  ASSUME IndInv, ReceptionInv,
         StartEnter \/ StopEnter \/ StartReturns \/ StopReturns
  PROVE  ReceptionInv'
<1>1. /\ at \in 1 .. N + 1 /\ last \in 0 .. N /\ N \in Nat /\ Receivers \subseteq Nat
      /\ \A r \in Receivers : 1 <= r /\ r <= N
  BY InvParts DEF Receivers
<1>2. UNCHANGED <<open, begun, loop>>
  BY DEF StartEnter, StopEnter, StartReturns, StopReturns, socket, reception
<1>3. closing = "no" /\ closing' = "no"
  <2>1. UNCHANGED closing
    BY DEF StartEnter, StopEnter, StartReturns, StopReturns, Enter, Leave
  <2>2. closing = "no"
    BY <1>1 DEF StartEnter, StopEnter, StartReturns, StopReturns, Unlocked, IndInv, InLoop
  <2> QED
    BY <2>1, <2>2
<1>4. ClosedInTurn' /\ ReadsWhatIsOpen'
  BY <1>2, <1>3 DEF ReceptionInv, ClosedInTurn, ReadsWhatIsOpen
<1>5. OpenInTime'
  <2> SUFFICES ASSUME NEW r \in Receivers, open[r], begun[r] = 1
               PROVE  /\ call' = "none" => smRunning'
                      /\ call' = "start" => r < at'
                      /\ call' \in {"undo", "stop"} => at' <= r
                      /\ call' = "undo" => r <= last'
    BY <1>2 DEF OpenInTime
  <2>1. /\ call = "none" => smRunning
        /\ call \in {"undo", "stop"} => at <= r
        /\ call = "undo" => r <= last
    BY DEF ReceptionInv, OpenInTime
  <2>2. CASE StartEnter
    BY <2>1, <2>2 DEF StartEnter, Unlocked, Enter
  <2>3. CASE StopEnter
    <3>1. call = "none" /\ at = 1
      BY <2>3 DEF StopEnter, Unlocked, IndInv, InLoop
    <3> QED
      BY <1>1, <2>1, <2>3, <3>1 DEF StopEnter, Enter
  <2>4. CASE StartReturns
    BY <2>4 DEF StartReturns, Leave
  <2>5. CASE StopReturns
    <3>1. call \in {"undo", "stop"} /\ at = last + 1
      BY <2>5 DEF StopReturns
    <3>2. call = "stop" => last = N
      BY DEF IndInv, InLoop
    <3>3. FALSE
      BY <1>1, <2>1, <3>1, <3>2
    <3> QED
      BY <3>3
  <2> QED
    BY <2>2, <2>3, <2>4, <2>5
<1> QED
  BY <1>4, <1>5 DEF ReceptionInv

LEMMA NextKeepsReception ==
  IndInv /\ ReceptionInv /\ [Next]_vars => ReceptionInv'
<1> SUFFICES ASSUME IndInv, ReceptionInv, [Next]_vars PROVE ReceptionInv'
  OBVIOUS
<1>1. CASE StartSystem \/ StopManager
  BY <1>1, CallsKeepReception DEF StartSystem, StopManager
<1>2. CASE InManager
  BY <1>2, StartKeepsReception, StopKeepsReception, CallsKeepReception
     DEF InManager, ManagerProceeds
<1>3. ASSUME UNCHANGED <<socket, loop, manager>> \/ UNCHANGED <<receivers, smRunning, call,
                                                                at, last, closing>>
      PROVE  ReceptionInv'
  BY <1>3, BesideKeepsReception DEF socket, manager, receivers, reception
<1>4. CASE StartFailed \/ StartHandler \/ StopSystem \/ StopReturned
  BY <1>3, <1>4 DEF StartFailed, StartHandler, StopSystem, StopReturned, Returned, manager
<1>5. CASE RunMetricsMonitor
  BY <1>3, <1>5 DEF RunMetricsMonitor, MonitorTest, MonitorLock, MonitorReport, MonitorGoes,
     ReadLock, ReadUnlock, manager
<1>6. ASSUME NEW g \in Loops, processLoop(g) PROVE ReceptionInv'
  BY <1>3, <1>6 DEF processLoop, WorkerTest, WorkerNext, receivers, reception
<1>7. ASSUME NEW r \in Receivers, NEW g \in Loops, receiveLoop(r, g), UNCHANGED manager
      PROVE  ReceptionInv'
  <2>1. UNCHANGED socket
    BY <1>7 DEF receiveLoop, LoopProceeds, ReadEnds, TestRunning, CallRead, AfterError,
       Refuse, Enqueue, LetGo, Read, ReadFails
  <2>2. PICK to \in Places : loop' = [loop EXCEPT ![r][g] = to] /\ (to = "read" => open[r])
    BY <1>7 DEF receiveLoop, LoopProceeds, ReadEnds, TestRunning, CallRead, AfterError,
       Refuse, Enqueue, LetGo, Read, ReadFails, GoTo, Places
  <2>3. \A s \in Receivers, h \in Loops :
          loop'[s][h] = "read" => loop[s][h] = "read" \/ open[s]
    BY <2>2, InvParts
  <2> QED
    BY <1>7, <2>1, <2>3, BesideKeepsReception DEF socket, manager
<1>8. CASE UNCHANGED vars
  BY <1>3, <1>8 DEF vars, receivers, manager
<1> QED
  BY <1>1, <1>2, <1>4, <1>5, <1>6, <1>7, <1>8 DEF Next, OwnerProceeds

\* Stop terminates reception, and so does a Start that failed, for any number of
\* receivers and of calls: no read is left in progress, and none can begin.
THEOREM ReceptionEnds == Spec => NoReceptionAfterStop
<1>1. Init => ReceptionInv
  BY DEF Init, ReceiversInit, ManagerInit, ReceptionInv, OpenInTime, ClosedInTurn,
         ReadsWhatIsOpen
<1>2. IndInv /\ ReceptionInv /\ [Next]_vars
        => [call = "none" /\ ~smRunning => UNCHANGED received]_vars
  <2> SUFFICES ASSUME IndInv, ReceptionInv, Next, call = "none", ~smRunning
               PROVE  UNCHANGED received
    BY DEF vars
  <2>1. ASSUME NEW r \in Receivers, NEW g \in Loops, loop[r][g] = "read" PROVE FALSE
    <3>1. open[r]
      BY <2>1 DEF ReceptionInv, ReadsWhatIsOpen, IndInv, InLoop
    <3>2. begun[r] = 1
      <4>1. g <= begun[r] /\ begun[r] <= 1
        BY <2>1, <3>1 DEF IndInv, Numbered, OpenOnce
      <4> QED
        BY <4>1, InvParts DEF Loops
    <3> QED
      BY <3>1, <3>2 DEF ReceptionInv, OpenInTime
  <2>2. ASSUME NEW r \in Receivers, NEW g \in Loops, receiveLoop(r, g)
        PROVE  UNCHANGED received
    BY <2>1, <2>2 DEF receiveLoop, LoopProceeds, ReadEnds, TestRunning, CallRead,
       AfterError, Refuse, Enqueue, LetGo, Read, GoTo, ReadFails, counters
  <2>3. CASE ~(\E r \in Receivers, g \in Loops : receiveLoop(r, g))
    <3>1. UNCHANGED counters
      BY <2>3 DEF Next, OwnerProceeds, StartSystem, StartFailed, StartHandler, StopSystem,
         StopManager, StopReturned, StartEnter, StopEnter, InManager, ManagerProceeds,
         StartReceiver, StartReceiverFails, StartReturns, StopReceiverFlag,
         StopReceiverClose, StopReceiverDone, StopReturns, Start, StartFails, StopFlag,
         CloseSocket, processLoop, WorkerTest, WorkerNext, RunMetricsMonitor, MonitorTest,
         MonitorLock, MonitorReport, MonitorGoes, receivers, reception
    <3> QED
      BY <3>1 DEF counters
  <2> QED
    BY <2>2, <2>3
<1> QED
  BY <1>1, <1>2, NextKeepsReception, Invariance, PTL DEF Spec, NoReceptionAfterStop
================================================================================
