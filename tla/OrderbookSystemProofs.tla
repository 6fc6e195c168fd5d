-------------------------- MODULE OrderbookSystemProofs --------------------------
(***************************************************************************)
(* Proofs about OrderbookSystem, for any number of streams, starts and     *)
(* packets.                                                                *)
(*                                                                         *)
(* The argument for OneProducer: only a goroutine with an open socket can  *)
(* come to hold a packet, and a receiver whose socket is open has begun at *)
(* most one.  Start would begin another only if the flag is 0, and once a  *)
(* goroutine has begun nobody sets the flag to 0 without closing the       *)
(* socket before any Start can follow: both happen within one call, in the *)
(* manager's lock.                                                         *)
(***************************************************************************)
EXTENDS OrderbookSystem, TLAPS

\* Goroutines are numbered as they begin.
Numbered ==
  \A r \in Receivers, g \in Loops : loop[r][g] # "none" => g <= begun[r]

\* Only the first goroutine of a receiver ever reads from an open socket.
OnlyFirstReads ==
  \A r \in Receivers, g \in Loops : loop[r][g] \in {"read", "parse"} => g = 1

\* A socket is open for one goroutine at most, and that one runs, unless Stop has
\* just stored the flag.
OpenOnce == \A r \in Receivers : open[r] => begun[r] <= 1
OpenRuns ==
  \A r \in Receivers :
    open[r] /\ begun[r] = 1 => running[r] = 1 \/ (closing = "flag" /\ at = r)

\* The manager's loop over the receivers.
InLoop ==
  /\ closing # "no" => call \in {"undo", "stop"} /\ at <= last
  /\ call \in {"none", "start", "stop"} => last = N
  /\ call = "none" => at = 1

\* Every call of Start begins at most one processLoop.
CountedStarts ==
  IF owner = "starting" THEN systems < starts ELSE systems <= starts

IndInv ==
  /\ TypeOK
  /\ Numbered /\ OnlyFirstReads /\ OpenOnce /\ OpenRuns
  /\ InLoop /\ CountedStarts

\* What the steps of a goroutine of a receiver leave alone.
Beside == <<manager, system, goroutines>>
--------------------------------------------------------------------------------
(* The initial states. *)

LEMMA InitInv == Init => IndInv
<1> SUFFICES ASSUME Init PROVE IndInv
  OBVIOUS
<1>1. N \in Nat \ {0} /\ MaxStarts \in Nat /\ MaxPackets \in Nat /\ MaxErrors \in Nat
  BY CountAssumption
<1>2. ReceiversTypeOK
  BY <1>1 DEF Init, ReceiversInit, ReceiversTypeOK, Receivers, Loops, Packets, Places
<1>3. TypeOK
  <2>1. smRunning \in BOOLEAN /\ reading \in BOOLEAN /\ sysRunning \in BOOLEAN
    BY DEF Init, ManagerInit
  <2>2. at \in 1 .. N + 1 /\ last \in 0 .. N /\ starts \in 0 .. MaxStarts
        /\ systems \in 0 .. MaxStarts /\ handlerRunning \in {0, 1}
    BY <1>1 DEF Init, ManagerInit
  <2>3. worker \in [Loops -> {"none", "test", "next", "ended"}]
    BY DEF Init
  <2> QED
    BY <1>2, <2>1, <2>2, <2>3 DEF Init, ManagerInit, TypeOK, ManagerTypeOK
<1>4. Numbered /\ OnlyFirstReads /\ OpenOnce /\ OpenRuns
  BY <1>1 DEF Init, ReceiversInit, Numbered, OnlyFirstReads, OpenOnce, OpenRuns,
              Receivers, Loops
<1>5. InLoop /\ CountedStarts
  BY DEF Init, ManagerInit, InLoop, CountedStarts
<1> QED
  BY <1>3, <1>4, <1>5 DEF IndInv
--------------------------------------------------------------------------------
(* The goroutines of the receivers. *)

\* What a step of goroutine g of receiver r does to the reception.
LEMMA LoopStepTypes ==
  ASSUME IndInv, NEW r \in Receivers, NEW g \in Loops, receiveLoop(r, g)
  PROVE  ReceiversTypeOK'
<1>1. N \in Nat \ {0} /\ MaxStarts \in Nat /\ MaxPackets \in Nat /\ MaxErrors \in Nat
  BY CountAssumption
<1> USE DEF ReceiversTypeOK, GoTo, socket, counters, Places
<1>2. ReceiversTypeOK
  BY DEF IndInv, TypeOK
<1>3. CASE TestRunning(r, g)
  BY <1>2, <1>3 DEF TestRunning
<1>4. CASE CallRead(r, g)
  BY <1>2, <1>4 DEF CallRead
<1>5. CASE AfterError(r, g)
  <2>1. /\ UNCHANGED <<running, open, begun, packet, queue, arrived, received, processed>>
        /\ \E to \in Places : loop' = [loop EXCEPT ![r][g] = to]
    BY <1>5 DEF AfterError
  <2>2. loop' \in [Receivers -> [Loops -> Places]]
    BY <1>2, <2>1
  <2>3. \/ UNCHANGED <<dropped, failedReads>>
        \/ /\ failedReads[r] < MaxErrors
           /\ failedReads' = [failedReads EXCEPT ![r] = @ + 1]
           /\ dropped' = [dropped EXCEPT ![r] = @ + 1]
    BY <1>5 DEF AfterError
  <2>4. failedReads' \in [Receivers -> 0 .. MaxErrors] /\ dropped' \in [Receivers -> Nat]
    <3>1. CASE UNCHANGED <<dropped, failedReads>>
      BY <1>2, <3>1
    <3>2. CASE /\ failedReads[r] < MaxErrors
               /\ failedReads' = [failedReads EXCEPT ![r] = @ + 1]
               /\ dropped' = [dropped EXCEPT ![r] = @ + 1]
      <4>1. failedReads[r] + 1 \in 0 .. MaxErrors /\ dropped[r] + 1 \in Nat
        BY <1>1, <1>2, <3>2
      <4> QED
        BY <1>2, <3>2, <4>1
    <3> QED
      BY <2>3, <3>1, <3>2
  <2> QED
    BY <1>2, <2>1, <2>2, <2>4
<1>6. CASE Refuse(r, g)
  <2>1. /\ UNCHANGED <<running, open, begun, queue, arrived, received, processed, failedReads>>
        /\ loop' = [loop EXCEPT ![r][g] = "test"]
        /\ packet' = [packet EXCEPT ![r][g] = Malformed]
        /\ dropped' = [dropped EXCEPT ![r] = @ + 1]
    BY <1>6 DEF Refuse, LetGo, Drop
  <2>2. loop' \in [Receivers -> [Loops -> Places]] /\ dropped' \in [Receivers -> Nat]
    BY <1>2, <2>1
  <2>3. packet' \in [Receivers -> [Loops -> Packets]]
    BY <1>2, <2>1 DEF Packets
  <2> QED
    BY <1>2, <2>1, <2>2, <2>3
<1>7. CASE Enqueue(r, g)
  <2>1. /\ loop' \in [Receivers -> [Loops -> Places]]
        /\ packet' \in [Receivers -> [Loops -> Packets]]
    BY <1>2, <1>7 DEF Enqueue, LetGo, Packets
  <2>2. UNCHANGED <<running, open, begun, arrived, received, failedReads>>
    BY <1>7 DEF Enqueue, LetGo
  <2>3. CASE Len(queue[r]) = Capacity
    <3>1. /\ dropped' = [dropped EXCEPT ![r] = @ + 1]
          /\ UNCHANGED <<queue, processed>>
      BY <1>7, <2>3 DEF Enqueue, Drop
    <3>2. dropped' \in [Receivers -> Nat]
      BY <1>2, <3>1
    <3> QED
      BY <1>2, <2>1, <2>2, <3>1, <3>2
  <2>4. CASE Len(queue[r]) # Capacity
    <3>1. /\ queue' = [queue EXCEPT ![r] = Append(queue[r], packet[r][g])]
          /\ processed' = [processed EXCEPT ![r] = @ + 1]
          /\ UNCHANGED dropped
          /\ packet[r][g] \in AcceptedTypes /\ queue[r] \in Seq(AcceptedTypes)
      BY <1>2, <1>7, <2>4 DEF Enqueue
    <3>2. Append(queue[r], packet[r][g]) \in Seq(AcceptedTypes)
      BY <3>1
    <3>3. queue' \in [Receivers -> Seq(AcceptedTypes)]
      BY <1>2, <3>1, <3>2
    <3>4. processed' \in [Receivers -> Nat]
      BY <1>2, <3>1
    <3> QED
      BY <1>2, <2>1, <2>2, <3>1, <3>3, <3>4
  <2> QED
    BY <2>3, <2>4
<1>8. ASSUME NEW p \in Packets, Read(r, g, p) PROVE ReceiversTypeOK'
  BY <1>1, <1>2, <1>8 DEF Read, Arrives
<1>9. CASE ReadFails(r, g)
  BY <1>1, <1>2, <1>9 DEF ReadFails, Arrives
<1> QED
  BY <1>3, <1>4, <1>5, <1>6, <1>7, <1>8, <1>9 DEF receiveLoop, LoopProceeds, ReadEnds

LEMMA LoopStepKeepsInv ==
  ASSUME IndInv, NEW r \in Receivers, NEW g \in Loops, receiveLoop(r, g),
         UNCHANGED Beside
  PROVE  IndInv'
<1>1. ReceiversTypeOK'
  BY LoopStepTypes
<1>2. UNCHANGED <<running, open, begun>>
  BY DEF receiveLoop, LoopProceeds, ReadEnds, TestRunning, CallRead, AfterError, Refuse,
         Enqueue, LetGo, Read, ReadFails, socket
<1>3. \E from \in Places \ {"none"}, to \in Places \ {"none"} :
        /\ GoTo(r, g, from, to)
        /\ to = "read" => open[r]
        /\ to = "parse" => from = "read"
  <2> DEFINE Goes(from, to) ==
        GoTo(r, g, from, to) /\ (to = "read" => open[r]) /\ (to = "parse" => from = "read")
  <2>1. CASE TestRunning(r, g)
    <3>1. Goes("test", "call") \/ Goes("test", "ended")
      BY <2>1 DEF TestRunning
    <3> QED
      BY <3>1 DEF Places
  <2>2. CASE CallRead(r, g)
    <3>1. Goes("call", "read") \/ Goes("call", "error")
      BY <2>2 DEF CallRead
    <3> QED
      BY <3>1 DEF Places
  <2>3. CASE AfterError(r, g)
    <3>1. Goes("error", "ended") \/ Goes("error", "test")
      BY <2>3 DEF AfterError
    <3> QED
      BY <3>1 DEF Places
  <2>4. CASE Refuse(r, g) \/ Enqueue(r, g)
    <3>1. Goes("parse", "test")
      BY <2>4 DEF Refuse, Enqueue, LetGo
    <3> QED
      BY <3>1 DEF Places
  <2>5. CASE \E p \in Packets : Read(r, g, p)
    <3>1. Goes("read", "parse")
      BY <2>5 DEF Read
    <3> QED
      BY <3>1 DEF Places
  <2>6. CASE ReadFails(r, g)
    <3>1. Goes("read", "error")
      BY <2>6 DEF ReadFails
    <3> QED
      BY <3>1 DEF Places
  <2> QED
    BY <2>1, <2>2, <2>3, <2>4, <2>5, <2>6 DEF receiveLoop, LoopProceeds, ReadEnds
<1>4. PICK from \in Places \ {"none"}, to \in Places \ {"none"} :
        /\ GoTo(r, g, from, to)
        /\ to = "read" => open[r]
        /\ to = "parse" => from = "read"
  BY <1>3
<1>5. /\ loop \in [Receivers -> [Loops -> Places]]
      /\ begun \in [Receivers -> 0 .. MaxStarts] /\ MaxStarts \in Nat
  BY CountAssumption DEF IndInv, TypeOK, ReceiversTypeOK
<1>6. ASSUME NEW s \in Receivers, NEW h \in Loops
      PROVE  loop'[s][h] = IF s = r /\ h = g THEN to ELSE loop[s][h]
  BY <1>4, <1>5 DEF GoTo
<1>7. loop[r][g] = from /\ from # "none" /\ to # "none"
  BY <1>4 DEF GoTo
<1>8. g \in Nat \ {0} /\ begun[r] \in Nat /\ g <= begun[r]
  BY <1>5, <1>7 DEF IndInv, Numbered, Loops
<1>9. Numbered'
  BY <1>2, <1>6, <1>8 DEF IndInv, Numbered
<1>10. to \in {"read", "parse"} => g = 1
  <2>1. CASE to = "read"
    BY <1>4, <1>8, <2>1 DEF IndInv, OpenOnce
  <2>2. CASE to = "parse"
    BY <1>4, <1>7, <2>2 DEF IndInv, OnlyFirstReads
  <2> QED
    BY <2>1, <2>2
<1>11. OnlyFirstReads'
  BY <1>6, <1>10 DEF IndInv, OnlyFirstReads
<1>12. (OpenOnce /\ OpenRuns /\ InLoop /\ CountedStarts)'
  BY <1>2 DEF IndInv, OpenOnce, OpenRuns, InLoop, CountedStarts, Beside, manager, system,
              goroutines
<1>13. TypeOK'
  <2>1. ManagerTypeOK'
    BY DEF IndInv, TypeOK, ManagerTypeOK, Beside, manager
  <2> QED
    BY <1>1, <2>1 DEF IndInv, TypeOK, Beside, system, goroutines
<1> QED
  BY <1>9, <1>11, <1>12, <1>13 DEF IndInv
--------------------------------------------------------------------------------
(* The manager's calls. *)

\* What the invariant says about the receivers, of the variables that the
\* manager's steps change.
LEMMA InvParts ==
  ASSUME IndInv
  PROVE  /\ N \in Nat \ {0} /\ MaxStarts \in Nat
         /\ at \in 1 .. N + 1 /\ last \in 0 .. N
         /\ running \in [Receivers -> {0, 1}]
         /\ open \in [Receivers -> BOOLEAN]
         /\ begun \in [Receivers -> 0 .. MaxStarts]
         /\ loop \in [Receivers -> [Loops -> Places]]
BY CountAssumption DEF IndInv, TypeOK, ReceiversTypeOK, ManagerTypeOK

\* A goroutine begins, for a receiver that has none or whose socket is closed.
LEMMA StartReceiverKeepsInv ==
  ASSUME IndInv, StartReceiver, UNCHANGED <<system, goroutines>>
  PROVE  IndInv'
<1>1. /\ N \in Nat \ {0} /\ MaxStarts \in Nat
      /\ at \in 1 .. N /\ at \in Receivers
      /\ running \in [Receivers -> {0, 1}]
      /\ begun \in [Receivers -> 0 .. MaxStarts]
      /\ loop \in [Receivers -> [Loops -> Places]]
  BY InvParts DEF StartReceiver, Receivers
<1>2. /\ running[at] = 0 /\ begun[at] < MaxStarts
      /\ running' = [running EXCEPT ![at] = 1]
      /\ begun' = [begun EXCEPT ![at] = @ + 1]
      /\ loop' = [loop EXCEPT ![at][begun[at] + 1] = "test"]
      /\ UNCHANGED <<open, packet, queue, arrived, counters>>
  BY DEF StartReceiver, Start
<1>3. /\ call = "start" /\ at' = at + 1
      /\ UNCHANGED <<smRunning, call, last, closing, result, reading>>
      /\ closing = "no"
  BY DEF StartReceiver, IndInv, InLoop
<1> DEFINE new == begun[at] + 1
<1>4. new \in Loops /\ begun[at] \in Nat
  BY <1>1, <1>2 DEF Loops
<1>5. TypeOK'
  <2>1. running' \in [Receivers -> {0, 1}]
    BY <1>1, <1>2
  <2>2. begun' \in [Receivers -> 0 .. MaxStarts]
    BY <1>1, <1>2
  <2>3. loop' \in [Receivers -> [Loops -> Places]]
    BY <1>1, <1>2, <1>4 DEF Places
  <2>4. ReceiversTypeOK'
    BY <1>2, <2>1, <2>2, <2>3 DEF IndInv, TypeOK, ReceiversTypeOK, counters
  <2>5. at' \in 1 .. N + 1
    BY <1>1, <1>3
  <2>6. ManagerTypeOK'
    BY <1>3, <2>5 DEF IndInv, TypeOK, ManagerTypeOK
  <2> QED
    BY <2>4, <2>6 DEF IndInv, TypeOK, system, goroutines
<1>6. ASSUME NEW s \in Receivers, NEW h \in Loops
      PROVE  /\ loop'[s][h] = IF s = at /\ h = new THEN "test" ELSE loop[s][h]
             /\ begun'[s] = IF s = at THEN new ELSE begun[s]
             /\ begun[s] \in Nat
             /\ h \in Nat
  BY <1>1, <1>2, <1>4 DEF Loops
<1>7. Numbered'
  <2> SUFFICES ASSUME NEW s \in Receivers, NEW h \in Loops, loop'[s][h] # "none"
               PROVE  h <= begun'[s]
    BY DEF Numbered
  <2>1. CASE s = at /\ h = new
    BY <1>4, <1>6, <2>1
  <2>2. CASE ~(s = at /\ h = new)
    <3>1. h <= begun[s]
      BY <1>6, <2>2 DEF IndInv, Numbered
    <3> QED
      BY <1>4, <1>6, <3>1
  <2> QED
    BY <2>1, <2>2
<1>8. OnlyFirstReads'
  BY <1>6 DEF IndInv, OnlyFirstReads
<1>9. open[at] => begun[at] = 0
  BY <1>1, <1>2, <1>3, <1>4 DEF IndInv, OpenOnce, OpenRuns
<1>10. ASSUME NEW s \in Receivers, open'[s]
       PROVE  begun'[s] <= 1 /\ (begun'[s] = 1 => running'[s] = 1)
  <2>1. open[s]
    BY <1>2, <1>10
  <2>2. CASE s = at
    BY <1>1, <1>2, <1>9, <2>1, <2>2
  <2>3. CASE s # at
    <3>1. begun'[s] = begun[s] /\ running'[s] = running[s]
      BY <1>1, <1>2, <2>3
    <3> QED
      BY <1>3, <2>1, <3>1 DEF IndInv, OpenOnce, OpenRuns
  <2> QED
    BY <2>2, <2>3
<1>11. OpenOnce' /\ OpenRuns'
  BY <1>10 DEF OpenOnce, OpenRuns
<1>12. InLoop' /\ CountedStarts'
  BY <1>3 DEF IndInv, InLoop, CountedStarts, system, goroutines
<1> QED
  BY <1>5, <1>7, <1>8, <1>11, <1>12 DEF IndInv

\* The goroutines stay where they are.
LEMMA LoopsStay ==
  ASSUME IndInv, UNCHANGED <<loop, begun>>
  PROVE  Numbered' /\ OnlyFirstReads'
BY DEF IndInv, Numbered, OnlyFirstReads

\* A flag is set, and no goroutine begins.
LEMMA StartReceiverFailsKeepsInv ==
  ASSUME IndInv, StartReceiverFails, UNCHANGED <<system, goroutines>>
  PROVE  IndInv'
<1>1. /\ N \in Nat \ {0} /\ at \in 1 .. N
      /\ running \in [Receivers -> {0, 1}]
  BY InvParts DEF StartReceiverFails
<1>2. /\ running' = [running EXCEPT ![at] = 1]
      /\ UNCHANGED <<open, begun, reception>>
      /\ call = "start" /\ call' = "undo" /\ at' = 1 /\ last' = at - 1
      /\ UNCHANGED <<smRunning, closing, result, reading>>
      /\ closing = "no"
  BY DEF StartReceiverFails, StartFails, IndInv, InLoop
<1>3. ReceiversTypeOK'
  BY <1>1, <1>2 DEF IndInv, TypeOK, ReceiversTypeOK, reception, counters
<1>4. at' \in 1 .. N + 1 /\ last' \in 0 .. N
  BY <1>1, <1>2
<1>5. TypeOK'
  BY <1>2, <1>3, <1>4 DEF IndInv, TypeOK, ManagerTypeOK, system, goroutines
<1>6. OpenOnce' /\ OpenRuns'
  BY <1>1, <1>2 DEF IndInv, OpenOnce, OpenRuns
<1>7. InLoop' /\ CountedStarts'
  BY <1>2 DEF IndInv, InLoop, CountedStarts, system, goroutines
<1>8. Numbered' /\ OnlyFirstReads'
  BY <1>2, LoopsStay DEF reception
<1> QED
  BY <1>5, <1>6, <1>7, <1>8 DEF IndInv

\* Stop of one receiver: the flag goes to 0 and the socket is closed before the
\* call goes on.
LEMMA StopReceiverKeepsInv ==
  ASSUME IndInv, StopReceiverFlag \/ StopReceiverClose \/ StopReceiverDone,
         UNCHANGED <<system, goroutines>>
  PROVE  IndInv'
<1>1. /\ N \in Nat \ {0} /\ at \in 1 .. N + 1 /\ last \in 0 .. N
      /\ running \in [Receivers -> {0, 1}]
      /\ open \in [Receivers -> BOOLEAN]
  BY InvParts
<1>2. call \in {"undo", "stop"} /\ at <= last /\ at \in Receivers
  <2>1. call \in {"undo", "stop"} /\ at <= last
    BY DEF StopReceiverFlag, StopReceiverClose, StopReceiverDone, IndInv, InLoop
  <2> QED
    BY <1>1, <2>1 DEF Receivers
<1>3. UNCHANGED <<begun, loop, packet, queue, arrived, counters, smRunning, call, last,
                  result, reading>>
  BY DEF StopReceiverFlag, StopReceiverClose, StopReceiverDone, StopFlag, CloseSocket,
         reception, socket
<1>4. running' \in [Receivers -> {0, 1}]
  BY <1>1 DEF StopReceiverFlag, StopReceiverClose, StopReceiverDone, StopFlag,
              CloseSocket, socket
<1>5. open' \in [Receivers -> BOOLEAN]
  <2>1. UNCHANGED open \/ open' = [open EXCEPT ![at] = FALSE]
    BY DEF StopReceiverFlag, StopReceiverClose, StopReceiverDone, StopFlag,
           CloseSocket, socket
  <2> QED
    BY <1>1, <2>1
<1>6. at' \in 1 .. N + 1 /\ closing' \in {"no", "flag", "closed"}
  BY <1>1, <1>2 DEF StopReceiverFlag, StopReceiverClose, StopReceiverDone
<1>7. ReceiversTypeOK'
  BY <1>3, <1>4, <1>5 DEF IndInv, TypeOK, ReceiversTypeOK, counters
<1>8. ManagerTypeOK'
  BY <1>3, <1>6 DEF IndInv, TypeOK, ManagerTypeOK
<1>9. TypeOK'
  BY <1>7, <1>8 DEF IndInv, TypeOK, system, goroutines
<1>10. Numbered' /\ OnlyFirstReads'
  BY <1>3, LoopsStay
<1>11. OpenOnce' /\ OpenRuns'
  <2>1. CASE StopReceiverFlag
    BY <1>1, <1>2, <2>1 DEF StopReceiverFlag, StopFlag, IndInv, OpenOnce, OpenRuns
  <2>2. CASE StopReceiverClose
    <3>1. /\ open' = [open EXCEPT ![at] = FALSE]
          /\ UNCHANGED <<running, begun, at>>
      BY <2>2 DEF StopReceiverClose, CloseSocket
    <3>2. ~open'[at] /\ \A r \in Receivers \ {at} : open'[r] = open[r]
      BY <1>1, <1>2, <3>1
    <3> QED
      BY <1>2, <3>1, <3>2 DEF IndInv, OpenOnce, OpenRuns
  <2>3. CASE StopReceiverDone
    <3>1. UNCHANGED <<open, running, begun>> /\ closing = "closed"
      BY <2>3 DEF StopReceiverDone, socket
    <3> QED
      BY <3>1 DEF IndInv, OpenOnce, OpenRuns
  <2> QED
    BY <2>1, <2>2, <2>3
<1>12. closing' # "no" => at' = at
  BY DEF StopReceiverFlag, StopReceiverClose, StopReceiverDone
<1>13. InLoop'
  BY <1>2, <1>3, <1>12 DEF IndInv, InLoop
<1>14. CountedStarts'
  BY DEF IndInv, CountedStarts, system, goroutines
<1> QED
  BY <1>9, <1>10, <1>11, <1>13, <1>14 DEF IndInv

\* The calls begin and return: the receivers are left alone.
LEMMA CallsKeep ==
  ASSUME IndInv, UNCHANGED <<socket, reception>>,
         StartEnter \/ StartReturns \/ StopEnter \/ StopReturns
           \/ UNCHANGED manager \/ Returned \/ ReadLock \/ ReadUnlock
  PROVE  /\ ReceiversTypeOK' /\ ManagerTypeOK'
         /\ (Numbered /\ OnlyFirstReads /\ OpenOnce /\ OpenRuns /\ InLoop)'
<1>1. N \in Nat \ {0} /\ at \in 1 .. N + 1 /\ last \in 0 .. N
  BY InvParts
<1>2. /\ ReceiversTypeOK /\ ManagerTypeOK
      /\ Numbered /\ OnlyFirstReads /\ OpenOnce /\ OpenRuns /\ InLoop
  BY DEF IndInv, TypeOK
<1>3. ReceiversTypeOK'
  BY <1>2 DEF ReceiversTypeOK, socket, reception, counters
<1>4. Numbered' /\ OnlyFirstReads' /\ OpenOnce'
  BY <1>2 DEF Numbered, OnlyFirstReads, OpenOnce, socket, reception
<1> USE DEF StartEnter, StartReturns, StopEnter, StopReturns, Returned, ReadLock,
            ReadUnlock, Enter, Leave, Unlocked, manager
<1>5. UNCHANGED closing
  OBVIOUS
<1>6. closing = "no" \/ UNCHANGED at
  BY <1>1, <1>2 DEF InLoop
<1>7. OpenRuns'
  BY <1>2, <1>5, <1>6 DEF OpenRuns, socket
<1>8. InLoop'
  BY <1>1, <1>2 DEF InLoop
<1>9. ManagerTypeOK'
  <2>1. at' \in 1 .. N + 1 /\ last' \in 0 .. N
    BY <1>1
  <2>2. /\ call' \in {"none", "start", "undo", "stop"}
        /\ closing' \in {"no", "flag", "closed"}
        /\ result' \in {"none", "ok", "error"}
    BY <1>2 DEF ManagerTypeOK
  <2>3. smRunning' \in BOOLEAN /\ reading' \in BOOLEAN
    BY <1>2 DEF ManagerTypeOK
  <2> QED
    BY <2>1, <2>2, <2>3 DEF ManagerTypeOK
<1> QED
  BY <1>3, <1>4, <1>7, <1>8, <1>9

LEMMA ManagerStepKeepsInv ==
  ASSUME IndInv, InManager
  PROVE  IndInv'
<1>1. UNCHANGED <<system, goroutines>>
  BY DEF InManager
<1>2. CASE StartReceiver
  BY <1>1, <1>2, StartReceiverKeepsInv
<1>3. CASE StartReceiverFails
  BY <1>1, <1>3, StartReceiverFailsKeepsInv
<1>4. CASE StopReceiverFlag \/ StopReceiverClose \/ StopReceiverDone
  BY <1>1, <1>4, StopReceiverKeepsInv
<1>5. CASE StartReturns \/ StopReturns
  <2>1. UNCHANGED <<socket, reception>>
    BY <1>5 DEF StartReturns, StopReturns
  <2>2. /\ ReceiversTypeOK' /\ ManagerTypeOK'
        /\ (Numbered /\ OnlyFirstReads /\ OpenOnce /\ OpenRuns /\ InLoop)'
    BY <1>5, <2>1, CallsKeep
  <2>3. TypeOK' /\ CountedStarts'
    BY <1>1, <2>2 DEF IndInv, TypeOK, CountedStarts, system, goroutines
  <2> QED
    BY <2>2, <2>3 DEF IndInv
<1> QED
  BY <1>2, <1>3, <1>4, <1>5 DEF InManager, ManagerProceeds
--------------------------------------------------------------------------------
(* The owner, the processing goroutines and the monitor. *)

\* The types of the variables that are neither a receiver's nor the manager's.
SystemTypes ==
  /\ sysRunning \in BOOLEAN /\ handlerRunning \in {0, 1}
  /\ owner \in {"idle", "starting", "stop manager", "stopping"}
  /\ starts \in 0 .. MaxStarts /\ systems \in 0 .. MaxStarts
  /\ worker \in [Loops -> {"none", "test", "next", "ended"}]
  /\ monitor \in {"none", "test", "tick", "collect", "ended"}

\* The owner's steps outside the manager's calls.
OwnerSteps ==
  \/ StartSystem \/ StartFailed \/ StartHandler \/ StopSystem \/ StopManager
  \/ StopReturned

LEMMA OwnerStepTypes ==
  ASSUME IndInv, OwnerSteps
  PROVE  SystemTypes' /\ CountedStarts'
<1>1. MaxStarts \in Nat /\ SystemTypes /\ CountedStarts
  BY CountAssumption DEF IndInv, TypeOK, SystemTypes
<1>2. starts \in 0 .. MaxStarts /\ systems \in 0 .. MaxStarts
  BY <1>1 DEF SystemTypes
<1> USE DEF OwnerGoes, goroutines
<1>3. CASE StartSystem
  <2>1. starts' \in 0 .. MaxStarts /\ CountedStarts'
    BY <1>1, <1>2, <1>3 DEF StartSystem, CountedStarts
  <2> QED
    BY <1>1, <1>3, <2>1 DEF StartSystem, SystemTypes
<1>4. CASE StartHandler
  <2>1. systems < starts /\ starts' = starts /\ systems' = systems + 1 /\ owner' = "idle"
    BY <1>1, <1>4 DEF StartHandler, CountedStarts
  <2>2. systems' \in 0 .. MaxStarts /\ systems + 1 \in Loops /\ CountedStarts'
    BY <1>1, <1>2, <2>1 DEF Loops, CountedStarts
  <2>3. worker' \in [Loops -> {"none", "test", "next", "ended"}]
    BY <1>1, <1>4, <2>2 DEF StartHandler, SystemTypes
  <2>4. sysRunning' = TRUE /\ handlerRunning' = 1
        /\ monitor' \in {"none", "test", "tick", "collect", "ended"}
    BY <1>1, <1>4 DEF StartHandler, SystemTypes
  <2> QED
    BY <1>2, <2>1, <2>2, <2>3, <2>4 DEF SystemTypes
<1>5. CASE StartFailed \/ StopSystem \/ StopManager \/ StopReturned
  <2>1. /\ starts' = starts /\ systems' = systems
        /\ worker' = worker /\ monitor' = monitor
        /\ owner' \in {"idle", "stop manager", "stopping"}
        /\ handlerRunning' \in {handlerRunning, 0}
    BY <1>5 DEF StartFailed, StopSystem, StopManager, StopReturned
  <2>2. CountedStarts'
    <3>1. systems <= starts
      BY <1>1, <1>2 DEF CountedStarts
    <3>2. owner' # "starting"
      BY <2>1
    <3> QED
      BY <2>1, <3>1, <3>2 DEF CountedStarts
  <2>3. sysRunning' \in BOOLEAN
    <3>1. sysRunning \in BOOLEAN
      BY <1>1 DEF SystemTypes
    <3>2. CASE StartFailed \/ StopManager \/ StopReturned
      BY <3>1, <3>2, Zenon DEF StartFailed, StopManager, StopReturned
    <3>3. CASE StopSystem
      BY <3>3, Zenon DEF StopSystem
    <3> QED
      BY <1>5, <3>2, <3>3
  <2>4. /\ worker' \in [Loops -> {"none", "test", "next", "ended"}]
        /\ monitor' \in {"none", "test", "tick", "collect", "ended"}
        /\ owner' \in {"idle", "starting", "stop manager", "stopping"}
    BY <1>1, <2>1 DEF SystemTypes
  <2>5. /\ handlerRunning' \in {0, 1} /\ starts' \in 0 .. MaxStarts
        /\ systems' \in 0 .. MaxStarts
    BY <1>1, <2>1 DEF SystemTypes
  <2> QED
    BY <2>2, <2>3, <2>4, <2>5, Zenon DEF SystemTypes
<1> QED
  BY <1>3, <1>4, <1>5 DEF OwnerSteps

LEMMA OwnerStepKeepsInv ==
  ASSUME IndInv, OwnerSteps
  PROVE  IndInv'
<1>1. SystemTypes' /\ CountedStarts'
  BY OwnerStepTypes
<1>2. /\ UNCHANGED <<socket, reception>>
      /\ StartEnter \/ StopEnter \/ UNCHANGED manager \/ Returned
  BY DEF OwnerSteps, StartSystem, StartFailed, StartHandler, StopSystem, StopManager,
         StopReturned, StartEnter, StopEnter, receivers
<1>3. /\ ReceiversTypeOK' /\ ManagerTypeOK'
      /\ (Numbered /\ OnlyFirstReads /\ OpenOnce /\ OpenRuns /\ InLoop)'
  BY <1>2, CallsKeep
<1> QED
  BY <1>1, <1>3 DEF IndInv, TypeOK, SystemTypes

LEMMA WorkerStepKeepsInv ==
  ASSUME IndInv, NEW g \in Loops, processLoop(g)
  PROVE  IndInv'
<1>1. /\ UNCHANGED <<socket, loop, packet, arrived, counters, manager, system, systems,
                     monitor>>
      /\ \/ UNCHANGED queue
         \/ \E r \in Receivers : queue[r] # << >> /\ queue' = [queue EXCEPT ![r] = Tail(@)]
  BY DEF processLoop, WorkerTest, WorkerNext, receivers, reception
<1>2. worker' \in [Loops -> {"none", "test", "next", "ended"}]
  BY DEF processLoop, WorkerTest, WorkerNext, IndInv, TypeOK
<1>3. queue \in [Receivers -> Seq(AcceptedTypes)]
  BY DEF IndInv, TypeOK, ReceiversTypeOK
<1>4. queue' \in [Receivers -> Seq(AcceptedTypes)]
  <2>1. CASE UNCHANGED queue
    BY <1>3, <2>1
  <2>2. ASSUME NEW r \in Receivers, queue[r] # << >>,
               queue' = [queue EXCEPT ![r] = Tail(queue[r])]
        PROVE  queue' \in [Receivers -> Seq(AcceptedTypes)]
    <3>1. queue[r] \in Seq(AcceptedTypes)
      BY <1>3
    <3>2. Tail(queue[r]) \in Seq(AcceptedTypes)
      BY <2>2, <3>1
    <3> QED
      BY <1>3, <2>2, <3>2
  <2> QED
    BY <1>1, <2>1, <2>2
<1>5. ReceiversTypeOK'
  BY <1>1, <1>4 DEF IndInv, TypeOK, ReceiversTypeOK, socket, counters
<1>6. ManagerTypeOK'
  BY <1>1 DEF IndInv, TypeOK, ManagerTypeOK, manager
<1>7. TypeOK'
  BY <1>1, <1>2, <1>5, <1>6 DEF IndInv, TypeOK, system
<1>8. (Numbered /\ OnlyFirstReads /\ OpenOnce /\ OpenRuns /\ InLoop /\ CountedStarts)'
  BY <1>1 DEF IndInv, Numbered, OnlyFirstReads, OpenOnce, OpenRuns, InLoop, CountedStarts,
              socket, manager, system
<1> QED
  BY <1>7, <1>8 DEF IndInv

LEMMA MonitorStepKeepsInv ==
  ASSUME IndInv, RunMetricsMonitor
  PROVE  IndInv'
<1>1. /\ UNCHANGED <<socket, reception, system, systems, worker>>
      /\ monitor' \in {"none", "test", "tick", "collect", "ended"}
  BY DEF RunMetricsMonitor, MonitorTest, MonitorLock, MonitorReport, MonitorGoes, receivers
<1>2. ReadLock \/ ReadUnlock \/ UNCHANGED manager
  BY DEF RunMetricsMonitor, MonitorTest, MonitorLock, MonitorReport
<1>3. /\ ReceiversTypeOK' /\ ManagerTypeOK'
      /\ (Numbered /\ OnlyFirstReads /\ OpenOnce /\ OpenRuns /\ InLoop)'
  BY <1>1, <1>2, CallsKeep
<1> QED
  BY <1>1, <1>3 DEF IndInv, TypeOK, CountedStarts, system
--------------------------------------------------------------------------------
LEMMA NextKeepsInv ==
  IndInv /\ [Next]_vars => IndInv'
<1> SUFFICES ASSUME IndInv, [Next]_vars PROVE IndInv'
  OBVIOUS
<1>1. CASE OwnerSteps
  BY <1>1, OwnerStepKeepsInv
<1>2. CASE InManager
  BY <1>2, ManagerStepKeepsInv
<1>3. ASSUME NEW r \in Receivers, NEW g \in Loops, receiveLoop(r, g),
             UNCHANGED <<manager, system, goroutines>>
      PROVE  IndInv'
  BY <1>3, LoopStepKeepsInv DEF Beside
<1>4. ASSUME NEW g \in Loops, processLoop(g) PROVE IndInv'
  BY <1>4, WorkerStepKeepsInv
<1>5. CASE RunMetricsMonitor
  BY <1>5, MonitorStepKeepsInv
<1>6. CASE UNCHANGED vars
  <2>1. UNCHANGED <<socket, reception, manager, system, goroutines>>
    BY <1>6 DEF vars, receivers
  <2>2. /\ ReceiversTypeOK' /\ ManagerTypeOK'
        /\ (Numbered /\ OnlyFirstReads /\ OpenOnce /\ OpenRuns /\ InLoop)'
    BY <2>1, CallsKeep
  <2> QED
    BY <2>1, <2>2 DEF IndInv, TypeOK, CountedStarts, system, goroutines
<1> QED
  BY <1>1, <1>2, <1>3, <1>4, <1>5, <1>6 DEF Next, OwnerProceeds, OwnerSteps

LEMMA Invariance == Spec => []IndInv
BY InitInv, NextKeepsInv, PTL DEF Spec

\* The variables keep their types: the manager's loops stay within the receivers,
\* and every call of Start finds a number for the goroutine that it begins.
THEOREM TypeCorrect == Spec => []TypeOK
<1>1. IndInv => TypeOK
  BY DEF IndInv
<1> QED
  BY <1>1, Invariance, PTL

\* A queue of receiver.go has one producer, for any number of streams and of
\* calls of Start and Stop: the SPSC queue's premise holds on this side.
THEOREM SingleProducer == Spec => []OneProducer
<1>1. IndInv => OneProducer
  BY DEF IndInv, OnlyFirstReads, OneProducer
<1> QED
  BY <1>1, Invariance, PTL
================================================================================
