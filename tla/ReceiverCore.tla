------------------------------ MODULE ReceiverCore ------------------------------
(***************************************************************************)
(* network.ReceiverCore: one UDP socket per stream, a flag that Start and  *)
(* Stop set, and a goroutine that reads packets into the stream's queue    *)
(* until it sees the flag at 0.                                            *)
(*                                                                         *)
(* Every successful Start begins one more goroutine and Stop waits for     *)
(* none: several goroutines of one receiver may be alive, numbered in the  *)
(* order they began.  A socket that is closed is never opened again.       *)
(*                                                                         *)
(* The socket is a blocking one: NewReceiverCore takes its descriptor with *)
(* File and Fd, and Fd puts the description, which the copy shares with    *)
(* the socket, in blocking mode.  A read then waits in the system call for *)
(* a packet, whatever happens to the socket meanwhile, and Close waits for *)
(* the read.                                                               *)
(*                                                                         *)
(* Packets are told apart by their message type alone; one that is too     *)
(* short, or shorter than its header says, is Malformed.  The counters of  *)
(* core.Metrics change with the step that decides about the packet.        *)
(***************************************************************************)
EXTENDS Naturals, Sequences, FiniteSets

CONSTANTS N,           \* number of streams
          MaxStarts,   \* bound on the calls of Start
          Types,       \* message types that occur on the feed
          Malformed,   \* a packet without a valid header
          Capacity,    \* slots of a queue
          MaxPackets,  \* bound on packets and failures while the socket is open
          MaxErrors    \* bound on the failed reads that are counted

ASSUME CountAssumption ==
  /\ N \in Nat \ {0} /\ MaxStarts \in Nat /\ Capacity \in Nat
  /\ MaxPackets \in Nat /\ MaxErrors \in Nat
ASSUME MalformedAssumption == Malformed \notin Types

Receivers == 1 .. N
Loops == 1 .. MaxStarts
Packets == Types \union {Malformed}

VARIABLES running,      \* ReceiverCore.running, 0 or 1
          open,         \* whether the socket is open
          begun,        \* goroutines begun so far
          loop,         \* where each goroutine is in receiveLoop
          packet,       \* what it has read and not yet decided about
          queue,        \* the stream's queue, as the types of its messages
          arrived,      \* packets and failures of the network so far
          received, processed, dropped,  \* the counters of core.Metrics
          failedReads   \* reads that failed and were counted as drops (history)

socket == <<running, open, begun>>
counters == <<received, processed, dropped, failedReads>>
reception == <<loop, packet, queue, arrived, counters>>
receivers == <<socket, reception>>

Places == {"none", "test", "call", "read", "error", "parse", "ended"}

ReceiversInit ==
  /\ running = [r \in Receivers |-> 0]
  /\ open = [r \in Receivers |-> TRUE]
  /\ begun = [r \in Receivers |-> 0]
  /\ loop = [r \in Receivers |-> [g \in Loops |-> "none"]]
  /\ packet = [r \in Receivers |-> [g \in Loops |-> Malformed]]
  /\ queue = [r \in Receivers |-> << >>]
  /\ arrived = 0
  /\ received = [r \in Receivers |-> 0]
  /\ processed = [r \in Receivers |-> 0]
  /\ dropped = [r \in Receivers |-> 0]
  /\ failedReads = [r \in Receivers |-> 0]
--------------------------------------------------------------------------------
(* receiveLoop, one action per step that another goroutine can see. *)

\* isValidMTBTMessageType.
AcceptedTypes == {"N", "M", "X", "T", "G", "S", "C", "H"}

GoTo(r, g, from, to) ==
  /\ loop[r][g] = from
  /\ loop' = [loop EXCEPT ![r][g] = to]

TestRunning(r, g) ==
  /\ GoTo(r, g, "test", IF running[r] = 1 THEN "call" ELSE "ended")
  /\ UNCHANGED <<socket, packet, queue, arrived, counters>>

\* A read of an open socket waits in the system call; one of a closed socket
\* fails at once, again and again while running is 1.
CallRead(r, g) ==
  /\ GoTo(r, g, "call", IF open[r] THEN "read" ELSE "error")
  /\ UNCHANGED <<socket, packet, queue, arrived, counters>>

\* Something arrives for a read that waits.
Arrives(r) ==
  /\ open[r] => arrived < MaxPackets
  /\ arrived' = IF open[r] THEN arrived + 1 ELSE arrived

Read(r, g, p) ==
  /\ Arrives(r)
  /\ GoTo(r, g, "read", "parse")
  /\ packet' = [packet EXCEPT ![r][g] = p]
  /\ received' = [received EXCEPT ![r] = @ + 1]
  /\ UNCHANGED <<socket, queue, processed, dropped, failedReads>>

ReadFails(r, g) ==
  /\ Arrives(r)
  /\ GoTo(r, g, "read", "error")
  /\ UNCHANGED <<socket, packet, queue, counters>>

\* Mutant: the error is taken for a shutdown.
EndOnError(r, g) ==
  /\ GoTo(r, g, "error", "ended")
  /\ UNCHANGED <<socket, packet, queue, arrived, counters>>

\* After an error the goroutine ends if a stop was requested, or counts a drop.
AfterError(r, g) ==
  /\ \/ running[r] = 0 /\ GoTo(r, g, "error", "ended") /\ UNCHANGED <<dropped, failedReads>>
     \/ /\ running[r] = 1 /\ failedReads[r] < MaxErrors
        /\ GoTo(r, g, "error", "test")
        /\ failedReads' = [failedReads EXCEPT ![r] = @ + 1]
        /\ dropped' = [dropped EXCEPT ![r] = @ + 1]
  /\ UNCHANGED <<socket, packet, queue, arrived, received, processed>>

\* The packet's way ends: in the queue, or as a drop.
LetGo(r, g) ==
  /\ GoTo(r, g, "parse", "test")
  /\ packet' = [packet EXCEPT ![r][g] = Malformed]
  /\ UNCHANGED <<socket, arrived, received, failedReads>>

Drop(r) ==
  /\ dropped' = [dropped EXCEPT ![r] = @ + 1]
  /\ UNCHANGED <<queue, processed>>

\* parsePacket returns nil for what is not a valid message.
Refuse(r, g) ==
  /\ packet[r][g] \notin AcceptedTypes
  /\ LetGo(r, g) /\ Drop(r)

\* Mutant: the message type is not looked at.
EnqueueUnchecked(r, g) ==
  /\ LetGo(r, g)
  /\ IF Len(queue[r]) = Capacity
     THEN Drop(r)
     ELSE /\ queue' = [queue EXCEPT ![r] = Append(@, packet[r][g])]
          /\ processed' = [processed EXCEPT ![r] = @ + 1]
          /\ UNCHANGED dropped

\* Mutant: a full queue drops the message without counting it.
EnqueueOrForget(r, g) ==
  /\ packet[r][g] \in AcceptedTypes
  /\ LetGo(r, g)
  /\ IF Len(queue[r]) = Capacity
     THEN UNCHANGED <<queue, processed, dropped>>
     ELSE /\ queue' = [queue EXCEPT ![r] = Append(@, packet[r][g])]
          /\ processed' = [processed EXCEPT ![r] = @ + 1]
          /\ UNCHANGED dropped

\* A message is put in the queue, or dropped if that is full.
Enqueue(r, g) ==
  /\ packet[r][g] \in AcceptedTypes
  /\ LetGo(r, g)
  /\ IF Len(queue[r]) = Capacity
     THEN Drop(r)
     ELSE /\ queue' = [queue EXCEPT ![r] = Append(@, packet[r][g])]
          /\ processed' = [processed EXCEPT ![r] = @ + 1]
          /\ UNCHANGED dropped

\* What the goroutine does without waiting for the network.
LoopProceeds(r, g) ==
  \/ TestRunning(r, g) \/ CallRead(r, g) \/ AfterError(r, g)
  \/ Refuse(r, g) \/ Enqueue(r, g)

\* The end of a read that waits.
ReadEnds(r, g) == (\E p \in Packets : Read(r, g, p)) \/ ReadFails(r, g)

receiveLoop(r, g) == LoopProceeds(r, g) \/ ReadEnds(r, g)
--------------------------------------------------------------------------------
(* Start and Stop, called by the stream manager. *)

\* The receiver is not running, its thread is pinned, and the goroutine begins.
Start(r) ==
  /\ running[r] = 0 /\ begun[r] < MaxStarts
  /\ running' = [running EXCEPT ![r] = 1]
  /\ begun' = [begun EXCEPT ![r] = @ + 1]
  /\ loop' = [loop EXCEPT ![r][begun[r] + 1] = "test"]
  /\ UNCHANGED <<open, packet, queue, arrived, counters>>

\* The receiver is running already, or pinToCPU fails: running stays at 1.
StartFails(r) ==
  /\ running' = [running EXCEPT ![r] = 1]
  /\ UNCHANGED <<open, begun, reception>>

\* Stop stores the flag ...
StopFlag(r) ==
  /\ running' = [running EXCEPT ![r] = 0]
  /\ UNCHANGED <<open, begun, reception>>

\* Mutant: the socket stays open.
LeaveSocket(r) == UNCHANGED <<socket, reception>>

\* ... closes the socket, if it was not closed before ...
CloseSocket(r) ==
  /\ open' = [open EXCEPT ![r] = FALSE]
  /\ UNCHANGED <<running, begun, reception>>

\* ... and waits for the reads in progress.
NoReader(r) == \A g \in Loops : loop[r][g] # "read"
--------------------------------------------------------------------------------
(* Properties. *)

ReceiversTypeOK ==
  /\ running \in [Receivers -> {0, 1}]
  /\ open \in [Receivers -> BOOLEAN]
  /\ begun \in [Receivers -> 0 .. MaxStarts]
  /\ loop \in [Receivers -> [Loops -> Places]]
  /\ packet \in [Receivers -> [Loops -> Packets]]
  /\ queue \in [Receivers -> Seq(AcceptedTypes)]
  /\ arrived \in 0 .. MaxPackets
  /\ received \in [Receivers -> Nat]
  /\ processed \in [Receivers -> Nat]
  /\ dropped \in [Receivers -> Nat]
  /\ failedReads \in [Receivers -> 0 .. MaxErrors]

\* The goroutines of r that hold a packet.
Holding(r) == {g \in Loops : loop[r][g] = "parse"}

\* core.Metrics conserves packets: every packet that was received, and every
\* read that failed, is processed, dropped, or still in some goroutine's hand.
PacketsAddUp ==
  \A r \in Receivers :
    received[r] + failedReads[r] = processed[r] + dropped[r] + Cardinality(Holding(r))

\* A queue has a single producer, whatever was started and stopped: of the
\* goroutines of one receiver at most one has a packet to enqueue.
OneProducer ==
  \A r \in Receivers : \A g, h \in Loops :
    loop[r][g] = "parse" /\ loop[r][h] = "parse" => g = h

\* A goroutine that has not ended.
Alive(r, g) == loop[r][g] \notin {"none", "ended"}
================================================================================
