---------------------------- MODULE SequenceMerger -----------------------------
(***************************************************************************)
(* orderbook.SequenceMerger and the part of MessageHandler.processLoop     *)
(* that drives it.  The receiver cores put the messages of the multicast   *)
(* streams into one queue each, at any time; the handler's goroutine peeks *)
(* at the queues one after the other, takes the smallest sequence number,  *)
(* and delivers it, skips a gap or drops an old message.                   *)
(*                                                                         *)
(* A queue is the FIFO that SPSCRingBuffer implements: Peek and Dequeue    *)
(* are single steps.  gapBuffer is not modelled: nothing ever appends to   *)
(* it, so processBufferedMessages returns at its first test.               *)
(***************************************************************************)
EXTENDS Integers, Sequences, FiniteSets

CONSTANTS Streams,      \* stream ids
          NumQueues,    \* len(queues)
          Route,        \* <<queue, stream>>: the streams a queue may carry
          Capacity,     \* core.QueueSize
          MaxSeq,       \* bound: sequence numbers are at most MaxSeq
          MaxPackets,   \* bound: packets of one stream
          Beats,        \* what heartbeats report as the last sequence number
          InOrder,      \* TRUE: the network loses packets but keeps their order
          MaxSpinWaitGap,
          Word,         \* 2^32 in the code: sequence numbers are uint32
          NoMsg         \* nil

Queues == 1 .. NumQueues
Seqs == 1 .. MaxSeq
\* beat is what a heartbeat's payload reports, and 0 for every other message.
\* Only a heartbeat has the number 0: the exchange's heartbeats do.
Messages ==
  {m \in [stream : Streams, seq : 0 .. MaxSeq, beat : Beats \union {0}] :
     m.beat = 0 => m.seq # 0}

ASSUME StreamsAssumption == Streams \subseteq Nat
\* The spin indexes the first four queues, and panics if there are fewer
\* (sequencer.go:122).
ASSUME QueuesAssumption ==
  /\ NumQueues \in Nat /\ NumQueues >= 4
  /\ Route \subseteq Queues \X Streams
ASSUME BoundsAssumption ==
  /\ Capacity \in Nat /\ MaxPackets \in Nat /\ MaxSpinWaitGap \in Nat
  /\ InOrder \in BOOLEAN /\ (InOrder => MaxPackets <= MaxSeq)
  /\ Beats \subseteq Seqs
\* A stream carries less than 2^32 - 1 messages in a session: no number wraps.
ASSUME WordAssumption ==
  /\ MaxSeq \in Nat /\ Word \in Nat
  /\ MaxSeq + 1 < Word
ASSUME NoMsgAssumption == NoMsg \notin Messages

VARIABLES queues,        \* the ring buffers, as sequences of messages
          lastApplied,   \* lastAppliedSeq; 0 for a stream not in the map
          expected,      \* expectedSeq; 0 for a stream not in the map
          gapsDetected,  \* metrics.GapsDetected and metrics.RecoveriesTriggered
          pc, scanned, oldest, oldestQueue,  \* GetNextMessage's locals
          sent, lost,            \* of the network: packets so far, lost numbers
          delivered, skipped     \* history: handed to the handler, declared gaps

merger == <<lastApplied, expected, gapsDetected>>
locals == <<pc, scanned, oldest, oldestQueue>>
network == <<sent, lost>>
history == <<delivered, skipped>>
vars == <<queues, merger, locals, network, history>>

TypeOK ==
  /\ queues \in [Queues -> Seq(Messages)]
  /\ lastApplied \in [Streams -> 0 .. MaxSeq]
  /\ expected \in [Streams -> 0 .. MaxSeq + 1]
  /\ gapsDetected \in Nat
  /\ pc \in {"peek", "decide", "spin", "process"}
  /\ scanned \in 0 .. NumQueues
  /\ oldest \in Messages \union {NoMsg}
  /\ oldestQueue \in Queues
  /\ sent \in [Streams -> Nat]
  /\ lost \in [Streams -> SUBSET (0 .. MaxSeq)]
  /\ delivered \in [Streams -> SUBSET Seqs]
  /\ skipped \in [Streams -> SUBSET Seqs]

Init ==
  /\ queues = [q \in Queues |-> << >>]
  /\ lastApplied = [s \in Streams |-> 0]
  /\ expected = [s \in Streams |-> 0]
  /\ gapsDetected = 0
  /\ pc = "peek" /\ scanned = 0 /\ oldest = NoMsg /\ oldestQueue = 1
  /\ sent = [s \in Streams |-> 0]
  /\ lost = [s \in Streams |-> {}]
  /\ delivered = [s \in Streams |-> {}]
  /\ skipped = [s \in Streams |-> {}]
--------------------------------------------------------------------------------
(* The network and the receiver cores. *)

\* The next packet of stream m.stream is m: any number of the stream when the
\* network reorders and duplicates, the next one when it does not.
NextPacket(m) ==
  /\ sent[m.stream] < MaxPackets
  /\ InOrder => m.seq = sent[m.stream] + 1
  /\ sent' = [sent EXCEPT ![m.stream] = @ + 1]

\* A receiver enqueues it.
Arrive(q, m) ==
  /\ <<q, m.stream>> \in Route
  /\ NextPacket(m)
  /\ Len(queues[q]) < Capacity
  /\ queues' = [queues EXCEPT ![q] = Append(@, m)]
  /\ UNCHANGED <<merger, locals, lost, history>>

\* The receiver finds its queue full and drops it.
DropAtFullQueue(q, m) ==
  /\ <<q, m.stream>> \in Route
  /\ NextPacket(m)
  /\ Len(queues[q]) = Capacity
  /\ lost' = [lost EXCEPT ![m.stream] = @ \union {m.seq}]
  /\ UNCHANGED <<queues, merger, locals, history>>

\* The network loses it.
Lose(m) ==
  /\ InOrder
  /\ NextPacket(m)
  /\ lost' = [lost EXCEPT ![m.stream] = @ \union {m.seq}]
  /\ UNCHANGED <<queues, merger, locals, history>>

Network == \E m \in Messages : \/ \E q \in Queues : Arrive(q, m) \/ DropAtFullQueue(q, m)
                               \/ Lose(m)
--------------------------------------------------------------------------------
(* GetNextMessage: the scan of the queues, lines 44-56. *)

\* m replaces the oldest message seen so far.
Older(m, old) ==
  \/ old = NoMsg
  \/ m.seq < old.seq
  \/ m.seq = old.seq /\ m.stream < old.stream

\* Mutant: the queue of the oldest message is not remembered with it.
PeekQueueForgetful ==
  /\ pc = "peek"
  /\ scanned < NumQueues
  /\ LET q == scanned + 1 IN
     /\ scanned' = q
     /\ oldestQueue' = q
     /\ oldest' = IF queues[q] # << >> /\ Older(Head(queues[q]), oldest)
                  THEN Head(queues[q]) ELSE oldest
  /\ UNCHANGED <<pc, queues, merger, network, history>>

PeekQueue ==
  /\ pc = "peek"
  /\ scanned < NumQueues
  /\ LET q == scanned + 1 IN
     /\ scanned' = q
     /\ IF queues[q] # << >> /\ Older(Head(queues[q]), oldest)
        THEN oldest' = Head(queues[q]) /\ oldestQueue' = q
        ELSE UNCHANGED <<oldest, oldestQueue>>
  /\ UNCHANGED <<pc, queues, merger, network, history>>

\* The locals of a new call of GetNextMessage.
StartScan == pc' = "peek" /\ scanned' = 0 /\ oldest' = NoMsg /\ oldestQueue' = 1

\* Every queue was empty: nil, and processLoop calls again.
NothingQueued ==
  /\ pc = "peek"
  /\ scanned = NumQueues
  /\ oldest = NoMsg
  /\ StartScan
  /\ UNCHANGED <<queues, merger, network, history>>

\* A stream seen for the first time starts at 1 (lines 62-69).
FoundOldest ==
  /\ pc = "peek"
  /\ scanned = NumQueues
  /\ oldest # NoMsg
  /\ expected' = [expected EXCEPT ![oldest.stream] = IF @ = 0 THEN 1 ELSE @]
  /\ pc' = "decide"
  /\ UNCHANGED <<queues, lastApplied, gapsDetected, scanned, oldest, oldestQueue,
                 network, history>>
--------------------------------------------------------------------------------
(* GetNextMessage: what happens to the oldest message, lines 71-102. *)

stream == oldest.stream

DequeueOldest == queues' = [queues EXCEPT ![oldestQueue] = Tail(@)]

\* Mutant: expectedSeq is not advanced.
handleGapInPlace(s, startSeq, endSeq) ==
  /\ gapsDetected' = gapsDetected + 1
  /\ skipped' = [skipped EXCEPT ![s] = @ \union startSeq .. endSeq]
  /\ UNCHANGED expected

\* handleGap(streamID, startSeq, endSeq): the numbers are given up.
handleGap(s, startSeq, endSeq) ==
  /\ gapsDetected' = gapsDetected + 1
  /\ expected' = [expected EXCEPT ![s] = (endSeq + 1) % Word]
  /\ skipped' = [skipped EXCEPT ![s] = @ \union startSeq .. endSeq]

\* Mutant: the next number is one too far.
DeliverAndSkipOne ==
  /\ pc = "decide"
  /\ oldest.seq = expected[stream]
  /\ DequeueOldest
  /\ lastApplied' = [lastApplied EXCEPT ![stream] = oldest.seq]
  /\ expected' = [expected EXCEPT ![stream] = (oldest.seq + 2) % Word]
  /\ delivered' = [delivered EXCEPT ![stream] = @ \union {oldest.seq}]
  /\ pc' = "process"
  /\ UNCHANGED <<gapsDetected, scanned, oldest, oldestQueue, network, skipped>>

\* Mutant: a message is delivered across the gap before it.
DeliverAcrossGap ==
  /\ pc = "decide"
  /\ oldest.seq >= expected[stream]
  /\ DequeueOldest
  /\ lastApplied' = [lastApplied EXCEPT ![stream] = oldest.seq]
  /\ expected' = [expected EXCEPT ![stream] = (oldest.seq + 1) % Word]
  /\ delivered' = [delivered EXCEPT ![stream] = @ \union {oldest.seq}]
  /\ pc' = "process"
  /\ UNCHANGED <<gapsDetected, scanned, oldest, oldestQueue, network, skipped>>

\* In sequence: delivered (lines 71-80).
DeliverInSequence ==
  /\ pc = "decide"
  /\ oldest.seq = expected[stream]
  /\ DequeueOldest
  /\ lastApplied' = [lastApplied EXCEPT ![stream] = oldest.seq]
  /\ expected' = [expected EXCEPT ![stream] = (oldest.seq + 1) % Word]
  /\ delivered' = [delivered EXCEPT ![stream] = @ \union {oldest.seq}]
  /\ pc' = "process"
  /\ UNCHANGED <<gapsDetected, scanned, oldest, oldestQueue, network, skipped>>

gapSize == oldest.seq - expected[stream]

\* A small gap: spin for the missing messages (lines 86-92).  The spin looks
\* at the queues' depths and finds nothing, whatever they hold.
SpinForGap ==
  /\ pc = "decide"
  /\ gapSize > 0
  /\ gapSize <= MaxSpinWaitGap
  /\ pc' = "spin"
  /\ UNCHANGED <<queues, merger, scanned, oldest, oldestQueue, network, history>>

\* Mutant: the message after the gap is given up with it.
GiveUpGapAndMessage ==
  /\ \/ pc = "spin"
     \/ pc = "decide" /\ gapSize > MaxSpinWaitGap
  /\ handleGap(stream, expected[stream], oldest.seq)
  /\ DequeueOldest
  /\ StartScan
  /\ UNCHANGED <<lastApplied, network, delivered>>

\* The spin times out, or the gap was too large for one (lines 94-96).
GiveUpGap ==
  /\ \/ pc = "spin"
     \/ pc = "decide" /\ gapSize > MaxSpinWaitGap
  /\ handleGap(stream, expected[stream], oldest.seq - 1)
  /\ StartScan
  /\ UNCHANGED <<queues, lastApplied, network, delivered>>

\* Mutant: an old message is delivered.
ApplyOld ==
  /\ pc = "decide"
  /\ oldest.seq < expected[stream]
  /\ DequeueOldest
  /\ lastApplied' = [lastApplied EXCEPT ![stream] = oldest.seq]
  /\ delivered' = [delivered EXCEPT ![stream] = @ \union {oldest.seq}]
  /\ StartScan
  /\ UNCHANGED <<expected, gapsDetected, network, skipped>>

\* Mutant: an old message stays in its queue.
IgnoreOld ==
  /\ pc = "decide"
  /\ oldest.seq < expected[stream]
  /\ StartScan
  /\ UNCHANGED <<queues, merger, network, history>>

\* Old or duplicate: dropped, and the scan starts again (lines 98-101).
DropOld ==
  /\ pc = "decide"
  /\ oldest.seq < expected[stream]
  /\ DequeueOldest
  /\ StartScan
  /\ UNCHANGED <<merger, network, history>>

\* Mutant: the gap is computed without comparing first, and wraps.
ProcessMessageUnguarded ==
  /\ pc = "process"
  /\ LET current == lastApplied[stream] IN
     IF oldest.beat # 0 /\ (oldest.beat - current) % Word > 1
     THEN handleGap(stream, current + 1, oldest.beat - 1)
     ELSE UNCHANGED <<gapsDetected, expected, skipped>>
  /\ StartScan
  /\ UNCHANGED <<queues, lastApplied, network, delivered>>

\* ProcessMessage, as far as the merger sees it: a heartbeat calls
\* UpdateLastSeq(StreamID, lastSeq) (message_handler.go:258-264).
ProcessMessage ==
  /\ pc = "process"
  /\ LET current == lastApplied[stream] IN
     IF oldest.beat > current /\ oldest.beat - current > 1
     THEN handleGap(stream, current + 1, oldest.beat - 1)
     ELSE UNCHANGED <<gapsDetected, expected, skipped>>
  /\ StartScan
  /\ UNCHANGED <<queues, lastApplied, network, delivered>>

GetNextMessage == \/ PeekQueue \/ NothingQueued \/ FoundOldest
                  \/ DeliverInSequence \/ SpinForGap \/ GiveUpGap \/ DropOld

processLoop == GetNextMessage \/ ProcessMessage

Next == Network \/ processLoop

Spec == Init /\ [][Next]_vars

\* The handler's goroutine never stops looping; the network owes nothing.
FairSpec == Spec /\ WF_vars(processLoop)
--------------------------------------------------------------------------------
(* Properties. *)

\* The number the merger would accept next; a new stream starts at 1.
NextSeq(s) == IF expected[s] = 0 THEN 1 ELSE expected[s]

\* What was scanned is still at the front of its queue when it is acted on,
\* although receivers kept enqueuing since (sequencer.go:73, 100 dequeue
\* from oldestQueue without looking again).
OldestIsFront ==
  pc \in {"decide", "spin"} =>
    queues[oldestQueue] # << >> /\ Head(queues[oldestQueue]) = oldest

\* No number is lost in silence or handled twice over: below the next number,
\* each was delivered or declared a gap, and none was both.
NoSilentLoss ==
  \A s \in Streams :
    /\ delivered[s] \union skipped[s] = 1 .. NextSeq(s) - 1
    /\ delivered[s] \intersect skipped[s] = {}

\* The merger's promise, once per stream and in order.
Delivery == INSTANCE OrderedDelivery WITH next <- [s \in Streams |-> NextSeq(s)]
ImplementsDelivery == Delivery!Spec

\* lastAppliedSeq only grows: no message is applied after a later one.
InSequence ==
  [][\A s \in Streams : lastApplied'[s] # lastApplied[s] => lastApplied'[s] > lastApplied[s]]_vars

\* Over a network that keeps a stream's order, with each stream in one queue,
\* only numbers that were really lost, on the wire or at a full queue, are
\* given up.
OnlyLostIsSkipped == \A s \in Streams : skipped[s] \subseteq lost[s]

\* GapsDetected counts the runs of consecutive missing numbers.
GapsDetectedCountsRuns ==
  LET ends == {e \in Streams \X Seqs :
                 e[2] \in skipped[e[1]] /\ e[2] + 1 \notin skipped[e[1]]}
  IN gapsDetected = Cardinality(ends)

\* Over the same network, what reaches a queue is delivered in the end: it is
\* neither stuck behind a missing message nor starved by another stream.
ArrivedIsDelivered ==
  \A s \in Streams : \A n \in Seqs :
    n <= sent[s] /\ n \notin lost[s] ~> n \in delivered[s]

\* Whatever the network does, the queues are emptied once it stops.
QueuesDrain == []<>(\A q \in Queues : queues[q] = << >>)
================================================================================
