-------------------------- MODULE SequenceMergerProofs -------------------------
(***************************************************************************)
(* The safety of SequenceMerger for any streams, queues, routes, capacity  *)
(* and network, as long as no sequence number wraps (WordAssumption).      *)
(***************************************************************************)
EXTENDS SequenceMerger, SequenceTheorems, FiniteSetTheorems, TLAPS

\* The message the scan holds on to is at the front of its queue, and the
\* stream it belongs to is known once it is acted on.
ScanInv ==
  /\ pc # "process" /\ oldest # NoMsg =>
       queues[oldestQueue] # << >> /\ Head(queues[oldestQueue]) = oldest
  /\ pc # "peek" => oldest # NoMsg /\ expected[stream] # 0
  /\ pc = "spin" => oldest.seq > expected[stream]
  /\ pc = "process" =>
       lastApplied[stream] = oldest.seq /\ expected[stream] = oldest.seq + 1

\* Below a stream's next number, everything was delivered or declared missing.
Accounted ==
  \A s \in Streams :
    /\ lastApplied[s] < NextSeq(s)
    /\ delivered[s] \union skipped[s] = 1 .. NextSeq(s) - 1
    /\ delivered[s] \intersect skipped[s] = {}

IndInv == TypeOK /\ ScanInv /\ Accounted
--------------------------------------------------------------------------------
\* Enqueuing at one queue leaves the front of every non-empty queue in place.
LEMMA AppendKeepsFront ==
  ASSUME NEW S, NEW sq \in Seq(S), NEW m \in S, sq # << >>
  PROVE  /\ Append(sq, m) # << >>
         /\ Head(Append(sq, m)) = Head(sq)
  BY AppendProperties, HeadTailAppend

\* No number the merger computes reaches the width of a uint32.
LEMMA NoWrap ==
  \A n \in 0 .. MaxSeq + 1 : n % Word = n
  BY WordAssumption

\* The fields of a message.
LEMMA MessageFields ==
  \A m \in Messages :
    m.stream \in Streams /\ m.seq \in 0 .. MaxSeq /\ m.beat \in 0 .. MaxSeq
<1>1. TAKE m \in Messages
<1>2. m.stream \in Streams /\ m.seq \in 0 .. MaxSeq /\ m.beat \in Beats \union {0}
  BY DEF Messages
<1>3. Beats \subseteq 1 .. MaxSeq /\ MaxSeq \in Nat
  BY BoundsAssumption, WordAssumption DEF Seqs
<1>4. \A b \in Beats \union {0} : b \in 0 .. MaxSeq
  BY <1>3
<1>5. m.beat \in 0 .. MaxSeq
  BY <1>2, <1>4
<1> QED
  BY <1>2, <1>5

LEMMA InvInit == Init => IndInv
<1> SUFFICES ASSUME Init PROVE IndInv
  OBVIOUS
<1>1. TypeOK
  BY QueuesAssumption, WordAssumption DEF Init, TypeOK, Queues
<1>2. ScanInv
  BY DEF Init, ScanInv
<1>3. Accounted
  BY DEF Init, Accounted, NextSeq
<1> QED
  BY <1>1, <1>2, <1>3 DEF IndInv

\* A packet that arrives, or is lost, keeps the invariant.
LEMMA NetworkKeepsInv == IndInv /\ Network => IndInv'
<1> SUFFICES ASSUME IndInv, NEW m \in Messages,
                    \/ \E q \in Queues : Arrive(q, m) \/ DropAtFullQueue(q, m)
                    \/ Lose(m)
             PROVE  IndInv'
  BY DEF Network
<1>m. m.stream \in Streams /\ m.seq \in 0 .. MaxSeq
  BY MessageFields
<1>sent. ASSUME NextPacket(m) PROVE sent' \in [Streams -> Nat]
  BY <1>sent, <1>m DEF NextPacket, IndInv, TypeOK
<1>1. ASSUME NEW q \in Queues, Arrive(q, m) PROVE IndInv'
  <2> USE <1>1 DEF Arrive, merger, locals, history, IndInv
  <2>1. TypeOK'
    <3>1. Append(queues[q], m) \in Seq(Messages)
      BY AppendProperties DEF TypeOK
    <3>2. queues' \in [Queues -> Seq(Messages)]
      <4>1. queues' = [queues EXCEPT ![q] = Append(queues[q], m)]
        OBVIOUS
      <4>2. queues \in [Queues -> Seq(Messages)]
        BY DEF TypeOK
      <4> HIDE DEF IndInv, Arrive
      <4> QED
        BY <3>1, <4>1, <4>2
    <3> QED
      BY <3>2, <1>sent DEF TypeOK
  <2>2. ScanInv'
    <3>1. ASSUME NEW p \in Queues, queues[p] # << >>
          PROVE  queues'[p] # << >> /\ Head(queues'[p]) = Head(queues[p])
      <4>1. queues[p] \in Seq(Messages) /\ queues' = [queues EXCEPT ![q] = Append(queues[q], m)]
        BY DEF TypeOK
      <4>2. queues'[p] = IF p = q THEN Append(queues[p], m) ELSE queues[p]
        BY <4>1 DEF TypeOK
      <4> HIDE DEF IndInv, Arrive
      <4> QED
        BY <3>1, <4>1, <4>2, AppendKeepsFront
    <3> QED
      BY <3>1 DEF ScanInv, TypeOK, stream
  <2>3. Accounted'
    BY DEF Accounted, NextSeq
  <2> QED
    BY <2>1, <2>2, <2>3
<1>2. ASSUME lost' = [lost EXCEPT ![m.stream] = @ \union {m.seq}], NextPacket(m),
             UNCHANGED <<queues, merger, locals, history>>
      PROVE  IndInv'
  <2> USE <1>2 DEF merger, locals, history, IndInv
  <2>1. lost' \in [Streams -> SUBSET (0 .. MaxSeq)]
    BY <1>m DEF TypeOK
  <2>2. TypeOK'
    BY <2>1, <1>sent DEF TypeOK
  <2>3. ScanInv' /\ Accounted'
    BY DEF ScanInv, Accounted, NextSeq, stream
  <2> QED
    BY <2>2, <2>3
<1> QED
  BY <1>1, <1>2 DEF DropAtFullQueue, Lose
--------------------------------------------------------------------------------
\* The message under decision: its fields and its stream's numbers.
LEMMA OldestFields ==
  ASSUME IndInv, pc # "peek"
  PROVE  /\ oldest \in Messages
         /\ stream \in Streams
         /\ oldest.seq \in 0 .. MaxSeq
         /\ oldest.beat \in 0 .. MaxSeq
         /\ expected[stream] \in 1 .. MaxSeq + 1
         /\ NextSeq(stream) = expected[stream]
<1>1. oldest \in Messages /\ stream \in Streams /\ oldest.seq \in 0 .. MaxSeq
      /\ oldest.beat \in 0 .. MaxSeq
  BY MessageFields DEF IndInv, TypeOK, ScanInv, stream, Seqs
<1>2. expected[stream] \in 0 .. MaxSeq + 1 /\ expected[stream] # 0
  BY <1>1 DEF IndInv, TypeOK, ScanInv
<1> QED
  BY <1>1, <1>2, WordAssumption DEF NextSeq

\* A gap from the stream's next number on, and not past the last number,
\* leaves everything accounted for.
LEMMA GapKeepsAccounted ==
  ASSUME IndInv, NEW s \in Streams, NEW endSeq \in 1 .. MaxSeq,
         expected[s] # 0, expected[s] <= endSeq,
         handleGap(s, expected[s], endSeq), UNCHANGED <<lastApplied, delivered>>
  PROVE  /\ Accounted'
         /\ expected' = [expected EXCEPT ![s] = endSeq + 1]
         /\ expected' \in [Streams -> 0 .. MaxSeq + 1]
         /\ skipped' \in [Streams -> SUBSET Seqs]
         /\ gapsDetected' \in Nat
<1> USE DEF handleGap
<1>1. expected[s] \in 1 .. MaxSeq + 1 /\ MaxSeq \in Nat
  BY WordAssumption DEF IndInv, TypeOK
<1>2. (endSeq + 1) % Word = endSeq + 1
  BY <1>1, NoWrap
<1>3. expected' = [expected EXCEPT ![s] = endSeq + 1]
  BY <1>2
<1>4. expected' \in [Streams -> 0 .. MaxSeq + 1]
  BY <1>1, <1>3 DEF IndInv, TypeOK
<1>5. skipped' \in [Streams -> SUBSET Seqs] /\ gapsDetected' \in Nat
  <2>1. expected[s] .. endSeq \subseteq Seqs
    BY <1>1 DEF Seqs
  <2> QED
    BY <2>1 DEF IndInv, TypeOK
<1>6. Accounted'
  <2> SUFFICES ASSUME NEW t \in Streams
               PROVE  /\ lastApplied'[t] < NextSeq(t)'
                      /\ delivered'[t] \union skipped'[t] = 1 .. NextSeq(t)' - 1
                      /\ delivered'[t] \intersect skipped'[t] = {}
    BY DEF Accounted
  <2>1. /\ lastApplied[t] < NextSeq(t) /\ lastApplied[t] \in Nat
        /\ delivered[t] \union skipped[t] = 1 .. NextSeq(t) - 1
        /\ delivered[t] \intersect skipped[t] = {}
    BY WordAssumption DEF IndInv, Accounted, TypeOK
  <2>2. CASE t # s
    <3>1. expected'[t] = expected[t] /\ skipped'[t] = skipped[t]
      BY <2>2, <1>3 DEF IndInv, TypeOK
    <3> QED
      BY <2>1, <3>1 DEF NextSeq
  <2>3. CASE t = s
    <3>1. /\ NextSeq(s) = expected[s] /\ NextSeq(s)' = endSeq + 1
          /\ skipped'[s] = skipped[s] \union expected[s] .. endSeq
      BY <1>1, <1>3 DEF IndInv, TypeOK, NextSeq
    <3>2. /\ 1 .. endSeq + 1 - 1 = (1 .. expected[s] - 1) \union expected[s] .. endSeq
          /\ (1 .. expected[s] - 1) \intersect (expected[s] .. endSeq) = {}
      BY <1>1
    <3>3. delivered[s] \subseteq 1 .. expected[s] - 1
      BY <2>1, <2>3, <3>1
    <3>4. delivered[s] \union skipped'[s] = 1 .. NextSeq(s)' - 1
      BY <2>1, <2>3, <3>1, <3>2
    <3>5. delivered[s] \intersect skipped'[s] = {}
      BY <2>1, <2>3, <3>1, <3>2, <3>3
    <3>6. lastApplied[s] < NextSeq(s)'
      BY <1>1, <2>1, <2>3, <3>1
    <3> QED
      BY <2>3, <3>4, <3>5, <3>6
  <2> QED
    BY <2>2, <2>3
<1> QED
  BY <1>3, <1>4, <1>5, <1>6
--------------------------------------------------------------------------------
\* A new scan holds on to nothing.
LEMMA StartScanKeepsInv ==
  ASSUME StartScan,
         queues' \in [Queues -> Seq(Messages)],
         lastApplied' \in [Streams -> 0 .. MaxSeq],
         expected' \in [Streams -> 0 .. MaxSeq + 1],
         gapsDetected' \in Nat,
         delivered' \in [Streams -> SUBSET Seqs],
         skipped' \in [Streams -> SUBSET Seqs],
         TypeOK, UNCHANGED network, Accounted'
  PROVE  IndInv'
<1>1. TypeOK'
  BY QueuesAssumption DEF TypeOK, StartScan, network, Queues
<1>2. ScanInv'
  BY DEF ScanInv, StartScan
<1> QED
  BY <1>1, <1>2 DEF IndInv

\* Dequeuing the oldest message leaves sequences of messages.
LEMMA DequeueType ==
  ASSUME IndInv, pc \in {"decide", "spin"}, DequeueOldest
  PROVE  queues' \in [Queues -> Seq(Messages)]
<1>1. /\ oldestQueue \in Queues
      /\ queues \in [Queues -> Seq(Messages)]
      /\ queues[oldestQueue] # << >>
      /\ queues[oldestQueue] \in Seq(Messages)
  BY DEF IndInv, TypeOK, ScanInv
<1>2. Tail(queues[oldestQueue]) \in Seq(Messages)
  BY <1>1, HeadTailProperties
<1>3. queues' = [queues EXCEPT ![oldestQueue] = Tail(queues[oldestQueue])]
  BY DEF DequeueOldest
<1> QED
  BY <1>1, <1>2, <1>3

LEMMA DeliverKeepsInv == IndInv /\ DeliverInSequence => IndInv'
<1> SUFFICES ASSUME IndInv, DeliverInSequence PROVE IndInv'
  OBVIOUS
<1> USE DEF DeliverInSequence
<1>1. /\ oldest \in Messages /\ stream \in Streams
      /\ oldest.seq \in 1 .. MaxSeq /\ oldest.seq = expected[stream]
      /\ NextSeq(stream) = expected[stream] /\ MaxSeq \in Nat
  BY OldestFields, WordAssumption
<1>2. (oldest.seq + 1) % Word = oldest.seq + 1
  BY <1>1, NoWrap
<1>3. /\ expected' = [expected EXCEPT ![stream] = oldest.seq + 1]
      /\ expected' \in [Streams -> 0 .. MaxSeq + 1]
  <2>1. expected' = [expected EXCEPT ![stream] = oldest.seq + 1]
    BY <1>2
  <2>2. oldest.seq + 1 \in 0 .. MaxSeq + 1
    BY <1>1
  <2>3. expected \in [Streams -> 0 .. MaxSeq + 1]
    BY DEF IndInv, TypeOK
  <2> QED
    BY <2>1, <2>2, <2>3
<1>4. delivered' \in [Streams -> SUBSET Seqs]
  BY <1>1 DEF IndInv, TypeOK, Seqs
<1>5. TypeOK'
  <2>1. queues' \in [Queues -> Seq(Messages)]
    BY DequeueType DEF IndInv
  <2>2. lastApplied' \in [Streams -> 0 .. MaxSeq]
    BY <1>1 DEF IndInv, TypeOK
  <2>3. /\ gapsDetected' \in Nat
        /\ pc' \in {"peek", "decide", "spin", "process"}
        /\ scanned' \in 0 .. NumQueues
        /\ oldest' \in Messages \union {NoMsg}
        /\ oldestQueue' \in Queues
        /\ sent' \in [Streams -> Nat]
        /\ lost' \in [Streams -> SUBSET (0 .. MaxSeq)]
        /\ skipped' \in [Streams -> SUBSET Seqs]
    BY DEF IndInv, TypeOK, network
  <2> QED
    BY <1>3, <1>4, <2>1, <2>2, <2>3 DEF TypeOK
<1>6. ScanInv'
  BY <1>1, <1>3 DEF IndInv, TypeOK, ScanInv, stream
<1>7. Accounted'
  <2> SUFFICES ASSUME NEW t \in Streams
               PROVE  /\ lastApplied'[t] < NextSeq(t)'
                      /\ delivered'[t] \union skipped'[t] = 1 .. NextSeq(t)' - 1
                      /\ delivered'[t] \intersect skipped'[t] = {}
    BY DEF Accounted
  <2>1. /\ lastApplied[t] < NextSeq(t)
        /\ delivered[t] \union skipped[t] = 1 .. NextSeq(t) - 1
        /\ delivered[t] \intersect skipped[t] = {}
    BY DEF IndInv, Accounted
  <2>2. CASE t # stream
    <3>1. /\ lastApplied'[t] = lastApplied[t] /\ expected'[t] = expected[t]
          /\ delivered'[t] = delivered[t] /\ skipped'[t] = skipped[t]
      BY <2>2, <1>3 DEF IndInv, TypeOK
    <3> QED
      BY <2>1, <3>1 DEF NextSeq
  <2>3. CASE t = stream
    <3>1. /\ NextSeq(t)' = oldest.seq + 1 /\ lastApplied'[t] = oldest.seq
          /\ delivered'[t] = delivered[t] \union {oldest.seq}
          /\ skipped'[t] = skipped[t]
      BY <2>3, <1>1, <1>3 DEF IndInv, TypeOK, NextSeq
    <3>2. delivered[t] \union skipped[t] = 1 .. oldest.seq - 1
      BY <2>1, <2>3, <1>1
    <3>3. /\ (1 .. oldest.seq - 1) \union {oldest.seq} = 1 .. oldest.seq + 1 - 1
          /\ oldest.seq \notin 1 .. oldest.seq - 1
          /\ oldest.seq < oldest.seq + 1
      BY <1>1
    <3> QED
      BY <2>1, <3>1, <3>2, <3>3
  <2> QED
    BY <2>2, <2>3
<1> QED
  BY <1>5, <1>6, <1>7 DEF IndInv

LEMMA GiveUpKeepsInv == IndInv /\ GiveUpGap => IndInv'
<1> SUFFICES ASSUME IndInv, GiveUpGap PROVE IndInv'
  OBVIOUS
<1> USE DEF GiveUpGap
<1>1. /\ stream \in Streams /\ oldest.seq \in 0 .. MaxSeq
      /\ expected[stream] \in 1 .. MaxSeq + 1 /\ MaxSeq \in Nat
  BY OldestFields, WordAssumption
<1>2. oldest.seq > expected[stream]
  BY <1>1, BoundsAssumption DEF IndInv, ScanInv, gapSize
<1>3. /\ oldest.seq - 1 \in 1 .. MaxSeq
      /\ expected[stream] <= oldest.seq - 1
      /\ expected[stream] # 0
  BY <1>1, <1>2
<1>4. /\ handleGap(stream, expected[stream], oldest.seq - 1)
      /\ UNCHANGED <<lastApplied, delivered>>
  OBVIOUS
<1>5. /\ Accounted'
      /\ expected' \in [Streams -> 0 .. MaxSeq + 1]
      /\ skipped' \in [Streams -> SUBSET Seqs]
      /\ gapsDetected' \in Nat
  BY <1>1, <1>3, <1>4, GapKeepsAccounted
<1> QED
  BY <1>5, StartScanKeepsInv DEF IndInv, TypeOK

LEMMA ProcessKeepsInv == IndInv /\ ProcessMessage => IndInv'
<1> SUFFICES ASSUME IndInv, ProcessMessage PROVE IndInv'
  OBVIOUS
<1> USE DEF ProcessMessage
<1> DEFINE gap == oldest.beat > lastApplied[stream]
                  /\ oldest.beat - lastApplied[stream] > 1
<1>1. /\ stream \in Streams /\ oldest.seq \in 0 .. MaxSeq
      /\ oldest.beat \in 0 .. MaxSeq /\ MaxSeq \in Nat
      /\ lastApplied[stream] = oldest.seq
      /\ expected[stream] = oldest.seq + 1
  BY OldestFields, WordAssumption DEF IndInv, ScanInv
<1>2. CASE gap
  <2>1. /\ oldest.beat - 1 \in 1 .. MaxSeq
        /\ expected[stream] <= oldest.beat - 1
        /\ expected[stream] # 0
        /\ lastApplied[stream] + 1 = expected[stream]
    BY <1>1, <1>2
  <2>2. handleGap(stream, expected[stream], oldest.beat - 1)
    BY <1>2, <2>1
  <2>3. UNCHANGED <<lastApplied, delivered>>
    OBVIOUS
  <2>4. /\ Accounted'
        /\ expected' \in [Streams -> 0 .. MaxSeq + 1]
        /\ skipped' \in [Streams -> SUBSET Seqs]
        /\ gapsDetected' \in Nat
    BY <1>1, <2>1, <2>2, <2>3, GapKeepsAccounted
  <2> QED
    BY <2>4, StartScanKeepsInv DEF IndInv, TypeOK
<1>3. CASE ~ gap
  <2>1. UNCHANGED <<gapsDetected, expected, skipped, lastApplied, delivered>>
    BY <1>3
  <2>2. Accounted'
    BY <2>1 DEF IndInv, Accounted, NextSeq
  <2> QED
    BY <2>1, <2>2, StartScanKeepsInv DEF IndInv, TypeOK
<1> QED
  BY <1>2, <1>3

LEMMA DropOldKeepsInv == IndInv /\ DropOld => IndInv'
<1> SUFFICES ASSUME IndInv, DropOld PROVE IndInv'
  OBVIOUS
<1>1. queues' \in [Queues -> Seq(Messages)]
  BY DequeueType DEF DropOld
<1>2. UNCHANGED <<gapsDetected, expected, skipped, lastApplied, delivered>>
  BY DEF DropOld, merger, history
<1>3. Accounted'
  BY <1>2 DEF IndInv, Accounted, NextSeq
<1> QED
  BY <1>1, <1>2, <1>3, StartScanKeepsInv DEF IndInv, TypeOK, DropOld

LEMMA ScanKeepsInv ==
  IndInv /\ (PeekQueue \/ NothingQueued \/ FoundOldest \/ SpinForGap) => IndInv'
<1> SUFFICES ASSUME IndInv, PeekQueue \/ NothingQueued \/ FoundOldest \/ SpinForGap
             PROVE  IndInv'
  OBVIOUS
<1>1. CASE PeekQueue
  <2> DEFINE q == scanned + 1
  <2>1. q \in Queues /\ queues[q] \in Seq(Messages)
    BY <1>1, QueuesAssumption DEF PeekQueue, IndInv, TypeOK, Queues
  <2>2. queues[q] # << >> => Head(queues[q]) \in Messages
    BY <2>1, HeadTailProperties
  <2>3. UNCHANGED <<lastApplied, expected, delivered, skipped, queues, pc>>
    BY <1>1 DEF PeekQueue, merger, history
  <2>4. \/ queues[q] # << >> /\ oldest' = Head(queues[q]) /\ oldestQueue' = q
        \/ UNCHANGED <<oldest, oldestQueue>>
    BY <1>1 DEF PeekQueue
  <2>5. scanned' \in 0 .. NumQueues
    BY <1>1, QueuesAssumption DEF PeekQueue, IndInv, TypeOK
  <2>6. TypeOK'
    <3>1. oldest' \in Messages \union {NoMsg} /\ oldestQueue' \in Queues
      BY <2>1, <2>2, <2>4 DEF IndInv, TypeOK
    <3> QED
      BY <1>1, <2>3, <2>5, <3>1 DEF PeekQueue, IndInv, TypeOK, merger, network, history
  <2>7. ScanInv'
    BY <1>1, <2>3, <2>4 DEF PeekQueue, IndInv, ScanInv
  <2>8. Accounted'
    BY <2>3 DEF IndInv, Accounted, NextSeq
  <2> QED
    BY <2>6, <2>7, <2>8 DEF IndInv
<1>2. CASE NothingQueued
  <2>1. UNCHANGED <<lastApplied, expected, delivered, skipped, queues, gapsDetected>>
    BY <1>2 DEF NothingQueued, merger, history
  <2>2. Accounted'
    BY <2>1 DEF IndInv, Accounted, NextSeq
  <2> QED
    BY <1>2, <2>1, <2>2, StartScanKeepsInv DEF NothingQueued, IndInv, TypeOK
<1>3. CASE FoundOldest
  <2> USE <1>3 DEF FoundOldest
  <2>1. oldest \in Messages /\ stream \in Streams
    BY MessageFields DEF IndInv, TypeOK, stream
  <2>2. expected' = [expected EXCEPT ![stream] = NextSeq(stream)]
    BY DEF stream, NextSeq
  <2>3. NextSeq(stream) \in 1 .. MaxSeq + 1
    BY <2>1, WordAssumption DEF NextSeq, IndInv, TypeOK
  <2>4. expected' \in [Streams -> 0 .. MaxSeq + 1]
    <3>1. \A n \in 1 .. MaxSeq + 1 : n \in 0 .. MaxSeq + 1
      BY WordAssumption
    <3>2. expected \in [Streams -> 0 .. MaxSeq + 1]
      BY DEF IndInv, TypeOK
    <3> QED
      BY <2>2, <2>3, <3>1, <3>2
  <2>5. \A t \in Streams : NextSeq(t)' = NextSeq(t)
    BY <2>1, <2>2, <2>3 DEF IndInv, TypeOK, NextSeq
  <2>6. TypeOK'
    BY <2>4 DEF IndInv, TypeOK, network, history
  <2>7. ScanInv'
    BY <2>1, <2>2, <2>3 DEF IndInv, TypeOK, ScanInv, stream
  <2>8. Accounted'
    BY <2>5 DEF IndInv, Accounted, history
  <2> QED
    BY <2>6, <2>7, <2>8 DEF IndInv
<1>4. CASE SpinForGap
  <2>1. oldest.seq \in Int /\ expected[stream] \in Int
    BY <1>4, OldestFields DEF SpinForGap
  <2> QED
    BY <1>4, <2>1 DEF SpinForGap, gapSize, merger, network, history, IndInv,
                      TypeOK, ScanInv, Accounted, NextSeq, stream
<1> QED
  BY <1>1, <1>2, <1>3, <1>4
--------------------------------------------------------------------------------
\* Every step keeps the invariant.
LEMMA InvNext == IndInv /\ [Next]_vars => IndInv'
<1> SUFFICES ASSUME IndInv, [Next]_vars PROVE IndInv'
  OBVIOUS
<1>1. CASE Network
  BY <1>1, NetworkKeepsInv
<1>2. CASE GetNextMessage
  BY <1>2, ScanKeepsInv, DeliverKeepsInv, GiveUpKeepsInv, DropOldKeepsInv
     DEF GetNextMessage
<1>3. CASE ProcessMessage
  BY <1>3, ProcessKeepsInv
<1>4. CASE UNCHANGED vars
  BY <1>4 DEF vars, merger, locals, network, history, IndInv, TypeOK, ScanInv,
              Accounted, NextSeq, stream
<1> QED
  BY <1>1, <1>2, <1>3, <1>4 DEF Next, processLoop

\* The strengthened invariant holds of every reachable state.
THEOREM Invariance == Spec => []IndInv
<1>1. Init => IndInv
  BY InvInit
<1>2. IndInv /\ [Next]_vars => IndInv'
  BY InvNext
<1> QED
  BY <1>1, <1>2, PTL DEF Spec

\* The merger's maps, queues and locals keep their types, and no sequence
\* number leaves its range (sequencer.go:12-18, 41-103).
THEOREM TypeCorrect == Spec => []TypeOK
<1>1. IndInv => TypeOK
  BY DEF IndInv
<1> QED
  BY <1>1, Invariance, PTL

\* The message GetNextMessage decides about is still the front of its queue
\* when it dequeues (sequencer.go:73, 100), whatever the receivers enqueue
\* meanwhile.
THEOREM OldestStaysFront == Spec => []OldestIsFront
<1>1. IndInv => OldestIsFront
  BY DEF IndInv, ScanInv, OldestIsFront
<1> QED
  BY <1>1, Invariance, PTL

\* Every number below a stream's expectedSeq was delivered or declared a gap,
\* and not both (sequencer.go:71-102, 132-140, 203-213).
THEOREM NothingLostSilently == Spec => []NoSilentLoss
<1>1. IndInv => NoSilentLoss
  BY DEF IndInv, Accounted, NoSilentLoss
<1> QED
  BY <1>1, Invariance, PTL

\* lastAppliedSeq only grows (sequencer.go:74): a message is never applied
\* after a later one of its stream.
THEOREM AppliedInSequence == Spec => InSequence
<1>1. IndInv /\ [Next]_vars =>
        [\A s \in Streams : lastApplied'[s] # lastApplied[s] =>
                              lastApplied'[s] > lastApplied[s]]_vars
  <2> SUFFICES ASSUME IndInv, Next, NEW s \in Streams,
                      lastApplied'[s] # lastApplied[s]
               PROVE  lastApplied'[s] > lastApplied[s]
    OBVIOUS
  <2>1. CASE DeliverInSequence
    <3>1. /\ stream \in Streams /\ oldest.seq \in 1 .. MaxSeq
          /\ oldest.seq = NextSeq(stream)
      BY <2>1, OldestFields DEF DeliverInSequence
    <3>2. s = stream /\ lastApplied'[s] = oldest.seq
      BY <2>1, <3>1 DEF DeliverInSequence, IndInv, TypeOK
    <3>3. lastApplied[s] < NextSeq(s)
      BY DEF IndInv, Accounted
    <3> QED
      BY <3>1, <3>2, <3>3
  <2>2. CASE ~ DeliverInSequence
    <3>1. UNCHANGED lastApplied
      BY <2>2 DEF Next, Network, Arrive, DropAtFullQueue, Lose, processLoop,
                  GetNextMessage, PeekQueue, NothingQueued, FoundOldest, SpinForGap,
                  GiveUpGap, DropOld, ProcessMessage, merger
    <3> QED
      BY <3>1
  <2> QED
    BY <2>1, <2>2
<1> QED
  BY <1>1, Invariance, PTL DEF Spec, InSequence
--------------------------------------------------------------------------------
(* The merger implements OrderedDelivery. *)

\* The refinement mapping: the next number of every stream.
next == [s \in Streams |-> NextSeq(s)]

\* A gap from the stream's next number on is a Skip.
LEMMA GapIsSkip ==
  ASSUME IndInv, NEW s \in Streams, NEW endSeq \in 1 .. MaxSeq,
         expected[s] # 0, expected[s] <= endSeq,
         handleGap(s, expected[s], endSeq), UNCHANGED <<lastApplied, delivered>>
  PROVE  Delivery!Skip(s, endSeq)
<1>1. expected' = [expected EXCEPT ![s] = endSeq + 1]
  BY GapKeepsAccounted
<1>2. next[s] = expected[s] /\ endSeq + 1 # 0
  BY DEF next, NextSeq
<1>3. next' = [next EXCEPT ![s] = endSeq + 1]
  BY <1>1, <1>2 DEF next, NextSeq, IndInv, TypeOK
<1>4. skipped' = [skipped EXCEPT ![s] = @ \union next[s] .. endSeq]
  BY <1>2 DEF handleGap
<1> QED
  BY <1>2, <1>3, <1>4 DEF Delivery!Skip, next

\* A step that changes none of the mapped variables is a stutter.
LEMMA Stutter ==
  ASSUME UNCHANGED <<delivered, skipped>>,
         \A s \in Streams : NextSeq(s)' = NextSeq(s)
  PROVE  UNCHANGED Delivery!vars
  BY DEF Delivery!vars

\* Every step of the merger is a step, or a stutter, of OrderedDelivery.
LEMMA StepRefines == IndInv /\ [Next]_vars => [Delivery!Next]_(Delivery!vars)
<1> SUFFICES ASSUME IndInv, [Next]_vars PROVE [Delivery!Next]_(Delivery!vars)
  OBVIOUS
<1>1. CASE DeliverInSequence
  <2>1. /\ stream \in Streams /\ oldest.seq \in 1 .. MaxSeq
        /\ oldest.seq = expected[stream] /\ MaxSeq \in Nat
        /\ NextSeq(stream) = oldest.seq
    BY <1>1, OldestFields, WordAssumption DEF DeliverInSequence
  <2>2. (oldest.seq + 1) % Word = oldest.seq + 1
    BY <2>1, NoWrap
  <2>3. expected' = [expected EXCEPT ![stream] = oldest.seq + 1]
    BY <1>1, <2>2 DEF DeliverInSequence
  <2>4. next' = [next EXCEPT ![stream] = next[stream] + 1]
    <3>1. oldest.seq + 1 # 0
      BY <2>1
    <3>2. ASSUME NEW t \in Streams
          PROVE  NextSeq(t)' = IF t = stream THEN oldest.seq + 1 ELSE NextSeq(t)
      BY <2>1, <2>3, <3>1 DEF NextSeq, IndInv, TypeOK
    <3> QED
      BY <2>1, <3>2 DEF next
  <2>5. /\ delivered' = [delivered EXCEPT ![stream] = @ \union {next[stream]}]
        /\ UNCHANGED skipped
    BY <1>1, <2>1 DEF DeliverInSequence, next
  <2>6. Delivery!Deliver(stream)
    BY <2>4, <2>5 DEF Delivery!Deliver, next
  <2> QED
    BY <2>1, <2>6 DEF Delivery!Next
<1>2. CASE GiveUpGap
  <2>1. /\ stream \in Streams /\ oldest.seq \in 0 .. MaxSeq
        /\ expected[stream] \in 1 .. MaxSeq + 1 /\ MaxSeq \in Nat
    BY <1>2, OldestFields, WordAssumption DEF GiveUpGap
  <2>2. oldest.seq > expected[stream]
    BY <1>2, <2>1, BoundsAssumption DEF GiveUpGap, IndInv, ScanInv, gapSize
  <2>3. /\ oldest.seq - 1 \in 1 .. MaxSeq
        /\ expected[stream] <= oldest.seq - 1 /\ expected[stream] # 0
    BY <2>1, <2>2
  <2>4. /\ handleGap(stream, expected[stream], oldest.seq - 1)
        /\ UNCHANGED <<lastApplied, delivered>>
    BY <1>2 DEF GiveUpGap
  <2>5. Delivery!Skip(stream, oldest.seq - 1)
    BY <2>1, <2>3, <2>4, GapIsSkip
  <2> QED
    BY <2>1, <2>3, <2>5 DEF Delivery!Next
<1>3. CASE ProcessMessage
  <2>1. /\ stream \in Streams /\ oldest.seq \in 0 .. MaxSeq
        /\ oldest.beat \in 0 .. MaxSeq /\ MaxSeq \in Nat
        /\ lastApplied[stream] = oldest.seq
        /\ expected[stream] = oldest.seq + 1
    BY <1>3, OldestFields, WordAssumption DEF ProcessMessage, IndInv, ScanInv
  <2>2. CASE oldest.beat > oldest.seq /\ oldest.beat - oldest.seq > 1
    <3>1. /\ oldest.beat - 1 \in 1 .. MaxSeq
          /\ expected[stream] <= oldest.beat - 1 /\ expected[stream] # 0
          /\ lastApplied[stream] + 1 = expected[stream]
      BY <2>1, <2>2
    <3>2. /\ handleGap(stream, expected[stream], oldest.beat - 1)
          /\ UNCHANGED <<lastApplied, delivered>>
      BY <1>3, <2>1, <2>2, <3>1 DEF ProcessMessage
    <3>3. Delivery!Skip(stream, oldest.beat - 1)
      BY <2>1, <3>1, <3>2, GapIsSkip
    <3> QED
      BY <2>1, <3>1, <3>3 DEF Delivery!Next
  <2>3. CASE ~ (oldest.beat > oldest.seq /\ oldest.beat - oldest.seq > 1)
    <3>1. UNCHANGED <<expected, skipped, delivered>>
      BY <1>3, <2>1, <2>3 DEF ProcessMessage
    <3> QED
      BY <3>1, Stutter DEF NextSeq
  <2> QED
    BY <2>2, <2>3
<1>4. CASE FoundOldest
  <2>1. UNCHANGED <<delivered, skipped>>
    BY <1>4 DEF FoundOldest, history
  <2>2. oldest.stream \in Streams
    BY <1>4, MessageFields DEF FoundOldest, IndInv, TypeOK
  <2>3. \A s \in Streams : NextSeq(s)' = NextSeq(s)
    BY <1>4, <2>2 DEF FoundOldest, IndInv, TypeOK, NextSeq
  <2> QED
    BY <2>1, <2>3, Stutter
<1>5. CASE Network \/ PeekQueue \/ NothingQueued \/ SpinForGap \/ DropOld
  <2>1. UNCHANGED <<delivered, skipped, expected>>
    BY <1>5 DEF Network, Arrive, DropAtFullQueue, Lose, PeekQueue, NothingQueued,
                SpinForGap, DropOld, history, merger
  <2> QED
    BY <2>1, Stutter DEF NextSeq
<1>6. CASE UNCHANGED vars
  BY <1>6, Stutter DEF vars, merger, history, NextSeq
<1> QED
  BY <1>1, <1>2, <1>3, <1>4, <1>5, <1>6 DEF Next, processLoop, GetNextMessage

\* GetNextMessage and the heartbeat handler deliver each stream in order, once,
\* and account for everything they pass over (sequencer.go:41-103, 203-213).
THEOREM DeliveryRefined == Spec => ImplementsDelivery
<1>1. Init => Delivery!Init
  BY DEF Init, Delivery!Init, NextSeq
<1>2. IndInv /\ [Next]_vars => [Delivery!Next]_(Delivery!vars)
  BY StepRefines
<1> QED
  BY <1>1, <1>2, Invariance, PTL DEF Spec, ImplementsDelivery, Delivery!Spec
--------------------------------------------------------------------------------
(* A network that keeps the order of each stream, one queue for a stream, and *)
(* no heartbeat that reports a number: production's receivers, as long as     *)
(* nothing but loss goes wrong.                                               *)

OneQueueEach ==
  \A s \in Streams : \A q, r \in Queues :
    <<q, s>> \in Route /\ <<r, s>> \in Route => q = r

OrderlyFeed == InOrder /\ Beats = {} /\ OneQueueEach

\* The numbers of stream s that wait in a queue.
Waiting(s) ==
  {n \in Seqs : \E q \in Queues : \E i \in 1 .. Len(queues[q]) :
                  queues[q][i].stream = s /\ queues[q][i].seq = n}

\* What waits is where it belongs, and was neither delivered nor given up.
WaitingIsAhead ==
  \A q \in Queues : \A i \in 1 .. Len(queues[q]) :
    LET m == queues[q][i] IN
    /\ <<q, m.stream>> \in Route
    /\ NextSeq(m.stream) <= m.seq /\ m.seq <= sent[m.stream]

\* A queue has the messages of a stream in their order.
WaitingIsSorted ==
  \A q \in Queues : \A i, j \in 1 .. Len(queues[q]) :
    i < j /\ queues[q][i].stream = queues[q][j].stream =>
      queues[q][i].seq < queues[q][j].seq

\* From the next number on, what was sent waits or is lost.
NothingElseIsMissing ==
  \A s \in Streams :
    /\ NextSeq(s) <= sent[s] + 1
    /\ \A n \in NextSeq(s) .. sent[s] : n \in lost[s] \/ n \in Waiting(s)

\* The message after a gap has arrived, so the gap after that one is another.
GapIsFollowed ==
  \A s \in Streams : NextSeq(s) - 1 \in skipped[s] => NextSeq(s) \in Waiting(s)

\* The last number of each run of numbers given up.
GapEnds ==
  {e \in Streams \X Seqs : e[2] \in skipped[e[1]] /\ e[2] + 1 \notin skipped[e[1]]}

GapsCounted == IsFiniteSet(GapEnds) /\ gapsDetected = Cardinality(GapEnds)

FeedInv ==
  /\ WaitingIsAhead
  /\ WaitingIsSorted
  /\ NothingElseIsMissing
  /\ GapIsFollowed
  /\ OnlyLostIsSkipped
  /\ GapsCounted

LEMMA FeedInit == Init => FeedInv
<1> SUFFICES ASSUME Init PROVE FeedInv
  OBVIOUS
<1>1. \A q \in Queues : queues[q] = << >>
  BY DEF Init
<1>2. WaitingIsAhead /\ WaitingIsSorted
  BY <1>1 DEF WaitingIsAhead, WaitingIsSorted
<1>3. NothingElseIsMissing /\ GapIsFollowed /\ OnlyLostIsSkipped
  BY DEF Init, NothingElseIsMissing, GapIsFollowed, OnlyLostIsSkipped, NextSeq
<1>4. GapEnds = {}
  BY DEF Init, GapEnds
<1>5. GapsCounted
  BY <1>4, FS_EmptySet DEF Init, GapsCounted
<1> QED
  BY <1>2, <1>3, <1>5 DEF FeedInv

\* The fields of a message that waits.
LEMMA WaitingFields ==
  ASSUME IndInv, Beats = {}, NEW q \in Queues, NEW i \in 1 .. Len(queues[q])
  PROVE  /\ queues[q][i] \in Messages /\ queues[q][i].stream \in Streams
         /\ queues[q][i].seq \in 1 .. MaxSeq /\ queues[q][i].beat = 0
<1>1. queues[q][i] \in Messages
  BY DEF IndInv, TypeOK
<1>2. queues[q][i].beat = 0
  BY <1>1 DEF Messages
<1> QED
  BY <1>1, <1>2, MessageFields, WordAssumption DEF Messages

\* The numbers of a stream.
LEMMA NumberTypes ==
  ASSUME IndInv, NEW s \in Streams
  PROVE  /\ NextSeq(s) \in Nat /\ sent[s] \in Nat /\ expected[s] \in Nat
         /\ skipped[s] \subseteq 1 .. NextSeq(s) - 1
         /\ delivered[s] \intersect skipped[s] = {}
  BY WordAssumption DEF NextSeq, IndInv, TypeOK, Accounted

\* The next packet of stream m.stream raises sent by one.
LEMMA NextPacketSent ==
  ASSUME IndInv, OrderlyFeed, NEW m \in Messages, NextPacket(m), NEW s \in Streams
  PROVE  /\ sent[s] \in Nat
         /\ m.seq = sent[m.stream] + 1
         /\ s = m.stream => sent'[s] = m.seq
         /\ s # m.stream => sent'[s] = sent[s]
         /\ sent[s] <= sent'[s] /\ sent'[s] \in Nat
<1>1. /\ m.stream \in Streams /\ m.seq = sent[m.stream] + 1
      /\ sent \in [Streams -> Nat]
      /\ sent' = [sent EXCEPT ![m.stream] = sent[m.stream] + 1]
  BY MessageFields DEF NextPacket, OrderlyFeed, IndInv, TypeOK
<1>2. sent[s] \in Nat /\ sent[m.stream] \in Nat
  BY <1>1
<1>3. CASE s = m.stream
  BY <1>1, <1>2, <1>3
<1>4. CASE s # m.stream
  BY <1>1, <1>2, <1>4
<1> QED
  BY <1>3, <1>4

\* A step that moves no message and no number.
LEMMA FeedStays ==
  ASSUME IndInv, FeedInv, UNCHANGED <<queues, sent, lost, skipped, gapsDetected>>,
         \A s \in Streams : NextSeq(s)' = NextSeq(s)
  PROVE  FeedInv'
<1>1. \A q \in Queues : \A i \in 1 .. Len(queues[q]) : queues[q][i].stream \in Streams
  BY MessageFields DEF IndInv, TypeOK
<1>2. WaitingIsAhead' /\ WaitingIsSorted'
  BY <1>1 DEF FeedInv, WaitingIsAhead, WaitingIsSorted
<1>3. NothingElseIsMissing' /\ GapIsFollowed'
  BY DEF FeedInv, NothingElseIsMissing, GapIsFollowed, Waiting
<1>4. OnlyLostIsSkipped' /\ GapsCounted'
  BY DEF FeedInv, OnlyLostIsSkipped, GapsCounted, GapEnds
<1> QED
  BY <1>2, <1>3, <1>4 DEF FeedInv

\* The message under decision is the first of its stream among those that wait.
LEMMA OldestIsFirst ==
  ASSUME IndInv, FeedInv, OrderlyFeed, pc \in {"decide", "spin"}
  PROVE  /\ oldestQueue \in Queues /\ 1 \in 1 .. Len(queues[oldestQueue])
         /\ queues[oldestQueue][1] = oldest
         /\ stream \in Streams /\ oldest.seq \in 1 .. MaxSeq /\ oldest.beat = 0
         /\ <<oldestQueue, stream>> \in Route
         /\ NextSeq(stream) <= oldest.seq /\ oldest.seq <= sent[stream]
         /\ oldest.seq \in Waiting(stream)
         /\ \A n \in Waiting(stream) : oldest.seq <= n
<1>1. /\ oldestQueue \in Queues /\ queues[oldestQueue] \in Seq(Messages)
      /\ queues[oldestQueue] # << >> /\ Head(queues[oldestQueue]) = oldest
  BY DEF IndInv, TypeOK, ScanInv
<1>2. 1 \in 1 .. Len(queues[oldestQueue]) /\ queues[oldestQueue][1] = oldest
  BY <1>1
<1>3. stream \in Streams /\ oldest.seq \in 1 .. MaxSeq /\ oldest.beat = 0
  BY <1>1, <1>2, WaitingFields DEF OrderlyFeed, stream
<1>4. /\ <<oldestQueue, stream>> \in Route
      /\ NextSeq(stream) <= oldest.seq /\ oldest.seq <= sent[stream]
  BY <1>1, <1>2 DEF FeedInv, WaitingIsAhead, stream
<1>5. oldest.seq \in Waiting(stream)
  BY <1>1, <1>2, <1>3 DEF Waiting, stream, Seqs
<1>6. ASSUME NEW n \in Waiting(stream) PROVE oldest.seq <= n
  <2>1. PICK q \in Queues : \E i \in 1 .. Len(queues[q]) :
          queues[q][i].stream = stream /\ queues[q][i].seq = n
    BY DEF Waiting
  <2>2. PICK i \in 1 .. Len(queues[q]) :
          queues[q][i].stream = stream /\ queues[q][i].seq = n
    BY <2>1
  <2>3. <<q, stream>> \in Route
    BY <2>2 DEF FeedInv, WaitingIsAhead
  <2>4. q = oldestQueue
    BY <1>1, <1>3, <1>4, <2>3 DEF OrderlyFeed, OneQueueEach
  <2>5. CASE i = 1
    BY <1>2, <1>3, <2>2, <2>4, <2>5
  <2>6. CASE i # 1
    <3>1. 1 < i
      BY <1>1, <2>4, <2>6
    <3>2. queues[q][1].seq < queues[q][i].seq
      BY <1>1, <1>2, <2>2, <2>4, <3>1 DEF FeedInv, WaitingIsSorted, stream
    <3> QED
      BY <1>2, <1>3, <2>2, <2>4, <3>2, WaitingFields DEF OrderlyFeed
  <2> QED
    BY <2>5, <2>6
<1> QED
  BY <1>1, <1>2, <1>3, <1>4, <1>5, <1>6

\* Nothing that waits is old.
LEMMA NothingIsOld == IndInv /\ FeedInv /\ OrderlyFeed => ~ DropOld
<1> SUFFICES ASSUME IndInv, FeedInv, OrderlyFeed, DropOld PROVE FALSE
  OBVIOUS
<1>1. NextSeq(stream) <= oldest.seq /\ oldest.seq \in 1 .. MaxSeq
  BY OldestIsFirst DEF DropOld
<1>2. NextSeq(stream) = expected[stream] /\ expected[stream] \in 1 .. MaxSeq + 1
  BY OldestFields DEF DropOld
<1> QED
  BY <1>1, <1>2, WordAssumption DEF DropOld

\* The next packet of a stream is lost, on the wire or at a full queue.
LEMMA LossKeepsFeed ==
  ASSUME IndInv, FeedInv, OrderlyFeed, NEW m \in Messages, NextPacket(m),
         lost' = [lost EXCEPT ![m.stream] = @ \union {m.seq}],
         UNCHANGED <<queues, merger, locals, history>>
  PROVE  FeedInv'
<1>1. UNCHANGED <<queues, expected, skipped, gapsDetected>>
  BY DEF merger, history
<1>2. ASSUME NEW s \in Streams
      PROVE  /\ NextSeq(s)' = NextSeq(s) /\ Waiting(s)' = Waiting(s)
             /\ lost[s] \subseteq lost'[s]
             /\ s = m.stream => m.seq \in lost'[s]
  BY <1>1, MessageFields DEF NextSeq, Waiting, IndInv, TypeOK
<1>3. WaitingIsAhead'
  <2> SUFFICES ASSUME NEW r \in Queues, NEW i \in 1 .. Len(queues[r]),
                      NEW e, e = queues[r][i]
               PROVE  /\ <<r, e.stream>> \in Route
                      /\ NextSeq(e.stream)' <= e.seq /\ e.seq <= sent'[e.stream]
    BY <1>1 DEF WaitingIsAhead
  <2>1. e.stream \in Streams /\ e.seq \in 1 .. MaxSeq
    BY WaitingFields DEF OrderlyFeed
  <2>2. sent[e.stream] <= sent'[e.stream]
        /\ sent'[e.stream] \in Nat /\ sent[e.stream] \in Nat
    BY <2>1, NextPacketSent
  <2>3. /\ <<r, e.stream>> \in Route
        /\ NextSeq(e.stream) <= e.seq /\ e.seq <= sent[e.stream]
    BY DEF FeedInv, WaitingIsAhead
  <2> QED
    BY <1>2, <2>1, <2>2, <2>3, WordAssumption
<1>4. WaitingIsSorted'
  BY <1>1 DEF FeedInv, WaitingIsSorted
<1>5. NothingElseIsMissing'
  <2> SUFFICES ASSUME NEW s \in Streams
               PROVE  /\ NextSeq(s)' <= sent'[s] + 1
                      /\ \A n \in NextSeq(s)' .. sent'[s] : n \in lost'[s] \/ n \in Waiting(s)'
    BY DEF NothingElseIsMissing
  <2>1. /\ NextSeq(s) <= sent[s] + 1
        /\ \A n \in NextSeq(s) .. sent[s] : n \in lost[s] \/ n \in Waiting(s)
    BY DEF FeedInv, NothingElseIsMissing
  <2>2. /\ NextSeq(s) \in Nat /\ sent[s] \in Nat /\ sent'[s] \in Nat /\ sent[s] <= sent'[s]
        /\ s = m.stream => sent'[s] = sent[s] + 1 /\ sent'[s] = m.seq
        /\ s # m.stream => sent'[s] = sent[s]
    BY NumberTypes, NextPacketSent
  <2>3. \A n \in NextSeq(s) .. sent'[s] :
          n \in NextSeq(s) .. sent[s] \/ (s = m.stream /\ n = m.seq)
    BY <2>2
  <2> QED
    BY <1>2, <2>1, <2>2, <2>3
<1>6. GapIsFollowed'
  BY <1>1, <1>2 DEF FeedInv, GapIsFollowed
<1>7. OnlyLostIsSkipped'
  BY <1>1, <1>2 DEF FeedInv, OnlyLostIsSkipped
<1>8. GapsCounted'
  BY <1>1 DEF FeedInv, GapsCounted, GapEnds
<1> QED
  BY <1>3, <1>4, <1>5, <1>6, <1>7, <1>8 DEF FeedInv

\* The next packet of a stream goes to the end of the stream's queue.
LEMMA ArrivalKeepsFeed ==
  ASSUME IndInv, FeedInv, OrderlyFeed, NEW m \in Messages, NEW q \in Queues, Arrive(q, m)
  PROVE  FeedInv'
<1>1. m.stream \in Streams /\ m.seq \in 0 .. MaxSeq /\ <<q, m.stream>> \in Route
      /\ NextPacket(m)
  BY MessageFields DEF Arrive
<1>2. UNCHANGED <<expected, skipped, gapsDetected, lost>>
  BY DEF Arrive, merger, history
<1>3. ASSUME NEW s \in Streams
      PROVE  /\ NextSeq(s)' = NextSeq(s) /\ NextSeq(s) \in Nat
             /\ sent[s] \in Nat /\ sent'[s] \in Nat /\ sent[s] <= sent'[s]
             /\ s = m.stream => sent'[s] = sent[s] + 1 /\ sent'[s] = m.seq
             /\ s # m.stream => sent'[s] = sent[s]
             /\ NextSeq(s) <= sent[s] + 1
  <2>1. NextSeq(s)' = NextSeq(s) /\ NextSeq(s) <= sent[s] + 1
    BY <1>2 DEF NextSeq, FeedInv, NothingElseIsMissing
  <2> QED
    BY <1>1, <2>1, NumberTypes, NextPacketSent
<1>4. queues[q] \in Seq(Messages) /\ queues' = [queues EXCEPT ![q] = Append(queues[q], m)]
      /\ queues \in [Queues -> Seq(Messages)]
  BY DEF IndInv, TypeOK, Arrive
<1> DEFINE n == Len(queues[q])
<1>5. /\ n \in Nat /\ Len(queues'[q]) = n + 1 /\ queues'[q][n + 1] = m
      /\ \A i \in 1 .. n : queues'[q][i] = queues[q][i]
      /\ \A r \in Queues \ {q} : queues'[r] = queues[r]
  BY <1>4
<1>6. ASSUME NEW r \in Queues, NEW i \in 1 .. Len(queues'[r])
      PROVE  \/ r = q /\ i = n + 1 /\ queues'[r][i] = m
             \/ i \in 1 .. Len(queues[r]) /\ queues'[r][i] = queues[r][i]
  BY <1>5
<1>7. ASSUME NEW r \in Queues, NEW i \in 1 .. Len(queues[r])
      PROVE  i \in 1 .. Len(queues'[r]) /\ queues'[r][i] = queues[r][i]
  BY <1>5
<1>8. ASSUME NEW r \in Queues, NEW i \in 1 .. Len(queues[r])
      PROVE  /\ queues[r][i].stream \in Streams /\ queues[r][i].seq \in Nat
             /\ <<r, queues[r][i].stream>> \in Route
             /\ NextSeq(queues[r][i].stream) <= queues[r][i].seq
             /\ queues[r][i].seq <= sent[queues[r][i].stream]
  BY WaitingFields, WordAssumption DEF OrderlyFeed, FeedInv, WaitingIsAhead
<1>9. WaitingIsAhead'
  <2> SUFFICES ASSUME NEW r \in Queues, NEW i \in 1 .. Len(queues'[r]),
                      NEW e, e = queues'[r][i]
               PROVE  /\ <<r, e.stream>> \in Route
                      /\ NextSeq(e.stream)' <= e.seq /\ e.seq <= sent'[e.stream]
    BY DEF WaitingIsAhead
  <2>1. CASE r = q /\ i = n + 1 /\ queues'[r][i] = m
    <3>1. /\ NextSeq(m.stream)' <= m.seq /\ m.seq <= sent'[m.stream]
      BY <1>1, <1>3
    <3> QED
      BY <1>1, <2>1, <3>1
  <2>2. CASE i \in 1 .. Len(queues[r]) /\ queues'[r][i] = queues[r][i]
    <3>1. /\ e = queues[r][i] /\ e.stream \in Streams /\ e.seq \in Nat
          /\ <<r, e.stream>> \in Route
          /\ NextSeq(e.stream) <= e.seq /\ e.seq <= sent[e.stream]
      BY <1>8, <2>2
    <3>2. NextSeq(e.stream)' <= e.seq /\ e.seq <= sent'[e.stream]
      BY <1>3, <3>1
    <3> QED
      BY <3>1, <3>2
  <2> QED
    BY <1>6, <2>1, <2>2
<1>10. WaitingIsSorted'
  <2> SUFFICES ASSUME NEW r \in Queues, NEW i \in 1 .. Len(queues'[r]),
                      NEW j \in 1 .. Len(queues'[r]), i < j,
                      queues'[r][i].stream = queues'[r][j].stream
               PROVE  queues'[r][i].seq < queues'[r][j].seq
    BY DEF WaitingIsSorted
  <2>1. CASE r = q /\ j = n + 1
    <3>1. i \in 1 .. Len(queues[r]) /\ queues'[r][i] = queues[r][i]
      BY <1>5, <1>6, <2>1
    <3>2. queues'[r][j] = m
      BY <1>5, <2>1
    <3>3. queues[r][i].stream = m.stream
      BY <3>1, <3>2
    <3>4. queues[r][i].seq <= sent[m.stream] /\ queues[r][i].seq \in Nat
      BY <1>8, <3>1, <3>3
    <3>5. sent[m.stream] \in Nat /\ m.seq = sent[m.stream] + 1
      BY <1>1, <1>3
    <3> QED
      BY <3>1, <3>2, <3>4, <3>5
  <2>2. CASE ~ (r = q /\ j = n + 1)
    <3>1. j \in 1 .. Len(queues[r]) /\ queues'[r][j] = queues[r][j]
      BY <1>6, <2>2
    <3>2. i \in 1 .. Len(queues[r])
      BY <1>4, <1>5, <1>6, <3>1
    <3>3. queues'[r][i] = queues[r][i]
      BY <1>7, <3>2
    <3> QED
      BY <3>1, <3>2, <3>3 DEF FeedInv, WaitingIsSorted
  <2> QED
    BY <2>1, <2>2
<1>11. ASSUME NEW s \in Streams PROVE Waiting(s) \subseteq Waiting(s)'
  BY <1>7 DEF Waiting
<1>12. m.seq \in Waiting(m.stream)'
  <2>1. n + 1 \in 1 .. Len(queues'[q]) /\ m.seq \in Seqs
    BY <1>1, <1>3, <1>5, WordAssumption DEF Seqs
  <2> QED
    BY <1>5, <2>1 DEF Waiting
<1>13. NothingElseIsMissing'
  <2> SUFFICES ASSUME NEW s \in Streams
               PROVE  /\ NextSeq(s)' <= sent'[s] + 1
                      /\ \A k \in NextSeq(s)' .. sent'[s] : k \in lost'[s] \/ k \in Waiting(s)'
    BY DEF NothingElseIsMissing
  <2>1. \A k \in NextSeq(s) .. sent[s] : k \in lost[s] \/ k \in Waiting(s)
    BY DEF FeedInv, NothingElseIsMissing
  <2>2. \A k \in NextSeq(s) .. sent'[s] :
          k \in NextSeq(s) .. sent[s] \/ (s = m.stream /\ k = m.seq)
    BY <1>1, <1>3
  <2> QED
    BY <1>2, <1>3, <1>11, <1>12, <2>1, <2>2
<1>14. GapIsFollowed'
  BY <1>2, <1>3, <1>11 DEF FeedInv, GapIsFollowed
<1>15. OnlyLostIsSkipped' /\ GapsCounted'
  BY <1>2 DEF FeedInv, OnlyLostIsSkipped, GapsCounted, GapEnds
<1> QED
  BY <1>9, <1>10, <1>13, <1>14, <1>15 DEF FeedInv

\* The message under decision is delivered: it was the next of its stream.
LEMMA DeliveryKeepsFeed ==
  ASSUME IndInv, FeedInv, OrderlyFeed, DeliverInSequence
  PROVE  FeedInv'
<1>1. /\ oldestQueue \in Queues /\ 1 \in 1 .. Len(queues[oldestQueue])
      /\ queues[oldestQueue][1] = oldest
      /\ stream \in Streams /\ oldest.seq \in 1 .. MaxSeq
      /\ <<oldestQueue, stream>> \in Route /\ oldest.seq <= sent[stream]
      /\ oldest.seq = expected[stream] /\ NextSeq(stream) = oldest.seq
  BY OldestIsFirst, OldestFields DEF DeliverInSequence
<1>2. /\ UNCHANGED <<sent, lost, skipped, gapsDetected>>
      /\ queues' = [queues EXCEPT ![oldestQueue] = Tail(queues[oldestQueue])]
      /\ queues \in [Queues -> Seq(Messages)]
      /\ queues[oldestQueue] \in Seq(Messages) /\ queues[oldestQueue] # << >>
  BY <1>1 DEF DeliverInSequence, DequeueOldest, network, IndInv, TypeOK, ScanInv
<1>3. ASSUME NEW s \in Streams
      PROVE  /\ s # stream => NextSeq(s)' = NextSeq(s)
             /\ s = stream => NextSeq(s)' = oldest.seq + 1
             /\ NextSeq(s) \in Nat /\ sent[s] \in Nat
  <2>1. (oldest.seq + 1) % Word = oldest.seq + 1
    BY <1>1, NoWrap, WordAssumption
  <2>2. expected' = [expected EXCEPT ![stream] = oldest.seq + 1]
    BY <2>1 DEF DeliverInSequence
  <2>3. expected \in [Streams -> 0 .. MaxSeq + 1] /\ oldest.seq + 1 # 0
    BY <1>1 DEF IndInv, TypeOK
  <2> QED
    BY <1>1, <2>2, <2>3, NumberTypes DEF NextSeq
<1>4. ASSUME NEW r \in Queues, NEW i \in 1 .. Len(queues'[r])
      PROVE  IF r = oldestQueue
             THEN /\ i + 1 \in 1 .. Len(queues[r]) /\ 1 < i + 1
                  /\ queues'[r][i] = queues[r][i + 1]
             ELSE i \in 1 .. Len(queues[r]) /\ queues'[r][i] = queues[r][i]
  BY <1>2
<1>5. ASSUME NEW r \in Queues, NEW i \in 1 .. Len(queues[r]), ~ (r = oldestQueue /\ i = 1)
      PROVE  \E j \in 1 .. Len(queues'[r]) : queues'[r][j] = queues[r][i]
  <2>1. CASE r # oldestQueue
    BY <1>2, <2>1
  <2>2. CASE r = oldestQueue
    <3>1. i - 1 \in 1 .. Len(queues'[r]) /\ queues'[r][i - 1] = queues[r][i]
      BY <1>2, <1>5, <2>2
    <3> QED
      BY <3>1
  <2> QED
    BY <2>1, <2>2
<1>6. ASSUME NEW s \in Streams, NEW n \in Waiting(s), s # stream \/ n # oldest.seq
      PROVE  n \in Waiting(s)'
  <2>1. PICK q \in Queues : \E i \in 1 .. Len(queues[q]) :
               queues[q][i].stream = s /\ queues[q][i].seq = n
    BY DEF Waiting
  <2>2. PICK i \in 1 .. Len(queues[q]) : queues[q][i].stream = s /\ queues[q][i].seq = n
    BY <2>1
  <2>3. ~ (q = oldestQueue /\ i = 1)
    BY <1>1, <1>6, <2>2 DEF stream
  <2>4. PICK j \in 1 .. Len(queues'[q]) : queues'[q][j] = queues[q][i]
    BY <1>5, <2>3
  <2> QED
    BY <2>2, <2>4 DEF Waiting
<1>7. WaitingIsAhead'
  <2> SUFFICES ASSUME NEW r \in Queues, NEW i \in 1 .. Len(queues'[r]),
                      NEW e, e = queues'[r][i]
               PROVE  /\ <<r, e.stream>> \in Route
                      /\ NextSeq(e.stream)' <= e.seq /\ e.seq <= sent'[e.stream]
    BY DEF WaitingIsAhead
  <2>1. PICK j \in 1 .. Len(queues[r]) :
          queues[r][j] = e /\ (r = oldestQueue => 1 < j)
    BY <1>4
  <2>2. /\ e.stream \in Streams /\ e.seq \in 1 .. MaxSeq
        /\ <<r, e.stream>> \in Route
        /\ NextSeq(e.stream) <= e.seq /\ e.seq <= sent[e.stream]
    BY <2>1, WaitingFields DEF OrderlyFeed, FeedInv, WaitingIsAhead
  <2>3. CASE e.stream # stream
    BY <1>2, <1>3, <2>2, <2>3
  <2>4. CASE e.stream = stream
    <3>1. r = oldestQueue
      BY <1>1, <2>2, <2>4 DEF OrderlyFeed, OneQueueEach
    <3>2. queues[r][1].seq < queues[r][j].seq
      BY <1>1, <2>1, <2>4, <3>1 DEF FeedInv, WaitingIsSorted, stream
    <3>3. oldest.seq < e.seq
      BY <1>1, <2>1, <3>1, <3>2
    <3>4. NextSeq(e.stream)' = oldest.seq + 1
      BY <1>3, <2>2, <2>4
    <3> QED
      <4>1. oldest.seq + 1 <= e.seq
        BY <1>1, <2>2, <3>3, WordAssumption
      <4>2. NextSeq(e.stream)' <= e.seq
        BY <3>4, <4>1
      <4>3. sent' = sent
        BY <1>2
      <4> QED
        BY <2>2, <4>2, <4>3
  <2> QED
    BY <2>3, <2>4
<1>8. WaitingIsSorted'
  <2> SUFFICES ASSUME NEW r \in Queues, NEW i \in 1 .. Len(queues'[r]),
                      NEW j \in 1 .. Len(queues'[r]), i < j,
                      queues'[r][i].stream = queues'[r][j].stream
               PROVE  queues'[r][i].seq < queues'[r][j].seq
    BY DEF WaitingIsSorted
  <2>1. CASE r = oldestQueue
    <3>1. /\ i + 1 \in 1 .. Len(queues[r]) /\ queues'[r][i] = queues[r][i + 1]
          /\ j + 1 \in 1 .. Len(queues[r]) /\ queues'[r][j] = queues[r][j + 1]
          /\ i + 1 < j + 1
      BY <1>4, <2>1
    <3> QED
      BY <3>1 DEF FeedInv, WaitingIsSorted
  <2>2. CASE r # oldestQueue
    BY <1>4, <2>2 DEF FeedInv, WaitingIsSorted
  <2> QED
    BY <2>1, <2>2
<1>9. NothingElseIsMissing'
  <2> SUFFICES ASSUME NEW s \in Streams
               PROVE  /\ NextSeq(s)' <= sent'[s] + 1
                      /\ \A n \in NextSeq(s)' .. sent'[s] : n \in lost'[s] \/ n \in Waiting(s)'
    BY DEF NothingElseIsMissing
  <2>1. /\ NextSeq(s) <= sent[s] + 1
        /\ \A n \in NextSeq(s) .. sent[s] : n \in lost[s] \/ n \in Waiting(s)
    BY DEF FeedInv, NothingElseIsMissing
  <2>2. CASE s # stream
    BY <1>2, <1>3, <1>6, <2>1, <2>2
  <2>3. CASE s = stream
    <3>1. /\ NextSeq(s)' = oldest.seq + 1 /\ oldest.seq + 1 <= sent[s] + 1
          /\ \A n \in oldest.seq + 1 .. sent[s] : n \in NextSeq(s) .. sent[s] /\ n # oldest.seq
      BY <1>1, <1>3, <2>3
    <3> QED
      BY <1>2, <1>6, <2>1, <3>1
  <2> QED
    BY <2>2, <2>3
<1>10. GapIsFollowed'
  <2> SUFFICES ASSUME NEW s \in Streams, NextSeq(s)' - 1 \in skipped[s]
               PROVE  NextSeq(s)' \in Waiting(s)'
    BY <1>2 DEF GapIsFollowed
  <2>1. s # stream
    <3>1. ASSUME s = stream PROVE FALSE
      <4>1. skipped[s] \subseteq 1 .. NextSeq(s) - 1 /\ NextSeq(s)' = oldest.seq + 1
        BY <1>3, <3>1, NumberTypes
      <4> QED
        BY <1>1, <3>1, <4>1
    <3> QED
      BY <3>1
  <2> QED
    BY <1>3, <1>6, <2>1 DEF FeedInv, GapIsFollowed
<1>11. OnlyLostIsSkipped' /\ GapsCounted'
  BY <1>2 DEF FeedInv, OnlyLostIsSkipped, GapsCounted, GapEnds
<1> QED
  BY <1>7, <1>8, <1>9, <1>10, <1>11 DEF FeedInv

\* Giving up the numbers from lo to hi, when the one before lo was not given up,
\* adds one run.
LEMMA GapAddsOneEnd ==
  ASSUME IndInv, GapsCounted, NEW s \in Streams,
         NEW lo \in 1 .. MaxSeq, NEW hi \in 1 .. MaxSeq, lo <= hi,
         NextSeq(s) = lo, lo - 1 \notin skipped[s],
         skipped' = [skipped EXCEPT ![s] = @ \union lo .. hi],
         gapsDetected' = gapsDetected + 1
  PROVE  GapsCounted'
<1>1. /\ skipped \in [Streams -> SUBSET Seqs] /\ MaxSeq \in Nat
      /\ skipped[s] \subseteq 1 .. lo - 1
  BY NumberTypes, WordAssumption DEF IndInv, TypeOK
<1>2. GapEnds' = GapEnds \union {<<s, hi>>}
  <2>1. ASSUME NEW t \in Streams, NEW n \in Seqs
        PROVE  (n \in skipped'[t] /\ n + 1 \notin skipped'[t]) <=>
                 \/ (n \in skipped[t] /\ n + 1 \notin skipped[t])
                 \/ (t = s /\ n = hi)
    <3>0. n \in Nat
      BY WordAssumption DEF Seqs
    <3>1. CASE t # s
      BY <1>1, <3>1
    <3>2. CASE t = s
      <4>1. skipped'[s] = skipped[s] \union lo .. hi
        BY <1>1
      <4>2. \A k \in Nat : k \in skipped'[s] <=> k \in skipped[s] \/ (lo <= k /\ k <= hi)
        BY <4>1
      <4>3. \A k \in Nat : k \in skipped[s] => k < lo - 1
        BY <1>1
      <4>4. n + 1 \in Nat
        BY <3>0
      <4>5. n + 1 \in skipped[s] => n + 1 < lo - 1
        BY <4>3, <4>4
      <4>6. n \in skipped[s] => n < lo - 1
        BY <3>0, <4>3
      <4>7. n + 1 \in skipped'[s] <=> n + 1 \in skipped[s] \/ (lo <= n + 1 /\ n + 1 <= hi)
        BY <4>2, <4>4
      <4>8. n \in skipped'[s] <=> n \in skipped[s] \/ (lo <= n /\ n <= hi)
        BY <4>2, <3>0
      <4> QED
        BY <3>0, <3>2, <4>5, <4>6, <4>7, <4>8
    <3> QED
      BY <3>1, <3>2
  <2>2. hi \in Seqs
    BY DEF Seqs
  <2>3. ASSUME NEW e \in Streams \X Seqs
        PROVE  e \in GapEnds' <=> e \in GapEnds \/ e = <<s, hi>>
    <3>1. PICK t \in Streams, n \in Seqs : e = <<t, n>>
      OBVIOUS
    <3>2. e \in GapEnds' <=> n \in skipped'[t] /\ n + 1 \notin skipped'[t]
      BY <3>1 DEF GapEnds
    <3>3. e \in GapEnds <=> n \in skipped[t] /\ n + 1 \notin skipped[t]
      BY <3>1 DEF GapEnds
    <3>4. e = <<s, hi>> <=> (t = s /\ n = hi)
      BY <3>1
    <3> QED
      BY <2>1, <3>2, <3>3, <3>4
  <2>4. /\ GapEnds' \subseteq Streams \X Seqs
        /\ GapEnds \union {<<s, hi>>} \subseteq Streams \X Seqs
    BY <2>2 DEF GapEnds
  <2> QED
    BY <2>3, <2>4
<1>3. <<s, hi>> \notin GapEnds
  BY <1>1 DEF GapEnds
<1> QED
  BY <1>2, <1>3, FS_AddElement DEF GapsCounted

\* A gap is given up: all its numbers are lost.
LEMMA GiveUpKeepsFeed ==
  ASSUME IndInv, FeedInv, OrderlyFeed, GiveUpGap
  PROVE  FeedInv'
<1> DEFINE lo == expected[stream]
           hi == oldest.seq - 1
<1>1. /\ stream \in Streams /\ oldest.seq \in 1 .. MaxSeq /\ MaxSeq \in Nat
      /\ NextSeq(stream) = lo /\ oldest.seq <= sent[stream]
      /\ oldest.seq \in Waiting(stream)
      /\ \A n \in Waiting(stream) : oldest.seq <= n
  BY OldestIsFirst, OldestFields, WordAssumption DEF GiveUpGap
<1>2. lo \in 1 .. MaxSeq /\ hi \in 1 .. MaxSeq /\ lo <= hi /\ lo < oldest.seq
  <2>1. lo \in 1 .. MaxSeq + 1
    BY OldestFields DEF GiveUpGap
  <2>2. oldest.seq > lo
    BY <1>1, <2>1, BoundsAssumption DEF GiveUpGap, IndInv, ScanInv, gapSize
  <2> QED
    BY <1>1, <2>1, <2>2
<1>3. /\ UNCHANGED <<queues, sent, lost>>
      /\ handleGap(stream, lo, hi) /\ UNCHANGED <<lastApplied, delivered>>
  BY DEF GiveUpGap, network
<1>4. ASSUME NEW s \in Streams
      PROVE  /\ s # stream => NextSeq(s)' = NextSeq(s) /\ skipped'[s] = skipped[s]
             /\ s = stream => NextSeq(s)' = oldest.seq /\ skipped'[s] = skipped[s] \union lo .. hi
             /\ NextSeq(s) \in Nat /\ sent[s] \in Nat
             /\ Waiting(s)' = Waiting(s)
  <2>1. expected' = [expected EXCEPT ![stream] = hi + 1]
    BY <1>1, <1>2, <1>3, GapKeepsAccounted
  <2>2. /\ expected \in [Streams -> 0 .. MaxSeq + 1] /\ hi + 1 = oldest.seq /\ oldest.seq # 0
        /\ skipped \in [Streams -> SUBSET Seqs]
    BY <1>1 DEF IndInv, TypeOK
  <2>3. skipped' = [skipped EXCEPT ![stream] = @ \union lo .. hi]
    BY <1>3 DEF handleGap
  <2>4. Waiting(s)' = Waiting(s)
    BY <1>3 DEF Waiting
  <2>5. /\ s # stream => NextSeq(s)' = NextSeq(s)
        /\ s = stream => NextSeq(s)' = oldest.seq
    BY <1>1, <2>1, <2>2 DEF NextSeq
  <2> QED
    BY <1>1, <2>2, <2>3, <2>4, <2>5, NumberTypes
<1>5. ASSUME NEW n \in lo .. hi PROVE n \in lost[stream]
  <2>1. n \in NextSeq(stream) .. sent[stream] /\ n < oldest.seq
    BY <1>1, <1>2, NumberTypes
  <2> QED
    BY <1>1, <2>1 DEF FeedInv, NothingElseIsMissing
<1>6. lo - 1 \notin skipped[stream]
  <2>1. lo \notin Waiting(stream)
    BY <1>1, <1>2
  <2> QED
    BY <1>1, <2>1 DEF FeedInv, GapIsFollowed
<1>7. WaitingIsAhead'
  <2> SUFFICES ASSUME NEW r \in Queues, NEW i \in 1 .. Len(queues[r]),
                      NEW e, e = queues[r][i]
               PROVE  /\ <<r, e.stream>> \in Route
                      /\ NextSeq(e.stream)' <= e.seq /\ e.seq <= sent[e.stream]
    BY <1>3 DEF WaitingIsAhead
  <2>1. /\ e.stream \in Streams /\ e.seq \in 1 .. MaxSeq
        /\ <<r, e.stream>> \in Route
        /\ NextSeq(e.stream) <= e.seq /\ e.seq <= sent[e.stream]
    BY WaitingFields DEF OrderlyFeed, FeedInv, WaitingIsAhead
  <2>2. e.seq \in Waiting(e.stream)
    BY <2>1 DEF Waiting, Seqs
  <2>3. CASE e.stream # stream
    BY <1>4, <2>1, <2>3
  <2>4. CASE e.stream = stream
    <3>1. oldest.seq <= e.seq /\ NextSeq(e.stream)' = oldest.seq
      BY <1>1, <1>4, <2>1, <2>2, <2>4
    <3> QED
      BY <2>1, <3>1
  <2> QED
    BY <2>3, <2>4
<1>8. WaitingIsSorted'
  BY <1>3 DEF FeedInv, WaitingIsSorted
<1>9. NothingElseIsMissing'
  <2> SUFFICES ASSUME NEW s \in Streams
               PROVE  /\ NextSeq(s)' <= sent[s] + 1
                      /\ \A n \in NextSeq(s)' .. sent[s] : n \in lost[s] \/ n \in Waiting(s)
    BY <1>3, <1>4 DEF NothingElseIsMissing
  <2>1. /\ NextSeq(s) <= sent[s] + 1
        /\ \A n \in NextSeq(s) .. sent[s] : n \in lost[s] \/ n \in Waiting(s)
    BY DEF FeedInv, NothingElseIsMissing
  <2>2. CASE s # stream
    BY <1>4, <2>1, <2>2
  <2>3. CASE s = stream
    <3>1. /\ NextSeq(s)' = oldest.seq /\ oldest.seq <= sent[s] + 1
          /\ \A n \in oldest.seq .. sent[s] : n \in NextSeq(s) .. sent[s]
      BY <1>1, <1>2, <1>4, <2>3
    <3> QED
      BY <2>1, <3>1
  <2> QED
    BY <2>2, <2>3
<1>10. GapIsFollowed'
  <2> SUFFICES ASSUME NEW s \in Streams, NextSeq(s)' - 1 \in skipped'[s]
               PROVE  NextSeq(s)' \in Waiting(s)
    BY <1>4 DEF GapIsFollowed
  <2>1. CASE s # stream
    BY <1>4, <2>1 DEF FeedInv, GapIsFollowed
  <2>2. CASE s = stream
    BY <1>1, <1>4, <2>2
  <2> QED
    BY <2>1, <2>2
<1>11. OnlyLostIsSkipped'
  BY <1>3, <1>4, <1>5 DEF FeedInv, OnlyLostIsSkipped
<1>12. GapsCounted'
  BY <1>1, <1>2, <1>3, <1>6, GapAddsOneEnd DEF handleGap, FeedInv
<1> QED
  BY <1>7, <1>8, <1>9, <1>10, <1>11, <1>12 DEF FeedInv

LEMMA FeedNext ==
  ASSUME IndInv, FeedInv, OrderlyFeed, [Next]_vars
  PROVE  FeedInv'
<1>1. ASSUME NEW m \in Messages, NEW q \in Queues, Arrive(q, m) PROVE FeedInv'
  BY <1>1, ArrivalKeepsFeed
<1>2. ASSUME NEW m \in Messages, NEW q \in Queues, DropAtFullQueue(q, m) PROVE FeedInv'
  BY <1>2, LossKeepsFeed DEF DropAtFullQueue
<1>3. ASSUME NEW m \in Messages, Lose(m) PROVE FeedInv'
  BY <1>3, LossKeepsFeed DEF Lose
<1>4. CASE PeekQueue \/ NothingQueued \/ SpinForGap
  <2>1. UNCHANGED <<queues, sent, lost, skipped, gapsDetected, expected>>
    BY <1>4 DEF PeekQueue, NothingQueued, SpinForGap, merger, network, history
  <2> QED
    BY <2>1, FeedStays DEF NextSeq
<1>5. CASE FoundOldest
  <2>1. UNCHANGED <<queues, sent, lost, skipped, gapsDetected>>
    BY <1>5 DEF FoundOldest, network, history
  <2>2. oldest.stream \in Streams
    BY <1>5, MessageFields DEF FoundOldest, IndInv, TypeOK
  <2>3. \A s \in Streams : NextSeq(s)' = NextSeq(s)
    BY <1>5, <2>2 DEF FoundOldest, IndInv, TypeOK, NextSeq
  <2> QED
    BY <2>1, <2>3, FeedStays
<1>6. CASE ProcessMessage
  <2>1. oldest.beat = 0 /\ lastApplied[stream] \in Nat
    BY <1>6, OldestFields, WordAssumption
       DEF ProcessMessage, OrderlyFeed, Messages, IndInv, TypeOK
  <2>2. UNCHANGED <<queues, sent, lost, skipped, gapsDetected, expected>>
    BY <1>6, <2>1 DEF ProcessMessage, network
  <2> QED
    BY <2>2, FeedStays DEF NextSeq
<1>7. CASE UNCHANGED vars
  <2>1. UNCHANGED <<queues, sent, lost, skipped, gapsDetected, expected>>
    BY <1>7 DEF vars, merger, network, history
  <2> QED
    BY <2>1, FeedStays DEF NextSeq
<1> QED
  BY <1>1, <1>2, <1>3, <1>4, <1>5, <1>6, <1>7, DeliveryKeepsFeed, GiveUpKeepsFeed,
     NothingIsOld DEF Next, Network, processLoop, GetNextMessage

THEOREM FeedInvariance == ASSUME OrderlyFeed PROVE Spec => []FeedInv
<1>1. Init => FeedInv
  BY FeedInit
<1>2. IndInv /\ FeedInv /\ [Next]_vars => FeedInv'
  BY FeedNext
<1> QED
  BY <1>1, <1>2, Invariance, PTL DEF Spec

\* Over a network that only loses, the merger gives up no number that arrived,
\* for any loss, any full queue and any interleaving (sequencer.go:82-96).
THEOREM NothingArrivedIsSkipped == ASSUME OrderlyFeed PROVE Spec => []OnlyLostIsSkipped
<1>1. FeedInv => OnlyLostIsSkipped
  BY DEF FeedInv
<1> QED
  BY <1>1, FeedInvariance, PTL

\* metrics.GapsDetected is the number of runs of missing numbers: no run is
\* reported twice or in pieces (sequencer.go:94, 203-213).
THEOREM EachGapCountsOnce == ASSUME OrderlyFeed PROVE Spec => []GapsDetectedCountsRuns
<1>1. FeedInv => GapsDetectedCountsRuns
  BY DEF FeedInv, GapsCounted, GapsDetectedCountsRuns, GapEnds
<1> QED
  BY <1>1, FeedInvariance, PTL
================================================================================
