---------------------------- MODULE OrderedDelivery ----------------------------
(***************************************************************************)
(* What the sequence merger promises to the message handler: on every      *)
(* stream, each sequence number from 1 on is either delivered, in order    *)
(* and once, or declared missing before a later one is delivered.          *)
(***************************************************************************)
EXTENDS Naturals

CONSTANTS Streams, MaxSeq

VARIABLES next,       \* the next sequence number of each stream
          delivered,  \* the numbers handed to the handler
          skipped     \* the numbers declared missing

vars == <<next, delivered, skipped>>

Init == /\ next = [s \in Streams |-> 1]
        /\ delivered = [s \in Streams |-> {}]
        /\ skipped = [s \in Streams |-> {}]

Deliver(s) ==
  /\ delivered' = [delivered EXCEPT ![s] = @ \union {next[s]}]
  /\ next' = [next EXCEPT ![s] = @ + 1]
  /\ UNCHANGED skipped

Skip(s, last) ==
  /\ next[s] <= last
  /\ skipped' = [skipped EXCEPT ![s] = @ \union next[s] .. last]
  /\ next' = [next EXCEPT ![s] = last + 1]
  /\ UNCHANGED delivered

Next == \E s \in Streams : Deliver(s) \/ \E last \in 1 .. MaxSeq : Skip(s, last)

Spec == Init /\ [][Next]_vars
================================================================================
