------------------------------ MODULE BoundedFIFO ------------------------------
(***************************************************************************)
(* What core.SPSCRingBuffer promises to the receiver (its producer) and to  *)
(* the sequence merger (its consumer): a first-in first-out queue of at     *)
(* most Capacity messages whose operations take effect in one step.        *)
(***************************************************************************)
EXTENDS Naturals, Sequences

CONSTANTS Items,     \* the messages that are enqueued
          NoItem,    \* the nil of Dequeue and Peek
          Capacity   \* the number of slots

VARIABLES queue,     \* the messages accepted and not yet dequeued, oldest first
          arg,       \* the argument of the Enqueue in progress, or NoItem
          accepted,  \* what the last Enqueue returned
          taken      \* what the last Dequeue or Peek returned

vars == <<queue, arg, accepted, taken>>

Init == /\ queue = << >>
        /\ arg = NoItem
        /\ accepted = FALSE
        /\ taken = NoItem

\* The producer calls Enqueue(x).
Call(x) == /\ arg = NoItem
           /\ arg' = x
           /\ UNCHANGED <<queue, accepted, taken>>

\* The message goes to the end of a queue that has room, and only then.
Accept == /\ arg # NoItem
          /\ Len(queue) < Capacity
          /\ queue' = Append(queue, arg)
          /\ arg' = NoItem
          /\ accepted' = TRUE
          /\ UNCHANGED taken

\* Enqueue returns false, and only when the queue is full.
Refuse == /\ arg # NoItem
          /\ Len(queue) = Capacity
          /\ arg' = NoItem
          /\ accepted' = FALSE
          /\ UNCHANGED <<queue, taken>>

\* Dequeue removes the oldest message.
Take == /\ queue # << >>
        /\ taken' = Head(queue)
        /\ queue' = Tail(queue)
        /\ UNCHANGED <<arg, accepted>>

\* Peek returns the oldest message and leaves it where it is.
Look == /\ queue # << >>
        /\ taken' = Head(queue)
        /\ UNCHANGED <<queue, arg, accepted>>

\* Dequeue and Peek return nil, and only when the queue is empty.
Nothing == /\ queue = << >>
           /\ taken' = NoItem
           /\ UNCHANGED <<queue, arg, accepted>>

\* Reset, called by nobody else's side.
Clear == /\ arg = NoItem
         /\ queue' = << >>
         /\ UNCHANGED <<arg, accepted, taken>>

Next == \/ \E x \in Items : Call(x)
        \/ Accept
        \/ Refuse
        \/ Take
        \/ Look
        \/ Nothing
        \/ Clear

Spec == Init /\ [][Next]_vars
================================================================================
