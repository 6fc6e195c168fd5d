---------------------------- MODULE MCSequenceMerger ---------------------------
(***************************************************************************)
(* SequenceMerger for TLC: which queues carry which streams.               *)
(***************************************************************************)
EXTENDS SequenceMerger

\* Production: receiver i reads stream i and owns queue i.
OwnQueue == {<<s, s>> : s \in Streams}

\* Stream 1 is split over two queues, and shares one of them with stream 2.
SplitAndShared == {<<1, 1>>, <<2, 1>>, <<2, 2>>}
================================================================================
