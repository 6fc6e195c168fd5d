------------------------------- MODULE MCOrderBook -----------------------------
(***************************************************************************)
(* OrderBook for TLC.                                                      *)
(***************************************************************************)
EXTENDS OrderBook, TLC

\* The pool's records are interchangeable, and so are the ids of one bucket and the
\* contracts.
Interchangeable == Permutations(Ptrs) \union Permutations(Ids) \union Permutations(Tokens)

\* Every id in one bucket.
OneBucket == [i \in Ids |-> 0]
================================================================================
