------------------------------- MODULE MCContract -------------------------------
EXTENDS Contract

\* Three ids share a bucket of two slots, one has a bucket to itself.
MCBucket == [i \in Ids |-> IF i = 4 THEN 2 ELSE 1]
================================================================================
