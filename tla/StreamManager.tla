----------------------------- MODULE StreamManager -----------------------------
(***************************************************************************)
(* network.StreamManager: starts and stops the receivers one after the     *)
(* other, under a lock that GetMetrics takes for reading.  When a receiver *)
(* fails to start, Start stops those before it and reports an error.       *)
(***************************************************************************)
EXTENDS ReceiverCore

VARIABLES smRunning,  \* StreamManager.running
          call,       \* the call that holds the lock: "start", "undo" or "stop"
          at, last,   \* its loop over the receivers: the next one and the last
          closing,    \* Stop of receiver at: "no", "flag" stored, or socket "closed"
          result,     \* what Start returned, until its caller looks at it
          reading     \* GetMetrics holds the lock for reading

manager == <<smRunning, call, at, last, closing, result, reading>>

\* The caller has looked at the result.
Returned == result' = "none" /\ UNCHANGED <<smRunning, call, at, last, closing, reading>>

ManagerInit ==
  /\ smRunning = FALSE
  /\ call = "none" /\ at = 1 /\ last = N /\ closing = "no"
  /\ result = "none"
  /\ reading = FALSE

\* The lock is free for a writer.
Unlocked == call = "none" /\ ~reading

Enter(c) == call' = c /\ UNCHANGED <<at, last, closing>>
Leave == call' = "none" /\ at' = 1 /\ last' = N /\ UNCHANGED closing

\* Start takes the lock; a manager that runs reports an error.
StartEnter ==
  /\ Unlocked
  /\ IF smRunning THEN result' = "error" /\ UNCHANGED <<call, at, last, closing>>
                  ELSE Enter("start") /\ UNCHANGED result
  /\ UNCHANGED <<smRunning, reading, socket, reception>>

StartReceiver ==
  /\ call = "start" /\ at <= N
  /\ Start(at)
  /\ at' = at + 1
  /\ UNCHANGED <<smRunning, call, last, closing, result, reading>>

\* Mutant: the receivers that run are left running.
GiveUpStart ==
  /\ call = "start" /\ at <= N
  /\ StartFails(at)
  /\ call' = "undo" /\ at' = 1 /\ last' = 0
  /\ UNCHANGED <<smRunning, closing, result, reading>>

\* A receiver that fails to start: the ones before it will be stopped.
StartReceiverFails ==
  /\ call = "start" /\ at <= N
  /\ StartFails(at)
  /\ call' = "undo" /\ at' = 1 /\ last' = at - 1
  /\ UNCHANGED <<smRunning, closing, result, reading>>

StartReturns ==
  /\ call = "start" /\ at = N + 1
  /\ smRunning' = TRUE
  /\ Leave /\ result' = "ok"
  /\ UNCHANGED <<reading, socket, reception>>

\* Stop takes the lock; a manager that does not run has nothing to stop.
StopEnter ==
  /\ Unlocked
  /\ IF smRunning THEN Enter("stop") ELSE UNCHANGED <<call, at, last, closing>>
  /\ UNCHANGED <<smRunning, result, reading, socket, reception>>

StopReceiverFlag ==
  /\ call \in {"undo", "stop"} /\ at <= last /\ closing = "no"
  /\ StopFlag(at)
  /\ closing' = "flag"
  /\ UNCHANGED <<smRunning, call, at, last, result, reading>>

StopReceiverClose ==
  /\ closing = "flag"
  /\ CloseSocket(at)
  /\ closing' = "closed"
  /\ UNCHANGED <<smRunning, call, at, last, result, reading>>

StopReceiverDone ==
  /\ closing = "closed" /\ NoReader(at)
  /\ closing' = "no" /\ at' = at + 1
  /\ UNCHANGED <<smRunning, call, last, result, reading, socket, reception>>

StopReturns ==
  /\ call \in {"undo", "stop"} /\ at = last + 1
  /\ smRunning' = FALSE
  /\ Leave /\ result' = IF call = "undo" THEN "error" ELSE "none"
  /\ UNCHANGED <<reading, socket, reception>>

\* The steps of a call that holds the lock.
ManagerProceeds ==
  \/ StartReceiver \/ StartReceiverFails \/ StartReturns
  \/ StopReceiverFlag \/ StopReceiverClose \/ StopReceiverDone \/ StopReturns

\* GetMetrics takes the lock for reading, and leaves it.
ReadLock ==
  /\ call = "none"
  /\ reading' = TRUE
  /\ UNCHANGED <<smRunning, call, at, last, closing, result>>

ReadUnlock ==
  /\ reading' = FALSE
  /\ UNCHANGED <<smRunning, call, at, last, closing, result>>
--------------------------------------------------------------------------------
(* Properties. *)

ManagerTypeOK ==
  /\ smRunning \in BOOLEAN
  /\ call \in {"none", "start", "undo", "stop"}
  /\ at \in 1 .. N + 1 /\ last \in 0 .. N
  /\ closing \in {"no", "flag", "closed"}
  /\ result \in {"none", "ok", "error"}
  /\ reading \in BOOLEAN
================================================================================
