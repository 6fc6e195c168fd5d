---------------------------- MODULE OrderbookSystem ----------------------------
(***************************************************************************)
(* main.OrderbookSystem with the goroutines of MessageHandler: start-up,   *)
(* shutdown, and what runs in between.  One goroutine, the owner, calls    *)
(* Start and Stop in any order, as the interface allows: the second Start  *)
(* may follow a failed one, or a Stop.  main calls Start once, then Stop.  *)
(* Every successful Start begins a processing goroutine, numbered in       *)
(* order; main begins one monitor.                                         *)
(*                                                                         *)
(* The merger is a module of its own (SequenceMerger): here GetNextMessage *)
(* takes the front of some queue.                                          *)
(***************************************************************************)
EXTENDS StreamManager

VARIABLES sysRunning,      \* OrderbookSystem.running
          handlerRunning,  \* MessageHandler.running, 0 or 1
          owner,           \* where the owner is in Start or Stop
          starts,          \* calls of Start so far
          systems,         \* calls of Start that succeeded
          worker,          \* where each processLoop is
          monitor          \* where the goroutine of RunMetricsMonitor is

goroutines == <<systems, worker, monitor>>
system == <<sysRunning, handlerRunning, owner, starts>>
vars == <<receivers, manager, system, goroutines>>

Init ==
  /\ ReceiversInit /\ ManagerInit
  /\ sysRunning = FALSE /\ handlerRunning = 0
  /\ owner = "idle" /\ starts = 0 /\ systems = 0
  /\ worker = [g \in Loops |-> "none"]
  /\ monitor = "none"
--------------------------------------------------------------------------------
(* Start and Stop of the system. *)

OwnerGoes(from, to) == owner = from /\ owner' = to

\* Start, up to the manager's lock.
StartSystem ==
  /\ starts < MaxStarts
  /\ OwnerGoes("idle", "starting")
  /\ StartEnter
  /\ starts' = starts + 1
  /\ UNCHANGED <<sysRunning, handlerRunning, goroutines>>

\* The manager's Start or Stop proceeds.
InManager ==
  /\ owner \in {"starting", "stopping"}
  /\ ManagerProceeds
  /\ UNCHANGED <<system, goroutines>>

\* A manager that did not start ends Start with its error.
StartFailed ==
  /\ call = "none" /\ result = "error"
  /\ OwnerGoes("starting", "idle")
  /\ Returned
  /\ UNCHANGED <<receivers, sysRunning, handlerRunning, starts, goroutines>>

\* MessageHandler.Start on the manager's queues, and, in main, the monitor.  The
\* handler's flag is 0 here: whenever the manager did not run, neither did it.
StartHandler ==
  /\ call = "none" /\ result = "ok"
  /\ OwnerGoes("starting", "idle")
  /\ Returned
  /\ handlerRunning = 0 /\ handlerRunning' = 1
  /\ sysRunning' = TRUE
  /\ systems' = systems + 1
  /\ worker' = [worker EXCEPT ![systems + 1] = "test"]
  /\ monitor' = IF monitor = "none" THEN "test" ELSE monitor
  /\ UNCHANGED <<receivers, starts>>

\* Mutant: shutdown forgets the message handler.
StopWithoutHandler ==
  /\ OwnerGoes("idle", "stop manager")
  /\ sysRunning' = FALSE
  /\ UNCHANGED <<receivers, manager, handlerRunning, starts, goroutines>>

\* Stop clears the system's flag and the handler's, which nobody reads both, and
\* waits for nobody.
StopSystem ==
  /\ OwnerGoes("idle", "stop manager")
  /\ sysRunning' = FALSE /\ handlerRunning' = 0
  /\ UNCHANGED <<receivers, manager, starts, goroutines>>

StopManager ==
  /\ OwnerGoes("stop manager", "stopping")
  /\ StopEnter
  /\ UNCHANGED <<sysRunning, handlerRunning, starts, goroutines>>

StopReturned ==
  /\ call = "none"
  /\ OwnerGoes("stopping", "idle")
  /\ UNCHANGED <<receivers, manager, sysRunning, handlerRunning, starts, goroutines>>

\* The steps of a call of Start or Stop.
OwnerProceeds ==
  InManager \/ StartFailed \/ StartHandler \/ StopManager \/ StopReturned
--------------------------------------------------------------------------------
(* processLoop. *)

\* The cases of ProcessMessage.
HandledTypes == {"N", "M", "X", "T", "C", "G", "H", "J", "Z"}

WorkerTest(g) ==
  /\ worker[g] = "test"
  /\ worker' = [worker EXCEPT ![g] = IF handlerRunning = 1 THEN "next" ELSE "ended"]
  /\ UNCHANGED <<receivers, manager, system, systems, monitor>>

\* GetNextMessage finds nothing in a queue, or takes a message, which is processed.
WorkerNext(g) ==
  /\ worker[g] = "next"
  /\ worker' = [worker EXCEPT ![g] = "test"]
  /\ \/ (\A r \in Receivers : queue[r] = << >>) /\ UNCHANGED queue
     \/ \E r \in Receivers : queue[r] # << >> /\ queue' = [queue EXCEPT ![r] = Tail(@)]
  /\ UNCHANGED <<socket, loop, packet, arrived, counters, manager, system, systems, monitor>>

processLoop(g) == WorkerTest(g) \/ WorkerNext(g)
--------------------------------------------------------------------------------
(* RunMetricsMonitor: every tick, GetMetrics reads the receivers' counters. *)

MonitorGoes(from, to) ==
  /\ monitor = from /\ monitor' = to
  /\ UNCHANGED <<receivers, system, systems, worker>>

MonitorTest ==
  /\ MonitorGoes("test", IF sysRunning THEN "tick" ELSE "ended")
  /\ UNCHANGED manager

\* After the tick; the report is made even if the system stopped meanwhile.
MonitorLock == MonitorGoes("tick", "collect") /\ ReadLock

\* Mutant: the next report follows at once, and the lock is never left.
MonitorKeepsLock == MonitorGoes("collect", "tick") /\ UNCHANGED manager

MonitorReport == MonitorGoes("collect", "test") /\ ReadUnlock

RunMetricsMonitor == MonitorTest \/ MonitorLock \/ MonitorReport
--------------------------------------------------------------------------------
Next ==
  \/ StartSystem \/ StopSystem \/ OwnerProceeds
  \/ \E r \in Receivers, g \in Loops :
       receiveLoop(r, g) /\ UNCHANGED <<manager, system, goroutines>>
  \/ \E g \in Loops : processLoop(g)
  \/ RunMetricsMonitor

Spec == Init /\ [][Next]_vars

\* Goroutines run when they can: receivers and workers are locked to threads of
\* their own, the ticker ticks, a call of Start or Stop goes on.  Nothing is
\* assumed of the network, nor that anybody calls Start or Stop.
Fairness ==
  /\ \A r \in Receivers, g \in Loops :
       WF_vars(LoopProceeds(r, g) /\ UNCHANGED <<manager, system, goroutines>>)
  /\ \A g \in Loops : WF_vars(processLoop(g))
  /\ WF_vars(RunMetricsMonitor)
  /\ WF_vars(OwnerProceeds)

FairSpec == Spec /\ Fairness

\* A stream that is never silent for long: the exchange sends heartbeats when it
\* has no data, and any packet ends a read.
Heartbeats ==
  \A r \in Receivers, g \in Loops :
    WF_vars(ReadEnds(r, g) /\ UNCHANGED <<manager, system, goroutines>>)

LiveFeedSpec == FairSpec /\ Heartbeats
--------------------------------------------------------------------------------
(* Properties. *)

TypeOK ==
  /\ ReceiversTypeOK /\ ManagerTypeOK
  /\ sysRunning \in BOOLEAN /\ handlerRunning \in {0, 1}
  /\ owner \in {"idle", "starting", "stop manager", "stopping"}
  /\ starts \in 0 .. MaxStarts /\ systems \in 0 .. MaxStarts
  /\ worker \in [Loops -> {"none", "test", "next", "ended"}]
  /\ monitor \in {"none", "test", "tick", "collect", "ended"}

\* As main uses the system: one Start.
FirstStart == starts <= 1

\* All receivers run or none does, between two calls: in a manager that runs
\* every receiver has a goroutine and its flag set, and in one that does not no
\* goroutine can go on, whichever receiver failed to start.  The second half is
\* for the first Start only: a second one sets flags that goroutines of the
\* first may still see.
AllOrNone ==
  call = "none" =>
    IF smRunning
    THEN \A r \in Receivers : running[r] = 1 /\ \E g \in Loops : Alive(r, g)
    ELSE FirstStart => \A r \in Receivers, g \in Loops :
                         Alive(r, g) => running[r] = 0 /\ ~open[r]

\* Stop terminates packet reception: between two calls, no packet is received by
\* a manager that does not run.
NoReceptionAfterStop ==
  [][call = "none" /\ ~smRunning => UNCHANGED received]_vars

\* Calls of Start and Stop return: they wait for monitors at most.
CallsReturn == owner # "idle" ~> owner = "idle"

\* After a stop, or a start that failed, every goroutine of every receiver ends.
LoopsEnd ==
  (call = "none" /\ ~smRunning) ~>
    \/ \A r \in Receivers, g \in Loops : ~Alive(r, g)
    \/ call # "none" \/ ~FirstStart

\* A stop ends the handler's goroutines and the monitor, unless a start follows.
SystemEnds ==
  owner = "stop manager" ~>
    \/ monitor \in {"none", "ended"} /\ \A g \in Loops : worker[g] \in {"none", "ended"}
    \/ owner = "starting"

\* A manager that runs receives: Start begins packet reception.  It does not
\* when the manager was stopped before, for then the sockets are closed.
RunningReceives ==
  call = "none" /\ smRunning => \A r \in Receivers : open[r]

\* What parsePacket refuses is nothing that the handler would apply.
RefusesOnlyUnhandled ==
  [][\A r \in Receivers, g \in Loops :
       Refuse(r, g) => packet[r][g] \notin HandledTypes]_vars
================================================================================
