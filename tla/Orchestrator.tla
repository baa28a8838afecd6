---------------------------- MODULE Orchestrator ----------------------------
(***************************************************************************)
(* The in-memory presence table of the agents (crates/orchestrator): a     *)
(* DashMap shared by the gRPC handlers, which record contacts, and by the  *)
(* heartbeat monitor, which marks silent agents offline.                   *)
(*                                                                         *)
(* DashMap locks one shard at a time, so the monitor's iteration reads the *)
(* entries one by one, and marks them one by one afterwards, with handlers *)
(* running in between.  Time is a grid of one-second ticks; what the code  *)
(* compares is the age of last_seen, and ages above Timeout are alike.     *)
(***************************************************************************)
EXTENDS Naturals

CONSTANTS
    Agents,     \* agent UUIDs
    Timeout,    \* agent_offline_timeout_secs
    Hashes,     \* policy bundle hashes
    None        \* no entry, no hash

ASSUME TimeoutAssumption == Timeout \in Nat

MaxAge == Timeout + 1
CheckInterval == Timeout \div 2     \* di.rs:79

Entries == [age : 0..MaxAge, hash : Hashes \cup {None}, status : {"online", "offline"}]

ASSUME NoneAssumption == None \notin Entries /\ None \notin Hashes

VARIABLES
    agents,     \* the DashMap: id -> entry
    monitor,    \* where the monitor task is
    left,       \* entries the running stale_agents() has yet to visit
    stale,      \* the ids it collected
    phase, due, \* the interval: seconds since its last deadline; tick pending
    shutdown    \* the value of the watch channel

vars == <<agents, monitor, left, stale, phase, due, shutdown>>
monitorVars == <<monitor, left, stale>>
clockVars == <<phase, due>>

Known(a) == agents[a] # None
Overdue(a) == Known(a) /\ agents[a].age > Timeout
Online(a) == Known(a) /\ agents[a].status = "online"
Offline(a) == Known(a) /\ agents[a].status = "offline"

TypeOK ==
    /\ agents \in [Agents -> Entries \cup {None}]
    /\ monitor \in {"waiting", "scanning", "marking", "stopped", "panicked"}
    /\ left \subseteq Agents
    /\ stale \subseteq Agents
    /\ phase \in Nat
    /\ CheckInterval > 0 => phase < CheckInterval
    /\ due \in BOOLEAN
    /\ shutdown \in BOOLEAN
    /\ left # {} => monitor = "scanning"
    /\ stale # {} => monitor \in {"scanning", "marking"}

(* The state of a process that has just built its AppState.  The first tick*)
(* of a tokio interval is immediate, and an interval of zero panics.       *)
Started ==
    [map |-> [a \in Agents |-> None],
     monitor |-> IF CheckInterval = 0 THEN "panicked" ELSE "waiting"]

Init ==
    /\ agents = Started.map
    /\ monitor = Started.monitor
    /\ left = {} /\ stale = {}
    /\ phase = 0 /\ due = TRUE
    /\ shutdown = FALSE

-----------------------------------------------------------------------------
(* The gRPC handlers: every operation of Orchestrator that changes the map.*)

UpdateHeartbeat(a) ==
    /\ agents' = [agents EXCEPT ![a] =
         [age |-> 0, hash |-> IF Known(a) THEN agents[a].hash ELSE None,
          status |-> "online"]]
    /\ UNCHANGED <<monitorVars, clockVars, shutdown>>

UpdatePolicyHash(a, h) ==
    /\ Known(a)
    /\ agents' = [agents EXCEPT ![a].hash = h]
    /\ UNCHANGED <<monitorVars, clockVars, shutdown>>

RemoveAgent(a) ==
    /\ Known(a)
    /\ agents' = [agents EXCEPT ![a] = None]
    /\ UNCHANGED <<monitorVars, clockVars, shutdown>>

-----------------------------------------------------------------------------
(* The monitor task.  Missed ticks are skipped: one is pending at most.    *)

StartCheck ==
    /\ monitor = "waiting" /\ due
    /\ monitor' = "scanning"
    /\ left' = {a \in Agents : Known(a)}
    /\ stale' = {}
    /\ due' = FALSE
    /\ UNCHANGED <<agents, phase, shutdown>>

(* Fault: the comparison with the timeout is off by one.                    *)
ScanEntryEarly(a) ==
    /\ monitor = "scanning" /\ a \in left
    /\ left' = left \ {a}
    /\ stale' = IF Online(a) /\ agents[a].age >= Timeout THEN stale \cup {a} ELSE stale
    /\ UNCHANGED <<agents, monitor, clockVars, shutdown>>

(* stale_agents() looks at one entry (an entry removed since is skipped).  *)
ScanEntry(a) ==
    /\ monitor = "scanning" /\ a \in left
    /\ left' = left \ {a}
    /\ stale' = IF Online(a) /\ Overdue(a) THEN stale \cup {a} ELSE stale
    /\ UNCHANGED <<agents, monitor, clockVars, shutdown>>

(* Fault: marking begins while entries are still to be visited.             *)
EndScanEarly ==
    /\ monitor = "scanning"
    /\ monitor' = "marking"
    /\ UNCHANGED <<agents, left, stale, clockVars, shutdown>>

EndScan ==
    /\ monitor = "scanning" /\ left = {}
    /\ monitor' = "marking"
    /\ UNCHANGED <<agents, left, stale, clockVars, shutdown>>

(* mark_offline(id): the status is looked at again, the age is not.        *)
MarkOffline(a) ==
    /\ monitor = "marking" /\ a \in stale
    /\ stale' = stale \ {a}
    /\ agents' = IF Known(a) THEN [agents EXCEPT ![a].status = "offline"] ELSE agents
    /\ UNCHANGED <<monitor, left, clockVars, shutdown>>

EndCheck ==
    /\ monitor = "marking" /\ stale = {}
    /\ monitor' = "waiting"
    /\ UNCHANGED <<agents, left, stale, clockVars, shutdown>>

(* Fault: the loop is left on `false`, so `true` only goes round again.     *)
StopMonitorInverted ==
    /\ monitor = "waiting" /\ shutdown
    /\ UNCHANGED vars

StopMonitor ==
    /\ monitor = "waiting" /\ shutdown
    /\ monitor' = "stopped"
    /\ UNCHANGED <<agents, left, stale, clockVars, shutdown>>

-----------------------------------------------------------------------------
(* The clock and the process.                                              *)

Older(e) == [e EXCEPT !.age = IF @ < MaxAge THEN @ + 1 ELSE @]

(* Fault: the timer fires once instead of periodically.                     *)
TickOnce ==
    /\ agents' = [a \in Agents |-> IF Known(a) THEN Older(agents[a]) ELSE None]
    /\ phase' = IF phase + 1 < CheckInterval THEN phase + 1 ELSE 0
    /\ UNCHANGED <<monitorVars, due, shutdown>>

Tick ==
    /\ agents' = [a \in Agents |-> IF Known(a) THEN Older(agents[a]) ELSE None]
    /\ phase' = IF phase + 1 < CheckInterval THEN phase + 1 ELSE 0
    /\ due' = (due \/ phase' = 0)
    /\ UNCHANGED <<monitorVars, shutdown>>

Shutdown ==
    /\ ~shutdown
    /\ shutdown' = TRUE
    /\ UNCHANGED <<agents, monitorVars, clockVars>>

(* The process ends, by a crash or after its shutdown, and starts again.   *)
Restart ==
    /\ agents' = Started.map
    /\ monitor' = Started.monitor
    /\ left' = {} /\ stale' = {}
    /\ phase' = 0 /\ due' = TRUE
    /\ shutdown' = FALSE

Handler(a) ==
    \/ UpdateHeartbeat(a) \/ RemoveAgent(a)
    \/ \E h \in Hashes : UpdatePolicyHash(a, h)

MonitorStep ==
    \/ StartCheck \/ EndScan \/ EndCheck
    \/ \E a \in Agents : ScanEntry(a) \/ MarkOffline(a)

Next ==
    \/ \E a \in Agents : Handler(a)
    \/ MonitorStep \/ StopMonitor
    \/ Tick \/ Shutdown \/ Restart

Spec == Init /\ [][Next]_vars

(* The runtime runs the monitor task while it has something to do, and time*)
(* passes.  `select!` polls its branches in random order, so the stop      *)
(* branch is taken eventually if it is ready at every other iteration.     *)
Fairness == WF_vars(Tick) /\ WF_vars(MonitorStep) /\ SF_vars(StopMonitor)

FairSpec == Spec /\ Fairness

-----------------------------------------------------------------------------
(* What the module promises.                                               *)

(* An agent that is online and on no list of the monitor stays online as   *)
(* long as it is never silent for longer than the timeout, whatever the    *)
(* monitor has read and whenever it marks, across removals, restarts and   *)
(* earlier silences (heartbeat.rs:74-96).                                  *)
PunctualNeverOffline ==
    \A a \in Agents :
        [](~Offline(a) /\ a \notin stale /\ []~Overdue(a) => []~Offline(a))

(* An agent that stays silent is marked offline, unless it makes contact   *)
(* again, is removed, or the server is shut down or restarted first.       *)
SilentGoesOffline ==
    \A a \in Agents :
        (Online(a) /\ Overdue(a)) ~> (~(Online(a) /\ Overdue(a)) \/ shutdown)

(* A monitor told to stop stops, even in the middle of a check             *)
(* (heartbeat.rs:155-168).                                                 *)
ShutdownStopsMonitor ==
    shutdown ~> (monitor = "stopped" \/ ~shutdown)
=============================================================================
