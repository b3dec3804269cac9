---------------------------- MODULE MonitorStore ----------------------------
(***************************************************************************)
(* PC metrics: the push loop of each agent, the signature window of        *)
(* POST /api/system and the store whose entries become OFFLINE.            *)
(*                                                                         *)
(*   rust/src/monitor.rs     push_loop, MonitorStore                       *)
(*   rust/src/server.rs      api_system                                    *)
(*   rust/src/signature.rs   verify                                        *)
(*                                                                         *)
(* Time is discrete; an age counts the ticks since something happened and  *)
(* stays at its bound once it is older than anyone asks.  A push takes no  *)
(* longer than the time-out of its client, and a loop that need not wait   *)
(* goes on at once.  Nothing bounds a collection: the programs it asks may *)
(* be slow.  A push that the agent has given up on may still be on its     *)
(* way, and arrive after a later one.                                      *)
(***************************************************************************)
EXTENDS Integers, FiniteSets

CONSTANTS
  Hosts,
  Skew,         \* the clock of an agent, relative to the server's
  MaxSkew,      \* no clock is off by more
  Interval,     \* --interval-seconds
  Collect,      \* what a collection takes, if it is not slow
  Timeout,      \* of the agent's HTTP client
  StaleAfter,   \* AppState::new
  Tolerance,    \* TOLERANCE_SECONDS
  MaxLate,      \* bound: pushes on their way without an agent
  MaxRestarts   \* bound: restarts of the server

ASSUME TimeAssumption ==
  /\ {MaxSkew, Interval, Collect, Timeout, StaleAfter, Tolerance} \subseteq Nat
  /\ Skew \in [Hosts -> -MaxSkew..MaxSkew]

ASSUME LimitAssumption == MaxLate \in Nat /\ MaxRestarts \in Nat

Oldest == StaleAfter + Tolerance + MaxSkew + 1
Round  == Interval + Collect + Timeout
Age    == 0..Oldest
Never  == Oldest + 1          \* the age of what does not exist

VARIABLES
  phase,      \* each agent: off, collect, send or sleep
  started,    \* ticks since its loop's round began
  sampled,    \* the age of its last sample
  late,       \* pushes on their way that no agent waits for
  collected,  \* the age of the sample in a host's entry
  received,   \* ticks since the entry was written
  restarts,
  flawless    \* history: the agent runs, and since the entry was written no
              \* push of it has failed and no collection was slow

agentVars == <<phase, started, sampled>>
storeVars == <<collected, received, restarts>>
vars == <<agentVars, late, storeVars, flawless>>

Older(a, max) == IF a < max THEN a + 1 ELSE max

TypeOK ==
  /\ phase \in [Hosts -> {"off", "collect", "send", "sleep"}]
  /\ started \in [Hosts -> 0..(Interval + Round)]
  /\ sampled \in [Hosts -> Age]
  /\ late \subseteq Hosts \X Age
  /\ collected \in [Hosts -> Age \cup {Never}]
  /\ received \in [Hosts -> 0..(StaleAfter + 1) \cup {Never}]
  /\ restarts \in 0..MaxRestarts
  /\ flawless \in [Hosts -> BOOLEAN]
  /\ \A h \in Hosts : collected[h] = Never <=> received[h] = Never

Init ==
  /\ phase = [h \in Hosts |-> "off"]
  /\ started = [h \in Hosts |-> 0]
  /\ sampled = [h \in Hosts |-> 0]
  /\ late = {}
  /\ collected = [h \in Hosts |-> Never]
  /\ received = [h \in Hosts |-> Never]
  /\ restarts = 0
  /\ flawless = [h \in Hosts |-> FALSE]

-----------------------------------------------------------------------------
(* The server *)

(* Mutant: without abs(), only timestamps of the future are refused. *)
Verified_OneSided(h, age) == age - Skew[h] >= -Tolerance

(* verify: the timestamp, by the agent's clock, against the server's.      *)
Verified(h, age) == age - Skew[h] \in -Tolerance..Tolerance

Registered(h) == received[h] # Never

(* Mutant: an entry is available for ever. *)
Available_Registered(h) == Registered(h)

(* snapshots: an entry is available until it is older than StaleAfter.     *)
Available(h) == Registered(h) /\ received[h] <= StaleAfter

(* Mutant: an update leaves received_at alone. *)
Update_KeepsTime(h, age) ==
  /\ collected' = [collected EXCEPT ![h] = age]
  /\ UNCHANGED received

(* MonitorStore::update overwrites whatever is there. *)
Update(h, age) ==
  /\ collected' = [collected EXCEPT ![h] = age]
  /\ received' = [received EXCEPT ![h] = 0]

ServerRestart ==
  /\ restarts < MaxRestarts
  /\ restarts' = restarts + 1
  /\ collected' = [h \in Hosts |-> Never]
  /\ received' = [h \in Hosts |-> Never]
  /\ flawless' = [h \in Hosts |-> FALSE]
  /\ UNCHANGED <<agentVars, late>>

-----------------------------------------------------------------------------
(* The agents *)

Enter(h, p) == phase' = [phase EXCEPT ![h] = p]

AgentStarts(h) ==
  /\ phase[h] = "off"
  /\ Enter(h, "collect")
  /\ started' = [started EXCEPT ![h] = 0]
  /\ UNCHANGED <<sampled, late, storeVars, flawless>>

(* The PC is shut down, or its agent is: a push may be on its way.         *)
AgentStops(h) ==
  /\ phase[h] # "off"
  /\ Enter(h, "off")
  /\ flawless' = [flawless EXCEPT ![h] = FALSE]
  /\ late' \in IF phase[h] = "send" THEN {late, late \cup {<<h, sampled[h]>>}}
                                     ELSE {late}
  /\ Cardinality(late') <= MaxLate
  /\ UNCHANGED <<started, sampled, storeVars>>

Collected(h) ==
  /\ phase[h] = "collect"
  /\ Enter(h, "send")
  /\ sampled' = [sampled EXCEPT ![h] = 0]
  /\ UNCHANGED <<started, late, storeVars, flawless>>

(* The push is answered with 204. *)
Accepted(h) ==
  /\ phase[h] = "send" /\ Verified(h, sampled[h])
  /\ Update(h, sampled[h])
  /\ flawless' = [flawless EXCEPT ![h] = TRUE]
  /\ Enter(h, "sleep")
  /\ UNCHANGED <<started, sampled, late, restarts>>

(* It is answered with 401, or not at all: the loop goes on.               *)
Failed(h) ==
  /\ phase[h] = "send"
  /\ flawless' = [flawless EXCEPT ![h] = FALSE]
  /\ late' \in {late, late \cup {<<h, sampled[h]>>}}
  /\ Cardinality(late') <= MaxLate
  /\ Enter(h, "sleep")
  /\ UNCHANGED <<started, sampled, storeVars>>

(* A push nobody waits for arrives, or is lost. *)
LateArrives(h, age) ==
  /\ <<h, age>> \in late
  /\ late' = late \ {<<h, age>>}
  /\ \/ Verified(h, age) /\ Update(h, age)
     \/ UNCHANGED <<collected, received>>
  /\ UNCHANGED <<agentVars, restarts, flawless>>

(* A round takes Interval, or as long as its push. *)
WakesAt == Interval

NextRound(h) ==
  /\ phase[h] = "sleep" /\ started[h] >= WakesAt
  /\ Enter(h, "collect")
  /\ started' = [started EXCEPT ![h] = 0]
  /\ UNCHANGED <<sampled, late, storeVars, flawless>>

-----------------------------------------------------------------------------
(* Time *)

(* Mutant: the client is built without its time-out. *)
Urgent_NoTimeout(h) == phase[h] = "sleep" /\ started[h] >= WakesAt

(* The time-out of the client, and checked_sub of the interval.            *)
Urgent(h) ==
  \/ phase[h] = "send" /\ sampled[h] >= Timeout
  \/ phase[h] = "sleep" /\ started[h] >= WakesAt

(* collect waits for nvidia-smi and PowerShell for as long as they take.   *)
Slow(h) == phase[h] = "collect" /\ started[h] >= Collect

Tick ==
  /\ \A h \in Hosts : ~Urgent(h)
  /\ started' = [h \in Hosts |-> IF phase[h] = "off" THEN started[h]
                                 ELSE Older(started[h], Interval + Round)]
  /\ sampled' = [h \in Hosts |-> Older(sampled[h], Oldest)]
  /\ late' = {<<p[1], Older(p[2], Oldest)>> : p \in late}
  /\ collected' = [h \in Hosts |-> IF Registered(h)
                                     THEN Older(collected[h], Oldest) ELSE Never]
  /\ received' = [h \in Hosts |-> IF Registered(h)
                                    THEN Older(received[h], StaleAfter + 1) ELSE Never]
  /\ flawless' = [h \in Hosts |-> flawless[h] /\ ~Slow(h)]
  /\ UNCHANGED <<phase, restarts>>

AgentNext(h) == \/ AgentStarts(h) \/ AgentStops(h) \/ Collected(h)
                \/ Accepted(h) \/ Failed(h) \/ NextRound(h)

Next ==
  \/ \E h \in Hosts : AgentNext(h) \/ \E age \in Age : LateArrives(h, age)
  \/ ServerRestart
  \/ Tick

(* Time passes, a push ends and a sleep does; a collection may hang.       *)
Fairness ==
  /\ WF_vars(Tick)
  /\ \A h \in Hosts : WF_vars(Accepted(h) \/ Failed(h)) /\ WF_vars(NextRound(h))

Spec == Init /\ [][Next]_vars
FairSpec == Spec /\ Fairness

-----------------------------------------------------------------------------
(* Properties *)

(* A PC shown ONLINE shows numbers that were signed not long ago: not even *)
(* a push that was on its way for long, or overtaken by a later one, makes *)
(* up for more than the signature window and the 12 s of the store.        *)
AvailableIsRecent ==
  \A h \in Hosts : Available(h) => collected[h] <= StaleAfter + Tolerance + Skew[h]

(* While no push of it fails and no collection is slow (longer than        *)
(* Collect, which nothing in collect sees to) a PC is not shown OFFLINE,   *)
(* however the pushes, their time-out and the interval of push_loop fall.  *)
HealthyOnline == \A h \in Hosts : flawless[h] => Available(h)

(* A PC that is off comes to be shown OFFLINE for good (README.md: metrics *)
(* turn OFFLINE when none are received for some time).                     *)
GoesOffline ==
  \A h \in Hosts : <>[](phase[h] = "off") => <>[]~Available(h)
=============================================================================
