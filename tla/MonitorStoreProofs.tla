------------------------- MODULE MonitorStoreProofs -------------------------
(***************************************************************************)
(* Proofs about MonitorStore: its types, that what is shown as ONLINE is   *)
(* recent, and that a healthy agent is never shown OFFLINE, for any hosts, *)
(* clocks and durations.                                                   *)
(***************************************************************************)
EXTENDS MonitorStore, TLAPS

USE TimeAssumption, LimitAssumption DEF TimeAssumption, LimitAssumption

(* Older never runs ahead of time, and keeps up with it below its bound.   *)
LEMMA OlderBound ==
  ASSUME NEW a \in Nat, NEW max \in Nat, a <= max
  PROVE  /\ Older(a, max) \in 0..max
         /\ Older(a, max) <= a + 1
         /\ a < max => Older(a, max) = a + 1
  BY DEF Older

-----------------------------------------------------------------------------
(* Types *)

LEMMA InitType == Init => TypeOK
  BY DEF Init, TypeOK, Age, Oldest, Never, Round

LEMMA AgentType ==
  ASSUME TypeOK, NEW h \in Hosts, AgentNext(h)
  PROVE  TypeOK'
<1> USE DEF TypeOK, Age, Enter
<1>1. CASE AgentStarts(h)  BY <1>1 DEF AgentStarts, storeVars, Round
<1>2. CASE AgentStops(h)
  <2>1. late' \subseteq Hosts \X Age  BY <1>2 DEF AgentStops
  <2> QED  BY <2>1, <1>2 DEF AgentStops, storeVars
<1>3. CASE Collected(h)
  <2>1. 0 \in Age  BY DEF Oldest
  <2> QED  BY <2>1, <1>3 DEF Collected, storeVars
<1>4. CASE Accepted(h)
  <2>1. /\ collected' = [collected EXCEPT ![h] = sampled[h]]
        /\ received' = [received EXCEPT ![h] = 0]
    BY <1>4 DEF Accepted, Update
  <2>2. sampled[h] # Never  BY DEF Never, Oldest
  <2>3. 0 # Never /\ 0 \in 0..(StaleAfter + 1)  BY DEF Never, Oldest
  <2>4. \A g \in Hosts : collected'[g] = Never <=> received'[g] = Never
    BY <2>1, <2>2, <2>3
  <2> QED  BY <2>1, <2>3, <2>4, <1>4 DEF Accepted
<1>5. CASE Failed(h)
  <2>1. late' \subseteq Hosts \X Age  BY <1>5 DEF Failed
  <2> QED  BY <2>1, <1>5 DEF Failed, storeVars
<1>6. CASE NextRound(h)  BY <1>6 DEF NextRound, storeVars, Round
<1> QED  BY <1>1, <1>2, <1>3, <1>4, <1>5, <1>6 DEF AgentNext

LEMMA LateType ==
  ASSUME TypeOK, NEW h \in Hosts, NEW age \in Age, LateArrives(h, age)
  PROVE  TypeOK'
<1> USE DEF TypeOK
<1>1. CASE UNCHANGED <<collected, received>>
  BY <1>1 DEF LateArrives, agentVars
<1>2. CASE Update(h, age)
  <2>1. age # Never /\ 0 # Never /\ 0 \in 0..(StaleAfter + 1)
    BY DEF Age, Never, Oldest
  <2>2. \A g \in Hosts : collected'[g] = Never <=> received'[g] = Never
    BY <1>2, <2>1 DEF Update
  <2> QED  BY <1>2, <2>1, <2>2 DEF LateArrives, Update, agentVars
<1> QED  BY <1>1, <1>2 DEF LateArrives

LEMMA TickType == ASSUME TypeOK, Tick PROVE TypeOK'
<1> USE DEF TypeOK, Tick
<1>1. Oldest \in Nat /\ Interval + Round \in Nat /\ StaleAfter + 1 <= Oldest
  BY DEF Oldest, Round
<1>a. ASSUME NEW a \in Age PROVE Older(a, Oldest) \in Age
  <2>1. a \in Nat /\ a <= Oldest  BY DEF Age
  <2> QED  BY <2>1, <1>1, OlderBound DEF Age
<1>b. ASSUME NEW a \in 0..(StaleAfter + 1)
      PROVE  Older(a, StaleAfter + 1) \in 0..(StaleAfter + 1)
  <2>1. a \in Nat /\ StaleAfter + 1 \in Nat /\ a <= StaleAfter + 1  OBVIOUS
  <2> QED  BY <2>1, OlderBound
<1>2. started' \in [Hosts -> 0..(Interval + Round)]
  <2>1. ASSUME NEW h \in Hosts
        PROVE  Older(started[h], Interval + Round) \in 0..(Interval + Round)
    <3>1. started[h] \in Nat /\ started[h] <= Interval + Round  BY <1>1
    <3> QED  BY <3>1, <1>1, OlderBound
  <2> QED  BY <2>1
<1>3. sampled' \in [Hosts -> Age]
  <2>1. \A h \in Hosts : Older(sampled[h], Oldest) \in Age
    BY <1>a
  <2> QED  BY <2>1
<1>4. late' \subseteq Hosts \X Age
  <2>1. \A p \in late : p[1] \in Hosts /\ p[2] \in Age
    OBVIOUS
  <2>2. \A p \in late : Older(p[2], Oldest) \in Age
    BY <2>1, <1>a
  <2> QED  BY <2>1, <2>2
<1>5. \A h \in Hosts :
         IF Registered(h)
           THEN /\ Older(collected[h], Oldest) \in Age
                /\ Older(received[h], StaleAfter + 1) \in 0..(StaleAfter + 1)
           ELSE received[h] = Never /\ collected[h] = Never
  <2> TAKE h \in Hosts
  <2>1. CASE Registered(h)
    <3>1. collected[h] \in Age /\ received[h] \in 0..(StaleAfter + 1)
      BY <2>1 DEF Registered
    <3> QED  BY <3>1, <2>1, <1>a, <1>b
  <2>2. CASE ~Registered(h)  BY <2>2 DEF Registered
  <2> QED  BY <2>1, <2>2
<1>6. Never \notin Age /\ Never \notin 0..(StaleAfter + 1)
  BY <1>1 DEF Age, Never
<1>7. collected' \in [Hosts -> Age \cup {Never}]
  BY <1>5
<1>8. received' \in [Hosts -> 0..(StaleAfter + 1) \cup {Never}]
  BY <1>5
<1>9. \A h \in Hosts : collected'[h] = Never <=> received'[h] = Never
  BY <1>5, <1>6
<1> QED  BY <1>2, <1>3, <1>4, <1>7, <1>8, <1>9

LEMMA NextType == TypeOK /\ [Next]_vars => TypeOK'
<1> SUFFICES ASSUME TypeOK, [Next]_vars PROVE TypeOK'
  OBVIOUS
<1>1. CASE ServerRestart
  BY <1>1 DEF ServerRestart, TypeOK, agentVars
<1>2. CASE UNCHANGED vars
  BY <1>2 DEF vars, agentVars, storeVars, TypeOK
<1> QED  BY <1>1, <1>2, AgentType, LateType, TickType DEF Next

(* Every variable of MonitorStore keeps its type (MonitorStore, push_loop).*)
THEOREM StoreTypes == Spec => []TypeOK
<1> QED  BY InitType, NextType, PTL DEF Spec

-----------------------------------------------------------------------------
(* ONLINE is recent *)

(* The entry's sample is no older than the entry, plus what the window let *)
(* through when it was written.                                            *)
RecentInv ==
  \A h \in Hosts :
    Available(h) => collected[h] <= received[h] + Tolerance + Skew[h]

LEMMA EntryKept ==
  ASSUME RecentInv, UNCHANGED <<collected, received>>
  PROVE  RecentInv'
  BY DEF RecentInv, Available, Registered

LEMMA EntryWritten ==
  ASSUME TypeOK, RecentInv, NEW h \in Hosts, NEW age \in Age,
         Verified(h, age), Update(h, age)
  PROVE  RecentInv'
<1> SUFFICES ASSUME NEW g \in Hosts, Available(g)'
             PROVE  collected'[g] <= received'[g] + Tolerance + Skew[g]
  BY DEF RecentInv
<1>1. CASE g = h
  <2>1. collected'[g] = age /\ received'[g] = 0
    BY <1>1 DEF Update, TypeOK
  <2>2. age <= Tolerance + Skew[h]
    BY DEF Verified, Age, Oldest
  <2> QED  BY <2>1, <2>2, <1>1 DEF Age, Oldest
<1>2. CASE g # h
  BY <1>2 DEF Update, TypeOK, RecentInv, Available, Registered
<1> QED  BY <1>1, <1>2

LEMMA TickRecent == ASSUME TypeOK, RecentInv, Tick PROVE RecentInv'
<1> SUFFICES ASSUME NEW h \in Hosts, Available(h)'
             PROVE  collected'[h] <= received'[h] + Tolerance + Skew[h]
  BY DEF RecentInv
<1>1. Registered(h)
  BY DEF Tick, Available, Registered, TypeOK
<1>2. /\ collected[h] \in Age /\ received[h] \in 0..(StaleAfter + 1)
      /\ Oldest \in Nat
  BY <1>1 DEF Registered, TypeOK, Oldest
<1>3. /\ collected'[h] = Older(collected[h], Oldest)
      /\ received'[h] = Older(received[h], StaleAfter + 1)
  BY <1>1 DEF Tick
<1>4. received'[h] = received[h] + 1 /\ received[h] <= StaleAfter
  BY <1>2, <1>3 DEF Available, Older
<1>5. collected[h] <= received[h] + Tolerance + Skew[h]
  BY <1>1, <1>4 DEF RecentInv, Available
<1>6. collected'[h] \in Nat /\ collected'[h] <= collected[h] + 1
  <2>1. collected[h] \in Nat /\ collected[h] <= Oldest
    BY <1>2 DEF Age
  <2>2. /\ Older(collected[h], Oldest) \in 0..Oldest
        /\ Older(collected[h], Oldest) <= collected[h] + 1
    BY <1>2, <2>1, OlderBound
  <2> QED  BY <1>2, <1>3, <2>2
<1>7. Skew[h] \in Int
  OBVIOUS
<1> QED  BY <1>2, <1>4, <1>5, <1>6, <1>7 DEF Age

LEMMA NextRecent == TypeOK /\ RecentInv /\ [Next]_vars => RecentInv'
<1> SUFFICES ASSUME TypeOK, RecentInv, [Next]_vars PROVE RecentInv'
  OBVIOUS
<1>1. ASSUME NEW h \in Hosts, AgentNext(h) PROVE RecentInv'
  <2>1. CASE Accepted(h)
    <3>1. sampled[h] \in Age  BY DEF TypeOK
    <3> QED  BY <2>1, <3>1, EntryWritten DEF Accepted
  <2>2. CASE ~Accepted(h)
    <3>1. UNCHANGED <<collected, received>>
      BY <1>1, <2>2 DEF AgentNext, AgentStarts, AgentStops, Collected, Failed,
                        NextRound, storeVars
    <3> QED  BY <3>1, EntryKept
  <2> QED  BY <2>1, <2>2
<1>2. ASSUME NEW h \in Hosts, NEW age \in Age, LateArrives(h, age)
      PROVE  RecentInv'
  BY <1>2, EntryWritten, EntryKept DEF LateArrives
<1>3. CASE ServerRestart
  BY <1>3 DEF ServerRestart, RecentInv, Available, Registered
<1>4. CASE UNCHANGED vars
  BY <1>4, EntryKept DEF vars, storeVars
<1> QED  BY <1>1, <1>2, <1>3, <1>4, TickRecent DEF Next

(* A PC shown ONLINE shows numbers that were taken at most StaleAfter and  *)
(* the tolerance of the signature ago (snapshots, verify), whatever pushes *)
(* were delayed or overtaken.                                              *)
THEOREM OnlineIsRecent == Spec => []AvailableIsRecent
<1>1. Init => RecentInv
  BY DEF Init, RecentInv, Available, Registered
<1>2. TypeOK /\ RecentInv => AvailableIsRecent
  <2> SUFFICES ASSUME TypeOK, RecentInv, NEW h \in Hosts, Available(h)
               PROVE  collected[h] <= StaleAfter + Tolerance + Skew[h]
    BY DEF AvailableIsRecent
  <2>1. received[h] \in 0..(StaleAfter + 1) /\ received[h] <= StaleAfter
    BY DEF TypeOK, Available, Registered
  <2>2. collected[h] \in Nat /\ Skew[h] \in Int
    BY DEF TypeOK, Age, Never, Oldest
  <2> QED  BY <2>1, <2>2 DEF RecentInv
<1> QED  BY <1>1, <1>2, NextRecent, StoreTypes, PTL DEF Spec

-----------------------------------------------------------------------------
(* A healthy agent stays ONLINE *)

(* How old the entry of an agent whose pushes succeed may be in each phase *)
(* of its round.                                                           *)
InTime(h) ==
  \/ /\ phase[h] = "collect" /\ started[h] <= Collect
     /\ received[h] <= Interval + started[h]
  \/ /\ phase[h] = "send" /\ sampled[h] <= Timeout
     /\ received[h] <= Interval + Collect + sampled[h]
  \/ /\ phase[h] = "sleep"
     /\ received[h] <= Interval /\ received[h] <= started[h]

HealthyInv == \A h \in Hosts : flawless[h] => Registered(h) /\ InTime(h)

LEMMA AgentHealthy ==
  ASSUME TypeOK, HealthyInv, NEW h \in Hosts, AgentNext(h)
  PROVE  HealthyInv'
<1> SUFFICES ASSUME NEW g \in Hosts, flawless'[g]
             PROVE  (Registered(g) /\ InTime(g))'
  BY DEF HealthyInv
<1>1. CASE g # h
  <2>1. /\ phase'[g] = phase[g] /\ started'[g] = started[g]
        /\ sampled'[g] = sampled[g] /\ received'[g] = received[g]
        /\ flawless'[g] = flawless[g]
    BY <1>1 DEF AgentNext, AgentStarts, AgentStops, Collected, Accepted, Failed,
                NextRound, Update, Enter, storeVars, TypeOK
  <2> QED  BY <2>1 DEF HealthyInv, InTime, Registered
<1>2. CASE g = h
  <2> USE <1>2 DEF TypeOK, Enter, Registered
  <2>1. CASE AgentStarts(h)
    <3>1. flawless[h] /\ phase[h] = "off"  BY <2>1 DEF AgentStarts
    <3> QED  BY <3>1 DEF HealthyInv, InTime
  <2>2. CASE AgentStops(h) \/ Failed(h)
    BY <2>2 DEF AgentStops, Failed
  <2>3. CASE Collected(h)
    <3>1. /\ flawless[h] /\ phase[h] = "collect" /\ phase'[h] = "send"
          /\ sampled'[h] = 0 /\ received'[h] = received[h]
      BY <2>3 DEF Collected, storeVars
    <3>2. /\ received[h] # Never /\ started[h] <= Collect
          /\ received[h] <= Interval + started[h]
      BY <3>1 DEF HealthyInv, InTime
    <3>3. received[h] \in Nat /\ started[h] \in Nat
      BY <3>2
    <3> QED  BY <3>1, <3>2, <3>3 DEF InTime
  <2>4. CASE Accepted(h)
    <3>1. received'[h] = 0 /\ phase'[h] = "sleep" /\ started'[h] = started[h]
      BY <2>4 DEF Accepted, Update
    <3>2. 0 # Never  BY DEF Never, Oldest
    <3> QED  BY <3>1, <3>2 DEF InTime
  <2>5. CASE NextRound(h)
    <3>1. /\ flawless[h] /\ phase[h] = "sleep" /\ phase'[h] = "collect"
          /\ started'[h] = 0 /\ received'[h] = received[h]
      BY <2>5 DEF NextRound, storeVars
    <3>2. received[h] # Never /\ received[h] <= Interval
      BY <3>1 DEF HealthyInv, InTime
    <3> QED  BY <3>1, <3>2 DEF InTime
  <2> QED  BY <2>1, <2>2, <2>3, <2>4, <2>5 DEF AgentNext
<1> QED  BY <1>1, <1>2

(* A late push only makes an entry younger. *)
LEMMA LateHealthy ==
  ASSUME TypeOK, HealthyInv, NEW h \in Hosts, NEW age \in Age, LateArrives(h, age)
  PROVE  HealthyInv'
<1> SUFFICES ASSUME NEW g \in Hosts, flawless'[g]
             PROVE  (Registered(g) /\ InTime(g))'
  BY DEF HealthyInv
<1>1. Registered(g) /\ InTime(g)
  BY DEF HealthyInv, LateArrives
<1>2. received[g] \in Nat /\ started[g] \in Nat /\ sampled[g] \in Nat
  BY <1>1 DEF TypeOK, Registered, Age
<1>3. 0 # Never  BY DEF Never, Oldest
<1>4. UNCHANGED <<phase, started, sampled>>
  BY DEF LateArrives, agentVars
<1>5. received'[g] \in {0, received[g]}
  BY DEF LateArrives, Update, TypeOK
<1> QED  BY <1>1, <1>2, <1>3, <1>4, <1>5 DEF Registered, InTime

(* No push, no sleep and no collection that counts overruns its deadline,  *)
(* so the entry's age stays within it.                                     *)
LEMMA TickHealthy == ASSUME TypeOK, HealthyInv, Tick PROVE HealthyInv'
<1> SUFFICES ASSUME NEW h \in Hosts, flawless'[h]
             PROVE  (Registered(h) /\ InTime(h))'
  BY DEF HealthyInv
<1>1. Registered(h) /\ InTime(h) /\ ~Slow(h)
  BY DEF HealthyInv, Tick
<1>2. /\ received[h] \in 0..(StaleAfter + 1) /\ sampled[h] \in 0..Oldest
      /\ started[h] \in 0..(Interval + Round)
  BY <1>1 DEF TypeOK, Registered, Age
<1>3. /\ Oldest \in Nat /\ Interval + Round \in Nat /\ Timeout \in Nat
      /\ StaleAfter + 1 <= Oldest
  BY DEF Oldest, Round
<1>4. received'[h] = Older(received[h], StaleAfter + 1) /\ phase'[h] = phase[h]
  BY <1>1 DEF Tick
<1>5. received'[h] \in 0..(StaleAfter + 1) /\ received'[h] <= received[h] + 1
  <2>1. /\ received[h] \in Nat /\ StaleAfter + 1 \in Nat
        /\ received[h] <= StaleAfter + 1
    BY <1>2
  <2>2. /\ Older(received[h], StaleAfter + 1) \in 0..(StaleAfter + 1)
        /\ Older(received[h], StaleAfter + 1) <= received[h] + 1
    BY <2>1, OlderBound
  <2> QED  BY <2>2, <1>4
<1>6. Registered(h)'
  BY <1>5 DEF Registered, Never, Oldest
<1>7. ~Urgent(h)
  BY DEF Tick
<1>8. CASE phase[h] = "collect"
  <2>1. started[h] < Collect
    BY <1>1, <1>8, <1>2 DEF Slow
  <2>2. started'[h] = started[h] + 1
    BY <2>1, <1>2, <1>8 DEF Tick, Older, Round
  <2>3. received[h] <= Interval + started[h]
    BY <1>1, <1>8 DEF InTime
  <2> QED  BY <2>1, <2>2, <2>3, <1>2, <1>4, <1>5, <1>6, <1>8 DEF InTime
<1>9. CASE phase[h] = "send"
  <2>1. sampled[h] < Timeout /\ sampled[h] <= Oldest
    BY <1>7, <1>9, <1>2, <1>3 DEF Urgent
  <2>2. received[h] <= Interval + Collect + sampled[h]
    BY <1>1, <1>9 DEF InTime
  <2>3. sampled'[h] = IF sampled[h] < Oldest THEN sampled[h] + 1 ELSE Oldest
    BY DEF Tick, Older
  <2>4. CASE sampled[h] < Oldest
    BY <2>1, <2>2, <2>3, <2>4, <1>2, <1>4, <1>5, <1>6, <1>9 DEF InTime
  <2>5. CASE sampled[h] = Oldest
    BY <2>1, <2>3, <2>5, <1>2, <1>3, <1>4, <1>5, <1>6, <1>9 DEF InTime
  <2> QED  BY <2>1, <2>4, <2>5, <1>2, <1>3
<1>10. CASE phase[h] = "sleep"
  <2>1. started[h] < Interval
    BY <1>7, <1>10, <1>2 DEF Urgent, WakesAt
  <2>2. started'[h] = started[h] + 1
    BY <2>1, <1>2, <1>10 DEF Tick, Older, Round
  <2>3. received[h] <= started[h]
    BY <1>1, <1>10 DEF InTime
  <2> QED  BY <2>1, <2>2, <2>3, <1>2, <1>4, <1>5, <1>6, <1>10 DEF InTime
<1> QED  BY <1>1, <1>8, <1>9, <1>10 DEF InTime

LEMMA NextHealthy == TypeOK /\ HealthyInv /\ [Next]_vars => HealthyInv'
<1> SUFFICES ASSUME TypeOK, HealthyInv, [Next]_vars PROVE HealthyInv'
  OBVIOUS
<1>1. CASE ServerRestart
  BY <1>1 DEF ServerRestart, HealthyInv
<1>2. CASE UNCHANGED vars
  BY <1>2 DEF vars, agentVars, storeVars, HealthyInv, InTime, Registered
<1> QED  BY <1>1, <1>2, AgentHealthy, LateHealthy, TickHealthy DEF Next

(* When the interval, a collection and the client's time-out together are  *)
(* no longer than the 12 s of the store, a PC none of whose pushes fails   *)
(* and none of whose collections takes longer is never shown OFFLINE       *)
(* (push_loop, snapshots).                                                 *)
THEOREM HealthyStaysOnline ==
  ASSUME Interval + Collect + Timeout <= StaleAfter
  PROVE  Spec => []HealthyOnline
<1>1. Init => HealthyInv
  BY DEF Init, HealthyInv
<1>2. TypeOK /\ HealthyInv => HealthyOnline
  <2> SUFFICES ASSUME TypeOK, HealthyInv, NEW h \in Hosts, flawless[h]
               PROVE  Available(h)
    BY DEF HealthyOnline
  <2>1. Registered(h) /\ InTime(h)
    BY DEF HealthyInv
  <2>2. received[h] \in Nat /\ started[h] \in Nat /\ sampled[h] \in Nat
    BY <2>1 DEF TypeOK, Registered, Age
  <2> QED  BY <2>1, <2>2 DEF InTime, Available
<1> QED  BY <1>1, <1>2, NextHealthy, StoreTypes, PTL DEF Spec
=============================================================================
