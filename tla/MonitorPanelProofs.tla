-------------------------- MODULE MonitorPanelProofs --------------------------
(***************************************************************************)
(* Proofs about MonitorPanel, for any PCs, display order and number of     *)
(* polls in flight: its types, that the devices are those of the answer,   *)
(* each once and in display order, and that the panel shows the selected   *)
(* one.                                                                    *)
(***************************************************************************)
EXTENDS MonitorPanel, FiniteSetTheorems, TLAPS

USE HostAssumption DEF HostAssumption

-----------------------------------------------------------------------------
(* Sorting: the ranks of a set of hosts number it from 1 on. *)

(* The comparison is a strict total order, whatever display orders the PCs *)
(* share.                                                                  *)
LEMMA BeforeOrder ==
  ASSUME NEW h \in Hosts, NEW i \in Hosts, NEW j \in Hosts
  PROVE  /\ ~Before(h, h)
         /\ Before(h, i) => ~Before(i, h)
         /\ Before(h, i) /\ Before(i, j) => Before(h, j)
         /\ h # i => Before(h, i) \/ Before(i, h)
<1>1. /\ h \in Int /\ i \in Int /\ j \in Int
      /\ DisplayOrder[h] \in Int /\ DisplayOrder[i] \in Int /\ DisplayOrder[j] \in Int
  OBVIOUS
<1> QED  BY <1>1 DEF Before

Ahead(h, S) == {i \in S : Before(i, h)}

LEMMA RankBounds ==
  ASSUME NEW S \in SUBSET Hosts, NEW h \in S
  PROVE  /\ IsFiniteSet(S) /\ IsFiniteSet(Ahead(h, S))
         /\ Rank(h, S) = Cardinality(Ahead(h, S)) + 1
         /\ Rank(h, S) \in 1..Cardinality(S)
<1>1. IsFiniteSet(S)
  BY FS_Subset
<1>2. IsFiniteSet(S \ {h}) /\ Cardinality(S \ {h}) = Cardinality(S) - 1
  BY <1>1, FS_RemoveElement
<1>3. Ahead(h, S) \in SUBSET (S \ {h})
  BY BeforeOrder DEF Ahead
<1>4. IsFiniteSet(Ahead(h, S)) /\ Cardinality(Ahead(h, S)) <= Cardinality(S) - 1
  BY <1>2, <1>3, FS_Subset
<1>5. Cardinality(Ahead(h, S)) \in Nat /\ Cardinality(S) \in Nat
  BY <1>1, <1>4, FS_CardinalityType
<1>6. Rank(h, S) = Cardinality(Ahead(h, S)) + 1
  BY DEF Rank, Ahead
<1> QED  BY <1>1, <1>4, <1>5, <1>6

LEMMA RankGrows ==
  ASSUME NEW S \in SUBSET Hosts, NEW h \in S, NEW i \in S, Before(h, i)
  PROVE  Rank(h, S) < Rank(i, S)
<1>1. /\ IsFiniteSet(Ahead(h, S)) /\ IsFiniteSet(Ahead(i, S))
      /\ Rank(h, S) = Cardinality(Ahead(h, S)) + 1
      /\ Rank(i, S) = Cardinality(Ahead(i, S)) + 1
  BY RankBounds
<1>2. h \notin Ahead(h, S)
  BY BeforeOrder DEF Ahead
<1>3. IsFiniteSet(Ahead(h, S) \cup {h})
      /\ Cardinality(Ahead(h, S) \cup {h}) = Cardinality(Ahead(h, S)) + 1
  BY <1>1, <1>2, FS_AddElement
<1>4. Ahead(h, S) \cup {h} \in SUBSET Ahead(i, S)
  <2> SUFFICES ASSUME NEW j \in Ahead(h, S) PROVE j \in Ahead(i, S)
    BY DEF Ahead
  <2>1. j \in S /\ j \in Hosts /\ Before(j, h) /\ h \in Hosts /\ i \in Hosts
    BY DEF Ahead
  <2> QED  BY <2>1, BeforeOrder DEF Ahead
<1>5. Cardinality(Ahead(h, S) \cup {h}) <= Cardinality(Ahead(i, S))
  BY <1>1, <1>4, FS_Subset
<1>6. Cardinality(Ahead(h, S)) \in Nat /\ Cardinality(Ahead(i, S)) \in Nat
  BY <1>1, FS_CardinalityType
<1> QED  BY <1>1, <1>3, <1>5, <1>6

(* No two hosts have one rank, *)
LEMMA RankInjective ==
  ASSUME NEW S \in SUBSET Hosts, NEW h \in S, NEW i \in S, Rank(h, S) = Rank(i, S)
  PROVE  h = i
<1> SUFFICES ASSUME h # i PROVE FALSE
  OBVIOUS
<1>1. Before(h, i) \/ Before(i, h)
  BY BeforeOrder
<1>2. Rank(h, S) < Rank(i, S) \/ Rank(i, S) < Rank(h, S)
  <2>1. CASE Before(h, i)  BY <2>1, RankGrows
  <2>2. CASE Before(i, h)  BY <2>2, RankGrows
  <2> QED  BY <1>1, <2>1, <2>2
<1>3. Cardinality(S) \in Nat
  BY FS_Subset, FS_CardinalityType
<1>4. Rank(h, S) \in 1..Cardinality(S) /\ Rank(i, S) \in 1..Cardinality(S)
  BY RankBounds
<1>5. Rank(h, S) \in Int /\ Rank(i, S) \in Int
  BY <1>3, <1>4
<1> QED  BY <1>2, <1>5

(* and every place has its host. *)
LEMMA RankSurjective ==
  ASSUME NEW S \in SUBSET Hosts, NEW k \in 1..Cardinality(S)
  PROVE  \E h \in S : Rank(h, S) = k
<1> DEFINE rank == [h \in S |-> Rank(h, S)]
<1>1. IsFiniteSet(S) /\ Cardinality(S) \in Nat
  BY FS_Subset, FS_CardinalityType
<1>2. IsFiniteSet(1..Cardinality(S)) /\ Cardinality(1..Cardinality(S)) = Cardinality(S)
  BY <1>1, FS_Interval
<1>3. rank \in Injection(S, 1..Cardinality(S))
  BY RankBounds, RankInjective DEF Injection, IsInjective
<1>4. rank \in Surjection(S, 1..Cardinality(S))
  BY <1>1, <1>2, <1>3, FS_Injection
<1> QED  BY <1>4 DEF Surjection

(* What the sorted list is: the hosts of the answer, each once and in      *)
(* display order.                                                          *)
LEMMA DevicesSorted ==
  ASSUME NEW a \in Answers
  PROVE  /\ Devices(a) \in Seq(Device) /\ Len(Devices(a)) = Cardinality(a.hosts)
         /\ Cardinality(a.hosts) \in Nat /\ Cardinality(a.hosts) <= Cardinality(Hosts)
         /\ \A k \in 1..Len(Devices(a)) : Devices(a)[k].host \in a.hosts
         /\ \A h \in a.hosts : \E k \in 1..Len(Devices(a)) : Devices(a)[k].host = h
         /\ \A j, k \in 1..Len(Devices(a)) :
              j < k => Before(Devices(a)[j].host, Devices(a)[k].host)
<1> DEFINE S == a.hosts
           At(k) == CHOOSE h \in S : Rank(h, S) = k
<1>1. S \in SUBSET Hosts
  BY DEF Answers
<1>2. Cardinality(S) \in Nat /\ Cardinality(S) <= Cardinality(Hosts)
  BY <1>1, FS_Subset, FS_CardinalityType
<1>3. \A k \in 1..Cardinality(S) : At(k) \in S /\ Rank(At(k), S) = k
  BY <1>1, RankSurjective
<1>4. Devices(a) = [k \in 1..Cardinality(S) |-> [host |-> At(k), online |-> At(k) \in a.online]]
  BY DEF Devices
<1> HIDE DEF At
<1>5. Devices(a) \in [1..Cardinality(S) -> Device]
  BY <1>1, <1>3, <1>4 DEF Device
<1>6. Devices(a) \in Seq(Device) /\ Len(Devices(a)) = Cardinality(S)
  BY <1>2, <1>5
<1>7. \A k \in 1..Cardinality(S) : Devices(a)[k].host = At(k)
  BY <1>4
<1>8. \A h \in S : \E k \in 1..Cardinality(S) : Devices(a)[k].host = h
  <2> SUFFICES ASSUME NEW h \in S PROVE Devices(a)[Rank(h, S)].host = h
    BY <1>1, RankBounds
  <2>1. Rank(h, S) \in 1..Cardinality(S)
    BY <1>1, RankBounds
  <2>2. At(Rank(h, S)) \in S /\ Rank(At(Rank(h, S)), S) = Rank(h, S)
    BY <1>3, <2>1
  <2>3. At(Rank(h, S)) = h
    BY <1>1, <2>2, RankInjective
  <2> QED  BY <1>7, <2>1, <2>3
<1>9. ASSUME NEW j \in 1..Cardinality(S), NEW k \in 1..Cardinality(S), j < k
      PROVE  Before(At(j), At(k))
  <2>1. /\ At(j) \in S /\ At(k) \in S /\ At(j) \in Hosts /\ At(k) \in Hosts
        /\ Rank(At(j), S) = j /\ Rank(At(k), S) = k
    BY <1>1, <1>3
  <2>2. At(j) # At(k)
    BY <2>1, <1>9
  <2>3. ASSUME Before(At(k), At(j)) PROVE FALSE
    <3>1. Rank(At(k), S) < Rank(At(j), S)
      BY <1>1, <2>1, <2>3, RankGrows
    <3> QED  BY <3>1, <2>1, <1>9
  <2> QED  BY <2>1, <2>2, <2>3, BeforeOrder
<1> QED  BY <1>2, <1>3, <1>6, <1>7, <1>8, <1>9

LEMMA IndexFacts ==
  ASSUME NEW devices \in Seq(Device), devices # <<>>, NEW h
  PROVE  /\ IndexOf(h, devices) \in 1..Len(devices)
         /\ (\E k \in 1..Len(devices) : devices[k].host = h)
              => devices[IndexOf(h, devices)].host = h
<1>1. DOMAIN devices = 1..Len(devices) /\ 1 \in 1..Len(devices)
  OBVIOUS
<1> QED  BY <1>1 DEF IndexOf

-----------------------------------------------------------------------------
(* The panel *)

(* Every device is listed once, and in display order. *)
InDisplayOrder ==
  \A j, k \in 1..Len(monitorDevices) :
    j < k => Before(monitorDevices[j].host, monitorDevices[k].host)

PanelInv == TypeOK /\ PanelShowsSelected /\ InDisplayOrder

LEMMA InitPanel == Init => PanelInv
<1> SUFFICES ASSUME Init PROVE PanelInv
  OBVIOUS
<1>1. monitorDevices \in Seq(Device) /\ Len(monitorDevices) = 0
  BY DEF Init
<1>2. Cardinality(Hosts) \in Nat
  BY FS_CardinalityType
<1>3. answer \in [Polls -> Answers] /\ poll \in [Polls -> {"off", "sent", "answered"}]
  BY DEF Init, Answers, NoAnswer
<1>4. TypeOK
  BY <1>1, <1>2, <1>3 DEF Init, TypeOK
<1>5. PanelShowsSelected /\ InDisplayOrder
  BY <1>1 DEF Init, PanelShowsSelected, InDisplayOrder
<1> QED  BY <1>4, <1>5 DEF PanelInv

LEMMA ServerPanel ==
  ASSUME PanelInv, NEW h \in Hosts, Register(h) \/ Turn(h)
  PROVE  PanelInv'
<1> USE DEF PanelInv, pollVars, panelVars
<1>0. registered \in SUBSET Hosts /\ online \in SUBSET registered /\ changes \in 0..MaxChanges
  BY DEF TypeOK
<1>1. /\ registered' \in SUBSET Hosts /\ online' \in SUBSET registered'
      /\ changes' \in 0..MaxChanges
  <2>1. CASE Register(h)
    BY <1>0, <2>1 DEF Register
  <2>2. CASE Turn(h)
    BY <1>0, <2>2 DEF Turn
  <2> QED  BY <2>1, <2>2
<1>2. UNCHANGED <<poll, answer, monitorDevices, selectedMonitorHostname, panel>>
  BY DEF Register, Turn
<1> QED  BY <1>1, <1>2 DEF TypeOK, PanelShowsSelected, InDisplayOrder

LEMMA PollPanel ==
  ASSUME PanelInv, NEW p \in Polls, Poll(p) \/ PollAnswered(p) \/ PollDropped(p)
  PROVE  PanelInv'
<1> USE DEF PanelInv, serverVars, panelVars
<1>1. poll' \in [Polls -> {"off", "sent", "answered"}]
  BY DEF Poll, PollAnswered, PollDropped, TypeOK
<1>2. answer' \in [Polls -> Answers]
  <2>1. answer \in [Polls -> Answers] /\ registered \in SUBSET Hosts /\ online \in SUBSET Hosts
    BY DEF TypeOK
  <2>2. NoAnswer \in Answers /\ [hosts |-> registered, online |-> online] \in Answers
    BY <2>1 DEF NoAnswer, Answers
  <2> HIDE DEF PanelInv
  <2> QED  BY <2>1, <2>2 DEF Poll, PollAnswered, PollDropped
<1>3. UNCHANGED <<registered, online, changes, monitorDevices, selectedMonitorHostname, panel>>
  BY DEF Poll, PollAnswered, PollDropped
<1> QED  BY <1>1, <1>2, <1>3 DEF TypeOK, PanelShowsSelected, InDisplayOrder

(* Whatever an answer lists, the panel shows one of its devices: the one   *)
(* selected before while it is among them.                                 *)
LEMMA DeliveredPanel ==
  ASSUME PanelInv, NEW p \in Polls, PollDelivered(p)
  PROVE  PanelInv'
<1> DEFINE a == answer[p]
           devices == Devices(a)
           kept == IF selectedMonitorHostname \in a.hosts THEN selectedMonitorHostname
                   ELSE IF devices # <<>> THEN devices[1].host ELSE None
<1>1. a \in Answers /\ a.hosts \in SUBSET Hosts
  BY DEF PanelInv, TypeOK, Answers
<1>2. /\ monitorDevices' = devices /\ selectedMonitorHostname' = kept
      /\ panel' = IF devices = <<>> THEN NoDevice ELSE devices[IndexOf(kept, devices)]
      /\ UNCHANGED <<registered, online, changes>>
  BY DEF PollDelivered, RenderSystemMonitors, serverVars
<1>3. /\ poll' \in [Polls -> {"off", "sent", "answered"}] /\ answer' \in [Polls -> Answers]
  BY DEF PollDelivered, PanelInv, TypeOK, Answers, NoAnswer
<1>4. /\ devices \in Seq(Device) /\ Len(devices) <= Cardinality(Hosts)
      /\ \A k \in 1..Len(devices) : devices[k].host \in a.hosts
      /\ \A h \in a.hosts : \E k \in 1..Len(devices) : devices[k].host = h
      /\ \A j, k \in 1..Len(devices) : j < k => Before(devices[j].host, devices[k].host)
  BY <1>1, DevicesSorted
<1> HIDE DEF devices, a
<1>5. InDisplayOrder'
  BY <1>2, <1>4 DEF InDisplayOrder
<1>6. CASE devices = <<>>
  <2>1. a.hosts = {}
    BY <1>4, <1>6
  <2>2. kept = None
    BY <2>1, <1>6
  <2> QED  BY <1>2, <1>3, <1>4, <1>5, <1>6, <2>2 DEF PanelInv, TypeOK, PanelShowsSelected
<1>7. CASE devices # <<>>
  <2>1. 1 \in 1..Len(devices)
    BY <1>4, <1>7
  <2>2. kept \in a.hosts
    BY <1>4, <1>7, <2>1
  <2> DEFINE n == IndexOf(kept, devices)
  <2>3. n \in 1..Len(devices) /\ devices[n].host = kept
    BY <1>4, <1>7, <2>2, IndexFacts
  <2>4. devices[n] \in Device /\ DOMAIN devices = 1..Len(devices)
    BY <1>4, <2>3
  <2>5. kept \in Hosts
    BY <1>1, <2>2
  <2>6. panel' = devices[n]
    BY <1>2, <1>7
  <2> HIDE DEF n, kept
  <2>7. TypeOK'
    BY <1>2, <1>3, <1>4, <2>4, <2>5, <2>6 DEF PanelInv, TypeOK
  <2>8. PanelShowsSelected'
    BY <1>2, <1>7, <2>3, <2>4, <2>6 DEF PanelShowsSelected
  <2> QED  BY <1>5, <2>7, <2>8 DEF PanelInv
<1> QED  BY <1>6, <1>7

LEMMA SelectPanel == PanelInv /\ SelectNextMonitor => PanelInv'
<1> SUFFICES ASSUME PanelInv, SelectNextMonitor PROVE PanelInv'
  OBVIOUS
<1> DEFINE n == IndexOf(selectedMonitorHostname, monitorDevices)
           next == NextIndex(n)
<1>1. monitorDevices \in Seq(Device) /\ Len(monitorDevices) >= 2 /\ monitorDevices # <<>>
  BY DEF PanelInv, TypeOK, SelectNextMonitor
<1>2. n \in 1..Len(monitorDevices)
  BY <1>1, IndexFacts
<1>3. /\ selectedMonitorHostname' = monitorDevices[next].host /\ panel' = monitorDevices[next]
      /\ UNCHANGED <<monitorDevices, registered, online, changes, poll, answer>>
  BY DEF SelectNextMonitor, serverVars, pollVars
<1>4. next \in 1..Len(monitorDevices)
  <2>1. Len(monitorDevices) \in Nat
    BY <1>1
  <2> HIDE DEF n
  <2> QED  BY <1>1, <1>2, <2>1 DEF NextIndex
<1> HIDE DEF next, n
<1>5. /\ monitorDevices[next] \in Device /\ monitorDevices[next].host \in Hosts
      /\ DOMAIN monitorDevices = 1..Len(monitorDevices)
  <2>1. monitorDevices[next] \in Device /\ DOMAIN monitorDevices = 1..Len(monitorDevices)
    BY <1>1, <1>4
  <2> QED  BY <2>1 DEF Device
<1>6. TypeOK'
  BY <1>3, <1>5 DEF PanelInv, TypeOK
<1>7. PanelShowsSelected' /\ InDisplayOrder'
  BY <1>1, <1>3, <1>4, <1>5 DEF PanelInv, PanelShowsSelected, InDisplayOrder
<1> QED  BY <1>6, <1>7 DEF PanelInv

LEMMA PanelStep == PanelInv /\ [Next]_vars => PanelInv'
<1> SUFFICES ASSUME PanelInv, [Next]_vars PROVE PanelInv'
  OBVIOUS
<1>1. CASE UNCHANGED vars
  BY <1>1 DEF PanelInv, TypeOK, PanelShowsSelected, InDisplayOrder, vars, serverVars,
              pollVars, panelVars
<1> QED  BY <1>1, ServerPanel, PollPanel, DeliveredPanel, SelectPanel DEF Next

LEMMA PanelAlways == Spec => []PanelInv
  BY InitPanel, PanelStep, PTL DEF Spec

(* Every variable of the panel, the polls and the server keeps its type.   *)
THEOREM PanelTypes == Spec => []TypeOK
<1>1. PanelInv => TypeOK
  BY DEF PanelInv
<1> QED  BY <1>1, PanelAlways, PTL

(* The panel shows the selected device as the last state rendered has it,  *)
(* and some device whenever there is one.                                  *)
THEOREM ShowsSelected == Spec => []PanelShowsSelected
<1>1. PanelInv => PanelShowsSelected
  BY DEF PanelInv
<1> QED  BY <1>1, PanelAlways, PTL

(* The button steps through the devices in display order, without one that *)
(* is listed twice, whatever display orders the PCs share.                 *)
THEOREM ListedInOrder == Spec => []InDisplayOrder
<1>1. PanelInv => InDisplayOrder
  BY DEF PanelInv
<1> QED  BY <1>1, PanelAlways, PTL
=============================================================================
