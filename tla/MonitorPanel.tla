---------------------------- MODULE MonitorPanel ----------------------------
(***************************************************************************)
(* The PC panel of the kiosk page (web/app.js): the devices of the last    *)
(* state rendered, in display order, the one selected, and the button that *)
(* goes to the next.                                                       *)
(*                                                                         *)
(* The server is what MonitorStore offers: PCs register with their first   *)
(* push, stay registered while the server runs, and are ONLINE or not.     *)
(* Polls overlap and their answers overtake one another.  Hosts are        *)
(* numbered in the order of their names (localeCompare).                   *)
(***************************************************************************)
EXTENDS Integers, Sequences, FiniteSets

CONSTANTS Hosts, None,
          DisplayOrder,   \* display_order, 1001 for a PC without
          Polls,          \* bound: requests for /api/state in flight
          MaxChanges      \* bound: changes of who is ONLINE

ASSUME HostAssumption ==
  /\ Hosts \subseteq Nat /\ IsFiniteSet(Hosts)
  /\ None \notin Hosts
  /\ DisplayOrder \in [Hosts -> Int]
  /\ MaxChanges \in Nat

VARIABLES
  registered, online, changes,   \* the server
  poll, answer,                  \* each request, and what it was answered
  monitorDevices,                \* the devices of the last state rendered
  selectedMonitorHostname,
  panel                          \* the device the panel shows

serverVars == <<registered, online, changes>>
pollVars   == <<poll, answer>>
panelVars  == <<monitorDevices, selectedMonitorHostname, panel>>
vars == <<serverVars, pollVars, panelVars>>

Device   == [host : Hosts, online : BOOLEAN]
NoDevice == [host |-> None, online |-> FALSE]
Answers  == [hosts : SUBSET Hosts, online : SUBSET Hosts]
NoAnswer == [hosts |-> {}, online |-> {}]

TypeOK ==
  /\ registered \in SUBSET Hosts /\ online \in SUBSET registered
  /\ changes \in 0..MaxChanges
  /\ poll \in [Polls -> {"off", "sent", "answered"}]
  /\ answer \in [Polls -> Answers]
  /\ monitorDevices \in Seq(Device) /\ Len(monitorDevices) <= Cardinality(Hosts)
  /\ selectedMonitorHostname \in Hosts \cup {None}
  /\ panel \in Device \cup {NoDevice}

Init ==
  /\ registered = {} /\ online = {} /\ changes = 0
  /\ poll = [p \in Polls |-> "off"]
  /\ answer = [p \in Polls |-> NoAnswer]
  /\ monitorDevices = <<>> /\ selectedMonitorHostname = None
  /\ panel = NoDevice

-----------------------------------------------------------------------------
(* The server *)

(* The first push of a PC. *)
Register(h) ==
  /\ h \notin registered
  /\ registered' = registered \cup {h}
  /\ online' = online \cup {h}
  /\ UNCHANGED <<changes, pollVars, panelVars>>

(* A PC turns OFFLINE, or ONLINE again. *)
Turn(h) ==
  /\ h \in registered /\ changes < MaxChanges
  /\ changes' = changes + 1
  /\ online' = IF h \in online THEN online \ {h} ELSE online \cup {h}
  /\ UNCHANGED <<registered, pollVars, panelVars>>

-----------------------------------------------------------------------------
(* The panel *)

(* Before in the list: by display_order, then by name. *)
Before(h, i) ==
  \/ DisplayOrder[h] < DisplayOrder[i]
  \/ DisplayOrder[h] = DisplayOrder[i] /\ h < i

Rank(h, hosts) == Cardinality({i \in hosts : Before(i, h)}) + 1

(* The hosts sorted: each at the place of its rank.                        *)
Devices(a) ==
  [k \in 1..Cardinality(a.hosts) |->
     LET h == CHOOSE h \in a.hosts : Rank(h, a.hosts) = k
     IN  [host |-> h, online |-> h \in a.online]]

(* findIndex, from 1 on: the first device if none has the name.            *)
IndexOf(h, devices) ==
  IF \E k \in DOMAIN devices : devices[k].host = h
    THEN CHOOSE k \in DOMAIN devices : devices[k].host = h
    ELSE 1

(* Mutant: the selection stays when its device is not listed. *)
RenderSystemMonitors_Keeps(a) ==
  LET devices == Devices(a)
      kept == IF selectedMonitorHostname = None /\ devices # <<>>
                THEN devices[1].host ELSE selectedMonitorHostname
  IN  /\ monitorDevices' = devices
      /\ selectedMonitorHostname' = kept
      /\ panel' = IF kept \in a.hosts THEN devices[IndexOf(kept, devices)] ELSE NoDevice

(* Mutant: only a new list is rendered. *)
RenderSystemMonitors_OnChange(a) ==
  LET devices == Devices(a)
      kept == IF selectedMonitorHostname \in a.hosts THEN selectedMonitorHostname
              ELSE IF devices # <<>> THEN devices[1].host ELSE None
  IN  IF a.hosts = {monitorDevices[k].host : k \in DOMAIN monitorDevices}
        THEN UNCHANGED panelVars
        ELSE /\ monitorDevices' = devices
             /\ selectedMonitorHostname' = kept
             /\ panel' = IF devices = <<>> THEN NoDevice ELSE devices[IndexOf(kept, devices)]

(* Mutant: the devices are added to those listed before. *)
RenderSystemMonitors_Appends(a) ==
  LET devices == monitorDevices \o Devices(a)
      kept == IF selectedMonitorHostname # None THEN selectedMonitorHostname
              ELSE IF devices # <<>> THEN devices[1].host ELSE None
  IN  /\ monitorDevices' = devices
      /\ selectedMonitorHostname' = kept
      /\ panel' = IF devices = <<>> THEN NoDevice ELSE devices[IndexOf(kept, devices)]

(* renderSystemMonitors: the selection stays while it is listed.           *)
RenderSystemMonitors(a) ==
  LET devices == Devices(a)
      kept == IF selectedMonitorHostname \in a.hosts THEN selectedMonitorHostname
              ELSE IF devices # <<>> THEN devices[1].host ELSE None
  IN  /\ monitorDevices' = devices
      /\ selectedMonitorHostname' = kept
      /\ panel' = IF devices = <<>> THEN NoDevice ELSE devices[IndexOf(kept, devices)]

NextIndex(k) == (k % Len(monitorDevices)) + 1

SelectNextMonitor ==
  /\ Len(monitorDevices) >= 2
  /\ LET next == NextIndex(IndexOf(selectedMonitorHostname, monitorDevices))
     IN  /\ selectedMonitorHostname' = monitorDevices[next].host
         /\ panel' = monitorDevices[next]
  /\ UNCHANGED <<monitorDevices, serverVars, pollVars>>

Poll(p) ==
  /\ poll[p] = "off"
  /\ poll' = [poll EXCEPT ![p] = "sent"]
  /\ UNCHANGED <<answer, serverVars, panelVars>>

(* api_state: the snapshots of the store. *)
PollAnswered(p) ==
  /\ poll[p] = "sent"
  /\ poll' = [poll EXCEPT ![p] = "answered"]
  /\ answer' = [answer EXCEPT ![p] = [hosts |-> registered, online |-> online]]
  /\ UNCHANGED <<serverVars, panelVars>>

(* The answer is rendered, or dropped: a completion was confirmed since.   *)
PollDelivered(p) ==
  /\ poll[p] = "answered"
  /\ poll' = [poll EXCEPT ![p] = "off"]
  /\ answer' = [answer EXCEPT ![p] = NoAnswer]
  /\ RenderSystemMonitors(answer[p])
  /\ UNCHANGED <<serverVars>>

PollDropped(p) ==
  /\ poll[p] = "answered"
  /\ poll' = [poll EXCEPT ![p] = "off"]
  /\ answer' = [answer EXCEPT ![p] = NoAnswer]
  /\ UNCHANGED <<serverVars, panelVars>>

Next ==
  \/ \E h \in Hosts : Register(h) \/ Turn(h)
  \/ \E p \in Polls : Poll(p) \/ PollAnswered(p) \/ PollDelivered(p) \/ PollDropped(p)
  \/ SelectNextMonitor

(* The timer fires, the server answers, and not every answer is dropped.   *)
Fairness ==
  \A p \in Polls : WF_vars(Poll(p)) /\ WF_vars(PollAnswered(p)) /\ SF_vars(PollDelivered(p))

Spec == Init /\ [][Next]_vars
FairSpec == Spec /\ Fairness

-----------------------------------------------------------------------------
(* Properties *)

(* The panel shows the selected device as the last state rendered has it,  *)
(* and some device whenever there is one: also when an answer overtaken by *)
(* others does not list the selected one yet.                              *)
PanelShowsSelected ==
  IF monitorDevices = <<>>
    THEN panel = NoDevice /\ selectedMonitorHostname = None
    ELSE /\ \E k \in DOMAIN monitorDevices : panel = monitorDevices[k]
         /\ panel.host = selectedMonitorHostname

(* Once the PCs stay as they are the panel shows whether its PC is ONLINE. *)
ShowsTheStore ==
  \A h \in Hosts : \A b \in BOOLEAN :
    <>[](panel.host = h /\ (h \in online <=> b)) => <>[](panel.online <=> b)
=============================================================================
