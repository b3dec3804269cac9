----------------------------- MODULE PcMetrics -----------------------------
(***************************************************************************)
(* The metrics of a PC from its installation to the store: the secret that *)
(* the scripts hand out, the agent that signs with it, the server that has *)
(* read it, and the drives on their way from Windows to the panel.         *)
(*                                                                         *)
(*   scripts/install_host_monitor.ps1, register_host_monitor.ps1           *)
(*   rust/src/bin/monitor.rs, monitor.rs   push_loop, MonitorCollector     *)
(*   rust/src/bin/kiosk.rs, server.rs      run, guard_request, api_system  *)
(*                                                                         *)
(* Both programs read the secret when they start, and only then.  Time is  *)
(* counted in rounds of push_loop; clocks and time-outs are those of       *)
(* MonitorStore.  A secret is a number, 0 an absent, empty or half copied  *)
(* one.  Of a sample only the drives and the bytes received matter; an     *)
(* agent sends its bytes as a rate.                                        *)
(***************************************************************************)
EXTENDS Naturals, FiniteSets

CONSTANTS
  Hosts,
  Drives,       \* drive letters
  SystemDrive,  \* the one Windows runs from
  Off, None,    \* not running; not there
  Refresh,      \* rounds in the 300 s between two queries
  MaxSecrets,   \* bound: secrets made
  MaxBytes      \* bound: of a counter

ASSUME SetupAssumption ==
  /\ SystemDrive \in Drives
  /\ Off \notin Nat /\ \A s \in SUBSET Drives : s # None
  /\ Refresh \in Nat \ {0} /\ {MaxSecrets, MaxBytes} \subseteq Nat

VARIABLES
  secret,     \* secrets/monitor-token.txt
  piFile,     \* monitor-token on the Pi
  serverKey,  \* monitor_token of the running server
  agentFile,  \* each PC: its copy of the secret, and the target of its task
  target,
  agentKey,   \* the secret its running agent has read
  drives,     \* what is mounted: a partition of a disk, or a virtual volume
  ids,        \* physical_disk_ids of its agent
  age,        \* rounds since physical_disk_ids_refreshed_at
  total,      \* network_totals: received by all the interfaces it has
  previous,   \* previous_received
  sample,     \* the drives of the sample it is about to push,
  bytes,      \* and what it says was received
  entry,      \* the drives of its entry in the store
  copied,     \* history: the secret was copied to the Pi since it was made,
  read,       \* the server has started since then,
  registered, \* and the PC was registered with this secret
  carried,    \* history: bytes received since the last round collected,
  listed      \* and counters of interfaces that appeared since then

scriptVars == <<secret, piFile, copied>>
serverVars == <<serverKey, entry, read>>
taskVars   == <<agentFile, target, registered>>
netVars    == <<total, previous, bytes, carried, listed>>
agentVars  == <<agentKey, ids, age, sample, netVars>>
vars == <<scriptVars, serverVars, taskVars, agentVars, drives>>

Volumes == {"none", "physical", "virtual"}
Targets == {"address", "name"}

TypeOK ==
  /\ secret \in 0..MaxSecrets /\ piFile \in 0..secret
  /\ serverKey \in 0..secret \cup {Off}
  /\ agentFile \in [Hosts -> 0..secret] /\ target \in [Hosts -> Targets]
  /\ agentKey \in [Hosts -> 1..secret \cup {Off}]
  /\ drives \in [Hosts -> [Drives -> Volumes]]
  /\ ids \in [Hosts -> SUBSET Drives]
  /\ age \in [Hosts -> 0..Refresh]
  /\ {total, previous, bytes, carried, listed} \subseteq [Hosts -> 0..MaxBytes]
  /\ sample \in [Hosts -> {None} \cup SUBSET Drives]
  /\ entry \in [Hosts -> {None} \cup SUBSET Drives]
  /\ copied \in BOOLEAN /\ read \in BOOLEAN
  /\ registered \in [Hosts -> BOOLEAN]
  /\ \A h \in Hosts : agentKey[h] = Off => sample[h] = None /\ ids[h] = {}
  /\ \A h \in Hosts : sample[h] = None => bytes[h] = 0
  /\ \A h \in Hosts : serverKey = Off => entry[h] = None

(* Windows runs from a disk, so PowerShell's answer is never empty.        *)
Mounts == {d \in [Drives -> Volumes] : d[SystemDrive] = "physical"}

Init ==
  /\ secret = 0 /\ piFile = 0 /\ copied = FALSE
  /\ serverKey = Off /\ read = FALSE
  /\ entry = [h \in Hosts |-> None]
  /\ agentFile = [h \in Hosts |-> 0] /\ target = [h \in Hosts |-> "address"]
  /\ registered = [h \in Hosts |-> FALSE]
  /\ agentKey = [h \in Hosts |-> Off]
  /\ drives \in [Hosts -> Mounts]
  /\ ids = [h \in Hosts |-> {}] /\ age = [h \in Hosts |-> 0]
  /\ sample = [h \in Hosts |-> None]
  /\ total = [h \in Hosts |-> 0] /\ previous = total
  /\ bytes = total /\ carried = total /\ listed = total

-----------------------------------------------------------------------------
(* Installation *)

(* install_host_monitor.ps1 finds no secret and makes one: at first, or in *)
(* a new copy of the repository.                                           *)
MakeSecret ==
  /\ secret < MaxSecrets
  /\ secret' = secret + 1
  /\ copied' = FALSE /\ read' = FALSE
  /\ registered' = [h \in Hosts |-> FALSE]
  /\ UNCHANGED <<piFile, serverKey, entry, agentFile, target, agentVars, drives>>

(* Its scp truncates the file on the Pi ... *)
BeginCopy ==
  /\ secret # 0
  /\ piFile' = 0 /\ copied' = FALSE
  /\ UNCHANGED <<secret, serverVars, taskVars, agentVars, drives>>

(* ... and fills it.  The server is not restarted. *)
EndCopy ==
  /\ secret # 0 /\ piFile = 0
  /\ piFile' = secret /\ copied' = TRUE
  /\ UNCHANGED <<secret, serverVars, taskVars, agentVars, drives>>

NoSample(h) ==
  /\ sample' = [sample EXCEPT ![h] = None]
  /\ bytes' = [bytes EXCEPT ![h] = 0]

(* Mutant: a push of the agent goes on without it. *)
StopAgent_KeepsSample(h) ==
  /\ agentKey' = [agentKey EXCEPT ![h] = Off]
  /\ UNCHANGED <<ids, age, sample, netVars>>

(* The collector is gone; what is counted now matters to nobody.           *)
StopAgent(h) ==
  /\ agentKey' = [agentKey EXCEPT ![h] = Off]
  /\ NoSample(h)
  /\ ids' = [ids EXCEPT ![h] = {}] /\ age' = [age EXCEPT ![h] = 0]
  /\ total' = [total EXCEPT ![h] = 0] /\ previous' = [previous EXCEPT ![h] = 0]
  /\ carried' = [carried EXCEPT ![h] = 0] /\ listed' = [listed EXCEPT ![h] = 0]

(* Mutant: a running agent is left alone. *)
Register_LeavesAgent(h) ==
  /\ secret # 0
  /\ agentFile' = [agentFile EXCEPT ![h] = secret]
  /\ \E t \in Targets : target' = [target EXCEPT ![h] = t]
  /\ registered' = [registered EXCEPT ![h] = TRUE]
  /\ UNCHANGED <<scriptVars, serverVars, agentVars, drives>>

(* register_host_monitor.ps1: the task is stopped, replaced and started    *)
(* again (AgentStarts).  The Pi is named by an address or by a name.       *)
Register(h) ==
  /\ secret # 0
  /\ agentFile' = [agentFile EXCEPT ![h] = secret]
  /\ \E t \in Targets : target' = [target EXCEPT ![h] = t]
  /\ registered' = [registered EXCEPT ![h] = TRUE]
  /\ StopAgent(h)
  /\ UNCHANGED <<scriptVars, serverVars, drives>>

-----------------------------------------------------------------------------
(* The server *)

(* run: the secret is read; without one pushes are disabled.               *)
ServerStarts ==
  /\ serverKey = Off
  /\ serverKey' = piFile
  /\ read' = copied
  /\ UNCHANGED <<entry, scriptVars, taskVars, agentVars, drives>>

(* install_service.ps1, or whatever ends it: the store is gone.            *)
ServerStops ==
  /\ serverKey # Off
  /\ serverKey' = Off
  /\ entry' = [h \in Hosts |-> None]
  /\ UNCHANGED <<read, scriptVars, taskVars, agentVars, drives>>

(* host_header_is_allowed: an address passes, a name does not.             *)
HostHeaderIsAllowed(h) == target[h] = "address"

(* verify: the MAC is of the body, under the server's own secret.          *)
Signed(h) == agentKey[h] = serverKey

(* guard_request and api_system, with the status it answers.               *)
Answer(h) ==
  IF ~HostHeaderIsAllowed(h) THEN 400
    ELSE IF serverKey = 0 THEN 503
    ELSE IF ~Signed(h) THEN 401
    ELSE 204

-----------------------------------------------------------------------------
(* The agent *)

Mounted(h)  == {l \in Drives : drives[h][l] # "none"}
Physical(h) == {l \in Drives : drives[h][l] = "physical"}

(* The first ids are what PowerShell says, or what Windows calls an HDD or *)
(* SSD: it may call a virtual volume so, and a disk not.                   *)
InitialPhysicalDiskIds(h) ==
  \E found \in SUBSET Mounted(h) : ids' = [ids EXCEPT ![h] = found]

FirstTotals(h) ==
  \E n \in 0..MaxBytes : /\ total' = [total EXCEPT ![h] = n]
                         /\ previous' = [previous EXCEPT ![h] = n]

(* main, push_loop and MonitorCollector::new *)
AgentStarts(h) ==
  /\ agentKey[h] = Off /\ agentFile[h] # 0
  /\ agentKey' = [agentKey EXCEPT ![h] = agentFile[h]]
  /\ InitialPhysicalDiskIds(h)
  /\ FirstTotals(h)
  /\ UNCHANGED <<scriptVars, serverVars, taskVars, age, sample, bytes, carried,
                 listed, drives>>

AgentStops(h) ==
  /\ agentKey[h] # Off
  /\ StopAgent(h)
  /\ UNCHANGED <<scriptVars, serverVars, taskVars, drives>>

Mount(h) ==
  /\ drives' \in {[drives EXCEPT ![h] = d] : d \in Mounts}
  /\ UNCHANGED <<scriptVars, serverVars, taskVars, agentVars>>

Traffic(h) ==
  /\ agentKey[h] # Off /\ total[h] < MaxBytes /\ carried[h] < MaxBytes
  /\ total' = [total EXCEPT ![h] = @ + 1]
  /\ carried' = [carried EXCEPT ![h] = @ + 1]
  /\ UNCHANGED <<scriptVars, serverVars, taskVars, agentKey, ids, age, previous,
                 sample, bytes, listed, drives>>

(* An interface appears, or comes back, with whatever it has counted:      *)
(* network_totals adds the counters of all that refresh lists.             *)
InterfaceListed(h) ==
  /\ agentKey[h] # Off
  /\ \E n \in 1..(MaxBytes - total[h]) :
       /\ listed[h] + n <= MaxBytes
       /\ total' = [total EXCEPT ![h] = @ + n]
       /\ listed' = [listed EXCEPT ![h] = @ + n]
  /\ UNCHANGED <<scriptVars, serverVars, taskVars, agentKey, ids, age, previous,
                 sample, bytes, carried, drives>>

(* An interface is gone, or its counter starts from zero again.            *)
InterfaceGone(h) ==
  /\ agentKey[h] # Off /\ total[h] > 0
  /\ \E n \in 0..(total[h] - 1) : total' = [total EXCEPT ![h] = n]
  /\ UNCHANGED <<scriptVars, serverVars, taskVars, agentKey, ids, age, previous,
                 sample, bytes, carried, listed, drives>>

CanCollect(h) == agentKey[h] # Off /\ sample[h] = None

(* Mutant: the difference is taken either way. *)
Received_Absolute(h) == IF total[h] > previous[h] THEN total[h] - previous[h]
                                                  ELSE previous[h] - total[h]

(* saturating_sub *)
Received(h) == IF total[h] > previous[h] THEN total[h] - previous[h] ELSE 0

(* collect_disks: the drives in the list that have a known id.  Or normal- *)
(* ize finds a field out of range: the round goes without a sample.        *)
Sample(h, known) ==
  /\ previous' = [previous EXCEPT ![h] = total[h]]
  /\ carried' = [carried EXCEPT ![h] = 0] /\ listed' = [listed EXCEPT ![h] = 0]
  /\ \/ /\ sample' = [sample EXCEPT ![h] = Mounted(h) \cap known]
        /\ bytes' = [bytes EXCEPT ![h] = Received(h)]
     \/ NoSample(h)
  /\ UNCHANGED total

(* collect, before the next refresh of the ids is due *)
Collect(h) ==
  /\ CanCollect(h) /\ age[h] < Refresh
  /\ age' = [age EXCEPT ![h] = @ + 1]
  /\ Sample(h, ids[h])
  /\ UNCHANGED <<scriptVars, serverVars, taskVars, agentKey, ids, drives>>

(* Mutant: new ids are added to the old ones. *)
RefreshIds_Adds(h) ==
  /\ CanCollect(h) /\ age[h] = Refresh
  /\ ids' = [ids EXCEPT ![h] = @ \cup Physical(h)]
  /\ age' = [age EXCEPT ![h] = 0]
  /\ Sample(h, ids[h] \cup Physical(h))
  /\ UNCHANGED <<scriptVars, serverVars, taskVars, agentKey, drives>>

(* collect, with refresh_physical_disk_ids: PowerShell answers ...         *)
RefreshIds(h) ==
  /\ CanCollect(h) /\ age[h] = Refresh
  /\ ids' = [ids EXCEPT ![h] = Physical(h)]
  /\ age' = [age EXCEPT ![h] = 0]
  /\ Sample(h, Physical(h))
  /\ UNCHANGED <<scriptVars, serverVars, taskVars, agentKey, drives>>

(* ... or does not: the old ids stay for another 300 s.                    *)
RefreshFails(h) ==
  /\ CanCollect(h) /\ age[h] = Refresh
  /\ age' = [age EXCEPT ![h] = 0]
  /\ Sample(h, ids[h])
  /\ UNCHANGED <<scriptVars, serverVars, taskVars, agentKey, ids, drives>>

(* The push, if it gets there: update overwrites the entry.                *)
Push(h) ==
  /\ sample[h] # None /\ serverKey # Off
  /\ entry' = IF Answer(h) = 204 THEN [entry EXCEPT ![h] = sample[h]] ELSE entry
  /\ NoSample(h)
  /\ UNCHANGED <<scriptVars, serverKey, read, taskVars, agentKey, ids, age,
                 total, previous, carried, listed, drives>>

(* It fails: the next round collects anew. *)
PushFails(h) ==
  /\ sample[h] # None
  /\ NoSample(h)
  /\ UNCHANGED <<scriptVars, serverVars, taskVars, agentKey, ids, age,
                 total, previous, carried, listed, drives>>

Next ==
  \/ MakeSecret \/ BeginCopy \/ EndCopy \/ ServerStarts \/ ServerStops
  \/ \E h \in Hosts :
       \/ Register(h) \/ AgentStarts(h) \/ AgentStops(h) \/ Mount(h)
       \/ Traffic(h) \/ InterfaceListed(h) \/ InterfaceGone(h)
       \/ Collect(h) \/ RefreshIds(h) \/ RefreshFails(h)
       \/ Push(h) \/ PushFails(h)

(* A running agent goes on; its samples are not all spoilt, nor its pushes *)
(* all lost, and PowerShell does not fail for ever.                        *)
Fairness ==
  \A h \in Hosts :
    /\ WF_vars(AgentStarts(h))
    /\ SF_vars(Collect(h) /\ sample'[h] # None) /\ SF_vars(Collect(h))
    /\ SF_vars(RefreshIds(h)) /\ SF_vars(Push(h))

Spec == Init /\ [][Next]_vars
FairSpec == Spec /\ Fairness

-----------------------------------------------------------------------------
(* Properties *)

Running(h) == agentKey[h] # Off /\ serverKey # Off

(* docs/index.md, 2.3: copy the secret, register the PC, start the server. *)
(* Whatever was installed before, whichever of them ran meanwhile and how- *)
(* ever often one is repeated, the two then sign with the same secret.     *)
OrderSuffices ==
  \A h \in Hosts :
    Running(h) /\ read /\ registered[h] => serverKey # 0 /\ Signed(h)

(* A sample says that more was received than what the PC did receive since *)
(* the round before only when an interface has appeared since then, and by *)
(* no more than what that one had counted: whatever interfaces go or start *)
(* from zero, and whichever rounds in between had no sample or lost it.    *)
RateNotInvented ==
  [][\A h \in Hosts :
       sample[h] = None /\ sample'[h] # None
         => bytes'[h] <= carried[h] + listed[h]]_vars

(* docs/index.md, 3.1: only drives on a physical partition are shown.  So, *)
(* installed in that order, with the Pi given by its address, a PC comes   *)
(* to show them and no virtual volume, also one that has taken the letter  *)
(* of a disk, or that the fallback took for one.                           *)
DrivesSettle ==
  \A h \in Hosts : \A d \in {D \in SUBSET Drives : SystemDrive \in D} :
    <>[](/\ Running(h) /\ read /\ registered[h] /\ HostHeaderIsAllowed(h)
         /\ Physical(h) = d)
      => <>[](entry[h] = d)
=============================================================================
