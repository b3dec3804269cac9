--------------------------- MODULE PcMetricsProofs ---------------------------
(***************************************************************************)
(* Proofs about PcMetrics, for any PCs, drives, number of secrets and      *)
(* refresh period: its types, that the documented order of installation    *)
(* leaves one secret on both sides, and that no traffic is invented but by *)
(* an interface that appears.                                              *)
(***************************************************************************)
EXTENDS PcMetrics, TLAPS

(* Whoever has used a file since the secret was made has that secret.      *)
Keys ==
  /\ copied => piFile = secret /\ secret # 0
  /\ read /\ serverKey # Off => serverKey = secret /\ secret # 0
  /\ \A h \in Hosts :
       registered[h] => /\ agentFile[h] = secret /\ secret # 0
                        /\ agentKey[h] \in {Off, secret}

(* Since the last round the counters have gone up by no more than what was *)
(* received and what came with an interface; they may have gone down.      *)
Counted == \A h \in Hosts : total[h] <= previous[h] + carried[h] + listed[h]

(* The steps of one PC, and those of the scripts and the server. *)
PcStep(h) ==
  \/ Register(h) \/ AgentStarts(h) \/ AgentStops(h) \/ Mount(h)
  \/ Traffic(h) \/ InterfaceListed(h) \/ InterfaceGone(h)
  \/ Collect(h) \/ RefreshIds(h) \/ RefreshFails(h) \/ Push(h) \/ PushFails(h)

SetupStep == MakeSecret \/ BeginCopy \/ EndCopy \/ ServerStarts \/ ServerStops

LEMMA Steps == Next => SetupStep \/ \E h \in Hosts : PcStep(h)
  BY DEF Next, SetupStep, PcStep

USE SetupAssumption DEF SetupAssumption

-----------------------------------------------------------------------------
(* Types *)

LEMMA InitType == Init => TypeOK
<1> SUFFICES ASSUME Init PROVE TypeOK
  OBVIOUS
<1>1. drives \in [Hosts -> [Drives -> Volumes]]
  BY DEF Init, Mounts
<1>2. {total, previous, bytes, carried, listed} \subseteq [Hosts -> 0..MaxBytes]
  BY DEF Init
<1>3. secret \in 0..MaxSecrets /\ piFile \in 0..secret
  BY DEF Init
<1>4. /\ agentFile \in [Hosts -> 0..secret] /\ target \in [Hosts -> Targets]
      /\ registered \in [Hosts -> BOOLEAN]
  BY DEF Init, Targets
<1>5. /\ agentKey \in [Hosts -> 1..secret \cup {Off}]
      /\ ids \in [Hosts -> SUBSET Drives] /\ age \in [Hosts -> 0..Refresh]
  BY DEF Init
<1>6. /\ sample \in [Hosts -> {None} \cup SUBSET Drives]
      /\ entry \in [Hosts -> {None} \cup SUBSET Drives]
  BY DEF Init
<1> QED  BY <1>1, <1>2, <1>3, <1>4, <1>5, <1>6 DEF Init, TypeOK

LEMMA SetupType ==
  ASSUME TypeOK, SetupStep
  PROVE  TypeOK'
<1> USE DEF TypeOK, scriptVars, serverVars, taskVars, agentVars, netVars
<1>1. CASE MakeSecret
  <2>1. secret' \in 0..MaxSecrets /\ 0..secret \subseteq 0..secret'
    BY <1>1 DEF MakeSecret
  <2>2. 1..secret \subseteq 1..secret'
    BY <1>1 DEF MakeSecret
  <2>3. registered' \in [Hosts -> BOOLEAN]
    BY <1>1 DEF MakeSecret
  <2>4. agentFile' \in [Hosts -> 0..secret'] /\ agentKey' \in [Hosts -> 1..secret' \cup {Off}]
    BY <2>1, <2>2, <1>1 DEF MakeSecret
  <2> QED  BY <2>1, <2>3, <2>4, <1>1 DEF MakeSecret
<1>2. CASE BeginCopy
  <2>1. piFile' \in 0..secret'  BY <1>2 DEF BeginCopy
  <2> QED  BY <2>1, <1>2 DEF BeginCopy
<1>3. CASE EndCopy  BY <1>3 DEF EndCopy
<1>4. CASE ServerStarts  BY <1>4 DEF ServerStarts
<1>5. CASE ServerStops   BY <1>5 DEF ServerStops
<1> QED  BY <1>1, <1>2, <1>3, <1>4, <1>5 DEF SetupStep

LEMMA StopType ==
  ASSUME TypeOK, NEW h \in Hosts, StopAgent(h)
  PROVE  /\ agentKey' \in [Hosts -> 1..secret \cup {Off}]
         /\ ids' \in [Hosts -> SUBSET Drives] /\ age' \in [Hosts -> 0..Refresh]
         /\ {total, previous, bytes, carried, listed}' \subseteq [Hosts -> 0..MaxBytes]
         /\ sample' \in [Hosts -> {None} \cup SUBSET Drives]
         /\ \A g \in Hosts : agentKey'[g] = Off => sample'[g] = None /\ ids'[g] = {}
         /\ \A g \in Hosts : sample'[g] = None => bytes'[g] = 0
  BY DEF TypeOK, StopAgent, NoSample

LEMMA SampleType ==
  ASSUME TypeOK, NEW h \in Hosts, agentKey[h] # Off, NEW known, Sample(h, known)
  PROVE  /\ {total, previous, bytes, carried, listed}' \subseteq [Hosts -> 0..MaxBytes]
         /\ sample' \in [Hosts -> {None} \cup SUBSET Drives]
         /\ \A g \in Hosts \ {h} : sample'[g] = sample[g]
         /\ \A g \in Hosts : sample'[g] = None => bytes'[g] = 0
<1>1. Received(h) \in 0..MaxBytes
  BY DEF TypeOK, Received
<1>2. Mounted(h) \cap known \in SUBSET Drives /\ Mounted(h) \cap known # None
  BY DEF Mounted
<1>3. CASE NoSample(h)
  BY <1>3 DEF TypeOK, Sample, NoSample
<1>4. CASE /\ sample' = [sample EXCEPT ![h] = Mounted(h) \cap known]
           /\ bytes' = [bytes EXCEPT ![h] = Received(h)]
  BY <1>1, <1>2, <1>4 DEF TypeOK, Sample
<1> QED  BY <1>3, <1>4 DEF Sample

LEMMA PcType ==
  ASSUME TypeOK, NEW h \in Hosts, PcStep(h)
  PROVE  TypeOK'
<1> USE DEF scriptVars, serverVars, taskVars, agentVars, netVars
<1>1. CASE Register(h)
  <2>1. StopAgent(h)  BY <1>1 DEF Register
  <2> QED  BY <2>1, <1>1, StopType DEF TypeOK, Register
<1>2. CASE AgentStarts(h)
  <2>1. /\ agentFile[h] \in 1..secret /\ agentFile[h] # Off
        /\ sample[h] = None
    BY <1>2 DEF TypeOK, AgentStarts
  <2>2. ids' \in [Hosts -> SUBSET Drives] /\ \A g \in Hosts \ {h} : ids'[g] = ids[g]
    BY <1>2 DEF TypeOK, AgentStarts, InitialPhysicalDiskIds, Mounted
  <2>3. {total, previous, bytes, carried, listed}' \subseteq [Hosts -> 0..MaxBytes]
    BY <1>2 DEF TypeOK, AgentStarts, FirstTotals
  <2>4. agentKey' \in [Hosts -> 1..secret \cup {Off}]
    BY <2>1, <1>2 DEF TypeOK, AgentStarts
  <2>5. \A g \in Hosts : agentKey'[g] = Off => sample'[g] = None /\ ids'[g] = {}
    BY <2>1, <2>2, <1>2 DEF TypeOK, AgentStarts
  <2> QED  BY <2>2, <2>3, <2>4, <2>5, <1>2 DEF TypeOK, AgentStarts
<1>3. CASE AgentStops(h)
  <2>1. StopAgent(h)  BY <1>3 DEF AgentStops
  <2> QED  BY <2>1, <1>3, StopType DEF TypeOK, AgentStops
<1>4. CASE Mount(h)
  <2>1. drives' \in [Hosts -> [Drives -> Volumes]]
    <3>1. PICK d \in Mounts : drives' = [drives EXCEPT ![h] = d]
      BY <1>4 DEF Mount
    <3>2. d \in [Drives -> Volumes]
      BY DEF Mounts
    <3> QED  BY <3>1, <3>2 DEF TypeOK
  <2>2. UNCHANGED <<scriptVars, serverVars, taskVars, agentVars>>
    BY <1>4 DEF Mount
  <2> QED  BY <2>1, <2>2 DEF TypeOK
<1>5. CASE Traffic(h)
  <2>1. {total, previous, bytes, carried, listed}' \subseteq [Hosts -> 0..MaxBytes]
    BY <1>5 DEF TypeOK, Traffic
  <2> QED  BY <2>1, <1>5 DEF TypeOK, Traffic
<1>6. CASE InterfaceGone(h)
  <2>1. {total, previous, bytes, carried, listed}' \subseteq [Hosts -> 0..MaxBytes]
    BY <1>6 DEF TypeOK, InterfaceGone
  <2> QED  BY <2>1, <1>6 DEF TypeOK, InterfaceGone
<1>7. CASE Collect(h)
  <2>1. Sample(h, ids[h]) /\ agentKey[h] # Off
    BY <1>7 DEF Collect, CanCollect
  <2>2. age' \in [Hosts -> 0..Refresh]
    BY <1>7 DEF TypeOK, Collect
  <2> QED  BY <2>1, <2>2, <1>7, SampleType DEF TypeOK, Collect
<1>8. CASE RefreshIds(h)
  <2>1. Sample(h, Physical(h)) /\ agentKey[h] # Off
    BY <1>8 DEF RefreshIds, CanCollect
  <2>2. /\ age' \in [Hosts -> 0..Refresh] /\ ids' \in [Hosts -> SUBSET Drives]
        /\ \A g \in Hosts \ {h} : ids'[g] = ids[g]
    BY <1>8 DEF TypeOK, RefreshIds, Physical
  <2> QED  BY <2>1, <2>2, <1>8, SampleType DEF TypeOK, RefreshIds
<1>9. CASE RefreshFails(h)
  <2>1. Sample(h, ids[h]) /\ agentKey[h] # Off
    BY <1>9 DEF RefreshFails, CanCollect
  <2>2. age' \in [Hosts -> 0..Refresh]
    BY <1>9 DEF TypeOK, RefreshFails
  <2> QED  BY <2>1, <2>2, <1>9, SampleType DEF TypeOK, RefreshFails
<1>10. CASE Push(h)
  <2>1. {total, previous, bytes, carried, listed}' \subseteq [Hosts -> 0..MaxBytes]
    BY <1>10 DEF TypeOK, Push, NoSample
  <2>2. entry' \in [Hosts -> {None} \cup SUBSET Drives]
    BY <1>10 DEF TypeOK, Push
  <2> QED  BY <2>1, <2>2, <1>10 DEF TypeOK, Push, NoSample
<1>11. CASE PushFails(h)
  <2>1. {total, previous, bytes, carried, listed}' \subseteq [Hosts -> 0..MaxBytes]
    BY <1>11 DEF TypeOK, PushFails, NoSample
  <2> QED  BY <2>1, <1>11 DEF TypeOK, PushFails, NoSample
<1>12. CASE InterfaceListed(h)
  <2>1. PICK n \in 1..(MaxBytes - total[h]) :
               /\ listed[h] + n <= MaxBytes
               /\ total' = [total EXCEPT ![h] = @ + n]
               /\ listed' = [listed EXCEPT ![h] = @ + n]
    BY <1>12 DEF InterfaceListed
  <2>2. total[h] + n \in 0..MaxBytes /\ listed[h] + n \in 0..MaxBytes
    BY <2>1 DEF TypeOK
  <2>3. {total, previous, bytes, carried, listed}' \subseteq [Hosts -> 0..MaxBytes]
    BY <2>1, <2>2, <1>12 DEF TypeOK, InterfaceListed
  <2> QED  BY <2>3, <1>12 DEF TypeOK, InterfaceListed
<1> QED
  BY <1>1, <1>2, <1>3, <1>4, <1>5, <1>6, <1>7, <1>8, <1>9, <1>10, <1>11, <1>12
  DEF PcStep

LEMMA TypeStep == TypeOK /\ [Next]_vars => TypeOK'
<1> SUFFICES ASSUME TypeOK, [Next]_vars PROVE TypeOK'
  OBVIOUS
<1>1. CASE SetupStep                   BY <1>1, SetupType
<1>2. CASE \E h \in Hosts : PcStep(h)  BY <1>2, PcType
<1>3. CASE UNCHANGED vars
  BY <1>3 DEF vars, TypeOK, scriptVars, serverVars, taskVars, agentVars, netVars
<1> QED  BY <1>1, <1>2, <1>3, Steps

(* Every variable keeps its type: what the scripts, the server and the     *)
(* agents hold is a secret that has been made, an idle agent has no sample *)
(* and a stopped server no entry.                                          *)
THEOREM TypeCorrect == Spec => []TypeOK
  BY InitType, TypeStep, PTL DEF Spec

-----------------------------------------------------------------------------
(* Secrets *)

LEMMA SetupKeys ==
  ASSUME TypeOK, Keys, SetupStep
  PROVE  Keys'
<1> USE DEF TypeOK, Keys, scriptVars, serverVars, taskVars, agentVars, netVars
<1>1. CASE MakeSecret    BY <1>1 DEF MakeSecret
<1>2. CASE BeginCopy     BY <1>2 DEF BeginCopy
<1>3. CASE EndCopy       BY <1>3 DEF EndCopy
<1>4. CASE ServerStarts  BY <1>4 DEF ServerStarts
<1>5. CASE ServerStops   BY <1>5 DEF ServerStops
<1> QED  BY <1>1, <1>2, <1>3, <1>4, <1>5 DEF SetupStep

(* A PC changes nothing of the secret and the Pi; Register stops an agent  *)
(* with another secret, and AgentStarts reads the one that is registered.  *)
LEMMA PcKeys ==
  ASSUME TypeOK, Keys, NEW h \in Hosts, PcStep(h)
  PROVE  Keys'
<1> USE DEF scriptVars, serverVars, taskVars, agentVars, netVars
<1>1. CASE Register(h)
  <2>1. UNCHANGED <<secret, piFile, copied, serverKey, read>> /\ secret # 0
    BY <1>1 DEF Register
  <2>2. /\ agentFile' = [agentFile EXCEPT ![h] = secret]
        /\ registered' = [registered EXCEPT ![h] = TRUE]
        /\ agentKey' = [agentKey EXCEPT ![h] = Off]
    BY <1>1 DEF Register, StopAgent
  <2> QED  BY <2>1, <2>2 DEF TypeOK, Keys
<1>2. CASE AgentStarts(h)
  <2>1. /\ UNCHANGED <<secret, piFile, copied, serverKey, read>>
        /\ UNCHANGED <<agentFile, registered>>
        /\ agentKey' = [agentKey EXCEPT ![h] = agentFile[h]]
    BY <1>2 DEF AgentStarts
  <2> QED  BY <2>1 DEF TypeOK, Keys
<1>3. CASE AgentStops(h)
  <2>1. /\ UNCHANGED <<secret, piFile, copied, serverKey, read>>
        /\ UNCHANGED <<agentFile, registered>>
        /\ agentKey' = [agentKey EXCEPT ![h] = Off]
    BY <1>3 DEF AgentStops, StopAgent
  <2> QED  BY <2>1 DEF TypeOK, Keys
<1>4. CASE UNCHANGED <<scriptVars, serverKey, read, taskVars, agentKey>>
  BY <1>4 DEF Keys
<1>5. \/ Register(h) \/ AgentStarts(h) \/ AgentStops(h)
      \/ UNCHANGED <<scriptVars, serverKey, read, taskVars, agentKey>>
  BY DEF PcStep, Mount, Traffic, InterfaceListed, InterfaceGone, Collect, RefreshIds,
         RefreshFails, Push, PushFails
<1> QED  BY <1>1, <1>2, <1>3, <1>4, <1>5

LEMMA KeysStep == TypeOK /\ Keys /\ [Next]_vars => Keys'
<1> SUFFICES ASSUME TypeOK, Keys, [Next]_vars PROVE Keys'
  OBVIOUS
<1>1. CASE SetupStep                   BY <1>1, SetupKeys
<1>2. CASE \E h \in Hosts : PcStep(h)  BY <1>2, PcKeys
<1>3. CASE UNCHANGED vars
  BY <1>3 DEF vars, Keys, scriptVars, serverVars, taskVars, agentVars, netVars
<1> QED  BY <1>1, <1>2, <1>3, Steps

(* docs/index.md, 2.3: once the secret has been copied, the PC registered  *)
(* and the server started, in this order, both sign with the same secret.  *)
THEOREM OneSecret == Spec => []OrderSuffices
<1>1. Init => Keys
  BY DEF Init, Keys
<1>2. TypeOK /\ Keys => OrderSuffices
  BY DEF TypeOK, Keys, OrderSuffices, Running, Signed
<1> QED  BY <1>1, <1>2, TypeCorrect, KeysStep, PTL DEF Spec

-----------------------------------------------------------------------------
(* Bytes received *)

LEMMA SampleCounted ==
  ASSUME TypeOK, Counted, NEW h \in Hosts, NEW known, Sample(h, known)
  PROVE  Counted'
  BY DEF TypeOK, Counted, Sample

LEMMA PcCounted ==
  ASSUME TypeOK, Counted, NEW h \in Hosts, PcStep(h)
  PROVE  Counted'
<1> USE DEF TypeOK, netVars, agentVars
<1>1. CASE StopAgent(h)      BY <1>1 DEF Counted, StopAgent
<1>2. CASE AgentStarts(h)    BY <1>2 DEF Counted, AgentStarts, FirstTotals
<1>3. CASE Traffic(h)        BY <1>3 DEF Counted, Traffic
<1>4. CASE InterfaceGone(h)  BY <1>4 DEF Counted, InterfaceGone
<1>5. CASE \E known : Sample(h, known)
  BY <1>5, SampleCounted
<1>6. CASE UNCHANGED <<total, previous, carried, listed>>
  BY <1>6 DEF Counted
<1>8. CASE InterfaceListed(h)
  <2>1. PICK n \in 1..(MaxBytes - total[h]) :
               /\ total' = [total EXCEPT ![h] = @ + n]
               /\ listed' = [listed EXCEPT ![h] = @ + n]
    BY <1>8 DEF InterfaceListed
  <2> QED  BY <2>1, <1>8 DEF Counted, InterfaceListed
<1>7. \/ StopAgent(h) \/ AgentStarts(h) \/ Traffic(h) \/ InterfaceListed(h)
      \/ InterfaceGone(h) \/ \E known : Sample(h, known)
      \/ UNCHANGED <<total, previous, carried, listed>>
  BY DEF PcStep, Register, AgentStops, Mount, Collect, RefreshIds, RefreshFails,
         Push, PushFails
<1> QED  BY <1>1, <1>2, <1>3, <1>4, <1>5, <1>6, <1>7, <1>8

LEMMA CountedStep == TypeOK /\ Counted /\ [Next]_vars => Counted'
<1> SUFFICES ASSUME TypeOK, Counted, [Next]_vars PROVE Counted'
  OBVIOUS
<1>1. CASE UNCHANGED <<total, previous, carried, listed>>
  BY <1>1 DEF Counted
<1>2. CASE \E h \in Hosts : PcStep(h)  BY <1>2, PcCounted
<1>3. SetupStep \/ UNCHANGED vars => UNCHANGED <<total, previous, carried, listed>>
  BY DEF SetupStep, MakeSecret, BeginCopy, EndCopy, ServerStarts, ServerStops,
         vars, agentVars, netVars
<1> QED  BY <1>1, <1>2, <1>3, Steps

(* A sample begins only in a round of its PC, with what has been received. *)
LEMMA Honest ==
  ASSUME TypeOK, Counted, [Next]_vars, NEW g \in Hosts,
         sample[g] = None, sample'[g] # None
  PROVE  bytes'[g] <= carried[g] + listed[g]
<1>1. PICK h \in Hosts : PcStep(h)
  <2>1. ~(SetupStep \/ UNCHANGED vars)
    BY DEF SetupStep, MakeSecret, BeginCopy, EndCopy, ServerStarts, ServerStops,
           vars, agentVars
  <2> QED  BY <2>1, Steps
<1>2. \/ \E known : Sample(h, known)
      \/ NoSample(h) \/ UNCHANGED sample
  BY <1>1 DEF PcStep, Register, AgentStarts, AgentStops, StopAgent, Mount, Traffic,
              InterfaceListed, InterfaceGone, Collect, RefreshIds, RefreshFails, Push, PushFails,
              agentVars
<1>3. ~NoSample(h) /\ ~UNCHANGED sample
  BY DEF TypeOK, NoSample
<1>4. PICK known : Sample(h, known)
  BY <1>2, <1>3
<1>5. /\ sample' = [sample EXCEPT ![h] = Mounted(h) \cap known]
      /\ bytes' = [bytes EXCEPT ![h] = Received(h)]
  BY <1>3, <1>4 DEF Sample
<1>6. g = h /\ bytes'[g] = Received(g)
  BY <1>5 DEF TypeOK
<1>7. Received(g) <= carried[g] + listed[g]
  BY DEF TypeOK, Counted, Received
<1> QED  BY <1>6, <1>7

(* No sample says that more was received than what the PC received since   *)
(* the round before and what interfaces that appeared since had counted:   *)
(* the totals may fall, and previous_received with them.                   *)
THEOREM NothingInvented == Spec => RateNotInvented
<1>1. Init => Counted
  BY DEF Init, Counted
<1>2. TypeOK /\ Counted /\ [Next]_vars
        => [\A h \in Hosts : sample[h] = None /\ sample'[h] # None
                              => bytes'[h] <= carried[h] + listed[h]]_vars
  BY Honest
<1> QED
  BY <1>1, <1>2, TypeCorrect, CountedStep, PTL DEF Spec, RateNotInvented
=============================================================================
