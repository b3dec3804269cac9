---------------------------- MODULE KioskProcess ----------------------------
(***************************************************************************)
(* The life of the kiosk process: its HTTP server, its Chromium and the    *)
(* systemd unit that starts it again.                                      *)
(*                                                                         *)
(*   rust/src/bin/kiosk.rs                 run, run_browser                *)
(*   rust/src/server.rs                    serve                           *)
(*   scripts/rpi-calendar-kiosk.service    Restart, StartLimitBurst        *)
(*                                                                         *)
(* run_browser blocks a thread until Chromium exits, and #[tokio::main]    *)
(* drops its runtime before the process ends: tasks, and calls no thread   *)
(* has taken up, are cancelled, while threads are waited for.  When the    *)
(* process is gone systemd kills what is left of its control group,        *)
(* Chromium included.                                                      *)
(***************************************************************************)
EXTENDS Naturals

CONSTANTS Burst,      \* StartLimitBurst
          MaxFaults   \* bound: what goes wrong outside the program

ASSUME UnitAssumption == Burst \in Nat \ {0} /\ MaxFaults \in Nat

VARIABLES
  unit,      \* the systemd unit
  recent,    \* its starts within StartLimitIntervalSec
  main,      \* where run() is: before the browser, in select!, returned, gone
  server,    \* the task of serve()
  browser,   \* Chromium, and the thread that waits for it
  portTaken, \* another process listens on the port
  faults

procVars == <<main, server, browser>>
vars == <<unit, recent, procVars, portTaken, faults>>

TypeOK ==
  /\ unit \in {"running", "waiting", "failed"}
  /\ recent \in 0..Burst
  /\ main \in {"boot", "select", "returned", "gone"}
  /\ server \in {"binding", "serving", "ended"}
  /\ browser \in {"none", "queued", "starting", "shown", "ended"}
  /\ portTaken \in BOOLEAN
  /\ faults \in 0..MaxFaults
  /\ main = "boot" => browser = "none"
  /\ main = "gone" => server = "ended" /\ browser \in {"none", "ended"}
  /\ unit # "running" => main = "gone"

Init ==
  /\ unit = "running" /\ recent = 1
  /\ main = "boot" /\ server = "binding" /\ browser = "none"
  /\ portTaken = FALSE /\ faults = 0

UnitSame == UNCHANGED <<unit, recent, portTaken>>

Fault == faults < MaxFaults /\ faults' = faults + 1

-----------------------------------------------------------------------------
(* Mutant: serve waits until the port is free. *)
Serve_Waits ==
  /\ server = "binding" /\ main \in {"boot", "select"}
  /\ ~portTaken
  /\ server' = "serving"
  /\ UNCHANGED <<main, browser, faults>>
  /\ UnitSame

(* serve: the listener is bound, or the task ends with an error.           *)
Serve ==
  /\ server = "binding" /\ main \in {"boot", "select"}
  /\ server' = IF portTaken THEN "ended" ELSE "serving"
  /\ UNCHANGED <<main, browser, faults>>
  /\ UnitSame

(* Ctrl-C, the only signal serve() hears, ends it in good order.           *)
Interrupted ==
  /\ server = "serving"
  /\ Fault
  /\ server' = "ended"
  /\ UNCHANGED <<main, browser>>
  /\ UnitSame

(* After 600 ms run_browser is queued, whatever became of the server, *)
SpawnBrowser ==
  /\ main = "boot"
  /\ main' = "select" /\ browser' = "queued"
  /\ UNCHANGED <<server, faults>>
  /\ UnitSame

(* and a thread takes it up. *)
BrowserThread ==
  /\ browser = "queued"
  /\ browser' = "starting"
  /\ UNCHANGED <<main, server, faults>>
  /\ UnitSame

(* run_browser: Chromium is found and starts. *)
BrowserStarts ==
  /\ browser = "starting"
  /\ browser' = "shown"
  /\ UNCHANGED <<main, server, faults>>
  /\ UnitSame

(* It does not start, or exits. *)
BrowserEnds ==
  /\ browser \in {"starting", "shown"}
  /\ Fault
  /\ browser' = "ended"
  /\ UNCHANGED <<main, server>>
  /\ UnitSame

(* select!: the first of the two to end decides. *)
Select ==
  /\ main = "select" /\ (server = "ended" \/ browser = "ended")
  /\ main' = "returned"
  /\ UNCHANGED <<server, browser, faults>>
  /\ UnitSame

(* The runtime is dropped: the server's task is cancelled, and so is a     *)
(* browser that is still queued; the process ends once the thread of       *)
(* run_browser has.                                                        *)
CancelServer ==
  /\ main = "returned" /\ server # "ended"
  /\ server' = "ended"
  /\ UNCHANGED <<main, browser, faults>>
  /\ UnitSame

CancelBrowser ==
  /\ main = "returned" /\ browser = "queued"
  /\ browser' = "ended"
  /\ UNCHANGED <<main, server, faults>>
  /\ UnitSame

DropRuntime ==
  /\ main = "returned" /\ server = "ended" /\ browser = "ended"
  /\ main' = "gone"
  /\ UNCHANGED <<server, browser, faults>>
  /\ UnitSame

(* A signal or the kernel ends the process, and systemd the browser.       *)
Killed ==
  /\ main # "gone"
  /\ Fault
  /\ main' = "gone" /\ server' = "ended"
  /\ browser' = IF browser = "none" THEN "none" ELSE "ended"
  /\ UnitSame

-----------------------------------------------------------------------------
(* systemd: Restart=always, after RestartSec. *)
UnitStopped ==
  /\ unit = "running" /\ main = "gone"
  /\ unit' = "waiting"
  /\ UNCHANGED <<recent, procVars, portTaken, faults>>

Restart ==
  /\ unit = "waiting" /\ recent < Burst
  /\ unit' = "running" /\ recent' = recent + 1
  /\ main' = "boot" /\ server' = "binding" /\ browser' = "none"
  /\ UNCHANGED <<portTaken, faults>>

(* Burst starts within the interval: the unit has failed. *)
StartLimit ==
  /\ unit = "waiting" /\ recent = Burst
  /\ unit' = "failed"
  /\ UNCHANGED <<recent, procVars, portTaken, faults>>

(* A start gets older than StartLimitIntervalSec, which outlasts Burst     *)
(* lives that end before Chromium is up: 10 of RestartSec and a moment.    *)
Forget ==
  /\ recent > 0 /\ browser = "shown"
  /\ recent' = recent - 1
  /\ UNCHANGED <<unit, procVars, portTaken, faults>>

(* Another process takes the port, or gives it back. *)
PortChange ==
  /\ server # "serving"
  /\ IF portTaken THEN UNCHANGED faults ELSE Fault
  /\ portTaken' = ~portTaken
  /\ UNCHANGED <<unit, recent, procVars>>

Next ==
  \/ Serve \/ Interrupted \/ SpawnBrowser \/ BrowserThread \/ BrowserStarts
  \/ BrowserEnds \/ Select \/ CancelServer \/ CancelBrowser \/ DropRuntime
  \/ Killed
  \/ UnitStopped \/ Restart \/ StartLimit \/ Forget \/ PortChange

(* The process and systemd go on; nothing makes Chromium exit.             *)
Fairness ==
  /\ WF_vars(Serve) /\ WF_vars(SpawnBrowser)
  /\ WF_vars(BrowserThread \/ CancelBrowser) /\ WF_vars(BrowserStarts)
  /\ WF_vars(Select) /\ WF_vars(CancelServer) /\ WF_vars(DropRuntime)
  /\ WF_vars(UnitStopped) /\ WF_vars(Restart \/ StartLimit)

Spec == Init /\ [][Next]_vars
FairSpec == Spec /\ Fairness

-----------------------------------------------------------------------------
(* Properties *)

Healthy == server = "serving" /\ browser = "shown"
Hung    == main = "returned" /\ browser = "shown"

(* Whatever ends, once things stop going wrong the kiosk is up again,      *)
(* unless the start limit was hit, or run() has returned for the sake of   *)
(* its server and waits for a browser that nothing closes.                 *)
Settles == <>[](Healthy \/ Hung \/ unit = "failed")

(* README.md: after an abnormal end the kiosk is restarted within seconds. *)
(* So the server does not stay away while the unit counts as running.      *)
ServerReplaced == server = "ended" ~> server = "serving" \/ unit = "failed"
=============================================================================
