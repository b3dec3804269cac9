--------------------------- MODULE KioskPageProofs ---------------------------
(***************************************************************************)
(* Proofs about KioskPage, for any tasks, families and number of polls in  *)
(* flight: its types, that a completed task does not come back to the      *)
(* list, that a pending completion stays in sight, and that the last touch *)
(* decides about the calendar.                                             *)
(***************************************************************************)
EXTENDS KioskPage, TLAPS

USE PageAssumption DEF PageAssumption

(* What was confirmed to the page is completed on the server, which keeps  *)
(* the promise of TaskBoard.                                               *)
ServerInv == Board!Promise /\ acked \subseteq done

(* No poll is younger than the page, and an answer that still counts has   *)
(* none of the completed tasks.                                            *)
PollInv ==
  \A p \in Polls :
    /\ revision[p] <= stateRevision
    /\ poll[p] = "answered" /\ revision[p] = stateRevision => answer[p] \cap acked = {}

(* The detail is alone on the page, and stays while a completion is        *)
(* pending.                                                                *)
CoverInv ==
  /\ detail # "hidden" => calendar = "hidden" /\ finish = {}
  /\ Pending => detail = "task"

(* What timers and animations have still to do is what was asked for last. *)
CalendarInv ==
  /\ CalendarAsAsked
  /\ \A f \in finish : f.current /\ f.visible = asked

(* The steps by what they touch. *)
ServerStep     == ServerChanges \/ ServerCompletes \/ ServerRefuses \/ \E t \in Tasks : GhostEnds(t)
PollStep       == \E p \in Polls : Poll(p) \/ PollAnswered(p) \/ PollDelivered(p)
TouchStep      == \/ \E t \in Tasks : OpenTaskDetail(t)
                  \/ OpenEventDetail \/ CloseEventDetail \/ CompleteSelectedTask
                  \/ OpenCalendar \/ CloseCalendar \/ Finishes
CompletionStep == CompletionConfirmed \/ CompletionFailed

LEMMA Steps == Next => ServerStep \/ PollStep \/ TouchStep \/ CompletionStep
  BY DEF Next, ServerStep, PollStep, TouchStep, CompletionStep

-----------------------------------------------------------------------------
(* The board *)

(* The promise of TaskBoard, at any step it allows. *)
LEMMA PromiseStep == Board!Promise /\ [Board!Next]_(Board!boardVars) => Board!Promise'
<1> SUFFICES ASSUME Board!Promise, [Board!Next]_(Board!boardVars) PROVE Board!Promise'
  OBVIOUS
<1> USE DEF Board!Promise, Board!boardVars
<1>1. CASE Board!Close
  BY <1>1 DEF Board!Close
<1>2. CASE Board!Open
  BY <1>2 DEF Board!Open
<1>3. ASSUME NEW t \in shown, Board!Complete(t) PROVE Board!Promise'
  BY <1>3 DEF Board!Complete
<1>4. CASE Board!Refresh
  BY <1>4 DEF Board!Refresh
<1>5. CASE Board!Restart
  BY <1>5 DEF Board!Restart
<1>6. CASE UNCHANGED Board!boardVars
  BY <1>6
<1> QED  BY <1>1, <1>2, <1>3, <1>4, <1>5, <1>6 DEF Board!Next

(* The page's server takes no step but those of TaskBoard. *)
LEMMA ServerBoard == TypeOK /\ [Next]_vars => [Board!Next]_(Board!boardVars)
<1> SUFFICES ASSUME TypeOK, [Next]_vars PROVE [Board!Next]_(Board!boardVars)
  OBVIOUS
<1> USE DEF Board!boardVars, Board!Next, serverVars
<1>1. CASE ServerStep
  <2>1. CASE ServerChanges
    BY <2>1 DEF ServerChanges
  <2>2. CASE ServerCompletes
    BY <2>2 DEF ServerCompletes, Completable
  <2>3. CASE ServerRefuses
    BY <2>3 DEF ServerRefuses
  <2>4. ASSUME NEW t \in Tasks, GhostEnds(t) PROVE [Board!Next]_(Board!boardVars)
    BY <2>4 DEF GhostEnds, Completable
  <2> QED  BY <1>1, <2>1, <2>2, <2>3, <2>4 DEF ServerStep
<1>2. CASE PollStep
  BY <1>2 DEF PollStep, Poll, PollAnswered, PollDelivered
<1>3. CASE TouchStep
  BY <1>3 DEF TouchStep, OpenTaskDetail, OpenEventDetail, CloseEventDetail,
              CompleteSelectedTask, OpenCalendar, CloseCalendar, Finishes, Finish, ListSame
<1>4. CASE CompletionStep
  BY <1>4 DEF CompletionStep, CompletionConfirmed, CompletionFailed
<1>5. CASE UNCHANGED vars
  BY <1>5 DEF vars
<1> QED  BY <1>1, <1>2, <1>3, <1>4, <1>5, Steps

-----------------------------------------------------------------------------
(* Types *)

LEMMA InitType == Init => TypeOK
<1> SUFFICES ASSUME Init PROVE TypeOK
  OBVIOUS
<1>1. poll \in [Polls -> {"off", "sent", "answered"}] /\ revision \in [Polls -> Nat]
      /\ answer \in [Polls -> SUBSET Tasks]
  BY DEF Init
<1>2. open \in SUBSET Tasks /\ shown \in SUBSET Tasks /\ done \in SUBSET Tasks
  BY DEF Init, Board!Init
<1>3. selectedTask \in Tasks \cup {NoTask} /\ (selectedTask # NoTask <=> detail = "task")
  BY DEF Init
<1>4. /\ detail = "hidden" /\ completion = "idle" /\ calendar = "hidden" /\ asked = FALSE
      /\ finish = {} /\ ghosts = {} /\ stateCache = {} /\ acked = {}
      /\ stateRevision = 0 /\ changes \in 0..MaxChanges
  BY DEF Init
<1> QED  BY <1>1, <1>2, <1>3, <1>4 DEF TypeOK

LEMMA ServerType == TypeOK /\ ServerStep => TypeOK'
<1> SUFFICES ASSUME TypeOK, ServerStep PROVE TypeOK'
  OBVIOUS
<1> USE DEF PageSame, detailVars, calendarVars, pollVars, serverVars
<1>1. CASE ServerChanges
  <2>1. open' \in SUBSET Tasks /\ shown' \in SUBSET Tasks /\ done' \in SUBSET Tasks
    BY <1>1 DEF ServerChanges, TypeOK, Board!Close, Board!Open, Board!Refresh
  <2>2. changes' \in 0..MaxChanges /\ acked' \in SUBSET Tasks
    BY <1>1 DEF ServerChanges, TypeOK
  <2> QED  BY <2>1, <2>2, <1>1 DEF ServerChanges, TypeOK
<1>2. CASE ServerCompletes
  <2>1. open' \in SUBSET Tasks /\ shown' \in SUBSET Tasks /\ done' \in SUBSET Tasks
    BY <1>2 DEF ServerCompletes, Completable, TypeOK, Board!Complete
  <2> QED  BY <2>1, <1>2 DEF ServerCompletes, TypeOK
<1>3. CASE ServerRefuses
  BY <1>3 DEF ServerRefuses, TypeOK
<1>4. ASSUME NEW t \in Tasks, GhostEnds(t) PROVE TypeOK'
  <2>1. open' \in SUBSET Tasks /\ shown' \in SUBSET Tasks /\ done' \in SUBSET Tasks
    BY <1>4 DEF GhostEnds, Completable, TypeOK, Board!Complete
  <2> QED  BY <2>1, <1>4 DEF GhostEnds, TypeOK
<1> QED  BY <1>1, <1>2, <1>3, <1>4 DEF ServerStep

LEMMA StartType ==
  ASSUME TypeOK, NEW p \in Polls, NEW r \in Nat, StartPoll(p, r)
  PROVE  /\ poll' \in [Polls -> {"off", "sent", "answered"}]
         /\ revision' \in [Polls -> Nat] /\ answer' \in [Polls -> SUBSET Tasks]
  BY DEF TypeOK, StartPoll

LEMMA PollType == TypeOK /\ PollStep => TypeOK'
<1> SUFFICES ASSUME TypeOK, NEW p \in Polls, Poll(p) \/ PollAnswered(p) \/ PollDelivered(p)
             PROVE  TypeOK'
  BY DEF PollStep
<1> USE DEF serverVars, detailVars, calendarVars
<1>1. CASE Poll(p)
  <2>1. stateRevision \in Nat /\ StartPoll(p, stateRevision)
    BY <1>1 DEF Poll, TypeOK
  <2> QED  BY <2>1, <1>1, StartType DEF Poll, TypeOK
<1>2. CASE PollAnswered(p)
  BY <1>2 DEF PollAnswered, TypeOK
<1>3. CASE PollDelivered(p)
  <2>1. /\ poll' \in [Polls -> {"off", "sent", "answered"}] /\ answer' \in [Polls -> SUBSET Tasks]
        /\ answer[p] \in SUBSET Tasks
    BY <1>3 DEF PollDelivered, TypeOK
  <2>2. /\ stateCache' \in SUBSET Tasks /\ selectedTask' \in Tasks \cup {NoTask}
        /\ detail' \in {"hidden", "event", "task"}
        /\ selectedTask' # NoTask <=> detail' = "task"
    BY <1>3, <2>1 DEF PollDelivered, RenderAll, TypeOK
  <2> QED  BY <2>1, <2>2, <1>3 DEF PollDelivered, TypeOK
<1> QED  BY <1>1, <1>2, <1>3

LEMMA TouchType == TypeOK /\ TouchStep => TypeOK'
<1> SUFFICES ASSUME TypeOK, TouchStep PROVE TypeOK'
  OBVIOUS
<1> USE DEF ListSame, serverVars, pollVars, detailVars, calendarVars, HideCalendar
<1>1. ASSUME NEW t \in Tasks, OpenTaskDetail(t) PROVE TypeOK'
  BY <1>1 DEF OpenTaskDetail, TypeOK
<1>2. CASE OpenEventDetail
  BY <1>2 DEF OpenEventDetail, TypeOK
<1>3. CASE CloseEventDetail
  BY <1>3 DEF CloseEventDetail, TypeOK
<1>4. CASE CompleteSelectedTask
  BY <1>4 DEF CompleteSelectedTask, TypeOK
<1>5. CASE OpenCalendar
  BY <1>5 DEF OpenCalendar, TransitionCalendar, TypeOK
<1>6. CASE CloseCalendar
  <2>1. finish' \in SUBSET [visible : BOOLEAN, current : BOOLEAN]
    BY <1>6 DEF CloseCalendar, TransitionCalendar
  <2> QED  BY <2>1, <1>6 DEF CloseCalendar, TransitionCalendar, TypeOK
<1>7. CASE Finishes
  BY <1>7 DEF Finishes, Finish, TypeOK
<1> QED  BY <1>1, <1>2, <1>3, <1>4, <1>5, <1>6, <1>7 DEF TouchStep

LEMMA CompletionType == TypeOK /\ CoverInv /\ CompletionStep => TypeOK'
<1> SUFFICES ASSUME TypeOK, CoverInv, CompletionStep PROVE TypeOK'
  OBVIOUS
<1> USE DEF serverVars, calendarVars
<1>1. CASE CompletionConfirmed
  <2>1. stateRevision' \in Nat /\ stateCache' \in SUBSET Tasks /\ acked' \in SUBSET Tasks
    BY <1>1 DEF CompletionConfirmed, TypeOK
  <2>2. PICK p \in Polls : StartPoll(p, stateRevision + 1)
    BY <1>1 DEF CompletionConfirmed
  <2>3. stateRevision + 1 \in Nat
    BY DEF TypeOK
  <2> QED  BY <2>1, <2>2, <2>3, <1>1, StartType DEF CompletionConfirmed, TypeOK
<1>2. CASE CompletionFailed
  <2>1. ghosts' \in SUBSET Tasks
    <3>1. selectedTask \in Tasks
      BY <1>2 DEF CompletionFailed, CoverInv, TypeOK
    <3> QED  BY <3>1, <1>2 DEF CompletionFailed, TypeOK
  <2>2. PICK p \in Polls : StartPoll(p, stateRevision)
    BY <1>2 DEF CompletionFailed
  <2>3. stateRevision \in Nat
    BY DEF TypeOK
  <2> QED  BY <2>1, <2>2, <2>3, <1>2, StartType DEF CompletionFailed, TypeOK
<1> QED  BY <1>1, <1>2 DEF CompletionStep

-----------------------------------------------------------------------------
(* The detail and the calendar *)

LEMMA CoverStep ==
  ASSUME TypeOK, CoverInv, ServerStep \/ PollStep \/ TouchStep \/ CompletionStep
  PROVE  CoverInv'
<1> USE DEF CoverInv, Pending
<1>1. CASE ServerStep
  <2>1. UNCHANGED <<detail, calendar, finish>> /\ (Pending' => Pending)
    BY <1>1 DEF ServerStep, ServerChanges, ServerCompletes, ServerRefuses, GhostEnds, PageSame,
                detailVars, calendarVars
  <2> QED  BY <2>1
<1>2. ASSUME NEW p \in Polls, Poll(p) \/ PollAnswered(p) \/ PollDelivered(p) PROVE CoverInv'
  <2>1. UNCHANGED <<calendar, finish, completion>>
    BY <1>2 DEF Poll, PollAnswered, PollDelivered, detailVars, calendarVars
  <2>2. detail' = detail \/ (detail' = "hidden" /\ ~Pending)
    BY <1>2 DEF Poll, PollAnswered, PollDelivered, RenderAll, detailVars
  <2> QED  BY <2>1, <2>2
<1>3. CASE TouchStep
  <2> USE DEF ListSame, detailVars, calendarVars, HideCalendar, ListTouchable
  <2>1. ASSUME NEW t \in Tasks, OpenTaskDetail(t) PROVE CoverInv'
    BY <2>1 DEF OpenTaskDetail
  <2>2. CASE OpenEventDetail
    BY <2>2 DEF OpenEventDetail
  <2>3. CASE CloseEventDetail
    BY <2>3 DEF CloseEventDetail
  <2>4. CASE CompleteSelectedTask
    BY <2>4 DEF CompleteSelectedTask
  <2>5. CASE OpenCalendar
    BY <2>5 DEF OpenCalendar
  <2>6. CASE CloseCalendar
    BY <2>6 DEF CloseCalendar
  <2>7. CASE Finishes
    BY <2>7 DEF Finishes, Finish
  <2> QED  BY <1>3, <2>1, <2>2, <2>3, <2>4, <2>5, <2>6, <2>7 DEF TouchStep
<1>4. CASE CompletionStep
  BY <1>4 DEF CompletionStep, CompletionConfirmed, CompletionFailed, calendarVars
<1> QED  BY <1>1, <1>2, <1>3, <1>4 DEF PollStep

LEMMA TypeCoverInit == Init => TypeOK /\ CoverInv
<1>1. Init => CoverInv
  BY DEF Init, CoverInv, Pending
<1> QED  BY <1>1, InitType

LEMMA TypeCoverStep == TypeOK /\ CoverInv /\ [Next]_vars => TypeOK' /\ CoverInv'
<1> SUFFICES ASSUME TypeOK, CoverInv, [Next]_vars PROVE TypeOK' /\ CoverInv'
  OBVIOUS
<1>1. CASE UNCHANGED vars
  BY <1>1 DEF TypeOK, CoverInv, Pending, vars, serverVars, detailVars, calendarVars, pollVars
<1> QED
  BY <1>1, Steps, ServerType, PollType, TouchType, CompletionType, CoverStep

LEMMA TypeCoverAlways == Spec => [](TypeOK /\ CoverInv)
  BY TypeCoverInit, TypeCoverStep, PTL DEF Spec

(* Every variable of the page and its server keeps its type: a task is     *)
(* selected just while its detail is shown.                                *)
THEOREM PageTypes == Spec => []TypeOK
  BY TypeCoverAlways, PTL

(* A pending completion stays in sight: neither a poll nor a touch takes   *)
(* its detail away, and no calendar comes back over it.                    *)
THEOREM PendingStays == Spec => []PendingShown
<1>1. CoverInv => PendingShown
  BY DEF CoverInv, PendingShown
<1> QED  BY <1>1, TypeCoverAlways, PTL

LEMMA CalendarStep == TypeOK /\ CalendarInv /\ [Next]_vars => CalendarInv'
<1> SUFFICES ASSUME TypeOK, CalendarInv, [Next]_vars PROVE CalendarInv'
  OBVIOUS
<1> USE DEF CalendarInv, CalendarAsAsked, calendarVars
<1>1. CASE UNCHANGED calendarVars
  BY <1>1
<1>2. CASE HideCalendar
  BY <1>2 DEF HideCalendar
<1>3. ASSUME NEW visible \in BOOLEAN, TransitionCalendar(visible) PROVE CalendarInv'
  BY <1>3 DEF TransitionCalendar
<1>4. ASSUME NEW f \in finish, Finish(f) PROVE CalendarInv'
  <2>1. f.current /\ f.visible = asked /\ asked \in BOOLEAN
    BY DEF TypeOK
  <2>2. UNCHANGED asked /\ finish' \subseteq finish /\ calendar' = IF asked THEN "shown" ELSE "hidden"
    BY <2>1, <1>4 DEF Finish
  <2> QED  BY <2>1, <2>2
<1>5. \/ UNCHANGED calendarVars \/ HideCalendar \/ Finishes
      \/ \E visible \in BOOLEAN : TransitionCalendar(visible)
  BY DEF Next, vars, ServerChanges, ServerCompletes, ServerRefuses, GhostEnds, PageSame,
         Poll, PollAnswered, PollDelivered, OpenTaskDetail, OpenEventDetail,
         CloseEventDetail, CompleteSelectedTask, CompletionConfirmed, CompletionFailed,
         OpenCalendar, CloseCalendar
<1> QED  BY <1>1, <1>2, <1>3, <1>4, <1>5 DEF Finishes

(* The last touch decides about the calendar: no timer and no animation of *)
(* an earlier transition hides it again or leaves it shown.                *)
THEOREM LastTouchDecides == Spec => []CalendarAsAsked
<1>1. Init => CalendarInv
  BY DEF Init, CalendarInv, CalendarAsAsked
<1>2. CalendarInv => CalendarAsAsked
  BY DEF CalendarInv
<1> QED  BY <1>1, <1>2, CalendarStep, PageTypes, PTL DEF Spec

-----------------------------------------------------------------------------
(* The list *)

LEMMA ServerInvStep == TypeOK /\ ServerInv /\ [Next]_vars => ServerInv'
<1> SUFFICES ASSUME TypeOK, ServerInv, [Next]_vars PROVE ServerInv'
  OBVIOUS
<1>1. Board!Promise'
  BY ServerBoard, PromiseStep DEF ServerInv
<1>2. acked' \subseteq done'
  <2> USE DEF ServerInv, serverVars
  <2>1. CASE ServerChanges
    BY <2>1 DEF ServerChanges, Board!Close, Board!Open, Board!Refresh
  <2>2. CASE CompletionConfirmed
    BY <2>2 DEF CompletionConfirmed
  <2>3. CASE UNCHANGED acked /\ done \subseteq done'
    BY <2>3
  <2>4. CASE ServerStep /\ ~ServerChanges
    BY <2>4, <2>3 DEF ServerStep, ServerCompletes, ServerRefuses, GhostEnds, Board!Complete
  <2>5. CASE PollStep \/ TouchStep \/ CompletionFailed \/ UNCHANGED vars
    BY <2>5, <2>3 DEF PollStep, Poll, PollAnswered, PollDelivered, TouchStep, OpenTaskDetail,
                OpenEventDetail, CloseEventDetail, CompleteSelectedTask, OpenCalendar,
                CloseCalendar, Finishes, Finish, CompletionFailed, ListSame, vars
  <2> QED  BY <2>1, <2>2, <2>4, <2>5, Steps DEF CompletionStep
<1> QED  BY <1>1, <1>2 DEF ServerInv

(* A poll that starts has no answer yet. *)
LEMMA StartPollInv ==
  ASSUME TypeOK, PollInv, NEW p \in Polls, NEW r \in Nat, StartPoll(p, r),
         stateRevision' \in Nat, r <= stateRevision', stateRevision <= stateRevision',
         acked' \subseteq acked \/ stateRevision < stateRevision'
  PROVE  PollInv'
<1> SUFFICES ASSUME NEW q \in Polls
             PROVE  /\ revision'[q] <= stateRevision'
                    /\ poll'[q] = "answered" /\ revision'[q] = stateRevision'
                         => answer'[q] \cap acked' = {}
  BY DEF PollInv
<1>1. stateRevision \in Nat /\ revision[q] \in Nat /\ revision[q] <= stateRevision
  BY DEF TypeOK, PollInv
<1>2. CASE q = p
  BY <1>2 DEF StartPoll, TypeOK
<1>3. CASE q # p
  BY <1>1, <1>3 DEF StartPoll, PollInv, TypeOK
<1> QED  BY <1>2, <1>3

LEMMA ListStep ==
  TypeOK /\ ServerInv /\ PollInv /\ NoFlashback /\ [Next]_vars => PollInv' /\ NoFlashback'
<1> SUFFICES ASSUME TypeOK, ServerInv, PollInv, NoFlashback, [Next]_vars
             PROVE  PollInv' /\ NoFlashback'
  OBVIOUS
<1> USE DEF serverVars
<1>1. CASE UNCHANGED <<poll, revision, answer, stateCache, stateRevision>> /\ acked' \subseteq acked
  BY <1>1 DEF PollInv, NoFlashback
<1>2. CASE ServerStep \/ TouchStep \/ UNCHANGED vars
  BY <1>1, <1>2 DEF ServerStep, ServerChanges, ServerCompletes, ServerRefuses, GhostEnds, PageSame,
              TouchStep, OpenTaskDetail, OpenEventDetail, CloseEventDetail,
              CompleteSelectedTask, OpenCalendar, CloseCalendar, Finishes, Finish,
              ListSame, pollVars, vars
<1>3. ASSUME NEW p \in Polls, Poll(p) PROVE PollInv' /\ NoFlashback'
  <2>1. /\ StartPoll(p, stateRevision) /\ stateRevision \in Nat
        /\ UNCHANGED <<stateRevision, stateCache, acked>>
    BY <1>3 DEF Poll, TypeOK
  <2> QED  BY <2>1, StartPollInv DEF NoFlashback
(* What the server answers it shows, and it shows nothing completed.       *)
<1>4. ASSUME NEW p \in Polls, PollAnswered(p) PROVE PollInv' /\ NoFlashback'
  <2>1. shown \cap acked = {}
    BY DEF ServerInv, Board!Promise
  <2>2. UNCHANGED <<stateCache, stateRevision, revision, acked>>
    BY <1>4 DEF PollAnswered
  <2>3. \A q \in Polls : /\ answer'[q] = IF q = p THEN shown ELSE answer[q]
                         /\ q # p => poll'[q] = poll[q]
    BY <1>4 DEF PollAnswered, TypeOK
  <2> QED  BY <2>1, <2>2, <2>3 DEF PollInv, NoFlashback
<1>5. ASSUME NEW p \in Polls, PollDelivered(p) PROVE PollInv' /\ NoFlashback'
  <2>1. UNCHANGED <<stateRevision, revision, acked>> /\ poll[p] = "answered"
    BY <1>5 DEF PollDelivered
  <2>2. \A q \in Polls : /\ poll'[q] = "answered" => q # p /\ poll[q] = "answered"
                         /\ q # p => answer'[q] = answer[q]
    BY <1>5 DEF PollDelivered, TypeOK
  <2>3. PollInv'
    BY <2>1, <2>2 DEF PollInv
  <2>4. stateCache' = stateCache \/ (revision[p] = stateRevision /\ stateCache' = answer[p])
    BY <1>5 DEF PollDelivered, RenderAll
  <2> QED  BY <2>1, <2>3, <2>4 DEF PollInv, NoFlashback
(* A confirmed completion leaves no answer that counts.                    *)
<1>6. CASE CompletionConfirmed
  <2>1. /\ stateRevision' = stateRevision + 1 /\ stateRevision \in Nat
        /\ stateCache' \subseteq stateCache \ {selectedTask}
        /\ acked' \subseteq acked \cup {selectedTask}
    BY <1>6 DEF CompletionConfirmed, TypeOK
  <2>2. PICK p \in Polls : StartPoll(p, stateRevision + 1)
    BY <1>6 DEF CompletionConfirmed
  <2>3. /\ stateRevision' \in Nat /\ stateRevision + 1 \in Nat
        /\ stateRevision + 1 <= stateRevision' /\ stateRevision < stateRevision'
        /\ stateRevision <= stateRevision'
    BY <2>1
  <2>4. PollInv'
    BY <2>2, <2>3, StartPollInv
  <2> QED  BY <2>1, <2>4 DEF NoFlashback
<1>7. CASE CompletionFailed
  <2>1. PICK p \in Polls : StartPoll(p, stateRevision)
    BY <1>7 DEF CompletionFailed
  <2>2. stateRevision \in Nat /\ UNCHANGED <<stateRevision, stateCache, acked>>
    BY <1>7 DEF CompletionFailed, TypeOK
  <2> QED  BY <2>1, <2>2, StartPollInv DEF NoFlashback
<1> QED  BY <1>2, <1>3, <1>4, <1>5, <1>6, <1>7, Steps DEF PollStep, CompletionStep

(* What the page was told is completed does not come back to the list, not *)
(* even from a poll that was answered before.                              *)
THEOREM CompletedStaysOff == Spec => []NoFlashback
<1>1. Init => ServerInv /\ PollInv /\ NoFlashback
  BY DEF Init, Board!Init, ServerInv, Board!Promise, PollInv, NoFlashback
<1> QED  BY <1>1, ServerInvStep, ListStep, PageTypes, PTL DEF Spec
=============================================================================
