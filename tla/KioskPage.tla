----------------------------- MODULE KioskPage -----------------------------
(***************************************************************************)
(* The task list of the kiosk page (web/app.js): the polls of /api/state,  *)
(* which overlap and whose answers overtake one another, the detail of one *)
(* task, its completion, and the calendar that slides over the list,       *)
(* against a server that does what TaskBoard allows (CalendarSync          *)
(* implements it).  The page lives within one server process: systemd      *)
(* stops the browser with the server.                                      *)
(*                                                                         *)
(* The detail covers the list and the calendar, and the calendar the list, *)
(* except while it leaves, when touches go through it (style.css): what is *)
(* covered cannot be touched.  The server is on the same machine: polls    *)
(* are answered, while completions may fail or take longer than the page   *)
(* waits (55 s).                                                           *)
(***************************************************************************)
EXTENDS Naturals

CONSTANTS Tasks, Parent, NoTask,
          Polls,       \* bound: requests for /api/state in flight
          MaxChanges   \* bound: changes of Google's tasks and of the board

ASSUME PageAssumption ==
  /\ Parent \in [Tasks -> Tasks \cup {NoTask}]
  /\ NoTask \notin Tasks
  /\ MaxChanges \in Nat

VARIABLES
  open, shown, done,   \* the server, as in TaskBoard
  changes,             \* how often it changed on its own
  ghosts,              \* completions whose page has stopped waiting
  stateCache,          \* the tasks of the last state rendered
  stateRevision,
  selectedTask,        \* the task of the detail, NoTask for an event's
  detail,              \* what #event-detail shows
  completion,          \* taskCompletionPending, and how far the request is
  calendar,            \* #calendar, hidden or not, and its class
  finish,              \* the finish of each transition that a timer or the
                       \* end of an animation may still run: which way, and
                       \* whether it has the sequence's present number
  poll,                \* each request: off, sent or answered,
  revision,            \* the stateRevision at its start
  answer,              \* and the tasks it was answered with
  acked,               \* history: completions confirmed to the page, not
                       \* reopened since
  asked                \* history: the user's last touch was for the calendar

Board == INSTANCE TaskBoard

serverVars == <<open, shown, done, changes, ghosts>>
detailVars == <<selectedTask, detail, completion>>
calendarVars == <<calendar, finish, asked>>
pollVars   == <<poll, revision, answer>>
vars == <<serverVars, stateCache, stateRevision, detailVars, calendarVars,
          pollVars, acked>>

Pending == completion # "idle"

TypeOK ==
  /\ open \in SUBSET Tasks /\ shown \in SUBSET Tasks /\ done \in SUBSET Tasks
  /\ changes \in 0..MaxChanges
  /\ ghosts \in SUBSET Tasks
  /\ stateCache \in SUBSET Tasks
  /\ stateRevision \in Nat
  /\ selectedTask \in Tasks \cup {NoTask}
  /\ detail \in {"hidden", "event", "task"}
  /\ selectedTask # NoTask <=> detail = "task"
  /\ completion \in {"idle", "sent", "completed", "refused"}
  /\ calendar \in {"hidden", "entering", "shown", "leaving"}
  /\ finish \in SUBSET [visible : BOOLEAN, current : BOOLEAN]
  /\ asked \in BOOLEAN
  /\ poll \in [Polls -> {"off", "sent", "answered"}]
  /\ revision \in [Polls -> Nat]
  /\ answer \in [Polls -> SUBSET Tasks]
  /\ acked \in SUBSET Tasks

Init ==
  /\ Board!Init
  /\ changes = 0 /\ ghosts = {}
  /\ stateCache = {} /\ stateRevision = 0
  /\ selectedTask = NoTask /\ detail = "hidden" /\ completion = "idle"
  /\ calendar = "hidden" /\ finish = {} /\ asked = FALSE
  /\ poll = [p \in Polls |-> "off"]
  /\ revision = [p \in Polls |-> 0]
  /\ answer = [p \in Polls |-> {}]
  /\ acked = {}

-----------------------------------------------------------------------------
(* The server *)

PageSame == UNCHANGED <<stateCache, stateRevision, detailVars, calendarVars, pollVars>>

(* Google or another sync changes what the server shows. *)
ServerChanges ==
  /\ changes < MaxChanges
  /\ changes' = changes + 1
  /\ Board!Close \/ Board!Open \/ Board!Refresh
  /\ acked' = acked \ open'
  /\ UNCHANGED ghosts
  /\ PageSame

Completable(t) == t \in shown /\ Board!TopLevel(t)

(* POST /api/tasks/{id}/complete succeeds, *)
ServerCompletes ==
  /\ completion = "sent" /\ Completable(selectedTask)
  /\ Board!Complete(selectedTask)
  /\ completion' = "completed"
  /\ UNCHANGED <<changes, ghosts, stateCache, stateRevision, selectedTask, detail,
                 calendarVars, pollVars, acked>>

(* or fails, for any reason. *)
ServerRefuses ==
  /\ completion = "sent"
  /\ completion' = "refused"
  /\ UNCHANGED <<serverVars, stateCache, stateRevision, selectedTask, detail,
                 calendarVars, pollVars, acked>>

(* A completion the page no longer waits for ends, one way or the other. *)
GhostEnds(t) ==
  /\ t \in ghosts
  /\ ghosts' = ghosts \ {t}
  /\ \/ Completable(t) /\ Board!Complete(t)
     \/ UNCHANGED <<open, shown, done>>
  /\ UNCHANGED <<changes, acked>>
  /\ PageSame

-----------------------------------------------------------------------------
(* Polling *)

(* Mutant: a poll carries the revision of the page's start. *)
StartPoll_Stale(p, r) ==
  /\ poll[p] = "off"
  /\ poll' = [poll EXCEPT ![p] = "sent"]
  /\ revision' = [revision EXCEPT ![p] = 0]
  /\ UNCHANGED answer

(* poll(): every 2 s, and after each completion. *)
StartPoll(p, r) ==
  /\ poll[p] = "off"
  /\ poll' = [poll EXCEPT ![p] = "sent"]
  /\ revision' = [revision EXCEPT ![p] = r]
  /\ UNCHANGED answer

Poll(p) ==
  /\ UNCHANGED <<serverVars, stateCache, stateRevision, detailVars, calendarVars, acked>>
  /\ StartPoll(p, stateRevision)

(* api_state takes its snapshot. *)
PollAnswered(p) ==
  /\ poll[p] = "sent"
  /\ poll' = [poll EXCEPT ![p] = "answered"]
  /\ answer' = [answer EXCEPT ![p] = shown]
  /\ UNCHANGED <<serverVars, stateCache, stateRevision, detailVars, calendarVars,
                 revision, acked>>

(* Mutant: the detail closes under a pending completion. *)
RenderAll_Closes(T) ==
  /\ stateCache' = T
  /\ IF selectedTask # NoTask /\ selectedTask \notin T
       THEN selectedTask' = NoTask /\ detail' = "hidden"
       ELSE UNCHANGED <<selectedTask, detail>>

(* Mutant: the detail of a task that is gone stays. *)
RenderAll_Keeps(T) ==
  /\ stateCache' = T
  /\ UNCHANGED <<selectedTask, detail>>

(* renderAll: a detail whose task is gone closes, unless its completion is *)
(* pending. *)
RenderAll(T) ==
  /\ stateCache' = T
  /\ IF selectedTask # NoTask /\ ~Pending /\ selectedTask \notin T
       THEN selectedTask' = NoTask /\ detail' = "hidden"
       ELSE UNCHANGED <<selectedTask, detail>>

(* Mutant: a poll older than a completion still counts. *)
PollDelivered_Always(p) ==
  /\ poll[p] = "answered"
  /\ poll' = [poll EXCEPT ![p] = "off"]
  /\ answer' = [answer EXCEPT ![p] = {}]
  /\ RenderAll(answer[p])
  /\ UNCHANGED <<serverVars, stateRevision, completion, calendarVars, revision, acked>>

(* The answer counts only while no completion has been confirmed since. *)
PollDelivered(p) ==
  /\ poll[p] = "answered"
  /\ poll' = [poll EXCEPT ![p] = "off"]
  /\ answer' = [answer EXCEPT ![p] = {}]
  /\ IF revision[p] = stateRevision
       THEN RenderAll(answer[p])
       ELSE UNCHANGED <<stateCache, selectedTask, detail>>
  /\ UNCHANGED <<serverVars, stateRevision, completion, calendarVars, revision, acked>>

-----------------------------------------------------------------------------
(* The detail *)

ListSame == UNCHANGED <<serverVars, stateCache, stateRevision, pollVars, acked>>

(* hideCalendarImmediately: whatever transition was on is over. *)
HideCalendar == calendar' = "hidden" /\ finish' = {} /\ asked' = FALSE

ListTouchable == detail = "hidden" /\ calendar \in {"hidden", "leaving"}

OpenTaskDetail(t) ==
  /\ ListTouchable /\ t \in stateCache /\ Board!TopLevel(t)
  /\ selectedTask' = t /\ detail' = "task"
  /\ HideCalendar
  /\ UNCHANGED completion
  /\ ListSame

OpenEventDetail ==
  /\ ListTouchable
  /\ selectedTask' = NoTask /\ detail' = "event"
  /\ HideCalendar
  /\ UNCHANGED completion
  /\ ListSame

(* Mutant: the selection outlives the detail. *)
CloseEventDetail_Keeps ==
  /\ detail # "hidden" /\ ~Pending
  /\ detail' = "hidden"
  /\ UNCHANGED <<selectedTask, completion, calendarVars>>
  /\ ListSame

CloseEventDetail ==
  /\ detail # "hidden" /\ ~Pending
  /\ selectedTask' = NoTask /\ detail' = "hidden"
  /\ UNCHANGED <<completion, calendarVars>>
  /\ ListSame

(* completeSelectedTask, up to its fetch. *)
CompleteSelectedTask ==
  /\ detail = "task" /\ selectedTask # NoTask /\ ~Pending
  /\ completion' = "sent"
  /\ UNCHANGED <<selectedTask, detail, calendarVars>>
  /\ ListSame

(* The answer "completed": older polls are void, the task leaves the list, *)
(* the detail closes and the page polls. *)
CompletionConfirmed ==
  /\ completion = "completed"
  /\ stateRevision' = stateRevision + 1
  /\ stateCache' = stateCache \ ({selectedTask} \cup Board!Subtasks(selectedTask))
  /\ acked' = acked \cup ({selectedTask} \cap done)
  /\ completion' = "idle" /\ selectedTask' = NoTask /\ detail' = "hidden"
  /\ \E p \in Polls : StartPoll(p, stateRevision + 1)
  /\ UNCHANGED <<serverVars, calendarVars>>

(* An error, or no answer within 55 s: the detail stays, with the error,   *)
(* and the page polls.  The server may still be at it.                     *)
CompletionFailed ==
  /\ Pending
  /\ completion' = "idle"
  /\ ghosts' = IF completion = "sent" THEN ghosts \cup {selectedTask} ELSE ghosts
  /\ \E p \in Polls : StartPoll(p, stateRevision)
  /\ UNCHANGED <<open, shown, done, changes, stateCache, stateRevision,
                 selectedTask, detail, calendarVars, acked>>

-----------------------------------------------------------------------------
(* The calendar *)

(* Mutant: the timer of the transition before goes on, and counts. *)
TransitionCalendar_KeepsTimer(visible) ==
  /\ calendar' = IF visible THEN "entering" ELSE "leaving"
  /\ finish' = finish \cup {[visible |-> visible, current |-> TRUE]}
  /\ asked' = visible

(* Mutant: the transition takes its number before the sequence moves on. *)
TransitionCalendar_PostIncrement(visible) ==
  /\ calendar' = IF visible THEN "entering" ELSE "leaving"
  /\ finish' = {[visible |-> visible, current |-> FALSE]}
  /\ asked' = visible

(* transitionCalendar: a new number, timer and animation; the timer and    *)
(* the handler of the transition before are cleared.                       *)
TransitionCalendar(visible) ==
  /\ calendar' = IF visible THEN "entering" ELSE "leaving"
  /\ finish' = {[visible |-> visible, current |-> TRUE]}
  /\ asked' = visible

(* openCalendar closes the detail; not while a completion is pending. *)
OpenCalendar ==
  /\ ListTouchable /\ ~Pending
  /\ selectedTask' = NoTask /\ detail' = "hidden"
  /\ TransitionCalendar(TRUE)
  /\ UNCHANGED completion
  /\ ListSame

CloseCalendar ==
  /\ detail = "hidden" /\ calendar \in {"entering", "shown"}
  /\ TransitionCalendar(FALSE)
  /\ UNCHANGED detailVars
  /\ ListSame

(* The timer fires or the animation ends, whichever comes first. *)
Finish(f) ==
  /\ f \in finish
  /\ IF f.current
       THEN /\ calendar' = IF f.visible THEN "shown" ELSE "hidden"
            /\ finish' = finish \ {f}
       ELSE /\ finish' = finish \ {f}
            /\ UNCHANGED calendar
  /\ UNCHANGED <<asked, detailVars>>
  /\ ListSame

Finishes == \E f \in finish : Finish(f)

Next ==
  \/ ServerChanges \/ ServerCompletes \/ ServerRefuses
  \/ \E t \in Tasks : GhostEnds(t) \/ OpenTaskDetail(t)
  \/ \E p \in Polls : Poll(p) \/ PollAnswered(p) \/ PollDelivered(p)
  \/ OpenEventDetail \/ CloseEventDetail
  \/ CompleteSelectedTask \/ CompletionConfirmed \/ CompletionFailed
  \/ OpenCalendar \/ CloseCalendar \/ Finishes

(* The timer of setInterval and the time-outs fire; the server answers.    *)
Fairness ==
  /\ \A p \in Polls : WF_vars(Poll(p)) /\ WF_vars(PollAnswered(p))
                        /\ WF_vars(PollDelivered(p))
  /\ SF_vars(CompletionConfirmed) /\ SF_vars(CompletionFailed)
  /\ WF_vars(Finishes)

Spec == Init /\ [][Next]_vars
FairSpec == Spec /\ Fairness

-----------------------------------------------------------------------------
(* Properties *)

(* What the page was told is completed does not come back to the list, not *)
(* even from a poll that was answered before (the comment at line 676).    *)
NoFlashback == stateCache \cap acked = {}

(* While a completion is pending its detail is what the user sees: neither *)
(* a poll nor a touch replaces it, nor does the calendar come back.        *)
PendingShown == Pending => detail = "task" /\ calendar = "hidden"

(* The last touch decides about the calendar: no timer and no animation of *)
(* an earlier transition hides it again or leaves it shown (the sequence   *)
(* number of transitionCalendar).                                          *)
CalendarAsAsked == asked <=> calendar \in {"entering", "shown"}

(* Every transition ends: a calendar that leaves is not left on the page.  *)
CalendarSettles ==
  \A b \in BOOLEAN :
    <>[](asked = b) => <>[](calendar = IF b THEN "shown" ELSE "hidden")

(* When the board no longer changes, the page comes to show it. *)
ShowsTheBoard ==
  \A S \in SUBSET Tasks : <>[](shown = S) => <>[](stateCache = S)

(* The detail of a task that is gone from the list closes, unless its user *)
(* keeps asking for its completion.                                        *)
StaleDetailCloses ==
  <>[](detail = "task" /\ selectedTask \notin stateCache) => []<>Pending
=============================================================================
