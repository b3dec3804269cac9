----------------------------- MODULE SyncRound -----------------------------
(***************************************************************************)
(* One round of the sync loop, request by request (rust/src/google.rs):    *)
(* sync_once reads the events, the holidays, the index of the task lists   *)
(* and every list, page by page, while phones edit the account, the access *)
(* token expires and the consent may be revoked.  CalendarSync has the     *)
(* lock, the handlers and the cache around it; there a list is read in one *)
(* step, here in as many as it has pages.                                  *)
(*                                                                         *)
(* Google keeps an item on its page while it lives; a page it has emptied  *)
(* may still be announced.  It accepts an access token that has not        *)
(* expired while the consent stands.  It refuses a token with 401, or with *)
(* 403 what the consent no longer covers; 403 may have other reasons too,  *)
(* as a quota, which get_json does not tell apart.  The token file can be  *)
(* read (TokenFile models it).                                             *)
(***************************************************************************)
EXTENDS Naturals

CONSTANTS
  Items,                      \* events, holidays, task lists and tasks
  Events, Holidays, Lists,    \* the primary and the holiday calendar, and
                              \* the index of the task lists
  Home,                       \* the calendar, index or task list of an item
  PageOf,                     \* its page there
  MaxChanges                  \* bound: changes of the account, the network,
                              \* the tokens, the disk and Google's limits

Of(s)     == {i \in Items : Home[i] = s}
TaskLists == Of(Lists)
Tasks     == {i \in Items : Home[i] \in TaskLists}
Shown     == Items \ TaskLists
Sources   == {Events, Holidays, Lists} \cup TaskLists

ASSUME ItemAssumption ==
  /\ Home \in [Items -> Sources]
  /\ PageOf \in [Items -> Nat \ {0}]
  /\ Events # Holidays /\ Events # Lists /\ Holidays # Lists
  /\ Items \cap {Events, Holidays, Lists} = {}

ASSUME BoundAssumption == MaxChanges \in Nat

VARIABLES
  items, error, auth,   \* CalendarData: events and tasks, last_error, auth_required
  pc,                   \* where sync_once is
  source, page,         \* the request it is at,
  retried,              \* and whether it has been refused once
  got,                  \* what it has read of all sources
  left,                 \* task lists still to be read
  fetched, warn,        \* the tasks are complete; a warning was collected
  failure,              \* what ended it
  session,              \* its token document: trusted by its expiry, and
  stored,               \* accepted by Google; and the one in the file
  present, up, consent, \* Google: what there is; the network; the grant
  changes,
  always, ever,         \* history: there all along, or at some time, since
                        \* the round began
  trouble               \* history: the network, the grant, the disk or a
                        \* list failed since then, or Google refused

dataVars   == <<items, error, auth>>
tokenVars  == <<session, stored>>
googleVars == <<present, up, consent, changes, always, ever>>
vars == <<dataVars, pc, source, page, retried, got, left, fetched, warn, failure,
          tokenVars, googleVars, trouble>>

Token == [trusted : BOOLEAN, accepted : BOOLEAN]

TypeOK ==
  /\ items \in SUBSET Shown
  /\ error \in {"none", "warning", "failure"} /\ auth \in BOOLEAN
  /\ auth => error = "failure"
  /\ pc \in {"sleep", "get", "refresh", "sent", "apply", "failed"}
  /\ source \in Sources /\ page \in Nat /\ retried \in BOOLEAN
  /\ got \in SUBSET Items /\ left \in SUBSET TaskLists
  /\ fetched \in BOOLEAN /\ warn \in BOOLEAN /\ failure \in {"none", "auth", "other"}
  /\ session \in Token /\ stored \in Token
  /\ present \in SUBSET Items /\ up \in BOOLEAN /\ consent \in BOOLEAN
  /\ changes \in 0..MaxChanges
  /\ always \in SUBSET Items /\ ever \in SUBSET Items /\ trouble \in BOOLEAN

(* A task is there only while its list is. *)
Account(P) == \A i \in P : Home[i] \in TaskLists => Home[i] \in P

Init ==
  /\ present \in {P \in SUBSET Items : Account(P)}
  /\ items \in {{}, Shown} /\ error = "none" /\ auth = FALSE
  /\ pc = "sleep" /\ source = Events /\ page = 1 /\ retried = FALSE
  /\ got = {} /\ left = {} /\ fetched = FALSE /\ warn = FALSE /\ failure = "none"
  /\ stored \in Token /\ session = stored
  /\ up \in BOOLEAN /\ consent \in BOOLEAN /\ changes = 0
  /\ always = present /\ ever = present /\ trouble = FALSE

-----------------------------------------------------------------------------
(* Requests *)

Request(s, n) == pc' = "get" /\ source' = s /\ page' = n /\ retried' = FALSE
Move(to) == pc' = to /\ UNCHANGED <<source, page, retried>>
RoundSame == UNCHANGED <<got, left, fetched, warn, failure>>

(* sync_once begins: GoogleSession::load, and the first request. *)
Start ==
  /\ pc = "sleep"
  /\ Request(Events, 1)
  /\ got' = {} /\ left' = {} /\ fetched' = FALSE /\ warn' = FALSE /\ failure' = "none"
  /\ session' = stored
  /\ always' = present /\ ever' = present /\ trouble' = ~(up /\ consent)
  /\ UNCHANGED <<dataVars, stored, present, up, consent, changes>>

(* The tasks are read or given up: apply_success comes next. *)
Apply(complete) == Move("apply") /\ fetched' = complete

(* A request fails for good, as its reader takes it: failed events end the *)
(* round; failed holidays are a warning and an empty list; failed tasks a  *)
(* warning, and no list at all.                                            *)
Fail(kind) ==
  \/ /\ source = Events
     /\ Move("failed") /\ failure' = kind
     /\ UNCHANGED <<got, left, fetched, warn>>
  \/ /\ source = Holidays
     /\ Request(Lists, 1)
     /\ got' = {i \in got : Home[i] # Holidays} /\ warn' = TRUE
     /\ UNCHANGED <<left, fetched, failure>>
  \/ /\ source \in {Lists} \cup TaskLists
     /\ Apply(FALSE) /\ warn' = TRUE
     /\ UNCHANGED <<got, left, failure>>

(* get_json asks access_token(false): the token of the document, while its *)
(* expiry is more than a minute away.                                      *)
GetJson ==
  /\ pc = "get"
  /\ Move(IF session.trusted THEN "sent" ELSE "refresh")
  /\ RoundSame
  /\ UNCHANGED <<dataVars, tokenVars, googleVars, trouble>>

NewToken == [trusted |-> TRUE, accepted |-> TRUE]

(* refresh_token: a new access token for the session and the file, *)
RefreshToken ==
  /\ pc = "refresh" /\ up /\ consent
  /\ session' = NewToken /\ stored' = NewToken
  /\ Move("sent")
  /\ RoundSame
  /\ UNCHANGED <<dataVars, googleVars, trouble>>

(* which the session has even when it cannot be saved; *)
SaveFails ==
  /\ pc = "refresh" /\ up /\ consent /\ changes < MaxChanges
  /\ changes' = changes + 1 /\ trouble' = TRUE
  /\ session' = NewToken
  /\ Fail("other")
  /\ UNCHANGED <<dataVars, stored, present, up, consent, always, ever>>

(* or the grant is refused, or Google cannot be reached. *)
RefreshFails ==
  /\ pc = "refresh"
  /\ \/ up /\ ~consent /\ Fail("auth")
     \/ ~up /\ Fail("other")
  /\ UNCHANGED <<dataVars, tokenVars, googleVars, trouble>>

Accepted == session.accepted /\ consent

(* Mutant: the second request goes out with the first one's token. *)
Refused_SameToken ==
  /\ pc = "sent" /\ up /\ ~Accepted
  /\ \/ ~retried /\ retried' = TRUE /\ pc' = "sent"
        /\ UNCHANGED <<source, page>> /\ RoundSame
     \/ (retried \/ ~consent) /\ Fail("auth")
  /\ UNCHANGED <<dataVars, tokenVars, googleVars, trouble>>

(* 401: once more with a new token, and then no more.  A 403, which says   *)
(* that the consent is gone, is the end at once.                           *)
Refused ==
  /\ pc = "sent" /\ up /\ ~Accepted
  /\ \/ ~retried /\ retried' = TRUE /\ pc' = "refresh"
        /\ UNCHANGED <<source, page>> /\ RoundSame
     \/ (retried \/ ~consent) /\ Fail("auth")
  /\ UNCHANGED <<dataVars, tokenVars, googleVars, trouble>>

(* 403 for another reason ends the request like one for want of consent.   *)
Forbidden ==
  /\ pc = "sent" /\ up /\ Accepted /\ changes < MaxChanges
  /\ changes' = changes + 1 /\ trouble' = TRUE
  /\ Fail("auth")
  /\ UNCHANGED <<dataVars, tokenVars, present, up, consent, always, ever>>

(* No answer, or the list is gone (404). *)
RequestFails ==
  /\ pc = "sent"
  /\ ~up \/ (Accepted /\ source \in TaskLists \ present)
  /\ Fail("other")
  /\ UNCHANGED <<dataVars, tokenVars, googleVars, trouble>>

-----------------------------------------------------------------------------
(* Pages *)

OnPage == {i \in present : Home[i] = source /\ PageOf[i] = page}
Later  == {i \in Items : Home[i] = source /\ PageOf[i] > page}
Answered == pc = "sent" /\ up /\ Accepted /\ source \notin TaskLists \ present

(* Mutant: the next request is without the token it was given. *)
NextPage_Same ==
  /\ Answered /\ Later # {}
  /\ got' = got \cup OnPage
  /\ Request(source, page)
  /\ UNCHANGED <<dataVars, left, fetched, warn, failure, tokenVars, googleVars, trouble>>

(* An answer with a nextPageToken: its items, and the next request. *)
NextPage ==
  /\ Answered /\ Later # {}
  /\ got' = got \cup OnPage
  /\ Request(source, page + 1)
  /\ UNCHANGED <<dataVars, left, fetched, warn, failure, tokenVars, googleVars, trouble>>

(* Mutant: the first page is taken for all there is. *)
LastPage_First ==
  /\ Answered
  /\ got' = got \cup OnPage
  /\ \/ source = Events /\ Request(Holidays, 1) /\ UNCHANGED <<left, fetched>>
     \/ source = Holidays /\ Request(Lists, 1) /\ UNCHANGED <<left, fetched>>
     \/ /\ source \in {Lists} \cup TaskLists
        /\ left' = IF source = Lists THEN got' \cap TaskLists ELSE left \ {source}
        /\ \/ \E l \in left' : Request(l, 1) /\ UNCHANGED fetched
           \/ left' = {} /\ Apply(TRUE)
  /\ UNCHANGED <<dataVars, warn, failure, tokenVars, googleVars, trouble>>

(* The last page of a source, and the next source: list_events twice, then *)
(* list_all_tasks_at with its index and one list after the other.          *)
LastPage ==
  /\ Answered /\ Later \cap present = {}
  /\ got' = got \cup OnPage
  /\ \/ source = Events /\ Request(Holidays, 1) /\ UNCHANGED <<left, fetched>>
     \/ source = Holidays /\ Request(Lists, 1) /\ UNCHANGED <<left, fetched>>
     \/ /\ source \in {Lists} \cup TaskLists
        /\ left' = IF source = Lists THEN got' \cap TaskLists ELSE left \ {source}
        /\ \/ \E l \in left' : Request(l, 1) /\ UNCHANGED fetched
           \/ left' = {} /\ Apply(TRUE)
  /\ UNCHANGED <<dataVars, warn, failure, tokenVars, googleVars, trouble>>

-----------------------------------------------------------------------------
(* The end of a round *)

Rest == Move("sleep") /\ RoundSame /\ UNCHANGED <<tokenVars, googleVars, trouble>>

(* Mutant: a success leaves the flag of an earlier failure. *)
ApplySuccess_KeepsFlag ==
  /\ pc = "apply"
  /\ items' = (got \ (Tasks \cup TaskLists))
                \cup (Tasks \cap (IF fetched THEN got ELSE items))
  /\ error' = IF warn THEN "warning" ELSE "none"
  /\ UNCHANGED auth
  /\ Rest

(* apply_success: new events and holidays, the old tasks when none were    *)
(* read.                                                                   *)
ApplySuccess ==
  /\ pc = "apply"
  /\ items' = (got \ (Tasks \cup TaskLists))
                \cup (Tasks \cap (IF fetched THEN got ELSE items))
  /\ error' = IF warn THEN "warning" ELSE "none"
  /\ auth' = FALSE
  /\ Rest

(* Mutant: a failure does not touch the flag. *)
RecordError_KeepsFlag ==
  /\ pc = "failed"
  /\ error' = "failure"
  /\ UNCHANGED <<items, auth>>
  /\ Rest

(* run_sync_loop: record_error. *)
RecordError ==
  /\ pc = "failed"
  /\ error' = "failure" /\ auth' = (failure = "auth")
  /\ UNCHANGED items
  /\ Rest

-----------------------------------------------------------------------------
(* The account, the network, the tokens *)

Change ==
  /\ changes < MaxChanges /\ changes' = changes + 1
  /\ UNCHANGED <<dataVars, pc, source, page, retried, got, left, fetched, warn, failure>>

(* A phone adds or removes an item; a list goes with its tasks. *)
PhoneEdit(i) ==
  /\ Change
  /\ present' = IF i \in present THEN {j \in present \ {i} : Home[j] # i}
                                 ELSE present \cup {i}
  /\ Account(present')
  /\ always' = always \cap present' /\ ever' = ever \cup present'
  /\ trouble' = (trouble \/ i \in TaskLists \cap present)
  /\ UNCHANGED <<tokenVars, up, consent>>

NetworkChange ==
  /\ Change
  /\ up' = ~up /\ trouble' = TRUE
  /\ UNCHANGED <<tokenVars, present, consent, always, ever>>

ConsentChange ==
  /\ Change
  /\ consent' = ~consent /\ trouble' = TRUE
  /\ UNCHANGED <<tokenVars, present, up, always, ever>>

(* Google no longer accepts the access token, or the kiosk's clock has     *)
(* come close to its expiry: in whichever order the two clocks say.  A new *)
(* one outlives the request it was fetched for.                            *)
TokenExpires ==
  /\ Change /\ ~(pc = "sent" /\ retried)
  /\ \E field \in {"trusted", "accepted"} :
       /\ session' = [session EXCEPT ![field] = FALSE]
       /\ stored' = [stored EXCEPT ![field] = FALSE]
  /\ UNCHANGED <<present, up, consent, always, ever, trouble>>

Round == Start \/ GetJson \/ RefreshToken \/ RefreshFails \/ Refused \/ RequestFails
           \/ NextPage \/ LastPage \/ ApplySuccess \/ RecordError

Next == Round \/ SaveFails \/ Forbidden \/ NetworkChange \/ ConsentChange \/ TokenExpires
          \/ \E i \in Items : PhoneEdit(i)

(* Every request has a time-out of 20 s, and the loop wakes every 5 min.   *)
Spec     == Init /\ [][Next]_vars
FairSpec == Spec /\ WF_vars(Round)

-----------------------------------------------------------------------------
(* Properties *)

(* What a round puts on the screen was in the account during it, and no    *)
(* event or task that was there all along is missing, whatever was edited  *)
(* between two pages and whichever request failed: the events are read to  *)
(* the end or not applied, the tasks of all lists or of none.              *)
ReadsTheAccount ==
  [][ LET Read(S) == always \cap S \subseteq items' /\ items' \cap S \subseteq ever
      IN  items' # items =>
            /\ Read(Of(Events))
            /\ Read(Tasks) \/ items' \cap Tasks = items \cap Tasks
            /\ items' \cap Of(Holidays) \subseteq ever ]_vars

(* An access token that expires, early or late by the kiosk's clock, never *)
(* shows as an error when the network, the consent, the disk and Google's  *)
(* limits hold: get_json gets a new one and asks again.                    *)
NoSpuriousFailure == pc = "sleep" /\ error # "none" => trouble

(* When the network and the consent hold, the screen comes to agree with   *)
(* the account, without a banner.                                          *)
Recovers ==
  <>[](up /\ consent) => <>[](items = present \cap Shown /\ error = "none")

(* A consent that is gone is reported as such, at whichever request it was *)
(* lost: run_sync_loop sets auth_required.                                 *)
AsksForConsent == <>[](up /\ ~consent) => <>[]auth

(* docs/index.md:99: when a sync fails, the last value stays.  No holiday  *)
(* that is still in its calendar leaves the screen.                        *)
HolidaysKept ==
  [][ \A i \in items \ items' : Home[i] = Holidays => i \notin always ]_vars
=============================================================================
