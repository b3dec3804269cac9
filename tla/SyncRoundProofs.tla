--------------------------- MODULE SyncRoundProofs ---------------------------
(***************************************************************************)
(* Proofs about SyncRound, for any items, calendars, task lists and pages: *)
(* its types, that a round puts on the screen what was in the account, and *)
(* that it shows no error without a cause.                                 *)
(***************************************************************************)
EXTENDS SyncRound, TLAPS

USE BoundAssumption DEF BoundAssumption

Busy       == pc \in {"get", "refresh", "sent"}
Through(s) == always \cap Of(s) \subseteq got

(* What the histories say of the account and of what was read from it.     *)
HistInv ==
  /\ Account(present) /\ Account(always)
  /\ always \subseteq present /\ present \subseteq ever
  /\ pc # "sleep" => got \subseteq ever

(* Which requests there are: a list is left until it is read, and after a  *)
(* refusal only a new token is sent.                                       *)
PlaceInv ==
  /\ pc = "apply" => source \in {Lists} \cup TaskLists
  /\ Busy => ~fetched
  /\ Busy /\ source \in TaskLists => source \in left
  /\ Busy /\ source \notin TaskLists => left = {}
  /\ pc = "get" => ~retried
  /\ pc = "sent" /\ retried => session.accepted

(* What has been read of what was there all along: of the source the round *)
(* is at, the pages before; the events, once it is past them; the lists    *)
(* that are not left; and in the end all tasks.                            *)
PageInv   == Busy => {i \in always : Home[i] = source /\ PageOf[i] < page} \subseteq got
EventsInv == pc \in {"get", "refresh", "sent", "apply"} /\ source # Events => Through(Events)
ListsInv  == Busy /\ source \in TaskLists =>
               \A l \in (always \cap TaskLists) \ left : Through(l)
TasksInv  == pc = "apply" /\ fetched => always \cap Tasks \subseteq got

(* What can go wrong in a round has a cause in it; without one no list it  *)
(* knows of is gone.                                                       *)
CauseInv ==
  pc # "sleep" =>
    /\ trouble \/ (up /\ consent)
    /\ warn \/ pc = "failed" => trouble
    /\ trouble \/ (left \cup (got \cap TaskLists)) \subseteq present

RoundInv == /\ HistInv /\ PlaceInv
            /\ PageInv /\ EventsInv /\ ListsInv /\ TasksInv
            /\ CauseInv /\ NoSpuriousFailure

-----------------------------------------------------------------------------
(* Sources and items *)

LEMMA SourceFacts ==
  /\ TaskLists \subseteq Items
  /\ \A s \in {Events, Holidays, Lists} : s \notin TaskLists /\ s \in Sources
  /\ TaskLists \subseteq Sources
  /\ Events # Holidays /\ Events # Lists /\ Holidays # Lists
BY ItemAssumption DEF ItemAssumption, TaskLists, Sources, Of

LEMMA PageFacts ==
  \A i \in Items : PageOf[i] \in Nat /\ PageOf[i] >= 1
BY ItemAssumption DEF ItemAssumption

LEMMA ItemFacts ==
  /\ \A i \in TaskLists : i \in Items /\ Home[i] = Lists
  /\ \A i \in Tasks : i \in Items /\ i \notin TaskLists /\ Home[i] \in TaskLists
  /\ \A i \in Items : Home[i] \in Sources /\ i \notin {Events, Holidays, Lists}
BY SourceFacts, ItemAssumption DEF ItemAssumption, TaskLists, Tasks, Of

LEMMA ShownFacts == Shown = Items \ TaskLists /\ Tasks \subseteq Shown
BY ItemFacts DEF Shown

-----------------------------------------------------------------------------
(* Types *)

LEMMA InitType == Init => TypeOK
<1> SUFFICES ASSUME Init PROVE TypeOK
  OBVIOUS
<1>1. items \in SUBSET Shown /\ present \in SUBSET Items
  BY DEF Init
<1>2. session \in Token /\ stored \in Token /\ 0 \in 0..MaxChanges
  BY DEF Init
<1>3. source \in Sources /\ page \in Nat /\ ~auth
  BY SourceFacts DEF Init
<1> QED  BY <1>1, <1>2, <1>3 DEF Init, TypeOK

(* Every way a request can fail for good. *)
LEMMA FailType ==
  ASSUME TypeOK, NEW kind \in {"auth", "other"}, Fail(kind)
  PROVE  /\ pc' \in {"failed", "get", "apply"} /\ source' \in Sources /\ page' \in Nat
         /\ retried' \in BOOLEAN
         /\ got' \in SUBSET Items /\ left' \in SUBSET TaskLists
         /\ fetched' \in BOOLEAN /\ warn' \in BOOLEAN /\ failure' \in {"none", "auth", "other"}
<1> USE SourceFacts DEF TypeOK, Move, Request, Apply
<1>1. CASE source = Events /\ Move("failed") /\ failure' = kind
           /\ UNCHANGED <<got, left, fetched, warn>>
  BY <1>1
<1>2. CASE /\ Request(Lists, 1)
           /\ got' = {i \in got : Home[i] # Holidays} /\ warn' = TRUE
           /\ UNCHANGED <<left, fetched, failure>>
  BY <1>2
<1>3. CASE Apply(FALSE) /\ warn' = TRUE /\ UNCHANGED <<got, left, failure>>
  BY <1>3
<1> QED  BY <1>1, <1>2, <1>3 DEF Fail

LEMMA RequestType ==
  ASSUME TypeOK,
         GetJson \/ RefreshToken \/ SaveFails \/ RefreshFails \/ Refused \/ Forbidden
           \/ RequestFails
  PROVE  TypeOK'
<1> USE DEF dataVars, tokenVars, googleVars, RoundSame
<1>1. NewToken \in Token
  BY DEF NewToken, Token
<1>2. CASE GetJson
  BY <1>2 DEF GetJson, Move, TypeOK
<1>3. CASE RefreshToken
  BY <1>1, <1>3 DEF RefreshToken, Move, TypeOK
<1>4. CASE SaveFails
  <2>1. Fail("other") /\ changes' \in 0..MaxChanges
    BY <1>4 DEF SaveFails, TypeOK
  <2> QED  BY <2>1, <1>1, <1>4, FailType DEF SaveFails, TypeOK
<1>5. CASE RefreshFails
  <2>1. \E kind \in {"auth", "other"} : Fail(kind)
    BY <1>5 DEF RefreshFails
  <2> QED  BY <2>1, <1>5, FailType DEF RefreshFails, TypeOK
<1>6. CASE Refused
  <2>1. CASE ~retried /\ retried' = TRUE /\ pc' = "refresh" /\ UNCHANGED <<source, page>> /\ RoundSame
    BY <2>1, <1>6 DEF Refused, TypeOK
  <2>2. CASE Fail("auth")
    BY <2>2, <1>6, FailType DEF Refused, TypeOK
  <2> QED  BY <2>1, <2>2, <1>6 DEF Refused
<1>7. CASE RequestFails
  BY <1>7, FailType DEF RequestFails, TypeOK
<1>8. CASE Forbidden
  <2>1. Fail("auth") /\ changes' \in 0..MaxChanges
    BY <1>8 DEF Forbidden, TypeOK
  <2> QED  BY <2>1, <1>8, FailType DEF Forbidden, TypeOK
<1> QED  BY <1>2, <1>3, <1>4, <1>5, <1>6, <1>7, <1>8

LEMMA PageType ==
  ASSUME TypeOK, NextPage \/ LastPage
  PROVE  TypeOK'
<1> USE SourceFacts DEF dataVars, tokenVars, googleVars
<1>1. got' \in SUBSET Items
  BY DEF NextPage, LastPage, OnPage, TypeOK
<1>2. CASE NextPage
  <2>1. page' \in Nat /\ UNCHANGED source /\ pc' = "get" /\ retried' = FALSE
    BY <1>2 DEF NextPage, Request, TypeOK
  <2> QED  BY <1>1, <2>1, <1>2 DEF NextPage, TypeOK
<1>3. CASE LastPage
  <2>1. left' \in SUBSET TaskLists
    BY <1>3, <1>1 DEF LastPage, TypeOK
  <2>2. \/ \E s \in Sources : Request(s, 1) /\ UNCHANGED fetched
        \/ Apply(TRUE)
    <3>1. CASE (\E l \in left' : Request(l, 1)) /\ UNCHANGED fetched
      BY <2>1, <3>1
    <3>2. CASE Request(Holidays, 1) /\ UNCHANGED fetched
      BY <3>2
    <3>3. CASE Request(Lists, 1) /\ UNCHANGED fetched
      BY <3>3
    <3> QED  BY <3>1, <3>2, <3>3, <1>3 DEF LastPage
  <2>3. /\ pc' \in {"get", "apply"} /\ source' \in Sources /\ page' \in Nat
        /\ retried' \in BOOLEAN /\ fetched' \in BOOLEAN
    <3>1. CASE Apply(TRUE)
      BY <3>1 DEF Apply, Move, TypeOK
    <3>2. ASSUME NEW s \in Sources, Request(s, 1), UNCHANGED fetched
          PROVE  /\ pc' = "get" /\ source' \in Sources /\ page' \in Nat
                 /\ retried' \in BOOLEAN /\ fetched' \in BOOLEAN
      BY <3>2 DEF Request, TypeOK
    <3> QED  BY <2>2, <3>1, <3>2
  <2> QED  BY <1>1, <2>1, <2>3, <1>3 DEF LastPage, TypeOK
<1> QED  BY <1>2, <1>3

LEMMA EndType ==
  ASSUME TypeOK, Start \/ ApplySuccess \/ RecordError
  PROVE  TypeOK'
<1> USE SourceFacts DEF dataVars, tokenVars, googleVars
<1>1. CASE Start
  BY <1>1 DEF Start, Request, TypeOK
<1>2. CASE ApplySuccess
  <2>1. items' \in SUBSET Shown
    BY <1>2, ShownFacts DEF ApplySuccess, TypeOK
  <2> QED  BY <2>1, <1>2 DEF ApplySuccess, Rest, Move, RoundSame, TypeOK
<1>3. CASE RecordError
  BY <1>3 DEF RecordError, Rest, Move, RoundSame, TypeOK
<1> QED  BY <1>1, <1>2, <1>3

LEMMA ChangeType ==
  ASSUME TypeOK, NetworkChange \/ ConsentChange \/ TokenExpires \/ \E i \in Items : PhoneEdit(i)
  PROVE  TypeOK'
<1> USE DEF dataVars, tokenVars
<1>1. changes' \in 0..MaxChanges
  BY DEF NetworkChange, ConsentChange, TokenExpires, PhoneEdit, Change, TypeOK
<1>2. CASE NetworkChange
  BY <1>1, <1>2 DEF NetworkChange, Change, TypeOK
<1>3. CASE ConsentChange
  BY <1>1, <1>3 DEF ConsentChange, Change, TypeOK
<1>4. CASE TokenExpires
  <2>1. PICK field \in {"trusted", "accepted"} :
          /\ session' = [session EXCEPT ![field] = FALSE]
          /\ stored' = [stored EXCEPT ![field] = FALSE]
    BY <1>4 DEF TokenExpires
  <2>2. session' \in Token /\ stored' \in Token
    BY <2>1 DEF Token, TypeOK
  <2> QED  BY <1>1, <2>2, <1>4 DEF TokenExpires, Change, TypeOK
<1>5. CASE \E i \in Items : PhoneEdit(i)
  <2>1. PICK i \in Items : PhoneEdit(i)
    BY <1>5
  <2>2. present' \in SUBSET Items
    BY <2>1 DEF PhoneEdit, TypeOK
  <2> QED  BY <1>1, <2>1, <2>2 DEF PhoneEdit, Change, TypeOK
<1> QED  BY <1>2, <1>3, <1>4, <1>5

LEMMA TypeStep == TypeOK /\ [Next]_vars => TypeOK'
<1> SUFFICES ASSUME TypeOK, [Next]_vars PROVE TypeOK'
  OBVIOUS
<1>1. CASE UNCHANGED vars
  BY <1>1 DEF TypeOK, vars, dataVars, tokenVars, googleVars
<1> QED
  BY <1>1, RequestType, PageType, EndType, ChangeType DEF Next, Round

(* Every variable keeps its type: what is shown are events, holidays and   *)
(* tasks, and a consent is reported as gone only with an error.            *)
THEOREM RoundTypes == Spec => []TypeOK
  BY InitType, TypeStep, PTL DEF Spec

-----------------------------------------------------------------------------
(* The invariant of a round *)

LEMMA InitRound == Init => RoundInv
<1> SUFFICES ASSUME Init PROVE RoundInv
  OBVIOUS
<1> QED  BY DEF Init, RoundInv, HistInv, PlaceInv, PageInv, EventsInv, ListsInv, TasksInv,
                CauseInv, NoSpuriousFailure, Busy

LEMMA StartRound == TypeOK /\ RoundInv /\ Start => RoundInv'
<1> SUFFICES ASSUME TypeOK, RoundInv, Start PROVE RoundInv'
  OBVIOUS
<1>1. /\ pc' = "get" /\ source' = Events /\ page' = 1 /\ ~retried'
      /\ got' = {} /\ left' = {} /\ ~fetched' /\ ~warn'
      /\ always' = present /\ ever' = present /\ trouble' = ~(up /\ consent)
      /\ UNCHANGED <<present, up, consent>>
  BY DEF Start, Request
<1>2. HistInv'
  BY <1>1 DEF RoundInv, HistInv, Account
<1>3. PlaceInv'
  BY <1>1, SourceFacts DEF PlaceInv, Busy
<1>4. PageInv'
  BY <1>1, PageFacts DEF PageInv, TypeOK
<1>5. EventsInv' /\ ListsInv' /\ TasksInv'
  BY <1>1, SourceFacts DEF EventsInv, ListsInv, TasksInv
<1>6. CauseInv' /\ NoSpuriousFailure'
  BY <1>1 DEF CauseInv, NoSpuriousFailure
<1> QED  BY <1>2, <1>3, <1>4, <1>5, <1>6 DEF RoundInv

(* A step from one request to the same one: a token is fetched, or the     *)
(* request goes out.                                                       *)
LEMMA SameRequest ==
  ASSUME TypeOK, RoundInv, Busy, Busy', pc' # "get",
         UNCHANGED <<source, page, got, left, fetched, warn>>,
         UNCHANGED <<present, up, consent, always, ever, trouble>>,
         pc' = "sent" /\ retried' => session'.accepted
  PROVE  RoundInv'
<1>1. HistInv' /\ CauseInv'
  BY DEF RoundInv, HistInv, Account, CauseInv, Busy
<1>2. PlaceInv'
  BY DEF RoundInv, PlaceInv, Busy, TaskLists
<1>3. PageInv' /\ TasksInv' /\ NoSpuriousFailure'
  BY DEF RoundInv, PageInv, TasksInv, NoSpuriousFailure, Busy
<1>4. EventsInv' /\ ListsInv'
  BY DEF RoundInv, EventsInv, ListsInv, Through, Busy
<1> QED  BY <1>1, <1>2, <1>3, <1>4 DEF RoundInv

(* A request that fails for good, for a cause that is known. *)
LEMMA FailRound ==
  ASSUME TypeOK, RoundInv, Busy, NEW kind, Fail(kind), trouble',
         UNCHANGED <<present, always, ever>>
  PROVE  RoundInv'
<1>1. /\ pc' \in {"failed", "get", "apply"} /\ got' \subseteq got
      /\ pc' = "get" => ~retried'
  BY DEF Fail, Request, Move, Apply
<1>2. HistInv'
  BY <1>1 DEF RoundInv, HistInv, Account, Busy
<1>3. CauseInv' /\ NoSpuriousFailure'
  BY <1>1 DEF CauseInv, NoSpuriousFailure
<1>4. CASE source = Events /\ Move("failed")
  BY <1>2, <1>3, <1>4 DEF RoundInv, PlaceInv, PageInv, EventsInv, ListsInv, TasksInv, Move, Busy
<1>5. CASE /\ source = Holidays /\ Request(Lists, 1)
           /\ got' = {i \in got : Home[i] # Holidays} /\ UNCHANGED <<left, fetched>>
  <2>1. PlaceInv'
    BY <1>5, SourceFacts DEF RoundInv, PlaceInv, Request, Busy
  <2>2. PageInv'
    BY <1>5, PageFacts DEF PageInv, Request, TypeOK
  <2>3. EventsInv'
    BY <1>5, SourceFacts DEF RoundInv, EventsInv, Through, Of, Busy
  <2>4. ListsInv' /\ TasksInv'
    BY <1>5, SourceFacts DEF ListsInv, TasksInv, Request
  <2> QED  BY <1>2, <1>3, <2>1, <2>2, <2>3, <2>4 DEF RoundInv
<1>6. CASE /\ source \in {Lists} \cup TaskLists /\ Apply(FALSE) /\ UNCHANGED <<got, left>>
  <2>1. pc' = "apply" /\ UNCHANGED source /\ ~fetched'
    BY <1>6 DEF Apply, Move
  <2>2. PlaceInv' /\ PageInv' /\ ListsInv' /\ TasksInv'
    BY <2>1, <1>6 DEF PlaceInv, PageInv, ListsInv, TasksInv, Busy
  <2>3. EventsInv'
    BY <2>1, <1>6 DEF RoundInv, EventsInv, Through, Busy
  <2> QED  BY <1>2, <1>3, <2>2, <2>3 DEF RoundInv
<1> QED  BY <1>4, <1>5, <1>6 DEF Fail

LEMMA RequestRound ==
  ASSUME TypeOK, RoundInv,
         GetJson \/ RefreshToken \/ SaveFails \/ RefreshFails \/ Refused \/ Forbidden
           \/ RequestFails
  PROVE  RoundInv'
<1> USE DEF googleVars, tokenVars, RoundSame
<1>1. CASE GetJson
  <2>1. /\ Busy /\ pc' \in {"sent", "refresh"} /\ ~retried'
        /\ UNCHANGED <<source, page, got, left, fetched, warn>>
    BY <1>1 DEF GetJson, Move, Busy, RoundInv, PlaceInv
  <2> QED  BY <2>1, <1>1, SameRequest DEF GetJson, Busy
<1>2. CASE RefreshToken
  BY <1>2, SameRequest DEF RefreshToken, Move, NewToken, Busy
<1>3. CASE SaveFails
  BY <1>3, FailRound DEF SaveFails, Busy
<1>4. CASE RefreshFails
  <2>1. trouble'
    BY <1>4 DEF RefreshFails, RoundInv, CauseInv
  <2> QED  BY <2>1, <1>4, FailRound DEF RefreshFails, Busy
<1>5. CASE Refused
  <2>1. CASE pc' = "refresh" /\ UNCHANGED <<source, page>> /\ RoundSame
    BY <2>1, <1>5, SameRequest DEF Refused, Busy
  <2>2. CASE (retried \/ ~consent) /\ Fail("auth")
    <3>1. trouble'
      BY <2>2, <1>5 DEF Refused, Accepted, RoundInv, PlaceInv, CauseInv
    <3> QED  BY <3>1, <2>2, <1>5, FailRound DEF Refused, Busy
  <2> QED  BY <2>1, <2>2, <1>5 DEF Refused
<1>6. CASE RequestFails
  <2>1. trouble'
    BY <1>6 DEF RequestFails, RoundInv, PlaceInv, CauseInv, Busy
  <2> QED  BY <2>1, <1>6, FailRound DEF RequestFails, Busy
<1>7. CASE Forbidden
  BY <1>7, FailRound DEF Forbidden, Busy
<1> QED  BY <1>1, <1>2, <1>3, <1>4, <1>5, <1>6, <1>7

(* An answer adds the items that are on the page now, which have all been  *)
(* there since the round began or have come since then; no list among them *)
(* is gone.                                                                *)
LEMMA AnswerRead ==
  ASSUME TypeOK, RoundInv, Answered, got' = got \cup OnPage,
         UNCHANGED <<present, always, ever, up, consent, trouble>>
  PROVE  /\ HistInv'
         /\ {i \in always : Home[i] = source /\ PageOf[i] <= page} \subseteq got'
         /\ \A s : Through(s) => Through(s)'
         /\ trouble \/ (got' \cap TaskLists) \subseteq present
<1>1. OnPage \subseteq present /\ Busy
  BY DEF OnPage, Answered, Busy
<1>2. HistInv'
  BY <1>1 DEF RoundInv, HistInv, Account, Answered
<1>3. {i \in always : Home[i] = source /\ PageOf[i] <= page} \subseteq got'
  <2> SUFFICES ASSUME NEW i \in always, Home[i] = source, PageOf[i] <= page
               PROVE  i \in got'
    OBVIOUS
  <2>1. PageOf[i] \in Nat /\ page \in Nat /\ i \in present
    BY PageFacts DEF TypeOK, RoundInv, HistInv
  <2>2. CASE PageOf[i] < page
    BY <2>2, <1>1 DEF RoundInv, PageInv
  <2>3. CASE PageOf[i] = page
    BY <2>1, <2>3 DEF OnPage
  <2> QED  BY <2>1, <2>2, <2>3
<1>4. \A s : Through(s) => Through(s)'
  BY DEF Through
<1>5. trouble \/ (got' \cap TaskLists) \subseteq present
  BY <1>1 DEF RoundInv, CauseInv, Answered
<1> QED  BY <1>2, <1>3, <1>4, <1>5

LEMMA NextPageRound == TypeOK /\ RoundInv /\ NextPage => RoundInv'
<1> SUFFICES ASSUME TypeOK, RoundInv, NextPage PROVE RoundInv'
  OBVIOUS
<1> USE DEF googleVars
<1>1. /\ HistInv'
      /\ {i \in always : Home[i] = source /\ PageOf[i] <= page} \subseteq got'
      /\ \A s : Through(s) => Through(s)'
      /\ trouble \/ (got' \cap TaskLists) \subseteq present
  BY AnswerRead DEF NextPage
<1>2. /\ pc = "sent" /\ pc' = "get" /\ source' = source /\ page' = page + 1 /\ ~retried'
      /\ UNCHANGED <<present, always, ever, up, consent, trouble, left, fetched, warn>>
  BY DEF NextPage, Request, Answered
<1>3. PlaceInv'
  BY <1>2 DEF RoundInv, PlaceInv, Busy
<1>4. PageInv'
  <2>1. \A i \in always : PageOf[i] < page + 1 => PageOf[i] <= page
    BY PageFacts DEF TypeOK
  <2> QED  BY <1>1, <1>2, <2>1 DEF PageInv
<1>5. EventsInv' /\ ListsInv' /\ TasksInv'
  BY <1>1, <1>2 DEF RoundInv, EventsInv, ListsInv, TasksInv, Busy
<1>6. CauseInv' /\ NoSpuriousFailure'
  BY <1>1, <1>2 DEF RoundInv, CauseInv, NoSpuriousFailure
<1> QED  BY <1>1, <1>3, <1>4, <1>5, <1>6 DEF RoundInv

LEMMA LastPageRound == TypeOK /\ RoundInv /\ LastPage => RoundInv'
<1> SUFFICES ASSUME TypeOK, RoundInv, LastPage PROVE RoundInv'
  OBVIOUS
<1> USE DEF googleVars
<1>1. /\ HistInv'
      /\ {i \in always : Home[i] = source /\ PageOf[i] <= page} \subseteq got'
      /\ \A s : Through(s) => Through(s)'
      /\ trouble \/ (got' \cap TaskLists) \subseteq present
  BY AnswerRead DEF LastPage
<1>2. /\ pc = "sent" /\ Answered
      /\ UNCHANGED <<present, always, ever, up, consent, trouble, warn>>
  BY DEF LastPage, Answered
(* The source is read to its end: nothing that was there all along lies on *)
(* a later page.                                                           *)
<1>3. always \cap Of(source) \subseteq got'
  <2> SUFFICES ASSUME NEW i \in always, i \in Items, Home[i] = source PROVE i \in got'
    BY DEF Of
  <2>1. i \in present /\ PageOf[i] \in Nat /\ page \in Nat
    BY PageFacts DEF TypeOK, RoundInv, HistInv
  <2>2. ~(PageOf[i] > page)
    BY <2>1 DEF LastPage, Later
  <2> QED  BY <1>1, <2>1, <2>2
<1>4. NoSpuriousFailure'
  BY <1>2 DEF LastPage, NoSpuriousFailure, Request, Apply, Move
<1>5. CASE source = Events /\ Request(Holidays, 1) /\ UNCHANGED <<left, fetched>>
  <2>1. PlaceInv'
    BY <1>5, <1>2, SourceFacts DEF RoundInv, PlaceInv, Request, Busy
  <2>2. PageInv'
    BY <1>5, <1>2, PageFacts DEF PageInv, Request, TypeOK
  <2>3. EventsInv'
    BY <1>5, <1>2, <1>3 DEF EventsInv, Through
  <2>4. ListsInv' /\ TasksInv'
    BY <1>5, SourceFacts DEF ListsInv, TasksInv, Request
  <2>5. CauseInv'
    BY <1>1, <1>2, <1>5 DEF RoundInv, CauseInv, Request
  <2> QED  BY <1>1, <1>4, <2>1, <2>2, <2>3, <2>4, <2>5 DEF RoundInv
<1>6. CASE source = Holidays /\ Request(Lists, 1) /\ UNCHANGED <<left, fetched>>
  <2>1. PlaceInv'
    BY <1>6, <1>2, SourceFacts DEF RoundInv, PlaceInv, Request, Busy
  <2>2. PageInv'
    BY <1>6, <1>2, PageFacts DEF PageInv, Request, TypeOK
  <2>3. EventsInv'
    BY <1>1, <1>2, <1>6, SourceFacts DEF RoundInv, EventsInv
  <2>4. ListsInv' /\ TasksInv'
    BY <1>6, SourceFacts DEF ListsInv, TasksInv, Request
  <2>5. CauseInv'
    BY <1>1, <1>2, <1>6 DEF RoundInv, CauseInv, Request
  <2> QED  BY <1>1, <1>4, <2>1, <2>2, <2>3, <2>4, <2>5 DEF RoundInv
<1>7. CASE /\ source \in {Lists} \cup TaskLists
           /\ left' = IF source = Lists THEN got' \cap TaskLists ELSE left \ {source}
           /\ \/ \E l \in left' : Request(l, 1) /\ UNCHANGED fetched
              \/ left' = {} /\ Apply(TRUE)
  <2>1. left' \subseteq TaskLists /\ (trouble \/ left' \subseteq present)
    BY <1>7, <1>1, <1>2 DEF RoundInv, CauseInv, TypeOK
  <2>2. Through(Events)'
    BY <1>1, <1>2, <1>7, SourceFacts DEF RoundInv, EventsInv
(* The lists of the index, or those that are left, are all that matter.    *)
  <2>3. \A l \in (always \cap TaskLists) \ left' : Through(l)'
    <3>1. CASE source = Lists
      <4>1. always \cap TaskLists \subseteq got'
        BY <3>1, <1>3 DEF TaskLists
      <4> QED  BY <4>1, <3>1, <1>7
    <3>2. CASE source # Lists
      <4>1. \A l \in (always \cap TaskLists) \ left : Through(l)
        BY <3>2, <1>2, <1>7 DEF RoundInv, ListsInv, Busy
      <4>2. \A l \in (always \cap TaskLists) \ left : Through(l)'
        BY <4>1, <1>1
      <4>3. ASSUME NEW l \in always \cap TaskLists, l = source PROVE Through(l)'
        BY <4>3, <1>2, <1>3 DEF Through
      <4> QED  BY <4>2, <4>3, <3>2, <1>7
    <3> QED  BY <3>1, <3>2
  <2>4. ASSUME NEW l \in left', Request(l, 1), UNCHANGED fetched
        PROVE  RoundInv'
    <3>1. l \in TaskLists
      BY <2>1
    <3>2. PlaceInv'
      BY <2>4, <3>1, <1>2, SourceFacts DEF RoundInv, PlaceInv, Request, Busy
    <3>3. PageInv'
      BY <2>4, <1>2, PageFacts DEF PageInv, Request, TypeOK
    <3>4. EventsInv' /\ ListsInv' /\ TasksInv'
      BY <2>2, <2>3, <2>4, <1>2 DEF EventsInv, ListsInv, TasksInv, Request
    <3>5. CauseInv'
      BY <1>1, <1>2, <2>1, <2>4 DEF RoundInv, CauseInv, Request
    <3> QED  BY <1>1, <1>4, <3>2, <3>3, <3>4, <3>5 DEF RoundInv
(* At the end: a task that was there all along had its list there.         *)
  <2>5. CASE left' = {} /\ Apply(TRUE)
    <3>1. pc' = "apply" /\ UNCHANGED source /\ fetched'
      BY <2>5 DEF Apply, Move
    <3>2. PlaceInv' /\ PageInv' /\ ListsInv'
      BY <3>1, <1>7 DEF PlaceInv, PageInv, ListsInv, Busy
    <3>3. TasksInv'
      <4> SUFFICES ASSUME NEW i \in always, i \in Tasks PROVE i \in got'
        BY <1>2 DEF TasksInv
      <4>1. i \in Items /\ Home[i] \in TaskLists /\ Home[i] \in always
        BY ItemFacts DEF RoundInv, HistInv, Account
      <4>2. Through(Home[i])'
        BY <4>1, <2>3, <2>5
      <4> QED  BY <4>1, <4>2, <1>2 DEF Through, Of
    <3>4. EventsInv'
      BY <2>2 DEF EventsInv
    <3>5. CauseInv'
      BY <1>1, <1>2, <2>1, <2>5, <3>1 DEF RoundInv, CauseInv
    <3> QED  BY <1>1, <1>4, <3>2, <3>3, <3>4, <3>5 DEF RoundInv
  <2> QED  BY <1>7, <2>4, <2>5
<1> QED  BY <1>5, <1>6, <1>7 DEF LastPage

LEMMA RestRound ==
  ASSUME TypeOK, RoundInv, ApplySuccess \/ RecordError
  PROVE  RoundInv'
<1>1. pc' = "sleep" /\ UNCHANGED <<present, always, ever, trouble>>
  BY DEF ApplySuccess, RecordError, Rest, Move, googleVars
<1>2. HistInv' /\ PlaceInv' /\ PageInv' /\ EventsInv' /\ ListsInv' /\ TasksInv' /\ CauseInv'
  BY <1>1 DEF RoundInv, HistInv, Account, PlaceInv, PageInv, EventsInv, ListsInv, TasksInv,
              CauseInv, Busy
<1>3. error' # "none" => trouble
  <2>1. CASE ApplySuccess
    BY <2>1 DEF ApplySuccess, RoundInv, CauseInv
  <2>2. CASE RecordError
    BY <2>2 DEF RecordError, RoundInv, CauseInv
  <2> QED  BY <2>1, <2>2
<1>4. trouble => trouble'
  BY <1>1
<1>5. NoSpuriousFailure'
  BY <1>3, <1>4 DEF NoSpuriousFailure
<1> QED  BY <1>2, <1>5 DEF RoundInv

(* A change in the account, the network, the grant or the tokens. *)
LEMMA ChangeRound ==
  ASSUME TypeOK, RoundInv,
         NetworkChange \/ ConsentChange \/ TokenExpires \/ \E i \in Items : PhoneEdit(i)
  PROVE  RoundInv'
<1>1. /\ UNCHANGED <<items, error, pc, source, page, retried, got, left, fetched, warn>>
  BY DEF NetworkChange, ConsentChange, TokenExpires, PhoneEdit, Change, dataVars
<1>2. trouble => trouble'
  BY DEF NetworkChange, ConsentChange, TokenExpires, PhoneEdit
<1>3. NoSpuriousFailure'
  BY <1>2, <1>1 DEF RoundInv, NoSpuriousFailure
<1>4. CASE NetworkChange \/ ConsentChange
  <2>1. UNCHANGED <<session, present, always, ever>> /\ trouble'
    BY <1>4 DEF NetworkChange, ConsentChange, tokenVars
  <2>2. HistInv' /\ PlaceInv' /\ CauseInv'
    BY <1>1, <2>1 DEF RoundInv, HistInv, Account, PlaceInv, CauseInv, Busy, TaskLists
  <2>3. PageInv' /\ EventsInv' /\ ListsInv' /\ TasksInv'
    BY <1>1, <2>1 DEF RoundInv, PageInv, EventsInv, ListsInv, TasksInv, Through, Busy
  <2> QED  BY <1>3, <2>2, <2>3 DEF RoundInv
<1>5. CASE TokenExpires
  <2>1. /\ UNCHANGED <<present, always, ever, up, consent, trouble>>
        /\ ~(pc = "sent" /\ retried)
    BY <1>5 DEF TokenExpires
  <2>2. HistInv' /\ PlaceInv' /\ CauseInv'
    BY <1>1, <2>1 DEF RoundInv, HistInv, Account, PlaceInv, CauseInv, Busy, TaskLists
  <2>3. PageInv' /\ EventsInv' /\ ListsInv' /\ TasksInv'
    BY <1>1, <2>1 DEF RoundInv, PageInv, EventsInv, ListsInv, TasksInv, Through, Busy
  <2> QED  BY <1>3, <2>2, <2>3 DEF RoundInv
<1>6. ASSUME NEW i \in Items, PhoneEdit(i) PROVE RoundInv'
  <2>1. /\ Account(present') /\ UNCHANGED <<up, consent, session>>
        /\ always' = always \cap present' /\ ever' = ever \cup present'
    BY <1>6 DEF PhoneEdit, tokenVars
  <2>2. HistInv'
    BY <1>1, <2>1 DEF RoundInv, HistInv, Account
  <2>3. PlaceInv'
    BY <1>1, <2>1 DEF RoundInv, PlaceInv, Busy
  <2>4. PageInv' /\ EventsInv' /\ ListsInv' /\ TasksInv'
    BY <1>1, <2>1 DEF RoundInv, PageInv, EventsInv, ListsInv, TasksInv, Through, Busy
  (* Only a list takes other items with it, and it counts as trouble. *)
  <2>5. trouble' \/ present \cap TaskLists \subseteq present'
    <3> SUFFICES ASSUME ~trouble', NEW l \in present, l \in TaskLists PROVE l \in present'
      OBVIOUS
    <3>1. l # i
      BY <1>6 DEF PhoneEdit
    <3>2. Home[l] # i
      BY ItemFacts
    <3> QED  BY <3>1, <3>2, <1>6 DEF PhoneEdit
  <2>6. CauseInv'
    BY <1>2, <1>1, <2>1, <2>5 DEF RoundInv, CauseInv, TypeOK
  <2> QED  BY <1>3, <2>2, <2>3, <2>4, <2>6 DEF RoundInv
<1> QED  BY <1>4, <1>5, <1>6

LEMMA RoundStep == TypeOK /\ RoundInv /\ [Next]_vars => RoundInv'
<1> SUFFICES ASSUME TypeOK, RoundInv, [Next]_vars PROVE RoundInv'
  OBVIOUS
<1>1. CASE UNCHANGED vars
  <2>1. UNCHANGED <<error, pc, source, page, retried, got, left, fetched, warn, session,
                    present, up, consent, always, ever, trouble>>
    BY <1>1 DEF vars, dataVars, tokenVars, googleVars
  <2>2. HistInv' /\ PlaceInv' /\ CauseInv' /\ NoSpuriousFailure'
    BY <2>1 DEF RoundInv, HistInv, Account, PlaceInv, CauseInv, NoSpuriousFailure, Busy
  <2>3. PageInv' /\ EventsInv' /\ ListsInv' /\ TasksInv'
    BY <2>1 DEF RoundInv, PageInv, EventsInv, ListsInv, TasksInv, Through, Busy
  <2> QED  BY <2>2, <2>3 DEF RoundInv
<1> QED
  BY <1>1, StartRound, RequestRound, NextPageRound, LastPageRound, RestRound, ChangeRound
  DEF Next, Round

LEMMA RoundAlways == Spec => []RoundInv
  BY InitRound, RoundStep, RoundTypes, PTL DEF Spec

-----------------------------------------------------------------------------
(* The properties *)

(* A token that expires, early or late by the kiosk's clock, never shows   *)
(* as an error: behind every error there is a network, a grant, a disk or  *)
(* a list that failed in the round.                                        *)
THEOREM ErrorsHaveACause == Spec => []NoSpuriousFailure
<1>1. RoundInv => NoSpuriousFailure
  BY DEF RoundInv
<1> QED  BY <1>1, RoundAlways, PTL

(* What a round puts on the screen was in the account during it, and no    *)
(* event or task that was there all along is missing.                      *)
THEOREM RoundsReadTheAccount == Spec => ReadsTheAccount
<1> DEFINE Read(S) == always \cap S \subseteq items' /\ items' \cap S \subseteq ever
           ReadsStep ==
             items' # items =>
               /\ Read(Of(Events))
               /\ Read(Tasks) \/ items' \cap Tasks = items \cap Tasks
               /\ items' \cap Of(Holidays) \subseteq ever
<1>1. ASSUME TypeOK, RoundInv, [Next]_vars PROVE ReadsStep
  <2> SUFFICES ASSUME items' # items PROVE ReadsStep
    OBVIOUS
  <2>1. ApplySuccess
    BY <1>1 DEF Next, Round, Start, GetJson, RefreshToken, SaveFails, RefreshFails, Refused,
                Forbidden, RequestFails, NextPage, LastPage, RecordError, NetworkChange, ConsentChange,
                TokenExpires, PhoneEdit, Change, dataVars, vars
  <2>2. /\ pc = "apply" /\ source # Events /\ got \subseteq ever
        /\ Through(Events)
    BY <1>1, <2>1, SourceFacts DEF ApplySuccess, RoundInv, HistInv, PlaceInv, EventsInv
  <2>3. \A s \in {Events, Holidays} : \A i \in Of(s) : i \notin Tasks \cup TaskLists
    BY ItemFacts, SourceFacts DEF Of
  <2>4. Read(Of(Events)) /\ items' \cap Of(Holidays) \subseteq ever
    BY <2>1, <2>2, <2>3 DEF ApplySuccess, Through
  <2>5. CASE fetched
    <3>1. always \cap Tasks \subseteq got
      BY <1>1, <2>2, <2>5 DEF RoundInv, TasksInv
    <3> QED  BY <2>1, <2>2, <2>4, <2>5, <3>1 DEF ApplySuccess
  <2>6. CASE ~fetched
    BY <2>1, <2>4, <2>6 DEF ApplySuccess
  <2> QED  BY <2>5, <2>6
<1> QED  BY <1>1, RoundTypes, RoundAlways, PTL DEF Spec, ReadsTheAccount
=============================================================================
