---------------------------- MODULE WebPageProofs ---------------------------
(***************************************************************************)
(* Proofs about the page of the web interface.                             *)
(*                                                                         *)
(* TypeOK is not inductive: that the detail a callback receives is of the  *)
(* message its closure holds needs Asked, which ties each request to the   *)
(* event it was sent under.  Every other property is inductive with these. *)
(***************************************************************************)
EXTENDS WebPage, FiniteSetTheorems, TLAPS

(* A request's event is not done, and says what the request is for.        *)
Asked ==
  \A e \in DOMAIN requests :
    /\ ~eventsPending[e].complete
    /\ requests[e].kind \in {"list", "page"} => eventsPending[e].name = "Loading messages"
    /\ requests[e].kind \in {"detail", "message"} =>
         /\ eventsPending[e].name = "Loading message"
         /\ eventsPending[e].args = requests[e].id

IInv == TypeOK /\ Asked

-----------------------------------------------------------------------------
(* How events and requests change                                          *)

(* What TypeOK and Asked say of events and requests.                       *)
EventsOK ==
  /\ DOMAIN eventsPending \subseteq Event
  /\ \A e \in DOMAIN eventsPending : eventsPending[e] \in EventRecord
  /\ DOMAIN requests \subseteq DOMAIN eventsPending
  /\ \A e \in DOMAIN requests : requests[e] \in Request
  /\ Asked

(* The page asks the server for its list, or for a message.                *)
AsksForList ==
  \E s \in Nat, l \in PageSizes :
    startEvent("Loading messages", NULL, [kind |-> "list", start |-> s, limit |-> l])
AsksForDetail ==
  \E m \in Message :
    startEvent("Loading message", m, [kind |-> "detail", id |-> m])

LEMMA Fresh ==
  ASSUME Event \ DOMAIN eventsPending # {}
  PROVE  guid \in Event /\ guid \notin DOMAIN eventsPending
BY DEF guid

LEMMA ListIsAsked ==
  ASSUME EventsOK, AsksForList PROVE EventsOK'
<1>1. PICK s \in Nat, l \in PageSizes :
        startEvent("Loading messages", NULL, [kind |-> "list", start |-> s, limit |-> l])
  BY DEF AsksForList
<1>2. guid \in Event /\ guid \notin DOMAIN eventsPending
  BY <1>1, Fresh DEF startEvent
<1>3. [kind |-> "list", start |-> s, limit |-> l] \in Request
  BY DEF Request
<1>4. [name |-> "Loading messages", args |-> NULL, complete |-> FALSE] \in EventRecord
  BY DEF EventRecord
<1> QED BY <1>1, <1>2, <1>3, <1>4 DEF EventsOK, Asked, startEvent

LEMMA DetailIsAsked ==
  ASSUME EventsOK, AsksForDetail PROVE EventsOK'
<1>1. PICK m \in Message :
        startEvent("Loading message", m, [kind |-> "detail", id |-> m])
  BY DEF AsksForDetail
<1>2. guid \in Event /\ guid \notin DOMAIN eventsPending
  BY <1>1, Fresh DEF startEvent
<1>3. [kind |-> "detail", id |-> m] \in Request
  BY DEF Request
<1>4. [name |-> "Loading message", args |-> m, complete |-> FALSE] \in EventRecord
  BY DEF EventRecord
<1> QED BY <1>1, <1>2, <1>3, <1>4 DEF EventsOK, Asked, startEvent

LEMMA EventEnds ==
  ASSUME EventsOK, NEW e \in DOMAIN requests, done(e), Finish(e) PROVE EventsOK'
BY DEF EventsOK, Asked, done, Finish, EventRecord

LEMMA RequestEnds ==
  ASSUME EventsOK, NEW e \in DOMAIN requests, UNCHANGED events, Finish(e) PROVE EventsOK'
BY DEF EventsOK, Asked, events, Finish

(* A request that fails leaves its event, or enough of its like are kept.  *)
Dropped(e) ==
  /\ requests[e].kind = "list" /\ Lost # {}
  /\ eventsPending' = [f \in DOMAIN eventsPending \ {e} |-> eventsPending[f]]
  /\ eventCount' = eventCount - 1 /\ UNCHANGED eventDone

LEMMA Failing ==
  ASSUME EventsOK, NEW e, Fail(e)
  PROVE  /\ e \in DOMAIN requests /\ Finish(e) /\ UNCHANGED <<list, paging, detail>>
         /\ UNCHANGED events \/ Dropped(e)
         /\ \/ UNCHANGED server
            \/ \E m : Goes(m)
            \/ \E m \in Message : Arrives(m)
<1>1. Cardinality(Lost) >= MaxLost => Lost # {}
  BY FS_EmptySet, PageAssumption
<1>2. e \in DOMAIN requests
  BY DEF Fail, Fails, Has
<1>3. UNCHANGED events \/ Dropped(e)
  BY <1>1 DEF Fail, Has, Dropped
<1>4. UNCHANGED server \/ (\E m : Goes(m)) \/ \E m \in Message : Arrives(m)
  BY DEF Fail, Fails
<1> QED BY <1>2, <1>3, <1>4 DEF Fail

LEMMA EventIsDropped ==
  ASSUME EventsOK, NEW e \in DOMAIN requests, Dropped(e), Finish(e) PROVE EventsOK'
BY DEF EventsOK, Asked, Dropped, Finish

LEMMA EventIsRemoved ==
  ASSUME EventsOK, NEW e, remove(e) PROVE EventsOK'
BY DEF EventsOK, Asked, remove, Complete

LEMMA PageIsFinite ==
  ASSUME NEW s, NEW l, folder \subseteq Message
  PROVE  /\ Page(s, l) \subseteq Message
         /\ Cardinality(Page(s, l)) \in Nat /\ Cardinality(folder) \in Nat
<1>1. Page(s, l) \subseteq folder
  BY DEF Page
<1>2. IsFiniteSet(Page(s, l)) /\ IsFiniteSet(folder)
  BY <1>1, FS_Subset, PageAssumption
<1> QED BY <1>1, <1>2, FS_CardinalityType

LEMMA ListIsAnswered ==
  ASSUME EventsOK, folder \subseteq Message, NEW e, GetAll(e) PROVE EventsOK'
<1> DEFINE a == [kind  |-> "page", page |-> Page(requests[e].start, requests[e].limit),
                 total |-> Cardinality(folder)]
<1>1. a \in Request
  BY PageIsFinite DEF Request
<1>2. e \in DOMAIN requests /\ requests[e].kind = "list"
      /\ requests' = [requests EXCEPT ![e] = a] /\ UNCHANGED events
  BY DEF GetAll, Has, Answer, Wanted
<1>3. a.kind = "page"
  OBVIOUS
<1> HIDE DEF a
<1> QED BY <1>1, <1>2, <1>3 DEF EventsOK, Asked, events

LEMMA DetailIsAnswered ==
  ASSUME EventsOK, NEW e, Get(e) PROVE EventsOK'
<1>1. e \in DOMAIN requests /\ requests[e].kind = "detail" /\ requests[e].id \in Message
  BY DEF EventsOK, Get, Has, Request
<1>2. [kind |-> "message", id |-> requests[e].id] \in Request
  BY <1>1 DEF Request
<1> QED BY <1>1, <1>2 DEF EventsOK, Asked, events, Get, Answer

-----------------------------------------------------------------------------
(* The steps                                                               *)

(* What TypeOK says of the rest.                                           *)
PageOK ==
  /\ folder \subseteq Message /\ unsent \subseteq Message
  /\ itemsPerPage \in PageSizes
  /\ {startIndex, startMessages, countMessages, totalMessages} \subseteq Nat
  /\ messages \subseteq Message
  /\ preview \in [id : Message, full : BOOLEAN] \union {NULL}
  /\ DOMAIN cache \subseteq Message /\ \A m \in DOMAIN cache : cache[m] \in Message

LEMMA Parts == IInv <=> PageOK /\ EventsOK
BY DEF IInv, TypeOK, PageOK, EventsOK

(* What is neither a selection nor the way back asks for the list.         *)
LEMMA Asking ==
  ASSUME PageOK, User \/ Poll
  PROVE  \/ AsksForList \/ backToInbox
         \/ \E m \in Message : selectMessage(m)
<1>1. CASE Refresh
  BY <1>1 DEF Refresh, refresh, AsksForList, PageOK
<1>2. CASE showNewer
  <2>1. startIndex' \in Nat /\ itemsPerPage \in PageSizes
    BY <1>2, PageAssumption DEF showNewer, PageOK, NewerStart
  <2>2. PICK s \in Nat : s = startIndex'
    BY <2>1
  <2>3. startEvent("Loading messages", NULL, [kind |-> "list", start |-> s, limit |-> itemsPerPage])
    BY <1>2, <2>2 DEF showNewer, refresh, startEvent
  <2> QED BY <2>1, <2>3 DEF AsksForList
<1>3. CASE showOlder
  <2>1. startIndex' \in Nat /\ itemsPerPage \in PageSizes
    BY <1>3, PageAssumption DEF showOlder, PageOK
  <2>2. PICK s \in Nat : s = startIndex'
    BY <2>1
  <2>3. startEvent("Loading messages", NULL, [kind |-> "list", start |-> s, limit |-> itemsPerPage])
    BY <1>3, <2>2 DEF showOlder, refresh, startEvent
  <2> QED BY <2>1, <2>3 DEF AsksForList
<1>4. CASE backToInboxFirst
  BY <1>4 DEF backToInboxFirst, refresh, AsksForList, PageOK
<1>5. ASSUME NEW i \in PageSizes, showUpdated(i) PROVE AsksForList
  BY <1>5 DEF showUpdated, refresh, AsksForList
<1>6. ASSUME NEW kept \in SUBSET Message, deleteAll(kept) PROVE AsksForList
  BY <1>6 DEF deleteAll, refresh, AsksForList, PageOK
<1>7. CASE Poll
  BY <1>7 DEF Poll, refresh, AsksForList, PageOK
<1> QED BY <1>1, <1>2, <1>3, <1>4, <1>5, <1>6, <1>7 DEF User

LEMMA Selecting ==
  ASSUME NEW m \in Message, selectMessage(m)
  PROVE  /\ UNCHANGED <<paging, list>>
         /\ AsksForDetail \/ UNCHANGED <<events, requests>>
BY DEF selectMessage, AsksForDetail

LEMMA PageKept ==
  ASSUME PageOK, User \/ Poll PROVE PageOK'
<1>1. CASE Refresh
  BY <1>1 DEF Refresh, PageOK, server, list, paging, detail
<1>2. CASE showNewer
  BY <1>2, PageAssumption DEF showNewer, PageOK, NewerStart, server, list, detail
<1>3. CASE showOlder
  BY <1>3, PageAssumption DEF showOlder, PageOK, server, list, detail
<1>4. CASE backToInbox
  BY <1>4 DEF backToInbox, PageOK, server, list, paging
<1>5. CASE backToInboxFirst
  BY <1>5 DEF backToInboxFirst, PageOK, server
<1>6. ASSUME NEW i \in PageSizes, showUpdated(i) PROVE PageOK'
  BY <1>6 DEF showUpdated, PageOK, server, list, detail
<1>7. ASSUME NEW m \in Message, selectMessage(m) PROVE PageOK'
  <2>1. PICK i \in Message, f \in BOOLEAN : preview' = [id |-> i, full |-> f]
    BY <1>7 DEF selectMessage, PageOK
  <2>2. preview' \in [id : Message, full : BOOLEAN]
    BY <2>1
  <2>3. UNCHANGED <<server, list, paging, cache>>
    BY <1>7 DEF selectMessage
  <2> QED BY <2>2, <2>3 DEF PageOK, server, list, paging
<1>8. ASSUME NEW kept \in SUBSET Message, deleteAll(kept) PROVE PageOK'
  BY <1>8 DEF deleteAll, PageOK, list, paging, detail
<1>9. CASE Poll
  BY <1>9 DEF Poll, PageOK, server, list, paging, detail
<1> QED BY <1>1, <1>2, <1>3, <1>4, <1>5, <1>6, <1>7, <1>8, <1>9 DEF User

LEMMA PageListed ==
  ASSUME PageOK, EventsOK, NEW e, Listed(e) PROVE PageOK'
<1>1. requests[e].page \subseteq Message /\ requests[e].total \in Nat
  BY DEF Listed, Has, EventsOK, Request
<1>2. Cardinality(requests[e].page) \in Nat
  BY <1>1, FS_Subset, FS_CardinalityType, PageAssumption
<1> QED BY <1>1, <1>2 DEF Listed, PageOK, server, paging, detail

LEMMA PageShown ==
  ASSUME PageOK, EventsOK, NEW e, Shown(e) PROVE PageOK'
<1>1. requests[e].id \in Message /\ SelectedOf(e) = requests[e].id
  BY DEF Shown, Has, EventsOK, Asked, Request, SelectedOf
<1>2. preview' \in [id : Message, full : BOOLEAN]
  BY <1>1 DEF Shown, ShowDetail
<1>3. DOMAIN cache' \subseteq Message /\ \A m \in DOMAIN cache' : cache'[m] \in Message
  BY <1>1 DEF Shown, PageOK
<1> QED BY <1>2, <1>3 DEF Shown, PageOK, server, list, paging

-----------------------------------------------------------------------------
(* The invariant                                                           *)

LEMMA Initially == Init => IInv
<1> SUFFICES ASSUME Init PROVE IInv
  OBVIOUS
<1> DEFINE e == CHOOSE e \in Event : TRUE
<1>1. e \in Event
  BY PageAssumption
<1>2. [name |-> "Loading messages", args |-> NULL, complete |-> FALSE] \in EventRecord
  BY DEF EventRecord
<1>3. [kind |-> "list", start |-> 0, limit |-> DefaultSize] \in Request
  BY PageAssumption DEF Request
<1>4. EventsOK
  BY <1>1, <1>2, <1>3 DEF Init, EventsOK, Asked
<1>5. preview = NULL /\ DOMAIN cache = {} /\ folder = {} /\ messages = {}
  BY DEF Init
<1>6. /\ startIndex = 0 /\ startMessages = 0 /\ countMessages = 0 /\ totalMessages = 0
      /\ unsent = Message /\ itemsPerPage \in PageSizes
  <2>1. DefaultSize \in PageSizes
    BY PageAssumption
  <2> QED BY <2>1 DEF Init
<1>7. PageOK
  BY <1>5, <1>6 DEF PageOK
<1> QED BY <1>4, <1>7, Parts

LEMMA Inductive == IInv /\ [Next]_vars => IInv'
<1> SUFFICES ASSUME IInv, [Next]_vars PROVE PageOK' /\ EventsOK'
  BY Parts DEF IInv, TypeOK, PageOK, EventsOK, Asked
<1> PageOK /\ EventsOK
  BY Parts
<1>1. CASE User \/ Poll
  <2>1. ASSUME UNCHANGED <<events, requests>> PROVE EventsOK'
    BY <2>1 DEF EventsOK, Asked, events
  <2>2. CASE backToInbox
    BY <1>1, <2>1, <2>2, PageKept DEF backToInbox
  <2>3. ASSUME NEW m \in Message, selectMessage(m) PROVE EventsOK'
    BY <2>1, <2>3, Selecting, DetailIsAsked
  <2> QED BY <1>1, <2>2, <2>3, Asking, PageKept, ListIsAsked
<1>2. ASSUME NEW m \in Message, Receive(m) \/ Vanish(m) PROVE PageOK' /\ EventsOK'
  BY <1>2 DEF Receive, Vanish, Arrives, Goes, PageOK, EventsOK, Asked, list, paging, detail,
              events
<1>3. ASSUME NEW e \in Event, GetAll(e) \/ Get(e) PROVE PageOK' /\ EventsOK'
  <2>1. PageOK'
    BY <1>3 DEF GetAll, Get, PageOK, server, list, paging, detail
  <2>2. folder \subseteq Message
    BY DEF PageOK
  <2> QED BY <1>3, <2>1, <2>2, ListIsAnswered, DetailIsAnswered
<1>4. ASSUME NEW e \in Event, Fail(e) PROVE PageOK' /\ EventsOK'
  <2>1. UNCHANGED <<list, paging, detail>>
    BY <1>4, Failing
  <2>2. folder' \subseteq Message /\ unsent' \subseteq Message
    BY <1>4, Failing DEF server, Goes, Arrives, PageOK
  <2>3. PageOK'
    BY <2>1, <2>2 DEF PageOK, list, paging, detail
  <2> QED BY <1>4, <2>3, Failing, RequestEnds, EventIsDropped
<1>5. ASSUME NEW e \in Event, Listed(e) PROVE PageOK' /\ EventsOK'
  BY <1>5, PageListed, EventEnds DEF Listed, Has
<1>6. ASSUME NEW e \in Event, Shown(e) PROVE PageOK' /\ EventsOK'
  BY <1>6, PageShown, EventEnds, RequestEnds DEF Shown, Has
<1>7. ASSUME NEW e \in Event, remove(e) PROVE PageOK' /\ EventsOK'
  <2>1. PageOK'
    BY <1>7 DEF remove, PageOK, server, list, paging, detail
  <2> QED BY <1>7, <2>1, EventIsRemoved
<1>8. CASE UNCHANGED vars
  BY <1>8 DEF vars, server, list, paging, detail, events, PageOK, EventsOK, Asked
<1> QED BY <1>1, <1>2, <1>3, <1>4, <1>5, <1>6, <1>7, <1>8 DEF Next, Callback

LEMMA Invariance == Spec => []IInv
BY Initially, Inductive, PTL DEF Spec

(* The variables keep their types and a request belongs to an event that is *)
(* kept, whatever is answered and in what order (controllers.js, 6-124).   *)
THEOREM Typing == Spec => []TypeOK
<1>1. IInv => TypeOK
  BY DEF IInv
<1> QED BY <1>1, Invariance, PTL

-----------------------------------------------------------------------------
(* No event for a message that is open is closed or lost.                  *)
ListEventOrNone ==
  \A e \in DOMAIN eventsPending :
    eventsPending[e].name = "Loading message" /\ ~eventsPending[e].complete =>
      e \in DOMAIN eventsPending' /\ eventsPending'[e] = eventsPending[e]

LEMMA AskingIsListEvent ==
  ASSUME AsksForList PROVE ListEventOrNone
BY Fresh DEF AsksForList, startEvent, ListEventOrNone

-----------------------------------------------------------------------------
(* The properties                                                          *)

(* Whatever was selected since, an answer is kept for its own message      *)
(* (controllers.js, the closure of selectMessage, 107-124).                *)
THEOREM EachDetailIsItsOwn == Spec => []CacheIsRight
<1>1. Init => CacheIsRight
  BY DEF Init, CacheIsRight
<1>2. IInv /\ CacheIsRight /\ [Next]_vars => CacheIsRight'
  <2> SUFFICES ASSUME IInv, CacheIsRight, [Next]_vars PROVE CacheIsRight'
    OBVIOUS
  <2>1. CASE UNCHANGED cache
    BY <2>1 DEF CacheIsRight
  <2>2. ASSUME NEW e \in Event, Shown(e) PROVE CacheIsRight'
    BY <2>2 DEF IInv, TypeOK, Asked, CacheIsRight, Shown, Has, SelectedOf
  <2> QED BY <2>1, <2>2 DEF Next, User, Callback, Refresh, showNewer, showOlder, backToInbox,
        backToInboxFirst, showUpdated, selectMessage, deleteAll, Poll, Receive, Vanish, GetAll,
        Get, Fail, Listed, remove, vars, detail
<1> QED BY <1>1, <1>2, Invariance, PTL DEF Spec

(* The page number shown is the one asked with next, or a request for the  *)
(* list is on its way or has failed (controllers.js, 48-64, 74-95).        *)
THEOREM LabelIsFollowed == Spec => []LabelFollowsIndex
<1>1. Init => LabelFollowsIndex
  BY DEF Init, LabelFollowsIndex
<1>2. IInv /\ LabelFollowsIndex /\ [Next]_vars => LabelFollowsIndex'
  <2> SUFFICES ASSUME IInv, LabelFollowsIndex, [Next]_vars PROVE LabelFollowsIndex'
    OBVIOUS
  <2>1. ASSUME AsksForList PROVE LabelFollowsIndex'
    <3>1. PICK g \in Event : g = guid
      BY <2>1, Fresh DEF AsksForList, startEvent
    <3> DEFINE new == [name |-> "Loading messages", args |-> NULL, complete |-> FALSE]
    <3>2. g \in DOMAIN eventsPending' /\ eventsPending'[g] = new
      BY <2>1, <3>1 DEF AsksForList, startEvent
    <3>3. new.name = "Loading messages" /\ ~new.complete
      OBVIOUS
    <3> HIDE DEF new
    <3>4. g \in Incomplete("Loading messages")'
      BY <3>2, <3>3 DEF Incomplete
    <3> QED BY <3>4 DEF LabelFollowsIndex
  <2>2. ASSUME UNCHANGED <<paging, list>>, AsksForDetail PROVE LabelFollowsIndex'
    BY <2>2, Fresh DEF AsksForDetail, startEvent, LabelFollowsIndex, Incomplete, paging, list
  <2>3. ASSUME UNCHANGED <<paging, list, events>> PROVE LabelFollowsIndex'
    BY <2>3 DEF paging, list, events, LabelFollowsIndex, Incomplete
  <2>4. CASE User \/ Poll
    <3>1. CASE backToInbox
      BY <3>1, <2>3 DEF backToInbox
    <3>2. ASSUME NEW m \in Message, selectMessage(m) PROVE LabelFollowsIndex'
      BY <3>2, <2>2, <2>3, Selecting
    <3> QED BY <2>1, <2>4, <3>1, <3>2, Parts, Asking
  <2>5. ASSUME NEW e \in Event, Listed(e) PROVE LabelFollowsIndex'
    BY <2>5 DEF Listed, LabelFollowsIndex, paging
  <2>6. ASSUME NEW e \in Event, Shown(e) PROVE LabelFollowsIndex'
    <3>1. e \in DOMAIN requests /\ eventsPending[e].name = "Loading message"
      BY <2>6 DEF Shown, Has, IInv, Asked
    <3>2. Incomplete("Loading messages") = Incomplete("Loading messages")'
      BY <2>6, <3>1 DEF Shown, done, events, Incomplete, IInv, TypeOK, EventRecord
    <3> QED BY <2>6, <3>2 DEF Shown, LabelFollowsIndex, paging, list
  <2>7. ASSUME NEW e \in Event, remove(e) PROVE LabelFollowsIndex'
    <3>1. Incomplete("Loading messages") = Incomplete("Loading messages")'
      BY <2>7 DEF remove, Complete, Incomplete
    <3> QED BY <2>7, <3>1 DEF remove, LabelFollowsIndex, paging, list
  <2>8. CASE UNCHANGED vars
    BY <2>8, <2>3 DEF vars
  <2>9. ASSUME NEW e \in Event, Fail(e) PROVE LabelFollowsIndex'
    <3>1. EventsOK
      BY Parts
    <3>2. CASE UNCHANGED events
      BY <2>3, <2>9, <3>1, <3>2, Failing
    <3>3. CASE Dropped(e)
      <4>1. PICK f \in Lost : TRUE
        BY <3>3 DEF Dropped
      <4>2. f # e /\ f \in Incomplete("Loading messages")
        BY <2>9, <3>1, Failing DEF Lost
      <4>3. f \in Incomplete("Loading messages")'
        BY <3>3, <4>2 DEF Dropped, Incomplete
      <4> QED BY <4>3 DEF LabelFollowsIndex
    <3> QED BY <2>9, <3>1, <3>2, <3>3, Failing
  <2> QED BY <2>3, <2>4, <2>5, <2>6, <2>7, <2>8, <2>9
        DEF Next, Callback, Receive, Vanish, GetAll, Get
<1> QED BY <1>1, <1>2, Invariance, PTL DEF Spec

LEMMA PreviewIsLeft ==
  ASSUME User \/ Poll
  PROVE  preview' \in {preview, NULL} \/ \E m \in Message : selectMessage(m)
BY DEF User, Poll, Refresh, showNewer, showOlder, backToInbox, backToInboxFirst, showUpdated,
       deleteAll, detail

(* A message shown without its detail has a request that is on its way or  *)
(* has failed: no answer takes a detail away (controllers.js, 107-124).    *)
THEOREM SummaryIsCompleted == Spec => []SummaryAwaitsDetail
<1>1. Init => SummaryAwaitsDetail
  BY DEF Init, SummaryAwaitsDetail
<1>2. IInv /\ SummaryAwaitsDetail /\ [Next]_vars => SummaryAwaitsDetail'
  <2> SUFFICES ASSUME IInv, SummaryAwaitsDetail, [Next]_vars PROVE SummaryAwaitsDetail'
    OBVIOUS
  <2> DEFINE Open(m) == \E e \in Incomplete("Loading message") : eventsPending[e].args = m
  <2>1. ASSUME NEW m, Open(m), ListEventOrNone PROVE Open(m)'
    <3>1. PICK e \in Incomplete("Loading message") : eventsPending[e].args = m
      BY <2>1
    <3>2. e \in DOMAIN eventsPending /\ eventsPending[e].name = "Loading message"
          /\ ~eventsPending[e].complete
      BY DEF Incomplete
    <3>3. e \in DOMAIN eventsPending' /\ eventsPending'[e] = eventsPending[e]
      BY <2>1, <3>2 DEF ListEventOrNone
    <3> QED BY <3>1, <3>2, <3>3 DEF Incomplete
  <2>2. ASSUME ListEventOrNone, preview' \in {preview, NULL} PROVE SummaryAwaitsDetail'
    <3> SUFFICES ASSUME preview' # NULL, ~preview'.full PROVE Open(preview.id)'
      BY DEF SummaryAwaitsDetail
    <3>1. preview' = preview
      BY <2>2
    <3>2. PICK m : m = preview.id
      OBVIOUS
    <3>3. Open(m)
      BY <3>1, <3>2 DEF SummaryAwaitsDetail
    <3> QED BY <2>1, <2>2, <3>1, <3>2, <3>3
  <2>3. ASSUME NEW m \in Message, selectMessage(m) PROVE SummaryAwaitsDetail'
    <3> DEFINE new == [name |-> "Loading message", args |-> m, complete |-> FALSE]
               short == [id |-> m, full |-> FALSE]
    <3>1. CASE m \in DOMAIN cache
      <4>1. preview' = [id |-> cache[m], full |-> TRUE]
        BY <2>3, <3>1 DEF selectMessage
      <4>2. preview'.full
        BY <4>1
      <4> QED BY <4>2 DEF SummaryAwaitsDetail
    <3>2. CASE m \notin DOMAIN cache
      <4>1. PICK g \in Event : g = guid
        BY <2>3, <3>2, Fresh DEF selectMessage, startEvent
      <4>2. g \in DOMAIN eventsPending' /\ eventsPending'[g] = new
        BY <2>3, <3>2, <4>1 DEF selectMessage, startEvent
      <4>3. preview' = short
        BY <2>3, <3>2 DEF selectMessage
      <4>4. new.name = "Loading message" /\ ~new.complete /\ new.args = m /\ short.id = m
        OBVIOUS
      <4> HIDE DEF new, short
      <4>5. g \in Incomplete("Loading message")' /\ eventsPending'[g].args = preview'.id
        BY <4>2, <4>3, <4>4 DEF Incomplete
      <4> QED BY <4>5 DEF SummaryAwaitsDetail
    <3> QED BY <3>1, <3>2
  <2>4. CASE User \/ Poll
    <3>1. CASE \E m \in Message : selectMessage(m)
      BY <2>3, <3>1
    <3>2. CASE ~\E m \in Message : selectMessage(m)
      <4>1. preview' \in {preview, NULL}
        BY <2>4, <3>2, PreviewIsLeft
      <4>2. AsksForList \/ backToInbox
        BY <2>4, <3>2, Parts, Asking
      <4>3. ListEventOrNone
        BY <4>2, AskingIsListEvent DEF backToInbox, events, ListEventOrNone
      <4> QED BY <2>2, <4>1, <4>3
    <3> QED BY <3>1, <3>2
  <2>5. ASSUME NEW e \in Event, Shown(e) PROVE SummaryAwaitsDetail'
    <3>1. preview' = [id |-> requests[e].id, full |-> TRUE]
      BY <2>5 DEF Shown, ShowDetail
    <3>2. preview'.full
      BY <3>1
    <3> QED BY <3>2 DEF SummaryAwaitsDetail
  <2>6. ASSUME NEW e \in Event, Listed(e) PROVE SummaryAwaitsDetail'
    BY <2>2, <2>6 DEF Listed, Has, done, ListEventOrNone, IInv, TypeOK, Asked, detail
  <2>7. ASSUME NEW e \in Event, remove(e) PROVE SummaryAwaitsDetail'
    BY <2>2, <2>7 DEF remove, Complete, ListEventOrNone, detail
  <2>8. ASSUME UNCHANGED <<detail, events>> PROVE SummaryAwaitsDetail'
    BY <2>2, <2>8 DEF detail, events, ListEventOrNone
  <2>9. ASSUME NEW e \in Event, Fail(e) PROVE SummaryAwaitsDetail'
    <3>1. EventsOK
      BY Parts
    <3>2. e \in DOMAIN requests /\ UNCHANGED detail /\ (UNCHANGED events \/ Dropped(e))
      BY <2>9, <3>1, Failing
    <3>3. ASSUME Dropped(e) PROVE ListEventOrNone
      <4>1. eventsPending[e].name = "Loading messages"
        BY <3>1, <3>2, <3>3 DEF Dropped, EventsOK, Asked
      <4> QED BY <3>3, <4>1 DEF Dropped, ListEventOrNone
    <3> QED BY <2>2, <2>8, <3>2, <3>3 DEF detail
  <2> QED BY <2>4, <2>5, <2>6, <2>7, <2>8, <2>9
        DEF Next, Callback, Receive, Vanish, GetAll, Get, vars
<1> QED BY <1>1, <1>2, Invariance, PTL DEF Spec

-----------------------------------------------------------------------------
(* The counters                                                            *)

LEMMA EventsAreFinite ==
  ASSUME TypeOK
  PROVE  /\ IsFiniteSet(DOMAIN eventsPending) /\ IsFiniteSet(Complete)
         /\ Cardinality(DOMAIN eventsPending) \in Nat /\ Cardinality(Complete) \in Nat
<1>1. Complete \subseteq DOMAIN eventsPending /\ DOMAIN eventsPending \subseteq Event
  BY DEF Complete, TypeOK
<1>2. IsFiniteSet(DOMAIN eventsPending) /\ IsFiniteSet(Complete)
  BY <1>1, FS_Subset, PageAssumption
<1> QED BY <1>2, FS_CardinalityType

(* eventCount and eventDone count the events that are kept and those of    *)
(* them that are done, in any order of ends and removals (160-213).        *)
THEOREM CountersAddUp == Spec => []EventsAddUp
<1>1. Init => EventsAddUp
  <2> SUFFICES ASSUME Init PROVE EventsAddUp
    OBVIOUS
  <2> DEFINE e == CHOOSE e \in Event : TRUE
             new == [name |-> "Loading messages", args |-> NULL, complete |-> FALSE]
  <2>1. eventsPending = [f \in {e} |-> new] /\ ~new.complete
    BY DEF Init
  <2> HIDE DEF new
  <2>2. DOMAIN eventsPending = {e} /\ Complete = {}
    BY <2>1 DEF Complete
  <2> QED BY <2>2, FS_Singleton, FS_EmptySet DEF Init, EventsAddUp
<1>2. IInv /\ EventsAddUp /\ [Next]_vars => EventsAddUp'
  <2> SUFFICES ASSUME IInv, EventsAddUp, [Next]_vars PROVE EventsAddUp'
    OBVIOUS
  <2> TypeOK
    BY DEF IInv
  <2>1. ASSUME NEW n, NEW a, NEW q, startEvent(n, a, q) PROVE EventsAddUp'
    <3> DEFINE new == [name |-> n, args |-> a, complete |-> FALSE]
    <3>1. PICK g \in Event : g = guid /\ g \notin DOMAIN eventsPending
      BY <2>1, Fresh DEF startEvent
    <3>2. /\ eventsPending' = [e \in DOMAIN eventsPending \union {g} |->
                                IF e = g THEN new ELSE eventsPending[e]]
          /\ eventCount' = eventCount + 1 /\ eventDone' = eventDone
      BY <2>1, <3>1 DEF startEvent
    <3>3. ~new.complete
      OBVIOUS
    <3> HIDE DEF new
    <3>4. DOMAIN eventsPending' = DOMAIN eventsPending \union {g} /\ Complete' = Complete
      BY <3>1, <3>2, <3>3 DEF Complete
    <3> QED BY <3>1, <3>2, <3>4, EventsAreFinite, FS_AddElement DEF EventsAddUp
  <2>2. ASSUME NEW e \in DOMAIN requests, done(e) PROVE EventsAddUp'
    <3>1. e \in DOMAIN eventsPending /\ e \notin Complete
      BY DEF IInv, TypeOK, Asked, Complete
    <3>2. DOMAIN eventsPending' = DOMAIN eventsPending /\ Complete' = Complete \union {e}
      BY <2>2, <3>1 DEF done, Complete, TypeOK, EventRecord
    <3> QED BY <2>2, <3>1, <3>2, EventsAreFinite, FS_AddElement DEF done, EventsAddUp
  <2>3. ASSUME NEW e \in Event, remove(e) PROVE EventsAddUp'
    <3>1. e \in DOMAIN eventsPending /\ e \in Complete
      BY <2>3 DEF remove, Complete
    <3>2. /\ DOMAIN eventsPending' = DOMAIN eventsPending \ {e}
          /\ Complete' = Complete \ {e}
      BY <2>3 DEF remove, Complete
    <3> QED BY <2>3, <3>1, <3>2, EventsAreFinite, FS_RemoveElement DEF remove, EventsAddUp
  <2>4. ASSUME UNCHANGED events PROVE EventsAddUp'
    BY <2>4 DEF events, EventsAddUp, Complete
  <2>5. CASE User \/ Poll
    <3>1. ASSUME AsksForList \/ AsksForDetail PROVE EventsAddUp'
      BY <2>1, <3>1 DEF AsksForList, AsksForDetail
    <3>2. ASSUME NEW m \in Message, selectMessage(m) PROVE EventsAddUp'
      BY <2>4, <3>1, <3>2, Selecting
    <3>3. CASE backToInbox
      BY <2>4, <3>3 DEF backToInbox
    <3> QED BY <2>5, <3>1, <3>2, <3>3, Parts, Asking
  <2>6. ASSUME NEW e \in Event, Listed(e) \/ Shown(e) PROVE EventsAddUp'
    BY <2>2, <2>4, <2>6 DEF Listed, Shown, Has
  <2>7. ASSUME NEW e \in Event, Fail(e) PROVE EventsAddUp'
    <3>1. EventsOK
      BY Parts
    <3>2. e \in DOMAIN requests /\ (UNCHANGED events \/ Dropped(e))
      BY <2>7, <3>1, Failing
    <3>3. ASSUME Dropped(e) PROVE EventsAddUp'
      <4>1. e \in DOMAIN eventsPending /\ e \notin Complete
        BY <3>1, <3>2 DEF EventsOK, Asked, Complete
      <4>2. DOMAIN eventsPending' = DOMAIN eventsPending \ {e} /\ Complete' = Complete
        BY <3>3, <4>1 DEF Dropped, Complete
      <4> QED BY <3>3, <4>1, <4>2, EventsAreFinite, FS_RemoveElement DEF Dropped, EventsAddUp
    <3> QED BY <2>4, <3>2, <3>3
  <2> QED BY <2>3, <2>4, <2>5, <2>6, <2>7
        DEF Next, Callback, Receive, Vanish, GetAll, Get, vars
<1> QED BY <1>1, <1>2, Invariance, PTL DEF Spec

=============================================================================
