------------------------------- MODULE WebPage ------------------------------
(***************************************************************************)
(* The page of the web interface (assets/js/controllers.js), the requests  *)
(* it has on the way and the folder MessagesController answers from.       *)
(*                                                                         *)
(* The page runs one callback at a time, but it never waits for an answer  *)
(* before it asks again and no answer says which question it is for: what  *)
(* a callback writes is put together from what its closure kept and what   *)
(* the page shows by now.  Answers come back in any order, or not at all.  *)
(***************************************************************************)
EXTENDS Integers, FiniteSets

CONSTANTS
  Message,      \* numbers: the messages in the order of their files' dates
  Dateless,     \* messages without a Date header
  Broken,       \* messages that cannot be loaded
  Nameless,     \* messages whose name is too short for a time stamp
  PageSizes,    \* what the page size can be chosen from
  DefaultSize,  \* the size before any choice
  Event,        \* the guids of events
  MaxStart,     \* bound: the highest start the user pages to
  MaxLists,     \* bound: requests for the list, lost ones included
  MaxDetails,   \* bound: requests for a message whose event is not done
  MaxLost,      \* bound: events kept of the requests for the list that failed
  NULL

ASSUME PageAssumption ==
  /\ Message \subseteq Nat /\ IsFiniteSet(Message)
  /\ Dateless \subseteq Message /\ Broken \subseteq Message /\ Nameless \subseteq Message
  /\ NULL \notin Nat
  /\ PageSizes \subseteq Nat \ {0} /\ DefaultSize \in PageSizes
  /\ Event # {} /\ IsFiniteSet(Event)
  /\ {MaxStart, MaxLists, MaxDetails} \subseteq Nat /\ MaxLost \in Nat \ {0}

VARIABLES
  folder,         \* the server's messages
  unsent,         \* messages that have not been received yet
  itemsPerPage,
  startIndex,     \* the start the page asks with
  startMessages,  \* the start it shows
  countMessages,
  totalMessages,
  messages,       \* the list it shows, latest first
  preview,        \* the message it shows, or NULL
  cache,          \* details it has kept, by message
  eventsPending,  \* events.eventsPending
  eventDone,      \* the counters beside it
  eventCount,
  requests        \* what an event's request asks, then what the answer brings

server == <<folder, unsent>>
list   == <<startMessages, countMessages, totalMessages, messages>>
paging == <<itemsPerPage, startIndex>>
detail == <<preview, cache>>
events == <<eventsPending, eventDone, eventCount>>
vars   == <<server, list, paging, detail, events, requests>>

-----------------------------------------------------------------------------
(* The events of the page                                                  *)

Incomplete(name) == {e \in DOMAIN eventsPending :
                       eventsPending[e].name = name /\ ~eventsPending[e].complete}
Complete == {e \in DOMAIN eventsPending : eventsPending[e].complete}

(* guid never returns a name that is in use.                               *)
guid == CHOOSE e \in Event : e \notin DOMAIN eventsPending

(* startEvent, with the request that is sent under it.                     *)
startEvent(name, args, ask) ==
  /\ Event \ DOMAIN eventsPending # {}
  /\ eventsPending' = [e \in DOMAIN eventsPending \union {guid} |->
       IF e = guid THEN [name |-> name, args |-> args, complete |-> FALSE]
       ELSE eventsPending[e]]
  /\ requests' = [e \in DOMAIN requests \union {guid} |->
       IF e = guid THEN ask ELSE requests[e]]
  /\ eventCount' = eventCount + 1
  /\ UNCHANGED eventDone

done(e) ==
  /\ eventsPending' = [eventsPending EXCEPT ![e].complete = TRUE]
  /\ eventDone' = eventDone + 1
  /\ UNCHANGED eventCount

(* Mutant: the counter of events that are done is forgotten.               *)
removeEvent(e) ==
  /\ e \in Complete
  /\ eventsPending' = [f \in DOMAIN eventsPending \ {e} |-> eventsPending[f]]
  /\ eventCount' = eventCount - 1
  /\ UNCHANGED <<server, list, paging, detail, eventDone, requests>>

(* The timer done has set, ten seconds later.                              *)
remove(e) ==
  /\ e \in Complete
  /\ eventsPending' = [f \in DOMAIN eventsPending \ {e} |-> eventsPending[f]]
  /\ eventDone' = eventDone - 1
  /\ eventCount' = eventCount - 1
  /\ UNCHANGED <<server, list, paging, detail, requests>>

-----------------------------------------------------------------------------
(* What the user and the timer do                                          *)

refresh(start, limit) ==
  /\ Cardinality(Incomplete("Loading messages")) < MaxLists
  /\ startEvent("Loading messages", NULL,
                [kind |-> "list", start |-> start, limit |-> limit])

Refresh ==
  /\ preview = NULL
  /\ refresh(startIndex, itemsPerPage)
  /\ UNCHANGED <<server, list, paging, detail>>

(* Mutant: the list is not polled while a message is shown.                *)
PollInbox == startIndex = 0 /\ preview = NULL /\ refresh(startIndex, itemsPerPage)
             /\ UNCHANGED <<server, list, paging, detail>>

(* The $interval of eight seconds.                                         *)
Poll ==
  /\ startIndex = 0
  /\ refresh(startIndex, itemsPerPage)
  /\ UNCHANGED <<server, list, paging, detail>>

showUpdated(i) ==
  /\ preview = NULL /\ totalMessages # 0
  /\ itemsPerPage' = i /\ startIndex' = 0
  /\ refresh(0, i)
  /\ UNCHANGED <<server, list, detail>>

(* Mutant: the start is not kept from falling below zero.                  *)
EarlierStart == startIndex - itemsPerPage

NewerStart == IF startIndex < itemsPerPage THEN 0 ELSE startIndex - itemsPerPage

showNewer ==
  /\ preview = NULL
  /\ startIndex' = NewerStart
  /\ refresh(startIndex', itemsPerPage)
  /\ UNCHANGED <<server, list, itemsPerPage, detail>>

showOlder ==
  /\ preview = NULL
  /\ startIndex + itemsPerPage <= MaxStart
  /\ startIndex' = startIndex + itemsPerPage
  /\ refresh(startIndex', itemsPerPage)
  /\ UNCHANGED <<server, list, itemsPerPage, detail>>

backToInbox ==
  /\ preview # NULL
  /\ preview' = NULL
  /\ UNCHANGED <<server, list, paging, cache, events, requests>>

backToInboxFirst ==
  /\ preview' = NULL
  /\ startIndex' = 0 /\ startMessages' = 0
  /\ refresh(0, itemsPerPage)
  /\ UNCHANGED <<server, countMessages, totalMessages, messages, itemsPerPage, cache>>

(* A message of the list is shown as the list has it until its detail is   *)
(* there.                                                                  *)
selectMessage(m) ==
  /\ preview = NULL
  /\ m \in messages
  /\ \/ /\ m \in DOMAIN cache
        /\ preview' = [id |-> cache[m], full |-> TRUE]
        /\ UNCHANGED <<events, requests>>
     \/ /\ m \notin DOMAIN cache
        /\ preview' = [id |-> m, full |-> FALSE]
        /\ Cardinality(Incomplete("Loading message")) < MaxDetails
        /\ startEvent("Loading message", m, [kind |-> "detail", id |-> m])
  /\ UNCHANGED <<server, list, paging, cache>>

(* The user has confirmed; the messages that cannot be deleted stay, and   *)
(* the finally refreshes the list.  What may happen between the two is     *)
(* what Vanish does first.                                                 *)
deleteAll(kept) ==
  /\ folder' = folder \intersect kept
  /\ refresh(startIndex, itemsPerPage)
  /\ UNCHANGED <<unsent, list, paging, detail>>

-----------------------------------------------------------------------------
(* The server                                                              *)

(* A message arrives; another program deletes one.                         *)
Arrives(m) ==
  /\ m \in unsent /\ \A n \in unsent : m <= n
  /\ unsent' = unsent \ {m}
  /\ folder' = folder \union {m}

Goes(m) == m \in folder /\ folder' = folder \ {m} /\ UNCHANGED unsent

Receive(m) == Arrives(m) /\ UNCHANGED <<list, paging, detail, events, requests>>

Vanish(m) == Goes(m) /\ UNCHANGED <<list, paging, detail, events, requests>>

Has(e, kind) == e \in DOMAIN requests /\ requests[e].kind = kind
Answer(e, a) == requests' = [requests EXCEPT ![e] = a]
Finish(e) == requests' = [f \in DOMAIN requests \ {e} |-> requests[f]]

(* OrderByDescending, Skip(start), Take(limit).                            *)
Page(start, limit) ==
  {m \in folder : LET later == Cardinality({n \in folder : n > m}) IN
                     start <= later /\ later < start + limit}

(* Every request lists the whole folder, where one bad name is an          *)
(* exception, and then loads what it is for.                               *)
Loads(wanted) == folder \intersect Nameless = {} /\ wanted \subseteq folder \ Broken

Wanted(e) == Page(requests[e].start, requests[e].limit)

GetAll(e) ==
  /\ Has(e, "list") /\ Loads(Wanted(e))
  /\ Answer(e, [kind |-> "page", page |-> Wanted(e), total |-> Cardinality(folder)])
  /\ UNCHANGED <<server, list, paging, detail, events>>

Get(e) ==
  /\ Has(e, "detail") /\ Loads({requests[e].id})
  /\ Answer(e, [kind |-> "message", id |-> requests[e].id])
  /\ UNCHANGED <<server, list, paging, detail, events>>

(* What a request wants cannot be loaded or is not found; or a message     *)
(* goes after it was listed, or comes as the first and is still written.   *)
Fails(e) ==
  \/ Has(e, "list") /\ ~Loads(Wanted(e)) /\ UNCHANGED server
  \/ Has(e, "detail") /\ ~Loads({requests[e].id}) /\ UNCHANGED server
  \/ Has(e, "list") /\ \E m \in Wanted(e) : Goes(m)
  \/ Has(e, "list") /\ requests[e].start = 0 /\ \E m \in Message : Arrives(m)

(* Nobody handles a failure: the event stays for good, in any number of    *)
(* failures.  As nothing more happens to it, MaxLost of those for the list *)
(* stand for all.                                                          *)
Lost == Incomplete("Loading messages") \ DOMAIN requests

Fail(e) ==
  /\ Fails(e)
  /\ Finish(e)
  /\ IF Has(e, "list") /\ Cardinality(Lost) >= MaxLost
       THEN /\ eventsPending' = [f \in DOMAIN eventsPending \ {e} |-> eventsPending[f]]
            /\ eventCount' = eventCount - 1 /\ UNCHANGED eventDone
       ELSE UNCHANGED events
  /\ UNCHANGED <<list, paging, detail>>

-----------------------------------------------------------------------------
(* Answers                                                                 *)

(* Mutant: the start shown is left as it was.                              *)
ListedUnlabelled(e) ==
  /\ Has(e, "page")
  /\ messages' = requests[e].page
  /\ totalMessages' = requests[e].total
  /\ countMessages' = Cardinality(requests[e].page)
  /\ done(e) /\ Finish(e)
  /\ UNCHANGED <<server, paging, detail, startMessages>>

(* The then of refresh: the answer is shown under the start of now.        *)
Listed(e) ==
  /\ Has(e, "page")
  /\ messages' = requests[e].page
  /\ totalMessages' = requests[e].total
  /\ countMessages' = Cardinality(requests[e].page)
  /\ startMessages' = startIndex
  /\ done(e) /\ Finish(e)
  /\ UNCHANGED <<server, paging, detail>>

(* Mutant: what is previewed by now is taken for the message selected.     *)
PreviewedOf(e) == IF preview = NULL THEN eventsPending[e].args ELSE preview.id

(* The message the closure of selectMessage holds.                         *)
SelectedOf(e) == eventsPending[e].args

(* Mutant: the detail does not replace another preview.                    *)
ShowIfFree(m) == preview' = IF preview = NULL THEN [id |-> m, full |-> TRUE] ELSE preview

ShowDetail(m) == preview' = [id |-> m, full |-> TRUE]

(* The then of selectMessage.  Without a Date header it ends in a          *)
(* TypeError before the event is done.                                     *)
Shown(e) ==
  /\ Has(e, "message")
  /\ cache' = [n \in DOMAIN cache \union {SelectedOf(e)} |->
                 IF n = SelectedOf(e) THEN requests[e].id ELSE cache[n]]
  /\ ShowDetail(requests[e].id)
  /\ \/ requests[e].id \notin Dateless /\ done(e)
     \/ requests[e].id \in Dateless /\ UNCHANGED events
  /\ Finish(e)
  /\ UNCHANGED <<server, list, paging>>

-----------------------------------------------------------------------------
Init ==
  /\ folder = {} /\ unsent = Message
  /\ itemsPerPage = DefaultSize
  /\ startIndex = 0 /\ startMessages = 0 /\ countMessages = 0 /\ totalMessages = 0
  /\ messages = {} /\ preview = NULL /\ cache = [m \in {} |-> NULL]
  /\ eventDone = 0 /\ eventCount = 1
  /\ LET e == CHOOSE e \in Event : TRUE IN
       /\ eventsPending = [f \in {e} |->
            [name |-> "Loading messages", args |-> NULL, complete |-> FALSE]]
       /\ requests = [f \in {e} |-> [kind |-> "list", start |-> 0, limit |-> DefaultSize]]

User ==
  \/ Refresh \/ showNewer \/ showOlder \/ backToInbox \/ backToInboxFirst
  \/ \E i \in PageSizes : showUpdated(i)
  \/ \E m \in Message : selectMessage(m)
  \/ \E kept \in SUBSET Message : deleteAll(kept)

Callback(e) == Listed(e) \/ Shown(e) \/ remove(e)

Next ==
  \/ User \/ Poll
  \/ \E m \in Message : Receive(m) \/ Vanish(m)
  \/ \E e \in Event : GetAll(e) \/ Get(e) \/ Fail(e) \/ Callback(e)

Serve(e) == GetAll(e) \/ Get(e) \/ Fail(e)

(* The browser keeps the interval and the timers and calls back for every  *)
(* answer, and the server answers or fails every request.                  *)
Spec ==
  /\ Init /\ [][Next]_vars
  /\ WF_vars(Poll)
  /\ \A e \in Event : WF_vars(Serve(e)) /\ WF_vars(Callback(e))

-----------------------------------------------------------------------------
EventRecord == [name : {"Loading messages", "Loading message"},
                args : Message \union {NULL}, complete : BOOLEAN]

Request ==
  [kind : {"list"}, start : Nat, limit : PageSizes]
    \union [kind : {"page"}, page : SUBSET Message, total : Nat]
    \union [kind : {"detail", "message"}, id : Message]

(* The variables keep their types, a request belongs to an event that is   *)
(* still kept, and the page never asks with a negative start              *)
(* (controllers.js, lines 6-29 and 84-90).                                 *)
TypeOK ==
  /\ folder \subseteq Message /\ unsent \subseteq Message
  /\ itemsPerPage \in PageSizes
  /\ {startIndex, startMessages, countMessages, totalMessages} \subseteq Nat
  /\ messages \subseteq Message
  /\ preview \in [id : Message, full : BOOLEAN] \union {NULL}
  /\ DOMAIN cache \subseteq Message /\ \A m \in DOMAIN cache : cache[m] \in Message
  /\ DOMAIN eventsPending \subseteq Event
  /\ \A e \in DOMAIN eventsPending : eventsPending[e] \in EventRecord
  /\ DOMAIN requests \subseteq DOMAIN eventsPending
  /\ \A e \in DOMAIN requests : requests[e] \in Request

(* What is kept for a message is the detail of that message, whatever the  *)
(* user selected while the answer was on its way (lines 107-124).          *)
CacheIsRight == \A m \in DOMAIN cache : cache[m] = m

(* A message shown without its detail has a request that is on its way or  *)
(* has failed: no later answer, to whatever question, takes the detail off *)
(* the page again (lines 107-124).                                         *)
SummaryAwaitsDetail ==
  preview # NULL /\ ~preview.full =>
    \E e \in Incomplete("Loading message") : eventsPending[e].args = preview.id

(* The page numbers shown are those of the next request, unless a request  *)
(* for the list is on its way or has failed (lines 48-64, 74-95).          *)
LabelFollowsIndex ==
  startMessages = startIndex \/ Incomplete("Loading messages") # {}

(* The counters of events say how many are kept and how many of these are  *)
(* done, though ends, failures and removals come in any order              *)
(* (lines 160-213).                                                        *)
EventsAddUp ==
  /\ eventCount = Cardinality(DOMAIN eventsPending)
  /\ eventDone = Cardinality(Complete)

(* A page left at the newest messages shows them in the end, whatever      *)
(* became of earlier requests and however many of them failed, once all of *)
(* them can be loaded for good (lines 48-71).                              *)
PageCatchesUp ==
  \A n \in PageSizes :
    <>[](startIndex = 0 /\ itemsPerPage = n /\ Loads(Page(0, n))) => <>[](messages = Page(0, n))

=============================================================================
