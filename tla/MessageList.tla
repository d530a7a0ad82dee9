----------------------------- MODULE MessageList ----------------------------
(***************************************************************************)
(* The list of messages and the detail of the selected one in the desktop  *)
(* application: MessageWatcher reports what happens in the folder,         *)
(* MessageListViewModel keeps the list and MessageDetailViewModel loads    *)
(* what is selected.                                                       *)
(*                                                                         *)
(* Whatever changes the list or the detail runs on the dispatcher, one     *)
(* call at a time; between two of its calls files come and go, the waits   *)
(* of the watcher and the two throttles run out, and loads end.            *)
(***************************************************************************)
EXTENDS Naturals, FiniteSets, Sequences

CONSTANTS
  File,        \* numbers: the files in the order of their dates
  Bad,         \* files whose name is shorter than a time stamp
  Unloadable,  \* files that stay open elsewhere or hold no message
  Ascending,   \* the list is sorted by date ascending
  MaxClicks,   \* bound: how often the user clicks in the list
  NULL

ASSUME ListAssumption ==
  File \subseteq Nat /\ Bad \subseteq File /\ Unloadable \subseteq File
  /\ Ascending \in BOOLEAN /\ MaxClicks \in Nat /\ NULL \notin Nat

VARIABLES
  folder,         \* the .eml files there are
  unborn,         \* names that have not been used yet
  ui,             \* the application is "up" or "down"
  tasks,          \* what has become of the watcher's Created event of a file
  refresh,        \* RefreshNeeded: the throttle runs, the call is posted, both
  messages,       \* Messages, in the order of their addition
  previousIndex,  \* _previousIndex
  selectionDue,   \* SelectedMessage has changed: a call is on its way
  loads,          \* loads of the detail whose result has not been shown
  shown,          \* the file whose message, or failure, the detail shows
  isLoading,      \* IsLoading of the detail: it is blurred and disabled
  overtaken,      \* history: a load that should have reset it was disposed of
  clicks          \* clicks of the user, counted for the bound

detail == <<loads, shown, isLoading, overtaken>>
window == <<tasks, refresh, messages, previousIndex, selectionDue, detail>>
vars == <<folder, unborn, ui, window, clicks>>

Entry == [file : File, selected : BOOLEAN]
Loading == [file : File, handleLoading : BOOLEAN]

-----------------------------------------------------------------------------
(* The list                                                                *)

FilesOf(list) == [i \in DOMAIN list |-> list[i].file]
Listed(f) == \E i \in DOMAIN messages : messages[i].file = f

GetSelected(list) == {i \in DOMAIN list : list[i].selected}

SelectedMessage(list) ==
  IF GetSelected(list) = {} THEN NULL
  ELSE CHOOSE i \in GetSelected(list) : \A j \in GetSelected(list) : i <= j

SelectedFile ==
  IF SelectedMessage(messages) = NULL THEN NULL ELSE messages[SelectedMessage(messages)].file

(* MessagesSorted shows the entries by their dates.                        *)
Before(list, i, j) ==
  IF list[i].file = list[j].file THEN i < j
  ELSE IF Ascending THEN list[i].file < list[j].file ELSE list[i].file > list[j].file

GetIndexOfMessage(list, i) == Cardinality({j \in DOMAIN list : Before(list, j, i)})

PushSelectedIndex(list) ==
  IF previousIndex # NULL \/ SelectedMessage(list) = NULL THEN previousIndex
  ELSE GetIndexOfMessage(list, SelectedMessage(list))

(* Mutant: the index behind the last entry passes for a valid one.         *)
TryGetBehindLast(previous, count) ==
  IF previous = NULL \/ previous = 0 \/ previous > count
    THEN IF Ascending THEN count - 1 ELSE 0
    ELSE previous

(* The index kept, cut to the list; but zero is taken for none, and then   *)
(* the newest message is selected.                                         *)
TryGetValidSelectedIndex(previous, count) ==
  LET index == IF previous # NULL /\ previous >= count THEN count - 1 ELSE previous
  IN  IF index = NULL \/ index = 0
        THEN IF Ascending THEN count - 1 ELSE 0
        ELSE index

SetMessageByIndex(list, index) ==
  [i \in DOMAIN list |->
     IF GetIndexOfMessage(list, i) = index THEN [list[i] EXCEPT !.selected = TRUE] ELSE list[i]]

ValidateSelected(list, previous) ==
  IF list = <<>> \/ GetSelected(list) # {} THEN list
  ELSE SetMessageByIndex(list, TryGetValidSelectedIndex(previous, Len(list)))

(* The files by their dates, the newest first.                             *)
Newest(files) ==
  CHOOSE s \in [1..Cardinality(files) -> files] :
    \A i, j \in DOMAIN s : i < j => s[i] > s[j]

(* Every entry is made anew: entries are equal only to themselves.         *)
LoadMessages ==
  LET newest == Newest(folder)
  IN  [i \in DOMAIN newest |-> [file |-> newest[i], selected |-> FALSE]]

-----------------------------------------------------------------------------
(* The application starts, ends and breaks down                            *)

BlankDetail == loads' = {} /\ shown' = NULL /\ isLoading' = FALSE /\ overtaken' = FALSE

Blank ==
  /\ tasks' = [f \in File |-> "none"] /\ refresh' = {} /\ messages' = <<>>
  /\ previousIndex' = NULL /\ selectionDue' = FALSE /\ BlankDetail

(* The watchers are set up before the list is first filled: a file that    *)
(* comes in between is listed and reported.                                *)
Start ==
  /\ ui = "down" /\ folder \intersect Bad = {}
  /\ ui' = "up"
  /\ messages' = ValidateSelected(LoadMessages, NULL)
  /\ \E late \in SUBSET folder :
       tasks' = [f \in File |-> IF f \in late THEN "waiting" ELSE "none"]
  /\ selectionDue' = TRUE
  /\ refresh' = {} /\ previousIndex' = NULL /\ BlankDetail
  /\ UNCHANGED <<folder, unborn, clicks>>

Exit ==
  /\ ui = "up"
  /\ ui' = "down" /\ Blank
  /\ UNCHANGED <<folder, unborn, clicks>>

Init ==
  /\ folder \in SUBSET (File \ Bad) /\ IsFiniteSet(folder) /\ unborn = File \ folder
  /\ ui = "down" /\ clicks = 0
  /\ tasks = [f \in File |-> "none"] /\ refresh = {} /\ messages = <<>>
  /\ previousIndex = NULL /\ selectionDue = FALSE
  /\ loads = {} /\ shown = NULL /\ isLoading = FALSE /\ overtaken = FALSE

-----------------------------------------------------------------------------
(* The folder and the watcher                                              *)

RefreshNeeded == refresh' = IF ui = "up" THEN refresh \union {"timer"} ELSE refresh

(* A message is saved.                                                     *)
Created(f) ==
  /\ f \in unborn
  /\ folder' = folder \union {f} /\ unborn' = unborn \ {f}
  /\ tasks' = IF ui = "up" THEN [tasks EXCEPT ![f] = "waiting"] ELSE tasks
  /\ UNCHANGED <<ui, refresh, messages, previousIndex, selectionDue, detail, clicks>>

(* Another program deletes a file.                                         *)
Deleted(f) ==
  /\ f \in folder
  /\ folder' = folder \ {f}
  /\ RefreshNeeded
  /\ UNCHANGED <<unborn, ui, tasks, messages, previousIndex, selectionDue, detail, clicks>>

(* Mutant: a renaming is not reported.                                     *)
RenamedSilently(f, g) ==
  /\ f \in folder /\ g \in unborn
  /\ folder' = (folder \ {f}) \union {g} /\ unborn' = unborn \ {g}
  /\ UNCHANGED <<ui, window, clicks>>

Renamed(f, g) ==
  /\ f \in folder /\ g \in unborn
  /\ folder' = (folder \ {f}) \union {g} /\ unborn' = unborn \ {g}
  /\ RefreshNeeded
  /\ UNCHANGED <<ui, tasks, messages, previousIndex, selectionDue, detail, clicks>>

(* Mutant: a file that cannot be read yet is given up without a word.      *)
OnChangedGivesUp(f) ==
  /\ tasks[f] = "waiting"
  /\ tasks' = [tasks EXCEPT ![f] = "none"]
  /\ UNCHANGED <<folder, unborn, ui, refresh, messages, previousIndex, selectionDue, detail,
                 clicks>>

(* The task ends when the file can be read, or after thirty-one attempts,  *)
(* and AddNewMessage then loads the message.  What is gone by now may have *)
(* been read before, or be in the cache.  The entry of a file with a bad   *)
(* name cannot be made.                                                    *)
OnChanged(f) ==
  /\ tasks[f] = "waiting"
  /\ \/ f \notin Bad \union Unloadable /\ tasks' = [tasks EXCEPT ![f] = "loaded"]
     \/ f \in Bad \union Unloadable /\ tasks' = [tasks EXCEPT ![f] = "none"]
     \/ f \notin folder /\ tasks' = [tasks EXCEPT ![f] = "none"]
  /\ UNCHANGED <<folder, unborn, ui, refresh, messages, previousIndex, selectionDue, detail,
                 clicks>>

ThrottleRefresh ==
  /\ "timer" \in refresh
  /\ refresh' = (refresh \ {"timer"}) \union {"posted"}
  /\ UNCHANGED <<folder, unborn, ui, tasks, messages, previousIndex, selectionDue, detail,
                 clicks>>

-----------------------------------------------------------------------------
(* MessageListViewModel, on the dispatcher                                 *)

AddNewMessage(f) ==
  /\ tasks[f] = "loaded"
  /\ tasks' = [tasks EXCEPT ![f] = "none"]
  /\ messages' = Append([i \in DOMAIN messages |-> [messages[i] EXCEPT !.selected = FALSE]],
                        [file |-> f, selected |-> TRUE])
  /\ previousIndex' = NULL
  /\ selectionDue' = TRUE
  /\ UNCHANGED <<folder, unborn, ui, refresh, detail, clicks>>

(* Mutant: what is listed already stays.                                   *)
RefreshKeepsOld ==
  /\ "posted" \in refresh
  /\ refresh' = refresh \ {"posted"}
  /\ messages' = ValidateSelected(messages \o LoadMessages, PushSelectedIndex(messages))
  /\ previousIndex' = NULL
  /\ selectionDue' = TRUE
  /\ UNCHANGED <<folder, unborn, ui, tasks, detail, clicks>>

(* The exception of a bad name is handled nowhere: the process ends.       *)
RefreshMessageList ==
  /\ "posted" \in refresh
  /\ IF folder \intersect Bad # {}
       THEN ui' = "down" /\ Blank
       ELSE /\ refresh' = refresh \ {"posted"}
            /\ messages' = ValidateSelected(LoadMessages, PushSelectedIndex(messages))
            /\ previousIndex' = NULL
            /\ selectionDue' = TRUE
            /\ UNCHANGED <<ui, tasks, detail>>
  /\ UNCHANGED <<folder, unborn, clicks>>

(* The user selects entries, or none.                                      *)
Click ==
  /\ ui = "up" /\ clicks < MaxClicks
  /\ clicks' = clicks + 1
  /\ \E S \in SUBSET DOMAIN messages :
       messages' = [i \in DOMAIN messages |-> [messages[i] EXCEPT !.selected = i \in S]]
  /\ selectionDue' = TRUE
  /\ UNCHANGED <<folder, unborn, ui, tasks, refresh, previousIndex, detail>>

(* A file that somebody reads cannot be deleted, one that is gone need not *)
(* be.  The list is refreshed later, by the watcher.                       *)
DeleteSelected ==
  /\ ui = "up" /\ GetSelected(messages) # {}
  /\ previousIndex' = PushSelectedIndex(messages)
  /\ \E gone \in SUBSET {messages[i].file : i \in GetSelected(messages)} :
       /\ folder' = folder \ gone
       /\ refresh' = IF folder' = folder THEN refresh ELSE refresh \union {"timer"}
  /\ UNCHANGED <<unborn, ui, tasks, messages, selectionDue, detail, clicks>>

-----------------------------------------------------------------------------
(* MainViewModel and MessageDetailViewModel                                *)

(* Mutant: the load before is not disposed of.                             *)
LoadBesides ==
  /\ selectionDue
  /\ selectionDue' = FALSE
  /\ IF SelectedFile = NULL
       THEN shown' = NULL /\ UNCHANGED <<loads, isLoading>>
       ELSE /\ loads' = loads \union {[file |-> SelectedFile, handleLoading |-> ~isLoading]}
            /\ isLoading' = TRUE /\ UNCHANGED shown
  /\ UNCHANGED <<folder, unborn, ui, tasks, refresh, messages, previousIndex, overtaken, clicks>>

(* What is loaded is what is selected now; the load before is disposed of, *)
(* and with it what was to reset IsLoading.  Who finds it set leaves it.   *)
LoadMessageEntry ==
  /\ selectionDue
  /\ selectionDue' = FALSE
  /\ overtaken' = (overtaken \/ \E load \in loads : load.handleLoading)
  /\ IF SelectedFile = NULL
       THEN loads' = {} /\ shown' = NULL /\ UNCHANGED isLoading
       ELSE /\ loads' = {[file |-> SelectedFile, handleLoading |-> ~isLoading]}
            /\ isLoading' = TRUE /\ UNCHANGED shown
  /\ UNCHANGED <<folder, unborn, ui, tasks, refresh, messages, previousIndex, clicks>>

(* Mutant: what is shown stays blurred, as if a failure forgot IsLoading.  *)
DisplayBlurred ==
  /\ \E load \in loads : shown' = load.file /\ loads' = loads \ {load}
  /\ UNCHANGED <<folder, unborn, ui, tasks, refresh, messages, previousIndex, selectionDue,
                 isLoading, overtaken, clicks>>

DisplayMimeMessage ==
  /\ \E load \in loads :
       /\ shown' = load.file /\ loads' = loads \ {load}
       /\ isLoading' = (isLoading /\ ~load.handleLoading)
  /\ UNCHANGED <<folder, unborn, ui, tasks, refresh, messages, previousIndex, selectionDue,
                 overtaken, clicks>>

-----------------------------------------------------------------------------
NewMessage(f) == OnChanged(f) \/ AddNewMessage(f)

Next ==
  \/ Start \/ Exit
  \/ \E f \in File : Created(f) \/ Deleted(f) \/ \E g \in File : Renamed(f, g)
  \/ \E f \in File : NewMessage(f)
  \/ ThrottleRefresh \/ RefreshMessageList \/ Click \/ DeleteSelected
  \/ LoadMessageEntry \/ DisplayMimeMessage

Spec == Init /\ [][Next]_vars

(* Timers fire, the pool runs the tasks and the dispatcher its calls; each *)
(* of them changes what its subscript names.                               *)
FairSpec ==
  /\ Spec
  /\ WF_tasks(\E f \in File : NewMessage(f))
  /\ WF_refresh(ThrottleRefresh)
  /\ WF_<<refresh, selectionDue, loads>>(LoadMessageEntry \/ DisplayMimeMessage
                                          \/ RefreshMessageList)

-----------------------------------------------------------------------------
(* Properties                                                              *)

Due == {"timer", "posted"}

(* The types; and a file is listed at most twice, by a refresh and by the  *)
(* event of its creation.                                                  *)
TypeOK ==
  /\ folder \subseteq File /\ unborn \subseteq File \ folder
  /\ ui \in {"up", "down"} /\ clicks \in 0..MaxClicks
  /\ tasks \in [File -> {"none", "waiting", "loaded"}]
  /\ messages \in Seq(Entry)
  /\ \A f \in File : Cardinality({i \in DOMAIN messages : messages[i].file = f}) <= 2
  /\ previousIndex \in Nat \union {NULL}
  /\ refresh \subseteq Due /\ selectionDue \in BOOLEAN
  /\ loads \subseteq Loading /\ shown \in File \union {NULL}
  /\ isLoading \in BOOLEAN /\ overtaken \in BOOLEAN

(* A message in the folder is in the list, or an event that is still on    *)
(* its way will put it there: the events and the refreshes, which know     *)
(* nothing of each other, leave no gap between them, at the start either.  *)
NothingIsForgotten ==
  ui = "up" => \A f \in folder \ (Bad \union Unloadable) :
    Listed(f) \/ refresh # {} \/ tasks[f] # "none"

(* When nothing is under way the detail shows the message that is selected *)
(* in the list, although selection, list and loads change independently;   *)
(* and it is enabled, unless one load has overtaken another.               *)
DetailMatchesSelection ==
  ui = "up" /\ ~selectionDue /\ loads = {} => shown = SelectedFile /\ (isLoading => overtaken)

(* Whenever the entries of the list change, something is selected: the     *)
(* index kept from before a deletion never points outside the new list.    *)
ListedIsSelected ==
  [][FilesOf(messages') # FilesOf(messages) /\ messages' # <<>>
       => GetSelected(messages') # {}]_vars

(* While the application stays up, a message that can be loaded and stays  *)
(* gets into the list.                                                     *)
NewMessageIsListed ==
  \A f \in File \ (Bad \union Unloadable) :
    f \in folder /\ ui = "up" ~> Listed(f) \/ f \notin folder \/ ui = "down"

(* While the application stays up, the detail comes to show the selection  *)
(* and to be enabled: blurred for good is only what a second selection has *)
(* interrupted, since nobody then resets IsLoading.                        *)
SelectionIsShown ==
  []<>(ui = "down" \/ (shown = SelectedFile /\ (isLoading => overtaken)))
=============================================================================
