-------------------------- MODULE MessageListProofs -------------------------
(***************************************************************************)
(* Proofs about the list of messages and the detail view.                  *)
(*                                                                         *)
(* DetailMatchesSelection speaks of the moments at which nothing is under  *)
(* way.  The invariant says what holds while a load is: it is of what is   *)
(* selected, unless a change of the selection has still to be heard of,    *)
(* and where none has been overtaken it is the one that resets IsLoading.  *)
(*                                                                         *)
(* The types are not inductive: that a file is listed twice at most, by a  *)
(* refresh and by the event of its creation, needs to know that it is      *)
(* listed once at most while that event is under way, and that a name that *)
(* was never used has neither an event nor an entry (Occurrences).  With   *)
(* that, and with what a refresh lists (the files of the folder, each      *)
(* once), NothingIsForgotten and ListedIsSelected follow step by step.     *)
(***************************************************************************)
EXTENDS MessageList, FiniteSetTheorems, WellFoundedInduction, TLAPS

LoadsTheSelection ==
  ui = "up" /\ ~selectionDue =>
    /\ \A load \in loads : load.file = SelectedFile
    /\ loads = {} => shown = SelectedFile

ResetsIsLoading ==
  /\ loads = {} \/ \E load : loads = {load}
  /\ isLoading /\ ~overtaken => loads # {} /\ \A load \in loads : load.handleLoading

(* A step that leaves the detail alone leaves the selection alone as well, *)
(* or announces that it has changed.                                       *)
Announced ==
  \/ ui' # "up"
  \/ selectionDue'
  \/ UNCHANGED <<ui, messages, selectionDue, loads, shown>>

Blanked == loads' = {} /\ isLoading' = FALSE

LEMMA SelectionIsAnnounced ==
  ASSUME [Next]_vars
  PROVE  \/ Announced /\ (Blanked \/ UNCHANGED detail)
         \/ LoadMessageEntry
         \/ DisplayMimeMessage
<1> USE DEF Announced, Blanked, Blank, BlankDetail, detail
<1>1. CASE Start
  BY <1>1 DEF Start
<1>2. CASE Exit
  BY <1>2 DEF Exit
<1>3. ASSUME NEW f \in File, Created(f) \/ Deleted(f) \/ \E g \in File : Renamed(f, g)
      PROVE  Announced /\ UNCHANGED detail
  BY <1>3 DEF Created, Deleted, Renamed
<1>4. ASSUME NEW f \in File, NewMessage(f) PROVE Announced /\ UNCHANGED detail
  BY <1>4 DEF NewMessage, OnChanged, AddNewMessage
<1>5. CASE ThrottleRefresh
  BY <1>5 DEF ThrottleRefresh
<1>6. CASE RefreshMessageList
  BY <1>6 DEF RefreshMessageList
<1>7. CASE Click
  BY <1>7 DEF Click
<1>8. CASE DeleteSelected
  BY <1>8 DEF DeleteSelected
<1>9. CASE UNCHANGED vars
  BY <1>9 DEF vars, window
<1> QED BY <1>1, <1>2, <1>3, <1>4, <1>5, <1>6, <1>7, <1>8, <1>9 DEF Next

LEMMA SelectionStays ==
  ASSUME messages' = messages PROVE SelectedFile' = SelectedFile
BY DEF SelectedFile, SelectedMessage, GetSelected

LEMMA Inductive == Spec => [](LoadsTheSelection /\ ResetsIsLoading)
<1>1. Init => LoadsTheSelection /\ ResetsIsLoading
  BY DEF Init, LoadsTheSelection, ResetsIsLoading
<1>2. ASSUME LoadsTheSelection, [Next]_vars PROVE LoadsTheSelection'
  <2>1. CASE Announced
    BY <1>2, <2>1, SelectionStays DEF Announced, LoadsTheSelection
  <2>2. CASE LoadMessageEntry
    <3>1. SelectedFile' = SelectedFile
      BY <2>2, SelectionStays DEF LoadMessageEntry
    <3>2. CASE SelectedFile = NULL
      BY <2>2, <3>1, <3>2 DEF LoadMessageEntry, LoadsTheSelection
    <3>3. CASE SelectedFile # NULL
      <4> DEFINE h == ~isLoading
      <4>1. loads' = {[file |-> SelectedFile, handleLoading |-> h]}
        BY <2>2, <3>3 DEF LoadMessageEntry
      <4> HIDE DEF h
      <4>2. \A load \in loads' : load.file = SelectedFile
        BY <4>1
      <4>3. loads' # {}
        BY <4>1
      <4> QED BY <3>1, <4>2, <4>3 DEF LoadsTheSelection
    <3> QED BY <3>2, <3>3
  <2>3. CASE DisplayMimeMessage
    <3>1. SelectedFile' = SelectedFile
      BY <2>3, SelectionStays DEF DisplayMimeMessage
    <3> QED BY <1>2, <2>3, <3>1 DEF DisplayMimeMessage, LoadsTheSelection
  <2> QED BY <1>2, <2>1, <2>2, <2>3, SelectionIsAnnounced
<1>3. ASSUME ResetsIsLoading, [Next]_vars PROVE ResetsIsLoading'
  <2>1. CASE Blanked \/ UNCHANGED detail
    BY <1>3, <2>1 DEF Blanked, detail, ResetsIsLoading
  <2>2. CASE LoadMessageEntry
    <3>1. CASE SelectedFile = NULL
      BY <1>3, <2>2, <3>1 DEF LoadMessageEntry, ResetsIsLoading
    <3>2. CASE SelectedFile # NULL
      <4>1. PICK load : loads' = {load} /\ load.handleLoading = ~isLoading /\ isLoading' = TRUE
        BY <2>2, <3>2 DEF LoadMessageEntry
      <4>2. overtaken' = (overtaken \/ \E l \in loads : l.handleLoading)
        BY <2>2 DEF LoadMessageEntry
      <4> QED BY <1>3, <4>1, <4>2 DEF ResetsIsLoading
    <3> QED BY <3>1, <3>2
  <2>3. CASE DisplayMimeMessage
    BY <1>3, <2>3 DEF DisplayMimeMessage, ResetsIsLoading
  <2> QED BY <1>3, <2>1, <2>2, <2>3, SelectionIsAnnounced
<1> QED BY <1>1, <1>2, <1>3, PTL DEF Spec

(* Whatever happens to the folder, the list and the selection, and in      *)
(* whatever order calls and loads end: the detail shows what is selected   *)
(* when nothing is under way, for any files and either order of the list,  *)
(* and it is enabled again, but for a load that another one has overtaken. *)
THEOREM DetailFollows == Spec => []DetailMatchesSelection
<1>1. LoadsTheSelection /\ ResetsIsLoading => DetailMatchesSelection
  BY DEF LoadsTheSelection, ResetsIsLoading, DetailMatchesSelection
<1> QED BY <1>1, Inductive, PTL

-----------------------------------------------------------------------------
(* Sets of numbers and their order                                         *)

(* A nonempty set of numbers has a least element.                          *)
LEMMA LeastNumber ==
  ASSUME NEW T, T \subseteq Nat, T # {}
  PROVE  \E x \in T : \A y \in T : x <= y
<1> DEFINE R == {p \in Nat \X Nat : p[1] < p[2]}
<1>1. IsWellFoundedOn(R, Nat)
  BY NatLessThanWellFounded DEF OpToRel
<1>2. \E x \in T : \A y \in T : <<y, x>> \notin R
  <2> HIDE DEF R
  <2> QED BY <1>1, WFMin
<1>3. \A x, y \in Nat : <<y, x>> \notin R => x <= y
  OBVIOUS
<1> HIDE DEF R
<1> QED BY <1>2, <1>3

Descending(S) ==
  {s \in [1..Cardinality(S) -> S] : \A i, j \in DOMAIN s : i < j => s[i] > s[j]}

(* The order of a set without its least element is extended by it.         *)
LEMMA LeastGoesLast ==
  ASSUME NEW S, S \subseteq Nat, IsFiniteSet(S), NEW x \in S, \A y \in S : x <= y,
         NEW s \in Descending(S \ {x})
  PROVE  [i \in 1..Cardinality(S) |-> IF i = Cardinality(S) THEN x ELSE s[i]]
           \in Descending(S)
<1> DEFINE n == Cardinality(S)
           t == [i \in 1..n |-> IF i = n THEN x ELSE s[i]]
<1>1. n \in Nat /\ Cardinality(S \ {x}) = n - 1 /\ n # 0
  BY FS_CardinalityType, FS_RemoveElement, FS_EmptySet
<1>2. s \in [1..(n - 1) -> S \ {x}] /\ \A i, j \in 1..(n - 1) : i < j => s[i] > s[j]
  BY <1>1 DEF Descending
<1> HIDE DEF n
<1>3. t \in [1..n -> S]
  BY <1>1, <1>2
<1>4. ASSUME NEW i \in 1..n, NEW j \in 1..n, i < j PROVE t[i] > t[j]
  <2>1. i \in 1..(n - 1) /\ t[i] = s[i] /\ s[i] \in S \ {x}
    BY <1>1, <1>2, <1>4
  <2>2. CASE j = n
    <3>1. t[j] = x
      BY <2>2
    <3>2. s[i] >= x /\ s[i] # x /\ s[i] \in Nat /\ x \in Nat
      BY <2>1
    <3> QED BY <2>1, <3>1, <3>2
  <2>3. CASE j # n
    <3>1. j \in 1..(n - 1) /\ t[j] = s[j]
      BY <1>1, <2>3
    <3> QED BY <1>2, <1>4, <2>1, <3>1
  <2> QED BY <2>2, <2>3
<1>5. t \in {u \in [1..n -> S] : \A i, j \in DOMAIN u : i < j => u[i] > u[j]}
  BY <1>3, <1>4
<1> QED BY <1>5 DEF Descending, n

(* Every finite set of numbers can be put into descending order: one of    *)
(* the least size for which that failed would have a least element.        *)
LEMMA OrderExists ==
  ASSUME NEW S, S \subseteq Nat, IsFiniteSet(S)
  PROVE  Descending(S) # {}
<1> DEFINE Unordered == {U \in SUBSET Nat : IsFiniteSet(U) /\ Descending(U) = {}}
           T == {n \in Nat : \E U \in Unordered : Cardinality(U) = n}
<1>1. T \subseteq Nat
  OBVIOUS
<1>2. ASSUME T # {} PROVE FALSE
  <2>1. PICK n \in T : \A m \in T : n <= m
    <3> HIDE DEF T
    <3> QED BY <1>1, <1>2, LeastNumber
  <2>2. PICK U \in Unordered : Cardinality(U) = n
    OBVIOUS
  <2>3. U \subseteq Nat /\ IsFiniteSet(U) /\ Descending(U) = {}
    OBVIOUS
  <2>4. CASE U = {}
    <3>1. 1..Cardinality(U) = {}
      BY <2>4, FS_EmptySet
    <3>2. [i \in {} |-> i] \in Descending(U)
      BY <3>1 DEF Descending
    <3> QED BY <2>3, <3>2
  <2>5. CASE U # {}
    <3>1. PICK x \in U : \A y \in U : x <= y
      BY <2>3, <2>5, LeastNumber
    <3>2. IsFiniteSet(U \ {x}) /\ Cardinality(U \ {x}) = n - 1 /\ n - 1 \in Nat
      BY <2>2, <2>3, <3>1, FS_RemoveElement, FS_CardinalityType, FS_EmptySet
    <3>3. ~(n <= n - 1)
      BY <2>2, <2>3, FS_CardinalityType
    <3>4. n - 1 \notin T
      <4> HIDE DEF T
      <4> QED BY <2>1, <3>3
    <3>5. U \ {x} \notin Unordered
      <4> HIDE DEF Unordered
      <4> QED BY <3>2, <3>4
    <3>6. PICK s : s \in Descending(U \ {x})
      BY <2>3, <3>2, <3>5
    <3> QED BY <2>3, <3>1, <3>6, LeastGoesLast
  <2> QED BY <2>4, <2>5
<1>3. S \notin Unordered
  BY <1>2, FS_CardinalityType
<1> QED BY <1>3

(* What is listed anew: every file once, by its date.                      *)
LEMMA NewestFirst ==
  ASSUME NEW S, S \subseteq Nat, IsFiniteSet(S)
  PROVE  /\ Newest(S) \in [1..Cardinality(S) -> S]
         /\ \A i, j \in 1..Cardinality(S) : i < j => Newest(S)[i] > Newest(S)[j]
         /\ \A f \in S : \E i \in 1..Cardinality(S) : Newest(S)[i] = f
<1> DEFINE n == Cardinality(S)
           s == Newest(S)
<1>1. n \in Nat /\ IsFiniteSet(1..n) /\ Cardinality(1..n) = n
  BY FS_CardinalityType, FS_Interval
<1>2. s \in Descending(S)
  BY OrderExists DEF Newest, Descending
<1>3. s \in [1..n -> S] /\ \A i, j \in 1..n : i < j => s[i] > s[j]
  BY <1>2 DEF Descending
<1> HIDE DEF s, n
<1>4. \A i, j \in 1..n : s[i] = s[j] => i = j
  <2> SUFFICES ASSUME NEW i \in 1..n, NEW j \in 1..n, s[i] = s[j], i # j PROVE FALSE
    OBVIOUS
  <2>1. i < j \/ j < i
    BY <1>1
  <2>2. s[i] \in Nat /\ s[j] \in Nat
    BY <1>3
  <2> QED BY <1>3, <2>1, <2>2
<1>5. s \in Injection(1..n, S)
  BY <1>3, <1>4 DEF Injection, IsInjective
<1>6. s \in Surjection(1..n, S)
  BY <1>1, <1>5, FS_Injection DEF n
<1> QED BY <1>3, <1>6 DEF s, n, Surjection

-----------------------------------------------------------------------------
(* The operators on lists                                                  *)

LEMMA EntryOf ==
  ASSUME NEW list \in Seq(Entry)
  PROVE  /\ DOMAIN list = 1..Len(list) /\ Len(list) \in Nat
         /\ \A i \in DOMAIN list : /\ list[i] \in Entry /\ list[i].selected \in BOOLEAN
                                   /\ list[i].file \in File /\ list[i].file \in Nat
<1>1. \A i \in DOMAIN list : list[i] \in Entry
  OBVIOUS
<1>2. \A e \in Entry : e.file \in File /\ e.file \in Nat /\ e.selected \in BOOLEAN
  BY ListAssumption DEF Entry
<1> QED BY <1>1, <1>2

LEMMA Reselected ==
  ASSUME NEW e \in Entry, NEW b \in BOOLEAN
  PROVE  /\ [e EXCEPT !.selected = b] \in Entry
         /\ [e EXCEPT !.selected = b].file = e.file
         /\ [e EXCEPT !.selected = b].selected = b
BY DEF Entry

LEMMA SelectedIsListed ==
  ASSUME NEW list \in Seq(Entry), SelectedMessage(list) # NULL
  PROVE  SelectedMessage(list) \in DOMAIN list
<1>1. GetSelected(list) # {} /\ GetSelected(list) \subseteq DOMAIN list
  BY DEF SelectedMessage, GetSelected
<1>2. GetSelected(list) \subseteq Nat
  BY <1>1
<1>3. \E i \in GetSelected(list) : \A j \in GetSelected(list) : i <= j
  BY <1>1, <1>2, LeastNumber
<1> QED BY <1>1, <1>3 DEF SelectedMessage

LEMMA SelectedFileType ==
  ASSUME messages \in Seq(Entry) PROVE SelectedFile \in File \union {NULL}
BY SelectedIsListed, EntryOf DEF SelectedFile

LEMMA IndexType ==
  ASSUME NEW list \in Seq(Entry), NEW i PROVE GetIndexOfMessage(list, i) \in Nat
<1>1. IsFiniteSet(1..Len(list)) /\ DOMAIN list = 1..Len(list)
  BY FS_Interval
<1>2. IsFiniteSet({j \in DOMAIN list : Before(list, j, i)})
  BY <1>1, FS_Subset
<1> QED BY <1>2, FS_CardinalityType DEF GetIndexOfMessage

LEMMA PushType ==
  ASSUME messages \in Seq(Entry), previousIndex \in Nat \union {NULL}
  PROVE  PushSelectedIndex(messages) \in Nat \union {NULL}
BY IndexType DEF PushSelectedIndex

LEMMA LoadedAnew ==
  ASSUME folder \subseteq File, IsFiniteSet(folder)
  PROVE  /\ LoadMessages \in Seq(Entry)
         /\ GetSelected(LoadMessages) = {}
         /\ \A i, j \in DOMAIN LoadMessages :
              i < j => LoadMessages[i].file > LoadMessages[j].file
         /\ \A f : (\E i \in DOMAIN LoadMessages : LoadMessages[i].file = f) <=> f \in folder
<1> DEFINE n == Cardinality(folder)
           s == Newest(folder)
           list == [i \in 1..n |-> [file |-> s[i], selected |-> FALSE]]
<1>1. n \in Nat /\ folder \subseteq Nat
  BY FS_CardinalityType, ListAssumption
<1>2. /\ s \in [1..n -> folder]
      /\ \A i, j \in 1..n : i < j => s[i] > s[j]
      /\ \A f \in folder : \E i \in 1..n : s[i] = f
  BY <1>1, NewestFirst
<1>3. LoadMessages = list
  BY <1>2 DEF LoadMessages
<1> HIDE DEF s, n
<1>4. DOMAIN list = 1..n /\ \A i \in 1..n : list[i].file = s[i] /\ list[i].selected = FALSE
  OBVIOUS
<1>5. list \in Seq(Entry)
  <2>1. \A i \in 1..n : [file |-> s[i], selected |-> FALSE] \in Entry
    BY <1>2 DEF Entry
  <2> QED BY <1>1, <2>1
<1> HIDE DEF list
<1>6. GetSelected(list) = {}
  BY <1>4 DEF GetSelected
<1>7. \A i, j \in DOMAIN list : i < j => list[i].file > list[j].file
  BY <1>2, <1>4
<1>8. \A f : (\E i \in DOMAIN list : list[i].file = f) <=> f \in folder
  BY <1>2, <1>4
<1> QED BY <1>3, <1>5, <1>6, <1>7, <1>8

(* Selecting changes neither the entries nor their order.                  *)
LEMMA SelectingKeepsFiles ==
  ASSUME NEW list \in Seq(Entry), NEW previous
  PROVE  /\ ValidateSelected(list, previous) \in Seq(Entry)
         /\ FilesOf(ValidateSelected(list, previous)) = FilesOf(list)
<1> DEFINE index == TryGetValidSelectedIndex(previous, Len(list))
           set == SetMessageByIndex(list, index)
<1>1. ASSUME NEW i \in DOMAIN list
      PROVE  [list[i] EXCEPT !.selected = TRUE] \in Entry
             /\ [list[i] EXCEPT !.selected = TRUE].file = list[i].file
  BY EntryOf, Reselected
<1>2. DOMAIN set = DOMAIN list /\ \A i \in DOMAIN list : set[i] \in Entry /\ set[i].file = list[i].file
  BY <1>1 DEF SetMessageByIndex
<1>3. set \in [1..Len(list) -> Entry] /\ Len(list) \in Nat
  <2> HIDE DEF index
  <2> QED BY <1>2 DEF SetMessageByIndex
<1>4. set \in Seq(Entry)
  <2> HIDE DEF set
  <2> QED BY <1>3
<1>5. FilesOf(set) = FilesOf(list)
  <2> HIDE DEF set
  <2> QED BY <1>2 DEF FilesOf
<1>6. ValidateSelected(list, previous) \in {list, set}
  BY DEF ValidateSelected
<1> HIDE DEF set
<1> QED BY <1>4, <1>5, <1>6

(* In a list loaded anew an index counts the newer or the older entries.   *)
LEMMA IndexInOrder ==
  ASSUME NEW list \in Seq(Entry), NEW i \in DOMAIN list,
         \A j, k \in DOMAIN list : j < k => list[j].file > list[k].file
  PROVE  GetIndexOfMessage(list, i) = IF Ascending THEN Len(list) - i ELSE i - 1
<1> DEFINE earlier == {j \in DOMAIN list : Before(list, j, i)}
<1>1. DOMAIN list = 1..Len(list) /\ Len(list) \in Nat /\ i \in 1..Len(list)
      /\ \A j \in DOMAIN list : list[j].file \in Nat
  BY EntryOf
<1>2. GetIndexOfMessage(list, i) = Cardinality(earlier)
  BY DEF GetIndexOfMessage
<1>3. CASE Ascending
  <2>1. ASSUME NEW j \in DOMAIN list PROVE Before(list, j, i) <=> i < j
    <3>1. j < i \/ j = i \/ i < j
      BY <1>1
    <3> QED BY <1>1, <1>3, <3>1 DEF Before
  <2>2. earlier = (i + 1)..Len(list)
    BY <1>1, <2>1
  <2>3. Cardinality((i + 1)..Len(list)) = Len(list) - i
    BY <1>1, FS_Interval
  <2> HIDE DEF earlier
  <2> QED BY <1>3, <1>2, <2>2, <2>3
<1>4. CASE ~Ascending
  <2>1. ASSUME NEW j \in DOMAIN list PROVE Before(list, j, i) <=> j < i
    <3>1. j < i \/ j = i \/ i < j
      BY <1>1
    <3> QED BY <1>1, <1>4, <3>1 DEF Before
  <2>2. earlier = 1..(i - 1)
    BY <1>1, <2>1
  <2>3. Cardinality(1..(i - 1)) = i - 1
    BY <1>1, FS_Interval
  <2> HIDE DEF earlier
  <2> QED BY <1>4, <1>2, <2>2, <2>3
<1> QED BY <1>3, <1>4

(* The index kept is one of the list, whatever the list was before.        *)
LEMMA ValidIndex ==
  ASSUME NEW previous \in Nat \union {NULL}, NEW count \in Nat, count > 0
  PROVE  TryGetValidSelectedIndex(previous, count) \in 0..(count - 1)
BY ListAssumption DEF TryGetValidSelectedIndex

LEMMA AnewIsSelected ==
  ASSUME folder \subseteq File, IsFiniteSet(folder), LoadMessages # <<>>,
         NEW previous \in Nat \union {NULL}
  PROVE  GetSelected(ValidateSelected(LoadMessages, previous)) # {}
<1> DEFINE list == LoadMessages
           index == TryGetValidSelectedIndex(previous, Len(list))
           at == IF Ascending THEN Len(list) - index ELSE index + 1
<1>1. /\ list \in Seq(Entry) /\ GetSelected(list) = {} /\ list # <<>>
      /\ \A j, k \in DOMAIN list : j < k => list[j].file > list[k].file
  BY LoadedAnew
<1>2. ValidateSelected(list, previous) = SetMessageByIndex(list, index)
  BY <1>1 DEF ValidateSelected
<1> HIDE DEF list
<1>3. DOMAIN list = 1..Len(list) /\ Len(list) \in Nat /\ Len(list) > 0
  BY <1>1
<1>4. index \in 0..(Len(list) - 1)
  BY <1>3, ValidIndex
<1> HIDE DEF index
<1>5. at \in DOMAIN list /\ (IF Ascending THEN Len(list) - at ELSE at - 1) = index
  BY <1>3, <1>4
<1> HIDE DEF at
<1>6. GetIndexOfMessage(list, at) = index
  BY <1>1, <1>5, IndexInOrder
<1>7. [list[at] EXCEPT !.selected = TRUE].selected
  BY <1>1, <1>5, EntryOf, Reselected
<1>8. at \in GetSelected(SetMessageByIndex(list, index))
  BY <1>5, <1>6, <1>7 DEF SetMessageByIndex, GetSelected
<1> QED BY <1>2, <1>8 DEF list

-----------------------------------------------------------------------------
(* How often a file is listed                                              *)

Listings(list, f) == {i \in DOMAIN list : list[i].file = f}

LEMMA SameFiles ==
  ASSUME NEW l \in Seq(Entry), NEW m \in Seq(Entry), FilesOf(l) = FilesOf(m), NEW f
  PROVE  Listings(l, f) = Listings(m, f)
<1>1. DOMAIN FilesOf(l) = DOMAIN l /\ DOMAIN FilesOf(m) = DOMAIN m
      /\ (\A i \in DOMAIN l : FilesOf(l)[i] = l[i].file)
      /\ \A i \in DOMAIN m : FilesOf(m)[i] = m[i].file
  BY DEF FilesOf
<1> QED BY <1>1 DEF Listings

LEMMA ListedOften ==
  /\ \A f : Listed(f) <=> Listings(messages, f) # {}
  /\ \A f : Listings(<<>>, f) = {} /\ Cardinality(Listings(<<>>, f)) = 0
BY FS_EmptySet DEF Listed, Listings

(* A list loaded anew holds every file of the folder once.                 *)
LEMMA AnewListings ==
  ASSUME folder \subseteq File, IsFiniteSet(folder), NEW previous, NEW f
  PROVE  /\ Listings(ValidateSelected(LoadMessages, previous), f) # {} <=> f \in folder
         /\ Cardinality(Listings(ValidateSelected(LoadMessages, previous), f)) \in {0, 1}
<1> DEFINE list == LoadMessages
           S == Listings(list, f)
<1>1. /\ list \in Seq(Entry)
      /\ \A i, j \in DOMAIN list : i < j => list[i].file > list[j].file
      /\ \A g : (\E i \in DOMAIN list : list[i].file = g) <=> g \in folder
  BY LoadedAnew
<1>2. Listings(ValidateSelected(list, previous), f) = S
  BY <1>1, SelectingKeepsFiles, SameFiles
<1> HIDE DEF list
<1>3. S # {} <=> f \in folder
  BY <1>1 DEF Listings
<1>4. ASSUME NEW i \in S, NEW j \in S PROVE i = j
  <2>1. i \in DOMAIN list /\ j \in DOMAIN list /\ list[i].file = list[j].file
        /\ i \in Nat /\ j \in Nat /\ list[i].file \in Nat
    BY <1>1, EntryOf DEF Listings
  <2>2. i < j \/ j < i \/ i = j
    BY <2>1
  <2> QED BY <1>1, <2>1, <2>2
<1> HIDE DEF S
<1>5. S = {} \/ \E i : S = {i}
  BY <1>4
<1>6. Cardinality(S) \in {0, 1}
  BY <1>5, FS_EmptySet, FS_Singleton
<1> QED BY <1>2, <1>3, <1>6 DEF list

LEMMA OneMoreListing ==
  ASSUME NEW l \in Seq(Entry), NEW e \in Entry, NEW f
  PROVE  /\ Append(l, e) \in Seq(Entry)
         /\ Listings(Append(l, e), f) # {} <=> Listings(l, f) # {} \/ f = e.file
         /\ IsFiniteSet(Listings(l, f)) /\ Cardinality(Listings(l, f)) \in Nat
         /\ Cardinality(Listings(Append(l, e), f))
              = IF f = e.file THEN Cardinality(Listings(l, f)) + 1
                ELSE Cardinality(Listings(l, f))
<1> DEFINE m == Append(l, e)
           n == Len(l)
<1>1. m \in Seq(Entry) /\ n \in Nat /\ DOMAIN l = 1..n /\ DOMAIN m = 1..(n + 1)
      /\ m[n + 1] = e /\ \A i \in 1..n : m[i] = l[i]
  OBVIOUS
<1>2. IsFiniteSet(Listings(l, f))
  <2>1. n \in Nat /\ DOMAIN l = 1..n
    OBVIOUS
  <2> HIDE DEF n
  <2>2. IsFiniteSet(1..n)
    BY <2>1, FS_Interval
  <2> QED BY <2>1, <2>2, FS_Subset DEF Listings
<1> HIDE DEF m, n
<1>3. Listings(m, f) = IF f = e.file THEN Listings(l, f) \union {n + 1} ELSE Listings(l, f)
  BY <1>1 DEF Listings
<1>4. n + 1 \notin Listings(l, f)
  BY <1>1 DEF Listings
<1>5. /\ Cardinality(Listings(l, f)) \in Nat
      /\ Cardinality(Listings(l, f) \union {n + 1}) = Cardinality(Listings(l, f)) + 1
  BY <1>2, <1>4, FS_AddElement, FS_CardinalityType
<1> QED BY <1>1, <1>2, <1>3, <1>5 DEF m

-----------------------------------------------------------------------------
(* The types and the listings are kept                                     *)

DetailTypes ==
  /\ loads \subseteq Loading /\ shown \in File \union {NULL}
  /\ isLoading \in BOOLEAN /\ overtaken \in BOOLEAN

LEMMA DetailStays ==
  ASSUME DetailTypes, UNCHANGED detail PROVE DetailTypes'
BY DEF DetailTypes, detail

LEMMA DetailGoesBlank ==
  ASSUME BlankDetail PROVE DetailTypes'
BY DEF DetailTypes, BlankDetail

ListTypes ==
  /\ folder \subseteq File /\ unborn \subseteq File \ folder
  /\ ui \in {"up", "down"} /\ clicks \in 0..MaxClicks
  /\ tasks \in [File -> {"none", "waiting", "loaded"}]
  /\ messages \in Seq(Entry)
  /\ previousIndex \in Nat \union {NULL}
  /\ refresh \subseteq Due /\ selectionDue \in BOOLEAN
  /\ DetailTypes

(* A file whose event is still on its way is listed once at most, and a    *)
(* name that has not been used has neither an event nor an entry.          *)
Occurrences ==
  /\ IsFiniteSet(folder)
  /\ \A f \in File :
       Cardinality(Listings(messages, f)) \in 0..(IF tasks[f] = "none" THEN 2 ELSE 1)
  /\ \A f \in unborn : tasks[f] = "none" /\ Listings(messages, f) = {}

ListInv == ListTypes /\ Occurrences

LEMMA ListInvType == ListInv => TypeOK
BY DEF ListInv, ListTypes, DetailTypes, Occurrences, TypeOK, Listings

(* A list loaded anew, with the events of some files of the folder or with *)
(* those that were on their way.                                           *)
LEMMA AnewOccurrences ==
  ASSUME ListInv, folder' = folder, unborn' = unborn,
         NEW previous, messages' = ValidateSelected(LoadMessages, previous),
         tasks' \in [File -> {"none", "waiting", "loaded"}],
         \A f \in unborn : tasks'[f] = "none"
  PROVE  messages' \in Seq(Entry) /\ Occurrences'
<1>1. folder \subseteq File /\ IsFiniteSet(folder) /\ unborn \subseteq File \ folder
  BY DEF ListInv, ListTypes, Occurrences
<1>2. messages' \in Seq(Entry)
  BY <1>1, LoadedAnew, SelectingKeepsFiles
<1>3. \A f : /\ Listings(messages', f) # {} <=> f \in folder
             /\ Cardinality(Listings(messages', f)) \in {0, 1}
  BY <1>1, AnewListings
<1> QED BY <1>1, <1>2, <1>3 DEF Occurrences

(* A list with the same files, and no event but those that were on their   *)
(* way or one for a new name.                                              *)
LEMMA SameOccurrences ==
  ASSUME ListInv, messages' \in Seq(Entry), FilesOf(messages') = FilesOf(messages),
         IsFiniteSet(folder'), unborn' \subseteq unborn,
         \A f \in File : tasks'[f] = "none" \/ tasks[f] # "none" \/ f \in unborn \ unborn'
  PROVE  Occurrences'
<1>1. messages \in Seq(Entry) /\ unborn \subseteq File
  BY DEF ListInv, ListTypes
<1>2. \A f : Listings(messages', f) = Listings(messages, f)
  BY <1>1, SameFiles
<1>3. \A f \in File : f \in unborn => Cardinality(Listings(messages, f)) = 0
  BY FS_EmptySet DEF ListInv, Occurrences
<1>4. \A f \in File :
        Cardinality(Listings(messages', f)) \in 0..(IF tasks'[f] = "none" THEN 2 ELSE 1)
  BY <1>2, <1>3 DEF ListInv, Occurrences
<1>5. \A f \in unborn' : tasks'[f] = "none" /\ Listings(messages', f) = {}
  BY <1>1, <1>2 DEF ListInv, Occurrences
<1> QED BY <1>4, <1>5 DEF Occurrences

LEMMA EmptyOccurrences ==
  ASSUME IsFiniteSet(folder'), messages' = <<>>, tasks' = [f \in File |-> "none"],
         unborn' \subseteq File
  PROVE  Occurrences'
<1>1. \A f : Listings(messages', f) = {} /\ Cardinality(Listings(messages', f)) = 0
  BY ListedOften
<1> QED BY <1>1 DEF Occurrences

(* An entry for a file whose event was on its way.                         *)
LEMMA AddedOccurrences ==
  ASSUME ListInv, NEW f \in File, AddNewMessage(f)
  PROVE  /\ messages' \in Seq(Entry) /\ Occurrences'
         /\ \A g : Listings(messages', g) # {} <=> Listings(messages, g) # {} \/ g = f
<1> DEFINE l == [i \in DOMAIN messages |-> [messages[i] EXCEPT !.selected = FALSE]]
           e == [file |-> f, selected |-> TRUE]
<1>1. messages \in Seq(Entry) /\ tasks \in [File -> {"none", "waiting", "loaded"}]
      /\ unborn \subseteq File
  BY DEF ListInv, ListTypes
<1>2. e \in Entry /\ e.file = f
  BY DEF Entry
<1>3. DOMAIN l = DOMAIN messages
      /\ \A i \in DOMAIN messages : l[i] \in Entry /\ l[i].file = messages[i].file
  BY <1>1, EntryOf, Reselected
<1>4. l \in Seq(Entry) /\ FilesOf(l) = FilesOf(messages)
  <2>1. l \in [1..Len(messages) -> Entry] /\ Len(messages) \in Nat
    BY <1>1, <1>3
  <2> HIDE DEF l
  <2> QED BY <1>3, <2>1 DEF FilesOf
<1>5. messages' = Append(l, e) /\ folder' = folder /\ unborn' = unborn
      /\ tasks[f] = "loaded" /\ tasks' = [tasks EXCEPT ![f] = "none"]
  BY DEF AddNewMessage
<1> HIDE DEF l, e
<1>6. \A g : Listings(l, g) = Listings(messages, g)
  BY <1>1, <1>4, SameFiles
<1>7. messages' \in Seq(Entry)
  BY <1>2, <1>4, <1>5, OneMoreListing
<1>8. \A g : /\ Listings(messages', g) # {} <=> Listings(messages, g) # {} \/ g = f
             /\ Cardinality(Listings(messages', g))
                  = IF g = f THEN Cardinality(Listings(messages, g)) + 1
                    ELSE Cardinality(Listings(messages, g))
  BY <1>2, <1>4, <1>5, <1>6, OneMoreListing
<1>9. f \notin unborn
  BY <1>5 DEF ListInv, Occurrences
<1>10. \A g \in File :
         Cardinality(Listings(messages', g)) \in 0..(IF tasks'[g] = "none" THEN 2 ELSE 1)
  BY <1>1, <1>5, <1>8 DEF ListInv, Occurrences
<1>11. \A g \in unborn' : tasks'[g] = "none" /\ Listings(messages', g) = {}
  BY <1>1, <1>5, <1>8, <1>9 DEF ListInv, Occurrences
<1>12. IsFiniteSet(folder')
  BY <1>5 DEF ListInv, Occurrences
<1> QED BY <1>7, <1>8, <1>10, <1>11, <1>12 DEF Occurrences

LEMMA ListInvInit == Init => ListInv
<1> SUFFICES ASSUME Init PROVE ListInv
  OBVIOUS
<1>1. ListTypes
  <2>1. messages \in Seq(Entry) /\ tasks \in [File -> {"none", "waiting", "loaded"}]
    BY DEF Init
  <2>2. folder \subseteq File /\ unborn \subseteq File \ folder /\ clicks \in 0..MaxClicks
    BY ListAssumption DEF Init
  <2> QED BY <2>1, <2>2 DEF Init, ListTypes, DetailTypes
<1>2. \A f : Listings(messages, f) = {} /\ Cardinality(Listings(messages, f)) = 0
  BY ListedOften DEF Init
<1>3. Occurrences
  BY <1>2 DEF Init, Occurrences
<1> QED BY <1>1, <1>3 DEF ListInv

LEMMA FilesOfStay ==
  ASSUME messages' = messages PROVE FilesOf(messages') = FilesOf(messages)
BY DEF FilesOf

(* What happens in the folder and to the watcher's events.                 *)
LEMMA ListInvFolder ==
  ASSUME ListInv,
         \/ \E f \in File : Created(f) \/ Deleted(f) \/ OnChanged(f)
         \/ \E f, g \in File : Renamed(f, g)
         \/ ThrottleRefresh
         \/ DeleteSelected
  PROVE  ListInv' /\ messages' = messages
<1> USE ListAssumption DEF ListInv
<1>1. IsFiniteSet(folder) /\ ListTypes
  BY DEF Occurrences
<1>2. ASSUME NEW f \in File, Created(f) PROVE ListInv' /\ messages' = messages
  <2>1. ListTypes' /\ messages' = messages
    BY <1>2, DetailStays DEF Created, ListTypes
  <2>2. IsFiniteSet(folder')
    BY <1>1, <1>2, FS_AddElement DEF Created
  <2>3. unborn' \subseteq unborn
        /\ \A g \in File : tasks'[g] = "none" \/ tasks[g] # "none" \/ g \in unborn \ unborn'
    BY <1>2 DEF Created, ListTypes
  <2>4. Occurrences'
    BY <2>1, <2>2, <2>3, SameOccurrences, FilesOfStay DEF ListTypes
  <2> QED BY <2>1, <2>4
<1>3. ASSUME NEW f \in File, Deleted(f) PROVE ListInv' /\ messages' = messages
  <2>1. ListTypes' /\ messages' = messages
    BY <1>3, DetailStays DEF Deleted, RefreshNeeded, ListTypes, Due
  <2>2. IsFiniteSet(folder')
    BY <1>1, <1>3, FS_RemoveElement DEF Deleted
  <2>3. unborn' = unborn /\ tasks' = tasks
    BY <1>3 DEF Deleted
  <2>4. Occurrences'
    BY <2>1, <2>2, <2>3, SameOccurrences, FilesOfStay DEF ListTypes
  <2> QED BY <2>1, <2>4
<1>4. ASSUME NEW f \in File, NEW g \in File, Renamed(f, g)
      PROVE  ListInv' /\ messages' = messages
  <2>1. ListTypes' /\ messages' = messages
    BY <1>4, DetailStays DEF Renamed, RefreshNeeded, ListTypes, Due
  <2>2. IsFiniteSet(folder')
    BY <1>1, <1>4, FS_RemoveElement, FS_AddElement DEF Renamed
  <2>3. unborn' \subseteq unborn /\ tasks' = tasks
    BY <1>4 DEF Renamed
  <2>4. Occurrences'
    BY <2>1, <2>2, <2>3, SameOccurrences, FilesOfStay DEF ListTypes
  <2> QED BY <2>1, <2>4
<1>5. ASSUME NEW f \in File, OnChanged(f) PROVE ListInv' /\ messages' = messages
  <2>1. ListTypes' /\ messages' = messages
    BY <1>5, DetailStays DEF OnChanged, ListTypes
  <2>2. folder' = folder /\ unborn' = unborn
        /\ \A g \in File : tasks'[g] = "none" \/ tasks[g] # "none"
    BY <1>5 DEF OnChanged, ListTypes
  <2>3. Occurrences'
    BY <1>1, <2>1, <2>2, SameOccurrences, FilesOfStay DEF ListTypes
  <2> QED BY <2>1, <2>3
<1>6. ASSUME ThrottleRefresh PROVE ListInv' /\ messages' = messages
  <2>1. ListTypes' /\ messages' = messages
    BY <1>6, DetailStays DEF ThrottleRefresh, ListTypes, Due
  <2>2. folder' = folder /\ unborn' = unborn /\ tasks' = tasks
    BY <1>6 DEF ThrottleRefresh
  <2>3. Occurrences'
    BY <1>1, <2>1, <2>2, SameOccurrences, FilesOfStay DEF ListTypes
  <2> QED BY <2>1, <2>3
<1>7. ASSUME DeleteSelected PROVE ListInv' /\ messages' = messages
  <2>1. folder' \subseteq folder /\ messages' = messages /\ unborn' = unborn /\ tasks' = tasks
        /\ ui' = ui /\ clicks' = clicks /\ selectionDue' = selectionDue
        /\ UNCHANGED detail
    BY <1>7 DEF DeleteSelected
  <2>2. previousIndex' \in Nat \union {NULL}
    BY <1>7, PushType DEF DeleteSelected, ListTypes
  <2>3. refresh' \subseteq Due
    BY <1>7 DEF DeleteSelected, ListTypes, Due
  <2>4. ListTypes'
    BY <2>1, <2>2, <2>3, DetailStays DEF ListTypes
  <2>5. IsFiniteSet(folder')
    BY <1>1, <2>1, FS_Subset
  <2>6. Occurrences'
    BY <2>1, <2>4, <2>5, SameOccurrences, FilesOfStay DEF ListTypes
  <2> QED BY <2>1, <2>4, <2>6
<1> QED BY <1>2, <1>3, <1>4, <1>5, <1>6, <1>7

LEMMA ClickKeepsFiles ==
  ASSUME messages \in Seq(Entry), Click
  PROVE  messages' \in Seq(Entry) /\ FilesOf(messages') = FilesOf(messages)
<1>1. PICK S \in SUBSET DOMAIN messages :
        messages' = [i \in DOMAIN messages |-> [messages[i] EXCEPT !.selected = i \in S]]
  BY DEF Click
<1>2. \A i \in DOMAIN messages : messages'[i] \in Entry /\ messages'[i].file = messages[i].file
  <2> SUFFICES ASSUME NEW i \in DOMAIN messages
               PROVE  messages'[i] \in Entry /\ messages'[i].file = messages[i].file
    OBVIOUS
  <2> DEFINE b == i \in S
  <2>1. messages'[i] = [messages[i] EXCEPT !.selected = b]
    BY <1>1
  <2>2. messages[i] \in Entry
    BY EntryOf
  <2>3. b \in BOOLEAN
    OBVIOUS
  <2> HIDE DEF b
  <2> QED BY <2>1, <2>2, <2>3, Reselected
<1>3. messages' \in [1..Len(messages) -> Entry] /\ Len(messages) \in Nat
      /\ DOMAIN messages' = DOMAIN messages
  BY <1>1, <1>2
<1> QED BY <1>2, <1>3 DEF FilesOf

(* What happens in the list, and to the application.                       *)
LEMMA ListInvList ==
  ASSUME ListInv,
         Start \/ Exit \/ RefreshMessageList \/ Click \/ \E f \in File : AddNewMessage(f)
  PROVE  ListInv'
<1> USE ListAssumption DEF ListInv
<1>1. ListTypes /\ IsFiniteSet(folder)
  BY DEF Occurrences
<1>2. CASE Start
  <2>1. PICK late \in SUBSET folder :
          tasks' = [f \in File |-> IF f \in late THEN "waiting" ELSE "none"]
    BY <1>2 DEF Start
  <2>2. tasks' \in [File -> {"none", "waiting", "loaded"}] /\ \A f \in unborn : tasks'[f] = "none"
    BY <2>1 DEF ListTypes
  <2>3. messages' \in Seq(Entry) /\ Occurrences'
    BY <1>2, <2>2, AnewOccurrences DEF Start
  <2>4. ListTypes'
    BY <1>2, <2>2, <2>3, DetailGoesBlank DEF Start, ListTypes, Due
  <2> QED BY <2>3, <2>4
<1>3. ASSUME Blank, ui' \in {"up", "down"}, UNCHANGED <<folder, unborn, clicks>> PROVE ListInv'
  <2>1. tasks' = [f \in File |-> "none"] /\ messages' = <<>>
    BY <1>3 DEF Blank
  <2>2. ListTypes'
    <3>1. messages' \in Seq(Entry) /\ tasks' \in [File -> {"none", "waiting", "loaded"}]
      BY <2>1
    <3> QED BY <1>3, <3>1, DetailGoesBlank DEF Blank, ListTypes
  <2>3. Occurrences'
    BY <1>1, <1>3, <2>1, EmptyOccurrences DEF ListTypes
  <2> QED BY <2>2, <2>3
<1>4. CASE Exit
  BY <1>3, <1>4 DEF Exit
<1>5. CASE RefreshMessageList
  <2>1. CASE folder \intersect Bad # {}
    BY <1>3, <1>5, <2>1 DEF RefreshMessageList
  <2>2. CASE folder \intersect Bad = {}
    <3>1. \A f \in unborn : tasks[f] = "none"
      BY DEF Occurrences
    <3>2. messages' \in Seq(Entry) /\ Occurrences'
      BY <1>5, <2>2, <3>1, AnewOccurrences DEF RefreshMessageList, ListTypes
    <3>3. ListTypes'
      BY <1>5, <2>2, <3>2, DetailStays DEF RefreshMessageList, ListTypes
    <3> QED BY <3>2, <3>3
  <2> QED BY <2>1, <2>2
<1>6. CASE Click
  <2>1. messages' \in Seq(Entry) /\ FilesOf(messages') = FilesOf(messages)
    BY <1>6, ClickKeepsFiles DEF ListTypes
  <2>2. ListTypes'
    BY <1>6, <2>1, DetailStays DEF Click, ListTypes
  <2>3. folder' = folder /\ unborn' = unborn /\ tasks' = tasks
    BY <1>6 DEF Click
  <2>4. Occurrences'
    BY <1>1, <2>1, <2>3, SameOccurrences
  <2> QED BY <2>2, <2>4
<1>7. ASSUME NEW f \in File, AddNewMessage(f) PROVE ListInv'
  <2>1. messages' \in Seq(Entry) /\ Occurrences'
    BY <1>7, AddedOccurrences
  <2>2. ListTypes'
    BY <1>7, <2>1, DetailStays DEF AddNewMessage, ListTypes
  <2> QED BY <2>1, <2>2
<1> QED BY <1>2, <1>4, <1>5, <1>6, <1>7

(* What happens to the detail.                                             *)
LEMMA ListInvDetail ==
  ASSUME ListInv, LoadMessageEntry \/ DisplayMimeMessage \/ UNCHANGED vars
  PROVE  ListInv' /\ messages' = messages
<1> USE DEF ListInv
<1>1. IsFiniteSet(folder)
  BY DEF Occurrences
<1>2. SelectedFile \in File \union {NULL}
  BY SelectedFileType DEF ListTypes
<1>3. ListTypes' /\ messages' = messages /\ folder' = folder /\ unborn' = unborn /\ tasks' = tasks
  <2>1. CASE LoadMessageEntry
    <3>1. isLoading' \in BOOLEAN /\ overtaken' \in BOOLEAN
      BY <2>1 DEF LoadMessageEntry, ListTypes, DetailTypes
    <3>2. loads' \subseteq Loading /\ shown' \in File \union {NULL}
      <4>1. CASE SelectedFile = NULL
        BY <2>1, <4>1 DEF LoadMessageEntry
      <4>2. CASE SelectedFile # NULL
        <5> DEFINE h == ~isLoading
        <5>1. loads' = {[file |-> SelectedFile, handleLoading |-> h]} /\ shown' = shown
          BY <2>1, <4>2 DEF LoadMessageEntry
        <5>2. h \in BOOLEAN
          OBVIOUS
        <5> HIDE DEF h
        <5> QED BY <1>2, <4>2, <5>1, <5>2 DEF ListTypes, DetailTypes, Loading
      <4> QED BY <4>1, <4>2
    <3>3. DetailTypes'
      BY <3>1, <3>2 DEF DetailTypes
    <3> QED BY <2>1, <3>3 DEF LoadMessageEntry, ListTypes
  <2>2. CASE DisplayMimeMessage
    <3>1. DetailTypes'
      <4>1. PICK load \in loads : shown' = load.file /\ loads' = loads \ {load}
        BY <2>2 DEF DisplayMimeMessage
      <4>2. load.file \in File
        BY DEF ListTypes, DetailTypes, Loading
      <4>3. isLoading' \in BOOLEAN /\ overtaken' \in BOOLEAN
        BY <2>2 DEF DisplayMimeMessage, ListTypes, DetailTypes
      <4> QED BY <4>1, <4>2, <4>3 DEF ListTypes, DetailTypes
    <3> QED BY <2>2, <3>1 DEF DisplayMimeMessage, ListTypes
  <2>3. CASE UNCHANGED vars
    BY <2>3, DetailStays DEF vars, window, ListTypes
  <2> QED BY <2>1, <2>2, <2>3
<1>4. Occurrences'
  BY <1>1, <1>3, SameOccurrences, FilesOfStay DEF ListTypes
<1> QED BY <1>3, <1>4

LEMMA ListInvStep == ListInv /\ [Next]_vars => ListInv'
BY ListInvFolder, ListInvList, ListInvDetail DEF Next, NewMessage

LEMMA ListInductive == Spec => []ListInv
BY ListInvInit, ListInvStep, PTL DEF Spec

(* The types of the list and its neighbours, and: no file is listed more   *)
(* than twice, however its event and the refreshes of the list meet.       *)
THEOREM ListedTwiceAtMost == Spec => []TypeOK
BY ListInvType, ListInductive, PTL

-----------------------------------------------------------------------------
(* Nothing in the folder is forgotten                                      *)

LEMMA ForgottenStep ==
  ASSUME ListInv, NothingIsForgotten, [Next]_vars PROVE NothingIsForgotten'
<1> SUFFICES ASSUME ui' = "up", NEW f \in folder' \ (Bad \union Unloadable)
             PROVE  Listings(messages', f) # {} \/ refresh' # {} \/ tasks'[f] # "none"
  BY DEF NothingIsForgotten, Listed, Listings
<1>1. /\ folder \subseteq File /\ IsFiniteSet(folder) /\ unborn \subseteq File
      /\ tasks \in [File -> {"none", "waiting", "loaded"}] /\ messages \in Seq(Entry)
  BY DEF ListInv, ListTypes, Occurrences
<1>2. ui = "up" /\ f \in folder =>
        Listings(messages, f) # {} \/ refresh # {} \/ tasks[f] # "none"
  BY DEF NothingIsForgotten, Listed, Listings
<1>3. ASSUME NEW previous, messages' = ValidateSelected(LoadMessages, previous), folder' = folder
      PROVE  Listings(messages', f) # {}
  BY <1>1, <1>3, AnewListings
<1>4. CASE Start
  BY <1>3, <1>4 DEF Start
<1>5. CASE Exit
  BY <1>5 DEF Exit
<1>6. ASSUME NEW g \in File, Created(g)
      PROVE  Listings(messages', f) # {} \/ refresh' # {} \/ tasks'[f] # "none"
  BY <1>1, <1>2, <1>6 DEF Created
<1>7. ASSUME NEW g \in File, Deleted(g)
      PROVE  refresh' # {}
  BY <1>7 DEF Deleted, RefreshNeeded
<1>8. ASSUME NEW g \in File, NEW h \in File, Renamed(g, h)
      PROVE  refresh' # {}
  BY <1>8 DEF Renamed, RefreshNeeded
<1>9. ASSUME NEW g \in File, OnChanged(g)
      PROVE  Listings(messages', f) # {} \/ refresh' # {} \/ tasks'[f] # "none"
  BY <1>1, <1>2, <1>9 DEF OnChanged
<1>10. ASSUME NEW g \in File, AddNewMessage(g)
       PROVE  Listings(messages', f) # {} \/ refresh' # {} \/ tasks'[f] # "none"
  <2>1. \A h : Listings(messages', h) # {} <=> Listings(messages, h) # {} \/ h = g
    BY <1>10, AddedOccurrences
  <2> QED BY <1>1, <1>2, <1>10, <2>1 DEF AddNewMessage
<1>11. CASE ThrottleRefresh
  BY <1>11 DEF ThrottleRefresh
<1>12. CASE RefreshMessageList
  <2>1. folder \intersect Bad = {}
    BY <1>12 DEF RefreshMessageList
  <2> QED BY <1>3, <1>12, <2>1 DEF RefreshMessageList
<1>13. CASE Click
  <2>1. Listings(messages', f) = Listings(messages, f)
    BY <1>1, <1>13, ClickKeepsFiles, SameFiles
  <2> QED BY <1>2, <1>13, <2>1 DEF Click
<1>14. CASE DeleteSelected
  BY <1>2, <1>14 DEF DeleteSelected
<1>15. CASE LoadMessageEntry \/ DisplayMimeMessage \/ UNCHANGED vars
  BY <1>2, <1>15 DEF LoadMessageEntry, DisplayMimeMessage, vars, window
<1> QED BY <1>4, <1>5, <1>6, <1>7, <1>8, <1>9, <1>10, <1>11, <1>12, <1>13, <1>14, <1>15
        DEF Next, NewMessage

(* Whatever is saved, deleted or renamed while the application runs, and   *)
(* whatever comes in while it starts: a message of the folder that can be  *)
(* loaded is listed, or an event or a refresh is under way.                *)
THEOREM AllAreListed == Spec => []NothingIsForgotten
<1>1. Init => NothingIsForgotten
  BY DEF Init, NothingIsForgotten
<1> QED BY <1>1, ForgottenStep, ListInductive, PTL DEF Spec

-----------------------------------------------------------------------------
(* A list that changes has a selection                                     *)

ChangedIsSelected ==
  FilesOf(messages') # FilesOf(messages) /\ messages' # <<>> => GetSelected(messages') # {}

LEMMA ChangedIsSelectedStep ==
  ASSUME ListInv, [Next]_vars PROVE ChangedIsSelected
<1>1. /\ folder \subseteq File /\ IsFiniteSet(folder) /\ messages \in Seq(Entry)
      /\ previousIndex \in Nat \union {NULL}
  BY DEF ListInv, ListTypes, Occurrences
<1>2. ASSUME NEW previous \in Nat \union {NULL}, messages' = ValidateSelected(LoadMessages, previous)
      PROVE  ChangedIsSelected
  <2>1. LoadMessages = <<>> => messages' = <<>>
    BY <1>2 DEF ValidateSelected
  <2> QED BY <1>1, <1>2, <2>1, AnewIsSelected DEF ChangedIsSelected
<1>3. CASE Start
  BY <1>2, <1>3 DEF Start
<1>4. CASE RefreshMessageList
  <2>1. PushSelectedIndex(messages) \in Nat \union {NULL}
    BY <1>1, PushType
  <2> QED BY <1>2, <1>4, <2>1 DEF RefreshMessageList, Blank, ChangedIsSelected
<1>5. CASE Exit
  BY <1>5 DEF Exit, Blank, ChangedIsSelected
<1>6. CASE Click
  BY <1>1, <1>6, ClickKeepsFiles DEF ChangedIsSelected
<1>7. ASSUME NEW f \in File, AddNewMessage(f) PROVE ChangedIsSelected
  <2> DEFINE l == [i \in DOMAIN messages |-> [messages[i] EXCEPT !.selected = FALSE]]
             e == [file |-> f, selected |-> TRUE]
  <2>1. messages' = Append(l, e) /\ e.selected
    BY <1>7 DEF AddNewMessage
  <2>2. l \in Seq(Entry)
    <3>1. \A i \in DOMAIN messages : l[i] \in Entry
      BY <1>1, EntryOf, Reselected
    <3>2. l \in [1..Len(messages) -> Entry] /\ Len(messages) \in Nat
      BY <1>1, <3>1
    <3> HIDE DEF l
    <3> QED BY <3>2
  <2> HIDE DEF l, e
  <2>3. Len(l) + 1 \in DOMAIN messages' /\ messages'[Len(l) + 1] = e
    BY <2>1, <2>2
  <2> QED BY <2>1, <2>3 DEF GetSelected, ChangedIsSelected
<1>8. CASE messages' = messages
  BY <1>8, FilesOfStay DEF ChangedIsSelected
<1> QED BY <1>3, <1>4, <1>5, <1>6, <1>7, <1>8, ListInvFolder, ListInvDetail DEF Next, NewMessage

(* Whenever entries come or go, one is selected: the index kept from       *)
(* before a deletion is cut to the new list, for any list and either order *)
(* of it.                                                                  *)
THEOREM SomethingIsSelected == Spec => ListedIsSelected
<1>1. ListInv /\ [Next]_vars => [ChangedIsSelected]_vars
  BY ChangedIsSelectedStep
<1>2. [ChangedIsSelected]_vars
        => [FilesOf(messages') # FilesOf(messages) /\ messages' # <<>>
              => GetSelected(messages') # {}]_vars
  BY DEF ChangedIsSelected
<1> QED BY <1>1, <1>2, ListInductive, PTL DEF Spec, ListedIsSelected
=============================================================================
