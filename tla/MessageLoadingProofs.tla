------------------------ MODULE MessageLoadingProofs ------------------------
(***************************************************************************)
(* Proofs about MessageLoading: the cache changes nothing of the store     *)
(* behind it, never holds half a message, and two readers load one message *)
(* only where they raced for the slot of its lock.                         *)
(***************************************************************************)
EXTENDS MessageLoading, MessageStoreProofs

NoLockTwice ==
  \A r, q \in Reader : r # q /\ OnLockdown(r) /\ OnLockdown(q) => lockOf[r] # lockOf[q]

LInv == LoadingTypeOK /\ NothingPartialIsCached /\ NoLockTwice

-----------------------------------------------------------------------------
(* The store                                                               *)

(* Every step of the loader is one of the store, or none.                  *)
LEMMA StepIsStoreStep ==
  ASSUME [LoadingNext]_allVars
  PROVE  [Next]_vars
<1>1. CASE StoreStep
  BY <1>1 DEF StoreStep, Next
<1>2. CASE \E r \in Reader : GetOrSet(r)
  <2>1. PICK r \in Reader : GetOrSet(r)
    BY <1>2
  <2>2. CASE GetValue(r)
    BY <2>2 DEF GetValue, Next, Load
  <2>3. CASE \/ FirstLook(r) \/ ReadSlot(r) \/ MakeLock(r) \/ Enter(r) \/ SecondLook(r)
             \/ GetValueFails(r) \/ AddToCache(r)
    BY <2>3 DEF FirstLook, ReadSlot, MakeLock, Enter, SecondLook, GetValueFails, AddToCache
  <2> QED
    BY <2>1, <2>2, <2>3 DEF GetOrSet
<1>3. CASE \E p \in Path : Expire(p)
  BY <1>3 DEF Expire
<1>4. CASE UNCHANGED allVars
  BY <1>4 DEF allVars
<1> QED
  BY <1>1, <1>2, <1>3, <1>4 DEF LoadingNext

(* Whatever is cached, the folder, the deliveries and the reads of files   *)
(* behave as they do without a cache.                                      *)
THEOREM CacheImplementsStore == LoadingSpec => ImplementsStore
<1>1. LoadingInit => Init
  BY DEF LoadingInit
<1> QED
  BY <1>1, StepIsStoreStep, PTL DEF LoadingSpec, Spec, ImplementsStore

-----------------------------------------------------------------------------
(* The loader                                                              *)

(* What a reader has read can be cached.                                   *)
LEMMA ReadCanBeCached ==
  ASSUME IInv, NEW r \in Reader
  PROVE  /\ got[r] \in Content \union {NULL}
         /\ got[r] # NULL => got[r].text # "partial"
BY DEF IInv, Typed, TypeOK, Files, ReadsNoPartialMessage

(* The path a call begins with is one.                                     *)
LEMMA CalledWithPath ==
  ASSUME IInv
  PROVE  Known \subseteq Path
BY DEF IInv, Typed, Named, Known

(* A first look either serves what is cached or goes for the lock.         *)
LEMMA FirstLookStep ==
  ASSUME IInv, LInv, NEW r \in Reader, FirstLook(r)
  PROVE  LInv'
<1> USE LoadingAssumption DEF LInv, LoadingTypeOK, Places, Move, Return
<1>1. PICK p \in Path :
        /\ key' = [key EXCEPT ![r] = p]
        /\ IF cache[p] # NULL THEN Return(r, cache[p]) ELSE Move(r, "slot") /\ UNCHANGED served
  BY CalledWithPath DEF FirstLook
<1>2. LoadingTypeOK'
  <2>1. UNCHANGED <<cache, slots, lockOf, raced>> /\ place[r] = "look"
    BY DEF FirstLook
  <2>2. CASE cache[p] # NULL
    <3>1. served' = [served EXCEPT ![r] = cache[p]] /\ place' = [place EXCEPT ![r] = "done"]
      BY <1>1, <2>2
    <3> QED BY <1>1, <2>1, <2>2, <3>1
  <2>3. CASE cache[p] = NULL
    <3>1. served' = served /\ place' = [place EXCEPT ![r] = "slot"]
      BY <1>1, <2>3
    <3> QED BY <1>1, <2>1, <3>1
  <2> QED BY <2>2, <2>3
<1>3. NothingPartialIsCached'
  BY <1>1 DEF FirstLook, NothingPartialIsCached
<1>4. NoLockTwice'
  BY <1>1 DEF FirstLook, NoLockTwice, OnLockdown
<1> QED
  BY <1>2, <1>3, <1>4

(* Getting a lock, in whatever state of the table.                         *)
LEMMA LockStep ==
  ASSUME LInv, NEW r \in Reader, ReadSlot(r) \/ MakeLock(r) \/ Enter(r)
  PROVE  LInv'
<1> USE LoadingAssumption DEF LInv, Move
<1>1. CASE ReadSlot(r)
  <2>1. PICK i :
          \/ Move(r, "failed") /\ UNCHANGED <<lockOf, raced>>
          \/ i \in DOMAIN slots /\ raced' \in {raced, raced \union {i}}
             /\ Move(r, "make") /\ UNCHANGED lockOf
          \/ i \in DOMAIN slots /\ slots[i] # NULL /\ lockOf' = [lockOf EXCEPT ![r] = slots[i]]
             /\ Move(r, "lock") /\ UNCHANGED raced
    BY <1>1 DEF ReadSlot
  <2>2. LoadingTypeOK'
    BY <1>1, <2>1 DEF ReadSlot, LoadingTypeOK, Places
  <2>3. NothingPartialIsCached' /\ NoLockTwice'
    <3>1. UNCHANGED <<cache, served>> /\ place[r] = "slot"
      BY <1>1 DEF ReadSlot
    <3>2. \A q \in Reader : OnLockdown(q)' => OnLockdown(q) /\ lockOf'[q] = lockOf[q]
      BY <2>1, <3>1 DEF LoadingTypeOK, OnLockdown
    <3> QED BY <3>1, <3>2 DEF NothingPartialIsCached, NoLockTwice
  <2> QED
    BY <2>2, <2>3
<1>2. CASE MakeLock(r)
  <2>1. LoadingTypeOK'
    BY <1>2 DEF MakeLock, LoadingTypeOK, Places
  <2>2. NothingPartialIsCached' /\ NoLockTwice'
    BY <1>2 DEF MakeLock, LoadingTypeOK, NothingPartialIsCached, NoLockTwice, OnLockdown
  <2> QED
    BY <2>1, <2>2
<1>3. CASE Enter(r)
  <2>1. LoadingTypeOK'
    BY <1>3 DEF Enter, LoadingTypeOK, Places
  <2>2. NothingPartialIsCached' /\ NoLockTwice'
    BY <1>3 DEF Enter, LoadingTypeOK, NothingPartialIsCached, NoLockTwice, OnLockdown
  <2> QED
    BY <2>1, <2>2
<1> QED
  BY <1>1, <1>2, <1>3

(* The second look, the load and the way out.                              *)
LEMMA LockdownStep ==
  ASSUME IInv, LInv, NEW r \in Reader,
         SecondLook(r) \/ GetValue(r) \/ GetValueFails(r) \/ AddToCache(r)
  PROVE  LInv'
<1> USE LoadingAssumption DEF LInv, Move, Return
<1>1. CASE SecondLook(r)
  <2>1. key[r] \in Path
    BY <1>1 DEF SecondLook, LoadingTypeOK
  <2>2. LoadingTypeOK'
    BY <1>1, <2>1 DEF SecondLook, LoadingTypeOK, Places
  <2>3. NothingPartialIsCached'
    BY <1>1, <2>1 DEF SecondLook, LoadingTypeOK, NothingPartialIsCached
  <2>4. NoLockTwice'
    BY <1>1 DEF SecondLook, LoadingTypeOK, NoLockTwice, OnLockdown
  <2> QED
    BY <2>2, <2>3, <2>4
<1>2. CASE GetValue(r)
  BY <1>2 DEF GetValue, loading, LoadingTypeOK, Places, NothingPartialIsCached, NoLockTwice,
              OnLockdown
<1>3. CASE GetValueFails(r)
  BY <1>3 DEF GetValueFails, LoadingTypeOK, Places, NothingPartialIsCached, NoLockTwice,
              OnLockdown
<1>4. CASE AddToCache(r)
  <2>1. key[r] \in Path
    BY <1>4 DEF AddToCache, LoadingTypeOK
  <2>2. LoadingTypeOK'
    BY <1>4, <2>1, ReadCanBeCached DEF AddToCache, LoadingTypeOK, Places
  <2>3. NothingPartialIsCached'
    <3> DEFINE g == got[r]
    <3>1. g # NULL => g.text # "partial"
      BY ReadCanBeCached
    <3>2. \/ cache' = cache /\ served' = served
          \/ /\ cache' = [cache EXCEPT ![key[r]] = IF cache[key[r]] = NULL THEN g ELSE cache[key[r]]]
             /\ served' = [served EXCEPT ![r] = g]
      BY <1>4 DEF AddToCache
    <3> HIDE DEF g
    <3> QED
      BY <2>1, <3>1, <3>2 DEF LoadingTypeOK, NothingPartialIsCached
  <2>4. NoLockTwice'
    BY <1>4 DEF AddToCache, LoadingTypeOK, NoLockTwice, OnLockdown
  <2> QED
    BY <2>2, <2>3, <2>4
<1> QED
  BY <1>1, <1>2, <1>3, <1>4

(* The invariant is kept.                                                  *)
LEMMA LoadingStep ==
  ASSUME IInv, LInv, [LoadingNext]_allVars
  PROVE  LInv'
<1>1. CASE \E p \in Path : Expire(p)
  BY <1>1 DEF Expire, LInv, LoadingTypeOK, NothingPartialIsCached, NoLockTwice, OnLockdown
<1>2. CASE StoreStep \/ UNCHANGED allVars
  BY <1>2 DEF StoreStep, allVars, loading, LInv, LoadingTypeOK, NothingPartialIsCached,
              NoLockTwice, OnLockdown
<1>3. CASE \E r \in Reader : GetOrSet(r)
  BY <1>3, FirstLookStep, LockStep, LockdownStep DEF GetOrSet
<1> QED
  BY <1>1, <1>2, <1>3 DEF LoadingNext

LEMMA LoadingInductive == LoadingSpec => [](IInv /\ LInv)
<1>1. LoadingInit => LInv
  BY LoadingAssumption
     DEF LoadingInit, LInv, LoadingTypeOK, Places, NothingPartialIsCached, NoLockTwice,
         OnLockdown
<1>2. LoadingSpec => []IInv
  BY CacheImplementsStore, Inductive DEF ImplementsStore
<1>3. IInv /\ LInv /\ [LoadingNext]_allVars => LInv'
  BY LoadingStep
<1> QED
  BY <1>1, <1>2, <1>3, PTL DEF LoadingSpec

(* The state of the loader keeps its types.                                *)
THEOREM LoadingTyping == LoadingSpec => []LoadingTypeOK
<1>1. LInv => LoadingTypeOK
  BY DEF LInv
<1> QED
  BY <1>1, LoadingInductive, PTL

(* Half a message never gets into the cache, where it would outlive the    *)
(* moment in which it was read.                                            *)
THEOREM CacheHoldsNothingPartial == LoadingSpec => []NothingPartialIsCached
<1>1. LInv => NothingPartialIsCached
  BY DEF LInv
<1> QED
  BY <1>1, LoadingInductive, PTL

-----------------------------------------------------------------------------
(* Names                                                                   *)

(* A delivery that has created its file keeps its path from then on.       *)
Settled(d) == pc[d] \in {"write", "close", "publish", "done"}

Under(m, p) == Settled(m.of) /\ path[m.of] = p

FiledUnderNames ==
  /\ \A p \in DOMAIN files : Under(files[p], p)
  /\ \A r \in Reader : got[r] # NULL => pc[r] = "done" /\ Under(got[r], path[r])

(* A reader reads the path it was called with, and is called once.         *)
ReadsItsKey ==
  \A r \in Reader :
    /\ place[r] \in {"look", "slot", "make", "lock", "second"} => pc[r] = "idle"
    /\ place[r] = "load" /\ pc[r] # "idle" => path[r] = key[r]
    /\ served[r] # NULL => place[r] = "done"

CachedUnderNames ==
  /\ \A p \in Path : cache[p] # NULL => Under(cache[p], p)
  /\ \A r \in Reader : served[r] # NULL => Under(served[r], key[r])

(* No step of the store renames what is there.                             *)
LEMMA NamesStand ==
  ASSUME Typed, [Next]_vars, NEW d \in Delivery, Settled(d)
  PROVE  Settled(d)' /\ path'[d] = path[d]
<1> USE StoreAssumption DEF Typed, TypeOK, Settled, Caller
<1>1. ASSUME NEW e \in Delivery, GenerateFilePath(e) PROVE Settled(d)' /\ path'[d] = path[d]
  BY <1>1 DEF GenerateFilePath, Goto
<1>2. ASSUME NEW e \in Delivery, CreateDirectoryFails(e) \/ Create(e) \/ CreateFails(e) \/ WriteTo(e)
      PROVE  Settled(d)' /\ path'[d] = path[d]
  BY <1>2 DEF CreateDirectoryFails, Create, CreateFails, WriteTo, Goto
<1>3. ASSUME NEW e \in Delivery, Close(e) \/ Publish(e)
      PROVE  Settled(d)' /\ path'[d] = path[d]
  BY <1>3 DEF Close, Publish, Goto
<1>4. ASSUME NEW r \in Reader, Load(r) PROVE Settled(d)' /\ path'[d] = path[d]
  BY <1>4 DEF Load, Attempts, GetMessage, TryRead, TryReadFails, TryReadThrows, ReadFile, Goto
<1>5. CASE (\E p \in DOMAIN files : DeleteMessage(p)) \/ Tick \/ UNCHANGED vars
  BY <1>5 DEF DeleteMessage, Tick, vars
<1> QED BY <1>1, <1>2, <1>3, <1>4, <1>5 DEF Next, Save

LEMMA FiledStep ==
  ASSUME IInv, FiledUnderNames, [Next]_vars PROVE FiledUnderNames'
<1>1. Typed /\ ReadersHold
  BY DEF IInv, Files
<1>2. ASSUME NEW m \in Content, NEW p, Under(m, p) PROVE Under(m, p)'
  BY <1>1, <1>2, NamesStand DEF Under, Content
<1>3. CASE UNCHANGED <<files, got>> /\ \A r \in Reader : pc[r] = "done" => UNCHANGED <<pc[r], path[r]>>
  BY <1>1, <1>2, <1>3 DEF FiledUnderNames, Typed, TypeOK
<1>4. ASSUME NEW d \in Delivery, Create(d) \/ WriteTo(d) PROVE FiledUnderNames'
  <2>1. path[d] \in Path /\ UNCHANGED <<path, got>> /\ Settled(d)'
    BY <1>1, <1>4 DEF Create, WriteTo, Goto, Settled, Typed, TypeOK, Named, Caller
  <2>2. PICK m \in Content : m.of = d /\ Put(path[d], m)
    <3>1. \A text \in {"partial", "whole", "broken"} :
            [of |-> d, text |-> text] \in Content /\ [of |-> d, text |-> text].of = d
      BY DEF Content
    <3> QED BY <1>4, <3>1 DEF Create, WriteTo
  <2>3. Under(m, path[d])'
    BY <2>1, <2>2 DEF Under
  <2>4. /\ DOMAIN files' = DOMAIN files \union {path[d]}
        /\ files'[path[d]] = m
        /\ \A q \in DOMAIN files : q # path[d] => files'[q] = files[q]
    BY <2>2, PutContent
  <2>5. ASSUME NEW p \in DOMAIN files' PROVE Under(files[p], p)'
    <3>1. CASE p = path[d]
      BY <2>1, <2>3, <2>4, <3>1 DEF Under
    <3>2. CASE p # path[d]
      <4>1. p \in DOMAIN files /\ files'[p] = files[p]
        BY <2>5, <2>4, <3>2
      <4>2. files[p] \in Content /\ Under(files[p], p)
        BY <1>1, <4>1 DEF FiledUnderNames, Typed, TypeOK
      <4> QED BY <1>2, <4>1, <4>2 DEF Under
    <3> QED BY <3>1, <3>2
  <2>6. ASSUME NEW r \in Reader, got'[r] # NULL PROVE pc'[r] = "done" /\ Under(got[r], path[r])'
    <3>1. got[r] # NULL /\ got[r] \in Content /\ pc[r] = "done" /\ Under(got[r], path[r])
      BY <1>1, <2>1, <2>6 DEF FiledUnderNames, Typed, TypeOK
    <3>2. r # d /\ pc'[r] = pc[r]
      BY <1>1, <1>4, StoreAssumption DEF Create, WriteTo, Goto, Typed, TypeOK, Caller
    <3>3. Under(got[r], path[r])'
      BY <1>2, <2>1, <3>1 DEF Under
    <3> QED BY <3>1, <3>2, <3>3
  <2> QED BY <2>5, <2>6 DEF FiledUnderNames
<1>5. ASSUME NEW q \in DOMAIN files, DeleteMessage(q) PROVE FiledUnderNames'
  <2>1. UNCHANGED <<pc, path, got>> /\ DOMAIN files' \subseteq DOMAIN files
    BY <1>5 DEF DeleteMessage
  <2>2. \A p \in DOMAIN files' : files'[p] = files[p]
    BY <1>5 DEF DeleteMessage
  <2> QED BY <2>1, <2>2 DEF FiledUnderNames, Under, Settled
<1>6. ASSUME NEW r \in Reader, ReadFile(r) PROVE FiledUnderNames'
  <2>1. /\ UNCHANGED <<files, path>> /\ pc' = [pc EXCEPT ![r] = "done"]
        /\ got' = [got EXCEPT ![r] = files[path[r]]]
        /\ path[r] \in DOMAIN files /\ pc[r] = "reading"
    BY <1>1, <1>6 DEF ReadFile, Goto, ReadersHold
  <2>2. \A d \in Delivery : Settled(d) => Settled(d)'
    BY <1>1, <2>1, StoreAssumption DEF Settled, Typed, TypeOK, Caller
  <2>3. \A p \in DOMAIN files : files[p].of \in Delivery /\ Under(files[p], p)
    BY <1>1 DEF FiledUnderNames, Typed, TypeOK, Content
  <2>4. \A p \in DOMAIN files' : Under(files[p], p)'
    BY <2>1, <2>2, <2>3 DEF Under
  <2>5. ASSUME NEW q \in Reader, got'[q] # NULL PROVE pc'[q] = "done" /\ Under(got[q], path[q])'
    <3>1. CASE q = r
      <4>1. got'[q] = files'[path'[q]] /\ pc'[q] = "done"
        BY <1>1, <2>1, <3>1 DEF Typed, TypeOK, Caller
      <4>2. Under(files[path[q]], path[q])'
        BY <2>1, <2>4, <3>1
      <4> QED BY <4>1, <4>2 DEF Under
    <3>2. CASE q # r
      <4>1. got'[q] = got[q] /\ pc'[q] = pc[q] /\ got[q] # NULL
        BY <1>1, <2>1, <2>5, <3>2 DEF Typed, TypeOK, Caller
      <4>2. got[q] \in Content /\ pc[q] = "done" /\ Under(got[q], path[q])
        BY <1>1, <4>1 DEF FiledUnderNames, Typed, TypeOK
      <4> QED BY <1>2, <2>1, <4>1, <4>2 DEF Under
    <3> QED BY <3>1, <3>2
  <2> QED BY <2>4, <2>5 DEF FiledUnderNames
<1>7. ASSUME NEW d \in Delivery,
             \/ GenerateFilePath(d) \/ CreateDirectoryFails(d) \/ CreateFails(d)
             \/ Close(d) \/ Publish(d)
      PROVE  FiledUnderNames'
  <2>1. UNCHANGED <<files, got>>
    BY <1>7 DEF GenerateFilePath, CreateDirectoryFails, CreateFails, Close, Publish
  <2>2. \A r \in Reader : UNCHANGED <<pc[r], path[r]>>
    BY <1>1, <1>7, StoreAssumption
       DEF GenerateFilePath, CreateDirectoryFails, CreateFails, Close, Publish, Goto, Typed,
           TypeOK, Caller
  <2> QED BY <1>3, <2>1, <2>2
<1>8. ASSUME NEW r \in Reader, GetMessage(r) \/ TryRead(r) \/ TryReadFails(r) \/ TryReadThrows(r)
      PROVE  FiledUnderNames'
  <2>1. UNCHANGED <<files, got>>
    BY <1>8 DEF GetMessage, TryRead, TryReadFails, TryReadThrows
  <2>2. \A q \in Reader : pc[q] = "done" => UNCHANGED <<pc[q], path[q]>>
    BY <1>1, <1>8 DEF GetMessage, TryRead, TryReadFails, TryReadThrows, Goto, Typed, TypeOK, Caller
  <2> QED BY <1>3, <2>1, <2>2
<1>9. CASE Tick \/ UNCHANGED vars
  BY <1>3, <1>9 DEF Tick, vars
<1> QED BY <1>4, <1>5, <1>6, <1>7, <1>8, <1>9 DEF Next, Save, Load, Attempts

(* What a reader does by itself keeps to the key it was called with.       *)
LEMMA KeyStep ==
  ASSUME IInv, LInv, ReadsItsKey, [LoadingNext]_allVars
  PROVE  ReadsItsKey'
<1> USE StoreAssumption DEF ReadsItsKey, Typed, TypeOK, LInv, LoadingTypeOK, Move, Return, IInv,
                            Places, Caller
<1>1. ASSUME NEW r \in Reader, FirstLook(r) \/ ReadSlot(r) \/ MakeLock(r) \/ Enter(r)
      PROVE  ReadsItsKey'
  <2>1. UNCHANGED vars /\ place[r] \in {"look", "slot", "make", "lock"}
    BY <1>1 DEF FirstLook, ReadSlot, MakeLock, Enter
  <2>2. \A q \in Reader : q # r => UNCHANGED <<place[q], key[q], served[q]>>
    BY <1>1 DEF FirstLook, ReadSlot, MakeLock, Enter
  <2>3. place'[r] \in {"slot", "make", "lock", "second", "done", "failed"}
    BY <1>1 DEF FirstLook, ReadSlot, MakeLock, Enter
  <2>4. served'[r] # NULL => place'[r] = "done"
    BY <1>1 DEF FirstLook, ReadSlot, MakeLock, Enter
  <2> QED BY <2>1, <2>2, <2>3, <2>4 DEF vars
<1>2. ASSUME NEW r \in Reader, SecondLook(r) \/ GetValueFails(r) \/ AddToCache(r)
      PROVE  ReadsItsKey'
  BY <1>2 DEF SecondLook, GetValueFails, AddToCache, vars
<1>3. ASSUME NEW r \in Reader, GetValue(r) PROVE ReadsItsKey'
  <2>1. UNCHANGED loading /\ place[r] = "load"
    BY <1>3 DEF GetValue
  <2>2. \A q \in Reader : q # r => UNCHANGED <<pc[q], path[q]>>
    BY <1>3 DEF GetValue, Attempts, GetMessage, TryRead, TryReadFails, TryReadThrows, ReadFile, Goto
  <2>3. path'[r] = key[r]
    BY <1>3 DEF GetValue, Attempts, TryRead, TryReadFails, TryReadThrows, ReadFile
  <2> QED BY <2>1, <2>2, <2>3 DEF loading
<1>4. CASE StoreStep
  <2>1. \A q \in Reader : UNCHANGED <<pc[q], path[q]>>
    <3>1. ASSUME NEW d \in Delivery, Save(d) PROVE \A q \in Reader : UNCHANGED <<pc[q], path[q]>>
      BY <3>1 DEF Save, GenerateFilePath, CreateDirectoryFails, Create, CreateFails, WriteTo, Close, Publish, Goto
    <3>2. ASSUME NEW p \in DOMAIN files, DeleteMessage(p)
          PROVE  \A q \in Reader : UNCHANGED <<pc[q], path[q]>>
      BY <3>2 DEF DeleteMessage
    <3> QED BY <1>4, <3>1, <3>2 DEF StoreStep, Tick
  <2> QED BY <1>4, <2>1 DEF StoreStep, loading
<1>5. CASE (\E p \in Path : Expire(p)) \/ UNCHANGED allVars
  BY <1>5 DEF Expire, allVars, loading, vars
<1> QED BY <1>1, <1>2, <1>3, <1>4, <1>5 DEF LoadingNext, GetOrSet

(* Whatever is added, looked up or expires, what is cached and what is     *)
(* served stay under the names they have.                                  *)
LEMMA CachedStep ==
  ASSUME IInv, LInv, FiledUnderNames, ReadsItsKey, CachedUnderNames,
         [LoadingNext]_allVars
  PROVE  CachedUnderNames'
<1>1. Typed /\ LoadingTypeOK
  BY DEF IInv, LInv
<1>2. ASSUME NEW m \in Content, NEW p, Under(m, p) PROVE Under(m, p)'
  BY <1>1, <1>2, NamesStand, StepIsStoreStep DEF Under, Content
<1>3. ASSUME UNCHANGED cache, NEW p \in Path, cache[p] # NULL
      PROVE  Under(cache[p], p)'
  <2>1. cache[p] \in Content /\ Under(cache[p], p)
    BY <1>1, <1>3 DEF CachedUnderNames, LoadingTypeOK
  <2> QED BY <1>2, <1>3, <2>1 DEF Under
<1>4. \A r \in Reader : served[r] # NULL => served[r] \in Content /\ Under(served[r], key[r])
  BY <1>1 DEF CachedUnderNames, LoadingTypeOK
<1>5. CASE UNCHANGED <<cache, key, served>>
  <2>1. \A p \in Path : cache'[p] # NULL => Under(cache[p], p)'
    BY <1>3, <1>5
  <2>2. \A r \in Reader : served'[r] # NULL => Under(served[r], key[r])'
    BY <1>2, <1>4, <1>5 DEF Under
  <2> QED BY <2>1, <2>2 DEF CachedUnderNames
<1>6. ASSUME NEW r \in Reader, UNCHANGED vars, UNCHANGED cache,
             \A q \in Reader : q # r => UNCHANGED <<key[q], served[q]>>,
             served'[r] # NULL => Under(served'[r], key'[r])
      PROVE  CachedUnderNames'
  <2>1. \A m, p : Under(m, p)' <=> Under(m, p)
    BY <1>6 DEF Under, Settled, vars
  <2> QED BY <1>6, <2>1 DEF CachedUnderNames, Under, Settled, vars
<1>7. ASSUME NEW r \in Reader, FirstLook(r) PROVE CachedUnderNames'
  <2>1. PICK p \in Path :
          /\ key' = [key EXCEPT ![r] = p]
          /\ IF cache[p] # NULL THEN Return(r, cache[p]) ELSE Move(r, "slot") /\ UNCHANGED served
    BY <1>7, CalledWithPath DEF FirstLook
  <2>2. served[r] = NULL
    BY <1>7 DEF FirstLook, ReadsItsKey
  <2>3. served'[r] # NULL => Under(served'[r], key'[r])
    BY <1>1, <2>1, <2>2 DEF Return, LoadingTypeOK, CachedUnderNames
  <2>4. \A q \in Reader : q # r => UNCHANGED <<key[q], served[q]>>
    BY <1>1, <2>1 DEF Return, LoadingTypeOK
  <2> QED BY <1>6, <1>7, <2>3, <2>4 DEF FirstLook
<1>8. ASSUME NEW r \in Reader, SecondLook(r) PROVE CachedUnderNames'
  <2>1. key[r] \in Path /\ served[r] = NULL
    BY <1>1, <1>8 DEF SecondLook, LoadingTypeOK, ReadsItsKey
  <2>2. served'[r] # NULL => Under(served'[r], key'[r])
    BY <1>1, <1>8, <2>1 DEF SecondLook, Return, LoadingTypeOK, CachedUnderNames
  <2>3. \A q \in Reader : q # r => UNCHANGED <<key[q], served[q]>>
    BY <1>1, <1>8 DEF SecondLook, Return, LoadingTypeOK
  <2> QED BY <1>6, <1>8, <2>2, <2>3 DEF SecondLook
<1>9. ASSUME NEW r \in Reader, AddToCache(r), UNCHANGED <<cache, served>> PROVE CachedUnderNames'
  BY <1>5, <1>9 DEF AddToCache
<1>10. ASSUME NEW r \in Reader, AddToCache(r), ~UNCHANGED <<cache, served>>
       PROVE  CachedUnderNames'
  <2> DEFINE g == got[r]
  <2>1. /\ UNCHANGED <<vars, key>> /\ pc[r] = "done" /\ place[r] = "load"
        /\ cache' = [cache EXCEPT ![key[r]] = IF cache[key[r]] = NULL THEN g ELSE cache[key[r]]]
        /\ served' = [served EXCEPT ![r] = g]
    BY <1>10 DEF AddToCache, Return
  <2>2. key[r] \in Path /\ path[r] = key[r]
    BY <1>1, <2>1 DEF LoadingTypeOK, ReadsItsKey
  <2>3. g # NULL => Under(g, key[r])
    BY <2>2 DEF FiledUnderNames
  <2>4. \A m, p : Under(m, p)' <=> Under(m, p)
    BY <2>1 DEF Under, Settled, vars
  <2> HIDE DEF g
  <2>5. \A p \in Path : cache'[p] # NULL => Under(cache'[p], p)
    BY <1>1, <2>1, <2>2, <2>3 DEF LoadingTypeOK, CachedUnderNames
  <2>6. \A q \in Reader : served'[q] # NULL => Under(served'[q], key[q])
    BY <1>1, <2>1, <2>3 DEF LoadingTypeOK, CachedUnderNames
  <2> QED BY <2>1, <2>4, <2>5, <2>6 DEF CachedUnderNames, Under, Settled, vars
<1>11. CASE \E p \in Path : Expire(p)
  <2>1. PICK p \in Path : Expire(p)
    BY <1>11
  <2>2. UNCHANGED <<vars, key, served>> /\ cache' = [cache EXCEPT ![p] = NULL]
    BY <2>1 DEF Expire
  <2>3. \A m, q : Under(m, q)' <=> Under(m, q)
    BY <2>2 DEF Under, Settled, vars
  <2>4. \A q \in Path : cache'[q] # NULL => cache'[q] = cache[q]
    BY <1>1, <2>2 DEF LoadingTypeOK
  <2> QED BY <2>2, <2>3, <2>4 DEF CachedUnderNames, Under, Settled, vars
<1>12. ASSUME NEW r \in Reader, ReadSlot(r) \/ MakeLock(r) \/ Enter(r) \/ GetValue(r) \/ GetValueFails(r)
       PROVE  CachedUnderNames'
  BY <1>5, <1>12 DEF ReadSlot, MakeLock, Enter, GetValue, GetValueFails, loading
<1>13. CASE StoreStep \/ UNCHANGED allVars
  BY <1>5, <1>13 DEF StoreStep, allVars, loading
<1> QED BY <1>7, <1>8, <1>9, <1>10, <1>11, <1>12, <1>13 DEF LoadingNext, GetOrSet

(* A message is cached and served under the name its delivery gave it,     *)
(* however files are replaced, deleted and read meanwhile.                 *)
THEOREM CacheKeepsNames == LoadingSpec => []ServedUnderItsName
<1>1. LoadingInit => FiledUnderNames /\ ReadsItsKey /\ CachedUnderNames
  BY StoreAssumption
     DEF LoadingInit, Init, FiledUnderNames, ReadsItsKey, CachedUnderNames, Caller
<1>2. ASSUME IInv, LInv, FiledUnderNames, ReadsItsKey, CachedUnderNames,
             [LoadingNext]_allVars
      PROVE  (FiledUnderNames /\ ReadsItsKey /\ CachedUnderNames)'
  <2>1. FiledUnderNames'
    BY <1>2, StepIsStoreStep, FiledStep
  <2> QED BY <1>2, <2>1, KeyStep, CachedStep
<1>3. CachedUnderNames => ServedUnderItsName
  BY DEF CachedUnderNames, ServedUnderItsName, Under
<1> QED BY <1>1, <1>2, <1>3, LoadingInductive, PTL DEF LoadingSpec

-----------------------------------------------------------------------------
(* Locks                                                                   *)

(* Until it has asked for its lock a reader has none; then it keeps it and *)
(* the key it was asked for.                                               *)
Lockless == \A r \in Reader : place[r] \in {"look", "slot", "make"} => lockOf[r] = NULL

(* Where there was no race, a lock that is being made is the only one of   *)
(* its slot, and a lock that was taken is the one in the table.            *)
InTable ==
  \A r \in Reader :
    LET i == LockItemId(key[r]) IN
      /\ place[r] = "make" => i \in DOMAIN slots
      /\ i \notin raced =>
           /\ lockOf[r] # NULL => slots[i] = lockOf[r]
           /\ place[r] = "make" =>
                slots[i] = NULL /\ \A q \in Reader : Makes(q, i) => q = r

LEMMA LocklessStep ==
  ASSUME LInv, Lockless, [LoadingNext]_allVars
  PROVE  Lockless'
<1> USE DEF LInv, LoadingTypeOK, Lockless, Move, Return, Places
<1>1. ASSUME NEW r \in Reader, FirstLook(r) \/ ReadSlot(r) \/ MakeLock(r) PROVE Lockless'
  BY <1>1 DEF FirstLook, ReadSlot, MakeLock
<1>2. ASSUME NEW r \in Reader,
             Enter(r) \/ SecondLook(r) \/ GetValue(r) \/ GetValueFails(r) \/ AddToCache(r)
      PROVE  Lockless'
  BY <1>2 DEF Enter, SecondLook, GetValue, GetValueFails, AddToCache, loading
<1>3. CASE StoreStep \/ (\E p \in Path : Expire(p)) \/ UNCHANGED allVars
  BY <1>3 DEF StoreStep, Expire, allVars, loading
<1> QED BY <1>1, <1>2, <1>3 DEF LoadingNext, GetOrSet

(* A reader that begins has neither key nor lock, and makes none.          *)
LEMMA TableStep ==
  ASSUME LInv, Lockless, InTable, [LoadingNext]_allVars
  PROVE  InTable'
<1> USE DEF LInv, LoadingTypeOK, Lockless, Move, Return, Places
<1>1. CASE UNCHANGED <<slots, key, lockOf, raced>>
           /\ \A q \in Reader : place'[q] = "make" <=> place[q] = "make"
  BY <1>1 DEF InTable, Makes
<1>2. ASSUME NEW r \in Reader, FirstLook(r) PROVE InTable'
  <2>1. /\ UNCHANGED <<slots, lockOf, raced>> /\ lockOf[r] = NULL /\ place'[r] # "make"
        /\ \A q \in Reader \ {r} : key'[q] = key[q] /\ place'[q] = place[q]
    BY <1>2 DEF FirstLook
  <2> QED BY <2>1 DEF InTable, Makes
<1>3. ASSUME NEW r \in Reader, ReadSlot(r) PROVE InTable'
  <2>0. PICK i : i = LockItemId(key[r])
    OBVIOUS
  <2>1. UNCHANGED <<slots, key>> /\ lockOf[r] = NULL /\ place[r] = "slot"
        /\ \A q \in Reader \ {r} : place'[q] = place[q]
    BY <1>3 DEF ReadSlot
  <2>2. CASE Move(r, "failed") /\ UNCHANGED <<lockOf, raced>>
    BY <1>1, <2>1, <2>2
  <2>3. CASE /\ i \in DOMAIN slots /\ slots[i] = NULL /\ Move(r, "make") /\ UNCHANGED lockOf
             /\ raced' = IF \E q \in Reader : Makes(q, i) THEN raced \union {i} ELSE raced
    <3>1. \A j : j \notin raced' => j \notin raced /\ (j = i => \A q \in Reader : ~Makes(q, i))
      BY <2>3
    <3>2. ASSUME NEW q \in Reader, NEW j
          PROVE  Makes(q, j)' <=> Makes(q, j) \/ (q = r /\ j = i)
      BY <2>0, <2>1, <2>3 DEF Makes
    <3>3. ASSUME NEW q \in Reader, NEW j, j = LockItemId(key[q]), j \notin raced'
          PROVE  /\ lockOf[q] # NULL => slots[j] = lockOf[q]
                 /\ place'[q] = "make" => slots[j] = NULL /\ \A c \in Reader : Makes(c, j)' => c = q
      <4>1. lockOf[q] # NULL => slots[j] = lockOf[q]
        BY <3>1, <3>3 DEF InTable
      <4>2. CASE q = r
        <5>1. j = i
          BY <2>0, <3>3, <4>2
        <5> QED BY <2>3, <3>1, <3>2, <3>3, <4>1, <4>2, <5>1
      <4>3. CASE q # r /\ place[q] = "make"
        <5>1. j # i
          BY <3>1, <3>3, <4>3 DEF Makes
        <5>2. slots[j] = NULL /\ \A c \in Reader : Makes(c, j) => c = q
          BY <3>1, <3>3, <4>3 DEF InTable
        <5> QED BY <3>2, <4>1, <5>1, <5>2
      <4> QED BY <2>1, <4>1, <4>2, <4>3
    <3>4. \A q \in Reader : place'[q] = "make" => LockItemId(key[q]) \in DOMAIN slots
      <4>1. LockItemId(key[r]) \in DOMAIN slots
        BY <2>0, <2>3
      <4> QED BY <2>1, <4>1 DEF InTable
    <3> QED BY <2>1, <2>3, <3>3, <3>4 DEF InTable, Makes
  <2>4. CASE /\ i \in DOMAIN slots /\ slots[i] # NULL /\ lockOf' = [lockOf EXCEPT ![r] = slots[i]]
             /\ Move(r, "lock") /\ UNCHANGED raced
    <3>1. \A q \in Reader : \A j : Makes(q, j)' <=> Makes(q, j)
      BY <2>1, <2>4 DEF Makes
    <3>2. lockOf'[r] = slots[i] /\ \A q \in Reader \ {r} : lockOf'[q] = lockOf[q]
      BY <2>4
    <3> QED BY <2>0, <2>1, <2>4, <3>1, <3>2 DEF InTable
  <2> QED BY <1>3, <2>0, <2>2, <2>3, <2>4 DEF ReadSlot
<1>4. ASSUME NEW r \in Reader, MakeLock(r) PROVE InTable'
  <2> DEFINE i == LockItemId(key[r])
  <2>1. /\ place[r] = "make" /\ UNCHANGED <<key, raced>>
        /\ lockOf'[r] = r /\ \A q \in Reader \ {r} : lockOf'[q] = lockOf[q]
        /\ place'[r] = "lock" /\ \A q \in Reader \ {r} : place'[q] = place[q]
        /\ slots' = [slots EXCEPT ![i] = r]
    BY <1>4 DEF MakeLock
  <2>2. i \in DOMAIN slots
    BY <2>1 DEF InTable
  <2>3. slots'[i] = r /\ \A j \in DOMAIN slots : j # i => slots'[j] = slots[j]
    BY <2>1, <2>2
  <2>4. ASSUME NEW q \in Reader, q # r, LockItemId(key[q]) = i, i \notin raced
        PROVE  lockOf[q] = NULL /\ place[q] # "make"
    BY <2>1, <2>4, LoadingAssumption DEF InTable, Makes
  <2>5. ASSUME NEW q \in Reader, LockItemId(key[q]) \notin raced
        PROVE  /\ lockOf'[q] # NULL => slots'[LockItemId(key[q])] = lockOf'[q]
               /\ place'[q] = "make" =>
                    /\ slots'[LockItemId(key[q])] = NULL
                    /\ \A c \in Reader : Makes(c, LockItemId(key[q]))' => c = q
    <3>1. CASE q = r
      BY <2>1, <2>3, <3>1
    <3>2. CASE q # r /\ LockItemId(key[q]) = i
      BY <2>1, <2>4, <2>5, <3>2
    <3>3. CASE q # r /\ LockItemId(key[q]) # i
      <4>1. slots'[LockItemId(key[q])] = slots[LockItemId(key[q])]
        BY <2>1, <3>3
      <4>2. \A c \in Reader : Makes(c, LockItemId(key[q]))' => Makes(c, LockItemId(key[q]))
        BY <2>1 DEF Makes
      <4> QED BY <2>1, <2>5, <3>3, <4>1, <4>2 DEF InTable
    <3> QED BY <3>1, <3>2, <3>3
  <2>6. \A q \in Reader : place'[q] = "make" => LockItemId(key[q]) \in DOMAIN slots'
    BY <2>1 DEF InTable
  <2> QED BY <2>1, <2>5, <2>6 DEF InTable
<1>5. ASSUME NEW r \in Reader,
             Enter(r) \/ SecondLook(r) \/ GetValue(r) \/ GetValueFails(r) \/ AddToCache(r)
      PROVE  InTable'
  BY <1>1, <1>5 DEF Enter, SecondLook, GetValue, GetValueFails, AddToCache, loading
<1>6. CASE StoreStep \/ (\E p \in Path : Expire(p)) \/ UNCHANGED allVars
  BY <1>1, <1>6 DEF StoreStep, Expire, allVars, loading
<1> QED BY <1>2, <1>3, <1>4, <1>5, <1>6 DEF LoadingNext, GetOrSet

LEMMA LocksInductive == LoadingSpec => [](LInv /\ Lockless /\ InTable)
<1>1. LoadingInit => Lockless /\ InTable
  BY DEF LoadingInit, Lockless, InTable
<1>2. LInv /\ Lockless /\ InTable /\ [LoadingNext]_allVars => Lockless' /\ InTable'
  BY LocklessStep, TableStep
<1> QED BY <1>1, <1>2, LoadingInductive, PTL DEF LoadingSpec

(* But for a race for an empty slot, no two readers ever load one message  *)
(* at a time: they share the lock in the table, and nobody replaces it.    *)
THEOREM LoadsAreExclusive == LoadingSpec => []LoadsExclude
<1>1. LInv /\ InTable => LoadsExclude
  <2> SUFFICES ASSUME LInv, InTable, NEW r \in Reader, NEW q \in Reader, r # q,
                      OnLockdown(r), OnLockdown(q), key[r] = key[q],
                      LockItemId(key[r]) \notin raced
               PROVE  FALSE
    BY DEF LoadsExclude
  <2>1. lockOf[r] # NULL /\ lockOf[q] # NULL
    BY DEF LInv, LoadingTypeOK, OnLockdown
  <2>2. lockOf[r] = lockOf[q]
    BY <2>1 DEF InTable
  <2> QED BY <2>2 DEF LInv, NoLockTwice
<1> QED BY <1>1, LocksInductive, PTL

-----------------------------------------------------------------------------
(* Repeated loads                                                          *)

LEMMA RepeatStep ==
  ASSUME LInv, Lockless, InTable, LoadIsNotRepeated, [LoadingNext]_allVars
  PROVE  LoadIsNotRepeated'
<1>1. LoadingTypeOK
  BY DEF LInv
<1> SUFFICES ASSUME NEW r \in Reader, place'[r] = "load", cache'[key'[r]] # NULL
             PROVE  LockItemId(key'[r]) \in raced'
  BY DEF LoadIsNotRepeated
<1>2. raced \subseteq raced' /\ (place[r] = "load" => key'[r] = key[r])
  <2>1. ASSUME NEW q \in Reader, GetOrSet(q)
        PROVE  raced \subseteq raced' /\ (place[r] = "load" => key'[r] = key[r])
    BY <1>1, <2>1 DEF GetOrSet, FirstLook, ReadSlot, MakeLock, Enter, SecondLook, GetValue,
       GetValueFails, AddToCache, loading, LoadingTypeOK
  <2>2. CASE StoreStep \/ (\E p \in Path : Expire(p)) \/ UNCHANGED allVars
    BY <2>2 DEF StoreStep, Expire, allVars, loading
  <2> QED BY <2>1, <2>2 DEF LoadingNext
<1>3. ASSUME place[r] = "load", cache[key[r]] # NULL PROVE LockItemId(key'[r]) \in raced'
  BY <1>2, <1>3 DEF LoadIsNotRepeated
<1>4. ASSUME UNCHANGED <<place[r], key[r], cache>>
      PROVE  place[r] = "load" /\ cache[key[r]] # NULL
  BY <1>4
<1>5. ASSUME NEW q \in Reader,
             FirstLook(q) \/ ReadSlot(q) \/ MakeLock(q) \/ Enter(q) \/ GetValue(q) \/ GetValueFails(q)
      PROVE  UNCHANGED <<place[r], key[r], cache>>
  BY <1>1, <1>5 DEF FirstLook, ReadSlot, MakeLock, Enter, GetValue, GetValueFails, Move, Return,
                    loading, LoadingTypeOK
<1>6. ASSUME NEW q \in Reader, SecondLook(q)
      PROVE  UNCHANGED <<place[r], key[r], cache>>
  BY <1>1, <1>6 DEF SecondLook, Move, Return, LoadingTypeOK
<1>7. ASSUME NEW q \in Reader, AddToCache(q), ~(place[r] = "load" /\ cache[key[r]] # NULL)
      PROVE  LockItemId(key'[r]) \in raced'
  <2>1. q # r /\ place[r] = "load" /\ place[q] = "load"
    BY <1>1, <1>7 DEF AddToCache, Move, Return, LoadingTypeOK
  <2>2. key[r] = key[q]
    BY <1>1, <1>7, <2>1 DEF AddToCache, LoadingTypeOK
  <2>3. lockOf[q] # NULL /\ lockOf[r] # NULL /\ lockOf[q] # lockOf[r]
    BY <1>1, <2>1 DEF LInv, NoLockTwice, OnLockdown, LoadingTypeOK
  <2>4. LockItemId(key[r]) \in raced
    BY <2>2, <2>3 DEF InTable
  <2> QED BY <1>2, <2>1, <2>4
<1>8. ASSUME NEW p \in Path, Expire(p)
      PROVE  place[r] = "load" /\ cache[key[r]] # NULL
  BY <1>1, <1>8 DEF Expire, LoadingTypeOK
<1>9. CASE StoreStep \/ UNCHANGED allVars
  BY <1>3, <1>4, <1>9 DEF StoreStep, allVars, loading
<1> QED BY <1>3, <1>4, <1>5, <1>6, <1>7, <1>8, <1>9 DEF LoadingNext, GetOrSet

(* A message comes into the cache behind the back of who is loading it     *)
(* only after a race for an empty slot: the second look, under a lock that *)
(* all share, spares every other load.                                     *)
THEOREM LoadsAreNotRepeated == LoadingSpec => []LoadIsNotRepeated
<1>1. LoadingInit => LoadIsNotRepeated
  BY DEF LoadingInit, LoadIsNotRepeated
<1>2. LInv /\ Lockless /\ InTable /\ LoadIsNotRepeated /\ [LoadingNext]_allVars
        => LoadIsNotRepeated'
  BY RepeatStep
<1> QED BY <1>1, <1>2, LocksInductive, PTL DEF LoadingSpec
=============================================================================
