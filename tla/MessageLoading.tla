--------------------------- MODULE MessageLoading ---------------------------
(***************************************************************************)
(* The cache in front of the folder: MimeMessageLoader and the GetOrSet of *)
(* MemoryCacheExtensions, over the store of MessageStore.                  *)
(*                                                                         *)
(* A reader looks into the cache, takes the lock of its path, looks again, *)
(* reads the file by GetMessage and adds what it read.  The locks are made *)
(* when they are first asked for, and paths share them by their hash.      *)
(***************************************************************************)
EXTENDS MessageStore, Integers

CONSTANTS
  Hash,            \* GetHashCode of each path
  HashBits,        \* 32 in the code
  LockObjectCount  \* 255 in the code

MinHash == -(2 ^ (HashBits - 1))

ASSUME LoadingAssumption ==
  /\ HashBits \in Nat \ {0} /\ LockObjectCount \in Nat \ {0}
  /\ NULL \notin Reader \union Path
  /\ DOMAIN Hash = Path /\ \A p \in Path : Hash[p] \in MinHash..(-MinHash - 1)

VARIABLES
  cache,    \* MimeMessageCache: the message under each path
  slots,    \* _lockCacheItems: the lock objects, named for the reader that made them
  place,    \* where each reader stands in GetOrSet
  key,      \* the path it was called with
  lockOf,   \* the lock object it has got
  served,   \* the message it has returned
  raced     \* history: the slots two readers at once have found empty

loading == <<cache, slots, place, key, lockOf, served, raced>>
allVars == <<vars, loading>>

(* The smallest integer is its own negation, and the remainder has the     *)
(* sign of what is divided.                                                *)
LockItemId(p) ==
  LET h == IF Hash[p] < 0 /\ Hash[p] # MinHash THEN -Hash[p] ELSE Hash[p]
  IN  IF h < 0 THEN -((-h) % LockObjectCount) ELSE h % LockObjectCount

LoadingInit ==
  /\ Init
  /\ cache = [p \in Path |-> NULL]
  /\ slots = [i \in 0..LockObjectCount |-> NULL]
  /\ place = [r \in Reader |-> "look"]
  /\ key = [r \in Reader |-> NULL]
  /\ lockOf = [r \in Reader |-> NULL]
  /\ served = [r \in Reader |-> NULL]
  /\ raced = {}

Move(r, l) == place' = [place EXCEPT ![r] = l]

Return(r, m) == served' = [served EXCEPT ![r] = m] /\ Move(r, "done")

-----------------------------------------------------------------------------
(* GetOrSet                                                                *)

FirstLook(r) ==
  /\ place[r] = "look"
  /\ \E p \in Known :
       /\ key' = [key EXCEPT ![r] = p]
       /\ IF cache[p] # NULL THEN Return(r, cache[p]) ELSE Move(r, "slot") /\ UNCHANGED served
  /\ UNCHANGED <<vars, cache, slots, lockOf, raced>>

Makes(r, i) == place[r] = "make" /\ LockItemId(key[r]) = i

(* GetLockObject reads the slot and, when it is empty, fills it: not in    *)
(* one step.  An index outside of the array is an exception.               *)
ReadSlot(r) ==
  /\ place[r] = "slot"
  /\ LET i == LockItemId(key[r]) IN
       \/ /\ i \notin DOMAIN slots
          /\ Move(r, "failed") /\ UNCHANGED <<lockOf, raced>>
       \/ /\ i \in DOMAIN slots /\ slots[i] = NULL
          /\ raced' = IF \E q \in Reader : Makes(q, i) THEN raced \union {i} ELSE raced
          /\ Move(r, "make") /\ UNCHANGED lockOf
       \/ /\ i \in DOMAIN slots /\ slots[i] # NULL
          /\ lockOf' = [lockOf EXCEPT ![r] = slots[i]]
          /\ Move(r, "lock") /\ UNCHANGED raced
  /\ UNCHANGED <<vars, cache, slots, key, served>>

(* Mutant: the new lock is put into the table and not taken.               *)
MakeLockForOthers(r) ==
  /\ place[r] = "make"
  /\ slots' = [slots EXCEPT ![LockItemId(key[r])] = r]
  /\ Move(r, "lock")
  /\ UNCHANGED <<vars, cache, key, lockOf, served, raced>>

(* Mutant: the new lock is taken and not put into the table.               *)
MakeLockForItself(r) ==
  /\ place[r] = "make"
  /\ lockOf' = [lockOf EXCEPT ![r] = r]
  /\ Move(r, "lock")
  /\ UNCHANGED <<vars, cache, slots, key, served, raced>>

MakeLock(r) ==
  /\ place[r] = "make"
  /\ slots' = [slots EXCEPT ![LockItemId(key[r])] = r]
  /\ lockOf' = [lockOf EXCEPT ![r] = r]
  /\ Move(r, "lock")
  /\ UNCHANGED <<vars, cache, key, served, raced>>

OnLockdown(r) == place[r] \in {"second", "load"}

Enter(r) ==
  /\ place[r] = "lock"
  /\ \A q \in Reader : OnLockdown(q) => lockOf[q] # lockOf[r]
  /\ Move(r, "second")
  /\ UNCHANGED <<vars, cache, slots, key, lockOf, served, raced>>

(* Mutant: there is no second look.                                        *)
LoadAtOnce(r) ==
  /\ place[r] = "second"
  /\ Move(r, "load")
  /\ UNCHANGED <<vars, cache, slots, key, lockOf, served, raced>>

SecondLook(r) ==
  /\ place[r] = "second"
  /\ IF cache[key[r]] # NULL
       THEN Return(r, cache[key[r]])
       ELSE Move(r, "load") /\ UNCHANGED served
  /\ UNCHANGED <<vars, cache, slots, key, lockOf, raced>>

(* getValue: the steps of GetMessage, on the path of the call.             *)
GetValue(r) ==
  /\ place[r] = "load"
  /\ \/ GetMessage(r) /\ path'[r] = key[r]
     \/ Attempts(r)
  /\ UNCHANGED loading

(* Mutant: what failed keeps the lock.                                     *)
GetValueHangs(r) ==
  /\ place[r] = "load" /\ pc[r] = "failed"
  /\ UNCHANGED allVars

GetValueFails(r) ==
  /\ place[r] = "load" /\ pc[r] = "failed"
  /\ Move(r, "failed")
  /\ UNCHANGED <<vars, cache, slots, key, lockOf, served, raced>>

(* Mutant: the item is added under whatever path was read last.            *)
AddElsewhere(r) ==
  /\ place[r] = "load" /\ pc[r] = "done"
  /\ \E p \in Path : cache' = [cache EXCEPT ![p] = IF @ = NULL THEN got[r] ELSE @]
  /\ Return(r, got[r])
  /\ UNCHANGED <<vars, slots, key, lockOf, raced>>

(* MimeMessage.Load may refuse what is in the file; Add keeps what is in   *)
(* the cache already.  Leaving the lock is part of the step.               *)
AddToCache(r) ==
  /\ place[r] = "load" /\ pc[r] = "done"
  /\ \/ /\ cache' = [cache EXCEPT ![key[r]] = IF @ = NULL THEN got[r] ELSE @]
        /\ Return(r, got[r])
     \/ got[r].text = "broken" /\ Move(r, "failed") /\ UNCHANGED <<cache, served>>
  /\ UNCHANGED <<vars, slots, key, lockOf, raced>>

(* Ten seconds after it was last asked for.                                *)
Expire(p) ==
  /\ cache[p] # NULL
  /\ cache' = [cache EXCEPT ![p] = NULL]
  /\ UNCHANGED <<vars, slots, place, key, lockOf, served, raced>>

GetOrSet(r) ==
  \/ FirstLook(r) \/ ReadSlot(r) \/ MakeLock(r) \/ Enter(r) \/ SecondLook(r)
  \/ GetValue(r) \/ GetValueFails(r) \/ AddToCache(r)

StoreStep ==
  /\ \/ \E d \in Delivery : Save(d)
     \/ \E p \in DOMAIN files : DeleteMessage(p)
     \/ Tick
  /\ UNCHANGED loading

LoadingNext ==
  \/ StoreStep
  \/ \E r \in Reader : GetOrSet(r)
  \/ \E p \in Path : Expire(p)

LoadingSpec == LoadingInit /\ [][LoadingNext]_allVars

(* Readers that have begun run on threads of the pool; nothing is asked of *)
(* the deliveries.                                                         *)
FairLoading ==
  /\ LoadingSpec
  /\ \A r \in Reader : WF_allVars(GetOrSet(r) /\ place[r] # "look")

-----------------------------------------------------------------------------
(* Properties                                                              *)

Places == {"look", "slot", "make", "lock", "second", "load", "done", "failed"}

LoadingTypeOK ==
  /\ cache \in [Path -> Content \union {NULL}]
  /\ slots \in [0..LockObjectCount -> Reader \union {NULL}]
  /\ place \in [Reader -> Places]
  /\ key \in [Reader -> Path \union {NULL}]
  /\ lockOf \in [Reader -> Reader \union {NULL}]
  /\ served \in [Reader -> Content \union {NULL}] /\ raced \subseteq DOMAIN slots
  /\ \A r \in Reader : place[r] \in {"slot", "make", "lock", "second", "load"} => key[r] # NULL
  /\ \A r \in Reader : place[r] \in {"lock", "second", "load"} => lockOf[r] # NULL

(* What a read brings into the cache outlives the file it was read from,   *)
(* so it must have been complete: neither the cache nor anything served    *)
(* from it is ever the beginning of a message still being written.         *)
NothingPartialIsCached ==
  /\ \A p \in Path : cache[p] # NULL => cache[p].text # "partial"
  /\ \A r \in Reader : served[r] # NULL => served[r].text # "partial"

(* A message is cached and served under the name its delivery gave it,     *)
(* whatever has become of the file: of the messages that had a name, never *)
(* one that had another.                                                   *)
ServedUnderItsName ==
  /\ \A p \in Path : cache[p] # NULL => path[cache[p].of] = p
  /\ \A r \in Reader : served[r] # NULL => path[served[r].of] = key[r]

(* Two readers load one message at the same time only where two readers    *)
(* found the slot of its lock empty at once, before one had filled it: but *)
(* for that race all who load under one slot share the lock in the table.  *)
LoadsExclude ==
  \A r, q \in Reader :
    r # q /\ OnLockdown(r) /\ OnLockdown(q) /\ key[r] = key[q]
      => LockItemId(key[r]) \in raced

(* While a reader is loading, nobody else brings its message into the      *)
(* cache, but for the same race: the second look spares every other load.  *)
LoadIsNotRepeated ==
  \A r \in Reader :
    place[r] = "load" /\ cache[key[r]] # NULL => LockItemId(key[r]) \in raced

(* The cache only stands between the readers and the folder: files,        *)
(* deliveries and reads behave as without it.                              *)
ImplementsStore == Spec

(* Every call that has begun comes to its end, by a message or a failure:  *)
(* a lock is given back on every path, and no reader waits for a delivery. *)
LoadingEnds ==
  \A r \in Reader : place[r] # "look" ~> place[r] \in {"done", "failed"}
=============================================================================
