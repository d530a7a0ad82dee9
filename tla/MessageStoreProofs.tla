------------------------- MODULE MessageStoreProofs -------------------------
(***************************************************************************)
(* Proofs about MessageStore: its types, and that neither a colliding name *)
(* nor a reader, a deletion or a failing disk comes between a delivery and *)
(* the file it is writing.                                                 *)
(***************************************************************************)
EXTENDS MessageStore, TLAPS

(* The bounds of the two retry loops, as the loops keep them.              *)
Counted ==
  /\ \A d \in Delivery : pc[d] # "failed" => crashes[d] < MaxCrashes
  /\ \A r \in Reader : pc[r] # "failed" => crashes[r] <= MaxRetries

(* A delivery that has generated a name has a path from then on.           *)
Named ==
  \A d \in Delivery :
    pc[d] \in {"create", "write", "close", "publish", "done"} => path[d] \in Path

Typed == TypeOK /\ Counted /\ Named

(* What is half written is being written, and what is read is not.         *)
PartialIsWritten ==
  \A p \in DOMAIN files : files[p].text = "partial" =>
    \E d \in Delivery : pc[d] = "write" /\ path[d] = p

ReadersHold ==
  \A r \in Reader : pc[r] = "reading" =>
    path[r] \in DOMAIN files /\ ~Written(path[r])

Files == OwnsWhatItWrites /\ PartialIsWritten /\ ReadersHold /\ ReadsNoPartialMessage

(* OwnsWhatItWrites and ReadsNoPartialMessage are not inductive alone: a   *)
(* reader returns no half of a message because what is half written has a  *)
(* writer, and what a reader holds has none.                               *)
IInv == Typed /\ Files

-----------------------------------------------------------------------------
(* What Put makes of the folder: one path gets new content, the others     *)
(* keep theirs.                                                            *)
LEMMA PutContent ==
  ASSUME NEW p, NEW c, Put(p, c)
  PROVE  /\ DOMAIN files' = DOMAIN files \union {p}
         /\ files'[p] = c
         /\ \A q \in DOMAIN files : q # p => files'[q] = files[q]
BY DEF Put

(* Generating a name touches nothing but the delivery's own path, and the  *)
(* name is one of Path.                                                    *)
LEMMA GeneratedIsPath ==
  ASSUME TypeOK, NEW d \in Delivery, GenerateFilePath(d)
  PROVE  path' \in [Caller -> Path \union {NULL}] /\ path'[d] \in Path
<1>1. PICK r \in IF crashes[d] = 0 THEN {Plain} ELSE Random :
        path' = [path EXCEPT ![d] = [base |-> Base[d], time |-> clock, random |-> r]]
  BY DEF GenerateFilePath
<1>2. [base |-> Base[d], time |-> clock, random |-> r] \in Path
  BY DEF TypeOK, Path, Names
<1> QED
  BY <1>1, <1>2 DEF TypeOK, Caller

-----------------------------------------------------------------------------
(* Types, the bounds of the retry loops, and that who writes has a path.   *)

(* They hold at first.                                                     *)
LEMMA TypingInit == Init => Typed
BY StoreAssumption DEF Init, Typed, TypeOK, Counted, Named, Caller

(* A step keeps them; what a reader returns has its type because the file  *)
(* it holds open cannot go away.                                           *)
LEMMA TypingStep == Typed /\ ReadersHold /\ [Next]_vars => Typed'
<1> SUFFICES ASSUME Typed, ReadersHold, [Next]_vars
             PROVE  Typed'
  OBVIOUS
<1> USE StoreAssumption DEF Caller, Typed
<1>1. ASSUME NEW d \in Delivery, GenerateFilePath(d)
      PROVE  Typed'
  <2>1. path' \in [Caller -> Path \union {NULL}]
    BY <1>1, GeneratedIsPath
  <2>2. path'[d] \in Path
    BY <1>1, GeneratedIsPath
  <2> QED
    BY <1>1, <2>1, <2>2 DEF GenerateFilePath, Goto, TypeOK, Counted, Named
<1>2. ASSUME NEW d \in Delivery, NEW text \in {"partial", "whole", "broken"},
             path[d] \in Path, Put(path[d], [of |-> d, text |-> text])
      PROVE  DOMAIN files' \subseteq Path /\ \A p \in DOMAIN files' : files'[p] \in Content
  <2>1. [of |-> d, text |-> text] \in Content
    BY DEF Content
  <2>2. /\ DOMAIN files' = DOMAIN files \union {path[d]}
        /\ files'[path[d]] = [of |-> d, text |-> text]
        /\ \A q \in DOMAIN files : q # path[d] => files'[q] = files[q]
    BY <1>2, PutContent
  <2> QED
    BY <1>2, <2>1, <2>2 DEF TypeOK
<1>3. ASSUME NEW d \in Delivery, Create(d)
      PROVE  Typed'
  <2>1. DOMAIN files' \subseteq Path /\ \A p \in DOMAIN files' : files'[p] \in Content
    BY <1>2, <1>3 DEF Create, Named
  <2> QED
    BY <1>3, <2>1 DEF Create, Goto, TypeOK, Counted, Named
<1>4. ASSUME NEW d \in Delivery, CreateDirectoryFails(d) \/ CreateFails(d)
      PROVE  Typed'
  BY <1>4 DEF CreateDirectoryFails, CreateFails, Goto, TypeOK, Counted, Named
<1>5. ASSUME NEW d \in Delivery, WriteTo(d)
      PROVE  Typed'
  <2>1. DOMAIN files' \subseteq Path /\ \A p \in DOMAIN files' : files'[p] \in Content
    BY <1>2, <1>5 DEF WriteTo, Named
  <2> QED
    BY <1>5, <2>1 DEF WriteTo, Goto, TypeOK, Counted, Named
<1>6. ASSUME NEW d \in Delivery, Close(d) \/ Publish(d)
      PROVE  Typed'
  BY <1>6 DEF Close, Publish, Goto, TypeOK, Counted, Named
<1>7. ASSUME NEW p \in DOMAIN files, DeleteMessage(p)
      PROVE  Typed'
  <2>1. files[p].of \in Delivery
    BY DEF TypeOK, Content
  <2> QED
    BY <1>7, <2>1 DEF DeleteMessage, TypeOK, Counted, Named
<1>8. ASSUME NEW r \in Reader, GetMessage(r)
      PROVE  Typed'
  <2>1. path' \in [Caller -> Path \union {NULL}]
    BY <1>8 DEF GetMessage, Known, TypeOK
  <2> QED
    BY <1>8, <2>1 DEF GetMessage, Goto, TypeOK, Counted, Named
<1>9. ASSUME NEW r \in Reader, TryRead(r) \/ TryReadFails(r) \/ TryReadThrows(r)
      PROVE  Typed'
  BY <1>9 DEF TryRead, TryReadFails, TryReadThrows, Goto, TypeOK, Counted, Named
<1>10. ASSUME NEW r \in Reader, ReadFile(r)
       PROVE  Typed'
  <2>1. files[path[r]] \in Content
    BY <1>10 DEF ReadFile, ReadersHold, TypeOK
  <2> QED
    BY <1>10, <2>1 DEF ReadFile, Goto, TypeOK, Counted, Named
<1>11. ASSUME Tick \/ UNCHANGED vars
       PROVE  Typed'
  BY <1>11 DEF Tick, vars, TypeOK, Counted, Named
<1> QED
  BY <1>1, <1>3, <1>4, <1>5, <1>6, <1>7, <1>8, <1>9, <1>10, <1>11 DEF Next, Save, Load, Attempts

-----------------------------------------------------------------------------
(* Files and the handles on them.                                          *)

(* There is no file at first.                                              *)
LEMMA FilesInit == Init => Files
BY StoreAssumption
   DEF Init, Files, OwnsWhatItWrites, PartialIsWritten, ReadersHold,
       ReadsNoPartialMessage, Caller

(* Two deliveries never write under one path.                              *)
LEMMA OneWriter ==
  ASSUME OwnsWhatItWrites, NEW d \in Delivery, NEW e \in Delivery,
         pc[d] \in {"write", "close"}, pc[e] \in {"write", "close"}, path[d] = path[e]
  PROVE  d = e
BY DEF OwnsWhatItWrites

(* A step keeps them, whoever takes it.                                    *)
LEMMA FilesStep == Typed /\ Files /\ [Next]_vars => Files'
<1> SUFFICES ASSUME Typed, Files, [Next]_vars
             PROVE  Files'
  OBVIOUS
<1> USE StoreAssumption DEF Caller, Typed, Files, Written
<1>1. ASSUME NEW d \in Delivery, GenerateFilePath(d)
      PROVE  Files'
  BY <1>1 DEF GenerateFilePath, Goto, TypeOK, OwnsWhatItWrites, PartialIsWritten,
              ReadersHold, ReadsNoPartialMessage
<1>2. ASSUME NEW d \in Delivery, Create(d)
      PROVE  Files'
  <2>1. /\ DOMAIN files' = DOMAIN files \union {path[d]}
        /\ files'[path[d]] = [of |-> d, text |-> "partial"]
        /\ \A q \in DOMAIN files : q # path[d] => files'[q] = files[q]
    BY <1>2, PutContent DEF Create
  <2>2. OwnsWhatItWrites'
    BY <1>2, <2>1 DEF Create, Held, Goto, TypeOK, OwnsWhatItWrites
  <2>3. PartialIsWritten'
    BY <1>2, <2>1 DEF Create, Goto, TypeOK, PartialIsWritten
  <2>4. ReadersHold'
    BY <1>2, <2>1 DEF Create, Held, Goto, TypeOK, ReadersHold
  <2> QED
    BY <1>2, <2>2, <2>3, <2>4 DEF Create, ReadsNoPartialMessage
<1>3. ASSUME NEW d \in Delivery, CreateDirectoryFails(d) \/ CreateFails(d)
      PROVE  Files'
  BY <1>3 DEF CreateDirectoryFails, CreateFails, Goto, TypeOK, OwnsWhatItWrites, PartialIsWritten,
              ReadersHold, ReadsNoPartialMessage
<1>4. ASSUME NEW d \in Delivery, WriteTo(d)
      PROVE  Files'
  <2>1. PICK text \in {"whole", "broken"} : Put(path[d], [of |-> d, text |-> text])
    BY <1>4 DEF WriteTo
  <2>2. /\ DOMAIN files' = DOMAIN files \union {path[d]}
        /\ files'[path[d]] = [of |-> d, text |-> text]
        /\ \A q \in DOMAIN files : q # path[d] => files'[q] = files[q]
    BY <2>1, PutContent
  <2>3. OwnsWhatItWrites'
    BY <1>4, <2>2, OneWriter DEF WriteTo, Goto, TypeOK, OwnsWhatItWrites
  <2>4. PartialIsWritten'
    BY <1>4, <2>2 DEF WriteTo, Goto, TypeOK, PartialIsWritten
  <2>5. ReadersHold'
    BY <1>4, <2>2 DEF WriteTo, Goto, TypeOK, ReadersHold
  <2> QED
    BY <1>4, <2>3, <2>4, <2>5 DEF WriteTo, ReadsNoPartialMessage
<1>5. ASSUME NEW d \in Delivery, Close(d) \/ Publish(d)
      PROVE  Files'
  BY <1>5 DEF Close, Publish, Goto, TypeOK, OwnsWhatItWrites, PartialIsWritten,
              ReadersHold, ReadsNoPartialMessage
<1>6. ASSUME NEW p \in DOMAIN files, DeleteMessage(p)
      PROVE  Files'
  BY <1>6 DEF DeleteMessage, Held, OwnsWhatItWrites, PartialIsWritten, ReadersHold,
              ReadsNoPartialMessage
<1>7. ASSUME NEW r \in Reader,
             GetMessage(r) \/ TryRead(r) \/ TryReadFails(r) \/ TryReadThrows(r)
      PROVE  Files'
  BY <1>7 DEF GetMessage, TryRead, TryReadFails, TryReadThrows, Goto, TypeOK, OwnsWhatItWrites,
              PartialIsWritten, ReadersHold, ReadsNoPartialMessage
<1>8. ASSUME NEW r \in Reader, ReadFile(r)
      PROVE  Files'
  <2>1. files[path[r]].text # "partial"
    BY <1>8 DEF ReadFile, PartialIsWritten, ReadersHold
  <2> QED
    BY <1>8, <2>1 DEF ReadFile, Goto, TypeOK, OwnsWhatItWrites, PartialIsWritten,
                      ReadersHold, ReadsNoPartialMessage
<1>9. ASSUME Tick \/ UNCHANGED vars
      PROVE  Files'
  BY <1>9 DEF Tick, vars, OwnsWhatItWrites, PartialIsWritten, ReadersHold,
              ReadsNoPartialMessage
<1> QED
  BY <1>1, <1>2, <1>3, <1>4, <1>5, <1>6, <1>7, <1>8, <1>9 DEF Next, Save, Load, Attempts

-----------------------------------------------------------------------------

(* The invariant of every behaviour.                                       *)
LEMMA Inductive == Spec => []IInv
<1>1. Init => IInv
  BY TypingInit, FilesInit DEF IInv, Files
<1>2. IInv /\ [Next]_vars => IInv'
  BY TypingStep, FilesStep DEF IInv, Files
<1> QED
  BY <1>1, <1>2, PTL DEF Spec

(* The folder, the names, the readers and the two retry loops keep their   *)
(* types and their bounds.                                                 *)
THEOREM Typing == Spec => []TypeOK
<1>1. IInv => TypeOK
  BY DEF IInv, Typed
<1> QED
  BY <1>1, Inductive, PTL

(* Whatever names collide, whatever is deleted and whichever calls of the  *)
(* file system fail, the file under a delivery's name is its own as long   *)
(* as it has it open.                                                      *)
THEOREM WritersOwnTheirFiles == Spec => []OwnsWhatItWrites
<1>1. IInv => OwnsWhatItWrites
  BY DEF IInv, Files
<1> QED
  BY <1>1, Inductive, PTL

(* GetMessage returns no message that is still being written.              *)
THEOREM NothingPartialIsRead == Spec => []ReadsNoPartialMessage
<1>1. IInv => ReadsNoPartialMessage
  BY DEF IInv, Files
<1> QED
  BY <1>1, Inductive, PTL

-----------------------------------------------------------------------------
(* The store implements MessageFolder.                                     *)

(* Where files are the same and the same are being written, the folder     *)
(* looks the same.                                                         *)
LEMMA SameFolder ==
  ASSUME files' = files, \A p \in DOMAIN files : Written(p)' <=> Written(p)
  PROVE  [p \in Closed |-> files[p]]' = [p \in Closed |-> files[p]]
BY DEF Closed

(* A step of a delivery that neither opens nor closes a file is none of    *)
(* the folder.                                                             *)
LEMMA QuietDelivery ==
  ASSUME IInv, NEW d \in Delivery,
         GenerateFilePath(d) \/ CreateDirectoryFails(d) \/ CreateFails(d)
  PROVE  UNCHANGED Folder!folderVars
<1>1. DOMAIN pc = Caller /\ d \in Caller
  BY DEF IInv, Typed, TypeOK, Caller
<1>2. files' = files /\ published' = published /\ got' = got
  BY DEF GenerateFilePath, CreateDirectoryFails, CreateFails
<1>3. \A e \in Delivery : pc'[e] \in {"write", "close"} <=> pc[e] \in {"write", "close"}
  BY <1>1 DEF GenerateFilePath, CreateDirectoryFails, CreateFails, Goto, Caller
<1>4. \A e \in Delivery : pc[e] \in {"write", "close"} => path'[e] = path[e]
  BY <1>1 DEF IInv, Typed, TypeOK, GenerateFilePath, CreateDirectoryFails, CreateFails, Caller
<1>5. \A p \in DOMAIN files : Written(p)' <=> Written(p)
  BY <1>3, <1>4 DEF Written
<1>6. \A e \in Delivery : pc'[e] \in {"publish", "done"} <=> pc[e] \in {"publish", "done"}
  BY <1>1 DEF GenerateFilePath, CreateDirectoryFails, CreateFails, Goto, Caller
<1> QED
  BY <1>2, <1>5, <1>6, SameFolder DEF Folder!folderVars

(* Opening a file removes what was under its name, if anything was.        *)
LEMMA CreateRemoves ==
  ASSUME IInv, NEW d \in Delivery, Create(d)
  PROVE  (\E q \in Path : Folder!Remove(q)) \/ UNCHANGED Folder!folderVars
<1> DEFINE p == path[d]
<1>0. p \in Path
  BY DEF IInv, Typed, Named, Create
<1>1. DOMAIN pc = Caller /\ pc' = [pc EXCEPT ![d] = "write"] /\ d \in Caller
  BY DEF IInv, Typed, TypeOK, Create, Goto, Caller
<1>2. published' = published /\ got' = got /\ path' = path
  BY DEF Create
<1>3. \A e \in Delivery : pc'[e] \in {"publish", "done"} <=> pc[e] \in {"publish", "done"}
  BY <1>1 DEF Create, Caller
<1>4. /\ DOMAIN files' = DOMAIN files \union {p}
      /\ \A q \in DOMAIN files : q # p => files'[q] = files[q]
  BY PutContent DEF Create
<1>5. \A q : Written(q)' <=> Written(q) \/ q = p
  BY <1>1, <1>2 DEF Written, Create, Caller
<1>6. Closed' = Closed \ {p}
  BY <1>4, <1>5 DEF Closed
<1>7. ~Written(p)
  BY DEF Create, Held
<1>8. \A q \in Closed : q \in DOMAIN files
  BY DEF Closed
<1>9. [q \in Closed |-> files[q]]' = [q \in Closed \ {p} |-> files[q]]
  BY <1>4, <1>6, <1>8
<1>10. CASE p \in DOMAIN files
  <2>1. p \in Closed
    BY <1>7, <1>10 DEF Closed
  <2>2. PICK q \in Path : q = p
    BY <1>0
  <2>3. Folder!Remove(q)
    BY <1>2, <1>3, <1>9, <2>1, <2>2 DEF Folder!Remove
  <2> QED
    BY <2>3
<1>11. CASE p \notin DOMAIN files
  <2>1. Closed \ {p} = Closed
    BY <1>8, <1>11
  <2> QED
    BY <1>2, <1>3, <1>9, <2>1 DEF Folder!folderVars
<1> QED
  BY <1>10, <1>11

(* What is written stays hidden until the file is closed.                  *)
LEMMA WriteHidden ==
  ASSUME IInv, NEW d \in Delivery, WriteTo(d)
  PROVE  UNCHANGED Folder!folderVars
<1> DEFINE p == path[d]
<1>1. DOMAIN pc = Caller /\ pc' = [pc EXCEPT ![d] = "close"] /\ d \in Caller
  BY DEF IInv, Typed, TypeOK, WriteTo, Goto, Caller
<1>2. published' = published /\ got' = got /\ path' = path /\ pc[d] = "write"
  BY DEF WriteTo
<1>3. \A e \in Delivery : pc'[e] \in {"publish", "done"} <=> pc[e] \in {"publish", "done"}
  BY <1>1, <1>2 DEF Caller
<1>4. \A q : Written(q)' <=> Written(q)
  BY <1>1, <1>2 DEF Written, Caller
<1>5. p \in DOMAIN files
  BY <1>2 DEF IInv, Files, OwnsWhatItWrites
<1>6. /\ DOMAIN files' = DOMAIN files
      /\ \A q \in DOMAIN files : q # p => files'[q] = files[q]
  <2>1. PICK text : Put(p, [of |-> d, text |-> text])
    BY DEF WriteTo
  <2> QED
    BY <1>5, <2>1, PutContent
<1>7. Written(p)
  BY <1>2 DEF Written
<1>8. Closed' = Closed /\ \A q \in Closed : q \in DOMAIN files /\ q # p
  BY <1>4, <1>6, <1>7 DEF Closed
<1>9. [q \in Closed |-> files[q]]' = [q \in Closed |-> files[q]]
  BY <1>6, <1>8
<1> QED
  BY <1>2, <1>3, <1>9 DEF Folder!folderVars

(* Closing it puts the message there, as a whole or broken, and for the    *)
(* first time.                                                             *)
LEMMA CloseSaves ==
  ASSUME IInv, NEW d \in Delivery, Close(d)
  PROVE  \E p \in Path, m \in Folder!Message : Folder!Save(d, p, m)
<1> DEFINE p == path[d]
           m == files[p]
<1>1. DOMAIN pc = Caller /\ pc' = [pc EXCEPT ![d] = "publish"] /\ d \in Caller
  BY DEF IInv, Typed, TypeOK, Close, Goto, Caller
<1>2. /\ published' = published /\ got' = got /\ path' = path /\ files' = files
      /\ pc[d] = "close"
  BY DEF Close
<1>3. p \in DOMAIN files /\ m.of = d /\ m \in Content /\ p \in Path
  BY <1>2 DEF IInv, Files, OwnsWhatItWrites, Typed, TypeOK, Named
<1>4. m.text # "partial"
  BY <1>2, <1>3, OneWriter DEF IInv, Files, PartialIsWritten
<1>5. m \in Folder!Message
  BY <1>3, <1>4 DEF Content, Folder!Message
<1>6. \A e \in Delivery : pc'[e] \in {"publish", "done"}
                            <=> pc[e] \in {"publish", "done"} \/ e = d
  BY <1>1, <1>2 DEF Caller
<1>7. {e \in Delivery : pc[e] \in {"publish", "done"}}'
        = {e \in Delivery : pc[e] \in {"publish", "done"}} \union {d}
  BY <1>6
<1>8. \A q : Written(q)' <=> Written(q) /\ q # p
  <2>1. \A e \in Delivery : pc'[e] \in {"write", "close"}
                              <=> pc[e] \in {"write", "close"} /\ e # d
    BY <1>1, <1>2 DEF Caller
  <2>2. \A e \in Delivery : pc[e] \in {"write", "close"} /\ path[e] = p => e = d
    BY <1>2, OneWriter DEF IInv, Files
  <2> QED
    BY <1>2, <2>1, <2>2 DEF Written
<1>9. Closed' = Closed \union {p} /\ p \notin Closed
  BY <1>2, <1>3, <1>8 DEF Closed, Written
<1>10. [q \in Closed |-> files[q]]'
         = [q \in Closed \union {p} |-> IF q = p THEN m ELSE [x \in Closed |-> files[x]][q]]
  BY <1>2, <1>9
<1>11. d \notin {e \in Delivery : pc[e] \in {"publish", "done"}}
  BY <1>2
<1>12. PICK q \in Path, c \in Folder!Message : q = p /\ c = m
  BY <1>3, <1>5
<1>13. Folder!Save(d, q, c)
  BY <1>2, <1>3, <1>7, <1>9, <1>10, <1>11, <1>12 DEF Folder!Save
<1> QED
  BY <1>13

(* Only what has been closed is announced.                                 *)
LEMMA PublishAnnounces ==
  ASSUME IInv, NEW d \in Delivery, Publish(d)
  PROVE  Folder!Announce(d) \/ UNCHANGED Folder!folderVars
<1>1. DOMAIN pc = Caller /\ pc' = [pc EXCEPT ![d] = "done"] /\ d \in Caller
  BY DEF IInv, Typed, TypeOK, Publish, Goto, Caller
<1>2. got' = got /\ path' = path /\ files' = files /\ pc[d] = "publish"
  BY DEF Publish
<1>3. \A e \in Delivery : pc'[e] \in {"publish", "done"} <=> pc[e] \in {"publish", "done"}
  BY <1>1, <1>2 DEF Caller
<1>4. \A e \in Delivery : pc'[e] \in {"write", "close"} <=> pc[e] \in {"write", "close"}
  BY <1>1, <1>2 DEF Caller
<1>5. [q \in Closed |-> files[q]]' = [q \in Closed |-> files[q]]
  BY <1>2, <1>4, SameFolder DEF Written
<1>6. published' = published \/ published' = published \union {d}
  BY DEF Publish
<1> QED
  BY <1>2, <1>3, <1>5, <1>6 DEF Folder!Announce, Folder!folderVars

(* A deleted file is one nobody is writing.                                *)
LEMMA DeletionRemoves ==
  ASSUME IInv, NEW p \in DOMAIN files, DeleteMessage(p)
  PROVE  \E q \in Path : Folder!Remove(q)
<1>0. p \in Path
  BY DEF IInv, Typed, TypeOK
<1>1. /\ pc' = pc /\ path' = path /\ published' = published /\ got' = got
      /\ files' = [q \in DOMAIN files \ {p} |-> files[q]]
      /\ p \in DOMAIN files /\ ~Written(p)
  BY DEF DeleteMessage, Held
<1>2. \A q : Written(q)' <=> Written(q)
  BY <1>1 DEF Written
<1>3. p \in Closed /\ Closed' = Closed \ {p}
  BY <1>1, <1>2 DEF Closed
<1>4. [q \in Closed |-> files[q]]' = [q \in Closed \ {p} |-> [x \in Closed |-> files[x]][q]]
  BY <1>1, <1>3 DEF Closed
<1>5. PICK q \in Path : q = p
  BY <1>0
<1>6. Folder!Remove(q)
  BY <1>1, <1>3, <1>4, <1>5 DEF Folder!Remove
<1> QED
  BY <1>6

(* A reader returns what the folder holds when it reads, and its other     *)
(* steps are none of the folder.                                           *)
LEMMA LoadReads ==
  ASSUME IInv, NEW r \in Reader, Load(r)
  PROVE  (\E p \in Path : Folder!Read(r, p)) \/ UNCHANGED Folder!folderVars
<1>1. r \notin Delivery /\ files' = files /\ published' = published
  BY StoreAssumption DEF Load, Attempts, GetMessage, TryRead, TryReadFails, TryReadThrows, ReadFile
<1>2. \A e \in Delivery : pc'[e] = pc[e] /\ path'[e] = path[e]
  BY <1>1 DEF IInv, Typed, TypeOK, Load, Attempts, GetMessage, TryRead, TryReadFails,
              TryReadThrows, ReadFile, Goto, Caller
<1>3. \A q : Written(q)' <=> Written(q)
  BY <1>2 DEF Written
<1>4. [q \in Closed |-> files[q]]' = [q \in Closed |-> files[q]]
  BY <1>1, <1>3, SameFolder
<1>5. CASE ReadFile(r)
  <2>1. path[r] \in Closed /\ path[r] \in Path
    BY <1>5 DEF ReadFile, IInv, Files, ReadersHold, Closed, Typed, TypeOK
  <2>2. Folder!Read(r, path[r])
    BY <1>1, <1>2, <1>4, <1>5, <2>1 DEF ReadFile, Folder!Read
  <2> QED
    BY <2>1, <2>2
<1>6. CASE GetMessage(r) \/ TryRead(r) \/ TryReadFails(r) \/ TryReadThrows(r)
  BY <1>1, <1>2, <1>4, <1>6 DEF GetMessage, TryRead, TryReadFails, TryReadThrows,
                                  Folder!folderVars
<1> QED
  BY <1>5, <1>6 DEF Load, Attempts

(* Every step of the store is one of the folder, or none.                  *)
LEMMA StepIsFolderStep ==
  ASSUME IInv, [Next]_vars
  PROVE  [Folder!Next]_Folder!folderVars
<1>1. ASSUME NEW d \in Delivery, Save(d)
      PROVE  Folder!Next \/ UNCHANGED Folder!folderVars
  <2>1. CASE GenerateFilePath(d) \/ CreateDirectoryFails(d) \/ CreateFails(d)
    BY <2>1, QuietDelivery
  <2>2. CASE Create(d)
    BY <2>2, CreateRemoves DEF Folder!Next
  <2>3. CASE WriteTo(d)
    BY <2>3, WriteHidden
  <2>4. CASE Close(d)
    BY <2>4, CloseSaves DEF Folder!Next
  <2>5. CASE Publish(d)
    BY <2>5, PublishAnnounces DEF Folder!Next
  <2> QED
    BY <1>1, <2>1, <2>2, <2>3, <2>4, <2>5 DEF Save
<1>2. ASSUME NEW p \in DOMAIN files, DeleteMessage(p)
      PROVE  Folder!Next
  BY <1>2, DeletionRemoves DEF Folder!Next
<1>3. ASSUME NEW r \in Reader, Load(r)
      PROVE  Folder!Next \/ UNCHANGED Folder!folderVars
  BY <1>3, LoadReads DEF Folder!Next
<1>4. ASSUME Tick \/ UNCHANGED vars
      PROVE  UNCHANGED Folder!folderVars
  BY <1>4 DEF Tick, vars, Closed, Written, Folder!folderVars
<1> QED
  BY <1>1, <1>2, <1>3, <1>4 DEF Next

(* Deliveries that collide, readers, deletions and failing calls of the    *)
(* file system implement a folder in which each message appears in one     *)
(* step, once, before it is announced.                                     *)
THEOREM StoreImplementsFolder == Spec => ImplementsFolder
<1>1. Init => Folder!Init
  BY StoreAssumption DEF Init, Caller, Closed, Folder!Init
<1>2. Spec => Folder!Spec
  BY <1>1, StepIsFolderStep, Inductive, PTL DEF Spec, Folder!Spec
<1> QED
  BY <1>2 DEF ImplementsFolder
=============================================================================
