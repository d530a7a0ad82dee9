---------------------------- MODULE MessageStore ----------------------------
(***************************************************************************)
(* The folder of .eml files of Papercut.Message: deliveries that save      *)
(* their messages concurrently under names made of the recipient, the      *)
(* subject and the time, readers that load a file, and deletions.          *)
(*                                                                         *)
(* The deliveries may belong to one service or to several that share the   *)
(* folder.  A path stands for the whole of its name; the text of a message *)
(* is known by its delivery and by how much of it is in the file.          *)
(***************************************************************************)
EXTENDS Naturals, FiniteSets

CONSTANTS
  Delivery,    \* calls of HandleReceived, one message each
  Reader,      \* calls of GetMessage
  Base,        \* the folder and the name of each message, less the time
  Undatable,   \* paths DateFromName cannot read: a '^' too near their end
  Random,      \* what SmallRandomString may return
  Plain,       \* no random part
  NULL,
  Times,       \* the time stamps that occur, in milliseconds
  MaxCrashes,  \* suspiciousCrashesAfter: 10 in the code
  MaxRetries,  \* retries of GetMessage: 10 in the code
  DiskFails    \* creating, writing and opening may fail by themselves

ASSUME StoreAssumption ==
  /\ Delivery \intersect Reader = {}
  /\ MaxCrashes \in Nat \ {0} /\ MaxRetries \in Nat /\ DiskFails \in BOOLEAN

Names == {Base[d] : d \in Delivery}
Path == [base : Names, time : Times, random : Random \union {Plain}]

VARIABLES
  clock,      \* DateTime.Now: local time, which may be set back
  files,      \* the files there are: whose message, and how much of it
  pc,         \* where each delivery and each reader stands
  path,       \* the name it has generated, or reads
  crashes,    \* crashCount of a delivery, retryCount of a reader
  published,  \* deliveries announced on the message bus
  deleted,    \* deliveries whose file a user has deleted
  got         \* the content each reader has returned

vars == <<clock, files, pc, path, crashes, published, deleted, got>>

Caller == Delivery \union Reader

Init ==
  /\ clock \in Times
  /\ files = <<>>
  /\ pc = [c \in Caller |-> IF c \in Delivery THEN "name" ELSE "idle"]
  /\ path = [c \in Caller |-> NULL]
  /\ crashes = [c \in Caller |-> 0]
  /\ published = {} /\ deleted = {}
  /\ got = [r \in Reader |-> NULL]

Goto(c, l) == pc' = [pc EXCEPT ![c] = l]

-----------------------------------------------------------------------------
(* The file system                                                         *)

(* A file that is being written is open to nobody else; one that is read   *)
(* may be read by others.                                                  *)
Written(p) == \E d \in Delivery : pc[d] \in {"write", "close"} /\ path[d] = p
Held(p) == Written(p) \/ \E r \in Reader : pc[r] = "reading" /\ path[r] = p

Put(p, content) ==
  files' = [q \in DOMAIN files \union {p} |-> IF q = p THEN content ELSE files[q]]

-----------------------------------------------------------------------------
(* HandleReceived, SaveMessage and CreateUniqueFile                        *)

GenerateFilePath(d) ==
  /\ pc[d] = "name"
  /\ \E r \in IF crashes[d] = 0 THEN {Plain} ELSE Random :
       path' = [path EXCEPT ![d] = [base |-> Base[d], time |-> clock, random |-> r]]
  /\ Goto(d, "create")
  /\ UNCHANGED <<clock, files, crashes, published, deleted, got>>

(* CreateDirectory is called with every name and may throw: past the loop, *)
(* to SaveMessage, which logs it and has no path to return.                *)
CreateDirectoryFails(d) ==
  /\ pc[d] = "name" /\ DiskFails
  /\ Goto(d, "failed")
  /\ UNCHANGED <<clock, files, path, crashes, published, deleted, got>>

(* Mutant: the file is created with a handle others may share.             *)
CreateShared(d) ==
  /\ pc[d] = "create"
  /\ Put(path[d], [of |-> d, text |-> "partial"])
  /\ Goto(d, "write")
  /\ UNCHANGED <<clock, path, crashes, published, deleted, got>>

(* File.Create replaces a file that is there and that nobody has open.     *)
Create(d) ==
  /\ pc[d] = "create" /\ ~Held(path[d])
  /\ Put(path[d], [of |-> d, text |-> "partial"])
  /\ Goto(d, "write")
  /\ UNCHANGED <<clock, path, crashes, published, deleted, got>>

(* Mutant: the count begins again with every name.                         *)
CreateFailsRecounted(d) ==
  /\ pc[d] = "create" /\ (Held(path[d]) \/ DiskFails)
  /\ crashes' = [crashes EXCEPT ![d] = 1]
  /\ Goto(d, IF crashes'[d] >= MaxCrashes THEN "failed" ELSE "name")
  /\ path' = [path EXCEPT ![d] = NULL]
  /\ UNCHANGED <<clock, files, published, deleted, got>>

(* Mutant: the limit is tested before the failure is counted.              *)
CreateFailsOnceMore(d) ==
  /\ pc[d] = "create" /\ (Held(path[d]) \/ DiskFails)
  /\ crashes' = [crashes EXCEPT ![d] = @ + 1]
  /\ Goto(d, IF crashes[d] >= MaxCrashes THEN "failed" ELSE "name")
  /\ path' = [path EXCEPT ![d] = NULL]
  /\ UNCHANGED <<clock, files, published, deleted, got>>

(* After the last failure the exception is logged by SaveMessage, which    *)
(* then has no path to return.                                             *)
CreateFails(d) ==
  /\ pc[d] = "create" /\ (Held(path[d]) \/ DiskFails)
  /\ crashes' = [crashes EXCEPT ![d] = @ + 1]
  /\ Goto(d, IF crashes'[d] >= MaxCrashes THEN "failed" ELSE "name")
  /\ path' = [path EXCEPT ![d] = NULL]
  /\ UNCHANGED <<clock, files, published, deleted, got>>

(* Mutant: the message is announced while its file is still open.          *)
WriteToAnnounces(d) ==
  /\ pc[d] = "write"
  /\ \/ Put(path[d], [of |-> d, text |-> "whole"])
     \/ DiskFails /\ Put(path[d], [of |-> d, text |-> "broken"])
  /\ published' = published \union {d}
  /\ Goto(d, "close")
  /\ UNCHANGED <<clock, path, crashes, deleted, got>>

(* A write that fails is logged as well; the path is returned nonetheless. *)
WriteTo(d) ==
  /\ pc[d] = "write"
  /\ \/ Put(path[d], [of |-> d, text |-> "whole"])
     \/ DiskFails /\ Put(path[d], [of |-> d, text |-> "broken"])
  /\ Goto(d, "close")
  /\ UNCHANGED <<clock, path, crashes, published, deleted, got>>

Close(d) ==
  /\ pc[d] = "close"
  /\ Goto(d, "publish")
  /\ UNCHANGED <<clock, files, path, crashes, published, deleted, got>>

(* new MessageEntry(file) throws when it cannot read the date in the name. *)
Publish(d) ==
  /\ pc[d] = "publish"
  /\ published' = IF path[d] \in Undatable THEN published ELSE published \union {d}
  /\ Goto(d, "done")
  /\ UNCHANGED <<clock, files, path, crashes, deleted, got>>

Save(d) ==
  \/ GenerateFilePath(d) \/ CreateDirectoryFails(d) \/ Create(d) \/ CreateFails(d)
  \/ WriteTo(d) \/ Close(d) \/ Publish(d)

-----------------------------------------------------------------------------
(* GetMessage                                                              *)

(* The paths under which there is a file, or has been one.                 *)
Known == {path[d] : d \in {e \in Delivery : pc[e] \in {"write", "close", "publish", "done"}}}

(* A reader has its path from an entry that was listed or announced, whose *)
(* file may be gone since; then it throws at once.                         *)
GetMessage(r) ==
  /\ pc[r] = "idle"
  /\ \E p \in Known :
       /\ path' = [path EXCEPT ![r] = p]
       /\ Goto(r, IF p \in DOMAIN files THEN "try" ELSE "failed")
  /\ UNCHANGED <<clock, files, crashes, published, deleted, got>>

(* Mutant: the file is opened whether or not it is being written.          *)
TryReadWritten(r) ==
  /\ pc[r] = "try" /\ path[r] \in DOMAIN files
  /\ Goto(r, "reading")
  /\ UNCHANGED <<clock, files, path, crashes, published, deleted, got>>

TryRead(r) ==
  /\ pc[r] = "try" /\ path[r] \in DOMAIN files /\ ~Written(path[r])
  /\ Goto(r, "reading")
  /\ UNCHANGED <<clock, files, path, crashes, published, deleted, got>>

(* An IOException, of the opening or of the copying that follows it.       *)
TryReadFails(r) ==
  /\ \/ pc[r] = "try" /\ (path[r] \notin DOMAIN files \/ Written(path[r]) \/ DiskFails)
     \/ pc[r] = "reading" /\ DiskFails
  /\ crashes' = [crashes EXCEPT ![r] = @ + 1]
  /\ Goto(r, IF crashes'[r] > MaxRetries THEN "failed" ELSE "try")
  /\ UNCHANGED <<clock, files, path, published, deleted, got>>

(* Any other exception, as where access is denied, is not caught.          *)
TryReadThrows(r) ==
  /\ pc[r] = "try" /\ DiskFails
  /\ Goto(r, "failed")
  /\ UNCHANGED <<clock, files, path, crashes, published, deleted, got>>

ReadFile(r) ==
  /\ pc[r] = "reading"
  /\ got' = [got EXCEPT ![r] = files[path[r]]]
  /\ Goto(r, "done")
  /\ UNCHANGED <<clock, files, path, crashes, published, deleted>>

Attempts(r) == TryRead(r) \/ TryReadFails(r) \/ TryReadThrows(r) \/ ReadFile(r)

Load(r) == GetMessage(r) \/ Attempts(r)

-----------------------------------------------------------------------------
(* DeleteMessage of an entry that was announced or is listed: of any file. *)
(* It throws when the file is open.                                        *)
DeleteMessage(p) ==
  /\ p \in DOMAIN files /\ ~Held(p)
  /\ files' = [q \in DOMAIN files \ {p} |-> files[q]]
  /\ deleted' = deleted \union {files[p].of}
  /\ UNCHANGED <<clock, pc, path, crashes, published, got>>

(* Local time passes, and is set back in autumn.                           *)
Tick ==
  /\ clock' \in Times \ {clock}
  /\ UNCHANGED <<files, pc, path, crashes, published, deleted, got>>

Next ==
  \/ \E d \in Delivery : Save(d)
  \/ \E r \in Reader : Load(r)
  \/ \E p \in DOMAIN files : DeleteMessage(p)
  \/ Tick

Spec == Init /\ [][Next]_vars

(* Every call runs on a thread of the pool, and the threads run.           *)
FairSpec ==
  /\ Spec
  /\ \A d \in Delivery : WF_vars(Save(d))
  /\ \A r \in Reader : WF_vars(Attempts(r))

-----------------------------------------------------------------------------
(* Properties                                                              *)

Content == [of : Delivery, text : {"partial", "whole", "broken"}]

TypeOK ==
  /\ clock \in Times
  /\ DOMAIN files \subseteq Path /\ \A p \in DOMAIN files : files[p] \in Content
  /\ pc \in [Caller -> {"name", "create", "write", "close", "publish", "idle", "try",
                        "reading", "done", "failed"}]
  /\ path \in [Caller -> Path \union {NULL}]
  /\ crashes \in [Caller -> Nat]
  /\ \A d \in Delivery : crashes[d] <= MaxCrashes
  /\ \A r \in Reader : crashes[r] <= MaxRetries + 1
  /\ published \subseteq Delivery /\ deleted \subseteq Delivery
  /\ got \in [Reader -> Content \union {NULL}]

(* While a delivery writes, the file under its name holds its message:     *)
(* neither another delivery that has generated the same name nor a         *)
(* deletion takes it from under the open handle.                           *)
OwnsWhatItWrites ==
  \A d \in Delivery : pc[d] \in {"write", "close"} =>
    path[d] \in DOMAIN files /\ files[path[d]].of = d

(* GetMessage never returns a message that is still being written, be it   *)
(* a new file or one that replaces another.                                *)
ReadsNoPartialMessage ==
  \A r \in Reader : got[r] # NULL => got[r].text # "partial"

(* However names collide and creation fails, every call of HandleReceived  *)
(* comes to its end.                                                       *)
SavingEnds == \A d \in Delivery : <>(pc[d] \in {"done", "failed"})

(* What can be seen of the folder: the files nobody is writing.            *)
Closed == {p \in DOMAIN files : ~Written(p)}

Folder == INSTANCE MessageFolder
  WITH folder <- [p \in Closed |-> files[p]],
       saved  <- {d \in Delivery : pc[d] \in {"publish", "done"}}

(* Writing a file takes several steps, in which other deliveries, readers, *)
(* deletions and failures interleave; from outside a message is put into   *)
(* the folder in one step, once, and before it is announced.               *)
ImplementsFolder == Folder!Spec

(* A message that was announced and that nobody has deleted is there, as   *)
(* a whole, under the name it was announced by.                            *)
AnnouncedIsKept ==
  \A d \in published \ deleted :
    path[d] \in DOMAIN files /\ files[path[d]] = [of |-> d, text |-> "whole"]
=============================================================================
