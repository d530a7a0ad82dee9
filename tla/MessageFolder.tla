---------------------------- MODULE MessageFolder ---------------------------
(***************************************************************************)
(* What the store promises to those who look at its folder, with nothing   *)
(* said of how a file is written: a message is there at once or not at     *)
(* all, does not change while it is there, is put there once, is announced *)
(* only afterwards, and is read as it is at one moment.                    *)
(***************************************************************************)
EXTENDS FiniteSets

CONSTANTS
  Delivery,  \* calls of HandleReceived, one message each
  Reader,    \* calls of GetMessage
  Path,      \* the names files may have
  NULL

VARIABLES
  folder,    \* the message under each name in use
  saved,     \* deliveries whose message has been put there
  published, \* deliveries that have been announced
  got        \* what each reader has returned

folderVars == <<folder, saved, published, got>>

(* A message whose writing failed is kept as it is.                        *)
Message == [of : Delivery, text : {"whole", "broken"}]

Init ==
  /\ folder = <<>>
  /\ saved = {} /\ published = {}
  /\ got = [r \in Reader |-> NULL]

(* A message is deleted, or makes room for one with its name.              *)
Remove(p) ==
  /\ p \in DOMAIN folder
  /\ folder' = [q \in DOMAIN folder \ {p} |-> folder[q]]
  /\ UNCHANGED <<saved, published, got>>

Save(d, p, m) ==
  /\ d \notin saved /\ p \notin DOMAIN folder /\ m.of = d
  /\ folder' = [q \in DOMAIN folder \union {p} |-> IF q = p THEN m ELSE folder[q]]
  /\ saved' = saved \union {d}
  /\ UNCHANGED <<published, got>>

Announce(d) ==
  /\ d \in saved
  /\ published' = published \union {d}
  /\ UNCHANGED <<folder, saved, got>>

Read(r, p) ==
  /\ p \in DOMAIN folder
  /\ got' = [got EXCEPT ![r] = folder[p]]
  /\ UNCHANGED <<folder, saved, published>>

Next ==
  \/ \E p \in Path : Remove(p)
  \/ \E d \in Delivery, p \in Path, m \in Message : Save(d, p, m)
  \/ \E d \in Delivery : Announce(d)
  \/ \E r \in Reader, p \in Path : Read(r, p)

Spec == Init /\ [][Next]_folderVars
=============================================================================
