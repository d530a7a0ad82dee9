-------------------------- MODULE SmtpConversation --------------------------
(***************************************************************************)
(* One SMTP connection of Papercut.Network, from the accepted socket to    *)
(* the call of the message handler: the asynchronous receive callback of   *)
(* Connection, the line splitter of StringCommandProtocol, the command     *)
(* dispatch of SmtpProtocol, every class of SmtpCommands, SmtpSession, and *)
(* the two other threads that may close the connection (the idle timer of  *)
(* ConnectionManager and Server.Stop).  The client is a lock-step SMTP     *)
(* client or one that sends ahead without waiting for replies.             *)
(*                                                                         *)
(* A line is a number of leading dots and a text; it crosses the socket as *)
(* two fragments, so that a receive of up to 64 bytes can split it.        *)
(***************************************************************************)
EXTENDS Naturals, Sequences

CONSTANTS
  Address,                 \* what may stand after FROM: and TO:
  NULL,                    \* the null of C#
  Commands,                \* the texts a client sends as commands
  BodyLines,               \* the lines of the messages clients compose
  LockStep,                \* the client awaits each reply before going on
  RequiresAuthentication,  \* SmtpSession.RequiresAuthentication
  MaxWire,                 \* bound: fragments a client sends ahead
  MaxBody,                 \* bound: lines of a message
  MaxRecipients,           \* bound: recipients of a message
  MemoryLines              \* lines a message list holds before memory ends

(* A command line with a parameter that is absent or of the wrong shape is *)
(* answered with 504; one with a colon but nothing after it makes the      *)
(* handler index an empty array.                                           *)
BadShape  == "badShape"
NoAddress == "noAddress"
Credential == {"good", "useless", "undecodable"}

Text ==
  [verb : {"HELO", "DATA", "RSET", "NOOP", "QUIT", "VRFY", "unknown", "blank"},
   arg : {NULL}]
  \union [verb : {"MAIL", "MAIL8BIT", "RCPT"}, arg : Address \union {BadShape, NoAddress}]
  \union [verb : {"AUTH"}, arg : Credential \union {"none", "plain", "login", "other"}]
  \union [verb : {"TOKEN"}, arg : Credential]

Blank   == [verb |-> "blank", arg |-> NULL]
Line    == [dots : Nat, text : Text]
EmptyLine == [dots |-> 0, text |-> Blank]
Dot     == [dots |-> 1, text |-> Blank]
Garbled == [dots |-> 0, text |-> [verb |-> "unknown", arg |-> NULL]]
Fragment == [line : Line, end : BOOLEAN]

ASSUME ConversationAssumption ==
  /\ NULL \notin Address /\ NULL \notin Line
  /\ Commands \subseteq Text
  /\ BodyLines \subseteq Line \ {Dot}
  /\ LockStep \in BOOLEAN /\ RequiresAuthentication \in BOOLEAN
  /\ MaxWire \in Nat /\ MaxBody \in Nat /\ MaxRecipients \in Nat /\ MemoryLines \in Nat

VARIABLES
  connected,  \* Connection.Connected, and the socket open with it
  begun,      \* SmtpProtocol.Begin has set Context
  registered, \* CreateConnection has entered it in the table
  sender,     \* SmtpSession.Sender is set
  mailFrom,   \* SmtpSession.MailFrom
  recipients, \* SmtpSession.Recipients
  username,   \* SmtpSession.Username is set
  encoding,   \* Connection.Encoding
  rx,         \* where the receive callback stands
  buffer,     \* StringCommandProtocol._stringBuffer
  reader,     \* what the StreamReader of ReadTextStream holds
  linesRead,  \* the lines the current ReadTextStream has returned
  stale,      \* LastActivity is more than twenty minutes old
  silent,     \* nothing was read from the socket for as long
  wire,       \* fragments on their way from the client
  replies,    \* reply codes on their way to the client
  peer,       \* the client's end of the socket
  cut,        \* the client shut it down in the middle of a line
  mode,       \* the client's place in the dialogue
  sent,       \* the command it sent last
  ownFrom,    \* its own view of the message under way: sender,
  ownTo,      \* recipients,
  ownEncoding,\* encoding,
  typed       \* and the lines it has sent

session    == <<sender, mailFrom, recipients, username>>
client     == <<mode, sent, ownFrom, ownTo, ownEncoding, typed>>
connVars   == <<connected, begun, registered, encoding>>
timeVars   == <<stale, silent>>
readVars   == <<reader, linesRead>>
netVars    == <<wire, peer, cut>>
ownView    == <<ownFrom, ownTo, ownEncoding>>
vars == <<connected, begun, registered, encoding, sender, mailFrom, recipients,
          username, rx, buffer, reader, linesRead, stale, silent, wire, replies,
          peer, cut, mode, sent, ownFrom, ownTo, ownEncoding, typed>>

Init ==
  /\ connected = TRUE
  /\ begun = FALSE /\ registered = FALSE
  /\ sender = FALSE /\ mailFrom = NULL /\ recipients = <<>> /\ username = FALSE
  /\ encoding = "UTF8"
  /\ rx = "armed"
  /\ buffer = <<>>
  /\ reader = <<>>
  /\ linesRead = <<>>
  /\ stale = FALSE
  /\ silent = FALSE
  /\ wire = <<>>
  /\ replies = <<>>
  /\ peer = "open" /\ cut = FALSE
  /\ mode = "waiting" /\ sent = Blank
  /\ ownFrom = NULL /\ ownTo = <<>> /\ ownEncoding = "UTF8" /\ typed = <<>>

-----------------------------------------------------------------------------
(* Lines in a sequence of fragments.                                       *)

HasLine(s) == \E i \in DOMAIN s : s[i].end

LineEnd(s) == CHOOSE i \in DOMAIN s : s[i].end /\ \A j \in 1..(i - 1) : ~s[j].end

(* The text between two line breaks: a line if its two fragments came      *)
(* through together, else the concatenation of unrelated pieces.           *)
FirstLine(s) ==
  IF LineEnd(s) = 2 /\ s[1].line = s[2].line THEN s[1].line ELSE Garbled

AfterLine(s) == SubSeq(s, LineEnd(s) + 1, Len(s))

Fragments(l) == <<[line |-> l, end |-> FALSE], [line |-> l, end |-> TRUE]>>

Stuffed(l) == IF l.dots > 0 THEN [l EXCEPT !.dots = @ + 1] ELSE l

(* Mutant: TrimStart('.') in place of Substring(1).                        *)
UnstuffedAll(l) == IF l.dots > 0 /\ l # Dot THEN [l EXCEPT !.dots = 0] ELSE l

Unstuffed(l) == IF l.dots > 0 /\ l # Dot THEN [l EXCEPT !.dots = @ - 1] ELSE l

(* What ReadLine returns at the end of the stream for bytes with no line   *)
(* break behind them: some beginning of the line they belong to.           *)
Beginnings(l) ==
  {l} \union {[dots |-> d, text |-> Blank] : d \in 1..l.dots}
      \union {[l EXCEPT !.text = Garbled.text] : t \in {l.text} \ {Blank}}

Rest(s) == IF Len(s) = 1 THEN Beginnings(s[1].line) ELSE {Garbled}

-----------------------------------------------------------------------------
(* Connection                                                              *)

(* Mutant: SendData without its test of Connected.                         *)
SendRegardless(code) == replies' = Append(replies, code)

(* SendData drops the bytes when the connection is closed.                 *)
Send(code) ==
  replies' = IF connected /\ peer = "open" THEN Append(replies, code) ELSE replies

(* The ctor thread, behind the BeginReceive it has already issued; behind  *)
(* the ctor, CreateConnection enters the connection in the table.  On a    *)
(* socket the client has reset the greeting throws out of the ctor: the    *)
(* connection stays as it is, and no table knows it.                       *)
Begin ==
  /\ ~begun
  /\ begun' = TRUE
  /\ \/ registered' = TRUE /\ Send(220)
     \/ connected /\ peer = "reset" /\ UNCHANGED <<registered, replies>>
  /\ UNCHANGED <<connected, encoding, session, rx, buffer, readVars, timeVars,
                 netVars, client>>

(* EndReceive returns at least one fragment.                               *)
Receive ==
  /\ rx = "armed" /\ connected
  /\ \E k \in 1..Len(wire) :
       /\ buffer' = buffer \o SubSeq(wire, 1, k)
       /\ wire' = SubSeq(wire, k + 1, Len(wire))
  /\ rx' = "lines"
  /\ stale' = FALSE /\ silent' = FALSE
  /\ UNCHANGED <<connVars, session, readVars, replies, peer, cut, client>>

(* No bytes: the client has shut its side down, and Close is called.       *)
ReceiveEnd ==
  /\ rx = "armed" /\ connected
  /\ peer = "closed" /\ wire = <<>>
  /\ connected' = FALSE
  /\ rx' = "done"
  /\ stale' = FALSE /\ silent' = FALSE
  /\ UNCHANGED <<begun, registered, encoding, session, buffer, readVars, netVars,
                 replies, client>>

(* EndReceive throws: the exception is logged and nothing is closed; or a  *)
(* failed send has told the socket before, and IsValidConnection closes.   *)
ReceiveFails ==
  /\ rx = "armed" /\ connected
  /\ peer = "reset"
  /\ \/ rx' = "deaf" /\ UNCHANGED connected
     \/ rx' = "done" /\ connected' = FALSE
  /\ UNCHANGED <<begun, registered, encoding, session, buffer, readVars, timeVars, netVars,
                 replies, client>>

(* The pending receive of a closed socket completes: IsValidConnection.    *)
ReceiveCancelled ==
  /\ rx = "armed" /\ ~connected
  /\ rx' = "done"
  /\ UNCHANGED <<connVars, session, buffer, readVars, timeVars, netVars, replies, client>>

(* ProcessIncomingBuffer returns; the next receive is issued, unless the   *)
(* socket is known to be disconnected.                                     *)
ReceiveAgain ==
  /\ rx = "lines" /\ ~HasLine(buffer)
  /\ \/ connected /\ rx' = "armed"
     \/ connected /\ peer = "reset" /\ rx' = "deaf"
     \/ ~connected /\ rx' = "done"
  /\ UNCHANGED <<connVars, session, buffer, readVars, timeVars, netVars, replies, client>>

(* A line arrives before Begin: ProcessRequest dereferences a null Context *)
NoContext ==
  /\ rx = "lines" /\ HasLine(buffer) /\ ~begun
  /\ FirstLine(buffer) # EmptyLine
  /\ buffer' = AfterLine(buffer)
  /\ rx' = "deaf"
  /\ UNCHANGED <<connVars, session, readVars, timeVars, netVars, replies, client>>

(* BeginSend or EndSend throws on a socket the client has reset, and the   *)
(* exception leaves the command: the callback ends, its session unread.    *)
SendFails ==
  /\ begun /\ connected /\ peer = "reset"
  /\ \/ /\ rx = "lines" /\ HasLine(buffer) /\ FirstLine(buffer) # EmptyLine
        /\ buffer' = AfterLine(buffer)
        /\ UNCHANGED readVars
     \/ /\ rx \in {"body", "plain", "user", "pass"} /\ HasLine(reader)
        /\ rx = "body" => FirstLine(reader) = Dot
        /\ reader' = <<>> /\ linesRead' = <<>>
        /\ UNCHANGED buffer
  /\ rx' = "deaf"
  /\ UNCHANGED <<connVars, session, timeVars, netVars, replies, client>>

-----------------------------------------------------------------------------
(* SmtpProtocol.ProcessRequest and the commands                            *)

Current == FirstLine(buffer)

(* The command whose line is next, with the 530 check of the base class    *)
(* passed.                                                                 *)
(* Mutant: DATA relies on the check of the MAIL before it.                 *)
NeedsUsernameButData == {"MAIL", "MAIL8BIT", "RCPT", "VRFY"}

NeedsUsername == {"MAIL", "MAIL8BIT", "RCPT", "DATA", "VRFY"}

Unauthenticated(verb) ==
  RequiresAuthentication /\ ~username /\ verb \in NeedsUsername

Dispatch(verbs) ==
  /\ rx = "lines" /\ HasLine(buffer) /\ begun
  /\ Current.dots = 0 /\ Current.text.verb \in verbs
  /\ buffer' = AfterLine(buffer)
  /\ UNCHANGED <<timeVars, netVars, client, reader, begun, registered>>

Execute(verbs) ==
  /\ Dispatch(verbs)
  /\ ~Unauthenticated(Current.text.verb)

AuthenticationRequired ==
  /\ Dispatch(NeedsUsername)
  /\ Unauthenticated(Current.text.verb)
  /\ Send(530)
  /\ UNCHANGED <<connected, encoding, session, rx, linesRead>>

BlankLine ==
  /\ rx = "lines" /\ HasLine(buffer)
  /\ Current = EmptyLine
  /\ buffer' = AfterLine(buffer)
  /\ UNCHANGED <<connVars, session, rx, readVars, timeVars, netVars, replies, client>>

(* No command matches; a line that begins with a dot never does.           *)
Unrecognised ==
  /\ rx = "lines" /\ HasLine(buffer) /\ begun
  /\ Current.dots > 0 \/ Current.text.verb \in {"unknown", "TOKEN"}
  /\ buffer' = AfterLine(buffer)
  /\ Send(500)
  /\ UNCHANGED <<connVars, session, rx, readVars, timeVars, netVars, client>>

(* HELO and EHLO                                                           *)
Helo ==
  /\ Execute({"HELO"})
  /\ sender' = TRUE
  /\ Send(250)
  /\ UNCHANGED <<connected, encoding, mailFrom, recipients, username, rx, linesRead>>

(* Mutant: Reset drops the list itself.                                    *)
ResetToNull == mailFrom' = NULL /\ recipients' = NULL

(* SmtpSession.Reset                                                       *)
Reset ==
  /\ mailFrom' = NULL
  /\ recipients' = <<>>

(* MAIL, SEND, SOML and SAML.  The session is reset before the address is  *)
(* taken apart.                                                            *)
Mail ==
  /\ Execute({"MAIL", "MAIL8BIT"})
  /\ UNCHANGED <<connected, sender, username, linesRead>>
  /\ LET address == Current.text.arg
     IN \/ /\ address = BadShape
           /\ Send(504)
           /\ UNCHANGED <<encoding, mailFrom, recipients, rx>>
        \/ /\ address # BadShape /\ ~sender
           /\ Send(503)
           /\ UNCHANGED <<encoding, mailFrom, recipients, rx>>
        \/ /\ address = NoAddress /\ sender
           /\ Reset
           /\ rx' = "deaf"
           /\ UNCHANGED <<encoding, replies>>
        \/ /\ address \in Address /\ sender
           /\ mailFrom' = address
           /\ recipients' = <<>>
           /\ encoding' = IF Current.text.verb = "MAIL8BIT" THEN "UTF8" ELSE "ASCII"
           /\ Send(250)
           /\ UNCHANGED rx

Rcpt ==
  /\ Execute({"RCPT"})
  /\ UNCHANGED <<connected, encoding, sender, mailFrom, username, linesRead>>
  /\ LET address == Current.text.arg
         ordered == sender /\ mailFrom # NULL
     IN \/ /\ address = BadShape
           /\ Send(504)
           /\ UNCHANGED <<recipients, rx>>
        \/ /\ address # BadShape /\ ~ordered
           /\ Send(503)
           /\ UNCHANGED <<recipients, rx>>
        \/ /\ address = NoAddress /\ ordered
           /\ rx' = "deaf"
           /\ UNCHANGED <<recipients, replies>>
        \/ /\ address \in Address /\ ordered
           /\ recipients' = Append(recipients, address)
           /\ Send(250)
           /\ UNCHANGED rx

(* Mutant: DATA asks for a sender only.                                    *)
EnvelopeBegun == sender /\ mailFrom # NULL

EnvelopeComplete == sender /\ mailFrom # NULL /\ recipients # <<>>

(* A NetworkStream over a closed socket is an IOException: Close again.    *)
Data ==
  /\ Execute({"DATA"})
  /\ UNCHANGED <<encoding, session>>
  /\ \/ /\ ~EnvelopeComplete
        /\ Send(503)
        /\ UNCHANGED <<connected, rx, linesRead>>
     \/ /\ EnvelopeComplete /\ ~connected
        /\ UNCHANGED <<connected, rx, linesRead, replies>>
     \/ /\ EnvelopeComplete /\ connected
        /\ Send(354)
        /\ linesRead' = <<>>
        /\ rx' = "body"
        /\ UNCHANGED connected

Rset ==
  /\ Execute({"RSET"})
  /\ Reset
  /\ Send(250)
  /\ UNCHANGED <<connected, encoding, sender, username, rx, linesRead>>

(* NOOP answers 250; VRFY, EXPN, HELP and TURN answer 252 or 502.          *)
NoopOrNotImplemented ==
  /\ Execute({"NOOP", "VRFY"})
  /\ Send(IF Current.text.verb = "NOOP" THEN 250 ELSE 502)
  /\ UNCHANGED <<connected, encoding, session, rx, linesRead>>

(* The callback goes on with the lines that are already in the buffer.     *)
Quit ==
  /\ Execute({"QUIT"})
  /\ Send(221)
  /\ connected' = FALSE
  /\ UNCHANGED <<encoding, session, rx, linesRead>>

-----------------------------------------------------------------------------
(* AUTH                                                                    *)

(* Mutant: 535 is sent behind 235, for want of an else.                    *)
AuthenticateTwice(credential) ==
  /\ username' = (credential = "good")
  /\ replies' = IF credential = "good" THEN replies \o <<235, 535>>
                                       ELSE Append(replies, 535)
  /\ rx' = IF credential = "undecodable" THEN "deaf" ELSE "lines"

(* DecodeString throws on what is not base64; the finally clause of Run    *)
(* still answers 535 before the exception leaves the command.              *)
Authenticate(credential) ==
  /\ username' = (credential = "good")
  /\ Send(IF credential = "good" THEN 235 ELSE 535)
  /\ rx' = IF credential = "undecodable" THEN "deaf" ELSE "lines"

Auth ==
  /\ Execute({"AUTH"})
  /\ UNCHANGED <<connected, encoding, sender, mailFrom, recipients>>
  /\ LET arg == Current.text.arg
     IN \/ /\ arg \in {"none", "other"}
           /\ username' = FALSE
           /\ Send(IF arg = "none" THEN 501 ELSE 504)
           /\ UNCHANGED <<rx, linesRead>>
        \/ /\ arg \in Credential
           /\ Authenticate(arg)
           /\ UNCHANGED linesRead
        \/ /\ arg \in {"plain", "login"} /\ ~connected
           /\ username' = FALSE
           /\ rx' = "deaf"
           /\ UNCHANGED <<linesRead, replies>>
        \/ /\ arg \in {"plain", "login"} /\ connected
           /\ username' = FALSE
           /\ Send(334)
           /\ linesRead' = <<>>
           /\ rx' = IF arg = "plain" THEN "plain" ELSE "user"

(* What a line means as a token; a text of another kind may decode.        *)
Decoded(l) ==
  IF l.dots = 0 /\ l.text.verb = "TOKEN" THEN {l.text.arg} ELSE Credential

AuthPlainToken ==
  /\ rx = "plain" /\ HasLine(reader)
  /\ \E c \in Decoded(FirstLine(reader)) : Authenticate(c)
  /\ reader' = <<>> /\ linesRead' = <<>>
  /\ UNCHANGED <<connVars, sender, mailFrom, recipients, buffer, timeVars, netVars,
                 client>>

AuthLoginUser ==
  /\ rx = "user" /\ HasLine(reader)
  /\ linesRead' = <<FirstLine(reader)>>
  /\ reader' = AfterLine(reader)
  /\ Send(334)
  /\ rx' = "pass"
  /\ UNCHANGED <<connVars, session, buffer, timeVars, netVars, client>>

(* Any password that decodes will do.                                      *)
AuthLoginPassword ==
  /\ rx = "pass" /\ HasLine(reader)
  /\ \E user \in Decoded(linesRead[1]), password \in Decoded(FirstLine(reader)) :
       Authenticate(IF password = "undecodable" THEN password ELSE user)
  /\ reader' = <<>> /\ linesRead' = <<>>
  /\ UNCHANGED <<connVars, sender, mailFrom, recipients, buffer, timeVars, netVars,
                 client>>

(* The client has shut down, and what is left in the reader has no line    *)
(* break: ReadLine returns it.                                             *)
LineUnfinished ==
  /\ ~HasLine(reader) /\ reader # <<>> /\ connected
  /\ peer = "closed" /\ wire = <<>>

AuthUnfinished ==
  /\ LineUnfinished
  /\ \/ /\ rx = "plain"
        /\ \E l \in Rest(reader) : \E c \in Decoded(l) : Authenticate(c)
        /\ linesRead' = <<>>
     \/ /\ rx = "user"
        /\ \E l \in Rest(reader) : linesRead' = <<l>>
        /\ Send(334)
        /\ rx' = "pass"
        /\ UNCHANGED username
     \/ /\ rx = "pass"
        /\ \E l \in Rest(reader) :
           \E user \in Decoded(linesRead[1]), password \in Decoded(l) :
             Authenticate(IF password = "undecodable" THEN password ELSE user)
        /\ linesRead' = <<>>
  /\ reader' = <<>>
  /\ UNCHANGED <<connVars, sender, mailFrom, recipients, buffer, timeVars, netVars,
                 client>>

(* Behind the last line ReadLine is null: no token, or no password.  A     *)
(* read of a closed or reset socket throws out of the command.             *)
AuthReadFails ==
  /\ rx \in {"plain", "user", "pass"} /\ ~HasLine(reader)
  /\ \/ /\ connected /\ peer = "closed" /\ wire = <<>> /\ reader = <<>>
        /\ \E c \in Credential \ {"good"} : Authenticate(c)
     \/ /\ ~connected \/ peer = "reset"
        /\ Authenticate("undecodable")
  /\ reader' = <<>> /\ linesRead' = <<>>
  /\ UNCHANGED <<connVars, sender, mailFrom, recipients, buffer, timeVars, netVars,
                 client>>

-----------------------------------------------------------------------------
(* The body of DATA                                                        *)

(* The reader takes what has arrived, whatever line it belongs to.         *)
ReaderFill ==
  /\ rx \in {"body", "plain", "user", "pass"} /\ connected
  /\ ~HasLine(reader)
  /\ \E k \in 1..Len(wire) :
       /\ reader' = reader \o SubSeq(wire, 1, k)
       /\ wire' = SubSeq(wire, k + 1, Len(wire))
  /\ silent' = FALSE
  /\ UNCHANGED <<connVars, session, rx, buffer, linesRead, stale, replies, peer, cut,
                 client>>

BodyLine ==
  /\ rx = "body" /\ HasLine(reader)
  /\ FirstLine(reader) # Dot
  /\ linesRead' = Append(linesRead, Unstuffed(FirstLine(reader)))
  /\ reader' = AfterLine(reader)
  /\ UNCHANGED <<connVars, session, rx, buffer, timeVars, netVars, replies, client>>

(* 250 is sent, then the message is handed over; what the reader took      *)
(* beyond the final dot goes away with it.                                 *)
BodyEnd ==
  /\ rx = "body" /\ HasLine(reader)
  /\ FirstLine(reader) = Dot
  /\ reader' = <<>>
  /\ Send(250)
  /\ rx' = "handing"
  /\ UNCHANGED <<connVars, session, buffer, linesRead, timeVars, netVars, client>>

(* A line that has no line break because the client has shut down is a     *)
(* line like any other, and one cut off behind its first dot is the end.   *)
BodyUnfinished ==
  /\ rx = "body" /\ LineUnfinished
  /\ reader' = <<>>
  /\ \/ /\ Dot \in Rest(reader)
        /\ Send(250)
        /\ rx' = "handing"
        /\ UNCHANGED linesRead
     \/ /\ \E l \in Rest(reader) \ {Dot} :
             linesRead' = Append(linesRead, Unstuffed(l))
        /\ UNCHANGED <<rx, replies>>
  /\ UNCHANGED <<connVars, session, buffer, timeVars, netVars, client>>

(* Mutant: null ends the message as "." does.                              *)
BodyNullEnds ==
  /\ rx = "body" /\ reader = <<>> /\ connected
  /\ peer = "closed" /\ wire = <<>>
  /\ linesRead' = Append(linesRead, NULL)
  /\ rx' = "handing"
  /\ UNCHANGED <<connVars, session, buffer, reader, timeVars, netVars, replies, client>>

(* Behind the last line ReadLine returns null for ever, and null is not    *)
(* "."; the list grows until memory ends.                                  *)
BodyNull ==
  /\ rx = "body" /\ reader = <<>> /\ connected
  /\ peer = "closed" /\ wire = <<>>
  /\ \/ /\ Len(linesRead) < MemoryLines
        /\ linesRead' = Append(linesRead, NULL)
        /\ UNCHANGED rx
     \/ /\ Len(linesRead) >= MemoryLines
        /\ rx' = "deaf"
        /\ linesRead' = <<>>
  /\ UNCHANGED <<connVars, session, buffer, reader, timeVars, netVars, replies, client>>

(* The socket was closed by another thread, or reset: Close and return.    *)
BodyReadFails ==
  /\ rx = "body" /\ ~HasLine(reader)
  /\ ~connected \/ peer = "reset"
  /\ connected' = FALSE
  /\ reader' = <<>> /\ linesRead' = <<>>
  /\ rx' = "lines"
  /\ UNCHANGED <<begun, registered, encoding, session, buffer, timeVars, netVars, replies, client>>

(* HandleReceived: parsing the message or an envelope address may throw;   *)
(* an IOException is taken for one of the connection, which is closed.     *)
HandleReceived ==
  /\ rx = "handing"
  /\ linesRead' = <<>>
  /\ \/ rx' \in {"lines", "deaf"} /\ UNCHANGED connected
     \/ rx' = "lines" /\ connected' = FALSE
  /\ UNCHANGED <<begun, registered, encoding, session, buffer, reader, timeVars,
                 netVars, replies, client>>

-----------------------------------------------------------------------------
(* The other threads of the server                                         *)

TimePasses ==
  /\ ~(stale /\ silent)
  /\ stale' = TRUE /\ silent' = TRUE
  /\ UNCHANGED <<connVars, session, rx, buffer, readVars, netVars, replies, client>>

(* Mutants: the timer spares connections whose callback has thrown; it     *)
(* closes only those that wait for a command.                              *)
IdleCloseUnlessDeaf ==
  /\ registered /\ connected /\ stale /\ rx # "deaf"
  /\ connected' = FALSE
  /\ UNCHANGED <<begun, registered, encoding, session, rx, buffer, readVars, timeVars,
                 netVars, replies, client>>

IdleCloseArmed ==
  /\ registered /\ connected /\ stale /\ rx = "armed"
  /\ connected' = FALSE
  /\ UNCHANGED <<begun, registered, encoding, session, rx, buffer, readVars, timeVars,
                 netVars, replies, client>>

(* The cleanup timer of ConnectionManager goes through its table.          *)
IdleClose ==
  /\ registered /\ connected /\ stale
  /\ connected' = FALSE
  /\ UNCHANGED <<begun, registered, encoding, session, rx, buffer, readVars, timeVars,
                 netVars, replies, client>>

(* Server.Stop: ConnectionManager.CloseAll                                 *)
CloseAll ==
  /\ registered /\ connected
  /\ connected' = FALSE
  /\ UNCHANGED <<begun, registered, encoding, session, rx, buffer, readVars, timeVars,
                 netVars, replies, client>>

-----------------------------------------------------------------------------
(* The client                                                              *)

clientRest == <<connVars, session, rx, buffer, readVars, timeVars>>

Transmit(l) == wire' = IF connected THEN wire \o Fragments(l) ELSE wire

ClientCommand ==
  /\ LockStep /\ mode = "ready" /\ peer = "open"
  /\ \E t \in Commands :
       /\ t.verb = "RCPT" => Len(ownTo) < MaxRecipients
       /\ Transmit([dots |-> 0, text |-> t])
       /\ sent' = t
  /\ mode' = "waiting"
  /\ UNCHANGED <<clientRest, replies, peer, cut, ownView, typed>>

ClientBodyLine ==
  /\ LockStep /\ mode = "body" /\ peer = "open"
  /\ Len(typed) < MaxBody
  /\ \E l \in BodyLines :
       /\ Transmit(Stuffed(l))
       /\ typed' = Append(typed, l)
  /\ UNCHANGED <<clientRest, replies, peer, cut, mode, sent, ownView>>

ClientBodyEnd ==
  /\ LockStep /\ mode = "body" /\ peer = "open"
  /\ Transmit(Dot)
  /\ mode' = "waiting"
  /\ UNCHANGED <<clientRest, replies, peer, cut, sent, ownView, typed>>

ClientToken ==
  /\ LockStep /\ mode = "token" /\ peer = "open"
  /\ \E c \in Credential :
       Transmit([dots |-> 0, text |-> [verb |-> "TOKEN", arg |-> c]])
  /\ mode' = "waiting"
  /\ UNCHANGED <<clientRest, replies, peer, cut, sent, ownView, typed>>

(* What the client concludes from the reply to the command it sent last.   *)
Prompted(code) ==
  /\ code \in {334, 354}
  /\ mode' = IF code = 354 THEN "body" ELSE "token"
  /\ typed' = IF code = 354 THEN <<>> ELSE typed
  /\ UNCHANGED <<sent, ownView>>

Answered(code) ==
  /\ code \notin {334, 354}
  /\ mode' = "ready"
  /\ \/ /\ code = 250 /\ sent.verb \in {"MAIL", "MAIL8BIT"}
        /\ ownFrom' = sent.arg
        /\ ownTo' = <<>>
        /\ ownEncoding' = IF sent.verb = "MAIL8BIT" THEN "UTF8" ELSE "ASCII"
     \/ /\ code = 250 /\ sent.verb = "RCPT"
        /\ ownTo' = Append(ownTo, sent.arg)
        /\ UNCHANGED <<ownFrom, ownEncoding>>
     \/ /\ code = 250 /\ sent.verb = "RSET"
        /\ ownFrom' = NULL
        /\ ownTo' = <<>>
        /\ UNCHANGED ownEncoding
     \/ /\ code # 250 \/ sent.verb \notin {"MAIL", "MAIL8BIT", "RCPT", "RSET"}
        /\ UNCHANGED ownView
  /\ UNCHANGED <<sent, typed>>

ClientRead ==
  /\ replies # <<>>
  /\ replies' = Tail(replies)
  /\ \/ LockStep /\ Prompted(Head(replies))
     \/ LockStep /\ Answered(Head(replies))
     \/ ~LockStep /\ UNCHANGED client
  /\ UNCHANGED <<clientRest, netVars>>

(* A client that sends commands and bodies without awaiting any reply.     *)
ClientSendsAhead ==
  /\ ~LockStep /\ peer = "open"
  /\ Len(wire) + Len(buffer) + Len(reader) + Len(linesRead) + Len(replies) < MaxWire
  /\ \E l \in [dots : {0}, text : Commands] \union BodyLines \union {Dot} :
       /\ l.text.verb = "RCPT" => Len(recipients) < MaxRecipients
       /\ Transmit(l)
  /\ UNCHANGED <<clientRest, replies, peer, cut, client>>

(* The client closes its socket, perhaps in the middle of a line, or its   *)
(* host answers with a reset.                                              *)
ClientCloses ==
  /\ peer = "open"
  /\ peer' = "closed"
  /\ \/ UNCHANGED <<wire, cut>>
     \/ /\ wire # <<>>
        /\ wire' = SubSeq(wire, 1, Len(wire) - 1)
        /\ cut' = TRUE
  /\ UNCHANGED <<clientRest, replies, client>>

ClientResets ==
  /\ peer # "reset"
  /\ peer' = "reset"
  /\ wire' = <<>>
  /\ UNCHANGED <<clientRest, replies, cut, client>>

-----------------------------------------------------------------------------
Callback ==
  \/ Receive \/ ReceiveEnd \/ ReceiveFails \/ ReceiveCancelled \/ ReceiveAgain
  \/ NoContext \/ SendFails
  \/ AuthenticationRequired \/ BlankLine \/ Unrecognised
  \/ Helo \/ Mail \/ Rcpt \/ Data \/ Rset \/ NoopOrNotImplemented \/ Quit
  \/ Auth \/ AuthPlainToken \/ AuthLoginUser \/ AuthLoginPassword
  \/ AuthUnfinished \/ AuthReadFails
  \/ ReaderFill \/ BodyLine \/ BodyEnd \/ BodyUnfinished \/ BodyNull \/ BodyReadFails \/ HandleReceived

Client ==
  \/ ClientCommand \/ ClientBodyLine \/ ClientBodyEnd \/ ClientToken
  \/ ClientRead \/ ClientSendsAhead \/ ClientCloses \/ ClientResets

Next == Begin \/ Callback \/ TimePasses \/ IdleClose \/ CloseAll \/ Client

Spec == Init /\ [][Next]_vars

(* The thread pool runs the constructor and the callback to their next     *)
(* wait, the clock runs, the timer fires every five minutes, and a reply   *)
(* that has arrived is read.                                               *)
Fairness ==
  /\ WF_vars(Begin) /\ WF_vars(Callback)
  /\ WF_vars(TimePasses) /\ WF_vars(IdleClose)
  /\ WF_vars(ClientRead)

FairSpec == Spec /\ Fairness

-----------------------------------------------------------------------------
(* Properties                                                              *)

Arguments == Address \union {NULL, BadShape, NoAddress}

ConnectionTyped ==
  /\ connected \in BOOLEAN /\ begun \in BOOLEAN /\ registered \in BOOLEAN
  /\ encoding \in {"UTF8", "ASCII"}
  /\ rx \in {"armed", "lines", "body", "plain", "user", "pass", "handing",
             "deaf", "done"}
  /\ stale \in BOOLEAN /\ silent \in BOOLEAN
  /\ peer \in {"open", "closed", "reset"} /\ cut \in BOOLEAN

SessionTyped ==
  /\ sender \in BOOLEAN /\ username \in BOOLEAN
  /\ mailFrom \in Address \union {NULL} /\ recipients \in Seq(Address)

QueuesTyped ==
  /\ wire \in Seq(Fragment) /\ buffer \in Seq(Fragment) /\ reader \in Seq(Fragment)
  /\ linesRead \in Seq(Line \union {NULL})
  /\ replies \in Seq(Nat)

ClientTyped ==
  /\ mode \in {"waiting", "ready", "body", "token"} /\ sent \in Text
  /\ ownFrom \in Arguments /\ ownTo \in Seq(Arguments)
  /\ ownEncoding \in {"UTF8", "ASCII"} /\ typed \in Seq(Line)

(* The state has the shape the declarations of the code give it.           *)
TypeOK == ConnectionTyped /\ SessionTyped /\ QueuesTyped /\ ClientTyped

(* Whatever a client sends, and in whatever order, an envelope is built in *)
(* order: recipients stand only under an open MAIL, a MAIL only after      *)
(* HELO, and while a message is read and handed over it has all three.     *)
(* The commands check it with 503; MAIL and RSET keep it through Reset.    *)
EnvelopeInOrder ==
  /\ mailFrom # NULL => sender
  /\ recipients # <<>> => mailFrom # NULL
  /\ rx \in {"body", "handing"} => recipients # <<>>

(* With a server that requires authentication, a message is read and       *)
(* handed over only in an authenticated session.                           *)
AuthenticatedHandover ==
  RequiresAuthentication /\ rx \in {"body", "handing"} => username

(* The message HandleReceived gets is the one a lock-step client composed: *)
(* the sender and the recipients it was given 250 for since its last MAIL, *)
(* in order, the encoding of that MAIL, and the very lines it typed up to  *)
(* the dot that ended them, with the stuffing of dots undone and no line   *)
(* lost between the two readers of the socket.  Of a client that shut down *)
(* in the middle of a line one line may be missing, the last, and only     *)
(* where it begins with a dot: no more than the dot of it arrived, and     *)
(* ReadLine takes that for the end.                                        *)
HandedAsComposed ==
  LockStep /\ rx = "handing" =>
    /\ mailFrom = ownFrom
    /\ recipients = ownTo
    /\ encoding = ownEncoding
    /\ \/ linesRead = typed /\ mode # "body"
       \/ /\ cut /\ typed # <<>> /\ typed[Len(typed)].dots > 0
          /\ linesRead = SubSeq(typed, 1, Len(typed) - 1)

(* A lock-step client has at most one reply outstanding, and only while it *)
(* waits for one: no command answers twice, none answers out of turn.      *)
OneReplyPerCommand ==
  LockStep => /\ Len(replies) <= 1
              /\ replies # <<>> => mode = "waiting"

(* The null that ReadLine returns for ever behind the end of the stream    *)
(* does not end the loop of DATA: a message that is handed over ends with  *)
(* a dot that was read, or with the dot a cut-off line begins with.        *)
NullEndsNoMessage ==
  rx = "handing" => \A i \in DOMAIN linesRead : linesRead[i] # NULL

(* After Close - QUIT, the idle timer, Server.Stop - the lines that are    *)
(* still buffered are worked off, but nothing is answered, no message is   *)
(* begun, and the connection does not come back.                           *)
ClosedForGood ==
  [][~connected => /\ ~connected'
                   /\ Len(replies') <= Len(replies)
                   /\ rx' = "body" => rx = "body"]_vars

(* "If they have been idle for too long, disconnect them": the cleanup     *)
(* timer closes only a connection nothing was read from for that long.     *)
DisconnectsOnlyIdle ==
  [][IdleClose => silent]_vars

(* The greeting threw out of the constructor of the connection.            *)
Unregistered == begun /\ ~registered

(* A lock-step client that waits for a reply gets one or is disconnected,  *)
(* whatever it sent, also when a command ends the callback by throwing;    *)
(* one that reset the connection before the greeting waits for nothing.    *)
WaitingClientIsReleased ==
  mode = "waiting" ~> (mode # "waiting" \/ ~connected \/ Unregistered)

(* A connection whose client has gone is closed in the end, in every state *)
(* of the receive callback, the endless loop of DATA included - except one *)
(* whose constructor the greeting threw out of: no table knows it, and its *)
(* callback may end without closing it.                                    *)
AbandonedIsClosed ==
  peer # "open" ~> (~connected \/ Unregistered)
=============================================================================
