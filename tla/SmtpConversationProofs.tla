----------------------- MODULE SmtpConversationProofs -----------------------
(* Proofs about SmtpConversation, for every address, command and line set, *)
(* every bound, lock-step or not, with authentication required or not.     *)
EXTENDS SmtpConversation, SequenceTheorems, WellFoundedInduction, TLAPS

-----------------------------------------------------------------------------
(* Lines in a sequence of fragments                                        *)

(* A nonempty set of numbers has a least element.                          *)
LEMMA LeastNat ==
  ASSUME NEW T, T \subseteq Nat, T # {}
  PROVE  \E x \in T : \A y \in T : x <= y
  <1> DEFINE R == {p \in Nat \X Nat : p[1] < p[2]}
  <1>1. IsWellFoundedOn(R, Nat)
    BY NatLessThanWellFounded DEF OpToRel
  <1>2. \E x \in T : \A y \in T : <<y, x>> \notin R
    <2> HIDE DEF R
    <2> QED BY <1>1, WFMin
  <1>3. \A x, y \in Nat : <<y, x>> \notin R => x <= y
    OBVIOUS
  <1> HIDE DEF R
  <1>4. QED BY <1>2, <1>3

(* LineEnd finds the first line break of a sequence that has one.          *)
LEMMA LineEndIsFirst ==
  ASSUME NEW s \in Seq(Fragment), HasLine(s)
  PROVE  /\ LineEnd(s) \in 1..Len(s)
         /\ s[LineEnd(s)].end
         /\ \A j \in 1..(LineEnd(s) - 1) : ~s[j].end
  <1> DEFINE T == {i \in 1..Len(s) : s[i].end}
  <1>1. T \subseteq Nat /\ T # {}
    BY DEF HasLine
  <1>2. PICK i \in T : \A j \in T : i <= j
    <2> HIDE DEF T
    <2> QED BY <1>1, LeastNat
  <1>3. i \in DOMAIN s /\ s[i].end /\ \A j \in 1..(i - 1) : ~s[j].end
    BY <1>2
  <1>4. QED BY <1>3 DEF LineEnd

(* What the splitter takes off a sequence of fragments is a line and a     *)
(* shorter sequence of fragments.                                          *)
LEMMA LineTypes ==
  ASSUME NEW s \in Seq(Fragment), HasLine(s)
  PROVE  /\ FirstLine(s) \in Line
         /\ AfterLine(s) \in Seq(Fragment)
  <1>1. LineEnd(s) \in 1..Len(s)
    BY LineEndIsFirst
  <1>2. Garbled \in Line
    BY DEF Garbled, Line, Text
  <1>3. ASSUME NEW i \in 1..Len(s) PROVE s[i].line \in Line
    <2>1. s[i] \in Fragment
      OBVIOUS
    <2>2. QED BY <2>1 DEF Fragment
  <1>4. FirstLine(s) \in Line
    BY <1>1, <1>2, <1>3 DEF FirstLine
  <1>5. AfterLine(s) \in Seq(Fragment)
    BY <1>1 DEF AfterLine
  <1>6. QED BY <1>4, <1>5

(* What the reader returns of a line that was cut off is a line.           *)
LEMMA RestTypes ==
  ASSUME NEW s \in Seq(Fragment)
  PROVE  Rest(s) \subseteq Line
  <1>1. ASSUME NEW l \in Line PROVE Beginnings(l) \subseteq Line
    BY DEF Beginnings, Line, Blank, Garbled, Text
  <1>2. Garbled \in Line
    BY DEF Garbled, Line, Text
  <1>3. ASSUME Len(s) = 1 PROVE s[1].line \in Line
    <2>1. s[1] \in Fragment
      BY <1>3
    <2>2. QED BY <2>1 DEF Fragment
  <1>4. QED BY <1>1, <1>2, <1>3 DEF Rest

(* Dot-stuffing and its inverse stay among the lines.                      *)
LEMMA StuffingTypes ==
  ASSUME NEW l \in Line
  PROVE  Stuffed(l) \in Line /\ Unstuffed(l) \in Line
  BY DEF Stuffed, Unstuffed, Line

(* What a line crosses the socket as.                                      *)
LEMMA FragmentsType ==
  ASSUME NEW l \in Line
  PROVE  Fragments(l) \in Seq(Fragment)
  BY DEF Fragments, Fragment

(* The lines the code and the client name are lines.                       *)
LEMMA LineConstants ==
  /\ Dot \in Line
  /\ \A t \in Text : [dots |-> 0, text |-> t] \in Line
  /\ \A c \in Credential : [dots |-> 0, text |-> [verb |-> "TOKEN", arg |-> c]] \in Line
  /\ BodyLines \subseteq Line
  BY ConversationAssumption DEF Dot, Line, Text, Blank

(* Splitting a sequence of fragments anywhere leaves two of them.          *)
LEMMA SplitTypes ==
  ASSUME NEW s \in Seq(Fragment), NEW k \in 1..Len(s)
  PROVE  /\ SubSeq(s, 1, k) \in Seq(Fragment)
         /\ SubSeq(s, k + 1, Len(s)) \in Seq(Fragment)
  OBVIOUS

-----------------------------------------------------------------------------
(* Type correctness                                                        *)

(* A reply, sent or dropped, leaves a sequence of codes.                   *)
LEMMA SendType ==
  ASSUME NEW code \in Nat, replies \in Seq(Nat), Send(code)
  PROVE  replies' \in Seq(Nat)
  BY DEF Send

(* The empty sequence, in the types it is used in.                         *)
LEMMA Empty ==
  /\ <<>> \in Seq(Fragment)
  /\ <<>> \in Seq(Line \union {NULL})
  /\ <<>> \in Seq(Line)
  /\ <<>> \in Seq(Address)
  /\ <<>> \in Seq(Arguments)
  OBVIOUS

(* Every command takes one line off the buffer, and off that alone.        *)
LEMMA DispatchType ==
  ASSUME QueuesTyped, NEW verbs, Dispatch(verbs)
  PROVE  /\ buffer' \in Seq(Fragment)
         /\ Current \in Line
         /\ UNCHANGED <<reader, wire>>
  <1>1. buffer \in Seq(Fragment) /\ HasLine(buffer)
    BY DEF QueuesTyped, Dispatch
  <1>2. QED
    BY <1>1, LineTypes DEF Dispatch, Current, netVars

(* An accepted connection begins in a well-typed state.                    *)
LEMMA InitTyped == Init => TypeOK
  <1> SUFFICES ASSUME Init PROVE TypeOK
    OBVIOUS
  <1>1. ConnectionTyped
    BY DEF Init, ConnectionTyped
  <1>2. SessionTyped
    <2>1. recipients \in Seq(Address)
      BY Empty DEF Init
    <2>2. QED BY <2>1 DEF Init, SessionTyped
  <1>3. QueuesTyped
    BY DEF Init, QueuesTyped
  <1>4. ClientTyped
    <2>1. Blank \in Text /\ NULL \in Arguments
      BY DEF Blank, Text, Arguments
    <2>2. QED BY <2>1 DEF Init, ClientTyped
  <1>5. QED
    BY <1>1, <1>2, <1>3, <1>4 DEF TypeOK

(* The steps of the server outside the receive callback.                   *)
Others == Begin \/ TimePasses \/ IdleClose \/ CloseAll

(* No step of the server touches the client, none of the client the server.*)
LEMMA ServerLeavesClient ==
  Callback \/ Others => UNCHANGED client
  BY DEF Callback, Others, Begin, Receive, ReceiveEnd, ReceiveFails, ReceiveCancelled,
    ReceiveAgain, NoContext, SendFails, AuthenticationRequired, BlankLine, Unrecognised,
    Helo, Mail, Rcpt, Data, EnvelopeComplete, Rset, NoopOrNotImplemented, Quit, Auth, AuthPlainToken,
    AuthLoginUser, AuthLoginPassword, AuthUnfinished, AuthReadFails, ReaderFill, BodyLine, BodyEnd,
    BodyUnfinished, BodyNull, BodyReadFails, HandleReceived, TimePasses, IdleClose, CloseAll, Execute,
    Dispatch

LEMMA ClientLeavesServer ==
  Client => UNCHANGED clientRest
  BY DEF Client, ClientCommand, ClientBodyLine, ClientBodyEnd, ClientToken, ClientRead,
    ClientSendsAhead, ClientCloses, ClientResets

-----------------------------------------------------------------------------
(* The connection                                                          *)

(* The socket, the callback and the clocks, action by action.              *)
LEMMA ConnectionStep ==
  ASSUME ConnectionTyped, Next
  PROVE  ConnectionTyped'
  <1> USE DEF ConnectionTyped, connVars, timeVars, netVars
  <1>1. CASE Others
    <2>1. CASE Begin
      BY <2>1 DEF Begin
    <2>2. CASE TimePasses
      BY <2>2 DEF TimePasses
    <2>3. CASE IdleClose
      BY <2>3 DEF IdleClose
    <2>4. CASE CloseAll
      BY <2>4 DEF CloseAll
    <2>5. QED BY <1>1, <2>1, <2>2, <2>3, <2>4 DEF Others
  <1>2. CASE \/ Receive \/ ReceiveEnd \/ ReceiveFails \/ ReceiveCancelled
             \/ ReceiveAgain \/ NoContext \/ SendFails \/ BlankLine \/ Unrecognised
    <2>1. CASE Receive
      BY <2>1 DEF Receive
    <2>2. CASE ReceiveEnd
      BY <2>2 DEF ReceiveEnd
    <2>3. CASE ReceiveFails
      BY <2>3 DEF ReceiveFails
    <2>4. CASE ReceiveCancelled
      BY <2>4 DEF ReceiveCancelled
    <2>5. CASE ReceiveAgain
      BY <2>5 DEF ReceiveAgain
    <2>6. CASE NoContext
      BY <2>6 DEF NoContext
    <2>7. CASE SendFails
      BY <2>7 DEF SendFails
    <2>8. CASE BlankLine
      BY <2>8 DEF BlankLine
    <2>9. CASE Unrecognised
      BY <2>9 DEF Unrecognised
    <2>10. QED BY <1>2, <2>1, <2>2, <2>3, <2>4, <2>5,
      <2>6, <2>7, <2>8, <2>9
  <1>3. CASE AuthenticationRequired \/ Helo \/ Rset \/ NoopOrNotImplemented \/ Quit
    <2>1. CASE AuthenticationRequired
      BY <2>1 DEF AuthenticationRequired, Execute, Dispatch
    <2>2. CASE Helo
      BY <2>2 DEF Helo, Execute, Dispatch
    <2>3. CASE Rset
      BY <2>3 DEF Rset, Execute, Dispatch
    <2>4. CASE NoopOrNotImplemented
      BY <2>4 DEF NoopOrNotImplemented, Execute, Dispatch
    <2>5. CASE Quit
      BY <2>5 DEF Quit, Execute, Dispatch
    <2>6. QED BY <1>3, <2>1, <2>2, <2>3, <2>4, <2>5
  <1>4. CASE Mail
    BY <1>4 DEF Mail, Execute, Dispatch
  <1>5. CASE Rcpt
    BY <1>5 DEF Rcpt, Execute, Dispatch
  <1>6. CASE Data
    BY <1>6 DEF Data, EnvelopeComplete, Execute, Dispatch
  <1>7. CASE Auth
    BY <1>7 DEF Auth, Authenticate, Execute, Dispatch
  <1>8. CASE AuthPlainToken \/ AuthLoginUser \/ AuthLoginPassword \/ AuthUnfinished \/ AuthReadFails
    BY <1>8 DEF AuthPlainToken, AuthLoginUser, AuthLoginPassword, AuthUnfinished, AuthReadFails,
      Authenticate
  <1>9. CASE \/ ReaderFill \/ BodyLine \/ BodyEnd \/ BodyUnfinished \/ BodyNull \/ BodyReadFails
             \/ HandleReceived
    <2>1. CASE ReaderFill
      BY <2>1 DEF ReaderFill
    <2>2. CASE BodyLine
      BY <2>2 DEF BodyLine
    <2>3. CASE BodyEnd
      BY <2>3 DEF BodyEnd
    <2>4. CASE BodyNull \/ BodyUnfinished
      BY <2>4 DEF BodyNull, BodyUnfinished
    <2>5. CASE BodyReadFails
      BY <2>5 DEF BodyReadFails
    <2>6. CASE HandleReceived
      BY <2>6 DEF HandleReceived
    <2>7. QED BY <1>9, <2>1, <2>2, <2>3, <2>4, <2>5, <2>6
  <1>10. CASE Client
    <2>1. UNCHANGED <<connected, begun, registered, encoding, rx, stale, silent>>
      BY <1>10, ClientLeavesServer DEF clientRest
    <2>2. peer' \in {"open", "closed", "reset"} /\ cut' \in BOOLEAN
      BY <1>10 DEF Client, ClientCommand, ClientBodyLine, ClientBodyEnd, ClientToken,
        ClientRead, ClientSendsAhead, ClientCloses, ClientResets
    <2>3. QED BY <2>1, <2>2
  <1>11. QED
    BY <1>1, <1>2, <1>3, <1>4, <1>5, <1>6, <1>7, <1>8, <1>9, <1>10
    DEF Next, Callback, Others

-----------------------------------------------------------------------------
(* The session                                                             *)

(* Only five commands, and the tokens AUTH reads, write to the session.    *)
Sessionless ==
  \/ Others \/ Client \/ Receive \/ ReceiveEnd \/ ReceiveFails \/ ReceiveCancelled
  \/ ReceiveAgain \/ NoContext \/ SendFails \/ BlankLine \/ Unrecognised
  \/ AuthenticationRequired \/ Data \/ NoopOrNotImplemented \/ Quit \/ AuthLoginUser
  \/ ReaderFill \/ BodyLine \/ BodyEnd \/ BodyUnfinished \/ BodyNull \/ BodyReadFails \/ HandleReceived

(* ... and every other step leaves it alone.                               *)
LEMMA SessionlessSteps == Sessionless => UNCHANGED session
  BY ClientLeavesServer DEF Sessionless, Others, Begin, TimePasses, IdleClose, CloseAll,
    Receive, ReceiveEnd, ReceiveFails, ReceiveCancelled, ReceiveAgain, NoContext,
    SendFails, BlankLine, Unrecognised, AuthenticationRequired, Data, EnvelopeComplete,
    NoopOrNotImplemented, Quit, AuthLoginUser, ReaderFill, BodyLine, BodyEnd, BodyUnfinished, BodyNull,
    BodyReadFails, HandleReceived, clientRest

(* What the five commands and the tokens write is well-typed.              *)
LEMMA SessionStep ==
  ASSUME SessionTyped, Next
  PROVE  SessionTyped'
  <1>1. CASE Sessionless
    BY <1>1, SessionlessSteps DEF SessionTyped, session
  <1>2. CASE Helo
    BY <1>2 DEF Helo, SessionTyped
  <1>3. CASE Mail
    <2>1. mailFrom' \in Address \union {NULL}
      BY <1>3 DEF Mail, Reset, SessionTyped
    <2>2. recipients' \in Seq(Address)
      BY <1>3, Empty DEF Mail, Reset, SessionTyped
    <2>3. QED BY <1>3, <2>1, <2>2 DEF Mail, SessionTyped
  <1>4. CASE Rcpt
    BY <1>4 DEF Rcpt, SessionTyped
  <1>5. CASE Rset
    BY <1>5, Empty DEF Rset, Reset, SessionTyped
  <1>6. CASE Auth
    BY <1>6 DEF Auth, Authenticate, SessionTyped
  <1>7. CASE AuthPlainToken \/ AuthLoginPassword \/ AuthUnfinished \/ AuthReadFails
    BY <1>7 DEF AuthPlainToken, AuthLoginPassword, AuthUnfinished, AuthReadFails, Authenticate,
      SessionTyped
  <1>8. QED
    BY <1>1, <1>2, <1>3, <1>4, <1>5, <1>6, <1>7 DEF Next, Callback, Others, Sessionless

-----------------------------------------------------------------------------
(* Wire, buffers and replies                                               *)

(* Every step sends one reply at most, or the client reads one.            *)
LEMMA OneReplyPerStep ==
  ASSUME Next
  PROVE  UNCHANGED replies \/ (\E code \in Nat : Send(code)) \/ ClientRead
  <1>1. CASE Others
    BY <1>1 DEF Others, Begin, TimePasses, IdleClose, CloseAll
  <1>2. CASE \/ Receive \/ ReceiveEnd \/ ReceiveFails \/ ReceiveCancelled
             \/ ReceiveAgain \/ NoContext \/ SendFails \/ BlankLine \/ Unrecognised
    BY <1>2 DEF Receive, ReceiveEnd, ReceiveFails, ReceiveCancelled, ReceiveAgain,
      NoContext, SendFails, BlankLine, Unrecognised
  <1>3. CASE AuthenticationRequired \/ Helo \/ Rset \/ NoopOrNotImplemented \/ Quit
    BY <1>3 DEF AuthenticationRequired, Helo, Rset, NoopOrNotImplemented, Quit
  <1>4. CASE Mail \/ Rcpt \/ Data
    BY <1>4 DEF Mail, Rcpt, Data, EnvelopeComplete
  <1>5. CASE Auth
    BY <1>5 DEF Auth, Authenticate
  <1>6. CASE AuthPlainToken \/ AuthLoginUser \/ AuthLoginPassword \/ AuthUnfinished \/ AuthReadFails
    BY <1>6 DEF AuthPlainToken, AuthLoginUser, AuthLoginPassword, AuthUnfinished, AuthReadFails,
      Authenticate
  <1>7. CASE \/ ReaderFill \/ BodyLine \/ BodyEnd \/ BodyUnfinished \/ BodyNull \/ BodyReadFails
             \/ HandleReceived
    BY <1>7 DEF ReaderFill, BodyLine, BodyEnd, BodyUnfinished, BodyNull, BodyReadFails, HandleReceived
  <1>8. CASE Client
    BY <1>8 DEF Client, ClientCommand, ClientBodyLine, ClientBodyEnd, ClientToken,
      ClientSendsAhead, ClientCloses, ClientResets
  <1>9. QED
    BY <1>1, <1>2, <1>3, <1>4, <1>5, <1>6, <1>7, <1>8 DEF Next, Callback, Others

(* So what is on its way to the client stays a sequence of codes.          *)
LEMMA RepliesStep ==
  ASSUME QueuesTyped, Next
  PROVE  replies' \in Seq(Nat)
  <1>1. replies \in Seq(Nat)
    BY DEF QueuesTyped
  <1>2. CASE UNCHANGED replies
    BY <1>1, <1>2
  <1>3. CASE \E code \in Nat : Send(code)
    BY <1>1, <1>3, SendType
  <1>4. CASE ClientRead
    BY <1>1, <1>4 DEF ClientRead
  <1>5. QED BY <1>2, <1>3, <1>4, OneReplyPerStep

(* What reaches the wire are the fragments of lines.                       *)
LEMMA TransmitType ==
  ASSUME NEW l \in Line, wire \in Seq(Fragment), Transmit(l)
  PROVE  wire' \in Seq(Fragment)
  BY FragmentsType DEF Transmit

(* The client adds fragments of lines to the wire, or clears it.           *)
LEMMA WireStep ==
  ASSUME QueuesTyped, Client
  PROVE  wire' \in Seq(Fragment)
  <1>1. wire \in Seq(Fragment)
    BY DEF QueuesTyped
  <1>2. CASE ClientCommand
    BY <1>1, <1>2, TransmitType, LineConstants, ConversationAssumption DEF ClientCommand
  <1>3. CASE ClientBodyLine
    BY <1>1, <1>3, TransmitType, StuffingTypes, LineConstants DEF ClientBodyLine
  <1>4. CASE ClientBodyEnd
    BY <1>1, <1>4, TransmitType, LineConstants DEF ClientBodyEnd
  <1>5. CASE ClientToken
    BY <1>1, <1>5, TransmitType, LineConstants DEF ClientToken
  <1>6. CASE ClientSendsAhead
    <2>1. [dots : {0}, text : Commands] \subseteq Line
      BY ConversationAssumption DEF Line
    <2>2. QED
      BY <1>1, <1>6, <2>1, TransmitType, LineConstants DEF ClientSendsAhead
  <1>7. CASE ClientRead \/ ClientResets
    BY <1>1, <1>7, Empty DEF ClientRead, ClientResets, netVars
  <1>8. CASE ClientCloses
    <2>1. CASE wire' = wire
      BY <1>1, <2>1
    <2>2. CASE wire # <<>> /\ wire' = SubSeq(wire, 1, Len(wire) - 1)
      BY <1>1, <2>2
    <2>3. QED BY <1>8, <2>1, <2>2 DEF ClientCloses
  <1>9. QED
    BY <1>2, <1>3, <1>4, <1>5, <1>6, <1>7, <1>8 DEF Client

(* The queues between the socket, the splitter and the reader.             *)
LEMMA QueuesStep ==
  ASSUME QueuesTyped, Next
  PROVE  QueuesTyped'
  <1>0. replies' \in Seq(Nat)
    BY RepliesStep
  <1>1. CASE Others
    BY <1>0, <1>1 DEF Others, Begin, TimePasses, IdleClose, CloseAll, QueuesTyped,
      readVars, netVars
  <1>2. CASE Receive
    BY <1>0, <1>2, SplitTypes DEF Receive, QueuesTyped, readVars
  <1>3. CASE ReceiveEnd \/ ReceiveFails \/ ReceiveCancelled \/ ReceiveAgain
    BY <1>0, <1>3 DEF ReceiveEnd, ReceiveFails, ReceiveCancelled, ReceiveAgain,
      QueuesTyped, readVars, netVars
  <1>4. CASE NoContext
    BY <1>0, <1>4, LineTypes DEF NoContext, QueuesTyped, readVars, netVars
  <1>5. CASE SendFails
    <2>1. buffer' \in Seq(Fragment)
      BY <1>5, LineTypes DEF SendFails, QueuesTyped
    <2>2. reader' \in {reader, <<>>} /\ linesRead' \in {linesRead, <<>>} /\ wire' = wire
      BY <1>5 DEF SendFails, readVars, netVars
    <2>3. QED BY <1>0, <2>1, <2>2, Empty DEF QueuesTyped
  <1>6. CASE BlankLine
    BY <1>0, <1>6, LineTypes DEF BlankLine, QueuesTyped, readVars, netVars
  <1>7. CASE Unrecognised
    BY <1>0, <1>7, LineTypes DEF Unrecognised, QueuesTyped, readVars, netVars
  <1>8. CASE \/ AuthenticationRequired \/ Helo \/ Mail \/ Rcpt \/ Data \/ Rset
             \/ NoopOrNotImplemented \/ Quit \/ Auth
    <2>1. PICK verbs : Dispatch(verbs)
      BY <1>8 DEF AuthenticationRequired, Helo, Mail, Rcpt, Data, Rset,
        NoopOrNotImplemented, Quit, Auth, Execute
    <2>2. buffer' \in Seq(Fragment) /\ UNCHANGED <<reader, wire>>
      BY <2>1, DispatchType
    <2>3. linesRead' \in {linesRead, <<>>}
      BY <1>8 DEF AuthenticationRequired, Helo, Mail, Rcpt, Data, Rset,
        NoopOrNotImplemented, Quit, Auth
    <2>4. QED BY <1>0, <2>2, <2>3, Empty DEF QueuesTyped
  <1>9. CASE AuthPlainToken \/ AuthLoginPassword \/ AuthReadFails
    BY <1>0, <1>9, Empty DEF AuthPlainToken, AuthLoginPassword, AuthReadFails, QueuesTyped,
      netVars
  <1>10. CASE AuthLoginUser
    BY <1>0, <1>10, LineTypes, Empty DEF AuthLoginUser, QueuesTyped, netVars
  <1>11. CASE ReaderFill
    BY <1>0, <1>11, SplitTypes DEF ReaderFill, QueuesTyped
  <1>12. CASE BodyLine
    BY <1>0, <1>12, LineTypes, StuffingTypes DEF BodyLine, QueuesTyped, netVars
  <1>13. CASE BodyEnd
    BY <1>0, <1>13, Empty DEF BodyEnd, QueuesTyped, netVars
  <1>14. CASE BodyNull
    <2>1. linesRead' \in Seq(Line \union {NULL})
      <3>1. Append(linesRead, NULL) \in Seq(Line \union {NULL})
        BY DEF QueuesTyped
      <3>2. linesRead' \in {Append(linesRead, NULL), <<>>}
        BY <1>14 DEF BodyNull
      <3>3. QED BY <3>1, <3>2, Empty
    <2>2. UNCHANGED <<reader, wire, buffer>>
      BY <1>14 DEF BodyNull, netVars
    <2>3. QED BY <1>0, <2>1, <2>2, Empty DEF QueuesTyped
  <1>15. CASE BodyReadFails \/ HandleReceived
    <2>1. reader' \in {reader, <<>>} /\ linesRead' = <<>> /\ UNCHANGED <<wire, buffer>>
      BY <1>15 DEF BodyReadFails, HandleReceived, netVars
    <2>2. QED BY <1>0, <2>1, Empty DEF QueuesTyped
  <1>16. CASE AuthUnfinished \/ BodyUnfinished
    <2>1. linesRead \in Seq(Line \union {NULL}) /\ Rest(reader) \subseteq Line
      BY RestTypes DEF QueuesTyped
    <2>2. ASSUME NEW l \in Rest(reader), linesRead' = <<l>>
          PROVE  linesRead' \in Seq(Line \union {NULL})
      BY <2>1, <2>2
    <2>3. ASSUME NEW l \in Rest(reader), linesRead' = Append(linesRead, Unstuffed(l))
          PROVE  linesRead' \in Seq(Line \union {NULL})
      <3>1. Unstuffed(l) \in Line
        BY <2>1, StuffingTypes
      <3>2. QED BY <2>1, <2>3, <3>1
    <2>4. linesRead' \in Seq(Line \union {NULL})
      <3>1. \/ linesRead' \in {linesRead, <<>>}
            \/ \E l \in Rest(reader) : linesRead' = <<l>>
            \/ \E l \in Rest(reader) : linesRead' = Append(linesRead, Unstuffed(l))
        BY <1>16 DEF AuthUnfinished, BodyUnfinished
      <3>2. QED BY <2>1, <2>2, <2>3, <3>1, Empty
    <2>5. reader' = <<>> /\ UNCHANGED <<wire, buffer>>
      BY <1>16 DEF AuthUnfinished, BodyUnfinished, netVars
    <2>6. QED BY <1>0, <2>4, <2>5, Empty DEF QueuesTyped
  <1>17. CASE Client
    BY <1>0, <1>17, WireStep, ClientLeavesServer DEF QueuesTyped, clientRest, readVars
  <1>18. QED
    BY <1>1, <1>2, <1>3, <1>4, <1>5, <1>6, <1>7, <1>8, <1>9, <1>10, <1>11, <1>12,
      <1>13, <1>14, <1>15, <1>16, <1>17 DEF Next, Callback, Others

-----------------------------------------------------------------------------
(* The client                                                              *)

(* The address of a command the client has sent is one it may remember.    *)
LEMMA SentArgument ==
  ASSUME sent \in Text
  PROVE  sent.verb \in {"MAIL", "MAIL8BIT", "RCPT"} => sent.arg \in Arguments
  BY DEF Text, Arguments

(* The client's own view of the dialogue.                                  *)
LEMMA ClientStep ==
  ASSUME ClientTyped, Next
  PROVE  ClientTyped'
  <1>1. CASE UNCHANGED client
    BY <1>1 DEF ClientTyped, client
  <1>2. CASE ClientCommand
    BY <1>2, ConversationAssumption DEF ClientCommand, ClientTyped, ownView
  <1>3. CASE ClientBodyLine
    BY <1>3, LineConstants DEF ClientBodyLine, ClientTyped, ownView
  <1>4. CASE ClientBodyEnd \/ ClientToken
    BY <1>4 DEF ClientBodyEnd, ClientToken, ClientTyped, ownView
  <1>5. CASE Prompted(Head(replies))
    BY <1>5 DEF Prompted, ClientTyped, ownView
  <1>6. CASE Answered(Head(replies))
    <2>1. NULL \in Arguments
      BY DEF Arguments
    <2>2. ownFrom' \in Arguments /\ ownEncoding' \in {"UTF8", "ASCII"}
      BY <1>6, <2>1, SentArgument DEF Answered, ClientTyped, ownView
    <2>3. ownTo' \in Seq(Arguments)
      <3>1. ownTo \in Seq(Arguments) /\ sent \in Text
        BY DEF ClientTyped
      <3>2. \/ ownTo' \in {ownTo, <<>>}
            \/ sent.verb = "RCPT" /\ ownTo' = Append(ownTo, sent.arg)
        BY <1>6 DEF Answered, ownView
      <3>3. CASE sent.verb = "RCPT" /\ ownTo' = Append(ownTo, sent.arg)
        BY <3>1, <3>3, SentArgument
      <3>4. QED BY <3>1, <3>2, <3>3, Empty
    <2>4. QED
      BY <1>6, <2>2, <2>3 DEF Answered, ClientTyped
  <1>7. QED
    BY <1>1, <1>2, <1>3, <1>4, <1>5, <1>6, ServerLeavesClient
    DEF Next, Client, ClientRead, ClientSendsAhead, ClientCloses, ClientResets, Others

-----------------------------------------------------------------------------
(* The four parts of the type invariant are inductive together.            *)
LEMMA StepTyped == TypeOK /\ [Next]_vars => TypeOK'
  <1> SUFFICES ASSUME TypeOK, [Next]_vars PROVE TypeOK'
    OBVIOUS
  <1>1. CASE Next
    BY <1>1, ConnectionStep, SessionStep, QueuesStep, ClientStep DEF TypeOK
  <1>2. CASE UNCHANGED vars
    <2>1. ConnectionTyped' /\ SessionTyped'
      BY <1>2 DEF TypeOK, vars, ConnectionTyped, SessionTyped
    <2>2. QueuesTyped' /\ ClientTyped'
      BY <1>2 DEF TypeOK, vars, QueuesTyped, ClientTyped
    <2>3. QED BY <2>1, <2>2 DEF TypeOK
  <1>3. QED BY <1>1, <1>2

(* In every reachable state the variables have the types the code declares.*)
THEOREM Typing == Spec => []TypeOK
  BY InitTyped, StepTyped, PTL DEF Spec

-----------------------------------------------------------------------------
(* The envelope                                                            *)

InMessage == rx \in {"body", "handing"}

(* Only DATA begins a message.                                             *)
LEMMA OnlyDataBegins ==
  ASSUME Next, InMessage'
  PROVE  InMessage \/ Data
  <1>1. CASE Others
    BY <1>1 DEF Others, Begin, TimePasses, IdleClose, CloseAll, InMessage
  <1>2. CASE \/ Receive \/ ReceiveEnd \/ ReceiveFails \/ ReceiveCancelled
             \/ ReceiveAgain \/ NoContext \/ SendFails \/ BlankLine \/ Unrecognised
    BY <1>2 DEF Receive, ReceiveEnd, ReceiveFails, ReceiveCancelled, ReceiveAgain,
      NoContext, SendFails, BlankLine, Unrecognised, InMessage
  <1>3. CASE AuthenticationRequired \/ Helo \/ Rset \/ NoopOrNotImplemented \/ Quit
    BY <1>3 DEF AuthenticationRequired, Helo, Rset, NoopOrNotImplemented, Quit, InMessage
  <1>4. CASE Mail \/ Rcpt
    BY <1>4 DEF Mail, Rcpt, InMessage
  <1>5. CASE Auth
    BY <1>5 DEF Auth, Authenticate, InMessage
  <1>6. CASE AuthPlainToken \/ AuthLoginUser \/ AuthLoginPassword \/ AuthUnfinished \/ AuthReadFails
    BY <1>6 DEF AuthPlainToken, AuthLoginUser, AuthLoginPassword, AuthUnfinished, AuthReadFails,
      Authenticate, InMessage
  <1>7. CASE \/ ReaderFill \/ BodyLine \/ BodyEnd \/ BodyUnfinished \/ BodyNull \/ BodyReadFails
             \/ HandleReceived
    BY <1>7 DEF ReaderFill, BodyLine, BodyEnd, BodyUnfinished, BodyNull, BodyReadFails, HandleReceived,
      InMessage
  <1>8. CASE Client
    BY <1>8, ClientLeavesServer DEF clientRest, InMessage
  <1>9. QED
    BY <1>1, <1>2, <1>3, <1>4, <1>5, <1>6, <1>7, <1>8 DEF Next, Callback, Others

(* What writes to the session stands between messages, and stays there.    *)
LEMMA SessionStandsStill ==
  ASSUME Next, InMessage
  PROVE  UNCHANGED session
  <1>1. ~(Helo \/ Mail \/ Rcpt \/ Rset \/ Auth)
    BY DEF InMessage, Helo, Mail, Rcpt, Rset, Auth, Execute, Dispatch
  <1>2. ~(AuthPlainToken \/ AuthLoginPassword \/ AuthUnfinished \/ AuthReadFails)
    BY DEF InMessage, AuthPlainToken, AuthLoginPassword, AuthUnfinished, AuthReadFails
  <1>3. QED
    BY <1>1, <1>2, SessionlessSteps DEF Next, Callback, Others, Sessionless

(* Every command keeps the order of the envelope.                          *)
LEMMA EnvelopeStep ==
  ASSUME TypeOK, EnvelopeInOrder, Next
  PROVE  EnvelopeInOrder'
  <1> DEFINE Ordered == /\ mailFrom # NULL => sender
                        /\ recipients # <<>> => mailFrom # NULL
  <1>1. Ordered'
    <2>1. CASE Sessionless
      BY <2>1, SessionlessSteps DEF session, EnvelopeInOrder
    <2>2. CASE Helo
      BY <2>2 DEF Helo, EnvelopeInOrder
    <2>3. CASE Mail
      BY <2>3 DEF Mail, Reset, EnvelopeInOrder
    <2>4. CASE Rcpt
      BY <2>4 DEF Rcpt, EnvelopeInOrder
    <2>5. CASE Rset
      BY <2>5 DEF Rset, Reset
    <2>6. CASE Auth
      BY <2>6 DEF Auth, EnvelopeInOrder
    <2>7. CASE AuthPlainToken \/ AuthLoginPassword \/ AuthUnfinished \/ AuthReadFails
      BY <2>7 DEF AuthPlainToken, AuthLoginPassword, AuthUnfinished, AuthReadFails, EnvelopeInOrder
    <2>8. QED
      BY <2>1, <2>2, <2>3, <2>4, <2>5, <2>6, <2>7
      DEF Next, Callback, Others, Sessionless
  <1>2. ASSUME InMessage'
        PROVE  recipients' # <<>>
    <2>1. CASE InMessage
      BY <2>1, SessionStandsStill DEF EnvelopeInOrder, InMessage, session
    <2>2. CASE Data /\ ~InMessage
      BY <1>2, <2>2 DEF Data, EnvelopeComplete, Execute, Dispatch, InMessage, session
    <2>3. QED BY <1>2, <2>1, <2>2, OnlyDataBegins
  <1>3. QED BY <1>1, <1>2 DEF EnvelopeInOrder, InMessage

(* Whatever a client sends, the envelope of a message is built in order and*)
(* is complete while the message is read and handed over.                  *)
THEOREM EnvelopeAlwaysInOrder == Spec => []EnvelopeInOrder
  <1>1. Init => EnvelopeInOrder
    BY DEF Init, EnvelopeInOrder
  <1>2. TypeOK /\ EnvelopeInOrder /\ [Next]_vars => EnvelopeInOrder'
    <2> SUFFICES ASSUME TypeOK, EnvelopeInOrder, [Next]_vars
                 PROVE  EnvelopeInOrder'
      OBVIOUS
    <2>1. CASE Next
      BY <2>1, EnvelopeStep
    <2>2. CASE UNCHANGED vars
      BY <2>2 DEF vars, EnvelopeInOrder
    <2>3. QED BY <2>1, <2>2
  <1>3. QED BY <1>1, <1>2, Typing, PTL DEF Spec

(* With authentication required, a message is read and handed over only in *)
(* an authenticated session: AUTH resets the user name, DATA checks it, and*)
(* nothing touches it until the message is done.                           *)
THEOREM HandoverIsAuthenticated == Spec => []AuthenticatedHandover
  <1>1. Init => AuthenticatedHandover
    BY DEF Init, AuthenticatedHandover
  <1>2. AuthenticatedHandover /\ [Next]_vars => AuthenticatedHandover'
    <2> SUFFICES ASSUME AuthenticatedHandover, [Next]_vars, RequiresAuthentication,
                        InMessage'
                 PROVE  username'
      BY DEF AuthenticatedHandover, InMessage
    <2>1. CASE Next /\ InMessage
      BY <2>1, SessionStandsStill DEF AuthenticatedHandover, InMessage, session
    <2>2. CASE Data
      BY <2>2 DEF Data, EnvelopeComplete, Execute, Unauthenticated, NeedsUsername, Dispatch, session
    <2>3. CASE UNCHANGED vars
      BY <2>3 DEF vars, AuthenticatedHandover, InMessage
    <2>4. QED BY <2>1, <2>2, <2>3, OnlyDataBegins
  <1>3. QED BY <1>1, <1>2, PTL DEF Spec

-----------------------------------------------------------------------------
(* The end of the stream in the middle of a message                        *)

Whole(s) == \A i \in DOMAIN s : s[i] # NULL

(* Once ReadLine has returned null, the reader is empty and stays so.      *)
CutOff == reader = <<>> /\ wire = <<>> /\ peer # "open"

BodyInv ==
  /\ rx = "handing" => Whole(linesRead)
  /\ rx = "body" => Whole(linesRead) \/ CutOff

(* The null of the end of the stream never meets the end of the loop.      *)
LEMMA BodyStep ==
  ASSUME TypeOK, BodyInv, Next
  PROVE  BodyInv'
  <1>1. CASE ~InMessage'
    BY <1>1 DEF BodyInv, InMessage
  <1>2. CASE InMessage' /\ ~InMessage
    <2>1. linesRead' = <<>>
      BY <1>2, OnlyDataBegins DEF Data, EnvelopeComplete, Execute, Dispatch, InMessage
    <2>2. QED BY <2>1 DEF BodyInv, Whole
  <1>3. CASE InMessage' /\ InMessage
    <2>1. CASE UNCHANGED <<rx, linesRead, reader, wire, peer>>
      BY <2>1 DEF BodyInv, CutOff
    <2>2. CASE ReaderFill
      <3>1. wire # <<>> /\ rx = "body"
        BY <2>2, <1>3 DEF ReaderFill, InMessage
      <3>2. QED BY <2>2, <3>1 DEF ReaderFill, BodyInv, CutOff
    <2>3. CASE BodyLine
      <3>1. reader \in Seq(Fragment) /\ linesRead \in Seq(Line \union {NULL})
        BY DEF TypeOK, QueuesTyped
      <3>2. Unstuffed(FirstLine(reader)) # NULL
        BY <2>3, <3>1, LineTypes, StuffingTypes, ConversationAssumption DEF BodyLine
      <3>3. Whole(linesRead) /\ rx = "body" /\ rx' = "body"
        BY <2>3 DEF BodyLine, BodyInv, CutOff, HasLine
      <3>4. Whole(linesRead')
        BY <2>3, <3>1, <3>2, <3>3 DEF BodyLine, Whole
      <3>5. QED BY <3>3, <3>4 DEF BodyInv
    <2>4. CASE BodyEnd
      BY <2>4 DEF BodyEnd, BodyInv, CutOff, HasLine, Whole
    <2>5. CASE BodyNull
      BY <2>5, <1>3 DEF BodyNull, BodyInv, CutOff, InMessage, netVars
    <2>6. CASE Client
      <3>1. UNCHANGED <<rx, linesRead, reader>>
        BY <2>6, ClientLeavesServer DEF clientRest, readVars
      <3>2. UNCHANGED <<wire, peer>> \/ peer = "open" \/ (wire' = <<>> /\ peer' = "reset")
        BY <2>6 DEF Client, ClientCommand, ClientBodyLine, ClientBodyEnd, ClientToken,
          ClientRead, ClientSendsAhead, ClientCloses, ClientResets, netVars
      <3>3. QED BY <3>1, <3>2 DEF BodyInv, CutOff
    <2>7. CASE Others
      BY <2>1, <2>7 DEF Others, Begin, TimePasses, IdleClose, CloseAll, readVars, netVars
    <2>8. CASE SendFails \/ BodyReadFails \/ HandleReceived
      BY <2>8, <1>3 DEF SendFails, BodyReadFails, HandleReceived, InMessage
    <2>11. CASE BodyUnfinished
      <3>1. reader \in Seq(Fragment) /\ linesRead \in Seq(Line \union {NULL})
        BY DEF TypeOK, QueuesTyped
      <3>2. Whole(linesRead) /\ rx = "body" /\ rx' \in {"body", "handing"}
        BY <2>11 DEF BodyUnfinished, LineUnfinished, BodyInv, CutOff
      <3>3. ASSUME NEW l \in Rest(reader), linesRead' = Append(linesRead, Unstuffed(l))
            PROVE  Whole(linesRead')
        <4>1. Unstuffed(l) # NULL
          BY <3>1, RestTypes, StuffingTypes, ConversationAssumption
        <4>2. QED BY <3>1, <3>2, <3>3, <4>1 DEF Whole
      <3>4. QED BY <2>11, <3>2, <3>3 DEF BodyUnfinished, BodyInv
    <2>9. ~(\/ Receive \/ ReceiveEnd \/ ReceiveFails \/ ReceiveCancelled \/ ReceiveAgain
            \/ NoContext \/ BlankLine \/ Unrecognised \/ AuthenticationRequired \/ Helo
            \/ Mail \/ Rcpt \/ Data \/ Rset \/ NoopOrNotImplemented \/ Quit \/ Auth
            \/ AuthPlainToken \/ AuthLoginUser \/ AuthLoginPassword \/ AuthUnfinished \/ AuthReadFails)
      BY <1>3 DEF InMessage, Receive, ReceiveEnd, ReceiveFails, ReceiveCancelled,
        ReceiveAgain, NoContext, BlankLine, Unrecognised, AuthenticationRequired, Helo,
        Mail, Rcpt, Data, EnvelopeComplete, Rset, NoopOrNotImplemented, Quit, Auth, AuthPlainToken,
        AuthLoginUser, AuthLoginPassword, AuthUnfinished, AuthReadFails, Execute, Dispatch
    <2>10. QED
      BY <2>2, <2>3, <2>4, <2>5, <2>6, <2>7, <2>8, <2>9, <2>11
      DEF Next, Callback, Others
  <1>4. QED BY <1>1, <1>2, <1>3

(* The null of the end of the stream ends no message: none that is handed  *)
(* over holds one.                                                         *)
THEOREM NullNeverEnds == Spec => []NullEndsNoMessage
  <1>1. Init => BodyInv
    BY DEF Init, BodyInv
  <1>2. TypeOK /\ BodyInv /\ [Next]_vars => BodyInv'
    <2> SUFFICES ASSUME TypeOK, BodyInv, [Next]_vars PROVE BodyInv'
      OBVIOUS
    <2>1. CASE Next
      BY <2>1, BodyStep
    <2>2. CASE UNCHANGED vars
      BY <2>2 DEF vars, BodyInv, Whole, CutOff
    <2>3. QED BY <2>1, <2>2
  <1>3. BodyInv => NullEndsNoMessage
    BY DEF BodyInv, NullEndsNoMessage, Whole
  <1>4. QED BY <1>1, <1>2, <1>3, Typing, PTL DEF Spec

-----------------------------------------------------------------------------
(* Close                                                                   *)

(* Nothing opens a connection that has been closed.                        *)
LEMMA ClosedStaysClosed ==
  ASSUME ConnectionTyped, Next, ~connected
  PROVE  ~connected'
  <1>1. CASE Others
    BY <1>1 DEF Others, Begin, TimePasses, IdleClose, CloseAll, connVars
  <1>2. CASE \/ Receive \/ ReceiveEnd \/ ReceiveFails \/ ReceiveCancelled
             \/ ReceiveAgain \/ NoContext \/ SendFails \/ BlankLine \/ Unrecognised
    BY <1>2 DEF Receive, ReceiveEnd, ReceiveFails, ReceiveCancelled, ReceiveAgain,
      NoContext, SendFails, BlankLine, Unrecognised, connVars
  <1>3. CASE AuthenticationRequired \/ Helo \/ Rset \/ NoopOrNotImplemented \/ Quit
    BY <1>3 DEF AuthenticationRequired, Helo, Rset, NoopOrNotImplemented, Quit
  <1>4. CASE Mail \/ Rcpt \/ Data \/ Auth
    BY <1>4 DEF Mail, Rcpt, Data, EnvelopeComplete, Auth
  <1>5. CASE AuthPlainToken \/ AuthLoginUser \/ AuthLoginPassword \/ AuthUnfinished \/ AuthReadFails
    BY <1>5 DEF AuthPlainToken, AuthLoginUser, AuthLoginPassword, AuthUnfinished, AuthReadFails, connVars
  <1>6. CASE \/ ReaderFill \/ BodyLine \/ BodyEnd \/ BodyUnfinished \/ BodyNull \/ BodyReadFails
             \/ HandleReceived
    BY <1>6 DEF ReaderFill, BodyLine, BodyEnd, BodyUnfinished, BodyNull, BodyReadFails, HandleReceived,
      connVars
  <1>7. CASE Client
    BY <1>7, ClientLeavesServer DEF clientRest, connVars
  <1>8. QED
    BY <1>1, <1>2, <1>3, <1>4, <1>5, <1>6, <1>7 DEF Next, Callback, Others

(* A message that is handed over is not read again, and DATA reads none    *)
(* from a closed connection.                                               *)
LEMMA NoMessageBegins ==
  ASSUME Next, ~connected, rx' = "body"
  PROVE  rx = "body"
  <1>1. ~Data
    BY DEF Data, EnvelopeComplete, Execute, Dispatch
  <1>2. InMessage
    BY <1>1, OnlyDataBegins DEF InMessage
  <1>3. ASSUME rx = "handing" PROVE FALSE
    <2>1. CASE Others
      BY <1>3, <2>1 DEF Others, Begin, TimePasses, IdleClose, CloseAll
    <2>2. CASE Client
      BY <1>3, <2>2, ClientLeavesServer DEF clientRest
    <2>3. CASE \/ Receive \/ ReceiveEnd \/ ReceiveFails \/ ReceiveCancelled \/ ReceiveAgain
               \/ NoContext \/ SendFails \/ BlankLine \/ Unrecognised
      BY <1>3, <2>3 DEF Receive, ReceiveEnd, ReceiveFails, ReceiveCancelled, ReceiveAgain,
        NoContext, SendFails, BlankLine, Unrecognised
    <2>4. CASE \/ AuthenticationRequired \/ Helo \/ Mail \/ Rcpt \/ Rset
               \/ NoopOrNotImplemented \/ Quit \/ Auth
      BY <1>3, <2>4 DEF AuthenticationRequired, Helo, Mail, Rcpt, Rset,
        NoopOrNotImplemented, Quit, Auth, Execute, Dispatch
    <2>5. CASE \/ AuthPlainToken \/ AuthLoginUser \/ AuthLoginPassword \/ AuthUnfinished \/ AuthReadFails
               \/ ReaderFill \/ BodyLine \/ BodyEnd \/ BodyUnfinished \/ BodyNull \/ BodyReadFails
               \/ HandleReceived
      BY <1>3, <2>5 DEF AuthPlainToken, AuthLoginUser, AuthLoginPassword, AuthUnfinished, AuthReadFails,
        ReaderFill, BodyLine, BodyEnd, BodyUnfinished, BodyNull, BodyReadFails, HandleReceived
    <2>6. QED
      BY <1>1, <2>1, <2>2, <2>3, <2>4, <2>5 DEF Next, Callback, Others
  <1>4. QED BY <1>2, <1>3 DEF InMessage

(* Whoever closes a connection, the lines it still holds get no answer and *)
(* begin no message, and the connection does not come back.                *)
THEOREM ClosedIsForGood == Spec => ClosedForGood
  <1> DEFINE Silence == ~connected => /\ ~connected'
                                      /\ Len(replies') <= Len(replies)
                                      /\ rx' = "body" => rx = "body"
  <1>1. TypeOK /\ [Next]_vars => [Silence]_vars
    <2> SUFFICES ASSUME TypeOK, Next, ~connected
                 PROVE  Silence
      OBVIOUS
    <2>1. replies \in Seq(Nat) /\ ConnectionTyped
      BY DEF TypeOK, QueuesTyped
    <2>2. Len(replies') <= Len(replies)
      <3>1. CASE UNCHANGED replies \/ \E code \in Nat : Send(code)
        BY <2>1, <3>1 DEF Send
      <3>2. CASE ClientRead
        BY <2>1, <3>2 DEF ClientRead
      <3>3. QED BY <3>1, <3>2, OneReplyPerStep
    <2>3. QED BY <2>1, <2>2, ClosedStaysClosed, NoMessageBegins
  <1>2. QED BY <1>1, Typing, PTL DEF Spec, ClosedForGood
=============================================================================
