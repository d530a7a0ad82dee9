------------------------- MODULE ListenServerProofs -------------------------
(***************************************************************************)
(* Proofs about the listening server and the table of its connections.     *)
(*                                                                         *)
(* TypeOK is proved for any binders.  It is not inductive: that only a     *)
(* binder starts the server needs Courses, where each call leads; that no  *)
(* more attempts are made than configured needs AttemptsRemain; that what  *)
(* is entered in the table is a client needs GuestIsThere.                 *)
(*                                                                         *)
(* NoSocketLeaks and OpenIsTracked are proved for one binder: with two, a  *)
(* second thread may replace a listener the first has not closed, and two  *)
(* chains of callbacks may give one id to two connections.                 *)
(*                                                                         *)
(* AcceptsWhileActive is proved for any binders: whatever the others have  *)
(* done to the listener, the thread that comes to rest last has begun to   *)
(* accept on a listener that listens, or has left the server inactive.     *)
(***************************************************************************)
EXTENDS ListenServer, SequenceTheorems, TLAPS

(* The calls a thread may be in, and where it may stand in each.           *)
Course(t) ==
  IF t = Exit THEN {"exit", "again", "clean", "all"} ELSE {"bind", "listen", "start"}

Cleaning == {"dispose", "disposing", "forget"}
Stopping == {"stop", "deactivate", "closeListener", "closeAll", "closing"} \union Cleaning
Starting == {"endpoint", "activate", "create", "bind", "listen", "accept", "failing"}

Reach ==
  [bind   |-> Stopping \union {"delay", "failed"},
   listen |-> Stopping,
   start  |-> Starting \union Cleaning \union {"done"},
   exit   |-> Stopping \union {"running"},
   again  |-> Stopping,
   clean  |-> Cleaning \union {"done"},
   all    |-> {"closeAll", "closing", "done"}]

Courses == \A t \in Thread : phase[t] \in Course(t) /\ pc[t] \in Reach[phase[t]]

(* A callback that has accepted a client keeps it to its end.              *)
Holding == {"count", "construct", "subscribe", "add", "init"}

GuestIsThere == \A k \in DOMAIN step : step[k] \in Holding => guest[k] \in Client

AttemptsRemain == \A b \in Binder : pc[b] # "failed" => attempts[b] < MaxAttempts

(* TypeOK, by groups of variables.                                         *)
ServerOK ==
  /\ active \in BOOLEAN /\ endpoint \in Port \union {NULL}
  /\ status \in Seq(SocketState)
  /\ portOf \in Seq(Port \union {NULL}) /\ Len(portOf) = Len(status)
  /\ listener \in 0..Len(status) /\ taken \subseteq Port /\ valid \subseteq Binder

ThreadsOK ==
  /\ pc \in [Thread -> Label]
  /\ phase \in [Thread -> DOMAIN Resume] /\ attempts \in [Binder -> 0..MaxAttempts]
  /\ toClose \in [Thread -> SUBSET Client]

ChainsOK ==
  /\ step \in Seq(Callback)
  /\ on \in Seq(1..Len(status)) /\ Len(on) = Len(step)
  /\ guest \in Seq(Client \union {NULL}) /\ Len(guest) = Len(step)

ConnectionsOK ==
  /\ lastId \in Nat /\ id \in [Client -> Nat] /\ subscribed \in [Client -> BOOLEAN]
  /\ DOMAIN table \subseteq Nat /\ \A i \in DOMAIN table : table[i] \in Client
  /\ link \in [Client -> LinkState] /\ reset \subseteq Client
  /\ at \in [Client -> 0..Len(status)]

TimerOK == timer \in {"off", "on", "dead", "disposed"} /\ keys \subseteq Nat

LEMMA TypeParts ==
  TypeOK <=> ServerOK /\ ThreadsOK /\ ChainsOK /\ ConnectionsOK /\ TimerOK
BY DEF TypeOK, ServerOK, ThreadsOK, ChainsOK, ConnectionsOK, TimerOK

IInv == TypeOK /\ Courses /\ AttemptsRemain /\ GuestIsThere

-----------------------------------------------------------------------------
(* Sequences                                                               *)

LEMMA SeqExcept ==
  ASSUME NEW S, NEW s \in Seq(S), NEW k, NEW x \in S
  PROVE  [s EXCEPT ![k] = x] \in Seq(S) /\ Len([s EXCEPT ![k] = x]) = Len(s)
<1>1. CASE k \in 1..Len(s)
  BY <1>1, ExceptSeq
<1>2. CASE k \notin 1..Len(s)
  <2>1. [s EXCEPT ![k] = x] = s
    BY <1>2
  <2> QED BY <2>1
<1> QED BY <1>1, <1>2

LEMMA SeqGrows ==
  ASSUME NEW n \in Nat, NEW s \in Seq(1..n) PROVE s \in Seq(1..(n + 1))
BY SeqDef

-----------------------------------------------------------------------------
(* Threads                                                                 *)

(* A step of a thread leads to a place of the call it is in then.          *)
Goes(t, l, p) ==
  /\ pc' = [pc EXCEPT ![t] = l] /\ phase' = [phase EXCEPT ![t] = p]
  /\ p \in Course(t) /\ l \in Reach[p]

LEMMA Calls ==
  ASSUME NEW t \in Thread, NEW p \in Course(t)
  PROVE  /\ p \in DOMAIN Resume /\ Reach[p] \subseteq Label
         /\ Resume[p].phase \in Course(t) /\ Resume[p].pc \in Reach[Resume[p].phase]
         /\ Resume[p].pc \notin {"failed", "delay", "running"}
<1>1. CASE p = "bind" BY <1>1 DEF Course, Resume, Reach, Stopping, Starting, Cleaning, Label
<1>2. CASE p = "listen" BY <1>2 DEF Course, Resume, Reach, Stopping, Starting, Cleaning, Label
<1>3. CASE p = "start" BY <1>3 DEF Course, Resume, Reach, Stopping, Starting, Cleaning, Label
<1>4. CASE p = "exit" BY <1>4 DEF Course, Resume, Reach, Stopping, Starting, Cleaning, Label
<1>5. CASE p = "again" BY <1>5 DEF Course, Resume, Reach, Stopping, Starting, Cleaning, Label
<1>6. CASE p = "clean" BY <1>6 DEF Course, Resume, Reach, Stopping, Starting, Cleaning, Label
<1>7. CASE p = "all" BY <1>7 DEF Course, Resume, Reach, Stopping, Starting, Cleaning, Label
<1> QED BY <1>1, <1>2, <1>3, <1>4, <1>5, <1>6, <1>7 DEF Course

LEMMA Returns ==
  ASSUME Courses, NEW t \in Thread, Return(t)
  PROVE  \E l \in Label \ {"failed", "running"} : \E p : Goes(t, l, p)
<1>1. phase[t] \in Course(t)
  BY DEF Courses
<1>2. /\ Resume[phase[t]].phase \in Course(t)
      /\ Resume[phase[t]].pc \in Reach[Resume[phase[t]].phase]
      /\ Resume[phase[t]].pc \notin {"failed", "delay", "running"}
  BY <1>1, Calls
<1>3. Resume[phase[t]].pc \in Label
  BY <1>2, Calls
<1> QED BY <1>2, <1>3 DEF Return, Goto, Goes

LEMMA Throws ==
  ASSUME ThreadsOK, Courses, NEW t \in Thread, Throw(t)
  PROVE  \E l \in Label \ {"failed", "running"} : \E p : Goes(t, l, p)
<1>1. phase[t] \in Course(t) /\ phase = [phase EXCEPT ![t] = phase[t]]
  BY DEF Courses, ThreadsOK
<1>2. CASE Return(t)
  BY <1>2, Returns
<1>3. CASE phase[t] = "start" /\ Goto(t, "failing") /\ UNCHANGED phase
  <2>1. "failing" \in Reach[phase[t]] /\ "failing" \in Label
    BY <1>3 DEF Reach, Starting, Label
  <2> QED BY <1>1, <1>3, <2>1 DEF Goto, Goes
<1>4. CASE phase[t] = "clean" /\ Goto(t, "done") /\ UNCHANGED phase
  <2>1. "done" \in Reach[phase[t]] /\ "done" \in Label
    BY <1>4 DEF Reach, Label
  <2> QED BY <1>1, <1>4, <2>1 DEF Goto, Goes
<1> QED BY <1>2, <1>3, <1>4 DEF Throw

(* Where the steps within a call lead.                                     *)
Follows ==
  [stop |-> {"deactivate"}, deactivate |-> {"closeListener"}, closeListener |-> {"closeAll"},
   closeAll |-> {"closing"}, closing |-> {"closing", "dispose"}, dispose |-> {"disposing"},
   disposing |-> {"forget"}, delay |-> {"stop"}, running |-> {"stop"},
   endpoint |-> {"activate"}, activate |-> {"dispose"}, create |-> {"bind"},
   bind |-> {"listen"}, listen |-> {"accept"}, accept |-> {"done"}]

LEMMA GoesOn ==
  ASSUME ThreadsOK, Courses, NEW t \in Thread, NEW l,
         pc[t] \in DOMAIN Follows, l \in Follows[pc[t]],
         l = "dispose" => phase[t] # "all", Goto(t, l), UNCHANGED phase
  PROVE  l \in Label \ {"failed", "running"} /\ Goes(t, l, phase[t])
<1>1. phase[t] \in Course(t) /\ phase = [phase EXCEPT ![t] = phase[t]] /\ pc[t] \in Reach[phase[t]]
  BY DEF Courses, ThreadsOK
<1>2. l \in Label \ {"failed", "running"}
  BY DEF Follows, Label
<1>3. l \in Reach[phase[t]]
  <2>1. CASE phase[t] \in {"bind", "listen", "exit", "again"}
    BY <1>1, <2>1 DEF Reach, Follows, Stopping, Cleaning
  <2>2. CASE phase[t] \in {"start", "clean", "all"}
    BY <1>1, <2>2 DEF Reach, Follows, Starting, Cleaning
  <2> QED BY <1>1, <2>1, <2>2 DEF Course
<1> QED BY <1>1, <1>2, <1>3 DEF Goto, Goes

(* A binder's observable fails, in Start or in front of it.                *)
GivesUp(t) == pc[t] \in {"failing", "endpoint"} /\ OnError(t)

LEMMA StepGoes ==
  ASSUME ThreadsOK, Courses, NEW t \in Thread, Steps(t)
  PROVE  \/ (\E l \in Label \ {"failed", "running"} : \E p : Goes(t, l, p)) /\ attempts' = attempts
         \/ GivesUp(t)
<1> USE GoesOn, Returns, Throws
<1>1. CASE StopTest(t)
  BY <1>1 DEF StopTest, Follows
<1>2. CASE Deactivate(t)
  BY <1>2 DEF Deactivate, Follows
<1>3. CASE CloseListener(t)
  BY <1>3 DEF CloseListener, Follows
<1>4. CASE CloseAll(t)
  BY <1>4 DEF CloseAll, Follows
<1>5. CASE CloseNext(t)
  <2>1. Goto(t, "closing") /\ "closing" \in Follows[pc[t]] /\ pc[t] \in DOMAIN Follows
    BY <1>5 DEF CloseNext, ThreadsOK, Goto, Follows
  <2> QED BY <1>5, <2>1 DEF CloseNext
<1>6. CASE CloseCollides(t)
  BY <1>6 DEF CloseCollides
<1>7. CASE AllClosed(t)
  BY <1>7 DEF AllClosed, Follows
<1>8. CASE DisposeTest(t)
  BY <1>8 DEF DisposeTest, Follows
<1>9. CASE DisposeListener(t)
  BY <1>9 DEF DisposeListener, Follows
<1>10. CASE ForgetListener(t)
  BY <1>10 DEF ForgetListener
<1>11. CASE Begins(t)
  BY <1>11 DEF Begins, Follows
<1>12. CASE SetEndpoint(t)
  BY <1>12 DEF SetEndpoint, GivesUp, Follows
<1>13. CASE Activate(t)
  <2>1. phase[t] # "all"
    BY <1>13 DEF Activate, Courses, Reach
  <2> QED BY <1>13, <2>1 DEF Activate, Follows
<1>14. CASE CreateListener(t)
  BY <1>14 DEF CreateListener, Follows
<1>15. CASE BindListener(t)
  BY <1>15 DEF BindListener, Follows
<1>16. CASE Listen(t)
  BY <1>16 DEF Listen, Follows
<1>17. CASE BeginAccept(t)
  BY <1>17 DEF BeginAccept, Follows
<1>18. CASE BindFails(t)
  BY <1>18 DEF BindFails, GivesUp
<1> QED BY <1>1, <1>2, <1>3, <1>4, <1>5, <1>6, <1>7, <1>8, <1>9, <1>10, <1>11, <1>12, <1>13,
           <1>14, <1>15, <1>16, <1>17, <1>18 DEF Steps

LEMMA ThreadStep ==
  ASSUME ThreadsOK, ConnectionsOK, Courses, AttemptsRemain, [Next]_vars
  PROVE  ThreadsOK' /\ Courses' /\ AttemptsRemain'
<1>1. ASSUME UNCHANGED threadVars PROVE ThreadsOK' /\ Courses' /\ AttemptsRemain'
  BY <1>1 DEF threadVars, ThreadsOK, Courses, AttemptsRemain
<1>2. ASSUME NEW t \in Thread, Steps(t) PROVE ThreadsOK' /\ Courses' /\ AttemptsRemain'
  <2>1. toClose' \in [Thread -> SUBSET Client]
    <3>1. CASE CloseAll(t)
      BY <3>1 DEF CloseAll, ThreadsOK, ConnectionsOK
    <3>2. CASE CloseNext(t) \/ CloseCollides(t)
      BY <3>2 DEF CloseNext, CloseCollides, ThreadsOK
    <3>3. CASE ~(CloseAll(t) \/ CloseNext(t) \/ CloseCollides(t))
      <4>1. toClose' = toClose
        BY <1>2, <3>3 DEF Steps, StopTest, Deactivate, CloseListener, AllClosed, DisposeTest,
           DisposeListener, ForgetListener, Begins, SetEndpoint, Activate, CreateListener,
           BindListener, Listen, BeginAccept, BindFails
      <4> QED BY <4>1 DEF ThreadsOK
    <3> QED BY <3>1, <3>2, <3>3
  <2>2. ASSUME NEW l \in Label, NEW p, Goes(t, l, p)
        PROVE  pc' \in [Thread -> Label] /\ phase' \in [Thread -> DOMAIN Resume] /\ Courses'
    <3>1. p \in DOMAIN Resume
      BY <2>2, Calls DEF Goes
    <3>2. pc' \in [Thread -> Label] /\ phase' \in [Thread -> DOMAIN Resume]
      BY <2>2, <3>1 DEF Goes, ThreadsOK
    <3>3. ASSUME NEW u \in Thread PROVE phase'[u] \in Course(u) /\ pc'[u] \in Reach[phase'[u]]
      BY <2>2 DEF Goes, Courses, ThreadsOK
    <3> QED BY <3>2, <3>3 DEF Courses
  <2>3. CASE (\E l \in Label \ {"failed", "running"} : \E p : Goes(t, l, p)) /\ attempts' = attempts
    <3>a. PICK l \in Label \ {"failed", "running"} : \E p : Goes(t, l, p)
      BY <2>3
    <3>1. PICK p : Goes(t, l, p)
      BY <3>a
    <3>2. ASSUME NEW b \in Binder, pc'[b] # "failed" PROVE attempts'[b] < MaxAttempts
      <4>1. pc[b] # "failed"
        <5>1. CASE b = t
          <6>1. pc[t] # "failed"
            BY <1>2 DEF Steps, StopTest, Deactivate, CloseListener, CloseAll, CloseNext,
               CloseCollides, AllClosed, DisposeTest, DisposeListener, ForgetListener, Begins,
               SetEndpoint, Activate, CreateListener, BindListener, Listen, BeginAccept, BindFails
          <6> QED BY <5>1, <6>1
        <5>2. CASE b # t
          BY <3>1, <3>2, <5>2 DEF Goes, ThreadsOK, Thread
        <5> QED BY <5>1, <5>2
      <4> QED BY <2>3, <4>1 DEF AttemptsRemain
    <3> QED BY <2>1, <2>2, <2>3, <3>1, <3>2 DEF ThreadsOK, AttemptsRemain
  <2>4. CASE GivesUp(t)
    <3>1. t \in Binder
      BY <2>4 DEF GivesUp, Courses, Course, Reach, Stopping, Cleaning, Thread
    <3>2. attempts[t] \in Nat /\ attempts[t] < MaxAttempts /\ MaxAttempts \in Nat
      BY <2>4, <3>1, ServerAssumption DEF GivesUp, AttemptsRemain, ThreadsOK
    <3>3. PICK l \in {"delay", "failed"} :
            /\ l = IF attempts[t] + 1 < MaxAttempts THEN "delay" ELSE "failed"
            /\ pc' = [pc EXCEPT ![t] = l]
      BY <2>4 DEF GivesUp, OnError, Goto
    <3>4. Goes(t, l, "bind") /\ l \in Label
      <4>1. l \in Label /\ l \in Reach["bind"]
        BY DEF Label, Reach
      <4>2. "bind" \in Course(t)
        BY <3>1, ServerAssumption DEF Course
      <4> QED BY <2>4, <3>3, <4>1, <4>2 DEF GivesUp, OnError, Goes
    <3>5. attempts' = [attempts EXCEPT ![t] = attempts[t] + 1] /\ attempts[t] + 1 \in 0..MaxAttempts
      BY <2>4, <3>2 DEF GivesUp, OnError
    <3>6. attempts' \in [Binder -> 0..MaxAttempts]
      BY <3>5 DEF ThreadsOK
    <3>7. AttemptsRemain'
      <4>1. SUFFICES ASSUME NEW b \in Binder, pc'[b] # "failed" PROVE attempts'[b] < MaxAttempts
        BY DEF AttemptsRemain
      <4>2. CASE b = t
        BY <3>1, <3>3, <3>5, <4>1, <4>2 DEF ThreadsOK, Thread
      <4>3. CASE b # t
        BY <3>3, <3>5, <4>1, <4>3 DEF AttemptsRemain, ThreadsOK, Thread
      <4> QED BY <4>2, <4>3
    <3> QED BY <2>1, <2>2, <3>4, <3>6, <3>7 DEF ThreadsOK
  <2> QED BY <1>2, <2>3, <2>4, StepGoes
<1>3. ASSUME NEW k \in DOMAIN step, Accepts(k) PROVE UNCHANGED threadVars
  BY <1>3 DEF Accepts, AcceptCompletes, CallbackTest, EndAccept, Count, Construct, Subscribe,
     TryAdd, InitCleanup, Rearm
<1>4. ASSUME NEW c \in Client, ConnectionEnds(c) \/ Connects(c) \/ Resets(c)
      PROVE  UNCHANGED threadVars
  BY <1>4 DEF ConnectionEnds, Connects, Resets
<1>5. ASSUME \/ TimerTick \/ \E i \in keys : TimerVisits(i)
             \/ \E p \in Port : Takes(p) \/ Releases(p)
      PROVE  UNCHANGED threadVars
  BY <1>5 DEF TimerTick, TimerVisits, Takes, Releases
<1> QED BY <1>1, <1>2, <1>3, <1>4, <1>5 DEF Next, vars, threadVars

-----------------------------------------------------------------------------
(* Types of the server                                                     *)

LEMMA SocketCloses ==
  ASSUME ServerOK, NEW s, CloseSocket(s)
  PROVE  status' \in Seq(SocketState) /\ Len(status') = Len(status)
<1>1. "closed" \in SocketState /\ status \in Seq(SocketState)
  BY DEF SocketState, ServerOK
<1> QED BY <1>1, SeqExcept DEF CloseSocket

LEMMA ServerStep ==
  ASSUME ServerOK, Courses, [Next]_vars
  PROVE  ServerOK' /\ (Len(status') = Len(status) \/ \E t \in Thread : CreateListener(t))
<1> USE DEF ServerOK
<1>1. ASSUME UNCHANGED <<serverVars, worldVars>>
      PROVE  ServerOK' /\ Len(status') = Len(status)
  BY <1>1 DEF serverVars, worldVars
<1>2. ASSUME NEW t \in Thread, CloseListener(t) \/ DisposeListener(t)
      PROVE  ServerOK' /\ Len(status') = Len(status)
  <2>1. UNCHANGED <<active, endpoint, listener, portOf, taken, valid>>
    BY <1>2 DEF CloseListener, DisposeListener, worldVars
  <2>2. status' = status \/ CloseSocket(listener)
    BY <1>2 DEF CloseListener, DisposeListener
  <2> QED BY <2>1, <2>2, SocketCloses
<1>3. ASSUME NEW t \in Thread, Deactivate(t) \/ ForgetListener(t) \/ Activate(t) \/ BindFails(t)
      PROVE  ServerOK' /\ Len(status') = Len(status)
  <2>1. 0 \in 0..Len(status)
    BY LenProperties
  <2> QED BY <1>3, <2>1 DEF Deactivate, ForgetListener, Activate, BindFails, worldVars
<1>4. ASSUME NEW t \in Thread, SetEndpoint(t) PROVE ServerOK' /\ Len(status') = Len(status)
  <2>1. t \in Binder
    BY <1>4 DEF SetEndpoint, Courses, Course, Reach, Stopping, Cleaning, Thread
  <2> QED BY <1>4, <2>1, ServerAssumption DEF SetEndpoint, worldVars
<1>5. ASSUME NEW t \in Thread, CreateListener(t) PROVE ServerOK'
  <2>1. status' = Append(status, "new") /\ portOf' = Append(portOf, NULL)
    BY <1>5 DEF CreateListener
  <2>2. status' \in Seq(SocketState) /\ Len(status') = Len(status) + 1
    BY <2>1, AppendProperties DEF SocketState
  <2>3. portOf' \in Seq(Port \union {NULL}) /\ Len(portOf') = Len(portOf) + 1
    BY <2>1, AppendProperties
  <2>4. listener' = Len(status) + 1 /\ Len(status) \in Nat
    BY <1>5, LenProperties DEF CreateListener
  <2> QED BY <1>5, <2>2, <2>3, <2>4 DEF CreateListener, worldVars
<1>6. ASSUME NEW t \in Thread, BindListener(t) PROVE ServerOK' /\ Len(status') = Len(status)
  <2>1. CASE UNCHANGED <<status, portOf>>
    BY <1>6, <2>1 DEF BindListener, worldVars
  <2>2. CASE /\ status' = [status EXCEPT ![listener] = "bound"]
             /\ portOf' = [portOf EXCEPT ![listener] = endpoint]
    <3>1. "bound" \in SocketState /\ status \in Seq(SocketState)
      BY DEF SocketState
    <3>2. endpoint \in Port \union {NULL} /\ portOf \in Seq(Port \union {NULL})
      OBVIOUS
    <3>3. status' \in Seq(SocketState) /\ Len(status') = Len(status)
      <4> HIDE DEF ServerOK
      <4> QED BY <2>2, <3>1, SeqExcept
    <3>4. portOf' \in Seq(Port \union {NULL}) /\ Len(portOf') = Len(portOf)
      <4> HIDE DEF ServerOK
      <4> QED BY <2>2, <3>2, SeqExcept
    <3> QED BY <1>6, <3>3, <3>4 DEF BindListener, worldVars
  <2> QED BY <1>6, <2>1, <2>2 DEF BindListener
<1>7. ASSUME NEW t \in Thread, Listen(t) PROVE ServerOK' /\ Len(status') = Len(status)
  <2>1. CASE UNCHANGED status
    BY <1>7, <2>1 DEF Listen, worldVars
  <2>2. CASE status' = [status EXCEPT ![listener] = "listening"]
    <3>1. "listening" \in SocketState /\ status \in Seq(SocketState)
      BY DEF SocketState
    <3>2. status' \in Seq(SocketState) /\ Len(status') = Len(status)
      <4> HIDE DEF ServerOK
      <4> QED BY <2>2, <3>1, SeqExcept
    <3> QED BY <1>7, <3>2 DEF Listen, worldVars
  <2> QED BY <1>7, <2>1, <2>2 DEF Listen
<1>8. ASSUME NEW p \in Port, Takes(p) \/ Releases(p)
      PROVE  ServerOK' /\ Len(status') = Len(status)
  BY <1>8 DEF Takes, Releases, serverVars
<1>9. ASSUME NEW t \in Thread,
             \/ StopTest(t) \/ CloseAll(t) \/ CloseNext(t) \/ CloseCollides(t) \/ AllClosed(t)
             \/ DisposeTest(t) \/ Begins(t) \/ BeginAccept(t)
      PROVE  UNCHANGED <<serverVars, worldVars>>
  BY <1>9 DEF StopTest, CloseAll, CloseNext, CloseCollides, AllClosed, DisposeTest, Begins, BeginAccept
<1>10. ASSUME NEW k \in DOMAIN step, Accepts(k) PROVE UNCHANGED <<serverVars, worldVars>>
  BY <1>10 DEF Accepts, AcceptCompletes, CallbackTest, EndAccept, Count, Construct, Subscribe,
       TryAdd, InitCleanup, Rearm
<1>11. ASSUME NEW c \in Client, ConnectionEnds(c) \/ Connects(c) \/ Resets(c)
       PROVE  UNCHANGED <<serverVars, worldVars>>
  BY <1>11 DEF ConnectionEnds, Connects, Resets
<1>12. ASSUME TimerTick \/ \E i \in keys : TimerVisits(i)
       PROVE  UNCHANGED <<serverVars, worldVars>>
  BY <1>12 DEF TimerTick, TimerVisits
<1>13. CASE UNCHANGED vars
  BY <1>13, <1>1 DEF vars, serverVars, worldVars
<1> QED BY <1>1, <1>2, <1>3, <1>4, <1>5, <1>6, <1>7, <1>8, <1>9, <1>10, <1>11, <1>12, <1>13
        DEF Next, Steps

LEMMA ThreadsTouch ==
  ASSUME NEW t \in Thread, Steps(t)
  PROVE  /\ UNCHANGED <<connVars, at, keys>>
         /\ BeginAccept(t) \/ UNCHANGED chainVars
BY DEF Steps, StopTest, Deactivate, CloseListener, CloseAll, CloseNext, CloseCollides, AllClosed,
   DisposeTest, DisposeListener, ForgetListener, Begins, SetEndpoint, Activate, CreateListener,
   BindListener, Listen, BeginAccept, BindFails, timerVars

LEMMA OthersTouch ==
  ASSUME \/ \E c \in Client : ConnectionEnds(c) \/ Connects(c)
         \/ TimerTick \/ \E i \in keys : TimerVisits(i)
         \/ \E p \in Port : Takes(p) \/ Releases(p)
         \/ UNCHANGED vars
  PROVE  UNCHANGED <<chainVars, connVars>>
BY DEF ConnectionEnds, Connects, TimerTick, TimerVisits, Takes, Releases, vars, chainVars, connVars

LEMMA ResetTouches ==
  ASSUME NEW c \in Client, Resets(c)
  PROVE  UNCHANGED <<chainVars, threadVars, lastId, id, subscribed, table, link, at, timerVars>>
BY DEF Resets

-----------------------------------------------------------------------------
(* Types of the callbacks                                                  *)

LEMMA ChainStep ==
  ASSUME ServerOK, ServerOK', ChainsOK, GuestIsThere, Courses, [Next]_vars
  PROVE  ChainsOK' /\ GuestIsThere'
<1>1. Len(status') = Len(status) \/ Len(status') = Len(status) + 1
  <2>1. CASE \E t \in Thread : CreateListener(t)
    BY <2>1, AppendProperties DEF CreateListener, ServerOK, SocketState
  <2> QED BY <2>1, ServerStep
<1>2. on \in Seq(1..Len(status')) /\ Len(status) \in Nat
  <2>1. Len(status) \in Nat /\ on \in Seq(1..Len(status))
    BY LenProperties DEF ServerOK, ChainsOK
  <2> QED BY <1>1, <2>1, SeqGrows
<1>3. CASE UNCHANGED chainVars
  <2>1. step' = step /\ on' = on /\ guest' = guest
    BY <1>3 DEF chainVars
  <2> QED BY <1>2, <2>1 DEF ChainsOK, GuestIsThere
<1>4. ASSUME NEW t \in Thread, BeginAccept(t), ~UNCHANGED chainVars PROVE ChainsOK' /\ GuestIsThere'
  <2>1. /\ step' = Append(step, "pending") /\ on' = Append(on, listener)
        /\ guest' = Append(guest, NULL) /\ listener # 0 /\ status' = status
    BY <1>4 DEF BeginAccept, Listening, serverVars
  <2>2. step' \in Seq(Callback) /\ Len(step') = Len(step) + 1
    BY <2>1, AppendProperties DEF ChainsOK, Callback
  <2>3. on' \in Seq(1..Len(status')) /\ Len(on') = Len(on) + 1
    <3>1. listener \in 1..Len(status)
      BY <1>2, <2>1 DEF ServerOK
    <3> QED BY <2>1, <3>1, AppendProperties DEF ChainsOK
  <2>4. guest' \in Seq(Client \union {NULL}) /\ Len(guest') = Len(guest) + 1
    BY <2>1, AppendProperties DEF ChainsOK
  <2>5. GuestIsThere'
    <3>1. SUFFICES ASSUME NEW k \in DOMAIN step', step'[k] \in Holding PROVE guest'[k] \in Client
      BY DEF GuestIsThere
    <3>2. k \in 1..Len(step) + 1 /\ Len(step) \in Nat
      BY <2>2, LenProperties DEF ChainsOK
    <3>3. k # Len(step) + 1
      BY <2>1, <3>1, AppendProperties DEF ChainsOK, Holding
    <3>4. k \in 1..Len(step)
      BY <3>2, <3>3
    <3>5. step'[k] = step[k] /\ guest'[k] = guest[k] /\ k \in DOMAIN step
      BY <2>1, <3>4, AppendProperties, LenProperties DEF ChainsOK
    <3> QED BY <3>1, <3>5 DEF GuestIsThere
  <2> QED BY <2>2, <2>3, <2>4, <2>5 DEF ChainsOK
<1>5. ASSUME NEW k \in DOMAIN step, Accepts(k) PROVE ChainsOK' /\ GuestIsThere'
  <2>1. k \in 1..Len(step) /\ guest[k] \in Client \union {NULL}
    BY ElementOfSeq, LenProperties DEF ChainsOK
  <2>2. PICK l \in Callback, g \in Client \union {NULL}, s \in 1..Len(status) :
          /\ step' = [step EXCEPT ![k] = l] /\ guest' = [guest EXCEPT ![k] = g]
          /\ on' = [on EXCEPT ![k] = s] /\ status' = status
          /\ l \in Holding => g \in Client
    <3>1. on[k] \in 1..Len(status) /\ on = [on EXCEPT ![k] = on[k]]
      BY <2>1, ElementOfSeq DEF ChainsOK
    <3>2. guest = [guest EXCEPT ![k] = guest[k]]
      BY <2>1, ElementOfSeq DEF ChainsOK
    <3>3. step[k] \in Holding => guest[k] \in Client
      BY DEF GuestIsThere
    <3>4. CASE AcceptCompletes(k)
      BY <2>1, <3>1, <3>2, <3>4 DEF AcceptCompletes, Advance, Callback, Holding, serverVars
    <3>5. CASE CallbackTest(k)
      <4>1. UNCHANGED <<on, status>>
        BY <3>5 DEF CallbackTest, serverVars
      <4>2. CASE Advance(k, "endAccept") /\ UNCHANGED guest
        BY <2>1, <3>1, <3>2, <4>1, <4>2 DEF Advance, Callback, Holding
      <4>3. CASE Advance(k, "ended") /\ Abandon(k)
        BY <2>1, <3>1, <4>1, <4>3 DEF Advance, Abandon, Callback, Holding
      <4> QED BY <3>5, <4>2, <4>3 DEF CallbackTest
    <3>6. CASE EndAccept(k)
      BY <2>1, <3>1, <3>2, <3>6 DEF EndAccept, Advance, Abandon, Callback, Holding, serverVars
    <3>7. CASE Count(k)
      BY <2>1, <3>1, <3>2, <3>3, <3>7 DEF Count, Advance, Abandon, Callback, Holding, serverVars
    <3>8. CASE Construct(k) \/ Subscribe(k) \/ TryAdd(k)
      BY <2>1, <3>1, <3>2, <3>3, <3>8 DEF Construct, Subscribe, TryAdd, Advance, Callback, Holding,
         serverVars
    <3>9. CASE InitCleanup(k)
      BY <2>1, <3>1, <3>2, <3>9 DEF InitCleanup, Advance, Callback, Holding, serverVars
    <3>10. CASE Rearm(k)
      <4>1. Listening => listener \in 1..Len(status)
        BY <1>2 DEF Listening, ServerOK
      <4> QED BY <2>1, <3>1, <3>2, <3>10, <4>1 DEF Rearm, Advance, Callback, Holding, serverVars
    <3> QED BY <1>5, <3>4, <3>5, <3>6, <3>7, <3>8, <3>9, <3>10 DEF Accepts
  <2>3. step' \in Seq(Callback) /\ Len(step') = Len(step)
    BY <2>2, SeqExcept DEF ChainsOK
  <2>4. guest' \in Seq(Client \union {NULL}) /\ Len(guest') = Len(guest)
    BY <2>2, SeqExcept DEF ChainsOK
  <2>5. on' \in Seq(1..Len(status)) /\ Len(on') = Len(on)
    BY <2>2, SeqExcept DEF ChainsOK
  <2>6. GuestIsThere'
    BY <2>1, <2>2, LenProperties DEF GuestIsThere, ChainsOK
  <2> QED BY <2>2, <2>3, <2>4, <2>5, <2>6 DEF ChainsOK
<1>6. [Next]_vars => UNCHANGED chainVars \/ (\E t \in Thread : BeginAccept(t))
                     \/ \E k \in DOMAIN step : Accepts(k)
  BY ThreadsTouch, OthersTouch, ResetTouches DEF Next
<1> QED BY <1>3, <1>4, <1>5, <1>6
-----------------------------------------------------------------------------
(* Types of the connections and the timer                                  *)

LEMMA TableStep ==
  ASSUME ThreadsOK, ConnectionsOK, ChainsOK, GuestIsThere, TimerOK, [Next]_vars
  PROVE  DOMAIN table' \subseteq Nat /\ \A i \in DOMAIN table' : table'[i] \in Client
<1> DEFINE Fine == DOMAIN table' \subseteq Nat /\ \A i \in DOMAIN table' : table'[i] \in Client
<1>1. ASSUME table' = table \/ \E j : table' = Without(j) PROVE Fine
  BY <1>1 DEF Without, ConnectionsOK
<1>2. ASSUME NEW t \in Thread, Steps(t) PROVE Fine
  <2>1. table' = table \/ \E j : table' = Without(j)
    <3>1. CASE CloseNext(t) \/ CloseCollides(t)
      BY <3>1 DEF CloseNext, CloseCollides
    <3>2. CASE ~(CloseNext(t) \/ CloseCollides(t))
      BY <1>2, <3>2 DEF Steps, StopTest, Deactivate, CloseListener, CloseAll, AllClosed,
         DisposeTest, DisposeListener, ForgetListener, Begins, SetEndpoint, Activate,
         CreateListener, BindListener, Listen, BeginAccept, BindFails
    <3> QED BY <3>1, <3>2
  <2> QED BY <1>1, <2>1
<1>3. ASSUME NEW k \in DOMAIN step, Accepts(k) PROVE Fine
  <2>1. CASE TryAdd(k)
    <3>1. guest[k] \in Client
      BY <2>1 DEF TryAdd, GuestIsThere, Holding
    <3>2. id[guest[k]] \in Nat
      BY <3>1 DEF ConnectionsOK
    <3> QED BY <2>1, <3>1, <3>2 DEF TryAdd, ConnectionsOK
  <2>2. CASE ~TryAdd(k)
    <3>1. table' = table
      BY <1>3, <2>2 DEF Accepts, AcceptCompletes, CallbackTest, EndAccept, Count, Construct,
         Subscribe, InitCleanup, Rearm
    <3> QED BY <1>1, <3>1
  <2> QED BY <2>1, <2>2
<1>4. ASSUME \/ \E c \in Client : ConnectionEnds(c) \/ Connects(c) \/ Resets(c)
             \/ TimerTick \/ \E i \in keys : TimerVisits(i)
             \/ \E p \in Port : Takes(p) \/ Releases(p)
             \/ UNCHANGED vars
      PROVE  Fine
  <2>1. table' = table \/ \E j : table' = Without(j)
    BY <1>4 DEF ConnectionEnds, Connects, Resets, Disconnect, TimerTick, TimerVisits, Takes, Releases, vars
  <2> QED BY <1>1, <2>1
<1> QED BY <1>2, <1>3, <1>4 DEF Next

LEMMA LinkStep ==
  ASSUME ThreadsOK, ConnectionsOK, ChainsOK, GuestIsThere, [Next]_vars
  PROVE  link' \in [Client -> LinkState]
<1>1. link \in [Client -> LinkState]
  BY DEF ConnectionsOK
<1>2. ASSUME NEW s, CloseSocket(s) PROVE link' \in [Client -> LinkState]
  BY <1>1, <1>2 DEF CloseSocket, LinkState
<1>3. ASSUME NEW k, Abandon(k) PROVE link' \in [Client -> LinkState]
  BY <1>1, <1>3 DEF Abandon, LinkState
<1>4. ASSUME NEW c, NEW l \in LinkState, Becomes(c, l) PROVE link' \in [Client -> LinkState]
  BY <1>1, <1>4 DEF Becomes
<1>5. ASSUME NEW c, Disconnect(c) PROVE link' \in [Client -> LinkState]
  BY <1>1, <1>5 DEF Disconnect, LinkState
<1>6. /\ "closed" \in LinkState /\ "accepted" \in LinkState /\ "open" \in LinkState
      /\ "backlog" \in LinkState
  BY DEF LinkState
<1>7. CASE UNCHANGED link
  BY <1>1, <1>7
<1>8. ASSUME NEW t \in Thread, Steps(t) PROVE link' \in [Client -> LinkState]
  <2>1. CASE CloseNext(t) \/ CloseCollides(t)
    BY <1>1, <1>6, <2>1 DEF CloseNext, CloseCollides
  <2>2. CASE CloseListener(t) \/ DisposeListener(t)
    BY <1>2, <1>7, <2>2 DEF CloseListener, DisposeListener
  <2>3. CASE ~(CloseNext(t) \/ CloseCollides(t) \/ CloseListener(t) \/ DisposeListener(t))
    <3>1. UNCHANGED link
      BY <1>8, <2>3 DEF Steps, StopTest, Deactivate, CloseAll, AllClosed, DisposeTest,
         ForgetListener, Begins, SetEndpoint, Activate, CreateListener, BindListener, Listen,
         BeginAccept, BindFails
    <3> QED BY <1>7, <3>1
  <2> QED BY <2>1, <2>2, <2>3
<1>9. ASSUME NEW k \in DOMAIN step, Accepts(k) PROVE link' \in [Client -> LinkState]
  BY <1>3, <1>4, <1>6, <1>7, <1>9 DEF Accepts, AcceptCompletes, CallbackTest, EndAccept, Count,
     Construct, Subscribe, TryAdd, InitCleanup, Rearm
<1>10. ASSUME \/ \E c \in Client : ConnectionEnds(c) \/ Connects(c) \/ Resets(c)
              \/ TimerTick \/ \E i \in keys : TimerVisits(i)
              \/ \E p \in Port : Takes(p) \/ Releases(p)
              \/ UNCHANGED vars
       PROVE  link' \in [Client -> LinkState]
  BY <1>4, <1>5, <1>6, <1>7, <1>10 DEF ConnectionEnds, Connects, Resets, TimerTick, TimerVisits, Takes,
     Releases, vars
<1> QED BY <1>8, <1>9, <1>10 DEF Next

LEMMA ConnectionStep ==
  ASSUME ServerOK, ServerOK', ThreadsOK, ChainsOK, ConnectionsOK, TimerOK, GuestIsThere, Courses,
         [Next]_vars
  PROVE  ConnectionsOK'
<1>1. lastId' \in Nat /\ id' \in [Client -> Nat] /\ subscribed' \in [Client -> BOOLEAN]
  <2>1. CASE UNCHANGED connVars
    BY <2>1 DEF connVars, ConnectionsOK
  <2>2. ASSUME NEW k \in DOMAIN step, Count(k) \/ Construct(k) \/ Subscribe(k)
        PROVE  lastId' \in Nat /\ id' \in [Client -> Nat] /\ subscribed' \in [Client -> BOOLEAN]
    <3>1. CASE Count(k)
      <4>1. lastId' = lastId \/ lastId' = lastId + 1
        BY <3>1 DEF Count
      <4>2. UNCHANGED <<id, subscribed>>
        BY <3>1 DEF Count
      <4> QED BY <4>1, <4>2 DEF ConnectionsOK
    <3>2. CASE Construct(k)
      <4>1. id' = [id EXCEPT ![guest[k]] = lastId] /\ UNCHANGED <<lastId, subscribed>>
        BY <3>2 DEF Construct
      <4> QED BY <4>1 DEF ConnectionsOK
    <3>3. CASE Subscribe(k)
      <4>1. subscribed' = [subscribed EXCEPT ![guest[k]] = TRUE] /\ UNCHANGED <<lastId, id>>
        BY <3>3 DEF Subscribe
      <4> QED BY <4>1 DEF ConnectionsOK
    <3> QED BY <2>2, <3>1, <3>2, <3>3
  <2>3. ASSUME NEW k \in DOMAIN step, Accepts(k), ~(Count(k) \/ Construct(k) \/ Subscribe(k))
        PROVE  UNCHANGED connVars
    BY <2>3 DEF Accepts, AcceptCompletes, CallbackTest, EndAccept, TryAdd, InitCleanup, Rearm
  <2>4. ASSUME NEW c \in Client, Resets(c)
        PROVE  lastId' \in Nat /\ id' \in [Client -> Nat] /\ subscribed' \in [Client -> BOOLEAN]
    BY <2>4 DEF Resets, ConnectionsOK
  <2> QED BY <2>1, <2>2, <2>3, <2>4, ThreadsTouch, OthersTouch DEF Next
<1>2. at' \in [Client -> 0..Len(status')]
  <2>1. Len(status) \in Nat /\ Len(status') \in Nat /\ Len(status) <= Len(status')
    <3>1. CASE \E t \in Thread : CreateListener(t)
      BY <3>1, AppendProperties, LenProperties DEF CreateListener, ServerOK, SocketState
    <3> QED BY <3>1, ServerStep, LenProperties DEF ServerOK
  <2>2. at \in [Client -> 0..Len(status')]
    BY <2>1 DEF ConnectionsOK
  <2>3. ASSUME NEW c \in Client, Connects(c) PROVE at' \in [Client -> 0..Len(status')]
    <3>1. PICK s \in DOMAIN status : at' = [at EXCEPT ![c] = s]
      BY <2>3 DEF Connects
    <3>2. s \in 0..Len(status')
      BY <2>1, LenProperties DEF ServerOK
    <3> QED BY <2>2, <3>1, <3>2
  <2>4. CASE UNCHANGED at
    BY <2>2, <2>4
  <2>5. ASSUME NEW k \in DOMAIN step, Accepts(k) PROVE UNCHANGED at
    BY <2>5 DEF Accepts, AcceptCompletes, CallbackTest, EndAccept, Count, Construct, Subscribe,
       TryAdd, InitCleanup, Rearm
  <2>6. ASSUME \/ \E c \in Client : ConnectionEnds(c) \/ Resets(c)
               \/ TimerTick \/ \E i \in keys : TimerVisits(i)
               \/ \E p \in Port : Takes(p) \/ Releases(p)
               \/ UNCHANGED vars
        PROVE  UNCHANGED at
    BY <2>6 DEF ConnectionEnds, Resets, TimerTick, TimerVisits, Takes, Releases, vars
  <2> QED BY <2>3, <2>4, <2>5, <2>6, ThreadsTouch DEF Next
<1>3. reset' \subseteq Client
  <2>1. ASSUME UNCHANGED reset PROVE reset' \subseteq Client
    BY <2>1 DEF ConnectionsOK
  <2>2. ASSUME NEW c \in Client, Resets(c) PROVE reset' \subseteq Client
    BY <2>2 DEF Resets, ConnectionsOK
  <2>3. ASSUME NEW k \in DOMAIN step, Accepts(k) PROVE UNCHANGED reset
    BY <2>3 DEF Accepts, AcceptCompletes, CallbackTest, EndAccept, Count, Construct, Subscribe,
       TryAdd, InitCleanup, Rearm, connVars
  <2> QED BY <2>1, <2>2, <2>3, ThreadsTouch, OthersTouch DEF Next, connVars
<1> QED BY <1>1, <1>2, <1>3, TableStep, LinkStep DEF ConnectionsOK

LEMMA TimerStep ==
  ASSUME ConnectionsOK, TimerOK, [Next]_vars PROVE TimerOK'
<1>1. CASE UNCHANGED timerVars
  BY <1>1 DEF timerVars, TimerOK
<1>2. ASSUME NEW t \in Thread, Steps(t) PROVE TimerOK'
  <2>1. timer' = timer \/ timer' = "disposed"
    <3>1. CASE CloseCollides(t) \/ AllClosed(t)
      BY <3>1 DEF CloseCollides, AllClosed
    <3>2. CASE ~(CloseCollides(t) \/ AllClosed(t))
      BY <1>2, <3>2 DEF Steps, StopTest, Deactivate, CloseListener, CloseAll, CloseNext,
         DisposeTest, DisposeListener, ForgetListener, Begins, SetEndpoint, Activate,
         CreateListener, BindListener, Listen, BeginAccept, BindFails, timerVars
    <3> QED BY <3>1, <3>2
  <2> QED BY <1>2, <2>1, ThreadsTouch DEF TimerOK
<1>3. ASSUME NEW k \in DOMAIN step, Accepts(k) PROVE TimerOK'
  <2>1. CASE InitCleanup(k)
    BY <2>1 DEF InitCleanup, TimerOK
  <2>2. CASE ~InitCleanup(k)
    <3>1. UNCHANGED timerVars
      BY <1>3, <2>2 DEF Accepts, AcceptCompletes, CallbackTest, EndAccept, Count, Construct,
         Subscribe, TryAdd, Rearm
    <3> QED BY <1>1, <3>1
  <2> QED BY <2>1, <2>2
<1>4. ASSUME NEW c \in Client, ConnectionEnds(c) \/ Connects(c) \/ Resets(c)
      PROVE  UNCHANGED timerVars
  BY <1>4 DEF ConnectionEnds, Connects, Resets
<1>5. ASSUME TimerTick \/ \E i \in keys : TimerVisits(i) PROVE TimerOK'
  BY <1>5 DEF TimerTick, TimerVisits, TimerOK, ConnectionsOK
<1>6. ASSUME NEW p \in Port, Takes(p) \/ Releases(p) PROVE UNCHANGED timerVars
  BY <1>6 DEF Takes, Releases
<1>7. CASE UNCHANGED vars
  BY <1>1, <1>7 DEF vars, timerVars
<1> QED BY <1>1, <1>2, <1>3, <1>4, <1>5, <1>6, <1>7 DEF Next

-----------------------------------------------------------------------------
(* The theorem                                                             *)

LEMMA Initially ==
  ASSUME Init PROVE IInv
<1>1. ServerOK
  <2>1. status = <<>> /\ portOf = <<>> /\ listener = 0
    BY DEF Init
  <2>2. status \in Seq(SocketState) /\ portOf \in Seq(Port \union {NULL})
    BY <2>1
  <2>3. Len(status) = 0 /\ Len(portOf) = 0
    BY <2>1
  <2>4. listener \in 0..Len(status)
    BY <2>1, <2>3
  <2>5. active \in BOOLEAN /\ endpoint \in Port \union {NULL} /\ taken \subseteq Port
        /\ valid \subseteq Binder
    BY DEF Init
  <2> QED BY <2>2, <2>3, <2>4, <2>5 DEF ServerOK
<1>2. ThreadsOK /\ Courses /\ AttemptsRemain
  <2>1. Course(Exit) = {"exit", "again", "clean", "all"}
    BY DEF Course
  <2>2. \A b \in Binder : b # Exit /\ Course(b) = {"bind", "listen", "start"}
    BY ServerAssumption DEF Course
  <2> QED BY <2>1, <2>2, ServerAssumption DEF Init, ThreadsOK, Courses, AttemptsRemain, Reach,
          Stopping, Label, Resume, Thread
<1>3. ChainsOK /\ GuestIsThere
  BY DEF Init, ChainsOK, GuestIsThere
<1>4. ConnectionsOK /\ TimerOK
  BY DEF Init, ConnectionsOK, TimerOK, LinkState
<1> QED BY <1>1, <1>2, <1>3, <1>4, TypeParts DEF IInv

LEMMA Inductive ==
  ASSUME IInv, [Next]_vars PROVE IInv'
<1>1. ServerOK /\ ThreadsOK /\ ChainsOK /\ ConnectionsOK /\ TimerOK
  BY TypeParts DEF IInv
<1>2. Courses /\ AttemptsRemain /\ GuestIsThere
  BY DEF IInv
<1>3. ServerOK'
  BY <1>1, <1>2, ServerStep
<1>4. ThreadsOK' /\ Courses' /\ AttemptsRemain'
  BY <1>1, <1>2, ThreadStep
<1>5. ChainsOK' /\ GuestIsThere'
  BY <1>1, <1>2, <1>3, ChainStep
<1>6. ConnectionsOK' /\ TimerOK'
  BY <1>1, <1>2, <1>3, ConnectionStep, TimerStep
<1>7. TypeOK'
  BY <1>3, <1>4, <1>5, <1>6 DEF TypeOK, ServerOK, ThreadsOK, ChainsOK, ConnectionsOK, TimerOK
<1> QED BY <1>4, <1>5, <1>7 DEF IInv

(* The variables keep their types: no thread strays out of the call it is  *)
(* in, a binder is subscribed as often as configured and never more, and   *)
(* no callback enters in the table anything but the client it accepted.    *)
THEOREM Typing == Spec => []TypeOK
<1>1. IInv => TypeOK
  BY DEF IInv
<1> QED BY <1>1, Initially, Inductive, PTL DEF Spec
-----------------------------------------------------------------------------
(* Sockets, with one binder                                                *)

SingleBinder == \A b1, b2 \in Binder : b1 = b2

AllGone == \A s \in DOMAIN status : status[s] = "closed"
OneLeft == \A s \in DOMAIN status : status[s] # "closed" => s = listener

(* A socket is created, and the field cleared, when the last is closed.    *)
Leakless ==
  pc[Exit] = "running" =>
    OneLeft /\ \A b \in Binder : pc[b] \in {"create", "forget"} => AllGone

LEMMA ExitLeaves ==
  ASSUME IInv, [Next]_vars, pc'[Exit] = "running"
  PROVE  pc[Exit] = "running" /\ \A t \in Thread : Steps(t) => t \in Binder /\ t # Exit
<1>1. ThreadsOK /\ Courses
  BY TypeParts DEF IInv
<1>2. ASSUME NEW t \in Thread, Steps(t) PROVE t # Exit /\ pc'[Exit] = pc[Exit]
  <2>1. t # Exit
    <3>1. SUFFICES ASSUME t = Exit PROVE FALSE
      OBVIOUS
    <3>2. CASE GivesUp(t)
      BY <1>1, <3>1, <3>2 DEF GivesUp, Courses, Course, Reach, Stopping, Cleaning
    <3>3. CASE \E l \in Label \ {"failed", "running"} : \E p : Goes(t, l, p)
      BY <1>1, <3>1, <3>3 DEF Goes, ThreadsOK, Thread
    <3> QED BY <1>1, <1>2, <3>2, <3>3, StepGoes
  <2>2. CASE GivesUp(t)
    BY <1>1, <2>1, <2>2 DEF GivesUp, OnError, Goto, ThreadsOK, Thread
  <2>3. CASE \E l \in Label \ {"failed", "running"} : \E p : Goes(t, l, p)
    BY <1>1, <2>1, <2>3 DEF Goes, ThreadsOK, Thread
  <2> QED BY <1>1, <1>2, <2>1, <2>2, <2>3, StepGoes
<1>3. ASSUME NEW k \in DOMAIN step, Accepts(k) PROVE UNCHANGED pc
  BY <1>3 DEF Accepts, AcceptCompletes, CallbackTest, EndAccept, Count, Construct, Subscribe,
     TryAdd, InitCleanup, Rearm, threadVars
<1>4. ASSUME \/ \E c \in Client : ConnectionEnds(c) \/ Connects(c) \/ Resets(c)
             \/ TimerTick \/ \E i \in keys : TimerVisits(i)
             \/ \E p \in Port : Takes(p) \/ Releases(p)
             \/ UNCHANGED vars
      PROVE  UNCHANGED pc
  BY <1>4 DEF ConnectionEnds, Connects, Resets, TimerTick, TimerVisits, Takes, Releases, vars, threadVars
<1> QED BY <1>2, <1>3, <1>4 DEF Next, Thread

LEMMA LeaklessStep ==
  ASSUME SingleBinder, IInv, Leakless, [Next]_vars PROVE Leakless'
<1> SUFFICES ASSUME pc'[Exit] = "running"
             PROVE  (OneLeft /\ \A b \in Binder : pc[b] \in {"create", "forget"} => AllGone)'
  BY DEF Leakless
<1>1. ServerOK /\ ThreadsOK /\ Courses
  BY TypeParts DEF IInv
<1>2. /\ OneLeft /\ \A t \in Thread : Steps(t) => t \in Binder /\ t # Exit
      /\ \A b \in Binder : pc[b] \in {"create", "forget"} => AllGone
  BY ExitLeaves DEF Leakless
<1>3. CASE UNCHANGED <<serverVars, pc>>
  BY <1>2, <1>3 DEF serverVars, OneLeft, AllGone
<1>4. ASSUME NEW t \in Thread, Steps(t)
      PROVE  (OneLeft /\ \A b \in Binder : pc[b] \in {"create", "forget"} => AllGone)'
  <2>1. t \in Binder /\ \A b \in Binder : b = t
    BY <1>2, <1>4 DEF SingleBinder
  <2>2. ASSUME AllGone' PROVE OneLeft'
    BY <2>2 DEF AllGone, OneLeft
  <2>3. ASSUME AllGone, UNCHANGED status PROVE AllGone'
    BY <2>3 DEF AllGone
  <2>4. ASSUME listener = 0 PROVE AllGone
    BY <1>1, <1>2, <2>4, LenProperties DEF OneLeft, AllGone, ServerOK
  <2>5. ASSUME CloseSocket(listener) PROVE AllGone'
    BY <1>1, <1>2, <2>5 DEF CloseSocket, OneLeft, AllGone
  <2>6. ASSUME UNCHANGED <<status, listener>>, pc'[t] \notin {"create", "forget"}
        PROVE  (OneLeft /\ \A b \in Binder : pc[b] \in {"create", "forget"} => AllGone)'
    BY <1>2, <2>1, <2>6 DEF OneLeft
  <2>7. CASE CloseListener(t) \/ DisposeListener(t)
    <3>1. (listener = 0 /\ UNCHANGED status) \/ CloseSocket(listener)
      BY <2>7 DEF CloseListener, DisposeListener
    <3> QED BY <2>2, <2>3, <2>4, <2>5, <3>1
  <2>8. CASE ForgetListener(t)
    BY <1>2, <2>1, <2>2, <2>3, <2>8 DEF ForgetListener
  <2>9. CASE DisposeTest(t)
    <3>1. UNCHANGED <<status, listener>>
      BY <2>9 DEF DisposeTest, serverVars
    <3>2. CASE listener = 0
      BY <2>2, <2>3, <2>4, <3>1, <3>2
    <3>3. CASE Goto(t, "disposing")
      BY <1>1, <2>6, <3>1, <3>3 DEF Goto, ThreadsOK
    <3> QED BY <2>9, <3>2, <3>3 DEF DisposeTest
  <2>10. CASE CreateListener(t)
    <3>1. /\ status' = Append(status, "new") /\ listener' = Len(status) + 1
          /\ pc'[t] \notin {"create", "forget"} /\ AllGone
      BY <1>1, <1>2, <2>1, <2>10 DEF CreateListener, Goto, ThreadsOK
    <3>2. ASSUME NEW s \in DOMAIN status', status'[s] # "closed" PROVE s = listener'
      <4>1. s \in 1..(Len(status) + 1) /\ Len(status) \in Nat
        BY <1>1, <3>1, AppendProperties, LenProperties DEF ServerOK, SocketState
      <4>2. CASE s \in 1..Len(status)
        <5>1. status'[s] = status[s] /\ s \in DOMAIN status
          BY <1>1, <3>1, <4>2, AppendProperties, LenProperties DEF ServerOK, SocketState
        <5> QED BY <3>1, <3>2, <5>1 DEF AllGone
      <4> QED BY <3>1, <4>1, <4>2
    <3> QED BY <2>1, <3>1, <3>2 DEF OneLeft
  <2>11. CASE BindListener(t) \/ Listen(t)
    <3>1. phase[t] = "start"
      BY <1>1, <1>2, <1>4, <2>11 DEF BindListener, Listen, Courses, Course, Reach, Stopping, Cleaning
    <3>2. pc'[t] \notin {"create", "forget"}
      BY <1>1, <2>11, <3>1 DEF BindListener, Listen, Throw, Goto, ThreadsOK
    <3>3. listener' = listener /\ \A s \in DOMAIN status' :
             s \in DOMAIN status /\ (s # listener => status'[s] = status[s])
      BY <2>11 DEF BindListener, Listen
    <3>4. OneLeft'
      BY <1>2, <3>3 DEF OneLeft
    <3> QED BY <2>1, <3>2, <3>4
  <2>12. CASE ~(\/ CloseListener(t) \/ DisposeListener(t) \/ ForgetListener(t) \/ DisposeTest(t)
                \/ CreateListener(t) \/ BindListener(t) \/ Listen(t))
    <3>1. UNCHANGED <<status, listener>>
      BY <1>4, <2>12 DEF Steps, StopTest, Deactivate, CloseAll, CloseNext, CloseCollides,
         AllClosed, Begins, SetEndpoint, Activate, BeginAccept, BindFails, serverVars
    <3>2. CASE StopTest(t) \/ CloseCollides(t)
      <4>1. phase[t] \in {"bind", "listen"}
        BY <1>1, <2>1, <1>2, <1>4, <3>2 DEF StopTest, CloseCollides, Courses, Course, Reach,
           Starting, Cleaning
      <4>2. pc'[t] \in {"deactivate", "stop", "endpoint"}
        BY <1>1, <3>2, <4>1 DEF StopTest, CloseCollides, Return, Resume, Goto, ThreadsOK
      <4> QED BY <2>6, <3>1, <4>2
    <3>3. CASE AllClosed(t)
      <4>1. pc'[t] \in {"dispose", "done"}
        BY <1>1, <3>3 DEF AllClosed, Return, Resume, Goto, ThreadsOK
      <4> QED BY <2>6, <3>1, <4>1
    <3>4. CASE BeginAccept(t)
      <4>1. phase[t] = "start"
        BY <1>1, <1>2, <1>4, <3>4 DEF BeginAccept, Courses, Course, Reach, Stopping, Cleaning
      <4>2. pc'[t] \in {"done", "failing"}
        BY <1>1, <3>4, <4>1 DEF BeginAccept, Throw, Goto, ThreadsOK
      <4> QED BY <2>6, <3>1, <4>2
    <3>5. CASE CloseNext(t)
      BY <2>6, <3>1, <3>5 DEF CloseNext
    <3>6. CASE \/ Deactivate(t) \/ CloseAll(t) \/ Begins(t) \/ SetEndpoint(t) \/ Activate(t)
               \/ BindFails(t)
      <4>1. pc'[t] \notin {"create", "forget"}
        BY <1>1, <3>6 DEF Deactivate, CloseAll, Begins, SetEndpoint, Activate, BindFails,
           OnError, Goto, ThreadsOK
      <4> QED BY <2>6, <3>1, <4>1
    <3> QED BY <1>4, <2>12, <3>2, <3>3, <3>4, <3>5, <3>6 DEF Steps
  <2> QED BY <2>7, <2>8, <2>9, <2>10, <2>11, <2>12
<1>5. ASSUME NEW k \in DOMAIN step, Accepts(k) PROVE UNCHANGED <<serverVars, pc>>
  BY <1>5 DEF Accepts, AcceptCompletes, CallbackTest, EndAccept, Count, Construct, Subscribe,
     TryAdd, InitCleanup, Rearm, threadVars
<1>6. ASSUME \/ \E c \in Client : ConnectionEnds(c) \/ Connects(c) \/ Resets(c)
             \/ TimerTick \/ \E i \in keys : TimerVisits(i)
             \/ \E p \in Port : Takes(p) \/ Releases(p)
             \/ UNCHANGED vars
      PROVE  UNCHANGED <<serverVars, pc>>
  BY <1>6 DEF ConnectionEnds, Connects, Resets, TimerTick, TimerVisits, Takes, Releases, vars, threadVars,
     serverVars
<1> QED BY <1>3, <1>4, <1>5, <1>6 DEF Next

(* With one binder, however often it fails and is subscribed again, one    *)
(* socket at most is not closed until the program is shut down, and it is  *)
(* the one the server knows.                                               *)
THEOREM NothingLeaks ==
  ASSUME SingleBinder PROVE Spec => []NoSocketLeaks
<1>1. ASSUME Init PROVE IInv /\ Leakless
  <2>1. DOMAIN status = {}
    BY <1>1 DEF Init
  <2> QED BY <1>1, <2>1, Initially DEF Leakless, OneLeft, AllGone
<1>2. IInv /\ Leakless /\ [Next]_vars => IInv' /\ Leakless'
  BY Inductive, LeaklessStep
<1>3. Leakless => NoSocketLeaks
  BY DEF Leakless, OneLeft, NoSocketLeaks
<1> QED BY <1>1, <1>2, <1>3, PTL DEF Spec
-----------------------------------------------------------------------------
(* The table, with one binder                                              *)

(* One chain of callbacks, since one binder begins it and then is done.    *)
OneChain ==
  Len(step) <= 1 /\ \A b \in Binder : pc[b] # "done" => step = <<>>

(* A chain holds a client from its accept on, not yet numbered; then one   *)
(* that is, under an id no other connection was given.                     *)
Guests ==
  \A k \in DOMAIN step :
    /\ step[k] \in {"pending", "rearm", "ended"} => guest[k] = NULL
    /\ step[k] \in {"test", "endAccept", "count", "construct"} /\ guest[k] # NULL =>
         link[guest[k]] = "accepted"
    /\ step[k] = "construct" => \A c \in Client : id[c] < lastId
    /\ step[k] \in {"subscribe", "add"} => id[guest[k]] # 0

(* Ids, which only Construct gives.                                        *)
Numbered ==
  \A c \in Client :
    /\ id[c] <= lastId
    /\ link[c] \in {"away", "backlog", "accepted"} => id[c] = 0 /\ ~subscribed[c]
    /\ link[c] = "open" => id[c] # 0
    /\ \A d \in Client : id[c] = id[d] /\ id[c] # 0 => c = d

(* The table, and the snapshots of it, hold connections under their ids.   *)
Entered ==
  /\ \A i \in DOMAIN table : i # 0 /\ id[table[i]] = i
  /\ \A t \in Thread : \A c \in toClose[t] : id[c] # 0

LEMMA OneChainStep ==
  ASSUME SingleBinder, IInv, OneChain, [Next]_vars PROVE OneChain'
<1>1. ThreadsOK /\ Courses /\ ChainsOK
  BY TypeParts DEF IInv
<1>2. ASSUME NEW t \in Thread, Steps(t) PROVE OneChain'
  <2>1. pc[t] # "done" /\ \A u \in Thread \ {t} : pc'[u] = pc[u]
    <3>1. pc[t] # "done"
      BY <1>2 DEF Steps, StopTest, Deactivate, CloseListener, CloseAll, CloseNext, CloseCollides,
         AllClosed, DisposeTest, DisposeListener, ForgetListener, Begins, SetEndpoint, Activate,
         CreateListener, BindListener, Listen, BeginAccept, BindFails
    <3>2. CASE GivesUp(t)
      BY <1>1, <3>1, <3>2 DEF GivesUp, OnError, Goto, ThreadsOK
    <3>3. CASE \E l \in Label \ {"failed", "running"} : \E p : Goes(t, l, p)
      BY <1>1, <3>1, <3>3 DEF Goes, ThreadsOK
    <3> QED BY <1>1, <1>2, <3>2, <3>3, StepGoes
  <2>2. CASE UNCHANGED chainVars
    BY <2>1, <2>2 DEF OneChain, chainVars, Thread
  <2>3. CASE BeginAccept(t) /\ ~UNCHANGED chainVars
    <3>1. t \in Binder
      <4>1. phase[t] \in Course(t) /\ "accept" \in Reach[phase[t]]
        BY <1>1, <2>3 DEF BeginAccept, Courses
      <4> QED BY <4>1 DEF Course, Reach, Stopping, Cleaning, Thread
    <3>2. step = <<>> /\ step' = Append(step, "pending") /\ pc'[t] = "done"
      BY <1>1, <2>3, <3>1 DEF BeginAccept, OneChain, Goto, ThreadsOK
    <3>3. Len(step') = 1
      BY <3>2
    <3> QED BY <3>1, <3>2, <3>3 DEF OneChain, SingleBinder
  <2> QED BY <1>2, <2>2, <2>3, ThreadsTouch
<1>3. ASSUME NEW k \in DOMAIN step, Accepts(k) PROVE OneChain'
  <2>1. UNCHANGED pc /\ \E l \in Callback : step' = [step EXCEPT ![k] = l]
    BY <1>3 DEF Accepts, AcceptCompletes, CallbackTest, EndAccept, Count, Construct, Subscribe,
       TryAdd, InitCleanup, Rearm, threadVars, Advance, Callback
  <2>2. Len(step') = Len(step)
    BY <1>1, <2>1, SeqExcept DEF ChainsOK
  <2>3. step # <<>>
    BY <1>3
  <2> QED BY <2>1, <2>2, <2>3 DEF OneChain
<1>4. ASSUME \/ \E c \in Client : ConnectionEnds(c) \/ Connects(c) \/ Resets(c)
             \/ TimerTick \/ \E i \in keys : TimerVisits(i)
             \/ \E p \in Port : Takes(p) \/ Releases(p)
             \/ UNCHANGED vars
      PROVE  UNCHANGED <<pc, step>>
  BY <1>4 DEF ConnectionEnds, Connects, Resets, TimerTick, TimerVisits, Takes, Releases, vars, threadVars,
     chainVars
<1> QED BY <1>2, <1>3, <1>4 DEF Next, OneChain

(* What is said of the clients, the chains and the table together.         *)
Kept == Guests /\ Numbered /\ Entered /\ OpenIsTracked

(* A step that opens, numbers and enters nothing.                          *)
LEMMA KeptQuietly ==
  ASSUME Kept, UNCHANGED <<step, guest, lastId, id, subscribed, table, toClose>>,
         reset \subseteq reset',
         \A c \in Client :
           \/ link'[c] = link[c]
           \/ link[c] \in {"away", "backlog"} /\ link'[c] \in {"backlog", "closed"},
         GuestIsThere, ChainsOK
  PROVE  Kept'
<1>1. \A k \in DOMAIN step : guest[k] \in Client \union {NULL}
  BY ElementOfSeq, LenProperties DEF ChainsOK
<1>2. Guests'
  BY <1>1 DEF Kept, Guests
<1>3. Numbered'
  BY DEF Kept, Numbered
<1>4. Entered'
  BY DEF Kept, Entered
<1>5. OpenIsTracked'
  BY DEF Kept, OpenIsTracked, InTable, AboutToEnter
<1> QED BY <1>2, <1>3, <1>4, <1>5 DEF Kept

(* A connection is closed, and its entry removed if it has one.            *)
LEMMA KeptClosing ==
  ASSUME Kept, ConnectionsOK, ChainsOK, NEW c \in Client, id[c] # 0,
         link' = [link EXCEPT ![c] = "closed"], table' = table \/ table' = Without(id[c]),
         UNCHANGED <<step, guest, lastId, id, subscribed, reset>>,
         \A t \in Thread : toClose'[t] \subseteq toClose[t]
  PROVE  Kept'
<1>1. \A k \in DOMAIN step : guest[k] \in Client \union {NULL}
  BY ElementOfSeq, LenProperties DEF ChainsOK
<1>2. \A d \in Client : link'[d] = IF d = c THEN "closed" ELSE link[d]
  BY DEF ConnectionsOK
<1>3. Guests'
  <2>1. \A d \in Client : link[d] = "accepted" => link'[d] = "accepted"
    BY <1>2 DEF Kept, Numbered
  <2> QED BY <1>1, <2>1 DEF Kept, Guests
<1>4. Numbered'
  BY <1>2 DEF Kept, Numbered
<1>5. Entered'
  BY DEF Kept, Entered, Without
<1>6. OpenIsTracked'
  <2>1. SUFFICES ASSUME NEW d \in Client, link'[d] = "open"
                 PROVE  \/ id[d] \in DOMAIN table' /\ table'[id[d]] = d
                        \/ \E k \in DOMAIN step : guest[k] = d /\ step[k] \in {"subscribe", "add"}
                        \/ d \in reset /\ ~subscribed[d]
    BY DEF OpenIsTracked, InTable, AboutToEnter
  <2>2. d # c /\ link[d] = "open" /\ id[d] # id[c]
    BY <1>2, <2>1 DEF Kept, Numbered
  <2> QED BY <2>2 DEF Kept, OpenIsTracked, InTable, AboutToEnter, Without
<1> QED BY <1>3, <1>4, <1>5, <1>6 DEF Kept

LEMMA KeptByAccepts ==
  ASSUME IInv, OneChain, Kept, NEW k \in DOMAIN step, Accepts(k)
  PROVE  Kept'
<1>1. ChainsOK /\ ConnectionsOK /\ GuestIsThere
  BY TypeParts DEF IInv
<1>2. DOMAIN step = {k} /\ DOMAIN guest = {k} /\ guest[k] \in Client \union {NULL}
  <2>1. Len(step) \in Nat /\ DOMAIN step = 1..Len(step) /\ Len(step) <= 1
    BY <1>1, LenProperties DEF ChainsOK, OneChain
  <2>2. Len(step) = 1 /\ k = 1
    BY <2>1
  <2>3. DOMAIN guest = 1..Len(step)
    BY <1>1, LenProperties DEF ChainsOK
  <2> QED BY <1>1, <2>1, <2>2, <2>3, ElementOfSeq DEF ChainsOK
<1>3. toClose' = toClose
  BY DEF Accepts, AcceptCompletes, CallbackTest, EndAccept, Count, Construct, Subscribe, TryAdd,
     InitCleanup, Rearm, threadVars
<1>4. Numbered /\ Entered /\ OpenIsTracked /\ Guests
  BY DEF Kept
<1>5. ASSUME NEW l, Advance(k, l) PROVE step'[k] = l /\ DOMAIN step' = {k}
  BY <1>2, <1>5 DEF Advance
<1>6. ASSUME UNCHANGED <<id, table>> PROVE Entered'
  BY <1>3, <1>4, <1>6 DEF Entered
<1>7. ASSUME UNCHANGED <<id, subscribed>>, lastId' \in {lastId, lastId + 1},
             \A c \in Client :
               \/ link'[c] = link[c]
               \/ link'[c] = "accepted" /\ link[c] = "backlog"
               \/ link'[c] = "lost"
      PROVE  Numbered'
  BY <1>1, <1>4, <1>7 DEF Numbered, ConnectionsOK
<1>8. ASSUME UNCHANGED <<id, table, subscribed, reset>>, \A c \in Client : link'[c] = "open" => link[c] = "open",
             step[k] \notin {"subscribe", "add"}
      PROVE  OpenIsTracked'
  BY <1>2, <1>4, <1>8 DEF OpenIsTracked, InTable, AboutToEnter
<1>9. ASSUME NEW l \in {"ended", "rearm"}, Abandon(k), Advance(k, l),
             UNCHANGED <<id, lastId, table, subscribed, reset>>, step[k] \notin {"subscribe", "add"}
      PROVE  Kept'
  <2>1. step'[k] = l /\ DOMAIN step' = {k} /\ guest'[k] = NULL
    BY <1>2, <1>5, <1>9 DEF Abandon
  <2>2. \A c \in Client : link'[c] = link[c] \/ link'[c] = "lost"
    BY <1>9 DEF Abandon
  <2>3. Guests'
    BY <2>1, <1>9 DEF Guests
  <2> QED BY <1>6, <1>7, <1>8, <1>9, <2>2, <2>3 DEF Kept
<1>10. ASSUME NEW l \in {"endAccept", "count", "pending", "ended"}, Advance(k, l),
              UNCHANGED <<guest, link, id, lastId, table, subscribed, reset>>,
              IF l \in {"pending", "ended"} THEN step[k] = "rearm" ELSE step[k] \in {"test", "endAccept"}
       PROVE  Kept'
  <2>1. step'[k] = l /\ DOMAIN step' = {k} /\ guest'[k] = guest[k]
    BY <1>5, <1>10
  <2>2. Guests'
    BY <1>2, <1>4, <1>10, <2>1 DEF Guests
  <2> QED BY <1>6, <1>7, <1>8, <1>10, <2>2 DEF Kept
<1>11. CASE AcceptCompletes(k)
  <2>1. /\ step[k] = "pending" /\ step'[k] = "test" /\ DOMAIN step' = {k}
        /\ UNCHANGED <<lastId, id, table, subscribed, reset>>
    BY <1>5, <1>11 DEF AcceptCompletes, connVars
  <2>2. CASE UNCHANGED <<guest, link>>
    <3>1. Guests'
      BY <1>4, <2>1, <2>2 DEF Guests
    <3> QED BY <1>6, <1>7, <1>8, <2>1, <2>2, <3>1 DEF Kept
  <2>3. ASSUME NEW c \in Client, link[c] = "backlog", guest' = [guest EXCEPT ![k] = c],
               Becomes(c, "accepted")
        PROVE  Kept'
    <3>1. guest'[k] = c /\ link'[c] = "accepted" /\ \A d \in Client \ {c} : link'[d] = link[d]
      BY <1>1, <1>2, <2>3 DEF Becomes, ConnectionsOK
    <3>2. Guests'
      BY <2>1, <3>1 DEF Guests
    <3> QED BY <1>6, <1>7, <1>8, <2>1, <2>3, <3>1, <3>2 DEF Kept
  <2> QED BY <1>11, <2>2, <2>3 DEF AcceptCompletes
<1>12. CASE CallbackTest(k) \/ EndAccept(k)
  <2>1. step[k] \in {"test", "endAccept"} /\ UNCHANGED <<lastId, id, table, subscribed, reset>>
    BY <1>12 DEF CallbackTest, EndAccept, connVars
  <2>2. \/ Abandon(k) /\ (Advance(k, "ended") \/ Advance(k, "rearm"))
        \/ UNCHANGED <<guest, link>> /\ (Advance(k, "endAccept") \/ Advance(k, "count"))
    BY <1>12 DEF CallbackTest, EndAccept
  <2> QED BY <1>9, <1>10, <2>1, <2>2
<1>13. CASE Count(k)
  <2>1. step[k] = "count" /\ UNCHANGED <<id, table, subscribed, reset>>
    BY <1>13 DEF Count
  <2>2. CASE Abandon(k) /\ Advance(k, "rearm") /\ UNCHANGED lastId
    BY <1>9, <2>1, <2>2
  <2>3. CASE lastId' = lastId + 1 /\ Advance(k, "construct") /\ UNCHANGED <<guest, link>>
    <3>1. step'[k] = "construct" /\ DOMAIN step' = {k}
      BY <1>5, <2>3
    <3>2. \A c \in Client : id'[c] < lastId'
      BY <1>1, <1>4, <2>1, <2>3 DEF Numbered, ConnectionsOK
    <3>3. Guests'
      BY <1>4, <2>1, <2>3, <3>1, <3>2 DEF Guests
    <3> QED BY <1>6, <1>7, <1>8, <2>1, <2>3, <3>3 DEF Kept
  <2> QED BY <1>13, <2>2, <2>3 DEF Count
<1>14. CASE Construct(k)
  <2>1. PICK g \in Client : g = guest[k]
    BY <1>1, <1>14 DEF Construct, GuestIsThere, Holding
  <2>2. /\ step[k] = "construct" /\ DOMAIN step' = {k} /\ UNCHANGED <<lastId, table, subscribed, reset>>
        /\ \/ step'[k] = "subscribe" /\ guest' = guest
           \/ step'[k] = "rearm" /\ guest'[k] = NULL /\ g \in reset
    BY <1>2, <1>5, <1>14, <2>1 DEF Construct
  <2>3. /\ id'[g] = lastId /\ \A c \in Client \ {g} : id'[c] = id[c]
        /\ link'[g] = "open" /\ \A c \in Client \ {g} : link'[c] = link[c]
    BY <1>1, <1>14, <2>1 DEF Construct, Becomes, ConnectionsOK
  <2>4. /\ link[g] = "accepted" /\ id[g] = 0 /\ ~subscribed[g]
        /\ \A c \in Client : id[c] < lastId
    BY <1>2, <1>4, <2>1, <2>2, ServerAssumption DEF Guests, Numbered
  <2>5. lastId \in Nat /\ lastId # 0
    BY <1>1, <2>4 DEF ConnectionsOK
  <2>6. Guests'
    BY <2>1, <2>2, <2>3, <2>5 DEF Guests
  <2>7. Numbered'
    <3>1. \A c \in Client : id[c] \in Nat
      BY <1>1 DEF ConnectionsOK
    <3> QED BY <1>4, <2>2, <2>3, <2>4, <2>5, <3>1 DEF Numbered
  <2>8. Entered'
    <3>1. \A i \in DOMAIN table : table[i] \in Client \ {g}
      BY <1>1, <1>4, <2>4 DEF Entered, ConnectionsOK
    <3>2. \A t \in Thread : g \notin toClose[t] /\ toClose[t] \subseteq Client
      BY <1>4, <2>4, TypeParts DEF Entered, IInv, ThreadsOK
    <3> QED BY <1>3, <1>4, <2>2, <2>3, <3>1, <3>2 DEF Entered
  <2>9. OpenIsTracked'
    <3>1. \A c \in Client \ {g} : link[c] = "open" => InTable(c) \/ (c \in reset /\ ~subscribed[c])
      BY <1>2, <1>4, <2>1 DEF OpenIsTracked, AboutToEnter
    <3>2. AboutToEnter(g)' \/ (g \in reset' /\ ~subscribed'[g])
      BY <2>1, <2>2, <2>4 DEF AboutToEnter
    <3> QED BY <2>2, <2>3, <3>1, <3>2 DEF OpenIsTracked, InTable
  <2> QED BY <2>6, <2>7, <2>8, <2>9 DEF Kept
<1>15. CASE Subscribe(k)
  <2>1. PICK g \in Client : g = guest[k]
    BY <1>1, <1>15 DEF Subscribe, GuestIsThere, Holding
  <2>2. /\ step[k] = "subscribe" /\ step'[k] = "add" /\ DOMAIN step' = {k}
        /\ UNCHANGED <<guest, lastId, id, reset, table, link>>
        /\ \A c \in Client \ {g} : subscribed'[c] = subscribed[c]
    BY <1>1, <1>5, <1>15, <2>1 DEF Subscribe, ConnectionsOK
  <2>3. Guests'
    BY <1>4, <2>2 DEF Guests
  <2>4. id[g] # 0
    BY <1>4, <2>1, <2>2 DEF Guests
  <2>5. Numbered'
    BY <1>4, <2>2, <2>4 DEF Numbered
  <2>6. OpenIsTracked'
    <3>1. AboutToEnter(g)'
      BY <2>1, <2>2 DEF AboutToEnter
    <3>2. \A c \in Client \ {g} : link[c] = "open" => InTable(c) \/ (c \in reset /\ ~subscribed[c])
      BY <1>2, <1>4, <2>1 DEF OpenIsTracked, AboutToEnter
    <3> QED BY <2>2, <3>1, <3>2 DEF OpenIsTracked, InTable
  <2> QED BY <1>6, <2>2, <2>3, <2>5, <2>6 DEF Kept
<1>16. CASE TryAdd(k)
  <2>1. PICK g \in Client : g = guest[k]
    BY <1>1, <1>16 DEF TryAdd, GuestIsThere, Holding
  <2>2. /\ step[k] = "add" /\ step'[k] = "init" /\ DOMAIN step' = {k}
        /\ UNCHANGED <<guest, lastId, id, link, subscribed, reset>>
    BY <1>5, <1>16 DEF TryAdd, connVars
  <2>3. /\ \A i \in DOMAIN table : i \in DOMAIN table' /\ table'[i] = table[i]
        /\ id[g] \in DOMAIN table'
        /\ DOMAIN table' = DOMAIN table \union {id[g]}
        /\ id[g] \notin DOMAIN table => table'[id[g]] = g
    BY <1>16, <2>1 DEF TryAdd
  <2>4. id[g] # 0
    BY <1>4, <2>1, <2>2 DEF Guests
  <2>5. table'[id[g]] = g
    <3>1. CASE id[g] \in DOMAIN table
      <4>1. table[id[g]] \in Client /\ id[table[id[g]]] = id[g]
        BY <1>1, <1>4, <3>1 DEF Entered, ConnectionsOK
      <4> QED BY <1>4, <2>3, <2>4, <3>1, <4>1 DEF Numbered
    <3> QED BY <2>3, <3>1
  <2>6. Guests'
    BY <2>2 DEF Guests
  <2>7. Entered'
    BY <1>3, <1>4, <2>2, <2>3, <2>4, <2>5 DEF Entered
  <2>8. OpenIsTracked'
    BY <1>2, <1>4, <2>1, <2>2, <2>3, <2>5 DEF OpenIsTracked, InTable, AboutToEnter
  <2> QED BY <1>7, <2>2, <2>6, <2>7, <2>8 DEF Kept
<1>17. CASE InitCleanup(k)
  <2>1. /\ step[k] = "init" /\ step'[k] = "rearm" /\ DOMAIN step' = {k} /\ guest'[k] = NULL
        /\ UNCHANGED <<lastId, id, table, link, subscribed, reset>>
    BY <1>2, <1>5, <1>17 DEF InitCleanup, connVars
  <2>2. Guests'
    BY <2>1 DEF Guests
  <2> QED BY <1>6, <1>7, <1>8, <2>1, <2>2 DEF Kept
<1>18. CASE Rearm(k)
  <2>1. /\ step[k] = "rearm" /\ (Advance(k, "pending") \/ Advance(k, "ended"))
        /\ UNCHANGED <<guest, link, id, lastId, table, subscribed, reset>>
    BY <1>18 DEF Rearm, connVars
  <2> QED BY <1>10, <2>1
<1> QED BY <1>11, <1>12, <1>13, <1>14, <1>15, <1>16, <1>17, <1>18 DEF Accepts

LEMMA KeptStep ==
  ASSUME IInv, OneChain, OneChain', Kept, [Next]_vars PROVE Kept'
<1>1. ChainsOK /\ ConnectionsOK /\ GuestIsThere /\ ThreadsOK
  BY TypeParts DEF IInv
<1>2. Numbered /\ Entered /\ OpenIsTracked /\ Guests
  BY DEF Kept
<1>3. ASSUME NEW s, CloseSocket(s)
      PROVE  \A c \in Client :
               \/ link'[c] = link[c]
               \/ link[c] \in {"away", "backlog"} /\ link'[c] \in {"backlog", "closed"}
  BY <1>3 DEF CloseSocket
<1>4. ASSUME NEW t \in Thread, Steps(t), UNCHANGED chainVars PROVE Kept'
  <2>1. UNCHANGED <<step, guest, lastId, id, subscribed, reset>>
    BY <1>4, ThreadsTouch DEF chainVars, connVars
  <2>2. CASE CloseAll(t)
    <3>1. /\ toClose' = [toClose EXCEPT ![t] = {table[k] : k \in DOMAIN table}]
          /\ UNCHANGED <<table, link>>
      BY <2>2 DEF CloseAll
    <3>2. Entered'
      <4>1. \A u \in Thread : toClose'[u] = IF u = t THEN {table[k] : k \in DOMAIN table} ELSE toClose[u]
        BY <1>1, <3>1 DEF ThreadsOK
      <4> QED BY <1>2, <2>1, <3>1, <4>1 DEF Entered
    <3>3. Guests' /\ Numbered'
      BY <1>2, <2>1, <3>1 DEF Guests, Numbered
    <3>4. OpenIsTracked'
      BY <1>2, <2>1, <3>1 DEF OpenIsTracked, InTable, AboutToEnter
    <3> QED BY <3>2, <3>3, <3>4 DEF Kept
  <2>3. CASE CloseNext(t) \/ CloseCollides(t)
    <3>1. PICK c \in toClose[t] : link' = [link EXCEPT ![c] = "closed"] /\ table' = Without(id[c])
      BY <2>3 DEF CloseNext, CloseCollides
    <3>2. c \in Client /\ id[c] # 0
      BY <1>1, <1>2 DEF ThreadsOK, Entered
    <3>3. \A u \in Thread : toClose'[u] \subseteq toClose[u]
      BY <1>1, <2>3 DEF CloseNext, CloseCollides, ThreadsOK
    <3> QED BY <1>1, <2>1, <3>1, <3>2, <3>3, KeptClosing
  <2>4. CASE ~(CloseAll(t) \/ CloseNext(t) \/ CloseCollides(t))
    <3>1. UNCHANGED <<table, toClose>>
      BY <1>4, <2>4 DEF Steps, StopTest, Deactivate, CloseListener, AllClosed, DisposeTest,
         DisposeListener, ForgetListener, Begins, SetEndpoint, Activate, CreateListener,
         BindListener, Listen, BeginAccept, BindFails
    <3>2. UNCHANGED link \/ CloseSocket(listener)
      BY <1>4, <2>4 DEF Steps, StopTest, Deactivate, CloseListener, AllClosed, DisposeTest,
         DisposeListener, ForgetListener, Begins, SetEndpoint, Activate, CreateListener,
         BindListener, Listen, BeginAccept, BindFails
    <3> QED BY <1>1, <1>3, <2>1, <3>1, <3>2, KeptQuietly
  <2> QED BY <2>2, <2>3, <2>4
<1>5. ASSUME NEW t \in Thread, BeginAccept(t), ~UNCHANGED chainVars PROVE Kept'
  <2>1. /\ step' = Append(step, "pending") /\ guest' = Append(guest, NULL)
        /\ UNCHANGED <<lastId, id, subscribed, reset, link, table, toClose>>
    BY <1>5 DEF BeginAccept, connVars
  <2>2. step = <<>> /\ guest = <<>>
    <3>1. Len(step') = Len(step) + 1 /\ Len(step) \in Nat /\ Len(step') <= 1
      BY <1>1, <2>1, AppendProperties, LenProperties DEF ChainsOK, OneChain, Callback
    <3> QED BY <1>1, <3>1, EmptySeq DEF ChainsOK
  <2>3. \A k \in DOMAIN step' : step'[k] = "pending" /\ guest'[k] = NULL
    BY <2>1, <2>2
  <2>4. Guests'
    BY <2>3 DEF Guests
  <2>5. OpenIsTracked'
    BY <1>2, <2>1, <2>2 DEF OpenIsTracked, InTable, AboutToEnter
  <2>6. Numbered' /\ Entered'
    BY <1>2, <2>1 DEF Numbered, Entered
  <2> QED BY <2>4, <2>5, <2>6 DEF Kept
<1>6. ASSUME NEW c \in Client, Disconnect(c), id[c] # 0, UNCHANGED <<chainVars, connVars, toClose>>
      PROVE  Kept'
  <2>1. /\ link' = [link EXCEPT ![c] = "closed"] /\ (table' = table \/ table' = Without(id[c]))
        /\ UNCHANGED <<step, guest, lastId, id, subscribed, reset, toClose>>
    BY <1>6 DEF Disconnect, chainVars, connVars
  <2>2. \A t \in Thread : toClose'[t] \subseteq toClose[t]
    BY <2>1
  <2> QED BY <1>1, <1>6, <2>1, <2>2, KeptClosing
<1>7. ASSUME UNCHANGED <<chainVars, connVars, table, link, toClose>> PROVE Kept'
  BY <1>1, <1>7, KeptQuietly DEF chainVars, connVars
<1>8. ASSUME NEW c \in Client, ConnectionEnds(c) \/ Connects(c) \/ Resets(c) PROVE Kept'
  <2>1. CASE ConnectionEnds(c)
    BY <1>2, <1>6, <2>1 DEF ConnectionEnds, Numbered, threadVars
  <2>2. CASE Connects(c)
    <3>1. UNCHANGED <<step, guest, lastId, id, subscribed, reset, table, toClose>>
      BY <2>2 DEF Connects, threadVars, chainVars, connVars
    <3>2. \A d \in Client :
            \/ link'[d] = link[d]
            \/ link[d] \in {"away", "backlog"} /\ link'[d] \in {"backlog", "closed"}
      BY <1>1, <2>2 DEF Connects, Becomes, ConnectionsOK
    <3> QED BY <1>1, <3>1, <3>2, KeptQuietly
  <2>3. CASE Resets(c)
    <3>1. /\ UNCHANGED <<step, guest, lastId, id, subscribed, link, table, toClose>>
          /\ reset \subseteq reset'
      BY <2>3 DEF Resets, threadVars, chainVars
    <3> QED BY <1>1, <3>1, KeptQuietly
  <2> QED BY <1>8, <2>1, <2>2, <2>3
<1>9. CASE TimerTick
  BY <1>7, <1>9 DEF TimerTick, threadVars
<1>10. ASSUME NEW i \in keys, TimerVisits(i) PROVE Kept'
  <2>1. UNCHANGED <<chainVars, connVars, toClose>>
    BY <1>10 DEF TimerVisits, threadVars
  <2>2. CASE i \in DOMAIN table /\ Disconnect(table[i])
    <3>1. table[i] \in Client /\ id[table[i]] # 0
      BY <1>1, <1>2, <2>2 DEF ConnectionsOK, Entered
    <3> QED BY <1>6, <2>1, <2>2, <3>1
  <2>3. CASE UNCHANGED <<table, link>>
    BY <1>7, <2>1, <2>3
  <2> QED BY <1>10, <2>2, <2>3 DEF TimerVisits
<1>11. CASE (\E p \in Port : Takes(p) \/ Releases(p)) \/ UNCHANGED vars
  BY <1>7, <1>11 DEF Takes, Releases, threadVars, vars, chainVars, connVars
<1> QED BY <1>4, <1>5, <1>8, <1>9, <1>10, <1>11, KeptByAccepts, ThreadsTouch DEF Next

(* With one binder every open connection is in the table under its own id, *)
(* or about to be entered, whatever the callbacks, the timer, a shutdown   *)
(* and the clients do: CloseAll and the timer miss none but one its client *)
(* reset while it was set up, to which nothing was ever subscribed.        *)
THEOREM EveryConnectionIsTracked ==
  ASSUME SingleBinder PROVE Spec => []OpenIsTracked
<1>1. ASSUME Init PROVE IInv /\ OneChain /\ Kept
  <2>1. DOMAIN step = {} /\ DOMAIN table = {} /\ Len(step) = 0
    BY <1>1 DEF Init
  <2>2. OneChain
    BY <1>1, <2>1 DEF Init, OneChain
  <2>3. Guests /\ Entered
    BY <1>1, <2>1 DEF Init, Guests, Entered
  <2>4. Numbered /\ OpenIsTracked
    BY <1>1 DEF Init, Numbered, OpenIsTracked
  <2> QED BY <1>1, <2>2, <2>3, <2>4, Initially DEF Kept
<1>2. IInv /\ OneChain /\ Kept /\ [Next]_vars => IInv' /\ OneChain' /\ Kept'
  BY Inductive, OneChainStep, KeptStep
<1>3. Kept => OpenIsTracked
  BY DEF Kept
<1> QED BY <1>1, <1>2, <1>3, PTL DEF Spec

-----------------------------------------------------------------------------
(* A server that is active accepts                                         *)

Idle == {"running", "delay", "done", "failed"}

(* A binder comes to rest by beginning to accept, or with the server off.  *)
LEMMA BinderRests ==
  ASSUME IInv, valid = Binder, NEW t \in Binder, t # Exit, Steps(t), pc'[t] \in Idle
  PROVE  \/ ~active'
         \/ /\ Listening /\ UNCHANGED serverVars
            /\ step' = Append(step, "pending") /\ on' = Append(on, listener)
<1>1. ThreadsOK /\ phase[t] \in {"bind", "listen", "start"} /\ t \in Thread
  BY TypeParts DEF IInv, Courses, Course, Thread
<1>2. ASSUME NEW l, Goto(t, l) PROVE l \in Idle
  BY <1>1, <1>2 DEF Goto, ThreadsOK
<1>3. ~Return(t)
  BY <1>1, <1>2 DEF Return, Resume, Idle
<1>4. ~Throw(t)
  BY <1>1, <1>2, <1>3 DEF Throw, Idle
<1>5. CASE StopTest(t) \/ Deactivate(t) \/ CloseListener(t) \/ CloseAll(t)
  BY <1>2, <1>3, <1>4, <1>5 DEF StopTest, Deactivate, CloseListener, CloseAll, Idle
<1>6. CASE CloseNext(t)
  BY <1>6 DEF CloseNext, Idle
<1>7. CASE CloseCollides(t) \/ AllClosed(t) \/ DisposeTest(t) \/ DisposeListener(t)
  BY <1>2, <1>3, <1>4, <1>7 DEF CloseCollides, AllClosed, DisposeTest, DisposeListener, Idle
<1>8. CASE ForgetListener(t) \/ Begins(t) \/ SetEndpoint(t) \/ Activate(t) \/ CreateListener(t)
  BY <1>2, <1>3, <1>8 DEF ForgetListener, Begins, SetEndpoint, Activate, CreateListener, Idle
<1>9. CASE BindListener(t) \/ Listen(t)
  BY <1>2, <1>4, <1>9 DEF BindListener, Listen, Idle
<1>10. CASE BeginAccept(t)
  BY <1>4, <1>10 DEF BeginAccept
<1>11. CASE BindFails(t)
  BY <1>11 DEF BindFails
<1> QED BY <1>5, <1>6, <1>7, <1>8, <1>9, <1>10, <1>11 DEF Steps

(* The callback of a chain comes back to the listener, or the chain does   *)
(* not end, while the server is active and listens.                        *)
LEMMA ChainReturns ==
  ASSUME IInv, active, Listening, NEW k \in DOMAIN step, Accepts(k),
         \E j \in DOMAIN step : step[j] # "ended" /\ (step[j] = "pending" => on[j] = listener)
  PROVE  \E j \in DOMAIN step' : step'[j] # "ended" /\ (step'[j] = "pending" => on'[j] = listener)
<1>1. step \in Seq(Callback) /\ Len(on) = Len(step) /\ on \in Seq(1..Len(status))
  BY DEF IInv, TypeOK
<1>2. PICK j \in DOMAIN step : step[j] # "ended" /\ (step[j] = "pending" => on[j] = listener)
  OBVIOUS
<1>3. \E l : Advance(k, l)
  BY DEF Accepts, AcceptCompletes, CallbackTest, EndAccept, Count, Construct, Subscribe, TryAdd,
     InitCleanup, Rearm
<1>4. DOMAIN step' = DOMAIN step /\ DOMAIN on = DOMAIN step
      /\ \A i \in DOMAIN step \ {k} : step'[i] = step[i]
  BY <1>1, <1>3, LenProperties DEF Advance
<1>5. \A i \in DOMAIN step \ {k} : on'[i] = on[i]
  BY <1>4 DEF Accepts, AcceptCompletes, CallbackTest, EndAccept, Count, Construct, Subscribe,
     TryAdd, InitCleanup, Rearm
<1>6. CASE j # k
  BY <1>2, <1>4, <1>5, <1>6
<1>7. CASE j = k
  <2>1. listener # 0 /\ step[k] # "ended"
    BY <1>2, <1>7 DEF Listening
  <2>2. ASSUME NEW l, Advance(k, l) PROVE step'[k] = l
    BY <2>2 DEF Advance
  <2>3. step'[k] # "ended" /\ (step'[k] = "pending" => on'[k] = listener)
    BY <1>4, <2>1, <2>2 DEF Accepts, AcceptCompletes, CallbackTest, EndAccept, Count, Construct,
       Subscribe, TryAdd, InitCleanup, Rearm
  <2> QED BY <1>4, <2>3
<1> QED BY <1>6, <1>7

LEMMA SameAddresses ==
  ASSUME [Next]_vars PROVE valid' = valid
<1>1. ASSUME NEW t \in Thread, Steps(t) PROVE valid' = valid
  BY <1>1 DEF Steps, StopTest, Deactivate, CloseListener, CloseAll, CloseNext, CloseCollides,
     AllClosed, DisposeTest, DisposeListener, ForgetListener, Begins, SetEndpoint, Activate,
     CreateListener, BindListener, Listen, BeginAccept, BindFails, worldVars
<1>2. ASSUME NEW k \in DOMAIN step, Accepts(k) PROVE valid' = valid
  BY <1>2 DEF Accepts, AcceptCompletes, CallbackTest, EndAccept, Count, Construct, Subscribe,
     TryAdd, InitCleanup, Rearm, worldVars
<1>3. ASSUME \/ \E c \in Client : ConnectionEnds(c) \/ Connects(c) \/ Resets(c)
             \/ TimerTick \/ \E i \in keys : TimerVisits(i)
             \/ \E p \in Port : Takes(p) \/ Releases(p)
             \/ UNCHANGED vars
      PROVE  valid' = valid
  BY <1>3 DEF ConnectionEnds, Connects, Resets, TimerTick, TimerVisits, Takes, Releases, vars,
     worldVars
<1> QED BY <1>1, <1>2, <1>3 DEF Next

LEMMA AcceptsStep ==
  ASSUME IInv, IInv', AcceptsWhileActive, [Next]_vars PROVE AcceptsWhileActive'
<1> SUFFICES ASSUME active', Settled', pc'[Exit] = "running", valid' = Binder
             PROVE  /\ Listening'
                    /\ \E k \in DOMAIN step' :
                         step'[k] # "ended" /\ (step'[k] = "pending" => on'[k] = listener')
  BY DEF AcceptsWhileActive
<1>1. /\ step \in Seq(Callback) /\ on \in Seq(1..Len(status)) /\ Len(on) = Len(step)
      /\ listener \in 0..Len(status) /\ Len(status) \in Nat
  BY LenProperties DEF IInv, TypeOK
<1>2. /\ pc[Exit] = "running" /\ \A t \in Thread : Steps(t) => t \in Binder /\ t # Exit
      /\ valid = Binder
  BY ExitLeaves, SameAddresses
<1>3. ASSUME NEW t \in Thread, Steps(t)
      PROVE  /\ Listening'
             /\ \E k \in DOMAIN step' :
                  step'[k] # "ended" /\ (step'[k] = "pending" => on'[k] = listener')
  <2>1. pc'[t] \in Idle
    BY DEF Settled, Idle
  <2>2. /\ Listening /\ UNCHANGED serverVars
        /\ step' = Append(step, "pending") /\ on' = Append(on, listener)
    BY <1>2, <1>3, <2>1, BinderRests
  <2>3. Listening'
    BY <2>2 DEF Listening, serverVars
  <2>4. Len(step) + 1 \in DOMAIN step'
        /\ step'[Len(step) + 1] = "pending" /\ on'[Len(step) + 1] = listener
    BY <1>1, <2>2, AppendProperties, LenProperties
  <2>5. listener' = listener
    BY <2>2 DEF serverVars
  <2> QED BY <2>3, <2>4, <2>5
<1>4. ASSUME UNCHANGED <<serverVars, threadVars>>
      PROVE  /\ active /\ Listening /\ Listening' /\ listener' = listener
             /\ \E k \in DOMAIN step :
                  step[k] # "ended" /\ (step[k] = "pending" => on[k] = listener)
  <2>1. active /\ Settled
    BY <1>4 DEF serverVars, threadVars, Settled
  <2>2. Listening /\ \E k \in DOMAIN step :
          step[k] # "ended" /\ (step[k] = "pending" => on[k] = listener)
    BY <1>2, <2>1 DEF AcceptsWhileActive
  <2>3. Listening'
    BY <1>4, <2>2 DEF Listening, serverVars
  <2> QED BY <1>4, <2>1, <2>2, <2>3 DEF serverVars
<1>5. ASSUME NEW k \in DOMAIN step, Accepts(k) PROVE UNCHANGED <<serverVars, threadVars>>
  BY <1>5 DEF Accepts, AcceptCompletes, CallbackTest, EndAccept, Count, Construct, Subscribe,
     TryAdd, InitCleanup, Rearm
<1>6. ASSUME NEW k \in DOMAIN step, Accepts(k)
      PROVE  /\ Listening'
             /\ \E j \in DOMAIN step' :
                  step'[j] # "ended" /\ (step'[j] = "pending" => on'[j] = listener')
  BY <1>4, <1>5, <1>6, ChainReturns
<1>7. ASSUME \/ \E c \in Client : ConnectionEnds(c) \/ Connects(c) \/ Resets(c)
             \/ TimerTick \/ \E i \in keys : TimerVisits(i)
             \/ \E p \in Port : Takes(p) \/ Releases(p)
             \/ UNCHANGED vars
      PROVE  UNCHANGED <<serverVars, threadVars, chainVars>>
  BY <1>7 DEF ConnectionEnds, Connects, Resets, TimerTick, TimerVisits, Takes, Releases, vars,
     serverVars, threadVars, chainVars
<1>8. ASSUME UNCHANGED <<serverVars, threadVars, chainVars>>
      PROVE  /\ Listening'
             /\ \E k \in DOMAIN step' :
                  step'[k] # "ended" /\ (step'[k] = "pending" => on'[k] = listener')
  BY <1>4, <1>8 DEF chainVars
<1> QED BY <1>3, <1>6, <1>7, <1>8 DEF Next

(* For any number of binders, on one end point or several, and clients:    *)
(* when the threads have come to rest before a shutdown, a server that     *)
(* says it is active listens, and a chain of callbacks is pending on its   *)
(* listener or comes back to it.  The thread that rests last has either    *)
(* begun to accept or left the server inactive.                            *)
THEOREM ActiveServerAccepts == Spec => []AcceptsWhileActive
<1>1. Init => AcceptsWhileActive
  BY DEF Init, AcceptsWhileActive
<1>2. IInv /\ IInv' /\ AcceptsWhileActive /\ [Next]_vars => AcceptsWhileActive'
  BY AcceptsStep
<1>3. IInv /\ [Next]_vars => IInv'
  BY Inductive
<1> QED BY <1>1, <1>2, <1>3, Initially, PTL DEF Spec
=============================================================================
