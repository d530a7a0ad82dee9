---------------------------- MODULE ListenServer ----------------------------
(***************************************************************************)
(* Smtp/Server.cs and ConnectionManager.cs of Papercut.Network: a server   *)
(* that is bound, stopped and disposed of by several threads, its accept   *)
(* callbacks, and the table of connections with its cleanup timer.         *)
(*                                                                         *)
(* A binder is one subscription of BindObservable, as the coordinators     *)
(* make it: delayed, Stop and Listen, and again when that throws.  The     *)
(* exit thread calls Stop, then Dispose.  Every read or write of a field   *)
(* two threads share is a step of its own, except that a callback reads    *)
(* IsActive and _listener together.                                        *)
(***************************************************************************)
EXTENDS Naturals, Sequences, FiniteSets

CONSTANTS
  Binder,       \* calls of BindObservable
  Exit,         \* the thread that shuts the program down
  Client,       \* programs that connect, once each
  Port,         \* the end points in the settings
  Endpoint,     \* the end point each binder was given
  NULL,         \* the null of C#
  Exits,        \* the program is shut down in the end
  MaxAttempts   \* Retry(n): how often a binder is subscribed

ASSUME ServerAssumption ==
  /\ Exit \notin Binder /\ NULL \notin Client
  /\ Endpoint \in [Binder -> Port]
  /\ Exits \in BOOLEAN /\ MaxAttempts \in Nat \ {0}

Thread == Binder \union {Exit}

VARIABLES
  active,     \* Server._isActive
  endpoint,   \* Server._address and _port
  listener,   \* Server._listener: a socket's number, or 0 for null
  status,     \* the sockets ever created, and what the system holds of each
  portOf,     \* the end point each is bound to
  taken,      \* end points another process is bound to
  valid,      \* binders whose address IPAddress.Parse accepts
  pc,         \* where each thread stands
  phase,      \* the call it is in: see Resume
  attempts,   \* the subscriptions of a binder that have failed
  toClose,    \* what is left of the snapshot CloseAll enumerates
  step,       \* where each chain of OnClientAccept callbacks stands
  on,         \* the socket it accepts from
  guest,      \* the client it has accepted
  lastId,     \* ConnectionManager._connectionID
  table,      \* ConnectionManager._connections, from ids to clients
  link,       \* how far each client has come
  reset,      \* clients that reset a connection while it was set up
  at,         \* the socket it has connected to
  id,         \* Connection.Id
  subscribed, \* ConnectionClosed has its handler
  timer,      \* the cleanup timer
  keys        \* the keys the timer has still to visit

worldVars  == <<taken, valid>>
serverVars == <<active, endpoint, listener, status, portOf>>
threadVars == <<pc, phase, attempts, toClose>>
chainVars  == <<step, on, guest>>
connVars   == <<lastId, id, subscribed, reset>>
timerVars  == <<timer, keys>>
vars == <<active, endpoint, listener, status, portOf, taken, valid, pc, phase, attempts,
          toClose, step, on, guest, lastId, table, link, reset, at, id, subscribed, timer,
          keys>>

Init ==
  /\ active = FALSE /\ endpoint = NULL /\ listener = 0
  /\ status = <<>> /\ portOf = <<>>
  /\ taken \in SUBSET Port /\ valid \in SUBSET Binder
  /\ pc = [t \in Thread |-> IF t = Exit THEN "running" ELSE "delay"]
  /\ phase = [t \in Thread |-> IF t = Exit THEN "exit" ELSE "bind"]
  /\ attempts = [b \in Binder |-> 0]
  /\ toClose = [t \in Thread |-> {}]
  /\ step = <<>> /\ on = <<>> /\ guest = <<>>
  /\ lastId = 0 /\ table = <<>>
  /\ link = [c \in Client |-> "away"] /\ reset = {}
  /\ at = [c \in Client |-> 0]
  /\ id = [c \in Client |-> 0]
  /\ subscribed = [c \in Client |-> FALSE]
  /\ timer = "off" /\ keys = {}

-----------------------------------------------------------------------------
(* Threads                                                                 *)

Goto(t, l) == pc' = [pc EXCEPT ![t] = l]

(* BindObservable calls Stop, then Listen, which calls Stop again and then *)
(* Start; the exit thread calls Stop, then Dispose, which calls Stop,      *)
(* CleanupListener and CloseAll.  What follows each call:                  *)
Resume ==
  [bind    |-> [phase |-> "listen", pc |-> "stop"],
   listen  |-> [phase |-> "start",  pc |-> "endpoint"],
   start   |-> [phase |-> "start",  pc |-> "create"],
   exit    |-> [phase |-> "again",  pc |-> "stop"],
   again   |-> [phase |-> "clean",  pc |-> "dispose"],
   clean   |-> [phase |-> "all",    pc |-> "closeAll"],
   all     |-> [phase |-> "all",    pc |-> "done"]]

Return(t) ==
  /\ Goto(t, Resume[phase[t]].pc)
  /\ phase' = [phase EXCEPT ![t] = Resume[phase[t]].phase]

(* Stop and ConnectionManager.Dispose swallow an exception, Start resets   *)
(* IsActive on its way out, and Dispose gives up.                          *)
Throw(t) ==
  \/ phase[t] = "start" /\ Goto(t, "failing") /\ UNCHANGED phase
  \/ phase[t] = "clean" /\ Goto(t, "done") /\ UNCHANGED phase
  \/ phase[t] \notin {"start", "clean"} /\ Return(t)

-----------------------------------------------------------------------------
(* Sockets and connections                                                 *)

(* The clients still waiting in a closed listener's backlog are refused.   *)
CloseSocket(s) ==
  /\ status' = [status EXCEPT ![s] = "closed"]
  /\ link' = [c \in Client |->
                IF link[c] = "backlog" /\ at[c] = s THEN "closed" ELSE link[c]]

Without(k) == [i \in DOMAIN table \ {k} |-> table[i]]

(* Connection.Close with its event.                                        *)
Disconnect(c) ==
  /\ link' = [link EXCEPT ![c] = "closed"]
  /\ table' = IF subscribed[c] THEN Without(id[c]) ELSE table

-----------------------------------------------------------------------------
(* Server.Stop                                                             *)

StopTest(t) ==
  /\ pc[t] = "stop"
  /\ \/ active /\ Goto(t, "deactivate") /\ UNCHANGED phase
     \/ ~active /\ Return(t)
  /\ UNCHANGED <<serverVars, worldVars, attempts, toClose, chainVars, connVars, table,
                 link, at, timerVars>>

Deactivate(t) ==
  /\ pc[t] = "deactivate"
  /\ active' = FALSE
  /\ Goto(t, "closeListener")
  /\ UNCHANGED <<endpoint, listener, status, portOf, worldVars, phase, attempts, toClose,
                 chainVars, connVars, table, link, at, timerVars>>

CloseListener(t) ==
  /\ pc[t] = "closeListener"
  /\ \/ /\ listener = 0
        /\ Throw(t)
        /\ UNCHANGED <<status, link>>
     \/ /\ listener # 0
        /\ CloseSocket(listener)
        /\ Goto(t, "closeAll") /\ UNCHANGED phase
  /\ UNCHANGED <<active, endpoint, listener, portOf, worldVars, attempts, toClose,
                 chainVars, connVars, table, at, timerVars>>

(* ConnectionManager.CloseAll, over the values the dictionary had.         *)
CloseAll(t) ==
  /\ pc[t] = "closeAll"
  /\ toClose' = [toClose EXCEPT ![t] = {table[k] : k \in DOMAIN table}]
  /\ Goto(t, "closing")
  /\ UNCHANGED <<serverVars, worldVars, phase, attempts, chainVars, connVars, table, link,
                 at, timerVars>>

(* Mutant: the entry is removed, and the connection forgotten.             *)
CloseNextForgets(t) ==
  /\ pc[t] = "closing"
  /\ \E c \in toClose[t] :
       /\ table' = Without(id[c])
       /\ toClose' = [toClose EXCEPT ![t] = @ \ {c}]
  /\ UNCHANGED <<serverVars, worldVars, pc, phase, attempts, chainVars, connVars, link, at,
                 timerVars>>

CloseNext(t) ==
  /\ pc[t] = "closing"
  /\ \E c \in toClose[t] :
       /\ table' = Without(id[c])
       /\ link' = [link EXCEPT ![c] = "closed"]
       /\ toClose' = [toClose EXCEPT ![t] = @ \ {c}]
  /\ UNCHANGED <<serverVars, worldVars, pc, phase, attempts, chainVars, connVars, at,
                 timerVars>>

(* The connection closes itself between the test of Client.Connected and   *)
(* Shutdown: Close throws out of the loop, and out of Stop.                *)
CloseCollides(t) ==
  /\ pc[t] = "closing"
  /\ \E c \in toClose[t] :
       /\ link[c] = "open"
       /\ table' = Without(id[c])
       /\ link' = [link EXCEPT ![c] = "closed"]
  /\ toClose' = [toClose EXCEPT ![t] = {}]
  /\ Return(t)
  /\ timer' = IF phase[t] = "all" THEN "disposed" ELSE timer
  /\ UNCHANGED <<serverVars, worldVars, attempts, chainVars, connVars, at, keys>>

(* At the end of ConnectionManager.Dispose the timer goes as well.         *)
AllClosed(t) ==
  /\ pc[t] = "closing" /\ toClose[t] = {}
  /\ \/ phase[t] = "all" /\ Return(t) /\ timer' = "disposed"
     \/ phase[t] # "all" /\ Goto(t, "dispose") /\ UNCHANGED <<phase, timer>>
  /\ UNCHANGED <<serverVars, worldVars, attempts, toClose, chainVars, connVars, table, link,
                 at, keys>>

-----------------------------------------------------------------------------
(* CleanupListener, called from Stop, Start and Dispose                    *)

DisposeTest(t) ==
  /\ pc[t] = "dispose"
  /\ \/ listener = 0 /\ Return(t)
     \/ listener # 0 /\ Goto(t, "disposing") /\ UNCHANGED phase
  /\ UNCHANGED <<serverVars, worldVars, attempts, toClose, chainVars, connVars, table, link,
                 at, timerVars>>

(* Mutant: the reference is cleared, the socket left to the collector.     *)
DisposeListenerLater(t) ==
  /\ pc[t] = "disposing"
  /\ Goto(t, "forget")
  /\ UNCHANGED <<serverVars, worldVars, phase, attempts, toClose, chainVars, connVars, table,
                 link, at, timerVars>>

DisposeListener(t) ==
  /\ pc[t] = "disposing"
  /\ \/ /\ listener = 0
        /\ Throw(t)
        /\ UNCHANGED <<status, link>>
     \/ /\ listener # 0
        /\ CloseSocket(listener)
        /\ Goto(t, "forget") /\ UNCHANGED phase
  /\ UNCHANGED <<active, endpoint, listener, portOf, worldVars, attempts, toClose, chainVars,
                 connVars, table, at, timerVars>>

ForgetListener(t) ==
  /\ pc[t] = "forget"
  /\ listener' = 0
  /\ Return(t)
  /\ UNCHANGED <<active, endpoint, status, portOf, worldVars, attempts, toClose, chainVars,
                 connVars, table, link, at, timerVars>>

-----------------------------------------------------------------------------
(* Server.SetEndpoint and Start                                            *)

(* The delay of a subscription is over, or the program is to end.          *)
Begins(t) ==
  /\ pc[t] = "delay" \/ (pc[t] = "running" /\ Exits)
  /\ Goto(t, "stop")
  /\ UNCHANGED <<serverVars, worldVars, phase, attempts, toClose, chainVars, connVars, table,
                 link, at, timerVars>>

(* The observable fails, and is subscribed again up to the limit.          *)
OnError(t) ==
  /\ attempts' = [attempts EXCEPT ![t] = @ + 1]
  /\ Goto(t, IF attempts[t] + 1 < MaxAttempts THEN "delay" ELSE "failed")
  /\ phase' = [phase EXCEPT ![t] = "bind"]

(* Parse throws before the try clause of Start: IsActive stays as it is.   *)
SetEndpoint(t) ==
  /\ pc[t] = "endpoint"
  /\ \/ /\ t \in valid
        /\ endpoint' = Endpoint[t]
        /\ Goto(t, "activate")
        /\ UNCHANGED <<phase, attempts>>
     \/ /\ t \notin valid
        /\ OnError(t)
        /\ UNCHANGED endpoint
  /\ UNCHANGED <<active, listener, status, portOf, worldVars, toClose, chainVars,
                 connVars, table, link, at, timerVars>>

Activate(t) ==
  /\ pc[t] = "activate"
  /\ active' = TRUE
  /\ Goto(t, "dispose")
  /\ UNCHANGED <<endpoint, listener, status, portOf, worldVars, phase, attempts, toClose,
                 chainVars, connVars, table, link, at, timerVars>>

CreateListener(t) ==
  /\ pc[t] = "create"
  /\ status' = Append(status, "new")
  /\ portOf' = Append(portOf, NULL)
  /\ listener' = Len(status) + 1
  /\ Goto(t, "bind")
  /\ UNCHANGED <<active, endpoint, worldVars, phase, attempts, toClose, chainVars, connVars,
                 table, link, at, timerVars>>

(* An end point has one socket; a socket is bound once.                    *)
Free(p) ==
  /\ p \notin taken
  /\ \A s \in DOMAIN status : status[s] \in {"bound", "listening"} => portOf[s] # p

BindListener(t) ==
  /\ pc[t] = "bind"
  /\ LET bindable == listener # 0 /\ status[listener] = "new" /\ Free(endpoint)
     IN \/ /\ bindable
           /\ status' = [status EXCEPT ![listener] = "bound"]
           /\ portOf' = [portOf EXCEPT ![listener] = endpoint]
           /\ Goto(t, "listen") /\ UNCHANGED phase
        \/ /\ ~bindable
           /\ Throw(t)
           /\ UNCHANGED <<status, portOf>>
  /\ UNCHANGED <<active, endpoint, listener, worldVars, attempts, toClose, chainVars,
                 connVars, table, link, at, timerVars>>

Listen(t) ==
  /\ pc[t] = "listen"
  /\ LET ready == listener # 0 /\ status[listener] \in {"bound", "listening"}
     IN \/ /\ ready
           /\ status' = [status EXCEPT ![listener] = "listening"]
           /\ Goto(t, "accept") /\ UNCHANGED phase
        \/ /\ ~ready
           /\ Throw(t)
           /\ UNCHANGED status
  /\ UNCHANGED <<active, endpoint, listener, portOf, worldVars, attempts, toClose, chainVars,
                 connVars, table, link, at, timerVars>>

Listening == listener # 0 /\ status[listener] = "listening"

BeginAccept(t) ==
  /\ pc[t] = "accept"
  /\ \/ /\ Listening
        /\ step' = Append(step, "pending")
        /\ on' = Append(on, listener)
        /\ guest' = Append(guest, NULL)
        /\ Goto(t, "done") /\ UNCHANGED phase
     \/ /\ ~Listening
        /\ Throw(t)
        /\ UNCHANGED chainVars
  /\ UNCHANGED <<serverVars, worldVars, attempts, toClose, connVars, table, link, at,
                 timerVars>>

(* Mutant: the count of subscriptions is tested after the next has begun.  *)
BindFailsOnceMore(t) ==
  /\ pc[t] = "failing"
  /\ active' = FALSE
  /\ attempts' = [attempts EXCEPT ![t] = @ + 1]
  /\ Goto(t, IF attempts[t] < MaxAttempts THEN "delay" ELSE "failed")
  /\ phase' = [phase EXCEPT ![t] = "bind"]
  /\ UNCHANGED <<endpoint, listener, status, portOf, worldVars, toClose, chainVars, connVars,
                 table, link, at, timerVars>>

(* The catch clause of Start.                                              *)
BindFails(t) ==
  /\ pc[t] = "failing"
  /\ active' = FALSE
  /\ OnError(t)
  /\ UNCHANGED <<endpoint, listener, status, portOf, worldVars, toClose, chainVars, connVars,
                 table, link, at, timerVars>>

Steps(t) ==
  \/ StopTest(t) \/ Deactivate(t) \/ CloseListener(t)
  \/ CloseAll(t) \/ CloseNext(t) \/ CloseCollides(t) \/ AllClosed(t)
  \/ DisposeTest(t) \/ DisposeListener(t) \/ ForgetListener(t)
  \/ Begins(t) \/ SetEndpoint(t) \/ Activate(t) \/ CreateListener(t)
  \/ BindListener(t) \/ Listen(t) \/ BeginAccept(t) \/ BindFails(t)

-----------------------------------------------------------------------------
(* OnClientAccept                                                          *)

Advance(k, l) == step' = [step EXCEPT ![k] = l]

Becomes(c, l) == link' = [link EXCEPT ![c] = l]

(* The system completes a pending accept: with a client, or because the    *)
(* socket was closed.                                                      *)
AcceptCompletes(k) ==
  /\ step[k] = "pending"
  /\ \/ /\ status[on[k]] = "listening"
        /\ \E c \in Client :
             /\ link[c] = "backlog" /\ at[c] = on[k]
             /\ guest' = [guest EXCEPT ![k] = c]
             /\ Becomes(c, "accepted")
     \/ /\ status[on[k]] = "closed"
        /\ UNCHANGED <<guest, link>>
  /\ Advance(k, "test")
  /\ UNCHANGED <<serverVars, worldVars, threadVars, on, connVars, table, at, timerVars>>

(* A client whose accept is not ended is connected to nobody.              *)
Abandon(k) ==
  /\ link' = [c \in Client |-> IF c = guest[k] THEN "lost" ELSE link[c]]
  /\ guest' = [guest EXCEPT ![k] = NULL]

CallbackTest(k) ==
  /\ step[k] = "test"
  /\ \/ /\ active /\ listener # 0
        /\ Advance(k, "endAccept")
        /\ UNCHANGED <<guest, link>>
     \/ /\ ~active \/ listener = 0
        /\ Abandon(k)
        /\ Advance(k, "ended")
  /\ UNCHANGED <<serverVars, worldVars, threadVars, on, connVars, table, at, timerVars>>

(* Mutant: an exception in EndAccept ends the chain.                       *)
EndAcceptGivesUp(k) ==
  /\ step[k] = "endAccept"
  /\ \/ /\ listener = on[k] /\ Listening /\ guest[k] # NULL
        /\ Advance(k, "count")
        /\ UNCHANGED <<guest, link>>
     \/ /\ Abandon(k)
        /\ Advance(k, "ended")
  /\ UNCHANGED <<serverVars, worldVars, threadVars, on, connVars, table, at, timerVars>>

(* EndAccept throws when _listener is null, closed, or another socket than *)
(* the one the accept was begun on, and when the client has reset.         *)
EndAccept(k) ==
  /\ step[k] = "endAccept"
  /\ \/ /\ listener = on[k] /\ Listening /\ guest[k] # NULL
        /\ Advance(k, "count")
        /\ UNCHANGED <<guest, link>>
     \/ /\ Abandon(k)
        /\ Advance(k, "rearm")
  /\ UNCHANGED <<serverVars, worldVars, threadVars, on, connVars, table, at, timerVars>>

(* ConnectionManager.CreateConnection: the increment, the read of the      *)
(* counter and the constructor, the subscription, the entry.  Dispose has  *)
(* set the manager to null.                                                *)
Dismissed == phase[Exit] = "all" /\ pc[Exit] = "done"

Count(k) ==
  /\ step[k] = "count"
  /\ \/ /\ ~Dismissed
        /\ lastId' = lastId + 1
        /\ Advance(k, "construct")
        /\ UNCHANGED <<guest, link>>
     \/ /\ Dismissed
        /\ Abandon(k)
        /\ Advance(k, "rearm")
        /\ UNCHANGED lastId
  /\ UNCHANGED <<serverVars, worldVars, threadVars, on, id, subscribed, reset, table, at,
                 timerVars>>

(* Where the client has reset, BeginReceive or the greeting of Begin throws*)
(* out of the constructor and of CreateConnection.  Connected is set by    *)
(* then, and nothing closes the socket.                                    *)
Construct(k) ==
  /\ step[k] = "construct"
  /\ id' = [id EXCEPT ![guest[k]] = lastId]
  /\ Becomes(guest[k], "open")
  /\ \/ /\ Advance(k, "subscribe")
        /\ UNCHANGED guest
     \/ /\ guest[k] \in reset
        /\ Advance(k, "rearm")
        /\ guest' = [guest EXCEPT ![k] = NULL]
  /\ UNCHANGED <<serverVars, worldVars, threadVars, on, lastId, subscribed, reset, table, at,
                 timerVars>>

Subscribe(k) ==
  /\ step[k] = "subscribe"
  /\ subscribed' = [subscribed EXCEPT ![guest[k]] = TRUE]
  /\ Advance(k, "add")
  /\ UNCHANGED <<serverVars, worldVars, threadVars, on, guest, lastId, id, reset, table, link,
                 at, timerVars>>

TryAdd(k) ==
  /\ step[k] = "add"
  /\ LET i == id[guest[k]]
     IN table' = IF i \in DOMAIN table THEN table
                 ELSE [j \in DOMAIN table \union {i} |-> IF j = i THEN guest[k] ELSE table[j]]
  /\ Advance(k, "init")
  /\ UNCHANGED <<serverVars, worldVars, threadVars, on, guest, connVars, link, at, timerVars>>

(* Reading RemoteEndPoint throws where the connection is closed already or *)
(* the client has reset it.                                                *)
InitCleanup(k) ==
  /\ step[k] = "init"
  /\ \/ timer' = IF timer = "off" THEN "on" ELSE timer
     \/ /\ link[guest[k]] = "closed" \/ guest[k] \in reset
        /\ UNCHANGED timer
  /\ guest' = [guest EXCEPT ![k] = NULL]
  /\ Advance(k, "rearm")
  /\ UNCHANGED <<serverVars, worldVars, threadVars, on, connVars, table, link, at, keys>>

(* The finally clause begins the next accept on whatever _listener is now. *)
Rearm(k) ==
  /\ step[k] = "rearm"
  /\ \/ /\ active /\ Listening
        /\ on' = [on EXCEPT ![k] = listener]
        /\ Advance(k, "pending")
     \/ /\ ~(active /\ Listening)
        /\ Advance(k, "ended")
        /\ UNCHANGED on
  /\ UNCHANGED <<serverVars, worldVars, threadVars, guest, connVars, table, link, at, timerVars>>

Accepts(k) ==
  \/ AcceptCompletes(k) \/ CallbackTest(k) \/ EndAccept(k)
  \/ Count(k) \/ Construct(k) \/ Subscribe(k) \/ TryAdd(k) \/ InitCleanup(k) \/ Rearm(k)

-----------------------------------------------------------------------------
(* Connections and the cleanup timer                                       *)

(* Connection.Close, from the connection's own callback.                   *)
ConnectionEnds(c) ==
  /\ link[c] = "open"
  /\ Disconnect(c)
  /\ UNCHANGED <<serverVars, worldVars, threadVars, chainVars, connVars, at, timerVars>>

TimerTick ==
  /\ timer = "on" /\ keys = {} /\ table # <<>>
  /\ keys' = DOMAIN table
  /\ UNCHANGED <<serverVars, worldVars, threadVars, chainVars, connVars, table, link, at, timer>>

(* _connections[key] of a connection that has gone since throws out of the *)
(* subscription, as does Close on one that is closing; the timer ends.     *)
(* Else a connection that is idle is closed, and a closed one is idle in   *)
(* the end.                                                                *)
TimerVisits(i) ==
  /\ i \in keys
  /\ \/ /\ i \in DOMAIN table
        /\ keys' = keys \ {i}
        /\ \/ Disconnect(table[i])
           \/ link[table[i]] = "open" /\ UNCHANGED <<table, link>>
        /\ UNCHANGED timer
     \/ /\ i \in DOMAIN table => link[table[i]] = "open"
        /\ \/ i \in DOMAIN table /\ Disconnect(table[i])
           \/ i \notin DOMAIN table /\ UNCHANGED <<table, link>>
        /\ keys' = {}
        /\ timer' = "dead"
  /\ UNCHANGED <<serverVars, worldVars, threadVars, chainVars, connVars, at>>

-----------------------------------------------------------------------------
(* The other processes                                                     *)

Connects(c) ==
  /\ link[c] = "away"
  /\ \E s \in DOMAIN status :
       /\ status[s] = "listening"
       /\ at' = [at EXCEPT ![c] = s]
  /\ Becomes(c, "backlog")
  /\ UNCHANGED <<serverVars, worldVars, threadVars, chainVars, connVars, table, timerVars>>

(* A client resets the connection while OnClientAccept sets it up; later it*)
(* is the end of the connection.                                           *)
Resets(c) ==
  /\ c \notin reset
  /\ \E k \in DOMAIN step : guest[k] = c
  /\ reset' = reset \union {c}
  /\ UNCHANGED <<serverVars, worldVars, threadVars, chainVars, lastId, id, subscribed, table,
                 link, at, timerVars>>

Takes(p) ==
  /\ Free(p)
  /\ taken' = taken \union {p}
  /\ UNCHANGED <<serverVars, valid, threadVars, chainVars, connVars, table, link, at, timerVars>>

Releases(p) ==
  /\ p \in taken
  /\ taken' = taken \ {p}
  /\ UNCHANGED <<serverVars, valid, threadVars, chainVars, connVars, table, link, at, timerVars>>

Next ==
  \/ \E t \in Thread : Steps(t)
  \/ \E k \in DOMAIN step : Accepts(k)
  \/ \E c \in Client : ConnectionEnds(c) \/ Connects(c) \/ Resets(c)
  \/ TimerTick
  \/ \E i \in keys : TimerVisits(i)
  \/ \E p \in Port : Takes(p) \/ Releases(p)

Spec == Init /\ [][Next]_vars

-----------------------------------------------------------------------------
(* Properties                                                              *)

SocketState == {"new", "bound", "listening", "closed"}

Label == {"running", "delay", "stop", "deactivate", "closeListener", "closeAll", "closing",
          "dispose", "disposing", "forget", "endpoint", "activate", "create", "bind", "listen",
          "accept", "failing", "done", "failed"}

Callback == {"pending", "test", "endAccept", "count", "construct", "subscribe", "add", "init",
             "rearm", "ended"}

LinkState == {"away", "backlog", "accepted", "open", "closed", "lost"}

TypeOK ==
  /\ active \in BOOLEAN /\ endpoint \in Port \union {NULL}
  /\ status \in Seq(SocketState)
  /\ portOf \in Seq(Port \union {NULL}) /\ Len(portOf) = Len(status)
  /\ listener \in 0..Len(status) /\ taken \subseteq Port /\ valid \subseteq Binder
  /\ pc \in [Thread -> Label]
  /\ phase \in [Thread -> DOMAIN Resume] /\ attempts \in [Binder -> 0..MaxAttempts]
  /\ toClose \in [Thread -> SUBSET Client]
  /\ step \in Seq(Callback)
  /\ on \in Seq(1..Len(status)) /\ Len(on) = Len(step)
  /\ guest \in Seq(Client \union {NULL}) /\ Len(guest) = Len(step)
  /\ lastId \in Nat /\ id \in [Client -> Nat] /\ subscribed \in [Client -> BOOLEAN]
  /\ DOMAIN table \subseteq Nat /\ \A i \in DOMAIN table : table[i] \in Client
  /\ link \in [Client -> LinkState] /\ reset \subseteq Client
  /\ at \in [Client -> 0..Len(status)]
  /\ timer \in {"off", "on", "dead", "disposed"} /\ keys \subseteq Nat

Settled == \A t \in Thread : pc[t] \in {"running", "delay", "done", "failed"}

(* A server that is active when no thread is at work on it accepts: its    *)
(* listener listens, and a chain of callbacks is pending on it or comes    *)
(* back to it.  A chain must survive every exception of its callback.  Not *)
(* said where an address does not parse: a binder that gives up in front of*)
(* Start leaves IsActive as another binder has set it meanwhile.           *)
AcceptsWhileActive ==
  active /\ Settled /\ pc[Exit] = "running" /\ valid = Binder =>
    /\ Listening
    /\ \E k \in DOMAIN step :
         step[k] # "ended" /\ (step[k] = "pending" => on[k] = listener)

InTable(c) == id[c] \in DOMAIN table /\ table[id[c]] = c

AboutToEnter(c) == \E k \in DOMAIN step : guest[k] = c /\ step[k] \in {"subscribe", "add"}

(* Every open connection is in the table under its own id, where CloseAll  *)
(* and the timer find it, or is about to be entered.  The one exception is *)
(* a connection that its client reset while it was set up, and whose       *)
(* constructor threw: nothing was subscribed to it and it is in no table.  *)
OpenIsTracked ==
  \A c \in Client : link[c] = "open" =>
    InTable(c) \/ AboutToEnter(c) \/ (c \in reset /\ ~subscribed[c])

(* However often binding fails, one socket at most is left to the server   *)
(* until the program is being shut down, and it is the one that Stop and   *)
(* Dispose will close.                                                     *)
NoSocketLeaks ==
  pc[Exit] = "running" => \A s \in DOMAIN status : status[s] # "closed" => s = listener
=============================================================================
