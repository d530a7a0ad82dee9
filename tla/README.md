# Papercut in TLA+

Papercut is a Windows SMTP server for development: it accepts every message,
stores it as an `.eml` file and shows it.  The same server runs inside a WPF
application (`Papercut.UI`) and as a Windows service (`Papercut.Service`); the
two could talk to each other over a small protocol of their own, of which this fork
has commented one side out.  This directory
holds TLA+ models of its concurrent and stateful parts, the TLC runs that check
them and the proofs about them.  Paths below are relative to `src/src/` unless
they begin with `src/`.

## 1. Inventory

| Component | State it keeps | Operations | Meets | What is hard | What makes it correct |
|---|---|---|---|---|---|
| SMTP conversation (`Papercut.Network/Connection.cs`, `Protocols/`, `SmtpCommands/`, `SmtpSession`) | `Connected`, `LastActivity`, `Encoding`; `_stringBuffer`; sender, `MailFrom`, `Recipients`, `Username` | receive callback, one class per command, `Close` | socket, message handler, idle timer, `Server.Stop` | two readers of one socket, partial receives, exceptions that leave a command, closing from three threads | envelopes in order; the message handed over is the one composed; one reply per command; a closed connection stays closed; nobody waits for ever |
| Listening server and connection table (`Smtp/Server.cs`, `ConnectionManager.cs`) | `_isActive`, `_listener`, end point; `_connections`, `_connectionID`, `_isInitialized` | `Listen`, `Stop`, accept callback, `CreateConnection`, `CloseAll`, cleanup timer, `Dispose` | connections, both applications | concurrent binders and accept callbacks, a listener replaced under a pending accept, races on the table | no connection survives `Stop`; every open connection is in the table; the server goes on accepting |
| Message store (`Papercut.Message/`) | the files in the load and save paths | `SaveMessage`, `CreateUniqueFile`, `LoadMessages`, `DeleteMessage`, path assembly | `DATA`, message bus, rules, UI | concurrent savers, names that collide, failing writes after the 250 | an acknowledged message is stored and stays as it was received |
| Message watcher and list (`MessageWatcher.cs`, `MessageListViewModel.cs`) | watchers per path; the observed list | file events, refresh, selection, deletion | store, UI | events against refreshes | the list shows the files |
| Message cache and loading (`MimeMessageLoader.cs`, `MemoryCacheExtensions.cs`, `MessageDetailViewModel.cs`) | a memory cache, striped locks; `IsLoading` | `Get`, `GetOrSet`, asynchronous load | store, UI | stale entries, out-of-order results | one load per entry; what is shown is what is selected |
| Papercut protocol (`PapercutProtocol.cs`, `PapercutClient.cs`) | a command and its payload in transit | publish, exchange | UI and service | partial reads, a missing acknowledgement | an exchanged event arrives once and whole |
| Service and UI coordinators (`Papercut.Service/Services`, `Papercut.UI/Services`) | settings, who listens for SMTP | start, settings and rules exchange | server, Papercut protocol | two processes starting and stopping in any order | exactly one of them listens |
| Rules (`Papercut.Rules/`, `RuleServiceBase`) | the rule collection, its file | run on a new message, update, save | message bus, SMTP client | updates during a run, retries | a rule is applied to each message at most once |
| Paths and settings (`Domain/Paths`, `Domain/Settings`, `Json`) | load and save paths, a settings dictionary | load, save, get-or-set | all of the above | a crash during a save, a change during a use | settings survive |
| Message bus (`MessageBus/`) | none | publish | all | one handler of several failing | every handler is called |
| Web UI (`Papercut.Module.WebUI/`) | the page: list, page, preview, cache, pending events; none on the server | poll, page, select, delete all; list, get, delete | store | answers out of order, requests that fail | the page shows what was asked for, and catches up |
| Views, hosting, plugins, logging, installer | presentation and start-up | | | | |

The hazards found in this code, each at its line, are listed in `PROJECT.json`.

## 2. Plan

The modules, most important behaviour first.  Each has an `MC` module with its
instance for TLC and, but for the abstract `MessageFolder`, a module of proofs;
`SmtpConversation` has two, the second about both ends of the dialogue.

1. `SmtpConversation`: one connection from the accepted socket to the message handler.
2. `ListenServer`: `Server` and `ConnectionManager`, with concurrent binders, accept
   callbacks, the shutdown and the cleanup timer.
3. `MessageStore`: concurrent saves, reads and deletions in the shared folder; it
   implements `MessageFolder`, in which a message appears in one step.
4. `MessageLoading`: the cache and its striped locks in front of the store, composed
   with `MessageStore`, which it implements: the cache adds nothing to what the folder,
   the deliveries and the reads can do.
5. `RuleForwarding`: the task that runs the rules for a saved message, and the dispatch
   of each rule with its retries.
6. `MessageList`: the watcher, the list with its selection, and the detail.
7. `WebPage`: the controller of the web page, its requests and the server's answers.

What remains is not modelled, for the reasons given in section 6.  The composition of
a conversation with the store was considered and left out: the two meet in one call
(`HandleReceived`, behind the 250), in which neither reads what the other has written;
every behaviour of the one may meet every behaviour of the other.

There is no `RECURSIVE` operator in any module, so that all can be proved about.

## 3. The models

### SmtpConversation

State: `connected` and `encoding` are the properties of `Connection`; `begun` says
that `SmtpProtocol.Begin` has set its context, `registered` that `CreateConnection` has
entered the connection in the table; `sender`, `mailFrom`, `recipients`,
`username` are `SmtpSession`; `buffer` is `_stringBuffer`; `reader` is what the
`StreamReader` of `ReadTextStream` holds beyond the lines it has returned
(`linesRead`); `rx` is where the receive callback stands: waiting for bytes
(`armed`), splitting lines (`lines`), inside DATA (`body`) or AUTH (`plain`, `user`,
`pass`), calling the handler (`handing`), left without another receive (`deaf`),
over (`done`).  `cut` says that the client shut down in the middle of a line.  `stale`
abstracts the clock to "`LastActivity` is more than twenty
minutes old", `silent` to "nothing was read from the socket for as long".

Actions: one per command class with every reply, early return and exception
(`Helo`, `Mail`, `Rcpt`, `Data`, `Rset`, `Quit`, `Auth` and its three reads,
`NoopOrNotImplemented`, `BlankLine`, `Unrecognised`), the receive callback
(`Receive...`), both readers of the socket (`ReaderFill`, `BodyLine`, `BodyEnd`,
`BodyUnfinished`, `BodyNull`, `BodyReadFails`), the handler, and the two other threads
that close a connection (`IdleClose`, `CloseAll`), which know it from the table only.
`Begin` sends the greeting from inside the constructor: on a socket the client has reset
it throws, `CreateConnection` is left, and the connection stays connected, receiving and
unknown to the table.  At the end of the stream `ReadLine` returns what is left without a
line break as a line, and null only behind it: `BodyUnfinished` and `AuthUnfinished` read
some beginning of the line that was cut (`Beginnings`), which may be the dot alone.  The
client is a lock-step one, which awaits each reply, or (`LockStep = FALSE`) one that sends
what it likes when it likes; it may reset at any time, and shut down at any time, also in
the middle of a line.

Abstraction: a line is a number of leading dots and a text from `Text`; it crosses
the socket as two fragments, so a 64-byte receive can cut it and a buffer can hold a
half.  Two halves of different lines are a line no command matches.  An address is
a model value, or one of the two shapes the handlers answer with 504 or fail on.
`RequiresAuthentication` is a property of the session that nothing in this
repository sets; both values are models of the code.

### ListenServer

State: `active`, `endpoint`, `listener` are the fields of `Server`; a socket is a
number, `status` and `portOf` are what the operating system knows of it, `taken`
the end points of other processes, `valid` the binders whose address can be parsed,
`reset` the clients that reset a connection while it is set up.  A *binder* is one subscription of
`BindObservable` - delayed, `Stop`, `Listen`, and again on an exception up to
`MaxAttempts` times - as the coordinators of both applications create for every
change of settings; `Exit` is the thread that stops and disposes the server.  A
*chain* (`step`, `on`, `guest`) is a sequence of `OnClientAccept` callbacks, each begun
by the one before it.  `table`, `lastId` and `id` are `_connections`, `_connectionID`
and `Connection.Id`; `timer` and `keys` the cleanup subscription and the keys it has
still to visit.

Actions: every read or write of a field that two threads share is a step of its own,
so `Stop` is `StopTest`, `Deactivate`, `CloseListener`, `CloseAll`, `CloseNext` (per
connection) and `CleanupListener` (`DisposeTest`, `DisposeListener`,
`ForgetListener`); `Start` is `Activate`, the cleanup again, `CreateListener`,
`BindListener`, `Listen`, `BeginAccept`, or `BindFails`.  `Resume` says which call
follows which; `Throw` where an exception leads.  `CreateConnection` is `Count`,
`Construct`, `Subscribe`, `TryAdd`, `InitCleanup`; the constructor throws where the client
has reset, and the callback goes on without the connection.  An address that does not parse
throws in `SetEndpoint`, in front of the `try` of `Start`.  What sockets do (one socket per
end point, refusal of a backlog on close, completion of accepts) is modelled from
how the code uses them and marked external in the map.

### MessageStore

State: `files` maps a path to whose message it holds and how much of it; `pc` and
`path` are the place and the local path of each `HandleReceived` and each
`GetMessage`; `crashes` is `crashCount` or `retryCount`; `published` and `deleted`
record announcements and user deletions.  A path is its base (folder, recipient,
subject), its time stamp and its random part.  The clock is local time and may go
back.  Deliveries may belong to several services that share a folder, which
`src/README.md` allows (many services on one machine).

Actions: `GenerateFilePath`, `CreateDirectoryFails` (outside of the loop's `try`), `Create`
(replaces a closed file, as `File.Create` does), `CreateFails` with its limit, `WriteTo`,
`Close`, `Publish`; `GetMessage`, `TryRead`, `TryReadFails` (an `IOException`, of the opening
or of the copying), `TryReadThrows` (any other), `ReadFile`; `DeleteMessage`, of any file that
is listed.  With `DiskFails` every call of the file
system may fail.  `Undatable` are the names on which the constructor of
`MessageEntry` throws.

`ImplementsFolder` maps the state to `MessageFolder`: its folder is that of the files
nobody has open for writing (`Closed`), and a delivery has saved when it has closed its
file.  `Create` over a file of the same name is then `Remove`, `WriteTo` is hidden, and
`Close` puts the message into the folder.

### MessageLoading

State: `cache` is `MimeMessageCache`; `slots` is `_lockCacheItems`, in which a lock object
is named for the reader that made it; `place`, `key`, `lockOf` and `served` are the place,
the argument, the lock and the result of each call of `GetOrSet`; `raced` is a history of the
slots that two readers have found empty before one of them filled it.  The files, the
deliveries and the place of each reader inside of `GetMessage` are those of
`MessageStore`, which the module extends.

Actions: `FirstLook` (before any lock), `ReadSlot` and `MakeLock` (`GetLockObject` reads
the table and fills it in two steps, without a lock of its own), `Enter`, `SecondLook`,
`GetValue` (each a step of `MessageStore`), `GetValueFails`, `AddToCache`, `Expire`.
`LockItemId` is the code's arithmetic, with the width of the integer: the smallest
hash stays negative, its remainder is not an index, and the call fails.

### RuleForwarding

State: `arrived` and `files` say which messages were announced and which have a complete
file; `parsed` is the cached message all dispatches clone; `next` is the rule the loop of
`RulesRunner` comes to for each message; `step`, `left`, `mail`, `attempts` and `accepted`
are those of one dispatch, a message under a rule: where it stands or how it ended, the
subscriptions `Retry` has left, its clone, the subscriptions made, and the copies the other
mail server took over.

Actions: `NewMessage` (`RuleService.Handle`), `Wake` (its delay), `Run` (the next rule:
disabled, dispatched, or refused by `RetryWithDelay`'s checks), `Load`,
`PopulateMessageFromRule`, `CreateConnectedSmtpClient`, `Send`, `Disconnect`, `Timer` (the
delay of a retry), `Expire`, `DeleteMessage`, `Stop`.  A base rule connects before it
populates the clone, a rule with retries populates first; an address of the rule that is not
`valid` throws there, in every attempt.  An error that leaves an
observable ends the dispatch as `logged`; with no subscription left from the start it
ends as `dropped`, without a word in the log.

Abstraction: loading is one step that may fail (its inside is `MessageLoading`); the
addresses of a copy are "as received" or "the rule's"; the other mail server takes a copy
over or not, and an answer may be lost after it did, as may the disconnect: a retry then
sends a duplicate, which the model reaches.  The rules do not change while the service
runs, since the event that replaces them comes over a listener that is commented out.
Races of two dispatches on the content of clones are not modelled: a clone is made by
serialising the message, which no dispatch writes to.

### MessageList

State: `folder` the files, as numbers in the order of their dates; `tasks` what has
become of the watcher's event for a created file (`OnChanged` waits on the pool for the
file, then posts to the dispatcher); `refresh` whether the throttle of `RefreshNeeded`
runs and whether its call is posted; `messages`, `previousIndex` the list of the view
model; `selectionDue`, `loads`, `shown` the way of the selection to the detail; `isLoading`
is the detail's `IsLoading`, by which it is blurred and disabled.  A load remembers whether it
found `IsLoading` unset and has to reset it (`handleLoading`); `overtaken` is a history that
says that such a load was disposed of by the next selection.  From then on nobody resets
`IsLoading`: every load finds it set, and the detail stays blurred until the application is
started again.  That is what the code does (`MessageDetailViewModel.cs:221-256`,
`MessageDetailView.xaml:9-11`); the properties name it as their exception.

Actions: `Start` and `Exit` of the application; `Created`, `Deleted`, `Renamed`,
`RenamedSilently` in the folder; `OnChanged`, `OnChangedGivesUp`, `AddNewMessage`,
`ThrottleRefresh`, `RefreshMessageList`; `Click`, `DeleteSelected`; `LoadMessageEntry`,
`DisplayMimeMessage`.  A name shorter than a time stamp (`Bad`) is an exception nobody
handles: the process ends.

Abstraction: the throttle of the selection and the call it posts are one flag; the
subject each entry loads for itself, what the main view does to the curtain besides
(`MainViewModel.cs:180-185`, `270`, `311-342`), changes of the load paths and
of the sort order are left out; the `FileSystemWatcher` is taken not to overflow.

### WebPage

State: what the page shows (`startMessages`, `countMessages`, `totalMessages`, `messages`,
`preview`), what it will ask for (`startIndex`, `itemsPerPage`), what it keeps (`cache`,
the events and their counters), and for every event the request sent under it, or the
answer on its way back (`requests`).

Actions: `Poll` and the user's (`User`: refresh, page sizes, paging, selecting, going
back, deleting all), the server's `GetAll`, `Get`, `Fail`, and the callbacks `Listed`,
`Shown`, `remove`.  A callback writes what its closure kept, whatever the page shows by
then.  Messages come (`Receive`) and vanish.  A request fails for a reason (`Fails`): a
message it wants cannot be loaded (`Broken`), a name anywhere in the folder cannot be parsed
(`Nameless`), the message is not found, or one goes, or is still being written, between the
listing and its load.  It may fail any number of times; the events it leaves behind are kept
up to `MaxLost`, beyond which one stands for all.

Abstraction: a message is a number, in the order of dates, and its detail is the message
again; `deleteAll` is one step with its refresh; a request that fails is answered in that
step, and none is lost on the network, which is the machine itself or one beside it; `eventFailed` and the `fail` of an event are never called and left out; buttons the
page hides are guards, those it only disables are not (the keyboard reaches them).

## 4. What the runs check

| Run | Question | Result |
|---|---|---|
| `smtp_lockstep` | is what is handed over what a client composed after it had authenticated, through every cut of its lines, RSET, malformed addresses, resets, shutdowns within a line, the idle timer and `Stop`; is each command answered once; is a waiting client released, an abandoned connection closed? | holds; the last two thanks to the idle timer alone: a command that throws leaves the connection deaf.  Two exceptions are stated: the last line of a client that shut down behind the dot it begins with is taken for the end, and a connection reset before its greeting is in no table, so that nothing need ever close it |
| `smtp_ahead` | with a client that does not wait, so that lines reach the wrong reader: is the envelope in order, does the null at the end of the stream end no message, does a closed connection stay closed? | holds |
| `smtp_idle` | does the timer close only idle connections? | violated: a long DATA is cut off, `LastActivity` is not renewed by its reader |
| `listen_service` | one binder with failures and retries, connections, timer, shutdown: is every open connection in the table, and is at most one socket left to the server? | holds, but for a connection whose constructor threw because its client had reset it |
| `listen_rebind` | two binders interleaved with stale callbacks: does an active server accept? | holds where every address parses: one that does not leaves `IsActive` as another binder has set it |
| `listen_ids` | is every open connection in the table after a rebinding? | violated: two chains, one id |
| `store_saves` | colliding names, failing disk, a reader and deletions: is an open file its writer's, is nothing partial read, does every save end; does a message appear in one step, once, before it is announced (`MessageFolder`)? | holds |
| `store_twins` | does an announced message stay? | violated: a twin within the same millisecond replaces it |
| `message_list` | events, refreshes, clicks, deletions, restarts of the application: is no file forgotten between them, does the list keep a selection, does the detail follow it? | holds; a second selection during a load leaves the detail blurred for good, which the properties state as their exception |
| `message_loading` | the cache in front of the store: is nothing partial kept, is everything served under its name, do loads exclude each other and are they spared, does every call end? | holds; but for slots two readers have found empty at once |
| `web_page` | answers in any order or not at all: are the cache, the preview, the page number and the counters right, does a page left alone catch up? | holds; a request that failed leaves its event behind for ever, and a page whose messages cannot be loaded stays as it was for as long as they cannot |
| `rule_forwarding` | eight rules at once, with failures at every step, deletion, expiry and the end of the service: are copies, attempts and ends right, does every forward end? | holds; duplicates occur, never more than attempts |

Every property of a passing run has a mutant of the code that violates it; it is
kept beside the original, marked `Mutant`.

The three violations are reported under `findings`.  That of `listen_ids` does not need
two binders at once: the same state is reached when the second begins after the first
has ended, if an accept callback was in flight across the rebinding.

### Bounds

* `smtp_lockstep`: messages of two lines and two recipients, which is what order and
  loss need; a line that begins with a dot and one that reads like a command; memory
  for a second message, so that one may leak into the next.  `smtp_ahead`: four
  fragments on the wire, enough for a command behind the dot of a message, and for a
  half line.  Both let the client shut down behind any fragment.  The session has no counter of its own, and the invariants about it are
  proved without bounds.
* `listen_service`: two clients, the least for two connections at once; one binder
  with two attempts, so that a failure is followed by a success and by a last failure.
  `listen_rebind`: two binders with two attempts each and one client; a third binder
  adds no new pair of steps.  `listen_ids` has two clients.  Clients are symmetric in
  `listen_service`, which checks no liveness.
* `message_list`: three files, one of them with a name that ends the process; one click,
  which with deletion and the refreshes reaches every index the code computes.
* `message_loading`: two deliveries with one name and one random part, so two paths; two
  readers, the least for a race for a lock; one retry of a read, inside the lock; hashes of
  eight bits and three locks instead of 32 and 255, with one path at an ordinary hash and
  one at the smallest.
* `web_page`: three messages on pages of one, so that there is a second page: the first has a
  bad name and fails every request until it goes, the second has no Date header; three events,
  two requests for the list and one for a message at a time, one lost one kept.  Without the
  bounds the requests and their events grow without end.  `Broken` is empty in the run, which
  a bad name, that fails more, makes up for; with a broken message instead the instance has
  1 339 594 states and passes as well.
* `rule_forwarding`: one message and eight rules: a relay, a rule with a delayed retry, one
  with two immediate attempts and an invalid address, one whose settings are refused, one with no attempts at all,
  a pattern that is not met, one that throws, and a disabled rule.  Nothing needs a bound:
  attempts are limited by the rules.
* `store_saves`: two deliveries with one base, two time stamps, two random parts, two
  attempts (the code has ten) and one retry of the reader (ten in the code); the safety
  properties are proved for any number.

`CHECK_DEADLOCK FALSE`: a closed connection, a server that was shut down and deliveries
that have ended do nothing more.

### Fairness

`smtp_lockstep` assumes that the thread pool runs the constructor and the callback, that
time passes, that the timer fires (it is periodic) and that the client reads replies
that have arrived.  A client need not send, and nothing makes it close.  It takes the
timer to be alive; `ListenServer` models that the subscription can end with an
exception (`ConnectionManager.cs:125`), and then a deaf connection stays.
`store_saves` assumes that the threads of deliveries and of readers that have begun run.
`message_loading` assumes only the latter: no reader needs a delivery to go on.  `message_list`
assumes that the tasks of the pool run, that the throttle's timer fires and that the dispatcher
goes on with its calls (the subscripts of the conditions name the variables these change); not
that the user or the file system ever does anything.  `web_page` assumes that
the browser calls back, keeps its interval and its timers, and that the server answers or
fails every request; how often it fails is not bounded, but that a page catches up is said of
messages that can in the end be loaded.  `rule_forwarding` assumes that the pool
goes on with some task or timer, whichever it likes; that is enough, since every dispatch
is finite.  The service may stop at any moment, and need not.
Nothing is assumed of the order in which locks or collisions are won.

## 5. What is proved

The assumptions are those the modules declare about their constants:
`ConversationAssumption`, `ServerAssumption`, `StoreAssumption`, `LoadingAssumption`,
`RulesAssumption` and `NullAssumption`, `ListAssumption`, `PageAssumption`.  They only type the
constants and keep apart what the code keeps apart (a delivery is not a reader, `NULL` is
no value); TLC evaluates them in every run.  Two theorems about `ListenServer` assume
`SingleBinder` as well, for the reason given there.  No theorem depends on a bound of a run.

`SmtpConversationProofs`:

* `Typing`: `TypeOK` is inductive by itself; the work is in lemmas on sequences of
  fragments (`LineEndIsFirst`, `LineTypes`, `SplitTypes`) and in one lemma for each
  group of variables (`ConnectionStep`, `SessionStep`, `RepliesStep`, `WireStep`,
  `QueuesStep`, `ClientStep`).
* `EnvelopeAlwaysInOrder`: with `TypeOK`, `EnvelopeInOrder` is inductive.  Two facts
  carry it: only DATA enters the states in which a message is read
  (`OnlyDataBegins`), and the session does not change while it is
  (`SessionStandsStill`).
* `HandoverIsAuthenticated`: the same two facts, and DATA's own test of the user name;
  AUTH, which clears it, cannot run inside DATA.
* `ClosedIsForGood`: `ClosedForGood` is an action property; every reply goes through `Send`,
  which is silent on a closed connection (`OneReplyPerStep`), nothing sets `connected`
  (`ClosedStaysClosed`), and a body is begun by DATA alone, which tests it
  (`NoMessageBegins`).
* `NullNeverEnds`: needs the strengthening `BodyInv`: a null among the lines read
  means that the stream is over - nothing in the reader, not even the beginning of a line,
  nothing on the wire, the client gone - so that no dot can follow it.

`SmtpDialogueProofs`, about a client that awaits each reply, both from the inductive
invariant `Dialogue`:

* `CommandsAnsweredOnce`: `OneReplyPerCommand` holds because a reply is sent only while the
  client waits for one (`Turn`); that in turn needs to know which line of the client each
  state of the server has read, and which it is about to read.
* `MessageAsComposed`: the heart of `Dialogue` is `Carries`: the fragments in the buffer or
  the reader of the server, followed by those on the wire, are the first fragments of the
  lines the client has sent and the server has not taken (`Awaited`).  These are the one
  command between two commands (`Between`), one token inside AUTH (`ReadingToken`), and
  inside DATA the lines typed and not yet read, with their dots stuffed, and then the dot
  that ends them (`ReadingBody`, `AsTyped`).  Only a client that has
  gone has cut a line (`CutIsGone`), which leaves the stream a fragment short; if that line
  began with a dot, the body may be handed over without it (`CutShort`).  However the receive
  cuts the stream, the next line it completes is then the next line sent; and the client's account of its envelope
  agrees with the session's (`Agreed`), but for the command that is not yet answered
  (`Unanswered`).  No bound on lines, recipients, messages or the wire is used.

`ListenServerProofs`:

* `Typing`, for any number of binders.  `TypeOK` needs `Courses` (where the calls of each
  thread lead, so that only a binder starts the server), `AttemptsRemain` and
  `GuestIsThere` (a callback that has accepted a client keeps it).
* `NothingLeaks`, for one binder: `Leakless` says that until the shutdown no socket but that
  of the field `listener` is open, and none at all when the binder is about to create one or
  to clear the field.  With two binders one replaces the listener the other has not closed.
* `EveryConnectionIsTracked`, for one binder: `OneChain` (no chain of callbacks before the
  binder is done, and one at most then), `Guests` (what a chain holds has no id until
  `Construct`, and then one of its own; a constructor that throws leaves one that is reset and
  not subscribed), `Numbered` (ids are at most `lastId` and differ) and
  `Entered` (the table and the snapshots of it hold connections under their ids).  With two
  binders `listen_ids` shows the property violated.
* `ActiveServerAccepts`, for any number of binders.  Given `IInv`, `AcceptsWhileActive` is
  inductive although it says nothing of the moments at which a thread is at work: the thread
  that comes to rest has either begun to accept, on a listener that listens, or left the
  server inactive (`BinderRests`; `valid = Binder` rules out that it gives up in front of that), and a callback returns to the listener while all rest
  (`ChainReturns`).

`MessageStoreProofs`: `Typing`, `WritersOwnTheirFiles`, `NothingPartialIsRead`, from the
invariant `IInv`.  Neither property is inductive alone: that a reader never returns
half of a message rests on `PartialIsWritten` (what is half written has a writer) and
`ReadersHold` (what a reader holds open exists and has no writer), and the types need
`ReadersHold` as well, since what a reader returns is the content of a file that must
not go away.  That names differ is nowhere assumed.  `StoreImplementsFolder` is the
refinement of `MessageFolder`: one lemma for each kind of step says which step of the
abstract folder it is, or that it is none.

`MessageLoadingProofs`:

* `CacheImplementsStore`: every step of the loader is one of the store or leaves it alone,
  so that everything proved of `MessageStore` holds behind the cache.
* `LoadingTyping`, `CacheHoldsNothingPartial`: with the invariant of the store, what a reader
  has got may be cached (`ReadCanBeCached`).
* `LoadsAreExclusive`: no lock is held twice (`NoLockTwice`), and outside of `raced` every lock in
  use is the one in the table (`InTable`): who finds the slot full takes what stands there, who
  finds it empty is the only one, so that what it puts there displaces nothing.
* `CacheKeepsNames`: a file stands under the path of its delivery, which the delivery keeps
  (`NamesStand`, `FiledUnderNames`), a reader reads the path it was called with
  (`ReadsItsKey`), and so the cache is right whatever has become of the file
  (`CachedUnderNames`).
* `LoadsAreNotRepeated`: whoever fills the cache behind a loading reader's back held
  another lock (`NoLockTwice`, `Lockless`), so that one of the two is not in the table, and
  the slot is among the raced.

`RuleForwardingProofs`: `Typing`, `EachCopyIsItsRules`, `ForwardsAgree`, for any messages and
any list of rules.  The invariant is an account of each dispatch by itself: what its clone
says at each step (`MailOf`), how subscriptions made and left add up (`SubscriptionsOf`), how
many copies there can be (`CopiesOf`).  That accounts do not disturb each other rests on
`ParsedIsOriginal`: no dispatch writes to the message the others clone.

`MessageListProofs`: `DetailFollows`.  `DetailMatchesSelection` speaks of the moments at
which nothing is under way; the invariant `LoadsTheSelection` says what holds while a load
is, and `ResetsIsLoading` which load is to reset `IsLoading`, if none was overtaken.
`ListedTwiceAtMost`, `AllAreListed` and `SomethingIsSelected` are proved for any number of
files, from `ListInv`: the types, and `Occurrences`, which says how often a file may be listed
at each stage of its event.  That the order a refresh lists the files in exists at all is
`OrderExists`: a smallest set of numbers without one would have a least element, and the rest
of the set, which is smaller, an order it could follow.  `Init` says that the folder is finite.

`WebPageProofs`: `Typing`, `EachDetailIsItsOwn`, `LabelIsFollowed`, `SummaryIsCompleted`,
`CountersAddUp`, for any number of messages, events, page sizes and requests.  All rest on
`Asked`: a request belongs to an event that is not done and that says what it is for.

## 6. What is only model-checked, and what is not modelled

Only model-checked:

* Liveness (`WaitingClientIsReleased`, `AbandonedIsClosed`, `SavingEnds`, `LoadingEnds`,
  `NewMessageIsListed`, `SelectionIsShown`, `PageCatchesUp`, `ForwardingEnds`): fairness and
  ENABLED are beyond the prover.

Every invariant and every action property of the passing runs is stated by a theorem, those
of `NoSocketLeaks` and `OpenIsTracked` for one binder, as the runs that check them have.
What a recursively defined function computes for every input cannot be proved with the
provers used; no such function is part of these models.

Not modelled:

* The Papercut protocol, its client and the coordinators of the two applications.  In
  this fork they have no other side: "This version of Papercut is used only as a Windows
  service" (`src/README.md`), and the service's listener for the protocol is commented out
  (`Papercut.Service/Services/PapercutServerService.cs:92-109`).  With it the exchange of rules
  and settings, and the rebinding of the service by an event, are unreachable; what a
  second binding would do to the server is in `ListenServer`.
* Settings and paths: loaded once at start; every call that would save them is commented
  out or behind that listener.
* The encoding of characters and the parsing of MIME (a message that does not parse is an
  exception of the handler or of the load); the Bcc header added for recipients that are
  not in To or Cc; how names are cleaned and cut to length.
* `LoadMessages` by itself, which changes nothing: it is the listing in `MessageList` and
  `WebPage`.  That it lists only the top folder is among the hazards.
* The second timer of `ConnectionManager`, which logs; views, hosting, plugins, logging and
  the installer, which have no behaviour of this kind.
* The libraries in `Papercut.Module.WebUI/assets/js` beside `controllers.js`: AngularJS and
  Moment.js, third-party code.  What the page uses of them (callbacks one at a time, a
  request answered once or failing, timers) is modelled from that use.
