# A verification project for kingkong

kingkong is a C++ base library (message pumps, networking, HTTP, authorisation,
MVVM, JNI) with an MFC and an Android application on top. This directory models
it in TLA+, checks the models with TLC on small instances, and proves with TLAPS,
for every instance, the safety properties of the pumps, the connections, the
SOCKS5 dialogue, the HTTP clients, the HTTP parser, MVVM and the JNI glue. What
is only model-checked is listed at the end of the section on proofs.

Everything is translated from the source. boost.asio and beast, the systems'
message loops, timers and clocks, the Java VM and the network peers are
external: they are modelled by what this code relies on, and marked so in
`PROJECT.json`, which also maps every definition to its lines and lists the
hazards found while reading, each at its line with the properties about it.

## Inventory

| Component | State | Operations | Interacts with | What is hard | What makes it correct |
|---|---|---|---|---|---|
| **Message pump** `base/message_loop/message_pump_{impl,default}.*` | ordered set of delayed runnables under a mutex, `id_`, `stoped_`, an io_service with a work guard and one timer, threads | `PostRunable`, `Cancel`, `Stop`, `Run`, `DoWork`, `Wakeup` | everything posts to it; asio handlers share its IO thread | `Wakeup` outside the lock, one timer re-armed by everybody, batches, `Stop` against posters | no lost wakeup, each runnable once, order on one thread, a drained `Stop` |
| **UI pumps** `message_pump_{win,android}.cc` | the same set; a window's messages and one timer, or a timerfd | `DoOneWork`, `DoWork`, `Wakeup`, `Stop` | the main thread's message loops, posters on every thread | modal loops inside runnables, `KillTimer` against `SetTimer`, the end of the pump inside its own `DoWork` | no lost wakeup, service during a dialog, nothing runs after `Stop` |
| **Loop manager** `message_loop_impl.cc` | four pumps behind a global pointer and mutex | init, uninit, look-up | all clients | joining threads that ask for pumps, pumps used after their end | the take-down returns |
| **Net connection** `base/net/net_connection_impl.*`, `tcp_client/`, `websocket/` | `stoped_`, `delegate_` under `mutex_`, `already_clean_up`, resolver, SOCKS5 client, send queue, pending operations | `Connect`, `Send`, `DisConnect`, one completion handler per operation | posts to the IO pump, calls the delegate | client threads against the pump thread, late completions, failures at every step | no callback after `DisConnect`, order of callbacks and messages, real clean-up |
| **DNS resolver** `dns_resolver_impl.*` | `stoped_`, raw `delegate_` | `Resolver`, `Cancel` | the connection, by raw pointer | an answer after the connection has gone | never calls a dead connection |
| **SOCKS5 client** `socks5_client.*` | dialogue status, received bytes | `Connect`, read and write handlers | the connection's socket | replies cut anywhere, two handlers failing | one verdict, success only after the whole reply (or one whose length is misread), an end |
| **http_parser** `base/net/http/http_parser.c` | `struct http_parser`: state, header state, counters, flags, marks | `http_parser_execute`, `http_parser_pause`, `http_parser_parse_url` | callbacks; `CreateHttpClient` | input cut at any byte, callbacks that pause, lengths near the limit | the cuts do not show, lengths and bodies are exact, the URL's fields are its parts |
| **HTTP client, downloader** `base/net/http/` | delegate under `delegate_mutex_`, status, the file and its sizes | `Request`, `Start`, `Cancel`, parser callbacks | a net connection underneath | callbacks that cancel, completion from several places, a failing file | the file holds the body, silence after `Cancel`, no self-deadlock |
| **Auth manager** `base/auth/auth_util.cc` | map of requests | `AuthRequest`, `AuthCancel`, completion | HTTP clients | completion before registration, cancellation | one answer, 200 only with a valid signature |
| **MVVM** `mvvm/`, `app/logic/` | builders, models, subscriptions, delegates of views and view models | create, bind, unbind, destroy, events | UI thread, MFC dialogs, Java | raw pointers both ways, handlers that change what is being gone over | no delegate outlives its receiver, events reach every bound view |
| **JNI glue** `base/jni_util/`, `mvvm/jni/`, `mvvm/native-lib.ipp` | class cache, per-thread environment | look-ups, calls, conversions, notifications, load and unload | the Java VM | exceptions on native threads, calls that fail, references | exceptions end, notifications arrive, nothing is kept |
| tcp server, semaphore, at_exit, string, crypto, log, time, thread helpers, event bus | small or none | | | | |

## Modules

| Module | Models |
|---|---|
| `RunnableQueue` | what a pump promises (`message_pump.h`), without threads, timers or locks |
| `MessagePump`, `MCPump`, `MessagePumpProofs` | `MessagePumpImpl` over `MessagePumpDefatlt`; symmetry for TLC; the theorems |
| `UiPump`, `UiPumpProofs` | `MessagePumpWin`, `MessagePumpAndroid`, the loop manager; composed with `RunnableQueue` by refinement |
| `NetConnection`, `NetConnectionProofs` | `NetConnectionImpl`, the tcp, tls and websocket streams, `DnsResolverImpl` |
| `Socks5Client`, `Socks5ClientProofs` | `Socks5ClientImpl` and the proxy |
| `HttpChars` | the character classes, the URL and the host machines of `http_parser.c` |
| `HttpParser`, `MCHttpParser`, `HttpParserInv`, `HttpParserProofs` | `http_parser_execute` with its callbacks; the lines fed to it; the invariants its proofs need; the theorems |
| `HttpUrl`, `MCHttpUrl` | `http_parser_parse_url` and `CreateHttpClient`; the URLs |
| `HttpClient`, `HttpClientProofs` | `HttpConnectionBase`, `HttpDownloaderImpl` and `AuthManager`, composed |
| `Mvvm`, `MvvmProofs` | `Model`, `ViewModel`, `BaseView`, the application's main model and view model |
| `Jni`, `JniProofs` | `comm_function.cc`, `var_cache.cc`, `scope_jenv.cc`, `scoped_jstring.cc`, the notifications |

### MessagePump

Variables carry the names of the members (`runable_set_`, `id_`, `stoped_`,
`work_`); `tick`, `batch` and `current` are the locals of `DoWork` on each
thread; `ready`, `timer` and `io_stopped` are the io_service; `call` and `stop`
say where an actor is inside `PostRunable` or `Stop`; the rest is history.

A step is what happens between two points where another thread can get in. A
`lock_guard` section is one step. `PostRunable` is `BeginPost` (the test of
`stoped_` and the clock), `Insert` (the locked section), then `WakeupNow`, or
`WakeupLater` and `ArmTimer` (the two calls into the timer). `DoWork` is
`StartDoWork`, `Take`, one `StartRunnable`/`FinishRunnable` per runnable, and
one of `RearmNothing`, `RearmNow`, `RearmLater`; the last holds the lock until
`RearmArm`. `Stop` is `BeginStop`, `PostStop` (its own `PostRunable`, which then
runs like any other), `SetStoped`, `Join`; its runnable is `DoStop`. `Run` after
the io_service is `LeaveRun`, `ClearSet`.

The deadline_timer is used by several threads without a lock, which asio does
not allow; each call is nevertheless taken to be atomic, and only the order of
the calls is free.

### UiPump

One module for both builds (`os`), because they share `MessagePumpImpl` and the
manager. `ticket` and `phase` are `runable_set_` (a runnable is in it while its
phase is "waiting"). `sys` is what the system keeps: the posted messages and the
timer of the window, or whether the timerfd is readable. `stack` has one frame
per message loop the main thread is in; a runnable that opens a dialog
(`DoModal`) stays in its frame while others run above it. `DoOneWork` wakes for
the rest before it runs anything; `DoWork` takes all that is due and re-arms at
its end (`Rearm`). `WakeupAndroid` shows what `TFD_TIMER_ABSTIME` does with a
relative time: the descriptor is readable at once, and the main thread goes
round until the runnable is due.

`UnintMessageLoop` swaps the pointer under the mutex and stops the pumps after
it: the UI pump first, then a `StopWorker` per thread, which waits until the
thread is out of its call. `Alive` spells out who holds the pump. The manager
lives once; it is taken down on the main thread, as `Application::UnInit` does.

### NetConnection

`conn` holds what only the pump thread touches, and the runnables posted to it;
`ops` has the state of each kind of asynchronous operation (none, pending,
completed well or badly, handler not yet run). `stoped_` and `delegate_` are
shared. A handler is a step up to its callback, the callback (during which
`mutex_` is held), and a step for the rest, so `ClearDelegate` of a
`DisConnect` falls before or after a callback, never inside. The IO pump is a
queue here: order and exactly-once are what `MessagePump` shows for a pump with
one thread. `Alive` spells out which handlers capture `shared_from_this()`.
`DoCleanUp` follows the four stream classes: tcp, tls and the secure websocket
close the socket, the plain websocket only an open websocket.

Clients connect once, send after a successful `OnConnect`, do not call
`DisConnect` from a callback (it would wait for itself), and drop the connection
after `DisConnect`, as the repository's tests do. `CreateTcpClient` always sets
the net type to tcp; the tls class is explored nevertheless.

### Socks5Client

A reply is its length and the fields the code looks at. `Receive(n)` takes any
number of bytes the network delivered, at most the ten of the read buffer. The
connection destroys the client on a verdict and in `HandleCleanUp` (`owned`
becomes false), after which the handlers' `weak_ptr` is empty.

A proxy may send host names of any of `HostLengths`, and `SignedChar` says
whether `char` is signed (it is on x86). Two things the code does wrong are named
by the properties. A connect reply in two pieces, the first of four bytes or
more, leaves the client without a read (`socks5_client.cc:286`): `EndsOrSplits`
names that case. The length byte of a host name is read as a `char` (:290). Where
that is signed, the sum for a name of 128 to 248 bytes becomes a huge `size_t`
and the client waits for ever, and from 249 bytes on it is at most 6, so that
success is told with bytes of the reply unread, which the connection then takes
for the server's. `SuccessIsWhole` is exact about it: bytes are left unread if
and only if the length is misread like that (`Misread`).

### HttpParser, HttpUrl

The vendored parser is the largest piece of control in the library, and it is
compiled into it. Only its URL half is called in this repository, by
`CreateHttpClient`; `http_parser_execute` has no caller here (the HTTP client
reads with beast), and its model is about the function the library exports. A
parser is a record with the members of `struct http_parser`, the marks,
and what the callbacks were given. `ParseByte` is one round of the loop over the
buffer, an operator per group of states. Two parsers read the same input:
`whole` gets it in one buffer, `cut` in several, and is paused by its callbacks.
`Arrive` appends a line; a line may belong to a message or break it. Keywords
are sequences of characters because the parser matches them by index. The limits
are constants: with `ULLONG_MAX` = 63 and a header limit of 50 both are met by
short inputs.

`HttpUrl` runs `http_parser_parse_url` as one step over each URL of a set, with
offsets modulo `OffMod` (the 2^16 of `uint16_t`), and then what `net.cc` does with
the fields. `ConnectsToHost` compares the result with `Named`, which reads host
and port off the URL by the grammar and not by the parser's machines. `net.cc:81`
reads the offset of a path without asking whether there is one: for a URL
without a path the request's path becomes the whole URL, and the default "/" of
the next lines is never used.

### HttpClient

A client is one record: its connection, abbreviated from `NetConnection`, its
members, its user's members and histories. `phase` follows the connection from
`new` over `resolving` (the resolver's runnable is posted), `lookup` and
`connecting` to `open` or `over`. Its handlers run on the IO thread and call the
user under `delegate_mutex_`; application threads hold a mutex for one
assignment only, so a handler with its callbacks is one step, with two
exceptions. An application thread may begin to cancel a download between two
callbacks of a handler: `NotifyDownload` has that as a choice, and the rest of
the handler finds the downloader's delegate gone and the client's not. And a
handler may lock a mutex that its own thread holds. What happens then is undefined for `std::mutex`
and a constant (`Relock`): where it blocks, the IO thread never comes back
(`stuck`); where it lets the owner pass, the code goes on, and the other
properties are checked there. Clients share nothing but the IO thread, so each
behaviour follows one of them. The callbacks of a download may cancel it.

The resolver holds its client by a plain pointer, so a look-up does not keep the
client alive (`Alive`), and `AuthCancel`, which drops the client without
`DisConnect`, may have it destroyed under the resolver. The answer then calls a
destroyed object (`ResolvedFreed`, remembered in `dangled`): the process ends or
the call comes to nothing. `heard` is what had been told when a cancel began.

`Parsed` is what `HandleAuthResponse` reads in the data it has. Data that came
before `auth_map_` knew the request is lost, and the result of `ParseFromString`
is ignored, so that of a response in part any code may be read, with its
signature or without. The signature covers the request, not the response.

### Mvvm

Everything runs on the UI thread. Interleaving comes from handlers: `FireEvent`
is a step per delegate, and any other operation may come in between, also a
second `FireEvent`. A loop over delegates that were changed under it is marked
`stale`; going on with it is undefined and ends the behaviour (`broken`).
Dialogs die without `UnBindVM`; the views of Java are unbound and deleted in one
native call, while something may hold on to the view model (`Keep`). `Keep` is
for the views of Java only: a view model of a dialog that outlived it would call
a dead view, and in this application nothing holds one. A builder is registered
for every view that is made (`baseview.cc:10` does not ask), and the values an
event of Java carries are left out, and with them the assertion that
`NativeHandleEvent` makes for a login or a logout (`native-lib.ipp:150`).

### Jni

A helper is an operator from an environment to the set of environments it may
return with; `Bind` puts them in sequence. Calls of Java, look-ups of classes and
members, and whatever takes memory of the VM may fail (`Fails`), up to
`MaxFaults` times, and leave an exception named after its
cause: "java" (thrown by a Java callback), "oom", "link" (a look-up), "message"
(a `getMessage`). A class whose global reference could not be made stays in the
cache as null (`KeepsNull`). A failing `AttachCurrentThread` or `PushLocalFrame`
is left out: the code goes on with a null environment or without a frame, which
is undefined from there on. `Strict` marks the calls that JNI forbids while an exception is
pending, and records the exception in `abuse`. References and pinned characters
are counted. A native operation is one step, because threads share the class
cache only, which has a lock. `missing` is what the Java side lacks: the code
expects libraries older or newer than their Java part.

## Runs

| Run | Instance | Shows |
|---|---|---|
| `pump_io` | 1 thread, 2 clients, 3 runnables, delays 0 and 1, one stopper | `NoLostWakeup`, `ExactlyOnce`, `RunsInOrder`, `QuietStopDrains` |
| `pump_live` | 2 threads, 1 poster, 1 stopper, 2 delayed runnables, fair | `ImplementsQueue`; `AcceptedIsServed`, `StopReturns` |
| `net_connection` | 4 stream types, with and without proxy, 2 clients, 2 messages, fair | no callback after `DisConnect`, order of callbacks and of the wire, one operation each, no dangling resolver, `SocketsQuiesce` |
| `socks5` | every kind of reply, host names of 0 to 255 bytes on both sides of each limit, signed `char`, reads of 1, 2, 3, 5 or all bytes, fair | one verdict, success only when whole or misread, `EndsOrSplits` |
| `http_parser` | requests, responses and broken lines, 2 header lines, 3 body parts, 1 cut anywhere, 1 callback that pauses, refuses or asks to skip, 2 messages | `CutsDoNotShow`, `LengthIsExact`, `BodyIsWhole`, `NotificationsInOrder`, `AssertsHold` |
| `http_url` | 58 854 URLs: four schemes, every server part of up to 3 of 8 characters and longer ones with brackets, zone, user, port, and 22 tails; as URL and as CONNECT target | `FieldsPartition`, `ConnectsToHost` |
| `http_client` | a download or an authorisation, bodies of 3 pieces or none, of which any part may be lost | `AuthOnce`, `SignedSuccess`, `NotForgotten`, `FileHoldsTheBody`, `QuietAfterCancel` |
| `ui_pump` | both builds, a worker, a thread of no pump and the main thread, 2 runnables, delays 0 and 1, fair | `NoLostWakeup`, `NothingStartsAfterStop`, `ImplementsQueue`, `WaitingIsServed`, `UnintMessageLoopReturns` |
| `mvvm` | a dialog and two Java views, 3 subscriptions, 2 nested events | `SubscriptionsAgree`, `ToldViewsExist`, `LoginReachesBoundViews` |
| `jni` | a thread of Java and a native one, 4 failures, every subset of missing members | `CallbackExceptionsEnd`, `NotifiesArrive`, `HelpersKeepNothing` |

Two runs show where the code does not do what its comments say:

* `net_websocket`: `DisConnect` before the websocket is open closes nothing; the
  handshake goes on and the connection reads for ever.
* `http_relock`: a download whose file cannot be opened or written cancels
  itself in a callback and waits for the mutex its own thread holds; an
  authorisation does so whenever it completes.

Three further disagreements with a comment have no run of their own; a property
of a passing run states exactly what the code does instead:

* `socks5_client.cc:289` says of a reply with a host name "head(4) + len(1) + host
  + port(2)"; the code adds a signed length (`SuccessIsWhole`).
* `auth.proto:17` says "100 成功" (success), while the code verifies the signature
  of a 200 and hands a 100 on without looking (`Verdicts`, `SignedSuccess`).
* `~NetConnectionImpl` logs "not stoped, call DisConnect"
  (`net_connection_impl.cc:59`), and `AuthCancel` does not call it: the resolver
  may be left with a pointer to nothing (`QuietAfterCancel`).

Further observations, named as exceptions by the properties where one is about
them: `PostRunable` tests
`stoped_` before it locks, so an accepted runnable may be thrown away by a `Stop`
in between (`QuietStopDrains` is about a `Stop` nothing overlaps); one `DoWork`
takes all that is due, so tasks posted together to the pool run one after the
other; with two posters the shared timer may be late until the next `DoWork`;
`AuthRequest` starts a request before it enters
it into the map; on Android the
runnable of `Stop` may destroy the pump under the `DoWork` that runs it; a
look-up that fails on a native thread makes that thread mute, and an exception
thrown by `getMessage` while another one is logged stays; in a header value
memchr passes over control characters without looking at them, so that whether
one is refused depends on where the buffer before it ended (`http_parser.c:1542`).

**Bounds.** Two threads and two clients are enough for every pair of steps to
overlap; three runnables on one thread give a batch with a successor and a
newcomer. `MaxTime` ends the clock; a delay of 1 makes a runnable that must
wait and can be overtaken. `MaxRecv` bounds successful reads, each of which
returns to the same state. Each message is sent once and each runnable posted
once, which makes "at most once" visible. One cut between every two bytes shows
any state that is lost between calls, because a parser keeps nothing else; two
messages show what a first one leaves behind. `Pieces` = 3 gives a body with an
inside. `MaxId` = 3 lets two views be bound at once and one of them twice;
`MaxDepth` = 2 lets a handler fire inside a `FireEvent`. `MaxFaults` = 4 is
enough to make a callback, its logging and the summary of it fail one after the
other. Deadlock checking is off: idle pumps, released connections, finished
dialogues, parsed input and a broken loop stop.

**Symmetry.** Runnables are interchangeable in `pump_io`; the other runs use
none.

**Fairness.** Threads inside a call or a handler are scheduled, runnables and
callbacks return, time passes and timers fire; asio runs queued handlers.
Nobody is obliged to post, send or stop. Name resolution, connecting and the TLS
handshake end (the 30 s timer, the system's own limits); the SOCKS5 dialogue,
the websocket handshake, reads and writes may wait for the peer for ever. In
`Socks5Client` the proxy answers and the network delivers. In `UiPump` the main
thread gets back to its loop (SF, because it may be interrupted by calls it makes
itself) and `UnintMessageLoop` catches a worker between two calls (SF, because a
worker may ask again; its pump stops taking runnables, so it does not ask for
ever); a dialog may stay open for ever, and a thread of no pump may keep a pump
it was given.

## Proofs

Every theorem holds for all values of the constants that satisfy the named
assumptions of its module; the bounds of the runs (`MaxRecv`, `MaxId`,
`MaxFaults`, ...) are constants too, so a theorem covers every bound. The
inductive invariants were checked with TLC on small instances before they were
proved, all but `CutInv` of the parser, which speaks of every answer a callback
could give and every state in between: TLC checks what it implies,
`CutsDoNotShow`. A theorem `Invariant` (`ParsersCorrect` for the parser) states
the inductive invariant of its module, and the others follow from it;
`CutsDoNotShowCorrect` has an invariant of its own on top.

| Module | Theorems | Hypotheses beyond the module's assumptions |
|---|---|---|
| `MessagePumpProofs` | `Typing` (`TypeOK`), `NoWakeupIsLost` (`NoLostWakeup`), `RunsExactlyOnce` (`ExactlyOnce`), `StopDrains` (`QuietStopDrains`), `OneThreadInOrder` (`RunsInOrder`), `QueueImplemented` (`ImplementsQueue`) | `OneThreadInOrder`: the pump has one thread; two threads do run out of order |
| `UiPumpProofs` | `Invariant`, `AlwaysWoken` (`NoLostWakeup`), `StopIsFinal` (`NothingStartsAfterStop`), `QueueImplemented` (`ImplementsQueue`) | |
| `NetConnectionProofs` | `Invariant`, `QuietAfterDisConnect` (`NoCallbackAfterDisConnect`), `ToldInOrder` (`CallbackOrder`), `NeverOverlap` (`OneOperationEach`), `WrittenInOrder` (`WireOrder`), `ResolverSafe` (`ResolverNotDangling`) | |
| `Socks5ClientProofs` | `Invariant`, `VerdictOnce` (`OneVerdict`), `WholeReply` (`SuccessIsWhole`) | |
| `HttpClientProofs` | `Invariant`, `AnsweredOnce` (`AuthOnce`), `SuccessIsSigned` (`SignedSuccess`), `StillAnswered` (`NotForgotten`), `FileIsWhole` (`FileHoldsTheBody`), `CancelIsQuiet` (`QuietAfterCancel`) | `StillAnswered`: locking a held mutex passes; where it blocks, the IO thread is lost and the property with it (`http_relock`) |
| `MvvmProofs` | `Invariant`, `BothSidesAgree` (`SubscriptionsAgree`), `PointerValid` (`ToldViewsExist`), `LoginHeard` (`LoginReachesBoundViews`) | |
| `JniProofs` | `Invariant`, `ExceptionsEnd` (`CallbackExceptionsEnd`), `NotifiedFromAnyThread` (`NotifiesArrive`), `GivenBack` (`HelpersKeepNothing`) | |
| `HttpParserProofs` | `ParsersCorrect`, `AssertsHoldCorrect` (`AssertsHold`), `LengthIsExactCorrect` (`LengthIsExact`), `BodyIsWholeCorrect` (`BodyIsWhole`), `NotificationsInOrderCorrect` (`NotificationsInOrder`), `CutsDoNotShowCorrect` (`CutsDoNotShow`) | |

The assumptions: pump threads and clients are different threads, posters are
actors, stoppers are clients, `Stop`'s runnable is nobody's task, there are
finitely many tasks in `UiPump` (an id counts them), times, bounds and lengths are
numbers, the platforms, stream types and reply kinds are those of the code, and a
client of `HttpClient` is a download or an authorisation; a parser starts as one
of the three types, `ULLONG_MAX` is at least 16 (it has room for a hexadecimal
digit) and a callback answers what the code tells apart. TLC evaluates each of
them in the run of its module.

**MessagePump.** Only typing is inductive. The invariant `Inv` has these parts:

* `Ids`: types; ids are unique and below `id_`, an info in the set or in a batch
  carries its task's ticket (`Tickets`), is in one place only (`Apart`), and a
  task that is still being posted has none (`Fresh`). Without it two infos could
  share a task and `ExactlyOnce` would not survive `Take`.
* `NoLostWakeup` itself. The delicate case is a `Take` that removes the runnable
  for which a poster still owes its `Wakeup`: from then on the thread inside
  `DoWork` counts, and its last locked section re-arms for what is left.
* `Exit`: threads leave `run()` only when the guard is gone and nobody is in a
  handler; pump threads call the pump only from a runnable.
* `Once`, `Somewhere`: what happened to a task fits where its info is.
* `Stopping`, `Quiet`: where `Stop` and its runnable are, and that a `Stop`
  nothing overlaps stays alone; so its runnable is the only one to drop the
  guard, and no insert of a client follows.
* `Drained`: with `Quiet` and `NoLostWakeup`, an io_service without work has an
  empty set (`IdleIsEmpty`), hence nothing is left when it stops.

For order, `Order` is added: `DoWork` compares with a time it has read
(`Clocked`), a runnable runs on one thread (`Running`), and a batch has left
nothing in the set that was inserted before a member of it and expires no later
(`Ahead`). `OneThreadInOrder` needs the single thread in one place only: what is
held elsewhere is held by the same batch, which runs in order.

The refinement (`QueueImplemented`) maps a task to the phase its info is in.
Most actions are `Still` (they touch no runnable) and stutter; `Take` is the
queue's `TakeDue` because `Clocked` makes what it takes due; `ClearSet` is its
`Drop`.

**UiPump.** `Posts` and `Ids` follow a runnable from `PostRunable` into the set;
`Frames` says that the handlers of the main thread are nested by dialogs only
and share no runnable; `Stopped` that from `UnintMessageLoop` on the handler on
top is inside a runnable, so that no handler is left that would start another.
`Woken` is `NoLostWakeup` without asking who holds the pump. That `runable_set_`
has a head is a lemma: tickets are ordered by time and then id, and a set of
numbers has a least one.

**NetConnection.** `OneLine` is the heart: at any time there is one activity on
the line from `Connect` to the last read, which is a runnable that starts it, one
operation, or a handler that will start the next. `OneOperationEach` follows, and
`Told` needs it to know that nothing was told before the result of the connect.
`Cleared` is the argument about `mutex_`: who is past the lock has cleared
`delegate_` outside of any callback. `CleansUp` keeps a `HandleCleanUp` on its
way while a disconnected connection is not clean, so the resolver's raw pointer
is cut while somebody still holds the connection. `InOrder` splits what was asked
for into what is written, what waits in `send_buffers` and what is in the pump.

**Socks5Client.** `Counted`: the bytes counted in `received_data_` and those still
unread are the reply to the last request, because every request resets the count
and the proxy answers one request with one reply. For every length of a host name
and either `char`, the code's sum is then at most what was received only if all
of the reply is there or its length is misread. `Once` rests on the connection
destroying the client with its verdict.

**HttpClient.** A download keeps `Sizes` and `Filed` (file, `write_size` and what
was received agree, until it is cancelled, fails or starts anew), an authorisation
`Answered` (an answer takes the request off the map; a 200 had a signature) and
`Entered`; `Awaits` says what work an entered client has left. Silence after a
cancel is `Silent` for a download (its delegate is gone, and no more was told than
when the cancel began) and part of `Entered` for an authorisation. That no
download leaves its resolver with a client that is gone takes the rest: `Line`
(the connect is posted once and first; the resolver's runnable, the requests,
reads and writes come behind it; before the look-up has ended only a cancel lets
go of the client), `Stops` (a downloader that was let go of has stopped its
client) and `Posts` (a stopped client that is still looking up has its clean-up
in the pump, and the clean-up holds it). A client past the look-up (`Late`) stays
there whatever its callbacks do (`Calls`). The handlers are functions from a record to a
record, and there is a lemma with the effect of each.

**Mvvm.** `Lifetimes` ties a view model to its view, `Subscriptions` the delegates
to the ids, `Distinct` gives each id to one view model. A `FireEvent` that is not
stale has called a prefix of a vector that has not changed (`AllFaithful`). What
`UnSubscribeEvent` leaves of a vector (`Without`) is proved by induction over the
vector, from the well-foundedness of the natural numbers.

**Jni.** Every helper has a lemma with its effect on an environment: `Calm` (no
exception of Java's is left, and none was met by a call), `Keeps` (no more
references and characters than before, unless a call failed), and that what is
cached stays cached. They are put together along `Bind`. Between operations an
environment is `Settled`, and `Loaded` keeps what `JNI_OnLoad` found in the cache
until the release.

**HttpParser.** None of the properties is inductive: what `content_length` means
depends on the state the parser is in, which a run of bytes has led to. `Live`
says for each state of the switch what is known of the other members there: which
notification was the last, whether the flags say chunked or trailing, that a body
state has bytes left and that what was handed over, what is marked and what is
left add up to what was announced, which header states may be met in a name and
in a value, and in which states which mark may be set (`MarkPlaces`). It has two
parameters. The bytes of a mark are counted at the end of a step, so inside a
step the byte at hand is added by `k`. `o` says whether notifications are in order:
the invariant is needed for both parsers, but the order is claimed of `cut` only,
because it takes an end of input that comes once, which `Running` says of `cut`.
`Rested` adds that `nread` is 0 where a chunk size starts, which
the switch itself does not see any more: the byte is counted before. There is a
lemma with the effect of each macro and one for each arm of the switch (`...Step`);
`goto reexecute` is the use of another arm's lemma. Nothing is induction over the
input: a buffer is read a byte a step. That the length does not wrap
(`LengthIsExact`) is the arithmetic of `NextDigit` for every `ULLONG_MAX`.

`CutsDoNotShow` is a simulation between the parser that is cut and paused and the
one that reads the same bytes in one go. Its relation is `Level`: the same fields
of `struct http_parser` and the same notifications, and the same data once what is
marked is counted in (`Reads`), because a cut hands over early what the other one
still marks. `CutInv` says that at any time one of three holds:

* `Agree`: the two are level, and every datum of the head that has begun is marked.
  Then they take the next byte alike. There is a lemma for each arm of the switch:
  two parsers about to take the same byte (`Twin`) are level after it, or both
  stop with the same error, or an end has come that is not compared (`Paired`).
* `Waiting`: the first one was paused within a byte that it has to look at again
  (`held`), and the other one has not taken it. `Awaits` says that the other one,
  whatever its callbacks will answer, passes on its way through this byte the
  very point where the first one waits; when the first one resumes, what is left
  of the byte is the same for both. An answer 1 or 2 of `on_headers_complete`
  (`Skip`) is no longer asked for when the pause comes after that callback, which
  is why `Awaits` leaves it out in `s_headers_done`.
* `Ended`: the header limit or the application has stopped one of them, both have
  the same error, or the first one has refused the character that `memchr` passed
  over in the other one.

`CutInv` is inductive together with `ParsersInv`, which tells where marks are set.
The proof showed that two arms of `ValueChar` overlapped, for the header states
of a whole `Connection` token and a comma, which TLC resolves by taking the first;
the arms are disjoint now, as the branches of the code are.

Only model-checked:

* all liveness: TLAPS has no fairness or `ENABLED` reasoning here;
* `FieldsPartition` and `ConnectsToHost` of `HttpUrl`: `http_parser_parse_url` is
  one step over a whole URL, a recursive function over its characters, so that a
  proof is an induction over data for an operator the provers cannot instantiate.

## Not modelled

* tcp server, semaphore, at_exit: a step or two under one mutex each; the
  server accepts one connection and is not used.
* string, crypto, log, time and thread helpers: wrappers without state. The
  clock is `Tick`; a signature verifies or not.
* event bus: empty functions. protobuf: generated classes that carry values.
* MFC controls, header lines of requests, certificates, the address bytes of the
  SOCKS5 request, values of properties and events: data the properties do not
  look at. The synchronous `ws_->close()` answers at once.

## Plan

1. SOCKS5 with tunnel data behind the reply; the synchronous websocket close on
   a pump shared by two connections.
2. `HttpUrl` a character a step, to prove about it what the runs show.
