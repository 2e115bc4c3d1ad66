# CreeperBox: a TLA+ model of the client

CreeperBox is an Android client add-on: a Java part (features, events, menus,
configuration) and a native C++ part (the verification client, bindings to the
game). This directory models the parts of it where threads, connections, timeouts,
crashes and shared flags meet, checks them with TLC, and proves their invariants and
two refinements with TLAPS.
Paths below are relative to `src/app/src/main/`; *Verify* is
`cpp/Verify/` and *java* is `java/helper/creeperbox/`.

| file | what it is |
|---|---|
| `LoginHandler.tla` | the login channel: connections, the IO thread, retry threads |
| `VerifyPromise.tla` | what the blocking call `CreeperBox_verify` promises |
| `VerifySession.tla` | dialog, starters, login channel, packets and status together; implements `VerifyPromise` |
| `MessageChannel.tla` | the message channel and its heartbeat |
| `PacketGate.tla` | what the component that holds packets back promises |
| `Blink.tla` | that component with its two modules and the threads that toggle them; implements `PacketGate` |
| `HotUpdate.tla` | the reload of a module while events are dispatched |
| `NumberSetting.tla` | the rule of number settings: clamp, then round |
| `ConfigFile.tla` | the configuration file: load, save, crash, user |
| `*_proofs.tla` | the inductive invariants and theorems of the module they are named after |
| `*.cfg` | the runs; `PROJECT.json` says which module each belongs to |
| `PROJECT.json` | components, runs, mutants, the map to the source, findings, hazards, theorems |

The switch `CreeperBox.debug` (*java* `clients/CreeperBox.java:42`) selects one of two
programs. With it set, the update timer exists and the default modules are not
registered: that is the program of `HotUpdate`. Without it, the modules of `Blink` and
the configuration of `ConfigFile` exist. The login modules belong to both.

## 1. Inventory

### Login channel (*Verify* `websocket/handler/LoginHandler.cpp`)
*State:* one websocketpp endpoint and its io_service, `connectionHandle`, the flag
`connected`, `currentRetry`, the `std::thread` object `ioThread`.
*Operations:* the constructor, `connect()`, the open, close, fail and message handlers
(on the IO thread), `reconnect()` (on a detached thread that the fail handler
starts), `send()`.
*Hard:* a retry thread stops the io_service and joins the IO thread whose handler
started it; `connect()` assigns `ioThread` without looking at the old one; handlers of
an old connection write the flag of a newer one; `connect()` dials before it assigns
the thread, so that the dial may be served, opened or failed in between; `init_asio()`
is called again.
*Correct when:* one connection is used at a time, the flag and the handle name it,
nothing deadlocks, a retry dials, and a later attempt does not end the process.

### Verification flow (*Verify* `Main.cpp`, `cpp/CreeperBoxJNI.cpp`, *java* `clickgui/VerifyGUI.java`)
*State:* the static `status` word, the static handler, the dialog's `isVerifying`.
*Operations:* `verify` (credentials, `startVerify`, `waitForVerification`),
`setStatus`, `isFailed`, the callbacks `startVerify` registers on the login channel.
*Interaction:* the dialog's thread polls what the IO thread writes; a starter thread
per call checks the clock, constructs the handler and dials.
*Hard:* the status word is written by the starters, the waiter, the IO thread and the
keepalive thread; `closeCallback` tests it without the lock; the wait may give up just
before the answer comes.
*Correct when:* `true` is returned only for a session that is complete, every call
returns, an announced success is not overwritten by a lost connection.

### Login packets (*Verify* `websocket/packet/s2c/login/`, `c2s/login/`, `websocket/handler/PacketHandler.cpp`)
*State:* process-wide keys (`HS256`, `ECDH`, `ChaCha20`), the render configuration, the
session flag of `FrameCounter`.
*Operations:* HSKey → Login → accepted or rejected → Handshake → Ping/Pong twice →
token, each with the packet it sends; a packet older than `MAX_PING` is discarded.
*Correct when:* both ends derive their ciphers from the same key pair, the message
channel opens only with a session, an accepted login is not stalled.

### Message channel and heartbeat (*Verify* `websocket/handler/MessageHandler.cpp`, `s2c/S2CPacketKeepalive.cpp`, `util/DateTimeUtil.cpp`)
*State:* the singleton, `connected`, `ioThread`, `keepaliveThread`,
`S2CPacketKeepalive::ids` and `lastActive`.
*Operations:* `connect`, the open, close and fail handlers, the keepalive loop (send,
compare, close, clear ids, sleep), the heartbeat's `handle()`, `getTime()` and
`expiry()`.
*Hard:* the two threads share `ids` and `lastActive` without a lock; `getTime()` is a
network request made between reading a time and comparing it, and it has an error
value that is compared as a time.
*Correct when:* silence is detected, nothing is closed for silence too early, an
announced timeout closes the socket, the id set stays bounded.

### Event dispatch (*java* `feature/event/`, `feature/module/`, `hotfix/UpdateManager.java`)
*State:* the handler table and its sorted cache, the module list, each module's
enabled flag, the test module, the files the developer leaves. *Operations:*
`register`, `unregister`, `callEvent`, `toggle` by key, the rounds of the update timer.
*Hard:* `register` rebuilds the cache without the lock of the other two; a round changes
four structures one after the other, with exceptions in between; the notice is read and
truncated in two steps. *Correct when:* the code of a removed module does not run, one
version is registered at a time, an announced version is tried.

### Held packets (*java* `feature/component/BlinkComponent.java`, `feature/module/modules/survival/Blink.java`, `movement/AntiVoid.java`)
*State:* the queue, the flags `blink`, `dispatch`, `exemptedMode`, the list of allowed
classes, AntiVoid's `startBlink` and `wasBlink`. *Operations:* hold, release, clear on
join, the two modules' ticks and switches. *Hard:* two modules share the flags; toggles
take no lock and fall between any two steps of a handler; a dispatch is reset after it
was served. *Correct when:* packets leave in order, once, none is lost but on a join or
in the rescue from the void, a requested dispatch happens, and the flag agrees with the
switches (it does not: findings 5 and 6).

### Configuration (*java* `file/ConfigManager.java`, `clickgui/ClickGUIRenderer.java`)
*State:* the settings of every module, the file, the JSON object being built.
*Operations:* load on every new surface, save every thirty seconds, changes by the user.
*Hard:* the file is truncated and written in place; load and save go module by module
while the user changes settings; the process may die anywhere. *Correct when:* a load
gives what was saved, settings are lost only by an interrupted write, and file and
settings come to agree.

### Settings (*java* `feature/settings/`)
*State:* the value of each setting. *Operations:* `setValue`, `forceSet`. *Hard:* a number
is clamped first and rounded afterwards, which can leave the range; what was saved must
come back. *Correct when:* a number is near its range and forcing it again changes
nothing.

### Not modelled, and why
- **Inventory mirror** (`InventoryComponent.java`): it is fed by `PacketReceiveEvent`s, and
  at this commit `hook/JavaProxy.java:118` returns the data before the code that would
  fire one. There is no behaviour to check.
- **Script queue and command blocks**: one thread adds to a plain list that another
  iterates and clears (listed as a hazard). What a lost or repeated script means is up to
  the game, and no text of the repository says how often each may run.
- **View rotation, position component**: floating-point angles and geometry whose
  contract is with the game.
- **Packet codec** (`ByteBuf.cpp`), **in-game names and cloud variables**: one pass over a
  byte array and single map updates, sequential, with the server as the other end.
- **Cryptography**: pure functions over OpenSSL; the models take their algebra as
  given (two key pairs agree or do not).
- **Environment and integrity guard**: only `FrameCounter`'s session flag and whether a
  seed leaves the render configuration valid matter to other components, and those two
  are modelled.
- **Game hooks, JNI and SDK bindings**: they meet a closed binary whose threads and
  contracts are not in the repository.
- **Feature modules, rendering, menus, account dialogs**: about a hundred independent
  features whose contract is with the game and with drawing.
- **Vendored libraries, assets**: third party. The state check of websocketpp's
  `init_asio()` is modelled where `reconnect()` meets it.

Of the 307,000 lines of implementation in `src/`, most are the vendored headers and the
accessors above (`cpp/Include` alone holds asio, websocketpp, OpenSSL and curl). The map
covers the program's own concurrent and persistent logic and is a small share of the
whole; it cannot be a large one without modelling third-party code.

## 2. The modules and the code

**LoginHandler.** A connection is named by the order in which it was dialled
(`conn[c]`). A handler runs on the IO thread and is one action (`OnOpen`, `OnClose`,
`OnFail`); it needs `Dispatching`: `run()` is executing and was not stopped. The threads
that run beside it take one action per call they make, because the others run in
between. `connect()` is `Connect` (line 150: the dial, which a running IO thread serves
at once) and `StartIoThread` (line 152: the assignment of the thread); `connecting` holds
the connections between the two. `reconnect()` is `StopService`, `TestJoinable`,
`JoinIoThread` or `JoinThrows`, and `ResetAndRedial`. `ioThread` is the `std::thread`
object: `"none"` is not joinable, `"running"` and `"finished"` are joinable;
`StartIoThread` on a joinable one ends the process (`crashed`). `InitAsioThrows` is the
state check of `init_asio()`. The names `retryCount` and `retrier[c]` are `currentRetry`
and the detached thread of connection `c`.
`close()` and the destructor are not actions: nothing calls them while the process
runs (the handler is static, and the `signalHandler` of `Main.cpp` is never
registered).

**VerifySession.** Uses `LoginHandler` through `INSTANCE` (`LH!...`): every step of it
appears here with the callbacks that `startVerify` registers. `ui` is the dialog with
the call it makes: `poll` and `checkFailed` are the two reads of one turn of the wait
loop, which the IO thread may come between. `starter[a]` is the thread of call `a`.
`io` is the IO thread inside a handler with an observable middle: `configured` and
`started` inside the handshake, `closing` between `closeCallback`'s test and its
write. Keys are the number of the key pair they derive from: `keyGen` is
`ECDH::clientPrivate`, `cipher` remembers own and peer. A starter dials
(`StarterDials`) and assigns (`StarterAssigns`) in two steps, as `LoginHandler` does.
The render configuration comes from a random seed and may turn out invalid
(`config' \in BOOLEAN` in `HandleHandshake`). The server is external: it greets a
connection that opens, answers its packets in order, well formed, accepts or rejects a
login, and hands out a token only after the second Ping. `s2c[c]` holds its packets in
flight on connection `c`; a packet of the client on its way to the server is
represented by the answer to come (`Answers`), which is lost with the connection like
the packet itself.

**VerifyPromise.** `call` and `session`, with a step each for beginning, establishing,
granting, refusing, dying and losing, and `connecting`, which comes and goes freely: only
while another attempt is inside `connect()` may a session be lost, since that attempt may
log in as well. `VerifySession!KeepsPromise` is its specification, liveness included, under
the mapping `call <- Call`, `session <- config /\ active`, `connecting <- connecting # {}`.

**MessageChannel.** Times are kept as ages (`lastActive`, `openAge`), capped one above
the limit where `expiry()` cannot tell them apart; `Tick` is time passing between any
two steps. `HandleBeat`, `InsertId`, `Stamp` are the heartbeat's `handle()`, which asks
the time server between insertion and assignment. `keeper` is the keepalive thread's
place in its loop; `SendAndRead` and `Compare` are separate because `expiry()` reads
its argument before it asks for the time. `ClearIds` is the unlocked `ids.clear()`:
during an insertion it may also corrupt the set (`crashed`). What `getTime()` returns is
the server's time, or after three exceptions the device's, which is `SKEW` behind it
(ahead of it, if negative): `Clock` is `{0, SKEW}` as an age, and either may come at any
call, since calls that overlap the third exception may still be answered. `Bad` is the
value -10000000. The latency of `getTime()` is a delay before the step that takes its
answer; the answer is right, by its clock, at the moment it is used.

**Blink and PacketGate.** `game` is the place of the one handler that runs (`callEvent`
holds a lock): the send handler `onPacketSend` (`join`, `blink`, `dispatch`, `list`, `flush`,
`lower`, `clear`, `return`) or AntiVoid's `onTick`. `at[t]` is the place of a toggling
thread in `Module.toggle` and the module's `onEnable`/`onDisable`. Every read or write of a
shared flag is a step. `kind` is the packet's class as far as the code tells classes
apart: a join, one of AntiVoid's two movement classes, or another. `player` is the local
player, which comes and goes. `flushed` is a history variable: how many packets of the
queue a dispatch has sent already. `PacketGate` follows a packet from the moment it
arrives: it passes, is held, leaves with the others, or is discarded, and the last only
with an `occasion`, the join or the rescue. The mapping takes for held what is in the queue
and has not been sent, and names the occasion only where the code stands at the two
`clear()`s that are meant to throw packets away (`BlinkComponent.java:52`,
`AntiVoid.java:145`). At `packets.clear()` of a dispatch (line 85) there is none: a packet
cleared there without having been sent is not a step of the gate.

**HotUpdate.** The versions the developer writes are numbers; `dex.loads` is what loading
the file gives: a module, a cut file (still being written), a class that is not there,
or one that is no module. `timer` is the place in a round of `checkAndUpdate`: look at the
notice, truncate it (or fail to: `TruncateFails` is the caught `IOException`, before or
after the file was emptied), unlist, unregister, load, list, put into the table, clear, fill and
sort the cache. `unregister` needs `game = "idle"` (the lock), the steps of `register` do
not. `touched` says that the cache changed under a dispatch: the iteration then ends, as
`ConcurrentModificationException` makes it.

**ConfigFile and NumberSetting.** `gl` and `index` are the place of the GL thread in
`read()` and `write()`, module by module; a module has its switch and one number. `Cut` is a
file that cannot be parsed: empty, or cut short. `Crash` may come at any step and starts
a fresh process that loads the file. `quiet` and `broken` are history: the user has
changed nothing since the load began, and the last write was cut short. Numbers are
whole multiples of a unit that makes bounds, step and default whole; `Forced` is
`Math.round` of the clamped value, halves upwards.

## 3. The runs

| run | cfg | shows |
|---|---|---|
| `login_channel` | `LoginHandler.cfg` | `TypeOK`, `OneLiveConnection`, `SafeAfterPlainFailures`, `FlagTracksConnection`, `StrandedByRetry`, `RetryThreadsEnd` |
| `login_retry` | `LoginHandler_RetriesRedial.cfg` | finding: an announced retry never dials |
| `verify_session` | `VerifySession.cfg` | `TypeOK`, `KeysAgree`, `ChannelNeedsSession`, `FirstLoginSurvives`, `KeepsPromise`, `SuccessSurvivesClose`, `AcceptedBecomesSession` |
| `verify_again` | `VerifySession_Retry.cfg` | finding: a second login attempt may end the process |
| `message_channel` | `MessageChannel.cfg` | `TypeOK`, `NoEarlyTimeout`, `IdsBounded`, `OpenIsWatched`, `SilenceDetected`, `KeeperEnds`, `TimeoutClosesSocket` |
| `heartbeat_ids` | `MessageChannel_KeepsRecentIds.cfg` | finding: fewer ids are kept than the comment says |
| `heartbeat_clock` | `MessageChannel_ClockFails.cfg` | finding: an unreadable clock answer closes a fresh channel |
| `held_packets` | `Blink.cfg` | `TypeOK`, `ImplementsGate`, `RequestsRelease` |
| `blink_shared` | `Blink_EnabledHolds.cfg` | finding: Blink announced as on holds nothing |
| `blink_off` | `Blink_OffHoldsNothing.cfg` | finding: packets are held with every module off |
| `hot_update` | `HotUpdate.cfg` | `TypeOK`, `OldCodeSilent`, `OneVersion`, `RegistrationWhole`, `NoticeArrives` |
| `config_file` | `ConfigFile.cfg` | `TypeOK`, `RestoresSaved`, `SavedReturns`, `OnlyWritesLose`, `WithinHalfStep`, `Settles` |

Every property of a passing run has a mutant in `PROJECT.json`: a plausible slip in one
mapped definition, written just before that definition, under which the property fails.

**Bounds, and why they are enough.**
- `login_channel` has 2 announced retries and 4 connections (451,527 states): enough for
  both retries, the reported failure and one dial after it, and for four starters inside
  `connect()` at once. The code's limit is 5; it enters only through the comparison in the
  fail handler. The safety properties are proved for every value.
- `verify_session` has 2 calls, 2 polls per call and one announced retry (200,119 states).
  Calls interact through the status word, the keys and the IO thread. A poll has no memory
  but its count, so two suffice to separate "answer before the limit" from "after it". The
  safety properties are proved for every value.
- `message_channel` (344,785 states) has a device clock one tick behind the server's under a
  limit of two, and 4 ids with limits 3 and 2, so that both the pruning and the
  clearing happen, also while an id is being inserted. The code's limits are in the
  same relation except that 30 < 100, which makes pruning rarer and not different.
  Two `connect()` calls: the second is the repeated token.
- `held_packets` has a queue of two (`MaxHeld`) and one identity more, so that order can go
  wrong and a packet can be under way behind a full queue. A packet that has left gives
  its identity back; which free one the next packet takes makes no difference
  (`IsFresh`). When the queue is at its bound, only packets that will not be held set out,
  and `blink` is not raised under a packet on its way: those two guards are the bound. One
  toggling thread (the menu): the code has several (menu, key button, key handler,
  configuration), but two take longer than a run should. `TypeOK` and `ImplementsGate` are
  proved for any number; `RequestsRelease` is checked for one only.
- `hot_update` has three versions: one that is registered, one that replaces it, and one
  that is announced while the notice of the second is truncated. Any truncation may fail.
- `config_file` has two modules, so that a load or a save can be interrupted between
  them, and a range 1..8 with step 4 and default 3: the lower bound and the default are
  no multiples of the step, so rounding leaves the range below. The proofs are for any
  range and step.

**Deadlock** is not checked in the three login modules: a process whose login failed for
good, whose dialog is done, or that has died really has nothing left to do.

**Fairness.** Weak, per thread: the operating system runs a thread that can run, and
the IO thread gets to the handlers it has. In addition
- a dial served by the IO thread ends, by the open handshake timeout of 5 s set in
  `connect()` (`OnOpen \/ OnFail`);
- the login server answers while a connection is open (the property that needs it,
  `AcceptedBecomesSession`, allows a lost connection and a discarded packet);
- a socket that was asked to close does close (websocketpp's close timeout), and time
  passes.
- the game sends packets again and again, whatever the ticks do (`SF_vars(Send)` in
  `Blink`: the player's input is reported in every tick);
- a thread that waits for the lock of the event manager gets it in the end
  (`SF_vars(Unregister)` in `HotUpdate`: the lock is free between any two events, so weak
  fairness would not do), and a file that is being written is completed and announced;
- frames are drawn between any two new surfaces, so that saves are not kept out for ever
  (`SF_vars(BeginSave)` in `ConfigFile`).

The user's clicks, the peer's close, expiry of packets, further heartbeats and the
arrival of tokens are never forced.

**What the properties do not claim.**
- *Inside `connect()`.* `OneLiveConnection`, `KeysAgree`, the second halves of
  `FlagTracksConnection` and `ChannelNeedsSession`, and `StrandedByRetry` are claims about
  states in which every `connect()` has returned (`Settled`). Between its dial and its
  assignment a second attempt can have a second connection live, open, failed or logged
  in; where the thread object is held, line 152 then ends the process.
- *`SafeAfterPlainFailures`* assumes that no dial fails before its own `connect()` has
  assigned the thread (`[]Calm`). Without that it is false: the retry thread of such a
  dial may free the object first, and line 152 then leaves a thread that nobody joins.
- *`AcceptedBecomesSession`* excepts a seed that leaves the render configuration invalid.
- *The clock.* The passing message-channel run has `ClockMayFail = FALSE`: every answer of
  `getTime()` is a time. `NoEarlyTimeout` then grants a channel `KEEPALIVE` less what the
  two clocks differ by; the code accepts a difference of five minutes at login, and from
  `KEEPALIVE` (one minute) on there is no grace. `heartbeat_clock` shows what the error
  value does besides.
- *`NoticeArrives`* assumes that truncations do not fail for ever (`TruncationWorks`) and
  excepts a notice that a failed truncation has wiped out (`lost`).
- *`RegistrationWhole`* is about the time between reloads. That a dispatch inside one meets a
  partial cache (`EventManager.java:82`) is modelled, and nothing forbids it.
- *`RestoresSaved`* says that the file wins, not that changes are saved before a load
  discards them; *`Settles`* lets a save mix two states and asks that a later one mends it.
- *`RequestsRelease`* says that the queue is emptied; that it is emptied by sending is
  `ImplementsGate`.

## 4. Findings

1. **A retry never dials** (`login_retry`). `reconnect()` calls `client.init_asio()` on an
   endpoint the constructor has initialised; websocketpp throws `invalid_state`, and the
   catch ends the retry thread. The failure is then never reported either: the caller
   waits for its 30 s timeout. `NoRetryDials` proves it for every instance.
2. **A second attempt may end the process** (`verify_again`). After an attempt whose
   connection opened, `ioThread` is joinable; the dialog's button is usable again, and the
   next `connect()` assigns a `std::thread` over a joinable one. `SafeAfterPlainFailures`
   is the other half: after attempts that merely failed (below the reporting limit, none
   inside its own `connect()`) the next attempt is safe, but only because the retry thread
   joined first.
3. **Heartbeat ids are forgotten at 30** (`heartbeat_ids`), where the comment at the
   pruning promises the 100 most recent.
4. **An unreadable clock answer is a timeout** (`heartbeat_clock`). The error value of
   `getTime()` is compared as if it were a time.
5. **Blink is on and holds nothing** (`blink_shared`). AntiVoid and Blink share
   `BlinkComponent.blink`. AntiVoid lowers it when its own hold ends, although Blink was
   switched on meanwhile: `wasBlink` is only looked at when the hold begins.
6. **Packets are held with everything off** (`blink_off`). `callEvent` tests `isEnable()` and
   then runs the tick; AntiVoid switched off in between raises `blink` afterwards, and
   `onDisable` has already looked at `startBlink`. Movement packets stay in the queue until
   Blink is switched on and off.

Seen while modelling, without a run of its own:

- `RenderConfig.cpp:103` says "ensure (a ^ b) % 17 == (c * d) % 17", but where the third value
  is a multiple of 17 and the left side is not, no fourth value does (lines 110-117 fall
  through with 0). About one random seed in eighteen is of that kind: the login is accepted,
  `SUCCESS` is set, and the wait still times out (`InvalidConfig` in `VerifySession`).
- Two toggles of Blink that overlap in two threads can leave `blink` raised behind a switch
  that is off, without AntiVoid: `enable = !enable` and the callback it chooses are separate
  steps (`Module.java:77-92`). `AloneSwitchIsRight` has a hypothesis against it.
- A dial made between the join and the reset of a retry thread starts its thread on a
  stopped io_service, so nobody serves it (`DialsResolve` in `LoginHandler` states what then
  fails, and `StrandedByRetry` that there is no other way to lose a dial).
- A failure reported by an older attempt ends the wait of a newer one, which
  `VerifyPromise` allows.

## 5. Proofs

Each theorem is for every value of the constants, from the named assumption of its
module and nothing else. What a run checks on a small instance and a theorem states
for all is listed under `theorems` in `PROJECT.json`.

### LoginHandler (`LoginHandlerAssumption`: the two constants are natural numbers)

- `TypeCorrect`; `Inductive`: `Spec => []IInv`.
- `OneConnection`, `FlagIsRight`, `OnlyRetriesStrand`: the safety invariants of
  `login_channel`; `PlainFailuresAreSafe`: `Spec => ([]Calm => []AssignableAgain)`.
- `NoRetryDials`: `[][ResetAndRedial(c) => conn' = conn]` for every `c`.
- `OneOpens`: once every `connect()` has returned, at most one connection has ever opened.
- `OpenStaysServed`, `JoinsEnd`: what the liveness properties need of every state.

**Why `IInv`.** Nothing in `connect()` looks at other connections, and between its two steps
every other thread may run, so that no statement about live connections is inductive. What
is, is an account of the thread object (`Accounts`): every `connect()` that has returned has
assigned it once, an assignment to an object that holds a thread ends the process, and the
object is emptied only by a join, once per retry thread. So there are at most as many
connections past their assignment as retry threads past their join, plus one while the
object holds a thread. Retry threads belong to failed connections (`Owners`); hence, when
every `connect()` has returned, at most one connection is there that is neither failed and
joined nor undialled (`SettledUnjoined`), and if there is one the object is held. One live
connection, one that opened, one retry thread before its join, and a connection without
a thread only behind a retry, all follow from that count. The counting uses the
cardinalities of `Assigned` and `Joined`.

`FlagKept` and `HandleNamed` say how flag, handle and failure count go together as long as
one connection has opened (`Sole`); `BeforeStops` says that until a retry thread has called
`stop()` the one IO thread leaves `run()` only when nothing is left to serve.
`NothingBefore` says that an endpoint not yet constructed has dialled nothing, which is what
makes `InitAsioThrows` true wherever a retry meets it.

**Plain failures.** `SafeAfterPlainFailures` is proved with two invariants that hold from step
to step as long as `Calm` does. With no dial failing inside its own `connect()` every retry
thread finds a thread to join, so the account is exact (`Exact`); and every failure has its
retry thread unless a connection has opened or the limit was passed (`Announced`). When all
connections have failed and all retries are past their join, both sides of the account are
equal without the object: it is empty.

### VerifySession (`VerifySessionAssumption`)

- `ComposesChannel`: every behaviour is a behaviour of `LoginHandler` (`LH!Spec`), so its
  theorems carry over: `OneConnection`, and `ChannelInFlow` (`JoinIsAnswered` and
  `StrandedByRetry` inside the flow).
- `Inductive`, `TypeCorrect`, `KeysAreShared`, `TokenNeedsSession`, `SuccessStays`,
  `FirstSurvives`.
- `PromiseKept`: the initial state and every step of `VerifyPromise`, without its fairness.
- `AcceptedNeverStalls`: the safety behind `AcceptedBecomesSession`.

**Why `Inv`.** It has two layers. `OrderInv` holds however many connections open: a reply
to the handshake is only in flight once there is a key pair, an echo or a token only with
a session. `Conversation` holds as long as one connection has opened (`LHP!Sole`), and once
a second has it is never claimed again (`OpenedStays`): at most one packet is in flight
(`Talks`), and its kind says how far the keys are (`Fits`). By `OneOpens` every state in which
each `connect()` has returned is of the second kind, which gives `KeysAgree`.
`SuccessStays` rests on `FlowInv`: the IO thread is between the test and the write of the
close callback only for a status that is not SUCCESS, because SUCCESS is only ever written by
the same thread. A repair of the retry or of the second attempt would let a second
connection open for good and put `KeysAgree` at risk, and these proofs would show where.

**One attempt alone.** `FirstSurvives` is the converse of finding 2. Until a second call of
the dialog nothing but the first starter dials, so the thread object it assigns is one that
nobody has assigned before (`StartInv`).

**No stall.** `AcceptedNeverStalls` says of every state after an accepted login, while its
connection is up and the only one that has opened, no packet was discarded as too old, the
seed is not one that leaves the configuration invalid and the session is not complete, that
the handshake is in flight or inside its handler, that the key it needs is known, and that
the IO thread is inside `run()` to handle it, unless the retry thread of another dial has
called `stop()`.

### MessageChannel (`MessageChannelAssumption`)

- `TypeCorrect`, `IdsStayBounded`, and `KeeperLeaves` (the action property `KeeperEnds`).
- `GraceIsGiven`, for every `SKEW` and with `ClockMayFail = FALSE` as its hypothesis, as in
  the run: with it TRUE the statement is false (finding 4). The invariant behind it: once
  the keepalive thread has called `reset()`, the last heartbeat, and what the thread has
  read of it, is never older than the channel by more than the device's clock is behind
  (`BeatIsRecent`), and, by the types, never further in the future than it is ahead; so
  only a channel that was open for longer than the limit less the difference times out.
- `OpenStaysWatched`: an open channel is never without its keepalive thread, and an
  announced timeout leaves none open. It rests on `DialsOnce`: the thread starts with the
  only connection there ever is.
- `KeptBelowLimits`: the part of the comment of finding 3 that is true. While fewer ids are
  known than either limit, none is forgotten.

### PacketGate and Blink (`BlinkAssumption`)

- `NeverBoth` (`PacketGate_proofs`): in the gate every packet is held once and none that
  leaves is held. Its assumption is that `None` is no packet.
- `GateLosesNone`: in every step of the gate without an occasion, a packet that was arriving
  is still arriving, held or sent, and one that was held is still held or sent.
- `TypeCorrect`, and `Refinement`: `Spec => ImplementsGate`, for any packets, number of
  toggling threads and bound. A packet on its way is not in the queue unless its event was
  cancelled (`NotQueued`, `NotYetCancelled`): that is what makes it impossible to send a
  packet that is held. `Room` says that the guards of the bound suffice.
- `SentOrHeld`, `NoPacketLost`: `NeverBoth` and `GateLosesNone` of the component's own queue,
  carried over by the refinement. A dispatch that clears the queue has sent all of it.
- `AloneSwitchIsRight`: while nobody toggles AntiVoid (`[]AntiVoidLeft`) and no two toggles
  overlap (`[]TogglesApart`), whichever threads make them, both properties that findings 5
  and 6 refute hold. Without either hypothesis they do not: the flag is shared by two modules,
  and `toggle()` takes no lock. `SwitchFollowed` is its invariant.

### HotUpdate (`HotUpdateAssumption`)

- `TypeCorrect`, `OneVersionHolds`, `RemovedCodeIsSilent`. `RoundOK` is the strengthening:
  after the handlers are gone the module list is empty as well, and nothing is loaded over
  a module that is still there.
- `RegistrationIsWhole`: what a dispatch can miss is confined to the steps of a reload.
  `Halfway` says for each of those steps which of the structures is already changed.
- `NoticeIsKept`: the safety behind `NoticeArrives`. A version that was announced and not
  tried is in the notice, about to be loaded, or about to be superseded, also when its
  notice is cut off with an older one, because the file is read after the truncation; or a
  truncation that failed has wiped its notice out (`lost`).

### ConfigFile and NumberSetting (range, step, number of modules)

- `TypeCorrect`, `LoadRestores`, `LossIsExplained`, `NumbersNearRange`. `LoadGoesOn` says how
  far a load has come.
- `ForcedIdempotent`: forcing a number twice is forcing it once. It needs a case split,
  since a rounded number may lie outside the range and is clamped and rounded again.
- `SavedNumbersReturn`: what was saved comes back to the last digit, unless it is a default
  nobody has set. `NumbersStable` follows the numbers through the settings, the JSON object
  and the file: all of them were forced or are the default.
- `SavedStays`: the safety behind `Settles`. Once the file says what is in force and the
  numbers are on the grid, no load and no save changes a setting, until the user acts, the
  process dies or a write fails; the state may be in the middle of a load or a save
  (`Collected`).

### Model-checked only

All liveness: `RetryThreadsEnd`, `AcceptedBecomesSession`, the liveness of `VerifyPromise`,
`SilenceDetected`, `TimeoutClosesSocket`, `RequestsRelease`, `NoticeArrives`, `Settles`. It
rests on fairness, which is out of the prover's reach. For all but `VerifyPromise` and
`RequestsRelease` the safety half is a theorem: `JoinsEnd`, `AcceptedNeverStalls`,
`OpenStaysWatched` (for two of them), `NoticeIsKept`, `SavedStays`. Every invariant and
action property of the passing runs is proved.

## 6. What the models leave out

- The torn state of objects in a data race, except the id set: two threads that
  assign and join one `std::thread`, or fill one `std::map`, are modelled as taking
  their steps in some order.
- In that sense the `std::thread` object of the login channel has one place only: the
  creation of a thread and its assignment (line 152) are one step, and so are the test
  and the release inside `join()`. Where a retry thread joins an object that was emptied
  since it asked `joinable()`, or that another one joins, the exception is the outcome
  modelled; that the two calls corrupt each other is not.
- Line 200 and line 202 of `MessageHandler.cpp`, the dial and the assignment of the
  message channel's thread, are one step. They differ only for a second `connect()`,
  whose assignment always ends the process (nothing ever joins that thread): what the
  message-channel properties say is not claimed of the instant between those lines in a
  process that the second line ends.
- The error path of `get_connection` in `connect()` and `reconnect()` (lines 141-145 and
  284-288): it reports an invalid URI, and the URI is a constant.
- That the device's clock is set while the program runs, and that the change from the
  server's time to the device's is for good (either may come at any call, which allows
  more).
- Malformed packets, failures of the crypto library, exceptions of the transport
  other than `invalid_state`.
- Status callbacks (never registered), logging, texts, card storage.
- Chat, in-game names and cloud variables on the message channel: single updates on
  one thread.
- AntiVoid's modes that do not touch the held packets, and a change of the mode during
  a hold.
- The order of handlers by priority, and the registrations of the release build, which
  are made once before the first event.
- Boolean and list settings and the positions of key buttons in the configuration,
  which are saved and restored like a switch; two settings of one name.
- Exceptions that a modified list throws into the key handler or the configuration:
  what they do to the thread that iterates is the game's.

## 7. What would come next

- `ByteBuf`'s variable-length integers against a reference definition, should the
  server's side of the encoding become part of the repository.
- The script queue, once it is said how often a script may run.
- A repaired `reconnect()` and `connect()`: `OneOpens` then no longer holds, and `KeysAgree`
  has to be stated per connection.
- A `MessageChannel` with the second dial's connection as state of its own, should anything
  ever free its thread object.
