--------------------------- MODULE MessageChannel ---------------------------
(***************************************************************************)
(* The message channel after login (MessageHandler.cpp) with its heartbeat *)
(* (S2CPacketKeepalive.cpp): an IO thread that runs the handlers, and the  *)
(* keepalive thread each opened connection starts.                         *)
(*                                                                         *)
(* Time is kept as ages in ticks of the server's clock, each capped where  *)
(* no comparison can tell older ones apart.  A time that getTime() takes   *)
(* from the device's own clock has the age SKEW when it is taken; its      *)
(* error value -10000000 is the age Bad, which is no age.                  *)
(***************************************************************************)
EXTENDS Integers, Sequences, FiniteSets

CONSTANTS
  KEEPALIVE,    \* the heartbeat limit, in ticks
  SKEW,         \* ticks by which the device's clock is behind the server's
  MAX_IDS,      \* heartbeat ids kept when one more is inserted (100)
  CLEAR_AT,     \* ids at which the keepalive thread clears the set (30)
  Ids,          \* the ids a server may send: numbers, in no useful order
  MaxInflight,  \* bound of the model: heartbeats on the wire
  MaxConnects,  \* bound of the model: tokens that arrive on the login channel
  ClockMayFail  \* whether getTime() may return its error value

ASSUME MessageChannelAssumption ==
  /\ KEEPALIVE \in Nat /\ SKEW \in Int
  /\ MAX_IDS \in Nat \ {0} /\ CLEAR_AT \in Nat \ {0}
  /\ Ids \subseteq Nat /\ IsFiniteSet(Ids)
  /\ MaxInflight \in Nat /\ MaxConnects \in Nat /\ ClockMayFail \in BOOLEAN

VARIABLES
  conn,       \* the connection: "none", "dialing", "open", "closing", "gone"
  connected,  \* the flag under connectionMutex
  connects,   \* calls of connect() that dialled
  crashed,    \* std::terminate or a corrupted heap has ended the process
  io,         \* "idle", or "inserting", "stamping" in the heartbeat handler
  keeper,     \* where the keepalive thread is
  seen,       \* the age it read lastActive at, when comparing
  ids,        \* S2CPacketKeepalive::ids
  lastActive, \* the age of S2CPacketKeepalive::lastActive
  openAge,    \* how long ago the connection opened
  timedOut,   \* HEARTBEAT_TIMEOUT was announced
  wire        \* heartbeats sent by the server and not yet handled

connVars == <<conn, connected, connects, crashed>>
beatVars == <<ids, lastActive>>
vars == <<connVars, io, keeper, seen, beatVars, openAge, timedOut, wire>>

\* How far the device's clock is behind, ahead, or off.
Behind == IF SKEW > 0 THEN SKEW ELSE 0
Ahead  == IF SKEW < 0 THEN -SKEW ELSE 0
Drift  == Behind + Ahead

\* From Old on an age is expired by either clock; a time of a clock that is ahead
\* lies in the future.
Old  == KEEPALIVE + Behind + 1
Ages == (-Ahead)..Old

\* The error value among the times: far from every time but itself.
Bad   == Old + 1
Times == Ages \cup {Bad}

StageOK ==
  /\ conn \in {"none", "dialing", "open", "closing", "gone"}
  /\ connects \in 0..MaxConnects
  /\ io \in {"idle", "inserting", "stamping"}
  /\ keeper \in {"none", "reset", "check", "send", "compare", "close",
                 "prune", "sleep", "ended"}

TimesOK == seen \in Times /\ lastActive \in Times /\ openAge \in Ages

BeatsOK == ids \subseteq Ids /\ wire \in Seq(Ids)

Flags == connected \in BOOLEAN /\ crashed \in BOOLEAN /\ timedOut \in BOOLEAN

TypeOK == StageOK /\ TimesOK /\ BeatsOK /\ Flags

\* lastActive is 0 until the first reset: the age of the epoch.
Init ==
  /\ conn = "none" /\ connected = FALSE /\ connects = 0 /\ crashed = FALSE
  /\ io = "idle" /\ keeper = "none" /\ seen = Old
  /\ ids = {} /\ lastActive = Old /\ openAge = Old
  /\ timedOut = FALSE /\ wire = <<>>

\* Mutant: the time is answered in another unit than the one compared.
ClockInSeconds == {Bad + 1}

\* The age of what getTime() returns: the server's time, and after three
\* exceptions the device's.  A call under way when another one has failed may
\* still be answered by the server, so either can come at any time.
Clock == {0, SKEW} \cup (IF ClockMayFail THEN {Bad} ELSE {})

-----------------------------------------------------------------------------
(* Connecting, on the login channel's IO thread *)

\* connect() returns when connected; else doConnect() dials and assigns
\* ioThread, which an earlier connect() has left joinable.
Connect ==
  /\ ~connected /\ connects < MaxConnects /\ ~crashed
  /\ connects' = connects + 1
  /\ IF connects = 0 THEN conn' = "dialing" /\ UNCHANGED crashed
                     ELSE crashed' = TRUE /\ UNCHANGED conn
  /\ UNCHANGED <<connected, io, keeper, seen, beatVars, openAge, timedOut, wire>>

-----------------------------------------------------------------------------
(* The handlers, on the IO thread *)

OnOpen ==
  /\ conn = "dialing" /\ io = "idle" /\ ~crashed
  /\ conn' = "open" /\ connected' = TRUE
  /\ openAge' = 0
  /\ keeper' = "reset"
  /\ UNCHANGED <<connects, crashed, io, seen, beatVars, timedOut, wire>>

OnFail ==
  /\ conn = "dialing" /\ io = "idle" /\ ~crashed
  /\ conn' = "gone" /\ connected' = FALSE
  /\ UNCHANGED <<connects, crashed, io, keeper, seen, beatVars, openAge, timedOut,
                 wire>>

\* Mutant: the close handler forgets the flag the keepalive thread polls.
OnCloseKeepingFlag ==
  /\ conn \in {"open", "closing"} /\ io = "idle" /\ ~crashed
  /\ conn' = "gone"
  /\ wire' = <<>>
  /\ UNCHANGED <<connected, connects, crashed, io, keeper, seen, beatVars, openAge,
                 timedOut>>

OnClose ==
  /\ conn \in {"open", "closing"} /\ io = "idle" /\ ~crashed
  /\ conn' = "gone" /\ connected' = FALSE
  /\ wire' = <<>>
  /\ UNCHANGED <<connects, crashed, io, keeper, seen, beatVars, openAge, timedOut>>

\* Mutant: the oldest half is computed but the bound is not enforced.
Unpruned(S) == S

\* Over MAX_IDS ids, the smaller half of them goes.
Pruned(S) ==
  IF Cardinality(S) > MAX_IDS
  THEN {x \in S : Cardinality({y \in S : y < x}) >= Cardinality(S) \div 2}
  ELSE S

\* An id seen before is dropped; the insertion of a new one begins ...
HandleBeat ==
  /\ conn = "open" /\ io = "idle" /\ wire # <<>> /\ ~crashed
  /\ IF Head(wire) \in ids
     THEN wire' = Tail(wire) /\ UNCHANGED io
     ELSE io' = "inserting" /\ UNCHANGED wire
  /\ UNCHANGED <<connVars, keeper, seen, beatVars, openAge, timedOut>>

\* ... and is done, before the time is asked for, which may take long.
InsertId ==
  /\ io = "inserting" /\ ~crashed
  /\ ids' = Pruned(ids \cup {Head(wire)})
  /\ wire' = Tail(wire)
  /\ io' = "stamping"
  /\ UNCHANGED <<connVars, keeper, seen, lastActive, openAge, timedOut>>

\* lastActive = getTime(), and the session's time starts again.
Stamp ==
  /\ io = "stamping" /\ ~crashed
  /\ lastActive' \in Clock
  /\ io' = "idle"
  /\ UNCHANGED <<connVars, keeper, seen, ids, openAge, timedOut, wire>>

-----------------------------------------------------------------------------
(* The keepalive thread *)

At(p, q) == keeper = p /\ keeper' = q /\ ~crashed

\* Mutant: the thread starts its loop without reset().
SkipReset ==
  /\ At("reset", "check")
  /\ UNCHANGED <<connVars, io, seen, beatVars, openAge, timedOut, wire>>

\* reset()
Reset ==
  /\ At("reset", "check")
  /\ lastActive' \in Clock
  /\ UNCHANGED <<connVars, io, seen, ids, openAge, timedOut, wire>>

\* The flag is read under the mutex; a lost connection ends the thread.
CheckConnected ==
  /\ IF connected THEN At("check", "send") ELSE At("check", "ended")
  /\ UNCHANGED <<connVars, io, seen, beatVars, openAge, timedOut, wire>>

\* The heartbeat is sent; then lastActive is read as an argument of expiry(),
\* which asks the time service before it compares.
SendAndRead ==
  /\ At("send", "compare")
  /\ seen' = lastActive
  /\ UNCHANGED <<connVars, io, beatVars, openAge, timedOut, wire>>

\* Mutant: now - then is taken the wrong way round, without the absolute value.
NeverExpired(then, now) == FALSE

\* expiry(then, KEEPALIVE) for the age then, when getTime() answers now: std::abs
\* of the difference; two error values are equal, one is far from every time.
Expired(then, now) ==
  IF Bad \in {then, now} THEN then # now
                         ELSE then - now > KEEPALIVE \/ now - then > KEEPALIVE

\* Mutant: the timeout is announced and ends the thread without close().
CompareAndLeave ==
  /\ \E t \in Clock :
       IF Expired(seen, t) THEN At("compare", "ended") /\ timedOut' = TRUE
                           ELSE At("compare", "prune") /\ UNCHANGED timedOut
  /\ UNCHANGED <<connVars, io, seen, beatVars, openAge, wire>>

Compare ==
  /\ \E t \in Clock :
       IF Expired(seen, t) THEN At("compare", "close") /\ timedOut' = TRUE
                           ELSE At("compare", "prune") /\ UNCHANGED timedOut
  /\ UNCHANGED <<connVars, io, seen, beatVars, openAge, wire>>

\* Mutant: close() forgets the socket when the flag is already down.
CloseFlagOnly ==
  /\ At("close", "ended")
  /\ connected' = FALSE
  /\ UNCHANGED <<conn, connects, crashed, io, seen, beatVars, openAge, timedOut,
                 wire>>

\* close(): the flag goes down first, the socket is closed if it was up.
CloseChannel ==
  /\ At("close", "ended")
  /\ connected' = FALSE
  /\ conn' = IF connected THEN "closing" ELSE conn
  /\ UNCHANGED <<connects, crashed, io, seen, beatVars, openAge, timedOut, wire>>

\* ids is cleared without a lock: a data race with an insertion under way,
\* which either order may win and which may corrupt the set's nodes.
ClearIds ==
  /\ At("prune", "sleep")
  /\ ids' = IF Cardinality(ids) >= CLEAR_AT THEN {} ELSE ids
  /\ crashed' \in {FALSE, ids' # ids /\ io = "inserting"}
  /\ UNCHANGED <<conn, connected, connects, io, seen, lastActive, openAge,
                 timedOut, wire>>

Wake ==
  /\ At("sleep", "check")
  /\ UNCHANGED <<connVars, io, seen, beatVars, openAge, timedOut, wire>>

-----------------------------------------------------------------------------
(* External: the server and time *)

ServerBeats(id) ==
  /\ conn = "open" /\ Len(wire) < MaxInflight /\ ~crashed
  /\ wire' = Append(wire, id)
  /\ UNCHANGED <<connVars, io, keeper, seen, beatVars, openAge, timedOut>>

Older(a) == IF a < Old THEN a + 1 ELSE a

Tick ==
  /\ ~crashed
  /\ lastActive' = Older(lastActive) /\ seen' = Older(seen)
  /\ openAge' = Older(openAge)
  /\ UNCHANGED <<connVars, io, keeper, ids, timedOut, wire>>

-----------------------------------------------------------------------------
Keeper == \/ Reset \/ CheckConnected \/ SendAndRead \/ Compare \/ CloseChannel
          \/ ClearIds \/ Wake

Next ==
  \/ Connect \/ OnOpen \/ OnFail \/ OnClose \/ HandleBeat \/ InsertId \/ Stamp
  \/ Keeper
  \/ \E id \in Ids : ServerBeats(id)
  \/ Tick

\* The keepalive thread and a handler that has begun go on; a socket that was
\* asked to close does close; time passes.  The server need not do anything.
Fairness ==
  /\ WF_vars(Keeper) /\ WF_vars(Stamp) /\ WF_vars(HandleBeat \/ InsertId)
  /\ WF_vars(OnClose /\ conn = "closing") /\ WF_vars(Tick)

Spec == Init /\ [][Next]_vars
FairSpec == Spec /\ Fairness
-----------------------------------------------------------------------------
(* Correctness *)

\* A channel is never given up for a missing heartbeat before it has been open
\* for longer than KEEPALIVE, less what the two clocks differ by: reset() gives
\* every connection its grace.  A device whose clock is off by more than
\* KEEPALIVE can have none, once getTime() has fallen back to it.
NoEarlyTimeout == timedOut => openAge + Drift > KEEPALIVE

\* The set of remembered ids stays bounded although two threads write it.
IdsBounded == Cardinality(ids) <= MAX_IDS

\* An open connection and the flag go together, and a keepalive thread watches
\* over them, or over the socket's end after a timeout: the thread neither ends
\* before the connection nor leaves it open behind an announced timeout.
OpenIsWatched ==
  /\ connected <=> conn = "open"
  /\ connected => keeper \notin {"none", "ended"}
  /\ timedOut => keeper = "close" \/ conn \in {"closing", "gone"}

\* When heartbeats stop for good, the channel is closed and its thread ends.
SilenceDetected ==
  <>[](io = "idle") => <>[](crashed \/ conn = "dialing"
                              \/ (~connected /\ keeper \in {"none", "ended"}))

\* A keepalive thread whose connection was closed by the peer leaves at its
\* next check: it neither sends into the lost connection again nor reports the
\* loss as a heartbeat timeout later.
KeeperEnds ==
  [][conn = "gone" /\ keeper = "check" /\ keeper' # keeper => keeper' = "ended"]_vars

\* A timeout that was announced also ends the connection on the wire.
TimeoutClosesSocket == timedOut ~> crashed \/ conn = "gone"

\* What the comment at the pruning says (S2CPacketKeepalive.cpp:28): the last
\* MAX_IDS ids are kept, so nothing is forgotten while there are fewer.
KeepsRecentIds == [][Cardinality(ids) < MAX_IDS => ids \subseteq ids']_vars
=============================================================================
