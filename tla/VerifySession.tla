---------------------------- MODULE VerifySession ----------------------------
(***************************************************************************)
(* One process of the program while the user logs in.  It composes the     *)
(* login dialog and its blocking call CreeperBox_verify (the waiter), the  *)
(* thread each call starts (the starter), the login channel (LoginHandler) *)
(* and the packets exchanged on it, and the status word they all write.    *)
(*                                                                         *)
(* The server and the network are external.  The server greets a connection *)
(* that opens and answers each of its packets once, in order; it may accept *)
(* or reject a login.  A packet on its way to it is the answer to come.     *)
(***************************************************************************)
EXTENDS Naturals, Sequences

CONSTANTS
  MAX_RETRIES,   \* of LoginHandler
  MaxAttempts,   \* bound of the model: calls of verify
  MaxPolls       \* polls in one call: 30000 ms / 500 ms in the code

ASSUME VerifySessionAssumption ==
  MAX_RETRIES \in Nat /\ MaxAttempts \in Nat /\ MaxPolls \in Nat

VARIABLES asio, conn, connecting, handle, connected, retryCount, ioThread,
          stopped, retrier, crashed

LH == INSTANCE LoginHandler WITH MaxConns <- MaxAttempts

VARIABLES
  status,      \* Main::status
  ui,          \* where the dialog and the call it makes are
  attempts,    \* calls of verify so far
  polls,       \* polls of the current call: elapsed / pollIntervalMs
  starter,     \* the thread each call starts
  io,          \* where the IO thread is inside a handler
  config,      \* RenderConfig::validateRenderingConfig()
  active,      \* FrameCounter::isSessionActive()
  hsKey,       \* HS256::key is set
  keyGen,      \* X25519 key pairs generated; ECDH::clientPrivate is the last
  cipher,      \* ChaCha20's keys, as the two key pairs they derive from
  channel,     \* the message channel: "none", "requested", "expired"
  s2c,         \* packets in flight, or to come, on a connection
  dropped      \* a packet was discarded because its time had expired

lhVars   == <<asio, conn, connecting, handle, connected, retryCount, ioThread,
              stopped, retrier, crashed>>
uiVars   == <<ui, attempts, polls>>
sessVars == <<config, active, hsKey, keyGen, cipher, channel>>
netVars  == <<s2c, dropped>>
vars     == <<lhVars, status, uiVars, starter, io, sessVars, netVars>>

Attempts == 1..MaxAttempts

\* isFailed(): the states that end a wait.
Failed == {"FAILED_AUTH", "FAILED_CONNECT", "FAILED_TIMEOUT",
           "FAILED_SIGNATURE", "DISCONNECTED", "HEARTBEAT_TIMEOUT"}

VerifyStatus ==
  Failed \cup {"NOT_STARTED", "CONNECTING", "AUTHENTICATING", "SUCCESS"}

NoCipher == [own |-> 0, peer |-> 0]

PacketTypes == {"HSKey", "LoginOk", "LoginBad", "Handshake", "Pong", "Token"}
Keyed       == {"Handshake", "Pong", "Token"}
Packets     == [type : PacketTypes \ Keyed] \cup [type : Keyed, key : Nat]

FlowOK ==
  /\ status \in VerifyStatus
  /\ ui \in {"ready", "poll", "checkFailed", "true", "false", "verified"}
  /\ attempts \in 0..MaxAttempts
  /\ polls \in 0..MaxPolls
  /\ starter \in [Attempts -> {"none", "time", "init", "connect", "dialled", "ended"}]
  /\ io \in {"idle", "configured", "started", "closing"}

KeysOK ==
  /\ config \in BOOLEAN /\ active \in BOOLEAN /\ hsKey \in BOOLEAN
  /\ keyGen \in Nat
  /\ cipher \in [own : Nat, peer : Nat]
  /\ channel \in {"none", "requested", "expired"}

PacketsOK ==
  /\ s2c \in [Attempts -> Seq(Packets)]
  /\ dropped \in BOOLEAN

TypeOK == LH!TypeOK /\ FlowOK /\ KeysOK /\ PacketsOK

Init ==
  /\ LH!Init
  /\ status = "NOT_STARTED"
  /\ ui = "ready" /\ attempts = 0 /\ polls = 0
  /\ starter = [a \in Attempts |-> "none"]
  /\ io = "idle"
  /\ config = FALSE /\ active = FALSE /\ hsKey = FALSE
  /\ keyGen = 0 /\ cipher = NoCipher
  /\ channel = "none"
  /\ s2c = [c \in Attempts |-> <<>>] /\ dropped = FALSE

setStatus(s) == status' = s

-----------------------------------------------------------------------------
(* The dialog and its blocking call *)

\* verify(): setCredentials, startVerify's setStatus and its thread, and the
\* first instruction of waitForVerification.  The button is dead while a call
\* runs and gone once one has succeeded.
Click ==
  /\ ui = "ready" /\ attempts < MaxAttempts /\ ~crashed
  /\ attempts' = attempts + 1
  /\ setStatus("CONNECTING")
  /\ starter' = [starter EXCEPT ![attempts + 1] = "time"]
  /\ ui' = "poll" /\ polls' = 0
  /\ UNCHANGED <<lhVars, io, sessVars, netVars>>

\* Mutant: the wait believes the session is up as soon as the config is.
ReadyOnConfig == config

\* The test the wait loop makes for success.
Ready == config /\ active

\* Mutant: the loop does not look at the time that has elapsed.
PollForever ==
  /\ ui = "poll" /\ ~crashed
  /\ ui' = IF Ready THEN "true" ELSE "checkFailed"
  /\ UNCHANGED <<lhVars, status, attempts, polls, starter, io, sessVars, netVars>>

PollReady ==
  /\ ui = "poll" /\ polls < MaxPolls /\ ~crashed
  /\ ui' = IF Ready THEN "true" ELSE "checkFailed"
  /\ UNCHANGED <<lhVars, status, attempts, polls, starter, io, sessVars, netVars>>

\* isFailed(), and otherwise a sleep of one poll interval.
PollFailed ==
  /\ ui = "checkFailed" /\ ~crashed
  /\ IF status \in Failed THEN ui' = "false" /\ UNCHANGED polls
                          ELSE ui' = "poll" /\ polls' = polls + 1
  /\ UNCHANGED <<lhVars, status, attempts, starter, io, sessVars, netVars>>

WaitTimesOut ==
  /\ ui = "poll" /\ polls = MaxPolls /\ ~crashed
  /\ setStatus("FAILED_TIMEOUT")
  /\ ui' = "false"
  /\ UNCHANGED <<lhVars, attempts, polls, starter, io, sessVars, netVars>>

\* The runnable posted to the UI thread.
ShowResult ==
  /\ ui \in {"true", "false"} /\ ~crashed
  /\ ui' = IF ui = "true" THEN "verified" ELSE "ready"
  /\ UNCHANGED <<lhVars, status, attempts, polls, starter, io, sessVars, netVars>>

-----------------------------------------------------------------------------
(* The starter: the thread of startVerify() *)

\* expiry(localTime): a clock that differs from the server's ends the attempt.
CheckClock(a) ==
  /\ starter[a] = "time" /\ ~crashed
  /\ \/ /\ starter' = [starter EXCEPT ![a] = "init"]
        /\ UNCHANGED status
     \/ /\ starter' = [starter EXCEPT ![a] = "ended"]
        /\ setStatus("FAILED_TIMEOUT")
  /\ UNCHANGED <<lhVars, uiVars, io, sessVars, netVars>>

\* The static handler is constructed by the first starter to get here.
InitHandler(a) ==
  /\ starter[a] = "init" /\ ~crashed
  /\ IF asio = "UNINITIALIZED" THEN LH!Construct ELSE UNCHANGED lhVars
  /\ starter' = [starter EXCEPT ![a] = "connect"]
  /\ UNCHANGED <<status, uiVars, io, sessVars, netVars>>

\* handler.connect() dials ...
StarterDials(a) ==
  /\ starter[a] = "connect"
  /\ \E c \in Attempts : LH!Connect(c)
  /\ starter' = [starter EXCEPT ![a] = "dialled"]
  /\ UNCHANGED <<status, uiVars, io, sessVars, netVars>>

\* Its assignment is that of any connect() under way: the flow only depends
\* on whether there is one.
Assigns == \E c \in Attempts : (\A d \in connecting : c <= d) /\ LH!StartIoThread(c)

\* Mutant: the thread dials until a connection is up.
StarterInsists(a) ==
  /\ starter[a] = "dialled"
  /\ Assigns
  /\ starter' = [starter EXCEPT ![a] = IF connected THEN "ended" ELSE "connect"]
  /\ UNCHANGED <<status, uiVars, io, sessVars, netVars>>

\* ... and then assigns the IO thread; after that the starter only sleeps.
StarterAssigns(a) ==
  /\ starter[a] = "dialled"
  /\ Assigns
  /\ starter' = [starter EXCEPT ![a] = "ended"]
  /\ UNCHANGED <<status, uiVars, io, sessVars, netVars>>

-----------------------------------------------------------------------------
(* The handlers of LoginHandler, with the callbacks startVerify registers *)

IoIdle == LH!Dispatching /\ io = "idle"

\* The server's first packet on a connection brings its HS256 key.
Opened(c) ==
  /\ IoIdle /\ LH!OnOpen(c)
  /\ s2c' = [s2c EXCEPT ![c] = <<[type |-> "HSKey"]>>]
  /\ UNCHANGED <<status, uiVars, starter, io, sessVars, dropped>>

\* errorCallback sets the status in the step that reports the failure.
DialFailed(c) ==
  /\ IoIdle /\ LH!OnFail(c)
  /\ IF LH!ReportsError THEN setStatus("FAILED_CONNECT") ELSE UNCHANGED status
  /\ UNCHANGED <<uiVars, starter, io, sessVars, netVars>>

\* Mutant: closeCallback does not look at the status.
ClosedAlways(c) ==
  /\ IoIdle /\ LH!OnClose(c)
  /\ s2c' = [s2c EXCEPT ![c] = <<>>]
  /\ io' = "closing"
  /\ UNCHANGED <<status, uiVars, starter, sessVars, dropped>>

\* What is in flight is lost.  closeCallback reads the status without the
\* lock ...
Closed(c) ==
  /\ IoIdle /\ LH!OnClose(c)
  /\ s2c' = [s2c EXCEPT ![c] = <<>>]
  /\ io' = IF status # "SUCCESS" THEN "closing" ELSE "idle"
  /\ UNCHANGED <<status, uiVars, starter, sessVars, dropped>>

\* ... and writes it after other threads may have.
ReportClosed ==
  /\ io = "closing" /\ ~crashed
  /\ setStatus("DISCONNECTED")
  /\ io' = "idle"
  /\ UNCHANGED <<lhVars, uiVars, starter, sessVars, netVars>>

\* run() returns, but not from inside a handler.
IoReturns ==
  /\ io = "idle" /\ LH!RunReturns
  /\ UNCHANGED <<status, uiVars, starter, io, sessVars, netVars>>

Retries(c) ==
  /\ LH!Reconnect(c)
  /\ UNCHANGED <<status, uiVars, starter, io, sessVars, netVars>>

-----------------------------------------------------------------------------
(* Packets: onMessage() takes one off a connection and handles it *)

Receives(c, t) ==
  /\ IoIdle /\ conn[c] = "open"
  /\ s2c[c] # <<>> /\ Head(s2c[c]).type = t

\* What is in flight once the first packet of c is taken off.
Taken(c) == [s2c EXCEPT ![c] = Tail(@)]

\* External: what the server answers to a packet with that key; it encrypts
\* under the last key it has got.
Answers(t, k) ==
  CASE t = "Login"     -> {[type |-> "LoginOk"], [type |-> "LoginBad"]}
    [] t = "Handshake" -> {[type |-> "Handshake", key |-> k]}
    [] t = "Ciallo"    -> {[type |-> "Pong", key |-> k]}
    [] t = "Fuck"      -> {[type |-> "Token", key |-> k]}

\* PacketHandler::send and LoginHandler::send: to the open handle, or nowhere.
Send(net, t, k) ==
  IF connected
  THEN \E m \in Answers(t, k) : s2c' = [net EXCEPT ![handle] = Append(@, m)]
  ELSE s2c' = net

\* A packet older than MAX_PING by the server's clock is discarded.
DiscardExpired(c) ==
  /\ \E t \in PacketTypes : Receives(c, t)
  /\ s2c' = Taken(c)
  /\ dropped' = TRUE
  /\ UNCHANGED <<lhVars, status, uiVars, starter, io, sessVars>>

HandleHSKey(c) ==
  /\ Receives(c, "HSKey")
  /\ hsKey' = TRUE
  /\ Send(Taken(c), "Login", 0)
  /\ UNCHANGED <<lhVars, status, uiVars, starter, io, config, active, keyGen,
                 cipher, channel, dropped>>

\* Mutant: the packet's handle() generates the key pair after write() sent
\* the public half of the previous one.
LoginAcceptedLate(c) ==
  /\ Receives(c, "LoginOk") /\ hsKey
  /\ setStatus("AUTHENTICATING")
  /\ keyGen' = keyGen + 1
  /\ Send(Taken(c), "Handshake", keyGen)
  /\ UNCHANGED <<lhVars, uiVars, starter, io, config, active, hsKey, cipher,
                 channel, dropped>>

\* C2SPacketHandshake::handle, which send() calls before write(): a new key
\* pair replaces the one in ECDH::clientPrivate.
GenerateKeys == keyGen' = keyGen + 1

\* read() does the work of this packet.
LoginAccepted(c) ==
  /\ Receives(c, "LoginOk") /\ hsKey
  /\ setStatus("AUTHENTICATING")
  /\ GenerateKeys
  /\ Send(Taken(c), "Handshake", keyGen')
  /\ UNCHANGED <<lhVars, uiVars, starter, io, config, active, hsKey, cipher,
                 channel, dropped>>

LoginRejected(c) ==
  /\ Receives(c, "LoginBad") /\ hsKey
  /\ setStatus("FAILED_AUTH")
  /\ s2c' = Taken(c)
  /\ UNCHANGED <<lhVars, uiVars, starter, io, sessVars, dropped>>

\* Mutant: the reply is ignored when the wait has been given up.
HandshakeIfAwaited(c) ==
  /\ Receives(c, "Handshake") /\ hsKey
  /\ s2c' = Taken(c)
  /\ IF status = "AUTHENTICATING"
     THEN /\ cipher' = [own |-> keyGen, peer |-> Head(s2c[c]).key]
          /\ config' \in BOOLEAN
          /\ io' = "configured"
     ELSE UNCHANGED <<cipher, config, io>>
  /\ UNCHANGED <<lhVars, status, uiVars, starter, active, hsKey, keyGen,
                 channel, dropped>>

\* The ciphers are derived from the private key of the moment and the
\* server's reply, and the render config from a seed: for some seeds no value
\* satisfies its validation formula, and it stays invalid ...
HandleHandshake(c) ==
  /\ Receives(c, "Handshake") /\ hsKey
  /\ s2c' = Taken(c)
  /\ cipher' = [own |-> keyGen, peer |-> Head(s2c[c]).key]
  /\ config' \in BOOLEAN
  /\ io' = "configured"
  /\ UNCHANGED <<lhVars, status, uiVars, starter, active, hsKey, keyGen,
                 channel, dropped>>

\* Mutant: the session is left to be started by the first heartbeat.
StartLater ==
  /\ io = "configured" /\ ~crashed
  /\ io' = "started"
  /\ UNCHANGED <<lhVars, status, uiVars, starter, sessVars, netVars>>

\* ... then the session starts ...
StartSession ==
  /\ io = "configured" /\ ~crashed
  /\ active' = TRUE
  /\ io' = "started"
  /\ UNCHANGED <<lhVars, status, uiVars, starter, config, hsKey, keyGen, cipher,
                 channel, netVars>>

\* ... and only then is success announced and the first Ping sent.
AnnounceSuccess ==
  /\ io = "started" /\ ~crashed
  /\ setStatus("SUCCESS")
  /\ Send(s2c, "Ciallo", cipher.peer)
  /\ io' = "idle"
  /\ UNCHANGED <<lhVars, uiVars, starter, sessVars, dropped>>

\* The echo decrypts to its plain text only under the key it was encrypted with.
EchoIsGood(c) == cipher = [own |-> Head(s2c[c]).key, peer |-> Head(s2c[c]).key]

\* A first good Pong is answered with a second Ping; a good Pong with a token
\* makes the message channel connect.
HandlePong(c) ==
  /\ Receives(c, "Pong") /\ hsKey
  /\ IF EchoIsGood(c) THEN Send(Taken(c), "Fuck", cipher.peer) ELSE s2c' = Taken(c)
  /\ UNCHANGED <<lhVars, status, uiVars, starter, io, sessVars, dropped>>

HandleToken(c) ==
  /\ Receives(c, "Token") /\ hsKey
  /\ s2c' = Taken(c)
  /\ channel' = IF EchoIsGood(c) /\ channel = "none" THEN "requested" ELSE channel
  /\ UNCHANGED <<lhVars, status, uiVars, starter, io, config, active, hsKey,
                 keyGen, cipher, dropped>>

-----------------------------------------------------------------------------
(* External: the keepalive thread of the message channel *)

\* MessageHandler's thread finds no heartbeat for KEEPALIVE ms.
HeartbeatExpires ==
  /\ channel = "requested" /\ ~crashed
  /\ setStatus("HEARTBEAT_TIMEOUT")
  /\ channel' = "expired"
  /\ UNCHANGED <<lhVars, uiVars, starter, io, config, active, hsKey, keyGen,
                 cipher, netVars>>

-----------------------------------------------------------------------------
Dialog == Click \/ PollReady \/ PollFailed \/ WaitTimesOut \/ ShowResult

Starter(a) ==
  CheckClock(a) \/ InitHandler(a) \/ StarterDials(a) \/ StarterAssigns(a)

Handle(c) ==
  \/ HandleHSKey(c) \/ LoginAccepted(c) \/ LoginRejected(c)
  \/ HandleHandshake(c) \/ HandlePong(c) \/ HandleToken(c)

InHandler == ReportClosed \/ StartSession \/ AnnounceSuccess

Next ==
  \/ Dialog
  \/ \E a \in Attempts : Starter(a)
  \/ \E c \in Attempts :
       \/ Opened(c) \/ DialFailed(c) \/ Closed(c) \/ Retries(c)
       \/ Handle(c) \/ DiscardExpired(c)
  \/ InHandler \/ IoReturns
  \/ HeartbeatExpires

\* Every thread of the program that can run does, and the server answers while
\* a connection is open.  The user, the peer's close, the expiry of a packet
\* and of the heartbeat are not forced.
Fairness ==
  /\ WF_vars(PollReady \/ PollFailed \/ WaitTimesOut \/ ShowResult)
  /\ WF_vars(InHandler) /\ WF_vars(IoReturns)
  /\ \A a \in Attempts : WF_vars(Starter(a))
  /\ \A c \in Attempts :
       /\ WF_vars(Opened(c) \/ DialFailed(c))
       /\ WF_vars(Retries(c))
       /\ WF_vars(Handle(c) \/ DiscardExpired(c))

Spec == Init /\ [][Next]_vars
FairSpec == Spec /\ Fairness
-----------------------------------------------------------------------------
(* Correctness *)

\* What the dialog sees of the session.
Call == CASE ui \in {"true", "verified"} -> "granted"
          [] crashed /\ ui \notin {"true", "verified"} -> "dead"
          [] ui = "ready" /\ ~crashed -> "idle"
          [] OTHER -> "pending"

Promise == INSTANCE VerifyPromise WITH
             call <- Call, session <- config /\ active, connecting <- connecting # {}

\* The call keeps its promise (VerifyPromise): it returns true only when the
\* session is up, the session stays while no other attempt is inside connect(),
\* and every call returns.
KeepsPromise == Promise!Spec

\* Once every connect() has returned, a session runs on keys the server
\* shares: both ends derived the ciphers from the same key pair, although
\* ECDH::clientPrivate is one unlocked global that every accepted login
\* overwrites.  Before that a second login may overwrite it; the process ends.
KeysAgree ==
  LH!Settled /\ active => cipher.own = cipher.peer /\ cipher.own = keyGen

\* A lost connection never turns an announced success into DISCONNECTED: the
\* unlocked test in closeCallback cannot race with the handshake.
SuccessSurvivesClose == [][status = "SUCCESS" => status' # "DISCONNECTED"]_vars

\* The message channel is only opened with the token of a handshake that was
\* completed and announced, and once every connect() has returned, its packets
\* can be decrypted.
ChannelNeedsSession ==
  channel # "none" =>
    active /\ keyGen > 0 /\ (LH!Settled => cipher.own = cipher.peer)

\* The handshake was handled and its seed left the render config invalid.
InvalidConfig == cipher # NoCipher /\ ~config

\* A login the server accepted becomes a session that the wait accepts, unless
\* its seed leaves the render config invalid, the connection is lost, a packet
\* expires, the IO thread has left run() (StrandedByRetry says when) or the
\* process dies: nothing else stalls it.
AcceptedBecomesSession ==
  keyGen > 0 ~>
    Ready \/ InvalidConfig \/ ~connected \/ dropped \/ ioThread # "running" \/ crashed

\* The first login attempt of a process never ends it, whatever its failures,
\* announced retries and late answers: std::terminate takes a second starter
\* that finds what the first has left behind (LoginHandler.cpp:152).
FirstLoginSurvives == crashed => attempts >= 2

\* What the dialog says (VerifyGUI.java:115, "reset the verification state" when
\* a call is over): after a failed login the user may simply try again.
ProcessSurvivesLogin == ~crashed
=============================================================================
