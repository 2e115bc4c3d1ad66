------------------------ MODULE VerifySession_proofs ------------------------
(***************************************************************************)
(* Proofs about the verification flow, for every number of calls, polls    *)
(* and retries.  The login channel's theorems carry over: every step here  *)
(* is a step of LoginHandler or leaves its variables alone.  As long as no *)
(* second connection has opened there is one conversation with the server; *)
(* it has at most one packet in flight, and that packet tells how far the  *)
(* keys have got.  A second one opens only in a process that is about to   *)
(* end; what holds even then is kept apart.                                *)
(***************************************************************************)
EXTENDS VerifySession, TLAPS

LHP == INSTANCE LoginHandler_proofs WITH MaxConns <- MaxAttempts

-----------------------------------------------------------------------------
(* The login channel inside the verification flow *)

\* Every step is a step of the login channel, or leaves it alone.
LEMMA ChannelStep == [Next]_vars => [LH!Next]_(LH!vars)
<1> SUFFICES ASSUME [Next]_vars PROVE LH!Next \/ UNCHANGED LH!vars
  OBVIOUS
<1> USE DEF LH!Next, LH!vars, LH!Conns, Attempts, lhVars
<1>1. CASE Dialog
  BY <1>1 DEF Dialog, Click, PollReady, PollFailed, WaitTimesOut, ShowResult
<1>2. ASSUME NEW a \in Attempts, CheckClock(a) \/ InitHandler(a)
      PROVE  LH!Next \/ UNCHANGED LH!vars
  BY <1>2 DEF CheckClock, InitHandler
<1>3. ASSUME NEW a \in Attempts, StarterDials(a) PROVE LH!Next
  BY <1>3 DEF StarterDials
<1>4. ASSUME NEW a \in Attempts, StarterAssigns(a) PROVE LH!Next
  BY <1>4 DEF StarterAssigns, Assigns
<1>5. ASSUME NEW c \in Attempts, Opened(c) \/ DialFailed(c) \/ Closed(c) \/ Retries(c)
      PROVE  LH!Next
  BY <1>5 DEF Opened, DialFailed, Closed, Retries
<1>6. ASSUME NEW c \in Attempts, Handle(c) \/ DiscardExpired(c)
      PROVE  UNCHANGED LH!vars
  BY <1>6 DEF Handle, DiscardExpired, HandleHSKey, LoginAccepted, LoginRejected,
              HandleHandshake, HandlePong, HandleToken
<1>7. CASE InHandler \/ HeartbeatExpires
  BY <1>7 DEF InHandler, ReportClosed, StartSession, AnnounceSuccess, HeartbeatExpires
<1>8. CASE IoReturns
  BY <1>8 DEF IoReturns
<1>9. CASE UNCHANGED vars
  BY <1>9 DEF vars
<1> QED
  BY <1>1, <1>2, <1>3, <1>4, <1>5, <1>6, <1>7, <1>8, <1>9 DEF Next, Starter

\* The verification flow drives the login channel only through its operations.
THEOREM ComposesChannel == Spec => LH!Spec
<1>1. Init => LH!Init
  BY DEF Init
<1> QED
  BY <1>1, ChannelStep, PTL DEF Spec, LH!Spec

\* LHP names the same system as LH does.
LEMMA SameChannel == (LH!Init => LHP!Init) /\ ([LH!Next]_(LH!vars) => [LHP!Next]_(LHP!vars))
<1>1. LH!Init => LHP!Init
  BY DEF LH!Init, LHP!Init, LH!Conns, LHP!Conns
<1>2. LH!vars = LHP!vars
  BY DEF LH!vars, LHP!vars
<1>3. LH!Next => LHP!Next
  <2> USE DEF LH!Conns, LHP!Conns, LH!Dispatching, LHP!Dispatching, LH!Live, LHP!Live,
              LH!Fresh, LHP!Fresh, LH!Dial, LHP!Dial
  <2>1. LH!Construct => LHP!Construct
    BY DEF LH!Construct, LHP!Construct
  <2>2. LH!RunReturns => LHP!RunReturns
    BY DEF LH!RunReturns, LHP!RunReturns
  <2>3. \A c : LH!Connect(c) => LHP!Connect(c)
    BY DEF LH!Connect, LHP!Connect
  <2>4. \A c : LH!StartIoThread(c) => LHP!StartIoThread(c)
    BY DEF LH!StartIoThread, LHP!StartIoThread
  <2>5. \A c : LH!OnOpen(c) => LHP!OnOpen(c)
    BY DEF LH!OnOpen, LHP!OnOpen
  <2>6. \A c : LH!OnClose(c) => LHP!OnClose(c)
    BY DEF LH!OnClose, LHP!OnClose
  <2>7. \A c : LH!OnFail(c) => LHP!OnFail(c)
    BY DEF LH!OnFail, LHP!OnFail, LH!ReportsError, LHP!ReportsError
  <2>8. \A c : LH!StopService(c) => LHP!StopService(c)
    BY DEF LH!StopService, LHP!StopService
  <2>9. \A c : LH!TestJoinable(c) => LHP!TestJoinable(c)
    BY DEF LH!TestJoinable, LHP!TestJoinable
  <2>10. \A c : LH!JoinIoThread(c) => LHP!JoinIoThread(c)
    BY DEF LH!JoinIoThread, LHP!JoinIoThread
  <2>11. \A c : LH!JoinThrows(c) => LHP!JoinThrows(c)
    BY DEF LH!JoinThrows, LHP!JoinThrows
  <2>12. \A c : LH!ResetAndRedial(c) => LHP!ResetAndRedial(c)
    BY DEF LH!ResetAndRedial, LHP!ResetAndRedial, LH!InitAsioThrows, LHP!InitAsioThrows
  <2>13. \A c : LH!Reconnect(c) => LHP!Reconnect(c)
    BY <2>8, <2>9, <2>10, <2>11, <2>12 DEF LH!Reconnect, LHP!Reconnect
  <2> QED
    BY <2>1, <2>2, <2>3, <2>4, <2>5, <2>6, <2>7, <2>13 DEF LH!Next, LHP!Next
<1>4. [LH!Next]_(LH!vars) => [LHP!Next]_(LHP!vars)
  BY <1>2, <1>3 DEF LH!vars, LHP!vars
<1> QED
  BY <1>1, <1>4

\* What LoginHandler_proofs shows of the channel holds here.
LEMMA ChannelInv == Spec => [](LHP!IInv /\ LHP!OneOpened)
<1>1. LHP!Spec => []LHP!IInv
  BY LHP!Inductive, VerifySessionAssumption
<1>2. LHP!Spec => []LHP!OneOpened
  BY LHP!OneOpens, VerifySessionAssumption
<1>3. LH!Spec => LHP!Spec
  BY SameChannel, PTL DEF LH!Spec, LHP!Spec
<1> QED
  BY ComposesChannel, <1>1, <1>2, <1>3, PTL

\* One connection is used at a time in the composed system as well.
THEOREM OneConnection == Spec => []LH!OneLiveConnection
<1>1. LHP!Spec => []LHP!OneLiveConnection
  BY LHP!OneConnection, VerifySessionAssumption
<1>2. LHP!OneLiveConnection => LH!OneLiveConnection
  BY DEF LHP!OneLiveConnection, LH!OneLiveConnection, LHP!Used, LH!Used,
         LHP!Settled, LH!Settled, LHP!Conns, LH!Conns
<1>3. LH!Spec => LHP!Spec
  BY SameChannel, PTL DEF LH!Spec, LHP!Spec
<1> QED
  BY ComposesChannel, <1>1, <1>2, <1>3, PTL

-----------------------------------------------------------------------------
(* The dialog, the starters and the status word *)

\* The waiter sleeps only below its limit, and the IO thread is between the
\* close callback's test and its write only for a status that is not SUCCESS.
FlowInv ==
  /\ FlowOK
  /\ ui = "checkFailed" => polls < MaxPolls
  /\ io = "closing" => status # "SUCCESS"

\* Every step keeps the flow well typed, and no other thread announces a
\* success while the IO thread is in the close callback.
LEMMA FlowStep == FlowInv /\ [Next]_vars => FlowInv'
<1> SUFFICES ASSUME FlowInv, [Next]_vars PROVE FlowInv'
  OBVIOUS
<1> USE DEF FlowInv, FlowOK, VerifyStatus, Failed, setStatus, uiVars
<1> DEFINE Stages == {"none", "time", "init", "connect", "dialled", "ended"}
<1>1. CASE Click
  <2>1. starter' \in [Attempts -> Stages]
    BY <1>1 DEF Click
  <2>2. attempts' \in 0..MaxAttempts /\ polls' \in 0..MaxPolls /\ ui' = "poll"
    BY <1>1, VerifySessionAssumption DEF Click
  <2>3. status' = "CONNECTING" /\ io' = io
    BY <1>1 DEF Click
  <2> QED
    BY <2>1, <2>2, <2>3
<1>2. CASE PollReady \/ WaitTimesOut \/ ShowResult
  BY <1>2 DEF PollReady, WaitTimesOut, ShowResult
<1>3. CASE PollFailed
  <2>1. /\ polls' \in 0..MaxPolls /\ ui' \in {"false", "poll"}
    BY <1>3, VerifySessionAssumption DEF PollFailed
  <2>2. UNCHANGED <<status, attempts, starter, io>>
    BY <1>3 DEF PollFailed
  <2> QED
    BY <2>1, <2>2
<1>4. ASSUME NEW a \in Attempts, Starter(a) PROVE FlowInv'
  <2>1. /\ UNCHANGED <<ui, attempts, polls, io>>
        /\ status' \in {status, "FAILED_TIMEOUT"}
    BY <1>4 DEF Starter, CheckClock, InitHandler, StarterDials, StarterAssigns
  <2>2. starter' \in [Attempts -> Stages]
    BY <1>4 DEF Starter, CheckClock, InitHandler, StarterDials, StarterAssigns
  <2> QED
    BY <2>1, <2>2
<1>5. ASSUME NEW c \in Attempts, Opened(c) \/ DialFailed(c) \/ Retries(c)
      PROVE  FlowInv'
  BY <1>5 DEF Opened, DialFailed, Retries
<1>6. ASSUME NEW c \in Attempts, Closed(c) PROVE FlowInv'
  BY <1>6 DEF Closed
<1>7. ASSUME NEW c \in Attempts, Handle(c) \/ DiscardExpired(c) PROVE FlowInv'
  <2>1. io = "idle" /\ UNCHANGED <<ui, attempts, polls, starter>>
    BY <1>7 DEF Handle, DiscardExpired, Receives, IoIdle, HandleHSKey, LoginAccepted,
                LoginRejected, HandleHandshake, HandlePong, HandleToken
  <2>2. /\ io' \in {"idle", "configured"}
        /\ status' \in {status, "AUTHENTICATING", "FAILED_AUTH"}
    BY <1>7, <2>1 DEF Handle, DiscardExpired, HandleHSKey, LoginAccepted,
                LoginRejected, HandleHandshake, HandlePong, HandleToken
  <2> QED
    BY <2>1, <2>2
<1>8. CASE InHandler \/ IoReturns \/ HeartbeatExpires
  BY <1>8 DEF InHandler, IoReturns, HeartbeatExpires, ReportClosed, StartSession,
              AnnounceSuccess
<1>9. CASE UNCHANGED vars
  BY <1>9 DEF vars
<1> QED
  BY <1>1, <1>2, <1>3, <1>4, <1>5, <1>6, <1>7, <1>8, <1>9 DEF Next, Dialog

\* The flow is well typed in every reachable state.
LEMMA Flow == Spec => []FlowInv
<1>1. Init => FlowInv
  BY VerifySessionAssumption DEF Init, FlowInv, FlowOK, VerifyStatus, Failed
<1> QED
  BY <1>1, FlowStep, PTL DEF Spec

\* A lost connection never turns an announced success into DISCONNECTED: only
\* ReportClosed writes that word, and FlowInv says it never finds SUCCESS.
THEOREM SuccessStays == Spec => SuccessSurvivesClose
<1>1. FlowInv /\ [Next]_vars => [status = "SUCCESS" => status' # "DISCONNECTED"]_vars
  <2> SUFFICES ASSUME FlowInv, [Next]_vars, status = "SUCCESS"
               PROVE  status' # "DISCONNECTED"
    OBVIOUS
  <2> USE DEF setStatus
  <2>1. CASE Dialog
    BY <2>1 DEF Dialog, Click, PollReady, PollFailed, WaitTimesOut, ShowResult
  <2>2. ASSUME NEW a \in Attempts, Starter(a) PROVE status' # "DISCONNECTED"
    BY <2>2 DEF Starter, CheckClock, InitHandler, StarterDials, StarterAssigns
  <2>3. ASSUME NEW c \in Attempts,
               Opened(c) \/ DialFailed(c) \/ Closed(c) \/ Retries(c)
        PROVE  status' # "DISCONNECTED"
    BY <2>3 DEF Opened, DialFailed, Closed, Retries
  <2>4. ASSUME NEW c \in Attempts, Handle(c) \/ DiscardExpired(c)
        PROVE  status' # "DISCONNECTED"
    BY <2>4 DEF Handle, DiscardExpired, HandleHSKey, LoginAccepted, LoginRejected,
                HandleHandshake, HandlePong, HandleToken
  <2>5. CASE InHandler
    BY <2>5 DEF FlowInv, InHandler, ReportClosed, StartSession, AnnounceSuccess
  <2>6. CASE IoReturns \/ HeartbeatExpires \/ UNCHANGED vars
    BY <2>6 DEF IoReturns, HeartbeatExpires, vars
  <2> QED
    BY <2>1, <2>2, <2>3, <2>4, <2>5, <2>6 DEF Next
<1> QED
  BY <1>1, Flow, PTL DEF Spec, SuccessSurvivesClose

-----------------------------------------------------------------------------
(* What holds however many connections open *)

\* Packets that can be in flight: a reply to the handshake needs a key pair, and
\* an echo or a token a session.
InFlight == {m \in Packets : /\ m.type = "Handshake" => keyGen > 0
                             /\ m.type \in {"Pong", "Token"} => active}

\* The order in which the keys, the session and the channel come.
OrderInv ==
  /\ KeysOK
  /\ s2c \in [Attempts -> Seq(InFlight)] /\ dropped \in BOOLEAN
  /\ \A c \in Attempts : s2c[c] # <<>> => LHP!HasOpened(c)
  /\ handle = 0 => keyGen = 0
  /\ active => keyGen > 0
  /\ channel # "none" => active
  /\ io = "configured" => keyGen > 0
  /\ io = "started" => active
  /\ keyGen > 0 => hsKey
  /\ io = "closing" => ~connected

Channels == LHP!IInv /\ LHP!OneOpened

\* A connection that has opened stays so, a handle keeps naming one, and a second
\* opening cannot be undone.
LEMMA OpenedStays ==
  ASSUME Channels, [Next]_vars
  PROVE  /\ \A c \in Attempts : LHP!HasOpened(c) => LHP!HasOpened(c)'
         /\ handle' = 0 => handle = 0
         /\ LHP!Sole' => LHP!Sole
<1> USE DEF LHP!HasOpened, LHP!Sole, LHP!Conns, LHP!TypeOK, LHP!ConnStates, Attempts
<1>1. [LHP!Next]_(LHP!vars)
  BY ChannelStep, SameChannel
<1>2. LHP!TypeOK /\ LHP!NothingBefore /\ LHP!Owners
      /\ (handle = 0 => \A c \in Attempts : ~LHP!HasOpened(c))
      /\ (handle # 0 => LHP!HasOpened(handle))
  BY DEF Channels, LHP!IInv, LHP!HandleNamed
<1>3. ASSUME UNCHANGED <<conn, handle>>
      PROVE  /\ \A c \in Attempts : LHP!HasOpened(c) => LHP!HasOpened(c)'
             /\ handle' = 0 => handle = 0
             /\ LHP!Sole' => LHP!Sole
  BY <1>3
<1>4. ASSUME NEW c \in Attempts, LHP!OnOpen(c)
      PROVE  /\ \A d \in Attempts : LHP!HasOpened(d) => LHP!HasOpened(d)'
             /\ handle' = 0 => handle = 0
             /\ LHP!Sole' => LHP!Sole
  <2>1. /\ conn[c] = "dialing" /\ handle' = c
        /\ \A d \in Attempts : conn'[d] = IF d = c THEN "open" ELSE conn[d]
    BY <1>2, <1>4 DEF LHP!OnOpen
  <2> QED
    BY <1>2, <2>1
<1>5. ASSUME NEW c \in Attempts, LHP!OnClose(c) \/ LHP!OnFail(c) \/ LHP!Connect(c)
      PROVE  /\ \A d \in Attempts : LHP!HasOpened(d) => LHP!HasOpened(d)'
             /\ handle' = 0 => handle = 0
             /\ LHP!Sole' => LHP!Sole
  <2>1. /\ handle' = handle
        /\ \A d \in Attempts : d # c => conn'[d] = conn[d]
        /\ conn[c] = "open" => conn'[c] = "closed"
        /\ conn[c] # "closed"
    BY <1>2, <1>5 DEF LHP!OnClose, LHP!OnFail, LHP!Connect, LHP!Dial, LHP!Fresh
  <2> QED
    BY <1>2, <2>1
<1>6. ASSUME NEW c \in Attempts, LHP!Reconnect(c) PROVE UNCHANGED <<conn, handle>>
  <2>1. ASSUME LHP!ResetAndRedial(c) PROVE UNCHANGED <<conn, handle>>
    BY <1>2, <2>1, LHP!ResetThrows, VerifySessionAssumption
  <2> QED
    BY <1>6, <2>1 DEF LHP!Reconnect, LHP!StopService, LHP!TestJoinable,
                      LHP!JoinIoThread, LHP!JoinThrows
<1>7. ASSUME NEW c \in Attempts, LHP!StartIoThread(c) PROVE UNCHANGED <<conn, handle>>
  BY <1>7 DEF LHP!StartIoThread
<1>8. CASE LHP!Construct \/ LHP!RunReturns \/ UNCHANGED LHP!vars
  BY <1>3, <1>8 DEF LHP!Construct, LHP!RunReturns, LHP!vars
<1> QED
  BY <1>1, <1>3, <1>4, <1>5, <1>6, <1>7, <1>8 DEF LHP!Next

\* More packets fit once there is a key pair, or a session.
LEMMA InFlightGrows ==
  ASSUME keyGen \in Nat, keyGen' \in Nat, keyGen' >= keyGen, active => active'
  PROVE  InFlight \subseteq InFlight'
BY DEF InFlight

\* The server's answer to a packet that was sent can be in flight.
LEMMA AnswersFly ==
  ASSUME NEW k \in Nat, NEW t \in {"Login", "Handshake", "Ciallo", "Fuck"},
         t = "Handshake" => keyGen' > 0, t \in {"Ciallo", "Fuck"} => active'
  PROVE  Answers(t, k) \subseteq InFlight'
<1> USE DEF Answers, Packets, PacketTypes, Keyed, InFlight
<1>1. CASE t = "Login"
  BY <1>1
<1>2. CASE t = "Handshake"
  BY <1>2
<1>3. CASE t = "Ciallo"
  BY <1>3
<1>4. CASE t = "Fuck"
  BY <1>4
<1> QED
  BY <1>1, <1>2, <1>3, <1>4

\* Sequences of packets stay such, with the first taken off or one added.
LEMMA Sequences ==
  ASSUME NEW S, NEW T, S \subseteq T, NEW q \in Seq(S)
  PROVE  /\ q \in Seq(T) /\ <<>> \in Seq(T)
         /\ q # <<>> => Tail(q) \in Seq(T) /\ Head(q) \in S
         /\ \A m \in T : Append(q, m) \in Seq(T) /\ Append(q, m) # <<>>
<1>1. \A i \in 1..Len(q) : q[i] \in T
  OBVIOUS
<1>2. q \in Seq(T)
  BY <1>1
<1>3. <<>> \in Seq(T)
  OBVIOUS
<1>4. ASSUME q # <<>> PROVE Tail(q) \in Seq(T) /\ Head(q) \in S
  <2>1. Head(q) \in S
    BY <1>4
  <2>2. Tail(q) \in Seq(T)
    BY <1>2, <1>4
  <2> QED
    BY <2>1, <2>2
<1>5. ASSUME NEW m \in T PROVE Append(q, m) \in Seq(T) /\ Append(q, m) # <<>>
  <2>1. Append(q, m) \in Seq(T)
    BY <1>2
  <2>2. Len(Append(q, m)) = Len(q) + 1
    BY <1>2
  <2> QED
    BY <1>2, <2>1, <2>2
<1> QED
  BY <1>2, <1>3, <1>4, <1>5

\* What the flag and the handle say of the connection a packet is sent on.
LEMMA SendsOnOpen ==
  ASSUME Channels, connected
  PROVE  handle \in Attempts /\ LHP!HasOpened(handle) /\ conn[handle] = "open"
BY DEF Channels, LHP!IInv, LHP!FlagKept, LHP!HandleNamed, LHP!HasOpened, LHP!TypeOK,
       LHP!Conns, Attempts

\* Sending puts an answer on the connection of the handle, or does nothing.
LEMMA SendKeeps ==
  ASSUME Channels, NEW net \in [Attempts -> Seq(InFlight')], NEW t, NEW k,
         Answers(t, k) \subseteq InFlight', Send(net, t, k)
  PROVE  /\ s2c' \in [Attempts -> Seq(InFlight')]
         /\ \A c \in Attempts : s2c'[c] # <<>> => net[c] # <<>> \/ LHP!HasOpened(c)
<1>1. CASE ~connected
  BY <1>1 DEF Send
<1>2. CASE connected
  <2>1. handle \in Attempts /\ LHP!HasOpened(handle)
    BY <1>2, SendsOnOpen
  <2>2. PICK m \in InFlight' : s2c' = [net EXCEPT ![handle] = Append(@, m)]
    BY <1>2 DEF Send
  <2>3. Append(net[handle], m) \in Seq(InFlight')
    BY <2>1, Sequences
  <2> QED
    BY <2>1, <2>2, <2>3
<1> QED
  BY <1>1, <1>2

\* Once its first packet is taken off, the packets of a connection are such
\* still, also when keys or a session come with it.
LEMMA TakenKeeps ==
  ASSUME OrderInv, NEW c \in Attempts, NEW t, Receives(c, t), InFlight \subseteq InFlight'
  PROVE  /\ Taken(c) \in [Attempts -> Seq(InFlight')]
         /\ \A d \in Attempts : Taken(c)[d] # <<>> => s2c[d] # <<>>
         /\ Head(s2c[c]) \in InFlight /\ Head(s2c[c]).type = t
         /\ io = "idle" /\ LHP!HasOpened(c) /\ ~crashed
<1>1. /\ s2c[c] # <<>> /\ Head(s2c[c]).type = t /\ io = "idle" /\ ~crashed
      /\ s2c \in [Attempts -> Seq(InFlight)]
  BY DEF Receives, IoIdle, LH!Dispatching, OrderInv
<1>2. Tail(s2c[c]) \in Seq(InFlight') /\ Head(s2c[c]) \in InFlight
  BY <1>1, Sequences
<1>3. \A d \in Attempts : s2c[d] \in Seq(InFlight')
  BY <1>1, Sequences
<1> QED
  BY <1>1, <1>2, <1>3 DEF Taken, OrderInv

\* Steps that leave the packets and the session alone keep the order.
LEMMA ElsewhereOrdered ==
  ASSUME Channels, OrderInv, [Next]_vars, UNCHANGED <<sessVars, netVars>>,
         io' = io \/ io' = "idle" \/ ~connected', connected' => connected \/ io = "idle",
         io' \in {io, "idle", "closing"}
  PROVE  OrderInv'
<1>1. InFlight' = InFlight
  BY DEF InFlight, sessVars
<1>2. (\A c \in Attempts : s2c'[c] # <<>> => LHP!HasOpened(c)') /\ (handle' = 0 => handle = 0)
  BY OpenedStays DEF OrderInv, netVars
<1> QED
  BY <1>1, <1>2 DEF OrderInv, KeysOK, sessVars, netVars

\* The packet handlers keep the order.
LEMMA HandlersOrdered ==
  ASSUME Channels, OrderInv, [Next]_vars, NEW c \in Attempts, Handle(c) \/ DiscardExpired(c)
  PROVE  OrderInv'
<1>0. /\ UNCHANGED <<conn, handle, connected>> /\ io = "idle"
  BY DEF Handle, DiscardExpired, HandleHSKey, LoginAccepted, LoginRejected,
         HandleHandshake, HandlePong, HandleToken, lhVars, Receives, IoIdle
<1>1. keyGen \in Nat /\ keyGen' \in Nat /\ keyGen' >= keyGen /\ active' = active
  BY DEF OrderInv, KeysOK, Handle, DiscardExpired, HandleHSKey, LoginAccepted, LoginRejected,
         HandleHandshake, HandlePong, HandleToken, sessVars, GenerateKeys
<1>2. InFlight \subseteq InFlight'
  BY <1>1, InFlightGrows
<1>3. KeysOK
  BY DEF OrderInv
<1> DEFINE Net(n) == /\ n \in [Attempts -> Seq(InFlight')]
                     /\ \A d \in Attempts : n[d] # <<>> => LHP!HasOpened(d)
<1>4. ASSUME NEW t, Receives(c, t)
      PROVE  /\ Net(Taken(c)) /\ LHP!HasOpened(c)
             /\ Head(s2c[c]) \in InFlight /\ Head(s2c[c]).type = t
  BY <1>2, <1>4, TakenKeeps DEF OrderInv
<1>5. ASSUME NEW n, NEW t, NEW k, Net(n), Answers(t, k) \subseteq InFlight', Send(n, t, k)
      PROVE  Net(s2c')
  BY <1>5, SendKeeps
<1>6. ASSUME LHP!HasOpened(c) PROVE handle # 0
  BY <1>6 DEF Channels, LHP!IInv, LHP!HandleNamed, LHP!Conns, Attempts
<1>7. ASSUME Net(s2c'), KeysOK', dropped' \in BOOLEAN,
             handle = 0 => keyGen' = 0, channel' # "none" => active',
             io' = "idle" \/ (io' = "configured" /\ keyGen' > 0), keyGen' > 0 => hsKey'
      PROVE  OrderInv'
  <2>1. \A d \in Attempts : LHP!HasOpened(d)' <=> LHP!HasOpened(d)
    BY <1>0 DEF LHP!HasOpened
  <2> QED
    BY <1>0, <1>1, <1>7, <2>1 DEF OrderInv
<1> HIDE DEF Net
<1>8. CASE HandleHSKey(c)
  <2>1. Net(s2c')
    <3>1. Answers("Login", 0) \subseteq InFlight'
      BY AnswersFly
    <3> QED
      BY <1>4, <1>5, <1>8, <3>1 DEF HandleHSKey
  <2>2. KeysOK'
    BY <1>3, <1>8 DEF HandleHSKey, KeysOK
  <2> QED
    BY <1>0, <1>7, <1>8, <2>1, <2>2 DEF HandleHSKey, OrderInv
<1>9. CASE LoginAccepted(c)
  <2>1. Receives(c, "LoginOk") /\ hsKey /\ keyGen' = keyGen + 1 /\ Send(Taken(c), "Handshake", keyGen')
        /\ UNCHANGED <<config, active, hsKey, cipher, channel, dropped, io>>
    BY <1>9 DEF LoginAccepted, GenerateKeys
  <2>2. Answers("Handshake", keyGen') \subseteq InFlight'
    BY <1>1, <2>1, AnswersFly
  <2>3. Net(s2c') /\ handle # 0
    BY <1>4, <1>5, <1>6, <2>1, <2>2
  <2>4. KeysOK'
    BY <1>1, <1>3, <2>1 DEF KeysOK
  <2> QED
    BY <1>0, <1>1, <1>7, <2>1, <2>3, <2>4 DEF OrderInv
<1>10. CASE LoginRejected(c) \/ DiscardExpired(c)
  <2>1. Net(s2c')
    BY <1>4, <1>10 DEF LoginRejected, DiscardExpired
  <2>2. KeysOK' /\ dropped' \in BOOLEAN
    BY <1>3, <1>10 DEF LoginRejected, DiscardExpired, KeysOK, sessVars, OrderInv
  <2> QED
    BY <1>0, <1>7, <1>10, <2>1, <2>2 DEF LoginRejected, DiscardExpired, sessVars, OrderInv
<1>11. CASE HandleHandshake(c)
  <2>1. Net(s2c') /\ Head(s2c[c]) \in InFlight /\ Head(s2c[c]).type = "Handshake"
    BY <1>4, <1>11 DEF HandleHandshake
  <2>2. keyGen > 0 /\ Head(s2c[c]).key \in Nat
    BY <2>1 DEF InFlight, Packets, PacketTypes, Keyed
  <2>3. KeysOK'
    BY <1>3, <1>11, <2>2 DEF HandleHandshake, KeysOK
  <2> QED
    BY <1>0, <1>7, <1>11, <2>1, <2>2, <2>3 DEF HandleHandshake, OrderInv
<1>12. CASE HandlePong(c)
  <2>1. Net(Taken(c)) /\ active
    <3>1. Net(Taken(c)) /\ Head(s2c[c]) \in InFlight /\ Head(s2c[c]).type = "Pong"
      BY <1>4, <1>12 DEF HandlePong
    <3> QED
      BY <3>1 DEF InFlight
  <2>2. Answers("Fuck", cipher.peer) \subseteq InFlight'
    <3>1. cipher.peer \in Nat
      BY <1>3 DEF KeysOK
    <3> QED
      BY <1>1, <2>1, <3>1, AnswersFly
  <2>3. Net(s2c')
    BY <1>5, <1>12, <2>1, <2>2 DEF HandlePong
  <2>4. KeysOK'
    BY <1>3, <1>12 DEF HandlePong, KeysOK, sessVars
  <2> QED
    BY <1>0, <1>7, <1>12, <2>3, <2>4 DEF HandlePong, sessVars, OrderInv
<1>13. CASE HandleToken(c)
  <2>1. Net(s2c') /\ active
    <3>1. Net(Taken(c)) /\ Head(s2c[c]) \in InFlight /\ Head(s2c[c]).type = "Token"
      BY <1>4, <1>13 DEF HandleToken
    <3>2. s2c' = Taken(c)
      BY <1>13 DEF HandleToken
    <3>3. active
      BY <3>1 DEF InFlight
    <3> QED
      BY <3>1, <3>2, <3>3
  <2>2. KeysOK'
    BY <1>3, <1>13 DEF HandleToken, KeysOK
  <2> QED
    BY <1>0, <1>7, <1>13, <2>1, <2>2 DEF HandleToken, OrderInv
<1> QED
  BY <1>8, <1>9, <1>10, <1>11, <1>12, <1>13 DEF Handle

\* Every step keeps the order.
LEMMA OrderStep == Channels /\ OrderInv /\ [Next]_vars => OrderInv'
<1> SUFFICES ASSUME Channels, OrderInv, [Next]_vars PROVE OrderInv'
  OBVIOUS
<1>1. CASE Dialog
  BY <1>1, ElsewhereOrdered DEF Dialog, Click, PollReady, PollFailed, WaitTimesOut,
                                ShowResult, lhVars
<1>2. ASSUME NEW a \in Attempts, CheckClock(a) \/ InitHandler(a) PROVE OrderInv'
  BY <1>2, ElsewhereOrdered DEF CheckClock, InitHandler, LH!Construct, lhVars
<1>3. ASSUME NEW a \in Attempts, StarterDials(a) \/ StarterAssigns(a) PROVE OrderInv'
  <2>1. UNCHANGED <<sessVars, netVars, io, connected>>
    BY <1>3 DEF StarterDials, StarterAssigns, Assigns, LH!Connect, LH!StartIoThread
  <2> QED
    BY <2>1, ElsewhereOrdered
<1>4. ASSUME NEW c \in Attempts, Opened(c) PROVE OrderInv'
  <2>1. /\ io' = "idle" /\ UNCHANGED <<sessVars, dropped>>
        /\ s2c' = [s2c EXCEPT ![c] = <<[type |-> "HSKey"]>>]
        /\ LH!OnOpen(c)
    BY <1>4 DEF Opened, IoIdle
  <2>2. InFlight' = InFlight /\ [type |-> "HSKey"] \in InFlight
    BY <2>1 DEF InFlight, sessVars, Packets, PacketTypes, Keyed
  <2>3. <<[type |-> "HSKey"]>> \in Seq(InFlight)
    BY <2>2
  <2>4. s2c' \in [Attempts -> Seq(InFlight')]
    BY <2>1, <2>2, <2>3 DEF OrderInv
  <2>5. LHP!HasOpened(c)'
    <3>1. conn \in [LHP!Conns -> LHP!ConnStates]
      BY DEF Channels, LHP!IInv, LHP!TypeOK
    <3> QED
      BY <2>1, <3>1 DEF LH!OnOpen, LHP!HasOpened, LHP!Conns, Attempts
  <2>6. \A d \in Attempts : s2c'[d] # <<>> => LHP!HasOpened(d)'
    BY <2>1, <2>5, OpenedStays DEF OrderInv
  <2>7. handle' = 0 => handle = 0
    BY OpenedStays
  <2> QED
    BY <2>1, <2>4, <2>6, <2>7 DEF OrderInv, KeysOK, sessVars
<1>5. ASSUME NEW c \in Attempts, Closed(c) PROVE OrderInv'
  <2>1. /\ io' \in {"idle", "closing"} /\ connected' = FALSE /\ UNCHANGED <<sessVars, dropped>>
        /\ s2c' = [s2c EXCEPT ![c] = <<>>]
    BY <1>5 DEF Closed, LH!OnClose
  <2>2. InFlight' = InFlight
    BY <2>1 DEF InFlight, sessVars
  <2>3. s2c' \in [Attempts -> Seq(InFlight')]
    BY <2>1, <2>2, Sequences DEF OrderInv
  <2>4. \A d \in Attempts : s2c'[d] # <<>> => LHP!HasOpened(d)'
    BY <2>1, OpenedStays DEF OrderInv
  <2>5. handle' = 0 => handle = 0
    BY OpenedStays
  <2> QED
    BY <2>1, <2>3, <2>4, <2>5 DEF OrderInv, KeysOK, sessVars
<1>6. ASSUME NEW c \in Attempts, DialFailed(c) PROVE OrderInv'
  BY <1>6, ElsewhereOrdered DEF DialFailed, IoIdle, LH!OnFail
<1>7. ASSUME NEW c \in Attempts, Retries(c) PROVE OrderInv'
  BY <1>7, ElsewhereOrdered DEF Retries, LH!Reconnect, LH!StopService, LH!TestJoinable,
         LH!JoinIoThread, LH!JoinThrows, LH!ResetAndRedial
<1>8. ASSUME NEW c \in Attempts, Handle(c) \/ DiscardExpired(c) PROVE OrderInv'
  BY <1>8, HandlersOrdered
<1>9. CASE ReportClosed \/ IoReturns \/ UNCHANGED vars
  BY <1>9, ElsewhereOrdered DEF ReportClosed, IoReturns, LH!RunReturns, vars, lhVars
<1>10. CASE StartSession
  <2>1. active' = TRUE /\ keyGen > 0 /\ io' = "started" /\ keyGen' = keyGen
        /\ UNCHANGED <<lhVars, config, hsKey, cipher, channel, netVars>>
    BY <1>10 DEF StartSession, OrderInv
  <2>2. InFlight \subseteq InFlight'
    BY <2>1, InFlightGrows DEF OrderInv, KeysOK
  <2>3. s2c' \in [Attempts -> Seq(InFlight')]
    BY <2>1, <2>2, Sequences DEF OrderInv, netVars
  <2>4. \A d \in Attempts : s2c'[d] # <<>> => LHP!HasOpened(d)'
    BY <2>1, OpenedStays DEF OrderInv, netVars
  <2> QED
    BY <2>1, <2>3, <2>4 DEF OrderInv, KeysOK, lhVars, netVars
<1>11. CASE AnnounceSuccess
  <2>1. /\ active /\ io' = "idle" /\ UNCHANGED <<lhVars, sessVars, dropped>>
        /\ Send(s2c, "Ciallo", cipher.peer)
    BY <1>11 DEF AnnounceSuccess, OrderInv
  <2>2. InFlight' = InFlight
    BY <2>1 DEF InFlight, sessVars
  <2>3. Answers("Ciallo", cipher.peer) \subseteq InFlight'
    <3>1. cipher.peer \in Nat /\ active'
      BY <2>1 DEF OrderInv, KeysOK, sessVars
    <3> QED
      BY <3>1, AnswersFly
  <2>4. /\ s2c' \in [Attempts -> Seq(InFlight')]
        /\ \A d \in Attempts : s2c'[d] # <<>> => s2c[d] # <<>> \/ LHP!HasOpened(d)
    BY <2>1, <2>2, <2>3, SendKeeps DEF OrderInv
  <2>5. \A d \in Attempts : s2c'[d] # <<>> => LHP!HasOpened(d)'
    BY <2>4, OpenedStays DEF OrderInv
  <2> QED
    BY <2>1, <2>4, <2>5 DEF OrderInv, KeysOK, lhVars, sessVars
<1>12. CASE HeartbeatExpires
  <2>1. /\ channel = "requested" /\ channel' = "expired"
        /\ UNCHANGED <<lhVars, io, config, active, hsKey, keyGen, cipher, netVars>>
    BY <1>12 DEF HeartbeatExpires
  <2>2. InFlight' = InFlight
    BY <2>1 DEF InFlight
  <2>3. \A d \in Attempts : s2c'[d] # <<>> => LHP!HasOpened(d)'
    BY <2>1, OpenedStays DEF OrderInv, netVars
  <2> QED
    BY <2>1, <2>2, <2>3 DEF OrderInv, KeysOK, lhVars, netVars
<1> QED
  BY <1>1, <1>2, <1>3, <1>4, <1>5, <1>6, <1>7, <1>8, <1>9, <1>10, <1>11, <1>12
     DEF Next, Starter, InHandler

\* What is kept whether or not a second connection opens.
LEMMA Order == Spec => [](Channels /\ FlowInv /\ OrderInv)
<1>1. Init => OrderInv
  <2> SUFFICES ASSUME Init PROVE OrderInv
    OBVIOUS
  <2>1. \A c \in Attempts : <<>> \in Seq(InFlight)
    OBVIOUS
  <2>2. /\ s2c = [c \in Attempts |-> <<>>] /\ dropped = FALSE
        /\ keyGen = 0 /\ cipher = [own |-> 0, peer |-> 0] /\ channel = "none"
        /\ active = FALSE /\ config = FALSE /\ hsKey = FALSE /\ io = "idle"
    BY DEF Init, NoCipher
  <2>3. s2c \in [Attempts -> Seq(InFlight)] /\ \A c \in Attempts : s2c[c] = <<>>
    BY <2>1, <2>2
  <2>4. KeysOK
    BY <2>2 DEF KeysOK
  <2>5. \A c \in Attempts : s2c[c] # <<>> => LHP!HasOpened(c)
    BY <2>3
  <2>6. dropped \in BOOLEAN /\ ~active /\ keyGen = 0 /\ channel = "none" /\ io = "idle"
    BY <2>2
  <2> QED
    BY <2>3, <2>4, <2>5, <2>6 DEF OrderInv
<1>2. Spec => []Channels
  BY ChannelInv, PTL DEF Channels
<1> QED
  BY <1>1, <1>2, Flow, OrderStep, PTL DEF Spec

-----------------------------------------------------------------------------
(* One conversation, as long as no second connection has opened *)

\* The ciphers are those of the first key pair, on both ends.
Derived == keyGen = 1 /\ cipher = [own |-> 1, peer |-> 1]

Agreed == active /\ Derived

\* What a packet in flight says about the keys.
Fits(m) ==
  /\ m.type \in {"HSKey", "LoginOk", "LoginBad"} => keyGen = 0
  /\ m.type = "Handshake" => keyGen = 1 /\ m.key = 1 /\ cipher = NoCipher
  /\ m.type \in {"Pong", "Token"} => Agreed /\ m.key = 1

Quiet(c) == s2c[c] = <<>>

\* A connection with one packet in flight; the handshake's handler has none.
Talks(c) ==
  io \in {"idle", "closing"} /\ \E m \in Packets : s2c[c] = <<m>> /\ Fits(m)

\* How far the keys have got, and where the IO thread is while they change.
KeyInv ==
  /\ keyGen \in {0, 1}
  /\ active \/ channel # "none" => Agreed
  /\ io = "configured" => Derived
  /\ io = "started" => Agreed
  /\ cipher = NoCipher \/ (Derived /\ (active \/ io = "configured"))

\* As long as the accepted login has not become a session, on a connection whose
\* packets did not expire, something is in flight.
GoesOn ==
  keyGen > 0 /\ connected /\ ~dropped /\ cipher = NoCipher => ~Quiet(handle)

Conversation ==
  KeyInv /\ GoesOn /\ \A c \in Attempts : Quiet(c) \/ Talks(c)

Inv == OrderInv /\ (LHP!Sole => Conversation)

\* Only the connection that the handle names talks.
LEMMA OnlyOne ==
  ASSUME OrderInv, LHP!Sole, NEW c \in Attempts, ~Quiet(c)
  PROVE  handle = c /\ \A d \in Attempts : d # c => Quiet(d)
BY DEF OrderInv, LHP!Sole, LHP!Conns, Attempts, Quiet

\* A packet that is taken off a connection was the only one in flight.
LEMMA TakesTheOne ==
  ASSUME OrderInv, LHP!Sole, Conversation, NEW c \in Attempts, NEW t, Receives(c, t)
  PROVE  /\ Head(s2c[c]).type = t /\ Fits(Head(s2c[c]))
         /\ handle = c /\ io = "idle"
         /\ \A d \in Attempts : Taken(c)[d] = <<>>
         /\ s2c[c] = <<Head(s2c[c])>> /\ Taken(c) \in [Attempts -> {<<>>}]
<1>1. s2c[c] # <<>> /\ Head(s2c[c]).type = t /\ io = "idle"
  BY DEF Receives, IoIdle
<1>2. PICK m \in Packets : s2c[c] = <<m>> /\ Fits(m)
  BY <1>1 DEF Conversation, Quiet, Talks
<1>3. Head(s2c[c]) = m /\ Tail(s2c[c]) = <<>>
  BY <1>2
<1>4. handle = c /\ \A d \in Attempts : d # c => s2c[d] = <<>>
  BY <1>1, OnlyOne DEF Quiet
<1>5. s2c \in [Attempts -> Seq(InFlight)]
  BY DEF OrderInv
<1>6. \A d \in Attempts : Taken(c)[d] = <<>>
  BY <1>3, <1>4, <1>5 DEF Taken
<1>7. Taken(c) \in [Attempts -> {<<>>}]
  BY <1>5, <1>6 DEF Taken
<1> QED
  BY <1>1, <1>2, <1>3, <1>4, <1>6, <1>7

\* With nothing in flight a connection that is up gets the one answer to what is
\* sent, and nothing is sent otherwise.
LEMMA SendsOne ==
  ASSUME Channels, NEW net \in [Attempts -> {<<>>}], NEW t, NEW k, Send(net, t, k)
  PROVE  /\ \A d \in Attempts : s2c'[d] = <<>> \/ \E m \in Answers(t, k) : s2c'[d] = <<m>>
         /\ connected => s2c'[handle] # <<>>
<1>1. CASE ~connected
  BY <1>1 DEF Send
<1>2. CASE connected
  <2>1. handle \in Attempts
    BY <1>2, SendsOnOpen
  <2>2. PICK m \in Answers(t, k) : s2c' = [net EXCEPT ![handle] = Append(@, m)]
    BY <1>2 DEF Send
  <2>3. net[handle] = <<>> /\ Append(<<>>, m) = <<m>> /\ <<m>> # <<>>
    BY <2>1
  <2>4. s2c' = [net EXCEPT ![handle] = <<m>>]
    BY <2>2, <2>3
  <2> QED
    BY <2>1, <2>3, <2>4
<1> QED
  BY <1>1, <1>2

\* Steps that leave packets and keys alone keep the conversation.
LEMMA ElsewhereKeeps ==
  ASSUME Conversation, UNCHANGED <<keyGen, cipher, active, channel, s2c, dropped>>,
         io' = io \/ (io \in {"idle", "closing"} /\ io' \in {"idle", "closing"}),
         connected' => connected /\ handle' = handle
  PROVE  Conversation'
BY DEF Conversation, KeyInv, GoesOn, Talks, Fits, Quiet, Agreed, Derived

\* A connection that opens, and stays the only one, is the first: no key pair was
\* made before, and nothing was in flight.
LEMMA OpensFirst ==
  ASSUME Channels, OrderInv, [Next]_vars, LHP!Sole', NEW c \in Attempts, LH!OnOpen(c)
  PROVE  handle = 0 /\ keyGen = 0 /\ \A d \in Attempts : Quiet(d)
<1>1. conn[c] = "dialing" /\ handle' = c
  BY DEF LH!OnOpen
<1>2. \A d \in Attempts : ~LHP!HasOpened(d)
  <2> SUFFICES ASSUME NEW d \in Attempts, LHP!HasOpened(d) PROVE FALSE
    OBVIOUS
  <2>1. LHP!HasOpened(d)'
    BY OpenedStays
  <2>2. d = c
    BY <1>1, <2>1 DEF LHP!Sole, LHP!Conns, Attempts
  <2> QED
    BY <1>1, <2>2 DEF LHP!HasOpened
<1>3. handle = 0
  BY <1>2 DEF Channels, LHP!IInv, LHP!HandleNamed, LHP!TypeOK, LHP!Conns, Attempts
<1> QED
  BY <1>2, <1>3 DEF OrderInv, Quiet

\* Every packet handler keeps the conversation: its packet says how far the keys
\* are, and the answer to its reply says it again.
LEMMA HandlersKeep ==
  ASSUME Channels, OrderInv, LHP!Sole, Conversation, NEW c \in Attempts,
         Handle(c) \/ DiscardExpired(c)
  PROVE  Conversation'
<1> DEFINE Takes(t) ==
      /\ Head(s2c[c]).type = t /\ Fits(Head(s2c[c]))
      /\ handle = c /\ io = "idle"
      /\ \A d \in Attempts : Taken(c)[d] = <<>>
      /\ s2c[c] = <<Head(s2c[c])>> /\ Taken(c) \in [Attempts -> {<<>>}]
<1>1. \A t : Receives(c, t) => Takes(t)
  BY TakesTheOne
<1>2. KeyInv
  BY DEF Conversation
<1> HIDE DEF Takes
<1>3. CASE HandleHSKey(c)
  <2>1. Takes("HSKey")
    BY <1>1, <1>3 DEF HandleHSKey
  <2>2. keyGen = 0 /\ io = "idle" /\ Taken(c) \in [Attempts -> {<<>>}]
    BY <2>1 DEF Takes, Fits
  <2>3. UNCHANGED <<keyGen, active, cipher, channel, io>> /\ Send(Taken(c), "Login", 0)
    BY <1>3 DEF HandleHSKey
  <2>4. \A d \in Attempts : Quiet(d)' \/ Talks(d)'
    <3>1. \A m \in Answers("Login", 0) : m \in Packets /\ Fits(m)'
      BY <2>2, <2>3 DEF Answers, Packets, PacketTypes, Keyed, Fits
    <3> QED
      BY <2>2, <2>3, <3>1, SendsOne DEF Quiet, Talks
  <2> QED
    BY <1>2, <2>2, <2>3, <2>4 DEF Conversation, KeyInv, GoesOn, Agreed, Derived
<1>4. CASE LoginAccepted(c)
  <2>1. Takes("LoginOk")
    BY <1>1, <1>4 DEF LoginAccepted
  <2>2. keyGen = 0 /\ io = "idle" /\ Taken(c) \in [Attempts -> {<<>>}] /\ handle = c
    BY <2>1 DEF Takes, Fits
  <2>3. /\ keyGen' = 1 /\ UNCHANGED <<active, cipher, channel, io, handle, connected>>
        /\ Send(Taken(c), "Handshake", 1)
    BY <1>4, <2>2 DEF LoginAccepted, GenerateKeys, lhVars
  <2>4. cipher = NoCipher /\ ~active /\ channel = "none"
    BY <1>2, <2>2 DEF KeyInv, Derived, Agreed
  <2>5. \A d \in Attempts : Quiet(d)' \/ Talks(d)'
    <3>1. \A m \in Answers("Handshake", 1) : m \in Packets /\ Fits(m)'
      BY <2>3, <2>4 DEF Answers, Packets, PacketTypes, Keyed, Fits
    <3> QED
      BY <2>2, <2>3, <3>1, SendsOne DEF Quiet, Talks
  <2>6. connected' => ~Quiet(handle)'
    BY <2>2, <2>3, SendsOne DEF Quiet
  <2> QED
    BY <2>2, <2>3, <2>4, <2>5, <2>6 DEF Conversation, KeyInv, GoesOn
<1>5. CASE LoginRejected(c)
  <2>1. Takes("LoginBad")
    BY <1>1, <1>5 DEF LoginRejected
  <2>2. keyGen = 0 /\ io = "idle" /\ \A d \in Attempts : Taken(c)[d] = <<>>
    BY <2>1 DEF Takes, Fits
  <2>3. UNCHANGED <<keyGen, active, cipher, channel, io>> /\ s2c' = Taken(c)
    BY <1>5 DEF LoginRejected, sessVars
  <2> QED
    BY <1>2, <2>2, <2>3 DEF Conversation, KeyInv, GoesOn, Agreed, Derived, Quiet
<1>6. CASE HandleHandshake(c)
  <2>1. Takes("Handshake")
    BY <1>1, <1>6 DEF HandleHandshake
  <2>2. /\ keyGen = 1 /\ Head(s2c[c]).key = 1 /\ cipher = NoCipher
        /\ \A d \in Attempts : Taken(c)[d] = <<>>
    BY <2>1 DEF Takes, Fits
  <2>3. /\ UNCHANGED <<keyGen, active, channel>> /\ s2c' = Taken(c)
        /\ cipher' = [own |-> 1, peer |-> 1] /\ io' = "configured"
    BY <1>6, <2>2 DEF HandleHandshake
  <2>4. ~active /\ channel = "none" /\ cipher' # NoCipher
    BY <1>2, <2>2, <2>3 DEF KeyInv, Derived, Agreed, NoCipher
  <2> QED
    BY <2>2, <2>3, <2>4 DEF Conversation, KeyInv, GoesOn, Derived, Quiet
<1>7. CASE HandlePong(c)
  <2>1. Takes("Pong")
    BY <1>1, <1>7 DEF HandlePong
  <2>2. Agreed /\ cipher # NoCipher /\ io = "idle" /\ Taken(c) \in [Attempts -> {<<>>}]
        /\ \A d \in Attempts : Taken(c)[d] = <<>>
    BY <2>1 DEF Takes, Fits, Agreed, Derived, NoCipher
  <2>3. UNCHANGED <<keyGen, active, cipher, channel, io>>
        /\ (s2c' = Taken(c) \/ Send(Taken(c), "Fuck", 1))
    BY <1>7, <2>2 DEF HandlePong, sessVars, Agreed, Derived
  <2>4. \A d \in Attempts : Quiet(d)' \/ Talks(d)'
    <3>1. \A m \in Answers("Fuck", 1) : m \in Packets /\ Fits(m)'
      BY <2>2, <2>3 DEF Answers, Packets, PacketTypes, Keyed, Fits, Agreed, Derived
    <3> QED
      BY <2>2, <2>3, <3>1, SendsOne DEF Quiet, Talks
  <2> QED
    BY <1>2, <2>2, <2>3, <2>4 DEF Conversation, KeyInv, GoesOn, Agreed, Derived
<1>8. CASE HandleToken(c)
  <2>1. Takes("Token")
    BY <1>1, <1>8 DEF HandleToken
  <2>2. Agreed /\ cipher # NoCipher /\ io = "idle" /\ \A d \in Attempts : Taken(c)[d] = <<>>
    BY <2>1 DEF Takes, Fits, Agreed, Derived, NoCipher
  <2>3. UNCHANGED <<keyGen, active, cipher, io>> /\ s2c' = Taken(c)
    BY <1>8 DEF HandleToken
  <2> QED
    BY <1>2, <2>2, <2>3 DEF Conversation, KeyInv, GoesOn, Agreed, Derived, Quiet
<1>9. CASE DiscardExpired(c)
  <2>1. PICK t : Takes(t)
    BY <1>1, <1>9 DEF DiscardExpired
  <2>2. /\ UNCHANGED <<keyGen, active, cipher, channel, io>>
        /\ s2c' = Taken(c) /\ dropped' = TRUE
    BY <1>9 DEF DiscardExpired, sessVars
  <2>3. \A d \in Attempts : Taken(c)[d] = <<>>
    BY <2>1 DEF Takes
  <2> QED
    BY <1>2, <2>2, <2>3 DEF Conversation, KeyInv, GoesOn, Agreed, Derived, Quiet
<1> QED
  BY <1>3, <1>4, <1>5, <1>6, <1>7, <1>8, <1>9 DEF Handle

\* Every step that leaves one connection opened keeps the conversation.
LEMMA InvStep == Channels /\ FlowInv /\ Inv /\ [Next]_vars => Inv'
<1> SUFFICES ASSUME Channels, FlowInv, Inv, [Next]_vars, LHP!Sole' PROVE Conversation'
  BY OrderStep DEF Inv
<1>0. OrderInv /\ LHP!Sole /\ Conversation /\ KeyInv
  BY OpenedStays DEF Inv, Conversation
<1>1. CASE Dialog
  BY <1>0, <1>1, ElsewhereKeeps DEF Dialog, Click, PollReady, PollFailed, WaitTimesOut,
                              ShowResult, lhVars, sessVars, netVars
<1>2. ASSUME NEW a \in Attempts, CheckClock(a) \/ InitHandler(a) PROVE Conversation'
  BY <1>0, <1>2, ElsewhereKeeps
     DEF CheckClock, InitHandler, LH!Construct, lhVars, sessVars, netVars
<1>3. ASSUME NEW a \in Attempts, StarterDials(a) \/ StarterAssigns(a) PROVE Conversation'
  <2>1. UNCHANGED <<sessVars, netVars, io, connected, handle>>
    BY <1>3 DEF StarterDials, StarterAssigns, Assigns, LH!Connect, LH!StartIoThread
  <2> QED
    BY <1>0, <2>1, ElsewhereKeeps DEF sessVars, netVars
<1>4. ASSUME NEW c \in Attempts, Opened(c) PROVE Conversation'
  <2>1. /\ io = "idle" /\ io' = "idle" /\ UNCHANGED <<sessVars, dropped>>
        /\ s2c' = [s2c EXCEPT ![c] = <<[type |-> "HSKey"]>>]
        /\ LH!OnOpen(c)
    BY <1>4 DEF Opened, IoIdle
  <2>2. keyGen = 0 /\ \A d \in Attempts : s2c[d] = <<>>
    BY <1>0, <2>1, OpensFirst DEF Quiet
  <2>3. [type |-> "HSKey"] \in Packets /\ Fits([type |-> "HSKey"])'
    BY <2>1, <2>2 DEF Packets, PacketTypes, Keyed, Fits, sessVars
  <2>4. \A d \in Attempts : Quiet(d)' \/ Talks(d)'
    BY <1>0, <2>1, <2>2, <2>3 DEF OrderInv, Quiet, Talks
  <2> QED
    BY <1>0, <2>1, <2>2, <2>4 DEF Conversation, KeyInv, GoesOn, Agreed, Derived, sessVars
<1>5. ASSUME NEW c \in Attempts, Closed(c) PROVE Conversation'
  <2>1. /\ io = "idle" /\ io' \in {"idle", "closing"} /\ connected' = FALSE
        /\ UNCHANGED <<sessVars, dropped>> /\ s2c' = [s2c EXCEPT ![c] = <<>>]
    BY <1>5 DEF Closed, LH!OnClose, IoIdle
  <2>2. \A d \in Attempts : Quiet(d)' \/ Talks(d)'
    BY <1>0, <2>1 DEF OrderInv, Conversation, Quiet, Talks, Fits, Agreed, Derived, sessVars
  <2> QED
    BY <1>0, <2>1, <2>2 DEF Conversation, KeyInv, GoesOn, Agreed, Derived, sessVars
<1>6. ASSUME NEW c \in Attempts, DialFailed(c) PROVE Conversation'
  BY <1>0, <1>6, ElsewhereKeeps DEF DialFailed, IoIdle, LH!OnFail, sessVars, netVars
<1>7. ASSUME NEW c \in Attempts, Retries(c) PROVE Conversation'
  BY <1>0, <1>7, ElsewhereKeeps
     DEF Retries, LH!Reconnect, LH!StopService, LH!TestJoinable, LH!JoinIoThread,
         LH!JoinThrows, LH!ResetAndRedial, sessVars, netVars
<1>8. ASSUME NEW c \in Attempts, Handle(c) \/ DiscardExpired(c) PROVE Conversation'
  BY <1>0, <1>8, HandlersKeep
<1>9. CASE ReportClosed \/ IoReturns \/ UNCHANGED vars
  BY <1>0, <1>9, ElsewhereKeeps
     DEF ReportClosed, IoReturns, LH!RunReturns, vars, lhVars, sessVars, netVars
<1>10. CASE StartSession \/ AnnounceSuccess
  <2>1. \A d \in Attempts : s2c[d] = <<>>
    BY <1>0, <1>10 DEF StartSession, AnnounceSuccess, Conversation, Quiet, Talks
  <2>2. s2c \in [Attempts -> {<<>>}]
    BY <1>0, <2>1 DEF OrderInv
  <2>3. CASE StartSession
    <3>1. Derived /\ cipher # NoCipher
      BY <1>0, <2>3 DEF StartSession, KeyInv, Derived, NoCipher
    <3> QED
      BY <2>1, <2>3, <3>1 DEF StartSession, netVars, Conversation, KeyInv, GoesOn, Agreed,
                              Derived, Quiet
  <2>4. CASE AnnounceSuccess
    <3>1. Agreed /\ cipher # NoCipher
      BY <1>0, <2>4 DEF AnnounceSuccess, KeyInv, Agreed, Derived, NoCipher
    <3>2. /\ UNCHANGED <<keyGen, active, cipher, channel>> /\ io' = "idle"
          /\ Send(s2c, "Ciallo", 1)
      BY <2>4, <3>1 DEF AnnounceSuccess, sessVars, Agreed, Derived
    <3>3. \A d \in Attempts : Quiet(d)' \/ Talks(d)'
      <4>1. \A m \in Answers("Ciallo", 1) : m \in Packets /\ Fits(m)'
        BY <3>1, <3>2 DEF Answers, Packets, PacketTypes, Keyed, Fits, Agreed, Derived
      <4> QED
        BY <2>2, <3>2, <4>1, SendsOne DEF Quiet, Talks
    <3> QED
      BY <3>1, <3>2, <3>3 DEF Conversation, KeyInv, GoesOn, Agreed, Derived
  <2> QED
    BY <1>10, <2>3, <2>4
<1>11. CASE HeartbeatExpires
  <2>1. /\ channel = "requested" /\ UNCHANGED <<handle, connected>>
        /\ UNCHANGED <<io, config, active, hsKey, keyGen, cipher, netVars>>
    BY <1>11 DEF HeartbeatExpires, lhVars
  <2> QED
    BY <1>0, <2>1 DEF netVars, Conversation, KeyInv, GoesOn, Quiet, Talks, Fits, Agreed, Derived
<1> QED
  BY <1>1, <1>2, <1>3, <1>4, <1>5, <1>6, <1>7, <1>8, <1>9, <1>10, <1>11
     DEF Next, Starter, InHandler

\* The inductive invariant of the whole flow.
THEOREM Inductive == Spec => [](Channels /\ FlowInv /\ Inv)
<1>1. Init => (LHP!Sole => Conversation)
  BY DEF Init, Conversation, KeyInv, GoesOn, Quiet
<1>2. Channels /\ FlowInv /\ OrderInv /\ Inv /\ [Next]_vars => Inv'
  BY InvStep
<1>3. Spec => []Inv
  <2>1. OrderInv /\ Init => Inv
    BY <1>1 DEF Inv
  <2> QED
    BY <1>2, <2>1, Order, PTL DEF Spec
<1> QED
  BY <1>3, Order, PTL

\* Every reachable state of the verification flow is well typed.
THEOREM TypeCorrect == Spec => []TypeOK
<1>1. Channels /\ FlowInv /\ Inv => TypeOK
  <2> SUFFICES ASSUME Channels, FlowInv, Inv PROVE TypeOK
    OBVIOUS
  <2>1. LHP!TypeOK => LH!TypeOK
    BY DEF LHP!TypeOK, LH!TypeOK, LHP!Conns, LH!Conns, LHP!ConnStates, LH!ConnStates,
           LHP!IoThreads, LH!IoThreads, LHP!RetrierStates, LH!RetrierStates
  <2>2. s2c \in [Attempts -> Seq(Packets)]
    <3>1. InFlight \subseteq Packets /\ s2c \in [Attempts -> Seq(InFlight)]
      BY DEF InFlight, Inv, OrderInv
    <3> QED
      BY <3>1, Sequences
  <2> QED
    BY <2>1, <2>2 DEF Channels, LHP!IInv, FlowInv, Inv, OrderInv, PacketsOK, TypeOK
<1> QED
  BY <1>1, Inductive, PTL

\* Once every connect() has returned, no second connection has opened.
LEMMA SettledIsSole == Channels /\ LH!Settled => LHP!Sole
BY DEF Channels, LHP!OneOpened, LHP!Settled, LH!Settled

\* Once every connect() has returned, a session runs on keys the server shares.
THEOREM KeysAreShared == Spec => []KeysAgree
<1>1. Channels /\ Inv => KeysAgree
  BY SettledIsSole DEF Inv, Conversation, KeyInv, Agreed, Derived, KeysAgree
<1> QED
  BY <1>1, Inductive, PTL

\* The message channel is only opened for a session, with a token that can be
\* decrypted once every connect() has returned.
THEOREM TokenNeedsSession == Spec => []ChannelNeedsSession
<1>1. Channels /\ Inv => ChannelNeedsSession
  BY SettledIsSole DEF Inv, OrderInv, Conversation, KeyInv, Agreed, Derived,
                       ChannelNeedsSession
<1> QED
  BY <1>1, Inductive, PTL

-----------------------------------------------------------------------------
(* The flow implements the promise of the blocking call, step by step *)

\* A call that returned true, or is about to, found the session up, and it stays
\* up as long as no second connection opens.
GrantInv ==
  /\ crashed \in BOOLEAN
  /\ ui \in {"ready", "poll", "checkFailed", "true", "false", "verified"}
  /\ ui \in {"true", "verified"} /\ LHP!Sole => config /\ active

\* Outside the dialog a step leaves the call where it is; it ends the process,
\* handles the handshake, starts the session, or does nothing the promise is about.
LEMMA OutsideDialog ==
  ASSUME [Next]_vars, ~Dialog
  PROVE  /\ ui' = ui
         /\ \/ UNCHANGED <<config, active, crashed>>
            \/ ~crashed /\ crashed' = TRUE /\ UNCHANGED <<config, active>>
            \/ /\ ~crashed /\ crashed' = crashed /\ active' = active
               /\ \E c \in Attempts : HandleHandshake(c)
            \/ ~crashed /\ crashed' = crashed /\ active' = TRUE /\ config' = config
<1> USE DEF lhVars, uiVars, sessVars
<1>1. ASSUME NEW a \in Attempts, CheckClock(a) \/ InitHandler(a) \/ StarterDials(a)
      PROVE  UNCHANGED <<ui, config, active, crashed>>
  BY <1>1 DEF CheckClock, InitHandler, StarterDials, LH!Construct, LH!Connect
<1>2. ASSUME NEW a \in Attempts, StarterAssigns(a)
      PROVE  /\ UNCHANGED <<ui, config, active>>
             /\ crashed' = crashed \/ (~crashed /\ crashed' = TRUE)
  BY <1>2 DEF StarterAssigns, Assigns, LH!StartIoThread
<1>3. ASSUME NEW c \in Attempts, Opened(c) \/ DialFailed(c) \/ Closed(c)
      PROVE  UNCHANGED <<ui, config, active, crashed>>
  BY <1>3 DEF Opened, DialFailed, Closed, LH!OnOpen, LH!OnFail, LH!OnClose
<1>4. ASSUME NEW c \in Attempts, Retries(c)
      PROVE  UNCHANGED <<ui, config, active, crashed>>
  BY <1>4 DEF Retries, LH!Reconnect, LH!StopService, LH!TestJoinable, LH!JoinIoThread,
              LH!JoinThrows, LH!ResetAndRedial
<1>5. ASSUME NEW c \in Attempts, HandleHSKey(c) \/ LoginAccepted(c) \/ LoginRejected(c)
                                 \/ HandlePong(c) \/ HandleToken(c) \/ DiscardExpired(c)
      PROVE  UNCHANGED <<ui, config, active, crashed>>
  BY <1>5 DEF DiscardExpired, HandleHSKey, LoginAccepted, LoginRejected, HandlePong, HandleToken
<1>6. ASSUME NEW c \in Attempts, HandleHandshake(c)
      PROVE  UNCHANGED <<ui, active, crashed>> /\ ~crashed
  BY <1>6 DEF HandleHandshake, Receives, IoIdle, LH!Dispatching
<1>7. CASE StartSession
  BY <1>7 DEF StartSession
<1>8. CASE ReportClosed \/ AnnounceSuccess \/ HeartbeatExpires
  BY <1>8 DEF ReportClosed, AnnounceSuccess, HeartbeatExpires
<1>9. CASE IoReturns
  BY <1>9 DEF IoReturns, LH!RunReturns
<1>10. CASE UNCHANGED vars
  BY <1>10 DEF vars
<1> QED
  BY <1>1, <1>2, <1>3, <1>4, <1>5, <1>6, <1>7, <1>8, <1>9, <1>10
     DEF Next, Starter, Handle, InHandler

\* What the dialog's own steps do to the call.
LEMMA InsideDialog ==
  ASSUME Dialog
  PROVE  /\ UNCHANGED <<config, active, crashed, connecting, handle, conn>> /\ ~crashed
         /\ \/ ui = "ready" /\ ui' = "poll"
            \/ ui = "poll" /\ ui' = "true" /\ config /\ active
            \/ ui \in {"poll", "checkFailed"} /\ ui' \in {"poll", "checkFailed", "false"}
            \/ ui = "true" /\ ui' = "verified"
            \/ ui = "false" /\ ui' = "ready"
BY DEF Dialog, Click, PollReady, PollFailed, WaitTimesOut, ShowResult, Ready,
       lhVars, sessVars

\* With one connection opened a handshake is handled before there is a session.
LEMMA HandshakeComesFirst ==
  ASSUME Inv, LHP!Sole, NEW c \in Attempts, HandleHandshake(c)
  PROVE  ~active
<1>1. Fits(Head(s2c[c])) /\ Head(s2c[c]).type = "Handshake"
  BY TakesTheOne DEF HandleHandshake, Inv
<1> QED
  BY <1>1 DEF Fits, Inv, Conversation, KeyInv, Agreed, Derived, NoCipher

\* Every step keeps the session up for a call that was granted.
LEMMA GrantStep == FlowInv /\ Inv /\ Channels /\ Channels' /\ GrantInv /\ [Next]_vars => GrantInv'
<1> SUFFICES ASSUME FlowInv, Inv, Channels, Channels', GrantInv, [Next]_vars PROVE GrantInv'
  OBVIOUS
<1>0. (LHP!Sole' => LHP!Sole) /\ crashed' \in BOOLEAN
  BY OpenedStays DEF Channels, LHP!IInv, LHP!TypeOK
<1>1. CASE Dialog
  BY <1>0, <1>1, InsideDialog DEF GrantInv
<1>2. CASE ~Dialog
  <2>1. ASSUME NEW c \in Attempts, HandleHandshake(c), LHP!Sole PROVE ~active
    BY <2>1, HandshakeComesFirst
  <2> QED
    BY <1>0, <1>2, <2>1, OutsideDialog DEF GrantInv
<1> QED
  BY <1>1, <1>2

\* The call keeps the safety part of its promise: it returns true only when the
\* session is up, and no step touches a session that is up unless another
\* attempt is inside connect().
THEOREM PromiseKept == Spec => Promise!Init /\ [][Promise!Next]_(Promise!vars)
<1>1. Init => GrantInv /\ Promise!Init
  BY DEF Init, GrantInv, LH!Init, Promise!Init, Call
<1>2. Spec => []GrantInv
  BY <1>1, Inductive, GrantStep, PTL DEF Spec
<1>3. FlowInv /\ Inv /\ Channels /\ GrantInv /\ [Next]_vars
        => [Promise!Next]_(Promise!vars)
  <2> SUFFICES ASSUME FlowInv, Inv, Channels, GrantInv, [Next]_vars
               PROVE  Promise!Next \/ UNCHANGED Promise!vars
    OBVIOUS
  <2> USE DEF GrantInv, Promise!Next, Promise!vars
  <2>1. CASE Dialog
    <3>1. UNCHANGED (config /\ active) /\ ~crashed /\ ~crashed'
      BY <2>1, InsideDialog
    <3>2. CASE ui = "ready" /\ ui' = "poll"
      BY <3>1, <3>2 DEF Call, Promise!Begin
    <3>3. CASE ui \in {"poll", "checkFailed"} /\ ui' \in {"poll", "checkFailed", "false"}
      BY <3>1, <3>3 DEF Call, Promise!Elsewhere
    <3>4. CASE ui = "poll" /\ ui' = "true" /\ config /\ active
      BY <3>1, <3>4 DEF Call, Promise!Grant
    <3>5. CASE ui = "true" /\ ui' = "verified"
      BY <3>1, <3>5 DEF Call, Promise!Elsewhere
    <3>6. CASE ui = "false" /\ ui' = "ready"
      BY <3>1, <3>6 DEF Call, Promise!Refuse
    <3> QED
      BY <2>1, <3>2, <3>3, <3>4, <3>5, <3>6, InsideDialog
  <2>2. CASE ~Dialog
    <3>0. ui' = ui
      BY <2>2, OutsideDialog
    <3>1. CASE UNCHANGED <<config, active, crashed>>
      BY <3>0, <3>1 DEF Call, Promise!Elsewhere
    <3>2. CASE ~crashed /\ crashed' = TRUE /\ UNCHANGED <<config, active>>
      BY <3>0, <3>2 DEF Call, Promise!Die, Promise!Elsewhere
    <3>3. ASSUME ~crashed, crashed' = crashed, ~LHP!Sole PROVE connecting # {}
      BY <3>3, SettledIsSole DEF LH!Settled
    <3>4. ASSUME NEW c \in Attempts, HandleHandshake(c), ~crashed, crashed' = crashed,
                 active' = active
          PROVE  Promise!Next \/ UNCHANGED Promise!vars
      <4>1. Call' = Call
        BY <3>0, <3>4 DEF Call
      <4>2. CASE active
        <5>1. connecting # {}
          BY <3>3, <3>4, <4>2, HandshakeComesFirst
        <5>2. config' \in BOOLEAN /\ active \in BOOLEAN
          BY <3>4 DEF HandleHandshake, Inv, OrderInv, KeysOK
        <5>3. CASE config' = TRUE
          BY <3>4, <4>1, <4>2, <5>1, <5>2, <5>3 DEF Promise!Establish
        <5>4. CASE config' = FALSE
          BY <3>4, <4>1, <4>2, <5>1, <5>2, <5>4 DEF Promise!Lose
        <5> QED
          BY <5>2, <5>3, <5>4
      <4>3. CASE ~active
        BY <3>4, <4>1, <4>3 DEF Promise!Elsewhere
      <4> QED
        BY <4>2, <4>3
    <3>5. ASSUME ~crashed, crashed' = crashed, active' = TRUE, config' = config
          PROVE  Promise!Next \/ UNCHANGED Promise!vars
      <4>1. Call' = Call /\ config \in BOOLEAN /\ active \in BOOLEAN
        BY <3>0, <3>5 DEF Call, Inv, OrderInv, KeysOK
      <4>2. CASE (config /\ active)' <=> (config /\ active)
        BY <4>1, <4>2 DEF Promise!Elsewhere
      <4>3. CASE ~((config /\ active)' <=> (config /\ active))
        <5>1. config /\ ~active
          BY <3>5, <4>1, <4>3
        <5>2. ui \in {"true", "verified"} => connecting # {}
          BY <3>3, <3>5, <5>1
        <5>3. Call \notin {"granted", "dead"} \/ connecting # {}
          BY <3>5, <5>2 DEF Call
        <5> QED
          BY <3>5, <4>1, <5>1, <5>3 DEF Promise!Establish
      <4> QED
        BY <4>2, <4>3
    <3> QED
      BY <2>2, <3>1, <3>2, <3>4, <3>5, OutsideDialog
  <2> QED
    BY <2>1, <2>2
<1> QED
  BY <1>1, <1>2, <1>3, Inductive, PTL DEF Spec

-----------------------------------------------------------------------------
(* Why the first attempt never ends the process *)

\* Starters are those of the calls made; before one of them has got to its end
\* the thread object is empty; and it takes two of them to end the process.
StartInv ==
  /\ attempts \in Nat
  /\ starter \in [Attempts -> {"none", "time", "init", "connect", "dialled", "ended"}]
  /\ \A a \in Attempts : starter[a] # "none" => a <= attempts
  /\ (\A a \in Attempts : starter[a] # "ended") => ioThread = "none"
  /\ crashed => \E a, b \in Attempts :
                  a # b /\ starter[a] = "ended" /\ starter[b] = "ended"

\* Every step keeps the account of the starters.
LEMMA StartStep ==
  ASSUME FlowInv, StartInv, [Next]_vars
  PROVE  StartInv'
<1>0. attempts \in Nat /\ attempts' \in Nat /\ FlowOK'
      /\ starter' \in [Attempts -> {"none", "time", "init", "connect", "dialled", "ended"}]
  BY FlowStep, VerifySessionAssumption DEF FlowInv, FlowOK
<1> USE DEF StartInv, lhVars, uiVars
<1>1. CASE Click
  <2>1. /\ attempts' = attempts + 1 /\ UNCHANGED lhVars /\ ~crashed
        /\ starter' = [starter EXCEPT ![attempts + 1] = "time"]
    BY <1>1 DEF Click
  <2>2. \A b \in Attempts : starter'[b] = IF b = attempts + 1 THEN "time" ELSE starter[b]
    BY <1>0, <2>1
  <2>3. \A b \in Attempts : starter'[b] # "none" => b <= attempts'
    BY <1>0, <2>1, <2>2 DEF Attempts
  <2>4. \A b \in Attempts : b = attempts + 1 => starter[b] = "none"
    BY <1>0 DEF Attempts
  <2>5. (\A b \in Attempts : starter'[b] # "ended") => ioThread' = "none"
    BY <2>1, <2>2, <2>4
  <2> QED
    BY <1>0, <2>1, <2>3, <2>5
<1>2. ASSUME UNCHANGED <<attempts, starter, crashed>>, ioThread' = "none" \/ ioThread # "none"
      PROVE  StartInv'
  BY <1>0, <1>2
<1>3. CASE PollReady \/ PollFailed \/ WaitTimesOut \/ ShowResult
  BY <1>2, <1>3 DEF PollReady, PollFailed, WaitTimesOut, ShowResult
<1>4. ASSUME NEW a \in Attempts, CheckClock(a) \/ InitHandler(a) \/ StarterDials(a)
      PROVE  StartInv'
  <2>1. UNCHANGED <<attempts, ioThread, crashed>>
    BY <1>4 DEF CheckClock, InitHandler, StarterDials, LH!Construct, LH!Connect
  <2>2. /\ starter[a] \in {"time", "init", "connect"}
        /\ \A b \in Attempts : b # a => starter'[b] = starter[b]
    BY <1>4 DEF CheckClock, InitHandler, StarterDials
  <2> QED
    BY <1>0, <2>1, <2>2
<1>5. ASSUME NEW a \in Attempts, StarterAssigns(a) PROVE StartInv'
  <2>1. /\ UNCHANGED attempts /\ starter[a] = "dialled" /\ starter'[a] = "ended"
        /\ \A b \in Attempts : b # a => starter'[b] = starter[b]
    BY <1>5 DEF StarterAssigns
  <2>2. crashed' => ioThread # "none"
    BY <1>5 DEF StarterAssigns, Assigns, LH!StartIoThread
  <2>3. crashed' => \E b \in Attempts : b # a /\ starter[b] = "ended"
    BY <2>1, <2>2
  <2> QED
    BY <1>0, <2>1, <2>3
<1>6. ASSUME NEW c \in Attempts, Opened(c) \/ DialFailed(c) \/ Closed(c) PROVE StartInv'
  BY <1>2, <1>6 DEF Opened, DialFailed, Closed, LH!OnOpen, LH!OnFail, LH!OnClose
<1>7. ASSUME NEW c \in Attempts, Retries(c) PROVE StartInv'
  BY <1>2, <1>7 DEF Retries, LH!Reconnect, LH!StopService, LH!TestJoinable,
                    LH!JoinIoThread, LH!JoinThrows, LH!ResetAndRedial
<1>8. CASE IoReturns
  BY <1>2, <1>8 DEF IoReturns, LH!RunReturns
<1>9. ASSUME NEW c \in Attempts, Handle(c) \/ DiscardExpired(c) PROVE StartInv'
  BY <1>2, <1>9 DEF Handle, DiscardExpired, HandleHSKey, LoginAccepted, LoginRejected,
              HandleHandshake, HandlePong, HandleToken
<1>10. CASE InHandler \/ HeartbeatExpires \/ UNCHANGED vars
  BY <1>2, <1>10 DEF InHandler, ReportClosed, StartSession, AnnounceSuccess,
                     HeartbeatExpires, vars
<1> QED
  BY <1>1, <1>3, <1>4, <1>5, <1>6, <1>7, <1>8, <1>9, <1>10 DEF Next, Dialog, Starter

\* std::terminate takes two starters, so a process survives its first login,
\* for every number of polls and every limit of retries.
THEOREM FirstSurvives == Spec => []FirstLoginSurvives
<1>1. Init => StartInv
  BY DEF Init, StartInv, LH!Init
<1>2. StartInv => FirstLoginSurvives
  BY DEF StartInv, FirstLoginSurvives, Attempts
<1> QED
  BY <1>1, <1>2, StartStep, Flow, PTL DEF Spec

-----------------------------------------------------------------------------
(* An accepted login never stalls: the safety behind AcceptedBecomesSession *)

\* The server's reply to the handshake is on its way on connection c.
HandshakeOn(c) == s2c[c] = <<[type |-> "Handshake", key |-> 1]>>

\* While an accepted login has not become a session that the wait accepts, on a
\* connection that is up, the only one that has opened, with packets that did not
\* expire and a seed that does not leave the render config invalid: the reply to
\* the handshake is on its way or being handled, the key to read it is known, and
\* the IO thread is there to handle it, unless a retry thread has stopped it.
AcceptedGoesOn ==
  (/\ keyGen > 0 /\ ~Ready /\ ~InvalidConfig
   /\ LHP!Sole /\ connected /\ ~dropped /\ ~crashed) =>
    /\ hsKey /\ conn[handle] = "open"
    /\ io = "configured" \/ (io = "idle" /\ HandshakeOn(handle))
    /\ \/ ioThread = "running" /\ ~stopped
       \/ \E d \in Attempts : LHP!HasStopped(d)

\* An open connection is served in the composed system as well.
LEMMA ChannelServed == Spec => []LHP!OpenIsServed
<1>1. LHP!Spec => []LHP!OpenIsServed
  BY LHP!OpenStaysServed, VerifySessionAssumption
<1>2. LH!Spec => LHP!Spec
  BY SameChannel, PTL DEF LH!Spec, LHP!Spec
<1> QED
  BY ComposesChannel, <1>1, <1>2, PTL

\* In the flow, too, once every connect() has returned, a retry thread that waits
\* is answered, and a connection without a thread is found only behind a retry:
\* what the starters of several attempts do adds nothing to what one channel does.
THEOREM ChannelInFlow == Spec => [](LHP!JoinIsAnswered /\ LHP!StrandedByRetry)
<1>1. LHP!Spec => [](LHP!JoinIsAnswered /\ LHP!StrandedByRetry)
  BY LHP!JoinsEnd, LHP!OnlyRetriesStrand, VerifySessionAssumption, PTL
<1>2. LH!Spec => LHP!Spec
  BY SameChannel, PTL DEF LH!Spec, LHP!Spec
<1> QED
  BY ComposesChannel, <1>1, <1>2, PTL

\* Nothing but the server, an invalid seed, a lost connection, an expired packet,
\* a retry that stops the service, a second connection or the end of the process
\* stands between an accepted login and its session.
THEOREM AcceptedNeverStalls == Spec => []AcceptedGoesOn
<1>1. Channels /\ LHP!OpenIsServed /\ FlowInv /\ Inv => AcceptedGoesOn
  <2> SUFFICES ASSUME Channels, LHP!OpenIsServed, FlowInv, Inv,
                      keyGen > 0, ~Ready, ~InvalidConfig,
                      LHP!Sole, connected, ~dropped, ~crashed
               PROVE  /\ hsKey /\ conn[handle] = "open"
                      /\ io = "configured" \/ (io = "idle" /\ HandshakeOn(handle))
                      /\ \/ ioThread = "running" /\ ~stopped
                         \/ \E d \in Attempts : LHP!HasStopped(d)
    BY DEF AcceptedGoesOn
  <2>1. conn[handle] = "open" /\ handle \in Attempts
    BY SendsOnOpen
  <2>2. \/ ioThread = "running" /\ ~stopped
        \/ \E d \in Attempts : LHP!HasStopped(d)
    <3>1. LHP!Conns = Attempts
      BY DEF LHP!Conns, Attempts
    <3> QED
      BY <2>1, <3>1 DEF LHP!OpenIsServed
  <2>3. OrderInv /\ Conversation /\ keyGen = 1
    BY DEF Inv, OrderInv, Conversation, KeyInv
  <2>4. CASE cipher = NoCipher
    <3>1. Talks(handle) /\ ~Quiet(handle)
      BY <2>1, <2>3, <2>4 DEF Conversation, GoesOn
    <3>2. PICK m \in Packets : s2c[handle] = <<m>> /\ Fits(m)
      BY <3>1 DEF Talks
    <3>3. m = [type |-> "Handshake", key |-> 1]
      BY <2>3, <2>4, <3>2 DEF Fits, Packets, PacketTypes, Keyed, Agreed, Derived, NoCipher
    <3> QED
      BY <2>1, <2>2, <2>3, <3>1, <3>2, <3>3 DEF Talks, OrderInv, HandshakeOn
  <2>5. CASE cipher # NoCipher
    <3>1. config /\ (active \/ io = "configured")
      BY <2>3, <2>5 DEF Conversation, KeyInv, InvalidConfig
    <3> QED
      BY <2>1, <2>2, <2>3, <3>1 DEF Ready, OrderInv
  <2> QED
    BY <2>4, <2>5
<1> QED
  BY <1>1, Inductive, ChannelServed, PTL
=============================================================================
