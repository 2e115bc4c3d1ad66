------------------------- MODULE MessageChannel_proofs -------------------------
(***************************************************************************)
(* The safety of the heartbeat, for every limit, every set of ids and      *)
(* every number of repeated tokens.                                        *)
(***************************************************************************)
EXTENDS MessageChannel, FiniteSetTheorems, WellFoundedInduction, TLAPS

\* A heartbeat that is being inserted is still the first one on the wire.
BeatAtHead == io = "inserting" => wire # <<>>

\* The channel dials once; the keepalive thread starts when it opens.
DialsOnce ==
  /\ connects = 0 => conn = "none"
  /\ conn \in {"none", "dialing"} => keeper = "none" /\ ~timedOut
  /\ conn = "gone" => ~connected

\* From reset() on, the last heartbeat is older than the connection by no more
\* than the device's clock is behind; so is what the thread has read of it.
BeatIsRecent ==
  /\ openAge >= 0
  /\ keeper \notin {"none", "reset"} => lastActive <= openAge + Behind
  /\ keeper = "compare" => seen <= openAge + Behind
  /\ NoEarlyTimeout

NoErrors == lastActive # Bad /\ seen # Bad

IInv == TypeOK /\ BeatAtHead /\ DialsOnce /\ IdsBounded

-----------------------------------------------------------------------------
(* Times and sets of ids *)

\* What the clocks differ by, in one direction or the other.
LEMMA SkewNumbers == /\ KEEPALIVE \in Nat /\ SKEW \in Int /\ Behind \in Nat /\ Ahead \in Nat
                     /\ -Ahead <= SKEW /\ SKEW <= Behind /\ Drift = Behind + Ahead
  BY MessageChannelAssumption DEF Behind, Ahead, Drift

\* Ages are numbers up to Old, and the error value comes after them.
LEMMA TimeNumbers == /\ Old \in Nat /\ Bad \in Nat
                     /\ Old = KEEPALIVE + Behind + 1 /\ Bad = Old + 1
                     /\ \A t \in Times : t \in Int /\ -Ahead <= t /\ t <= Bad
                     /\ \A t \in Ages : t \in Times /\ t <= Old
                     /\ \A t \in Times : t # Bad => t \in Ages
                     /\ 0 \in Ages /\ SKEW \in Ages /\ Old \in Ages
  BY SkewNumbers DEF Old, Bad, Ages, Times

\* The clock answers with a time: the server's or the device's, unless it may fail.
LEMMA ClockOK == /\ Clock \subseteq Times
                 /\ ~ClockMayFail => Clock = {0, SKEW}
  BY TimeNumbers DEF Clock, Times

\* An age that grows stays an age and does not shrink, and two ages that grow
\* stay as far apart as they may be.
LEMMA OlderOK ==
  /\ \A t \in Times : Older(t) \in Times
  /\ \A t \in Ages : Older(t) \in Ages /\ t <= Older(t)
  /\ \A s, t \in Ages : s <= t + Behind => Older(s) <= Older(t) + Behind
<1>. USE SkewNumbers, TimeNumbers
<1>1. \A t \in Ages : Older(t) \in Ages /\ t <= Older(t)
  BY DEF Older, Ages
<1>2. Older(Bad) = Bad
  BY DEF Older
<1>3. \A s, t \in Ages : s <= t + Behind => Older(s) <= Older(t) + Behind
  BY DEF Older, Ages
<1>. QED BY <1>1, <1>2, <1>3 DEF Times

\* A set of numbers that is not empty has a smallest one.
LEMMA Smallest ==
  ASSUME NEW S \in SUBSET Nat, S # {}
  PROVE  \E m \in S : \A y \in S : ~(y < m)
<1>1. PICK m \in S : \A y \in S : <<y, m>> \notin OpToRel(<, Nat)
  BY NatLessThanWellFounded, WFMin
<1>2. \A y \in S : ~(y < m)
  BY <1>1 DEF OpToRel
<1>. QED BY <1>2

\* Pruning one id too many brings the set back to the limit: the smallest id
\* goes, since the smaller half is not empty.
LEMMA PrunedBounded ==
  ASSUME NEW S \in SUBSET Ids, Cardinality(S) <= MAX_IDS + 1
  PROVE  Pruned(S) \subseteq S /\ Cardinality(Pruned(S)) <= MAX_IDS
<1>1. IsFiniteSet(S) /\ Cardinality(S) \in Nat /\ MAX_IDS \in Nat \ {0}
  BY MessageChannelAssumption, FS_Subset, FS_CardinalityType
<1>2. CASE ~(Cardinality(S) > MAX_IDS)
  BY <1>1, <1>2 DEF Pruned
<1>3. CASE Cardinality(S) > MAX_IDS
  <2>1. Cardinality(S) = MAX_IDS + 1 /\ Cardinality(S) \div 2 >= 1
    BY <1>1, <1>3
  <2>2. S # {}
    BY <2>1, <1>1, FS_EmptySet
  <2>3. PICK m \in S : \A y \in S : ~(y < m)
    BY <2>2, Smallest, MessageChannelAssumption
  <2>4. {y \in S : y < m} = {}
    BY <2>3
  <2>5. Cardinality({y \in S : y < m}) = 0
    BY <2>4, FS_EmptySet
  <2>6. Pruned(S) = {x \in S : Cardinality({y \in S : y < x}) >= Cardinality(S) \div 2}
    BY <1>3 DEF Pruned
  <2>7. m \notin Pruned(S)
    <3>1. ~(0 >= Cardinality(S) \div 2)
      BY <2>1, <1>1
    <3>. QED BY <2>5, <2>6, <3>1
  <2>8. Pruned(S) \subseteq S \ {m}
    BY <2>6, <2>7
  <2>9. IsFiniteSet(S \ {m}) /\ Cardinality(S \ {m}) = MAX_IDS
    BY <1>1, <2>1, <2>3, FS_RemoveElement
  <2>. QED BY <2>8, <2>9, FS_Subset
<1>. QED BY <1>2, <1>3

-----------------------------------------------------------------------------
(* Types and bounds *)

\* The inductive invariant holds when the process starts.
LEMMA InitHolds == Init => IInv /\ BeatIsRecent /\ NoErrors
<1>. SUFFICES ASSUME Init PROVE IInv /\ BeatIsRecent /\ NoErrors
  OBVIOUS
<1>1. StageOK
  BY MessageChannelAssumption DEF Init, StageOK
<1>5. Flags /\ BeatAtHead /\ DialsOnce
  BY DEF Init, Flags, BeatAtHead, DialsOnce
<1>2. TimesOK /\ BeatIsRecent /\ NoErrors
  BY SkewNumbers, TimeNumbers DEF Init, TimesOK, BeatIsRecent, NoErrors, NoEarlyTimeout
<1>3. BeatsOK
  BY DEF Init, BeatsOK
<1>4. IdsBounded
  BY FS_EmptySet, MessageChannelAssumption DEF Init, IdsBounded
<1>. QED BY <1>1, <1>2, <1>3, <1>4, <1>5 DEF IInv, TypeOK

\* Every step keeps the threads and the connection at one of their places.
LEMMA StageInductive ==
  ASSUME StageOK, [Next]_vars
  PROVE  StageOK'
<1>. USE DEF StageOK
<1>1. CASE Connect
  BY <1>1, MessageChannelAssumption DEF Connect
<1>2. CASE OnOpen \/ OnFail \/ OnClose
  BY <1>2 DEF OnOpen, OnFail, OnClose
<1>3. CASE HandleBeat \/ InsertId \/ Stamp
  BY <1>3 DEF HandleBeat, InsertId, Stamp, connVars
<1>4. CASE Reset \/ CheckConnected \/ SendAndRead \/ Compare
  BY <1>4 DEF Reset, CheckConnected, SendAndRead, Compare, At, connVars
<1>5. CASE CloseChannel \/ ClearIds \/ Wake
  BY <1>5 DEF CloseChannel, ClearIds, Wake, At, connVars
<1>6. CASE (\E id \in Ids : ServerBeats(id)) \/ Tick
  BY <1>6 DEF ServerBeats, Tick, connVars
<1>7. CASE UNCHANGED vars
  BY <1>7 DEF vars, connVars
<1>. QED BY <1>1, <1>2, <1>3, <1>4, <1>5, <1>6, <1>7 DEF Next, Keeper

\* Every step writes truth values to the flags.
LEMMA FlagsInductive ==
  ASSUME Flags, [Next]_vars
  PROVE  Flags'
<1>. USE DEF Flags
<1>1. CASE Connect
  BY <1>1 DEF Connect
<1>2. CASE OnOpen \/ OnFail \/ OnClose
  BY <1>2 DEF OnOpen, OnFail, OnClose
<1>3. CASE HandleBeat \/ InsertId \/ Stamp
  BY <1>3 DEF HandleBeat, InsertId, Stamp, connVars
<1>4. CASE Reset \/ CheckConnected \/ SendAndRead \/ Compare
  BY <1>4 DEF Reset, CheckConnected, SendAndRead, Compare, connVars
<1>5. CASE CloseChannel \/ Wake
  BY <1>5 DEF CloseChannel, Wake, connVars
<1>6. CASE ClearIds
  BY <1>6 DEF ClearIds
<1>7. CASE (\E id \in Ids : ServerBeats(id)) \/ Tick
  BY <1>7 DEF ServerBeats, Tick, connVars
<1>8. CASE UNCHANGED vars
  BY <1>8 DEF vars, connVars
<1>. QED BY <1>1, <1>2, <1>3, <1>4, <1>5, <1>6, <1>7, <1>8 DEF Next, Keeper

\* Every step keeps times times.
LEMMA TimesInductive ==
  ASSUME TimesOK, [Next]_vars
  PROVE  TimesOK'
<1>. USE DEF TimesOK
<1>1. CASE Stamp \/ Reset
  BY <1>1, ClockOK DEF Stamp, Reset
<1>2. CASE OnOpen
  BY <1>2, TimeNumbers DEF OnOpen, beatVars
<1>3. CASE SendAndRead
  BY <1>3 DEF SendAndRead, beatVars
<1>4. CASE Tick
  BY <1>4, OlderOK DEF Tick
<1>5. CASE \/ Connect \/ OnFail \/ OnClose \/ HandleBeat \/ InsertId \/ CheckConnected
           \/ Compare \/ CloseChannel \/ ClearIds \/ Wake
           \/ (\E id \in Ids : ServerBeats(id)) \/ UNCHANGED vars
  BY <1>5 DEF Connect, OnFail, OnClose, HandleBeat, InsertId, CheckConnected, Compare,
       CloseChannel, ClearIds, Wake, ServerBeats, vars, beatVars
<1>. QED BY <1>1, <1>2, <1>3, <1>4, <1>5 DEF Next, Keeper

\* Every step keeps the id set bounded, prunings and clears included.
LEMMA BeatsInductive ==
  ASSUME BeatsOK, BeatAtHead, IdsBounded, [Next]_vars
  PROVE  BeatsOK' /\ BeatAtHead' /\ IdsBounded'
<1>. USE DEF BeatsOK, BeatAtHead, IdsBounded
<1>1. CASE InsertId
  <2>1. Head(wire) \in Ids /\ Tail(wire) \in Seq(Ids)
    BY <1>1 DEF InsertId
  <2>2. IsFiniteSet(ids) /\ Cardinality(ids) \in Nat /\ MAX_IDS \in Nat
    BY FS_Subset, FS_CardinalityType, MessageChannelAssumption
  <2>3. Cardinality(ids \cup {Head(wire)}) <= MAX_IDS + 1
    <3>1. Cardinality(ids \cup {Head(wire)}) \in {Cardinality(ids), Cardinality(ids) + 1}
      BY <2>2, FS_AddElement
    <3>. QED BY <2>2, <3>1
  <2>4. /\ Pruned(ids \cup {Head(wire)}) \subseteq Ids
        /\ Cardinality(Pruned(ids \cup {Head(wire)})) <= MAX_IDS
    BY <2>1, <2>3, PrunedBounded
  <2>. QED BY <1>1, <2>1, <2>4 DEF InsertId
<1>2. CASE ClearIds
  <2>1. ids' = ids \/ ids' = {}
    BY <1>2 DEF ClearIds
  <2>2. Cardinality({}) <= MAX_IDS
    BY FS_EmptySet, MessageChannelAssumption
  <2>. QED BY <1>2, <2>1, <2>2 DEF ClearIds
<1>3. CASE OnClose
  BY <1>3 DEF OnClose, beatVars
<1>4. CASE HandleBeat
  BY <1>4 DEF HandleBeat, beatVars
<1>5. ASSUME NEW id \in Ids, ServerBeats(id)
      PROVE  BeatsOK' /\ BeatAtHead' /\ IdsBounded'
  <2>1. wire' \in Seq(Ids) /\ wire' # <<>>
    BY <1>5 DEF ServerBeats
  <2>. QED BY <1>5, <2>1 DEF ServerBeats, beatVars
<1>6. CASE \/ Connect \/ OnOpen \/ OnFail \/ Stamp \/ Reset \/ CheckConnected \/ SendAndRead
           \/ Compare \/ CloseChannel \/ Wake \/ Tick \/ UNCHANGED vars
  BY <1>6 DEF Connect, OnOpen, OnFail, Stamp, Reset, CheckConnected, SendAndRead, Compare,
       CloseChannel, Wake, Tick, vars, beatVars
<1>. QED BY <1>1, <1>2, <1>3, <1>4, <1>5, <1>6 DEF Next, Keeper

\* Every step keeps to one connection, dialled once.
LEMMA DialsInductive ==
  ASSUME StageOK, DialsOnce, [Next]_vars
  PROVE  DialsOnce'
<1>. USE DEF DialsOnce, StageOK
<1>1. CASE Connect
  BY <1>1 DEF Connect
<1>2. CASE OnOpen \/ OnFail \/ OnClose
  BY <1>2 DEF OnOpen, OnFail, OnClose
<1>3. CASE HandleBeat \/ InsertId \/ Stamp
  BY <1>3 DEF HandleBeat, InsertId, Stamp, connVars
<1>4. CASE Reset \/ CheckConnected \/ SendAndRead
  BY <1>4 DEF Reset, CheckConnected, SendAndRead, At, connVars
<1>5. CASE Compare
  BY <1>5 DEF Compare, At, connVars
<1>6. CASE CloseChannel
  BY <1>6 DEF CloseChannel, At
<1>7. CASE ClearIds \/ Wake
  <2>1. keeper \in {"prune", "sleep"} /\ UNCHANGED <<conn, connected, connects, timedOut>>
    BY <1>7 DEF ClearIds, Wake, At, connVars
  <2>. QED BY <2>1
<1>8. CASE (\E id \in Ids : ServerBeats(id)) \/ Tick
  BY <1>8 DEF ServerBeats, Tick, connVars
<1>9. CASE UNCHANGED vars
  BY <1>9 DEF vars, connVars
<1>. QED BY <1>1, <1>2, <1>3, <1>4, <1>5, <1>6, <1>7, <1>8, <1>9 DEF Next, Keeper

\* Every reachable state satisfies the inductive invariant: the types, the
\* bound of the id set, and one connection that is dialled once.
THEOREM Inductive == Spec => []IInv
<1>1. IInv /\ [Next]_vars => IInv'
  BY StageInductive, FlagsInductive, TimesInductive, BeatsInductive, DialsInductive
     DEF IInv, TypeOK
<1>. QED BY InitHolds, <1>1, PTL DEF Spec

\* Every reachable state is well typed.
THEOREM TypeCorrect == Spec => []TypeOK
<1>1. IInv => TypeOK
  BY DEF IInv
<1>. QED BY <1>1, Inductive, PTL

\* The id set never holds more ids than its limit, whatever the order of
\* insertions, prunings and unlocked clears (S2CPacketKeepalive.cpp:26-36).
THEOREM IdsStayBounded == Spec => []IdsBounded
<1>1. IInv => IdsBounded
  BY DEF IInv
<1>. QED BY <1>1, Inductive, PTL

-----------------------------------------------------------------------------
(* Timeouts *)

\* A clock that cannot fail leaves no error value behind.
LEMMA ErrorsInductive ==
  ASSUME ~ClockMayFail, TimesOK, NoErrors, [Next]_vars
  PROVE  NoErrors'
<1>. USE DEF NoErrors
<1>1. CASE Stamp \/ Reset
  BY <1>1, ClockOK, TimeNumbers DEF Stamp, Reset
<1>2. CASE SendAndRead
  BY <1>2 DEF SendAndRead, beatVars
<1>3. CASE Tick
  <2>1. \A t \in Ages : Older(t) # Bad
    BY OlderOK, TimeNumbers
  <2>2. lastActive \in Ages /\ seen \in Ages
    BY TimeNumbers DEF TimesOK
  <2>. QED BY <1>3, <2>1, <2>2 DEF Tick
<1>4. CASE \/ Connect \/ OnOpen \/ OnFail \/ OnClose \/ HandleBeat \/ InsertId
           \/ CheckConnected \/ Compare \/ CloseChannel \/ ClearIds \/ Wake
           \/ (\E id \in Ids : ServerBeats(id)) \/ UNCHANGED vars
  BY <1>4 DEF Connect, OnOpen, OnFail, OnClose, HandleBeat, InsertId, CheckConnected,
       Compare, CloseChannel, ClearIds, Wake, ServerBeats, vars, beatVars
<1>. QED BY <1>1, <1>2, <1>3, <1>4 DEF Next, Keeper

\* A comparison that expires has a connection old enough: the time read is no
\* older than the connection but for the drift, and no further in the future.
LEMMA ExpiredIsLate ==
  ASSUME NEW then \in Ages, NEW now \in {0, SKEW}, NEW a \in Nat,
         then <= a + Behind, Expired(then, now)
  PROVE  a + Drift > KEEPALIVE
<1>1. /\ then \in Int /\ now \in Int /\ then # Bad /\ now # Bad
      /\ -Ahead <= then /\ -Ahead <= now /\ now <= Behind
  BY SkewNumbers, TimeNumbers
<1>2. then - now > KEEPALIVE \/ now - then > KEEPALIVE
  BY <1>1 DEF Expired
<1>. QED BY <1>1, <1>2, SkewNumbers

\* What is late stays late.
LEMMA LaterStaysLate ==
  ASSUME NEW a \in Int, NEW b \in Int, NEW d \in Nat, NEW k \in Nat, a + d > k, a <= b
  PROVE  b + d > k
OBVIOUS

\* Every step keeps the last heartbeat as recent as the opening of the channel,
\* but for what the clocks differ by.
LEMMA RecentInductive ==
  ASSUME ~ClockMayFail, TimesOK, NoErrors, DialsOnce, BeatIsRecent, [Next]_vars
  PROVE  BeatIsRecent'
<1>. USE DEF BeatIsRecent, NoEarlyTimeout
<1>0. UNCHANGED <<Behind, Drift>>
  BY DEF Behind, Drift, Ahead
<1>1. /\ lastActive \in Ages /\ seen \in Ages /\ openAge \in Ages
      /\ lastActive \in Int /\ seen \in Int /\ openAge \in Nat
  BY TimeNumbers DEF TimesOK, NoErrors, BeatIsRecent
<1>2. CASE Stamp \/ Reset
  <2>1. lastActive' <= openAge + Behind
    BY <1>1, <1>2, ClockOK, SkewNumbers DEF Stamp, Reset
  <2>2. UNCHANGED <<seen, openAge, timedOut>>
    BY <1>2 DEF Stamp, Reset
  <2>3. keeper' = "compare" => keeper = "compare"
    BY <1>2 DEF Stamp, Reset, At
  <2>. QED BY <1>0, <2>1, <2>2, <2>3
<1>3. CASE OnOpen
  BY <1>0, <1>3 DEF OnOpen, DialsOnce
<1>4. CASE SendAndRead
  BY <1>0, <1>4 DEF SendAndRead, At, beatVars
<1>5. CASE Compare
  <2>1. keeper = "compare" /\ UNCHANGED <<lastActive, seen, openAge>>
    BY <1>5 DEF Compare, At, beatVars
  <2>2. keeper' \in {"close", "prune"}
    BY <1>5 DEF Compare, At
  <2>3. CASE timedOut' = timedOut
    BY <1>0, <2>1, <2>2, <2>3
  <2>4. ASSUME NEW t \in {0, SKEW}, Expired(seen, t)
        PROVE  BeatIsRecent'
    <3>1. openAge + Drift > KEEPALIVE
      BY <1>1, <2>1, <2>4, ExpiredIsLate
    <3>. QED BY <1>0, <2>1, <2>2, <3>1
  <2>. QED BY <1>5, <2>3, <2>4, ClockOK DEF Compare
<1>6. CASE Tick
  <2>1. /\ lastActive' = Older(lastActive) /\ seen' = Older(seen)
        /\ openAge' = Older(openAge) /\ UNCHANGED <<keeper, timedOut>>
    BY <1>6 DEF Tick
  <2>2. /\ openAge' \in Int /\ openAge <= openAge'
        /\ lastActive <= openAge + Behind => lastActive' <= openAge' + Behind
        /\ seen <= openAge + Behind => seen' <= openAge' + Behind
    BY <1>1, <2>1, OlderOK, TimeNumbers
  <2>3. Drift \in Nat /\ KEEPALIVE \in Nat
    BY SkewNumbers
  <2>4. openAge' >= 0
    BY <1>1, <2>2
  <2>5. ASSUME timedOut PROVE openAge' + Drift > KEEPALIVE
    <3>1. openAge + Drift > KEEPALIVE
      BY <2>5
    <3>2. openAge \in Int /\ openAge' \in Int /\ openAge <= openAge'
      BY <1>1, <2>2
    <3>. QED BY <2>3, <3>1, <3>2, LaterStaysLate
  <2>. QED BY <1>0, <2>1, <2>2, <2>4, <2>5
<1>7. CASE CheckConnected \/ CloseChannel \/ ClearIds \/ Wake
  <2>1. UNCHANGED <<lastActive, seen, openAge, timedOut>>
    BY <1>7 DEF CheckConnected, CloseChannel, ClearIds, Wake, beatVars
  <2>2. keeper \notin {"none", "reset"} /\ keeper' # "compare"
    BY <1>7 DEF CheckConnected, CloseChannel, ClearIds, Wake, At
  <2>. QED BY <1>0, <2>1, <2>2
<1>8. CASE \/ Connect \/ OnFail \/ OnClose \/ HandleBeat \/ InsertId
           \/ (\E id \in Ids : ServerBeats(id)) \/ UNCHANGED vars
  <2>1. UNCHANGED <<lastActive, seen, openAge, timedOut, keeper>>
    BY <1>8 DEF Connect, OnFail, OnClose, HandleBeat, InsertId, ServerBeats, vars, beatVars
  <2>. QED BY <1>0, <2>1
<1>. QED BY <1>2, <1>3, <1>4, <1>5, <1>6, <1>7, <1>8 DEF Next, Keeper

\* While getTime() answers with a time at all, the server's or after three
\* exceptions the device's, no channel is given up for a missing heartbeat before
\* it has been open for longer than the limit less what the two clocks differ by:
\* reset() gives every connection its grace (MessageHandler.cpp:57-83,
\* DateTimeUtil.cpp:20-34).
THEOREM GraceIsGiven ==
  ASSUME ~ClockMayFail
  PROVE  Spec => []NoEarlyTimeout
<1>. DEFINE J == IInv /\ NoErrors /\ BeatIsRecent
<1>1. Init => J
  BY InitHolds
<1>2. J /\ [Next]_vars => J'
  BY StageInductive, FlagsInductive, TimesInductive, BeatsInductive, DialsInductive,
     ErrorsInductive, RecentInductive
  DEF IInv, TypeOK
<1>3. J => NoEarlyTimeout
  BY DEF BeatIsRecent
<1>. QED BY <1>1, <1>2, <1>3, PTL DEF Spec

\* After the peer has closed the connection the keepalive thread leaves at its
\* next check (MessageHandler.cpp:59-66).
THEOREM KeeperLeaves == Spec => KeeperEnds
<1>1. IInv /\ [Next]_vars =>
        [conn = "gone" /\ keeper = "check" /\ keeper' # keeper => keeper' = "ended"]_vars
  <2>. SUFFICES ASSUME IInv, Next, conn = "gone", keeper = "check", keeper' # keeper
                PROVE  keeper' = "ended"
    OBVIOUS
  <2>1. ~connected
    BY DEF IInv, DialsOnce
  <2>2. CheckConnected
    BY DEF Next, Keeper, Connect, OnOpen, OnFail, OnClose, HandleBeat, InsertId, Stamp,
       Reset, SendAndRead, Compare, CloseChannel, ClearIds, Wake, At, ServerBeats, Tick
  <2>. QED BY <2>1, <2>2 DEF CheckConnected, At
<1>. QED BY <1>1, Inductive, PTL DEF Spec, KeeperEnds

\* Every step leaves an open connection watched: the thread starts with it, and
\* only a lowered flag or its own close() ends the thread.
LEMMA WatchInductive ==
  ASSUME StageOK, Flags, DialsOnce, OpenIsWatched, [Next]_vars
  PROVE  OpenIsWatched'
<1>. USE DEF OpenIsWatched
<1>1. CASE Connect
  BY <1>1 DEF Connect, DialsOnce
<1>2. CASE OnOpen
  BY <1>2 DEF OnOpen, DialsOnce
<1>3. CASE OnFail \/ OnClose
  BY <1>3 DEF OnFail, OnClose, DialsOnce
<1>4. CASE HandleBeat \/ InsertId \/ Stamp
  BY <1>4 DEF HandleBeat, InsertId, Stamp, connVars
<1>5. CASE Reset \/ CheckConnected \/ SendAndRead \/ Wake
  BY <1>5 DEF Reset, CheckConnected, SendAndRead, Wake, At, connVars
<1>6. CASE Compare
  BY <1>6 DEF Compare, At, connVars
<1>7. CASE CloseChannel
  BY <1>7 DEF CloseChannel, At, DialsOnce, StageOK, Flags
<1>8. CASE ClearIds
  BY <1>8 DEF ClearIds, At
<1>9. CASE (\E id \in Ids : ServerBeats(id)) \/ Tick
  BY <1>9 DEF ServerBeats, Tick, connVars
<1>10. CASE UNCHANGED vars
  BY <1>10 DEF vars, connVars
<1>. QED BY <1>1, <1>2, <1>3, <1>4, <1>5, <1>6, <1>7, <1>8, <1>9, <1>10 DEF Next, Keeper

\* No open connection is ever without its keepalive thread, and no announced
\* timeout leaves one open behind it: the safety on which the detection of
\* silence rests (MessageHandler.cpp:57-83, close()).
THEOREM OpenStaysWatched == Spec => []OpenIsWatched
<1>1. Init => OpenIsWatched
  BY DEF Init, OpenIsWatched
<1>2. IInv /\ OpenIsWatched /\ [Next]_vars => OpenIsWatched'
  BY WatchInductive DEF IInv, TypeOK
<1>. QED BY <1>1, <1>2, Inductive, PTL DEF Spec

-----------------------------------------------------------------------------
(* What is forgotten *)

\* Below both limits nothing is pruned or cleared away: an id stays known.
KeepsBelowLimits ==
  [][Cardinality(ids) < MAX_IDS /\ Cardinality(ids) < CLEAR_AT => ids \subseteq ids']_vars

\* While fewer ids are known than either limit, none is forgotten: KeepsRecentIds
\* holds as far as the lower limit, and fails where the keepalive thread clears
\* the set below the limit of the pruning (S2CPacketKeepalive.cpp:26-36,
\* MessageHandler.cpp:85-87).
THEOREM KeptBelowLimits == Spec => KeepsBelowLimits
<1>1. IInv /\ [Next]_vars =>
        [Cardinality(ids) < MAX_IDS /\ Cardinality(ids) < CLEAR_AT => ids \subseteq ids']_vars
  <2>. SUFFICES ASSUME IInv, Next, Cardinality(ids) < MAX_IDS, Cardinality(ids) < CLEAR_AT
                PROVE  ids \subseteq ids'
    OBVIOUS
  <2>0. /\ ids \subseteq Ids /\ IsFiniteSet(ids) /\ Cardinality(ids) \in Nat
        /\ MAX_IDS \in Nat /\ CLEAR_AT \in Nat
    BY FS_Subset, FS_CardinalityType, MessageChannelAssumption DEF IInv, TypeOK, BeatsOK
  <2>1. CASE InsertId
    <3>1. Cardinality(ids \cup {Head(wire)}) \in {Cardinality(ids), Cardinality(ids) + 1}
      BY <2>0, FS_AddElement
    <3>2. ~(Cardinality(ids \cup {Head(wire)}) > MAX_IDS)
      BY <2>0, <3>1
    <3>3. Pruned(ids \cup {Head(wire)}) = ids \cup {Head(wire)}
      BY <3>2 DEF Pruned
    <3>. QED BY <2>1, <3>3 DEF InsertId
  <2>2. CASE ClearIds
    <3>1. ~(Cardinality(ids) >= CLEAR_AT)
      BY <2>0
    <3>. QED BY <2>2, <3>1 DEF ClearIds
  <2>3. CASE ~InsertId /\ ~ClearIds
    <3>1. UNCHANGED ids
      BY <2>3 DEF Next, Keeper, Connect, OnOpen, OnFail, OnClose, HandleBeat, Stamp, Reset,
         CheckConnected, SendAndRead, Compare, CloseChannel, Wake, ServerBeats, Tick, beatVars
    <3>. QED BY <3>1
  <2>. QED BY <2>1, <2>2, <2>3
<1>. QED BY <1>1, Inductive, PTL DEF Spec, KeepsBelowLimits
=============================================================================
