----------------------------- MODULE Blink_proofs -----------------------------
(***************************************************************************)
(* The queue of held packets implements PacketGate, for every set of       *)
(* packets, every number of toggling threads and every bound.              *)
(***************************************************************************)
EXTENDS Blink, SequenceTheorems, TLAPS

USE DEF queue

\* While its event is on the way, a packet that was not cancelled is not in
\* the queue ...
NotQueued == (game \in SendStages /\ ~cancelled) => cur \notin Range(packets)

\* ... and nothing cancels it before the queue takes it.
NotYetCancelled == game \in {"blink", "dispatch", "list"} => ~cancelled

\* A packet on its way to the queue finds room there.
Room ==
  /\ game = "blink" => Len(packets) < MaxHeld \/ ~blink \/ dispatch
  /\ game = "dispatch" => Len(packets) < MaxHeld \/ dispatch
  /\ game = "list" => Len(packets) < MaxHeld

\* Between its sending and its reset, and only there, the whole queue is sent.
AllFlushed == flushed = IF game \in {"lower", "clear"} THEN Len(packets) ELSE 0

Queue == QueueOK /\ EventOK /\ NotQueued /\ NotYetCancelled /\ Room /\ AllFlushed

IInv == TypeOK /\ NotQueued /\ NotYetCancelled /\ Room /\ AllFlushed

\* The empty queue is a queue, and there is room in it.
LEMMA EmptyQueue == <<>> \in Seq(Packets) /\ Len(<<>>) <= MaxHeld
  BY BlinkAssumption

\* The inductive invariant holds when the component is created.
LEMMA InitHolds == Init => IInv
<1>. SUFFICES ASSUME Init PROVE IInv
  OBVIOUS
<1>1. QueueOK
  BY EmptyQueue, BlinkAssumption DEF Init, QueueOK
<1>2. EventOK
  BY DEF Init, EventOK, SendStages
<1>3. ModulesOK
  BY DEF Init, ModulesOK
<1>4. Flags
  BY DEF Init, Flags
<1>5. NotQueued /\ NotYetCancelled /\ Room
  BY DEF Init, NotQueued, NotYetCancelled, Room, SendStages
<1>6. AllFlushed
  BY DEF Init, AllFlushed
<1>. QED BY <1>1, <1>2, <1>3, <1>4, <1>5, <1>6 DEF IInv, TypeOK

-----------------------------------------------------------------------------
(* The queue and the event, action by action *)

\* A packet that sets out is fresh, and one that may be held finds room.
LEMMA BeginSendKeeps ==
  ASSUME Queue, NEW p \in Packets, NEW k \in {"move", "join", "other"}, BeginSend(p, k)
  PROVE  Queue'
<1>0. UNCHANGED <<packets, flushed>> /\ out' = <<>>
  BY DEF BeginSend
<1>1. QueueOK'
  BY <1>0, EmptyQueue DEF Queue, QueueOK
<1>2. EventOK'
  BY BlinkAssumption DEF BeginSend, From, EventOK, SendStages
<1>3. NotQueued'
  BY DEF BeginSend, IsFresh, NotQueued, Range
<1>4. NotYetCancelled'
  BY DEF BeginSend, NotYetCancelled
<1>5. Room'
  BY DEF BeginSend, Room, From, flags
<1>6. AllFlushed'
  BY <1>0 DEF Queue, BeginSend, From, AllFlushed
<1>. QED BY <1>1, <1>2, <1>3, <1>4, <1>5, <1>6 DEF Queue

\* A join leaves its packet to be sent, and an empty queue.
LEMMA JoinKeeps ==
  ASSUME Queue, ClearOnJoin
  PROVE  Queue'
<1>0. /\ game = "join" /\ game' = "return" /\ packets' = <<>> /\ out' = <<>>
      /\ UNCHANGED <<flushed, cur, kind, cancelled>>
  BY DEF ClearOnJoin, From, sending
<1>1. QueueOK' /\ EventOK'
  BY <1>0, EmptyQueue DEF Queue, QueueOK, EventOK, SendStages
<1>2. NotQueued' /\ NotYetCancelled' /\ Room'
  BY <1>0 DEF NotQueued, NotYetCancelled, Room, Range
<1>3. AllFlushed'
  BY <1>0 DEF Queue, AllFlushed
<1>. QED BY <1>1, <1>2, <1>3 DEF Queue

\* The reads of the two flags keep the room that BeginSend has found.
LEMMA ReadKeeps ==
  ASSUME Queue, ReadBlink \/ ReadDispatch
  PROVE  Queue'
<1>1. QueueOK'
  BY EmptyQueue DEF Queue, QueueOK, ReadBlink, ReadDispatch
<1>4. EventOK'
  BY DEF Queue, EventOK, ReadBlink, ReadDispatch, From, SendStages, sending
<1>2. NotQueued' /\ NotYetCancelled'
  BY DEF Queue, ReadBlink, ReadDispatch, From, NotQueued, NotYetCancelled, SendStages, sending
<1>3. Room'
  BY DEF Queue, Room, ReadBlink, ReadDispatch, From, flags
<1>5. AllFlushed'
  BY DEF Queue, ReadBlink, ReadDispatch, From, AllFlushed
<1>. QED BY <1>1, <1>2, <1>3, <1>4, <1>5 DEF Queue

\* A packet that is queued is cancelled in the same step.
LEMMA SelectKeeps ==
  ASSUME Queue, Select
  PROVE  Queue'
<1>. USE DEF Queue, Select, From
<1>1. CASE packets' = Append(packets, cur) /\ cancelled' = TRUE
  <2>1. game = "list" /\ game' \in {"flush", "return"}
    BY <1>1 DEF Hold
  <2>2. cur \in Packets /\ Len(packets) < MaxHeld
    BY <2>1 DEF EventOK, Room, SendStages
  <2>3. packets' \in Seq(Packets) /\ Len(packets') <= MaxHeld
    BY <1>1, <2>2, BlinkAssumption DEF QueueOK
  <2>4. QueueOK' /\ EventOK'
    BY <2>1, <2>2, <2>3 DEF QueueOK, EventOK, SendStages
  <2>5. AllFlushed'
    BY <2>1 DEF AllFlushed
  <2>. QED BY <1>1, <2>1, <2>4, <2>5 DEF NotQueued, NotYetCancelled, Room
<1>2. CASE game = "list" /\ game' = "flush" /\ UNCHANGED <<packets, cancelled>>
  BY <1>2 DEF QueueOK, EventOK, NotQueued, NotYetCancelled, Room, SendStages, AllFlushed
<1>. QED BY <1>1, <1>2 DEF Hold

\* A dispatch leaves the queue and the event as the lock keeps them.
LEMMA FlushKeeps ==
  ASSUME Queue, Flush \/ LowerDispatch \/ ClearQueue
  PROVE  Queue'
<1>. USE DEF Queue, Flush, LowerDispatch, ClearQueue, From, sending
<1>0. /\ packets' \in {packets, <<>>} /\ out' \in {packets, <<>>}
      /\ flushed' \in {flushed, Len(packets), 0} /\ Len(<<>>) = 0
  OBVIOUS
<1>1. QueueOK'
  <2>1. Len(packets) \in Nat /\ Len(packets) <= MaxHeld /\ MaxHeld \in Nat
    BY BlinkAssumption, LenProperties DEF QueueOK
  <2>2. flushed' \in 0..MaxHeld
    BY <1>0, <2>1 DEF QueueOK
  <2>. QED BY <1>0, <2>2, EmptyQueue DEF QueueOK
<1>2. EventOK'
  BY DEF EventOK, SendStages
<1>3. NotQueued'
  BY DEF NotQueued, SendStages, Range
<1>4. NotYetCancelled' /\ Room'
  BY DEF NotYetCancelled, Room
<1>5. AllFlushed'
  BY <1>0 DEF AllFlushed
<1>. QED BY <1>1, <1>2, <1>3, <1>4, <1>5

\* The end of the event leaves no packet on the way.
LEMMA ReturnKeeps ==
  ASSUME Queue, Return
  PROVE  Queue'
<1>1. cur \in Packets
  BY DEF Queue, Return, From, EventOK, SendStages
<1>2. QueueOK'
  BY <1>1 DEF Queue, QueueOK, Return
<1>3. EventOK'
  BY DEF Return, From, EventOK, SendStages
<1>4. AllFlushed'
  BY DEF Queue, Return, From, AllFlushed
<1>. QED BY <1>2, <1>3, <1>4
         DEF Queue, Return, From, NotQueued, NotYetCancelled, Room, SendStages

\* A tick leaves the event alone, and the queue but for emptying it.
LEMMA TickFrame ==
  ASSUME BeginTick \/ TickStep
  PROVE  /\ game \notin SendStages /\ game' \in {"idle"} \cup TickStages
         /\ out' = <<>> /\ UNCHANGED <<cur, kind, cancelled>>
         /\ packets' = packets \/ (packets' = <<>> /\ game = "drop")
         /\ UNCHANGED flushed
  BY DEF BeginTick, TickStep, ReadStart, FirstInVoid, RaiseBlink, SetAllowPackets, Started,
         ReadWas, LowerBlink, DropOrAsk, EndHold, From, tickRest, sending, SendStages,
         TickStages

\* The tick of AntiVoid runs between two sends, so it disturbs none.
LEMMA TickKeeps ==
  ASSUME Queue, BeginTick \/ TickStep
  PROVE  Queue'
<1>1. QueueOK'
  BY TickFrame, EmptyQueue DEF Queue, QueueOK
<1>3. EventOK'
  BY TickFrame DEF Queue, EventOK, SendStages, TickStages
<1>2. game' \notin SendStages
  BY TickFrame DEF SendStages, TickStages
<1>4. AllFlushed'
  BY <1>2, TickFrame DEF Queue, AllFlushed, SendStages
<1>. QED BY <1>1, <1>2, <1>3, <1>4 DEF Queue, NotQueued, NotYetCancelled, Room, SendStages

\* Toggling threads and the player leave the queue and the event alone; the
\* flags they write are never in the way of a packet that is to be held.
LEMMA OthersFrame ==
  ASSUME \/ \E t \in Togglers : ToggleStep(t) \/ \E m \in Modules : BeginToggle(t, m)
         \/ PlayerChanges
  PROVE  /\ UNCHANGED <<packets, flushed, game, cur, kind, cancelled, out>>
         /\ blink' /\ ~blink => Len(packets) < MaxHeld \/ game = "idle"
         /\ dispatch => dispatch'
<1>. USE DEF handlerVars, flags, sending
<1>1. CASE PlayerChanges
  BY <1>1 DEF PlayerChanges
<1>2. ASSUME NEW t \in Togglers, NEW m \in Modules, BeginToggle(t, m)
      PROVE  UNCHANGED <<packets, flushed, game, cur, kind, cancelled, out, blink, dispatch>>
  BY <1>2 DEF BeginToggle
<1>3. ASSUME NEW t \in Togglers, NEW m \in Modules,
             ReadEnable(t, m) \/ WriteEnable(t, m) \/ Branch(t, m)
      PROVE  UNCHANGED <<packets, flushed, game, cur, kind, cancelled, out, blink, dispatch>>
  BY <1>3 DEF ReadEnable, WriteEnable, Branch
<1>4. ASSUME NEW t \in Togglers, BlinkOn(t)
      PROVE  /\ UNCHANGED <<packets, flushed, game, cur, kind, cancelled, out, dispatch>>
             /\ blink' /\ ~blink => Len(packets) < MaxHeld \/ game = "idle"
  BY <1>4 DEF BlinkOn
<1>5. ASSUME NEW t \in Togglers, BlinkOff(t) \/ AntiVoidOff(t)
      PROVE  /\ UNCHANGED <<packets, flushed, game, cur, kind, cancelled, out>>
             /\ blink' => blink
             /\ dispatch => dispatch'
  BY <1>5 DEF BlinkOff, AntiVoidOff
<1>. QED BY <1>1, <1>2, <1>3, <1>4, <1>5 DEF ToggleStep

\* Toggles and the player touch neither the queue nor the event; a toggle
\* that raises the flag cannot take the room of a packet on the way.
LEMMA OthersKeep ==
  ASSUME Queue,
         \/ \E t \in Togglers : ToggleStep(t) \/ \E m \in Modules : BeginToggle(t, m)
         \/ PlayerChanges
  PROVE  Queue'
<1>1. QueueOK'
  BY OthersFrame DEF Queue, QueueOK
<1>4. EventOK'
  BY OthersFrame DEF Queue, EventOK, SendStages, TickStages
<1>2. NotQueued' /\ NotYetCancelled'
  BY OthersFrame DEF Queue, NotQueued, NotYetCancelled
<1>3. Room'
  BY OthersFrame DEF Queue, Room
<1>5. AllFlushed'
  BY OthersFrame DEF Queue, AllFlushed
<1>. QED BY <1>1, <1>2, <1>3, <1>4, <1>5 DEF Queue

\* Every step keeps the queue, the event and what relates them.
LEMMA QueueInductive ==
  ASSUME Queue, [Next]_vars
  PROVE  Queue'
<1>1. CASE Send
  BY <1>1, BeginSendKeeps DEF Send
<1>2. CASE SendStep
  BY <1>2, JoinKeeps, ReadKeeps, SelectKeeps, FlushKeeps, ReturnKeeps DEF SendStep
<1>3. CASE BeginTick \/ TickStep
  BY <1>3, TickKeeps
<1>4. CASE \/ \E t \in Togglers : ToggleStep(t) \/ \E m \in Modules : BeginToggle(t, m)
           \/ PlayerChanges
  BY <1>4, OthersKeep
<1>5. CASE UNCHANGED vars
  BY <1>5 DEF vars, sending, flags, Queue, QueueOK, EventOK, SendStages, TickStages,
                 NotQueued, NotYetCancelled, Room, AllFlushed
<1>. QED BY <1>1, <1>2, <1>3, <1>4, <1>5 DEF Next

-----------------------------------------------------------------------------
(* The flags and the toggling threads *)

\* Every step keeps the places of the toggling threads.
LEMMA ModulesInductive ==
  ASSUME ModulesOK, [Next]_vars
  PROVE  ModulesOK'
<1>1. CASE UNCHANGED toggleVars
  BY <1>1 DEF ModulesOK, toggleVars
<1>2. ASSUME NEW t \in Togglers, NEW m \in Modules, BeginToggle(t, m)
      PROVE  ModulesOK'
  BY <1>2 DEF ModulesOK, BeginToggle, ToggleStages
<1>3. ASSUME NEW t, NEW m \in Modules, NEW a, NEW b \in ToggleStages,
             Move(t, m, a, b) \/ Finish(t, m, a), t \in Togglers
      PROVE  at' \in [Togglers -> {Idle} \cup (Modules \X ToggleStages)]
  BY <1>3 DEF ModulesOK, Move, Finish
<1>4. ASSUME NEW t \in Togglers, NEW m \in Modules, ReadEnable(t, m)
      PROVE  ModulesOK'
  BY <1>3, <1>4 DEF ModulesOK, ReadEnable, ToggleStages
<1>5. ASSUME NEW t \in Togglers, NEW m \in Modules, WriteEnable(t, m)
      PROVE  ModulesOK'
  BY <1>3, <1>5 DEF ModulesOK, WriteEnable, ToggleStages
<1>6. ASSUME NEW t \in Togglers, NEW m \in Modules, Branch(t, m)
      PROVE  ModulesOK'
  <2>1. UNCHANGED enable
    BY <1>6 DEF Branch
  <2>2. \/ \E b \in ToggleStages : Move(t, m, "branch", b)
        \/ Finish(t, m, "branch")
    BY <1>6 DEF Branch, ToggleStages, Modules
  <2>. QED BY <1>3, <2>1, <2>2 DEF ModulesOK, ToggleStages
<1>7. ASSUME NEW t \in Togglers, BlinkOn(t) \/ BlinkOff(t)
      PROVE  ModulesOK'
  <2>1. UNCHANGED enable
    BY <1>7 DEF BlinkOn, BlinkOff
  <2>2. \E a \in ToggleStages, b \in ToggleStages :
          Move(t, "Blink", a, b) \/ Finish(t, "Blink", a)
    BY <1>7 DEF BlinkOn, BlinkOff, ToggleStages
  <2>. QED BY <1>3, <2>1, <2>2 DEF ModulesOK, Modules
<1>8. ASSUME NEW t \in Togglers, AntiVoidOff(t)
      PROVE  ModulesOK'
  <2>1. UNCHANGED enable
    BY <1>8 DEF AntiVoidOff
  <2>2. \E a \in ToggleStages, b \in ToggleStages :
          Move(t, "AntiVoid", a, b) \/ Finish(t, "AntiVoid", a)
    BY <1>8 DEF AntiVoidOff, ToggleStages
  <2>. QED BY <1>3, <2>1, <2>2 DEF ModulesOK, Modules
<1>9. CASE Send \/ SendStep \/ BeginTick \/ TickStep \/ PlayerChanges \/ UNCHANGED vars
  <2>1. UNCHANGED toggleVars
    BY <1>9 DEF Send, SendStep, BeginTick, TickStep, PlayerChanges, vars, BeginSend,
       ClearOnJoin, ReadBlink, ReadDispatch, Select, Flush, LowerDispatch, ClearQueue,
       Return, ReadStart, FirstInVoid, RaiseBlink, SetAllowPackets, Started, ReadWas, LowerBlink, DropOrAsk,
       EndHold, tickRest
  <2>. QED BY <1>1, <2>1
<1>. QED BY <1>2, <1>4, <1>5, <1>6, <1>7, <1>8, <1>9 DEF Next, ToggleStep

\* Every step writes truth values to the flags.
LEMMA FlagsInductive ==
  ASSUME Flags, [Next]_vars
  PROVE  Flags'
<1>. USE DEF Flags, flags, sending, antiVoid, tickRest, handlerVars
<1>1. CASE Send
  BY <1>1 DEF Send, BeginSend
<1>2. CASE \/ ClearOnJoin \/ ReadBlink \/ ReadDispatch \/ Flush \/ LowerDispatch
           \/ ClearQueue \/ Return
  BY <1>2 DEF ClearOnJoin, ReadBlink, ReadDispatch, Flush, LowerDispatch, ClearQueue, Return
<1>3. CASE Select
  BY <1>3 DEF Select, Hold
<1>4. CASE BeginTick \/ ReadStart \/ FirstInVoid \/ RaiseBlink \/ SetAllowPackets
  BY <1>4 DEF BeginTick, ReadStart, FirstInVoid, RaiseBlink, SetAllowPackets
<1>5. CASE Started \/ ReadWas \/ LowerBlink \/ DropOrAsk \/ EndHold
  BY <1>5 DEF Started, ReadWas, LowerBlink, DropOrAsk, EndHold
<1>6. ASSUME NEW t \in Togglers, NEW m \in Modules,
             BeginToggle(t, m) \/ ReadEnable(t, m) \/ WriteEnable(t, m) \/ Branch(t, m)
      PROVE  Flags'
  BY <1>6 DEF BeginToggle, ReadEnable, WriteEnable, Branch
<1>7. ASSUME NEW t \in Togglers, BlinkOn(t) \/ BlinkOff(t) \/ AntiVoidOff(t)
      PROVE  Flags'
  BY <1>7 DEF BlinkOn, BlinkOff, AntiVoidOff
<1>8. CASE PlayerChanges
  BY <1>8 DEF PlayerChanges
<1>9. CASE UNCHANGED vars
  BY <1>9 DEF vars
<1>. QED BY <1>1, <1>2, <1>3, <1>4, <1>5, <1>6, <1>7, <1>8, <1>9
         DEF Next, SendStep, TickStep, ToggleStep

\* Every reachable state satisfies the inductive invariant: a packet that is on
\* the way is in the queue only if its event was cancelled, and a packet that
\* is about to be queued finds room (BlinkComponent.onPacketSend).
THEOREM Inductive == Spec => []IInv
<1>1. IInv /\ [Next]_vars => IInv'
  BY QueueInductive, ModulesInductive, FlagsInductive DEF IInv, TypeOK, Queue
<1>. QED BY InitHolds, <1>1, PTL DEF Spec

\* Every reachable state is well typed, the bound of the queue included.
THEOREM TypeCorrect == Spec => []TypeOK
<1>1. IInv => TypeOK
  BY DEF IInv
<1>. QED BY <1>1, Inductive, PTL

-----------------------------------------------------------------------------
(* The refinement *)

\* What the refinement mapping comes to.
HeldNow == IF game \in {"lower", "clear"} THEN <<>> ELSE packets

ArrivingNow == IF game \in SendStages /\ ~cancelled THEN cur ELSE None

\* A whole sequence is its own part from the first on, and nothing follows it.
LEMMA Parts ==
  ASSUME NEW q \in Seq(Packets)
  PROVE  SubSeq(q, 0 + 1, Len(q)) = q /\ SubSeq(q, Len(q) + 1, Len(q)) = <<>>
<1>1. Len(q) \in Nat
  BY LenProperties
<1>2. SubSeq(q, 1, Len(q)) = q
  BY SubSeqFull
<1>3. SubSeq(q, Len(q) + 1, Len(q)) = <<>>
  BY <1>1, SubSeqEmpty
<1>. QED BY <1>2, <1>3

\* The unsent part of the queue is all of it, or nothing.
LEMMA UnsentIsHeld ==
  ASSUME Queue, Queue'
  PROVE  /\ SubSeq(packets, flushed + 1, Len(packets)) = HeldNow
         /\ SubSeq(packets', flushed' + 1, Len(packets')) = HeldNow'
<1>1. packets \in Seq(Packets) /\ packets' \in Seq(Packets)
  BY DEF Queue, QueueOK
<1>2. /\ flushed = IF game \in {"lower", "clear"} THEN Len(packets) ELSE 0
      /\ flushed' = IF game' \in {"lower", "clear"} THEN Len(packets') ELSE 0
  BY DEF Queue, AllFlushed
<1>. QED BY <1>1, <1>2, Parts DEF HeldNow

\* The steps of the gate, in terms of the component.
LEMMA GateTerms ==
  ASSUME Queue, Queue'
  PROVE  /\ out' = <<>> /\ UNCHANGED <<HeldNow, ArrivingNow>> => Gate!Next
         /\ \A p \in Packets :
              (/\ ArrivingNow = None /\ p \notin Range(HeldNow)
               /\ ArrivingNow' = p /\ out' = <<>> /\ UNCHANGED HeldNow) => Gate!Next
         /\ (/\ ArrivingNow # None /\ out' = <<ArrivingNow>>
             /\ ArrivingNow' = None /\ UNCHANGED HeldNow) => Gate!Next
         /\ (/\ ArrivingNow # None /\ HeldNow' = Append(HeldNow, ArrivingNow)
             /\ ArrivingNow' = None /\ out' = <<>>) => Gate!Next
         /\ (out' = HeldNow /\ HeldNow' = <<>> /\ UNCHANGED ArrivingNow) => Gate!Next
         /\ (/\ game \in {"join", "drop"} /\ HeldNow' = <<>>
             /\ out' = <<>> /\ UNCHANGED ArrivingNow) => Gate!Next
<1>. DEFINE H == SubSeq(packets, flushed + 1, Len(packets))
            O == CASE game = "join" -> "join"
                   [] game = "drop" -> "rescue"
                   [] OTHER         -> "none"
<1>1. H = HeldNow /\ H' = HeldNow'
  BY UnsentIsHeld
<1>2. O' \in {"none", "join", "rescue"} /\ (game \in {"join", "drop"} => O # "none")
  OBVIOUS
<1>3. O' \in Gate!Occasions
  BY <1>2 DEF Gate!Occasions
<1>4. /\ Gate!Rest <=> out' = <<>> /\ UNCHANGED <<H, ArrivingNow>>
      /\ \A p : Gate!Arrive(p) <=>
           (/\ ArrivingNow = None /\ p \notin Range(H)
            /\ ArrivingNow' = p /\ out' = <<>> /\ UNCHANGED H)
      /\ Gate!Pass <=> (/\ ArrivingNow # None /\ out' = <<ArrivingNow>>
                        /\ ArrivingNow' = None /\ UNCHANGED H)
      /\ Gate!Hold <=> (/\ ArrivingNow # None /\ H' = Append(H, ArrivingNow)
                        /\ ArrivingNow' = None /\ out' = <<>>)
      /\ Gate!Release <=> (out' = H /\ H' = <<>> /\ UNCHANGED ArrivingNow)
      /\ Gate!Discard <=> (O # "none" /\ H' = <<>> /\ out' = <<>> /\ UNCHANGED ArrivingNow)
  BY DEF Gate!Rest, Gate!Arrive, Gate!Pass, Gate!Hold, Gate!Release, Gate!Discard,
         ArrivingNow, Range, Gate!Range
<1>5. (\/ \E p \in Packets : Gate!Arrive(p)
       \/ Gate!Pass \/ Gate!Hold \/ Gate!Release \/ Gate!Discard \/ Gate!Rest) => Gate!Next
  BY <1>3 DEF Gate!Next
<1>. HIDE DEF H, O
<1>. QED BY <1>1, <1>2, <1>4, <1>5

\* The component starts as a gate that holds nothing.
LEMMA GateInit == Init => Gate!Init
<1>. SUFFICES ASSUME Init PROVE Gate!Init
  OBVIOUS
<1>1. SubSeq(<<>>, 0 + 1, Len(<<>>)) = <<>>
  BY Parts, EmptyQueue
<1>2. packets = <<>> /\ flushed = 0 /\ game = "idle" /\ out = <<>>
  BY DEF Init
<1>. QED BY <1>1, <1>2 DEF Gate!Init, SendStages

\* A packet that sets out arrives at the gate.
LEMMA GateSend ==
  ASSUME Queue, Queue', NEW p \in Packets, NEW k \in {"move", "join", "other"},
         BeginSend(p, k)
  PROVE  Gate!Next
<1>1. /\ game = "idle" /\ game' \in {"join", "blink"} /\ out' = <<>>
      /\ cur' = p /\ cancelled' = FALSE /\ p \notin Range(packets) /\ UNCHANGED packets
  BY DEF BeginSend, From, IsFresh
<1>2. UNCHANGED HeldNow /\ HeldNow = packets
  BY <1>1 DEF HeldNow
<1>3. ArrivingNow = None /\ ArrivingNow' = p
  BY <1>1 DEF ArrivingNow, SendStages
<1>. QED BY <1>1, <1>2, <1>3, GateTerms

\* A join throws away what is held, and nothing else.
LEMMA GateJoin ==
  ASSUME Queue, Queue', ClearOnJoin
  PROVE  Gate!Next
<1>1. /\ game = "join" /\ game' = "return" /\ packets' = <<>> /\ out' = <<>>
      /\ UNCHANGED <<cur, cancelled>>
  BY DEF ClearOnJoin, From, sending
<1>2. HeldNow' = <<>> /\ UNCHANGED ArrivingNow
  BY <1>1 DEF HeldNow, ArrivingNow, SendStages
<1>. QED BY <1>1, <1>2, GateTerms

\* To queue the packet is to hold it.
LEMMA GateSelect ==
  ASSUME Queue, Queue', Select
  PROVE  Gate!Next
<1>1. /\ game = "list" /\ game' \in {"flush", "return"} /\ out' = <<>>
      /\ UNCHANGED cur
  BY DEF Select, Hold, From
<1>2. cur \in Packets /\ ArrivingNow = cur /\ HeldNow = packets /\ HeldNow' = packets'
  BY <1>1 DEF Queue, EventOK, NotYetCancelled, SendStages, ArrivingNow, HeldNow
<1>3. CASE packets' = Append(packets, cur) /\ cancelled' = TRUE
  <2>1. ArrivingNow' = None /\ ArrivingNow # None
    BY <1>2, <1>3, BlinkAssumption DEF ArrivingNow
  <2>. QED BY <1>1, <1>2, <1>3, <2>1, GateTerms
<1>4. CASE UNCHANGED <<packets, cancelled>>
  <2>1. UNCHANGED <<HeldNow, ArrivingNow>>
    BY <1>1, <1>2, <1>4 DEF ArrivingNow, SendStages
  <2>. QED BY <1>1, <2>1, GateTerms
<1>. QED BY <1>3, <1>4 DEF Select, Hold

\* To send what is held is to release it; the reset that follows is a rest.
LEMMA GateFlush ==
  ASSUME Queue, Queue', Flush
  PROVE  Gate!Next
<1>1. game = "flush" /\ UNCHANGED <<packets, cur, cancelled>> /\ HeldNow = packets
  BY DEF Flush, From, sending, HeldNow
<1>2. CASE game' = "lower" /\ out' = packets
  <2>1. HeldNow' = <<>> /\ UNCHANGED ArrivingNow
    BY <1>1, <1>2 DEF HeldNow, ArrivingNow, SendStages
  <2>. QED BY <1>1, <1>2, <2>1, GateTerms
<1>3. CASE game' = "return" /\ out' = <<>>
  <2>1. UNCHANGED <<HeldNow, ArrivingNow>>
    BY <1>1, <1>3 DEF HeldNow, ArrivingNow, SendStages
  <2>. QED BY <1>3, <2>1, GateTerms
<1>. QED BY <1>2, <1>3 DEF Flush, From

\* A packet that returns uncancelled passes.
LEMMA GateReturn ==
  ASSUME Queue, Queue', Return
  PROVE  Gate!Next
<1>1. game = "return" /\ game' = "idle" /\ UNCHANGED packets
  BY DEF Return, From
<1>2. UNCHANGED HeldNow /\ ArrivingNow' = None
  BY <1>1 DEF HeldNow, ArrivingNow, SendStages
<1>3. CASE cancelled
  <2>1. ArrivingNow = None /\ out' = <<>>
    BY <1>3 DEF ArrivingNow, Return
  <2>. QED BY <1>2, <2>1, GateTerms
<1>4. CASE ~cancelled
  <2>1. ArrivingNow = cur /\ cur # None
    BY <1>1, <1>4, BlinkAssumption DEF ArrivingNow, Queue, EventOK, SendStages
  <2>2. out' = <<cur>>
    BY <1>4 DEF Return
  <2>. QED BY <1>2, <2>1, <2>2, GateTerms
<1>. QED BY <1>3, <1>4

\* The steps of the send handler that only read or reset.
LEMMA GateQuietSend ==
  ASSUME Queue, Queue', ReadBlink \/ ReadDispatch \/ LowerDispatch \/ ClearQueue
  PROVE  Gate!Next
<1>1. out' = <<>> /\ UNCHANGED <<cur, cancelled>>
  BY DEF ReadBlink, ReadDispatch, LowerDispatch, ClearQueue, sending
<1>2. UNCHANGED ArrivingNow
  BY <1>1 DEF ArrivingNow, ReadBlink, ReadDispatch, LowerDispatch, ClearQueue, From, SendStages
<1>3. UNCHANGED HeldNow
  BY DEF HeldNow, ReadBlink, ReadDispatch, LowerDispatch, ClearQueue, From
<1>. QED BY <1>1, <1>2, <1>3, GateTerms

\* A rescue throws away what is held; in every other step of a tick the gate rests.
LEMMA GateTick ==
  ASSUME Queue, Queue', BeginTick \/ TickStep
  PROVE  Gate!Next
<1>1. game \notin {"lower", "clear"} /\ game' \notin {"lower", "clear"}
  BY TickFrame DEF SendStages, TickStages
<1>2. UNCHANGED ArrivingNow /\ out' = <<>> /\ HeldNow' = packets' /\ HeldNow = packets
  BY <1>1, TickFrame DEF ArrivingNow, HeldNow, SendStages, TickStages
<1>3. CASE packets' = packets
  BY <1>2, <1>3, GateTerms
<1>4. CASE packets' = <<>> /\ game = "drop"
  BY <1>2, <1>4, GateTerms
<1>. QED BY <1>3, <1>4, TickFrame

\* Every step of the component is a step of the gate or a stutter.
LEMMA GateStep ==
  ASSUME Queue, Queue', [Next]_vars
  PROVE  [Gate!Next]_(Gate!vars)
<1>1. CASE Send
  BY <1>1, GateSend DEF Send
<1>2. CASE SendStep
  BY <1>2, GateJoin, GateQuietSend, GateSelect, GateFlush, GateReturn DEF SendStep
<1>3. CASE BeginTick \/ TickStep
  BY <1>3, GateTick
<1>4. CASE \/ \E t \in Togglers : ToggleStep(t) \/ \E m \in Modules : BeginToggle(t, m)
           \/ PlayerChanges
  <2>1. UNCHANGED <<packets, flushed, game, cur, cancelled, out>>
    BY <1>4, OthersFrame
  <2>. QED BY <2>1 DEF Gate!vars
<1>5. CASE UNCHANGED vars
  BY <1>5 DEF vars, Gate!vars, sending
<1>. QED BY <1>1, <1>2, <1>3, <1>4, <1>5 DEF Next

\* BlinkComponent implements the gate: whatever the toggles, ticks and sends do
\* between each other's steps, no packet is lost on its way into the queue, in it or
\* out of it but by a join or a rescue, none is sent twice or sent while it is held,
\* and held packets leave in order.
THEOREM Refinement == Spec => ImplementsGate
<1>1. IInv => Queue
  BY DEF IInv, TypeOK, Queue
<1>2. IInv /\ [Next]_vars => [Gate!Next]_(Gate!vars)
  BY <1>1, QueueInductive, GateStep
<1>. QED BY GateInit, <1>2, Inductive, PTL DEF Spec, ImplementsGate, Gate!Spec

\* What the gate promises of each packet, for this queue.
GateFacts == INSTANCE PacketGate_proofs
               WITH held     <- SubSeq(packets, flushed + 1, Len(packets)),
                    arriving <- IF game \in SendStages /\ ~cancelled THEN cur ELSE None,
                    occasion <- CASE game = "join" -> "join"
                                  [] game = "drop" -> "rescue"
                                  [] OTHER         -> "none"

\* Both instances are of one gate.
LEMMA SameGate ==
  /\ Gate!Init => GateFacts!Init
  /\ [Gate!Next]_(Gate!vars) => [GateFacts!Next]_(GateFacts!vars)
<1>1. Gate!Init => GateFacts!Init
  BY DEF Gate!Init, GateFacts!Init
<1>2. /\ Gate!Rest => GateFacts!Rest
      /\ Gate!Pass => GateFacts!Pass
      /\ Gate!Hold => GateFacts!Hold
      /\ Gate!Release => GateFacts!Release
      /\ Gate!Discard => GateFacts!Discard
  BY DEF Gate!Pass, GateFacts!Pass, Gate!Hold, GateFacts!Hold, Gate!Release,
         GateFacts!Release, Gate!Discard, GateFacts!Discard, Gate!Rest, GateFacts!Rest
<1>3. \A p \in Packets : Gate!Arrive(p) => GateFacts!Arrive(p)
  BY DEF Gate!Arrive, GateFacts!Arrive, Gate!Range, GateFacts!Range
<1>4. Gate!Next => GateFacts!Next
  BY <1>2, <1>3 DEF Gate!Next, GateFacts!Next, Gate!Occasions, GateFacts!Occasions
<1>. QED BY <1>1, <1>4 DEF Gate!vars, GateFacts!vars

\* The component's steps are steps of the gate that the facts are about.
LEMMA IsGate == Spec => GateFacts!Spec
  BY Refinement, SameGate, PTL DEF ImplementsGate, Gate!Spec, GateFacts!Spec

\* Every packet in the queue is there once, and no packet that a dispatch or an
\* event has just sent is waiting in it (BlinkComponent.onPacketSend).
THEOREM SentOrHeld ==
  Spec => [](GateFacts!HeldOnce /\ GateFacts!LeavesOrStays /\ GateFacts!ArrivesNew)
<1>1. GateFacts!Spec =>
        [](GateFacts!HeldOnce /\ GateFacts!LeavesOrStays /\ GateFacts!ArrivesNew)
  BY GateFacts!NeverBoth, BlinkAssumption
<1>. QED BY <1>1, IsGate

\* Between a join and the next, and but for a rescue, every packet that was given to
\* the game to send is held until it is sent: a dispatch that clears the queue has
\* sent it first (BlinkComponent.java:51-86).
THEOREM NoPacketLost == Spec => GateFacts!NoneLost
<1>1. GateFacts!Spec => GateFacts!NoneLost
  BY GateFacts!GateLosesNone, BlinkAssumption
<1>. QED BY <1>1, IsGate

-----------------------------------------------------------------------------
(* The switch, when Blink is the only one to hold *)

\* Nobody toggles AntiVoid.
AntiVoidLeft == \A t \in Togglers : at[t][1] # "AntiVoid"

AntiVoidOut == ~enable["AntiVoid"] /\ game \notin TickStages

\* The flag says what the switch says, but for the steps of a toggle between
\* the write of the one and of the other.
FlagFollows(t) ==
  LET stage == at[t][2] IN
  /\ (blink <=> enable["Blink"]) <=> stage \notin {"branch", "on", "off"}
  /\ stage \in {"fall", "on"} => enable["Blink"]
  /\ stage \in {"rise", "off"} => ~enable["Blink"]

\* A toggle of Blink ends with the flag as the switch.
LEMMA ToggleFollows ==
  ASSUME NEW t \in Togglers, ModulesOK, Flags, FlagFollows(t), ~enable["AntiVoid"],
         at[t][1] # "AntiVoid", at'[t][1] # "AntiVoid",
         ToggleStep(t) \/ \E m \in Modules : BeginToggle(t, m)
  PROVE  FlagFollows(t)' /\ ~enable'["AntiVoid"] /\ game' = game
<1>. USE DEF FlagFollows, ModulesOK, flags, handlerVars, antiVoid
<1>1. ASSUME NEW m \in Modules, BeginToggle(t, m)
      PROVE  FlagFollows(t)' /\ ~enable'["AntiVoid"] /\ game' = game
  BY <1>1 DEF BeginToggle, Idle
<1>2. ASSUME NEW m \in Modules, ReadEnable(t, m)
      PROVE  FlagFollows(t)' /\ ~enable'["AntiVoid"] /\ game' = game
  BY <1>2 DEF ReadEnable, Move, Modules
<1>3. ASSUME NEW m \in Modules, WriteEnable(t, m)
      PROVE  FlagFollows(t)' /\ ~enable'["AntiVoid"] /\ game' = game
  BY <1>3 DEF WriteEnable, Move, Modules, Flags
<1>4. ASSUME NEW m \in Modules, Branch(t, m)
      PROVE  FlagFollows(t)' /\ ~enable'["AntiVoid"] /\ game' = game
  <2>0. UNCHANGED <<enable, blink, game>> /\ enable[m] \in BOOLEAN
    BY <1>4 DEF Branch
  <2>1. m = "Blink" /\ at[t] = <<m, "branch">>
    <3>1. at[t] = <<m, "branch">>
      BY <1>4, <2>0 DEF Branch, Move, Finish, Modules
    <3>. QED BY <3>1 DEF Modules
  <2>2. at'[t] = IF enable["Blink"] THEN <<"Blink", "on">> ELSE <<"Blink", "off">>
    BY <1>4, <2>0, <2>1 DEF Branch, Move
  <2>. QED BY <2>0, <2>1, <2>2
<1>5. CASE BlinkOn(t)
  <2>1. UNCHANGED <<enable, game>>
    BY <1>5 DEF BlinkOn
  <2>2. CASE Move(t, "Blink", "on", "mode") /\ blink'
    <3>1. at[t] = <<"Blink", "on">> /\ at'[t] = <<"Blink", "mode">>
      BY <2>2 DEF Move
    <3>2. enable["Blink"]
      BY <3>1
    <3>. QED BY <2>1, <2>2, <3>1, <3>2
  <2>3. CASE Finish(t, "Blink", "mode") /\ UNCHANGED blink
    <3>1. at[t] = <<"Blink", "mode">> /\ at'[t] = Idle
      BY <2>3 DEF Finish
    <3>. QED BY <2>1, <2>3, <3>1 DEF Idle
  <2>. QED BY <1>5, <2>2, <2>3 DEF BlinkOn
<1>7. CASE BlinkOff(t)
  <2>1. UNCHANGED <<enable, game>>
    BY <1>7 DEF BlinkOff
  <2>2. CASE Move(t, "Blink", "off", "request") /\ ~blink'
    <3>1. at[t] = <<"Blink", "off">> /\ at'[t] = <<"Blink", "request">>
      BY <2>2 DEF Move
    <3>2. ~enable["Blink"]
      BY <3>1
    <3>. QED BY <2>1, <2>2, <3>1, <3>2
  <2>3. CASE Finish(t, "Blink", "request") /\ UNCHANGED blink
    <3>1. at[t] = <<"Blink", "request">> /\ at'[t] = Idle
      BY <2>3 DEF Finish
    <3>. QED BY <2>1, <2>3, <3>1 DEF Idle
  <2>. QED BY <1>7, <2>2, <2>3 DEF BlinkOff
<1>6. CASE AntiVoidOff(t)
  BY <1>6 DEF AntiVoidOff, Move, Finish
<1>. QED BY <1>1, <1>2, <1>3, <1>4, <1>5, <1>6, <1>7 DEF ToggleStep

\* The send handler and the player leave the switch and the flag alone.
LEMMA OthersFollow ==
  ASSUME AntiVoidOut, Send \/ SendStep \/ BeginTick \/ TickStep \/ PlayerChanges \/ UNCHANGED vars
  PROVE  AntiVoidOut' /\ UNCHANGED <<at, enable, blink>>
<1>. USE DEF AntiVoidOut, From, SendStages, TickStages, flags, toggleVars
<1>1. CASE Send
  BY <1>1 DEF Send, BeginSend
<1>2. CASE ClearOnJoin \/ ReadBlink \/ ReadDispatch \/ Select \/ Flush
  BY <1>2 DEF ClearOnJoin, ReadBlink, ReadDispatch, Select, Hold, Flush
<1>3. CASE LowerDispatch \/ ClearQueue \/ Return
  BY <1>3 DEF LowerDispatch, ClearQueue, Return
<1>4. CASE PlayerChanges \/ UNCHANGED vars
  BY <1>4 DEF PlayerChanges, vars
<1>5. ~BeginTick /\ ~TickStep
  BY DEF BeginTick, TickStep, ReadStart, FirstInVoid, RaiseBlink, SetAllowPackets, Started,
         ReadWas, LowerBlink, DropOrAsk, EndHold
<1>. QED BY <1>1, <1>2, <1>3, <1>4, <1>5 DEF SendStep

\* No two toggles overlap.
TogglesApart == \A t, u \in Togglers : at[t] # Idle /\ at[u] # Idle => t = u

\* Between toggles the flag is as the switch; in one it follows.
SwitchFollowed ==
  /\ (\A t \in Togglers : at[t] = Idle) => (blink <=> enable["Blink"])
  /\ \A t \in Togglers : at[t] # Idle => FlagFollows(t)

\* A toggling thread moves only itself, and goes on only from within a toggle.
LEMMA ToggleFrame ==
  ASSUME NEW t \in Togglers, ModulesOK,
         ToggleStep(t) \/ \E m \in Modules : BeginToggle(t, m)
  PROVE  /\ \A u \in Togglers : u # t => at'[u] = at[u]
         /\ at[t] = Idle => \E m \in Modules : BeginToggle(t, m)
         /\ at[t] = Idle => at'[t] # Idle
<1>1. ASSUME NEW m \in Modules, BeginToggle(t, m)
      PROVE  (\A u \in Togglers : u # t => at'[u] = at[u]) /\ at'[t] # Idle
  BY <1>1 DEF BeginToggle, ModulesOK, Modules, Idle
<1>2. ASSUME NEW m \in Modules, NEW a, NEW b, a # "idle", Move(t, m, a, b) \/ Finish(t, m, a)
      PROVE  (\A u \in Togglers : u # t => at'[u] = at[u]) /\ at[t] # Idle
  BY <1>2 DEF Move, Finish, ModulesOK, Idle
<1>3. ASSUME ToggleStep(t)
      PROVE  \E m \in Modules, a \in ToggleStages, b \in ToggleStages :
               Move(t, m, a, b) \/ Finish(t, m, a)
  <2>1. ASSUME NEW m \in Modules, ReadEnable(t, m) \/ WriteEnable(t, m)
        PROVE  \E a \in ToggleStages, b \in ToggleStages : Move(t, m, a, b) \/ Finish(t, m, a)
    BY <2>1 DEF ReadEnable, WriteEnable, ToggleStages
  <2>2. ASSUME NEW m \in Modules, Branch(t, m)
        PROVE  \E a \in ToggleStages, b \in ToggleStages : Move(t, m, a, b) \/ Finish(t, m, a)
    BY <2>2 DEF Branch, ToggleStages, Modules
  <2>3. CASE BlinkOn(t) \/ BlinkOff(t)
    <3>1. \E a \in ToggleStages, b \in ToggleStages :
            Move(t, "Blink", a, b) \/ Finish(t, "Blink", a)
      BY <2>3 DEF BlinkOn, BlinkOff, ToggleStages
    <3>. QED BY <3>1 DEF Modules
  <2>4. CASE AntiVoidOff(t)
    <3>1. \E a \in ToggleStages, b \in ToggleStages :
            Move(t, "AntiVoid", a, b) \/ Finish(t, "AntiVoid", a)
      BY <2>4 DEF AntiVoidOff, ToggleStages
    <3>. QED BY <3>1 DEF Modules
  <2>. QED BY <1>3, <2>1, <2>2, <2>3, <2>4 DEF ToggleStep
<1>4. "idle" \notin ToggleStages
  BY DEF ToggleStages
<1>. QED BY <1>1, <1>2, <1>3, <1>4

\* A step of one toggle leaves the flag following the switch.
LEMMA ToggleKeepsSwitch ==
  ASSUME NEW t \in Togglers, ModulesOK, Flags, AntiVoidOut, SwitchFollowed,
         AntiVoidLeft, AntiVoidLeft', TogglesApart, TogglesApart',
         ToggleStep(t) \/ \E m \in Modules : BeginToggle(t, m)
  PROVE  AntiVoidOut' /\ SwitchFollowed'
<1>1. FlagFollows(t)
  <2>1. CASE at[t] # Idle
    BY <2>1 DEF SwitchFollowed
  <2>2. CASE at[t] = Idle
    <3>1. \A u \in Togglers : at[u] = Idle
      BY <2>2, ToggleFrame DEF TogglesApart
    <3>2. at[t][2] = "idle"
      BY <2>2 DEF Idle
    <3>. QED BY <3>1, <3>2 DEF SwitchFollowed, FlagFollows
  <2>. QED BY <2>1, <2>2
<1>2. FlagFollows(t)' /\ ~enable'["AntiVoid"] /\ game' = game
  BY <1>1, ToggleFollows DEF AntiVoidLeft, AntiVoidOut
<1>3. \A u \in Togglers : u # t => at'[u] = Idle
  BY ToggleFrame DEF TogglesApart
<1>4. at'[t] = Idle => (blink' <=> enable'["Blink"])
  <2>. SUFFICES ASSUME at'[t] = Idle PROVE blink' <=> enable'["Blink"]
    OBVIOUS
  <2>1. at'[t][2] = "idle"
    BY DEF Idle
  <2>. QED BY <1>2, <2>1 DEF FlagFollows
<1>5. SwitchFollowed'
  BY <1>2, <1>3, <1>4 DEF SwitchFollowed
<1>. QED BY <1>2, <1>5 DEF AntiVoidOut

\* While AntiVoid is left alone and no two toggles overlap, whichever threads they
\* are of, the switch of Blink says the truth in both directions (Blink.onEnable,
\* onDisable).  Without the second hypothesis it does not: toggle() takes no lock
\* (Module.java:76-93), and two toggles of Blink that overlap can leave the flag
\* raised behind a switch that is off.
THEOREM AloneSwitchIsRight ==
  Spec /\ []AntiVoidLeft /\ []TogglesApart => [](EnabledHolds /\ OffHoldsNothing)
<1>. DEFINE J == AntiVoidOut /\ SwitchFollowed
            H == AntiVoidLeft /\ TogglesApart
<1>1. Init => J
  <2>. SUFFICES ASSUME Init PROVE J
    OBVIOUS
  <2>1. ~enable["AntiVoid"] /\ ~enable["Blink"]
    BY DEF Init, Modules
  <2>2. AntiVoidOut
    BY <2>1 DEF Init, AntiVoidOut, TickStages
  <2>3. \A t \in Togglers : at[t] = Idle
    BY DEF Init
  <2>4. blink <=> enable["Blink"]
    BY <2>1 DEF Init
  <2>. QED BY <2>2, <2>3, <2>4 DEF SwitchFollowed
<1>2. IInv /\ H /\ H' /\ J /\ [Next]_vars => J'
  <2>. SUFFICES ASSUME IInv, H, H', J, [Next]_vars
                PROVE  J'
    OBVIOUS
  <2>1. CASE Send \/ SendStep \/ BeginTick \/ TickStep \/ PlayerChanges \/ UNCHANGED vars
    BY <2>1, OthersFollow DEF SwitchFollowed, FlagFollows
  <2>2. ASSUME NEW t \in Togglers, ToggleStep(t) \/ \E m \in Modules : BeginToggle(t, m)
        PROVE  J'
    BY <2>2, ToggleKeepsSwitch DEF IInv, TypeOK
  <2>. QED BY <2>1, <2>2 DEF Next
<1>3. IInv /\ J => EnabledHolds /\ OffHoldsNothing
  BY DEF SwitchFollowed, EnabledHolds, OffHoldsNothing, Modules
<1>. QED BY <1>1, <1>2, <1>3, Inductive, PTL DEF Spec
=============================================================================
