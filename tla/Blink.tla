-------------------------------- MODULE Blink --------------------------------
(***************************************************************************)
(* Packets held back on the way to the server: the queue and the flags of  *)
(* BlinkComponent, and the two modules that set the flags, Blink and       *)
(* AntiVoid (in its default mode).                                         *)
(*                                                                         *)
(* The send handler and the tick handler run under the lock of callEvent:  *)
(* the game does one of them at a time.  Modules are toggled by other      *)
(* threads (menu, key button, configuration), which take no lock: their    *)
(* writes fall between any two steps of a handler.                         *)
(***************************************************************************)
EXTENDS Naturals, Sequences, Functions

CONSTANTS
  Packets,   \* identities of packets; one is free again once it has left
  Togglers,  \* threads that toggle modules
  None,      \* no packet
  MaxHeld    \* bound of the model: packets in the queue

ASSUME BlinkAssumption == MaxHeld \in Nat \ {0} /\ None \notin Packets

VARIABLES
  packets,     \* BlinkComponent.packets
  flushed,     \* history: how many of them a dispatch has sent already
  blink,       \* BlinkComponent.blink
  dispatch,    \* BlinkComponent.dispatch
  exempted,    \* BlinkComponent.exemptedMode; exemptedPackets stays empty
  allow,       \* allowPackets lists the movement packets (at first, nothing)
  game,        \* where the handler that is running is
  cur,         \* the packet being sent, or None
  kind,        \* its class: "move", "join" or "other"
  cancelled,   \* event.setCancelled() was called
  out,         \* the packets that left in the handler's last step
  player,      \* there is a local player
  enable,      \* Module.enable
  startBlink,  \* AntiVoid.startBlink
  wasBlink,    \* AntiVoid.wasBlink
  at           \* where each toggling thread is: <<module, stage>>

queue      == <<packets, flushed>>
flags      == <<blink, dispatch, exempted>>
sending    == <<cur, kind, cancelled>>
antiVoid   == <<startBlink, wasBlink>>
toggleVars == <<enable, at>>
vars == <<queue, flags, allow, game, sending, out, player, antiVoid, toggleVars>>

Modules == {"Blink", "AntiVoid"}

Idle == <<"none", "idle">>

SendStages == {"join", "blink", "dispatch", "list", "flush", "lower", "clear", "return"}
TickStages == {"void", "first", "raise", "select", "start", "wait", "leave",
               "drop", "end", "ground", "landed", "open", "ask"}
ToggleStages == {"read", "rise", "fall", "branch", "on", "mode", "off", "request",
                 "started", "lower", "forget", "forgetWas"}

QueueOK ==
  /\ packets \in Seq(Packets) /\ Len(packets) <= MaxHeld
  /\ flushed \in 0..MaxHeld
  /\ out \in Seq(Packets)

EventOK ==
  /\ cur \in Packets \cup {None} /\ kind \in {"move", "join", "other"}
  /\ game \in {"idle"} \cup SendStages \cup TickStages
  /\ cur # None <=> game \in SendStages

ModulesOK ==
  /\ enable \in [Modules -> BOOLEAN]
  /\ at \in [Togglers -> {Idle} \cup (Modules \X ToggleStages)]

Flags ==
  /\ blink \in BOOLEAN /\ dispatch \in BOOLEAN /\ exempted \in BOOLEAN
  /\ allow \in BOOLEAN /\ cancelled \in BOOLEAN /\ player \in BOOLEAN
  /\ startBlink \in BOOLEAN /\ wasBlink \in BOOLEAN

TypeOK == QueueOK /\ EventOK /\ ModulesOK /\ Flags

Init ==
  /\ packets = <<>> /\ flushed = 0 /\ blink = FALSE /\ dispatch = FALSE
  /\ exempted = FALSE /\ allow = FALSE
  /\ game = "idle" /\ cur = None /\ kind = "other" /\ cancelled = FALSE
  /\ out = <<>> /\ player = FALSE
  /\ enable = [m \in Modules |-> FALSE]
  /\ startBlink = FALSE /\ wasBlink = FALSE
  /\ at = [t \in Togglers |-> Idle]

\* A handler goes from one place to the next.
From(a, b) == game = a /\ game' = b

-----------------------------------------------------------------------------
(* The send handler: BlinkComponent.onPacketSend *)

\* Which of the free identities a packet gets makes no difference.
IsFresh(p) == p \notin Range(packets) /\ p = CHOOSE q \in Packets : q \notin Range(packets)

\* A packet is about to be sent.  When the queue is at the bound of the model
\* only packets that will not be held are.
BeginSend(p, k) ==
  /\ IsFresh(p)
  /\ Len(packets) < MaxHeld \/ ~blink \/ dispatch
  /\ cur' = p /\ kind' = k /\ cancelled' = FALSE
  /\ IF k = "join" THEN From("idle", "join") ELSE From("idle", "blink")
  /\ out' = <<>>
  /\ UNCHANGED <<queue, flags, allow, player, antiVoid, toggleVars>>

\* A join forgets what was held for the server before.
ClearOnJoin ==
  /\ From("join", "return")
  /\ packets' = <<>>
  /\ out' = <<>>
  /\ UNCHANGED <<flushed, flags, allow, sending, player, antiVoid, toggleVars>>

ReadBlink ==
  /\ IF blink THEN From("blink", "dispatch") ELSE From("blink", "flush")
  /\ out' = <<>>
  /\ UNCHANGED <<queue, flags, allow, sending, player, antiVoid, toggleVars>>

ReadDispatch ==
  /\ IF dispatch THEN From("dispatch", "flush") ELSE From("dispatch", "list")
  /\ out' = <<>>
  /\ UNCHANGED <<queue, flags, allow, sending, player, antiVoid, toggleVars>>

Hold(next) ==
  /\ From("list", next)
  /\ packets' = Append(packets, cur)
  /\ cancelled' = TRUE

\* With exempted classes (there are none) everything is held and the handler
\* goes on; with allowed classes those are held and it returns.
Select ==
  /\ CASE exempted                        -> Hold("flush")
       [] ~exempted /\ allow /\ kind = "move" -> Hold("return")
       [] OTHER -> From("list", "flush") /\ UNCHANGED <<queue, cancelled>>
  /\ out' = <<>>
  /\ UNCHANGED <<flushed, flags, allow, cur, kind, player, antiVoid, toggleVars>>

\* Mutant: without a player the event is left where it is.
FlushWithoutPlayer ==
  /\ CASE dispatch /\ player  -> From("flush", "lower") /\ out' = packets
       [] dispatch /\ ~player -> From("flush", "idle") /\ out' = <<>>
       [] OTHER               -> From("flush", "return") /\ out' = <<>>
  /\ UNCHANGED <<queue, flags, allow, sending, player, antiVoid, toggleVars>>

\* Mutant: a dispatch goes on to clear the queue and has sent nothing.
FlushUnsent ==
  /\ IF dispatch /\ player THEN From("flush", "lower") ELSE From("flush", "return")
  /\ out' = <<>>
  /\ UNCHANGED <<queue, flags, allow, sending, player, antiVoid, toggleVars>>

\* A dispatch needs the local player; the held packets go past the handler.
Flush ==
  /\ IF dispatch /\ player
     THEN From("flush", "lower") /\ out' = packets /\ flushed' = Len(packets)
     ELSE From("flush", "return") /\ out' = <<>> /\ UNCHANGED flushed
  /\ UNCHANGED <<packets, flags, allow, sending, player, antiVoid, toggleVars>>

LowerDispatch ==
  /\ From("lower", "clear")
  /\ dispatch' = FALSE
  /\ out' = <<>>
  /\ UNCHANGED <<queue, blink, exempted, allow, sending, player, antiVoid,
                 toggleVars>>

ClearQueue ==
  /\ From("clear", "return")
  /\ packets' = <<>> /\ flushed' = 0
  /\ out' = <<>>
  /\ UNCHANGED <<flags, allow, sending, player, antiVoid, toggleVars>>

\* The event returns: the packet is sent unless it was cancelled.
Return ==
  /\ From("return", "idle")
  /\ out' = IF cancelled THEN <<>> ELSE <<cur>>
  /\ cur' = None /\ kind' = "other" /\ cancelled' = FALSE
  /\ UNCHANGED <<queue, flags, allow, player, antiVoid, toggleVars>>

Send == \E p \in Packets, k \in {"move", "join", "other"} : BeginSend(p, k)

SendStep == \/ ClearOnJoin \/ ReadBlink \/ ReadDispatch \/ Select \/ Flush
            \/ LowerDispatch \/ ClearQueue \/ Return

-----------------------------------------------------------------------------
(* The tick handler: AntiVoid.onTick.  The packets doAirPlace sends in the *)
(* middle of a rescue are sends of their own here: they touch nothing that *)
(* the rest of the tick reads.                                             *)

tickRest == <<allow, sending, player, toggleVars>>

\* callEvent skips a disabled module; the player is over the void, on the
\* ground or neither.
BeginTick ==
  /\ enable["AntiVoid"]
  /\ From("idle", "void") \/ From("idle", "ground")
  /\ out' = <<>>
  /\ UNCHANGED <<queue, flags, antiVoid, tickRest>>

ReadStart ==
  /\ \/ ~startBlink /\ From("void", "first")
     \/ startBlink /\ From("void", "wait")
     \/ startBlink /\ From("ground", "landed")
     \/ ~startBlink /\ From("ground", "idle")
  /\ out' = <<>>
  /\ UNCHANGED <<queue, flags, antiVoid, tickRest>>

\* Somebody else is holding already: AntiVoid only remembers that.
FirstInVoid ==
  /\ IF blink THEN From("first", "start") /\ wasBlink' = TRUE
              ELSE From("first", "raise") /\ UNCHANGED wasBlink
  /\ out' = <<>>
  /\ UNCHANGED <<queue, flags, startBlink, tickRest>>

RaiseBlink ==
  /\ From("raise", "select")
  /\ blink' = TRUE
  /\ out' = <<>>
  /\ UNCHANGED <<queue, dispatch, exempted, antiVoid, tickRest>>

SetAllowPackets ==
  /\ From("select", "start")
  /\ allow' = TRUE /\ exempted' = FALSE
  /\ out' = <<>>
  /\ UNCHANGED <<queue, blink, dispatch, sending, player, antiVoid, toggleVars>>

Started ==
  /\ From("start", "idle")
  /\ startBlink' = TRUE
  /\ out' = <<>>
  /\ UNCHANGED <<queue, flags, wasBlink, tickRest>>

\* Over the void for long enough, or on the ground again: only a hold that
\* AntiVoid began is ended.
ReadWas ==
  /\ \/ ~wasBlink /\ From("wait", "leave")
     \/ From("wait", "idle")
     \/ ~wasBlink /\ From("landed", "open")
     \/ wasBlink /\ From("landed", "idle")
  /\ out' = <<>>
  /\ UNCHANGED <<queue, flags, antiVoid, tickRest>>

LowerBlink ==
  /\ From("leave", "drop") \/ From("open", "ask")
  /\ blink' = FALSE
  /\ out' = <<>>
  /\ UNCHANGED <<queue, dispatch, exempted, antiVoid, tickRest>>

\* The rescue forgets what was held; the landing asks for it to be sent.
DropOrAsk ==
  /\ \/ From("drop", "end") /\ packets' = <<>> /\ UNCHANGED dispatch
     \/ From("ask", "end") /\ dispatch' = TRUE /\ UNCHANGED packets
  /\ out' = <<>>
  /\ UNCHANGED <<flushed, blink, exempted, antiVoid, tickRest>>

EndHold ==
  /\ From("end", "idle")
  /\ startBlink' = FALSE
  /\ out' = <<>>
  /\ UNCHANGED <<queue, flags, wasBlink, tickRest>>

TickStep == \/ ReadStart \/ FirstInVoid \/ RaiseBlink \/ SetAllowPackets \/ Started
            \/ ReadWas \/ LowerBlink \/ DropOrAsk \/ EndHold

-----------------------------------------------------------------------------
(* Module.toggle with onEnable and onDisable of the two modules *)

handlerVars == <<queue, allow, game, sending, out, player>>

Move(t, m, a, b) == at[t] = <<m, a>> /\ at' = [at EXCEPT ![t] = <<m, b>>]
Finish(t, m, a)  == at[t] = <<m, a>> /\ at' = [at EXCEPT ![t] = Idle]

BeginToggle(t, m) ==
  /\ at[t] = Idle
  /\ at' = [at EXCEPT ![t] = <<m, "read">>]
  /\ UNCHANGED <<flags, enable, antiVoid, handlerVars>>

\* enable = !enable: a read, then a write.
ReadEnable(t, m) ==
  /\ IF enable[m] THEN Move(t, m, "read", "fall") ELSE Move(t, m, "read", "rise")
  /\ UNCHANGED <<flags, enable, antiVoid, handlerVars>>

WriteEnable(t, m) ==
  /\ \/ Move(t, m, "rise", "branch") /\ enable' = [enable EXCEPT ![m] = TRUE]
     \/ Move(t, m, "fall", "branch") /\ enable' = [enable EXCEPT ![m] = FALSE]
  /\ UNCHANGED <<flags, antiVoid, handlerVars>>

\* The field is read once more to choose the callback; AntiVoid has no
\* onEnable.
Branch(t, m) ==
  /\ CASE enable[m] /\ m = "Blink"     -> Move(t, m, "branch", "on")
       [] enable[m] /\ m = "AntiVoid"  -> Finish(t, m, "branch")
       [] ~enable[m] /\ m = "Blink"    -> Move(t, m, "branch", "off")
       [] ~enable[m] /\ m = "AntiVoid" -> Move(t, m, "branch", "started")
  /\ UNCHANGED <<flags, enable, antiVoid, handlerVars>>

\* Blink.onEnable.  Bound: at a full queue not in the middle of a send.
BlinkOn(t) ==
  /\ \/ /\ Move(t, "Blink", "on", "mode")
        /\ Len(packets) < MaxHeld \/ game = "idle"
        /\ blink' = TRUE /\ UNCHANGED exempted
     \/ Finish(t, "Blink", "mode") /\ exempted' = TRUE /\ UNCHANGED blink
  /\ UNCHANGED <<dispatch, enable, antiVoid, handlerVars>>

\* Mutant: Blink lowers the flag as AntiVoid does, and asks for no dispatch.
BlinkOffSilently(t) ==
  /\ \/ Move(t, "Blink", "off", "request") /\ blink' = FALSE
     \/ Finish(t, "Blink", "request") /\ UNCHANGED blink
  /\ UNCHANGED <<dispatch, exempted, enable, antiVoid, handlerVars>>

\* Blink.onDisable
BlinkOff(t) ==
  /\ \/ Move(t, "Blink", "off", "request") /\ blink' = FALSE /\ UNCHANGED dispatch
     \/ Finish(t, "Blink", "request") /\ dispatch' = TRUE /\ UNCHANGED blink
  /\ UNCHANGED <<exempted, enable, antiVoid, handlerVars>>

\* AntiVoid.onDisable
AntiVoidOff(t) ==
  LET m == "AntiVoid" IN
  /\ \/ startBlink /\ Move(t, m, "started", "lower") /\ UNCHANGED <<blink, antiVoid>>
     \/ ~startBlink /\ Move(t, m, "started", "forget") /\ UNCHANGED <<blink, antiVoid>>
     \/ Move(t, m, "lower", "forget") /\ blink' = FALSE /\ UNCHANGED antiVoid
     \/ /\ Move(t, m, "forget", "forgetWas")
        /\ startBlink' = FALSE /\ UNCHANGED <<blink, wasBlink>>
     \/ /\ Finish(t, m, "forgetWas")
        /\ wasBlink' = FALSE /\ UNCHANGED <<blink, startBlink>>
  /\ UNCHANGED <<dispatch, exempted, enable, handlerVars>>

ToggleStep(t) ==
  \/ \E m \in Modules : ReadEnable(t, m) \/ WriteEnable(t, m) \/ Branch(t, m)
  \/ BlinkOn(t) \/ BlinkOff(t) \/ AntiVoidOff(t)

-----------------------------------------------------------------------------
\* The local player comes and goes with the worlds the game enters.
PlayerChanges ==
  /\ player' = ~player
  /\ UNCHANGED <<queue, flags, allow, game, sending, out, antiVoid, toggleVars>>

Next ==
  \/ Send \/ SendStep
  \/ BeginTick \/ TickStep
  \/ \E t \in Togglers : ToggleStep(t) \/ \E m \in Modules : BeginToggle(t, m)
  \/ PlayerChanges

\* A handler that runs, runs on; so does a toggle.  The game keeps sending: it
\* reports the player's input in every tick, whatever else the ticks do.
Fairness ==
  /\ WF_vars(SendStep) /\ WF_vars(TickStep)
  /\ \A t \in Togglers : WF_vars(ToggleStep(t))
  /\ SF_vars(Send)

Spec == Init /\ [][Next]_vars /\ Fairness

-----------------------------------------------------------------------------
(* Properties *)

\* Held is what is queued and was not sent; a packet arrives until its handler
\* cancels it or returns.  Two places in the code may throw held packets away.
Gate == INSTANCE PacketGate
          WITH held     <- SubSeq(packets, flushed + 1, Len(packets)),
               arriving <- IF game \in SendStages /\ ~cancelled THEN cur ELSE None,
               occasion <- CASE game = "join" -> "join"
                             [] game = "drop" -> "rescue"
                             [] OTHER         -> "none"

\* Whatever the interleaving of toggles, ticks and sends, no packet is lost on
\* its way into the queue, in it or out of it, but by a join or a rescue; none is
\* sent twice, or sent while it is held; and held packets leave in the order they
\* came (BlinkComponent.onPacketSend).
ImplementsGate == Gate!Spec

\* A dispatch that is asked for empties the queue, if there is a player to
\* send with from some time on: also when the request falls between the
\* sending and the reset of an earlier one (lines 81-85).
RequestsRelease ==
  (<>[]player) =>
    ((game = "ask" \/ \E t \in Togglers : at[t] = <<"Blink", "request">>)
       ~> packets = <<>>)

\* What the switch says: the toast "%s 开启" (on) of a module named "delayed
\* packet sending".  When nothing is under way and Blink is on, it holds.
EnabledHolds ==
  (enable["Blink"] /\ game = "idle" /\ \A t \in Togglers : at[t] = Idle) => blink

\* What the switch says when it is off: the toast "%s 关闭" (off).  When nothing
\* is under way and both modules are off, nothing is being held back any more.
OffHoldsNothing ==
  (/\ \A m \in Modules : ~enable[m]
   /\ game = "idle" /\ \A t \in Togglers : at[t] = Idle) => ~blink
=============================================================================
