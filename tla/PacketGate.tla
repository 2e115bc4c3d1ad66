------------------------------ MODULE PacketGate ------------------------------
(***************************************************************************)
(* What the component that holds packets back promises about each of them, *)
(* whatever switches the holding on and off: a packet that arrives passes  *)
(* at once, or it is held behind the ones held before it; held packets     *)
(* leave all together and in order.  None is both held and sent, and none  *)
(* is lost: held packets are thrown away on two occasions only, the join   *)
(* of a server, for which they were not meant, and the rescue from the     *)
(* void, which is there to unsay them.                                     *)
(***************************************************************************)
EXTENDS Sequences, Functions

CONSTANTS Packets, None

VARIABLES
  held,      \* the packets held back, oldest first
  arriving,  \* the packet that is neither held nor sent yet, or None
  out,       \* what left in the last step of the sender
  occasion   \* what there is to throw held packets away for

vars == <<held, arriving, out, occasion>>

Occasions == {"none", "join", "rescue"}

Init == held = <<>> /\ arriving = None /\ out = <<>> /\ occasion = "none"

Arrive(p) ==
  /\ arriving = None /\ p \notin Range(held)
  /\ arriving' = p /\ out' = <<>> /\ UNCHANGED held

Pass ==
  /\ arriving # None
  /\ out' = <<arriving>> /\ arriving' = None /\ UNCHANGED held

Hold ==
  /\ arriving # None
  /\ held' = Append(held, arriving) /\ arriving' = None /\ out' = <<>>

Release == out' = held /\ held' = <<>> /\ UNCHANGED arriving

Discard ==
  /\ occasion # "none"
  /\ held' = <<>> /\ out' = <<>> /\ UNCHANGED arriving

Rest == out' = <<>> /\ UNCHANGED <<held, arriving>>

Next ==
  /\ \/ \E p \in Packets : Arrive(p)
     \/ Pass \/ Hold \/ Release \/ Discard \/ Rest
  /\ occasion' \in Occasions

Spec == Init /\ [][Next]_vars
=============================================================================
