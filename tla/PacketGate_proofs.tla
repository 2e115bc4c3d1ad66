--------------------------- MODULE PacketGate_proofs ---------------------------
(***************************************************************************)
(* What the promise of the gate amounts to for each packet.                *)
(***************************************************************************)
EXTENDS PacketGate, Naturals, TLAPS

\* A packet that arrives is not in the queue yet.
ArrivesNew == arriving \in Packets \cup {None} /\ arriving \notin Range(held)

\* Every packet is held once, ...
HeldOnce == held \in Seq(Packets) /\ IsInjective(held)

\* ... and none is held that has just left, nor does one leave twice at once.
LeavesOrStays ==
  /\ out \in Seq(Packets) /\ IsInjective(out)
  /\ Range(out) \cap Range(held) = {}

\* The packets that are held or arriving.
UnderWay == Range(held) \cup ({arriving} \ {None})

\* Without an occasion to throw packets away, each of them is still held or
\* arriving after the next step, or has left in it.
NoneLost == [][occasion = "none" => UnderWay \subseteq Range(out') \cup UnderWay']_vars

\* Appending a packet that is not in the queue keeps its packets distinct.
LEMMA AppendDistinct ==
  ASSUME NEW s \in Seq(Packets), IsInjective(s), NEW p \in Packets, p \notin Range(s)
  PROVE  Append(s, p) \in Seq(Packets) /\ IsInjective(Append(s, p))
<1>. DEFINE t == Append(s, p)
<1>1. /\ t \in Seq(Packets) /\ DOMAIN t = 1..(Len(s) + 1)
      /\ \A i \in 1..Len(s) : t[i] = s[i]
      /\ t[Len(s) + 1] = p
  OBVIOUS
<1>2. \A i \in 1..Len(s) : s[i] # p
  BY DEF Range
<1>3. \A i, j \in 1..Len(s) : s[i] = s[j] => i = j
  BY DEF IsInjective
<1>4. \A i \in 1..(Len(s) + 1) : i \in 1..Len(s) \/ i = Len(s) + 1
  OBVIOUS
<1>5. \A i, j \in 1..(Len(s) + 1) : t[i] = t[j] => i = j
  <2>. HIDE DEF t
  <2>. QED BY <1>1, <1>2, <1>3, <1>4
<1>. QED BY <1>1, <1>5 DEF IsInjective

\* No packets, and one packet, are distinct.
LEMMA FewDistinct ==
  /\ <<>> \in Seq(Packets) /\ IsInjective(<<>>) /\ Range(<<>>) = {}
  /\ \A p \in Packets : <<p>> \in Seq(Packets) /\ IsInjective(<<p>>) /\ Range(<<p>>) = {p}
<1>1. <<>> \in Seq(Packets) /\ IsInjective(<<>>) /\ Range(<<>>) = {}
  BY DEF IsInjective, Range
<1>2. ASSUME NEW p \in Packets
      PROVE  <<p>> \in Seq(Packets) /\ IsInjective(<<p>>) /\ Range(<<p>>) = {p}
  <2>1. <<p>> \in Seq(Packets) /\ DOMAIN <<p>> = {1} /\ <<p>>[1] = p
    OBVIOUS
  <2>. QED BY <2>1 DEF IsInjective, Range
<1>. QED BY <1>1, <1>2

\* What is appended to a sequence is in its range, with what was.
LEMMA AppendRange ==
  ASSUME NEW S, NEW s \in Seq(S), NEW p \in S
  PROVE  Range(Append(s, p)) = Range(s) \cup {p}
<1>. DEFINE t == Append(s, p)
<1>1. /\ DOMAIN t = 1..(Len(s) + 1) /\ DOMAIN s = 1..Len(s) /\ Len(s) \in Nat
      /\ \A i \in 1..Len(s) : t[i] = s[i]
      /\ t[Len(s) + 1] = p
  OBVIOUS
<1>2. \A i \in 1..(Len(s) + 1) : i \in 1..Len(s) \/ i = Len(s) + 1
  BY <1>1
<1>3. \A i \in 1..Len(s) : i \in 1..(Len(s) + 1)
  BY <1>1
<1>4. Len(s) + 1 \in 1..(Len(s) + 1)
  BY <1>1
<1>. HIDE DEF t
<1>. QED BY <1>1, <1>2, <1>3, <1>4 DEF Range, t

\* What is in a sequence of packets is a packet.
LEMMA RangeInside ==
  ASSUME NEW s \in Seq(Packets)
  PROVE  Range(s) \subseteq Packets
  BY DEF Range

\* What the gate keeps true of its packets.
Distinct == HeldOnce /\ LeavesOrStays /\ ArrivesNew

\* Every step of the gate keeps them distinct.
LEMMA StepDistinct ==
  ASSUME None \notin Packets, Distinct, [Next]_vars
  PROVE  Distinct'
<1>. USE DEF Distinct, HeldOnce, LeavesOrStays, ArrivesNew
<1>1. ASSUME NEW p \in Packets, Arrive(p) PROVE Distinct'
  BY <1>1, FewDistinct DEF Arrive
<1>2. CASE Pass
  <2>1. arriving \in Packets /\ out' = <<arriving>> /\ arriving' = None /\ UNCHANGED held
    BY <1>2 DEF Pass
  <2>2. /\ out' \in Seq(Packets) /\ IsInjective(out') /\ Range(out') = {arriving}
    BY <2>1, FewDistinct
  <2>3. None \notin Range(held')
    BY <2>1, RangeInside
  <2>. QED BY <2>1, <2>2, <2>3
<1>3. CASE Hold
  <2>1. arriving \in Packets
    BY <1>3 DEF Hold
  <2>2. held' \in Seq(Packets) /\ IsInjective(held') /\ out' = <<>> /\ arriving' = None
    BY <1>3, <2>1, AppendDistinct DEF Hold
  <2>3. None \notin Range(held')
    BY <2>2, RangeInside
  <2>. QED BY <2>2, <2>3, FewDistinct
<1>4. CASE Release
  BY <1>4, FewDistinct DEF Release
<1>5. CASE Discard \/ Rest
  BY <1>5, FewDistinct DEF Discard, Rest
<1>6. CASE UNCHANGED vars
  BY <1>6 DEF vars
<1>. QED BY <1>1, <1>2, <1>3, <1>4, <1>5, <1>6 DEF Next

\* Whatever the gate does, a packet is held once and not sent while it is held.
THEOREM NeverBoth ==
  ASSUME None \notin Packets
  PROVE  Spec => [](HeldOnce /\ LeavesOrStays /\ ArrivesNew)
<1>1. Init => Distinct
  BY FewDistinct DEF Init, Distinct, HeldOnce, LeavesOrStays, ArrivesNew
<1>2. Distinct /\ [Next]_vars => Distinct'
  BY StepDistinct
<1>. QED BY <1>1, <1>2, PTL DEF Spec, Distinct

\* Whatever the gate does, it loses no packet but on an occasion: one that arrives
\* is sent or held, and one that is held stays until it is sent.
THEOREM GateLosesNone ==
  ASSUME None \notin Packets
  PROVE  Spec => NoneLost
<1>1. HeldOnce /\ LeavesOrStays /\ ArrivesNew /\ [Next]_vars =>
        [occasion = "none" => UnderWay \subseteq Range(out') \cup UnderWay']_vars
  <2>. SUFFICES ASSUME HeldOnce, LeavesOrStays, ArrivesNew, Next, occasion = "none"
                PROVE  UnderWay \subseteq Range(out') \cup UnderWay'
    OBVIOUS
  <2>. USE DEF UnderWay
  <2>1. ASSUME NEW p \in Packets, Arrive(p)
        PROVE  UnderWay \subseteq Range(out') \cup UnderWay'
    BY <2>1 DEF Arrive
  <2>2. CASE Pass
    <3>1. Range(<<arriving>>) = {arriving}
      BY <2>2, FewDistinct DEF Pass, ArrivesNew
    <3>. QED BY <2>2, <3>1 DEF Pass
  <2>3. CASE Hold
    <3>1. Range(Append(held, arriving)) = Range(held) \cup {arriving}
      BY <2>3, AppendRange DEF Hold, ArrivesNew, HeldOnce
    <3>. QED BY <2>3, <3>1 DEF Hold
  <2>4. CASE Release
    BY <2>4 DEF Release
  <2>5. CASE Discard \/ Rest
    BY <2>5 DEF Discard, Rest
  <2>. QED BY <2>1, <2>2, <2>3, <2>4, <2>5 DEF Next
<1>. QED BY <1>1, NeverBoth, PTL DEF Spec, NoneLost
=============================================================================
