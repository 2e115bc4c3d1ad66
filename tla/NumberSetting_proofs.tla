------------------------- MODULE NumberSetting_proofs -------------------------
(***************************************************************************)
(* The rule of a number setting, for every range, step and value.          *)
(***************************************************************************)
EXTENDS NumberSetting, TLAPS

\* Clamping brings a value into the range.
LEMMA ClampedInRange ==
  ASSUME NEW v \in Int
  PROVE  Clamped(v) \in MIN..MAX
  BY NumberSettingAssumption DEF Clamped

\* What a quotient says of the number divided.
LEMMA Division ==
  ASSUME NEW a \in Int, NEW b \in Nat \ {0}
  PROVE  /\ a \div b \in Int
         /\ b * (a \div b) <= a /\ a < b * (a \div b) + b
  OBVIOUS

\* The quotient is the only number of which that holds.
LEMMA Quotient ==
  ASSUME NEW a \in Int, NEW b \in Nat \ {0}, NEW q \in Int, b * q <= a, a < b * q + b
  PROVE  a \div b = q
  OBVIOUS

\* Rounding moves a number by half a step at most, to a multiple of the step.
LEMMA RoundedNear ==
  ASSUME NEW c \in Int
  PROVE  /\ \E q \in Int : Rounded(c) = q * STEP
         /\ Rounded(c) \in Int
         /\ 2 * Rounded(c) <= 2 * c + STEP
         /\ 2 * c - STEP < 2 * Rounded(c)
<1>. DEFINE q == (2 * c + STEP) \div (2 * STEP)
<1>1. 2 * c + STEP \in Int /\ 2 * STEP \in Nat \ {0} /\ STEP \in Int
  BY NumberSettingAssumption
<1>2. /\ q \in Int
      /\ (2 * STEP) * q <= 2 * c + STEP /\ 2 * c + STEP < (2 * STEP) * q + 2 * STEP
  BY <1>1, Division
<1>3. q * STEP \in Int /\ (2 * STEP) * q = 2 * (q * STEP)
  BY <1>1, <1>2
<1>4. Rounded(c) = q * STEP
  BY DEF Rounded
<1>. QED BY <1>1, <1>2, <1>3, <1>4

\* It is the only multiple of the step that is so near (halves go upwards).
LEMMA RoundedUnique ==
  ASSUME NEW c \in Int, NEW r \in Int, NEW q \in Int, r = q * STEP,
         2 * r <= 2 * c + STEP, 2 * c - STEP < 2 * r
  PROVE  Rounded(c) = r
<1>1. 2 * c + STEP \in Int /\ 2 * STEP \in Nat \ {0} /\ STEP \in Int
  BY NumberSettingAssumption
<1>2. (2 * STEP) * q = 2 * r
  BY <1>1
<1>3. (2 * STEP) * q <= 2 * c + STEP /\ 2 * c + STEP < (2 * STEP) * q + 2 * STEP
  BY <1>1, <1>2
<1>4. (2 * c + STEP) \div (2 * STEP) = q
  BY <1>1, <1>3, Quotient
<1>. QED BY <1>4 DEF Rounded

\* A value that was set lies in the range or within half a step of it
\* (NumberValue.setValue, forceSet).
THEOREM ForcedNearRange ==
  ASSUME NEW v \in Int
  PROVE  /\ Forced(v) \in Int
         /\ 2 * Forced(v) \in (2 * MIN - STEP)..(2 * MAX + STEP)
<1>1. Clamped(v) \in Int /\ MIN <= Clamped(v) /\ Clamped(v) <= MAX
  BY ClampedInRange, NumberSettingAssumption
<1>2. /\ Forced(v) \in Int
      /\ 2 * Forced(v) <= 2 * Clamped(v) + STEP
      /\ 2 * Clamped(v) - STEP < 2 * Forced(v)
  BY <1>1, RoundedNear DEF Forced
<1>. QED BY <1>1, <1>2, NumberSettingAssumption

\* A value that was set and saved comes back as it was, also when rounding has
\* moved it out of the range: forceSet changes nothing the second time.
THEOREM ForcedIdempotent ==
  ASSUME NEW v \in Int
  PROVE  Forced(Forced(v)) = Forced(v)
<1>. DEFINE c == Clamped(v)
            r == Forced(v)
            d == Clamped(r)
<1>1. c \in Int /\ MIN <= c /\ c <= MAX
  BY ClampedInRange, NumberSettingAssumption
<1>2. /\ r \in Int /\ \E q \in Int : r = q * STEP
      /\ 2 * r <= 2 * c + STEP /\ 2 * c - STEP < 2 * r
  BY <1>1, RoundedNear DEF Forced
<1>3. d \in Int
  BY <1>2, ClampedInRange, NumberSettingAssumption
<1>4. 2 * r <= 2 * d + STEP /\ 2 * d - STEP < 2 * r
  <2>1. CASE r < MIN
    BY <2>1, <1>1, <1>2, NumberSettingAssumption DEF Clamped
  <2>2. CASE r > MAX
    BY <2>2, <1>1, <1>2, NumberSettingAssumption DEF Clamped
  <2>3. CASE MIN <= r /\ r <= MAX
    BY <2>3, <1>2, NumberSettingAssumption DEF Clamped
  <2>. QED BY <2>1, <2>2, <2>3, <1>2, NumberSettingAssumption
<1>5. PICK q \in Int : r = q * STEP
  BY <1>2
<1>6. Rounded(d) = r
  <2>. HIDE DEF d, r
  <2>. QED BY <1>2, <1>3, <1>4, <1>5, RoundedUnique
<1>. QED BY <1>6 DEF Forced
=============================================================================
