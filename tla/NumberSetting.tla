---------------------------- MODULE NumberSetting ----------------------------
(***************************************************************************)
(* The rule of a number setting (NumberValue): a value is brought into the *)
(* range MIN..MAX and then to the nearest multiple of the step, halves     *)
(* upwards.  Numbers are counted in a unit fine enough for the bounds, the *)
(* step and the default to be whole.                                       *)
(***************************************************************************)
EXTENDS Integers

CONSTANTS MIN, MAX, STEP

ASSUME NumberSettingAssumption ==
  MIN \in Int /\ MAX \in Int /\ MIN <= MAX /\ STEP \in Nat \ {0}

Clamped(v) == CASE v < MIN -> MIN
                [] v > MAX -> MAX
                [] OTHER   -> v

\* Mutant: the next multiple of the step, not the nearest.
RoundedUp(v) == (v \div STEP + 1) * STEP

\* Math.round(x / step) * step
Rounded(v) == ((2 * v + STEP) \div (2 * STEP)) * STEP

\* Mutant: the lower bound only.
ForcedAbove(v) == Rounded(IF v < MIN THEN MIN ELSE v)

\* setValue and forceSet
Forced(v) == Rounded(Clamped(v))
=============================================================================
