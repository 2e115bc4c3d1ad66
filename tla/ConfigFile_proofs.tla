-------------------------- MODULE ConfigFile_proofs --------------------------
(***************************************************************************)
(* What loading and saving do to the settings, for every number of         *)
(* modules and every range, step and default of the number.                *)
(***************************************************************************)
EXTENDS ConfigFile, NumberSetting_proofs

\* What the file says of module m, as a load brings it into force.
Target(m) == [on |-> file[m].on, num |-> Forced(file[m].num)]

\* The modules that a load has come past are as the file says; the switch of
\* the one it is at is compared, then toggled, and the number follows.
LoadGoesOn ==
  quiet =>
    /\ gl \in {"state", "flip", "number"} =>
         \A m \in Mods : m < index => live[m] = Target(m)
    /\ gl = "flip" => live[index].on # file[index].on
    /\ gl = "number" => live[index].on = file[index].on

\* Outside the two loops the index stands at the first module.
AtFirst ==
  gl \notin {"state", "flip", "number", "takeState", "takeNumber"} => index = 1

IInv == /\ TypeOK /\ AtFirst /\ LoadGoesOn
        /\ RestoresSaved /\ OnlyWritesLose /\ WithinHalfStep

-----------------------------------------------------------------------------

\* The loops over the modules start at one and go on inside the range.
LEMMA OneIsAModule == 1 \in Mods /\ Mods \subseteq Nat /\ \A m \in Mods : m < N => m + 1 \in Mods
  BY ConfigFileAssumption DEF Mods

\* A file that says something of every module is not the cut one.
LEMMA WholeIsNotCut == \A f \in [Mods -> Setting] : f # Cut
  BY OneIsAModule DEF Cut

\* The defaults are settings.
LEMMA FreshOK == Fresh \in [Mods -> Setting]
  BY ConfigFileAssumption DEF Fresh, Setting

\* Changing the switch or the number of a setting gives a setting.
LEMMA SettingOK ==
  ASSUME NEW s \in Setting
  PROVE  /\ s.on \in BOOLEAN /\ s.num \in Int
         /\ [s EXCEPT !.on = ~@] \in Setting
         /\ \A b \in BOOLEAN : [s EXCEPT !.on = b] \in Setting
         /\ \A n \in Int : [s EXCEPT !.num = n] \in Setting
  BY DEF Setting

\* Changing the setting of one module gives settings of all modules.
LEMMA OneChanged ==
  ASSUME NEW f \in [Mods -> Setting], NEW m \in Mods, NEW s \in Setting
  PROVE  [f EXCEPT ![m] = s] \in [Mods -> Setting] /\ f[m] \in Setting
  OBVIOUS

\* The inductive invariant holds when the process starts.
LEMMA InitHolds == Init => IInv
<1>. SUFFICES ASSUME Init PROVE IInv
  OBVIOUS
<1>1. SettingsOK
  BY FreshOK DEF Init, SettingsOK
<1>2. PlaceOK /\ Flags
  BY OneIsAModule DEF Init, PlaceOK, Flags
<1>3. AtFirst /\ LoadGoesOn /\ RestoresSaved
  BY DEF Init, AtFirst, LoadGoesOn, RestoresSaved
<1>4. OnlyWritesLose /\ WithinHalfStep
  BY DEF Init, OnlyWritesLose, WithinHalfStep, Fresh
<1>. QED BY <1>1, <1>2, <1>3, <1>4 DEF IInv, TypeOK

-----------------------------------------------------------------------------
(* Types *)

\* Every step keeps settings, file and draft what they are.
LEMMA SettingsInductive ==
  ASSUME SettingsOK, PlaceOK, [Next]_vars
  PROVE  SettingsOK'
<1>1. CASE UNCHANGED <<live, draft, file>>
  BY <1>1 DEF SettingsOK
<1>2. CASE FlipState
  <2>1. live' = [live EXCEPT ![index] = [live[index] EXCEPT !.on = ~@]]
    BY <1>2 DEF FlipState
  <2>. QED BY <1>2, <2>1, SettingOK DEF FlipState, SettingsOK, PlaceOK
<1>3. CASE ForceNumber
  <2>1. file \in [Mods -> Setting]
    BY <1>3 DEF ForceNumber, NextModule, From, SettingsOK, PlaceOK
  <2>2. Forced(file[index].num) \in Int
    BY <2>1, SettingOK, ForcedNearRange DEF PlaceOK
  <2>3. live' = [live EXCEPT ![index] = [live[index] EXCEPT !.num = Forced(file[index].num)]]
    BY <1>3 DEF ForceNumber
  <2>4. [live[index] EXCEPT !.num = Forced(file[index].num)] \in Setting
    BY <2>2, SettingOK DEF SettingsOK, PlaceOK
  <2>. QED BY <1>3, <2>3, <2>4, OneChanged DEF ForceNumber, SettingsOK, PlaceOK
<1>4. CASE TakeState
  <2>1. live[index].on \in BOOLEAN
    BY SettingOK DEF SettingsOK, PlaceOK
  <2>2. draft' = [draft EXCEPT ![index] = [draft[index] EXCEPT !.on = live[index].on]]
    BY <1>4 DEF TakeState
  <2>3. [draft[index] EXCEPT !.on = live[index].on] \in Setting
    BY <2>1, SettingOK DEF SettingsOK, PlaceOK
  <2>. QED BY <1>4, <2>2, <2>3, OneChanged DEF TakeState, SettingsOK, PlaceOK
<1>5. CASE TakeNumber
  <2>1. live[index].num \in Int
    BY SettingOK DEF SettingsOK, PlaceOK
  <2>2. draft' = [draft EXCEPT ![index] = [draft[index] EXCEPT !.num = live[index].num]]
    BY <1>5 DEF TakeNumber
  <2>3. [draft[index] EXCEPT !.num = live[index].num] \in Setting
    BY <2>1, SettingOK DEF SettingsOK, PlaceOK
  <2>. QED BY <1>5, <2>2, <2>3, OneChanged DEF TakeNumber, SettingsOK, PlaceOK
<1>6. CASE OpenFile \/ WriteFile \/ SaveFails \/ Crash
  BY <1>6, FreshOK DEF OpenFile, WriteFile, SaveFails, Crash, SettingsOK
<1>7. ASSUME NEW m \in Mods, Toggle(m)
      PROVE  SettingsOK'
  <2>1. live' = [live EXCEPT ![m] = [live[m] EXCEPT !.on = ~@]]
    BY <1>7 DEF Toggle
  <2>. QED BY <1>7, <2>1, SettingOK DEF Toggle, SettingsOK
<1>8. ASSUME NEW m \in Mods, SetNumber(m)
      PROVE  SettingsOK'
  <2>1. live[m].num + STEP \in Int /\ live[m].num - STEP \in Int /\ MIN..MAX \subseteq Int
    <3>1. live[m].num \in Int
      BY SettingOK DEF SettingsOK
    <3>2. STEP \in Int
      BY NumberSettingAssumption
    <3>. QED BY <3>1, <3>2, NumberSettingAssumption
  <2>2. PICK v \in Int : live' = [live EXCEPT ![m].num = Forced(v)]
    BY <1>8, <2>1 DEF SetNumber
  <2>3. live' = [live EXCEPT ![m] = [live[m] EXCEPT !.num = Forced(v)]]
    BY <2>2
  <2>. QED BY <1>8, <2>3, ForcedNearRange, SettingOK DEF SetNumber, SettingsOK
<1>9. CASE SurfaceCreated \/ Parse \/ CompareState \/ LoadReturns \/ BeginSave
           \/ UNCHANGED vars
  BY <1>1, <1>9 DEF SurfaceCreated, Parse, CompareState, LoadReturns, BeginSave, vars
<1>. QED BY <1>2, <1>3, <1>4, <1>5, <1>6, <1>7, <1>8, <1>9
         DEF Next, GLStep, Disturbance, UserActs

\* Going on to the next module stays among the modules.
LEMMA NextModuleOK ==
  ASSUME index \in Mods, NEW a, NEW b, NEW c, NextModule(a, b, c)
  PROVE  /\ gl = a /\ gl' \in {b, c} /\ index' \in Mods
         /\ gl' = b \/ index' = 1
  BY OneIsAModule DEF NextModule, From, Mods

\* Every step keeps the GL thread at one of its places.
LEMMA PlaceInductive ==
  ASSUME SettingsOK, PlaceOK, AtFirst, [Next]_vars
  PROVE  PlaceOK' /\ AtFirst'
<1>. USE DEF PlaceOK, AtFirst, From
<1>1. CASE SurfaceCreated \/ BeginSave \/ CompareState \/ FlipState
  BY <1>1 DEF SurfaceCreated, BeginSave, CompareState, FlipState
<1>2. CASE Parse \/ LoadReturns \/ TakeState \/ OpenFile \/ WriteFile \/ SaveFails
  BY <1>2 DEF Parse, LoadReturns, TakeState, OpenFile, WriteFile, SaveFails
<1>3. CASE ForceNumber
  BY <1>3, NextModuleOK DEF ForceNumber
<1>4. CASE TakeNumber
  BY <1>4, NextModuleOK DEF TakeNumber
<1>5. CASE Crash
  BY <1>5, OneIsAModule DEF Crash
<1>6. CASE UserActs
  BY <1>6 DEF UserActs, Toggle, SetNumber, glVars
<1>7. CASE UNCHANGED vars
  BY <1>7 DEF vars, glVars
<1>. QED BY <1>1, <1>2, <1>3, <1>4, <1>5, <1>6, <1>7 DEF Next, GLStep, Disturbance

\* Every step writes truth values to the flags.
LEMMA FlagsInductive ==
  ASSUME Flags, [Next]_vars
  PROVE  Flags'
<1>. USE DEF Flags
<1>1. CASE SurfaceCreated \/ BeginSave \/ Parse \/ CompareState \/ FlipState \/ ForceNumber
           \/ LoadReturns \/ TakeState \/ TakeNumber \/ OpenFile
  BY <1>1 DEF SurfaceCreated, BeginSave, Parse, CompareState, FlipState, ForceNumber,
              LoadReturns, TakeState, TakeNumber, OpenFile
<1>2. CASE WriteFile \/ SaveFails
  BY <1>2 DEF WriteFile, SaveFails
<1>3. CASE Crash
  BY <1>3 DEF Crash
<1>4. CASE UserActs
  BY <1>4 DEF UserActs, Toggle, SetNumber
<1>5. CASE UNCHANGED vars
  BY <1>5 DEF vars
<1>. QED BY <1>1, <1>2, <1>3, <1>4, <1>5 DEF Next, GLStep, Disturbance

-----------------------------------------------------------------------------
(* What is lost, and what numbers become *)

\* Only the write makes the file unreadable.
LEMMA LossInductive ==
  ASSUME SettingsOK, OnlyWritesLose, [Next]_vars
  PROVE  OnlyWritesLose'
<1>. USE DEF OnlyWritesLose, From
<1>1. CASE SurfaceCreated \/ BeginSave \/ Parse \/ CompareState \/ FlipState
           \/ LoadReturns \/ TakeState
  BY <1>1 DEF SurfaceCreated, BeginSave, Parse, CompareState, FlipState,
              LoadReturns, TakeState
<1>2. CASE ForceNumber \/ TakeNumber
  BY <1>2 DEF ForceNumber, TakeNumber, NextModule
<1>3. CASE OpenFile
  BY <1>3 DEF OpenFile
<1>4. CASE WriteFile
  BY <1>4, WholeIsNotCut DEF WriteFile, SettingsOK
<1>5. CASE SaveFails
  BY <1>5 DEF SaveFails
<1>6. CASE Crash
  BY <1>6 DEF Crash
<1>7. CASE UserActs
  BY <1>7 DEF UserActs, Toggle, SetNumber, glVars
<1>8. CASE UNCHANGED vars
  BY <1>8 DEF vars, glVars
<1>. QED BY <1>1, <1>2, <1>3, <1>4, <1>5, <1>6, <1>7, <1>8 DEF Next, GLStep, Disturbance

\* A number is set by the rule, or left.
LEMMA NumbersSet ==
  ASSUME SettingsOK, PlaceOK, ForceNumber \/ UserActs, NEW m \in Mods
  PROVE  live'[m].num = live[m].num \/ \E v \in Int : live'[m].num = Forced(v)
<1>1. CASE ForceNumber
  <2>1. live' = [live EXCEPT ![index] = [live[index] EXCEPT !.num = Forced(file[index].num)]]
    BY <1>1 DEF ForceNumber
  <2>2. file[index].num \in Int
    BY <1>1, SettingOK DEF ForceNumber, NextModule, From, SettingsOK, PlaceOK
  <2>. QED BY <2>1, <2>2, SettingOK DEF SettingsOK, PlaceOK, Setting
<1>2. ASSUME NEW k \in Mods, Toggle(k)
      PROVE  live'[m].num = live[m].num
  <2>1. live' = [live EXCEPT ![k] = [live[k] EXCEPT !.on = ~@]]
    BY <1>2 DEF Toggle
  <2>. QED BY <2>1 DEF SettingsOK, Setting
<1>3. ASSUME NEW k \in Mods, SetNumber(k)
      PROVE  live'[m].num = live[m].num \/ \E v \in Int : live'[m].num = Forced(v)
  <2>1. live[k].num \in Int
    BY SettingOK DEF SettingsOK
  <2>2. live[k].num + STEP \in Int /\ live[k].num - STEP \in Int /\ MIN..MAX \subseteq Int
    BY <2>1, NumberSettingAssumption
  <2>3. PICK v \in Int : live' = [live EXCEPT ![k].num = Forced(v)]
    BY <1>3, <2>1, <2>2 DEF SetNumber
  <2>4. live' = [live EXCEPT ![k] = [live[k] EXCEPT !.num = Forced(v)]]
    BY <2>3
  <2>. QED BY <2>4 DEF SettingsOK, Setting
<1>. QED BY <1>1, <1>2, <1>3 DEF UserActs

\* Every number that is set was forced.
LEMMA NumbersInductive ==
  ASSUME SettingsOK, PlaceOK, WithinHalfStep, [Next]_vars
  PROVE  WithinHalfStep'
<1>1. CASE ForceNumber \/ UserActs
  BY <1>1, NumbersSet, ForcedNearRange DEF WithinHalfStep
<1>2. CASE FlipState
  <2>1. live' = [live EXCEPT ![index] = [live[index] EXCEPT !.on = ~@]]
    BY <1>2 DEF FlipState
  <2>2. \A m \in Mods : live'[m].num = live[m].num
    BY <2>1 DEF SettingsOK, Setting
  <2>. QED BY <2>2 DEF WithinHalfStep
<1>3. CASE Crash
  BY <1>3 DEF Crash, Fresh, WithinHalfStep
<1>4. CASE UNCHANGED live
  BY <1>4 DEF WithinHalfStep
<1>5. CASE \/ SurfaceCreated \/ Parse \/ CompareState \/ LoadReturns \/ BeginSave
           \/ TakeState \/ TakeNumber \/ OpenFile \/ WriteFile \/ SaveFails \/ UNCHANGED vars
  BY <1>4, <1>5 DEF SurfaceCreated, Parse, CompareState, LoadReturns, BeginSave,
       TakeState, TakeNumber, OpenFile, WriteFile, SaveFails, vars
<1>. QED BY <1>1, <1>2, <1>3, <1>5 DEF Next, GLStep, Disturbance

-----------------------------------------------------------------------------
(* The load *)

Load == LoadGoesOn /\ RestoresSaved

\* A step that takes the GL thread elsewhere, or makes the user's hand seen.
LEMMA NotLoading ==
  ASSUME \/ ~quiet'
         \/ gl' \notin {"state", "flip", "number", "loaded"}
  PROVE  Load'
  BY DEF Load, LoadGoesOn, RestoresSaved

\* A load starts with no module restored.
LEMMA ParseKeeps ==
  ASSUME PlaceOK, AtFirst, Parse
  PROVE  Load'
<1>1. index' = 1 /\ (gl' = "state" \/ (gl' = "loaded" /\ file' = Cut))
  BY DEF Parse, From, AtFirst
<1>2. \A m \in Mods : ~(m < 1)
  BY DEF Mods
<1>. QED BY <1>1, <1>2 DEF Load, LoadGoesOn, RestoresSaved

\* A switch that needs no flip is as the file says.
LEMMA CompareKeeps ==
  ASSUME SettingsOK, PlaceOK, Load, CompareState
  PROVE  Load'
<1>1. UNCHANGED <<live, file, index, quiet>> /\ gl = "state" /\ gl' \in {"flip", "number"}
  BY DEF CompareState
<1>2. \A m \in Mods : Target(m)' = Target(m)
  BY <1>1 DEF Target
<1>3. gl' = "flip" => live[index].on # file[index].on
  BY DEF CompareState
<1>4. gl' = "number" => live[index].on = file[index].on
  BY DEF CompareState
<1>. QED BY <1>1, <1>2, <1>3, <1>4 DEF Load, LoadGoesOn, RestoresSaved

\* A switch that is flipped is as the file says.
LEMMA FlipKeeps ==
  ASSUME SettingsOK, PlaceOK, Load, FlipState
  PROVE  Load'
<1>1. UNCHANGED <<file, index, quiet>> /\ gl = "flip" /\ gl' = "number"
  BY DEF FlipState, From
<1>2. live' = [live EXCEPT ![index] = [live[index] EXCEPT !.on = ~@]]
  BY DEF FlipState
<1>3. \A m \in Mods : m < index => live'[m] = live[m]
  BY <1>2, OneIsAModule DEF SettingsOK, PlaceOK
<1>4. \A m \in Mods : Target(m)' = Target(m)
  BY <1>1 DEF Target
<1>5. live'[index].on = ~live[index].on
  BY <1>2 DEF SettingsOK, PlaceOK, Setting
<1>6. file[index].on \in BOOLEAN /\ live[index].on \in BOOLEAN
  BY <1>1, SettingOK DEF SettingsOK, PlaceOK
<1>7. quiet => live'[index].on = file[index].on
  BY <1>1, <1>5, <1>6 DEF Load, LoadGoesOn
<1>. QED BY <1>1, <1>3, <1>4, <1>7 DEF Load, LoadGoesOn, RestoresSaved

\* A module whose number was forced is restored.
LEMMA ForceKeeps ==
  ASSUME SettingsOK, PlaceOK, Load, ForceNumber
  PROVE  Load'
<1>1. /\ UNCHANGED <<file, quiet>> /\ gl = "number"
      /\ \/ gl' = "state" /\ index < N /\ index' = index + 1
         \/ gl' = "loaded" /\ ~(index < N)
  BY DEF ForceNumber, NextModule, From
<1>2. live' = [live EXCEPT ![index] = [live[index] EXCEPT !.num = Forced(file[index].num)]]
  BY DEF ForceNumber
<1>3. \A m \in Mods : m < index => live'[m] = live[m]
  BY <1>2, OneIsAModule DEF SettingsOK, PlaceOK
<1>4. \A m \in Mods : Target(m)' = Target(m)
  BY <1>1 DEF Target
<1>5. quiet => live'[index] = Target(index)
  <2>1. live'[index] = [live[index] EXCEPT !.num = Forced(file[index].num)]
    BY <1>2 DEF SettingsOK, PlaceOK
  <2>2. quiet => live[index].on = file[index].on
    BY <1>1 DEF Load, LoadGoesOn
  <2>3. live[index] \in Setting
    BY DEF SettingsOK, PlaceOK
  <2>4. [live[index] EXCEPT !.num = Forced(file[index].num)]
          = [on |-> live[index].on, num |-> Forced(file[index].num)]
    BY <2>3 DEF Setting
  <2>. QED BY <2>1, <2>2, <2>4 DEF Target
<1>6. quiet => \A m \in Mods : m <= index => live'[m] = Target(m)
  <2>1. \A m \in Mods : m <= index => m < index \/ m = index
    BY OneIsAModule DEF PlaceOK
  <2>. QED BY <1>1, <1>3, <1>5, <2>1 DEF Load, LoadGoesOn
<1>7. CASE gl' = "state" /\ index' = index + 1
  <2>1. \A m \in Mods : m < index + 1 => m <= index
    BY OneIsAModule DEF PlaceOK
  <2>. QED BY <1>1, <1>4, <1>6, <1>7, <2>1 DEF Load, LoadGoesOn, RestoresSaved
<1>8. CASE gl' = "loaded" /\ ~(index < N)
  <2>1. \A m \in Mods : m <= index
    BY <1>8, ConfigFileAssumption DEF PlaceOK, Mods
  <2>. QED BY <1>1, <1>4, <1>6, <1>8, <2>1 DEF Load, LoadGoesOn, RestoresSaved, Target
<1>. QED BY <1>1, <1>7, <1>8

\* Every step keeps how far a load has come.
LEMMA LoadInductive ==
  ASSUME SettingsOK, PlaceOK, AtFirst, Load, [Next]_vars
  PROVE  Load'
<1>1. CASE Parse
  BY <1>1, ParseKeeps
<1>2. CASE CompareState
  BY <1>2, CompareKeeps
<1>3. CASE FlipState
  BY <1>3, FlipKeeps
<1>4. CASE ForceNumber
  BY <1>4, ForceKeeps
<1>5. CASE UserActs
  BY <1>5, NotLoading DEF UserActs, Toggle, SetNumber
<1>6. CASE SurfaceCreated \/ LoadReturns \/ BeginSave \/ Crash \/ SaveFails
  BY <1>6, NotLoading DEF SurfaceCreated, LoadReturns, BeginSave, Crash, SaveFails, From
<1>7. CASE TakeState \/ TakeNumber \/ OpenFile \/ WriteFile
  BY <1>7, NotLoading DEF TakeState, TakeNumber, OpenFile, WriteFile, NextModule, From
<1>8. CASE UNCHANGED vars
  BY <1>8 DEF vars, glVars, Load, LoadGoesOn, RestoresSaved, Target
<1>. QED BY <1>1, <1>2, <1>3, <1>4, <1>5, <1>6, <1>7, <1>8 DEF Next, GLStep, Disturbance

-----------------------------------------------------------------------------
(* Theorems *)

\* Every reachable state satisfies the inductive invariant: besides the
\* properties below, how far a load has come (ConfigManager.read).
THEOREM Inductive == Spec => []IInv
<1>1. IInv /\ [Next]_vars => IInv'
  BY SettingsInductive, PlaceInductive, FlagsInductive, LossInductive, NumbersInductive,
     LoadInductive
  DEF IInv, TypeOK, Load
<1>. QED BY InitHolds, <1>1, PTL DEF Spec

\* Every reachable state is well typed.
THEOREM TypeCorrect == Spec => []TypeOK
<1>1. IInv => TypeOK
  BY DEF IInv
<1>. QED BY <1>1, Inductive, PTL

\* A load that the user does not disturb leaves every module as the file says,
\* whatever was in force before (ConfigManager.read).
THEOREM LoadRestores == Spec => []RestoresSaved
<1>1. IInv => RestoresSaved
  BY DEF IInv
<1>. QED BY <1>1, Inductive, PTL

\* The file is unreadable only inside a write or after one that was cut short
\* (ConfigManager.write).
THEOREM LossIsExplained == Spec => []OnlyWritesLose
<1>1. IInv => OnlyWritesLose
  BY DEF IInv
<1>. QED BY <1>1, Inductive, PTL

\* A number is its default or within half a step of its range
\* (NumberValue.forceSet, setValue).
THEOREM NumbersNearRange == Spec => []WithinHalfStep
<1>1. IInv => WithinHalfStep
  BY DEF IInv
<1>. QED BY <1>1, Inductive, PTL

-----------------------------------------------------------------------------
(* Saved numbers come back *)

\* A number that loading leaves as it is: what the rule makes of any number,
\* but not every default.
FixedIn(f, m) == Forced(f[m].num) = f[m].num

StableIn(f) == \A m \in Mods : f[m].num = DEFAULT \/ FixedIn(f, m)

\* In force, being collected or saved: whatever is not the default is fixed.
NumbersStable == StableIn(live) /\ StableIn(draft) /\ (file # Cut => StableIn(file))

\* Of a setting of one module that changes, only its own number matters.
LEMMA StableKept ==
  ASSUME NEW f \in [Mods -> Setting], StableIn(f), NEW k \in Mods, NEW s \in Setting,
         s.num = DEFAULT \/ Forced(s.num) = s.num
  PROVE  StableIn([f EXCEPT ![k] = s])
  BY DEF StableIn, FixedIn

\* The defaults are stable.
LEMMA FreshStable == StableIn(Fresh)
  BY DEF Fresh, StableIn

\* The numbers in force stay stable: they are set by the rule, which changes
\* nothing the second time.
LEMMA LiveStable ==
  ASSUME SettingsOK, PlaceOK, StableIn(live), [Next]_vars
  PROVE  StableIn(live)'
<1>1. CASE ForceNumber \/ UserActs
  <2>1. SUFFICES ASSUME NEW m \in Mods
                 PROVE  live'[m].num = DEFAULT \/ Forced(live'[m].num) = live'[m].num
    BY DEF StableIn, FixedIn
  <2>2. live'[m].num = live[m].num \/ \E v \in Int : live'[m].num = Forced(v)
    BY <1>1, NumbersSet
  <2>3. CASE live'[m].num = live[m].num
    BY <2>3 DEF StableIn, FixedIn
  <2>4. CASE \E v \in Int : live'[m].num = Forced(v)
    BY <2>4, ForcedIdempotent
  <2>. QED BY <2>2, <2>3, <2>4
<1>2. CASE FlipState
  <2>1. live' = [live EXCEPT ![index] = [live[index] EXCEPT !.on = ~@]]
    BY <1>2 DEF FlipState
  <2>2. \A m \in Mods : live'[m].num = live[m].num
    BY <2>1 DEF SettingsOK, Setting
  <2>. QED BY <2>2 DEF StableIn, FixedIn
<1>3. CASE Crash
  BY <1>3, FreshStable DEF Crash
<1>4. CASE UNCHANGED live
  BY <1>4 DEF StableIn, FixedIn
<1>5. CASE \/ SurfaceCreated \/ Parse \/ CompareState \/ LoadReturns \/ BeginSave
           \/ TakeState \/ TakeNumber \/ OpenFile \/ WriteFile \/ SaveFails \/ UNCHANGED vars
  BY <1>4, <1>5 DEF SurfaceCreated, Parse, CompareState, LoadReturns, BeginSave,
       TakeState, TakeNumber, OpenFile, WriteFile, SaveFails, vars
<1>. QED BY <1>1, <1>2, <1>3, <1>5 DEF Next, GLStep, Disturbance

\* What is collected was in force.
LEMMA DraftStable ==
  ASSUME SettingsOK, PlaceOK, StableIn(live), StableIn(draft), [Next]_vars
  PROVE  StableIn(draft)'
<1>1. CASE TakeState
  <2>1. draft' = [draft EXCEPT ![index] = [draft[index] EXCEPT !.on = live[index].on]]
    BY <1>1 DEF TakeState
  <2>2. \A m \in Mods : draft'[m].num = draft[m].num
    BY <2>1 DEF SettingsOK, Setting
  <2>. QED BY <2>2 DEF StableIn, FixedIn
<1>2. CASE TakeNumber
  <2>1. draft' = [draft EXCEPT ![index] = [draft[index] EXCEPT !.num = live[index].num]]
    BY <1>2 DEF TakeNumber
  <2>2. [draft[index] EXCEPT !.num = live[index].num].num = live[index].num
    BY DEF SettingsOK, PlaceOK, Setting
  <2>3. live[index].num \in Int
    BY SettingOK DEF SettingsOK, PlaceOK
  <2>4. [draft[index] EXCEPT !.num = live[index].num] \in Setting
    BY <2>3, SettingOK DEF SettingsOK, PlaceOK
  <2>5. live[index].num = DEFAULT \/ Forced(live[index].num) = live[index].num
    BY DEF StableIn, FixedIn, PlaceOK
  <2>6. StableIn([draft EXCEPT ![index] = [draft[index] EXCEPT !.num = live[index].num]])
    BY <2>2, <2>4, <2>5, StableKept DEF SettingsOK, PlaceOK
  <2>. QED BY <2>1, <2>6 DEF StableIn, FixedIn
<1>3. CASE draft' = Fresh
  BY <1>3, FreshStable DEF StableIn, FixedIn
<1>4. CASE UNCHANGED draft
  BY <1>4 DEF StableIn, FixedIn
<1>5. CASE WriteFile \/ SaveFails \/ Crash
  BY <1>3, <1>5 DEF WriteFile, SaveFails, Crash
<1>6. CASE \/ SurfaceCreated \/ Parse \/ CompareState \/ FlipState \/ ForceNumber
           \/ LoadReturns \/ BeginSave \/ OpenFile \/ UserActs \/ UNCHANGED vars
  BY <1>4, <1>6 DEF SurfaceCreated, Parse, CompareState, FlipState, ForceNumber,
       LoadReturns, BeginSave, OpenFile, UserActs, Toggle, SetNumber, vars
<1>. QED BY <1>1, <1>2, <1>5, <1>6 DEF Next, GLStep, Disturbance

\* What is written was collected.
LEMMA FileStable ==
  ASSUME StableIn(draft), file # Cut => StableIn(file), [Next]_vars
  PROVE  (file # Cut => StableIn(file))'
<1>1. CASE WriteFile
  BY <1>1 DEF WriteFile, StableIn, FixedIn
<1>2. CASE OpenFile
  BY <1>2 DEF OpenFile, Cut
<1>3. CASE UNCHANGED file
  BY <1>3 DEF StableIn, FixedIn, Cut
<1>4. CASE \/ SurfaceCreated \/ Parse \/ CompareState \/ FlipState \/ ForceNumber
           \/ LoadReturns \/ BeginSave \/ TakeState \/ TakeNumber \/ Disturbance \/ UNCHANGED vars
  BY <1>3, <1>4 DEF SurfaceCreated, Parse, CompareState, FlipState, ForceNumber,
       LoadReturns, BeginSave, TakeState, TakeNumber, Disturbance, Crash, SaveFails,
       UserActs, Toggle, SetNumber, vars
<1>. QED BY <1>1, <1>2, <1>4 DEF Next, GLStep

\* Every number on its way through the file is one that comes back.
LEMMA StableInductive == Spec => []NumbersStable
<1>1. Init => NumbersStable
  BY FreshStable DEF Init, NumbersStable
<1>2. IInv /\ NumbersStable /\ [Next]_vars => NumbersStable'
  BY LiveStable, DraftStable, FileStable DEF IInv, TypeOK, NumbersStable
<1>. QED BY <1>1, <1>2, Inductive, PTL DEF Spec

\* A setting with a fixed number is what a load makes of it.
LEMMA SameSetting ==
  ASSUME NEW s \in Setting, Forced(s.num) = s.num
  PROVE  [on |-> s.on, num |-> Forced(s.num)] = s
  BY DEF Setting

\* After a load every module is as the file says to the last digit, unless its
\* number is a default that nobody has set: saving and loading does not wear
\* the numbers away (ConfigManager.read, write, NumberValue.forceSet).
THEOREM SavedNumbersReturn == Spec => []SavedReturns
<1>1. IInv /\ NumbersStable => SavedReturns
  <2>. SUFFICES ASSUME IInv, NumbersStable, gl = "loaded", quiet, file # Cut, NEW m \in Mods,
                       file[m].num # DEFAULT
                PROVE  live[m] = file[m]
    BY DEF SavedReturns
  <2>1. live[m] = [on |-> file[m].on, num |-> Forced(file[m].num)]
    BY DEF IInv, RestoresSaved
  <2>2. file[m] \in Setting
    BY DEF IInv, TypeOK, SettingsOK
  <2>3. Forced(file[m].num) = file[m].num
    BY DEF NumbersStable, StableIn, FixedIn
  <2>. QED BY <2>1, <2>2, <2>3, SameSetting
<1>. QED BY <1>1, Inductive, StableInductive, PTL

-----------------------------------------------------------------------------
(* Once saved, a load changes nothing *)

\* What has been collected of the settings, wherever the save is.
Collected ==
  /\ gl \in {"takeState", "takeNumber"} => \A m \in Mods : m < index => draft[m] = live[m]
  /\ gl = "takeNumber" => draft[index].on = live[index].on
  /\ gl \in {"open", "write"} => draft = live

\* Every number is one that comes back, and the file says what is in force, or
\* what is about to be written does.
Settled ==
  /\ \A m \in Mods : FixedIn(live, m)
  /\ gl # "write" => file = live
  /\ gl # "flip"
  /\ Collected

\* A setting is its switch and its number.
LEMMA TwoParts ==
  ASSUME NEW s \in Setting, NEW t \in Setting, s.on = t.on, s.num = t.num
  PROVE  s = t
  BY DEF Setting

\* Loading a number that is in force already changes nothing.
LEMMA ForceChangesNothing ==
  ASSUME SettingsOK, PlaceOK, Settled, ForceNumber
  PROVE  live' = live
<1>1. gl # "write" /\ file = live /\ index \in Mods
  BY DEF Settled, ForceNumber, NextModule, From, PlaceOK
<1>2. live' = [live EXCEPT ![index] = [live[index] EXCEPT !.num = Forced(live[index].num)]]
  BY <1>1 DEF ForceNumber
<1>3. Forced(live[index].num) = live[index].num /\ live[index] \in Setting
  BY <1>1 DEF Settled, FixedIn, SettingsOK
<1>4. [live[index] EXCEPT !.num = live[index].num] = live[index]
  BY <1>3 DEF Setting
<1>. QED BY <1>1, <1>2, <1>3, <1>4 DEF SettingsOK

\* Collecting takes what is in force, module by module.
LEMMA CollectedGoesOn ==
  ASSUME SettingsOK, PlaceOK, AtFirst, Collected,
         BeginSave \/ TakeState \/ TakeNumber
  PROVE  Collected'
<1>1. CASE BeginSave
  <2>1. index' = 1 /\ gl' = "takeState"
    BY <1>1 DEF BeginSave, From, AtFirst
  <2>2. \A m \in Mods : ~(m < 1)
    BY DEF Mods
  <2>. QED BY <2>1, <2>2 DEF Collected
<1>2. CASE TakeState
  <2>1. /\ gl = "takeState" /\ gl' = "takeNumber" /\ UNCHANGED <<live, index>>
        /\ draft' = [draft EXCEPT ![index] = [draft[index] EXCEPT !.on = live[index].on]]
    BY <1>2 DEF TakeState, From
  <2>2. \A m \in Mods : m < index => draft'[m] = draft[m]
    BY <2>1, OneIsAModule DEF SettingsOK, PlaceOK
  <2>3. draft'[index].on = live[index].on
    BY <2>1 DEF SettingsOK, PlaceOK, Setting
  <2>. QED BY <2>1, <2>2, <2>3 DEF Collected
<1>3. CASE TakeNumber
  <2>1. /\ gl = "takeNumber" /\ UNCHANGED live
        /\ draft' = [draft EXCEPT ![index] = [draft[index] EXCEPT !.num = live[index].num]]
        /\ \/ gl' = "takeState" /\ index < N /\ index' = index + 1
           \/ gl' = "open" /\ ~(index < N)
    BY <1>3 DEF TakeNumber, NextModule, From
  <2>2. \A m \in Mods : m < index => draft'[m] = live[m]
    BY <2>1, OneIsAModule DEF SettingsOK, PlaceOK, Collected
  <2>3. draft'[index] = live[index]
    <3>1. /\ draft[index] \in Setting /\ live[index] \in Setting
          /\ draft[index].on = live[index].on
      BY <2>1 DEF SettingsOK, PlaceOK, Collected
    <3>2. draft'[index] = [draft[index] EXCEPT !.num = live[index].num]
      BY <2>1 DEF SettingsOK, PlaceOK
    <3>3. /\ draft'[index] \in Setting
          /\ draft'[index].on = live[index].on /\ draft'[index].num = live[index].num
      BY <3>1, <3>2 DEF Setting
    <3>. QED BY <3>1, <3>3, TwoParts
  <2>4. \A m \in Mods : m <= index => draft'[m] = live[m]
    <3>1. \A m \in Mods : m <= index => m < index \/ m = index
      BY OneIsAModule DEF PlaceOK
    <3>. QED BY <2>2, <2>3, <3>1
  <2>5. CASE gl' = "takeState" /\ index' = index + 1
    <3>1. \A m \in Mods : m < index + 1 => m <= index
      BY OneIsAModule DEF PlaceOK
    <3>. QED BY <2>1, <2>4, <2>5, <3>1 DEF Collected
  <2>6. CASE gl' = "open" /\ ~(index < N)
    <3>1. \A m \in Mods : m <= index
      BY <2>6, ConfigFileAssumption DEF PlaceOK, Mods
    <3>2. draft' \in [Mods -> Setting] /\ live \in [Mods -> Setting]
      BY <1>3, SettingsInductive DEF SettingsOK, Next, GLStep
    <3>3. draft' = live
      BY <2>4, <3>1, <3>2
    <3>. QED BY <2>1, <2>6, <3>3 DEF Collected
  <2>. QED BY <2>1, <2>5, <2>6
<1>. QED BY <1>1, <1>2, <1>3

\* No step of the GL thread unsettles the settings.
LEMMA SettledGoesOn ==
  ASSUME SettingsOK, PlaceOK, AtFirst, Settled, [Next]_vars, ~Disturbance
  PROVE  Settled' /\ live' = live
<1>. USE DEF From
<1>1. CASE BeginSave \/ TakeState \/ TakeNumber
  <2>1. UNCHANGED <<live, file>> /\ gl # "write" /\ gl' \notin {"write", "flip"}
    BY <1>1 DEF BeginSave, TakeState, TakeNumber, NextModule
  <2>. QED BY <1>1, <2>1, CollectedGoesOn DEF Settled, FixedIn
<1>2. CASE ForceNumber
  <2>1. live' = live /\ file' = file
    BY <1>2, ForceChangesNothing DEF ForceNumber
  <2>2. gl = "number" /\ gl' \in {"state", "loaded"}
    BY <1>2 DEF ForceNumber, NextModule
  <2>. QED BY <2>1, <2>2 DEF Settled, FixedIn, Collected
<1>3. CASE CompareState
  <2>1. UNCHANGED <<live, file>> /\ gl = "state"
    BY <1>3 DEF CompareState
  <2>2. gl' = "number"
    BY <1>3, <2>1 DEF CompareState, Settled
  <2>. QED BY <2>1, <2>2 DEF Settled, FixedIn, Collected
<1>4. CASE FlipState
  BY <1>4 DEF FlipState, Settled
<1>5. CASE SurfaceCreated \/ Parse \/ LoadReturns
  <2>1. /\ UNCHANGED <<live, file>> /\ gl # "write"
        /\ gl' \in {"read", "state", "loaded", "idle"}
    BY <1>5 DEF SurfaceCreated, Parse, LoadReturns
  <2>. QED BY <2>1 DEF Settled, FixedIn, Collected
<1>6. CASE OpenFile
  BY <1>6 DEF OpenFile, Settled, FixedIn, Collected
<1>7. CASE WriteFile
  BY <1>7 DEF WriteFile, Settled, FixedIn, Collected
<1>8. CASE UNCHANGED vars
  BY <1>8 DEF vars, glVars, Settled, FixedIn, Collected
<1>. QED BY <1>1, <1>2, <1>3, <1>4, <1>5, <1>6, <1>7, <1>8 DEF Next, GLStep

\* Settled settings: nothing the GL thread does changes one of them, however
\* loads and saves alternate, until the user acts, the process dies or a write
\* fails (onSurfaceCreated, onDrawFrame).
SettledStays == [][Settled /\ ~Disturbance => Settled' /\ live' = live]_vars

\* The safety behind Settles: once the file says what is in force and the
\* numbers are on the grid, it goes on saying it.
THEOREM SavedStays == Spec => SettledStays
<1>1. IInv /\ [Next]_vars => [Settled /\ ~Disturbance => Settled' /\ live' = live]_vars
  BY SettledGoesOn DEF IInv, TypeOK
<1>. QED BY <1>1, Inductive, PTL DEF Spec, SettledStays
=============================================================================
