------------------------------ MODULE ConfigFile ------------------------------
(***************************************************************************)
(* The configuration file (ConfigManager) of the release build: the GL     *)
(* thread loads it whenever a surface is created and saves it every thirty *)
(* seconds; meanwhile the user changes the settings in the menu; the game  *)
(* may die at any moment, and starts again with the defaults.              *)
(*                                                                         *)
(* A module has its switch and one number; both are read and written       *)
(* module by module, in the order of registration, without a lock.         *)
(***************************************************************************)
EXTENDS NumberSetting

CONSTANTS
  N,        \* how many modules are registered
  DEFAULT   \* the number's default, which the constructor takes as it is

ASSUME ConfigFileAssumption == N \in Nat \ {0} /\ DEFAULT \in Int

VARIABLES
  live,    \* the modules: Module.enable and the number's current value
  file,    \* config.json: what it says of each module, or Cut
  draft,   \* the JSON object that write() builds
  gl,      \* where the GL thread is
  index,   \* the module it is at
  quiet,   \* the user has changed nothing since the load began
  broken   \* the last write was cut short, or there was none yet

glVars == <<gl, index>>
vars == <<live, file, draft, glVars, quiet, broken>>

Mods == 1..N
Setting == [on: BOOLEAN, num: Int]

\* A fresh process, and a JSON object without content.
Fresh == [m \in Mods |-> [on |-> FALSE, num |-> DEFAULT]]

\* An empty file, or one that ends too early: neither can be parsed.
Cut == <<>>

SettingsOK ==
  /\ live \in [Mods -> Setting] /\ draft \in [Mods -> Setting]
  /\ file \in {Cut} \cup [Mods -> Setting]

PlaceOK ==
  /\ gl \in {"idle", "read", "state", "flip", "number", "loaded",
             "takeState", "takeNumber", "open", "write"}
  /\ index \in Mods
  /\ gl \in {"state", "flip", "number"} => file # Cut

Flags == quiet \in BOOLEAN /\ broken \in BOOLEAN

TypeOK == SettingsOK /\ PlaceOK /\ Flags

\* The constructor of ConfigManager creates an empty file; the first surface
\* is being created.
Init ==
  /\ live = Fresh /\ file = Cut /\ draft = Fresh
  /\ gl = "read" /\ index = 1 /\ quiet = TRUE /\ broken = TRUE

From(a, b) == gl = a /\ gl' = b

\* Mutant: one module too many.
PastTheLast(a, again, after) ==
  IF index <= N THEN From(a, again) /\ index' = index + 1
                ELSE From(a, after) /\ index' = 1

\* On to the next module, or past the last one.
NextModule(a, again, after) ==
  IF index < N THEN From(a, again) /\ index' = index + 1
               ELSE From(a, after) /\ index' = 1

-----------------------------------------------------------------------------
(* onSurfaceCreated: ConfigManager.read *)

SurfaceCreated ==
  /\ From("idle", "read")
  /\ quiet' = TRUE
  /\ UNCHANGED <<live, file, draft, index, broken>>

\* What cannot be parsed leaves the settings alone.
Parse ==
  /\ IF file = Cut THEN From("read", "loaded") ELSE From("read", "state")
  /\ UNCHANGED <<live, file, draft, index, quiet, broken>>

\* Mutant: a module that is on in the file is toggled, on or not.
ToggleIfOn ==
  /\ gl = "state"
  /\ gl' = IF file[index].on THEN "flip" ELSE "number"
  /\ UNCHANGED <<live, file, draft, index, quiet, broken>>

\* setEnable: compared, then toggled.
CompareState ==
  /\ gl = "state"
  /\ gl' = IF live[index].on # file[index].on THEN "flip" ELSE "number"
  /\ UNCHANGED <<live, file, draft, index, quiet, broken>>

FlipState ==
  /\ From("flip", "number")
  /\ live' = [live EXCEPT ![index].on = ~@]
  /\ UNCHANGED <<file, draft, index, quiet, broken>>

ForceNumber ==
  /\ NextModule("number", "state", "loaded")
  /\ live' = [live EXCEPT ![index].num = Forced(file[index].num)]
  /\ UNCHANGED <<file, draft, quiet, broken>>

LoadReturns ==
  /\ From("loaded", "idle")
  /\ UNCHANGED <<live, file, draft, index, quiet, broken>>

-----------------------------------------------------------------------------
(* onDrawFrame, every thirty seconds: ConfigManager.write *)

\* Mutant: the file is opened before the settings are collected.
OpenAndTake ==
  /\ From("idle", "takeState")
  /\ file' = Cut
  /\ UNCHANGED <<live, draft, index, quiet, broken>>

BeginSave ==
  /\ From("idle", "takeState")
  /\ UNCHANGED <<live, file, draft, index, quiet, broken>>

TakeState ==
  /\ From("takeState", "takeNumber")
  /\ draft' = [draft EXCEPT ![index].on = live[index].on]
  /\ UNCHANGED <<live, file, index, quiet, broken>>

TakeNumber ==
  /\ NextModule("takeNumber", "takeState", "open")
  /\ draft' = [draft EXCEPT ![index].num = live[index].num]
  /\ UNCHANGED <<live, file, quiet, broken>>

\* new FileWriter(file): the old content is gone.
OpenFile ==
  /\ From("open", "write")
  /\ file' = Cut
  /\ UNCHANGED <<live, draft, index, quiet, broken>>

\* Mutant: the buffered writer is not flushed.
WriteUnflushed ==
  /\ From("write", "idle")
  /\ UNCHANGED <<live, file, draft, index, quiet, broken>>

WriteFile ==
  /\ From("write", "idle")
  /\ file' = draft /\ draft' = Fresh
  /\ broken' = FALSE
  /\ UNCHANGED <<live, index, quiet>>

\* An IOException is caught; what has been written so far is no whole file.
SaveFails ==
  /\ \/ From("open", "idle") /\ UNCHANGED broken
     \/ From("write", "idle") /\ broken' = TRUE
  /\ draft' = Fresh
  /\ UNCHANGED <<live, file, index, quiet>>

GLStep ==
  \/ Parse \/ CompareState \/ FlipState \/ ForceNumber \/ LoadReturns
  \/ TakeState \/ TakeNumber \/ OpenFile \/ WriteFile

-----------------------------------------------------------------------------
(* The user, and the end of the process *)

Toggle(m) ==
  /\ live' = [live EXCEPT ![m].on = ~@]
  /\ quiet' = FALSE
  /\ UNCHANGED <<file, draft, glVars, broken>>

\* The buttons "+" and "-" and the slider of a number.
SetNumber(m) ==
  /\ \E v \in (MIN..MAX) \cup {live[m].num + STEP, live[m].num - STEP} :
       live' = [live EXCEPT ![m].num = Forced(v)]
  /\ quiet' = FALSE
  /\ UNCHANGED <<file, draft, glVars, broken>>

UserActs == \E m \in Mods : Toggle(m) \/ SetNumber(m)

\* The process dies and is started again.
Crash ==
  /\ live' = Fresh /\ draft' = Fresh
  /\ gl' = "read" /\ index' = 1 /\ quiet' = TRUE
  /\ broken' = (broken \/ gl = "write")
  /\ UNCHANGED file

Disturbance == UserActs \/ Crash \/ SaveFails

Next == GLStep \/ SurfaceCreated \/ BeginSave \/ Disturbance

\* Frames are drawn between any two surfaces, so saves are not kept out.
Fairness == WF_vars(GLStep) /\ SF_vars(BeginSave)

Spec == Init /\ [][Next]_vars /\ Fairness

-----------------------------------------------------------------------------
(* Properties *)

\* After a load of a file that could be parsed, into a fresh process or over
\* settings that differ from it, the modules are as the file says, unless the
\* user has acted in between (ConfigManager.read).
RestoresSaved ==
  (gl = "loaded" /\ quiet /\ file # Cut) =>
    \A m \in Mods : live[m] = [on  |-> file[m].on, num |-> Forced(file[m].num)]

\* A number that was saved comes back as it was, however often it is saved and
\* loaded: what forceSet makes of it is the same number, unless it is a default
\* off the grid, which nobody has set (NumberValue.forceSet, setValue).
SavedReturns ==
  (gl = "loaded" /\ quiet /\ file # Cut) =>
    \A m \in Mods : live[m] = file[m] \/ file[m].num = DEFAULT

\* Saved settings are lost in the write itself and nowhere else: while the file
\* cannot be parsed, a write is going on or the last one was cut short by an
\* exception or the end of the process (ConfigManager.write).
OnlyWritesLose == file = Cut => broken \/ gl = "write"

\* A number leaves its range by half a step at most: it is rounded after it
\* was clamped (NumberValue.forceSet); only a default may lie elsewhere.
WithinHalfStep ==
  \A m \in Mods :
    \/ live[m].num = DEFAULT
    \/ 2 * live[m].num \in (2 * MIN - STEP)..(2 * MAX + STEP)

\* Once the user leaves the settings alone and nothing fails, the file comes to
\* say what is in force and stays so, whatever surfaces are created: loading
\* what was saved changes nothing any more (onSurfaceCreated, onDrawFrame).
Settles ==
  <>[][~Disturbance]_vars => <>[](gl = "idle" => file = live)
=============================================================================
