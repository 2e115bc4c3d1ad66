------------------------------ MODULE HotUpdate ------------------------------
(***************************************************************************)
(* Reloading of the test module in the debug build (UpdateManager), with   *)
(* the registration of its event handler (EventManager) and the dispatch   *)
(* of events by the game.                                                  *)
(*                                                                         *)
(* The timer thread looks every three seconds whether the developer has    *)
(* left a notice; unregister() and callEvent() take the lock of the event  *)
(* manager, register() does not.  Versions of the module are numbers.      *)
(***************************************************************************)
EXTENDS Naturals, Sequences, FiniteSets, Functions

CONSTANT MaxVersion  \* bound of the model: versions the developer writes

ASSUME HotUpdateAssumption == MaxVersion \in Nat

VARIABLES
  dex,         \* a.dex: the version in it and what loading it gives
  notice,      \* a.txt is not empty
  dev,         \* the developer: "idle", "writing" a.dex, "written"
  noticed,     \* the latest version for which a notice was left
  timer,       \* where the timer thread is; "dead" after an exception
  first,       \* UpdateManager.first
  testModule,  \* UpdateManager.testModule, 0 for null
  tried,       \* the latest complete version whose loading was tried
  lost,        \* history: the latest version whose notice an exception wiped out
  listed,      \* ModuleManager.registeredModule
  events,      \* EventManager.events: the modules that have a handler there
  cache,       \* EventManager.cacheHandler, by the owners of the handlers
  touched,     \* cache was changed since the dispatch began
  game,        \* "idle", "walking" the cache, "invoking" a handler
  next,        \* the index the walk has come to
  enabled,     \* the modules that are switched on
  running      \* the module whose handler is running, 0 for none

devVars   == <<dex, notice, dev, noticed>>
outcome   == <<tried, lost>>
timerVars == <<timer, first, testModule, outcome>>
regVars   == <<listed, events, cache, touched>>
gameVars  == <<game, next, running>>
vars == <<devVars, timerVars, regVars, gameVars, enabled>>

Versions == 1..MaxVersion
Loads == {"module", "cut", "missing", "other"}

DevOK ==
  /\ dex \in [version: 0..MaxVersion, loads: Loads \cup {"none"}]
  /\ dex.version = 0 => dex.loads = "none" /\ dev = "idle"
  /\ dev \in {"idle", "writing", "written"}
  /\ noticed \in 0..MaxVersion

\* Only a module that was loaded is registered.
TimerOK ==
  /\ timer \in {"idle", "look", "truncate", "begin", "unlist", "unregister", "load",
                "list", "put", "clear", "fill", "sort", "dead"}
  /\ testModule \in 0..MaxVersion /\ tried \in 0..MaxVersion /\ lost \in 0..MaxVersion
  /\ timer \in {"unlist", "unregister", "list", "put", "clear", "fill", "sort"}
       => testModule # 0

RegOK ==
  /\ listed \subseteq Versions /\ events \subseteq Versions
  /\ cache \in Seq(Versions)

GameOK ==
  /\ game \in {"idle", "walking", "invoking"}
  /\ next \in Nat \ {0}
  /\ enabled \subseteq Versions
  /\ running \in 0..MaxVersion
  /\ running # 0 <=> game = "invoking"

Flags == notice \in BOOLEAN /\ first \in BOOLEAN /\ touched \in BOOLEAN

TypeOK == DevOK /\ TimerOK /\ RegOK /\ GameOK /\ Flags

Init ==
  /\ dex = [version |-> 0, loads |-> "none"] /\ notice = FALSE
  /\ dev = "idle" /\ noticed = 0
  /\ timer = "idle" /\ first = TRUE /\ testModule = 0 /\ tried = 0 /\ lost = 0
  /\ listed = {} /\ events = {} /\ cache = <<>> /\ touched = FALSE
  /\ game = "idle" /\ next = 1 /\ enabled = {} /\ running = 0

-----------------------------------------------------------------------------
(* The developer's machine: the new a.dex is written, then the notice.  A  *)
(* file that is still being written cannot be loaded.                      *)

BeginWrite ==
  /\ dev = "idle" /\ dex.version < MaxVersion
  /\ dex' = [version |-> dex.version + 1, loads |-> "cut"]
  /\ dev' = "writing"
  /\ UNCHANGED <<notice, noticed, timerVars, regVars, gameVars, enabled>>

EndWrite ==
  /\ dev = "writing"
  /\ \E l \in {"module", "missing", "other"} : dex' = [dex EXCEPT !.loads = l]
  /\ dev' = "written"
  /\ UNCHANGED <<notice, noticed, timerVars, regVars, gameVars, enabled>>

LeaveNotice ==
  /\ dev = "written"
  /\ notice' = TRUE /\ noticed' = dex.version
  /\ dev' = "idle"
  /\ UNCHANGED <<dex, timerVars, regVars, gameVars, enabled>>

-----------------------------------------------------------------------------
(* The timer thread: UpdateManager.checkAndUpdate *)

From(a, b) == timer = a /\ timer' = b

Fire ==
  /\ From("idle", "look")
  /\ dex.loads # "none"
  /\ UNCHANGED <<devVars, first, testModule, outcome, regVars, gameVars, enabled>>

\* checkNeedUpdate: the length of the notice; the first time goes on anyway.
Look ==
  /\ \/ notice /\ From("look", "truncate")
     \/ ~notice /\ first /\ From("look", "begin")
     \/ ~notice /\ ~first /\ From("look", "idle")
  /\ UNCHANGED <<devVars, first, testModule, outcome, regVars, gameVars, enabled>>

\* Whatever the notice holds by now is cut off.
Truncate ==
  /\ From("truncate", "begin")
  /\ notice' = FALSE
  /\ UNCHANGED <<dex, dev, noticed, first, testModule, outcome, regVars, gameVars, enabled>>

\* An exception of the file is caught: there is no update, though the notice may
\* have been cut off before close() failed.  The first round goes on anyway.
TruncateFails ==
  /\ notice' \in {notice, FALSE}
  /\ IF first
     THEN From("truncate", "begin") /\ UNCHANGED lost
     ELSE /\ From("truncate", "idle")
          /\ lost' = IF notice /\ ~notice' THEN noticed ELSE lost
  /\ UNCHANGED <<dex, dev, noticed, first, testModule, tried, regVars, gameVars, enabled>>

Begin ==
  /\ IF testModule = 0 THEN From("begin", "load") ELSE From("begin", "unlist")
  /\ first' = FALSE
  /\ UNCHANGED <<devVars, testModule, outcome, regVars, gameVars, enabled>>

\* Mutant: the old module stays registered.
SkipUnlist ==
  /\ From("unlist", "load")
  /\ testModule' = 0
  /\ UNCHANGED <<devVars, first, outcome, regVars, gameVars, enabled>>

\* unregisterModule: the list of modules first ...
Unlist ==
  /\ From("unlist", "unregister")
  /\ listed' = listed \ {testModule}
  /\ UNCHANGED <<devVars, first, testModule, outcome, events, cache, touched, gameVars,
                 enabled>>

\* The handlers of a set of modules, in some order (priorities are equal).
Handlers(S) == {s \in [1..Cardinality(S) -> S] : Range(s) = S}

\* Mutant: unregister() does not take the lock.
UnregisterUnlocked ==
  /\ From("unregister", "load")
  /\ events' = events \ {testModule}
  /\ cache' \in Handlers(events')
  /\ touched' = TRUE
  /\ testModule' = 0
  /\ UNCHANGED <<devVars, first, outcome, listed, gameVars, enabled>>

\* ... then, under the lock, the handlers; testModule = null.
Unregister ==
  /\ From("unregister", "load")
  /\ game = "idle"
  /\ events' = events \ {testModule}
  /\ cache' \in Handlers(events')
  /\ touched' = TRUE
  /\ testModule' = 0
  /\ UNCHANGED <<devVars, first, outcome, listed, gameVars, enabled>>

\* Mutant: the round goes on after an exception that is caught.
LoadAndGoOn ==
  /\ From("load", "list")
  /\ IF dex.loads = "module" THEN testModule' = dex.version ELSE UNCHANGED testModule
  /\ tried' = IF dex.loads = "cut" THEN tried ELSE dex.version
  /\ UNCHANGED <<devVars, first, lost, regVars, gameVars, enabled>>

\* A class that is not there or not complete ends this round; one that is no
\* module ends the timer.
Load ==
  /\ \/ dex.loads = "module" /\ From("load", "list") /\ testModule' = dex.version
     \/ dex.loads \in {"cut", "missing"} /\ From("load", "idle") /\ UNCHANGED testModule
     \/ dex.loads = "other" /\ From("load", "dead") /\ UNCHANGED testModule
  /\ tried' = IF dex.loads = "cut" THEN tried ELSE dex.version
  /\ UNCHANGED <<devVars, first, lost, regVars, gameVars, enabled>>

\* registerModule: the list, the handlers, and the cache cleared, filled and
\* sorted, without the lock.
List ==
  /\ From("list", "put")
  /\ listed' = listed \cup {testModule}
  /\ UNCHANGED <<devVars, first, testModule, outcome, events, cache, touched, gameVars,
                 enabled>>

Put ==
  /\ From("put", "clear")
  /\ events' = events \cup {testModule}
  /\ UNCHANGED <<devVars, first, testModule, outcome, listed, cache, touched, gameVars,
                 enabled>>

Clear ==
  /\ From("clear", "fill")
  /\ cache' = <<>> /\ touched' = TRUE
  /\ UNCHANGED <<devVars, first, testModule, outcome, listed, events, gameVars, enabled>>

\* Mutant: the handlers of modules that are off are left out of the cache.
FillEnabled ==
  /\ From("fill", "sort")
  /\ cache' \in Handlers(events \cap enabled) /\ touched' = TRUE
  /\ UNCHANGED <<devVars, first, testModule, outcome, listed, events, gameVars, enabled>>

Fill ==
  /\ From("fill", "sort")
  /\ cache' \in Handlers(events) /\ touched' = TRUE
  /\ UNCHANGED <<devVars, first, testModule, outcome, listed, events, gameVars, enabled>>

\* Mutant: the notice is cut off once more when the round is over.
SortAndReset ==
  /\ From("sort", "idle")
  /\ touched' = TRUE /\ notice' = FALSE
  /\ UNCHANGED <<dex, dev, noticed, first, testModule, outcome, listed, events, cache,
                 gameVars, enabled>>

Sort ==
  /\ From("sort", "idle")
  /\ touched' = TRUE
  /\ UNCHANGED <<devVars, first, testModule, outcome, listed, events, cache, gameVars,
                 enabled>>

TimerStep ==
  \/ Fire \/ Look \/ Truncate \/ TruncateFails \/ Begin \/ Unlist \/ Load
  \/ List \/ Put \/ Clear \/ Fill \/ Sort

-----------------------------------------------------------------------------
(* The game: EventManager.callEvent, and the keys *)

gameRest == <<devVars, timerVars, listed, events, cache, enabled>>

CallEvent ==
  /\ game = "idle"
  /\ game' = "walking" /\ next' = 1 /\ touched' = FALSE
  /\ UNCHANGED <<running, gameRest>>

\* The walk ends after the last handler, or with an exception when register()
\* has changed the list; the lock is released.
EndEvent ==
  /\ game = "walking"
  /\ touched \/ next > Len(cache)
  /\ game' = "idle" /\ next' = 1
  /\ UNCHANGED <<touched, running, gameRest>>

\* A handler of a module that is switched on is invoked.
Invoke ==
  /\ game = "walking" /\ ~touched /\ next <= Len(cache)
  /\ next' = next + 1
  /\ IF cache[next] \in enabled
     THEN game' = "invoking" /\ running' = cache[next]
     ELSE UNCHANGED <<game, running>>
  /\ UNCHANGED <<touched, gameRest>>

HandlerReturns ==
  /\ game = "invoking"
  /\ game' = "walking" /\ running' = 0
  /\ UNCHANGED <<next, touched, gameRest>>

\* A key toggles the modules bound to it among those listed.
KeyDown ==
  /\ \E S \in SUBSET listed \ {{}} :
       enabled' = (enabled \ S) \cup (S \ enabled)
  /\ UNCHANGED <<devVars, timerVars, regVars, gameVars>>

Next ==
  \/ BeginWrite \/ EndWrite \/ LeaveNotice
  \/ TimerStep \/ Unregister
  \/ CallEvent \/ EndEvent \/ Invoke \/ HandlerReturns
  \/ KeyDown

\* The timer fires and a handler returns; the thread that waits for the lock
\* gets it; a file that is being written is completed and announced.
Fairness ==
  /\ WF_vars(TimerStep) /\ SF_vars(Unregister)
  /\ WF_vars(EndEvent \/ Invoke \/ HandlerReturns)
  /\ WF_vars(EndWrite) /\ WF_vars(LeaveNotice)

Spec == Init /\ [][Next]_vars /\ Fairness

-----------------------------------------------------------------------------
(* Properties *)

\* A handler never runs after unregister() has removed its module: the old
\* code of a reloaded module is silent once the new one may be there
\* (EventManager.unregister, callEvent).
OldCodeSilent == running # 0 => running \in events

\* However the rounds fall, one version at most is registered, the one that
\* UpdateManager will unregister (UpdateManager.checkAndUpdate).
OneVersion ==
  /\ listed \subseteq {testModule} /\ events \subseteq {testModule}
  /\ Range(cache) \subseteq events

\* Outside the few steps of a reload, the keys, the handler table and the cache
\* that a dispatch walks know the same module: the one that UpdateManager holds,
\* or none after a version that could not be loaded.  A dispatch meets a partial
\* cache only during such a step (EventManager.sortHandler, lines 82-88).
RegistrationWhole ==
  timer \notin {"unregister", "list", "put", "clear", "fill"} =>
    /\ listed = {testModule} \ {0}
    /\ events = listed
    /\ Range(cache) = events

\* From some time on the notice can be truncated.
TruncationWorks == <>[][~(timer = "truncate" /\ timer' = "idle")]_timer

\* Every version that was announced, or a later one, is tried: also when its notice
\* is cut off together with an older one, and when the truncation fails for a while
\* and leaves the notice there; but not when the timer has died, nor when a failure
\* has wiped out the notice (UpdateManager.checkNeedUpdate, lines 50-57).
NoticeArrives ==
  TruncationWorks =>
    \A v \in Versions : noticed = v ~> (tried >= v \/ timer = "dead" \/ lost >= v)
=============================================================================
