--------------------------- MODULE HotUpdate_proofs ---------------------------
(***************************************************************************)
(* Safety of the module reload, for any number of versions: the type       *)
(* invariant, one registered version at most, and the silence of removed   *)
(* code.                                                                   *)
(***************************************************************************)
EXTENDS HotUpdate, FiniteSetTheorems, TLAPS

USE DEF outcome

\* What the timer relies on at two places of its round.
RoundOK ==
  /\ timer = "load" => testModule = 0
  /\ timer = "unregister" => listed = {}

\* The inductive invariant.
IInv == TypeOK /\ RoundOK /\ OneVersion /\ OldCodeSilent

\* A list of handlers of S is a sequence over S that names all of S.
LEMMA HandlersAreVersions ==
  ASSUME NEW S \in SUBSET Versions, NEW s \in Handlers(S)
  PROVE  s \in Seq(Versions) /\ Range(s) = S
<1>1. IsFiniteSet(Versions)
  BY HotUpdateAssumption, FS_Interval DEF Versions
<1>2. IsFiniteSet(S)
  BY <1>1, FS_Subset
<1>3. Cardinality(S) \in Nat
  BY <1>2, FS_CardinalityType
<1> QED
  BY <1>3 DEF Handlers

\* Every step writes truth values to the flags.
LEMMA NextFlags == TypeOK /\ [Next]_vars => Flags'
<1> SUFFICES ASSUME TypeOK, [Next]_vars PROVE Flags'
  OBVIOUS
<1>1. Flags
  BY DEF TypeOK, Flags
<1>2. CASE BeginWrite \/ EndWrite \/ LeaveNotice
  BY <1>1, <1>2 DEF Flags, BeginWrite, EndWrite, LeaveNotice, timerVars, regVars
<1>3. CASE Fire \/ Look \/ Truncate \/ TruncateFails \/ Begin \/ Load
  BY <1>1, <1>3 DEF Flags, Fire, Look, Truncate, TruncateFails, Begin, Load, devVars, regVars
<1>4. CASE Unlist \/ List \/ Put \/ Clear \/ Fill \/ Sort \/ Unregister
  BY <1>1, <1>4 DEF Flags, Unlist, List, Put, Clear, Fill, Sort, Unregister, devVars
<1>5. CASE CallEvent \/ EndEvent \/ Invoke \/ HandlerReturns \/ KeyDown
  BY <1>1, <1>5 DEF Flags, CallEvent, EndEvent, Invoke, HandlerReturns, KeyDown,
                    gameRest, devVars, timerVars, regVars
<1>6. CASE UNCHANGED vars
  BY <1>1, <1>6 DEF Flags, vars, devVars, timerVars, regVars
<1> QED
  BY <1>2, <1>3, <1>4, <1>5, <1>6 DEF Next, TimerStep

\* Every step keeps the developer's files well formed.
LEMMA NextDevOK == DevOK /\ [Next]_vars => DevOK'
<1> SUFFICES ASSUME DevOK, [Next]_vars PROVE DevOK'
  OBVIOUS
<1>1. CASE BeginWrite
  BY <1>1, HotUpdateAssumption DEF BeginWrite, DevOK, Loads
<1>2. CASE EndWrite
  BY <1>2, HotUpdateAssumption DEF EndWrite, DevOK, Loads
<1>3. CASE LeaveNotice
  BY <1>3 DEF LeaveNotice, DevOK
<1>4. CASE TimerStep \/ Unregister
  BY <1>4 DEF TimerStep, Fire, Look, Truncate, TruncateFails, Begin, Unlist,
              Unregister, Load, List, Put, Clear, Fill, Sort, devVars, DevOK
<1>5. CASE CallEvent \/ EndEvent \/ Invoke \/ HandlerReturns \/ KeyDown
  BY <1>5 DEF CallEvent, EndEvent, Invoke, HandlerReturns, KeyDown, gameRest, devVars,
              DevOK
<1>6. CASE UNCHANGED vars
  BY <1>6 DEF vars, devVars, DevOK
<1> QED
  BY <1>1, <1>2, <1>3, <1>4, <1>5, <1>6 DEF Next

\* Every step keeps the timer at one of its places, with a module to register
\* where it needs one.
LEMMA NextTimerOK == TimerOK /\ DevOK /\ [Next]_vars => TimerOK'
<1> SUFFICES ASSUME TimerOK, DevOK, [Next]_vars PROVE TimerOK'
  OBVIOUS
<1>1. CASE Fire \/ Look \/ Truncate \/ Begin
  BY <1>1 DEF Fire, Look, Truncate, Begin, From, TimerOK
<1>8. CASE TruncateFails
  <2>1. lost' \in {lost, noticed} /\ timer' \in {"begin", "idle"}
        /\ UNCHANGED <<testModule, tried>>
    BY <1>8 DEF TruncateFails, From
  <2> QED
    BY <2>1 DEF TimerOK, DevOK
<1>2. CASE Load
  BY <1>2 DEF Load, From, TimerOK, DevOK
<1>3. CASE Unlist \/ List \/ Put \/ Clear \/ Fill \/ Sort
  BY <1>3 DEF Unlist, List, Put, Clear, Fill, Sort, From, TimerOK
<1>4. CASE Unregister
  BY <1>4, HotUpdateAssumption DEF Unregister, From, TimerOK
<1>5. CASE BeginWrite \/ EndWrite \/ LeaveNotice
  BY <1>5 DEF BeginWrite, EndWrite, LeaveNotice, timerVars, TimerOK
<1>6. CASE CallEvent \/ EndEvent \/ Invoke \/ HandlerReturns \/ KeyDown
  BY <1>6 DEF CallEvent, EndEvent, Invoke, HandlerReturns, KeyDown, gameRest,
              timerVars, TimerOK
<1>7. CASE UNCHANGED vars
  BY <1>7 DEF vars, timerVars, TimerOK
<1> QED
  BY <1>1, <1>2, <1>3, <1>4, <1>5, <1>6, <1>7, <1>8 DEF Next, TimerStep

\* Every step registers versions and nothing else.
LEMMA NextRegOK == RegOK /\ TimerOK /\ [Next]_vars => RegOK'
<1> SUFFICES ASSUME RegOK, TimerOK, [Next]_vars PROVE RegOK'
  OBVIOUS
<1>1. CASE Fire \/ Look \/ Truncate \/ TruncateFails \/ Begin \/ Load
  BY <1>1 DEF Fire, Look, Truncate, TruncateFails, Begin, Load, regVars, RegOK
<1>2. CASE Unlist \/ Sort
  BY <1>2 DEF Unlist, Sort, RegOK
<1>9. CASE Clear
  <2>1. cache' \in Seq(Versions) /\ listed' = listed /\ events' = events
    BY <1>9 DEF Clear
  <2> QED
    BY <2>1 DEF RegOK
<1>3. CASE List \/ Put
  <2>1. testModule \in Versions
    BY <1>3, HotUpdateAssumption DEF List, Put, From, TimerOK, Versions
  <2> QED
    BY <1>3, <2>1 DEF List, Put, RegOK
<1>4. CASE Fill
  BY <1>4, HandlersAreVersions DEF Fill, RegOK
<1>5. CASE Unregister
  <2>1. events' \in SUBSET Versions /\ listed' = listed
    BY <1>5 DEF Unregister, RegOK
  <2> QED
    BY <1>5, <2>1, HandlersAreVersions DEF Unregister, RegOK
<1>6. CASE BeginWrite \/ EndWrite \/ LeaveNotice
  BY <1>6 DEF BeginWrite, EndWrite, LeaveNotice, regVars, RegOK
<1>7. CASE CallEvent \/ EndEvent \/ Invoke \/ HandlerReturns \/ KeyDown
  BY <1>7 DEF CallEvent, EndEvent, Invoke, HandlerReturns, KeyDown, gameRest,
              regVars, RegOK
<1>8. CASE UNCHANGED vars
  BY <1>8 DEF vars, regVars, RegOK
<1> QED
  BY <1>1, <1>2, <1>3, <1>4, <1>5, <1>6, <1>7, <1>8, <1>9 DEF Next, TimerStep

\* Every step keeps the dispatch well formed: a handler runs inside one.
LEMMA NextGameOK == GameOK /\ RegOK /\ [Next]_vars => GameOK'
<1> SUFFICES ASSUME GameOK, RegOK, [Next]_vars PROVE GameOK'
  OBVIOUS
<1>1. CASE CallEvent \/ EndEvent
  BY <1>1 DEF CallEvent, EndEvent, gameRest, GameOK
<1>2. CASE HandlerReturns
  BY <1>2, HotUpdateAssumption DEF HandlerReturns, gameRest, GameOK
<1>3. CASE Invoke
  <2>1. cache[next] \in Versions
    BY <1>3 DEF Invoke, RegOK, GameOK
  <2> QED
    BY <1>3, <2>1, HotUpdateAssumption DEF Invoke, gameRest, GameOK, Versions
<1>4. CASE KeyDown
  BY <1>4 DEF KeyDown, gameVars, GameOK, RegOK
<1>5. CASE TimerStep \/ Unregister
  BY <1>5 DEF TimerStep, Fire, Look, Truncate, TruncateFails, Begin, Unlist,
              Unregister, Load, List, Put, Clear, Fill, Sort, gameVars, GameOK
<1>6. CASE BeginWrite \/ EndWrite \/ LeaveNotice
  BY <1>6 DEF BeginWrite, EndWrite, LeaveNotice, gameVars, GameOK
<1>7. CASE UNCHANGED vars
  BY <1>7 DEF vars, gameVars, GameOK
<1> QED
  BY <1>1, <1>2, <1>3, <1>4, <1>5, <1>6, <1>7 DEF Next

\* Every reachable state is well typed; in particular the timer registers only
\* a module it has loaded, and a handler runs only inside a dispatch.
THEOREM TypeCorrect == Spec => []TypeOK
<1>1. Init => TypeOK
  <2> SUFFICES ASSUME Init PROVE TypeOK
    OBVIOUS
  <2>1. DevOK
    BY HotUpdateAssumption DEF Init, DevOK, Loads
  <2>2. TimerOK
    BY HotUpdateAssumption DEF Init, TimerOK
  <2>3. RegOK
    BY DEF Init, RegOK
  <2>4. GameOK
    BY HotUpdateAssumption DEF Init, GameOK
  <2>5. Flags
    BY DEF Init, Flags
  <2> QED
    BY <2>1, <2>2, <2>3, <2>4, <2>5 DEF TypeOK
<1>2. TypeOK /\ [Next]_vars => TypeOK'
  BY NextDevOK, NextTimerOK, NextRegOK, NextGameOK, NextFlags DEF TypeOK
<1> QED
  BY <1>1, <1>2, PTL DEF Spec

\* The list of modules, the handlers and the cache name the test module alone.
LEMMA NextOneVersion == TypeOK /\ RoundOK /\ OneVersion /\ [Next]_vars => OneVersion'
<1> SUFFICES ASSUME TypeOK, RoundOK, OneVersion, [Next]_vars PROVE OneVersion'
  OBVIOUS
<1>1. CASE Fire \/ Look \/ Truncate \/ TruncateFails \/ Begin
  BY <1>1 DEF Fire, Look, Truncate, TruncateFails, Begin, regVars, OneVersion
<1>2. CASE Load
  <2>1. listed = {} /\ events = {}
    BY <1>2 DEF Load, From, RoundOK, OneVersion, TypeOK, RegOK, Versions
  <2>2. listed' = {} /\ events' = {} /\ cache' = cache
    BY <1>2, <2>1 DEF Load, regVars
  <2> QED
    BY <2>1, <2>2 DEF OneVersion
<1>3. CASE Unlist \/ List \/ Put \/ Sort
  BY <1>3 DEF Unlist, List, Put, Sort, OneVersion
<1>4. CASE Clear
  <2>1. Range(cache') = {} /\ listed' = listed /\ events' = events
        /\ testModule' = testModule
    BY <1>4 DEF Clear, Range
  <2> QED
    BY <2>1 DEF OneVersion
<1>5. CASE Fill
  <2>1. Range(cache') = events'
    BY <1>5, HandlersAreVersions DEF Fill, TypeOK, RegOK
  <2> QED
    BY <1>5, <2>1 DEF Fill, OneVersion
<1>6. CASE Unregister
  <2>1. events' = {} /\ listed' = {}
    BY <1>6 DEF Unregister, From, RoundOK, OneVersion
  <2>2. Range(cache') = events'
    BY <1>6, <2>1, HandlersAreVersions DEF Unregister
  <2> QED
    BY <2>1, <2>2 DEF OneVersion
<1>7. CASE BeginWrite \/ EndWrite \/ LeaveNotice
  BY <1>7 DEF BeginWrite, EndWrite, LeaveNotice, timerVars, regVars, OneVersion
<1>8. CASE CallEvent \/ EndEvent \/ Invoke \/ HandlerReturns \/ KeyDown
  BY <1>8 DEF CallEvent, EndEvent, Invoke, HandlerReturns, KeyDown, gameRest,
              timerVars, regVars, OneVersion
<1>9. CASE UNCHANGED vars
  BY <1>9 DEF vars, timerVars, regVars, OneVersion
<1> QED
  BY <1>1, <1>2, <1>3, <1>4, <1>5, <1>6, <1>7, <1>8, <1>9 DEF Next, TimerStep

\* The timer takes a module off the list before it removes its handlers, and
\* has none when it loads the next.
LEMMA NextRoundOK == TypeOK /\ RoundOK /\ OneVersion /\ [Next]_vars => RoundOK'
<1> SUFFICES ASSUME TypeOK, RoundOK, OneVersion, [Next]_vars PROVE RoundOK'
  OBVIOUS
<1>1. CASE Begin \/ Unregister
  BY <1>1 DEF Begin, Unregister, From, RoundOK
<1>2. CASE Unlist
  BY <1>2 DEF Unlist, From, RoundOK, OneVersion
<1>3. CASE Fire \/ Look \/ Truncate \/ TruncateFails \/ Load \/ List \/ Put \/ Clear \/ Fill \/ Sort
  BY <1>3 DEF Fire, Look, Truncate, TruncateFails, Load, List, Put, Clear, Fill, Sort, From, RoundOK
<1>4. CASE BeginWrite \/ EndWrite \/ LeaveNotice
  BY <1>4 DEF BeginWrite, EndWrite, LeaveNotice, timerVars, regVars, RoundOK
<1>5. CASE CallEvent \/ EndEvent \/ Invoke \/ HandlerReturns \/ KeyDown
  BY <1>5 DEF CallEvent, EndEvent, Invoke, HandlerReturns, KeyDown, gameRest,
              timerVars, regVars, RoundOK
<1>6. CASE UNCHANGED vars
  BY <1>6 DEF vars, timerVars, regVars, RoundOK
<1> QED
  BY <1>1, <1>2, <1>3, <1>4, <1>5, <1>6 DEF Next, TimerStep

\* The lock keeps unregister() out while a handler runs, and a handler comes
\* from a cache that names registered modules only.
LEMMA NextSilent == TypeOK /\ OneVersion /\ OldCodeSilent /\ [Next]_vars
                      => OldCodeSilent'
<1> SUFFICES ASSUME TypeOK, OneVersion, OldCodeSilent, [Next]_vars PROVE OldCodeSilent'
  OBVIOUS
<1>1. CASE Unregister
  BY <1>1 DEF Unregister, gameVars, TypeOK, GameOK, OldCodeSilent
<1>2. CASE Invoke
  <2>1. cache[next] \in Range(cache)
    BY <1>2 DEF Invoke, Range, TypeOK, RegOK, GameOK
  <2>2. cache[next] \in events /\ events' = events
    BY <1>2, <2>1 DEF OneVersion, Invoke, gameRest
  <2> QED
    BY <1>2, <2>2 DEF Invoke, OldCodeSilent
<1>3. CASE TimerStep
  <2>1. UNCHANGED <<events, running>> \/ (\E S : events' = events \cup S /\ UNCHANGED running)
    BY <1>3 DEF TimerStep, Fire, Look, Truncate, TruncateFails, Begin, Unlist, Load, List,
                Put, Clear, Fill, Sort, regVars, gameVars
  <2> QED
    BY <2>1 DEF OldCodeSilent
<1>4. CASE BeginWrite \/ EndWrite \/ LeaveNotice
  BY <1>4 DEF BeginWrite, EndWrite, LeaveNotice, regVars, gameVars, OldCodeSilent
<1>5. CASE CallEvent \/ EndEvent \/ HandlerReturns \/ KeyDown
  BY <1>5 DEF CallEvent, EndEvent, HandlerReturns, KeyDown, gameRest, regVars,
              gameVars, OldCodeSilent
<1>6. CASE UNCHANGED vars
  BY <1>6 DEF vars, regVars, gameVars, OldCodeSilent
<1> QED
  BY <1>1, <1>2, <1>3, <1>4, <1>5, <1>6 DEF Next

\* The conjuncts of IInv hold together in every reachable state.
THEOREM Inductive == Spec => []IInv
<1>1. Init => RoundOK /\ OneVersion /\ OldCodeSilent
  BY DEF Init, RoundOK, OneVersion, OldCodeSilent, Range
<1>2. TypeOK /\ RoundOK /\ OneVersion /\ OldCodeSilent /\ [Next]_vars
        => (RoundOK /\ OneVersion /\ OldCodeSilent)'
  BY NextOneVersion, NextRoundOK, NextSilent
<1> QED
  BY <1>1, <1>2, TypeCorrect, PTL DEF Spec, IInv

\* One version of the test module at most is registered, whatever the number of
\* reloads and wherever the dispatch of events is (checkAndUpdate).
THEOREM OneVersionHolds == Spec => []OneVersion
BY Inductive, PTL DEF IInv

\* No handler of a module runs after unregister() has removed it.
THEOREM RemovedCodeIsSilent == Spec => []OldCodeSilent
BY Inductive, PTL DEF IInv

-----------------------------------------------------------------------------
(* What is registered from step to step of a round *)

\* Inside register() the list has the module first, then the table.
Halfway ==
  /\ timer \in {"put", "clear", "fill"} => listed = {testModule}
  /\ timer \in {"clear", "fill"} => events = {testModule}

\* Every step of the timer leaves the registration as whole as it must be.
LEMMA NextWhole ==
  ASSUME TypeOK, RoundOK, OneVersion, Halfway, RegistrationWhole, [Next]_vars
  PROVE  Halfway' /\ RegistrationWhole'
<1> USE DEF Halfway, RegistrationWhole
<1>1. testModule \in 0..MaxVersion /\ 0 \notin Versions
      /\ (timer \in {"unlist", "unregister", "list", "put", "clear", "fill", "sort"}
            => {testModule} \ {0} = {testModule})
  BY HotUpdateAssumption DEF TypeOK, TimerOK, Versions
<1>2. CASE Fire \/ Look \/ Truncate \/ TruncateFails \/ Begin \/ Sort
  BY <1>2 DEF Fire, Look, Truncate, TruncateFails, Begin, Sort, From, regVars
<1>3. CASE Unlist
  BY <1>3 DEF Unlist, From
<1>4. CASE Unregister
  <2>1. events' = {} /\ listed' = {} /\ testModule' = 0 /\ timer' = "load"
    BY <1>4 DEF Unregister, From, RoundOK, OneVersion
  <2>2. Range(cache') = events'
    BY <1>4, <2>1, HandlersAreVersions DEF Unregister
  <2> QED
    BY <2>1, <2>2
<1>5. CASE Load
  BY <1>5 DEF Load, From, regVars
<1>6. CASE List
  <2>1. listed' = {testModule} /\ UNCHANGED <<testModule, events>> /\ timer' = "put"
    BY <1>6 DEF List, From, OneVersion
  <2> QED
    BY <2>1
<1>7. CASE Put
  <2>1. events' = {testModule} /\ UNCHANGED <<testModule, listed>> /\ timer' = "clear"
    BY <1>7 DEF Put, From, OneVersion
  <2> QED
    BY <1>7, <2>1 DEF Put, From
<1>8. CASE Clear
  BY <1>8 DEF Clear, From
<1>9. CASE Fill
  <2>1. Range(cache') = events
    BY <1>9, HandlersAreVersions DEF Fill, TypeOK, RegOK
  <2> QED
    BY <1>1, <1>9, <2>1 DEF Fill, From
<1>10. CASE BeginWrite \/ EndWrite \/ LeaveNotice
  BY <1>10 DEF BeginWrite, EndWrite, LeaveNotice, timerVars, regVars
<1>11. CASE CallEvent \/ EndEvent \/ Invoke \/ HandlerReturns \/ KeyDown
  BY <1>11 DEF CallEvent, EndEvent, Invoke, HandlerReturns, KeyDown, gameRest,
               timerVars, regVars
<1>12. CASE UNCHANGED vars
  BY <1>12 DEF vars, timerVars, regVars
<1> QED
  BY <1>2, <1>3, <1>4, <1>5, <1>6, <1>7, <1>8, <1>9, <1>10, <1>11, <1>12
     DEF Next, TimerStep

\* Outside a reload the keys, the handler table and the cache agree, however
\* dispatches, keys and notices fall between its steps.
THEOREM RegistrationIsWhole == Spec => []RegistrationWhole
<1>1. Init => Halfway /\ RegistrationWhole
  BY DEF Init, Halfway, RegistrationWhole, Range
<1> QED
  BY <1>1, NextWhole, Inductive, PTL DEF Spec, IInv

-----------------------------------------------------------------------------
(* What becomes of a notice: the safety behind NoticeArrives *)

\* A version that was announced and not yet tried is still announced, or about
\* to be loaded in the round under way, or about to be superseded; unless its notice
\* was wiped out by a truncation that failed.
NoticePending ==
  (noticed > tried /\ noticed > lost /\ timer # "dead") =>
    notice \/ timer \in {"begin", "unlist", "unregister", "load"} \/ dev # "idle"

\* The developer announces what he has written.
Announced ==
  /\ dev = "idle" => noticed = dex.version
  /\ dev # "writing" => dex.loads # "cut"

\* Every step keeps an untried version pending.
LEMMA NextPending ==
  ASSUME TypeOK, Announced, NoticePending, [Next]_vars
  PROVE  Announced' /\ NoticePending'
<1> USE DEF Announced, NoticePending
<1>1. noticed \in Nat /\ tried \in Nat /\ lost \in Nat /\ dex.version \in Nat
      /\ dex \in [version : 0..MaxVersion, loads : Loads \cup {"none"}]
  BY HotUpdateAssumption DEF TypeOK, DevOK, TimerOK
<1>2. CASE BeginWrite
  BY <1>2 DEF BeginWrite, timerVars
<1>3. CASE EndWrite
  <2>1. dex'.loads # "cut" /\ dev' = "written"
    BY <1>1, <1>3 DEF EndWrite
  <2> QED
    BY <2>1
<1>4. CASE LeaveNotice
  BY <1>4 DEF LeaveNotice
<1>5. CASE Fire \/ Look \/ Truncate \/ Begin
  BY <1>5 DEF Fire, Look, Truncate, Begin, From, devVars
<1>10. CASE TruncateFails
  <2>1. /\ UNCHANGED <<dex, dev, noticed, tried>> /\ notice \in BOOLEAN
        /\ notice' = notice \/ (notice /\ ~notice')
    BY <1>10 DEF TruncateFails, TypeOK, Flags
  <2>2. CASE timer' = "begin"
    BY <1>10, <2>1, <2>2 DEF TruncateFails
  <2>3. CASE timer' = "idle" /\ lost' = IF notice /\ ~notice' THEN noticed ELSE lost
    BY <1>1, <1>10, <2>1, <2>3 DEF TruncateFails, From
  <2> QED
    BY <1>10, <2>2, <2>3 DEF TruncateFails, From
<1>6. CASE Load
  <2>1. CASE dev # "idle"
    BY <1>6, <2>1 DEF Load, devVars
  <2>2. CASE dev = "idle"
    BY <1>1, <1>6, <2>2 DEF Load, devVars
  <2> QED
    BY <2>1, <2>2
<1>7. CASE Unlist \/ Unregister \/ List \/ Put \/ Clear \/ Fill \/ Sort
  BY <1>7 DEF Unlist, Unregister, List, Put, Clear, Fill, Sort, From, devVars
<1>8. CASE CallEvent \/ EndEvent \/ Invoke \/ HandlerReturns \/ KeyDown
  BY <1>8 DEF CallEvent, EndEvent, Invoke, HandlerReturns, KeyDown, gameRest,
              devVars, timerVars
<1>9. CASE UNCHANGED vars
  BY <1>9 DEF vars, devVars, timerVars
<1> QED
  BY <1>2, <1>3, <1>4, <1>5, <1>6, <1>7, <1>8, <1>9, <1>10 DEF Next, TimerStep

\* A truncation that succeeds never takes away a notice that no round will act on,
\* and one that fails takes none away but that it wipes out itself, for any number
\* of versions (UpdateManager.checkNeedUpdate, lines 50-57).
THEOREM NoticeIsKept == Spec => []NoticePending
<1>1. Init => Announced /\ NoticePending
  BY DEF Init, Announced, NoticePending
<1> QED
  BY <1>1, NextPending, TypeCorrect, PTL DEF Spec
=============================================================================
