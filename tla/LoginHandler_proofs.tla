------------------------ MODULE LoginHandler_proofs ------------------------
(***************************************************************************)
(* Proofs about the login channel, for every MAX_RETRIES and every number  *)
(* of connections.  The safety properties of LoginHandler are not          *)
(* inductive.  They rest on an account of the std::thread object: every    *)
(* connect() that returns has assigned it once, and every assignment but   *)
(* the first needs a join by the retry thread of a connection that failed. *)
(***************************************************************************)
EXTENDS LoginHandler, FiniteSetTheorems, TLAPS

\* Connections whose connect() has got past the assignment of the thread.
Assigned == {c \in Conns : conn[c] # "none" /\ c \notin connecting}

\* Connections whose retry thread has got past its join.
Joined == {c \in Conns : retrier[c] \in {"resetting", "done"}}

\* The thread object holds a thread, or none.
Held == IF ioThread = "none" THEN 0 ELSE 1

\* Each assignment was made possible by a join of its own, or by the empty
\* object at the start.
Accounts == Cardinality(Assigned) <= Cardinality(Joined) + Held

\* Retry threads belong to failed connections, connect() to dialled ones.
Owners ==
  /\ \A c \in Conns : retrier[c] # "idle" => conn[c] = "failed"
  /\ \A c \in connecting : conn[c] # "none"

\* An endpoint that was not constructed has dialled nothing.
NothingBefore ==
  asio = "UNINITIALIZED" => \A c \in Conns : conn[c] = "none"

HasOpened(c) == conn[c] \in {"open", "closed"}

\* handle names a connection that has opened, if there is one.
HandleNamed ==
  /\ handle = 0 => \A c \in Conns : ~HasOpened(c)
  /\ handle # 0 => HasOpened(handle)

\* No second connection has opened.
Sole == \A c \in Conns : HasOpened(c) => handle = c

\* The flag is set in the open handler and cleared with the connection, or by
\* a fail handler, which counts.
FlagKept ==
  /\ connected => handle # 0 /\ conn[handle] = "open" /\ retryCount = 0
  /\ Sole => \A c \in Conns : conn[c] = "open" => connected \/ retryCount > 0

\* No retry thread has called stop().
NoStops == \A c \in Conns : retrier[c] \in {"idle", "spawned"}

\* Until then the thread object is assigned once, and its thread leaves run()
\* only when nothing is left to serve.
BeforeStops ==
  NoStops =>
    /\ stopped => ioThread = "finished"
    /\ ioThread = "none" =>
         \A c \in Conns : conn[c] # "none" => conn[c] = "dialing" /\ c \in connecting
    /\ ioThread = "finished" =>
         \A c \in Conns : conn[c] # "open" /\ (conn[c] = "dialing" => c \in connecting)

\* The inductive invariant.
IInv ==
  /\ TypeOK /\ NothingBefore /\ Owners /\ Accounts
  /\ HandleNamed /\ FlagKept /\ BeforeStops

\* The initial state is well typed.
LEMMA TypeInit == Init => TypeOK
<1> SUFFICES ASSUME Init PROVE TypeOK
  OBVIOUS
<1>1. conn \in [Conns -> ConnStates] /\ retrier \in [Conns -> RetrierStates]
  BY DEF Init, ConnStates, RetrierStates
<1> QED
  BY <1>1 DEF Init, TypeOK, IoThreads

\* Every step keeps the types.
LEMMA TypeStep == TypeOK /\ [Next]_vars => TypeOK'
<1> SUFFICES ASSUME TypeOK, [Next]_vars PROVE TypeOK'
  OBVIOUS
<1> USE DEF TypeOK, ConnStates, IoThreads, RetrierStates
<1>1. CASE Construct
  BY <1>1 DEF Construct
<1>2. CASE RunReturns
  BY <1>2 DEF RunReturns
<1>3. ASSUME NEW c \in Conns, Connect(c) \/ StartIoThread(c) PROVE TypeOK'
  BY <1>3 DEF Connect, Dial, StartIoThread
<1>4. ASSUME NEW c \in Conns, OnOpen(c) PROVE TypeOK'
  BY <1>4 DEF OnOpen
<1>5. ASSUME NEW c \in Conns, OnClose(c) PROVE TypeOK'
  BY <1>5 DEF OnClose
<1>6. ASSUME NEW c \in Conns, OnFail(c) PROVE TypeOK'
  <2>1. retrier' = retrier \/ retrier' = [retrier EXCEPT ![c] = "spawned"]
    BY <1>6 DEF OnFail
  <2>2. retrier' \in [Conns -> RetrierStates]
    BY <2>1
  <2>3. conn' \in [Conns -> ConnStates] /\ retryCount' \in Nat
    BY <1>6 DEF OnFail
  <2> QED
    BY <1>6, <2>2, <2>3 DEF OnFail
<1>7. ASSUME NEW c \in Conns, StopService(c) PROVE TypeOK'
  BY <1>7 DEF StopService
<1>8. ASSUME NEW c \in Conns, TestJoinable(c) \/ JoinIoThread(c) \/ JoinThrows(c)
      PROVE  TypeOK'
  BY <1>8 DEF TestJoinable, JoinIoThread, JoinThrows
<1>9. ASSUME NEW c \in Conns, ResetAndRedial(c) PROVE TypeOK'
  BY <1>9 DEF ResetAndRedial, Dial
<1>10. CASE UNCHANGED vars
  BY <1>10 DEF vars
<1> QED
  BY <1>1, <1>2, <1>3, <1>4, <1>5, <1>6, <1>7, <1>8, <1>9, <1>10
     DEF Next, Reconnect

\* Every reachable state of the login channel is well typed.
THEOREM TypeCorrect == Spec => []TypeOK
BY TypeInit, TypeStep, PTL DEF Spec

-----------------------------------------------------------------------------
(* Counting connections *)

\* The sets that are counted are finite.
LEMMA Counted ==
  ASSUME TypeOK
  PROVE  /\ IsFiniteSet(Assigned) /\ IsFiniteSet(Joined)
         /\ Cardinality(Assigned) \in Nat /\ Cardinality(Joined) \in Nat
<1>1. IsFiniteSet(Conns)
  BY FS_Interval, LoginHandlerAssumption DEF Conns
<1>2. Assigned \in SUBSET Conns /\ Joined \in SUBSET Conns
  BY DEF Assigned, Joined
<1>3. IsFiniteSet(Assigned) /\ IsFiniteSet(Joined)
  BY <1>1, <1>2, FS_Subset
<1> QED
  BY <1>3, FS_CardinalityType

\* Two elements outside a subset, or one, leave that much room.
LEMMA Room ==
  ASSUME NEW S, IsFiniteSet(S), NEW T \in SUBSET S, NEW x \in S \ T, NEW y \in S \ T
  PROVE  /\ Cardinality(T) + 1 <= Cardinality(S)
         /\ x # y => Cardinality(T) + 2 <= Cardinality(S)
<1>1. IsFiniteSet(T) /\ Cardinality(T) \in Nat /\ Cardinality(S) \in Nat
  BY FS_Subset, FS_CardinalityType
<1>2. IsFiniteSet(T \cup {x}) /\ Cardinality(T \cup {x}) = Cardinality(T) + 1
  BY <1>1, FS_AddElement
<1>3. Cardinality(T \cup {x}) <= Cardinality(S)
  BY FS_Subset
<1>4. ASSUME x # y PROVE Cardinality(T) + 2 <= Cardinality(S)
  <2>1. Cardinality((T \cup {x}) \cup {y}) = Cardinality(T \cup {x}) + 1
    BY <1>2, <1>4, FS_AddElement
  <2>2. Cardinality((T \cup {x}) \cup {y}) <= Cardinality(S)
    BY FS_Subset
  <2> QED
    BY <1>1, <1>2, <2>1, <2>2
<1> QED
  BY <1>1, <1>2, <1>3, <1>4

\* A connection whose connect() has returned and that no retry thread has
\* joined for: the thread object holds its thread, and there is only one.
Unjoined(c) == conn[c] # "none" /\ c \notin connecting /\ retrier[c] \notin {"resetting", "done"}

\* This is what the account of assignments and joins comes to, once no failed
\* dial whose retry thread has joined is still inside its connect().
LEMMA OneUnjoined ==
  ASSUME IInv, \A e \in connecting : retrier[e] \notin {"resetting", "done"},
         NEW c \in Conns, NEW d \in Conns, Unjoined(c), Unjoined(d)
  PROVE  c = d /\ ioThread # "none"
<1>1. TypeOK /\ Owners /\ Accounts
  BY DEF IInv
<1>2. Joined \in SUBSET Assigned
  BY <1>1 DEF Joined, Assigned, Owners
<1>3. c \in Assigned \ Joined /\ d \in Assigned \ Joined
  BY DEF Unjoined, Assigned, Joined
<1>4. IsFiniteSet(Assigned) /\ Cardinality(Assigned) \in Nat /\ Cardinality(Joined) \in Nat
  BY <1>1, Counted
<1>5. /\ Cardinality(Joined) + 1 <= Cardinality(Assigned)
      /\ c # d => Cardinality(Joined) + 2 <= Cardinality(Assigned)
  BY <1>2, <1>3, <1>4, Room
<1> QED
  BY <1>1, <1>4, <1>5 DEF Accounts, Held

-----------------------------------------------------------------------------
(* The inductive step, one lemma for each part of the invariant *)

\* A retry thread that resets the service finds the endpoint constructed, so it
\* never dials.
LEMMA ResetThrows ==
  ASSUME TypeOK, NothingBefore, Owners, NEW c \in Conns, ResetAndRedial(c)
  PROVE  /\ InitAsioThrows
         /\ UNCHANGED <<asio, conn, connecting, handle, connected, retryCount, ioThread>>
         /\ crashed' = crashed
<1>1. asio # "UNINITIALIZED"
  BY DEF NothingBefore, Owners, ResetAndRedial
<1> QED
  BY <1>1 DEF InitAsioThrows, ResetAndRedial

\* Retry threads start where a dial failed, and dials never become undone.
LEMMA OwnersStep ==
  ASSUME TypeOK, NothingBefore, Owners, [Next]_vars
  PROVE  NothingBefore' /\ Owners'
<1> USE DEF TypeOK, NothingBefore, Owners
<1>1. CASE Construct \/ RunReturns \/ UNCHANGED vars
  BY <1>1 DEF Construct, RunReturns, vars
<1>2. ASSUME NEW c \in Conns, Connect(c) PROVE NothingBefore' /\ Owners'
  BY <1>2 DEF Connect, Dial, Fresh
<1>3. ASSUME NEW c \in Conns, StartIoThread(c) PROVE NothingBefore' /\ Owners'
  BY <1>3 DEF StartIoThread
<1>4. ASSUME NEW c \in Conns, OnOpen(c) \/ OnClose(c) PROVE NothingBefore' /\ Owners'
  BY <1>4 DEF OnOpen, OnClose
<1>5. ASSUME NEW c \in Conns, OnFail(c) PROVE NothingBefore' /\ Owners'
  <2>1. /\ \A d \in Conns : conn'[d] = IF d = c THEN "failed" ELSE conn[d]
        /\ \A d \in Conns : d # c => retrier'[d] = retrier[d]
        /\ UNCHANGED <<asio, connecting>> /\ conn[c] = "dialing"
    BY <1>5 DEF OnFail
  <2> QED
    BY <2>1
<1>6. ASSUME NEW c \in Conns,
             StopService(c) \/ TestJoinable(c) \/ JoinIoThread(c) \/ JoinThrows(c)
      PROVE  NothingBefore' /\ Owners'
  <2>1. /\ UNCHANGED <<asio, conn, connecting>> /\ retrier[c] # "idle"
        /\ \A d \in Conns : d # c => retrier'[d] = retrier[d]
    BY <1>6 DEF StopService, TestJoinable, JoinIoThread, JoinThrows
  <2> QED
    BY <2>1
<1>7. ASSUME NEW c \in Conns, ResetAndRedial(c) PROVE NothingBefore' /\ Owners'
  <2>1. /\ UNCHANGED <<asio, conn, connecting>> /\ retrier[c] # "idle"
        /\ \A d \in Conns : d # c => retrier'[d] = retrier[d]
    BY <1>7, ResetThrows DEF ResetAndRedial
  <2> QED
    BY <2>1
<1> QED
  BY <1>1, <1>2, <1>3, <1>4, <1>5, <1>6, <1>7 DEF Next, Reconnect

\* How a step moves the account: nothing counts less, only an assignment counts
\* one connection more on the left, and only a join empties the object.
LEMMA AccountsMove ==
  ASSUME TypeOK, NothingBefore, Owners, [Next]_vars
  PROVE  \/ Assigned' = Assigned /\ Joined' = Joined /\ Held' = Held
         \/ \E c \in connecting :
              /\ StartIoThread(c) /\ c \notin Assigned
              /\ Assigned' = Assigned \cup {c} /\ Joined' = Joined
              /\ Held = 0 /\ Held' = 1
         \/ \E c \in Conns \ Joined :
              /\ JoinIoThread(c)
              /\ Assigned' = Assigned /\ Joined' = Joined \cup {c}
              /\ Held = 1 /\ Held' = 0
         \/ \E c \in Conns \ Joined :
              /\ retrier[c] \in {"stopped", "joining"}
              /\ (TestJoinable(c) /\ ioThread = "none") \/ JoinThrows(c)
              /\ Assigned' = Assigned /\ Joined' = Joined \cup {c} /\ Held' = Held
<1> USE DEF TypeOK, Assigned, Joined, Held
<1> DEFINE Same == Assigned' = Assigned /\ Joined' = Joined /\ Held' = Held
<1>1. CASE Construct \/ RunReturns \/ UNCHANGED vars
  BY <1>1 DEF Construct, RunReturns, vars
<1>2. ASSUME NEW c \in Conns, Connect(c) PROVE Same
  <2>1. /\ conn[c] = "none" /\ connecting' = connecting \cup {c}
        /\ \A d \in Conns : d # c => conn'[d] = conn[d]
        /\ UNCHANGED <<retrier, ioThread>>
    BY <1>2 DEF Connect, Dial, Fresh
  <2> QED
    BY <2>1
<1>3. ASSUME NEW c \in Conns, StartIoThread(c)
      PROVE  \/ Same
             \/ /\ c \in connecting /\ c \notin Assigned
                /\ Assigned' = Assigned \cup {c} /\ Joined' = Joined
                /\ Held = 0 /\ Held' = 1
  BY <1>3 DEF StartIoThread, Owners
<1>4. ASSUME NEW c \in Conns, OnOpen(c) \/ OnClose(c) PROVE Same
  BY <1>4 DEF OnOpen, OnClose
<1>5. ASSUME NEW c \in Conns, OnFail(c) PROVE Same
  <2>1. /\ conn[c] = "dialing" /\ conn'[c] = "failed" /\ retrier[c] = "idle"
        /\ retrier'[c] \in {"idle", "spawned"}
        /\ \A d \in Conns : d # c => conn'[d] = conn[d] /\ retrier'[d] = retrier[d]
        /\ UNCHANGED <<connecting, ioThread>>
    BY <1>5 DEF OnFail, Owners
  <2> QED
    BY <2>1
<1>6. ASSUME NEW c \in Conns, StopService(c) PROVE Same
  BY <1>6 DEF StopService
<1>7. ASSUME NEW c \in Conns, TestJoinable(c)
      PROVE  \/ Same
             \/ /\ c \notin Joined /\ retrier[c] = "stopped" /\ ioThread = "none"
                /\ Assigned' = Assigned /\ Joined' = Joined \cup {c} /\ Held' = Held
  BY <1>7 DEF TestJoinable
<1>8. ASSUME NEW c \in Conns, JoinIoThread(c)
      PROVE  /\ c \notin Joined /\ Assigned' = Assigned /\ Joined' = Joined \cup {c}
             /\ Held = 1 /\ Held' = 0
  BY <1>8 DEF JoinIoThread
<1>9. ASSUME NEW c \in Conns, JoinThrows(c)
      PROVE  /\ c \notin Joined /\ retrier[c] = "joining"
             /\ Assigned' = Assigned /\ Joined' = Joined \cup {c} /\ Held' = Held
  BY <1>9 DEF JoinThrows
<1>10. ASSUME NEW c \in Conns, ResetAndRedial(c) PROVE Same
  <2>1. UNCHANGED <<conn, connecting, ioThread>>
    BY <1>10, ResetThrows
  <2> QED
    BY <1>10, <2>1 DEF ResetAndRedial
<1> HIDE DEF Assigned, Joined, Held, TypeOK
<1>11. ASSUME NEW c \in Conns, Reconnect(c)
       PROVE  \/ Same
              \/ /\ c \notin Joined /\ JoinIoThread(c) /\ Assigned' = Assigned
                 /\ Joined' = Joined \cup {c} /\ Held = 1 /\ Held' = 0
              \/ /\ c \notin Joined /\ retrier[c] \in {"stopped", "joining"}
                 /\ (TestJoinable(c) /\ ioThread = "none") \/ JoinThrows(c)
                 /\ Assigned' = Assigned /\ Joined' = Joined \cup {c} /\ Held' = Held
  BY <1>6, <1>7, <1>8, <1>9, <1>10, <1>11 DEF Reconnect
<1> QED
  BY <1>1, <1>2, <1>3, <1>4, <1>5, <1>11 DEF Next

\* Every step keeps the account.
LEMMA AccountsStep ==
  ASSUME TypeOK, NothingBefore, Owners, Accounts, [Next]_vars
  PROVE  Accounts'
<1>1. /\ IsFiniteSet(Assigned) /\ IsFiniteSet(Joined)
      /\ Cardinality(Assigned) \in Nat /\ Cardinality(Joined) \in Nat
  BY Counted
<1>2. Held \in {0, 1}
  BY DEF Held
<1>3. CASE Assigned' = Assigned /\ Joined' = Joined /\ Held' = Held
  BY <1>3 DEF Accounts
<1>4. ASSUME NEW c, Assigned' = Assigned \cup {c}, Joined' = Joined, Held = 0, Held' = 1
      PROVE  Accounts'
  <2>1. Cardinality(Assigned') <= Cardinality(Assigned) + 1
    BY <1>1, <1>4, FS_AddElement
  <2>2. Cardinality(Assigned') \in Nat
    BY <1>1, <1>4, FS_AddElement, FS_CardinalityType
  <2> QED
    BY <1>1, <1>4, <2>1, <2>2 DEF Accounts
<1>5. ASSUME NEW c, c \notin Joined, Assigned' = Assigned, Joined' = Joined \cup {c},
             Held' = Held \/ (Held = 1 /\ Held' = 0)
      PROVE  Accounts'
  <2>1. Cardinality(Joined') = Cardinality(Joined) + 1
    BY <1>1, <1>5, FS_AddElement
  <2> QED
    BY <1>1, <1>2, <1>5, <2>1 DEF Accounts
<1> QED
  BY <1>3, <1>4, <1>5, AccountsMove

\* Who has opened, and which one the handle and the flag tell of.
LEMMA HandleStep ==
  ASSUME TypeOK, NothingBefore, Owners, HandleNamed, FlagKept, [Next]_vars
  PROVE  HandleNamed' /\ FlagKept'
<1> USE DEF TypeOK, HandleNamed, FlagKept, Sole, HasOpened
<1> 0 \notin Conns
  BY DEF Conns
<1>1. CASE Construct \/ RunReturns \/ UNCHANGED vars
  BY <1>1 DEF Construct, RunReturns, vars
<1>2. ASSUME NEW c \in Conns, Connect(c) PROVE HandleNamed' /\ FlagKept'
  <2>1. /\ conn[c] = "none" /\ UNCHANGED <<handle, connected, retryCount>>
        /\ \A d \in Conns : conn'[d] = IF d = c THEN "dialing" ELSE conn[d]
    BY <1>2 DEF Connect, Dial, Fresh
  <2> QED
    BY <2>1
<1>3. ASSUME NEW c \in Conns, StartIoThread(c) PROVE HandleNamed' /\ FlagKept'
  BY <1>3 DEF StartIoThread
<1>4. ASSUME NEW c \in Conns, OnOpen(c) PROVE HandleNamed' /\ FlagKept'
  <2>1. /\ conn[c] = "dialing" /\ handle' = c /\ connected' = TRUE /\ retryCount' = 0
        /\ \A d \in Conns : conn'[d] = IF d = c THEN "open" ELSE conn[d]
    BY <1>4 DEF OnOpen
  <2> QED
    BY <2>1
<1>5. ASSUME NEW c \in Conns, OnClose(c) PROVE HandleNamed' /\ FlagKept'
  <2>1. /\ conn[c] = "open" /\ connected' = FALSE /\ UNCHANGED <<handle, retryCount>>
        /\ \A d \in Conns : conn'[d] = IF d = c THEN "closed" ELSE conn[d]
    BY <1>5 DEF OnClose
  <2> QED
    BY <2>1
<1>6. ASSUME NEW c \in Conns, OnFail(c) PROVE HandleNamed' /\ FlagKept'
  <2>1. /\ conn[c] = "dialing" /\ connected' = FALSE /\ handle' = handle
        /\ retryCount' > 0
        /\ \A d \in Conns : conn'[d] = IF d = c THEN "failed" ELSE conn[d]
    BY <1>6 DEF OnFail
  <2> QED
    BY <2>1
<1>7. ASSUME NEW c \in Conns, Reconnect(c) PROVE HandleNamed' /\ FlagKept'
  <2>1. UNCHANGED <<conn, handle, connected, retryCount>>
    BY <1>7, ResetThrows DEF Reconnect, StopService, TestJoinable, JoinIoThread, JoinThrows
  <2> QED
    BY <2>1
<1> QED
  BY <1>1, <1>2, <1>3, <1>4, <1>5, <1>6, <1>7 DEF Next

\* Until a retry thread stops the service, only the work it has matters.
LEMMA BeforeStopsStep ==
  ASSUME TypeOK, NothingBefore, Owners, BeforeStops, [Next]_vars
  PROVE  BeforeStops'
<1> USE DEF TypeOK, IoThreads, BeforeStops, NoStops
<1>1. CASE Construct \/ UNCHANGED vars
  BY <1>1 DEF Construct, vars
<1>2. CASE RunReturns
  BY <1>2 DEF RunReturns, Live
<1>3. ASSUME NEW c \in Conns, Connect(c) PROVE BeforeStops'
  <2>1. /\ conn[c] = "none" /\ UNCHANGED <<ioThread, stopped, retrier>>
        /\ connecting' = connecting \cup {c}
        /\ \A d \in Conns : conn'[d] = IF d = c THEN "dialing" ELSE conn[d]
    BY <1>3 DEF Connect, Dial, Fresh
  <2> QED
    BY <2>1
<1>4. ASSUME NEW c \in Conns, StartIoThread(c) PROVE BeforeStops'
  BY <1>4 DEF StartIoThread
<1>5. ASSUME NEW c \in Conns, OnOpen(c) \/ OnClose(c) PROVE BeforeStops'
  BY <1>5 DEF OnOpen, OnClose, Dispatching
<1>6. ASSUME NEW c \in Conns, OnFail(c) PROVE BeforeStops'
  <2>1. /\ ioThread' = "running" /\ stopped' = FALSE
    BY <1>6 DEF OnFail, Dispatching
  <2> QED
    BY <2>1
<1>7. ASSUME NEW c \in Conns, Reconnect(c) PROVE ~NoStops'
  <2>1. /\ retrier[c] \in RetrierStates
        /\ retrier'[c] \in {"stopped", "joining", "resetting", "done"}
    BY <1>7 DEF Reconnect, StopService, TestJoinable, JoinIoThread, JoinThrows, ResetAndRedial
  <2> QED
    BY <2>1
<1> QED
  BY <1>1, <1>2, <1>3, <1>4, <1>5, <1>6, <1>7 DEF Next

\* The inductive invariant holds in every reachable state.
THEOREM Inductive == Spec => []IInv
<1>1. Init => IInv
  <2> SUFFICES ASSUME Init, TypeOK PROVE IInv
    BY TypeInit
  <2>1. NothingBefore /\ Owners /\ HandleNamed /\ FlagKept /\ BeforeStops
    BY DEF Init, NothingBefore, Owners, HandleNamed, FlagKept, BeforeStops, Sole, HasOpened
  <2>2. Assigned = {}
    BY DEF Init, Assigned
  <2>3. Accounts
    BY <2>2, FS_EmptySet, Counted DEF Accounts, Held
  <2> QED
    BY <2>1, <2>3 DEF IInv
<1>2. IInv /\ [Next]_vars => IInv'
  BY TypeStep, OwnersStep, AccountsStep, HandleStep, BeforeStopsStep DEF IInv
<1> QED
  BY <1>1, <1>2, PTL DEF Spec

-----------------------------------------------------------------------------
(* What the account says of the connections *)

\* While every connect() has returned, one connection at most is unjoined.
LEMMA SettledUnjoined ==
  ASSUME IInv, Settled, NEW c \in Conns, NEW d \in Conns, Unjoined(c), Unjoined(d)
  PROVE  c = d /\ ioThread # "none"
BY OneUnjoined DEF Settled

\* Used connections and those whose retry thread is before its join are unjoined.
LEMMA WhoIsUnjoined ==
  ASSUME IInv, Settled, NEW c \in Conns, Used(c) \/ Retrying(c)
  PROVE  Unjoined(c)
BY DEF IInv, Owners, Settled, Used, Retrying, Unjoined

\* Once every connect() has returned, at most one connection dialled has not failed.
THEOREM OneConnection == Spec => []OneLiveConnection
<1>1. IInv => OneLiveConnection
  BY SettledUnjoined, WhoIsUnjoined DEF OneLiveConnection
<1> QED
  BY <1>1, Inductive, PTL

\* Once every connect() has returned, the one connection that has opened is the
\* one that the handle names: the session keys serve one connection.
OneOpened == (Settled => Sole) /\ HandleNamed

\* No second connection ever opens, except in a process that line 152 ends.
THEOREM OneOpens == Spec => []OneOpened
<1>1. IInv => OneOpened
  <2> SUFFICES ASSUME IInv, Settled, NEW c \in Conns, HasOpened(c) PROVE handle = c
    BY DEF OneOpened, Sole, IInv
  <2>1. handle \in Conns /\ HasOpened(handle)
    BY DEF IInv, TypeOK, HandleNamed
  <2>2. Used(c) /\ Used(handle)
    BY <2>1 DEF HasOpened, Used
  <2> QED
    BY <2>1, <2>2, SettledUnjoined, WhoIsUnjoined
<1> QED
  BY <1>1, Inductive, PTL

\* The connected flag names an open connection, and an open connection has it
\* unless a fail handler has cleared it.
THEOREM FlagIsRight == Spec => []FlagTracksConnection
<1>1. IInv /\ OneOpened => FlagTracksConnection
  BY DEF IInv, FlagKept, OneOpened, Sole, HasOpened, FlagTracksConnection
<1> QED
  BY <1>1, Inductive, OneOpens, PTL

\* A connection whose connect() has returned is live without a thread only
\* behind a retry thread that has got past its join.
THEOREM OnlyRetriesStrand == Spec => []StrandedByRetry
<1>1. IInv => StrandedByRetry
  <2> SUFFICES ASSUME IInv, Settled, NEW c \in Conns, Live(c), ioThread # "running"
               PROVE  \E d \in Conns : conn[d] = "failed" /\ retrier[d] \in {"resetting", "done"}
    BY DEF StrandedByRetry
  <2>1. Unjoined(c) /\ conn[c] # "failed"
    BY WhoIsUnjoined DEF Live, Used
  <2>2. ioThread = "finished"
    BY <2>1, SettledUnjoined DEF IInv, TypeOK, IoThreads
  <2>3. PICK d \in Conns : retrier[d] \notin {"idle", "spawned"}
    BY <2>2 DEF IInv, BeforeStops, NoStops, Live, Settled
  <2>4. conn[d] = "failed"
    BY <2>3 DEF IInv, Owners
  <2>5. ~Retrying(d)
    BY <2>1, <2>4, SettledUnjoined, WhoIsUnjoined
  <2> QED
    BY <2>3, <2>4, <2>5 DEF IInv, TypeOK, RetrierStates, Retrying
<1> QED
  BY <1>1, Inductive, PTL

\* While a retry thread waits in its join and every connect() has returned, no
\* connection is live, so that run() has no work left, and no other retry thread
\* is about to join: the join ends, and does not throw (LoginHandler.cpp:264-268,
\* the safety behind RetryThreadsEnd).
JoinIsAnswered ==
  Settled => \A c \in Conns : retrier[c] = "joining" =>
    /\ ioThread # "none"
    /\ \A d \in Conns : ~Live(d) /\ (Retrying(d) => d = c)

\* No retry thread waits for a thread that has work, unless the process is about
\* to end in a connect().
THEOREM JoinsEnd == Spec => []JoinIsAnswered
<1>1. IInv => JoinIsAnswered
  <2> SUFFICES ASSUME IInv, Settled, NEW c \in Conns, retrier[c] = "joining",
                      NEW d \in Conns
               PROVE  ioThread # "none" /\ ~Live(d) /\ (Retrying(d) => d = c)
    BY DEF JoinIsAnswered
  <2>1. Unjoined(c) /\ conn[c] = "failed"
    BY WhoIsUnjoined DEF IInv, Owners, Retrying
  <2>2. Live(d) => Unjoined(d) /\ conn[d] # "failed"
    BY WhoIsUnjoined DEF Live, Used
  <2> QED
    BY <2>1, <2>2, SettledUnjoined, WhoIsUnjoined
<1> QED
  BY <1>1, Inductive, PTL

\* A retry thread that has called stop(), and has got past its join once every
\* connect() has returned.
HasStopped(d) ==
  /\ conn[d] = "failed" /\ retrier[d] \notin {"idle", "spawned"}
  /\ Settled => retrier[d] \in {"resetting", "done"}

\* An open connection is served: its IO thread is inside run() and not told to
\* leave it; or the retry thread of another connection that failed has called
\* stop(), and has got past its join once every connect() has returned.
OpenIsServed ==
  \A c \in Conns : conn[c] = "open" =>
    \/ ioThread = "running" /\ ~stopped
    \/ \E d \in Conns : HasStopped(d)

\* Only a retry ends the service of an open connection.
THEOREM OpenStaysServed == Spec => []OpenIsServed
<1>1. IInv => OpenIsServed
  <2> SUFFICES ASSUME IInv, NEW c \in Conns, conn[c] = "open",
                      ~(ioThread = "running" /\ ~stopped)
               PROVE  \E d \in Conns : HasStopped(d)
    BY DEF OpenIsServed
  <2>1. PICK d \in Conns : retrier[d] \notin {"idle", "spawned"}
    BY DEF IInv, TypeOK, IoThreads, BeforeStops, NoStops
  <2>2. conn[d] = "failed"
    BY <2>1 DEF IInv, Owners
  <2>3. Settled => ~Retrying(d)
    BY <2>2, SettledUnjoined, WhoIsUnjoined DEF Used
  <2> QED
    BY <2>1, <2>2, <2>3 DEF HasStopped, IInv, TypeOK, RetrierStates, Retrying
<1> QED
  BY <1>1, Inductive, PTL

\* No retry ever dials: a step of reconnect() that resets the service finds the
\* endpoint initialised, and leaves every connection as it was.
RetryNeverDials == [][\A c \in Conns : ResetAndRedial(c) => UNCHANGED conn]_vars

\* No reachable state lets reconnect() dial (LoginHandler.cpp:262-304).
THEOREM NoRetryDials == Spec => RetryNeverDials
<1>1. IInv /\ [Next]_vars => [\A c \in Conns : ResetAndRedial(c) => UNCHANGED conn]_vars
  BY ResetThrows DEF IInv
<1> QED
  BY <1>1, Inductive, PTL DEF Spec, RetryNeverDials

-----------------------------------------------------------------------------
(* Attempts whose dials do not fail inside connect(): no join is wasted *)

\* The account comes out even.
Exact == Cardinality(Assigned) = Cardinality(Joined) + Held

\* A failure was announced and has its retry thread, unless some connection has
\* opened since or the limit was passed.
Announced ==
  \/ \E c \in Conns : HasOpened(c)
  \/ retryCount > MAX_RETRIES
  \/ \A c \in Conns : conn[c] = "failed" => retrier[c] # "idle"

\* A retry thread finds a thread to join, and joins it alone.
LEMMA CalmStep ==
  ASSUME IInv, Calm, Exact, [Next]_vars
  PROVE  Exact'
<1>1. TypeOK /\ NothingBefore /\ Owners
  BY DEF IInv
<1>2. /\ IsFiniteSet(Assigned) /\ IsFiniteSet(Joined)
      /\ Cardinality(Assigned) \in Nat /\ Cardinality(Joined) \in Nat
  BY <1>1, Counted
<1>3. ASSUME NEW c \in Conns, retrier[c] \in {"stopped", "joining"},
             (TestJoinable(c) /\ ioThread = "none") \/ JoinThrows(c)
      PROVE  FALSE
  <2>1. \A e \in Conns : retrier[e] # "idle" => e \notin connecting /\ conn[e] = "failed"
    BY <1>1 DEF Owners, Calm
  <2>2. \A e \in connecting : retrier[e] \notin {"resetting", "done"}
    BY <1>1, <2>1 DEF TypeOK
  <2>3. \A e \in Conns : retrier[e] \in {"stopped", "joining"} => Unjoined(e)
    BY <2>1 DEF Unjoined
  <2>4. \A e \in Conns : Unjoined(e) => e = c /\ ioThread # "none"
    BY <1>3, <2>2, <2>3, OneUnjoined
  <2> QED
    BY <1>3, <2>3, <2>4 DEF JoinThrows
<1>4. CASE Assigned' = Assigned /\ Joined' = Joined /\ Held' = Held
  BY <1>4 DEF Exact
<1>5. ASSUME NEW c, c \notin Assigned, Assigned' = Assigned \cup {c}, Joined' = Joined,
             Held = 0, Held' = 1
      PROVE  Exact'
  <2>1. Cardinality(Assigned') = Cardinality(Assigned) + 1
    BY <1>2, <1>5, FS_AddElement
  <2> QED
    BY <1>2, <1>5, <2>1 DEF Exact
<1>6. ASSUME NEW c, c \notin Joined, Assigned' = Assigned, Joined' = Joined \cup {c},
             Held = 1, Held' = 0
      PROVE  Exact'
  <2>1. Cardinality(Joined') = Cardinality(Joined) + 1
    BY <1>2, <1>6, FS_AddElement
  <2> QED
    BY <1>2, <1>6, <2>1 DEF Exact
<1> QED
  BY <1>1, <1>3, <1>4, <1>5, <1>6, AccountsMove

\* Every step keeps the announcements.
LEMMA AnnouncedStep ==
  ASSUME TypeOK, NothingBefore, Owners, Announced, [Next]_vars
  PROVE  Announced'
<1> USE DEF TypeOK, Announced, HasOpened
<1>1. CASE Construct \/ RunReturns \/ UNCHANGED vars
  BY <1>1 DEF Construct, RunReturns, vars
<1>2. ASSUME NEW c \in Conns, Connect(c) PROVE Announced'
  <2>1. /\ conn[c] = "none" /\ UNCHANGED <<retryCount, retrier>>
        /\ \A d \in Conns : conn'[d] = IF d = c THEN "dialing" ELSE conn[d]
    BY <1>2 DEF Connect, Dial, Fresh
  <2> QED
    BY <2>1
<1>3. ASSUME NEW c \in Conns, StartIoThread(c) PROVE Announced'
  BY <1>3 DEF StartIoThread
<1>4. ASSUME NEW c \in Conns, OnOpen(c) \/ OnClose(c) PROVE Announced'
  <2>1. conn'[c] \in {"open", "closed"}
    BY <1>4 DEF OnOpen, OnClose
  <2> QED
    BY <2>1
<1>5. ASSUME NEW c \in Conns, OnFail(c) PROVE Announced'
  <2>1. /\ conn[c] = "dialing" /\ retryCount' = retryCount + 1
        /\ \A d \in Conns : conn'[d] = IF d = c THEN "failed" ELSE conn[d]
    BY <1>5 DEF OnFail
  <2>2. CASE ReportsError
    BY <2>1, <2>2, LoginHandlerAssumption DEF ReportsError
  <2>3. CASE ~ReportsError
    <3>1. \A d \in Conns : retrier'[d] = IF d = c THEN "spawned" ELSE retrier[d]
      BY <1>5, <2>3 DEF OnFail
    <3>2. ~(retryCount > MAX_RETRIES)
      BY <2>3, LoginHandlerAssumption DEF ReportsError
    <3> QED
      BY <2>1, <3>1, <3>2
  <2> QED
    BY <2>2, <2>3
<1>6. ASSUME NEW c \in Conns, Reconnect(c) PROVE Announced'
  <2>1. /\ UNCHANGED <<conn, retryCount>>
        /\ \A d \in Conns : retrier[d] # "idle" => retrier'[d] # "idle"
    BY <1>6, ResetThrows
       DEF Reconnect, StopService, TestJoinable, JoinIoThread, JoinThrows, ResetAndRedial
  <2> QED
    BY <2>1
<1> QED
  BY <1>1, <1>2, <1>3, <1>4, <1>5, <1>6 DEF Next

\* After attempts that merely failed the thread object can be assigned again, as
\* long as no dial has failed inside its own connect().
THEOREM PlainFailuresAreSafe == Spec => SafeAfterPlainFailures
<1>1. Init => Exact /\ Announced
  <2> SUFFICES ASSUME Init PROVE Exact /\ Announced
    OBVIOUS
  <2>1. Assigned = {} /\ Joined = {} /\ Held = 0
    BY DEF Init, Assigned, Joined, Held
  <2> QED
    BY <2>1, FS_EmptySet DEF Init, Exact, Announced
<1>2. IInv /\ Calm /\ Exact /\ Announced /\ [Next]_vars => Exact' /\ Announced'
  BY CalmStep, AnnouncedStep DEF IInv
<1>3. IInv /\ Exact /\ Announced => AssignableAgain
  <2> SUFFICES ASSUME IInv, Exact, Announced, Settled, retryCount <= MAX_RETRIES,
                      \A c \in Conns : conn[c] \in {"none", "failed"} /\ ~Retrying(c)
               PROVE  ioThread = "none"
    BY DEF AssignableAgain
  <2>1. ~(retryCount > MAX_RETRIES)
    BY LoginHandlerAssumption DEF IInv, TypeOK
  <2>2. \A c \in Conns : conn[c] = "failed" => retrier[c] # "idle"
    BY <2>1 DEF Announced, HasOpened
  <2>3. \A c \in Conns : conn[c] = "failed" <=> retrier[c] \in {"resetting", "done"}
    BY <2>2 DEF IInv, TypeOK, RetrierStates, Owners, Retrying
  <2>4. Assigned = Joined
    BY <2>3 DEF Assigned, Joined, Settled
  <2>5. Cardinality(Joined) \in Nat /\ Held = 0
    BY <2>4, Counted DEF IInv, Exact, Held
  <2> QED
    BY <2>5 DEF Held
<1> QED
  BY <1>1, <1>2, <1>3, Inductive, PTL DEF Spec, SafeAfterPlainFailures
=============================================================================
