---------------------------- MODULE LoginHandler ----------------------------
(***************************************************************************)
(* The login channel (Verify/websocket/handler/LoginHandler.cpp): one      *)
(* websocketpp endpoint, the std::thread that runs its io_service, and the *)
(* detached threads that the fail handler starts to retry.                 *)
(*                                                                         *)
(* A connection is named by the order in which it was dialled.  A handler  *)
(* runs on the IO thread, so it is one step.  connect() and a retry thread *)
(* take one step per call they make, because other threads run between     *)
(* those calls: a connection is dialled before its thread is assigned.     *)
(***************************************************************************)
EXTENDS Naturals

CONSTANTS
  MAX_RETRIES,   \* retries announced before the failure is reported
  MaxConns       \* bound of the model: connections dialled in one process

ASSUME LoginHandlerAssumption == MAX_RETRIES \in Nat /\ MaxConns \in Nat

VARIABLES
  asio,        \* m_state of the endpoint: init_asio() wants "UNINITIALIZED"
  conn,        \* the state of every connection
  connecting,  \* connections dialled by a connect() that has not returned
  handle,      \* connectionHandle: the last connection that opened (0: none)
  connected,   \* the flag send() and isOpen() read
  retryCount,
  ioThread,    \* the std::thread object: not joinable, or joinable and ...
  stopped,     \* the io_service is in its stopped state
  retrier,     \* the retry thread a failed connection started
  crashed      \* std::terminate has ended the process

vars == <<asio, conn, connecting, handle, connected, retryCount, ioThread,
          stopped, retrier, crashed>>

Conns == 1..MaxConns

ConnStates    == {"none", "dialing", "open", "closed", "failed"}
IoThreads     == {"none", "running", "finished"}
RetrierStates == {"idle", "spawned", "stopped", "joining", "resetting", "done"}

TypeOK ==
  /\ asio \in {"UNINITIALIZED", "READY"}
  /\ conn \in [Conns -> ConnStates]
  /\ connecting \subseteq Conns
  /\ handle \in Conns \cup {0}
  /\ connected \in BOOLEAN
  /\ retryCount \in Nat
  /\ ioThread \in IoThreads
  /\ stopped \in BOOLEAN
  /\ retrier \in [Conns -> RetrierStates]
  /\ crashed \in BOOLEAN

Live(c) == conn[c] \in {"dialing", "open"}

\* The connection object the next get_connection() returns.
Fresh(c) == conn[c] = "none" /\ \A d \in Conns : d < c => conn[d] # "none"

\* A handler is dispatched only while run() is executing and was not stopped.
Dispatching == ioThread = "running" /\ ~stopped /\ ~crashed

Init ==
  /\ asio = "UNINITIALIZED"
  /\ conn = [c \in Conns |-> "none"]
  /\ connecting = {}
  /\ handle = 0
  /\ connected = FALSE
  /\ retryCount = 0
  /\ ioThread = "none"
  /\ stopped = FALSE
  /\ retrier = [c \in Conns |-> "idle"]
  /\ crashed = FALSE

-----------------------------------------------------------------------------
(* The threads that verify *)

\* The constructor initialises the endpoint, once per process.
Construct ==
  /\ asio = "UNINITIALIZED" /\ ~crashed
  /\ asio' = "READY"
  /\ UNCHANGED <<conn, connecting, handle, connected, retryCount, ioThread,
                 stopped, retrier, crashed>>

\* client.connect(con): the io_service has a dial to work on, and a thread that
\* is already running it serves the dial before connect() goes on.
Dial(c) ==
  /\ Fresh(c)
  /\ conn' = [conn EXCEPT ![c] = "dialing"]
  /\ connecting' = connecting \cup {c}

Connect(c) ==
  /\ asio = "READY" /\ ~crashed
  /\ Dial(c)
  /\ UNCHANGED <<asio, handle, connected, retryCount, ioThread, stopped, retrier,
                 crashed>>

\* Mutant: the old thread is detached before the new one is assigned.
AssignDetaching(c) ==
  /\ c \in connecting /\ ~crashed
  /\ ioThread' = "running" /\ connecting' = connecting \ {c}
  /\ UNCHANGED <<asio, conn, handle, connected, retryCount, stopped, retrier, crashed>>

\* ioThread = std::thread(...): an assignment to a joinable std::thread calls
\* std::terminate.
StartIoThread(c) ==
  /\ c \in connecting /\ ~crashed
  /\ IF ioThread = "none"
     THEN /\ ioThread' = "running" /\ connecting' = connecting \ {c}
          /\ UNCHANGED crashed
     ELSE crashed' = TRUE /\ UNCHANGED <<ioThread, connecting>>
  /\ UNCHANGED <<asio, conn, handle, connected, retryCount, stopped, retrier>>

-----------------------------------------------------------------------------
(* The handlers, on the IO thread *)

\* Mutant: a success takes one failure back instead of clearing the count.
OpenDecrementing(c) ==
  /\ Dispatching
  /\ conn[c] = "dialing"
  /\ conn' = [conn EXCEPT ![c] = "open"]
  /\ handle' = c
  /\ connected' = TRUE
  /\ retryCount' = retryCount - 1
  /\ UNCHANGED <<asio, connecting, ioThread, stopped, retrier, crashed>>

OnOpen(c) ==
  /\ Dispatching
  /\ conn[c] = "dialing"
  /\ conn' = [conn EXCEPT ![c] = "open"]
  /\ handle' = c
  /\ connected' = TRUE
  /\ retryCount' = 0
  /\ UNCHANGED <<asio, connecting, ioThread, stopped, retrier, crashed>>

\* Mutant: the close handler forgets the flag.
CloseKeepingFlag(c) ==
  /\ Dispatching
  /\ conn[c] = "open"
  /\ conn' = [conn EXCEPT ![c] = "closed"]
  /\ UNCHANGED <<asio, connecting, handle, connected, retryCount, ioThread,
                 stopped, retrier, crashed>>

OnClose(c) ==
  /\ Dispatching
  /\ conn[c] = "open"
  /\ conn' = [conn EXCEPT ![c] = "closed"]
  /\ connected' = FALSE
  /\ UNCHANGED <<asio, connecting, handle, retryCount, ioThread, stopped, retrier,
                 crashed>>

\* True in the step in which the fail handler calls errorCallback.
ReportsError == retryCount >= MAX_RETRIES

\* A retry is announced and its thread started, or the failure is reported.
OnFail(c) ==
  /\ Dispatching
  /\ conn[c] = "dialing"
  /\ conn' = [conn EXCEPT ![c] = "failed"]
  /\ connected' = FALSE
  /\ retryCount' = retryCount + 1
  /\ retrier' = IF ReportsError THEN retrier
                                ELSE [retrier EXCEPT ![c] = "spawned"]
  /\ UNCHANGED <<asio, connecting, handle, ioThread, stopped, crashed>>

\* Mutant: the fail handler calls reconnect() itself, on the IO thread.
ReturnsAfterRetry ==
  /\ ioThread = "running" /\ ~crashed
  /\ \A c \in Conns : retrier[c] \notin {"spawned", "stopped", "joining"}
  /\ stopped \/ \A c \in Conns : ~Live(c)
  /\ ioThread' = "finished"
  /\ stopped' = TRUE
  /\ UNCHANGED <<asio, conn, connecting, handle, connected, retryCount, retrier,
                 crashed>>

\* Mutant: run_one() in place of run(): the thread serves one handler.
ReturnsAfterOne ==
  /\ ioThread = "running" /\ ~crashed
  /\ stopped \/ \A c \in Conns : conn[c] # "dialing"
  /\ ioThread' = "finished"
  /\ stopped' = TRUE
  /\ UNCHANGED <<asio, conn, connecting, handle, connected, retryCount, retrier,
                 crashed>>

\* run() returns when it was stopped or has no work left; the latter leaves
\* the io_service stopped.
RunReturns ==
  /\ ioThread = "running" /\ ~crashed
  /\ stopped \/ \A c \in Conns : ~Live(c)
  /\ ioThread' = "finished"
  /\ stopped' = TRUE
  /\ UNCHANGED <<asio, conn, connecting, handle, connected, retryCount, retrier,
                 crashed>>

-----------------------------------------------------------------------------
(* The retry thread of a failed connection: reconnect() *)

StopService(c) ==
  /\ retrier[c] = "spawned" /\ ~crashed
  /\ stopped' = TRUE
  /\ retrier' = [retrier EXCEPT ![c] = "stopped"]
  /\ UNCHANGED <<asio, conn, connecting, handle, connected, retryCount, ioThread,
                 crashed>>

\* Mutant: the retry goes on without joining the IO thread.
SkipJoin(c) ==
  /\ retrier[c] = "stopped" /\ ~crashed
  /\ retrier' = [retrier EXCEPT ![c] = "resetting"]
  /\ UNCHANGED <<asio, conn, connecting, handle, connected, retryCount, ioThread,
                 stopped, crashed>>

\* ioThread.joinable(): a thread object that holds none is not waited for.
TestJoinable(c) ==
  /\ retrier[c] = "stopped" /\ ~crashed
  /\ retrier' = [retrier EXCEPT ![c] = IF ioThread = "none" THEN "resetting"
                                                            ELSE "joining"]
  /\ UNCHANGED <<asio, conn, connecting, handle, connected, retryCount, ioThread,
                 stopped, crashed>>

\* join() blocks while the thread runs.
JoinIoThread(c) ==
  /\ retrier[c] = "joining" /\ ~crashed
  /\ ioThread = "finished"
  /\ ioThread' = "none"
  /\ retrier' = [retrier EXCEPT ![c] = "resetting"]
  /\ UNCHANGED <<asio, conn, connecting, handle, connected, retryCount, stopped,
                 crashed>>

\* A thread that another one joins, or has joined since joinable() was asked,
\* cannot be joined: the exception ends the retry thread.
JoinThrows(c) ==
  /\ retrier[c] = "joining" /\ ~crashed
  /\ ioThread = "none" \/ \E d \in Conns \ {c} : retrier[d] = "joining"
  /\ retrier' = [retrier EXCEPT ![c] = "done"]
  /\ UNCHANGED <<asio, conn, connecting, handle, connected, retryCount, ioThread,
                 stopped, crashed>>

\* init_asio() throws unless the endpoint is uninitialised.
InitAsioThrows == asio # "UNINITIALIZED"

\* client.reset(), then init_asio(): its exception ends the retry thread, and
\* without one the connection would be dialled again.
ResetAndRedial(c) ==
  /\ retrier[c] = "resetting" /\ ~crashed
  /\ stopped' = FALSE
  /\ retrier' = [retrier EXCEPT ![c] = "done"]
  /\ IF InitAsioThrows
     THEN UNCHANGED <<asio, conn, connecting>>
     ELSE asio' = "READY" /\ \E d \in Conns : Dial(d)
  /\ UNCHANGED <<handle, connected, retryCount, ioThread, crashed>>

Reconnect(c) ==
  \/ StopService(c) \/ TestJoinable(c) \/ JoinIoThread(c) \/ JoinThrows(c)
  \/ ResetAndRedial(c)

-----------------------------------------------------------------------------
Next ==
  \/ Construct
  \/ RunReturns
  \/ \E c \in Conns :
       \/ Connect(c) \/ StartIoThread(c)
       \/ OnOpen(c) \/ OnClose(c) \/ OnFail(c)
       \/ Reconnect(c)

\* Threads that can run do run, and the 5 s handshake timeout resolves every
\* dial the IO thread serves.  A remote peer need not close a connection, and
\* nobody has to ask for one.
Fairness ==
  /\ WF_vars(RunReturns)
  /\ \A c \in Conns :
       /\ WF_vars(StartIoThread(c))
       /\ WF_vars(OnOpen(c) \/ OnFail(c))
       /\ WF_vars(Reconnect(c))

Spec == Init /\ [][Next]_vars
FairSpec == Spec /\ Fairness
-----------------------------------------------------------------------------
(* Correctness *)

\* No connect() is between its dial and its assignment of the IO thread.
Settled == connecting = {} /\ ~crashed

\* Once every connect() has returned, at most one of the connections dialled
\* has not failed: the one connectionHandle and the process-wide session keys
\* (HS256, ECDH, ChaCha20) serve one connection without a lock.  Before that, a
\* second dial may be under way on the running IO thread (LoginHandler.cpp:150),
\* and may even open; the process ends at line 152.
Used(c) == conn[c] \notin {"none", "failed"}

OneLiveConnection ==
  Settled => \A c, d \in Conns : Used(c) /\ Used(d) => c = d

Retrying(c) == retrier[c] \in {"spawned", "stopped", "joining"}

\* No dial has failed before its connect() assigned the thread.
Calm == \A c \in connecting : conn[c] # "failed"

AssignableAgain ==
  (/\ Settled
   /\ \A c \in Conns : conn[c] \in {"none", "failed"} /\ ~Retrying(c)
   /\ retryCount <= MAX_RETRIES) => ioThread = "none"

\* A later attempt is safe after attempts that merely failed: once their
\* retry threads have joined the IO thread and while no failure was reported,
\* the thread object can be assigned again (LoginHandler.cpp:152).  A dial that
\* fails inside its own connect() breaks that: its retry thread can free the
\* object before line 152, which then leaves a thread that nobody joins.
SafeAfterPlainFailures == []Calm => []AssignableAgain

\* The connected flag names an open connection, which is what send() relies on
\* when it posts to the handle.  Once every connect() has returned, an open
\* connection is the one the handle names and has its flag, unless the fail
\* handler of another dial has cleared the flag since: the count says so.
FlagTracksConnection ==
  /\ connected => handle # 0 /\ conn[handle] = "open" /\ retryCount = 0
  /\ Settled => \A c \in Conns :
                  conn[c] = "open" => handle = c /\ (connected \/ retryCount > 0)

\* A connection is abandoned, live without a thread that serves it once its
\* connect() has returned, in one way only: the retry thread of an earlier
\* failure was between its join and its reset when it was dialled, on a service
\* still stopped (LoginHandler.cpp:268-274).
StrandedByRetry ==
  Settled => \A c \in Conns :
    (Live(c) /\ ioThread # "running") =>
      \E d \in Conns : conn[d] = "failed" /\ retrier[d] \in {"resetting", "done"}

\* A retry thread always gets past its join and ends, or the process does:
\* joining the IO thread from a thread that one of its own handlers started
\* does not deadlock.  Two retry threads can wait at once, one of them for a
\* thread that was started after its stop().
RetryThreadsEnd ==
  \A c \in Conns : Retrying(c) ~> retrier[c] = "done" \/ crashed

\* What the comments and messages of the fail handler say: a failure that is
\* announced as "retry n of MAX_RETRIES" is followed by another dial (the bound
\* leaves room for one after every connection but the last).
RetriesRedial ==
  \A c \in Conns \ {MaxConns} :
    retrier[c] = "spawned" ~> crashed \/ \E d \in Conns : d > c /\ conn[d] # "none"

\* What the comment at the dial says: a dial ends within its 5 s timeout.
DialsResolve ==
  \A c \in Conns : conn[c] = "dialing" ~> conn[c] # "dialing" \/ crashed
=============================================================================
