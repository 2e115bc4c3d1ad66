---------------------------- MODULE VerifyPromise ----------------------------
(***************************************************************************)
(* What CreeperBox_verify promises the login dialog, without how: the call *)
(* blocks, then returns true or false; it returns true only when a session *)
(* has been established; no call blocks for ever; and a session once       *)
(* established stays, unless another attempt is still connecting: that one *)
(* may log in as well.  The process may die in a call (std::terminate).    *)
(***************************************************************************)
VARIABLES
  call,      \* "idle": no call; "pending"; "granted": a call returned true
  session,   \* the server's handshake has set the session up
  connecting \* an attempt is inside connect(): it comes and goes freely

vars == <<call, session, connecting>>

TypeOK ==
  /\ call \in {"idle", "pending", "granted", "dead"}
  /\ session \in BOOLEAN /\ connecting \in BOOLEAN

Init == call = "idle" /\ session = FALSE /\ connecting = FALSE

Begin == call = "idle" /\ call' = "pending" /\ UNCHANGED session

Establish ==
  /\ call \notin {"granted", "dead"} \/ connecting
  /\ session' = TRUE /\ UNCHANGED call

Lose == connecting /\ session' = FALSE /\ UNCHANGED call

Grant == call = "pending" /\ session /\ call' = "granted" /\ UNCHANGED session

Refuse == call = "pending" /\ call' = "idle" /\ UNCHANGED session

Die == call' = "dead" /\ UNCHANGED session

Elsewhere == UNCHANGED <<call, session>>

Next == Begin \/ Establish \/ Lose \/ Grant \/ Refuse \/ Die \/ Elsewhere

Spec == Init /\ [][Next]_vars /\ WF_<<call, session>>(Grant \/ Refuse)
=============================================================================
