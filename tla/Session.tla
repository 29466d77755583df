------------------------------- MODULE Session -------------------------------
(***************************************************************************)
(* What S7CommPlusClient promises to the endpoint: the life of its         *)
(* connection and of the requests made on it.  connect() ends with a       *)
(* session or without one; requests are let in from _connected on and end  *)
(* with their answer, or all together with the session.  A session that    *)
(* was announced by 'connect' is never lost without 'disconnect'; one that *)
(* connect() itself gives up in its last stage ends without any event, and *)
(* one that is lost in that stage with a 'disconnect' that no 'connect'    *)
(* came before.                                                            *)
(***************************************************************************)
CONSTANT Ids      \* requests

VARIABLES
  conn,    \* the connection: connect() in progress is "early" and then "late"
  told,    \* what the listener got last for the session last let in
  calls    \* requests that wait

vars == <<conn, told, calls>>

Init == conn \in {"down", "early"} /\ told = "nothing" /\ calls = {}

\* connect() is called.
Begin == conn = "down" /\ conn' = "early" /\ UNCHANGED <<told, calls>>

\* connect() is called with a session, which it ends first.
Renew == conn = "up" /\ conn' = "early" /\ told' = "disconnect" /\ calls' = {}

\* connect() has set up a session: requests are let in.
LetIn == conn = "early" /\ conn' = "late" /\ told' = "nothing" /\ UNCHANGED calls

\* connect() resolves.
Resolve == conn = "late" /\ conn' = "up" /\ told' = "connect" /\ UNCHANGED calls

\* connect() rejects before there is a session.
Reject == conn = "early" /\ conn' = "down" /\ UNCHANGED <<told, calls>>

\* connect() gives up the session it has set up, and nobody is told.
Refuse == conn = "late" /\ conn' = "down" /\ calls' = {} /\ UNCHANGED told

\* disconnect() asks the PLC to end the session.
Close == conn = "up" /\ conn' = "closing" /\ UNCHANGED <<told, calls>>

\* The session ends, and with it the connect() or disconnect() in progress.
End ==
  /\ conn \in {"late", "up", "closing"} /\ conn' = "down"
  /\ told' = "disconnect" /\ calls' = {}

\* disconnect() has nothing to end and says so all the same.
EndAgain == conn = "down" /\ told' = "disconnect" /\ UNCHANGED <<conn, calls>>

Call(c) ==
  /\ conn \in {"late", "up", "closing"}
  /\ calls' = calls \cup {c} /\ UNCHANGED <<conn, told>>

Answer(c) == c \in calls /\ calls' = calls \ {c} /\ UNCHANGED <<conn, told>>

Next ==
  \/ Begin \/ Renew \/ LetIn \/ Resolve \/ Reject \/ Refuse \/ Close \/ End \/ EndAgain
  \/ \E c \in Ids : Call(c) \/ Answer(c)

Spec == Init /\ [][Next]_vars
=============================================================================
