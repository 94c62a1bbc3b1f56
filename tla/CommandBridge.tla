--------------------------- MODULE CommandBridge ---------------------------
(***************************************************************************)
(* What the relay promises the clients of POST /command and GET /health,   *)
(* without sockets, ids, timers or the pending map: a request is answered  *)
(* once, an answer is final, and an answer that reports on a command       *)
(* reports on the request's own command.  The relay process may restart;   *)
(* then the waiting requests are lost, and only then may a later answer    *)
(* report on another command, one of a request made before the restart.    *)
(***************************************************************************)
CONSTANTS
  Requests,           \* the HTTP requests
  NoRequest,          \* an answer that reports on no command
  RelayErrors,        \* answers the relay makes up itself
  ExtensionReplies    \* answers that report on a command

VARIABLES
  phase,              \* of each request: idle, waiting, answered or lost
  answer,             \* [code, by] for each request
  before              \* the requests made before the last restart

vars == <<phase, answer, before>>

Reply(code, by) == [code |-> code, by |-> by]

Init ==
  /\ phase = [r \in Requests |-> "idle"]
  /\ answer = [r \in Requests |-> Reply("NONE", NoRequest)]
  /\ before = {}

\* The client's command is on its way.
Accept(r) ==
  /\ phase[r] = "idle"
  /\ phase' = [phase EXCEPT ![r] = "waiting"]
  /\ UNCHANGED <<answer, before>>

\* A command was executed and its outcome is the answer.
Deliver(r) ==
  /\ phase[r] = "waiting"
  /\ phase' = [phase EXCEPT ![r] = "answered"]
  /\ \E code \in ExtensionReplies, q \in {r} \cup before :
       answer' = [answer EXCEPT ![r] = Reply(code, q)]
  /\ UNCHANGED before

\* The relay answers the requests R with the same error: one request that it
\* refuses or that has timed out, or all that wait when the extension is gone.
Fail(R) ==
  /\ \A r \in R : phase[r] \in {"idle", "waiting"}
  /\ \E code \in RelayErrors :
       /\ phase' = [r \in Requests |-> IF r \in R THEN "answered" ELSE phase[r]]
       /\ answer' = [r \in Requests |->
                       IF r \in R THEN Reply(code, NoRequest) ELSE answer[r]]
  /\ UNCHANGED before

Restart ==
  /\ phase' = [r \in Requests |-> IF phase[r] = "waiting" THEN "lost" ELSE phase[r]]
  /\ before' = {r \in Requests : phase[r] # "idle"}
  /\ UNCHANGED answer

Next ==
  \/ \E r \in Requests : Accept(r) \/ Deliver(r)
  \/ \E R \in SUBSET Requests : Fail(R)
  \/ Restart

Spec == Init /\ [][Next]_vars
=============================================================================
