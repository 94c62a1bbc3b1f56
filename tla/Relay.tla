------------------------------- MODULE Relay -------------------------------
(***************************************************************************)
(* The relay process (skill/scripts/relay.ts): it accepts one extension    *)
(* websocket, turns every POST /command and every GET /health probe into a *)
(* numbered command on that socket, and correlates the numbered responses  *)
(* with the HTTP requests that wait for them.  Each action is one          *)
(* JavaScript callback, run to completion by the event loop: a websocket   *)
(* handler, an HTTP handler up to its await, or a timer callback.          *)
(*                                                                         *)
(* Bun's websocket server and the extension are the environment.  The      *)
(* extension is seen through `work`: the commands it holds and has not     *)
(* answered.  It keeps them when the relay restarts.                       *)
(***************************************************************************)
EXTENDS Naturals

CONSTANTS
  Commands,           \* HTTP requests to POST /command
  Probes,             \* HTTP requests to GET /health
  Sockets,            \* websocket connections made to /extension
  Subscribers,        \* HTTP clients of GET /events
  NoRequest,          \* "no entry" in the pending map
  NoSocket,           \* the value null of state.extension
  MaxId,              \* bound on the ids one relay process hands out
  MaxRestarts,        \* bound on the restarts of the relay process
  ClosingSockets      \* sockets that may leave OPEN before their close handler runs

Requests == Commands \cup Probes
Ids == 1 .. MaxId

ASSUME RelayConstants ==
  /\ NoRequest \notin Requests
  /\ NoSocket \notin Sockets
  /\ MaxId \in Nat
  /\ MaxRestarts \in Nat
  /\ ClosingSockets \subseteq Sockets

VARIABLES
  extension,    \* state.extension
  nextId,       \* state.nextId
  pending,      \* state.pending: the request that waits for each id
  timers,       \* ids whose request timeout is armed
  keepalive,    \* the socket that the interval in state.extensionKeepaliveId pings
  intervals,    \* the sockets pinged by some interval that was never cleared
  sseClients,   \* state.sseClients
  told,         \* what each subscriber last heard about extensionConnected
  socket,       \* life cycle of each websocket, as the relay sees it
  http,         \* life cycle of each HTTP request
  reply,        \* the answer to each HTTP request, and the command it reports on
  work,         \* commands the extension holds, not yet answered
  epoch,        \* number of restarts of the relay so far
  sentOn,       \* history: the socket each id of this epoch was written to
  bornIn        \* history: the epoch in which each request was accepted

socketVars == <<extension, keepalive, intervals, socket>>
sseVars == <<sseClients, told>>
requestVars == <<pending, timers, http, reply>>
vars == <<extension, nextId, pending, timers, keepalive, intervals, sseClients, told,
          socket, http, reply, work, epoch, sentOn, bornIn>>

-----------------------------------------------------------------------------
(* Answers.  The relay's own errors report on no command (by = NoRequest). *)

RelayErrors == {"INVALID", "EXTENSION_NOT_CONNECTED", "WS_SEND_FAILED", "COMMAND_TIMEOUT",
                "EXTENSION_RECONNECTED", "EXTENSION_DISCONNECTED"}
ExtensionReplies == {"RESULT", "EXTENSION_ERROR"}

Reply(code, by) == [code |-> code, by |-> by]
NoReply == Reply("NONE", NoRequest)
Replies == [code : RelayErrors \cup ExtensionReplies \cup {"NONE"},
            by : Requests \cup {NoRequest}]

Command(i, r) == [id |-> i, req |-> r]

InFlight == {i \in Ids : pending[i] # NoRequest}

\* ext.readyState === WebSocket.OPEN
ExtensionOpen == extension # NoSocket /\ socket[extension] = "open"

Init ==
  /\ extension = NoSocket
  /\ nextId = 1
  /\ pending = [i \in Ids |-> NoRequest]
  /\ timers = {}
  /\ keepalive = NoSocket
  /\ intervals = {}
  /\ sseClients = {}
  /\ told = [c \in Subscribers |-> "nothing"]
  /\ socket = [s \in Sockets |-> "unused"]
  /\ http = [r \in Requests |-> "idle"]
  /\ reply = [r \in Requests |-> NoReply]
  /\ work = {}
  /\ epoch = 0
  /\ sentOn = [i \in Ids |-> NoSocket]
  /\ bornIn = [r \in Requests |-> 0]

-----------------------------------------------------------------------------
(* The helpers the handlers share.                                         *)

\* The requests in R get the same answer.
Answer(R, a) ==
  /\ http' = [r \in Requests |-> IF r \in R THEN "answered" ELSE http[r]]
  /\ reply' = [r \in Requests |-> IF r \in R THEN a ELSE reply[r]]

\* Mutant: the entry is left in the map.
RespondPendingKeepingEntry(i, a, armed) ==
  \/ pending[i] = NoRequest /\ timers' = armed /\ UNCHANGED <<pending, http, reply>>
  \/ pending[i] # NoRequest /\ timers' = armed \ {i} /\ UNCHANGED pending
     /\ Answer({pending[i]}, a)

\* Mutant: the timer of the entry is not cleared.
RespondPendingKeepingTimer(i, a, armed) ==
  /\ timers' = armed
  /\ pending' = [pending EXCEPT ![i] = NoRequest]
  /\ Answer({pending[i]}, a)

\* Takes the entry of id i, if there is one, stops its timer and answers its
\* request.  `armed` are the timers armed when respondPending is called.
RespondPending(i, a, armed) ==
  \/ /\ pending[i] = NoRequest
     /\ timers' = armed
     /\ UNCHANGED <<pending, http, reply>>
  \/ /\ pending[i] # NoRequest
     /\ timers' = armed \ {i}
     /\ pending' = [pending EXCEPT ![i] = NoRequest]
     /\ Answer({pending[i]}, a)

\* Mutant: nothing is canceled.
FailNonePending(code) == UNCHANGED requestVars

\* Mutant: the map is cleared without an answer.
ForgetAllPending(code) ==
  timers' = timers \ InFlight /\ pending' = [i \in Ids |-> NoRequest] /\ UNCHANGED <<http, reply>>

\* Mutant: the timers of the canceled entries go on.
FailAllPendingKeepingTimers(code) ==
  /\ UNCHANGED timers
  /\ pending' = [i \in Ids |-> NoRequest]
  /\ Answer({pending[i] : i \in InFlight}, Reply(code, NoRequest))

FailAllPending(code) ==
  /\ timers' = timers \ InFlight
  /\ pending' = [i \in Ids |-> NoRequest]
  /\ Answer({pending[i] : i \in InFlight}, Reply(code, NoRequest))

\* Mutant: a client whose stream refused the chunk stays in the set.
BroadcastKeepingRefused(status) ==
  \E refused \in SUBSET sseClients :
    /\ told' = [c \in Subscribers |->
                  IF c \in sseClients \ refused THEN status ELSE told[c]]
    /\ UNCHANGED sseClients

\* A client whose stream refuses the chunk is dropped from the set.
BroadcastStatus(status) ==
  \E refused \in SUBSET sseClients :
    /\ sseClients' = sseClients \ refused
    /\ told' = [c \in Subscribers |->
                  IF c \in sseClients \ refused THEN status ELSE told[c]]

\* Any other message to the subscribers.
Broadcast ==
  /\ \E refused \in SUBSET sseClients : sseClients' = sseClients \ refused
  /\ UNCHANGED told

\* Mutant: null is pinged, too.
StopAndPing == intervals \cup {keepalive}

\* Mutant: clearInterval is not called.
StopNothing == intervals

StopExtensionKeepalive == intervals \ {keepalive}

-----------------------------------------------------------------------------
(* Websocket handlers.                                                     *)

\* websocket.open, when an open extension socket is in place: its commands are
\* canceled and it is closed.  Its close handler may run inside close(), while
\* it still is state.extension, or later.  Run inside, it resets and broadcasts
\* what the rest of open sets and broadcasts again.
OpenReplacing(s) ==
  /\ socket[s] = "unused"
  /\ ExtensionOpen
  /\ FailAllPending("EXTENSION_RECONNECTED")
  /\ \E after \in {"closing", "closed"} :
       socket' = [socket EXCEPT ![s] = "open", ![extension] = after]
  /\ extension' = s
  /\ keepalive' = s
  /\ intervals' = StopExtensionKeepalive \cup {s}
  /\ BroadcastStatus("up")
  /\ UNCHANGED <<nextId, work, epoch, sentOn, bornIn>>

\* websocket.open otherwise.  A previous socket that has left OPEN but whose
\* close handler has not run is overwritten; its commands stay pending.
OpenFirst(s) ==
  /\ socket[s] = "unused"
  /\ ~ExtensionOpen
  /\ socket' = [socket EXCEPT ![s] = "open"]
  /\ extension' = s
  /\ keepalive' = s
  /\ intervals' = StopExtensionKeepalive \cup {s}
  /\ BroadcastStatus("up")
  /\ UNCHANGED <<nextId, requestVars, work, epoch, sentOn, bornIn>>

\* The socket starts to close; JavaScript sees readyState change first.
StartClosing(s) ==
  /\ s \in ClosingSockets
  /\ socket[s] = "open"
  /\ socket' = [socket EXCEPT ![s] = "closing"]
  /\ UNCHANGED <<extension, nextId, requestVars, keepalive, intervals, sseVars, work,
                 epoch, sentOn, bornIn>>

\* What websocket.close does about the socket in use.
ExtensionGone(s) ==
  /\ socket' = [socket EXCEPT ![s] = "closed"]
  /\ extension' = NoSocket
  /\ keepalive' = NoSocket
  /\ intervals' = StopExtensionKeepalive
  /\ FailAllPending("EXTENSION_DISCONNECTED")
  /\ BroadcastStatus("down")
  /\ UNCHANGED <<nextId, work, epoch, sentOn, bornIn>>

\* Mutant: the handler does not ask which socket is closed.
CloseUnchecked(s) == socket[s] \in {"open", "closing"} /\ ExtensionGone(s)

\* websocket.close of the socket in use.
CloseCurrent(s) ==
  /\ socket[s] \in {"open", "closing"}
  /\ extension = s
  /\ ExtensionGone(s)

\* websocket.close of a socket that was replaced: logged only.
CloseStale(s) ==
  /\ socket[s] \in {"open", "closing"}
  /\ extension # s
  /\ socket' = [socket EXCEPT ![s] = "closed"]
  /\ UNCHANGED <<extension, nextId, requestVars, keepalive, intervals, sseVars, work,
                 epoch, sentOn, bornIn>>

\* websocket.message with a response to the command w.  The handler does not ask
\* which socket it came from.  A response nobody waits for is broadcast as an
\* orphan.
Response(s, w) ==
  /\ socket[s] = "open"
  /\ work' = work \ {w}
  /\ \E code \in ExtensionReplies : RespondPending(w.id, Reply(code, w.req), timers)
  /\ IF pending[w.id] = NoRequest THEN Broadcast ELSE UNCHANGED sseVars
  /\ UNCHANGED <<socketVars, nextId, epoch, sentOn, bornIn>>

\* websocket.message with an event, a log or anything else: passed on.
PassOn(s) ==
  /\ socket[s] = "open"
  /\ Broadcast
  /\ UNCHANGED <<socketVars, nextId, requestVars, work, epoch, sentOn, bornIn>>

-----------------------------------------------------------------------------
(* HTTP handlers and timers.                                               *)

\* The relay answers a request at once, with one of its own errors.
AnswerAtOnce(r, code) ==
  /\ Answer({r}, Reply(code, NoRequest))
  /\ bornIn' = [bornIn EXCEPT ![r] = epoch]
  /\ UNCHANGED <<pending, timers, socketVars, sseVars, work, epoch, sentOn>>

\* ws.send succeeded: the command is on its way and the request waits.
Sent(r) ==
  /\ ExtensionOpen
  /\ timers' = timers \cup {nextId}
  /\ pending' = [pending EXCEPT ![nextId] = r]
  /\ sentOn' = [sentOn EXCEPT ![nextId] = extension]
  /\ work' = work \cup {Command(nextId, r)}
  /\ http' = [http EXCEPT ![r] = "waiting"]
  /\ bornIn' = [bornIn EXCEPT ![r] = epoch]
  /\ UNCHANGED <<reply, socketVars, sseVars, epoch>>

\* ws.send threw: the entry and its timer are undone.
SendFailed(r) == ExtensionOpen /\ AnswerAtOnce(r, "WS_SEND_FAILED")

\* Mutant: state.nextId is not advanced.
MakeCommandAgain == nextId \in Ids /\ UNCHANGED nextId

MakeCommand == nextId \in Ids /\ nextId' = nextId + 1

\* makeCommand followed by sendCommandToExtension.
SendCommandToExtension(r) ==
  /\ MakeCommand
  /\ \/ ~ExtensionOpen /\ AnswerAtOnce(r, "EXTENSION_NOT_CONNECTED")
     \/ SendFailed(r)
     \/ Sent(r)

\* The probe of /health asks for the active target and waits as a command does.
RunActiveTargetHealthProbe(r) == SendCommandToExtension(r)

\* POST /command, once the body has been read.
PostCommand(r) ==
  /\ http[r] = "idle"
  /\ \/ SendCommandToExtension(r)
     \/ AnswerAtOnce(r, "INVALID") /\ UNCHANGED nextId   \* parseHttpCommandBody refused it

\* GET /health: no command is made when no extension is connected.
GetHealth(r) ==
  /\ http[r] = "idle"
  /\ \/ ExtensionOpen /\ RunActiveTargetHealthProbe(r)
     \/ ~ExtensionOpen /\ AnswerAtOnce(r, "EXTENSION_NOT_CONNECTED") /\ UNCHANGED nextId

\* Mutant: the timeout takes the entry and answers nothing.
RequestTimeoutUnanswered(i) ==
  /\ i \in timers
  /\ timers' = timers \ {i}
  /\ pending' = [pending EXCEPT ![i] = NoRequest]
  /\ UNCHANGED <<socketVars, nextId, http, reply, sseVars, work, epoch, sentOn, bornIn>>

\* The callback of setTimeout in sendCommandToExtension.
RequestTimeout(i) ==
  /\ i \in timers
  /\ RespondPending(i, Reply("COMMAND_TIMEOUT", NoRequest), timers \ {i})
  /\ UNCHANGED <<socketVars, nextId, sseVars, work, epoch, sentOn, bornIn>>

\* GET /events: the stream starts with a hello.
Subscribe(c) ==
  /\ c \notin sseClients
  /\ sseClients' = sseClients \cup {c}
  /\ told' = [told EXCEPT ![c] = IF ExtensionOpen THEN "up" ELSE "down"]
  /\ UNCHANGED <<socketVars, nextId, requestVars, work, epoch, sentOn, bornIn>>

\* The client aborts or cancels the stream: cleanup.
Unsubscribe(c) ==
  /\ c \in sseClients
  /\ sseClients' = sseClients \ {c}
  /\ told' = [told EXCEPT ![c] = "nothing"]
  /\ UNCHANGED <<socketVars, nextId, requestVars, work, epoch, sentOn, bornIn>>

-----------------------------------------------------------------------------
(* The environment.                                                        *)

\* A command is lost on the way, or the extension never answers it.
LoseCommand(w) ==
  /\ work' = work \ {w}
  /\ UNCHANGED <<socketVars, nextId, requestVars, sseVars, epoch, sentOn, bornIn>>

\* The relay process ends and is started again: its state is that of line 304,
\* its connections are gone, and the extension still holds its commands.
Restart ==
  /\ epoch < MaxRestarts
  /\ epoch' = epoch + 1
  /\ extension' = NoSocket
  /\ nextId' = 1
  /\ pending' = [i \in Ids |-> NoRequest]
  /\ timers' = {}
  /\ keepalive' = NoSocket
  /\ intervals' = {}
  /\ sseClients' = {}
  /\ told' = [c \in Subscribers |-> "nothing"]
  /\ socket' = [s \in Sockets |-> IF socket[s] = "unused" THEN "unused" ELSE "closed"]
  /\ http' = [r \in Requests |-> IF http[r] = "waiting" THEN "lost" ELSE http[r]]
  /\ sentOn' = [i \in Ids |-> NoSocket]
  /\ UNCHANGED <<reply, work, bornIn>>

-----------------------------------------------------------------------------

Next ==
  \/ \E s \in Sockets : \/ OpenReplacing(s)
                        \/ OpenFirst(s)
                        \/ StartClosing(s)
                        \/ CloseCurrent(s)
                        \/ CloseStale(s)
                        \/ PassOn(s)
                        \/ \E w \in work : Response(s, w)
  \/ \E r \in Commands : PostCommand(r)
  \/ \E r \in Probes : GetHealth(r)
  \/ \E i \in Ids : RequestTimeout(i)
  \/ \E c \in Subscribers : Subscribe(c) \/ Unsubscribe(c)
  \/ \E w \in work : LoseCommand(w)
  \/ Restart

Spec == Init /\ [][Next]_vars

\* A timer armed with setTimeout fires unless it is cleared.
Fairness == \A i \in Ids : WF_vars(RequestTimeout(i))

FairSpec == Spec /\ Fairness
=============================================================================
