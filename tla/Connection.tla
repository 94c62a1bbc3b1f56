---------------------------- MODULE Connection ----------------------------
(***************************************************************************)
(* How the extension keeps its websocket to the relay                      *)
(* (extension/services/ConnectionManager.ts), driven by the popup, the     *)
(* keep-alive alarm and the start of the service worker                    *)
(* (extension/entrypoints/background.ts).                                  *)
(*                                                                         *)
(* The service worker is one JavaScript thread and Effect runs the steps   *)
(* between two waits in microtasks, so each action is what happens from    *)
(* one wait to the next: `disconnect`, say, interrupts the maintain fiber  *)
(* and closes the socket in one step, and a socket's open event and the    *)
(* handlers installed after it are one step.  The fiber waits for the      *)
(* stored state, for the socket it makes, and in its sleep.                *)
(*                                                                         *)
(* The relay is seen as in module Relay: it keeps the last socket it       *)
(* accepted, closes the one before, and ignores the close of any other.    *)
(***************************************************************************)
EXTENDS Naturals

CONSTANTS
  Sockets,            \* WebSocket objects; one that is closed is used again
  NoSocket,           \* null
  LateClose,          \* may a socket's close event come after a newer one opened?
  MaxChanges          \* bound on what the user and the machine do to the system

ASSUME ConnectionConstants ==
  /\ NoSocket \notin Sockets
  /\ LateClose \in BOOLEAN
  /\ MaxChanges \in Nat

VARIABLES
  alive,        \* the service worker is running
  active,       \* isActive in the stored state
  maintain,     \* maintainRef
  fiber,        \* fiberRef # null
  loop,         \* where the maintain fiber waits, or "none" if there is no such fiber
  attempt,      \* the socket whose events resume the maintain fiber
  wsRef,        \* wsRef
  ws,           \* readyState of each socket; "unused" also when it is closed
  hooks,        \* handlers on each socket: those of Effect.async, or the live ones
  connectTimers,\* sockets whose 5 s connect timeout is armed
  published,    \* the last event offered to eventsQ
  relay,        \* the relay process: "up", "down", or "hung" (it runs no handler)
  srv,          \* each connection at the relay: "none", "open", "closed" by the relay
  accepted,     \* state.extension of the relay, if it is from this extension
  changes       \* user actions, rivals, relay failures and worker deaths so far

loopVars == <<maintain, fiber, loop, attempt>>
socketVars == <<ws, hooks, connectTimers>>
relayVars == <<relay, srv, accepted>>
vars == <<alive, active, loopVars, wsRef, socketVars, published, relayVars, changes>>

Init ==
  /\ alive = TRUE
  /\ active = FALSE
  /\ maintain = FALSE
  /\ fiber = FALSE
  /\ loop = "none"
  /\ attempt = NoSocket
  /\ wsRef = NoSocket
  /\ ws = [s \in Sockets |-> "unused"]
  /\ hooks = [s \in Sockets |-> "connect"]
  /\ connectTimers = {}
  /\ published = "Disconnected"
  /\ relay = "down"
  /\ srv = [s \in Sockets |-> "none"]
  /\ accepted = NoSocket
  /\ changes = 0

\* isConnected: ws?.readyState === WebSocket.OPEN
IsConnected == wsRef # NoSocket /\ ws[wsRef] = "open"

\* What follows the loop's checks: a connected round sleeps, another one reads
\* the stored state.
NextWait == IF IsConnected THEN "sleep" ELSE "lookup"

\* The close event of a socket with the live handlers has still to come.
CloseOutstanding(s) ==
  /\ hooks[s] = "live"
  /\ ws[s] = "closing" \/ (ws[s] = "open" /\ srv[s] = "closed")

-----------------------------------------------------------------------------
(* The maintain fiber: maintainLoop and tryConnectOnce.                    *)

\* The sleep of RECONNECT_INTERVAL_MS is over.
Wake ==
  /\ loop = "sleep"
  /\ loop' = IF maintain THEN NextWait ELSE "none"
  /\ UNCHANGED <<alive, active, maintain, fiber, attempt, wsRef, socketVars, published,
                 relayVars, changes>>

\* state.get answers: a WebSocket is made and its connect timeout armed.
Lookup(s) ==
  /\ loop = "lookup"
  /\ ws[s] = "unused" /\ srv[s] = "none"
  /\ ws' = [ws EXCEPT ![s] = "connecting"]
  /\ hooks' = [hooks EXCEPT ![s] = "connect"]
  /\ connectTimers' = connectTimers \cup {s}
  /\ attempt' = s
  /\ loop' = "connecting"
  /\ UNCHANGED <<alive, active, maintain, fiber, wsRef, published, relayVars, changes>>

\* Mutant: the failure does not resume the fiber.
FailUnheard(s) == UNCHANGED <<loopVars, published>>

\* Mutant: a failed attempt ends the maintain fiber, which nobody notices.
FailForGood(s) ==
  /\ loop' = IF attempt = s THEN "none" ELSE loop
  /\ attempt' = IF attempt = s THEN NoSocket ELSE attempt
  /\ UNCHANGED <<maintain, fiber, published>>

\* resume(Effect.fail): the attempt is over if the fiber still waits for s.
FailAttempt(s) ==
  \/ /\ attempt = s
     /\ attempt' = NoSocket
     /\ loop' = "sleep"
     /\ published' = "Disconnected"
     /\ UNCHANGED <<maintain, fiber>>
  \/ /\ attempt # s
     /\ UNCHANGED <<loopVars, published>>

\* ws.onopen.  When the fiber still waits for s, it installs the live handlers
\* and the socket becomes the one in use.
OnOpen(s) ==
  /\ ws[s] = "connecting" /\ srv[s] # "none"
  /\ LateClose \/ \A x \in Sockets \ {s} : ~CloseOutstanding(x)
  /\ ws' = [ws EXCEPT ![s] = "open"]
  /\ connectTimers' = connectTimers \ {s}
  /\ \/ /\ attempt = s
        /\ hooks' = [hooks EXCEPT ![s] = "live"]
        /\ wsRef' = s
        /\ published' = "Connected"
        /\ attempt' = NoSocket
        /\ loop' = "sleep"
        /\ UNCHANGED <<maintain, fiber>>
     \/ /\ attempt # s
        /\ UNCHANGED <<hooks, wsRef, published, loopVars>>
  /\ UNCHANGED <<alive, active, relayVars, changes>>

\* The connect timeout: ws.close(), and the attempt fails.  A relay that runs its
\* handlers accepts within the five seconds.
ConnectTimeout(s) ==
  /\ s \in connectTimers /\ relay # "up"
  /\ connectTimers' = connectTimers \ {s}
  /\ ws' = [ws EXCEPT ![s] = "closing"]
  /\ FailAttempt(s)
  /\ UNCHANGED <<alive, active, wsRef, hooks, relayVars, changes>>

-----------------------------------------------------------------------------
(* Close events.                                                           *)

\* The close frame has arrived: readyState changes before the event comes.
PeerClosing(s) ==
  /\ ws[s] = "open" /\ srv[s] = "closed"
  /\ ws' = [ws EXCEPT ![s] = "closing"]
  /\ UNCHANGED <<alive, active, loopVars, wsRef, hooks, connectTimers, published,
                 relayVars, changes>>

\* Mutant: a state of sockets that nothing else knows.
ClosedForGood(s) == ws' = [ws EXCEPT ![s] = "closed"] /\ UNCHANGED srv

\* A closed socket is no longer known to the relay, if it closed it.
Closed(s) ==
  /\ ws' = [ws EXCEPT ![s] = "unused"]
  /\ srv' = [srv EXCEPT ![s] = IF srv[s] = "closed" THEN "none" ELSE srv[s]]

\* onclose as installed while connecting (or onerror before it): the socket could
\* not connect, timed out, or opened when nobody waited for it any more.
ConnectClosed(s) ==
  /\ hooks[s] = "connect"
  /\ \/ ws[s] = "closing"
     \/ ws[s] \in {"connecting", "open"} /\ srv[s] = "closed"
     \/ ws[s] = "connecting" /\ relay = "down"
  /\ Closed(s)
  /\ connectTimers' = connectTimers \ {s}
  /\ FailAttempt(s)
  /\ UNCHANGED <<alive, active, wsRef, hooks, relay, accepted, changes>>

\* Mutant: onclose does not clear wsRef.
LiveClosedKeepingRef(s) ==
  /\ CloseOutstanding(s)
  /\ Closed(s)
  /\ hooks' = [hooks EXCEPT ![s] = "connect"]
  /\ published' = "Disconnected"
  /\ UNCHANGED <<alive, active, loopVars, wsRef, connectTimers, relay, accepted, changes>>

\* onclose as installed after open: wsRef is cleared, whatever it holds.
LiveClosed(s) ==
  /\ CloseOutstanding(s)
  /\ Closed(s)
  /\ hooks' = [hooks EXCEPT ![s] = "connect"]
  /\ wsRef' = NoSocket
  /\ published' = "Disconnected"
  /\ UNCHANGED <<alive, active, loopVars, connectTimers, relay, accepted, changes>>

-----------------------------------------------------------------------------
(* The popup, the alarm and the service worker.                            *)

Change == changes < MaxChanges /\ changes' = changes + 1

\* startMaintaining: a new fiber runs at once until it first waits.
StartMaintaining ==
  /\ maintain' = TRUE
  /\ fiber' = TRUE
  /\ loop' = IF fiber THEN loop ELSE NextWait
  /\ UNCHANGED attempt

\* setState(true), from the moment the stored state is written.
Activate ==
  /\ Change
  /\ alive
  /\ active' = TRUE
  /\ StartMaintaining
  /\ UNCHANGED <<alive, wsRef, socketVars, published, relayVars>>

\* Mutant: the interrupted fiber stays in fiberRef.
InterruptKeepingRef ==
  loop' = "none" /\ attempt' = NoSocket /\ maintain' = FALSE /\ UNCHANGED fiber

\* The first half of disconnect.  An interrupted attempt leaves its socket as it is.
Interrupt ==
  /\ maintain' = FALSE
  /\ fiber' = FALSE
  /\ loop' = "none"
  /\ attempt' = NoSocket

\* Mutant: the socket is forgotten and not closed.
ForgetSocket == wsRef' = NoSocket /\ published' = "Disconnected" /\ UNCHANGED ws

\* Mutant: the tabs' consumer of events is not told.
CloseSocketSilently ==
  /\ ws' = [s \in Sockets |-> IF s = wsRef /\ ws[s] = "open" THEN "closing" ELSE ws[s]]
  /\ wsRef' = NoSocket
  /\ UNCHANGED published

\* closeSocket and what disconnect does after it.
CloseSocket ==
  /\ ws' = [s \in Sockets |-> IF s = wsRef /\ ws[s] = "open" THEN "closing" ELSE ws[s]]
  /\ wsRef' = NoSocket
  /\ published' = "Disconnected"

\* setState(false), from the moment the stored state is written: disconnect.
Deactivate ==
  /\ Change
  /\ alive
  /\ active' = FALSE
  /\ Interrupt
  /\ CloseSocket
  /\ UNCHANGED <<alive, hooks, connectTimers, relayVars>>

\* The keep-alive alarm of an active extension.
Alarm ==
  /\ alive /\ active
  /\ ~IsConnected
  /\ StartMaintaining
  /\ UNCHANGED <<alive, active, wsRef, socketVars, published, relayVars, changes>>

\* The browser stops the service worker: its memory and its sockets are gone.
KillWorker ==
  /\ Change
  /\ alive
  /\ alive' = FALSE
  /\ maintain' = FALSE
  /\ fiber' = FALSE
  /\ loop' = "none"
  /\ attempt' = NoSocket
  /\ wsRef' = NoSocket
  /\ ws' = [s \in Sockets |-> "unused"]
  /\ hooks' = [s \in Sockets |-> "connect"]
  /\ connectTimers' = {}
  /\ published' = "Disconnected"
  /\ srv' = [s \in Sockets |-> IF srv[s] = "closed" THEN "none" ELSE srv[s]]
  /\ UNCHANGED <<active, relay, accepted>>

\* The service worker starts, woken by the alarm or by any other event.
StartWorker ==
  /\ ~alive
  /\ alive' = TRUE
  /\ IF active THEN StartMaintaining ELSE UNCHANGED loopVars
  /\ UNCHANGED <<active, wsRef, socketVars, published, relayVars, changes>>

-----------------------------------------------------------------------------
(* The relay process.                                                      *)

\* A connection the relay is done with: the extension's socket has yet to close.
Ended(s) == IF ws[s] = "unused" THEN "none" ELSE "closed"

\* The upgrade and websocket.open: the connection before is closed.
RelayAccepts(s) ==
  /\ relay = "up"
  /\ ws[s] = "connecting" /\ srv[s] = "none"
  /\ srv' = [x \in Sockets |-> IF x = s THEN "open"
                               ELSE IF x = accepted THEN Ended(x) ELSE srv[x]]
  /\ accepted' = s
  /\ UNCHANGED <<alive, active, loopVars, wsRef, socketVars, published, relay, changes>>

\* websocket.open of a connection from another browser: the one from this extension
\* is closed.  (With none from this extension, nothing changes for it.)
RivalAccepted ==
  /\ Change
  /\ relay = "up"
  /\ accepted # NoSocket
  /\ srv' = [srv EXCEPT ![accepted] = Ended(accepted)]
  /\ accepted' = NoSocket
  /\ UNCHANGED <<alive, active, loopVars, wsRef, socketVars, published, relay>>

\* websocket.close of a connection that the extension closed.
RelayClosed(s) ==
  /\ relay = "up"
  /\ srv[s] = "open" /\ ws[s] \in {"closing", "unused"}
  /\ srv' = [srv EXCEPT ![s] = Ended(s)]
  /\ accepted' = IF accepted = s THEN NoSocket ELSE accepted
  /\ UNCHANGED <<alive, active, loopVars, wsRef, socketVars, published, relay, changes>>

\* The relay process ends, hangs, resumes or starts.
RelayEnds ==
  /\ Change
  /\ relay # "down"
  /\ relay' = "down"
  /\ accepted' = NoSocket
  /\ srv' = [s \in Sockets |-> IF srv[s] = "open" THEN Ended(s) ELSE srv[s]]
  /\ UNCHANGED <<alive, active, loopVars, wsRef, socketVars, published>>

RelayHangs ==
  /\ Change
  /\ relay = "up"
  /\ relay' = "hung"
  /\ UNCHANGED <<alive, active, loopVars, wsRef, socketVars, published, srv, accepted>>

RelayRuns ==
  /\ Change
  /\ relay # "up"
  /\ relay' = "up"
  /\ UNCHANGED <<alive, active, loopVars, wsRef, socketVars, published, srv, accepted>>

-----------------------------------------------------------------------------

Step(s) ==
  \/ Lookup(s) \/ OnOpen(s) \/ ConnectTimeout(s)
  \/ ConnectClosed(s) \/ LiveClosed(s)
  \/ RelayAccepts(s) \/ RelayClosed(s)

Next ==
  \/ Wake
  \/ \E s \in Sockets : Step(s) \/ PeerClosing(s)
  \/ Activate \/ Deactivate \/ Alarm \/ KillWorker \/ StartWorker
  \/ RivalAccepted \/ RelayEnds \/ RelayHangs \/ RelayRuns

Spec == Init /\ [][Next]_vars

\* Timers fire, promises settle, the browser delivers socket events, the alarm
\* starts a dead worker, and a relay that is up runs its handlers.
Fairness ==
  /\ WF_vars(Wake)
  /\ WF_vars(\E s \in Sockets : Lookup(s))
  /\ WF_vars(active /\ StartWorker)
  /\ \A s \in Sockets :
       /\ WF_vars(OnOpen(s))
       /\ WF_vars(ConnectTimeout(s))
       /\ WF_vars(ConnectClosed(s))
       /\ WF_vars(LiveClosed(s))
       /\ WF_vars(RelayAccepts(s))
       /\ WF_vars(RelayClosed(s))

FairSpec == Spec /\ Fairness
=============================================================================
