----------------------- MODULE ConnectionProperties -----------------------
(***************************************************************************)
(* What makes the extension's connection correct.                          *)
(***************************************************************************)
EXTENDS Connection

\* The variables have the types their comments in Connection give them
\* (the refs of ConnectionManager.ts:49-56 and their environment).
TypeOK ==
  /\ alive \in BOOLEAN /\ active \in BOOLEAN
  /\ maintain \in BOOLEAN /\ fiber \in BOOLEAN
  /\ loop \in {"none", "lookup", "connecting", "sleep"}
  /\ attempt \in Sockets \cup {NoSocket}
  /\ wsRef \in Sockets \cup {NoSocket}
  /\ ws \in [Sockets -> {"unused", "connecting", "open", "closing"}]
  /\ hooks \in [Sockets -> {"connect", "live"}]
  /\ connectTimers \subseteq Sockets
  /\ published \in {"Connected", "Disconnected"}
  /\ relay \in {"up", "down", "hung"}
  /\ srv \in [Sockets -> {"none", "open", "closed"}]
  /\ accepted \in Sockets \cup {NoSocket}
  /\ changes \in 0 .. MaxChanges

\* fiberRef is set exactly while a maintain fiber runs, and one runs exactly while
\* the running extension is active: were the ref left behind by a fiber that has
\* ended, startMaintaining would never start another
\* (ConnectionManager.ts:217-250, background.ts:129-143).
OneLoopWhileActive ==
  /\ fiber <=> loop # "none"
  /\ maintain <=> fiber
  /\ fiber <=> alive /\ active

\* A fiber that waits for a socket waits for one whose events can still resume it,
\* and only then: the attempt can end (ConnectionManager.ts:117-179).
AttemptCanEnd ==
  /\ loop = "connecting" <=> attempt # NoSocket
  /\ attempt # NoSocket =>
       /\ ws[attempt] = "connecting"
       /\ hooks[attempt] = "connect"
       /\ attempt \in connectTimers

\* wsRef never holds a socket that is closed or whose close event would go
\* unnoticed (ConnectionManager.ts:201-213).
RefIsLive ==
  wsRef # NoSocket => ws[wsRef] \in {"open", "closing"} /\ hooks[wsRef] = "live"

\* The tabs' consumer of events was last told "Connected" only if there is a
\* socket in use (ConnectionManager.ts:204-208, 213-214, 225).
ConnectedIsTrue == published = "Connected" => wsRef # NoSocket

\* Every open socket with the live handlers is the one in use: no response is
\* refused while commands still arrive (ConnectionManager.ts:80-96, 201-213).
\* This needs the close events to come in order.
LiveSocketIsUsed ==
  \A s \in Sockets :
    ~LateClose /\ ws[s] = "open" /\ hooks[s] = "live" => wsRef = s

\* The extension answers on the very connection the relay sends on.
Joined == IsConnected /\ accepted = wsRef

\* The comment at background.ts:329 promises to "ensure connection is maintained":
\* once the extension stays active and the relay stays up, they get connected and
\* stay so.
ConnectionMaintained ==
  <>[](alive /\ active /\ relay = "up") => <>[]Joined

\* SKILL.md:27 and relay.ts:724 take an extension that is switched off to be
\* disconnected: once it stays off, the relay has no connection.
OffIsDisconnected ==
  <>[](alive /\ ~active /\ relay = "up") => <>[](accepted = NoSocket)
=============================================================================
