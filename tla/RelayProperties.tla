-------------------------- MODULE RelayProperties --------------------------
(***************************************************************************)
(* What makes the relay correct.                                           *)
(***************************************************************************)
EXTENDS Relay

\* The variables have the types their comments in Relay give them
\* (the `state` object of relay.ts:304 and its environment).
TypeOK ==
  /\ extension \in Sockets \cup {NoSocket}
  /\ nextId \in 1 .. MaxId + 1
  /\ pending \in [Ids -> Requests \cup {NoRequest}]
  /\ timers \subseteq Ids
  /\ keepalive \in Sockets \cup {NoSocket}
  /\ intervals \subseteq Sockets
  /\ sseClients \subseteq Subscribers
  /\ told \in [Subscribers -> {"nothing", "up", "down"}]
  /\ socket \in [Sockets -> {"unused", "open", "closing", "closed"}]
  /\ http \in [Requests -> {"idle", "waiting", "answered", "lost"}]
  /\ reply \in [Requests -> Replies]
  /\ work \subseteq [id : Ids, req : Requests]
  /\ epoch \in 0 .. MaxRestarts
  /\ sentOn \in [Ids -> Sockets \cup {NoSocket}]
  /\ bornIn \in [Requests -> 0 .. MaxRestarts]

\* The request timeout is armed for exactly the ids in state.pending: an entry
\* without a timer could wait forever, a timer without an entry was not cleared
\* (respondPending, failAllPending and sendCommandToExtension, relay.ts:357-474).
TimerPerEntry == timers = InFlight

\* Every waiting HTTP request has one entry in state.pending, and every entry
\* belongs to a waiting request: whatever mixture of answers, timeouts,
\* reconnections and disconnections happened, no request is orphaned.
WaitingIffPending ==
  /\ \A r \in Requests : http[r] = "waiting" => \E i \in Ids : pending[i] = r
  /\ \A i \in InFlight : http[pending[i]] = "waiting"
  /\ \A i, j \in InFlight : pending[i] = pending[j] => i = j

\* While no extension is connected nothing waits for one: the close handler
\* canceled what was in flight (relay.ts:981-994).
NothingWaitsWithoutExtension == extension = NoSocket => InFlight = {}

\* A command in flight was written to the socket in use, so a replaced extension
\* connection leaves no command behind (relay.ts:902-908).  This needs the
\* runtime to run the close handler of that socket as soon as it leaves OPEN.
InFlightOnCurrent ==
  \A i \in InFlight : sentOn[i] = extension \/ sentOn[i] \in ClosingSockets

\* An open extension socket is the one in use: a replaced connection can neither
\* be served nor answer (relay.ts:902-916, and the stale close at 976).
OpenIsCurrent == \A s \in Sockets : socket[s] = "open" => s = extension

\* Exactly the socket in use is pinged: no keepalive interval outlives its
\* connection (startExtensionKeepalive and stopExtensionKeepalive, relay.ts:549-576).
OnlyCurrentIsPinged ==
  /\ keepalive = extension
  /\ intervals = {extension} \ {NoSocket}

\* What an SSE client was last told about the extension is what is the case, also
\* after a replacement and after a late close of the replaced socket
\* (relay.ts:919, 996 and the hello at 845).
SubscribersKnowStatus ==
  \A c \in sseClients :
    /\ ExtensionOpen => told[c] = "up"
    /\ told[c] = "up" => extension # NoSocket

\* A request that is answered with the outcome of a command gets the outcome of
\* its own command, or of a command of an earlier relay process: ids are never
\* reused while a late response may still come (makeCommand, relay.ts:541-547).
OwnOutcomePerProcess ==
  \A r \in Requests :
    reply[r].code \in ExtensionReplies =>
      \/ reply[r].by = r
      \/ bornIn[reply[r].by] < bornIn[r]

\* Ids and requests correspond, in a way that every handler keeps: the entries and
\* the commands of this relay process use ids below state.nextId, a command of
\* this process never meets the entry of another request, and what waits was
\* accepted by this process (makeCommand and sendCommandToExtension,
\* relay.ts:435-474 and 541-547).
CommandsCorrelate ==
  /\ \A i \in InFlight : i < nextId /\ bornIn[pending[i]] = epoch
  /\ \A r \in Requests : bornIn[r] <= epoch
  /\ \A w \in work :
       /\ http[w.req] # "idle"
       /\ bornIn[w.req] = epoch => w.id < nextId /\ pending[w.id] \in {NoRequest, w.req}

\* The comment at relay.ts:544 says "Always generate a fresh id for each HTTP
\* request to avoid collisions.": no request gets the outcome of another command.
OwnOutcome ==
  \A r \in Requests : reply[r].code \in ExtensionReplies => reply[r].by = r

\* A request that waits is answered, or lost with the relay process: at the
\* latest its timeout answers it (relay.ts:455-463).
EveryRequestAnswered ==
  \A r \in Requests : http[r] = "waiting" ~> http[r] # "waiting"

-----------------------------------------------------------------------------
(* The relay implements the bridge its clients see.                        *)

Bridge == INSTANCE CommandBridge
  WITH phase <- http,
       answer <- reply,
       before <- {r \in Requests : http[r] # "idle" /\ bornIn[r] < epoch}

\* Answers are final, one per request, and report on the right command
\* (sendCommandToExtension resolves a promise once, relay.ts:435-474).
ImplementsBridge == Bridge!Spec
=============================================================================
