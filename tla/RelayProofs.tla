---------------------------- MODULE RelayProofs ----------------------------
(***************************************************************************)
(* Proofs about the relay, for any sets of requests, sockets and           *)
(* subscribers, any number of ids and restarts.                            *)
(*                                                                         *)
(* Three invariants are proved one after the other: the types, what holds  *)
(* of the connections, and how ids, entries and requests correspond.  The  *)
(* last one gives the answers' correctness and the refinement.             *)
(***************************************************************************)
EXTENDS RelayProperties, TLAPS

-----------------------------------------------------------------------------
(* Types.                                                                  *)

\* An error of the relay and an outcome of the extension are replies.
LEMMA ReplyType ==
  ASSUME NEW code \in RelayErrors \cup ExtensionReplies \cup {"NONE"},
         NEW by \in Requests \cup {NoRequest}
  PROVE  Reply(code, by) \in Replies
  BY DEF Reply, Replies

\* Giving a set of requests one reply keeps the types of http and reply.
LEMMA AnswerType ==
  ASSUME TypeOK, NEW R, NEW a \in Replies, Answer(R, a)
  PROVE  /\ http' \in [Requests -> {"idle", "waiting", "answered", "lost"}]
         /\ reply' \in [Requests -> Replies]
  BY DEF Answer, TypeOK

\* respondPending keeps the types of what it changes.
LEMMA RespondPendingType ==
  ASSUME TypeOK, NEW i \in Ids, NEW a \in Replies, NEW armed \in SUBSET Ids,
         RespondPending(i, a, armed)
  PROVE  /\ pending' \in [Ids -> Requests \cup {NoRequest}]
         /\ timers' \subseteq Ids
         /\ http' \in [Requests -> {"idle", "waiting", "answered", "lost"}]
         /\ reply' \in [Requests -> Replies]
<1>1. CASE pending[i] = NoRequest
  BY <1>1 DEF RespondPending, TypeOK
<1>2. CASE pending[i] # NoRequest
  <2>1. Answer({pending[i]}, a)
    BY <1>2 DEF RespondPending
  <2>2. timers' = armed \ {i} /\ pending' = [pending EXCEPT ![i] = NoRequest]
    BY <1>2 DEF RespondPending
  <2> QED BY <2>1, <2>2, AnswerType DEF TypeOK
<1> QED BY <1>1, <1>2

\* failAllPending keeps the types of what it changes.
LEMMA FailAllPendingType ==
  ASSUME TypeOK, NEW code \in RelayErrors, FailAllPending(code)
  PROVE  /\ pending' \in [Ids -> Requests \cup {NoRequest}]
         /\ timers' \subseteq Ids
         /\ http' \in [Requests -> {"idle", "waiting", "answered", "lost"}]
         /\ reply' \in [Requests -> Replies]
<1>1. Reply(code, NoRequest) \in Replies
  BY ReplyType
<1>2. Answer({pending[i] : i \in InFlight}, Reply(code, NoRequest))
  BY DEF FailAllPending
<1>3. timers' = timers \ InFlight /\ pending' = [i \in Ids |-> NoRequest]
  BY DEF FailAllPending
<1> QED BY <1>1, <1>2, <1>3, AnswerType DEF TypeOK

\* The status broadcast keeps the types of what it changes.
LEMMA BroadcastType ==
  ASSUME TypeOK, NEW status \in {"up", "down"}, BroadcastStatus(status)
  PROVE  /\ sseClients' \subseteq Subscribers
         /\ told' \in [Subscribers -> {"nothing", "up", "down"}]
  BY DEF BroadcastStatus, TypeOK

\* Every action keeps TypeOK.
LEMMA TypeStep == TypeOK /\ [Next]_vars => TypeOK'
<1> SUFFICES ASSUME TypeOK, [Next]_vars PROVE TypeOK'
  OBVIOUS
<1> USE RelayConstants
<1>1. ASSUME NEW s \in Sockets, OpenReplacing(s) PROVE TypeOK'
  <2>1. FailAllPending("EXTENSION_RECONNECTED") /\ BroadcastStatus("up")
    BY <1>1 DEF OpenReplacing
  <2>2. extension' \in Sockets /\ keepalive' \in Sockets /\ intervals' \subseteq Sockets
    BY <1>1 DEF OpenReplacing, StopExtensionKeepalive, TypeOK
  <2>3. socket' \in [Sockets -> {"unused", "open", "closing", "closed"}]
    BY <1>1 DEF OpenReplacing, TypeOK
  <2>4. UNCHANGED <<nextId, work, epoch, sentOn, bornIn>>
    BY <1>1 DEF OpenReplacing
  <2> QED BY <2>1, <2>2, <2>3, <2>4, FailAllPendingType, BroadcastType
          DEF TypeOK, RelayErrors
<1>2. ASSUME NEW s \in Sockets, OpenFirst(s) PROVE TypeOK'
  <2>1. BroadcastStatus("up")
    BY <1>2 DEF OpenFirst
  <2>2. extension' \in Sockets /\ keepalive' \in Sockets /\ intervals' \subseteq Sockets
    BY <1>2 DEF OpenFirst, StopExtensionKeepalive, TypeOK
  <2>3. socket' \in [Sockets -> {"unused", "open", "closing", "closed"}]
    BY <1>2 DEF OpenFirst, TypeOK
  <2>4. UNCHANGED <<nextId, requestVars, work, epoch, sentOn, bornIn>>
    BY <1>2 DEF OpenFirst
  <2> QED BY <2>1, <2>2, <2>3, <2>4, BroadcastType DEF TypeOK, requestVars
<1>3. ASSUME NEW s \in Sockets, StartClosing(s) PROVE TypeOK'
  BY <1>3 DEF StartClosing, requestVars, sseVars, TypeOK
<1>4. ASSUME NEW s \in Sockets, CloseCurrent(s) PROVE TypeOK'
  <2>1. FailAllPending("EXTENSION_DISCONNECTED") /\ BroadcastStatus("down")
    BY <1>4 DEF CloseCurrent, ExtensionGone
  <2>2. /\ extension' = NoSocket /\ keepalive' = NoSocket
        /\ intervals' \subseteq Sockets
        /\ socket' \in [Sockets -> {"unused", "open", "closing", "closed"}]
    BY <1>4 DEF CloseCurrent, ExtensionGone, StopExtensionKeepalive, TypeOK
  <2>3. UNCHANGED <<nextId, work, epoch, sentOn, bornIn>>
    BY <1>4 DEF CloseCurrent, ExtensionGone
  <2> QED BY <2>1, <2>2, <2>3, FailAllPendingType, BroadcastType DEF TypeOK, RelayErrors
<1>5. ASSUME NEW s \in Sockets, CloseStale(s) PROVE TypeOK'
  BY <1>5 DEF CloseStale, requestVars, sseVars, TypeOK
<1>6. ASSUME NEW s \in Sockets, NEW w \in work, Response(s, w) PROVE TypeOK'
  <2>1. w.id \in Ids /\ w.req \in Requests
    BY DEF TypeOK
  <2>2. PICK code \in ExtensionReplies : RespondPending(w.id, Reply(code, w.req), timers)
    BY <1>6 DEF Response
  <2>3. Reply(code, w.req) \in Replies /\ timers \in SUBSET Ids
    BY <2>1, ReplyType DEF TypeOK
  <2>4. /\ work' \subseteq work
        /\ sseClients' \subseteq sseClients /\ told' = told
        /\ UNCHANGED <<socketVars, nextId, epoch, sentOn, bornIn>>
    BY <1>6 DEF Response, Broadcast, sseVars
  <2> QED BY <2>1, <2>2, <2>3, <2>4, RespondPendingType DEF TypeOK, socketVars, sseVars
<1>7. ASSUME NEW r \in Requests, NEW code \in RelayErrors, AnswerAtOnce(r, code),
             nextId' \in 1 .. MaxId + 1
      PROVE  TypeOK'
  <2>1. Reply(code, NoRequest) \in Replies /\ Answer({r}, Reply(code, NoRequest))
    BY <1>7, ReplyType DEF AnswerAtOnce
  <2>2. bornIn' \in [Requests -> 0 .. MaxRestarts]
    BY <1>7 DEF AnswerAtOnce, TypeOK
  <2>3. UNCHANGED <<pending, timers, socketVars, sseVars, work, epoch, sentOn>>
    BY <1>7 DEF AnswerAtOnce
  <2> QED BY <1>7, <2>1, <2>2, <2>3, AnswerType DEF TypeOK, socketVars, sseVars
<1>8. ASSUME NEW r \in Requests, SendCommandToExtension(r) PROVE TypeOK'
  <2>1. nextId \in Ids /\ nextId' = nextId + 1 /\ nextId' \in 1 .. MaxId + 1
    BY <1>8 DEF SendCommandToExtension, MakeCommand, Ids
  <2>2. CASE AnswerAtOnce(r, "EXTENSION_NOT_CONNECTED") \/ AnswerAtOnce(r, "WS_SEND_FAILED")
    BY <1>7, <2>1, <2>2 DEF RelayErrors
  <2>3. CASE Sent(r)
    <3>1. Command(nextId, r) \in [id : Ids, req : Requests]
      BY <2>1 DEF Command
    <3> QED BY <2>1, <2>3, <3>1 DEF Sent, TypeOK, socketVars, sseVars
  <2> QED BY <1>8, <2>2, <2>3 DEF SendCommandToExtension, SendFailed
<1>9. ASSUME NEW r \in Commands, PostCommand(r) PROVE TypeOK'
  BY <1>7, <1>8, <1>9 DEF PostCommand, Requests, RelayErrors, TypeOK
<1>10. ASSUME NEW r \in Probes, GetHealth(r) PROVE TypeOK'
  BY <1>7, <1>8, <1>10 DEF GetHealth, RunActiveTargetHealthProbe, Requests, RelayErrors, TypeOK
<1>11. ASSUME NEW i \in Ids, RequestTimeout(i) PROVE TypeOK'
  <2>1. RespondPending(i, Reply("COMMAND_TIMEOUT", NoRequest), timers \ {i})
    BY <1>11 DEF RequestTimeout
  <2>2. /\ Reply("COMMAND_TIMEOUT", NoRequest) \in Replies
        /\ timers \ {i} \in SUBSET Ids
    BY ReplyType DEF RelayErrors, TypeOK
  <2>3. UNCHANGED <<socketVars, nextId, sseVars, work, epoch, sentOn, bornIn>>
    BY <1>11 DEF RequestTimeout
  <2> QED BY <2>1, <2>2, <2>3, RespondPendingType DEF TypeOK, socketVars, sseVars
<1>12. ASSUME NEW c \in Subscribers, Subscribe(c) \/ Unsubscribe(c) PROVE TypeOK'
  BY <1>12 DEF Subscribe, Unsubscribe, TypeOK, socketVars, requestVars
<1>13. ASSUME NEW w \in work, LoseCommand(w) PROVE TypeOK'
  BY <1>13 DEF LoseCommand, TypeOK, socketVars, requestVars, sseVars
<1>14. ASSUME Restart PROVE TypeOK'
  BY <1>14 DEF Restart, TypeOK
<1>15. ASSUME NEW s \in Sockets, PassOn(s) PROVE TypeOK'
  BY <1>15 DEF PassOn, Broadcast, TypeOK, socketVars, requestVars
<1>16. CASE UNCHANGED vars
  BY <1>16 DEF vars, TypeOK
<1> QED BY <1>1, <1>2, <1>3, <1>4, <1>5, <1>6, <1>9, <1>10, <1>11, <1>12, <1>13, <1>14,
           <1>15, <1>16 DEF Next

\* The relay's variables keep their types, with any number of requests, sockets
\* and subscribers (relay.ts:304-316).
THEOREM TypeCorrect == Spec => []TypeOK
<1>1. Init => TypeOK
  BY RelayConstants DEF Init, TypeOK, NoReply, Reply, Replies
<1> QED BY <1>1, TypeStep, PTL DEF Spec

-----------------------------------------------------------------------------
(* Connections.                                                            *)

\* The extension in use is open unless it is a socket that may leave OPEN early.
ExtensionIsOpen ==
  extension # NoSocket /\ extension \notin ClosingSockets => socket[extension] = "open"

\* The inductive invariant of the connections: the three properties, and what
\* SubscribersKnowStatus and InFlightOnCurrent need of the socket in use.
ConnectionInv ==
  /\ OpenIsCurrent
  /\ OnlyCurrentIsPinged
  /\ SubscribersKnowStatus
  /\ ExtensionIsOpen

\* After a broadcast every subscriber that is left was told the status.
LEMMA BroadcastTells ==
  ASSUME TypeOK, NEW status, BroadcastStatus(status), NEW c \in sseClients'
  PROVE  told'[c] = status
  BY DEF BroadcastStatus, TypeOK

\* An action that leaves sockets, intervals and subscribers alone keeps it.
LEMMA ConnectionUnchanged ==
  ConnectionInv /\ UNCHANGED <<socketVars, told>> /\ sseClients' \subseteq sseClients
    => ConnectionInv'
  BY DEF ConnectionInv, OpenIsCurrent, OnlyCurrentIsPinged, SubscribersKnowStatus,
         ExtensionIsOpen, ExtensionOpen, socketVars

\* Every action keeps ConnectionInv.
LEMMA ConnectionStep == TypeOK /\ ConnectionInv /\ [Next]_vars => ConnectionInv'
<1> SUFFICES ASSUME TypeOK, ConnectionInv, [Next]_vars PROVE ConnectionInv'
  OBVIOUS
<1> USE RelayConstants
<1>1. ASSUME NEW s \in Sockets, OpenReplacing(s) \/ OpenFirst(s) PROVE ConnectionInv'
  <2>1. /\ extension' = s /\ keepalive' = s
        /\ intervals' = (intervals \ {keepalive}) \cup {s}
        /\ BroadcastStatus("up")
    BY <1>1 DEF OpenReplacing, OpenFirst, StopExtensionKeepalive
  <2>2. socket'[s] = "open" /\ \A x \in Sockets \ {s} : socket'[x] # "open"
    <3>1. CASE OpenReplacing(s)
      <4>1. PICK after \in {"closing", "closed"} :
              socket' = [socket EXCEPT ![s] = "open", ![extension] = after]
        BY <3>1 DEF OpenReplacing
      <4>2. extension \in Sockets /\ extension # s
        BY <3>1 DEF OpenReplacing, ExtensionOpen, TypeOK
      <4> QED BY <4>1, <4>2 DEF TypeOK, ConnectionInv, OpenIsCurrent
    <3>2. CASE OpenFirst(s)
      <4>1. socket' = [socket EXCEPT ![s] = "open"] /\ ~ExtensionOpen
        BY <3>2 DEF OpenFirst
      <4> QED BY <4>1 DEF TypeOK, ConnectionInv, OpenIsCurrent, ExtensionOpen
    <3> QED BY <1>1, <3>1, <3>2
  <2>3. OpenIsCurrent' /\ ExtensionIsOpen'
    BY <2>1, <2>2 DEF OpenIsCurrent, ExtensionIsOpen
  <2>4. OnlyCurrentIsPinged'
    BY <2>1 DEF OnlyCurrentIsPinged, ConnectionInv
  <2>5. SubscribersKnowStatus'
    BY <2>1, BroadcastTells DEF SubscribersKnowStatus
  <2> QED BY <2>3, <2>4, <2>5 DEF ConnectionInv
<1>2. ASSUME NEW s \in Sockets, StartClosing(s) PROVE ConnectionInv'
  BY <1>2 DEF StartClosing, requestVars, sseVars, TypeOK, ConnectionInv, OpenIsCurrent,
              OnlyCurrentIsPinged, SubscribersKnowStatus, ExtensionIsOpen, ExtensionOpen
<1>3. ASSUME NEW s \in Sockets, CloseCurrent(s) PROVE ConnectionInv'
  <2>1. /\ extension = s /\ extension' = NoSocket /\ keepalive' = NoSocket
        /\ intervals' = intervals \ {keepalive}
        /\ socket' = [socket EXCEPT ![s] = "closed"]
        /\ BroadcastStatus("down")
    BY <1>3 DEF CloseCurrent, ExtensionGone, StopExtensionKeepalive
  <2>2. OpenIsCurrent' /\ ExtensionIsOpen'
    BY <2>1 DEF OpenIsCurrent, ExtensionIsOpen, ConnectionInv, TypeOK
  <2>3. OnlyCurrentIsPinged'
    BY <2>1 DEF OnlyCurrentIsPinged, ConnectionInv
  <2>4. SubscribersKnowStatus'
    BY <2>1, BroadcastTells DEF SubscribersKnowStatus, ExtensionOpen
  <2> QED BY <2>2, <2>3, <2>4 DEF ConnectionInv
<1>4. ASSUME NEW s \in Sockets, CloseStale(s) PROVE ConnectionInv'
  BY <1>4 DEF CloseStale, requestVars, sseVars, TypeOK, ConnectionInv, OpenIsCurrent,
              OnlyCurrentIsPinged, SubscribersKnowStatus, ExtensionIsOpen, ExtensionOpen
<1>5. ASSUME NEW s \in Sockets, NEW w \in work, Response(s, w) PROVE ConnectionInv'
  BY <1>5, ConnectionUnchanged DEF Response, Broadcast, sseVars
<1>6. ASSUME NEW r \in Requests, SendCommandToExtension(r) PROVE ConnectionInv'
  BY <1>6, ConnectionUnchanged
     DEF SendCommandToExtension, SendFailed, MakeCommand, Sent, AnswerAtOnce, sseVars
<1>7. ASSUME NEW r \in Requests, PostCommand(r) \/ GetHealth(r) PROVE ConnectionInv'
  BY <1>6, <1>7, ConnectionUnchanged
     DEF PostCommand, GetHealth, RunActiveTargetHealthProbe, AnswerAtOnce, sseVars
<1>8. ASSUME NEW i \in Ids, RequestTimeout(i) PROVE ConnectionInv'
  BY <1>8, ConnectionUnchanged DEF RequestTimeout, sseVars
<1>9. ASSUME NEW c \in Subscribers, Subscribe(c) PROVE ConnectionInv'
  <2>1. /\ sseClients' = sseClients \cup {c}
        /\ told' = [told EXCEPT ![c] = IF ExtensionOpen THEN "up" ELSE "down"]
        /\ UNCHANGED socketVars
    BY <1>9 DEF Subscribe
  <2>2. SubscribersKnowStatus'
    BY <2>1 DEF SubscribersKnowStatus, ConnectionInv, ExtensionOpen, socketVars, TypeOK
  <2> QED BY <2>1, <2>2 DEF ConnectionInv, OpenIsCurrent, OnlyCurrentIsPinged,
                            ExtensionIsOpen, socketVars
<1>10. ASSUME NEW c \in Subscribers, Unsubscribe(c) PROVE ConnectionInv'
  BY <1>10 DEF Unsubscribe, ConnectionInv, OpenIsCurrent, OnlyCurrentIsPinged,
               SubscribersKnowStatus, ExtensionIsOpen, ExtensionOpen, socketVars, TypeOK
<1>11. ASSUME NEW w \in work, LoseCommand(w) PROVE ConnectionInv'
  BY <1>11, ConnectionUnchanged DEF LoseCommand, sseVars
<1>12. ASSUME Restart PROVE ConnectionInv'
  BY <1>12 DEF Restart, ConnectionInv, OpenIsCurrent, OnlyCurrentIsPinged,
               SubscribersKnowStatus, ExtensionIsOpen, ExtensionOpen
<1>13. ASSUME NEW s \in Sockets, PassOn(s) PROVE ConnectionInv'
  BY <1>13, ConnectionUnchanged DEF PassOn, Broadcast
<1>14. CASE UNCHANGED vars
  BY <1>14, ConnectionUnchanged DEF vars, socketVars, sseVars
<1> QED BY <1>1, <1>2, <1>3, <1>4, <1>5, <1>7, <1>8, <1>9, <1>10, <1>11, <1>12, <1>13,
      <1>14 DEF Next, Requests

\* The connections are as they should be at the start.
LEMMA ConnectionInit == Init => ConnectionInv
  BY RelayConstants DEF Init, ConnectionInv, OpenIsCurrent, OnlyCurrentIsPinged,
                        SubscribersKnowStatus, ExtensionIsOpen

\* However connections open, replace one another and close, in whatever order
\* their handlers run, the open one is the one in use and the only one pinged, and
\* subscribers know whether there is one (relay.ts:899-999).
THEOREM ConnectionsCorrect ==
  Spec => [](OpenIsCurrent /\ OnlyCurrentIsPinged /\ SubscribersKnowStatus)
<1>1. ConnectionInv => OpenIsCurrent /\ OnlyCurrentIsPinged /\ SubscribersKnowStatus
  BY DEF ConnectionInv
<1> QED BY <1>1, ConnectionInit, ConnectionStep, TypeCorrect, PTL DEF Spec

-----------------------------------------------------------------------------
(* Ids, entries and requests.                                              *)

\* An outcome was given to a request that is done, by a command of a request
\* that had been made.
OutcomesAreOfCommandsMade ==
  \A r \in Requests :
    reply[r].code \in ExtensionReplies =>
      /\ http[r] = "answered"
      /\ reply[r].by \in Requests
      /\ http[reply[r].by] # "idle"

\* The inductive invariant of the correlation of requests, ids and commands.
CorrelationInv ==
  /\ TimerPerEntry
  /\ WaitingIffPending
  /\ NothingWaitsWithoutExtension
  /\ InFlightOnCurrent
  /\ CommandsCorrelate
  /\ OwnOutcomePerProcess
  /\ OutcomesAreOfCommandsMade

\* What waits for an id is a request.
LEMMA InFlightType == TypeOK => \A i \in InFlight : i \in Ids /\ pending[i] \in Requests
  BY DEF TypeOK, InFlight

\* An error of the relay is no outcome of a command.
LEMMA ErrorIsNoOutcome ==
  ASSUME NEW code \in RelayErrors, NEW by
  PROVE  Reply(code, by).code \notin ExtensionReplies
  BY DEF Reply, RelayErrors, ExtensionReplies

\* respondPending, called with the timers of the entries or just without the
\* timer of its own entry, keeps the correlation when it passes on an error or
\* the outcome of a command that has the id.
LEMMA RespondKeepsCorrelation ==
  ASSUME TypeOK, CorrelationInv,
         NEW i \in Ids, NEW code \in RelayErrors \cup ExtensionReplies,
         NEW by \in Requests \cup {NoRequest},
         NEW armed, armed = timers \/ (armed = timers \ {i} /\ i \in timers),
         RespondPending(i, Reply(code, by), armed),
         code \in ExtensionReplies => \E w \in work : w.id = i /\ w.req = by,
         work' \subseteq work,
         UNCHANGED <<extension, nextId, epoch, sentOn, bornIn>>
  PROVE  CorrelationInv'
<1> USE RelayConstants
<1>1. CASE pending[i] = NoRequest
  <2>1. i \notin timers
    BY <1>1 DEF CorrelationInv, TimerPerEntry, InFlight
  <2>2. UNCHANGED <<pending, timers, http, reply>>
    BY <1>1, <2>1 DEF RespondPending
  <2> QED BY <2>2 DEF CorrelationInv, TimerPerEntry, InFlight, WaitingIffPending,
            NothingWaitsWithoutExtension, InFlightOnCurrent, CommandsCorrelate,
            OwnOutcomePerProcess, OutcomesAreOfCommandsMade
<1>2. CASE pending[i] # NoRequest
  <2> DEFINE q == pending[i]
  <2>1. q \in Requests /\ i \in InFlight /\ http[q] = "waiting"
    BY <1>2 DEF TypeOK, InFlight, CorrelationInv, WaitingIffPending
  <2>2. /\ timers' = timers \ {i}
        /\ pending' = [pending EXCEPT ![i] = NoRequest]
        /\ http' = [r \in Requests |-> IF r = q THEN "answered" ELSE http[r]]
        /\ reply' = [r \in Requests |-> IF r = q THEN Reply(code, by) ELSE reply[r]]
    BY <1>2 DEF RespondPending, Answer
  <2>3. InFlight' = InFlight \ {i} /\ \A j \in InFlight' : pending'[j] = pending[j]
    BY <2>2 DEF InFlight, TypeOK
  <2>4. \A j \in InFlight' : pending[j] # q
    BY <2>1, <2>3 DEF CorrelationInv, WaitingIffPending
  <2>5. TimerPerEntry'
    BY <2>2, <2>3 DEF TimerPerEntry, CorrelationInv
  <2>6. WaitingIffPending'
    <3>1. ASSUME NEW r \in Requests, http'[r] = "waiting"
          PROVE  \E j \in Ids : pending'[j] = r
      <4>1. r # q /\ http[r] = "waiting"
        BY <2>2, <3>1
      <4>2. PICK j \in Ids : pending[j] = r
        BY <4>1 DEF CorrelationInv, WaitingIffPending
      <4> QED BY <2>2, <4>1, <4>2 DEF TypeOK
    <3>2. \A j \in InFlight' : http'[pending'[j]] = "waiting"
      BY <2>2, <2>3, <2>4, InFlightType DEF CorrelationInv, WaitingIffPending
    <3>3. \A j, k \in InFlight' : pending'[j] = pending'[k] => j = k
      BY <2>3 DEF CorrelationInv, WaitingIffPending
    <3> QED BY <3>1, <3>2, <3>3 DEF WaitingIffPending
  <2>7. NothingWaitsWithoutExtension' /\ InFlightOnCurrent'
    BY <2>3 DEF CorrelationInv, NothingWaitsWithoutExtension, InFlightOnCurrent
  <2>8. CommandsCorrelate'
    BY <2>2, <2>3 DEF CorrelationInv, CommandsCorrelate, TypeOK
  <2>9. ASSUME code \in ExtensionReplies
        PROVE  /\ by \in Requests /\ http[by] # "idle"
               /\ by = q \/ bornIn[by] < bornIn[q]
    <3>1. PICK w \in work : w.id = i /\ w.req = by
      BY <2>9
    <3>2. by \in Requests /\ http[by] # "idle"
      BY <3>1 DEF TypeOK, CorrelationInv, CommandsCorrelate
    <3>3. bornIn[by] \in Nat /\ bornIn[by] <= epoch /\ epoch \in Nat /\ bornIn[q] = epoch
      BY <2>1, <3>2 DEF TypeOK, CorrelationInv, CommandsCorrelate
    <3>4. bornIn[by] = epoch => by = q
      BY <1>2, <3>1 DEF CorrelationInv, CommandsCorrelate
    <3> QED BY <3>2, <3>3, <3>4
  <2>10. OwnOutcomePerProcess' /\ OutcomesAreOfCommandsMade'
    <3>1. ASSUME NEW r \in Requests, reply'[r].code \in ExtensionReplies
          PROVE  /\ reply'[r].by = r \/ bornIn'[reply'[r].by] < bornIn'[r]
                 /\ http'[r] = "answered"
                 /\ reply'[r].by \in Requests
                 /\ http'[reply'[r].by] # "idle"
      <4>1. CASE r = q
        BY <2>2, <2>9, <3>1, <4>1, ErrorIsNoOutcome DEF Reply
      <4>2. CASE r # q
        <5>1. reply'[r] = reply[r] /\ http'[r] = http[r]
          BY <2>2, <4>2
        <5>2. /\ reply[r].by = r \/ bornIn[reply[r].by] < bornIn[r]
              /\ http[r] = "answered"
              /\ reply[r].by \in Requests
              /\ http[reply[r].by] # "idle"
          BY <3>1, <5>1 DEF CorrelationInv, OwnOutcomePerProcess, OutcomesAreOfCommandsMade
        <5> QED BY <2>2, <5>1, <5>2
      <4> QED BY <4>1, <4>2
    <3> QED BY <3>1 DEF OwnOutcomePerProcess, OutcomesAreOfCommandsMade
  <2> QED BY <2>5, <2>6, <2>7, <2>8, <2>10 DEF CorrelationInv
<1> QED BY <1>1, <1>2

\* failAllPending keeps the correlation, whatever becomes of the connection.
LEMMA FailAllKeepsCorrelation ==
  ASSUME TypeOK, CorrelationInv, NEW code \in RelayErrors, FailAllPending(code),
         UNCHANGED <<nextId, work, epoch, sentOn, bornIn>>
  PROVE  CorrelationInv'
<1> USE RelayConstants
<1> DEFINE R == {pending[i] : i \in InFlight}
<1>1. /\ timers' = timers \ InFlight
      /\ pending' = [i \in Ids |-> NoRequest]
      /\ http' = [r \in Requests |-> IF r \in R THEN "answered" ELSE http[r]]
      /\ reply' = [r \in Requests |-> IF r \in R THEN Reply(code, NoRequest) ELSE reply[r]]
  BY DEF FailAllPending, Answer
<1>2. InFlight' = {}
  BY <1>1 DEF InFlight
<1>3. TimerPerEntry' /\ NothingWaitsWithoutExtension' /\ InFlightOnCurrent'
  BY <1>1, <1>2 DEF CorrelationInv, TimerPerEntry, NothingWaitsWithoutExtension,
                    InFlightOnCurrent
<1>4. WaitingIffPending'
  <2>1. ASSUME NEW r \in Requests, http[r] = "waiting" PROVE r \in R
    BY <2>1 DEF CorrelationInv, WaitingIffPending, InFlight
  <2> QED BY <1>1, <1>2, <2>1 DEF WaitingIffPending
<1>5. CommandsCorrelate'
  BY <1>1, <1>2 DEF CorrelationInv, CommandsCorrelate, TypeOK
<1>6. OwnOutcomePerProcess' /\ OutcomesAreOfCommandsMade'
  <2>1. ASSUME NEW r \in Requests, reply'[r].code \in ExtensionReplies
        PROVE  reply'[r] = reply[r] /\ http'[r] = http[r]
    BY <1>1, <2>1, ErrorIsNoOutcome
  <2> QED BY <1>1, <2>1 DEF CorrelationInv, OwnOutcomePerProcess, OutcomesAreOfCommandsMade
<1> QED BY <1>3, <1>4, <1>5, <1>6 DEF CorrelationInv

\* Answering a new request at once keeps the correlation.
LEMMA AnswerAtOnceKeepsCorrelation ==
  ASSUME TypeOK, CorrelationInv,
         NEW r \in Requests, http[r] = "idle",
         NEW code \in RelayErrors, AnswerAtOnce(r, code),
         nextId' = nextId \/ (nextId \in Ids /\ nextId' = nextId + 1)
  PROVE  CorrelationInv'
<1> USE RelayConstants
<1>1. /\ http' = [x \in Requests |-> IF x = r THEN "answered" ELSE http[x]]
      /\ reply' = [x \in Requests |-> IF x = r THEN Reply(code, NoRequest) ELSE reply[x]]
      /\ bornIn' = [bornIn EXCEPT ![r] = epoch]
      /\ UNCHANGED <<pending, timers, extension, work, epoch, sentOn>>
  BY DEF AnswerAtOnce, Answer, socketVars
<1>2. InFlight' = InFlight /\ \A i \in InFlight : pending[i] # r
  BY <1>1 DEF InFlight, CorrelationInv, WaitingIffPending
<1>3. TimerPerEntry' /\ NothingWaitsWithoutExtension' /\ InFlightOnCurrent'
  BY <1>1, <1>2 DEF CorrelationInv, TimerPerEntry, NothingWaitsWithoutExtension,
                    InFlightOnCurrent
<1>4. WaitingIffPending'
  BY <1>1, <1>2, InFlightType DEF CorrelationInv, WaitingIffPending
<1>5. CommandsCorrelate'
  <2>1. \A i \in InFlight' : i < nextId' /\ bornIn'[pending'[i]] = epoch'
    BY <1>1, <1>2, InFlightType DEF CorrelationInv, CommandsCorrelate, TypeOK, Ids
  <2>2. \A x \in Requests : bornIn'[x] <= epoch'
    BY <1>1 DEF CorrelationInv, CommandsCorrelate, TypeOK
  <2>3. ASSUME NEW w \in work'
        PROVE  /\ http'[w.req] # "idle"
               /\ bornIn'[w.req] = epoch' =>
                    w.id < nextId' /\ pending'[w.id] \in {NoRequest, w.req}
    <3>1. w \in work /\ w.req \in Requests /\ w.id \in Ids /\ w.req # r
      BY <1>1 DEF TypeOK, CorrelationInv, CommandsCorrelate
    <3> QED BY <1>1, <3>1 DEF CorrelationInv, CommandsCorrelate, TypeOK, Ids
  <2> QED BY <2>1, <2>2, <2>3 DEF CommandsCorrelate
<1>6. OwnOutcomePerProcess' /\ OutcomesAreOfCommandsMade'
  <2>1. ASSUME NEW x \in Requests, reply'[x].code \in ExtensionReplies
        PROVE  /\ reply'[x].by = x \/ bornIn'[reply'[x].by] < bornIn'[x]
               /\ http'[x] = "answered"
               /\ reply'[x].by \in Requests
               /\ http'[reply'[x].by] # "idle"
    <3>1. x # r /\ reply'[x] = reply[x]
      BY <1>1, <2>1, ErrorIsNoOutcome
    <3>2. /\ reply[x].by = x \/ bornIn[reply[x].by] < bornIn[x]
          /\ http[x] = "answered"
          /\ reply[x].by \in Requests
          /\ http[reply[x].by] # "idle"
      BY <2>1, <3>1 DEF CorrelationInv, OwnOutcomePerProcess, OutcomesAreOfCommandsMade
    <3>3. reply[x].by # r
      BY <3>2
    <3> QED BY <1>1, <3>1, <3>2, <3>3 DEF TypeOK
  <2> QED BY <2>1 DEF OwnOutcomePerProcess, OutcomesAreOfCommandsMade
<1> QED BY <1>3, <1>4, <1>5, <1>6 DEF CorrelationInv

\* Sending a command for a new request keeps the correlation: its id is fresh.
LEMMA SentKeepsCorrelation ==
  ASSUME TypeOK, CorrelationInv,
         NEW r \in Requests, http[r] = "idle",
         nextId \in Ids, nextId' = nextId + 1, Sent(r)
  PROVE  CorrelationInv'
<1> USE RelayConstants
<1> DEFINE i == nextId
<1>1. i \in Nat /\ i \notin InFlight
  BY DEF CorrelationInv, CommandsCorrelate, Ids
<1>2. /\ InFlight' = InFlight \cup {i}
      /\ pending'[i] = r
      /\ \A j \in InFlight : pending'[j] = pending[j]
  BY <1>1 DEF Sent, InFlight, TypeOK
<1>3. \A j \in InFlight : pending[j] # r
  BY DEF CorrelationInv, WaitingIffPending
<1>4. /\ http' = [http EXCEPT ![r] = "waiting"]
      /\ bornIn' = [bornIn EXCEPT ![r] = epoch]
      /\ timers' = timers \cup {i}
      /\ sentOn' = [sentOn EXCEPT ![i] = extension]
      /\ work' = work \cup {Command(i, r)}
      /\ pending' = [pending EXCEPT ![i] = r]
      /\ UNCHANGED <<extension, reply, epoch>>
      /\ extension # NoSocket
  BY DEF Sent, socketVars, ExtensionOpen
<1>5. TimerPerEntry' /\ NothingWaitsWithoutExtension'
  BY <1>2, <1>4 DEF CorrelationInv, TimerPerEntry, NothingWaitsWithoutExtension
<1>6. InFlightOnCurrent'
  BY <1>1, <1>2, <1>4, InFlightType DEF CorrelationInv, InFlightOnCurrent, TypeOK
<1>7. WaitingIffPending'
  <2>1. ASSUME NEW x \in Requests, http'[x] = "waiting" PROVE \E j \in Ids : pending'[j] = x
    <3>1. CASE x = r
      BY <1>2, <3>1
    <3>2. CASE x # r
      <4>1. PICK j \in Ids : pending[j] = x
        BY <1>4, <2>1, <3>2 DEF CorrelationInv, WaitingIffPending, TypeOK
      <4>2. j \in InFlight
        BY <4>1 DEF InFlight
      <4> QED BY <1>2, <4>1, <4>2
    <3> QED BY <3>1, <3>2
  <2>2. \A j \in InFlight' : http'[pending'[j]] = "waiting"
    BY <1>2, <1>3, <1>4, InFlightType DEF CorrelationInv, WaitingIffPending, TypeOK
  <2>3. \A j, k \in InFlight' : pending'[j] = pending'[k] => j = k
    BY <1>2, <1>3 DEF CorrelationInv, WaitingIffPending
  <2> QED BY <2>1, <2>2, <2>3 DEF WaitingIffPending
<1>8. CommandsCorrelate'
  <2>1. \A j \in InFlight' : j < nextId' /\ bornIn'[pending'[j]] = epoch'
    BY <1>1, <1>2, <1>3, <1>4, InFlightType DEF CorrelationInv, CommandsCorrelate, TypeOK, Ids
  <2>2. \A x \in Requests : bornIn'[x] <= epoch'
    BY <1>4 DEF CorrelationInv, CommandsCorrelate, TypeOK
  <2>3. ASSUME NEW w \in work'
        PROVE  /\ http'[w.req] # "idle"
               /\ bornIn'[w.req] = epoch' =>
                    w.id < nextId' /\ pending'[w.id] \in {NoRequest, w.req}
    <3>1. CASE w = Command(i, r)
      BY <1>1, <1>2, <1>4, <3>1 DEF Command, TypeOK
    <3>2. CASE w \in work
      <4>1. w.req \in Requests /\ w.id \in Ids /\ w.id \in Nat /\ w.req # r
        BY <3>2 DEF TypeOK, CorrelationInv, CommandsCorrelate, Ids
      <4> QED BY <1>1, <1>4, <3>2, <4>1 DEF CorrelationInv, CommandsCorrelate, TypeOK
    <3> QED BY <1>4, <3>1, <3>2
  <2> QED BY <2>1, <2>2, <2>3 DEF CommandsCorrelate
<1>9. OwnOutcomePerProcess' /\ OutcomesAreOfCommandsMade'
  <2>1. ASSUME NEW x \in Requests, reply'[x].code \in ExtensionReplies
        PROVE  /\ reply'[x].by = x \/ bornIn'[reply'[x].by] < bornIn'[x]
               /\ http'[x] = "answered"
               /\ reply'[x].by \in Requests
               /\ http'[reply'[x].by] # "idle"
    <3>1. /\ reply'[x] = reply[x]
          /\ reply[x].by = x \/ bornIn[reply[x].by] < bornIn[x]
          /\ http[x] = "answered"
          /\ reply[x].by \in Requests
          /\ http[reply[x].by] # "idle"
      BY <1>4, <2>1 DEF CorrelationInv, OwnOutcomePerProcess, OutcomesAreOfCommandsMade
    <3>2. x # r /\ reply[x].by # r
      BY <3>1
    <3> QED BY <1>4, <3>1, <3>2 DEF TypeOK
  <2> QED BY <2>1 DEF OwnOutcomePerProcess, OutcomesAreOfCommandsMade
<1> QED BY <1>5, <1>6, <1>7, <1>8, <1>9 DEF CorrelationInv

\* An action that leaves the correlation's variables alone, or lets commands get
\* lost, keeps it if the extension in use stays.
LEMMA CorrelationUnchanged ==
  ASSUME CorrelationInv, work' \subseteq work,
         UNCHANGED <<extension, nextId, requestVars, epoch, sentOn, bornIn>>
  PROVE  CorrelationInv'
  BY DEF CorrelationInv, TimerPerEntry, InFlight, WaitingIffPending,
         NothingWaitsWithoutExtension, InFlightOnCurrent, CommandsCorrelate,
         OwnOutcomePerProcess, OutcomesAreOfCommandsMade, requestVars

\* Restart keeps the correlation: nothing waits, and no request is of the new epoch.
LEMMA RestartKeepsCorrelation == TypeOK /\ CorrelationInv /\ Restart => CorrelationInv'
<1> SUFFICES ASSUME TypeOK, CorrelationInv, Restart PROVE CorrelationInv'
  OBVIOUS
<1>1. /\ epoch' = epoch + 1 /\ epoch \in Nat
      /\ pending' = [i \in Ids |-> NoRequest]
      /\ timers' = {}
      /\ http' = [r \in Requests |-> IF http[r] = "waiting" THEN "lost" ELSE http[r]]
      /\ UNCHANGED <<reply, work, bornIn>>
  BY DEF Restart, TypeOK
<1>2. InFlight' = {}
  BY <1>1 DEF InFlight
<1>3. /\ TimerPerEntry' /\ WaitingIffPending'
      /\ NothingWaitsWithoutExtension' /\ InFlightOnCurrent'
  BY <1>1, <1>2 DEF TimerPerEntry, WaitingIffPending, NothingWaitsWithoutExtension,
                    InFlightOnCurrent
<1>4. \A r \in Requests : bornIn[r] \in Nat /\ bornIn[r] < epoch'
  BY <1>1 DEF CorrelationInv, CommandsCorrelate, TypeOK
<1>5. CommandsCorrelate'
  BY <1>1, <1>2, <1>4 DEF CommandsCorrelate, CorrelationInv, TypeOK
<1>6. OwnOutcomePerProcess' /\ OutcomesAreOfCommandsMade'
  BY <1>1 DEF CorrelationInv, OwnOutcomePerProcess, OutcomesAreOfCommandsMade
<1> QED BY <1>3, <1>5, <1>6 DEF CorrelationInv

\* Every action keeps CorrelationInv.
LEMMA CorrelationStep ==
  TypeOK /\ ConnectionInv /\ CorrelationInv /\ [Next]_vars => CorrelationInv'
<1> SUFFICES ASSUME TypeOK, ConnectionInv, CorrelationInv, [Next]_vars
             PROVE  CorrelationInv'
  OBVIOUS
<1> USE RelayConstants
<1>1. ASSUME NEW s \in Sockets, OpenReplacing(s) \/ CloseCurrent(s) PROVE CorrelationInv'
  BY <1>1, FailAllKeepsCorrelation DEF OpenReplacing, CloseCurrent, ExtensionGone, RelayErrors
<1>2. ASSUME NEW s \in Sockets, OpenFirst(s) PROVE CorrelationInv'
  <2>1. /\ extension' = s /\ ~ExtensionOpen
        /\ UNCHANGED <<nextId, requestVars, work, epoch, sentOn, bornIn>>
    BY <1>2 DEF OpenFirst
  <2>2. \A i \in InFlight : sentOn[i] \in ClosingSockets
    BY <2>1 DEF ConnectionInv, ExtensionIsOpen, ExtensionOpen, CorrelationInv,
                NothingWaitsWithoutExtension, InFlightOnCurrent
  <2>3. NothingWaitsWithoutExtension' /\ InFlightOnCurrent'
    BY <2>1, <2>2 DEF NothingWaitsWithoutExtension, InFlightOnCurrent, InFlight, requestVars
  <2> QED BY <2>1, <2>3 DEF CorrelationInv, TimerPerEntry, InFlight, WaitingIffPending,
                CommandsCorrelate, OwnOutcomePerProcess, OutcomesAreOfCommandsMade, requestVars
<1>3. ASSUME NEW s \in Sockets, StartClosing(s) \/ CloseStale(s) \/ PassOn(s)
      PROVE  CorrelationInv'
  BY <1>3, CorrelationUnchanged DEF StartClosing, CloseStale, PassOn, socketVars
<1>4. ASSUME NEW s \in Sockets, NEW w \in work, Response(s, w) PROVE CorrelationInv'
  <2>1. PICK code \in ExtensionReplies : RespondPending(w.id, Reply(code, w.req), timers)
    BY <1>4 DEF Response
  <2>2. /\ w.id \in Ids /\ w.req \in Requests /\ work' \subseteq work
        /\ UNCHANGED <<extension, nextId, epoch, sentOn, bornIn>>
    BY <1>4 DEF Response, socketVars, TypeOK
  <2> QED BY <2>1, <2>2, RespondKeepsCorrelation
<1>5. ASSUME NEW r \in Requests, http[r] = "idle", SendCommandToExtension(r)
      PROVE  CorrelationInv'
  BY <1>5, AnswerAtOnceKeepsCorrelation, SentKeepsCorrelation
     DEF SendCommandToExtension, SendFailed, MakeCommand, RelayErrors
<1>6. ASSUME NEW r \in Requests, PostCommand(r) \/ GetHealth(r) PROVE CorrelationInv'
  BY <1>5, <1>6, AnswerAtOnceKeepsCorrelation DEF PostCommand, GetHealth, RunActiveTargetHealthProbe, RelayErrors
<1>7. ASSUME NEW i \in Ids, RequestTimeout(i) PROVE CorrelationInv'
  <2>1. /\ i \in timers
        /\ RespondPending(i, Reply("COMMAND_TIMEOUT", NoRequest), timers \ {i})
        /\ UNCHANGED <<extension, nextId, work, epoch, sentOn, bornIn>>
    BY <1>7 DEF RequestTimeout, socketVars
  <2>2. /\ "COMMAND_TIMEOUT" \in RelayErrors \cup ExtensionReplies
        /\ "COMMAND_TIMEOUT" \notin ExtensionReplies
        /\ work' \subseteq work
    BY <2>1 DEF RelayErrors, ExtensionReplies
  <2> QED BY <2>1, <2>2, RespondKeepsCorrelation
<1>8. ASSUME NEW c \in Subscribers, Subscribe(c) \/ Unsubscribe(c) PROVE CorrelationInv'
  BY <1>8, CorrelationUnchanged DEF Subscribe, Unsubscribe, socketVars
<1>9. ASSUME NEW w \in work, LoseCommand(w) PROVE CorrelationInv'
  BY <1>9, CorrelationUnchanged DEF LoseCommand, socketVars
<1>10. ASSUME Restart PROVE CorrelationInv'
  BY <1>10, RestartKeepsCorrelation
<1>11. CASE UNCHANGED vars
  BY <1>11, CorrelationUnchanged DEF vars, requestVars
<1> QED BY <1>1, <1>2, <1>3, <1>4, <1>6, <1>7, <1>8, <1>9, <1>10, <1>11 DEF Next, Requests

\* The correlation holds at the start.
LEMMA CorrelationInit == Init => CorrelationInv
<1> SUFFICES ASSUME Init PROVE CorrelationInv
  OBVIOUS
<1>1. InFlight = {} /\ timers = {} /\ work = {}
  BY DEF Init, InFlight
<1>2. /\ http = [r \in Requests |-> "idle"]
      /\ \A r \in Requests : reply[r].code = "NONE"
      /\ bornIn = [r \in Requests |-> 0] /\ epoch = 0
  BY DEF Init, NoReply, Reply
<1> QED BY <1>1, <1>2 DEF CorrelationInv, TimerPerEntry, WaitingIffPending,
           NothingWaitsWithoutExtension, InFlightOnCurrent, CommandsCorrelate,
           OwnOutcomePerProcess, OutcomesAreOfCommandsMade, ExtensionReplies

\* In every reachable state the three inductive invariants hold.
LEMMA Invariance == Spec => [](TypeOK /\ ConnectionInv /\ CorrelationInv)
  BY ConnectionInit, CorrelationInit, TypeCorrect, ConnectionStep, CorrelationStep, PTL
     DEF Spec

\* No interleaving of answers, timeouts, replacements, disconnections and
\* restarts orphans a request or leaves a timer or an entry behind
\* (respondPending, failAllPending and sendCommandToExtension, relay.ts:357-474).
THEOREM NoRequestOrphaned ==
  Spec => [](TimerPerEntry /\ WaitingIffPending /\ NothingWaitsWithoutExtension
             /\ InFlightOnCurrent)
<1>1. CorrelationInv => /\ TimerPerEntry /\ WaitingIffPending
                        /\ NothingWaitsWithoutExtension /\ InFlightOnCurrent
  BY DEF CorrelationInv
<1> QED BY <1>1, Invariance, PTL

\* A request gets the outcome of its own command, whatever answers are late,
\* unless the relay process was restarted in between (makeCommand,
\* relay.ts:541-547, and the response handler, relay.ts:946-957).
THEOREM OutcomeIsOwn == Spec => [](CommandsCorrelate /\ OwnOutcomePerProcess)
<1>1. CorrelationInv => CommandsCorrelate /\ OwnOutcomePerProcess
  BY DEF CorrelationInv
<1> QED BY <1>1, Invariance, PTL

-----------------------------------------------------------------------------
(* The relay implements the bridge.                                        *)

\* An action that leaves requests and answers alone is a stutter of the bridge.
LEMMA BridgeStutter == UNCHANGED <<http, reply, bornIn, epoch>> => UNCHANGED Bridge!vars
  BY DEF Bridge!vars

\* Failing what waits is the bridge's Fail of all waiting requests.
LEMMA FailAllIsFail ==
  ASSUME TypeOK, CorrelationInv, NEW code \in RelayErrors, FailAllPending(code),
         UNCHANGED <<bornIn, epoch>>
  PROVE  Bridge!Next
<1> DEFINE R == {pending[i] : i \in InFlight}
<1>1. R \in SUBSET Requests /\ \A r \in R : http[r] = "waiting"
  BY InFlightType DEF CorrelationInv, WaitingIffPending
<1>2. /\ http' = [r \in Requests |-> IF r \in R THEN "answered" ELSE http[r]]
      /\ reply' = [r \in Requests |->
                     IF r \in R THEN Bridge!Reply(code, NoRequest) ELSE reply[r]]
  BY DEF FailAllPending, Answer, Reply, Bridge!Reply
<1>3. {r \in Requests : http[r] # "idle" /\ bornIn[r] < epoch}'
        = {r \in Requests : http[r] # "idle" /\ bornIn[r] < epoch}
  BY <1>1, <1>2
<1>4. Bridge!Fail(R)
  BY <1>1, <1>2, <1>3 DEF Bridge!Fail
<1> QED BY <1>1, <1>4 DEF Bridge!Next

\* An immediate answer is the bridge's Fail of the new request.
LEMMA AnswerAtOnceIsFail ==
  ASSUME TypeOK, NEW r \in Requests, http[r] = "idle",
         NEW code \in RelayErrors, AnswerAtOnce(r, code)
  PROVE  Bridge!Next
<1>1. /\ http' = [x \in Requests |-> IF x \in {r} THEN "answered" ELSE http[x]]
      /\ reply' = [x \in Requests |->
                     IF x \in {r} THEN Bridge!Reply(code, NoRequest) ELSE reply[x]]
      /\ bornIn' = [bornIn EXCEPT ![r] = epoch] /\ epoch' = epoch
  BY DEF AnswerAtOnce, Answer, Reply, Bridge!Reply
<1>2. {x \in Requests : http[x] # "idle" /\ bornIn[x] < epoch}'
        = {x \in Requests : http[x] # "idle" /\ bornIn[x] < epoch}
  BY <1>1 DEF TypeOK
<1>3. Bridge!Fail({r})
  BY <1>1, <1>2 DEF Bridge!Fail
<1> QED BY <1>3 DEF Bridge!Next

\* Sending the command is the bridge's Accept.
LEMMA SentIsAccept ==
  ASSUME TypeOK, NEW r \in Requests, http[r] = "idle", Sent(r)
  PROVE  Bridge!Next
<1>1. /\ http' = [http EXCEPT ![r] = "waiting"] /\ reply' = reply
      /\ bornIn' = [bornIn EXCEPT ![r] = epoch] /\ epoch' = epoch
  BY DEF Sent
<1>2. {x \in Requests : http[x] # "idle" /\ bornIn[x] < epoch}'
        = {x \in Requests : http[x] # "idle" /\ bornIn[x] < epoch}
  BY <1>1 DEF TypeOK
<1>3. Bridge!Accept(r)
  BY <1>1, <1>2 DEF Bridge!Accept
<1> QED BY <1>3 DEF Bridge!Next

\* Answering the entry of an id with an error is the bridge's Fail of its request,
\* answering it with an outcome is its Deliver, without an entry it is a stutter.
LEMMA RespondIsAnswer ==
  ASSUME TypeOK, CorrelationInv,
         NEW i \in Ids, NEW code \in RelayErrors \cup ExtensionReplies,
         NEW by \in Requests \cup {NoRequest}, NEW armed,
         RespondPending(i, Reply(code, by), armed),
         \/ code \in RelayErrors /\ by = NoRequest
         \/ code \in ExtensionReplies /\ \E w \in work : w.id = i /\ w.req = by,
         UNCHANGED <<epoch, bornIn>>
  PROVE  [Bridge!Next]_Bridge!vars
<1> DEFINE q == pending[i]
           old == {r \in Requests : http[r] # "idle" /\ bornIn[r] < epoch}
<1>1. CASE q = NoRequest
  BY <1>1, BridgeStutter DEF RespondPending
<1>2. CASE q # NoRequest
  <2>1. q \in Requests /\ i \in InFlight /\ http[q] = "waiting"
    BY <1>2 DEF TypeOK, InFlight, CorrelationInv, WaitingIffPending
  <2>2. /\ http' = [r \in Requests |-> IF r \in {q} THEN "answered" ELSE http[r]]
        /\ reply' = [r \in Requests |->
                       IF r \in {q} THEN Bridge!Reply(code, by) ELSE reply[r]]
    BY <1>2 DEF RespondPending, Answer, Reply, Bridge!Reply
  <2>3. old' = old
    BY <2>1, <2>2
  <2>4. CASE code \in RelayErrors /\ by = NoRequest
    <3>1. Bridge!Fail({q})
      BY <2>1, <2>2, <2>3, <2>4 DEF Bridge!Fail
    <3> QED BY <2>1, <3>1 DEF Bridge!Next
  <2>5. CASE code \in ExtensionReplies /\ \E w \in work : w.id = i /\ w.req = by
    <3>1. PICK w \in work : w.id = i /\ w.req = by
      BY <2>5
    <3>2. by \in Requests /\ http[by] # "idle" /\ bornIn[by] <= epoch
      BY <3>1 DEF TypeOK, CorrelationInv, CommandsCorrelate
    <3>3. by = q \/ bornIn[by] # epoch
      BY <1>2, <3>1 DEF CorrelationInv, CommandsCorrelate
    <3>4. bornIn[by] \in Nat /\ epoch \in Nat
      BY <3>2 DEF TypeOK
    <3>5. by \in {q} \cup old
      BY <3>2, <3>3, <3>4
    <3>6. /\ http' = [http EXCEPT ![q] = "answered"]
          /\ reply' = [reply EXCEPT ![q] = Bridge!Reply(code, by)]
      BY <2>1, <2>2 DEF TypeOK
    <3>7. Bridge!Deliver(q)
      BY <2>1, <2>3, <2>5, <3>5, <3>6 DEF Bridge!Deliver
    <3> QED BY <2>1, <3>7 DEF Bridge!Next
  <2> QED BY <2>4, <2>5
<1> QED BY <1>1, <1>2

\* A restart of the relay is a restart of the bridge.
LEMMA RestartIsRestart == TypeOK /\ CorrelationInv /\ Restart => Bridge!Next
<1> SUFFICES ASSUME TypeOK, CorrelationInv, Restart PROVE Bridge!Next
  OBVIOUS
<1>1. /\ http' = [r \in Requests |-> IF http[r] = "waiting" THEN "lost" ELSE http[r]]
      /\ epoch' = epoch + 1 /\ UNCHANGED <<reply, bornIn>>
  BY DEF Restart
<1>2. \A r \in Requests : bornIn[r] < epoch + 1
  BY DEF TypeOK, CorrelationInv, CommandsCorrelate
<1>3. {r \in Requests : http[r] # "idle" /\ bornIn[r] < epoch}' = {r \in Requests : http[r] # "idle"}
  BY <1>1, <1>2
<1>4. Bridge!Restart
  BY <1>1, <1>3 DEF Bridge!Restart
<1> QED BY <1>4 DEF Bridge!Next

\* Every step of the relay is a step of the bridge or a stutter.
LEMMA BridgeStep ==
  TypeOK /\ CorrelationInv /\ [Next]_vars => [Bridge!Next]_Bridge!vars
<1> SUFFICES ASSUME TypeOK, CorrelationInv, [Next]_vars PROVE [Bridge!Next]_Bridge!vars
  OBVIOUS
<1>1. ASSUME NEW s \in Sockets, OpenReplacing(s) \/ CloseCurrent(s) PROVE Bridge!Next
  BY <1>1, FailAllIsFail DEF OpenReplacing, CloseCurrent, ExtensionGone, RelayErrors
<1>2. ASSUME NEW s \in Sockets, OpenFirst(s) \/ StartClosing(s) \/ CloseStale(s)
                                \/ PassOn(s)
      PROVE  UNCHANGED Bridge!vars
  BY <1>2, BridgeStutter DEF OpenFirst, StartClosing, CloseStale, PassOn, requestVars
<1>3. ASSUME NEW s \in Sockets, NEW w \in work, Response(s, w)
      PROVE  [Bridge!Next]_Bridge!vars
  <2>1. PICK code \in ExtensionReplies : RespondPending(w.id, Reply(code, w.req), timers)
    BY <1>3 DEF Response
  <2>2. w.id \in Ids /\ w.req \in Requests /\ UNCHANGED <<epoch, bornIn>>
    BY <1>3 DEF Response, TypeOK
  <2> QED BY <2>1, <2>2, RespondIsAnswer
<1>4. ASSUME NEW r \in Requests, PostCommand(r) \/ GetHealth(r) PROVE Bridge!Next
  BY <1>4, AnswerAtOnceIsFail, SentIsAccept
     DEF PostCommand, GetHealth, RunActiveTargetHealthProbe, SendCommandToExtension,
         SendFailed, MakeCommand, RelayErrors
<1>5. ASSUME NEW i \in Ids, RequestTimeout(i) PROVE [Bridge!Next]_Bridge!vars
  <2>1. /\ RespondPending(i, Reply("COMMAND_TIMEOUT", NoRequest), timers \ {i})
        /\ UNCHANGED <<epoch, bornIn>>
    BY <1>5 DEF RequestTimeout
  <2>2. "COMMAND_TIMEOUT" \in RelayErrors
    BY DEF RelayErrors
  <2> QED BY <2>1, <2>2, RespondIsAnswer
<1>6. ASSUME NEW c \in Subscribers, Subscribe(c) \/ Unsubscribe(c)
      PROVE  UNCHANGED Bridge!vars
  BY <1>6, BridgeStutter DEF Subscribe, Unsubscribe, requestVars
<1>7. ASSUME NEW w \in work, LoseCommand(w) PROVE UNCHANGED Bridge!vars
  BY <1>7, BridgeStutter DEF LoseCommand, requestVars
<1>8. ASSUME Restart PROVE Bridge!Next
  BY <1>8, RestartIsRestart
<1>9. CASE UNCHANGED vars
  BY <1>9, BridgeStutter DEF vars
<1> QED BY <1>1, <1>2, <1>3, <1>4, <1>5, <1>6, <1>7, <1>8, <1>9 DEF Next, Requests

\* The relay, with its sockets, ids, timers and pending map, implements the
\* bridge its clients see: one final answer per request, about its own command
\* (sendCommandToExtension and respondPending, relay.ts:357-474).
THEOREM RelayImplementsBridge == Spec => ImplementsBridge
<1>1. Init => Bridge!Init
  BY DEF Init, NoReply, Reply, Bridge!Init, Bridge!Reply
<1> QED BY <1>1, Invariance, BridgeStep, PTL DEF Spec, ImplementsBridge, Bridge!Spec

=============================================================================
