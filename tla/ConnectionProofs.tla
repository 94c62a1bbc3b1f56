-------------------------- MODULE ConnectionProofs --------------------------
(***************************************************************************)
(* Proofs about the extension's connection, for any number of sockets and  *)
(* of changes by the user and the machine.                                 *)
(***************************************************************************)
EXTENDS ConnectionProperties, TLAPS

\* The live handlers are only on a socket that has opened.
LiveHasOpened == \A s \in Sockets : hooks[s] = "live" => ws[s] \in {"open", "closing"}

\* A connect timeout is armed only for a socket that is connecting.
TimersWhileConnecting == \A s \in connectTimers : ws[s] = "connecting"

\* The loop does not make a socket while one is open.
NoAttemptWhileConnected == loop \in {"lookup", "connecting"} => ~IsConnected

\* When close events come in order, one socket at a time has the live handlers.
OneLive == ~LateClose => \A s, x \in Sockets : hooks[s] = "live" /\ hooks[x] = "live" => s = x

\* The fiber part of the inductive invariant.
LoopInv == TypeOK /\ OneLoopWhileActive /\ AttemptCanEnd

\* The socket part of the inductive invariant.
SocketInv ==
  /\ RefIsLive
  /\ ConnectedIsTrue
  /\ LiveSocketIsUsed
  /\ LiveHasOpened
  /\ TimersWhileConnecting
  /\ NoAttemptWhileConnected
  /\ OneLive

-----------------------------------------------------------------------------
(* The maintain fiber.                                                     *)

\* Every action keeps LoopInv.
LEMMA LoopStep == LoopInv /\ TimersWhileConnecting /\ [Next]_vars => LoopInv'
<1> SUFFICES ASSUME LoopInv, TimersWhileConnecting, [Next]_vars PROVE LoopInv'
  OBVIOUS
<1> USE ConnectionConstants DEF LoopInv, TypeOK, OneLoopWhileActive, AttemptCanEnd
<1>1. ASSUME Wake PROVE LoopInv'
  BY <1>1 DEF Wake, NextWait, socketVars, relayVars
<1>2. ASSUME NEW s \in Sockets, Lookup(s) PROVE LoopInv'
  BY <1>2 DEF Lookup, relayVars
<1>3. ASSUME NEW s \in Sockets, OnOpen(s) PROVE LoopInv'
  BY <1>3 DEF OnOpen, loopVars, relayVars
<1>4. ASSUME NEW s \in Sockets, ConnectTimeout(s) PROVE LoopInv'
  BY <1>4 DEF ConnectTimeout, FailAttempt, loopVars, relayVars
<1>5. ASSUME NEW s \in Sockets, ConnectClosed(s) PROVE LoopInv'
  BY <1>5 DEF ConnectClosed, Closed, FailAttempt, loopVars
<1>6. ASSUME NEW s \in Sockets, LiveClosed(s) PROVE LoopInv'
  BY <1>6 DEF LiveClosed, CloseOutstanding, Closed, loopVars
<1>7. ASSUME NEW s \in Sockets, PeerClosing(s) PROVE LoopInv'
  BY <1>7 DEF PeerClosing, loopVars, relayVars
<1>8. ASSUME NEW s \in Sockets, RelayAccepts(s) \/ RelayClosed(s) PROVE LoopInv'
  BY <1>8 DEF RelayAccepts, RelayClosed, Ended, loopVars, socketVars
<1>9. ASSUME Activate PROVE LoopInv'
  BY <1>9 DEF Activate, Change, StartMaintaining, NextWait, socketVars, relayVars
<1>10. ASSUME Alarm PROVE LoopInv'
  BY <1>10 DEF Alarm, StartMaintaining, NextWait, socketVars, relayVars
<1>11. ASSUME Deactivate PROVE LoopInv'
  <2>1. TypeOK'
    <3>1. alive' \in BOOLEAN /\ active' \in BOOLEAN /\ maintain' \in BOOLEAN /\ fiber' \in BOOLEAN
      BY <1>11, Zenon DEF Deactivate, Interrupt, CloseSocket
    <3> QED BY <1>11, <3>1 DEF Deactivate, Interrupt, CloseSocket, Change, relayVars
  <2>2. OneLoopWhileActive'
    BY <1>11, Zenon DEF Deactivate, Interrupt, CloseSocket
  <2>3. AttemptCanEnd'
    BY <1>11 DEF Deactivate, Interrupt, CloseSocket
  <2> QED BY <2>1, <2>2, <2>3
<1>12. ASSUME KillWorker PROVE LoopInv'
  <2>1. TypeOK'
    <3>1. alive' \in BOOLEAN /\ active' \in BOOLEAN /\ maintain' \in BOOLEAN /\ fiber' \in BOOLEAN
      BY <1>12, Zenon DEF KillWorker
    <3> QED BY <1>12, <3>1 DEF KillWorker, Change
  <2>2. OneLoopWhileActive'
    BY <1>12, Zenon DEF KillWorker
  <2>3. AttemptCanEnd'
    BY <1>12 DEF KillWorker
  <2> QED BY <2>1, <2>2, <2>3
<1>13. ASSUME StartWorker PROVE LoopInv'
  <2>1. TypeOK'
    BY <1>13 DEF StartWorker, StartMaintaining, NextWait, loopVars, socketVars, relayVars
  <2>2. OneLoopWhileActive'
    <3>1. ~fiber
      BY <1>13 DEF StartWorker
    <3>2. CASE active
      <4>1. /\ maintain' = TRUE /\ fiber' = TRUE /\ loop' = NextWait
            /\ alive' = TRUE /\ active' = active
        BY <1>13, <3>1, <3>2, Zenon DEF StartWorker, StartMaintaining
      <4>2. loop' # "none"
        BY <4>1 DEF NextWait
      <4> QED BY <3>2, <4>1, <4>2, Zenon
    <3>3. CASE ~active
      BY <1>13, <3>1, <3>3 DEF StartWorker, loopVars
    <3> QED BY <3>2, <3>3
  <2>3. AttemptCanEnd'
    BY <1>13 DEF StartWorker, StartMaintaining, NextWait, loopVars, socketVars
  <2> QED BY <2>1, <2>2, <2>3
<1>14. ASSUME RivalAccepted \/ RelayEnds \/ RelayHangs \/ RelayRuns PROVE LoopInv'
  BY <1>14 DEF RivalAccepted, RelayEnds, RelayHangs, RelayRuns, Change, Ended, loopVars, socketVars
<1>15. CASE UNCHANGED vars
  BY <1>15 DEF vars, loopVars, socketVars, relayVars
<1> QED BY <1>1, <1>2, <1>3, <1>4, <1>5, <1>6, <1>7, <1>8, <1>9, <1>10, <1>11, <1>12,
           <1>13, <1>14, <1>15 DEF Next, Step

-----------------------------------------------------------------------------
(* The sockets.                                                            *)

\* Every action keeps SocketInv.
LEMMA SocketStep == LoopInv /\ SocketInv /\ [Next]_vars => SocketInv'
<1> SUFFICES ASSUME LoopInv, SocketInv, [Next]_vars PROVE SocketInv'
  OBVIOUS
<1> USE ConnectionConstants DEF SocketInv, RefIsLive, ConnectedIsTrue, LiveSocketIsUsed,
        LiveHasOpened, TimersWhileConnecting, NoAttemptWhileConnected, OneLive, IsConnected
<1>0. TypeOK /\ OneLoopWhileActive /\ AttemptCanEnd
  BY DEF LoopInv
<1>1. ASSUME Wake PROVE SocketInv'
  BY <1>0, <1>1 DEF Wake, NextWait, socketVars
<1>2. ASSUME NEW s \in Sockets, Lookup(s) PROVE SocketInv'
  BY <1>0, <1>2 DEF Lookup, TypeOK
<1>3. ASSUME NEW s \in Sockets, OnOpen(s) PROVE SocketInv'
  <2>1. CASE attempt = s
    <3>1. ~LateClose => \A x \in Sockets \ {s} : hooks[x] # "live"
      <4> SUFFICES ASSUME ~LateClose, NEW x \in Sockets \ {s}, hooks[x] = "live"
                   PROVE  FALSE
        OBVIOUS
      <4>1. ~CloseOutstanding(x)
        BY <1>3 DEF OnOpen
      <4>2. ws[x] = "open"
        BY <4>1 DEF CloseOutstanding
      <4>3. wsRef = x /\ IsConnected
        BY <1>0, <4>2 DEF TypeOK
      <4> QED BY <1>0, <2>1, <4>3 DEF AttemptCanEnd, TypeOK
    <3>2. /\ ws' = [ws EXCEPT ![s] = "open"] /\ hooks' = [hooks EXCEPT ![s] = "live"]
          /\ connectTimers' = connectTimers \ {s}
          /\ wsRef' = s /\ published' = "Connected" /\ loop' = "sleep"
      BY <1>3, <2>1 DEF OnOpen, loopVars
    <3> QED BY <1>0, <3>1, <3>2 DEF TypeOK
  <2>2. CASE attempt # s
    <3>1. /\ ws[s] = "connecting" /\ ws' = [ws EXCEPT ![s] = "open"]
          /\ connectTimers' = connectTimers \ {s}
          /\ UNCHANGED <<hooks, wsRef, published, loop>>
      BY <1>3, <2>2 DEF OnOpen, loopVars
    <3>2. hooks[s] # "live" /\ wsRef # s
      BY <3>1
    <3> QED BY <1>0, <3>1, <3>2 DEF TypeOK
  <2> QED BY <2>1, <2>2
<1>4. ASSUME NEW s \in Sockets, ConnectTimeout(s) PROVE SocketInv'
  <2>1. ws[s] = "connecting" /\ hooks[s] # "live" /\ wsRef # s
    BY <1>4 DEF ConnectTimeout
  <2>2. /\ ws' = [ws EXCEPT ![s] = "closing"] /\ connectTimers' = connectTimers \ {s}
        /\ UNCHANGED <<wsRef, hooks>>
        /\ published' = "Disconnected" \/ UNCHANGED published
        /\ loop' = "sleep" \/ UNCHANGED loop
    BY <1>4 DEF ConnectTimeout, FailAttempt, loopVars
  <2> QED BY <1>0, <2>1, <2>2 DEF TypeOK
<1>5. ASSUME NEW s \in Sockets, ConnectClosed(s) PROVE SocketInv'
  <2>1. hooks[s] # "live" /\ wsRef # s
    BY <1>5 DEF ConnectClosed
  <2>2. /\ ws' = [ws EXCEPT ![s] = "unused"] /\ connectTimers' = connectTimers \ {s}
        /\ UNCHANGED <<wsRef, hooks>>
        /\ published' = "Disconnected" \/ UNCHANGED published
        /\ loop' = "sleep" \/ UNCHANGED loop
    BY <1>5 DEF ConnectClosed, Closed, FailAttempt, loopVars
  <2> QED BY <1>0, <2>1, <2>2 DEF TypeOK
<1>6. ASSUME NEW s \in Sockets, LiveClosed(s) PROVE SocketInv'
  <2>1. /\ hooks[s] = "live" /\ ws[s] \in {"open", "closing"}
        /\ ws' = [ws EXCEPT ![s] = "unused"] /\ hooks' = [hooks EXCEPT ![s] = "connect"]
        /\ wsRef' = NoSocket /\ published' = "Disconnected"
        /\ UNCHANGED <<connectTimers, loop>>
    BY <1>6 DEF LiveClosed, CloseOutstanding, Closed, loopVars
  <2> QED BY <1>0, <2>1 DEF TypeOK
<1>7. ASSUME NEW s \in Sockets, PeerClosing(s) PROVE SocketInv'
  BY <1>0, <1>7 DEF PeerClosing, loopVars, TypeOK
<1>8. ASSUME NEW s \in Sockets, RelayAccepts(s) \/ RelayClosed(s) PROVE SocketInv'
  BY <1>8 DEF RelayAccepts, RelayClosed, loopVars, socketVars
<1>9. ASSUME Activate PROVE SocketInv'
  BY <1>0, <1>9 DEF Activate, StartMaintaining, NextWait, socketVars, OneLoopWhileActive
<1>10. ASSUME Alarm PROVE SocketInv'
  BY <1>0, <1>10 DEF Alarm, StartMaintaining, NextWait, socketVars, OneLoopWhileActive
<1>11. ASSUME Deactivate PROVE SocketInv'
  <2>1. /\ ws' = [s \in Sockets |-> IF s = wsRef /\ ws[s] = "open" THEN "closing" ELSE ws[s]]
        /\ wsRef' = NoSocket /\ published' = "Disconnected" /\ loop' = "none"
        /\ UNCHANGED <<hooks, connectTimers>>
    BY <1>11 DEF Deactivate, Interrupt, CloseSocket
  <2>2. LiveSocketIsUsed'
    <3> SUFFICES ASSUME ~LateClose, NEW s \in Sockets, ws'[s] = "open", hooks[s] = "live"
                 PROVE  FALSE
      BY <2>1
    <3>1. ws[s] = "open" /\ s # wsRef
      BY <2>1
    <3> QED BY <3>1
  <2> QED BY <1>0, <2>1, <2>2 DEF TypeOK
<1>12. ASSUME KillWorker PROVE SocketInv'
  BY <1>12 DEF KillWorker
<1>13. ASSUME StartWorker PROVE SocketInv'
  BY <1>0, <1>13 DEF StartWorker, StartMaintaining, NextWait, loopVars, socketVars,
                     OneLoopWhileActive
<1>14. ASSUME RivalAccepted \/ RelayEnds \/ RelayHangs \/ RelayRuns PROVE SocketInv'
  BY <1>14 DEF RivalAccepted, RelayEnds, RelayHangs, RelayRuns, loopVars, socketVars
<1>15. CASE UNCHANGED vars
  BY <1>15 DEF vars, loopVars, socketVars
<1> QED BY <1>1, <1>2, <1>3, <1>4, <1>5, <1>6, <1>7, <1>8, <1>9, <1>10, <1>11, <1>12,
           <1>13, <1>14, <1>15 DEF Next, Step

\* Both invariants hold in every reachable state.
LEMMA ConnectionInvariance == Spec => [](LoopInv /\ SocketInv)
<1>1. Init => LoopInv
  <2>1. Init => TypeOK
    <3>1. Init => /\ alive \in BOOLEAN /\ active \in BOOLEAN
                  /\ maintain \in BOOLEAN /\ fiber \in BOOLEAN
      BY Zenon DEF Init
    <3> QED BY <3>1, ConnectionConstants DEF Init, TypeOK
  <2>2. Init => OneLoopWhileActive
    BY Zenon DEF Init, OneLoopWhileActive
  <2>3. Init => AttemptCanEnd
    BY ConnectionConstants DEF Init, AttemptCanEnd
  <2> QED BY <2>1, <2>2, <2>3 DEF LoopInv
<1>2. Init => SocketInv
  BY ConnectionConstants DEF Init, SocketInv, RefIsLive, ConnectedIsTrue, LiveSocketIsUsed,
     LiveHasOpened, TimersWhileConnecting, NoAttemptWhileConnected, OneLive, IsConnected
<1>3. SocketInv => TimersWhileConnecting
  BY DEF SocketInv
<1> QED BY <1>1, <1>2, <1>3, LoopStep, SocketStep, PTL DEF Spec

\* The extension never has a fiberRef without a running maintain fiber, nor a
\* fiber that waits for a socket that can no longer resume it, however the popup,
\* the alarm, the worker's death and socket events interleave
\* (ConnectionManager.ts:110-250, background.ts:129-143 and 330-364).
THEOREM LoopCorrect == Spec => [](TypeOK /\ OneLoopWhileActive /\ AttemptCanEnd)
<1>1. LoopInv => TypeOK /\ OneLoopWhileActive /\ AttemptCanEnd
  BY DEF LoopInv
<1> QED BY <1>1, ConnectionInvariance, PTL

\* wsRef and the published events never claim a connection that is gone and, when
\* close events come in order, no live connection is forgotten
\* (ConnectionManager.ts:181-226).
THEOREM RefCorrect == Spec => [](RefIsLive /\ ConnectedIsTrue /\ LiveSocketIsUsed)
<1>1. SocketInv => RefIsLive /\ ConnectedIsTrue /\ LiveSocketIsUsed
  BY DEF SocketInv
<1> QED BY <1>1, ConnectionInvariance, PTL

=============================================================================
