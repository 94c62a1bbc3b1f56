-------------------------------- MODULE Tabs --------------------------------
(***************************************************************************)
(* The extension's registry of debugged tabs (extension/services/tab.ts)   *)
(* and the handlers that work on it (extension/entrypoints/background.ts): *)
(* commands that need a tab's target, debugger and tab events, the sweep   *)
(* after a disconnection, and the reset when the service worker starts.    *)
(*                                                                         *)
(* Each of these is a fiber of one thread that waits for chrome.* calls.   *)
(* The browser executes the calls in the order they were made; results and *)
(* events come back in one order, too.  An action of a fiber is what it    *)
(* does with a result, up to its next call.  A tab's targetId is its own,  *)
(* so the registry is the set of its tabs.                                 *)
(***************************************************************************)
EXTENDS Naturals, Sequences

CONSTANTS
  Tabs,               \* browser tabs
  ForeignTabs,        \* tabs that another debugger (DevTools) is attached to
  Requests,           \* commands that need a target, several at a time
  NoTab,
  MaxChanges,         \* bound on tabs closed and debugging ended by the user
  MaxFaults,          \* bound on "Disconnected" events and calls that fail for no reason
  MaxRestarts         \* bound on restarts of the service worker

ASSUME TabsConstants ==
  /\ NoTab \notin Tabs
  /\ ForeignTabs \subseteq Tabs
  /\ Requests \cap {"sweep", "reset", "browser"} = {}
  /\ MaxChanges \in Nat /\ MaxFaults \in Nat /\ MaxRestarts \in Nat

VARIABLES
  open,         \* tabs that exist
  attached,     \* tabs our debugger is attached to
  calls,        \* chrome.* calls made, not yet executed
  inbox,        \* results and events on their way to the service worker
  registry,     \* the keys of tabsRef
  connected,    \* connection.send succeeds
  pc,           \* what each request waits for, or how it ended
  target,       \* the tab each request works on
  disconnections,\* "Disconnected" events not yet consumed
  sweep,        \* detachAll: "idle", or "running"
  sweepLeft,    \* tabs of its snapshot it has still to detach
  resetLeft,    \* tabs the startup reset has still to detach
  stranded,     \* history: tabs that a failed call left attached
  failures,     \* counters of the environment's actions
  changes,
  losses,
  restarts

fiberVars == <<registry, pc, target, sweep, sweepLeft, resetLeft>>
countVars == <<failures, changes, losses, restarts>>
vars == <<open, attached, stranded, calls, inbox, fiberVars, connected, disconnections, countVars>>

\* A call of a fiber, and what comes back: the tabs it found, its tab, or an error.
Call(by, op, t) == [by |-> by, op |-> op, tab |-> t]
Result(c, tabs) == [by |-> c.by, op |-> c.op, tab |-> c.tab, tabs |-> tabs]
Failure(c) == Result(Call(c.by, "failed", c.tab), {})
Event(op, t) == [by |-> "browser", op |-> op, tab |-> t, tabs |-> {}]

StartupCalls == << Call("reset", "getTargets", NoTab) >>

Init ==
  /\ open = Tabs
  /\ attached = {} /\ stranded = {}
  /\ calls = StartupCalls
  /\ inbox = <<>>
  /\ registry = {}
  /\ connected = TRUE
  /\ pc = [r \in Requests |-> "idle"]
  /\ target = [r \in Requests |-> NoTab]
  /\ disconnections = 0
  /\ sweep = "idle"
  /\ sweepLeft = {}
  /\ resetLeft = {}
  /\ failures = 0 /\ changes = 0 /\ losses = 0 /\ restarts = 0

Waiting == {"getTargets", "attach", "getTargetInfo"}

-----------------------------------------------------------------------------
(* The browser.                                                            *)

\* attach works for an open tab that our debugger is not attached to, getTargetInfo
\* for one that it is.
Possible(c) ==
  /\ c.op = "attach" => c.tab \in open \ attached
  /\ c.op = "getTargetInfo" => c.tab \in attached

\* getTargets tells of any debugger; detaching by call makes no event.
Perform(c) ==
  /\ Possible(c) /\ UNCHANGED failures
  /\ \/ /\ c.op = "getTargets"
        /\ inbox' = Append(inbox, Result(c, attached \cup (ForeignTabs \cap open)))
        /\ UNCHANGED <<attached, stranded>>
     \/ /\ c.op = "attach"
        /\ inbox' = Append(inbox, Result(c, {c.tab}))
        /\ attached' = attached \cup {c.tab}
        /\ UNCHANGED stranded
     \/ /\ c.op = "getTargetInfo"
        /\ inbox' = Append(inbox, Result(c, {c.tab}))
        /\ UNCHANGED <<attached, stranded>>
     \/ /\ c.op = "detach"
        /\ inbox' = Append(inbox, Result(c, {}))
        /\ attached' = attached \ {c.tab}
        /\ stranded' = stranded \ {c.tab}

\* The tabs that stay attached because c failed: the one whose target could not be
\* told, or told without a targetId, after it was attached; those that a detach or
\* the startup reset should have detached.
LeftBy(c) ==
  CASE c.op \in {"getTargetInfo", "detach"} -> {c.tab} \cap attached
    [] c.op = "getTargets" /\ c.by = "reset" -> attached
    [] OTHER -> {}

\* Any call may fail, with no effect.
Fail(c) ==
  /\ Possible(c) => failures + losses < MaxFaults
  /\ failures' = IF Possible(c) THEN failures + 1 ELSE failures
  /\ inbox' = Append(inbox, Failure(c))
  /\ stranded' = stranded \cup LeftBy(c)
  /\ UNCHANGED attached

Execute ==
  /\ calls # <<>>
  /\ Perform(Head(calls)) \/ Fail(Head(calls))
  /\ calls' = Tail(calls)
  /\ UNCHANGED <<open, fiberVars, connected, disconnections, changes, losses, restarts>>

\* The user closes a tab: onRemoved and, if it was debugged, onDetach, in either
\* order.
CloseTab(t) ==
  /\ changes < MaxChanges /\ changes' = changes + 1
  /\ t \in open
  /\ open' = open \ {t}
  /\ attached' = attached \ {t} /\ stranded' = stranded \ {t}
  /\ IF t \in attached
     THEN \/ inbox' = inbox \o << Event("detached", t), Event("removed", t) >>
          \/ inbox' = inbox \o << Event("removed", t), Event("detached", t) >>
     ELSE inbox' = Append(inbox, Event("removed", t))
  /\ UNCHANGED <<calls, fiberVars, connected, disconnections, failures, losses, restarts>>

\* The user cancels debugging: onDetach.
EndDebugging(t) ==
  /\ changes < MaxChanges /\ changes' = changes + 1
  /\ t \in attached
  /\ attached' = attached \ {t} /\ stranded' = stranded \ {t}
  /\ inbox' = Append(inbox, Event("detached", t))
  /\ UNCHANGED <<open, calls, fiberVars, connected, disconnections, failures, losses, restarts>>

-----------------------------------------------------------------------------
(* Commands that need a target: getActiveTarget and createTab.             *)

\* The beginning of ensureAttached: a registered tab is the answer.
EnsureAttached(r, t) ==
  \/ /\ t \in registry
     /\ pc' = [pc EXCEPT ![r] = "ok"]
     /\ UNCHANGED calls
  \/ /\ t \notin registry
     /\ pc' = [pc EXCEPT ![r] = "getTargets"]
     /\ calls' = Append(calls, Call(r, "getTargets", t))

\* handleCommand, once the active or the new tab is known.
Start(r, t) ==
  /\ pc[r] \notin Waiting
  /\ target' = [target EXCEPT ![r] = t]
  /\ EnsureAttached(r, t)
  /\ UNCHANGED <<open, attached, stranded, inbox, registry, sweep, sweepLeft, resetLeft, connected,
                 disconnections, countVars>>

\* setTargetId, then connection.send of Target.attachedToTarget, which may fail.
Register(r) ==
  /\ registry' = registry \cup {target[r]}
  /\ stranded' = stranded \ {target[r]}
  /\ pc' = [pc EXCEPT ![r] = IF connected THEN "ok" ELSE "failed"]
  /\ UNCHANGED calls

NextCall(r, op) ==
  /\ pc' = [pc EXCEPT ![r] = op]
  /\ calls' = Append(calls, Call(r, op, target[r]))
  /\ UNCHANGED <<registry, stranded>>

\* Nothing is undone: a tab that was attached stays attached.
FailRequest(r) ==
  /\ pc' = [pc EXCEPT ![r] = "failed"]
  /\ UNCHANGED <<calls, registry, stranded>>

\* The rest of ensureAttached and attach, when the call m is a result of returns.
Continue(r, m) ==
  /\ \/ m.op = "failed" /\ FailRequest(r)
     \/ /\ m.op = "getTargets"
        /\ IF target[r] \in m.tabs THEN Register(r) ELSE NextCall(r, "attach")
     \/ m.op = "attach" /\ NextCall(r, "getTargetInfo")
     \/ m.op = "getTargetInfo" /\ Register(r)
  /\ UNCHANGED <<target, sweep, sweepLeft, resetLeft>>

-----------------------------------------------------------------------------
(* detachAll, events and the startup reset.                                *)

\* Mutant: the sweep does not advance.
SweepInPlace(left) ==
  \/ left = {} /\ registry' = {} /\ sweep' = "idle" /\ UNCHANGED <<sweepLeft, calls>>
  \/ \E t \in left :
       /\ sweep' = "running"
       /\ sweepLeft' = left
       /\ calls' = Append(calls, Call("sweep", "detach", t))
       /\ UNCHANGED registry

\* Detaches one of the tabs left, or sets the registry to the empty map.
SweepOn(left) ==
  \/ /\ left = {}
     /\ registry' = {}
     /\ sweep' = "idle"
     /\ UNCHANGED <<sweepLeft, calls>>
  \/ \E t \in left :
       /\ sweep' = "running"
       /\ sweepLeft' = left \ {t}
       /\ calls' = Append(calls, Call("sweep", "detach", t))
       /\ UNCHANGED registry

\* processEvents takes the next "Disconnected" when the sweep before is done.
StartSweep ==
  /\ disconnections > 0 /\ sweep = "idle"
  /\ disconnections' = disconnections - 1
  /\ SweepOn(registry)
  /\ UNCHANGED <<open, attached, stranded, inbox, pc, target, resetLeft, connected, countVars>>

ContinueSweep ==
  /\ SweepOn(sweepLeft)
  /\ UNCHANGED <<pc, target, resetLeft, stranded>>

\* The reset detaches what getTargets found attached, one after the other, whether or
\* not a detach fails.
ContinueReset(m) ==
  LET left == IF m.op = "getTargets" THEN m.tabs ELSE resetLeft IN
  /\ \/ left = {} /\ UNCHANGED <<resetLeft, calls>>
     \/ \E t \in left : /\ resetLeft' = left \ {t}
                        /\ calls' = Append(calls, Call("reset", "detach", t))
  /\ UNCHANGED <<registry, pc, target, sweep, sweepLeft, stranded>>

\* Mutant: only the removal of a tab deletes its entry.
HandleRemovedOnly(m) ==
  /\ registry' = IF m.op = "removed" /\ connected THEN registry \ {m.tab} ELSE registry
  /\ UNCHANGED <<calls, pc, target, sweep, sweepLeft, resetLeft, stranded>>

\* Mutant: every event empties the registry.
HandleByEmptying(m) ==
  /\ registry' = {}
  /\ UNCHANGED <<calls, pc, target, sweep, sweepLeft, resetLeft, stranded>>

\* handleDebuggerDetach deletes the tab; detach(tabId, false) does so after it has
\* told the relay, if it can.
HandleEvent(m) ==
  /\ registry' = IF m.op = "detached" \/ connected THEN registry \ {m.tab} ELSE registry
  /\ UNCHANGED <<calls, pc, target, sweep, sweepLeft, resetLeft, stranded>>

\* The next result or event reaches the service worker.
Deliver ==
  /\ inbox # <<>>
  /\ inbox' = Tail(inbox)
  /\ LET m == Head(inbox) IN
       \/ m.by \in Requests /\ Continue(m.by, m)
       \/ m.by = "sweep" /\ ContinueSweep
       \/ m.by = "reset" /\ ContinueReset(m)
       \/ m.by = "browser" /\ HandleEvent(m)
  /\ UNCHANGED <<open, attached, connected, disconnections, countVars>>

-----------------------------------------------------------------------------
(* The connection and the service worker.                                  *)

\* Mutant: a loss is published twice, by onerror and by onclose.
LoseConnectionTwice ==
  /\ failures + losses < MaxFaults /\ losses' = losses + 1
  /\ connected' = FALSE
  /\ disconnections' = disconnections + 2
  /\ UNCHANGED <<open, attached, stranded, calls, inbox, fiberVars, failures, changes, restarts>>

\* The connection is lost, switched off, or could not be made.
LoseConnection ==
  /\ failures + losses < MaxFaults /\ losses' = losses + 1
  /\ connected' = FALSE
  /\ disconnections' = disconnections + 1
  /\ UNCHANGED <<open, attached, stranded, calls, inbox, fiberVars, failures, changes, restarts>>

Connect ==
  /\ ~connected
  /\ connected' = TRUE
  /\ UNCHANGED <<open, attached, stranded, calls, inbox, fiberVars, disconnections, countVars>>

\* The service worker is stopped and started again; the debugger stays attached.
RestartWorker ==
  /\ restarts < MaxRestarts /\ restarts' = restarts + 1
  /\ calls' = StartupCalls
  /\ inbox' = <<>>
  /\ registry' = {}
  /\ pc' = [r \in Requests |-> "idle"]
  /\ target' = [r \in Requests |-> NoTab]
  /\ disconnections' = 0
  /\ sweep' = "idle"
  /\ sweepLeft' = {}
  /\ resetLeft' = {} /\ stranded' = {}
  /\ UNCHANGED <<open, attached, connected, failures, changes, losses>>

-----------------------------------------------------------------------------

Next ==
  \/ Execute \/ Deliver
  \/ \E t \in Tabs : CloseTab(t) \/ EndDebugging(t)
  \/ \E r \in Requests, t \in Tabs : Start(r, t)
  \/ StartSweep
  \/ LoseConnection \/ Connect \/ RestartWorker

Spec == Init /\ [][Next]_vars

\* The browser executes calls, and its answers and events arrive.
Fairness == WF_vars(Execute) /\ WF_vars(Deliver) /\ WF_vars(StartSweep)

FairSpec == Spec /\ Fairness
=============================================================================
