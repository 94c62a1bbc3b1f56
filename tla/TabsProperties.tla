--------------------------- MODULE TabsProperties ---------------------------
(***************************************************************************)
(* What makes the registry of debugged tabs correct.                       *)
(***************************************************************************)
EXTENDS Tabs

\* The variables have the types their comments in Tabs give them (tabsRef of
\* tab.ts:56 and the fibers that wait for chrome.* calls).
TypeOK ==
  /\ open \subseteq Tabs /\ attached \subseteq Tabs /\ registry \subseteq Tabs
  /\ \A i \in DOMAIN calls :
       /\ calls[i].op \in {"getTargets", "attach", "getTargetInfo", "detach"}
       /\ calls[i].tab \in Tabs \cup {NoTab}
  /\ \A i \in DOMAIN inbox : inbox[i].tabs \subseteq Tabs
  /\ stranded \subseteq Tabs
  /\ connected \in BOOLEAN
  /\ pc \in [Requests -> Waiting \cup {"idle", "ok", "failed"}]
  /\ target \in [Requests -> Tabs \cup {NoTab}]
  /\ disconnections \in 0 .. MaxFaults
  /\ sweep \in {"idle", "running"}
  /\ sweepLeft \subseteq Tabs /\ resetLeft \subseteq Tabs

DetachOnItsWay(t) == \E i \in DOMAIN inbox : inbox[i].op = "detached" /\ inbox[i].tab = t

Tracks(T) ==
  \A t \in registry \cap T : t \in attached \/ DetachOnItsWay(t) \/ sweep = "running"

\* While the service worker lives, a registered tab is attached, unless the event
\* that it no longer is has not arrived, or a sweep that will empty the registry is
\* under way.  A stale entry would answer every later request with a target that
\* takes no command (tab.ts:163-169).
RegisteredIsAttached == restarts = 0 => Tracks(Tabs \ ForeignTabs)

\* The comment at tab.ts:55 says "Only track attached tabs": also after a restart of
\* the worker a registered tab is attached.
OnlyAttachedTracked == Tracks(Tabs \ ForeignTabs)

AtRest ==
  /\ calls = <<>> /\ inbox = <<>>
  /\ disconnections = 0 /\ sweep = "idle"
  /\ \A r \in Requests : pc[r] \notin Waiting

\* Without disconnections every tab that stays debugged is registered once the
\* service worker is at rest, so its events are forwarded (cdp.ts:98-104).  Only a
\* failed call leaves a session behind: above all the lookup of the target after the
\* attachment (tab.ts:88-116), which detaches nothing.  No race of attachments, closed
\* tabs and canceled debugging does, and a session left behind is registered by the
\* next command that succeeds for its tab (tab.ts:180-190).
AttachedIsRegistered == losses = 0 /\ AtRest => attached \ registry \subseteq stranded

\* A command that needs a target is answered, and every sweep ends: no fiber waits
\* forever for a call (tab.ts:72-277).
EveryFiberEnds ==
  /\ \A r \in Requests : []<>(pc[r] \notin Waiting)
  /\ []<>(sweep = "idle")
=============================================================================
