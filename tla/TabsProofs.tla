----------------------------- MODULE TabsProofs -----------------------------
(***************************************************************************)
(* Proofs about the tab registry, for any tabs, commands, foreign          *)
(* debuggers and bounds.                                                   *)
(***************************************************************************)
EXTENDS TabsProperties, SequenceLemmas

Fibers == Requests \cup {"sweep", "reset"}
Calls == [by : Fibers, op : {"getTargets", "attach", "getTargetInfo", "detach"},
          tab : Tabs \cup {NoTab}]
Results == [by : Fibers, op : {"getTargets", "attach", "getTargetInfo", "detach", "failed"},
            tab : Tabs \cup {NoTab}, tabs : SUBSET Tabs]
Events == [by : {"browser"}, op : {"detached", "removed"}, tab : Tabs, tabs : {{}}]

-----------------------------------------------------------------------------
(* The inductive invariant.                                                *)

TypeInv ==
  /\ open \subseteq Tabs /\ attached \subseteq open /\ registry \subseteq Tabs
  /\ stranded \subseteq Tabs
  /\ calls \in Seq(Calls)
  /\ inbox \in Seq(Results \cup Events)
  /\ connected \in BOOLEAN
  /\ pc \in [Requests -> Waiting \cup {"idle", "ok", "failed"}]
  /\ target \in [Requests -> Tabs \cup {NoTab}]
  /\ disconnections \in Nat /\ failures \in Nat /\ losses \in Nat /\ restarts \in Nat
  /\ disconnections <= losses /\ losses <= MaxFaults
  /\ sweep \in {"idle", "running"}
  /\ sweepLeft \subseteq Tabs /\ resetLeft \subseteq Tabs

\* What a fiber's call or result says about the fiber.
Matches(c) ==
  /\ c.by \in Requests => /\ pc[c.by] \in Waiting /\ c.op \in {pc[c.by], "failed"}
                          /\ c.tab \in Tabs /\ target[c.by] = c.tab
  /\ c.by = "sweep" => sweep = "running" /\ c.op \in {"detach", "failed"} /\ c.tab \in Tabs
  /\ c.by = "reset" => c.op \in {"getTargets", "detach", "failed"}

\* A fiber waits for one call at a time: what it asked for is in calls, or what came
\* back is in inbox.
OneCallPerFiber ==
  /\ \A i \in DOMAIN calls : Matches(calls[i])
  /\ \A i \in DOMAIN inbox : Matches(inbox[i])
  /\ \A i, j \in DOMAIN calls : calls[i].by = calls[j].by => i = j
  /\ \A i, j \in DOMAIN inbox : inbox[i].by = inbox[j].by /\ inbox[i].by # "browser" => i = j
  /\ \A i \in DOMAIN calls, j \in DOMAIN inbox : calls[i].by # inbox[j].by

\* attach and getTargetInfo tell of their own tab, a failure of none.
OwnTab ==
  \A i \in DOMAIN inbox :
    /\ inbox[i].op \in {"attach", "getTargetInfo"} => inbox[i].tabs = {inbox[i].tab}
    /\ inbox[i].op = "failed" => inbox[i].tabs = {}

\* The event that t is no longer attached is in inbox, behind i.
DetachBehind(i, t) ==
  \E j \in DOMAIN inbox : j > i /\ inbox[j].op = "detached" /\ inbox[j].tab = t

\* The first reset finds foreign tabs only: its call is made before any other.
FirstResetIsHarmless ==
  /\ \A i \in DOMAIN calls :
       calls[i].by = "reset" => \/ calls[i].op = "getTargets" /\ i = 1 /\ attached = {}
                                \/ calls[i].op = "detach" /\ calls[i].tab \in ForeignTabs
  /\ \A i \in DOMAIN inbox :
       inbox[i].by = "reset" /\ inbox[i].op = "getTargets" => inbox[i].tabs \subseteq ForeignTabs
  /\ resetLeft \subseteq ForeignTabs

\* What a command is about to be told of its tab is true, unless the event that it no
\* longer is, or the answer to a sweep, comes behind.
TruthOnItsWay ==
  \A i \in DOMAIN inbox : inbox[i].by \in Requests =>
    \A t \in inbox[i].tabs \ ForeignTabs :
      \/ t \in attached
      \/ DetachBehind(i, t)
      \/ \E j \in DOMAIN inbox : j > i /\ inbox[j].by = "sweep"

\* A command is about to be told that t is attached, and no event behind denies it.
WillBeTold(t) ==
  \E i \in DOMAIN inbox :
    /\ inbox[i].by \in Requests /\ inbox[i].tab = t /\ t \in inbox[i].tabs
    /\ ~DetachBehind(i, t)

\* A command was, or will be, told that t is attached, and has not registered it yet.
WillRegister(t) ==
  \/ \E i \in DOMAIN calls :
       calls[i].by \in Requests /\ calls[i].op = "getTargetInfo" /\ calls[i].tab = t
  \/ WillBeTold(t)

\* The startup reset will detach t.
WillReset(t) ==
  \/ t \in resetLeft
  \/ \E i \in DOMAIN calls :
       calls[i].by = "reset" /\ (calls[i].op = "detach" => calls[i].tab = t)
  \/ \E i \in DOMAIN inbox :
       inbox[i].by = "reset" /\ inbox[i].op = "getTargets" /\ t \in inbox[i].tabs

\* Without disconnections there is no sweep, and an attached tab is registered for
\* good, or will be unless a call fails, or will be detached by the reset unless a call
\* fails, or was left behind by one that failed.  One that was detached and attached
\* again is not registered for good: the event of its first session is on its way.
NoSessionLeft ==
  /\ disconnections = 0 /\ sweep = "idle" /\ connected
  /\ \A i \in DOMAIN inbox : inbox[i].op = "removed" => inbox[i].tab \notin open
  /\ resetLeft # {} => \/ \E i \in DOMAIN calls : calls[i].by = "reset" /\ calls[i].op = "detach"
                       \/ \E i \in DOMAIN inbox : inbox[i].by = "reset" /\ inbox[i].op # "getTargets"
  /\ \A t \in attached : DetachBehind(0, t) => WillBeTold(t)
  /\ \A t \in attached : \/ t \in registry /\ ~DetachBehind(0, t)
                         \/ WillRegister(t)
                         \/ WillReset(t)
                         \/ t \in stranded

TrackedInv ==
  /\ restarts = 0 => FirstResetIsHarmless /\ TruthOnItsWay
  /\ RegisteredIsAttached

Inv == TypeInv /\ OneCallPerFiber /\ OwnTab /\ TrackedInv /\ (losses = 0 => NoSessionLeft)

-----------------------------------------------------------------------------
(* Types.                                                                  *)

LEMMA TypeInit == Init => TypeInv
<1> SUFFICES ASSUME Init PROVE TypeInv
  OBVIOUS
<1>1. Call("reset", "getTargets", NoTab) \in Calls
  BY DEF Call, Calls, Fibers
<1>2. calls \in Seq(Calls) /\ inbox \in Seq(Results \cup Events)
  BY <1>1, EmptySeq DEF Init, StartupCalls
<1> QED BY <1>2, TabsConstants DEF Init, TypeInv, Waiting

\* What the browser tells of a call.
LEMMA ResultTyped ==
  ASSUME NEW c \in Calls, NEW tabs \in SUBSET Tabs
  PROVE  Result(c, tabs) \in Results
  BY DEF Result, Results, Calls

LEMMA EventTyped ==
  ASSUME NEW op \in {"detached", "removed"}, NEW t \in Tabs
  PROVE  Event(op, t) \in Events
  BY DEF Event, Events

LEMMA CallTyped ==
  ASSUME NEW by \in Fibers, NEW op \in {"getTargets", "attach", "getTargetInfo", "detach"},
         NEW t \in Tabs \cup {NoTab}
  PROVE  Call(by, op, t) \in Calls
  BY DEF Call, Calls

\* The browser answers c with m: what it found or did, or that c failed.
Answers(c, m) ==
  /\ m.by = c.by /\ m.tab = c.tab
  /\ \/ /\ c.op = "getTargets" /\ m.op = "getTargets"
        /\ m.tabs = attached \cup (ForeignTabs \cap open)
        /\ UNCHANGED <<attached, stranded>>
     \/ /\ c.op = "attach" /\ m.op = "attach" /\ m.tabs = {c.tab}
        /\ attached' = attached \cup {c.tab} /\ UNCHANGED stranded
     \/ /\ c.op = "getTargetInfo" /\ m.op = "getTargetInfo" /\ m.tabs = {c.tab}
        /\ c.tab \in attached /\ UNCHANGED <<attached, stranded>>
     \/ /\ c.op = "detach" /\ m.op = "detach" /\ m.tabs = {}
        /\ attached' = attached \ {c.tab} /\ stranded' = stranded \ {c.tab}
     \/ /\ m.op = "failed" /\ m.tabs = {} /\ UNCHANGED attached
        /\ stranded \subseteq stranded'
        /\ c.op \in {"getTargetInfo", "detach"} => {c.tab} \cap attached \subseteq stranded'
        /\ c.op = "getTargets" /\ c.by = "reset" => attached \subseteq stranded'

LEMMA Answered ==
  ASSUME TypeInv, NEW c \in Calls, Perform(c) \/ Fail(c)
  PROVE  /\ \E m \in Results : inbox' = Append(inbox, m) /\ Answers(c, m)
         /\ attached' \subseteq open /\ stranded' \subseteq Tabs /\ failures' \in Nat
<1>1. attached \subseteq Tabs /\ ForeignTabs \subseteq Tabs /\ failures \in Nat
  BY TabsConstants DEF TypeInv
<1>2. CASE Perform(c)
  <2>1. PICK tabs \in SUBSET Tabs :
          /\ inbox' = Append(inbox, Result(c, tabs))
          /\ \/ /\ c.op = "getTargets" /\ tabs = attached \cup (ForeignTabs \cap open)
                /\ UNCHANGED <<attached, stranded>>
             \/ /\ c.op = "attach" /\ tabs = {c.tab}
                /\ attached' = attached \cup {c.tab} /\ UNCHANGED stranded
             \/ /\ c.op = "getTargetInfo" /\ tabs = {c.tab}
                /\ c.tab \in attached /\ UNCHANGED <<attached, stranded>>
             \/ /\ c.op = "detach" /\ tabs = {}
                /\ attached' = attached \ {c.tab} /\ stranded' = stranded \ {c.tab}
    BY <1>1, <1>2 DEF Perform, Possible, TypeInv
  <2>2. Result(c, tabs) \in Results
    BY ResultTyped
  <2>3. Answers(c, Result(c, tabs))
    BY <2>1 DEF Answers, Result
  <2>4. attached' \subseteq open /\ stranded' \subseteq Tabs /\ failures' \in Nat
    BY <1>1, <1>2 DEF Perform, Possible, TypeInv
  <2> QED BY <2>1, <2>2, <2>3, <2>4
<1>3. CASE Fail(c)
  <2>1. /\ LeftBy(c) \subseteq attached
        /\ c.op \in {"getTargetInfo", "detach"} => LeftBy(c) = {c.tab} \cap attached
        /\ c.op = "getTargets" /\ c.by = "reset" => LeftBy(c) = attached
    BY DEF LeftBy
  <2>2. /\ Failure(c) \in Results
        /\ Failure(c).by = c.by /\ Failure(c).tab = c.tab
        /\ Failure(c).op = "failed" /\ Failure(c).tabs = {}
    BY DEF Failure, Result, Call, Results, Calls
  <2>3. Answers(c, Failure(c))
    BY <1>3, <2>1, <2>2 DEF Answers, Fail
  <2>4. attached' \subseteq open /\ stranded' \subseteq Tabs /\ failures' \in Nat
    BY <1>1, <1>3, <2>1 DEF Fail, TypeInv
  <2> QED BY <1>3, <2>2, <2>3, <2>4 DEF Fail
<1> QED BY <1>2, <1>3

\* Execute takes the first call c and adds the answer m.
LEMMA Executing ==
  ASSUME TypeInv, Execute
  PROVE  \E c \in Calls, m \in Results :
           /\ 1 \in DOMAIN calls /\ c = calls[1] /\ DOMAIN calls' \subseteq Nat \ {0}
           /\ \A i \in DOMAIN calls' : i + 1 \in DOMAIN calls /\ calls'[i] = calls[i + 1]
           /\ \A i \in DOMAIN calls : i > 1 => i - 1 \in DOMAIN calls' /\ calls'[i - 1] = calls[i]
           /\ Len(inbox) \in Nat
           /\ DOMAIN inbox = 1 .. Len(inbox) /\ DOMAIN inbox' = 1 .. Len(inbox) + 1
           /\ \A i \in DOMAIN inbox : inbox'[i] = inbox[i]
           /\ inbox'[Len(inbox) + 1] = m /\ Answers(c, m)
<1>1. /\ 1 \in DOMAIN calls /\ calls[1] \in Calls /\ Head(calls) = calls[1]
      /\ DOMAIN calls' \subseteq Nat \ {0}
      /\ \A i \in DOMAIN calls' : i + 1 \in DOMAIN calls /\ calls'[i] = calls[i + 1]
      /\ \A i \in DOMAIN calls : i > 1 => i - 1 \in DOMAIN calls' /\ calls'[i - 1] = calls[i]
  BY Advancing DEF Execute, TypeInv
<1>2. PICK c \in Calls : c = calls[1]
  BY <1>1
<1>3. PICK m \in Results : inbox' = Append(inbox, m) /\ Answers(c, m)
  BY <1>1, <1>2, Answered DEF Execute
<1>4. /\ Len(inbox) \in Nat
      /\ DOMAIN inbox = 1 .. Len(inbox) /\ DOMAIN inbox' = 1 .. Len(inbox) + 1
      /\ \A i \in DOMAIN inbox : inbox'[i] = inbox[i]
      /\ inbox'[Len(inbox) + 1] = m
  BY <1>3, Appending DEF TypeInv
<1> QED BY <1>1, <1>2, <1>3, <1>4

LEMMA TypeStep == TypeInv /\ OneCallPerFiber /\ [Next]_vars => TypeInv'
<1> SUFFICES ASSUME TypeInv, OneCallPerFiber, [Next]_vars PROVE TypeInv'
  OBVIOUS
<1> USE DEF TypeInv
<1>1. CASE Execute
  <2> DEFINE c == Head(calls)
  <2>1. c \in Calls /\ Tail(calls) \in Seq(Calls) /\ calls[1] = c /\ 1 \in DOMAIN calls
    BY <1>1, Advancing DEF Execute
  <2>2. /\ \E m \in Results : inbox' = Append(inbox, m)
        /\ attached' \subseteq open /\ stranded' \subseteq Tabs /\ failures' \in Nat
    BY <1>1, <2>1, Answered DEF Execute
  <2>3. inbox' \in Seq(Results \cup Events)
    BY <2>2, Appending
  <2> QED BY <1>1, <2>1, <2>2, <2>3 DEF Execute, fiberVars
<1>2. CASE Deliver
  <2> DEFINE m == Head(inbox)
  <2>1. /\ m \in Results \cup Events /\ Tail(inbox) \in Seq(Results \cup Events)
        /\ inbox[1] = m /\ 1 \in DOMAIN inbox
    BY <1>2, Advancing DEF Deliver
  <2>2. \A by \in Fibers, op \in {"getTargets", "attach", "getTargetInfo", "detach"},
           t \in Tabs \cup {NoTab} : Append(calls, Call(by, op, t)) \in Seq(Calls)
    BY CallTyped, Appending
  <2>3. inbox' \in Seq(Results \cup Events)
    BY <1>2, <2>1 DEF Deliver
  <2> HIDE DEF m
  <2>4. CASE m.by \in Requests /\ Continue(m.by, m)
    <3>1. target[m.by] \in Tabs
      BY <2>1, <2>4 DEF OneCallPerFiber, Matches
    <3>2. PICK x \in {"attach", "getTargetInfo", "ok", "failed"} : pc' = [pc EXCEPT ![m.by] = x]
      BY <2>4 DEF Continue, Register, NextCall, FailRequest
    <3>3. pc' \in [Requests -> Waiting \cup {"idle", "ok", "failed"}]
      BY <2>4, <3>2 DEF Waiting
    <3>4. Append(calls, Call(m.by, "attach", target[m.by])) \in Seq(Calls)
      BY <2>2, <2>4, <3>1 DEF Fibers
    <3>5. Append(calls, Call(m.by, "getTargetInfo", target[m.by])) \in Seq(Calls)
      BY <2>2, <2>4, <3>1 DEF Fibers
    <3>6. calls' \in Seq(Calls)
      BY <2>4, <3>4, <3>5 DEF Continue, Register, NextCall, FailRequest
    <3>7. registry' \subseteq Tabs /\ stranded' \subseteq Tabs
      BY <2>4, <3>1 DEF Continue, Register, NextCall, FailRequest
    <3> QED BY <1>2, <2>3, <2>4, <3>3, <3>6, <3>7 DEF Deliver, Continue, countVars
  <2>5. CASE m.by = "sweep" /\ ContinueSweep
    <3>1. \A t \in sweepLeft : Append(calls, Call("sweep", "detach", t)) \in Seq(Calls)
      BY <2>2 DEF Fibers
    <3>2. calls' \in Seq(Calls)
      BY <2>5, <3>1 DEF ContinueSweep, SweepOn
    <3> QED BY <1>2, <2>3, <2>5, <3>2 DEF Deliver, ContinueSweep, SweepOn, countVars
  <2>6. CASE m.by = "reset" /\ ContinueReset(m)
    <3>1. m.op = "getTargets" => m.tabs \subseteq Tabs
      BY <2>1 DEF Results, Events
    <3>2. \A t \in Tabs : Append(calls, Call("reset", "detach", t)) \in Seq(Calls)
      BY <2>2 DEF Fibers
    <3>3. calls' \in Seq(Calls) /\ resetLeft' \subseteq Tabs
      BY <2>6, <3>1, <3>2 DEF ContinueReset
    <3> QED BY <1>2, <2>3, <2>6, <3>3 DEF Deliver, ContinueReset, countVars
  <2>7. CASE m.by = "browser" /\ HandleEvent(m)
    BY <1>2, <2>3, <2>7 DEF Deliver, HandleEvent, countVars
  <2> QED BY <1>2, <2>4, <2>5, <2>6, <2>7 DEF Deliver, m
<1>3. ASSUME NEW t \in Tabs, CloseTab(t) PROVE TypeInv'
  <2>1. /\ Append(inbox, Event("removed", t)) \in Seq(Results \cup Events)
        /\ Append(inbox, Event("detached", t)) \in Seq(Results \cup Events)
    BY EventTyped, Appending
  <2>2. \A a, b \in Events : inbox \o <<a, b>> \in Seq(Results \cup Events)
    <3> TAKE a, b \in Events
    <3>1. <<a, b>> \in Seq(Results \cup Events)
      OBVIOUS
    <3> QED BY <3>1, ConcatProperties
  <2>3. inbox' \in Seq(Results \cup Events)
    BY <1>3, <2>1, <2>2, EventTyped DEF CloseTab
  <2> QED BY <1>3, <2>3 DEF CloseTab, fiberVars
<1>4. ASSUME NEW t \in Tabs, EndDebugging(t) PROVE TypeInv'
  <2>1. inbox' \in Seq(Results \cup Events)
    BY <1>4, EventTyped, Appending DEF EndDebugging
  <2> QED BY <1>4, <2>1 DEF EndDebugging, fiberVars
<1>5. ASSUME NEW r \in Requests, NEW t \in Tabs, Start(r, t) PROVE TypeInv'
  <2>1. calls' \in Seq(Calls)
    BY <1>5, CallTyped, Appending DEF Start, EnsureAttached, Fibers
  <2>2. /\ pc' \in [Requests -> Waiting \cup {"idle", "ok", "failed"}]
        /\ target' \in [Requests -> Tabs \cup {NoTab}]
    BY <1>5 DEF Start, EnsureAttached, Waiting
  <2> QED BY <1>5, <2>1, <2>2 DEF Start, countVars
<1>6. CASE StartSweep
  <2>1. \A t \in registry : Append(calls, Call("sweep", "detach", t)) \in Seq(Calls)
    BY CallTyped, Appending DEF Fibers
  <2>2. calls' \in Seq(Calls)
    BY <1>6, <2>1 DEF StartSweep, SweepOn
  <2> QED BY <1>6, <2>2 DEF StartSweep, SweepOn, countVars
<1>7. CASE LoseConnection
  <2>1. /\ losses' \in Nat /\ losses' <= MaxFaults /\ disconnections' \in Nat
        /\ disconnections' <= losses'
    BY <1>7, TabsConstants DEF LoseConnection
  <2> QED BY <1>7, <2>1 DEF LoseConnection, fiberVars
<1>8. CASE Connect
  BY <1>8 DEF Connect, fiberVars, countVars
<1>9. CASE RestartWorker
  <2>1. Call("reset", "getTargets", NoTab) \in Calls
    BY CallTyped DEF Fibers
  <2>2. calls' \in Seq(Calls) /\ inbox' \in Seq(Results \cup Events)
    BY <1>9, <2>1 DEF RestartWorker, StartupCalls
  <2>3. restarts' \in Nat
    BY <1>9 DEF RestartWorker
  <2> QED BY <1>9, <2>2, <2>3 DEF RestartWorker, Waiting
<1>10. CASE UNCHANGED vars
  BY <1>10 DEF vars, fiberVars, countVars
<1> QED BY <1>1, <1>2, <1>3, <1>4, <1>5, <1>6, <1>7, <1>8, <1>9, <1>10 DEF Next

-----------------------------------------------------------------------------
(* One call at a time.                                                     *)

LEMMA OneCallInit == Init => OneCallPerFiber
<1> SUFFICES ASSUME Init PROVE OneCallPerFiber
  OBVIOUS
<1>1. DOMAIN calls = {1} /\ calls[1] = Call("reset", "getTargets", NoTab) /\ DOMAIN inbox = {}
  BY DEF Init, StartupCalls
<1> QED BY <1>1, TabsConstants DEF OneCallPerFiber, Matches, Call

\* A fiber that no call or result is under way for makes a call, or none.
LEMMA OneMoreCall ==
  ASSUME NEW S, calls \in Seq(S), NEW c \in S,
         calls' = calls \/ (calls' = Append(calls, c) /\ Matches(c)'),
         \A x : Matches(x) /\ x.by # c.by => Matches(x)',
         \A i \in DOMAIN calls : calls[i].by # c.by /\ Matches(calls[i]),
         \A i \in DOMAIN inbox' : inbox'[i].by # c.by /\ Matches(inbox'[i]),
         \A i, j \in DOMAIN calls : calls[i].by = calls[j].by => i = j,
         \A i, j \in DOMAIN inbox' :
            inbox'[i].by = inbox'[j].by /\ inbox'[i].by # "browser" => i = j,
         \A i \in DOMAIN calls, j \in DOMAIN inbox' : calls[i].by # inbox'[j].by
  PROVE  OneCallPerFiber'
<1>1. \A i \in DOMAIN inbox' : Matches(inbox[i])'
  <2> TAKE i \in DOMAIN inbox'
  <2>1. PICK x : x = inbox'[i]
    OBVIOUS
  <2>2. Matches(x) /\ x.by # c.by
    BY <2>1
  <2>3. Matches(x)'
    BY <2>2
  <2> QED BY <2>1, <2>3 DEF Matches
<1>2. \A i \in DOMAIN calls : \A x : x = calls[i] => Matches(x)'
  OBVIOUS
<1>3. CASE calls' = calls
  <2>1. \A i \in DOMAIN calls' : Matches(calls[i])'
    <3> TAKE i \in DOMAIN calls'
    <3>1. PICK x : x = calls[i]
      OBVIOUS
    <3>2. Matches(x)'
      BY <1>2, <1>3, <3>1
    <3> QED BY <1>3, <3>1, <3>2 DEF Matches
  <2> QED BY <1>1, <1>3, <2>1 DEF OneCallPerFiber
<1>4. CASE calls' = Append(calls, c) /\ Matches(c)'
  <2>1. /\ Len(calls) \in Nat /\ DOMAIN calls = 1 .. Len(calls)
        /\ DOMAIN calls' = 1 .. Len(calls) + 1
        /\ \A i \in DOMAIN calls : calls'[i] = calls[i]
        /\ calls'[Len(calls) + 1] = c
    BY <1>4, Appending
  <2>2. \A i \in DOMAIN calls' : \/ i \in DOMAIN calls /\ calls'[i] = calls[i]
                                 \/ i = Len(calls) + 1 /\ calls'[i] = c
    BY <2>1
  <2>3. \A i \in DOMAIN calls' : Matches(calls[i])'
    <3> TAKE i \in DOMAIN calls'
    <3>1. PICK x : x = calls'[i]
      OBVIOUS
    <3>2. Matches(x)'
      BY <1>2, <1>4, <2>2, <3>1
    <3> QED BY <3>1, <3>2 DEF Matches
  <2>4. \A i, j \in DOMAIN calls' : calls'[i].by = calls'[j].by => i = j
    BY <2>2
  <2>5. \A i \in DOMAIN calls', j \in DOMAIN inbox' : calls'[i].by # inbox'[j].by
    BY <2>2
  <2> QED BY <1>1, <2>3, <2>4, <2>5 DEF OneCallPerFiber
<1> QED BY <1>3, <1>4

\* Events come behind what is in inbox.
LEMMA Told ==
  ASSUME inbox \in Seq(Results \cup Events), NEW t \in Tabs,
         \/ inbox' = inbox \o << Event("detached", t), Event("removed", t) >>
         \/ inbox' = inbox \o << Event("removed", t), Event("detached", t) >>
         \/ \E op \in {"detached", "removed"} : inbox' = Append(inbox, Event(op, t))
  PROVE  /\ Len(inbox) \in Nat /\ DOMAIN inbox = 1 .. Len(inbox)
         /\ DOMAIN inbox \subseteq DOMAIN inbox' /\ DOMAIN inbox' \subseteq Nat \ {0}
         /\ \A i \in DOMAIN inbox : inbox'[i] = inbox[i]
         /\ \A i \in DOMAIN inbox' \ DOMAIN inbox :
              /\ i > Len(inbox)
              /\ inbox'[i] \in {Event("detached", t), Event("removed", t)}
              /\ inbox'[i].by = "browser"
<1>1. /\ Len(inbox) \in Nat /\ DOMAIN inbox = 1 .. Len(inbox)
      /\ Event("detached", t) \in Events /\ Event("removed", t) \in Events
  BY LenProperties, EventTyped
<1>2. CASE \E op \in {"detached", "removed"} : inbox' = Append(inbox, Event(op, t))
  <2>1. PICK op \in {"detached", "removed"} : inbox' = Append(inbox, Event(op, t))
    BY <1>2
  <2>2. /\ DOMAIN inbox' = 1 .. Len(inbox) + 1
        /\ \A i \in DOMAIN inbox : inbox'[i] = inbox[i]
        /\ inbox'[Len(inbox) + 1] = Event(op, t)
    BY <1>1, <2>1, Appending
  <2> QED BY <1>1, <2>2 DEF Event
<1>3. ASSUME NEW a \in {Event("detached", t), Event("removed", t)},
             NEW b \in {Event("detached", t), Event("removed", t)},
             inbox' = inbox \o <<a, b>>
      PROVE  /\ DOMAIN inbox \subseteq DOMAIN inbox' /\ DOMAIN inbox' \subseteq Nat \ {0}
             /\ \A i \in DOMAIN inbox : inbox'[i] = inbox[i]
             /\ \A i \in DOMAIN inbox' \ DOMAIN inbox :
                  i > Len(inbox) /\ inbox'[i] \in {Event("detached", t), Event("removed", t)}
  <2>1. <<a, b>> \in Seq(Results \cup Events) /\ Len(<<a, b>>) = 2
    BY <1>1, <1>3
  <2>2. /\ DOMAIN inbox' = 1 .. Len(inbox) + 2
        /\ \A i \in 1 .. Len(inbox) + 2 :
             inbox'[i] = IF i <= Len(inbox) THEN inbox[i] ELSE <<a, b>>[i - Len(inbox)]
    BY <1>3, <2>1, ConcatProperties, LenProperties
  <2>3. \A i \in DOMAIN inbox' \ DOMAIN inbox : i - Len(inbox) \in {1, 2}
    BY <1>1, <2>2
  <2>4. \A k \in {1, 2} : <<a, b>>[k] \in {Event("detached", t), Event("removed", t)}
    BY <1>3
  <2> QED BY <1>1, <2>2, <2>3, <2>4
<1>4. Event("detached", t).by = "browser" /\ Event("removed", t).by = "browser"
  BY DEF Event
<1>5. CASE inbox' = inbox \o << Event("detached", t), Event("removed", t) >>
  BY <1>1, <1>3, <1>4, <1>5
<1>6. CASE inbox' = inbox \o << Event("removed", t), Event("detached", t) >>
  BY <1>1, <1>3, <1>4, <1>6
<1> QED BY <1>1, <1>2, <1>5, <1>6

\* Events change nothing for the fibers.
LEMMA NewsMatch ==
  ASSUME OneCallPerFiber, UNCHANGED <<calls, pc, target, sweep>>,
         \A i \in DOMAIN calls : calls[i].by # "browser",
         \A i \in DOMAIN inbox' : \/ i \in DOMAIN inbox /\ inbox'[i] = inbox[i]
                                  \/ inbox'[i].by = "browser"
  PROVE  OneCallPerFiber'
<1>1. \A i \in DOMAIN inbox' : Matches(inbox[i])'
  BY TabsConstants DEF OneCallPerFiber, Matches
<1>2. \A i \in DOMAIN calls' : Matches(calls[i])'
  BY DEF OneCallPerFiber, Matches
<1>3. \A i, j \in DOMAIN inbox' :
        inbox'[i].by = inbox'[j].by /\ inbox'[i].by # "browser" => i = j
  BY DEF OneCallPerFiber
<1>4. \A i \in DOMAIN calls', j \in DOMAIN inbox' : calls'[i].by # inbox'[j].by
  BY DEF OneCallPerFiber
<1> QED BY <1>1, <1>2, <1>3, <1>4 DEF OneCallPerFiber

LEMMA CallsAreOurs ==
  ASSUME calls \in Seq(Calls)
  PROVE  \A i \in DOMAIN calls : calls[i] \in Calls /\ calls[i].by # "browser"
<1>1. \A i \in DOMAIN calls : calls[i] \in Calls
  BY LenProperties, ElementOfSeq
<1> QED BY <1>1, TabsConstants DEF Calls, Fibers

LEMMA OneCallStep == TypeInv /\ OneCallPerFiber /\ [Next]_vars => OneCallPerFiber'
<1> SUFFICES ASSUME TypeInv, OneCallPerFiber, [Next]_vars PROVE OneCallPerFiber'
  OBVIOUS
<1>0. TypeInv'
  BY TypeStep
<1>1. CASE Execute
  <2>1. PICK c \in Calls, e \in Results :
          /\ 1 \in DOMAIN calls /\ c = calls[1] /\ DOMAIN calls' \subseteq Nat \ {0}
          /\ \A i \in DOMAIN calls' : i + 1 \in DOMAIN calls /\ calls'[i] = calls[i + 1]
          /\ Len(inbox) \in Nat
          /\ DOMAIN inbox = 1 .. Len(inbox) /\ DOMAIN inbox' = 1 .. Len(inbox) + 1
          /\ \A i \in DOMAIN inbox : inbox'[i] = inbox[i]
          /\ inbox'[Len(inbox) + 1] = e /\ Answers(c, e)
    BY <1>1, Executing
  <2>2. UNCHANGED <<pc, target, sweep>>
    BY <1>1 DEF Execute, fiberVars
  <2>3. e.by = c.by /\ e.op \in {c.op, "failed"} /\ e.tab = c.tab
    BY <2>1 DEF Answers
  <2>4. \A i \in DOMAIN inbox' : \/ i \in DOMAIN inbox /\ inbox'[i] = inbox[i]
                                 \/ i = Len(inbox) + 1 /\ inbox'[i] = e
    BY <2>1
  <2>5. \A i \in DOMAIN calls' : Matches(calls[i])'
    BY <2>1, <2>2 DEF OneCallPerFiber, Matches
  <2>6. Matches(c) /\ \A j \in DOMAIN inbox : inbox[j].by # c.by
    BY <2>1 DEF OneCallPerFiber
  <2>7. \A i \in DOMAIN inbox' : Matches(inbox[i])'
    BY <2>2, <2>3, <2>4, <2>6 DEF OneCallPerFiber, Matches
  <2>8. \A i, j \in DOMAIN calls' : calls'[i].by = calls'[j].by => i = j
    BY <2>1 DEF OneCallPerFiber
  <2>9. \A i, j \in DOMAIN inbox' :
            inbox'[i].by = inbox'[j].by /\ inbox'[i].by # "browser" => i = j
    BY <2>3, <2>4, <2>6 DEF OneCallPerFiber
  <2>10. \A i \in DOMAIN calls' : calls'[i].by # c.by
    BY <2>1 DEF OneCallPerFiber
  <2>11. \A i \in DOMAIN calls', j \in DOMAIN inbox' : calls'[i].by # inbox'[j].by
    BY <2>1, <2>3, <2>4, <2>10 DEF OneCallPerFiber
  <2> QED BY <2>5, <2>7, <2>8, <2>9, <2>11 DEF OneCallPerFiber
<1>2. CASE Deliver
  <2> DEFINE m == inbox[1]
  <2>1. /\ inbox # <<>> /\ inbox' = Tail(inbox) /\ Head(inbox) = m /\ m \in Results \cup Events
        /\ 1 \in DOMAIN inbox /\ DOMAIN inbox' \subseteq Nat \ {0}
        /\ \A i \in DOMAIN inbox' : i + 1 \in DOMAIN inbox /\ inbox'[i] = inbox[i + 1]
    BY <1>2, Advancing DEF Deliver, TypeInv
  <2>2. \/ m.by \in Requests /\ Continue(m.by, m)
        \/ m.by = "sweep" /\ ContinueSweep
        \/ m.by = "reset" /\ ContinueReset(m)
        \/ m.by = "browser" /\ HandleEvent(m)
    BY <1>2, <2>1 DEF Deliver
  <2>3. /\ Matches(m)
        /\ m.by # "browser" => /\ \A i \in DOMAIN calls : calls[i].by # m.by
                               /\ \A i \in DOMAIN inbox' : inbox'[i].by # m.by
        /\ \A i \in DOMAIN inbox' : Matches(inbox'[i])
    BY <2>1 DEF OneCallPerFiber
  <2>4. /\ \A i, j \in DOMAIN inbox' :
            inbox'[i].by = inbox'[j].by /\ inbox'[i].by # "browser" => i = j
        /\ \A i \in DOMAIN calls, j \in DOMAIN inbox' : calls[i].by # inbox'[j].by
    BY <2>1 DEF OneCallPerFiber
  <2> HIDE DEF m
  <2>5. CASE m.by \in Requests /\ Continue(m.by, m)
    <3>1. PICK x \in Waiting \cup {"ok", "failed"} :
            /\ pc' = [pc EXCEPT ![m.by] = x]
            /\ \/ calls' = calls
               \/ x \in Waiting /\ calls' = Append(calls, Call(m.by, x, target[m.by]))
      BY <2>5 DEF Continue, Register, NextCall, FailRequest, Waiting
    <3>2. target[m.by] \in Tabs /\ UNCHANGED <<target, sweep>> /\ pc'[m.by] = x
      BY <2>3, <2>5, <3>1 DEF Continue, Matches, TypeInv
    <3>3. PICK c \in Calls : /\ c.by = m.by
                             /\ calls' = calls \/ (calls' = Append(calls, c) /\ Matches(c)')
      <4>1. CASE calls' = calls
        <5>1. Call(m.by, "attach", target[m.by]) \in Calls
          BY <2>5, <3>2, CallTyped DEF Fibers
        <5> QED BY <4>1, <5>1 DEF Call
      <4>2. CASE x \in Waiting /\ calls' = Append(calls, Call(m.by, x, target[m.by]))
        <5>1. Call(m.by, x, target[m.by]) \in Calls
          BY <2>5, <3>2, <4>2, CallTyped DEF Fibers, Waiting
        <5>2. PICK c : c = Call(m.by, x, target[m.by])
          OBVIOUS
        <5>3. c.by = m.by /\ c.op = x /\ c.tab = target[m.by]
          BY <5>2 DEF Call
        <5>4. Matches(c)'
          BY <2>5, <3>2, <4>2, <5>3, TabsConstants DEF Matches
        <5> QED BY <4>2, <5>1, <5>2, <5>3, <5>4
      <4> QED BY <3>1, <4>1, <4>2
    <3>4. \A z : Matches(z) /\ z.by # c.by => Matches(z)'
      BY <2>5, <3>1, <3>2, <3>3 DEF Matches, TypeInv
    <3>5. m.by # "browser"
      BY <2>5, TabsConstants
    <3> QED BY <2>3, <2>4, <3>3, <3>4, <3>5, OneMoreCall DEF TypeInv, OneCallPerFiber
  <2>6. CASE m.by = "sweep" /\ ContinueSweep
    <3>1. UNCHANGED <<pc, target>>
      BY <2>6 DEF ContinueSweep
    <3>2. PICK c \in Calls : /\ c.by = "sweep"
                             /\ calls' = calls \/ (calls' = Append(calls, c) /\ Matches(c)')
      <4>1. CASE calls' = calls
        <5>1. Call("sweep", "detach", NoTab) \in Calls
          BY CallTyped DEF Fibers
        <5> QED BY <4>1, <5>1 DEF Call
      <4>2. CASE \E t \in sweepLeft : /\ sweep' = "running"
                                      /\ calls' = Append(calls, Call("sweep", "detach", t))
        <5>1. PICK t \in sweepLeft : /\ sweep' = "running"
                                     /\ calls' = Append(calls, Call("sweep", "detach", t))
          BY <4>2
        <5>2. PICK c : c = Call("sweep", "detach", t)
          OBVIOUS
        <5>3. c.by = "sweep" /\ c.op = "detach" /\ c.tab = t /\ t \in Tabs
          BY <5>2 DEF Call, TypeInv
        <5>4. c \in Calls
          BY <5>2, <5>3, CallTyped DEF Fibers
        <5>5. Matches(c)'
          BY <5>1, <5>3, TabsConstants DEF Matches
        <5> QED BY <5>1, <5>2, <5>3, <5>4, <5>5
      <4> QED BY <2>6, <4>1, <4>2 DEF ContinueSweep, SweepOn
    <3>3. \A z : Matches(z) /\ z.by # c.by => Matches(z)'
      BY <3>1, <3>2 DEF Matches
    <3> QED BY <2>3, <2>4, <2>6, <3>2, <3>3, OneMoreCall DEF TypeInv, OneCallPerFiber
  <2>7. CASE m.by = "reset" /\ ContinueReset(m)
    <3>1. UNCHANGED <<pc, target, sweep>>
      BY <2>7 DEF ContinueReset
    <3>2. PICK c \in Calls : /\ c.by = "reset"
                             /\ calls' = calls \/ (calls' = Append(calls, c) /\ Matches(c)')
      <4>1. CASE calls' = calls
        <5>1. Call("reset", "detach", NoTab) \in Calls
          BY CallTyped DEF Fibers
        <5> QED BY <4>1, <5>1 DEF Call
      <4>2. CASE \E t \in Tabs : calls' = Append(calls, Call("reset", "detach", t))
        <5>1. PICK t \in Tabs : calls' = Append(calls, Call("reset", "detach", t))
          BY <4>2
        <5>2. PICK c : c = Call("reset", "detach", t)
          OBVIOUS
        <5>3. c.by = "reset" /\ c.op = "detach" /\ c.tab = t
          BY <5>2 DEF Call
        <5>4. c \in Calls
          BY <5>2, <5>3, CallTyped DEF Fibers
        <5>5. Matches(c)'
          BY <5>1, <5>3, TabsConstants DEF Matches
        <5> QED BY <5>1, <5>2, <5>3, <5>4, <5>5
      <4>3. \A t \in (IF m.op = "getTargets" THEN m.tabs ELSE resetLeft) : t \in Tabs
        BY <2>1 DEF Results, Events, TypeInv
      <4> QED BY <2>7, <4>1, <4>2, <4>3 DEF ContinueReset
    <3>3. \A z : Matches(z) /\ z.by # c.by => Matches(z)'
      BY <3>1 DEF Matches
    <3> QED BY <2>3, <2>4, <2>7, <3>2, <3>3, OneMoreCall DEF TypeInv, OneCallPerFiber
  <2>8. CASE m.by = "browser" /\ HandleEvent(m)
    BY <2>1, <2>8 DEF HandleEvent, OneCallPerFiber, Matches
  <2> QED BY <2>2, <2>5, <2>6, <2>7, <2>8
<1>3. ASSUME NEW t \in Tabs, CloseTab(t) PROVE OneCallPerFiber'
  <2>1. inbox \in Seq(Results \cup Events) /\ UNCHANGED <<calls, pc, target, sweep>>
    BY <1>3 DEF CloseTab, fiberVars, TypeInv
  <2>2. \A i \in DOMAIN inbox' : \/ i \in DOMAIN inbox /\ inbox'[i] = inbox[i]
                                 \/ inbox'[i].by = "browser"
    BY <1>3, <2>1, Told DEF CloseTab
  <2> QED BY <2>1, <2>2, NewsMatch, CallsAreOurs DEF TypeInv
<1>4. ASSUME NEW t \in Tabs, EndDebugging(t) PROVE OneCallPerFiber'
  <2>1. inbox \in Seq(Results \cup Events) /\ UNCHANGED <<calls, pc, target, sweep>>
    BY <1>4 DEF EndDebugging, fiberVars, TypeInv
  <2>2. \A i \in DOMAIN inbox' : \/ i \in DOMAIN inbox /\ inbox'[i] = inbox[i]
                                 \/ inbox'[i].by = "browser"
    BY <1>4, <2>1, Told DEF EndDebugging
  <2> QED BY <2>1, <2>2, NewsMatch, CallsAreOurs DEF TypeInv
<1>5. ASSUME NEW r \in Requests, NEW t \in Tabs, Start(r, t) PROVE OneCallPerFiber'
  <2>1. /\ pc[r] \notin Waiting /\ UNCHANGED <<inbox, sweep>>
        /\ \A q \in Requests : q # r => pc'[q] = pc[q] /\ target'[q] = target[q]
    BY <1>5 DEF Start, EnsureAttached, TypeInv
  <2>2. /\ \A i \in DOMAIN calls : calls[i].by # r
        /\ \A i \in DOMAIN inbox : inbox[i].by # r
    BY <2>1 DEF OneCallPerFiber, Matches
  <2>3. PICK c \in Calls : /\ c.by = r
                           /\ calls' = calls \/ (calls' = Append(calls, c) /\ Matches(c)')
    <3>1. CASE calls' = calls
      <4>1. Call(r, "getTargets", t) \in Calls
        BY CallTyped DEF Fibers
      <4> QED BY <3>1, <4>1 DEF Call
    <3>2. CASE pc' = [pc EXCEPT ![r] = "getTargets"] /\
                   calls' = Append(calls, Call(r, "getTargets", t))
      <4>1. PICK c : c = Call(r, "getTargets", t)
        OBVIOUS
      <4>2. c.by = r /\ c.op = "getTargets" /\ c.tab = t
        BY <4>1 DEF Call
      <4>3. c \in Calls
        BY <4>1, CallTyped DEF Fibers
      <4>4. pc'[r] = "getTargets" /\ target'[r] = t
        BY <1>5, <3>2 DEF Start, TypeInv
      <4>5. Matches(c)'
        BY <4>2, <4>4, TabsConstants DEF Matches, Waiting
      <4> QED BY <3>2, <4>1, <4>2, <4>3, <4>5
    <3> QED BY <1>5, <3>1, <3>2 DEF Start, EnsureAttached
  <2>4. \A z : Matches(z) /\ z.by # c.by => Matches(z)'
    BY <2>1, <2>3 DEF Matches
  <2> QED BY <2>1, <2>2, <2>3, <2>4, OneMoreCall DEF TypeInv, OneCallPerFiber
<1>6. CASE StartSweep
  <2>1. sweep = "idle" /\ UNCHANGED <<inbox, pc, target>>
    BY <1>6 DEF StartSweep
  <2>2. /\ \A i \in DOMAIN calls : calls[i].by # "sweep"
        /\ \A i \in DOMAIN inbox : inbox[i].by # "sweep"
    BY <2>1 DEF OneCallPerFiber, Matches
  <2>3. PICK c \in Calls : /\ c.by = "sweep"
                           /\ calls' = calls \/ (calls' = Append(calls, c) /\ Matches(c)')
    <3>1. CASE calls' = calls
      <4>1. Call("sweep", "detach", NoTab) \in Calls
        BY CallTyped DEF Fibers
      <4> QED BY <3>1, <4>1 DEF Call
    <3>2. CASE \E t \in registry : /\ sweep' = "running"
                                   /\ calls' = Append(calls, Call("sweep", "detach", t))
      <4>1. PICK t \in registry : /\ sweep' = "running"
                                  /\ calls' = Append(calls, Call("sweep", "detach", t))
        BY <3>2
      <4>2. PICK c : c = Call("sweep", "detach", t)
        OBVIOUS
      <4>3. c.by = "sweep" /\ c.op = "detach" /\ c.tab = t /\ t \in Tabs
        BY <4>2 DEF Call, TypeInv
      <4>4. c \in Calls
        BY <4>2, <4>3, CallTyped DEF Fibers
      <4>5. Matches(c)'
        BY <4>1, <4>3, TabsConstants DEF Matches
      <4> QED BY <4>1, <4>2, <4>3, <4>4, <4>5
    <3> QED BY <1>6, <3>1, <3>2 DEF StartSweep, SweepOn
  <2>4. \A z : Matches(z) /\ z.by # c.by => Matches(z)'
    BY <2>1, <2>3 DEF Matches
  <2> QED BY <2>1, <2>2, <2>3, <2>4, OneMoreCall DEF TypeInv, OneCallPerFiber
<1>7. CASE LoseConnection
  BY <1>7 DEF LoseConnection, fiberVars, OneCallPerFiber, Matches
<1>8. CASE Connect
  BY <1>8 DEF Connect, fiberVars, OneCallPerFiber, Matches
<1>9. CASE RestartWorker
  <2>1. DOMAIN calls' = {1} /\ calls'[1] = Call("reset", "getTargets", NoTab) /\ DOMAIN inbox' = {}
    BY <1>9 DEF RestartWorker, StartupCalls
  <2> QED BY <2>1, TabsConstants DEF OneCallPerFiber, Matches, Call
<1>10. CASE UNCHANGED vars
  BY <1>10 DEF vars, fiberVars, OneCallPerFiber, Matches
<1> QED BY <1>1, <1>2, <1>3, <1>4, <1>5, <1>6, <1>7, <1>8, <1>9, <1>10 DEF Next

-----------------------------------------------------------------------------
(* What a step does to calls and inbox.                                    *)

\* Every item is a result of a fiber or an event of the browser.
LEMMA InboxTyped ==
  ASSUME TypeInv
  PROVE  /\ DOMAIN inbox \subseteq Nat \ {0}
         /\ \A i \in DOMAIN inbox :
              /\ inbox[i] \in Results \cup Events
              /\ inbox[i].op = "detached" => inbox[i].by = "browser"
              /\ inbox[i].op = "removed" => inbox[i].by = "browser"
<1>1. DOMAIN inbox = 1 .. Len(inbox) /\ \A i \in DOMAIN inbox : inbox[i] \in Results \cup Events
  BY LenProperties, ElementOfSeq DEF TypeInv
<1> QED BY <1>1 DEF Results, Events

\* Deliver takes the first item m.
LEMMA Delivering ==
  ASSUME TypeInv, Deliver
  PROVE  \E m \in Results \cup Events :
           /\ 1 \in DOMAIN inbox /\ m = inbox[1] /\ DOMAIN inbox' \subseteq Nat \ {0}
           /\ \A i \in DOMAIN inbox' : i + 1 \in DOMAIN inbox /\ inbox'[i] = inbox[i + 1]
           /\ \A i \in DOMAIN inbox : i > 1 => i - 1 \in DOMAIN inbox' /\ inbox'[i - 1] = inbox[i]
           /\ \/ m.by \in Requests /\ Continue(m.by, m)
              \/ m.by = "sweep" /\ ContinueSweep
              \/ m.by = "reset" /\ ContinueReset(m)
              \/ m.by = "browser" /\ HandleEvent(m)
           /\ UNCHANGED <<open, attached, connected, disconnections, losses, restarts>>
  BY Advancing DEF Deliver, TypeInv, countVars

\* A fiber's next call comes behind the calls made before.
LEMMA Calling ==
  ASSUME TypeInv, NEW by \in Fibers,
         NEW op \in {"getTargets", "attach", "getTargetInfo", "detach"},
         NEW t \in Tabs \cup {NoTab}, calls' = Append(calls, Call(by, op, t))
  PROVE  /\ Len(calls) \in Nat /\ DOMAIN calls = 1 .. Len(calls)
         /\ DOMAIN calls' = 1 .. Len(calls) + 1
         /\ \A i \in DOMAIN calls : calls'[i] = calls[i]
         /\ calls'[Len(calls) + 1].by = by /\ calls'[Len(calls) + 1].op = op
         /\ calls'[Len(calls) + 1].tab = t
<1>1. /\ Len(calls) \in Nat /\ DOMAIN calls = 1 .. Len(calls)
      /\ DOMAIN calls' = 1 .. Len(calls) + 1
      /\ \A i \in DOMAIN calls : calls'[i] = calls[i]
      /\ calls'[Len(calls) + 1] = Call(by, op, t)
  BY CallTyped, Appending DEF TypeInv
<1> QED BY <1>1 DEF Call

LEMMA OwnTabInit == Init => OwnTab
  BY DEF Init, OwnTab

LEMMA OwnTabStep == TypeInv /\ OneCallPerFiber /\ OwnTab /\ [Next]_vars => OwnTab'
<1> SUFFICES ASSUME TypeInv, OneCallPerFiber, OwnTab, [Next]_vars PROVE OwnTab'
  OBVIOUS
<1>1. CASE Execute
  <2>1. PICK c \in Calls, m \in Results :
          /\ DOMAIN inbox = 1 .. Len(inbox) /\ DOMAIN inbox' = 1 .. Len(inbox) + 1
          /\ Len(inbox) \in Nat
          /\ \A i \in DOMAIN inbox : inbox'[i] = inbox[i]
          /\ inbox'[Len(inbox) + 1] = m /\ Answers(c, m)
    BY <1>1, Executing
  <2>2. \A i \in DOMAIN inbox' : \/ i \in DOMAIN inbox /\ inbox'[i] = inbox[i]
                                 \/ inbox'[i] = m
    BY <2>1
  <2>3. /\ m.op \in {"attach", "getTargetInfo"} => m.tabs = {m.tab}
        /\ m.op = "failed" => m.tabs = {}
    BY <2>1 DEF Answers
  <2> QED BY <2>2, <2>3 DEF OwnTab
<1>2. CASE Deliver
  BY <1>2, Delivering DEF OwnTab
<1>3. ASSUME NEW t \in Tabs, CloseTab(t) \/ EndDebugging(t) PROVE OwnTab'
  <2>1. \A i \in DOMAIN inbox' : \/ i \in DOMAIN inbox /\ inbox'[i] = inbox[i]
                                 \/ inbox'[i] \in {Event("detached", t), Event("removed", t)}
    BY <1>3, Told DEF CloseTab, EndDebugging, TypeInv
  <2>2. \A i \in DOMAIN inbox' : \/ i \in DOMAIN inbox /\ inbox'[i] = inbox[i]
                                 \/ inbox'[i].op \in {"detached", "removed"}
    BY <2>1 DEF Event
  <2> QED BY <2>2 DEF OwnTab
<1>4. CASE inbox' = inbox
  BY <1>4 DEF OwnTab
<1>5. CASE RestartWorker
  BY <1>5 DEF RestartWorker, OwnTab
<1> QED BY <1>1, <1>2, <1>3, <1>4, <1>5
        DEF Next, vars, Start, StartSweep, LoseConnection, Connect

-----------------------------------------------------------------------------
(* While the worker lives, a registered tab is attached.                   *)

LEMMA TrackedInit == Init => TrackedInv
<1> SUFFICES ASSUME Init PROVE TrackedInv
  OBVIOUS
<1>1. DOMAIN calls = {1} /\ calls[1].op = "getTargets" /\ DOMAIN inbox = {}
  BY DEF Init, StartupCalls, Call
<1> QED BY <1>1
        DEF Init, TrackedInv, FirstResetIsHarmless, TruthOnItsWay, RegisteredIsAttached, Tracks

\* restarts counts the restarts of the worker.
LEMMA NotRestarted ==
  ASSUME TypeInv, [Next]_vars, restarts' = 0
  PROVE  restarts = 0 /\ ~RestartWorker
<1>1. ~RestartWorker
  BY DEF RestartWorker, TypeInv
<1> QED BY <1>1
        DEF Next, vars, countVars, Execute, Deliver, CloseTab, EndDebugging, Start, StartSweep,
                    LoseConnection, Connect

\* The event that a tab is no longer attached is sent when it is detached.
LEMMA DetachTold ==
  ASSUME TypeInv, NEW t \in Tabs, CloseTab(t) \/ EndDebugging(t)
  PROVE  /\ attached' = attached \ {t}
         /\ t \in attached => \E j \in DOMAIN inbox' :
                                /\ j > Len(inbox)
                                /\ inbox'[j].op = "detached" /\ inbox'[j].tab = t
<1>0. /\ attached' = attached \ {t}
      /\ t \in attached =>
           \/ inbox' = inbox \o << Event("detached", t), Event("removed", t) >>
           \/ inbox' = inbox \o << Event("removed", t), Event("detached", t) >>
           \/ inbox' = Append(inbox, Event("detached", t))
  BY DEF CloseTab, EndDebugging
<1>1. /\ Len(inbox) \in Nat
      /\ Event("detached", t) \in Events /\ Event("removed", t) \in Events
      /\ Event("detached", t).op = "detached" /\ Event("detached", t).tab = t
  BY LenProperties, EventTyped DEF TypeInv, Event
<1>2. ASSUME NEW a \in Events, NEW b \in Events, inbox' = inbox \o <<a, b>>
      PROVE  /\ Len(inbox) + 1 \in DOMAIN inbox' /\ inbox'[Len(inbox) + 1] = a
             /\ Len(inbox) + 2 \in DOMAIN inbox' /\ inbox'[Len(inbox) + 2] = b
  <2>1. <<a, b>> \in Seq(Results \cup Events) /\ Len(<<a, b>>) = 2
    OBVIOUS
  <2>2. /\ DOMAIN inbox' = 1 .. Len(inbox) + 2
        /\ \A i \in 1 .. Len(inbox) + 2 :
             inbox'[i] = IF i <= Len(inbox) THEN inbox[i] ELSE <<a, b>>[i - Len(inbox)]
    BY <1>2, <2>1, ConcatProperties, LenProperties DEF TypeInv
  <2> QED BY <1>1, <2>2
<1>3. CASE inbox' = inbox \o << Event("detached", t), Event("removed", t) >>
  <2>1. Len(inbox) + 1 \in DOMAIN inbox' /\ inbox'[Len(inbox) + 1] = Event("detached", t)
    BY <1>1, <1>2, <1>3
  <2> QED BY <1>0, <1>1, <2>1
<1>4. CASE inbox' = inbox \o << Event("removed", t), Event("detached", t) >>
  <2>1. Len(inbox) + 2 \in DOMAIN inbox' /\ inbox'[Len(inbox) + 2] = Event("detached", t)
    BY <1>1, <1>2, <1>4
  <2> QED BY <1>0, <1>1, <2>1
<1>5. CASE inbox' = Append(inbox, Event("detached", t))
  <2>1. Len(inbox) + 1 \in DOMAIN inbox' /\ inbox'[Len(inbox) + 1] = Event("detached", t)
    BY <1>1, <1>5, Appending DEF TypeInv
  <2> QED BY <1>0, <1>1, <2>1
<1> QED BY <1>0, <1>3, <1>4, <1>5

\* Only a sweep detaches tabs that no other debugger is attached to.
LEMMA ResetStep ==
  TypeInv /\ OneCallPerFiber /\ TrackedInv /\ [Next]_vars /\ restarts' = 0
    => FirstResetIsHarmless'
<1> SUFFICES ASSUME TypeInv, OneCallPerFiber, TrackedInv, [Next]_vars, restarts' = 0
             PROVE  FirstResetIsHarmless'
  OBVIOUS
<1>0. FirstResetIsHarmless /\ ~RestartWorker
  BY NotRestarted DEF TrackedInv
<1>1. CASE Execute
  <2>1. UNCHANGED resetLeft
    BY <1>1 DEF Execute, fiberVars
  <2>2. PICK c \in Calls, m \in Results :
          /\ 1 \in DOMAIN calls /\ c = calls[1] /\ DOMAIN calls' \subseteq Nat \ {0}
          /\ \A i \in DOMAIN calls' : i + 1 \in DOMAIN calls /\ calls'[i] = calls[i + 1]
          /\ Len(inbox) \in Nat
          /\ DOMAIN inbox = 1 .. Len(inbox) /\ DOMAIN inbox' = 1 .. Len(inbox) + 1
          /\ \A i \in DOMAIN inbox : inbox'[i] = inbox[i]
          /\ inbox'[Len(inbox) + 1] = m /\ Answers(c, m)
    BY <1>1, Executing
  <2>3. \A i \in DOMAIN calls' : calls'[i].by = "reset" =>
          calls'[i].op = "detach" /\ calls'[i].tab \in ForeignTabs
    BY <1>0, <2>2 DEF FirstResetIsHarmless, OneCallPerFiber
  <2>4. m.by = "reset" /\ m.op = "getTargets" => m.tabs \subseteq ForeignTabs
    BY <1>0, <2>2 DEF FirstResetIsHarmless, Answers
  <2>5. \A i \in DOMAIN inbox' :
          inbox'[i].by = "reset" /\ inbox'[i].op = "getTargets" =>
              inbox'[i].tabs \subseteq ForeignTabs
    BY <1>0, <2>2, <2>4 DEF FirstResetIsHarmless
  <2> QED BY <1>0, <2>1, <2>3, <2>5 DEF FirstResetIsHarmless
<1>2. CASE Deliver
  <2>1. PICK m \in Results \cup Events :
          /\ 1 \in DOMAIN inbox /\ m = inbox[1]
          /\ \A i \in DOMAIN inbox' : i + 1 \in DOMAIN inbox /\ inbox'[i] = inbox[i + 1]
          /\ \/ m.by \in Requests /\ Continue(m.by, m)
             \/ m.by = "sweep" /\ ContinueSweep
             \/ m.by = "reset" /\ ContinueReset(m)
             \/ m.by = "browser" /\ HandleEvent(m)
          /\ UNCHANGED attached
    BY <1>2, Delivering
  <2>2. \A i \in DOMAIN inbox' :
          inbox'[i].by = "reset" /\ inbox'[i].op = "getTargets" =>
              inbox'[i].tabs \subseteq ForeignTabs
    BY <1>0, <2>1 DEF FirstResetIsHarmless
  <2>3. CASE calls' = calls /\ UNCHANGED resetLeft
    BY <1>0, <2>1, <2>2, <2>3 DEF FirstResetIsHarmless
  <2>4. ASSUME NEW by \in Fibers, NEW op \in {"getTargets", "attach", "getTargetInfo", "detach"},
               NEW t \in Tabs \cup {NoTab}, calls' = Append(calls, Call(by, op, t)),
               by = "reset" => op = "detach" /\ t \in ForeignTabs
        PROVE  \A i \in DOMAIN calls' :
                 calls'[i].by = "reset" =>
                   \/ calls'[i].op = "getTargets" /\ i = 1 /\ attached' = {}
                   \/ calls'[i].op = "detach" /\ calls'[i].tab \in ForeignTabs
    <3>1. \A i \in DOMAIN calls' : \/ i \in DOMAIN calls /\ calls'[i] = calls[i]
                                   \/ calls'[i].by = by /\ calls'[i].op = op /\ calls'[i].tab = t
      BY <2>4, Calling
    <3> QED BY <1>0, <2>1, <2>4, <3>1 DEF FirstResetIsHarmless
  <2>5. CASE m.by \in Requests /\ Continue(m.by, m)
    <3>1. UNCHANGED resetLeft
      BY <2>5 DEF Continue
    <3>2. PICK x \in {"attach", "getTargetInfo"} :
            calls' = calls \/ calls' = Append(calls, Call(m.by, x, target[m.by]))
      BY <2>5 DEF Continue, Register, NextCall, FailRequest
    <3>3. m.by \in Fibers /\ m.by # "reset" /\ target[m.by] \in Tabs \cup {NoTab}
      BY <2>5, TabsConstants DEF Fibers, TypeInv
    <3>4. CASE calls' = Append(calls, Call(m.by, x, target[m.by]))
      BY <1>0, <2>2, <2>4, <3>1, <3>3, <3>4 DEF FirstResetIsHarmless
    <3> QED BY <2>3, <3>1, <3>2, <3>4
  <2>6. CASE m.by = "sweep" /\ ContinueSweep
    <3>1. UNCHANGED resetLeft
      BY <2>6 DEF ContinueSweep
    <3>2. calls' = calls \/ \E t \in Tabs : calls' = Append(calls, Call("sweep", "detach", t))
      BY <2>6 DEF ContinueSweep, SweepOn, TypeInv
    <3>3. CASE \E t \in Tabs : calls' = Append(calls, Call("sweep", "detach", t))
      BY <1>0, <2>2, <2>4, <3>1, <3>3 DEF FirstResetIsHarmless, Fibers
    <3> QED BY <2>3, <3>1, <3>2, <3>3
  <2>7. CASE m.by = "reset" /\ ContinueReset(m)
    <3> DEFINE left == IF m.op = "getTargets" THEN m.tabs ELSE resetLeft
    <3>1. left \subseteq ForeignTabs
      BY <1>0, <2>1, <2>7 DEF FirstResetIsHarmless
    <3>2. \/ UNCHANGED <<resetLeft, calls>>
          \/ \E t \in left : /\ resetLeft' = left \ {t}
                             /\ calls' = Append(calls, Call("reset", "detach", t))
      BY <2>7 DEF ContinueReset
    <3> HIDE DEF left
    <3>3. CASE \E t \in left : /\ resetLeft' = left \ {t}
                               /\ calls' = Append(calls, Call("reset", "detach", t))
      <4>1. PICK t \in left : /\ resetLeft' = left \ {t}
                              /\ calls' = Append(calls, Call("reset", "detach", t))
        BY <3>3
      <4>2. t \in ForeignTabs /\ t \in Tabs \cup {NoTab}
        BY <3>1, TabsConstants
      <4>3. "reset" \in Fibers
        BY DEF Fibers
      <4> QED BY <2>2, <2>4, <3>1, <4>1, <4>2, <4>3 DEF FirstResetIsHarmless
    <3> QED BY <2>3, <3>2, <3>3
  <2>8. CASE m.by = "browser" /\ HandleEvent(m)
    BY <2>3, <2>8 DEF HandleEvent
  <2> QED BY <2>1, <2>5, <2>6, <2>7, <2>8
<1>3. ASSUME NEW t \in Tabs, CloseTab(t) \/ EndDebugging(t) PROVE FirstResetIsHarmless'
  <2>1. \A i \in DOMAIN inbox' : \/ i \in DOMAIN inbox /\ inbox'[i] = inbox[i]
                                 \/ inbox'[i].by = "browser"
    BY <1>3, Told DEF CloseTab, EndDebugging, TypeInv
  <2>2. UNCHANGED <<calls, resetLeft>> /\ attached' \subseteq attached
    BY <1>3 DEF CloseTab, EndDebugging, fiberVars
  <2> QED BY <1>0, <2>1, <2>2 DEF FirstResetIsHarmless
<1>4. ASSUME NEW r \in Requests, NEW t \in Tabs, Start(r, t) PROVE FirstResetIsHarmless'
  <2>1. UNCHANGED <<inbox, resetLeft, attached>>
    BY <1>4 DEF Start
  <2>2. calls' = calls \/ calls' = Append(calls, Call(r, "getTargets", t))
    BY <1>4 DEF Start, EnsureAttached
  <2>3. r \in Fibers /\ r # "reset"
    BY TabsConstants DEF Fibers
  <2>4. CASE calls' = Append(calls, Call(r, "getTargets", t))
    <3>1. \A i \in DOMAIN calls' : \/ i \in DOMAIN calls /\ calls'[i] = calls[i]
                                   \/ calls'[i].by = r
      BY <2>3, <2>4, Calling
    <3> QED BY <1>0, <2>1, <2>3, <3>1 DEF FirstResetIsHarmless
  <2> QED BY <1>0, <2>1, <2>2, <2>4 DEF FirstResetIsHarmless
<1>5. CASE StartSweep
  <2>1. UNCHANGED <<inbox, resetLeft, attached>>
    BY <1>5 DEF StartSweep
  <2>2. calls' = calls \/ \E t \in Tabs : calls' = Append(calls, Call("sweep", "detach", t))
    BY <1>5 DEF StartSweep, SweepOn, TypeInv
  <2>3. CASE \E t \in Tabs : calls' = Append(calls, Call("sweep", "detach", t))
    <3>1. \A i \in DOMAIN calls' : \/ i \in DOMAIN calls /\ calls'[i] = calls[i]
                                   \/ calls'[i].by = "sweep"
      <4>1. "sweep" \in Fibers
        BY DEF Fibers
      <4> QED BY <2>3, <4>1, Calling
    <3> QED BY <1>0, <2>1, <3>1 DEF FirstResetIsHarmless
  <2> QED BY <1>0, <2>1, <2>2, <2>3 DEF FirstResetIsHarmless
<1>6. CASE UNCHANGED <<inbox, calls, resetLeft, attached>>
  BY <1>0, <1>6 DEF FirstResetIsHarmless
<1> QED BY <1>0, <1>1, <1>2, <1>3, <1>4, <1>5, <1>6
        DEF Next, vars, fiberVars, LoseConnection, Connect

\* What a command is told of its tab is true when it is told.
LEMMA TruthStep ==
  TypeInv /\ OneCallPerFiber /\ OwnTab /\ TrackedInv /\ [Next]_vars /\ restarts' = 0
    => TruthOnItsWay'
<1> SUFFICES ASSUME TypeInv, OneCallPerFiber, OwnTab, TrackedInv, [Next]_vars, restarts' = 0
             PROVE  TruthOnItsWay'
  OBVIOUS
<1>0. TruthOnItsWay /\ FirstResetIsHarmless /\ ~RestartWorker
  BY NotRestarted DEF TrackedInv
<1>1. CASE Execute
  <2>0. PICK c \in Calls, m \in Results :
          /\ 1 \in DOMAIN calls /\ c = calls[1]
          /\ Len(inbox) \in Nat
          /\ DOMAIN inbox = 1 .. Len(inbox) /\ DOMAIN inbox' = 1 .. Len(inbox) + 1
          /\ \A i \in DOMAIN inbox : inbox'[i] = inbox[i]
          /\ inbox'[Len(inbox) + 1] = m /\ Answers(c, m)
    BY <1>1, Executing
  <2>1. /\ m.by = c.by /\ m.tabs \subseteq attached' \cup ForeignTabs
        /\ attached \subseteq attached' \cup (IF c.op = "detach" THEN {c.tab} ELSE {})
    BY <2>0 DEF Answers
  <2>2. c.op = "detach" => c.by = "sweep" \/ c.tab \in ForeignTabs
    BY <1>0, <2>0, <2>1 DEF FirstResetIsHarmless, OneCallPerFiber, Matches, Waiting, Calls, Fibers
  <2>3. \A i \in DOMAIN inbox, t \in Tabs :
          /\ DetachBehind(i, t) => DetachBehind(i, t)'
          /\ (\E j \in DOMAIN inbox : j > i /\ inbox[j].by = "sweep")
               => \E j \in DOMAIN inbox' : j > i /\ inbox'[j].by = "sweep"
    BY <2>0, <2>1 DEF DetachBehind
  <2>4. c.by = "sweep" =>
          \A i \in DOMAIN inbox : \E j \in DOMAIN inbox' : j > i /\ inbox'[j].by = "sweep"
    BY <2>0, <2>1
  <2> SUFFICES ASSUME NEW i \in DOMAIN inbox', inbox'[i].by \in Requests,
                      NEW t \in inbox'[i].tabs \ ForeignTabs
               PROVE  \/ t \in attached'
                      \/ DetachBehind(i, t)'
                      \/ \E j \in DOMAIN inbox' : j > i /\ inbox'[j].by = "sweep"
    BY DEF TruthOnItsWay
  <2>5. CASE i = Len(inbox) + 1
    BY <2>0, <2>1, <2>5
  <2>6. CASE i \in DOMAIN inbox
    <3>1. inbox'[i] = inbox[i]
      BY <2>0, <2>1, <2>6
    <3>2. t \in Tabs
      BY <2>6, <3>1, InboxTyped DEF Results, Events
    <3>3. \/ t \in attached
          \/ DetachBehind(i, t)
          \/ \E j \in DOMAIN inbox : j > i /\ inbox[j].by = "sweep"
      BY <1>0, <2>6, <3>1 DEF TruthOnItsWay
    <3>4. t \in attached => t \in attached' \/ c.by = "sweep"
      BY <2>0, <2>1, <2>2
    <3> QED BY <2>3, <2>4, <2>6, <3>2, <3>3, <3>4
  <2> QED BY <2>0, <2>1, <2>5, <2>6
<1>2. CASE Deliver
  <2>1. /\ DOMAIN inbox' \subseteq Nat \ {0} /\ DOMAIN inbox \subseteq Nat \ {0}
        /\ \A i \in DOMAIN inbox' : i + 1 \in DOMAIN inbox /\ inbox'[i] = inbox[i + 1]
        /\ \A i \in DOMAIN inbox : i > 1 => i - 1 \in DOMAIN inbox' /\ inbox'[i - 1] = inbox[i]
        /\ UNCHANGED attached
    BY <1>2, Delivering, InboxTyped
  <2> SUFFICES ASSUME NEW i \in DOMAIN inbox', inbox'[i].by \in Requests,
                      NEW t \in inbox'[i].tabs \ ForeignTabs
               PROVE  \/ t \in attached'
                      \/ DetachBehind(i, t)'
                      \/ \E j \in DOMAIN inbox' : j > i /\ inbox'[j].by = "sweep"
    BY DEF TruthOnItsWay
  <2>2. \/ t \in attached
        \/ DetachBehind(i + 1, t)
        \/ \E j \in DOMAIN inbox : j > i + 1 /\ inbox[j].by = "sweep"
    BY <1>0, <2>1 DEF TruthOnItsWay
  <2>3. \A j \in DOMAIN inbox : j > i + 1 => j - 1 \in DOMAIN inbox' /\ j - 1 > i /\
            inbox'[j - 1] = inbox[j]
    BY <2>1
  <2> QED BY <2>1, <2>2, <2>3 DEF DetachBehind
<1>3. ASSUME NEW u \in Tabs, CloseTab(u) \/ EndDebugging(u) PROVE TruthOnItsWay'
  <2>1. /\ Len(inbox) \in Nat /\ DOMAIN inbox = 1 .. Len(inbox)
        /\ DOMAIN inbox \subseteq DOMAIN inbox' /\ DOMAIN inbox' \subseteq Nat \ {0}
        /\ \A i \in DOMAIN inbox : inbox'[i] = inbox[i]
        /\ \A i \in DOMAIN inbox' \ DOMAIN inbox : i > Len(inbox) /\ inbox'[i].by = "browser"
    BY <1>3, Told DEF CloseTab, EndDebugging, TypeInv
  <2>2. /\ attached' = attached \ {u}
        /\ u \in attached => \E j \in DOMAIN inbox' :
                               /\ j > Len(inbox)
                               /\ inbox'[j].op = "detached" /\ inbox'[j].tab = u
    BY <1>3, DetachTold
  <2> SUFFICES ASSUME NEW i \in DOMAIN inbox', inbox'[i].by \in Requests,
                      NEW t \in inbox'[i].tabs \ ForeignTabs
               PROVE  \/ t \in attached'
                      \/ DetachBehind(i, t)'
                      \/ \E j \in DOMAIN inbox' : j > i /\ inbox'[j].by = "sweep"
    BY DEF TruthOnItsWay
  <2>3. i \in DOMAIN inbox /\ inbox'[i] = inbox[i]
    BY <2>1, TabsConstants
  <2>4. \/ t \in attached
        \/ DetachBehind(i, t)
        \/ \E j \in DOMAIN inbox : j > i /\ inbox[j].by = "sweep"
    BY <1>0, <2>3 DEF TruthOnItsWay
  <2>5. t \in attached /\ t = u => DetachBehind(i, t)'
    BY <2>1, <2>2, <2>3 DEF DetachBehind
  <2> QED BY <2>1, <2>2, <2>4, <2>5 DEF DetachBehind
<1>4. CASE UNCHANGED <<inbox, attached>>
  BY <1>0, <1>4 DEF TruthOnItsWay, DetachBehind
<1> QED BY <1>0, <1>1, <1>2, <1>3, <1>4
        DEF Next, vars, Start, StartSweep, LoseConnection, Connect

\* An entry is made when its tab is attached, or will be deleted.
LEMMA RegisteredStep ==
  TypeInv /\ OneCallPerFiber /\ OwnTab /\ TrackedInv /\ [Next]_vars => RegisteredIsAttached'
<1> SUFFICES ASSUME TypeInv, OneCallPerFiber, OwnTab, TrackedInv, [Next]_vars, restarts' = 0,
                    NEW t \in registry' \cap (Tabs \ ForeignTabs)
             PROVE  t \in attached' \/ DetachOnItsWay(t)' \/ sweep' = "running"
  BY DEF RegisteredIsAttached, Tracks
<1>0. /\ TruthOnItsWay /\ FirstResetIsHarmless /\ ~RestartWorker
      /\ t \in registry => t \in attached \/ DetachOnItsWay(t) \/ sweep = "running"
  BY NotRestarted DEF TrackedInv, RegisteredIsAttached, Tracks
<1>1. CASE Execute
  <2>1. PICK c \in Calls, m \in Results :
          /\ 1 \in DOMAIN calls /\ c = calls[1]
          /\ DOMAIN inbox = 1 .. Len(inbox) /\ DOMAIN inbox' = 1 .. Len(inbox) + 1
          /\ Len(inbox) \in Nat
          /\ \A i \in DOMAIN inbox : inbox'[i] = inbox[i]
          /\ Answers(c, m)
    BY <1>1, Executing
  <2>2. c.op = "detach" => sweep = "running" \/ c.tab \in ForeignTabs
    BY <1>0, <2>1 DEF FirstResetIsHarmless, OneCallPerFiber, Matches, Waiting, Calls, Fibers
  <2>3. DetachOnItsWay(t) => DetachOnItsWay(t)'
    BY <2>1 DEF DetachOnItsWay
  <2>4. UNCHANGED <<registry, sweep>>
    BY <1>1 DEF Execute, fiberVars
  <2>5. attached \subseteq attached' \cup (IF c.op = "detach" THEN {c.tab} ELSE {})
    BY <2>1 DEF Answers
  <2> QED BY <1>0, <2>1, <2>2, <2>3, <2>4, <2>5
<1>2. CASE Deliver
  <2>1. PICK m \in Results \cup Events :
          /\ 1 \in DOMAIN inbox /\ m = inbox[1]
          /\ \A i \in DOMAIN inbox : i > 1 => i - 1 \in DOMAIN inbox' /\ inbox'[i - 1] = inbox[i]
          /\ \/ m.by \in Requests /\ Continue(m.by, m)
             \/ m.by = "sweep" /\ ContinueSweep
             \/ m.by = "reset" /\ ContinueReset(m)
             \/ m.by = "browser" /\ HandleEvent(m)
          /\ UNCHANGED attached
    BY <1>2, Delivering
  <2>2. DOMAIN inbox \subseteq Nat \ {0} /\ (m.op = "detached" => m.by = "browser")
    BY <2>1, InboxTyped
  <2>3. ~(m.op = "detached" /\ m.tab = t) /\ DetachOnItsWay(t) => DetachOnItsWay(t)'
    <3> SUFFICES ASSUME ~(m.op = "detached" /\ m.tab = t),
                        NEW j \in DOMAIN inbox, inbox[j].op = "detached", inbox[j].tab = t
                 PROVE  DetachOnItsWay(t)'
      BY DEF DetachOnItsWay
    <3>1. j > 1
      BY <2>1, <2>2
    <3> QED BY <2>1, <3>1 DEF DetachOnItsWay
  <2>4. CASE m.by \in Requests /\ Continue(m.by, m)
    <3>1. UNCHANGED sweep /\ m.op # "detached"
      BY <2>2, <2>4, TabsConstants DEF Continue
    <3>2. CASE t \in registry
      BY <1>0, <2>1, <2>3, <3>1, <3>2
    <3>3. CASE t \notin registry
      <4>1. /\ t = target[m.by]
            /\ \/ m.op = "getTargets" /\ t \in m.tabs
               \/ m.op = "getTargetInfo"
        BY <2>4, <3>3 DEF Continue, Register, NextCall, FailRequest
      <4>2. m.tab = t
        BY <2>1, <2>4, <4>1 DEF OneCallPerFiber, Matches
      <4>3. t \in m.tabs
        BY <2>1, <4>1, <4>2 DEF OwnTab
      <4>4. \/ t \in attached
            \/ DetachBehind(1, t)
            \/ \E j \in DOMAIN inbox : j > 1 /\ inbox[j].by = "sweep"
        BY <1>0, <2>1, <2>4, <4>3 DEF TruthOnItsWay
      <4>5. DetachBehind(1, t) => DetachOnItsWay(t)'
        BY <2>1 DEF DetachBehind, DetachOnItsWay
      <4>6. (\E j \in DOMAIN inbox : j > 1 /\ inbox[j].by = "sweep") => sweep = "running"
        BY DEF OneCallPerFiber, Matches
      <4> QED BY <2>1, <3>1, <4>4, <4>5, <4>6
    <3> QED BY <3>2, <3>3
  <2>5. CASE m.by = "sweep" /\ ContinueSweep
    BY <2>5 DEF ContinueSweep, SweepOn
  <2>6. CASE m.by = "reset" /\ ContinueReset(m)
    BY <1>0, <2>1, <2>2, <2>3, <2>6 DEF ContinueReset
  <2>7. CASE m.by = "browser" /\ HandleEvent(m)
    <3>1. UNCHANGED sweep /\ t \in registry /\ ~(m.op = "detached" /\ m.tab = t)
      BY <2>7 DEF HandleEvent
    <3> QED BY <1>0, <2>1, <2>3, <3>1
  <2> QED BY <2>1, <2>4, <2>5, <2>6, <2>7
<1>3. ASSUME NEW u \in Tabs, CloseTab(u) \/ EndDebugging(u)
      PROVE  t \in attached' \/ DetachOnItsWay(t)' \/ sweep' = "running"
  <2>1. /\ DOMAIN inbox \subseteq DOMAIN inbox'
        /\ \A i \in DOMAIN inbox : inbox'[i] = inbox[i]
    BY <1>3, Told DEF CloseTab, EndDebugging, TypeInv
  <2>2. /\ attached' = attached \ {u}
        /\ u \in attached => DetachOnItsWay(u)'
    BY <1>3, DetachTold DEF DetachOnItsWay
  <2>3. UNCHANGED <<registry, sweep>>
    BY <1>3 DEF CloseTab, EndDebugging, fiberVars
  <2>4. DetachOnItsWay(t) => DetachOnItsWay(t)'
    BY <2>1 DEF DetachOnItsWay
  <2> QED BY <1>0, <2>2, <2>3, <2>4
<1>4. CASE StartSweep
  BY <1>4 DEF StartSweep, SweepOn
<1>5. CASE UNCHANGED <<inbox, attached, registry, sweep>>
  BY <1>0, <1>5 DEF DetachOnItsWay
<1> QED BY <1>0, <1>1, <1>2, <1>3, <1>4, <1>5
        DEF Next, vars, fiberVars, Start, LoseConnection, Connect

LEMMA TrackedStep ==
  TypeInv /\ OneCallPerFiber /\ OwnTab /\ TrackedInv /\ [Next]_vars => TrackedInv'
  BY ResetStep, TruthStep, RegisteredStep DEF TrackedInv

-----------------------------------------------------------------------------
(* Without disconnections no session is left behind.                       *)

\* Registered for good.
Known(t) == t \in registry /\ ~DetachBehind(0, t)

Accounted(t) == Known(t) \/ WillRegister(t) \/ WillReset(t) \/ t \in stranded

\* The reset goes on while it has tabs left.
ResetGoesOn ==
  \/ \E i \in DOMAIN calls : calls[i].by = "reset" /\ calls[i].op = "detach"
  \/ \E i \in DOMAIN inbox : inbox[i].by = "reset" /\ inbox[i].op # "getTargets"

LEMMA SessionsInit == Init => NoSessionLeft
  BY DEF Init, NoSessionLeft

\* The browser has executed a call.
LEMMA SessionsExecute ==
  ASSUME TypeInv, OneCallPerFiber, NoSessionLeft, Execute
  PROVE  NoSessionLeft'
<1>1. PICK c \in Calls, m \in Results :
        /\ 1 \in DOMAIN calls /\ c = calls[1]
        /\ \A i \in DOMAIN calls : i > 1 => i - 1 \in DOMAIN calls' /\ calls'[i - 1] = calls[i]
        /\ Len(inbox) \in Nat
        /\ DOMAIN inbox = 1 .. Len(inbox) /\ DOMAIN inbox' = 1 .. Len(inbox) + 1
        /\ \A i \in DOMAIN inbox : inbox'[i] = inbox[i]
        /\ inbox'[Len(inbox) + 1] = m /\ Answers(c, m)
  BY Executing
<1>2. UNCHANGED <<open, registry, resetLeft, connected, disconnections, sweep>>
  BY DEF Execute, fiberVars
<1>3. /\ DOMAIN calls \subseteq Nat \ {0}
      /\ \A i \in DOMAIN calls : i = 1 \/ i > 1
  BY LenProperties DEF TypeInv
<1>4. \A t, i : DetachBehind(i, t)' => DetachBehind(i, t)
  BY <1>1 DEF DetachBehind, Answers
<1>5. \A i \in DOMAIN inbox' : inbox'[i].op = "removed" => inbox'[i].tab \notin open'
  BY <1>1, <1>2 DEF NoSessionLeft, Answers
<1>6. resetLeft # {} => ResetGoesOn'
  <2> SUFFICES ASSUME resetLeft # {} PROVE ResetGoesOn'
    OBVIOUS
  <2>1. CASE \E i \in DOMAIN inbox : inbox[i].by = "reset" /\ inbox[i].op # "getTargets"
    BY <1>1, <2>1 DEF ResetGoesOn
  <2>2. CASE \E i \in DOMAIN calls : calls[i].by = "reset" /\ calls[i].op = "detach"
    <3>1. PICK i \in DOMAIN calls : calls[i].by = "reset" /\ calls[i].op = "detach"
      BY <2>2
    <3>2. CASE i = 1
      BY <1>1, <3>1, <3>2 DEF ResetGoesOn, Answers
    <3>3. CASE i > 1
      BY <1>1, <3>1, <3>3 DEF ResetGoesOn
    <3> QED BY <1>3, <3>2, <3>3
  <2> QED BY <2>1, <2>2 DEF NoSessionLeft
<1>7. \A t : \E i \in DOMAIN inbox' : i = Len(inbox) + 1 /\ ~DetachBehind(i, t)'
  <2> TAKE t
  <2>1. PICK i \in DOMAIN inbox' : i = Len(inbox) + 1
    BY <1>1
  <2>2. ~DetachBehind(i, t)'
    BY <1>1, <2>1 DEF DetachBehind
  <2> QED BY <2>1, <2>2
<1>8. ASSUME NEW t \in attached, WillBeTold(t) PROVE WillBeTold(t)'
  BY <1>1, <1>4, <1>8 DEF WillBeTold
<1>9. ASSUME NEW t \in attached', t \notin attached PROVE WillBeTold(t)'
  <2>1. c.op = "attach" /\ t = c.tab /\ m.tabs = {t} /\ m.tab = t /\ m.by = c.by
    BY <1>1, <1>9 DEF Answers
  <2>2. c.by \in Requests
    BY <1>1, <2>1 DEF OneCallPerFiber, Matches, Calls, Fibers
  <2> QED BY <1>1, <1>7, <2>1, <2>2 DEF WillBeTold
<1>10. \A t \in attached' : DetachBehind(0, t)' => WillBeTold(t)'
  BY <1>4, <1>8, <1>9 DEF NoSessionLeft
<1>11. ASSUME NEW t \in attached' PROVE Accounted(t)'
  <2>1. CASE t \notin attached
    BY <1>9, <2>1 DEF Accounted, WillRegister
  <2>2. CASE t \in attached
    <3>1. CASE Known(t)
      BY <1>2, <1>4, <3>1 DEF Accounted, Known
    <3>2. CASE WillRegister(t)
      <4>1. CASE WillBeTold(t)
        BY <1>8, <2>2, <4>1 DEF Accounted, WillRegister
      <4>2. CASE \E i \in DOMAIN calls :
                   calls[i].by \in Requests /\ calls[i].op = "getTargetInfo" /\ calls[i].tab = t
        <5>1. PICK i \in DOMAIN calls :
                calls[i].by \in Requests /\ calls[i].op = "getTargetInfo" /\ calls[i].tab = t
          BY <4>2
        <5>2. CASE i = 1
          <6>1. CASE m.op = "failed"
            BY <1>1, <2>2, <5>1, <5>2, <6>1 DEF Answers, Accounted
          <6>2. CASE m.op # "failed"
            <7>1. t \in m.tabs /\ m.by \in Requests /\ m.tab = t
              BY <1>1, <5>1, <5>2, <6>2 DEF Answers
            <7>2. WillBeTold(t)'
              BY <1>1, <1>7, <7>1 DEF WillBeTold
            <7> QED BY <7>2 DEF Accounted, WillRegister
          <6> QED BY <6>1, <6>2
        <5>3. CASE i > 1
          BY <1>1, <5>1, <5>3 DEF Accounted, WillRegister
        <5> QED BY <1>3, <5>2, <5>3
      <4> QED BY <3>2, <4>1, <4>2 DEF WillRegister
    <3>3. CASE WillReset(t)
      <4>1. CASE t \in resetLeft
        BY <1>2, <4>1 DEF Accounted, WillReset
      <4>2. CASE \E i \in DOMAIN inbox :
                   inbox[i].by = "reset" /\ inbox[i].op = "getTargets" /\ t \in inbox[i].tabs
        BY <1>1, <4>2 DEF Accounted, WillReset
      <4>3. CASE \E i \in DOMAIN calls :
                   calls[i].by = "reset" /\ (calls[i].op = "detach" => calls[i].tab = t)
        <5>1. PICK i \in DOMAIN calls :
                calls[i].by = "reset" /\ (calls[i].op = "detach" => calls[i].tab = t)
          BY <4>3
        <5>2. CASE i = 1
          <6>1. c.op = "getTargets" \/ c.op = "detach"
            BY <1>1, <5>1, <5>2, TabsConstants DEF OneCallPerFiber, Matches, Calls
          <6>2. CASE m.op = "failed"
            BY <1>1, <2>2, <5>1, <5>2, <6>1, <6>2 DEF Answers, Accounted
          <6>3. CASE m.op # "failed"
            <7>1. m.op = "getTargets" /\ t \in m.tabs /\ m.by = "reset"
              BY <1>1, <2>2, <5>1, <5>2, <6>1, <6>3 DEF Answers
            <7>2. WillReset(t)'
              BY <1>1, <1>7, <7>1 DEF WillReset
            <7> QED BY <7>2 DEF Accounted
          <6> QED BY <6>2, <6>3
        <5>3. CASE i > 1
          BY <1>1, <5>1, <5>3 DEF Accounted, WillReset
        <5> QED BY <1>3, <5>2, <5>3
      <4> QED BY <3>3, <4>1, <4>2, <4>3 DEF WillReset
    <3>4. CASE t \in stranded
      BY <1>1, <3>4 DEF Accounted, Answers
    <3> QED BY <2>2, <3>1, <3>2, <3>3, <3>4 DEF NoSessionLeft, Known
  <2> QED BY <2>1, <2>2
<1> QED BY <1>2, <1>5, <1>6, <1>10, <1>11 DEF NoSessionLeft, Accounted, Known, ResetGoesOn

\* A tab was closed or debugging ended.
LEMMA SessionsEnd ==
  ASSUME TypeInv, OneCallPerFiber, NoSessionLeft, NEW u \in Tabs, CloseTab(u) \/ EndDebugging(u)
  PROVE  NoSessionLeft'
<1>1. /\ DOMAIN inbox \subseteq DOMAIN inbox'
      /\ \A i \in DOMAIN inbox : inbox'[i] = inbox[i]
      /\ \A i \in DOMAIN inbox' \ DOMAIN inbox :
           inbox'[i] \in {Event("detached", u), Event("removed", u)}
  BY Told DEF CloseTab, EndDebugging, TypeInv
<1>2. \A i \in DOMAIN inbox' \ DOMAIN inbox : inbox'[i].tab = u
  BY <1>1 DEF Event
<1>3. /\ attached' = attached \ {u} /\ stranded' = stranded \ {u} /\ open' \subseteq open
      /\ UNCHANGED <<calls, registry, resetLeft, connected, disconnections, sweep>>
  BY DEF CloseTab, EndDebugging, fiberVars
<1>4. \A i \in DOMAIN inbox' : inbox'[i].op = "removed" => inbox'[i].tab \notin open'
  <2>1. CASE CloseTab(u)
    BY <1>1, <1>2, <1>3, <2>1 DEF CloseTab, NoSessionLeft
  <2>2. CASE EndDebugging(u)
    <3>1. inbox' = Append(inbox, Event("detached", u)) /\ Event("detached", u) \in Events
      BY <2>2, EventTyped DEF EndDebugging
    <3>2. \A i \in DOMAIN inbox' : i \in DOMAIN inbox \/ inbox'[i] = Event("detached", u)
      BY <3>1, Appending DEF TypeInv
    <3>3. Event("detached", u).op = "detached"
      BY DEF Event
    <3> QED BY <1>1, <1>3, <3>2, <3>3 DEF NoSessionLeft
  <2> QED BY <2>1, <2>2
<1>5. ASSUME NEW t \in attached'
      PROVE  Accounted(t)' /\ (DetachBehind(0, t)' => WillBeTold(t)')
  <2>1. t # u /\ t \in attached
    BY <1>3
  <2>2. \A i : DetachBehind(i, t)' => DetachBehind(i, t)
    BY <1>1, <1>2, <2>1 DEF DetachBehind
  <2>3. Known(t) => Known(t)'
    BY <1>3, <2>2 DEF Known
  <2>4. WillBeTold(t) => WillBeTold(t)'
    BY <1>1, <2>2 DEF WillBeTold
  <2>5. WillReset(t) => WillReset(t)'
    BY <1>1, <1>3 DEF WillReset
  <2>6. WillRegister(t) => WillRegister(t)'
    BY <1>3, <2>4 DEF WillRegister
  <2>7. Accounted(t)'
    BY <1>3, <2>1, <2>3, <2>5, <2>6 DEF Accounted, NoSessionLeft, Known
  <2> QED BY <2>1, <2>2, <2>4, <2>7 DEF NoSessionLeft
<1> QED BY <1>1, <1>3, <1>4, <1>5 DEF NoSessionLeft, Accounted, Known

\* A result or an event has reached the worker.
LEMMA SessionsDeliver ==
  ASSUME TypeInv, OneCallPerFiber, OwnTab, NoSessionLeft, Deliver
  PROVE  NoSessionLeft'
<1>1. PICK m \in Results \cup Events :
        /\ 1 \in DOMAIN inbox /\ m = inbox[1]
        /\ \A i \in DOMAIN inbox' : i + 1 \in DOMAIN inbox /\ inbox'[i] = inbox[i + 1]
        /\ \A i \in DOMAIN inbox : i > 1 => i - 1 \in DOMAIN inbox' /\ inbox'[i - 1] = inbox[i]
        /\ \/ m.by \in Requests /\ Continue(m.by, m)
           \/ m.by = "sweep" /\ ContinueSweep
           \/ m.by = "reset" /\ ContinueReset(m)
           \/ m.by = "browser" /\ HandleEvent(m)
        /\ UNCHANGED <<open, attached, connected, disconnections>>
  BY Delivering
<1>2. /\ DOMAIN inbox \subseteq Nat \ {0} /\ DOMAIN inbox' \subseteq Nat \ {0}
      /\ \A i \in DOMAIN inbox : i = 1 \/ i > 1
      /\ m.op \in {"detached", "removed"} => m.by = "browser"
  BY <1>1, InboxTyped, Delivering
<1>3. m.by # "sweep" /\ sweep' = "idle"
  BY <1>1 DEF NoSessionLeft, OneCallPerFiber, Matches, Continue, ContinueReset, HandleEvent
<1>4. \A i \in DOMAIN inbox' : inbox'[i].op = "removed" => inbox'[i].tab \notin open'
  BY <1>1 DEF NoSessionLeft
<1>5. \A t : \A i \in Nat : DetachBehind(i, t)' => DetachBehind(i + 1, t)
  BY <1>1, <1>2 DEF DetachBehind
<1>6. \A t : /\ DetachBehind(1, t) => DetachBehind(0, t)
             /\ DetachBehind(0, t)' => DetachBehind(0, t)
  <2> TAKE t
  <2>1. DetachBehind(0, t)' => DetachBehind(0 + 1, t)
    BY <1>5
  <2> QED BY <1>2, <2>1 DEF DetachBehind
<1>7. calls' = calls \/ \E by \in Fibers, op \in {"attach", "getTargetInfo", "detach"},
                           t \in Tabs \cup {NoTab} : calls' = Append(calls, Call(by, op, t))
  <2>1. CASE m.by \in Requests /\ Continue(m.by, m)
    <3>1. m.by \in Fibers /\ target[m.by] \in Tabs \cup {NoTab}
      BY <2>1 DEF TypeInv, Fibers
    <3> QED BY <2>1, <3>1 DEF Continue, Register, NextCall, FailRequest
  <2>2. CASE m.by = "reset" /\ ContinueReset(m)
    <3>1. (IF m.op = "getTargets" THEN m.tabs ELSE resetLeft) \subseteq Tabs
      BY DEF Results, Events, TypeInv
    <3> QED BY <2>2, <3>1 DEF ContinueReset, Fibers
  <2> QED BY <1>1, <1>3, <2>1, <2>2 DEF HandleEvent
<1>8. DOMAIN calls \subseteq DOMAIN calls' /\ \A i \in DOMAIN calls : calls'[i] = calls[i]
  <2>1. ASSUME NEW by \in Fibers, NEW op \in {"attach", "getTargetInfo", "detach"},
               NEW t \in Tabs \cup {NoTab}, calls' = Append(calls, Call(by, op, t))
        PROVE  DOMAIN calls \subseteq DOMAIN calls' /\ \A i \in DOMAIN calls : calls'[i] = calls[i]
    BY <2>1, Calling
  <2> QED BY <1>7, <2>1
<1>9. /\ resetLeft' # {} => ResetGoesOn'
      /\ \A t : WillReset(t) => WillReset(t)'
  <2>1. CASE m.by # "reset"
    <3>1. UNCHANGED resetLeft
      BY <1>1, <2>1 DEF Continue, ContinueSweep, HandleEvent
    <3>2. \A i \in DOMAIN inbox : inbox[i].by = "reset" => i > 1
      BY <1>1, <1>2, <2>1
    <3>3. \A t : WillReset(t) => WillReset(t)'
      BY <1>1, <1>8, <3>1, <3>2 DEF WillReset
    <3> QED BY <1>1, <1>8, <3>1, <3>2, <3>3 DEF NoSessionLeft, ResetGoesOn
  <2>2. CASE m.by = "reset"
    <3> DEFINE left == IF m.op = "getTargets" THEN m.tabs ELSE resetLeft
    <3>1. \/ left = {} /\ UNCHANGED <<resetLeft, calls>>
          \/ \E t \in left : /\ resetLeft' = left \ {t}
                             /\ calls' = Append(calls, Call("reset", "detach", t))
      BY <1>1, <2>2, TabsConstants DEF ContinueReset
    <3>2. /\ \A i \in DOMAIN calls : calls[i].by # "reset"
          /\ \A i \in DOMAIN inbox : inbox[i].by = "reset" => i = 1
      BY <1>1, <2>2 DEF OneCallPerFiber
    <3>3. resetLeft # {} => m.op # "getTargets"
      BY <1>1, <3>2 DEF NoSessionLeft
    <3>4. \A t : WillReset(t) => t \in left
      BY <1>1, <3>2, <3>3 DEF WillReset
    <3>5. left \subseteq Tabs
      BY DEF Results, Events, TypeInv
    <3> HIDE DEF left
    <3>6. CASE left = {} /\ UNCHANGED <<resetLeft, calls>>
      <4>1. resetLeft = {}
        BY <3>3, <3>6 DEF left
      <4> QED BY <3>4, <3>6, <4>1
    <3>7. ASSUME NEW u \in left, resetLeft' = left \ {u},
                 calls' = Append(calls, Call("reset", "detach", u))
          PROVE  /\ ResetGoesOn'
                 /\ \A t : t \in left => WillReset(t)'
      <4>1. PICK i \in DOMAIN calls' :
              calls'[i].by = "reset" /\ calls'[i].op = "detach" /\ calls'[i].tab = u
        <5>1. "reset" \in Fibers /\ u \in Tabs \cup {NoTab}
          BY <3>5 DEF Fibers
        <5>2. PICK n : n = Len(calls) + 1
          OBVIOUS
        <5>3. n \in DOMAIN calls' /\ calls'[n].by = "reset" /\ calls'[n].op = "detach" /\
                  calls'[n].tab = u
          BY <3>7, <5>1, <5>2, Calling
        <5> QED BY <5>3
      <4>2. \A t : t \in left => WillReset(t)'
        BY <3>7, <4>1 DEF WillReset
      <4> QED BY <4>1, <4>2 DEF ResetGoesOn
    <3> QED BY <3>1, <3>4, <3>6, <3>7
  <2> QED BY <2>1, <2>2
\* What is behind m stays on its way.
<1>10. ASSUME NEW t \in attached,
              NEW i \in DOMAIN inbox, i > 1,
              inbox[i].by \in Requests, inbox[i].tab = t, t \in inbox[i].tabs,
              ~DetachBehind(i, t)
       PROVE  WillBeTold(t)'
  <2>1. PICK k \in Nat : k = i - 1 /\ k + 1 = i
    BY <1>2, <1>10
  <2>2. k \in DOMAIN inbox' /\ inbox'[k] = inbox[i] /\ ~DetachBehind(k, t)'
    BY <1>1, <1>5, <1>10, <2>1
  <2> QED BY <1>10, <2>2 DEF WillBeTold
<1>11. ASSUME NEW t \in attached, DetachBehind(0, t)' PROVE WillBeTold(t)'
  <2>1. DetachBehind(0, t) /\ DetachBehind(0 + 1, t)
    BY <1>5, <1>6, <1>11
  <2>2. PICK i \in DOMAIN inbox :
          /\ inbox[i].by \in Requests /\ inbox[i].tab = t /\ t \in inbox[i].tabs
          /\ ~DetachBehind(i, t)
    BY <2>1 DEF NoSessionLeft, WillBeTold
  <2>3. i > 1
    BY <1>2, <2>1, <2>2
  <2> QED BY <1>10, <2>2, <2>3
<1>12. ASSUME NEW t \in attached PROVE Accounted(t)'
  <2>1. ASSUME NEW i \in DOMAIN inbox, i > 1,
               inbox[i].by \in Requests, inbox[i].tab = t, t \in inbox[i].tabs,
               ~DetachBehind(i, t)
        PROVE  WillRegister(t)'
    BY <1>10, <2>1 DEF WillRegister
  <2>2. ASSUME NEW i \in DOMAIN calls,
               calls[i].by \in Requests, calls[i].op = "getTargetInfo", calls[i].tab = t
        PROVE  WillRegister(t)'
    BY <1>8, <2>2 DEF WillRegister
  <2>3. CASE m.by \in Requests /\ Continue(m.by, m)
    <3>1. Known(t) => Known(t)'
      BY <1>6, <2>3 DEF Known, Continue, Register, NextCall, FailRequest
    <3>2. m.tab = target[m.by] /\ m.tab \in Tabs
        /\ m.op \in Waiting \cup {"failed"} /\ (m.op = "failed" => m.tabs = {})
      BY <1>1, <2>3 DEF OneCallPerFiber, Matches, OwnTab
    <3>3. ASSUME m.tab = t, t \in m.tabs, ~DetachBehind(1, t)
          PROVE  Known(t)' \/ WillRegister(t)'
      <4>1. ~DetachBehind(0, t)'
        <5>1. DetachBehind(0, t)' => DetachBehind(0 + 1, t)
          BY <1>5
        <5> QED BY <3>3, <5>1
      <4>2. CASE m.op = "attach"
        <5>1. calls' = Append(calls, Call(m.by, "getTargetInfo", t))
          BY <2>3, <3>2, <3>3, <4>2 DEF Continue, NextCall
        <5>2. m.by \in Fibers /\ t \in Tabs \cup {NoTab}
          BY <2>3, <3>2, <3>3 DEF Fibers
        <5>3. PICK n : n = Len(calls) + 1
          OBVIOUS
        <5>4. /\ n \in DOMAIN calls' /\ calls'[n].by = m.by
              /\ calls'[n].op = "getTargetInfo" /\ calls'[n].tab = t
          BY <5>1, <5>2, <5>3, Calling
        <5> QED BY <2>3, <5>4 DEF WillRegister
      <4>3. CASE m.op \in {"getTargets", "getTargetInfo"}
        <5>1. registry' = registry \cup {t}
          BY <2>3, <3>2, <3>3, <4>3 DEF Continue, Register
        <5> QED BY <4>1, <5>1 DEF Known
      <4> QED BY <3>2, <3>3, <4>2, <4>3 DEF Waiting
    <3>4. ASSUME WillRegister(t) PROVE Known(t)' \/ WillRegister(t)'
      BY <1>1, <1>2, <2>1, <2>2, <3>3, <3>4 DEF WillRegister, WillBeTold
    <3>5. ASSUME t \in stranded PROVE Accounted(t)'
      <4>1. CASE t \in stranded'
        BY <4>1 DEF Accounted
      <4>2. CASE t \notin stranded'
        <5>1. t \in registry'
          BY <2>3, <3>5, <4>2 DEF Continue, Register, NextCall, FailRequest
        <5> QED BY <1>11, <5>1 DEF Accounted, Known, WillRegister
      <4> QED BY <4>1, <4>2
    <3> QED BY <1>9, <3>1, <3>4, <3>5 DEF Accounted, NoSessionLeft, Known
  <2>4. CASE m.by \notin Requests
    <3>1. WillRegister(t) => WillRegister(t)'
      BY <1>1, <1>2, <2>1, <2>2, <2>4 DEF WillRegister, WillBeTold
    <3>2. ASSUME Known(t) PROVE Known(t)'
      <4>1. t \in registry'
        <5>1. CASE m.by = "reset" /\ ContinueReset(m)
          BY <3>2, <5>1 DEF Known, ContinueReset
        <5>2. CASE m.by = "browser" /\ HandleEvent(m)
          <6>1. m.op \in {"detached", "removed"}
            BY <5>2, TabsConstants DEF Results, Events, Fibers
          <6>2. m.op = "detached" => m.tab # t
            BY <1>1, <1>2, <3>2 DEF Known, DetachBehind
          <6>3. m.op = "removed" => m.tab # t
            BY <1>1 DEF NoSessionLeft, TypeInv
          <6> QED BY <3>2, <5>2, <6>1, <6>2, <6>3 DEF Known, HandleEvent
        <5> QED BY <1>1, <1>3, <2>4, <5>1, <5>2
      <4> QED BY <1>6, <3>2, <4>1 DEF Known
    <3>3. UNCHANGED stranded
      BY <1>1, <2>4 DEF ContinueSweep, ContinueReset, HandleEvent
    <3> QED BY <1>9, <3>1, <3>2, <3>3 DEF Accounted, NoSessionLeft, Known
  <2> QED BY <1>1, <2>3, <2>4, TabsConstants
<1> QED BY <1>1, <1>3, <1>4, <1>9, <1>11, <1>12
        DEF NoSessionLeft, Accounted, Known, ResetGoesOn

\* A command has started.
LEMMA SessionsStart ==
  ASSUME TypeInv, NoSessionLeft, NEW r \in Requests, NEW u \in Tabs, Start(r, u)
  PROVE  NoSessionLeft'
<1>1. UNCHANGED <<open, attached, stranded, inbox, registry, resetLeft, connected, disconnections, sweep>>
  BY DEF Start
<1>2. DOMAIN calls \subseteq DOMAIN calls' /\ \A i \in DOMAIN calls : calls'[i] = calls[i]
  <2>1. calls' = calls \/ calls' = Append(calls, Call(r, "getTargets", u))
    BY DEF Start, EnsureAttached
  <2>2. r \in Fibers
    BY DEF Fibers
  <2> QED BY <2>1, <2>2, Calling
<1>3. \A t : /\ Known(t) => Known(t)'
             /\ WillBeTold(t) => WillBeTold(t)'
             /\ WillRegister(t) => WillRegister(t)'
             /\ WillReset(t) => WillReset(t)'
             /\ DetachBehind(0, t)' => DetachBehind(0, t)
  BY <1>1, <1>2 DEF Known, WillBeTold, WillRegister, WillReset, DetachBehind
<1> QED BY <1>1, <1>2, <1>3 DEF NoSessionLeft, Known

LEMMA SessionsStep ==
  TypeInv /\ OneCallPerFiber /\ OwnTab /\ (losses = 0 => NoSessionLeft) /\ [Next]_vars
    => (losses' = 0 => NoSessionLeft')
<1> SUFFICES ASSUME TypeInv, OneCallPerFiber, OwnTab, losses = 0 => NoSessionLeft,
                    [Next]_vars, losses' = 0
             PROVE  NoSessionLeft'
  OBVIOUS
<1>1. losses = 0 /\ ~LoseConnection
  <2>1. ~LoseConnection
    BY DEF LoseConnection, TypeInv
  <2> QED BY <2>1
          DEF Next, vars, countVars, Execute, Deliver, CloseTab, EndDebugging, Start, StartSweep,
                      Connect, RestartWorker
<1>2. NoSessionLeft
  BY <1>1
<1>3. CASE Execute
  BY <1>2, <1>3, SessionsExecute
<1>4. CASE Deliver
  BY <1>2, <1>4, SessionsDeliver
<1>5. ASSUME NEW t \in Tabs, CloseTab(t) \/ EndDebugging(t) PROVE NoSessionLeft'
  BY <1>2, <1>5, SessionsEnd
<1>6. ASSUME NEW r \in Requests, NEW t \in Tabs, Start(r, t) PROVE NoSessionLeft'
  BY <1>2, <1>6, SessionsStart
<1>7. CASE StartSweep \/ Connect
  BY <1>2, <1>7 DEF StartSweep, Connect, NoSessionLeft
<1>8. CASE RestartWorker
  <2>1. 1 \in DOMAIN calls' /\ calls'[1].by = "reset" /\ calls'[1].op = "getTargets" /\
            DOMAIN inbox' = {}
    BY <1>8 DEF RestartWorker, StartupCalls, Call
  <2>2. \A t : WillReset(t)'
    BY <2>1 DEF WillReset
  <2>3. resetLeft' = {} /\ disconnections' = 0 /\ sweep' = "idle" /\ connected'
    BY <1>2, <1>8 DEF RestartWorker, NoSessionLeft
  <2>4. \A t : ~DetachBehind(0, t)'
    BY <2>1 DEF DetachBehind
  <2> QED BY <2>1, <2>2, <2>3, <2>4 DEF NoSessionLeft
<1>9. CASE UNCHANGED vars
  BY <1>2, <1>9
  DEF vars, fiberVars, NoSessionLeft, WillBeTold, WillRegister, WillReset, DetachBehind
<1> QED BY <1>1, <1>3, <1>4, <1>5, <1>6, <1>7, <1>8, <1>9 DEF Next

-----------------------------------------------------------------------------
(* The theorems.                                                           *)

LEMMA InvInit == Init => Inv
  BY TypeInit, OneCallInit, OwnTabInit, TrackedInit, SessionsInit DEF Inv

LEMMA InvStep == Inv /\ [Next]_vars => Inv'
  BY TypeStep, OneCallStep, OwnTabStep, TrackedStep, SessionsStep DEF Inv

LEMMA InvAlways == Spec => []Inv
  BY InvInit, InvStep, PTL DEF Spec

\* The registry, the fibers and the browser keep their types (tabsRef of tab.ts:56).
THEOREM TabsTypes == Spec => []TypeOK
<1>1. Inv => TypeOK
  <2> SUFFICES ASSUME Inv PROVE TypeOK
    OBVIOUS
  <2>1. \A i \in DOMAIN calls : calls[i] \in Calls
    BY CallsAreOurs DEF Inv, TypeInv
  <2>2. \A i \in DOMAIN calls :
          /\ calls[i].op \in {"getTargets", "attach", "getTargetInfo", "detach"}
          /\ calls[i].tab \in Tabs \cup {NoTab}
    BY <2>1 DEF Calls
  <2>3. \A i \in DOMAIN inbox : inbox[i].tabs \subseteq Tabs
    BY InboxTyped DEF Inv, Results, Events
  <2>4. disconnections \in 0 .. MaxFaults
    BY TabsConstants DEF Inv, TypeInv
  <2> QED BY <2>2, <2>3, <2>4 DEF Inv, TypeInv, TypeOK
<1> QED BY <1>1, InvAlways, PTL

\* While the service worker lives, whatever commands, sweeps, events and the startup
\* reset interleave, a registered tab is attached, or its entry is about to go
\* (tab.ts:163-169).
THEOREM RegisteredTabsAreAttached == Spec => []RegisteredIsAttached
<1>1. Inv => RegisteredIsAttached
  BY DEF Inv, TrackedInv
<1> QED BY <1>1, InvAlways, PTL

\* Without disconnections no race leaves a tab debugged that no event is forwarded
\* of: at rest every attached tab is registered, but for those that a failed call
\* left behind (tab.ts:88-116, cdp.ts:98-104).
THEOREM AttachedTabsAreRegistered == Spec => []AttachedIsRegistered
<1>1. Inv => AttachedIsRegistered
  <2> SUFFICES ASSUME Inv, losses = 0, AtRest, NEW t \in attached, t \notin registry
               PROVE  t \in stranded
    BY DEF AttachedIsRegistered
  <2>1. NoSessionLeft /\ DOMAIN calls = {} /\ DOMAIN inbox = {}
    BY DEF Inv, AtRest
  <2>2. resetLeft = {}
    BY <2>1 DEF NoSessionLeft
  <2>3. ~WillRegister(t) /\ ~WillReset(t)
    BY <2>1, <2>2 DEF WillBeTold, WillRegister, WillReset
  <2> QED BY <2>1, <2>3 DEF NoSessionLeft
<1> QED BY <1>1, InvAlways, PTL
=============================================================================
