---------------------------- MODULE ActiveState ----------------------------
(***************************************************************************)
(* The stored state of the extension (extension/services/StateManager.ts), *)
(* the handlers that read it, wait, and write it back                      *)
(* (extension/entrypoints/background.ts) -- the popup's getState, setState *)
(* and setPort, the keep-alive alarm and the start of the service worker   *)
(* -- and the open popup that sends these messages and shows the responses *)
(* (extension/entrypoints/popup/main.ts).  A read may find the state an    *)
(* older version left: without a port, or under the legacy key.  It then   *)
(* migrates it before it returns.                                          *)
(*                                                                         *)
(* chrome.storage.local executes and answers requests in the order they    *)
(* were made, also those of a worker that has died since.  A handler goes  *)
(* on in one step when its request is answered.  Handlers overlap.  The    *)
(* popup gets responses in the order they are sent.                        *)
(***************************************************************************)
EXTENDS Naturals, Sequences

CONSTANTS
  Handlers,           \* handlers of popup messages and alarms; each runs once
  Ports,              \* numbers the user may enter as port
  ValidPorts,         \* those from 1 to 65535
  DefaultPort,
  NoPort,             \* the port of a state that an older version stored without one
  Absent,             \* no state under a key, or none shown
  MaxRestarts         \* bound on restarts of the service worker

ASSUME ActiveStateConstants ==
  /\ ValidPorts \subseteq Ports /\ DefaultPort \in ValidPorts
  /\ NoPort \notin Ports
  /\ Absent \notin [isActive : BOOLEAN, port : ValidPorts \cup {NoPort}]
  /\ MaxRestarts \in Nat
  /\ \A h \in Handlers : h \notin 0 .. MaxRestarts

VARIABLES
  stored,       \* the state in chrome.storage.local
  legacy,       \* the state under the legacy key
  requests,     \* storage requests made and not yet answered
  pc,           \* of each handler: idle, waiting for its first read or a write, waiting
                \* for the read that it responds with, done, or dead
  job,          \* what each handler handles
  maintained,   \* the connection is being maintained (maintainRef)
  alarm,        \* the keep-alive alarm exists
  latestState,  \* the popup's latestState
  toggle,       \* the popup's switch (toggle.checked)
  wanted,       \* history: the last isActive and the last valid port sent by the popup
  settled,      \* history: no handler has begun while the storage was to be migrated
  restarts      \* restarts of the service worker so far

vars == <<stored, legacy, requests, pc, job, maintained, alarm, latestState,
          toggle, wanted, settled, restarts>>
popup == <<latestState, toggle>>
connection == <<maintained, alarm>>

\* The n-th start of the worker has the startup handler n.
AllHandlers == Handlers \cup (0 .. MaxRestarts)
State(isActive, port) == [isActive |-> isActive, port |-> port]
States == [isActive : BOOLEAN, port : Ports]
ValidStates == [isActive : BOOLEAN, port : ValidPorts]
OldStates == [isActive : BOOLEAN, port : ValidPorts \cup {NoPort}]
DefaultState == State(FALSE, DefaultPort)

Job(kind, arg) == [kind |-> kind, arg |-> arg]
Jobs == { Job("getState", DefaultState) }
          \cup { Job("setState", State(b, DefaultPort)) : b \in BOOLEAN }
          \cup { Job("setPort", State(FALSE, p)) : p \in ValidPorts }
          \cup { Job("alarm", DefaultState) }
StartupJob == Job("startup", DefaultState)

Request(h, op, state) == [by |-> h, op |-> op, value |-> state]
Get(h) == Request(h, "get", DefaultState)

\* Mutant: the default port is not filled in.
Unmigrated(state) == state

Migrated(state) == IF state.port = NoPort THEN State(state.isActive, DefaultPort) ELSE state

\* The state as a read that starts now returns it.
Current ==
  CASE stored # Absent -> Migrated(stored)
    [] stored = Absent /\ legacy # Absent -> Migrated(legacy)
    [] OTHER -> DefaultState

\* A read that starts now migrates.
Outdated ==
  \/ stored = Absent /\ legacy # Absent
  \/ stored # Absent /\ stored.port = NoPort

\* The storage as this or an older version left it, and the worker starts.
Init ==
  /\ \/ stored \in OldStates \cup {Absent} /\ legacy = Absent
     \/ stored = Absent /\ legacy \in OldStates
  /\ requests = << Get(0) >>
  /\ pc = [h \in AllHandlers |-> IF h = 0 THEN "reading" ELSE "idle"]
  /\ job = [h \in AllHandlers |-> StartupJob]
  /\ maintained = FALSE
  /\ alarm = FALSE
  /\ latestState = Absent
  /\ toggle = FALSE
  /\ wanted = Current
  /\ settled = TRUE
  /\ restarts = 0

-----------------------------------------------------------------------------
(* The popup and the alarm.                                                *)

\* A message from the popup, or the alarm: a handler starts with a read.
Begin(h, j) ==
  /\ pc[h] = "idle"
  /\ pc' = [pc EXCEPT ![h] = IF j.kind = "getState" THEN "responding" ELSE "reading"]
  /\ job' = [job EXCEPT ![h] = j]
  /\ requests' = Append(requests, Get(h))
  /\ settled' = (settled /\ ~Outdated)
  /\ UNCHANGED <<stored, legacy, connection, latestState, restarts>>

\* refreshState, once a second.
Poll(h) == Begin(h, Job("getState", DefaultState)) /\ UNCHANGED <<toggle, wanted>>

\* The user clicks on the switch.
Click(h) ==
  /\ toggle' = ~toggle
  /\ Begin(h, Job("setState", State(~toggle, DefaultPort)))
  /\ wanted' = [wanted EXCEPT !.isActive = ~toggle]

\* latestState ?? defaultState
Shown == IF latestState = Absent THEN DefaultState ELSE latestState

\* submitPort: the popup sends a valid port, unless it shows an active extension.
SubmitPort(h, port) ==
  /\ ~Shown.isActive
  /\ port \in ValidPorts
  /\ Begin(h, Job("setPort", State(FALSE, port)))
  /\ wanted' = [wanted EXCEPT !.port = port]
  /\ UNCHANGED toggle

AlarmFires(h) ==
  /\ alarm
  /\ Begin(h, Job("alarm", DefaultState))
  /\ UNCHANGED <<toggle, wanted>>

\* Mutant: the switch stays where the user put it.
ShowKeepingToggle(state) == latestState' = state /\ UNCHANGED toggle

\* updateUI
Show(state) == latestState' = state /\ toggle' = state.isActive

-----------------------------------------------------------------------------
(* What handlers do with the state they have read.  `rest` are the requests *)
(* of the others.                                                          *)

Finish(h, rest) == pc' = [pc EXCEPT ![h] = "done"] /\ requests' = rest

\* createKeepAliveAlarm and startMaintaining, or clearKeepAliveAlarm and disconnect.
Switch(isActive) == alarm' = isActive /\ maintained' = isActive

\* The handler makes another request and waits for it.
Ask(request, rest) ==
  /\ requests' = Append(rest, request)
  /\ UNCHANGED <<pc, connection, popup>>

\* readStateResponse: a handler that has done its work, or failed, reads the state
\* again to respond with it.
ReadResponse(h, rest) ==
  /\ requests' = Append(rest, Get(h))
  /\ pc' = [pc EXCEPT ![h] = "responding"]
  /\ UNCHANGED popup

Refuse(h, rest) == ReadResponse(h, rest) /\ UNCHANGED connection

\* Mutant: a state that is as asked is not written again.
WriteStateIfChanged(h, state, rest) ==
  /\ job[h].kind = "setState"
  /\ IF job[h].arg.isActive # state.isActive
     THEN Ask(Request(h, "set", State(job[h].arg.isActive, state.port)), rest)
     ELSE ReadResponse(h, rest) /\ Switch(state.isActive)

\* handleStateChange writes the port it has read.
HasReadForSetState(h, state, rest) ==
  /\ job[h].kind = "setState"
  /\ Ask(Request(h, "set", State(job[h].arg.isActive, state.port)), rest)

\* Mutant: a port that is as asked is not written again.
SetPortIfChanged(h, state, rest) ==
  /\ job[h].kind = "setPort"
  /\ IF job[h].arg.port \in ValidPorts \ {state.port} /\ ~state.isActive
     THEN Ask(Request(h, "set", State(state.isActive, job[h].arg.port)), rest)
     ELSE Refuse(h, rest)

\* setPort refuses a port out of range or a change while the state is active.
HasReadForSetPort(h, state, rest) ==
  /\ job[h].kind = "setPort"
  /\ IF job[h].arg.port \in ValidPorts /\ ~state.isActive
     THEN Ask(Request(h, "set", State(state.isActive, job[h].arg.port)), rest)
     ELSE Refuse(h, rest)

\* The alarm restarts maintenance, or clears itself.
HasReadForAlarm(h, state, rest) ==
  /\ job[h].kind = "alarm"
  /\ alarm' = (alarm /\ state.isActive)
  /\ maintained' = (maintained \/ state.isActive)
  /\ Finish(h, rest)
  /\ UNCHANGED popup

\* Mutant: startup creates the alarm and leaves the rest to it.
StartupSetsAlarm(h, state, rest) ==
  /\ job[h].kind = "startup"
  /\ alarm' = state.isActive
  /\ UNCHANGED <<maintained, popup>>
  /\ Finish(h, rest)

\* Startup resumes what the stored state says.
HasReadForStartup(h, state, rest) ==
  /\ job[h].kind = "startup"
  /\ alarm' = state.isActive
  /\ maintained' = (maintained \/ state.isActive)
  /\ Finish(h, rest)
  /\ UNCHANGED popup

\* sendResponse
HasReadResponse(h, state, rest) ==
  /\ Finish(h, rest)
  /\ Show(state)
  /\ UNCHANGED connection

HasRead(h, state, rest) ==
  \/ /\ pc[h] = "reading"
     /\ \/ HasReadForSetState(h, state, rest)
        \/ HasReadForSetPort(h, state, rest)
        \/ HasReadForAlarm(h, state, rest)
        \/ HasReadForStartup(h, state, rest)
  \/ pc[h] = "responding" /\ HasReadResponse(h, state, rest)

-----------------------------------------------------------------------------
(* Storage.                                                                *)

\* Mutant: the legacy state is removed first.
MigrateLegacyRemovingFirst(h, rest) ==
  /\ stored = Absent /\ legacy # Absent
  /\ Ask(Request(h, "remove", Migrated(legacy)), rest)

\* The legacy state is written under the key of today, and removed afterwards.
MigrateLegacy(h, rest) ==
  /\ stored = Absent /\ legacy # Absent
  /\ Ask(Request(h, "migrateLegacy", Migrated(legacy)), rest)

\* A state without a port is written back with one.
MigratePort(h, rest) ==
  /\ stored # Absent /\ stored.port = NoPort
  /\ Ask(Request(h, "migrate", Migrated(stored)), rest)

\* What the handler of the first request does with its answer, if its worker lives.
Resume(Then(_, _, _)) ==
  LET request == Head(requests)
      rest == Tail(requests)
  IN \/ /\ pc[request.by] = "dead"
        /\ requests' = rest
        /\ UNCHANGED <<pc, connection, popup>>
     \/ /\ pc[request.by] # "dead"
        /\ Then(request.by, request.value, rest)

FirstIs(op) == requests # <<>> /\ Head(requests).op = op

HasGot(h, state, rest) ==
  \/ MigrateLegacy(h, rest)
  \/ MigratePort(h, rest)
  \/ stored # Absent /\ stored.port # NoPort /\ HasRead(h, stored, rest)
  \/ stored = Absent /\ legacy = Absent /\ HasRead(h, DefaultState, rest)

\* storage.local.get is answered.
AnswerGet ==
  /\ FirstIs("get")
  /\ Resume(HasGot)
  /\ UNCHANGED <<stored, legacy, job, wanted, settled, restarts>>

\* storage.local.set of a migrated state; the read returns it.
AnswerMigrate ==
  /\ FirstIs("migrate")
  /\ stored' = Head(requests).value
  /\ Resume(HasRead)
  /\ UNCHANGED <<legacy, job, wanted, settled, restarts>>

AskRemove(h, state, rest) == Ask(Request(h, "remove", state), rest)

\* storage.local.set of a migrated legacy state.
AnswerMigrateLegacy ==
  /\ FirstIs("migrateLegacy")
  /\ stored' = Head(requests).value
  /\ Resume(AskRemove)
  /\ UNCHANGED <<legacy, job, wanted, settled, restarts>>

\* storage.local.remove of the legacy state; the read returns what was migrated.
AnswerRemove ==
  /\ FirstIs("remove")
  /\ legacy' = Absent
  /\ Resume(HasRead)
  /\ UNCHANGED <<stored, job, wanted, settled, restarts>>

HasSet(h, state, rest) ==
  /\ ReadResponse(h, rest)
  /\ \/ job[h].kind = "setState" /\ Switch(state.isActive)
     \/ job[h].kind = "setPort" /\ UNCHANGED connection

\* storage.local.set is done and answered; setState then switches the connection.
AnswerSet ==
  /\ FirstIs("set")
  /\ stored' = Head(requests).value
  /\ Resume(HasSet)
  /\ UNCHANGED <<legacy, job, wanted, settled, restarts>>

AwaitsAnswer(h) == pc[h] \in {"reading", "responding"}

\* The browser stops the worker and starts it again.  Requests already made are
\* still executed; nobody waits for their answers.  The popup's messages fail: it
\* falls back to what it showed before.
RestartWorker ==
  /\ restarts < MaxRestarts /\ restarts' = restarts + 1
  /\ pc' = [h \in AllHandlers |-> IF h = restarts' THEN "reading"
                                  ELSE IF AwaitsAnswer(h) THEN "dead" ELSE pc[h]]
  /\ requests' = Append(requests, Get(restarts'))
  /\ maintained' = FALSE
  /\ IF \E h \in Handlers : AwaitsAnswer(h) /\ job[h].kind # "alarm"
     THEN Show(Shown)
     ELSE UNCHANGED popup
  /\ UNCHANGED <<stored, legacy, job, alarm, wanted, settled>>

-----------------------------------------------------------------------------

Next ==
  \/ \E h \in Handlers : Poll(h) \/ Click(h) \/ AlarmFires(h)
  \/ \E h \in Handlers, port \in Ports : SubmitPort(h, port)
  \/ AnswerGet
  \/ AnswerMigrate
  \/ AnswerMigrateLegacy
  \/ AnswerRemove
  \/ AnswerSet
  \/ RestartWorker

Spec == Init /\ [][Next]_vars

-----------------------------------------------------------------------------
(* Properties.                                                             *)

\* The variables have the types their comments give them (ActiveState of
\* StateManager.ts:11-14 and the handlers of background.ts); only states with
\* a valid port are written (StateManager.ts:36-55, background.ts:200-213).
TypeOK ==
  /\ stored \in OldStates \cup {Absent} /\ legacy \in OldStates \cup {Absent}
  /\ \A i \in DOMAIN requests :
       requests[i].by \in AllHandlers /\ requests[i].value \in ValidStates
  /\ pc \in [AllHandlers -> {"idle", "reading", "responding", "done", "dead"}]
  /\ job \in [AllHandlers -> Jobs \cup {StartupJob}]
  /\ maintained \in BOOLEAN /\ alarm \in BOOLEAN
  /\ latestState \in ValidStates \cup {Absent} /\ toggle \in BOOLEAN
  /\ wanted \in States /\ settled \in BOOLEAN

AtRest == requests = <<>>

\* No handler of this kind has begun.
None(kind) == \A h \in Handlers : job[h].kind # kind

\* Unless a change of the port interferes, at rest the connection is maintained, and
\* the alarm that wakes the worker for it exists, exactly if the stored state is
\* active, also when the worker died between the write and what follows it
\* (background.ts:129-143, 330-364).
MaintainedAsStored ==
  AtRest /\ None("setPort") => (maintained <=> Current.isActive) /\ (alarm <=> Current.isActive)

\* Unless the worker died or a change of the port interferes, and once the storage is
\* migrated, the last click on the popup's switch decides, whatever handlers overlap
\* (background.ts:181-190).  A handler whose read migrates may be overtaken.
LastSwitchWins ==
  AtRest /\ restarts = 0 /\ settled /\ None("setPort")
    => Current.isActive = wanted.isActive

\* While the extension is inactive and the storage is migrated, and unless the worker
\* died or the switch was clicked, the last valid port sent by the popup is the one
\* stored, whatever handlers overlap (background.ts:192-236).
LastPortWins ==
  AtRest /\ restarts = 0 /\ settled /\ None("setState") /\ ~Current.isActive
    => Current.port = wanted.port

\* Unless the worker died, a popup whose messages are all answered shows the stored
\* state, whatever clicks, ports, refusals, polls and migrations overlapped
\* (background.ts:60-111, popup/main.ts:23-86).
PopupShowsStored ==
  AtRest /\ restarts = 0 /\ latestState # Absent
    => latestState = Current /\ toggle = Current.isActive

\* A migration changes nothing: what a read returns changes only when a handler
\* writes what the popup asked for, never by a migration that was prepared before
\* another handler's write, or was cut off by the death of the worker
\* (StateManager.ts:23-59).
MigrationKeepsState == [][Current' # Current => Head(requests).op = "set"]_vars

\* The answer at background.ts:218 says "Cannot change the relay port while the
\* extension is active": no step that leaves the extension active changes its port.
PortFixedWhileActive ==
  [][Current'.port # Current.port => ~maintained' /\ ~Current'.isActive]_vars
=============================================================================
