# Verification of vibe-browser

TLA+ models of the relay and the browser extension of vibe-browser, the TLC runs that check
them, and proofs about them that TLAPS checks. Paths are relative to the repository; line
numbers are those of the modelled commit. `PROJECT.json` maps every definition to its lines.

## The system

An HTTP client (an agent, or one of the scripts) talks to the **relay**, a Bun process; the
relay talks over one websocket to the **extension** in the user's browser; the extension drives
tabs through `chrome.debugger` and sends debugger events back, which the relay streams to SSE
subscribers. The relay holds all its state in memory. The extension is a service worker: the
browser may stop it at any time, and only what it stored survives.

| Component | State | Operations | Hard because | Correct when |
|---|---|---|---|---|
| Relay (`skill/scripts/relay.ts`) | extension socket, next id, map of pending ids with their timers, keepalive interval, SSE clients | websocket open/message/close, POST /command, GET /health, GET /events, timeouts | sockets replace each other, close handlers come late, timeouts race with answers, the process restarts | every request is answered once, about its own command; nothing leaks; subscribers know the status |
| Connection (`extension/services/ConnectionManager.ts`) | socket in use, maintain flag, maintain fiber, event queue | maintain loop, attempt to connect, disconnect, socket events | attempts are interrupted, close events come late, the worker dies, the relay hangs | exactly one loop while active; the socket in use is live; it stays connected |
| Tab registry (`extension/services/tab.ts`, `background.ts`) | tabs with a target id | attach, ensureAttached, detach, detachAll, debugger and tab events, startup reset | every operation waits for `chrome.*` calls between its steps | registered means attached, and the reverse |
| Stored state (`extension/services/StateManager.ts`, `background.ts`) | isActive, port, and what older versions left | get with its migrations, set; getState, setState, setPort, alarm, startup | read, wait, write; a read may migrate; the worker dies in between | what runs is what is stored; the last click decides; the port is fixed while active; a migration changes no state |
| Popup (`extension/entrypoints/popup/main.ts`) | latestState, the switch, the port field | poll, click, submit a port | it sends while it waits for other responses, and responses to older reads move the switch | it shows what is stored |
| Command path (`relay.ts`, `RelayProtocol.ts`, `background.ts`, `cdp.ts`, `tab.ts`) | none | checks of the body on both sides, dispatch, answer | two programs check the same message, `ok` and status are computed from different fields | documented bodies are taken; status, `ok` and effect agree |
| Network recorder (`skill/scripts/record-network.ts`) | a record per open request, websockets seen, the file | SSE reader, events, body and post data fetches, cleanup by signal or timer | events, fetches, redirects, a breaking stream and the end of the recording overlap | a hop is written once, with its own response and body, nothing after `recorder_stop`; it ends |
| Active-target client (`skill/scripts/get-active-target.ts`) | none | four requests, prints | - | - |

They interact by websocket messages (relay and extension), calls (`background.ts` into the
services), queues inside the extension (`eventsQ`, `messagesQ`), and storage. The hazards of
the code, each at its line, are listed in `PROJECT.json`.

## Modules

    CommandBridge          what the relay promises its clients (abstract)
    Relay                  the relay process                         -> RelayProperties -> MCRelay
                                                                                       -> RelayProofs
    Connection             the extension's websocket and its loop    -> ConnectionProperties -> MCConnection
                                                                                       -> ConnectionProofs
    Tabs                   the registry of debugged tabs             -> TabsProperties -> MCTabs
                                                                                       -> TabsProofs
    ActiveState            the stored state, its handlers, the popup -> MCActiveState
                                                                     -> ActiveStateProofs
    CommandPath            one command from body to answer           -> MCCommandPath
                                                                     -> CommandPathProofs
    Recorder               the network recorder                      -> RecorderProperties -> MCRecorder
                                                                                       -> RecorderProofs
                                                                                          -> RecordHopProofs
    SequenceLemmas         what Append and Tail do to a queue        -> TabsProofs, ActiveStateProofs,
                                                                        RecordHopProofs

A module `X` holds state and actions, `XProperties` what must hold, `MCX` the instance TLC
checks, `XProofs` the proofs. Definitions marked "Mutant" are faulty variants of the definition
that follows them; nothing uses them, they serve to see that a property can fail
(`PROJECT.json` says which replaces what).

**Relay.** One action per JavaScript callback, which the event loop runs to its end.
`extension`, `nextId`, `pending`, `keepalive` and `sseClients` are the fields of `state`
(line 304); `timers` and `intervals` are what `setTimeout` and `setInterval` have armed;
`socket` is each websocket's life as `readyState` and the handlers show it; `work` is what the
extension holds; `http` and `reply` are the fate of each request. `sentOn` and `bornIn` are
history. Bun may run a close handler inside `close()` or later, so a replaced socket may end up
in either state. `ClosingSockets` are the sockets whose `readyState` can leave OPEN before their
close handler runs; runs mix both kinds, the proofs hold for any such set.

**CommandBridge** sees requests only: idle, waiting, answered, lost with a restart. An answer
is final and about the request's own command; after a restart it may be about a command made
before it. `Relay` implements it with `http`, `reply`, and the requests of earlier processes.

**Connection.** Actions are what runs between two waits: Effect runs the steps between two
asynchronous results in microtasks. `loop` is where the maintain fiber waits, `attempt` the
socket whose events can resume it, `hooks` which handlers a socket has. The relay's side
(`srv`, `accepted`) follows module Relay. A socket that both sides are done with is used again,
so three stand for any number. Another browser's extension may replace our connection at the
relay (`RivalAccepted`), finitely often. `LateClose` says whether the close event of an old socket may
come after a newer one opened (both are network events of different connections). Activate and
Deactivate begin when the stored state is written; the wait before is in ActiveState. The
keep-alive ping and contents of messages are left out.

**Tabs.** Each command, the sweep and the reset are fibers; an action of a fiber is what it
does with a result up to its next `chrome.*` call. Calls are executed in order, results and
events come back in order (one IPC channel). A call fails when what it asks for is not there
(`Possible`: the tab to attach is closed or attached, the tab to ask is not), and any call may
fail without such a reason (`Fail`), as every `catch` of `tab.ts` expects. `getTargetInfo` that
fails, or returns no `targetId`, after a successful `attach` leaves the tab attached and without an
entry, because nothing is undone (`tab.ts:88-116`). So does a `detach` of the sweep that fails, and
what the startup reset could not detach or list. `stranded` records these tabs until they are
detached or registered. What the relay is told of tabs is left out.

**ActiveState.** `requests` is the queue of storage operations in the order they were made;
those of a worker that died are still executed. A handler's steps are: begin (ask for a read),
go on when the read is answered, go on when the write is answered. The storage starts as this
or an older version left it: current, without a port, under the legacy key, or empty. A read
that finds an old state migrates it, with a write, a wait and a removal, before it returns. Each
start of the worker has a startup handler. One popup is open throughout; it polls, clicks and
submits ports while responses to earlier messages are out, and gets responses in the order they
are sent. A handler whose read migrates takes a round more than one that begins later, so "the
last click decides" is stated for handlers that began with a migrated storage (`settled`); the
overtaking itself is a hazard that no property covers.

**CommandPath.** A body is a record of what the checks can tell apart: which fields are there
and of which type. Both guards, the three ways through `parseHttpCommandBody`, the dispatch and
the mapping to statuses are operators. Codes about ports are not mapped: they never travel here.

**Recorder.** Actions are what runs between two awaits. `main` and `cleanup` are the two flows
of the script, `fetches` the handlers that wait for post data or a body. A redirected request
keeps its id; its hops are numbered, and a record keeps of each field the hop it comes from, 0 if
the field is not there. The browser, the extension and the relay are the environment: traffic
may happen at any time, events reach the stream if the domain is on and somebody reads, a stream
that ends loses what it held, commands fail or their answers get lost after they took effect.
`gaps` are the requests of which an event was lost.

Post data are asked for when a hop starts and are written into whichever record is there when they
arrive (`record-network.ts:694-702`): after a redirect those of the first hop end up in the record
of the second. This happens in the run. OneHopPerRecord promises the response and the body of each
hop, and the post data only of a request that was not redirected. A recording that is stopped
while main still waits for `Page.enable` may leave that domain on, and one stopped during
`Network.enable` both; DomainsReleased says so. Status messages are not there: the script looks
for them by `method` (`record-network.ts:1010`) while the relay sends `type` (`relay.ts:919,
996`), so that it drops each of them, although `network-recorder.md:66` lists `status` among the
record types. The disagreement shows in the two lines; no run is spent on it.

## Runs

| Run | Shows |
|---|---|
| `MCRelay` | a command and a probe over three connections, one of which is seen to close before its handler runs, one subscriber, and a restart while commands are out: TypeOK, TimerPerEntry, WaitingIffPending, NothingWaitsWithoutExtension, InFlightOnCurrent, OpenIsCurrent, OnlyCurrentIsPinged, SubscribersKnowStatus, OwnOutcomePerProcess, CommandsCorrelate, the refinement ImplementsBridge, and EveryRequestAnswered |
| `MCRelayIdReuse` | finding 1 |
| `MCConnection` | closes in order, with rivals: TypeOK, OneLoopWhileActive, AttemptCanEnd, RefIsLive, ConnectedIsTrue, LiveSocketIsUsed, ConnectionMaintained |
| `MCConnectionFlaps`, `MCConnectionLeaks` | findings 2 and 3 |
| `MCTabs` | two commands, a closed or canceled tab, a lost connection or a failing call, a restart: TypeOK, RegisteredIsAttached, AttachedIsRegistered, EveryFiberEnds, deadlock freedom |
| `MCTabsReset` | finding 4 |
| `MCActiveState` | TypeOK, MaintainedAsStored, LastSwitchWins, LastPortWins, PopupShowsStored, MigrationKeepsState |
| `MCActiveStatePort` | finding 5 |
| `MCCommandPath` | TypeOK, DocumentedIsTaken, OkIffSuccess, NothingDoneOn400, for every body and outcome |
| `MCRecorder` | a redirected, posting request, an unwanted one and a websocket, while the stream breaks, commands fail and a signal and the timer come: TypeOK, NothingAfterStop, WrittenOnce, AllWritten, OneHopPerRecord, DomainsReleased, RecorderEnds |
| `MCRecorderRedirect` | finding 6 |

**Bounds.** Relay: `MaxId` is the number of requests, so no request is kept from its id; two
requests let one wait, or be in flight, while another comes; three sockets let a socket be
replaced twice with two closes outstanding; the epochs that matter are "this process" and "an
earlier one", so one restart is enough for TLC, and the proofs are for any number. Connection:
`MaxChanges` counts what users, rivals and machines do (switching, deaths, relay starts and ends,
replacements); everything else is unbounded, and seven let the extension be switched, replaced,
die and lose its relay in one behaviour. The violations need 3 and 4. With late closes the
invariants other than LiveSocketIsUsed are proved, not run. Tabs: two tabs and two commands that
start again and again, with one closing or cancellation, one loss or one call that fails for no
reason (`MaxFaults` bounds both together, since AttachedIsRegistered speaks of behaviours without
losses), and one restart, each at any moment of the others' consequences. ActiveState: three
overlapping handlers (clicks, port changes, polls or alarms) beside the startup handlers of two
restarts, so a handler can be overtaken by another, with a third in the queue, and a migration can
be cut twice. CommandPath: no bound, every combination of fields. Recorder: `MaxHops` 2 lets one
redirect happen at each place; `MaxEvents` 4 is a whole request (start, redirect or response, end)
with one event to spare for another; one signal and the timer stand for any two that come in any
order.

Runs check for deadlock where the system cannot stop (Tabs). In the others a bound runs out or
each request, handler or command runs once, so a last state is normal.

**Fairness.** Relay: a timer that is armed fires unless cleared, nothing more: the extension,
the network and clients may do nothing. Connection: timers fire, storage answers, the browser
delivers socket events, the alarm starts a worker that died while active, and a relay that is
up runs its handlers; users and failures are not fair, and ConnectionMaintained is conditional
on their end. Tabs: the browser executes calls and delivers results and events, and the events
queue is consumed. Recorder: commands are answered, at the latest by the relay's timeout, and
timers fire; the stream and the traffic may do nothing. No strong fairness is assumed.

## Findings

1. **Ids start again with the process** (`relay.ts:545`, run `MCRelayIdReuse`). The extension
   keeps its commands over a reconnection, so a response to command 1 of the old relay answers
   command 1 of the new one, against the comment at line 544.
2. **A late close forgets the newer socket** (`ConnectionManager.ts:204`, `MCConnectionFlaps`).
   `onclose` clears `wsRef` without asking what it holds; the loop connects again, the relay
   replaces the forgotten socket, whose close can be late again.
3. **Switching off while connecting leaves a socket** (`ConnectionManager.ts:221`,
   `MCConnectionLeaks`). The interrupted attempt has no finalizer; the socket opens, the relay
   reports a connected extension, and commands time out.
4. **The startup reset detaches tabs in use** (`background.ts:320`, `MCTabsReset`). A command
   that found the tab attached registered it; it stays registered and unattached.
5. **setPort can undo a click on the switch** (`background.ts:226`, `MCActiveStatePort`). Its
   write of the state it read earlier comes after setState's: the port of an active extension
   changes and the stored state says inactive.
6. **A redirect loses a record** (`record-network.ts:686`, `MCRecorderRedirect`). The record of
   the next hop replaces that of the previous one, which is never written, although the script
   says at line 2 that it captures both HTTP(S) requests and WebSocket traffic.

Not counted as a finding, because it rests on what Chrome reports: `ensureAttached`
(`tab.ts:180`) takes `attached` of `chrome.debugger.getTargets` for its own attachment, but it
may be another debugger's. `ForeignTabs` in module Tabs are such tabs; the runs have none. Nor
is `isExtensionCommandEnvelope` (`relay.ts:242`), which checks less than the extension's guard
does: a command whose `params.params` is no object is sent, dropped by the extension, and answered
by its timeout; no document describes such a body.

## Proofs

Every invariant that a passing run checks, the action property MigrationKeepsState and the
refinement ImplementsBridge are proved for every value of the constants, from the named
assumptions of the modules only. These are, beside types and bounds: the recorder's requests are
finitely many, so that what cleanup writes is a finite sequence; the values that stand for
"nothing" (no entry, no tab, no port, no state) are none of the things they stand beside; and the
names of fibers and handlers differ (a command is not called "sweep", a handler is not the number
of a worker). TLC evaluates them in the runs.

`RelayProofs`, in three layers, each with Init and every action:

- `TypeCorrect`: `Spec => []TypeOK`.
- `ConnectionInv` = OpenIsCurrent, OnlyCurrentIsPinged, SubscribersKnowStatus and
  `ExtensionIsOpen` (the socket in use is open unless it is one of `ClosingSockets`). The last is the
  strengthening: without it an overwritten socket could still be open. `ConnectionsCorrect`
  follows.
- `CorrelationInv` = TimerPerEntry, WaitingIffPending, NothingWaitsWithoutExtension,
  InFlightOnCurrent, CommandsCorrelate, OwnOutcomePerProcess and `OutcomesAreOfCommandsMade`
  (an outcome reports on a request that was made). OwnOutcomePerProcess is not inductive: that
  a response meets its own request's entry is CommandsCorrelate, which rests on ids below
  `nextId` and on the epoch of the waiting request. `NoRequestOrphaned` and `OutcomeIsOwn`
  follow.
- `RelayImplementsBridge`: `Spec => Bridge!Spec`; every action is an abstract step or a stutter
  under these invariants.

`ConnectionProofs`: `LoopInv` gives `LoopCorrect` (TypeOK, OneLoopWhileActive, AttemptCanEnd);
`SocketInv` says which handlers go with which state of a socket and gives `RefCorrect`
(RefIsLive, ConnectedIsTrue, LiveSocketIsUsed).

`CommandPathProofs`: `CommandPathCorrect` (TypeOK, DocumentedIsTaken, OkIffSuccess,
NothingDoneOn400). The strengthening says that the response fits what was done and that there is
no answer before the stage that gives it; the rest is a case analysis of the checks and statuses.

`RecorderProofs`: `StopIsLast` (TypeOK, NothingAfterStop). `StopInv` says that before cleanup
`recorder_stop` is not in the file and that after it nobody reads and no record is open: a body
that arrives late finds no record, so it writes nothing. `TypeInv` adds the types of the stream's
events, which the handlers need. `NothingIsLost` (AllWritten): until cleanup a recorded hop is
written, replaced or open (`RecordsKept`), and what cleanup writes is all that is open, because an
injective sequence as long as a finite set covers it. That only an earlier hop is replaced rests on
`HopsInOrder`: the starts in the stream are in the order of the hops and later than those heard.

`NothingIsLeftOn` (DomainsReleased): `DomainInv` ties what each of cleanup's two answers has left
on (`Released`) to where main waited when cleanup began (`stoppedAt`). That lasts because main
switches on only what it then waited for and what comes after it (`StoppedAhead`).

`RecordHopProofs`: `NoHopTwice` (WrittenOnce) and `HopsAreNotMixed` (OneHopPerRecord), from
`OnceInv`, which has five parts because neither property says anything about what is still in the
stream, in the map or being fetched:

- `StreamInv`: in the stream the starts of a request come before its other events, the last start
  tells of the hop the browser has reached unless an event was lost, the others are of that hop,
  and what ends a request comes last.
- `FetchInv`: a body is asked for only when its request is over and no event of it is to come.
- `RecordsInv`: a record in the map is not written yet, has no body, and its hop was heard.
- `LastHopInv`: once all starts of a request are heard its record is that of its last hop, and it is
  there until the request is over. This is why a late body finds the right record or none.
- `FileInv`: a written hop was heard, so its start cannot come again; a line without a hop is the
  last of its request, so no event can open another.

The post data need `PostInv`: they are never of a hop the browser has not reached, and the records
they may meet are of a hop, unless an event was lost. A request that is not redirected has one
hop, so both are that one.

`TabsProofs`: `TabsTypes`, `RegisteredTabsAreAttached`, `AttachedTabsAreRegistered` (TypeOK,
RegisteredIsAttached, AttachedIsRegistered). Neither of the last two is inductive; both need where
every fiber is:

- `OneCallPerFiber`, `OwnTab`: a fiber waits for one call, which is either on its way to the
  browser or has its result on its way back, and a result tells only of its own tab.
- `FirstResetIsHarmless`, `TruthOnItsWay`: until the first restart the reset finds only tabs of
  other debuggers, because its call was made before any other, and what a command is about to be
  told is true unless the event that it no longer is, or the answer to a sweep, comes behind it.
  That results and events arrive in order is what makes RegisteredIsAttached hold; after a restart
  the reset detaches tabs in use (finding 4), and the invariant ends there.
- `NoSessionLeft`: without disconnections an attached tab is registered for good, or will be by
  a command that was or will be told so (`WillRegister`), or will be detached by the reset, or was
  left behind by a call that failed (`stranded`). A tab whose detach event is on its way although it
  is attached again is one that a command is about to be told of (`WillBeTold`).

`ActiveStateProofs`: six theorems about the queue of storage requests.

- `StateTypes` (TypeOK) and `MigrationsKeepState`: `MigrationInv` says that a migration under way
  writes what a read returns anyway, and that every write of a handler comes behind it.
- `LastSwitchDecides`, `LastPortDecides` (LastSwitchWins, LastPortWins): `LastAsWanted` reads the
  queue from its end. The last read of a handler that will write, or without one the last write,
  or without either the stored state, has what the popup asked for last. One definition serves
  both, with the kind of message as a parameter.
- `MaintainedAsTheStateSays` (MaintainedAsStored): `StartupInv` orders the queue around the request
  of the startup handler. What dead handlers left is executed before its read, what live
  handlers write comes behind what it read; once it went on, what runs is what is stored.
- `PopupIsFresh` (PopupShowsStored): if the popup shows something else, a response with the stored
  state is to come, and none with an older state comes behind it.

The inductive invariants of Tabs, ActiveState and RecordHopProofs were checked by TLC on the
instances of the runs before they were proved.

Only model-checked: EveryRequestAnswered, ConnectionMaintained, EveryFiberEnds and RecorderEnds,
which are liveness under fairness and beyond the prover. The violations are TLC's, too.

## Not modelled

- Recorder: the extra-info events (they may come before the event they belong to and, after a
  redirect, in the next hop's record), RAW, the target filter, truncation and redaction, and what
  runs before `Network.enable`.
- Relay: the payload of `/health`, which reads the connection before its probe, and the texts of
  errors.
- Extension: forwarding of debugger events, failing storage calls, the badge, logging.
- Popup: its texts, the contents of the port field and `isConnected`, which follow the same
  responses as the switch.
- Two browsers with the extension, both running forever: they replace each other's connection for
  as long as both run, so nothing is maintained. The model lets the rival act finitely often.
- The active-target client: four requests one after the other; it keeps no state, and what it
  asks are requests of Relay and CommandPath.
- Content script, icons, styles, build files: no logic.

## Plan

1. `Dispatch`: the extension's command fibers and event forwarding between Connection and Tabs,
   and a composition with Relay, in which a response may travel on another connection than its
   command; the abstract specification stays CommandBridge.
2. Proofs: the safety properties of what is composed, on the invariants of its parts; then the
   composition's refinement of CommandBridge.
3. Recorder: the extra-info events, with the hop they belong to.
