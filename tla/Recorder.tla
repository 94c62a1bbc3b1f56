------------------------------ MODULE Recorder ------------------------------
(***************************************************************************)
(* The network recorder (skill/scripts/record-network.ts): it switches on  *)
(* the Network and Page domains of a tab, reads the debugger's events from *)
(* the relay's event stream, keeps one record per request until the        *)
(* request is over, and writes records to a file until a signal or a timer *)
(* stops it.  Each action is what runs between two awaits: the script's    *)
(* main function, its cleanup, which a signal starts beside it, and the    *)
(* handlers that wait for post data or a body are separate flows.          *)
(*                                                                         *)
(* The browser, the extension and the relay are the environment: traffic,  *)
(* the event stream, and the answers to commands.  A request is redirected *)
(* under the same id; each of its hops has a number.  Of a record's fields *)
(* the model keeps the hops they come from, 0 when they are not there.     *)
(***************************************************************************)
EXTENDS Naturals, Sequences, SequencesExt

CONSTANTS
  HttpIds,      \* requestIds of HTTP requests
  SocketIds,    \* requestIds of websocket connections
  Unwanted,     \* ids whose URLs HTTP_ONLY or URL_INCLUDES leave out
  Posting,      \* HTTP requests whose post data the recorder asks for
  Signals,      \* what may stop the recorder: SIGINT, SIGTERM, AUTO_STOP
  NoRecord,     \* "no entry" in httpRecords
  MaxHops,      \* bound on the hops of a request
  MaxEvents     \* bound on the events of the traffic

Ids == HttpIds \cup SocketIds
Hops == 1 .. MaxHops

ASSUME RecorderConstants ==
  /\ HttpIds \cap SocketIds = {} /\ IsFiniteSet(HttpIds)
  /\ Unwanted \subseteq Ids
  /\ Posting \subseteq HttpIds
  /\ Signals \subseteq {"SIGINT", "SIGTERM", "AUTO_STOP"}
  /\ MaxHops \in Nat \ {0}
  /\ MaxEvents \in Nat

VARIABLES
  main,         \* where the function main waits
  cleanup,      \* where cleanup waits; "idle" before it was called
  armed,        \* signal handlers and timer that have not run
  httpRecords,  \* the map httpRecords
  wsConns,      \* the map wsConns: whether the URL of the connection is known
  fetches,      \* handlers that wait for the post data or the body of a request
  file,         \* the lines written
  stream,       \* events on their way to the recorder
  domains,      \* CDP domains that are on in the tab
  traffic,      \* the browser's requests and websockets: phase and hop
  emitted,      \* number of events of the traffic so far
  handled,      \* history: the hops whose start the recorder recorded
  gaps,         \* history: ids of which an event did not reach the recorder
  stoppedAt,    \* history: where main waited when cleanup was called
  failed        \* history: did a command about a domain fail?

recordVars == <<httpRecords, wsConns, fetches, file, handled>>
processVars == <<main, cleanup, armed, stoppedAt>>
browserVars == <<domains, traffic, emitted, failed>>
vars == <<main, cleanup, armed, httpRecords, wsConns, fetches, file, stream, domains,
          traffic, emitted, handled, gaps, stoppedAt, failed>>

-----------------------------------------------------------------------------
(* Records, lines and events.                                              *)

HttpRecord(id, hop) ==
  [kind |-> "http", id |-> id, hop |-> hop, response |-> 0, body |-> 0, post |-> 0,
   end |-> "open"]

HttpRecords ==
  [kind : {"http"}, id : HttpIds, hop : 0 .. MaxHops, response : 0 .. MaxHops,
   body : 0 .. MaxHops, post : 0 .. MaxHops, end : {"open", "finished", "failed"}]

ASSUME NoRecordIsNone == NoRecord \notin HttpRecords

Line(kind) == [kind |-> kind]
SocketLine(kind, id, url) == [kind |-> kind, id |-> id, url |-> url]
Lines == [kind : {"recorder_start", "recorder_stop"}]
           \cup [kind : {"ws_created", "ws_frame", "ws_closed"}, id : SocketIds,
                 url : {"known", "null"}]

Event(type, id, hop) == [type |-> type, id |-> id, hop |-> hop]
Fetch(what, id, hop) == [what |-> what, id |-> id, hop |-> hop]

\* Nothing of the process is left to run: the timer of AUTO_STOP keeps it alive.
Ended ==
  \/ main = "exited"
  \/ main = "done" /\ cleanup = "closed" /\ fetches = {} /\ "AUTO_STOP" \notin armed

\* The first line is written and Network.enable is on its way.
Init ==
  /\ main = "enablingNetwork"
  /\ cleanup = "idle"
  /\ armed = Signals
  /\ httpRecords = [id \in HttpIds |-> NoRecord]
  /\ wsConns = [id \in SocketIds |-> "absent"]
  /\ fetches = {}
  /\ file = <<Line("recorder_start")>>
  /\ stream = <<>>
  /\ domains = {}
  /\ traffic = [id \in Ids |-> [phase |-> "idle", hop |-> 0]]
  /\ emitted = 0
  /\ handled = {}
  /\ gaps = {}
  /\ stoppedAt = "nowhere"
  /\ failed = FALSE

-----------------------------------------------------------------------------
(* Writing.                                                                *)

\* A closed writer ignores what it is given.
Write(line) == file' = IF cleanup = "closed" THEN file ELSE Append(file, line)

\* Mutant: the record stays in the map.
EmitKeepingRecord(id, rec) ==
  Write(rec) /\ httpRecords' = [httpRecords EXCEPT ![id] = rec]

EmitHttpAndDelete(id, rec) ==
  Write(rec) /\ httpRecords' = [httpRecords EXCEPT ![id] = NoRecord]

OpenRecords == {httpRecords[id] : id \in HttpIds} \ {NoRecord}

\* Mutant: what is open at the end is not written.
DropOpenRecords ==
  /\ httpRecords' = [id \in HttpIds |-> NoRecord]
  /\ file' = Append(file, Line("recorder_stop"))

\* Mutant: what is written at the end stays in the map.
FlushKeepingRecords ==
  /\ UNCHANGED httpRecords
  /\ \E lines \in SetToSeqs(OpenRecords) :
       file' = file \o lines \o <<Line("recorder_stop")>>

\* What is open is written and deleted, then the last line is written.
FlushRecords ==
  /\ httpRecords' = [id \in HttpIds |-> NoRecord]
  /\ \E lines \in SetToSeqs(OpenRecords) :
       file' = file \o lines \o <<Line("recorder_stop")>>

-----------------------------------------------------------------------------
(* Stopping.                                                               *)

\* Mutant: stop does not abort the stream.
StreamGoesOn == main

\* Where main is once stop.stop has run: streamSse is aborted and returns.
StreamAborted == IF main \in {"subscribing", "reading"} THEN "done" ELSE main

\* cleanup, up to its first await.
Cleanup ==
  /\ cleanup = "idle"
  /\ cleanup' = "disablingNetwork"
  /\ stoppedAt' = main
  /\ FlushRecords
  /\ main' = StreamAborted
  /\ stream' = IF main' = "reading" THEN stream ELSE <<>>
  /\ UNCHANGED <<wsConns, fetches, handled, browserVars, gaps>>

\* A signal or the timer calls cleanup, which does nothing the second time.
Stop(signal) ==
  /\ ~Ended
  /\ signal \in armed
  /\ armed' = armed \ {signal}
  /\ \/ Cleanup
     \/ /\ cleanup # "idle"
        /\ UNCHANGED <<main, cleanup, stoppedAt, recordVars, stream, browserVars, gaps>>

\* The handlers are installed once: the same signal again ends the process.
Kill(signal) ==
  /\ ~Ended
  /\ signal \in Signals \ (armed \cup {"AUTO_STOP"})
  /\ main' = "exited"
  /\ stream' = <<>>
  /\ UNCHANGED <<cleanup, armed, stoppedAt, recordVars, browserVars, gaps>>

\* The outcomes of a command that switches the domains to `on`.  One that fails,
\* or whose answer is lost, may have been executed.
Switched(on) == domains' = on /\ UNCHANGED failed
SwitchFailed(on) == domains' \in {domains, on} /\ failed' = TRUE

\* Mutant: Page.disable is not called.
NetworkDisabledOnly ==
  /\ cleanup = "disablingNetwork"
  /\ cleanup' = "closed"
  /\ Switched(domains \ {"Network"}) \/ SwitchFailed(domains \ {"Network"})
  /\ UNCHANGED <<main, armed, stoppedAt, recordVars, stream, traffic, emitted, gaps>>

\* The answer to cleanup's Network.disable; a failure is ignored.
NetworkDisabled ==
  /\ main # "exited"
  /\ cleanup = "disablingNetwork"
  /\ cleanup' = "disablingPage"
  /\ Switched(domains \ {"Network"}) \/ SwitchFailed(domains \ {"Network"})
  /\ UNCHANGED <<main, armed, stoppedAt, recordVars, stream, traffic, emitted, gaps>>

\* The answer to its Page.disable, after which the writer is closed.
PageDisabled ==
  /\ main # "exited"
  /\ cleanup = "disablingPage"
  /\ cleanup' = "closed"
  /\ Switched(domains \ {"Page"}) \/ SwitchFailed(domains \ {"Page"})
  /\ UNCHANGED <<main, armed, stoppedAt, recordVars, stream, traffic, emitted, gaps>>

-----------------------------------------------------------------------------
(* The function main and its reading of the event stream.                  *)

\* The answer to Network.enable.  A failure rejects main: the process ends
\* without a cleanup, or in the middle of it.
NetworkEnabled ==
  /\ main = "enablingNetwork"
  /\ \/ Switched(domains \cup {"Network"}) /\ main' = "enablingPage"
     \/ SwitchFailed(domains \cup {"Network"}) /\ main' = "exited"
  /\ UNCHANGED <<cleanup, armed, stoppedAt, recordVars, stream, traffic, emitted, gaps>>

\* The answer to Page.enable, after which main sleeps.
PageEnabled ==
  /\ main = "enablingPage"
  /\ main' = "sleeping"
  /\ Switched(domains \cup {"Page"}) \/ SwitchFailed(domains \cup {"Page"})
  /\ UNCHANGED <<cleanup, armed, stoppedAt, recordVars, stream, traffic, emitted, gaps>>

\* The end of the sleep before the stream, or of the backoff between two streams.
Slept ==
  /\ main \in {"sleeping", "backoff"}
  /\ main' = IF cleanup = "idle" THEN "subscribing" ELSE "done"
  /\ UNCHANGED <<cleanup, armed, stoppedAt, recordVars, stream, browserVars, gaps>>

\* The relay answers GET /events.
Subscribed ==
  /\ main = "subscribing"
  /\ main' = "reading"
  /\ UNCHANGED <<cleanup, armed, stoppedAt, recordVars, stream, browserVars, gaps>>

\* GET /events fails.
SubscribeFailed ==
  /\ main = "subscribing"
  /\ main' = "backoff"
  /\ UNCHANGED <<cleanup, armed, stoppedAt, recordVars, stream, browserVars, gaps>>

\* GET /events fails with an error that reads like an abort: streamSse returns,
\* and main cleans up.
SubscribeAborted == main = "subscribing" /\ Cleanup /\ UNCHANGED armed

\* The stream ends or breaks: what it still held is lost.
StreamEnds ==
  /\ main = "reading"
  /\ main' = "backoff"
  /\ stream' = <<>>
  /\ gaps' = gaps \cup {stream[i].id : i \in DOMAIN stream}
  /\ UNCHANGED <<cleanup, armed, stoppedAt, recordVars, browserVars>>

-----------------------------------------------------------------------------
(* Handlers of HTTP events: onHttpEvent.                                   *)

\* httpRecords.get(requestId) ?? {...}
Current(id) == IF httpRecords[id] = NoRecord THEN HttpRecord(id, 0) ELSE httpRecords[id]

\* Mutant: a record that is there is kept, as the other handlers do.
RequestWillBeSentAgain(e) ==
  /\ e.type = "requestWillBeSent"
  /\ httpRecords' = [httpRecords EXCEPT ![e.id] =
       IF httpRecords[e.id] = NoRecord THEN HttpRecord(e.id, e.hop) ELSE @]
  /\ UNCHANGED <<fetches, wsConns, file, handled>>

\* A new record replaces the one of the previous hop.
RequestWillBeSent(e) ==
  /\ e.type = "requestWillBeSent"
  /\ IF e.id \in Unwanted
     THEN UNCHANGED <<httpRecords, handled, fetches>>
     ELSE /\ httpRecords' = [httpRecords EXCEPT ![e.id] = HttpRecord(e.id, e.hop)]
          /\ handled' = handled \cup {<<e.id, e.hop>>}
          /\ fetches' = IF e.id \in Posting THEN fetches \cup {Fetch("post", e.id, e.hop)}
                        ELSE fetches
  /\ UNCHANGED <<wsConns, file>>

ResponseReceived(e) ==
  /\ e.type = "responseReceived"
  /\ httpRecords' = IF e.id \in Unwanted THEN httpRecords
                    ELSE [httpRecords EXCEPT ![e.id] = [Current(e.id) EXCEPT !.response = e.hop]]
  /\ UNCHANGED <<fetches, wsConns, file, handled>>

\* The body is asked for; the record stays until the answer.
LoadingFinished(e) ==
  /\ e.type = "loadingFinished"
  /\ fetches' = IF httpRecords[e.id] = NoRecord THEN fetches
                ELSE fetches \cup {Fetch("body", e.id, e.hop)}
  /\ UNCHANGED <<httpRecords, wsConns, file, handled>>

\* A request that is not in the map gets a record, also an unwanted one.
LoadingFailed(e) ==
  /\ e.type = "loadingFailed"
  /\ EmitHttpAndDelete(e.id, [Current(e.id) EXCEPT !.end = "failed"])
  /\ UNCHANGED <<fetches, wsConns, handled>>

\* What fetchRequestPostData may return: the data of the hop the browser has reached
\* by then, or none.
RequestPostData(f) == {0} \cup (f.hop .. traffic[f.id].hop)

\* The post data go to the record that is there now.
PostDataArrives(f) ==
  /\ main # "exited"
  /\ f.what = "post"
  /\ fetches' = fetches \ {f}
  /\ \E hop \in RequestPostData(f) :
       httpRecords' = IF httpRecords[f.id] = NoRecord \/ hop = 0 THEN httpRecords
                      ELSE [httpRecords EXCEPT ![f.id].post = hop]
  /\ UNCHANGED <<processVars, wsConns, file, handled, stream, browserVars, gaps>>

\* Mutant: the record is not looked up again.
BodyArrivesLate(f) ==
  /\ f.what = "body"
  /\ fetches' = fetches \ {f}
  /\ Write(httpRecords[f.id])
  /\ UNCHANGED <<httpRecords, processVars, wsConns, handled, stream, browserVars, gaps>>

\* What fetchResponseBody may return: the body, or the reason why there is none.
ResponseBody(f) == {0, traffic[f.id].hop}

\* The record gets the body and is written, unless it is gone.
BodyArrives(f) ==
  /\ main # "exited"
  /\ f.what = "body"
  /\ fetches' = fetches \ {f}
  /\ IF httpRecords[f.id] = NoRecord
     THEN UNCHANGED <<httpRecords, file>>
     ELSE \E hop \in ResponseBody(f) :
            EmitHttpAndDelete(f.id, [httpRecords[f.id] EXCEPT !.body = hop, !.end = "finished"])
  /\ UNCHANGED <<processVars, wsConns, handled, stream, browserVars, gaps>>

-----------------------------------------------------------------------------
(* Handlers of websocket events: onWsEvent.                                *)

\* A connection is left out once its URL is known to be unwanted.
IsWsFilteredOut(id, conn) == conn = "named" /\ id \in Unwanted

WebSocketCreated(e) ==
  /\ e.type = "webSocketCreated"
  /\ wsConns' = [wsConns EXCEPT ![e.id] = "named"]
  /\ IF IsWsFilteredOut(e.id, "named") THEN UNCHANGED file
     ELSE Write(SocketLine("ws_created", e.id, "known"))
  /\ UNCHANGED <<httpRecords, fetches, handled>>

\* getWsConn: an unknown connection is entered without its URL.
Conn(id) == IF wsConns[id] = "absent" THEN "unnamed" ELSE wsConns[id]
Url(id) == IF Conn(id) = "named" THEN "known" ELSE "null"

\* Handshakes, frames and frame errors.
WebSocketFrame(e) ==
  /\ e.type = "webSocketFrame"
  /\ wsConns' = [wsConns EXCEPT ![e.id] = Conn(e.id)]
  /\ IF IsWsFilteredOut(e.id, Conn(e.id)) THEN UNCHANGED file
     ELSE Write(SocketLine("ws_frame", e.id, Url(e.id)))
  /\ UNCHANGED <<httpRecords, fetches, handled>>

\* A connection that is left out stays in the map.
WebSocketClosed(e) ==
  /\ e.type = "webSocketClosed"
  /\ IF IsWsFilteredOut(e.id, Conn(e.id)) THEN UNCHANGED <<wsConns, file>>
     ELSE /\ wsConns' = [wsConns EXCEPT ![e.id] = "absent"]
          /\ Write(SocketLine("ws_closed", e.id, Url(e.id)))
  /\ UNCHANGED <<httpRecords, fetches, handled>>

\* onMsg: the next event of the stream.  Status messages are not recognised.
OnMsg ==
  /\ main = "reading"
  /\ stream # <<>>
  /\ stream' = Tail(stream)
  /\ LET e == Head(stream) IN
       \/ RequestWillBeSent(e)
       \/ ResponseReceived(e)
       \/ LoadingFinished(e)
       \/ LoadingFailed(e)
       \/ WebSocketCreated(e)
       \/ WebSocketFrame(e)
       \/ WebSocketClosed(e)
  /\ UNCHANGED <<processVars, browserVars, gaps>>

-----------------------------------------------------------------------------
(* The browser's traffic, which the extension and the relay forward.       *)

\* The event reaches the stream if the domain is on and somebody reads.  Traffic
\* after the last reading concerns nobody and is left out.
Happens(type, id, phase, hop) ==
  /\ main \notin {"done", "exited"}
  /\ emitted < MaxEvents
  /\ emitted' = emitted + 1
  /\ traffic' = [traffic EXCEPT ![id] = [phase |-> phase, hop |-> hop]]
  /\ IF "Network" \in domains /\ main = "reading"
     THEN stream' = Append(stream, Event(type, id, hop)) /\ UNCHANGED gaps
     ELSE gaps' = gaps \cup {id} /\ UNCHANGED stream
  /\ UNCHANGED <<processVars, recordVars, domains, failed>>

\* The request is sent, or redirected and sent again.
Request(id) ==
  /\ traffic[id].phase \in {"idle", "loading"}
  /\ traffic[id].hop < MaxHops
  /\ Happens("requestWillBeSent", id, "loading", traffic[id].hop + 1)

Response(id) ==
  /\ traffic[id].phase = "loading"
  /\ Happens("responseReceived", id, "responded", traffic[id].hop)

Finish(id) ==
  /\ traffic[id].phase = "responded"
  /\ Happens("loadingFinished", id, "over", traffic[id].hop)

Fail(id) ==
  /\ traffic[id].phase \in {"loading", "responded"}
  /\ Happens("loadingFailed", id, "over", traffic[id].hop)

Connect(id) == traffic[id].phase = "idle" /\ Happens("webSocketCreated", id, "loading", 0)
Frame(id) == traffic[id].phase = "loading" /\ Happens("webSocketFrame", id, "loading", 0)
Close(id) == traffic[id].phase = "loading" /\ Happens("webSocketClosed", id, "over", 0)

-----------------------------------------------------------------------------

\* Steps of the process that come by themselves: answers and timers.
MainStep == NetworkEnabled \/ PageEnabled \/ Slept
CleanupStep == NetworkDisabled \/ PageDisabled

Next ==
  \/ \E signal \in Signals : Stop(signal) \/ Kill(signal)
  \/ MainStep
  \/ CleanupStep
  \/ Subscribed
  \/ SubscribeFailed
  \/ SubscribeAborted
  \/ StreamEnds
  \/ OnMsg
  \/ \E f \in fetches : PostDataArrives(f) \/ BodyArrives(f)
  \/ \E id \in HttpIds : Request(id) \/ Response(id) \/ Finish(id) \/ Fail(id)
  \/ \E id \in SocketIds : Connect(id) \/ Frame(id) \/ Close(id)

Spec == Init /\ [][Next]_vars

\* Commands are answered, at the latest by the relay's timeout, and timers fire.
Fairness ==
  /\ WF_vars(MainStep)
  /\ WF_vars(CleanupStep)
  /\ WF_vars(Stop("AUTO_STOP"))
  /\ WF_vars(\E f \in fetches : PostDataArrives(f) \/ BodyArrives(f))

FairSpec == Spec /\ Fairness
=============================================================================
