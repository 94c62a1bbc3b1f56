--------------------------- MODULE RecorderProofs ---------------------------
(***************************************************************************)
(* Proofs about the recorder, for any requests, signals and bounds.        *)
(***************************************************************************)
EXTENDS RecorderProperties, FiniteSetTheorems, SequenceTheorems, TLAPS

FileLines == HttpRecords \cup Lines

HttpEvents ==
  [type : {"requestWillBeSent"}, id : HttpIds, hop : Hops]
    \cup [type : {"responseReceived", "loadingFinished", "loadingFailed"},
          id : HttpIds, hop : 0 .. MaxHops]

SocketEvents ==
  [type : {"webSocketCreated", "webSocketFrame", "webSocketClosed"},
   id : SocketIds, hop : {0}]

\* Refines the types of TypeOK to what the steps need: what the handlers write ...
RecordsTyped ==
  /\ httpRecords \in [HttpIds -> HttpRecords \cup {NoRecord}]
  /\ wsConns \in [SocketIds -> {"absent", "unnamed", "named"}]
  /\ fetches \subseteq [what : {"post", "body"}, id : HttpIds, hop : 0 .. MaxHops]
  /\ file \in Seq(FileLines)
  /\ handled \subseteq HttpIds \X Hops

\* ... and all the rest.
TypeInv ==
  /\ RecordsTyped
  /\ main \in {"enablingNetwork", "enablingPage", "sleeping", "subscribing", "reading",
               "backoff", "done", "exited"}
  /\ cleanup \in {"idle", "disablingNetwork", "disablingPage", "closed"}
  /\ armed \subseteq Signals
  /\ stream \in Seq(HttpEvents \cup SocketEvents)
  /\ domains \subseteq {"Network", "Page"}
  /\ traffic \in [Ids -> [phase : {"idle", "loading", "responded", "over"},
                          hop : 0 .. MaxHops]]
  /\ gaps \subseteq Ids
  /\ failed \in BOOLEAN

\* Before cleanup there is no last line; after it nobody reads and no record is open.
StopInv ==
  /\ cleanup = "idle" => \A i \in DOMAIN file : file[i].kind # "recorder_stop"
  /\ cleanup # "idle" => /\ main \notin {"subscribing", "reading"}
                         /\ \A id \in HttpIds : httpRecords[id] = NoRecord
  /\ NothingAfterStop

-----------------------------------------------------------------------------
(* Lemmas about what is written.                                           *)

\* A line that is not the last one may be written before cleanup.
LEMMA WriteKeeps ==
  ASSUME file \in Seq(FileLines), NEW line \in FileLines, Write(line)
  PROVE  /\ file' \in Seq(FileLines)
         /\ cleanup = "idle" /\ line.kind # "recorder_stop"
              /\ (\A i \in DOMAIN file : file[i].kind # "recorder_stop")
            => \A i \in DOMAIN file' : file'[i].kind # "recorder_stop"
  BY AppendProperties DEF Write

\* The open records are finitely many.
LEMMA OpenRecordsFinite ==
  ASSUME httpRecords \in [HttpIds -> HttpRecords \cup {NoRecord}]
  PROVE  /\ OpenRecords \subseteq HttpRecords
         /\ IsFiniteSet(OpenRecords)
         /\ Cardinality(OpenRecords) \in Nat
<1> DEFINE T == {httpRecords[id] : id \in HttpIds}
<1>1. httpRecords \in Surjection(HttpIds, T)
  BY DEF Surjection
<1>2. IsFiniteSet(T)
  BY <1>1, FS_Surjection, RecorderConstants
<1>3. IsFiniteSet(OpenRecords)
  BY <1>2, FS_Subset DEF OpenRecords
<1> QED BY <1>3, FS_CardinalityType DEF OpenRecords

\* What cleanup writes are lines, and recorder_stop is the last of them.
LEMMA FlushKeeps ==
  ASSUME httpRecords \in [HttpIds -> HttpRecords \cup {NoRecord}],
         file \in Seq(FileLines),
         \A i \in DOMAIN file : file[i].kind # "recorder_stop",
         FlushRecords
  PROVE  /\ file' \in Seq(FileLines)
         /\ NothingAfterStop'
         /\ httpRecords' = [id \in HttpIds |-> NoRecord]
<1>1. PICK lines \in SetToSeqs(OpenRecords) :
        file' = file \o lines \o <<Line("recorder_stop")>>
  BY DEF FlushRecords
<1>2. lines \in Seq(OpenRecords)
  BY OpenRecordsFinite, RecorderConstants DEF SetToSeqs
<1>3. lines \in Seq(FileLines) /\ \A i \in DOMAIN lines : lines[i].kind = "http"
  BY <1>2, OpenRecordsFinite, RecorderConstants DEF FileLines, HttpRecords
<1>4. <<Line("recorder_stop")>> \in Seq(FileLines)
  BY DEF Line, Lines, FileLines
<1> DEFINE front == file \o lines
<1>5. /\ front \in Seq(FileLines) /\ Len(front) = Len(file) + Len(lines)
      /\ \A i \in 1 .. Len(front) : front[i] = IF i <= Len(file) THEN file[i]
                                               ELSE lines[i - Len(file)]
  BY <1>3, ConcatProperties
<1>6. \A i \in 1 .. Len(front) : front[i].kind # "recorder_stop"
  BY <1>3, <1>5
<1> HIDE DEF front
<1>7. /\ file' \in Seq(FileLines) /\ Len(file') = Len(front) + 1
      /\ \A i \in 1 .. Len(front) : file'[i] = front[i]
  BY <1>1, <1>4, <1>5, ConcatProperties DEF front
<1>8. NothingAfterStop'
  <2> SUFFICES ASSUME NEW i \in DOMAIN file', file'[i].kind = "recorder_stop"
               PROVE  i = Len(file')
    BY DEF NothingAfterStop
  <2>1. Len(front) \in Nat /\ i \in 1 .. Len(front) + 1
    BY <1>5, <1>7
  <2>2. i \notin 1 .. Len(front)
    BY <1>6, <1>7
  <2> QED BY <1>7, <2>1, <2>2
<1> QED BY <1>7, <1>8 DEF FlushRecords

-----------------------------------------------------------------------------
(* Types.                                                                  *)

LEMMA TypeInit == Init => TypeInv
<1> SUFFICES ASSUME Init PROVE TypeInv
  OBVIOUS
<1>1. file \in Seq(FileLines)
  BY DEF Init, Line, Lines, FileLines
<1>2. traffic \in [Ids -> [phase : {"idle", "loading", "responded", "over"},
                           hop : 0 .. MaxHops]]
  BY RecorderConstants DEF Init
<1>3. httpRecords \in [HttpIds -> HttpRecords \cup {NoRecord}]
  BY DEF Init
<1>4. stream \in Seq(HttpEvents \cup SocketEvents)
  BY DEF Init
<1>5. /\ wsConns \in [SocketIds -> {"absent", "unnamed", "named"}]
      /\ fetches = {} /\ domains = {} /\ handled = {} /\ gaps = {}
      /\ failed = FALSE /\ armed = Signals
      /\ main = "enablingNetwork" /\ cleanup = "idle"
  BY DEF Init
<1> HIDE DEF Init
<1> QED BY <1>1, <1>2, <1>3, <1>4, <1>5 DEF TypeInv, RecordsTyped

\* cleanup is called: by a signal, or by main.
LEMMA CleanupType ==
  ASSUME TypeInv, StopInv, Cleanup, armed' \subseteq Signals
  PROVE  TypeInv' /\ StopInv'
<1>1. /\ file' \in Seq(FileLines) /\ NothingAfterStop'
      /\ httpRecords' = [id \in HttpIds |-> NoRecord]
  BY FlushKeeps DEF Cleanup, TypeInv, RecordsTyped, StopInv
<1>2. stream' \in Seq(HttpEvents \cup SocketEvents)
  BY DEF Cleanup, TypeInv, RecordsTyped
<1>3. /\ cleanup' = "disablingNetwork"
      /\ main' \notin {"subscribing", "reading"}
      /\ main' \in {"enablingNetwork", "enablingPage", "sleeping", "subscribing",
                    "reading", "backoff", "done", "exited"}
  BY DEF Cleanup, StreamAborted, TypeInv, RecordsTyped
<1>4. UNCHANGED <<wsConns, fetches, domains, traffic, handled, gaps, failed>>
  BY DEF Cleanup, browserVars
<1>5. httpRecords' \in [HttpIds -> HttpRecords \cup {NoRecord}]
  BY <1>1
<1>6. TypeInv'
  BY <1>1, <1>2, <1>3, <1>4, <1>5 DEF TypeInv, RecordsTyped
<1> QED BY <1>1, <1>3, <1>6 DEF StopInv

\* The steps of main, of cleanup's answers and of the stream write nothing.
LEMMA ProcessType ==
  /\ TypeInv
  /\ MainStep \/ CleanupStep \/ Subscribed \/ SubscribeFailed \/ StreamEnds
  => TypeInv'
<1> SUFFICES ASSUME TypeInv PROVE /\ MainStep => TypeInv'
                                  /\ CleanupStep => TypeInv'
                                  /\ Subscribed \/ SubscribeFailed \/ StreamEnds => TypeInv'
  OBVIOUS
<1> USE DEF TypeInv, RecordsTyped, recordVars, browserVars
<1>1. ASSUME NetworkEnabled \/ PageEnabled PROVE TypeInv'
  BY <1>1 DEF NetworkEnabled, PageEnabled, Switched, SwitchFailed
<1>2. ASSUME NetworkDisabled \/ PageDisabled PROVE TypeInv'
  BY <1>2 DEF NetworkDisabled, PageDisabled, Switched, SwitchFailed
<1>3. ASSUME Slept \/ Subscribed \/ SubscribeFailed PROVE TypeInv'
  BY <1>3 DEF Slept, Subscribed, SubscribeFailed
<1>4. ASSUME StreamEnds PROVE TypeInv'
  <2>1. \A i \in DOMAIN stream : stream[i].id \in Ids
    BY DEF HttpEvents, SocketEvents, Ids
  <2> QED BY <1>4, <2>1 DEF StreamEnds
<1> QED BY <1>1, <1>2, <1>3, <1>4 DEF MainStep, CleanupStep

\* The handlers of events and of late answers.
LEMMA RecordTypes ==
  ASSUME NEW id \in HttpIds, NEW hop \in 0 .. MaxHops, TypeInv
  PROVE  /\ HttpRecord(id, hop) \in HttpRecords
         /\ Current(id) \in HttpRecords
<1>1. HttpRecord(id, hop) \in HttpRecords /\ HttpRecord(id, 0) \in HttpRecords
  BY RecorderConstants DEF HttpRecord, HttpRecords
<1> QED BY <1>1 DEF Current, TypeInv, RecordsTyped

LEMMA HttpType ==
  ASSUME TypeInv, NEW e \in HttpEvents,
         RequestWillBeSent(e) \/ ResponseReceived(e) \/ LoadingFinished(e) \/ LoadingFailed(e)
  PROVE  RecordsTyped'
<1> USE DEF TypeInv, RecordsTyped
<1>0. e.id \in HttpIds /\ e.hop \in 0 .. MaxHops
  BY RecorderConstants DEF HttpEvents, Hops
<1>1. CASE RequestWillBeSent(e)
  <2>1. HttpRecord(e.id, e.hop) \in HttpRecords
    BY <1>0, RecordTypes
  <2>2. e.hop \in Hops
    BY <1>1 DEF RequestWillBeSent, HttpEvents
  <2>3. Fetch("post", e.id, e.hop) \in [what : {"post", "body"}, id : HttpIds, hop : 0 .. MaxHops]
    BY <1>0 DEF Fetch
  <2> QED BY <1>0, <1>1, <2>1, <2>2, <2>3 DEF RequestWillBeSent
<1>2. CASE ResponseReceived(e)
  <2>0. Current(e.id) \in HttpRecords
    BY <1>0, RecordTypes
  <2>1. [Current(e.id) EXCEPT !.response = e.hop] \in HttpRecords
    BY <1>0, <2>0 DEF HttpRecords
  <2> QED BY <1>0, <1>2, <2>1 DEF ResponseReceived
<1>3. CASE LoadingFinished(e)
  BY <1>0, <1>3 DEF LoadingFinished, Fetch
<1>4. CASE LoadingFailed(e)
  <2>0. Current(e.id) \in HttpRecords
    BY <1>0, RecordTypes
  <2>1. [Current(e.id) EXCEPT !.end = "failed"] \in HttpRecords
    BY <2>0 DEF HttpRecords
  <2>2. file' \in Seq(FileLines)
    BY <1>4, <2>1, WriteKeeps DEF LoadingFailed, EmitHttpAndDelete, FileLines
  <2> QED BY <1>0, <1>4, <2>2 DEF LoadingFailed, EmitHttpAndDelete
<1> QED BY <1>1, <1>2, <1>3, <1>4

LEMMA SocketType ==
  ASSUME TypeInv, NEW e \in SocketEvents,
         WebSocketCreated(e) \/ WebSocketFrame(e) \/ WebSocketClosed(e)
  PROVE  RecordsTyped'
<1> USE DEF TypeInv, RecordsTyped
<1>0. e.id \in SocketIds
  BY DEF SocketEvents
<1>1. /\ Conn(e.id) \in {"unnamed", "named"} /\ Url(e.id) \in {"known", "null"}
      /\ \A kind \in {"ws_created", "ws_frame", "ws_closed"}, url \in {"known", "null"} :
           SocketLine(kind, e.id, url) \in FileLines
  BY <1>0 DEF Conn, Url, SocketLine, Lines, FileLines
<1>2. file' = file \/ \E kind \in {"ws_created", "ws_frame", "ws_closed"},
                         url \in {"known", "null"} : Write(SocketLine(kind, e.id, url))
  BY <1>1 DEF WebSocketCreated, WebSocketFrame, WebSocketClosed
<1>3. file' \in Seq(FileLines)
  BY <1>1, <1>2, WriteKeeps
<1> QED BY <1>0, <1>1, <1>3 DEF WebSocketCreated, WebSocketFrame, WebSocketClosed

\* The handlers that wait for an answer.
LEMMA AnswerType ==
  ASSUME TypeInv, NEW f \in fetches, PostDataArrives(f) \/ BodyArrives(f)
  PROVE  TypeInv'
<1> USE DEF TypeInv, RecordsTyped, processVars, browserVars
<1>0. f.id \in HttpIds /\ f.hop \in 0 .. MaxHops /\ fetches' \subseteq fetches
  BY DEF PostDataArrives, BodyArrives
<1>1. traffic[f.id].hop \in 0 .. MaxHops
  BY <1>0 DEF Ids
<1>2. CASE PostDataArrives(f)
  <2>1. RequestPostData(f) \subseteq 0 .. MaxHops
    BY <1>0, <1>1, RecorderConstants DEF RequestPostData
  <2>2. ASSUME NEW hop \in 0 .. MaxHops, httpRecords[f.id] # NoRecord
        PROVE  [httpRecords[f.id] EXCEPT !.post = hop] \in HttpRecords
    <3>1. httpRecords[f.id] \in HttpRecords
      BY <1>0, <2>2
    <3> QED BY <3>1 DEF HttpRecords
  <2>3. httpRecords' \in [HttpIds -> HttpRecords \cup {NoRecord}]
    BY <1>0, <1>2, <2>1, <2>2 DEF PostDataArrives
  <2> QED BY <1>0, <1>2, <2>3 DEF PostDataArrives
<1>3. CASE BodyArrives(f)
  <2>1. ResponseBody(f) \subseteq 0 .. MaxHops
    BY <1>1, RecorderConstants DEF ResponseBody
  <2>2. ASSUME NEW hop \in 0 .. MaxHops, httpRecords[f.id] # NoRecord
        PROVE  [httpRecords[f.id] EXCEPT !.body = hop, !.end = "finished"] \in HttpRecords
    <3>1. httpRecords[f.id] \in HttpRecords
      BY <1>0, <2>2
    <3> QED BY <3>1 DEF HttpRecords
  <2>3. /\ httpRecords' \in [HttpIds -> HttpRecords \cup {NoRecord}]
        /\ file' \in Seq(FileLines)
    <3>1. CASE httpRecords[f.id] = NoRecord
      BY <1>3, <3>1 DEF BodyArrives
    <3>2. CASE httpRecords[f.id] # NoRecord
      <4>1. PICK hop \in 0 .. MaxHops :
              EmitHttpAndDelete(f.id, [httpRecords[f.id] EXCEPT !.body = hop, !.end = "finished"])
        BY <1>3, <2>1, <3>2 DEF BodyArrives
      <4> QED BY <1>0, <2>2, <3>2, <4>1, WriteKeeps DEF EmitHttpAndDelete, FileLines
    <3> QED BY <3>1, <3>2
  <2> QED BY <1>0, <1>3, <2>3 DEF BodyArrives
<1> QED BY <1>2, <1>3

\* Events are read from the head of the stream.
LEMMA OnMsgType == TypeInv /\ OnMsg => TypeInv'
<1> SUFFICES ASSUME TypeInv, OnMsg PROVE TypeInv'
  OBVIOUS
<1> DEFINE e == Head(stream)
<1>1. e \in HttpEvents \cup SocketEvents /\ Tail(stream) \in Seq(HttpEvents \cup SocketEvents)
  BY HeadTailProperties DEF OnMsg, TypeInv, RecordsTyped
<1> HIDE DEF e
<1>2. UNCHANGED <<processVars, browserVars, gaps>> /\ stream' = Tail(stream)
  BY DEF OnMsg
<1>3. CASE RequestWillBeSent(e) \/ ResponseReceived(e) \/ LoadingFinished(e) \/ LoadingFailed(e)
  <2>1. e \in HttpEvents
    BY <1>1, <1>3 DEF SocketEvents, RequestWillBeSent, ResponseReceived, LoadingFinished,
                      LoadingFailed
  <2>2. RecordsTyped'
    BY <1>3, <2>1, HttpType
  <2> QED BY <1>1, <1>2, <2>2 DEF TypeInv, processVars, browserVars
<1>4. CASE WebSocketCreated(e) \/ WebSocketFrame(e) \/ WebSocketClosed(e)
  <2>1. e \in SocketEvents
    BY <1>1, <1>4 DEF HttpEvents, WebSocketCreated, WebSocketFrame, WebSocketClosed
  <2>2. RecordsTyped'
    BY <1>4, <2>1, SocketType
  <2> QED BY <1>1, <1>2, <2>2 DEF TypeInv, processVars, browserVars
<1> QED BY <1>3, <1>4 DEF OnMsg, e

\* The traffic of the tab: what happens enters the stream at its end.
LEMMA HappensType ==
  ASSUME TypeInv, NEW type, NEW id \in Ids, NEW phase \in {"loading", "responded", "over"},
         NEW hop \in 0 .. MaxHops, Happens(type, id, phase, hop),
         Event(type, id, hop) \in HttpEvents \cup SocketEvents
  PROVE  TypeInv'
<1>0. \/ stream' = Append(stream, Event(type, id, hop)) /\ gaps' = gaps
      \/ stream' = stream /\ gaps' = gaps \cup {id}
  BY DEF Happens
<1>1. stream' \in Seq(HttpEvents \cup SocketEvents) /\ gaps' \subseteq Ids
  <2> DEFINE E == HttpEvents \cup SocketEvents
  <2>1. stream \in Seq(E) /\ Event(type, id, hop) \in E /\ gaps \subseteq Ids
    BY DEF TypeInv
  <2> HIDE DEF E
  <2>2. Append(stream, Event(type, id, hop)) \in Seq(E)
    BY <2>1, AppendProperties
  <2>3. stream' \in Seq(E) /\ gaps' \subseteq Ids
    BY <1>0, <2>1, <2>2
  <2> QED BY <2>3 DEF E
<1>2. traffic' \in [Ids -> [phase : {"idle", "loading", "responded", "over"},
                            hop : 0 .. MaxHops]]
  BY DEF Happens, TypeInv
<1>3. UNCHANGED <<main, cleanup, armed, recordVars, domains, failed>>
  BY DEF Happens, processVars
<1> HIDE DEF Happens
<1> QED BY <1>1, <1>2, <1>3 DEF TypeInv, RecordsTyped, recordVars

LEMMA TrafficType ==
  ASSUME TypeInv,
         \/ \E id \in HttpIds : Request(id) \/ Response(id) \/ Finish(id) \/ Fail(id)
         \/ \E id \in SocketIds : Connect(id) \/ Frame(id) \/ Close(id)
  PROVE  TypeInv'
<1>1. ASSUME NEW id \in HttpIds, Request(id) PROVE TypeInv'
  <2> DEFINE hop == traffic[id].hop + 1
  <2>1. id \in Ids /\ hop \in 0 .. MaxHops /\ hop \in Hops
    BY <1>1, RecorderConstants DEF Request, TypeInv, Ids, Hops
  <2>2. Happens("requestWillBeSent", id, "loading", hop)
    BY <1>1 DEF Request
  <2> HIDE DEF hop
  <2>3. Event("requestWillBeSent", id, hop) \in HttpEvents
    BY <1>1, <2>1 DEF Event, HttpEvents
  <2> QED BY <2>1, <2>2, <2>3, HappensType
<1>2. ASSUME NEW id \in HttpIds, Response(id) \/ Finish(id) \/ Fail(id) PROVE TypeInv'
  <2> DEFINE hop == traffic[id].hop
  <2>1. id \in Ids /\ hop \in 0 .. MaxHops
    BY <1>2 DEF TypeInv, Ids
  <2>2. PICK type \in {"responseReceived", "loadingFinished", "loadingFailed"},
             phase \in {"responded", "over"} : Happens(type, id, phase, hop)
    BY <1>2 DEF Response, Finish, Fail
  <2> HIDE DEF hop
  <2>3. Event(type, id, hop) \in HttpEvents
    BY <1>2, <2>1, <2>2 DEF Event, HttpEvents
  <2> QED BY <2>1, <2>2, <2>3, HappensType
<1>3. ASSUME NEW id \in SocketIds, Connect(id) \/ Frame(id) \/ Close(id) PROVE TypeInv'
  <2>1. id \in Ids /\ 0 \in 0 .. MaxHops
    BY RecorderConstants DEF Ids
  <2>2. PICK type \in {"webSocketCreated", "webSocketFrame", "webSocketClosed"},
             phase \in {"loading", "over"} : Happens(type, id, phase, 0)
    BY <1>3 DEF Connect, Frame, Close
  <2>3. Event(type, id, 0) \in SocketEvents
    BY <1>3, <2>2 DEF Event, SocketEvents
  <2> QED BY <2>1, <2>2, <2>3, HappensType
<1> QED BY <1>1, <1>2, <1>3

-----------------------------------------------------------------------------
(* The last line.                                                          *)

\* A signal or the timer: the first one cleans up, the others find it done.
LEMMA StopStep ==
  ASSUME TypeInv, StopInv,
         \/ \E signal \in Signals : Stop(signal) \/ Kill(signal)
         \/ SubscribeAborted
  PROVE  TypeInv' /\ StopInv'
<1>1. ASSUME NEW signal \in Signals, Stop(signal) PROVE TypeInv' /\ StopInv'
  <2>1. armed' \subseteq Signals
    BY <1>1 DEF Stop, TypeInv
  <2>2. CASE Cleanup
    BY <2>1, <2>2, CleanupType
  <2>3. CASE UNCHANGED <<main, cleanup, stoppedAt, recordVars, stream, browserVars, gaps>>
    BY <2>1, <2>3 DEF TypeInv, RecordsTyped, StopInv, NothingAfterStop, recordVars,
                      browserVars
  <2> QED BY <1>1, <2>2, <2>3 DEF Stop
<1>2. ASSUME NEW signal \in Signals, Kill(signal) PROVE TypeInv' /\ StopInv'
  <2>1. UNCHANGED <<cleanup, armed, recordVars, browserVars, gaps>> /\ main' = "exited"
        /\ stream' = <<>>
    BY <1>2 DEF Kill
  <2> QED BY <2>1 DEF TypeInv, RecordsTyped, StopInv, NothingAfterStop, recordVars,
                      browserVars
<1>3. ASSUME SubscribeAborted PROVE TypeInv' /\ StopInv'
  BY <1>3, CleanupType DEF SubscribeAborted, TypeInv
<1> QED BY <1>1, <1>2, <1>3

\* A record or a line of a websocket is written only while nothing has stopped.
LEMMA BeforeStop ==
  ASSUME StopInv, TypeInv, cleanup = "idle", cleanup' = cleanup,
         \/ file' = file
         \/ \E line \in FileLines : Write(line) /\ line.kind # "recorder_stop"
  PROVE  StopInv'
<1>1. \A i \in DOMAIN file' : file'[i].kind # "recorder_stop"
  BY WriteKeeps DEF StopInv, TypeInv, RecordsTyped
<1> QED BY <1>1 DEF StopInv, NothingAfterStop

\* An event is handled while main reads, which it no longer does once stopped.
LEMMA OnMsgStop == TypeInv /\ StopInv /\ OnMsg => StopInv'
<1> SUFFICES ASSUME TypeInv, StopInv, OnMsg PROVE StopInv'
  OBVIOUS
<1> DEFINE e == Head(stream)
<1>1. cleanup = "idle" /\ cleanup' = cleanup
  BY DEF OnMsg, StopInv, processVars
<1>2. e \in HttpEvents \cup SocketEvents
  BY HeadTailProperties DEF OnMsg, TypeInv
<1> HIDE DEF e
<1>3. file' = file \/ \E line \in FileLines : Write(line) /\ line.kind # "recorder_stop"
  <2>1. CASE LoadingFailed(e)
    <3>1. e.id \in HttpIds
      BY <1>2, <2>1 DEF LoadingFailed, HttpEvents, SocketEvents
    <3>2. Current(e.id) \in HttpRecords
      BY <3>1, RecordTypes, RecorderConstants
    <3> DEFINE rec == [Current(e.id) EXCEPT !.end = "failed"]
    <3>3. rec \in FileLines /\ rec.kind = "http"
      BY <3>2 DEF HttpRecords, FileLines
    <3>4. Write(rec)
      BY <2>1 DEF LoadingFailed, EmitHttpAndDelete
    <3> QED BY <3>3, <3>4
  <2>2. CASE WebSocketCreated(e) \/ WebSocketFrame(e) \/ WebSocketClosed(e)
    <3>1. e.id \in SocketIds
      BY <1>2, <2>2 DEF WebSocketCreated, WebSocketFrame, WebSocketClosed, HttpEvents,
                        SocketEvents
    <3>2. Url(e.id) \in {"known", "null"}
      BY DEF Url
    <3>3. \A kind \in {"ws_created", "ws_frame", "ws_closed"}, url \in {"known", "null"} :
            /\ SocketLine(kind, e.id, url) \in FileLines
            /\ SocketLine(kind, e.id, url).kind # "recorder_stop"
      BY <3>1 DEF SocketLine, Lines, FileLines
    <3>4. file' = file \/ \E kind \in {"ws_created", "ws_frame", "ws_closed"},
                             url \in {"known", "null"} : Write(SocketLine(kind, e.id, url))
      BY <2>2, <3>2 DEF WebSocketCreated, WebSocketFrame, WebSocketClosed
    <3> QED BY <3>3, <3>4
  <2>3. CASE RequestWillBeSent(e) \/ ResponseReceived(e) \/ LoadingFinished(e)
    BY <2>3 DEF RequestWillBeSent, ResponseReceived, LoadingFinished
  <2> QED BY <2>1, <2>2, <2>3 DEF OnMsg, e
<1> QED BY <1>1, <1>3, BeforeStop

\* A late answer finds no record once the recording has stopped.
LEMMA AnswerStop ==
  ASSUME TypeInv, StopInv, NEW f \in fetches, PostDataArrives(f) \/ BodyArrives(f)
  PROVE  StopInv'
<1>0. f.id \in HttpIds /\ UNCHANGED <<main, cleanup>>
  BY DEF PostDataArrives, BodyArrives, TypeInv, RecordsTyped, processVars
<1>1. CASE cleanup # "idle"
  <2>1. httpRecords[f.id] = NoRecord
    BY <1>0, <1>1 DEF StopInv
  <2>2. UNCHANGED <<httpRecords, file>>
    BY <2>1 DEF PostDataArrives, BodyArrives
  <2> QED BY <1>0, <2>2 DEF StopInv, NothingAfterStop
<1>2. CASE cleanup = "idle"
  <2>1. file' = file \/ \E line \in FileLines : Write(line) /\ line.kind # "recorder_stop"
    <3>1. CASE PostDataArrives(f)
      BY <3>1 DEF PostDataArrives
    <3>2. CASE BodyArrives(f) /\ httpRecords[f.id] = NoRecord
      BY <3>2 DEF BodyArrives
    <3>3. CASE BodyArrives(f) /\ httpRecords[f.id] # NoRecord
      <4>1. ResponseBody(f) \subseteq 0 .. MaxHops
        BY <1>0, RecorderConstants DEF ResponseBody, TypeInv, Ids
      <4>2. PICK hop \in 0 .. MaxHops :
              EmitHttpAndDelete(f.id, [httpRecords[f.id] EXCEPT !.body = hop, !.end = "finished"])
        BY <3>3, <4>1 DEF BodyArrives
      <4> DEFINE rec == [httpRecords[f.id] EXCEPT !.body = hop, !.end = "finished"]
      <4>3. httpRecords[f.id] \in HttpRecords
        BY <1>0, <3>3 DEF TypeInv, RecordsTyped
      <4>4. rec \in FileLines /\ rec.kind = "http"
        BY <4>3 DEF HttpRecords, FileLines
      <4>5. Write(rec)
        BY <4>2 DEF EmitHttpAndDelete
      <4> QED BY <4>4, <4>5
    <3> QED BY <3>1, <3>2, <3>3
  <2> QED BY <1>0, <1>2, <2>1, BeforeStop
<1> QED BY <1>1, <1>2

-----------------------------------------------------------------------------
(* The theorems.                                                           *)

LEMMA InvInit == Init => TypeInv /\ StopInv
<1> SUFFICES ASSUME Init PROVE TypeInv /\ StopInv
  OBVIOUS
<1>1. TypeInv
  BY TypeInit
<1>2. cleanup = "idle" /\ \A i \in DOMAIN file : file[i].kind # "recorder_stop"
  BY DEF Init, Line
<1> QED BY <1>1, <1>2 DEF StopInv, NothingAfterStop

LEMMA InvStep == TypeInv /\ StopInv /\ [Next]_vars => TypeInv' /\ StopInv'
<1> SUFFICES ASSUME TypeInv, StopInv, [Next]_vars PROVE TypeInv' /\ StopInv'
  OBVIOUS
<1>1. CASE \/ \E signal \in Signals : Stop(signal) \/ Kill(signal)
           \/ SubscribeAborted
  BY <1>1, StopStep
<1>2. CASE MainStep \/ CleanupStep \/ Subscribed \/ SubscribeFailed \/ StreamEnds
  <2>1. UNCHANGED <<httpRecords, file>>
    BY <1>2 DEF MainStep, CleanupStep, NetworkEnabled, PageEnabled, Slept, NetworkDisabled,
                PageDisabled, Subscribed, SubscribeFailed, StreamEnds, recordVars
  <2>2. \/ cleanup' = cleanup /\ (cleanup = "idle" \/ main' \notin {"subscribing", "reading"})
        \/ cleanup # "idle" /\ cleanup' # "idle" /\ main' = main
    BY <1>2 DEF MainStep, CleanupStep, NetworkEnabled, PageEnabled, Slept, NetworkDisabled,
                PageDisabled, Subscribed, SubscribeFailed, StreamEnds, StopInv
  <2> QED BY <1>2, <2>1, <2>2, ProcessType DEF StopInv, NothingAfterStop
<1>3. CASE OnMsg
  BY <1>3, OnMsgType, OnMsgStop
<1>4. CASE \E f \in fetches : PostDataArrives(f) \/ BodyArrives(f)
  BY <1>4, AnswerType, AnswerStop
<1>5. CASE \/ \E id \in HttpIds : Request(id) \/ Response(id) \/ Finish(id) \/ Fail(id)
           \/ \E id \in SocketIds : Connect(id) \/ Frame(id) \/ Close(id)
  <2>1. UNCHANGED <<main, cleanup, httpRecords, file>>
    BY <1>5 DEF Request, Response, Finish, Fail, Connect, Frame, Close, Happens,
                processVars, recordVars
  <2> QED BY <1>5, <2>1, TrafficType DEF StopInv, NothingAfterStop
<1>6. CASE UNCHANGED vars
  BY <1>6 DEF vars, TypeInv, RecordsTyped, StopInv, NothingAfterStop
<1> QED BY <1>1, <1>2, <1>3, <1>4, <1>5, <1>6 DEF Next

\* In every state each variable has its type, and recorder_stop is the last line
\* of the file, whatever cleanup meets: events in the stream, bodies and post data
\* that are still asked for, a second signal (record-network.ts:576-595, 803-821).
THEOREM StopIsLast == Spec => [](TypeOK /\ NothingAfterStop)
<1>1. TypeInv /\ StopInv => TypeOK /\ NothingAfterStop
  <2> SUFFICES ASSUME TypeInv, StopInv PROVE TypeOK /\ NothingAfterStop
    OBVIOUS
  <2>1. \A i \in DOMAIN file : file[i] \in HttpRecords \cup Lines
    BY DEF TypeInv, RecordsTyped, FileLines
  <2>2. \A i \in DOMAIN stream : stream[i].id \in Ids
    BY DEF TypeInv, HttpEvents, SocketEvents, Ids
  <2> QED BY <2>1, <2>2 DEF TypeInv, RecordsTyped, StopInv, TypeOK
<1> QED BY <1>1, InvInit, InvStep, PTL DEF Spec

-----------------------------------------------------------------------------
(* Every recorded request is written.                                      *)

Starts == {i \in DOMAIN stream : stream[i].type = "requestWillBeSent"}

\* The starts of a request's hops are heard in the order of the hops.
HopsInOrder ==
  /\ \A i \in Starts : stream[i].hop <= traffic[stream[i].id].hop
  /\ \A i, j \in Starts : i < j /\ stream[i].id = stream[j].id => stream[i].hop < stream[j].hop
  /\ \A x \in handled : \A i \in Starts : x[1] = stream[i].id => x[2] < stream[i].hop
  /\ \A x \in handled : x[2] <= traffic[x[1]].hop

Replaced(x) == \E y \in handled : y[1] = x[1] /\ y[2] > x[2]

Open(x) == httpRecords[x[1]] # NoRecord /\ httpRecords[x[1]].hop = x[2]

\* Until cleanup what is neither written nor replaced is in the map.
RecordsKept ==
  /\ \A id \in HttpIds : httpRecords[id] # NoRecord => httpRecords[id].id = id
  /\ cleanup = "idle" => \A x \in handled : Written(x[1], x[2]) \/ Replaced(x) \/ Open(x)
  /\ AllWritten

\* What is written stays written: the file only grows at its end.
LEMMA WrittenStays ==
  ASSUME file \in Seq(FileLines), NEW more \in Seq(FileLines), file' = file \o more
  PROVE  /\ \A id, hop : Written(id, hop) => Written(id, hop)'
         /\ \A i \in DOMAIN more : more[i].kind = "http" => Written(more[i].id, more[i].hop)'
<1>1. /\ Len(file') = Len(file) + Len(more) /\ file' \in Seq(FileLines)
      /\ \A i \in 1 .. Len(file) : file'[i] = file[i]
      /\ \A i \in 1 .. Len(more) : file'[Len(file) + i] = more[i]
  BY ConcatProperties
<1>2. /\ DOMAIN file = 1 .. Len(file) /\ DOMAIN more = 1 .. Len(more)
      /\ DOMAIN file' = 1 .. Len(file')
      /\ Len(file) \in Nat /\ Len(more) \in Nat
  BY <1>1
<1>3. ASSUME NEW id, NEW hop, Written(id, hop) PROVE Written(id, hop)'
  <2>1. PICK i \in 1 .. Len(file) : file[i].kind = "http" /\ file[i].id = id /\ file[i].hop = hop
    BY <1>2, <1>3 DEF Written, HttpLines
  <2>2. i \in DOMAIN file' /\ file'[i] = file[i]
    BY <1>1, <1>2, <2>1
  <2> QED BY <2>1, <2>2 DEF Written, HttpLines
<1>4. ASSUME NEW i \in DOMAIN more, more[i].kind = "http"
      PROVE  Written(more[i].id, more[i].hop)'
  <2>1. Len(file) + i \in DOMAIN file' /\ file'[Len(file) + i] = more[i]
    BY <1>1, <1>2
  <2> QED BY <1>4, <2>1 DEF Written, HttpLines
<1> QED BY <1>3, <1>4

\* Before cleanup has closed the writer a line becomes the last of the file.
LEMMA WriteExtends ==
  ASSUME file \in Seq(FileLines), NEW line \in FileLines, Write(line)
  PROVE  /\ \A id, hop : Written(id, hop) => Written(id, hop)'
         /\ cleanup # "closed" /\ line.kind = "http" => Written(line.id, line.hop)'
<1>1. CASE cleanup = "closed"
  BY <1>1 DEF Write, Written, HttpLines
<1>2. CASE cleanup # "closed"
  <2>1. file' = file \o <<line>> /\ <<line>> \in Seq(FileLines)
    BY <1>2 DEF Write
  <2>2. 1 \in DOMAIN <<line>> /\ <<line>>[1] = line
    OBVIOUS
  <2> QED BY <2>1, <2>2, WrittenStays
<1> QED BY <1>1, <1>2

\* Cleanup writes all that is open.
LEMMA FlushWrites ==
  ASSUME TypeInv, FlushRecords
  PROVE  /\ \A id, hop : Written(id, hop) => Written(id, hop)'
         /\ \A rec \in OpenRecords : Written(rec.id, rec.hop)'
<1>1. PICK lines \in SetToSeqs(OpenRecords) :
        file' = file \o lines \o <<Line("recorder_stop")>>
  BY DEF FlushRecords
<1>2. /\ OpenRecords \subseteq HttpRecords /\ IsFiniteSet(OpenRecords)
      /\ Cardinality(OpenRecords) \in Nat
  BY OpenRecordsFinite DEF TypeInv, RecordsTyped
<1> DEFINE n == Cardinality(OpenRecords)
<1>3. lines \in Injection(1 .. n, OpenRecords)
  BY <1>1 DEF SetToSeqs, Injection, IsInjective
<1>4. IsFiniteSet(1 .. n) /\ Cardinality(1 .. n) = n
  BY <1>2, FS_Interval
<1>5. lines \in Surjection(1 .. n, OpenRecords)
  BY <1>2, <1>3, <1>4, FS_Injection
<1>6. lines \in Seq(FileLines) /\ <<Line("recorder_stop")>> \in Seq(FileLines)
  BY <1>2, <1>3 DEF Injection, FileLines, Lines, Line
<1> DEFINE more == lines \o <<Line("recorder_stop")>>
<1>7. /\ more \in Seq(FileLines) /\ Len(lines) = n
      /\ \A i \in 1 .. n : i \in DOMAIN more /\ more[i] = lines[i]
  BY <1>2, <1>3, <1>6, ConcatProperties DEF Injection
<1>8. file' = file \o more
  BY <1>1, <1>6, ConcatAssociative DEF TypeInv, RecordsTyped
<1> HIDE DEF more
<1>9. ASSUME NEW rec \in OpenRecords PROVE Written(rec.id, rec.hop)'
  <2>1. PICK i \in 1 .. n : lines[i] = rec
    BY <1>5 DEF Surjection
  <2>2. i \in DOMAIN more /\ more[i] = rec
    BY <1>7, <2>1
  <2>3. rec.kind = "http"
    BY <1>2 DEF HttpRecords
  <2> QED BY <1>7, <1>8, <2>2, <2>3, WrittenStays DEF TypeInv, RecordsTyped
<1> QED BY <1>7, <1>8, <1>9, WrittenStays DEF TypeInv, RecordsTyped

\* Steps that put nothing into the stream and record nothing.
LEMMA HopsUndisturbed ==
  ASSUME HopsInOrder, UNCHANGED <<traffic, handled>>, stream' = stream \/ stream' = <<>>
  PROVE  HopsInOrder'
<1>1. CASE stream' = stream
  BY <1>1 DEF HopsInOrder, Starts
<1>2. CASE stream' = <<>>
  <2>1. Starts' = {}
    BY <1>2 DEF Starts
  <2> QED BY <2>1 DEF HopsInOrder
<1> QED BY <1>1, <1>2

\* The start that is heard is the first of the stream: later ones are of later hops.
LEMMA HopsOnMsg ==
  ASSUME TypeInv, HopsInOrder, OnMsg
  PROVE  HopsInOrder'
<1> DEFINE e == Head(stream)
<1>1. /\ Len(stream) \in Nat /\ Len(stream) > 0 /\ DOMAIN stream = 1 .. Len(stream)
      /\ e = stream[1] /\ stream' = Tail(stream) /\ UNCHANGED traffic
      /\ Len(stream') = Len(stream) - 1 /\ DOMAIN stream' = 1 .. Len(stream')
      /\ \A i \in DOMAIN stream' : stream'[i] = stream[i + 1]
  BY HeadTailProperties DEF OnMsg, TypeInv, browserVars
<1>2. \A i \in Starts' : i + 1 \in Starts /\ stream'[i] = stream[i + 1] /\ i \in Nat /\ i > 0
  BY <1>1 DEF Starts
<1>3. \/ handled' = handled
      \/ 1 \in Starts /\ handled' = handled \cup {<<e.id, e.hop>>}
  BY <1>1 DEF OnMsg, RequestWillBeSent, ResponseReceived, LoadingFinished, LoadingFailed,
              WebSocketCreated, WebSocketFrame, WebSocketClosed, Starts
<1>4. \A i \in Starts' : stream'[i].hop <= traffic'[stream'[i].id].hop
  BY <1>1, <1>2 DEF HopsInOrder
<1>5. \A i, j \in Starts' : i < j /\ stream'[i].id = stream'[j].id
                            => stream'[i].hop < stream'[j].hop
  <2> SUFFICES ASSUME NEW i \in Starts', NEW j \in Starts', i < j,
                      stream'[i].id = stream'[j].id
               PROVE  stream'[i].hop < stream'[j].hop
    OBVIOUS
  <2>1. i + 1 < j + 1
    BY <1>2
  <2> QED BY <1>2, <2>1 DEF HopsInOrder
<1>6. \A x \in handled' : \A i \in Starts' : x[1] = stream'[i].id => x[2] < stream'[i].hop
  <2> SUFFICES ASSUME NEW x \in handled', NEW i \in Starts', x[1] = stream'[i].id
               PROVE  x[2] < stream'[i].hop
    OBVIOUS
  <2>1. CASE x \in handled
    BY <1>2, <2>1 DEF HopsInOrder
  <2>2. CASE 1 \in Starts /\ x = <<e.id, e.hop>>
    <3>1. 1 < i + 1
      BY <1>2
    <3> QED BY <1>1, <1>2, <2>2, <3>1 DEF HopsInOrder
  <2> QED BY <1>3, <2>1, <2>2
<1>7. \A x \in handled' : x[2] <= traffic'[x[1]].hop
  BY <1>1, <1>3 DEF HopsInOrder
<1> QED BY <1>4, <1>5, <1>6, <1>7 DEF HopsInOrder

\* A start of a hop comes behind those of the earlier hops.
LEMMA HopsTraffic ==
  ASSUME TypeInv, HopsInOrder, NEW type, NEW id \in Ids, NEW phase, NEW hop \in 0 .. MaxHops,
         Happens(type, id, phase, hop),
         id \in HttpIds => traffic[id].hop <= hop,
         type = "requestWillBeSent" => id \in HttpIds /\ hop = traffic[id].hop + 1
  PROVE  HopsInOrder'
<1> DEFINE new == Event(type, id, hop)
           n == Len(stream) + 1
<1>1. /\ Len(stream) \in Nat /\ DOMAIN stream = 1 .. Len(stream)
      /\ \A i \in Starts : stream[i].id \in HttpIds /\ stream[i].hop \in Nat /\ i \in Nat
                         /\ i < n
      /\ \A x \in handled : x[1] \in HttpIds /\ x[2] \in Nat
      /\ \A q \in HttpIds : q \in Ids /\ traffic[q].hop \in Nat
      /\ hop \in Nat
  <2>1. stream \in Seq(HttpEvents \cup SocketEvents)
    BY DEF TypeInv
  <2>2. Len(stream) \in Nat /\ DOMAIN stream = 1 .. Len(stream)
        /\ \A i \in DOMAIN stream : stream[i] \in HttpEvents \cup SocketEvents
    BY <2>1
  <2>3. \A i \in Starts : stream[i].id \in HttpIds /\ stream[i].hop \in Nat
    BY <2>2, RecorderConstants DEF Starts, HttpEvents, SocketEvents, Hops
  <2>4. \A i \in Starts : i \in Nat /\ i < n
    BY <2>2 DEF Starts
  <2>5. \A x \in handled : x[1] \in HttpIds /\ x[2] \in Nat
    BY DEF TypeInv, RecordsTyped, Hops
  <2>6. \A q \in HttpIds : q \in Ids /\ traffic[q].hop \in Nat
    BY RecorderConstants DEF TypeInv, Ids
  <2>7. hop \in Nat
    BY RecorderConstants
  <2> QED BY <2>2, <2>3, <2>4, <2>5, <2>6, <2>7
<1>2. /\ \A q \in HttpIds : q # id => traffic'[q] = traffic[q]
      /\ traffic'[id].hop = hop
      /\ handled' = handled
  BY DEF Happens, TypeInv, recordVars, Ids
<1>3. \A q \in HttpIds : traffic[q].hop <= traffic'[q].hop /\ traffic'[q].hop \in Nat
  BY <1>1, <1>2
<1>4. \A x \in handled' : x[2] <= traffic'[x[1]].hop
  BY <1>1, <1>2, <1>3 DEF HopsInOrder
<1>5. CASE stream' = stream
  BY <1>1, <1>2, <1>3, <1>4, <1>5 DEF HopsInOrder, Starts
<1>6. CASE stream' = Append(stream, new)
  <2>1. /\ DOMAIN stream' = 1 .. n /\ stream'[n] = new
        /\ \A i \in DOMAIN stream : stream'[i] = stream[i]
    BY <1>1, <1>6, AppendProperties DEF TypeInv
  <2>2. new.id = id /\ new.hop = hop /\ new.type = type
    BY DEF Event
  <2> HIDE DEF new
  <2>3. \A i \in Starts' : \/ i \in Starts /\ stream'[i] = stream[i]
                           \/ i = n /\ type = "requestWillBeSent" /\ stream'[i] = new
    <3> TAKE i \in Starts'
    <3>1. i \in 1 .. n /\ stream'[i].type = "requestWillBeSent"
      BY <2>1 DEF Starts
    <3>2. CASE i = n
      BY <2>1, <2>2, <3>1, <3>2
    <3>3. CASE i \in DOMAIN stream
      BY <2>1, <3>1, <3>3 DEF Starts
    <3> QED BY <1>1, <3>1, <3>2, <3>3
  <2>4. \A i \in Starts' : stream'[i].hop <= traffic'[stream'[i].id].hop
    <3> TAKE i \in Starts'
    <3>1. CASE stream'[i] = new
      BY <1>1, <1>2, <2>2, <3>1
    <3>2. CASE i \in Starts /\ stream'[i] = stream[i]
      <4> DEFINE q == stream[i].id
      <4>1. stream[i].hop <= traffic[q].hop /\ q \in HttpIds /\ stream[i].hop \in Nat
        BY <1>1, <3>2 DEF HopsInOrder
      <4>2. traffic[q].hop <= traffic'[q].hop /\ traffic'[q].hop \in Nat /\ traffic[q].hop \in Nat
        BY <1>1, <1>3, <4>1
      <4> HIDE DEF q
      <4>3. stream[i].hop <= traffic'[q].hop
        BY <4>1, <4>2
      <4> QED BY <3>2, <4>3 DEF q
    <3> QED BY <2>3, <3>1, <3>2
  <2>5. \A i \in Starts : type = "requestWillBeSent" /\ stream[i].id = id => stream[i].hop < hop
    BY <1>1 DEF HopsInOrder
  <2>6. \A i, j \in Starts' : i < j /\ stream'[i].id = stream'[j].id
                               => stream'[i].hop < stream'[j].hop
    BY <1>1, <2>2, <2>3, <2>5 DEF HopsInOrder
  <2>7. \A x \in handled : type = "requestWillBeSent" /\ x[1] = id => x[2] < hop
    BY <1>1 DEF HopsInOrder
  <2>8. \A x \in handled' : \A i \in Starts' : x[1] = stream'[i].id => x[2] < stream'[i].hop
    BY <1>2, <2>2, <2>3, <2>7 DEF HopsInOrder
  <2> QED BY <1>4, <2>4, <2>6, <2>8 DEF HopsInOrder
<1> QED BY <1>5, <1>6 DEF Happens

LEMMA HopsStep == TypeInv /\ HopsInOrder /\ [Next]_vars => HopsInOrder'
<1> SUFFICES ASSUME TypeInv, HopsInOrder, [Next]_vars PROVE HopsInOrder'
  OBVIOUS
<1>1. CASE \/ \E signal \in Signals : Stop(signal) \/ Kill(signal)
           \/ SubscribeAborted
  BY <1>1, HopsUndisturbed DEF Stop, Kill, SubscribeAborted, Cleanup, recordVars, browserVars
<1>2. CASE MainStep \/ CleanupStep \/ Subscribed \/ SubscribeFailed \/ StreamEnds
  BY <1>2, HopsUndisturbed DEF MainStep, CleanupStep, NetworkEnabled, PageEnabled, Slept,
     NetworkDisabled, PageDisabled, Subscribed, SubscribeFailed, StreamEnds, recordVars,
     browserVars
<1>3. CASE OnMsg
  BY <1>3, HopsOnMsg
<1>4. CASE \E f \in fetches : PostDataArrives(f) \/ BodyArrives(f)
  BY <1>4, HopsUndisturbed DEF PostDataArrives, BodyArrives, browserVars
<1>5. ASSUME NEW id \in HttpIds, Request(id) \/ Response(id) \/ Finish(id) \/ Fail(id)
      PROVE  HopsInOrder'
  <2>1. id \in Ids /\ traffic[id].hop \in 0 .. MaxHops
    BY DEF TypeInv, Ids
  <2>2. CASE Request(id)
    <3> DEFINE hop == traffic[id].hop + 1
    <3>1. hop \in 0 .. MaxHops /\ traffic[id].hop <= hop
      BY <2>1, <2>2, RecorderConstants DEF Request
    <3>2. Happens("requestWillBeSent", id, "loading", hop)
      BY <2>2 DEF Request
    <3> QED BY <2>1, <3>1, <3>2, HopsTraffic
  <2>3. CASE Response(id) \/ Finish(id) \/ Fail(id)
    <3> DEFINE hop == traffic[id].hop
    <3>1. PICK type \in {"responseReceived", "loadingFinished", "loadingFailed"},
               phase \in {"responded", "over"} : Happens(type, id, phase, hop)
      BY <2>3 DEF Response, Finish, Fail
    <3>2. traffic[id].hop <= hop
      BY <2>1, RecorderConstants
    <3> QED BY <2>1, <3>1, <3>2, HopsTraffic
  <2> QED BY <1>5, <2>2, <2>3
<1>6. ASSUME NEW id \in SocketIds, Connect(id) \/ Frame(id) \/ Close(id) PROVE HopsInOrder'
  <2>1. id \in Ids /\ id \notin HttpIds /\ 0 \in 0 .. MaxHops
    BY RecorderConstants DEF Ids
  <2>2. PICK type \in {"webSocketCreated", "webSocketFrame", "webSocketClosed"},
             phase \in {"loading", "over"} : Happens(type, id, phase, 0)
    BY <1>6 DEF Connect, Frame, Close
  <2> QED BY <2>1, <2>2, HopsTraffic
<1>7. CASE UNCHANGED vars
  BY <1>7, HopsUndisturbed DEF vars
<1> QED BY <1>1, <1>2, <1>3, <1>4, <1>5, <1>6, <1>7 DEF Next

\* Steps that leave the records and the file alone.
LEMMA KeptUndisturbed ==
  ASSUME RecordsKept, UNCHANGED <<httpRecords, file, handled>>,
         cleanup' = cleanup \/ cleanup # "idle"
  PROVE  RecordsKept'
  BY DEF RecordsKept, AllWritten, Written, HttpLines, Replaced, Open

\* What is open when cleanup is called is written there and then.
LEMMA KeptCleanup ==
  ASSUME TypeInv, RecordsKept, Cleanup
  PROVE  RecordsKept'
<1>1. /\ \A id, hop : Written(id, hop) => Written(id, hop)'
      /\ \A rec \in OpenRecords : Written(rec.id, rec.hop)'
  BY FlushWrites DEF Cleanup
<1>2. cleanup = "idle" /\ cleanup' = "disablingNetwork" /\ handled' = handled
      /\ httpRecords' = [id \in HttpIds |-> NoRecord]
  BY DEF Cleanup, FlushRecords
<1>3. AllWritten'
  <2> SUFFICES ASSUME NEW x \in handled
               PROVE  \/ Written(x[1], x[2])'
                      \/ \E y \in handled : y[1] = x[1] /\ y[2] > x[2]
    BY <1>2 DEF AllWritten
  <2>1. Written(x[1], x[2]) \/ Replaced(x) \/ Open(x)
    BY <1>2 DEF RecordsKept
  <2>2. CASE Open(x)
    <3>1. x[1] \in HttpIds
      BY DEF TypeInv, RecordsTyped
    <3>2. httpRecords[x[1]] \in OpenRecords /\ httpRecords[x[1]].id = x[1]
      BY <2>2, <3>1 DEF Open, OpenRecords, RecordsKept
    <3> QED BY <1>1, <2>2, <3>2 DEF Open
  <2> QED BY <1>1, <2>1, <2>2 DEF Replaced
<1> QED BY <1>2, <1>3 DEF RecordsKept

\* A handler that keeps the hop of a record, or writes the record and deletes it.
LEMMA KeptUpdate ==
  ASSUME TypeInv, RecordsKept, handled' = handled, cleanup = "idle", cleanup' = cleanup,
         NEW id \in HttpIds, NEW rec \in HttpRecords, rec.id = id,
         httpRecords[id] # NoRecord => rec.hop = httpRecords[id].hop,
         \/ httpRecords' = [httpRecords EXCEPT ![id] = rec] /\ file' = file
         \/ EmitHttpAndDelete(id, rec)
  PROVE  RecordsKept'
<1>1. /\ \A q, hop : Written(q, hop) => Written(q, hop)'
      /\ EmitHttpAndDelete(id, rec) => Written(rec.id, rec.hop)'
  <2>1. CASE file' = file
    BY <2>1 DEF Written, HttpLines, EmitHttpAndDelete, Write
  <2>2. CASE EmitHttpAndDelete(id, rec)
    <3>1. rec \in FileLines /\ rec.kind = "http"
      BY DEF FileLines, HttpRecords
    <3> QED BY <2>2, <3>1, WriteExtends DEF EmitHttpAndDelete, TypeInv, RecordsTyped
  <2> QED BY <2>1, <2>2
<1>2. httpRecords \in [HttpIds -> HttpRecords \cup {NoRecord}]
  BY DEF TypeInv, RecordsTyped
<1>3. \/ httpRecords' = [httpRecords EXCEPT ![id] = rec]
      \/ httpRecords' = [httpRecords EXCEPT ![id] = NoRecord] /\ Written(id, rec.hop)'
  BY <1>1 DEF EmitHttpAndDelete
<1>4. \A q \in HttpIds : httpRecords'[q] # NoRecord => httpRecords'[q].id = q
  BY <1>2, <1>3 DEF RecordsKept
<1>5. ASSUME NEW x \in handled
      PROVE  Written(x[1], x[2])' \/ Replaced(x)' \/ Open(x)'
  <2>1. CASE Written(x[1], x[2]) \/ Replaced(x)
    BY <1>1, <2>1 DEF Replaced
  <2>2. CASE Open(x) /\ x[1] # id
    <3>1. x[1] \in HttpIds
      BY DEF TypeInv, RecordsTyped
    <3>2. httpRecords'[x[1]] = httpRecords[x[1]]
      BY <1>2, <1>3, <2>2, <3>1
    <3> QED BY <2>2, <3>2 DEF Open
  <2>3. CASE Open(x) /\ x[1] = id
    <3>1. rec.hop = x[2] /\ rec # NoRecord
      BY <2>3, NoRecordIsNone DEF Open
    <3> QED BY <1>2, <1>3, <2>3, <3>1 DEF Open
  <2> QED BY <2>1, <2>2, <2>3 DEF RecordsKept
<1> QED BY <1>4, <1>5 DEF RecordsKept, AllWritten

LEMMA CurrentIsOwn ==
  ASSUME TypeInv, RecordsKept, NEW id \in HttpIds
  PROVE  /\ Current(id) \in HttpRecords /\ Current(id).id = id
         /\ httpRecords[id] # NoRecord => Current(id) = httpRecords[id]
<1>1. Current(id) \in HttpRecords
  BY RecordTypes, RecorderConstants
<1> QED BY <1>1 DEF Current, HttpRecord, RecordsKept

\* The start of a request replaces the record of an earlier hop only.
LEMMA KeptStart ==
  ASSUME TypeInv, HopsInOrder, RecordsKept, cleanup = "idle", cleanup' = cleanup,
         stream # <<>>, RequestWillBeSent(Head(stream))
  PROVE  RecordsKept'
<1> DEFINE e == Head(stream)
<1>1. 1 \in Starts /\ e = stream[1] /\ e \in HttpEvents
  BY HeadTailProperties DEF RequestWillBeSent, TypeInv, Starts, SocketEvents
<1>2. e.id \in HttpIds /\ e.hop \in 0 .. MaxHops
  BY <1>1, RecorderConstants DEF HttpEvents, Hops
<1>3. \A x \in handled : x[1] = e.id => x[2] < e.hop
  BY <1>1 DEF HopsInOrder
<1>4. CASE UNCHANGED <<httpRecords, handled, file>>
  BY <1>4, KeptUndisturbed
<1>5. CASE /\ httpRecords' = [httpRecords EXCEPT ![e.id] = HttpRecord(e.id, e.hop)]
           /\ handled' = handled \cup {<<e.id, e.hop>>}
           /\ file' = file
  <2> DEFINE new == HttpRecord(e.id, e.hop)
  <2>1. new \in HttpRecords /\ new # NoRecord /\ new.id = e.id /\ new.hop = e.hop
    <3>1. new \in HttpRecords
      BY <1>2, RecordTypes
    <3> QED BY <3>1, NoRecordIsNone DEF HttpRecord
  <2> HIDE DEF new, e
  <2>2. /\ httpRecords'[e.id] = new
        /\ \A q \in HttpIds : q # e.id => httpRecords'[q] = httpRecords[q]
    BY <1>2, <1>5 DEF TypeInv, RecordsTyped, new
  <2>3. \A q \in HttpIds : httpRecords'[q] # NoRecord => httpRecords'[q].id = q
    BY <2>1, <2>2 DEF RecordsKept
  <2>4. ASSUME NEW x \in handled' PROVE Written(x[1], x[2])' \/ Replaced(x)' \/ Open(x)'
    <3>1. CASE x = <<e.id, e.hop>>
      BY <2>1, <2>2, <3>1 DEF Open
    <3>2. CASE x \in handled /\ x[1] = e.id
      <4>1. <<e.id, e.hop>> \in handled' /\ x[2] < e.hop
        BY <1>3, <1>5, <3>2
      <4>2. e.hop > x[2]
        BY <1>2, <3>2, <4>1, RecorderConstants DEF TypeInv, RecordsTyped, Hops
      <4> QED BY <3>2, <4>1, <4>2 DEF Replaced
    <3>3. CASE x \in handled /\ x[1] # e.id
      <4>1. x[1] \in HttpIds
        BY <3>3 DEF TypeInv, RecordsTyped
      <4>2. httpRecords'[x[1]] = httpRecords[x[1]]
        BY <2>2, <3>3, <4>1
      <4>3. Written(x[1], x[2]) \/ Replaced(x) \/ Open(x)
        BY <3>3 DEF RecordsKept
      <4>4. Written(x[1], x[2]) => Written(x[1], x[2])'
        BY <1>5 DEF Written, HttpLines
      <4>5. Replaced(x) => Replaced(x)'
        BY <1>5 DEF Replaced
      <4> QED BY <4>2, <4>3, <4>4, <4>5 DEF Open
    <3> QED BY <1>5, <3>1, <3>2, <3>3
  <2> QED BY <2>3, <2>4 DEF RecordsKept, AllWritten
<1> QED BY <1>4, <1>5 DEF RequestWillBeSent

LEMMA KeptOnMsg ==
  ASSUME TypeInv, StopInv, HopsInOrder, RecordsKept, OnMsg
  PROVE  RecordsKept'
<1> DEFINE e == Head(stream)
<1>1. cleanup = "idle" /\ cleanup' = cleanup /\ stream # <<>>
  BY DEF OnMsg, StopInv, processVars
<1>2. e \in HttpEvents \cup SocketEvents
  BY HeadTailProperties DEF OnMsg, TypeInv
<1>3. CASE RequestWillBeSent(e)
  BY <1>1, <1>3, KeptStart
<1> HIDE DEF e
<1>4. ASSUME ResponseReceived(e) \/ LoadingFailed(e) PROVE RecordsKept'
  <2>1. e.id \in HttpIds /\ e.hop \in 0 .. MaxHops
    BY <1>2, <1>4, RecorderConstants DEF ResponseReceived, LoadingFailed, HttpEvents,
                                        SocketEvents, Hops
  <2>2. /\ Current(e.id) \in HttpRecords /\ Current(e.id).id = e.id
        /\ httpRecords[e.id] # NoRecord => Current(e.id) = httpRecords[e.id]
    BY <2>1, CurrentIsOwn
  <2>3. CASE ResponseReceived(e)
    <3> DEFINE rec == [Current(e.id) EXCEPT !.response = e.hop]
    <3>1. rec \in HttpRecords /\ rec.id = e.id /\ rec.hop = Current(e.id).hop
      BY <2>1, <2>2 DEF HttpRecords
    <3>2. handled' = handled /\ file' = file
          /\ (httpRecords' = httpRecords \/ httpRecords' = [httpRecords EXCEPT ![e.id] = rec])
      BY <2>3 DEF ResponseReceived
    <3> HIDE DEF rec
    <3> QED BY <1>1, <2>1, <2>2, <3>1, <3>2, KeptUpdate, KeptUndisturbed
  <2>4. CASE LoadingFailed(e)
    <3> DEFINE rec == [Current(e.id) EXCEPT !.end = "failed"]
    <3>1. rec \in HttpRecords /\ rec.id = e.id /\ rec.hop = Current(e.id).hop
      BY <2>2 DEF HttpRecords
    <3>2. handled' = handled /\ EmitHttpAndDelete(e.id, rec)
      BY <2>4 DEF LoadingFailed
    <3> HIDE DEF rec
    <3> QED BY <1>1, <2>1, <2>2, <3>1, <3>2, KeptUpdate
  <2> QED BY <1>4, <2>3, <2>4
<1>5. CASE LoadingFinished(e)
  BY <1>1, <1>5, KeptUndisturbed DEF LoadingFinished
<1>6. ASSUME WebSocketCreated(e) \/ WebSocketFrame(e) \/ WebSocketClosed(e) PROVE RecordsKept'
  <2>1. UNCHANGED <<httpRecords, handled>>
    BY <1>6 DEF WebSocketCreated, WebSocketFrame, WebSocketClosed
  <2>2. e.id \in SocketIds
    BY <1>2, <1>6 DEF WebSocketCreated, WebSocketFrame, WebSocketClosed, HttpEvents,
                      SocketEvents
  <2>3. \A kind \in {"ws_created", "ws_frame", "ws_closed"}, url \in {"known", "null"} :
          SocketLine(kind, e.id, url) \in FileLines
    BY <2>2 DEF SocketLine, Lines, FileLines
  <2>4. Url(e.id) \in {"known", "null"}
    BY DEF Url
  <2>5. file' = file \/ \E line \in FileLines : Write(line)
    BY <1>6, <2>3, <2>4 DEF WebSocketCreated, WebSocketFrame, WebSocketClosed
  <2>6. \A id, hop : Written(id, hop) => Written(id, hop)'
    <3>1. CASE file' = file
      BY <3>1 DEF Written, HttpLines
    <3>2. CASE \E line \in FileLines : Write(line)
      BY <3>2, WriteExtends DEF TypeInv, RecordsTyped
    <3> QED BY <2>5, <3>1, <3>2
  <2> QED BY <1>1, <2>1, <2>6 DEF RecordsKept, AllWritten, Replaced, Open
<1> QED BY <1>3, <1>4, <1>5, <1>6 DEF OnMsg, e

LEMMA KeptAnswer ==
  ASSUME TypeInv, StopInv, RecordsKept, NEW f \in fetches, PostDataArrives(f) \/ BodyArrives(f)
  PROVE  RecordsKept'
<1>1. f.id \in HttpIds /\ UNCHANGED <<cleanup, handled>> /\ f.hop \in 0 .. MaxHops
      /\ traffic[f.id].hop \in 0 .. MaxHops
  BY DEF PostDataArrives, BodyArrives, TypeInv, RecordsTyped, processVars, Ids
<1>2. CASE UNCHANGED <<httpRecords, file>>
  BY <1>1, <1>2, KeptUndisturbed
<1>3. CASE httpRecords[f.id] # NoRecord
  <2>1. cleanup = "idle"
    BY <1>1, <1>3 DEF StopInv
  <2>2. httpRecords[f.id] \in HttpRecords /\ httpRecords[f.id].id = f.id
    BY <1>1, <1>3 DEF TypeInv, RecordsTyped, RecordsKept
  <2>3. CASE PostDataArrives(f)
    <3>1. RequestPostData(f) \subseteq 0 .. MaxHops
      BY <1>1, RecorderConstants DEF RequestPostData
    <3>2. PICK hop \in 0 .. MaxHops :
            httpRecords' = IF httpRecords[f.id] = NoRecord \/ hop = 0 THEN httpRecords
                           ELSE [httpRecords EXCEPT ![f.id].post = hop]
      BY <2>3, <3>1 DEF PostDataArrives
    <3> DEFINE rec == [httpRecords[f.id] EXCEPT !.post = hop]
    <3>3. rec \in HttpRecords /\ rec.id = f.id /\ rec.hop = httpRecords[f.id].hop
      BY <2>2 DEF HttpRecords
    <3>4. httpRecords' = httpRecords \/ httpRecords' = [httpRecords EXCEPT ![f.id] = rec]
      BY <3>2
    <3>5. file' = file
      BY <2>3 DEF PostDataArrives
    <3> HIDE DEF rec
    <3> QED BY <1>1, <1>2, <2>1, <3>3, <3>4, <3>5, KeptUpdate
  <2>4. CASE BodyArrives(f)
    <3>1. ResponseBody(f) \subseteq 0 .. MaxHops
      BY <1>1, RecorderConstants DEF ResponseBody
    <3>2. PICK hop \in 0 .. MaxHops :
            EmitHttpAndDelete(f.id, [httpRecords[f.id] EXCEPT !.body = hop, !.end = "finished"])
      BY <1>3, <2>4, <3>1 DEF BodyArrives
    <3> DEFINE rec == [httpRecords[f.id] EXCEPT !.body = hop, !.end = "finished"]
    <3>3. rec \in HttpRecords /\ rec.id = f.id /\ rec.hop = httpRecords[f.id].hop
      BY <2>2 DEF HttpRecords
    <3>4. EmitHttpAndDelete(f.id, rec)
      BY <3>2
    <3> HIDE DEF rec
    <3> QED BY <1>1, <2>1, <3>3, <3>4, KeptUpdate
  <2> QED BY <2>3, <2>4
<1> QED BY <1>2, <1>3 DEF PostDataArrives, BodyArrives

LEMMA KeptStep ==
  TypeInv /\ StopInv /\ HopsInOrder /\ RecordsKept /\ [Next]_vars => RecordsKept'
<1> SUFFICES ASSUME TypeInv, StopInv, HopsInOrder, RecordsKept, [Next]_vars
             PROVE  RecordsKept'
  OBVIOUS
<1>1. CASE \/ \E signal \in Signals : Stop(signal) \/ Kill(signal)
           \/ SubscribeAborted
  BY <1>1, KeptCleanup, KeptUndisturbed DEF Stop, Kill, SubscribeAborted, recordVars
<1>2. CASE MainStep \/ CleanupStep \/ Subscribed \/ SubscribeFailed \/ StreamEnds
  BY <1>2, KeptUndisturbed DEF MainStep, CleanupStep, NetworkEnabled, PageEnabled, Slept,
     NetworkDisabled, PageDisabled, Subscribed, SubscribeFailed, StreamEnds, recordVars
<1>3. CASE OnMsg
  BY <1>3, KeptOnMsg
<1>4. CASE \E f \in fetches : PostDataArrives(f) \/ BodyArrives(f)
  BY <1>4, KeptAnswer
<1>5. CASE \/ \E id \in HttpIds : Request(id) \/ Response(id) \/ Finish(id) \/ Fail(id)
           \/ \E id \in SocketIds : Connect(id) \/ Frame(id) \/ Close(id)
  BY <1>5, KeptUndisturbed DEF Request, Response, Finish, Fail, Connect, Frame, Close, Happens,
     processVars, recordVars
<1>6. CASE UNCHANGED vars
  BY <1>6, KeptUndisturbed DEF vars
<1> QED BY <1>1, <1>2, <1>3, <1>4, <1>5, <1>6 DEF Next

\* When the recording ends, every request whose start was heard is in the file,
\* unless a redirect replaced its record (record-network.ts:477-482, 581-583,
\* 686-718, 803-821): for any requests, redirects, broken streams and late bodies.
THEOREM NothingIsLost == Spec => []AllWritten
<1>1. Init => HopsInOrder /\ RecordsKept
  BY DEF Init, HopsInOrder, Starts, RecordsKept, AllWritten
<1>2. RecordsKept => AllWritten
  BY DEF RecordsKept
<1> QED BY <1>1, <1>2, InvInit, InvStep, HopsStep, KeptStep, PTL DEF Spec

-----------------------------------------------------------------------------
(* The domains of the tab.                                                 *)

Enabling == {"enablingNetwork", "enablingPage"}

\* Where cleanup was called while main switches a domain on: there, or at an earlier one.
StoppedAhead ==
  /\ main = "enablingNetwork" => cleanup = "idle" \/ stoppedAt = "enablingNetwork"
  /\ main = "enablingPage" => cleanup = "idle" \/ stoppedAt \in Enabling

\* What cleanup's answers leave, for good: main switches on only what it waited for
\* when cleanup was called, and what comes after it.
Released ==
  /\ stoppedAt # "enablingNetwork" =>
       (cleanup \in {"disablingPage", "closed"} => "Network" \notin domains)
  /\ stoppedAt \notin Enabling => (cleanup = "closed" => domains = {})

DomainInv == StoppedAhead /\ (~failed => Released)

\* Steps that leave main's commands, cleanup and the domains alone.
LEMMA DomainUndisturbed ==
  ASSUME DomainInv, UNCHANGED <<cleanup, stoppedAt, domains, failed>>,
         main' = main \/ main' \notin Enabling
  PROVE  DomainInv'
  BY DEF DomainInv, StoppedAhead, Released, Enabling

LEMMA DomainStep == TypeInv /\ DomainInv /\ [Next]_vars => DomainInv'
<1> SUFFICES ASSUME TypeInv, DomainInv, [Next]_vars PROVE DomainInv'
  OBVIOUS
<1>1. ASSUME Cleanup PROVE DomainInv'
  BY <1>1 DEF Cleanup, StreamAborted, DomainInv, StoppedAhead, Released, Enabling
<1>2. ASSUME NEW signal \in Signals, Stop(signal) \/ Kill(signal) PROVE DomainInv'
  BY <1>1, <1>2, DomainUndisturbed DEF Stop, Kill, browserVars, Enabling
<1>3. CASE MainStep
  <2>1. CASE NetworkEnabled \/ PageEnabled
    BY <2>1 DEF NetworkEnabled, PageEnabled, Switched, SwitchFailed, DomainInv,
       StoppedAhead, Released, Enabling
  <2>2. CASE Slept
    BY <2>2, DomainUndisturbed DEF Slept, browserVars, Enabling
  <2> QED BY <1>3, <2>1, <2>2 DEF MainStep
<1>4. CASE CleanupStep
  <2>1. CASE NetworkDisabled
    BY <2>1 DEF NetworkDisabled, Switched, SwitchFailed, DomainInv, StoppedAhead, Released
  <2>2. CASE PageDisabled
    <3>1. domains \subseteq {"Network", "Page"} /\ failed \in BOOLEAN
      BY DEF TypeInv
    <3>2. /\ cleanup = "disablingPage" /\ cleanup' = "closed" /\ main' = main
          /\ stoppedAt' = stoppedAt
          /\ \/ domains' = domains \ {"Page"} /\ failed' = failed
             \/ failed' = TRUE
      BY <2>2 DEF PageDisabled, Switched, SwitchFailed
    <3> QED BY <3>1, <3>2 DEF DomainInv, StoppedAhead, Released, Enabling
  <2> QED BY <1>4, <2>1, <2>2 DEF CleanupStep
<1>5. CASE Subscribed \/ SubscribeFailed \/ StreamEnds
  BY <1>5, DomainUndisturbed DEF Subscribed, SubscribeFailed, StreamEnds, browserVars, Enabling
<1>6. CASE SubscribeAborted
  BY <1>1, <1>6 DEF SubscribeAborted
<1>7. CASE OnMsg \/ \E f \in fetches : PostDataArrives(f) \/ BodyArrives(f)
  BY <1>7, DomainUndisturbed DEF OnMsg, PostDataArrives, BodyArrives, processVars, browserVars
<1>8. CASE \/ \E id \in HttpIds : Request(id) \/ Response(id) \/ Finish(id) \/ Fail(id)
           \/ \E id \in SocketIds : Connect(id) \/ Frame(id) \/ Close(id)
  BY <1>8, DomainUndisturbed DEF Request, Response, Finish, Fail, Connect, Frame, Close, Happens,
     processVars
<1>9. CASE UNCHANGED vars
  BY <1>9, DomainUndisturbed DEF vars
<1> QED BY <1>2, <1>3, <1>4, <1>5, <1>6, <1>7, <1>8, <1>9 DEF Next

\* If no command failed, a recording whose cleanup was not called while main still
\* switched the domains on leaves none on, and one whose cleanup was called during
\* Page.enable at most that one, whatever main and the stream do while cleanup waits
\* (record-network.ts:576-593, 625-636).
THEOREM NothingIsLeftOn == Spec => []DomainsReleased
<1>1. Init => DomainInv
  BY DEF Init, DomainInv, StoppedAhead, Released
<1>2. TypeInv /\ DomainInv => DomainsReleased
  BY DEF TypeInv, DomainInv, Released, DomainsReleased, Ended, Enabling
<1> QED BY <1>1, <1>2, InvInit, InvStep, DomainStep, PTL DEF Spec
=============================================================================
