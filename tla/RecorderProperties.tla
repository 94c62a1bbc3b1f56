------------------------- MODULE RecorderProperties -------------------------
(***************************************************************************)
(* What makes a recording correct.                                         *)
(***************************************************************************)
EXTENDS Recorder

\* The variables have the types their comments in Recorder give them; in
\* particular every line written is a line or a record (main, cleanup and the
\* handlers of record-network.ts:445-1045).
TypeOK ==
  /\ main \in {"enablingNetwork", "enablingPage", "sleeping", "subscribing", "reading",
               "backoff", "done", "exited"}
  /\ cleanup \in {"idle", "disablingNetwork", "disablingPage", "closed"}
  /\ armed \subseteq Signals
  /\ httpRecords \in [HttpIds -> HttpRecords \cup {NoRecord}]
  /\ wsConns \in [SocketIds -> {"absent", "unnamed", "named"}]
  /\ fetches \subseteq [what : {"post", "body"}, id : HttpIds, hop : 0 .. MaxHops]
  /\ \A i \in DOMAIN file : file[i] \in HttpRecords \cup Lines
  /\ \A i \in DOMAIN stream : stream[i].id \in Ids
  /\ domains \subseteq {"Network", "Page"}
  /\ handled \subseteq HttpIds \X Hops
  /\ gaps \subseteq Ids
  /\ failed \in BOOLEAN

HttpLines == {i \in DOMAIN file : file[i].kind = "http"}

Written(id, hop) == \E i \in HttpLines : file[i].id = id /\ file[i].hop = hop

\* recorder_stop is the last line of the file: no event and no body that arrives
\* while cleanup waits for its commands is written behind it
\* (record-network.ts:576-595, 803-821).
NothingAfterStop ==
  \A i \in DOMAIN file : file[i].kind = "recorder_stop" => i = Len(file)

\* A hop of a request is written at most once, whichever of its body, its failure
\* and the end of the recording come first (emitHttpAndDelete,
\* record-network.ts:477-482).
WrittenOnce ==
  \A i, j \in HttpLines : file[i].id = file[j].id /\ file[i].hop = file[j].hop => i = j

\* When the recording ends every request it recorded is in the file, finished or
\* not, unless a redirect replaced its record (record-network.ts:581-583).
AllWritten ==
  cleanup # "idle" =>
    \A x \in handled : \/ Written(x[1], x[2])
                       \/ \E y \in handled : y[1] = x[1] /\ y[2] > x[2]

\* Nothing is promised of a request of which an event was lost.
Complete(line) == line.id \notin gaps

ResponseIsOwn ==
  \A i \in HttpLines :
    Complete(file[i]) => {file[i].response, file[i].body} \subseteq {0, file[i].hop}

PostDataIsOwn ==
  \A i \in HttpLines :
    Complete(file[i]) /\ traffic[file[i].id].hop = 1 => file[i].post \in {0, file[i].hop}

\* If no event of a request is lost, the response and the body of a record are those
\* of the hop it describes, however often the request is redirected
\* (record-network.ts:686, 720-776, 803-821).  The post data need not be: they are
\* written into whichever record is there when they arrive
\* (record-network.ts:694-702), and are the record's own only if the request was not
\* redirected.
OneHopPerRecord == ResponseIsOwn /\ PostDataIsOwn

\* A recording that was not stopped while it started leaves no domain on in the tab,
\* if no command failed.  One stopped while Page.enable was not answered leaves at
\* most that domain on; one stopped before may leave both, since main goes on
\* enabling beside cleanup (record-network.ts:586-593, 625-636).
DomainsReleased ==
  Ended /\ main # "exited" /\ ~failed /\ stoppedAt # "enablingNetwork"
    => domains \subseteq (IF stoppedAt = "enablingPage" THEN {"Page"} ELSE {})

\* Once cleanup was called the process comes to its end, whatever the stream and
\* the handlers were doing (record-network.ts:576-595 and 247-339).
RecorderEnds == cleanup # "idle" ~> Ended

\* record-network.ts:2 says "This unified recorder captures both HTTP(S) requests
\* and WebSocket traffic.": when the recording ends every request whose start it
\* heard is in the file.
EveryRequestRecorded == cleanup # "idle" => \A x \in handled : Written(x[1], x[2])
=============================================================================
