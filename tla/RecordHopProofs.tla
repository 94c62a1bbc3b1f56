-------------------------- MODULE RecordHopProofs --------------------------
(***************************************************************************)
(* Proofs about the records of requests that are redirected, whose events  *)
(* are lost, and whose bodies come late: each hop is written once, with    *)
(* what belongs to it.                                                     *)
(***************************************************************************)
EXTENDS RecorderProofs, SequenceLemmas

\* The events of a request that the stream holds, and the starts of hops among them.
EventsOf(id) == {i \in DOMAIN stream : stream[i].id = id}
StartsOf(id) == {i \in EventsOf(id) : stream[i].type = "requestWillBeSent"}

\* The request is over, and the recorder knows.
Over(id) == traffic[id].phase = "over" /\ EventsOf(id) = {}

\* In the stream the starts of a request come first, and tell of the hop the browser
\* has reached unless one is missing; the other events are of that hop, and what ends
\* the request comes last.
StreamInv ==
  \A id \in HttpIds : \A i \in EventsOf(id) :
    /\ i \notin StartsOf(id) =>
         /\ stream[i].hop = traffic[id].hop
         /\ traffic[id].phase \in {"responded", "over"}
         /\ \A j \in StartsOf(id) : j < i
    /\ i \in StartsOf(id) /\ id \notin gaps =>
         stream[i].hop = traffic[id].hop \/ \E j \in StartsOf(id) : j > i
    /\ stream[i].type \in {"loadingFinished", "loadingFailed"} =>
         /\ traffic[id].phase = "over"
         /\ \A j \in EventsOf(id) : j <= i

\* A body is asked for when the request is over.
FetchInv == \A f \in fetches : f.what = "body" => Over(f.id)

\* A record in the map is wanted, not written yet, and of one hop.
RecordInv(id, rec) ==
  /\ id \notin Unwanted
  /\ rec.id = id
  /\ rec.hop # 0 => <<id, rec.hop>> \in handled
  /\ ~Written(id, rec.hop)
  /\ rec.body = 0
  /\ id \notin gaps => rec.response \in {0, rec.hop}

RecordsInv == \A id \in HttpIds : httpRecords[id] # NoRecord => RecordInv(id, httpRecords[id])

\* Once all starts of a request are heard, its record is that of its last hop; it is
\* there until the request is over.
LastHopInv ==
  main # "exited" =>
    \A id \in HttpIds \ gaps :
      StartsOf(id) = {} =>
        /\ httpRecords[id] # NoRecord => httpRecords[id].hop = traffic[id].hop
        /\ cleanup = "idle" /\ id \notin Unwanted /\ traffic[id].phase # "idle" =>
             Over(id) \/ httpRecords[id] # NoRecord

\* A line with a hop is of a start that was heard; one without is the last of its
\* request.
FileInv ==
  /\ \A id, hop : Written(id, hop) /\ hop # 0 => <<id, hop>> \in handled
  /\ cleanup = "idle" => \A id : Written(id, 0) => Over(id)
  /\ WrittenOnce
  /\ ResponseIsOwn

OnceInv == StreamInv /\ FetchInv /\ RecordsInv /\ LastHopInv /\ FileInv

-----------------------------------------------------------------------------
(* What a longer file says of the hops that are written.                   *)

OfOneHop(line) == {line.response, line.body} \subseteq {0, line.hop}

\* The lines of a longer file are those it had and those that are new.
LEMMA NewLines ==
  ASSUME file \in Seq(FileLines), NEW more \in Seq(FileLines), file' = file \o more,
         NEW i \in HttpLines'
  PROVE  /\ i \in Nat /\ Len(file) \in Nat
         /\ \/ i \in HttpLines /\ file'[i] = file[i]
            \/ /\ i - Len(file) \in DOMAIN more /\ file'[i] = more[i - Len(file)]
               /\ more[i - Len(file)].kind = "http"
<1>1. /\ Len(file) \in Nat /\ Len(more) \in Nat /\ DOMAIN file = 1 .. Len(file)
      /\ DOMAIN more = 1 .. Len(more) /\ DOMAIN file' = 1 .. Len(file) + Len(more)
      /\ \A j \in 1 .. Len(file) : file'[j] = file[j]
      /\ \A j \in 1 .. Len(more) : file'[Len(file) + j] = more[j]
  BY ConcatProperties, LenProperties
<1>2. i \in 1 .. Len(file) + Len(more) /\ file'[i].kind = "http"
  BY <1>1 DEF HttpLines
<1>3. CASE i \in 1 .. Len(file)
  BY <1>1, <1>2, <1>3 DEF HttpLines
<1>4. CASE i \notin 1 .. Len(file)
  <2>1. i - Len(file) \in 1 .. Len(more) /\ Len(file) + (i - Len(file)) = i
    BY <1>1, <1>2, <1>4
  <2> QED BY <1>1, <1>2, <2>1
<1> QED BY <1>3, <1>4

\* Lines of hops that are not in the file yet, each hop once.
LEMMA LinesAdded ==
  ASSUME file \in Seq(FileLines), WrittenOnce, ResponseIsOwn, gaps \subseteq gaps',
         NEW more \in Seq(FileLines), file' = file \o more,
         \A i \in DOMAIN more : more[i].kind = "http" =>
           /\ ~Written(more[i].id, more[i].hop)
           /\ more[i].id \notin gaps' => OfOneHop(more[i]),
         \A i, j \in DOMAIN more :
           more[i].kind = "http" /\ more[j].kind = "http" /\ more[i].id = more[j].id => i = j
  PROVE  /\ WrittenOnce' /\ ResponseIsOwn'
         /\ \A id, hop : Written(id, hop)' =>
              \/ Written(id, hop)
              \/ \E i \in DOMAIN more : more[i].kind = "http" /\ more[i].id = id /\ more[i].hop = hop
<1> DEFINE n == Len(file)
<1>1. ASSUME NEW i \in HttpLines'
      PROVE  /\ i \in Nat /\ n \in Nat
             /\ \/ i \in HttpLines /\ file'[i] = file[i] /\ Written(file[i].id, file[i].hop)
                \/ /\ i - n \in DOMAIN more /\ file'[i] = more[i - n]
                   /\ more[i - n].kind = "http"
  BY NewLines DEF Written
<1> HIDE DEF n
<1>2. WrittenOnce'
  <2> SUFFICES ASSUME NEW i \in HttpLines', NEW j \in HttpLines',
                      file'[i].id = file'[j].id, file'[i].hop = file'[j].hop
               PROVE  i = j
    BY DEF WrittenOnce
  <2>1. CASE i \in HttpLines /\ file'[i] = file[i] /\ Written(file[i].id, file[i].hop)
    <3>1. CASE j \in HttpLines /\ file'[j] = file[j]
      BY <2>1, <3>1 DEF WrittenOnce
    <3>2. CASE j - n \in DOMAIN more /\ file'[j] = more[j - n] /\ more[j - n].kind = "http"
      BY <2>1, <3>2
    <3> QED BY <1>1, <3>1, <3>2
  <2>2. CASE /\ i - n \in DOMAIN more /\ file'[i] = more[i - n]
             /\ more[i - n].kind = "http"
    <3>1. /\ j - n \in DOMAIN more /\ file'[j] = more[j - n]
          /\ more[j - n].kind = "http"
      BY <1>1, <2>2
    <3>2. i - n = j - n
      BY <2>2, <3>1
    <3> QED BY <1>1, <3>2
  <2> QED BY <1>1, <2>1, <2>2
<1>3. ResponseIsOwn'
  <2> SUFFICES ASSUME NEW i \in HttpLines', file'[i].id \notin gaps'
               PROVE  OfOneHop(file[i])'
    BY DEF ResponseIsOwn, Complete, OfOneHop
  <2>1. CASE i \in HttpLines /\ file'[i] = file[i]
    BY <2>1 DEF ResponseIsOwn, Complete, OfOneHop
  <2>2. CASE /\ i - n \in DOMAIN more /\ file'[i] = more[i - n]
             /\ more[i - n].kind = "http"
    BY <2>2 DEF OfOneHop
  <2> QED BY <1>1, <2>1, <2>2
<1>4. ASSUME NEW id, NEW hop, Written(id, hop)'
      PROVE  \/ Written(id, hop)
             \/ \E i \in DOMAIN more : more[i].kind = "http" /\ more[i].id = id /\ more[i].hop = hop
  <2>1. PICK i \in HttpLines' : file'[i].id = id /\ file'[i].hop = hop
    BY <1>4 DEF Written
  <2> QED BY <1>1, <2>1
<1> QED BY <1>2, <1>3, <1>4

\* One line more: a record, or a line of a websocket.
LEMMA LineAdded ==
  ASSUME file \in Seq(FileLines), WrittenOnce, ResponseIsOwn, gaps \subseteq gaps',
         NEW line \in FileLines, Write(line),
         line.kind = "http" => /\ ~Written(line.id, line.hop)
                               /\ line.id \notin gaps' => OfOneHop(line)
  PROVE  /\ WrittenOnce' /\ ResponseIsOwn'
         /\ \A id, hop : Written(id, hop)' =>
              \/ Written(id, hop)
              \/ line.kind = "http" /\ line.id = id /\ line.hop = hop
<1>1. CASE file' = file
  BY <1>1 DEF WrittenOnce, ResponseIsOwn, Complete, Written, HttpLines
<1>2. CASE file' # file
  <2> DEFINE more == <<line>>
  <2>1. /\ file' = file \o more /\ more \in Seq(FileLines)
        /\ \A i \in DOMAIN more : i = 1 /\ more[i] = line
    BY <1>2 DEF Write
  <2> HIDE DEF more
  <2> QED BY <2>1, LinesAdded
<1> QED BY <1>1, <1>2

\* What cleanup writes are the records of the map, each of them once, and a last line.
LEMMA FlushedLines ==
  ASSUME TypeInv, FlushRecords
  PROVE  \E more \in Seq(FileLines) :
           /\ file' = file \o more
           /\ \A i \in DOMAIN more : more[i].kind = "http" => more[i] \in OpenRecords
           /\ \A i, j \in DOMAIN more :
                more[i].kind = "http" /\ more[j].kind = "http" /\ more[i] = more[j] => i = j
<1>1. PICK lines \in SetToSeqs(OpenRecords) :
        file' = file \o lines \o <<Line("recorder_stop")>>
  BY DEF FlushRecords
<1>2. OpenRecords \subseteq HttpRecords /\ Cardinality(OpenRecords) \in Nat
  BY OpenRecordsFinite DEF TypeInv, RecordsTyped
<1>3. /\ lines \in [1 .. Cardinality(OpenRecords) -> OpenRecords]
      /\ \A i, j \in 1 .. Cardinality(OpenRecords) : lines[i] = lines[j] => i = j
  BY <1>1 DEF SetToSeqs
<1>4. /\ lines \in Seq(FileLines) /\ <<Line("recorder_stop")>> \in Seq(FileLines)
      /\ \A i \in DOMAIN lines : lines[i] \in OpenRecords
      /\ \A i, j \in DOMAIN lines : lines[i] = lines[j] => i = j
  <2>1. lines \in Seq(FileLines)
    BY <1>2, <1>3 DEF FileLines
  <2>2. <<Line("recorder_stop")>> \in Seq(FileLines)
    BY DEF FileLines, Lines, Line
  <2> QED BY <1>3, <2>1, <2>2
<1> DEFINE more == lines \o <<Line("recorder_stop")>>
<1>5. /\ more \in Seq(FileLines) /\ Len(lines) \in Nat /\ DOMAIN lines = 1 .. Len(lines)
      /\ DOMAIN more = 1 .. Len(lines) + 1
      /\ \A i \in DOMAIN lines : more[i] = lines[i]
      /\ more[Len(lines) + 1] = Line("recorder_stop")
  BY <1>4, ConcatProperties
<1>6. file' = file \o more
  BY <1>1, <1>4, ConcatAssociative DEF TypeInv, RecordsTyped
<1> HIDE DEF more
<1>7. \A i \in DOMAIN more : more[i].kind = "http" => i \in DOMAIN lines /\ more[i] = lines[i]
  <2>1. Line("recorder_stop").kind # "http"
    BY DEF Line
  <2> QED BY <1>5, <2>1
<1>8. \A i \in DOMAIN more : more[i].kind = "http" => more[i] \in OpenRecords
  BY <1>4, <1>7
<1>9. \A i, j \in DOMAIN more :
        more[i].kind = "http" /\ more[j].kind = "http" /\ more[i] = more[j] => i = j
  BY <1>4, <1>7
<1> more \in Seq(FileLines)
  BY <1>5
<1> WITNESS more \in Seq(FileLines)
<1> QED BY <1>6, <1>8, <1>9

\* Each record of the map is of another request, and of a hop that is not written.
LEMMA FlushOnce ==
  ASSUME TypeInv, RecordsInv, WrittenOnce, ResponseIsOwn, gaps' = gaps, FlushRecords
  PROVE  /\ WrittenOnce' /\ ResponseIsOwn'
         /\ \A id, hop : Written(id, hop)' =>
              \/ Written(id, hop)
              \/ /\ id \in HttpIds /\ httpRecords[id] # NoRecord
                 /\ httpRecords[id].hop = hop
<1>1. PICK more \in Seq(FileLines) :
        /\ file' = file \o more
        /\ \A i \in DOMAIN more : more[i].kind = "http" => more[i] \in OpenRecords
        /\ \A i, j \in DOMAIN more :
             more[i].kind = "http" /\ more[j].kind = "http" /\ more[i] = more[j] => i = j
  BY FlushedLines
<1>2. ASSUME NEW i \in DOMAIN more, more[i].kind = "http"
      PROVE  \E id \in HttpIds : /\ httpRecords[id] # NoRecord /\ more[i] = httpRecords[id]
                                 /\ RecordInv(id, httpRecords[id])
  BY <1>1, <1>2 DEF OpenRecords, RecordsInv
<1>3. \A i \in DOMAIN more : more[i].kind = "http" =>
        /\ ~Written(more[i].id, more[i].hop)
        /\ more[i].id \notin gaps' => OfOneHop(more[i])
  BY <1>2 DEF RecordInv, OfOneHop
<1>4. ASSUME NEW i \in DOMAIN more, NEW j \in DOMAIN more,
              more[i].kind = "http", more[j].kind = "http", more[i].id = more[j].id
       PROVE  i = j
  <2>1. PICK p \in HttpIds : more[i] = httpRecords[p] /\ httpRecords[p].id = p
    BY <1>2, <1>4 DEF RecordInv
  <2>2. PICK q \in HttpIds : more[j] = httpRecords[q] /\ httpRecords[q].id = q
    BY <1>2, <1>4 DEF RecordInv
  <2>3. more[i] = more[j]
    BY <1>4, <2>1, <2>2
  <2> QED BY <1>1, <1>4, <2>3
<1>5. file \in Seq(FileLines)
  BY DEF TypeInv, RecordsTyped
<1>6. /\ WrittenOnce' /\ ResponseIsOwn'
       /\ \A id, hop : Written(id, hop)' =>
            \/ Written(id, hop)
            \/ \E i \in DOMAIN more : more[i].kind = "http" /\ more[i].id = id /\ more[i].hop = hop
  BY <1>1, <1>3, <1>4, <1>5, LinesAdded
<1>7. ASSUME NEW id, NEW hop, Written(id, hop)', ~Written(id, hop)
       PROVE  id \in HttpIds /\ httpRecords[id] # NoRecord /\ httpRecords[id].hop = hop
  <2>1. PICK i \in DOMAIN more : more[i].kind = "http" /\ more[i].id = id /\ more[i].hop = hop
    BY <1>6, <1>7
  <2>2. PICK q \in HttpIds : /\ httpRecords[q] # NoRecord /\ more[i] = httpRecords[q]
                             /\ httpRecords[q].id = q
    BY <1>2, <2>1 DEF RecordInv
  <2> QED BY <2>1, <2>2
<1> QED BY <1>6, <1>7

-----------------------------------------------------------------------------
(* Steps that write nothing.                                               *)

\* Steps of main and of cleanup between its awaits.
LEMMA OnceUndisturbed ==
  ASSUME OnceInv, UNCHANGED <<recordVars, stream, traffic, gaps>>,
         main' = "exited" \/ main # "exited", cleanup' = cleanup \/ cleanup' # "idle"
  PROVE  OnceInv'
<1>1. /\ UNCHANGED <<httpRecords, fetches, file, handled, stream, traffic, gaps>>
  BY DEF recordVars
<1>2. \A id : /\ EventsOf(id)' = EventsOf(id) /\ StartsOf(id)' = StartsOf(id)
              /\ Over(id)' = Over(id)
  BY <1>1 DEF EventsOf, StartsOf, Over
<1>3. \A id, hop : Written(id, hop)' = Written(id, hop)
  BY <1>1 DEF Written, HttpLines
<1>4. WrittenOnce' /\ ResponseIsOwn'
  BY <1>1 DEF OnceInv, FileInv, WrittenOnce, ResponseIsOwn, Complete, HttpLines
<1>5. StreamInv'
  BY <1>1, <1>2 DEF OnceInv, StreamInv
<1>6. FetchInv'
  BY <1>1, <1>2 DEF OnceInv, FetchInv
<1>7. RecordsInv'
  BY <1>1, <1>3 DEF OnceInv, RecordsInv, RecordInv
<1>8. LastHopInv'
  BY <1>1, <1>2 DEF OnceInv, LastHopInv
<1>9. FileInv'
  BY <1>1, <1>2, <1>3, <1>4 DEF OnceInv, FileInv
<1> QED BY <1>5, <1>6, <1>7, <1>8, <1>9 DEF OnceInv

\* An empty stream holds nothing that could be wrong, and who knew that a request is
\* over still knows.
LEMMA StreamCut ==
  ASSUME stream' = <<>>, traffic' = traffic
  PROVE  /\ StreamInv'
         /\ \A id : EventsOf(id)' = {} /\ StartsOf(id)' = {}
         /\ \A id : Over(id) => Over(id)'
<1>1. \A id : EventsOf(id)' = {} /\ StartsOf(id)' = {}
  BY DEF EventsOf, StartsOf
<1> QED BY <1>1 DEF StreamInv, Over

\* The stream is lost with the process or by itself; then its requests have gaps.
LEMMA OnceCut ==
  ASSUME OnceInv, Kill("SIGINT") \/ Kill("SIGTERM") \/ StreamEnds
  PROVE  OnceInv'
<1>1. /\ UNCHANGED <<cleanup, httpRecords, fetches, file, handled, traffic>>
      /\ stream' = <<>> /\ gaps \subseteq gaps'
  BY DEF Kill, StreamEnds, recordVars, browserVars
<1>2. /\ StreamInv'
      /\ \A id : EventsOf(id)' = {} /\ StartsOf(id)' = {}
      /\ \A id : Over(id) => Over(id)'
  BY <1>1, StreamCut
<1>3. \A id, hop : Written(id, hop)' = Written(id, hop)
  BY <1>1 DEF Written, HttpLines
<1>4. WrittenOnce' /\ ResponseIsOwn'
  BY <1>1 DEF OnceInv, FileInv, WrittenOnce, ResponseIsOwn, Complete, HttpLines
<1>5. FetchInv'
  BY <1>1, <1>2 DEF OnceInv, FetchInv
<1>6. RecordsInv'
  BY <1>1, <1>3 DEF OnceInv, RecordsInv, RecordInv
<1>7. LastHopInv'
  <2>1. CASE main' = "exited"
    BY <2>1 DEF LastHopInv
  <2>2. CASE StreamEnds
    <3>1. \A id \in HttpIds \ gaps' : EventsOf(id) = {} /\ id \notin gaps /\ StartsOf(id) = {}
      BY <2>2 DEF StreamEnds, EventsOf, StartsOf
    <3>2. main # "exited"
      BY <2>2 DEF StreamEnds
    <3> QED BY <1>1, <1>2, <3>1, <3>2 DEF OnceInv, LastHopInv
  <2> QED BY <2>1, <2>2 DEF Kill
<1>8. FileInv'
  BY <1>1, <1>2, <1>3, <1>4 DEF OnceInv, FileInv
<1> QED BY <1>2, <1>5, <1>6, <1>7, <1>8 DEF OnceInv

\* cleanup writes the map and empties it.
LEMMA OnceCleanup ==
  ASSUME TypeInv, OnceInv, Cleanup
  PROVE  OnceInv'
<1>1. /\ cleanup' # "idle" /\ UNCHANGED <<fetches, handled, traffic, gaps>> /\ FlushRecords
      /\ httpRecords' = [id \in HttpIds |-> NoRecord]
      /\ stream' = <<>>
  BY DEF Cleanup, FlushRecords, StreamAborted, browserVars
<1>2. /\ StreamInv'
      /\ \A id : Over(id) => Over(id)'
  BY <1>1, StreamCut
<1>3. /\ WrittenOnce' /\ ResponseIsOwn'
      /\ \A id, hop : Written(id, hop)' =>
           \/ Written(id, hop)
           \/ /\ id \in HttpIds /\ httpRecords[id] # NoRecord
              /\ httpRecords[id].hop = hop
  BY <1>1, FlushOnce DEF OnceInv, FileInv
<1>4. FetchInv'
  BY <1>1, <1>2 DEF OnceInv, FetchInv
<1>5. RecordsInv' /\ LastHopInv'
  BY <1>1 DEF RecordsInv, LastHopInv
<1>6. FileInv'
  BY <1>1, <1>3 DEF OnceInv, FileInv, RecordsInv, RecordInv
<1> QED BY <1>2, <1>4, <1>5, <1>6 DEF OnceInv

-----------------------------------------------------------------------------
(* Handling an event.                                                      *)

\* What is first in the stream: a start, which may be the last; or, when all starts
\* are heard, an event of the hop the browser has reached, which may end the request.
LEMMA HeadOfStream ==
  ASSUME TypeInv, StreamInv, OnMsg, NEW e, e = Head(stream)
  PROVE  /\ StreamInv' /\ e \in HttpEvents \cup SocketEvents
         /\ \A id : Over(id) => Over(id)' /\ id # e.id
         /\ \A id : id # e.id => /\ (StartsOf(id)' = {} => StartsOf(id) = {})
                                 /\ (Over(id)' => Over(id))
         /\ e.id \in HttpIds /\ e.type = "requestWillBeSent" =>
              (e.id \notin gaps /\ StartsOf(e.id)' = {} => e.hop = traffic[e.id].hop)
         /\ e.id \in HttpIds /\ e.type # "requestWillBeSent" =>
              /\ StartsOf(e.id) = {}
              /\ e.hop = traffic[e.id].hop
              /\ traffic[e.id].phase # "idle"
         /\ e.id \in HttpIds /\ e.type \in {"loadingFinished", "loadingFailed"} => Over(e.id)'
<1>1. /\ stream \in Seq(HttpEvents \cup SocketEvents) /\ stream # <<>>
      /\ stream' = Tail(stream) /\ UNCHANGED <<traffic, gaps>>
  BY DEF OnMsg, TypeInv, browserVars
<1>2. /\ DOMAIN stream \subseteq Nat \ {0} /\ DOMAIN stream' \subseteq Nat \ {0}
      /\ 1 \in DOMAIN stream /\ e = stream[1] /\ e \in HttpEvents \cup SocketEvents
      /\ \A i \in DOMAIN stream' : i + 1 \in DOMAIN stream /\ stream'[i] = stream[i + 1]
      /\ \A i \in DOMAIN stream : i > 1 => i - 1 \in DOMAIN stream' /\ stream'[i - 1] = stream[i]
  BY <1>1, Advancing
<1>3. /\ \A id : \A i \in EventsOf(id)' : i + 1 \in EventsOf(id) /\ stream'[i] = stream[i + 1]
                                          /\ i \in Nat \ {0}
      /\ \A id : \A i \in StartsOf(id)' : i + 1 \in StartsOf(id) /\ i \in Nat \ {0}
  BY <1>2 DEF EventsOf, StartsOf
<1>4. /\ \A id : \A i \in EventsOf(id) : i \in Nat /\ (i > 1 => i - 1 \in EventsOf(id)')
      /\ \A id : \A i \in StartsOf(id) : i \in Nat /\ (i > 1 => i - 1 \in StartsOf(id)')
      /\ 1 \in EventsOf(e.id)
      /\ e.type = "requestWillBeSent" <=> 1 \in StartsOf(e.id)
      /\ \A id : id # e.id => 1 \notin EventsOf(id)
      /\ \A id : StartsOf(id) \subseteq EventsOf(id)
      /\ \A id : \A i \in EventsOf(id) : i # 0
  BY <1>2 DEF EventsOf, StartsOf
<1>5. ASSUME NEW id, id # e.id
      PROVE  /\ (StartsOf(id)' = {} => StartsOf(id) = {})
             /\ EventsOf(id)' = {} => EventsOf(id) = {}
  <2>1. \A i \in EventsOf(id) : i > 1
    BY <1>4, <1>5
  <2> QED BY <1>4, <2>1
<1>6. StreamInv'
  <2> SUFFICES ASSUME NEW id \in HttpIds, NEW i \in EventsOf(id)'
               PROVE  /\ i \notin StartsOf(id)' =>
                           /\ stream'[i].hop = traffic'[id].hop
                           /\ traffic'[id].phase \in {"responded", "over"}
                           /\ \A j \in StartsOf(id)' : j < i
                      /\ i \in StartsOf(id)' /\ id \notin gaps' =>
                           \/ stream'[i].hop = traffic'[id].hop
                           \/ \E j \in StartsOf(id)' : j > i
                      /\ stream'[i].type \in {"loadingFinished", "loadingFailed"} =>
                           /\ traffic'[id].phase = "over"
                           /\ \A j \in EventsOf(id)' : j <= i
    BY DEF StreamInv
  <2>1. i + 1 \in EventsOf(id) /\ stream'[i] = stream[i + 1] /\ i \in Nat \ {0}
    BY <1>3
  <2>2. i \in StartsOf(id)' <=> i + 1 \in StartsOf(id)
    BY <2>1, <1>3 DEF StartsOf
  <2>3. ASSUME i \notin StartsOf(id)'
        PROVE  /\ stream'[i].hop = traffic'[id].hop
               /\ traffic'[id].phase \in {"responded", "over"}
               /\ \A j \in StartsOf(id)' : j < i
    <3>1. \A j \in StartsOf(id)' : j \in Nat /\ j + 1 < i + 1
      BY <1>3, <2>1, <2>2, <2>3 DEF StreamInv
    <3>2. \A j \in StartsOf(id)' : j < i
      BY <2>1, <3>1
    <3>3. /\ stream[i + 1].hop = traffic[id].hop
          /\ traffic[id].phase \in {"responded", "over"}
      BY <2>1, <2>2, <2>3 DEF StreamInv
    <3> QED BY <1>1, <2>1, <3>2, <3>3
  <2>4. ASSUME i \in StartsOf(id)', id \notin gaps'
        PROVE  \/ stream'[i].hop = traffic'[id].hop
               \/ \E j \in StartsOf(id)' : j > i
    <3>1. CASE \E j \in StartsOf(id) : j > i + 1
      <4>1. PICK j \in StartsOf(id) : j > i + 1
        BY <3>1
      <4>2. j \in Nat /\ j - 1 \in StartsOf(id)' /\ j - 1 > i
        BY <1>4, <2>1, <4>1
      <4> QED BY <4>2
    <3>2. CASE ~ \E j \in StartsOf(id) : j > i + 1
      <4>1. stream[i + 1].hop = traffic[id].hop
        BY <1>1, <2>1, <2>2, <2>4, <3>2 DEF StreamInv
      <4> QED BY <1>1, <2>1, <4>1
    <3> QED BY <3>1, <3>2
  <2>5. ASSUME stream'[i].type \in {"loadingFinished", "loadingFailed"}
        PROVE  /\ traffic'[id].phase = "over"
               /\ \A j \in EventsOf(id)' : j <= i
    <3>1. \A j \in EventsOf(id)' : j \in Nat /\ j + 1 <= i + 1
      BY <1>3, <2>1, <2>5 DEF StreamInv
    <3>2. \A j \in EventsOf(id)' : j <= i
      BY <2>1, <3>1
    <3>3. traffic[id].phase = "over"
      BY <2>1, <2>5 DEF StreamInv
    <3> QED BY <1>1, <3>2, <3>3
  <2> QED BY <2>3, <2>4, <2>5
<1>7. ASSUME NEW id, Over(id) PROVE Over(id)' /\ id # e.id
  BY <1>1, <1>3, <1>4, <1>7 DEF Over
<1>8. ASSUME NEW id, id # e.id, Over(id)' PROVE Over(id)
  BY <1>1, <1>5, <1>8 DEF Over
<1>9. ASSUME e.id \in HttpIds, e.type = "requestWillBeSent", e.id \notin gaps,
             StartsOf(e.id)' = {}
      PROVE  e.hop = traffic[e.id].hop
  <2>1. \A j \in StartsOf(e.id) : ~(j > 1)
    BY <1>4, <1>9
  <2> QED BY <1>2, <1>4, <1>9, <2>1 DEF StreamInv
<1>10. ASSUME e.id \in HttpIds, e.type # "requestWillBeSent"
       PROVE  /\ StartsOf(e.id) = {}
              /\ e.hop = traffic[e.id].hop
              /\ traffic[e.id].phase # "idle"
  <2>1. /\ \A j \in StartsOf(e.id) : j < 1
        /\ e.hop = traffic[e.id].hop
        /\ traffic[e.id].phase \in {"responded", "over"}
    BY <1>2, <1>4, <1>10 DEF StreamInv
  <2>2. \A j \in StartsOf(e.id) : j \in Nat /\ j # 0
    BY <1>4
  <2> QED BY <2>1, <2>2
<1>11. ASSUME e.id \in HttpIds, e.type \in {"loadingFinished", "loadingFailed"} PROVE Over(e.id)'
  <2>1. traffic[e.id].phase = "over" /\ \A j \in EventsOf(e.id) : j <= 1
    BY <1>2, <1>4, <1>11 DEF StreamInv
  <2>2. \A id : id = e.id => EventsOf(id)' = {}
    BY <1>3, <2>1
  <2>3. \A id : id = e.id => Over(id)'
    BY <1>1, <2>1, <2>2 DEF Over
  <2> QED BY <2>3
<1> QED BY <1>2, <1>5, <1>6, <1>7, <1>8, <1>9, <1>10, <1>11

\* What handling an event leaves alone.
LEMMA WhileReading ==
  ASSUME StopInv, OnMsg
  PROVE  /\ main = "reading" /\ main' = main /\ cleanup = "idle" /\ cleanup' = cleanup
         /\ traffic' = traffic /\ gaps' = gaps
  BY DEF OnMsg, StopInv, processVars, browserVars

\* Handlers that write nothing and change at most the record of the event's request.
LEMMA OnceUpdated ==
  ASSUME TypeInv, StopInv, OnceInv, OnMsg, NEW e, e = Head(stream),
         file' = file, handled \subseteq handled', NEW rec,
         \/ httpRecords' = httpRecords
         \/ /\ httpRecords' = [httpRecords EXCEPT ![e.id] = rec] /\ rec # NoRecord
            /\ e.id \in HttpIds /\ RecordInv(e.id, rec)'
            /\ e.id \notin gaps /\ StartsOf(e.id)' = {} => rec.hop = traffic[e.id].hop,
         httpRecords' = httpRecords /\ e.id \in HttpIds /\ e.id \notin Unwanted =>
           e.type # "requestWillBeSent",
         \A f \in fetches' : f.what = "body" => Over(f.id)'
  PROVE  OnceInv'
<1>1. /\ main = "reading" /\ main' = main /\ cleanup = "idle" /\ cleanup' = cleanup
      /\ traffic' = traffic /\ gaps' = gaps
  BY WhileReading
<1>2. /\ StreamInv'
      /\ \A id : Over(id) => Over(id)' /\ id # e.id
      /\ \A id : id # e.id => /\ (StartsOf(id)' = {} => StartsOf(id) = {})
                              /\ (Over(id)' => Over(id))
      /\ e.id \in HttpIds /\ e.type # "requestWillBeSent" =>
           StartsOf(e.id) = {} /\ traffic[e.id].phase # "idle"
  BY HeadOfStream DEF OnceInv
<1>3. \A id, hop : Written(id, hop)' = Written(id, hop)
  BY DEF Written, HttpLines
<1>4. WrittenOnce' /\ ResponseIsOwn'
  BY <1>1 DEF OnceInv, FileInv, WrittenOnce, ResponseIsOwn, Complete, HttpLines
<1>5. FileInv'
  BY <1>1, <1>2, <1>3, <1>4 DEF OnceInv, FileInv
<1>6. FetchInv'
  BY DEF FetchInv
<1>7. ASSUME NEW id \in HttpIds
      PROVE  \/ httpRecords'[id] = httpRecords[id]
             \/ id = e.id /\ httpRecords'[id] = rec /\ httpRecords' # httpRecords
  BY DEF TypeInv, RecordsTyped
<1>8. RecordsInv'
  <2> SUFFICES ASSUME NEW id \in HttpIds, httpRecords'[id] # NoRecord
               PROVE  RecordInv(id, httpRecords[id])'
    BY DEF RecordsInv
  <2>1. CASE httpRecords'[id] = httpRecords[id]
    BY <1>1, <1>3, <2>1 DEF OnceInv, RecordsInv, RecordInv
  <2>2. CASE id = e.id /\ httpRecords'[id] = rec /\ httpRecords' # httpRecords
    BY <1>1, <2>2 DEF RecordInv
  <2> QED BY <1>7, <2>1, <2>2
<1>9. LastHopInv'
  <2> SUFFICES ASSUME NEW id \in HttpIds \ gaps, StartsOf(id)' = {}
               PROVE  /\ httpRecords'[id] # NoRecord => httpRecords'[id].hop = traffic[id].hop
                      /\ id \notin Unwanted /\ traffic[id].phase # "idle" =>
                           Over(id)' \/ httpRecords'[id] # NoRecord
    BY <1>1 DEF LastHopInv
  <2>1. CASE httpRecords' # httpRecords /\ id = e.id
    BY <2>1 DEF TypeInv, RecordsTyped
  <2>2. CASE id # e.id
    <3>1. httpRecords'[id] = httpRecords[id] /\ StartsOf(id) = {} /\ (Over(id) => Over(id)')
      BY <1>2, <1>7, <2>2
    <3> QED BY <1>1, <3>1 DEF OnceInv, LastHopInv
  <2>3. CASE httpRecords' = httpRecords /\ id = e.id /\ id \notin Unwanted
    <3>1. StartsOf(id) = {} /\ (Over(id) => Over(id)')
      BY <1>2, <2>3
    <3> QED BY <1>1, <2>3, <3>1 DEF OnceInv, LastHopInv
  <2>4. CASE httpRecords' = httpRecords /\ id \in Unwanted
    BY <2>4 DEF OnceInv, RecordsInv, RecordInv
  <2> QED BY <2>1, <2>2, <2>3, <2>4
<1> QED BY <1>2, <1>5, <1>6, <1>8, <1>9 DEF OnceInv

\* A start that is wanted gets a record of its own, of a hop that is not written.
LEMMA OnceStart ==
  ASSUME TypeInv, StopInv, HopsInOrder, OnceInv, OnMsg, NEW e, e = Head(stream),
         RequestWillBeSent(e)
  PROVE  OnceInv'
<1>1. /\ e \in HttpEvents /\ e.id \in HttpIds /\ e.hop \in Hops /\ e.hop # 0
      /\ e.type = "requestWillBeSent" /\ file' = file /\ handled \subseteq handled'
  <2>1. e \in HttpEvents \cup SocketEvents /\ e.type = "requestWillBeSent"
    BY HeadOfStream DEF OnceInv, RequestWillBeSent
  <2>2. e \in [type : {"requestWillBeSent"}, id : HttpIds, hop : Hops]
    BY <2>1 DEF HttpEvents, SocketEvents
  <2> QED BY <2>1, <2>2 DEF RequestWillBeSent, Hops, HttpEvents
<1>2. /\ \A id : Over(id) => Over(id)'
      /\ (e.id \notin gaps /\ StartsOf(e.id)' = {} => e.hop = traffic[e.id].hop)
  BY <1>1, HeadOfStream DEF OnceInv
<1>3. \A f \in fetches' : f.what = "body" => Over(f.id)'
  <2>1. \A f \in fetches' : f.what = "body" => f \in fetches
    BY DEF RequestWillBeSent, Fetch
  <2> QED BY <1>2, <2>1 DEF OnceInv, FetchInv
<1>4. CASE e.id \in Unwanted
  <2>1. httpRecords' = httpRecords
    BY <1>4 DEF RequestWillBeSent
  <2> QED BY <1>1, <1>3, <1>4, <2>1, OnceUpdated
<1>5. CASE e.id \notin Unwanted
  <2>1. PICK rec : rec = HttpRecord(e.id, e.hop)
    OBVIOUS
  <2>2. /\ rec # NoRecord /\ rec.id = e.id /\ rec.hop = e.hop /\ rec.body = 0
        /\ rec.response = 0
    <3>1. rec \in HttpRecords
      BY <1>1, <2>1, RecordTypes DEF Hops
    <3> QED BY <2>1, <3>1, NoRecordIsNone DEF HttpRecord
  <2>3. /\ httpRecords' = [httpRecords EXCEPT ![e.id] = rec]
        /\ <<e.id, rec.hop>> \in handled'
    BY <1>5, <2>1, <2>2 DEF RequestWillBeSent
  <2>4. ~Written(e.id, e.hop)
    <3>1. 1 \in Starts /\ stream[1] = e
      BY <1>1, Advancing DEF Starts, OnMsg, TypeInv
    <3>2. <<e.id, e.hop>> \notin handled
      <4>1. ~(e.hop < e.hop)
        BY <1>1, RecorderConstants DEF Hops
      <4> QED BY <3>1, <4>1 DEF HopsInOrder
    <3> QED BY <1>1, <3>2 DEF OnceInv, FileInv
  <2>5. RecordInv(e.id, rec)'
    <3>1. ~Written(e.id, rec.hop)'
      BY <1>1, <2>2, <2>4 DEF Written, HttpLines
    <3> QED BY <1>5, <2>2, <2>3, <3>1 DEF RecordInv
  <2>6. httpRecords' # httpRecords
    <3>1. httpRecords'[e.id] = rec
      BY <1>1, <2>3 DEF TypeInv, RecordsTyped
    <3>2. ASSUME httpRecords[e.id] = rec PROVE FALSE
      <4>1. <<e.id, e.hop>> \in handled
        BY <1>1, <2>2, <3>2 DEF OnceInv, RecordsInv, RecordInv
      <4>2. 1 \in Starts /\ stream[1] = e
        BY <1>1, Advancing DEF Starts, OnMsg, TypeInv
      <4>3. ~(e.hop < e.hop)
        BY <1>1, RecorderConstants DEF Hops
      <4> QED BY <4>1, <4>2, <4>3 DEF HopsInOrder
    <3> QED BY <3>1, <3>2
  <2> QED BY <1>1, <1>2, <1>3, <2>2, <2>3, <2>5, <2>6, OnceUpdated
<1> QED BY <1>4, <1>5

\* The record that an event finds, or enters, is not written; if no event is missing it
\* is the one of the event's hop.
LEMMA CurrentIsOpen ==
  ASSUME TypeInv, StopInv, OnceInv, OnMsg, NEW e, e = Head(stream), e.id \in HttpIds,
         e.type # "requestWillBeSent", NEW rec, rec = Current(e.id)
  PROVE  /\ rec \in HttpRecords /\ rec.id = e.id /\ rec.body = 0
         /\ rec.hop # 0 => <<e.id, rec.hop>> \in handled
         /\ ~Written(e.id, rec.hop)
         /\ e.id \notin gaps => rec.response \in {0, rec.hop}
         /\ e.id \notin gaps /\ e.id \notin Unwanted =>
              httpRecords[e.id] # NoRecord /\ rec.hop = e.hop
<1>1. /\ main = "reading" /\ cleanup = "idle"
      /\ \A id : Over(id) => id # e.id
      /\ StartsOf(e.id) = {} /\ e.hop = traffic[e.id].hop /\ traffic[e.id].phase # "idle"
  BY WhileReading, HeadOfStream DEF OnceInv
<1>2. rec \in HttpRecords
  BY RecordTypes, RecorderConstants
<1>3. CASE httpRecords[e.id] # NoRecord
  <2>1. rec = httpRecords[e.id] /\ RecordInv(e.id, rec)
    BY <1>3 DEF Current, OnceInv, RecordsInv
  <2> QED BY <1>1, <1>2, <1>3, <2>1 DEF RecordInv, OnceInv, LastHopInv
<1>4. CASE httpRecords[e.id] = NoRecord
  <2>1. rec.id = e.id /\ rec.hop = 0 /\ rec.body = 0 /\ rec.response = 0
    BY <1>4 DEF Current, HttpRecord
  <2>2. ~Written(e.id, 0)
    BY <1>1 DEF OnceInv, FileInv
  <2>3. e.id \in gaps \/ e.id \in Unwanted
    BY <1>1, <1>4 DEF OnceInv, LastHopInv
  <2> QED BY <1>2, <2>1, <2>2, <2>3
<1> QED BY <1>3, <1>4

\* A response goes into the record of its hop.
LEMMA OnceResponse ==
  ASSUME TypeInv, StopInv, OnceInv, OnMsg, NEW e, e = Head(stream), ResponseReceived(e)
  PROVE  OnceInv'
<1>1. /\ e.type = "responseReceived" /\ e \in HttpEvents \cup SocketEvents
      /\ file' = file /\ handled' = handled /\ fetches' = fetches
  BY HeadOfStream DEF OnceInv, ResponseReceived
<1>2. e.id \in HttpIds /\ e.hop \in 0 .. MaxHops
  BY <1>1 DEF HttpEvents, SocketEvents
<1>3. \A f \in fetches' : f.what = "body" => Over(f.id)'
  BY <1>1, HeadOfStream DEF OnceInv, FetchInv
<1>4. CASE e.id \in Unwanted
  <2>1. httpRecords' = httpRecords
    BY <1>4 DEF ResponseReceived
  <2> QED BY <1>1, <1>3, <1>4, <2>1, OnceUpdated
<1>5. CASE e.id \notin Unwanted
  <2>1. PICK old : old = Current(e.id)
    OBVIOUS
  <2>2. PICK rec : rec = [old EXCEPT !.response = e.hop]
    OBVIOUS
  <2>3. /\ old \in HttpRecords /\ old.id = e.id /\ old.body = 0
        /\ old.hop # 0 => <<e.id, old.hop>> \in handled
        /\ ~Written(e.id, old.hop)
        /\ e.id \notin gaps => old.hop = e.hop
    BY <1>1, <1>2, <1>5, <2>1, CurrentIsOpen
  <2>4. /\ rec \in HttpRecords /\ rec.id = e.id /\ rec.body = 0 /\ rec.hop = old.hop
        /\ rec.response = e.hop
    BY <1>2, <2>2, <2>3 DEF HttpRecords
  <2>5. httpRecords' = [httpRecords EXCEPT ![e.id] = rec] /\ rec # NoRecord
    BY <1>5, <2>1, <2>2, <2>4, NoRecordIsNone DEF ResponseReceived
  <2>6. RecordInv(e.id, rec)'
    <3>1. ~Written(e.id, rec.hop)'
      BY <1>1, <2>3, <2>4 DEF Written, HttpLines
    <3>2. gaps' = gaps
      BY WhileReading
    <3> QED BY <1>1, <1>5, <2>3, <2>4, <3>1, <3>2 DEF RecordInv
  <2>7. e.id \notin gaps => rec.hop = traffic[e.id].hop
    BY <1>1, <1>2, <2>3, <2>4, HeadOfStream DEF OnceInv
  <2> QED BY <1>1, <1>2, <1>3, <2>5, <2>6, <2>7, OnceUpdated
<1> QED BY <1>4, <1>5

\* The end of a request: its body is asked for.
LEMMA OnceFinished ==
  ASSUME TypeInv, StopInv, OnceInv, OnMsg, NEW e, e = Head(stream), LoadingFinished(e)
  PROVE  OnceInv'
<1>1. /\ e.type = "loadingFinished" /\ e \in HttpEvents \cup SocketEvents
      /\ file' = file /\ handled' = handled /\ httpRecords' = httpRecords
  BY HeadOfStream DEF OnceInv, LoadingFinished
<1>2. e.id \in HttpIds
  BY <1>1 DEF HttpEvents, SocketEvents
<1>3. Over(e.id)' /\ \A id : Over(id) => Over(id)'
  BY <1>1, <1>2, HeadOfStream DEF OnceInv
<1>4. \A f \in fetches' : f \in fetches \/ f.id = e.id
  BY DEF LoadingFinished, Fetch
<1>5. \A f \in fetches' : f.what = "body" => Over(f.id)'
  BY <1>3, <1>4 DEF OnceInv, FetchInv
<1> QED BY <1>1, <1>5, OnceUpdated

\* A request that is over has its record written and deleted.
LEMMA OnceEmitted ==
  ASSUME TypeInv, OnceInv, StreamInv', NEW q \in HttpIds, NEW rec \in HttpRecords, rec.id = q,
         EmitHttpAndDelete(q, rec), OfOneHop(rec) \/ q \in gaps, ~Written(q, rec.hop),
         rec.hop # 0 => <<q, rec.hop>> \in handled,
         Over(q)', \A id : Over(id) => Over(id)',
         \A id : id # q /\ StartsOf(id)' = {} => StartsOf(id) = {},
         fetches' \subseteq fetches, UNCHANGED <<main, cleanup, handled, traffic, gaps>>
  PROVE  OnceInv'
<1>1. /\ rec \in FileLines /\ rec.kind = "http" /\ file \in Seq(FileLines)
      /\ Write(rec) /\ httpRecords' = [httpRecords EXCEPT ![q] = NoRecord]
      /\ WrittenOnce /\ ResponseIsOwn
  BY DEF FileLines, HttpRecords, TypeInv, RecordsTyped, EmitHttpAndDelete, OnceInv, FileInv
<1>2. /\ WrittenOnce' /\ ResponseIsOwn'
      /\ \A id, hop : Written(id, hop)' => Written(id, hop) \/ (id = q /\ hop = rec.hop)
  BY <1>1, LineAdded
<1>3. /\ httpRecords'[q] = NoRecord
      /\ \A id \in HttpIds : id # q => httpRecords'[id] = httpRecords[id]
  BY <1>1 DEF TypeInv, RecordsTyped
<1>4. FetchInv'
  BY DEF OnceInv, FetchInv
<1>5. RecordsInv'
  <2> SUFFICES ASSUME NEW id \in HttpIds, id # q, httpRecords[id] # NoRecord
               PROVE  RecordInv(id, httpRecords[id])'
    BY <1>3 DEF RecordsInv
  <2> QED BY <1>2, <1>3 DEF OnceInv, RecordsInv, RecordInv
<1>6. LastHopInv'
  <2> SUFFICES ASSUME main # "exited", NEW id \in HttpIds \ gaps, StartsOf(id)' = {}, id # q
               PROVE  /\ httpRecords[id] # NoRecord => httpRecords[id].hop = traffic[id].hop
                      /\ cleanup = "idle" /\ id \notin Unwanted /\ traffic[id].phase # "idle" =>
                           Over(id)' \/ httpRecords[id] # NoRecord
    BY <1>3 DEF LastHopInv
  <2> QED BY DEF OnceInv, LastHopInv
<1>7. FileInv'
  BY <1>2 DEF OnceInv, FileInv
<1> QED BY <1>4, <1>5, <1>6, <1>7 DEF OnceInv

LEMMA OnceFailed ==
  ASSUME TypeInv, StopInv, OnceInv, OnMsg, NEW e, e = Head(stream), LoadingFailed(e)
  PROVE  OnceInv'
<1>1. /\ e.type = "loadingFailed" /\ e \in HttpEvents \cup SocketEvents
      /\ StreamInv' /\ fetches' = fetches /\ handled' = handled
      /\ \A id : Over(id) => Over(id)'
      /\ \A id : id # e.id /\ StartsOf(id)' = {} => StartsOf(id) = {}
  BY HeadOfStream DEF OnceInv, LoadingFailed
<1>2. e.id \in HttpIds
  BY <1>1 DEF HttpEvents, SocketEvents
<1>3. Over(e.id)'
  BY <1>1, <1>2, HeadOfStream DEF OnceInv
<1>4. PICK old : old = Current(e.id)
  OBVIOUS
<1>5. /\ old \in HttpRecords /\ old.id = e.id /\ old.body = 0
      /\ old.hop # 0 => <<e.id, old.hop>> \in handled
      /\ ~Written(e.id, old.hop)
      /\ e.id \notin gaps => old.response \in {0, old.hop}
  BY <1>1, <1>2, <1>4, CurrentIsOpen
<1>6. PICK rec : rec = [old EXCEPT !.end = "failed"]
  OBVIOUS
<1>7. /\ rec \in HttpRecords /\ rec.id = e.id /\ rec.hop = old.hop
      /\ OfOneHop(rec) \/ e.id \in gaps
  BY <1>5, <1>6 DEF HttpRecords, OfOneHop
<1>8. EmitHttpAndDelete(e.id, rec)
  BY <1>4, <1>6 DEF LoadingFailed
<1>9. UNCHANGED <<main, cleanup, traffic, gaps>>
  BY WhileReading
<1> QED BY <1>1, <1>2, <1>3, <1>5, <1>7, <1>8, <1>9, OnceEmitted

\* The lines of websockets are no records.
LEMMA SocketLines ==
  ASSUME NEW e \in HttpEvents \cup SocketEvents,
         WebSocketCreated(e) \/ WebSocketFrame(e) \/ WebSocketClosed(e)
  PROVE  /\ e.id \in SocketIds /\ e.id \notin HttpIds
         /\ file' = file \/ \E line \in FileLines : Write(line) /\ line.kind # "http"
<1>1. e.id \in SocketIds /\ e.id \notin HttpIds
  BY RecorderConstants DEF HttpEvents, SocketEvents, WebSocketCreated, WebSocketFrame,
                           WebSocketClosed
<1>2. /\ Url(e.id) \in {"known", "null"}
      /\ \A kind \in {"ws_created", "ws_frame", "ws_closed"}, url \in {"known", "null"} :
           /\ SocketLine(kind, e.id, url) \in FileLines
           /\ SocketLine(kind, e.id, url).kind # "http"
  BY <1>1 DEF Url, SocketLine, Lines, FileLines
<1> QED BY <1>1, <1>2 DEF WebSocketCreated, WebSocketFrame, WebSocketClosed

\* The events of websockets touch no request.
LEMMA OnceSocket ==
  ASSUME TypeInv, StopInv, OnceInv, OnMsg, NEW e, e = Head(stream),
         WebSocketCreated(e) \/ WebSocketFrame(e) \/ WebSocketClosed(e)
  PROVE  OnceInv'
<1>1. /\ e \in HttpEvents \cup SocketEvents /\ StreamInv'
      /\ UNCHANGED <<httpRecords, fetches, handled>>
      /\ \A id : Over(id) => Over(id)'
      /\ \A id : id # e.id /\ StartsOf(id)' = {} => StartsOf(id) = {}
  BY HeadOfStream DEF OnceInv, WebSocketCreated, WebSocketFrame, WebSocketClosed
<1>2. /\ e.id \in SocketIds /\ e.id \notin HttpIds
      /\ file' = file \/ \E line \in FileLines : Write(line) /\ line.kind # "http"
  BY <1>1, SocketLines
<1>3. UNCHANGED <<main, cleanup, traffic, gaps>>
  BY WhileReading
<1>4. WrittenOnce' /\ ResponseIsOwn' /\ \A id, hop : Written(id, hop)' => Written(id, hop)
  <2>1. CASE file' = file
    BY <1>3, <2>1 DEF OnceInv, FileInv, WrittenOnce, ResponseIsOwn, Complete,
       Written, HttpLines
  <2>2. CASE \E line \in FileLines : Write(line) /\ line.kind # "http"
    BY <1>3, <2>2, LineAdded DEF OnceInv, FileInv, TypeInv, RecordsTyped
  <2> QED BY <1>2, <2>1, <2>2
<1>5. FetchInv'
  BY <1>1 DEF OnceInv, FetchInv
<1>6. RecordsInv'
  BY <1>1, <1>3, <1>4 DEF OnceInv, RecordsInv, RecordInv
<1>7. LastHopInv'
  BY <1>1, <1>2, <1>3 DEF OnceInv, LastHopInv
<1>8. FileInv'
  BY <1>1, <1>3, <1>4 DEF OnceInv, FileInv
<1> QED BY <1>1, <1>5, <1>6, <1>7, <1>8 DEF OnceInv

LEMMA OnceOnMsg == TypeInv /\ StopInv /\ HopsInOrder /\ OnceInv /\ OnMsg => OnceInv'
<1> SUFFICES ASSUME TypeInv, StopInv, HopsInOrder, OnceInv, OnMsg PROVE OnceInv'
  OBVIOUS
<1>1. PICK e : e = Head(stream)
  OBVIOUS
<1>2. \/ RequestWillBeSent(e) \/ ResponseReceived(e) \/ LoadingFinished(e) \/ LoadingFailed(e)
      \/ WebSocketCreated(e) \/ WebSocketFrame(e) \/ WebSocketClosed(e)
  BY <1>1 DEF OnMsg
<1> QED BY <1>1, <1>2, OnceStart, OnceResponse, OnceFinished, OnceFailed, OnceSocket

-----------------------------------------------------------------------------
(* Late answers.                                                           *)

\* Post data change nothing that matters here; a body goes to the record of its hop.
LEMMA OnceAnswer ==
  ASSUME TypeInv, StopInv, OnceInv, NEW f \in fetches, PostDataArrives(f) \/ BodyArrives(f)
  PROVE  OnceInv'
<1>1. /\ UNCHANGED <<main, cleanup, handled, traffic, gaps, stream>> /\ main # "exited"
      /\ fetches' \subseteq fetches /\ f.id \in HttpIds /\ traffic[f.id].hop \in 0 .. MaxHops
  BY DEF PostDataArrives, BodyArrives, processVars, browserVars, TypeInv, RecordsTyped, Ids
<1>2. \A id : /\ EventsOf(id)' = EventsOf(id) /\ StartsOf(id)' = StartsOf(id)
              /\ Over(id)' = Over(id)
  BY <1>1 DEF EventsOf, StartsOf, Over
<1>3. StreamInv'
  BY <1>1, <1>2 DEF OnceInv, StreamInv
<1>4. ASSUME file' = file,
             \A id \in HttpIds : \/ httpRecords'[id] = httpRecords[id]
                                 \/ /\ httpRecords[id] # NoRecord /\ httpRecords'[id] # NoRecord
                                    /\ httpRecords'[id].id = httpRecords[id].id
                                    /\ httpRecords'[id].hop = httpRecords[id].hop
                                    /\ httpRecords'[id].body = httpRecords[id].body
                                    /\ httpRecords'[id].response = httpRecords[id].response
      PROVE  OnceInv'
  <2>1. \A id, hop : Written(id, hop)' = Written(id, hop)
    BY <1>4 DEF Written, HttpLines
  <2>2. WrittenOnce' /\ ResponseIsOwn'
    BY <1>1, <1>4 DEF OnceInv, FileInv, WrittenOnce, ResponseIsOwn, Complete, HttpLines
  <2>3. FetchInv'
    BY <1>1, <1>2 DEF OnceInv, FetchInv
  <2>4. RecordsInv'
    BY <1>1, <1>4, <2>1 DEF OnceInv, RecordsInv, RecordInv
  <2>5. LastHopInv'
    BY <1>1, <1>2, <1>4 DEF OnceInv, LastHopInv
  <2>6. FileInv'
    BY <1>1, <1>2, <2>1, <2>2 DEF OnceInv, FileInv
  <2> QED BY <1>3, <2>3, <2>4, <2>5, <2>6 DEF OnceInv
<1>5. CASE PostDataArrives(f)
  <2>1. PICK hop \in RequestPostData(f) :
          httpRecords' = IF httpRecords[f.id] = NoRecord \/ hop = 0 THEN httpRecords
                         ELSE [httpRecords EXCEPT ![f.id].post = hop]
    BY <1>5 DEF PostDataArrives
  <2>2. file' = file
    BY <1>5 DEF PostDataArrives
  <2>3. CASE httpRecords' = httpRecords
    BY <1>4, <2>2, <2>3
  <2>4. CASE httpRecords[f.id] # NoRecord /\ hop # 0
    <3>1. PICK rec : rec = [httpRecords[f.id] EXCEPT !.post = hop]
      OBVIOUS
    <3>2. httpRecords[f.id] \in HttpRecords /\ hop \in 0 .. MaxHops
      BY <1>1, <2>4, RecorderConstants DEF TypeInv, RecordsTyped, RequestPostData
    <3>3. /\ rec \in HttpRecords
          /\ rec.id = httpRecords[f.id].id /\ rec.hop = httpRecords[f.id].hop
          /\ rec.body = httpRecords[f.id].body /\ rec.response = httpRecords[f.id].response
      BY <3>1, <3>2 DEF HttpRecords
    <3>4. httpRecords' = [httpRecords EXCEPT ![f.id] = rec]
      BY <2>1, <2>4, <3>1
    <3>5. \A id \in HttpIds : IF id = f.id THEN httpRecords'[id] = rec /\ rec # NoRecord
                              ELSE httpRecords'[id] = httpRecords[id]
      BY <1>1, <3>3, <3>4, NoRecordIsNone DEF TypeInv, RecordsTyped
    <3> QED BY <1>4, <2>2, <2>4, <3>3, <3>5
  <2> QED BY <2>1, <2>3, <2>4
<1>6. CASE BodyArrives(f)
  <2>1. CASE httpRecords[f.id] = NoRecord
    BY <1>4, <1>6, <2>1 DEF BodyArrives
  <2>2. CASE httpRecords[f.id] # NoRecord
    <3>1. PICK hop \in ResponseBody(f) :
            EmitHttpAndDelete(f.id, [httpRecords[f.id] EXCEPT !.body = hop, !.end = "finished"])
      BY <1>6, <2>2 DEF BodyArrives
    <3>2. PICK rec : rec = [httpRecords[f.id] EXCEPT !.body = hop, !.end = "finished"]
      OBVIOUS
    <3>3. /\ httpRecords[f.id] \in HttpRecords /\ RecordInv(f.id, httpRecords[f.id])
          /\ hop \in 0 .. MaxHops /\ hop \in {0, traffic[f.id].hop}
      BY <1>1, <2>2, <3>1, RecorderConstants
         DEF TypeInv, RecordsTyped, ResponseBody, OnceInv, RecordsInv
    <3>4. /\ rec \in HttpRecords /\ rec.id = f.id /\ rec.hop = httpRecords[f.id].hop
          /\ rec.response = httpRecords[f.id].response /\ rec.body = hop
      BY <3>2, <3>3 DEF HttpRecords, RecordInv
    <3>5. Over(f.id)
      BY <1>6 DEF BodyArrives, OnceInv, FetchInv
    <3>6. f.id \notin gaps => rec.hop = traffic[f.id].hop
      <4>1. StartsOf(f.id) = {}
        BY <3>5 DEF Over, StartsOf
      <4> QED BY <1>1, <2>2, <3>4, <4>1 DEF OnceInv, LastHopInv
    <3>7. OfOneHop(rec) \/ f.id \in gaps
      BY <3>3, <3>4, <3>6 DEF OfOneHop, RecordInv
    <3>8. EmitHttpAndDelete(f.id, rec)
      BY <3>1, <3>2
    <3>9. Over(f.id)'
      BY <1>2, <3>5
    <3>10. ~Written(f.id, rec.hop) /\ (rec.hop # 0 => <<f.id, rec.hop>> \in handled)
      BY <3>3, <3>4 DEF RecordInv
    <3> QED BY <1>1, <1>2, <1>3, <3>4, <3>7, <3>8, <3>9, <3>10, OnceEmitted
  <2> QED BY <2>1, <2>2
<1> QED BY <1>5, <1>6

-----------------------------------------------------------------------------
(* The traffic of the tab.                                                 *)

\* What happens to a request that is not over: a start before its response, or an event
\* of the hop it has reached.
LEMMA OnceHappens ==
  ASSUME TypeInv, OnceInv, NEW type, NEW id \in Ids, NEW phase, NEW hop,
         Happens(type, id, phase, hop), traffic[id].phase # "over",
         id \in HttpIds =>
           /\ type = "requestWillBeSent" => traffic[id].phase \in {"idle", "loading"}
           /\ type # "requestWillBeSent" =>
                /\ traffic[id].phase # "idle" /\ hop = traffic[id].hop
                /\ phase \in {"responded", "over"}
           /\ type \in {"loadingFinished", "loadingFailed"} => phase = "over"
  PROVE  OnceInv'
<1> DEFINE n == Len(stream) + 1
<1>1. /\ UNCHANGED <<main, cleanup, httpRecords, fetches, file, handled>>
      /\ traffic'[id].phase = phase /\ traffic'[id].hop = hop
      /\ \A q \in Ids : q # id => traffic'[q] = traffic[q]
      /\ HttpIds \subseteq Ids
  BY DEF Happens, processVars, recordVars, TypeInv, Ids
<1>2. PICK new : new = Event(type, id, hop)
  OBVIOUS
<1>3. new.type = type /\ new.id = id /\ new.hop = hop
  BY <1>2 DEF Event
<1>4. \/ stream' = Append(stream, new) /\ gaps' = gaps
      \/ stream' = stream /\ gaps' = gaps \cup {id}
  BY <1>2 DEF Happens
<1>5. n \in Nat \ {0} /\ DOMAIN stream = 1 .. n - 1
  BY LenProperties DEF TypeInv
\* The events of the request after the step, and those of the others.
<1>6. /\ \/ /\ gaps' = gaps /\ EventsOf(id)' = EventsOf(id) \cup {n} /\ stream'[n] = new
            /\ StartsOf(id)' = IF type = "requestWillBeSent" THEN StartsOf(id) \cup {n}
                               ELSE StartsOf(id)
         \/ /\ gaps' = gaps \cup {id}
            /\ EventsOf(id)' = EventsOf(id) /\ StartsOf(id)' = StartsOf(id)
      /\ \A q : q # id => EventsOf(q)' = EventsOf(q) /\ StartsOf(q)' = StartsOf(q)
      /\ \A q : EventsOf(q) \subseteq 1 .. n - 1 /\ StartsOf(q) \subseteq EventsOf(q)
      /\ \A i \in 1 .. n - 1 : stream'[i] = stream[i]
  <2>1. CASE stream' = Append(stream, new) /\ gaps' = gaps
    <3>1. /\ DOMAIN stream' = 1 .. n /\ stream'[n] = new
          /\ \A i \in 1 .. n - 1 : stream'[i] = stream[i]
      BY <1>5, <2>1, AppendProperties DEF TypeInv
    <3>2. \A i \in 1 .. n : i = n \/ i \in 1 .. n - 1
      BY <1>5
    <3> HIDE DEF n
    <3>3. EventsOf(id)' = EventsOf(id) \cup {n}
      BY <1>3, <1>5, <3>1, <3>2 DEF EventsOf
    <3>4. StartsOf(id)' = IF type = "requestWillBeSent" THEN StartsOf(id) \cup {n}
                          ELSE StartsOf(id)
      <4>1. \A i \in EventsOf(id) : stream'[i] = stream[i]
        BY <1>5, <3>1 DEF EventsOf
      <4> QED BY <1>3, <3>1, <3>3, <4>1 DEF StartsOf
    <3>5. \A q : q # id => EventsOf(q)' = EventsOf(q) /\ StartsOf(q)' = StartsOf(q)
      BY <1>3, <1>5, <3>1, <3>2 DEF EventsOf, StartsOf
    <3> QED BY <1>5, <2>1, <3>1, <3>3, <3>4, <3>5 DEF EventsOf, StartsOf
  <2>2. CASE stream' = stream /\ gaps' = gaps \cup {id}
    BY <1>5, <2>2 DEF EventsOf, StartsOf
  <2> QED BY <1>4, <2>1, <2>2
<1> HIDE DEF n
<1>7. \A q : Over(q) => q # id
  BY DEF Over
<1>8. \A q \in Ids : q # id => Over(q)' = Over(q)
  BY <1>1, <1>6 DEF Over
<1>9. \A q \in HttpIds : Over(q) => Over(q)'
  BY <1>1, <1>7, <1>8
<1>10. \A q, h : Written(q, h)' = Written(q, h)
  BY <1>1 DEF Written, HttpLines
<1>11. WrittenOnce' /\ ResponseIsOwn'
  BY <1>1, <1>6 DEF OnceInv, FileInv, WrittenOnce, ResponseIsOwn, Complete, HttpLines
<1>12. FetchInv'
  BY <1>1, <1>9 DEF OnceInv, FetchInv, TypeInv, RecordsTyped
<1>13. RecordsInv'
  BY <1>1, <1>6, <1>10 DEF OnceInv, RecordsInv, RecordInv
<1>14. FileInv'
  <2>1. \A q : Written(q, 0) => q \in HttpIds
    <3> SUFFICES ASSUME NEW i \in HttpLines PROVE file[i].id \in HttpIds
      BY DEF Written
    <3>1. file[i] \in FileLines /\ file[i].kind = "http"
      BY DEF HttpLines, TypeInv, RecordsTyped
    <3> QED BY <3>1 DEF FileLines, HttpRecords, Lines
  <2> QED BY <1>1, <1>9, <1>10, <1>11, <2>1 DEF OnceInv, FileInv
<1>15. LastHopInv'
  <2> SUFFICES ASSUME main # "exited", NEW q \in HttpIds, q \notin gaps', StartsOf(q)' = {}
               PROVE  /\ httpRecords[q] # NoRecord => httpRecords[q].hop = traffic'[q].hop
                      /\ cleanup = "idle" /\ q \notin Unwanted /\ traffic'[q].phase # "idle" =>
                           Over(q)' \/ httpRecords[q] # NoRecord
    BY <1>1 DEF LastHopInv
  <2>1. StartsOf(q) = {} /\ q \notin gaps
    BY <1>6
  <2>2. CASE q # id
    BY <1>1, <1>8, <2>1, <2>2 DEF OnceInv, LastHopInv
  <2>3. CASE q = id
    <3>1. type # "requestWillBeSent"
      BY <1>6, <2>3
    <3>2. hop = traffic[id].hop /\ traffic[id].phase # "idle" /\ ~Over(id)
      BY <1>7, <2>3, <3>1
    <3> QED BY <1>1, <2>1, <2>3, <3>2 DEF OnceInv, LastHopInv
  <2> QED BY <2>2, <2>3
<1>16. StreamInv'
  <2> SUFFICES ASSUME NEW q \in HttpIds, NEW i \in EventsOf(q)'
               PROVE  /\ i \notin StartsOf(q)' =>
                           /\ stream'[i].hop = traffic'[q].hop
                           /\ traffic'[q].phase \in {"responded", "over"}
                           /\ \A j \in StartsOf(q)' : j < i
                      /\ i \in StartsOf(q)' /\ q \notin gaps' =>
                           \/ stream'[i].hop = traffic'[q].hop
                           \/ \E j \in StartsOf(q)' : j > i
                      /\ stream'[i].type \in {"loadingFinished", "loadingFailed"} =>
                           /\ traffic'[q].phase = "over"
                           /\ \A j \in EventsOf(q)' : j <= i
    BY DEF StreamInv
  <2>1. CASE q # id
    <3>1. /\ i \in EventsOf(q) /\ EventsOf(q)' = EventsOf(q) /\ StartsOf(q)' = StartsOf(q)
          /\ stream'[i] = stream[i] /\ traffic'[q] = traffic[q]
          /\ q \notin gaps' => q \notin gaps
      BY <1>1, <1>6, <2>1
    <3> QED BY <3>1 DEF OnceInv, StreamInv
  <2>2. CASE q = id /\ i \in EventsOf(id)
    <3>1. /\ stream'[i] = stream[i] /\ i \in Nat /\ i < n
          /\ stream[i].type \notin {"loadingFinished", "loadingFailed"}
      BY <1>5, <1>6, <2>2 DEF OnceInv, StreamInv
    <3>2. CASE i \notin StartsOf(id)
      <4>1. /\ stream[i].hop = traffic[id].hop
            /\ traffic[id].phase \in {"responded", "over"}
            /\ \A j \in StartsOf(id) : j < i
        BY <2>2, <3>2 DEF OnceInv, StreamInv
      <4>2. type # "requestWillBeSent"
        BY <2>2, <4>1
      <4>3. StartsOf(id)' = StartsOf(id)
        BY <1>6, <4>2
      <4> QED BY <1>1, <2>2, <3>1, <3>2, <4>1, <4>2, <4>3
    <3>3. CASE i \in StartsOf(id)
      <4>1. i \in StartsOf(id)' /\ StartsOf(id) \subseteq StartsOf(id)'
        BY <1>6, <3>3
      <4>2. CASE id \in gaps'
        BY <2>2, <3>1, <4>1, <4>2
      <4>3. CASE id \notin gaps' /\ type = "requestWillBeSent"
        <5>1. n \in StartsOf(id)' /\ n > i
          BY <1>5, <1>6, <3>1, <4>3
        <5> QED BY <2>2, <3>1, <4>1, <5>1
      <4>4. CASE id \notin gaps' /\ type # "requestWillBeSent"
        <5>1. id \notin gaps
          BY <1>6, <4>4
        <5>2. stream[i].hop = traffic[id].hop \/ \E j \in StartsOf(id) : j > i
          BY <2>2, <3>3, <5>1 DEF OnceInv, StreamInv
        <5>3. hop = traffic[id].hop
          BY <2>2, <4>4
        <5> QED BY <1>1, <2>2, <3>1, <4>1, <5>2, <5>3
      <4> QED BY <4>2, <4>3, <4>4
    <3> QED BY <3>2, <3>3
  <2>3. CASE q = id /\ i \notin EventsOf(id)
    <3>1. /\ i = n /\ stream'[i] = new /\ EventsOf(id)' = EventsOf(id) \cup {n}
          /\ StartsOf(id)' = IF type = "requestWillBeSent" THEN StartsOf(id) \cup {n}
                             ELSE StartsOf(id)
      BY <1>6, <2>3
    <3>2. \A j \in EventsOf(id) : j \in Nat /\ j < n
      BY <1>5, <1>6
    <3>3. \A j \in EventsOf(id)' : j <= i
      BY <1>5, <3>1, <3>2
    <3>4. type # "requestWillBeSent" => \A j \in StartsOf(id)' : j < i
      BY <1>6, <3>1, <3>2
    <3>5. i \in StartsOf(id)' <=> type = "requestWillBeSent"
      BY <1>6, <2>3, <3>1
    <3> QED BY <1>1, <1>3, <2>3, <3>1, <3>3, <3>4, <3>5
  <2> QED BY <2>1, <2>2, <2>3
<1> QED BY <1>12, <1>13, <1>14, <1>15, <1>16 DEF OnceInv

LEMMA OnceTraffic ==
  ASSUME TypeInv, OnceInv,
         \/ \E id \in HttpIds : Request(id) \/ Response(id) \/ Finish(id) \/ Fail(id)
         \/ \E id \in SocketIds : Connect(id) \/ Frame(id) \/ Close(id)
  PROVE  OnceInv'
<1>1. ASSUME NEW id \in HttpIds, Request(id) PROVE OnceInv'
  <2>1. PICK hop : hop = traffic[id].hop + 1
    OBVIOUS
  <2>2. /\ Happens("requestWillBeSent", id, "loading", hop) /\ id \in Ids
        /\ traffic[id].phase \in {"idle", "loading"}
    BY <1>1, <2>1 DEF Request, Ids
  <2> QED BY <2>2, OnceHappens
<1>2. ASSUME NEW id \in HttpIds, Response(id) \/ Finish(id) \/ Fail(id) PROVE OnceInv'
  <2>1. PICK hop : hop = traffic[id].hop
    OBVIOUS
  <2>2. id \in Ids /\ traffic[id].phase \in {"loading", "responded"}
    BY <1>2 DEF Response, Finish, Fail, Ids
  <2>3. \/ Happens("responseReceived", id, "responded", hop)
        \/ Happens("loadingFinished", id, "over", hop)
        \/ Happens("loadingFailed", id, "over", hop)
    BY <1>2, <2>1 DEF Response, Finish, Fail
  <2> QED BY <2>1, <2>2, <2>3, OnceHappens
<1>3. ASSUME NEW id \in SocketIds, Connect(id) \/ Frame(id) \/ Close(id) PROVE OnceInv'
  <2>1. id \in Ids /\ id \notin HttpIds /\ traffic[id].phase # "over"
    BY <1>3, RecorderConstants DEF Connect, Frame, Close, Ids
  <2>2. \/ Happens("webSocketCreated", id, "loading", 0)
        \/ Happens("webSocketFrame", id, "loading", 0)
        \/ Happens("webSocketClosed", id, "over", 0)
    BY <1>3 DEF Connect, Frame, Close
  <2> QED BY <2>1, <2>2, OnceHappens
<1> QED BY <1>1, <1>2, <1>3

-----------------------------------------------------------------------------
(* Post data, which go to whichever record is there.                       *)

\* Post data are of a hop the browser has reached; a record that has them is of a hop,
\* unless an event of its request is missing.
PostReached(rec) ==
  /\ rec.post <= traffic[rec.id].hop
  /\ rec.id \notin gaps /\ rec.post # 0 => rec.hop # 0

\* A record of the map, which post data may find, is of a hop.
PostInv ==
  /\ \A i \in HttpLines : PostReached(file[i])
  /\ \A id \in HttpIds : httpRecords[id] # NoRecord =>
       /\ PostReached(httpRecords[id])
       /\ id \notin gaps => httpRecords[id].hop # 0

\* Browsers only go on, and gaps stay; it remains to look at new lines and records.
LEMMA PostKept ==
  ASSUME TypeInv, TypeInv', PostInv,
         gaps \subseteq gaps', \A id \in HttpIds : traffic[id].hop <= traffic'[id].hop,
         \A i \in HttpLines' : \/ i \in HttpLines /\ file'[i] = file[i]
                               \/ file'[i] \in HttpRecords /\ PostReached(file'[i]),
         \A id \in HttpIds : \/ httpRecords'[id] = httpRecords[id]
                             \/ httpRecords'[id] = NoRecord
                             \/ /\ PostReached(httpRecords'[id])
                                /\ id \notin gaps => httpRecords'[id].hop # 0
  PROVE  PostInv'
<1>1. ASSUME NEW rec \in HttpRecords, PostReached(rec) PROVE PostReached(rec)'
  <2>1. rec.id \in HttpIds /\ rec.post \in Nat
    BY RecorderConstants DEF HttpRecords
  <2>2. /\ traffic[rec.id].hop \in Nat /\ traffic'[rec.id].hop \in Nat
        /\ traffic[rec.id].hop <= traffic'[rec.id].hop
    BY <2>1, RecorderConstants DEF TypeInv, Ids
  <2> QED BY <1>1, <2>1, <2>2 DEF PostReached
<1>2. ASSUME NEW i \in HttpLines' PROVE PostReached(file[i])'
  <2>1. file'[i] \in HttpRecords
    <3>1. file'[i] \in FileLines /\ file'[i].kind = "http"
      BY DEF HttpLines, TypeInv, RecordsTyped
    <3> QED BY <3>1 DEF FileLines, HttpRecords, Lines
  <2>2. PICK rec \in HttpRecords : rec = file'[i]
    BY <2>1
  <2>3. PostReached(rec)
    BY <2>2 DEF PostInv
  <2>4. PostReached(rec)'
    BY <1>1, <2>3
  <2> QED BY <2>2, <2>4 DEF PostReached
<1>3. ASSUME NEW id \in HttpIds, httpRecords'[id] # NoRecord
      PROVE  /\ PostReached(httpRecords[id])'
             /\ id \notin gaps' => httpRecords'[id].hop # 0
  <2>1. PICK rec \in HttpRecords : rec = httpRecords'[id]
    BY <1>3 DEF TypeInv, RecordsTyped
  <2>2. PostReached(rec) /\ (id \notin gaps => rec.hop # 0)
    BY <1>3, <2>1 DEF PostInv
  <2>3. PostReached(rec)'
    BY <1>1, <2>2
  <2> QED BY <2>1, <2>2, <2>3 DEF PostReached
<1> QED BY <1>2, <1>3 DEF PostInv

\* Steps that write nothing and leave the records alone.
LEMMA PostUndisturbed ==
  ASSUME TypeInv, TypeInv', PostInv, UNCHANGED <<file, httpRecords>>, gaps \subseteq gaps',
         \A id \in HttpIds : traffic[id].hop <= traffic'[id].hop
  PROVE  PostInv'
<1>1. \A i \in HttpLines' : i \in HttpLines /\ file'[i] = file[i]
  BY DEF HttpLines
<1> QED BY <1>1, PostKept

\* Steps of the recorder, which leave the traffic alone.
LEMMA BrowserWaits ==
  ASSUME TypeInv, traffic' = traffic
  PROVE  \A id \in HttpIds : traffic[id].hop <= traffic'[id].hop
<1> SUFFICES ASSUME NEW id \in HttpIds PROVE traffic[id].hop <= traffic[id].hop
  OBVIOUS
<1>1. traffic[id].hop \in Nat
  BY RecorderConstants DEF TypeInv, Ids
<1> QED BY <1>1

\* A record of the map changes.
LEMMA PostUpdated ==
  ASSUME TypeInv, TypeInv', PostInv, UNCHANGED <<file, traffic, gaps>>, NEW q \in HttpIds, NEW rec,
         httpRecords' = [httpRecords EXCEPT ![q] = rec],
         PostReached(rec), q \notin gaps => rec.hop # 0
  PROVE  PostInv'
<1>1. \A i \in HttpLines' : i \in HttpLines /\ file'[i] = file[i]
  BY DEF HttpLines
<1>2. \A id \in HttpIds : httpRecords'[id] = IF id = q THEN rec ELSE httpRecords[id]
  BY DEF TypeInv, RecordsTyped
<1>3. \A id \in HttpIds : \/ httpRecords'[id] = httpRecords[id]
                          \/ /\ PostReached(httpRecords'[id])
                             /\ id \notin gaps => httpRecords'[id].hop # 0
  BY <1>2
<1> QED BY <1>1, <1>3, BrowserWaits, PostKept

\* A line is written that is not a record, or a record, which leaves the map.
LEMMA PostWritten ==
  ASSUME TypeInv, TypeInv', PostInv, UNCHANGED <<traffic, gaps>>, NEW line \in FileLines, Write(line),
         line.kind = "http" => PostReached(line),
         \A id \in HttpIds : httpRecords'[id] \in {httpRecords[id], NoRecord}
  PROVE  PostInv'
<1>1. file \in Seq(FileLines)
  BY DEF TypeInv, RecordsTyped
<1>2. CASE file' = file
  <2>1. \A i \in HttpLines' : i \in HttpLines /\ file'[i] = file[i]
    BY <1>2 DEF HttpLines
  <2> QED BY <2>1, BrowserWaits, PostKept
<1>3. CASE file' # file
  <2>1. PICK more : more = <<line>>
    OBVIOUS
  <2>2. /\ file' = file \o more /\ more \in Seq(FileLines)
        /\ \A i \in DOMAIN more : more[i] = line
    BY <1>3, <2>1 DEF Write
  <2>3. ASSUME NEW i \in HttpLines'
        PROVE  \/ i \in HttpLines /\ file'[i] = file[i]
               \/ file'[i] \in HttpRecords /\ PostReached(file'[i])
    <3>1. \/ i \in HttpLines /\ file'[i] = file[i]
          \/ file'[i] = line /\ line.kind = "http"
      BY <1>1, <2>2, NewLines
    <3>2. line.kind = "http" => line \in HttpRecords
      BY DEF FileLines, HttpRecords, Lines
    <3> QED BY <3>1, <3>2
  <2> QED BY <2>3, BrowserWaits, PostKept
<1> QED BY <1>2, <1>3

LEMMA PostCleanup ==
  ASSUME TypeInv, TypeInv', PostInv, Cleanup
  PROVE  PostInv'
<1>1. /\ FlushRecords /\ UNCHANGED <<traffic, gaps>>
      /\ \A id \in HttpIds : httpRecords'[id] = NoRecord
  BY DEF Cleanup, FlushRecords, browserVars
<1>2. PICK more \in Seq(FileLines) :
        /\ file' = file \o more
        /\ \A i \in DOMAIN more : more[i].kind = "http" => more[i] \in OpenRecords
  BY <1>1, FlushedLines
<1>3. ASSUME NEW i \in HttpLines'
      PROVE  \/ i \in HttpLines /\ file'[i] = file[i]
             \/ file'[i] \in HttpRecords /\ PostReached(file'[i])
  <2>1. \/ i \in HttpLines /\ file'[i] = file[i]
        \/ file'[i] \in OpenRecords
    <3>1. file \in Seq(FileLines)
      BY DEF TypeInv, RecordsTyped
    <3>2. \/ i \in HttpLines /\ file'[i] = file[i]
          \/ /\ i - Len(file) \in DOMAIN more /\ file'[i] = more[i - Len(file)]
             /\ more[i - Len(file)].kind = "http"
      BY <1>2, <3>1, NewLines
    <3> QED BY <1>2, <3>2
  <2>2. \A rec \in OpenRecords : rec \in HttpRecords /\ PostReached(rec)
    BY DEF OpenRecords, PostInv, TypeInv, RecordsTyped
  <2> QED BY <2>1, <2>2
<1> QED BY <1>1, <1>3, BrowserWaits, PostKept

\* The record that an event finds or enters.
LEMMA CurrentPost ==
  ASSUME TypeInv, PostInv, NEW id \in HttpIds
  PROVE  /\ Current(id) \in HttpRecords /\ PostReached(Current(id))
         /\ httpRecords[id] # NoRecord /\ id \notin gaps => Current(id).hop # 0
<1>1. Current(id) \in HttpRecords
  BY RecordTypes, RecorderConstants
<1>2. CASE httpRecords[id] # NoRecord
  BY <1>1, <1>2 DEF Current, PostInv
<1>3. CASE httpRecords[id] = NoRecord
  <2>1. Current(id).id = id /\ Current(id).post = 0
    BY <1>3 DEF Current, HttpRecord
  <2>2. 0 <= traffic[id].hop
    BY RecorderConstants DEF TypeInv, Ids
  <2> QED BY <1>1, <1>3, <2>1, <2>2 DEF PostReached
<1> QED BY <1>2, <1>3

LEMMA PostOnMsg ==
  ASSUME TypeInv, TypeInv', StopInv, OnceInv, PostInv, OnMsg
  PROVE  PostInv'
<1>1. PICK e : e = Head(stream)
  OBVIOUS
<1>2. UNCHANGED <<traffic, gaps>> /\ e \in HttpEvents \cup SocketEvents
  BY <1>1, WhileReading, HeadOfStream DEF OnceInv
<1>3. ASSUME RequestWillBeSent(e) PROVE PostInv'
  <2>1. e \in [type : {"requestWillBeSent"}, id : HttpIds, hop : Hops]
    BY <1>2, <1>3 DEF RequestWillBeSent, HttpEvents, SocketEvents
  <2>2. e.id \in HttpIds /\ e.hop # 0 /\ e.hop \in Hops
    BY <2>1 DEF Hops
  <2>3. CASE e.id \in Unwanted
    BY <1>2, <1>3, <2>3, BrowserWaits, PostUndisturbed DEF RequestWillBeSent
  <2>4. CASE e.id \notin Unwanted
    <3>1. PICK rec : rec = HttpRecord(e.id, e.hop)
      OBVIOUS
    <3>2. rec.id = e.id /\ rec.post = 0 /\ rec.hop # 0
      BY <2>2, <3>1 DEF HttpRecord
    <3>3. 0 <= traffic[e.id].hop
      BY <2>2, RecorderConstants DEF TypeInv, Ids
    <3>4. httpRecords' = [httpRecords EXCEPT ![e.id] = rec] /\ file' = file
      BY <1>3, <2>4, <3>1 DEF RequestWillBeSent
    <3> QED BY <1>2, <2>2, <3>2, <3>3, <3>4, PostUpdated DEF PostReached
  <2> QED BY <2>3, <2>4
<1>4. ASSUME ResponseReceived(e) PROVE PostInv'
  <2>1. e.id \in HttpIds /\ e.hop \in 0 .. MaxHops /\ e.type # "requestWillBeSent"
    BY <1>2, <1>4 DEF ResponseReceived, HttpEvents, SocketEvents
  <2>2. CASE e.id \in Unwanted
    BY <1>2, <1>4, <2>2, BrowserWaits, PostUndisturbed DEF ResponseReceived
  <2>3. CASE e.id \notin Unwanted
    <3>1. PICK old : old = Current(e.id)
      OBVIOUS
    <3>2. PICK rec : rec = [old EXCEPT !.response = e.hop]
      OBVIOUS
    <3>3. /\ old \in HttpRecords /\ PostReached(old)
          /\ e.id \notin gaps => old.hop # 0
      BY <1>1, <2>1, <2>3, <3>1, CurrentPost, CurrentIsOpen
    <3>4. rec.id = old.id /\ rec.post = old.post /\ rec.hop = old.hop
      BY <3>2, <3>3 DEF HttpRecords
    <3>5. httpRecords' = [httpRecords EXCEPT ![e.id] = rec] /\ file' = file
      BY <1>4, <2>3, <3>1, <3>2 DEF ResponseReceived
    <3>6. PostReached(rec) /\ (e.id \notin gaps => rec.hop # 0)
      BY <3>3, <3>4 DEF PostReached
    <3> QED BY <1>2, <2>1, <3>5, <3>6, PostUpdated
  <2> QED BY <2>2, <2>3
<1>5. ASSUME LoadingFinished(e) PROVE PostInv'
  BY <1>2, <1>5, BrowserWaits, PostUndisturbed DEF LoadingFinished
<1>6. ASSUME LoadingFailed(e) PROVE PostInv'
  <2>1. e.id \in HttpIds
    BY <1>2, <1>6 DEF LoadingFailed, HttpEvents, SocketEvents
  <2>2. PICK old : old = Current(e.id)
    OBVIOUS
  <2>3. PICK rec : rec = [old EXCEPT !.end = "failed"]
    OBVIOUS
  <2>4. old \in HttpRecords /\ PostReached(old)
    BY <2>1, <2>2, CurrentPost
  <2>5. /\ rec \in HttpRecords
        /\ rec.id = old.id /\ rec.post = old.post /\ rec.hop = old.hop
    BY <2>3, <2>4 DEF HttpRecords
  <2>6. Write(rec) /\ httpRecords' = [httpRecords EXCEPT ![e.id] = NoRecord]
    BY <1>6, <2>2, <2>3 DEF LoadingFailed, EmitHttpAndDelete
  <2>7. PostReached(rec) /\ rec \in FileLines
    BY <2>4, <2>5 DEF PostReached, FileLines
  <2>8. \A id \in HttpIds : httpRecords'[id] \in {httpRecords[id], NoRecord}
    BY <2>6 DEF TypeInv, RecordsTyped
  <2> QED BY <1>2, <2>6, <2>7, <2>8, PostWritten
<1>7. ASSUME WebSocketCreated(e) \/ WebSocketFrame(e) \/ WebSocketClosed(e) PROVE PostInv'
  <2>1. file' = file \/ \E line \in FileLines : Write(line) /\ line.kind # "http"
    BY <1>2, <1>7, SocketLines
  <2>2. httpRecords' = httpRecords
    BY <1>7 DEF WebSocketCreated, WebSocketFrame, WebSocketClosed
  <2>3. CASE file' = file
    BY <1>2, <2>2, <2>3, BrowserWaits, PostUndisturbed
  <2>4. CASE \E line \in FileLines : Write(line) /\ line.kind # "http"
    BY <1>2, <2>2, <2>4, PostWritten
  <2> QED BY <2>1, <2>3, <2>4
<1> QED BY <1>1, <1>3, <1>4, <1>5, <1>6, <1>7 DEF OnMsg

LEMMA PostAnswer ==
  ASSUME TypeInv, TypeInv', OnceInv, PostInv, NEW f \in fetches,
         PostDataArrives(f) \/ BodyArrives(f)
  PROVE  PostInv'
<1>1. UNCHANGED <<traffic, gaps>> /\ f.id \in HttpIds
  BY DEF PostDataArrives, BodyArrives, browserVars, TypeInv, RecordsTyped
<1>2. httpRecords[f.id] # NoRecord =>
        /\ httpRecords[f.id] \in HttpRecords /\ httpRecords[f.id].id = f.id
        /\ PostReached(httpRecords[f.id])
        /\ f.id \notin gaps => httpRecords[f.id].hop # 0
  BY <1>1 DEF TypeInv, RecordsTyped, OnceInv, RecordsInv, RecordInv, PostInv
<1>3. CASE PostDataArrives(f)
  <2>1. PICK hop \in RequestPostData(f) :
          httpRecords' = IF httpRecords[f.id] = NoRecord \/ hop = 0 THEN httpRecords
                         ELSE [httpRecords EXCEPT ![f.id].post = hop]
    BY <1>3 DEF PostDataArrives
  <2>2. file' = file
    BY <1>3 DEF PostDataArrives
  <2>3. CASE httpRecords' = httpRecords
    BY <1>1, <2>2, <2>3, BrowserWaits, PostUndisturbed
  <2>4. CASE httpRecords[f.id] # NoRecord /\ hop # 0
    <3>1. PICK rec : rec = [httpRecords[f.id] EXCEPT !.post = hop]
      OBVIOUS
    <3>2. rec.id = f.id /\ rec.post = hop /\ rec.hop = httpRecords[f.id].hop
      BY <1>2, <2>4, <3>1 DEF HttpRecords
    <3>3. hop <= traffic[f.id].hop
      BY <2>1, <2>4 DEF RequestPostData
    <3>4. httpRecords' = [httpRecords EXCEPT ![f.id] = rec]
      BY <2>1, <2>4, <3>1
    <3>5. PostReached(rec) /\ (f.id \notin gaps => rec.hop # 0)
      BY <1>2, <2>4, <3>2, <3>3 DEF PostReached
    <3> QED BY <1>1, <2>2, <3>4, <3>5, PostUpdated
  <2> QED BY <2>1, <2>3, <2>4
<1>4. CASE BodyArrives(f)
  <2>1. CASE httpRecords[f.id] = NoRecord
    BY <1>1, <1>4, <2>1, BrowserWaits, PostUndisturbed DEF BodyArrives
  <2>2. CASE httpRecords[f.id] # NoRecord
    <3>1. PICK hop \in ResponseBody(f) :
            EmitHttpAndDelete(f.id, [httpRecords[f.id] EXCEPT !.body = hop, !.end = "finished"])
      BY <1>4, <2>2 DEF BodyArrives
    <3>2. PICK rec : rec = [httpRecords[f.id] EXCEPT !.body = hop, !.end = "finished"]
      OBVIOUS
    <3>3. hop \in 0 .. MaxHops
      BY <1>1, <3>1, RecorderConstants DEF ResponseBody, TypeInv, Ids
    <3>4. /\ rec \in HttpRecords /\ rec.id = f.id /\ rec.post = httpRecords[f.id].post
          /\ rec.hop = httpRecords[f.id].hop
      BY <1>2, <2>2, <3>2, <3>3 DEF HttpRecords
    <3>5. Write(rec) /\ httpRecords' = [httpRecords EXCEPT ![f.id] = NoRecord]
      BY <3>1, <3>2 DEF EmitHttpAndDelete
    <3>6. PostReached(rec) /\ rec \in FileLines
      BY <1>2, <2>2, <3>4 DEF PostReached, FileLines
    <3>7. \A id \in HttpIds : httpRecords'[id] \in {httpRecords[id], NoRecord}
      BY <3>5 DEF TypeInv, RecordsTyped
    <3> QED BY <1>1, <3>5, <3>6, <3>7, PostWritten
  <2> QED BY <2>1, <2>2
<1> QED BY <1>3, <1>4

LEMMA PostHappens ==
  ASSUME TypeInv, TypeInv', PostInv, NEW type, NEW id \in Ids, NEW phase, NEW hop,
         Happens(type, id, phase, hop), id \in HttpIds => traffic[id].hop <= hop
  PROVE  PostInv'
<1>1. /\ UNCHANGED <<file, httpRecords>> /\ gaps \subseteq gaps'
      /\ traffic' = [traffic EXCEPT ![id] = [phase |-> phase, hop |-> hop]]
  BY DEF Happens, recordVars
<1>2. ASSUME NEW q \in HttpIds PROVE traffic[q].hop <= traffic'[q].hop
  <2>1. traffic[q].hop \in Nat /\ q \in Ids
    BY RecorderConstants DEF TypeInv, Ids
  <2>2. traffic'[q] = IF q = id THEN [phase |-> phase, hop |-> hop] ELSE traffic[q]
    BY <1>1, <2>1 DEF TypeInv
  <2> QED BY <2>1, <2>2
<1> QED BY <1>1, <1>2, PostUndisturbed

LEMMA PostTraffic ==
  ASSUME TypeInv, TypeInv', PostInv,
         \/ \E id \in HttpIds : Request(id) \/ Response(id) \/ Finish(id) \/ Fail(id)
         \/ \E id \in SocketIds : Connect(id) \/ Frame(id) \/ Close(id)
  PROVE  PostInv'
<1>1. ASSUME NEW id \in HttpIds, Request(id) \/ Response(id) \/ Finish(id) \/ Fail(id)
      PROVE  PostInv'
  <2>1. traffic[id].hop \in Nat /\ id \in Ids
    BY RecorderConstants DEF TypeInv, Ids
  <2>2. PICK type, phase, hop :
          Happens(type, id, phase, hop) /\ hop \in {traffic[id].hop, traffic[id].hop + 1}
    BY <1>1 DEF Request, Response, Finish, Fail
  <2>3. traffic[id].hop <= hop
    BY <2>1, <2>2
  <2> QED BY <2>1, <2>2, <2>3, PostHappens
<1>2. ASSUME NEW id \in SocketIds, Connect(id) \/ Frame(id) \/ Close(id) PROVE PostInv'
  <2>1. id \in Ids /\ id \notin HttpIds
    BY RecorderConstants DEF Ids
  <2>2. PICK type, phase, hop : Happens(type, id, phase, hop)
    BY <1>2 DEF Connect, Frame, Close
  <2> QED BY <2>1, <2>2, PostHappens
<1> QED BY <1>1, <1>2

LEMMA PostStep ==
  TypeInv /\ TypeInv' /\ StopInv /\ OnceInv /\ PostInv /\ [Next]_vars => PostInv'
<1> SUFFICES ASSUME TypeInv, TypeInv', StopInv, OnceInv, PostInv, [Next]_vars PROVE PostInv'
  OBVIOUS
<1>1. ASSUME UNCHANGED <<recordVars, traffic>>, gaps \subseteq gaps' PROVE PostInv'
  BY <1>1, BrowserWaits, PostUndisturbed DEF recordVars
<1>2. CASE \/ \E signal \in Signals : Stop(signal) \/ Kill(signal)
           \/ SubscribeAborted
  BY <1>1, <1>2, PostCleanup DEF Stop, Kill, SubscribeAborted, browserVars
<1>3. CASE MainStep \/ CleanupStep \/ Subscribed \/ SubscribeFailed \/ StreamEnds
  BY <1>1, <1>3 DEF MainStep, CleanupStep, NetworkEnabled, PageEnabled, Slept,
     NetworkDisabled, PageDisabled, Subscribed, SubscribeFailed, StreamEnds, browserVars
<1>4. CASE OnMsg
  BY <1>4, PostOnMsg
<1>5. CASE \E f \in fetches : PostDataArrives(f) \/ BodyArrives(f)
  BY <1>5, PostAnswer
<1>6. CASE \/ \E id \in HttpIds : Request(id) \/ Response(id) \/ Finish(id) \/ Fail(id)
           \/ \E id \in SocketIds : Connect(id) \/ Frame(id) \/ Close(id)
  BY <1>6, PostTraffic
<1>7. CASE UNCHANGED vars
  BY <1>1, <1>7 DEF vars, recordVars
<1> QED BY <1>2, <1>3, <1>4, <1>5, <1>6, <1>7 DEF Next

\* Of a request that was not redirected, the first hop is all there is.
LEMMA PostIsOwn ==
  ASSUME TypeInv, HopsInOrder, FileInv, PostInv
  PROVE  PostDataIsOwn
<1> SUFFICES ASSUME NEW i \in HttpLines, file[i].id \notin gaps, traffic[file[i].id].hop = 1,
                    file[i].post # 0
             PROVE  file[i].post = file[i].hop
  BY DEF PostDataIsOwn, Complete
<1>1. file[i] \in HttpRecords
  <2>1. file[i] \in FileLines /\ file[i].kind = "http"
    BY DEF HttpLines, TypeInv, RecordsTyped
  <2> QED BY <2>1 DEF FileLines, HttpRecords, Lines
<1>2. file[i].post \in Nat /\ file[i].hop \in Nat /\ file[i].post <= 1 /\ file[i].hop # 0
  BY <1>1, RecorderConstants DEF HttpRecords, PostInv, PostReached
<1>3. <<file[i].id, file[i].hop>> \in handled
  BY <1>2 DEF FileInv, Written
<1>4. file[i].hop <= 1
  BY <1>3 DEF HopsInOrder
<1> QED BY <1>2, <1>4

-----------------------------------------------------------------------------
(* The theorems.                                                           *)

LEMMA OnceInit == Init => OnceInv
<1> SUFFICES ASSUME Init PROVE OnceInv
  OBVIOUS
<1>1. /\ stream = <<>> /\ fetches = {} /\ \A id \in HttpIds : httpRecords[id] = NoRecord
      /\ \A id \in HttpIds : traffic[id].phase = "idle"
  BY DEF Init, Ids
<1>2. HttpLines = {}
  BY DEF Init, HttpLines, Line
<1>3. FileInv
  BY <1>2 DEF FileInv, Written, WrittenOnce, ResponseIsOwn
<1> QED BY <1>1, <1>3 DEF OnceInv, StreamInv, EventsOf, FetchInv, RecordsInv, LastHopInv

LEMMA OnceStep ==
  TypeInv /\ StopInv /\ HopsInOrder /\ OnceInv /\ [Next]_vars => OnceInv'
<1> SUFFICES ASSUME TypeInv, StopInv, HopsInOrder, OnceInv, [Next]_vars PROVE OnceInv'
  OBVIOUS
<1>1. ASSUME NEW signal \in Signals, Stop(signal) PROVE OnceInv'
  BY <1>1, OnceCleanup, OnceUndisturbed DEF Stop, browserVars
<1>2. ASSUME NEW signal \in Signals, Kill(signal) PROVE OnceInv'
  <2>1. signal \in {"SIGINT", "SIGTERM"}
    BY <1>2, RecorderConstants DEF Kill
  <2> QED BY <1>2, <2>1, OnceCut
<1>3. CASE MainStep
  BY <1>3, OnceUndisturbed DEF MainStep, NetworkEnabled, PageEnabled, Slept, browserVars
<1>4. CASE CleanupStep
  BY <1>4, OnceUndisturbed DEF CleanupStep, NetworkDisabled, PageDisabled, browserVars
<1>5. CASE Subscribed \/ SubscribeFailed
  BY <1>5, OnceUndisturbed DEF Subscribed, SubscribeFailed, browserVars
<1>6. CASE SubscribeAborted
  BY <1>6, OnceCleanup DEF SubscribeAborted
<1>7. CASE StreamEnds
  BY <1>7, OnceCut
<1>8. CASE OnMsg
  BY <1>8, OnceOnMsg
<1>9. CASE \E f \in fetches : PostDataArrives(f) \/ BodyArrives(f)
  BY <1>9, OnceAnswer
<1>10. CASE \/ \E id \in HttpIds : Request(id) \/ Response(id) \/ Finish(id) \/ Fail(id)
            \/ \E id \in SocketIds : Connect(id) \/ Frame(id) \/ Close(id)
  BY <1>10, OnceTraffic
<1>11. CASE UNCHANGED vars
  BY <1>11, OnceUndisturbed DEF vars, recordVars
<1> QED BY <1>1, <1>2, <1>3, <1>4, <1>5, <1>6, <1>7, <1>8, <1>9, <1>10, <1>11 DEF Next

LEMMA OnceAlways == Spec => [](TypeInv /\ HopsInOrder /\ OnceInv /\ PostInv)
<1>1. Init => HopsInOrder
  BY DEF Init, HopsInOrder, Starts
<1>2. Init => PostInv
  <2>1. Init => HttpLines = {}
    BY DEF Init, HttpLines, Line
  <2>2. Init => \A id \in HttpIds : httpRecords[id] = NoRecord
    BY DEF Init
  <2> QED BY <2>1, <2>2 DEF PostInv
<1> QED BY <1>1, <1>2, InvInit, InvStep, HopsStep, OnceInit, OnceStep, PostStep, PTL DEF Spec

\* No hop of a request is written twice, whichever of its body, its failure, a redirect
\* and the end of the recording come first, and however often the stream breaks
\* (record-network.ts:477-482, 581-583, 778-821).
THEOREM NoHopTwice == Spec => []WrittenOnce
<1>1. OnceInv => WrittenOnce
  BY DEF OnceInv, FileInv
<1> QED BY <1>1, OnceAlways, PTL

\* If no event of a request is lost, the response and the body of each of its lines are
\* of the hop the line is of: a redirect starts a new record, and a body that comes late
\* finds the record of the last hop or none.  So are the post data of a request that is
\* not redirected (record-network.ts:686-702, 720-776, 803-821).
THEOREM HopsAreNotMixed == Spec => []OneHopPerRecord
<1>1. TypeInv /\ HopsInOrder /\ OnceInv /\ PostInv => OneHopPerRecord
  BY PostIsOwn DEF OnceInv, FileInv, OneHopPerRecord
<1> QED BY <1>1, OnceAlways, PTL
=============================================================================
