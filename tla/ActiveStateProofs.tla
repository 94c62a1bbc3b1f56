------------------------- MODULE ActiveStateProofs -------------------------
(***************************************************************************)
(* Proofs about the stored state and its handlers, for any handlers, ports *)
(* and number of restarts.                                                 *)
(***************************************************************************)
EXTENDS ActiveState, SequenceLemmas

Requests == [by : AllHandlers, op : {"get", "migrate", "migrateLegacy", "remove", "set"},
             value : ValidStates]

PopupKinds == {"getState", "setState", "setPort"}

-----------------------------------------------------------------------------
(* The inductive invariant.                                                *)

TypeInv ==
  /\ stored \in OldStates \cup {Absent} /\ legacy \in OldStates \cup {Absent}
  /\ requests \in Seq(Requests)
  /\ pc \in [AllHandlers -> {"idle", "reading", "responding", "done", "dead"}]
  /\ job \in [AllHandlers -> Jobs \cup {StartupJob}]
  /\ maintained \in BOOLEAN /\ alarm \in BOOLEAN
  /\ latestState \in ValidStates \cup {Absent} /\ toggle \in BOOLEAN
  /\ wanted \in States /\ settled \in BOOLEAN
  /\ restarts \in 0 .. MaxRestarts

\* What a handler is about when it runs, and which startup handlers have run.
HandlersInv ==
  /\ \A h \in AllHandlers :
       /\ pc[h] = "idle" => job[h] = StartupJob
       /\ pc[h] = "reading" => job[h].kind # "getState"
       /\ pc[h] = "responding" => job[h].kind \in PopupKinds
  /\ \A h \in Handlers : job[h] = StartupJob => pc[h] = "idle"
  /\ \A n \in 0 .. MaxRestarts :
       /\ job[n] = StartupJob
       /\ n > restarts => pc[n] = "idle"
       /\ n < restarts => pc[n] \in {"done", "dead"}
  /\ pc[restarts] \in {"reading", "done"}
  /\ restarts = 0 => \A h \in AllHandlers : pc[h] # "dead"

\* A handler that waits has made one request; one that is dead may have left one.
RequestsInv ==
  /\ \A i \in DOMAIN requests :
       /\ pc[requests[i].by] \in {"reading", "responding", "dead"}
       /\ requests[i].op = "set" => /\ job[requests[i].by].kind \in {"setState", "setPort"}
                                    /\ pc[requests[i].by] # "responding"
  /\ \A i, j \in DOMAIN requests : requests[i].by = requests[j].by => i = j
  /\ \A h \in AllHandlers : AwaitsAnswer(h) => \E i \in DOMAIN requests : requests[i].by = h

\* A migration that is under way writes what a read returns: every write of a handler
\* comes behind it.  The legacy state is removed after the migrated one is there.
MigrationInv ==
  /\ \A i \in DOMAIN requests : requests[i].op \in {"migrate", "migrateLegacy"} =>
       /\ requests[i].value = Current
       /\ \A j \in DOMAIN requests : j < i => requests[j].op # "set"
  /\ Outdated => \A i \in DOMAIN requests : requests[i].op # "set"
  /\ \A i \in DOMAIN requests : requests[i].op = "remove" => stored \in ValidStates

BaseInv == TypeInv /\ HandlersInv /\ RequestsInv /\ MigrationInv

\* The startup handler of this worker waits for the request at k.
StartsAt(k) == k \in DOMAIN requests /\ requests[k].by = restarts

\* What the storage is to do before and after the request at k of the startup handler.
StartupInv(k) ==
  /\ ~maintained
  /\ \A i \in DOMAIN requests : requests[i].op = "set" /\ pc[requests[i].by] # "dead" => i > k
  /\ requests[k].op = "get" =>
       /\ \A i \in DOMAIN requests : i < k => pc[requests[i].by] = "dead"
       /\ \A i \in DOMAIN requests : i > k => requests[i].op = "get"
  /\ requests[k].op # "get" =>
       /\ ~alarm
       /\ \A h \in AllHandlers : job[h].kind = "alarm" => pc[h] # "reading"
  /\ requests[k].op \in {"migrate", "migrateLegacy"} =>
       Outdated /\ \A i \in DOMAIN requests : i < k => requests[i].op = "get"
  /\ requests[k].op = "remove" => requests[k].value = Current

\* Without changes of the port: what dead handlers left is executed before the startup
\* handler reads, and what live handlers write comes behind what it has read; until it
\* goes on nothing is maintained, and from then on the stored state decides.
MaintenanceInv ==
  None("setPort") =>
    /\ alarm \/ (\E h \in Handlers : job[h].kind = "alarm") => ~Outdated
    /\ \A i \in DOMAIN requests : job[requests[i].by].kind = "alarm" => requests[i].op = "get"
    /\ \A i \in DOMAIN requests : pc[requests[i].by] = "dead" =>
         \E k \in DOMAIN requests : k > i /\ StartsAt(k) /\ requests[k].op = "get"
    /\ \A k \in DOMAIN requests : StartsAt(k) => StartupInv(k)
    /\ pc[restarts] # "reading" =>
         (maintained <=> Current.isActive) /\ (alarm <=> Current.isActive)

\* The part of a state that jobs of a kind change.
Field(kind, state) == IF kind = "setState" THEN state.isActive ELSE state.port
OtherKind(kind) == IF kind = "setState" THEN "setPort" ELSE "setState"

Reads(kind) == { i \in DOMAIN requests : requests[i].op = "get" /\ pc[requests[i].by] = "reading"
                                           /\ job[requests[i].by].kind = kind }
Writes == { i \in DOMAIN requests : requests[i].op = "set" }

\* Once the storage is migrated, handlers only get and set.
SettledInv ==
  restarts = 0 /\ settled =>
    /\ (\E h \in Handlers : pc[h] # "idle") => ~Outdated
    /\ \A i \in DOMAIN requests : requests[i].op \in {"migrate", "migrateLegacy"} => Outdated
    /\ \A i \in DOMAIN requests : requests[i].op = "remove" => requests[i].by = 0
    /\ (\A h \in Handlers : pc[h] = "idle") => wanted = Current

\* The last of the reads, or else of the writes, or else the stored state, has what
\* was asked for last.
LastAsWanted(kind) ==
  /\ \A i \in Reads(kind) : (\A j \in Reads(kind) : j <= i) =>
       Field(kind, job[requests[i].by].arg) = Field(kind, wanted)
  /\ Reads(kind) = {} => \A i \in Writes : (\A j \in Writes : j <= i) =>
       Field(kind, requests[i].value) = Field(kind, wanted)
  /\ Reads(kind) = {} /\ Writes = {} => Field(kind, Current) = Field(kind, wanted)

\* Ports are only changed while the stored state is inactive, and leave it so.
LastWins(kind) ==
  restarts = 0 /\ settled /\ None(OtherKind(kind)) =>
    /\ kind = "setPort" => \A i \in Writes : ~requests[i].value.isActive /\ ~Current.isActive
    /\ (kind = "setPort" /\ Current.isActive) \/ LastAsWanted(kind)

OfPopup(i) == job[requests[i].by].kind \in PopupKinds
Changing(i) == OfPopup(i) /\ pc[requests[i].by] = "reading"
Showing(i) == /\ OfPopup(i) /\ pc[requests[i].by] = "responding"
              /\ requests[i].op = "remove" => requests[i].value = Current
Outran(i) == OfPopup(i) /\ pc[requests[i].by] = "responding" /\ ~Showing(i)
Fresh == latestState = Current /\ toggle = Current.isActive

\* A popup that shows something else than the stored state will get a response with
\* the stored state, and no response with an older state comes behind it.
PopupInv ==
  restarts = 0 =>
    /\ \A i \in DOMAIN requests : Outran(i) =>
         \/ \E j \in DOMAIN requests : j > i /\ Showing(j)
         \/ \E j \in DOMAIN requests : Changing(j)
    /\ latestState # Absent /\ ~Fresh =>
         \E j \in DOMAIN requests : Changing(j) \/ Showing(j)

-----------------------------------------------------------------------------
(* What steps do.                                                          *)

LEMMA StatesTyped ==
  /\ DefaultState \in ValidStates
  /\ ValidStates \subseteq OldStates /\ ValidStates \subseteq States
  /\ Absent \notin OldStates
  /\ \A s \in ValidStates : s.port # NoPort /\ Migrated(s) = s
  /\ \A s \in OldStates : Migrated(s) \in ValidStates
<1>1. Absent \notin OldStates
  BY ActiveStateConstants DEF OldStates
<1>2. DefaultState \in ValidStates
  BY ActiveStateConstants DEF DefaultState, State, ValidStates
<1>3. \A s \in ValidStates : s.port # NoPort
  BY ActiveStateConstants DEF ValidStates
<1>4. ASSUME NEW s \in OldStates PROVE Migrated(s) \in ValidStates
  <2>1. CASE s.port = NoPort
    <3>1. State(s.isActive, DefaultPort) \in ValidStates
      BY ActiveStateConstants DEF State, ValidStates, OldStates
    <3> QED BY <2>1, <3>1 DEF Migrated
  <2>2. CASE s.port # NoPort
    BY <2>2 DEF Migrated, ValidStates, OldStates
  <2> QED BY <2>1, <2>2
<1> QED BY <1>1, <1>2, <1>3, <1>4, ActiveStateConstants
        DEF Migrated, ValidStates, OldStates, States

LEMMA CurrentTyped == TypeInv => Current \in ValidStates
  BY StatesTyped DEF TypeInv, Current

LEMMA RequestTyped ==
  ASSUME NEW h \in AllHandlers, NEW op \in {"get", "migrate", "migrateLegacy", "remove", "set"},
         NEW v \in ValidStates
  PROVE  Request(h, op, v) \in Requests
  BY DEF Request, Requests

LEMMA RequestsTyped ==
  ASSUME TypeInv
  PROVE  /\ DOMAIN requests \subseteq Nat \ {0}
         /\ \A i \in DOMAIN requests : requests[i] \in Requests
  BY LenProperties, ElementOfSeq DEF TypeInv

Answer == AnswerGet \/ AnswerMigrate \/ AnswerMigrateLegacy \/ AnswerRemove \/ AnswerSet

\* What the handler of the first request q does.
Dropped(q) ==
  /\ pc[q.by] = "dead" /\ requests' = Tail(requests)
  /\ UNCHANGED <<pc, connection, popup>>

Migrates(q) ==
  \E op \in {"migrate", "migrateLegacy"} :
    /\ q.op = "get" /\ Outdated
    /\ requests' = Append(Tail(requests), Request(q.by, op, Current))
    /\ UNCHANGED <<pc, connection, popup, stored, legacy>>

Removes(q) ==
  /\ q.op = "migrateLegacy"
  /\ requests' = Append(Tail(requests), Request(q.by, "remove", q.value))
  /\ UNCHANGED <<pc, connection, popup>>

\* The read returns v.
Returns(q, v) ==
  /\ q.op \in {"get", "migrate", "remove"} /\ ~Outdated'
  /\ q.op = "remove" => v = q.value
  /\ q.op # "remove" => v = Current
  /\ HasRead(q.by, v, Tail(requests))

Sets(q) == q.op = "set" /\ HasSet(q.by, q.value, Tail(requests))

\* The storage answers the first request: only a write changes what a read returns,
\* and nothing makes the storage outdated again.
LEMMA Answering ==
  ASSUME BaseInv, Answer
  PROVE  \E q \in Requests :
           /\ requests # <<>> /\ 1 \in DOMAIN requests /\ q = requests[1] /\ q = Head(requests)
           /\ UNCHANGED <<job, wanted, settled, restarts>>
           /\ Current' = IF q.op = "set" THEN q.value ELSE Current
           /\ Outdated' => Outdated
           /\ q.op = "get" => (Outdated' <=> Outdated)
           /\ q.op = "set" => ~Outdated
           /\ q.op \in {"set", "migrate", "migrateLegacy"} => stored' = q.value /\ ~Outdated'
           /\ q.op \in {"get", "remove"} => stored' = stored
           /\ stored' \in OldStates \cup {Absent} /\ legacy' \in OldStates \cup {Absent}
           /\ \/ Dropped(q)
              \/ pc[q.by] # "dead" /\ (Migrates(q) \/ Removes(q) \/ Sets(q))
              \/ pc[q.by] # "dead" /\ \E v \in ValidStates : Returns(q, v)
<1>1. requests # <<>>
  BY DEF Answer, AnswerGet, AnswerMigrate, AnswerMigrateLegacy, AnswerRemove, AnswerSet, FirstIs
<1>2. PICK q \in Requests : 1 \in DOMAIN requests /\ q = requests[1] /\ q = Head(requests)
  BY <1>1, Advancing DEF BaseInv, TypeInv
<1>3. /\ UNCHANGED <<job, wanted, settled, restarts>>
      /\ q.value \in ValidStates /\ Current \in ValidStates
  BY CurrentTyped
  DEF Answer, AnswerGet, AnswerMigrate, AnswerMigrateLegacy, AnswerRemove, AnswerSet,
                      BaseInv, Requests
<1>4. q.op \in {"migrate", "migrateLegacy"} => q.value = Current
  BY <1>2 DEF BaseInv, MigrationInv
<1>5. q.op = "set" => ~Outdated
  BY <1>2 DEF BaseInv, MigrationInv
<1>6. q.op = "remove" => stored \in ValidStates
  BY <1>2 DEF BaseInv, MigrationInv
<1>7. ASSUME NEW s \in ValidStates, stored' = s PROVE Current' = s /\ ~Outdated'
  BY <1>7, StatesTyped DEF Current, Outdated
<1>8. stored \in OldStates \cup {Absent} /\ legacy \in OldStates \cup {Absent}
  BY DEF BaseInv, TypeInv
<1>9. CASE AnswerGet
  <2>1. q.op = "get" /\ UNCHANGED <<stored, legacy>>
    BY <1>2, <1>9 DEF AnswerGet, FirstIs
  <2>2. UNCHANGED <<Current, Outdated>>
    BY <2>1 DEF Current, Outdated
  <2>3. CASE pc[q.by] = "dead"
    <3>1. Dropped(q)
      BY <1>2, <1>9, <2>3 DEF AnswerGet, Resume, Dropped
    <3> QED BY <1>1, <1>2, <1>3, <1>8, <2>1, <2>2, <3>1
  <2>4. CASE pc[q.by] # "dead"
    <3>1. HasGot(q.by, q.value, Tail(requests))
      BY <1>2, <1>9, <2>4 DEF AnswerGet, Resume
    <3>2. Migrates(q) \/ \E v \in ValidStates : Returns(q, v)
      <4>1. CASE MigrateLegacy(q.by, Tail(requests))
        BY <2>1, <4>1 DEF MigrateLegacy, Migrates, Ask, Outdated, Current
      <4>2. CASE MigratePort(q.by, Tail(requests))
        BY <2>1, <4>2 DEF MigratePort, Migrates, Ask, Outdated, Current
      <4>3. CASE stored # Absent /\ stored.port # NoPort /\ HasRead(q.by, stored, Tail(requests))
        <5>1. stored = Current /\ ~Outdated
          BY <1>8, <4>3 DEF Current, Outdated, Migrated
        <5> QED BY <1>3, <2>1, <2>2, <4>3, <5>1 DEF Returns
      <4>4. CASE stored = Absent /\ legacy = Absent /\ HasRead(q.by, DefaultState, Tail(requests))
        <5>1. DefaultState = Current /\ ~Outdated
          BY <4>4 DEF Current, Outdated
        <5> QED BY <1>3, <2>1, <2>2, <4>4, <5>1 DEF Returns
      <4> QED BY <3>1, <4>1, <4>2, <4>3, <4>4 DEF HasGot
    <3> QED BY <1>1, <1>2, <1>3, <1>8, <2>1, <2>2, <2>4, <3>2
  <2> QED BY <1>1, <1>2, <1>3, <1>8, <2>1, <2>2, <2>3, <2>4
<1>10. CASE AnswerMigrate
  <2>1. q.op = "migrate" /\ stored' = q.value /\ legacy' = legacy
    BY <1>2, <1>10 DEF AnswerMigrate, FirstIs
  <2>2. Current' = q.value /\ ~Outdated' /\ q.value = Current
    BY <1>3, <1>4, <1>7, <2>1
  <2>3. CASE pc[q.by] = "dead"
    <3>1. Dropped(q)
      BY <1>2, <1>10, <2>3 DEF AnswerMigrate, Resume, Dropped
    <3> QED BY <1>1, <1>2, <1>3, <1>8, <2>1, <2>2, <3>1, StatesTyped
  <2>4. CASE pc[q.by] # "dead"
    <3>1. HasRead(q.by, q.value, Tail(requests))
      BY <1>2, <1>10, <2>4 DEF AnswerMigrate, Resume
    <3>2. Returns(q, q.value)
      BY <2>1, <2>2, <3>1 DEF Returns
    <3> QED BY <1>1, <1>2, <1>3, <1>8, <2>1, <2>2, <2>4, <3>2, StatesTyped
  <2> QED BY <2>3, <2>4
<1>11. CASE AnswerMigrateLegacy
  <2>1. q.op = "migrateLegacy" /\ stored' = q.value /\ legacy' = legacy
    BY <1>2, <1>11 DEF AnswerMigrateLegacy, FirstIs
  <2>2. Current' = q.value /\ ~Outdated' /\ q.value = Current
    BY <1>3, <1>4, <1>7, <2>1
  <2>3. Dropped(q) \/ (pc[q.by] # "dead" /\ Removes(q))
    BY <1>2, <1>11, <2>1 DEF AnswerMigrateLegacy, Resume, AskRemove, Ask, Dropped, Removes
  <2> QED BY <1>1, <1>2, <1>3, <1>8, <2>1, <2>2, <2>3, StatesTyped
<1>12. CASE AnswerRemove
  <2>1. q.op = "remove" /\ stored' = stored /\ legacy' = Absent
    BY <1>2, <1>12 DEF AnswerRemove, FirstIs
  <2>2. stored' \in ValidStates /\ Current = stored
    BY <1>6, <2>1, StatesTyped DEF Current
  <2>3. Current' = stored /\ ~Outdated'
    BY <1>7, <2>1, <2>2
  <2>4. CASE pc[q.by] = "dead"
    <3>1. Dropped(q)
      BY <1>2, <1>12, <2>4 DEF AnswerRemove, Resume, Dropped
    <3> QED BY <1>1, <1>2, <1>3, <1>8, <2>1, <2>2, <2>3, <3>1
  <2>5. CASE pc[q.by] # "dead"
    <3>1. HasRead(q.by, q.value, Tail(requests))
      BY <1>2, <1>12, <2>5 DEF AnswerRemove, Resume
    <3>2. Returns(q, q.value)
      BY <2>1, <2>3, <3>1 DEF Returns
    <3> QED BY <1>1, <1>2, <1>3, <1>8, <2>1, <2>2, <2>3, <2>5, <3>2
  <2> QED BY <2>4, <2>5
<1>13. CASE AnswerSet
  <2>1. q.op = "set" /\ stored' = q.value /\ legacy' = legacy
    BY <1>2, <1>13 DEF AnswerSet, FirstIs
  <2>2. Current' = q.value /\ ~Outdated'
    BY <1>3, <1>7, <2>1
  <2>3. Dropped(q) \/ (pc[q.by] # "dead" /\ Sets(q))
    BY <1>2, <1>13, <2>1 DEF AnswerSet, Resume, Dropped, Sets
  <2> QED BY <1>1, <1>2, <1>3, <1>5, <1>8, <2>1, <2>2, <2>3, StatesTyped
<1> QED BY <1>9, <1>10, <1>11, <1>12, <1>13 DEF Answer

\* The handler of q makes another request, for op and with v.
Requeues(q, op, v) ==
  /\ requests' = Append(Tail(requests), Request(q.by, op, v))
  /\ op \in {"migrate", "migrateLegacy"} => Outdated /\ v = Current /\ q.op = "get"
  /\ op = "remove" => q.op = "migrateLegacy" /\ v = q.value
  /\ op = "set" => /\ pc[q.by] = "reading" /\ job[q.by].kind \in {"setState", "setPort"}
                   /\ q.op \in {"get", "migrate", "remove"} /\ ~Outdated'
  /\ \/ op # "get" /\ pc' = pc
     \/ /\ op = "get" /\ pc' = [pc EXCEPT ![q.by] = "responding"]
        /\ pc[q.by] = "reading" /\ job[q.by].kind \in {"setState", "setPort"}

\* What becomes of the handler of q and its request.
Moves(q) ==
  \/ pc[q.by] = "dead" /\ requests' = Tail(requests) /\ pc' = pc
  \/ /\ AwaitsAnswer(q.by) /\ requests' = Tail(requests)
     /\ pc' = [pc EXCEPT ![q.by] = "done"]
  \/ /\ AwaitsAnswer(q.by)
     /\ \E op \in {"get", "migrate", "migrateLegacy", "remove", "set"}, v \in ValidStates :
          Requeues(q, op, v)

LEMMA JobKinds ==
  ASSUME NEW j \in Jobs \cup {StartupJob}
  PROVE  /\ j.kind \in PopupKinds \cup {"alarm", "startup"}
         /\ j = StartupJob <=> j.kind = "startup"
         /\ j.arg \in States
         /\ j.arg.port \in ValidPorts
<1>2. \A k, a : Job(k, a).kind = k /\ Job(k, a).arg = a
  BY DEF Job
<1>3. \A b \in BOOLEAN, p \in ValidPorts : State(b, p) \in States /\ State(b, p).port = p
  BY ActiveStateConstants DEF State, States
<1>4. DefaultState \in States /\ DefaultState.port \in ValidPorts /\ DefaultPort \in ValidPorts
  BY <1>3, ActiveStateConstants DEF DefaultState
<1>5. CASE j = StartupJob
  BY <1>2, <1>4, <1>5 DEF StartupJob
<1>6. CASE j \in {Job("getState", DefaultState), Job("alarm", DefaultState)}
  <2>1. j.kind \in {"getState", "alarm"} /\ j.arg = DefaultState
    BY <1>2, <1>6
  <2>2. j # StartupJob
    BY <1>2, <2>1 DEF StartupJob
  <2> QED BY <1>4, <2>1, <2>2 DEF PopupKinds
<1>7. ASSUME NEW b \in BOOLEAN, j = Job("setState", State(b, DefaultPort))
      PROVE  /\ j.kind = "setState" /\ j # StartupJob
             /\ j.arg \in States /\ j.arg.port \in ValidPorts
  BY <1>2, <1>3, <1>4, <1>7 DEF StartupJob
<1>8. ASSUME NEW p \in ValidPorts, j = Job("setPort", State(FALSE, p))
      PROVE  /\ j.kind = "setPort" /\ j # StartupJob
             /\ j.arg \in States /\ j.arg.port \in ValidPorts
  <2>1. PICK s \in States : s = State(FALSE, p) /\ s.port = p
    BY <1>3
  <2>2. j = Job("setPort", s)
    BY <1>8, <2>1
  <2>3. j.kind = "setPort" /\ j.arg = s
    BY <1>2, <2>2
  <2>4. j # StartupJob
    BY <1>2, <2>3 DEF StartupJob
  <2>5. s.port \in ValidPorts
    BY <2>1
  <2> QED BY <2>3, <2>4, <2>5
<1> QED BY <1>5, <1>6, <1>7, <1>8 DEF Jobs, PopupKinds

LEMMA JobsTyped ==
  ASSUME TypeInv, NEW h \in AllHandlers
  PROVE  /\ job[h].kind \in PopupKinds \cup {"alarm", "startup"}
         /\ job[h] = StartupJob <=> job[h].kind = "startup"
         /\ job[h].arg \in States
         /\ job[h].arg.port \in ValidPorts
  BY JobKinds DEF TypeInv

LEMMA JobsBegun ==
  \A j \in Jobs : j.kind \in PopupKinds \cup {"alarm"} /\ j # StartupJob
<1> TAKE j \in Jobs
<1>1. \A k, a : Job(k, a).kind = k
  BY DEF Job
<1>2. CASE j \in {Job("getState", DefaultState), Job("alarm", DefaultState)}
  BY <1>1, <1>2 DEF PopupKinds, StartupJob
<1>3. CASE j \in { Job("setState", State(b, DefaultPort)) : b \in BOOLEAN }
  <2>1. PICK s : j = Job("setState", s)
    BY <1>3
  <2> QED BY <1>1, <2>1 DEF PopupKinds, StartupJob
<1>4. CASE j \in { Job("setPort", State(FALSE, p)) : p \in ValidPorts }
  <2>1. PICK s : j = Job("setPort", s)
    BY <1>4
  <2> QED BY <1>1, <2>1 DEF PopupKinds, StartupJob
<1> QED BY <1>2, <1>3, <1>4 DEF Jobs

LEMMA Moved ==
  ASSUME BaseInv, NEW q \in Requests, requests # <<>>, q = requests[1], 1 \in DOMAIN requests,
         \/ Dropped(q)
         \/ pc[q.by] # "dead" /\ (Migrates(q) \/ Removes(q) \/ Sets(q))
         \/ pc[q.by] # "dead" /\ \E v \in ValidStates : Returns(q, v)
  PROVE  Moves(q)
<1>1. /\ q.by \in AllHandlers /\ q.value \in ValidStates /\ Current \in ValidStates
      /\ pc[q.by] \in {"reading", "responding", "dead"}
      /\ q.op = "set" => job[q.by].kind \in {"setState", "setPort"} /\ pc[q.by] # "responding"
  BY CurrentTyped DEF Requests, BaseInv, RequestsInv
<1>2. CASE Dropped(q)
  BY <1>2 DEF Dropped, Moves
<1>3. CASE pc[q.by] # "dead" /\ Migrates(q)
  BY <1>1, <1>3 DEF Migrates, Moves, Requeues, AwaitsAnswer
<1>4. CASE pc[q.by] # "dead" /\ Removes(q)
  BY <1>1, <1>4 DEF Removes, Moves, Requeues, AwaitsAnswer
<1>5. CASE pc[q.by] # "dead" /\ Sets(q)
  <2>1. Requeues(q, "get", DefaultState)
    BY <1>1, <1>5 DEF Sets, HasSet, ReadResponse, Get, Requeues
  <2> QED BY <1>1, <1>5, <2>1, StatesTyped DEF Moves, AwaitsAnswer
<1>6. ASSUME pc[q.by] # "dead", NEW v \in ValidStates, Returns(q, v) PROVE Moves(q)
  <2>1. CASE pc[q.by] = "responding" /\ HasReadResponse(q.by, v, Tail(requests))
    BY <2>1 DEF HasReadResponse, Finish, Moves, AwaitsAnswer
  <2>2. CASE pc[q.by] = "reading" /\ HasReadForSetState(q.by, v, Tail(requests))
    <3>1. State(job[q.by].arg.isActive, v.port) \in ValidStates
      <4>1. job[q.by].arg \in States
        BY <1>1, JobsTyped DEF BaseInv
      <4> QED BY <4>1 DEF State, States, ValidStates
    <3>2. Requeues(q, "set", State(job[q.by].arg.isActive, v.port))
      BY <1>6, <2>2 DEF HasReadForSetState, Ask, Requeues, Returns
    <3> QED BY <2>2, <3>1, <3>2 DEF Moves, AwaitsAnswer
  <2>3. CASE pc[q.by] = "reading" /\ HasReadForSetPort(q.by, v, Tail(requests))
    <3>1. CASE job[q.by].arg.port \in ValidPorts /\ ~v.isActive
      <4>1. State(v.isActive, job[q.by].arg.port) \in ValidStates
        BY <3>1 DEF State, ValidStates
      <4>2. Requeues(q, "set", State(v.isActive, job[q.by].arg.port))
        BY <1>6, <2>3, <3>1 DEF HasReadForSetPort, Ask, Requeues, Returns
      <4> QED BY <2>3, <4>1, <4>2 DEF Moves, AwaitsAnswer
    <3>2. CASE ~(job[q.by].arg.port \in ValidPorts /\ ~v.isActive)
      <4>1. Requeues(q, "get", DefaultState)
        BY <1>6, <2>3, <3>2 DEF HasReadForSetPort, Refuse, ReadResponse, Get, Requeues, Returns
      <4> QED BY <2>3, <4>1, StatesTyped DEF Moves, AwaitsAnswer
    <3> QED BY <3>1, <3>2
  <2>4. CASE pc[q.by] = "reading" /\ HasReadForAlarm(q.by, v, Tail(requests))
    BY <2>4 DEF HasReadForAlarm, Finish, Moves, AwaitsAnswer
  <2>5. CASE pc[q.by] = "reading" /\ HasReadForStartup(q.by, v, Tail(requests))
    BY <2>5 DEF HasReadForStartup, Finish, Moves, AwaitsAnswer
  <2> QED BY <1>6, <2>1, <2>2, <2>3, <2>4, <2>5 DEF Returns, HasRead
<1> QED BY <1>2, <1>3, <1>4, <1>5, <1>6


LEMMA Beginnings ==
  ASSUME NEW h \in Handlers, NEW port \in Ports,
         Poll(h) \/ Click(h) \/ AlarmFires(h) \/ SubmitPort(h, port), TypeInv
  PROVE  \E j \in Jobs : Begin(h, j)
  BY DEF Poll, Click, AlarmFires, SubmitPort, Jobs, TypeInv

LEMMA Began ==
  ASSUME TypeInv, NEW h \in Handlers, NEW j \in Jobs, Begin(h, j)
  PROVE  /\ pc[h] = "idle" /\ h \in AllHandlers
         /\ pc' \in [AllHandlers -> {"idle", "reading", "responding", "done", "dead"}]
         /\ pc'[h] = IF j.kind = "getState" THEN "responding" ELSE "reading"
         /\ job' \in [AllHandlers -> Jobs \cup {StartupJob}] /\ job'[h] = j
         /\ \A g \in AllHandlers : g # h => pc'[g] = pc[g] /\ job'[g] = job[g]
         /\ requests' \in Seq(Requests)
         /\ Len(requests) \in Nat /\ DOMAIN requests = 1 .. Len(requests)
         /\ DOMAIN requests' = 1 .. Len(requests) + 1
         /\ \A i \in DOMAIN requests : requests'[i] = requests[i]
         /\ requests'[Len(requests) + 1].by = h /\ requests'[Len(requests) + 1].op = "get"
<1>1. h \in AllHandlers /\ Get(h) \in Requests
  BY StatesTyped, RequestTyped DEF AllHandlers, Get
<1>2. /\ pc' = [pc EXCEPT ![h] = IF j.kind = "getState" THEN "responding" ELSE "reading"]
      /\ job' = [job EXCEPT ![h] = j] /\ requests' = Append(requests, Get(h)) /\ pc[h] = "idle"
  BY DEF Begin
<1>3. /\ requests' \in Seq(Requests)
      /\ Len(requests) \in Nat /\ DOMAIN requests = 1 .. Len(requests)
      /\ DOMAIN requests' = 1 .. Len(requests) + 1
      /\ \A i \in DOMAIN requests : requests'[i] = requests[i]
      /\ requests'[Len(requests) + 1] = Get(h)
  BY <1>1, <1>2, Appending DEF TypeInv
<1>4. Get(h).by = h /\ Get(h).op = "get"
  BY DEF Get, Request
<1> QED BY <1>1, <1>2, <1>3, <1>4 DEF TypeInv

-----------------------------------------------------------------------------
(* Types, handlers and their requests.                                     *)

LEMMA BaseInit == Init => BaseInv
<1> SUFFICES ASSUME Init PROVE BaseInv
  OBVIOUS
<1>1. 0 \in 0 .. MaxRestarts /\ 0 \in AllHandlers
  BY ActiveStateConstants DEF AllHandlers
<1>2. Get(0) \in Requests /\ Get(0).by = 0 /\ Get(0).op = "get"
  BY <1>1, RequestTyped, StatesTyped DEF Get, Request
<1>3. requests \in Seq(Requests) /\ DOMAIN requests = {1} /\ requests[1] = Get(0)
  BY <1>2 DEF Init
<1>4. stored \in OldStates \cup {Absent} /\ legacy \in OldStates \cup {Absent}
  BY DEF Init
<1>5. wanted \in States
  <2>1. Current \in ValidStates
    BY <1>4, StatesTyped DEF Current
  <2> QED BY <2>1, StatesTyped DEF Init
<1>6. TypeInv
  BY <1>1, <1>3, <1>4, <1>5 DEF Init, TypeInv
<1>7. StartupJob.kind = "startup"
  BY DEF StartupJob, Job
<1>8. HandlersInv
  <2>1. \A h \in AllHandlers : /\ pc[h] = IF h = 0 THEN "reading" ELSE "idle"
                               /\ job[h] = StartupJob
    BY DEF Init
  <2>2. Handlers \subseteq AllHandlers /\ 0 .. MaxRestarts \subseteq AllHandlers /\
            0 \notin Handlers
    BY <1>1, ActiveStateConstants DEF AllHandlers
  <2>3. restarts = 0 /\ \A n \in 0 .. MaxRestarts : n >= 0 /\ (n > 0 => n # 0)
    BY DEF Init
  <2> QED BY <1>1, <1>7, <2>1, <2>2, <2>3 DEF HandlersInv
<1>9. RequestsInv
  BY <1>1, <1>2, <1>3 DEF Init, RequestsInv, AwaitsAnswer
<1>10. MigrationInv
  BY <1>2, <1>3 DEF MigrationInv
<1> QED BY <1>6, <1>8, <1>9, <1>10 DEF BaseInv

LEMMA TypeBegin ==
  ASSUME BaseInv, NEW h \in Handlers, NEW port \in Ports,
         Poll(h) \/ Click(h) \/ AlarmFires(h) \/ SubmitPort(h, port)
  PROVE  TypeInv'
<1>1. PICK j \in Jobs : Begin(h, j)
  BY Beginnings DEF BaseInv
<1>2. /\ pc' \in [AllHandlers -> {"idle", "reading", "responding", "done", "dead"}]
      /\ job' \in [AllHandlers -> Jobs \cup {StartupJob}]
      /\ requests' \in Seq(Requests)
  BY <1>1, Began DEF BaseInv
<1>3. wanted' \in States /\ toggle' \in BOOLEAN
  BY ActiveStateConstants DEF BaseInv, TypeInv, States, Poll, Click, AlarmFires, SubmitPort
<1>4. settled' \in BOOLEAN
  BY <1>1 DEF BaseInv, TypeInv, Begin, Outdated
<1> QED BY <1>1, <1>2, <1>3, <1>4 DEF BaseInv, TypeInv, Begin, connection

LEMMA TypeAnswer ==
  ASSUME BaseInv, Answer
  PROVE  TypeInv'
<1>1. PICK q \in Requests :
        /\ requests # <<>> /\ 1 \in DOMAIN requests /\ q = requests[1]
        /\ UNCHANGED <<job, wanted, settled, restarts>>
        /\ stored' \in OldStates \cup {Absent} /\ legacy' \in OldStates \cup {Absent}
        /\ \/ Dropped(q)
           \/ pc[q.by] # "dead" /\ (Migrates(q) \/ Removes(q) \/ Sets(q))
           \/ pc[q.by] # "dead" /\ \E v \in ValidStates : Returns(q, v)
  BY Answering
<1>2. Moves(q)
  BY <1>1, Moved
<1>3. requests \in Seq(Requests) /\ Tail(requests) \in Seq(Requests) /\ q.by \in AllHandlers
  BY <1>1, Advancing DEF BaseInv, TypeInv, Requests
<1>4. requests' \in Seq(Requests)
  <2>1. ASSUME NEW op \in {"get", "migrate", "migrateLegacy", "remove", "set"},
               NEW v \in ValidStates,
               requests' = Append(Tail(requests), Request(q.by, op, v))
        PROVE  requests' \in Seq(Requests)
    BY <1>1, <1>3, <2>1, RequestTyped, Appending
  <2> QED BY <1>2, <1>3, <2>1 DEF Moves, Requeues
<1>5. pc' \in [AllHandlers -> {"idle", "reading", "responding", "done", "dead"}]
  BY <1>2, <1>3 DEF Moves, Requeues, BaseInv, TypeInv
<1>6. /\ maintained' \in BOOLEAN /\ alarm' \in BOOLEAN
      /\ latestState' \in ValidStates \cup {Absent} /\ toggle' \in BOOLEAN
  <2>0. /\ maintained \in BOOLEAN /\ alarm \in BOOLEAN
        /\ latestState \in ValidStates \cup {Absent} /\ toggle \in BOOLEAN
    BY DEF BaseInv, TypeInv
  <2>1. CASE Dropped(q) \/ Migrates(q) \/ Removes(q)
    BY <2>0, <2>1 DEF Dropped, Migrates, Removes, connection, popup
  <2>2. CASE Sets(q)
    <3>1. q.value.isActive \in BOOLEAN
      BY DEF Requests, ValidStates
    <3> QED BY <2>0, <2>2, <3>1 DEF Sets, HasSet, ReadResponse, Switch, connection, popup
  <2>3. ASSUME NEW v \in ValidStates, Returns(q, v)
        PROVE  /\ maintained' \in BOOLEAN /\ alarm' \in BOOLEAN
               /\ latestState' \in ValidStates \cup {Absent} /\ toggle' \in BOOLEAN
    <3>1. v.isActive \in BOOLEAN
      BY DEF ValidStates
    <3>2. HasRead(q.by, v, Tail(requests))
      BY <2>3 DEF Returns
    <3>3. CASE HasReadForSetState(q.by, v, Tail(requests)) \/
                   HasReadForSetPort(q.by, v, Tail(requests))
      BY <2>0, <3>3
      DEF HasReadForSetState, HasReadForSetPort, Ask, Refuse, ReadResponse, connection, popup
    <3>4. CASE HasReadForAlarm(q.by, v, Tail(requests)) \/
                   HasReadForStartup(q.by, v, Tail(requests))
      BY <2>0, <3>1, <3>4 DEF HasReadForAlarm, HasReadForStartup, popup
    <3>5. CASE HasReadResponse(q.by, v, Tail(requests))
      BY <2>0, <3>1, <3>5 DEF HasReadResponse, Show, connection
    <3> QED BY <3>2, <3>3, <3>4, <3>5 DEF HasRead
  <2> QED BY <1>1, <2>1, <2>2, <2>3
<1> QED BY <1>1, <1>4, <1>5, <1>6 DEF BaseInv, TypeInv

\* What the death of the worker leaves.
LEMMA Restarted ==
  ASSUME BaseInv, RestartWorker
  PROVE  /\ restarts' = restarts + 1 /\ restarts' \in 0 .. MaxRestarts /\ restarts' \in AllHandlers
         /\ restarts \in Nat
         /\ \A h \in AllHandlers : pc'[h] = IF h = restarts' THEN "reading"
                                            ELSE IF AwaitsAnswer(h) THEN "dead" ELSE pc[h]
         /\ pc' \in [AllHandlers -> {"idle", "reading", "responding", "done", "dead"}]
         /\ requests' \in Seq(Requests)
         /\ Len(requests) \in Nat /\ DOMAIN requests = 1 .. Len(requests)
         /\ DOMAIN requests' = 1 .. Len(requests) + 1
         /\ \A i \in DOMAIN requests : requests'[i] = requests[i] /\ requests[i] \in Requests
                                       /\ requests[i].by # restarts'
         /\ requests'[Len(requests) + 1].by = restarts' /\ requests'[Len(requests) + 1].op = "get"
         /\ job' = job /\ UNCHANGED <<stored, legacy, Current, Outdated>>
         /\ pc[restarts'] = "idle"
<1>1. /\ restarts' = restarts + 1 /\ restarts' \in 0 .. MaxRestarts /\ restarts \in Nat
      /\ restarts' \in AllHandlers
  BY ActiveStateConstants DEF RestartWorker, BaseInv, TypeInv, AllHandlers
<1>2. PICK n : n = restarts'
  OBVIOUS
<1>3. Get(n) \in Requests /\ Get(n).by = n /\ Get(n).op = "get"
  BY <1>1, <1>2, RequestTyped, StatesTyped DEF Get, Request
<1>4. requests' = Append(requests, Get(n))
  BY <1>2 DEF RestartWorker, Get, Request
<1>5. pc[n] = "idle"
  BY <1>1, <1>2 DEF BaseInv, HandlersInv
<1>6. \A i \in DOMAIN requests : requests[i].by # n
  BY <1>5 DEF BaseInv, RequestsInv
<1>7. UNCHANGED <<Current, Outdated>>
  BY DEF RestartWorker, Current, Outdated
<1>8. pc' \in [AllHandlers -> {"idle", "reading", "responding", "done", "dead"}]
  BY DEF RestartWorker, BaseInv, TypeInv
<1> QED BY <1>1, <1>2, <1>3, <1>4, <1>5, <1>6, <1>7, <1>8, Appending, RequestsTyped
        DEF RestartWorker, BaseInv, TypeInv

LEMMA TypeRestart ==
  ASSUME BaseInv, RestartWorker
  PROVE  TypeInv'
<1>1. latestState' \in ValidStates \cup {Absent} /\ toggle' \in BOOLEAN
  <2>1. Shown \in ValidStates
    BY StatesTyped DEF Shown, BaseInv, TypeInv
  <2>2. Shown.isActive \in BOOLEAN
    BY <2>1 DEF ValidStates
  <2> QED BY <2>1, <2>2 DEF RestartWorker, Show, popup, BaseInv, TypeInv
<1>2. /\ requests' \in Seq(Requests) /\ restarts' \in 0 .. MaxRestarts
      /\ pc' \in [AllHandlers -> {"idle", "reading", "responding", "done", "dead"}]
  BY Restarted
<1> QED BY <1>1, <1>2 DEF RestartWorker, BaseInv, TypeInv

\* What an answer does to the queue, place by place.
LEMMA Shifting ==
  ASSUME BaseInv, Answer
  PROVE  \E q \in Requests, L \in Nat \ {0} :
           /\ q = requests[1] /\ 1 \in DOMAIN requests /\ q.by \in AllHandlers
           /\ DOMAIN requests = 1 .. L /\ DOMAIN requests' \subseteq 1 .. L
           /\ \A i \in DOMAIN requests' : i < L =>
                /\ i + 1 \in DOMAIN requests /\ requests'[i] = requests[i + 1]
                /\ requests'[i].by # q.by
           /\ \A i \in DOMAIN requests : i > 1 => /\ i - 1 \in DOMAIN requests' /\ i - 1 < L
                                                  /\ requests'[i - 1] = requests[i]
           /\ \A h \in AllHandlers : h # q.by => pc'[h] = pc[h]
           /\ \/ /\ L \notin DOMAIN requests'
                 /\ \/ pc[q.by] = "dead" /\ pc' = pc
                    \/ AwaitsAnswer(q.by) /\ pc'[q.by] = "done"
              \/ /\ L \in DOMAIN requests' /\ AwaitsAnswer(q.by)
                 /\ \E op \in {"get", "migrate", "migrateLegacy", "remove", "set"}, v \in ValidStates :
                      /\ Requeues(q, op, v)
                      /\ requests'[L].by = q.by /\ requests'[L].op = op /\ requests'[L].value = v
                      /\ op = "get" => pc'[q.by] = "responding"
                      /\ op # "get" => pc'[q.by] = pc[q.by]
           /\ UNCHANGED <<job, wanted, settled, restarts>>
           /\ Current' = IF q.op = "set" THEN q.value ELSE Current
           /\ Outdated' => Outdated
           /\ q.op = "set" => ~Outdated
           /\ q.op \in {"set", "migrate", "migrateLegacy"} => stored' = q.value /\ ~Outdated'
           /\ q.op \in {"get", "remove"} => stored' = stored
<1>1. PICK q \in Requests :
        /\ requests # <<>> /\ 1 \in DOMAIN requests /\ q = requests[1]
        /\ UNCHANGED <<job, wanted, settled, restarts>>
        /\ Current' = IF q.op = "set" THEN q.value ELSE Current
        /\ Outdated' => Outdated
        /\ q.op = "set" => ~Outdated
        /\ q.op \in {"set", "migrate", "migrateLegacy"} => stored' = q.value /\ ~Outdated'
        /\ q.op \in {"get", "remove"} => stored' = stored
        /\ \/ Dropped(q)
           \/ pc[q.by] # "dead" /\ (Migrates(q) \/ Removes(q) \/ Sets(q))
           \/ pc[q.by] # "dead" /\ \E v \in ValidStates : Returns(q, v)
  BY Answering
<1>2. Moves(q)
  BY <1>1, Moved
<1>3. /\ requests \in Seq(Requests) /\ q.by \in AllHandlers
      /\ pc \in [AllHandlers -> {"idle", "reading", "responding", "done", "dead"}]
      /\ \A i \in DOMAIN requests : i # 1 => requests[i].by # q.by
  BY <1>1 DEF BaseInv, TypeInv, Requests, RequestsInv
<1>4. PICK L \in Nat \ {0} : L = Len(requests) /\ DOMAIN requests = 1 .. L
  BY <1>1, <1>3, EmptySeq, LenProperties
<1>5. CASE requests' = Tail(requests)
  <2>1. /\ DOMAIN requests' = 1 .. L - 1
        /\ \A i \in 1 .. L - 1 : requests'[i] = requests[i + 1]
    BY <1>1, <1>3, <1>4, <1>5, HeadTailProperties, LenProperties
  <2>2. /\ L \notin DOMAIN requests'
        /\ \A i \in DOMAIN requests' :
             /\ i + 1 \in DOMAIN requests /\ requests'[i] = requests[i + 1]
             /\ requests'[i].by # q.by
        /\ \A i \in DOMAIN requests : i > 1 => /\ i - 1 \in DOMAIN requests' /\ i - 1 < L
                                               /\ requests'[i - 1] = requests[i]
    BY <1>3, <1>4, <2>1
  <2>3. \/ pc[q.by] = "dead" /\ pc' = pc
        \/ AwaitsAnswer(q.by) /\ pc' = [pc EXCEPT ![q.by] = "done"]
    <3>1. ASSUME NEW op \in {"get", "migrate", "migrateLegacy", "remove", "set"},
                 NEW v \in ValidStates, requests' = Append(Tail(requests), Request(q.by, op, v))
          PROVE  FALSE
      <4>1. Len(requests') = L
        BY <1>1, <1>3, <1>4, <3>1, Requeueing, RequestTyped, LenProperties
      <4>2. Len(requests') = L - 1
        BY <1>1, <1>3, <1>4, <1>5, HeadTailProperties
      <4> QED BY <4>1, <4>2
    <3> QED BY <1>2, <3>1 DEF Moves, Requeues
  <2> QED BY <1>1, <1>3, <1>4, <2>1, <2>2, <2>3
<1>6. CASE \E op \in {"get", "migrate", "migrateLegacy", "remove", "set"}, v \in ValidStates :
             Requeues(q, op, v) /\ AwaitsAnswer(q.by)
  <2>1. PICK op \in {"get", "migrate", "migrateLegacy", "remove", "set"}, v \in ValidStates :
               Requeues(q, op, v) /\ AwaitsAnswer(q.by)
    BY <1>6
  <2>2. /\ DOMAIN requests' = 1 .. L
        /\ \A i \in 1 .. L - 1 : requests'[i] = requests[i + 1]
        /\ requests'[L] = Request(q.by, op, v)
    <3>1. Request(q.by, op, v) \in Requests
      BY <1>3, RequestTyped
    <3> QED BY <1>1, <1>3, <1>4, <2>1, <3>1, Requeueing DEF Requeues
  <2>3. requests'[L].by = q.by /\ requests'[L].op = op /\ requests'[L].value = v
    BY <2>2 DEF Request
  <2>4. /\ \A i \in DOMAIN requests' : i < L =>
             /\ i + 1 \in DOMAIN requests /\ requests'[i] = requests[i + 1]
             /\ requests'[i].by # q.by
        /\ \A i \in DOMAIN requests : i > 1 => /\ i - 1 \in DOMAIN requests' /\ i - 1 < L
                                               /\ requests'[i - 1] = requests[i]
    BY <1>3, <1>4, <2>2
  <2>5. /\ \A h \in AllHandlers : h # q.by => pc'[h] = pc[h]
        /\ op = "get" => pc'[q.by] = "responding"
        /\ op # "get" => pc'[q.by] = pc[q.by]
    BY <1>3, <2>1 DEF Requeues
  <2>6. L \in DOMAIN requests'
    BY <2>2
  <2> QED BY <1>1, <1>3, <1>4, <2>1, <2>2, <2>3, <2>4, <2>5, <2>6
<1> QED BY <1>2, <1>5, <1>6 DEF Moves

LEMMA HandlersStep ==
  ASSUME BaseInv,
         \/ \E h \in Handlers, j \in Jobs : Begin(h, j)
         \/ Answer
         \/ RestartWorker
  PROVE  HandlersInv'
<1> USE DEF BaseInv
<1>0. /\ Handlers \subseteq AllHandlers /\ 0 .. MaxRestarts \subseteq AllHandlers
      /\ restarts \in 0 .. MaxRestarts
      /\ \A h \in Handlers : h \notin 0 .. MaxRestarts
  BY ActiveStateConstants DEF AllHandlers, TypeInv
<1>1. ASSUME NEW h \in Handlers, NEW j \in Jobs, Begin(h, j) PROVE HandlersInv'
  <2>1. /\ pc[h] = "idle" /\ pc'[h] = IF j.kind = "getState" THEN "responding" ELSE "reading"
        /\ job'[h] = j
        /\ \A g \in AllHandlers : g # h => pc'[g] = pc[g] /\ job'[g] = job[g]
    BY <1>1, Began
  <2>2. /\ j.kind \in PopupKinds \cup {"alarm"} /\ j # StartupJob
    BY JobsBegun
  <2>3. restarts' = restarts
    BY <1>1 DEF Begin
  <2> QED BY <1>0, <2>1, <2>2, <2>3 DEF HandlersInv, PopupKinds
<1>2. CASE Answer
  <2>1. PICK q \in Requests :
          /\ q.by \in AllHandlers /\ q = requests[1] /\ 1 \in DOMAIN requests
          /\ \A h \in AllHandlers : h # q.by => pc'[h] = pc[h]
          /\ \/ pc'[q.by] = pc[q.by]
             \/ AwaitsAnswer(q.by) /\ pc'[q.by] = "done"
             \/ /\ AwaitsAnswer(q.by) /\ pc'[q.by] = "responding"
                /\ job[q.by].kind \in {"setState", "setPort"}
          /\ UNCHANGED <<job, restarts>>
    <3>1. PICK q \in Requests, L \in Nat \ {0} :
            /\ q.by \in AllHandlers /\ q = requests[1] /\ 1 \in DOMAIN requests
            /\ \A h \in AllHandlers : h # q.by => pc'[h] = pc[h]
            /\ \/ /\ L \notin DOMAIN requests'
                  /\ \/ pc[q.by] = "dead" /\ pc' = pc
                     \/ AwaitsAnswer(q.by) /\ pc'[q.by] = "done"
               \/ /\ L \in DOMAIN requests' /\ AwaitsAnswer(q.by)
                  /\ \E op \in {"get", "migrate", "migrateLegacy", "remove", "set"}, v \in ValidStates :
                       /\ Requeues(q, op, v)
                       /\ op = "get" => pc'[q.by] = "responding"
                       /\ op # "get" => pc'[q.by] = pc[q.by]
            /\ UNCHANGED <<job, restarts>>
      BY <1>2, Shifting
    <3>2. \A op, v : Requeues(q, op, v) /\ op = "get" => job[q.by].kind \in {"setState", "setPort"}
      BY DEF Requeues
    <3> QED BY <3>1, <3>2
  <2>2. \A h \in AllHandlers : pc'[h] = "idle" <=> pc[h] = "idle"
    BY <2>1 DEF AwaitsAnswer
  <2>3. \A h \in AllHandlers : pc'[h] = "dead" <=> pc[h] = "dead"
    BY <2>1 DEF AwaitsAnswer
  <2>4. \A h \in AllHandlers : pc[h] = "done" => pc'[h] = "done"
    BY <2>1 DEF AwaitsAnswer
  <2>5. \A h \in AllHandlers : /\ pc'[h] = "reading" => pc[h] = "reading"
                               /\ pc'[h] = "responding" => job[h].kind \in PopupKinds
    BY <2>1 DEF HandlersInv, PopupKinds
  <2>6. StartupJob.kind = "startup"
    BY DEF StartupJob, Job
  <2>7. pc'[restarts] \in {"reading", "done"}
    <3>1. pc[restarts] \in {"reading", "done"} /\ job[restarts] = StartupJob
      BY <1>0 DEF HandlersInv
    <3> QED BY <1>0, <2>1, <2>6, <3>1 DEF AwaitsAnswer
  <2>8. \A h \in AllHandlers : /\ pc'[h] = "idle" => job[h] = StartupJob
                               /\ pc'[h] = "reading" => job[h].kind # "getState"
                               /\ pc'[h] = "responding" => job[h].kind \in PopupKinds
    BY <2>2, <2>5 DEF HandlersInv
  <2>9. \A n \in 0 .. MaxRestarts :
          /\ job[n] = StartupJob
          /\ n > restarts => pc'[n] = "idle"
          /\ n < restarts => pc'[n] \in {"done", "dead"}
    BY <1>0, <2>2, <2>3, <2>4 DEF HandlersInv
  <2>10. \A h \in Handlers : job[h] = StartupJob => pc'[h] = "idle"
    BY <1>0, <2>2 DEF HandlersInv
  <2>11. restarts = 0 => \A h \in AllHandlers : pc'[h] # "dead"
    BY <2>3 DEF HandlersInv
  <2> QED BY <2>1, <2>7, <2>8, <2>9, <2>10, <2>11 DEF HandlersInv
<1>3. CASE RestartWorker
  <2>1. /\ restarts' = restarts + 1 /\ restarts' \in 0 .. MaxRestarts
        /\ \A h \in AllHandlers : pc'[h] = IF h = restarts' THEN "reading"
                                           ELSE IF AwaitsAnswer(h) THEN "dead" ELSE pc[h]
        /\ job' = job
    BY <1>3, Restarted
  <2>2. StartupJob.kind = "startup"
    BY DEF StartupJob, Job
  <2>3. \A h \in Handlers : h # restarts'
    BY <1>0, <2>1
  <2>4. \A h \in AllHandlers : /\ pc'[h] = "idle" => job[h] = StartupJob
                               /\ pc'[h] = "reading" => job[h].kind # "getState"
                               /\ pc'[h] # "responding"
    BY <1>0, <2>1, <2>2 DEF HandlersInv, AwaitsAnswer, TypeInv
  <2>5. \A h \in Handlers : job[h] = StartupJob => pc'[h] = "idle"
    BY <1>0, <2>1, <2>3 DEF HandlersInv, AwaitsAnswer
  <2>6. \A n \in 0 .. MaxRestarts :
          /\ job[n] = StartupJob
          /\ n > restarts' => pc'[n] = "idle"
          /\ n < restarts' => pc'[n] \in {"done", "dead"}
    <3> TAKE n \in 0 .. MaxRestarts
    <3>1. job[n] = StartupJob
      BY DEF HandlersInv
    <3>2. CASE n > restarts'
      BY <1>0, <2>1, <3>1, <3>2 DEF HandlersInv, AwaitsAnswer
    <3>3. CASE n = restarts'
      BY <1>0, <2>1, <3>1, <3>3
    <3>4. CASE n = restarts
      BY <1>0, <2>1, <3>1, <3>4 DEF HandlersInv, AwaitsAnswer
    <3>5. CASE n < restarts
      BY <1>0, <2>1, <3>1, <3>5 DEF HandlersInv, AwaitsAnswer
    <3> QED BY <1>0, <2>1, <3>2, <3>3, <3>4, <3>5
  <2>7. pc'[restarts'] = "reading"
    BY <1>0, <2>1
  <2>8. restarts' # 0
    BY <1>0, <2>1
  <2> QED BY <2>1, <2>4, <2>5, <2>6, <2>7, <2>8 DEF HandlersInv
<1> QED BY <1>1, <1>2, <1>3

LEMMA RequestsStep ==
  ASSUME BaseInv,
         \/ \E h \in Handlers, j \in Jobs : Begin(h, j)
         \/ Answer
         \/ RestartWorker
  PROVE  RequestsInv'
<1> USE DEF BaseInv
<1>0. /\ \A i \in DOMAIN requests : requests[i].by \in AllHandlers
      /\ \A h \in AllHandlers : AwaitsAnswer(h)' <=> pc'[h] \in {"reading", "responding"}
  BY RequestsTyped DEF Requests, AwaitsAnswer
<1>1. ASSUME NEW h \in Handlers, NEW j \in Jobs, Begin(h, j) PROVE RequestsInv'
  <2>1. PICK n \in Nat \ {0} :
          /\ pc[h] = "idle" /\ h \in AllHandlers /\ pc'[h] \in {"reading", "responding"}
          /\ \A g \in AllHandlers : g # h => pc'[g] = pc[g] /\ job'[g] = job[g]
          /\ DOMAIN requests = 1 .. n - 1 /\ DOMAIN requests' = 1 .. n
          /\ \A i \in DOMAIN requests : requests'[i] = requests[i]
          /\ requests'[n].by = h /\ requests'[n].op = "get"
    <3>1. PICK n : n = Len(requests) + 1
      OBVIOUS
    <3>2. Len(requests) \in Nat /\ n \in Nat \ {0} /\ Len(requests) = n - 1
      BY <1>1, <3>1, Began
    <3> QED BY <1>1, <3>1, <3>2, Began
  <2>2. \A i \in DOMAIN requests : requests[i].by # h
    BY <2>1 DEF RequestsInv
  <2>3. \A i \in DOMAIN requests' : i = n \/ (i \in DOMAIN requests /\ requests'[i] = requests[i])
    BY <2>1
  <2>4. \A i \in DOMAIN requests' :
          /\ pc'[requests'[i].by] \in {"reading", "responding", "dead"}
          /\ requests'[i].op = "set" => /\ job'[requests'[i].by].kind \in {"setState", "setPort"}
                                        /\ pc'[requests'[i].by] # "responding"
    BY <1>0, <2>1, <2>2, <2>3 DEF RequestsInv
  <2>5. \A i, j1 \in DOMAIN requests' : requests'[i].by = requests'[j1].by => i = j1
    BY <2>1, <2>2, <2>3 DEF RequestsInv
  <2>6. \A g \in AllHandlers : pc'[g] \in {"reading", "responding"} =>
          \E i \in DOMAIN requests' : requests'[i].by = g
    <3> SUFFICES ASSUME NEW g \in AllHandlers, pc'[g] \in {"reading", "responding"}
                 PROVE  \E i \in DOMAIN requests' : requests'[i].by = g
      OBVIOUS
    <3>1. CASE g = h
      BY <2>1, <3>1
    <3>2. CASE g # h
      <4>1. PICK i \in DOMAIN requests : requests[i].by = g
        BY <2>1, <3>2 DEF RequestsInv, AwaitsAnswer
      <4> QED BY <2>1, <4>1
    <3> QED BY <3>1, <3>2
  <2> QED BY <1>0, <2>4, <2>5, <2>6 DEF RequestsInv
<1>2. CASE Answer
  <2>1. PICK q \in Requests, L \in Nat \ {0} :
          /\ q = requests[1] /\ 1 \in DOMAIN requests /\ q.by \in AllHandlers
          /\ DOMAIN requests = 1 .. L /\ DOMAIN requests' \subseteq 1 .. L
          /\ \A i \in DOMAIN requests' : i < L =>
               /\ i + 1 \in DOMAIN requests /\ requests'[i] = requests[i + 1]
               /\ requests'[i].by # q.by
          /\ \A i \in DOMAIN requests : i > 1 => /\ i - 1 \in DOMAIN requests' /\ i - 1 < L
                                                 /\ requests'[i - 1] = requests[i]
          /\ \A h \in AllHandlers : h # q.by => pc'[h] = pc[h]
          /\ \/ /\ L \notin DOMAIN requests'
                /\ \/ pc[q.by] = "dead" /\ pc' = pc
                   \/ AwaitsAnswer(q.by) /\ pc'[q.by] = "done"
             \/ /\ L \in DOMAIN requests' /\ AwaitsAnswer(q.by)
                /\ \E op \in {"get", "migrate", "migrateLegacy", "remove", "set"}, v \in ValidStates :
                     /\ Requeues(q, op, v)
                     /\ requests'[L].by = q.by /\ requests'[L].op = op
                     /\ op = "get" => pc'[q.by] = "responding"
                     /\ op # "get" => pc'[q.by] = pc[q.by]
          /\ UNCHANGED job
    BY <1>2, Shifting
  <2>2. \A i \in DOMAIN requests' : i < L \/ i = L
    BY <2>1
  <2>3. L \in DOMAIN requests' =>
          /\ requests'[L].by = q.by
          /\ pc'[q.by] \in {"reading", "responding"}
          /\ requests'[L].op = "set" => /\ job[q.by].kind \in {"setState", "setPort"}
                                        /\ pc'[q.by] # "responding"
    BY <2>1 DEF Requeues, AwaitsAnswer
  <2>4. \A i \in DOMAIN requests' :
          /\ pc'[requests'[i].by] \in {"reading", "responding", "dead"}
          /\ requests'[i].op = "set" => /\ job[requests'[i].by].kind \in {"setState", "setPort"}
                                        /\ pc'[requests'[i].by] # "responding"
    <3> TAKE i \in DOMAIN requests'
    <3>1. CASE i = L
      BY <2>3, <3>1
    <3>2. CASE i < L
      <4>1. /\ i + 1 \in DOMAIN requests /\ requests'[i] = requests[i + 1]
            /\ requests[i + 1].by # q.by /\ requests[i + 1].by \in AllHandlers
        BY <1>0, <2>1, <3>2
      <4>2. pc'[requests[i + 1].by] = pc[requests[i + 1].by]
        BY <2>1, <4>1
      <4> QED BY <4>1, <4>2 DEF RequestsInv
    <3> QED BY <2>2, <3>1, <3>2
  <2>5. \A i, j \in DOMAIN requests' : requests'[i].by = requests'[j].by => i = j
    <3>1. \A i, j \in DOMAIN requests' : i < L /\ j < L /\ requests'[i].by = requests'[j].by =>
              i = j
      BY <2>1 DEF RequestsInv
    <3>2. \A i \in DOMAIN requests' : i < L /\ L \in DOMAIN requests' =>
              requests'[i].by # requests'[L].by
      BY <2>1, <2>3
    <3> QED BY <2>2, <3>1, <3>2
  <2>6. \A h \in AllHandlers : pc'[h] \in {"reading", "responding"} =>
          \E i \in DOMAIN requests' : requests'[i].by = h
    <3> SUFFICES ASSUME NEW h \in AllHandlers, pc'[h] \in {"reading", "responding"}
                 PROVE  \E i \in DOMAIN requests' : requests'[i].by = h
      OBVIOUS
    <3>1. CASE h = q.by
      BY <2>1, <2>3, <3>1
    <3>2. CASE h # q.by
      <4>1. PICK i \in DOMAIN requests : requests[i].by = h
        BY <2>1, <3>2 DEF RequestsInv, AwaitsAnswer
      <4>2. i > 1
        BY <2>1, <3>2, <4>1
      <4> QED BY <2>1, <4>1, <4>2
    <3> QED BY <3>1, <3>2
  <2> QED BY <1>0, <2>1, <2>4, <2>5, <2>6 DEF RequestsInv
<1>3. CASE RestartWorker
  <2>1. PICK n \in Nat \ {0} :
          /\ restarts' \in AllHandlers
          /\ \A h \in AllHandlers : pc'[h] = IF h = restarts' THEN "reading"
                                             ELSE IF AwaitsAnswer(h) THEN "dead" ELSE pc[h]
          /\ DOMAIN requests = 1 .. n - 1 /\ DOMAIN requests' = 1 .. n
          /\ \A i \in DOMAIN requests : requests'[i] = requests[i] /\ requests[i].by # restarts'
          /\ requests'[n].by = restarts' /\ requests'[n].op = "get"
          /\ job' = job
    <3>1. PICK n : n = Len(requests) + 1
      OBVIOUS
    <3>2. Len(requests) \in Nat /\ n \in Nat \ {0} /\ Len(requests) = n - 1
      BY <1>3, <3>1, Restarted
    <3> QED BY <1>3, <3>1, <3>2, Restarted
  <2>2. \A i \in DOMAIN requests' : i = n \/ (i \in DOMAIN requests /\ requests'[i] = requests[i])
    BY <2>1
  <2>3. \A i \in DOMAIN requests : pc'[requests[i].by] = "dead"
    BY <1>0, <2>1 DEF RequestsInv, AwaitsAnswer
  <2>4. \A i \in DOMAIN requests' :
          /\ pc'[requests'[i].by] \in {"reading", "responding", "dead"}
          /\ requests'[i].op = "set" => /\ job'[requests'[i].by].kind \in {"setState", "setPort"}
                                        /\ pc'[requests'[i].by] # "responding"
    BY <2>1, <2>2, <2>3 DEF RequestsInv
  <2>5. \A i, j \in DOMAIN requests' : requests'[i].by = requests'[j].by => i = j
    BY <2>1, <2>2 DEF RequestsInv
  <2>6. \A h \in AllHandlers : pc'[h] \in {"reading", "responding"} =>
          \E i \in DOMAIN requests' : requests'[i].by = h
    BY <2>1 DEF AwaitsAnswer
  <2> QED BY <1>0, <2>4, <2>5, <2>6 DEF RequestsInv
<1> QED BY <1>1, <1>2, <1>3

\* Nothing a migration writes is older than what a read returns.
LEMMA MigrationStep ==
  ASSUME BaseInv,
         \/ \E h \in Handlers, j \in Jobs : Begin(h, j)
         \/ Answer
         \/ RestartWorker
  PROVE  MigrationInv'
<1> USE DEF BaseInv
<1>1. ASSUME NEW h \in Handlers, NEW j \in Jobs, Begin(h, j) PROVE MigrationInv'
  <2>1. UNCHANGED <<stored, Current, Outdated>>
    BY <1>1 DEF Begin, Current, Outdated
  <2>2. /\ \A i \in DOMAIN requests' :
             \/ requests'[i].op = "get"
             \/ i \in DOMAIN requests /\ requests'[i] = requests[i]
        /\ \A i \in DOMAIN requests, k \in DOMAIN requests' : k < i => k \in DOMAIN requests
    BY <1>1, Began
  <2> QED BY <2>1, <2>2 DEF MigrationInv
<1>2. CASE Answer
  <2>1. PICK q \in Requests, L \in Nat \ {0} :
          /\ q = requests[1] /\ 1 \in DOMAIN requests
          /\ DOMAIN requests = 1 .. L /\ DOMAIN requests' \subseteq 1 .. L
          /\ \A i \in DOMAIN requests' : i < L =>
               i + 1 \in DOMAIN requests /\ requests'[i] = requests[i + 1]
          /\ L \in DOMAIN requests' =>
               \E op \in {"get", "migrate", "migrateLegacy", "remove", "set"}, v \in ValidStates :
                 Requeues(q, op, v) /\ requests'[L].op = op /\ requests'[L].value = v
          /\ Current' = IF q.op = "set" THEN q.value ELSE Current
          /\ Outdated' => Outdated
          /\ q.op \in {"set", "migrate", "migrateLegacy"} => stored' = q.value
          /\ q.op \in {"get", "remove"} => stored' = stored
    BY <1>2, Shifting
  <2>2. L \in DOMAIN requests' =>
          /\ requests'[L].op \in {"migrate", "migrateLegacy"} =>
               Outdated /\ requests'[L].value = Current /\ q.op = "get"
          /\ requests'[L].op = "set" => ~Outdated'
          /\ requests'[L].op = "remove" => q.op = "migrateLegacy"
    BY <2>1 DEF Requeues
  <2>3. \A i \in DOMAIN requests' : i < L \/ i = L
    BY <2>1
  <2>4. ASSUME NEW i \in DOMAIN requests', requests'[i].op \in {"migrate", "migrateLegacy"}
        PROVE  /\ requests'[i].value = Current'
               /\ \A j \in DOMAIN requests' : j < i => requests'[j].op # "set"
    <3>1. CASE i < L
      <4>1. /\ requests[i + 1].value = Current
            /\ \A j \in DOMAIN requests : j < i + 1 => requests[j].op # "set"
        BY <2>1, <2>4, <3>1 DEF MigrationInv
      <4>2. q.op # "set"
        BY <2>1, <2>4, <4>1
      <4>3. \A j \in DOMAIN requests' : j < i => j < L /\ j + 1 < i + 1
        BY <2>1
      <4> QED BY <2>1, <3>1, <4>1, <4>2, <4>3
    <3>2. CASE i = L
      <4>1. \A j \in DOMAIN requests : requests[j].op # "set"
        BY <2>2, <2>4, <3>2 DEF MigrationInv
      <4> QED BY <2>1, <2>2, <2>4, <3>2, <4>1
    <3> QED BY <2>3, <3>1, <3>2
  <2>5. Outdated' => \A i \in DOMAIN requests' : requests'[i].op # "set"
    BY <2>1, <2>2, <2>3 DEF MigrationInv
  <2>6. q.value \in ValidStates
    BY DEF Requests
  <2>7. q.op \in {"get", "migrate", "migrateLegacy", "remove", "set"}
    BY DEF Requests
  <2>8. ASSUME NEW i \in DOMAIN requests', requests'[i].op = "remove" PROVE stored' \in ValidStates
    <3>1. CASE i < L
      <4>1. stored \in ValidStates
        BY <2>1, <2>8, <3>1 DEF MigrationInv
      <4> QED BY <2>1, <2>6, <2>7, <4>1
    <3>2. CASE i = L
      BY <2>1, <2>2, <2>6, <2>8, <3>2
    <3> QED BY <2>3, <3>1, <3>2
  <2> QED BY <2>4, <2>5, <2>8 DEF MigrationInv
<1>3. CASE RestartWorker
  <2>1. UNCHANGED <<stored, Current, Outdated>>
    BY <1>3, Restarted
  <2>2. /\ \A i \in DOMAIN requests' :
             \/ requests'[i].op = "get"
             \/ i \in DOMAIN requests /\ requests'[i] = requests[i]
        /\ \A i \in DOMAIN requests, k \in DOMAIN requests' : k < i => k \in DOMAIN requests
    BY <1>3, Restarted
  <2> QED BY <2>1, <2>2 DEF MigrationInv
<1> QED BY <1>1, <1>2, <1>3

LEMMA BaseStep == BaseInv /\ [Next]_vars => BaseInv'
<1> SUFFICES ASSUME BaseInv, [Next]_vars PROVE BaseInv'
  OBVIOUS
<1>1. CASE \E h \in Handlers, port \in Ports :
             Poll(h) \/ Click(h) \/ AlarmFires(h) \/ SubmitPort(h, port)
  <2>1. \E h \in Handlers, j \in Jobs : Begin(h, j)
    BY <1>1, Beginnings DEF BaseInv
  <2> QED BY <1>1, <2>1, TypeBegin, HandlersStep, RequestsStep, MigrationStep DEF BaseInv
<1>2. CASE Answer
  BY <1>2, TypeAnswer, HandlersStep, RequestsStep, MigrationStep DEF BaseInv
<1>3. CASE RestartWorker
  BY <1>3, TypeRestart, HandlersStep, RequestsStep, MigrationStep DEF BaseInv
<1>4. CASE UNCHANGED vars
  <2>1. UNCHANGED <<Current, Outdated>>
    BY <1>4 DEF vars, Current, Outdated
  <2> QED BY <1>4, <2>1
          DEF vars, BaseInv, TypeInv, HandlersInv, RequestsInv, MigrationInv, AwaitsAnswer
<1>5. \A h \in Handlers : Poll(h) \/ Click(h) \/ AlarmFires(h) =>
        \E port \in Ports : Poll(h) \/ Click(h) \/ AlarmFires(h) \/ SubmitPort(h, port)
  BY ActiveStateConstants
<1> QED BY <1>1, <1>2, <1>3, <1>4, <1>5 DEF Next, Answer

-----------------------------------------------------------------------------
(* What an answer makes of the queue and of the handler.                   *)

\* Every request moves one place ahead; the one at L, if any, is new.
Advances(q, L) ==
  /\ q = requests[1] /\ 1 \in DOMAIN requests /\ q.by \in AllHandlers
  /\ DOMAIN requests = 1 .. L /\ DOMAIN requests' \subseteq 1 .. L
  /\ \A i \in DOMAIN requests' : i < L =>
       i + 1 \in DOMAIN requests /\ requests'[i] = requests[i + 1] /\ requests'[i].by # q.by
  /\ \A i \in DOMAIN requests : i > 1 =>
       i - 1 \in DOMAIN requests' /\ i - 1 < L /\ requests'[i - 1] = requests[i]
  /\ \A h \in AllHandlers : h # q.by => pc'[h] = pc[h]

Executes(q) ==
  /\ UNCHANGED <<job, wanted, settled, restarts>>
  /\ Current' = IF q.op = "set" THEN q.value ELSE Current
  /\ Outdated' => Outdated
  /\ q.op = "get" => (Outdated' <=> Outdated)
  /\ q.op = "set" => ~Outdated

Ends(q, L) == L \notin DOMAIN requests' /\ pc'[q.by] = "done"

Asks(q, L, op, v) ==
  /\ L \in DOMAIN requests' /\ requests'[L].by = q.by
  /\ requests'[L].op = op /\ requests'[L].value = v
  /\ pc' = pc /\ UNCHANGED <<connection, popup>>

Rereads(q, L) ==
  /\ L \in DOMAIN requests' /\ requests'[L].by = q.by /\ requests'[L].op = "get"
  /\ pc'[q.by] = "responding" /\ UNCHANGED popup

\* What the handler of q does when its read returns v.
GoesOn(q, L, v) ==
  \/ /\ pc[q.by] = "reading" /\ job[q.by].kind = "setState"
     /\ Asks(q, L, "set", State(job[q.by].arg.isActive, v.port))
  \/ /\ pc[q.by] = "reading" /\ job[q.by].kind = "setPort" /\ ~v.isActive
     /\ Asks(q, L, "set", State(v.isActive, job[q.by].arg.port))
  \/ /\ pc[q.by] = "reading" /\ job[q.by].kind = "setPort" /\ v.isActive
     /\ Rereads(q, L) /\ UNCHANGED connection
  \/ /\ pc[q.by] = "reading" /\ job[q.by].kind = "alarm" /\ Ends(q, L) /\ UNCHANGED popup
     /\ alarm' = (alarm /\ v.isActive) /\ maintained' = (maintained \/ v.isActive)
  \/ /\ pc[q.by] = "reading" /\ job[q.by].kind = "startup" /\ Ends(q, L) /\ UNCHANGED popup
     /\ alarm' = v.isActive /\ maintained' = (maintained \/ v.isActive)
  \/ pc[q.by] = "responding" /\ Ends(q, L) /\ Show(v) /\ UNCHANGED connection

Outcome(q, L) ==
  \/ /\ pc[q.by] = "dead" /\ L \notin DOMAIN requests' /\ pc' = pc
     /\ UNCHANGED <<connection, popup>>
  \/ /\ AwaitsAnswer(q.by) /\ q.op = "get" /\ Outdated
     /\ \E op \in {"migrate", "migrateLegacy"} : Asks(q, L, op, Current)
  \/ /\ AwaitsAnswer(q.by) /\ q.op = "migrateLegacy" /\ q.value = Current
     /\ Asks(q, L, "remove", Current)
  \/ /\ pc[q.by] = "reading" /\ q.op = "set" /\ Rereads(q, L)
     /\ \/ job[q.by].kind = "setState" /\ Switch(q.value.isActive)
        \/ job[q.by].kind = "setPort" /\ UNCHANGED connection
  \/ /\ AwaitsAnswer(q.by) /\ q.op \in {"get", "migrate", "remove"} /\ ~Outdated'
     /\ \E v \in ValidStates : v = (IF q.op = "remove" THEN q.value ELSE Current)
                               /\ GoesOn(q, L, v)

LEMMA Outcomes ==
  ASSUME BaseInv, Answer
  PROVE  \E q \in Requests, L \in Nat \ {0} : Advances(q, L) /\ Executes(q) /\ Outcome(q, L)
<1>1. PICK q \in Requests, L \in Nat \ {0} : Advances(q, L)
  BY Shifting DEF Advances
<1>2. /\ Executes(q) /\ requests # <<>>
      /\ \/ Dropped(q)
         \/ pc[q.by] # "dead" /\ (Migrates(q) \/ Removes(q) \/ Sets(q))
         \/ pc[q.by] # "dead" /\ \E v \in ValidStates : Returns(q, v)
  BY <1>1, Answering DEF Advances, Executes
<1>3. /\ requests \in Seq(Requests) /\ q.by \in AllHandlers /\ q.value \in ValidStates
      /\ pc \in [AllHandlers -> {"idle", "reading", "responding", "done", "dead"}]
      /\ 1 \in DOMAIN requests /\ q = requests[1] /\ Current \in ValidStates
  BY <1>1, CurrentTyped DEF BaseInv, TypeInv, Requests, Advances
<1>4. /\ pc[q.by] \in {"reading", "responding", "dead"}
      /\ q.op = "set" => job[q.by].kind \in {"setState", "setPort"} /\ pc[q.by] # "responding"
      /\ q.op \in {"migrate", "migrateLegacy"} => q.value = Current
  BY <1>3 DEF BaseInv, RequestsInv, MigrationInv
<1>5. L = Len(requests)
  BY <1>1, <1>3, LenProperties DEF Advances
<1>6. ASSUME requests' = Tail(requests) PROVE L \notin DOMAIN requests'
  <2>1. DOMAIN requests' = 1 .. L - 1
    BY <1>2, <1>3, <1>5, <1>6, HeadTailProperties, LenProperties
  <2> QED BY <2>1
<1>7. ASSUME NEW op \in {"get", "migrate", "migrateLegacy", "remove", "set"}, NEW v \in ValidStates,
             requests' = Append(Tail(requests), Request(q.by, op, v))
      PROVE  /\ L \in DOMAIN requests' /\ requests'[L].by = q.by
             /\ requests'[L].op = op /\ requests'[L].value = v
  <2>1. Request(q.by, op, v) \in Requests
    BY <1>3, RequestTyped
  <2>2. L \in DOMAIN requests' /\ requests'[L] = Request(q.by, op, v)
    BY <1>2, <1>3, <1>5, <1>7, <2>1, Requeueing
  <2> QED BY <2>2 DEF Request
<1>8. ASSUME ReadResponse(q.by, Tail(requests)) PROVE Rereads(q, L)
  <2>1. requests' = Append(Tail(requests), Request(q.by, "get", DefaultState))
    BY <1>8 DEF ReadResponse, Get
  <2>2. L \in DOMAIN requests' /\ requests'[L].by = q.by /\ requests'[L].op = "get"
    BY <1>7, <2>1, StatesTyped
  <2> QED BY <1>3, <1>8, <2>2 DEF Rereads, ReadResponse
<1>9. ASSUME NEW op \in {"migrate", "migrateLegacy", "remove", "set"}, NEW v \in ValidStates,
             Ask(Request(q.by, op, v), Tail(requests))
      PROVE  Asks(q, L, op, v)
  BY <1>7, <1>9 DEF Ask, Asks
<1>10. CASE Dropped(q)
  BY <1>1, <1>2, <1>6, <1>10 DEF Dropped, Outcome
<1>11. CASE pc[q.by] # "dead" /\ Migrates(q)
  <2>1. PICK op \in {"migrate", "migrateLegacy"} :
          Ask(Request(q.by, op, Current), Tail(requests)) /\ q.op = "get" /\ Outdated
    BY <1>11 DEF Migrates, Ask
  <2>2. Asks(q, L, op, Current)
    BY <1>3, <1>9, <2>1
  <2> QED BY <1>1, <1>2, <1>4, <1>11, <2>1, <2>2 DEF Outcome, AwaitsAnswer
<1>12. CASE pc[q.by] # "dead" /\ Removes(q)
  <2>1. Ask(Request(q.by, "remove", Current), Tail(requests)) /\ q.op = "migrateLegacy"
    BY <1>4, <1>12 DEF Removes, Ask
  <2>2. Asks(q, L, "remove", Current)
    BY <1>3, <1>9, <2>1
  <2> QED BY <1>1, <1>2, <1>4, <1>12, <2>1, <2>2 DEF Outcome, AwaitsAnswer
<1>13. CASE pc[q.by] # "dead" /\ Sets(q)
  <2>1. Rereads(q, L)
    BY <1>8, <1>13 DEF Sets, HasSet
  <2>2. pc[q.by] = "reading"
    BY <1>4, <1>13 DEF Sets
  <2> QED BY <1>1, <1>2, <1>13, <2>1, <2>2 DEF Outcome, Sets, HasSet
<1>14. ASSUME pc[q.by] # "dead", NEW v \in ValidStates, Returns(q, v) PROVE GoesOn(q, L, v)
  <2>1. CASE pc[q.by] = "responding" /\ HasReadResponse(q.by, v, Tail(requests))
    BY <1>3, <1>6, <2>1 DEF HasReadResponse, Finish, GoesOn, Ends
  <2>2. CASE pc[q.by] = "reading" /\ HasReadForSetState(q.by, v, Tail(requests))
    <3>1. State(job[q.by].arg.isActive, v.port) \in ValidStates
      <4>1. job[q.by].arg \in States
        BY <1>3, JobsTyped DEF BaseInv
      <4> QED BY <4>1 DEF State, States, ValidStates
    <3>2. Asks(q, L, "set", State(job[q.by].arg.isActive, v.port))
      BY <1>9, <2>2, <3>1 DEF HasReadForSetState
    <3> QED BY <2>2, <3>2 DEF GoesOn, HasReadForSetState
  <2>3. CASE pc[q.by] = "reading" /\ HasReadForSetPort(q.by, v, Tail(requests))
    <3>1. job[q.by].arg.port \in ValidPorts /\ job[q.by].kind = "setPort"
      BY <1>3, <2>3, JobsTyped DEF BaseInv, HasReadForSetPort
    <3>2. CASE ~v.isActive
      <4>1. State(v.isActive, job[q.by].arg.port) \in ValidStates
        BY <3>1 DEF State, ValidStates
      <4>2. Asks(q, L, "set", State(v.isActive, job[q.by].arg.port))
        BY <1>9, <2>3, <3>1, <3>2, <4>1 DEF HasReadForSetPort
      <4> QED BY <2>3, <3>1, <3>2, <4>2 DEF GoesOn
    <3>3. CASE v.isActive
      <4>1. Rereads(q, L) /\ UNCHANGED connection
        BY <1>8, <2>3, <3>3 DEF HasReadForSetPort, Refuse
      <4> QED BY <2>3, <3>1, <3>3, <4>1 DEF GoesOn
    <3> QED BY <3>2, <3>3
  <2>4. CASE pc[q.by] = "reading" /\ HasReadForAlarm(q.by, v, Tail(requests))
    BY <1>3, <1>6, <2>4 DEF HasReadForAlarm, Finish, GoesOn, Ends
  <2>5. CASE pc[q.by] = "reading" /\ HasReadForStartup(q.by, v, Tail(requests))
    BY <1>3, <1>6, <2>5 DEF HasReadForStartup, Finish, GoesOn, Ends
  <2> QED BY <1>14, <2>1, <2>2, <2>3, <2>4, <2>5 DEF Returns, HasRead
<1>15. ASSUME pc[q.by] # "dead", NEW v \in ValidStates, Returns(q, v) PROVE Outcome(q, L)
  <2>1. GoesOn(q, L, v)
    BY <1>14, <1>15
  <2>2. /\ q.op \in {"get", "migrate", "remove"} /\ ~Outdated'
        /\ v = (IF q.op = "remove" THEN q.value ELSE Current)
    BY <1>15 DEF Returns
  <2> QED BY <1>4, <1>15, <2>1, <2>2 DEF Outcome, AwaitsAnswer
<1> QED BY <1>1, <1>2, <1>10, <1>11, <1>12, <1>13, <1>15

\* Every variable of the stored state, its handlers and the popup has its type.
THEOREM StateTypes == Spec => []TypeOK
<1>1. BaseInv => TypeOK
  BY RequestsTyped DEF BaseInv, TypeInv, TypeOK, Requests
<1> QED BY <1>1, BaseInit, BaseStep, PTL DEF Spec

\* What a read returns changes only when a handler writes what the popup asked for
\* (StateManager.ts:23-59).
THEOREM MigrationsKeepState == Spec => MigrationKeepsState
<1>1. BaseInv /\ [Next]_vars => [Current' # Current => Head(requests).op = "set"]_vars
  <2> SUFFICES ASSUME BaseInv, Next, Current' # Current PROVE Head(requests).op = "set"
    OBVIOUS
  <2>1. CASE Answer
    BY <2>1, Answering
  <2>2. CASE RestartWorker
    BY <2>2, Restarted
  <2>3. CASE \E h \in Handlers, port \in Ports :
               Poll(h) \/ Click(h) \/ AlarmFires(h) \/ SubmitPort(h, port)
    BY <2>3 DEF Poll, Click, AlarmFires, SubmitPort, Begin, Current
  <2>4. \A h \in Handlers : Poll(h) \/ Click(h) \/ AlarmFires(h) =>
          \E port \in Ports : Poll(h) \/ Click(h) \/ AlarmFires(h) \/ SubmitPort(h, port)
    BY ActiveStateConstants
  <2> QED BY <2>1, <2>2, <2>3, <2>4 DEF Next, Answer
<1> QED BY <1>1, BaseInit, BaseStep, PTL DEF Spec, MigrationKeepsState

-----------------------------------------------------------------------------
(* What the popup shows.                                                   *)

\* A request keeps what it will do for the popup while others are answered.
LEMMA StillToCome ==
  ASSUME BaseInv, NEW q \in Requests, NEW L \in Nat \ {0}, Advances(q, L), Executes(q),
         NEW j \in DOMAIN requests, j > 1
  PROVE  /\ j - 1 \in DOMAIN requests' /\ j - 1 < L
         /\ Changing(j) => Changing(j - 1)'
         /\ Showing(j) /\ q.op # "set" => Showing(j - 1)'
<1>1. /\ j - 1 \in DOMAIN requests' /\ j - 1 < L /\ requests'[j - 1] = requests[j]
      /\ requests[j].by \in AllHandlers
  BY RequestsTyped DEF Advances, BaseInv, Requests
<1>2. requests[j].by # q.by
  BY DEF Advances, BaseInv, RequestsInv
<1>3. pc'[requests[j].by] = pc[requests[j].by] /\ job' = job
  BY <1>1, <1>2 DEF Advances, Executes
<1>4. q.op # "set" => Current' = Current
  BY DEF Executes
<1> QED BY <1>1, <1>3, <1>4 DEF Changing, Showing, OfPopup

\* A popup that is not up to date will be: a step that is not a write leaves a request
\* that changes what it shows, or shows what is stored.
LEMMA PopupAnswer ==
  ASSUME BaseInv, PopupInv, Answer
  PROVE  PopupInv'
<1> SUFFICES ASSUME restarts' = 0 PROVE PopupInv'
  BY DEF PopupInv
<1>1. PICK q \in Requests, L \in Nat \ {0} : Advances(q, L) /\ Executes(q) /\ Outcome(q, L)
  BY Outcomes
<1>2. /\ restarts = 0 /\ q.by \in AllHandlers /\ pc[q.by] # "dead" /\ job' = job
      /\ pc[q.by] \in {"reading", "responding"}
      /\ 1 \in DOMAIN requests /\ q = requests[1]
      /\ DOMAIN requests = 1 .. L /\ DOMAIN requests' \subseteq 1 .. L
  BY <1>1 DEF Advances, Executes, BaseInv, HandlersInv, RequestsInv
<1>3. /\ \A i \in DOMAIN requests : Outran(i) =>
           \/ \E j \in DOMAIN requests : j > i /\ Showing(j)
           \/ \E j \in DOMAIN requests : Changing(j)
      /\ latestState # Absent /\ ~Fresh => \E j \in DOMAIN requests : Changing(j) \/ Showing(j)
  BY <1>2 DEF PopupInv
<1>4. CASE q.op = "set"
  <2>1. /\ Rereads(q, L) /\ job[q.by].kind \in {"setState", "setPort"} /\ UNCHANGED popup
    BY <1>1, <1>2, <1>4 DEF Outcome, Rereads
  <2>2. Showing(L)' /\ L \in DOMAIN requests'
    BY <1>2, <2>1 DEF Rereads, Showing, OfPopup, PopupKinds
  <2>3. \A i \in DOMAIN requests' : i < L \/ i = L
    BY <1>2
  <2>4. ~Outran(L)'
    BY <2>2 DEF Outran
  <2> QED BY <2>2, <2>3, <2>4 DEF PopupInv
<1>5. CASE q.op # "set"
  <2>1. Current' = Current
    BY <1>1, <1>5 DEF Executes
  <2>2. ASSUME Changing(1) PROVE L \in DOMAIN requests' /\ (Changing(L)' \/ Showing(L)')
    <3>1. pc[q.by] = "reading" /\ job[q.by].kind \in PopupKinds
      BY <1>2, <2>2 DEF Changing, OfPopup
    <3>2. CASE \E op, v : Asks(q, L, op, v)
      BY <1>2, <3>1, <3>2 DEF Asks, Changing, OfPopup
    <3>3. CASE Rereads(q, L)
      BY <1>2, <3>1, <3>3 DEF Rereads, Showing, OfPopup
    <3> QED BY <1>1, <1>5, <3>1, <3>2, <3>3 DEF Outcome, GoesOn, PopupKinds
  <2>3. ASSUME NEW i \in DOMAIN requests', Outran(i)'
        PROVE  \/ \E j \in DOMAIN requests' : j > i /\ Showing(j)'
               \/ \E j \in DOMAIN requests' : Changing(j)'
    <3>1. CASE i = L
      <4>1. requests'[L].by = q.by /\ requests'[L].op = "remove" /\ requests'[L].value # Current
        BY <1>1, <1>2, <2>1, <2>3, <3>1
        DEF Outran, Showing, OfPopup, Outcome, GoesOn, Asks, Rereads, Ends
      <4> QED BY <1>1, <1>2, <1>5, <2>3, <3>1, <4>1 DEF Outcome, GoesOn, Asks, Rereads, Ends
    <3>2. CASE i < L
      <4>1. /\ i + 1 \in DOMAIN requests /\ requests'[i] = requests[i + 1]
            /\ requests[i + 1].by # q.by /\ requests[i + 1].by \in AllHandlers /\ i \in Nat
        BY <1>1, <1>2, <3>2, RequestsTyped DEF Advances, BaseInv, Requests
      <4>2. Outran(i + 1)
        <5>1. pc'[requests[i + 1].by] = pc[requests[i + 1].by]
          BY <1>1, <4>1 DEF Advances
        <5> QED BY <1>2, <2>1, <2>3, <4>1, <5>1 DEF Outran, Showing, OfPopup
      <4>3. CASE \E j \in DOMAIN requests : j > i + 1 /\ Showing(j)
        <5>1. PICK j \in DOMAIN requests : j > i + 1 /\ Showing(j)
          BY <4>3
        <5>2. j - 1 \in DOMAIN requests' /\ Showing(j - 1)' /\ j - 1 > i
          BY <1>1, <1>2, <1>5, <4>1, <5>1, StillToCome
        <5> QED BY <5>2
      <4>4. CASE \E j \in DOMAIN requests : Changing(j)
        <5>1. PICK j \in DOMAIN requests : Changing(j)
          BY <4>4
        <5>2. CASE j = 1
          BY <2>2, <3>2, <5>1, <5>2
        <5>3. CASE j > 1
          BY <1>1, <5>1, <5>3, StillToCome
        <5> QED BY <1>2, <5>2, <5>3
      <4> QED BY <1>3, <4>1, <4>2, <4>3, <4>4
    <3> QED BY <1>2, <3>1, <3>2
  <2>4. ASSUME latestState' # Absent, ~Fresh'
        PROVE  \E j \in DOMAIN requests' : Changing(j)' \/ Showing(j)'
    <3>1. CASE UNCHANGED popup
      <4>1. PICK j \in DOMAIN requests : Changing(j) \/ Showing(j)
        <5>1. latestState # Absent /\ ~Fresh
          BY <2>1, <2>4, <3>1 DEF Fresh, popup
        <5> QED BY <1>3, <5>1
      <4>2. CASE j > 1
        BY <1>1, <1>5, <4>1, <4>2, StillToCome
      <4>3. CASE j = 1 /\ Changing(1)
        BY <2>2, <4>3
      <4>4. CASE j = 1 /\ Showing(1)
        <5>1. pc[q.by] = "responding" /\ job[q.by].kind \in PopupKinds
          BY <1>2, <4>4 DEF Showing, OfPopup
        <5>2. CASE \E op : Asks(q, L, op, Current)
          BY <1>2, <2>1, <5>1, <5>2 DEF Asks, Showing, OfPopup
        <5>3. CASE \E v \in ValidStates : /\ v = (IF q.op = "remove" THEN q.value ELSE Current)
                                          /\ Show(v)
          <6>1. q.op = "remove" => q.value = Current
            BY <1>2, <4>4 DEF Showing
          <6> QED BY <2>1, <2>4, <5>3, <6>1 DEF Show, Fresh
        <5> QED BY <1>1, <5>1, <5>2, <5>3 DEF Outcome, GoesOn
      <4> QED BY <1>2, <4>1, <4>2, <4>3, <4>4
    <3>2. CASE ~UNCHANGED popup
      <4>1. PICK v \in ValidStates :
              /\ v = (IF q.op = "remove" THEN q.value ELSE Current)
              /\ pc[q.by] = "responding" /\ Show(v)
        BY <1>1, <3>2 DEF Outcome, GoesOn, Asks, Rereads
      <4>2. q.op = "remove" /\ q.value # Current
        BY <2>1, <2>4, <4>1 DEF Show, Fresh
      <4>3. Outran(1)
        <5>1. job[q.by].kind \in PopupKinds
          BY <1>2, <4>1 DEF BaseInv, HandlersInv
        <5> QED BY <1>2, <4>1, <4>2, <5>1 DEF Outran, Showing, OfPopup
      <4>4. CASE \E j \in DOMAIN requests : j > 1 /\ Showing(j)
        BY <1>1, <1>5, <4>4, StillToCome
      <4>5. CASE \E j \in DOMAIN requests : Changing(j)
        <5>1. PICK j \in DOMAIN requests : Changing(j)
          BY <4>5
        <5>2. j # 1
          BY <1>2, <4>1, <5>1 DEF Changing
        <5> QED BY <1>1, <1>2, <5>1, <5>2, StillToCome
      <4> QED BY <1>2, <1>3, <4>3, <4>4, <4>5
    <3> QED BY <3>1, <3>2
  <2>5. restarts' = 0 =>
          /\ \A i \in DOMAIN requests' : Outran(i)' =>
               \/ \E j \in DOMAIN requests' : j > i /\ Showing(j)'
               \/ \E j \in DOMAIN requests' : Changing(j)'
          /\ latestState' # Absent /\ ~Fresh' =>
               \E j \in DOMAIN requests' : Changing(j)' \/ Showing(j)'
    BY <2>3, <2>4
  <2> QED BY <2>5 DEF PopupInv
<1> QED BY <1>4, <1>5

\* What the beginning of a handler does, apart from its first request.
LEMMA Begun ==
  ASSUME BaseInv, NEW h \in Handlers, NEW port \in Ports,
         Poll(h) \/ Click(h) \/ AlarmFires(h) \/ SubmitPort(h, port)
  PROVE  \E j \in Jobs :
           /\ Begin(h, j) /\ j.kind \in PopupKinds \cup {"alarm"}
           /\ j.kind = "alarm" => alarm
           /\ toggle' # toggle => j.kind = "setState"
           /\ j.kind \in {"getState", "alarm"} => wanted' = wanted
           /\ j.kind = "setState" => wanted'.isActive = j.arg.isActive
           /\ j.kind = "setPort" => wanted'.port = j.arg.port
           /\ UNCHANGED <<stored, legacy, connection, latestState, restarts, Current, Outdated>>
           /\ alarm' = alarm /\ maintained' = maintained
           /\ settled' = (settled /\ ~Outdated)
<1>1. \A k, a : Job(k, a).kind = k /\ Job(k, a).arg = a
  BY DEF Job
<1>2. ASSUME NEW j \in Jobs, Begin(h, j)
      PROVE  /\ UNCHANGED <<stored, legacy, connection, latestState, restarts, Current, Outdated>>
             /\ alarm' = alarm /\ maintained' = maintained
             /\ settled' = (settled /\ ~Outdated)
  BY <1>2 DEF Begin, Current, Outdated, connection
<1>3. CASE Poll(h)
  <2>1. PICK j \in Jobs : j = Job("getState", DefaultState)
    BY DEF Jobs
  <2>2. Begin(h, j) /\ j.kind = "getState" /\ UNCHANGED <<toggle, wanted>>
    BY <1>1, <1>3, <2>1 DEF Poll
  <2> QED BY <1>2, <2>2 DEF PopupKinds
<1>4. CASE AlarmFires(h)
  <2>1. PICK j \in Jobs : j = Job("alarm", DefaultState)
    BY DEF Jobs
  <2>2. Begin(h, j) /\ j.kind = "alarm" /\ UNCHANGED <<toggle, wanted>> /\ alarm
    BY <1>1, <1>4, <2>1 DEF AlarmFires
  <2> QED BY <1>2, <2>2
<1>5. CASE Click(h)
  <2>1. PICK b \in BOOLEAN : b = ~toggle
    BY DEF BaseInv, TypeInv
  <2>2. PICK s : s = State(b, DefaultPort) /\ s.isActive = b
    <3>1. State(b, DefaultPort).isActive = b
      BY DEF State
    <3> QED BY <3>1
  <2>3. PICK j \in Jobs : j = Job("setState", s)
    BY <2>2 DEF Jobs
  <2>4. Begin(h, j) /\ j.kind = "setState" /\ j.arg = s
    BY <1>1, <1>5, <2>1, <2>2, <2>3 DEF Click
  <2>5. wanted'.isActive = b
    <3>1. wanted \in States /\ wanted' = [wanted EXCEPT !.isActive = b]
      BY <1>5, <2>1 DEF Click, BaseInv, TypeInv
    <3> QED BY <3>1 DEF States
  <2> QED BY <1>2, <2>2, <2>4, <2>5 DEF PopupKinds
<1>6. CASE SubmitPort(h, port)
  <2>1. PICK s : s = State(FALSE, port) /\ s.port = port
    <3>1. State(FALSE, port).port = port
      BY DEF State
    <3> QED BY <3>1
  <2>2. PICK j \in Jobs : j = Job("setPort", s)
    BY <1>6, <2>1 DEF SubmitPort, Jobs
  <2>3. Begin(h, j) /\ j.kind = "setPort" /\ j.arg = s /\ toggle' = toggle
    BY <1>1, <1>6, <2>1, <2>2 DEF SubmitPort
  <2>4. wanted'.port = port
    <3>1. wanted \in States /\ wanted' = [wanted EXCEPT !.port = port]
      BY <1>6 DEF SubmitPort, BaseInv, TypeInv
    <3> QED BY <3>1 DEF States
  <2> QED BY <1>2, <2>1, <2>3, <2>4 DEF PopupKinds
<1> QED BY <1>3, <1>4, <1>5, <1>6

LEMMA PopupBegin ==
  ASSUME BaseInv, PopupInv, NEW h \in Handlers, NEW port \in Ports,
         Poll(h) \/ Click(h) \/ AlarmFires(h) \/ SubmitPort(h, port)
  PROVE  PopupInv'
<1>1. PICK j \in Jobs :
        /\ Begin(h, j)
        /\ toggle' # toggle => j.kind = "setState"
        /\ UNCHANGED <<latestState, restarts, Current>>
  BY Begun
<1>2. PICK n \in Nat \ {0} :
        /\ pc[h] = "idle" /\ h \in AllHandlers
        /\ pc'[h] = IF j.kind = "getState" THEN "responding" ELSE "reading"
        /\ job'[h] = j
        /\ \A g \in AllHandlers : g # h => pc'[g] = pc[g] /\ job'[g] = job[g]
        /\ DOMAIN requests = 1 .. n - 1 /\ DOMAIN requests' = 1 .. n
        /\ \A i \in DOMAIN requests : requests'[i] = requests[i]
        /\ requests'[n].by = h /\ requests'[n].op = "get"
  <2>1. PICK n : n = Len(requests) + 1
    OBVIOUS
  <2>2. Len(requests) \in Nat /\ n \in Nat \ {0} /\ Len(requests) = n - 1
    BY <1>1, <2>1, Began DEF BaseInv
  <2> QED BY <1>1, <2>1, <2>2, Began DEF BaseInv
<1>3. \A i \in DOMAIN requests : requests[i].by # h /\ requests[i].by \in AllHandlers
  BY <1>2, RequestsTyped DEF BaseInv, RequestsInv, Requests
<1>4. \A i \in DOMAIN requests :
        i \in DOMAIN requests' /\ (Changing(i)' <=> Changing(i)) /\ (Showing(i)' <=> Showing(i))
                               /\ (Outran(i)' <=> Outran(i))
  BY <1>1, <1>2, <1>3 DEF Changing, Showing, Outran, OfPopup
<1>5. \A i \in DOMAIN requests' : i \in DOMAIN requests \/ i = n
  BY <1>2
<1>6. ~Outran(n)'
  BY <1>2 DEF Outran, Showing
<1>7. CASE j.kind = "setState"
  <2>1. Changing(n)' /\ n \in DOMAIN requests'
    BY <1>2, <1>7 DEF Changing, OfPopup, PopupKinds
  <2> QED BY <1>1, <1>4, <1>5, <1>6, <2>1 DEF PopupInv
<1>8. CASE j.kind # "setState"
  <2>1. Fresh' <=> Fresh
    BY <1>1, <1>8 DEF Fresh
  <2> QED BY <1>1, <1>4, <1>5, <1>6, <2>1 DEF PopupInv
<1> QED BY <1>7, <1>8

LEMMA PopupStep == BaseInv /\ PopupInv /\ [Next]_vars => PopupInv'
<1> SUFFICES ASSUME BaseInv, PopupInv, [Next]_vars PROVE PopupInv'
  OBVIOUS
<1>1. CASE UNCHANGED vars
  BY <1>1 DEF vars, PopupInv, Outran, Showing, Changing, OfPopup, Fresh, Current
<1>2. CASE RestartWorker
  <2>1. restarts' # 0
    BY <1>2, Restarted
  <2> QED BY <2>1 DEF PopupInv
<1>3. \A h \in Handlers : Poll(h) \/ Click(h) \/ AlarmFires(h) =>
        \E port \in Ports : Poll(h) \/ Click(h) \/ AlarmFires(h) \/ SubmitPort(h, port)
  BY ActiveStateConstants
<1> QED BY <1>1, <1>2, <1>3, PopupAnswer, PopupBegin DEF Next, Answer

LEMMA PopupInit == Init => PopupInv
<1> SUFFICES ASSUME Init PROVE PopupInv
  OBVIOUS
<1>1. DOMAIN requests = {1} /\ requests[1] = Get(0) /\ Get(0).op = "get"
  BY DEF Init, Get, Request
<1>2. \A i \in DOMAIN requests : ~Outran(i)
  BY <1>1 DEF Outran, Showing
<1> QED BY <1>2 DEF Init, PopupInv

\* Unless the worker died, a popup whose messages are all answered shows the stored
\* state (background.ts:60-111, popup/main.ts:23-86).
THEOREM PopupIsFresh == Spec => []PopupShowsStored
<1>1. PopupInv => PopupShowsStored
  BY DEF PopupInv, PopupShowsStored, AtRest, Fresh
<1> QED BY <1>1, BaseInit, BaseStep, PopupInit, PopupStep, PTL DEF Spec

-----------------------------------------------------------------------------
(* The last click and the last port.                                       *)

\* Who waits for the first request, while no worker has died.
LEMMA FirstBy ==
  ASSUME BaseInv, restarts = 0, NEW q \in Requests, NEW L, Advances(q, L)
  PROVE  /\ q.by \in Handlers \/ (q.by = 0 /\ 0 \notin Handlers)
         /\ pc[q.by] \in {"reading", "responding"}
         /\ q.op = "set" => q.by \in Handlers
<1>1. 1 \in DOMAIN requests /\ q = requests[1] /\ q.by \in AllHandlers
  BY DEF Advances
<1>2. /\ pc[q.by] \in {"reading", "responding"}
      /\ q.op = "set" => job[q.by].kind \in {"setState", "setPort"}
  BY <1>1 DEF BaseInv, HandlersInv, RequestsInv
<1>3. ASSUME q.by \notin Handlers PROVE q.by = 0 /\ q.op # "set" /\ 0 \notin Handlers
  <2>1. q.by \in 0 .. MaxRestarts
    BY <1>1, <1>3 DEF AllHandlers
  <2>2. q.by = 0
    BY <1>2, <2>1, ActiveStateConstants DEF BaseInv, HandlersInv
  <2>3. job[q.by].kind = "startup"
    BY <2>1 DEF BaseInv, HandlersInv, StartupJob, Job
  <2> QED BY <1>2, <1>3, <2>2, <2>3
<1> QED BY <1>2, <1>3

LEMMA SettledStep == BaseInv /\ SettledInv /\ [Next]_vars => SettledInv'
<1> SUFFICES ASSUME BaseInv, SettledInv, [Next]_vars, restarts' = 0, settled' PROVE SettledInv'
  BY DEF SettledInv
<1>1. CASE UNCHANGED vars
  BY <1>1 DEF vars, SettledInv, Current, Outdated
<1>2. ASSUME NEW h \in Handlers, NEW port \in Ports,
             Poll(h) \/ Click(h) \/ AlarmFires(h) \/ SubmitPort(h, port)
      PROVE  SettledInv'
  <2>1. PICK j \in Jobs :
          /\ Begin(h, j)
          /\ UNCHANGED <<restarts, Current, Outdated>>
          /\ settled' = (settled /\ ~Outdated)
    BY <1>2, Begun
  <2>2. restarts = 0 /\ settled /\ ~Outdated'
    BY <2>1
  <2>3. pc'[h] # "idle"
    BY <2>1, Began DEF BaseInv
  <2>4. \A i \in DOMAIN requests' : \/ requests'[i].op = "get"
                                    \/ i \in DOMAIN requests /\ requests'[i] = requests[i]
    BY <2>1, Began DEF BaseInv
  <2> QED BY <2>1, <2>2, <2>3, <2>4 DEF SettledInv
<1>3. CASE Answer
  <2>1. PICK q \in Requests, L \in Nat \ {0} : Advances(q, L) /\ Executes(q) /\ Outcome(q, L)
    BY <1>3, Outcomes
  <2>2. /\ restarts = 0 /\ settled /\ wanted' = wanted
        /\ \A i \in DOMAIN requests' : i < L \/ i = L
        /\ Outdated' => Outdated
        /\ q.op = "get" => (Outdated' <=> Outdated)
        /\ q.op # "set" => Current' = Current
    BY <2>1 DEF Advances, Executes
  <2>3. /\ q.by \in Handlers \/ (q.by = 0 /\ 0 \notin Handlers)
        /\ pc[q.by] \in {"reading", "responding"}
        /\ q.op = "set" => q.by \in Handlers
    BY <2>1, <2>2, FirstBy
  <2>4. \A h \in Handlers : pc'[h] # "idle" => pc[h] # "idle"
    <3>1. Handlers \subseteq AllHandlers
      BY DEF AllHandlers
    <3> QED BY <2>1, <2>3, <3>1 DEF Advances
  <2>5. \A h \in Handlers : pc[h] # "idle" => pc'[h] # "idle"
    <3>1. pc'[q.by] # "idle"
      BY <2>1, <2>3 DEF Outcome, GoesOn, Asks, Rereads, Ends
    <3>2. Handlers \subseteq AllHandlers
      BY DEF AllHandlers
    <3> QED BY <2>1, <3>1, <3>2 DEF Advances
  <2>6. \A i \in DOMAIN requests' : i < L =>
          i + 1 \in DOMAIN requests /\ requests'[i] = requests[i + 1] /\ requests'[i].by # q.by
    BY <2>1 DEF Advances
  <2>7. Outdated => q.by = 0 /\ \A h \in Handlers : pc[h] = "idle"
    BY <2>2, <2>3 DEF SettledInv
  <2>8. ASSUME NEW i \in DOMAIN requests', requests'[i].op \in {"migrate", "migrateLegacy"}
        PROVE  Outdated'
    <3>1. CASE i < L
      <4>1. Outdated
        BY <2>2, <2>6, <2>8, <3>1 DEF SettledInv
      <4>2. requests[i + 1].by \in AllHandlers /\ pc[requests[i + 1].by] # "idle"
        BY <2>6, <3>1, RequestsTyped DEF BaseInv, RequestsInv, Requests
      <4>3. requests[i + 1].by = 0
        <5>1. requests[i + 1].by \in 0 .. MaxRestarts
          BY <2>7, <4>1, <4>2 DEF AllHandlers
        <5> QED BY <2>2, <4>2, <5>1 DEF BaseInv, HandlersInv
      <4> QED BY <2>6, <2>7, <3>1, <4>1, <4>3
    <3>2. CASE i = L
      <4>1. q.op = "get" /\ Outdated
        BY <2>1, <2>3, <2>8, <3>2 DEF Outcome, GoesOn, Asks, Rereads, Ends
      <4> QED BY <2>2, <4>1
    <3> QED BY <2>2, <3>1, <3>2
  <2>9. ASSUME NEW i \in DOMAIN requests', requests'[i].op = "remove" PROVE requests'[i].by = 0
    <3>1. CASE i < L
      BY <2>2, <2>6, <2>9, <3>1 DEF SettledInv
    <3>2. CASE i = L
      <4>1. q.op = "migrateLegacy" /\ requests'[i].by = q.by
        BY <2>1, <2>3, <2>9, <3>2 DEF Outcome, GoesOn, Asks, Rereads, Ends
      <4>2. Outdated
        BY <2>1, <2>2, <4>1 DEF SettledInv, Advances
      <4> QED BY <2>7, <4>1, <4>2
    <3> QED BY <2>2, <3>1, <3>2
  <2>10. (\E h \in Handlers : pc'[h] # "idle") => ~Outdated'
    BY <2>2, <2>4 DEF SettledInv
  <2>11. (\A h \in Handlers : pc'[h] = "idle") => wanted' = Current'
    <3> SUFFICES ASSUME \A h \in Handlers : pc'[h] = "idle" PROVE wanted' = Current'
      OBVIOUS
    <3>1. \A h \in Handlers : pc[h] = "idle"
      BY <2>5
    <3>2. q.op # "set"
      BY <2>3, <3>1
    <3> QED BY <2>2, <3>1, <3>2 DEF SettledInv
  <2> QED BY <2>8, <2>9, <2>10, <2>11 DEF SettledInv
<1>4. CASE RestartWorker
  BY <1>4, Restarted
<1>5. \A h \in Handlers : Poll(h) \/ Click(h) \/ AlarmFires(h) =>
        \E port \in Ports : Poll(h) \/ Click(h) \/ AlarmFires(h) \/ SubmitPort(h, port)
  BY ActiveStateConstants
<1> QED BY <1>1, <1>2, <1>3, <1>4, <1>5 DEF Next, Answer

LEMMA LastBegin ==
  ASSUME BaseInv, NEW kind \in {"setState", "setPort"}, LastWins(kind),
         NEW h \in Handlers, NEW port \in Ports,
         Poll(h) \/ Click(h) \/ AlarmFires(h) \/ SubmitPort(h, port)
  PROVE  LastWins(kind)'
<1> SUFFICES ASSUME restarts' = 0, settled', None(OtherKind(kind))'
             PROVE  /\ kind = "setPort" => \A i \in Writes' :
                           ~requests'[i].value.isActive /\ ~Current'.isActive
                    /\ (kind = "setPort" /\ Current'.isActive) \/ LastAsWanted(kind)'
  BY DEF LastWins
<1>1. PICK j \in Jobs :
        /\ Begin(h, j) /\ j.kind \in PopupKinds \cup {"alarm"}
        /\ j.kind \in {"getState", "alarm"} => wanted' = wanted
        /\ j.kind = "setState" => wanted'.isActive = j.arg.isActive
        /\ j.kind = "setPort" => wanted'.port = j.arg.port
        /\ UNCHANGED <<restarts, Current>>
        /\ settled' = (settled /\ ~Outdated)
  BY Begun
<1>2. PICK n \in Nat \ {0} :
        /\ pc[h] = "idle" /\ h \in AllHandlers
        /\ pc'[h] = IF j.kind = "getState" THEN "responding" ELSE "reading"
        /\ job'[h] = j
        /\ \A g \in AllHandlers : g # h => pc'[g] = pc[g] /\ job'[g] = job[g]
        /\ DOMAIN requests = 1 .. n - 1 /\ DOMAIN requests' = 1 .. n
        /\ \A i \in DOMAIN requests : requests'[i] = requests[i]
        /\ requests'[n].by = h /\ requests'[n].op = "get"
  <2>1. PICK n : n = Len(requests) + 1
    OBVIOUS
  <2>2. Len(requests) \in Nat /\ n \in Nat \ {0} /\ Len(requests) = n - 1
    BY <1>1, <2>1, Began DEF BaseInv
  <2> QED BY <1>1, <2>1, <2>2, Began DEF BaseInv
<1>3. \A i \in DOMAIN requests : requests[i].by # h /\ requests[i].by \in AllHandlers
  BY <1>2, RequestsTyped DEF BaseInv, RequestsInv, Requests
<1>4. \A i \in DOMAIN requests : /\ pc'[requests'[i].by] = pc[requests[i].by]
                                 /\ job'[requests'[i].by] = job[requests[i].by]
                                 /\ requests'[i] = requests[i]
  BY <1>2, <1>3
<1>5. /\ \A i \in Reads(kind)' : i = n \/ i \in Reads(kind)
      /\ \A i \in Reads(kind) : i \in Reads(kind)'
      /\ n \in Reads(kind)' <=> j.kind = kind
      /\ Writes' = Writes
  BY <1>2, <1>4 DEF Reads, Writes
<1>6. None(OtherKind(kind)) /\ j.kind # OtherKind(kind)
  <2>1. job[h].kind \notin {"setState", "setPort"}
    BY <1>2 DEF BaseInv, HandlersInv, StartupJob, Job
  <2>2. Handlers \subseteq AllHandlers /\ OtherKind(kind) \in {"setState", "setPort"}
    BY DEF AllHandlers, OtherKind
  <2> QED BY <1>2, <2>1, <2>2 DEF None
<1>7. /\ kind = "setPort" => \A i \in Writes : ~requests[i].value.isActive /\ ~Current.isActive
      /\ (kind = "setPort" /\ Current.isActive) \/ LastAsWanted(kind)
  BY <1>1, <1>6 DEF LastWins
<1>8. kind = "setPort" => \A i \in Writes' : ~requests'[i].value.isActive /\ ~Current'.isActive
  BY <1>1, <1>4, <1>5, <1>7 DEF Writes
<1>9. CASE j.kind = kind
  <2>1. Field(kind, j.arg) = Field(kind, wanted')
    BY <1>1, <1>9 DEF Field
  <2>2. ASSUME NEW i \in Reads(kind)', \A k \in Reads(kind)' : k <= i
        PROVE  Field(kind, job'[requests'[i].by].arg) = Field(kind, wanted')
    <3>1. n <= i
      BY <1>5, <1>9, <2>2
    <3>2. i = n
      BY <1>2, <1>5, <3>1 DEF Reads
    <3> QED BY <1>2, <2>1, <3>2
  <2> QED BY <1>5, <1>8, <1>9, <2>2 DEF LastAsWanted
<1>10. CASE j.kind # kind
  <2>1. Reads(kind)' = Reads(kind)
    BY <1>5, <1>10
  <2>2. wanted' = wanted
    BY <1>1, <1>6, <1>10 DEF PopupKinds, OtherKind
  <2>3. LastAsWanted(kind) => LastAsWanted(kind)'
    <3>1. /\ \A i \in Reads(kind) : job'[requests'[i].by] = job[requests[i].by]
          /\ \A i \in Writes : requests'[i] = requests[i]
      BY <1>4 DEF Reads, Writes
    <3> QED BY <1>1, <1>5, <2>1, <2>2, <3>1 DEF LastAsWanted
  <2> QED BY <1>1, <1>7, <1>8, <2>3
<1> QED BY <1>9, <1>10

LEMMA LastAnswer ==
  ASSUME BaseInv, SettledInv, NEW kind \in {"setState", "setPort"}, LastWins(kind), Answer
  PROVE  LastWins(kind)'
<1> SUFFICES ASSUME restarts' = 0, settled', None(OtherKind(kind))'
             PROVE  /\ kind = "setPort" => \A i \in Writes' :
                           ~requests'[i].value.isActive /\ ~Current'.isActive
                    /\ (kind = "setPort" /\ Current'.isActive) \/ LastAsWanted(kind)'
  BY DEF LastWins
<1>1. PICK q \in Requests, L \in Nat \ {0} : Advances(q, L) /\ Executes(q) /\ Outcome(q, L)
  BY Outcomes
<1>2. /\ restarts = 0 /\ settled /\ wanted' = wanted /\ job' = job
      /\ \A i \in DOMAIN requests' : i \in 1 .. L /\ (i < L \/ i = L)
      /\ DOMAIN requests = 1 .. L /\ 1 \in DOMAIN requests /\ q = requests[1]
      /\ Current' = IF q.op = "set" THEN q.value ELSE Current
  BY <1>1 DEF Advances, Executes
<1>3. /\ q.by \in Handlers \/ (q.by = 0 /\ 0 \notin Handlers)
      /\ pc[q.by] \in {"reading", "responding"} /\ q.by \in AllHandlers
      /\ q.op = "set" => q.by \in Handlers
  BY <1>1, <1>2, FirstBy DEF Advances
<1>4. \A i \in DOMAIN requests' : i < L =>
        /\ i + 1 \in DOMAIN requests /\ requests'[i] = requests[i + 1]
        /\ pc'[requests'[i].by] = pc[requests[i + 1].by]
  <2> SUFFICES ASSUME NEW i \in DOMAIN requests', i < L
               PROVE  /\ i + 1 \in DOMAIN requests /\ requests'[i] = requests[i + 1]
                      /\ pc'[requests'[i].by] = pc[requests[i + 1].by]
    OBVIOUS
  <2>1. i + 1 \in DOMAIN requests /\ requests'[i] = requests[i + 1] /\ requests'[i].by # q.by
    BY <1>1 DEF Advances
  <2>2. requests[i + 1].by \in AllHandlers
    BY <2>1, RequestsTyped DEF BaseInv, Requests
  <2> QED BY <1>1, <2>1, <2>2 DEF Advances
<1>5. \A i \in DOMAIN requests : i > 1 =>
        /\ i - 1 \in DOMAIN requests' /\ i - 1 < L /\ requests'[i - 1] = requests[i]
        /\ pc'[requests'[i - 1].by] = pc[requests[i].by]
  <2>1. \A i \in DOMAIN requests : i > 1 =>
          i - 1 \in DOMAIN requests' /\ i - 1 < L /\ requests'[i - 1] = requests[i] /\ i - 1 + 1 = i
    BY <1>1, <1>2 DEF Advances
  <2> QED BY <1>4, <2>1
<1>6. None(OtherKind(kind)) /\ q.by \in Handlers => job[q.by].kind # OtherKind(kind)
  BY <1>2 DEF None
<1>7. /\ kind = "setPort" => \A i \in Writes : ~requests[i].value.isActive /\ ~Current.isActive
      /\ (kind = "setPort" /\ Current.isActive) \/ LastAsWanted(kind)
      /\ None(OtherKind(kind))
  BY <1>2 DEF LastWins, None
<1>8. L \notin Reads(kind)'
  BY <1>1, <1>3 DEF Reads, Outcome, GoesOn, Asks, Rereads, Ends
<1>9. /\ \A i \in Reads(kind)' : /\ i \in 1 .. L /\ i + 1 \in Reads(kind)
                                 /\ requests'[i] = requests[i + 1]
      /\ \A i \in Reads(kind) : i \in 1 .. L /\ (i > 1 => i - 1 \in Reads(kind)')
  BY <1>2, <1>4, <1>5, <1>8 DEF Reads
<1>10. /\ \A i \in Writes' : i \in 1 .. L /\ (i # L =>
              i + 1 \in Writes /\ requests'[i] = requests[i + 1])
       /\ \A i \in Writes : i \in 1 .. L /\ (i > 1 => i - 1 \in Writes')
  BY <1>2, <1>4, <1>5 DEF Writes
<1>11. LastAsWanted(kind) => \A i \in Reads(kind)' : (\A j \in Reads(kind)' : j <= i) =>
         Field(kind, job'[requests'[i].by].arg) = Field(kind, wanted')
  <2> SUFFICES ASSUME LastAsWanted(kind), NEW i \in Reads(kind)', \A j \in Reads(kind)' : j <= i
               PROVE  Field(kind, job'[requests'[i].by].arg) = Field(kind, wanted')
    OBVIOUS
  <2>1. ASSUME NEW j \in Reads(kind) PROVE j <= i + 1
    <3>1. CASE j > 1
      <4>1. j - 1 <= i /\ j \in 1 .. L /\ i \in 1 .. L
        BY <1>9, <3>1
      <4> QED BY <4>1
    <3> QED BY <1>9, <3>1
  <2> QED BY <1>2, <1>9, <2>1 DEF LastAsWanted
<1>12. ASSUME L \notin Writes', q.op # "set",
              1 \in Reads(kind) => kind = "setPort" /\ Current.isActive
       PROVE  LastAsWanted(kind) /\ ~(kind = "setPort" /\ Current.isActive) => LastAsWanted(kind)'
  <2> SUFFICES ASSUME LastAsWanted(kind), ~(kind = "setPort" /\ Current.isActive)
               PROVE  LastAsWanted(kind)'
    OBVIOUS
  <2>1. Reads(kind)' = {} => Reads(kind) = {}
    BY <1>9, <1>12
  <2>2. Writes' = {} => Writes = {}
    <3>1. 1 \notin Writes
      BY <1>2, <1>12 DEF Writes
    <3> QED BY <1>10, <3>1
  <2>3. ASSUME Reads(kind)' = {}, NEW i \in Writes', \A j \in Writes' : j <= i
        PROVE  Field(kind, requests'[i].value) = Field(kind, wanted')
    <3>1. i + 1 \in Writes /\ requests'[i] = requests[i + 1] /\ i \in 1 .. L
      BY <1>10, <1>12
    <3>2. ASSUME NEW j \in Writes PROVE j <= i + 1
      <4>1. CASE j > 1
        <5>1. j - 1 <= i /\ j \in 1 .. L
          BY <1>10, <2>3, <4>1
        <5> QED BY <3>1, <5>1
      <4> QED BY <1>10, <3>1, <4>1
    <3> QED BY <1>2, <2>1, <2>3, <3>1, <3>2 DEF LastAsWanted
  <2>4. Current' = Current
    BY <1>2, <1>12
  <2> QED BY <1>2, <1>11, <2>1, <2>2, <2>3, <2>4 DEF LastAsWanted
<1>13. ASSUME L \notin Writes', q.op # "set",
              1 \in Reads(kind) => kind = "setPort" /\ Current.isActive
       PROVE  /\ kind = "setPort" => \A i \in Writes' :
                     ~requests'[i].value.isActive /\ ~Current'.isActive
              /\ (kind = "setPort" /\ Current'.isActive) \/ LastAsWanted(kind)'
  <2>1. Current' = Current
    BY <1>2, <1>13
  <2>2. \A i \in Writes' : i + 1 \in Writes /\ requests'[i] = requests[i + 1]
    BY <1>10, <1>13
  <2> QED BY <1>7, <1>12, <1>13, <2>1, <2>2
<1>14. CASE q.op = "set"
  <2>1. /\ job[q.by].kind = kind /\ Rereads(q, L) /\ 1 \in Writes
    <3>1. Rereads(q, L) /\ job[q.by].kind \in {"setState", "setPort"}
      BY <1>1, <1>3, <1>14 DEF Outcome
    <3>2. job[q.by].kind = kind
      BY <1>3, <1>6, <1>7, <1>14, <3>1 DEF OtherKind
    <3> QED BY <1>2, <1>14, <3>1, <3>2 DEF Writes
  <2>2. L \notin Writes' /\ 1 \notin Reads(kind)
    BY <1>2, <1>14, <2>1 DEF Writes, Reads, Rereads
  <2>3. LastAsWanted(kind)
    BY <1>7, <2>1
  <2>4. Reads(kind)' = {} => Reads(kind) = {}
    BY <1>9, <2>2
  <2>5. ASSUME Reads(kind)' = {}, NEW i \in Writes', \A j \in Writes' : j <= i
        PROVE  Field(kind, requests'[i].value) = Field(kind, wanted')
    <3>1. i + 1 \in Writes /\ requests'[i] = requests[i + 1] /\ i \in 1 .. L
      BY <1>10, <2>2
    <3>2. ASSUME NEW j \in Writes PROVE j <= i + 1
      <4>1. CASE j > 1
        <5>1. j - 1 <= i /\ j \in 1 .. L
          BY <1>10, <2>5, <4>1
        <5> QED BY <3>1, <5>1
      <4> QED BY <1>10, <3>1, <4>1
    <3> QED BY <1>2, <2>3, <2>4, <2>5, <3>1, <3>2 DEF LastAsWanted
  <2>6. ASSUME Reads(kind)' = {}, Writes' = {} PROVE Field(kind, Current') = Field(kind, wanted')
    <3>1. \A j \in Writes : j <= 1
      BY <1>10, <2>6
    <3>2. Field(kind, requests[1].value) = Field(kind, wanted)
      BY <2>1, <2>3, <2>4, <2>6, <3>1 DEF LastAsWanted
    <3> QED BY <1>2, <1>14, <3>2
  <2>7. LastAsWanted(kind)'
    BY <1>11, <2>3, <2>5, <2>6 DEF LastAsWanted
  <2>8. kind = "setPort" => \A i \in Writes' : ~requests'[i].value.isActive /\ ~Current'.isActive
    <3>1. \A i \in Writes' : i + 1 \in Writes /\ requests'[i] = requests[i + 1]
      BY <1>10, <2>2
    <3> QED BY <1>2, <1>7, <1>14, <2>1, <3>1
  <2> QED BY <2>7, <2>8
<1>15. CASE q.op # "set" /\ 1 \in Reads(kind) /\ ~(kind = "setPort" /\ Current.isActive)
  <2>1. pc[q.by] = "reading" /\ job[q.by].kind = kind /\ q.op = "get" /\ Current' = Current
    BY <1>2, <1>15 DEF Reads
  <2>2. ~Outdated
    <3>1. q.by \in Handlers
      <4>1. q.by = 0 => job[q.by].kind = "startup"
        BY ActiveStateConstants DEF BaseInv, HandlersInv, StartupJob, Job
      <4> QED BY <1>3, <2>1, <4>1
    <3> QED BY <1>2, <2>1, <3>1 DEF SettledInv
  <2>3. \E b, p :
          /\ Asks(q, L, "set", State(b, p))
          /\ kind = "setState" => b = job[q.by].arg.isActive
          /\ kind = "setPort" => p = job[q.by].arg.port /\ b = Current.isActive
    BY <1>1, <1>15, <2>1, <2>2 DEF Outcome, GoesOn
  <2>4. /\ L \in Writes'
        /\ Field(kind, requests'[L].value) = Field(kind, job[q.by].arg)
        /\ kind = "setPort" => requests'[L].value.isActive = Current.isActive
    <3>1. PICK b, p :
            /\ Asks(q, L, "set", State(b, p))
            /\ kind = "setState" => b = job[q.by].arg.isActive
            /\ kind = "setPort" => p = job[q.by].arg.port /\ b = Current.isActive
      BY <2>3
    <3>2. PICK s : s = State(b, p) /\ s.isActive = b /\ s.port = p
      <4>1. State(b, p).isActive = b /\ State(b, p).port = p
        BY DEF State
      <4> QED BY <4>1
    <3>3. L \in DOMAIN requests' /\ requests'[L].op = "set" /\ requests'[L].value = s
      BY <3>1, <3>2 DEF Asks
    <3> QED BY <3>1, <3>2, <3>3 DEF Writes, Field
  <2>5. LastAsWanted(kind)
    BY <1>7, <1>15
  <2>6. ASSUME Reads(kind)' = {}, NEW i \in Writes', \A j \in Writes' : j <= i
        PROVE  Field(kind, requests'[i].value) = Field(kind, wanted')
    <3>1. L <= i /\ i \in 1 .. L
      BY <1>10, <2>4, <2>6
    <3>2. \A j \in Reads(kind) : j <= 1
      BY <1>9, <2>6
    <3>3. Field(kind, job[q.by].arg) = Field(kind, wanted)
      BY <1>2, <1>15, <2>5, <3>2 DEF LastAsWanted
    <3> QED BY <1>2, <2>4, <3>1, <3>3
  <2>7. LastAsWanted(kind)'
    BY <1>11, <2>4, <2>5, <2>6 DEF LastAsWanted
  <2>8. kind = "setPort" => \A i \in Writes' : ~requests'[i].value.isActive /\ ~Current'.isActive
    BY <1>7, <1>10, <1>15, <2>1, <2>4
  <2> QED BY <2>7, <2>8
<1>16. CASE q.op # "set" /\ (1 \in Reads(kind) => kind = "setPort" /\ Current.isActive)
  <2>1. L \notin Writes'
    <3> SUFFICES ASSUME L \in Writes' PROVE FALSE
      OBVIOUS
    <3>1. PICK v \in ValidStates :
            v = (IF q.op = "remove" THEN q.value ELSE Current)
              /\ GoesOn(q, L, v) /\ q.op \in {"get", "migrate", "remove"}
      BY <1>1, <1>3, <1>16 DEF Outcome, Asks, Rereads, Writes
    <3>2. /\ pc[q.by] = "reading" /\ job[q.by].kind \in {"setState", "setPort"}
          /\ job[q.by].kind = "setPort" => ~v.isActive
      BY <3>1 DEF GoesOn, Ends, Rereads, Writes
    <3>3. q.by \in Handlers
      <4>1. q.by = 0 => job[q.by].kind = "startup"
        BY ActiveStateConstants DEF BaseInv, HandlersInv, StartupJob, Job
      <4> QED BY <1>3, <3>2, <4>1
    <3>4. job[q.by].kind = kind
      BY <1>6, <1>7, <3>2, <3>3 DEF OtherKind
    <3>5. q.op = "get"
      <4>1. ~Outdated
        BY <1>2, <3>2, <3>3 DEF SettledInv
      <4>2. q.op \notin {"migrate", "migrateLegacy"}
        BY <1>2, <4>1 DEF SettledInv
      <4>3. q.op # "remove"
        BY <1>2, <1>3, <3>3, ActiveStateConstants DEF SettledInv
      <4> QED BY <3>1, <4>2, <4>3
    <3>6. 1 \in Reads(kind)
      BY <1>2, <3>2, <3>4, <3>5 DEF Reads
    <3> QED BY <1>16, <3>1, <3>2, <3>4, <3>5, <3>6
  <2> QED BY <1>13, <1>16, <2>1
<1> QED BY <1>14, <1>15, <1>16

LEMMA LastInit ==
  ASSUME Init, NEW kind \in {"setState", "setPort"}
  PROVE  SettledInv /\ LastWins(kind)
<1>1. DOMAIN requests = {1} /\ requests[1].by = 0 /\ requests[1].op = "get" /\ wanted = Current
  BY DEF Init, Get, Request
<1>2. job[0].kind = "startup"
  BY ActiveStateConstants DEF Init, AllHandlers, StartupJob, Job
<1>3. Reads(kind) = {} /\ Writes = {}
  BY <1>1, <1>2 DEF Reads, Writes
<1>4. \A h \in Handlers : pc[h] = "idle"
  <2>1. 0 \in 0 .. MaxRestarts
    BY ActiveStateConstants
  <2>2. \A h \in Handlers : h \in AllHandlers /\ h # 0
    BY <2>1, ActiveStateConstants DEF AllHandlers
  <2> QED BY <2>2 DEF Init
<1> QED BY <1>1, <1>3, <1>4 DEF SettledInv, LastWins, LastAsWanted

LEMMA LastStep ==
  ASSUME BaseInv, SettledInv, NEW kind \in {"setState", "setPort"}, LastWins(kind), [Next]_vars
  PROVE  LastWins(kind)'
<1>1. CASE UNCHANGED vars
  BY <1>1 DEF vars, LastWins, LastAsWanted, Reads, Writes, None, Current
<1>2. CASE RestartWorker
  <2>1. restarts' # 0
    BY <1>2, Restarted
  <2> QED BY <2>1 DEF LastWins
<1>3. \A h \in Handlers : Poll(h) \/ Click(h) \/ AlarmFires(h) =>
        \E port \in Ports : Poll(h) \/ Click(h) \/ AlarmFires(h) \/ SubmitPort(h, port)
  BY ActiveStateConstants
<1> QED BY <1>1, <1>2, <1>3, LastBegin, LastAnswer DEF Next, Answer

SwitchInv == SettledInv /\ LastWins("setState")
PortInv == SettledInv /\ LastWins("setPort")

\* The last click on the popup's switch decides (background.ts:181-190).
THEOREM LastSwitchDecides == Spec => []LastSwitchWins
<1>1. BaseInv /\ SwitchInv => LastSwitchWins
  BY RequestsTyped
     DEF SwitchInv, LastWins, LastAsWanted, Reads, Writes, OtherKind, Field, LastSwitchWins, AtRest
<1>2. Init => SwitchInv
  BY LastInit DEF SwitchInv
<1>3. BaseInv /\ SwitchInv /\ [Next]_vars => SwitchInv'
  BY SettledStep, LastStep DEF SwitchInv
<1> QED BY <1>1, <1>2, <1>3, BaseInit, BaseStep, PTL DEF Spec

\* The last valid port sent by the popup is the one stored (background.ts:192-236).
THEOREM LastPortDecides == Spec => []LastPortWins
<1>1. BaseInv /\ PortInv => LastPortWins
  BY RequestsTyped
     DEF PortInv, LastWins, LastAsWanted, Reads, Writes, OtherKind, Field, LastPortWins, AtRest
<1>2. Init => PortInv
  BY LastInit DEF PortInv
<1>3. BaseInv /\ PortInv /\ [Next]_vars => PortInv'
  BY SettledStep, LastStep DEF PortInv
<1> QED BY <1>1, <1>2, <1>3, BaseInit, BaseStep, PTL DEF Spec

-----------------------------------------------------------------------------
(* Maintenance.                                                            *)

LEMMA MaintenanceInit == Init => MaintenanceInv
<1> SUFFICES ASSUME Init PROVE MaintenanceInv
  OBVIOUS
<1>1. DOMAIN requests = {1} /\ requests[1].by = 0 /\ requests[1].op = "get" /\ restarts = 0
  BY DEF Init, Get, Request
<1>2. /\ Handlers \subseteq AllHandlers /\ 0 \in AllHandlers /\ pc[0] = "reading"
      /\ \A h \in AllHandlers : job[h].kind = "startup"
  BY ActiveStateConstants DEF Init, AllHandlers, StartupJob, Job
<1>3. ~alarm /\ ~maintained
  BY DEF Init
<1> QED BY <1>1, <1>2, <1>3 DEF MaintenanceInv, StartupInv

LEMMA MaintenanceBegin ==
  ASSUME BaseInv, MaintenanceInv, NEW h \in Handlers, NEW port \in Ports,
         Poll(h) \/ Click(h) \/ AlarmFires(h) \/ SubmitPort(h, port)
  PROVE  MaintenanceInv'
<1> SUFFICES ASSUME None("setPort")' PROVE MaintenanceInv'
  BY DEF MaintenanceInv
<1>1. PICK j \in Jobs :
        /\ Begin(h, j) /\ alarm' = alarm /\ maintained' = maintained
        /\ j.kind = "alarm" => alarm
        /\ UNCHANGED <<restarts, Current, Outdated>>
  BY Begun
<1>2. PICK n \in Nat \ {0} :
        /\ pc[h] = "idle" /\ h \in AllHandlers /\ pc'[h] \in {"reading", "responding"}
        /\ job'[h] = j
        /\ \A g \in AllHandlers : g # h => pc'[g] = pc[g] /\ job'[g] = job[g]
        /\ DOMAIN requests = 1 .. n - 1 /\ DOMAIN requests' = 1 .. n
        /\ \A i \in DOMAIN requests : requests'[i] = requests[i]
        /\ requests'[n].by = h /\ requests'[n].op = "get"
  <2>1. PICK n : n = Len(requests) + 1
    OBVIOUS
  <2>2. Len(requests) \in Nat /\ n \in Nat \ {0} /\ Len(requests) = n - 1
    BY <1>1, <2>1, Began DEF BaseInv
  <2> QED BY <1>1, <2>1, <2>2, Began DEF BaseInv
<1>3. \A i \in DOMAIN requests : requests[i].by # h /\ requests[i].by \in AllHandlers
  BY <1>2, RequestsTyped DEF BaseInv, RequestsInv, Requests
<1>4. /\ \A i \in DOMAIN requests : /\ pc'[requests'[i].by] = pc[requests[i].by]
                                    /\ job'[requests'[i].by] = job[requests[i].by]
                                    /\ requests'[i] = requests[i] /\ i \in DOMAIN requests' /\ i < n
      /\ \A i \in DOMAIN requests' : i \in DOMAIN requests \/ i = n
      /\ n \in DOMAIN requests' /\ pc'[requests'[n].by] # "dead"
      /\ n \notin DOMAIN requests
  BY <1>2, <1>3
<1>5. restarts # h /\ pc[restarts] = pc'[restarts] /\ restarts \in AllHandlers
  BY <1>2 DEF BaseInv, HandlersInv, TypeInv, AllHandlers
<1>6. None("setPort") /\ \A g \in Handlers : job'[g].kind = "alarm" =>
          job[g].kind = "alarm" \/ alarm
  <2>1. job[h].kind = "startup"
    BY <1>2 DEF BaseInv, HandlersInv, StartupJob, Job
  <2>2. Handlers \subseteq AllHandlers
    BY DEF AllHandlers
  <2> QED BY <1>1, <1>2, <2>1, <2>2 DEF None
<1>7. /\ \A k \in DOMAIN requests : StartsAt(k)' <=> StartsAt(k)
      /\ ~StartsAt(n)'
  BY <1>1, <1>2, <1>4, <1>5 DEF StartsAt
<1>8. alarm' \/ (\E g \in Handlers : job'[g].kind = "alarm") => ~Outdated'
  BY <1>1, <1>6 DEF MaintenanceInv
<1>9. \A i \in DOMAIN requests' : job'[requests'[i].by].kind = "alarm" => requests'[i].op = "get"
  BY <1>2, <1>4, <1>6 DEF MaintenanceInv
<1>10. \A i \in DOMAIN requests' : pc'[requests'[i].by] = "dead" =>
         \E k \in DOMAIN requests' : k > i /\ StartsAt(k)' /\ requests'[k].op = "get"
  BY <1>4, <1>6, <1>7 DEF MaintenanceInv
<1>11. ASSUME NEW k \in DOMAIN requests', StartsAt(k)' PROVE StartupInv(k)'
  <2>1. k \in DOMAIN requests /\ StartsAt(k) /\ StartupInv(k)
    BY <1>4, <1>6, <1>7, <1>11 DEF MaintenanceInv
  <2>2. requests[k].op # "get" => \A g \in AllHandlers : job'[g].kind = "alarm" =>
            pc'[g] # "reading"
    BY <1>1, <1>2, <2>1 DEF StartupInv
  <2>3. \A i \in DOMAIN requests' : i < k => i \in DOMAIN requests
    BY <1>2, <2>1
  <2> QED BY <1>1, <1>2, <1>4, <2>1, <2>2, <2>3 DEF StartupInv
<1>12. pc'[restarts'] # "reading" =>
         (maintained' <=> Current'.isActive) /\ (alarm' <=> Current'.isActive)
  BY <1>1, <1>5, <1>6 DEF MaintenanceInv
<1> QED BY <1>8, <1>9, <1>10, <1>11, <1>12 DEF MaintenanceInv

LEMMA MaintenanceRestart ==
  ASSUME BaseInv, MaintenanceInv, RestartWorker
  PROVE  MaintenanceInv'
<1> SUFFICES ASSUME None("setPort")' PROVE MaintenanceInv'
  BY DEF MaintenanceInv
<1>1. PICK n \in Nat \ {0} :
        /\ restarts' \in AllHandlers
        /\ \A h \in AllHandlers : pc'[h] = IF h = restarts' THEN "reading"
                                           ELSE IF AwaitsAnswer(h) THEN "dead" ELSE pc[h]
        /\ DOMAIN requests = 1 .. n - 1 /\ DOMAIN requests' = 1 .. n
        /\ \A i \in DOMAIN requests : requests'[i] = requests[i] /\ requests[i] \in Requests
                                      /\ requests[i].by # restarts'
        /\ requests'[n].by = restarts' /\ requests'[n].op = "get"
        /\ job' = job /\ UNCHANGED <<Current, Outdated>>
  <2>1. PICK n : n = Len(requests) + 1
    OBVIOUS
  <2>2. Len(requests) \in Nat /\ n \in Nat \ {0} /\ Len(requests) = n - 1
    BY <2>1, Restarted
  <2> QED BY <2>1, <2>2, Restarted
<1>2. alarm' = alarm /\ maintained' = FALSE /\ None("setPort")
  BY <1>1 DEF RestartWorker, None
<1>3. /\ \A i \in DOMAIN requests' : (i \in DOMAIN requests /\ i < n) \/ i = n
      /\ n \in DOMAIN requests' /\ n \notin DOMAIN requests
      /\ \A i \in DOMAIN requests : requests[i].by \in AllHandlers
  BY <1>1 DEF Requests
<1>4. \A i \in DOMAIN requests : pc'[requests'[i].by] = "dead"
  BY <1>1, <1>3 DEF BaseInv, RequestsInv, AwaitsAnswer
<1>5. pc'[restarts'] = "reading"
  BY <1>1
<1>6. \A k \in DOMAIN requests' : StartsAt(k)' <=> k = n
  BY <1>1, <1>3 DEF StartsAt
<1>7. StartupInv(n)'
  BY <1>1, <1>2, <1>3, <1>4 DEF StartupInv
<1>8. alarm' \/ (\E g \in Handlers : job'[g].kind = "alarm") => ~Outdated'
  BY <1>1, <1>2 DEF MaintenanceInv
<1>9. \A i \in DOMAIN requests' : job'[requests'[i].by].kind = "alarm" => requests'[i].op = "get"
  BY <1>1, <1>2, <1>3 DEF MaintenanceInv
<1>10. \A i \in DOMAIN requests' : pc'[requests'[i].by] = "dead" =>
         \E k \in DOMAIN requests' : k > i /\ StartsAt(k)' /\ requests'[k].op = "get"
  BY <1>1, <1>3, <1>5, <1>6
<1> QED BY <1>5, <1>6, <1>7, <1>8, <1>9, <1>10 DEF MaintenanceInv

LEMMA MaintenanceAnswer ==
  ASSUME BaseInv, MaintenanceInv, Answer
  PROVE  MaintenanceInv'
<1> SUFFICES ASSUME None("setPort")' PROVE MaintenanceInv'
  BY DEF MaintenanceInv
<1>1. PICK q \in Requests, L \in Nat \ {0} : Advances(q, L) /\ Executes(q) /\ Outcome(q, L)
  BY Outcomes
<1>2. /\ job' = job /\ restarts' = restarts /\ None("setPort") /\ q.by \in AllHandlers
      /\ \A i \in DOMAIN requests' : i \in 1 .. L /\ (i < L \/ i = L)
      /\ DOMAIN requests = 1 .. L /\ 1 \in DOMAIN requests /\ q = requests[1]
      /\ Current' = IF q.op = "set" THEN q.value ELSE Current
      /\ Outdated' => Outdated
      /\ q.op = "get" => (Outdated' <=> Outdated)
      /\ q.op = "set" => ~Outdated
  BY <1>1 DEF Advances, Executes, None
<1>3. /\ alarm \/ (\E h \in Handlers : job[h].kind = "alarm") => ~Outdated
      /\ \A i \in DOMAIN requests : job[requests[i].by].kind = "alarm" => requests[i].op = "get"
      /\ \A i \in DOMAIN requests : pc[requests[i].by] = "dead" =>
           \E k \in DOMAIN requests : k > i /\ StartsAt(k) /\ requests[k].op = "get"
      /\ \A k \in DOMAIN requests : StartsAt(k) => StartupInv(k)
      /\ pc[restarts] # "reading" =>
           (maintained <=> Current.isActive) /\ (alarm <=> Current.isActive)
  BY <1>2 DEF MaintenanceInv
<1>4. \A i \in DOMAIN requests' : i < L =>
        /\ i + 1 \in DOMAIN requests /\ requests'[i] = requests[i + 1]
        /\ requests[i + 1].by # q.by /\ requests[i + 1].by \in AllHandlers
        /\ pc'[requests'[i].by] = pc[requests[i + 1].by]
  <2> SUFFICES ASSUME NEW i \in DOMAIN requests', i < L
               PROVE  /\ i + 1 \in DOMAIN requests /\ requests'[i] = requests[i + 1]
                      /\ requests[i + 1].by # q.by /\ requests[i + 1].by \in AllHandlers
                      /\ pc'[requests'[i].by] = pc[requests[i + 1].by]
    OBVIOUS
  <2>1. i + 1 \in DOMAIN requests /\ requests'[i] = requests[i + 1] /\ requests'[i].by # q.by
    BY <1>1 DEF Advances
  <2>2. requests[i + 1].by \in AllHandlers
    BY <2>1, RequestsTyped DEF BaseInv, Requests
  <2> QED BY <1>1, <2>1, <2>2 DEF Advances
<1>5. \A i \in DOMAIN requests : i > 1 =>
        /\ i - 1 \in DOMAIN requests' /\ i - 1 < L /\ requests'[i - 1] = requests[i]
  BY <1>1 DEF Advances
<1>6. L \in DOMAIN requests' =>
        /\ requests'[L].by = q.by /\ pc'[q.by] \in {"reading", "responding"}
        /\ pc[q.by] \in {"reading", "responding"}
  BY <1>1 DEF Outcome, GoesOn, Asks, Rereads, Ends, AwaitsAnswer
<1>7. /\ restarts \in AllHandlers /\ job[restarts].kind = "startup"
      /\ pc[restarts] \in {"reading", "done"}
      /\ \A h \in AllHandlers : job[h].kind = "alarm" => h \in Handlers
      /\ \A h \in AllHandlers : job[h].kind \notin {"setPort"}
      /\ \A h \in AllHandlers : job[h].kind = "startup" /\ pc[h] \in {"reading", "responding"} =>
             h = restarts
  <2>1. /\ restarts \in AllHandlers /\ \A n \in 0 .. MaxRestarts : job[n].kind = "startup"
        /\ restarts \in 0 .. MaxRestarts
    BY DEF BaseInv, TypeInv, HandlersInv, AllHandlers, StartupJob, Job
  <2>2. \A h \in AllHandlers : h \in Handlers \/ h \in 0 .. MaxRestarts
    BY DEF AllHandlers
  <2>3. ASSUME NEW h \in AllHandlers, job[h].kind = "startup", pc[h] \in {"reading", "responding"}
        PROVE  h = restarts
    <3>1. h \notin Handlers
      <4>1. job[h] = StartupJob
        BY <2>3, JobsTyped DEF BaseInv
      <4> QED BY <2>3, <4>1 DEF BaseInv, HandlersInv
    <3>2. h \in 0 .. MaxRestarts
      BY <2>2, <3>1
    <3> QED BY <2>1, <2>3, <3>2, ActiveStateConstants DEF BaseInv, HandlersInv
  <2>4. \A h \in AllHandlers : job[h].kind \notin {"setPort"}
    BY <1>2, <2>1, <2>2 DEF None
  <2>5. pc[restarts] \in {"reading", "done"}
    BY DEF BaseInv, HandlersInv
  <2> QED BY <2>1, <2>2, <2>3, <2>4, <2>5
<1>8. \A k \in DOMAIN requests' : k < L => (StartsAt(k)' <=> StartsAt(k + 1))
  BY <1>2, <1>4 DEF StartsAt
<1>9. \A k, l \in DOMAIN requests : StartsAt(k) /\ StartsAt(l) => k = l
  BY DEF StartsAt, BaseInv, RequestsInv
\* The parts that do not depend on whose request is answered.
<1>10. alarm' \/ (\E g \in Handlers : job'[g].kind = "alarm") => ~Outdated'
  <2>1. alarm' = alarm \/ ~Outdated'
    BY <1>1, <1>2 DEF Outcome, Asks, Rereads, connection
  <2> QED BY <1>2, <1>3, <2>1
<1>11. \A i \in DOMAIN requests' : job'[requests'[i].by].kind = "alarm" => requests'[i].op = "get"
  <2>1. L \in DOMAIN requests' /\ job[q.by].kind = "alarm" => requests'[L].op = "get"
    <3> SUFFICES ASSUME L \in DOMAIN requests', job[q.by].kind = "alarm"
                 PROVE  requests'[L].op = "get"
      OBVIOUS
    <3>1. q.op = "get" /\ ~Outdated
      BY <1>2, <1>3, <1>7
    <3> QED BY <1>1, <3>1 DEF Outcome, GoesOn, Asks, Rereads, Ends
  <2> QED BY <1>2, <1>3, <1>4, <1>6, <2>1
<1>12. \A i \in DOMAIN requests' : pc'[requests'[i].by] = "dead" =>
         \E k \in DOMAIN requests' : k > i /\ StartsAt(k)' /\ requests'[k].op = "get"
  <2> SUFFICES ASSUME NEW i \in DOMAIN requests', pc'[requests'[i].by] = "dead"
               PROVE  \E k \in DOMAIN requests' : k > i /\ StartsAt(k)' /\ requests'[k].op = "get"
    OBVIOUS
  <2>1. i < L
    BY <1>2, <1>6
  <2>2. i + 1 \in DOMAIN requests /\ pc[requests[i + 1].by] = "dead"
    BY <1>4, <2>1
  <2>3. PICK k \in DOMAIN requests : k > i + 1 /\ StartsAt(k) /\ requests[k].op = "get"
    BY <1>3, <2>2
  <2>4. k - 1 \in DOMAIN requests' /\ k - 1 < L /\ requests'[k - 1] = requests[k] /\ k - 1 > i
    BY <1>2, <1>5, <2>1, <2>3
  <2>5. StartsAt(k - 1)'
    BY <1>2, <2>3, <2>4 DEF StartsAt
  <2> QED BY <2>3, <2>4, <2>5
<1>13. CASE pc[q.by] = "dead"
  <2>1. /\ L \notin DOMAIN requests' /\ pc' = pc /\ alarm' = alarm /\ maintained' = maintained
    BY <1>1, <1>13 DEF Outcome, GoesOn, AwaitsAnswer, connection
  <2>2. PICK l \in DOMAIN requests : l > 1 /\ StartsAt(l) /\ requests[l].op = "get"
    BY <1>2, <1>3, <1>13
  <2>3. ASSUME NEW k \in DOMAIN requests', StartsAt(k)' PROVE StartupInv(k)'
    <3>1. k < L /\ k + 1 \in DOMAIN requests /\ StartsAt(k + 1) /\ requests'[k] = requests[k + 1]
      BY <1>2, <1>4, <1>8, <2>1, <2>3
    <3>2. k + 1 = l
      BY <1>9, <2>2, <3>1
    <3>3. StartupInv(k + 1) /\ requests[k + 1].op = "get"
      BY <1>3, <2>2, <3>1, <3>2
    <3>4. \A i \in DOMAIN requests' : i + 1 \in DOMAIN requests /\ requests'[i] = requests[i + 1]
                                      /\ i \in 1 .. L
      BY <1>2, <1>4, <2>1
    <3> QED BY <1>2, <2>1, <3>1, <3>3, <3>4 DEF StartupInv
  <2>4. pc'[restarts'] = "reading"
    <3>1. pc[restarts] # "done"
      BY <2>2 DEF StartsAt, BaseInv, RequestsInv
    <3> QED BY <1>2, <1>7, <2>1, <3>1
  <2> QED BY <1>10, <1>11, <1>12, <2>3, <2>4 DEF MaintenanceInv
<1>14. CASE pc[q.by] # "dead" /\ q.by = restarts
  <2>1. /\ StartsAt(1) /\ StartupInv(1) /\ pc[q.by] = "reading" /\ job[q.by].kind = "startup"
    BY <1>2, <1>3, <1>6, <1>7, <1>14 DEF StartsAt, BaseInv, RequestsInv
  <2>2. \A k \in DOMAIN requests : StartsAt(k) => k = 1
    BY <1>2, <1>9, <2>1
  <2>3. \A k \in DOMAIN requests' : StartsAt(k)' => k = L
    <3> SUFFICES ASSUME NEW k \in DOMAIN requests', StartsAt(k)', k < L PROVE FALSE
      BY <1>2
    <3> QED BY <1>2, <1>4, <1>8, <2>2
  <2>4. q.op # "set" /\ Current' = Current
    BY <1>2, <2>1 DEF BaseInv, RequestsInv
  <2>5. ASSUME q.op = "get", Outdated, NEW op \in {"migrate", "migrateLegacy"}, Asks(q, L, op,
               Current)
        PROVE  MaintenanceInv'
    <3>1. ~alarm' /\ ~maintained' /\ pc' = pc
      BY <1>3, <2>1, <2>5 DEF Asks, StartupInv, connection
    <3>2. \A i \in DOMAIN requests' : requests'[i].op # "set"
      BY <1>2, <1>4, <2>5 DEF Asks, BaseInv, MigrationInv
    <3>3. \A h \in AllHandlers : job'[h].kind # "alarm"
      BY <1>2, <1>3, <1>7, <2>5
    <3>4. \A i \in DOMAIN requests' : i < L => requests'[i].op = "get"
      <4>1. \A i \in DOMAIN requests : i > 1 => requests[i].op = "get"
        BY <1>2, <2>1, <2>5 DEF StartupInv
      <4> QED BY <1>2, <1>4, <4>1
    <3>5. StartupInv(L)'
      BY <1>2, <2>5, <3>1, <3>2, <3>3, <3>4 DEF StartupInv, Asks
    <3>6. pc'[restarts'] = "reading"
      BY <1>2, <1>14, <2>1, <3>1
    <3> QED BY <1>10, <1>11, <1>12, <2>3, <3>5, <3>6 DEF MaintenanceInv
  <2>6. ASSUME q.op = "migrateLegacy", Asks(q, L, "remove", Current)
        PROVE  MaintenanceInv'
    <3>1. ~alarm' /\ ~maintained' /\ pc' = pc
      BY <1>2, <2>1, <2>6 DEF Asks, StartupInv, connection
    <3>2. \A i \in DOMAIN requests' : requests'[i].op # "set"
      <4>1. Outdated
        BY <1>2, <2>1, <2>6 DEF StartupInv
      <4> QED BY <1>2, <1>4, <2>6, <4>1 DEF Asks, BaseInv, MigrationInv
    <3>3. \A h \in AllHandlers : job'[h].kind = "alarm" => pc'[h] # "reading"
      BY <1>2, <2>1, <2>6, <3>1 DEF StartupInv
    <3>4. StartupInv(L)'
      BY <1>2, <2>4, <2>6, <3>1, <3>2, <3>3 DEF StartupInv, Asks
    <3>5. pc'[restarts'] = "reading"
      BY <1>2, <1>14, <2>1, <3>1
    <3> QED BY <1>10, <1>11, <1>12, <2>3, <3>4, <3>5 DEF MaintenanceInv
  <2>7. ASSUME NEW v \in ValidStates, v = (IF q.op = "remove" THEN q.value ELSE Current),
               GoesOn(q, L, v)
        PROVE  MaintenanceInv'
    <3>1. /\ Ends(q, L) /\ alarm' = v.isActive /\ maintained' = (maintained \/ v.isActive)
      BY <2>1, <2>7 DEF GoesOn
    <3>2. v = Current /\ ~maintained
      BY <1>2, <2>1, <2>7 DEF StartupInv
    <3>3. (maintained' <=> Current'.isActive) /\ (alarm' <=> Current'.isActive)
      BY <2>4, <3>1, <3>2
    <3> QED BY <1>10, <1>11, <1>12, <2>3, <3>1, <3>3 DEF MaintenanceInv, Ends
  <2> QED BY <1>1, <1>14, <2>4, <2>5, <2>6, <2>7 DEF Outcome
<1>15. CASE pc[q.by] # "dead" /\ q.by # restarts
  <2>1. /\ pc[q.by] \in {"reading", "responding"}
        /\ job[q.by].kind \notin {"startup", "setPort"}
        /\ pc'[restarts'] = pc[restarts]
        /\ L \in DOMAIN requests' => ~StartsAt(L)'
    <3>1. pc[q.by] \in {"reading", "responding"}
      BY <1>2, <1>15 DEF BaseInv, RequestsInv
    <3>2. pc'[restarts] = pc[restarts]
      BY <1>1, <1>7, <1>15 DEF Advances
    <3> QED BY <1>2, <1>6, <1>7, <1>15, <3>1, <3>2 DEF StartsAt
  <2>2. CASE \E k \in DOMAIN requests : StartsAt(k)
    <3>1. PICK l \in DOMAIN requests : StartsAt(l)
      BY <2>2
    <3>2. l # 1 /\ l > 1 /\ StartupInv(l) /\ l \in 1 .. L
      BY <1>2, <1>3, <1>15, <3>1 DEF StartsAt
    <3>3. /\ requests[l].op # "get" /\ ~alarm /\ ~maintained
          /\ \A h \in AllHandlers : job[h].kind = "alarm" => pc[h] # "reading"
          /\ q.op # "set" /\ Current' = Current
      BY <1>2, <1>15, <3>2 DEF StartupInv
    <3>4. alarm' = alarm /\ maintained' = maintained
      BY <1>1, <1>2, <1>15, <2>1, <3>3
      DEF Outcome, GoesOn, Asks, Rereads, Ends, AwaitsAnswer, connection
    <3>5. \A h \in AllHandlers : job'[h].kind = "alarm" => pc'[h] # "reading"
      <4>1. pc'[q.by] = "reading" => pc[q.by] = "reading"
        BY <1>1, <1>15 DEF Outcome, GoesOn, Asks, Rereads, Ends
      <4> QED BY <1>1, <1>2, <3>3, <4>1 DEF Advances
    <3>6. ASSUME NEW k \in DOMAIN requests', StartsAt(k)' PROVE StartupInv(k)'
      <4>1. k < L /\ k + 1 \in DOMAIN requests /\ StartsAt(k + 1) /\ requests'[k] = requests[k + 1]
        BY <1>2, <1>4, <1>8, <2>1, <3>6
      <4>2. k + 1 = l
        BY <1>9, <3>1, <4>1
      <4>3. ASSUME NEW i \in DOMAIN requests', requests'[i].op = "set",
                   pc'[requests'[i].by] # "dead"
            PROVE  i > k
        <5>1. CASE i = L
          BY <1>2, <4>1, <5>1
        <5>2. CASE i < L
          <6>1. i + 1 \in DOMAIN requests /\ requests[i + 1].op = "set" /\
                    pc[requests[i + 1].by] # "dead"
            BY <1>4, <4>3, <5>2
          <6>2. i + 1 > l /\ i \in 1 .. L
            BY <1>2, <3>2, <6>1 DEF StartupInv
          <6> QED BY <1>2, <4>2, <6>2
        <5> QED BY <1>2, <5>1, <5>2
      <4>4. ASSUME requests'[k].op \in {"migrate", "migrateLegacy"}
            PROVE  Outdated' /\ \A i \in DOMAIN requests' : i < k => requests'[i].op = "get"
        <5>1. Outdated /\ \A i \in DOMAIN requests : i < l => requests[i].op = "get"
          BY <3>2, <4>1, <4>2, <4>4 DEF StartupInv
        <5>2. q.op = "get"
          BY <1>2, <3>2, <5>1
        <5>3. ASSUME NEW i \in DOMAIN requests', i < k PROVE requests'[i].op = "get"
          <6>1. i < L /\ i + 1 \in DOMAIN requests /\ requests'[i] = requests[i + 1] /\ i + 1 < l
            BY <1>2, <1>4, <4>1, <4>2, <5>3
          <6> QED BY <5>1, <6>1
        <5> QED BY <1>2, <5>1, <5>2, <5>3
      <4>5. requests'[k].op # "get"
        BY <3>3, <4>1, <4>2
      <4>6. requests'[k].op = "remove" => requests'[k].value = Current'
        BY <3>2, <3>3, <4>1, <4>2 DEF StartupInv
      <4> QED BY <3>3, <3>4, <3>5, <4>3, <4>4, <4>5, <4>6 DEF StartupInv
    <3>7. pc'[restarts'] = "reading"
      <4>1. pc[restarts] # "done"
        BY <3>1 DEF StartsAt, BaseInv, RequestsInv
      <4> QED BY <1>7, <2>1, <4>1
    <3> QED BY <1>10, <1>11, <1>12, <3>6, <3>7 DEF MaintenanceInv
  <2>3. CASE \A k \in DOMAIN requests : ~StartsAt(k)
    <3>1. pc[restarts] # "reading" /\ (maintained <=> Current.isActive) /\
              (alarm <=> Current.isActive)
      <4>1. pc[restarts] # "reading"
        BY <1>7, <2>3 DEF BaseInv, RequestsInv, AwaitsAnswer, StartsAt
      <4> QED BY <1>3, <4>1
    <3>2. \A k \in DOMAIN requests' : ~StartsAt(k)'
      BY <1>2, <1>4, <1>8, <2>1, <2>3
    <3>3. (maintained' <=> Current'.isActive) /\ (alarm' <=> Current'.isActive)
      <4>1. CASE q.op = "set"
        <5>1. Switch(q.value.isActive)
          BY <1>1, <1>15, <2>1, <4>1 DEF Outcome
        <5> QED BY <1>2, <4>1, <5>1 DEF Switch
      <4>2. CASE UNCHANGED connection /\ q.op # "set"
        BY <1>2, <3>1, <4>2 DEF connection
      <4>3. CASE q.op # "set" /\ job[q.by].kind = "alarm" /\ pc[q.by] = "reading"
        <5>1. q.op = "get"
          BY <1>2, <1>3, <4>3
        <5>2. ~Outdated
          BY <1>2, <1>3, <1>7, <4>3
        <5>3. alarm' = (alarm /\ Current.isActive) /\ maintained' = (maintained \/ Current.isActive)
          BY <1>1, <1>15, <4>3, <5>1, <5>2 DEF Outcome, GoesOn
        <5>4. alarm \in BOOLEAN /\ maintained \in BOOLEAN /\ Current.isActive \in BOOLEAN
          BY CurrentTyped DEF BaseInv, TypeInv, ValidStates
        <5> QED BY <1>2, <3>1, <4>3, <5>3, <5>4
      <4> QED BY <1>1, <1>15, <2>1, <4>1, <4>2, <4>3 DEF Outcome, GoesOn, Asks
    <3> QED BY <1>10, <1>11, <1>12, <3>2, <3>3 DEF MaintenanceInv
  <2> QED BY <2>2, <2>3
<1> QED BY <1>13, <1>14, <1>15

LEMMA MaintenanceStep == BaseInv /\ MaintenanceInv /\ [Next]_vars => MaintenanceInv'
<1> SUFFICES ASSUME BaseInv, MaintenanceInv, [Next]_vars PROVE MaintenanceInv'
  OBVIOUS
<1>1. CASE UNCHANGED vars
  BY <1>1 DEF vars, MaintenanceInv, StartupInv, StartsAt, None, Current, Outdated
<1>2. \A h \in Handlers : Poll(h) \/ Click(h) \/ AlarmFires(h) =>
        \E port \in Ports : Poll(h) \/ Click(h) \/ AlarmFires(h) \/ SubmitPort(h, port)
  BY ActiveStateConstants
<1> QED BY <1>1, <1>2, MaintenanceBegin, MaintenanceAnswer, MaintenanceRestart DEF Next, Answer

\* Unless a change of the port interferes, at rest the connection is maintained, and
\* the alarm exists, exactly if the stored state is active, also when the worker died
\* between the write and what follows it (background.ts:129-143, 330-364).
THEOREM MaintainedAsTheStateSays == Spec => []MaintainedAsStored
<1>1. BaseInv /\ MaintenanceInv => MaintainedAsStored
  <2> SUFFICES ASSUME BaseInv, MaintenanceInv, requests = <<>>, None("setPort")
               PROVE  (maintained <=> Current.isActive) /\ (alarm <=> Current.isActive)
    BY DEF MaintainedAsStored, AtRest
  <2>1. restarts \in AllHandlers /\ DOMAIN requests = {}
    BY DEF BaseInv, TypeInv, AllHandlers
  <2>2. pc[restarts] # "reading"
    BY <2>1 DEF BaseInv, RequestsInv, AwaitsAnswer
  <2> QED BY <2>2 DEF MaintenanceInv
<1> QED BY <1>1, BaseInit, BaseStep, MaintenanceInit, MaintenanceStep, PTL DEF Spec
=============================================================================
