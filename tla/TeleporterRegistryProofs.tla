----------------------- MODULE TeleporterRegistryProofs -----------------------
(***************************************************************************)
(* What TeleporterRegistry guarantees for every set of teleporters and     *)
(* workers and every timeout.                                              *)
(***************************************************************************)
EXTENDS TeleporterRegistry, FiniteSetTheorems, TLAPS

Statuses == {"waiting", "jam", "idle"}
AppStates ==
  [at : {"none", "waiting", "teleporters", "each", "clock"},
   jams : SUBSET SUBSET Teleporters, waiting : SUBSET Teleporters,
   todo : SUBSET Teleporters, tps : SUBSET Teleporters,
   of : Teleporters \cup {""}, stamp : Ages \cup {Absent},
   online : SUBSET Teleporters, status : [Teleporters -> Statuses \cup {"unlisted"}],
   before : SUBSET Teleporters, first : [Teleporters -> Ages \cup {Absent}]]
Witnesses ==
  [status : [Teleporters -> SUBSET Statuses], fresh : SUBSET Teleporters]

\* The types, with every field of the records.
StoresTyped ==
  /\ record \subseteq Teleporters /\ subs \subseteq Teleporters /\ acked \subseteq Teleporters
  /\ beat \in [Teleporters -> Ages \cup {Absent}]
JamsTyped == waiting \subseteq Teleporters /\ jams \subseteq SUBSET Teleporters
Tasks == [op : {"init", "update"}, tp : Teleporters] \cup {IdleWorker}
WorkersTyped == worker \in [Workers -> Tasks]
AppTyped ==
  /\ app \in AppStates /\ app.online \subseteq app.tps /\ app.todo \subseteq app.tps
  /\ app.at \notin {"each", "clock"} => app.online = {}
  /\ app.at = "clock" => app.of \in app.todo
Typed == StoresTyped /\ JamsTyped /\ WorkersTyped /\ AppTyped /\ witness \in Witnesses

\* The record is written before the subscription and the answer.
Served ==
  /\ AckedIsServed
  /\ \A w \in Workers : worker[w].op = "init" => worker[w].tp \in record

\* Nobody waits and plays.
Apart == \A t \in waiting : ~InJam(t)

\* Who had registered when the app asked has a record until it is read.
Listed ==
  /\ app.at \in {"waiting", "teleporters"} => app.before \subseteq record
  /\ app.at \in {"each", "clock"} => app.before \subseteq app.tps

\* While a request runs, what holds now is among what was seen.
Watching ==
  app.at # "none" =>
    /\ \A t \in Teleporters : StatusNow[t] \in witness.status[t]
    /\ FreshNow \subseteq witness.fresh

\* What the two reads of jams and of the waiting say of a teleporter was so at
\* the time.
ReadsSeen ==
  \A t \in Teleporters :
    /\ app.at # "none" =>
         IF \E j \in app.jams : t \in j
         THEN "jam" \in witness.status[t]
         ELSE "waiting" \in witness.status[t] \/ "idle" \in witness.status[t]
    /\ app.at \in {"teleporters", "each", "clock"} =>
         IF t \in app.waiting
         THEN "waiting" \in witness.status[t]
         ELSE "jam" \in witness.status[t] \/ "idle" \in witness.status[t]

\* A stamp is at least as fresh as another.
Later(a, b) == Fresh(b) => a <= b /\ a # Absent

\* The stamp of a teleporter is no older than the one that has been read of it,
\* and this one no older than the one it had when the app asked.
Stamps ==
  /\ app.at # "none" => \A t \in Teleporters : Later(beat[t], app.first[t])
  /\ app.at = "clock" => /\ Later(beat[app.of], app.stamp)
                         /\ Later(app.stamp, app.first[app.of])

\* A teleporter the answer has come to was in the state it is shown in.
Shown(t) ==
  /\ IF t \in app.online THEN t \in witness.fresh ELSE ~Fresh(app.first[t])
  /\ \/ app.status[t] \in witness.status[t]
     \/ app.status[t] = "idle" /\ {"waiting", "jam"} \subseteq witness.status[t]

AnswerSeen ==
  /\ app.online \subseteq Looked
  /\ \A t \in Looked : Shown(t)

IInv ==
  Typed /\ Served /\ Apart /\ Listed /\ Watching /\ ReadsSeen /\ Stamps /\ AnswerSeen

-----------------------------------------------------------------------------
(***************************************************************************)
(* What any step may do, for the parts of the argument.                    *)
(***************************************************************************)
\* A restart or a reload ends the request that runs and forgets everybody.
Forgets ==
  /\ record' = {} /\ acked' = {} /\ app' = IdleApp
  /\ waiting' = {} /\ jams' = {} /\ worker' = [w \in Workers |-> IdleWorker]

\* An event forgets everything, or serves the app and changes nothing else, or
\* makes all stamps older, or leaves the app alone, takes no record and no
\* subscription away and makes no stamp older.
LEMMA EventKinds ==
  ASSUME Event
  PROVE  \/ Forgets
         \/ GetApp /\ UNCHANGED <<stores, jamdb, worker, acked>>
         \/ Tick
         \/ /\ UNCHANGED app /\ record \subseteq record' /\ subs \subseteq subs'
            /\ \/ UNCHANGED beat
               \/ \E t \in Teleporters : Heartbeat(t)
BY DEF Event, Forgets, Restart, Reload, GetApp, AppReadJams, AppReadWaiting,
  AppReadTeleporters, AppReadStamp, AppReadClock, AppAnswer, Handler, InitWrite,
  InitSubscribe, InitFails, UpdateRead, UpdateWrite, Heartbeat, JamPlatform, Ask,
  Obviate, EndJam, Stray, stores

\* While a request runs, the witness remembers and takes in what holds now.
LEMMA WitnessGrows ==
  ASSUME Typed, Observe, app'.at # "none"
  PROVE  /\ \A t \in Teleporters : witness'.status[t] = witness.status[t] \cup {StatusNow'[t]}
         /\ witness'.fresh = witness.fresh \cup FreshNow'
BY DEF Observe, Typed, Witnesses

\* Time keeps the order of two stamps.
LEMMA OlderTyped ==
  ASSUME NEW a \in Ages \cup {Absent}
  PROVE  Older(a) \in Ages \cup {Absent}
BY RegistryAssumption DEF Older, Fresh, Ages, Absent

LEMMA OlderKeepsLater ==
  ASSUME NEW a \in Ages \cup {Absent}, NEW b \in Ages \cup {Absent}, Later(a, b)
  PROVE  Later(Older(a), Older(b))
BY RegistryAssumption DEF Older, Later, Fresh, Ages, Absent

-----------------------------------------------------------------------------
(***************************************************************************)
(* The parts of the invariant, one lemma each.                             *)
(***************************************************************************)
LEMMA TypedStart == Init => Typed
<1> SUFFICES ASSUME Init PROVE Typed
  OBVIOUS
<1> USE DEF Init, IdleApp, IdleWorker
<1>1. StoresTyped /\ JamsTyped /\ WorkersTyped
  BY RegistryAssumption DEF StoresTyped, JamsTyped, WorkersTyped, Tasks
<1>2. AppTyped
  BY DEF AppTyped, AppStates
<1>3. witness \in Witnesses
  BY DEF NoWitness, Witnesses
<1> QED
  BY <1>1, <1>2, <1>3 DEF Typed

\* What is remembered for an app request are statuses and fresh teleporters.
LEMMA WitnessTyped ==
  ASSUME Typed, Observe
  PROVE  witness' \in Witnesses
<1>1. CASE app'.at = "none"
  BY <1>1 DEF Observe, NoWitness, Witnesses
<1>2. CASE app'.at # "none"
  <2>1. StatusNow' \in [Teleporters -> Statuses] /\ FreshNow' \subseteq Teleporters
    BY DEF StatusNow, FreshNow, Statuses
  <2>2. witness' =
          [status |-> [t \in Teleporters |-> witness.status[t] \cup {StatusNow'[t]}],
           fresh  |-> witness.fresh \cup FreshNow']
    BY <1>2 DEF Observe
  <2> QED
    BY <2>1, <2>2 DEF Typed, Witnesses
<1> QED
  BY <1>1, <1>2

\* A worker that is busy is so with a teleporter.
LEMMA BusyWith ==
  ASSUME WorkersTyped, NEW w \in Workers, worker[w].op # "none"
  PROVE  worker[w].tp \in Teleporters
<1>1. worker[w] \in Tasks
  BY DEF WorkersTyped
<1>2. IdleWorker.op = "none"
  BY DEF IdleWorker
<1> QED
  BY <1>1, <1>2 DEF Tasks

\* Every event keeps the types.
LEMMA StoresTypedStep ==
  ASSUME StoresTyped, WorkersTyped, Event
  PROVE  StoresTyped'
<1> USE RegistryAssumption DEF StoresTyped, stores, jamdb
<1>1. ASSUME NEW w \in Workers, InitSubscribe(w) \/ UpdateWrite(w) PROVE StoresTyped'
  <2>1. worker[w].tp \in Teleporters
    BY <1>1, BusyWith DEF InitSubscribe, UpdateWrite
  <2> QED
    BY <1>1, <2>1 DEF InitSubscribe, UpdateWrite
<1>2. ASSUME NEW w \in Workers, NEW t \in Teleporters, InitWrite(w, t) PROVE StoresTyped'
  BY <1>2 DEF InitWrite
<1>3. CASE Tick
  <2>1. \A t \in Teleporters : Older(beat[t]) \in Ages \cup {Absent}
    BY OlderTyped
  <2> QED
    BY <1>3, <2>1 DEF Tick
<1>4. ASSUME NEW t \in Teleporters, Heartbeat(t) \/ Stray(t) PROVE StoresTyped'
  BY <1>4 DEF Heartbeat, Stray
<1>5. CASE Restart \/ Reload
  BY <1>5 DEF Restart, Reload
<1>6. CASE UNCHANGED <<record, beat, subs, acked>>
  BY <1>6
<1>7. ASSUME NEW w \in Workers, Handler(w) PROVE StoresTyped'
  BY <1>1, <1>2, <1>6, <1>7 DEF Handler, InitFails, UpdateRead
<1>8. CASE GetApp \/ JamPlatform
  BY <1>6, <1>8 DEF GetApp, AppReadJams, AppReadWaiting, AppReadTeleporters, AppReadStamp,
    AppReadClock, AppAnswer, JamPlatform, Ask, Obviate, EndJam
<1> QED
  BY <1>3, <1>4, <1>5, <1>7, <1>8 DEF Event

\* No step leaves the types of the jam library's database.
LEMMA JamsTypedStep ==
  ASSUME JamsTyped, Event
  PROVE  JamsTyped'
<1> USE DEF JamsTyped, stores, jamdb
<1>1. CASE JamPlatform
  BY <1>1 DEF JamPlatform, Ask, Obviate, EndJam
<1>2. CASE Restart \/ Reload
  BY <1>2 DEF Restart, Reload
<1>3. CASE UNCHANGED <<waiting, jams>>
  BY <1>3
<1> QED
  BY <1>1, <1>2, <1>3 DEF Event, Handler, InitWrite, InitSubscribe, InitFails,
    UpdateRead, UpdateWrite, Heartbeat, GetApp, AppReadJams, AppReadWaiting,
    AppReadTeleporters, AppReadStamp, AppReadClock, AppAnswer, Stray, Tick

\* No step leaves the types of the handlers.
LEMMA WorkersTypedStep ==
  ASSUME WorkersTyped, Event
  PROVE  WorkersTyped'
<1> USE DEF WorkersTyped, stores, jamdb
<1>0. IdleWorker \in Tasks /\ \A t \in Teleporters, op \in {"init", "update"} : [op |-> op, tp |-> t] \in Tasks
  BY DEF Tasks
<1>1. ASSUME NEW w \in Workers, NEW t \in Teleporters, InitWrite(w, t) \/ UpdateRead(w, t)
      PROVE  WorkersTyped'
  BY <1>0, <1>1 DEF InitWrite, UpdateRead
<1>2. ASSUME NEW w \in Workers, worker' = [worker EXCEPT ![w] = IdleWorker]
      PROVE  WorkersTyped'
  BY <1>0, <1>2
<1>3. ASSUME NEW w \in Workers, Handler(w) PROVE WorkersTyped'
  BY <1>1, <1>2, <1>3 DEF Handler, InitSubscribe, InitFails, UpdateWrite
<1>4. CASE Restart \/ Reload
  BY <1>0, <1>4 DEF Restart, Reload
<1>5. CASE UNCHANGED worker
  BY <1>5
<1> QED
  BY <1>3, <1>4, <1>5 DEF Event, Heartbeat, GetApp, AppReadJams, AppReadWaiting,
    AppReadTeleporters, AppReadStamp, AppReadClock, AppAnswer, JamPlatform, Ask, Obviate, EndJam, Stray, Tick

\* Time changes nothing in the app request but the ages in it.
LEMMA TickAges ==
  ASSUME AppTyped, Tick
  PROVE  /\ app'.stamp = Older(app.stamp)
         /\ app'.first = [t \in Teleporters |-> Older(app.first[t])]
         /\ app'.at = app.at /\ app'.jams = app.jams /\ app'.waiting = app.waiting
         /\ app'.todo = app.todo /\ app'.tps = app.tps /\ app'.of = app.of
         /\ app'.online = app.online /\ app'.status = app.status
         /\ app'.before = app.before
<1>1. app' = [app EXCEPT !.stamp = Older(@),
                        !.first = [t \in Teleporters |-> Older(app.first[t])]]
  BY DEF Tick
<1> QED
  BY <1>1 DEF AppTyped, AppStates

\* No step leaves the type of the app request.
LEMMA AppTypedStep ==
  ASSUME StoresTyped, JamsTyped, AppTyped, Event
  PROVE  AppTyped'
<1>0. /\ IdleApp \in AppStates /\ IdleApp.at = "none"
      /\ IdleApp.online = {} /\ IdleApp.todo = {}
  BY DEF IdleApp, AppStates
<1>1. CASE AppReadJams
  <2>1. app' = [IdleApp EXCEPT !.at = "waiting", !.jams = jams,
                              !.before = acked, !.first = beat]
    BY <1>1 DEF AppReadJams
  <2> QED
    BY <1>0, <2>1 DEF AppTyped, AppStates, StoresTyped, JamsTyped
<1>2. CASE AppReadWaiting
  <2>1. app.at = "waiting" /\ app' = [app EXCEPT !.at = "teleporters", !.waiting = waiting]
    BY <1>2 DEF AppReadWaiting
  <2> QED
    BY <2>1 DEF AppTyped, AppStates, JamsTyped
<1>3. CASE AppReadTeleporters
  <2>1. /\ app.at = "teleporters"
        /\ app' = [app EXCEPT !.at = "each", !.todo = record, !.tps = record]
    BY <1>3 DEF AppReadTeleporters
  <2> QED
    BY <2>1 DEF AppTyped, AppStates, StoresTyped
<1>4. ASSUME NEW t \in Teleporters, AppReadStamp(t) PROVE AppTyped'
  <2>1. /\ app.at = "each" /\ t \in app.todo
        /\ app' = [app EXCEPT !.at = "clock", !.of = t, !.stamp = beat[t]]
    BY <1>4 DEF AppReadStamp
  <2> QED
    BY <2>1 DEF AppTyped, AppStates, StoresTyped
<1>7. CASE AppReadClock
  <2>1. get_jam_status(app.of) \in Statuses
    BY DEF get_jam_status, Statuses
  <2>2. app.at = "clock" /\ app.of \in app.todo
    BY <1>7 DEF AppReadClock, AppTyped
  <2> DEFINE online == IF teleporter_online THEN app.online \cup {app.of} ELSE app.online
             status == [app.status EXCEPT ![app.of] = get_jam_status(app.of)]
  <2>3. app' = [app EXCEPT !.at = "each", !.of = "", !.stamp = Absent,
                           !.todo = app.todo \ {app.of}, !.online = online,
                           !.status = status]
    BY <1>7 DEF AppReadClock, AppTyped, AppStates
  <2>4. /\ online \subseteq app.online \cup {app.of} /\ online \subseteq Teleporters
        /\ status \in [Teleporters -> Statuses \cup {"unlisted"}]
    BY <2>1, <2>2 DEF AppTyped, AppStates
  <2> HIDE DEF online, status
  <2>5. /\ app' \in AppStates
        /\ app'.at = "each" /\ app'.tps = app.tps /\ app'.todo = app.todo \ {app.of}
        /\ app'.online \subseteq app.online \cup {app.of}
    BY <2>3, <2>4 DEF AppTyped, AppStates
  <2> QED
    BY <2>2, <2>5 DEF AppTyped
<1>8. CASE Tick
  <2>1. /\ app'.at = app.at /\ app'.online = app.online /\ app'.tps = app.tps
        /\ app'.todo = app.todo /\ app'.of = app.of
    BY <1>8, TickAges
  <2>2. Older(app.stamp) \in Ages \cup {Absent}
    BY OlderTyped DEF AppTyped, AppStates
  <2>3. [t \in Teleporters |-> Older(app.first[t])] \in [Teleporters -> Ages \cup {Absent}]
    BY OlderTyped DEF AppTyped, AppStates
  <2>4. app' \in AppStates
    BY <1>8, <2>2, <2>3 DEF Tick, AppTyped, AppStates
  <2> QED
    BY <2>1, <2>4 DEF AppTyped
<1>5. CASE app' = IdleApp
  BY <1>0, <1>5 DEF AppTyped
<1>6. CASE UNCHANGED app
  BY <1>6 DEF AppTyped
<1> QED
  BY <1>1, <1>2, <1>3, <1>4, <1>5, <1>6, <1>7, <1>8, EventKinds
  DEF GetApp, AppAnswer, Forgets

\* No step leaves the types.
LEMMA TypedStep == Typed /\ [Next]_vars => Typed'
<1>1. CASE Next
  BY <1>1, StoresTypedStep, JamsTypedStep, WorkersTypedStep, AppTypedStep, WitnessTyped
  DEF Next, Typed
<1>2. CASE UNCHANGED vars
  BY <1>2 DEF vars, Typed, StoresTyped, JamsTyped, WorkersTyped, AppTyped
<1> QED
  BY <1>1, <1>2

\* Records and subscriptions are there before the answer, and are taken away
\* with it only.
LEMMA ServedStep == Typed /\ Served /\ [Next]_vars => Served'
<1> SUFFICES ASSUME Typed, Served, Next PROVE Served'
  BY DEF vars, Served, AckedIsServed
<1> USE DEF Served, AckedIsServed, stores, jamdb
<1>0. worker \in [Workers -> Tasks]
  BY DEF Typed, WorkersTyped
<1>1. ASSUME NEW w \in Workers, NEW t \in Teleporters, InitWrite(w, t) \/ UpdateRead(w, t)
      PROVE  Served'
  BY <1>0, <1>1 DEF InitWrite, UpdateRead
<1>2. ASSUME NEW w \in Workers, InitSubscribe(w) \/ InitFails(w) \/ UpdateWrite(w)
      PROVE  Served'
  <2>1. worker' = [worker EXCEPT ![w] = IdleWorker]
    BY <1>2 DEF InitSubscribe, InitFails, UpdateWrite
  <2>2. \A v \in Workers : worker'[v].op = "init" => v # w /\ worker'[v] = worker[v]
    BY <1>0, <2>1 DEF IdleWorker
  <2>3. record \subseteq record'
    BY <1>2 DEF InitSubscribe, InitFails, UpdateWrite
  <2>4. AckedIsServed'
    BY <1>2 DEF InitSubscribe, InitFails, UpdateWrite
  <2> QED
    BY <2>2, <2>3, <2>4
<1>3. CASE GetApp \/ JamPlatform
  BY <1>3 DEF GetApp, AppReadJams, AppReadWaiting, AppReadTeleporters, AppReadStamp,
    AppReadClock, AppAnswer, JamPlatform, Ask, Obviate, EndJam
<1>4. CASE Tick \/ \E t \in Teleporters : Heartbeat(t) \/ Stray(t)
  BY <1>4 DEF Tick, Heartbeat, Stray
<1>5. CASE Restart \/ Reload
  <2>1. acked' = {} /\ worker' = [w \in Workers |-> IdleWorker]
    BY <1>5 DEF Restart, Reload
  <2>2. \A w \in Workers : worker'[w].op = "none"
    BY <2>1 DEF IdleWorker
  <2> QED
    BY <2>1, <2>2
<1> QED
  BY <1>1, <1>2, <1>3, <1>4, <1>5 DEF Next, Event, Handler

\* The jam platform moves a teleporter in one write.
LEMMA ApartStep == Typed /\ Apart /\ [Next]_vars => Apart'
<1> SUFFICES ASSUME Typed, Apart, Next PROVE Apart'
  BY DEF vars, Apart, InJam
<1> USE DEF Apart, InJam, stores, jamdb
<1>1. CASE UNCHANGED jamdb
  BY <1>1 DEF jamdb
<1>2. CASE JamPlatform
  BY <1>2 DEF JamPlatform, Ask, Obviate, EndJam
<1>3. CASE Restart \/ Reload
  BY <1>3 DEF Restart, Reload
<1> QED
  BY <1>1, <1>2, <1>3 DEF Next, Event, Handler, InitWrite, InitSubscribe, InitFails,
    UpdateRead, UpdateWrite, Heartbeat, GetApp, AppReadJams, AppReadWaiting,
    AppReadTeleporters, AppReadStamp, AppReadClock, AppAnswer, Stray, Tick

\* A record stays until the platform forgets the request as well.
LEMMA ListedStep == Typed /\ Served /\ Listed /\ [Next]_vars => Listed'
<1> SUFFICES ASSUME Typed, Served, Listed, Next PROVE Listed'
  BY DEF vars, Listed
<1> USE DEF Listed, Typed, AppTyped, AppStates, stores, jamdb
<1>1. CASE Forgets
  BY <1>1 DEF Forgets, IdleApp
<1>2. CASE UNCHANGED app /\ record \subseteq record'
  BY <1>2
<1>4. CASE Tick
  BY <1>4, TickAges DEF Tick
<1>3. CASE GetApp /\ UNCHANGED <<stores, acked>>
  <2>1. CASE AppReadJams
    BY <1>3, <2>1 DEF AppReadJams, IdleApp, Served, AckedIsServed
  <2>2. CASE AppReadWaiting
    <3>1. app'.at = "teleporters" /\ app'.before = app.before
      BY <2>2 DEF AppReadWaiting
    <3> QED
      BY <1>3, <2>2, <3>1 DEF AppReadWaiting
  <2>3. CASE AppReadTeleporters
    <3>1. app'.at = "each" /\ app'.before = app.before /\ app'.tps = record
      BY <2>3 DEF AppReadTeleporters
    <3> QED
      BY <1>3, <2>3, <3>1 DEF AppReadTeleporters
  <2>4. CASE AppReadClock \/ \E t \in Teleporters : AppReadStamp(t)
    <3>1. /\ app.at \in {"each", "clock"}
          /\ app'.at \in {"each", "clock"} /\ app'.before = app.before /\ app'.tps = app.tps
      BY <2>4 DEF AppReadStamp, AppReadClock
    <3> QED
      BY <3>1
  <2>5. CASE AppAnswer
    BY <2>5 DEF AppAnswer, IdleApp
  <2> QED
    BY <1>3, <2>1, <2>2, <2>3, <2>4, <2>5 DEF GetApp
<1> QED
  BY <1>1, <1>2, <1>3, <1>4, EventKinds DEF Next

\* What holds after a step was seen, if a request runs.
LEMMA WatchingStep == Typed /\ [Next]_vars /\ Watching => Watching'
<1>1. ASSUME Typed, Next, app'.at # "none"
      PROVE  /\ \A t \in Teleporters : StatusNow'[t] \in witness'.status[t]
             /\ FreshNow' \subseteq witness'.fresh
  BY <1>1, WitnessGrows DEF Next
<1>2. Watching /\ UNCHANGED vars => Watching'
  BY DEF vars, Watching, StatusNow, FreshNow, InJam
<1> QED
  BY <1>1, <1>2 DEF Watching

\* What was seen stays.
LEMMA SeenStays ==
  ASSUME Typed, Next, app'.at # "none"
  PROVE  /\ \A t \in Teleporters : witness.status[t] \subseteq witness'.status[t]
         /\ witness.fresh \subseteq witness'.fresh
BY WitnessGrows DEF Next

\* What the reads of the jams and of the waiting return was true when they
\* were made.
LEMMA ReadsSeenStep ==
  Typed /\ Apart /\ ReadsSeen /\ [Next]_vars => ReadsSeen'
<1> SUFFICES ASSUME Typed, Apart, ReadsSeen, Next, app'.at # "none", NEW t \in Teleporters
             PROVE  /\ IF \E j \in app'.jams : t \in j
                       THEN "jam" \in witness'.status[t]
                       ELSE "waiting" \in witness'.status[t] \/ "idle" \in witness'.status[t]
                    /\ app'.at \in {"teleporters", "each", "clock"} =>
                         IF t \in app'.waiting
                         THEN "waiting" \in witness'.status[t]
                         ELSE "jam" \in witness'.status[t] \/ "idle" \in witness'.status[t]
  BY DEF vars, ReadsSeen, Typed, AppTyped, AppStates
<1> USE DEF stores, jamdb
<1>1. witness.status[t] \subseteq witness'.status[t]
  BY SeenStays
<1>2. StatusNow'[t] \in witness'.status[t]
  BY WitnessGrows DEF Next
<1>3. app \in AppStates
  BY DEF Typed, AppTyped
<1>4. CASE /\ app.at # "none" /\ app'.jams = app.jams /\ app'.waiting = app.waiting
           /\ app'.at \in {"teleporters", "each", "clock"} =>
                app.at \in {"teleporters", "each", "clock"}
  BY <1>1, <1>4 DEF ReadsSeen
<1>5. CASE AppReadJams
  <2>1. app'.jams = jams' /\ app'.at = "waiting" /\ waiting' = waiting /\ jams' = jams
    BY <1>5 DEF AppReadJams, IdleApp
  <2>2. StatusNow'[t] = IF t \in waiting' THEN "waiting"
                        ELSE IF \E j \in jams' : t \in j THEN "jam" ELSE "idle"
    BY DEF StatusNow, InJam
  <2> QED
    BY <1>2, <2>1, <2>2 DEF Apart, InJam
<1>6. CASE AppReadWaiting
  <2>1. /\ app.at = "waiting" /\ app'.at = "teleporters"
        /\ app'.jams = app.jams /\ app'.waiting = waiting'
    BY <1>3, <1>6 DEF AppReadWaiting, AppStates
  <2>2. StatusNow'[t] = IF t \in waiting' THEN "waiting"
                        ELSE IF \E j \in jams' : t \in j THEN "jam" ELSE "idle"
    BY DEF StatusNow, InJam
  <2> QED
    BY <1>1, <1>2, <2>1, <2>2 DEF ReadsSeen
<1>7. CASE AppReadTeleporters
  <2>1. /\ app.at = "teleporters" /\ app'.at = "each"
        /\ app'.jams = app.jams /\ app'.waiting = app.waiting
    BY <1>3, <1>7 DEF AppReadTeleporters, AppStates
  <2> QED
    BY <1>4, <2>1
<1>8. CASE AppReadClock \/ \E u \in Teleporters : AppReadStamp(u)
  <2>1. /\ app.at \in {"each", "clock"} /\ app'.at \in {"each", "clock"}
        /\ app'.jams = app.jams /\ app'.waiting = app.waiting
    BY <1>3, <1>8 DEF AppReadStamp, AppReadClock, AppStates
  <2> QED
    BY <1>4, <2>1
<1>10. CASE Tick
  <2>1. app'.at = app.at /\ app'.jams = app.jams /\ app'.waiting = app.waiting
    BY <1>10, TickAges DEF Typed
  <2> QED
    BY <1>4, <2>1
<1>9. CASE UNCHANGED app
  BY <1>4, <1>9
<1>11. IdleApp.at = "none"
  BY DEF IdleApp
<1>12. CASE GetApp
  BY <1>12, <1>5, <1>6, <1>7, <1>8, <1>11 DEF GetApp, AppAnswer
<1> QED
  BY <1>9, <1>10, <1>11, <1>12, EventKinds DEF Next, Forgets

\* No stamp is ever replaced by an older one.
LEMMA StampsStep == Typed /\ Stamps /\ [Next]_vars => Stamps'
<1> SUFFICES ASSUME Typed, Stamps, Next, app'.at # "none"
             PROVE  /\ \A t \in Teleporters : Later(beat'[t], app'.first[t])
                    /\ app'.at = "clock" => /\ Later(beat'[app'.of], app'.stamp)
                                            /\ Later(app'.stamp, app'.first[app'.of])
  BY DEF vars, Stamps, Later, Fresh
<1> USE DEF stores, jamdb
<1>0. /\ app \in AppStates /\ beat \in [Teleporters -> Ages \cup {Absent}]
      /\ app.at = "clock" => app.of \in Teleporters
  BY DEF Typed, AppTyped, StoresTyped, AppStates
<1>a. \A a \in Ages \cup {Absent} : Later(a, a)
  BY RegistryAssumption DEF Later, Fresh, Ages, Absent
<1>1. CASE UNCHANGED <<app, beat>>
  BY <1>1 DEF Stamps, Later, Fresh
<1>2. ASSUME UNCHANGED app, NEW t \in Teleporters, Heartbeat(t)
      PROVE  Stamps'
  <2>1. \A u \in Teleporters, b \in Ages \cup {Absent} :
          Later(beat[u], b) => Later(beat'[u], b)
    <3>1. PICK age \in Ages : /\ beat[t] # Absent => age <= beat[t]
                              /\ beat' = [beat EXCEPT ![t] = age]
      BY <1>2 DEF Heartbeat
    <3>2. beat'[t] = age /\ \A u \in Teleporters : u # t => beat'[u] = beat[u]
      BY <1>0, <3>1
    <3>3. \A b \in Ages \cup {Absent} : Later(beat[t], b) => Later(age, b)
      BY <1>0, <3>1, RegistryAssumption DEF Later, Fresh, Ages, Absent
    <3> QED
      BY <3>2, <3>3
  <2>2. /\ \A u \in Teleporters : app.first[u] \in Ages \cup {Absent}
        /\ app.stamp \in Ages \cup {Absent}
    BY <1>0 DEF AppStates
  <2> QED
    BY <1>0, <1>2, <2>1, <2>2 DEF Stamps
<1>3. CASE Tick
  <2>1. /\ app'.at = app.at /\ app'.of = app.of /\ app'.stamp = Older(app.stamp)
        /\ \A t \in Teleporters : app'.first[t] = Older(app.first[t])
        /\ \A t \in Teleporters : beat'[t] = Older(beat[t])
    BY <1>3, TickAges DEF Typed, Tick
  <2>2. /\ \A t \in Teleporters : app.first[t] \in Ages \cup {Absent}
        /\ \A t \in Teleporters : beat[t] \in Ages \cup {Absent}
        /\ app.stamp \in Ages \cup {Absent}
    BY <1>0 DEF AppStates
  <2> QED
    BY <1>0, <2>1, <2>2, OlderKeepsLater DEF Stamps
<1>4. CASE AppReadJams
  <2>1. app'.first = beat /\ app'.at = "waiting" /\ beat' = beat
    BY <1>4 DEF AppReadJams, IdleApp
  <2> QED
    BY <1>0, <1>a, <2>1
<1>5. CASE AppReadWaiting \/ AppReadTeleporters \/ AppReadClock
  <2>1. /\ app'.first = app.first /\ app'.at # "clock" /\ beat' = beat /\ app.at # "none"
    BY <1>0, <1>5 DEF AppReadWaiting, AppReadTeleporters, AppReadClock, AppStates
  <2> QED
    BY <2>1 DEF Stamps
<1>6. ASSUME NEW t \in Teleporters, AppReadStamp(t)
      PROVE  Stamps'
  <2>1. /\ app'.first = app.first /\ app'.of = t /\ app'.stamp = beat[t]
        /\ beat' = beat /\ app.at # "none"
    BY <1>0, <1>6 DEF AppReadStamp, AppStates
  <2> QED
    BY <1>0, <1>a, <2>1 DEF Stamps
<1>7. CASE app' = IdleApp
  BY <1>7 DEF IdleApp
<1>8. CASE GetApp
  BY <1>4, <1>5, <1>6, <1>7, <1>8 DEF GetApp, AppAnswer, Stamps
<1> QED
  BY <1>1, <1>2, <1>3, <1>7, <1>8, EventKinds DEF Next, Forgets, Stamps

\* What the answer says of a teleporter was so when it was written.
LEMMA AnswerSeenStep ==
  Typed /\ Watching /\ ReadsSeen /\ Stamps /\ AnswerSeen /\ [Next]_vars => AnswerSeen'
<1> SUFFICES ASSUME Typed, Watching, ReadsSeen, Stamps, AnswerSeen, Next
             PROVE  AnswerSeen'
  BY DEF vars, AnswerSeen, Shown, Looked, Fresh
<1> USE DEF stores, jamdb
<1>0. /\ app \in AppStates /\ app.todo \subseteq app.tps
      /\ app.at \notin {"each", "clock"} => app.online = {}
      /\ app.at = "clock" => app.of \in app.todo
  BY DEF Typed, AppTyped
<1>1. ASSUME app'.at # "none", NEW t \in Teleporters, Shown(t),
             (t \in app'.online) <=> (t \in app.online), app'.status[t] = app.status[t],
             ~Fresh(app.first[t]) => ~Fresh(app'.first[t])
      PROVE  Shown(t)'
  <2>1. witness.status[t] \subseteq witness'.status[t] /\ witness.fresh \subseteq witness'.fresh
    BY <1>1, SeenStays
  <2>2. IF t \in app'.online THEN t \in witness'.fresh ELSE ~Fresh(app'.first[t])
    BY <1>1, <2>1 DEF Shown
  <2> QED
    BY <1>1, <2>1, <2>2 DEF Shown, Fresh
<1>2. ASSUME app'.at \in {"each", "clock"}, app.at \in {"each", "clock"},
             app'.tps = app.tps, app'.todo = app.todo, app'.online = app.online,
             app'.status = app.status,
             \A t \in Teleporters : ~Fresh(app.first[t]) => ~Fresh(app'.first[t])
      PROVE  AnswerSeen'
  <2>1. Looked' = Looked /\ Looked \subseteq Teleporters
    BY <1>0, <1>2 DEF Looked, AppStates
  <2>2. \A t \in Looked : Shown(t)'
    BY <1>1, <1>2, <2>1 DEF AnswerSeen
  <2> QED
    BY <1>2, <2>1, <2>2 DEF AnswerSeen
<1>3. ASSUME app'.at \notin {"each", "clock"}, app'.online = {}
      PROVE  AnswerSeen'
  BY <1>3 DEF AnswerSeen, Looked
<1>4. CASE UNCHANGED app
  BY <1>0, <1>2, <1>3, <1>4
<1>5. CASE Tick
  <2>1. /\ app'.at = app.at /\ app'.online = app.online /\ app'.tps = app.tps
        /\ app'.todo = app.todo /\ app'.status = app.status
        /\ \A t \in Teleporters : app'.first[t] = Older(app.first[t])
    BY <1>5, TickAges DEF Typed
  <2>2. \A t \in Teleporters : ~Fresh(app.first[t]) => Older(app.first[t]) = app.first[t]
    BY DEF Older
  <2> QED
    BY <1>0, <1>2, <1>3, <2>1, <2>2
<1>6. CASE AppReadTeleporters
  <2>1. app'.tps = app'.todo /\ app'.online = {} /\ app'.at = "each"
    BY <1>0, <1>6 DEF AppReadTeleporters, AppStates
  <2> QED
    BY <2>1 DEF AnswerSeen, Looked
<1>7. ASSUME NEW t \in Teleporters, AppReadStamp(t)
      PROVE  AnswerSeen'
  <2>1. /\ app.at = "each" /\ app'.at = "clock" /\ app'.online = app.online
        /\ app'.tps = app.tps /\ app'.todo = app.todo /\ app'.status = app.status
        /\ app'.first = app.first
    BY <1>0, <1>7 DEF AppReadStamp, AppStates
  <2> QED
    BY <1>2, <2>1
<1>8. ASSUME NEW u, u = app.of, AppReadClock
      PROVE  AnswerSeen'
  <2>1. /\ app.at = "clock" /\ app'.at = "each" /\ u \in app.todo /\ u \in Teleporters
        /\ app'.tps = app.tps /\ app'.todo = app.todo \ {u} /\ app'.first = app.first
        /\ app'.online = IF teleporter_online THEN app.online \cup {u} ELSE app.online
        /\ app'.status = [app.status EXCEPT ![u] = get_jam_status(u)]
        /\ beat' = beat
    BY <1>0, <1>8 DEF AppReadClock, AppStates
  <2>a. /\ Looked = app.tps \ app.todo /\ Looked' = app.tps \ (app.todo \ {u})
        /\ app.tps \subseteq Teleporters
    BY <1>0, <2>1 DEF Looked, AppStates
  <2>2. /\ Looked' = Looked \cup {u}
        /\ u \notin Looked /\ Looked \subseteq Teleporters
    BY <1>0, <2>1, <2>a
  <2>3. app.online \subseteq Looked /\ \A t \in Looked : Shown(t)
    BY DEF AnswerSeen
  <2>4. (u \in app'.online) <=> Fresh(app.stamp)
    BY <2>1, <2>2, <2>3 DEF teleporter_online
  <2>5. IF u \in app'.online THEN u \in witness'.fresh ELSE ~Fresh(app'.first[u])
    <3>1. /\ beat[u] \in Ages \cup {Absent} /\ app.stamp \in Ages \cup {Absent}
          /\ app.first[u] \in Ages \cup {Absent}
      BY <1>0, <2>1 DEF AppStates, Typed, StoresTyped
    <3>2. Later(beat[u], app.stamp) /\ Later(app.stamp, app.first[u])
      BY <1>8, <2>1 DEF Stamps
    <3>3. /\ Fresh(app.stamp) => Fresh(beat[u])
          /\ Fresh(app.first[u]) => Fresh(app.stamp)
      BY <3>1, <3>2, RegistryAssumption DEF Later, Fresh, Ages, Absent
    <3>4. Fresh(beat[u]) => u \in witness'.fresh
      BY <2>1, SeenStays DEF Watching, FreshNow
    <3> QED
      BY <2>1, <2>4, <3>3, <3>4
  <2>6. Shown(u)'
    <3>1. app'.status[u] = get_jam_status(u)
      BY <1>0, <2>1 DEF AppStates
    <3>2. \/ get_jam_status(u) \in witness.status[u]
          \/ get_jam_status(u) = "idle" /\ {"waiting", "jam"} \subseteq witness.status[u]
      BY <2>1 DEF get_jam_status, ReadsSeen
    <3>3. witness.status[u] \subseteq witness'.status[u]
      BY <2>1, SeenStays
    <3> QED
      BY <2>5, <3>1, <3>2, <3>3 DEF Shown, Fresh
  <2>7. ASSUME NEW t \in Looked PROVE Shown(t)'
    <3>1. t # u /\ t \in Teleporters
      BY <2>2
    <3>2. app'.status[t] = app.status[t] /\ ((t \in app'.online) <=> (t \in app.online))
      BY <1>0, <2>1, <3>1 DEF AppStates
    <3> QED
      BY <1>1, <2>1, <2>3, <3>1, <3>2
  <2> QED
    BY <2>1, <2>2, <2>3, <2>6, <2>7 DEF AnswerSeen
<1>9. CASE AppReadJams \/ AppReadWaiting
  <2>1. app'.at \in {"waiting", "teleporters"} /\ app'.online = {}
    BY <1>0, <1>9 DEF AppReadJams, AppReadWaiting, AppStates, IdleApp
  <2> QED
    BY <1>3, <2>1
<1>10. CASE app' = IdleApp
  BY <1>3, <1>10 DEF IdleApp
<1>11. CASE GetApp
  BY <1>6, <1>7, <1>8, <1>9, <1>10, <1>11 DEF GetApp, AppAnswer
<1> QED
  BY <1>4, <1>5, <1>10, <1>11, EventKinds DEF Next, Forgets

-----------------------------------------------------------------------------
(***************************************************************************)
(* The theorems.                                                           *)
(***************************************************************************)
\* The invariant, whatever handlers, library and clock do side by side.
THEOREM Invariance == Spec => []IInv
<1>1. Init => IInv
  <2> SUFFICES ASSUME Init PROVE IInv
    OBVIOUS
  <2>1. app.at = "none" /\ app.online = {}
    BY DEF Init, IdleApp
  <2>2. Served /\ Apart
    <3>1. \A w \in Workers : worker[w].op = "none"
      BY DEF Init, IdleWorker
    <3> QED
      BY <3>1 DEF Init, Served, AckedIsServed, Apart
  <2> QED
    BY <2>1, <2>2, TypedStart DEF IInv, Listed, Watching, ReadsSeen, Stamps, AnswerSeen, Looked
<1>2. IInv /\ [Next]_vars => IInv'
  BY TypedStep, ServedStep, ApartStep, ListedStep, WatchingStep, ReadsSeenStep,
    StampsStep, AnswerSeenStep
  DEF IInv
<1> QED
  BY <1>1, <1>2, PTL DEF Spec

\* The stores, the handlers and the answer keep their types.
THEOREM TypeCorrect == Spec => []TypeOK
<1>1. IInv => TypeOK
  <2> SUFFICES ASSUME IInv PROVE TypeOK
    OBVIOUS
  <2>1. worker \in [Workers -> [op : {"none", "init", "update"}, tp : Teleporters \cup {""}]]
    <3>1. Tasks \subseteq [op : {"none", "init", "update"}, tp : Teleporters \cup {""}]
      <4>1. [op : {"init", "update"}, tp : Teleporters]
              \subseteq [op : {"none", "init", "update"}, tp : Teleporters \cup {""}]
        OBVIOUS
      <4>2. IdleWorker \in [op : {"none", "init", "update"}, tp : Teleporters \cup {""}]
        BY DEF IdleWorker
      <4> QED
        BY <4>1, <4>2 DEF Tasks
    <3> QED
      BY <3>1 DEF IInv, Typed, WorkersTyped
  <2>2. /\ app.at \in {"none", "waiting", "teleporters", "each", "clock"}
        /\ app.status \in [Teleporters -> {"unlisted", "waiting", "jam", "idle"}]
    BY DEF IInv, Typed, AppTyped, AppStates, Statuses
  <2> QED
    BY <2>1, <2>2 DEF IInv, Typed, StoresTyped, JamsTyped, AppTyped, TypeOK
<1> QED
  BY <1>1, Invariance, PTL

\* For any number of teleporters and of handlers that run side by side, whoever
\* was answered with 200 has a record and is listened to (teleporter/init,
\* teleporter/update).
THEOREM WhoIsAckedIsServed == Spec => []AckedIsServed
BY Invariance, PTL DEF IInv, Served

\* The app is told of everyone registered before it asked (app/connect).
THEOREM EveryoneIsListed == Spec => []ListsRegistered
<1>1. IInv => ListsRegistered
  BY DEF IInv, Listed, ListsRegistered, Answered
<1> QED
  BY <1>1, Invariance, PTL

\* For every timeout, and however heartbeats and time fall between the reads of
\* the stamps and of the clock: whoever is shown online was heard in time at some
\* moment of the request, and whoever is shown offline has outlived the heartbeat
\* that was its last when the app asked (tpstatus/teleporter-online?).
THEOREM OnlineIsTrue == Spec => []OnlineWasHeard
<1>1. IInv => OnlineWasHeard
  BY DEF IInv, AnswerSeen, Shown, OnlineWasHeard
<1> QED
  BY <1>1, Invariance, PTL

\* The jam status shown was one of the teleporter's during the request, or it
\* had more than one (app/get-jam-status, app/connect).
THEOREM StatusIsTrue == Spec => []StatusWasSeen
<1>1. IInv => StatusWasSeen
  <2> SUFFICES ASSUME IInv, Answered, NEW t \in app.tps,
                      {"waiting", "jam"} \subseteq witness.status[t]
               PROVE  Cardinality(witness.status[t]) > 1
    BY DEF IInv, AnswerSeen, Shown, StatusWasSeen, Answered, Looked
  <2>1. witness.status[t] \subseteq Statuses
    BY DEF IInv, Typed, AppTyped, AppStates, Witnesses
  <2>2. IsFiniteSet(witness.status[t])
    <3>1. IsFiniteSet({"waiting"} \cup {"jam"})
      BY FS_Singleton, FS_AddElement
    <3>2. IsFiniteSet(({"waiting"} \cup {"jam"}) \cup {"idle"})
      BY <3>1, FS_AddElement
    <3>3. Statuses = ({"waiting"} \cup {"jam"}) \cup {"idle"}
      BY DEF Statuses
    <3>4. IsFiniteSet(Statuses)
      BY <3>2, <3>3
    <3> QED
      BY <2>1, <3>4, FS_Subset
  <2>3. Cardinality({"waiting", "jam"}) = 2
    <3>1. IsFiniteSet({"waiting"}) /\ Cardinality({"waiting"}) = 1
      BY FS_Singleton
    <3>2. Cardinality({"waiting"} \cup {"jam"}) = 2
      BY <3>1, FS_AddElement
    <3>3. {"waiting", "jam"} = {"waiting"} \cup {"jam"}
      OBVIOUS
    <3> QED
      BY <3>2, <3>3
  <2>4. Cardinality({"waiting", "jam"}) <= Cardinality(witness.status[t])
    BY <2>2, FS_Subset
  <2>5. Cardinality(witness.status[t]) \in Nat
    BY <2>2, FS_CardinalityType
  <2> QED
    BY <2>3, <2>4, <2>5
<1> QED
  BY <1>1, Invariance, PTL
=============================================================================
