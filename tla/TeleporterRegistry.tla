------------------------- MODULE TeleporterRegistry -------------------------
(***************************************************************************)
(* What the platform knows of its teleporters, and what it tells an app.   *)
(*                                                                         *)
(* Two stores that share no lock: the database of the system map, with the *)
(* records the teleporters register (PUT /api/teleporter) and update       *)
(* (POST), the jams and the teleporters that wait for one; and the atom of *)
(* platform.db.store, with the time of the last heartbeat that arrived     *)
(* over MQTT.  HTTP handlers run side by side and read and write the       *)
(* stores in several steps; GET /api/app puts its answer together from     *)
(* three reads of the database and, per teleporter, one of the atom and    *)
(* one of the clock.                                                       *)
(*                                                                         *)
(* A time stamp is represented by its age: how many ticks ago it was taken *)
(* by the clock, where all ages from OfflineTimeout on are one.  So a copy *)
(* of a stamp ages as well, wherever it is kept.  Of a record only its     *)
(* presence is kept; nothing reads the time of the registration that is in *)
(* it.  Everything is in memory and gone when the platform restarts; a     *)
(* subscription may outlive it in the broker.                              *)
(***************************************************************************)
EXTENDS Integers, FiniteSets

CONSTANTS
  Teleporters,     \* their ids
  Workers,         \* threads that answer PUT and POST requests
  OfflineTimeout   \* config :offline-timeout, in ticks

VARIABLES
  record,   \* teleporters with a record at [:teleporter id] of the database
  beat,     \* teleporter -> age of its time stamp in platform.db.store, or Absent
  subs,     \* teleporters whose heartbeat topic the platform subscribes to
  waiting,  \* [:waiting] of the database
  jams,     \* the member sets of [:jam] of the database
  worker,   \* what each worker does
  app,      \* the GET /api/app request that runs, its reads and its answer; as
            \* history who was acknowledged (before) and the stamps (first) then
  acked,    \* registered with status 200 since the platform started
  witness   \* what was true at some time since the app request began

stores == <<record, beat, subs>>
jamdb  == <<waiting, jams>>
vars   == <<record, beat, subs, waiting, jams, worker, app, acked, witness>>

Absent == -1
Ages   == 0..OfflineTimeout

IdleWorker == [op |-> "none", tp |-> ""]
IdleApp == [at |-> "none", jams |-> {}, waiting |-> {}, todo |-> {}, tps |-> {},
            of |-> "", stamp |-> Absent,
            online |-> {}, status |-> [t \in Teleporters |-> "unlisted"],
            before |-> {}, first |-> [t \in Teleporters |-> Absent]]

ASSUME RegistryAssumption ==
  /\ OfflineTimeout \in Nat \ {0}
  /\ Teleporters # {} /\ IsFiniteSet(Teleporters)

-----------------------------------------------------------------------------
(***************************************************************************)
(* PUT /api/teleporter: write the record, subscribe, answer.               *)
(***************************************************************************)
InitWrite(w, t) ==
  /\ worker[w] = IdleWorker
  /\ record' = record \cup {t}
  /\ worker' = [worker EXCEPT ![w] = [op |-> "init", tp |-> t]]
  /\ UNCHANGED <<beat, subs, jamdb, app, acked>>

InitSubscribe(w) ==
  LET t == worker[w].tp IN
  /\ worker[w].op = "init"
  /\ subs' = subs \cup {t}
  /\ acked' = acked \cup {t}
  /\ worker' = [worker EXCEPT ![w] = IdleWorker]
  /\ UNCHANGED <<record, beat, jamdb, app>>

\* mqtt/subscribe throws: the request is answered with 500.
\* Variant: the exception is caught and logged, and the answer is 200.
InitFailsCaught(w) ==
  /\ worker[w].op = "init"
  /\ acked' = acked \cup {worker[w].tp}
  /\ worker' = [worker EXCEPT ![w] = IdleWorker]
  /\ UNCHANGED <<stores, jamdb, app>>
InitFails(w) ==
  /\ worker[w].op = "init"
  /\ worker' = [worker EXCEPT ![w] = IdleWorker]
  /\ UNCHANGED <<stores, jamdb, app, acked>>

(***************************************************************************)
(* POST /api/teleporter: read the record, merge the settings into it,      *)
(* write it.  An unknown id gets a record too, of the settings alone.      *)
(***************************************************************************)
UpdateRead(w, t) ==
  /\ worker[w] = IdleWorker
  /\ worker' = [worker EXCEPT ![w] = [op |-> "update", tp |-> t]]
  /\ UNCHANGED <<stores, jamdb, app, acked>>

UpdateWrite(w) ==
  /\ worker[w].op = "update"
  /\ record' = record \cup {worker[w].tp}
  /\ worker' = [worker EXCEPT ![w] = IdleWorker]
  /\ UNCHANGED <<beat, subs, jamdb, app, acked>>

(***************************************************************************)
(* MQTT: a heartbeat stamps the atom with the time at which its handler    *)
(* read the clock.  The client calls its handlers one after the other, so  *)
(* no stamp gives way to an earlier one.                                   *)
(***************************************************************************)
Heartbeat(t) ==
  /\ t \in subs
  /\ \E age \in Ages : /\ beat[t] # Absent => age <= beat[t]
                       /\ beat' = [beat EXCEPT ![t] = age]
  /\ UNCHANGED <<record, subs, jamdb, worker, app, acked>>

Fresh(age) == age \in 0..OfflineTimeout - 1

(***************************************************************************)
(* GET /api/app.                                                           *)
(***************************************************************************)
\* Variants: only the jams are looked at; the cond has no :else.
get_jam_status_jams(t) ==
  IF \E j \in app.jams : t \in j THEN "jam" ELSE "idle"
get_jam_status_nil(t) ==
  IF t \in app.waiting THEN "waiting"
  ELSE IF \E j \in app.jams : t \in j THEN "jam" ELSE "nil"
get_jam_status(t) ==
  IF t \in app.waiting THEN "waiting"
  ELSE IF \E j \in app.jams : t \in j THEN "jam" ELSE "idle"

AppReadJams ==
  /\ app.at = "none"
  /\ app' = [IdleApp EXCEPT !.at = "waiting", !.jams = jams,
                            !.before = acked, !.first = beat]
  /\ UNCHANGED <<stores, jamdb, worker, acked>>

AppReadWaiting ==
  /\ app.at = "waiting"
  /\ app' = [app EXCEPT !.at = "teleporters", !.waiting = waiting]
  /\ UNCHANGED <<stores, jamdb, worker, acked>>

\* Variant: teleporters that never sent a heartbeat are left out.
AppReadHeard ==
  LET heard == {t \in record : beat[t] # Absent} IN
  /\ app.at = "teleporters"
  /\ app' = [app EXCEPT !.at = "each", !.todo = heard, !.tps = heard]
  /\ UNCHANGED <<stores, jamdb, worker, acked>>
AppReadTeleporters ==
  /\ app.at = "teleporters"
  /\ app' = [app EXCEPT !.at = "each", !.todo = record, !.tps = record]
  /\ UNCHANGED <<stores, jamdb, worker, acked>>

\* teleporter-online? reads the stamp, then the clock, then compares.
AppReadStamp(t) ==
  /\ app.at = "each" /\ t \in app.todo
  /\ app' = [app EXCEPT !.at = "clock", !.of = t, !.stamp = beat[t]]
  /\ UNCHANGED <<stores, jamdb, worker, acked>>

\* Variant: the time stamp of the registration, in the other store, counts.
online_registered == app.of \in record
teleporter_online == Fresh(app.stamp)

AppReadClock ==
  LET t == app.of IN
  /\ app.at = "clock"
  /\ app' = [app EXCEPT
               !.at = "each", !.of = "", !.stamp = Absent, !.todo = @ \ {t},
               !.online = IF teleporter_online THEN @ \cup {t} ELSE @,
               !.status = [@ EXCEPT ![t] = get_jam_status(t)]]
  /\ UNCHANGED <<stores, jamdb, worker, acked>>

AppAnswer ==
  /\ app.at = "each" /\ app.todo = {}
  /\ app' = IdleApp
  /\ UNCHANGED <<stores, jamdb, worker, acked>>

(***************************************************************************)
(* External: songpark.jam.platform moves teleporters between idle, waiting *)
(* and a jam (ask, obviate, stop, left, check-for-timeouts), and a move is *)
(* one write.                                                              *)
(***************************************************************************)
InJam(t) == \E j \in jams : t \in j

Ask(t) ==
  /\ t \notin waiting /\ ~InJam(t)
  /\ IF waiting = {}
       THEN waiting' = {t} /\ UNCHANGED jams
       ELSE \E u \in waiting : /\ waiting' = waiting \ {u}
                               /\ jams' = jams \cup {{t, u}}
  /\ UNCHANGED <<stores, worker, app, acked>>

Obviate(t) ==
  /\ t \in waiting /\ waiting' = waiting \ {t}
  /\ UNCHANGED <<jams, stores, worker, app, acked>>

EndJam(j) ==
  /\ j \in jams /\ jams' = jams \ {j}
  /\ UNCHANGED <<waiting, stores, worker, app, acked>>

(***************************************************************************)
(* Time and restarts.                                                      *)
(***************************************************************************)
Older(age) == IF Fresh(age) THEN age + 1 ELSE age

Tick ==
  /\ beat' = [t \in Teleporters |-> Older(beat[t])]
  /\ app' = [app EXCEPT !.stamp = Older(@),
                        !.first = [t \in Teleporters |-> Older(app.first[t])]]
  /\ UNCHANGED <<record, subs, jamdb, worker, acked>>

Restart ==
  /\ record' = {}
  /\ beat' = [t \in Teleporters |-> Absent]
  /\ subs' \in {{}, subs}
  /\ waiting' = {} /\ jams' = {} /\ acked' = {}
  /\ worker' = [w \in Workers |-> IdleWorker]
  /\ app' = IdleApp

\* stop and init in one JVM: a new system with an empty database, while the
\* atom of platform.db.store stays.  Handlers in flight go on for the old
\* system, where nobody asks any more.
Reload ==
  /\ record' = {} /\ UNCHANGED beat
  /\ subs' \in SUBSET subs
  /\ waiting' = {} /\ jams' = {} /\ acked' = {}
  /\ worker' = [w \in Workers |-> IdleWorker]
  /\ app' = IdleApp

\* A registration the old system answers subscribes under the same client id.
Stray(t) ==
  /\ subs' = subs \cup {t}
  /\ UNCHANGED <<record, beat, jamdb, worker, app, acked>>

(***************************************************************************)
(* The witness: for each teleporter every jam status it had, and the       *)
(* teleporters whose last heartbeat was fresh, at any moment from the      *)
(* first read of the app request to its answer.                            *)
(***************************************************************************)
StatusNow == [t \in Teleporters |->
                IF t \in waiting THEN "waiting" ELSE IF InJam(t) THEN "jam" ELSE "idle"]
FreshNow  == {t \in Teleporters : Fresh(beat[t])}
NoWitness == [status |-> [t \in Teleporters |-> {}], fresh |-> {}]

Observe ==
  witness' = IF app'.at = "none" THEN NoWitness
             ELSE [status |-> [t \in Teleporters |-> witness.status[t] \cup {StatusNow'[t]}],
                   fresh  |-> witness.fresh \cup FreshNow']

-----------------------------------------------------------------------------
Init ==
  /\ record = {}
  /\ beat = [t \in Teleporters |-> Absent]
  /\ subs = {} /\ waiting = {} /\ jams = {} /\ acked = {}
  /\ worker = [w \in Workers |-> IdleWorker]
  /\ app = IdleApp
  /\ witness = NoWitness

Handler(w) ==
  \/ \E t \in Teleporters : InitWrite(w, t) \/ UpdateRead(w, t)
  \/ InitSubscribe(w)
  \/ InitFails(w)
  \/ UpdateWrite(w)

GetApp ==
  \/ AppReadJams
  \/ AppReadWaiting
  \/ AppReadTeleporters
  \/ \E t \in Teleporters : AppReadStamp(t)
  \/ AppReadClock
  \/ AppAnswer

JamPlatform ==
  \/ \E t \in Teleporters : Ask(t) \/ Obviate(t)
  \/ \E j \in jams : EndJam(j)

Event ==
  \/ \E w \in Workers : Handler(w)
  \/ \E t \in Teleporters : Heartbeat(t)
  \/ GetApp
  \/ JamPlatform
  \/ \E t \in Teleporters : Stray(t)
  \/ Tick
  \/ Restart
  \/ Reload

Next == Event /\ Observe

Spec == Init /\ [][Next]_vars

-----------------------------------------------------------------------------
(***************************************************************************)
(* Properties.                                                             *)
(***************************************************************************)
\* The stores, the handlers and the answer speak of known teleporters, and the
\* answer says of each one listed what the app knows a word for.
TypeOK ==
  /\ record \subseteq Teleporters
  /\ beat \in [Teleporters -> Ages \cup {Absent}]
  /\ subs \subseteq Teleporters /\ acked \subseteq Teleporters
  /\ waiting \subseteq Teleporters /\ jams \subseteq SUBSET Teleporters
  /\ worker \in [Workers -> [op : {"none", "init", "update"},
                             tp : Teleporters \cup {""}]]
  /\ app.at \in {"none", "waiting", "teleporters", "each", "clock"}
  /\ app.online \subseteq app.tps /\ app.todo \subseteq app.tps
  /\ app.status \in [Teleporters -> {"unlisted", "waiting", "jam", "idle"}]

\* A teleporter whose registration was answered with 200 has a record, and the
\* platform listens to its heartbeats, whatever updates and other registrations
\* run at the same time and however often it re-registers (teleporter/init,
\* teleporter/update).
AckedIsServed ==
  \A t \in acked : t \in subs \cap record

\* The answer is complete and about to be sent.
Answered == app.at = "each" /\ app.todo = {}

\* The app is told of every teleporter that was registered before it asked
\* (app/connect).
ListsRegistered == Answered => app.before \subseteq app.tps

\* The teleporters of the answer that have been looked at.
Looked == IF app.at \in {"each", "clock"} THEN app.tps \ app.todo ELSE {}

\* A teleporter is shown online only if at some moment of the request its last
\* heartbeat was younger than the timeout.  It is shown offline only if the
\* heartbeat that was its last when the app asked has run out when its turn has
\* come, or there was none: one that arrives while teleporter-online? has the
\* stamp and has not read the clock may come too late, but who does not need it
\* is never shown offline.  The registration does not count, nor what an
\* earlier JVM heard; what an earlier system of this JVM heard does, since the
\* atom stays (tpstatus/teleporter-online?).
OnlineWasHeard ==
  \A t \in Looked :
    IF t \in app.online THEN t \in witness.fresh ELSE ~Fresh(app.first[t])

\* The jam status the app is shown is one the teleporter had during the
\* request.  The two reads of the database allow one exception: a teleporter
\* that changed its status meanwhile may be shown idle though it never was; one
\* that stayed what it was never is (app/get-jam-status, app/connect).
StatusWasSeen ==
  Answered =>
    \A t \in app.tps :
      \/ app.status[t] \in witness.status[t]
      \/ app.status[t] = "idle" /\ Cardinality(witness.status[t]) > 1

=============================================================================
