------------------------------ MODULE Platform -------------------------------
(***************************************************************************)
(* The platform as a whole: systems that start and stop (PlatformLife) and *)
(* the requests about teleporters that reach their HTTP servers.           *)
(*                                                                         *)
(* Each system has a database of its own and passes it to its handlers     *)
(* with its MQTT client (http/server.clj, inject-data).  A handler in      *)
(* flight when its system stops goes on with both.  All clients have the   *)
(* same id, so the broker keeps one set of subscriptions for them.         *)
(*                                                                         *)
(* What a reader of TeleporterRegistry takes for the platform is the       *)
(* system that serves: Registry is that view, as an instance.              *)
(***************************************************************************)
EXTENDS PlatformLife

CONSTANTS
  Teleporters,   \* their ids
  Workers,       \* threads that answer PUT and POST requests
  Settings,      \* the maps of settings a POST may carry
  MaxRequests    \* bound on the requests in the life of a JVM

VARIABLES
  db,        \* system -> teleporter -> the map at [:teleporter id], <<>> for nil
  session,   \* teleporters whose heartbeat topic the broker keeps for the client id
  worker,    \* what each worker does
  requests,  \* requests made in this JVM
  acked,     \* system -> registered there with status 200
  alone,     \* history: <<system, teleporter>> with no write between the read and
             \* the write of an update, since a registration that hit none
  expected   \* history: what those requests, one after the other, make of the record

stores    == <<db, session>>
histories == <<requests, acked, alone, expected>>
vars      == <<life, stores, worker, histories>>

IdleWorker == [op |-> "none", of |-> None, tp |-> "", record |-> <<>>, settings |-> <<>>]
EmptyDb    == [t \in Teleporters |-> <<>>]

\* merge of Clojure.  Variant: the arguments are swapped.
MergeSwapped(a, b) ==
  [k \in DOMAIN a \cup DOMAIN b |-> IF k \in DOMAIN a THEN a[k] ELSE b[k]]
Merge(a, b) ==
  [k \in DOMAIN a \cup DOMAIN b |-> IF k \in DOMAIN b THEN b[k] ELSE a[k]]

\* What RecordIsSequential expects of it: the settings laid over the record.
Overlaid(record, settings) ==
  [k \in DOMAIN settings \cup DOMAIN record |->
     IF k \in DOMAIN record \ DOMAIN settings THEN record[k] ELSE settings[k]]

\* The record of a registration; of the body the nickname is kept.
Registered(t) == [id |-> t, nickname |-> "own"]

\* An update of t has read the record and not written it.
Shared(s, t) ==
  \E v \in Workers : worker[v].op = "update" /\ worker[v].of = s /\ worker[v].tp = t

Mixed(s, t) ==
  alone' = alone \ {<<s, t>>} /\ expected' = [expected EXCEPT ![s][t] = <<>>]

-----------------------------------------------------------------------------
(***************************************************************************)
(* PUT and POST /api/teleporter at the server of system s.                 *)
(***************************************************************************)
Accepts(s) == "http-server" \in up[s] /\ requests < MaxRequests

InitWrite(w, s, t) ==
  /\ worker[w] = IdleWorker /\ Accepts(s)
  /\ config
  /\ db' = [db EXCEPT ![s][t] = Registered(t)]
  /\ worker' = [worker EXCEPT ![w] = [IdleWorker EXCEPT !.op = "init", !.of = s, !.tp = t]]
  /\ requests' = requests + 1
  /\ IF Shared(s, t) THEN Mixed(s, t)
     ELSE /\ alone' = alone \cup {<<s, t>>}
          /\ expected' = [expected EXCEPT ![s][t] = Registered(t)]
  /\ UNCHANGED <<life, session, acked>>

\* (sips id) throws when no configuration is loaded: 500, nothing written.
InitUnconfigured(w, s, t) ==
  /\ worker[w] = IdleWorker /\ Accepts(s)
  /\ ~config
  /\ requests' = requests + 1
  /\ UNCHANGED <<life, stores, worker, acked, alone, expected>>

\* A client that was stopped subscribes to nothing, if it does not throw.
InitSubscribe(w) ==
  LET s == worker[w].of
      t == worker[w].tp
  IN
  /\ worker[w].op = "init"
  /\ session' = IF "mqtt-client" \in up[s] THEN session \cup {t} ELSE session
  /\ acked' = [acked EXCEPT ![s] = @ \cup {t}]
  /\ worker' = [worker EXCEPT ![w] = IdleWorker]
  /\ UNCHANGED <<life, db, requests, alone, expected>>

\* Variant: the worker is not given back to the pool.
InitFailsKeeps(w) ==
  /\ worker[w].op = "init"
  /\ worker' = [worker EXCEPT ![w].op = "none"]
  /\ UNCHANGED <<life, stores, histories>>
InitFails(w) ==
  /\ worker[w].op = "init"
  /\ worker' = [worker EXCEPT ![w] = IdleWorker]
  /\ UNCHANGED <<life, stores, histories>>

UpdateRead(w, s, t, settings) ==
  /\ worker[w] = IdleWorker /\ Accepts(s)
  /\ worker' = [worker EXCEPT
       ![w] = [op |-> "update", of |-> s, tp |-> t, record |-> db[s][t],
               settings |-> settings]]
  /\ requests' = requests + 1
  /\ IF Shared(s, t) THEN Mixed(s, t) ELSE UNCHANGED <<alone, expected>>
  /\ UNCHANGED <<life, stores, acked>>

UpdateWrite(w) ==
  LET u == worker[w] IN
  /\ u.op = "update"
  /\ db' = [db EXCEPT ![u.of][u.tp] = Merge(u.record, u.settings)]
  /\ worker' = [worker EXCEPT ![w] = IdleWorker]
  /\ expected' = IF <<u.of, u.tp>> \in alone
                   THEN [expected EXCEPT ![u.of][u.tp] = Overlaid(@, u.settings)]
                   ELSE expected
  /\ UNCHANGED <<life, session, requests, acked, alone>>

-----------------------------------------------------------------------------
(***************************************************************************)
(* Systems and their stores.                                               *)
(***************************************************************************)
\* system-map makes a database.  Variant: the database of the JVM is reused.
NewDbReused == IF made = 0 THEN EmptyDb ELSE db[made]
NewDb == EmptyDb

\* External: a client that connects finds the subscriptions of its id, or none.
ConnectsTo ==
  IF \E s \in Systems : "mqtt-client" \in up'[s] \ up[s]
  THEN {session, {}} ELSE {session}

Life ==
  /\ \/ CallInit /\ db' = [db EXCEPT ![made + 1] = NewDb]
     \/ UNCHANGED db /\ (CallStep \/ CallStop \/ \E s \in Systems : Job(s))
  /\ session' \in ConnectsTo
  /\ UNCHANGED <<worker, histories>>

Fresh ==
  /\ worker' = [w \in Workers |-> IdleWorker] /\ requests' = 0
  /\ db' = [s \in Systems |-> EmptyDb] /\ alone' = {}
  /\ acked' = [s \in Systems |-> {}] /\ expected' = [s \in Systems |-> EmptyDb]

Crash == JvmDies /\ Fresh /\ session' \in {session, {}}

Init ==
  /\ LifeInit /\ session = {}
  /\ worker = [w \in Workers |-> IdleWorker] /\ requests = 0
  /\ db = [s \in Systems |-> EmptyDb] /\ alone = {}
  /\ acked = [s \in Systems |-> {}] /\ expected = [s \in Systems |-> EmptyDb]

Handler(w) ==
  \/ \E s \in Systems, t \in Teleporters :
       \/ InitWrite(w, s, t) \/ InitUnconfigured(w, s, t)
       \/ \E settings \in Settings : UpdateRead(w, s, t, settings)
  \/ InitSubscribe(w) \/ InitFails(w) \/ UpdateWrite(w)

Next == Life \/ Crash \/ \E w \in Workers : Handler(w)

Spec == Init /\ [][Next]_vars /\ CallFairness /\ JobFairness

-----------------------------------------------------------------------------
(***************************************************************************)
(* Properties.                                                             *)
(***************************************************************************)
Records == UNION {[keys -> {"own"} \cup Teleporters \cup UNION {{m[k] : k \in DOMAIN m} : m \in Settings}] :
                   keys \in SUBSET {"id", "nickname", "volume"}}

\* The life cycle's variables, the records, the subscriptions and the handlers
\* have the values their code gives them; a history entry has a record.
TypeOK ==
  /\ LifeTypeOK
  /\ db \in [Systems -> [Teleporters -> Records]]
  /\ session \subseteq Teleporters /\ requests \in 0 .. MaxRequests
  /\ \A w \in Workers :
       /\ worker[w].op \in {"none", "init", "update"}
       /\ (worker[w].op = "none") = (worker[w] = IdleWorker)
       /\ worker[w].record \in Records
  /\ acked \in [Systems -> SUBSET Teleporters]
  /\ alone \subseteq Systems \X Teleporters

\* A record is what its requests make of it one after the other, unless a write
\* came between the read and the write of an update: registrations replace it,
\* settings are merged over it, a registration that could not subscribe has
\* written all the same, and neither the other system's handlers nor a restart
\* change it (teleporter/init, teleporter/update).
RecordIsSequential ==
  \A pair \in alone : db[pair[1]][pair[2]] = expected[pair[1]][pair[2]]

(***************************************************************************)
(* The system whose server takes requests, unless init or stop has given   *)
(* it up, seen as the registry of TeleporterRegistry: nothing is heard and *)
(* no jam is played here, which the registry may do as well.               *)
(***************************************************************************)
Serves(s) ==
  /\ "http-server" \in up[s]
  /\ system = s \/ (call.at = "init" /\ call.of = s)

Serving == {s \in Systems : Serves(s)}
Shown(per) == UNION {per[s] : s \in Serving}

Registry == INSTANCE TeleporterRegistry WITH
  OfflineTimeout <- 1,
  record  <- Shown([s \in Systems |-> {t \in Teleporters : db[s][t] # <<>>}]),
  beat    <- [t \in Teleporters |-> -1],
  subs    <- session,
  waiting <- {},
  jams    <- {},
  worker  <- [w \in Workers |-> IF worker[w].of \in Serving
                                 THEN [op |-> worker[w].op, tp |-> worker[w].tp]
                                 ELSE [op |-> "none", tp |-> ""]],
  app     <- [at |-> "none", jams |-> {}, waiting |-> {}, todo |-> {}, tps |-> {},
              of |-> "", stamp |-> -1,
              online |-> {}, status |-> [t \in Teleporters |-> "unlisted"],
              before |-> {}, first |-> [t \in Teleporters |-> -1]],
  acked   <- Shown(acked),
  witness <- [status |-> [t \in Teleporters |-> {}], fresh |-> {}]

\* Whatever systems come and go, the one that serves behaves as one registry:
\* it starts empty, a registration it acknowledges is in its database and its
\* heartbeat topic is subscribed to, and what handlers of an earlier system do
\* shows in its subscriptions only (init.clj, http/server.clj, api/teleporter.clj).
ServesAsRegistry == Registry!Spec
=============================================================================
