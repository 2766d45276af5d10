--------------------------- MODULE PlatformProofs ----------------------------
(***************************************************************************)
(* What holds of the platform for any number of systems, workers,          *)
(* teleporters and requests: first of the life of its systems, whichever   *)
(* parts throw (PlatformLife), then of the whole (Platform).               *)
(***************************************************************************)
EXTENDS Platform, TLAPS

-----------------------------------------------------------------------------
(***************************************************************************)
(* The life of the systems.                                                *)
(***************************************************************************)
Calls == [at : {"idle", "init", "inject", "stop"}, of : Systems \cup {None}]

\* The types, with call as a record.
Typed == LifeTypeOK /\ call \in Calls

\* A part runs only with the parts it uses, and none in a system to come.
Supported ==
  /\ \A s \in Systems : \A p \in up[s] : Using[p] \subseteq up[s]
  /\ \A s \in Systems : s > made => up[s] = {}

\* Where a call stands: what it has done of the system it is about.
CallWhole ==
  /\ call # Idle => call.of \in 1 .. made
  /\ system \in {None} \cup 1 .. made
  /\ call.at = "init" =>
       /\ system = None
       /\ \A p \in up[call.of] : Before[p] \subseteq up[call.of]
       /\ "config" \in up[call.of] => config
  /\ call.at = "inject" => system = call.of /\ up[system] = Parts /\ config
  /\ call.at = "stop" => system = call.of

\* Nothing but the system and what a call is about runs.
Alone ==
  thrown = {} =>
    /\ \A s \in Systems : up[s] # {} => s \in {system, call.of}
    /\ config <=> \E s \in Systems : "config" \in up[s]

\* Nobody but these has the port.
PortFree ==
  "stop" \notin thrown => Running("http-server") \subseteq {system, call.of}

LifeInv == Typed /\ Supported /\ CallWhole /\ RunningIsWhole /\ Alone

-----------------------------------------------------------------------------
\* What a part uses has started before it.
LEMMA UsingBefore == \A p \in Parts : Using[p] \subseteq Before[p]
BY DEF Using, Before, Parts

\* A job of a system changes neither a call nor the parts that run.
LEMMA JobKeeps ==
  ASSUME NEW s \in Systems, Job(s)
  PROVE  UNCHANGED <<calls, up, config>>
BY DEF Job, CheckBegins, CheckEnds, FetchBegins, FetchEnds, FetchInterrupted, calls

\* A JVM begins in order.
LEMMA InitInv == LifeInit => LifeInv
<1> SUFFICES ASSUME LifeInit PROVE LifeInv
  OBVIOUS
<1> USE LifeAssumption DEF LifeInit
<1>1. Typed
  <2> USE DEF Typed, LifeTypeOK, Calls, Idle, None, Systems
  <2>1. (call \in Calls)
    OBVIOUS
  <2>2. (up \in [Systems -> SUBSET Parts])
    OBVIOUS
  <2>3. (config \in BOOLEAN)
    OBVIOUS
  <2>4. (call.of = None <=> call = Idle)
    OBVIOUS
  <2>5. (system \in Systems \cup {None} /\ made \in 0 .. MaxSystems)
    OBVIOUS
  <2> QED
    BY <2>1, <2>2, <2>3, <2>4, <2>5
<1>2. Supported /\ Alone
  BY DEF Supported, Alone
<1>3. CallWhole /\ RunningIsWhole
  BY DEF CallWhole, RunningIsWhole, Runs, Idle, None
<1> QED
  BY <1>1, <1>2, <1>3 DEF LifeInv

\* The death of the JVM leads to the initial state.
LEMMA DiesInv == JvmDies => LifeInv'
<1> SUFFICES ASSUME JvmDies PROVE LifeInv'
  OBVIOUS
<1> USE LifeAssumption DEF JvmDies
<1>1. Typed'
  <2> USE DEF Typed, LifeTypeOK, Calls, Idle, None, Systems
  <2>1. (call \in Calls)'
    OBVIOUS
  <2>2. (up \in [Systems -> SUBSET Parts])'
    OBVIOUS
  <2>3. (config \in BOOLEAN)'
    OBVIOUS
  <2>4. (call.of = None <=> call = Idle)'
    OBVIOUS
  <2>5. (system \in Systems \cup {None} /\ made \in 0 .. MaxSystems)'
    OBVIOUS
  <2> QED
    BY <2>1, <2>2, <2>3, <2>4, <2>5
<1>2. Supported' /\ Alone'
  BY DEF Supported, Alone
<1>3. CallWhole' /\ RunningIsWhole'
  BY DEF CallWhole, RunningIsWhole, Runs, Idle, None
<1> QED
  BY <1>1, <1>2, <1>3 DEF LifeInv

\* The types are kept by every step.
LEMMA TypedStep == Typed /\ [LifeNext]_life => Typed'
<1> SUFFICES ASSUME Typed, [LifeNext]_life PROVE Typed'
  OBVIOUS
<1> USE LifeAssumption DEF Typed, LifeTypeOK, Calls, Idle, None, Systems
<1>1. CASE CallInit
  BY <1>1 DEF CallInit, jobs
<1>2. ASSUME NEW p \in Parts, Start(p) PROVE Typed'
  BY <1>2 DEF Start, Due, calls, jobs
<1>3. ASSUME NEW p \in Parts, StartFails(p) PROVE Typed'
  BY <1>3 DEF StartFails, Due, jobs
<1>4. CASE Started
  BY <1>4 DEF Started, jobs
<1>5. CASE Inject
  <2>1. call.of \in Systems
    BY <1>5 DEF Inject
  <2>2. injected' \subseteq Systems /\ call' = Idle
    BY <1>5, <2>1 DEF Inject
  <2> QED
    BY <1>5, <2>2 DEF Inject, jobs
<1>6. CASE CallStop
  <2>1. call' \in Calls /\ call'.at = "stop" /\ call'.of = system
    BY <1>6 DEF CallStop
  <2> QED
    BY <1>6, <2>1 DEF CallStop, jobs
<1>7. ASSUME NEW p \in Parts, Stop(p) PROVE Typed'
  BY <1>7 DEF Stop, Last, calls, jobs
<1>8. ASSUME NEW p \in Parts, StopFails(p) PROVE Typed'
  BY <1>8 DEF StopFails, Last, jobs
<1>9. CASE Stopped
  BY <1>9 DEF Stopped, jobs
<1>10. ASSUME NEW s \in Systems, Job(s) PROVE Typed'
  BY <1>10 DEF Job, CheckBegins, CheckEnds, FetchBegins, FetchEnds,
    FetchInterrupted, calls
<1>11. CASE JvmDies
  BY <1>11, DiesInv DEF LifeInv
<1>12. CASE UNCHANGED life
  BY <1>12 DEF life, calls, jobs
<1> QED
  BY <1>1, <1>2, <1>3, <1>4, <1>5, <1>6, <1>7, <1>8, <1>9, <1>10, <1>11, <1>12
  DEF LifeNext, CallStep

\* The parts that run, and for how many systems.
LEMMA SupportedStep == Typed /\ Supported /\ CallWhole /\ [LifeNext]_life => Supported'
<1> SUFFICES ASSUME Typed, Supported, CallWhole, [LifeNext]_life PROVE Supported'
  OBVIOUS
<1> USE LifeAssumption DEF Typed, LifeTypeOK, Calls, None, Systems, Supported
<1>1. CASE CallInit
  BY <1>1 DEF CallInit, jobs
<1>2. ASSUME NEW p \in Parts, Start(p) PROVE Supported'
  <2>1. call.of \in 1 .. made
    BY <1>2 DEF Start, Due, CallWhole, Idle
  <2>2. up' = [up EXCEPT ![call.of] = @ \cup {p}] /\ made' = made
    BY <1>2 DEF Start, calls
  <2>3. Using[p] \subseteq up[call.of]
    BY <1>2, UsingBefore DEF Start, Due
  <2> QED
    BY <2>1, <2>2, <2>3
<1>3. ASSUME NEW p \in Parts, Stop(p) \/ StopFails(p) PROVE Supported'
  <2>1. call.of \in 1 .. made /\ (\A q \in up[call.of] : p \notin Using[q])
    BY <1>3 DEF Stop, StopFails, Last, CallWhole, Idle
  <2>2. /\ up' \in {up, [up EXCEPT ![call.of] = @ \ {p}]}
        /\ made' = made
    BY <1>3 DEF Stop, StopFails, calls
  <2>3. CASE up' = up
    BY <2>2, <2>3
  <2>4. CASE up' = [up EXCEPT ![call.of] = @ \ {p}]
    BY <2>1, <2>2, <2>4
  <2> QED
    BY <2>2, <2>3, <2>4
<1>4. ASSUME NEW p \in Parts, StartFails(p) PROVE Supported'
  BY <1>4 DEF StartFails
<1>5. CASE Started \/ Inject \/ CallStop \/ Stopped
  BY <1>5 DEF Started, Inject, CallStop, Stopped
<1>6. ASSUME NEW s \in Systems, Job(s) PROVE Supported'
  BY <1>6, JobKeeps DEF Job, CheckBegins, CheckEnds, FetchBegins, FetchEnds,
    FetchInterrupted, calls
<1>7. CASE JvmDies
  BY <1>7, DiesInv DEF LifeInv
<1>8. CASE UNCHANGED life
  BY <1>8 DEF life, calls
<1> QED
  BY <1>1, <1>2, <1>3, <1>4, <1>5, <1>6, <1>7, <1>8 DEF LifeNext, CallStep

\* What a call has done, and what it leaves when it returns.
LEMMA WholeStep ==
  Typed /\ Supported /\ CallWhole /\ RunningIsWhole /\ [LifeNext]_life
    => CallWhole' /\ RunningIsWhole'
<1> SUFFICES ASSUME Typed, Supported, CallWhole, RunningIsWhole, [LifeNext]_life
             PROVE  CallWhole' /\ RunningIsWhole'
  OBVIOUS
<1> USE LifeAssumption
    DEF Typed, LifeTypeOK, Calls, None, Idle, Systems, CallWhole, RunningIsWhole, Runs
<1>1. CASE CallInit
  BY <1>1 DEF CallInit, Supported
<1>2. ASSUME NEW p \in Parts, Start(p) PROVE CallWhole' /\ RunningIsWhole'
  <2>1. /\ call.at = "init" /\ call.of \in Systems /\ system = None
        /\ call' = call /\ made' = made /\ system' = system
    BY <1>2 DEF Start, Due, calls
  <2>2. "config" \in up'[call.of] => config'
    BY <1>2, <2>1 DEF Start
  <2>3. \A q \in up'[call.of] : Before[q] \subseteq up'[call.of]
    BY <1>2, <2>1 DEF Start, Due
  <2> QED
    BY <2>1, <2>2, <2>3
<1>3. ASSUME NEW p \in Parts, StartFails(p) PROVE CallWhole' /\ RunningIsWhole'
  BY <1>3 DEF StartFails, Due
<1>4. CASE Started
  BY <1>4 DEF Started, Parts
<1>5. CASE Inject
  BY <1>5 DEF Inject
<1>6. CASE CallStop
  BY <1>6 DEF CallStop
<1>7. ASSUME NEW p \in Parts, Stop(p) PROVE CallWhole' /\ RunningIsWhole'
  BY <1>7 DEF Stop, Last, calls
<1>8. ASSUME NEW p \in Parts, StopFails(p) PROVE CallWhole' /\ RunningIsWhole'
  BY <1>8 DEF StopFails, Last
<1>9. CASE Stopped
  BY <1>9 DEF Stopped
<1>10. ASSUME NEW s \in Systems, Job(s) PROVE CallWhole' /\ RunningIsWhole'
  BY <1>10, JobKeeps DEF calls
<1>11. CASE JvmDies
  BY <1>11, DiesInv DEF LifeInv
<1>12. CASE UNCHANGED life
  BY <1>12 DEF life, calls
<1> QED
  BY <1>1, <1>2, <1>3, <1>4, <1>5, <1>6, <1>7, <1>8, <1>9, <1>10, <1>11, <1>12
  DEF LifeNext, CallStep

\* What runs besides the system and the call.
LEMMA AloneStep ==
  Typed /\ Supported /\ CallWhole /\ RunningIsWhole /\ Alone /\ [LifeNext]_life => Alone'
<1> SUFFICES ASSUME Typed, Supported, CallWhole, RunningIsWhole, Alone,
                    [LifeNext]_life, thrown' = {}
             PROVE  /\ \A s \in Systems : up'[s] # {} => s \in {system', call'.of}
                    /\ config' <=> \E s \in Systems : "config" \in up'[s]
  BY DEF Alone
<1> DEFINE Goal == /\ \A s \in Systems : up'[s] # {} => s \in {system', call'.of}
                   /\ config' <=> \E s \in Systems : "config" \in up'[s]
<1>0. ~JvmDies => thrown = {}
  BY DEF LifeNext, CallStep, CallInit, Start, StartFails, Stop, StopFails, Started,
    Inject, CallStop, Stopped, Job, CheckBegins, CheckEnds, FetchBegins, FetchEnds,
    FetchInterrupted, life, calls, Typed, LifeTypeOK
<1> USE LifeAssumption DEF Typed, LifeTypeOK, Calls, None, Systems
<1>1. CASE JvmDies
  BY <1>1, DiesInv DEF LifeInv, Alone
<1>2. CASE ~JvmDies
  <2>0. /\ \A s \in Systems : up[s] # {} => s \in {system, call.of}
        /\ config <=> \E s \in Systems : "config" \in up[s]
    BY <1>0, <1>2 DEF Alone
  <2>1. CASE CallInit
    <3>1. \A s \in Systems : up[s] = {}
      BY <2>0, <2>1 DEF CallInit, Idle
    <3> QED
      BY <2>0, <2>1, <3>1 DEF CallInit
  <2>2. ASSUME NEW p \in Parts, Start(p) PROVE Goal
    <3>1. /\ call.of \in Systems /\ call' = call /\ system' = system
          /\ up' = [up EXCEPT ![call.of] = @ \cup {p}]
      BY <2>2 DEF Start, Due, calls, CallWhole, Idle
    <3>2. \A s \in Systems \ {call.of} : up'[s] = up[s]
      BY <3>1
    <3>3. up'[call.of] = up[call.of] \cup {p}
      BY <3>1
    <3>4. config' <=> (config \/ p = "config")
      BY <2>2, Zenon DEF Start
    <3> QED
      BY <2>0, <3>1, <3>2, <3>3, <3>4
  <2>3. ASSUME NEW p \in Parts, Stop(p) PROVE Goal
    <3>1. /\ call.of \in Systems /\ call' = call /\ system' = system /\ system = call.of
          /\ up' = [up EXCEPT ![call.of] = @ \ {p}]
      BY <2>3 DEF Stop, Last, calls, CallWhole, Idle
    <3>2. \A s \in Systems \ {call.of} : up[s] = {} /\ up'[s] = {}
      BY <2>0, <3>1
    <3>3. up'[call.of] = up[call.of] \ {p}
      BY <3>1
    <3>4. config' <=> (config /\ p # "config")
      BY <2>3, Zenon DEF Stop
    <3> QED
      BY <2>0, <3>1, <3>2, <3>3, <3>4
  <2>4. ASSUME NEW p \in Parts, StartFails(p) \/ StopFails(p) PROVE FALSE
    BY <2>4 DEF StartFails, StopFails
  <2>5. CASE Started \/ Inject \/ CallStop
    BY <2>0, <2>5 DEF Started, Inject, CallStop, CallWhole, Idle
  <2>6. CASE Stopped
    <3>1. \A s \in Systems : up[s] = {}
      BY <2>0, <2>6 DEF Stopped, CallWhole
    <3> QED
      BY <2>0, <2>6, <3>1 DEF Stopped
  <2>7. ASSUME NEW s \in Systems, Job(s) PROVE Goal
    BY <2>0, <2>7, JobKeeps DEF calls
  <2>8. CASE UNCHANGED life
    BY <2>0, <2>8 DEF life, calls
  <2> QED
    BY <1>2, <2>1, <2>2, <2>3, <2>4, <2>5, <2>6, <2>7, <2>8 DEF LifeNext, CallStep
<1> QED
  BY <1>1, <1>2

\* Who has the port.  The parts that start after the server must not throw.
LEMMA PortStep ==
  ASSUME StartThrows \cap {"scheduler", "versionrefresher"} = {},
         LifeInv, PortFree, [LifeNext]_life
  PROVE  PortFree'
<1> USE LifeAssumption DEF LifeInv, Typed, LifeTypeOK, Calls, None, Systems, PortFree, Running
<1>1. CASE CallInit
  BY <1>1 DEF CallInit, Idle
<1>2. ASSUME NEW p \in Parts, Start(p) PROVE PortFree'
  BY <1>2 DEF Start, Due, calls
<1>3. ASSUME NEW p \in Parts, StartFails(p) PROVE PortFree'
  <2>1. call.of \in Systems /\ "http-server" \notin up[call.of]
    <3>1. /\ p \notin up[call.of] /\ call.at = "init"
          /\ \A q \in up[call.of] : Before[q] \subseteq up[call.of]
      BY <1>3 DEF StartFails, Due, CallWhole
    <3>2. p \in {"config", "logger", "mqtt-client", "jam-manager", "http-server"}
      BY <1>3 DEF StartFails, Parts
    <3>3. {"config", "logger", "mqtt-client", "jam-manager"} \subseteq Before["http-server"]
      BY DEF Before, Using, Parts
    <3> QED
      BY <3>1, <3>2, <3>3 DEF Idle
  <2> QED
    BY <1>3, <2>1 DEF StartFails, Idle
<1>4. ASSUME NEW p \in Parts, Stop(p) \/ StopFails(p) PROVE PortFree'
  BY <1>4 DEF Stop, StopFails, Last, calls
<1>5. CASE Started \/ Inject \/ CallStop
  BY <1>5 DEF Started, Inject, CallStop, CallWhole, Idle
<1>6. CASE Stopped
  BY <1>6 DEF Stopped, CallWhole
<1>7. ASSUME NEW s \in Systems, Job(s) PROVE PortFree'
  BY <1>7, JobKeeps DEF calls
<1>8. CASE JvmDies
  BY <1>8 DEF JvmDies
<1>9. CASE UNCHANGED life
  BY <1>9 DEF life, calls
<1> QED
  BY <1>1, <1>2, <1>3, <1>4, <1>5, <1>6, <1>7, <1>8, <1>9 DEF LifeNext, CallStep

-----------------------------------------------------------------------------
(***************************************************************************)
(* The theorems.                                                           *)
(***************************************************************************)
\* The inductive invariant.
THEOREM Invariance == LifeSpec => []LifeInv
<1>1. LifeInit => LifeInv
  BY InitInv
<1>2. LifeInv /\ [LifeNext]_life => LifeInv'
  BY TypedStep, SupportedStep, WholeStep, AloneStep DEF LifeInv
<1> QED
  BY <1>1, <1>2, PTL DEF LifeSpec

\* Every variable keeps its type.
THEOREM LifeTypes == LifeSpec => []LifeTypeOK
BY Invariance, PTL DEF LifeInv, Typed

\* For any number of systems and whichever parts throw, a server or a
\* scheduler that runs has the jam manager and the MQTT client it was given
\* (component/using, init.clj:30-36).
THEOREM NobodyServesAlone == LifeSpec => []NeedsRun
<1>1. LifeInv => NeedsRun
  BY DEF LifeInv, Supported, NeedsRun, Using, Parts
<1> QED
  BY <1>1, Invariance, PTL

\* Between two calls what @system names is whole, whichever start or stop has
\* thrown before (init, init.clj:51-61).
THEOREM SystemIsWhole == LifeSpec => []RunningIsWhole
BY Invariance, PTL DEF LifeInv

\* Starting and stopping leave nothing behind, if the parts that may start
\* after the HTTP server do not throw when they start (init.clj:42-57).
THEOREM LeavesNothing ==
  ASSUME StartThrows \cap {"scheduler", "versionrefresher"} = {}
  PROVE  LifeSpec => []NothingLeft
<1>1. LifeInit => PortFree
  BY DEF LifeInit, PortFree, Running
<1>2. LifeInv /\ PortFree /\ [LifeNext]_life => PortFree'
  BY PortStep
<1>3. LifeInv /\ PortFree => NothingLeft
  <2> SUFFICES ASSUME LifeInv, PortFree, call = Idle PROVE NothingLeft
    BY DEF NothingLeft
  <2> USE DEF LifeInv, Typed, LifeTypeOK, Systems, None, Idle
  <2>1. thrown = {} => \A s \in Systems : s = system \/ up[s] = {}
    BY DEF Alone
  <2>2. thrown = {} => (config <=> system # None)
    BY <2>1 DEF Alone, RunningIsWhole, Runs, Parts
  <2>3. "stop" \notin thrown => Running("http-server") \subseteq {system}
    BY DEF PortFree, Running
  <2> QED
    BY <2>1, <2>2, <2>3 DEF NothingLeft
<1> QED
  BY <1>1, <1>2, <1>3, Invariance, PTL DEF LifeSpec

-----------------------------------------------------------------------------
(***************************************************************************)
(* The platform with its requests.                                         *)
(***************************************************************************)
\* Worker w is to write the record of t at system s.
Updates(w, s, t) ==
  worker[w].op = "update" /\ worker[w].of = s /\ worker[w].tp = t

Table(d) == d = [s \in Systems |-> [t \in Teleporters |-> d[s][t]]]

\* The tables have an entry for each system, teleporter and worker.
Shaped ==
  /\ Table(db) /\ Table(expected)
  /\ worker = [w \in Workers |-> worker[w]]
  /\ alone \subseteq Systems \X Teleporters

\* A record whose history is known is of a system that was made.  One worker at
\* most is to update it, and what that one has read is what is there.
Follows(s, t) ==
  /\ s \in 1 .. made /\ db[s][t] = expected[s][t]
  /\ \A w \in Workers : Updates(w, s, t) => worker[w].record = db[s][t]
  /\ \A v, w \in Workers : Updates(v, s, t) /\ Updates(w, s, t) => v = w

StoresInv ==
  Shaped /\ \A s \in Systems, t \in Teleporters : <<s, t>> \in alone => Follows(s, t)

-----------------------------------------------------------------------------
(***************************************************************************)
(* The platform lives as PlatformLife says.                                *)
(***************************************************************************)
\* Requests leave the parts and the calls alone.
LEMMA HandlerKeeps ==
  ASSUME NEW w \in Workers, Handler(w)
  PROVE  UNCHANGED life
BY DEF Handler, InitWrite, InitUnconfigured, InitSubscribe, InitFails, UpdateRead, UpdateWrite

\* A step of the platform is one of its life, or a request.
LEMMA LifeStep == [Next]_vars => [LifeNext]_life
BY HandlerKeeps DEF Next, Life, Crash, LifeNext, vars

\* The parts, calls and jobs of the platform, with its requests, go through the
\* life PlatformLife describes, its fairness included.
THEOREM LivesOn == Spec => LifeSpec
<1>1. Init => LifeInit
  BY DEF Init
<1> QED
  BY <1>1, LifeStep, PTL DEF Spec, LifeSpec

\* Whoever serves has the jam manager and the MQTT client it was given, also
\* while requests are answered (component/using, init.clj:30-36).
COROLLARY ServersSupported == Spec => []NeedsRun
BY LivesOn, NobodyServesAlone, PTL

-----------------------------------------------------------------------------
(***************************************************************************)
(* Records.                                                                *)
(***************************************************************************)
\* Merging settings into a record lays them over it.
LEMMA MergeIsOver ==
  ASSUME NEW record, NEW settings
  PROVE  Merge(record, settings) = Overlaid(record, settings)
BY DEF Merge, Overlaid

\* A server that takes requests is of a system that was made.
LEMMA AcceptsMade ==
  ASSUME LifeInv, NEW s \in Systems, Accepts(s)
  PROVE  s \in 1 .. made
BY LifeAssumption DEF LifeInv, Supported, Accepts, Typed, LifeTypeOK, Systems

\* Setting one entry leaves a table a table.
LEMMA EntryKept ==
  ASSUME NEW d, Table(d), NEW s, NEW t, NEW value
  PROVE  Table([d EXCEPT ![s][t] = value])
BY DEF Table

\* No history is known at first.
LEMMA StoresStart == Init => StoresInv
BY DEF Init, StoresInv, Shaped, Table, EmptyDb

\* Each request and each step of a system keeps what is known of the records.
LEMMA StoresStep == LifeInv /\ StoresInv /\ [Next]_vars => StoresInv'
<1> SUFFICES ASSUME LifeInv, StoresInv, [Next]_vars PROVE StoresInv'
  OBVIOUS
<1> USE DEF StoresInv, Shaped, Table
<1>1. ASSUME NEW w \in Workers, NEW s \in Systems, NEW t \in Teleporters, InitWrite(w, s, t)
      PROVE  StoresInv'
  <2>1. s \in 1 .. made /\ made' = made
    BY <1>1, AcceptsMade DEF InitWrite, life, calls
  <2>2. /\ worker[w] = IdleWorker
        /\ db' = [db EXCEPT ![s][t] = Registered(t)]
        /\ worker' = [worker EXCEPT ![w] = [IdleWorker EXCEPT !.op = "init", !.of = s, !.tp = t]]
    BY <1>1 DEF InitWrite
  <2>3. \A v \in Workers, r \in Systems, u \in Teleporters :
          Updates(v, r, u)' => v # w /\ Updates(v, r, u) /\ worker'[v] = worker[v]
    BY <2>2 DEF Updates, IdleWorker
  <2>4. CASE Shared(s, t)
    <3>1. alone' = alone \ {<<s, t>>} /\ expected' = [expected EXCEPT ![s][t] = <<>>]
      BY <1>1, <2>4 DEF InitWrite, Mixed
    <3>2. Shaped'
      BY <2>2, <3>1
    <3>3. ASSUME NEW r \in Systems, NEW u \in Teleporters, <<r, u>> \in alone'
          PROVE  Follows(r, u)'
      <4>1. <<r, u>> \in alone /\ (r # s \/ u # t)
        BY <3>1, <3>3
      <4>2. db'[r][u] = db[r][u] /\ expected'[r][u] = expected[r][u]
        BY <2>2, <3>1, <4>1
      <4> QED
        BY <2>1, <2>3, <4>1, <4>2 DEF Follows
    <3> QED
      BY <3>2, <3>3
  <2>5. CASE ~Shared(s, t)
    <3>1. /\ alone' = alone \cup {<<s, t>>}
          /\ expected' = [expected EXCEPT ![s][t] = Registered(t)]
      BY <1>1, <2>5 DEF InitWrite
    <3>2. Shaped'
      <4>1. Table(expected')
        BY <3>1
      <4>2. Table(db')
        BY <2>2
      <4>3. alone' \subseteq Systems \X Teleporters
        BY <3>1
      <4> QED
        BY <2>2, <4>1, <4>2, <4>3
    <3>3. ASSUME NEW r \in Systems, NEW u \in Teleporters, <<r, u>> \in alone'
          PROVE  Follows(r, u)'
      <4>1. CASE r = s /\ u = t
        <5>1. db'[s][t] = expected'[s][t]
          BY <2>2, <3>1
        <5>2. \A v \in Workers : ~Updates(v, s, t)
          BY <2>5 DEF Shared, Updates
        <5> QED
          BY <2>1, <2>3, <4>1, <5>1, <5>2 DEF Follows
      <4>2. CASE r # s \/ u # t
        <5>1. <<r, u>> \in alone
          BY <3>1, <3>3, <4>2
        <5>2. db'[r][u] = db[r][u] /\ expected'[r][u] = expected[r][u]
          BY <2>2, <3>1, <4>2
        <5> QED
          BY <2>1, <2>3, <5>1, <5>2 DEF Follows
      <4> QED
        BY <4>1, <4>2
    <3> QED
      BY <3>2, <3>3
  <2> QED
    BY <2>4, <2>5
<1>2. ASSUME NEW w \in Workers, NEW s \in Systems, NEW t \in Teleporters,
             NEW settings \in Settings, UpdateRead(w, s, t, settings)
      PROVE  StoresInv'
  <2>1. made' = made /\ db' = db
    BY <1>2 DEF UpdateRead, life, calls, stores
  <2>2. /\ worker[w] = IdleWorker
        /\ worker' = [worker EXCEPT ![w] = [op |-> "update", of |-> s, tp |-> t,
                        record |-> db[s][t], settings |-> settings]]
    BY <1>2 DEF UpdateRead
  <2>3. \A v \in Workers, r \in Systems, u \in Teleporters :
          Updates(v, r, u)' => IF v = w THEN r = s /\ u = t /\ worker'[v].record = db[s][t]
                               ELSE Updates(v, r, u) /\ worker'[v] = worker[v]
    BY <2>2 DEF Updates, IdleWorker
  <2>4. CASE Shared(s, t)
    <3>1. alone' = alone \ {<<s, t>>} /\ expected' = [expected EXCEPT ![s][t] = <<>>]
      BY <1>2, <2>4 DEF UpdateRead, Mixed
    <3>2. Shaped'
      BY <2>1, <2>2, <3>1
    <3>3. ASSUME NEW r \in Systems, NEW u \in Teleporters, <<r, u>> \in alone'
          PROVE  Follows(r, u)'
      <4>1. <<r, u>> \in alone /\ (r # s \/ u # t)
        BY <3>1, <3>3
      <4>2. db'[r][u] = db[r][u] /\ expected'[r][u] = expected[r][u]
        BY <2>1, <3>1, <4>1
      <4> QED
        BY <2>1, <2>3, <4>1, <4>2 DEF Follows
    <3> QED
      BY <3>2, <3>3
  <2>5. CASE ~Shared(s, t)
    <3>1. alone' = alone /\ expected' = expected
      BY <1>2, <2>5 DEF UpdateRead
    <3>2. Shaped'
      BY <2>1, <2>2, <3>1
    <3>3. \A v \in Workers : ~Updates(v, s, t)
      BY <2>5 DEF Shared, Updates
    <3> QED
      BY <2>1, <2>3, <3>1, <3>2, <3>3 DEF Follows
  <2> QED
    BY <2>4, <2>5
<1>3. ASSUME NEW w \in Workers, UpdateWrite(w) PROVE StoresInv'
  <2> DEFINE s == worker[w].of
             t == worker[w].tp
  <2>1. /\ made' = made /\ alone' = alone /\ Updates(w, s, t)
        /\ worker' = [worker EXCEPT ![w] = IdleWorker]
        /\ db' = [db EXCEPT ![s][t] = Merge(worker[w].record, worker[w].settings)]
    BY <1>3 DEF UpdateWrite, life, calls, Updates
  <2>2. \A v \in Workers, r \in Systems, u \in Teleporters :
          Updates(v, r, u)' => v # w /\ Updates(v, r, u) /\ worker'[v] = worker[v]
    BY <2>1 DEF Updates, IdleWorker
  <2>3. Table(db')
    <3>1. Table([db EXCEPT ![s][t] = Merge(worker[w].record, worker[w].settings)])
      <4> HIDE DEF Table
      <4> QED
        BY EntryKept
    <3> QED
      <4> HIDE DEF Table
      <4> QED
        BY <2>1, <3>1, Zenon
  <2>4. CASE <<s, t>> \in alone
    <3>1. s \in Systems /\ t \in Teleporters /\ Follows(s, t)
      BY <2>4
    <3>2. expected' = [expected EXCEPT ![s][t] = Overlaid(expected[s][t], worker[w].settings)]
      BY <1>3, <2>4, <3>1 DEF UpdateWrite
    <3>3. db'[s][t] = expected'[s][t]
      <4>1. db'[s][t] = Merge(worker[w].record, worker[w].settings)
        BY <2>1, <3>1
      <4>2. worker[w].record = expected[s][t]
        BY <2>1, <3>1 DEF Follows
      <4>3. expected'[s][t] = Overlaid(expected[s][t], worker[w].settings)
        BY <3>1, <3>2
      <4> QED
        BY <4>1, <4>2, <4>3, MergeIsOver
    <3>4. Shaped'
      <4>1. Table(expected')
        BY <3>2
      <4> QED
        BY <2>1, <2>3, <4>1
    <3>5. ASSUME NEW r \in Systems, NEW u \in Teleporters, <<r, u>> \in alone'
          PROVE  Follows(r, u)'
      <4>1. CASE r = s /\ u = t
        <5>1. \A v \in Workers : ~Updates(v, r, u)'
          BY <2>1, <2>2, <3>1, <4>1 DEF Follows
        <5> QED
          BY <2>1, <3>1, <3>3, <4>1, <5>1 DEF Follows
      <4>2. CASE r # s \/ u # t
        <5>1. db'[r][u] = db[r][u] /\ expected'[r][u] = expected[r][u]
          BY <2>1, <3>1, <3>2, <4>2
        <5> QED
          BY <2>1, <2>2, <3>5, <5>1 DEF Follows
      <4> QED
        BY <4>1, <4>2
    <3> QED
      BY <3>4, <3>5
  <2>5. CASE <<s, t>> \notin alone
    <3>1. expected' = expected
      BY <1>3, <2>5 DEF UpdateWrite
    <3>2. Shaped'
      BY <2>1, <2>3, <3>1
    <3>3. ASSUME NEW r \in Systems, NEW u \in Teleporters, <<r, u>> \in alone'
          PROVE  Follows(r, u)'
      <4>1. <<r, u>> \in alone /\ (r # s \/ u # t)
        BY <2>1, <2>5, <3>3
      <4>2. db'[r][u] = db[r][u]
        BY <2>1, <4>1
      <4> QED
        BY <2>1, <2>2, <3>1, <4>1, <4>2 DEF Follows
    <3> QED
      BY <3>2, <3>3
  <2> QED
    BY <2>4, <2>5
<1>4. ASSUME NEW w \in Workers, InitSubscribe(w) \/ InitFails(w) PROVE StoresInv'
  <2>1. /\ made' = made /\ alone' = alone /\ db' = db /\ expected' = expected
        /\ worker' = [worker EXCEPT ![w] = IdleWorker]
    BY <1>4 DEF InitSubscribe, InitFails, life, calls, stores, histories
  <2>2. \A v \in Workers, r \in Systems, u \in Teleporters :
          Updates(v, r, u)' => Updates(v, r, u) /\ worker'[v] = worker[v]
    BY <2>1 DEF Updates, IdleWorker
  <2>3. Shaped'
    BY <2>1
  <2>4. ASSUME NEW s \in Systems, NEW t \in Teleporters, Follows(s, t)
        PROVE  Follows(s, t)'
    BY <2>1, <2>2, <2>4 DEF Follows
  <2> QED
    BY <2>1, <2>3, <2>4
<1>5. ASSUME NEW w \in Workers, NEW s \in Systems, NEW t \in Teleporters,
             InitUnconfigured(w, s, t)
      PROVE  StoresInv'
  BY <1>5 DEF InitUnconfigured, life, calls, stores, Follows, Updates
<1>6. CASE Life
  <2>1. worker' = worker /\ alone' = alone /\ expected' = expected
    BY <1>6 DEF Life, histories
  <2>2. CASE CallInit /\ db' = [db EXCEPT ![made + 1] = NewDb]
    <3>1. made' = made + 1 /\ made + 1 \in Systems /\ made \in Nat
      BY <2>2, LifeAssumption DEF CallInit, LifeInv, Typed, LifeTypeOK, Systems
    <3>2. Shaped'
      BY <2>1, <2>2, <3>1 DEF NewDb, EmptyDb
    <3>3. ASSUME NEW r \in Systems, NEW u \in Teleporters, <<r, u>> \in alone'
          PROVE  Follows(r, u)'
      <4>1. Follows(r, u) /\ r # made + 1
        BY <2>1, <3>1, <3>3 DEF Follows
      <4>2. db'[r] = db[r] /\ r \in 1 .. made'
        BY <2>2, <3>1, <4>1 DEF Follows
      <4> QED
        BY <2>1, <4>1, <4>2 DEF Follows, Updates
    <3> QED
      BY <3>2, <3>3
  <2>3. CASE UNCHANGED db /\ (CallStep \/ CallStop \/ \E s \in Systems : Job(s))
    <3>1. made' = made
      BY <2>3, JobKeeps DEF CallStep, CallStop, Start, StartFails, Stop, StopFails,
        Started, Inject, Stopped, calls
    <3> QED
      BY <2>1, <2>3, <3>1 DEF Follows, Updates
  <2> QED
    BY <1>6, <2>2, <2>3 DEF Life
<1>7. CASE Crash
  BY <1>7 DEF Crash, Fresh, EmptyDb
<1>8. CASE UNCHANGED vars
  BY <1>8 DEF vars, life, calls, stores, histories, Follows, Updates
<1> QED
  BY <1>1, <1>2, <1>3, <1>4, <1>5, <1>6, <1>7, <1>8 DEF Next, Handler

\* For any number of systems, workers, teleporters and requests a record is what
\* its requests make of it one after the other, unless a write came between the
\* read and the write of an update (teleporter/init, teleporter/update).
THEOREM RecordsAreSequential == Spec => []RecordIsSequential
<1>1. Spec => []LifeInv
  BY LivesOn, Invariance, PTL
<1>2. StoresInv => RecordIsSequential
  BY DEF StoresInv, Shaped, Follows, RecordIsSequential
<1> QED
  BY <1>1, <1>2, StoresStart, StoresStep, PTL DEF Spec

-----------------------------------------------------------------------------
(***************************************************************************)
(* The system that serves is a TeleporterRegistry.                         *)
(***************************************************************************)
\* A worker is idle, or has a request for a system and a teleporter.
Task(task) ==
  \/ task = IdleWorker
  \/ /\ task.op \in {"init", "update"} /\ task.of \in Systems /\ task.tp \in Teleporters
     /\ task.op = "update" => task.settings \in Settings

\* Nobody has asked system s for anything.
Untouched(s) ==
  db[s] = EmptyDb /\ acked[s] = {} /\ \A w \in Workers : worker[w].of # s

\* System s never took requests.
Silent(s) == s > made \/ (call.at = "init" /\ call.of = s /\ "http-server" \notin up[s])

RegistryInv ==
  /\ Table(db) /\ worker = [w \in Workers |-> worker[w]]
  /\ acked \in [Systems -> SUBSET Teleporters]
  /\ session \subseteq Teleporters
  /\ \A w \in Workers : Task(worker[w])
  /\ \A s \in Systems : Silent(s) => Untouched(s)

\* An idle worker has no system.
LEMMA IdleTask == IdleWorker.op = "none" /\ IdleWorker.of = None /\ None \notin Systems
BY LifeAssumption DEF IdleWorker, None, Systems

\* At first no handler runs and every database is empty.
LEMMA RegistryStart == Init => RegistryInv
<1> SUFFICES ASSUME Init PROVE RegistryInv
  OBVIOUS
<1> USE DEF Init
<1>1. \A s \in Systems : Untouched(s)
  BY IdleTask DEF Untouched
<1>2. \A w \in Workers : Task(worker[w])
  BY DEF Task
<1> QED
  BY <1>1, <1>2 DEF RegistryInv, Table, EmptyDb

\* A system that takes requests was made, and is not silent.
LEMMA AcceptsHeard ==
  ASSUME LifeInv, NEW s \in Systems, Accepts(s)
  PROVE  ~Silent(s)
<1>1. s \in 1 .. made
  BY AcceptsMade
<1> QED
  BY <1>1, LifeAssumption DEF Silent, Accepts, LifeInv, Typed, LifeTypeOK, Systems

\* No step of the platform disturbs the invariant of its handlers and stores.
LEMMA RegistryStep == LifeInv /\ RegistryInv /\ [Next]_vars => RegistryInv'
<1> SUFFICES ASSUME LifeInv, RegistryInv, [Next]_vars PROVE RegistryInv'
  OBVIOUS
<1> USE DEF RegistryInv, Table
<1>1. ASSUME NEW w \in Workers, NEW s \in Systems, NEW t \in Teleporters, InitWrite(w, s, t)
      PROVE  RegistryInv'
  <2>1. ~Silent(s)
    BY <1>1, AcceptsHeard DEF InitWrite
  <2>2. /\ db' = [db EXCEPT ![s][t] = Registered(t)] /\ UNCHANGED <<life, session, acked>>
        /\ worker' = [worker EXCEPT ![w] = [IdleWorker EXCEPT !.op = "init", !.of = s, !.tp = t]]
    BY <1>1 DEF InitWrite
  <2>3. \A r \in Systems : Silent(r)' => Silent(r) /\ r # s
    BY <2>1, <2>2 DEF Silent, life, calls
  <2>4. \A r \in Systems : Silent(r)' => Untouched(r)'
    BY <2>2, <2>3 DEF Untouched, IdleWorker
  <2>5. \A v \in Workers : Task(worker'[v])
    BY <2>2 DEF Task, IdleWorker
  <2> QED
    BY <2>2, <2>4, <2>5
<1>2. ASSUME NEW w \in Workers, NEW s \in Systems, NEW t \in Teleporters,
             NEW settings \in Settings, UpdateRead(w, s, t, settings)
      PROVE  RegistryInv'
  <2>1. ~Silent(s)
    BY <1>2, AcceptsHeard DEF UpdateRead
  <2>2. /\ UNCHANGED <<life, db, session, acked>>
        /\ worker' = [worker EXCEPT ![w] = [op |-> "update", of |-> s, tp |-> t,
                        record |-> db[s][t], settings |-> settings]]
    BY <1>2 DEF UpdateRead, stores
  <2>3. \A r \in Systems : Silent(r)' => Silent(r) /\ r # s
    BY <2>1, <2>2 DEF Silent, life, calls
  <2>4. \A r \in Systems : Silent(r)' => Untouched(r)'
    BY <2>2, <2>3 DEF Untouched, IdleWorker
  <2>5. \A v \in Workers : Task(worker'[v])
    BY <2>2 DEF Task, IdleWorker
  <2> QED
    BY <2>2, <2>4, <2>5
<1>3. ASSUME NEW w \in Workers, InitSubscribe(w) \/ InitFails(w) \/ UpdateWrite(w)
      PROVE  RegistryInv'
  <2> DEFINE s == worker[w].of
  <2>1. s \in Systems /\ worker[w].tp \in Teleporters
    BY IdleTask, <1>3 DEF InitSubscribe, InitFails, UpdateWrite, Task
  <2>2. ~Silent(s)
    BY <2>1 DEF Untouched
  <2>3. UNCHANGED life /\ worker' = [worker EXCEPT ![w] = IdleWorker]
    BY <1>3 DEF InitSubscribe, InitFails, UpdateWrite
  <2>4. \A r \in Systems : Silent(r)' => Silent(r) /\ r # s
    BY <2>2, <2>3 DEF Silent, life, calls
  <2>5. \A v \in Workers : Task(worker'[v])
    BY <2>3 DEF Task
  <2>6. /\ Table(db)' /\ acked' \in [Systems -> SUBSET Teleporters]
        /\ session' \subseteq Teleporters
        /\ \A r \in Systems : r # s => db'[r] = db[r] /\ acked'[r] = acked[r]
    <3>1. CASE InitSubscribe(w)
      BY <2>1, <3>1 DEF InitSubscribe
    <3>2. CASE InitFails(w)
      BY <3>2 DEF InitFails, stores, histories
    <3>3. CASE UpdateWrite(w)
      <4>1. Table([db EXCEPT ![worker[w].of][worker[w].tp] = Merge(worker[w].record, worker[w].settings)])
        <5> HIDE DEF Table
        <5> QED
          BY EntryKept
      <4> QED
        BY <3>3, <4>1 DEF UpdateWrite
    <3> QED
      BY <1>3, <3>1, <3>2, <3>3
  <2>7. \A r \in Systems : Silent(r)' => Untouched(r)'
    BY IdleTask, <2>3, <2>4, <2>6 DEF Untouched
  <2> QED
    BY <2>3, <2>5, <2>6, <2>7
<1>4. ASSUME NEW w \in Workers, NEW s \in Systems, NEW t \in Teleporters,
             InitUnconfigured(w, s, t)
      PROVE  RegistryInv'
  BY <1>4 DEF InitUnconfigured, life, calls, stores, Untouched, Silent
<1>5. CASE Life
  <2>1. worker' = worker /\ acked' = acked /\ session' \subseteq Teleporters
    BY <1>5 DEF Life, histories, ConnectsTo
  <2>2. made \in Nat /\ Systems \subseteq Nat
    BY LifeAssumption DEF LifeInv, Typed, LifeTypeOK, Systems
  <2>3. CASE CallInit /\ db' = [db EXCEPT ![made + 1] = NewDb]
    <3>1. made' = made + 1 /\ call' = [at |-> "init", of |-> made + 1] /\ up' = up
      BY <2>3 DEF CallInit
    <3>2. \A s \in Systems : Silent(s)' => s > made
      BY <2>2, <3>1 DEF Silent
    <3>3. \A s \in Systems : Silent(s)' => Untouched(s)'
      BY <2>1, <2>3, <3>2 DEF Silent, Untouched, NewDb
    <3>4. Table(db)'
      BY <2>3 DEF NewDb, EmptyDb
    <3> QED
      BY <2>1, <3>3, <3>4
  <2>4. CASE UNCHANGED db /\ (CallStep \/ CallStop \/ \E s \in Systems : Job(s))
    <3>1. \A s \in Systems : Silent(s)' => Silent(s)
      <4>1. CASE \E p \in Parts : Start(p)
        BY <2>2, <4>1 DEF Start, Due, Silent, LifeInv, Typed, LifeTypeOK, calls
      <4>2. CASE \E s \in Systems : Job(s)
        BY <4>2, JobKeeps DEF calls, Silent
      <4>3. CASE made' = made /\ call'.at # "init"
        BY <4>3 DEF Silent
      <4>4. CASE \E p \in Parts : Stop(p)
        BY <4>4, <2>2 DEF Stop, Last, Silent, calls
      <4>5. ASSUME NEW p \in Parts, StartFails(p) \/ StopFails(p)
            PROVE  made' = made /\ call'.at # "init"
        BY <4>5 DEF StartFails, StopFails, Idle
      <4>6. ASSUME Started \/ Inject \/ Stopped \/ CallStop
            PROVE  made' = made /\ call'.at # "init"
        BY <4>6 DEF Started, Inject, Stopped, CallStop, Idle, LifeInv, Typed, Calls
      <4> QED
        BY <2>4, <4>1, <4>2, <4>3, <4>4, <4>5, <4>6 DEF CallStep
    <3> QED
      BY <2>1, <2>4, <3>1 DEF Untouched
  <2> QED
    BY <1>5, <2>3, <2>4 DEF Life
<1>6. CASE Crash
  BY IdleTask, <1>6 DEF Crash, Fresh, EmptyDb, Untouched, Task
<1>7. CASE UNCHANGED vars
  BY <1>7 DEF vars, life, calls, stores, histories, Untouched, Silent
<1> QED
  BY <1>1, <1>2, <1>3, <1>4, <1>5, <1>6, <1>7 DEF Next, Handler

-----------------------------------------------------------------------------
\* One system at most serves, and its client runs.
LEMMA OneServes ==
  ASSUME LifeInv, NEW s \in Serving
  PROVE  Serving = {s} /\ {"mqtt-client", "http-server"} \subseteq up[s] /\ s \in Systems
<1>1. \A r \in Serving : r = IF system # None THEN system ELSE call.of
  BY LifeAssumption DEF Serving, Serves, LifeInv, CallWhole, None, Systems
<1>2. s \in Systems /\ "http-server" \in up[s]
  BY DEF Serving, Serves
<1>3. "mqtt-client" \in up[s]
  BY <1>2 DEF LifeInv, Supported, Using, Parts, Typed, LifeTypeOK
<1> QED
  BY <1>1, <1>2, <1>3

\* The registry that is seen watches nothing.
LEMMA NothingWatched == Registry!Observe
BY DEF Registry!Observe, Registry!NoWitness

\* When nobody serves any more, the registry forgets everything.
LEMMA NobodyServes ==
  ASSUME Serving' = {}, session' \subseteq session
  PROVE  Registry!Next
<1>1. Registry!Reload
  BY DEF Registry!Reload, Shown, Registry!IdleWorker, Registry!IdleApp, Registry!Absent
<1> QED
  BY <1>1, NothingWatched DEF Registry!Next, Registry!Event

\* The records shown are those of the systems that serve.
LEMMA SameShown ==
  ASSUME Serving' = Serving, \A s \in Serving : db'[s] = db[s]
  PROVE  Shown([s \in Systems |-> {t \in Teleporters : db[s][t] # <<>>}])
           = Shown([s \in Systems |-> {t \in Teleporters : db[s][t] # <<>>}])'
<1>1. Serving \subseteq Systems
  BY DEF Serving
<1>2. \A s \in Serving : {t \in Teleporters : db[s][t] # <<>>}
                          = {t \in Teleporters : db'[s][t] # <<>>}
  OBVIOUS
<1> QED
  BY <1>1, <1>2 DEF Shown

\* What is seen of a serving system does not change when nothing of it does.
LEMMA NothingSeen ==
  ASSUME Serving' = Serving, session' = session,
         \A s \in Serving : db'[s] = db[s] /\ acked'[s] = acked[s],
         \A w \in Workers : \/ worker'[w] = worker[w]
                            \/ worker[w].of \notin Serving /\ worker'[w].of \notin Serving
  PROVE  UNCHANGED Registry!vars
<1>2. Shown([s \in Systems |-> {t \in Teleporters : db[s][t] # <<>>}])
        = Shown([s \in Systems |-> {t \in Teleporters : db[s][t] # <<>>}])'
  BY SameShown
<1>3. Shown(acked) = Shown(acked)'
  BY DEF Shown
<1> QED
  BY <1>2, <1>3 DEF Registry!vars

\* A system that has just begun to serve has nothing to show.
LEMMA BeginsToServe ==
  ASSUME Serving = {}, NEW s \in Systems, Serving' = {s}, session' = session,
         db'[s] = EmptyDb, acked'[s] = {}, \A w \in Workers : worker'[w].of # s
  PROVE  UNCHANGED Registry!vars
<1>1. {t \in Teleporters : db'[s][t] # <<>>} = {}
  BY DEF EmptyDb
<1>2. Shown([r \in Systems |-> {t \in Teleporters : db[r][t] # <<>>}]) = {} /\ Shown(acked) = {}
  BY DEF Shown
<1>3. Shown([r \in Systems |-> {t \in Teleporters : db[r][t] # <<>>}])' = {}
  BY <1>1 DEF Shown
<1>4. Shown(acked)' = {}
  BY DEF Shown
<1> QED
  BY <1>2, <1>3, <1>4 DEF Registry!vars

\* Systems that come and go show as a registry that goes on or begins anew.
LEMMA LifeShows ==
  ASSUME LifeInv, RegistryInv, Life
  PROVE  [Registry!Next]_(Registry!vars)
<1>1. worker' = worker /\ acked' = acked /\ session' \in ConnectsTo
  BY DEF Life, histories
<1>2. session' \subseteq session
  BY <1>1 DEF ConnectsTo
<1>3. CASE Serving' = {}
  BY <1>2, <1>3, NobodyServes
<1>4. CASE \E p \in Parts : Start(p)
  <2>1. PICK p \in Parts : Start(p)
    BY <1>4
  <2> DEFINE s == call.of
  <2>2. /\ call.at = "init" /\ p \notin up[s] /\ UNCHANGED <<calls, jobs>> /\ s \in Systems
        /\ Before[p] \subseteq up[s] /\ system = None /\ system' = None /\ call' = call
        /\ up' = [up EXCEPT ![s] = @ \cup {p}]
    <3>1. s \in Systems
      BY <2>1, LifeAssumption DEF Start, Due, LifeInv, CallWhole, Systems, Typed, LifeTypeOK, Idle
    <3> QED
      BY <2>1, <3>1 DEF Start, Due, LifeInv, CallWhole, calls
  <2>3. \A r \in Systems : up'[r] = IF r = s THEN up[r] \cup {p} ELSE up[r]
    BY <2>2 DEF LifeInv, Typed, LifeTypeOK
  <2>4. None \notin Systems
    BY LifeAssumption DEF None, Systems
  <2>5. Serving = IF "http-server" \in up[s] THEN {s} ELSE {}
    BY <2>2, <2>4 DEF Serving, Serves
  <2>6. Serving' = IF "http-server" \in up'[s] THEN {s} ELSE {}
    BY <2>2, <2>4 DEF Serving, Serves
  <2>7. db' = db
    BY <2>2 DEF Life, CallInit, Idle
  <2>8. CASE "http-server" \in up[s]
    <3>1. "mqtt-client" \in up[s]
      BY <2>5, <2>8, OneServes
    <3>2. session' = session
      BY <1>1, <2>2, <2>3, <3>1 DEF ConnectsTo
    <3>3. Serving' = Serving
      BY <2>3, <2>2, <2>5, <2>6, <2>8
    <3> QED
      BY <1>1, <2>7, <3>2, <3>3, NothingSeen
  <2>9. CASE "http-server" \notin up[s] /\ p = "http-server"
    <3>1. session' = session
      <4>1. ASSUME NEW r \in Systems PROVE "mqtt-client" \notin up'[r] \ up[r]
        <5>1. up'[r] = up[r] \cup {p} \/ up'[r] = up[r]
          BY <2>3
        <5> QED
          BY <2>9, <5>1
      <4> QED
        BY <1>1, <4>1 DEF ConnectsTo
    <3>2. Untouched(s)
      BY <2>2, <2>9 DEF RegistryInv, Silent
    <3> QED
      <4>1. Serving = {} /\ Serving' = {s}
        BY <2>2, <2>3, <2>5, <2>6, <2>9
      <4> QED
        BY <1>1, <2>2, <2>7, <3>1, <3>2, <4>1, BeginsToServe DEF Untouched
  <2> QED
    BY <1>3, <2>2, <2>3, <2>6, <2>8, <2>9
<1>5. CASE UNCHANGED db /\ session' = session /\ Serving' = Serving
  BY <1>1, <1>5, NothingSeen
<1>6. CASE CallInit
  <2>1. made + 1 \in Systems /\ made + 1 > made
    BY <1>6, LifeAssumption DEF CallInit, LifeInv, Typed, LifeTypeOK, Systems
  <2>2. up[made + 1] = {}
    BY <2>1 DEF LifeInv, Supported
  <2>3. Serving' = {}
    BY <1>6, <2>1, <2>2, LifeAssumption DEF CallInit, Serving, Serves, None, Systems
  <2> QED
    BY <1>3, <2>3
<1>7. ASSUME NEW p \in Parts, Stop(p)
      PROVE  session' = session /\ (Serving' = Serving \/ Serving' = {})
  <2>1. /\ call.at = "stop" /\ call' = call /\ system' = system
        /\ up' = [up EXCEPT ![call.of] = @ \ {p}] /\ system = call.of
    BY <1>7 DEF Stop, Last, calls, LifeInv, CallWhole
  <2>2. \A r \in Systems : up'[r] = IF r = call.of THEN up[r] \ {p} ELSE up[r]
    BY <2>1 DEF LifeInv, Typed, LifeTypeOK
  <2>3. session' = session
    BY <1>1, <2>2 DEF ConnectsTo
  <2>4. Serving = {r \in Systems : r = system /\ "http-server" \in up[r]}
    BY <2>1 DEF Serving, Serves
  <2>5. Serving' = {r \in Systems : r = system /\ "http-server" \in up'[r]}
    BY <2>1 DEF Serving, Serves
  <2> QED
    BY <2>2, <2>3, <2>4, <2>5
<1>8. ASSUME NEW p \in Parts, StartFails(p) \/ StopFails(p)
      PROVE  Serving' = {}
  <2>1. call' = Idle /\ system' = None
    BY <1>8 DEF StartFails, StopFails, Due, LifeInv, CallWhole
  <2> QED
    BY <2>1, LifeAssumption DEF Serving, Serves, Idle, None, Systems
<1>9. CASE Started \/ Inject \/ CallStop \/ \E s \in Systems : Job(s)
  <2>1. up' = up
    BY <1>9, JobKeeps DEF Started, Inject, CallStop
  <2>2. session' = session
    BY <1>1, <2>1 DEF ConnectsTo
  <2>3. Serving' = Serving
    <3>1. CASE Started
      BY <2>1, <3>1, LifeAssumption DEF Started, Serving, Serves, LifeInv, CallWhole, None, Systems,
        Typed, Calls
    <3>2. CASE Inject
      BY <2>1, <3>2 DEF Inject, Serving, Serves, Idle
    <3>3. CASE CallStop
      BY <2>1, <3>3 DEF CallStop, Serving, Serves, Idle
    <3>4. CASE \E s \in Systems : Job(s)
      BY <2>1, <3>4, JobKeeps DEF calls, Serving, Serves
    <3> QED
      BY <1>9, <3>1, <3>2, <3>3, <3>4
  <2>4. db' = db
    BY <1>9, JobKeeps DEF Life, CallInit, Started, Inject, CallStop, calls, LifeInv, Typed, LifeTypeOK, Idle
  <2> QED
    BY <1>5, <2>2, <2>3, <2>4
<1>10. CASE Stopped
  <2>1. Serving' = {}
    BY <1>10, LifeAssumption DEF Stopped, Serving, Serves, Idle, None, Systems
  <2> QED
    BY <1>3, <2>1
<1>11. ASSUME NEW p \in Parts, Stop(p) PROVE db' = db
  BY <1>11 DEF Life, CallInit, Stop, Last, Idle
<1> QED
  BY <1>3, <1>4, <1>5, <1>6, <1>7, <1>8, <1>9, <1>10, <1>11 DEF Life, CallStep

\* A restart of the JVM shows as a restart or as a new beginning.
LEMMA CrashShows ==
  ASSUME Crash
  PROVE  [Registry!Next]_(Registry!vars)
<1>1. Serving' = {} /\ session' \subseteq session
  BY LifeAssumption DEF Crash, JvmDies, Serving, Serves, Idle, None, Systems
<1> QED
  BY <1>1, NobodyServes

\* A request of a system that does not serve shows in the subscriptions only.
LEMMA OthersShow ==
  ASSUME Serving' = Serving, \A s \in Serving : db'[s] = db[s] /\ acked'[s] = acked[s],
         NEW w \in Workers, worker[w].of \notin Serving, worker'[w].of \notin Serving,
         \A v \in Workers \ {w} : worker'[v] = worker[v],
         NEW t \in Teleporters, session' \in {session, session \cup {t}}
  PROVE  [Registry!Next]_(Registry!vars)
<1>1. CASE session' = session
  BY <1>1, NothingSeen
<1>2. CASE session' = session \cup {t}
  <2>2. Shown([s \in Systems |-> {u \in Teleporters : db[s][u] # <<>>}])
          = Shown([s \in Systems |-> {u \in Teleporters : db[s][u] # <<>>}])'
    BY SameShown
  <2>3. Shown(acked) = Shown(acked)'
    BY DEF Shown
  <2>4. [v \in Workers |-> IF worker[v].of \in Serving
                            THEN [op |-> worker[v].op, tp |-> worker[v].tp]
                            ELSE [op |-> "none", tp |-> ""]]
          = [v \in Workers |-> IF worker[v].of \in Serving
                            THEN [op |-> worker[v].op, tp |-> worker[v].tp]
                            ELSE [op |-> "none", tp |-> ""]]'
    OBVIOUS
  <2>5. Registry!Stray(t)
    BY <1>2, <2>2, <2>3, <2>4 DEF Registry!Stray, Registry!jamdb
  <2> QED
    BY <2>5, NothingWatched DEF Registry!Next, Registry!Event
<1> QED
  BY <1>1, <1>2

\* A request of the system that serves is one of the registry.
Shows(s) == {t \in Teleporters : db[s][t] # <<>>}

\* While one system serves, before and after a step, the registry shows its database.
LEMMA View ==
  ASSUME NEW s \in Systems, Serving = {s}, Serving' = {s}
  PROVE  /\ Shown([r \in Systems |-> {t \in Teleporters : db[r][t] # <<>>}]) = Shows(s)
         /\ Shown([r \in Systems |-> {t \in Teleporters : db[r][t] # <<>>}])' = Shows(s)'
         /\ Shown(acked) = acked[s] /\ Shown(acked)' = acked'[s]
BY DEF Shown, Shows

\* A step of a handler is that of the registry's handler if its system serves,
\* a Stray or nothing if it does not.
LEMMA HandlerShows ==
  ASSUME LifeInv, RegistryInv, \A m \in Settings : DOMAIN m # {},
         NEW w \in Workers, Handler(w)
  PROVE  [Registry!Next]_(Registry!vars)
<1>0. Serving' = Serving /\ Serving \subseteq Systems
  BY HandlerKeeps DEF Serving, Serves, life, calls
<1> DEFINE seen == [v \in Workers |-> IF worker[v].of \in Serving
                                      THEN [op |-> worker[v].op, tp |-> worker[v].tp]
                                      ELSE [op |-> "none", tp |-> ""]]
<1>a. Task(worker[w]) /\ worker = [v \in Workers |-> worker[v]] /\ Table(db)
      /\ acked \in [Systems -> SUBSET Teleporters]
  BY DEF RegistryInv
<1>b. ASSUME Registry!Handler(w) \/ \E t \in Teleporters : Registry!Stray(t)
      PROVE  Registry!Next
  BY <1>b, NothingWatched DEF Registry!Next, Registry!Event
<1>1. ASSUME NEW s \in Systems, NEW t \in Teleporters, InitWrite(w, s, t)
      PROVE  [Registry!Next]_(Registry!vars)
  <2>1. /\ db' = [db EXCEPT ![s][t] = Registered(t)] /\ UNCHANGED <<session, acked>>
        /\ worker[w] = IdleWorker
        /\ worker' = [worker EXCEPT ![w] = [IdleWorker EXCEPT !.op = "init", !.of = s, !.tp = t]]
    BY <1>1 DEF InitWrite
  <2>2. worker'[w].of = s /\ worker'[w].op = "init" /\ worker'[w].tp = t
        /\ \A v \in Workers \ {w} : worker'[v] = worker[v]
    BY <1>a, <2>1 DEF IdleWorker
  <2>3. CASE s \notin Serving
    <3>1. \A r \in Serving : db'[r] = db[r] /\ acked'[r] = acked[r]
      BY <1>a, <2>1, <2>3 DEF Table
    <3>2. worker[w].of \notin Serving
      BY <1>0, <2>1, IdleTask
    <3> QED
      BY <1>0, <2>1, <2>2, <2>3, <3>1, <3>2, OthersShow
  <2>4. CASE s \in Serving
    <3>1. Serving = {s} /\ Serving' = {s}
      BY <1>0, <2>4, OneServes
    <3>2. Registered(t) # <<>>
      BY DEF Registered
    <3>3. Shows(s)' = Shows(s) \cup {t}
      BY <1>a, <2>1, <3>2 DEF Shows, Table
    <3>4. seen[w] = [op |-> "none", tp |-> ""]
      BY <1>0, <2>1, IdleTask
    <3>5. seen' = [seen EXCEPT ![w] = [op |-> "init", tp |-> t]]
      BY <2>2, <3>1
    <3> HIDE DEF seen
    <3>6. Registry!InitWrite(w, t)
      BY <2>1, <3>1, <3>3, <3>4, <3>5, View
      DEF seen, Registry!InitWrite, Registry!IdleWorker, Registry!jamdb
    <3> QED
      BY <1>b, <3>6 DEF Registry!Handler
  <2> QED
    BY <2>3, <2>4
<1>2. ASSUME NEW s \in Systems, NEW t \in Teleporters, NEW settings \in Settings,
             UpdateRead(w, s, t, settings)
      PROVE  [Registry!Next]_(Registry!vars)
  <2>1. /\ UNCHANGED <<db, session, acked>> /\ worker[w] = IdleWorker
        /\ worker' = [worker EXCEPT ![w] = [op |-> "update", of |-> s, tp |-> t,
                        record |-> db[s][t], settings |-> settings]]
    BY <1>2 DEF UpdateRead, stores
  <2>2. worker'[w].of = s /\ worker'[w].op = "update" /\ worker'[w].tp = t
        /\ \A v \in Workers \ {w} : worker'[v] = worker[v]
    BY <1>a, <2>1
  <2>3. CASE s \notin Serving
    <3>1. worker[w].of \notin Serving
      BY <1>0, <2>1, IdleTask
    <3> QED
      BY <1>0, <2>1, <2>2, <2>3, <3>1, OthersShow
  <2>4. CASE s \in Serving
    <3>1. Serving = {s} /\ Serving' = {s}
      BY <1>0, <2>4, OneServes
    <3>2. Shows(s)' = Shows(s)
      BY <2>1 DEF Shows
    <3>3. seen[w] = [op |-> "none", tp |-> ""]
      BY <1>0, <2>1, IdleTask
    <3>4. seen' = [seen EXCEPT ![w] = [op |-> "update", tp |-> t]]
      BY <2>2, <3>1
    <3> HIDE DEF seen
    <3>5. Registry!UpdateRead(w, t)
      BY <2>1, <3>1, <3>2, <3>3, <3>4, View
      DEF seen, Registry!UpdateRead, Registry!IdleWorker, Registry!jamdb, Registry!stores
    <3> QED
      BY <1>b, <3>5 DEF Registry!Handler
  <2> QED
    BY <2>3, <2>4
<1>3. ASSUME InitSubscribe(w) \/ InitFails(w) \/ UpdateWrite(w)
      PROVE  [Registry!Next]_(Registry!vars)
  <2>0. PICK s \in Systems, t \in Teleporters : s = worker[w].of /\ t = worker[w].tp
    BY <1>3, <1>a, IdleTask DEF InitSubscribe, InitFails, UpdateWrite, Task
  <2>1. s = worker[w].of /\ t = worker[w].tp /\ worker' = [worker EXCEPT ![w] = IdleWorker]
    BY <1>3, <2>0 DEF InitSubscribe, InitFails, UpdateWrite
  <2>2. worker'[w].of \notin Serving /\ \A v \in Workers \ {w} : worker'[v] = worker[v]
    BY <1>0, <1>a, <2>1, IdleTask
  <2>3. session' \in {session, session \cup {t}}
    BY <1>3, <2>1 DEF InitSubscribe, InitFails, UpdateWrite, stores
  <2>4. \A r \in Systems \ {s} : db'[r] = db[r] /\ acked'[r] = acked[r]
    BY <1>3, <1>a, <2>1 DEF InitSubscribe, InitFails, UpdateWrite, stores, histories, Table
  <2>5. CASE s \notin Serving
    <3>1. \A r \in Serving : db'[r] = db[r] /\ acked'[r] = acked[r]
      BY <1>0, <2>4, <2>5
    <3> QED
      BY <1>0, <2>1, <2>2, <2>3, <2>5, <3>1, OthersShow
  <2>6. CASE s \in Serving
    <3>1. Serving = {s} /\ Serving' = {s} /\ "mqtt-client" \in up[s]
      BY <1>0, <2>6, OneServes
    <3>2. seen[w] = [op |-> worker[w].op, tp |-> t]
      BY <2>1, <3>1
    <3>3. seen' = [seen EXCEPT ![w] = [op |-> "none", tp |-> ""]]
      BY <2>2, <3>1
    <3> HIDE DEF seen
    <3>4. ASSUME InitSubscribe(w) PROVE Registry!InitSubscribe(w)
      <4>1. /\ session' = session \cup {t} /\ db' = db /\ worker[w].op = "init"
            /\ acked'[s] = acked[s] \cup {t}
        BY <1>a, <2>1, <3>1, <3>4 DEF InitSubscribe
      <4>2. Shows(s)' = Shows(s)
        BY <4>1 DEF Shows
      <4> QED
        BY <2>1, <3>1, <3>2, <3>3, <4>1, <4>2, View
        DEF seen, Registry!InitSubscribe, Registry!IdleWorker, Registry!jamdb
    <3>5. ASSUME InitFails(w) PROVE Registry!InitFails(w)
      <4>1. /\ session' = session /\ db' = db /\ worker[w].op = "init" /\ acked' = acked
        BY <3>5 DEF InitFails, stores, histories
      <4>2. Shows(s)' = Shows(s)
        BY <4>1 DEF Shows
      <4> QED
        BY <2>1, <3>1, <3>2, <3>3, <4>1, <4>2, View
        DEF seen, Registry!InitFails, Registry!IdleWorker, Registry!jamdb, Registry!stores
    <3>6. ASSUME UpdateWrite(w) PROVE Registry!UpdateWrite(w)
      <4>1. /\ session' = session /\ worker[w].op = "update" /\ acked' = acked
            /\ db' = [db EXCEPT ![s][t] = Merge(worker[w].record, worker[w].settings)]
        BY <2>1, <3>6 DEF UpdateWrite
      <4>2. Merge(worker[w].record, worker[w].settings) # <<>>
        <5>1. DOMAIN worker[w].settings # {}
          BY <1>a, <4>1, IdleTask DEF Task
        <5>2. DOMAIN Merge(worker[w].record, worker[w].settings) # {}
          BY <5>1 DEF Merge
        <5> QED
          BY <5>2
      <4>3. Shows(s)' = Shows(s) \cup {t}
        BY <1>a, <2>1, <4>1, <4>2 DEF Shows, Table
      <4> QED
        BY <2>1, <3>1, <3>2, <3>3, <4>1, <4>3, View
        DEF seen, Registry!UpdateWrite, Registry!IdleWorker, Registry!jamdb
    <3> QED
      BY <1>3, <1>b, <3>4, <3>5, <3>6 DEF Registry!Handler
  <2> QED
    BY <2>5, <2>6
<1>4. ASSUME NEW s \in Systems, NEW t \in Teleporters, InitUnconfigured(w, s, t)
      PROVE  [Registry!Next]_(Registry!vars)
  BY <1>0, <1>4, NothingSeen DEF InitUnconfigured, stores
<1> QED
  BY <1>1, <1>2, <1>3, <1>4 DEF Handler

\* Nobody serves at first.
LEMMA NobodyServesYet == Init => Registry!Init
<1> SUFFICES ASSUME Init PROVE Registry!Init
  OBVIOUS
<1>1. Serving = {}
  BY LifeAssumption DEF Init, LifeInit, Serving, Serves, Idle, None, Systems
<1> QED
  BY <1>1 DEF Init, Shown, Registry!Init, Registry!Absent, Registry!IdleWorker,
    Registry!IdleApp, Registry!NoWitness

\* For any number of systems, workers, teleporters and requests, and whatever
\* throws, the system that serves behaves as the one registry TeleporterRegistry
\* describes, if an update always carries a setting: one without any writes nil
\* or an empty map for a teleporter that is not known, which Platform does not
\* tell from no record (init.clj, http/server.clj, api/teleporter.clj).
THEOREM ActsAsRegistry ==
  ASSUME \A m \in Settings : DOMAIN m # {}
  PROVE  Spec => ServesAsRegistry
<1>1. Spec => []LifeInv
  BY LivesOn, Invariance, PTL
<1>2. LifeInv /\ RegistryInv /\ [Next]_vars => [Registry!Next]_(Registry!vars)
  <2> SUFFICES ASSUME LifeInv, RegistryInv, [Next]_vars
               PROVE  [Registry!Next]_(Registry!vars)
    OBVIOUS
  <2>1. CASE UNCHANGED vars
    BY <2>1, NothingSeen DEF vars, stores, histories, life, calls, Serving, Serves
  <2> QED
    BY <2>1, LifeShows, CrashShows, HandlerShows DEF Next
<1> QED
  BY <1>1, <1>2, RegistryStart, RegistryStep, NobodyServesYet, PTL
  DEF Spec, ServesAsRegistry, Registry!Spec

-----------------------------------------------------------------------------
(***************************************************************************)
(* The types.                                                              *)
(***************************************************************************)
Keys   == {"id", "nickname", "volume"}
Values == {"own"} \cup Teleporters \cup UNION {{m[k] : k \in DOMAIN m} : m \in Settings}

\* Maps of some of the keys to some of the values.
PlatformTyped ==
  /\ db \in [Systems -> [Teleporters -> Records]]
  /\ requests \in 0 .. MaxRequests
  /\ \A w \in Workers : worker[w].record \in Records
  /\ alone \subseteq Systems \X Teleporters

\* What a record is: no key, those of a registration, or settings laid over one.
LEMMA RecordsAre == Records = UNION {[keys -> Values] : keys \in SUBSET Keys}
BY DEF Records, Keys, Values

\* A teleporter without a record counts as having an empty one.
LEMMA NoRecord == <<>> \in Records
<1>1. <<>> \in [{} -> Values]
  OBVIOUS
<1> QED
  BY <1>1, RecordsAre

\* What PUT writes is a record.
LEMMA RegisteredRecord ==
  ASSUME NEW t \in Teleporters
  PROVE  Registered(t) \in Records
<1>1. Registered(t) \in [{"id", "nickname"} -> Values]
  BY DEF Registered, Values
<1>2. {"id", "nickname"} \in SUBSET Keys
  BY DEF Keys
<1> QED
  BY <1>1, <1>2, RecordsAre

\* Settings laid over a record make a record.
LEMMA MergedRecord ==
  ASSUME NEW a \in Records, NEW m \in Settings, DOMAIN m \subseteq Keys
  PROVE  Merge(a, m) \in Records
<1>1. PICK keys \in SUBSET Keys : a \in [keys -> Values]
  BY RecordsAre
<1>2. \A k \in DOMAIN m : m[k] \in Values
  BY DEF Values
<1>3. Merge(a, m) \in [keys \cup DOMAIN m -> Values]
  BY <1>1, <1>2 DEF Merge
<1>4. keys \cup DOMAIN m \in SUBSET Keys
  OBVIOUS
<1> QED
  BY <1>3, <1>4, RecordsAre

\* No step of the platform leaves the types of records and requests.
LEMMA PlatformTypedStep ==
  ASSUME MaxRequests \in Nat, \A m \in Settings : DOMAIN m \subseteq Keys,
         LifeInv, RegistryInv, PlatformTyped, [Next]_vars
  PROVE  PlatformTyped'
<1> USE DEF PlatformTyped
<1>0. worker = [v \in Workers |-> worker[v]] /\ IdleWorker.record = <<>> /\ <<>> \in Records
  BY NoRecord DEF RegistryInv, IdleWorker
<1>1. ASSUME NEW w \in Workers, NEW s \in Systems, NEW t \in Teleporters, InitWrite(w, s, t)
      PROVE  PlatformTyped'
  <2>1. /\ db' = [db EXCEPT ![s][t] = Registered(t)] /\ requests' = requests + 1
        /\ worker' = [worker EXCEPT ![w] = [IdleWorker EXCEPT !.op = "init", !.of = s, !.tp = t]]
        /\ requests < MaxRequests
    BY <1>1 DEF InitWrite, Accepts
  <2>2. alone' \subseteq Systems \X Teleporters
    BY <1>1 DEF InitWrite, Mixed
  <2>3. \A v \in Workers : worker'[v].record \in Records
    BY <1>0, <2>1 DEF IdleWorker
  <2> QED
    BY <2>1, <2>2, <2>3, RegisteredRecord
<1>2. ASSUME NEW w \in Workers, NEW s \in Systems, NEW t \in Teleporters,
             NEW settings \in Settings, UpdateRead(w, s, t, settings)
      PROVE  PlatformTyped'
  <2>1. /\ db' = db /\ requests' = requests + 1 /\ requests < MaxRequests
        /\ worker' = [worker EXCEPT ![w] = [op |-> "update", of |-> s, tp |-> t,
                        record |-> db[s][t], settings |-> settings]]
    BY <1>2 DEF UpdateRead, Accepts, stores
  <2>2. alone' \subseteq Systems \X Teleporters
    BY <1>2 DEF UpdateRead, Mixed
  <2>3. \A v \in Workers : worker'[v].record \in Records
    BY <1>0, <2>1
  <2> QED
    BY <2>1, <2>2, <2>3
<1>3. ASSUME NEW w \in Workers, InitSubscribe(w) \/ InitFails(w) \/ UpdateWrite(w)
      PROVE  PlatformTyped'
  <2>1. worker' = [worker EXCEPT ![w] = IdleWorker] /\ requests' = requests /\ alone' = alone
    BY <1>3 DEF InitSubscribe, InitFails, UpdateWrite, histories
  <2>2. \A v \in Workers : worker'[v].record \in Records
    BY <1>0, <2>1
  <2>3. db' \in [Systems -> [Teleporters -> Records]]
    <3>1. CASE UpdateWrite(w)
      <4>1. worker[w].settings \in Settings /\ DOMAIN worker[w].settings \subseteq Keys
        BY <3>1, IdleTask DEF UpdateWrite, RegistryInv, Task
      <4>2. Merge(worker[w].record, worker[w].settings) \in Records
        BY <4>1, MergedRecord
      <4> QED
        BY <3>1, <4>2 DEF UpdateWrite
    <3> QED
      BY <1>3, <3>1 DEF InitSubscribe, InitFails, stores
  <2> QED
    BY <2>1, <2>2, <2>3
<1>4. ASSUME NEW w \in Workers, NEW s \in Systems, NEW t \in Teleporters,
             InitUnconfigured(w, s, t)
      PROVE  PlatformTyped'
  BY <1>4 DEF InitUnconfigured, Accepts, stores
<1>5. CASE Life
  <2>1. worker' = worker /\ requests' = requests /\ alone' = alone
    BY <1>5 DEF Life, histories
  <2>2. NewDb \in [Teleporters -> Records]
    BY <1>0 DEF NewDb, EmptyDb
  <2>3. db' \in [Systems -> [Teleporters -> Records]]
    BY <1>5, <2>2 DEF Life
  <2> QED
    BY <2>1, <2>3
<1>6. CASE Crash
  BY <1>0, <1>6 DEF Crash, Fresh, EmptyDb
<1>7. CASE UNCHANGED vars
  BY <1>7 DEF vars, stores, histories
<1> QED
  BY <1>1, <1>2, <1>3, <1>4, <1>5, <1>6, <1>7 DEF Next, Handler

\* The platform keeps its types, where settings are maps of the keys that are
\* modelled and the bound on the requests is a number.
THEOREM PlatformTypes ==
  ASSUME MaxRequests \in Nat, \A m \in Settings : DOMAIN m \subseteq Keys
  PROVE  Spec => []TypeOK
<1>1. Spec => []LifeInv
  BY LivesOn, Invariance, PTL
<1>2. Init => PlatformTyped
  <2> SUFFICES ASSUME Init PROVE PlatformTyped
    OBVIOUS
  <2>1. IdleWorker.record \in Records
    BY NoRecord DEF IdleWorker
  <2> QED
    BY <2>1, NoRecord DEF Init, PlatformTyped, EmptyDb
<1>3. LifeInv /\ RegistryInv /\ PlatformTyped => TypeOK
  <2> SUFFICES ASSUME LifeInv, RegistryInv, PlatformTyped PROVE TypeOK
    OBVIOUS
  <2>1. \A w \in Workers : /\ worker[w].op \in {"none", "init", "update"}
                           /\ (worker[w].op = "none") = (worker[w] = IdleWorker)
    BY IdleTask DEF RegistryInv, Task
  <2> QED
    BY <2>1 DEF LifeInv, Typed, RegistryInv, PlatformTyped, TypeOK
<1> QED
  BY <1>1, <1>2, <1>3, RegistryStart, RegistryStep, PlatformTypedStep, PTL DEF Spec
=============================================================================
