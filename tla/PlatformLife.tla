---------------------------- MODULE PlatformLife -----------------------------
(***************************************************************************)
(* How the platform starts and stops (init.clj), with the work its parts   *)
(* do by themselves: the scheduler's check for timeouts, the version       *)
(* refresher's fetch.                                                      *)
(*                                                                         *)
(* init makes a system, a new one each time.  system-map starts config,    *)
(* logger and the MQTT client one after the other; the component library   *)
(* then starts the other parts in some order that respects using, and      *)
(* stops all of them in some order that respects it backwards.  A part     *)
(* that throws ends init, with what was started still running, or ends     *)
(* stop, which catches it and forgets the system all the same.  Calls of   *)
(* init and stop come from one thread (main, the REPL, the shutdown hook); *)
(* the JVM may die at any step.                                            *)
(***************************************************************************)
EXTENDS Integers

CONSTANTS
  MaxSystems,     \* bound on the systems made in one JVM
  StartThrows,    \* parts whose start may throw
  StopThrows      \* parts whose stop may throw

Parts == {"config", "logger", "mqtt-client", "jam-manager", "http-server",
          "scheduler", "versionrefresher"}

ASSUME LifeAssumption ==
  /\ MaxSystems \in Nat \ {0}
  /\ StartThrows \subseteq Parts /\ StopThrows \subseteq Parts

VARIABLES
  system,     \* @system: the number of the system, or None
  call,       \* the call of init or stop that runs, and the system it is about
  made,       \* systems made in this JVM
  up,         \* system -> its parts that run
  config,     \* whether the var platform.config/config holds a configuration
  injected,   \* systems whose MQTT client knows the jam manager
  checking,   \* systems whose scheduler is in check-for-timeouts
  fetching,   \* systems whose refresher is in get-apt-package-version
  version,    \* systems with :teleporter-fw-version in their database
  thrown      \* history: "start" and "stop", if one has thrown in this JVM

calls == <<system, call, made, injected, thrown>>
jobs  == <<checking, fetching, version>>
life  == <<calls, up, config, jobs>>

None    == 0
Systems == 1 .. MaxSystems
Idle    == [at |-> "idle", of |-> None]

\* component/using in system-map.  Variant: the server is not told of the
\* client, which it then may outlive.
UsingClientless ==
  [p \in Parts |-> CASE p = "http-server" -> {}
                     [] p = "jam-manager" -> {"mqtt-client"}
                     [] p = "scheduler"   -> {"jam-manager"}
                     [] OTHER             -> {}]
Using ==
  [p \in Parts |-> CASE p = "http-server" -> {"mqtt-client", "jam-manager"}
                     [] p = "jam-manager" -> {"mqtt-client"}
                     [] p = "scheduler"   -> {"jam-manager"}
                     [] OTHER             -> {}]

\* The parts system-map starts itself, each after the ones before it.
Before ==
  [p \in Parts |-> CASE p = "config"      -> {}
                     [] p = "logger"      -> {"config"}
                     [] p = "mqtt-client" -> {"config", "logger"}
                     [] OTHER -> {"config", "logger", "mqtt-client"} \cup Using[p]]

Runs == call = Idle /\ system # None
Running(p) == {s \in Systems : p \in up[s]}

-----------------------------------------------------------------------------
(***************************************************************************)
(* init                                                                    *)
(***************************************************************************)
CallInit ==
  /\ call = Idle /\ system = None /\ made < MaxSystems
  /\ made' = made + 1
  /\ call' = [at |-> "init", of |-> made + 1]
  /\ UNCHANGED <<system, injected, thrown, up, config, jobs>>

Due(p) ==
  /\ call.at = "init" /\ p \notin up[call.of]
  /\ Before[p] \subseteq up[call.of]

\* Jetty binds its port: nobody else may have it.
\* Variant: run-jetty joins the thread of the server and does not return.
StartJoins(p) ==
  /\ Due(p)
  /\ p = "http-server" => Running("http-server") = {}
  /\ up' = [up EXCEPT ![call.of] = @ \cup {p}]
  /\ config' = (config \/ p = "config")
  /\ call' = IF p = "http-server" THEN [call EXCEPT !.at = "joined"] ELSE call
  /\ UNCHANGED <<system, made, injected, thrown, jobs>>
Start(p) ==
  /\ Due(p)
  /\ p = "http-server" => Running("http-server") = {}
  /\ up' = [up EXCEPT ![call.of] = @ \cup {p}]
  /\ config' = (config \/ p = "config")
  /\ UNCHANGED <<calls, jobs>>

StartFails(p) ==
  /\ Due(p)
  /\ \/ p \in StartThrows
     \/ p = "http-server" /\ Running("http-server") # {}
  /\ call' = Idle /\ thrown' = thrown \cup {"start"}
  /\ UNCHANGED <<system, made, injected, up, config, jobs>>

\* Variant: the injection is forgotten.
StartedBare ==
  /\ call.at = "init" /\ up[call.of] = Parts
  /\ system' = call.of /\ call' = Idle
  /\ UNCHANGED <<made, injected, thrown, up, config, jobs>>
Started ==
  /\ call.at = "init" /\ up[call.of] = Parts
  /\ system' = call.of /\ call' = [call EXCEPT !.at = "inject"]
  /\ UNCHANGED <<made, injected, thrown, up, config, jobs>>

\* add-injection, the exception handler and the shutdown hook.
Inject ==
  /\ call.at = "inject"
  /\ injected' = injected \cup {call.of} /\ call' = Idle
  /\ UNCHANGED <<system, made, thrown, up, config, jobs>>

(***************************************************************************)
(* stop                                                                    *)
(***************************************************************************)
CallStop ==
  /\ call = Idle /\ system # None
  /\ call' = [at |-> "stop", of |-> system]
  /\ UNCHANGED <<system, made, injected, thrown, up, config, jobs>>

Last(p) ==
  /\ call.at = "stop" /\ p \in up[call.of]
  /\ \A q \in up[call.of] : p \notin Using[q]

\* Variant: the configuration stays loaded.
StopLoaded(p) ==
  /\ Last(p)
  /\ up' = [up EXCEPT ![call.of] = @ \ {p}]
  /\ config' = config
  /\ UNCHANGED <<calls, jobs>>
Stop(p) ==
  /\ Last(p)
  /\ up' = [up EXCEPT ![call.of] = @ \ {p}]
  /\ config' = (config /\ p # "config")
  /\ UNCHANGED <<calls, jobs>>

\* The parts not reached go on, and the system is forgotten.
StopFails(p) ==
  /\ Last(p) /\ p \in StopThrows
  /\ up' \in {up, [up EXCEPT ![call.of] = @ \ {p}]}
  /\ system' = None /\ call' = Idle /\ thrown' = thrown \cup {"stop"}
  /\ UNCHANGED <<made, injected, config, jobs>>

Stopped ==
  /\ call.at = "stop" /\ up[call.of] = {}
  /\ system' = None /\ call' = Idle
  /\ UNCHANGED <<made, injected, thrown, up, config, jobs>>

(***************************************************************************)
(* The jobs.  chime runs one at a time for each schedule; closing a        *)
(* schedule interrupts the one in flight but does not wait for it.         *)
(***************************************************************************)
CheckBegins(s) ==
  /\ "scheduler" \in up[s] /\ s \notin checking
  /\ checking' = checking \cup {s}
  /\ UNCHANGED <<calls, up, config, fetching, version>>

CheckEnds(s) ==
  /\ s \in checking
  /\ checking' = checking \ {s}
  /\ UNCHANGED <<calls, up, config, fetching, version>>

FetchBegins(s) ==
  /\ "versionrefresher" \in up[s] /\ s \notin fetching
  /\ fetching' = fetching \cup {s}
  /\ UNCHANGED <<calls, up, config, checking, version>>

\* "Unknown" when apt knows no version: that is stored as well.
\* Variant: the version is fetched and not stored.
FetchEndsUnstored(s) ==
  /\ s \in fetching
  /\ fetching' = fetching \ {s}
  /\ UNCHANGED <<calls, up, config, checking, version>>
FetchEnds(s) ==
  /\ s \in fetching
  /\ fetching' = fetching \ {s} /\ version' = version \cup {s}
  /\ UNCHANGED <<calls, up, config, checking>>

FetchInterrupted(s) ==
  /\ s \in fetching /\ "versionrefresher" \notin up[s]
  /\ fetching' = fetching \ {s}
  /\ UNCHANGED <<calls, up, config, checking, version>>

-----------------------------------------------------------------------------
LifeInit ==
  /\ system = None /\ call = Idle /\ made = 0
  /\ up = [s \in Systems |-> {}] /\ config = FALSE /\ injected = {}
  /\ checking = {} /\ fetching = {} /\ version = {} /\ thrown = {}

\* The JVM ends; the next one begins like the first.
JvmDies ==
  /\ system' = None /\ call' = Idle /\ made' = 0
  /\ up' = [s \in Systems |-> {}] /\ config' = FALSE /\ injected' = {}
  /\ checking' = {} /\ fetching' = {} /\ version' = {} /\ thrown' = {}

CallStep ==
  \/ \E p \in Parts : Start(p) \/ StartFails(p) \/ Stop(p) \/ StopFails(p)
  \/ Started \/ Inject \/ Stopped

Job(s) ==
  \/ CheckBegins(s) \/ CheckEnds(s)
  \/ FetchBegins(s) \/ FetchEnds(s) \/ FetchInterrupted(s)

\* A call of init or stop goes on until it returns.
CallFairness == WF_life(CallStep)
\* chime keeps its schedule, a check ends and apt answers.
JobFairness ==
  \A s \in Systems : /\ WF_life(CheckBegins(s)) /\ WF_life(CheckEnds(s))
                     /\ WF_life(FetchBegins(s)) /\ WF_life(FetchEnds(s))

LifeNext == CallInit \/ CallStep \/ CallStop \/ (\E s \in Systems : Job(s)) \/ JvmDies
LifeSpec == LifeInit /\ [][LifeNext]_life /\ CallFairness /\ JobFairness

-----------------------------------------------------------------------------
(***************************************************************************)
(* Properties.                                                             *)
(***************************************************************************)
LifeTypeOK ==
  /\ system \in Systems \cup {None} /\ made \in 0 .. MaxSystems
  /\ call.at \in {"idle", "init", "inject", "stop"}
  /\ call.of \in Systems \cup {None} /\ (call.of = None <=> call = Idle)
  /\ up \in [Systems -> SUBSET Parts] /\ config \in BOOLEAN
  /\ injected \subseteq Systems /\ checking \subseteq Systems
  /\ fetching \subseteq Systems /\ version \subseteq Systems
  /\ thrown \subseteq {"start", "stop"}

\* Nobody serves with less than it needs: while the HTTP server of a system
\* takes requests, or its scheduler starts a check, the jam manager and the
\* MQTT client of that system run, in whatever order parts start and stop and
\* wherever init or stop gave up (component/using, init.clj:30-36).
NeedsRun ==
  \A s \in Systems :
    up[s] \cap {"http-server", "scheduler"} # {} =>
      {"jam-manager", "mqtt-client"} \subseteq up[s]

\* What @system names between two calls is whole: all its parts run, the
\* configuration is loaded although an earlier system unloaded it, and its
\* client passes messages to the jam manager (init, init.clj:51-61).
RunningIsWhole ==
  Runs =>
    up[system] = Parts /\ config /\ system \in injected

\* Starting and stopping leave nothing behind: as long as no part has thrown,
\* nothing of an earlier system runs, and the configuration is loaded only for
\* a system; after a start that threw, as long as no stop has, the port is
\* free, so that init can be tried again, unless what threw may start after the
\* server, as the scheduler and the refresher do (init.clj:42-57).
NothingLeft ==
  call = Idle =>
    /\ thrown = {} => \A s \in Systems : s = system \/ up[s] = {}
    /\ thrown = {} => (config <=> system # None)
    /\ "stop" \notin thrown => Running("http-server") \subseteq {system}

\* init and stop return, unless the JVM dies: jetty does not join its thread
\* and no part waits for another (init.clj:42-57, :join? false).
CallsReturn == call # Idle ~> call = Idle
=============================================================================
