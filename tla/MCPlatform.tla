----------------------------- MODULE MCPlatform ------------------------------
(***************************************************************************)
(* Platform for TLC.  Jobs and requests share no state but the parts that  *)
(* run, so each behaviour has one or the other.  Where the jobs run, those *)
(* of an earlier system that end late included, parts start and stop in    *)
(* every order; where the requests do, in the order the library in fact    *)
(* takes: the parts nobody uses come last and go first.                    *)
(***************************************************************************)
EXTENDS Platform

VARIABLE watched  \* the system whose jobs go on running, or None: the requests

\* A setting of a key the registration writes, and of one it does not.
SomeSettings == {[nickname |-> "new"], [volume |-> "loud"]}

Early == {"mqtt-client", "jam-manager", "http-server", "scheduler"}
Ordered ==
  {{}, {"config"}, {"config", "logger"}, {"config", "logger", "mqtt-client"},
   {"config", "logger", "mqtt-client", "jam-manager"},
   {"config", "logger", "mqtt-client", "jam-manager", "http-server"},
   Early \cup {"config", "logger"}, Parts, Early \cup {"config"}, Early,
   Early \ {"scheduler"}, {"mqtt-client", "jam-manager"}, {"mqtt-client"}}

\* Workers are numbers: the first idle one takes a request.
InOrder ==
  \A w \in Workers : worker[w] = IdleWorker /\ worker'[w] # IdleWorker =>
    \A v \in Workers : v < w => worker[v] # IdleWorker

WatchedInit == Init /\ watched \in Systems \cup {None}
WatchedNext ==
  /\ Next
  /\ IF watched \in Systems
     THEN UNCHANGED requests
     ELSE UNCHANGED jobs /\ InOrder /\ \A s \in Systems : up'[s] \in Ordered
  /\ UNCHANGED watched

Watched(s, action) == watched = s /\ action
WatchedFairness ==
  \A s \in Systems :
    /\ WF_life(Watched(s, CheckBegins(s))) /\ WF_life(Watched(s, CheckEnds(s)))
    /\ WF_life(Watched(s, FetchBegins(s))) /\ WF_life(Watched(s, FetchEnds(s)))
WatchedSpec ==
  /\ WatchedInit /\ [][WatchedNext]_<<vars, watched>>
  /\ CallFairness /\ WatchedFairness

\* While a system runs and its jobs are watched, they run: waiting teleporters
\* are checked for timeouts again and again, and the newest firmware version
\* gets known (scheduler.clj:9-15, versionrefresher.clj:15-20).
WatchedRuns == Runs /\ system = watched
WatchedJobsRun ==
  /\ WatchedRuns ~> system \in checking \/ ~WatchedRuns
  /\ WatchedRuns ~> system \in version \/ ~WatchedRuns
=============================================================================
