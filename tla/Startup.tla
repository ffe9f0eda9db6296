------------------------------- MODULE Startup -------------------------------
(***************************************************************************)
(* The start of the program (run in src/main.go, with awaitInitial and      *)
(* loadInitialTLSCerts, and Manager.Start): a line with many ways out, next *)
(* to watchers that deliver or fail, signals, and from some point on a      *)
(* varnishd that would outlive the program.                                 *)
(***************************************************************************)
EXTENDS Integers

CONSTANTS
  NumSources,    \* watchers whose first value is awaited, in this order
  NumCerts       \* certificates to install

ASSUME StartupAssumption == NumSources \in Nat /\ NumCerts \in Nat

VARIABLES
  startupTimeout,   \* configuration: the start is bounded
  upc,              \* where run is
  sent,             \* watchers whose first value was sent
  failedRuns,       \* watchers whose Run returned an error
  watcherErr,       \* watcherErrCh holds an error
  collected,        \* how many first values the collecting goroutine has
  notified,         \* signals go to sigCh
  sigHeld,          \* sigCh holds one
  daemon,           \* varnishd: "none", "running", "reaped"
  killSent,         \* SIGKILL was sent to it
  certsDone         \* how many certificates have been dealt with

startupVars == <<startupTimeout, upc, sent, failedRuns, watcherErr, collected,
                 notified, sigHeld, daemon, killSent, certsDone>>

Sources == 1..NumSources

StartupInit ==
  /\ startupTimeout \in BOOLEAN
  /\ upc = "prepare"
  /\ sent = {}
  /\ failedRuns = {}
  /\ watcherErr = FALSE
  /\ collected = 0
  /\ notified = FALSE
  /\ sigHeld = FALSE
  /\ daemon = "none"
  /\ killSent = FALSE
  /\ certsDone = 0

watchVars == <<sent, failedRuns, watcherErr, collected>>
childVars == <<daemon, killSent, certsDone>>
-----------------------------------------------------------------------------
(* Up to the first values.                                                 *)

\* Flags, metrics server, clientset, event recorder, zone.
Prepare ==
  /\ upc = "prepare"
  /\ upc' \in {"detect", "exited"}
  /\ UNCHANGED <<startupTimeout, watchVars, notified, sigHeld, childVars>>

\* The version, which must support TLS if there are certificates; the template.
DetectVersion ==
  /\ upc = "detect"
  /\ upc' \in {"watch", "exited"}
  /\ UNCHANGED <<startupTimeout, watchVars, notified, sigHeld, childVars>>

StartWatchers ==
  /\ upc = "watch"
  /\ upc' = "collect"
  /\ UNCHANGED <<startupTimeout, watchVars, notified, sigHeld, childVars>>

SourceSends(s) ==
  /\ upc = "collect"
  /\ s \notin sent \cup failedRuns
  /\ sent' = sent \cup {s}
  /\ UNCHANGED <<startupTimeout, upc, failedRuns, watcherErr, collected,
                 notified, sigHeld, childVars>>

\* Slip: the error is logged and no more.
SourceFailsQuietly(s) ==
  /\ upc = "collect"
  /\ s \notin failedRuns
  /\ failedRuns' = failedRuns \cup {s}
  /\ UNCHANGED <<startupTimeout, upc, sent, watcherErr, collected, notified,
                 sigHeld, childVars>>

\* Run returns an error, before or after it has sent: reportWatcherErr.
SourceFails(s) ==
  /\ upc = "collect"
  /\ s \notin failedRuns
  /\ failedRuns' = failedRuns \cup {s}
  /\ watcherErr' = TRUE
  /\ UNCHANGED <<startupTimeout, upc, sent, collected, notified, sigHeld,
                 childVars>>

\* The collecting goroutine takes the next first value.
Collect1 ==
  /\ upc = "collect"
  /\ collected + 1 \in sent
  /\ collected' = collected + 1
  /\ UNCHANGED <<startupTimeout, upc, sent, failedRuns, watcherErr, notified,
                 sigHeld, childVars>>

\* Whichever comes first, at random if several have come: all values, an
\* error, the end of --startup-timeout.
AwaitInitial ==
  /\ upc = "collect"
  /\ \/ collected = NumSources /\ upc' = "render"
     \/ watcherErr /\ upc' = "exited"
     \/ startupTimeout /\ upc' = "exited"
  /\ UNCHANGED <<startupTimeout, watchVars, notified, sigHeld, childVars>>
-----------------------------------------------------------------------------
(* Up to the loop.                                                         *)

\* Slip: signals are left as they are.
RenderUnnotified ==
  /\ upc = "render"
  /\ upc' \in {"spawn", "exited"}
  /\ UNCHANGED <<startupTimeout, watchVars, notified, sigHeld, childVars>>

\* The broadcast listener, the first VCL and its file.
RenderInitial ==
  /\ upc = "render"
  /\ upc' \in {"notify", "exited"}
  /\ UNCHANGED <<startupTimeout, watchVars, notified, sigHeld, childVars>>

NotifySignals ==
  /\ upc = "notify"
  /\ upc' = "spawn"
  /\ notified' = TRUE
  /\ UNCHANGED <<startupTimeout, watchVars, sigHeld, childVars>>

Spawn ==
  /\ upc = "spawn"
  /\ \/ daemon' = "running" /\ upc' = "admin"
     \/ upc' = "exited" /\ UNCHANGED daemon
  /\ UNCHANGED <<startupTimeout, watchVars, notified, sigHeld, killSent,
                 certsDone>>

\* A ping is answered in time.
AdminAnswers ==
  /\ upc = "admin"
  /\ daemon = "running"
  /\ upc' = "certs"
  /\ UNCHANGED <<startupTimeout, watchVars, notified, sigHeld, childVars>>

\* SIGKILL; run goes on when varnishd has been reaped.
KillAndWait ==
  /\ killSent' = TRUE
  /\ upc' = "reap"
  /\ UNCHANGED <<startupTimeout, watchVars, notified, sigHeld, daemon, certsDone>>

\* AdminTimeout, or varnishd has exited.
AdminGivesUp == upc = "admin" /\ KillAndWait

\* Installed, or absent.
LoadInitialCert ==
  /\ upc = "certs"
  /\ certsDone < NumCerts
  /\ certsDone' = certsDone + 1
  /\ UNCHANGED <<startupTimeout, upc, watchVars, notified, sigHeld, daemon,
                 killSent>>

\* LoadCert fails: the certificate is broken, or varnishd does not answer.
LoadInitialCertFails == upc = "certs" /\ certsDone < NumCerts /\ KillAndWait

Reaped ==
  /\ upc = "reap"
  /\ daemon = "reaped"
  /\ upc' = "exited"
  /\ UNCHANGED <<startupTimeout, watchVars, notified, sigHeld, childVars>>

\* varnishncsa, the fan-in goroutines, runLoop.
EnterLoop ==
  /\ upc = "certs"
  /\ certsDone = NumCerts
  /\ upc' = "loop"
  /\ UNCHANGED <<startupTimeout, watchVars, notified, sigHeld, childVars>>
-----------------------------------------------------------------------------
(* varnishd and signals.                                                   *)

DaemonExits ==
  /\ daemon = "running"
  /\ daemon' = "reaped"
  /\ UNCHANGED <<startupTimeout, upc, watchVars, notified, sigHeld, killSent,
                 certsDone>>

\* Kept for the loop, once there is a channel for it; else the end.
SignalArrives ==
  /\ upc \notin {"loop", "exited", "killed"}
  /\ IF notified THEN ~sigHeld /\ sigHeld' = TRUE /\ UNCHANGED upc
                 ELSE upc' = "killed" /\ UNCHANGED sigHeld
  /\ UNCHANGED <<startupTimeout, watchVars, notified, childVars>>

RunStep ==
  \/ Prepare \/ DetectVersion \/ StartWatchers \/ RenderInitial
  \/ NotifySignals \/ Spawn \/ AdminAnswers \/ AdminGivesUp
  \/ LoadInitialCert \/ LoadInitialCertFails \/ Reaped \/ EnterLoop

StartupNext ==
  \/ RunStep \/ Collect1 \/ AwaitInitial
  \/ \E s \in Sources : SourceSends(s) \/ SourceFails(s)
  \/ DaemonExits \/ SignalArrives

StartupSpec == StartupInit /\ [][StartupNext]_startupVars
-----------------------------------------------------------------------------
(* What must hold.                                                         *)

StartupTypeOK ==
  /\ startupTimeout \in BOOLEAN /\ watcherErr \in BOOLEAN
  /\ notified \in BOOLEAN /\ sigHeld \in BOOLEAN /\ killSent \in BOOLEAN
  /\ upc \in {"prepare", "detect", "watch", "collect", "render", "notify",
              "spawn", "admin", "certs", "reap", "loop", "exited", "killed"}
  /\ sent \subseteq Sources /\ failedRuns \subseteq Sources
  /\ collected \in 0..NumSources
  /\ daemon \in {"none", "running", "reaped"}
  /\ certsDone \in 0..NumCerts

\* However the start ends, by an error on the way, an admin socket that does
\* not answer, a broken certificate or a signal, no varnishd outlives the
\* program (Start, loadInitialTLSCerts, the place of notifySignals in run).
NoOrphan == upc \in {"exited", "killed"} => daemon # "running"

\* The start ends: within --startup-timeout whatever the watchers do, and
\* without it if each of them delivers or fails (awaitInitial, watcherErrCh).
StartEnds == <>(upc \in {"loop", "exited", "killed"})
=============================================================================
