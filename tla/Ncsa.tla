-------------------------------- MODULE Ncsa --------------------------------
(***************************************************************************)
(* The supervision of varnishncsa (src/internal/varnish/manager.go):        *)
(* monitorNCSA, which starts the process, restarts it after a delay, gives  *)
(* up after too many rapid failures in a row, and stops it when StopNCSA    *)
(* asks; with the process itself as the environment and the queue of        *)
(* events the event loop reads.  Shutdown.tla composes it with the loop.    *)
(***************************************************************************)
EXTENDS Naturals, Sequences

CONSTANTS
  NCSAMaxCrashes,   \* consecutive failures before giving up
  EventCap          \* capacity of ncsaEvents

ASSUME NcsaAssumption ==
  NCSAMaxCrashes \in Nat \ {0} /\ EventCap \in Nat \ {0}

VARIABLES
  monitor,   \* where monitorNCSA is
  child,     \* the varnishncsa process: "none", "running", "exited"
  stable,    \* it has run for NCSAStableUptime
  crashes,
  ncsaStop,  \* the channel is closed
  crashed,   \* ncsaCrashed is closed
  events,    \* ncsaEvents
  emitted,   \* history: the reasons the loop has read
  dropped,   \* history: an event found the queue full
  recent     \* history: how the last runs ended, newest first

ncsaVars == <<monitor, child, stable, crashes, ncsaStop, crashed, events,
              emitted, dropped, recent>>

Reasons == {"StartFailed", "Exited", "CrashLoop", "Restarted"}
Outcomes == {"quick", "stable"}

NcsaInit ==
  /\ monitor = "start"
  /\ child = "none"
  /\ stable = FALSE
  /\ crashes = 0
  /\ ncsaStop = FALSE
  /\ crashed = FALSE
  /\ events = <<>>
  /\ emitted = {}
  /\ dropped = FALSE
  /\ recent = <<>>
-----------------------------------------------------------------------------
\* sendNCSAEvent, for a few events one after the other: a full queue drops.
Room(es) == IF Len(events) + Len(es) <= EventCap THEN Len(es)
            ELSE EventCap - Len(events)

SendEvents(es) ==
  /\ events' = events \o SubSeq(es, 1, Room(es))
  /\ dropped' = (dropped \/ Room(es) < Len(es))

Record(outcome) ==
  recent' = SubSeq(<<outcome>> \o recent, 1,
                   IF Len(recent) < NCSAMaxCrashes THEN Len(recent) + 1
                                                   ELSE NCSAMaxCrashes)

\* Slip: the exit that ends a stable run counts.
CrashesAfterStable(ok) == IF ok THEN 1 ELSE crashes + 1

\* The counter after a run that was stable, or was not.
CrashesAfter(ok) == IF ok THEN 0 ELSE crashes + 1

\* Give up, or wait and try again.
GiveUpOr(reason, wait) ==
  IF crashes' >= NCSAMaxCrashes
  THEN /\ SendEvents(<<reason, "CrashLoop">>)
       /\ crashed' = TRUE
       /\ monitor' = "done"
  ELSE /\ SendEvents(<<reason>>)
       /\ UNCHANGED crashed
       /\ monitor' = wait

StartChild ==
  /\ monitor = "start"
  /\ monitor' = "up"
  /\ child' = "running"
  /\ stable' = FALSE
  /\ UNCHANGED <<crashes, ncsaStop, crashed, events, emitted, dropped, recent>>

StartFails ==
  /\ monitor = "start"
  /\ crashes' = crashes + 1
  /\ GiveUpOr("StartFailed", "retry")
  /\ Record("quick")
  /\ UNCHANGED <<child, stable, ncsaStop, emitted>>

ChildExited ==
  /\ monitor = "up"
  /\ child = "exited"
  /\ child' = "none"
  /\ crashes' = CrashesAfter(stable)
  /\ GiveUpOr("Exited", "backoff")
  /\ Record(IF stable THEN "stable" ELSE "quick")
  /\ UNCHANGED <<stable, ncsaStop, emitted>>

\* NCSARestartDelay is over; only a restart after an exit is announced.
RestartDelayOver ==
  /\ monitor \in {"retry", "backoff"}
  /\ monitor' = "start"
  /\ IF monitor = "backoff" THEN SendEvents(<<"Restarted">>)
                            ELSE UNCHANGED <<events, dropped>>
  /\ UNCHANGED <<child, stable, crashes, ncsaStop, crashed, emitted, recent>>

StopWaiting ==
  /\ ncsaStop
  /\ monitor \in {"retry", "backoff"}
  /\ monitor' = "done"
  /\ UNCHANGED <<child, stable, crashes, ncsaStop, crashed, events, emitted,
                 dropped, recent>>

\* SIGTERM, then wait for the exit.
Terminate ==
  /\ ncsaStop
  /\ monitor = "up"
  /\ monitor' = "terminating"
  /\ UNCHANGED <<child, stable, crashes, ncsaStop, crashed, events, emitted,
                 dropped, recent>>

\* Slip: it waits for as long as it takes.
StopTimeoutNever == monitor = "never" /\ UNCHANGED ncsaVars

\* NCSAStopTimeout: SIGKILL.
StopTimeout ==
  /\ monitor = "terminating"
  /\ monitor' = "killing"
  /\ UNCHANGED <<child, stable, crashes, ncsaStop, crashed, events, emitted,
                 dropped, recent>>

Reap ==
  /\ monitor \in {"terminating", "killing"}
  /\ child = "exited"
  /\ child' = "none"
  /\ monitor' = "done"
  /\ UNCHANGED <<stable, crashes, ncsaStop, crashed, events, emitted, dropped,
                 recent>>

Monitor ==
  \/ StartChild \/ StartFails \/ ChildExited \/ RestartDelayOver
  \/ StopWaiting \/ Terminate \/ StopTimeout \/ Reap
-----------------------------------------------------------------------------
(* The process.                                                            *)

ChildExits ==
  /\ child = "running"
  /\ child' = "exited"
  /\ UNCHANGED <<monitor, stable, crashes, ncsaStop, crashed, events, emitted,
                 dropped, recent>>

StableUptime ==
  /\ child = "running"
  /\ ~stable
  /\ stable' = TRUE
  /\ UNCHANGED <<monitor, child, crashes, ncsaStop, crashed, events, emitted,
                 dropped, recent>>

\* SIGKILL cannot be ignored.
KilledExits == monitor = "killing" /\ ChildExits

Process == ChildExits \/ StableUptime

(* The event loop's part.                                                  *)

StopNCSA ==
  /\ ~ncsaStop
  /\ ncsaStop' = TRUE
  /\ UNCHANGED <<monitor, child, stable, crashes, crashed, events, emitted,
                 dropped, recent>>

ReadEvent ==
  /\ events # <<>>
  /\ emitted' = emitted \cup {Head(events)}
  /\ events' = Tail(events)
  /\ UNCHANGED <<monitor, child, stable, crashes, ncsaStop, crashed, dropped,
                 recent>>

NcsaNext == Monitor \/ Process \/ StopNCSA \/ ReadEvent

NcsaSpec == NcsaInit /\ [][NcsaNext]_ncsaVars

\* The monitor's goroutine runs, its timers expire, SIGKILL kills, and a
\* select that finds the stop ready again and again takes it.
NcsaFairness ==
  /\ WF_ncsaVars(Monitor)
  /\ WF_ncsaVars(KilledExits)
  /\ SF_ncsaVars(StopWaiting \/ Terminate)

NcsaFairSpec == NcsaSpec /\ NcsaFairness
-----------------------------------------------------------------------------
(* What must hold.                                                         *)

NcsaTypeOK ==
  /\ monitor \in {"start", "up", "retry", "backoff", "terminating", "killing",
                  "done"}
  /\ child \in {"none", "running", "exited"}
  /\ stable \in BOOLEAN
  /\ crashes \in 0..NCSAMaxCrashes
  /\ ncsaStop \in BOOLEAN
  /\ crashed \in BOOLEAN
  /\ events \in Seq(Reasons) /\ Len(events) <= EventCap
  /\ emitted \subseteq Reasons
  /\ dropped \in BOOLEAN
  /\ recent \in Seq(Outcomes) /\ Len(recent) <= NCSAMaxCrashes

\* The breaker trips exactly when the last NCSAMaxCrashes runs all failed
\* early: neither one too soon after a stable run, nor ever later
\* (monitorNCSA's crash counter).
BreakerExact ==
  crashed <=> /\ Len(recent) = NCSAMaxCrashes
              /\ \A i \in 1..Len(recent) : recent[i] = "quick"

\* When the monitor has ended no varnishncsa is left behind (monitorNCSA's
\* stop and give-up paths).
NoneLeftBehind == monitor = "done" => child = "none"

\* Neither a process nor the access log is lost: both of the above.
MonitorSound == BreakerExact /\ NoneLeftBehind

\* StopNCSA returns, even if the process ignores SIGTERM, was being started,
\* or was about to be restarted.
StopReturns == ncsaStop ~> monitor = "done"
=============================================================================
