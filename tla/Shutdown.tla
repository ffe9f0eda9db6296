------------------------------ MODULE Shutdown ------------------------------
(***************************************************************************)
(* The end of the program (src/main.go): the ways out of runLoop, runShut-  *)
(* down with handleDrain, and awaitOffLoop, whose abandoned call goes on;   *)
(* composed with varnishncsa's monitor (Ncsa).  varnishd, the signals and   *)
(* varnishstat are the environment.                                        *)
(*                                                                         *)
(* Reloads matter here only for the VCL they activate: VCLs are numbered in *)
(* the order of their loading.  The drain of the broadcast server is one    *)
(* bounded step, which Broadcast.tla is to detail.                         *)
(***************************************************************************)
EXTENDS Ncsa, Integers

CONSTANTS
  Drain,        \* --drain
  Polls,        \* --drain-timeout > 0
  Escalates,    \* --shutdown-timeout > 0
  MaxReloads,   \* bound: reloads
  MaxSignals    \* bound: signals

ASSUME ShutdownAssumption ==
  /\ Drain \in BOOLEAN /\ Polls \in BOOLEAN /\ Escalates \in BOOLEAN
  /\ MaxReloads \in Nat /\ MaxSignals \in Nat

VARIABLES
  pc,         \* where the loop's goroutine is
  path,       \* why the loop ended
  code,       \* the exit code, -1 before the exit
  sigCh,      \* a signal is buffered (capacity 1)
  signals,    \* how many have arrived
  varnishd,   \* "up", "exited"
  clean,      \* varnishd exited without an error
  asked,      \* the signals forwarded to varnishd
  active,     \* the VCL varnishd runs
  loaded,     \* the VCL loaded last
  call,       \* Manager.Reload: "none", "load", "use", "returned"
  sick,       \* the VCL whose drain backend was marked sick, -1 for none
  pollInFlight,
  poll,       \* the poll's goroutine: "none", "running", or its answer
  deadline,   \* the drain deadline has passed
  ended,      \* history: what ended handleDrain
  sawNone     \* history: a poll of the drain has counted no sessions

signalVars == <<sigCh, signals>>
daemonVars == <<varnishd, clean, asked>>
vclVars == <<active, loaded, call, sick>>
pollVars == <<pollInFlight, poll>>
drainVars == <<pollVars, deadline, ended, sawNone>>
vars == <<ncsaVars, pc, path, code, signalVars, daemonVars, vclVars,
          drainVars>>

Running == {"idle", "reload"}
Draining == {"mark", "delay", "poll"}
Stopping == {"broadcast", "stopNCSA", "forward", "wait", "kill"}
Paths == {"none", "signal", "crash", "http", "exit"}

Init ==
  /\ NcsaInit
  /\ pc = "idle"
  /\ path = "none"
  /\ code = -1
  /\ sigCh = FALSE
  /\ signals = 0
  /\ varnishd = "up"
  /\ clean = TRUE
  /\ asked = {}
  /\ active = 0
  /\ loaded = 0
  /\ call = "none"
  /\ sick = -1
  /\ pollInFlight = FALSE
  /\ poll = "none"
  /\ deadline = FALSE
  /\ ended = "no"
  /\ sawNone = FALSE
-----------------------------------------------------------------------------
(* The environment.                                                        *)

\* A signal that finds the channel full is lost.
Signal ==
  /\ signals < MaxSignals
  /\ pc # "exited"
  /\ signals' = signals + 1
  /\ sigCh' = TRUE
  /\ UNCHANGED <<ncsaVars, pc, path, code, daemonVars, vclVars, drainVars>>

\* varnishd may crash, and may obey a signal or not.
VarnishdExits ==
  /\ varnishd = "up"
  /\ varnishd' = "exited"
  /\ clean' \in {FALSE, "KILL" \notin asked}
  /\ UNCHANGED <<ncsaVars, pc, path, code, signalVars, asked, vclVars,
                 drainVars>>

\* Manager.Reload, whether or not the loop still waits for it.
CallStep ==
  /\ \/ /\ call = "load" /\ varnishd = "up"
        /\ call' = "use" /\ loaded' = loaded + 1 /\ UNCHANGED active
     \/ /\ call = "use" /\ varnishd = "up"
        /\ call' = "returned" /\ active' = loaded /\ UNCHANGED loaded
     \/ /\ call \in {"load", "use"}
        /\ call' = "returned" /\ UNCHANGED <<active, loaded>>
  /\ UNCHANGED <<ncsaVars, pc, path, code, signalVars, daemonVars, sick,
                 drainVars>>

\* varnishstat answers with the sessions it counts, or fails.
PollAnswers ==
  /\ poll = "running"
  /\ poll' \in {"failed"} \cup
       (IF varnishd = "exited" THEN {} ELSE {"none left", "some left"})
  /\ sawNone' = (sawNone \/ poll' = "none left")
  /\ UNCHANGED <<ncsaVars, pc, path, code, signalVars, daemonVars, vclVars,
                 pollInFlight, deadline, ended>>

DeadlinePasses ==
  /\ pc = "poll"
  /\ ~deadline
  /\ deadline' = TRUE
  /\ UNCHANGED <<ncsaVars, pc, path, code, signalVars, daemonVars, vclVars,
                 pollVars, ended, sawNone>>
-----------------------------------------------------------------------------
(* The loop's select and awaitOffLoop.                                     *)

StartReload ==
  /\ pc = "idle"
  /\ call = "none"
  /\ loaded < MaxReloads
  /\ call' = "load"
  /\ pc' = "reload"
  /\ UNCHANGED <<ncsaVars, path, code, signalVars, daemonVars, active, loaded,
                 sick, drainVars>>

ReloadReturns ==
  /\ pc = "reload"
  /\ call = "returned"
  /\ call' = "none"
  /\ pc' = "idle"
  /\ UNCHANGED <<ncsaVars, path, code, signalVars, daemonVars, active, loaded,
                 sick, drainVars>>

LoopReadsEvent ==
  /\ pc = "idle"
  /\ ReadEvent
  /\ UNCHANGED <<pc, path, code, signalVars, daemonVars, vclVars, drainVars>>

\* From the select, or from awaitOffLoop, which abandons the call.
TakeSignal ==
  /\ pc \in Running
  /\ sigCh
  /\ sigCh' = FALSE
  /\ path' = "signal"
  /\ pc' = IF Drain THEN "mark" ELSE "broadcast"
  /\ UNCHANGED <<ncsaVars, code, signals, daemonVars, vclVars, drainVars>>

\* Slip: the queued events are left where they are.
CrashEventsLeft == UNCHANGED <<events, emitted>>

\* drainNCSAEvents.
CrashEventsRead ==
  /\ emitted' = emitted \cup {events[i] : i \in 1..Len(events)}
  /\ events' = <<>>

TakeCrash ==
  /\ pc = "idle"
  /\ crashed
  /\ path' = "crash"
  /\ pc' = "forward"
  /\ CrashEventsRead
  /\ UNCHANGED <<monitor, child, stable, crashes, ncsaStop, crashed, dropped,
                 recent, code, signalVars, daemonVars, vclVars, drainVars>>

\* Slip: varnishncsa is left to the exit.
TakeServerErrLeaves ==
  /\ pc = "idle"
  /\ path' = "http"
  /\ pc' = "forward"
  /\ UNCHANGED <<ncsaVars, code, signalVars, daemonVars, vclVars, drainVars>>

\* An HTTP server has failed.
TakeServerErr ==
  /\ pc = "idle"
  /\ path' = "http"
  /\ pc' = "stopNCSA"
  /\ StopNCSA
  /\ UNCHANGED <<code, signalVars, daemonVars, vclVars, drainVars>>

TakeExit ==
  /\ pc = "idle"
  /\ varnishd = "exited"
  /\ path' = "exit"
  /\ pc' = "stopNCSA"
  /\ StopNCSA
  /\ UNCHANGED <<code, signalVars, daemonVars, vclVars, drainVars>>
-----------------------------------------------------------------------------
(* handleDrain.                                                            *)

EndDrain(why) == pc' = "broadcast" /\ ended' = why

\* A failure of varnishadm is logged and ignored.
MarkBackendSick ==
  /\ pc = "mark"
  /\ pc' = "delay"
  /\ sick' \in {sick} \cup (IF varnishd = "up" THEN {active} ELSE {})
  /\ UNCHANGED <<ncsaVars, path, code, signalVars, daemonVars, active, loaded,
                 call, drainVars>>

DrainDelayOver ==
  /\ pc = "delay"
  /\ IF Polls THEN pc' = "poll" /\ UNCHANGED ended
              ELSE EndDrain("delay")
  /\ UNCHANGED <<ncsaVars, path, code, signalVars, daemonVars, vclVars,
                 pollVars, deadline, sawNone>>

\* Slip: the loop waits for the poll it has started.
InterruptedWhenIdle ==
  /\ pc \in {"delay", "poll"}
  /\ ~pollInFlight
  /\ \/ varnishd = "exited" /\ EndDrain("exit") /\ UNCHANGED sigCh
     \/ sigCh /\ sigCh' = FALSE /\ EndDrain("signal")
  /\ UNCHANGED <<ncsaVars, path, code, signals, daemonVars, vclVars, pollVars,
                 deadline, sawNone>>

\* varnishd's exit or a second signal ends the delay and the polling.
Interrupted ==
  /\ pc \in {"delay", "poll"}
  /\ \/ varnishd = "exited" /\ EndDrain("exit") /\ UNCHANGED sigCh
     \/ sigCh /\ sigCh' = FALSE /\ EndDrain("signal")
  /\ UNCHANGED <<ncsaVars, path, code, signals, daemonVars, vclVars, pollVars,
                 deadline, sawNone>>

StartPoll ==
  /\ ~pollInFlight
  /\ pollInFlight' = TRUE
  /\ poll' = "running"

\* The ticker; a tick with the deadline over leaves it to the deadline.
Tick ==
  /\ pc = "poll"
  /\ ~deadline
  /\ StartPoll
  /\ UNCHANGED <<ncsaVars, pc, path, code, signalVars, daemonVars, vclVars,
                 deadline, ended, sawNone>>

DrainDeadline ==
  /\ pc = "poll"
  /\ deadline
  /\ EndDrain("deadline")
  /\ UNCHANGED <<ncsaVars, path, code, signalVars, daemonVars, vclVars,
                 pollVars, deadline, sawNone>>

\* Slip: a failed poll counts as no sessions.
DrainedOrFailed(answer) == answer \in {"none left", "failed"}

Drained(answer) == answer = "none left"

PollAnswered ==
  /\ pc = "poll"
  /\ poll \notin {"none", "running"}
  /\ pollInFlight' = FALSE
  /\ poll' = "none"
  /\ IF Drained(poll) THEN EndDrain("drained") ELSE UNCHANGED <<pc, ended>>
  /\ UNCHANGED <<ncsaVars, path, code, signalVars, daemonVars, vclVars,
                 deadline, sawNone>>
-----------------------------------------------------------------------------
(* The rest of runShutdown, which the other paths share in part.           *)

\* Broadcast.Drain returns, at the latest at its timeouts; StopNCSA begins.
BroadcastDrained ==
  /\ pc = "broadcast"
  /\ pc' = "stopNCSA"
  /\ StopNCSA
  /\ UNCHANGED <<path, code, signalVars, daemonVars, vclVars, drainVars>>

\* The exit path has nothing more to stop.
NcsaStopped ==
  /\ pc = "stopNCSA"
  /\ monitor = "done"
  /\ IF path = "exit" THEN pc' = "exited" /\ code' = 1
                      ELSE pc' = "forward" /\ UNCHANGED code
  /\ UNCHANGED <<ncsaVars, path, signalVars, daemonVars, vclVars, drainVars>>

ForwardSignal ==
  /\ pc = "forward"
  /\ pc' = "wait"
  /\ asked' = asked \cup {"TERM"}
  /\ UNCHANGED <<ncsaVars, path, code, signalVars, varnishd, clean, vclVars,
                 drainVars>>

\* Slip: the wait for varnishd has no end.
ForceNever == pc = "never" /\ UNCHANGED vars

\* --shutdown-timeout is over.
ForceExit ==
  /\ pc = "wait" /\ Escalates
  /\ pc' = "kill"
  /\ asked' = asked \cup {"KILL"}
  /\ UNCHANGED <<ncsaVars, path, code, signalVars, varnishd, clean, vclVars,
                 drainVars>>

\* Slip: every path reports varnishd's error.
CodeOfError == IF clean THEN 0 ELSE 1

\* Only a signal is a reason to exit that is no failure.
ExitCode == IF path = "signal" /\ clean THEN 0 ELSE 1

Exit ==
  /\ pc \in {"wait", "kill"}
  /\ varnishd = "exited"
  /\ pc' = "exited"
  /\ code' = ExitCode
  /\ UNCHANGED <<ncsaVars, path, signalVars, daemonVars, vclVars, drainVars>>
-----------------------------------------------------------------------------
\* varnishncsa's monitor and process, until the program has exited.
NcsaStep ==
  /\ pc # "exited"
  /\ Monitor \/ Process
  /\ UNCHANGED <<pc, path, code, signalVars, daemonVars, vclVars, drainVars>>

Environment ==
  Signal \/ VarnishdExits \/ CallStep
  \/ PollAnswers \/ DeadlinePasses \/ NcsaStep

Select == TakeSignal \/ TakeCrash \/ TakeServerErr \/ TakeExit

HandleDrain ==
  MarkBackendSick \/ DrainDelayOver \/ Interrupted \/ Tick \/ DrainDeadline
  \/ PollAnswered

RunShutdown ==
  BroadcastDrained \/ NcsaStopped \/ ForwardSignal \/ ForceExit \/ Exit

Next ==
  \/ Environment
  \/ StartReload \/ ReloadReturns \/ LoopReadsEvent
  \/ Select \/ HandleDrain \/ RunShutdown

Spec == Init /\ [][Next]_vars

(***************************************************************************)
(* The loop's goroutine runs; varnishadm's CLI timeout, the drain of the    *)
(* broadcast server, StopNCSA and --shutdown-timeout are bounded.  Nothing  *)
(* is assumed of varnishstat, of sessions and of what varnishd obeys; the   *)
(* drain's own timers expire where DrainTimers says so.                    *)
(***************************************************************************)
FairSpec ==
  /\ Spec
  /\ WF_vars(TakeSignal)
  /\ WF_vars(ReloadReturns)
  /\ WF_vars(CallStep)
  /\ WF_vars(Select)
  /\ WF_vars(MarkBackendSick)
  /\ WF_vars(Interrupted)
  /\ WF_vars(DrainDeadline)
  /\ WF_vars(RunShutdown)
  /\ WF_vars(NcsaStep /\ Monitor)
  /\ WF_vars(NcsaStep /\ KilledExits)
  /\ SF_vars(NcsaStep /\ (StopWaiting \/ Terminate))

DrainTimers ==
  /\ WF_vars(DrainDelayOver)
  /\ WF_vars(DeadlinePasses)
  /\ WF_vars(VarnishdExits /\ "KILL" \in asked)
-----------------------------------------------------------------------------
(* What must hold.                                                         *)

LoopTypeOK ==
  /\ pc \in Running \cup Draining \cup Stopping \cup {"exited"}
  /\ path \in Paths
  /\ code \in {-1, 0, 1}
  /\ sigCh \in BOOLEAN /\ signals \in 0..MaxSignals
  /\ varnishd \in {"up", "exited"} /\ clean \in BOOLEAN
  /\ asked \subseteq {"TERM", "KILL"}

ReloadTypeOK ==
  /\ active \in 0..MaxReloads /\ loaded \in 0..MaxReloads
  /\ call \in {"none", "load", "use", "returned"}
  /\ sick \in -1..MaxReloads

DrainTypeOK ==
  /\ pollInFlight \in BOOLEAN
  /\ poll \in {"none", "running", "failed", "none left", "some left"}
  /\ deadline \in BOOLEAN
  /\ ended \in {"no", "delay", "exit", "signal", "deadline", "drained"}
  /\ sawNone \in BOOLEAN

TypeOK == NcsaTypeOK /\ LoopTypeOK /\ ReloadTypeOK /\ DrainTypeOK

\* Whatever ended the loop, the program leaves neither varnishd nor
\* varnishncsa behind (the five ways out of runLoop).
Reaped == pc = "exited" => varnishd = "exited" /\ child = "none"

\* Exit code 0 says that a signal asked for the end and that varnishd ended
\* without an error; a crash loop, a failed server, or a varnishd that died or
\* was killed, is an error (runLoop's return values, Manager.Err).
SuccessMeansAsked == code = 0 => signals > 0 /\ clean /\ varnishd = "exited"

\* With --drain a signal does not reach varnishd before the drain has ended for
\* a reason: a failed poll, or one that is still out, is none (handleDrain).
ServedToTheEnd ==
  path = "signal" /\ Drain /\ asked # {} =>
    /\ ended # "no"
    /\ ended = "drained" => sawNone
    /\ ended = "deadline" => deadline
    /\ ended = "signal" => signals > 1

\* An exit because of a crash loop is explained by its event, unless the
\* queue was full (drainNCSAEvents).
CrashExplained == path = "crash" => "CrashLoop" \in emitted \/ dropped

\* Once it is asked to, and the drain's timers expire, the program ends,
\* whatever varnishd, varnishncsa and varnishstat do (runShutdown, the other
\* ways out of runLoop).
Ends == DrainTimers => (pc \notin Running ~> pc = "exited")

\* A second signal, or varnishd's exit, ends the drain, even if varnishstat
\* never answers and the timers are far off (handleDrain's select).
DrainInterruptible ==
  pc \in Draining /\ (sigCh \/ varnishd = "exited") ~> pc \notin Draining

\* While the drain lasts, the VCL that varnishd runs is the one whose drain
\* backend was marked sick, so that all responses close their connections.
AllResponsesClose ==
  sick # -1 /\ pc \in Draining /\ varnishd = "up" => active = sick
=============================================================================
