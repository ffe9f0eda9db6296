----------------------------- MODULE ReloadLoop -----------------------------
(***************************************************************************)
(* The VCL reload path of the event loop (src/main.go, runLoop and its      *)
(* handleReload closure), with the renderer's template swap                 *)
(* (src/internal/renderer/renderer.go), the template file watcher           *)
(* (watchFile), the recovery timer (recoveryState) and, as the environment, *)
(* the varnishd that executes one Manager.Reload at a time.                 *)
(*                                                                         *)
(* Templates, inputs (frontends, backends, values and secrets together) and *)
(* VCL texts are opaque: Output says what a template renders for an input,  *)
(* Parseable which template files parse, Compiles which VCL varnishd        *)
(* accepts.  The debounce timers are armed or not; Debounce.tla's business  *)
(* is when they fire.  The loop's other event groups do not touch this      *)
(* state.  What follows a shutdown signal is only the value "shutdown".     *)
(***************************************************************************)
EXTENDS Naturals

CONSTANTS
  Templates,        \* contents the template file may have
  Inputs,           \* values of latestFrontends/Backends/Values/Secrets
  Vcls,             \* rendered texts
  Output,           \* [Templates \X Inputs -> Vcls \cup {RenderError}]
  RenderError,      \* Render returned an error
  Readable,         \* contents os.ReadFile returns without an error
  Parseable,        \* contents rend.Reload parses
  Compiles,         \* texts varnishd's compiler accepts
  InitialTemplate,  \* what the template file holds when run() starts
  None,             \* the nil template
  RecoveryInitial,  \* reloadRecoveryInitial, in units of the first delay
  RecoveryMax,      \* reloadRecoveryMax, 0 for no cap
  Faults,           \* which failures the environment may produce
  SlowEdits         \* the operator edits only what the loop has picked up

Failures == {"tempFile", "load", "use", "useApplied"}

ASSUME DataAssumption ==
  /\ None \notin Templates
  /\ RenderError \notin Vcls
  /\ Output \in [Templates \X Inputs -> Vcls \cup {RenderError}]
  /\ Readable \subseteq Templates
  /\ Parseable \subseteq Readable
  /\ Compiles \subseteq Vcls
  /\ InitialTemplate \in Parseable
  /\ Faults \subseteq Failures
  /\ SlowEdits \in BOOLEAN

ASSUME RecoveryAssumption == RecoveryInitial \in Nat /\ RecoveryMax \in Nat

VARIABLES
  disk,             \* content of the template file
  baseline,         \* watchFile: the content last seen
  templateCh,       \* watchFile's channel (capacity 1) holds a notification
  rend,             \* the Renderer's tmpl and prev
  latest,           \* the inputs the loop has received last
  pendingReload, templateChanged, templateSwapped,
  armed,            \* the debounce groups whose timer runs
  recovery,         \* vclRecovery: is the timer set, and the backoff delay
  lastVCL,          \* lastVCLHash
  pc,               \* where the loop's goroutine is
  call,             \* the Manager.Reload last started
  active,           \* the VCL varnishd runs
  sigCh,            \* a signal is buffered in sigCh (capacity 1)
  pendingShutdown,
  proven            \* history: the template last committed

fileVars == <<disk, baseline, templateCh>>
vars == <<fileVars, rend, latest, pendingReload, templateChanged,
          templateSwapped, armed, recovery, lastVCL, pc, call, active,
          sigCh, pendingShutdown, proven>>

Groups == {"frontend", "backend"}
Rollbacks == {"rollbackRender", "rollbackReject"}
InFlight == {"load", "use"}
Results == {"ok", "rejected", "failed"}
-----------------------------------------------------------------------------
(* The Renderer's template slots.                                          *)

\* Slip: a second swap takes the first for proven.
RendReloadOverwrites(r, t) == [tmpl |-> t, prev |-> r.tmpl]

\* Back-to-back Reloads keep the baseline that was proven.
RendReload(r, t) ==
  [tmpl |-> t, prev |-> IF r.prev = None THEN r.tmpl ELSE r.prev]

RendCommit(r) == [r EXCEPT !.prev = None]

RendRollback(r) ==
  IF r.prev = None THEN r ELSE [tmpl |-> r.prev, prev |-> None]

(* The recovery timer and its exponential backoff.                         *)

NextDelay(d) ==
  IF d = 0 THEN RecoveryInitial
  ELSE IF RecoveryMax > 0 /\ 2 * d > RecoveryMax THEN RecoveryMax ELSE 2 * d

Arm(r) == IF RecoveryInitial = 0 THEN r
          ELSE [armed |-> TRUE, delay |-> NextDelay(r.delay)]

Disarmed == [armed |-> FALSE, delay |-> 0]

Fired(r) == [r EXCEPT !.armed = FALSE]

(* markRetry and clearPending, the two ways a reload attempt ends.         *)

\* Slips: no timer for the retry; a timer for a reload that is not pending.
MarkRetryForgets(r) == pendingReload' = TRUE /\ recovery' = r
MarkRetryDrops(r) == pendingReload' = FALSE /\ recovery' = Arm(r)

MarkRetry(r) == pendingReload' = TRUE /\ recovery' = Arm(r)

ClearPending == pendingReload' = FALSE /\ recovery' = Disarmed
-----------------------------------------------------------------------------
Init ==
  /\ disk = InitialTemplate
  /\ baseline = InitialTemplate
  /\ templateCh = FALSE
  /\ rend = [tmpl |-> InitialTemplate, prev |-> None]
  /\ latest \in {i \in Inputs : Output[<<InitialTemplate, i>>] \in Compiles}
  /\ pendingReload = FALSE
  /\ templateChanged = FALSE
  /\ templateSwapped = FALSE
  /\ armed = {}
  /\ recovery = Disarmed
  /\ lastVCL = Output[<<InitialTemplate, latest>>]
  /\ pc = "select"
  /\ call = [vcl |-> lastVCL, phase |-> "ok"]
  /\ active = lastVCL
  /\ sigCh = FALSE
  /\ pendingShutdown = FALSE
  /\ proven = InitialTemplate
-----------------------------------------------------------------------------
(* The environment: the operator edits the file, watchFile polls it, a      *)
(* signal arrives.                                                         *)

EditTemplate(t) ==
  /\ t # disk
  /\ SlowEdits => disk = baseline /\ ~templateCh /\ ~templateChanged
  /\ disk' = t
  /\ UNCHANGED <<baseline, templateCh, rend, latest, pendingReload,
                 templateChanged, templateSwapped, armed, recovery, lastVCL,
                 pc, call, active, sigCh, pendingShutdown, proven>>

\* A poll that cannot read the file keeps the old baseline; the send does
\* not block, so a second change before the loop reads is one notification.
PollTemplate ==
  /\ pc # "shutdown"
  /\ disk \in Readable
  /\ disk # baseline
  /\ baseline' = disk
  /\ templateCh' = TRUE
  /\ UNCHANGED <<disk, rend, latest, pendingReload, templateChanged,
                 templateSwapped, armed, recovery, lastVCL, pc, call, active,
                 sigCh, pendingShutdown, proven>>

Signal ==
  /\ ~sigCh
  /\ sigCh' = TRUE
  /\ UNCHANGED <<fileVars, rend, latest, pendingReload, templateChanged,
                 templateSwapped, armed, recovery, lastVCL, pc, call, active,
                 pendingShutdown, proven>>
-----------------------------------------------------------------------------
(* varnishd and the goroutine that talks to it.  Reload's own attempts are  *)
(* folded into one outcome of vcl.load: the last attempt's.                *)

LoadVCL ==
  /\ call.phase = "load"
  /\ \E result \in {"use", "rejected", "failed"} :
       /\ result = "use" => call.vcl \in Compiles
       /\ result = "rejected" => call.vcl \notin Compiles
       /\ result = "failed" => "load" \in Faults
       /\ call' = [call EXCEPT !.phase = result]
  /\ UNCHANGED <<fileVars, rend, latest, pendingReload, templateChanged,
                 templateSwapped, armed, recovery, lastVCL, pc, active,
                 sigCh, pendingShutdown, proven>>

\* vcl.use may fail, and a client that gave up may have been obeyed.
UseVCL ==
  /\ call.phase = "use"
  /\ \/ active' = call.vcl /\ call' = [call EXCEPT !.phase = "ok"]
     \/ "use" \in Faults /\ UNCHANGED active
        /\ call' = [call EXCEPT !.phase = "failed"]
     \/ "useApplied" \in Faults /\ active' = call.vcl
        /\ call' = [call EXCEPT !.phase = "failed"]
  /\ UNCHANGED <<fileVars, rend, latest, pendingReload, templateChanged,
                 templateSwapped, armed, recovery, lastVCL, pc,
                 sigCh, pendingShutdown, proven>>
-----------------------------------------------------------------------------
(* The select loop.                                                        *)

Selecting == pc = "select" /\ ~pendingShutdown

TemplateEvent ==
  /\ Selecting
  /\ templateCh
  /\ templateCh' = FALSE
  /\ pendingReload' = TRUE
  /\ templateChanged' = TRUE
  /\ armed' = armed \cup {"backend"}
  /\ UNCHANGED <<disk, baseline, rend, latest, templateSwapped, recovery,
                 lastVCL, pc, call, active, sigCh, pendingShutdown, proven>>

\* The frontend, backend, values and secrets cases.
InputEvent(g, i) ==
  /\ Selecting
  /\ latest' = i
  /\ pendingReload' = TRUE
  /\ armed' = armed \cup {g}
  /\ UNCHANGED <<fileVars, rend, templateChanged, templateSwapped, recovery,
                 lastVCL, pc, call, active, sigCh, pendingShutdown, proven>>

\* Manager.Reload(v) starts; the loop waits for it at `where'.
StartCall(v, where) ==
  /\ call' = [vcl |-> v, phase |-> "load"]
  /\ pc' = where

\* Slip: the rolled-back template is gone for good.
RecoverNothing(r, where) == rend' = r /\ templateSwapped' = FALSE

\* The end of a rollback whose reload did not happen: after a render error
\* the template is read from disk again, after a rejection it is not.
RecoverSwapped(r, where) ==
  IF where = "rollbackRender" /\ disk \in Parseable
  THEN rend' = RendReload(r, disk) /\ templateSwapped' = TRUE
  ELSE rend' = r /\ templateSwapped' = FALSE

\* rollbackReload with the rolled-back renderer r, up to its Manager.Reload.
RollbackReload(r, rec, where) ==
  LET out == Output[<<r.tmpl, latest>>]
  IN  \/ /\ out = RenderError \/ "tempFile" \in Faults
         /\ RecoverSwapped(r, where)
         /\ MarkRetry(rec)
         /\ pc' = "select"
         /\ UNCHANGED call
      \/ /\ out # RenderError
         /\ StartCall(out, where)
         /\ rend' = r
         /\ templateSwapped' = FALSE
         /\ pendingReload' = FALSE
         /\ recovery' = rec

\* handleReload from the template re-read to the start of Manager.Reload.
\* rec is the recovery timer on entry.
AttemptReload(rec) ==
  LET reread  == templateChanged /\ disk \in Parseable
      r       == IF reread THEN RendReload(rend, disk) ELSE rend
      swapped == templateSwapped \/ reread
      out     == Output[<<r.tmpl, latest>>]
  IN  /\ templateChanged' = FALSE
      /\ \/ /\ out = RenderError
            /\ swapped
            /\ RollbackReload(RendRollback(r), rec, "rollbackRender")
            /\ UNCHANGED <<lastVCL, proven>>
         \/ /\ out = RenderError
            /\ ~swapped
            /\ ClearPending
            /\ UNCHANGED <<rend, templateSwapped, lastVCL, pc, call, proven>>
         \/ /\ out = lastVCL
            /\ rend' = RendCommit(r)
            /\ proven' = r.tmpl
            /\ templateSwapped' = FALSE
            /\ ClearPending
            /\ UNCHANGED <<lastVCL, pc, call>>
         \/ /\ out \notin {RenderError, lastVCL}
            /\ "tempFile" \in Faults
            /\ rend' = r
            /\ templateSwapped' = swapped
            /\ MarkRetry(rec)
            /\ UNCHANGED <<lastVCL, pc, call, proven>>
         \/ /\ out \notin {RenderError, lastVCL}
            /\ StartCall(out, "reload")
            /\ rend' = r
            /\ templateSwapped' = swapped
            /\ pendingReload' = FALSE
            /\ recovery' = rec
            /\ UNCHANGED <<lastVCL, proven>>

\* Either timer reloads with all latest state and clears both groups.
HandleReload(rec, idle) ==
  /\ armed' = {}
  /\ IF pendingReload
     THEN AttemptReload(rec)
     ELSE /\ recovery' = idle
          /\ UNCHANGED <<rend, pendingReload, templateChanged,
                         templateSwapped, lastVCL, pc, call, proven>>
  /\ UNCHANGED <<fileVars, latest, active, sigCh, pendingShutdown>>

DebounceFire(g) ==
  /\ Selecting
  /\ g \in armed
  /\ HandleReload(recovery, recovery)

RecoveryFire ==
  /\ Selecting
  /\ recovery.armed
  /\ HandleReload(Fired(recovery), Disarmed)
-----------------------------------------------------------------------------
(* The rest of handleReload, after Manager.Reload returned.                *)

ReloadSucceeded ==
  /\ pc = "reload"
  /\ call.phase = "ok"
  /\ pc' = "select"
  /\ lastVCL' = call.vcl
  /\ rend' = RendCommit(rend)
  /\ proven' = rend.tmpl
  /\ templateSwapped' = FALSE
  /\ ClearPending
  /\ UNCHANGED <<fileVars, latest, templateChanged, armed, call, active,
                 sigCh, pendingShutdown>>

\* Slip: any reload failure is taken for a rejection.
RollsBackOnAnyError == templateSwapped

\* Only a compiler rejection of a swapped template is the template's fault.
RollsBack == templateSwapped /\ call.phase = "rejected"

ReloadFailed ==
  /\ pc = "reload"
  /\ call.phase \in {"rejected", "failed"}
  /\ IF RollsBack
     THEN RollbackReload(RendRollback(rend), recovery, "rollbackReject")
     ELSE /\ MarkRetry(recovery)
          /\ pc' = "select"
          /\ UNCHANGED <<rend, templateSwapped, call>>
  /\ UNCHANGED <<fileVars, latest, templateChanged, armed, lastVCL, active,
                 sigCh, pendingShutdown, proven>>

\* awaitOffLoop: the signal came first; the call goes on without the loop.
ReloadAbandoned ==
  /\ pc = "reload"
  /\ sigCh
  /\ sigCh' = FALSE
  /\ pendingShutdown' = TRUE
  /\ pendingReload' = TRUE
  /\ pc' = "select"
  /\ UNCHANGED <<fileVars, rend, latest, templateChanged, templateSwapped,
                 armed, recovery, lastVCL, call, active, proven>>

\* Slip: the rollback's VCL is not recorded.
RollbackForgetsHash ==
  /\ pc \in Rollbacks
  /\ call.phase = "ok"
  /\ pc' = "select"
  /\ ClearPending
  /\ UNCHANGED <<fileVars, rend, latest, templateChanged, templateSwapped,
                 armed, lastVCL, call, active, sigCh, pendingShutdown, proven>>

RollbackSucceeded ==
  /\ pc \in Rollbacks
  /\ call.phase = "ok"
  /\ pc' = "select"
  /\ lastVCL' = call.vcl
  /\ ClearPending
  /\ UNCHANGED <<fileVars, rend, latest, templateChanged, templateSwapped,
                 armed, call, active, sigCh, pendingShutdown, proven>>

RollbackFailed ==
  /\ pc \in Rollbacks
  /\ call.phase \in {"rejected", "failed"}
  /\ pc' = "select"
  /\ RecoverSwapped(rend, pc)
  /\ MarkRetry(recovery)
  /\ UNCHANGED <<fileVars, latest, templateChanged, armed, lastVCL, call,
                 active, sigCh, pendingShutdown, proven>>

\* Slip: the top of the loop does not look at pendingShutdown.
ShutdownFromSelectOnly ==
  /\ Selecting
  /\ sigCh
  /\ sigCh' = FALSE
  /\ pc' = "shutdown"
  /\ UNCHANGED <<fileVars, rend, latest, pendingReload, templateChanged,
                 templateSwapped, armed, recovery, lastVCL, call, active,
                 pendingShutdown, proven>>

\* runShutdown, from the signal case or from the top of the loop.
Shutdown ==
  /\ pc = "select"
  /\ \/ pendingShutdown /\ UNCHANGED sigCh
     \/ ~pendingShutdown /\ sigCh /\ sigCh' = FALSE
  /\ pc' = "shutdown"
  /\ UNCHANGED <<fileVars, rend, latest, pendingReload, templateChanged,
                 templateSwapped, armed, recovery, lastVCL, call, active,
                 pendingShutdown, proven>>
-----------------------------------------------------------------------------
LoopReturns == ReloadSucceeded \/ ReloadFailed \/ ReloadAbandoned
               \/ RollbackSucceeded \/ RollbackFailed

Next ==
  \/ \E t \in Templates : EditTemplate(t)
  \/ PollTemplate
  \/ Signal
  \/ LoadVCL
  \/ UseVCL
  \/ TemplateEvent
  \/ \E g \in Groups, i \in Inputs : InputEvent(g, i)
  \/ \E g \in Groups : DebounceFire(g)
  \/ RecoveryFire
  \/ LoopReturns
  \/ Shutdown

Spec == Init /\ [][Next]_vars

(***************************************************************************)
(* Go's select picks uniformly among the ready cases, so a case that is     *)
(* ready again and again is taken: strong fairness for the cases.  The      *)
(* polling goroutine and the code after an await run: weak fairness.        *)
(***************************************************************************)
LoopFairness ==
  /\ WF_vars(PollTemplate)
  /\ SF_vars(TemplateEvent)
  /\ \A g \in Groups : SF_vars(DebounceFire(g))
  /\ SF_vars(RecoveryFire)
  /\ WF_vars(LoopReturns)
  /\ SF_vars(Shutdown)

\* The CLI timeout bounds every varnishadm call; a fault is not permanent.
VarnishdFairness ==
  /\ WF_vars(LoadVCL)
  /\ WF_vars(UseVCL)
  /\ SF_vars(LoadVCL /\ call'.phase # "failed")
  /\ SF_vars(UseVCL /\ call'.phase = "ok")

LoopFairSpec == Spec /\ LoopFairness
FairSpec == LoopFairSpec /\ VarnishdFairness
-----------------------------------------------------------------------------
(* What must hold.                                                         *)

TypeOK ==
  /\ disk \in Templates
  /\ baseline \in Templates
  /\ templateCh \in BOOLEAN
  /\ rend \in [tmpl : Templates, prev : Templates \cup {None}]
  /\ latest \in Inputs
  /\ pendingReload \in BOOLEAN
  /\ templateChanged \in BOOLEAN
  /\ templateSwapped \in BOOLEAN
  /\ armed \subseteq Groups
  /\ recovery \in [armed : BOOLEAN, delay : Nat]
  /\ lastVCL \in Vcls
  /\ pc \in {"select", "reload", "shutdown"} \cup Rollbacks
  /\ call \in [vcl : Vcls, phase : InFlight \cup Results]
  /\ active \in Vcls
  /\ sigCh \in BOOLEAN
  /\ pendingShutdown \in BOOLEAN
  /\ proven \in Templates

\* Renderer.Rollback always has the template varnishd last accepted to go
\* back to, however many swaps, temp-file failures, retries and recoveries
\* lie between (renderer.Reload and Commit, templateSwapped in runLoop).
ProvenBaseline ==
  IF templateSwapped THEN rend.prev = proven
                     ELSE rend.prev = None /\ rend.tmpl = proven

\* Whenever the loop waits for events, a pending reload has a timer that
\* will try it, and a timer that runs has a reload to try: a failure is
\* never forgotten (markRetry, clearPending, recoveryState.arm).
RetryScheduled ==
  Selecting =>
    /\ pendingReload /\ RecoveryInitial > 0 => armed # {} \/ recovery.armed
    /\ armed # {} \/ recovery.armed => pendingReload
    /\ recovery.armed <=> recovery.delay > 0

\* With nothing pending, the loop's record of varnishd's VCL is what the
\* template in force renders for the newest inputs, unless rendering them
\* fails: no update is lost to a failure, a rollback or the hash dedup.
SettledIsApplied ==
  Selecting /\ ~pendingReload =>
    Output[<<rend.tmpl, latest>>] \in {lastVCL, RenderError}

\* With nothing pending, varnishd runs the VCL the loop believes it runs
\* (lastVCLHash in runLoop against Manager.reload's vcl.use).
RunningIsRecorded ==
  Selecting /\ ~pendingReload => active = lastVCL

\* A swapped template is taken back only when what it renders for the
\* newest inputs is an error or is no VCL: a wedged varnishadm or a failed
\* vcl.use never costs the operator's template (handleReload's test of
\* ErrVCLRejected, and its render-error branch).
Candidate == IF templateChanged /\ disk \in Parseable THEN disk ELSE rend.tmpl

RollbackOnEvidence ==
  [][templateSwapped /\ ~templateSwapped' /\ rend'.tmpl # Candidate =>
       Output[<<Candidate, latest>>] \notin Compiles]_vars

\* Inputs every template fails to render are no template's fault.
GoodTemplates ==
  {t \in Parseable : \A i \in Inputs :
     \/ Output[<<t, i>>] \in Compiles
     \/ \A u \in Templates : Output[<<u, i>>] = RenderError}

\* A template that varnishd accepts for every sane input and that stays in
\* the file is in force again and again, whatever failed meanwhile
\* (watchFile, handleReload, recoverSwappedTemplate).
GoodTemplateAdopted ==
  \A t \in GoodTemplates :
    <>[](disk = t) => []<>(rend.tmpl = t) \/ <>(pc = "shutdown")

\* Inputs and file at rest: the loop comes to rest on what they render, or
\* they render nothing that varnishd takes.
Converges ==
  \A i \in Inputs, t \in Templates :
    <>[](latest = i /\ disk = t) =>
      \/ <>(pc = "shutdown")
      \/ []<>(/\ active = Output[<<rend.tmpl, i>>]
              /\ active = lastVCL)
      \/ []<>(Output[<<rend.tmpl, i>>] \notin Compiles)

\* A signal leads to the shutdown sequence (runLoop's signal case,
\* awaitOffLoop and pendingShutdown).
SignalHonoured == sigCh \/ pendingShutdown ~> pc = "shutdown"
=============================================================================
