-------------------------- MODULE ReloadLoop_proofs --------------------------
(***************************************************************************)
(* The safety properties of ReloadLoop for every set of templates, inputs   *)
(* and VCL texts, every rendering function and every recovery backoff.      *)
(***************************************************************************)
EXTENDS ReloadLoop, TLAPS

USE DEF fileVars, Groups, Rollbacks, InFlight, Results, Selecting

(***************************************************************************)
(* The renderer's and the timer's operators keep their types; an armed      *)
(* timer has a delay.                                                      *)
(***************************************************************************)
RendType == [tmpl : Templates, prev : Templates \cup {None}]
RecoveryType == [armed : BOOLEAN, delay : Nat]

\* Renderer.Reload, Commit and Rollback fill the slots with templates, and
\* Rollback leaves no baseline behind.
LEMMA RendTypes ==
  ASSUME NEW r \in RendType, NEW t \in Templates
  PROVE  /\ RendReload(r, t) \in RendType
         /\ RendReload(r, t).tmpl = t
         /\ RendReload(r, t).prev = IF r.prev = None THEN r.tmpl ELSE r.prev
         /\ RendCommit(r) \in RendType
         /\ RendCommit(r).tmpl = r.tmpl
         /\ RendCommit(r).prev = None
         /\ RendRollback(r) \in RendType
         /\ RendRollback(r).prev = None
         /\ RendRollback(r).tmpl = IF r.prev = None THEN r.tmpl ELSE r.prev
  BY DataAssumption DEF RendType, RendReload, RendCommit, RendRollback

\* recoveryState.arm sets the timer and a positive delay unless retries are
\* disabled.
LEMMA RecoveryTypes ==
  ASSUME NEW r \in RecoveryType
  PROVE  /\ Arm(r) \in RecoveryType
         /\ RecoveryInitial = 0 => Arm(r) = r
         /\ RecoveryInitial > 0 => Arm(r).armed /\ Arm(r).delay > 0
         /\ Fired(r) \in RecoveryType
         /\ ~Fired(r).armed
         /\ Disarmed \in RecoveryType
         /\ ~Disarmed.armed
         /\ Disarmed.delay = 0
  <1>1. NextDelay(r.delay) \in Nat
    BY RecoveryAssumption DEF NextDelay, RecoveryType
  <1>2. RecoveryInitial > 0 => NextDelay(r.delay) > 0
    BY RecoveryAssumption DEF NextDelay, RecoveryType
  <1>3. Disarmed \in RecoveryType /\ ~Disarmed.armed /\ Disarmed.delay = 0
    BY DEF Disarmed, RecoveryType
  <1>4. Fired(r) \in RecoveryType /\ ~Fired(r).armed
    BY DEF Fired, RecoveryType
  <1>5. Arm(r) \in RecoveryType /\ (RecoveryInitial = 0 => Arm(r) = r)
    BY <1>1 DEF Arm, RecoveryType
  <1>6. RecoveryInitial > 0 => Arm(r).armed /\ Arm(r).delay > 0
    BY <1>2, RecoveryAssumption DEF Arm
  <1> QED
    BY <1>3, <1>4, <1>5, <1>6
-----------------------------------------------------------------------------
(* Type correctness.                                                       *)

\* What rollbackReload leaves behind, given a renderer r that has been
\* rolled back and the recovery timer rec.
LEMMA RollbackReloadTypes ==
  ASSUME TypeOK, NEW r \in RendType, NEW rec \in RecoveryType,
         NEW where \in Rollbacks, RollbackReload(r, rec, where)
  PROVE  /\ rend' \in RendType
         /\ templateSwapped' \in BOOLEAN
         /\ pendingReload' \in BOOLEAN
         /\ recovery' \in RecoveryType
         /\ pc' \in {"select"} \cup Rollbacks
         /\ call' \in [vcl : Vcls, phase : InFlight \cup Results]
  <1> DEFINE out == Output[<<r.tmpl, latest>>]
  <1>1. out \in Vcls \cup {RenderError}
    BY DataAssumption DEF TypeOK, RendType
  <1>2. CASE RecoverSwapped(r, where) /\ MarkRetry(rec) /\ pc' = "select"
             /\ UNCHANGED call
    <2>1. recovery' \in RecoveryType /\ pendingReload' \in BOOLEAN
      BY <1>2, RecoveryTypes DEF MarkRetry
    <2>2. CASE where = "rollbackRender" /\ disk \in Parseable
      BY <1>2, <2>1, <2>2, RendTypes DEF RecoverSwapped, TypeOK
    <2>3. CASE ~(where = "rollbackRender" /\ disk \in Parseable)
      BY <1>2, <2>1, <2>3 DEF RecoverSwapped, TypeOK
    <2> QED
      BY <2>2, <2>3
  <1>3. CASE /\ out # RenderError
             /\ StartCall(out, where)
             /\ rend' = r
             /\ templateSwapped' = FALSE
             /\ pendingReload' = FALSE
             /\ recovery' = rec
    BY <1>1, <1>3 DEF StartCall
  <1> QED
    BY <1>2, <1>3 DEF RollbackReload

\* The same for handleReload up to its Manager.Reload.
LEMMA AttemptReloadTypes ==
  ASSUME TypeOK, NEW rec \in RecoveryType, AttemptReload(rec)
  PROVE  /\ rend' \in RendType
         /\ templateSwapped' \in BOOLEAN
         /\ templateChanged' \in BOOLEAN
         /\ pendingReload' \in BOOLEAN
         /\ recovery' \in RecoveryType
         /\ pc' \in {"select", "reload"} \cup Rollbacks \cup {pc}
         /\ call' \in [vcl : Vcls, phase : InFlight \cup Results]
         /\ lastVCL' \in Vcls
         /\ proven' \in Templates
  <1> DEFINE reread  == templateChanged /\ disk \in Parseable
             r       == IF reread THEN RendReload(rend, disk) ELSE rend
             swapped == templateSwapped \/ reread
             out     == Output[<<r.tmpl, latest>>]
  <1>1. r \in RendType /\ swapped \in BOOLEAN
    BY RendTypes DEF TypeOK, RendType
  <1>2. out \in Vcls \cup {RenderError}
    BY <1>1, DataAssumption DEF TypeOK, RendType
  <1>3. RendRollback(r) \in RendType /\ RendCommit(r) \in RendType
        /\ r.tmpl \in Templates
    BY <1>1, RendTypes DEF RendType
  <1>4. CASE /\ RollbackReload(RendRollback(r), rec, "rollbackRender")
             /\ UNCHANGED <<lastVCL, proven>>
    BY <1>3, <1>4, RollbackReloadTypes DEF TypeOK, AttemptReload
  <1>5. CASE /\ ClearPending
             /\ UNCHANGED <<rend, templateSwapped, lastVCL, pc, call, proven>>
    BY <1>5, RecoveryTypes DEF TypeOK, AttemptReload, ClearPending, RendType
  <1>6. CASE /\ rend' = RendCommit(r)
             /\ proven' = r.tmpl
             /\ templateSwapped' = FALSE
             /\ ClearPending
             /\ UNCHANGED <<lastVCL, pc, call>>
    BY <1>3, <1>6, RecoveryTypes DEF TypeOK, AttemptReload, ClearPending
  <1>7. CASE /\ rend' = r
             /\ templateSwapped' = swapped
             /\ MarkRetry(rec)
             /\ UNCHANGED <<lastVCL, pc, call, proven>>
    BY <1>1, <1>7, RecoveryTypes DEF TypeOK, AttemptReload, MarkRetry
  <1>8. CASE /\ out \notin {RenderError, lastVCL}
             /\ StartCall(out, "reload")
             /\ rend' = r
             /\ templateSwapped' = swapped
             /\ pendingReload' = FALSE
             /\ recovery' = rec
             /\ UNCHANGED <<lastVCL, proven>>
    BY <1>1, <1>2, <1>8 DEF TypeOK, AttemptReload, StartCall
  <1> QED
    BY <1>4, <1>5, <1>6, <1>7, <1>8 DEF AttemptReload

\* Every variable of the reload path keeps its type.
LEMMA TypeCorrect == Spec => []TypeOK
  <1>1. Init => TypeOK
    <2> SUFFICES ASSUME Init PROVE TypeOK
      OBVIOUS
    <2>1. InitialTemplate \in Templates /\ lastVCL \in Vcls
      BY DataAssumption DEF Init
    <2>2. rend \in RendType /\ recovery \in RecoveryType
      BY <2>1 DEF Init, Disarmed, RendType, RecoveryType
    <2>3. call \in [vcl : Vcls, phase : InFlight \cup Results]
      BY <2>1 DEF Init
    <2> QED
      BY <2>1, <2>2, <2>3 DEF Init, TypeOK, RendType, RecoveryType
  <1>2. TypeOK /\ [Next]_vars => TypeOK'
    <2> SUFFICES ASSUME TypeOK, [Next]_vars PROVE TypeOK'
      OBVIOUS
    <2> USE DEF TypeOK
    <2>0. rend \in RendType /\ recovery \in RecoveryType
      BY DEF RendType, RecoveryType
    <2>1. CASE \E t \in Templates : EditTemplate(t)
      BY <2>1 DEF EditTemplate
    <2>2. CASE PollTemplate
      BY <2>2 DEF PollTemplate
    <2>3. CASE Signal
      BY <2>3 DEF Signal
    <2>4. CASE LoadVCL
      BY <2>4 DEF LoadVCL
    <2>5. CASE UseVCL
      BY <2>5 DEF UseVCL
    <2>6. CASE TemplateEvent
      BY <2>6 DEF TemplateEvent
    <2>7. CASE \E g \in Groups, i \in Inputs : InputEvent(g, i)
      BY <2>7 DEF InputEvent
    <2>8. ASSUME NEW rec \in RecoveryType, NEW idle \in RecoveryType,
                 HandleReload(rec, idle)
          PROVE  TypeOK'
      <3>1. CASE pendingReload
        BY <2>8, <3>1, AttemptReloadTypes
           DEF HandleReload, RendType, RecoveryType
      <3>2. CASE ~pendingReload
        BY <2>8, <3>2 DEF HandleReload, RecoveryType
      <3> QED BY <3>1, <3>2
    <2>9. CASE \E g \in Groups : DebounceFire(g)
      BY <2>0, <2>8, <2>9 DEF DebounceFire
    <2>10. CASE RecoveryFire
      BY <2>0, <2>8, <2>10, RecoveryTypes DEF RecoveryFire
    <2>11. CASE ReloadSucceeded
      BY <2>0, <2>11, RendTypes, RecoveryTypes
         DEF ReloadSucceeded, ClearPending, RendType, RecoveryType
    <2>12. CASE ReloadFailed
      <3>1. CASE RollsBack
        <4>1. RendRollback(rend) \in RendType
          BY <2>0, RendTypes, DataAssumption DEF RendType
        <4> QED
          BY <2>0, <2>12, <3>1, <4>1, RollbackReloadTypes
             DEF ReloadFailed, RendType, RecoveryType
      <3>2. CASE ~RollsBack
        BY <2>0, <2>12, <3>2, RecoveryTypes
           DEF ReloadFailed, MarkRetry, RecoveryType
      <3> QED BY <3>1, <3>2
    <2>13. CASE ReloadAbandoned
      BY <2>13 DEF ReloadAbandoned
    <2>14. CASE RollbackSucceeded
      BY <2>14, RecoveryTypes
         DEF RollbackSucceeded, ClearPending, RecoveryType
    <2>15. CASE RollbackFailed
      <3>1. recovery' \in RecoveryType /\ pendingReload' \in BOOLEAN
        BY <2>0, <2>15, RecoveryTypes DEF RollbackFailed, MarkRetry
      <3>2. rend' \in RendType /\ templateSwapped' \in BOOLEAN
        <4>1. CASE pc = "rollbackRender" /\ disk \in Parseable
          BY <2>0, <2>15, <4>1, RendTypes DEF RollbackFailed, RecoverSwapped
        <4>2. CASE ~(pc = "rollbackRender" /\ disk \in Parseable)
          BY <2>0, <2>15, <4>2 DEF RollbackFailed, RecoverSwapped
        <4> QED BY <4>1, <4>2
      <3> QED
        BY <2>15, <3>1, <3>2 DEF RollbackFailed, RendType, RecoveryType
    <2>16. CASE Shutdown
      <3>1. sigCh' \in BOOLEAN /\ pc' = "shutdown"
        BY <2>16 DEF Shutdown
      <3> QED
        BY <2>16, <3>1 DEF Shutdown
    <2>17. CASE UNCHANGED vars
      BY <2>17 DEF vars
    <2> QED
      BY <2>1, <2>2, <2>3, <2>4, <2>5, <2>6, <2>7, <2>9, <2>10, <2>11,
         <2>12, <2>13, <2>14, <2>15, <2>16, <2>17 DEF Next, LoopReturns
  <1> QED
    BY <1>1, <1>2, PTL DEF Spec
-----------------------------------------------------------------------------
(***************************************************************************)
(* The inductive invariant.  ProvenBaseline, RetryScheduled and             *)
(* SettledIsApplied speak of the loop at its select; while the loop waits   *)
(* for Manager.Reload, what it will conclude from the result rests on what  *)
(* it passed to it.                                                        *)
(***************************************************************************)
Waiting == pc = "reload" \/ pc \in Rollbacks

\* The call in flight loads what the renderer's template renders for the
\* newest inputs; nothing has been scheduled since it started.
CallInv ==
  /\ call.phase = "rejected" => call.vcl \notin Compiles
  /\ Selecting => call.phase \in Results
  /\ Waiting =>
       /\ call.vcl = Output[<<rend.tmpl, latest>>]
       /\ armed = {}
       /\ ~templateChanged
       /\ ~pendingShutdown
  /\ pc \in Rollbacks => ~templateSwapped

RecoveryInv ==
  /\ RecoveryInitial = 0 => recovery = Disarmed
  /\ recovery.armed => recovery.delay > 0

\* varnishd runs what the loop recorded, or what the call that succeeded
\* has just activated.
RunningInv ==
  /\ Selecting => active = lastVCL
  /\ Waiting => active = IF call.phase = "ok" THEN call.vcl ELSE lastVCL
-----------------------------------------------------------------------------
\* The inductive invariant without the types, and what it needs of the
\* recovery timer.
Control == ProvenBaseline /\ RetryScheduled /\ SettledIsApplied /\ CallInv
           /\ RecoveryInv

TimerOK(r) ==
  /\ r \in RecoveryType
  /\ RecoveryInitial = 0 => r = Disarmed
  /\ r.armed => r.delay > 0

\* markRetry leaves a timer that will try again.
LEMMA MarkRetryTimer ==
  ASSUME NEW rec, TimerOK(rec), MarkRetry(rec)
  PROVE  /\ pendingReload'
         /\ RecoveryInitial = 0 => recovery' = Disarmed
         /\ RecoveryInitial > 0 => recovery'.armed /\ recovery'.delay > 0
         /\ RecoveryInitial \in Nat
  BY RecoveryTypes, RecoveryAssumption DEF TimerOK, MarkRetry

\* rollbackReload restores the control invariant from a renderer r that is
\* back on the proven template.
LEMMA RollbackReloadControl ==
  ASSUME TypeOK, NEW r \in RendType, r.prev = None, r.tmpl = proven,
         NEW rec, TimerOK(rec), NEW where \in Rollbacks,
         ~pendingShutdown, call.phase \in Results,
         call.phase = "rejected" => call.vcl \notin Compiles,
         RollbackReload(r, rec, where), armed' = {}, ~templateChanged',
         UNCHANGED <<latest, pendingShutdown, lastVCL, proven>>
  PROVE  Control'
  <1> DEFINE out == Output[<<r.tmpl, latest>>]
  <1>1. CASE RecoverSwapped(r, where) /\ MarkRetry(rec) /\ pc' = "select"
             /\ UNCHANGED call
    <2>1. ProvenBaseline'
      <3>1. CASE where = "rollbackRender" /\ disk \in Parseable
        <4>1. disk \in Templates /\ None \notin Templates
          BY DataAssumption DEF TypeOK
        <4> QED
          BY <1>1, <3>1, <4>1, RendTypes DEF RecoverSwapped, ProvenBaseline
      <3>2. CASE ~(where = "rollbackRender" /\ disk \in Parseable)
        BY <1>1, <3>2 DEF RecoverSwapped, ProvenBaseline
      <3> QED BY <3>1, <3>2
    <2>2. RetryScheduled' /\ RecoveryInv' /\ SettledIsApplied'
      <3>1. pendingReload' /\ RecoveryInitial \in Nat
        BY <1>1, MarkRetryTimer
      <3>2. CASE RecoveryInitial = 0
        BY <1>1, <3>1, <3>2, MarkRetryTimer
           DEF RetryScheduled, RecoveryInv, SettledIsApplied, Disarmed
      <3>3. CASE RecoveryInitial > 0
        BY <1>1, <3>1, <3>3, MarkRetryTimer
           DEF RetryScheduled, RecoveryInv, SettledIsApplied
      <3> QED BY <3>1, <3>2, <3>3
    <2>3. CallInv'
      BY <1>1 DEF CallInv, Waiting
    <2> QED BY <2>1, <2>2, <2>3 DEF Control
  <1>2. CASE /\ out # RenderError
             /\ StartCall(out, where)
             /\ rend' = r
             /\ templateSwapped' = FALSE
             /\ pendingReload' = FALSE
             /\ recovery' = rec
    <2>1. ProvenBaseline'
      BY <1>2 DEF ProvenBaseline
    <2>2. RetryScheduled' /\ RecoveryInv' /\ SettledIsApplied'
      BY <1>2 DEF RetryScheduled, RecoveryInv, SettledIsApplied, StartCall,
                  TimerOK
    <2>3. CallInv'
      BY <1>2 DEF CallInv, Waiting, StartCall
    <2> QED BY <2>1, <2>2, <2>3 DEF Control
  <1> QED
    BY <1>1, <1>2 DEF RollbackReload

\* handleReload up to its Manager.Reload restores it from the select.
LEMMA AttemptReloadControl ==
  ASSUME TypeOK, Control, Selecting, NEW rec, TimerOK(rec),
         AttemptReload(rec), armed' = {},
         UNCHANGED <<disk, latest, pendingShutdown>>
  PROVE  Control'
  <1> DEFINE reread  == templateChanged /\ disk \in Parseable
             r       == IF reread THEN RendReload(rend, disk) ELSE rend
             swapped == templateSwapped \/ reread
             out     == Output[<<r.tmpl, latest>>]
  <1>1. rend \in RendType /\ disk \in Templates /\ None \notin Templates
        /\ proven \in Templates
    BY DataAssumption DEF TypeOK, RendType
  <1>2. r \in RendType
    BY <1>1, RendTypes
  <1>3. IF swapped THEN r.prev = proven ELSE r.prev = None /\ r.tmpl = proven
    <2>1. CASE reread
      BY <1>1, <2>1, RendTypes DEF Control, ProvenBaseline
    <2>2. CASE ~reread
      BY <2>2 DEF Control, ProvenBaseline
    <2> QED BY <2>1, <2>2
  <1>4. /\ RendRollback(r) \in RendType
        /\ RendRollback(r).prev = None
        /\ RendRollback(r).tmpl = proven
        /\ RendCommit(r).prev = None
        /\ RendCommit(r).tmpl = r.tmpl
    BY <1>1, <1>2, <1>3, RendTypes
  <1>5. /\ call.phase \in Results
        /\ call.phase = "rejected" => call.vcl \notin Compiles
    BY DEF Control, CallInv
  <1>6. ~templateChanged'
    BY DEF AttemptReload
  <1>7. CASE /\ RollbackReload(RendRollback(r), rec, "rollbackRender")
             /\ UNCHANGED <<lastVCL, proven>>
    BY <1>4, <1>5, <1>6, <1>7, RollbackReloadControl
  <1>8. CASE /\ out = RenderError
             /\ ~swapped
             /\ ClearPending
             /\ UNCHANGED <<rend, templateSwapped, lastVCL, pc, call, proven>>
    <2>1. r = rend
      BY <1>8
    <2>2. ProvenBaseline' /\ SettledIsApplied'
      BY <1>8, <2>1 DEF Control, ProvenBaseline, SettledIsApplied
    <2>3. RetryScheduled' /\ RecoveryInv'
      BY <1>8, RecoveryTypes DEF RetryScheduled, RecoveryInv, ClearPending,
                                 Disarmed
    <2>4. CallInv'
      BY <1>5, <1>8 DEF CallInv, Waiting
    <2> QED BY <2>2, <2>3, <2>4 DEF Control
  <1>9. CASE /\ out = lastVCL
             /\ rend' = RendCommit(r)
             /\ proven' = r.tmpl
             /\ templateSwapped' = FALSE
             /\ ClearPending
             /\ UNCHANGED <<lastVCL, pc, call>>
    <2>1. ProvenBaseline' /\ SettledIsApplied'
      BY <1>4, <1>9 DEF ProvenBaseline, SettledIsApplied
    <2>2. RetryScheduled' /\ RecoveryInv'
      BY <1>9, RecoveryTypes DEF RetryScheduled, RecoveryInv, ClearPending,
                                 Disarmed
    <2>3. CallInv'
      BY <1>5, <1>9 DEF CallInv, Waiting
    <2> QED BY <2>1, <2>2, <2>3 DEF Control
  <1>10. CASE /\ rend' = r
              /\ templateSwapped' = swapped
              /\ MarkRetry(rec)
              /\ UNCHANGED <<lastVCL, pc, call, proven>>
    <2>1. ProvenBaseline'
      BY <1>3, <1>10 DEF ProvenBaseline
    <2>2. RetryScheduled' /\ RecoveryInv' /\ SettledIsApplied'
      <3>1. pendingReload' /\ RecoveryInitial \in Nat
        BY <1>10, MarkRetryTimer
      <3>2. CASE RecoveryInitial = 0
        BY <1>10, <3>1, <3>2, MarkRetryTimer
           DEF RetryScheduled, RecoveryInv, SettledIsApplied, Disarmed
      <3>3. CASE RecoveryInitial > 0
        BY <1>10, <3>1, <3>3, MarkRetryTimer
           DEF RetryScheduled, RecoveryInv, SettledIsApplied
      <3> QED BY <3>1, <3>2, <3>3
    <2>3. CallInv'
      BY <1>5, <1>10 DEF CallInv, Waiting
    <2> QED BY <2>1, <2>2, <2>3 DEF Control
  <1>11. CASE /\ out \notin {RenderError, lastVCL}
              /\ StartCall(out, "reload")
              /\ rend' = r
              /\ templateSwapped' = swapped
              /\ pendingReload' = FALSE
              /\ recovery' = rec
              /\ UNCHANGED <<lastVCL, proven>>
    <2>1. ProvenBaseline'
      BY <1>3, <1>11 DEF ProvenBaseline
    <2>2. RetryScheduled' /\ RecoveryInv' /\ SettledIsApplied'
      BY <1>11 DEF RetryScheduled, RecoveryInv, SettledIsApplied, StartCall,
                   TimerOK
    <2>3. CallInv'
      BY <1>6, <1>11 DEF CallInv, Waiting, StartCall
    <2> QED BY <2>1, <2>2, <2>3 DEF Control
  <1> QED
    BY <1>7, <1>8, <1>9, <1>10, <1>11 DEF AttemptReload
-----------------------------------------------------------------------------
\* The control invariant holds initially and every action preserves it.
LEMMA ControlInit == Init => Control
  <1> SUFFICES ASSUME Init PROVE Control
    OBVIOUS
  <1>1. ProvenBaseline /\ SettledIsApplied
    BY DEF Init, ProvenBaseline, SettledIsApplied
  <1>2. RetryScheduled /\ RecoveryInv /\ CallInv
    BY DEF Init, RetryScheduled, RecoveryInv, CallInv, Waiting, Disarmed
  <1> QED BY <1>1, <1>2 DEF Control

\* Every step keeps Control: one case per action, the shared pieces of
\* handleReload and rollbackReload by their lemmas.
LEMMA ControlStep == TypeOK /\ Control /\ [Next]_vars => Control'
  <1> SUFFICES ASSUME TypeOK, Control, [Next]_vars PROVE Control'
    OBVIOUS
  <1>0. /\ rend \in RendType /\ recovery \in RecoveryType
        /\ TimerOK(recovery)
        /\ None \notin Templates /\ disk \in Templates
        /\ proven \in Templates
    BY DataAssumption
       DEF TypeOK, RendType, RecoveryType, TimerOK, Control, RecoveryInv
  <1>1. CASE \E t \in Templates : EditTemplate(t)
    BY <1>1 DEF EditTemplate, Control, ProvenBaseline, RetryScheduled,
                SettledIsApplied, CallInv, Waiting, RecoveryInv
  <1>2. CASE PollTemplate
    BY <1>2 DEF PollTemplate, Control, ProvenBaseline, RetryScheduled,
                SettledIsApplied, CallInv, Waiting, RecoveryInv
  <1>3. CASE Signal
    BY <1>3 DEF Signal, Control, ProvenBaseline, RetryScheduled,
                SettledIsApplied, CallInv, Waiting, RecoveryInv
  <1>4. CASE LoadVCL
    <2>1. ProvenBaseline' /\ RetryScheduled' /\ SettledIsApplied'
          /\ RecoveryInv'
      BY <1>4 DEF LoadVCL, Control, ProvenBaseline, RetryScheduled,
                  SettledIsApplied, RecoveryInv
    <2>2. ~Selecting
      BY <1>4 DEF LoadVCL, Control, CallInv
    <2>3. PICK result \in {"use", "rejected", "failed"} :
            /\ result = "rejected" => call.vcl \notin Compiles
            /\ call' = [call EXCEPT !.phase = result]
      BY <1>4 DEF LoadVCL
    <2>4. call'.phase = result /\ call'.vcl = call.vcl
      BY <2>3 DEF TypeOK
    <2>5. CallInv'
      BY <1>4, <2>2, <2>3, <2>4 DEF LoadVCL, Control, CallInv, Waiting
    <2> QED BY <2>1, <2>5 DEF Control
  <1>5. CASE UseVCL
    <2>1. ProvenBaseline' /\ RetryScheduled' /\ SettledIsApplied'
          /\ RecoveryInv'
      BY <1>5 DEF UseVCL, Control, ProvenBaseline, RetryScheduled,
                  SettledIsApplied, RecoveryInv
    <2>2. ~Selecting
      BY <1>5 DEF UseVCL, Control, CallInv
    <2>3. call'.phase \in {"ok", "failed"} /\ call'.vcl = call.vcl
      BY <1>5 DEF UseVCL, TypeOK
    <2>4. CallInv'
      BY <1>5, <2>2, <2>3 DEF UseVCL, Control, CallInv, Waiting
    <2> QED BY <2>1, <2>4 DEF Control
  <1>6. CASE TemplateEvent
    BY <1>6 DEF TemplateEvent, Control, ProvenBaseline, RetryScheduled,
                SettledIsApplied, CallInv, Waiting, RecoveryInv
  <1>7. CASE \E g \in Groups, i \in Inputs : InputEvent(g, i)
    BY <1>7 DEF InputEvent, Control, ProvenBaseline, RetryScheduled,
                SettledIsApplied, CallInv, Waiting, RecoveryInv
  <1>8. ASSUME NEW rec, TimerOK(rec), Selecting, pendingReload,
               NEW idle, HandleReload(rec, idle)
        PROVE  Control'
    BY <1>8, AttemptReloadControl DEF HandleReload, fileVars, TimerOK
  <1>9. CASE \E g \in Groups : DebounceFire(g)
    <2>1. pendingReload
      BY <1>9 DEF DebounceFire, Control, RetryScheduled
    <2> QED BY <1>0, <1>8, <1>9, <2>1 DEF DebounceFire
  <1>10. CASE RecoveryFire
    <2>1. pendingReload
      BY <1>10 DEF RecoveryFire, Control, RetryScheduled
    <2>2. RecoveryInitial # 0
      BY <1>10 DEF RecoveryFire, Control, RecoveryInv, Disarmed
    <2>3. TimerOK(Fired(recovery))
      BY <1>0, <2>2, RecoveryTypes DEF TimerOK
    <2> QED BY <1>8, <1>10, <2>1, <2>3 DEF RecoveryFire
  <1>11. CASE ReloadSucceeded
    <2>1. RendCommit(rend).prev = None /\ RendCommit(rend).tmpl = rend.tmpl
      BY <1>0, RendTypes
    <2>2. ProvenBaseline' /\ SettledIsApplied'
      BY <1>11, <2>1 DEF ReloadSucceeded, Control, CallInv, Waiting,
                         ProvenBaseline, SettledIsApplied
    <2>3. RetryScheduled' /\ RecoveryInv'
      BY <1>11 DEF ReloadSucceeded, Control, CallInv, Waiting, ClearPending,
                   RetryScheduled, RecoveryInv, Disarmed
    <2>4. CallInv'
      BY <1>11 DEF ReloadSucceeded, CallInv, Waiting
    <2> QED BY <2>2, <2>3, <2>4 DEF Control
  <1>12. CASE ReloadFailed
    <2>1. /\ call.phase \in Results /\ ~pendingShutdown
          /\ armed = {} /\ ~templateChanged
          /\ call.phase = "rejected" => call.vcl \notin Compiles
      BY <1>12 DEF ReloadFailed, Control, CallInv, Waiting
    <2>2. CASE RollsBack
      <3>1. /\ RendRollback(rend) \in RendType
            /\ RendRollback(rend).prev = None
            /\ RendRollback(rend).tmpl = proven
        BY <1>0, <2>2, RendTypes DEF RollsBack, Control, ProvenBaseline
      <3> QED
        BY <1>0, <1>12, <2>1, <2>2, <3>1, RollbackReloadControl
           DEF ReloadFailed
    <2>3. CASE ~RollsBack
      <3>1. ProvenBaseline'
        BY <1>12, <2>3 DEF ReloadFailed, Control, ProvenBaseline
      <3>2. RetryScheduled' /\ RecoveryInv' /\ SettledIsApplied'
        <4>1. MarkRetry(recovery)
          BY <1>12, <2>3 DEF ReloadFailed
        <4>2. pendingReload' /\ RecoveryInitial \in Nat
          BY <1>0, <4>1, MarkRetryTimer
        <4>3. CASE RecoveryInitial = 0
          BY <1>0, <1>12, <2>1, <4>1, <4>2, <4>3, MarkRetryTimer
             DEF RetryScheduled, RecoveryInv, SettledIsApplied, Disarmed,
                 ReloadFailed
        <4>4. CASE RecoveryInitial > 0
          BY <1>0, <4>1, <4>2, <4>4, MarkRetryTimer
             DEF RetryScheduled, RecoveryInv, SettledIsApplied
        <4> QED BY <4>2, <4>3, <4>4
      <3>3. CallInv'
        BY <1>12, <2>1, <2>3 DEF ReloadFailed, CallInv, Waiting
      <3> QED BY <3>1, <3>2, <3>3 DEF Control
    <2> QED BY <2>2, <2>3
  <1>13. CASE ReloadAbandoned
    BY <1>13 DEF ReloadAbandoned, Control, ProvenBaseline, RetryScheduled,
                 SettledIsApplied, CallInv, Waiting, RecoveryInv
  <1>14. CASE RollbackSucceeded
    <2>1. ProvenBaseline' /\ SettledIsApplied'
      BY <1>14 DEF RollbackSucceeded, Control, CallInv, Waiting,
                   ProvenBaseline, SettledIsApplied
    <2>2. RetryScheduled' /\ RecoveryInv'
      BY <1>14 DEF RollbackSucceeded, Control, CallInv, Waiting,
                   ClearPending, RetryScheduled, RecoveryInv, Disarmed
    <2>3. CallInv'
      BY <1>14 DEF RollbackSucceeded, CallInv, Waiting
    <2> QED BY <2>1, <2>2, <2>3 DEF Control
  <1>15. CASE RollbackFailed
    <2>1. /\ call.phase \in Results /\ ~pendingShutdown
          /\ call.phase = "rejected" => call.vcl \notin Compiles
          /\ rend.prev = None /\ rend.tmpl = proven
      BY <1>15 DEF RollbackFailed, Control, CallInv, Waiting, ProvenBaseline
    <2>2. ProvenBaseline'
      <3>1. CASE pc = "rollbackRender" /\ disk \in Parseable
        BY <1>0, <1>15, <2>1, <3>1, RendTypes
           DEF RollbackFailed, RecoverSwapped, ProvenBaseline
      <3>2. CASE ~(pc = "rollbackRender" /\ disk \in Parseable)
        BY <1>15, <2>1, <3>2
           DEF RollbackFailed, RecoverSwapped, ProvenBaseline
      <3> QED BY <3>1, <3>2
    <2>3. RetryScheduled' /\ RecoveryInv' /\ SettledIsApplied'
      <3>1. MarkRetry(recovery)
        BY <1>15 DEF RollbackFailed
      <3>2. pendingReload' /\ RecoveryInitial \in Nat /\ armed' = {}
        BY <1>0, <1>15, <3>1, MarkRetryTimer
           DEF RollbackFailed, Control, CallInv, Waiting
      <3>3. CASE RecoveryInitial = 0
        BY <1>0, <3>1, <3>2, <3>3, MarkRetryTimer
           DEF RetryScheduled, RecoveryInv, SettledIsApplied, Disarmed
      <3>4. CASE RecoveryInitial > 0
        BY <1>0, <3>1, <3>2, <3>4, MarkRetryTimer
           DEF RetryScheduled, RecoveryInv, SettledIsApplied
      <3> QED BY <3>2, <3>3, <3>4
    <2>4. CallInv'
      BY <1>15, <2>1 DEF RollbackFailed, CallInv, Waiting
    <2> QED BY <2>2, <2>3, <2>4 DEF Control
  <1>16. CASE Shutdown
    BY <1>16 DEF Shutdown, Control, ProvenBaseline, RetryScheduled,
                 SettledIsApplied, CallInv, Waiting, RecoveryInv
  <1>17. CASE UNCHANGED vars
    BY <1>17 DEF vars, Control, ProvenBaseline, RetryScheduled,
                 SettledIsApplied, CallInv, Waiting, RecoveryInv
  <1> QED
    BY <1>1, <1>2, <1>3, <1>4, <1>5, <1>6, <1>7, <1>9, <1>10, <1>11,
       <1>12, <1>13, <1>14, <1>15, <1>16, <1>17 DEF Next, LoopReturns
-----------------------------------------------------------------------------
(* The theorems.                                                           *)

\* Types and Control together, in every reachable state: what the theorems on
\* the handlers of runLoop are read off from.
LEMMA Inductive == Spec => [](TypeOK /\ Control)
  BY TypeCorrect, ControlInit, ControlStep, PTL DEF Spec

\* The types, stated with the properties below.
THEOREM TypeInvariant == Spec => []TypeOK
  BY TypeCorrect

\* Rollback always has the template varnishd last accepted to go back to
\* (Renderer.Reload, Commit, Rollback under every order of swap, temp-file
\* failure, retry, rejection and recovery).
THEOREM BaselineIsProven == Spec => []ProvenBaseline
  <1>1. Control => ProvenBaseline
    BY DEF Control
  <1> QED BY <1>1, Inductive, PTL

\* A failed reload is never forgotten: while the loop waits for events, a
\* pending reload has a running timer (markRetry, clearPending).
THEOREM RetryIsScheduled == Spec => []RetryScheduled
  <1>1. Control => RetryScheduled
    BY DEF Control
  <1> QED BY <1>1, Inductive, PTL

\* A loop with nothing pending has applied its newest inputs with the
\* template in force, or they do not render (handleReload, rollbackReload).
THEOREM SettledMeansApplied == Spec => []SettledIsApplied
  <1>1. Control => SettledIsApplied
    BY DEF Control
  <1> QED BY <1>1, Inductive, PTL

\* A swapped template is rolled back only when its own output is at fault
\* (handleReload's branches on a render error and on ErrVCLRejected).
THEOREM NoRollbackWithoutEvidence == Spec => RollbackOnEvidence
  <1> DEFINE Evidence ==
        templateSwapped /\ ~templateSwapped' /\ rend'.tmpl # Candidate =>
          Output[<<Candidate, latest>>] \notin Compiles
  <1>1. TypeOK /\ Control /\ [Next]_vars => [Evidence]_vars
    <2> SUFFICES ASSUME TypeOK, Control, Next,
                        templateSwapped, ~templateSwapped',
                        rend'.tmpl # Candidate
                 PROVE  Output[<<Candidate, latest>>] \notin Compiles
      OBVIOUS
    <2>0. rend \in RendType /\ disk \in Templates
          /\ RenderError \notin Compiles
      BY DataAssumption DEF TypeOK, RendType
    <2>1. ASSUME NEW rec, NEW idle, HandleReload(rec, idle)
          PROVE  Output[<<Candidate, latest>>] \notin Compiles
      <3> DEFINE reread == templateChanged /\ disk \in Parseable
                 r == IF reread THEN RendReload(rend, disk) ELSE rend
      <3>1. r.tmpl = Candidate
        BY <2>0, RendTypes DEF Candidate
      <3>2. RendCommit(r).tmpl = r.tmpl
        BY <2>0, RendTypes
      <3>3. pendingReload /\ AttemptReload(rec)
        BY <2>1 DEF HandleReload
      <3>4. CASE Output[<<r.tmpl, latest>>] = RenderError
        BY <2>0, <3>1, <3>4
      <3>5. CASE Output[<<r.tmpl, latest>>] # RenderError
        BY <3>1, <3>2, <3>3, <3>5 DEF AttemptReload
      <3> QED BY <3>4, <3>5
    <2>2. CASE ReloadFailed
      <3>1. RollsBack
        BY <2>2 DEF ReloadFailed
      <3> QED
        BY <2>2, <3>1
           DEF ReloadFailed, RollsBack, Control, CallInv, Waiting, Candidate
    <2>3. CASE ReloadSucceeded
      <3>1. RendCommit(rend).tmpl = rend.tmpl
        BY <2>0, RendTypes
      <3> QED
        BY <2>3, <3>1
           DEF ReloadSucceeded, Control, CallInv, Waiting, Candidate
    <2>4. CASE RollbackFailed
      BY <2>4 DEF RollbackFailed, Control, CallInv
    <2>5. CASE \E t \in Templates : EditTemplate(t)
      BY <2>5 DEF EditTemplate
    <2>6. CASE \E g \in Groups, i \in Inputs : InputEvent(g, i)
      BY <2>6 DEF InputEvent
    <2>7. CASE PollTemplate \/ Signal \/ LoadVCL \/ UseVCL \/ TemplateEvent
      BY <2>7 DEF PollTemplate, Signal, LoadVCL, UseVCL, TemplateEvent
    <2>8. CASE ReloadAbandoned \/ RollbackSucceeded \/ Shutdown
      BY <2>8 DEF ReloadAbandoned, RollbackSucceeded, Shutdown
    <2> QED
      BY <2>1, <2>2, <2>3, <2>4, <2>5, <2>6, <2>7, <2>8
         DEF Next, LoopReturns, DebounceFire, RecoveryFire
  <1> QED
    BY <1>1, Inductive, PTL DEF Spec, RollbackOnEvidence

\* When a client never gives up on a vcl.use that varnishd obeys, varnishd
\* runs what the loop recorded whenever the loop waits for events
\* (lastVCLHash against Manager.reload).
THEOREM RunningMatchesRecord ==
  ASSUME "useApplied" \notin Faults
  PROVE  Spec => []RunningIsRecorded
  <1>1. Init => RunningInv
    BY DEF Init, RunningInv, Waiting
  <1>2. TypeOK /\ Control /\ RunningInv /\ [Next]_vars => RunningInv'
    <2> SUFFICES ASSUME TypeOK, Control, RunningInv, [Next]_vars
                 PROVE  RunningInv'
      OBVIOUS
    <2> USE DEF RunningInv, Waiting
    <2>1. CASE \E t \in Templates : EditTemplate(t)
      BY <2>1 DEF EditTemplate
    <2>2. CASE PollTemplate \/ Signal \/ TemplateEvent \/ Shutdown
      BY <2>2 DEF PollTemplate, Signal, TemplateEvent, Shutdown
    <2>3. CASE LoadVCL
      <3>1. call'.phase # "ok" /\ call'.vcl = call.vcl
        BY <2>3 DEF LoadVCL, TypeOK
      <3> QED BY <2>3, <3>1 DEF LoadVCL, Control, CallInv
    <2>4. CASE UseVCL
      <3>1. call'.vcl = call.vcl
        BY <2>4 DEF UseVCL, TypeOK
      <3>2. \/ active' = call.vcl /\ call'.phase = "ok"
            \/ active' = active /\ call'.phase = "failed"
        BY <2>4 DEF UseVCL, TypeOK
      <3> QED BY <2>4, <3>1, <3>2 DEF UseVCL, Control, CallInv
    <2>5. CASE \E g \in Groups, i \in Inputs : InputEvent(g, i)
      BY <2>5 DEF InputEvent
    <2>6. ASSUME NEW r, NEW rec, NEW where \in Rollbacks, active = lastVCL,
                 RollbackReload(r, rec, where),
                 UNCHANGED <<active, lastVCL, pendingShutdown>>
          PROVE  RunningInv'
      BY <2>6 DEF RollbackReload, StartCall
    <2>7. ASSUME NEW rec, NEW idle, Selecting, HandleReload(rec, idle)
          PROVE  RunningInv'
      <3>1. active = lastVCL /\ UNCHANGED <<active, lastVCL, pendingShutdown>>
        BY <2>7 DEF HandleReload, AttemptReload
      <3>2. CASE pc' = "select"
        BY <3>1, <3>2
      <3>3. CASE pc' # "select"
        BY <2>6, <2>7, <3>1, <3>3 DEF HandleReload, AttemptReload, StartCall
      <3> QED BY <3>2, <3>3
    <2>8. CASE RecoveryFire \/ \E g \in Groups : DebounceFire(g)
      BY <2>7, <2>8 DEF RecoveryFire, DebounceFire
    <2>9. CASE ReloadSucceeded \/ RollbackSucceeded \/ ReloadAbandoned
      BY <2>9 DEF ReloadSucceeded, RollbackSucceeded, ReloadAbandoned
    <2>10. CASE ReloadFailed
      BY <2>6, <2>10 DEF ReloadFailed, Control, CallInv
    <2>11. CASE RollbackFailed
      BY <2>11 DEF RollbackFailed
    <2>12. CASE UNCHANGED vars
      BY <2>12 DEF vars
    <2> QED
      BY <2>1, <2>2, <2>3, <2>4, <2>5, <2>8, <2>9, <2>10, <2>11, <2>12
         DEF Next, LoopReturns
  <1>3. RunningInv => RunningIsRecorded
    BY DEF RunningInv, RunningIsRecorded
  <1> QED
    BY <1>1, <1>2, <1>3, Inductive, PTL DEF Spec
=============================================================================
