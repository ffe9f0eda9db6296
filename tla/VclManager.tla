----------------------------- MODULE VclManager -----------------------------
(***************************************************************************)
(* Manager.Reload (src/internal/varnish/manager.go) command by command: the *)
(* attempts with their fresh names, vcl.use, the discard after a failed     *)
(* activation, and discardOldVCLs with its retention.  varnishd's list of   *)
(* VCLs, the labels an operator may set on them, and the commands that fail *)
(* or time out after they took effect are the environment.                  *)
(*                                                                         *)
(* A VCL is its number: n > 0 is kv_reload_n, 0 is the initial VCL and -1   *)
(* one an operator loaded by hand.                                          *)
(***************************************************************************)
EXTENDS Integers, FiniteSets

CONSTANTS
  KeptLimits,      \* the values of VCLKept to consider
  ReloadRetries,   \* attempts after the first
  MaxCalls,        \* bound: calls of Reload
  MaxVclFaults     \* bound: commands that fail or answer late, and labels

ASSUME VclAssumption ==
  /\ KeptLimits \subseteq Nat
  /\ ReloadRetries \in Nat /\ MaxCalls \in Nat /\ MaxVclFaults \in Nat

VARIABLES
  vclKept,    \* configuration
  vpc,        \* where reload is, "idle" outside a call
  attempt,
  reloadCounter,
  lastErr,    \* what the last failed vcl.load was
  vclReply,   \* what the last call returned
  loaded,     \* varnishd: the VCLs it holds
  activeVcl,
  labelled,   \* varnishd: targets of labels
  doomed,     \* the rest of the list discardOldVCLs is working on
  exited,     \* varnishd has exited
  swept,      \* history: what the last clean-up discarded
  clean,      \* history: no fault or label since the last clean-up's listing
  calls, vclFaults

vclVars == <<vclKept, vpc, attempt, reloadCounter, lastErr, vclReply, loaded,
             activeVcl, labelled, doomed, exited, swept, clean, calls,
             vclFaults>>

VclInit ==
  /\ vclKept \in KeptLimits
  /\ vpc = "idle"
  /\ attempt = 0
  /\ reloadCounter = 0
  /\ lastErr = "none"
  /\ vclReply = "none"
  /\ loaded = {-1, 0}
  /\ activeVcl = 0
  /\ labelled = {}
  /\ doomed = {}
  /\ exited = FALSE
  /\ swept = {}
  /\ clean = TRUE
  /\ calls = 0
  /\ vclFaults = 0
-----------------------------------------------------------------------------
(* Helpers.                                                                *)

\* A command goes wrong.
VclFault ==
  /\ exited \/ vclFaults < MaxVclFaults
  /\ vclFaults' = IF exited THEN vclFaults ELSE vclFaults + 1
  /\ clean' = FALSE

NoFault == ~exited /\ UNCHANGED <<vclFaults, clean>>

\* A command that fails has had its effect or not.
LateOrNot(x, effect) == x' = x \/ (~exited /\ x' = effect)

Return(answer) == vpc' = "idle" /\ vclReply' = answer

\* The VCLs the clean-up may consider.
Spare == {n \in loaded \ (labelled \cup {activeVcl}) : n > 0}

\* Slip: the target of a label takes one of the places.
SurplusCountsLabels ==
  {n \in Spare : Cardinality({o \in loaded \ {activeVcl} : o > n}) >= vclKept}

\* What lies beyond the newest vclKept, by number; 0 keeps none.
Surplus == {n \in Spare : Cardinality({o \in Spare : o > n}) >= vclKept}
-----------------------------------------------------------------------------
(* reload.                                                                 *)

Reload ==
  /\ vpc = "idle" /\ calls < MaxCalls
  /\ calls' = calls + 1
  /\ vpc' = "load"
  /\ attempt' = 1
  /\ reloadCounter' = reloadCounter + 1
  /\ vclReply' = "none"
  /\ UNCHANGED <<vclKept, lastErr, loaded, activeVcl, labelled, doomed, exited,
                 swept, clean, vclFaults>>

LoadSucceeds ==
  /\ vpc = "load"
  /\ NoFault
  /\ loaded' = loaded \cup {reloadCounter}
  /\ vpc' = "use"
  /\ UNCHANGED <<vclKept, attempt, reloadCounter, lastErr, vclReply, activeVcl,
                 labelled, doomed, exited, swept, calls>>

\* After a failed vcl.load: wait and try again, or give up.
RetryOr(verdict) ==
  /\ lastErr' = verdict
  /\ IF attempt <= ReloadRetries THEN vpc' = "wait" /\ UNCHANGED vclReply
                                 ELSE Return(verdict)

\* The compiler says no.
LoadRejected ==
  /\ vpc = "load"
  /\ NoFault
  /\ RetryOr("rejected")
  /\ UNCHANGED <<vclKept, attempt, reloadCounter, loaded, activeVcl, labelled,
                 doomed, exited, swept, calls>>

LoadFails ==
  /\ vpc = "load"
  /\ VclFault
  /\ LateOrNot(loaded, loaded \cup {reloadCounter})
  /\ RetryOr("failed")
  /\ UNCHANGED <<vclKept, attempt, reloadCounter, activeVcl, labelled, doomed,
                 exited, swept, calls>>

\* ReloadRetryInterval is over.
RetryNow ==
  /\ vpc = "wait"
  /\ vpc' = "load"
  /\ attempt' = attempt + 1
  /\ reloadCounter' = reloadCounter + 1
  /\ UNCHANGED <<vclKept, lastErr, vclReply, loaded, activeVcl, labelled,
                 doomed, exited, swept, clean, calls, vclFaults>>

\* varnishd exited: no further attempt.
RetryAborted ==
  /\ vpc = "wait"
  /\ exited
  /\ Return(lastErr)
  /\ UNCHANGED <<vclKept, attempt, reloadCounter, lastErr, loaded, activeVcl,
                 labelled, doomed, exited, swept, clean, calls, vclFaults>>

UseSucceeds ==
  /\ vpc = "use"
  /\ NoFault
  /\ activeVcl' = reloadCounter
  /\ vpc' = "list"
  /\ UNCHANGED <<vclKept, attempt, reloadCounter, lastErr, vclReply, loaded,
                 labelled, doomed, exited, swept, calls>>

UseFails ==
  /\ vpc = "use"
  /\ VclFault
  /\ LateOrNot(activeVcl, reloadCounter)
  /\ vpc' = "undo"
  /\ UNCHANGED <<vclKept, attempt, reloadCounter, lastErr, vclReply, loaded,
                 labelled, doomed, exited, swept, calls>>

\* Slip: a failed activation is taken for a rejection.
UndoRejects ==
  /\ vpc = "undo"
  /\ NoFault
  /\ loaded' = loaded \ ({reloadCounter} \ ({activeVcl} \cup labelled))
  /\ Return("rejected")
  /\ UNCHANGED <<vclKept, attempt, reloadCounter, lastErr, activeVcl, labelled,
                 doomed, exited, swept, calls>>

\* The VCL that was not activated is discarded, unless varnishd refuses or the
\* command fails; never a rejection.
Undo ==
  /\ vpc = "undo"
  /\ \/ /\ NoFault
        /\ loaded' = loaded \ ({reloadCounter} \ ({activeVcl} \cup labelled))
     \/ /\ VclFault
        /\ UNCHANGED loaded
  /\ Return("failed")
  /\ UNCHANGED <<vclKept, attempt, reloadCounter, lastErr, activeVcl, labelled,
                 doomed, exited, swept, calls>>
-----------------------------------------------------------------------------
(* discardOldVCLs.                                                         *)

ListVcls ==
  /\ vpc = "list"
  /\ ~exited
  /\ clean' = TRUE
  /\ swept' = {}
  /\ doomed' = Surplus
  /\ IF Surplus = {} THEN Return("ok") ELSE vpc' = "sweep" /\ UNCHANGED vclReply
  /\ UNCHANGED <<vclKept, attempt, reloadCounter, lastErr, loaded, activeVcl,
                 labelled, exited, calls, vclFaults>>

ListFails ==
  /\ vpc = "list"
  /\ VclFault
  /\ Return("ok")
  /\ UNCHANGED <<vclKept, attempt, reloadCounter, lastErr, loaded, activeVcl,
                 labelled, doomed, exited, swept, calls>>

\* vcl.discard of one of them; a failure is logged.  varnishd refuses one that
\* was given a label since the listing.
DiscardOld(n) ==
  /\ vpc = "sweep" /\ n \in doomed
  /\ \/ NoFault /\ loaded' = loaded \ ({n} \ labelled)
     \/ VclFault /\ LateOrNot(loaded, loaded \ ({n} \ labelled))
  /\ swept' = swept \cup (loaded \ loaded')
  /\ doomed' = doomed \ {n}
  /\ IF doomed' = {} THEN Return("ok") ELSE UNCHANGED <<vpc, vclReply>>
  /\ UNCHANGED <<vclKept, attempt, reloadCounter, lastErr, activeVcl, labelled,
                 exited, calls>>
-----------------------------------------------------------------------------
(* The environment: an operator's label moves, varnishd exits.             *)

LabelMoves ==
  /\ VclFault
  /\ ~exited
  /\ \E n \in loaded : labelled' = {n}
  /\ UNCHANGED <<vclKept, vpc, attempt, reloadCounter, lastErr, vclReply,
                 loaded, activeVcl, doomed, exited, swept, calls>>

VarnishdExits ==
  /\ ~exited
  /\ exited' = TRUE
  /\ clean' = FALSE
  /\ UNCHANGED <<vclKept, vpc, attempt, reloadCounter, lastErr, vclReply,
                 loaded, activeVcl, labelled, doomed, swept, calls, vclFaults>>

VclNext ==
  \/ Reload \/ LoadSucceeds \/ LoadRejected \/ LoadFails
  \/ RetryNow \/ RetryAborted \/ UseSucceeds \/ UseFails \/ Undo
  \/ ListVcls \/ ListFails \/ (\E n \in doomed : DiscardOld(n))
  \/ LabelMoves \/ VarnishdExits

VclSpec == VclInit /\ [][VclNext]_vclVars
-----------------------------------------------------------------------------
(* What must hold.                                                         *)

\* varnishd's side.
HeldTypeOK ==
  /\ reloadCounter \in Nat
  /\ loaded \in SUBSET (-1..reloadCounter)
  /\ activeVcl \in loaded
  /\ labelled \subseteq loaded
  /\ doomed \subseteq 1..reloadCounter
  /\ swept \subseteq 1..reloadCounter

\* Manager.Reload's side.
CallTypeOK ==
  /\ vclKept \in Nat
  /\ vpc \in {"idle", "load", "wait", "use", "undo", "list", "sweep"}
  /\ attempt \in 0..(1 + ReloadRetries)
  /\ lastErr \in {"none", "rejected", "failed"}
  /\ vclReply \in {"none", "ok", "rejected", "failed"}
  /\ exited \in BOOLEAN
  /\ clean \in BOOLEAN
  /\ calls \in 0..MaxCalls
  /\ vclFaults \in 0..MaxVclFaults

VclTypeOK == HeldTypeOK /\ CallTypeOK

\* When a clean-up met no failure, what earlier failures left loaded is gone:
\* no more than VCLKept old VCLs remain, they are newer than everything
\* discarded, and nothing was discarded for which there was room
\* (discardOldVCLs, next to labels, a late vcl.load and a failed vcl.discard).
NewestKept ==
  vpc = "idle" /\ clean =>
    /\ Cardinality(Spare) <= vclKept
    /\ \A gone \in swept, n \in Spare : gone < n
    /\ swept # {} => Cardinality(Spare) = vclKept

\* Reload implements VclContract: in particular only a VCL that was never
\* activated is reported as rejected, so that the event loop rolls back no
\* template that compiled (reload's ErrVCLRejected tag).
Contract == INSTANCE VclContract WITH
  phase <- IF vpc = "idle" THEN "idle"
           ELSE IF activeVcl = reloadCounter THEN "switched" ELSE "working",
  active <- activeVcl,
  reply <- vclReply

ReloadContract == Contract!Spec
=============================================================================
