----------------------------- MODULE VclContract -----------------------------
(***************************************************************************)
(* What the event loop may assume of one call of Manager.Reload, and what   *)
(* ReloadLoop builds on: a call that answers "ok" has switched varnishd to  *)
(* a VCL no earlier call used, a "rejected" one has not switched it, and a  *)
(* "failed" one tells nothing.  VclManager implements it.                   *)
(***************************************************************************)
EXTENDS Integers

VARIABLES
  phase,    \* "idle", or in a call: "working", "switched"
  active,   \* the number of the VCL varnishd uses
  reply     \* what the last call answered

contractVars == <<phase, active, reply>>

Init == phase = "idle" /\ active = 0 /\ reply = "none"

Begin ==
  /\ phase = "idle"
  /\ phase' = "working"
  /\ reply' = "none"
  /\ UNCHANGED active

Switch ==
  /\ phase = "working"
  /\ phase' = "switched"
  /\ active' > active
  /\ UNCHANGED reply

Finish ==
  /\ \/ phase = "working" /\ reply' \in {"rejected", "failed"}
     \/ phase = "switched" /\ reply' \in {"ok", "failed"}
  /\ phase' = "idle"
  /\ UNCHANGED active

Spec == Init /\ [][Begin \/ Switch \/ Finish]_contractVars
=============================================================================
