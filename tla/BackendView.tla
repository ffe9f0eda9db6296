----------------------------- MODULE BackendView -----------------------------
(***************************************************************************)
(* What dynamic discovery promises of the event loop's table, one name at a *)
(* time: a name is owned by one incarnation of a Service after another, and *)
(* the table shows an incarnation or nothing.  It only moves on to newer    *)
(* incarnations, never shows one again that it has hidden, and hides only   *)
(* one that owns the name no more.                                         *)
(***************************************************************************)
EXTENDS Naturals

CONSTANTS Names

VARIABLES
  issued,   \* the newest generation given to an incarnation of any name
  owner,    \* the generation that owns each name, 0 for none
  shown,    \* the generation the table shows, 0 for none
  newest    \* the newest generation it has shown

view == <<issued, owner, shown, newest>>

Init ==
  /\ issued = 0
  /\ owner = [n \in Names |-> 0]
  /\ shown = [n \in Names |-> 0]
  /\ newest = [n \in Names |-> 0]

\* A new owner is a new incarnation.
Own(n) == owner'[n] \in {owner[n], 0} \cup (issued + 1)..issued'

Show(n) ==
  /\ shown'[n] \in 1..issued'
  /\ shown'[n] > newest[n] \/ shown'[n] = shown[n]
  /\ newest'[n] = shown'[n]

Hide(n) ==
  /\ shown[n] # owner[n]
  /\ shown'[n] = 0
  /\ newest'[n] = newest[n]

Next ==
  /\ issued' \in Nat /\ issued' >= issued
  /\ \A n \in Names :
       /\ Own(n)
       /\ \/ Show(n)
          \/ Hide(n)
          \/ shown'[n] = shown[n] /\ newest'[n] = newest[n]

Spec == Init /\ [][Next]_view
=============================================================================
