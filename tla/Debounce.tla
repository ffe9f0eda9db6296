------------------------------- MODULE Debounce -------------------------------
(***************************************************************************)
(* The debounce groups of runLoop (src/main.go): every event pushes its     *)
(* group's timer on, up to a deadline that the first event of a burst sets, *)
(* and the group that fires ends the burst of every group it shares the     *)
(* reload with.  Time is counted in ticks; the loop may be late.            *)
(***************************************************************************)
EXTENDS Integers

CONSTANTS
  Groups,        \* the groups that one reload answers
  DebounceTime,
  Caps           \* values of debounceMax to consider; 0 is no cap

ASSUME DebounceAssumption == DebounceTime \in Nat /\ Caps \subseteq Nat

VARIABLES
  debounceMax,
  timer,    \* per group: ticks until the timer is due, or NoTimer
  room,     \* per group: ticks until the deadline
  capped,   \* the timer was shortened to meet the deadline
  quiet,    \* history: ticks since the group's last event
  age       \* history: ticks since the first event of the burst

debounceVars == <<debounceMax, timer, room, capped, quiet, age>>

NoTimer == -1

\* Bound of the clocks: nothing depends on how much later it is.
Horizon == DebounceTime + debounceMax + 1

Armed(g) == timer[g] # NoTimer

DebounceInit ==
  /\ debounceMax \in Caps
  /\ timer = [g \in Groups |-> NoTimer]
  /\ room = [g \in Groups |-> 0]
  /\ capped = [g \in Groups |-> FALSE]
  /\ quiet = [g \in Groups |-> 0]
  /\ age = [g \in Groups |-> 0]
-----------------------------------------------------------------------------
Shorter(a, b) == IF a < b THEN a ELSE b

\* Slip: every event moves the deadline.
DeadlineMoves(g) == debounceMax

\* What is left until the deadline, which the first event of a burst sets.
Remaining(g) == IF Armed(g) THEN room[g] ELSE debounceMax

\* resetDebounce.  A deadline that has passed makes the timer due at once.
DebounceEvent(g) ==
  LET cut == debounceMax > 0 /\ Remaining(g) < DebounceTime
  IN  /\ timer' = [timer EXCEPT ![g] = IF cut THEN Remaining(g)
                                              ELSE DebounceTime]
      /\ room' = [room EXCEPT ![g] = Remaining(g)]
      /\ capped' = [capped EXCEPT ![g] = cut]
      /\ quiet' = [quiet EXCEPT ![g] = 0]
      /\ age' = [age EXCEPT ![g] = IF Armed(g) THEN @ ELSE 0]
      /\ UNCHANGED debounceMax

\* A due timer is received; handleReload resets all its groups first.
DebounceFires(g) ==
  /\ timer[g] = 0
  /\ timer' = [h \in Groups |-> NoTimer]
  /\ room' = [h \in Groups |-> 0]
  /\ capped' = [h \in Groups |-> FALSE]
  /\ quiet' = [h \in Groups |-> 0]
  /\ age' = [h \in Groups |-> 0]
  /\ UNCHANGED debounceMax

Tick ==
  /\ \E g \in Groups : Armed(g)
  /\ timer' = [g \in Groups |-> IF timer[g] > 0 THEN timer[g] - 1 ELSE timer[g]]
  /\ room' = [g \in Groups |-> IF room[g] > 0 THEN room[g] - 1 ELSE 0]
  /\ quiet' = [g \in Groups |->
                 IF Armed(g) THEN Shorter(quiet[g] + 1, Horizon) ELSE 0]
  /\ age' = [g \in Groups |->
               IF Armed(g) THEN Shorter(age[g] + 1, Horizon) ELSE 0]
  /\ UNCHANGED <<debounceMax, capped>>

DebounceNext ==
  \/ \E g \in Groups : DebounceEvent(g) \/ DebounceFires(g)
  \/ Tick

DebounceSpec == DebounceInit /\ [][DebounceNext]_debounceVars
-----------------------------------------------------------------------------
(* What must hold.                                                         *)

DebounceTypeOK ==
  /\ debounceMax \in Caps
  /\ timer \in [Groups -> {NoTimer} \cup 0..DebounceTime]
  /\ room \in [Groups -> 0..debounceMax]
  /\ capped \in [Groups -> BOOLEAN]
  /\ quiet \in [Groups -> 0..Horizon]
  /\ age \in [Groups -> 0..Horizon]

\* A group is due as soon as it has been quiet for the debounce time or its
\* burst is debounceMax old, however the events follow each other, and never
\* sooner; and the capped flag says which of the two it was (resetDebounce,
\* the debounce-fire cases of runLoop).
DueInTime ==
  \A g \in Groups : Armed(g) =>
    LET late == debounceMax > 0 /\ age[g] >= debounceMax
    IN  /\ timer[g] = 0 <=> quiet[g] >= DebounceTime \/ late
        /\ capped[g] /\ timer[g] = 0 => late
=============================================================================
