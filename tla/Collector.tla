------------------------------ MODULE Collector ------------------------------
(***************************************************************************)
(* The varnishstat collector (src/internal/telemetry/varnishstat_collector. *)
(* go): which of the VCL generations that varnishd still holds a scrape     *)
(* exports, and what varnish_backend_up says of a backend.  A scrape walks  *)
(* Go maps, whose order is random, and remembers across scrapes which       *)
(* backends have shown that they are probed.  varnishd is the environment.  *)
(***************************************************************************)
EXTENDS Integers, Sequences, FiniteSets, SequencesExt

CONSTANTS
  OwnTags,        \* tags of the controller's VCLs, kv_reload_<tag>
  ForeignTags,    \* tags of VCLs an operator loaded, reload_<tag>
  MaxHeld         \* bound: generations held at a time

\* A tag is the sequence of its characters; those below 10 are the digits.
Generation ==
  {[kind |-> "boot", tag |-> <<>>]}
    \cup [kind : {"kv_reload"}, tag : OwnTags]
    \cup [kind : {"reload"}, tag : ForeignTags]

VARIABLES
  oldVarnish,   \* Varnish 6: the bitmap of a backend without a probe stays 0
  held,         \* the generations varnishd holds
  shape,        \* the backend in each: "absent", "plain" or "probed"
  bitmap,       \* its happy bitmap: "zero", or bit 0 of another value
  probeSeen,
  exported,     \* the samples of varnish_backend_up in the last scrape
  newestThen,   \* history: the newest generation at the last scrape
  everProbed    \* history: some VCL gave the backend a probe

collectorVars == <<oldVarnish, held, shape, bitmap, probeSeen, exported,
                   newestThen, everProbed>>

Boot == CHOOSE g \in Generation : g.kind = "boot"
Unprobed(old) == IF old THEN "zero" ELSE "set"

CollectorInit ==
  /\ oldVarnish \in BOOLEAN
  /\ held = {Boot}
  /\ shape = [g \in Generation |-> IF g = Boot THEN "plain" ELSE "absent"]
  /\ bitmap = [g \in Generation |-> Unprobed(oldVarnish)]
  /\ probeSeen = FALSE
  /\ exported = {}
  /\ newestThen = Boot
  /\ everProbed = FALSE
-----------------------------------------------------------------------------
(* Which generation is newest.                                             *)

Numeric(t) == \A i \in DOMAIN t : t[i] < 10
NumberOf(t) ==
  LET upTo[i \in 0..Len(t)] == IF i = 0 THEN 0 ELSE 10 * upTo[i - 1] + t[i]
  IN  upTo[Len(t)]

LaterText(a, b) ==
  \E k \in 1..Len(a) :
    /\ \A i \in 1..(k - 1) : i <= Len(b) /\ a[i] = b[i]
    /\ k > Len(b) \/ a[k] > b[k]

\* The controller's tags are numbers, and of two foreign ones that are not the
\* later name is that of the later VCL, as it is of timestamps.
ASSUME CollectorAssumption ==
  /\ OwnTags \subseteq Seq(0..9) /\ ForeignTags \subseteq Seq(Nat)
  /\ \A a, b \in ForeignTags :
       \/ Numeric(a) /\ Numeric(b)
       \/ LaterText(a, b) <=> NumberOf(a) > NumberOf(b)
  /\ MaxHeld \in Nat

\* Slip: numbers are compared as text.
CompareText(a, b) == LaterText(a, b)

\* a is later than b.
compareReloadTags(a, b) ==
  IF Numeric(a) /\ Numeric(b) THEN NumberOf(a) > NumberOf(b) ELSE LaterText(a, b)

compareForeignGenerations(a, b) ==
  a.kind # "boot" /\ (b.kind = "boot" \/ compareReloadTags(a.tag, b.tag))

\* Generation g is met behind those that made `met'.
NoneMet == [latest |-> {}, foreign |-> {}, foreignMultiple |-> FALSE]

Meet(met, g) ==
  IF g.kind = "kv_reload"
  THEN [met EXCEPT !.latest =
          IF \A h \in @ : compareReloadTags(g.tag, h.tag) THEN {g} ELSE @]
  ELSE [met EXCEPT !.foreignMultiple = met.foreign # {},
                   !.foreign =
          IF \A h \in @ : compareForeignGenerations(g, h) THEN {g} ELSE @]

\* The generation to export, found in the order in which the map is walked;
\* without one of its own, two foreign ones are needed to filter at all.
newestVBEGeneration(order) ==
  LET met[i \in 0..Len(order)] ==
        IF i = 0 THEN NoneMet ELSE Meet(met[i - 1], order[i])
      all == met[Len(order)]
  IN  IF all.latest # {} THEN all.latest
      ELSE IF all.foreignMultiple THEN all.foreign ELSE {}
-----------------------------------------------------------------------------
(* Collect.                                                                *)

\* May up be derived from the bitmap?
observeProbe(value) == value # "zero" \/ probeSeen

Sample(g) == [gen |-> g, up |-> bitmap[g] = "set"]

\* One of the controller's before any other, the one loaded first last.
Newest(S) ==
  {g \in S : \A h \in S \ {g} :
     \/ g.kind = "kv_reload" /\ h.kind # "kv_reload"
     \/ g.kind = h.kind /\ NumberOf(g.tag) > NumberOf(h.tag)
     \/ h.kind = "boot"}

\* varnishstat answers, and its counters are walked.
Collect ==
  \E order \in SetToSeqs(held) :
    LET latest == newestVBEGeneration(order)
        shown == {g \in held : /\ latest = {} \/ g \in latest
                               /\ shape[g] # "absent"}
    IN  /\ probeSeen' = (probeSeen \/ \E g \in shown : bitmap[g] # "zero")
        /\ exported' = {Sample(g) : g \in {s \in shown : observeProbe(bitmap[s])}}
        /\ newestThen' \in Newest(held)
  /\ UNCHANGED <<oldVarnish, held, shape, bitmap, everProbed>>

\* It fails, or what it says cannot be parsed: no counters at all.
CollectFails ==
  /\ exported' = {}
  /\ UNCHANGED <<oldVarnish, held, shape, bitmap, probeSeen, newestThen,
                 everProbed>>
-----------------------------------------------------------------------------
(* varnishd.                                                               *)

\* A VCL is loaded; the controller numbers its own upwards.
VclLoaded(g) ==
  /\ g \notin held /\ g # Boot
  /\ Cardinality(held) < MaxHeld
  /\ g.kind = "kv_reload" =>
       \A h \in held : h.kind = g.kind => NumberOf(h.tag) < NumberOf(g.tag)
  /\ held' = held \cup {g}
  /\ \E s \in {"absent", "plain", "probed"} :
       /\ shape' = [shape EXCEPT ![g] = s]
       /\ everProbed' = (everProbed \/ s = "probed")
       /\ bitmap' = [bitmap EXCEPT ![g] = IF s = "probed" THEN "zero"
                                          ELSE Unprobed(oldVarnish)]
  /\ UNCHANGED <<oldVarnish, probeSeen, exported, newestThen>>

VclDiscarded(g) ==
  /\ g \in held /\ Cardinality(held) > 1
  /\ held' = held \ {g}
  /\ shape' = [shape EXCEPT ![g] = "absent"]
  /\ bitmap' = [bitmap EXCEPT ![g] = Unprobed(oldVarnish)]
  /\ UNCHANGED <<oldVarnish, probeSeen, exported, newestThen, everProbed>>

ProbeAnswers(g) ==
  /\ g \in held /\ shape[g] = "probed"
  /\ \E value \in {"zero", "clear", "set"} \ {bitmap[g]} :
       bitmap' = [bitmap EXCEPT ![g] = value]
  /\ UNCHANGED <<oldVarnish, held, shape, probeSeen, exported, newestThen,
                 everProbed>>

CollectorNext ==
  \/ Collect \/ CollectFails
  \/ \E g \in Generation : VclLoaded(g) \/ VclDiscarded(g) \/ ProbeAnswers(g)

CollectorSpec == CollectorInit /\ [][CollectorNext]_collectorVars
-----------------------------------------------------------------------------
(* What must hold.                                                         *)

CollectorTypeOK ==
  /\ {oldVarnish, probeSeen, everProbed} \subseteq BOOLEAN
  /\ held \subseteq Generation
  /\ shape \in [Generation -> {"absent", "plain", "probed"}]
  /\ bitmap \in [Generation -> {"zero", "clear", "set"}]
  /\ exported \subseteq [gen : Generation, up : BOOLEAN]
  /\ newestThen \in Generation

\* Whatever order the maps are walked in, a scrape exports the backend once,
\* as the newest generation has it, and reports it as down only if it has had
\* a probe (newestVBEGeneration, compareReloadTags, observeProbe).
ScrapeSound ==
  \A s \in exported :
    /\ s.gen = newestThen
    /\ \A t \in exported : t = s
    /\ s.up \/ everProbed
=============================================================================
