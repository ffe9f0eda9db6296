------------------------------ MODULE Discovery ------------------------------
(***************************************************************************)
(* Dynamic backend discovery end to end: the discovery watchers             *)
(* (src/internal/watcher/discovery_watcher.go) with the NameRegistry they   *)
(* share, the child watcher and the forwarding goroutine of each discovered *)
(* Service, the start of the program, which merges what the watchers found  *)
(* first (run in src/main.go), and the event loop's table of backends       *)
(* (BackendUpdates).                                                        *)
(*                                                                         *)
(* An incarnation is a Service's life in one watcher, known by its          *)
(* generation.  A child watcher is the channel of capacity one it sends on; *)
(* how it sees the cluster is BackendWatcher's business.  updateCh, the     *)
(* fan-in goroutine and the watcher's share of backendCh are one queue, as  *)
(* updates of one watcher never overtake each other and those of two        *)
(* watchers are merged anyhow.  Once the loop runs nothing stops.           *)
(***************************************************************************)
EXTENDS BackendUpdates, Sequences, FiniteSets

CONSTANTS
  Watchers,      \* 1..n, in the order of the --backend-selector flags
  Services,      \* 1..n, in the order of their "namespace/name" keys
  NameOf,        \* [Services -> Names]
  Explicit,      \* the names of --backend flags
  NoValue,       \* an empty channel of capacity one
  Free,          \* a name that no watcher has claimed
  MaxGen,        \* bound: incarnations
  MaxChanges,    \* bound: changes of the cluster
  ChanCap,       \* capacity of the queue from a watcher to the loop
  CalmStartup,   \* Services do not change until the loop runs
  PromptLoop     \* no update of an incarnation outlives its tombstone

Gens == 1..MaxGen
Snapshots == (EndpointSets \ {Empty}) \cup {Nil}
Threads == {"handler", "kick", "run"}

ASSUME DiscoveryAssumption ==
  /\ Watchers \cup Services \subseteq Nat \ {0}
  /\ IsFiniteSet(Watchers) /\ IsFiniteSet(Services)
  /\ NameOf \in [Services -> Names]
  /\ Explicit \subseteq Names
  /\ NoValue \notin EndpointSets \cup {Nil}
  /\ Free \notin Watchers \X Services
  /\ MaxGen \in Nat /\ MaxChanges \in Nat /\ ChanCap \in Nat \ {0}
  /\ CalmStartup \in BOOLEAN /\ PromptLoop \in BOOLEAN

VARIABLES
  listed,      \* the Services in each watcher's informer store
  actual,      \* each Service's endpoints
  changes,     \* how often the cluster has changed
  dirty,       \* an informer callback is due
  kick,        \* the registry's release notification (capacity 1)
  managed,     \* dw.backends: the generation of each managed Service
  registry,    \* NameRegistry.owners
  lastGen,     \* genSeq
  born,        \* history: the watcher and Service of each incarnation
  sent,        \* the value each child watcher sent last
  chan,        \* its channel (capacity 1)
  fwd,         \* the forwarding goroutine: "off", "on", "stopped"
  hold,        \* the value a forwarding goroutine is about to send
  locked,      \* the goroutine between its two add passes, or "free"
  unsent,      \* the removals each reconciling goroutine has still to send
  updateCh,    \* the queue from each watcher to the loop
  phase,       \* where each watcher's Run is
  pendingInit, \* the incarnations collectInitialState waits for
  initial,     \* initialState of each watcher, with the generation
  loopUp       \* the event loop runs

clusterVars == <<listed, actual, changes>>
initVars == <<phase, pendingInit, initial, loopUp>>
watcherVars == <<locked, kick, managed, registry, lastGen, born>>
flowVars == <<sent, chan, fwd, hold>>
vars == <<tableVars, clusterVars, dirty, watcherVars, flowVars, unsent,
          updateCh, initVars>>

NoInitial == [gen |-> 0, endpoints |-> Nil]
-----------------------------------------------------------------------------
WatcherOf(g) == born[g][1]
ServiceOf(g) == born[g][2]
BackendOf(g) == NameOf[ServiceOf(g)]

Born(g) == g <= lastGen
Live(g) == Born(g) /\ managed[WatcherOf(g)][ServiceOf(g)] = g
Cancelled(g) == Born(g) /\ ~Live(g)

Init ==
  /\ EmptyTable
  /\ listed \in [Watchers -> SUBSET Services]
  /\ actual \in [Services -> EndpointSets]
  /\ changes = 0
  /\ dirty = [w \in Watchers |-> listed[w] # {}]
  /\ locked = [w \in Watchers |-> "free"]
  /\ kick = [w \in Watchers |-> FALSE]
  /\ managed = [w \in Watchers |-> [s \in Services |-> 0]]
  /\ registry = [n \in Names |-> Free]
  /\ lastGen = 0
  /\ born = [g \in Gens |-> Free]
  /\ sent = [g \in Gens |-> NoValue]
  /\ chan = [g \in Gens |-> NoValue]
  /\ fwd = [g \in Gens |-> "off"]
  /\ hold = [g \in Gens |-> NoValue]
  /\ unsent = [w \in Watchers |-> [t \in Threads |-> {}]]
  /\ updateCh = [w \in Watchers |-> <<>>]
  /\ phase = [w \in Watchers |-> "sync"]
  /\ pendingInit = [w \in Watchers |-> {}]
  /\ initial = [w \in Watchers |-> [n \in Names |-> NoInitial]]
  /\ loopUp = FALSE
-----------------------------------------------------------------------------
(* The cluster.                                                            *)

\* A Service appears in, or disappears from, a watcher's store.
ServiceEvent(w, s) ==
  /\ changes < MaxChanges
  /\ CalmStartup => loopUp
  /\ changes' = changes + 1
  /\ listed' = [listed EXCEPT ![w] = (@ \cup {s}) \ (@ \cap {s})]
  /\ dirty' = [dirty EXCEPT ![w] = TRUE]
  /\ UNCHANGED <<tableVars, actual, watcherVars, flowVars, unsent, updateCh,
                 initVars>>

EndpointEvent(s, e) ==
  /\ changes < MaxChanges
  /\ changes' = changes + 1
  /\ e # actual[s]
  /\ actual' = [actual EXCEPT ![s] = e]
  /\ UNCHANGED <<tableVars, listed, dirty, watcherVars, flowVars, unsent,
                 updateCh, initVars>>

\* A Service with no endpoints is sent as nil.
Snapshot(e) == IF e = Empty THEN Nil ELSE e

ChildSend(g) ==
  /\ Live(g)
  /\ sent[g] # Snapshot(actual[ServiceOf(g)])
  /\ sent' = [sent EXCEPT ![g] = Snapshot(actual[ServiceOf(g)])]
  /\ chan' = [chan EXCEPT ![g] = Snapshot(actual[ServiceOf(g)])]
  /\ UNCHANGED <<tableVars, clusterVars, dirty, watcherVars, fwd, hold,
                 unsent, updateCh, initVars>>
-----------------------------------------------------------------------------
(* syncServices: an add pass, a remove pass, and a second add pass if the   *)
(* remove pass freed a name.  The first two are one step: they touch        *)
(* different names, each of which the registry hands out under its own lock.*)

\* Slip: a watcher claims a name whoever holds it.
ClaimAlways(w, s, reg) == TRUE

Claim(w, s, reg) == reg[NameOf[s]] \in {Free, <<w, s>>}

Adoptable(w, mgd, reg) ==
  {s \in listed[w] :
     /\ mgd[s] = 0
     /\ NameOf[s] \notin Explicit
     /\ \A r \in Services : mgd[r] # 0 => NameOf[r] # NameOf[s]
     /\ Claim(w, s, reg)}

\* The Services one add pass adopts: of those with one name, the first.
Adopted(w, mgd, reg) ==
  LET A == Adoptable(w, mgd, reg)
  IN  {s \in A : \A r \in A : NameOf[r] = NameOf[s] => s <= r}

\* Generations are given in the order of the keys.
Rank(S, s) == Cardinality({r \in S : r <= s})

Number(S, last, mgd) ==
  [s \in Services |-> IF s \in S THEN last + Rank(S, s) ELSE mgd[s]]

ClaimAll(w, S, reg) ==
  [n \in Names |-> IF \E s \in S : NameOf[s] = n
                   THEN <<w, CHOOSE s \in S : NameOf[s] = n>> ELSE reg[n]]

ReleaseAll(w, S, reg) ==
  [n \in Names |-> IF \E s \in S : reg[n] = <<w, s>> /\ NameOf[s] = n
                   THEN Free ELSE reg[n]]

\* Slip: a release notifies the watcher that released.
KicksSelf(w, t, gone) ==
  [v \in Watchers |-> IF v = w THEN gone # {} \/ (kick[v] /\ t # "kick")
                              ELSE kick[v]]

\* A release notifies every watcher; goroutine "kick" has taken its own.
Kicks(w, t, gone) ==
  [v \in Watchers |-> gone # {} \/ (kick[v] /\ ~(v = w /\ t = "kick"))]

\* The Services in S are managed from now on, after mgd and reg.
Adopt(w, S, mgd, reg) ==
  LET last == lastGen + Cardinality(S)
      mgd2 == Number(S, lastGen, mgd)
      new(g) == g \in (lastGen + 1)..last
  IN  /\ last <= MaxGen
      /\ lastGen' = last
      /\ managed' = [managed EXCEPT ![w] = mgd2]
      /\ registry' = ClaimAll(w, S, reg)
      /\ born' = [g \in Gens |->
           IF new(g) THEN <<w, CHOOSE s \in Services : mgd2[s] = g>>
                     ELSE born[g]]
      /\ fwd' = [g \in Gens |->
           IF new(g) /\ phase[w] = "running" THEN "on" ELSE fwd[g]]

\* The add pass and the remove pass of goroutine t, under the lock of
\* watcher w.  A Service is not both adopted and removed.
Reconcile(w, t) ==
  LET gone == {s \in Services : managed[w][s] # 0 /\ s \notin listed[w]}
      kept == [s \in Services |-> IF s \in gone THEN 0 ELSE managed[w][s]]
  IN  /\ locked[w] = "free"
      /\ unsent[w][t] = {}
      /\ Adopt(w, Adopted(w, managed[w], registry), kept,
               ReleaseAll(w, gone, registry))
      /\ unsent' = [unsent EXCEPT ![w][t] =
           {Update(NameOf[s], managed[w][s], Nil) : s \in gone}]
      /\ locked' = [locked EXCEPT ![w] = IF gone = {} THEN "free" ELSE t]
      /\ kick' = Kicks(w, t, gone)
      /\ UNCHANGED <<tableVars, clusterVars, sent, chan, hold, updateCh,
                     pendingInit, initial, loopUp>>

\* The second add pass, after a removal; then the lock is released.  Another
\* watcher may have claimed the name in between.
AddPassAgain(w) ==
  /\ locked[w] # "free"
  /\ locked' = [locked EXCEPT ![w] = "free"]
  /\ Adopt(w, Adopted(w, managed[w], registry), managed[w], registry)
  /\ UNCHANGED <<tableVars, clusterVars, dirty, kick, sent, chan, hold, unsent,
                 updateCh, initVars>>

HandlerSync(w) ==
  /\ dirty[w]
  /\ dirty' = [dirty EXCEPT ![w] = FALSE]
  /\ Reconcile(w, "handler")
  /\ UNCHANGED phase

\* Another watcher, or this one, released a name.
KickSync(w) ==
  /\ kick[w]
  /\ Reconcile(w, "kick")
  /\ UNCHANGED <<dirty, phase>>

\* Removal notices go out after the lock, and block.
SendRemoval(w, t) ==
  /\ locked[w] # t
  /\ Len(updateCh[w]) < ChanCap
  /\ \E u \in unsent[w][t] :
       /\ updateCh' = [updateCh EXCEPT ![w] = Append(@, u)]
       /\ unsent' = [unsent EXCEPT ![w][t] = @ \ {u}]
  /\ UNCHANGED <<tableVars, clusterVars, dirty, watcherVars, flowVars,
                 initVars>>
-----------------------------------------------------------------------------
(* The forwarding goroutine of an incarnation.                             *)

\* The value is taken even if the incarnation was cancelled meanwhile.
FwdTake(g) ==
  /\ fwd[g] = "on"
  /\ hold[g] = NoValue
  /\ chan[g] # NoValue
  /\ hold' = [hold EXCEPT ![g] = chan[g]]
  /\ chan' = [chan EXCEPT ![g] = NoValue]
  /\ UNCHANGED <<tableVars, clusterVars, dirty, watcherVars, sent, fwd,
                 unsent, updateCh, initVars>>

\* No endpoints must not look like a removal.
Normalized(x) == IF x = Nil THEN Empty ELSE x

FwdSend(g) ==
  /\ hold[g] # NoValue
  /\ Len(updateCh[WatcherOf(g)]) < ChanCap
  /\ updateCh' = [updateCh EXCEPT ![WatcherOf(g)] =
                    Append(@, Update(BackendOf(g), g, Normalized(hold[g])))]
  /\ hold' = [hold EXCEPT ![g] = NoValue]
  /\ UNCHANGED <<tableVars, clusterVars, dirty, watcherVars, sent, chan, fwd,
                 unsent, initVars>>

FwdStop(g) ==
  /\ fwd[g] = "on"
  /\ Cancelled(g)
  /\ fwd' = [fwd EXCEPT ![g] = "stopped"]
  /\ hold' = [hold EXCEPT ![g] = NoValue]
  /\ UNCHANGED <<tableVars, clusterVars, dirty, watcherVars, sent, chan,
                 unsent, updateCh, initVars>>
-----------------------------------------------------------------------------
(* The start: Run of each watcher, then run in main.go.                    *)

InitialSync(w) ==
  /\ phase[w] = "sync"
  /\ phase' = [phase EXCEPT ![w] = "synced"]
  /\ Reconcile(w, "run")
  /\ UNCHANGED dirty

BeginCollect(w) ==
  /\ phase[w] = "synced"
  /\ locked[w] = "free"
  /\ unsent[w]["run"] = {}
  /\ phase' = [phase EXCEPT ![w] = "collect"]
  /\ pendingInit' = [pendingInit EXCEPT ![w] =
                       {g \in Gens : Live(g) /\ WatcherOf(g) = w}]
  /\ UNCHANGED <<tableVars, clusterVars, dirty, watcherVars, flowVars, unsent,
                 updateCh, initial, loopUp>>

\* An incarnation without endpoints is present in the table all the same.
CollectValue(w, g) ==
  /\ g \in pendingInit[w]
  /\ chan[g] # NoValue
  /\ chan' = [chan EXCEPT ![g] = NoValue]
  /\ initial' = [initial EXCEPT ![w][BackendOf(g)] =
                   [gen |-> g, endpoints |-> Normalized(chan[g])]]
  /\ pendingInit' = [pendingInit EXCEPT ![w] = @ \ {g}]
  /\ UNCHANGED <<tableVars, clusterVars, dirty, watcherVars, sent, fwd, hold,
                 unsent, updateCh, phase, loopUp>>

\* Slip: the collection waits for a Service that is gone.
CollectSkipNever(w, g) == FALSE /\ UNCHANGED vars

\* The Service was removed before it delivered its endpoints.
CollectSkip(w, g) ==
  /\ g \in pendingInit[w]
  /\ Cancelled(g)
  /\ pendingInit' = [pendingInit EXCEPT ![w] = @ \ {g}]
  /\ UNCHANGED <<tableVars, clusterVars, dirty, watcherVars, flowVars, unsent,
                 updateCh, phase, initial, loopUp>>

StartForwarding(w) ==
  /\ phase[w] = "collect"
  /\ locked[w] = "free"
  /\ pendingInit[w] = {}
  /\ phase' = [phase EXCEPT ![w] = "running"]
  /\ fwd' = [g \in Gens |-> IF Live(g) /\ WatcherOf(g) = w THEN "on" ELSE fwd[g]]
  /\ UNCHANGED <<tableVars, clusterVars, dirty, watcherVars, sent, chan, hold,
                 unsent, updateCh, pendingInit, initial, loopUp>>

\* Later watchers overwrite earlier ones; no generation is kept.
Merged(n) ==
  LET found == {w \in Watchers : initial[w][n].gen # 0}
  IN  IF found = {} THEN NoInitial
      ELSE initial[CHOOSE w \in found : \A v \in found : v <= w][n]

MergeInitial ==
  /\ ~loopUp
  /\ \A w \in Watchers : phase[w] = "running"
  /\ loopUp' = TRUE
  /\ \E e \in [Explicit -> EndpointSets] :
       backends' = [n \in Names |-> IF n \in Explicit THEN e[n]
                                    ELSE Merged(n).endpoints]
  /\ source' = [n \in Names |-> Merged(n).gen]
  /\ newest' = source'
  /\ UNCHANGED <<liveGen, removedGen, expired, clusterVars, dirty,
                 watcherVars, flowVars, unsent, updateCh, phase, pendingInit,
                 initial>>
-----------------------------------------------------------------------------
(* The event loop.                                                         *)

LoopDeliver(w) ==
  /\ loopUp
  /\ updateCh[w] # <<>>
  /\ updateCh' = [updateCh EXCEPT ![w] = Tail(@)]
  /\ Deliver(Head(updateCh[w]))
  /\ UNCHANGED <<clusterVars, dirty, watcherVars, flowVars, unsent, initVars>>

ExplicitUpdate(n, e) ==
  /\ loopUp
  /\ n \in Explicit
  /\ e # backends[n]
  /\ Deliver(Update(n, 0, e))
  /\ UNCHANGED <<clusterVars, dirty, watcherVars, flowVars, unsent, updateCh,
                 initVars>>

Queued(g) ==
  \E i \in 1..Len(updateCh[WatcherOf(g)]) :
    /\ updateCh[WatcherOf(g)][i].gen = g
    /\ updateCh[WatcherOf(g)][i].endpoints # Nil

\* The incarnation may still send an ADD.
MayAdd(g) == Born(g) /\ (Queued(g) \/ hold[g] # NoValue \/ fwd[g] = "on")

TombstoneExpire(n) ==
  /\ PromptLoop =>
       \A g \in Gens : MayAdd(g) /\ BackendOf(g) = n => g > removedGen[n]
  /\ Expire(n)
  /\ UNCHANGED <<clusterVars, dirty, watcherVars, flowVars, unsent, updateCh,
                 initVars>>

TombstoneSweep ==
  /\ SweepExpiredTombstones
  /\ UNCHANGED <<clusterVars, dirty, watcherVars, flowVars, unsent, updateCh,
                 initVars>>
-----------------------------------------------------------------------------
Environment ==
  \/ \E w \in Watchers, s \in Services : ServiceEvent(w, s)
  \/ \E s \in Services, e \in EndpointSets : EndpointEvent(s, e)
  \/ \E n \in Explicit, e \in EndpointSets : ExplicitUpdate(n, e)
  \/ \E n \in Names : TombstoneExpire(n)

Start(w) ==
  \/ InitialSync(w)
  \/ BeginCollect(w)
  \/ \E g \in Gens : CollectValue(w, g) \/ CollectSkip(w, g)
  \/ StartForwarding(w)

Forward(g) == ChildSend(g) \/ FwdTake(g) \/ FwdSend(g) \/ FwdStop(g)

Program ==
  \/ \E w \in Watchers : HandlerSync(w) \/ KickSync(w) \/ AddPassAgain(w)
                         \/ Start(w) \/ LoopDeliver(w)
  \/ \E w \in Watchers, t \in Threads : SendRemoval(w, t)
  \/ \E g \in Gens : Forward(g)
  \/ MergeInitial
  \/ TombstoneSweep

Next == Environment \/ Program

Spec == Init /\ [][Next]_vars

\* Every goroutine runs, and Go's channels serve blocked senders in order.
FairSpec ==
  /\ Spec
  /\ \A w \in Watchers :
       /\ WF_vars(HandlerSync(w)) /\ WF_vars(KickSync(w)) /\ WF_vars(AddPassAgain(w))
       /\ WF_vars(Start(w)) /\ WF_vars(LoopDeliver(w))
       /\ \A t \in Threads : WF_vars(SendRemoval(w, t))
  /\ \A g \in Gens : WF_vars(Forward(g))
  /\ WF_vars(MergeInitial)
-----------------------------------------------------------------------------
(* What must hold.                                                         *)

OwnerTypeOK ==
  /\ listed \in [Watchers -> SUBSET Services]
  /\ locked \in [Watchers -> Threads \cup {"free"}]
  /\ managed \in [Watchers -> [Services -> {0} \cup Gens]]
  /\ registry \in [Names -> (Watchers \X Services) \cup {Free}]
  /\ lastGen \in 0..MaxGen
  /\ born \in [Gens -> (Watchers \X Services) \cup {Free}]

FlowTypeOK ==
  /\ sent \in [Gens -> Snapshots \cup {NoValue}]
  /\ chan \in [Gens -> Snapshots \cup {NoValue}]
  /\ fwd \in [Gens -> {"off", "on", "stopped"}]
  /\ hold \in [Gens -> Snapshots \cup {NoValue}]
  /\ unsent \in [Watchers -> [Threads -> SUBSET Updates(Gens)]]
  /\ updateCh \in [Watchers -> Seq(Updates(Gens))]

StartTypeOK ==
  /\ phase \in [Watchers -> {"sync", "synced", "collect", "running"}]
  /\ pendingInit \in [Watchers -> SUBSET Gens]
  /\ initial \in [Watchers -> [Names ->
                   [gen : {0} \cup Gens, endpoints : EndpointSets \cup {Nil}]]]
  /\ loopUp \in BOOLEAN

ClusterTypeOK ==
  /\ actual \in [Services -> EndpointSets]
  /\ changes \in 0..MaxChanges
  /\ dirty \in [Watchers -> BOOLEAN]
  /\ kick \in [Watchers -> BOOLEAN]

TypeOK ==
  /\ TableTypeOK(Gens)
  /\ OwnerTypeOK /\ FlowTypeOK /\ StartTypeOK /\ ClusterTypeOK

\* A backend name is forwarded by one Service of one watcher, the one that
\* the registry names: two selectors, two namespaces, a removal and an
\* adoption in one reconcile never share a name (nameClaimedLocked, claim and
\* release).
OneOwner ==
  \A n \in Names : \A w \in Watchers, s \in Services :
    NameOf[s] = n => (managed[w][s] # 0 <=> registry[n] = <<w, s>>)

RemovalInFlight(g) ==
  LET w == WatcherOf(g)
  IN  \/ \E t \in Threads : Update(BackendOf(g), g, Nil) \in unsent[w][t]
      \/ \E i \in 1..Len(updateCh[w]) :
            updateCh[w][i] = Update(BackendOf(g), g, Nil)

\* A backend in the loop's table belongs to an incarnation that is managed,
\* or whose removal is still to come: a removed backend is never resurrected
\* by a late update of its forwarding goroutine (removedGen).
NoGhost ==
  loopUp => \A n \in Names : source[n] # 0 =>
    Live(source[n]) \/ RemovalInFlight(source[n])

Undelivered(g) == chan[g] # NoValue \/ hold[g] # NoValue \/ Queued(g)

\* What a managed Service's watcher sent last is in the table or on its way:
\* neither a handoff, whose removal may overtake or be overtaken, nor the
\* change from collecting to forwarding loses it (liveGen, startForwarding).
NoLost ==
  loopUp => \A g \in Gens :
    Live(g) /\ sent[g] # NoValue /\ ~Undelivered(g) =>
      /\ source[BackendOf(g)] = g
      /\ backends[BackendOf(g)] = Normalized(sent[g])

\* The table shows what is managed, and all of it: both of the above.
TableExact == NoGhost /\ NoLost

\* What BackendView promises of a name's incarnations in the loop's table.
OwnerGen(n) ==
  IF registry[n] = Free THEN 0 ELSE managed[registry[n][1]][registry[n][2]]

View == INSTANCE BackendView WITH owner <- [n \in Names |-> OwnerGen(n)],
                                  shown <- source, issued <- lastGen

\* The table implements the abstract view: it never hides the backend of the
\* owner and never goes back to an older incarnation.
ViewSpec == View!Spec

Candidates(n) == {o \in Watchers \X Services : o[2] \in listed[o[1]]
                                                /\ NameOf[o[2]] = n}

\* The table shows, of every name, the endpoints of a listed Service, and no
\* name that is not listed.
Mirrored ==
  /\ loopUp
  /\ \A n \in Names \ Explicit :
       IF Candidates(n) = {} THEN backends[n] = Nil
       ELSE \E o \in Candidates(n) : backends[n] = actual[o[2]]

\* No goroutine has anything left to do.
AtRest ==
  /\ loopUp
  /\ \A w \in Watchers :
       /\ ~dirty[w] /\ ~kick[w] /\ locked[w] = "free"
       /\ updateCh[w] = <<>> /\ \A t \in Threads : unsent[w][t] = {}
  /\ \A g \in Gens :
       /\ fwd[g] = "on" => Live(g) /\ chan[g] = NoValue
       /\ hold[g] = NoValue
       /\ Live(g) => sent[g] = Snapshot(actual[ServiceOf(g)])

\* When no goroutine has anything left to do the table mirrors the cluster: no
\* Service is orphaned, be it suppressed by another selector or by a namesake
\* (syncServices, NameRegistry.release).
MirrorsAtRest == AtRest => Mirrored

\* Once the cluster is at rest, as it comes to be because its changes are
\* bounded, the table comes to mirror it, unless a Service was given up while
\* the program started (syncServices, collectInitialState, startForwarding).
StartKeepsAll == ~loopUp => \A g \in Gens : ~Cancelled(g)

Settles == []StartKeepsAll => <>[]Mirrored

\* A Service that vanishes while the program starts does not stop the start
\* (collectInitialState).
StartupCompletes == <>loopUp
=============================================================================
