------------------------------ MODULE Watchers ------------------------------
(***************************************************************************)
(* One watcher of the cluster and what it delivers to the event loop        *)
(* (src/internal/watcher).  The watchers of EndpointSlices, ConfigMaps,     *)
(* Secrets and certificates read one informer and send on a channel of      *)
(* capacity one; BackendWatcher reads a Service and either speaks for       *)
(* itself or lets an EndpointSlice watcher of its own speak.  A fan-in      *)
(* goroutine of src/main.go takes the values to the loop.                   *)
(*                                                                         *)
(* The cluster is its history: services and slices are the versions so far, *)
(* and stores, channels and the loop hold numbers of versions.              *)
(***************************************************************************)
EXTENDS Naturals, Sequences, FiniteSets

CONSTANTS
  Kinds,        \* which watchers to check
  Contents,     \* what slices, ConfigMap or Secret may hold: sets of <<key, value>>
  Decode,       \* what the text of a value means (decodeValue)
  Services,     \* what a Service may be; its target is "pods", "nothing"
                \* (an ExternalName without a name or port) or a host
  MaxChanges    \* bound: changes of the cluster

AllKinds == {"endpoints", "values", "tls", "backend"}

ASSUME WatchersAssumption ==
  /\ Kinds \subseteq AllKinds
  /\ \A s \in Services : DOMAIN s = {"target", "meta"}
  /\ MaxChanges \in Nat

Versions == 0..(MaxChanges + 1)
Ids == 1..(MaxChanges + 1)     \* a Service that changes may start a child anew
Readers == {"handler", "run"}

VARIABLES
  kind,
  objects,      \* the versions of the object, or the slices, in the cluster
  services,     \* the versions of the Service
  watchers,     \* the watchers of objects
  svcStore,     \* the Service informer: the version it has seen,
  svcDirty,     \* whether a notification is due,
  svcInit,      \* and where BackendWatcher.Run is
  child,        \* childWatcher, 0 for none
  lastChild,
  forward,      \* the versions in the hands of the children's forwarders
  seen,         \* the version that labels and annotations come from
  previous,     \* the endpoints sent last
  synced,
  out,          \* what the holder of bw.mu has still to send
  ch,           \* BackendWatcher's channel
  hold,         \* in the fan-in's hand
  got,          \* what the loop has
  changes

clusterVars == <<objects, services, changes>>
serviceVars == <<svcStore, svcDirty, svcInit>>
backendVars == <<child, lastChild, forward, seen, previous, synced, out>>
vars == <<kind, clusterVars, watchers, serviceVars, backendVars, ch, hold, got>>

Absent == [exists |-> FALSE, items |-> {}]
Object(v) == IF v = 0 THEN Absent ELSE objects[v]
Gone == [target |-> "absent", meta |-> "none"]
Service(v) == IF v = 0 THEN Gone ELSE services[v]
NewestObject == Len(objects)
NewestService == Len(services)

\* Endpoints as BackendWatcher keeps them: whose they are and of what version.
Nil == [of |-> "nobody", at |-> 0]
OfService(v) == [of |-> "service", at |-> v]
OfSlices(v) == [of |-> "slices", at |-> v]
Snapshot(eps, v) == [eps |-> eps, svc |-> v]

NewWatcher(life) ==
  [life |-> life, store |-> 0, dirty |-> FALSE, init |-> "list",
   read |-> [r \in Readers |-> <<>>], previous |-> 0, synced |-> FALSE,
   ch |-> <<>>]

Existing(i) == [exists |-> TRUE, items |-> i]
AllObjects == {Absent} \cup {Existing(i) : i \in Contents}

Init ==
  /\ kind \in Kinds
  /\ \E o \in AllObjects : objects = <<o>>
  /\ IF kind = "backend" THEN \E s \in Services : services = <<s>>
                         ELSE services = <<Gone>>
  /\ watchers = [c \in Ids |->
       NewWatcher(IF kind # "backend" /\ c = 1 THEN "on" ELSE "off")]
  /\ svcStore = 0
  /\ svcDirty = FALSE
  /\ svcInit = "list"
  /\ child = 0
  /\ lastChild = 0
  /\ forward = [c \in Ids |-> <<>>]
  /\ seen = 0
  /\ previous = Nil
  /\ synced = FALSE
  /\ out = <<>>
  /\ ch = <<>>
  /\ hold = <<>>
  /\ got = <<>>
  /\ changes = 0
-----------------------------------------------------------------------------
(* The cluster.                                                            *)

Change ==
  /\ changes < MaxChanges
  /\ changes' = changes + 1
  /\ \/ \E o \in AllObjects \ {Object(NewestObject)} :
          objects' = Append(objects, o) /\ UNCHANGED services
     \/ /\ kind = "backend"
        /\ \E s \in Services \ {Service(NewestService)} :
             services' = Append(services, s) /\ UNCHANGED objects
  /\ UNCHANGED <<kind, watchers, serviceVars, backendVars, ch, hold, got>>
-----------------------------------------------------------------------------
(* A watcher of objects.                                                   *)

\* The ready endpoints, or else those that still serve while they terminate.
EndpointsView(o) ==
  LET with(condition) == {e[1] : e \in {f \in o.items : f[2] = condition}}
  IN IF with("ready") # {} THEN with("ready") ELSE with("leaving")

\* The decoded values; no map at all differs from an empty one.
ValuesView(o) ==
  [exists |-> o.exists, items |-> {<<e[1], Decode[e[2]]>> : e \in o.items}]

\* A Secret without the keys of a certificate is like none.
TLSView(o) == o.items

View(v) ==
  CASE kind \in {"endpoints", "backend"} -> EndpointsView(Object(v))
    [] kind = "values" -> ValuesView(Object(v))
    [] kind = "tls" -> TLSView(Object(v))

\* The informer lists, and tells the handler if there is anything.
InformerLists(c) ==
  /\ watchers[c].life = "on"
  /\ watchers[c].init = "list"
  /\ watchers' = [watchers EXCEPT
       ![c].store = NewestObject, ![c].init = "sync",
       ![c].dirty = Object(NewestObject).exists]
  /\ UNCHANGED <<kind, clusterVars, serviceVars, backendVars, ch, hold, got>>

InformerNotifies(c) ==
  /\ watchers[c].life = "on"
  /\ watchers[c].init # "list"
  /\ watchers[c].store < NewestObject
  /\ watchers' = [watchers EXCEPT
       ![c].store = watchers[c].store + 1, ![c].dirty = TRUE]
  /\ UNCHANGED <<kind, clusterVars, serviceVars, backendVars, ch, hold, got>>

\* Slip: the mutex is not held over read and send.
MutexFreeAlways(w) == TRUE

MutexFree(w) == \A r \in Readers : w.read[r] = <<>>

\* Slip: only the handler synchronises.
WantsEventsOnly(w, r) == r = "handler" /\ w.dirty

\* The handler reacts to a notification, Run synchronises once; a cancelled Run
\* does so without having listed.
Wants(w, r) ==
  IF r = "handler" THEN w.dirty
  ELSE w.init = "sync" \/ (w.init = "list" /\ w.life = "cancelled")

\* sync up to the send: read the store, and stop if nothing has changed.
SyncReads(c, r) ==
  LET w == watchers[c]
      same == w.synced /\ View(w.store) = View(w.previous)
      marked == IF r = "handler" THEN [w EXCEPT !.dirty = FALSE]
                                 ELSE [w EXCEPT !.init = "done"]
  IN  /\ w.life # "off"
      /\ w.read[r] = <<>>
      /\ MutexFree(w)
      /\ Wants(w, r)
      /\ watchers' = [watchers EXCEPT ![c] =
           IF same THEN marked
           ELSE [marked EXCEPT !.read[r] = <<w.store>>, !.previous = w.store,
                               !.synced = TRUE]]
      /\ UNCHANGED <<kind, clusterVars, serviceVars, backendVars, ch, hold, got>>

\* coalescingSend.
Coalesced(channel, v) == <<v>>

SyncSends(c, r) ==
  LET w == watchers[c]
  IN  /\ w.read[r] # <<>>
      /\ watchers' = [watchers EXCEPT
           ![c].ch = Coalesced(w.ch, Head(w.read[r])), ![c].read[r] = <<>>]
      /\ UNCHANGED <<kind, clusterVars, serviceVars, backendVars, ch, hold, got>>
-----------------------------------------------------------------------------
(* BackendWatcher.  Its mutex is free when nothing is left to send.         *)

Endpoints(eps) ==
  CASE eps.of = "nobody" -> {}
    [] eps.of = "service" -> {Service(eps.at).target}
    [] eps.of = "slices" -> View(eps.at)

ServiceInformer ==
  /\ kind = "backend"
  /\ IF svcInit = "list"
     THEN /\ svcInit' = "sync"
          /\ svcStore' = NewestService
          /\ svcDirty' = (services[NewestService] # Gone)
     ELSE /\ svcStore < NewestService
          /\ svcStore' = svcStore + 1
          /\ svcDirty' = TRUE
          /\ UNCHANGED svcInit
  /\ UNCHANGED <<kind, clusterVars, watchers, backendVars, ch, hold, got>>

\* Slip: metadata alone is no reason to send.
ResentNever(s) == <<>>

\* What syncService sends again as the metadata have changed.  Without a
\* Service only if the endpoints will not be sent anyway.
Resent(s) ==
  IF /\ s.meta # Service(seen).meta
     /\ synced
     /\ s = Gone => Endpoints(previous) = {}
  THEN <<Snapshot(previous, svcStore)>> ELSE <<>>

\* sendLocked with the metadata of version v.
Sent(eps, v) ==
  IF synced /\ Endpoints(eps) = Endpoints(previous)
  THEN <<>> ELSE <<Snapshot(eps, v)>>

Remember(eps) ==
  /\ synced' = TRUE
  /\ previous' = IF Sent(eps, 0) = <<>> THEN previous ELSE eps

\* What a Service that has no pods stands for itself.
Own(v) ==
  IF Service(v).target \in {"absent", "nothing"} THEN Nil ELSE OfService(v)

Cancel(c) == [watchers EXCEPT ![c].life = "cancelled"]

\* syncService up to its sends.
SyncService ==
  LET s == Service(svcStore)
  IN  /\ out = <<>>
      /\ \/ svcDirty /\ svcDirty' = FALSE /\ UNCHANGED svcInit
         \/ svcInit = "sync" /\ svcInit' = "done" /\ UNCHANGED svcDirty
      /\ seen' = svcStore
      /\ IF s.target = "pods"
         THEN /\ out' = Resent(s)
              /\ IF child = 0
                 THEN /\ lastChild' = lastChild + 1
                      /\ child' = lastChild'
                      /\ watchers' = [watchers EXCEPT ![lastChild'] = NewWatcher("on")]
                 ELSE UNCHANGED <<child, lastChild, watchers>>
              /\ UNCHANGED <<previous, synced>>
         ELSE /\ out' = Resent(s) \o Sent(Own(svcStore), svcStore)
              /\ Remember(Own(svcStore))
              /\ child' = 0
              /\ watchers' = IF child = 0 THEN watchers ELSE Cancel(child)
              /\ UNCHANGED lastChild
      /\ UNCHANGED <<kind, clusterVars, svcStore, forward, ch, hold, got>>

\* A child's forwarding goroutine takes a value, or ends as it is cancelled.
ForwardTakes(c) ==
  /\ kind = "backend"
  /\ watchers[c].ch # <<>>
  /\ forward[c] = <<>>
  /\ watchers' = [watchers EXCEPT ![c].ch = <<>>]
  /\ forward' = [forward EXCEPT ![c] = watchers[c].ch]
  /\ UNCHANGED <<kind, clusterVars, serviceVars, child, lastChild, seen,
                 previous, synced, out, ch, hold, got>>

IsActive(c) == child = c

\* sendFromChild.
SendFromChild(c) ==
  /\ forward[c] # <<>>
  /\ out = <<>>
  /\ forward' = [forward EXCEPT ![c] = <<>>]
  /\ LET eps == OfSlices(Head(forward[c]))
     IN IF IsActive(c)
        THEN out' = Sent(eps, seen) /\ Remember(eps)
        ELSE UNCHANGED <<out, previous, synced>>
  /\ UNCHANGED <<kind, clusterVars, watchers, serviceVars, child, lastChild,
                 seen, ch, hold, got>>

\* The holder of the mutex sends.
Send ==
  /\ out # <<>>
  /\ ch' = Coalesced(ch, Head(out))
  /\ out' = Tail(out)
  /\ UNCHANGED <<kind, clusterVars, watchers, serviceVars, child, lastChild,
                 forward, seen, previous, synced, hold, got>>
-----------------------------------------------------------------------------
(* Towards the event loop.                                                 *)

BackendFanIn ==
  /\ kind = "backend"
  /\ ch # <<>> /\ hold = <<>>
  /\ hold' = ch
  /\ ch' = <<>>
  /\ UNCHANGED <<kind, clusterVars, watchers, serviceVars, backendVars, got>>

DirectFanIn ==
  /\ kind # "backend"
  /\ watchers[1].ch # <<>> /\ hold = <<>>
  /\ hold' = <<Snapshot(OfSlices(Head(watchers[1].ch)), 0)>>
  /\ watchers' = [watchers EXCEPT ![1].ch = <<>>]
  /\ UNCHANGED <<kind, clusterVars, serviceVars, backendVars, ch, got>>

LoopReads ==
  /\ hold # <<>>
  /\ got' = hold
  /\ hold' = <<>>
  /\ UNCHANGED <<kind, clusterVars, watchers, serviceVars, backendVars, ch>>

Step ==
  \/ \E c \in Ids :
       \/ InformerLists(c) \/ InformerNotifies(c)
       \/ \E r \in Readers : SyncReads(c, r) \/ SyncSends(c, r)
       \/ ForwardTakes(c) \/ SendFromChild(c)
  \/ ServiceInformer \/ SyncService \/ Send
  \/ BackendFanIn \/ DirectFanIn \/ LoopReads

Next == Change \/ Step

Spec == Init /\ [][Next]_vars

\* Informers and goroutines run; there are only so many steps between changes.
FairSpec == Spec /\ WF_vars(Step)
-----------------------------------------------------------------------------
(* What must hold.                                                         *)

SourceType == [of : {"nobody", "service", "slices"}, at : Versions]
SnapshotType == [eps : SourceType, svc : Versions]

TypeOK ==
  /\ kind \in Kinds
  /\ objects \in Seq(AllObjects) /\ services \in Seq(Services \cup {Gone})
  /\ Len(objects) + Len(services) = changes + 2
  /\ \A c \in Ids :
       /\ watchers[c].life \in {"off", "on", "cancelled"}
       /\ watchers[c].init \in {"list", "sync", "done"}
       /\ watchers[c].store \in 0..NewestObject
       /\ watchers[c].previous \in 0..NewestObject
       /\ Len(watchers[c].ch) <= 1 /\ Len(forward[c]) <= 1
  /\ svcStore \in 0..NewestService /\ seen \in 0..svcStore
  /\ svcInit \in {"list", "sync", "done"}
  /\ child \in 0..lastChild /\ lastChild \in 0..Cardinality(Ids)
  /\ previous \in SourceType
  /\ out \in Seq(SnapshotType) /\ Len(out) <= 2
  /\ \A channel \in {ch, hold, got} :
       channel \in Seq(SnapshotType) /\ Len(channel) <= 1

Same(channel, eps, v) ==
  /\ channel # <<>>
  /\ Endpoints(Head(channel).eps) = eps
  /\ Service(Head(channel).svc).meta = Service(v).meta

\* The newest of what is on the way from the channel to the loop.
Latest == IF ch # <<>> THEN ch ELSE IF hold # <<>> THEN hold ELSE got

\* The value a watcher sent last, wherever it is by now.
SentLast(c) ==
  IF watchers[c].ch # <<>> THEN View(Head(watchers[c].ch))
  ELSE IF forward[c] # <<>> THEN View(Head(forward[c]))
  ELSE IF kind = "backend" THEN Endpoints(previous)
  ELSE View(Head(Latest).eps.at)

\* What a watcher compares the next value with is what its reader will have
\* seen last: no value is suppressed as known that an older one is about to
\* replace (the mutexes of sync and syncService, coalescingSend, resendLocked).
BaselineIsLatest ==
  /\ kind = "backend" /\ synced /\ out = <<>> =>
       Same(Latest, Endpoints(previous), seen)
  /\ \A c \in Ids :
       /\ watchers[c].life = "on" /\ watchers[c].synced /\ MutexFree(watchers[c])
       /\ kind = "backend" => c = child /\ out = <<>>
       => SentLast(c) = View(watchers[c].previous)

\* Without a child the endpoints are those of the Service itself, whatever a
\* child that was stopped still had in hand (sendFromChild).
OwnerSpeaks ==
  synced /\ child = 0 => Endpoints(previous) = Endpoints(Own(seen))

\* The reader is told the newest there is: both of the above.
ReaderCurrent == BaselineIsLatest /\ OwnerSpeaks

\* The Service of y is not older than that of x, nor the object if it is the same.
Older(x, y) ==
  x.svc <= y.svc /\ (x.eps.of = y.eps.of => x.eps.at <= y.eps.at)

\* The loop never goes back to an older version of the Service, or from a
\* newer version of an object to an older one.
NeverBack ==
  [][got # <<>> /\ got' # <<>> => Older(Head(got), Head(got'))]_got

Wanted ==
  IF kind = "backend" /\ Service(NewestService).target # "pods"
  THEN Endpoints(Own(NewestService)) ELSE View(NewestObject)

\* When the cluster is at rest the loop comes to have what it holds, its
\* absence included, which the start of the program waits for (Run's
\* synchronisation, sync, syncService).
NewestArrives ==
  <>[](Same(got, Wanted, IF kind = "backend" THEN NewestService ELSE 0))
=============================================================================
