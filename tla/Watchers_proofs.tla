--------------------------- MODULE Watchers_proofs ---------------------------
(***************************************************************************)
(* What a watcher compares the next value with is what its reader was told  *)
(* last, and the loop never goes back to an older version, for every kind   *)
(* of watcher, all objects and Services, and every number of changes.       *)
(***************************************************************************)
EXTENDS Watchers, FiniteSetTheorems, SequenceTheorems, TLAPS

-----------------------------------------------------------------------------
(* Types.                                                                  *)

\* A channel of capacity one, or what a goroutine has in hand.
Slot(S) == {<<>>} \cup {<<x>> : x \in S}

Sources ==
  {Nil} \cup {OfService(v) : v \in 0..NewestService}
        \cup {OfSlices(v) : v \in 0..NewestObject}

Items == [eps : Sources, svc : 0..NewestService]

\* A watcher of objects when there are n versions.
WatcherType(n) ==
  [life : {"off", "on", "cancelled"}, store : 0..n, dirty : BOOLEAN,
   init : {"list", "sync", "done"}, read : [Readers -> Slot(0..n)],
   previous : 0..n, synced : BOOLEAN, ch : Slot(0..n)]

HistoryOK ==
  /\ kind \in Kinds
  /\ objects \in Seq(AllObjects) /\ services \in Seq(Services \cup {Gone})
  /\ NewestObject >= 1 /\ NewestService >= 1
  /\ changes \in 0..MaxChanges
  /\ NewestObject + NewestService = changes + 2

WatchersOK ==
  /\ watchers \in [Ids -> WatcherType(NewestObject)]
  /\ forward \in [Ids -> Slot(0..NewestObject)]

\* A child is only started for a version of the Service that is not the one the
\* last child was stopped for, or the first.
ServiceOK ==
  /\ svcStore \in 0..NewestService /\ seen \in 0..svcStore
  /\ svcInit \in {"list", "sync", "done"} /\ svcDirty \in BOOLEAN
  /\ child \in 0..lastChild /\ lastChild \in 0..seen
  /\ child = 0 => Service(seen).target # "pods"

PipeOK ==
  /\ previous \in Sources /\ synced \in BOOLEAN
  /\ out \in Slot(Items) \cup {<<x, y>> : x \in Items, y \in Items}
  /\ ch \in Slot(Items) /\ hold \in Slot(Items) /\ got \in Slot(Items)

Types == HistoryOK /\ WatchersOK /\ ServiceOK /\ PipeOK

-----------------------------------------------------------------------------
(* The inductive invariant.                                                *)

\* The watcher of objects that speaks, if any.
Active == IF kind = "backend" THEN child ELSE 1

\* BackendWatcher is not there for the other kinds.
Idle ==
  kind # "backend" =>
    /\ svcInit = "list" /\ ~svcDirty
    /\ child = 0 /\ lastChild = 0 /\ ~synced /\ previous = Nil /\ seen = 0
    /\ out = <<>> /\ ch = <<>>
    /\ \A c \in Ids : forward[c] = <<>>
    /\ hold # <<>> => Head(hold).eps.of = "slices"
    /\ got # <<>> => Head(got).eps.of = "slices"

Lives ==
  \A c \in Ids :
    /\ watchers[c].life = "on" <=> c = Active
    /\ watchers[c].life = "off" => watchers[c] = NewWatcher("off") /\ forward[c] = <<>>
    /\ kind = "backend" => (watchers[c].life = "off" <=> c > lastChild)

\* One reader at a time has a value in hand, the newest.
Reading(w) ==
  /\ w.read["handler"] = <<>> \/ w.read["run"] = <<>>
  /\ \A r \in Readers : w.read[r] # <<>> => w.synced /\ w.read[r] = <<w.previous>>
  /\ ~w.synced => w.ch = <<>> /\ w.previous = 0
  /\ w.previous <= w.store
  /\ w.life = "on" /\ w.init = "list" => ~w.synced /\ ~w.dirty

\* What a watcher sent is on its way in order, the newest last.
Passing(w, f) ==
  /\ ~w.synced => f = <<>>
  /\ w.ch # <<>> => Head(w.ch) <= w.previous
  /\ f # <<>> => Head(f) <= w.previous
  /\ w.ch # <<>> /\ f # <<>> => Head(f) <= Head(w.ch)
  /\ w.synced /\ MutexFree(w) =>
       /\ w.ch # <<>> => Head(w.ch) = w.previous
       /\ w.ch = <<>> /\ f # <<>> => Head(f) = w.previous

\* When nothing is on its way from the watcher that speaks its reader has it.
Told(w, f) ==
  w.synced /\ MutexFree(w) /\ w.ch = <<>> /\ f = <<>> =>
    IF kind = "backend" THEN Endpoints(previous) = View(w.previous)
    ELSE /\ Latest # <<>>
         /\ Head(Latest).eps.at = w.previous

ChildrenOK ==
  \A c \in Ids :
    /\ Reading(watchers[c]) /\ Passing(watchers[c], forward[c])
    /\ c = Active => Told(watchers[c], forward[c])

\* What will have been sent when the mutex is free.
Final == IF out = <<>> THEN Latest ELSE <<out[Len(out)]>>

FinalOK == synced => Same(Final, Endpoints(previous), seen)

WatchInv == Types /\ Idle /\ Lives /\ ChildrenOK /\ FinalOK /\ OwnerSpeaks

-----------------------------------------------------------------------------
(* The order.                                                              *)

\* A watcher has nothing to send that is older than version v.
Covers(w, f, v) ==
  /\ w.init # "list" => v <= w.store
  /\ w.synced => v <= w.previous
  /\ w.ch # <<>> => v <= Head(w.ch)
  /\ f # <<>> => v <= Head(f)

\* Not newer than what is sent next.
Behind(e) ==
  /\ e.of = "service" => e.at <= seen
  /\ e.of = "slices" /\ Active # 0 =>
       Covers(watchers[Active], forward[Active], e.at)

Known(x) ==
  /\ x.svc <= seen
  /\ Behind(x.eps)
  /\ kind = "backend" /\ x.eps.of = previous.of => x.eps.at <= previous.at

\* The holder of the mutex has still to send x.
Pending(x) ==
  out = <<x>> \/ \E y \in SnapshotType : out = <<x, y>> \/ out = <<y, x>>

AllKnown ==
  \A x \in SnapshotType :
    Pending(x) \/ ch = <<x>> \/ hold = <<x>> \/ got = <<x>> => Known(x)

\* What was sent later is not older.
InOrder ==
  \A x, y \in SnapshotType :
    /\ out = <<x, y>> => Older(x, y)
    /\ ch = <<x>> /\ Pending(y) => Older(x, y)
    /\ hold = <<x>> /\ (ch = <<y>> \/ Pending(y)) => Older(x, y)
    /\ got = <<x>> /\ (hold = <<y>> \/ ch = <<y>> \/ Pending(y)) => Older(x, y)

OrderInv == AllKnown /\ InOrder /\ Behind(previous)

-----------------------------------------------------------------------------
(* Channels and histories.                                                 *)

LEMMA SlotFacts ==
  ASSUME NEW S
  PROVE  /\ <<>> \in Slot(S)
         /\ \A x \in S : <<x>> \in Slot(S)
         /\ \A q \in Slot(S) : q # <<>> => Head(q) \in S /\ q = <<Head(q)>>
         /\ \A T : S \subseteq T => Slot(S) \subseteq Slot(T)
  BY DEF Slot

LEMMA OneFacts ==
  \A x : /\ <<x>> # <<>> /\ Head(<<x>>) = x /\ Tail(<<x>>) = <<>>
         /\ Len(<<x>>) = 1 /\ <<x>>[1] = x
  OBVIOUS

LEMMA TwoFacts ==
  ASSUME NEW x, NEW y
  PROVE  /\ <<x, y>> # <<>> /\ Head(<<x, y>>) = x /\ Tail(<<x, y>>) = <<y>>
         /\ Len(<<x, y>>) = 2 /\ <<x, y>>[1] = x /\ <<x, y>>[2] = y
         /\ <<x>> \o <<y>> = <<x, y>>
         /\ <<x>> \o <<>> = <<x>> /\ <<>> \o <<y>> = <<y>> /\ <<>> \o <<>> = <<>>
  <1> DEFINE S == {x, y}
  <1>1. <<x>> \in Seq(S) /\ <<y>> \in Seq(S) /\ <<>> \in Seq(S)
    OBVIOUS
  <1>2. Append(<<x>>, y) = <<x, y>>
    <2>1. /\ Append(<<x>>, y) \in Seq(S) /\ <<x, y>> \in Seq(S)
          /\ Len(Append(<<x>>, y)) = 2 /\ Len(<<x, y>>) = 2
          /\ Append(<<x>>, y)[1] = x /\ Append(<<x>>, y)[2] = y
      OBVIOUS
    <2> DEFINE s == Append(<<x>>, y)
               t == <<x, y>>
    <2>2. s[1] = t[1] /\ s[2] = t[2]
      BY <2>1
    <2> HIDE DEF s, t, S
    <2>3. Len(s) = 2 /\ Len(t) = 2 /\ s \in Seq(S) /\ t \in Seq(S)
      BY <2>1 DEF s, t
    <2>4. \A i \in 1..2 : s[i] = t[i]
      BY <2>2
    <2>5. s = t
      BY <2>3, <2>4, SeqEqual
    <2> QED
      BY <2>5 DEF s, t
  <1>3. <<x>> \o <<y>> = <<x, y>>
    <2> y \in S
      OBVIOUS
    <2> HIDE DEF S
    <2> QED
      BY <1>1, <1>2, AppendIsConcat
  <1>4. <<x>> \o <<>> = <<x>> /\ <<>> \o <<y>> = <<y>> /\ <<>> \o <<>> = <<>>
    <2> HIDE DEF S
    <2> QED
      BY <1>1, ConcatEmptySeq
  <1>5. /\ <<x, y>> # <<>> /\ Head(<<x, y>>) = x /\ Tail(<<x, y>>) = <<y>>
        /\ Len(<<x, y>>) = 2 /\ <<x, y>>[1] = x /\ <<x, y>>[2] = y
    OBVIOUS
  <1> QED
    BY <1>3, <1>4, <1>5

\* A change appends a version, and leaves the others what they are.
LEMMA ChangeStep ==
  ASSUME HistoryOK, Change
  PROVE  /\ HistoryOK'
         /\ NewestObject \in Nat /\ NewestService \in Nat
         /\ NewestObject' \in Nat /\ NewestService' \in Nat
         /\ NewestObject <= NewestObject' /\ NewestService <= NewestService'
         /\ \A v \in 0..NewestObject : Object(v)' = Object(v)
         /\ \A v \in 0..NewestService : Service(v)' = Service(v)
         /\ kind # "backend" => NewestService' = NewestService
         /\ UNCHANGED <<kind, watchers, serviceVars, backendVars, ch, hold, got>>
  <1>1. /\ changes' = changes + 1 /\ changes < MaxChanges /\ changes \in 0..MaxChanges
        /\ UNCHANGED <<kind, watchers, serviceVars, backendVars, ch, hold, got>>
    BY DEF Change, HistoryOK
  <1>2. /\ NewestObject \in Nat /\ NewestService \in Nat
        /\ NewestObject >= 1 /\ NewestService >= 1
        /\ NewestObject + NewestService = changes + 2
        /\ MaxChanges \in Nat
    BY WatchersAssumption DEF HistoryOK, NewestObject, NewestService
  <1>3. ASSUME NEW o \in AllObjects, objects' = Append(objects, o), services' = services
        PROVE  /\ objects' \in Seq(AllObjects) /\ services' \in Seq(Services \cup {Gone})
               /\ NewestObject' = NewestObject + 1 /\ NewestService' = NewestService
               /\ \A v \in 0..NewestObject : Object(v)' = Object(v)
               /\ \A v \in 0..NewestService : Service(v)' = Service(v)
    <2> DEFINE A == AllObjects
    <2>1. objects \in Seq(A) /\ o \in A
      BY <1>3 DEF HistoryOK
    <2> HIDE DEF A
    <2>2. /\ objects' \in Seq(A) /\ Len(objects') = Len(objects) + 1
          /\ \A v \in 1..Len(objects) : objects'[v] = objects[v]
      BY <1>3, <2>1
    <2>3. \A v \in 0..NewestObject : Object(v)' = Object(v)
      BY <1>2, <2>2 DEF Object, NewestObject
    <2> QED
      BY <1>3, <2>2, <2>3 DEF A, NewestObject, NewestService, Service, HistoryOK
  <1>4. ASSUME NEW s \in Services, services' = Append(services, s), objects' = objects,
               kind = "backend"
        PROVE  /\ objects' \in Seq(AllObjects) /\ services' \in Seq(Services \cup {Gone})
               /\ NewestObject' = NewestObject /\ NewestService' = NewestService + 1
               /\ \A v \in 0..NewestObject : Object(v)' = Object(v)
               /\ \A v \in 0..NewestService : Service(v)' = Service(v)
    <2> DEFINE A == Services \cup {Gone}
    <2>1. services \in Seq(A) /\ s \in A
      BY <1>4 DEF HistoryOK
    <2> HIDE DEF A
    <2>2. /\ services' \in Seq(A) /\ Len(services') = Len(services) + 1
          /\ \A v \in 1..Len(services) : services'[v] = services[v]
      BY <1>4, <2>1
    <2>3. \A v \in 0..NewestService : Service(v)' = Service(v)
      BY <1>2, <2>2 DEF Service, NewestService
    <2> QED
      BY <1>4, <2>2, <2>3 DEF A, NewestObject, NewestService, Object, HistoryOK
  <1>5. \/ \E o \in AllObjects : objects' = Append(objects, o) /\ services' = services
        \/ /\ kind = "backend"
           /\ \E s \in Services : services' = Append(services, s) /\ objects' = objects
    BY DEF Change
  <1>6. CASE \E o \in AllObjects : objects' = Append(objects, o) /\ services' = services
    BY <1>1, <1>2, <1>3, <1>6 DEF HistoryOK
  <1>7. CASE /\ kind = "backend"
             /\ \E s \in Services : services' = Append(services, s) /\ objects' = objects
    BY <1>1, <1>2, <1>4, <1>7 DEF HistoryOK
  <1> QED
    BY <1>5, <1>6, <1>7

\* Versions mean what they meant.
Means ==
  /\ \A v \in 0..NewestObject : View(v)' = View(v)
  /\ \A v \in 0..NewestService : Service(v)' = Service(v) /\ Own(v)' = Own(v)
  /\ \A e \in Sources : Endpoints(e)' = Endpoints(e)

LEMMA VersionsStay ==
  ASSUME UNCHANGED kind, NewestObject \in Nat, NewestService \in Nat,
         \A v \in 0..NewestObject : Object(v)' = Object(v),
         \A v \in 0..NewestService : Service(v)' = Service(v)
  PROVE  Means
  <1>1. ASSUME NEW v \in 0..NewestObject
        PROVE  View(v)' = View(v)
    <2> DEFINE o == Object(v)
    <2>1. Object(v)' = o
      BY <1>1
    <2>2. /\ EndpointsView(Object(v))' = EndpointsView(Object(v)')
          /\ ValuesView(Object(v))' = ValuesView(Object(v)')
          /\ TLSView(Object(v))' = TLSView(Object(v)')
      BY DEF EndpointsView, ValuesView, TLSView
    <2> QED
      BY <2>1, <2>2 DEF View
  <1>2. ASSUME NEW v \in 0..NewestService
        PROVE  Own(v)' = Own(v)
    BY <1>2 DEF Own
  <1>3. ASSUME NEW e \in Sources
        PROVE  Endpoints(e)' = Endpoints(e)
    <2>1. CASE e = Nil
      BY <2>1 DEF Endpoints, Nil
    <2>2. ASSUME NEW v \in 0..NewestService, e = OfService(v)
          PROVE  Endpoints(e)' = Endpoints(e)
      BY <2>2 DEF Endpoints, OfService
    <2>3. ASSUME NEW v \in 0..NewestObject, e = OfSlices(v)
          PROVE  Endpoints(e)' = Endpoints(e)
      BY <1>1, <2>3 DEF Endpoints, OfSlices
    <2> QED
      BY <2>1, <2>2, <2>3 DEF Sources
  <1> QED
    BY <1>1, <1>2, <1>3 DEF Means

LEMMA TypesChange ==
  ASSUME Types, Change
  PROVE  Types'
  <1> DEFINE n == NewestObject
             m == NewestObject'
             k == NewestService
             l == NewestService'
  <1>0. /\ HistoryOK' /\ n \in Nat /\ m \in Nat /\ k \in Nat /\ l \in Nat
        /\ n <= m /\ k <= l
        /\ \A v \in 0..k : Service(v)' = Service(v)
        /\ UNCHANGED <<kind, watchers, serviceVars, backendVars, ch, hold, got>>
    BY ChangeStep DEF Types
  <1> HIDE DEF n, m, k, l
  <1>1. 0..n \subseteq 0..m /\ 0..k \subseteq 0..l
    BY <1>0
  <1>2. Slot(0..n) \subseteq Slot(0..m)
    BY <1>1, SlotFacts
  <1>3. WatcherType(n) \subseteq WatcherType(m)
    BY <1>1, <1>2 DEF WatcherType
  <1>4. Sources \subseteq Sources'
    BY <1>1 DEF Sources, n, m, k, l, Nil, OfService, OfSlices
  <1>5. Items \subseteq Items'
    BY <1>1, <1>4 DEF Items, k, l
  <1>6. Slot(Items) \subseteq Slot(Items')
    BY <1>5, SlotFacts
  <1>7. WatchersOK'
    BY <1>0, <1>2, <1>3 DEF Types, WatchersOK, backendVars, n, m
  <1>8. ServiceOK'
    <2>1. /\ svcStore \in 0..k /\ seen \in 0..svcStore
          /\ svcInit \in {"list", "sync", "done"} /\ svcDirty \in BOOLEAN
          /\ child \in 0..lastChild /\ lastChild \in 0..seen
          /\ child = 0 => Service(seen).target # "pods"
      BY DEF Types, ServiceOK, k
    <2>2. seen \in 0..k
      BY <1>0, <2>1
    <2>3. UNCHANGED <<svcStore, seen, svcInit, svcDirty, child, lastChild>>
          /\ Service(seen)' = Service(seen)
      BY <1>0, <2>2 DEF serviceVars, backendVars, Service
    <2> QED
      BY <1>1, <2>1, <2>3 DEF ServiceOK, l
  <1>9. PipeOK'
    <2>1. UNCHANGED <<previous, synced, out, ch, hold, got>>
      BY <1>0 DEF backendVars
    <2>2. /\ {<<x, y>> : x \in Items, y \in Items}
               \subseteq {<<x, y>> : x \in Items', y \in Items'}
      BY <1>5
    <2>3. previous' \in Sources' /\ synced' \in BOOLEAN
      BY <1>4, <2>1 DEF Types, PipeOK
    <2>4. out' \in Slot(Items') \cup {<<x, y>> : x \in Items', y \in Items'}
      BY <1>6, <2>1, <2>2 DEF Types, PipeOK
    <2>5. ch' \in Slot(Items') /\ hold' \in Slot(Items') /\ got' \in Slot(Items')
      BY <1>6, <2>1 DEF Types, PipeOK
    <2> QED
      BY <2>3, <2>4, <2>5 DEF PipeOK, Slot
  <1> QED
    BY <1>0, <1>7, <1>8, <1>9 DEF Types

-----------------------------------------------------------------------------
(* One watcher of objects.                                                 *)

\* The informer of w has version x.
Informed(w, x, d, w2) ==
  \/ w2 = [w EXCEPT !.store = x, !.init = "sync", !.dirty = d]
  \/ w2 = [w EXCEPT !.store = x, !.dirty = d] /\ w.init # "list"

\* What a reader leaves behind that finds nothing new,
Marked(w, r) ==
  IF r = "handler" THEN [w EXCEPT !.dirty = FALSE] ELSE [w EXCEPT !.init = "done"]

\* that has something to send,
Loaded(w, r) ==
  [Marked(w, r) EXCEPT !.read[r] = <<w.store>>, !.previous = w.store, !.synced = TRUE]

\* and that has sent it.
Unloaded(w, r) ==
  [w EXCEPT !.ch = Coalesced(w.ch, Head(w.read[r])), !.read[r] = <<>>]

\* The informer has something new.
LEMMA InformedRecord ==
  ASSUME NEW n \in Nat, NEW w \in WatcherType(n), NEW f,
         Reading(w), Passing(w, f), w.life = "on",
         NEW x \in 0..n, w.store <= x, NEW d \in BOOLEAN,
         NEW w2, Informed(w, x, d, w2)
  PROVE  /\ w2 \in WatcherType(n) /\ w2.life = w.life
         /\ Reading(w2) /\ Passing(w2, f)
         /\ w2.ch = w.ch /\ w2.synced = w.synced /\ w2.previous = w.previous
         /\ w2.read = w.read
  <1>1. /\ w2 \in WatcherType(n) /\ w2.life = w.life /\ w2.read = w.read
        /\ w2.ch = w.ch /\ w2.synced = w.synced /\ w2.previous = w.previous
        /\ w2.store = x /\ w2.init # "list"
    BY DEF WatcherType, Informed
  <1>2. w.previous <= x
    BY DEF WatcherType, Reading
  <1>3. Reading(w2)
    BY <1>1, <1>2 DEF Reading
  <1>4. Passing(w2, f)
    BY <1>1 DEF Passing, MutexFree
  <1> QED
    BY <1>1, <1>3, <1>4

\* A reader found nothing new, or has the newest in hand.
LEMMA ReadRecord ==
  ASSUME NEW n \in Nat, NEW w \in WatcherType(n), NEW f \in Slot(0..n),
         Reading(w), Passing(w, f), MutexFree(w), NEW r \in Readers, Wants(w, r),
         NEW marked, marked = Marked(w, r),
         NEW w2, w2 = marked \/ w2 = Loaded(w, r)
  PROVE  /\ w2 \in WatcherType(n) /\ w2.life = w.life
         /\ Reading(w2) /\ Passing(w2, f)
         /\ w2 = marked => /\ w2.ch = w.ch /\ w2.synced = w.synced
                           /\ w2.previous = w.previous /\ w2.read = w.read
         /\ w2 # marked => ~MutexFree(w2)
  <1>1. /\ marked \in WatcherType(n) /\ marked.life = w.life /\ marked.read = w.read
        /\ marked.ch = w.ch /\ marked.synced = w.synced
        /\ marked.previous = w.previous /\ marked.store = w.store
        /\ marked.life = "on" => marked.init # "list"
    BY DEF WatcherType, Wants, Reading, Marked
  <1>2. \A q \in Readers : w.read[q] = <<>>
    BY DEF MutexFree
  <1>3. w.store \in 0..n /\ w.previous \in 0..n /\ w.previous <= w.store
    BY DEF WatcherType, Reading
  <1>4. CASE w2 = marked
    <2>1. Reading(w2)
      BY <1>1, <1>4 DEF Reading
    <2>2. Passing(w2, f)
      BY <1>1, <1>4 DEF Passing, MutexFree
    <2> QED
      BY <1>1, <1>4, <2>1, <2>2
  <1>5. CASE w2 = Loaded(w, r)
    <2>1. <<w.store>> \in Slot(0..n)
      BY <1>3 DEF Slot
    <2>2. marked.read \in [Readers -> Slot(0..n)]
      BY <1>1 DEF WatcherType
    <2> DEFINE read2 == [marked.read EXCEPT ![r] = <<w.store>>]
    <2>3. /\ read2 \in [Readers -> Slot(0..n)]
          /\ \A q \in Readers : read2[q] = IF q = r THEN <<w.store>> ELSE <<>>
      BY <1>1, <1>2, <2>1, <2>2
    <2>4. w2 = [marked EXCEPT !.read = read2, !.previous = w.store, !.synced = TRUE]
      BY <1>1, <1>5 DEF WatcherType, Loaded
    <2> HIDE DEF read2
    <2>5. /\ w2 \in WatcherType(n) /\ w2.life = w.life /\ w2.read = read2
          /\ w2.ch = w.ch /\ w2.synced = TRUE /\ w2.previous = w.store
          /\ w2.store = w.store /\ w2.init = marked.init
      BY <1>1, <1>3, <2>3, <2>4 DEF WatcherType
    <2>6. Reading(w2)
      BY <1>1, <1>3, <2>3, <2>5 DEF Reading, Readers
    <2>7. ~MutexFree(w2)
      <3>1. w2.read[r] = <<w.store>>
        BY <2>3, <2>5
      <3>2. w2.read[r] # <<>>
        BY <3>1, OneFacts
      <3> QED
        BY <3>2 DEF MutexFree
    <2>8. Passing(w2, f)
      <3>1. w.ch # <<>> => Head(w.ch) \in 0..n
        BY SlotFacts DEF WatcherType
      <3>2. f # <<>> => Head(f) \in 0..n
        BY SlotFacts
      <3>3. w.ch # <<>> => Head(w.ch) <= w.store
        BY <1>3, <3>1 DEF Passing
      <3>4. f # <<>> => Head(f) <= w.store
        BY <1>3, <3>2 DEF Passing
      <3> QED
        BY <2>5, <2>7, <3>3, <3>4 DEF Passing
    <2>9. w2 # marked
      BY <1>1, <1>2, <2>7 DEF MutexFree
    <2> QED
      BY <2>5, <2>6, <2>7, <2>8, <2>9
  <1> QED
    BY <1>4, <1>5

\* The reader sends what it has in hand.
LEMMA SentRecord ==
  ASSUME NEW n \in Nat, NEW w \in WatcherType(n), NEW f \in Slot(0..n),
         Reading(w), Passing(w, f), NEW r \in Readers, w.read[r] # <<>>,
         NEW w2, w2 = Unloaded(w, r)
  PROVE  /\ w2 \in WatcherType(n) /\ w2.life = w.life
         /\ Reading(w2) /\ Passing(w2, f) /\ w2.ch = <<w.previous>>
         /\ w2.store = w.store /\ w2.previous = w.previous
         /\ w2.synced = w.synced /\ w2.init = w.init
  <1>1. w.synced /\ w.read[r] = <<w.previous>>
    BY DEF Reading
  <1>2. /\ w.previous \in 0..n /\ w.store \in 0..n
        /\ w.read \in [Readers -> Slot(0..n)]
    BY DEF WatcherType
  <1> DEFINE read2 == [w.read EXCEPT ![r] = <<>>]
  <1>3. /\ read2 \in [Readers -> Slot(0..n)]
        /\ \A q \in Readers : read2[q] = <<>>
    BY <1>1, <1>2, SlotFacts DEF Reading, Readers
  <1>4. <<w.previous>> \in Slot(0..n) /\ Head(<<w.previous>>) = w.previous
    BY <1>2, SlotFacts
  <1>5. w2 = [w EXCEPT !.ch = <<w.previous>>, !.read = read2]
    BY <1>1, <1>4 DEF WatcherType, Coalesced, Unloaded
  <1> HIDE DEF read2
  <1>6. /\ w2 \in WatcherType(n) /\ w2.life = w.life /\ w2.ch = <<w.previous>>
        /\ w2.store = w.store /\ w2.previous = w.previous
        /\ w2.synced = w.synced /\ w2.init = w.init /\ w2.read = read2
        /\ w2.dirty = w.dirty
    BY <1>3, <1>4, <1>5 DEF WatcherType
  <1>7. Reading(w2)
    <2>1. w.previous <= w.store /\ (w.life = "on" /\ w.init = "list" => ~w.dirty)
      BY DEF Reading
    <2>2. \A q \in Readers : w2.read[q] = <<>>
      BY <1>3, <1>6
    <2>3. w2.synced /\ "run" \in Readers /\ (w.life = "on" => w.init # "list")
      BY <1>1, <1>6 DEF Readers, Reading
    <2> QED
      BY <1>6, <2>1, <2>2, <2>3 DEF Reading
  <1>8. Passing(w2, f)
    <2>1. f # <<>> => Head(f) <= w.previous
      BY DEF Passing
    <2>2. w2.ch # <<>> /\ Head(w2.ch) = w.previous /\ w.previous <= w.previous
      BY <1>2, <1>4, <1>6
    <2> QED
      BY <1>1, <1>6, <2>1, <2>2 DEF Passing
  <1> QED
    BY <1>6, <1>7, <1>8

-----------------------------------------------------------------------------
(* What the steps of one watcher leave as it was.                          *)

LEMMA ClusterStays ==
  ASSUME UNCHANGED <<kind, clusterVars>>
  PROVE  /\ NewestObject' = NewestObject /\ NewestService' = NewestService
         /\ \A v : Object(v)' = Object(v) /\ View(v)' = View(v)
         /\ \A v : Service(v)' = Service(v) /\ Own(v)' = Own(v)
         /\ \A e : Endpoints(e)' = Endpoints(e)
         /\ Sources' = Sources /\ Items' = Items
         /\ HistoryOK => HistoryOK'
  <1>1. UNCHANGED <<kind, objects, services, changes>>
    BY DEF clusterVars
  <1>2. NewestObject' = NewestObject /\ NewestService' = NewestService
    BY <1>1 DEF NewestObject, NewestService
  <1>3. \A v : Object(v)' = Object(v) /\ Service(v)' = Service(v) /\ Own(v)' = Own(v)
    BY <1>1 DEF Object, Service, Own
  <1>4. ASSUME NEW v
        PROVE  View(v)' = View(v)
    <2>1. /\ EndpointsView(Object(v))' = EndpointsView(Object(v)')
          /\ ValuesView(Object(v))' = ValuesView(Object(v)')
          /\ TLSView(Object(v))' = TLSView(Object(v)')
      BY DEF EndpointsView, ValuesView, TLSView
    <2> QED
      BY <1>1, <1>3, <2>1 DEF View
  <1>5. \A e : Endpoints(e)' = Endpoints(e)
    BY <1>3, <1>4 DEF Endpoints
  <1>6. Sources' = Sources /\ Items' = Items
    BY <1>2 DEF Sources, Items
  <1>7. HistoryOK => HistoryOK'
    BY <1>1, <1>2 DEF HistoryOK
  <1> QED
    BY <1>2, <1>3, <1>4, <1>5, <1>6, <1>7

\* A step that changes nothing but one watcher of objects that was started.
LEMMA WatcherStep ==
  ASSUME WatchInv, NEW c \in Ids, NEW w2 \in WatcherType(NewestObject),
         watchers' = [watchers EXCEPT ![c] = w2],
         w2.life = watchers[c].life, watchers[c].life # "off",
         Reading(w2), Passing(w2, forward[c]),
         c = Active => Told(w2, forward[c]),
         UNCHANGED <<kind, clusterVars, serviceVars, backendVars, ch, hold, got>>
  PROVE  WatchInv'
  <1>0. UNCHANGED <<kind, objects, services, changes, svcStore, svcDirty, svcInit,
                    child, lastChild, forward, seen, previous, synced, out,
                    ch, hold, got>>
    BY DEF clusterVars, serviceVars, backendVars
  <1>1. /\ NewestObject' = NewestObject /\ NewestService' = NewestService
        /\ \A v : View(v)' = View(v) /\ Service(v)' = Service(v) /\ Own(v)' = Own(v)
        /\ \A e : Endpoints(e)' = Endpoints(e)
        /\ Sources' = Sources /\ Items' = Items
        /\ HistoryOK => HistoryOK'
    BY ClusterStays
  <1>2. /\ watchers \in [Ids -> WatcherType(NewestObject)]
        /\ watchers' \in [Ids -> WatcherType(NewestObject)]
        /\ watchers'[c] = w2
        /\ \A d \in Ids : d # c => watchers'[d] = watchers[d]
    BY DEF WatchInv, Types, WatchersOK
  <1>3. Active' = Active /\ Latest' = Latest /\ Final' = Final
    BY <1>0 DEF Active, Latest, Final
  <1>4. Types'
    <2>1. WatchersOK'
      BY <1>0, <1>1, <1>2 DEF WatchersOK, WatchInv, Types
    <2>2. ServiceOK'
      BY <1>0, <1>1 DEF ServiceOK, WatchInv, Types
    <2>3. PipeOK'
      BY <1>0, <1>1 DEF PipeOK, WatchInv, Types
    <2> QED
      BY <1>1, <2>1, <2>2, <2>3 DEF Types, WatchInv
  <1>5. Idle'
    BY <1>0 DEF Idle, WatchInv
  <1>6. Lives'
    <2> SUFFICES ASSUME NEW d \in Ids
                 PROVE  /\ watchers'[d].life = "on" <=> d = Active
                        /\ watchers'[d].life = "off" =>
                             watchers'[d] = NewWatcher("off") /\ forward[d] = <<>>
                        /\ kind = "backend" => (watchers'[d].life = "off" <=> d > lastChild)
      BY <1>0, <1>3 DEF Lives, NewWatcher
    <2>1. watchers'[d].life = watchers[d].life
      BY <1>2
    <2> QED
      BY <1>2, <2>1 DEF Lives, WatchInv
  <1>7. ChildrenOK'
    <2> SUFFICES ASSUME NEW d \in Ids
                 PROVE  /\ Reading(watchers'[d]) /\ Passing(watchers'[d], forward'[d])
                        /\ d = Active => Told(watchers[d], forward[d])'
      BY <1>3 DEF ChildrenOK, Reading, Passing, MutexFree
    <2>1. Reading(watchers'[d]) /\ Passing(watchers'[d], forward'[d])
      BY <1>0, <1>2 DEF ChildrenOK, WatchInv
    <2>2. ASSUME d = Active
          PROVE  Told(watchers'[d], forward[d])
      BY <1>2, <2>2 DEF ChildrenOK, WatchInv
    <2>3. ASSUME d = Active
          PROVE  Told(watchers[d], forward[d])'
      <3>1. Told(watchers'[d], forward[d])
        BY <2>2, <2>3
      <3> QED
        BY <3>1, <1>0, <1>1, <1>3 DEF Told, MutexFree
    <2> QED
      BY <2>1, <2>3
  <1>8. FinalOK' /\ OwnerSpeaks'
    BY <1>0, <1>1, <1>3 DEF FinalOK, OwnerSpeaks, Same, WatchInv
  <1> QED
    BY <1>4, <1>5, <1>6, <1>7, <1>8 DEF WatchInv

\* What WatchInv says of one watcher.
LEMMA OneWatcher ==
  ASSUME WatchInv, NEW c \in Ids
  PROVE  /\ watchers[c] \in WatcherType(NewestObject)
         /\ forward[c] \in Slot(0..NewestObject)
         /\ NewestObject \in Nat /\ NewestObject >= 1
         /\ Reading(watchers[c]) /\ Passing(watchers[c], forward[c])
         /\ c = Active => Told(watchers[c], forward[c])
         /\ watchers[c].life = "on" <=> c = Active
         /\ watchers[c].life = "off" =>
              watchers[c] = NewWatcher("off") /\ forward[c] = <<>>
  <1>1. NewestObject \in Nat /\ NewestObject >= 1
    BY DEF WatchInv, Types, HistoryOK, NewestObject
  <1> QED
    BY <1>1 DEF WatchInv, Types, WatchersOK, ChildrenOK, Lives

LEMMA InformerStep ==
  ASSUME WatchInv, NEW c \in Ids, InformerLists(c) \/ InformerNotifies(c)
  PROVE  WatchInv'
  <1> DEFINE w == watchers[c]
             n == NewestObject
  <1>1. /\ w \in WatcherType(n) /\ n \in Nat
        /\ Reading(w) /\ Passing(w, forward[c])
        /\ c = Active => Told(w, forward[c])
    BY OneWatcher
  <1>2. /\ UNCHANGED <<kind, clusterVars, serviceVars, backendVars, ch, hold, got>>
        /\ w.life = "on"
    BY DEF InformerLists, InformerNotifies
  <1>3. PICK x, d, w2 :
          /\ x \in 0..n /\ d \in BOOLEAN
          /\ watchers' = [watchers EXCEPT ![c] = w2]
          /\ w.store <= x
          /\ Informed(w, x, d, w2)
    <2>1. w.store \in 0..n
      BY <1>1 DEF WatcherType
    <2>2. CASE InformerLists(c)
      <3>1. Object(n).exists \in BOOLEAN
        <4>1. n >= 1 /\ objects \in Seq(AllObjects) /\ n = Len(objects)
          BY DEF WatchInv, Types, HistoryOK, NewestObject
        <4> DEFINE A == AllObjects
        <4>2. objects \in Seq(A)
          BY <4>1
        <4> HIDE DEF A
        <4>3. objects[n] \in A
          BY <4>1, <4>2, <1>1
        <4>4. Object(n) = objects[n]
          BY <4>1 DEF Object
        <4>5. \A o \in AllObjects : o.exists \in BOOLEAN
          <5> SUFFICES ASSUME NEW o \in AllObjects
                       PROVE  o.exists \in BOOLEAN
            OBVIOUS
          <5>1. CASE o = Absent
            BY <5>1 DEF Absent
          <5>2. ASSUME NEW i \in Contents, o = Existing(i)
                PROVE  o.exists \in BOOLEAN
            BY <5>2 DEF Existing
          <5> QED
            BY <5>1, <5>2 DEF AllObjects
        <4> QED
          BY <4>3, <4>4, <4>5 DEF A
      <3>2. watchers' = [watchers EXCEPT ![c] =
              [w EXCEPT !.store = n, !.init = "sync", !.dirty = Object(n).exists]]
        BY <2>2 DEF InformerLists
      <3>3. n \in 0..n /\ w.store <= n
        BY <1>1, <2>1
      <3> QED
        BY <3>1, <3>2, <3>3 DEF Informed
    <2>3. CASE InformerNotifies(c)
      <3>1. /\ watchers' = [watchers EXCEPT ![c] =
                 [w EXCEPT !.store = w.store + 1, !.dirty = TRUE]]
            /\ w.init # "list" /\ w.store < n
        BY <2>3 DEF InformerNotifies
      <3>2. w.store + 1 \in 0..n /\ w.store <= w.store + 1
        BY <1>1, <2>1, <3>1
      <3> QED
        BY <3>1, <3>2 DEF Informed
    <2> QED
      BY <2>2, <2>3
  <1>4. /\ w2 \in WatcherType(n) /\ w2.life = w.life
        /\ Reading(w2) /\ Passing(w2, forward[c])
        /\ w2.ch = w.ch /\ w2.synced = w.synced /\ w2.previous = w.previous
        /\ w2.read = w.read
    <2> HIDE DEF w, n
    <2> QED
      BY <1>1, <1>2, <1>3, InformedRecord
  <1>5. c = Active => Told(w2, forward[c])
    BY <1>1, <1>4 DEF Told, MutexFree
  <1>6. w.life # "off"
    BY <1>2
  <1> QED
    BY <1>2, <1>3, <1>4, <1>5, <1>6, WatcherStep

LEMMA SyncReadsStep ==
  ASSUME WatchInv, NEW c \in Ids, NEW r \in Readers, SyncReads(c, r)
  PROVE  WatchInv'
  <1> DEFINE w == watchers[c]
             n == NewestObject
             same == w.synced /\ View(w.store) = View(w.previous)
             marked == Marked(w, r)
             w2 == IF same THEN marked ELSE Loaded(w, r)
  <1>1. /\ w \in WatcherType(n) /\ n \in Nat /\ forward[c] \in Slot(0..n)
        /\ Reading(w) /\ Passing(w, forward[c])
        /\ c = Active => Told(w, forward[c])
    BY OneWatcher
  <1>2. /\ UNCHANGED <<kind, clusterVars, serviceVars, backendVars, ch, hold, got>>
        /\ w.life # "off" /\ MutexFree(w) /\ Wants(w, r)
        /\ watchers' = [watchers EXCEPT ![c] = w2]
    BY DEF SyncReads, Marked, Loaded
  <1>3. w2 = marked \/ w2 = Loaded(w, r)
    OBVIOUS
  <1>4. marked = Marked(w, r)
    OBVIOUS
  <1>5. w = watchers[c]
    OBVIOUS
  <1> HIDE DEF w2, marked, same, w, n
  <1>6. /\ w2 \in WatcherType(n) /\ w2.life = w.life
        /\ Reading(w2) /\ Passing(w2, forward[c])
        /\ w2 = marked => /\ w2.ch = w.ch /\ w2.synced = w.synced
                          /\ w2.previous = w.previous /\ w2.read = w.read
        /\ w2 # marked => ~MutexFree(w2)
    BY <1>1, <1>2, <1>3, <1>4, ReadRecord
  <1>7. c = Active => Told(w2, forward[c])
    BY <1>1, <1>6 DEF Told, MutexFree
  <1> QED
    BY <1>2, <1>5, <1>6, <1>7, WatcherStep DEF n

LEMMA SyncSendsStep ==
  ASSUME WatchInv, NEW c \in Ids, NEW r \in Readers, SyncSends(c, r)
  PROVE  WatchInv'
  <1> DEFINE w == watchers[c]
             n == NewestObject
             w2 == Unloaded(w, r)
  <1>1. /\ w \in WatcherType(n) /\ n \in Nat /\ forward[c] \in Slot(0..n)
        /\ Reading(w) /\ Passing(w, forward[c])
        /\ w.life = "off" => w = NewWatcher("off")
    BY OneWatcher
  <1>2. /\ UNCHANGED <<kind, clusterVars, serviceVars, backendVars, ch, hold, got>>
        /\ w.read[r] # <<>>
        /\ watchers' = [watchers EXCEPT ![c] = w2]
    BY DEF SyncSends, Unloaded
  <1>3. w.life # "off"
    BY <1>1, <1>2 DEF NewWatcher
  <1>4. w = watchers[c] /\ w2 = Unloaded(w, r)
    OBVIOUS
  <1> HIDE DEF w2, w, n
  <1>5. /\ w2 \in WatcherType(n) /\ w2.life = w.life
        /\ Reading(w2) /\ Passing(w2, forward[c]) /\ w2.ch = <<w.previous>>
    BY <1>1, <1>2, <1>4, SentRecord
  <1>6. c = Active => Told(w2, forward[c])
    BY <1>5, OneFacts DEF Told
  <1> QED
    BY <1>2, <1>3, <1>4, <1>5, <1>6, WatcherStep DEF n

-----------------------------------------------------------------------------
(* What is on its way to the loop.                                         *)

LEMMA PipeFacts ==
  ASSUME WatchInv
  PROVE  /\ NewestService \in Nat /\ seen \in 0..NewestService
         /\ Own(seen) \in Sources /\ Own(svcStore) \in Sources
         /\ Nil \in Sources
         /\ \/ out = <<>>
            \/ \E x \in Items : out = <<x>>
            \/ \E x \in Items, y \in Items : out = <<x, y>>
         /\ Latest \in Slot(Items) /\ Final \in Slot(Items)
         /\ \A q \in Slot(Items) : q # <<>> =>
              /\ Head(q) \in Items /\ q = <<Head(q)>>
              /\ Head(q).eps \in Sources /\ Head(q).svc \in 0..NewestService
  <1>1. NewestService \in Nat
    BY DEF WatchInv, Types, HistoryOK, NewestService
  <1>2. seen \in 0..NewestService /\ svcStore \in 0..NewestService
    BY <1>1 DEF WatchInv, Types, ServiceOK
  <1>3. \A v \in 0..NewestService : Own(v) \in Sources
    BY DEF Own, Sources
  <1>4. Nil \in Sources
    BY DEF Sources
  <1>5. \/ out = <<>>
        \/ \E x \in Items : out = <<x>>
        \/ \E x \in Items, y \in Items : out = <<x, y>>
    BY DEF WatchInv, Types, PipeOK, Slot
  <1>6. Latest \in Slot(Items)
    BY DEF Latest, WatchInv, Types, PipeOK
  <1>7. Final \in Slot(Items)
    <2>1. CASE out = <<>>
      BY <1>6, <2>1 DEF Final
    <2>2. ASSUME NEW x \in Items, out = <<x>>
          PROVE  Final \in Slot(Items)
      <3>1. out # <<>> /\ out[Len(out)] = x
        BY <2>2, OneFacts
      <3> QED
        BY <3>1, SlotFacts DEF Final
    <2>3. ASSUME NEW x \in Items, NEW y \in Items, out = <<x, y>>
          PROVE  Final \in Slot(Items)
      <3>1. out # <<>> /\ out[Len(out)] = y
        BY <2>3, TwoFacts
      <3> QED
        BY <3>1, SlotFacts DEF Final
    <2> QED
      BY <1>5, <2>1, <2>2, <2>3
  <1>8. ASSUME NEW q \in Slot(Items), q # <<>>
        PROVE  /\ Head(q) \in Items /\ q = <<Head(q)>>
               /\ Head(q).eps \in Sources /\ Head(q).svc \in 0..NewestService
    <2>1. Head(q) \in Items /\ q = <<Head(q)>>
      BY <1>8, SlotFacts
    <2>2. \A x \in Items : x.eps \in Sources /\ x.svc \in 0..NewestService
      BY DEF Items
    <2> QED
      BY <2>1, <2>2
  <1> QED
    BY <1>1, <1>2, <1>3, <1>4, <1>5, <1>6, <1>7, <1>8

LEMMA ChangeWatch ==
  ASSUME WatchInv, Change
  PROVE  WatchInv'
  <1>1. /\ NewestObject \in Nat /\ NewestService \in Nat
        /\ \A v \in 0..NewestObject : Object(v)' = Object(v)
        /\ \A v \in 0..NewestService : Service(v)' = Service(v)
        /\ UNCHANGED <<kind, watchers, serviceVars, backendVars, ch, hold, got>>
    BY ChangeStep DEF WatchInv, Types
  <1>0. UNCHANGED <<kind, watchers, svcStore, svcDirty, svcInit,
                    child, lastChild, forward, seen, previous, synced, out,
                    ch, hold, got>>
    BY <1>1 DEF serviceVars, backendVars
  <1>2. Means
    BY <1>1, VersionsStay
  <1>3. Types'
    BY TypesChange DEF WatchInv
  <1>4. Active' = Active /\ Latest' = Latest /\ Final' = Final
    BY <1>0 DEF Active, Latest, Final
  <1>5. Idle'
    BY <1>0 DEF Idle, WatchInv
  <1>6. Lives'
    BY <1>0, <1>4 DEF Lives, WatchInv, NewWatcher
  <1>7. Endpoints(previous)' = Endpoints(previous)
    <2>1. previous \in Sources /\ previous' = previous
      BY <1>0 DEF WatchInv, Types, PipeOK
    <2>2. \A e \in Sources : Endpoints(e)' = Endpoints(e)
      BY <1>2 DEF Means
    <2>3. PICK e : e = previous
      OBVIOUS
    <2>4. Endpoints(e)' = Endpoints(e)
      BY <2>1, <2>2, <2>3
    <2>5. Endpoints(previous)' = Endpoints(e)'
      BY <2>1, <2>3 DEF Endpoints, Service, Object, View
    <2> QED
      BY <2>3, <2>4, <2>5
  <1>8. ChildrenOK'
    <2> SUFFICES ASSUME NEW d \in Ids
                 PROVE  /\ Reading(watchers[d]) /\ Passing(watchers[d], forward[d])
                        /\ d = Active => Told(watchers[d], forward[d])'
      BY <1>0, <1>4 DEF ChildrenOK, Reading, Passing, MutexFree
    <2>1. /\ Reading(watchers[d]) /\ Passing(watchers[d], forward[d])
          /\ d = Active => Told(watchers[d], forward[d])
          /\ watchers[d] \in WatcherType(NewestObject)
      BY OneWatcher
    <2> DEFINE p == watchers[d].previous
    <2>2. p \in 0..NewestObject
      BY <2>1 DEF WatcherType
    <2>3. View(watchers[d].previous)' = View(p)
      BY <1>0, <1>2, <2>2 DEF Means, View
    <2>4. ASSUME d = Active
          PROVE  Told(watchers[d], forward[d])'
      BY <1>0, <1>4, <1>7, <2>1, <2>3, <2>4 DEF Told, MutexFree
    <2> QED
      BY <2>1, <2>4
  <1>9. FinalOK'
    <2>1. ASSUME synced
          PROVE  Same(Final, Endpoints(previous), seen)'
      <3>1. Same(Final, Endpoints(previous), seen)
        BY <2>1 DEF FinalOK, WatchInv
      <3> DEFINE e == Head(Final).eps
                 v == Head(Final).svc
      <3>2. Final # <<>> /\ e \in Sources /\ v \in 0..NewestService
            /\ seen \in 0..NewestService
        BY <3>1, PipeFacts DEF Same
      <3>3. PICK f : f = Final
        OBVIOUS
      <3>4. Endpoints(Head(f).eps)' = Endpoints(Head(f).eps)
        BY <1>2, <3>2, <3>3 DEF Means
      <3>5. Service(Head(f).svc)' = Service(Head(f).svc)
        BY <1>2, <3>2, <3>3 DEF Means
      <3>6. Service(seen)' = Service(seen)
        BY <1>0, <1>2, <3>2 DEF Means, Service
      <3>7. /\ Endpoints(Head(Final).eps)' = Endpoints(Head(f).eps)'
            /\ Service(Head(Final).svc)' = Service(Head(f).svc)'
        BY <1>4, <3>3 DEF Endpoints, Service, Object, View
      <3> QED
        BY <1>0, <1>4, <1>7, <3>1, <3>3, <3>4, <3>5, <3>6, <3>7 DEF Same
    <2> QED
      BY <1>0, <2>1 DEF FinalOK
  <1>10. OwnerSpeaks'
    <2> DEFINE e == Own(seen)
    <2>1. e \in Sources /\ seen \in 0..NewestService
      BY PipeFacts
    <2>2. Own(seen)' = e
      BY <1>0, <1>2, <2>1 DEF Means, Own, Service
    <2>3. Endpoints(Own(seen))' = Endpoints(e)
      BY <1>2, <2>1, <2>2 DEF Means, Endpoints
    <2> QED
      BY <1>0, <1>7, <2>3 DEF OwnerSpeaks, WatchInv
  <1> QED
    BY <1>3, <1>5, <1>6, <1>8, <1>9, <1>10 DEF WatchInv

\* A step that moves values on without a new one overtaking.
LEMMA PipeStep ==
  ASSUME WatchInv, Idle', ServiceOK', PipeOK',
         UNCHANGED <<kind, clusterVars, watchers, child, lastChild, forward, seen,
                     previous, synced>>,
         Final' = Final, kind = "backend" \/ Latest' = Latest
  PROVE  WatchInv'
  <1>1. /\ NewestObject' = NewestObject /\ NewestService' = NewestService
        /\ \A v : View(v)' = View(v) /\ Service(v)' = Service(v) /\ Own(v)' = Own(v)
        /\ \A e : Endpoints(e)' = Endpoints(e)
        /\ HistoryOK => HistoryOK'
    BY ClusterStays
  <1>2. Active' = Active
    BY DEF Active
  <1>3. WatchersOK'
    BY <1>1 DEF WatchersOK, WatchInv, Types
  <1>4. Types'
    BY <1>1, <1>3 DEF Types, WatchInv
  <1>5. Lives'
    BY <1>2 DEF Lives, NewWatcher, WatchInv
  <1>6. ChildrenOK'
    <2> SUFFICES ASSUME NEW d \in Ids
                 PROVE  /\ Reading(watchers[d]) /\ Passing(watchers[d], forward[d])
                        /\ d = Active => Told(watchers[d], forward[d])'
      BY <1>2 DEF ChildrenOK, Reading, Passing, MutexFree
    <2>1. /\ Reading(watchers[d]) /\ Passing(watchers[d], forward[d])
          /\ d = Active => Told(watchers[d], forward[d])
      BY OneWatcher
    <2> QED
      BY <1>1, <2>1 DEF Told, MutexFree
  <1>7. FinalOK' /\ OwnerSpeaks'
    BY <1>1 DEF FinalOK, OwnerSpeaks, Same, WatchInv
  <1> QED
    BY <1>4, <1>5, <1>6, <1>7 DEF WatchInv

LEMMA ServiceInformerStep ==
  ASSUME WatchInv, ServiceInformer
  PROVE  WatchInv'
  <1>1. /\ kind = "backend"
        /\ UNCHANGED <<kind, clusterVars, watchers, child, lastChild, forward, seen,
                       previous, synced, out, ch, hold, got>>
    BY DEF ServiceInformer, backendVars
  <1>2. /\ svcStore \in 0..NewestService /\ seen \in 0..svcStore
        /\ svcInit \in {"list", "sync", "done"}
        /\ NewestService \in Nat
    BY PipeFacts DEF WatchInv, Types, ServiceOK
  <1>3. /\ svcStore' \in svcStore..NewestService
        /\ svcInit' \in {"list", "sync", "done"} /\ svcDirty' \in BOOLEAN
    <2>1. CASE svcInit = "list"
      <3>1. /\ svcInit' = "sync" /\ svcStore' = NewestService
            /\ svcDirty' = (services[NewestService] # Gone)
        BY <2>1 DEF ServiceInformer
      <3>2. svcDirty' \in BOOLEAN
        BY <3>1, Zenon
      <3>3. svcStore' \in svcStore..NewestService
        BY <1>2, <3>1
      <3> QED
        BY <3>1, <3>2, <3>3
    <2>2. CASE svcInit # "list"
      <3>1. /\ svcInit' = svcInit /\ svcStore' = svcStore + 1
            /\ svcStore < NewestService /\ svcDirty' = TRUE
        BY <2>2 DEF ServiceInformer
      <3>2. svcStore' \in svcStore..NewestService
        BY <1>2, <3>1
      <3> QED
        BY <1>2, <3>1, <3>2
    <2> QED
      BY <2>1, <2>2
  <1>4. NewestService' = NewestService /\ Service(seen)' = Service(seen)
    BY <1>1, ClusterStays DEF Service, clusterVars
  <1>5. ServiceOK'
    <2>1. svcStore' \in 0..NewestService /\ seen \in 0..svcStore'
      BY <1>2, <1>3
    <2> QED
      BY <1>1, <1>3, <1>4, <2>1 DEF ServiceOK, WatchInv, Types
  <1>6. PipeOK'
    BY <1>1, ClusterStays DEF PipeOK, WatchInv, Types
  <1>7. Final' = Final /\ Idle'
    BY <1>1 DEF Final, Latest, Idle
  <1> QED
    BY <1>1, <1>5, <1>6, <1>7, PipeStep

LEMMA SendStep ==
  ASSUME WatchInv, Send
  PROVE  /\ WatchInv'
         /\ \/ \E x \in Items : out = <<x>> /\ out' = <<>> /\ ch' = <<x>>
            \/ \E x \in Items, y \in Items :
                 out = <<x, y>> /\ out' = <<y>> /\ ch' = <<x>>
  <1>1. /\ out # <<>> /\ ch' = <<Head(out)>> /\ out' = Tail(out)
        /\ UNCHANGED <<kind, clusterVars, watchers, serviceVars, child, lastChild,
                       forward, seen, previous, synced, hold, got>>
    BY DEF Send, Coalesced
  <1>2. kind = "backend"
    BY <1>1 DEF WatchInv, Idle
  <1>3. ServiceOK' /\ Items' = Items
    BY <1>1, ClusterStays DEF ServiceOK, serviceVars, WatchInv, Types
  <1>4. PipeOK' <=> out' \in Slot(Items) \cup {<<x, y>> : x \in Items, y \in Items}
                    /\ ch' \in Slot(Items)
    BY <1>1, <1>3, ClusterStays DEF PipeOK, WatchInv, Types
  <1>5. Idle'
    BY <1>1, <1>2 DEF Idle
  <1>6. ASSUME NEW x \in Items, out = <<x>>
        PROVE  /\ out' = <<>> /\ ch' = <<x>> /\ PipeOK' /\ Final' = Final
    <2>1. out' = <<>> /\ ch' = <<x>> /\ out[Len(out)] = x /\ ch' # <<>> /\ out # <<>>
      BY <1>1, <1>6, OneFacts
    <2>2. ch' \in Slot(Items) /\ out' \in Slot(Items)
      BY <2>1, SlotFacts
    <2> QED
      BY <1>4, <2>1, <2>2 DEF Final, Latest
  <1>7. ASSUME NEW x \in Items, NEW y \in Items, out = <<x, y>>
        PROVE  /\ out' = <<y>> /\ ch' = <<x>> /\ PipeOK' /\ Final' = Final
    <2>1. /\ out' = <<y>> /\ ch' = <<x>> /\ out[Len(out)] = y /\ out # <<>>
          /\ out' # <<>> /\ out'[Len(out')] = y
      BY <1>1, <1>7, OneFacts, TwoFacts
    <2>2. ch' \in Slot(Items) /\ out' \in Slot(Items)
      BY <2>1, SlotFacts
    <2> QED
      BY <1>4, <2>1, <2>2 DEF Final
  <1>8. \/ \E x \in Items : out = <<x>>
        \/ \E x \in Items, y \in Items : out = <<x, y>>
    BY <1>1, PipeFacts
  <1>9. PipeOK' /\ Final' = Final
    BY <1>6, <1>7, <1>8
  <1>10. UNCHANGED <<kind, clusterVars, watchers, child, lastChild, forward, seen,
                     previous, synced>>
    BY <1>1
  <1>11. WatchInv'
    BY <1>2, <1>3, <1>5, <1>9, <1>10, PipeStep
  <1>12. ASSUME NEW x \in Items, out = <<x>>
         PROVE  out' = <<>> /\ ch' = <<x>>
    BY <1>6, <1>12
  <1>13. ASSUME NEW x \in Items, NEW y \in Items, out = <<x, y>>
         PROVE  out' = <<y>> /\ ch' = <<x>>
    BY <1>7, <1>13
  <1> QED
    BY <1>8, <1>11, <1>12, <1>13

LEMMA FanInStep ==
  ASSUME WatchInv, BackendFanIn \/ LoopReads
  PROVE  WatchInv'
  <1>1. /\ UNCHANGED <<kind, clusterVars, watchers, serviceVars, backendVars>>
        /\ Latest' = Latest
    BY DEF BackendFanIn, LoopReads, Latest
  <1>2. Final' = Final
    BY <1>1 DEF Final, backendVars
  <1>3. ServiceOK' /\ PipeOK'
    <2>1. Items' = Items /\ Sources' = Sources /\ <<>> \in Slot(Items)
          /\ NewestService' = NewestService
      BY <1>1, ClusterStays, SlotFacts
    <2>2. ch' \in Slot(Items) /\ hold' \in Slot(Items) /\ got' \in Slot(Items)
      BY <2>1 DEF BackendFanIn, LoopReads, WatchInv, Types, PipeOK
    <2>3. Service(seen)' = Service(seen)
      BY <1>1 DEF clusterVars, backendVars, Service
    <2> QED
      BY <1>1, <2>1, <2>2, <2>3
      DEF ServiceOK, PipeOK, serviceVars, backendVars, WatchInv, Types
  <1>4. Idle'
    BY <1>1 DEF Idle, WatchInv, BackendFanIn, LoopReads, serviceVars, backendVars
  <1>5. UNCHANGED <<kind, clusterVars, watchers, child, lastChild, forward, seen,
                     previous, synced>>
    BY <1>1 DEF backendVars
  <1> QED
    BY <1>1, <1>2, <1>3, <1>4, <1>5, PipeStep

-----------------------------------------------------------------------------
(* Values leave a watcher.                                                 *)

LEMMA ChildStep ==
  ASSUME WatchInv, NEW c \in Ids, NEW w2 \in WatcherType(NewestObject),
         NEW f2 \in Slot(0..NewestObject),
         watchers' = [watchers EXCEPT ![c] = w2],
         forward' = [forward EXCEPT ![c] = f2],
         w2.life = watchers[c].life, watchers[c].life # "off",
         Reading(w2), Passing(w2, f2), c = Active => Told(w2, f2)',
         c = Active \/ (previous' = previous /\ Latest' = Latest),
         UNCHANGED <<kind, clusterVars, serviceVars, child, lastChild, seen>>,
         PipeOK', Idle', FinalOK', OwnerSpeaks'
  PROVE  WatchInv'
  <1>1. /\ NewestObject' = NewestObject /\ NewestService' = NewestService
        /\ \A v : View(v)' = View(v) /\ Service(v)' = Service(v) /\ Own(v)' = Own(v)
        /\ \A e : Endpoints(e)' = Endpoints(e)
        /\ HistoryOK => HistoryOK'
    BY ClusterStays
  <1>2. /\ watchers \in [Ids -> WatcherType(NewestObject)]
        /\ watchers' \in [Ids -> WatcherType(NewestObject)]
        /\ forward' \in [Ids -> Slot(0..NewestObject)]
        /\ watchers'[c] = w2 /\ forward'[c] = f2
        /\ \A d \in Ids : d # c => watchers'[d] = watchers[d] /\ forward'[d] = forward[d]
    BY DEF WatchInv, Types, WatchersOK
  <1>3. Active' = Active
    BY DEF Active
  <1>4. Types'
    <2>1. WatchersOK'
      BY <1>1, <1>2 DEF WatchersOK
    <2>2. ServiceOK'
      BY <1>1 DEF ServiceOK, serviceVars, WatchInv, Types
    <2> QED
      BY <1>1, <2>1, <2>2 DEF Types, WatchInv
  <1>5. Lives'
    <2> SUFFICES ASSUME NEW d \in Ids
                 PROVE  /\ watchers'[d].life = "on" <=> d = Active
                        /\ watchers'[d].life = "off" =>
                             watchers'[d] = NewWatcher("off") /\ forward'[d] = <<>>
                        /\ kind = "backend" => (watchers'[d].life = "off" <=> d > lastChild)
      BY <1>3 DEF Lives, NewWatcher
    <2>1. watchers'[d].life = watchers[d].life
      BY <1>2
    <2> QED
      BY <1>2, <2>1 DEF Lives, WatchInv
  <1>6. ChildrenOK'
    <2> SUFFICES ASSUME NEW d \in Ids
                 PROVE  /\ Reading(watchers'[d]) /\ Passing(watchers'[d], forward'[d])
                        /\ d = Active => Told(watchers[d], forward[d])'
      BY <1>3 DEF ChildrenOK, Reading, Passing, MutexFree
    <2>1. CASE d = c
      <3>1. ASSUME d = Active
            PROVE  Told(watchers[d], forward[d])'
        <4>1. Told(w2, f2)'
          BY <2>1, <3>1
        <4> QED
          BY <1>2, <2>1, <4>1 DEF Told, MutexFree, View, Object
      <3> QED
        BY <1>2, <2>1, <3>1
    <2>2. CASE d # c
      <3>1. ASSUME d = Active
            PROVE  Told(watchers[d], forward[d])'
        <4>1. Told(watchers[d], forward[d]) /\ previous' = previous /\ Latest' = Latest
          BY <2>2, <3>1, OneWatcher
        <4> QED
          BY <1>1, <1>2, <2>2, <4>1 DEF Told, MutexFree
      <3> QED
        BY <1>2, <2>2, <3>1, OneWatcher
    <2> QED
      BY <2>1, <2>2
  <1> QED
    BY <1>4, <1>5, <1>6 DEF WatchInv

LEMMA ForwardTakesStep ==
  ASSUME WatchInv, NEW c \in Ids, ForwardTakes(c)
  PROVE  WatchInv'
  <1> DEFINE w == watchers[c]
             n == NewestObject
  <1>5. PICK w2, f2 : w2 = [w EXCEPT !.ch = <<>>] /\ f2 = w.ch
    OBVIOUS
  <1>1. /\ w \in WatcherType(n) /\ n \in Nat
        /\ Reading(w) /\ Passing(w, forward[c])
        /\ w.life = "off" => w = NewWatcher("off")
    BY OneWatcher
  <1>2. /\ kind = "backend" /\ w.ch # <<>> /\ forward[c] = <<>>
        /\ watchers' = [watchers EXCEPT ![c] = w2]
        /\ forward' = [forward EXCEPT ![c] = f2]
        /\ UNCHANGED <<kind, clusterVars, serviceVars, child, lastChild, seen,
                       previous, synced, out, ch, hold, got>>
    BY <1>5 DEF ForwardTakes
  <1>3. /\ w2 \in WatcherType(n) /\ w2.life = w.life /\ f2 \in Slot(0..n)
        /\ w2.ch = <<>> /\ w2.read = w.read /\ w2.synced = w.synced
        /\ w2.previous = w.previous /\ w2.store = w.store /\ w2.init = w.init
        /\ w2.dirty = w.dirty
    BY <1>1, <1>5, SlotFacts DEF WatcherType
  <1>4. w.life # "off"
    BY <1>1, <1>2 DEF NewWatcher
  <1>13. w = watchers[c] /\ n = NewestObject
    OBVIOUS
  <1> HIDE DEF w, n
  <1>6. Reading(w2)
    BY <1>1, <1>3 DEF Reading
  <1>7. Passing(w2, f2)
    BY <1>1, <1>2, <1>3, <1>5 DEF Passing, Reading, MutexFree
  <1>8. Told(w2, f2)'
    <2>1. f2 # <<>>
      BY <1>2, <1>5
    <2> QED
      BY <2>1 DEF Told
  <1>9. PipeOK'
    BY <1>2, ClusterStays DEF PipeOK, WatchInv, Types
  <1>10. Latest' = Latest /\ Final' = Final
    BY <1>2 DEF Latest, Final
  <1>11. Idle' /\ FinalOK' /\ OwnerSpeaks'
    <2>1. /\ \A v : Service(v)' = Service(v) /\ Own(v)' = Own(v)
          /\ \A e : Endpoints(e)' = Endpoints(e)
      BY <1>2, ClusterStays
    <2> QED
      BY <1>2, <1>10, <2>1 DEF Idle, FinalOK, OwnerSpeaks, Same, WatchInv
  <1>12. /\ UNCHANGED <<kind, clusterVars, serviceVars, child, lastChild, seen>>
         /\ c = Active \/ (previous' = previous /\ Latest' = Latest)
    BY <1>2, <1>10
  <1> QED
    BY <1>2, <1>3, <1>4, <1>6, <1>7, <1>8, <1>9, <1>11, <1>12, <1>13, ChildStep

LEMMA DirectFanInStep ==
  ASSUME WatchInv, DirectFanIn
  PROVE  WatchInv'
  <1> DEFINE c == 1
             w == watchers[c]
             n == NewestObject
  <1>17. PICK w2, f2, x : /\ w2 = [w EXCEPT !.ch = <<>>] /\ f2 = forward[c]
                          /\ x = Snapshot(OfSlices(Head(w.ch)), 0)
    OBVIOUS
  <1>0. c \in Ids /\ c = 1
    BY WatchersAssumption DEF Ids
  <1>1. /\ w \in WatcherType(n) /\ n \in Nat /\ f2 \in Slot(0..n)
        /\ Reading(w) /\ Passing(w, f2)
        /\ w.life = "off" => w = NewWatcher("off")
    BY <1>0, <1>17, OneWatcher
  <1>2. /\ kind # "backend" /\ w.ch # <<>> /\ hold' = <<x>>
        /\ watchers' = [watchers EXCEPT ![c] = w2]
        /\ UNCHANGED <<kind, clusterVars, serviceVars, backendVars, ch, got>>
    BY <1>17 DEF DirectFanIn
  <1>3. /\ w2 \in WatcherType(n) /\ w2.life = w.life
        /\ w2.ch = <<>> /\ w2.read = w.read /\ w2.synced = w.synced
        /\ w2.previous = w.previous /\ w2.store = w.store /\ w2.init = w.init
        /\ w2.dirty = w.dirty
    BY <1>1, <1>17, SlotFacts DEF WatcherType
  <1>4. w.life # "off"
    BY <1>1, <1>2 DEF NewWatcher
  <1>5. /\ forward' = [forward EXCEPT ![c] = f2] /\ f2 = <<>>
        /\ ch = <<>> /\ ~synced
    BY <1>0, <1>2, <1>17 DEF WatchInv, Idle, backendVars, Types, WatchersOK
  <1>6. /\ Head(w.ch) \in 0..n /\ x.eps.at = Head(w.ch) /\ x.eps.of = "slices"
        /\ x \in Items
    <2>1. Head(w.ch) \in 0..n
      BY <1>1, <1>2, SlotFacts DEF WatcherType
    <2>2. 0 \in 0..NewestService
      BY PipeFacts
    <2> QED
      BY <1>17, <2>1, <2>2 DEF Snapshot, OfSlices, Items, Sources
  <1>7. w = watchers[c] /\ n = NewestObject
    OBVIOUS
  <1> HIDE DEF c, w, n
  <1>8. Reading(w2)
    BY <1>1, <1>3 DEF Reading
  <1>9. Passing(w2, f2)
    BY <1>1, <1>3, <1>5 DEF Passing, Reading, MutexFree
  <1>10. Latest' # <<>> /\ Head(Latest') = x
    <2>1. hold' # <<>> /\ Head(hold') = x /\ ch' = <<>>
      BY <1>2, <1>5, OneFacts
    <2> QED
      BY <2>1 DEF Latest
  <1>11. Told(w2, f2)'
    <2>1. ASSUME w2.synced, MutexFree(w2)
          PROVE  Head(Latest').eps.at = w2.previous
      <3>1. Head(w.ch) = w.previous
        BY <1>1, <1>2, <1>3, <2>1 DEF Passing, MutexFree
      <3> QED
        BY <1>3, <1>6, <1>10, <3>1
    <2> QED
      BY <1>2, <1>10, <2>1 DEF Told, MutexFree
  <1>12. PipeOK'
    <2>1. <<x>> \in Slot(Items)
      BY <1>6, SlotFacts
    <2> QED
      BY <1>2, <2>1, ClusterStays DEF PipeOK, WatchInv, Types, backendVars
  <1>13. Idle'
    <2>1. Head(hold').eps.of = "slices"
      BY <1>2, <1>6, OneFacts
    <2> QED
      BY <1>2, <2>1 DEF Idle, serviceVars, backendVars, WatchInv
  <1>14. FinalOK' /\ OwnerSpeaks'
    BY <1>2, <1>5 DEF FinalOK, OwnerSpeaks, backendVars
  <1>15. c = Active
    BY <1>0, <1>2 DEF Active
  <1>16. UNCHANGED <<kind, clusterVars, serviceVars, child, lastChild, seen>>
    BY <1>2 DEF backendVars
  <1> QED
    BY <1>0, <1>1, <1>2, <1>3, <1>4, <1>5, <1>7, <1>8, <1>9, <1>11, <1>12, <1>13,
       <1>14, <1>15, <1>16, ChildStep

-----------------------------------------------------------------------------
(* What BackendWatcher keeps of what it is told.                           *)

\* Either that is known already, or it is sent and kept.
LEMMA Remembered ==
  ASSUME NEW e, NEW v, Remember(e)
  PROVE  /\ synced' = TRUE
         /\ \/ /\ synced /\ Endpoints(e) = Endpoints(previous)
               /\ Sent(e, v) = <<>> /\ previous' = previous
            \/ /\ ~synced \/ Endpoints(e) # Endpoints(previous)
               /\ Sent(e, v) = <<Snapshot(e, v)>> /\ previous' = e
  BY OneFacts DEF Remember, Sent

LEMMA SendFromChildStep ==
  ASSUME WatchInv, NEW c \in Ids, SendFromChild(c)
  PROVE  WatchInv'
  <1> DEFINE w == watchers[c]
             n == NewestObject
             f == forward[c]
             eps == OfSlices(Head(f))
  <1>1. /\ w \in WatcherType(n) /\ n \in Nat /\ f \in Slot(0..n)
        /\ Reading(w) /\ Passing(w, f)
        /\ c = Active => Told(w, f)
        /\ w.life = "off" => f = <<>>
    BY OneWatcher
  <1>2. /\ f # <<>> /\ out = <<>>
        /\ forward' = [forward EXCEPT ![c] = <<>>]
        /\ UNCHANGED <<kind, clusterVars, watchers, serviceVars, child, lastChild,
                       seen, ch, hold, got>>
        /\ IF child = c THEN out' = Sent(eps, seen) /\ Remember(eps)
                        ELSE UNCHANGED <<out, previous, synced>>
    BY DEF SendFromChild, IsActive
  <1>3. kind = "backend" /\ Active = child /\ w.life # "off"
    BY <1>1, <1>2 DEF WatchInv, Idle, Active
  <1>4. /\ watchers' = [watchers EXCEPT ![c] = w] /\ <<>> \in Slot(0..n)
        /\ w = watchers[c]
    BY <1>2, SlotFacts DEF WatchInv, Types, WatchersOK
  <1>5. Passing(w, <<>>)
    BY <1>1 DEF Passing
  <1>6. /\ \A v : View(v)' = View(v) /\ Service(v)' = Service(v) /\ Own(v)' = Own(v)
        /\ \A e : Endpoints(e)' = Endpoints(e)
        /\ Sources' = Sources /\ Items' = Items
    BY <1>2, ClusterStays
  <1>7. eps \in Sources /\ Head(f) \in 0..n /\ Endpoints(eps) = View(Head(f))
    <2>1. Head(f) \in 0..n
      BY <1>1, <1>2, SlotFacts
    <2> QED
      BY <2>1 DEF OfSlices, Sources, Endpoints
  <1>8. Idle' /\ UNCHANGED <<kind, clusterVars, serviceVars, child, lastChild, seen>>
    BY <1>2, <1>3 DEF Idle
  <1>9. CASE child # c
    <2>1. UNCHANGED <<out, previous, synced>>
      BY <1>2, <1>9
    <2>2. Latest' = Latest /\ Final' = Final
      BY <1>2, <2>1 DEF Latest, Final
    <2>3. PipeOK'
      BY <1>2, <1>6, <2>1 DEF PipeOK, WatchInv, Types
    <2>4. FinalOK' /\ OwnerSpeaks'
      BY <1>2, <1>6, <2>1, <2>2 DEF FinalOK, OwnerSpeaks, Same, WatchInv
    <2>5. c # Active
      BY <1>3, <1>9
    <2> HIDE DEF w, n
    <2> QED
      BY <1>1, <1>2, <1>3, <1>4, <1>5, <1>8, <2>1, <2>2, <2>3, <2>4, <2>5, ChildStep
      DEF n
  <1>10. CASE child = c
    <2>1. out' = Sent(eps, seen) /\ Remember(eps)
      BY <1>2, <1>10
    <2>2. /\ synced' = TRUE
          /\ \/ /\ synced /\ Endpoints(eps) = Endpoints(previous)
                /\ out' = <<>> /\ previous' = previous
             \/ /\ out' = <<Snapshot(eps, seen)>> /\ previous' = eps
      <3> HIDE DEF eps
      <3>1. /\ synced' = TRUE
            /\ \/ /\ synced /\ Endpoints(eps) = Endpoints(previous)
                  /\ Sent(eps, seen) = <<>> /\ previous' = previous
               \/ /\ ~synced \/ Endpoints(eps) # Endpoints(previous)
                  /\ Sent(eps, seen) = <<Snapshot(eps, seen)>> /\ previous' = eps
        BY <2>1, Remembered
      <3> QED
        BY <2>1, <3>1
    <2> HIDE DEF eps
    <2>3. Snapshot(eps, seen) \in Items
      BY <1>7, PipeFacts DEF Snapshot, Items
    <2>4. PipeOK'
      <3>1. out' \in Slot(Items) /\ previous' \in Sources
        BY <1>7, <2>2, <2>3, SlotFacts DEF WatchInv, Types, PipeOK
      <3> QED
        BY <1>2, <1>6, <2>2, <3>1 DEF PipeOK, WatchInv, Types
    <2>5. Endpoints(previous') = Endpoints(eps)
      BY <2>2
    <2>6. Endpoints(previous)' = Endpoints(eps)
      <3>1. PICK e : e = previous'
        OBVIOUS
      <3>2. Endpoints(e)' = Endpoints(previous)'
        BY <3>1 DEF Endpoints, View, Object, Service
      <3> QED
        BY <1>6, <2>5, <3>1, <3>2
    <2>7. FinalOK'
      <3>1. CASE /\ synced /\ Endpoints(eps) = Endpoints(previous)
                 /\ out' = <<>> /\ previous' = previous
        <4>1. Final' = Final
          BY <1>2, <3>1 DEF Final, Latest
        <4> QED
          BY <1>2, <1>6, <3>1, <4>1 DEF FinalOK, Same, WatchInv
      <3>2. CASE out' = <<Snapshot(eps, seen)>> /\ previous' = eps
        <4>1. Final' = <<Snapshot(eps, seen)>>
          BY <3>2, OneFacts DEF Final
        <4>2. /\ Final' # <<>> /\ Head(Final') = Snapshot(eps, seen)
              /\ Snapshot(eps, seen).eps = eps /\ Snapshot(eps, seen).svc = seen
          BY <4>1, OneFacts DEF Snapshot
        <4>3. Endpoints(Head(Final).eps)' = Endpoints(previous)'
          BY <3>2, <4>2 DEF Endpoints, View, Object, Service
        <4>4. Service(Head(Final).svc)' = Service(seen)'
          BY <1>2, <4>2 DEF Service
        <4> QED
          BY <4>2, <4>3, <4>4 DEF FinalOK, Same
      <3> QED
        BY <2>2, <3>1, <3>2
    <2>8. OwnerSpeaks'
      <3>1. child' # 0
        BY <1>2, <1>10 DEF Ids
      <3> QED
        BY <3>1 DEF OwnerSpeaks
    <2>9. PICK w2 : w2 = w
      OBVIOUS
    <2>10. c = Active
      BY <1>3, <1>10
    <2>11. Told(w2, <<>>)'
      <3>1. ASSUME w2.synced, MutexFree(w2), w2.ch = <<>>
            PROVE  Endpoints(previous)' = View(w2.previous)
        <4>1. Head(f) = w2.previous
          BY <1>1, <1>2, <2>9, <3>1 DEF Passing
        <4> QED
          BY <1>7, <2>6, <4>1
      <3> QED
        BY <1>2, <1>3, <1>6, <3>1 DEF Told, MutexFree
    <2> HIDE DEF w, n
    <2> QED
      BY <1>1, <1>2, <1>3, <1>4, <1>5, <1>8, <2>4, <2>7, <2>8, <2>9, <2>10, <2>11,
         ChildStep DEF n
  <1> QED
    BY <1>9, <1>10

\* What was true of values is true of the variables that come to hold them.
LEMMA SameNow ==
  ASSUME UNCHANGED <<kind, clusterVars>>,
         NEW q, NEW e, NEW v, Final' = q, previous' = e, seen' = v
  PROVE  /\ Endpoints(previous)' = Endpoints(e)
         /\ Endpoints(Own(seen))' = Endpoints(Own(v))
         /\ Same(q, Endpoints(e), v) => Same(Final, Endpoints(previous), seen)'
  <1>1. /\ \A u : Service(u)' = Service(u) /\ Own(u)' = Own(u)
        /\ \A u : Endpoints(u)' = Endpoints(u)
    BY ClusterStays
  <1>2. Endpoints(previous)' = Endpoints(e)'
    BY DEF Endpoints, View, Object, Service
  <1>3. Own(seen)' = Own(v)'
    BY DEF Own, Service
  <1>4. PICK o : o = Own(v)
    OBVIOUS
  <1>5. Endpoints(Own(seen))' = Endpoints(o)'
    <2>1. Own(seen)' = o
      BY <1>1, <1>3, <1>4
    <2> QED
      BY <2>1 DEF Endpoints, View, Object, Service
  <1>6. ASSUME Same(q, Endpoints(e), v)
        PROVE  Same(Final, Endpoints(previous), seen)'
    <2>1. /\ Endpoints(Head(Final).eps)' = Endpoints(Head(q).eps)'
          /\ Service(Head(Final).svc)' = Service(Head(q).svc)'
          /\ Service(seen)' = Service(v)'
      BY DEF Endpoints, View, Object, Service
    <2> QED
      BY <1>1, <1>2, <1>6, <2>1 DEF Same
  <1> QED
    BY <1>1, <1>2, <1>4, <1>5, <1>6

LEMMA ResentFacts ==
  ASSUME NEW s
  PROVE  \/ /\ Resent(s) = <<>>
            /\ \/ s.meta = Service(seen).meta
               \/ ~synced
               \/ s = Gone /\ Endpoints(previous) # {}
         \/ Resent(s) = <<Snapshot(previous, svcStore)>>
  BY DEF Resent

\* What syncService sends is the newest, whichever way it goes.
LEMMA SyncOut ==
  ASSUME WatchInv, SyncService
  PROVE  /\ kind = "backend" /\ out = <<>> /\ seen' = svcStore
         /\ PipeOK' /\ FinalOK' /\ Idle'
         /\ child' = 0 => OwnerSpeaks'
  <1> DEFINE s == Service(svcStore)
             own == Own(svcStore)
  <1>1. /\ out = <<>> /\ seen' = svcStore /\ (svcDirty \/ svcInit = "sync")
        /\ UNCHANGED <<kind, clusterVars, svcStore, forward, ch, hold, got>>
        /\ IF s.target = "pods"
           THEN /\ out' = Resent(s) /\ UNCHANGED <<previous, synced>>
                /\ child' = IF child = 0 THEN lastChild' ELSE child
                /\ child = 0 => lastChild' = lastChild + 1
           ELSE out' = Resent(s) \o Sent(own, svcStore) /\ Remember(own) /\ child' = 0
    BY DEF SyncService
  <1>2. kind = "backend" /\ Idle'
    BY <1>1 DEF WatchInv, Idle
  <1>3. /\ previous \in Sources /\ own \in Sources /\ Final = Latest
        /\ svcStore \in 0..NewestService
        /\ Sources' = Sources /\ Items' = Items
        /\ synced \in BOOLEAN
    BY <1>1, ClusterStays, PipeFacts DEF WatchInv, Types, PipeOK, ServiceOK, Final
  <1>4. Snapshot(previous, svcStore) \in Items /\ Snapshot(own, svcStore) \in Items
    BY <1>3 DEF Snapshot, Items
  <1>5. Resent(s) \in Slot(Items)
    BY <1>4, ResentFacts, SlotFacts
  <1>6. \A e : Same(<<Snapshot(e, svcStore)>>, Endpoints(e), svcStore)
    BY OneFacts DEF Same, Snapshot
  <1>7. ASSUME out' = <<>>, previous' = previous, s.meta = Service(seen).meta, synced
        PROVE  FinalOK'
    <2>1. Final' = Final
      BY <1>1, <1>7 DEF Final, Latest
    <2>2. Same(Final, Endpoints(previous), svcStore)
      BY <1>7 DEF FinalOK, WatchInv, Same
    <2>3. Same(Final, Endpoints(previous), seen)'
      BY <1>1, <1>7, <2>1, <2>2, SameNow
    <2> QED
      BY <2>3 DEF FinalOK
  <1>8. ASSUME NEW e, NEW q, out' = <<q>> \o <<Snapshot(e, svcStore)>>
                             \/ out' = <<Snapshot(e, svcStore)>>,
               previous' = e
        PROVE  FinalOK'
    <2>1. Final' = <<Snapshot(e, svcStore)>>
      <3>1. CASE out' = <<Snapshot(e, svcStore)>>
        BY <3>1, OneFacts DEF Final
      <3>2. CASE out' = <<q>> \o <<Snapshot(e, svcStore)>>
        <4>1. out' # <<>> /\ out'[Len(out')] = Snapshot(e, svcStore)
          BY <3>2, TwoFacts
        <4> QED
          BY <4>1 DEF Final
      <3> QED
        BY <1>8, <3>1, <3>2
    <2>2. Same(Final, Endpoints(previous), seen)'
      BY <1>1, <1>6, <1>8, <2>1, SameNow
    <2> QED
      BY <2>2 DEF FinalOK
  <1>9. CASE s.target = "pods"
    <2>1. out' = Resent(s) /\ UNCHANGED <<previous, synced>> /\ s # Gone
      BY <1>1, <1>9 DEF Gone
    <2>2. PipeOK'
      BY <1>1, <1>3, <1>5, <2>1 DEF PipeOK, WatchInv, Types
    <2>3. FinalOK'
      <3>1. CASE ~synced
        BY <2>1, <3>1 DEF FinalOK
      <3>2. CASE synced /\ Resent(s) = <<>>
        <4>1. s.meta = Service(seen).meta
          BY <2>1, <3>2, ResentFacts, OneFacts
        <4> QED
          BY <1>7, <2>1, <3>2, <4>1
      <3>3. CASE Resent(s) = <<Snapshot(previous, svcStore)>>
        BY <1>8, <2>1, <3>3
      <3> QED
        BY <3>1, <3>2, <3>3, ResentFacts
    <2>4. child' # 0
      BY <1>1, <1>9 DEF WatchInv, Types, ServiceOK
    <2> QED
      BY <1>1, <1>2, <2>2, <2>3, <2>4
  <1>10. CASE s.target # "pods"
    <2>1. out' = Resent(s) \o Sent(own, svcStore) /\ Remember(own)
      BY <1>1, <1>10
    <2> HIDE DEF own
    <2>2. /\ synced' = TRUE
          /\ \/ /\ synced /\ Endpoints(own) = Endpoints(previous)
                /\ Sent(own, svcStore) = <<>> /\ previous' = previous
             \/ /\ ~synced \/ Endpoints(own) # Endpoints(previous)
                /\ Sent(own, svcStore) = <<Snapshot(own, svcStore)>> /\ previous' = own
      BY <2>1, Remembered
    <2>3. PICK a : a = Snapshot(own, svcStore)
      OBVIOUS
    <2>4. PICK b : b = Snapshot(previous, svcStore)
      OBVIOUS
    <2>5. a \in Items /\ b \in Items
      BY <1>4, <2>3, <2>4
    <2>6. Resent(s) = <<>> \/ Resent(s) = <<b>>
      BY <2>4, ResentFacts
    <2>7. \/ /\ Sent(own, svcStore) = <<>> /\ previous' = previous /\ synced
             /\ Endpoints(own) = Endpoints(previous)
             /\ out' = Resent(s)
          \/ /\ previous' = own /\ (out' = <<b>> \o <<a>> \/ out' = <<a>>)
      <3>1. /\ <<b>> \o <<>> = <<b>> /\ <<>> \o <<a>> = <<a>>
            /\ <<>> \o <<>> = <<>>
        BY TwoFacts
      <3>2. CASE /\ synced /\ Endpoints(own) = Endpoints(previous)
                 /\ Sent(own, svcStore) = <<>> /\ previous' = previous
        <4>1. out' = Resent(s)
          BY <2>1, <2>6, <3>1, <3>2
        <4> QED
          BY <3>2, <4>1
      <3>3. CASE Sent(own, svcStore) = <<Snapshot(own, svcStore)>> /\ previous' = own
        BY <2>1, <2>3, <2>6, <3>1, <3>3
      <3> QED
        BY <2>2, <3>2, <3>3
    <2>8. PipeOK'
      <3>1. previous' \in Sources
        BY <1>3, <2>7
      <3>2. out' \in Slot(Items) \cup {<<x, y>> : x \in Items, y \in Items}
        <4>1. <<a>> \in Slot(Items)
          BY <2>5, SlotFacts
        <4>2. <<b>> \o <<a>> = <<b, a>>
          BY TwoFacts
        <4>3. <<b, a>> \in {<<x, y>> : x \in Items, y \in Items}
          BY <2>5
        <4> QED
          BY <1>5, <2>7, <4>1, <4>2, <4>3
      <3> QED
        BY <1>1, <1>3, <2>2, <3>1, <3>2 DEF PipeOK, WatchInv, Types
    <2>9. FinalOK'
      <3>1. CASE previous' = own /\ (out' = <<b>> \o <<a>> \/ out' = <<a>>)
        BY <1>8, <2>3, <3>1
      <3>2. CASE /\ previous' = previous /\ synced
                 /\ Endpoints(own) = Endpoints(previous) /\ out' = Resent(s)
        <4>1. ~(s = Gone /\ Endpoints(previous) # {})
          <5>1. ASSUME s = Gone
                PROVE  Endpoints(own) = {}
            <6>1. own = Nil
              BY <5>1 DEF own, Own, Gone
            <6> QED
              BY <6>1 DEF Nil, Endpoints
          <5> QED
            BY <3>2, <5>1
        <4>2. \/ Resent(s) = <<>> /\ s.meta = Service(seen).meta
              \/ Resent(s) = <<Snapshot(previous, svcStore)>>
          BY <3>2, <4>1, ResentFacts
        <4> QED
          BY <1>7, <1>8, <3>2, <4>2
      <3> QED
        BY <2>7, <3>1, <3>2
    <2>10. OwnerSpeaks'
      <3>1. Endpoints(previous') = Endpoints(own)
        BY <2>7
      <3>2. Endpoints(previous)' = Endpoints(previous')
        BY <1>1, SameNow
      <3>3. Endpoints(Own(seen))' = Endpoints(Own(svcStore))
        BY <1>1, SameNow
      <3> QED
        BY <3>1, <3>2, <3>3 DEF OwnerSpeaks, own
    <2> QED
      BY <1>1, <1>2, <2>8, <2>9, <2>10
  <1> QED
    BY <1>9, <1>10

\* A child more, the same child, or none.
LEMMA SyncChild ==
  ASSUME WatchInv, SyncService
  PROVE  \/ /\ child' = lastChild' /\ lastChild' = lastChild + 1 /\ child = 0
            /\ lastChild' \in Ids /\ lastChild' <= svcStore
            /\ watchers' = [watchers EXCEPT ![lastChild'] = NewWatcher("on")]
            /\ previous' = previous
         \/ /\ child' = child /\ lastChild' = lastChild /\ watchers' = watchers
            /\ child # 0 => previous' = previous
            /\ child = 0 => Service(svcStore).target # "pods"
         \/ /\ child' = 0 /\ lastChild' = lastChild /\ child \in Ids
            /\ watchers' = Cancel(child)
            /\ Service(svcStore).target # "pods"
  <1>1. /\ svcStore \in 0..NewestService /\ seen \in 0..svcStore
        /\ child \in 0..lastChild /\ lastChild \in 0..seen
        /\ child = 0 => Service(seen).target # "pods"
    BY DEF WatchInv, Types, ServiceOK
  <1>2. NewestService \in Nat /\ NewestService <= MaxChanges + 1 /\ MaxChanges \in Nat
    <2>1. /\ NewestObject \in Nat /\ NewestService \in Nat
          /\ NewestObject >= 1 /\ NewestObject + NewestService = changes + 2
          /\ changes \in 0..MaxChanges /\ MaxChanges \in Nat
      BY WatchersAssumption DEF WatchInv, Types, HistoryOK, NewestObject, NewestService
    <2> QED
      BY <2>1
  <1>3. child # 0 => child \in Ids
    BY <1>1, <1>2 DEF Ids
  <1>4. CASE Service(svcStore).target = "pods" /\ child = 0
    <2>1. /\ child' = lastChild' /\ lastChild' = lastChild + 1
          /\ watchers' = [watchers EXCEPT ![lastChild'] = NewWatcher("on")]
          /\ previous' = previous
      BY <1>4 DEF SyncService
    <2>2. seen # svcStore
      BY <1>1, <1>4
    <2>3. lastChild' \in Ids /\ lastChild' <= svcStore
      BY <1>1, <1>2, <2>1, <2>2 DEF Ids
    <2> QED
      BY <1>4, <2>1, <2>3
  <1>5. CASE Service(svcStore).target = "pods" /\ child # 0
    BY <1>5 DEF SyncService
  <1>6. CASE Service(svcStore).target # "pods"
    <2>1. /\ child' = 0 /\ lastChild' = lastChild
          /\ watchers' = IF child = 0 THEN watchers ELSE Cancel(child)
      BY <1>6 DEF SyncService
    <2> QED
      BY <1>3, <1>6, <2>1
  <1> QED
    BY <1>4, <1>5, <1>6

LEMMA NewWatcherFacts ==
  ASSUME NEW n \in Nat
  PROVE  /\ NewWatcher("on") \in WatcherType(n)
         /\ NewWatcher("on").life = "on" /\ ~NewWatcher("on").synced
         /\ Reading(NewWatcher("on")) /\ Passing(NewWatcher("on"), <<>>)
  <1> DEFINE w == NewWatcher("on")
  <1>1. [r \in Readers |-> <<>>] \in [Readers -> Slot(0..n)]
    BY SlotFacts
  <1>2. w \in WatcherType(n)
    BY <1>1, SlotFacts DEF WatcherType, NewWatcher
  <1>3. /\ w.life = "on" /\ w.synced = FALSE /\ w.ch = <<>> /\ w.previous = 0
        /\ w.store = 0 /\ w.dirty = FALSE /\ w.init = "list"
        /\ \A r \in Readers : w.read[r] = <<>>
    BY DEF NewWatcher
  <1> HIDE DEF w
  <1>4. "handler" \in Readers
    BY DEF Readers
  <1>5. Reading(w)
    BY <1>3, <1>4 DEF Reading
  <1>6. Passing(w, <<>>)
    BY <1>3 DEF Passing
  <1> QED
    BY <1>2, <1>3, <1>5, <1>6 DEF w

LEMMA SyncServiceStep ==
  ASSUME WatchInv, SyncService
  PROVE  WatchInv'
  <1> DEFINE n == NewestObject
  <1>1. /\ kind = "backend" /\ out = <<>> /\ seen' = svcStore
        /\ PipeOK' /\ FinalOK' /\ Idle'
        /\ child' = 0 => OwnerSpeaks'
    BY SyncOut
  <1>2. UNCHANGED <<kind, clusterVars, svcStore, forward, ch, hold, got>>
    BY DEF SyncService
  <1>3. /\ NewestObject' = NewestObject /\ NewestService' = NewestService
        /\ \A v : View(v)' = View(v) /\ Service(v)' = Service(v)
        /\ \A e : Endpoints(e)' = Endpoints(e)
        /\ HistoryOK => HistoryOK'
    BY <1>2, ClusterStays
  <1>4. /\ svcStore \in 0..NewestService /\ seen \in 0..svcStore
        /\ child \in 0..lastChild /\ lastChild \in 0..seen
        /\ NewestService \in Nat /\ n \in Nat
        /\ svcDirty' \in BOOLEAN /\ svcInit' \in {"list", "sync", "done"}
    <2>1. /\ svcStore \in 0..NewestService /\ seen \in 0..svcStore
          /\ child \in 0..lastChild /\ lastChild \in 0..seen
          /\ svcDirty \in BOOLEAN /\ svcInit \in {"list", "sync", "done"}
      BY DEF WatchInv, Types, ServiceOK
    <2>2. \/ svcDirty' = FALSE /\ svcInit' = svcInit
          \/ svcInit' = "done" /\ svcDirty' = svcDirty
      BY DEF SyncService
    <2>3. svcDirty' \in BOOLEAN /\ svcInit' \in {"list", "sync", "done"}
      BY <2>1, <2>2, Zenon
    <2>4. NewestService \in Nat /\ n \in Nat
      BY DEF WatchInv, Types, HistoryOK, NewestObject, NewestService
    <2> QED
      BY <2>1, <2>3, <2>4
  <1>5. /\ watchers \in [Ids -> WatcherType(n)] /\ forward \in [Ids -> Slot(0..n)]
        /\ forward' = forward
    BY <1>2 DEF WatchInv, Types, WatchersOK
  <1>6. OwnerSpeaks'
    <2>1. CASE child' = 0
      BY <1>1, <2>1
    <2>2. CASE child' # 0
      BY <2>2 DEF OwnerSpeaks
    <2> QED
      BY <2>1, <2>2
  <1>7. Service(seen)' = Service(svcStore)
    BY <1>1, <1>2 DEF Service, clusterVars
  <1>8. CASE /\ child' = lastChild' /\ lastChild' = lastChild + 1 /\ child = 0
             /\ lastChild' \in Ids /\ lastChild' <= svcStore
             /\ watchers' = [watchers EXCEPT ![lastChild'] = NewWatcher("on")]
             /\ previous' = previous
    <2> DEFINE c == lastChild'
               new == NewWatcher("on")
    <2>1. c \in Ids /\ child' = c /\ c = lastChild + 1 /\ c <= svcStore /\ child = 0
      BY <1>8
    <2>2. /\ new \in WatcherType(n) /\ new.life = "on" /\ ~new.synced
          /\ Reading(new) /\ Passing(new, <<>>)
      BY <1>4, NewWatcherFacts
    <2>3. watchers' = [watchers EXCEPT ![c] = new]
      BY <1>8
    <2>4. forward[c] = <<>>
      <3>1. c > lastChild
        BY <1>4, <2>1
      <3> QED
        BY <1>1, <2>1, <3>1 DEF WatchInv, Lives
    <2> HIDE DEF c, new
    <2>5. /\ watchers'[c] = new /\ watchers' \in [Ids -> WatcherType(n)]
          /\ \A d \in Ids : d # c => watchers'[d] = watchers[d]
      BY <1>5, <2>1, <2>2, <2>3
    <2>6. WatchersOK'
      BY <1>3, <1>5, <2>5 DEF WatchersOK
    <2>7. ServiceOK'
      <3>1. child' \in 0..lastChild' /\ lastChild' \in 0..seen' /\ child' # 0
        BY <1>1, <1>4, <2>1 DEF c
      <3>2. svcStore' \in 0..NewestService' /\ seen' \in 0..svcStore'
        BY <1>1, <1>2, <1>3, <1>4
      <3> QED
        BY <1>4, <3>1, <3>2 DEF ServiceOK
    <2>8. Active' = c /\ Active = 0 /\ kind' = "backend"
      BY <1>1, <1>2, <2>1 DEF Active
    <2>9. Lives'
      <3> SUFFICES ASSUME NEW d \in Ids
                   PROVE  /\ watchers'[d].life = "on" <=> d = c
                          /\ watchers'[d].life = "off" =>
                               watchers'[d] = NewWatcher("off") /\ forward[d] = <<>>
                          /\ watchers'[d].life = "off" <=> d > lastChild'
        BY <1>5, <2>8 DEF Lives, NewWatcher
      <3>1. CASE d = c
        <4>1. ~(d > lastChild')
          BY <1>4, <2>1, <3>1 DEF c
        <4> QED
          BY <2>2, <2>5, <3>1, <4>1
      <3>2. CASE d # c
        <4>1. /\ watchers[d].life = "on" <=> d = 0
              /\ watchers[d].life = "off" =>
                   watchers[d] = NewWatcher("off") /\ forward[d] = <<>>
              /\ watchers[d].life = "off" <=> d > lastChild
          BY <1>1, <2>8 DEF WatchInv, Lives
        <4>2. d # 0 /\ (d > lastChild <=> d > lastChild')
          BY <1>4, <2>1, <3>2 DEF Ids, c
        <4> QED
          BY <2>5, <3>2, <4>1, <4>2
      <3> QED
        BY <3>1, <3>2
    <2>10. ChildrenOK'
      <3> SUFFICES ASSUME NEW d \in Ids
                   PROVE  /\ Reading(watchers'[d]) /\ Passing(watchers'[d], forward'[d])
                          /\ d = c => ~watchers'[d].synced
        BY <2>8 DEF ChildrenOK, Reading, Passing, MutexFree, Told
      <3>1. CASE d = c
        BY <1>5, <2>2, <2>4, <2>5, <3>1
      <3>2. CASE d # c
        BY <1>5, <2>5, <3>2, OneWatcher
      <3> QED
        BY <3>1, <3>2
    <2> QED
      BY <1>1, <1>3, <1>6, <2>6, <2>7, <2>9, <2>10 DEF WatchInv, Types
  <1>9. CASE /\ child' = child /\ lastChild' = lastChild /\ watchers' = watchers
             /\ child # 0 => previous' = previous
             /\ child = 0 => Service(svcStore).target # "pods"
    <2>1. WatchersOK'
      BY <1>3, <1>5, <1>9 DEF WatchersOK
    <2>2. ServiceOK'
      <3>1. svcStore' \in 0..NewestService' /\ seen' \in 0..svcStore'
        BY <1>1, <1>2, <1>3, <1>4
      <3>2. child' \in 0..lastChild' /\ lastChild' \in 0..seen'
        BY <1>1, <1>4, <1>9
      <3> QED
        BY <1>4, <1>7, <1>9, <3>1, <3>2 DEF ServiceOK
    <2>3. Active' = Active /\ kind' = "backend" /\ Active = child
      BY <1>1, <1>2, <1>9 DEF Active
    <2>4. Lives'
      BY <1>2, <1>5, <1>9, <2>3 DEF Lives, NewWatcher, WatchInv
    <2>5. ChildrenOK'
      <3> SUFFICES ASSUME NEW d \in Ids
                   PROVE  /\ Reading(watchers[d]) /\ Passing(watchers[d], forward[d])
                          /\ d = Active => Told(watchers[d], forward[d])'
        BY <1>5, <1>9, <2>3 DEF ChildrenOK, Reading, Passing, MutexFree
      <3>1. /\ Reading(watchers[d]) /\ Passing(watchers[d], forward[d])
            /\ d = Active => Told(watchers[d], forward[d])
        BY OneWatcher
      <3>2. ASSUME d = Active
            PROVE  Told(watchers[d], forward[d])'
        <4>1. child # 0
          BY <2>3, <3>2 DEF Ids
        <4>2. previous' = previous
          BY <1>9, <4>1
        <4> QED
          BY <1>1, <1>2, <1>3, <1>5, <1>9, <3>1, <3>2, <4>2 DEF Told, MutexFree
      <3> QED
        BY <3>1, <3>2
    <2> QED
      BY <1>1, <1>3, <1>6, <2>1, <2>2, <2>4, <2>5 DEF WatchInv, Types
  <1>10. CASE /\ child' = 0 /\ lastChild' = lastChild /\ child \in Ids
              /\ watchers' = Cancel(child)
              /\ Service(svcStore).target # "pods"
    <2> DEFINE w == watchers[child]
    <2>1. PICK w2 : w2 = [w EXCEPT !.life = "cancelled"]
      OBVIOUS
    <2>2. /\ w \in WatcherType(n) /\ Reading(w) /\ Passing(w, forward[child])
      BY <1>10, OneWatcher
    <2>3. /\ w2 \in WatcherType(n) /\ w2.life = "cancelled"
          /\ w2.ch = w.ch /\ w2.read = w.read /\ w2.synced = w.synced
          /\ w2.previous = w.previous /\ w2.store = w.store /\ w2.init = w.init
          /\ w2.dirty = w.dirty
      BY <2>1, <2>2 DEF WatcherType
    <2>4. watchers' = [watchers EXCEPT ![child] = w2]
      BY <1>10, <2>1 DEF Cancel
    <2>5. /\ watchers'[child] = w2 /\ watchers' \in [Ids -> WatcherType(n)]
          /\ \A d \in Ids : d # child => watchers'[d] = watchers[d]
      BY <1>5, <1>10, <2>3, <2>4
    <2>6. WatchersOK'
      BY <1>3, <1>5, <2>5 DEF WatchersOK
    <2>7. ServiceOK'
      <3>1. child' \in 0..lastChild' /\ lastChild' \in 0..seen'
        BY <1>1, <1>4, <1>10
      <3>2. svcStore' \in 0..NewestService' /\ seen' \in 0..svcStore'
        BY <1>1, <1>2, <1>3, <1>4
      <3> QED
        BY <1>4, <1>7, <1>10, <3>1, <3>2 DEF ServiceOK
    <2>8. Active' = 0 /\ Active = child /\ kind' = "backend"
      BY <1>1, <1>2, <1>10 DEF Active
    <2>9. Lives'
      <3> SUFFICES ASSUME NEW d \in Ids
                   PROVE  /\ watchers'[d].life # "on"
                          /\ watchers'[d].life = "off" =>
                               watchers'[d] = NewWatcher("off") /\ forward[d] = <<>>
                          /\ watchers'[d].life = "off" <=> d > lastChild
        <4>1. \A d \in Ids : d # 0
          BY DEF Ids
        <4> QED
          BY <1>5, <1>10, <2>8, <4>1 DEF Lives, NewWatcher
      <3>1. CASE d = child
        <4>1. ~(d > lastChild)
          BY <1>4, <3>1
        <4> QED
          BY <2>3, <2>5, <3>1, <4>1
      <3>2. CASE d # child
        BY <1>1, <2>5, <2>8, <3>2 DEF WatchInv, Lives
      <3> QED
        BY <3>1, <3>2
    <2>10. ChildrenOK'
      <3> SUFFICES ASSUME NEW d \in Ids
                   PROVE  Reading(watchers'[d]) /\ Passing(watchers'[d], forward[d])
        <4>1. \A d \in Ids : d # 0
          BY DEF Ids
        <4> QED
          BY <1>5, <2>8, <4>1 DEF ChildrenOK, Reading, Passing, MutexFree
      <3>1. CASE d = child
        <4>1. Reading(w2)
          BY <2>2, <2>3 DEF Reading
        <4>2. Passing(w2, forward[child])
          BY <2>2, <2>3 DEF Passing, MutexFree
        <4> QED
          BY <2>5, <3>1, <4>1, <4>2
      <3>2. CASE d # child
        BY <2>5, <3>2, OneWatcher
      <3> QED
        BY <3>1, <3>2
    <2> QED
      BY <1>1, <1>3, <1>6, <2>6, <2>7, <2>9, <2>10 DEF WatchInv, Types
  <1>11. \/ /\ child' = lastChild' /\ lastChild' = lastChild + 1 /\ child = 0
            /\ lastChild' \in Ids /\ lastChild' <= svcStore
            /\ watchers' = [watchers EXCEPT ![lastChild'] = NewWatcher("on")]
            /\ previous' = previous
         \/ /\ child' = child /\ lastChild' = lastChild /\ watchers' = watchers
            /\ child # 0 => previous' = previous
            /\ child = 0 => Service(svcStore).target # "pods"
         \/ /\ child' = 0 /\ lastChild' = lastChild /\ child \in Ids
            /\ watchers' = Cancel(child)
            /\ Service(svcStore).target # "pods"
    BY SyncChild
  <1> QED
    BY <1>8, <1>9, <1>10, <1>11

-----------------------------------------------------------------------------
(* The invariant, and what follows from it.                                *)

LEMMA WatchInit ==
  ASSUME Init
  PROVE  WatchInv
  <1>1. HistoryOK
    <2>1. PICK o \in AllObjects : objects = <<o>>
      BY DEF Init
    <2>2. PICK s \in Services \cup {Gone} : services = <<s>>
      <3>1. \/ \E s \in Services : services = <<s>>
            \/ services = <<Gone>>
        BY DEF Init
      <3> QED
        BY <3>1
    <2>3. objects \in Seq(AllObjects) /\ Len(objects) = 1
      <3> DEFINE A == AllObjects
      <3>1. o \in A
        OBVIOUS
      <3> HIDE DEF A
      <3>2. <<o>> \in Seq(A)
        BY <3>1
      <3> QED
        BY <2>1, <3>2, OneFacts DEF A
    <2>4. services \in Seq(Services \cup {Gone}) /\ Len(services) = 1
      <3> DEFINE A == Services \cup {Gone}
      <3>1. s \in A
        OBVIOUS
      <3> HIDE DEF A
      <3>2. <<s>> \in Seq(A)
        BY <3>1
      <3> QED
        BY <2>2, <3>2, OneFacts DEF A
    <2>5. kind \in Kinds /\ changes = 0 /\ MaxChanges \in Nat
      BY WatchersAssumption DEF Init
    <2> QED
      BY <2>3, <2>4, <2>5 DEF HistoryOK, NewestObject, NewestService
  <1>2. NewestObject \in Nat /\ NewestService \in Nat
    BY <1>1 DEF HistoryOK, NewestObject, NewestService
  <1>3. ASSUME NEW c \in Ids
        PROVE  /\ watchers[c] \in WatcherType(NewestObject)
               /\ Reading(watchers[c]) /\ Passing(watchers[c], <<>>)
               /\ ~watchers[c].synced
               /\ watchers[c].life = IF kind # "backend" /\ c = 1 THEN "on" ELSE "off"
               /\ watchers[c].life = "off" => watchers[c] = NewWatcher("off")
    <2> DEFINE life == IF kind # "backend" /\ c = 1 THEN "on" ELSE "off"
               w == watchers[c]
    <2>1. w = NewWatcher(life)
      BY DEF Init
    <2>2. [r \in Readers |-> <<>>] \in [Readers -> Slot(0..NewestObject)]
      BY SlotFacts
    <2> HIDE DEF w
    <2>3. w \in WatcherType(NewestObject)
      BY <1>2, <2>1, <2>2, SlotFacts DEF WatcherType, NewWatcher
    <2>4. /\ w.life = life /\ w.synced = FALSE /\ w.ch = <<>> /\ w.previous = 0
          /\ w.store = 0 /\ w.dirty = FALSE
          /\ \A r \in Readers : w.read[r] = <<>>
      BY <2>1 DEF NewWatcher
    <2>5. "handler" \in Readers
      BY DEF Readers
    <2>6. Reading(w)
      BY <2>4, <2>5 DEF Reading
    <2>7. Passing(w, <<>>)
      BY <2>4 DEF Passing
    <2> QED
      BY <2>1, <2>3, <2>4, <2>6, <2>7 DEF w
  <1>4. /\ svcStore = 0 /\ svcDirty = FALSE /\ svcInit = "list" /\ child = 0
        /\ lastChild = 0 /\ forward = [c \in Ids |-> <<>>] /\ seen = 0
        /\ previous = Nil /\ synced = FALSE /\ out = <<>> /\ ch = <<>>
        /\ hold = <<>> /\ got = <<>>
    BY DEF Init
  <1>5. WatchersOK
    <2>1. forward \in [Ids -> Slot(0..NewestObject)]
      BY <1>4, SlotFacts
    <2>2. watchers = [c \in Ids |-> watchers[c]]
      BY DEF Init
    <2> QED
      BY <1>3, <2>1, <2>2 DEF WatchersOK
  <1>6. ServiceOK
    <2>1. /\ svcStore \in 0..NewestService /\ seen \in 0..svcStore
          /\ child \in 0..lastChild /\ lastChild \in 0..seen
      BY <1>2, <1>4
    <2>2. Service(seen).target # "pods"
      BY <1>4 DEF Service, Gone
    <2>3. svcDirty \in BOOLEAN /\ svcInit \in {"list", "sync", "done"}
      BY <1>4
    <2> QED
      BY <2>1, <2>2, <2>3 DEF ServiceOK
  <1>7. PipeOK
    <2>1. <<>> \in Slot(Items)
      BY SlotFacts
    <2>2. previous \in Sources /\ synced \in BOOLEAN
      BY <1>4 DEF Sources
    <2> QED
      BY <1>4, <2>1, <2>2 DEF PipeOK
  <1>8. Idle
    BY <1>4 DEF Idle
  <1>9. Lives
    <2>1. \A c \in Ids : c > 0 /\ c # 0
      BY DEF Ids
    <2>2. Active = IF kind = "backend" THEN 0 ELSE 1
      BY <1>4 DEF Active
    <2> QED
      BY <1>3, <1>4, <2>1, <2>2 DEF Lives
  <1>10. ChildrenOK
    BY <1>3, <1>4 DEF ChildrenOK, Told
  <1>11. FinalOK /\ OwnerSpeaks
    BY <1>4 DEF FinalOK, OwnerSpeaks
  <1> QED
    BY <1>1, <1>5, <1>6, <1>7, <1>8, <1>9, <1>10, <1>11 DEF WatchInv, Types

LEMMA WatchStutters ==
  ASSUME WatchInv, UNCHANGED vars
  PROVE  WatchInv'
  <1>1. UNCHANGED <<kind, clusterVars, watchers, child, lastChild, forward, seen,
                    previous, synced, out, ch, hold, got, svcStore, svcDirty, svcInit>>
    BY DEF vars, serviceVars, backendVars
  <1>2. /\ NewestService' = NewestService /\ Items' = Items /\ Sources' = Sources
        /\ \A v : Service(v)' = Service(v)
    BY <1>1, ClusterStays
  <1>3. Service(seen)' = Service(seen)
    BY <1>1 DEF Service, clusterVars
  <1>4. ServiceOK'
    BY <1>1, <1>2, <1>3 DEF ServiceOK, WatchInv, Types
  <1>5. PipeOK'
    BY <1>1, <1>2 DEF PipeOK, WatchInv, Types
  <1>6. Idle' /\ Final' = Final /\ Latest' = Latest
    BY <1>1 DEF Idle, Final, Latest, WatchInv
  <1> QED
    BY <1>1, <1>4, <1>5, <1>6, PipeStep

LEMMA WatchNext ==
  ASSUME WatchInv, [Next]_vars
  PROVE  WatchInv'
  <1>1. CASE Change
    BY <1>1, ChangeWatch
  <1>2. ASSUME NEW c \in Ids, InformerLists(c) \/ InformerNotifies(c)
        PROVE  WatchInv'
    BY <1>2, InformerStep
  <1>3. ASSUME NEW c \in Ids, NEW r \in Readers, SyncReads(c, r)
        PROVE  WatchInv'
    BY <1>3, SyncReadsStep
  <1>4. ASSUME NEW c \in Ids, NEW r \in Readers, SyncSends(c, r)
        PROVE  WatchInv'
    BY <1>4, SyncSendsStep
  <1>5. ASSUME NEW c \in Ids, ForwardTakes(c)
        PROVE  WatchInv'
    BY <1>5, ForwardTakesStep
  <1>6. ASSUME NEW c \in Ids, SendFromChild(c)
        PROVE  WatchInv'
    BY <1>6, SendFromChildStep
  <1>7. CASE ServiceInformer
    BY <1>7, ServiceInformerStep
  <1>8. CASE SyncService
    BY <1>8, SyncServiceStep
  <1>9. CASE Send
    BY <1>9, SendStep
  <1>10. CASE BackendFanIn \/ LoopReads
    BY <1>10, FanInStep
  <1>11. CASE DirectFanIn
    BY <1>11, DirectFanInStep
  <1>12. CASE UNCHANGED vars
    BY <1>12, WatchStutters
  <1> QED
    BY <1>1, <1>2, <1>3, <1>4, <1>5, <1>6, <1>7, <1>8, <1>9, <1>10, <1>11, <1>12
    DEF Next, Step

\* The inductive invariant: what each watcher has read, has sent and has
\* forwarded is in order, and when nothing is on the way the reader has it.
THEOREM WatchInductive == Spec => []WatchInv
  <1>1. Init => WatchInv
    BY WatchInit
  <1>2. WatchInv /\ [Next]_vars => WatchInv'
    BY WatchNext
  <1> QED
    BY <1>1, <1>2, PTL DEF Spec

\* A watcher compares the next value with the one its reader will have seen
\* last, so that none is suppressed as known while an older one replaces it, and
\* without a child the endpoints are those of the Service itself.
THEOREM ReaderIsCurrent == Spec => []ReaderCurrent
  <1>1. WatchInv => ReaderCurrent
    <2> SUFFICES ASSUME WatchInv
                 PROVE  BaselineIsLatest
      BY DEF ReaderCurrent, WatchInv
    <2>1. kind = "backend" /\ synced /\ out = <<>> =>
            Same(Latest, Endpoints(previous), seen)
      BY DEF WatchInv, FinalOK, Final
    <2>2. ASSUME NEW c \in Ids, watchers[c].life = "on", watchers[c].synced,
                 MutexFree(watchers[c])
          PROVE  SentLast(c) = View(watchers[c].previous)
      <3>1. c = Active
        BY <2>2, OneWatcher
      <3>2. /\ Told(watchers[c], forward[c]) /\ Passing(watchers[c], forward[c])
        BY <3>1, OneWatcher
      <3>3. CASE watchers[c].ch # <<>>
        BY <2>2, <3>2, <3>3 DEF SentLast, Passing
      <3>4. CASE watchers[c].ch = <<>> /\ forward[c] # <<>>
        BY <2>2, <3>2, <3>4 DEF SentLast, Passing
      <3>5. CASE watchers[c].ch = <<>> /\ forward[c] = <<>>
        BY <2>2, <3>2, <3>5 DEF SentLast, Told
      <3> QED
        BY <3>3, <3>4, <3>5
    <2> QED
      BY <2>1, <2>2 DEF BaselineIsLatest
  <1> QED
    BY <1>1, WatchInductive, PTL

\* What the variables range over.
THEOREM WatcherTypes == Spec => []TypeOK
  <1>1. WatchInv => TypeOK
    <2> SUFFICES ASSUME WatchInv
                 PROVE  TypeOK
      OBVIOUS
    <2>1. /\ NewestObject \in Nat /\ NewestService \in Nat /\ MaxChanges \in Nat
          /\ NewestObject <= MaxChanges + 1 /\ NewestService <= MaxChanges + 1
          /\ Len(objects) + Len(services) = changes + 2
      <3>1. /\ NewestObject \in Nat /\ NewestService \in Nat
            /\ NewestObject >= 1 /\ NewestService >= 1
            /\ NewestObject + NewestService = changes + 2
            /\ changes \in 0..MaxChanges /\ MaxChanges \in Nat
        BY WatchersAssumption
        DEF WatchInv, Types, HistoryOK, NewestObject, NewestService
      <3> QED
        BY <3>1 DEF NewestObject, NewestService
    <2>2. Cardinality(Ids) = MaxChanges + 1
      BY <2>1, FS_Interval DEF Ids
    <2>3. Sources \subseteq SourceType
      <3>1. 0..NewestService \subseteq Versions /\ 0..NewestObject \subseteq Versions
            /\ 0 \in Versions
        BY <2>1 DEF Versions
      <3> QED
        BY <3>1 DEF Sources, SourceType, Nil, OfService, OfSlices
    <2>4. Items \subseteq SnapshotType
      <3>1. 0..NewestService \subseteq Versions
        BY <2>1 DEF Versions
      <3> QED
        BY <2>3, <3>1 DEF Items, SnapshotType
    <2>5. \A q \in Slot(Items) : q \in Seq(SnapshotType) /\ Len(q) <= 1
      <3> SUFFICES ASSUME NEW q \in Slot(Items)
                   PROVE  q \in Seq(SnapshotType) /\ Len(q) <= 1
        OBVIOUS
      <3>1. CASE q = <<>>
        BY <3>1
      <3>2. ASSUME NEW x \in Items, q = <<x>>
            PROVE  q \in Seq(SnapshotType) /\ Len(q) <= 1
        <4> DEFINE T == SnapshotType
        <4>1. x \in T
          BY <2>4
        <4> HIDE DEF T
        <4> QED
          BY <3>2, <4>1, OneFacts DEF T
      <3> QED
        BY <3>1, <3>2 DEF Slot
    <2>6. out \in Seq(SnapshotType) /\ Len(out) <= 2
      <3>1. ASSUME NEW x \in Items, NEW y \in Items, out = <<x, y>>
            PROVE  out \in Seq(SnapshotType) /\ Len(out) <= 2
        <4> DEFINE T == SnapshotType
        <4>1. x \in T /\ y \in T
          BY <2>4
        <4> HIDE DEF T
        <4> QED
          BY <3>1, <4>1, TwoFacts DEF T
      <3>2. CASE out \in Slot(Items)
        <4>1. out \in Seq(SnapshotType) /\ Len(out) <= 1
          BY <2>5, <3>2
        <4>2. Len(out) \in Nat
          BY <4>1
        <4> QED
          BY <4>1, <4>2
      <3> QED
        BY <3>1, <3>2, PipeFacts DEF Slot
    <2>7. \A q \in {ch, hold, got} : q \in Seq(SnapshotType) /\ Len(q) <= 1
      BY <2>5 DEF WatchInv, Types, PipeOK
    <2>8. ASSUME NEW c \in Ids
          PROVE  /\ watchers[c].life \in {"off", "on", "cancelled"}
                 /\ watchers[c].init \in {"list", "sync", "done"}
                 /\ watchers[c].store \in 0..NewestObject
                 /\ watchers[c].previous \in 0..NewestObject
                 /\ Len(watchers[c].ch) <= 1 /\ Len(forward[c]) <= 1
      <3>1. /\ watchers[c] \in WatcherType(NewestObject)
            /\ forward[c] \in Slot(0..NewestObject)
        BY OneWatcher
      <3>2. \A q \in Slot(0..NewestObject) : Len(q) <= 1
        <4>1. Len(<<>>) <= 1 /\ \A x : Len(<<x>>) <= 1
          BY OneFacts
        <4> QED
          BY <4>1 DEF Slot
      <3> QED
        BY <3>1, <3>2 DEF WatcherType
    <2>9. /\ svcStore \in 0..NewestService /\ seen \in 0..svcStore
          /\ svcInit \in {"list", "sync", "done"}
          /\ child \in 0..lastChild /\ lastChild \in 0..Cardinality(Ids)
      <3>1. /\ svcStore \in 0..NewestService /\ seen \in 0..svcStore
            /\ svcInit \in {"list", "sync", "done"}
            /\ child \in 0..lastChild /\ lastChild \in 0..seen
        BY DEF WatchInv, Types, ServiceOK
      <3>2. lastChild \in 0..(MaxChanges + 1)
        BY <2>1, <3>1
      <3> QED
        BY <2>2, <3>1, <3>2
    <2>10. /\ kind \in Kinds /\ previous \in SourceType
           /\ objects \in Seq(AllObjects) /\ services \in Seq(Services \cup {Gone})
      BY <2>3 DEF WatchInv, Types, HistoryOK, PipeOK
    <2> QED
      BY <2>1, <2>6, <2>7, <2>8, <2>9, <2>10 DEF TypeOK
  <1> QED
    BY <1>1, WatchInductive, PTL

-----------------------------------------------------------------------------
(* Nothing overtakes.                                                      *)

LEMMA ItemFacts ==
  ASSUME WatchInv, NEW x \in SnapshotType,
         Pending(x) \/ ch = <<x>> \/ hold = <<x>> \/ got = <<x>>
  PROVE  /\ x.eps \in Sources /\ x.svc \in Nat /\ x.eps.at \in Nat
         /\ Pending(x) => kind = "backend"
  <1>1. x \in Items
    <2>1. \A q \in Slot(Items) : \A y : q = <<y>> => y \in Items
      BY OneFacts DEF Slot
    <2>2. ASSUME NEW y, NEW z, out = <<y, z>>
          PROVE  y \in Items /\ z \in Items
      <3>1. \A a, b : <<y, z>> # <<>> /\ Len(<<y, z>>) = 2 /\ Len(<<a>>) = 1
        BY TwoFacts, OneFacts
      <3>2. PICK a \in Items, b \in Items : out = <<a, b>>
        BY <2>2, <3>1, PipeFacts
      <3>3. y = a /\ z = b
        BY <2>2, <3>2, TwoFacts
      <3> QED
        BY <3>3
    <2>3. ASSUME out = <<x>>
          PROVE  x \in Items
      <3>1. \A a, b : <<x>> # <<>> /\ Len(<<a, b>>) = 2 /\ Len(<<x>>) = 1
        BY TwoFacts, OneFacts
      <3>2. PICK a \in Items : out = <<a>>
        BY <2>3, <3>1, PipeFacts
      <3> QED
        BY <2>3, <3>2, OneFacts
    <2> QED
      BY <2>1, <2>2, <2>3 DEF Pending, WatchInv, Types, PipeOK
  <1>2. /\ x.eps \in Sources /\ x.svc \in 0..NewestService
    BY <1>1 DEF Items
  <1>3. x.svc \in Nat /\ x.eps.at \in Nat
    BY DEF SnapshotType, SourceType, Versions
  <1>4. Pending(x) => kind = "backend"
    <2>1. \A y : <<x>> # <<>> /\ <<x, y>> # <<>> /\ <<y, x>> # <<>>
      BY OneFacts, TwoFacts
    <2>2. Pending(x) => out # <<>>
      BY <2>1 DEF Pending
    <2> QED
      BY <2>2 DEF WatchInv, Idle
  <1> QED
    BY <1>2, <1>3, <1>4

LEMMA SourceFacts ==
  ASSUME NEW e \in Sources
  PROVE  /\ e.of \in {"nobody", "service", "slices"}
         /\ e.of = "nobody" <=> e = Nil
         /\ e.of = "service" => e.at \in 0..NewestService
         /\ e.of = "slices" => e.at \in 0..NewestObject
  <1>1. CASE e = Nil
    BY <1>1 DEF Nil
  <1>2. ASSUME NEW v \in 0..NewestService, e = OfService(v)
        PROVE  e.of = "service" /\ e.at = v /\ e # Nil
    BY <1>2 DEF OfService, Nil
  <1>3. ASSUME NEW v \in 0..NewestObject, e = OfSlices(v)
        PROVE  e.of = "slices" /\ e.at = v /\ e # Nil
    BY <1>3 DEF OfSlices, Nil
  <1> QED
    BY <1>1, <1>2, <1>3 DEF Sources, Nil

LEMMA ActiveFacts ==
  ASSUME WatchInv, Active # 0
  PROVE  Active \in Ids
  <1>1. /\ svcStore \in 0..NewestService /\ seen \in 0..svcStore
        /\ child \in 0..lastChild /\ lastChild \in 0..seen
    BY DEF WatchInv, Types, ServiceOK
  <1>2. /\ NewestObject \in Nat /\ NewestService \in Nat
        /\ NewestObject >= 1 /\ NewestObject + NewestService = changes + 2
        /\ changes \in 0..MaxChanges /\ MaxChanges \in Nat
    BY WatchersAssumption DEF WatchInv, Types, HistoryOK, NewestObject, NewestService
  <1>3. Active = child \/ Active = 1
    BY DEF Active
  <1> QED
    BY <1>1, <1>2, <1>3 DEF Ids

\* No version becomes newer than what a watcher sends next.
Onward(w, f, w2, f2, n) == \A v \in 0..n : Covers(w, f, v) => Covers(w2, f2, v)

LEMMA OrderStays ==
  ASSUME WatchInv, OrderInv, UNCHANGED <<kind, child, seen>>,
         Active # 0 => Onward(watchers[Active], forward[Active],
                              watchers'[Active], forward'[Active], NewestObject)
  PROVE  /\ \A e \in Sources : Behind(e) => Behind(e)'
         /\ UNCHANGED <<previous, out, ch, hold, got>> => OrderInv'
  <1>1. Active' = Active
    BY DEF Active
  <1>2. ASSUME NEW e \in Sources, Behind(e)
        PROVE  Behind(e)'
    <2>1. e.of = "service" => e.at <= seen'
      BY <1>2 DEF Behind
    <2>2. ASSUME e.of = "slices", Active # 0
          PROVE  Covers(watchers'[Active], forward'[Active], e.at)
      <3>1. e.at \in 0..NewestObject
        BY <2>2, SourceFacts
      <3> QED
        BY <1>2, <2>2, <3>1 DEF Behind, Onward
    <2> QED
      BY <1>1, <2>1, <2>2 DEF Behind, Covers
  <1>3. ASSUME UNCHANGED <<previous, out, ch, hold, got>>
        PROVE  OrderInv'
    <2>1. InOrder'
      BY <1>3 DEF OrderInv, InOrder, Pending
    <2>2. AllKnown'
      <3> SUFFICES ASSUME NEW x \in SnapshotType,
                          Pending(x) \/ ch = <<x>> \/ hold = <<x>> \/ got = <<x>>
                   PROVE  Known(x)'
        BY <1>3 DEF AllKnown, Pending
      <3>1. Known(x) /\ x.eps \in Sources
        BY ItemFacts DEF OrderInv, AllKnown
      <3>2. Behind(x.eps)'
        BY <1>2, <3>1 DEF Known
      <3> QED
        BY <1>3, <3>1, <3>2 DEF Known
    <2>3. Behind(previous)'
      <3>1. PICK p : p = previous
        OBVIOUS
      <3>2. Behind(p)'
        BY <1>2, <3>1 DEF OrderInv, WatchInv, Types, PipeOK
      <3> QED
        BY <1>3, <3>1, <3>2 DEF Behind, Active, Covers
    <2> QED
      BY <2>1, <2>2, <2>3 DEF OrderInv
  <1> QED
    BY <1>2, <1>3

\* One watcher of objects goes on.
LEMMA OneMoves ==
  ASSUME WatchInv, OrderInv, NEW c \in Ids, NEW w2, NEW f2,
         watchers' = [watchers EXCEPT ![c] = w2],
         forward' = [forward EXCEPT ![c] = f2],
         UNCHANGED <<kind, child, seen>>,
         c = Active => Onward(watchers[c], forward[c], w2, f2, NewestObject)
  PROVE  /\ \A e \in Sources : Behind(e) => Behind(e)'
         /\ UNCHANGED <<previous, out, ch, hold, got>> => OrderInv'
  <1>1. /\ watchers'[c] = w2 /\ forward'[c] = f2
        /\ \A d \in Ids : d # c => watchers'[d] = watchers[d] /\ forward'[d] = forward[d]
    BY DEF WatchInv, Types, WatchersOK
  <1>2. \A w, f : Onward(w, f, w, f, NewestObject)
    BY DEF Onward
  <1>3. Active # 0 => Onward(watchers[Active], forward[Active],
                             watchers'[Active], forward'[Active], NewestObject)
    BY <1>1, <1>2, ActiveFacts
  <1> QED
    BY <1>3, OrderStays

LEMMA OrderInformer ==
  ASSUME WatchInv, OrderInv, NEW c \in Ids, InformerLists(c) \/ InformerNotifies(c)
  PROVE  OrderInv'
  <1> DEFINE w == watchers[c]
             f == forward[c]
             n == NewestObject
  <1>1. /\ UNCHANGED <<kind, child, seen, previous, out, ch, hold, got>>
        /\ forward' = [forward EXCEPT ![c] = f]
    BY DEF InformerLists, InformerNotifies, backendVars, WatchInv, Types, WatchersOK
  <1>2. w \in WatcherType(n) /\ n \in Nat
    BY OneWatcher
  <1>3. PICK w2 : watchers' = [watchers EXCEPT ![c] = w2] /\ Onward(w, f, w2, f, n)
    <2>1. CASE InformerLists(c)
      <3>1. PICK w2 : w2 = [w EXCEPT !.store = n, !.init = "sync",
                                     !.dirty = Object(n).exists]
        OBVIOUS
      <3>2. watchers' = [watchers EXCEPT ![c] = w2]
        BY <2>1, <3>1 DEF InformerLists
      <3>3. /\ w2.store = n /\ w2.synced = w.synced /\ w2.previous = w.previous
            /\ w2.ch = w.ch
        BY <1>2, <3>1 DEF WatcherType
      <3> HIDE DEF n
      <3>4. Onward(w, f, w2, f, n)
        BY <1>2, <3>3 DEF Onward, Covers
      <3> QED
        BY <3>2, <3>4
    <2>2. CASE InformerNotifies(c)
      <3>1. PICK w2 : w2 = [w EXCEPT !.store = w.store + 1, !.dirty = TRUE]
        OBVIOUS
      <3>2. watchers' = [watchers EXCEPT ![c] = w2] /\ w.init # "list"
        BY <2>2, <3>1 DEF InformerNotifies
      <3>3. /\ w2.store = w.store + 1 /\ w2.synced = w.synced
            /\ w2.previous = w.previous /\ w2.ch = w.ch /\ w.store \in 0..n
        BY <1>2, <3>1 DEF WatcherType
      <3> HIDE DEF n
      <3>4. Onward(w, f, w2, f, n)
        <4> SUFFICES ASSUME NEW v \in 0..n, Covers(w, f, v)
                     PROVE  Covers(w2, f, v)
          BY DEF Onward
        <4>1. v <= w.store + 1
          BY <1>2, <3>2, <3>3 DEF Covers
        <4> QED
          BY <3>3, <4>1 DEF Covers
      <3> QED
        BY <3>2, <3>4
    <2> QED
      BY <2>1, <2>2
  <1> HIDE DEF n
  <1> QED
    BY <1>1, <1>3, OneMoves DEF n

LEMMA OrderSyncReads ==
  ASSUME WatchInv, OrderInv, NEW c \in Ids, NEW r \in Readers, SyncReads(c, r)
  PROVE  OrderInv'
  <1> DEFINE w == watchers[c]
             f == forward[c]
             n == NewestObject
             same == w.synced /\ View(w.store) = View(w.previous)
  <1>1. /\ UNCHANGED <<kind, child, seen, previous, out, ch, hold, got>>
        /\ forward' = [forward EXCEPT ![c] = f]
    BY DEF SyncReads, backendVars, WatchInv, Types, WatchersOK
  <1>2. w \in WatcherType(n) /\ n \in Nat /\ Reading(w) /\ (c = Active => w.life = "on")
    BY OneWatcher
  <1>3. PICK w2 : w2 = IF same THEN Marked(w, r) ELSE Loaded(w, r)
    OBVIOUS
  <1>4. watchers' = [watchers EXCEPT ![c] = w2] /\ Wants(w, r)
    BY <1>3 DEF SyncReads, Marked, Loaded
  <1>5. ASSUME c = Active
        PROVE  Onward(w, f, w2, f, n)
    <2>1. w.init # "list"
      BY <1>2, <1>4, <1>5 DEF Wants, Reading
    <2>2. /\ Marked(w, r) \in WatcherType(n) /\ Marked(w, r).store = w.store
          /\ Marked(w, r).synced = w.synced /\ Marked(w, r).previous = w.previous
          /\ Marked(w, r).ch = w.ch
      BY <1>2 DEF Marked, WatcherType
    <2>3. /\ w2.store = w.store /\ w2.ch = w.ch
          /\ \/ w2.synced = w.synced /\ w2.previous = w.previous
             \/ w2.previous = w.store
      BY <1>3, <2>2 DEF Loaded, WatcherType
    <2> HIDE DEF w, n, f
    <2> QED
      BY <2>1, <2>3 DEF Onward, Covers
  <1> HIDE DEF n
  <1> QED
    BY <1>1, <1>4, <1>5, OneMoves DEF n

LEMMA OrderSyncSends ==
  ASSUME WatchInv, OrderInv, NEW c \in Ids, NEW r \in Readers, SyncSends(c, r)
  PROVE  OrderInv'
  <1> DEFINE w == watchers[c]
             f == forward[c]
             n == NewestObject
  <1>1. /\ UNCHANGED <<kind, child, seen, previous, out, ch, hold, got>>
        /\ forward' = [forward EXCEPT ![c] = f] /\ w.read[r] # <<>>
    BY DEF SyncSends, backendVars, WatchInv, Types, WatchersOK
  <1>2. /\ w \in WatcherType(n) /\ n \in Nat /\ Reading(w) /\ Passing(w, f)
        /\ f \in Slot(0..n)
    BY OneWatcher
  <1>3. PICK w2 : w2 = Unloaded(w, r)
    OBVIOUS
  <1>4. watchers' = [watchers EXCEPT ![c] = w2]
    BY <1>3 DEF SyncSends, Unloaded
  <1>5. Onward(w, f, w2, f, n)
    <2> HIDE DEF w, n, f
    <2>1. /\ w2.ch = <<w.previous>> /\ w2.store = w.store /\ w2.previous = w.previous
          /\ w2.synced = w.synced /\ w2.init = w.init
      BY <1>1, <1>2, <1>3, SentRecord
    <2>2. w.synced /\ Head(w2.ch) = w.previous
      BY <1>1, <1>2, <2>1, OneFacts DEF Reading
    <2> QED
      BY <2>1, <2>2 DEF Onward, Covers
  <1> HIDE DEF n
  <1> QED
    BY <1>1, <1>4, <1>5, OneMoves DEF n

LEMMA OrderForwardTakes ==
  ASSUME WatchInv, OrderInv, NEW c \in Ids, ForwardTakes(c)
  PROVE  OrderInv'
  <1> DEFINE w == watchers[c]
             f == forward[c]
             n == NewestObject
  <1>1. PICK w2 : w2 = [w EXCEPT !.ch = <<>>]
    OBVIOUS
  <1>2. w \in WatcherType(n) /\ n \in Nat
    BY OneWatcher
  <1>3. /\ UNCHANGED <<kind, child, seen, previous, out, ch, hold, got>>
        /\ forward' = [forward EXCEPT ![c] = w.ch] /\ w.ch # <<>>
        /\ watchers' = [watchers EXCEPT ![c] = w2]
    BY <1>1 DEF ForwardTakes
  <1>4. /\ w2.ch = <<>> /\ w2.store = w.store /\ w2.previous = w.previous
        /\ w2.synced = w.synced /\ w2.init = w.init
    BY <1>1, <1>2 DEF WatcherType
  <1>5. Onward(w, f, w2, w.ch, n)
    BY <1>3, <1>4 DEF Onward, Covers
  <1> HIDE DEF n
  <1> QED
    BY <1>3, <1>5, OneMoves DEF n

\* A value that was taken joins the channels at their end.
LEMMA OrderSendFromChild ==
  ASSUME WatchInv, OrderInv, NEW c \in Ids, SendFromChild(c)
  PROVE  OrderInv'
  <1> DEFINE w == watchers[c]
             f == forward[c]
             n == NewestObject
             eps == OfSlices(Head(f))
  <1>1. /\ w \in WatcherType(n) /\ n \in Nat /\ f \in Slot(0..n)
        /\ Reading(w) /\ Passing(w, f)
    BY OneWatcher
  <1>2. /\ f # <<>> /\ out = <<>>
        /\ forward' = [forward EXCEPT ![c] = <<>>]
        /\ UNCHANGED <<kind, clusterVars, watchers, serviceVars, child, lastChild,
                       seen, ch, hold, got>>
        /\ IF child = c THEN out' = Sent(eps, seen) /\ Remember(eps)
                        ELSE UNCHANGED <<out, previous, synced>>
    BY DEF SendFromChild, IsActive
  <1>3. kind = "backend" /\ Active = child
    BY <1>2 DEF WatchInv, Idle, Active
  <1>4. watchers' = [watchers EXCEPT ![c] = w]
    BY <1>2 DEF WatchInv, Types, WatchersOK
  <1>5. Onward(w, f, w, <<>>, n)
    BY DEF Onward, Covers
  <1>6. UNCHANGED <<kind, child, seen>>
    BY <1>2
  <1>7. /\ \A e \in Sources : Behind(e) => Behind(e)'
        /\ UNCHANGED <<previous, out, ch, hold, got>> => OrderInv'
    <2> HIDE DEF n
    <2> QED
      BY <1>2, <1>4, <1>5, <1>6, OneMoves DEF n
  <1>8. CASE UNCHANGED <<previous, out>>
    BY <1>2, <1>7, <1>8
  <1>9. CASE child = c /\ out' = <<Snapshot(eps, seen)>> /\ previous' = eps
    <2>1. Head(f) \in 0..n
      BY <1>1, <1>2, SlotFacts
    <2>2. PICK e, x : e = eps /\ x = Snapshot(eps, seen)
      OBVIOUS
    <2>3. /\ e.of = "slices" /\ e.at = Head(f) /\ e.at \in Nat /\ e \in Sources
          /\ x.eps = e /\ x.svc = seen /\ out' = <<x>> /\ previous' = e
      BY <1>1, <1>9, <2>1, <2>2 DEF OfSlices, Snapshot, Sources
    <2>4. c = Active /\ Active # 0 /\ Active' = Active
      BY <1>2, <1>3, <1>9 DEF Ids, Active
    <2>5. Covers(w, <<>>, e.at)
      <3>1. e.at <= w.previous
        BY <1>1, <1>2, <2>3 DEF Passing
      <3>2. e.at <= w.store
        BY <1>1, <2>3, <3>1 DEF Reading, WatcherType
      <3>3. w.ch # <<>> => e.at <= Head(w.ch)
        BY <1>1, <1>2, <2>3 DEF Passing
      <3> QED
        BY <3>1, <3>2, <3>3 DEF Covers
    <2>6. Behind(e)'
      <3>1. forward'[c] = <<>> /\ watchers'[c] = w
        BY <1>2 DEF WatchInv, Types, WatchersOK
      <3>2. Covers(watchers'[c], forward'[c], e.at)
        BY <2>5, <3>1
      <3> QED
        BY <2>3, <2>4, <3>2 DEF Behind, Covers
    <2>7. ASSUME NEW y \in SnapshotType, Known(y), y.eps \in Sources
          PROVE  /\ Known(y)' /\ Older(y, x)
      <3>1. Behind(y.eps)'
        BY <1>7, <2>7 DEF Known
      <3>2. ASSUME y.eps.of = "slices"
            PROVE  y.eps.at <= e.at
        <4>1. Covers(w, f, y.eps.at)
          BY <2>4, <2>7, <3>2 DEF Known, Behind
        <4> QED
          BY <1>2, <2>3, <4>1 DEF Covers
      <3>3. Known(y)'
        BY <1>2, <2>3, <2>7, <3>1, <3>2 DEF Known
      <3>4. Older(y, x)
        BY <2>3, <2>7, <3>2 DEF Known, Older
      <3> QED
        BY <3>3, <3>4
    <2>8. /\ Known(x)'
      <3>1. seen \in Nat
        BY PipeFacts
      <3> QED
        BY <1>2, <2>3, <2>6, <3>1 DEF Known
    <2>9. \A y \in SnapshotType : Pending(y)' <=> y = x
      <3>1. \A y, z : <<x>> # <<y, z>> /\ (<<x>> = <<y>> <=> x = y)
        <4>1. \A y, z : Len(<<x>>) = 1 /\ Len(<<y, z>>) = 2 /\ <<y>>[1] = y /\ <<x>>[1] = x
          BY OneFacts, TwoFacts
        <4> QED
          BY <4>1
      <3> QED
        BY <2>3, <3>1 DEF Pending
    <2>10. \A y \in SnapshotType : ~Pending(y)
      <3>1. \A y, z : <<>> # <<y>> /\ <<>> # <<y, z>>
        BY OneFacts, TwoFacts
      <3> QED
        BY <1>2, <3>1 DEF Pending
    <2> HIDE DEF eps
    <2>11. AllKnown'
      <3> SUFFICES ASSUME NEW y \in SnapshotType,
                          y = x \/ ch = <<y>> \/ hold = <<y>> \/ got = <<y>>
                   PROVE  Known(y)'
        BY <1>2, <2>9 DEF AllKnown
      <3>1. CASE y = x
        BY <2>8, <3>1 DEF Known, Behind, Covers, Active
      <3>2. CASE ch = <<y>> \/ hold = <<y>> \/ got = <<y>>
        BY <2>7, <3>2, ItemFacts DEF OrderInv, AllKnown
      <3> QED
        BY <3>1, <3>2
    <2>12. \A y \in SnapshotType :
             ch = <<y>> \/ hold = <<y>> \/ got = <<y>> => Older(y, x)
      BY <2>7, ItemFacts DEF OrderInv, AllKnown
    <2>13. InOrder'
      <3>1. \A y, z : out' # <<y, z>>
        BY <2>3, OneFacts, TwoFacts
      <3>2. ASSUME NEW y \in SnapshotType, NEW z \in SnapshotType
            PROVE  /\ out' = <<y, z>> => Older(y, z)
                   /\ ch = <<y>> /\ z = x => Older(y, z)
                   /\ hold = <<y>> /\ (ch = <<z>> \/ z = x) => Older(y, z)
                   /\ got = <<y>> /\ (hold = <<z>> \/ ch = <<z>> \/ z = x)
                        => Older(y, z)
        BY <2>12, <3>1 DEF OrderInv, InOrder
      <3> QED
        BY <1>2, <2>9, <3>2 DEF InOrder
    <2>14. Behind(previous)'
      BY <2>3, <2>6 DEF Behind, Covers, Active
    <2> QED
      BY <2>11, <2>13, <2>14 DEF OrderInv
  <1>10. CASE child = c /\ ~UNCHANGED <<previous, out>>
    <2> HIDE DEF eps
    <2>1. out' = Sent(eps, seen) /\ Remember(eps)
      BY <1>2, <1>10
    <2>2. \/ Sent(eps, seen) = <<>> /\ previous' = previous
          \/ Sent(eps, seen) = <<Snapshot(eps, seen)>> /\ previous' = eps
      BY <2>1, Remembered
    <2> QED
      BY <1>2, <1>9, <1>10, <2>1, <2>2
  <1>11. child # c => UNCHANGED <<previous, out>>
    BY <1>2
  <1> QED
    BY <1>8, <1>10, <1>11

\* Tuples are equal when their members are.
LEMMA TupleFacts ==
  \A x, y, z, u :
    /\ <<x>> = <<y>> <=> x = y
    /\ <<x, y>> = <<z, u>> <=> x = z /\ y = u
    /\ <<x>> # <<y, z>> /\ <<>> # <<x>> /\ <<>> # <<x, y>>
  <1>1. \A x, y : /\ Len(<<x>>) = 1 /\ <<x>>[1] = x /\ Len(<<x, y>>) = 2
                  /\ <<x, y>>[1] = x /\ <<x, y>>[2] = y
                  /\ <<>> # <<x>> /\ <<>> # <<x, y>>
    BY OneFacts, TwoFacts
  <1>2. \A x, y : <<x>> = <<y>> <=> x = y
    BY <1>1
  <1>3. \A x, y, z, u : <<x, y>> = <<z, u>> <=> x = z /\ y = u
    BY <1>1
  <1>4. \A x, y, z : <<x>> # <<y, z>>
    BY <1>1
  <1> QED
    BY <1>1, <1>2, <1>3, <1>4

LEMMA ItemsTyped ==
  ASSUME WatchInv
  PROVE  Items \subseteq SnapshotType
  <1>1. /\ NewestObject \in Nat /\ NewestService \in Nat
        /\ NewestObject >= 1 /\ NewestService >= 1
        /\ NewestObject + NewestService = changes + 2
        /\ changes \in 0..MaxChanges /\ MaxChanges \in Nat
    BY WatchersAssumption DEF WatchInv, Types, HistoryOK, NewestObject, NewestService
  <1>2. 0..NewestService \subseteq Versions /\ 0..NewestObject \subseteq Versions
        /\ 0 \in Versions
    BY <1>1 DEF Versions
  <1> QED
    BY <1>2 DEF Items, SnapshotType, Sources, SourceType, Nil, OfService, OfSlices

LEMMA OrderSend ==
  ASSUME WatchInv, OrderInv, Send
  PROVE  OrderInv'
  <1>1. UNCHANGED <<kind, watchers, child, forward, seen, previous, hold, got>>
    BY DEF Send
  <1>2. Items \subseteq SnapshotType
    BY ItemsTyped
  <1>3. \A x : Known(x)' <=> Known(x)
    BY <1>1 DEF Known, Behind, Active, Covers
  <1>4. Behind(previous)'
    BY <1>1 DEF OrderInv, Behind, Active, Covers
  <1>5. \/ \E x \in Items : out = <<x>> /\ out' = <<>> /\ ch' = <<x>>
        \/ \E x \in Items, y \in Items : out = <<x, y>> /\ out' = <<y>> /\ ch' = <<x>>
    BY SendStep
  <1>6. ASSUME NEW x \in SnapshotType, out = <<x>>, out' = <<>>, ch' = <<x>>
        PROVE  AllKnown' /\ InOrder'
    <2>1. /\ \A y \in SnapshotType : ~Pending(y)' /\ (ch' = <<y>> <=> y = x)
          /\ Pending(x)
          /\ \A y, z \in SnapshotType : out' # <<y, z>>
      BY <1>6, TupleFacts DEF Pending
    <2>2. AllKnown'
      BY <1>1, <1>3, <2>1 DEF AllKnown, OrderInv
    <2>3. InOrder'
      BY <1>1, <2>1 DEF InOrder, OrderInv
    <2> QED
      BY <2>2, <2>3
  <1>7. ASSUME NEW x \in SnapshotType, NEW y \in SnapshotType,
               out = <<x, y>>, out' = <<y>>, ch' = <<x>>
        PROVE  AllKnown' /\ InOrder'
    <2>1. /\ \A z \in SnapshotType : (Pending(z)' <=> z = y) /\ (ch' = <<z>> <=> z = x)
          /\ Pending(x) /\ Pending(y)
          /\ \A z, u \in SnapshotType : out' # <<z, u>>
      BY <1>7, TupleFacts DEF Pending
    <2>2. AllKnown'
      BY <1>1, <1>3, <2>1 DEF AllKnown, OrderInv
    <2>3. InOrder'
      BY <1>1, <1>7, <2>1 DEF InOrder, OrderInv
    <2> QED
      BY <2>2, <2>3
  <1> QED
    BY <1>2, <1>4, <1>5, <1>6, <1>7 DEF OrderInv

LEMMA OrderFanIn ==
  ASSUME WatchInv, OrderInv, BackendFanIn \/ LoopReads
  PROVE  OrderInv'
  <1>1. UNCHANGED <<kind, watchers, child, forward, seen, previous, out>>
    BY DEF BackendFanIn, LoopReads, backendVars
  <1>2. \A x : (Known(x)' <=> Known(x)) /\ (Pending(x)' <=> Pending(x))
    BY <1>1 DEF Known, Behind, Active, Covers, Pending
  <1>3. Behind(previous)'
    BY <1>1 DEF OrderInv, Behind, Active, Covers
  <1>4. \/ hold' = ch /\ ch' = <<>> /\ got' = got
        \/ got' = hold /\ hold' = <<>> /\ ch' = ch
    BY DEF BackendFanIn, LoopReads
  <1>5. AllKnown'
    BY <1>2, <1>4, TupleFacts DEF AllKnown, OrderInv
  <1>6. InOrder'
    BY <1>1, <1>2, <1>4, TupleFacts DEF InOrder, OrderInv
  <1> QED
    BY <1>3, <1>5, <1>6 DEF OrderInv

LEMMA OrderDirectFanIn ==
  ASSUME WatchInv, OrderInv, DirectFanIn
  PROVE  OrderInv'
  <1> DEFINE w == watchers[1]
             f == forward[1]
             n == NewestObject
  <1>1. 1 \in Ids
    BY WatchersAssumption DEF Ids
  <1>2. /\ w \in WatcherType(n) /\ n \in Nat /\ Reading(w) /\ Passing(w, f)
    BY <1>1, OneWatcher
  <1>3. PICK w2, x : /\ w2 = [w EXCEPT !.ch = <<>>]
                     /\ x = Snapshot(OfSlices(Head(w.ch)), 0)
    OBVIOUS
  <1>4. /\ kind # "backend" /\ w.ch # <<>> /\ hold' = <<x>>
        /\ watchers' = [watchers EXCEPT ![1] = w2]
        /\ UNCHANGED <<kind, child, forward, seen, previous, out, ch, got>>
    BY <1>3 DEF DirectFanIn, backendVars
  <1>5. /\ forward' = [forward EXCEPT ![1] = f] /\ f = <<>>
        /\ out = <<>> /\ ch = <<>> /\ seen = 0
    BY <1>1, <1>4 DEF WatchInv, Idle, Types, WatchersOK
  <1>6. /\ w2.ch = <<>> /\ w2.store = w.store /\ w2.previous = w.previous
        /\ w2.synced = w.synced /\ w2.init = w.init
    BY <1>2, <1>3 DEF WatcherType
  <1>7. Onward(w, f, w2, f, n)
    BY <1>6 DEF Onward, Covers
  <1>8. \A e \in Sources : Behind(e) => Behind(e)'
    <2> HIDE DEF n
    <2>1. UNCHANGED <<kind, child, seen>>
      BY <1>4
    <2> QED
      BY <1>1, <1>4, <1>5, <1>7, <2>1, OneMoves DEF n
  <1>9. Active = 1 /\ Active' = 1
    BY <1>4 DEF Active
  <1>10. /\ x.svc = 0 /\ x.eps.of = "slices" /\ x.eps.at = Head(w.ch)
         /\ x.eps.at \in Nat /\ x.eps \in Sources
    <2>1. Head(w.ch) \in 0..n
      BY <1>2, <1>4, SlotFacts DEF WatcherType
    <2> QED
      BY <1>2, <1>3, <2>1 DEF Snapshot, OfSlices, Sources
  <1>11. Known(x)'
    <2>1. w2.previous >= x.eps.at /\ w2.store >= x.eps.at
      BY <1>2, <1>4, <1>6, <1>10 DEF Passing, Reading, WatcherType
    <2>2. Covers(w2, <<>>, x.eps.at)
      BY <1>6, <2>1 DEF Covers
    <2>3. watchers'[1] = w2 /\ forward'[1] = <<>>
      BY <1>1, <1>4, <1>5 DEF WatchInv, Types, WatchersOK
    <2>4. Covers(watchers'[1], forward'[1], x.eps.at)
      BY <2>2, <2>3
    <2> QED
      BY <1>4, <1>5, <1>9, <1>10, <2>4 DEF Known, Behind, Covers
  <1>12. ASSUME NEW y \in SnapshotType, got = <<y>>
         PROVE  Known(y)' /\ Older(y, x)
    <2>1. Known(y) /\ y.eps \in Sources /\ y.svc \in Nat
      BY <1>12, ItemFacts DEF OrderInv, AllKnown
    <2>2. Behind(y.eps)'
      BY <1>8, <2>1 DEF Known
    <2>3. y.eps.of = "slices" => y.eps.at <= x.eps.at
      <3>1. y.eps.of = "slices" => Covers(w, f, y.eps.at)
        BY <1>9, <2>1 DEF Known, Behind
      <3> QED
        BY <1>4, <1>10, <3>1 DEF Covers
    <2>4. y.svc <= x.svc
      BY <1>5, <1>10, <2>1 DEF Known
    <2> QED
      BY <1>4, <1>10, <2>1, <2>2, <2>3, <2>4 DEF Known, Older
  <1>13. \A y \in SnapshotType : ~Pending(y)' /\ ch' # <<y>>
    BY <1>4, <1>5, TupleFacts DEF Pending
  <1>14. AllKnown'
    <2> SUFFICES ASSUME NEW y \in SnapshotType, hold' = <<y>> \/ got' = <<y>>
                 PROVE  Known(y)'
      BY <1>13 DEF AllKnown
    <2>1. CASE hold' = <<y>>
      <3>1. y = x
        BY <1>4, <2>1, TupleFacts
      <3> QED
        BY <1>11, <3>1 DEF Known, Behind, Covers, Active
    <2>2. CASE got' = <<y>>
      BY <1>4, <1>12, <2>2
    <2> QED
      BY <2>1, <2>2
  <1>15. InOrder'
    <2> SUFFICES ASSUME NEW y \in SnapshotType, NEW z \in SnapshotType
                 PROVE  /\ out' = <<y, z>> => Older(y, z)
                        /\ got' = <<y>> /\ hold' = <<z>> => Older(y, z)
      BY <1>13 DEF InOrder
    <2>1. out' # <<y, z>>
      BY <1>4, <1>5, TupleFacts
    <2>2. ASSUME got' = <<y>>, hold' = <<z>>
          PROVE  Older(y, z)
      <3>1. z = x
        BY <1>4, <2>2, TupleFacts
      <3> QED
        BY <1>4, <1>12, <2>2, <3>1
    <2> QED
      BY <2>1, <2>2
  <1>16. Behind(previous)'
    <2>1. PICK p : p = previous
      OBVIOUS
    <2>2. Behind(p)'
      BY <1>8, <2>1 DEF OrderInv, WatchInv, Types, PipeOK
    <2> QED
      BY <1>4, <2>1, <2>2 DEF Behind, Active, Covers
  <1> QED
    BY <1>14, <1>15, <1>16 DEF OrderInv

\* What syncService leaves for its holder to send: the same endpoints, others
\* of the Service itself, or one after the other.
LEMMA SyncPuts ==
  ASSUME SyncService
  PROVE  \E a, b :
           /\ b = Snapshot(previous, svcStore) /\ a = Snapshot(Own(svcStore), svcStore)
           /\ \/ previous' = previous /\ (out' = <<>> \/ out' = <<b>>)
              \/ previous' = Own(svcStore) /\ (out' = <<a>> \/ out' = <<b, a>>)
  <1> DEFINE s == Service(svcStore)
             own == Own(svcStore)
  <1>1. PICK a, b : b = Snapshot(previous, svcStore) /\ a = Snapshot(own, svcStore)
    OBVIOUS
  <1>2. Resent(s) = <<>> \/ Resent(s) = <<b>>
    BY <1>1, ResentFacts
  <1>3. CASE s.target = "pods"
    <2>1. out' = Resent(s) /\ previous' = previous
      BY <1>3 DEF SyncService
    <2> QED
      BY <1>1, <1>2, <2>1
  <1>4. CASE s.target # "pods"
    <2>1. out' = Resent(s) \o Sent(own, svcStore) /\ Remember(own)
      BY <1>4 DEF SyncService
    <2> HIDE DEF own
    <2>2. \/ Sent(own, svcStore) = <<>> /\ previous' = previous
          \/ Sent(own, svcStore) = <<a>> /\ previous' = own
      BY <1>1, <2>1, Remembered
    <2>3. /\ <<b>> \o <<a>> = <<b, a>> /\ <<b>> \o <<>> = <<b>>
          /\ <<>> \o <<a>> = <<a>> /\ <<>> \o <<>> = <<>>
      BY TwoFacts
    <2>4. \/ previous' = previous /\ (out' = <<>> \/ out' = <<b>>)
          \/ previous' = own /\ (out' = <<a>> \/ out' = <<b, a>>)
      BY <1>2, <2>1, <2>2, <2>3
    <2> QED
      BY <1>1, <2>4 DEF own
  <1> QED
    BY <1>3, <1>4

LEMMA BehindSync ==
  ASSUME WatchInv, SyncService, NEW e \in Sources, Behind(e)
  PROVE  Behind(e)'
  <1>1. /\ seen' = svcStore /\ kind' = kind /\ forward' = forward /\ kind = "backend"
    BY SyncOut DEF SyncService
  <1>2. e.of = "service" => e.at <= seen'
    <2>1. svcStore \in 0..NewestService /\ seen \in 0..svcStore
      BY DEF WatchInv, Types, ServiceOK
    <2>2. NewestService \in Nat
      BY PipeFacts
    <2>3. e.of = "service" => e.at \in 0..NewestService
      BY SourceFacts
    <2> QED
      BY <1>1, <2>1, <2>2, <2>3 DEF Behind
  <1>3. Active = child /\ Active' = child'
    BY <1>1 DEF Active
  <1>4. ASSUME e.of = "slices", Active' # 0
        PROVE  Covers(watchers'[Active'], forward'[Active'], e.at)
    <2>1. CASE /\ child' = lastChild' /\ lastChild' = lastChild + 1 /\ lastChild' \in Ids
               /\ watchers' = [watchers EXCEPT ![lastChild'] = NewWatcher("on")]
      <3> DEFINE c == lastChild'
                 w == NewWatcher("on")
      <3>1. watchers'[c] = w
        BY <2>1 DEF WatchInv, Types, WatchersOK
      <3>2. w.init = "list" /\ w.synced = FALSE /\ w.ch = <<>>
        BY DEF NewWatcher
      <3>3. forward[c] = <<>>
        <4>1. c \in Ids /\ c > lastChild
          <5>1. lastChild \in 0..seen /\ seen \in 0..svcStore /\ svcStore \in 0..NewestService
            BY DEF WatchInv, Types, ServiceOK
          <5>2. NewestService \in Nat
            BY PipeFacts
          <5>3. lastChild + 1 > lastChild
            BY <5>1, <5>2
          <5> QED
            BY <2>1, <5>3
        <4> QED
          BY <1>1, <4>1 DEF WatchInv, Lives
      <3>4. Covers(w, <<>>, e.at)
        BY <3>2 DEF Covers
      <3>5. Active' = c
        BY <1>3, <2>1
      <3> QED
        BY <1>1, <3>1, <3>3, <3>4, <3>5
    <2>2. CASE child' = child /\ watchers' = watchers
      <3>1. Covers(watchers[Active], forward[Active], e.at)
        BY <1>3, <1>4, <2>2 DEF Behind
      <3> QED
        BY <1>1, <1>3, <2>2, <3>1
    <2>3. CASE child' = 0
      BY <1>3, <1>4, <2>3
    <2> QED
      BY <2>1, <2>2, <2>3, SyncChild
  <1> QED
    BY <1>2, <1>4 DEF Behind, Covers

LEMMA OrderSyncService ==
  ASSUME WatchInv, OrderInv, SyncService
  PROVE  OrderInv'
  <1>1. PICK own : own = Own(svcStore)
    OBVIOUS
  <1>2. PICK a, b, p :
          /\ p = previous /\ b = Snapshot(p, svcStore) /\ a = Snapshot(own, svcStore)
          /\ \/ previous' = p /\ (out' = <<>> \/ out' = <<b>>)
             \/ previous' = own /\ (out' = <<a>> \/ out' = <<b, a>>)
    BY <1>1, SyncPuts
  <1>3. /\ UNCHANGED <<kind, forward, ch, hold, got>>
        /\ seen' = svcStore /\ out = <<>> /\ kind = "backend"
    BY SyncOut DEF SyncService
  <1>4. /\ svcStore \in Nat /\ seen \in Nat /\ seen <= svcStore
        /\ own \in Sources /\ p \in Sources
    <2>1. svcStore \in 0..NewestService /\ seen \in 0..svcStore
      BY DEF WatchInv, Types, ServiceOK
    <2>2. NewestService \in Nat /\ own \in Sources
      BY <1>1, PipeFacts
    <2>3. p \in Sources
      BY <1>2 DEF WatchInv, Types, PipeOK
    <2> QED
      BY <2>1, <2>2, <2>3
  <1>5. /\ b.eps = p /\ b.svc = svcStore /\ a.eps = own /\ a.svc = svcStore
        /\ svcStore <= svcStore
    BY <1>2, <1>4 DEF Snapshot
  <1>6. own = Nil \/ (own.of = "service" /\ own.at = svcStore)
    BY <1>1 DEF Own, OfService
  <1>7. \A e \in Sources : Behind(e) => Behind(e)'
    BY BehindSync
  <1>8. ASSUME NEW e \in Sources, Behind(e), e.of = own.of
        PROVE  e.at <= own.at
    <2>1. CASE own = Nil
      <3>1. e = Nil
        BY <1>8, <2>1, SourceFacts DEF Nil
      <3> QED
        BY <2>1, <3>1 DEF Nil
    <2>2. CASE own.of = "service" /\ own.at = svcStore
      <3>1. e.at <= seen /\ e.at \in 0..NewestService
        BY <1>8, <2>2, SourceFacts DEF Behind
      <3>2. NewestService \in Nat
        BY PipeFacts
      <3> QED
        BY <1>4, <2>2, <3>1, <3>2
    <2> QED
      BY <1>6, <2>1, <2>2
  <1>9. Behind(p) /\ Behind(p)'
    BY <1>2, <1>4, <1>7 DEF OrderInv
  <1>10. Behind(own)'
    BY <1>3, <1>4, <1>6 DEF Behind, Nil
  <1>11. p.at <= p.at /\ own.at <= own.at
    <2>1. \A e \in Sources : e.at \in Nat
      <3> SUFFICES ASSUME NEW e \in Sources
                   PROVE  e.at \in Nat
        OBVIOUS
      <3>1. /\ e.of \in {"nobody", "service", "slices"}
            /\ e.of = "nobody" <=> e = Nil
            /\ e.of = "service" => e.at \in 0..NewestService
            /\ e.of = "slices" => e.at \in 0..NewestObject
        BY SourceFacts
      <3>2. Nil.at = 0
        BY DEF Nil
      <3> QED
        BY <3>1, <3>2
    <2> QED
      BY <1>4, <2>1
  <1>12. previous' = p \/ previous' = own
    BY <1>2
  <1>13. ASSUME NEW x \in SnapshotType, Known(x), x.eps \in Sources, x.svc \in Nat
         PROVE  Known(x)' /\ Older(x, b) /\ Older(x, a)
    <2>1. x.svc <= svcStore
      BY <1>4, <1>13 DEF Known
    <2>2. Behind(x.eps) /\ Behind(x.eps)'
      BY <1>7, <1>13 DEF Known
    <2>3. /\ x.eps.of = p.of => x.eps.at <= p.at
          /\ x.eps.of = own.of => x.eps.at <= own.at
      BY <1>2, <1>3, <1>8, <1>13, <2>2 DEF Known
    <2>4. Known(x)'
      BY <1>3, <1>12, <2>1, <2>2, <2>3 DEF Known
    <2> QED
      BY <1>5, <2>1, <2>3, <2>4 DEF Older
  <1>14. Known(b)' /\ Older(b, a)
    <2>1. p.of = own.of => p.at <= own.at
      BY <1>4, <1>8, <1>9
    <2>2. Known(b)'
      BY <1>3, <1>5, <1>9, <1>11, <1>12, <2>1 DEF Known
    <2> QED
      BY <1>5, <2>1, <2>2 DEF Older
  <1>15. previous' = own => Known(a)'
    BY <1>3, <1>5, <1>10, <1>11 DEF Known
  <1>16. \A x \in SnapshotType :
           Pending(x)' => (x = a \/ x = b) /\ (x = a => Known(a)')
    <2> SUFFICES ASSUME NEW x \in SnapshotType, Pending(x)'
                 PROVE  x = b \/ (x = a /\ previous' = own)
      BY <1>14, <1>15
    <2> QED
      BY <1>2, TupleFacts DEF Pending
  <1>17. ASSUME NEW x \in SnapshotType, ch = <<x>> \/ hold = <<x>> \/ got = <<x>>
         PROVE  Known(x)' /\ Older(x, b) /\ Older(x, a)
    <2>1. Known(x) /\ x.eps \in Sources /\ x.svc \in Nat
      BY <1>17, ItemFacts DEF OrderInv, AllKnown
    <2> QED
      BY <1>13, <2>1
  <1>18. AllKnown'
    <2> SUFFICES ASSUME NEW x \in SnapshotType,
                        Pending(x)' \/ ch = <<x>> \/ hold = <<x>> \/ got = <<x>>
                 PROVE  Known(x)'
      BY <1>3 DEF AllKnown
    <2>1. CASE Pending(x)'
      <3>1. x = b \/ (x = a /\ Known(a)')
        BY <1>16, <2>1 DEF Pending
      <3>2. CASE x = b
        BY <1>14, <3>2 DEF Known, Behind, Covers, Active
      <3>3. CASE x = a /\ Known(a)'
        BY <3>3 DEF Known, Behind, Covers, Active
      <3> QED
        BY <3>1, <3>2, <3>3
    <2>2. CASE ch = <<x>> \/ hold = <<x>> \/ got = <<x>>
      BY <1>17, <2>2
    <2> QED
      BY <2>1, <2>2
  <1>19. InOrder'
    <2> SUFFICES ASSUME NEW x \in SnapshotType, NEW y \in SnapshotType
                 PROVE  /\ out' = <<x, y>> => Older(x, y)
                        /\ ch = <<x>> /\ Pending(y)' => Older(x, y)
                        /\ hold = <<x>> /\ (ch = <<y>> \/ Pending(y)') => Older(x, y)
                        /\ got = <<x>> /\ (hold = <<y>> \/ ch = <<y>> \/ Pending(y)')
                             => Older(x, y)
      BY <1>3 DEF InOrder
    <2>1. out' = <<x, y>> => Older(x, y)
      BY <1>2, <1>14, TupleFacts
    <2>2. (ch = <<x>> \/ hold = <<x>> \/ got = <<x>>) /\ Pending(y)' => Older(x, y)
      <3> SUFFICES ASSUME ch = <<x>> \/ hold = <<x>> \/ got = <<x>>, Pending(y)'
                   PROVE  Older(x, y)
        OBVIOUS
      <3>1. y = a \/ y = b
        BY <1>16 DEF Pending
      <3>2. Older(x, a) /\ Older(x, b)
        BY <1>17
      <3> QED
        BY <3>1, <3>2
    <2>3. /\ hold = <<x>> /\ ch = <<y>> => Older(x, y)
          /\ got = <<x>> /\ (hold = <<y>> \/ ch = <<y>>) => Older(x, y)
      BY DEF OrderInv, InOrder
    <2> QED
      BY <2>1, <2>2, <2>3
  <1>20. Behind(previous)'
    BY <1>9, <1>10, <1>12 DEF Behind, Covers, Active
  <1> QED
    BY <1>18, <1>19, <1>20 DEF OrderInv

LEMMA OrderInit ==
  ASSUME Init
  PROVE  OrderInv
  <1>1. out = <<>> /\ ch = <<>> /\ hold = <<>> /\ got = <<>> /\ previous = Nil
    BY DEF Init
  <1>2. AllKnown /\ InOrder
    BY <1>1, TupleFacts DEF AllKnown, InOrder, Pending
  <1>3. Behind(previous)
    BY <1>1 DEF Behind, Nil
  <1> QED
    BY <1>2, <1>3 DEF OrderInv

LEMMA OrderNext ==
  ASSUME WatchInv, OrderInv, [Next]_vars
  PROVE  OrderInv'
  <1>1. ASSUME Change \/ ServiceInformer \/ UNCHANGED vars
        PROVE  OrderInv'
    <2>1. UNCHANGED <<kind, child, seen, watchers, forward, previous, out, ch, hold, got>>
      BY <1>1 DEF Change, ServiceInformer, vars, backendVars
    <2>2. \A w, f : Onward(w, f, w, f, NewestObject)
      BY DEF Onward
    <2>3. Active # 0 => Onward(watchers[Active], forward[Active],
                               watchers'[Active], forward'[Active], NewestObject)
      BY <2>1, <2>2
    <2> QED
      BY <2>1, <2>3, OrderStays
  <1>2. ASSUME NEW c \in Ids, InformerLists(c) \/ InformerNotifies(c)
        PROVE  OrderInv'
    BY <1>2, OrderInformer
  <1>3. ASSUME NEW c \in Ids, NEW r \in Readers, SyncReads(c, r)
        PROVE  OrderInv'
    BY <1>3, OrderSyncReads
  <1>4. ASSUME NEW c \in Ids, NEW r \in Readers, SyncSends(c, r)
        PROVE  OrderInv'
    BY <1>4, OrderSyncSends
  <1>5. ASSUME NEW c \in Ids, ForwardTakes(c)
        PROVE  OrderInv'
    BY <1>5, OrderForwardTakes
  <1>6. ASSUME NEW c \in Ids, SendFromChild(c)
        PROVE  OrderInv'
    BY <1>6, OrderSendFromChild
  <1>7. CASE SyncService
    BY <1>7, OrderSyncService
  <1>8. CASE Send
    BY <1>8, OrderSend
  <1>9. CASE BackendFanIn \/ LoopReads
    BY <1>9, OrderFanIn
  <1>10. CASE DirectFanIn
    BY <1>10, OrderDirectFanIn
  <1> QED
    BY <1>1, <1>2, <1>3, <1>4, <1>5, <1>6, <1>7, <1>8, <1>9, <1>10 DEF Next, Step

\* What is on its way to the loop is in the order of its versions, and none of
\* it is newer than what the watchers have still to send.
THEOREM OrderInductive == Spec => [](WatchInv /\ OrderInv)
  <1>1. Init => WatchInv /\ OrderInv
    BY WatchInit, OrderInit
  <1>2. WatchInv /\ OrderInv /\ [Next]_vars => (WatchInv /\ OrderInv)'
    BY WatchNext, OrderNext
  <1> QED
    BY <1>1, <1>2, PTL DEF Spec

\* The loop never goes back to an older version of the Service, nor from a newer
\* version of an object to an older one: not over the restart of a child, nor
\* over the channels of capacity one that drop what was not yet taken.
THEOREM NeverGoesBack == Spec => NeverBack
  <1>1. ASSUME WatchInv, OrderInv, [Next]_vars
        PROVE  [got # <<>> /\ got' # <<>> => Older(Head(got), Head(got'))]_got
    <2> SUFFICES ASSUME got' # got, got # <<>>, got' # <<>>
                 PROVE  Older(Head(got), Head(got'))
      OBVIOUS
    <2>1. LoopReads
      BY <1>1 DEF Next, Step, Change, InformerLists, InformerNotifies, SyncReads, SyncSends,
                  ForwardTakes, SendFromChild, ServiceInformer, SyncService, Send,
                  BackendFanIn, DirectFanIn, vars
    <2>2. got' = hold /\ hold # <<>>
      BY <2>1 DEF LoopReads
    <2>3. PICK x, y : x = Head(got) /\ y = Head(hold) /\ got = <<x>> /\ hold = <<y>>
                      /\ x \in Items /\ y \in Items
      BY <1>1, <2>2, PipeFacts DEF WatchInv, Types, PipeOK
    <2>4. Items \subseteq SnapshotType
      BY <1>1, ItemsTyped
    <2>5. Older(x, y)
      BY <1>1, <2>3, <2>4 DEF OrderInv, InOrder
    <2> QED
      BY <2>2, <2>3, <2>5
  <1> QED
    BY <1>1, OrderInductive, PTL DEF Spec, NeverBack
=============================================================================
