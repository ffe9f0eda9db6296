---------------------------- MODULE TlsCerts_proofs ----------------------------
(***************************************************************************)
(* LoadCert never takes away a certificate in use and loses sight of none,  *)
(* for any number of names, any backlog, and every sequence of failures.    *)
(***************************************************************************)
EXTENDS TlsCerts, Counting, SequenceTheorems

-----------------------------------------------------------------------------
(* The queue of discards.                                                  *)

Elements(s) == {s[k] : k \in 1..Len(s)}

\* What discardQueued keeps is what is bad, in no greater number.
LEMMA KeptElements ==
  ASSUME NEW queue \in Seq(Ids), NEW bad
  PROVE  /\ Kept(queue, bad) \in Seq(Ids)
         /\ Len(Kept(queue, bad)) <= Len(queue)
         /\ Elements(Kept(queue, bad)) = Elements(queue) \cap bad
  <1> DEFINE places == {k \in 1..Len(queue) : queue[k] \in bad}
             Rank(k) == Cardinality({j \in places : j <= k})
             Place(n) == CHOOSE k \in places : Rank(k) = n
             kept == Kept(queue, bad)
  <1>1. Len(queue) \in Nat /\ places \subseteq 1..Len(queue)
    OBVIOUS
  <1>2. /\ Cardinality(places) \in Nat
        /\ Cardinality(places) <= Len(queue)
        /\ \A k \in places : Rank(k) \in 1..Cardinality(places)
        /\ \A j, k \in places : Rank(j) = Rank(k) => j = k
        /\ \A n \in 1..Cardinality(places) : \E k \in places : Rank(k) = n
    <2> HIDE DEF places
    <2> QED
      BY <1>1, PlacesOf
  <1>3. kept = [n \in 1..Cardinality(places) |-> queue[Place(n)]]
    BY DEF Kept
  <1> HIDE DEF Rank, kept
  <1>4. \A n \in 1..Cardinality(places) : Place(n) \in places /\ Rank(Place(n)) = n
    <2> HIDE DEF places
    <2> QED
      BY <1>2
  <1>5. \A k \in places : Place(Rank(k)) = k
    <2> SUFFICES ASSUME NEW k \in places PROVE Place(Rank(k)) = k
      OBVIOUS
    <2> HIDE DEF places, Place
    <2>1. Rank(k) \in 1..Cardinality(places)
      BY <1>2
    <2>2. Place(Rank(k)) \in places /\ Rank(Place(Rank(k))) = Rank(k)
      BY <1>4, <2>1
    <2> QED
      BY <1>2, <2>2
  <1>6. \A k \in places : queue[k] \in Ids /\ queue[k] \in bad
    OBVIOUS
  <1> HIDE DEF Place
  <1>7. kept \in Seq(Ids) /\ Len(kept) = Cardinality(places)
    <2>1. kept \in [1..Cardinality(places) -> Ids]
      BY <1>3, <1>4, <1>6
    <2> HIDE DEF places
    <2> QED
      BY <1>2, <2>1
  <1>8. Elements(kept) \subseteq Elements(queue) \cap bad
    <2> SUFFICES ASSUME NEW n \in 1..Cardinality(places)
                 PROVE  kept[n] \in Elements(queue) \cap bad
      BY <1>7 DEF Elements
    <2>1. kept[n] = queue[Place(n)] /\ Place(n) \in places
      BY <1>3, <1>4
    <2> QED
      BY <2>1 DEF Elements
  <1>9. Elements(queue) \cap bad \subseteq Elements(kept)
    <2> SUFFICES ASSUME NEW k \in places PROVE queue[k] \in Elements(kept)
      BY DEF Elements
    <2>1. Rank(k) \in 1..Cardinality(places) /\ kept[Rank(k)] = queue[k]
      BY <1>2, <1>3, <1>5
    <2> QED
      BY <1>7, <2>1 DEF Elements
  <1> QED
    BY <1>2, <1>7, <1>8, <1>9 DEF kept

\* queueDiscard adds at most the prior id, and loses none unless it overflows.
LEMMA QueuedElements ==
  ASSUME discards \in Seq(Ids), Len(discards) <= Backlog,
         NEW prior \in {0} \cup Ids, NEW new
  PROVE  /\ Queued(prior, new) \in Seq(Ids)
         /\ Len(Queued(prior, new)) <= Backlog
         /\ Elements(Queued(prior, new)) \subseteq
              Elements(discards) \cup ({prior} \ {0, new})
         /\ ~Overflows(Queued(prior, new)) =>
              Elements(Queued(prior, new)) =
                Elements(discards) \cup ({prior} \ {0, new})
  <1> DEFINE kept == IF Len(discards) >= Backlog THEN Tail(discards) ELSE discards
  <1>1. Backlog \in Nat /\ Backlog >= 1 /\ Len(discards) \in Nat
    BY TlsAssumption
  <1>2. CASE prior \in {0, new} \/ \E i \in 1..Len(discards) : discards[i] = prior
    <2>1. Queued(prior, new) = discards
      BY <1>2 DEF Queued
    <2>2. {prior} \ {0, new} \subseteq Elements(discards)
      BY <1>2 DEF Elements
    <2> QED
      BY <2>1, <2>2
  <1>3. CASE ~ (prior \in {0, new} \/ \E i \in 1..Len(discards) : discards[i] = prior)
    <2>1. Queued(prior, new) = Append(kept, prior) /\ prior \in Ids
      BY <1>3 DEF Queued
    <2>2. /\ kept \in Seq(Ids) /\ Len(kept) < Backlog
          /\ Elements(kept) \subseteq Elements(discards)
      <3>1. CASE Len(discards) >= Backlog
        <4>1. discards # <<>>
          BY <1>1, <3>1
        <4>2. /\ Tail(discards) \in Seq(Ids)
              /\ Len(Tail(discards)) = Len(discards) - 1
              /\ \A i \in 1..Len(Tail(discards)) :
                   Tail(discards)[i] = discards[i + 1]
          BY <4>1, HeadTailProperties
        <4>3. \A i \in 1..Len(Tail(discards)) : i + 1 \in 1..Len(discards)
          BY <1>1, <4>2
        <4>4. Elements(Tail(discards)) \subseteq Elements(discards)
          BY <4>2, <4>3 DEF Elements
        <4> QED
          BY <1>1, <3>1, <4>2, <4>4
      <3>2. CASE Len(discards) < Backlog
        BY <1>1, <3>2
      <3> QED
        BY <1>1, <3>1, <3>2
    <2>3. Len(discards) < Backlog \/ Overflows(Queued(prior, new))
      <3>1. ASSUME Queued(prior, new) = discards PROVE FALSE
        <4>1. /\ Len(Append(kept, prior)) = Len(kept) + 1
              /\ Append(kept, prior)[Len(kept) + 1] = prior
          BY <2>1, <2>2, AppendProperties
        <4> HIDE DEF kept
        <4>2. Len(kept) + 1 \in 1..Len(discards) /\ discards[Len(kept) + 1] = prior
          BY <2>1, <2>2, <3>1, <4>1
        <4> QED
          BY <1>3, <4>2
      <3> QED
        BY <1>1, <3>1 DEF Overflows
    <2>4. Len(discards) < Backlog => kept = discards
      BY <1>1
    <2> HIDE DEF kept
    <2>5. /\ Append(kept, prior) \in Seq(Ids)
          /\ Len(Append(kept, prior)) = Len(kept) + 1
          /\ \A i \in 1..Len(kept) : Append(kept, prior)[i] = kept[i]
          /\ Append(kept, prior)[Len(kept) + 1] = prior
      BY <2>1, <2>2, AppendProperties
    <2>6. Elements(Append(kept, prior)) = Elements(kept) \cup {prior}
      <3>0. Len(kept) \in Nat
        BY <2>2
      <3>1. Elements(Append(kept, prior)) \subseteq Elements(kept) \cup {prior}
        <4> SUFFICES ASSUME NEW i \in 1..(Len(kept) + 1)
                     PROVE  Append(kept, prior)[i] \in Elements(kept) \cup {prior}
          BY <2>5 DEF Elements
        <4>1. i \in 1..Len(kept) \/ i = Len(kept) + 1
          BY <3>0
        <4> QED
          BY <2>5, <4>1 DEF Elements
      <3>2. \A i \in 1..Len(kept) : i \in 1..(Len(kept) + 1)
        BY <3>0
      <3>3. Len(kept) + 1 \in 1..(Len(kept) + 1)
        BY <3>0
      <3>4. Elements(kept) \cup {prior} \subseteq Elements(Append(kept, prior))
        BY <2>5, <3>2, <3>3 DEF Elements
      <3> QED
        BY <3>1, <3>4
    <2>7. {prior} \ {0, new} = {prior}
      BY <1>3
    <2>8. Len(Append(kept, prior)) <= Backlog
      BY <1>1, <2>2, <2>5
    <2>9. ~Overflows(Queued(prior, new)) =>
            Elements(Append(kept, prior)) = Elements(discards) \cup {prior}
      BY <2>3, <2>4, <2>6
    <2> QED
      BY <2>1, <2>2, <2>5, <2>6, <2>7, <2>8, <2>9, Zenon
  <1> QED
    BY <1>2, <1>3
-----------------------------------------------------------------------------
(* The inductive invariant.                                                *)

\* The names that may still be loaded without a further change.
Open == IF pc = "boot" THEN todo
        ELSE IF pc = "dead" THEN {} ELSE pendingCertNames

Queue == Elements(discards)

\* LoadCert is loading a certificate the loop asked for.
Running ==
  step # "none" =>
    /\ pc \in {"boot", "certs"}
    /\ name \in todo
    /\ latestTLS[name] \notin Malformed \cup {Empty}

\* What the loop knows of the names it has worked on.
LoopInv ==
  /\ pc = "boot" => pendingCertNames = {}
  /\ pc = "certs" =>
       /\ todo # {} /\ todo \subseteq pendingCertNames
       /\ pendingCertNames \ todo # {} => failed
  /\ pc = "select" /\ pendingCertNames # {} =>
       tlsCert \/ tlsRecovery \/ ~Retries
  /\ pc # "dead" =>
       \A n \in Certs \ Open : latestTLS[n] \in {Empty, served[n]}

\* A certificate was staged whose name is still open.
InFlight == IF step \in {"commit", "list"} THEN 1 ELSE 0

\* Every load follows a change or a failure, but the first of each name.
LoadsCounted ==
  lastID + Cardinality(Open) <=
    Cardinality(Certs) + faults + changes + InFlight

\* varnishd issued every id anyone knows, in ascending order.
IssuedBefore ==
  /\ \A i \in active \cup staged : i <= lastID
  /\ \A n \in Certs : tlsCertIDs[n] <= lastID
  /\ \A i \in Queue : i <= lastID
  /\ step = "load" => \A i \in before.ids : i <= lastID

\* The certificate LoadCert has just loaded is its argument's, varnishd holds
\* it, and nothing else knows of it yet.
Fresh ==
  step \in {"commit", "list"} =>
    /\ lastID # 0
    /\ issued[lastID] = <<name, latestTLS[name]>>
    /\ \A n \in Certs : tlsCertIDs[n] # lastID
    /\ lastID \notin Queue \cup before.ids
    /\ step = "commit" => lastID \in staged \ active
    /\ step = "list" => lastID \in active \ marked

\* i is the certificate LoadCert last reported as loaded for n: no other name
\* is taken to use it, it is not about to be discarded, and a listing made
\* before a load shows it.
Holds(n, i) ==
  /\ i \in active \ marked
  /\ issued[i] = <<n, served[n]>>
  /\ i \notin Queue
  /\ \A m \in Certs \ {n} : tlsCertIDs[m] # i
  /\ step \in {"load", "commit", "list"} /\ before.ok => i \in before.ids

ServedHeld ==
  \A n \in Certs : served[n] # Empty => \E i \in Ids : Holds(n, i)

Tracked(i) == i \in Queue \/ \E n \in Certs : tlsCertIDs[n] = i

\* Unless a listing or a rollback failed, or a commit was obeyed late, the
\* comparison of the listings finds the new certificate and nothing else.
AllTracked ==
  ~untraced =>
    /\ \A i \in active \ marked : Tracked(i) \/ (step = "list" /\ i = lastID)
    /\ staged \subseteq {lastID}
    /\ step \notin {"commit", "rollback"} => staged = {}
    /\ step \in {"load", "commit"} => before.ok /\ before.ids = active
    /\ step = "list" => before.ok /\ active \subseteq before.ids \cup {lastID}

TlsInv ==
  /\ LoopTypeOK
  /\ ManagerTypeOK
  /\ VarnishTypeOK
  /\ Running
  /\ LoopInv
  /\ LoadsCounted
  /\ IssuedBefore
  /\ Fresh
  /\ ServedHeld
  /\ AllTracked
-----------------------------------------------------------------------------
(* What the larger steps do.                                               *)

LEMMA IdsFinite ==
  /\ Cardinality(Certs) \in Nat
  /\ MaxFaults \in Nat /\ MaxChanges \in Nat
  /\ IsFiniteSet(Ids)
  /\ Ids \subseteq Nat \ {0}
  <1>1. Cardinality(Certs) \in Nat /\ MaxFaults \in Nat /\ MaxChanges \in Nat
    BY TlsAssumption, FS_CardinalityType
  <1>2. Cardinality(Certs) + MaxFaults + MaxChanges \in Nat
    BY <1>1
  <1>3. IsFiniteSet(1..(Cardinality(Certs) + MaxFaults + MaxChanges))
    BY <1>2, FS_Interval
  <1> QED
    BY <1>1, <1>2, <1>3 DEF Ids

\* A name whose load was successful is no longer open; one whose load failed
\* is, unless the program ends.
LEMMA ReturnedStep ==
  ASSUME LoopTypeOK, LoopInv, NEW n \in todo, NEW ok \in BOOLEAN,
         pc \in {"boot", "certs"}, Returned(n, ok)
  PROVE  /\ n \in Open
         /\ ok => Open' = Open \ {n}
         /\ ~ok => Open' \subseteq Open
         /\ pc' \in {"boot", "certs", "select", "dead"}
         /\ pc' = "boot" => pc = "boot" /\ pendingCertNames' = {}
         /\ pc' = "certs" => /\ pc = "certs"
                             /\ todo' # {} /\ todo' \subseteq pendingCertNames'
                             /\ pendingCertNames' \ todo' # {} => failed'
         /\ pc' = "select" /\ pendingCertNames' # {} => tlsRecovery' \/ ~Retries
         /\ pendingCertNames' \subseteq Certs /\ todo' \subseteq Certs
         /\ tlsRecovery' \in BOOLEAN /\ failed' \in BOOLEAN
         /\ UNCHANGED <<latestTLS, tlsCert>>
  <1> USE DEF LoopTypeOK, LoopInv, Returned
  <1>1. CASE pc = "boot"
    BY <1>1 DEF Open
  <1>2. CASE pc = "certs"
    BY <1>2, TlsAssumption DEF Open, StillPending, RetryTimer
  <1> QED
    BY <1>1, <1>2

\* discardQueued: what leaves the queue was discarded or is gone.
LEMMA DiscardStep ==
  ASSUME NEW queue \in Seq(Ids), NEW after, DiscardQueued(queue, after),
         active \subseteq Ids, marked \subseteq active, faults \in 0..MaxFaults
  PROVE  /\ discards' \in Seq(Ids)
         /\ Len(discards') <= Len(queue)
         /\ Elements(discards') \subseteq Elements(queue)
         /\ marked \subseteq marked' /\ marked' \subseteq active
         /\ marked' \subseteq marked \cup Elements(queue)
         /\ after = Listed(active) =>
              Elements(queue) \cap active \subseteq Elements(discards') \cup marked'
         /\ faults' \in 0..MaxFaults /\ faults <= faults'
  <1> DEFINE tried == {queue[i] : i \in 1..Len(queue)} \cap
                        (IF after.ok THEN after.ids ELSE Ids)
  <1>1. tried \subseteq Elements(queue) /\ tried \subseteq Ids
    BY DEF Elements
  <1>2. after = Listed(active) => tried = Elements(queue) \cap active
    BY DEF Elements, Listed
  <1> HIDE DEF tried
  <1>3. PICK bad \in SUBSET tried, late \in SUBSET tried :
          /\ late \subseteq bad \cap active
          /\ faults' = faults + Cardinality(bad \cap active)
                              + (IF after.ok THEN 0 ELSE 1)
          /\ faults' <= MaxFaults
          /\ discards' = Kept(queue, bad)
          /\ marked' = marked \cup ((tried \cap active) \ bad) \cup late
    BY Zenon DEF DiscardQueued, tried
  <1>4. /\ discards' \in Seq(Ids)
        /\ Len(discards') <= Len(queue)
        /\ Elements(discards') = Elements(queue) \cap bad
    BY <1>3, KeptElements
  <1>5. Cardinality(bad \cap active) \in Nat
    BY <1>1, <1>3, IdsFinite, FS_Subset, FS_CardinalityType
  <1>6. (IF after.ok THEN 0 ELSE 1) \in Nat
    BY Zenon
  <1>7. faults' \in 0..MaxFaults /\ faults <= faults'
    <2> DEFINE c == Cardinality(bad \cap active)
               d == IF after.ok THEN 0 ELSE 1
    <2>1. c \in Nat /\ d \in Nat /\ faults' = faults + c + d
      BY <1>3, <1>5, <1>6
    <2> HIDE DEF c, d
    <2> QED
      BY <1>3, <2>1, IdsFinite
  <1>8. /\ marked \subseteq marked' /\ marked' \subseteq active
        /\ marked' \subseteq marked \cup Elements(queue)
    BY <1>1, <1>3
  <1>9. after = Listed(active) =>
          Elements(queue) \cap active \subseteq Elements(discards') \cup marked'
    BY <1>2, <1>3, <1>4
  <1> QED
    BY <1>4, <1>7, <1>8, <1>9

\* The prior id, if a new one is known to take its place.
Superseded(new) == IF new = 0 THEN {} ELSE {tlsCertIDs[name]} \ {0, new}

\* A successful LoadCert takes an id that the first listing did not show, and
\* queues at most the prior id of the same name.
LEMMA DoneStep ==
  ASSUME LoadCertDone, LoopTypeOK, ManagerTypeOK, VarnishTypeOK
  PROVE  \E new \in {0} \cup Ids :
           /\ new # 0 => before.ok /\ new \in active \ before.ids
           /\ tlsCertIDs' = IF new = 0 THEN tlsCertIDs
                            ELSE [tlsCertIDs EXCEPT ![name] = new]
           /\ discards' \in Seq(Ids) /\ Len(discards') <= Backlog
           /\ Queue' \subseteq Queue \cup Superseded(new)
           /\ marked \subseteq marked' /\ marked' \subseteq active
           /\ marked' \subseteq marked \cup Queue \cup Superseded(new)
           /\ faults' \in 0..MaxFaults /\ faults <= faults'
           /\ untraced' \in BOOLEAN
           /\ ~untraced' =>
                /\ ~untraced
                /\ before.ok /\ active \ before.ids # {} => new # 0
                /\ (Queue \cup Superseded(new)) \cap active
                     \subseteq Queue' \cup marked'
  <1> DEFINE Queues(new) == IF new = 0 THEN discards
                            ELSE Queued(tlsCertIDs[name], new)
  <1>1. PICK after \in {Listed(active)} \cup
                       (IF "list" \in Faults THEN {Unlisted} ELSE {}) :
          \E new \in IF NewIDs(after) = {} THEN {0} ELSE NewIDs(after) :
            /\ tlsCertIDs' = IF new = 0 THEN tlsCertIDs
                             ELSE [tlsCertIDs EXCEPT ![name] = new]
            /\ DiscardQueued(Queues(new), after)
            /\ untraced' = (untraced \/ ~after.ok \/ Overflows(Queues(new)))
    BY Zenon DEF LoadCertDone
  <1>2. PICK new \in IF NewIDs(after) = {} THEN {0} ELSE NewIDs(after) :
            /\ tlsCertIDs' = IF new = 0 THEN tlsCertIDs
                             ELSE [tlsCertIDs EXCEPT ![name] = new]
            /\ DiscardQueued(Queues(new), after)
            /\ untraced' = (untraced \/ ~after.ok \/ Overflows(Queues(new)))
    BY <1>1
  <1>3. after = Listed(active) \/ after = Unlisted
    BY <1>1
  <1>4. NewIDs(after) \subseteq active
    BY <1>3 DEF NewIDs, Listed, Unlisted
  <1>5. /\ new \in {0} \cup Ids
        /\ new # 0 => before.ok /\ new \in active \ before.ids
    <2>1. new = 0 \/ new \in NewIDs(after)
      BY <1>2
    <2>2. new \in NewIDs(after) => before.ok /\ new \in active \ before.ids
      BY <1>3, <1>4 DEF NewIDs, Listed, Unlisted
    <2> QED
      BY <2>1, <2>2 DEF VarnishTypeOK
  <1>6. /\ Queues(new) \in Seq(Ids) /\ Len(Queues(new)) <= Backlog
        /\ Elements(Queues(new)) \subseteq Queue \cup Superseded(new)
        /\ ~Overflows(Queues(new)) =>
             Elements(Queues(new)) = Queue \cup Superseded(new)
    <2>1. CASE new = 0
      BY <2>1 DEF ManagerTypeOK, Queue, Superseded
    <2>2. CASE new # 0
      <3>1. tlsCertIDs[name] \in {0} \cup Ids
        BY DEF ManagerTypeOK
      <3>2. Queues(new) = Queued(tlsCertIDs[name], new)
        BY <2>2
      <3>3. discards \in Seq(Ids) /\ Len(discards) <= Backlog
        BY DEF ManagerTypeOK
      <3> DEFINE q == Queued(tlsCertIDs[name], new)
      <3>4. /\ q \in Seq(Ids) /\ Len(q) <= Backlog
            /\ Elements(q) \subseteq
                 Elements(discards) \cup ({tlsCertIDs[name]} \ {0, new})
            /\ ~Overflows(q) =>
                 Elements(q) =
                   Elements(discards) \cup ({tlsCertIDs[name]} \ {0, new})
        BY <3>1, <3>3, QueuedElements
      <3>5. Superseded(new) = {tlsCertIDs[name]} \ {0, new}
        BY <2>2 DEF Superseded
      <3> HIDE DEF Queues, q
      <3>6. Queues(new) = q
        BY <3>2 DEF q
      <3> QED
        BY <3>4, <3>5, <3>6 DEF Queue
    <2> QED
      BY <2>1, <2>2
  <1> HIDE DEF Queues
  <1>7. /\ discards' \in Seq(Ids)
        /\ Len(discards') <= Len(Queues(new))
        /\ Queue' \subseteq Elements(Queues(new))
        /\ marked \subseteq marked' /\ marked' \subseteq active
        /\ marked' \subseteq marked \cup Elements(Queues(new))
        /\ after = Listed(active) =>
             Elements(Queues(new)) \cap active \subseteq Queue' \cup marked'
        /\ faults' \in 0..MaxFaults /\ faults <= faults'
    BY <1>2, <1>6, DiscardStep DEF LoopTypeOK, VarnishTypeOK, Queue
  <1>8. Len(discards') <= Backlog
    <2>1. Len(Queues(new)) \in Nat /\ Len(discards') \in Nat /\ Backlog \in Nat
      BY <1>6, <1>7, TlsAssumption
    <2> QED
      BY <1>6, <1>7, <2>1
  <1>9. ASSUME ~untraced'
        PROVE  /\ ~untraced
               /\ before.ok /\ active \ before.ids # {} => new # 0
               /\ (Queue \cup Superseded(new)) \cap active \subseteq Queue' \cup marked'
    <2>1. ~untraced /\ after.ok /\ ~Overflows(Queues(new))
      BY <1>2, <1>9, Zenon
    <2>2. after = Listed(active)
      BY <1>3, <2>1 DEF Unlisted
    <2>3. before.ok => NewIDs(after) = active \ before.ids
      BY <2>2 DEF NewIDs, Listed
    <2>4. 0 \notin active
      BY IdsFinite DEF VarnishTypeOK
    <2>5. before.ok /\ active \ before.ids # {} => new # 0
      BY <1>2, <2>3, <2>4
    <2> QED
      BY <1>6, <1>7, <2>1, <2>2, <2>5
  <1>10. untraced' \in BOOLEAN
    BY <1>2
  <1> QED
    BY <1>2, <1>5, <1>6, <1>7, <1>8, <1>9, <1>10

-----------------------------------------------------------------------------
(* The event loop.                                                         *)

\* Where a step of LoadCert leaves the loop: in the same place, or past name.
LEMMA LoopStep ==
  ASSUME LoopTypeOK, LoopInv, Running,
         NEW ok \in BOOLEAN, NEW n \in todo, pc \in {"boot", "certs"},
         Returned(n, ok), faults' \in 0..MaxFaults, UNCHANGED changes,
         step' = "none",
         ok => latestTLS[n] \in {Empty, served'[n]},
         \A m \in Certs \ {n} : served'[m] = served[m],
         ~ok => served' = served
  PROVE  LoopTypeOK' /\ LoopInv' /\ Running'
  <1>1. /\ n \in Open
        /\ ok => Open' = Open \ {n}
        /\ ~ok => Open' \subseteq Open
        /\ pc' \in {"boot", "certs", "select", "dead"}
        /\ pc' = "boot" => pc = "boot" /\ pendingCertNames' = {}
        /\ pc' = "certs" => /\ pc = "certs"
                            /\ todo' # {} /\ todo' \subseteq pendingCertNames'
                            /\ pendingCertNames' \ todo' # {} => failed'
        /\ pc' = "select" /\ pendingCertNames' # {} => tlsRecovery' \/ ~Retries
        /\ pendingCertNames' \subseteq Certs /\ todo' \subseteq Certs
        /\ tlsRecovery' \in BOOLEAN /\ failed' \in BOOLEAN
        /\ UNCHANGED <<latestTLS, tlsCert>>
    BY ReturnedStep
  <1>2. pc' # "dead" => \A m \in Certs \ Open' : latestTLS'[m] \in {Empty, served'[m]}
    <2> SUFFICES ASSUME pc' # "dead", NEW m \in Certs \ Open'
                 PROVE  latestTLS'[m] \in {Empty, served'[m]}
      OBVIOUS
    <2>1. CASE ok
      <3>1. m = n \/ m \notin Open
        BY <1>1, <2>1
      <3>2. m \notin Open => latestTLS[m] \in {Empty, served[m]}
        BY DEF LoopInv
      <3> QED
        BY <1>1, <2>1, <3>1, <3>2
    <2>2. CASE ~ok
      <3>1. pc = "certs" /\ Open' = Open
        BY <2>2 DEF Returned, Open, StillPending
      <3> QED
        BY <1>1, <2>2, <3>1 DEF LoopInv
    <2> QED
      BY <2>1, <2>2
  <1>3. LoopTypeOK'
    <2>1. latestTLS' \in [Certs -> Material] /\ tlsCert' \in BOOLEAN
      BY <1>1 DEF LoopTypeOK
    <2>2. changes' \in 0..MaxChanges
      BY DEF LoopTypeOK
    <2> QED
      BY <1>1, <2>1, <2>2, Zenon DEF LoopTypeOK
  <1>4. LoopInv'
    BY <1>1, <1>2, Zenon DEF LoopInv
  <1> QED
    BY <1>3, <1>4 DEF Running

LEMMA FailsCounted ==
  ASSUME NEW command, Fails(command), LoopTypeOK
  PROVE  faults' = faults + 1 /\ faults' \in 0..MaxFaults
  BY IdsFinite DEF Fails, LoopTypeOK

LEMMA LoopKept ==
  ASSUME LoopTypeOK, ManagerTypeOK, VarnishTypeOK, LoopInv, Running, [Next]_vars
  PROVE  LoopTypeOK' /\ LoopInv' /\ Running'
  <1> DEFINE Goal == LoopTypeOK' /\ LoopInv' /\ Running'
  <1>1. ASSUME NEW n \in Certs, NEW m \in Material, CertEvent(n, m) PROVE Goal
    <2> USE <1>1 DEF CertEvent
    <2>1. changes' \in 0..MaxChanges
      BY IdsFinite DEF LoopTypeOK
    <2>2. LoopTypeOK'
      BY <2>1 DEF LoopTypeOK
    <2>3. Open' = pendingCertNames \cup {n} /\ Open = pendingCertNames
      BY DEF Open
    <2>4. LoopInv'
      BY <2>3 DEF LoopInv, LoopTypeOK
    <2> QED
      BY <2>2, <2>4 DEF Running, managerVars
  <1>2. CASE HandleCertReload
    <2> USE <1>2 DEF HandleCertReload
    <2>1. LoopTypeOK'
      BY DEF LoopTypeOK
    <2>2. Open' = Open
      BY DEF Open
    <2>3. LoopInv'
      BY <2>2 DEF LoopInv
    <2> QED
      BY <2>1, <2>3 DEF Running, managerVars
  <1>3. ASSUME NEW n \in Certs, LoadCertNoop(n) PROVE Goal
    <2> DEFINE ok == latestTLS[n] = Empty
    <2>1. /\ n \in todo /\ pc \in {"boot", "certs"} /\ step' = "none"
          /\ ok \in BOOLEAN /\ Returned(n, ok)
          /\ served' = served /\ faults' = faults /\ changes' = changes
      BY <1>3 DEF LoadCertNoop, Idle, managerVars
    <2>2. ok => latestTLS[n] \in {Empty, served'[n]}
      OBVIOUS
    <2>3. faults' \in 0..MaxFaults
      BY <2>1 DEF LoopTypeOK
    <2> HIDE DEF ok
    <2> QED
      BY <2>1, <2>2, <2>3, LoopStep
  <1>4. ASSUME NEW n \in Certs, LoadCertFileFails(n) PROVE Goal
    <2>1. /\ n \in todo /\ pc \in {"boot", "certs"} /\ step' = "none"
          /\ Returned(n, FALSE)
          /\ served' = served /\ changes' = changes
      BY <1>4 DEF LoadCertFileFails, Idle, managerVars
    <2>2. faults' \in 0..MaxFaults
      BY <1>4, FailsCounted DEF LoadCertFileFails
    <2> QED
      BY <2>1, <2>2, LoopStep
  <1>5. ASSUME UNCHANGED <<loopVars, served, changes>>, faults' \in 0..MaxFaults,
               step' # "none" => Running'
        PROVE  Goal
    <2>1. LoopTypeOK'
      BY <1>5 DEF LoopTypeOK, loopVars
    <2>2. Open' = Open
      BY <1>5 DEF Open, loopVars
    <2>3. LoopInv'
      BY <1>5, <2>2 DEF LoopInv, loopVars
    <2> QED
      BY <1>5, <2>1, <2>3 DEF Running
  <1>6. ASSUME NEW n \in Certs, LoadCert(n) PROVE Goal
    <2>1. faults' \in 0..MaxFaults
      <3>1. UNCHANGED faults \/ Fails("list")
        BY <1>6 DEF LoadCert
      <3> QED
        BY <3>1, FailsCounted DEF LoopTypeOK
    <2>2. Running'
      BY <1>6 DEF Running, LoadCert, Idle, loopVars
    <2> QED
      BY <1>5, <1>6, <2>1, <2>2 DEF LoadCert
  <1>7. CASE TlsLoad
    <2>1. faults' \in 0..MaxFaults
      <3>1. UNCHANGED faults \/ Fails("load") \/ Fails("load late")
        BY <1>7 DEF TlsLoad
      <3> QED
        BY <3>1, FailsCounted DEF LoopTypeOK
    <2>2. Running'
      BY <1>7 DEF Running, TlsLoad, loopVars
    <2> QED
      BY <1>5, <1>7, <2>1, <2>2 DEF TlsLoad
  <1>8. CASE TlsCommit
    <2>1. faults' \in 0..MaxFaults
      <3>1. UNCHANGED faults \/ Fails("commit") \/ Fails("commit late")
        BY <1>8 DEF TlsCommit
      <3> QED
        BY <3>1, FailsCounted DEF LoopTypeOK
    <2>2. Running'
      BY <1>8 DEF Running, TlsCommit, loopVars
    <2> QED
      BY <1>5, <1>8, <2>1, <2>2 DEF TlsCommit
  <1>9. CASE TlsRollback
    <2>1. faults' \in 0..MaxFaults
      <3>1. UNCHANGED faults \/ Fails("rollback")
        BY <1>9 DEF TlsRollback
      <3> QED
        BY <3>1, FailsCounted DEF LoopTypeOK
    <2>2. /\ name \in todo /\ pc \in {"boot", "certs"} /\ step' = "none"
          /\ Returned(name, FALSE) /\ served' = served /\ changes' = changes
      BY <1>9 DEF TlsRollback, Running
    <2> QED
      BY <2>1, <2>2, LoopStep
  <1>10. CASE LoadCertDone
    <2>1. faults' \in 0..MaxFaults
      BY <1>10, DoneStep
    <2>2. /\ name \in todo /\ pc \in {"boot", "certs"} /\ step' = "none"
          /\ Returned(name, TRUE) /\ changes' = changes
          /\ served' = [served EXCEPT ![name] = latestTLS[name]]
      BY <1>10 DEF LoadCertDone, Running
    <2>3. /\ latestTLS[name] \in {Empty, served'[name]}
          /\ \A m \in Certs \ {name} : served'[m] = served[m]
      BY <2>2 DEF VarnishTypeOK, ManagerTypeOK
    <2> QED
      BY <2>1, <2>2, <2>3, LoopStep
  <1>11. CASE UNCHANGED vars
    BY <1>5, <1>11 DEF vars, managerVars, Running, LoopTypeOK, loopVars
  <1> QED
    BY <1>1, <1>2, <1>3, <1>4, <1>6, <1>7, <1>8, <1>9, <1>10, <1>11
       DEF Next, Loop, Manager

-----------------------------------------------------------------------------
(* The number of certificates varnishd is given.                           *)

LEMMA OpenFinite ==
  ASSUME LoopTypeOK
  PROVE  IsFiniteSet(Open) /\ Cardinality(Open) \in Nat
  <1>1. Open \subseteq Certs
    BY DEF Open, LoopTypeOK
  <1>2. IsFiniteSet(Open)
    BY <1>1, TlsAssumption, FS_Subset
  <1> QED
    BY <1>2, FS_CardinalityType

\* There is an id left for every load.
LEMMA IdLeft ==
  ASSUME LoopTypeOK, VarnishTypeOK, LoopInv, Running, LoadsCounted, step = "load"
  PROVE  lastID + 1 \in Ids /\ lastID \in Nat
  <1>1. name \in Open
    BY DEF Running, LoopInv, Open
  <1>2. IsFiniteSet(Open) /\ Cardinality(Open) \in Nat
    BY OpenFinite
  <1>3. Cardinality(Open) >= 1
    BY <1>1, <1>2, FS_EmptySet
  <1>4. InFlight = 0
    BY DEF InFlight
  <1>5. lastID \in Nat
    BY IdsFinite DEF VarnishTypeOK
  <1>6. faults \in 0..MaxFaults /\ changes \in 0..MaxChanges
    BY DEF LoopTypeOK
  <1>7. lastID + 1 <= Cardinality(Certs) + MaxFaults + MaxChanges
    BY <1>2, <1>3, <1>4, <1>5, <1>6, IdsFinite DEF LoadsCounted
  <1> QED
    BY <1>5, <1>7, IdsFinite DEF Ids

LEMMA LoadsCountedKept ==
  ASSUME LoopTypeOK, ManagerTypeOK, VarnishTypeOK, LoopInv, Running,
         LoadsCounted, LoopTypeOK', [Next]_vars
  PROVE  LoadsCounted'
  <1>1. /\ IsFiniteSet(Open) /\ Cardinality(Open) \in Nat
        /\ IsFiniteSet(Open') /\ Cardinality(Open') \in Nat
    <2>1. Open' \subseteq Certs
      BY DEF Open, LoopTypeOK
    <2>2. IsFiniteSet(Open')
      BY <2>1, TlsAssumption, FS_Subset
    <2> QED
      BY <2>2, OpenFinite, FS_CardinalityType
  <1>2. /\ lastID \in Nat /\ faults \in Nat /\ changes \in Nat
        /\ faults' \in Nat /\ changes' \in Nat
        /\ Cardinality(Certs) \in Nat
        /\ InFlight \in {0, 1} /\ InFlight' \in {0, 1}
    BY IdsFinite DEF LoopTypeOK, VarnishTypeOK, InFlight
  <1>3. ASSUME Open' \subseteq Open
        PROVE  Cardinality(Open') <= Cardinality(Open)
    BY <1>1, <1>3, FS_Subset
  <1>4. lastID + Cardinality(Open) <=
          Cardinality(Certs) + faults + changes + InFlight
    BY DEF LoadsCounted
  \* Nothing is loaded, and no more names are open than before.
  <1>5. ASSUME Open' \subseteq Open, lastID' = lastID, faults' >= faults,
               changes' = changes, InFlight' >= InFlight
        PROVE  LoadsCounted'
    BY <1>1, <1>2, <1>3, <1>4, <1>5 DEF LoadsCounted
  <1>6. ASSUME NEW n \in Certs, NEW m \in Material, CertEvent(n, m)
        PROVE  LoadsCounted'
    <2>1. Open' = Open \cup {n}
      BY <1>6 DEF CertEvent, Open
    <2>2. Cardinality(Open') <= Cardinality(Open) + 1
      <3>1. CASE n \in Open
        <4>1. Open' = Open
          BY <2>1, <3>1
        <4> QED
          BY <1>1, <4>1
      <3>2. CASE n \notin Open
        BY <1>1, <2>1, <3>2, FS_AddElement
      <3> QED
        BY <3>1, <3>2
    <2>3. /\ changes' = changes + 1 /\ faults' = faults /\ lastID' = lastID
          /\ InFlight' = InFlight
      BY <1>6 DEF CertEvent, varnishVars, managerVars, InFlight
    <2> QED
      BY <1>1, <1>2, <1>4, <2>2, <2>3 DEF LoadsCounted
  <1>7. CASE HandleCertReload
    <2>1. Open' = Open
      BY <1>7 DEF HandleCertReload, Open
    <2>2. /\ changes' = changes /\ faults' = faults /\ lastID' = lastID
          /\ InFlight' = InFlight
      BY <1>7 DEF HandleCertReload, varnishVars, managerVars, InFlight
    <2> QED
      BY <1>2, <1>5, <2>1, <2>2
  <1>8. ASSUME NEW n \in Certs, LoadCertNoop(n) \/ LoadCertFileFails(n)
        PROVE  LoadsCounted'
    <2>1. PICK ok \in BOOLEAN : Returned(n, ok)
      BY <1>8 DEF LoadCertNoop, LoadCertFileFails
    <2>2. /\ n \in todo /\ pc \in {"boot", "certs"}
          /\ changes' = changes /\ lastID' = lastID /\ InFlight' = InFlight
      BY <1>8 DEF LoadCertNoop, LoadCertFileFails, Idle, varnishVars, managerVars,
                  InFlight
    <2>3. Open' \subseteq Open
      BY <2>1, <2>2, ReturnedStep
    <2>4. faults' >= faults
      <3>1. faults' = faults \/ Fails("file")
        BY <1>8 DEF LoadCertNoop, LoadCertFileFails
      <3> QED
        BY <1>2, <3>1, FailsCounted
    <2> QED
      BY <1>2, <1>5, <2>2, <2>3, <2>4
  <1>9. ASSUME NEW n \in Certs, LoadCert(n) PROVE LoadsCounted'
    <2>1. Open' = Open /\ changes' = changes /\ lastID' = lastID
      BY <1>9 DEF LoadCert, Open, loopVars, varnishVars
    <2>2. InFlight = 0
      BY <1>9 DEF LoadCert, Idle, InFlight
    <2>3. faults' >= faults
      <3>1. faults' = faults \/ Fails("list")
        BY <1>9 DEF LoadCert
      <3> QED
        BY <1>2, <3>1, FailsCounted
    <2> QED
      BY <1>2, <1>5, <2>1, <2>2, <2>3
  <1>10. CASE TlsLoad
    <2>1. Open' = Open /\ changes' = changes /\ InFlight = 0
      BY <1>10 DEF TlsLoad, Open, loopVars, InFlight
    <2>2. CASE Stage /\ step' = "commit" /\ UNCHANGED faults
      <3>1. lastID' = lastID + 1 /\ InFlight' = 1 /\ faults' = faults
        BY <2>2 DEF Stage, InFlight
      <3> QED
        BY <1>1, <1>2, <1>4, <2>1, <3>1 DEF LoadsCounted
    <2>3. CASE Fails("load") /\ UNCHANGED <<lastID, staged, issued>>
      <3>1. faults' = faults + 1
        BY <2>3, FailsCounted
      <3> QED
        BY <1>2, <1>5, <2>1, <2>3, <3>1
    <2>4. CASE Fails("load late") /\ Stage /\ step' = "rollback"
      <3>1. faults' = faults + 1 /\ lastID' = lastID + 1 /\ InFlight' = 0
        BY <2>4, FailsCounted DEF Stage, InFlight
      <3> QED
        BY <1>1, <1>2, <1>4, <2>1, <3>1 DEF LoadsCounted
    <2> QED
      BY <1>10, <2>2, <2>3, <2>4 DEF TlsLoad
  <1>11. CASE TlsCommit
    <2>1. Open' = Open /\ changes' = changes /\ lastID' = lastID /\ InFlight = 1
      BY <1>11 DEF TlsCommit, Open, loopVars, InFlight
    <2>2. CASE step' = "list" /\ UNCHANGED faults
      <3>1. InFlight' = 1
        BY <2>2 DEF InFlight
      <3> QED
        BY <1>2, <1>5, <2>1, <2>2, <3>1
    <2>3. CASE Fails("commit") \/ Fails("commit late")
      <3>1. faults' = faults + 1
        BY <2>3, FailsCounted
      <3> QED
        BY <1>1, <1>2, <1>4, <2>1, <3>1 DEF LoadsCounted
    <2> QED
      BY <1>11, <2>2, <2>3 DEF TlsCommit
  <1>12. CASE TlsRollback
    <2>1. /\ changes' = changes /\ lastID' = lastID /\ InFlight = 0
          /\ Returned(name, FALSE)
          /\ name \in todo /\ pc \in {"boot", "certs"}
      BY <1>12 DEF TlsRollback, InFlight, Running
    <2>2. Open' \subseteq Open
      BY <2>1, ReturnedStep
    <2>3. faults' >= faults
      <3>1. faults' = faults \/ Fails("rollback")
        BY <1>12 DEF TlsRollback
      <3> QED
        BY <1>2, <3>1, FailsCounted
    <2> QED
      BY <1>2, <1>5, <2>1, <2>2, <2>3
  <1>13. CASE LoadCertDone
    <2>1. /\ changes' = changes /\ lastID' = lastID
          /\ InFlight = 1 /\ InFlight' = 0
          /\ Returned(name, TRUE)
          /\ name \in todo /\ pc \in {"boot", "certs"}
      BY <1>13 DEF LoadCertDone, InFlight, Running
    <2>2. name \in Open /\ Open' = Open \ {name}
      BY <2>1, ReturnedStep
    <2>3. Cardinality(Open') = Cardinality(Open) - 1
      BY <1>1, <2>2, FS_RemoveElement
    <2>4. faults <= faults'
      BY <1>13, DoneStep
    <2> QED
      BY <1>1, <1>2, <1>4, <2>1, <2>3, <2>4 DEF LoadsCounted
  <1>14. CASE UNCHANGED vars
    <2>1. /\ Open' = Open /\ lastID' = lastID /\ faults' = faults
          /\ changes' = changes /\ InFlight' = InFlight
      BY <1>14 DEF vars, loopVars, managerVars, varnishVars, Open, InFlight
    <2> QED
      BY <1>2, <1>5, <2>1
  <1> QED
    BY <1>6, <1>7, <1>8, <1>9, <1>10, <1>11, <1>12, <1>13, <1>14
       DEF Next, Loop, Manager

-----------------------------------------------------------------------------
(* The types of the manager and of varnishd.                               *)

\* The steps of the loop, which leave the manager's and varnishd's state alone.
Outside ==
  /\ step' = step /\ name' = name /\ before' = before
  /\ tlsCertIDs' = tlsCertIDs /\ discards' = discards
  /\ staged' = staged /\ active' = active /\ marked' = marked
  /\ lastID' = lastID /\ issued' = issued
  /\ served' = served /\ untraced' = untraced
  /\ step # "none" => latestTLS' = latestTLS

LEMMA OutsideSteps ==
  ASSUME Running, [Next]_vars
  PROVE  \/ Outside
         \/ \E n \in Certs : LoadCert(n)
         \/ TlsLoad \/ TlsCommit \/ TlsRollback \/ LoadCertDone
  <1>1. ASSUME NEW n \in Certs, NEW m \in Material, CertEvent(n, m) PROVE Outside
    BY <1>1 DEF CertEvent, Outside, Running, managerVars, varnishVars
  <1>2. ASSUME HandleCertReload PROVE Outside
    BY <1>2 DEF HandleCertReload, Outside, managerVars, varnishVars
  <1>3. ASSUME NEW n \in Certs, LoadCertNoop(n) PROVE Outside
    BY <1>3 DEF LoadCertNoop, Returned, Outside, managerVars, varnishVars
  <1>4. ASSUME NEW n \in Certs, LoadCertFileFails(n) PROVE Outside
    BY <1>4 DEF LoadCertFileFails, Returned, Outside, managerVars, varnishVars
  <1>5. ASSUME UNCHANGED vars PROVE Outside
    BY <1>5 DEF vars, Outside, loopVars, managerVars, varnishVars
  <1> QED
    BY <1>1, <1>2, <1>3, <1>4, <1>5 DEF Next, Loop, Manager

LEMMA ManagerTypesKept ==
  ASSUME LoopTypeOK, ManagerTypeOK, VarnishTypeOK, Running, [Next]_vars
  PROVE  ManagerTypeOK'
  <1> USE DEF ManagerTypeOK
  <1>1. CASE Outside
    BY <1>1 DEF Outside
  <1>2. ASSUME NEW n \in Certs, LoadCert(n) PROVE ManagerTypeOK'
    <2>1. before' \in [ok : BOOLEAN, ids : SUBSET Ids]
      <3>1. before' = Listed(active) \/ before' = Unlisted
        BY <1>2 DEF LoadCert
      <3>2. active \in SUBSET Ids /\ {} \in SUBSET Ids
        BY DEF VarnishTypeOK
      <3>3. /\ Listed(active) \in [ok : BOOLEAN, ids : SUBSET Ids]
            /\ Unlisted \in [ok : BOOLEAN, ids : SUBSET Ids]
        BY <3>2 DEF Listed, Unlisted
      <3> QED
        BY <3>1, <3>3
    <2> QED
      BY <1>2, <2>1 DEF LoadCert
  <1>3. CASE TlsLoad
    BY <1>3 DEF TlsLoad
  <1>4. CASE TlsCommit
    BY <1>4 DEF TlsCommit
  <1>5. CASE TlsRollback
    BY <1>5 DEF TlsRollback
  <1>6. CASE LoadCertDone
    <2>1. step' = "none" /\ name' = name /\ before' = before
      BY <1>6 DEF LoadCertDone
    <2>2. PICK new \in {0} \cup Ids :
            /\ tlsCertIDs' = IF new = 0 THEN tlsCertIDs
                             ELSE [tlsCertIDs EXCEPT ![name] = new]
            /\ discards' \in Seq(Ids) /\ Len(discards') <= Backlog
      BY <1>6, DoneStep
    <2>3. tlsCertIDs' \in [Certs -> {0} \cup Ids]
      BY <2>2
    <2> QED
      BY <2>1, <2>2, <2>3
  <1> QED
    BY <1>1, <1>2, <1>3, <1>4, <1>5, <1>6, OutsideSteps

LEMMA VarnishTypesKept ==
  ASSUME LoopTypeOK, ManagerTypeOK, VarnishTypeOK, LoopInv, Running,
         LoadsCounted, [Next]_vars
  PROVE  VarnishTypeOK'
  <1> USE DEF VarnishTypeOK
  <1>1. CASE Outside
    BY <1>1 DEF Outside
  <1>2. ASSUME NEW n \in Certs, LoadCert(n) PROVE VarnishTypeOK'
    BY <1>2 DEF LoadCert, varnishVars
  <1>3. CASE TlsLoad
    <2>1. UNCHANGED <<active, marked, served, untraced>>
      BY <1>3 DEF TlsLoad
    <2>2. CASE Stage
      <3>1. lastID + 1 \in Ids
        BY <1>3, IdLeft DEF TlsLoad
      <3>2. <<name, latestTLS[name]>> \in Certs \X Material
        BY DEF LoopTypeOK, ManagerTypeOK
      <3> QED
        BY <2>1, <2>2, <3>1, <3>2 DEF Stage
    <2>3. CASE UNCHANGED <<lastID, staged, issued>>
      BY <2>1, <2>3
    <2> QED
      BY <1>3, <2>2, <2>3 DEF TlsLoad
  <1>4. CASE TlsCommit
    <2>1. UNCHANGED <<lastID, issued, served>> /\ untraced' \in BOOLEAN
      BY <1>4 DEF TlsCommit
    <2>2. CASE Activate
      BY <2>1, <2>2 DEF Activate
    <2>3. CASE UNCHANGED <<active, marked, staged>>
      BY <2>1, <2>3
    <2> QED
      BY <1>4, <2>2, <2>3 DEF TlsCommit
  <1>5. CASE TlsRollback
    BY <1>5 DEF TlsRollback
  <1>6. CASE LoadCertDone
    <2>1. UNCHANGED <<staged, active, lastID, issued>>
      BY <1>6 DEF LoadCertDone
    <2>2. served' \in [Certs -> Material]
      BY <1>6 DEF LoadCertDone, LoopTypeOK, ManagerTypeOK
    <2>3. marked' \subseteq active /\ untraced' \in BOOLEAN
      BY <1>6, DoneStep
    <2> QED
      BY <2>1, <2>2, <2>3
  <1> QED
    BY <1>1, <1>2, <1>3, <1>4, <1>5, <1>6, OutsideSteps
-----------------------------------------------------------------------------
(* Which ids are known, and to whom.                                       *)

LEMMA IssuedKept ==
  ASSUME LoopTypeOK, ManagerTypeOK, VarnishTypeOK, LoopInv, Running,
         LoadsCounted, IssuedBefore, Fresh, [Next]_vars
  PROVE  IssuedBefore' /\ Fresh'
  <1>0. /\ lastID \in Nat /\ active \subseteq Nat /\ staged \subseteq Nat
        /\ Queue \subseteq Nat /\ before.ids \subseteq Nat
        /\ \A n \in Certs : tlsCertIDs[n] \in Nat
    <2>1. Queue \subseteq Ids
      BY DEF ManagerTypeOK, Queue, Elements
    <2>2. Ids \subseteq Nat
      BY IdsFinite
    <2>3. lastID \in Nat /\ active \subseteq Nat /\ staged \subseteq Nat
      BY <2>2 DEF VarnishTypeOK
    <2>4. before.ids \subseteq Nat
      BY <2>2 DEF ManagerTypeOK
    <2>5. \A n \in Certs : tlsCertIDs[n] \in Nat
      <3>1. {0} \cup Ids \subseteq Nat
        BY <2>2
      <3>2. \A n \in Certs : tlsCertIDs[n] \in {0} \cup Ids
        BY DEF ManagerTypeOK
      <3> QED
        BY <3>1, <3>2
    <2> QED
      BY <2>1, <2>2, <2>3, <2>4, <2>5
  <1>1. CASE Outside
    <2>1. Queue' = Queue
      BY <1>1 DEF Outside, Queue
    <2> QED
      BY <1>1, <2>1 DEF IssuedBefore, Fresh, Outside
  <1>2. ASSUME NEW n \in Certs, LoadCert(n) PROVE IssuedBefore' /\ Fresh'
    <2>1. /\ Queue' = Queue /\ UNCHANGED <<tlsCertIDs, varnishVars>>
          /\ step' = "load"
          /\ before' = Listed(active) \/ before' = Unlisted
      BY <1>2 DEF LoadCert, Queue
    <2>2. before'.ids \subseteq active
      BY <2>1 DEF Listed, Unlisted
    <2> QED
      BY <2>1, <2>2 DEF IssuedBefore, Fresh, varnishVars
  <1>3. CASE TlsLoad
    <2>1. /\ Queue' = Queue /\ UNCHANGED <<tlsCertIDs, before, name, active, marked>>
          /\ latestTLS' = latestTLS
          /\ step = "load"
      BY <1>3 DEF TlsLoad, Queue, loopVars
    <2>2. CASE Stage
      <3>1. lastID' = lastID + 1 /\ staged' = staged \cup {lastID + 1}
        BY <2>2 DEF Stage
      <3>2. lastID + 1 \in Ids
        BY <2>1, IdLeft
      <3>3. issued'[lastID + 1] = <<name, latestTLS[name]>>
        BY <2>2, <3>2 DEF Stage, VarnishTypeOK
      <3>4. /\ \A i \in active \cup staged \cup Queue \cup before.ids :
                 i <= lastID /\ i # lastID + 1
            /\ \A n \in Certs : tlsCertIDs[n] <= lastID /\ tlsCertIDs[n] # lastID + 1
        BY <1>0, <2>1 DEF IssuedBefore
      <3>5. IssuedBefore'
        <4>1. step' # "load"
          BY <1>3, <2>2, <3>1, <1>0 DEF TlsLoad
        <4>2. \A i \in active \cup staged \cup Queue : i <= lastID + 1
          BY <1>0, <3>4
        <4>3. \A n \in Certs : tlsCertIDs[n] <= lastID + 1
          BY <1>0, <3>4
        <4>4. lastID + 1 <= lastID + 1
          BY <1>0
        <4> QED
          BY <2>1, <3>1, <4>1, <4>2, <4>3, <4>4 DEF IssuedBefore
      <3>6. Fresh'
        <4>0. lastID' # lastID /\ lastID + 1 # 0
          BY <1>0, <3>1
        <4>1. step' \in {"commit", "rollback"} /\ lastID + 1 # 0
          BY <4>0, <1>3 DEF TlsLoad
        <4> QED
          BY <2>1, <3>1, <3>3, <3>4, <4>1 DEF Fresh
      <3> QED
        BY <3>5, <3>6
    <2>3. CASE step' = "rollback" /\ UNCHANGED <<lastID, staged, issued>>
      BY <2>1, <2>3 DEF IssuedBefore, Fresh
    <2> QED
      BY <1>3, <2>2, <2>3 DEF TlsLoad
  <1>4. CASE TlsCommit
    <2>1. /\ Queue' = Queue
          /\ UNCHANGED <<tlsCertIDs, before, name, lastID, issued, latestTLS>>
          /\ step = "commit" /\ step' \in {"list", "rollback"}
      BY <1>4 DEF TlsCommit, Queue, loopVars
    <2>2. CASE Activate
      <3>1. /\ active' \subseteq active \cup staged /\ staged \subseteq active'
            /\ staged' = {} /\ marked' = {}
        BY <2>2 DEF Activate
      <3> QED
        BY <2>1, <3>1 DEF IssuedBefore, Fresh
    <2>3. CASE step' = "rollback" /\ UNCHANGED <<active, marked, staged>>
      BY <2>1, <2>3 DEF IssuedBefore, Fresh
    <2> QED
      BY <1>4, <2>2, <2>3 DEF TlsCommit
  <1>5. CASE TlsRollback
    <2>1. /\ Queue' = Queue
          /\ UNCHANGED <<tlsCertIDs, lastID, active>>
          /\ step' = "none" /\ staged' \subseteq staged
      BY <1>5 DEF TlsRollback, Queue
    <2> QED
      BY <2>1 DEF IssuedBefore, Fresh
  <1>6. CASE LoadCertDone
    <2>1. UNCHANGED <<staged, active, lastID>> /\ step' = "none"
      BY <1>6 DEF LoadCertDone
    <2>2. PICK new \in {0} \cup Ids :
            /\ new # 0 => new \in active \ before.ids
            /\ tlsCertIDs' = IF new = 0 THEN tlsCertIDs
                             ELSE [tlsCertIDs EXCEPT ![name] = new]
            /\ Queue' \subseteq Queue \cup Superseded(new)
      BY <1>6, DoneStep
    <2>3. Superseded(new) \subseteq {tlsCertIDs[n] : n \in Certs}
      BY DEF Superseded, ManagerTypeOK
    <2>4. \A i \in Queue' : i <= lastID
      BY <2>2, <2>3 DEF IssuedBefore
    <2>5. \A n \in Certs : tlsCertIDs'[n] <= lastID
      <3>1. \A n \in Certs : tlsCertIDs'[n] = tlsCertIDs[n] \/ tlsCertIDs'[n] \in active
        BY <2>2 DEF ManagerTypeOK
      <3> QED
        BY <3>1 DEF IssuedBefore
    <2> QED
      BY <2>1, <2>4, <2>5 DEF IssuedBefore, Fresh
  <1> QED
    BY <1>1, <1>2, <1>3, <1>4, <1>5, <1>6, OutsideSteps

-----------------------------------------------------------------------------
(* What LoadCert promised.                                                 *)

LEMMA ServedKept ==
  ASSUME LoopTypeOK, ManagerTypeOK, VarnishTypeOK, LoopInv, Running,
         LoadsCounted, IssuedBefore, Fresh, ServedHeld, [Next]_vars
  PROVE  ServedHeld'
  \* In a step that is not the end of a load the same certificate is held.
  <1>1. ASSUME served' = served,
               \A n \in Certs, i \in Ids : Holds(n, i) => Holds(n, i)'
        PROVE  ServedHeld'
    BY <1>1 DEF ServedHeld
  <1>2. CASE Outside
    <2>1. Queue' = Queue
      BY <1>2 DEF Outside, Queue
    <2> QED
      BY <1>1, <1>2, <2>1 DEF Outside, Holds
  <1>3. ASSUME NEW n \in Certs, LoadCert(n) PROVE ServedHeld'
    <2>1. /\ Queue' = Queue
          /\ UNCHANGED <<tlsCertIDs, served, active, marked, issued>>
          /\ before' = Listed(active) \/ before' = Unlisted
      BY <1>3 DEF LoadCert, Queue, varnishVars
    <2>2. before'.ok => before'.ids = active
      BY <2>1 DEF Listed, Unlisted
    <2> QED
      BY <1>1, <2>1, <2>2 DEF Holds
  <1>4. CASE TlsLoad
    <2>1. /\ Queue' = Queue
          /\ UNCHANGED <<tlsCertIDs, served, active, marked, before>>
          /\ step = "load"
      BY <1>4 DEF TlsLoad, Queue
    <2>2. \A i \in active : issued'[i] = issued[i]
      <3>1. CASE Stage
        <4>1. issued' = [issued EXCEPT ![lastID + 1] = <<name, latestTLS[name]>>]
          BY <3>1 DEF Stage
        <4>2. \A i \in active : i # lastID + 1 /\ i \in Ids
          <5>1. \A i \in active : i \in Nat /\ i \in Ids
            BY IdsFinite DEF VarnishTypeOK
          <5>2. lastID \in Nat
            BY <2>1, IdLeft
          <5> QED
            BY <5>1, <5>2 DEF IssuedBefore
        <4> QED
          BY <4>1, <4>2 DEF VarnishTypeOK
      <3>2. CASE UNCHANGED issued
        BY <3>2
      <3> QED
        BY <1>4, <3>1, <3>2 DEF TlsLoad
    <2> QED
      BY <1>1, <2>1, <2>2 DEF Holds
  <1>5. CASE TlsCommit
    <2>1. /\ Queue' = Queue
          /\ UNCHANGED <<tlsCertIDs, served, issued, before>>
          /\ step = "commit"
      BY <1>5 DEF TlsCommit, Queue
    <2>2. active \ marked \subseteq active' \ marked'
      <3>1. CASE Activate
        BY <3>1 DEF Activate
      <3>2. CASE UNCHANGED <<active, marked>>
        BY <3>2
      <3> QED
        BY <1>5, <3>1, <3>2 DEF TlsCommit
    <2> QED
      BY <1>1, <2>1, <2>2 DEF Holds
  <1>6. CASE TlsRollback
    <2>1. /\ Queue' = Queue
          /\ UNCHANGED <<tlsCertIDs, served, issued, before, active, marked>>
          /\ step' = "none"
      BY <1>6 DEF TlsRollback, Queue
    <2> QED
      BY <1>1, <2>1 DEF Holds
  <1>7. CASE LoadCertDone
    <2>1. /\ step = "list" /\ step' = "none"
          /\ UNCHANGED <<active, issued>>
          /\ served' = [served EXCEPT ![name] = latestTLS[name]]
      BY <1>7 DEF LoadCertDone
    <2>2. PICK new \in {0} \cup Ids :
            /\ new # 0 => before.ok /\ new \in active \ before.ids
            /\ tlsCertIDs' = IF new = 0 THEN tlsCertIDs
                             ELSE [tlsCertIDs EXCEPT ![name] = new]
            /\ Queue' \subseteq Queue \cup Superseded(new)
            /\ marked' \subseteq marked \cup Queue \cup Superseded(new)
      BY <1>7, DoneStep
    <2>3. /\ name \in Certs
          /\ Superseded(new) \subseteq {tlsCertIDs[name]}
          /\ \A m \in Certs \ {name} : tlsCertIDs'[m] = tlsCertIDs[m]
          /\ tlsCertIDs'[name] = tlsCertIDs[name]
               \/ (new # 0 /\ tlsCertIDs'[name] = new)
      <3>1. name \in Certs /\ tlsCertIDs \in [Certs -> {0} \cup Ids]
        BY DEF ManagerTypeOK
      <3>2. Superseded(new) \subseteq {tlsCertIDs[name]}
        BY DEF Superseded
      <3>3. CASE new = 0
        <4>1. tlsCertIDs' = tlsCertIDs
          BY <2>2, <3>3
        <4>2. /\ \A m \in Certs \ {name} : tlsCertIDs'[m] = tlsCertIDs[m]
              /\ tlsCertIDs'[name] = tlsCertIDs[name]
          BY <4>1, Zenon
        <4> QED
          BY <3>1, <3>2, <4>2
      <3>4. CASE new # 0
        <4>1. tlsCertIDs' = [tlsCertIDs EXCEPT ![name] = new]
          BY <2>2, <3>4
        <4>2. /\ \A m \in Certs \ {name} : tlsCertIDs'[m] = tlsCertIDs[m]
              /\ tlsCertIDs'[name] = new
          BY <3>1, <4>1
        <4> QED
          BY <3>1, <3>2, <3>4, <4>2
      <3> QED
        BY <3>3, <3>4
    <2>4. ASSUME NEW n \in Certs \ {name}, served'[n] # Empty
          PROVE  \E i \in Ids : Holds(n, i)'
      <3>1. served'[n] = served[n]
        BY <2>1 DEF VarnishTypeOK
      <3>2. PICK i \in Ids : Holds(n, i)
        BY <2>4, <3>1 DEF ServedHeld
      <3>3. i \notin Queue \cup Superseded(new)
        BY <2>3, <2>4, <3>2 DEF Holds
      <3>4. tlsCertIDs'[name] # i
        BY <2>1, <2>2, <2>3, <2>4, <3>2 DEF Holds
      <3>5. \A m \in Certs \ {n} : tlsCertIDs'[m] # i
        BY <2>3, <3>2, <3>4 DEF Holds
      <3>6. Holds(n, i)'
        BY <2>1, <2>2, <3>1, <3>2, <3>3, <3>5 DEF Holds
      <3> QED
        BY <3>6
    <2>5. Holds(name, lastID)'
      <3>1. /\ issued[lastID] = <<name, latestTLS[name]>>
            /\ \A n \in Certs : tlsCertIDs[n] # lastID
            /\ lastID \notin Queue
            /\ lastID \in active \ marked
        BY <2>1 DEF Fresh
      <3>2. name' = name /\ lastID' = lastID
        BY <1>7 DEF LoadCertDone
      <3>3. served'[name] = latestTLS[name]
        BY <2>1, <2>3 DEF VarnishTypeOK
      <3>4. lastID \notin Queue' /\ lastID \notin marked'
        BY <2>2, <2>3, <3>1
      <3> QED
        BY <2>1, <2>3, <3>1, <3>2, <3>3, <3>4 DEF Holds
    <2>6. lastID' \in Ids /\ name' = name
      BY <1>7, <2>1, IdsFinite DEF LoadCertDone, Fresh, VarnishTypeOK
    <2> QED
      BY <2>4, <2>5, <2>6 DEF ServedHeld
  <1> QED
    BY <1>2, <1>3, <1>4, <1>5, <1>6, <1>7, OutsideSteps

LEMMA TrackedKept ==
  ASSUME LoopTypeOK, ManagerTypeOK, VarnishTypeOK, Running,
         IssuedBefore, Fresh, AllTracked, [Next]_vars
  PROVE  AllTracked'
  <1>1. CASE Outside
    <2>1. Queue' = Queue
      BY <1>1 DEF Outside, Queue
    <2> QED
      BY <1>1, <2>1 DEF Outside, AllTracked, Tracked
  <1>2. ASSUME untraced' PROVE AllTracked'
    BY <1>2 DEF AllTracked
  <1>3. ASSUME NEW n \in Certs, LoadCert(n) PROVE AllTracked'
    <2>1. /\ Queue' = Queue /\ UNCHANGED <<tlsCertIDs, active, marked, staged>>
          /\ step = "none" /\ step' = "load"
      BY <1>3 DEF LoadCert, Queue, Idle, varnishVars
    <2>2. CASE before' = Listed(active) /\ untraced' = untraced
      <3>1. before'.ok /\ before'.ids = active
        BY <2>2 DEF Listed
      <3> QED
        BY <2>1, <2>2, <3>1 DEF AllTracked, Tracked
    <2> QED
      BY <1>2, <1>3, <2>2 DEF LoadCert
  <1>4. CASE TlsLoad
    <2>1. /\ Queue' = Queue
          /\ UNCHANGED <<tlsCertIDs, active, marked, before, untraced>>
          /\ step = "load" /\ step' \in {"commit", "rollback"}
      BY <1>4 DEF TlsLoad, Queue
    <2>2. ~untraced => staged' \subseteq {lastID'}
      <3>1. ~untraced => staged = {}
        BY <2>1 DEF AllTracked
      <3>2. staged' \subseteq staged \cup {lastID'}
        BY <1>4 DEF TlsLoad, Stage
      <3> QED
        BY <3>1, <3>2
    <2> QED
      BY <2>1, <2>2 DEF AllTracked, Tracked
  <1>5. CASE TlsCommit
    <2>1. /\ Queue' = Queue /\ UNCHANGED <<tlsCertIDs, before, lastID>>
          /\ step = "commit" /\ step' \in {"list", "rollback"}
      BY <1>5 DEF TlsCommit, Queue
    <2>2. CASE Activate /\ step' = "list" /\ UNCHANGED untraced
      <3>1. /\ active' = (active \ marked) \cup staged
            /\ staged' = {} /\ marked' = {}
        BY <2>2 DEF Activate
      <3> QED
        BY <2>1, <2>2, <3>1 DEF AllTracked, Tracked
    <2>3. CASE step' = "rollback" /\ UNCHANGED <<active, marked, staged, untraced>>
      BY <2>1, <2>3 DEF AllTracked, Tracked
    <2>4. CASE untraced' = TRUE
      BY <1>2, <2>4
    <2> QED
      BY <1>5, <2>2, <2>3, <2>4 DEF TlsCommit
  <1>6. CASE TlsRollback
    <2>1. /\ Queue' = Queue /\ UNCHANGED <<tlsCertIDs, active, marked>>
          /\ step = "rollback" /\ step' = "none"
      BY <1>6 DEF TlsRollback, Queue
    <2>2. CASE staged' = {} /\ UNCHANGED untraced
      BY <2>1, <2>2 DEF AllTracked, Tracked
    <2> QED
      BY <1>2, <1>6, <2>2 DEF TlsRollback
  <1>7. CASE LoadCertDone
    <2> SUFFICES ASSUME ~untraced' PROVE AllTracked'
      BY <1>2
    <2>1. /\ step = "list" /\ step' = "none"
          /\ UNCHANGED <<active, staged>>
      BY <1>7 DEF LoadCertDone
    <2>2. PICK new \in {0} \cup Ids :
            /\ new # 0 => before.ok /\ new \in active \ before.ids
            /\ tlsCertIDs' = IF new = 0 THEN tlsCertIDs
                             ELSE [tlsCertIDs EXCEPT ![name] = new]
            /\ marked \subseteq marked'
            /\ ~untraced
            /\ before.ok /\ active \ before.ids # {} => new # 0
            /\ (Queue \cup Superseded(new)) \cap active \subseteq Queue' \cup marked'
      BY <1>7, DoneStep
    <2>3. /\ \A i \in active \ marked : Tracked(i) \/ i = lastID
          /\ staged = {}
          /\ before.ok /\ active \subseteq before.ids \cup {lastID}
          /\ lastID \in active \ before.ids
      BY <2>1, <2>2 DEF AllTracked, Fresh
    <2>4. new = lastID /\ new # 0
      BY <2>2, <2>3
    <2>5. name \in Certs /\ tlsCertIDs' = [tlsCertIDs EXCEPT ![name] = new]
      BY <2>2, <2>4 DEF ManagerTypeOK
    <2>6. ASSUME NEW i \in active \ marked' PROVE Tracked(i)'
      <3>1. CASE i = new
        BY <2>5, <3>1 DEF Tracked, ManagerTypeOK
      <3>2. CASE i \in Queue
        BY <2>2, <2>6, <3>2 DEF Tracked
      <3>3. ASSUME NEW n \in Certs \ {name}, tlsCertIDs[n] = i PROVE Tracked(i)'
        <4>1. tlsCertIDs'[n] = i
          BY <2>5, <3>3 DEF ManagerTypeOK
        <4> QED
          BY <4>1 DEF Tracked
      <3>4. CASE tlsCertIDs[name] = i /\ i # new
        <4>1. i # 0
          BY IdsFinite DEF VarnishTypeOK
        <4>2. i \in Superseded(new)
          BY <2>4, <3>4, <4>1 DEF Superseded
        <4> QED
          BY <2>2, <2>6, <4>2 DEF Tracked
      <3> QED
        BY <2>2, <2>3, <2>4, <2>6, <3>1, <3>2, <3>3, <3>4 DEF Tracked
    <2> QED
      BY <2>1, <2>3, <2>6 DEF AllTracked
  <1> QED
    BY <1>1, <1>3, <1>4, <1>5, <1>6, <1>7, OutsideSteps
-----------------------------------------------------------------------------
(* The theorems.                                                           *)

LEMMA TlsInitially == Init => TlsInv
  <1> SUFFICES ASSUME Init PROVE TlsInv
    OBVIOUS
  <1> USE DEF Init
  <1>1. name \in Certs
    BY TlsAssumption
  <1>2. LoopTypeOK
    <2>1. 0 \in 0..MaxFaults /\ 0 \in 0..MaxChanges
      BY IdsFinite
    <2> QED
      BY <2>1 DEF LoopTypeOK
  <1>3. ManagerTypeOK
    <2>1. before \in [ok : BOOLEAN, ids : SUBSET Ids]
      BY DEF Unlisted
    <2>2. tlsCertIDs \in [Certs -> {0} \cup Ids]
      OBVIOUS
    <2>3. discards \in Seq(Ids) /\ Len(discards) = 0
      OBVIOUS
    <2>4. Len(discards) <= Backlog
      BY <2>3, TlsAssumption
    <2> QED
      BY <1>1, <2>1, <2>2, <2>3, <2>4 DEF ManagerTypeOK
  <1>4. VarnishTypeOK
    <2>1. issued \in [Ids -> Certs \X Material]
      BY <1>1, TlsAssumption
    <2>2. served \in [Certs -> Material]
      BY TlsAssumption
    <2> QED
      BY <2>1, <2>2 DEF VarnishTypeOK
  <1>5. Open = Certs /\ Queue = {}
    BY DEF Open, Queue, Elements
  <1>6. LoopInv /\ Running
    BY <1>5 DEF LoopInv, Running
  <1>7. LoadsCounted
    <2>1. Cardinality(Open) = Cardinality(Certs) /\ InFlight = 0
      BY <1>5 DEF InFlight
    <2> QED
      BY <2>1, IdsFinite DEF LoadsCounted
  <1>8. IssuedBefore /\ Fresh /\ ServedHeld /\ AllTracked
    BY <1>5 DEF IssuedBefore, Fresh, ServedHeld, AllTracked, Unlisted
  <1> QED
    BY <1>2, <1>3, <1>4, <1>6, <1>7, <1>8 DEF TlsInv

\* The inductive invariant of the certificates.
THEOREM TlsInductive == Spec => []TlsInv
  <1>1. ASSUME TlsInv, [Next]_vars PROVE TlsInv'
    <2> USE <1>1 DEF TlsInv
    <2>1. LoopTypeOK' /\ LoopInv' /\ Running'
      BY LoopKept
    <2>2. ManagerTypeOK' /\ VarnishTypeOK'
      BY ManagerTypesKept, VarnishTypesKept
    <2>3. LoadsCounted'
      BY <2>1, LoadsCountedKept
    <2>4. IssuedBefore' /\ Fresh'
      BY IssuedKept
    <2>5. ServedHeld'
      BY ServedKept
    <2>6. AllTracked'
      BY TrackedKept
    <2> QED
      BY <2>1, <2>2, <2>3, <2>4, <2>5, <2>6
  <1> QED
    BY <1>1, TlsInitially, PTL DEF Spec

\* Every variable keeps its type: a certificate varnishd issues always has an
\* id of Ids, so that the bound on ids cuts off no load.
THEOREM TlsTypes == Spec => []TypeOK
  <1>1. TlsInv => TypeOK
    BY DEF TlsInv, TypeOK
  <1> QED
    BY <1>1, TlsInductive, PTL

\* varnishd keeps, of every name, a certificate with the material last reported
\* as loaded, whatever commands failed in between (LoadCert, discardQueued).
THEOREM CertificatesStay == Spec => []ServesLoaded
  <1>1. TlsInv => ServesLoaded
    BY DEF TlsInv, ServedHeld, Holds, ServesLoaded
  <1> QED
    BY <1>1, TlsInductive, PTL

\* Between reloads every certificate is in use or about to be discarded, unless
\* it was lost in one of the ways the code accepts, and a name that could not be
\* loaded is pending with a timer set (queueDiscard, handleCertReload).
THEOREM NothingIsForgotten == Spec => []NothingForgotten
  <1>1. ASSUME TlsInv PROVE NoLeak
    <2> SUFFICES ASSUME pc = "select", ~untraced, NEW i \in active \ marked
                 PROVE  \/ \E n \in Certs : tlsCertIDs[n] = i
                        \/ \E k \in 1..Len(discards) : discards[k] = i
      BY DEF NoLeak
    <2>1. step = "none"
      BY <1>1 DEF TlsInv, Running
    <2>2. Tracked(i)
      BY <1>1, <2>1 DEF TlsInv, AllTracked
    <2> QED
      BY <2>2 DEF Tracked, Queue, Elements
  <1>2. TlsInv => NoNameForgotten
    BY DEF TlsInv, LoopInv, NoNameForgotten, Open
  <1>3. TlsInv => NothingForgotten
    BY <1>1, <1>2 DEF NothingForgotten
  <1> QED
    BY <1>3, TlsInductive, PTL
================================================================================
