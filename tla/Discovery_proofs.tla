--------------------------- MODULE Discovery_proofs ---------------------------
(***************************************************************************)
(* A backend name has one owner, the loop's table shows what is managed and *)
(* all of it, and mirrors the cluster at rest, for every number of watchers,*)
(* Services, names, incarnations and changes, and for queues of every       *)
(* capacity.                                                                *)
(***************************************************************************)
EXTENDS Discovery, Counting, TLAPS

-----------------------------------------------------------------------------
(* The inductive invariant.                                                *)

\* An incarnation is the newest of its Service in its watcher; an owner is the
\* newest of its name.
Owners ==
  /\ OneOwner
  /\ \A w \in Watchers, s \in Services :
       managed[w][s] # 0 =>
         managed[w][s] <= lastGen /\ born[managed[w][s]] = <<w, s>>
  /\ \A g \in Gens :
       Born(g) => born[g] \in Watchers \X Services /\ BackendOf(g) \notin Explicit
  /\ \A g, h \in Gens :
       Live(g) /\ Born(h) /\ BackendOf(h) = BackendOf(g) => h <= g

\* In a calm start nothing is given up.
Calm ==
  CalmStartup /\ ~loopUp =>
    /\ \A w \in Watchers, s \in Services : managed[w][s] # 0 => s \in listed[w]
    /\ \A g \in Gens : Born(g) => Live(g)

\* What watcher w sends is of one of its incarnations, and a removal is of one
\* that was cancelled.
Carried(w, u) ==
  /\ u.gen \in Gens /\ Born(u.gen)
  /\ WatcherOf(u.gen) = w /\ BackendOf(u.gen) = u.name
  /\ u.endpoints = Nil => ~Live(u.gen)

InQueue ==
  \A w \in Watchers : \A i \in 1..Len(updateCh[w]) : Carried(w, updateCh[w][i])

InDebt ==
  \A w \in Watchers, t \in Threads : \A u \in unsent[w][t] :
    u.endpoints = Nil /\ Carried(w, u)

\* Only the forwarding goroutines add, and they run since the watcher does.
Forwarded ==
  /\ \A g \in Gens : Born(g) /\ MayAdd(g) => phase[WatcherOf(g)] = "running"
  /\ loopUp => \A w \in Watchers : phase[w] = "running"

Held ==
  /\ \A g \in Gens : fwd[g] # "on" => hold[g] = NoValue
  /\ \A g \in Gens : sent[g] = NoValue => chan[g] = NoValue /\ hold[g] = NoValue
  /\ \A g \in Gens : ~Born(g) => sent[g] = NoValue /\ fwd[g] = "off"

Flights == InQueue /\ InDebt /\ Forwarded /\ Held

Collected ==
  /\ \A w \in Watchers : \A g \in pendingInit[w] : Born(g) /\ WatcherOf(g) = w
  /\ \A w \in Watchers : pendingInit[w] # {} => phase[w] = "collect"
  /\ \A w \in Watchers, n \in Names, g \in Gens :
       initial[w][n].gen = g => Born(g) /\ WatcherOf(g) = w /\ BackendOf(g) = n
  /\ ~loopUp => EmptyTable

\* The table's generations are those of incarnations of the name.  A
\* generation in removedGen was cancelled.  A backend that the loop has since
\* the start is not older than any of its name.
Table ==
  /\ \A n \in Names : liveGen[n] # 0 => liveGen[n] = source[n]
  /\ \A n \in Names, g \in Gens : source[n] = g => Born(g) /\ BackendOf(g) = n
  /\ \A n \in Names : newest[n] <= lastGen
  /\ \A n \in Names, g \in Gens : removedGen[n] = g => Cancelled(g) /\ BackendOf(g) = n
  /\ CalmStartup => \A n \in Names : source[n] # 0 /\ liveGen[n] = 0 =>
       \A g \in Gens : Born(g) /\ BackendOf(g) = n => source[n] <= g

DiscoveryInv ==
  /\ TypeOK
  /\ Owners /\ Calm /\ Flights /\ Collected /\ Table

\* An incarnation cannot be added after its removal was applied.
Barred(g) == g <= removedGen[BackendOf(g)] \/ g < liveGen[BackendOf(g)]

GhostInv ==
  /\ \A n \in Names, g \in Gens : source[n] = g => Live(g) \/ RemovalInFlight(g)
  /\ \A g \in Gens : Cancelled(g) /\ (MayAdd(g) \/ ~loopUp) =>
       RemovalInFlight(g) \/ Barred(g)
  /\ \A n \in expired : \A g \in Gens :
       MayAdd(g) /\ BackendOf(g) = n => g > removedGen[n]

\* Nothing that was shown once and is not shown now can be added again.
Passed(g) == Barred(g) \/ g = source[BackendOf(g)] \/ g > newest[BackendOf(g)]

NeverBack ==
  /\ \A n \in Names : source[n] # 0 => source[n] = newest[n]
  /\ \A g \in Gens : MayAdd(g) => Passed(g)

IsAdd(u, g) == u.gen = g /\ u.endpoints # Nil

LastAdd(q, g, i) == IsAdd(q[i], g) /\ \A j \in (i + 1)..Len(q) : ~IsAdd(q[j], g)

NewestAdd(q, g, x) == \A i \in 1..Len(q) : LastAdd(q, g, i) => q[i].endpoints = x

\* The value a managed Service's watcher sent last is the newest of those that
\* are still on their way, or it has arrived.
InFlight(g) ==
  /\ chan[g] # NoValue => chan[g] = sent[g]
  /\ chan[g] = NoValue /\ hold[g] # NoValue => hold[g] = sent[g]
  /\ chan[g] = NoValue /\ hold[g] = NoValue =>
       NewestAdd(updateCh[WatcherOf(g)], g, Normalized(sent[g]))

Delivered(g) ==
  IF loopUp THEN /\ source[BackendOf(g)] = g
                 /\ backends[BackendOf(g)] = Normalized(sent[g])
  ELSE initial[WatcherOf(g)][BackendOf(g)] =
         [gen |-> g, endpoints |-> Normalized(sent[g])]

Latest(g) == InFlight(g) /\ (~Undelivered(g) => Delivered(g))

LatestInv == \A g \in Gens : Live(g) /\ sent[g] # NoValue => Latest(g)

-----------------------------------------------------------------------------
(* Queues and ranks.                                                       *)

LEMMA QueueFacts ==
  ASSUME NEW T, NEW q \in Seq(T)
  PROVE  /\ Len(q) \in Nat
         /\ \A i \in 1..Len(q) : q[i] \in T
         /\ \A u \in T :
              /\ Append(q, u) \in Seq(T)
              /\ Len(Append(q, u)) = Len(q) + 1
              /\ Append(q, u)[Len(q) + 1] = u
              /\ \A i \in 1..Len(q) : Append(q, u)[i] = q[i]
         /\ q # <<>> =>
              /\ Len(q) >= 1 /\ Head(q) = q[1]
              /\ Tail(q) \in Seq(T)
              /\ Len(Tail(q)) = Len(q) - 1
              /\ \A i \in 1..(Len(q) - 1) : Tail(q)[i] = q[i + 1]
  OBVIOUS

\* A set of Services numbers its members from 1, without gaps.
LEMMA Ranks ==
  ASSUME NEW S, S \subseteq Services
  PROVE  /\ Cardinality(S) \in Nat
         /\ \A s \in S : Rank(S, s) \in 1..Cardinality(S)
         /\ \A r, s \in S : Rank(S, r) = Rank(S, s) => r = s
         /\ \A k \in 1..Cardinality(S) : \E s \in S : Rank(S, s) = k
  <1>1. S \subseteq Nat \ {0} /\ IsFiniteSet(S)
    BY DiscoveryAssumption, FS_Subset
  <1>2. PICK c \in Nat : \A x \in S : x <= c
    BY <1>1, BoundOf
  <1>3. S \subseteq 1..c
    BY <1>1, <1>2
  <1> QED
    BY <1>3, PlacesOf DEF Rank

\* An add pass: the Services in S get the next generations.
LEMMA AdoptStep ==
  ASSUME NEW w \in Watchers, NEW S, S \subseteq Services,
         NEW mgd \in [Services -> {0} \cup Gens],
         \A s \in Services : mgd[s] <= lastGen,
         NEW reg,
         lastGen \in 0..MaxGen,
         Adopt(w, S, mgd, reg)
  PROVE  /\ lastGen' \in lastGen..MaxGen
         /\ \A s \in S : Number(S, lastGen, mgd)[s] \in (lastGen + 1)..lastGen'
         /\ \A g \in (lastGen + 1)..lastGen' :
              \E s \in S : Number(S, lastGen, mgd)[s] = g /\ born'[g] = <<w, s>>
         /\ \A s \in S :
              born'[Number(S, lastGen, mgd)[s]] = <<w, s>>
         /\ \A g \in Gens : g \notin (lastGen + 1)..lastGen' =>
              born'[g] = born[g] /\ fwd'[g] = fwd[g]
         /\ \A g \in (lastGen + 1)..lastGen' :
              fwd'[g] = IF phase[w] = "running" THEN "on" ELSE fwd[g]
         /\ (lastGen + 1)..lastGen' \subseteq Gens
  <1> DEFINE N == Number(S, lastGen, mgd)
  <1>0. /\ lastGen \in Nat /\ MaxGen \in Nat /\ lastGen' = lastGen + Cardinality(S)
        /\ lastGen' <= MaxGen /\ Cardinality(S) \in Nat
    BY DiscoveryAssumption, Ranks DEF Adopt
  <1>1. lastGen' \in lastGen..MaxGen /\ (lastGen + 1)..lastGen' \subseteq Gens
    BY <1>0 DEF Gens
  <1>2. \A s \in S : N[s] = lastGen + Rank(S, s)
    BY DEF Number
  <1>3. \A s \in Services : s \notin S => N[s] = mgd[s]
    BY DEF Number
  <1>4. \A s \in S : Rank(S, s) \in Nat /\ 1 <= Rank(S, s) /\ Rank(S, s) <= Cardinality(S)
    BY <1>0, Ranks
  <1>5. \A s \in S : N[s] \in (lastGen + 1)..lastGen'
    BY <1>0, <1>2, <1>4
  <1>6. ASSUME NEW g \in (lastGen + 1)..lastGen'
        PROVE  \E s \in S : N[s] = g
    <2>1. g - lastGen \in 1..Cardinality(S)
      BY <1>0
    <2>2. PICK s \in S : Rank(S, s) = g - lastGen
      BY <2>1, Ranks
    <2> QED
      BY <1>0, <1>2, <2>2
  <1>7. ASSUME NEW s \in S, NEW r \in Services, N[r] = N[s]
        PROVE  r = s
    <2>1. r \in S
      <3> SUFFICES ASSUME r \notin S PROVE FALSE
        OBVIOUS
      <3>1. N[r] = mgd[r] /\ mgd[r] <= lastGen /\ mgd[r] \in Nat
        BY <1>3 DEF Gens
      <3>2. N[s] \in (lastGen + 1)..lastGen'
        BY <1>5
      <3> HIDE DEF N
      <3> QED
        BY <1>0, <1>7, <3>1, <3>2
    <2>2. Rank(S, r) = Rank(S, s)
      BY <1>0, <1>2, <1>4, <1>7, <2>1
    <2> QED
      BY <2>1, <2>2, Ranks
  <1>8. \A g \in Gens :
          /\ born'[g] = IF g \in (lastGen + 1)..lastGen'
                        THEN <<w, CHOOSE s \in Services : N[s] = g>> ELSE born[g]
          /\ fwd'[g] = IF g \in (lastGen + 1)..lastGen' /\ phase[w] = "running"
                       THEN "on" ELSE fwd[g]
    BY <1>0 DEF Adopt
  <1>9. ASSUME NEW s \in S PROVE born'[N[s]] = <<w, s>>
    <2>1. N[s] \in (lastGen + 1)..lastGen' /\ N[s] \in Gens
      BY <1>1, <1>5
    <2>2. (CHOOSE r \in Services : N[r] = N[s]) = s
      BY <1>7
    <2> HIDE DEF N
    <2> QED
      BY <1>8, <2>1, <2>2
  <1> HIDE DEF N
  <1>10. \A g \in (lastGen + 1)..lastGen' : \E s \in S : N[s] = g /\ born'[g] = <<w, s>>
    BY <1>6, <1>9
  <1>11. \A g \in (lastGen + 1)..lastGen' :
              fwd'[g] = IF phase[w] = "running" THEN "on" ELSE fwd[g]
    BY <1>1, <1>8
  <1> QED
    BY <1>1, <1>5, <1>8, <1>9, <1>10, <1>11 DEF N

-----------------------------------------------------------------------------
(* A reconcile.                                                            *)

\* The Services that an add pass adopts are of free names, one of each.
LEMMA AdoptedFree ==
  ASSUME OwnerTypeOK, OneOwner, NEW w \in Watchers
  PROVE  LET S == Adopted(w, managed[w], registry)
         IN  /\ S \subseteq Services
             /\ \A s \in S : /\ s \in listed[w] /\ managed[w][s] = 0
                             /\ NameOf[s] \in Names \ Explicit
                             /\ registry[NameOf[s]] = Free
             /\ \A r, s \in S : NameOf[r] = NameOf[s] => r = s
  <1> DEFINE S == Adopted(w, managed[w], registry)
             A == Adoptable(w, managed[w], registry)
  <1>1. /\ S \subseteq A
        /\ \A s \in S : \A r \in A : NameOf[r] = NameOf[s] => s <= r
    BY DEF Adopted
  <1>2. /\ listed[w] \subseteq Services
        /\ \A s \in Services : NameOf[s] \in Names /\ s \in Nat
    BY DiscoveryAssumption DEF OwnerTypeOK
  <1>3. \A s \in A : /\ s \in listed[w] /\ s \in Services /\ managed[w][s] = 0
                     /\ NameOf[s] \in Names \ Explicit
                     /\ Claim(w, s, registry)
    BY <1>2 DEF Adoptable
  <1>4. \A s \in A : registry[NameOf[s]] = Free
    BY <1>3, DiscoveryAssumption DEF Claim, OneOwner
  <1>5. ASSUME NEW r \in S, NEW s \in S, NameOf[r] = NameOf[s]
        PROVE  r = s
    <2>1. r <= s /\ s <= r
      BY <1>1, <1>5
    <2>2. r \in Nat /\ s \in Nat
      BY <1>1, <1>2, <1>3
    <2> QED
      BY <2>1, <2>2
  <1> HIDE DEF S, A
  <1>6. /\ S \subseteq Services
        /\ \A s \in S : /\ s \in listed[w] /\ managed[w][s] = 0
                        /\ NameOf[s] \in Names \ Explicit
                        /\ registry[NameOf[s]] = Free
    BY <1>1, <1>3, <1>4
  <1> QED
    BY <1>5, <1>6 DEF S

LEMMA PassStep ==
  ASSUME OwnerTypeOK, Owners, NEW w \in Watchers,
         NEW gone, gone \subseteq Services,
         \A s \in gone : managed[w][s] # 0 /\ s \notin listed[w],
         Adopt(w, Adopted(w, managed[w], registry),
               [s \in Services |-> IF s \in gone THEN 0 ELSE managed[w][s]],
               ReleaseAll(w, gone, registry))
  PROVE  /\ lastGen' \in lastGen..MaxGen
         /\ managed' \in [Watchers -> [Services -> {0} \cup Gens]]
         /\ registry' \in [Names -> (Watchers \X Services) \cup {Free}]
         /\ born' \in [Gens -> (Watchers \X Services) \cup {Free}]
         /\ OneOwner'
         /\ \A v \in Watchers, s \in Services :
              managed'[v][s] # 0 =>
                managed'[v][s] <= lastGen' /\ born'[managed'[v][s]] = <<v, s>>
         /\ \A v \in Watchers, s \in Services :
              managed'[v][s] # 0 => managed'[v][s] = managed[v][s] \/ s \in listed[v]
         /\ \A v \in Watchers, s \in Services :
              managed'[v][s] = managed[v][s] \/ (managed[v][s] = 0 /\ managed'[v][s] > lastGen)
                \/ (v = w /\ s \in gone /\ managed'[v][s] = 0)
         /\ \A v \in Watchers, s \in Services : v = w /\ s \in gone => managed'[v][s] = 0
         /\ \A g \in Gens : g \notin (lastGen + 1)..lastGen' =>
              born'[g] = born[g] /\ fwd'[g] = fwd[g]
         /\ \A g \in (lastGen + 1)..lastGen' :
              /\ g \in Gens /\ g > lastGen /\ g <= lastGen'
              /\ \E s \in Services : /\ born'[g] = <<w, s>> /\ managed'[w][s] = g
                                     /\ NameOf[s] \notin Explicit
              /\ fwd'[g] = IF phase[w] = "running" THEN "on" ELSE fwd[g]
         /\ \A n \in Names :
              \/ registry'[n] = registry[n] \/ registry'[n] = Free
              \/ \E s \in Services : registry'[n] = <<w, s>> /\ managed'[w][s] > lastGen
  <1> DEFINE S == Adopted(w, managed[w], registry)
             mgd == [s \in Services |-> IF s \in gone THEN 0 ELSE managed[w][s]]
             reg == ReleaseAll(w, gone, registry)
             N == Number(S, lastGen, mgd)
             new == (lastGen + 1)..lastGen'
  <1>1. /\ S \subseteq Services
        /\ \A s \in S : /\ s \in listed[w] /\ managed[w][s] = 0
                        /\ NameOf[s] \in Names \ Explicit
                        /\ registry[NameOf[s]] = Free
        /\ \A r, s \in S : NameOf[r] = NameOf[s] => r = s
    BY AdoptedFree, Zenon DEF Owners
  <1>2. /\ mgd \in [Services -> {0} \cup Gens]
        /\ \A s \in Services : mgd[s] <= lastGen
        /\ lastGen \in 0..MaxGen /\ lastGen \in Nat
    <2>1. lastGen \in 0..MaxGen /\ lastGen \in Nat /\ managed[w] \in [Services -> {0} \cup Gens]
      BY DiscoveryAssumption DEF OwnerTypeOK
    <2> QED
      BY <2>1 DEF Owners
  <1>3. Adopt(w, S, mgd, reg)
    OBVIOUS
  <1>4. /\ managed' = [managed EXCEPT ![w] = N]
        /\ registry' = ClaimAll(w, S, reg)
        /\ born' = [g \in Gens |-> born'[g]]
    BY <1>3 DEF Adopt
  <1> HIDE DEF S, mgd, reg
  <1>5. /\ lastGen' \in lastGen..MaxGen /\ new \subseteq Gens
        /\ \A s \in S : N[s] \in new /\ born'[N[s]] = <<w, s>>
        /\ \A g \in new : \E s \in S : N[s] = g /\ born'[g] = <<w, s>>
        /\ \A g \in Gens : g \notin new => born'[g] = born[g] /\ fwd'[g] = fwd[g]
        /\ \A g \in new : fwd'[g] = IF phase[w] = "running" THEN "on" ELSE fwd[g]
    <2>1. S \subseteq Services /\ lastGen \in 0..MaxGen /\ w \in Watchers
      BY <1>1, <1>2
    <2> HIDE DEF N, new
    <2>2. /\ lastGen' \in lastGen..MaxGen
          /\ \A s \in S : N[s] \in (lastGen + 1)..lastGen'
          /\ \A g \in (lastGen + 1)..lastGen' : \E s \in S : N[s] = g /\ born'[g] = <<w, s>>
          /\ \A s \in S : born'[N[s]] = <<w, s>>
          /\ \A g \in Gens : g \notin (lastGen + 1)..lastGen' =>
               born'[g] = born[g] /\ fwd'[g] = fwd[g]
          /\ \A g \in (lastGen + 1)..lastGen' :
               fwd'[g] = IF phase[w] = "running" THEN "on" ELSE fwd[g]
          /\ (lastGen + 1)..lastGen' \subseteq Gens
      BY <1>2, <1>3, <2>1, AdoptStep, Zenon DEF N
    <2> QED
      BY <2>2 DEF new
  <1>6. /\ N \in [Services -> {0} \cup Gens]
        /\ \A s \in Services \ S : N[s] = mgd[s]
    <2>1. /\ DOMAIN N = Services /\ N = [s \in Services |-> N[s]]
          /\ \A s \in Services \ S : N[s] = mgd[s]
      BY DEF Number
    <2>2. \A s \in Services : N[s] \in {0} \cup Gens
      BY <1>2, <1>5, <2>1
    <2> HIDE DEF N
    <2> QED
      BY <2>1, <2>2
  <1>7. \A s \in Services : mgd[s] = IF s \in gone THEN 0 ELSE managed[w][s]
    BY DEF mgd
  <1>8. \A s \in S : registry'[NameOf[s]] = <<w, s>>
    <2> TAKE s \in S
    <2>1. registry'[NameOf[s]] = <<w, CHOOSE r \in S : NameOf[r] = NameOf[s]>>
      BY <1>1, <1>4 DEF ClaimAll
    <2>2. (CHOOSE r \in S : NameOf[r] = NameOf[s]) = s
      BY <1>1
    <2> QED
      BY <2>1, <2>2
  <1>9. \A n \in Names : (\A s \in S : NameOf[s] # n) => registry'[n] = reg[n]
    BY <1>4 DEF ClaimAll
  <1>10. \A n \in Names : reg[n] = IF \E s \in gone : registry[n] = <<w, s>> /\ NameOf[s] = n
                                   THEN Free ELSE registry[n]
    BY DEF reg, ReleaseAll
  <1>11. /\ registry \in [Names -> (Watchers \X Services) \cup {Free}]
         /\ managed \in [Watchers -> [Services -> {0} \cup Gens]]
         /\ born \in [Gens -> (Watchers \X Services) \cup {Free}]
         /\ \A s \in Services : NameOf[s] \in Names
         /\ Free \notin Watchers \X Services
    BY DiscoveryAssumption DEF OwnerTypeOK
  <1>12. /\ managed' \in [Watchers -> [Services -> {0} \cup Gens]]
         /\ managed'[w] = N
         /\ \A v \in Watchers : v # w => managed'[v] = managed[v]
    BY <1>4, <1>6, <1>11
  <1>13. registry' \in [Names -> (Watchers \X Services) \cup {Free}]
    <2>1. \A n \in Names : registry'[n] \in (Watchers \X Services) \cup {Free}
      <3> TAKE n \in Names
      <3>1. CASE \E s \in S : NameOf[s] = n
        <4>1. PICK s \in S : NameOf[s] = n
          BY <3>1
        <4>2. registry'[n] = <<w, s>> /\ w \in Watchers /\ s \in Services
          BY <1>1, <1>8, <4>1
        <4> QED
          BY <4>2
      <3>2. CASE \A s \in S : NameOf[s] # n
        BY <1>9, <1>10, <1>11, <3>2
      <3> QED
        BY <3>1, <3>2
    <2>2. registry' = [n \in Names |-> registry'[n]]
      BY <1>4 DEF ClaimAll
    <2> QED
      BY <2>1, <2>2
  <1>14. born' \in [Gens -> (Watchers \X Services) \cup {Free}]
    <2>1. \A g \in Gens : born'[g] \in (Watchers \X Services) \cup {Free}
      <3> TAKE g \in Gens
      <3>1. CASE g \in new
        <4>1. PICK s \in S : born'[g] = <<w, s>>
          BY <1>5, <3>1
        <4> QED
          BY <1>1, <4>1
      <3>2. CASE g \notin new
        BY <1>5, <1>11, <3>2
      <3> QED
        BY <3>1, <3>2
    <2> QED
      BY <1>4, <2>1
  <1>15. \A s \in S : N[s] # 0 /\ N[s] > lastGen
    BY <1>2, <1>5
  <1>16. \A s \in gone : s \notin S
    BY <1>1
  <1> HIDE DEF N, new
  <1>17. OneOwner'
    <2> SUFFICES ASSUME NEW v \in Watchers, NEW s \in Services
                 PROVE  managed'[v][s] # 0 <=> registry'[NameOf[s]] = <<v, s>>
      BY DEF OneOwner
    <2> DEFINE n == NameOf[s]
    <2>0. n \in Names /\ (managed[v][s] # 0 <=> registry[n] = <<v, s>>)
      BY <1>11 DEF Owners, OneOwner
    <2>1. CASE v = w /\ s \in S
      BY <1>8, <1>12, <1>15, <2>1
    <2>2. CASE v = w /\ s \in gone
      <3>1. managed'[v][s] = 0
        BY <1>6, <1>7, <1>12, <1>16, <2>2
      <3>2. CASE \E r \in S : NameOf[r] = n
        BY <1>8, <1>16, <2>2, <3>1, <3>2
      <3>3. CASE \A r \in S : NameOf[r] # n
        <4>1. registry'[n] = reg[n] /\ registry[n] = <<w, s>>
          BY <1>9, <2>0, <2>2, <3>3
        <4>2. reg[n] = Free
          BY <1>10, <2>0, <2>2, <4>1
        <4> QED
          BY <1>11, <2>2, <3>1, <4>1, <4>2
      <3> QED
        BY <3>2, <3>3
    <2>3. CASE ~(v = w /\ s \in S \cup gone)
      <3>1. managed'[v][s] = managed[v][s]
        BY <1>6, <1>7, <1>12, <2>3
      <3>2. CASE \E r \in S : NameOf[r] = n
        <4>1. PICK r \in S : NameOf[r] = n
          BY <3>2
        <4>2. registry'[n] = <<w, r>> /\ registry[n] = Free
          BY <1>1, <1>8, <4>1
        <4>3. <<w, r>> # <<v, s>>
          BY <2>3
        <4> QED
          BY <1>11, <2>0, <3>1, <4>2, <4>3
      <3>3. CASE \A r \in S : NameOf[r] # n
        <4>1. registry'[n] = reg[n]
          BY <1>9, <2>0, <3>3
        <4>2. registry[n] = <<v, s>> => reg[n] = registry[n]
          BY <1>10, <2>0, <2>3
        <4>3. reg[n] \in {Free, registry[n]}
          BY <1>10, <2>0
        <4> QED
          BY <1>11, <2>0, <3>1, <4>1, <4>2, <4>3
      <3> QED
        BY <3>2, <3>3
    <2> QED
      BY <2>1, <2>2, <2>3
  <1>18. ASSUME NEW v \in Watchers, NEW s \in Services
         PROVE  \/ v = w /\ s \in S /\ managed'[v][s] = N[s]
                \/ v = w /\ s \in gone /\ managed'[v][s] = 0
                \/ ~(v = w /\ s \in gone) /\ managed'[v][s] = managed[v][s]
    BY <1>6, <1>7, <1>12, <1>16
  <1>19. ASSUME NEW v \in Watchers, NEW s \in Services, managed'[v][s] # 0
         PROVE  /\ managed'[v][s] <= lastGen'
                /\ born'[managed'[v][s]] = <<v, s>>
                /\ managed'[v][s] = managed[v][s] \/ s \in listed[v]
    <2>1. CASE v = w /\ s \in S /\ managed'[v][s] = N[s]
      BY <1>1, <1>2, <1>5, <2>1 DEF new
    <2>2. CASE managed'[v][s] = managed[v][s]
      <3>1. managed[v][s] \in Gens /\ managed[v][s] <= lastGen /\ born[managed[v][s]] = <<v, s>>
        BY <1>11, <1>19, <2>2 DEF Owners
      <3>2. managed[v][s] \notin new
        BY <1>2, <3>1 DEF new, Gens
      <3>3. managed[v][s] <= lastGen'
        BY <1>2, <1>5, <3>1 DEF Gens
      <3> QED
        BY <1>5, <2>2, <3>1, <3>2, <3>3
    <2> QED
      BY <1>18, <1>19, <2>1, <2>2
  <1>20. ASSUME NEW v \in Watchers, NEW s \in Services
         PROVE  \/ managed'[v][s] = managed[v][s]
                \/ managed[v][s] = 0 /\ managed'[v][s] > lastGen
                \/ v = w /\ s \in gone /\ managed'[v][s] = 0
    BY <1>1, <1>15, <1>18
  <1>21. ASSUME NEW g \in new
         PROVE  /\ g \in Gens /\ g > lastGen /\ g <= lastGen'
                /\ \E s \in Services : /\ born'[g] = <<w, s>> /\ managed'[w][s] = g
                                       /\ NameOf[s] \notin Explicit
    <2>1. g \in Gens /\ g > lastGen /\ g <= lastGen'
      BY <1>2, <1>5 DEF new
    <2> QED
      BY <1>1, <1>5, <1>12, <2>1
  <1>22. ASSUME NEW v \in Watchers, NEW s \in Services, v = w, s \in gone
         PROVE  managed'[v][s] = 0
    BY <1>6, <1>7, <1>12, <1>16, <1>22
  <1>23. ASSUME NEW n \in Names
         PROVE  \/ registry'[n] = registry[n] \/ registry'[n] = Free
                \/ \E s \in Services : registry'[n] = <<w, s>> /\ managed'[w][s] > lastGen
    <2>1. CASE \E r \in S : NameOf[r] = n
      BY <1>1, <1>8, <1>12, <1>15, <2>1
    <2>2. CASE \A r \in S : NameOf[r] # n
      BY <1>9, <1>10, <2>2
    <2> QED
      BY <2>1, <2>2
  <1> USE DEF new
  <1> QED
    BY <1>5, <1>12, <1>13, <1>14, <1>17, <1>19, <1>20, <1>21, <1>22, <1>23

\* The steps of a watcher that reconciles.
Syncs(w) == HandlerSync(w) \/ KickSync(w) \/ InitialSync(w) \/ AddPassAgain(w)

\* The Services that such a step gives up, and what it owes for them.
Reconciled(w, gone) ==
  /\ gone \subseteq Services
  /\ \A s \in gone : managed[w][s] # 0 /\ s \notin listed[w]
  /\ Adopt(w, Adopted(w, managed[w], registry),
           [s \in Services |-> IF s \in gone THEN 0 ELSE managed[w][s]],
           ReleaseAll(w, gone, registry))
  /\ \/ gone = {} /\ UNCHANGED unsent
     \/ \E t \in Threads :
          /\ unsent[w][t] = {}
          /\ unsent' = [unsent EXCEPT ![w][t] =
               {Update(NameOf[s], managed[w][s], Nil) : s \in gone}]
  /\ locked' \in [Watchers -> Threads \cup {"free"}]
  /\ \A v \in Watchers : phase'[v] = phase[v]
                         \/ (phase[v] = "sync" /\ phase'[v] = "synced")
  /\ DOMAIN phase' = DOMAIN phase /\ phase' = [v \in DOMAIN phase |-> phase'[v]]
  /\ UNCHANGED <<tableVars, clusterVars, sent, chan, hold, updateCh,
                 pendingInit, initial, loopUp>>

LEMMA GivenUp ==
  ASSUME OwnerTypeOK, FlowTypeOK, StartTypeOK, NEW w \in Watchers, Syncs(w)
  PROVE  \E gone : Reconciled(w, gone)
  <1>0. /\ managed[w] = [s \in Services |-> managed[w][s]]
        /\ registry = [n \in Names |-> registry[n]]
        /\ phase \in [Watchers -> {"sync", "synced", "collect", "running"}]
    BY DEF OwnerTypeOK, StartTypeOK
  <1>1. CASE AddPassAgain(w)
    <2>1. /\ [s \in Services |-> IF s \in {} THEN 0 ELSE managed[w][s]] = managed[w]
          /\ ReleaseAll(w, {}, registry) = registry
      BY <1>0 DEF ReleaseAll
    <2>2. /\ Adopt(w, Adopted(w, managed[w], registry), managed[w], registry)
          /\ locked' = [locked EXCEPT ![w] = "free"]
          /\ UNCHANGED <<tableVars, clusterVars, sent, chan, hold, unsent,
                         updateCh, initVars>>
      BY <1>1 DEF AddPassAgain
    <2>3. locked' \in [Watchers -> Threads \cup {"free"}]
      BY <2>2 DEF OwnerTypeOK
    <2>4. phase' = phase /\ UNCHANGED <<pendingInit, initial, loopUp>>
      BY <2>2 DEF initVars
    <2>5. Reconciled(w, {})
      BY <1>0, <2>1, <2>2, <2>3, <2>4 DEF Reconciled
    <2> QED
      BY <2>5
  <1>2. CASE HandlerSync(w) \/ KickSync(w) \/ InitialSync(w)
    <2>1. PICK t \in Threads : Reconcile(w, t)
      BY <1>2 DEF HandlerSync, KickSync, InitialSync, Threads
    <2>2. \/ phase' = phase
          \/ phase[w] = "sync" /\ phase' = [phase EXCEPT ![w] = "synced"]
      BY <1>2 DEF HandlerSync, KickSync, InitialSync
    <2>3. /\ \A v \in Watchers : phase'[v] = phase[v]
                         \/ (phase[v] = "sync" /\ phase'[v] = "synced")
          /\ DOMAIN phase' = DOMAIN phase /\ phase' = [v \in DOMAIN phase |-> phase'[v]]
      BY <1>0, <2>2
    <2> DEFINE gone == {s \in Services : managed[w][s] # 0 /\ s \notin listed[w]}
               kept == [s \in Services |-> IF s \in gone THEN 0 ELSE managed[w][s]]
    <2>4. /\ unsent[w][t] = {}
          /\ Adopt(w, Adopted(w, managed[w], registry), kept,
                   ReleaseAll(w, gone, registry))
          /\ unsent' = [unsent EXCEPT ![w][t] =
               {Update(NameOf[s], managed[w][s], Nil) : s \in gone}]
          /\ locked' = [locked EXCEPT ![w] = IF gone = {} THEN "free" ELSE t]
          /\ UNCHANGED <<tableVars, clusterVars, sent, chan, hold, updateCh,
                         pendingInit, initial, loopUp>>
      BY <2>1, Zenon DEF Reconcile
    <2>5. gone \subseteq Services /\ \A s \in gone : managed[w][s] # 0 /\ s \notin listed[w]
      OBVIOUS
    <2> HIDE DEF gone
    <2>6. locked' \in [Watchers -> Threads \cup {"free"}]
      BY <2>4 DEF OwnerTypeOK
    <2>7. Reconciled(w, gone)
      BY <2>3, <2>4, <2>5, <2>6 DEF Reconciled
    <2> QED
      BY <2>7
  <1> QED
    BY <1>1, <1>2 DEF Syncs

LEMMA SyncStep ==
  ASSUME OwnerTypeOK, FlowTypeOK, StartTypeOK, Owners, NEW w \in Watchers, Syncs(w)
  PROVE  /\ OwnerTypeOK' /\ FlowTypeOK' /\ StartTypeOK'
         /\ lastGen' \in lastGen..MaxGen
         /\ OneOwner'
         /\ \A v \in Watchers, s \in Services :
              managed'[v][s] # 0 =>
                managed'[v][s] <= lastGen' /\ born'[managed'[v][s]] = <<v, s>>
         /\ \A v \in Watchers, s \in Services :
              managed'[v][s] # 0 => managed'[v][s] = managed[v][s] \/ s \in listed[v]
         /\ \A g \in Gens : Born(g) => born'[g] = born[g]
         /\ \A g \in Gens : Born(g) \/ ~Born(g)' => fwd'[g] = fwd[g]
         /\ \A g \in Gens : Born(g) /\ Live(g)' => Live(g)
         /\ \A g \in Gens : Live(g) /\ ~Live(g)' =>
              /\ WatcherOf(g) = w
              /\ ServiceOf(g) \notin listed[w]
              /\ \E t \in Threads : Update(BackendOf(g), g, Nil) \in unsent'[w][t]
         /\ \A g \in Gens : ~Born(g) /\ Born(g)' =>
              /\ born'[g] \in Watchers \X Services /\ WatcherOf(g)' = w
              /\ Live(g)' /\ BackendOf(g)' \notin Explicit
              /\ fwd'[g] = IF phase[w] = "running" THEN "on" ELSE fwd[g]
         /\ \A v \in Watchers, t \in Threads : unsent[v][t] \subseteq unsent'[v][t]
         /\ \A v \in Watchers, t \in Threads : \A u \in unsent'[v][t] :
              \/ u \in unsent[v][t]
              \/ /\ v = w /\ u.gen \in Gens /\ Born(u.gen) /\ ~Live(u.gen)'
                 /\ WatcherOf(u.gen) = w /\ u = Update(BackendOf(u.gen), u.gen, Nil)
         /\ \A n \in Names :
              \/ registry'[n] = registry[n] \/ registry'[n] = Free
              \/ \E s \in Services : registry'[n] = <<w, s>> /\ managed'[w][s] > lastGen
         /\ \A v \in Watchers : phase'[v] = phase[v]
                                \/ (phase[v] = "sync" /\ phase'[v] = "synced")
         /\ UNCHANGED <<tableVars, clusterVars, sent, chan, hold, updateCh,
                        pendingInit, initial, loopUp>>
  <1>1. PICK gone : Reconciled(w, gone)
    BY GivenUp
  <1>2. /\ gone \subseteq Services
        /\ \A s \in gone : managed[w][s] # 0 /\ s \notin listed[w]
        /\ Adopt(w, Adopted(w, managed[w], registry),
               [s \in Services |-> IF s \in gone THEN 0 ELSE managed[w][s]],
               ReleaseAll(w, gone, registry))
    BY <1>1 DEF Reconciled
  <1>3. UNCHANGED <<tableVars, clusterVars, sent, chan, hold, updateCh,
                    pendingInit, initial, loopUp>>
    BY <1>1 DEF Reconciled
  <1>4. /\ lastGen' \in lastGen..MaxGen
        /\ managed' \in [Watchers -> [Services -> {0} \cup Gens]]
        /\ registry' \in [Names -> (Watchers \X Services) \cup {Free}]
        /\ born' \in [Gens -> (Watchers \X Services) \cup {Free}]
        /\ OneOwner'
        /\ \A v \in Watchers, s \in Services :
             managed'[v][s] # 0 =>
               managed'[v][s] <= lastGen' /\ born'[managed'[v][s]] = <<v, s>>
        /\ \A v \in Watchers, s \in Services :
             managed'[v][s] # 0 => managed'[v][s] = managed[v][s] \/ s \in listed[v]
        /\ \A v \in Watchers, s \in Services :
             managed'[v][s] = managed[v][s] \/ (managed[v][s] = 0 /\ managed'[v][s] > lastGen)
               \/ (v = w /\ s \in gone /\ managed'[v][s] = 0)
        /\ \A v \in Watchers, s \in Services : v = w /\ s \in gone => managed'[v][s] = 0
        /\ \A g \in Gens : g \notin (lastGen + 1)..lastGen' =>
             born'[g] = born[g] /\ fwd'[g] = fwd[g]
        /\ \A g \in (lastGen + 1)..lastGen' :
             /\ g \in Gens /\ g > lastGen /\ g <= lastGen'
             /\ \E s \in Services : /\ born'[g] = <<w, s>> /\ managed'[w][s] = g
                                    /\ NameOf[s] \notin Explicit
             /\ fwd'[g] = IF phase[w] = "running" THEN "on" ELSE fwd[g]
        /\ \A n \in Names :
             \/ registry'[n] = registry[n] \/ registry'[n] = Free
             \/ \E s \in Services : registry'[n] = <<w, s>> /\ managed'[w][s] > lastGen
    BY <1>2, PassStep
  <1>5. /\ lastGen \in Nat /\ MaxGen \in Nat /\ lastGen \in 0..MaxGen
        /\ lastGen' \in Nat /\ lastGen <= lastGen' /\ lastGen' <= MaxGen
        /\ \A g \in Gens : g \in Nat /\ g >= 1
    BY <1>4, DiscoveryAssumption DEF OwnerTypeOK, Gens
  <1>6. \A g \in Gens : /\ Born(g) => Born(g)'
                        /\ Born(g) \/ ~Born(g)' => g \notin (lastGen + 1)..lastGen'
                        /\ ~Born(g) /\ Born(g)' => g \in (lastGen + 1)..lastGen'
    BY <1>5 DEF Born
  <1>7. \A g \in Gens : Born(g) => born'[g] = born[g]
    BY <1>4, <1>6
  <1>8. \A g \in Gens : Born(g) \/ ~Born(g)' => fwd'[g] = fwd[g]
    BY <1>4, <1>6
  <1>9. ASSUME NEW g \in Gens, Born(g)
        PROVE  /\ born[g] \in Watchers \X Services
               /\ WatcherOf(g) \in Watchers /\ ServiceOf(g) \in Services
               /\ BackendOf(g) \in Names
               /\ WatcherOf(g)' = WatcherOf(g) /\ ServiceOf(g)' = ServiceOf(g)
               /\ born[g] = <<WatcherOf(g), ServiceOf(g)>>
    BY <1>7, <1>9, DiscoveryAssumption DEF Owners, WatcherOf, ServiceOf, BackendOf
  <1>10. ASSUME NEW g \in Gens, Born(g), Live(g)'
         PROVE  Live(g)
    <2>1. managed'[WatcherOf(g)][ServiceOf(g)] = g
      BY <1>9, <1>10 DEF Live
    <2>2. g <= lastGen /\ g # 0
      BY <1>5, <1>10 DEF Born
    <2>3. ~ (g > lastGen)
      BY <1>5, <2>2
    <2>4. managed'[WatcherOf(g)][ServiceOf(g)] = managed[WatcherOf(g)][ServiceOf(g)]
      BY <1>4, <1>9, <1>10, <2>1, <2>2, <2>3
    <2> QED
      BY <1>10, <2>1, <2>4 DEF Live
  <1>11. ASSUME NEW s \in gone
         PROVE  \E g \in Gens :
                  /\ g = managed[w][s] /\ born[g] = <<w, s>> /\ Born(g)
                  /\ WatcherOf(g) = w /\ ServiceOf(g) = s
                  /\ Live(g) /\ ~Live(g)'
    <2>1. s \in Services /\ managed[w][s] # 0 /\ managed[w][s] \in {0} \cup Gens
      BY <1>2 DEF OwnerTypeOK
    <2>2. PICK g \in Gens : g = managed[w][s]
      BY <2>1
    <2>3. g <= lastGen /\ born[g] = <<w, s>>
      BY <2>1, <2>2 DEF Owners
    <2>4. Born(g) /\ WatcherOf(g) = w /\ ServiceOf(g) = s
      BY <2>3 DEF Born, WatcherOf, ServiceOf
    <2>5. Live(g)
      BY <2>2, <2>4 DEF Live
    <2>6. managed'[w][s] = 0
      BY <1>4, <2>1
    <2>7. WatcherOf(g)' = w /\ ServiceOf(g)' = s
      BY <1>9, <2>4
    <2>8. ~Live(g)'
      BY <1>5, <2>6, <2>7 DEF Live
    <2> QED
      BY <2>2, <2>3, <2>4, <2>5, <2>8
  <1>12. /\ \/ gone = {} /\ UNCHANGED unsent
            \/ \E t \in Threads :
                 /\ unsent[w][t] = {}
                 /\ unsent' = [unsent EXCEPT ![w][t] =
                      {Update(NameOf[s], managed[w][s], Nil) : s \in gone}]
         /\ locked' \in [Watchers -> Threads \cup {"free"}]
         /\ \A v \in Watchers : phase'[v] = phase[v]
                                \/ (phase[v] = "sync" /\ phase'[v] = "synced")
         /\ DOMAIN phase' = DOMAIN phase /\ phase' = [v \in DOMAIN phase |-> phase'[v]]
    BY <1>1 DEF Reconciled
  <1>13. ASSUME NEW g \in Gens, Live(g), ~Live(g)'
         PROVE  /\ WatcherOf(g) = w
                /\ ServiceOf(g) \in gone
                /\ ServiceOf(g) \notin listed[w]
                /\ \E t \in Threads : Update(BackendOf(g), g, Nil) \in unsent'[w][t]
    <2>1. Born(g) /\ Born(g)' /\ managed[WatcherOf(g)][ServiceOf(g)] = g
      BY <1>6, <1>13 DEF Live
    <2>2. managed'[WatcherOf(g)][ServiceOf(g)] # g
      BY <1>9, <1>13, <2>1 DEF Live
    <2>3. g # 0
      BY <1>5
    <2>4. WatcherOf(g) = w /\ ServiceOf(g) \in gone
      BY <1>4, <1>9, <2>1, <2>2, <2>3
    <2>5. Update(BackendOf(g), g, Nil) \in {Update(NameOf[s], managed[w][s], Nil) : s \in gone}
      BY <2>1, <2>4 DEF BackendOf
    <2>6. PICK t \in Threads :
             unsent' = [unsent EXCEPT ![w][t] =
                      {Update(NameOf[s], managed[w][s], Nil) : s \in gone}]
      BY <1>12, <2>4
    <2>7. unsent'[w][t] = {Update(NameOf[s], managed[w][s], Nil) : s \in gone}
      BY <2>6 DEF FlowTypeOK
    <2> QED
      BY <1>2, <2>4, <2>5, <2>7
  <1>14. ASSUME NEW g \in Gens, ~Born(g), Born(g)'
         PROVE  /\ born'[g] \in Watchers \X Services /\ WatcherOf(g)' = w
                /\ Live(g)' /\ BackendOf(g)' \notin Explicit
                /\ fwd'[g] = IF phase[w] = "running" THEN "on" ELSE fwd[g]
    <2>1. g \in (lastGen + 1)..lastGen'
      BY <1>6, <1>14
    <2>2. PICK s \in Services : /\ born'[g] = <<w, s>> /\ managed'[w][s] = g
                                /\ NameOf[s] \notin Explicit
      BY <1>4, <2>1
    <2> QED
      BY <1>4, <1>14, <2>1, <2>2 DEF WatcherOf, ServiceOf, BackendOf, Live
  <1>15. /\ \A v \in Watchers, t \in Threads : unsent[v][t] \subseteq unsent'[v][t]
         /\ \A v \in Watchers, t \in Threads : \A u \in unsent'[v][t] :
              u \in unsent[v][t]
                \/ (v = w /\ \E s \in gone : u = Update(NameOf[s], managed[w][s], Nil))
    <2> DEFINE owed == {Update(NameOf[s], managed[w][s], Nil) : s \in gone}
    <2>1. \/ unsent' = unsent
          \/ \E r \in Threads : /\ unsent[w][r] = {}
                                /\ unsent' = [unsent EXCEPT ![w][r] = owed]
      BY <1>12, Zenon
    <2>2. \A u \in owed : \E s \in gone : u = Update(NameOf[s], managed[w][s], Nil)
      OBVIOUS
    <2>3. unsent \in [Watchers -> [Threads -> SUBSET Updates(Gens)]]
      BY DEF FlowTypeOK
    <2> HIDE DEF owed
    <2>4. \A v \in Watchers, t \in Threads :
            unsent'[v][t] = unsent[v][t]
              \/ (v = w /\ unsent[v][t] = {} /\ unsent'[v][t] = owed)
      BY <2>1, <2>3
    <2> QED
      BY <2>2, <2>4
  <1>16. ASSUME NEW v \in Watchers, NEW t \in Threads, NEW u \in unsent'[v][t]
         PROVE  \/ u \in unsent[v][t]
                \/ /\ v = w /\ u.gen \in Gens /\ Born(u.gen) /\ ~Live(u.gen)'
                   /\ WatcherOf(u.gen) = w /\ u = Update(BackendOf(u.gen), u.gen, Nil)
    <2> SUFFICES ASSUME u \notin unsent[v][t]
                 PROVE /\ v = w /\ u.gen \in Gens /\ Born(u.gen) /\ ~Live(u.gen)'
                       /\ WatcherOf(u.gen) = w /\ u = Update(BackendOf(u.gen), u.gen, Nil)
      OBVIOUS
    <2>1. PICK s \in gone : v = w /\ u = Update(NameOf[s], managed[w][s], Nil)
      BY <1>15, <1>16
    <2>2. u.gen = managed[w][s] /\ u = Update(NameOf[s], u.gen, Nil)
      BY <2>1 DEF Update
    <2>3. PICK g \in Gens : /\ g = managed[w][s] /\ Born(g)
                            /\ WatcherOf(g) = w /\ ServiceOf(g) = s /\ ~Live(g)'
      BY <1>11, <2>1
    <2>4. u.gen = g /\ BackendOf(g) = NameOf[s]
      BY <2>2, <2>3 DEF BackendOf
    <2> QED
      BY <2>1, <2>2, <2>3, <2>4
  <1>17. OwnerTypeOK'
    <2>1. listed' = listed
      BY <1>3 DEF clusterVars
    <2>2. lastGen' \in 0..MaxGen
      BY <1>5
    <2> QED
      BY <1>4, <1>12, <2>1, <2>2 DEF OwnerTypeOK
  <1>18. FlowTypeOK'
    <2>1. fwd' \in [Gens -> {"off", "on", "stopped"}]
      <3>1. \A g \in Gens : fwd'[g] \in {"off", "on", "stopped"}
        BY <1>4, <1>6, <1>8 DEF FlowTypeOK
      <3>2. fwd' = [g \in Gens |-> fwd'[g]]
        BY <1>2 DEF Adopt
      <3> QED
        BY <3>1, <3>2
    <2>2. unsent' \in [Watchers -> [Threads -> SUBSET Updates(Gens)]]
      <3>1. {Update(NameOf[s], managed[w][s], Nil) : s \in gone} \in SUBSET Updates(Gens)
        <4>1. \A s \in gone : /\ NameOf[s] \in Names /\ managed[w][s] \in {0} \cup Gens
                              /\ Update(NameOf[s], managed[w][s], Nil) \in Updates(Gens)
          BY <1>2, <1>11, DiscoveryAssumption DEF Update, Updates
        <4> QED
          BY <4>1
      <3>2. unsent \in [Watchers -> [Threads -> SUBSET Updates(Gens)]]
        BY DEF FlowTypeOK
      <3> DEFINE owed == {Update(NameOf[s], managed[w][s], Nil) : s \in gone}
                 T == Updates(Gens)
      <3>3. unsent' = unsent \/ \E t \in Threads : unsent' = [unsent EXCEPT ![w][t] = owed]
        BY <1>12
      <3>4. owed \in SUBSET T /\ unsent \in [Watchers -> [Threads -> SUBSET T]]
        BY <3>1, <3>2
      <3> HIDE DEF owed, T
      <3>5. unsent' \in [Watchers -> [Threads -> SUBSET T]]
        BY <3>3, <3>4
      <3> QED
        BY <3>5 DEF T
    <2>3. UNCHANGED <<sent, chan, hold, updateCh>>
      BY <1>3
    <2> QED
      BY <2>1, <2>2, <2>3 DEF FlowTypeOK
  <1>19. StartTypeOK'
    <2>1. phase' \in [Watchers -> {"sync", "synced", "collect", "running"}]
      <3>1. phase \in [Watchers -> {"sync", "synced", "collect", "running"}]
        BY DEF StartTypeOK
      <3>2. \A v \in Watchers : phase'[v] \in {"sync", "synced", "collect", "running"}
        BY <1>12, <3>1
      <3> QED
        BY <1>12, <3>1, <3>2
    <2>2. UNCHANGED <<pendingInit, initial, loopUp>>
      BY <1>3
    <2> QED
      BY <2>1, <2>2 DEF StartTypeOK
  <1> QED
    BY <1>3, <1>4, <1>7, <1>8, <1>10, <1>12, <1>13, <1>14, <1>15, <1>16, <1>17, <1>18, <1>19, Zenon

-----------------------------------------------------------------------------
(* Owners.                                                                 *)

\* The steps that leave the managed Services and the registry alone.
Keeps ==
  \/ Environment
  \/ \E w \in Watchers, g \in Gens : CollectValue(w, g) \/ CollectSkip(w, g)
  \/ \E w \in Watchers : BeginCollect(w) \/ StartForwarding(w) \/ LoopDeliver(w)
  \/ \E w \in Watchers, t \in Threads : SendRemoval(w, t)
  \/ \E g \in Gens : ChildSend(g) \/ FwdTake(g) \/ FwdSend(g) \/ FwdStop(g)
  \/ MergeInitial \/ TombstoneSweep
  \/ UNCHANGED vars

LEMMA Splits ==
  ASSUME [Next]_vars
  PROVE  Keeps \/ \E w \in Watchers : Syncs(w)
  BY DEF Next, Program, Start, Forward, Keeps, Syncs

LEMMA KeepsOwners ==
  ASSUME Keeps
  PROVE  UNCHANGED watcherVars
  <1>1. CASE Environment
    BY <1>1 DEF Environment, ServiceEvent, EndpointEvent, ExplicitUpdate, TombstoneExpire
  <1>2. CASE \E w \in Watchers, g \in Gens : CollectValue(w, g) \/ CollectSkip(w, g)
    BY <1>2 DEF CollectValue, CollectSkip
  <1>3. CASE \E w \in Watchers : BeginCollect(w) \/ StartForwarding(w) \/ LoopDeliver(w)
    BY <1>3 DEF BeginCollect, StartForwarding, LoopDeliver
  <1>4. CASE \E w \in Watchers, t \in Threads : SendRemoval(w, t)
    BY <1>4 DEF SendRemoval
  <1>5. CASE \E g \in Gens : ChildSend(g) \/ FwdTake(g) \/ FwdSend(g) \/ FwdStop(g)
    BY <1>5 DEF ChildSend, FwdTake, FwdSend, FwdStop
  <1>6. CASE MergeInitial \/ TombstoneSweep \/ UNCHANGED vars
    BY <1>6 DEF MergeInitial, TombstoneSweep, vars
  <1> QED
    BY <1>1, <1>2, <1>3, <1>4, <1>5, <1>6 DEF Keeps

LEMMA OwnersKept ==
  ASSUME OwnerTypeOK, FlowTypeOK, StartTypeOK, Owners, [Next]_vars
  PROVE  OwnerTypeOK' /\ Owners'
  <1>1. ASSUME NEW w \in Watchers, Syncs(w)
        PROVE  OwnerTypeOK' /\ Owners'
    <2>1. /\ OwnerTypeOK' /\ OneOwner'
          /\ \A v \in Watchers, s \in Services :
               managed'[v][s] # 0 =>
                 managed'[v][s] <= lastGen' /\ born'[managed'[v][s]] = <<v, s>>
          /\ \A g \in Gens : Born(g) => born'[g] = born[g]
          /\ \A g \in Gens : Born(g) /\ Live(g)' => Live(g)
          /\ \A g \in Gens : ~Born(g) /\ Born(g)' =>
              /\ born'[g] \in Watchers \X Services
              /\ Live(g)' /\ BackendOf(g)' \notin Explicit
      BY <1>1, SyncStep
    <2>2. \A g \in Gens : Born(g) => BackendOf(g)' = BackendOf(g)
      BY <2>1 DEF BackendOf, ServiceOf
    <2>3. \A g \in Gens :
            Born(g)' => born'[g] \in Watchers \X Services /\ BackendOf(g)' \notin Explicit
      BY <2>1, <2>2 DEF Owners
    <2>4. ASSUME NEW g \in Gens, NEW h \in Gens,
                 Live(g)', Born(h)', BackendOf(h)' = BackendOf(g)'
          PROVE  h <= g
      <3>0. g \in Nat /\ h \in Nat /\ lastGen \in Nat /\ Born(g)'
        BY <2>4, DiscoveryAssumption DEF OwnerTypeOK, Gens, Live
      <3>1. CASE Born(h) /\ Born(g)
        BY <2>1, <2>2, <2>4, <3>1 DEF Owners
      <3>2. CASE Born(h) /\ ~Born(g)
        BY <3>0, <3>2 DEF Born
      <3>3. CASE ~Born(h)
        <4>1. Live(h)'
          BY <2>1, <2>4, <3>3
        <4>2. /\ born'[g] \in Watchers \X Services /\ born'[h] \in Watchers \X Services
              /\ BackendOf(g)' \in Names
          BY <2>3, <2>4, <3>0, DiscoveryAssumption DEF BackendOf, ServiceOf
        <4>3. \A k \in Gens : Live(k)' /\ born'[k] \in Watchers \X Services =>
                /\ registry'[BackendOf(k)'] = born'[k]
                /\ managed'[born'[k][1]][born'[k][2]] = k
          <5> TAKE k \in Gens
          <5> HAVE Live(k)' /\ born'[k] \in Watchers \X Services
          <5> DEFINE v == born'[k][1]
                     r == born'[k][2]
          <5>1. v \in Watchers /\ r \in Services /\ born'[k] = <<v, r>>
            OBVIOUS
          <5>2. managed'[v][r] = k /\ k # 0 /\ BackendOf(k)' = NameOf[r] /\ NameOf[r] \in Names
            BY <5>1, DiscoveryAssumption DEF Live, WatcherOf, ServiceOf, BackendOf, Gens
          <5>3. registry'[NameOf[r]] = <<v, r>>
            BY <2>1, <5>1, <5>2 DEF OneOwner
          <5> QED
            BY <5>1, <5>2, <5>3
        <4>4. born'[g] = born'[h] /\ managed'[born'[g][1]][born'[g][2]] = g
              /\ managed'[born'[h][1]][born'[h][2]] = h
          BY <2>4, <4>1, <4>2, <4>3
        <4>5. g = h
          BY <4>4
        <4> QED
          BY <3>0, <4>5
      <3> QED
        BY <3>1, <3>2, <3>3
    <2> QED
      BY <2>1, <2>3, <2>4 DEF Owners
  <1>2. ASSUME Keeps
        PROVE  OwnerTypeOK' /\ Owners'
    <2>1. UNCHANGED <<locked, managed, registry, lastGen, born>>
      BY <1>2, KeepsOwners DEF watcherVars
    <2>2. listed' \in [Watchers -> SUBSET Services]
      <3>1. CASE \E w \in Watchers, s \in Services : ServiceEvent(w, s)
        BY <3>1 DEF ServiceEvent, OwnerTypeOK
      <3>2. CASE listed' = listed
        BY <3>2 DEF OwnerTypeOK
      <3>3. listed' = listed \/ \E w \in Watchers, s \in Services : ServiceEvent(w, s)
        <4>1. CASE Environment
          BY <4>1 DEF Environment, EndpointEvent, ExplicitUpdate, TombstoneExpire, clusterVars
        <4>2. CASE \E w \in Watchers, g \in Gens : CollectValue(w, g) \/ CollectSkip(w, g)
          BY <4>2 DEF CollectValue, CollectSkip, clusterVars
        <4>3. CASE \E w \in Watchers : BeginCollect(w) \/ StartForwarding(w) \/ LoopDeliver(w)
          BY <4>3 DEF BeginCollect, StartForwarding, LoopDeliver, clusterVars
        <4>4. CASE \E w \in Watchers, t \in Threads : SendRemoval(w, t)
          BY <4>4 DEF SendRemoval, clusterVars
        <4>5. CASE \E g \in Gens : ChildSend(g) \/ FwdTake(g) \/ FwdSend(g) \/ FwdStop(g)
          BY <4>5 DEF ChildSend, FwdTake, FwdSend, FwdStop, clusterVars
        <4>6. CASE MergeInitial \/ TombstoneSweep \/ UNCHANGED vars
          BY <4>6 DEF MergeInitial, TombstoneSweep, vars, clusterVars
        <4> QED
          BY <1>2, <4>1, <4>2, <4>3, <4>4, <4>5, <4>6 DEF Keeps
      <3> QED
        BY <3>1, <3>2, <3>3
    <2>3. OwnerTypeOK'
      BY <2>1, <2>2 DEF OwnerTypeOK
    <2>4. Owners'
      BY <2>1 DEF Owners, OneOwner, Born, Live, WatcherOf, ServiceOf, BackendOf
    <2> QED
      BY <2>3, <2>4
  <1> QED
    BY <1>1, <1>2, Splits

-----------------------------------------------------------------------------
(* Types.                                                                  *)

LEMMA Enqueued ==
  ASSUME FlowTypeOK, NEW w \in Watchers, NEW u \in Updates(Gens),
         updateCh' = [updateCh EXCEPT ![w] = Append(@, u)]
  PROVE  /\ updateCh' \in [Watchers -> Seq(Updates(Gens))]
         /\ \A v \in Watchers : v # w => updateCh'[v] = updateCh[v]
         /\ Len(updateCh[w]) \in Nat
         /\ Len(updateCh'[w]) = Len(updateCh[w]) + 1
         /\ updateCh'[w][Len(updateCh[w]) + 1] = u
         /\ \A i \in 1..Len(updateCh[w]) : updateCh'[w][i] = updateCh[w][i]
  <1> DEFINE T == Updates(Gens)
  <1>1. /\ updateCh \in [Watchers -> Seq(T)]
        /\ updateCh[w] \in Seq(T) /\ u \in T
    BY DEF FlowTypeOK
  <1> HIDE DEF T
  <1>2. /\ updateCh'[w] = Append(updateCh[w], u)
        /\ \A v \in Watchers : v # w => updateCh'[v] = updateCh[v]
    BY <1>1
  <1>3. /\ Len(updateCh[w]) \in Nat
        /\ Append(updateCh[w], u) \in Seq(T)
        /\ Len(Append(updateCh[w], u)) = Len(updateCh[w]) + 1
        /\ Append(updateCh[w], u)[Len(updateCh[w]) + 1] = u
        /\ \A i \in 1..Len(updateCh[w]) : Append(updateCh[w], u)[i] = updateCh[w][i]
    BY <1>1, QueueFacts
  <1>4. updateCh' \in [Watchers -> Seq(T)]
    BY <1>1, <1>3
  <1> QED
    BY <1>2, <1>3, <1>4 DEF T

LEMMA Dequeued ==
  ASSUME FlowTypeOK, NEW w \in Watchers, updateCh[w] # <<>>,
         updateCh' = [updateCh EXCEPT ![w] = Tail(@)]
  PROVE  /\ updateCh' \in [Watchers -> Seq(Updates(Gens))]
         /\ \A v \in Watchers : v # w => updateCh'[v] = updateCh[v]
         /\ Len(updateCh[w]) \in Nat /\ Len(updateCh[w]) >= 1
         /\ Head(updateCh[w]) = updateCh[w][1]
         /\ Head(updateCh[w]) \in Updates(Gens)
         /\ Len(updateCh'[w]) = Len(updateCh[w]) - 1
         /\ \A i \in 1..(Len(updateCh[w]) - 1) : updateCh'[w][i] = updateCh[w][i + 1]
  <1> DEFINE T == Updates(Gens)
  <1>1. /\ updateCh \in [Watchers -> Seq(T)]
        /\ updateCh[w] \in Seq(T)
    BY DEF FlowTypeOK
  <1> HIDE DEF T
  <1>2. /\ updateCh'[w] = Tail(updateCh[w])
        /\ \A v \in Watchers : v # w => updateCh'[v] = updateCh[v]
    BY <1>1
  <1>3. /\ Len(updateCh[w]) \in Nat /\ Len(updateCh[w]) >= 1
        /\ Head(updateCh[w]) = updateCh[w][1]
        /\ Tail(updateCh[w]) \in Seq(T)
        /\ Len(Tail(updateCh[w])) = Len(updateCh[w]) - 1
        /\ \A i \in 1..(Len(updateCh[w]) - 1) : Tail(updateCh[w])[i] = updateCh[w][i + 1]
        /\ \A i \in 1..Len(updateCh[w]) : updateCh[w][i] \in T
    BY <1>1, QueueFacts
  <1>4. updateCh' \in [Watchers -> Seq(T)]
    BY <1>1, <1>3
  <1>5. Head(updateCh[w]) \in T
    BY <1>3
  <1> QED
    BY <1>2, <1>3, <1>4, <1>5 DEF T

\* What is known of an incarnation.
LEMMA BornFacts ==
  ASSUME OwnerTypeOK, Owners, NEW g \in Gens, Born(g)
  PROVE  /\ WatcherOf(g) \in Watchers /\ ServiceOf(g) \in Services
         /\ BackendOf(g) \in Names \ Explicit
         /\ g \in Nat /\ g # 0
  BY DiscoveryAssumption DEF Owners, WatcherOf, ServiceOf, BackendOf, Gens

LEMMA MergedOf ==
  ASSUME StartTypeOK, NEW n \in Names
  PROVE  \/ Merged(n) = NoInitial /\ \A w \in Watchers : initial[w][n].gen = 0
         \/ \E w \in Watchers : Merged(n) = initial[w][n] /\ initial[w][n].gen # 0
  <1> DEFINE found == {w \in Watchers : initial[w][n].gen # 0}
  <1>1. CASE found = {}
    BY <1>1 DEF Merged
  <1>2. CASE found # {}
    <2>1. found \subseteq Nat \ {0} /\ IsFiniteSet(found)
      BY DiscoveryAssumption, FS_Subset
    <2>2. PICK c \in Nat : \A x \in found : x <= c
      <3> HIDE DEF found
      <3> QED
        BY <2>1, BoundOf
    <2>3. found \subseteq 1..c
      BY <2>1, <2>2
    <2>4. \E w \in found : \A v \in found : v <= w
      <3> HIDE DEF found
      <3> QED
        BY <1>2, <2>3, LargestOf
    <2>5. Merged(n) = initial[CHOOSE w \in found : \A v \in found : v <= w][n]
      BY <1>2 DEF Merged
    <2>6. (CHOOSE w \in found : \A v \in found : v <= w) \in found
      BY <2>4
    <2> QED
      BY <2>5, <2>6
  <1> QED
    BY <1>1, <1>2

LEMMA DeliverTypes ==
  ASSUME TableTypeOK(Gens), NEW u \in Updates(Gens), Deliver(u)
  PROVE  TableTypeOK(Gens)'
  <1>0. /\ u.name \in Names /\ u.gen \in {0} \cup Gens
        /\ u.endpoints \in EndpointSets \cup {Nil}
    BY DEF Updates
  <1>1. CASE Drop(u)
    BY <1>1 DEF Drop, tableVars, TableTypeOK
  <1>2. CASE Remove(u)
    BY <1>0, <1>2 DEF Remove, TableTypeOK
  <1>3. CASE Add(u)
    BY <1>0, <1>3 DEF Add, TableTypeOK
  <1> QED
    BY <1>1, <1>2, <1>3 DEF Deliver

LEMMA ValueTypes ==
  /\ \A e \in EndpointSets : Snapshot(e) \in Snapshots
  /\ \A x \in Snapshots : Normalized(x) \in EndpointSets /\ Normalized(x) # Nil
  /\ NoValue \notin Snapshots
  BY DiscoveryAssumption, EndpointsAssumption DEF Snapshot, Snapshots, Normalized

LEMMA FlowTypesKept ==
  ASSUME DiscoveryInv, Keeps
  PROVE  FlowTypeOK'
  <1> USE DEF DiscoveryInv, TypeOK
  <1>1. CASE Environment \/ MergeInitial \/ TombstoneSweep \/ UNCHANGED vars
    <2>1. UNCHANGED flowVars /\ UNCHANGED <<unsent, updateCh>>
      BY <1>1 DEF Environment, ServiceEvent, EndpointEvent, ExplicitUpdate,
                  TombstoneExpire, MergeInitial, TombstoneSweep, vars
    <2> QED
      BY <2>1 DEF flowVars, FlowTypeOK
  <1>2. CASE \E w \in Watchers, g \in Gens : CollectValue(w, g) \/ CollectSkip(w, g)
    BY <1>2 DEF CollectValue, CollectSkip, flowVars, FlowTypeOK
  <1>3. CASE \E w \in Watchers : BeginCollect(w) \/ StartForwarding(w)
    BY <1>3 DEF BeginCollect, StartForwarding, flowVars, FlowTypeOK
  <1>4. ASSUME NEW w \in Watchers, LoopDeliver(w)
        PROVE  FlowTypeOK'
    <2>1. updateCh' \in [Watchers -> Seq(Updates(Gens))]
      BY <1>4, Dequeued DEF LoopDeliver
    <2>2. UNCHANGED <<sent, chan, fwd, hold, unsent>>
      BY <1>4 DEF LoopDeliver, flowVars
    <2> QED
      BY <2>1, <2>2 DEF FlowTypeOK
  <1>5. ASSUME NEW w \in Watchers, NEW t \in Threads, SendRemoval(w, t)
        PROVE  FlowTypeOK'
    <2>1. PICK u \in unsent[w][t] :
            /\ updateCh' = [updateCh EXCEPT ![w] = Append(@, u)]
            /\ unsent' = [unsent EXCEPT ![w][t] = @ \ {u}]
      BY <1>5 DEF SendRemoval
    <2>2. unsent \in [Watchers -> [Threads -> SUBSET Updates(Gens)]]
      BY DEF FlowTypeOK
    <2>3. u \in Updates(Gens)
      BY <2>2
    <2>4. updateCh' \in [Watchers -> Seq(Updates(Gens))]
      BY <2>1, <2>3, Enqueued
    <2>5. unsent' \in [Watchers -> [Threads -> SUBSET Updates(Gens)]]
      <3> HIDE DEF DiscoveryInv
      <3> QED
        BY <2>1, <2>2
    <2>6. UNCHANGED <<sent, chan, fwd, hold>>
      BY <1>5 DEF SendRemoval, flowVars
    <2> QED
      BY <2>4, <2>5, <2>6 DEF FlowTypeOK
  <1>6. ASSUME NEW g \in Gens, ChildSend(g)
        PROVE  FlowTypeOK'
    <2>1. ServiceOf(g) \in Services
      BY <1>6, BornFacts DEF ChildSend, Live
    <2>2. Snapshot(actual[ServiceOf(g)]) \in Snapshots
      BY <2>1, ValueTypes DEF ClusterTypeOK
    <2> QED
      BY <1>6, <2>2 DEF ChildSend, FlowTypeOK
  <1>7. ASSUME NEW g \in Gens, FwdTake(g) \/ FwdStop(g)
        PROVE  FlowTypeOK'
    BY <1>7 DEF FwdTake, FwdStop, FlowTypeOK
  <1>8. ASSUME NEW g \in Gens, FwdSend(g)
        PROVE  FlowTypeOK'
    <2>1. Born(g) /\ hold[g] \in Snapshots
      BY <1>8 DEF FwdSend, Flights, Held, FlowTypeOK
    <2>2. Update(BackendOf(g), g, Normalized(hold[g])) \in Updates(Gens)
      BY <2>1, BornFacts, ValueTypes DEF Update, Updates
    <2>3. /\ updateCh' = [updateCh EXCEPT ![WatcherOf(g)] =
                    Append(@, Update(BackendOf(g), g, Normalized(hold[g])))]
          /\ hold' = [hold EXCEPT ![g] = NoValue]
          /\ UNCHANGED <<sent, chan, fwd, unsent>>
      BY <1>8 DEF FwdSend
    <2>4. updateCh' \in [Watchers -> Seq(Updates(Gens))]
      BY <2>1, <2>2, <2>3, BornFacts, Enqueued
    <2> QED
      BY <2>3, <2>4 DEF FlowTypeOK
  <1> QED
    BY <1>1, <1>2, <1>3, <1>4, <1>5, <1>6, <1>7, <1>8 DEF Keeps

LEMMA StartTypesKept ==
  ASSUME DiscoveryInv, Keeps
  PROVE  StartTypeOK'
  <1> USE DEF DiscoveryInv, TypeOK
  <1>1. ASSUME NEW w \in Watchers, NEW g \in Gens, CollectValue(w, g)
        PROVE  StartTypeOK'
    <2>1. Born(g) /\ BackendOf(g) \in Names
      BY <1>1, BornFacts DEF CollectValue, Collected
    <2>2. [gen |-> g, endpoints |-> Normalized(chan[g])]
            \in [gen : {0} \cup Gens, endpoints : EndpointSets \cup {Nil}]
      BY <1>1, ValueTypes DEF CollectValue, FlowTypeOK
    <2> DEFINE T == [gen : {0} \cup Gens, endpoints : EndpointSets \cup {Nil}]
               new == [gen |-> g, endpoints |-> Normalized(chan[g])]
    <2>3. initial \in [Watchers -> [Names -> T]] /\ new \in T
          /\ initial' = [initial EXCEPT ![w][BackendOf(g)] = new]
      BY <1>1, <2>2 DEF CollectValue, StartTypeOK
    <2> HIDE DEF T, new
    <2>4. initial' \in [Watchers -> [Names -> T]]
      BY <2>1, <2>3
    <2> QED
      BY <1>1, <2>4 DEF CollectValue, StartTypeOK, T
  <1>2. CASE \E w \in Watchers, g \in Gens : CollectSkip(w, g)
    BY <1>2 DEF CollectSkip, StartTypeOK
  <1>3. ASSUME NEW w \in Watchers, BeginCollect(w) \/ StartForwarding(w)
        PROVE  StartTypeOK'
    BY <1>3 DEF BeginCollect, StartForwarding, StartTypeOK
  <1>4. CASE MergeInitial
    BY <1>4 DEF MergeInitial, StartTypeOK
  <1>5. CASE UNCHANGED initVars
    BY <1>5 DEF initVars, StartTypeOK
  <1>6. CASE Environment
    BY <1>5, <1>6 DEF Environment, ServiceEvent, EndpointEvent, ExplicitUpdate, TombstoneExpire
  <1>7. CASE \E w \in Watchers, t \in Threads : SendRemoval(w, t)
    BY <1>5, <1>7 DEF SendRemoval
  <1>8. CASE \E g \in Gens : ChildSend(g) \/ FwdTake(g) \/ FwdSend(g) \/ FwdStop(g)
    BY <1>5, <1>8 DEF ChildSend, FwdTake, FwdSend, FwdStop
  <1>9. CASE (\E w \in Watchers : LoopDeliver(w)) \/ TombstoneSweep \/ UNCHANGED vars
    BY <1>5, <1>9 DEF LoopDeliver, TombstoneSweep, vars
  <1> QED
    BY <1>1, <1>2, <1>3, <1>4, <1>6, <1>7, <1>8, <1>9 DEF Keeps

LEMMA TableTypesKept ==
  ASSUME DiscoveryInv, Keeps
  PROVE  TableTypeOK(Gens)'
  <1> USE DEF DiscoveryInv, TypeOK
  <1>1. CASE UNCHANGED tableVars
    BY <1>1 DEF tableVars, TableTypeOK
  <1>2. ASSUME NEW w \in Watchers, LoopDeliver(w)
        PROVE  TableTypeOK(Gens)'
    <2>1. Deliver(Head(updateCh[w])) /\ Head(updateCh[w]) \in Updates(Gens)
      BY <1>2, Dequeued DEF LoopDeliver
    <2> QED
      BY <2>1, DeliverTypes
  <1>3. ASSUME NEW n \in Explicit, NEW e \in EndpointSets, ExplicitUpdate(n, e)
        PROVE  TableTypeOK(Gens)'
    <2>1. Deliver(Update(n, 0, e)) /\ Update(n, 0, e) \in Updates(Gens)
      BY <1>3, DiscoveryAssumption DEF ExplicitUpdate, Update, Updates
    <2> QED
      BY <2>1, DeliverTypes
  <1>4. ASSUME NEW n \in Names, TombstoneExpire(n)
        PROVE  TableTypeOK(Gens)'
    BY <1>4 DEF TombstoneExpire, Expire, TableTypeOK
  <1>5. CASE TombstoneSweep
    BY <1>5 DEF TombstoneSweep, SweepExpiredTombstones, TableTypeOK
  <1>6. CASE MergeInitial
    <2>1. ASSUME NEW n \in Names
          PROVE  Merged(n).gen \in {0} \cup Gens /\ Merged(n).endpoints \in EndpointSets \cup {Nil}
      BY MergedOf DEF NoInitial, StartTypeOK
    <2>2. PICK e \in [Explicit -> EndpointSets] :
             backends' = [n \in Names |-> IF n \in Explicit THEN e[n]
                                          ELSE Merged(n).endpoints]
      BY <1>6 DEF MergeInitial
    <2>3. backends' \in [Names -> EndpointSets \cup {Nil}]
      BY <2>1, <2>2
    <2>4. source' \in [Names -> {0} \cup Gens]
      BY <1>6, <2>1 DEF MergeInitial
    <2> QED
      BY <1>6, <2>3, <2>4 DEF MergeInitial, TableTypeOK
  <1>7. CASE Environment
    <2>1. CASE (\E w \in Watchers, s \in Services : ServiceEvent(w, s))
               \/ \E s \in Services, e \in EndpointSets : EndpointEvent(s, e)
      BY <1>1, <2>1 DEF ServiceEvent, EndpointEvent
    <2> QED
      BY <1>3, <1>4, <1>7, <2>1 DEF Environment
  <1>8. CASE (\E w \in Watchers, g \in Gens : CollectValue(w, g) \/ CollectSkip(w, g))
             \/ \E w \in Watchers : BeginCollect(w) \/ StartForwarding(w)
    BY <1>1, <1>8 DEF CollectValue, CollectSkip, BeginCollect, StartForwarding
  <1>9. CASE \E w \in Watchers, t \in Threads : SendRemoval(w, t)
    BY <1>1, <1>9 DEF SendRemoval
  <1>10. CASE \E g \in Gens : ChildSend(g) \/ FwdTake(g) \/ FwdSend(g) \/ FwdStop(g)
    BY <1>1, <1>10 DEF ChildSend, FwdTake, FwdSend, FwdStop
  <1>11. CASE UNCHANGED vars
    BY <1>1, <1>11 DEF vars
  <1> QED
    BY <1>2, <1>5, <1>6, <1>7, <1>8, <1>9, <1>10, <1>11 DEF Keeps

LEMMA ClusterTypesKept ==
  ASSUME ClusterTypeOK, [Next]_vars
  PROVE  ClusterTypeOK'
  <1> USE DEF ClusterTypeOK
  <1>1. ASSUME NEW w \in Watchers, NEW s \in Services, ServiceEvent(w, s)
        PROVE  ClusterTypeOK'
    BY <1>1, DiscoveryAssumption DEF ServiceEvent, watcherVars
  <1>2. ASSUME NEW s \in Services, NEW e \in EndpointSets, EndpointEvent(s, e)
        PROVE  ClusterTypeOK'
    BY <1>2, DiscoveryAssumption DEF EndpointEvent, watcherVars
  <1>3. ASSUME NEW w \in Watchers, NEW t \in Threads, Reconcile(w, t),
               dirty' \in [Watchers -> BOOLEAN]
        PROVE  ClusterTypeOK'
    <2>1. kick' \in [Watchers -> BOOLEAN]
      BY <1>3, Zenon DEF Reconcile, Kicks
    <2> QED
      BY <1>3, <2>1 DEF Reconcile, clusterVars
  <1>4. ASSUME NEW w \in Watchers, Syncs(w)
        PROVE  ClusterTypeOK'
    <2>1. CASE HandlerSync(w)
      <3>1. dirty' \in [Watchers -> BOOLEAN]
        BY <2>1 DEF HandlerSync
      <3>2. "handler" \in Threads /\ Reconcile(w, "handler")
        BY <2>1 DEF HandlerSync, Threads
      <3> QED
        BY <1>3, <3>1, <3>2
    <2>2. CASE KickSync(w)
      <3>1. "kick" \in Threads /\ Reconcile(w, "kick") /\ dirty' = dirty
        BY <2>2 DEF KickSync, Threads
      <3> QED
        BY <1>3, <3>1
    <2>3. CASE InitialSync(w)
      <3>1. "run" \in Threads /\ Reconcile(w, "run") /\ dirty' = dirty
        BY <2>3 DEF InitialSync, Threads
      <3> QED
        BY <1>3, <3>1
    <2>4. CASE AddPassAgain(w)
      BY <2>4 DEF AddPassAgain, clusterVars
    <2> QED
      BY <1>4, <2>1, <2>2, <2>3, <2>4 DEF Syncs
  <1>5. CASE UNCHANGED <<actual, changes, dirty, kick>>
    BY <1>5
  <1>6. CASE Keeps
    <2>1. CASE Environment
      <3>1. CASE (\E n \in Explicit, e \in EndpointSets : ExplicitUpdate(n, e))
                 \/ \E n \in Names : TombstoneExpire(n)
        BY <1>5, <3>1 DEF ExplicitUpdate, TombstoneExpire, clusterVars, watcherVars
      <3> QED
        BY <1>1, <1>2, <2>1, <3>1 DEF Environment
    <2>2. CASE \E w \in Watchers, g \in Gens : CollectValue(w, g) \/ CollectSkip(w, g)
      BY <1>5, <2>2 DEF CollectValue, CollectSkip, clusterVars, watcherVars
    <2>3. CASE \E w \in Watchers : BeginCollect(w) \/ StartForwarding(w) \/ LoopDeliver(w)
      BY <1>5, <2>3 DEF BeginCollect, StartForwarding, LoopDeliver, clusterVars, watcherVars
    <2>4. CASE \E w \in Watchers, t \in Threads : SendRemoval(w, t)
      BY <1>5, <2>4 DEF SendRemoval, clusterVars, watcherVars
    <2>5. CASE \E g \in Gens : ChildSend(g) \/ FwdTake(g) \/ FwdSend(g) \/ FwdStop(g)
      BY <1>5, <2>5 DEF ChildSend, FwdTake, FwdSend, FwdStop, clusterVars, watcherVars
    <2>6. CASE MergeInitial \/ TombstoneSweep \/ UNCHANGED vars
      BY <1>5, <2>6 DEF MergeInitial, TombstoneSweep, vars, clusterVars, watcherVars
    <2> QED
      BY <1>6, <2>1, <2>2, <2>3, <2>4, <2>5, <2>6 DEF Keeps
  <1> QED
    BY <1>4, <1>6, Splits

-----------------------------------------------------------------------------
(* What is on its way.                                                     *)

LEMMA LoopStarts ==
  ASSUME Keeps
  PROVE  /\ loopUp' = loopUp \/ MergeInitial
         /\ listed' = listed \/ (CalmStartup => loopUp)
  <1>1. CASE Environment
    BY <1>1 DEF Environment, ServiceEvent, EndpointEvent, ExplicitUpdate,
                TombstoneExpire, clusterVars, initVars
  <1>2. CASE \E w \in Watchers, g \in Gens : CollectValue(w, g) \/ CollectSkip(w, g)
    BY <1>2 DEF CollectValue, CollectSkip, clusterVars
  <1>3. CASE \E w \in Watchers : BeginCollect(w) \/ StartForwarding(w) \/ LoopDeliver(w)
    BY <1>3 DEF BeginCollect, StartForwarding, LoopDeliver, clusterVars, initVars
  <1>4. CASE \E w \in Watchers, t \in Threads : SendRemoval(w, t)
    BY <1>4 DEF SendRemoval, clusterVars, initVars
  <1>5. CASE \E g \in Gens : ChildSend(g) \/ FwdTake(g) \/ FwdSend(g) \/ FwdStop(g)
    BY <1>5 DEF ChildSend, FwdTake, FwdSend, FwdStop, clusterVars, initVars
  <1>6. CASE MergeInitial \/ TombstoneSweep \/ UNCHANGED vars
    BY <1>6 DEF MergeInitial, TombstoneSweep, vars, clusterVars, initVars
  <1> QED
    BY <1>1, <1>2, <1>3, <1>4, <1>5, <1>6 DEF Keeps

LEMMA CalmKept ==
  ASSUME DiscoveryInv, [Next]_vars
  PROVE  Calm'
  <1> USE DEF DiscoveryInv, TypeOK
  <1> SUFFICES ASSUME CalmStartup, ~loopUp'
               PROVE  /\ \A w \in Watchers, s \in Services :
                           managed'[w][s] # 0 => s \in listed'[w]
                      /\ \A g \in Gens : Born(g)' => Live(g)'
    BY DEF Calm
  <1>1. ASSUME NEW w \in Watchers, Syncs(w)
        PROVE  /\ \A v \in Watchers, s \in Services :
                           managed'[v][s] # 0 => s \in listed'[v]
               /\ \A g \in Gens : Born(g)' => Live(g)'
    <2>1. /\ \A v \in Watchers, s \in Services :
               managed'[v][s] # 0 => managed'[v][s] = managed[v][s] \/ s \in listed[v]
          /\ \A g \in Gens : Live(g) /\ ~Live(g)' =>
               WatcherOf(g) = w /\ ServiceOf(g) \notin listed[w]
          /\ \A g \in Gens : ~Born(g) /\ Born(g)' => Live(g)'
          /\ UNCHANGED <<listed, loopUp>>
      BY <1>1, SyncStep DEF clusterVars
    <2>2. /\ \A v \in Watchers, s \in Services : managed[v][s] # 0 => s \in listed[v]
          /\ \A g \in Gens : Born(g) => Live(g)
      BY <2>1 DEF Calm
    <2>3. ASSUME NEW g \in Gens, Born(g)
          PROVE  Live(g)'
      <3>1. Live(g)
        BY <2>2, <2>3
      <3>2. managed[WatcherOf(g)][ServiceOf(g)] = g /\ g # 0
            /\ WatcherOf(g) \in Watchers /\ ServiceOf(g) \in Services
        BY <2>3, <3>1, BornFacts DEF Live
      <3>3. ServiceOf(g) \in listed[WatcherOf(g)]
        BY <2>2, <3>2
      <3> QED
        BY <2>1, <3>1, <3>3
    <2> QED
      BY <2>1, <2>2, <2>3
  <1>2. CASE Keeps
    <2>1. loopUp' = loopUp
      BY <1>2, LoopStarts DEF MergeInitial
    <2>2. listed' = listed
      BY <1>2, <2>1, LoopStarts
    <2>3. UNCHANGED <<managed, lastGen, born>>
      BY <1>2, KeepsOwners DEF watcherVars
    <2> QED
      BY <2>1, <2>2, <2>3 DEF Calm, Born, Live, WatcherOf, ServiceOf
  <1> QED
    BY <1>1, <1>2, Splits

\* Where new ADDs come from.
LEMMA AddsKept ==
  ASSUME DiscoveryInv, Keeps, NEW g \in Gens, Born(g), MayAdd(g)'
  PROVE  MayAdd(g) \/ \E w \in Watchers : StartForwarding(w) /\ Live(g) /\ WatcherOf(g) = w
  <1> USE DEF DiscoveryInv, TypeOK
  <1>0. /\ UNCHANGED <<managed, lastGen, born>>
        /\ WatcherOf(g)' = WatcherOf(g) /\ Born(g)' = Born(g)
        /\ WatcherOf(g) \in Watchers
    BY KeepsOwners, BornFacts DEF watcherVars, WatcherOf, Born
  <1> DEFINE q == updateCh[WatcherOf(g)]
  <1>1. CASE UNCHANGED <<updateCh, hold, fwd>>
    BY <1>0, <1>1 DEF MayAdd, Queued
  <1>2. CASE \E w \in Watchers : StartForwarding(w)
    <2>1. PICK w \in Watchers : StartForwarding(w)
      BY <1>2
    <2>2. CASE Live(g) /\ WatcherOf(g) = w
      BY <2>1, <2>2
    <2>3. CASE ~(Live(g) /\ WatcherOf(g) = w)
      BY <1>0, <2>1, <2>3 DEF StartForwarding, MayAdd, Queued
    <2> QED
      BY <2>2, <2>3
  <1>3. ASSUME NEW w \in Watchers, LoopDeliver(w)
        PROVE  MayAdd(g)
    <2>1. UNCHANGED <<hold, fwd>>
      BY <1>3 DEF LoopDeliver, flowVars
    <2>2. ASSUME Queued(g)' PROVE Queued(g)
      <3>1. PICK i \in 1..Len(updateCh'[WatcherOf(g)]) :
               /\ updateCh'[WatcherOf(g)][i].gen = g
               /\ updateCh'[WatcherOf(g)][i].endpoints # Nil
        BY <1>0, <2>2 DEF Queued
      <3>2. CASE WatcherOf(g) # w
        BY <1>0, <1>3, <3>1, <3>2, Dequeued DEF LoopDeliver, Queued
      <3>3. CASE WatcherOf(g) = w
        <4>1. /\ Len(q) \in Nat /\ Len(q) >= 1
              /\ Len(updateCh'[w]) = Len(q) - 1
              /\ \A j \in 1..(Len(q) - 1) : updateCh'[w][j] = q[j + 1]
          BY <1>3, <3>3, Dequeued DEF LoopDeliver
        <4>2. i + 1 \in 1..Len(q) /\ updateCh'[w][i] = q[i + 1]
          BY <3>1, <3>3, <4>1
        <4> QED
          BY <3>1, <3>3, <4>2 DEF Queued
      <3> QED
        BY <3>2, <3>3
    <2> QED
      BY <1>0, <2>1, <2>2 DEF MayAdd
  <1>4. ASSUME NEW w \in Watchers, NEW t \in Threads, SendRemoval(w, t)
        PROVE  MayAdd(g)
    <2>1. PICK u \in unsent[w][t] : updateCh' = [updateCh EXCEPT ![w] = Append(@, u)]
      BY <1>4 DEF SendRemoval
    <2>2. u.endpoints = Nil /\ u \in Updates(Gens)
      BY DEF Flights, InDebt, FlowTypeOK
    <2>3. UNCHANGED <<hold, fwd>>
      BY <1>4 DEF SendRemoval, flowVars
    <2>4. ASSUME Queued(g)' PROVE Queued(g)
      <3>1. PICK i \in 1..Len(updateCh'[WatcherOf(g)]) :
               /\ updateCh'[WatcherOf(g)][i].gen = g
               /\ updateCh'[WatcherOf(g)][i].endpoints # Nil
        BY <1>0, <2>4 DEF Queued
      <3>2. CASE WatcherOf(g) # w
        BY <1>0, <2>1, <2>2, <3>1, <3>2, Enqueued DEF Queued
      <3>3. CASE WatcherOf(g) = w
        <4>1. /\ Len(q) \in Nat
              /\ Len(updateCh'[w]) = Len(q) + 1
              /\ updateCh'[w][Len(q) + 1] = u
              /\ \A j \in 1..Len(q) : updateCh'[w][j] = q[j]
          BY <2>1, <2>2, <3>3, Enqueued
        <4>2. i \in 1..Len(q)
          BY <2>2, <3>1, <3>3, <4>1
        <4> QED
          BY <3>1, <3>3, <4>1, <4>2 DEF Queued
      <3> QED
        BY <3>2, <3>3
    <2> QED
      BY <1>0, <2>3, <2>4 DEF MayAdd
  <1>5. ASSUME NEW h \in Gens, FwdSend(h)
        PROVE  MayAdd(g)
    <2>1. /\ Born(h) /\ hold[h] \in Snapshots
      BY <1>5 DEF FwdSend, Flights, Held, FlowTypeOK
    <2> DEFINE u == Update(BackendOf(h), h, Normalized(hold[h]))
    <2>2. u \in Updates(Gens) /\ u.gen = h
      BY <2>1, BornFacts, ValueTypes DEF Update, Updates
    <2>3. updateCh' = [updateCh EXCEPT ![WatcherOf(h)] = Append(@, u)]
      BY <1>5 DEF FwdSend
    <2>4. CASE g = h
      BY <1>5, <2>1, <2>4 DEF FwdSend, MayAdd
    <2>5. CASE g # h
      <3>1. UNCHANGED fwd /\ hold'[g] = hold[g]
        BY <1>5, <2>5 DEF FwdSend, FlowTypeOK
      <3>2. ASSUME Queued(g)' PROVE Queued(g)
        <4>1. PICK i \in 1..Len(updateCh'[WatcherOf(g)]) :
                 /\ updateCh'[WatcherOf(g)][i].gen = g
                 /\ updateCh'[WatcherOf(g)][i].endpoints # Nil
          BY <1>0, <3>2 DEF Queued
        <4> HIDE DEF u
        <4>2. WatcherOf(h) \in Watchers
          BY <2>1, BornFacts
        <4>3. CASE WatcherOf(g) # WatcherOf(h)
          <5>1. updateCh'[WatcherOf(g)] = q
            BY <1>0, <2>2, <2>3, <4>2, <4>3, Enqueued
          <5> QED
            BY <4>1, <5>1 DEF Queued
        <4>4. CASE WatcherOf(g) = WatcherOf(h)
          <5>1. /\ Len(q) \in Nat
                /\ Len(updateCh'[WatcherOf(g)]) = Len(q) + 1
                /\ updateCh'[WatcherOf(g)][Len(q) + 1] = u
                /\ \A j \in 1..Len(q) : updateCh'[WatcherOf(g)][j] = q[j]
            BY <2>2, <2>3, <4>2, <4>4, Enqueued
          <5>2. i \in 1..Len(q)
            BY <2>2, <2>5, <4>1, <5>1
          <5> QED
            BY <4>1, <5>1, <5>2 DEF Queued
        <4> QED
          BY <4>3, <4>4
      <3> QED
        BY <1>0, <3>1, <3>2 DEF MayAdd
    <2> QED
      BY <2>4, <2>5
  <1>6. ASSUME NEW h \in Gens, ChildSend(h) \/ FwdTake(h) \/ FwdStop(h)
        PROVE  MayAdd(g)
    <2>1. updateCh' = updateCh
      BY <1>6 DEF ChildSend, FwdTake, FwdStop
    <2>2. Queued(g)' => Queued(g)
      BY <1>0, <2>1 DEF Queued
    <2>3. (hold'[g] # NoValue => hold[g] # NoValue \/ fwd[g] = "on")
          /\ (fwd'[g] = "on" => fwd[g] = "on")
      BY <1>6 DEF ChildSend, FwdTake, FwdStop, FlowTypeOK
    <2> QED
      BY <1>0, <2>2, <2>3 DEF MayAdd
  <1>7. CASE Environment \/ MergeInitial \/ TombstoneSweep \/ UNCHANGED vars
    BY <1>1, <1>7 DEF Environment, ServiceEvent, EndpointEvent, ExplicitUpdate,
                      TombstoneExpire, MergeInitial, TombstoneSweep, flowVars, vars
  <1>8. CASE (\E w \in Watchers, h \in Gens : CollectValue(w, h) \/ CollectSkip(w, h))
             \/ \E w \in Watchers : BeginCollect(w)
    BY <1>1, <1>8 DEF CollectValue, CollectSkip, BeginCollect, flowVars
  <1> QED
    BY <1>2, <1>3, <1>4, <1>5, <1>6, <1>7, <1>8 DEF Keeps

LEMMA InQueueKept ==
  ASSUME DiscoveryInv, Keeps
  PROVE  InQueue'
  <1> USE DEF DiscoveryInv, TypeOK
  <1>0. UNCHANGED <<managed, lastGen, born>>
    BY KeepsOwners DEF watcherVars
  <1>1. \A w, u : Carried(w, u)' <=> Carried(w, u)
    BY <1>0 DEF Carried, Born, Live, WatcherOf, ServiceOf, BackendOf
  <1>2. CASE UNCHANGED updateCh
    BY <1>1, <1>2 DEF InQueue, Flights
  <1>3. ASSUME NEW w \in Watchers, NEW u \in Updates(Gens), Carried(w, u),
               updateCh' = [updateCh EXCEPT ![w] = Append(@, u)]
        PROVE  InQueue'
    <2> SUFFICES ASSUME NEW v \in Watchers, NEW i \in 1..Len(updateCh'[v])
                 PROVE  Carried(v, updateCh'[v][i])
      BY <1>1 DEF InQueue
    <2>1. /\ v # w => updateCh'[v] = updateCh[v]
          /\ Len(updateCh[w]) \in Nat
          /\ Len(updateCh'[w]) = Len(updateCh[w]) + 1
          /\ updateCh'[w][Len(updateCh[w]) + 1] = u
          /\ \A j \in 1..Len(updateCh[w]) : updateCh'[w][j] = updateCh[w][j]
      BY <1>3, Enqueued
    <2>2. \A j \in 1..Len(updateCh[v]) : Carried(v, updateCh[v][j])
      BY DEF Flights, InQueue
    <2>3. CASE v # w
      BY <2>1, <2>2, <2>3
    <2>4. CASE v = w /\ i \in 1..Len(updateCh[w])
      <3>1. updateCh'[v][i] = updateCh[v][i]
        BY <2>1, <2>4
      <3> QED
        BY <2>2, <2>4, <3>1
    <2>5. CASE v = w /\ i \notin 1..Len(updateCh[w])
      <3>1. i = Len(updateCh[w]) + 1
        BY <2>1, <2>5
      <3> QED
        BY <1>3, <2>1, <2>5, <3>1
    <2> QED
      BY <2>3, <2>4, <2>5
  <1>4. ASSUME NEW w \in Watchers, NEW t \in Threads, SendRemoval(w, t)
        PROVE  InQueue'
    <2>1. PICK u \in unsent[w][t] : updateCh' = [updateCh EXCEPT ![w] = Append(@, u)]
      BY <1>4 DEF SendRemoval
    <2>2. Carried(w, u) /\ u \in Updates(Gens)
      BY DEF Flights, InDebt, FlowTypeOK
    <2> QED
      BY <1>3, <2>1, <2>2
  <1>5. ASSUME NEW h \in Gens, FwdSend(h)
        PROVE  InQueue'
    <2>1. /\ Born(h) /\ hold[h] \in Snapshots
      BY <1>5 DEF FwdSend, Flights, Held, FlowTypeOK
    <2> DEFINE u == Update(BackendOf(h), h, Normalized(hold[h]))
    <2>2. /\ u \in Updates(Gens) /\ WatcherOf(h) \in Watchers
          /\ u.gen = h /\ u.name = BackendOf(h) /\ u.endpoints # Nil
      BY <2>1, BornFacts, ValueTypes DEF Update, Updates
    <2>3. updateCh' = [updateCh EXCEPT ![WatcherOf(h)] = Append(@, u)]
      BY <1>5 DEF FwdSend
    <2>4. Carried(WatcherOf(h), u)
      BY <2>1, <2>2 DEF Carried
    <2> QED
      BY <1>3, <2>2, <2>3, <2>4
  <1>6. ASSUME NEW w \in Watchers, LoopDeliver(w)
        PROVE  InQueue'
    <2> SUFFICES ASSUME NEW v \in Watchers, NEW i \in 1..Len(updateCh'[v])
                 PROVE  Carried(v, updateCh'[v][i])
      BY <1>1 DEF InQueue
    <2>1. /\ v # w => updateCh'[v] = updateCh[v]
          /\ Len(updateCh[w]) \in Nat
          /\ Len(updateCh'[w]) = Len(updateCh[w]) - 1
          /\ \A j \in 1..(Len(updateCh[w]) - 1) : updateCh'[w][j] = updateCh[w][j + 1]
      BY <1>6, Dequeued DEF LoopDeliver
    <2>2. \A j \in 1..Len(updateCh[v]) : Carried(v, updateCh[v][j])
      BY DEF Flights, InQueue
    <2>3. CASE v # w
      BY <2>1, <2>2, <2>3
    <2>4. CASE v = w
      <3>1. updateCh'[v][i] = updateCh[v][i + 1] /\ i + 1 \in 1..Len(updateCh[v])
        BY <2>1, <2>4
      <3> QED
        BY <2>2, <3>1
    <2> QED
      BY <2>3, <2>4
  <1>7. CASE Environment \/ MergeInitial \/ TombstoneSweep \/ UNCHANGED vars
    BY <1>2, <1>7 DEF Environment, ServiceEvent, EndpointEvent, ExplicitUpdate,
                      TombstoneExpire, MergeInitial, TombstoneSweep, vars
  <1>8. CASE (\E w \in Watchers, h \in Gens : CollectValue(w, h) \/ CollectSkip(w, h))
             \/ \E w \in Watchers : BeginCollect(w) \/ StartForwarding(w)
    BY <1>2, <1>8 DEF CollectValue, CollectSkip, BeginCollect, StartForwarding
  <1>9. CASE \E h \in Gens : ChildSend(h) \/ FwdTake(h) \/ FwdStop(h)
    BY <1>2, <1>9 DEF ChildSend, FwdTake, FwdStop
  <1> QED
    BY <1>4, <1>5, <1>6, <1>7, <1>8, <1>9 DEF Keeps

LEMMA InDebtKept ==
  ASSUME DiscoveryInv, Keeps
  PROVE  InDebt'
  <1> USE DEF DiscoveryInv, TypeOK
  <1>0. UNCHANGED <<managed, lastGen, born>>
    BY KeepsOwners DEF watcherVars
  <1>1. \A w, u : Carried(w, u)' <=> Carried(w, u)
    BY <1>0 DEF Carried, Born, Live, WatcherOf, ServiceOf, BackendOf
  <1>2. \A w \in Watchers, t \in Threads : unsent'[w][t] \subseteq unsent[w][t]
    <2>1. ASSUME NEW w \in Watchers, NEW t \in Threads, SendRemoval(w, t)
          PROVE  \A v \in Watchers, r \in Threads : unsent'[v][r] \subseteq unsent[v][r]
      <3>1. PICK u \in unsent[w][t] : unsent' = [unsent EXCEPT ![w][t] = @ \ {u}]
        BY <2>1 DEF SendRemoval
      <3>2. unsent \in [Watchers -> [Threads -> SUBSET Updates(Gens)]]
        BY DEF FlowTypeOK
      <3> HIDE DEF DiscoveryInv, TypeOK
      <3> QED
        BY <3>1, <3>2
    <2>2. CASE Environment \/ MergeInitial \/ TombstoneSweep \/ UNCHANGED vars
      BY <2>2 DEF Environment, ServiceEvent, EndpointEvent, ExplicitUpdate,
                  TombstoneExpire, MergeInitial, TombstoneSweep, vars
    <2>3. CASE (\E w \in Watchers, h \in Gens : CollectValue(w, h) \/ CollectSkip(w, h))
               \/ \E w \in Watchers : BeginCollect(w) \/ StartForwarding(w) \/ LoopDeliver(w)
      BY <2>3 DEF CollectValue, CollectSkip, BeginCollect, StartForwarding, LoopDeliver
    <2>4. CASE \E h \in Gens : ChildSend(h) \/ FwdTake(h) \/ FwdSend(h) \/ FwdStop(h)
      BY <2>4 DEF ChildSend, FwdTake, FwdSend, FwdStop
    <2> QED
      BY <2>1, <2>2, <2>3, <2>4 DEF Keeps
  <1>3. InDebt
    BY DEF Flights
  <1> QED
    BY <1>1, <1>2, <1>3 DEF InDebt

LEMMA ForwardedKept ==
  ASSUME DiscoveryInv, Keeps
  PROVE  Forwarded'
  <1> USE DEF DiscoveryInv, TypeOK
  <1>0. UNCHANGED <<lastGen, born>>
    BY KeepsOwners DEF watcherVars
  <1>1. \A v \in Watchers : phase[v] = "running" => phase'[v] = "running"
    <2>1. CASE \E w \in Watchers : BeginCollect(w) \/ StartForwarding(w)
      BY <2>1 DEF BeginCollect, StartForwarding, StartTypeOK
    <2>2. CASE Environment \/ MergeInitial \/ TombstoneSweep \/ UNCHANGED vars
      BY <2>2 DEF Environment, ServiceEvent, EndpointEvent, ExplicitUpdate,
                  TombstoneExpire, MergeInitial, TombstoneSweep, vars, initVars
    <2>3. CASE (\E w \in Watchers, h \in Gens : CollectValue(w, h) \/ CollectSkip(w, h))
               \/ \E w \in Watchers : LoopDeliver(w)
      BY <2>3 DEF CollectValue, CollectSkip, LoopDeliver, initVars
    <2>4. CASE (\E h \in Gens : ChildSend(h) \/ FwdTake(h) \/ FwdSend(h) \/ FwdStop(h))
               \/ \E w \in Watchers, t \in Threads : SendRemoval(w, t)
      BY <2>4 DEF ChildSend, FwdTake, FwdSend, FwdStop, SendRemoval, initVars
    <2> QED
      BY <2>1, <2>2, <2>3, <2>4 DEF Keeps
  <1>2. ASSUME NEW g \in Gens, Born(g)', MayAdd(g)'
        PROVE  phase'[WatcherOf(g)'] = "running"
    <2>1. Born(g) /\ WatcherOf(g)' = WatcherOf(g) /\ WatcherOf(g) \in Watchers
      BY <1>0, <1>2, BornFacts DEF Born, WatcherOf
    <2>2. CASE MayAdd(g)
      BY <1>1, <2>1, <2>2 DEF Flights, Forwarded
    <2>3. CASE \E w \in Watchers : StartForwarding(w) /\ Live(g) /\ WatcherOf(g) = w
      BY <2>1, <2>3 DEF StartForwarding, StartTypeOK
    <2> QED
      BY <1>2, <2>1, <2>2, <2>3, AddsKept
  <1>3. loopUp' => \A w \in Watchers : phase'[w] = "running"
    <2>1. CASE MergeInitial
      BY <2>1 DEF MergeInitial
    <2>2. CASE loopUp' = loopUp
      BY <1>1, <2>2 DEF Flights, Forwarded
    <2> QED
      BY <2>1, <2>2, LoopStarts
  <1> QED
    BY <1>2, <1>3 DEF Forwarded

LEMMA HeldKept ==
  ASSUME DiscoveryInv, Keeps
  PROVE  Held'
  <1> USE DEF DiscoveryInv, TypeOK
  <1>0. \A g \in Gens : Born(g)' <=> Born(g)
    BY KeepsOwners DEF watcherVars, Born
  <1>1. Held
    BY DEF Flights
  <1>2. CASE Environment \/ MergeInitial \/ TombstoneSweep \/ UNCHANGED vars
    BY <1>0, <1>1, <1>2 DEF Environment, ServiceEvent, EndpointEvent, ExplicitUpdate,
         TombstoneExpire, MergeInitial, TombstoneSweep, vars, flowVars, Held
  <1>3. CASE \E w \in Watchers, h \in Gens : CollectValue(w, h) \/ CollectSkip(w, h)
    BY <1>0, <1>1, <1>3 DEF CollectValue, CollectSkip, flowVars, Held, FlowTypeOK
  <1>4. CASE \E w \in Watchers : BeginCollect(w) \/ LoopDeliver(w)
    BY <1>0, <1>1, <1>4 DEF BeginCollect, LoopDeliver, flowVars, Held
  <1>5. CASE \E w \in Watchers : StartForwarding(w)
    BY <1>0, <1>1, <1>5 DEF StartForwarding, Live, Held, FlowTypeOK
  <1>6. CASE \E w \in Watchers, t \in Threads : SendRemoval(w, t)
    BY <1>0, <1>1, <1>6 DEF SendRemoval, flowVars, Held
  <1>7. ASSUME NEW h \in Gens, ChildSend(h)
        PROVE  Held'
    <2>1. Born(h) /\ ServiceOf(h) \in Services
      BY <1>7, BornFacts DEF ChildSend, Live
    <2>2. Snapshot(actual[ServiceOf(h)]) # NoValue
      BY <2>1, ValueTypes DEF ClusterTypeOK
    <2> QED
      BY <1>0, <1>1, <1>7, <2>1, <2>2 DEF ChildSend, Held, FlowTypeOK
  <1>8. CASE \E h \in Gens : FwdTake(h) \/ FwdSend(h) \/ FwdStop(h)
    BY <1>0, <1>1, <1>8 DEF FwdTake, FwdSend, FwdStop, Held, FlowTypeOK
  <1> QED
    BY <1>2, <1>3, <1>4, <1>5, <1>6, <1>7, <1>8 DEF Keeps

LEMMA SyncFlights ==
  ASSUME DiscoveryInv, NEW w \in Watchers, Syncs(w)
  PROVE  Flights'
  <1> USE DEF DiscoveryInv, TypeOK
  <1>1. /\ \A g \in Gens : Born(g) => born'[g] = born[g]
        /\ \A g \in Gens : Born(g) \/ ~Born(g)' => fwd'[g] = fwd[g]
        /\ \A g \in Gens : Born(g) /\ Live(g)' => Live(g)
        /\ \A g \in Gens : ~Born(g) /\ Born(g)' =>
              /\ WatcherOf(g)' = w
              /\ fwd'[g] = IF phase[w] = "running" THEN "on" ELSE fwd[g]
        /\ \A v \in Watchers, t \in Threads : \A u \in unsent'[v][t] :
              \/ u \in unsent[v][t]
              \/ /\ v = w /\ u.gen \in Gens /\ Born(u.gen) /\ ~Live(u.gen)'
                 /\ WatcherOf(u.gen) = w /\ u = Update(BackendOf(u.gen), u.gen, Nil)
        /\ \A v \in Watchers : phase'[v] = phase[v]
                               \/ (phase[v] = "sync" /\ phase'[v] = "synced")
        /\ UNCHANGED <<sent, chan, hold, updateCh, loopUp>>
        /\ lastGen' \in lastGen..MaxGen
    BY SyncStep
  <1>2. /\ lastGen \in Nat /\ lastGen' \in Nat /\ lastGen <= lastGen'
        /\ \A g \in Gens : g \in Nat
        /\ \A g \in Gens : Born(g) => Born(g)'
    BY <1>1, DiscoveryAssumption DEF OwnerTypeOK, Gens, Born
  <1>3. \A g \in Gens : Born(g) => /\ WatcherOf(g)' = WatcherOf(g)
                                   /\ BackendOf(g)' = BackendOf(g)
                                   /\ WatcherOf(g) \in Watchers
    BY <1>1, BornFacts DEF WatcherOf, ServiceOf, BackendOf
  <1>4. \A v, u : Carried(v, u) => Carried(v, u)'
    BY <1>1, <1>2, <1>3 DEF Carried
  <1>5. InQueue'
    BY <1>1, <1>4 DEF Flights, InQueue
  <1>6. InDebt'
    <2> SUFFICES ASSUME NEW v \in Watchers, NEW t \in Threads, NEW u \in unsent'[v][t]
                 PROVE  u.endpoints = Nil /\ Carried(v, u)'
      BY DEF InDebt
    <2>1. CASE u \in unsent[v][t]
      BY <1>4, <2>1 DEF Flights, InDebt
    <2>2. CASE /\ v = w /\ u.gen \in Gens /\ Born(u.gen) /\ ~Live(u.gen)'
               /\ WatcherOf(u.gen) = w /\ u = Update(BackendOf(u.gen), u.gen, Nil)
      <3>1. u.endpoints = Nil /\ u.name = BackendOf(u.gen)
        BY <2>2 DEF Update
      <3> QED
        BY <1>2, <1>3, <2>2, <3>1 DEF Carried
    <2> QED
      BY <1>1, <2>1, <2>2
  <1>7. ASSUME NEW g \in Gens, ~Born(g), MayAdd(g)', Born(g)'
        PROVE  fwd'[g] = "on" /\ phase[w] = "running"
    <2>1. WatcherOf(g)' = w /\ hold'[g] = NoValue /\ fwd[g] = "off"
      BY <1>1, <1>7 DEF Flights, Held
    <2>2. ~Queued(g)'
      BY <1>1, <1>7, <2>1 DEF Queued, Flights, InQueue, Carried
    <2> QED
      BY <1>1, <1>7, <2>1, <2>2 DEF MayAdd
  <1>8. Forwarded'
    <2>1. ASSUME NEW g \in Gens, Born(g)', MayAdd(g)'
          PROVE  phase'[WatcherOf(g)'] = "running"
      <3>1. CASE Born(g)
        <4>1. MayAdd(g)
          BY <1>1, <1>3, <2>1, <3>1 DEF MayAdd, Queued
        <4> QED
          BY <1>1, <1>3, <3>1, <4>1 DEF Flights, Forwarded
      <3>2. CASE ~Born(g)
        BY <1>1, <1>7, <2>1, <3>2
      <3> QED
        BY <3>1, <3>2
    <2>2. loopUp' => \A v \in Watchers : phase'[v] = "running"
      BY <1>1 DEF Flights, Forwarded
    <2> QED
      BY <2>1, <2>2 DEF Forwarded
  <1>9. Held'
    <2>1. ASSUME NEW g \in Gens, fwd'[g] # "on"
          PROVE  hold'[g] = NoValue
      BY <1>1, <1>2, <2>1 DEF Flights, Held
    <2>2. ASSUME NEW g \in Gens, ~Born(g)'
          PROVE  sent'[g] = NoValue /\ fwd'[g] = "off"
      BY <1>1, <1>2, <2>2 DEF Flights, Held
    <2>3. \A g \in Gens : sent'[g] = NoValue => chan'[g] = NoValue /\ hold'[g] = NoValue
      BY <1>1 DEF Flights, Held
    <2> QED
      BY <2>1, <2>2, <2>3 DEF Held
  <1> QED
    BY <1>5, <1>6, <1>8, <1>9 DEF Flights

LEMMA CollectedKept ==
  ASSUME DiscoveryInv, [Next]_vars
  PROVE  Collected'
  <1> USE DEF DiscoveryInv, TypeOK
  <1> DEFINE C1 == \A w \in Watchers : \A g \in pendingInit[w] : Born(g) /\ WatcherOf(g) = w
             C2 == \A w \in Watchers : pendingInit[w] # {} => phase[w] = "collect"
             C3 == \A w \in Watchers, n \in Names, g \in Gens :
                     initial[w][n].gen = g => Born(g) /\ WatcherOf(g) = w /\ BackendOf(g) = n
             C4 == ~loopUp => EmptyTable
  <1>0. C1 /\ C2 /\ C3 /\ C4
    BY DEF Collected
  <1>1. ASSUME NEW w \in Watchers, Syncs(w)
        PROVE  C1' /\ C2' /\ C3' /\ C4'
    <2>1. /\ \A g \in Gens : Born(g) => born'[g] = born[g]
          /\ \A v \in Watchers : phase'[v] = phase[v]
                                 \/ (phase[v] = "sync" /\ phase'[v] = "synced")
          /\ lastGen' \in lastGen..MaxGen
          /\ UNCHANGED <<tableVars, pendingInit, initial, loopUp>>
      BY <1>1, SyncStep
    <2>2. \A g \in Gens : Born(g) => Born(g)' /\ WatcherOf(g)' = WatcherOf(g)
                                     /\ BackendOf(g)' = BackendOf(g)
      BY <2>1, DiscoveryAssumption DEF OwnerTypeOK, Born, Gens, WatcherOf, ServiceOf, BackendOf
    <2>3. C1'
      BY <1>0, <2>1, <2>2 DEF StartTypeOK
    <2>4. C2'
      BY <1>0, <2>1
    <2>5. C3'
      BY <1>0, <2>1, <2>2
    <2>6. C4'
      BY <1>0, <2>1 DEF tableVars, EmptyTable
    <2> QED
      BY <2>3, <2>4, <2>5, <2>6
  <1>2. ASSUME Keeps
        PROVE  C1' /\ C2' /\ C3' /\ C4'
    <2>0. UNCHANGED <<managed, lastGen, born>>
      BY <1>2, KeepsOwners DEF watcherVars
    <2>1. C4'
      <3> SUFFICES ASSUME ~loopUp' PROVE EmptyTable'
        OBVIOUS
      <3>0. loopUp' = loopUp
        BY <1>2, LoopStarts DEF MergeInitial
      <3>1. ~loopUp /\ EmptyTable
        BY <1>0, <3>0
      <3>2. UNCHANGED tableVars
        <4>1. CASE Environment
          <5>1. \A n \in Names : ~TombstoneExpire(n)
            BY <3>1 DEF TombstoneExpire, Expire, EmptyTable
          <5> QED
            BY <3>1, <4>1, <5>1 DEF Environment, ServiceEvent, EndpointEvent, ExplicitUpdate
        <4>2. CASE MergeInitial \/ TombstoneSweep \/ UNCHANGED vars
          <5>1. ~TombstoneSweep
            BY <3>1 DEF TombstoneSweep, SweepExpiredTombstones, EmptyTable
          <5> QED
            BY <3>1, <4>2, <5>1 DEF MergeInitial, vars
        <4>3. CASE (\E w \in Watchers, h \in Gens : CollectValue(w, h) \/ CollectSkip(w, h))
             \/ \E w \in Watchers : BeginCollect(w) \/ StartForwarding(w) \/ LoopDeliver(w)
          BY <3>1, <4>3 DEF CollectValue, CollectSkip, BeginCollect, StartForwarding, LoopDeliver
        <4>4. CASE (\E h \in Gens : ChildSend(h) \/ FwdTake(h) \/ FwdSend(h) \/ FwdStop(h))
               \/ \E w \in Watchers, t \in Threads : SendRemoval(w, t)
          BY <4>4 DEF ChildSend, FwdTake, FwdSend, FwdStop, SendRemoval
        <4> QED
          BY <1>2, <4>1, <4>2, <4>3, <4>4 DEF Keeps
      <3> QED
        BY <3>1, <3>2 DEF tableVars, EmptyTable
    <2>2. CASE UNCHANGED <<phase, pendingInit, initial>>
      BY <1>0, <2>0, <2>1, <2>2 DEF Born, WatcherOf, ServiceOf, BackendOf
    <2>3. ASSUME NEW w \in Watchers, NEW g \in Gens, CollectValue(w, g)
          PROVE  C1' /\ C2' /\ C3' /\ C4'
      <3>1. /\ g \in pendingInit[w] /\ Born(g) /\ WatcherOf(g) = w /\ BackendOf(g) \in Names
        BY <1>0, <2>3, BornFacts DEF CollectValue
      <3>2. C1'
        BY <1>0, <2>0, <2>3 DEF CollectValue, StartTypeOK, Born, WatcherOf
      <3>3. C2'
        BY <1>0, <2>3, <3>1 DEF CollectValue, StartTypeOK
      <3>4. \A v \in Watchers, n \in Names :
              initial'[v][n] = IF v = w /\ n = BackendOf(g)
                THEN [gen |-> g, endpoints |-> Normalized(chan[g])] ELSE initial[v][n]
        BY <2>3 DEF CollectValue, StartTypeOK
      <3>5. C3'
        BY <1>0, <2>0, <3>1, <3>4 DEF Born, WatcherOf, ServiceOf, BackendOf
      <3> QED
        BY <2>1, <3>2, <3>3, <3>5
    <2>4. ASSUME NEW w \in Watchers, NEW g \in Gens, CollectSkip(w, g)
          PROVE  C1' /\ C2' /\ C3' /\ C4'
      <3>1. C1'
        BY <1>0, <2>0, <2>4 DEF CollectSkip, StartTypeOK, Born, WatcherOf
      <3>2. C2'
        BY <1>0, <2>4 DEF CollectSkip, StartTypeOK
      <3>3. C3'
        BY <1>0, <2>0, <2>4 DEF CollectSkip, Born, WatcherOf, ServiceOf, BackendOf
      <3> QED
        BY <2>1, <3>1, <3>2, <3>3
    <2>5. ASSUME NEW w \in Watchers, BeginCollect(w)
          PROVE  C1' /\ C2' /\ C3' /\ C4'
      <3>1. C1'
        BY <1>0, <2>0, <2>5 DEF BeginCollect, StartTypeOK, Born, Live, WatcherOf
      <3>2. C2'
        BY <1>0, <2>5 DEF BeginCollect, StartTypeOK
      <3>3. C3'
        BY <1>0, <2>0, <2>5 DEF BeginCollect, Born, WatcherOf, ServiceOf, BackendOf
      <3> QED
        BY <2>1, <3>1, <3>2, <3>3
    <2>6. ASSUME NEW w \in Watchers, StartForwarding(w)
          PROVE  C1' /\ C2' /\ C3' /\ C4'
      <3>1. C1'
        BY <1>0, <2>0, <2>6 DEF StartForwarding, StartTypeOK, Born, WatcherOf
      <3>2. C2'
        BY <1>0, <2>6 DEF StartForwarding, StartTypeOK
      <3>3. C3'
        BY <1>0, <2>0, <2>6 DEF StartForwarding, Born, WatcherOf, ServiceOf, BackendOf
      <3> QED
        BY <2>1, <3>1, <3>2, <3>3
    <2>7. CASE Environment \/ MergeInitial \/ TombstoneSweep \/ UNCHANGED vars
      BY <2>2, <2>7 DEF Environment, ServiceEvent, EndpointEvent, ExplicitUpdate,
                        TombstoneExpire, MergeInitial, TombstoneSweep, vars, initVars
    <2>8. CASE (\E w \in Watchers : LoopDeliver(w))
               \/ \E w \in Watchers, t \in Threads : SendRemoval(w, t)
      BY <2>2, <2>8 DEF LoopDeliver, SendRemoval, initVars
    <2>9. CASE \E h \in Gens : ChildSend(h) \/ FwdTake(h) \/ FwdSend(h) \/ FwdStop(h)
      BY <2>2, <2>9 DEF ChildSend, FwdTake, FwdSend, FwdStop, initVars
    <2> QED
      BY <1>2, <2>3, <2>4, <2>5, <2>6, <2>7, <2>8, <2>9 DEF Keeps
  <1> QED
    BY <1>1, <1>2, Splits DEF Collected

-----------------------------------------------------------------------------
(* The loop's table.                                                       *)

\* What reaches the loop: an update of an explicit watcher, which is never a
\* removal, or what a discovery watcher carried.
Genuine(u) ==
  /\ u \in Updates(Gens)
  /\ u.gen = 0 => u.name \in Explicit /\ u.endpoints # Nil
  /\ u.gen # 0 => \E w \in Watchers : Carried(w, u)

LEMMA Arrived ==
  ASSUME DiscoveryInv, NEW w \in Watchers, LoopDeliver(w)
  PROVE  /\ Deliver(updateCh[w][1]) /\ Genuine(updateCh[w][1])
         /\ Carried(w, updateCh[w][1])
         /\ 1 \in 1..Len(updateCh[w])
  <1>1. /\ Head(updateCh[w]) = updateCh[w][1]
        /\ Head(updateCh[w]) \in Updates(Gens)
        /\ Deliver(Head(updateCh[w]))
        /\ 1 \in 1..Len(updateCh[w])
    <2>1. /\ updateCh[w] # <<>> /\ Deliver(Head(updateCh[w]))
          /\ updateCh' = [updateCh EXCEPT ![w] = Tail(@)]
      BY DEF LoopDeliver
    <2>2. FlowTypeOK
      BY DEF DiscoveryInv, TypeOK
    <2>3. /\ Head(updateCh[w]) = updateCh[w][1]
          /\ Head(updateCh[w]) \in Updates(Gens)
          /\ Len(updateCh[w]) \in Nat /\ Len(updateCh[w]) >= 1
      BY <2>1, <2>2, Dequeued
    <2> QED
      BY <2>1, <2>3
  <1>2. Carried(w, updateCh[w][1]) /\ updateCh[w][1] \in Updates(Gens)
    BY <1>1 DEF DiscoveryInv, Flights, InQueue
  <1>3. updateCh[w][1].gen # 0
    BY <1>2, DiscoveryAssumption DEF Carried, Gens
  <1> QED
    BY <1>1, <1>2, <1>3 DEF Genuine

LEMMA ExplicitArrived ==
  ASSUME NEW n \in Explicit, NEW e \in EndpointSets, ExplicitUpdate(n, e)
  PROVE  Deliver(Update(n, 0, e)) /\ Genuine(Update(n, 0, e))
  BY DiscoveryAssumption, EndpointsAssumption
     DEF ExplicitUpdate, Update, Updates, Genuine

LEMMA DeliverTable ==
  ASSUME DiscoveryInv, NEW u, Genuine(u), Deliver(u),
         UNCHANGED <<managed, lastGen, born>>
  PROVE  Table'
  <1> USE DEF DiscoveryInv, TypeOK
  <1> DEFINE T1 == \A n \in Names : liveGen[n] # 0 => liveGen[n] = source[n]
             T2 == \A n \in Names, g \in Gens : source[n] = g => Born(g) /\ BackendOf(g) = n
             T3 == \A n \in Names : newest[n] <= lastGen
             T4 == \A n \in Names, g \in Gens :
                     removedGen[n] = g => Cancelled(g) /\ BackendOf(g) = n
             T5 == CalmStartup => \A n \in Names : source[n] # 0 /\ liveGen[n] = 0 =>
                     \A g \in Gens : Born(g) /\ BackendOf(g) = n => source[n] <= g
  <1>0. T1 /\ T2 /\ T3 /\ T4 /\ T5
    BY DEF Table
  <1>1. /\ \A g : Born(g)' <=> Born(g)
        /\ \A g : Cancelled(g)' <=> Cancelled(g)
        /\ \A g : BackendOf(g)' = BackendOf(g)
        /\ lastGen' = lastGen
    BY DEF Born, Cancelled, Live, WatcherOf, ServiceOf, BackendOf
  <1>2. /\ u.name \in Names /\ u.gen \in {0} \cup Gens
        /\ u.gen # 0 => /\ u.gen \in Gens /\ Born(u.gen) /\ BackendOf(u.gen) = u.name
                        /\ u.endpoints = Nil => Cancelled(u.gen)
        /\ u.gen = 0 => u.name \in Explicit /\ u.endpoints # Nil
    BY DEF Genuine, Carried, Updates, Cancelled
  <1>3. \A g \in Gens : Born(g) => BackendOf(g) \notin Explicit
    BY BornFacts
  <1>4. /\ lastGen \in Nat /\ 0 \notin Gens /\ \A g \in Gens : g \in Nat
        /\ \A n \in Names : /\ liveGen[n] \in {0} \cup Gens /\ source[n] \in {0} \cup Gens
                            /\ removedGen[n] \in {0} \cup Gens /\ newest[n] \in {0} \cup Gens
    BY DiscoveryAssumption DEF OwnerTypeOK, Gens, TableTypeOK
  <1>5. CASE Drop(u)
    <2>1. UNCHANGED tableVars
      BY <1>5 DEF Drop
    <2> QED
      BY <1>0, <1>1, <2>1 DEF tableVars, Table
  <1>6. CASE Remove(u)
    <2>1. u.gen # 0 /\ u.endpoints = Nil
      BY <1>2, <1>6 DEF Remove
    <2>2. \A n \in Names :
            /\ liveGen'[n] = IF n = u.name THEN 0 ELSE liveGen[n]
            /\ source'[n] = IF n = u.name THEN 0 ELSE source[n]
            /\ newest'[n] = newest[n]
            /\ removedGen'[n] = IF n = u.name /\ u.gen > removedGen[n] THEN u.gen ELSE removedGen[n]
      BY <1>6 DEF Remove, TableTypeOK
    <2>3. T1' /\ T3'
      BY <1>0, <1>1, <2>2
    <2>4. T2'
      BY <1>0, <1>1, <1>4, <2>2
    <2>5. T4'
      BY <1>0, <1>1, <1>2, <2>1, <2>2
    <2>6. T5'
      BY <1>0, <1>1, <2>2
    <2> QED
      BY <2>3, <2>4, <2>5, <2>6 DEF Table
  <1>7. CASE Add(u) /\ u.gen # 0
    <2>1. \A n \in Names :
            /\ liveGen'[n] = IF n = u.name THEN u.gen ELSE liveGen[n]
            /\ source'[n] = IF n = u.name THEN u.gen ELSE source[n]
            /\ newest'[n] = IF n = u.name /\ u.gen > newest[n] THEN u.gen ELSE newest[n]
            /\ removedGen'[n] = removedGen[n]
      BY <1>7 DEF Add, TableTypeOK
    <2>2. T1'
      BY <1>0, <2>1
    <2>3. T2'
      BY <1>0, <1>1, <1>2, <1>7, <2>1
    <2>4. T3'
      BY <1>0, <1>1, <1>2, <1>7, <2>1 DEF Born
    <2>5. T4'
      BY <1>0, <1>1, <2>1
    <2>6. T5'
      BY <1>0, <1>1, <1>7, <2>1
    <2> QED
      BY <2>2, <2>3, <2>4, <2>5, <2>6 DEF Table
  <1>8. CASE Add(u) /\ u.gen = 0
    <2>0. source[u.name] = 0 /\ liveGen[u.name] = 0
      BY <1>0, <1>2, <1>3, <1>4, <1>8
    <2>1. \A n \in Names :
            /\ liveGen'[n] = liveGen[n]
            /\ source'[n] = source[n]
            /\ newest'[n] = newest[n]
            /\ removedGen'[n] = removedGen[n]
      BY <1>4, <1>8, <2>0 DEF Add, TableTypeOK
    <2>2. T1' /\ T2' /\ T3' /\ T4' /\ T5'
      BY <1>0, <1>1, <2>1
    <2> QED
      BY <2>2 DEF Table
  <1> QED
    BY <1>5, <1>6, <1>7, <1>8 DEF Deliver

LEMMA TableKept ==
  ASSUME DiscoveryInv, [Next]_vars
  PROVE  Table'
  <1> USE DEF DiscoveryInv, TypeOK
  <1> DEFINE T1 == \A n \in Names : liveGen[n] # 0 => liveGen[n] = source[n]
             T2 == \A n \in Names, g \in Gens : source[n] = g => Born(g) /\ BackendOf(g) = n
             T3 == \A n \in Names : newest[n] <= lastGen
             T4 == \A n \in Names, g \in Gens :
                     removedGen[n] = g => Cancelled(g) /\ BackendOf(g) = n
             T5 == CalmStartup => \A n \in Names : source[n] # 0 /\ liveGen[n] = 0 =>
                     \A g \in Gens : Born(g) /\ BackendOf(g) = n => source[n] <= g
  <1>0. T1 /\ T2 /\ T3 /\ T4 /\ T5
    BY DEF Table
  <1>1. /\ lastGen \in Nat /\ 0 \notin Gens /\ \A g \in Gens : g \in Nat
        /\ \A n \in Names : /\ liveGen[n] \in {0} \cup Gens /\ source[n] \in {0} \cup Gens
                            /\ removedGen[n] \in {0} \cup Gens /\ newest[n] \in {0} \cup Gens
    BY DiscoveryAssumption DEF OwnerTypeOK, Gens, TableTypeOK
  <1>2. ASSUME NEW w \in Watchers, Syncs(w)
        PROVE  Table'
    <2>1. /\ \A g \in Gens : Born(g) => born'[g] = born[g]
          /\ \A g \in Gens : Born(g) /\ Live(g)' => Live(g)
          /\ lastGen' \in lastGen..MaxGen
          /\ UNCHANGED <<liveGen, removedGen, source, newest>>
      BY <1>2, SyncStep DEF tableVars
    <2>2. lastGen' \in Nat /\ lastGen <= lastGen'
      BY <1>1, <2>1, DiscoveryAssumption
    <2>3. \A g \in Gens : Born(g) => Born(g)' /\ BackendOf(g)' = BackendOf(g)
      BY <1>1, <2>1, <2>2 DEF Born, ServiceOf, BackendOf
    <2>4. T1'
      BY <1>0, <2>1
    <2>5. T2'
      BY <1>0, <2>1, <2>3
    <2>6. T3'
      BY <1>0, <1>1, <2>1, <2>2
    <2>7. T4'
      BY <1>0, <2>1, <2>3 DEF Cancelled
    <2>8. T5'
      <3> SUFFICES ASSUME CalmStartup, NEW n \in Names, source[n] # 0, liveGen[n] = 0,
                          NEW g \in Gens, Born(g)', BackendOf(g)' = n
                   PROVE  source[n] <= g
        BY <2>1
      <3>1. CASE Born(g)
        BY <1>0, <2>3, <3>1
      <3>2. CASE ~Born(g)
        BY <1>0, <1>1, <3>2 DEF Born
      <3> QED
        BY <3>1, <3>2
    <2> QED
      BY <2>4, <2>5, <2>6, <2>7, <2>8 DEF Table
  <1>3. ASSUME Keeps
        PROVE  Table'
    <2>0. UNCHANGED <<managed, lastGen, born>>
      BY <1>3, KeepsOwners DEF watcherVars
    <2>1. /\ \A g : Born(g)' <=> Born(g)
          /\ \A g : Cancelled(g)' <=> Cancelled(g)
          /\ \A g : BackendOf(g)' = BackendOf(g)
      BY <2>0 DEF Born, Cancelled, Live, WatcherOf, ServiceOf, BackendOf
    <2>2. CASE UNCHANGED <<liveGen, removedGen, source, newest>>
      BY <1>0, <2>0, <2>1, <2>2 DEF Table
    <2>3. ASSUME NEW w \in Watchers, LoopDeliver(w) PROVE Table'
      BY <2>0, <2>3, Arrived, DeliverTable
    <2>4. ASSUME NEW n \in Explicit, NEW e \in EndpointSets, ExplicitUpdate(n, e)
          PROVE  Table'
      BY <2>0, <2>4, ExplicitArrived, DeliverTable
    <2>5. CASE TombstoneSweep
      <3>1. /\ UNCHANGED <<liveGen, source, newest>>
            /\ \A n \in Names : removedGen'[n] \in {0, removedGen[n]}
        BY <2>5 DEF TombstoneSweep, SweepExpiredTombstones
      <3>2. T4'
        BY <1>0, <1>1, <2>1, <3>1
      <3>3. T1' /\ T2' /\ T3' /\ T5'
        BY <1>0, <2>0, <2>1, <3>1
      <3> QED
        BY <3>2, <3>3 DEF Table
    <2>6. CASE MergeInitial
      <3>1. /\ ~loopUp /\ UNCHANGED <<liveGen, removedGen>>
            /\ newest' = source'
            /\ \A n \in Names : source'[n] = Merged(n).gen
        BY <2>6 DEF MergeInitial
      <3>2. \A n \in Names : liveGen[n] = 0 /\ removedGen[n] = 0
        BY <3>1 DEF Collected, EmptyTable
      <3>3. \A n \in Names : Merged(n).gen = 0 \/ \E w \in Watchers : initial[w][n].gen = Merged(n).gen
                                                    /\ Merged(n).gen \in Gens
        BY MergedOf DEF NoInitial, StartTypeOK
      <3>4. T1' /\ T4'
        BY <1>1, <3>1, <3>2
      <3>5. \A n \in Names, g \in Gens : Merged(n).gen = g => Born(g) /\ BackendOf(g) = n
        BY <1>1, <3>3 DEF Collected
      <3>6. T2'
        BY <2>1, <3>1, <3>5
      <3>7. T3'
        BY <1>1, <2>0, <3>1, <3>3, <3>5 DEF Born
      <3>8. T5'
        <4> SUFFICES ASSUME CalmStartup, NEW n \in Names, source'[n] # 0,
                            NEW g \in Gens, Born(g), BackendOf(g) = n
                     PROVE  source'[n] <= g
          BY <2>1
        <4>1. PICK h \in Gens : source'[n] = h /\ Born(h) /\ BackendOf(h) = n
          BY <3>1, <3>3, <3>5
        <4>2. Live(g)
          BY <3>1 DEF Calm
        <4> QED
          BY <4>1, <4>2 DEF Owners
      <3> QED
        BY <3>4, <3>6, <3>7, <3>8 DEF Table
    <2>7. CASE Environment
      <3>1. CASE (\E w \in Watchers, s \in Services : ServiceEvent(w, s))
                 \/ (\E s \in Services, e \in EndpointSets : EndpointEvent(s, e))
                 \/ \E n \in Names : TombstoneExpire(n)
        BY <2>2, <3>1 DEF ServiceEvent, EndpointEvent, TombstoneExpire, Expire, tableVars
      <3> QED
        BY <2>4, <2>7, <3>1 DEF Environment
    <2>8. CASE (\E w \in Watchers, h \in Gens : CollectValue(w, h) \/ CollectSkip(w, h))
               \/ \E w \in Watchers : BeginCollect(w) \/ StartForwarding(w)
      BY <2>2, <2>8 DEF CollectValue, CollectSkip, BeginCollect, StartForwarding, tableVars
    <2>9. CASE (\E h \in Gens : ChildSend(h) \/ FwdTake(h) \/ FwdSend(h) \/ FwdStop(h))
               \/ \E w \in Watchers, t \in Threads : SendRemoval(w, t)
      BY <2>2, <2>9 DEF ChildSend, FwdTake, FwdSend, FwdStop, SendRemoval, tableVars
    <2>10. CASE UNCHANGED vars
      BY <2>2, <2>10 DEF vars, tableVars
    <2> QED
      BY <1>3, <2>3, <2>5, <2>6, <2>7, <2>8, <2>9, <2>10 DEF Keeps
  <1> QED
    BY <1>2, <1>3, Splits

-----------------------------------------------------------------------------
(* The invariant.                                                          *)

LEMMA DiscoveryInitially == Init => DiscoveryInv
  <1> SUFFICES ASSUME Init PROVE DiscoveryInv
    OBVIOUS
  <1>1. /\ \A g \in Gens : ~Born(g) /\ g # 0 /\ g \in Nat
        /\ 0 \in 0..MaxGen
    BY DiscoveryAssumption DEF Init, Born, Gens
  <1>2. TableTypeOK(Gens)
    BY DEF Init, EmptyTable, TableTypeOK
  <1>3. OwnerTypeOK
    BY <1>1, DiscoveryAssumption DEF Init, OwnerTypeOK
  <1>4. FlowTypeOK
    <2>1. <<>> \in Seq(Updates(Gens))
      OBVIOUS
    <2> QED
      BY <2>1 DEF Init, FlowTypeOK
  <1>5. StartTypeOK
    BY DEF Init, StartTypeOK, NoInitial
  <1>6. ClusterTypeOK
    BY DiscoveryAssumption DEF Init, ClusterTypeOK
  <1>7. Owners
    <2>1. OneOwner
      BY DiscoveryAssumption DEF Init, OneOwner
    <2> QED
      BY <1>1, <2>1 DEF Init, Owners, Live
  <1>8. Calm
    BY <1>1 DEF Init, Calm
  <1>9. Flights
    <2>1. InQueue
      BY DEF Init, InQueue
    <2>2. InDebt
      BY DEF Init, InDebt
    <2>3. Forwarded
      BY <1>1 DEF Init, Forwarded
    <2>4. Held
      BY DEF Init, Held
    <2> QED
      BY <2>1, <2>2, <2>3, <2>4 DEF Flights
  <1>10. Collected
    BY <1>1 DEF Init, Collected, NoInitial
  <1>11. Table
    BY <1>1 DEF Init, EmptyTable, Table
  <1> QED
    BY <1>2, <1>3, <1>4, <1>5, <1>6, <1>7, <1>8, <1>9, <1>10, <1>11 DEF DiscoveryInv, TypeOK

LEMMA DiscoveryKept ==
  ASSUME DiscoveryInv, [Next]_vars
  PROVE  DiscoveryInv'
  <1>1. OwnerTypeOK' /\ Owners' /\ ClusterTypeOK'
    BY OwnersKept, ClusterTypesKept DEF DiscoveryInv, TypeOK
  <1>2. Calm' /\ Collected' /\ Table'
    BY CalmKept, CollectedKept, TableKept
  <1>3. ASSUME NEW w \in Watchers, Syncs(w)
        PROVE  FlowTypeOK' /\ StartTypeOK' /\ TableTypeOK(Gens)' /\ Flights'
    <2>1. FlowTypeOK' /\ StartTypeOK' /\ UNCHANGED tableVars
      BY <1>3, SyncStep DEF DiscoveryInv, TypeOK
    <2>2. TableTypeOK(Gens)'
      BY <2>1 DEF DiscoveryInv, TypeOK, tableVars, TableTypeOK
    <2> QED
      BY <1>3, <2>1, <2>2, SyncFlights
  <1>4. ASSUME Keeps
        PROVE  FlowTypeOK' /\ StartTypeOK' /\ TableTypeOK(Gens)' /\ Flights'
    <2>1. FlowTypeOK' /\ StartTypeOK' /\ TableTypeOK(Gens)'
      BY <1>4, FlowTypesKept, StartTypesKept, TableTypesKept
    <2>2. Flights'
      BY <1>4, InQueueKept, InDebtKept, ForwardedKept, HeldKept DEF Flights
    <2> QED
      BY <2>1, <2>2
  <1>5. FlowTypeOK' /\ StartTypeOK' /\ TableTypeOK(Gens)' /\ Flights'
    BY <1>3, <1>4, Splits
  <1> QED
    BY <1>1, <1>2, <1>5 DEF DiscoveryInv, TypeOK

\* The invariant is one, without any assumption on how fast the loop is or when
\* Services change (BackendDiscoveryWatcher, NameRegistry, runLoop).
THEOREM DiscoveryInductive == Spec => []DiscoveryInv
  BY DiscoveryInitially, DiscoveryKept, PTL DEF Spec

THEOREM DiscoveryTypes == Spec => []TypeOK
  <1>1. DiscoveryInv => TypeOK
    BY DEF DiscoveryInv
  <1> QED
    BY <1>1, DiscoveryInductive, PTL

\* A backend name is forwarded by one Service of one watcher, the one the
\* registry names, whatever add and remove passes of whichever watchers
\* interleave (syncServices, claim and release).
THEOREM OneOwnerEach == Spec => []OneOwner
  <1>1. DiscoveryInv => OneOwner
    BY DEF DiscoveryInv, Owners
  <1> QED
    BY <1>1, DiscoveryInductive, PTL

-----------------------------------------------------------------------------
(* No ghosts.                                                              *)

LEMMA FlightKept ==
  ASSUME DiscoveryInv, Keeps, NEW g \in Gens, Born(g), RemovalInFlight(g)
  PROVE  \/ RemovalInFlight(g)'
         \/ \E w \in Watchers : LoopDeliver(w) /\ updateCh[w][1] = Update(BackendOf(g), g, Nil)
  <1> USE DEF DiscoveryInv, TypeOK
  <1> DEFINE w == WatcherOf(g)
             m == Update(BackendOf(g), g, Nil)
  <1>0. w \in Watchers
    BY BornFacts
  <1>1. WatcherOf(g)' = w /\ BackendOf(g)' = BackendOf(g) /\ m' = m
    BY KeepsOwners DEF watcherVars, WatcherOf, ServiceOf, BackendOf, Update
  <1>2. \/ \E t \in Threads : m \in unsent[w][t]
        \/ \E i \in 1..Len(updateCh[w]) : updateCh[w][i] = m
    BY DEF RemovalInFlight
  <1>3. (\/ \E t \in Threads : m \in unsent'[w][t]
         \/ \E i \in 1..Len(updateCh'[w]) : updateCh'[w][i] = m) => RemovalInFlight(g)'
    BY <1>1 DEF RemovalInFlight
  <1> HIDE DEF w, m
  <1>4. ASSUME NEW v \in Watchers, NEW u \in Updates(Gens),
               updateCh' = [updateCh EXCEPT ![v] = Append(@, u)]
        PROVE  /\ (\E i \in 1..Len(updateCh[w]) : updateCh[w][i] = m) =>
                    \E i \in 1..Len(updateCh'[w]) : updateCh'[w][i] = m
               /\ v = w /\ u = m => \E i \in 1..Len(updateCh'[w]) : updateCh'[w][i] = m
    <2>1. /\ w # v => updateCh'[w] = updateCh[w]
          /\ Len(updateCh[v]) \in Nat
          /\ Len(updateCh'[v]) = Len(updateCh[v]) + 1
          /\ updateCh'[v][Len(updateCh[v]) + 1] = u
          /\ \A i \in 1..Len(updateCh[v]) : updateCh'[v][i] = updateCh[v][i]
      BY <1>0, <1>4, Enqueued
    <2>2. CASE w # v
      BY <2>1, <2>2
    <2>3. CASE w = v
      <3>1. \A i \in 1..Len(updateCh[v]) : i \in 1..Len(updateCh'[v])
        BY <2>1
      <3>2. Len(updateCh[v]) + 1 \in 1..Len(updateCh'[v])
        BY <2>1
      <3> QED
        BY <2>1, <2>3, <3>1, <3>2
    <2> QED
      BY <2>2, <2>3
  <1>5. ASSUME NEW v \in Watchers, NEW r \in Threads, SendRemoval(v, r)
        PROVE  RemovalInFlight(g)'
    <2>1. PICK u \in unsent[v][r] :
            /\ updateCh' = [updateCh EXCEPT ![v] = Append(@, u)]
            /\ unsent' = [unsent EXCEPT ![v][r] = @ \ {u}]
      BY <1>5 DEF SendRemoval
    <2>2. u \in Updates(Gens)
      BY DEF FlowTypeOK
    <2>3. \A t \in Threads : m \in unsent[w][t] => m \in unsent'[w][t] \/ (v = w /\ u = m)
      <3>1. unsent \in [Watchers -> [Threads -> SUBSET Updates(Gens)]]
        BY DEF FlowTypeOK
      <3> HIDE DEF DiscoveryInv, TypeOK
      <3> QED
        BY <1>0, <2>1, <3>1
    <2> QED
      BY <1>2, <1>3, <1>4, <2>1, <2>2, <2>3
  <1>6. ASSUME NEW h \in Gens, FwdSend(h)
        PROVE  RemovalInFlight(g)'
    <2>1. /\ Born(h) /\ hold[h] \in Snapshots
      BY <1>6 DEF FwdSend, Flights, Held, FlowTypeOK
    <2> DEFINE u == Update(BackendOf(h), h, Normalized(hold[h]))
    <2>2. /\ u \in Updates(Gens) /\ WatcherOf(h) \in Watchers
      BY <2>1, BornFacts, ValueTypes DEF Update, Updates
    <2>3. updateCh' = [updateCh EXCEPT ![WatcherOf(h)] = Append(@, u)] /\ unsent' = unsent
      BY <1>6 DEF FwdSend
    <2> HIDE DEF u
    <2> QED
      BY <1>2, <1>3, <1>4, <2>2, <2>3
  <1>7. ASSUME NEW v \in Watchers, LoopDeliver(v)
        PROVE  RemovalInFlight(g)' \/ updateCh[v][1] = m
    <2>1. unsent' = unsent
      BY <1>7 DEF LoopDeliver
    <2>2. /\ w # v => updateCh'[w] = updateCh[w]
          /\ Len(updateCh[v]) \in Nat
          /\ Len(updateCh'[v]) = Len(updateCh[v]) - 1
          /\ \A i \in 1..(Len(updateCh[v]) - 1) : updateCh'[v][i] = updateCh[v][i + 1]
      BY <1>0, <1>7, Dequeued DEF LoopDeliver
    <2>3. CASE \E t \in Threads : m \in unsent[w][t]
      BY <1>3, <2>1, <2>3
    <2>4. ASSUME NEW i \in 1..Len(updateCh[w]), updateCh[w][i] = m
          PROVE  RemovalInFlight(g)' \/ updateCh[v][1] = m
      <3>1. CASE w # v
        BY <1>3, <2>2, <2>4, <3>1
      <3>2. CASE w = v /\ i # 1
        <4>1. i - 1 \in 1..Len(updateCh'[w]) /\ updateCh'[w][i - 1] = updateCh[w][i]
          BY <2>2, <2>4, <3>2
        <4> QED
          BY <1>3, <2>4, <4>1
      <3> QED
        BY <2>4, <3>1, <3>2
    <2> QED
      BY <1>2, <2>3, <2>4
  <1>8. CASE UNCHANGED <<unsent, updateCh>>
    BY <1>2, <1>3, <1>8
  <1>9. CASE Environment \/ MergeInitial \/ TombstoneSweep \/ UNCHANGED vars
    BY <1>8, <1>9 DEF Environment, ServiceEvent, EndpointEvent, ExplicitUpdate,
                      TombstoneExpire, MergeInitial, TombstoneSweep, vars
  <1>10. CASE (\E v \in Watchers, h \in Gens : CollectValue(v, h) \/ CollectSkip(v, h))
              \/ \E v \in Watchers : BeginCollect(v) \/ StartForwarding(v)
    BY <1>8, <1>10 DEF CollectValue, CollectSkip, BeginCollect, StartForwarding
  <1>11. CASE \E h \in Gens : ChildSend(h) \/ FwdTake(h) \/ FwdStop(h)
    BY <1>8, <1>11 DEF ChildSend, FwdTake, FwdStop
  <1> QED
    BY <1>5, <1>6, <1>7, <1>9, <1>10, <1>11 DEF Keeps, m

LEMMA DeliverBars ==
  ASSUME DiscoveryInv, NEW u, Genuine(u), Deliver(u),
         UNCHANGED <<managed, lastGen, born>>, NEW g \in Gens, Born(g)
  PROVE  /\ Barred(g) => Barred(g)'
         /\ u = Update(BackendOf(g), g, Nil) => Barred(g)' /\ source'[BackendOf(g)] # g
         /\ \A n \in Names : source'[n] = g =>
              source[n] = g \/ (u.gen = g /\ u.name = n /\ u.endpoints # Nil /\ ~Barred(g))
         /\ \A n \in expired' : n \in expired /\ removedGen'[n] = removedGen[n]
  <1> USE DEF DiscoveryInv, TypeOK
  <1> DEFINE b == BackendOf(g)
  <1>1. b \in Names /\ BackendOf(g)' = b /\ g \in Nat /\ g # 0
    BY BornFacts DEF ServiceOf, BackendOf
  <1>2. /\ u.name \in Names /\ u.gen \in {0} \cup Gens /\ u.gen \in Nat
        /\ u.gen = 0 => u.endpoints # Nil
        /\ u.gen = g => u.name = b
    BY DiscoveryAssumption DEF Genuine, Carried, Updates, Gens
  <1>3. /\ \A n \in Names : /\ liveGen[n] \in Nat /\ source[n] \in Nat
                            /\ removedGen[n] \in Nat
                            /\ liveGen[n] # 0 => liveGen[n] = source[n]
    BY DiscoveryAssumption DEF Gens, TableTypeOK, Table
  <1>4. u = Update(b, g, Nil) => u.name = b /\ u.gen = g /\ u.endpoints = Nil
    BY DEF Update
  <1> HIDE DEF b
  <1>5. /\ Barred(g) <=> (g <= removedGen[b] \/ g < liveGen[b])
        /\ Barred(g)' <=> (g <= removedGen'[b] \/ g < liveGen'[b])
    BY <1>1 DEF Barred, b
  <1>6. CASE Drop(u)
    <2>1. UNCHANGED tableVars
      BY <1>6 DEF Drop
    <2>2. Stale(u) \/ Buried(u)
      BY <1>6 DEF Drop
    <2>3. u = Update(b, g, Nil) => g < liveGen[b] /\ source[b] # g
      BY <1>1, <1>3, <1>4, <2>2 DEF Stale, Buried
    <2> QED
      BY <1>5, <2>1, <2>3 DEF tableVars, b
  <1>7. CASE Remove(u)
    <2>1. u.gen # 0 /\ u.endpoints = Nil /\ ~Stale(u) /\ liveGen[u.name] <= u.gen
      BY <1>2, <1>3, <1>7 DEF Remove, Stale
    <2>2. \A n \in Names :
            /\ liveGen'[n] = IF n = u.name THEN 0 ELSE liveGen[n]
            /\ source'[n] = IF n = u.name THEN 0 ELSE source[n]
            /\ removedGen'[n] = IF n = u.name /\ u.gen > removedGen[n] THEN u.gen ELSE removedGen[n]
      BY <1>7 DEF Remove, TableTypeOK
    <2>3. expired' = expired \ {u.name} /\ expired \subseteq Names
      BY <1>7 DEF Remove, TableTypeOK
    <2>4. Barred(g) => Barred(g)'
      BY <1>1, <1>2, <1>3, <1>5, <2>1, <2>2
    <2>5. u = Update(b, g, Nil) => Barred(g)' /\ source'[b] # g
      BY <1>1, <1>2, <1>3, <1>4, <1>5, <2>2
    <2>6. \A n \in Names : source'[n] = g => source[n] = g
      BY <1>1, <2>2
    <2>7. \A n \in expired' : n \in expired /\ removedGen'[n] = removedGen[n]
      BY <2>2, <2>3
    <2> QED
      BY <2>4, <2>5, <2>6, <2>7 DEF b
  <1>8. CASE Add(u)
    <2>1. u.endpoints # Nil /\ ~Stale(u) /\ ~Buried(u)
          /\ UNCHANGED <<removedGen, expired>>
      BY <1>8 DEF Add
    <2>2. \A n \in Names :
            /\ liveGen'[n] = IF n = u.name /\ u.gen # 0 THEN u.gen ELSE liveGen[n]
            /\ source'[n] = IF n = u.name THEN u.gen ELSE source[n]
      BY <1>8 DEF Add, TableTypeOK
    <2>3. u.gen # 0 => liveGen[u.name] <= u.gen /\ ~(u.gen <= removedGen[u.name])
      BY <1>2, <1>3, <2>1 DEF Stale, Buried
    <2>4. Barred(g) => Barred(g)'
      BY <1>1, <1>2, <1>3, <1>5, <2>1, <2>2, <2>3
    <2>5. u # Update(b, g, Nil)
      BY <1>4, <2>1
    <2>6. u.gen = g => ~Barred(g)
      BY <1>1, <1>2, <1>3, <1>5, <2>3
    <2>7. \A n \in Names : source'[n] = g => source[n] = g \/ (u.gen = g /\ u.name = n)
      BY <2>2
    <2> QED
      BY <2>1, <2>4, <2>5, <2>6, <2>7 DEF b
  <1> QED
    BY <1>6, <1>7, <1>8 DEF Deliver

\* The steps of the loop that change the table.
TableSteps ==
  \/ \E w \in Watchers : LoopDeliver(w)
  \/ \E n \in Explicit, e \in EndpointSets : ExplicitUpdate(n, e)
  \/ \E n \in Names : TombstoneExpire(n)
  \/ TombstoneSweep
  \/ MergeInitial

LEMMA TableSame ==
  ASSUME Keeps
  PROVE  TableSteps \/ UNCHANGED tableVars
  <1>1. CASE Environment
    BY <1>1 DEF Environment, TableSteps, ServiceEvent, EndpointEvent
  <1>2. CASE \E w \in Watchers, g \in Gens : CollectValue(w, g) \/ CollectSkip(w, g)
    BY <1>2 DEF CollectValue, CollectSkip
  <1>3. CASE \E w \in Watchers : BeginCollect(w) \/ StartForwarding(w) \/ LoopDeliver(w)
    BY <1>3 DEF BeginCollect, StartForwarding, TableSteps
  <1>4. CASE \E w \in Watchers, t \in Threads : SendRemoval(w, t)
    BY <1>4 DEF SendRemoval
  <1>5. CASE \E g \in Gens : ChildSend(g) \/ FwdTake(g) \/ FwdSend(g) \/ FwdStop(g)
    BY <1>5 DEF ChildSend, FwdTake, FwdSend, FwdStop
  <1>6. CASE MergeInitial \/ TombstoneSweep \/ UNCHANGED vars
    BY <1>6 DEF TableSteps, vars
  <1> QED
    BY <1>1, <1>2, <1>3, <1>4, <1>5, <1>6 DEF Keeps

LEMMA SyncSame ==
  ASSUME DiscoveryInv, NEW w \in Watchers, Syncs(w), NEW g \in Gens
  PROVE  /\ Born(g) => /\ Born(g)' /\ WatcherOf(g)' = WatcherOf(g)
                       /\ BackendOf(g)' = BackendOf(g)
                       /\ (MayAdd(g)' <=> MayAdd(g))
                       /\ (RemovalInFlight(g) => RemovalInFlight(g)')
                       /\ (Barred(g)' <=> Barred(g))
                       /\ (Live(g) => Live(g)' \/ RemovalInFlight(g)')
                       /\ (Live(g)' => Live(g))
         /\ ~Born(g) /\ Born(g)' => Live(g)' /\ g > lastGen
         /\ UNCHANGED <<tableVars, loopUp>>
  <1> USE DEF DiscoveryInv, TypeOK
  <1>1. /\ Born(g) => born'[g] = born[g]
        /\ Born(g) => fwd'[g] = fwd[g]
        /\ Born(g) /\ Live(g)' => Live(g)
        /\ Live(g) /\ ~Live(g)' =>
             /\ WatcherOf(g) = w
             /\ \E t \in Threads : Update(BackendOf(g), g, Nil) \in unsent'[w][t]
        /\ ~Born(g) /\ Born(g)' => Live(g)'
        /\ \A v \in Watchers, t \in Threads : unsent[v][t] \subseteq unsent'[v][t]
        /\ lastGen' \in lastGen..MaxGen
        /\ UNCHANGED <<tableVars, sent, chan, hold, updateCh, loopUp>>
    BY SyncStep
  <1>2. lastGen \in Nat /\ lastGen' \in Nat /\ lastGen <= lastGen' /\ g \in Nat
    BY <1>1, DiscoveryAssumption DEF OwnerTypeOK, Gens
  <1>3. ASSUME Born(g)
        PROVE  /\ Born(g)' /\ WatcherOf(g)' = WatcherOf(g)
               /\ BackendOf(g)' = BackendOf(g)
               /\ WatcherOf(g) \in Watchers
    BY <1>1, <1>2, <1>3, BornFacts DEF Born, WatcherOf, ServiceOf, BackendOf
  <1>4. ASSUME Born(g)
        PROVE  MayAdd(g)' <=> MayAdd(g)
    BY <1>1, <1>3, <1>4 DEF MayAdd, Queued
  <1>5. ASSUME Born(g), RemovalInFlight(g)
        PROVE  RemovalInFlight(g)'
    <2> DEFINE v == WatcherOf(g)
               m == Update(BackendOf(g), g, Nil)
    <2>1. v \in Watchers /\ WatcherOf(g)' = v /\ m' = m
      BY <1>3, <1>5 DEF Update
    <2>2. \/ \E t \in Threads : m \in unsent[v][t]
          \/ \E i \in 1..Len(updateCh[v]) : updateCh[v][i] = m
      BY <1>5 DEF RemovalInFlight
    <2>3. (\/ \E t \in Threads : m \in unsent'[v][t]
           \/ \E i \in 1..Len(updateCh'[v]) : updateCh'[v][i] = m) => RemovalInFlight(g)'
      BY <2>1 DEF RemovalInFlight
    <2> HIDE DEF v, m
    <2> QED
      BY <1>1, <2>1, <2>2, <2>3
  <1>6. ASSUME Born(g)
        PROVE  Barred(g)' <=> Barred(g)
    BY <1>1, <1>3, <1>6 DEF Barred, tableVars
  <1>7. ASSUME Born(g), Live(g), ~Live(g)'
        PROVE  RemovalInFlight(g)'
    <2>1. PICK t \in Threads : Update(BackendOf(g), g, Nil) \in unsent'[w][t]
      BY <1>1, <1>7
    <2>2. WatcherOf(g)' = w /\ BackendOf(g)' = BackendOf(g)
      BY <1>1, <1>3, <1>7
    <2> QED
      BY <2>1, <2>2 DEF RemovalInFlight
  <1>8. ~Born(g) => g > lastGen
    BY <1>2 DEF Born
  <1> QED
    BY <1>1, <1>3, <1>4, <1>5, <1>6, <1>7, <1>8

LEMMA GhostSync ==
  ASSUME DiscoveryInv, GhostInv, NEW w \in Watchers, Syncs(w)
  PROVE  GhostInv'
  <1> USE DEF DiscoveryInv, TypeOK
  <1>1. ASSUME NEW n \in Names, NEW g \in Gens, source'[n] = g
        PROVE  Live(g)' \/ RemovalInFlight(g)'
    <2>1. source[n] = g /\ Born(g)
      BY <1>1, SyncSame DEF tableVars, Table
    <2> QED
      BY <2>1, SyncSame DEF GhostInv
  <1>2. ASSUME NEW g \in Gens, Cancelled(g)', MayAdd(g)' \/ ~loopUp'
        PROVE  RemovalInFlight(g)' \/ Barred(g)'
    <2>1. Born(g)' /\ ~Live(g)'
      BY <1>2 DEF Cancelled
    <2>2. Born(g)
      BY <2>1, SyncSame
    <2>3. CASE Live(g)
      BY <2>1, <2>2, <2>3, SyncSame
    <2>4. CASE ~Live(g)
      <3>1. Cancelled(g) /\ (MayAdd(g) \/ ~loopUp)
        BY <1>2, <2>2, <2>4, SyncSame DEF Cancelled
      <3>2. RemovalInFlight(g) \/ Barred(g)
        BY <3>1 DEF GhostInv
      <3> QED
        BY <2>2, <3>2, SyncSame
    <2> QED
      BY <2>3, <2>4
  <1>3. ASSUME NEW n \in expired', NEW g \in Gens, MayAdd(g)', BackendOf(g)' = n
        PROVE  g > removedGen'[n]
    <2>1. n \in expired /\ removedGen'[n] = removedGen[n] /\ n \in Names
      BY <1>3, SyncSame DEF tableVars, TableTypeOK
    <2>2. CASE Born(g)
      BY <1>3, <2>1, <2>2, SyncSame DEF GhostInv
    <2>3. CASE ~Born(g)
      <3>1. g > lastGen /\ lastGen \in Nat /\ g \in Nat
        BY <1>3, <2>3, SyncSame, DiscoveryAssumption DEF MayAdd, OwnerTypeOK, Gens
      <3>2. removedGen[n] = 0 \/ (removedGen[n] \in Gens /\ Born(removedGen[n]))
        BY <2>1 DEF TableTypeOK, Table, Cancelled
      <3>3. removedGen[n] <= lastGen /\ removedGen[n] \in Nat
        BY <3>1, <3>2 DEF Born, Gens
      <3> QED
        BY <2>1, <3>1, <3>3
    <2> QED
      BY <2>2, <2>3
  <1> QED
    BY <1>1, <1>2, <1>3 DEF GhostInv

LEMMA GhostKept ==
  ASSUME DiscoveryInv, GhostInv, PromptLoop, [Next]_vars
  PROVE  GhostInv'
  <1> USE DEF DiscoveryInv, TypeOK
  <1> SUFFICES ASSUME Keeps PROVE GhostInv'
    BY Splits, GhostSync
  <1>0. UNCHANGED <<managed, lastGen, born>>
    BY KeepsOwners DEF watcherVars
  <1>1. /\ \A g : Born(g)' <=> Born(g)
        /\ \A g : Cancelled(g)' <=> Cancelled(g)
        /\ \A g : Live(g)' <=> Live(g)
        /\ \A g : BackendOf(g)' = BackendOf(g)
    BY <1>0 DEF Born, Cancelled, Live, WatcherOf, ServiceOf, BackendOf
  <1>2. ASSUME NEW w \in Watchers, LoopDeliver(w), NEW g \in Gens, Born(g)
        PROVE  /\ Barred(g) => Barred(g)'
               /\ updateCh[w][1] = Update(BackendOf(g), g, Nil) =>
                    Barred(g)' /\ source'[BackendOf(g)] # g
               /\ \A n \in Names : source'[n] = g =>
                    source[n] = g \/ (MayAdd(g) /\ ~Barred(g)
                                       /\ updateCh[w][1].endpoints # Nil)
               /\ \A n \in expired' : n \in expired /\ removedGen'[n] = removedGen[n]
    <2> DEFINE u == updateCh[w][1]
    <2>1. Deliver(u) /\ Genuine(u) /\ Carried(w, u) /\ 1 \in 1..Len(updateCh[w])
      BY <1>2, Arrived
    <2>2. u.gen = g /\ u.endpoints # Nil => MayAdd(g)
      BY <1>2, <2>1 DEF MayAdd, Queued, Carried
    <2> HIDE DEF u
    <2> QED
      BY <1>0, <1>2, <2>1, <2>2, DeliverBars DEF u
  <1>3. ASSUME NEW n \in Explicit, NEW e \in EndpointSets, ExplicitUpdate(n, e),
               NEW g \in Gens, Born(g)
        PROVE  /\ Barred(g) => Barred(g)'
               /\ \A k \in Names : source'[k] = g => source[k] = g
               /\ \A k \in expired' : k \in expired /\ removedGen'[k] = removedGen[k]
    <2> DEFINE u == Update(n, 0, e)
    <2>1. Deliver(u) /\ Genuine(u) /\ u.gen # g
      BY <1>3, ExplicitArrived, BornFacts DEF Update
    <2> HIDE DEF u
    <2> QED
      BY <1>0, <1>3, <2>1, DeliverBars
  <1>4. ASSUME NEW g \in Gens, Born(g)
        PROVE  \/ Barred(g) => Barred(g)'
               \/ TombstoneSweep
    <2>1. CASE TableSteps
      <3>1. CASE \E n \in Names : TombstoneExpire(n)
        BY <1>1, <3>1 DEF TombstoneExpire, Expire, Barred
      <3>2. CASE MergeInitial
        BY <1>1, <3>2 DEF MergeInitial, Barred
      <3> QED
        BY <1>2, <1>3, <1>4, <2>1, <3>1, <3>2 DEF TableSteps
    <2>2. CASE UNCHANGED tableVars
      BY <1>1, <2>2 DEF tableVars, Barred
    <2> QED
      BY <2>1, <2>2, TableSame
  <1>5. ASSUME NEW g \in Gens, Cancelled(g), MayAdd(g)'
        PROVE  MayAdd(g)
    BY <1>5, AddsKept DEF Cancelled
  <1>6. ASSUME NEW n \in Names, NEW g \in Gens, source'[n] = g
        PROVE  Live(g)' \/ RemovalInFlight(g)'
    <2> SUFFICES ASSUME ~Live(g) PROVE RemovalInFlight(g)'
      BY <1>1
    <2>1. CASE source[n] = g
      <3>1. Born(g) /\ BackendOf(g) = n /\ RemovalInFlight(g)
        BY <2>1 DEF Table, GhostInv
      <3>2. ASSUME NEW w \in Watchers, LoopDeliver(w),
                   updateCh[w][1] = Update(BackendOf(g), g, Nil)
            PROVE  FALSE
        BY <1>2, <1>6, <3>1, <3>2
      <3> QED
        BY <3>1, <3>2, FlightKept
    <2>2. CASE source[n] # g
      <3>0. source'[n] # source[n]
        BY <1>6, <2>2
      <3>1. CASE \E w \in Watchers : LoopDeliver(w)
        <4>1. PICK w \in Watchers : LoopDeliver(w)
          BY <3>1
        <4>2. Born(g)
          BY <1>1, <1>6, TableKept DEF Table
        <4>3. MayAdd(g) /\ ~Barred(g) /\ updateCh[w][1].endpoints # Nil
          BY <1>2, <1>6, <2>2, <4>1, <4>2
        <4>4. RemovalInFlight(g)
          BY <4>2, <4>3 DEF GhostInv, Cancelled
        <4>5. ASSUME NEW v \in Watchers, LoopDeliver(v),
                     updateCh[v][1] = Update(BackendOf(g), g, Nil)
              PROVE  FALSE
          <5>1. updateCh[v][1].endpoints = Nil
            BY <4>5 DEF Update
          <5>2. source[n] = g \/ updateCh[v][1].endpoints # Nil
            BY <1>2, <1>6, <4>2, <4>5
          <5> QED
            BY <2>2, <5>1, <5>2
        <4> QED
          BY <4>2, <4>4, <4>5, FlightKept
      <3>2. CASE \E k \in Explicit, e \in EndpointSets : ExplicitUpdate(k, e)
        <4>1. Born(g)
          BY <1>1, <1>6, TableKept DEF Table
        <4> QED
          BY <1>3, <1>6, <2>2, <3>2, <4>1
      <3>3. CASE MergeInitial
        <4>1. ~loopUp /\ Born(g)
          BY <1>1, <1>6, <3>3, TableKept DEF Table, MergeInitial
        <4>2. ~Barred(g)
          <5>1. liveGen[BackendOf(g)] = 0 /\ removedGen[BackendOf(g)] = 0 /\ g \in Nat /\ g # 0
            BY <4>1, BornFacts DEF Collected, EmptyTable
          <5> QED
            BY <5>1 DEF Barred
        <4>3. RemovalInFlight(g)
          BY <4>1, <4>2 DEF GhostInv, Cancelled
        <4>4. \A w \in Watchers : ~LoopDeliver(w)
          BY <4>1 DEF LoopDeliver
        <4> QED
          BY <4>1, <4>3, <4>4, FlightKept
      <3>4. CASE (\E k \in Names : TombstoneExpire(k)) \/ TombstoneSweep \/ UNCHANGED tableVars
        BY <3>0, <3>4 DEF TombstoneExpire, Expire, TombstoneSweep,
                          SweepExpiredTombstones, tableVars
      <3> QED
        BY <3>1, <3>2, <3>3, <3>4, TableSame DEF TableSteps
    <2> QED
      BY <2>1, <2>2
  <1>7. ASSUME NEW g \in Gens, Cancelled(g)', MayAdd(g)' \/ ~loopUp'
        PROVE  RemovalInFlight(g)' \/ Barred(g)'
    <2>1. Cancelled(g) /\ Born(g)
      BY <1>1, <1>7 DEF Cancelled
    <2>2. MayAdd(g) \/ ~loopUp
      <3>1. ~loopUp' => ~loopUp
        BY LoopStarts DEF MergeInitial
      <3> QED
        BY <1>5, <1>7, <2>1, <3>1
    <2>3. CASE RemovalInFlight(g)
      <3>1. ASSUME NEW w \in Watchers, LoopDeliver(w),
                   updateCh[w][1] = Update(BackendOf(g), g, Nil)
            PROVE  Barred(g)'
        BY <1>2, <2>1, <3>1
      <3> QED
        BY <2>1, <2>3, <3>1, FlightKept
    <2>4. CASE Barred(g)
      <3>1. CASE ~TombstoneSweep
        BY <1>4, <2>1, <2>4, <3>1
      <3>2. CASE TombstoneSweep
        <4>1. MayAdd(g)
          <5>1. expired # {}
            BY <3>2 DEF TombstoneSweep, SweepExpiredTombstones
          <5> QED
            BY <2>2, <5>1 DEF Collected, EmptyTable
        <4>2. BackendOf(g) \in Names /\ g \in Nat
          BY <2>1, BornFacts
        <4>3. /\ UNCHANGED liveGen
              /\ removedGen'[BackendOf(g)] =
                   IF BackendOf(g) \in expired THEN 0 ELSE removedGen[BackendOf(g)]
          BY <3>2, <4>2 DEF TombstoneSweep, SweepExpiredTombstones
        <4>4. BackendOf(g) \in expired => g > removedGen[BackendOf(g)]
          BY <4>1, <4>2 DEF GhostInv
        <4>5. removedGen[BackendOf(g)] \in Nat
          BY <4>2, DiscoveryAssumption DEF TableTypeOK, Gens
        <4> QED
          BY <1>1, <2>4, <4>2, <4>3, <4>4, <4>5 DEF Barred
      <3> QED
        BY <3>1, <3>2
    <2> QED
      BY <2>1, <2>2, <2>3, <2>4 DEF GhostInv
  <1>8. ASSUME NEW n \in expired', NEW g \in Gens, MayAdd(g)', BackendOf(g)' = n
        PROVE  g > removedGen'[n]
    <2>0. Born(g) /\ BackendOf(g) = n
      BY <1>1, <1>8 DEF MayAdd
    <2>1. CASE \E w \in Watchers : StartForwarding(w)
      <3>1. ~loopUp
        BY <2>1 DEF StartForwarding, Flights, Forwarded
      <3>2. expired = {} /\ expired' = expired
        BY <2>1, <3>1 DEF Collected, EmptyTable, StartForwarding, tableVars
      <3> QED
        BY <1>8, <3>2
    <2>2. CASE ~ \E w \in Watchers : StartForwarding(w)
      <3>1. MayAdd(g)
        BY <1>8, <2>0, <2>2, AddsKept
      <3>2. CASE n \in expired /\ removedGen'[n] = removedGen[n]
        BY <2>0, <3>1, <3>2 DEF GhostInv
      <3>3. ASSUME NEW k \in Names, TombstoneExpire(k)
            PROVE  g > removedGen'[n]
        BY <1>8, <2>0, <3>1, <3>2, <3>3 DEF TombstoneExpire, Expire
      <3>4. CASE TombstoneSweep
        BY <1>8, <3>4 DEF TombstoneSweep, SweepExpiredTombstones
      <3>5. CASE MergeInitial \/ UNCHANGED tableVars
        BY <1>8, <3>2, <3>5 DEF MergeInitial, tableVars
      <3>6. CASE \E w \in Watchers : LoopDeliver(w)
        BY <1>2, <1>8, <2>0, <3>2, <3>6
      <3>7. CASE \E k \in Explicit, e \in EndpointSets : ExplicitUpdate(k, e)
        BY <1>3, <1>8, <2>0, <3>2, <3>7
      <3> QED
        BY <3>3, <3>4, <3>5, <3>6, <3>7, TableSame DEF TableSteps
    <2> QED
      BY <2>1, <2>2
  <1> QED
    BY <1>6, <1>7, <1>8 DEF GhostInv

\* With tombstones that outlive the late updates of what they bury, a backend
\* in the loop's table is managed, or its removal is on its way: no late ADD of
\* a cancelled forwarding goroutine brings it back (removedGen, liveGen).
THEOREM NoGhosts == PromptLoop => (Spec => []NoGhost)
  <1> SUFFICES ASSUME PromptLoop PROVE Spec => []NoGhost
    OBVIOUS
  <1>1. Init => GhostInv
    <2> SUFFICES ASSUME Init PROVE GhostInv
      OBVIOUS
    <2>1. \A g \in Gens : ~Born(g) /\ g # 0
      BY DiscoveryAssumption DEF Init, Born, Gens
    <2> QED
      BY <2>1 DEF Init, EmptyTable, GhostInv, Cancelled, MayAdd
  <1>2. DiscoveryInv /\ GhostInv /\ [Next]_vars => GhostInv'
    BY GhostKept
  <1>3. DiscoveryInv /\ GhostInv => NoGhost
    <2> SUFFICES ASSUME DiscoveryInv, GhostInv, NEW n \in Names, source[n] # 0
                 PROVE  Live(source[n]) \/ RemovalInFlight(source[n])
      BY DEF NoGhost
    <2>1. source[n] \in Gens
      BY DEF DiscoveryInv, TypeOK, TableTypeOK
    <2> QED
      BY <2>1 DEF GhostInv
  <1> QED
    BY <1>1, <1>2, <1>3, DiscoveryInductive, PTL DEF Spec

-----------------------------------------------------------------------------
(* Nothing is lost.                                                        *)

\* The loop takes what the owner of a name sends, and nothing but that changes
\* what it shows of the owner.
LEMMA OwnerPrevails ==
  ASSUME DiscoveryInv, NEW u, Genuine(u), Deliver(u), NEW g \in Gens, Live(g)
  PROVE  /\ IsAdd(u, g) =>
              source'[BackendOf(g)] = g /\ backends'[BackendOf(g)] = u.endpoints
         /\ CalmStartup /\ source[BackendOf(g)] = g /\ ~IsAdd(u, g) =>
              /\ source'[BackendOf(g)] = source[BackendOf(g)]
              /\ backends'[BackendOf(g)] = backends[BackendOf(g)]
  <1> USE DEF DiscoveryInv, TypeOK
  <1> DEFINE b == BackendOf(g)
  <1>1. b \in Names /\ b \notin Explicit /\ g \in Nat /\ g # 0 /\ Born(g)
    BY BornFacts DEF Live
  <1>2. /\ u.name \in Names /\ u.gen \in {0} \cup Gens /\ u.gen \in Nat
        /\ u.gen # 0 => Born(u.gen) /\ BackendOf(u.gen) = u.name
                        /\ (u.endpoints = Nil => ~Live(u.gen))
        /\ u.gen = 0 => u.name \in Explicit /\ u.endpoints # Nil
    BY DiscoveryAssumption DEF Genuine, Carried, Updates, Gens
  <1>3. u.name = b => u.gen # 0 /\ u.gen <= g
    BY <1>1, <1>2 DEF Owners
  <1>4. \A h \in Gens : Born(h) /\ BackendOf(h) = b => h <= g
    BY <1>1 DEF Owners
  <1>5. /\ liveGen[b] \in Nat /\ removedGen[b] \in Nat /\ source[b] \in Nat
        /\ liveGen[b] # 0 => liveGen[b] = source[b]
        /\ source[b] \in {0} \cup Gens /\ removedGen[b] \in {0} \cup Gens
    BY <1>1, DiscoveryAssumption DEF TableTypeOK, Gens, Table
  <1>6. source[b] # 0 => source[b] <= g
    BY <1>1, <1>4, <1>5 DEF Table
  <1>7. removedGen[b] # 0 => removedGen[b] <= g /\ removedGen[b] # g
    BY <1>1, <1>4, <1>5 DEF Table, Cancelled
  <1>8. CalmStartup /\ source[b] # 0 /\ liveGen[b] = 0 =>
          \A h \in Gens : Born(h) /\ BackendOf(h) = b => source[b] <= h
    BY <1>1 DEF Table
  <1>9. /\ source \in [Names -> {0} \cup Gens]
        /\ backends \in [Names -> EndpointSets \cup {Nil}]
    BY DEF TableTypeOK
  <1> HIDE DEF b
  <1>10. ASSUME IsAdd(u, g)
         PROVE  source'[b] = g /\ backends'[b] = u.endpoints
    <2>1. u.gen = g /\ u.endpoints # Nil /\ u.name = b
      BY <1>1, <1>2, <1>10 DEF IsAdd, b
    <2>2. ~Stale(u) /\ ~Buried(u)
      BY <1>1, <1>5, <1>6, <1>7, <2>1 DEF Stale, Buried
    <2>3. Add(u)
      BY <2>1, <2>2 DEF Deliver, Drop, Remove
    <2> QED
      BY <1>1, <1>9, <2>1, <2>3 DEF Add
  <1>11. ASSUME CalmStartup, source[b] = g, ~IsAdd(u, g)
         PROVE  source'[b] = source[b] /\ backends'[b] = backends[b]
    <2>1. CASE u.name # b
      BY <1>1, <1>9, <2>1 DEF Deliver, Drop, Remove, Add, tableVars
    <2>2. CASE u.name = b
      <3>1. u.gen # g
        BY <1>2, <1>3, <1>11, <2>2 DEF IsAdd
      <3>2. u.gen \in Gens /\ Born(u.gen) /\ BackendOf(u.gen) = b /\ u.gen <= g
        BY <1>2, <1>3, <2>2
      <3>3. liveGen[b] = g
        BY <1>1, <1>2, <1>5, <1>8, <1>11, <3>1, <3>2
      <3>4. Stale(u)
        BY <1>1, <1>2, <1>3, <2>2, <3>1, <3>2, <3>3 DEF Stale
      <3> QED
        BY <3>4 DEF Deliver, Drop, Remove, Add, tableVars
    <2> QED
      BY <2>1, <2>2
  <1> QED
    BY <1>10, <1>11 DEF b

LEMMA LatestSync ==
  ASSUME DiscoveryInv, LatestInv, NEW w \in Watchers, Syncs(w)
  PROVE  LatestInv'
  <1> SUFFICES ASSUME NEW g \in Gens, Live(g)', sent'[g] # NoValue
               PROVE  Latest(g)'
    BY DEF LatestInv
  <1>1. UNCHANGED <<tableVars, sent, chan, hold, updateCh, initial, loopUp>>
    BY SyncStep DEF DiscoveryInv, TypeOK
  <1>2. Born(g)
    BY <1>1 DEF DiscoveryInv, Flights, Held
  <1>3. Live(g) /\ WatcherOf(g)' = WatcherOf(g) /\ BackendOf(g)' = BackendOf(g)
    BY <1>2, SyncSame
  <1>4. Latest(g)
    BY <1>1, <1>3 DEF LatestInv
  <1> QED
    BY <1>1, <1>3, <1>4 DEF Latest, InFlight, Delivered, Undelivered, Queued, tableVars, LastAdd

\* An update that is not an ADD of g joins the queue.
LEMMA QueueGrows ==
  ASSUME DiscoveryInv, NEW w \in Watchers, NEW u \in Updates(Gens),
         updateCh' = [updateCh EXCEPT ![w] = Append(@, u)],
         NEW v \in Watchers, NEW g, NEW x
  PROVE  /\ (\E i \in 1..Len(updateCh[v]) : IsAdd(updateCh[v][i], g)) =>
              \E i \in 1..Len(updateCh'[v]) : IsAdd(updateCh'[v][i], g)
         /\ (v # w \/ ~IsAdd(u, g)) /\ NewestAdd(updateCh[v], g, x) =>
              NewestAdd(updateCh'[v], g, x)
         /\ v = w /\ IsAdd(u, g) =>
              /\ NewestAdd(updateCh'[v], g, u.endpoints)
              /\ \E i \in 1..Len(updateCh'[v]) : IsAdd(updateCh'[v][i], g)
  <1> DEFINE L == Len(updateCh[w])
  <1>1. /\ v # w => updateCh'[v] = updateCh[v]
        /\ L \in Nat
        /\ Len(updateCh'[w]) = L + 1
        /\ updateCh'[w][L + 1] = u
        /\ \A i \in 1..L : updateCh'[w][i] = updateCh[w][i]
    BY Enqueued DEF DiscoveryInv, TypeOK
  <1> HIDE DEF L
  <1>2. CASE v # w
    BY <1>1, <1>2
  <1>3. CASE v = w
    <2>1. \A i \in 1..L : i \in 1..(L + 1) /\ L + 1 \in (i + 1)..(L + 1)
      BY <1>1
    <2>2. \A i \in 1..(L + 1) : i \in 1..L \/ i = L + 1
      BY <1>1
    <2>3. L + 1 \in 1..(L + 1)
      BY <1>1
    <2>4. ASSUME NEW i \in 1..L, LastAdd(updateCh'[v], g, i)
          PROVE  ~IsAdd(u, g) /\ LastAdd(updateCh[v], g, i) /\ updateCh'[v][i] = updateCh[v][i]
      <3>1. \A j \in (i + 1)..(L + 1) : ~IsAdd(updateCh'[w][j], g)
        BY <1>1, <1>3, <2>4 DEF LastAdd
      <3>2. ~IsAdd(u, g)
        BY <1>1, <2>1, <3>1
      <3>3. \A j \in (i + 1)..L : j \in (i + 1)..(L + 1) /\ updateCh'[w][j] = updateCh[w][j]
        BY <1>1
      <3>4. \A j \in (i + 1)..Len(updateCh[w]) : ~IsAdd(updateCh[w][j], g)
        BY <3>1, <3>3 DEF L
      <3> QED
        BY <1>1, <1>3, <2>4, <3>2, <3>4 DEF LastAdd
    <2>5. ~IsAdd(u, g) => ~LastAdd(updateCh'[v], g, L + 1)
      BY <1>1, <1>3 DEF LastAdd
    <2>6. (\E i \in 1..Len(updateCh[v]) : IsAdd(updateCh[v][i], g)) =>
              \E i \in 1..Len(updateCh'[v]) : IsAdd(updateCh'[v][i], g)
      BY <1>1, <1>3, <2>1 DEF L
    <2>7. IsAdd(u, g) => \E i \in 1..Len(updateCh'[v]) : IsAdd(updateCh'[v][i], g)
      BY <1>1, <1>3, <2>3
    <2>8. ASSUME NEW i \in 1..Len(updateCh'[v]), LastAdd(updateCh'[v], g, i)
          PROVE  /\ ~IsAdd(u, g) => /\ i \in 1..Len(updateCh[v]) /\ LastAdd(updateCh[v], g, i)
                                    /\ updateCh'[v][i] = updateCh[v][i]
                 /\ IsAdd(u, g) => updateCh'[v][i] = u
      <3>1. CASE i \in 1..L
        BY <1>3, <2>4, <2>8, <3>1 DEF L
      <3>2. CASE i = L + 1
        BY <1>1, <1>3, <2>5, <2>8, <3>2
      <3> QED
        BY <1>1, <1>3, <2>2, <3>1, <3>2
    <2>9. ~IsAdd(u, g) /\ NewestAdd(updateCh[v], g, x) => NewestAdd(updateCh'[v], g, x)
      BY <2>8 DEF NewestAdd
    <2>10. IsAdd(u, g) => NewestAdd(updateCh'[v], g, u.endpoints)
      BY <2>8 DEF NewestAdd
    <2> QED
      BY <1>3, <2>6, <2>7, <2>9, <2>10
  <1> QED
    BY <1>2, <1>3

LEMMA QueueShrinks ==
  ASSUME DiscoveryInv, NEW w \in Watchers, LoopDeliver(w), NEW g
  PROVE  /\ (\E i \in 1..Len(updateCh[w]) : IsAdd(updateCh[w][i], g)) =>
              \/ \E i \in 1..Len(updateCh'[w]) : IsAdd(updateCh'[w][i], g)
              \/ LastAdd(updateCh[w], g, 1)
         /\ \A i \in 1..Len(updateCh'[w]) : LastAdd(updateCh'[w], g, i) =>
              /\ i + 1 \in 1..Len(updateCh[w]) /\ LastAdd(updateCh[w], g, i + 1)
              /\ updateCh'[w][i] = updateCh[w][i + 1]
  <1> DEFINE L == Len(updateCh[w])
  <1>1. /\ updateCh[w] # <<>>
        /\ updateCh' = [updateCh EXCEPT ![w] = Tail(@)]
    BY DEF LoopDeliver
  <1>2. /\ L \in Nat /\ L >= 1 /\ Len(updateCh'[w]) = L - 1
        /\ \A i \in 1..(L - 1) : updateCh'[w][i] = updateCh[w][i + 1]
    BY <1>1, Dequeued DEF DiscoveryInv, TypeOK
  <1> HIDE DEF L
  <1>3. ASSUME NEW i \in 1..Len(updateCh'[w]), LastAdd(updateCh'[w], g, i)
        PROVE  /\ i + 1 \in 1..Len(updateCh[w]) /\ LastAdd(updateCh[w], g, i + 1)
               /\ updateCh'[w][i] = updateCh[w][i + 1]
    <2>1. i \in 1..(L - 1) /\ i + 1 \in 1..L
      BY <1>2
    <2>2. \A j \in (i + 2)..L : j - 1 \in (i + 1)..(L - 1) /\ j - 1 \in 1..(L - 1) /\ (j - 1) + 1 = j
      BY <1>2, <2>1
    <2>3. \A j \in (i + 1)..(L - 1) : ~IsAdd(updateCh'[w][j], g)
      BY <1>2, <1>3 DEF LastAdd
    <2>4. \A j \in (i + 2)..L : ~IsAdd(updateCh[w][j], g)
      <3> TAKE j \in (i + 2)..L
      <3>1. j - 1 \in (i + 1)..(L - 1) /\ j - 1 \in 1..(L - 1) /\ (j - 1) + 1 = j
        BY <2>2
      <3>2. updateCh'[w][j - 1] = updateCh[w][j]
        BY <1>2, <3>1
      <3>3. ~IsAdd(updateCh'[w][j - 1], g)
        BY <2>3, <3>1
      <3> QED
        BY <3>2, <3>3
    <2>5. (i + 1) + 1 = i + 2
      BY <2>1
    <2> QED
      BY <1>2, <1>3, <2>1, <2>4, <2>5 DEF LastAdd, L
  <1>4. ASSUME NEW i \in 1..Len(updateCh[w]), IsAdd(updateCh[w][i], g)
        PROVE  \/ \E j \in 1..Len(updateCh'[w]) : IsAdd(updateCh'[w][j], g)
               \/ LastAdd(updateCh[w], g, 1)
    <2>1. ASSUME NEW k \in 2..L, IsAdd(updateCh[w][k], g)
          PROVE  \E j \in 1..Len(updateCh'[w]) : IsAdd(updateCh'[w][j], g)
      <3>1. k - 1 \in 1..(L - 1) /\ (k - 1) + 1 = k
        BY <1>2
      <3>2. updateCh'[w][k - 1] = updateCh[w][k]
        BY <1>2, <3>1
      <3> QED
        BY <1>2, <2>1, <3>1, <3>2
    <2>2. CASE i # 1
      <3>1. i \in 2..L
        BY <1>2, <2>2 DEF L
      <3> QED
        BY <1>4, <2>1, <3>1
    <2>3. CASE i = 1 /\ \A k \in 2..L : ~IsAdd(updateCh[w][k], g)
      BY <1>4, <2>3 DEF LastAdd, L
    <2> QED
      BY <2>1, <2>2, <2>3
  <1> QED
    BY <1>3, <1>4

\* What Latest says of g after a step that leaves the owners alone.
LEMMA LatestNext ==
  ASSUME UNCHANGED <<managed, lastGen, born>>, NEW g,
         chan'[g] # NoValue => chan'[g] = sent'[g],
         chan'[g] = NoValue /\ hold'[g] # NoValue => hold'[g] = sent'[g],
         chan'[g] = NoValue /\ hold'[g] = NoValue =>
           /\ NewestAdd(updateCh'[WatcherOf(g)], g, Normalized(sent'[g]))
           /\ \/ \E i \in 1..Len(updateCh'[WatcherOf(g)]) :
                   IsAdd(updateCh'[WatcherOf(g)][i], g)
              \/ IF loopUp' THEN /\ source'[BackendOf(g)] = g
                                 /\ backends'[BackendOf(g)] = Normalized(sent'[g])
                 ELSE initial'[WatcherOf(g)][BackendOf(g)] =
                        [gen |-> g, endpoints |-> Normalized(sent'[g])]
  PROVE  Latest(g)'
  <1>1. WatcherOf(g)' = WatcherOf(g) /\ BackendOf(g)' = BackendOf(g)
    BY DEF WatcherOf, ServiceOf, BackendOf
  <1>2. Normalized(sent[g])' = Normalized(sent'[g])
    BY DEF Normalized
  <1>3. InFlight(g)'
    BY <1>1, <1>2 DEF InFlight, NewestAdd, LastAdd
  <1>4. ~Undelivered(g)' => Delivered(g)'
    BY <1>1, <1>2 DEF Undelivered, Queued, IsAdd, Delivered
  <1> QED
    BY <1>3, <1>4 DEF Latest

LEMMA LatestKept ==
  ASSUME DiscoveryInv, LatestInv, CalmStartup, [Next]_vars
  PROVE  LatestInv'
  <1> SUFFICES ASSUME Keeps PROVE LatestInv'
    BY Splits, LatestSync
  <1>0. UNCHANGED <<managed, lastGen, born>>
    BY KeepsOwners DEF watcherVars
  <1> SUFFICES ASSUME NEW g \in Gens, Live(g), sent'[g] # NoValue
               PROVE  Latest(g)'
    BY <1>0 DEF LatestInv, Live, Born, WatcherOf, ServiceOf
  <1> USE DEF DiscoveryInv, TypeOK
  <1> DEFINE v == WatcherOf(g)
             b == BackendOf(g)
             Some(q) == \E i \in 1..Len(q) : IsAdd(q[i], g)
             Arrives == IF loopUp' THEN source'[b] = g /\ backends'[b] = Normalized(sent'[g])
                        ELSE initial'[v][b] = [gen |-> g, endpoints |-> Normalized(sent'[g])]
             Goal == /\ chan'[g] # NoValue => chan'[g] = sent'[g]
                     /\ chan'[g] = NoValue /\ hold'[g] # NoValue => hold'[g] = sent'[g]
                     /\ chan'[g] = NoValue /\ hold'[g] = NoValue =>
                          /\ NewestAdd(updateCh'[v], g, Normalized(sent'[g]))
                          /\ Some(updateCh'[v]) \/ Arrives
  <1>1. Born(g) /\ v \in Watchers /\ b \in Names \ Explicit /\ g # 0 /\ g \in Nat
    BY BornFacts DEF Live
  <1>2. sent[g] # NoValue =>
          /\ chan[g] # NoValue => chan[g] = sent[g]
          /\ chan[g] = NoValue /\ hold[g] # NoValue => hold[g] = sent[g]
          /\ chan[g] = NoValue /\ hold[g] = NoValue =>
               /\ NewestAdd(updateCh[v], g, Normalized(sent[g]))
               /\ Some(updateCh[v]) \/
                    IF loopUp THEN source[b] = g /\ backends[b] = Normalized(sent[g])
                    ELSE initial[v][b] = [gen |-> g, endpoints |-> Normalized(sent[g])]
    BY DEF LatestInv, Latest, InFlight, Undelivered, Queued, IsAdd, Delivered
  <1> SUFFICES Goal
    BY <1>0, LatestNext, Zenon
  <1>3. ASSUME NEW h \in Gens, Live(h), BackendOf(h) = b
        PROVE  h = g
    <2>1. h <= g /\ g <= h
      BY <1>1, <1>3 DEF Owners, Live
    <2> QED
      BY <1>1, <2>1 DEF Gens
  <1>4. ~loopUp => \A h \in Gens : Born(h) => Live(h)
    BY DEF Calm
  <1> HIDE DEF v, b, Some
  <1>5. CASE UNCHANGED <<sent, chan, hold, updateCh, initial, loopUp, source, backends>>
    BY <1>2, <1>5
  <1>6. ASSUME NEW h \in Gens, ChildSend(h)
        PROVE  Goal
    <2>1. /\ sent' = [sent EXCEPT ![h] = Snapshot(actual[ServiceOf(h)])]
          /\ chan' = [chan EXCEPT ![h] = Snapshot(actual[ServiceOf(h)])]
          /\ UNCHANGED <<hold, updateCh, initial, loopUp, source, backends>>
      BY <1>6 DEF ChildSend, tableVars, initVars
    <2>2. CASE h = g
      BY <2>1, <2>2 DEF FlowTypeOK
    <2>3. CASE h # g
      <3>1. sent'[g] = sent[g] /\ chan'[g] = chan[g]
        BY <2>1, <2>3 DEF FlowTypeOK
      <3> QED
        BY <1>2, <2>1, <3>1
    <2> QED
      BY <2>2, <2>3
  <1>7. ASSUME NEW h \in Gens, FwdTake(h)
        PROVE  Goal
    <2>1. /\ chan[h] # NoValue /\ hold' = [hold EXCEPT ![h] = chan[h]]
          /\ chan' = [chan EXCEPT ![h] = NoValue]
          /\ UNCHANGED <<sent, updateCh, initial, loopUp, source, backends>>
      BY <1>7 DEF FwdTake, tableVars, initVars
    <2>2. CASE h = g
      BY <1>2, <2>1, <2>2 DEF FlowTypeOK
    <2>3. CASE h # g
      <3>1. hold'[g] = hold[g] /\ chan'[g] = chan[g]
        BY <2>1, <2>3 DEF FlowTypeOK
      <3> QED
        BY <1>2, <2>1, <3>1
    <2> QED
      BY <2>2, <2>3
  <1>8. ASSUME NEW h \in Gens, FwdStop(h)
        PROVE  Goal
    <2>1. /\ Cancelled(h) /\ hold' = [hold EXCEPT ![h] = NoValue]
          /\ UNCHANGED <<sent, chan, updateCh, initial, loopUp, source, backends>>
      BY <1>8 DEF FwdStop, tableVars, initVars
    <2>2. h # g
      BY <2>1 DEF Cancelled
    <2>3. hold'[g] = hold[g]
      BY <2>1, <2>2 DEF FlowTypeOK
    <2> QED
      BY <1>2, <2>1, <2>3
  <1>9. ASSUME NEW w \in Watchers, NEW u \in Updates(Gens), ~IsAdd(u, g),
               updateCh' = [updateCh EXCEPT ![w] = Append(@, u)],
               sent'[g] = sent[g], chan'[g] = chan[g], hold'[g] = hold[g],
               UNCHANGED <<initial, loopUp, source, backends>>
        PROVE  Goal
    <2>1. Some(updateCh[v]) => Some(updateCh'[v])
      BY <1>1, <1>9, QueueGrows DEF Some
    <2>2. NewestAdd(updateCh[v], g, Normalized(sent[g])) => NewestAdd(updateCh'[v], g, Normalized(sent'[g]))
      <3>1. \A x : NewestAdd(updateCh[v], g, x) => NewestAdd(updateCh'[v], g, x)
        BY <1>1, <1>9, QueueGrows
      <3> QED
        BY <1>9, <3>1
    <2> QED
      BY <1>2, <1>9, <2>1, <2>2
  <1>10. ASSUME NEW w \in Watchers, NEW t \in Threads, SendRemoval(w, t)
         PROVE  Goal
    <2>1. PICK u \in unsent[w][t] : updateCh' = [updateCh EXCEPT ![w] = Append(@, u)]
      BY <1>10 DEF SendRemoval
    <2>2. u \in Updates(Gens) /\ u.endpoints = Nil
      BY DEF FlowTypeOK, Flights, InDebt
    <2>3. UNCHANGED <<sent, chan, hold, initial, loopUp, source, backends>>
      BY <1>10 DEF SendRemoval, flowVars, tableVars, initVars
    <2>4. ~IsAdd(u, g)
      BY <2>2 DEF IsAdd
    <2> QED
      BY <1>9, <2>1, <2>2, <2>3, <2>4
  <1>11. ASSUME NEW h \in Gens, FwdSend(h)
         PROVE  Goal
    <2> DEFINE w == WatcherOf(h)
               u == Update(BackendOf(h), h, Normalized(hold[h]))
    <2>1. /\ hold[h] # NoValue /\ hold' = [hold EXCEPT ![h] = NoValue]
          /\ updateCh' = [updateCh EXCEPT ![w] = Append(@, u)]
          /\ UNCHANGED <<sent, chan, initial, loopUp, source, backends>>
      BY <1>11 DEF FwdSend, tableVars, initVars
    <2>2. Born(h) /\ sent[h] # NoValue
      BY <2>1 DEF Flights, Held
    <2>3. w \in Watchers /\ BackendOf(h) \in Names
      BY <2>2, BornFacts
    <2>4. Normalized(hold[h]) \in EndpointSets
      BY <2>1, ValueTypes DEF FlowTypeOK
    <2>5. /\ u \in Updates(Gens) /\ u.gen = h /\ u.endpoints = Normalized(hold[h])
          /\ u.endpoints # Nil
      BY <2>3, <2>4, EndpointsAssumption DEF Update, Updates
    <2> HIDE DEF u
    <2>6. CASE h = g
      <3>1. IsAdd(u, g) /\ w = v
        BY <2>5, <2>6 DEF IsAdd, v
      <3>2. hold'[g] = NoValue
        BY <2>1, <2>6 DEF FlowTypeOK
      <3>3. NewestAdd(updateCh'[v], g, u.endpoints) /\ Some(updateCh'[v])
        <4> HIDE DEF w
        <4>1. /\ NewestAdd(updateCh'[v], g, u.endpoints)
              /\ \E i \in 1..Len(updateCh'[v]) : IsAdd(updateCh'[v][i], g)
          BY <2>1, <2>3, <2>5, <3>1, QueueGrows
        <4> QED
          BY <4>1 DEF Some
      <3>4. chan[g] = NoValue => NewestAdd(updateCh'[v], g, Normalized(sent'[g]))
        BY <1>2, <2>1, <2>2, <2>5, <2>6, <3>3
      <3> QED
        BY <1>2, <2>1, <3>2, <3>3, <3>4
    <2>7. CASE h # g
      <3>1. ~IsAdd(u, g) /\ hold'[g] = hold[g]
        BY <2>1, <2>5, <2>7 DEF IsAdd, FlowTypeOK
      <3> HIDE DEF w
      <3> QED
        BY <1>9, <2>1, <2>3, <2>5, <3>1
    <2> QED
      BY <2>6, <2>7
  <1>12. ASSUME NEW w \in Watchers, LoopDeliver(w)
         PROVE  Goal
    <2> DEFINE u == updateCh[w][1]
    <2>1. Deliver(u) /\ Genuine(u) /\ Carried(w, u) /\ 1 \in 1..Len(updateCh[w])
      <3> HIDE DEF DiscoveryInv, TypeOK
      <3> QED
        BY <1>12, Arrived
    <2>2. /\ loopUp /\ loopUp' = loopUp
          /\ UNCHANGED <<sent, chan, hold>>
          /\ updateCh' = [updateCh EXCEPT ![w] = Tail(@)]
          /\ updateCh \in [Watchers -> Seq(Updates(Gens))]
      BY <1>12 DEF LoopDeliver, flowVars, initVars, FlowTypeOK
    <2>3. /\ IsAdd(u, g) => source'[b] = g /\ backends'[b] = u.endpoints
          /\ source[b] = g /\ ~IsAdd(u, g) =>
               source'[b] = source[b] /\ backends'[b] = backends[b]
      <3> HIDE DEF DiscoveryInv, TypeOK, u
      <3> QED
        BY <2>1, OwnerPrevails DEF b
    <2>4. CASE w # v
      <3>1. ~IsAdd(u, g)
        BY <2>1, <2>4 DEF IsAdd, Carried, v
      <3>2. updateCh'[v] = updateCh[v]
        BY <1>1, <2>2, <2>4
      <3> QED
        BY <1>2, <2>2, <2>3, <3>1, <3>2
    <2>5. CASE w = v
      <3>1. /\ Some(updateCh[v]) => Some(updateCh'[v]) \/ LastAdd(updateCh[v], g, 1)
            /\ \A i \in 1..Len(updateCh'[v]) : LastAdd(updateCh'[v], g, i) =>
                 /\ i + 1 \in 1..Len(updateCh[v]) /\ LastAdd(updateCh[v], g, i + 1)
                 /\ updateCh'[v][i] = updateCh[v][i + 1]
        <4> HIDE DEF DiscoveryInv, TypeOK, u
        <4> QED
          BY <1>12, <2>5, QueueShrinks DEF Some
      <3>2. NewestAdd(updateCh[v], g, Normalized(sent[g])) => NewestAdd(updateCh'[v], g, Normalized(sent'[g]))
        BY <2>2, <3>1 DEF NewestAdd
      <3>3. LastAdd(updateCh[v], g, 1) /\ NewestAdd(updateCh[v], g, Normalized(sent[g])) =>
              IsAdd(u, g) /\ u.endpoints = Normalized(sent[g])
        BY <2>1, <2>5 DEF LastAdd, NewestAdd
      <3>4. ~Some(updateCh[v]) => ~IsAdd(u, g)
        BY <2>1, <2>5 DEF Some
      <3> HIDE DEF u
      <3> QED
        BY <1>2, <2>2, <2>3, <3>1, <3>2, <3>3, <3>4
    <2> QED
      BY <2>4, <2>5
  <1>13. ASSUME NEW n \in Explicit, NEW e \in EndpointSets, ExplicitUpdate(n, e)
         PROVE  Goal
    <2> DEFINE u == Update(n, 0, e)
    <2>1. Deliver(u) /\ Genuine(u) /\ ~IsAdd(u, g)
      BY <1>1, <1>13, ExplicitArrived DEF IsAdd, Update
    <2>2. /\ loopUp /\ UNCHANGED <<sent, chan, hold, updateCh, loopUp>>
      BY <1>13 DEF ExplicitUpdate, flowVars, initVars
    <2>3. source[b] = g => source'[b] = source[b] /\ backends'[b] = backends[b]
      <3> HIDE DEF DiscoveryInv, TypeOK, u
      <3> QED
        BY <2>1, OwnerPrevails DEF b
    <2> QED
      BY <1>2, <2>2, <2>3
  <1>14. ASSUME NEW w \in Watchers, NEW h \in Gens, CollectValue(w, h)
         PROVE  Goal
    <2>1. /\ h \in pendingInit[w] /\ chan[h] # NoValue
          /\ chan' = [chan EXCEPT ![h] = NoValue]
          /\ initial' = [initial EXCEPT ![w][BackendOf(h)] =
                   [gen |-> h, endpoints |-> Normalized(chan[h])]]
          /\ UNCHANGED <<sent, hold, updateCh, loopUp>>
      BY <1>14 DEF CollectValue
    <2>2. /\ Born(h) /\ WatcherOf(h) = w /\ BackendOf(h) \in Names
          /\ phase[w] = "collect"
      BY <2>1, BornFacts DEF Collected
    <2>3. ~loopUp
      BY <2>2 DEF Flights, Forwarded
    <2>4. initial'[v][b] = IF v = w /\ b = BackendOf(h)
                           THEN [gen |-> h, endpoints |-> Normalized(chan[h])]
                           ELSE initial[v][b]
      BY <1>1, <2>1, <2>2 DEF StartTypeOK
    <2>5. CASE h = g
      <3>1. ~MayAdd(g)
        BY <1>1, <2>2, <2>5 DEF Flights, Forwarded
      <3>2. hold[g] = NoValue /\ ~Some(updateCh[v])
        BY <1>1, <3>1 DEF MayAdd, Queued, Some, IsAdd, v
      <3>3. chan[g] = sent[g] /\ chan'[g] = NoValue
        BY <1>2, <2>1, <2>5 DEF FlowTypeOK
      <3>4. NewestAdd(updateCh[v], g, Normalized(sent[g]))
        BY <3>2 DEF Some, NewestAdd, LastAdd
      <3>5. w = v /\ b = BackendOf(h)
        BY <2>2, <2>5 DEF v, b
      <3> QED
        BY <2>1, <2>3, <2>4, <2>5, <3>2, <3>3, <3>4, <3>5
    <2>6. CASE h # g
      <3>1. ~(v = w /\ b = BackendOf(h))
        BY <1>3, <1>4, <2>2, <2>3, <2>6
      <3>2. initial'[v][b] = initial[v][b] /\ chan'[g] = chan[g]
        BY <2>1, <2>4, <2>6, <3>1 DEF FlowTypeOK
      <3> QED
        BY <1>2, <2>1, <2>3, <3>2
    <2> QED
      BY <2>5, <2>6
  <1>15. ASSUME MergeInitial
         PROVE  Goal
    <2>1. /\ ~loopUp /\ loopUp'
          /\ UNCHANGED <<sent, chan, hold, updateCh>>
      BY <1>15 DEF MergeInitial, flowVars
    <2>2. source'[b] = Merged(b).gen /\ backends'[b] = Merged(b).endpoints
      BY <1>1, <1>15 DEF MergeInitial
    <2>3. ASSUME initial[v][b] = [gen |-> g, endpoints |-> Normalized(sent[g])]
          PROVE  Merged(b) = [gen |-> g, endpoints |-> Normalized(sent[g])]
      <3>1. initial[v][b].gen # 0
        BY <1>1, <2>3
      <3>2. PICK w \in Watchers : Merged(b) = initial[w][b] /\ initial[w][b].gen # 0
        BY <1>1, <3>1, MergedOf
      <3>3. PICK h \in Gens : initial[w][b].gen = h
        BY <1>1, <3>2 DEF StartTypeOK
      <3>4. Born(h) /\ WatcherOf(h) = w /\ BackendOf(h) = b
        BY <1>1, <3>3 DEF Collected
      <3>5. h = g
        BY <1>3, <1>4, <2>1, <3>4
      <3> QED
        BY <2>3, <3>2, <3>4, <3>5 DEF v
    <2> QED
      BY <1>2, <2>1, <2>2, <2>3
  <1>16. CASE Environment
    <2>1. CASE \E w \in Watchers, s \in Services : ServiceEvent(w, s)
      BY <1>5, <2>1 DEF ServiceEvent, tableVars, flowVars, initVars
    <2>2. CASE \E s \in Services, e \in EndpointSets : EndpointEvent(s, e)
      BY <1>5, <2>2 DEF EndpointEvent, tableVars, flowVars, initVars
    <2>3. CASE \E n \in Names : TombstoneExpire(n)
      BY <1>5, <2>3 DEF TombstoneExpire, Expire, flowVars, initVars
    <2> QED
      BY <1>13, <1>16, <2>1, <2>2, <2>3 DEF Environment
  <1>17. CASE \E w \in Watchers : BeginCollect(w) \/ StartForwarding(w)
    BY <1>5, <1>17 DEF BeginCollect, StartForwarding, tableVars, flowVars
  <1>18. CASE \E w \in Watchers, h \in Gens : CollectSkip(w, h)
    BY <1>5, <1>18 DEF CollectSkip, tableVars, flowVars
  <1>19. CASE TombstoneSweep \/ UNCHANGED vars
    BY <1>5, <1>19 DEF TombstoneSweep, SweepExpiredTombstones, vars, tableVars, flowVars, initVars
  <1> HIDE DEF Goal
  <1> QED
    BY <1>6, <1>7, <1>8, <1>10, <1>11, <1>12, <1>14, <1>15, <1>16, <1>17, <1>18, <1>19 DEF Keeps

\* In a calm start nothing is lost: what the child watcher of a managed Service
\* sent last is in the loop's table, or on its way to it (liveGen,
\* collectInitialState, startForwarding).
THEOREM NoneLost == CalmStartup => (Spec => []NoLost)
  <1> SUFFICES ASSUME CalmStartup PROVE Spec => []NoLost
    OBVIOUS
  <1>1. Init => LatestInv
    BY DEF Init, LatestInv
  <1>2. DiscoveryInv /\ LatestInv /\ [Next]_vars => LatestInv'
    BY LatestKept
  <1>3. LatestInv => NoLost
    BY DEF LatestInv, NoLost, Latest, Delivered
  <1> QED
    BY <1>1, <1>2, <1>3, DiscoveryInductive, PTL DEF Spec

\* The loop's table shows what is managed, and all of it, if the start is calm
\* and tombstones outlive what they bury (runLoop, BackendDiscoveryWatcher).
THEOREM TableIsExact == PromptLoop /\ CalmStartup => (Spec => []TableExact)
  <1> SUFFICES ASSUME PromptLoop, CalmStartup PROVE Spec => []TableExact
    OBVIOUS
  <1>1. Spec => []NoGhost
    BY NoGhosts
  <1>2. Spec => []NoLost
    BY NoneLost
  <1>3. NoGhost /\ NoLost => TableExact
    BY DEF TableExact
  <1> QED
    BY <1>1, <1>2, <1>3, PTL

-----------------------------------------------------------------------------
(* The table implements the abstract view.                                 *)

LEMMA OwnerLive ==
  ASSUME DiscoveryInv, NEW n \in Names, NEW g \in Gens, source[n] = g, OwnerGen(n) = g
  PROVE  Live(g) /\ BackendOf(g) = n
  <1> USE DEF DiscoveryInv, TypeOK
  <1>1. g # 0 /\ Born(g) /\ BackendOf(g) = n
    BY DiscoveryAssumption DEF Table, Gens
  <1>2. registry[n] \in Watchers \X Services
    BY <1>1 DEF OwnerGen, OwnerTypeOK
  <1>3. PICK w \in Watchers, s \in Services : registry[n] = <<w, s>> /\ registry[n] # Free
    BY <1>2, DiscoveryAssumption
  <1>4. managed[w][s] = g
    BY <1>3 DEF OwnerGen
  <1>5. born[g] = <<w, s>>
    BY <1>1, <1>4 DEF Owners
  <1> QED
    BY <1>1, <1>4, <1>5 DEF Live, WatcherOf, ServiceOf

\* What BackendView lets the loop do to a name.
Shown(n) ==
  \/ /\ source'[n] \in 1..lastGen'
     /\ source'[n] > newest[n] \/ source'[n] = source[n]
     /\ newest'[n] = source'[n]
  \/ source[n] # OwnerGen(n) /\ source'[n] = 0 /\ newest'[n] = newest[n]
  \/ source'[n] = source[n] /\ newest'[n] = newest[n]

LEMMA DeliverShows ==
  ASSUME DiscoveryInv, CalmStartup, NEW u, Genuine(u), Deliver(u),
         UNCHANGED <<managed, lastGen, born>>,
         \A n \in Names : source[n] # 0 => source[n] = newest[n],
         u.gen # 0 /\ u.endpoints # Nil => Passed(u.gen)
  PROVE  \A n \in Names : Shown(n)
  <1> SUFFICES ASSUME NEW n \in Names PROVE Shown(n)
    OBVIOUS
  <1> USE DEF DiscoveryInv, TypeOK
  <1>1. /\ u.name \in Names /\ u.gen \in {0} \cup Gens /\ u.gen \in Nat
        /\ u.gen # 0 => Born(u.gen) /\ BackendOf(u.gen) = u.name
                        /\ (u.endpoints = Nil => ~Live(u.gen))
        /\ u.gen = 0 => u.name \in Explicit /\ u.endpoints # Nil
    BY DiscoveryAssumption DEF Genuine, Carried, Updates, Gens
  <1>2. /\ source[n] \in {0} \cup Gens /\ newest[n] \in Nat /\ liveGen[n] \in Nat
        /\ removedGen[n] \in Nat
        /\ lastGen \in Nat /\ 0 \notin Gens /\ \A g \in Gens : g \in Nat
        /\ source[n] # 0 => source[n] = newest[n]
        /\ n \in Explicit => source[n] = 0
    <2>1. n \in Explicit => source[n] = 0
      BY DiscoveryAssumption DEF TableTypeOK, Table, Owners
    <2> QED
      BY <2>1, DiscoveryAssumption DEF Gens, TableTypeOK, OwnerTypeOK
  <1>3. CASE Drop(u)
    BY <1>3 DEF Drop, tableVars, Shown
  <1>4. CASE Remove(u)
    <2>1. /\ source'[n] = IF n = u.name THEN 0 ELSE source[n]
          /\ newest'[n] = newest[n] /\ u.endpoints = Nil
      BY <1>4 DEF Remove, TableTypeOK
    <2>2. ASSUME n = u.name, source[n] # 0, OwnerGen(n) = source[n]
          PROVE  FALSE
      <3>1. PICK g \in Gens : source[n] = g
        BY <1>2, <2>2
      <3>2. Live(g) /\ BackendOf(g) = n
        <4> HIDE DEF DiscoveryInv, TypeOK
        <4> QED
          BY <2>2, <3>1, OwnerLive
      <3>3. ~IsAdd(u, g)
        BY <2>1 DEF IsAdd
      <3>4. source'[n] = source[n]
        <4> HIDE DEF DiscoveryInv, TypeOK
        <4> QED
          BY <3>1, <3>2, <3>3, OwnerPrevails
      <3> QED
        BY <2>1, <2>2, <3>4
    <2> QED
      BY <2>1, <2>2 DEF Shown
  <1>5. CASE Add(u)
    <2>1. /\ source'[n] = IF n = u.name THEN u.gen ELSE source[n]
          /\ newest'[n] = IF n = u.name /\ u.gen > newest[n] THEN u.gen ELSE newest[n]
          /\ u.endpoints # Nil /\ ~Stale(u) /\ ~Buried(u)
      BY <1>5 DEF Add, TableTypeOK
    <2>2. CASE n # u.name
      BY <2>1, <2>2 DEF Shown
    <2>3. CASE n = u.name /\ u.gen = 0
      BY <1>1, <1>2, <2>1, <2>3 DEF Shown
    <2>4. CASE n = u.name /\ u.gen # 0
      <3>1. Passed(u.gen) /\ BackendOf(u.gen) = n /\ u.gen \in 1..lastGen
        BY <1>1, <1>2, <2>1, <2>4, DiscoveryAssumption DEF Born, Gens
      <3>2. ~Barred(u.gen)
        BY <1>2, <2>1, <2>4, <3>1 DEF Barred, Stale, Buried
      <3>3. u.gen = source[n] \/ u.gen > newest[n]
        BY <3>1, <3>2 DEF Passed
      <3> QED
        BY <1>2, <2>1, <2>4, <3>1, <3>3 DEF Shown
    <2> QED
      BY <2>2, <2>3, <2>4
  <1> QED
    BY <1>3, <1>4, <1>5 DEF Deliver

LEMMA DeliverPasses ==
  ASSUME DiscoveryInv, CalmStartup, NEW u, Genuine(u), Deliver(u),
         UNCHANGED <<managed, lastGen, born>>, NEW g \in Gens, Born(g), Passed(g)
  PROVE  Passed(g)'
  <1>0. Barred(g) => Barred(g)'
    BY DeliverBars
  <1> USE DEF DiscoveryInv, TypeOK
  <1> DEFINE b == BackendOf(g)
  <1>1. /\ b \in Names /\ b \notin Explicit /\ BackendOf(g)' = b /\ g \in Nat /\ g # 0
    BY BornFacts DEF ServiceOf, BackendOf
  <1>2. /\ u.name \in Names /\ u.gen \in {0} \cup Gens /\ u.gen \in Nat
        /\ u.gen # 0 => Born(u.gen) /\ BackendOf(u.gen) = u.name
        /\ u.gen = 0 => u.name \in Explicit
    BY DiscoveryAssumption DEF Genuine, Carried, Updates, Gens
  <1>3. /\ liveGen[b] \in Nat /\ removedGen[b] \in Nat /\ source[b] \in Nat
        /\ newest[b] \in Nat
        /\ liveGen[b] # 0 => liveGen[b] = source[b]
    BY <1>1, DiscoveryAssumption DEF TableTypeOK, Gens, Table
  <1>4. source[b] = g /\ liveGen[b] = 0 /\ u.gen # 0 /\ u.name = b => g <= u.gen
    BY <1>1, <1>2, <1>3 DEF Table
  <1>5. /\ Barred(g) <=> (g <= removedGen[b] \/ g < liveGen[b])
        /\ Barred(g)' <=> (g <= removedGen'[b] \/ g < liveGen'[b])
        /\ Passed(g) <=> (Barred(g) \/ g = source[b] \/ g > newest[b])
        /\ Passed(g)' <=> (Barred(g)' \/ g = source'[b] \/ g > newest'[b])
    BY <1>1 DEF Barred, Passed
  <1> HIDE DEF b
  <1>6. CASE Drop(u)
    BY <1>1, <1>5, <1>6 DEF Drop, tableVars
  <1>7. CASE Remove(u)
    <2>1. /\ source'[b] = IF b = u.name THEN 0 ELSE source[b]
          /\ liveGen'[b] = IF b = u.name THEN 0 ELSE liveGen[b]
          /\ removedGen'[b] = IF b = u.name /\ u.gen > removedGen[b]
                              THEN u.gen ELSE removedGen[b]
          /\ newest'[b] = newest[b] /\ u.endpoints = Nil /\ ~Stale(u)
      BY <1>1, <1>7 DEF Remove, TableTypeOK
    <2>2. CASE b # u.name
      BY <1>0, <1>5, <2>1, <2>2
    <2>3. CASE b = u.name
      <3>1. u.gen # 0 /\ liveGen[b] <= u.gen
        BY <1>1, <1>2, <1>3, <2>1, <2>3 DEF Stale
      <3>2. source[b] = g => g <= u.gen
        BY <1>1, <1>2, <1>3, <1>4, <2>3, <3>1
      <3>3. source[b] = g => Barred(g)'
        BY <1>1, <1>2, <1>3, <1>5, <2>1, <2>3, <3>2
      <3> QED
        BY <1>0, <1>5, <2>1, <3>3
    <2> QED
      BY <2>2, <2>3
  <1>8. CASE Add(u)
    <2>1. /\ source'[b] = IF b = u.name THEN u.gen ELSE source[b]
          /\ liveGen'[b] = IF b = u.name /\ u.gen # 0 THEN u.gen ELSE liveGen[b]
          /\ newest'[b] = IF b = u.name /\ u.gen > newest[b] THEN u.gen ELSE newest[b]
          /\ removedGen'[b] = removedGen[b] /\ ~Stale(u)
      BY <1>1, <1>8 DEF Add, TableTypeOK
    <2>2. CASE b # u.name
      BY <1>0, <1>5, <2>1, <2>2
    <2>3. CASE b = u.name
      <3>1. u.gen # 0 /\ liveGen[b] <= u.gen
        BY <1>1, <1>2, <1>3, <2>1, <2>3 DEF Stale
      <3>2. source[b] = g => g <= u.gen
        BY <1>1, <1>2, <1>3, <1>4, <2>3, <3>1
      <3>3. source[b] = g => Passed(g)'
        BY <1>1, <1>2, <1>3, <1>5, <2>1, <2>3, <3>1, <3>2
      <3>4. g > newest[b] => Passed(g)'
        BY <1>1, <1>2, <1>3, <1>5, <2>1, <2>3, <3>1
      <3> QED
        BY <1>0, <1>5, <3>3, <3>4
    <2> QED
      BY <2>2, <2>3
  <1> QED
    BY <1>6, <1>7, <1>8 DEF Deliver

LEMMA NeverBackSync ==
  ASSUME DiscoveryInv, NeverBack, NEW w \in Watchers, Syncs(w)
  PROVE  NeverBack' /\ \A n \in Names : Shown(n)
  <1>1. UNCHANGED tableVars
    BY SyncStep DEF DiscoveryInv, TypeOK
  <1>2. ASSUME NEW g \in Gens, MayAdd(g)'
        PROVE  Passed(g)'
    <2>1. CASE Born(g)
      <3>1. /\ MayAdd(g) /\ BackendOf(g)' = BackendOf(g)
            /\ (Barred(g)' <=> Barred(g))
        BY <1>2, <2>1, SyncSame
      <3>2. Passed(g)
        BY <3>1 DEF NeverBack
      <3> QED
        BY <1>1, <3>1, <3>2 DEF Passed, tableVars
    <2>2. CASE ~Born(g)
      <3>1. Born(g)'
        BY <1>2 DEF MayAdd
      <3>2. g > lastGen
        BY <2>2, <3>1, SyncSame
      <3>3. born'[g] \in Watchers \X Services
        BY <2>2, <3>1, SyncStep DEF DiscoveryInv, TypeOK
      <3>4. BackendOf(g)' \in Names
        BY <3>3, DiscoveryAssumption DEF ServiceOf, BackendOf
      <3>5. \A n \in Names : newest[n] \in Nat /\ newest[n] <= lastGen
        <4>1. newest \in [Names -> {0} \cup Gens] /\ \A n \in Names : newest[n] <= lastGen
          BY DEF DiscoveryInv, TypeOK, TableTypeOK, Table
        <4>2. {0} \cup Gens \subseteq Nat
          BY DiscoveryAssumption DEF Gens
        <4> QED
          BY <4>1, <4>2
      <3>6. lastGen \in Nat /\ g \in Nat
        BY DiscoveryAssumption DEF DiscoveryInv, TypeOK, OwnerTypeOK, Gens
      <3>7. g > newest[BackendOf(g)']
        BY <3>2, <3>4, <3>5, <3>6
      <3> QED
        BY <1>1, <3>7 DEF Passed, tableVars
    <2> QED
      BY <2>1, <2>2
  <1>3. \A n \in Names : Shown(n)
    BY <1>1 DEF Shown, tableVars
  <1>4. \A n \in Names : source'[n] # 0 => source'[n] = newest'[n]
    BY <1>1 DEF NeverBack, tableVars
  <1> QED
    BY <1>2, <1>3, <1>4 DEF NeverBack

LEMMA NeverBackKept ==
  ASSUME DiscoveryInv, GhostInv, NeverBack, PromptLoop, CalmStartup, [Next]_vars
  PROVE  NeverBack' /\ \A n \in Names : Shown(n)
  <1> SUFFICES ASSUME Keeps PROVE NeverBack' /\ \A n \in Names : Shown(n)
    BY Splits, NeverBackSync
  <1>0. UNCHANGED <<managed, lastGen, born>>
    BY KeepsOwners DEF watcherVars
  <1>1. /\ \A g : Born(g)' <=> Born(g)
        /\ \A g : BackendOf(g)' = BackendOf(g)
    BY <1>0 DEF Born, ServiceOf, BackendOf
  <1>2. /\ \A n \in Names : source[n] # 0 => source[n] = newest[n]
        /\ \A g \in Gens : MayAdd(g) => Passed(g)
    BY DEF NeverBack
  <1>3. ASSUME NEW g \in Gens, MayAdd(g)
        PROVE  Born(g) /\ BackendOf(g) \in Names /\ g \in Nat
    <2>1. Born(g)
      BY <1>3 DEF MayAdd
    <2> QED
      BY <2>1, BornFacts DEF DiscoveryInv, TypeOK
  <1>4. ASSUME NEW w \in Watchers, LoopDeliver(w)
        PROVE  /\ \A n \in Names : Shown(n)
               /\ \A g \in Gens : MayAdd(g) => Passed(g)'
    <2> DEFINE u == updateCh[w][1]
    <2>1. Deliver(u) /\ Genuine(u) /\ Carried(w, u) /\ 1 \in 1..Len(updateCh[w])
      BY <1>4, Arrived
    <2>2. u.gen # 0 /\ u.endpoints # Nil => Passed(u.gen)
      <3>1. u.gen \in Gens /\ Born(u.gen) /\ WatcherOf(u.gen) = w
        BY <2>1 DEF Carried
      <3>2. u.endpoints # Nil => MayAdd(u.gen)
        BY <2>1, <3>1 DEF MayAdd, Queued
      <3> QED
        BY <1>2, <3>1, <3>2
    <2> HIDE DEF u
    <2>3. \A n \in Names : Shown(n)
      BY <1>0, <1>2, <2>1, <2>2, DeliverShows
    <2>4. ASSUME NEW g \in Gens, MayAdd(g) PROVE Passed(g)'
      BY <1>0, <1>2, <1>3, <2>1, <2>4, DeliverPasses
    <2> QED
      BY <2>3, <2>4
  <1>5. ASSUME NEW k \in Explicit, NEW e \in EndpointSets, ExplicitUpdate(k, e)
        PROVE  /\ \A n \in Names : Shown(n)
               /\ \A g \in Gens : MayAdd(g) => Passed(g)'
    <2> DEFINE u == Update(k, 0, e)
    <2>1. Deliver(u) /\ Genuine(u)
      BY <1>5, ExplicitArrived
    <2>2. u.gen = 0
      BY DEF Update
    <2> HIDE DEF u
    <2>3. \A n \in Names : Shown(n)
      BY <1>0, <1>2, <2>1, <2>2, DeliverShows
    <2>4. ASSUME NEW g \in Gens, MayAdd(g) PROVE Passed(g)'
      BY <1>0, <1>2, <1>3, <2>1, <2>4, DeliverPasses
    <2> QED
      BY <2>3, <2>4
  <1>6. ASSUME UNCHANGED <<liveGen, removedGen, source, newest>>
        PROVE  /\ \A n \in Names : Shown(n)
               /\ \A g \in Gens : MayAdd(g) => Passed(g)'
    BY <1>1, <1>2, <1>6 DEF Shown, Passed, Barred
  <1>7. ASSUME TombstoneSweep
        PROVE  /\ \A n \in Names : Shown(n)
               /\ \A g \in Gens : MayAdd(g) => Passed(g)'
    <2>1. UNCHANGED <<source, newest, liveGen>>
      BY <1>7 DEF TombstoneSweep, SweepExpiredTombstones
    <2>2. ASSUME NEW g \in Gens, MayAdd(g)
          PROVE  Passed(g)'
      <3>1. removedGen'[BackendOf(g)] =
              IF BackendOf(g) \in expired THEN 0 ELSE removedGen[BackendOf(g)]
        BY <1>3, <1>7, <2>2 DEF TombstoneSweep, SweepExpiredTombstones
      <3>2. BackendOf(g) \in expired => g > removedGen[BackendOf(g)]
        BY <2>2 DEF GhostInv
      <3>3. removedGen[BackendOf(g)] \in Nat /\ g \in Nat
        BY <1>3, <2>2, DiscoveryAssumption DEF DiscoveryInv, TypeOK, TableTypeOK, Gens
      <3>4. Passed(g)
        BY <1>2, <2>2
      <3>5. g <= removedGen[BackendOf(g)] => g <= removedGen'[BackendOf(g)]
        BY <3>1, <3>2, <3>3
      <3> QED
        BY <1>1, <2>1, <3>4, <3>5 DEF Passed, Barred
    <2> QED
      BY <2>1, <2>2 DEF Shown
  <1>8. ASSUME MergeInitial
        PROVE  /\ \A n \in Names : Shown(n)
               /\ \A g \in Gens : MayAdd(g) => Passed(g)'
    <2>1. /\ ~loopUp /\ EmptyTable
          /\ source' = [n \in Names |-> Merged(n).gen] /\ newest' = source'
      BY <1>8 DEF MergeInitial, DiscoveryInv, Collected
    <2>2. ASSUME NEW n \in Names
          PROVE  \/ source'[n] = 0
                 \/ \E h \in Gens : source'[n] = h /\ Live(h) /\ BackendOf(h) = n
      <3>1. CASE Merged(n) = NoInitial
        BY <2>1, <3>1 DEF NoInitial
      <3>2. ASSUME NEW w \in Watchers, Merged(n) = initial[w][n], initial[w][n].gen # 0
            PROVE  \E h \in Gens : source'[n] = h /\ Live(h) /\ BackendOf(h) = n
        <4>1. PICK h \in Gens : initial[w][n].gen = h
          BY <3>2 DEF DiscoveryInv, TypeOK, StartTypeOK
        <4>2. Born(h) /\ BackendOf(h) = n
          BY <4>1 DEF DiscoveryInv, Collected
        <4>3. Live(h)
          BY <2>1, <4>2 DEF DiscoveryInv, Calm
        <4> QED
          BY <2>1, <3>2, <4>1, <4>2, <4>3
      <3> QED
        BY <3>1, <3>2, MergedOf DEF DiscoveryInv, TypeOK
    <2>3. /\ \A n \in Names : source[n] = 0 /\ newest[n] = 0
          /\ lastGen \in Nat /\ \A g \in Gens : g \in Nat /\ g > 0
      BY <2>1, DiscoveryAssumption DEF EmptyTable, DiscoveryInv, TypeOK, OwnerTypeOK, Gens
    <2>4. ASSUME NEW n \in Names PROVE Shown(n)
      <3>1. CASE source'[n] = 0
        BY <2>1, <2>3, <3>1 DEF Shown
      <3>2. ASSUME NEW h \in Gens, source'[n] = h, Live(h)
            PROVE  Shown(n)
        <4>1. h \in 1..lastGen'
          BY <1>0, <2>3, <3>2 DEF Live, Born
        <4> QED
          BY <2>1, <2>3, <3>2, <4>1 DEF Shown
      <3> QED
        BY <2>2, <3>1, <3>2
    <2>5. ASSUME NEW g \in Gens, MayAdd(g)
          PROVE  Passed(g)'
      <3>1. CASE source'[BackendOf(g)] = 0
        BY <1>1, <1>3, <2>1, <2>3, <2>5, <3>1 DEF Passed
      <3>2. ASSUME NEW h \in Gens, source'[BackendOf(g)] = h, Live(h), BackendOf(h) = BackendOf(g)
            PROVE  Passed(g)'
        <4>1. Live(g)
          BY <1>3, <2>1, <2>5 DEF DiscoveryInv, Calm
        <4>2. h = g
          BY <2>3, <3>2, <4>1 DEF DiscoveryInv, Owners, Live
        <4> QED
          BY <1>1, <3>2, <4>2 DEF Passed
      <3> QED
        BY <1>3, <2>2, <2>5, <3>1, <3>2
    <2> QED
      BY <2>4, <2>5
  <1>9. /\ \A n \in Names : Shown(n)
        /\ \A g \in Gens : MayAdd(g) => Passed(g)'
    <2>1. CASE UNCHANGED tableVars
      BY <1>6, <2>1 DEF tableVars
    <2>2. CASE \E n \in Names : TombstoneExpire(n)
      BY <1>6, <2>2 DEF TombstoneExpire, Expire
    <2> QED
      BY <1>4, <1>5, <1>7, <1>8, <2>1, <2>2, TableSame DEF TableSteps
  <1>10. ASSUME NEW g \in Gens, MayAdd(g)'
         PROVE  Passed(g)'
    <2>1. Born(g)
      BY <1>1, <1>10 DEF MayAdd
    <2>2. CASE MayAdd(g)
      BY <1>9, <2>2
    <2>3. ASSUME NEW w \in Watchers, StartForwarding(w)
          PROVE  Passed(g)'
      <3>1. ~loopUp /\ UNCHANGED tableVars
        BY <2>3 DEF StartForwarding, DiscoveryInv, Flights, Forwarded
      <3>2. BackendOf(g) \in Names /\ g \in Nat /\ g # 0
        BY <2>1, BornFacts DEF DiscoveryInv, TypeOK
      <3>3. newest[BackendOf(g)] = 0
        BY <3>1, <3>2 DEF DiscoveryInv, Collected, EmptyTable
      <3> QED
        BY <1>1, <3>1, <3>2, <3>3 DEF Passed, tableVars
    <2> QED
      BY <1>10, <2>1, <2>2, <2>3, AddsKept
  <1>11. \A n \in Names : source'[n] # 0 => source'[n] = newest'[n]
    BY <1>2, <1>9 DEF Shown
  <1> QED
    BY <1>9, <1>10, <1>11 DEF NeverBack

LEMMA GenerationsGrow ==
  ASSUME DiscoveryInv, [Next]_vars
  PROVE  lastGen' \in Nat /\ lastGen' >= lastGen
  <1>1. lastGen \in Nat
    BY DiscoveryAssumption DEF DiscoveryInv, TypeOK, OwnerTypeOK
  <1>2. CASE Keeps
    BY <1>1, <1>2, KeepsOwners DEF watcherVars
  <1>3. ASSUME NEW w \in Watchers, Syncs(w)
        PROVE  lastGen' \in Nat /\ lastGen' >= lastGen
    <2>1. lastGen' \in lastGen..MaxGen
      BY <1>3, SyncStep DEF DiscoveryInv, TypeOK
    <2> QED
      BY <1>1, <2>1, DiscoveryAssumption
  <1> QED
    BY <1>2, <1>3, Splits

\* A name passes from its owner to a newer one, or to none.
LEMMA OwnersMoveOn ==
  ASSUME DiscoveryInv, [Next]_vars, NEW n \in Names
  PROVE  OwnerGen(n)' \in {OwnerGen(n), 0} \cup (lastGen + 1)..lastGen'
  <1>1. CASE Keeps
    <2>1. UNCHANGED <<managed, registry>>
      BY <1>1, KeepsOwners DEF watcherVars
    <2> QED
      BY <2>1 DEF OwnerGen
  <1>2. ASSUME NEW w \in Watchers, Syncs(w)
        PROVE  OwnerGen(n)' \in {OwnerGen(n), 0} \cup (lastGen + 1)..lastGen'
    <2>1. /\ OwnerTypeOK' /\ lastGen' \in lastGen..MaxGen
          /\ \A v \in Watchers, s \in Services :
               managed'[v][s] # 0 =>
                 managed'[v][s] <= lastGen' /\ born'[managed'[v][s]] = <<v, s>>
          /\ \A g \in Gens : Born(g) => born'[g] = born[g]
          /\ \A g \in Gens : Born(g) /\ Live(g)' => Live(g)
          /\ \/ registry'[n] = registry[n] \/ registry'[n] = Free
             \/ \E s \in Services : registry'[n] = <<w, s>> /\ managed'[w][s] > lastGen
      BY <1>2, SyncStep DEF DiscoveryInv, TypeOK
    <2>2. CASE registry'[n] = Free
      BY <2>2 DEF OwnerGen
    <2>3. ASSUME NEW v \in Watchers, NEW s \in Services, registry'[n] = <<v, s>>,
                 registry[n] = <<v, s>> \/ managed'[v][s] > lastGen
          PROVE  OwnerGen(n)' \in {OwnerGen(n), 0} \cup (lastGen + 1)..lastGen'
      <3>1. OwnerGen(n)' = managed'[v][s]
        BY <2>3, DiscoveryAssumption DEF OwnerGen
      <3>2. PICK m \in {0} \cup Gens : m = managed'[v][s]
        BY <2>1 DEF OwnerTypeOK
      <3>3. lastGen \in Nat /\ lastGen' \in Nat /\ m \in Nat
        BY <2>1, DiscoveryAssumption DEF DiscoveryInv, TypeOK, OwnerTypeOK, Gens
      <3>4. CASE m = 0
        BY <3>1, <3>2, <3>4
      <3>5. CASE m > lastGen
        BY <2>1, <3>1, <3>2, <3>3, <3>5
      <3>6. CASE m # 0 /\ m <= lastGen
        <4>1. m \in Gens /\ Born(m) /\ born'[m] = <<v, s>>
          BY <2>1, <3>2, <3>6 DEF Born
        <4>2. born[m] = <<v, s>>
          BY <2>1, <4>1
        <4>3. Live(m)'
          BY <2>1, <3>2, <3>6, <4>1 DEF Live, Born, WatcherOf, ServiceOf
        <4>4. managed[v][s] = m
          BY <2>1, <4>1, <4>2, <4>3 DEF Live, WatcherOf, ServiceOf
        <4>5. registry[n] = <<v, s>>
          BY <2>3, <3>2, <3>3, <3>6
        <4>6. OwnerGen(n) = m
          BY <4>4, <4>5, DiscoveryAssumption DEF OwnerGen
        <4> QED
          BY <3>1, <3>2, <4>6
      <3> QED
        BY <3>3, <3>4, <3>5, <3>6
    <2>4. registry'[n] \in (Watchers \X Services) \cup {Free}
      BY <2>1 DEF OwnerTypeOK
    <2>5. CASE registry'[n] \in Watchers \X Services
      BY <2>1, <2>2, <2>3, <2>5
    <2> QED
      BY <2>2, <2>4, <2>5
  <1> QED
    BY <1>1, <1>2, Splits

\* The table implements the abstract view of a name: one incarnation after
\* another, never one again, and never without the owner once it is shown
\* (runLoop's liveGen and removedGen).
THEOREM TableImplementsView == PromptLoop /\ CalmStartup => (Spec => ViewSpec)
  <1> SUFFICES ASSUME PromptLoop, CalmStartup PROVE Spec => ViewSpec
    OBVIOUS
  <1>1. Init => View!Init
    <2> SUFFICES ASSUME Init PROVE View!Init
      OBVIOUS
    <2>1. \A n \in Names : OwnerGen(n) = 0
      BY DEF Init, OwnerGen
    <2> QED
      BY <2>1 DEF Init, EmptyTable, View!Init
  <1>2. Init => GhostInv /\ NeverBack
    <2> SUFFICES ASSUME Init PROVE GhostInv /\ NeverBack
      OBVIOUS
    <2>1. \A g \in Gens : ~Born(g) /\ g # 0
      BY DiscoveryAssumption DEF Init, Born, Gens
    <2> QED
      BY <2>1 DEF Init, EmptyTable, GhostInv, NeverBack, Cancelled, MayAdd
  <1>3. DiscoveryInv /\ GhostInv /\ NeverBack /\ [Next]_vars => GhostInv' /\ NeverBack'
    BY GhostKept, NeverBackKept
  <1>4. ASSUME DiscoveryInv, GhostInv, NeverBack, [Next]_vars
        PROVE  [View!Next]_(View!view)
    <2>1. \A n \in Names : Shown(n)
      BY <1>4, NeverBackKept
    <2>2. \A n \in Names : OwnerGen(n)' \in {OwnerGen(n), 0} \cup (lastGen + 1)..lastGen'
      BY <1>4, OwnersMoveOn
    <2>3. lastGen' \in Nat /\ lastGen' >= lastGen
      BY <1>4, GenerationsGrow
    <2>4. \A n \in Names : View!Own(n)
      BY <2>2 DEF View!Own
    <2>5. \A n \in Names : \/ View!Show(n) \/ View!Hide(n)
                           \/ source'[n] = source[n] /\ newest'[n] = newest[n]
      BY <2>1 DEF Shown, View!Show, View!Hide
    <2> QED
      BY <2>3, <2>4, <2>5 DEF View!Next
  <1> QED
    BY <1>1, <1>2, <1>3, <1>4, DiscoveryInductive, PTL DEF Spec, ViewSpec, View!Spec

-----------------------------------------------------------------------------
(* The table mirrors the cluster.                                          *)

\* A Service that left the store is given up by the next pass of its watcher.
Noticed ==
  \A w \in Watchers, s \in Services : managed[w][s] # 0 => s \in listed[w] \/ dirty[w]

\* A name that a listed Service could claim has an owner, or the watcher is
\* still to look: it was told that the name is free.
Claimed ==
  \A w \in Watchers : \A s \in listed[w] :
    NameOf[s] \notin Explicit /\ registry[NameOf[s]] = Free =>
      dirty[w] \/ kick[w] \/ phase[w] = "sync"

\* The registry gives a name to a Service of that name.
Named == \A n \in Names : registry[n] # Free => NameOf[registry[n][2]] = n

\* A backend that no incarnation put into the table is not there.
Unshown == \A n \in Names \ Explicit : source[n] = 0 => backends[n] = Nil

\* A managed incarnation is forwarded once its watcher runs.
Forwarding ==
  \A g \in Gens : Live(g) /\ phase[WatcherOf(g)] = "running" => fwd[g] = "on"

RestInv == Noticed /\ Claimed /\ Named /\ Unshown /\ Forwarding

\* An add pass leaves no name free that it could claim, and frees none.
LEMMA NothingFree ==
  ASSUME OwnerTypeOK, OneOwner, NEW w \in Watchers, NEW mgd,
         Adopt(w, Adopted(w, managed[w], registry), mgd, registry)
  PROVE  /\ \A n \in Names : registry'[n] = Free => registry[n] = Free
         /\ \A s \in listed[w] : NameOf[s] \notin Explicit => registry'[NameOf[s]] # Free
  <1> DEFINE S == Adopted(w, managed[w], registry)
             A == Adoptable(w, managed[w], registry)
  <1>0. /\ S \subseteq Services
        /\ listed[w] \subseteq Services
        /\ \A s \in Services : NameOf[s] \in Names /\ s \in Nat
        /\ Free \notin Watchers \X Services
    BY AdoptedFree, DiscoveryAssumption DEF OwnerTypeOK
  <1>1. \A n \in Names :
          registry'[n] = IF \E s \in S : NameOf[s] = n
                         THEN <<w, CHOOSE s \in S : NameOf[s] = n>> ELSE registry[n]
    BY DEF Adopt, ClaimAll
  <1>2. S = {s \in A : \A r \in A : NameOf[r] = NameOf[s] => s <= r}
    BY DEF Adopted
  <1>3. A \subseteq listed[w]
    BY DEF Adoptable
  <1>4. ASSUME NEW s \in listed[w], NameOf[s] \notin Explicit, registry[NameOf[s]] = Free
        PROVE  s \in A
    <2>1. \A r \in Services : NameOf[r] = NameOf[s] => managed[w][r] = 0
      <3> SUFFICES ASSUME NEW r \in Services, NameOf[r] = NameOf[s] PROVE managed[w][r] = 0
        OBVIOUS
      <3>1. <<w, r>> # registry[NameOf[s]]
        BY <1>0, <1>4
      <3>2. NameOf[r] \in Names
        BY <1>0
      <3> QED
        BY <3>1, <3>2 DEF OneOwner
    <2>2. managed[w][s] = 0 /\ \A r \in Services : managed[w][r] # 0 => NameOf[r] # NameOf[s]
      BY <1>0, <2>1
    <2> QED
      BY <1>4, <2>2 DEF Adoptable, Claim
  <1> HIDE DEF S, A
  <1>5. ASSUME NEW n \in Names, \E s \in S : NameOf[s] = n
        PROVE  registry'[n] # Free
    <2>1. (CHOOSE s \in S : NameOf[s] = n) \in Services
      BY <1>0, <1>5
    <2>2. PICK c \in Services : registry'[n] = <<w, c>>
      BY <1>1, <1>5, <2>1
    <2>3. <<w, c>> \in Watchers \X Services
      OBVIOUS
    <2> QED
      BY <1>0, <2>2, <2>3
  <1>6. ASSUME NEW n \in Names, registry'[n] = Free
        PROVE  registry[n] = Free /\ \A s \in S : NameOf[s] # n
    BY <1>1, <1>5, <1>6
  <1>7. ASSUME NEW s \in listed[w], NameOf[s] \notin Explicit, registry'[NameOf[s]] = Free
        PROVE  FALSE
    <2> DEFINE T == {r \in A : NameOf[r] = NameOf[s]}
    <2>1. registry[NameOf[s]] = Free /\ \A r \in S : NameOf[r] # NameOf[s]
      BY <1>0, <1>6, <1>7
    <2>2. T \subseteq Nat /\ T # {}
      BY <1>0, <1>3, <1>4, <1>7, <2>1
    <2>3. PICK r \in T : \A q \in T : r <= q
      <3> HIDE DEF T
      <3> QED
        BY <2>2, SmallestOf
    <2>4. r \in S
      BY <1>2, <2>3
    <2> QED
      BY <2>1, <2>3, <2>4
  <1> QED
    BY <1>6, <1>7

\* What a reconcile does to the names of its watcher and of the others.
LEMMA SyncedNames ==
  ASSUME OwnerTypeOK, ClusterTypeOK, StartTypeOK, OneOwner, Noticed,
         NEW w \in Watchers, Syncs(w)
  PROVE  /\ \A s \in Services : managed'[w][s] # 0 => s \in listed[w] \/ dirty'[w]
         /\ \A v \in Watchers : v # w => /\ managed'[v] = managed[v]
                                         /\ dirty'[v] = dirty[v]
                                         /\ kick[v] => kick'[v]
                                         /\ phase'[v] = phase[v]
         /\ \/ \A v \in Watchers : kick'[v]
            \/ /\ \A n \in Names : registry'[n] = Free => registry[n] = Free
               /\ \A s \in listed[w] : NameOf[s] \notin Explicit => registry'[NameOf[s]] # Free
         /\ listed' = listed
  <1> DEFINE S == Adopted(w, managed[w], registry)
  <1>0. /\ managed \in [Watchers -> [Services -> {0} \cup Gens]]
        /\ registry = [n \in Names |-> registry[n]]
        /\ dirty \in [Watchers -> BOOLEAN]
        /\ phase \in [Watchers -> {"sync", "synced", "collect", "running"}]
        /\ \A s \in S : s \in listed[w]
    BY AdoptedFree DEF OwnerTypeOK, ClusterTypeOK, StartTypeOK
  <1> HIDE DEF S
  <1>1. ASSUME NEW mgd, NEW reg, Adopt(w, S, mgd, reg)
        PROVE  /\ \A v \in Watchers : v # w => managed'[v] = managed[v]
               /\ \A s \in Services : managed'[w][s] # 0 => s \in listed[w] \/ mgd[s] # 0
    <2>1. managed' = [managed EXCEPT ![w] = Number(S, lastGen, mgd)]
      BY <1>1 DEF Adopt
    <2> QED
      BY <1>0, <2>1 DEF Number
  <1>2. CASE AddPassAgain(w)
    <2>1. Adopt(w, S, managed[w], registry) /\ UNCHANGED <<dirty, kick, listed, phase>>
      BY <1>2 DEF AddPassAgain, S, clusterVars, initVars
    <2>2. /\ \A n \in Names : registry'[n] = Free => registry[n] = Free
          /\ \A s \in listed[w] : NameOf[s] \notin Explicit => registry'[NameOf[s]] # Free
      BY <2>1, NothingFree DEF S
    <2>3. \A s \in Services : managed[w][s] # 0 => s \in listed[w] \/ dirty[w]
      BY DEF Noticed
    <2> QED
      BY <1>1, <2>1, <2>2, <2>3
  <1>3. CASE HandlerSync(w) \/ KickSync(w) \/ InitialSync(w)
    <2> DEFINE gone == {s \in Services : managed[w][s] # 0 /\ s \notin listed[w]}
               kept == [s \in Services |-> IF s \in gone THEN 0 ELSE managed[w][s]]
               reg == ReleaseAll(w, gone, registry)
    <2>1. PICK t \in Threads : /\ Reconcile(w, t)
                               /\ t = "kick" => KickSync(w)
                               /\ t # "kick" => HandlerSync(w) \/ InitialSync(w)
      BY <1>3 DEF HandlerSync, KickSync, InitialSync, Threads
    <2>2. Adopt(w, S, kept, reg) /\ kick' = Kicks(w, t, gone) /\ listed' = listed
      BY <2>1, Zenon DEF Reconcile, S, clusterVars
    <2>3. \A v \in Watchers : v # w => dirty'[v] = dirty[v] /\ phase'[v] = phase[v]
      BY <1>0, <1>3 DEF HandlerSync, KickSync, InitialSync
    <2>4. \A s \in Services : kept[s] # 0 => s \in listed[w]
      OBVIOUS
    <2>5. CASE gone = {}
      <3>1. reg = registry
        BY <1>0, <2>5 DEF ReleaseAll
      <3>2. Adopt(w, S, kept, registry)
        BY <2>2, <3>1
      <3> HIDE DEF gone, kept, reg
      <3>3. /\ \A n \in Names : registry'[n] = Free => registry[n] = Free
            /\ \A s \in listed[w] : NameOf[s] \notin Explicit => registry'[NameOf[s]] # Free
        BY <3>2, NothingFree DEF S
      <3>4. \A v \in Watchers : v # w => (kick[v] => kick'[v])
        BY <2>2 DEF Kicks
      <3> QED
        BY <1>1, <2>2, <2>3, <2>4, <3>3, <3>4
    <2>6. CASE gone # {}
      <3> HIDE DEF gone, kept, reg
      <3>1. \A v \in Watchers : kick'[v]
        BY <2>2, <2>6 DEF Kicks
      <3> QED
        BY <1>1, <2>2, <2>3, <2>4, <3>1
    <2> QED
      BY <2>5, <2>6
  <1> QED
    BY <1>2, <1>3 DEF Syncs

\* A reconcile notices what left the store and claims what it may.
LEMMA SyncRest ==
  ASSUME DiscoveryInv, RestInv, NEW w \in Watchers, Syncs(w)
  PROVE  RestInv'
  <1> USE DEF DiscoveryInv, TypeOK, RestInv, Owners
  <1>0. /\ \A s \in Services : managed'[w][s] # 0 => s \in listed[w] \/ dirty'[w]
        /\ \A v \in Watchers : v # w => /\ managed'[v] = managed[v]
                                        /\ dirty'[v] = dirty[v]
                                        /\ kick[v] => kick'[v]
                                        /\ phase'[v] = phase[v]
        /\ \/ \A v \in Watchers : kick'[v]
           \/ /\ \A n \in Names : registry'[n] = Free => registry[n] = Free
              /\ \A s \in listed[w] : NameOf[s] \notin Explicit => registry'[NameOf[s]] # Free
        /\ listed' = listed
    BY SyncedNames
  <1>1. Noticed'
    BY <1>0 DEF Noticed
  <1>2. Claimed'
    <2> SUFFICES ASSUME NEW v \in Watchers, NEW s \in listed[v],
                        NameOf[s] \notin Explicit, registry'[NameOf[s]] = Free
                 PROVE  dirty'[v] \/ kick'[v] \/ phase'[v] = "sync"
      BY <1>0 DEF Claimed
    <2>1. NameOf[s] \in Names
      BY DiscoveryAssumption DEF OwnerTypeOK
    <2>2. CASE \A u \in Watchers : kick'[u]
      BY <2>2
    <2>3. CASE /\ \A n \in Names : registry'[n] = Free => registry[n] = Free
               /\ \A r \in listed[w] : NameOf[r] \notin Explicit => registry'[NameOf[r]] # Free
      <3>1. v # w /\ registry[NameOf[s]] = Free
        BY <2>1, <2>3
      <3>2. dirty[v] \/ kick[v] \/ phase[v] = "sync"
        BY <3>1 DEF Claimed
      <3> QED
        BY <1>0, <3>1, <3>2
    <2> QED
      BY <1>0, <2>2, <2>3
  <1>3. Named'
    <2> DEFINE S == Adopted(w, managed[w], registry)
    <2>1. PICK gone : Reconciled(w, gone)
      BY GivenUp
    <2>2. registry' = ClaimAll(w, S, ReleaseAll(w, gone, registry))
      BY <2>1, Zenon DEF Reconciled, Adopt
    <2>3. S \subseteq Services
      BY AdoptedFree
    <2> HIDE DEF S
    <2> SUFFICES ASSUME NEW n \in Names, registry'[n] # Free
                 PROVE  NameOf[registry'[n][2]] = n
      BY DEF Named
    <2>4. CASE \E s \in S : NameOf[s] = n
      <3>1. PICK c \in S : registry'[n] = <<w, c>> /\ NameOf[c] = n
        BY <2>2, <2>4 DEF ClaimAll
      <3> QED
        BY <3>1
    <2>5. CASE \A s \in S : NameOf[s] # n
      <3>1. registry'[n] = ReleaseAll(w, gone, registry)[n]
        BY <2>2, <2>5 DEF ClaimAll
      <3>2. registry'[n] = registry[n]
        BY <3>1 DEF ReleaseAll
      <3> QED
        BY <3>2 DEF Named
    <2> QED
      BY <2>4, <2>5
  <1>6. /\ \A g \in Gens : Born(g) => born'[g] = born[g]
        /\ \A g \in Gens : Born(g) \/ ~Born(g)' => fwd'[g] = fwd[g]
        /\ \A g \in Gens : Born(g) /\ Live(g)' => Live(g)
        /\ \A g \in Gens : ~Born(g) /\ Born(g)' =>
             /\ WatcherOf(g)' = w
             /\ fwd'[g] = IF phase[w] = "running" THEN "on" ELSE fwd[g]
        /\ \A v \in Watchers : phase'[v] = phase[v]
                               \/ (phase[v] = "sync" /\ phase'[v] = "synced")
        /\ UNCHANGED tableVars
    BY SyncStep
  <1>4. Unshown'
    BY <1>6 DEF Unshown, tableVars
  <1>5. Forwarding'
    <2> SUFFICES ASSUME NEW g \in Gens, Live(g)', phase'[WatcherOf(g)'] = "running"
                 PROVE  fwd'[g] = "on"
      BY DEF Forwarding
    <2>1. CASE Born(g)
      <3>1. Live(g) /\ WatcherOf(g)' = WatcherOf(g) /\ fwd'[g] = fwd[g]
        BY <1>6, <2>1 DEF WatcherOf
      <3>2. WatcherOf(g) \in Watchers
        BY <2>1, BornFacts
      <3>3. phase[WatcherOf(g)] = "running"
        BY <1>6, <3>1, <3>2
      <3> QED
        BY <3>1, <3>3 DEF Forwarding
    <2>2. CASE ~Born(g)
      <3>1. Born(g)'
        BY DEF Live
      <3> QED
        BY <1>6, <2>2, <3>1
    <2> QED
      BY <2>1, <2>2
  <1> QED
    BY <1>1, <1>2, <1>3, <1>4, <1>5

\* The steps that matter to the names and the forwarding goroutines.
LEMMA QuietSteps ==
  ASSUME Keeps
  PROVE  /\ \/ \E w \in Watchers, s \in Services : ServiceEvent(w, s)
            \/ UNCHANGED <<listed, dirty>>
         /\ \/ \E w \in Watchers : BeginCollect(w) \/ StartForwarding(w)
            \/ \E g \in Gens : FwdStop(g)
            \/ UNCHANGED <<phase, fwd>>
  <1> USE DEF clusterVars, flowVars, initVars
  <1>1. CASE Environment
    BY <1>1 DEF Environment, ServiceEvent, EndpointEvent, ExplicitUpdate, TombstoneExpire
  <1>2. CASE \E w \in Watchers, g \in Gens : CollectValue(w, g) \/ CollectSkip(w, g)
    BY <1>2 DEF CollectValue, CollectSkip
  <1>3. CASE \E w \in Watchers : BeginCollect(w) \/ StartForwarding(w) \/ LoopDeliver(w)
    <2>1. CASE \E w \in Watchers : BeginCollect(w) \/ StartForwarding(w)
      <3>1. UNCHANGED <<listed, dirty>>
        BY <2>1 DEF BeginCollect, StartForwarding
      <3> QED
        BY <2>1, <3>1
    <2>2. CASE \E w \in Watchers : LoopDeliver(w)
      BY <2>2 DEF LoopDeliver
    <2> QED
      BY <1>3, <2>1, <2>2
  <1>4. CASE \E w \in Watchers, t \in Threads : SendRemoval(w, t)
    BY <1>4 DEF SendRemoval
  <1>5. CASE \E g \in Gens : ChildSend(g) \/ FwdTake(g) \/ FwdSend(g) \/ FwdStop(g)
    <2>1. CASE \E g \in Gens : FwdStop(g)
      <3>1. UNCHANGED <<listed, dirty>>
        BY <2>1 DEF FwdStop
      <3> QED
        BY <2>1, <3>1
    <2>2. CASE \E g \in Gens : ChildSend(g) \/ FwdTake(g) \/ FwdSend(g)
      BY <2>2 DEF ChildSend, FwdTake, FwdSend
    <2> QED
      BY <1>5, <2>1, <2>2
  <1>6. CASE MergeInitial \/ TombstoneSweep \/ UNCHANGED vars
    BY <1>6 DEF MergeInitial, TombstoneSweep, vars
  <1> QED
    BY <1>1, <1>2, <1>3, <1>4, <1>5, <1>6 DEF Keeps

\* Only an update that carries a generation shows a discovered backend.
LEMMA UnshownKept ==
  ASSUME DiscoveryInv, Unshown, Keeps
  PROVE  Unshown'
  <1> USE DEF DiscoveryInv, TypeOK
  <1>1. ASSUME NEW u, Genuine(u), Deliver(u)
        PROVE  Unshown'
    <2>0. u.gen = 0 => u.name \in Explicit
      BY <1>1 DEF Genuine
    <2>1. CASE Drop(u)
      BY <2>1 DEF Drop, tableVars, Unshown
    <2>2. CASE Remove(u)
      BY <2>2 DEF Remove, TableTypeOK, Unshown
    <2>3. CASE Add(u)
      BY <2>0, <2>3 DEF Add, TableTypeOK, Unshown
    <2> QED
      BY <1>1, <2>1, <2>2, <2>3 DEF Deliver
  <1>2. CASE \E w \in Watchers : LoopDeliver(w)
    BY <1>1, <1>2, Arrived
  <1>3. CASE \E n \in Explicit, e \in EndpointSets : ExplicitUpdate(n, e)
    BY <1>1, <1>3, ExplicitArrived
  <1>4. CASE (\E n \in Names : TombstoneExpire(n)) \/ TombstoneSweep
    BY <1>4 DEF TombstoneExpire, Expire, TombstoneSweep, SweepExpiredTombstones, Unshown
  <1>5. CASE MergeInitial
    <2> SUFFICES ASSUME NEW n \in Names \ Explicit, source'[n] = 0
                 PROVE  backends'[n] = Nil
      BY DEF Unshown
    <2>1. source'[n] = Merged(n).gen /\ backends'[n] = Merged(n).endpoints
      BY <1>5 DEF MergeInitial
    <2>2. Merged(n) = NoInitial
      BY <2>1, MergedOf
    <2> QED
      BY <2>1, <2>2 DEF NoInitial
  <1>6. CASE UNCHANGED tableVars
    BY <1>6 DEF tableVars, Unshown
  <1> QED
    BY <1>2, <1>3, <1>4, <1>5, <1>6, TableSame DEF TableSteps

\* RestInv is kept by every step.
LEMMA RestKept ==
  ASSUME DiscoveryInv, RestInv, [Next]_vars
  PROVE  RestInv'
  <1> USE DEF DiscoveryInv, TypeOK, RestInv
  <1>1. CASE Keeps
    <2>0. UNCHANGED <<managed, registry, lastGen, born, kick>>
      BY <1>1, KeepsOwners DEF watcherVars
    <2>1. /\ \/ \E w \in Watchers, s \in Services : ServiceEvent(w, s)
             \/ UNCHANGED <<listed, dirty>>
          /\ \/ \E w \in Watchers : BeginCollect(w) \/ StartForwarding(w)
             \/ \E g \in Gens : FwdStop(g)
             \/ UNCHANGED <<phase, fwd>>
      BY <1>1, QuietSteps
    <2>2. \A v \in Watchers : /\ phase[v] = "sync" => phase'[v] = "sync"
                              /\ dirty'[v] \/ (dirty'[v] = dirty[v] /\ listed'[v] = listed[v])
      <3>1. \A v \in Watchers : phase[v] = "sync" => phase'[v] = "sync"
        BY <2>1 DEF BeginCollect, StartForwarding, FwdStop, initVars, StartTypeOK
      <3>2. \A v \in Watchers : dirty'[v] \/ (dirty'[v] = dirty[v] /\ listed'[v] = listed[v])
        BY <2>1 DEF ServiceEvent, ClusterTypeOK, OwnerTypeOK
      <3> QED
        BY <3>1, <3>2
    <2>3. Noticed'
      BY <2>0, <2>2 DEF Noticed
    <2>4. Claimed'
      BY <2>0, <2>2 DEF Claimed
    <2>5. Named'
      BY <2>0 DEF Named
    <2>6. Forwarding'
      <3> SUFFICES ASSUME NEW g \in Gens, Live(g)', phase'[WatcherOf(g)'] = "running"
                   PROVE  fwd'[g] = "on"
        BY DEF Forwarding
      <3>1. Live(g) /\ Born(g) /\ WatcherOf(g)' = WatcherOf(g)
        BY <2>0 DEF Live, Born, WatcherOf, ServiceOf
      <3>2. WatcherOf(g) \in Watchers
        BY <3>1, BornFacts
      <3>3. CASE \E w \in Watchers : StartForwarding(w)
        BY <3>1, <3>2, <3>3 DEF StartForwarding, StartTypeOK, FlowTypeOK, Forwarding
      <3>4. CASE \E w \in Watchers : BeginCollect(w)
        BY <3>1, <3>2, <3>4 DEF BeginCollect, StartTypeOK, flowVars, Forwarding
      <3>5. CASE \E h \in Gens : FwdStop(h)
        BY <3>1, <3>5 DEF FwdStop, FlowTypeOK, Cancelled, initVars, Forwarding
      <3>6. CASE UNCHANGED <<phase, fwd>>
        BY <3>1, <3>6 DEF Forwarding
      <3> QED
        BY <2>1, <3>3, <3>4, <3>5, <3>6
    <2>7. Unshown'
      BY <1>1, UnshownKept
    <2> QED
      BY <2>3, <2>4, <2>5, <2>6, <2>7
  <1>2. CASE \E w \in Watchers : Syncs(w)
    BY <1>2, SyncRest
  <1> QED
    BY <1>1, <1>2, Splits

\* At rest there is nothing between the cluster and the table.
LEMMA RestMirrors ==
  ASSUME DiscoveryInv, RestInv, NoGhost, NoLost, AtRest
  PROVE  Mirrored
  <1> USE DEF DiscoveryInv, TypeOK, RestInv
  <1>1. /\ loopUp
        /\ \A w \in Watchers :
             /\ ~dirty[w] /\ ~kick[w] /\ updateCh[w] = <<>>
             /\ \A t \in Threads : unsent[w][t] = {}
        /\ \A g \in Gens :
             /\ fwd[g] = "on" => chan[g] = NoValue
             /\ hold[g] = NoValue
             /\ Live(g) => sent[g] = Snapshot(actual[ServiceOf(g)])
        /\ \A w \in Watchers : phase[w] = "running"
    BY DEF AtRest, Flights, Forwarded
  <1>2. ASSUME NEW n \in Names \ Explicit, Candidates(n) = {}
        PROVE  backends[n] = Nil
    <2> SUFFICES ASSUME source[n] # 0 PROVE FALSE
      BY DEF Unshown
    <2> DEFINE g == source[n]
               w == WatcherOf(g)
               s == ServiceOf(g)
    <2>1. g \in Gens /\ Born(g) /\ BackendOf(g) = n
      BY DEF TableTypeOK, Table
    <2>2. w \in Watchers /\ s \in Services /\ NameOf[s] = n /\ g # 0
      BY <2>1, BornFacts DEF BackendOf
    <2>3. ~RemovalInFlight(g)
      <3>1. updateCh[w] = <<>> /\ \A t \in Threads : unsent[w][t] = {}
        BY <1>1, <2>2
      <3> QED
        BY <3>1 DEF RemovalInFlight
    <2>4. managed[w][s] = g
      BY <1>1, <2>3 DEF NoGhost, Live
    <2>5. s \in listed[w]
      BY <1>1, <2>2, <2>4 DEF Noticed
    <2>6. <<w, s>> \in Candidates(n)
      BY <2>2, <2>5 DEF Candidates
    <2> QED
      BY <1>2, <2>6
  <1>3. ASSUME NEW n \in Names \ Explicit, Candidates(n) # {}
        PROVE  \E o \in Candidates(n) : backends[n] = actual[o[2]]
    <2>1. PICK w \in Watchers, s \in Services : s \in listed[w] /\ NameOf[s] = n
      BY <1>3 DEF Candidates
    <2>2. registry[n] # Free
      BY <1>1, <2>1 DEF Claimed
    <2>3. PICK v \in Watchers, r \in Services : registry[n] = <<v, r>>
      BY <2>2 DEF OwnerTypeOK
    <2>4. NameOf[r] = n
      BY <2>2, <2>3 DEF Named
    <2> DEFINE g == managed[v][r]
    <2>5. g # 0 /\ g \in Gens
      BY <2>3, <2>4 DEF Owners, OneOwner, OwnerTypeOK
    <2>6. Born(g) /\ born[g] = <<v, r>>
      BY <2>5 DEF Owners, Born
    <2>7. Live(g) /\ WatcherOf(g) = v /\ ServiceOf(g) = r /\ BackendOf(g) = n
      BY <2>4, <2>6 DEF Live, WatcherOf, ServiceOf, BackendOf
    <2>8. <<v, r>> \in Candidates(n)
      BY <1>1, <2>4, <2>5 DEF Noticed, Candidates
    <2> HIDE DEF g
    <2>9. ~Undelivered(g)
      <3>1. chan[g] = NoValue /\ hold[g] = NoValue
        BY <1>1, <2>5, <2>7 DEF Forwarding
      <3>2. updateCh[WatcherOf(g)] = <<>>
        BY <1>1, <2>7
      <3>3. ~Queued(g)
        BY <3>2 DEF Queued
      <3> QED
        BY <3>1, <3>3 DEF Undelivered
    <2>10. sent[g] = Snapshot(actual[r]) /\ actual[r] \in EndpointSets
      BY <1>1, <2>5, <2>7 DEF ClusterTypeOK
    <2>11. sent[g] # NoValue /\ Normalized(sent[g]) = actual[r]
      BY <2>10, DiscoveryAssumption, EndpointsAssumption DEF Snapshot, Normalized
    <2>12. backends[n] = actual[r]
      BY <1>1, <2>5, <2>7, <2>9, <2>11 DEF NoLost
    <2> QED
      BY <2>8, <2>12
  <1> QED
    BY <1>1, <1>2, <1>3 DEF Mirrored

\* When every goroutine is idle the table mirrors the cluster: of every name
\* that some Service goes by it shows one that is listed, with the endpoints it
\* has, and no other name.  No Service is orphaned by another selector, by a
\* namesake or by a release it was not told of (syncServices,
\* NameRegistry.release).
THEOREM TableMirrors == PromptLoop /\ CalmStartup => (Spec => []MirrorsAtRest)
  <1> SUFFICES ASSUME PromptLoop, CalmStartup PROVE Spec => []MirrorsAtRest
    OBVIOUS
  <1>1. Init => RestInv
    <2> SUFFICES ASSUME Init PROVE RestInv
      OBVIOUS
    <2>1. Noticed /\ Named /\ Unshown
      BY DEF Init, EmptyTable, Noticed, Named, Unshown
    <2>2. Claimed
      BY DEF Init, Claimed
    <2>3. Forwarding
      BY DEF Init, Forwarding, Live, Born, Gens
    <2> QED
      BY <2>1, <2>2, <2>3 DEF RestInv
  <1>2. DiscoveryInv /\ RestInv /\ [Next]_vars => RestInv'
    BY RestKept
  <1>3. DiscoveryInv /\ RestInv /\ NoGhost /\ NoLost => MirrorsAtRest
    BY RestMirrors DEF MirrorsAtRest
  <1>4. Spec => []NoGhost
    BY NoGhosts
  <1>5. Spec => []NoLost
    BY NoneLost
  <1> QED
    BY <1>1, <1>2, <1>3, <1>4, <1>5, DiscoveryInductive, PTL DEF Spec
=============================================================================
