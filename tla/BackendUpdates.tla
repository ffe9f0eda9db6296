--------------------------- MODULE BackendUpdates ---------------------------
(***************************************************************************)
(* The event loop's table of backends (src/main.go, the backendCh case of   *)
(* runLoop): latestBackends with liveGen, which names the discovery         *)
(* incarnation that owns a backend, and removedGen, the tombstones of       *)
(* removed incarnations, which a sweep evicts by age.  Discovery.tla        *)
(* composes it with the watchers that send the updates.                     *)
(***************************************************************************)
EXTENDS Naturals

CONSTANTS
  Names,         \* bare backend names
  EndpointSets,  \* what a backend's endpoints and metadata may be
  Empty,         \* the one with no endpoints
  Nil            \* nil endpoints: in an update, the backend is removed

ASSUME EndpointsAssumption == Empty \in EndpointSets /\ Nil \notin EndpointSets

VARIABLES
  backends,    \* latestBackends; Nil for a name it does not have
  liveGen,     \* 0 for a name it does not have
  removedGen,  \* the generation of a name's tombstone, 0 for none
  expired,     \* the names whose tombstone is older than the TTL
  source,      \* history: the generation an entry of backends came from
  newest       \* history: the highest generation ever applied to a name

tableVars == <<backends, liveGen, removedGen, expired, source, newest>>

\* An update is a backendChange; explicit backends have generation 0.
Update(n, g, e) == [name |-> n, gen |-> g, endpoints |-> e]
Updates(gens) ==
  [name : Names, gen : {0} \cup gens, endpoints : EndpointSets \cup {Nil}]

EmptyTable ==
  /\ backends = [n \in Names |-> Nil]
  /\ liveGen = [n \in Names |-> 0]
  /\ removedGen = [n \in Names |-> 0]
  /\ expired = {}
  /\ source = [n \in Names |-> 0]
  /\ newest = [n \in Names |-> 0]
-----------------------------------------------------------------------------
\* Slip: a removal is never stale.
StaleAddOnly(u) == u.endpoints # Nil /\ u.gen # 0 /\ u.gen < liveGen[u.name]

\* From an incarnation older than the one that owns the name.
Stale(u) == u.gen # 0 /\ u.gen < liveGen[u.name]

\* A late ADD of an incarnation that was removed.
Buried(u) ==
  u.endpoints # Nil /\ u.gen # 0 /\ u.gen <= removedGen[u.name]

Drop(u) == (Stale(u) \/ Buried(u)) /\ UNCHANGED tableVars

Remove(u) ==
  /\ ~Stale(u)
  /\ u.endpoints = Nil
  /\ removedGen' = [removedGen EXCEPT ![u.name] = IF u.gen > @ THEN u.gen ELSE @]
  /\ expired' = expired \ {u.name}
  /\ backends' = [backends EXCEPT ![u.name] = Nil]
  /\ liveGen' = [liveGen EXCEPT ![u.name] = 0]
  /\ source' = [source EXCEPT ![u.name] = 0]
  /\ UNCHANGED newest

Add(u) ==
  /\ ~Stale(u) /\ ~Buried(u)
  /\ u.endpoints # Nil
  /\ backends' = [backends EXCEPT ![u.name] = u.endpoints]
  /\ liveGen' = IF u.gen = 0 THEN liveGen
                ELSE [liveGen EXCEPT ![u.name] = u.gen]
  /\ source' = [source EXCEPT ![u.name] = u.gen]
  /\ newest' = [newest EXCEPT ![u.name] = IF u.gen > @ THEN u.gen ELSE @]
  /\ UNCHANGED <<removedGen, expired>>

Deliver(u) == Drop(u) \/ Remove(u) \/ Add(u)

\* The TTL passes since a tombstone was set last.
Expire(n) ==
  /\ removedGen[n] # 0
  /\ n \notin expired
  /\ expired' = expired \cup {n}
  /\ UNCHANGED <<backends, liveGen, removedGen, source, newest>>

SweepExpiredTombstones ==
  /\ expired # {}
  /\ removedGen' = [n \in Names |-> IF n \in expired THEN 0 ELSE removedGen[n]]
  /\ expired' = {}
  /\ UNCHANGED <<backends, liveGen, source, newest>>
-----------------------------------------------------------------------------
TableTypeOK(gens) ==
  /\ backends \in [Names -> EndpointSets \cup {Nil}]
  /\ liveGen \in [Names -> {0} \cup gens]
  /\ removedGen \in [Names -> {0} \cup gens]
  /\ expired \subseteq Names
  /\ source \in [Names -> {0} \cup gens]
  /\ newest \in [Names -> {0} \cup gens]
=============================================================================
