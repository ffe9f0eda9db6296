------------------------------ MODULE TlsCerts ------------------------------
(***************************************************************************)
(* TLS certificates: the event loop's certificate path (src/main.go,        *)
(* handleCertReload and its cases of runLoop, loadInitialTLSCerts) with     *)
(* Manager.LoadCert (src/internal/varnish/tls.go), one varnishadm command   *)
(* after the other, and varnishd's staging area as the environment.         *)
(*                                                                         *)
(* A certificate is known by the id varnishd gave it; the manager finds     *)
(* that id by comparing two listings.  A command may fail, and "late" ones  *)
(* take effect although they failed, as after a timeout of the client.      *)
(***************************************************************************)
EXTENDS Naturals, Sequences, FiniteSets

CONSTANTS
  Certs,        \* the names of --tls-cert flags
  Material,     \* what a Secret may hold
  Malformed,    \* material that is no key pair
  Empty,        \* no certificate or no key
  Backlog,      \* maxPendingDiscards
  Retries,      \* the backoff is enabled
  Faults,       \* the commands that may fail
  MaxFaults,    \* bound: failures
  MaxChanges    \* bound: changes of Secrets

AllFaults == {"file", "list", "load", "load late", "commit", "commit late",
              "rollback", "discard", "discard late"}

ASSUME TlsAssumption ==
  /\ IsFiniteSet(Certs) /\ Certs # {}
  /\ Empty \in Material /\ Malformed \subseteq Material \ {Empty}
  /\ Backlog \in Nat \ {0} /\ Retries \in BOOLEAN
  /\ Faults \subseteq AllFaults
  /\ MaxFaults \in Nat /\ MaxChanges \in Nat

\* Every load that is not the first of its name follows a change or a failure.
Ids == 1..(Cardinality(Certs) + MaxFaults + MaxChanges)

VARIABLES
  pc,                \* "boot", "select", "certs" (handleCertReload), "dead"
  latestTLS,
  pendingCertNames,
  tlsCert,           \* the debounce timer runs
  tlsRecovery,       \* the recovery timer runs
  todo,              \* the names handleCertReload has still to load
  failed,
  step,              \* where LoadCert is, or "none"
  name,              \* its argument
  before,            \* its first listing
  tlsCertIDs,        \* 0 for none
  discards,          \* tlsPendingDiscards
  staged,            \* varnishd: loaded, not committed
  active,            \* varnishd: committed
  marked,            \* varnishd: discarded, still listed until the next commit
  lastID,            \* varnishd: the id given last
  issued,            \* history: the name and the material of each id
  served,            \* history: the material last loaded with success
  untraced,          \* history: an id was lost in a way the code accepts
  faults, changes

loopVars == <<pc, latestTLS, pendingCertNames, tlsCert, tlsRecovery, todo,
              failed>>
managerVars == <<step, name, before, tlsCertIDs, discards>>
varnishVars == <<staged, active, marked, lastID, issued>>
vars == <<loopVars, managerVars, varnishVars, served, untraced, faults,
          changes>>

Unlisted == [ok |-> FALSE, ids |-> {}]
Listed(ids) == [ok |-> TRUE, ids |-> ids]

Init ==
  /\ pc = "boot"
  /\ latestTLS \in [Certs -> Material]
  /\ pendingCertNames = {}
  /\ tlsCert = FALSE
  /\ tlsRecovery = FALSE
  /\ todo = Certs
  /\ failed = FALSE
  /\ step = "none"
  /\ name = CHOOSE n \in Certs : TRUE
  /\ before = Unlisted
  /\ tlsCertIDs = [n \in Certs |-> 0]
  /\ discards = <<>>
  /\ staged = {}
  /\ active = {}
  /\ marked = {}
  /\ lastID = 0
  /\ issued = [i \in Ids |-> <<name, Empty>>]
  /\ served = [n \in Certs |-> Empty]
  /\ untraced = FALSE
  /\ faults = 0
  /\ changes = 0

Fails(command) ==
  /\ command \in Faults
  /\ faults < MaxFaults
  /\ faults' = faults + 1
-----------------------------------------------------------------------------
(* The event loop.                                                         *)

CertEvent(n, m) ==
  /\ pc = "select"
  /\ changes < MaxChanges
  /\ m # latestTLS[n]
  /\ changes' = changes + 1
  /\ latestTLS' = [latestTLS EXCEPT ![n] = m]
  /\ pendingCertNames' = pendingCertNames \cup {n}
  /\ tlsCert' = TRUE
  /\ UNCHANGED <<pc, tlsRecovery, todo, failed, managerVars, varnishVars,
                 served, untraced, faults>>

\* The debounce timer or the recovery timer fires.
HandleCertReload ==
  /\ pc = "select"
  /\ tlsCert \/ tlsRecovery
  /\ \/ tlsCert /\ UNCHANGED tlsRecovery
     \/ tlsRecovery /\ tlsRecovery' = FALSE
  /\ tlsCert' = FALSE
  /\ todo' = pendingCertNames
  /\ failed' = FALSE
  /\ pc' = IF pendingCertNames = {} THEN "select" ELSE "certs"
  /\ UNCHANGED <<latestTLS, pendingCertNames, managerVars, varnishVars,
                 served, untraced, faults, changes>>

StillPending(n, ok) ==
  IF ok THEN pendingCertNames \ {n} ELSE pendingCertNames

\* Slip: the last name alone decides on a retry.
RetryTimerLast(ok) == Retries /\ ~ok

\* The recovery timer after the last name.
RetryTimer(ok) == Retries /\ (failed \/ ~ok)

\* LoadCert(n) has returned: handleCertReload goes on; loadInitialTLSCerts
\* gives up at the first error.
Returned(n, ok) ==
  /\ todo' = todo \ {n}
  /\ UNCHANGED <<latestTLS, tlsCert>>
  /\ IF pc = "boot"
     THEN /\ pc' = IF ~ok THEN "dead" ELSE IF todo' = {} THEN "select" ELSE pc
          /\ UNCHANGED <<pendingCertNames, tlsRecovery, failed>>
     ELSE /\ pc' = IF todo' = {} THEN "select" ELSE pc
          /\ pendingCertNames' = StillPending(n, ok)
          /\ failed' = (failed \/ ~ok)
          /\ tlsRecovery' = IF todo' = {} THEN RetryTimer(ok) ELSE tlsRecovery
-----------------------------------------------------------------------------
(* LoadCert, up to the commit.                                             *)

Idle == pc \in {"boot", "certs"} /\ step = "none"

\* Empty material changes nothing; a broken key pair is an error before any
\* command is sent.
LoadCertNoop(n) ==
  /\ Idle
  /\ n \in todo
  /\ latestTLS[n] \in Malformed \cup {Empty}
  /\ Returned(n, latestTLS[n] = Empty)
  /\ UNCHANGED <<managerVars, varnishVars, served, untraced, faults, changes>>

\* The file for varnishd cannot be written.
LoadCertFileFails(n) ==
  /\ Idle
  /\ n \in todo
  /\ latestTLS[n] \notin Malformed \cup {Empty}
  /\ Fails("file")
  /\ Returned(n, FALSE)
  /\ UNCHANGED <<managerVars, varnishVars, served, untraced, changes>>

\* listCertIDs, whose three attempts count as one, before the load.
LoadCert(n) ==
  /\ Idle
  /\ n \in todo
  /\ latestTLS[n] \notin Malformed \cup {Empty}
  /\ name' = n
  /\ step' = "load"
  /\ \/ before' = Listed(active) /\ UNCHANGED <<untraced, faults>>
     \/ Fails("list") /\ before' = Unlisted /\ untraced' = TRUE
  /\ UNCHANGED <<loopVars, tlsCertIDs, discards, varnishVars, served, changes>>

Stage ==
  /\ lastID' = lastID + 1
  /\ staged' = staged \cup {lastID'}
  /\ issued' = [issued EXCEPT ![lastID'] = <<name, latestTLS[name]>>]

TlsLoad ==
  /\ step = "load"
  /\ \/ Stage /\ step' = "commit" /\ UNCHANGED faults
     \/ /\ Fails("load") /\ step' = "rollback"
        /\ UNCHANGED <<lastID, staged, issued>>
     \/ Fails("load late") /\ Stage /\ step' = "rollback"
  /\ UNCHANGED <<loopVars, name, before, tlsCertIDs, discards, active, marked,
                 served, untraced, changes>>

Activate ==
  /\ active' = (active \ marked) \cup staged
  /\ marked' = {}
  /\ staged' = {}

TlsCommit ==
  /\ step = "commit"
  /\ \/ Activate /\ step' = "list" /\ UNCHANGED <<untraced, faults>>
     \/ /\ Fails("commit") /\ step' = "rollback"
        /\ UNCHANGED <<active, marked, staged, untraced>>
     \/ /\ Fails("commit late") /\ Activate /\ step' = "rollback"
        /\ untraced' = TRUE
  /\ UNCHANGED <<loopVars, name, before, tlsCertIDs, discards, lastID, issued,
                 served, changes>>

\* After a load or a commit that failed; its own failure is ignored.
TlsRollback ==
  /\ step = "rollback"
  /\ step' = "none"
  /\ \/ staged' = {} /\ UNCHANGED <<untraced, faults>>
     \/ Fails("rollback") /\ UNCHANGED staged /\ untraced' = TRUE
  /\ Returned(name, FALSE)
  /\ UNCHANGED <<name, before, tlsCertIDs, discards, active, marked, lastID,
                 issued, served, changes>>
-----------------------------------------------------------------------------
(* LoadCert, after the commit.                                             *)

\* Slip: the listings are compared even if the first one failed.
NewIDsUnchecked(after) == after.ids \ before.ids

\* The ids among which LoadCert takes the first it meets.
NewIDs(after) ==
  IF before.ok /\ after.ok THEN after.ids \ before.ids ELSE {}

\* queueDiscard, which drops the oldest of a full queue.
Queued(prior, new) ==
  IF prior \in {0, new} \/ \E i \in 1..Len(discards) : discards[i] = prior
  THEN discards
  ELSE Append(IF Len(discards) >= Backlog THEN Tail(discards) ELSE discards,
              prior)

Overflows(queue) == Len(discards) = Backlog /\ queue # discards

\* Slip: an id leaves the queue even if its discard failed.
KeptNone(queue, bad) == <<>>

\* The ids of the queue that stay, in their order.
Kept(queue, bad) ==
  LET places == {k \in 1..Len(queue) : queue[k] \in bad}
      Place(n) == CHOOSE k \in places : Cardinality({j \in places : j <= k}) = n
  IN  [n \in 1..Cardinality(places) |-> queue[Place(n)]]

\* discardQueued: ids that varnishd does not list any more are dropped, those
\* whose discard fails are kept.  A failed listing counts as a failure too.
DiscardQueued(queue, after) ==
  LET tried == {queue[i] : i \in 1..Len(queue)} \cap
                 (IF after.ok THEN after.ids ELSE Ids)
  IN \E bad \in SUBSET tried, late \in SUBSET tried :
       /\ tried \ active \subseteq bad
       /\ late \subseteq bad \cap active
       /\ bad \cap active # {} => {"discard", "discard late"} \cap Faults # {}
       /\ late # {} => "discard late" \in Faults
       /\ faults' = faults + Cardinality(bad \cap active)
                           + (IF after.ok THEN 0 ELSE 1)
       /\ faults' <= MaxFaults
       /\ discards' = Kept(queue, bad)
       /\ marked' = marked \cup ((tried \cap active) \ bad) \cup late

\* The second listing, and what follows from it.
LoadCertDone ==
  /\ step = "list"
  /\ step' = "none"
  /\ \E after \in {Listed(active)} \cup
                  (IF "list" \in Faults THEN {Unlisted} ELSE {}) :
       \E new \in IF NewIDs(after) = {} THEN {0} ELSE NewIDs(after) :
         LET prior == tlsCertIDs[name]
             queue == IF new = 0 THEN discards ELSE Queued(prior, new)
         IN  /\ tlsCertIDs' = IF new = 0 THEN tlsCertIDs
                              ELSE [tlsCertIDs EXCEPT ![name] = new]
             /\ DiscardQueued(queue, after)
             /\ untraced' = (untraced \/ ~after.ok \/ Overflows(queue))
  /\ served' = [served EXCEPT ![name] = latestTLS[name]]
  /\ Returned(name, TRUE)
  /\ UNCHANGED <<name, before, staged, active, lastID, issued, changes>>
-----------------------------------------------------------------------------
Manager == TlsLoad \/ TlsCommit \/ TlsRollback \/ LoadCertDone

Loop ==
  \/ HandleCertReload
  \/ \E n \in Certs : LoadCertNoop(n) \/ LoadCertFileFails(n) \/ LoadCert(n)

Next ==
  \/ \E n \in Certs, m \in Material : CertEvent(n, m)
  \/ Loop
  \/ Manager

Spec == Init /\ [][Next]_vars

\* The loop runs and its timers expire; every command returns.
FairSpec == Spec /\ WF_vars(Loop) /\ WF_vars(Manager)
-----------------------------------------------------------------------------
(* What must hold.                                                         *)

LoopTypeOK ==
  /\ pc \in {"boot", "select", "certs", "dead"}
  /\ latestTLS \in [Certs -> Material]
  /\ pendingCertNames \subseteq Certs /\ todo \subseteq Certs
  /\ tlsCert \in BOOLEAN /\ tlsRecovery \in BOOLEAN /\ failed \in BOOLEAN
  /\ faults \in 0..MaxFaults /\ changes \in 0..MaxChanges

ManagerTypeOK ==
  /\ step \in {"none", "load", "commit", "rollback", "list"}
  /\ name \in Certs
  /\ before \in [ok : BOOLEAN, ids : SUBSET Ids]
  /\ tlsCertIDs \in [Certs -> {0} \cup Ids]
  /\ discards \in Seq(Ids) /\ Len(discards) <= Backlog

VarnishTypeOK ==
  /\ staged \subseteq Ids /\ active \subseteq Ids /\ marked \subseteq active
  /\ lastID \in {0} \cup Ids
  /\ issued \in [Ids -> Certs \X Material]
  /\ served \in [Certs -> Material]
  /\ untraced \in BOOLEAN

TypeOK == LoopTypeOK /\ ManagerTypeOK /\ VarnishTypeOK

\* varnishd keeps, of every name, a certificate with the material that LoadCert
\* last reported as loaded, whatever commands failed in between: no rotation
\* of any name discards it (LoadCert's comparison of listings).
ServesLoaded ==
  \A n \in Certs : served[n] # Empty =>
    \E i \in active \ marked : issued[i] = <<n, served[n]>>

\* Every certificate varnishd has but no name uses any more is on its way out,
\* unless a listing or a rollback failed, a commit was obeyed late, or the
\* backlog was full (queueDiscard, discardQueued).
NoLeak ==
  pc = "select" /\ ~untraced =>
    \A i \in active \ marked :
      \/ \E n \in Certs : tlsCertIDs[n] = i
      \/ \E k \in 1..Len(discards) : discards[k] = i

\* At the select, a name that is pending has a timer that will load it, and
\* one that is not pending serves its newest material (handleCertReload,
\* recoveryState.arm).
NoNameForgotten ==
  pc = "select" =>
    /\ pendingCertNames # {} => tlsCert \/ tlsRecovery \/ ~Retries
    /\ \A n \in Certs \ pendingCertNames :
         latestTLS[n] \in {Empty, served[n]}

\* Between reloads neither a superseded certificate nor a name that failed has
\* been lost sight of (queueDiscard, discardQueued; handleCertReload).
NothingForgotten == NoLeak /\ NoNameForgotten

\* Once failures and changes are over, every name comes to serve its Secret's
\* material if that is a certificate at all; a Secret that is deleted takes
\* nothing away.
CertsConverge ==
  pc # "boot" ~>
    \/ pc = "dead"
    \/ \A n \in Certs : latestTLS[n] \in Malformed \cup {Empty, served[n]}
=============================================================================
