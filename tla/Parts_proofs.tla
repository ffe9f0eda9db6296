----------------------------- MODULE Parts_proofs -----------------------------
(***************************************************************************)
(* The safety properties of the parts that run beside the event loop: the   *)
(* start of the program, the debounce groups, the broadcast server, the     *)
(* directory watcher, Manager.Reload, the injection of the drain VCL and    *)
(* the varnishstat collector, for any number of watchers, certificates,     *)
(* groups, connections, files, VCLs, calls, faults and lines, and every     *)
(* configuration.                                                          *)
(***************************************************************************)
EXTENDS Startup, Debounce, Broadcast, FileValues, VclManager, DrainInjection,
        Collector, Counting, FiniteSetTheorems, SequenceTheorems, TLAPS


-----------------------------------------------------------------------------
(* Startup.                                                                *)

\* Every variable of the start keeps its type: the collecting goroutine counts
\* no value twice, and no certificate is installed twice.
THEOREM StartupTypes == StartupSpec => []StartupTypeOK
  <1>1. StartupInit => StartupTypeOK
    <2> SUFFICES ASSUME StartupInit PROVE StartupTypeOK
      OBVIOUS
    <2>1. collected \in 0..NumSources /\ certsDone \in 0..NumCerts
      BY StartupAssumption DEF StartupInit
    <2> QED
      BY <2>1 DEF StartupInit, StartupTypeOK
  <1>2. StartupTypeOK /\ [StartupNext]_startupVars => StartupTypeOK'
    <2> SUFFICES ASSUME StartupTypeOK, [StartupNext]_startupVars
                 PROVE  StartupTypeOK'
      OBVIOUS
    <2> USE StartupAssumption DEF StartupTypeOK, watchVars, childVars
    <2>1. CASE Prepare \/ DetectVersion \/ StartWatchers \/ RenderInitial
      BY <2>1 DEF Prepare, DetectVersion, StartWatchers, RenderInitial
    <2>2. CASE NotifySignals \/ Spawn \/ AdminAnswers
      BY <2>2 DEF NotifySignals, Spawn, AdminAnswers
    <2>3. CASE AdminGivesUp \/ LoadInitialCertFails
      BY <2>3 DEF AdminGivesUp, LoadInitialCertFails, KillAndWait
    <2>4. CASE LoadInitialCert
      BY <2>4 DEF LoadInitialCert
    <2>5. CASE Reaped \/ EnterLoop
      BY <2>5 DEF Reaped, EnterLoop
    <2>6. CASE Collect1
      BY <2>6 DEF Collect1, Sources
    <2>7. CASE AwaitInitial
      BY <2>7 DEF AwaitInitial
    <2>8. ASSUME NEW s \in Sources, SourceSends(s) \/ SourceFails(s)
          PROVE  StartupTypeOK'
      BY <2>8 DEF SourceSends, SourceFails
    <2>9. CASE DaemonExits
      BY <2>9 DEF DaemonExits
    <2>10. CASE SignalArrives
      <3>1. upc' \in {upc, "killed"} /\ sigHeld' \in BOOLEAN
        BY <2>10 DEF SignalArrives
      <3> QED
        BY <2>10, <3>1 DEF SignalArrives
    <2>11. CASE UNCHANGED startupVars
      BY <2>11 DEF startupVars
    <2> QED
      BY <2>1, <2>2, <2>3, <2>4, <2>5, <2>6, <2>7, <2>8, <2>9, <2>10, <2>11
         DEF StartupNext, RunStep
  <1> QED
    BY <1>1, <1>2, PTL DEF StartupSpec

(***************************************************************************)
(* A signal ends the program at once as long as run has not called          *)
(* notifySignals, so the invariant relates run's place to the child and to  *)
(* the notification: there is no child before the call, and from the call   *)
(* on the only way out is behind a wait for the child.                     *)
(***************************************************************************)
ChildKept ==
  /\ upc \in {"prepare", "detect", "watch", "collect", "render", "notify",
              "spawn"} => daemon = "none"
  /\ upc \in {"spawn", "admin", "certs", "reap"} => notified
  /\ NoOrphan

\* However the start ends, no varnishd outlives the program (Start,
\* loadInitialTLSCerts, the place of notifySignals in run).
THEOREM ChildNeverOrphaned == StartupSpec => []NoOrphan
  <1>1. StartupInit => ChildKept
    BY DEF StartupInit, ChildKept, NoOrphan
  <1>2. StartupTypeOK /\ ChildKept /\ [StartupNext]_startupVars => ChildKept'
    <2> SUFFICES ASSUME StartupTypeOK, ChildKept, [StartupNext]_startupVars
                 PROVE  ChildKept'
      OBVIOUS
    <2> USE DEF ChildKept, NoOrphan, watchVars, childVars
    <2>1. CASE Prepare \/ DetectVersion \/ StartWatchers \/ RenderInitial
      BY <2>1 DEF Prepare, DetectVersion, StartWatchers, RenderInitial
    <2>2. CASE NotifySignals \/ Spawn \/ AdminAnswers
      BY <2>2 DEF NotifySignals, Spawn, AdminAnswers
    <2>3. CASE AdminGivesUp \/ LoadInitialCertFails
      BY <2>3 DEF AdminGivesUp, LoadInitialCertFails, KillAndWait
    <2>4. CASE LoadInitialCert \/ Reaped \/ EnterLoop
      BY <2>4 DEF LoadInitialCert, Reaped, EnterLoop
    <2>5. CASE Collect1 \/ AwaitInitial
      BY <2>5 DEF Collect1, AwaitInitial
    <2>6. ASSUME NEW s \in Sources, SourceSends(s) \/ SourceFails(s)
          PROVE  ChildKept'
      BY <2>6 DEF SourceSends, SourceFails
    <2>7. CASE DaemonExits
      BY <2>7 DEF DaemonExits
    <2>8. CASE SignalArrives
      BY <2>8 DEF SignalArrives, StartupTypeOK
    <2>9. CASE UNCHANGED startupVars
      BY <2>9 DEF startupVars
    <2> QED
      BY <2>1, <2>2, <2>3, <2>4, <2>5, <2>6, <2>7, <2>8, <2>9
         DEF StartupNext, RunStep
  <1>3. ChildKept => NoOrphan
    BY DEF ChildKept
  <1> QED
    BY <1>1, <1>2, <1>3, StartupTypes, PTL DEF StartupSpec
-----------------------------------------------------------------------------
(* Debounce.                                                               *)

\* resetDebounce sets a group's timer to the debounce time or to what is left
\* until its deadline, and never beyond either.
LEMMA TimerSet ==
  ASSUME DebounceTypeOK, NEW g \in Groups, DebounceEvent(g)
  PROVE  /\ DebounceTypeOK'
         /\ \A h \in Groups \ {g} :
              /\ timer'[h] = timer[h] /\ room'[h] = room[h]
              /\ capped'[h] = capped[h]
              /\ quiet'[h] = quiet[h] /\ age'[h] = age[h]
         /\ room'[g] = Remaining(g)
         /\ timer'[g] = IF debounceMax > 0 /\ Remaining(g) < DebounceTime
                        THEN Remaining(g) ELSE DebounceTime
         /\ capped'[g] = (debounceMax > 0 /\ Remaining(g) < DebounceTime)
         /\ quiet'[g] = 0
         /\ age'[g] = IF Armed(g) THEN age[g] ELSE 0
         /\ debounceMax' = debounceMax
  <1>1. Remaining(g) \in 0..debounceMax /\ debounceMax \in Nat
    BY DebounceAssumption DEF DebounceTypeOK, Remaining
  <1>2. DebounceTypeOK'
    BY <1>1, DebounceAssumption
       DEF DebounceTypeOK, DebounceEvent, NoTimer, Horizon
  <1> QED
    BY <1>1, <1>2 DEF DebounceTypeOK, DebounceEvent

\* A tick takes one off every running timer and deadline that is not due.
LEMMA ClockTicks ==
  ASSUME DebounceTypeOK, Tick
  PROVE  /\ DebounceTypeOK'
         /\ debounceMax' = debounceMax /\ capped' = capped
         /\ \A g \in Groups :
              /\ timer'[g] = IF timer[g] > 0 THEN timer[g] - 1 ELSE timer[g]
              /\ room'[g] = IF room[g] > 0 THEN room[g] - 1 ELSE 0
              /\ Armed(g) => /\ quiet'[g] = Shorter(quiet[g] + 1, Horizon)
                             /\ age'[g] = Shorter(age[g] + 1, Horizon)
  <1>1. debounceMax \in Nat /\ DebounceTime \in Nat
    BY DebounceAssumption DEF DebounceTypeOK
  <1>2. Horizon' = Horizon /\ Horizon \in Nat
    BY <1>1 DEF Tick, Horizon
  <1>3. DebounceTypeOK'
    BY <1>1, <1>2 DEF DebounceTypeOK, Tick, Shorter, NoTimer
  <1> QED
    BY <1>1, <1>3 DEF Tick

\* The timers, the deadlines and the clocks keep their types.
THEOREM DebounceTypes == DebounceSpec => []DebounceTypeOK
  <1>1. DebounceInit => DebounceTypeOK
    BY DebounceAssumption DEF DebounceInit, DebounceTypeOK, NoTimer, Horizon
  <1>2. DebounceTypeOK /\ [DebounceNext]_debounceVars => DebounceTypeOK'
    <2> SUFFICES ASSUME DebounceTypeOK, [DebounceNext]_debounceVars
                 PROVE  DebounceTypeOK'
      OBVIOUS
    <2>1. ASSUME NEW g \in Groups, DebounceFires(g)
          PROVE  DebounceTypeOK'
      BY <2>1, DebounceAssumption
         DEF DebounceTypeOK, DebounceFires, NoTimer, Horizon
    <2>2. CASE UNCHANGED debounceVars
      BY <2>2 DEF DebounceTypeOK, debounceVars, Horizon
    <2> QED
      BY <2>1, <2>2, TimerSet, ClockTicks DEF DebounceNext
  <1> QED
    BY <1>1, <1>2, PTL DEF DebounceSpec

(***************************************************************************)
(* The group's own time is what the code never sees, so the invariant ties  *)
(* each number the code keeps to it: the deadline to the age of the burst,  *)
(* a timer that was not shortened to the quiet time, and a shortened one to *)
(* the deadline, which then comes before the end of the quiet time.         *)
(***************************************************************************)
OnTime(g) ==
  /\ IF age[g] < debounceMax THEN room[g] = debounceMax - age[g]
                             ELSE room[g] = 0
  /\ ~capped[g] =>
       /\ IF quiet[g] < DebounceTime THEN timer[g] = DebounceTime - quiet[g]
                                     ELSE timer[g] = 0
       /\ debounceMax > 0 => timer[g] <= room[g]
  /\ capped[g] =>
       /\ debounceMax > 0
       /\ timer[g] = room[g]
       /\ timer[g] > 0 => timer[g] + quiet[g] < DebounceTime

\* A group is due as soon as it has been quiet for the debounce time or its
\* burst is debounceMax old, and never sooner, however events and the reloads
\* of other groups follow each other (resetDebounce).
THEOREM EveryGroupDueInTime == DebounceSpec => []DueInTime
  <1> DEFINE Inv == \A g \in Groups : Armed(g) => OnTime(g)
  <1>1. DebounceInit => Inv
    BY DEF DebounceInit, Armed
  <1>2. DebounceTypeOK /\ Inv /\ [DebounceNext]_debounceVars => Inv'
    <2> SUFFICES ASSUME DebounceTypeOK, Inv, [DebounceNext]_debounceVars,
                        NEW g \in Groups, Armed(g)'
                 PROVE  OnTime(g)'
      BY DEF Armed
    <2>0. /\ debounceMax \in Nat /\ DebounceTime \in Nat
          /\ timer[g] \in {NoTimer} \cup 0..DebounceTime
          /\ room[g] \in 0..debounceMax /\ capped[g] \in BOOLEAN
          /\ quiet[g] \in Nat /\ age[g] \in Nat
          /\ quiet[g] <= Horizon /\ age[g] <= Horizon
      BY DebounceAssumption DEF DebounceTypeOK, Horizon
    <2>1. ASSUME NEW h \in Groups, DebounceEvent(h)
          PROVE  OnTime(g)'
      <3>1. CASE g = h
        <4>1. /\ room'[g] = Remaining(g) /\ quiet'[g] = 0
              /\ age'[g] = IF Armed(g) THEN age[g] ELSE 0
              /\ debounceMax' = debounceMax
          BY <2>1, <3>1, TimerSet
        <4>2. IF age'[g] < debounceMax' THEN room'[g] = debounceMax' - age'[g]
                                        ELSE room'[g] = 0
          BY <2>0, <4>1 DEF OnTime, Remaining
        <4>3. Remaining(g) \in Nat
          BY <2>0 DEF Remaining
        <4>4. CASE debounceMax > 0 /\ Remaining(g) < DebounceTime
          <5>1. timer'[g] = Remaining(g) /\ capped'[g]
            BY <2>1, <3>1, <4>4, TimerSet
          <5> QED
            BY <2>0, <4>1, <4>2, <4>3, <4>4, <5>1 DEF OnTime
        <4>5. CASE ~(debounceMax > 0 /\ Remaining(g) < DebounceTime)
          <5>1. timer'[g] = DebounceTime /\ ~capped'[g]
            BY <2>1, <3>1, <4>5, TimerSet
          <5> QED
            BY <2>0, <4>1, <4>2, <4>3, <4>5, <5>1 DEF OnTime
        <4> QED
          BY <4>4, <4>5
      <3>2. CASE g # h
        BY <2>1, <3>2, TimerSet DEF OnTime, Armed
      <3> QED BY <3>1, <3>2
    <2>2. ASSUME NEW h \in Groups, DebounceFires(h)
          PROVE  OnTime(g)'
      BY <2>2 DEF DebounceFires, Armed
    <2>3. CASE Tick
      <3>1. Armed(g) /\ OnTime(g)
        BY <2>0, <2>3, ClockTicks DEF Armed, NoTimer
      <3>2. /\ timer'[g] = IF timer[g] > 0 THEN timer[g] - 1 ELSE timer[g]
            /\ room'[g] = IF room[g] > 0 THEN room[g] - 1 ELSE 0
            /\ quiet'[g] = Shorter(quiet[g] + 1, Horizon)
            /\ age'[g] = Shorter(age[g] + 1, Horizon)
            /\ capped'[g] = capped[g] /\ debounceMax' = debounceMax
        BY <2>3, <3>1, ClockTicks
      <3>3. timer[g] \in Nat
        BY <2>0, <3>1 DEF Armed
      <3>4. /\ age'[g] < debounceMax <=> age[g] + 1 < debounceMax
            /\ age'[g] < debounceMax => age'[g] = age[g] + 1
            /\ quiet'[g] < DebounceTime <=> quiet[g] + 1 < DebounceTime
            /\ quiet'[g] <= quiet[g] + 1
            /\ quiet'[g] < DebounceTime => quiet'[g] = quiet[g] + 1
            /\ quiet'[g] \in Nat /\ age'[g] \in Nat
        BY <2>0, <3>2 DEF Shorter, Horizon
      <3> HIDE DEF Inv
      <3>5. CASE capped[g]
        BY <2>0, <3>1, <3>2, <3>3, <3>4, <3>5 DEF OnTime
      <3>6. CASE ~capped[g]
        BY <2>0, <3>1, <3>2, <3>3, <3>4, <3>6 DEF OnTime
      <3> QED BY <3>5, <3>6
    <2>4. CASE UNCHANGED debounceVars
      BY <2>4 DEF debounceVars, OnTime, Armed
    <2> QED
      BY <2>1, <2>2, <2>3, <2>4 DEF DebounceNext
  <1>3. DebounceTypeOK /\ Inv => DueInTime
    <2> SUFFICES ASSUME DebounceTypeOK, NEW g \in Groups, Armed(g), OnTime(g)
                 PROVE  LET late == debounceMax > 0 /\ age[g] >= debounceMax
                        IN  /\ timer[g] = 0 <=>
                                 quiet[g] >= DebounceTime \/ late
                            /\ capped[g] /\ timer[g] = 0 => late
      BY DEF DueInTime
    <2>1. /\ debounceMax \in Nat /\ DebounceTime \in Nat
          /\ timer[g] \in 0..DebounceTime
          /\ room[g] \in Nat /\ capped[g] \in BOOLEAN
          /\ quiet[g] \in Nat /\ age[g] \in Nat
      BY DebounceAssumption DEF DebounceTypeOK, Horizon, Armed
    <2> QED
      BY <2>1 DEF OnTime
  <1> QED
    BY <1>1, <1>2, <1>3, DebounceTypes, PTL DEF DebounceSpec
-----------------------------------------------------------------------------
(* Broadcast.                                                              *)

\* The keys of a response are as many as the pods: no answer takes the place
\* of another (fanoutKeys).
LEMMA KeysTellApart ==
  ASSUME NEW fs \in FrontendLists \cup {<<>>}
  PROVE  Cardinality(fanoutKeys(fs)) = Len(fs)
  <1> DEFINE key == [i \in 1..Len(fs) |-> Key(fs, i)]
  <1>1. Len(fs) \in Nat /\ DOMAIN fs = 1..Len(fs)
    BY BroadcastAssumption
  <1>2. ASSUME NEW i \in 1..Len(fs), NEW j \in 1..Len(fs), i < j
        PROVE  Key(fs, i) # Key(fs, j)
    <2>1. CASE BaseKey(fs, i) = BaseKey(fs, j)
      <3>1. Key(fs, j)[2] = j
        BY <1>1, <1>2, <2>1 DEF Key
      <3>2. Key(fs, i)[2] \in {0, i}
        BY DEF Key
      <3> QED BY <1>1, <1>2, <3>1, <3>2
    <2>2. CASE BaseKey(fs, i) # BaseKey(fs, j)
      BY <2>2 DEF Key
    <2> QED BY <2>1, <2>2
  <1>3. \A i, j \in 1..Len(fs) : key[i] = key[j] => i = j
    <2> SUFFICES ASSUME NEW i \in 1..Len(fs), NEW j \in 1..Len(fs), i # j
                 PROVE  Key(fs, i) # Key(fs, j)
      OBVIOUS
    <2>1. i < j \/ j < i
      BY <1>1
    <2> QED BY <1>2, <2>1
  <1>4. key \in Bijection(1..Len(fs), fanoutKeys(fs))
    BY <1>1, <1>3
       DEF fanoutKeys, Bijection, Injection, Surjection, IsInjective
  <1> QED
    BY <1>1, <1>4, FS_CountingElements DEF ExistsBijection

OpenConns == {c \in Conns : conn[c] \in {"idle", "request", "closed"}}

(***************************************************************************)
(* connState counts what is open: a connection is taken off in the callback *)
(* of its end, which for the last one goes on to look at the flag.  With    *)
(* the flag stored before Drain reads the count, one of the two sees the    *)
(* other.                                                                  *)
(***************************************************************************)
ConnsCounted ==
  /\ BroadcastTypeOK
  /\ conns = Cardinality(OpenConns)
  /\ dpc # "serving" => draining
  /\ DrainToldInTime

\* What a connection reports is the fan-out it was asked for, whole.
FanoutWhole(c) ==
  IF conn[c] = "request"
  THEN results[c] = {}
  ELSE results[c] = fanoutKeys(targets[c]) /\ contacted[c] = DOMAIN targets[c]

\* A step that neither opens nor counts down a connection leaves the set of
\* the open ones as it is.
LEMMA OpenUnchanged ==
  ASSUME NEW c \in Conns, NEW state, BroadcastTypeOK, Become(c, state),
         conn[c] \in {"idle", "request", "closed"}
           <=> state \in {"idle", "request", "closed"}
  PROVE  OpenConns' = OpenConns
  <1>1. /\ conn' \in [Conns -> ConnStates \cup {state}]
        /\ \A d \in Conns : conn'[d] = IF d = c THEN state ELSE conn[d]
    BY DEF Become, BroadcastTypeOK
  <1> QED
    BY <1>1 DEF OpenConns

\* Nothing is open at first.
LEMMA CountedInit == BroadcastInit => ConnsCounted
  <1> SUFFICES ASSUME BroadcastInit PROVE ConnsCounted
    OBVIOUS
  <1>1. OpenConns = {}
    BY DEF BroadcastInit, OpenConns
  <1>2. Cardinality(Conns) \in Nat /\ Cardinality(OpenConns) = 0
    BY <1>1, BroadcastAssumption, FS_EmptySet, FS_CardinalityType
  <1>3. /\ contacted \in [Conns -> SUBSET Nat]
        /\ targets \in [Conns -> FrontendLists \cup {<<>>}]
        /\ \A c \in Conns : contacted[c] \subseteq DOMAIN targets[c]
        /\ results \in [Conns -> {{}} \cup {fanoutKeys(fs) : fs \in FrontendLists}]
        /\ conn \in [Conns -> ConnStates]
    BY DEF BroadcastInit, ConnStates
  <1>4. conns = Cardinality(OpenConns) /\ conns \in 0..Cardinality(Conns)
    BY <1>2 DEF BroadcastInit
  <1>5. BroadcastTypeOK
    BY <1>3, <1>4 DEF BroadcastInit, BroadcastTypeOK
  <1> QED
    BY <1>4, <1>5 DEF BroadcastInit, ConnsCounted, DrainToldInTime

\* Every connection is counted while it is open, and Drain is told in time.
LEMMA CountedStep == ConnsCounted /\ [BroadcastNext]_broadcastVars => ConnsCounted'
  <1> SUFFICES ASSUME ConnsCounted, [BroadcastNext]_broadcastVars
               PROVE  ConnsCounted'
    OBVIOUS
  <1> USE DEF ConnsCounted
  <1>1. /\ IsFiniteSet(OpenConns) /\ conns \in Nat
        /\ Cardinality(OpenConns') <= Cardinality(Conns)
        /\ Cardinality(OpenConns') \in Nat
        /\ IsFiniteSet(Conns) /\ Cardinality(Conns) \in Nat
    BY BroadcastAssumption, FS_Subset, FS_CardinalityType
       DEF OpenConns, BroadcastTypeOK
  <1>2. ASSUME NEW fs \in FrontendLists, SetFrontends(fs)
        PROVE  ConnsCounted'
    BY <1>2 DEF SetFrontends, BroadcastTypeOK, OpenConns, DrainToldInTime
  <1>3. ASSUME NEW c \in Conns, Accept(c)
        PROVE  ConnsCounted'
    <2>1. /\ conn' \in [Conns -> ConnStates]
          /\ \A d \in Conns : conn'[d] = IF d = c THEN "idle" ELSE conn[d]
      BY <1>3 DEF Accept, Become, BroadcastTypeOK, ConnStates
    <2>2. OpenConns' = OpenConns \cup {c} /\ c \notin OpenConns
      BY <1>3, <2>1 DEF OpenConns, Accept
    <2>3. Cardinality(OpenConns') = Cardinality(OpenConns) + 1
      BY <1>1, <2>2, FS_AddElement
    <2>4. conns' = Cardinality(OpenConns') /\ conns' # 0
      BY <1>1, <1>3, <2>3 DEF Accept
    <2> QED
      BY <1>1, <1>3, <2>1, <2>4 DEF Accept, BroadcastTypeOK, DrainToldInTime
  <1>4. ASSUME NEW c \in Conns, Request(c)
        PROVE  ConnsCounted'
    <2>1. OpenConns' = OpenConns /\ conn' \in [Conns -> ConnStates]
          /\ \A d \in Conns : conn[d] = "counted" => conn'[d] = "counted"
      BY <1>4, OpenUnchanged DEF Request, BroadcastTypeOK, Become, ConnStates
    <2>2. /\ targets' \in [Conns -> FrontendLists \cup {<<>>}]
          /\ contacted' \in [Conns -> SUBSET Nat]
          /\ \A d \in Conns : contacted'[d] \subseteq DOMAIN targets'[d]
          /\ results' \in [Conns -> {{}} \cup {fanoutKeys(fs) : fs \in FrontendLists}]
      BY <1>4 DEF Request, BroadcastTypeOK
    <2> QED
      BY <1>4, <2>1, <2>2 DEF Request, BroadcastTypeOK, DrainToldInTime
  <1>5. ASSUME NEW c \in Conns, NEW i \in DOMAIN targets[c], Forwarded(c, i)
        PROVE  ConnsCounted'
    <2>1. i \in Nat
      BY BroadcastAssumption DEF BroadcastTypeOK
    <2>2. /\ contacted' \in [Conns -> SUBSET Nat]
          /\ \A d \in Conns : contacted'[d] \subseteq DOMAIN targets[d]
      BY <1>5, <2>1 DEF Forwarded, BroadcastTypeOK
    <2> QED
      BY <1>5, <2>2 DEF Forwarded, BroadcastTypeOK, OpenConns, DrainToldInTime
  <1>6. ASSUME NEW c \in Conns, ClientLeaves(c)
        PROVE  ConnsCounted'
    BY <1>6 DEF ClientLeaves, BroadcastTypeOK, OpenConns, DrainToldInTime
  <1>7. ASSUME NEW c \in Conns, Respond(c)
        PROVE  ConnsCounted'
    <2> DEFINE state == IF draining \/ c \in left THEN "closed" ELSE "idle"
    <2>1. OpenConns' = OpenConns /\ conn' \in [Conns -> ConnStates]
          /\ \A d \in Conns : conn[d] = "counted" => conn'[d] = "counted"
      <3>1. Become(c, state) /\ conn[c] = "request"
        BY <1>7 DEF Respond
      <3>2. state \in {"idle", "closed"}
        OBVIOUS
      <3> QED
        BY <3>1, <3>2, OpenUnchanged DEF BroadcastTypeOK, Become, ConnStates
    <2>2. fanoutKeys(targets[c]) \in {{}} \cup {fanoutKeys(fs) : fs \in FrontendLists}
      <3>1. fanoutKeys(<<>>) = {}
        BY DEF fanoutKeys
      <3> QED
        BY <3>1 DEF BroadcastTypeOK
    <2>3. results' \in [Conns -> {{}} \cup {fanoutKeys(fs) : fs \in FrontendLists}]
      BY <1>7, <2>2 DEF Respond, BroadcastTypeOK
    <2> QED
      BY <1>7, <2>1, <2>3 DEF Respond, BroadcastTypeOK, DrainToldInTime
  <1>8. ASSUME NEW c \in Conns, CloseIdle(c)
        PROVE  ConnsCounted'
    <2>1. OpenConns' = OpenConns /\ conn' \in [Conns -> ConnStates]
          /\ \A d \in Conns : conn[d] = "counted" => conn'[d] = "counted"
      BY <1>8, OpenUnchanged DEF CloseIdle, BroadcastTypeOK, Become, ConnStates
    <2> QED
      BY <1>8, <2>1 DEF CloseIdle, BroadcastTypeOK, DrainToldInTime
  <1>9. ASSUME NEW c \in Conns, CountDown(c)
        PROVE  ConnsCounted'
    <2> DEFINE state == IF conns' <= 0 THEN "counted" ELSE "gone"
    <2>1. /\ conn' \in [Conns -> ConnStates]
          /\ \A d \in Conns : conn'[d] = IF d = c THEN state ELSE conn[d]
      BY <1>9 DEF CountDown, Become, BroadcastTypeOK, ConnStates
    <2>2. OpenConns' = OpenConns \ {c} /\ c \in OpenConns
      BY <1>9, <2>1 DEF OpenConns, CountDown
    <2>3. Cardinality(OpenConns') = Cardinality(OpenConns) - 1
      BY <1>1, <2>2, FS_RemoveElement
    <2>4. conns' = Cardinality(OpenConns') /\ (conns' = 0 => conn'[c] = "counted")
      BY <1>1, <1>9, <2>1, <2>3 DEF CountDown
    <2> QED
      BY <1>1, <1>9, <2>1, <2>4 DEF CountDown, BroadcastTypeOK, DrainToldInTime
  <1>10. ASSUME NEW c \in Conns, CheckFlag(c)
         PROVE  ConnsCounted'
    <2>1. OpenConns' = OpenConns /\ conn' \in [Conns -> ConnStates]
      BY <1>10, OpenUnchanged DEF CheckFlag, BroadcastTypeOK, Become, ConnStates
    <2>2. dpc = "wait" => connsDrained'
      BY <1>10 DEF CheckFlag
    <2> QED
      BY <1>10, <2>1, <2>2 DEF CheckFlag, BroadcastTypeOK, DrainToldInTime
  <1>11. CASE DrainStarts
    <2>1. OpenConns' = OpenConns
      BY <1>11 DEF DrainStarts, OpenConns
    <2>2. dpc = "check" /\ conns = 0 => connsDrained'
      <3>1. conns = 0 => conns <= 0
        OBVIOUS
      <3>2. dpc = "check" => connsDrained' = (connsDrained \/ conns <= 0)
        BY <1>11 DEF DrainStarts
      <3> QED BY <3>1, <3>2, Zenon
    <2>3. DrainToldInTime' /\ (dpc' # "serving" => draining')
      BY <1>11, <2>2 DEF DrainStarts, DrainToldInTime
    <2>4. connsDrained' \in BOOLEAN /\ draining' \in BOOLEAN
      BY <1>11 DEF DrainStarts, BroadcastTypeOK
    <2> QED
      BY <1>11, <2>1, <2>3, <2>4 DEF DrainStarts, BroadcastTypeOK
  <1>12. CASE DrainWaited \/ DrainOver
    BY <1>12 DEF DrainWaited, DrainOver, BroadcastTypeOK, OpenConns, DrainToldInTime
  <1>13. CASE UNCHANGED broadcastVars
    BY <1>13 DEF broadcastVars, BroadcastTypeOK, OpenConns, DrainToldInTime
  <1> QED
    BY <1>2, <1>3, <1>4, <1>5, <1>6, <1>7, <1>8, <1>9, <1>10, <1>11, <1>12,
       <1>13 DEF BroadcastNext

\* A connection that is not answering a request has reported its last one
\* whole: the fan-out does not stop when its client goes away.
LEMMA FanoutStep ==
  ASSUME BroadcastTypeOK, NEW c \in Conns, FanoutWhole(c),
         [BroadcastNext]_broadcastVars
  PROVE  FanoutWhole(c)'
  <1> USE DEF FanoutWhole
  <1>1. ASSUME UNCHANGED <<conn, targets, contacted, results>>
        PROVE  FanoutWhole(c)'
    BY <1>1
  <1>2. ASSUME NEW d \in Conns, NEW state, Become(d, state),
               state # "request", conn[d] # "request",
               UNCHANGED <<targets, contacted, results>>
        PROVE  FanoutWhole(c)'
    BY <1>2 DEF Become, BroadcastTypeOK
  <1>3. ASSUME NEW d \in Conns, Accept(d) \/ CloseIdle(d)
        PROVE  FanoutWhole(c)'
    BY <1>2, <1>3 DEF Accept, CloseIdle
  <1>4. ASSUME NEW d \in Conns, CountDown(d)
        PROVE  FanoutWhole(c)'
    BY <1>2, <1>4 DEF CountDown
  <1>5. ASSUME NEW d \in Conns, CheckFlag(d)
        PROVE  FanoutWhole(c)'
    BY <1>2, <1>5 DEF CheckFlag
  <1>6. ASSUME NEW d \in Conns, Request(d)
        PROVE  FanoutWhole(c)'
    BY <1>6 DEF Request, Become, BroadcastTypeOK
  <1>7. ASSUME NEW d \in Conns, NEW i \in DOMAIN targets[d], Forwarded(d, i)
        PROVE  FanoutWhole(c)'
    BY <1>7 DEF Forwarded, BroadcastTypeOK
  <1>8. ASSUME NEW d \in Conns, Respond(d)
        PROVE  FanoutWhole(c)'
    <2>1. conn'[d] # "request"
      BY <1>8 DEF Respond, Become, BroadcastTypeOK
    <2>2. d = c => results'[c] = fanoutKeys(targets[c])
      BY <1>8 DEF Respond, BroadcastTypeOK
    <2>3. d # c => conn'[c] = conn[c] /\ results'[c] = results[c]
      BY <1>8 DEF Respond, Become, BroadcastTypeOK
    <2> QED
      BY <1>8, <2>1, <2>2, <2>3 DEF Respond
  <1>9. CASE \/ \E fs \in FrontendLists : SetFrontends(fs)
             \/ \E d \in Conns : ClientLeaves(d)
             \/ DrainStarts \/ DrainWaited \/ DrainOver
             \/ UNCHANGED broadcastVars
    BY <1>1, <1>9 DEF SetFrontends, ClientLeaves, DrainStarts, DrainWaited,
                      DrainOver, broadcastVars
  <1> QED
    BY <1>3, <1>4, <1>5, <1>6, <1>7, <1>8, <1>9 DEF BroadcastNext

\* The broadcast server's variables keep their types, the count of the open
\* connections among them.
THEOREM BroadcastTypes == BroadcastSpec => []BroadcastTypeOK
  <1>1. ConnsCounted => BroadcastTypeOK
    BY DEF ConnsCounted
  <1> QED
    BY <1>1, CountedInit, CountedStep, PTL DEF BroadcastSpec

\* A Drain that waits with no connection open has been told or is about to
\* be, and a broadcast that was answered reached every pod of its list and
\* tells them apart (Drain, connState, forward, fanoutKeys).
THEOREM BroadcastIsSound == BroadcastSpec => []BroadcastSound
  <1> DEFINE Whole == \A c \in Conns : FanoutWhole(c)
  <1>1. BroadcastInit => Whole
    BY DEF BroadcastInit, FanoutWhole, fanoutKeys
  <1>2. BroadcastTypeOK /\ Whole /\ [BroadcastNext]_broadcastVars => Whole'
    BY FanoutStep
  <1>3. ConnsCounted /\ Whole => BroadcastSound
    <2> SUFFICES ASSUME ConnsCounted, Whole, NEW c \in Conns,
                        conn[c] \in {"closed", "counted", "gone"}
                          \/ results[c] # {}
                 PROVE  /\ contacted[c] = DOMAIN targets[c]
                        /\ Cardinality(results[c]) = Len(targets[c])
      BY DEF BroadcastSound, EveryPodReported, ConnsCounted
    <2>1. FanoutWhole(c) /\ targets[c] \in FrontendLists \cup {<<>>}
      BY DEF ConnsCounted, BroadcastTypeOK
    <2> QED
      BY <2>1, KeysTellApart DEF FanoutWhole
  <1> QED
    BY <1>1, <1>2, <1>3, BroadcastTypes, CountedInit, CountedStep, PTL
       DEF BroadcastSpec
-----------------------------------------------------------------------------
(* FileValues.                                                             *)

\* Every name of a volume resolves to its newest generation, and what a pass has
\* read since it looked at the link is of no older one.
PassIsRecent ==
  linked =>
    /\ \A f \in Files : content[f] \in {0, gen}
    /\ before <= gen
    /\ spc = "files" /\ before # 0 =>
         \A f \in Files : pass[f] # 0 => before <= pass[f] /\ pass[f] <= gen

\* A pass accounts for every file that always exists.
Accounts(data, unreadable, rest) ==
  \A f \in Lasting : f \in rest \/ f \in unreadable \/ data[f] # 0

LastingSeen ==
  /\ \A f \in Lasting : f \in visible /\ content[f] # 0
  /\ spc = "files" => Accounts(pass, missed, unread)
  /\ haveSnapshot => Accounts(kept.parsed, kept.unreadable, {})
  /\ ~synced => previous = Nothing

FileInv ==
  DirTypeOK /\ ScanTypeOK /\ SendTypeOK /\ PassIsRecent /\ LastingSeen /\ Untorn

LEMMA NothingTyped == Nothing \in Snapshots
  BY FileAssumption DEF Nothing, Snapshots

Delivers(data, unreadable, undisturbed) ==
  /\ synced' = TRUE /\ previous' \in Snapshots
  /\ \A f \in Files : previous'[f] =
       IF f \in unreadable THEN previous[f] ELSE data[f]
  /\ chan' = {previous'}
  /\ consistent' = undisturbed /\ carried' = unreadable

\* What send may do with a snapshot: deliver it, or leave all as it is.
LEMMA SendStep ==
  ASSUME NEW data \in Snapshots, NEW unreadable \in SUBSET Files,
         NEW undisturbed \in BOOLEAN, Send(data, unreadable, undisturbed),
         SendTypeOK
  PROVE  /\ spc' = "idle"
         /\ UNCHANGED sendVars \/ Delivers(data, unreadable, undisturbed)
  <1> DEFINE filled == [f \in Files |-> IF f \in unreadable THEN previous[f]
                                                            ELSE data[f]]
  <1>1. filled \in Snapshots
    BY DEF Snapshots, SendTypeOK
  <1>2. \A f \in Files :
          filled[f] = IF f \in unreadable THEN previous[f] ELSE data[f]
    OBVIOUS
  <1>3. \/ UNCHANGED sendVars
        \/ /\ synced' = TRUE /\ previous' = filled /\ chan' = {filled}
           /\ consistent' = undisturbed /\ carried' = unreadable
    BY Zenon DEF Send
  <1> HIDE DEF filled
  <1> QED
    BY <1>1, <1>2, <1>3 DEF Send, Delivers

LEMMA SendTypesKept ==
  ASSUME NEW data \in Snapshots, NEW unreadable \in SUBSET Files,
         NEW undisturbed \in BOOLEAN, Send(data, unreadable, undisturbed),
         SendTypeOK, received' = received
  PROVE  SendTypeOK'
  <1>1. CASE UNCHANGED sendVars
    BY <1>1 DEF sendVars, SendTypeOK
  <1>2. CASE /\ synced' = TRUE /\ previous' \in Snapshots
             /\ chan' = {previous'}
             /\ consistent' = undisturbed /\ carried' = unreadable
    <2>1. Cardinality(chan') <= 1
      BY <1>2, FS_Singleton
    <2> QED
      BY <1>2, <2>1 DEF SendTypeOK
  <1> QED
    BY <1>1, <1>2, SendStep DEF Delivers

LEMMA DirTypesKept ==
  ASSUME DirTypeOK, ScanTypeOK, [FileNext]_fileVars
  PROVE  DirTypeOK'
  <1> USE FileAssumption DEF DirTypeOK
  <1>1. CASE Swap
    <2>1. gen' = gen + 1 /\ gen' \in 1..(MaxDirChanges + 1)
      BY <1>1 DEF Swap
    <2>2. PICK S \in SUBSET (Files \ Lasting) :
            content' = [f \in Files |-> IF f \in S \cup Lasting THEN gen' ELSE 0]
      BY <1>1 DEF Swap
    <2>3. content' \in Snapshots
      <3>1. gen' \in 0..(MaxDirChanges + 1) /\ 0 \in 0..(MaxDirChanges + 1)
        BY <2>1
      <3> QED
        BY <2>2, <3>1 DEF Snapshots
    <2>4. UNCHANGED <<linked, visible, readFaults>>
      BY <1>1 DEF Swap, dirRest
    <2> QED
      BY <2>1, <2>3, <2>4
  <1>2. CASE NamesFollow
    BY <1>2 DEF NamesFollow, dirRest
  <1>3. ASSUME NEW f \in Files, EditFile(f) PROVE DirTypeOK'
    <2>1. gen' = gen + 1 /\ gen' \in 1..(MaxDirChanges + 1)
      BY <1>3 DEF EditFile
    <2>2. PICK v \in {gen', 0} : content' = [content EXCEPT ![f] = v]
      BY <1>3 DEF EditFile
    <2>3. content' \in Snapshots
      <3>1. v \in 0..(MaxDirChanges + 1)
        BY <2>1
      <3> QED
        BY <2>2, <3>1 DEF Snapshots
    <2>4. /\ visible' = {g \in Files : content'[g] # 0}
          /\ UNCHANGED <<linked, readFaults>>
      BY <1>3 DEF EditFile, dirRest
    <2> QED
      BY <2>1, <2>3, <2>4
  <1>4. ASSUME UNCHANGED dirVars, UNCHANGED readFaults \/ ReadFault
        PROVE  DirTypeOK'
    <2>1. readFaults' \in 0..MaxReadFaults
      BY <1>4 DEF ReadFault
    <2> QED
      BY <1>4, <2>1 DEF dirVars
  <1>5. CASE Scan
    <2>1. UNCHANGED dirVars /\ (UNCHANGED readFaults \/ ReadFault)
      BY <1>5 DEF Scan, ScanStarts, ReadlinkBefore, ReadDir, ReadDirFails,
                  PassOver, ReadFile, scanRest
    <2> QED
      BY <1>4, <2>1
  <1>6. CASE Receive
    BY <1>4, <1>6 DEF Receive
  <1>7. CASE UNCHANGED fileVars
    BY <1>4, <1>7 DEF fileVars
  <1> QED
    BY <1>1, <1>2, <1>3, <1>5, <1>6, <1>7 DEF FileNext

\* A pass is delivered, or the link is looked at again.
LEMMA PassStep ==
  ASSUME PassOver
  PROVE  /\ spc = "files" /\ unread = {}
         /\ UNCHANGED <<dirVars, received, before, unread, pass, missed>>
         /\ \/ /\ \E stays \in BOOLEAN :
                    /\ stays => before # 0 /\ gen = before
                    /\ Send(pass, missed, stays)
               /\ UNCHANGED <<scanAttempt, kept, haveSnapshot>>
            \/ /\ spc' = "readlink"
               /\ scanAttempt # MaxScanAttempts
               /\ scanAttempt' = scanAttempt + 1
               /\ kept' = [parsed |-> pass, unreadable |-> missed]
               /\ haveSnapshot' = TRUE
               /\ UNCHANGED sendVars
  <1>1. ASSUME NEW stays \in BOOLEAN, stays => before # 0 /\ gen = before,
               PassChecked(stays)
        PROVE  \/ /\ \E x \in BOOLEAN :
                       /\ x => before # 0 /\ gen = before
                       /\ Send(pass, missed, x)
                  /\ UNCHANGED <<scanAttempt, kept, haveSnapshot>>
               \/ /\ spc' = "readlink"
                  /\ scanAttempt # MaxScanAttempts
                  /\ scanAttempt' = scanAttempt + 1
                  /\ kept' = [parsed |-> pass, unreadable |-> missed]
                  /\ haveSnapshot' = TRUE
                  /\ UNCHANGED sendVars
    BY <1>1, Zenon DEF PassChecked
  <1>2. CASE before = 0 /\ Send(pass, missed, FALSE)
             /\ UNCHANGED <<scanAttempt, kept, haveSnapshot, readFaults>>
    BY <1>2 DEF PassOver, scanRest
  <1>3. CASE before # 0 /\ PassChecked(gen = before)
    <2>1. (gen = before) \in BOOLEAN
      OBVIOUS
    <2> QED
      BY <1>1, <1>3, <2>1 DEF PassOver, scanRest
  <1>4. CASE before # 0 /\ PassChecked(FALSE)
    BY <1>1, <1>4 DEF PassOver, scanRest
  <1> QED
    BY <1>2, <1>3, <1>4 DEF PassOver

LEMMA ScanTypesKept ==
  ASSUME DirTypeOK, ScanTypeOK, SendTypeOK, [FileNext]_fileVars
  PROVE  ScanTypeOK' /\ SendTypeOK'
  <1> USE FileAssumption DEF ScanTypeOK
  <1>1. CASE \/ Swap \/ NamesFollow \/ (\E f \in Files : EditFile(f))
             \/ UNCHANGED fileVars
    BY <1>1 DEF Swap, NamesFollow, EditFile, dirRest, fileVars, sendVars,
                SendTypeOK
  <1>2. CASE ScanStarts
    <2>1. kept' \in [parsed : Snapshots, unreadable : SUBSET Files]
      BY <1>2, NothingTyped DEF ScanStarts
    <2>2. 1 \in 0..MaxScanAttempts
      OBVIOUS
    <2> QED
      BY <1>2, <2>1, <2>2 DEF ScanStarts, scanRest, sendVars, SendTypeOK
  <1>3. CASE ReadlinkBefore
    <2>1. before' \in 0..(MaxDirChanges + 1)
      BY <1>3 DEF ReadlinkBefore, DirTypeOK
    <2> QED
      BY <1>3, <2>1 DEF ReadlinkBefore, scanRest, sendVars, SendTypeOK
  <1>4. CASE ReadDir
    BY <1>4, NothingTyped DEF ReadDir, DirTypeOK, scanRest, sendVars, SendTypeOK
  <1>5. CASE ReadDirFails
    <2>1. /\ kept.parsed \in Snapshots /\ kept.unreadable \in SUBSET Files
          /\ received' = received
      BY <1>5 DEF ReadDirFails, scanRest
    <2>2. CASE Send(kept.parsed, kept.unreadable, FALSE)
      <3>1. SendTypeOK' /\ spc' = "idle"
        BY <2>1, <2>2, SendTypesKept, SendStep
      <3> QED
        BY <1>5, <3>1 DEF ReadDirFails
    <2>3. CASE spc' = "idle" /\ UNCHANGED sendVars
      BY <1>5, <2>1, <2>3 DEF ReadDirFails, sendVars, SendTypeOK
    <2> QED
      BY <1>5, <2>2, <2>3 DEF ReadDirFails
  <1>6. ASSUME NEW f \in unread, ReadFile(f) PROVE ScanTypeOK' /\ SendTypeOK'
    <2>1. f \in Files /\ content[f] \in 0..(MaxDirChanges + 1)
      BY DEF DirTypeOK, Snapshots
    <2>2. pass' \in Snapshots
      <3>1. pass' = pass \/ pass' = [pass EXCEPT ![f] = content[f]]
        BY <1>6 DEF ReadFile
      <3> QED
        BY <2>1, <3>1 DEF Snapshots
    <2>3. missed' \subseteq Files /\ unread' \subseteq Files
      BY <1>6 DEF ReadFile
    <2> QED
      BY <1>6, <2>2, <2>3 DEF ReadFile, scanRest, sendVars, SendTypeOK
  <1>7. CASE PassOver
    <2>1. CASE /\ \E stays \in BOOLEAN : Send(pass, missed, stays)
               /\ UNCHANGED <<scanAttempt, kept, haveSnapshot>>
      <3>1. SendTypeOK' /\ spc' = "idle"
        <4>1. PICK stays \in BOOLEAN : Send(pass, missed, stays)
          BY <2>1
        <4>2. received' = received
          BY <1>7, PassStep
        <4>3. pass \in Snapshots /\ missed \in SUBSET Files
          OBVIOUS
        <4>4. SendTypeOK'
          BY <4>1, <4>2, <4>3, SendTypesKept
        <4> QED
          BY <4>1, <4>4 DEF Send
      <3> QED
        BY <1>7, <2>1, <3>1, PassStep
    <2>2. CASE /\ spc' = "readlink"
               /\ scanAttempt # MaxScanAttempts
               /\ scanAttempt' = scanAttempt + 1
               /\ kept' = [parsed |-> pass, unreadable |-> missed]
               /\ haveSnapshot' = TRUE
               /\ UNCHANGED sendVars
      <3>1. /\ UNCHANGED <<received, before, unread, pass, missed>>
            /\ scanAttempt' \in 0..MaxScanAttempts
        BY <1>7, <2>2, PassStep
      <3>2. SendTypeOK'
        BY <2>2, <3>1 DEF sendVars, SendTypeOK
      <3> QED
        BY <2>2, <3>1, <3>2
    <2> QED
      BY <1>7, <2>1, <2>2, PassStep
  <1>8. CASE Receive
    <2>1. Cardinality(chan') <= 1
      BY <1>8, FS_EmptySet DEF Receive
    <2> QED
      BY <1>8, <2>1 DEF Receive, SendTypeOK
  <1> QED
    BY <1>1, <1>2, <1>3, <1>4, <1>5, <1>6, <1>7, <1>8 DEF FileNext, Scan

LEMMA RecentKept ==
  ASSUME DirTypeOK, ScanTypeOK, SendTypeOK, PassIsRecent, [FileNext]_fileVars
  PROVE  PassIsRecent'
  <1> USE DEF PassIsRecent
  <1>0. gen \in Nat /\ before \in Nat
    BY FileAssumption DEF DirTypeOK, ScanTypeOK
  <1>1. CASE Swap
    <2>1. /\ gen' = gen + 1
          /\ \A f \in Files : content'[f] \in {0, gen'}
      BY <1>1 DEF Swap
    <2>2. UNCHANGED <<linked, spc, before, pass>>
      BY <1>1 DEF Swap, dirRest
    <2>3. \A f \in Files : pass[f] \in Nat
      BY FileAssumption DEF ScanTypeOK, Snapshots
    <2>4. linked => before <= gen'
      BY <1>0, <2>1
    <2>5. linked /\ spc = "files" /\ before # 0 =>
            \A f \in Files : pass[f] # 0 => before <= pass[f] /\ pass[f] <= gen'
      BY <1>0, <2>1, <2>3
    <2> QED
      BY <2>1, <2>2, <2>4, <2>5
  <1>2. CASE NamesFollow \/ Receive \/ UNCHANGED fileVars
    BY <1>2 DEF NamesFollow, Receive, dirRest, fileVars, dirVars
  <1>3. ASSUME NEW f \in Files, EditFile(f) PROVE PassIsRecent'
    BY <1>3 DEF EditFile, dirRest
  <1>4. CASE ScanStarts \/ ReadlinkBefore
    <2>1. UNCHANGED <<linked, content, gen>> /\ spc' # "files"
      BY <1>4 DEF ScanStarts, ReadlinkBefore, scanRest, dirVars
    <2>2. before' \in {before, gen, 0}
      BY <1>4 DEF ScanStarts, ReadlinkBefore
    <2> QED
      BY <1>0, <2>1, <2>2
  <1>5. CASE ReadDir
    BY <1>0, <1>5 DEF ReadDir, Nothing, scanRest, dirVars
  <1>6. CASE ReadDirFails \/ PassOver
    <2>1. spc' # "files"
      <3>1. CASE PassOver
        BY <3>1, PassStep DEF Send
      <3>2. CASE ReadDirFails
        BY <3>2 DEF ReadDirFails, Send
      <3> QED
        BY <1>6, <3>1, <3>2
    <2>2. UNCHANGED <<linked, content, gen, before>>
      BY <1>6 DEF ReadDirFails, PassOver, scanRest, dirVars
    <2> QED
      BY <2>1, <2>2
  <1>7. ASSUME NEW f \in unread, ReadFile(f) PROVE PassIsRecent'
    <2>1. UNCHANGED <<linked, content, gen, before, spc>>
      BY <1>7 DEF ReadFile, scanRest, dirVars
    <2>2. spc = "files" /\ f \in Files
      BY <1>7 DEF ReadFile, ScanTypeOK
    <2>3. pass' = pass \/ pass' = [pass EXCEPT ![f] = content[f]]
      BY <1>7 DEF ReadFile
    <2>4. linked /\ before # 0 =>
            \A g \in Files : pass'[g] # 0 => before <= pass'[g] /\ pass'[g] <= gen
      <3>1. CASE pass' = pass
        BY <2>2, <3>1
      <3>2. CASE pass' = [pass EXCEPT ![f] = content[f]]
        <4>1. \A g \in Files : pass'[g] = IF g = f THEN content[f] ELSE pass[g]
          BY <3>2 DEF ScanTypeOK, Snapshots
        <4>2. linked /\ content[f] # 0 => before <= content[f] /\ content[f] <= gen
          BY <1>0, <2>2
        <4> QED
          BY <2>2, <4>1, <4>2
      <3> QED
        BY <2>3, <3>1, <3>2
    <2> QED
      BY <2>1, <2>4
  <1> QED
    BY <1>1, <1>2, <1>3, <1>4, <1>5, <1>6, <1>7 DEF FileNext, Scan

LEMMA LastingKept ==
  ASSUME DirTypeOK, ScanTypeOK, SendTypeOK, LastingSeen, [FileNext]_fileVars
  PROVE  /\ LastingSeen'
         /\ \A f \in Lasting : previous[f] # 0 => previous'[f] # 0
  <1> DEFINE Wipes == \E f \in Lasting : previous[f] # 0 /\ previous'[f] = 0
  <1> USE DEF LastingSeen, Accounts
  <1>0. Lasting \subseteq Files
    BY FileAssumption
  \* What send does with a snapshot that accounts for the lasting files.
  <1>1. ASSUME NEW data \in Snapshots, NEW unreadable \in SUBSET Files,
               NEW undisturbed \in BOOLEAN, Send(data, unreadable, undisturbed),
               Accounts(data, unreadable, {}) \/ previous = Nothing
        PROVE  ~Wipes /\ (~synced' => previous' = Nothing) /\ spc' = "idle"
    <2>1. /\ spc' = "idle"
          /\ \/ UNCHANGED sendVars
             \/ /\ synced' = TRUE
                /\ \A f \in Files : previous'[f] =
                     IF f \in unreadable THEN previous[f] ELSE data[f]
      <3> HIDE DEF LastingSeen, Accounts
      <3>1. /\ spc' = "idle"
            /\ UNCHANGED sendVars \/ Delivers(data, unreadable, undisturbed)
        BY <1>1, SendStep
      <3> QED
        BY <3>1 DEF Delivers
    <2>2. previous = Nothing => \A f \in Lasting : previous[f] = 0
      BY <1>0 DEF Nothing
    <2>3. CASE UNCHANGED sendVars
      BY <2>1, <2>3 DEF sendVars
    <2>4. CASE /\ synced' = TRUE
               /\ \A f \in Files : previous'[f] =
                    IF f \in unreadable THEN previous[f] ELSE data[f]
      BY <1>0, <1>1, <2>1, <2>2, <2>4
    <2> QED
      BY <2>1, <2>3, <2>4
  <1>2. CASE Swap
    <2>1. PICK S \in SUBSET (Files \ Lasting) :
            content' = [f \in Files |-> IF f \in S \cup Lasting THEN gen' ELSE 0]
      BY <1>2 DEF Swap
    <2>2. gen' # 0
      BY <1>2, FileAssumption DEF Swap, DirTypeOK
    <2>3. \A f \in Lasting : content'[f] # 0
      BY <1>0, <2>1, <2>2
    <2> QED
      BY <1>2, <2>3 DEF Swap, dirRest, sendVars
  <1>3. CASE NamesFollow
    BY <1>0, <1>3 DEF NamesFollow, dirRest, sendVars
  <1>4. ASSUME NEW f \in Files, EditFile(f) PROVE LastingSeen' /\ ~Wipes
    <2>1. gen' # 0
      BY <1>4, FileAssumption DEF EditFile, DirTypeOK
    <2>2. PICK v \in {gen'} \cup (IF f \in Lasting THEN {} ELSE {0}) :
            content' = [content EXCEPT ![f] = v]
      BY <1>4 DEF EditFile
    <2>3. \A g \in Lasting : content'[g] # 0
      BY <1>0, <2>1, <2>2 DEF DirTypeOK, Snapshots
    <2>4. \A g \in Lasting : g \in visible'
      BY <1>0, <1>4, <2>3 DEF EditFile
    <2> QED
      BY <1>4, <2>3, <2>4 DEF EditFile, dirRest, sendVars
  <1>5. CASE ScanStarts \/ ReadlinkBefore
    BY <1>5 DEF ScanStarts, ReadlinkBefore, scanRest, dirVars, sendVars
  <1>6. CASE ReadDir
    BY <1>6 DEF ReadDir, scanRest, dirVars, sendVars
  <1>7. CASE ReadDirFails
    <2>1. UNCHANGED <<content, visible, kept, haveSnapshot>>
      BY <1>7 DEF ReadDirFails, scanRest, dirVars
    <2>2. kept.parsed \in Snapshots /\ kept.unreadable \in SUBSET Files
      BY DEF ScanTypeOK
    <2>3. CASE /\ haveSnapshot \/ ~synced
               /\ Send(kept.parsed, kept.unreadable, FALSE)
      <3>1. Accounts(kept.parsed, kept.unreadable, {}) \/ previous = Nothing
        BY <2>3
      <3>2. ~Wipes /\ (~synced' => previous' = Nothing) /\ spc' = "idle"
        BY <1>1, <2>2, <2>3, <3>1
      <3> QED
        BY <2>1, <3>2
    <2>4. CASE spc' = "idle" /\ UNCHANGED sendVars
      BY <2>1, <2>4 DEF sendVars
    <2> QED
      BY <1>7, <2>3, <2>4 DEF ReadDirFails
  <1>8. ASSUME NEW f \in unread, ReadFile(f) PROVE LastingSeen' /\ ~Wipes
    <2>1. UNCHANGED <<content, visible, kept, haveSnapshot, spc, sendVars>>
      BY <1>8 DEF ReadFile, scanRest, dirVars
    <2>2. unread' = unread \ {f} /\ f \in Files
      BY <1>8 DEF ReadFile, ScanTypeOK
    <2>3. CASE /\ content[f] # 0 /\ missed' = missed
               /\ pass' = [pass EXCEPT ![f] = content[f]]
      <3>1. \A g \in Files : pass'[g] = IF g = f THEN content[f] ELSE pass[g]
        BY <2>3 DEF ScanTypeOK, Snapshots
      <3> QED
        BY <1>0, <2>1, <2>2, <2>3, <3>1 DEF sendVars
    <2>4. CASE missed' = missed \cup {f} /\ UNCHANGED pass
      BY <2>1, <2>2, <2>4 DEF sendVars
    <2> QED
      BY <1>8, <2>3, <2>4 DEF ReadFile
  <1>9. CASE PassOver
    <2>1. /\ spc = "files" /\ unread = {}
          /\ UNCHANGED <<content, visible, pass, missed>>
      BY <1>9, PassStep DEF dirVars
    <2>2. Accounts(pass, missed, {})
      BY <2>1
    <2>3. CASE /\ \E stays \in BOOLEAN : Send(pass, missed, stays)
               /\ UNCHANGED <<scanAttempt, kept, haveSnapshot>>
      <3>1. pass \in Snapshots /\ missed \in SUBSET Files
        BY DEF ScanTypeOK
      <3>2. ~Wipes /\ (~synced' => previous' = Nothing) /\ spc' = "idle"
        BY <1>1, <2>2, <2>3, <3>1
      <3> QED
        BY <2>1, <2>3, <3>2
    <2>4. CASE /\ spc' = "readlink"
               /\ kept' = [parsed |-> pass, unreadable |-> missed]
               /\ UNCHANGED sendVars
      <3>1. kept'.parsed = pass /\ kept'.unreadable = missed
        BY <2>4
      <3> QED
        BY <2>1, <2>2, <2>4, <3>1 DEF sendVars
    <2> QED
      BY <1>9, <2>3, <2>4, PassStep
  <1>10. CASE Receive
    BY <1>10 DEF Receive, dirVars
  <1>11. CASE UNCHANGED fileVars
    BY <1>11 DEF fileVars, dirVars, sendVars
  <1> QED
    BY <1>2, <1>3, <1>4, <1>5, <1>6, <1>7, <1>8, <1>9, <1>10, <1>11
       DEF FileNext, Scan

LEMMA UntornKept ==
  ASSUME DirTypeOK, ScanTypeOK, SendTypeOK, PassIsRecent, Untorn,
         [FileNext]_fileVars
  PROVE  Untorn'
  <1>1. ASSUME UNCHANGED <<linked, previous, consistent, carried>> PROVE Untorn'
    BY <1>1 DEF Untorn
  \* A snapshot is only marked as consistent after a pass in one generation.
  <1>2. ASSUME NEW data \in Snapshots, NEW unreadable \in SUBSET Files,
               NEW undisturbed \in BOOLEAN, Send(data, unreadable, undisturbed),
               linked' = linked,
               linked /\ undisturbed =>
                 \A f \in Files : data[f] # 0 => data[f] = gen
        PROVE  Untorn'
    <2>1. \/ UNCHANGED sendVars
          \/ /\ \A f \in Files : previous'[f] =
                  IF f \in unreadable THEN previous[f] ELSE data[f]
             /\ consistent' = undisturbed /\ carried' = unreadable
      <3>1. UNCHANGED sendVars \/ Delivers(data, unreadable, undisturbed)
        BY <1>2, SendStep
      <3> QED
        BY <3>1 DEF Delivers
    <2>2. CASE UNCHANGED sendVars
      BY <1>1, <1>2, <2>2 DEF sendVars
    <2>3. CASE /\ \A f \in Files : previous'[f] =
                    IF f \in unreadable THEN previous[f] ELSE data[f]
               /\ consistent' = undisturbed /\ carried' = unreadable
      <3> SUFFICES ASSUME linked', consistent',
                          NEW f \in Files \ carried', NEW g \in Files \ carried',
                          previous'[f] # 0, previous'[g] # 0
                   PROVE  previous'[f] = previous'[g]
        BY DEF Untorn
      <3>1. linked /\ undisturbed
        BY <1>2, <2>3, Zenon
      <3>2. previous'[f] = data[f] /\ previous'[g] = data[g]
        BY <2>3
      <3> QED
        BY <1>2, <3>1, <3>2
    <2> QED
      BY <2>1, <2>2, <2>3
  <1>3. CASE Swap \/ NamesFollow \/ (\E f \in Files : EditFile(f)) \/ Receive
    BY <1>1, <1>3 DEF Swap, NamesFollow, EditFile, Receive, dirRest, dirVars,
                      sendVars
  <1>4. CASE ScanStarts \/ ReadlinkBefore \/ ReadDir
             \/ (\E f \in unread : ReadFile(f))
    BY <1>1, <1>4 DEF ScanStarts, ReadlinkBefore, ReadDir, ReadFile, scanRest,
                      dirVars, sendVars
  <1>5. CASE ReadDirFails
    <2>1. linked' = linked
      BY <1>5 DEF ReadDirFails, scanRest, dirVars
    <2>2. kept.parsed \in Snapshots /\ kept.unreadable \in SUBSET Files
      BY DEF ScanTypeOK
    <2>3. CASE Send(kept.parsed, kept.unreadable, FALSE)
      BY <1>2, <2>1, <2>2, <2>3
    <2>4. CASE UNCHANGED sendVars
      BY <1>1, <2>1, <2>4 DEF sendVars
    <2> QED
      BY <1>5, <2>3, <2>4 DEF ReadDirFails
  <1>6. CASE PassOver
    <2>1. linked' = linked /\ spc = "files"
      BY <1>6, PassStep DEF dirVars
    <2>2. CASE UNCHANGED sendVars
      BY <1>1, <2>1, <2>2 DEF sendVars
    <2>3. ASSUME NEW stays \in BOOLEAN, stays => before # 0 /\ gen = before,
                 Send(pass, missed, stays)
          PROVE  Untorn'
      <3>1. \A f \in Files : pass[f] \in Nat
        BY FileAssumption DEF ScanTypeOK, Snapshots
      <3>2. gen \in Nat
        BY FileAssumption DEF DirTypeOK
      <3>3. linked /\ stays => \A f \in Files : pass[f] # 0 => pass[f] = gen
        BY <2>1, <2>3, <3>1, <3>2 DEF PassIsRecent
      <3>4. pass \in Snapshots /\ missed \in SUBSET Files
        BY DEF ScanTypeOK
      <3> QED
        BY <1>2, <2>1, <2>3, <3>3, <3>4
    <2> QED
      BY <1>6, <2>2, <2>3, PassStep
  <1>7. CASE UNCHANGED fileVars
    BY <1>1, <1>7 DEF fileVars, dirVars, sendVars
  <1> QED
    BY <1>3, <1>4, <1>5, <1>6, <1>7 DEF FileNext, Scan

LEMMA FileInitially == FileInit => FileInv
  <1> SUFFICES ASSUME FileInit PROVE FileInv
    OBVIOUS
  <1> USE FileAssumption DEF FileInit
  <1>1. DirTypeOK
    <2>1. 0 \in 0..MaxReadFaults /\ 1 \in 1..(MaxDirChanges + 1)
      OBVIOUS
    <2>2. [f \in Files |-> 1] \in Snapshots
      BY DEF Snapshots
    <2> QED
      BY <2>1, <2>2 DEF DirTypeOK
  <1>2. ScanTypeOK
    <2>1. 0 \in 0..MaxScanAttempts /\ 0 \in 0..(MaxDirChanges + 1)
      OBVIOUS
    <2> QED
      BY <2>1, NothingTyped DEF ScanTypeOK
  <1>3. SendTypeOK
    <2>1. Cardinality(chan) = 0 /\ chan = {}
      BY FS_EmptySet
    <2>2. Cardinality(chan) <= 1
      BY <2>1
    <2> QED
      BY <2>1, <2>2, NothingTyped, Zenon DEF SendTypeOK
  <1>4. PassIsRecent /\ LastingSeen /\ Untorn
    BY DEF PassIsRecent, LastingSeen, Untorn
  <1> QED
    BY <1>1, <1>2, <1>3, <1>4 DEF FileInv

\* The inductive invariant of the directory watcher.
THEOREM FileInductive == FileSpec => []FileInv
  <1>1. ASSUME FileInv, [FileNext]_fileVars PROVE FileInv'
    BY <1>1, DirTypesKept, ScanTypesKept, RecentKept, LastingKept, UntornKept
       DEF FileInv
  <1> QED
    BY <1>1, FileInitially, PTL DEF FileSpec

\* Every variable of the directory watcher keeps its type.
THEOREM FileTypes == FileSpec => []FileTypeOK
  <1>1. FileInv => FileTypeOK
    BY DEF FileInv, FileTypeOK
  <1> QED
    BY <1>1, FileInductive, PTL

\* What is delivered as consistent is of one generation of the volume, for any
\* number of files and attempts (scan's two looks at the ..data link).
THEOREM NoTornSnapshot == FileSpec => []Untorn
  <1>1. FileInv => Untorn
    BY DEF FileInv
  <1> QED
    BY <1>1, FileInductive, PTL

\* No failing call takes back a value whose file exists (scan's and send's
\* fallbacks).
THEOREM NothingIsWiped == FileSpec => NeverWiped
  <1>1. ASSUME FileInv, [FileNext]_fileVars
        PROVE  [\A f \in Lasting : previous[f] # 0 => previous'[f] # 0]_fileVars
    BY <1>1, LastingKept DEF FileInv
  <1> QED
    BY <1>1, FileInductive, PTL DEF FileSpec, NeverWiped
-----------------------------------------------------------------------------
(* Manager.Reload keeps the newest VCLs and implements VclContract: the     *)
(* inductive invariant.                                                    *)

\* How far a call of Reload has come.  The VCL of an attempt is newer than the
\* one varnishd uses until vcl.use was sent, and the clean-up only runs after a
\* switch and never on the VCL in use.
Progress ==
  /\ vpc \in {"load", "wait", "use"} => activeVcl < reloadCounter
  /\ vpc \in {"list", "sweep"} => activeVcl = reloadCounter
  /\ vpc = "use" => reloadCounter \in loaded
  /\ vpc = "wait" => attempt <= ReloadRetries /\ lastErr # "none"
  /\ doomed # {} => vpc = "sweep"
  /\ activeVcl \notin doomed

\* NewestKept between two clean-ups, until the next VCL is loaded.
KeptSinceSweep ==
  vpc \in {"idle", "load", "wait"} /\ clean =>
    /\ Cardinality(Spare) <= vclKept
    /\ \A gone \in swept, n \in Spare : gone < n
    /\ swept # {} => Cardinality(Spare) = vclKept

\* In a clean-up without a failure, what is still to be discarded is spare and
\* older than the vclKept that stay.
KeptInSweep ==
  vpc = "sweep" /\ clean =>
    /\ doomed \subseteq Spare
    /\ \A gone \in swept \cup doomed, n \in Spare \ doomed : gone < n
    /\ Cardinality(Spare \ doomed) = vclKept

VclInv ==
  /\ HeldTypeOK
  /\ CallTypeOK
  /\ Progress
  /\ KeptSinceSweep
  /\ KeptInSweep
  /\ vpc = "undo" => ~clean

-----------------------------------------------------------------------------
(* Manager.Reload: the steps.                                              *)

LEMMA VclInitially == VclInit => VclInv
  <1> SUFFICES ASSUME VclInit PROVE VclInv
    OBVIOUS
  <1> USE DEF VclInit
  <1>1. HeldTypeOK
    BY DEF HeldTypeOK
  <1>2. CallTypeOK
    <2>1. /\ vclKept \in Nat
          /\ attempt \in 0..(1 + ReloadRetries)
          /\ calls \in 0..MaxCalls
          /\ vclFaults \in 0..MaxVclFaults
      BY VclAssumption
    <2> QED
      BY <2>1, Zenon DEF CallTypeOK
  <1>3. Progress
    BY DEF Progress
  <1>4. Spare = {}
    BY DEF Spare
  <1>5. Cardinality(Spare) = 0
    BY <1>4, FS_EmptySet
  <1>6. KeptSinceSweep
    BY <1>4, <1>5, VclAssumption DEF KeptSinceSweep
  <1> QED
    BY <1>1, <1>2, <1>3, <1>6 DEF VclInv, KeptInSweep

\* The command that goes wrong is counted, up to the bound of the model.
LEMMA FaultsCounted ==
  ASSUME VclFault, vclFaults \in 0..MaxVclFaults
  PROVE  vclFaults' \in 0..MaxVclFaults /\ clean' \in BOOLEAN /\ ~clean'
  <1>1. CASE exited
    BY <1>1 DEF VclFault
  <1>2. CASE ~exited
    <2>1. /\ vclFaults < MaxVclFaults
          /\ vclFaults' = vclFaults + 1
          /\ clean' = FALSE
      BY <1>2, Zenon DEF VclFault
    <2>2. vclFaults' \in 0..MaxVclFaults
      BY <2>1, VclAssumption
    <2> QED
      BY <2>1, <2>2, Zenon
  <1> QED
    BY <1>1, <1>2

\* A discarded VCL was in the list; the call ends with the list.
LEMMA SweepStep ==
  ASSUME NEW n \in doomed, DiscardOld(n)
  PROVE  /\ vpc = "sweep"
         /\ doomed' = doomed \ {n}
         /\ swept' = swept \cup (loaded \ loaded')
         /\ loaded' = loaded \/ loaded' = loaded \ ({n} \ labelled)
         /\ \/ doomed' # {} /\ UNCHANGED <<vpc, vclReply>>
            \/ doomed' = {} /\ vpc' = "idle" /\ vclReply' = "ok"
         /\ UNCHANGED <<vclKept, attempt, reloadCounter, lastErr, activeVcl,
                        labelled, exited, calls>>
  <1>1. loaded' = loaded \/ loaded' = loaded \ ({n} \ labelled)
    BY DEF DiscardOld, LateOrNot
  <1>2. IF doomed' = {} THEN Return("ok") ELSE UNCHANGED <<vpc, vclReply>>
    BY DEF DiscardOld
  <1>3. \/ doomed' # {} /\ UNCHANGED <<vpc, vclReply>>
        \/ doomed' = {} /\ vpc' = "idle" /\ vclReply' = "ok"
    <2>1. CASE doomed' = {}
      BY <1>2, <2>1 DEF Return
    <2>2. CASE doomed' # {}
      BY <1>2, <2>2
    <2> QED
      BY <2>1, <2>2
  <1>4. vpc = "sweep" /\ doomed' = doomed \ {n}
    BY DEF DiscardOld
  <1> QED
    BY <1>1, <1>3, <1>4 DEF DiscardOld

\* What varnishd holds and uses keeps its type, and a call its progress.
LEMMA HeldTypesKept ==
  ASSUME HeldTypeOK, CallTypeOK, Progress, [VclNext]_vclVars
  PROVE  HeldTypeOK' /\ Progress'
  <1> USE DEF HeldTypeOK, Progress
  <1>1. CASE Reload
    BY <1>1 DEF Reload
  <1>2. CASE LoadSucceeds
    BY <1>2 DEF LoadSucceeds
  <1>3. CASE LoadRejected
    BY <1>3 DEF LoadRejected, RetryOr, Return, CallTypeOK
  <1>4. CASE LoadFails
    <2>1. loaded' = loaded \/ loaded' = loaded \cup {reloadCounter}
      BY <1>4 DEF LoadFails, LateOrNot
    <2>2. UNCHANGED <<reloadCounter, activeVcl, labelled, doomed, swept, attempt>>
      BY <1>4 DEF LoadFails
    <2>3. /\ vpc = "load"
          /\ \/ vpc' = "wait" /\ attempt <= ReloadRetries /\ lastErr' = "failed"
             \/ vpc' = "idle"
      BY <1>4 DEF LoadFails, RetryOr, Return, CallTypeOK
    <2>4. HeldTypeOK'
      <3>1. loaded' \in SUBSET (-1..reloadCounter) /\ loaded \subseteq loaded'
        <4>1. reloadCounter \in -1..reloadCounter
          OBVIOUS
        <4>2. \A n \in loaded' : n \in -1..reloadCounter
          BY <2>1, <4>1
        <4>3. loaded \subseteq loaded'
          BY <2>1
        <4> QED
          BY <4>2, <4>3
      <3> QED
        BY <2>2, <3>1
    <2>5. Progress'
      <3> HIDE DEF HeldTypeOK
      <3> QED
        BY <2>2, <2>3
    <2> QED
      BY <2>4, <2>5
  <1>5. CASE RetryNow
    BY <1>5 DEF RetryNow
  <1>6. CASE RetryAborted
    BY <1>6 DEF RetryAborted, Return
  <1>7. CASE UseSucceeds
    BY <1>7 DEF UseSucceeds
  <1>8. CASE UseFails
    BY <1>8 DEF UseFails, LateOrNot
  <1>9. CASE Undo
    BY <1>9 DEF Undo, Return
  <1>10. CASE ListVcls
    <2>1. \A n \in Spare : n \in 1..reloadCounter /\ n # activeVcl
      BY DEF Spare
    <2>2. Surplus \subseteq Spare
      BY DEF Surplus
    <2> QED
      BY <1>10, <2>1, <2>2 DEF ListVcls, Return
  <1>11. CASE ListFails
    BY <1>11 DEF ListFails, Return
  <1>12. ASSUME NEW n \in doomed, DiscardOld(n) PROVE HeldTypeOK' /\ Progress'
    <2>1. HeldTypeOK'
      <3>1. /\ loaded' \subseteq loaded
            /\ loaded \ loaded' \subseteq {n} \ labelled
        BY <1>12, SweepStep, Zenon
      <3>2. /\ activeVcl \in loaded'
            /\ labelled \subseteq loaded'
            /\ swept \cup (loaded \ loaded') \subseteq 1..reloadCounter
        BY <3>1
      <3> QED
        BY <1>12, <3>1, <3>2, SweepStep
    <2>2. Progress'
      <3> HIDE DEF HeldTypeOK
      <3> QED
        BY <1>12, SweepStep
    <2> QED
      BY <2>1, <2>2
  <1>13. CASE LabelMoves
    BY <1>13 DEF LabelMoves
  <1>14. CASE VarnishdExits
    BY <1>14 DEF VarnishdExits
  <1>15. CASE UNCHANGED vclVars
    BY <1>15 DEF vclVars
  <1> QED
    BY <1>1, <1>2, <1>3, <1>4, <1>5, <1>6, <1>7, <1>8, <1>9, <1>10, <1>11,
       <1>12, <1>13, <1>14, <1>15 DEF VclNext

\* So do the locals of a call and the counters.
LEMMA CallTypesKept ==
  ASSUME CallTypeOK, Progress, [VclNext]_vclVars
  PROVE  CallTypeOK'
  <1> USE VclAssumption DEF CallTypeOK
  <1>1. CASE Reload
    BY <1>1 DEF Reload
  <1>2. CASE LoadSucceeds
    BY <1>2 DEF LoadSucceeds, NoFault
  <1>3. CASE LoadRejected
    BY <1>3 DEF LoadRejected, NoFault, RetryOr, Return
  <1>4. CASE LoadFails
    BY <1>4, FaultsCounted DEF LoadFails, RetryOr, Return
  <1>5. CASE RetryNow
    BY <1>5 DEF RetryNow, Progress
  <1>6. CASE RetryAborted
    BY <1>6 DEF RetryAborted, Return
  <1>7. CASE UseSucceeds
    BY <1>7 DEF UseSucceeds, NoFault
  <1>8. CASE UseFails
    BY <1>8, FaultsCounted DEF UseFails
  <1>9. CASE Undo
    BY <1>9, FaultsCounted DEF Undo, NoFault, Return
  <1>10. CASE ListVcls
    BY <1>10 DEF ListVcls, Return
  <1>11. CASE ListFails
    BY <1>11, FaultsCounted DEF ListFails, Return
  <1>12. ASSUME NEW n \in doomed, DiscardOld(n) PROVE CallTypeOK'
    <2>1. NoFault \/ VclFault
      BY <1>12 DEF DiscardOld
    <2>2. vclFaults' \in 0..MaxVclFaults /\ clean' \in BOOLEAN
      BY <2>1, FaultsCounted DEF NoFault
    <2> QED
      BY <1>12, <2>2, SweepStep
  <1>13. CASE LabelMoves
    BY <1>13, FaultsCounted DEF LabelMoves
  <1>14. CASE VarnishdExits
    BY <1>14 DEF VarnishdExits
  <1>15. CASE UNCHANGED vclVars
    BY <1>15 DEF vclVars
  <1> QED
    BY <1>1, <1>2, <1>3, <1>4, <1>5, <1>6, <1>7, <1>8, <1>9, <1>10, <1>11,
       <1>12, <1>13, <1>14, <1>15 DEF VclNext

\* NewestKept survives every step, with the clean-up in the middle.
LEMMA RetentionKept ==
  ASSUME VclInv, [VclNext]_vclVars
  PROVE  KeptSinceSweep' /\ KeptInSweep' /\ (vpc = "undo" => ~clean)'
  <1> USE DEF VclInv, KeptSinceSweep, KeptInSweep
  <1> DEFINE Goal == /\ KeptSinceSweep' /\ KeptInSweep'
                     /\ (vpc = "undo" => ~clean)'
  <1>0. vclKept \in Nat /\ clean \in BOOLEAN
    BY DEF CallTypeOK
  \* Nothing this is about changes, or a fault clears the flag.
  <1>1. ASSUME UNCHANGED <<loaded, labelled, activeVcl>> PROVE Spare' = Spare
    BY <1>1 DEF Spare
  <1>2. ASSUME VclFault PROVE Goal
    BY <1>2 DEF VclFault
  <1>3. ASSUME UNCHANGED <<loaded, labelled, activeVcl, vclKept, swept, clean>>,
               vpc \in {"idle", "load", "wait"},
               vpc' \in {"idle", "load", "wait"}
        PROVE  Goal
    BY <1>1, <1>3
  <1>4. CASE Reload \/ RetryNow
    BY <1>3, <1>4 DEF Reload, RetryNow
  <1>5. CASE LoadRejected \/ RetryAborted
    BY <1>3, <1>5
       DEF LoadRejected, RetryAborted, NoFault, RetryOr, Return
  <1>6. CASE LoadFails \/ UseFails \/ ListFails \/ LabelMoves
    BY <1>2, <1>6 DEF LoadFails, UseFails, ListFails, LabelMoves
  <1>7. CASE LoadSucceeds
    BY <1>7 DEF LoadSucceeds
  <1>8. CASE UseSucceeds
    BY <1>8 DEF UseSucceeds
  <1>9. CASE Undo
    BY <1>9 DEF Undo, NoFault, VclFault, Return
  <1>10. CASE VarnishdExits
    BY <1>10 DEF VarnishdExits
  <1>11. CASE ListVcls
    <2>1. UNCHANGED <<loaded, labelled, activeVcl, vclKept>>
      BY <1>11 DEF ListVcls
    <2>2. Spare' = Spare
      BY <1>1, <2>1
    <2>3. reloadCounter \in Nat /\ Spare \subseteq 1..reloadCounter
      <3>1. \A n \in Spare : n \in 1..reloadCounter
        BY DEF HeldTypeOK, Spare
      <3> QED
        BY <3>1 DEF HeldTypeOK
    <2>4. /\ \A g \in Surplus, n \in Spare \ Surplus : g < n
          /\ Cardinality(Spare \ Surplus) <= vclKept
          /\ Surplus # {} => Cardinality(Spare \ Surplus) = vclKept
      BY <1>0, <2>3, NewestOf DEF Surplus
    <2>5. swept' = {} /\ doomed' = Surplus /\ Surplus \subseteq Spare
      BY <1>11 DEF ListVcls, Surplus
    <2>6. CASE Surplus = {}
      <3>1. vpc' = "idle"
        BY <1>11, <2>6 DEF ListVcls, Return
      <3>2. Spare \ Surplus = Spare
        BY <2>6
      <3> QED
        BY <2>1, <2>2, <2>4, <2>5, <3>1, <3>2
    <2>7. CASE Surplus # {}
      <3>1. vpc' = "sweep"
        BY <1>11, <2>7 DEF ListVcls
      <3> QED
        BY <2>1, <2>2, <2>4, <2>5, <2>7, <3>1
    <2> QED
      BY <2>6, <2>7
  <1>12. ASSUME NEW n \in doomed, DiscardOld(n) PROVE Goal
    <2>1. CASE VclFault
      BY <1>2, <2>1
    <2>2. CASE NoFault /\ loaded' = loaded \ ({n} \ labelled)
      <3>1. CASE ~clean
        BY <2>2, <3>1, <1>12, SweepStep DEF NoFault
      <3>2. CASE clean
        <4>1. /\ vpc = "sweep"
              /\ doomed' = doomed \ {n}
              /\ swept' = swept \cup (loaded \ loaded')
              /\ UNCHANGED <<vclKept, activeVcl, labelled>>
              /\ vpc' = "sweep" \/ (doomed' = {} /\ vpc' = "idle")
          BY <1>12, SweepStep
        <4>2. n \in Spare /\ n \in loaded /\ n \notin labelled /\ n # activeVcl
          BY <3>2, <4>1 DEF Spare
        <4>3. loaded' = loaded \ {n} /\ swept' = swept \cup {n}
          BY <2>2, <4>1, <4>2
        <4>4. Spare' = Spare \ {n}
          BY <4>1, <4>2, <4>3 DEF Spare
        <4>5. /\ swept' \cup doomed' = swept \cup doomed
              /\ Spare' \ doomed' = Spare \ doomed
              /\ doomed' \subseteq Spare'
              /\ swept' # {}
          BY <3>2, <4>1, <4>3, <4>4
        <4>6. /\ \A gone \in swept \cup doomed, m \in Spare \ doomed : gone < m
              /\ Cardinality(Spare \ doomed) = vclKept
          BY <3>2, <4>1
        <4>7. CASE vpc' = "sweep"
          BY <4>1, <4>5, <4>6, <4>7
        <4>8. CASE doomed' = {} /\ vpc' = "idle"
          <5>1. Spare' = Spare \ doomed /\ swept' = swept \cup doomed
            BY <4>5, <4>8
          <5> QED
            BY <1>0, <4>1, <4>6, <4>8, <5>1
        <4> QED
          BY <4>1, <4>7, <4>8
      <3> QED
        BY <3>1, <3>2
    <2> QED
      BY <1>12, <2>1, <2>2 DEF DiscardOld
  <1>13. CASE UNCHANGED vclVars
    BY <1>1, <1>13 DEF vclVars
  <1> QED
    BY <1>4, <1>5, <1>6, <1>7, <1>8, <1>9, <1>10, <1>11, <1>12, <1>13
       DEF VclNext

\* The inductive invariant of a varnishd manager.
THEOREM VclInductive == VclSpec => []VclInv
  <1>1. ASSUME VclInv, [VclNext]_vclVars PROVE VclInv'
    BY <1>1, HeldTypesKept, CallTypesKept, RetentionKept DEF VclInv
  <1> QED
    BY <1>1, VclInitially, PTL DEF VclSpec

\* Every variable of the manager keeps its type: the VCL varnishd uses and the
\* targets of labels are never discarded.
THEOREM VclTypes == VclSpec => []VclTypeOK
  <1>1. VclInv => VclTypeOK
    BY DEF VclInv, VclTypeOK
  <1> QED
    BY <1>1, VclInductive, PTL

\* After a clean-up without a failure the newest VCLKept old VCLs are there and
\* no other, whatever earlier clean-ups could not discard (discardOldVCLs).
THEOREM RetentionHolds == VclSpec => []NewestKept
  <1>1. VclInv => NewestKept
    BY DEF VclInv, KeptSinceSweep, NewestKept
  <1> QED
    BY <1>1, VclInductive, PTL
-----------------------------------------------------------------------------
(* Manager.Reload: the contract.                                           *)

\* Every call of Reload keeps the contract the event loop builds on: "ok" only
\* after a switch to a VCL no earlier call used, "rejected" only without one.
THEOREM ReloadKeepsContract == VclSpec => ReloadContract
  <1> DEFINE phase == IF vpc = "idle" THEN "idle"
                      ELSE IF activeVcl = reloadCounter THEN "switched"
                      ELSE "working"
             Begins == /\ phase = "idle" /\ phase' = "working"
                       /\ vclReply' = "none" /\ activeVcl' = activeVcl
             Switches == /\ phase = "working" /\ phase' = "switched"
                         /\ activeVcl' > activeVcl /\ vclReply' = vclReply
             Finishes == /\ \/ /\ phase = "working"
                               /\ vclReply' \in {"rejected", "failed"}
                            \/ /\ phase = "switched"
                               /\ vclReply' \in {"ok", "failed"}
                         /\ phase' = "idle" /\ activeVcl' = activeVcl
             Stutters == /\ phase' = phase /\ activeVcl' = activeVcl
                         /\ vclReply' = vclReply
  <1>0. /\ vpc = "idle" => phase = "idle"
        /\ vpc # "idle" /\ activeVcl = reloadCounter => phase = "switched"
        /\ vpc # "idle" /\ activeVcl # reloadCounter => phase = "working"
    OBVIOUS
  <1>4. /\ vpc' = "idle" => phase' = "idle"
        /\ vpc' # "idle" /\ activeVcl' = reloadCounter' => phase' = "switched"
        /\ vpc' # "idle" /\ activeVcl' # reloadCounter' => phase' = "working"
    OBVIOUS
  <1>1. VclInit => Contract!Init
    BY <1>0 DEF VclInit, Contract!Init
  <1>2. ASSUME VclInv, [VclNext]_vclVars
        PROVE  Begins \/ Switches \/ Finishes \/ Stutters
    <2> HIDE DEF phase
    <2>0. /\ Progress /\ reloadCounter \in Nat
          /\ activeVcl \in Int /\ activeVcl <= reloadCounter
          /\ vpc = "wait" => lastErr \in {"rejected", "failed"}
      BY <1>2 DEF VclInv, HeldTypeOK, CallTypeOK, Progress
    <2> USE <1>0, <1>4, <2>0 DEF Progress
    <2>1. CASE Reload
      BY <2>1 DEF Reload
    <2>2. CASE LoadSucceeds
      BY <2>2 DEF LoadSucceeds
    <2>3. CASE LoadRejected
      BY <2>3 DEF LoadRejected, RetryOr, Return
    <2>4. CASE LoadFails
      BY <2>4 DEF LoadFails, RetryOr, Return
    <2>5. CASE RetryNow
      BY <2>5 DEF RetryNow
    <2>6. CASE RetryAborted
      BY <2>6 DEF RetryAborted, Return
    <2>7. CASE UseSucceeds
      BY <2>7 DEF UseSucceeds
    <2>8. CASE UseFails
      BY <2>8 DEF UseFails, LateOrNot
    <2>9. CASE Undo
      BY <2>9 DEF Undo, Return
    <2>10. CASE ListVcls
      BY <2>10 DEF ListVcls, Return
    <2>11. CASE ListFails
      BY <2>11 DEF ListFails, Return
    <2>12. ASSUME NEW n \in doomed, DiscardOld(n) PROVE Finishes \/ Stutters
      BY <2>12, SweepStep
    <2>13. CASE LabelMoves
      BY <2>13 DEF LabelMoves
    <2>14. CASE VarnishdExits
      BY <2>14 DEF VarnishdExits
    <2>15. CASE UNCHANGED vclVars
      BY <2>15 DEF vclVars
    <2> HIDE DEF Begins, Switches, Finishes, Stutters
    <2> QED
      BY <1>2, <2>1, <2>2, <2>3, <2>4, <2>5, <2>6, <2>7, <2>8, <2>9, <2>10,
         <2>11, <2>12, <2>13, <2>14, <2>15 DEF VclNext
  <1>3. ASSUME VclInv, [VclNext]_vclVars
        PROVE  [Contract!Begin \/ Contract!Switch \/ Contract!Finish]_(
                 Contract!contractVars)
    BY <1>2, <1>3 DEF Contract!Begin, Contract!Switch, Contract!Finish,
                      Contract!contractVars
  <1> QED
    BY <1>1, <1>3, VclInductive, PTL
       DEF VclSpec, ReloadContract, Contract!Spec
-----------------------------------------------------------------------------
(* The drain-VCL injection.                                                *)

\* What the lines of a VCL can be.
Texts == {"version", "gone"} \cup Lines \cup Added

\* The lines of v are in w, in their order, and the others of w are added.
Grown(v, w, at) ==
  /\ at \in [1..Len(v) -> 1..Len(w)]
  /\ \A i, j \in 1..Len(v) : i < j => at[i] < at[j]
  /\ \A i \in 1..Len(v) : w[at[i]] = v[i]
  /\ \A k \in 1..Len(w) : (\A i \in 1..Len(v) : at[i] # k) => w[k] \in Added

\* Line k of w is where line i of v is, or was put in front of it.
Before(v, at, k, i) == \A j \in 1..Len(v) : at[j] < k <=> j < i

\* Least and Last0 find the least and the last.
LEMMA LeastIs ==
  ASSUME NEW S, S \subseteq Nat, S # {}, NEW default
  PROVE  Least(S, default) \in S /\ \A x \in S : Least(S, default) <= x
  BY SmallestOf DEF Least

LEMMA LastIs ==
  ASSUME NEW c \in Nat, NEW S, S \subseteq 1..c, S # {}
  PROVE  Last0(S) \in S /\ \A x \in S : x <= Last0(S)
  BY LargestOf DEF Last0

\* The lines that were there keep their order.
LEMMA GrownAt ==
  ASSUME NEW v \in Seq(Texts), NEW w \in Seq(Texts), NEW at, Grown(v, w, at)
  PROVE  /\ \A i \in 1..Len(v) : at[i] \in 1..Len(w) /\ at[i] \in Int
         /\ \A i, j \in 1..Len(v) :
              /\ at[i] < at[j] <=> i < j
              /\ at[i] <= at[j] <=> i <= j
              /\ at[i] = at[j] <=> i = j
  <1>0. Len(v) \in Nat /\ Len(w) \in Nat
    OBVIOUS
  <1>1. ASSUME NEW i \in 1..Len(v) PROVE at[i] \in 1..Len(w) /\ at[i] \in Int
    <2>1. at[i] \in 1..Len(w)
      BY Zenon DEF Grown
    <2> QED
      BY <1>0, <2>1
  <1>2. ASSUME NEW i \in 1..Len(v), NEW j \in 1..Len(v)
        PROVE  /\ at[i] < at[j] <=> i < j
               /\ at[i] <= at[j] <=> i <= j
               /\ at[i] = at[j] <=> i = j
    <2>1. i < j => at[i] < at[j]
      BY DEF Grown
    <2>2. j < i => at[j] < at[i]
      BY DEF Grown
    <2>3. i = j => at[i] = at[j]
      OBVIOUS
    <2>4. at[i] \in Int /\ at[j] \in Int /\ i \in Int /\ j \in Int
      BY <1>0, <1>1
    <2> QED
      BY <2>1, <2>2, <2>3, <2>4
  <1> QED
    BY <1>1, <1>2

\* What is text stays text.
LEMMA TextGrown ==
  ASSUME NEW v \in Seq(Texts), NEW w \in Seq(Texts), NEW at, Grown(v, w, at),
         \A i \in 1..Len(v) : v[i] \notin Added,
         NEW k \in 1..Len(w), NEW i \in 1..(Len(v) + 1), Before(v, at, k, i)
  PROVE  InText(w, k) <=> InText(v, i)
  <1> USE DEF Grown, Before
  <1>0. Len(v) \in Nat /\ Len(w) \in Nat
    OBVIOUS
  <1>1. ASSUME InText(v, i) PROVE InText(w, k)
    <2>1. PICK o \in 1..(i - 1) :
            v[o] = "open" /\ \A c \in (o + 1)..(i - 1) : v[c] # "close"
      BY <1>1 DEF InText
    <2>2. o \in 1..Len(v) /\ at[o] \in 1..(k - 1) /\ w[at[o]] = "open"
      BY <1>0, <2>1
    <2>3. ASSUME NEW c \in (at[o] + 1)..(k - 1), w[c] = "close" PROVE FALSE
      <3>1. c \in 1..Len(w) /\ w[c] \notin Added
        BY <1>0, <2>2, <2>3 DEF Added
      <3>2. PICK j \in 1..Len(v) : at[j] = c
        BY <3>1
      <3>3. j < i /\ v[j] = "close"
        BY <2>3, <3>2
      <3>4. ~ (j < o) /\ j # o
        BY <2>2, <2>3, <3>2, <3>3
      <3> QED
        BY <1>0, <2>1, <3>3, <3>4
    <2> QED
      BY <2>2, <2>3 DEF InText
  <1>2. ASSUME InText(w, k) PROVE InText(v, i)
    <2>1. PICK o \in 1..(k - 1) :
            w[o] = "open" /\ \A c \in (o + 1)..(k - 1) : w[c] # "close"
      BY <1>2 DEF InText
    <2>2. o \in 1..Len(w) /\ w[o] \notin Added
      BY <1>0, <2>1 DEF Added
    <2>3. PICK j \in 1..Len(v) : at[j] = o
      BY <2>2
    <2>4. j \in 1..(i - 1) /\ v[j] = "open"
      BY <1>0, <2>1, <2>3
    <2>5. ASSUME NEW c \in (j + 1)..(i - 1), v[c] = "close" PROVE FALSE
      <3>1. c \in 1..Len(v) /\ j < c /\ c < i
        BY <1>0, <2>4, <2>5
      <3>2. at[c] < k /\ at[j] < at[c] /\ w[at[c]] = "close" /\ at[c] \in Nat
        BY <1>0, <2>5, <3>1
      <3> QED
        BY <1>0, <2>1, <2>3, <3>2
    <2> QED
      BY <2>4, <2>5 DEF InText
  <1> QED
    BY <1>1, <1>2

\* The declarations of the user's are where they were.
LEMMA LiveGrown ==
  ASSUME NEW v \in Seq(Texts), NEW w \in Seq(Texts), NEW at, Grown(v, w, at),
         \A i \in 1..Len(v) : v[i] \notin Added,
         NEW kind \in Texts \ Added
  PROVE  /\ \A i \in Live(v, kind) : at[i] \in Live(w, kind)
         /\ \A k \in Live(w, kind) : \E i \in Live(v, kind) : at[i] = k
  <1>0. Len(v) \in Nat /\ Len(w) \in Nat /\ DOMAIN v = 1..Len(v)
        /\ DOMAIN w = 1..Len(w)
    OBVIOUS
  <1>1. ASSUME NEW i \in 1..Len(v)
        PROVE  InText(w, at[i]) <=> InText(v, i)
    <2>1. at[i] \in 1..Len(w) /\ Before(v, at, at[i], i)
      <3>1. ASSUME NEW j \in 1..Len(v) PROVE at[j] < at[i] <=> j < i
        <4>1. CASE j < i
          BY <4>1 DEF Grown
        <4>2. CASE j = i
          BY <1>0, <4>2 DEF Grown
        <4>3. CASE i < j
          <5>1. at[i] < at[j] /\ at[i] \in Int /\ at[j] \in Int
            BY <1>0, <4>3 DEF Grown
          <5> QED
            BY <1>0, <4>3, <5>1
        <4> QED
          BY <1>0, <4>1, <4>2, <4>3
      <3> QED
        BY <3>1 DEF Grown, Before
    <2> QED
      BY <1>0, <2>1, TextGrown
  <1>2. ASSUME NEW i \in Live(v, kind) PROVE at[i] \in Live(w, kind)
    BY <1>0, <1>1 DEF Live, Grown
  <1>3. ASSUME NEW k \in Live(w, kind) PROVE \E i \in Live(v, kind) : at[i] = k
    <2>1. k \in 1..Len(w) /\ w[k] \notin Added /\ w[k] = kind /\ ~InText(w, k)
      BY <1>0 DEF Live
    <2>2. PICK i \in 1..Len(v) : at[i] = k
      BY <2>1 DEF Grown
    <2>3. v[i] = kind /\ ~InText(v, i)
      BY <1>1, <2>1, <2>2 DEF Grown
    <2> QED
      BY <1>0, <2>2, <2>3 DEF Live
  <1> QED
    BY <1>2, <1>3

\* The lines of w that were not added, and the place of one among them.
Kept(w) == {i \in DOMAIN w : w[i] \notin Added}
PlaceIn(w, i) == Cardinality({j \in Kept(w) : j <= i})

\* The i-th of the lines that are not added is the user's i-th.
LEMMA PlaceGrown ==
  ASSUME NEW v \in Seq(Texts), NEW w \in Seq(Texts), NEW at, Grown(v, w, at),
         \A i \in 1..Len(v) : v[i] \notin Added
  PROVE  /\ Cardinality(Kept(w)) = Len(v)
         /\ \A i \in 1..Len(v) :
              at[i] \in Kept(w) /\ PlaceIn(w, at[i]) = i
         /\ \A k \in Kept(w) : \E i \in 1..Len(v) : at[i] = k
  <1> DEFINE user == Kept(w)
  <1>0. Len(v) \in Nat /\ Len(w) \in Nat
    OBVIOUS
  <1>1. \A i \in 1..Len(v) : at[i] \in user
    BY DEF Grown, Kept
  <1>2. \A k \in user : \E i \in 1..Len(v) : at[i] = k
    BY DEF Grown, Kept
  <1> HIDE DEF user
  <1>3. ASSUME NEW n \in 0..Len(v), NEW U, U = {at[i] : i \in 1..n}
        PROVE  Cardinality(U) = n
    <2> DEFINE f == [i \in 1..n |-> at[i]]
    <2>1. f \in Bijection(1..n, U)
      <3>1. f \in [1..n -> U] /\ \A u \in U : \E i \in 1..n : f[i] = u
        BY <1>3
      <3>2. \A i, j \in 1..n : f[i] = f[j] => i = j
        <4>1. \A i \in 1..n : i \in 1..Len(v)
          BY <1>0
        <4> QED
          BY <4>1, GrownAt
      <3> HIDE DEF f
      <3> QED
        BY <3>1, <3>2 DEF Bijection, Injection, Surjection, IsInjective
    <2>2. IsFiniteSet(1..n) /\ Cardinality(1..n) = n
      <3>1. n \in Int /\ 1 <= n + 1
        BY <1>0
      <3> QED
        BY <1>0, <3>1, FS_Interval
    <2>3. ExistsBijection(1..n, U)
      BY <2>1 DEF ExistsBijection
    <2> QED
      BY <2>2, <2>3, FS_Bijection
  <1>4. user = {at[i] : i \in 1..Len(v)}
    BY <1>1, <1>2
  <1>5. Cardinality(user) = Len(v)
    BY <1>0, <1>3, <1>4
  <1>6. ASSUME NEW i \in 1..Len(v)
        PROVE  Cardinality({k \in user : k <= at[i]}) = i
    <2>1. {k \in user : k <= at[i]} = {at[j] : j \in 1..i}
      <3>1. \A j \in 1..Len(v) : at[j] <= at[i] <=> j <= i
        BY GrownAt
      <3>2. \A j \in 1..i : j \in 1..Len(v)
        BY <1>0
      <3> QED
        BY <1>0, <1>1, <1>2, <3>1, <3>2
    <2> QED
      BY <1>0, <1>3, <2>1
  <1> QED
    BY <1>1, <1>2, <1>5, <1>6 DEF user, PlaceIn

\* The lines of two sequences.
LEMMA ConcatIs ==
  ASSUME NEW s \in Seq(Texts), NEW t \in Seq(Texts)
  PROVE  /\ s \o t \in Seq(Texts) /\ Len(s \o t) = Len(s) + Len(t)
         /\ \A i \in 1..Len(s) : (s \o t)[i] = s[i]
         /\ \A i \in 1..Len(t) : (s \o t)[Len(s) + i] = t[i]
  <1>1. /\ s \o t \in Seq(Texts) /\ Len(s \o t) = Len(s) + Len(t)
        /\ \A i \in 1..(Len(s) + Len(t)) :
             (s \o t)[i] = IF i <= Len(s) THEN s[i] ELSE t[i - Len(s)]
    BY ConcatProperties
  <1>2. Len(s) \in Nat /\ Len(t) \in Nat
    OBVIOUS
  <1>3. ASSUME NEW i \in 1..Len(s) PROVE (s \o t)[i] = s[i]
    <2>1. i \in 1..(Len(s) + Len(t)) /\ i <= Len(s)
      BY <1>2
    <2> QED
      BY <1>1, <2>1
  <1>4. ASSUME NEW i \in 1..Len(t) PROVE (s \o t)[Len(s) + i] = t[i]
    <2>1. /\ Len(s) + i \in 1..(Len(s) + Len(t)) /\ ~(Len(s) + i <= Len(s))
          /\ (Len(s) + i) - Len(s) = i
      BY <1>2
    <2> QED
      BY <1>1, <2>1
  <1> QED
    BY <1>1, <1>3, <1>4

\* Insert, line by line.
LEMMA InsertIs ==
  ASSUME NEW v \in Seq(Texts), NEW p \in 0..Len(v), NEW ls \in Seq(Texts)
  PROVE  /\ Insert(v, p, ls) \in Seq(Texts)
         /\ Len(Insert(v, p, ls)) = Len(v) + Len(ls)
         /\ \A i \in 1..p : Insert(v, p, ls)[i] = v[i]
         /\ \A i \in 1..Len(ls) : Insert(v, p, ls)[p + i] = ls[i]
         /\ \A i \in (p + 1)..Len(v) : Insert(v, p, ls)[i + Len(ls)] = v[i]
  <1> DEFINE a == SubSeq(v, 1, p)
             z == SubSeq(v, p + 1, Len(v))
  <1>0. Len(v) \in Nat /\ Len(ls) \in Nat /\ p \in Int /\ 0 <= p /\ p <= Len(v)
    OBVIOUS
  <1>1. a \in Seq(Texts) /\ Len(a) = p /\ \A i \in 1..p : a[i] = v[i]
    BY <1>0
  <1>2. /\ z \in Seq(Texts) /\ Len(z) = Len(v) - p
        /\ \A i \in 1..(Len(v) - p) : z[i] = v[p + i]
    BY <1>0
  <1> HIDE DEF a, z
  <1>3. /\ a \o ls \in Seq(Texts) /\ Len(a \o ls) = p + Len(ls)
        /\ \A i \in 1..p : (a \o ls)[i] = a[i]
        /\ \A i \in 1..Len(ls) : (a \o ls)[p + i] = ls[i]
    <2>1. /\ a \o ls \in Seq(Texts) /\ Len(a \o ls) = Len(a) + Len(ls)
          /\ \A i \in 1..Len(a) : (a \o ls)[i] = a[i]
          /\ \A i \in 1..Len(ls) : (a \o ls)[Len(a) + i] = ls[i]
      BY <1>1, ConcatIs
    <2> QED
      BY <1>1, <2>1
  <1> DEFINE b == a \o ls
  <1>4. b \in Seq(Texts) /\ Len(b) = p + Len(ls)
    BY <1>3
  <1> HIDE DEF b
  <1>5. /\ b \o z \in Seq(Texts) /\ Len(b \o z) = Len(b) + Len(z)
        /\ \A i \in 1..Len(b) : (b \o z)[i] = b[i]
        /\ \A i \in 1..Len(z) : (b \o z)[Len(b) + i] = z[i]
    BY <1>2, <1>4, ConcatIs
  <1>6. Insert(v, p, ls) = b \o z
    BY DEF Insert, a, b, z
  <1>7. \A i \in 1..p : (b \o z)[i] = v[i]
    <2> TAKE i \in 1..p
    <2>1. i \in 1..Len(b)
      BY <1>0, <1>4
    <2> QED
      BY <1>1, <1>3, <1>5, <2>1 DEF b
  <1>8. \A i \in 1..Len(ls) : (b \o z)[p + i] = ls[i]
    <2> TAKE i \in 1..Len(ls)
    <2>1. p + i \in 1..Len(b)
      BY <1>0, <1>4
    <2> QED
      BY <1>3, <1>5, <2>1 DEF b
  <1>9. \A i \in (p + 1)..Len(v) : (b \o z)[i + Len(ls)] = v[i]
    <2> TAKE i \in (p + 1)..Len(v)
    <2>1. i - p \in 1..Len(z) /\ i + Len(ls) = Len(b) + (i - p) /\ i = p + (i - p)
          /\ i - p \in 1..(Len(v) - p)
      BY <1>0, <1>2, <1>4
    <2>2. (b \o z)[Len(b) + (i - p)] = z[i - p]
      BY <1>5, <2>1
    <2>3. z[i - p] = v[p + (i - p)]
      BY <1>2, <2>1
    <2> QED
      BY <2>1, <2>2, <2>3
  <1>10. Len(b \o z) = Len(v) + Len(ls)
    BY <1>0, <1>2, <1>4, <1>5
  <1> HIDE DEF Insert
  <1> QED
    BY <1>5, <1>6, <1>7, <1>8, <1>9, <1>10

\* Where the lines are after an insertion behind line p.
Shifted(v, at, p, n) ==
  [i \in 1..Len(v) |-> IF at[i] <= p THEN at[i] ELSE at[i] + n]

\* Lines that are added behind line p of a VCL to which lines were added.
LEMMA InsertGrown ==
  ASSUME NEW v \in Seq(Texts), NEW w \in Seq(Texts), NEW at, Grown(v, w, at),
         NEW p \in 0..Len(w), NEW ls \in Seq(Added)
  PROVE  Grown(v, Insert(w, p, ls), Shifted(v, at, p, Len(ls)))
  <1> DEFINE u == Insert(w, p, ls)
             ut == Shifted(v, at, p, Len(ls))
  <1>0. /\ Len(v) \in Nat /\ Len(w) \in Nat /\ Len(ls) \in Nat
        /\ p \in Int /\ 0 <= p /\ p <= Len(w) /\ ls \in Seq(Texts)
        /\ \A i \in 1..Len(ls) : ls[i] \in Added
    BY DEF Texts
  <1>1. /\ Len(u) = Len(w) + Len(ls)
        /\ \A i \in 1..p : u[i] = w[i]
        /\ \A i \in 1..Len(ls) : u[p + i] = ls[i]
        /\ \A i \in (p + 1)..Len(w) : u[i + Len(ls)] = w[i]
    BY <1>0, InsertIs
  <1> HIDE DEF u
  <1>2. /\ at \in [1..Len(v) -> 1..Len(w)]
        /\ \A i, j \in 1..Len(v) : i < j => at[i] < at[j]
        /\ \A i \in 1..Len(v) : w[at[i]] = v[i]
    BY DEF Grown
  <1>3. \A i \in 1..Len(v) : ut[i] = IF at[i] <= p THEN at[i] ELSE at[i] + Len(ls)
    BY DEF Shifted
  <1>4. ut \in [1..Len(v) -> 1..Len(u)]
    <2>1. ASSUME NEW i \in 1..Len(v) PROVE ut[i] \in 1..Len(u)
      <3>1. at[i] \in 1..Len(w) /\ at[i] \in Int
        <4>1. at[i] \in 1..Len(w)
          BY <1>2, Zenon
        <4> QED
          BY <1>0, <4>1
      <3>2. ut[i] = at[i] \/ ut[i] = at[i] + Len(ls)
        BY <1>3
      <3> HIDE DEF ut
      <3> QED
        BY <1>0, <1>1, <3>1, <3>2
    <2> QED
      BY <2>1 DEF Shifted
  <1> HIDE DEF ut
  <1>5. ASSUME NEW i \in 1..Len(v), NEW j \in 1..Len(v), i < j
        PROVE  ut[i] < ut[j]
    <2>1. at[i] \in Int /\ at[j] \in Int /\ at[i] < at[j]
      BY <1>5, GrownAt
    <2>2. /\ ut[i] = IF at[i] <= p THEN at[i] ELSE at[i] + Len(ls)
          /\ ut[j] = IF at[j] <= p THEN at[j] ELSE at[j] + Len(ls)
      BY <1>3
    <2> QED
      BY <1>0, <2>1, <2>2
  <1>6. ASSUME NEW i \in 1..Len(v) PROVE u[ut[i]] = v[i]
    <2>1. at[i] \in 1..Len(w) /\ at[i] \in Int /\ w[at[i]] = v[i]
      <3>1. at[i] \in 1..Len(w) /\ w[at[i]] = v[i]
        BY <1>2, Zenon
      <3> QED
        BY <1>0, <3>1
    <2>2. CASE at[i] <= p
      <3>1. at[i] \in 1..p /\ ut[i] = at[i]
        BY <1>0, <1>3, <2>1, <2>2
      <3> QED
        BY <1>1, <2>1, <3>1
    <2>3. CASE ~(at[i] <= p)
      <3>1. at[i] \in (p + 1)..Len(w) /\ ut[i] = at[i] + Len(ls)
        BY <1>0, <1>3, <2>1, <2>3
      <3> QED
        BY <1>1, <2>1, <3>1
    <2> QED
      BY <2>2, <2>3
  <1>7. ASSUME NEW k \in 1..Len(u), \A i \in 1..Len(v) : ut[i] # k
        PROVE  u[k] \in Added
    <2>1. CASE k <= p
      <3>1. k \in 1..p /\ k \in 1..Len(w)
        BY <1>0, <2>1
      <3>2. ASSUME NEW i \in 1..Len(v), at[i] = k PROVE FALSE
        BY <1>3, <1>7, <2>1, <3>2
      <3> QED
        BY <1>1, <3>1, <3>2 DEF Grown
    <2>2. CASE p < k /\ k <= p + Len(ls)
      <3>1. k - p \in 1..Len(ls) /\ k = p + (k - p)
        BY <1>0, <2>2
      <3> QED
        BY <1>0, <1>1, <3>1
    <2>3. CASE k > p + Len(ls)
      <3> DEFINE m == k - Len(ls)
      <3>1. m \in (p + 1)..Len(w) /\ m \in 1..Len(w) /\ k = m + Len(ls)
        BY <1>0, <1>1, <2>3
      <3> HIDE DEF m
      <3>2. \A i \in 1..Len(v) : at[i] # m
        BY <1>0, <1>2, <1>3, <1>7, <3>1
      <3>3. u[k] = w[m]
        BY <1>1, <3>1
      <3> QED
        BY <3>1, <3>2, <3>3 DEF Grown
    <2> QED
      BY <1>0, <1>1, <2>1, <2>2, <2>3
  <1> QED
    BY <1>4, <1>5, <1>6, <1>7 DEF Grown, u, ut

\* Nothing is added at first.
LEMMA SelfGrown ==
  ASSUME NEW v \in Seq(Texts)
  PROVE  Grown(v, v, [i \in 1..Len(v) |-> i])
  BY DEF Grown

\* The first q lines of v are where they were.
Still(v, at, q) ==
  \A i \in 1..Len(v) : (i <= q => at[i] = i) /\ (q < i => q < at[i])

\* Only line k of w is `line'.
Sole(w, k, line) ==
  k \in 1..Len(w) /\ w[k] = line /\ \A j \in 1..Len(w) : w[j] = line => j = k

\* Line `line' is put behind line p of w, where nothing is added yet.
Inserted(v, w, at, u, p, line) ==
  /\ u \in Seq(Texts) /\ Len(u) = Len(w) + 1
  /\ \A k \in 1..Len(u) : u[k] \in Added =>
       p < k /\ (u[k] = line \/ \E j \in 1..Len(w) : w[j] = u[k])
  /\ Sole(u, p + 1, line)
  /\ \A k \in 1..Len(w), kind \in Added :
       Sole(w, k, kind) => Sole(u, k + 1, kind)
  /\ \E ut :
       /\ Grown(v, u, ut) /\ Still(v, ut, p)
       /\ Before(v, ut, p + 1, p + 1)
       /\ \A k \in 1..Len(w), i \in 1..(Len(v) + 1) :
            w[k] \in Added /\ Before(v, at, k, i) => Before(v, ut, k + 1, i)

\* A line of a new kind is inserted, before those that were added.
LEMMA InsertOne ==
  ASSUME NEW v \in Seq(Texts), NEW w \in Seq(Texts), NEW at, Grown(v, w, at),
         NEW q \in 0..Len(w), Still(v, at, q), NEW p \in 0..q,
         NEW line \in Added,
         \A k \in 1..Len(w) : w[k] \in Added => q < k /\ w[k] # line,
         NEW u, u = Insert(w, p, <<line>>)
  PROVE  Inserted(v, w, at, u, p, line)
  <1> DEFINE ls == <<line>>
             ut == Shifted(v, at, p, 1)
  <1>0. /\ Len(v) \in Nat /\ Len(w) \in Nat
        /\ p \in Int /\ 0 <= p /\ p <= q /\ q \in Int /\ q <= Len(w)
        /\ p \in 0..Len(w)
        /\ ls \in Seq(Texts) /\ ls \in Seq(Added) /\ Len(ls) = 1 /\ ls[1] = line
    BY DEF Texts
  <1> HIDE DEF ls
  <1>1. /\ u \in Seq(Texts) /\ Len(u) = Len(w) + 1
        /\ \A i \in 1..p : u[i] = w[i]
        /\ u[p + 1] = line
        /\ \A i \in (p + 1)..Len(w) : u[i + 1] = w[i]
    <2>1. u = Insert(w, p, ls)
      BY DEF ls
    <2>2. 1 \in 1..Len(ls)
      BY <1>0
    <2>3. /\ u \in Seq(Texts) /\ Len(u) = Len(w) + Len(ls)
          /\ \A i \in 1..p : u[i] = w[i]
          /\ \A i \in 1..Len(ls) : u[p + i] = ls[i]
          /\ \A i \in (p + 1)..Len(w) : u[i + Len(ls)] = w[i]
      <3> DEFINE x == Insert(w, p, ls)
      <3>1. /\ x \in Seq(Texts) /\ Len(x) = Len(w) + Len(ls)
            /\ \A i \in 1..p : x[i] = w[i]
            /\ \A i \in 1..Len(ls) : x[p + i] = ls[i]
            /\ \A i \in (p + 1)..Len(w) : x[i + Len(ls)] = w[i]
        <4>1. p \in 0..Len(w) /\ ls \in Seq(Texts)
          BY <1>0
        <4> QED
          BY <4>1, InsertIs
      <3>2. u = x
        BY <2>1
      <3> HIDE DEF x
      <3> QED
        BY <3>1, <3>2
    <2>4. u[p + 1] = ls[1]
      BY <2>2, <2>3
    <2> QED
      BY <1>0, <2>3, <2>4
  <1>2. Grown(v, u, ut)
    BY <1>0, InsertGrown DEF ls
  <1>3. \A i \in 1..Len(v) : at[i] \in 1..Len(w) /\ at[i] \in Int
    <2>1. at \in [1..Len(v) -> 1..Len(w)]
      BY DEF Grown
    <2>2. ASSUME NEW i \in 1..Len(v) PROVE at[i] \in 1..Len(w) /\ at[i] \in Int
      <3>1. at[i] \in 1..Len(w)
        BY <2>1, Zenon
      <3> QED
        BY <1>0, <3>1
    <2> QED
      BY <2>2
  <1>4. \A i \in 1..Len(v) : ut[i] = IF at[i] <= p THEN at[i] ELSE at[i] + 1
    BY DEF Shifted
  <1> HIDE DEF ut
  <1>5. Still(v, ut, p)
    <2>1. ASSUME NEW i \in 1..Len(v)
          PROVE  (i <= p => ut[i] = i) /\ (p < i => p < ut[i])
      <3>1. /\ i <= q => at[i] = i
            /\ q < i => q < at[i]
        BY DEF Still
      <3>2. at[i] \in Int /\ i \in Int
        BY <1>3
      <3>3. ut[i] = IF at[i] <= p THEN at[i] ELSE at[i] + 1
        BY <1>4
      <3> QED
        BY <1>0, <3>1, <3>2, <3>3
    <2> QED
      BY <2>1 DEF Still
  <1>6. Before(v, ut, p + 1, p + 1)
    <2>1. ASSUME NEW i \in 1..Len(v) PROVE ut[i] < p + 1 <=> i < p + 1
      <3>1. (i <= p => ut[i] = i) /\ (p < i => p < ut[i])
        BY <1>5 DEF Still
      <3>2. ut[i] \in Int /\ i \in Int
        BY <1>3, <1>4
      <3> QED
        BY <1>0, <3>1, <3>2
    <2> QED
      BY <2>1 DEF Before
  <1>7. ASSUME NEW k \in 1..Len(w), NEW i \in 1..(Len(v) + 1), w[k] \in Added,
               Before(v, at, k, i)
        PROVE  Before(v, ut, k + 1, i)
    <2>1. k \in Int /\ q < k
      BY <1>0, <1>7
    <2> QED
      BY <1>0, <1>3, <1>4, <1>7, <2>1 DEF Before
  <1>8. ASSUME NEW k \in 1..Len(u), u[k] \in Added
        PROVE  \/ k = p + 1
               \/ /\ k - 1 \in 1..Len(w) /\ w[k - 1] = u[k] /\ p + 1 < k
                  /\ k = (k - 1) + 1 /\ u[k] # line
    <2>1. CASE k <= p
      <3>1. k \in 1..p /\ k \in 1..Len(w) /\ ~(q < k)
        BY <1>0, <1>1, <2>1
      <3> QED
        BY <1>1, <1>8, <3>1
    <2>2. CASE p + 1 < k
      <3>1. k - 1 \in (p + 1)..Len(w) /\ k = (k - 1) + 1 /\ k - 1 \in 1..Len(w)
        BY <1>0, <1>1, <2>2
      <3>2. u[k] = w[k - 1]
        BY <1>1, <3>1
      <3> QED
        BY <1>8, <2>2, <3>1, <3>2
    <2> QED
      BY <1>0, <1>1, <2>1, <2>2
  <1>9. \A k \in 1..Len(u) : u[k] \in Added =>
          p < k /\ (u[k] = line \/ \E j \in 1..Len(w) : w[j] = u[k])
    <2> TAKE k \in 1..Len(u)
    <2>1. CASE k = p + 1
      BY <1>0, <1>1, <2>1
    <2>2. CASE k # p + 1
      <3> HAVE u[k] \in Added
      <3>1. k - 1 \in 1..Len(w) /\ w[k - 1] = u[k] /\ p + 1 < k
        BY <1>8, <2>2
      <3> QED
        BY <1>0, <3>1
    <2> QED
      BY <2>1, <2>2
  <1>10. Sole(u, p + 1, line)
    <2>1. p + 1 \in 1..Len(u)
      BY <1>0, <1>1
    <2>2. \A j \in 1..Len(u) : u[j] = line => j = p + 1
      BY <1>8
    <2> QED
      BY <1>1, <2>1, <2>2 DEF Sole
  <1>11. ASSUME NEW k \in 1..Len(w), NEW kind \in Added, Sole(w, k, kind)
         PROVE  Sole(u, k + 1, kind)
    <2>1. q < k /\ kind # line /\ w[k] = kind /\ k \in Int
      BY <1>0, <1>11 DEF Sole
    <2>2. k \in (p + 1)..Len(w) /\ k + 1 \in 1..Len(u)
      BY <1>0, <1>1, <2>1
    <2>3. u[k + 1] = kind
      BY <1>1, <2>1, <2>2
    <2>4. ASSUME NEW j \in 1..Len(u), u[j] = kind PROVE j = k + 1
      <3>1. j # p + 1
        BY <1>1, <2>1, <2>4
      <3>2. j - 1 \in 1..Len(w) /\ w[j - 1] = kind /\ j = (j - 1) + 1
        BY <1>8, <2>4, <3>1
      <3>3. j - 1 = k
        BY <1>11, <3>2 DEF Sole
      <3> QED
        BY <3>2, <3>3
    <2> QED
      BY <2>2, <2>3, <2>4 DEF Sole
  <1> QED
    BY <1>1, <1>2, <1>5, <1>6, <1>7, <1>9, <1>10, <1>11 DEF Inserted

\* Two insertions at one place are one.
LEMMA InsertTwice ==
  ASSUME NEW v \in Seq(Texts), NEW p \in 0..Len(v),
         NEW s \in Seq(Texts), NEW t \in Seq(Texts)
  PROVE  Insert(v, p, s \o t) = Insert(Insert(v, p, t), p, s)
  <1> DEFINE st == s \o t
             x == Insert(v, p, st)
             m == Insert(v, p, t)
             y == Insert(m, p, s)
  <1>0. /\ Len(v) \in Nat /\ Len(s) \in Nat /\ Len(t) \in Nat
        /\ p \in Int /\ 0 <= p /\ p <= Len(v)
    OBVIOUS
  <1>1. /\ st \in Seq(Texts) /\ Len(st) = Len(s) + Len(t)
        /\ \A i \in 1..Len(s) : st[i] = s[i]
        /\ \A i \in 1..Len(t) : st[Len(s) + i] = t[i]
    BY ConcatIs, SMTT(30)
  <1> HIDE DEF st
  <1>2. /\ x \in Seq(Texts) /\ Len(x) = Len(v) + Len(st)
        /\ \A i \in 1..p : x[i] = v[i]
        /\ \A i \in 1..Len(st) : x[p + i] = st[i]
        /\ \A i \in (p + 1)..Len(v) : x[i + Len(st)] = v[i]
    BY <1>1, InsertIs
  <1>3. /\ m \in Seq(Texts) /\ Len(m) = Len(v) + Len(t)
        /\ \A i \in 1..p : m[i] = v[i]
        /\ \A i \in 1..Len(t) : m[p + i] = t[i]
        /\ \A i \in (p + 1)..Len(v) : m[i + Len(t)] = v[i]
    BY InsertIs
  <1> HIDE DEF x, m
  <1>4. p \in 0..Len(m)
    BY <1>0, <1>3
  <1>5. /\ y \in Seq(Texts) /\ Len(y) = Len(m) + Len(s)
        /\ \A i \in 1..p : y[i] = m[i]
        /\ \A i \in 1..Len(s) : y[p + i] = s[i]
        /\ \A i \in (p + 1)..Len(m) : y[i + Len(s)] = m[i]
    BY <1>3, <1>4, InsertIs
  <1> HIDE DEF y
  <1>6. Len(x) = Len(y)
    BY <1>0, <1>1, <1>2, <1>3, <1>5
  <1>7. ASSUME NEW k \in 1..Len(x) PROVE x[k] = y[k]
    <2>0. k \in Int /\ 1 <= k /\ k <= Len(v) + Len(s) + Len(t)
      BY <1>0, <1>1, <1>2
    <2>1. CASE k <= p
      <3>1. k \in 1..p
        BY <2>0, <2>1
      <3> QED
        BY <1>2, <1>3, <1>5, <3>1
    <2>2. CASE p < k /\ k <= p + Len(s)
      <3>1. PICK i \in 1..Len(s) : k = p + i
        <4>1. k - p \in 1..Len(s) /\ k = p + (k - p)
          BY <1>0, <2>0, <2>2
        <4> QED
          BY <4>1
      <3>2. i \in 1..Len(st)
        BY <1>0, <1>1
      <3> QED
        BY <1>1, <1>2, <1>5, <3>1, <3>2
    <2>3. CASE p + Len(s) < k /\ k <= p + Len(s) + Len(t)
      <3>1. PICK i \in 1..Len(t) : k = p + Len(s) + i
        <4>1. /\ k - p - Len(s) \in 1..Len(t)
              /\ k = p + Len(s) + (k - p - Len(s))
          BY <1>0, <2>0, <2>3
        <4> QED
          BY <4>1
      <3>2. Len(s) + i \in 1..Len(st) /\ k = p + (Len(s) + i)
        BY <1>0, <1>1, <3>1
      <3>3. x[k] = t[i]
        BY <1>1, <1>2, <3>2
      <3>4. p + i \in (p + 1)..Len(m) /\ k = (p + i) + Len(s)
        BY <1>0, <1>3, <3>1
      <3>5. y[k] = t[i]
        BY <1>3, <1>5, <3>4
      <3> QED
        BY <3>3, <3>5
    <2>4. CASE p + Len(s) + Len(t) < k
      <3>1. PICK i \in (p + 1)..Len(v) : k = i + Len(t) + Len(s)
        <4>1. /\ k - Len(t) - Len(s) \in (p + 1)..Len(v)
              /\ k = (k - Len(t) - Len(s)) + Len(t) + Len(s)
          BY <1>0, <2>0, <2>4
        <4> QED
          BY <4>1
      <3>2. k = i + Len(st)
        BY <1>0, <1>1, <3>1
      <3>3. x[k] = v[i]
        BY <1>2, <3>2
      <3>4. i + Len(t) \in (p + 1)..Len(m) /\ k = (i + Len(t)) + Len(s)
        BY <1>0, <1>3, <3>1
      <3>5. y[k] = v[i]
        BY <1>3, <1>5, <3>4
      <3> QED
        BY <3>3, <3>5
    <2> QED
      BY <1>0, <2>0, <2>1, <2>2, <2>3, <2>4
  <1>8. x = y
    <2>1. x \in Seq(Texts) /\ y \in Seq(Texts)
      BY <1>2, <1>5
    <2> QED
      BY <1>6, <1>7, <2>1, SeqEqual
  <1> QED
    BY <1>8 DEF x, y, m, st

\* A gap behind a declaration is no more in text than the declaration is.
LEMMA AfterLive ==
  ASSUME NEW v \in Seq(Texts), NEW kind \in Texts \ {"open"},
         NEW i \in Live(v, kind)
  PROVE  ~InText(v, i + 1)
  <1>0. Len(v) \in Nat /\ i \in 1..Len(v) /\ v[i] = kind /\ ~InText(v, i)
    BY DEF Live
  <1>1. SUFFICES ASSUME NEW o \in 1..i, v[o] = "open",
                        \A k \in (o + 1)..i : v[k] # "close"
                 PROVE  FALSE
    BY <1>0 DEF InText
  <1>2. o \in 1..(i - 1)
    BY <1>0, <1>1
  <1>3. \A k \in (o + 1)..(i - 1) : v[k] # "close"
    BY <1>0, <1>1
  <1> QED
    BY <1>0, <1>1, <1>2, <1>3 DEF InText

\* Commenting out imports changes nothing else.
LEMMA CommentedOut ==
  ASSUME NEW v \in Seq(Texts), \A i \in 1..Len(v) : v[i] \notin Added,
         NEW from \in Int, NEW c, c = commentOutImportStdFrom(v, from)
  PROVE  /\ c \in Seq(Texts) /\ Len(c) = Len(v)
         /\ \A i \in 1..Len(c) : c[i] \notin Added
         /\ \A i \in 1..Len(c) :
              c[i] = v[i] \/ (c[i] = "gone" /\ i \in Live(v, "import"))
         /\ \A i \in 1..(Len(v) + 1) : InText(c, i) <=> InText(v, i)
         /\ \A kind \in {"backend", "deliver"} : Live(c, kind) = Live(v, kind)
         /\ Live(c, "import") = {i \in Live(v, "import") : i < from}
  <1> DEFINE n == Len(v)
  <1>0. n \in Nat /\ DOMAIN v = 1..n /\ \A i \in 1..n : v[i] \in Texts
    OBVIOUS
  <1>1. /\ c = [i \in 1..n |->
                 IF i \in Live(v, "import") /\ i >= from THEN "gone" ELSE v[i]]
    BY <1>0 DEF commentOutImportStdFrom
  <1> HIDE DEF n
  <1>2. c \in [1..n -> Texts]
    BY <1>0, <1>1 DEF Texts
  <1>3. c \in Seq(Texts) /\ Len(c) = n
    BY <1>0, <1>2
  <1>4. \A i \in 1..n :
          c[i] = IF i \in Live(v, "import") /\ i >= from THEN "gone" ELSE v[i]
    BY <1>1
  <1>5. \A i \in 1..n :
          c[i] = v[i] \/ (c[i] = "gone" /\ i \in Live(v, "import"))
    <2> TAKE i \in 1..n
    <2>1. CASE i \in Live(v, "import") /\ i >= from
      BY <1>4, <2>1
    <2>2. CASE ~(i \in Live(v, "import") /\ i >= from)
      BY <1>4, <2>2
    <2> QED
      BY <2>1, <2>2
  <1>6. \A i \in 1..n : c[i] \notin Added
    BY <1>5 DEF n, Added
  <1>7. \A i \in 1..n, kind \in {"open", "close", "backend", "deliver"} :
          c[i] = kind <=> v[i] = kind
    BY <1>5 DEF Live
  <1>8. ASSUME NEW i \in 1..(n + 1) PROVE InText(c, i) <=> InText(v, i)
    <2>1. \A o \in 1..(i - 1) : o \in 1..n /\ \A k \in (o + 1)..(i - 1) : k \in 1..n
      BY <1>0
    <2> QED
      BY <1>7, <2>1 DEF InText
  <1>9. DOMAIN c = 1..n /\ \A i \in 1..n : InText(c, i) <=> InText(v, i)
    BY <1>0, <1>2, <1>8
  <1>10. \A kind \in {"backend", "deliver"} : Live(c, kind) = Live(v, kind)
    BY <1>0, <1>7, <1>9 DEF Live
  <1>11. Live(c, "import") = {i \in Live(v, "import") : i < from}
    <2>1. \A i \in 1..n : i \in Live(c, "import") <=> c[i] = "import" /\ ~InText(v, i)
      BY <1>9 DEF Live
    <2>2. \A i \in 1..n : i \in Live(v, "import") <=> v[i] = "import" /\ ~InText(v, i)
      BY <1>0 DEF Live
    <2>3. \A i \in Live(c, "import") : i \in 1..n
      BY <1>9 DEF Live
    <2>4. \A i \in Live(v, "import") : i \in 1..n
      BY <1>0 DEF Live
    <2>5. \A i \in 1..n : i \in Int
      BY <1>0
    <2>6. \A i \in 1..n : i < from <=> ~(i >= from)
      BY <2>5
    <2> QED
      BY <1>4, <2>1, <2>2, <2>3, <2>4, <2>6
  <1> QED
    BY <1>3, <1>5, <1>6, <1>8, <1>10, <1>11 DEF n

\* Where the three lines are once they are inserted: the sub behind line gd of
\* the VCL, the backend behind line gb, and the import, if there is one, behind
\* line gi.
Injected(v, w, at, gb, gd) ==
  /\ w \in Seq(Texts) /\ Grown(v, w, at)
  /\ \E b, s \in 1..Len(w) :
       /\ b < s
       /\ Sole(w, b, "+backend") /\ Before(v, at, b, gb + 1)
       /\ Sole(w, s, "+deliver") /\ Before(v, at, s, gd + 1)

InjectedWithImport(v, w, gi, gb, gd) ==
  \E at :
    /\ Injected(v, w, at, gb, gd)
    /\ \E m \in 1..Len(w) :
         /\ Sole(w, m, "+import") /\ Before(v, at, m, gi + 1)
         /\ \A s \in 1..Len(w) : w[s] = "+deliver" => m < s

\* The sub, then the backend, then the import: each is put at or before the
\* place of the last, and is where it was put.
LEMMA InjectedOnes ==
  ASSUME NEW v \in Seq(Texts), \A i \in 1..Len(v) : v[i] \notin Added,
         NEW gd \in 0..Len(v), NEW gb \in 0..gd, NEW gi \in 0..gb,
         NEW w,
         w = Insert(Insert(v, gd, <<"+deliver">>), gb, <<"+backend">>)
  PROVE  /\ \E at : Injected(v, w, at, gb, gd)
         /\ \A k \in 1..Len(w) : w[k] # "+import"
         /\ InjectedWithImport(v, Insert(w, gi, <<"+import">>), gi, gb, gd)
  <1> DEFINE d == Insert(v, gd, <<"+deliver">>)
             x == Insert(w, gi, <<"+import">>)
             id == [i \in 1..Len(v) |-> i]
  <1>0. /\ Len(v) \in Nat /\ gd \in Int /\ gb \in Int /\ gi \in Int
        /\ 0 <= gi /\ gi <= gb /\ gb <= gd /\ gd <= Len(v)
        /\ w = Insert(d, gb, <<"+backend">>)
        /\ gd + 1 \in 1..(Len(v) + 1) /\ gb + 1 \in 1..(Len(v) + 1)
    OBVIOUS
  <1>1. Grown(v, v, id) /\ Still(v, id, gd)
    BY SelfGrown DEF Still
  <1> HIDE DEF id, d, x
  <1>2. PICK at1 :
          /\ d \in Seq(Texts) /\ Len(d) = Len(v) + 1
          /\ Grown(v, d, at1) /\ Still(v, at1, gd)
          /\ \A k \in 1..Len(d) : d[k] \in Added => gd < k /\ d[k] = "+deliver"
          /\ Sole(d, gd + 1, "+deliver") /\ Before(v, at1, gd + 1, gd + 1)
    <2>1. gd \in 0..Len(v) /\ gd \in 0..gd
      BY <1>0
    <2>2. /\ d = Insert(v, gd, <<"+deliver">>) /\ "+deliver" \in Added
          /\ \A k \in 1..Len(v) : v[k] \in Added => gd < k /\ v[k] # "+deliver"
      BY DEF d, Added
    <2>3. /\ d \in Seq(Texts) /\ Len(d) = Len(v) + 1
          /\ \A k \in 1..Len(d) : d[k] \in Added =>
               gd < k /\ (d[k] = "+deliver" \/ \E j \in 1..Len(v) : v[j] = d[k])
          /\ Sole(d, gd + 1, "+deliver")
          /\ \E ut : /\ Grown(v, d, ut) /\ Still(v, ut, gd)
                     /\ Before(v, ut, gd + 1, gd + 1)
      <3>1. Inserted(v, v, id, d, gd, "+deliver")
        BY <1>1, <2>1, <2>2, InsertOne
      <3> QED
        BY <3>1 DEF Inserted
    <2>4. \A k \in 1..Len(d) : d[k] \in Added => gd < k /\ d[k] = "+deliver"
      BY <2>3
    <2> QED
      BY <2>3, <2>4
  <1>3. PICK at2 :
          /\ w \in Seq(Texts) /\ Len(w) = Len(v) + 2
          /\ Grown(v, w, at2) /\ Still(v, at2, gb)
          /\ \A k \in 1..Len(w) :
               w[k] \in Added => gb < k /\ w[k] \in {"+deliver", "+backend"}
          /\ Sole(w, gd + 2, "+deliver") /\ Before(v, at2, gd + 2, gd + 1)
          /\ Sole(w, gb + 1, "+backend") /\ Before(v, at2, gb + 1, gb + 1)
    <2>1. gd \in 0..Len(d) /\ gb \in 0..gd /\ gd + 1 \in 1..Len(d)
          /\ (gd + 1) + 1 = gd + 2
      BY <1>0, <1>2
    <2>2. /\ w = Insert(d, gb, <<"+backend">>)
          /\ "+backend" \in Added /\ "+deliver" \in Added
          /\ \A k \in 1..Len(d) : d[k] \in Added => gd < k /\ d[k] # "+backend"
          /\ d[gd + 1] \in Added
      BY <1>0, <1>2 DEF Added, Sole
    <2>3. /\ w \in Seq(Texts) /\ Len(w) = Len(d) + 1
          /\ \A k \in 1..Len(w) : w[k] \in Added =>
               gb < k /\ (w[k] = "+backend" \/ \E j \in 1..Len(d) : d[j] = w[k])
          /\ Sole(w, gb + 1, "+backend")
          /\ \A k \in 1..Len(d), kind \in Added :
               Sole(d, k, kind) => Sole(w, k + 1, kind)
          /\ \E ut :
               /\ Grown(v, w, ut) /\ Still(v, ut, gb)
               /\ Before(v, ut, gb + 1, gb + 1)
               /\ \A k \in 1..Len(d), i \in 1..(Len(v) + 1) :
                    d[k] \in Added /\ Before(v, at1, k, i) => Before(v, ut, k + 1, i)
      <3>1. d \in Seq(Texts) /\ Grown(v, d, at1) /\ Still(v, at1, gd)
        BY <1>2
      <3>2. gd \in 0..Len(d) /\ gb \in 0..gd
        BY <2>1
      <3>3. Inserted(v, d, at1, w, gb, "+backend")
        BY <2>2, <3>1, <3>2, InsertOne
      <3> QED
        BY <3>3 DEF Inserted
    <2>4. \A k \in 1..Len(w) :
            w[k] \in Added => gb < k /\ w[k] \in {"+deliver", "+backend"}
      BY <1>2, <2>3
    <2>5. Sole(w, gd + 2, "+deliver")
      BY <1>2, <2>1, <2>2, <2>3
    <2>6. Len(w) = Len(v) + 2
      BY <1>0, <1>2, <2>3
    <2> QED
      BY <1>0, <1>2, <2>1, <2>2, <2>3, <2>4, <2>5, <2>6
  <1>4. PICK at3 :
          /\ x \in Seq(Texts) /\ Len(x) = Len(v) + 3
          /\ Grown(v, x, at3)
          /\ Sole(x, gd + 3, "+deliver") /\ Before(v, at3, gd + 3, gd + 1)
          /\ Sole(x, gb + 2, "+backend") /\ Before(v, at3, gb + 2, gb + 1)
          /\ Sole(x, gi + 1, "+import") /\ Before(v, at3, gi + 1, gi + 1)
    <2>1. /\ gb \in 0..Len(w) /\ gi \in 0..gb
          /\ gd + 2 \in 1..Len(w) /\ gb + 1 \in 1..Len(w)
          /\ (gd + 2) + 1 = gd + 3 /\ (gb + 1) + 1 = gb + 2
      BY <1>0, <1>3
    <2>2. /\ x = Insert(w, gi, <<"+import">>)
          /\ "+backend" \in Added /\ "+deliver" \in Added /\ "+import" \in Added
          /\ \A k \in 1..Len(w) : w[k] \in Added => gb < k /\ w[k] # "+import"
          /\ w[gd + 2] \in Added /\ w[gb + 1] \in Added
      BY <1>3 DEF Added, Sole, x
    <2>3. /\ x \in Seq(Texts) /\ Len(x) = Len(w) + 1
          /\ Sole(x, gi + 1, "+import")
          /\ \A k \in 1..Len(w), kind \in Added :
               Sole(w, k, kind) => Sole(x, k + 1, kind)
          /\ \E ut :
               /\ Grown(v, x, ut)
               /\ Before(v, ut, gi + 1, gi + 1)
               /\ \A k \in 1..Len(w), i \in 1..(Len(v) + 1) :
                    w[k] \in Added /\ Before(v, at2, k, i) => Before(v, ut, k + 1, i)
      <3>1. w \in Seq(Texts) /\ Grown(v, w, at2) /\ Still(v, at2, gb)
        BY <1>3
      <3>2. gb \in 0..Len(w) /\ gi \in 0..gb
        BY <2>1
      <3>3. Inserted(v, w, at2, x, gi, "+import")
        BY <2>2, <3>1, <3>2, InsertOne
      <3> QED
        BY <3>3 DEF Inserted
    <2>4. Sole(x, gd + 3, "+deliver") /\ Sole(x, gb + 2, "+backend")
      BY <1>3, <2>1, <2>2, <2>3
    <2>5. Len(x) = Len(v) + 3
      BY <1>0, <1>3, <2>3
    <2> QED
      BY <1>0, <1>3, <2>1, <2>2, <2>3, <2>4, <2>5
  <1>5. Injected(v, w, at2, gb, gd)
    <2>1. gd + 2 \in 1..Len(w) /\ gb + 1 \in 1..Len(w) /\ gb + 1 < gd + 2
      BY <1>0, <1>3
    <2> QED
      BY <1>3, <2>1 DEF Injected
  <1>6. Injected(v, x, at3, gb, gd)
    <2>1. gd + 3 \in 1..Len(x) /\ gb + 2 \in 1..Len(x) /\ gb + 2 < gd + 3
      BY <1>0, <1>4
    <2> QED
      BY <1>4, <2>1 DEF Injected
  <1>7. \A k \in 1..Len(w) : w[k] # "+import"
    BY <1>3 DEF Added
  <1>8. gi + 1 \in 1..Len(x) /\ \A s \in 1..Len(x) : x[s] = "+deliver" => gi + 1 < s
    BY <1>0, <1>4 DEF Sole
  <1>9. /\ Injected(v, x, at3, gb, gd)
        /\ \E m \in 1..Len(x) :
             /\ Sole(x, m, "+import") /\ Before(v, at3, m, gi + 1)
             /\ \A s \in 1..Len(x) : x[s] = "+deliver" => m < s
    BY <1>4, <1>6, <1>8
  <1> QED
    BY <1>5, <1>7, <1>9 DEF x, InjectedWithImport

\* DrainCompiles of a VCL v and what it was made.
Compiles(v, w) ==
  LET imports == Live(w, "import") \cup Live(w, "+import")
      sub == Live(w, "+deliver")
      backend == Live(w, "+backend")
      user == {i \in DOMAIN w : w[i] \notin Added}
      place(i) == Cardinality({j \in user : j <= i})
  IN  /\ \A i, j \in imports : i = j
      /\ \E i \in imports, b \in backend, s \in sub : i < s /\ b < s
      /\ \A i, j \in sub : i = j
      /\ Live(w, "backend") # {} =>
           \A b \in backend : \E u \in Live(w, "backend") : u < b
      /\ Cardinality(user) = Len(v)
      /\ \A i \in user :
           \/ w[i] = v[place(i)]
           \/ w[i] = "gone" /\ place(i) \in Live(v, "import")

\* And the sub is before every vcl_deliver of the user's that its gap is.
Good(v, w, gd) ==
  /\ Compiles(v, w)
  /\ (\A d \in Live(v, "deliver") : gd < d) =>
       \A s \in Live(w, "+deliver"), d \in Live(w, "deliver") : s < d

\* The import of the user's that is left is before the sub, or there is none
\* and one of ours is.
Imported(c, w, gd) ==
  \/ /\ \E i \in Live(c, "import") :
          i <= gd /\ \A j \in Live(c, "import") : j = i
     /\ \A k \in 1..Len(w) : w[k] # "+import"
  \/ /\ Live(c, "import") = {}
     /\ \E m \in 1..Len(w) :
          /\ Sole(w, m, "+import") /\ ~InText(w, m)
          /\ \A s \in 1..Len(w) : w[s] = "+deliver" => m < s

\* Lines put outside text, behind the import that is left or with one of their
\* own, are where they work.
LEMMA InPlace ==
  ASSUME NEW v \in Seq(Texts), \A i \in 1..Len(v) : v[i] \notin Added,
         NEW from \in Int, NEW c, c = commentOutImportStdFrom(v, from),
         NEW gb \in 0..Len(v), NEW gd \in 0..Len(v),
         ~InText(v, gb + 1), ~InText(v, gd + 1),
         NEW w, NEW at, Injected(c, w, at, gb, gd),
         Imported(c, w, gd),
         Live(v, "backend") = {} \/ \E u \in Live(v, "backend") : u <= gb
  PROVE  Good(v, w, gd)
  <1>1. /\ c \in Seq(Texts) /\ Len(c) = Len(v)
        /\ \A i \in 1..Len(c) : c[i] \notin Added
        /\ \A i \in 1..Len(c) :
             c[i] = v[i] \/ (c[i] = "gone" /\ i \in Live(v, "import"))
        /\ \A i \in 1..(Len(v) + 1) : InText(c, i) <=> InText(v, i)
        /\ Live(c, "backend") = Live(v, "backend")
        /\ Live(c, "deliver") = Live(v, "deliver")
    BY CommentedOut
  <1>2. w \in Seq(Texts) /\ Grown(c, w, at)
    BY DEF Injected
  <1>3. PICK b, s \in 1..Len(w) :
          /\ b < s
          /\ Sole(w, b, "+backend") /\ Before(c, at, b, gb + 1)
          /\ Sole(w, s, "+deliver") /\ Before(c, at, s, gd + 1)
    BY DEF Injected
  <1>4. /\ Len(v) \in Nat /\ Len(w) \in Nat /\ b \in Int /\ s \in Int
        /\ gb \in Int /\ gd \in Int /\ DOMAIN w = 1..Len(w)
        /\ DOMAIN c = 1..Len(c)
        /\ gb + 1 \in 1..(Len(c) + 1) /\ gd + 1 \in 1..(Len(c) + 1)
    BY <1>1, <1>2
  <1>5. \A i \in 1..Len(c) : at[i] \in 1..Len(w) /\ at[i] \in Int
    <2>1. at \in [1..Len(c) -> 1..Len(w)]
      BY <1>2 DEF Grown
    <2>2. ASSUME NEW i \in 1..Len(c) PROVE at[i] \in 1..Len(w) /\ at[i] \in Int
      <3>1. at[i] \in 1..Len(w)
        BY <2>1, Zenon
      <3> QED
        BY <1>4, <3>1
    <2> QED
      BY <2>2
  <1>6. ~InText(w, b) /\ ~InText(w, s)
    BY <1>1, <1>2, <1>3, <1>4, TextGrown
  <1>7. Live(w, "+backend") = {b} /\ Live(w, "+deliver") = {s}
    BY <1>3, <1>4, <1>6 DEF Live, Sole
  <1>8. ASSUME NEW kind \in {"import", "backend", "deliver"}
        PROVE  /\ \A i \in Live(c, kind) : at[i] \in Live(w, kind)
               /\ \A k \in Live(w, kind) : \E i \in Live(c, kind) : at[i] = k
    <2>1. kind \in Texts \ Added
      BY DEF Texts, Lines, Added
    <2>2. /\ c \in Seq(Texts) /\ w \in Seq(Texts) /\ Grown(c, w, at)
          /\ \A i \in 1..Len(c) : c[i] \notin Added
      BY <1>1, <1>2
    <2> QED
      BY <2>1, <2>2, LiveGrown
  <1>9. \A kind \in {"import", "backend", "deliver"} :
          \A i \in Live(c, kind) : i \in 1..Len(c) /\ i \in Int
    BY <1>1, <1>4 DEF Live
  <1>10. /\ \A i \in 1..Len(c) : at[i] < s <=> i < gd + 1
         /\ \A i \in 1..Len(c) : at[i] < b <=> i < gb + 1
    BY <1>3 DEF Before
  <1>11. \E i \in Live(w, "import") \cup Live(w, "+import") :
           /\ i < s
           /\ \A j \in Live(w, "import") \cup Live(w, "+import") : j = i
    <2>1. CASE /\ \E i \in Live(c, "import") :
                    i <= gd /\ \A j \in Live(c, "import") : j = i
               /\ \A k \in 1..Len(w) : w[k] # "+import"
      <3>1. Live(w, "+import") = {}
        BY <1>4, <2>1 DEF Live
      <3>2. PICK i \in Live(c, "import") :
              i <= gd /\ \A j \in Live(c, "import") : j = i
        BY <2>1
      <3>3. at[i] \in Live(w, "import") /\ at[i] < s
        BY <1>4, <1>8, <1>9, <1>10, <3>2
      <3>4. \A j \in Live(w, "import") : j = at[i]
        BY <1>8, <3>2
      <3> QED
        BY <3>1, <3>3, <3>4
    <2>2. CASE /\ Live(c, "import") = {}
               /\ \E m \in 1..Len(w) :
                    /\ Sole(w, m, "+import") /\ ~InText(w, m)
                    /\ \A r \in 1..Len(w) : w[r] = "+deliver" => m < r
      <3>1. Live(w, "import") = {}
        BY <1>8, <2>2
      <3>2. PICK m \in 1..Len(w) :
              /\ Sole(w, m, "+import") /\ ~InText(w, m)
              /\ \A r \in 1..Len(w) : w[r] = "+deliver" => m < r
        BY <2>2
      <3>3. m \in Live(w, "+import") /\ \A j \in Live(w, "+import") : j = m
        BY <1>4, <3>2 DEF Live, Sole
      <3>4. m < s
        BY <1>3, <3>2 DEF Sole
      <3> QED
        BY <3>1, <3>3, <3>4
    <2> QED
      BY <2>1, <2>2 DEF Imported
  <1>12. Live(w, "backend") # {} => \E u \in Live(w, "backend") : u < b
    <2> HAVE Live(w, "backend") # {}
    <2>1. Live(v, "backend") # {}
      BY <1>1, <1>8
    <2>2. PICK u \in Live(c, "backend") : u <= gb
      BY <1>1, <2>1
    <2>3. at[u] \in Live(w, "backend") /\ at[u] < b
      BY <1>4, <1>8, <1>9, <1>10, <2>2
    <2> QED
      BY <2>3
  <1>13. /\ Cardinality(Kept(w)) = Len(v)
         /\ \A i \in Kept(w) :
              \/ w[i] = v[PlaceIn(w, i)]
              \/ w[i] = "gone" /\ PlaceIn(w, i) \in Live(v, "import")
    <2>2. /\ Cardinality(Kept(w)) = Len(c)
          /\ \A i \in 1..Len(c) :
               at[i] \in Kept(w) /\ PlaceIn(w, at[i]) = i
          /\ \A k \in Kept(w) : \E i \in 1..Len(c) : at[i] = k
      <3>1. /\ c \in Seq(Texts) /\ w \in Seq(Texts) /\ Grown(c, w, at)
            /\ \A i \in 1..Len(c) : c[i] \notin Added
        BY <1>1, <1>2
      <3> QED
        BY <3>1, PlaceGrown
    <2>3. ASSUME NEW k \in Kept(w)
          PROVE  \/ w[k] = v[PlaceIn(w, k)]
                 \/ w[k] = "gone" /\ PlaceIn(w, k) \in Live(v, "import")
      <3>1. PICK i \in 1..Len(c) : at[i] = k
        BY <2>2
      <3>2. PlaceIn(w, k) = i
        BY <2>2, <3>1
      <3>3. w[k] = c[i]
        BY <1>2, <3>1 DEF Grown
      <3> QED
        BY <1>1, <3>2, <3>3
    <2> QED
      BY <1>1, <2>2, <2>3
  <1>14. Compiles(v, w)
    <2>1. \A i, j \in Live(w, "import") \cup Live(w, "+import") : i = j
      BY <1>11
    <2>2. \E i \in Live(w, "import") \cup Live(w, "+import"),
             e \in Live(w, "+backend"), r \in Live(w, "+deliver") : i < r /\ e < r
      BY <1>3, <1>7, <1>11
    <2> QED
      BY <1>7, <1>12, <1>13, <2>1, <2>2 DEF Compiles, Kept, PlaceIn
  <1>15. ASSUME \A d \in Live(v, "deliver") : gd < d,
                NEW d \in Live(w, "deliver")
         PROVE  s < d
    <2>1. PICK i \in Live(c, "deliver") : at[i] = d
      BY <1>8
    <2>2. gd < i /\ i \in 1..Len(c) /\ i \in Int
      BY <1>1, <1>9, <1>15, <2>1
    <2>3. ~(at[i] < s) /\ at[i] \in Int
      BY <1>4, <1>5, <1>10, <2>2
    <2>4. at[i] # s
      BY <1>3, <2>1 DEF Live, Sole
    <2> QED
      BY <1>4, <2>1, <2>3, <2>4
  <1> QED
    BY <1>7, <1>14, <1>15 DEF Good

\* A VCL that compiles declares its version before anything else.
VclOK(v) ==
  /\ v \in Seq(Texts) /\ \A i \in 1..Len(v) : v[i] \notin Added
  /\ Compilable(v)
  /\ versionEnd(v) \in Live(v, "version")
  /\ \A kind \in {"import", "backend", "deliver"} :
       \A i \in Live(v, kind) : versionEnd(v) < i

\* With an import of the user's before the sub.
LEMMA UserImport ==
  ASSUME NEW v, VclOK(v), NEW from \in Int,
         NEW gd \in 0..Len(v), NEW gb \in 0..gd,
         ~InText(v, gb + 1), ~InText(v, gd + 1), from <= gd + 1,
         Live(v, "backend") = {} \/ \E u \in Live(v, "backend") : u <= gb,
         \E i \in Live(v, "import") : i < from,
         NEW w, w = Insert(Insert(commentOutImportStdFrom(v, from), gd,
                                  <<"+deliver">>), gb, <<"+backend">>)
  PROVE  Good(v, w, gd)
  <1> DEFINE c == commentOutImportStdFrom(v, from)
  <1>1. /\ v \in Seq(Texts) /\ \A i \in 1..Len(v) : v[i] \notin Added
        /\ \A i, j \in Live(v, "import") : i = j
    BY DEF VclOK, Compilable
  <1>2. /\ c \in Seq(Texts) /\ Len(c) = Len(v)
        /\ \A i \in 1..Len(c) : c[i] \notin Added
        /\ Live(c, "import") = {i \in Live(v, "import") : i < from}
    BY <1>1, CommentedOut
  <1>3. w = Insert(Insert(c, gd, <<"+deliver">>), gb, <<"+backend">>)
    OBVIOUS
  <1>4. c = commentOutImportStdFrom(v, from)
    OBVIOUS
  <1> HIDE DEF c
  <1>5. Len(v) \in Nat /\ gd \in Int /\ gb \in Int /\ gd \in 0..Len(c)
        /\ gb \in 0..Len(v) /\ 0 \in 0..gb
    BY <1>1, <1>2
  <1>6. PICK at : Injected(c, w, at, gb, gd)
    BY <1>2, <1>3, <1>5, InjectedOnes
  <1>7. \A k \in 1..Len(w) : w[k] # "+import"
    BY <1>2, <1>3, <1>5, InjectedOnes
  <1>8. PICK i \in Live(v, "import") : i < from
    OBVIOUS
  <1>9. i \in Live(c, "import") /\ i <= gd /\ \A j \in Live(c, "import") : j = i
    <2>1. i \in Int
      BY <1>1, <1>5 DEF Live
    <2> QED
      BY <1>1, <1>2, <1>5, <1>8, <2>1
  <1>10. Imported(c, w, gd)
    BY <1>7, <1>9 DEF Imported
  <1>11. /\ v \in Seq(Texts) /\ \A j \in 1..Len(v) : v[j] \notin Added
         /\ gb \in 0..Len(v)
    BY <1>1, <1>5
  <1> QED
    BY <1>4, <1>6, <1>10, <1>11, InPlace

\* With an import of ours behind the version.
LEMMA OurImport ==
  ASSUME NEW v, VclOK(v), NEW from \in Int,
         NEW gd \in 0..Len(v), NEW gb \in 0..gd, versionEnd(v) <= gb,
         ~InText(v, gb + 1), ~InText(v, gd + 1),
         Live(v, "backend") = {} \/ \E u \in Live(v, "backend") : u <= gb,
         \A i \in Live(v, "import") : ~(i < from),
         NEW w, w = Insert(Insert(commentOutImportStdFrom(v, from), gd,
                                  <<"+deliver">>), gb, <<"+backend">>),
         NEW x, x = Insert(w, versionEnd(v), <<"+import">>)
  PROVE  Good(v, x, gd)
  <1> DEFINE c == commentOutImportStdFrom(v, from)
             gi == versionEnd(v)
  <1>1. /\ v \in Seq(Texts) /\ \A i \in 1..Len(v) : v[i] \notin Added
        /\ \A i, j \in Live(v, "import") : i = j
        /\ gi \in Live(v, "version")
    BY DEF VclOK, Compilable
  <1>2. /\ c \in Seq(Texts) /\ Len(c) = Len(v)
        /\ \A i \in 1..Len(c) : c[i] \notin Added
        /\ Live(c, "import") = {i \in Live(v, "import") : i < from}
        /\ \A i \in 1..(Len(v) + 1) : InText(c, i) <=> InText(v, i)
    BY <1>1, CommentedOut
  <1>3. /\ w = Insert(Insert(c, gd, <<"+deliver">>), gb, <<"+backend">>)
        /\ x = Insert(w, gi, <<"+import">>)
        /\ c = commentOutImportStdFrom(v, from) /\ gi <= gb
    OBVIOUS
  <1>4. ~InText(v, gi + 1)
    BY <1>1, AfterLive DEF Texts
  <1> HIDE DEF c, gi
  <1>5. Len(v) \in Nat /\ gd \in Int /\ gb \in Int /\ gd \in 0..Len(c)
        /\ gb \in 0..Len(v) /\ gi \in 0..gb /\ gi \in Nat
        /\ gi + 1 \in 1..(Len(c) + 1)
    <2>1. gi \in 1..Len(v)
      BY <1>1 DEF Live
    <2> QED
      BY <1>1, <1>2, <1>3, <2>1
  <1>6. PICK at : /\ Injected(c, x, at, gb, gd)
                  /\ \E m \in 1..Len(x) :
                       /\ Sole(x, m, "+import") /\ Before(c, at, m, gi + 1)
                       /\ \A s \in 1..Len(x) : x[s] = "+deliver" => m < s
    <2>1. InjectedWithImport(c, x, gi, gb, gd)
      BY <1>2, <1>3, <1>5, InjectedOnes
    <2> QED
      BY <2>1 DEF InjectedWithImport
  <1>7. PICK m \in 1..Len(x) :
          /\ Sole(x, m, "+import") /\ Before(c, at, m, gi + 1)
          /\ \A s \in 1..Len(x) : x[s] = "+deliver" => m < s
    BY <1>6
  <1>8. ~InText(x, m)
    <2>1. x \in Seq(Texts) /\ Grown(c, x, at)
      BY <1>6 DEF Injected
    <2>2. /\ c \in Seq(Texts) /\ \A i \in 1..Len(c) : c[i] \notin Added
          /\ gi + 1 \in 1..(Len(c) + 1) /\ Before(c, at, m, gi + 1)
      BY <1>2, <1>5, <1>7
    <2>3. InText(x, m) <=> InText(c, gi + 1)
      BY <2>1, <2>2, TextGrown
    <2> QED
      BY <1>2, <1>4, <1>5, <2>3
  <1>9. Live(c, "import") = {}
    BY <1>2
  <1>10. Imported(c, x, gd)
    BY <1>7, <1>8, <1>9 DEF Imported
  <1> QED
    BY <1>1, <1>3, <1>5, <1>6, <1>10, InPlace

\* DrainFirst of a VCL, what it was made, and whether a warning was given.
First(v, w, warn) ==
  Live(v, "backend") # {} =>
    \/ \A s \in Live(w, "+deliver"), d \in Live(w, "deliver") : s < d
    \/ warn /\ \A d \in Live(v, "deliver"), b \in Live(v, "backend") :
                 d = Least(Live(v, "deliver"), 0) => d < b

\* Places are numbers of lines.
LEMMA LiveIn ==
  ASSUME NEW v \in Seq(Texts), NEW kind
  PROVE  Live(v, kind) \subseteq 1..Len(v) /\ Live(v, kind) \subseteq Nat
  <1>1. Len(v) \in Nat /\ DOMAIN v = 1..Len(v)
    OBVIOUS
  <1> QED
    BY <1>1 DEF Live

\* injectDrainPrepended is right.
LEMMA PrependedRight ==
  ASSUME NEW v, VclOK(v), Prepended(v), NEW w,
         w = injectDrainPrepended(v, Least(Live(v, "backend"), 0),
                                  Least(Live(v, "deliver"), 0)),
         NEW warn
  PROVE  Compiles(v, w) /\ First(v, w, warn)
  <1> DEFINE d == Least(Live(v, "deliver"), 0)
             fb == Least(Live(v, "backend"), 0)
             ve == versionEnd(v)
             c == commentOutImportStdFrom(v, d)
             m == Insert(Insert(c, d - 1, <<"+deliver">>), fb, <<"+backend">>)
  <1>1. /\ v \in Seq(Texts) /\ Len(v) \in Nat
        /\ Live(v, "deliver") \subseteq 1..Len(v) /\ Live(v, "deliver") \subseteq Nat
        /\ Live(v, "backend") \subseteq 1..Len(v) /\ Live(v, "backend") \subseteq Nat
        /\ \A i \in Live(v, "backend") : ve < i
        /\ ve \in Live(v, "version") /\ ve \in Nat
    BY LiveIn DEF VclOK
  <1>2. PICK b \in Live(v, "backend") : b < d
    BY DEF Prepended
  <1>3. fb \in Live(v, "backend") /\ \A x \in Live(v, "backend") : fb <= x
    BY <1>1, <1>2, LeastIs
  <1>4. d \in Live(v, "deliver") /\ \A x \in Live(v, "deliver") : d <= x
    <2>1. CASE Live(v, "deliver") = {}
      <3>1. d = 0
        BY <2>1 DEF Least
      <3> QED
        BY <1>1, <1>2, <3>1
    <2>2. CASE Live(v, "deliver") # {}
      BY <1>1, <2>2, LeastIs
    <2> QED
      BY <2>1, <2>2
  <1>5. ~InText(v, d) /\ ~InText(v, fb + 1)
    BY <1>1, <1>3, <1>4, AfterLive DEF Live, Texts, Lines
  <1>6. w = WithImport(v, d, m)
    BY DEF injectDrainPrepended
  <1> HIDE DEF d, fb, ve
  <1>7. /\ d \in 1..Len(v) /\ d \in Int /\ fb \in Int
        /\ d - 1 \in 0..Len(v) /\ fb \in 0..(d - 1) /\ ve < fb /\ d <= (d - 1) + 1
        /\ (d - 1) + 1 = d
    BY <1>1, <1>2, <1>3, <1>4
  <1>8. \E u \in Live(v, "backend") : u <= fb
    BY <1>3, <1>7
  <1>9. Good(v, w, d - 1)
    <2>1. CASE \E i \in Live(v, "import") : i < d
      <3>1. w = m
        BY <1>6, <2>1 DEF WithImport
      <3> QED
        BY <1>5, <1>7, <1>8, <2>1, <3>1, UserImport
    <2>2. CASE ~ \E i \in Live(v, "import") : i < d
      <3>1. w = Insert(m, ve, <<"+import">>)
        <4>1. ~(ve > d)
          BY <1>1, <1>7
        <4> QED
          BY <1>6, <2>2, <4>1 DEF WithImport, ve
      <3>2. versionEnd(v) <= fb /\ \A i \in Live(v, "import") : ~(i < d)
        BY <1>1, <1>7, <2>2 DEF ve
      <3>3. w = Insert(m, versionEnd(v), <<"+import">>)
        BY <3>1 DEF ve
      <3> QED
        BY <1>5, <1>7, <1>8, <3>2, <3>3, OurImport
    <2> QED
      BY <2>1, <2>2
  <1>10. \A x \in Live(v, "deliver") : d - 1 < x
    BY <1>1, <1>4, <1>7
  <1> QED
    BY <1>9, <1>10 DEF Good, First

\* Without an import of the user's behind it, nothing is commented out.
LEMMA NothingToComment ==
  ASSUME NEW v \in Seq(Texts), NEW from, \A i \in Live(v, "import") : ~(i >= from)
  PROVE  commentOutImportStdFrom(v, from) = v
  <1>1. \A i \in DOMAIN v :
          (IF i \in Live(v, "import") /\ i >= from THEN "gone" ELSE v[i]) = v[i]
    OBVIOUS
  <1>2. v = [i \in DOMAIN v |-> v[i]]
    OBVIOUS
  <1> QED
    BY <1>1, <1>2 DEF commentOutImportStdFrom

\* injectDrainVCLLegacy is right, and warns.
LEMMA LegacyRight ==
  ASSUME NEW v, VclOK(v), ~Prepended(v), NEW w, w = injectDrainVCLLegacy(v),
         NEW warn, warn <=> \E d \in Live(v, "deliver") : d < backendsEnd(v)
  PROVE  Compiles(v, w) /\ First(v, w, warn)
  <1> DEFINE end == backendsEnd(v)
             ve == versionEnd(v)
             imports == {i \in Live(v, "import") : i >= ve}
             import == Least(imports, 0)
             Ins(c, gd, gb) ==
               Insert(Insert(c, gd, <<"+deliver">>), gb, <<"+backend">>)
  <1>1. /\ v \in Seq(Texts) /\ Len(v) \in Nat /\ Compilable(v)
        /\ \A kind \in {"import", "backend", "deliver"} :
             /\ Live(v, kind) \subseteq 1..Len(v) /\ Live(v, kind) \subseteq Nat
             /\ \A i \in Live(v, kind) : ve < i
        /\ ve \in Live(v, "version") /\ ve \in 1..Len(v) /\ ve \in Nat
    BY LiveIn DEF VclOK
  <1>2. /\ <<"+backend">> \in Seq(Texts) /\ <<"+deliver">> \in Seq(Texts)
        /\ <<"+import">> \in Seq(Texts) /\ drainVCL \in Seq(Texts)
        /\ drainVCL = <<"+backend">> \o <<"+deliver">>
    BY DEF Texts, Added, drainVCL
  <1>3. ASSUME NEW c \in Seq(Texts), NEW p \in 0..Len(c)
        PROVE  Insert(c, p, drainVCL) = Ins(c, p, p)
    <2> DEFINE b == <<"+backend">>
               d == <<"+deliver">>
    <2>1. b \in Seq(Texts) /\ d \in Seq(Texts) /\ drainVCL = b \o d
      BY <1>2
    <2> HIDE DEF b, d
    <2>2. Insert(c, p, b \o d) = Insert(Insert(c, p, d), p, b)
      BY <2>1, InsertTwice
    <2> QED
      BY <2>1, <2>2 DEF b, d
  <1> HIDE DEF Ins
  <1>4. ASSUME NEW from \in Int
        PROVE  /\ commentOutImportStdFrom(v, from) \in Seq(Texts)
               /\ Len(commentOutImportStdFrom(v, from)) = Len(v)
    BY <1>1, CommentedOut DEF VclOK
  <1>5. CASE end > 0
    <2>1. Live(v, "backend") # {}
      BY <1>5 DEF backendsEnd, Last0
    <2>2. end \in Live(v, "backend") /\ \A x \in Live(v, "backend") : x <= end
      BY <1>1, <2>1, LastIs DEF backendsEnd
    <2>3. ~InText(v, end + 1)
      BY <1>1, <2>2, AfterLive DEF Texts, Lines
    <2> DEFINE c == commentOutImportStdFrom(v, end)
               m == Ins(c, end, end)
    <2> HIDE DEF end, ve
    <2>4. end \in 1..Len(v) /\ end \in Int /\ end \in 0..Len(v) /\ end \in 0..end
          /\ ve < end /\ end <= end + 1
      BY <1>1, <2>2
    <2>5. w = WithImport(v, end, m)
      <3>1. w = WithImport(v, end, Insert(c, end, drainVCL))
        BY <1>5 DEF injectDrainVCLLegacy, end, ve
      <3>2. c \in Seq(Texts) /\ end \in 0..Len(c)
        BY <1>4, <2>4
      <3> QED
        BY <1>3, <3>1, <3>2
    <2> HIDE DEF m
    <2>6. \E u \in Live(v, "backend") : u <= end
      BY <2>2, <2>4
    <2>7. Good(v, w, end)
      <3>1. CASE \E i \in Live(v, "import") : i < end
        <4>1. w = m
          BY <2>5, <3>1 DEF WithImport
        <4>2. w = Insert(Insert(c, end, <<"+deliver">>), end, <<"+backend">>)
          BY <4>1 DEF m, Ins
        <4> QED
          BY <2>3, <2>4, <2>6, <3>1, <4>2, UserImport
      <3>2. CASE ~ \E i \in Live(v, "import") : i < end
        <4>1. w = Insert(m, ve, <<"+import">>)
          <5>1. ~(ve > end)
            BY <1>1, <2>4
          <5> QED
            BY <2>5, <3>2, <5>1 DEF WithImport, ve
        <4>2. versionEnd(v) <= end /\ \A i \in Live(v, "import") : ~(i < end)
          BY <1>1, <2>4, <3>2 DEF ve
        <4>3. w = Insert(m, versionEnd(v), <<"+import">>)
          BY <4>1 DEF ve
        <4>4. m = Insert(Insert(c, end, <<"+deliver">>), end, <<"+backend">>)
          BY DEF m, Ins
        <4> QED
          BY <2>3, <2>4, <2>6, <4>2, <4>3, <4>4, OurImport
      <3> QED
        BY <3>1, <3>2
    <2>8. First(v, w, warn)
      <3>1. CASE \A d \in Live(v, "deliver") : end < d
        BY <2>7, <3>1 DEF Good, First
      <3>2. CASE ~ \A d \in Live(v, "deliver") : end < d
        <4>1. PICK d \in Live(v, "deliver") : ~(end < d)
          BY <3>2
        <4>2. d \in Nat /\ d # end
          BY <1>1, <2>2 DEF Live
        <4>3. warn
          BY <2>4, <4>1, <4>2 DEF end
        <4> DEFINE f == Least(Live(v, "deliver"), 0)
        <4>4. f \in Live(v, "deliver") /\ f <= d
          BY <1>1, <4>1, LeastIs
        <4>5. f < end /\ f \in Nat
          BY <1>1, <2>4, <4>1, <4>2, <4>4
        <4>6. ASSUME NEW b \in Live(v, "backend") PROVE f < b
          <5>1. ~(b < f)
            BY <4>5 DEF Prepended, end
          <5>2. b # f /\ b \in Nat
            BY <1>1, <4>4 DEF Live
          <5> QED
            BY <4>5, <5>1, <5>2
        <4> QED
          BY <4>3, <4>6 DEF First
      <3> QED
        BY <3>1, <3>2
    <2> QED
      BY <2>7, <2>8 DEF Good
  <1>6. ASSUME ~(end > 0) PROVE Live(v, "backend") = {} /\ end = 0
    <2>1. CASE Live(v, "backend") = {}
      BY <2>1 DEF backendsEnd, Last0
    <2>2. CASE Live(v, "backend") # {}
      <3>1. end \in Live(v, "backend")
        BY <1>1, <2>2, LastIs DEF backendsEnd
      <3> QED
        BY <1>1, <1>6, <3>1
    <2> QED
      BY <2>1, <2>2
  <1>7. CASE end = 0 /\ import > 0
    <2>0. Live(v, "backend") = {}
      BY <1>6, <1>7
    <2>1. imports # {}
      BY <1>7 DEF Least
    <2>2. import \in Live(v, "import")
      BY <1>1, <2>1, LeastIs
    <2>3. ~InText(v, import + 1)
      BY <1>1, <2>2, AfterLive DEF Texts, Lines
    <2> DEFINE from == import + 1
               c == commentOutImportStdFrom(v, from)
    <2>4. w = Insert(c, import, drainVCL)
      BY <1>7 DEF injectDrainVCLLegacy
    <2> HIDE DEF import, from
    <2>5. /\ import \in 1..Len(v) /\ import \in Int /\ import \in 0..Len(v)
          /\ import \in 0..import
          /\ from \in Int /\ from <= import + 1 /\ import < from
      BY <1>1, <2>2 DEF from
    <2>6. w = Insert(Insert(c, import, <<"+deliver">>), import, <<"+backend">>)
      <3>1. c \in Seq(Texts) /\ import \in 0..Len(c)
        BY <1>4, <2>5
      <3> QED
        BY <1>3, <2>4, <3>1 DEF Ins
    <2>7. Good(v, w, import)
      BY <2>0, <2>2, <2>3, <2>5, <2>6, UserImport
    <2> QED
      BY <2>0, <2>7 DEF Good, First
  <1>8. CASE end = 0 /\ ~(import > 0)
    <2>0. Live(v, "backend") = {}
      BY <1>6, <1>8
    <2>1. Live(v, "import") = {}
      <3>1. CASE imports = {}
        BY <1>1, <3>1
      <3>2. CASE imports # {}
        <4>1. import \in Live(v, "import")
          BY <1>1, <3>2, LeastIs
        <4> QED
          BY <1>1, <1>8, <4>1
      <3> QED
        BY <3>1, <3>2
    <2>2. w = Insert(v, ve, <<"+import">> \o drainVCL)
      BY <1>8 DEF injectDrainVCLLegacy
    <2>3. ~InText(v, ve + 1)
      BY <1>1, AfterLive DEF Texts
    <2> HIDE DEF end, ve, import, imports
    <2>4. ve \in 0..Len(v) /\ ve \in 0..ve /\ ve <= ve
      BY <1>1
    <2>5. w = Insert(Insert(Insert(v, ve, <<"+deliver">>), ve, <<"+backend">>),
                     ve, <<"+import">>)
      <3>1. w = Insert(Insert(v, ve, drainVCL), ve, <<"+import">>)
        <4> DEFINE i == <<"+import">>
        <4>1. i \in Seq(Texts) /\ drainVCL \in Seq(Texts)
              /\ w = Insert(v, ve, i \o drainVCL)
          BY <1>2, <2>2
        <4> HIDE DEF i
        <4>2. Insert(v, ve, i \o drainVCL) = Insert(Insert(v, ve, drainVCL), ve, i)
          BY <1>1, <2>4, <4>1, InsertTwice
        <4> QED
          BY <4>1, <4>2 DEF i
      <3> QED
        BY <1>1, <1>3, <2>4, <3>1 DEF Ins
    <2>6. v = commentOutImportStdFrom(v, 0)
      BY <1>1, <2>1, NothingToComment
    <2>7. /\ \A i \in Live(v, "import") : ~(i < 0)
          /\ versionEnd(v) <= ve /\ 0 \in Int
      BY <2>1, <2>4 DEF ve
    <2>8. w = Insert(Insert(Insert(commentOutImportStdFrom(v, 0), ve,
                                   <<"+deliver">>), ve, <<"+backend">>),
                     versionEnd(v), <<"+import">>)
      BY <2>5, <2>6 DEF ve
    <2>9. Good(v, w, ve)
      BY <2>0, <2>3, <2>4, <2>7, <2>8, OurImport
    <2> QED
      BY <2>0, <2>9 DEF Good, First
  <1> QED
    BY <1>5, <1>6, <1>7, <1>8

\* The VCLs the controller is given declare their version first.
LEMMA HeaderOK ==
  ASSUME NEW h \in Headers, NEW b \in Seq(Lines), Compilable(h \o b)
  PROVE  VclOK(h \o b)
  <1> DEFINE v == h \o b
  <1>1. h \in Seq(Texts) /\ b \in Seq(Texts)
    <2>1. /\ {"version", "open", "import", "close"} \subseteq Texts
          /\ Lines \subseteq Texts
      BY DEF Texts, Lines
    <2>2. <<"version">> \in Seq(Texts)
      BY <2>1
    <2>3. <<"open", "version", "import", "close", "version">> \in Seq(Texts)
      BY <2>1
    <2>4. b \in Seq(Texts)
      BY <2>1
    <2> QED
      BY <2>2, <2>3, <2>4 DEF Headers
  <1>2. /\ v \in Seq(Texts) /\ Len(v) = Len(h) + Len(b)
        /\ \A i \in 1..Len(h) : v[i] = h[i]
        /\ \A i \in 1..Len(b) : v[Len(h) + i] = b[i]
    BY <1>1, ConcatIs
  <1>3. Len(h) \in Nat /\ Len(b) \in Nat /\ DOMAIN v = 1..Len(v)
        /\ \A i \in 1..Len(b) : b[i] \in Lines
    BY <1>1, <1>2
  <1> HIDE DEF v
  <1>4. \A i \in 1..Len(v) : Len(h) < i => v[i] \in Lines
    <2> TAKE i \in 1..Len(v)
    <2> HAVE Len(h) < i
    <2>1. i - Len(h) \in 1..Len(b) /\ i = Len(h) + (i - Len(h))
      BY <1>2, <1>3
    <2> QED
      BY <1>2, <1>3, <2>1
  <1>5. ASSUME NEW e \in {1, 5}, Len(h) = e, v[e] = "version", ~InText(v, e),
               \A i \in 1..(e - 1) : ~InText(v, i) => v[i] = "open",
               \A i \in 1..(e - 1) : v[i] \notin Added
        PROVE  VclOK(v)
    <2>1. Live(v, "version") = {e}
      <3>1. e \in 1..Len(v)
        BY <1>2, <1>3, <1>5
      <3>2. \A i \in 1..Len(v) : e < i => v[i] # "version"
        BY <1>4, <1>5 DEF Lines
      <3>3. \A i \in 1..Len(v) : i < e => i \in 1..(e - 1)
        OBVIOUS
      <3>4. \A i \in 1..Len(v) : i < e \/ i = e \/ e < i
        BY <1>3
      <3> QED
        BY <1>3, <1>5, <3>1, <3>2, <3>3, <3>4 DEF Live
    <2>2. versionEnd(v) = e
      <3>1. {e} \subseteq Nat /\ {e} # {}
        OBVIOUS
      <3>2. Least({e}, 0) \in {e}
        BY <3>1, LeastIs
      <3> QED
        BY <2>1, <3>2 DEF versionEnd
    <2>3. ASSUME NEW kind \in {"import", "backend", "deliver"},
                 NEW i \in Live(v, kind)
          PROVE  e < i
      <3>1. i \in 1..Len(v) /\ v[i] = kind /\ ~InText(v, i)
        BY <1>3 DEF Live
      <3>2. i # e /\ i \notin 1..(e - 1)
        BY <1>5, <3>1
      <3> QED
        BY <3>1, <3>2
    <2>4. \A i \in 1..Len(v) : v[i] \notin Added
      <3> TAKE i \in 1..Len(v)
      <3>1. CASE e < i
        BY <1>4, <1>5, <3>1 DEF Lines, Added
      <3>2. CASE i = e
        BY <1>5, <3>2 DEF Added
      <3>3. CASE i < e
        <4>1. i \in 1..(e - 1)
          BY <3>3
        <4> QED
          BY <1>5, <4>1
      <3> QED
        BY <1>3, <3>1, <3>2, <3>3
    <2> QED
      BY <1>2, <2>1, <2>2, <2>3, <2>4 DEF VclOK, v
  <1>6. CASE h = <<"version">>
    <2>1. Len(h) = 1 /\ v[1] = "version" /\ ~InText(v, 1)
      <3>1. Len(h) = 1 /\ h[1] = "version"
        BY <1>6
      <3>2. 1 \in 1..Len(h)
        BY <3>1
      <3> QED
        BY <1>2, <3>1, <3>2 DEF InText
    <2> QED
      BY <1>5, <2>1 DEF v
  <1>7. CASE h = <<"open", "version", "import", "close", "version">>
    <2>1. /\ Len(h) = 5 /\ h[1] = "open" /\ h[2] = "version" /\ h[3] = "import"
          /\ h[4] = "close" /\ h[5] = "version"
      BY <1>7
    <2>2. 1 \in 1..Len(h) /\ 2 \in 1..Len(h) /\ 3 \in 1..Len(h)
          /\ 4 \in 1..Len(h) /\ 5 \in 1..Len(h)
      BY <2>1
    <2>3. /\ v[1] = "open" /\ v[2] = "version" /\ v[3] = "import"
          /\ v[4] = "close" /\ v[5] = "version"
      BY <1>2, <2>1, <2>2
    <2>4. ~InText(v, 5)
      <3>1. SUFFICES ASSUME NEW o \in 1..(5 - 1), v[o] = "open",
                            \A k \in (o + 1)..(5 - 1) : v[k] # "close"
                     PROVE  FALSE
        BY DEF InText
      <3>2. o = 1
        BY <2>3, <3>1
      <3> QED
        BY <2>3, <3>1, <3>2
    <2>5. InText(v, 2) /\ InText(v, 3) /\ InText(v, 4)
      BY <2>3 DEF InText
    <2>6. \A i \in 1..(5 - 1) : ~InText(v, i) => v[i] = "open"
      BY <2>3, <2>5
    <2>7. \A i \in 1..(5 - 1) : v[i] \notin Added
      BY <2>3 DEF Added
    <2> QED
      BY <1>5, <2>1, <2>3, <2>4, <2>6, <2>7 DEF v
  <1> QED
    BY <1>6, <1>7 DEF Headers, v

\* The inductive invariant: what is injected into is a VCL that compiles, with
\* its version first, and the injection is where it works.
DrainInv == VclOK(vcl) /\ DrainInPlace

\* A template renders a VCL that compiles.
LEMMA DrainStart == DrainInit => DrainInv
  <1> HAVE DrainInit
  <1>1. PICK h \in Headers, b \in BoundedSeq(Lines, MaxLines) : vcl = h \o b
    BY DEF DrainInit
  <1>2. b \in Seq(Lines)
    <2>1. PICK n \in 0..MaxLines : b \in [1..n -> Lines]
      BY DEF BoundedSeq, SeqOf
    <2>2. n \in Nat
      BY <2>1
    <2> QED
      BY <2>1, <2>2
  <1>3. VclOK(vcl)
    BY <1>1, <1>2, HeaderOK DEF DrainInit
  <1> QED
    BY <1>3 DEF DrainInit, DrainInv, DrainInPlace, DrainCompiles, DrainFirst

\* injectDrainVCL is right, whichever way it goes.
LEMMA DrainStep == DrainInv /\ [injectDrainVCL]_drainVars => DrainInv'
  <1> SUFFICES ASSUME DrainInv, [injectDrainVCL]_drainVars PROVE DrainInv'
    OBVIOUS
  <1>1. CASE injectDrainVCL
    <2>1. VclOK(vcl) /\ vcl' = vcl
      BY <1>1 DEF DrainInv, injectDrainVCL
    <2>2. Compiles(vcl, drained') /\ First(vcl, drained', warned')
      <3>1. CASE Prepended(vcl)
        <4>1. drained' = injectDrainPrepended(vcl,
                           Least(Live(vcl, "backend"), 0),
                           Least(Live(vcl, "deliver"), 0))
          BY <1>1, <3>1 DEF injectDrainVCL
        <4> QED
          BY <2>1, <3>1, <4>1, PrependedRight
      <3>2. CASE ~Prepended(vcl)
        <4>1. /\ drained' = injectDrainVCLLegacy(vcl)
              /\ warned' <=> \E d \in Live(vcl, "deliver") : d < backendsEnd(vcl)
          BY <1>1, <3>2 DEF injectDrainVCL
        <4> QED
          BY <2>1, <3>2, <4>1, LegacyRight
      <3> QED
        BY <3>1, <3>2
    <2>3. DrainCompiles'
      BY <2>1, <2>2 DEF Compiles, DrainCompiles
    <2>4. DrainFirst'
      BY <2>1, <2>2 DEF First, DrainFirst
    <2> QED
      BY <2>1, <2>3, <2>4 DEF DrainInv, DrainInPlace
  <1>2. CASE UNCHANGED drainVars
    <2>1. vcl' = vcl /\ drained' = drained /\ warned' = warned
      BY <1>2 DEF drainVars
    <2> QED
      BY <2>1 DEF DrainInv, DrainInPlace, DrainCompiles, DrainFirst
  <1> QED
    BY <1>1, <1>2

\* However long the VCL is that a template rendered, what injectDrainVCL makes of
\* it compiles if that did, has lost no line, and runs the drain sub before the
\* template's vcl_deliver, or a warning says that it does not.
THEOREM DrainIsInPlace == DrainSpec => []DrainInPlace
  <1>1. DrainSpec => []DrainInv
    BY DrainStart, DrainStep, PTL DEF DrainSpec
  <1>2. DrainInv => DrainInPlace
    BY DEF DrainInv
  <1> QED
    BY <1>1, <1>2, PTL
-----------------------------------------------------------------------------
(* The varnishstat collector.                                              *)

\* A tag of numbers is a number (compareReloadTags).
LEMMA NumberType ==
  ASSUME NEW t \in Seq(Nat)
  PROVE  NumberOf(t) \in Nat
  <1> DEFINE n == Len(t)
             Eq(f) == f = [i \in 0..n |-> IF i = 0 THEN 0 ELSE 10 * f[i - 1] + t[i]]
             step == [i \in 1..n |-> [x \in Nat |-> 10 * x + t[i]]]
             u == CHOOSE f : Eq(f)
  <1>1. n \in Nat /\ \A i \in 1..n : t[i] \in Nat
    OBVIOUS
  <1>2. NumberOf(t) = u[n]
    BY DEF NumberOf
  <1>3. step \in Steps(n, Nat)
    BY <1>1 DEF Steps
  <1>4. PICK f : IsIterate(f, n, Nat, 0, step)
    <2> HIDE DEF step, n
    <2> QED
      BY <1>1, <1>3, IteratesOf
  <1>5. Eq(f)
    <2> DEFINE g == [i \in 0..n |-> IF i = 0 THEN 0 ELSE 10 * f[i - 1] + t[i]]
    <2>1. ASSUME NEW i \in 0..n PROVE f[i] = g[i]
      <3>1. CASE i = 0
        BY <1>4, <3>1 DEF IsIterate
      <3>2. CASE i # 0
        <4>1. i \in 1..n /\ i - 1 \in 0..n
          BY <1>1, <3>2
        <4>2. f[i - 1] \in Nat
          BY <1>4, <4>1 DEF IsIterate
        <4> QED
          BY <1>4, <3>2, <4>1, <4>2 DEF IsIterate
      <3> QED
        BY <3>1, <3>2
    <2>2. f = g
      BY <1>4, <2>1 DEF IsIterate
    <2> QED
      BY <2>2
  <1>6. Eq(u)
    <2> HIDE DEF Eq
    <2> QED
      BY <1>5
  <1> HIDE DEF u, step, n
  <1> DEFINE T == {i \in 0..n : u[i] \in Nat}
  <1>7. 0 \in T
    BY <1>1, <1>6
  <1>8. ASSUME NEW i \in 1..n, i - 1 \in T PROVE i \in T
    <2>1. i \in 0..n /\ i # 0 /\ t[i] \in Nat /\ u[i - 1] \in Nat
      BY <1>1, <1>8
    <2>2. u[i] = 10 * u[i - 1] + t[i]
      BY <1>6, <2>1
    <2>3. u[i] \in Nat
      BY <2>1, <2>2
    <2> QED
      BY <2>1, <2>3
  <1>9. \A i \in 0..n : i \in T
    <2> HIDE DEF T
    <2> QED
      BY <1>1, <1>7, <1>8, UpTo
  <1> QED
    BY <1>1, <1>2, <1>9

\* How the generations compare (compareReloadTags, compareForeignGenerations).
LEMMA Boots ==
  /\ Boot \in Generation /\ Boot.kind = "boot"
  /\ \A g \in Generation :
       /\ g.kind = "boot" => g = Boot
       /\ g.kind = "kv_reload" => g.tag \in OwnTags
       /\ g.kind = "reload" => g.tag \in ForeignTags
       /\ g.kind \in {"boot", "kv_reload", "reload"}
  <1> DEFINE b == [kind |-> "boot", tag |-> <<>>]
  <1>1. b \in Generation /\ b.kind = "boot"
    BY DEF Generation
  <1>2. \A g \in Generation :
          /\ g.kind = "boot" => g = b
          /\ g.kind = "kv_reload" => g.tag \in OwnTags
          /\ g.kind = "reload" => g.tag \in ForeignTags
          /\ g.kind \in {"boot", "kv_reload", "reload"}
    BY DEF Generation
  <1> HIDE DEF b
  <1>3. Boot \in Generation /\ Boot.kind = "boot"
    BY <1>1 DEF Boot
  <1>4. Boot = b
    BY <1>2, <1>3
  <1> QED
    BY <1>2, <1>3, <1>4

\* compareReloadTags orders the controller's tags, and those of an operator,
\* as numbers.
LEMMA OwnCompared ==
  ASSUME NEW a \in OwnTags, NEW b \in OwnTags
  PROVE  /\ compareReloadTags(a, b) <=> NumberOf(a) > NumberOf(b)
         /\ NumberOf(a) \in Nat /\ NumberOf(b) \in Nat
  <1>1. a \in Seq(0..9) /\ b \in Seq(0..9)
    BY CollectorAssumption
  <1>2. Numeric(a) /\ Numeric(b)
    BY <1>1 DEF Numeric
  <1>3. a \in Seq(Nat) /\ b \in Seq(Nat)
    BY <1>1
  <1> QED
    BY <1>2, <1>3, NumberType DEF compareReloadTags

LEMMA ForeignCompared ==
  ASSUME NEW a \in ForeignTags, NEW b \in ForeignTags
  PROVE  /\ compareReloadTags(a, b) <=> NumberOf(a) > NumberOf(b)
         /\ NumberOf(a) \in Nat /\ NumberOf(b) \in Nat
  <1>1. a \in Seq(Nat) /\ b \in Seq(Nat)
    BY CollectorAssumption
  <1>2. \/ Numeric(a) /\ Numeric(b)
        \/ LaterText(a, b) <=> NumberOf(a) > NumberOf(b)
    BY CollectorAssumption
  <1> QED
    BY <1>1, <1>2, NumberType DEF compareReloadTags

\* What is kept of the generations met: sets of them.
Mets == [latest : SUBSET Generation, foreign : SUBSET Generation,
         foreignMultiple : BOOLEAN]

\* What Meet makes of `met', as facts about its fields.
Met(met, g, after) ==
  /\ after \in Mets
  /\ g.kind = "kv_reload" =>
       /\ after.foreign = met.foreign
       /\ after.foreignMultiple = met.foreignMultiple
       /\ after.latest =
            IF \A h \in met.latest : compareReloadTags(g.tag, h.tag)
            THEN {g} ELSE met.latest
  /\ g.kind # "kv_reload" =>
       /\ after.latest = met.latest
       /\ after.foreignMultiple = (met.foreign # {})
       /\ after.foreign =
            IF \A h \in met.foreign : compareForeignGenerations(g, h)
            THEN {g} ELSE met.foreign

\* One generation more is met.
LEMMA MeetIs ==
  ASSUME NEW met \in Mets, NEW g \in Generation
  PROVE  Met(met, g, Meet(met, g))
  BY DEF Meet, Mets, Met

\* The generations met, in any order of them (newestVBEGeneration).
Walked(order) ==
  CHOOSE met : met = [i \in 0..Len(order) |->
                        IF i = 0 THEN NoneMet ELSE Meet(met[i - 1], order[i])]

\* The recursive definition of the walk.
LEMMA WalkedIs ==
  ASSUME NEW order \in Seq(Generation)
  PROVE  /\ \A i \in 0..Len(order) : Walked(order)[i] \in Mets
         /\ Walked(order)[0] = NoneMet
         /\ \A i \in 1..Len(order) :
              Walked(order)[i] = Meet(Walked(order)[i - 1], order[i])
  <1> DEFINE n == Len(order)
             Eq(m) == m = [i \in 0..n |->
                             IF i = 0 THEN NoneMet ELSE Meet(m[i - 1], order[i])]
             step == [i \in 1..n |-> [x \in Mets |-> Meet(x, order[i])]]
             u == CHOOSE m : Eq(m)
  <1>1. n \in Nat /\ \A i \in 1..n : order[i] \in Generation
    OBVIOUS
  <1>2. Walked(order) = u
    BY DEF Walked
  <1>3. NoneMet \in Mets
    BY DEF NoneMet, Mets
  <1>4. step \in Steps(n, Mets)
    <2>1. \A i \in 1..n, x \in Mets : Meet(x, order[i]) \in Mets
      BY <1>1, MeetIs DEF Met
    <2> QED
      BY <2>1 DEF Steps
  <1>5. PICK f : IsIterate(f, n, Mets, NoneMet, step)
    <2> HIDE DEF step, n
    <2> QED
      BY <1>1, <1>3, <1>4, IteratesOf
  <1>6. Eq(f)
    <2> DEFINE g == [i \in 0..n |->
                       IF i = 0 THEN NoneMet ELSE Meet(f[i - 1], order[i])]
    <2>1. ASSUME NEW i \in 0..n PROVE f[i] = g[i]
      <3>1. CASE i = 0
        BY <1>5, <3>1 DEF IsIterate
      <3>2. CASE i # 0
        <4>1. i \in 1..n /\ i - 1 \in 0..n
          BY <1>1, <3>2
        <4>2. f[i - 1] \in Mets
          BY <1>5, <4>1 DEF IsIterate
        <4> QED
          BY <1>5, <3>2, <4>1, <4>2 DEF IsIterate
      <3> QED
        BY <3>1, <3>2
    <2>2. f = g
      BY <1>5, <2>1 DEF IsIterate
    <2> QED
      BY <2>2
  <1>7. Eq(u)
    <2> HIDE DEF Eq
    <2> QED
      BY <1>6
  <1> HIDE DEF u, step, n
  <1>8. u[0] = NoneMet
    BY <1>1, <1>7
  <1>9. \A i \in 1..n : u[i] = Meet(u[i - 1], order[i])
    <2> TAKE i \in 1..n
    <2>1. i \in 0..n /\ i # 0
      BY <1>1
    <2> QED
      BY <1>7, <2>1
  <1> DEFINE T == {i \in 0..n : u[i] \in Mets}
  <1>10. 0 \in T
    BY <1>1, <1>3, <1>8
  <1>11. ASSUME NEW i \in 1..n, i - 1 \in T PROVE i \in T
    <2>1. u[i - 1] \in Mets /\ i \in 0..n
      BY <1>1, <1>11
    <2>2. Meet(u[i - 1], order[i]) \in Mets
      BY <1>1, <2>1, MeetIs DEF Met
    <2>3. u[i] \in Mets
      BY <1>9, <2>2
    <2> QED
      BY <2>1, <2>3
  <1>12. \A i \in 0..n : i \in T
    <2> HIDE DEF T
    <2> QED
      BY <1>1, <1>10, <1>11, UpTo
  <1> QED
    BY <1>2, <1>8, <1>9, <1>12 DEF n

\* An order of a set meets all of it, each once.
LEMMA OrderIs ==
  ASSUME NEW S, IsFiniteSet(S), S \subseteq Generation, NEW order \in SetToSeqs(S)
  PROVE  /\ order \in Seq(Generation)
         /\ \A i \in 1..Len(order) : order[i] \in S
         /\ \A i, j \in 1..Len(order) : order[i] = order[j] => i = j
         /\ \A x \in S : \E i \in 1..Len(order) : order[i] = x
  <1> DEFINE n == Cardinality(S)
  <1>1. n \in Nat
    BY FS_CardinalityType
  <1>2. /\ order \in [1..n -> S]
        /\ \A i, j \in 1..n : i # j => order[i] # order[j]
    BY DEF SetToSeqs
  <1> HIDE DEF n
  <1>3. order \in Seq(Generation) /\ Len(order) = n
    BY <1>1, <1>2
  <1>4. order \in Injection(1..n, S)
    BY <1>2 DEF Injection, IsInjective
  <1>5. Cardinality(1..n) = n
    BY <1>1, FS_Interval
  <1>6. order \in Surjection(1..n, S)
    BY <1>4, <1>5, FS_Injection DEF n
  <1> QED
    BY <1>2, <1>3, <1>6 DEF Surjection

\* The newest generation is what the walk exports, whatever its order; of one
\* generation it may export all.
LEMMA NewestExported ==
  ASSUME NEW S, IsFiniteSet(S), S \subseteq Generation, NEW g \in Newest(S),
         NEW order \in SetToSeqs(S)
  PROVE  \/ newestVBEGeneration(order) = {g}
         \/ newestVBEGeneration(order) = {} /\ S = {g}
  <1> DEFINE n == Len(order)
             met == Walked(order)
  <1>1. /\ order \in Seq(Generation) /\ n \in Nat
        /\ \A i \in 1..n : order[i] \in S
        /\ \A i, j \in 1..n : order[i] = order[j] => i = j
        /\ \A x \in S : \E i \in 1..n : order[i] = x
    BY OrderIs
  <1>2. /\ \A i \in 0..n : met[i] \in Mets
        /\ met[0] = NoneMet
        /\ \A i \in 1..n : met[i] = Meet(met[i - 1], order[i])
    BY <1>1, WalkedIs
  <1>3. newestVBEGeneration(order) =
          IF met[n].latest # {} THEN met[n].latest
          ELSE IF met[n].foreignMultiple THEN met[n].foreign ELSE {}
    BY DEF newestVBEGeneration, Walked
  <1>4. /\ g \in S
        /\ \A h \in S \ {g} :
             \/ g.kind = "kv_reload" /\ h.kind # "kv_reload"
             \/ g.kind = h.kind /\ NumberOf(g.tag) > NumberOf(h.tag)
             \/ h.kind = "boot"
    BY DEF Newest
  <1> HIDE DEF met, n
  <1>5. PICK p \in 1..n : order[p] = g
    BY <1>1, <1>4
  <1>6. \A i \in 1..n : i - 1 \in 0..n /\ i \in 0..n /\ i \in Int /\ i - 1 \in Int
    BY <1>1
  <1>7. \A x \in S : x \in Generation
    OBVIOUS
  <1>8. ASSUME NEW i \in 1..n
        PROVE  /\ order[i].kind = "kv_reload" =>
                    /\ met[i].foreign = met[i - 1].foreign
                    /\ met[i].foreignMultiple = met[i - 1].foreignMultiple
                    /\ met[i].latest =
                         IF \A h \in met[i - 1].latest :
                              compareReloadTags(order[i].tag, h.tag)
                         THEN {order[i]} ELSE met[i - 1].latest
               /\ order[i].kind # "kv_reload" =>
                    /\ met[i].latest = met[i - 1].latest
                    /\ met[i].foreignMultiple = (met[i - 1].foreign # {})
                    /\ met[i].foreign =
                         IF \A h \in met[i - 1].foreign :
                              compareForeignGenerations(order[i], h)
                         THEN {order[i]} ELSE met[i - 1].foreign
    <2>1. met[i - 1] \in Mets /\ order[i] \in Generation
      BY <1>1, <1>2, <1>6
    <2>2. met[i] = Meet(met[i - 1], order[i])
      BY <1>2
    <2>3. Met(met[i - 1], order[i], Meet(met[i - 1], order[i]))
      BY <2>1, MeetIs
    <2> QED
      BY <2>2, <2>3 DEF Met
  <1>9. NoneMet.latest = {} /\ NoneMet.foreign = {}
    BY DEF NoneMet
  <1>10. CASE g.kind = "kv_reload"
    <2> DEFINE Own == {h \in S : h.kind = "kv_reload"}
               T == {i \in 0..n :
                       /\ met[i].latest \subseteq Own
                       /\ \A h \in met[i].latest : \E j \in 1..i : order[j] = h
                       /\ p <= i => met[i].latest = {g}}
    <2>1. ASSUME NEW h \in Own, h # g
          PROVE  /\ compareReloadTags(g.tag, h.tag)
                 /\ ~compareReloadTags(h.tag, g.tag)
      <3>1. g.tag \in OwnTags /\ h.tag \in OwnTags
        BY <1>4, <1>7, <1>10, Boots
      <3>2. NumberOf(g.tag) > NumberOf(h.tag)
        BY <1>4, <1>10, <2>1
      <3> QED
        BY <3>1, <3>2, OwnCompared
    <2>2. 0 \in T
      BY <1>1, <1>2, <1>5, <1>9
    <2>3. ASSUME NEW i \in 1..n, i - 1 \in T PROVE i \in T
      <3>1. /\ met[i - 1].latest \subseteq Own
            /\ \A h \in met[i - 1].latest : \E j \in 1..(i - 1) : order[j] = h
            /\ p <= i - 1 => met[i - 1].latest = {g}
        BY <2>3
      <3>2. \A j \in 1..(i - 1) : j \in 1..i /\ j \in 1..n /\ j # i /\ j < i
        BY <1>1
      <3>3. i \in 1..i /\ i \in 0..n /\ i \in Int /\ p \in Int
        BY <1>1
      <3>4. ASSUME order[i].kind # "kv_reload" PROVE i \in T
        <4>1. met[i].latest = met[i - 1].latest
          BY <1>8, <3>4
        <4>2. p # i
          BY <1>5, <1>10, <3>4
        <4>3. p <= i => p <= i - 1
          BY <3>3, <4>2
        <4> QED
          BY <3>1, <3>2, <3>3, <4>1, <4>3
      <3>5. ASSUME order[i].kind = "kv_reload" PROVE i \in T
        <4>1. met[i].latest =
                IF \A h \in met[i - 1].latest :
                     compareReloadTags(order[i].tag, h.tag)
                THEN {order[i]} ELSE met[i - 1].latest
          BY <1>8, <3>5
        <4>2. order[i] \in Own
          BY <1>1, <3>5
        <4>3. p <= i => met[i].latest = {g}
          <5>1. CASE p = i
            <6>1. \A h \in met[i - 1].latest : h \in Own /\ h # g
              BY <1>1, <1>5, <3>1, <3>2, <5>1
            <6> QED
              BY <1>5, <2>1, <4>1, <5>1, <6>1
          <5>2. CASE p <= i - 1
            <6>1. met[i - 1].latest = {g} /\ order[i] # g
              BY <1>1, <1>5, <3>1, <3>3, <5>2
            <6> QED
              BY <2>1, <4>1, <4>2, <6>1
          <5> QED
            BY <3>3, <5>1, <5>2
        <4>4. met[i].latest \subseteq Own
          BY <3>1, <4>1, <4>2
        <4>5. \A h \in met[i].latest : \E j \in 1..i : order[j] = h
          BY <3>1, <3>2, <3>3, <4>1
        <4> QED
          BY <3>3, <4>3, <4>4, <4>5
      <3> QED
        BY <3>4, <3>5
    <2>4. \A i \in 0..n : i \in T
      <3> HIDE DEF T
      <3> QED
        BY <1>1, <2>2, <2>3, UpTo
    <2>5. met[n].latest = {g}
      BY <1>1, <1>5, <2>4
    <2> QED
      BY <1>3, <2>5
  <1>11. CASE g.kind # "kv_reload"
    <2>1. \A h \in S : h.kind # "kv_reload"
      BY <1>4, <1>11
    <2>2. ASSUME NEW h \in S, h # g
          PROVE  /\ compareForeignGenerations(g, h)
                 /\ ~compareForeignGenerations(h, g)
      <3>1. g.kind # "boot"
        BY <1>4, <1>7, <1>11, <2>2, Boots
      <3>2. CASE h.kind = "boot"
        BY <3>1, <3>2 DEF compareForeignGenerations
      <3>3. CASE h.kind # "boot"
        <4>1. g.kind = "reload" /\ h.kind = "reload"
          BY <1>4, <1>7, <1>11, <2>1, <3>1, <3>3, Boots
        <4>2. g.tag \in ForeignTags /\ h.tag \in ForeignTags
          BY <1>4, <1>7, <4>1, Boots
        <4>3. NumberOf(g.tag) > NumberOf(h.tag)
          BY <1>4, <2>2, <4>1
        <4>4. compareReloadTags(g.tag, h.tag) /\ ~compareReloadTags(h.tag, g.tag)
          BY <4>2, <4>3, ForeignCompared
        <4> QED
          BY <3>1, <4>1, <4>4 DEF compareForeignGenerations
      <3> QED
        BY <3>2, <3>3
    <2> DEFINE T == {i \in 0..n :
                       /\ met[i].latest = {}
                       /\ met[i].foreign \subseteq S
                       /\ \A h \in met[i].foreign : \E j \in 1..i : order[j] = h
                       /\ 1 <= i => met[i].foreign # {}
                       /\ 2 <= i => met[i].foreignMultiple
                       /\ p <= i => met[i].foreign = {g}}
    <2>3. 0 \in T
      BY <1>1, <1>2, <1>5, <1>9
    <2>4. ASSUME NEW i \in 1..n, i - 1 \in T PROVE i \in T
      <3>1. /\ met[i - 1].latest = {} /\ met[i - 1].foreign \subseteq S
            /\ \A h \in met[i - 1].foreign : \E j \in 1..(i - 1) : order[j] = h
            /\ 1 <= i - 1 => met[i - 1].foreign # {}
            /\ p <= i - 1 => met[i - 1].foreign = {g}
        BY <2>4
      <3>2. \A j \in 1..(i - 1) : j \in 1..i /\ j \in 1..n /\ j # i /\ j < i
        BY <1>1
      <3>3. i \in 1..i /\ i \in 0..n /\ i \in Int /\ p \in Int
        BY <1>1
      <3>4. order[i].kind # "kv_reload" /\ order[i] \in S
        BY <1>1, <2>1
      <3>5. /\ met[i].latest = {}
            /\ met[i].foreignMultiple = (met[i - 1].foreign # {})
            /\ met[i].foreign =
                 IF \A h \in met[i - 1].foreign :
                      compareForeignGenerations(order[i], h)
                 THEN {order[i]} ELSE met[i - 1].foreign
        BY <1>8, <3>1, <3>4
      <3>6. p <= i => met[i].foreign = {g}
        <4>1. CASE p = i
          <5>1. \A h \in met[i - 1].foreign : h \in S /\ h # g
            BY <1>1, <1>5, <3>1, <3>2, <4>1
          <5> QED
            BY <1>5, <2>2, <3>5, <4>1, <5>1
        <4>2. CASE p <= i - 1
          <5>1. met[i - 1].foreign = {g} /\ order[i] # g
            BY <1>1, <1>5, <3>1, <3>3, <4>2
          <5> QED
            BY <2>2, <3>4, <3>5, <5>1
        <4> QED
          BY <3>3, <4>1, <4>2
      <3>7. met[i].foreign \subseteq S
        BY <3>1, <3>4, <3>5
      <3>8. \A h \in met[i].foreign : \E j \in 1..i : order[j] = h
        BY <3>1, <3>2, <3>3, <3>5
      <3>9. met[i].foreign # {}
        BY <3>5
      <3>10. 2 <= i => met[i].foreignMultiple
        <4>1. 2 <= i => met[i - 1].foreign # {}
          BY <3>1, <3>3
        <4> QED
          BY <3>5, <4>1
      <3> QED
        BY <3>3, <3>5, <3>6, <3>7, <3>8, <3>9, <3>10
    <2>5. \A i \in 0..n : i \in T
      <3> HIDE DEF T
      <3> QED
        BY <1>1, <2>3, <2>4, UpTo
    <2>6. /\ met[n].latest = {} /\ met[n].foreign = {g}
          /\ 2 <= n => met[n].foreignMultiple
      BY <1>1, <1>5, <2>5
    <2>7. CASE 2 <= n
      BY <1>3, <2>6, <2>7
    <2>8. CASE ~(2 <= n)
      <3>1. \A i \in 1..n : i = p
        BY <1>1, <1>5, <2>8
      <3>2. S = {g}
        <4>1. \A x \in S : x = g
          <5> TAKE x \in S
          <5>1. PICK i \in 1..n : order[i] = x
            BY <1>1
          <5> QED
            BY <1>5, <3>1, <5>1
        <4> QED
          BY <1>4, <4>1
      <3> QED
        BY <1>3, <2>6, <3>2
    <2> QED
      BY <2>7, <2>8
  <1> QED
    BY <1>10, <1>11

\* The inductive invariant.  A bitmap that does not say "up" is that of a
\* backend that has had a probe, once probeSeen allows it to be read: on Varnish
\* 6 a bitmap that is not zero, on later ones a bitmap that is.
ProbeInv ==
  /\ \A g \in Generation :
       /\ shape[g] = "probed" => everProbed
       /\ bitmap[g] = "clear" => everProbed
       /\ oldVarnish /\ bitmap[g] # "zero" => everProbed
       /\ ~oldVarnish /\ bitmap[g] = "zero" => everProbed
  /\ oldVarnish /\ probeSeen => everProbed

\* What the last scrape exported stays right until the next one.
CollectorInv == CollectorTypeOK /\ IsFiniteSet(held) /\ ProbeInv /\ ScrapeSound

\* Only the boot VCL is held at first, and nothing has been exported.
LEMMA CollectorStart == CollectorInit => CollectorInv
  <1> HAVE CollectorInit
  <1>1. Boot \in Generation /\ \A old : Unprobed(old) \in {"zero", "set"}
    BY Boots DEF Unprobed
  <1>2. IsFiniteSet(held)
    BY FS_Singleton DEF CollectorInit
  <1>3. CollectorTypeOK
    BY <1>1 DEF CollectorInit, CollectorTypeOK
  <1>4. ProbeInv
    BY DEF CollectorInit, ProbeInv, Unprobed
  <1>5. ScrapeSound
    BY DEF CollectorInit, ScrapeSound
  <1> QED
    BY <1>2, <1>3, <1>4, <1>5 DEF CollectorInv

\* A scrape.
LEMMA CollectOK == CollectorInv /\ Collect => CollectorInv'
  <1> SUFFICES ASSUME CollectorInv, Collect PROVE CollectorInv'
    OBVIOUS
  <1>1. PICK order \in SetToSeqs(held) :
          LET latest == newestVBEGeneration(order)
              shown == {g \in held : /\ latest = {} \/ g \in latest
                                     /\ shape[g] # "absent"}
          IN  /\ probeSeen' = (probeSeen \/ \E g \in shown : bitmap[g] # "zero")
              /\ exported' = {Sample(g) :
                                g \in {s \in shown : observeProbe(bitmap[s])}}
              /\ newestThen' \in Newest(held)
    BY DEF Collect
  <1> DEFINE latest == newestVBEGeneration(order)
             shown == {g \in held : /\ latest = {} \/ g \in latest
                                    /\ shape[g] # "absent"}
  <1>2. /\ probeSeen' = (probeSeen \/ \E g \in shown : bitmap[g] # "zero")
        /\ exported' = {Sample(g) : g \in {s \in shown : observeProbe(bitmap[s])}}
        /\ newestThen' \in Newest(held)
    BY <1>1
  <1>3. CollectorTypeOK /\ IsFiniteSet(held) /\ held \subseteq Generation /\ ProbeInv
    BY DEF CollectorInv, CollectorTypeOK
  <1>4. \/ latest = {newestThen'}
        \/ latest = {} /\ held = {newestThen'}
    BY <1>2, <1>3, NewestExported
  <1>5. newestThen' \in held
    BY <1>2 DEF Newest
  <1> HIDE DEF latest
  <1>6. \A g \in shown : g = newestThen' /\ g \in Generation
    BY <1>3, <1>4
  <1> HIDE DEF shown
  <1>7. UNCHANGED <<oldVarnish, held, shape, bitmap, everProbed>>
    BY DEF Collect
  <1>8. CollectorTypeOK'
    <2>1. probeSeen' \in BOOLEAN
      BY <1>2, <1>3 DEF CollectorTypeOK
    <2>2. exported' \subseteq [gen : Generation, up : BOOLEAN]
      <3>1. ASSUME NEW g \in Generation
            PROVE  Sample(g) \in [gen : Generation, up : BOOLEAN]
        <4>1. (bitmap[g] = "set") \in BOOLEAN
          BY Zenon
        <4> QED
          BY <4>1 DEF Sample
      <3>2. \A g \in {s \in shown : observeProbe(bitmap[s])} : g \in Generation
        BY <1>6
      <3> QED
        BY <1>2, <3>1, <3>2
    <2>3. newestThen' \in Generation
      BY <1>3, <1>5
    <2> QED
      BY <1>3, <1>7, <2>1, <2>2, <2>3 DEF CollectorTypeOK
  <1>9. ProbeInv'
    BY <1>2, <1>3, <1>6, <1>7 DEF ProbeInv
  <1>10. ASSUME NEW s \in exported'
         PROVE  s.gen = newestThen' /\ s = Sample(newestThen')
                /\ (s.up \/ everProbed)
    <2>1. PICK g \in shown : s = Sample(g) /\ observeProbe(bitmap[g])
      BY <1>2
    <2>2. g = newestThen' /\ s.gen = g /\ s.up = (bitmap[g] = "set")
          /\ g \in Generation
      BY <1>6, <2>1 DEF Sample
    <2>3. bitmap[g] \in {"zero", "clear", "set"}
      BY <1>3, <2>2 DEF CollectorTypeOK
    <2>4. bitmap[g] = "clear" => everProbed
      BY <1>3, <2>2 DEF ProbeInv
    <2>5. bitmap[g] = "zero" => everProbed
      <3> HAVE bitmap[g] = "zero"
      <3>1. probeSeen
        BY <2>1 DEF observeProbe
      <3>2. oldVarnish \/ ~oldVarnish
        OBVIOUS
      <3> QED
        BY <1>3, <2>2, <3>1, <3>2 DEF ProbeInv
    <2> QED
      BY <2>1, <2>2, <2>3, <2>4, <2>5
  <1>11. ScrapeSound'
    BY <1>7, <1>10 DEF ScrapeSound
  <1> QED
    BY <1>3, <1>7, <1>8, <1>9, <1>11 DEF CollectorInv

\* Each action.
LEMMA CollectorStep == CollectorInv /\ [CollectorNext]_collectorVars => CollectorInv'
  <1> SUFFICES ASSUME CollectorInv, [CollectorNext]_collectorVars
               PROVE  CollectorInv'
    OBVIOUS
  <1>0. CollectorTypeOK /\ IsFiniteSet(held) /\ ProbeInv /\ ScrapeSound
    BY DEF CollectorInv
  <1>1. CASE Collect
    BY <1>1, CollectOK
  <1>2. CASE CollectFails
    <2>1. CollectorTypeOK'
      BY <1>0, <1>2 DEF CollectFails, CollectorTypeOK
    <2>2. ProbeInv'
      BY <1>0, <1>2 DEF CollectFails, ProbeInv
    <2>3. ScrapeSound'
      BY <1>2 DEF CollectFails, ScrapeSound
    <2>4. IsFiniteSet(held)'
      BY <1>0, <1>2 DEF CollectFails
    <2> QED
      BY <2>1, <2>2, <2>3, <2>4 DEF CollectorInv
  <1>3. ASSUME NEW g \in Generation, VclLoaded(g) PROVE CollectorInv'
    <2>1. PICK s \in {"absent", "plain", "probed"} :
            /\ shape' = [shape EXCEPT ![g] = s]
            /\ everProbed' = (everProbed \/ s = "probed")
            /\ bitmap' = [bitmap EXCEPT ![g] = IF s = "probed" THEN "zero"
                                               ELSE Unprobed(oldVarnish)]
      BY <1>3 DEF VclLoaded
    <2>2. /\ held' = held \cup {g}
          /\ UNCHANGED <<oldVarnish, probeSeen, exported, newestThen>>
      BY <1>3 DEF VclLoaded
    <2>3. Unprobed(oldVarnish) = IF oldVarnish THEN "zero" ELSE "set"
      BY DEF Unprobed
    <2>4. CollectorTypeOK'
      BY <1>0, <2>1, <2>2, <2>3 DEF CollectorTypeOK
    <2>5. ProbeInv'
      <3>1. ASSUME NEW h \in Generation
            PROVE  (/\ shape[h] = "probed" => everProbed
                    /\ bitmap[h] = "clear" => everProbed
                    /\ oldVarnish /\ bitmap[h] # "zero" => everProbed
                    /\ ~oldVarnish /\ bitmap[h] = "zero" => everProbed)'
        <4>1. CASE h = g
          <5>1. /\ shape'[h] = s
                /\ bitmap'[h] = IF s = "probed" THEN "zero" ELSE Unprobed(oldVarnish)
            BY <1>0, <2>1, <4>1 DEF CollectorTypeOK
          <5> QED
            BY <2>1, <2>2, <2>3, <5>1
        <4>2. CASE h # g
          <5>1. shape'[h] = shape[h] /\ bitmap'[h] = bitmap[h]
            BY <1>0, <2>1, <4>2 DEF CollectorTypeOK
          <5> QED
            BY <1>0, <2>1, <2>2, <5>1 DEF ProbeInv
        <4> QED
          BY <4>1, <4>2
      <3>2. (oldVarnish /\ probeSeen => everProbed)'
        BY <1>0, <2>1, <2>2 DEF ProbeInv
      <3> QED
        BY <3>1, <3>2 DEF ProbeInv
    <2>6. ScrapeSound'
      BY <1>0, <2>1, <2>2 DEF ScrapeSound
    <2>7. IsFiniteSet(held')
      BY <1>0, <2>2, FS_AddElement
    <2> QED
      BY <2>4, <2>5, <2>6, <2>7 DEF CollectorInv
  <1>4. ASSUME NEW g \in Generation, VclDiscarded(g) PROVE CollectorInv'
    <2>1. /\ held' = held \ {g}
          /\ shape' = [shape EXCEPT ![g] = "absent"]
          /\ bitmap' = [bitmap EXCEPT ![g] = Unprobed(oldVarnish)]
          /\ UNCHANGED <<oldVarnish, probeSeen, exported, newestThen, everProbed>>
      BY <1>4 DEF VclDiscarded
    <2>2. Unprobed(oldVarnish) = IF oldVarnish THEN "zero" ELSE "set"
      BY DEF Unprobed
    <2>3. CollectorTypeOK'
      BY <1>0, <2>1, <2>2 DEF CollectorTypeOK
    <2>4. ProbeInv'
      BY <1>0, <2>1, <2>2 DEF ProbeInv, CollectorTypeOK
    <2>5. ScrapeSound'
      BY <1>0, <2>1 DEF ScrapeSound
    <2>6. IsFiniteSet(held')
      BY <1>0, <2>1, FS_RemoveElement
    <2> QED
      BY <2>3, <2>4, <2>5, <2>6 DEF CollectorInv
  <1>5. ASSUME NEW g \in Generation, ProbeAnswers(g) PROVE CollectorInv'
    <2>1. PICK value \in {"zero", "clear", "set"} :
            bitmap' = [bitmap EXCEPT ![g] = value]
      BY <1>5 DEF ProbeAnswers
    <2>2. /\ shape[g] = "probed"
          /\ UNCHANGED <<oldVarnish, held, shape, probeSeen, exported, newestThen,
                         everProbed>>
      BY <1>5 DEF ProbeAnswers
    <2>3. everProbed
      BY <1>0, <2>2 DEF ProbeInv
    <2>4. CollectorTypeOK'
      BY <1>0, <2>1, <2>2 DEF CollectorTypeOK
    <2>5. ProbeInv'
      BY <2>2, <2>3 DEF ProbeInv
    <2>6. ScrapeSound'
      BY <1>0, <2>2 DEF ScrapeSound
    <2> QED
      BY <1>0, <2>2, <2>4, <2>5, <2>6 DEF CollectorInv
  <1>6. CASE UNCHANGED collectorVars
    <2>1. UNCHANGED <<oldVarnish, held, shape, bitmap, probeSeen, exported,
                      newestThen, everProbed>>
      BY <1>6 DEF collectorVars
    <2>2. CollectorTypeOK' /\ ProbeInv'
      BY <1>0, <2>1 DEF CollectorTypeOK, ProbeInv
    <2>3. ScrapeSound' /\ IsFiniteSet(held)'
      BY <1>0, <2>1 DEF ScrapeSound
    <2> QED
      BY <2>2, <2>3 DEF CollectorInv
  <1> QED
    BY <1>1, <1>2, <1>3, <1>4, <1>5, <1>6 DEF CollectorNext

\* The invariant holds.
LEMMA CollectorInvariant == CollectorSpec => []CollectorInv
  BY CollectorStart, CollectorStep, PTL DEF CollectorSpec

\* Every variable of the collector keeps its type (Collect, observeProbe).
THEOREM CollectorTypes == CollectorSpec => []CollectorTypeOK
  <1>1. CollectorInv => CollectorTypeOK
    BY DEF CollectorInv
  <1> QED
    BY <1>1, CollectorInvariant, PTL

\* In whatever order the counters of however many generations are walked, a
\* scrape exports the newest generation's, once, and a backend as down only if
\* it has had a probe (newestVBEGeneration, observeProbe).
THEOREM ScrapeIsSound == CollectorSpec => []ScrapeSound
  <1>1. CollectorInv => ScrapeSound
    BY DEF CollectorInv
  <1> QED
    BY <1>1, CollectorInvariant, PTL
=============================================================================
