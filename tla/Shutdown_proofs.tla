---------------------------- MODULE Shutdown_proofs ----------------------------
(***************************************************************************)
(* The safety properties of varnishncsa's monitor and of the end of the     *)
(* program, for every limit on crashes, every queue, every configuration    *)
(* of the drain and any number of signals and reloads.                     *)
(***************************************************************************)
EXTENDS Shutdown, SequenceTheorems, TLAPS

-----------------------------------------------------------------------------
(* The monitor.                                                            *)

Announced == "CrashLoop" \in emitted \cup {events[i] : i \in 1..Len(events)}

(***************************************************************************)
(* The counter is the length of the row of early failures that the last     *)
(* runs end with: the run before that row was stable.  The monitor is up    *)
(* exactly while there is a process, and gives up with the counter at its   *)
(* limit, which therefore never passes it.                                 *)
(***************************************************************************)
CountsFailures ==
  /\ crashes <= Len(recent)
  /\ \A i \in 1..crashes : recent[i] = "quick"
  /\ crashes < Len(recent) => recent[crashes + 1] = "stable"

MonitorInv ==
  /\ NcsaTypeOK
  /\ CountsFailures
  /\ crashed <=> crashes = NCSAMaxCrashes
  /\ crashed => monitor = "done"
  /\ monitor \in {"start", "retry", "backoff", "done"} => child = "none"
  /\ crashed => Announced \/ dropped

\* The history of the last runs grows at the front and loses its oldest.
LEMMA Recorded ==
  ASSUME NcsaTypeOK, NEW outcome \in Outcomes, Record(outcome)
  PROVE  /\ recent' \in Seq(Outcomes)
         /\ Len(recent') = IF Len(recent) < NCSAMaxCrashes
                           THEN Len(recent) + 1 ELSE NCSAMaxCrashes
         /\ recent'[1] = outcome
         /\ \A i \in 1..Len(recent) :
              i + 1 <= NCSAMaxCrashes => recent'[i + 1] = recent[i]
  <1> DEFINE longer == <<outcome>> \o recent
             n == IF Len(recent) < NCSAMaxCrashes THEN Len(recent) + 1
                                                  ELSE NCSAMaxCrashes
  <1>1. /\ longer \in Seq(Outcomes) /\ Len(longer) = Len(recent) + 1
        /\ longer[1] = outcome
        /\ \A i \in 1..Len(recent) : longer[i + 1] = recent[i]
    BY DEF NcsaTypeOK
  <1>2. n \in 1..Len(longer) /\ (Len(recent) \in Nat)
    BY <1>1, NcsaAssumption DEF NcsaTypeOK
  <1>3. recent' = SubSeq(longer, 1, n)
    BY DEF Record
  <1> HIDE DEF longer, n
  <1>4. /\ recent' \in Seq(Outcomes) /\ Len(recent') = n
        /\ \A i \in 1..n : recent'[i] = longer[i]
    BY <1>1, <1>2, <1>3
  <1> QED
    BY <1>1, <1>2, <1>4, NcsaAssumption DEF n, NcsaTypeOK

\* sendNCSAEvent keeps the queue within its capacity and in order; an event
\* it cannot hold is on record as dropped.
LEMMA EventsSent ==
  ASSUME NcsaTypeOK, NEW es \in Seq(Reasons), SendEvents(es)
  PROVE  /\ events' \in Seq(Reasons) /\ Len(events') <= EventCap
         /\ dropped' \in BOOLEAN
         /\ dropped => dropped'
         /\ \A i \in 1..Len(events) : i \in 1..Len(events') /\ events'[i] = events[i]
         /\ \/ dropped'
            \/ \A i \in 1..Len(es) : \E j \in 1..Len(events') : events'[j] = es[i]
  <1> DEFINE kept == SubSeq(es, 1, Room(es))
  <1>1. Room(es) \in 0..Len(es) /\ Len(events) + Room(es) <= EventCap
    BY NcsaAssumption DEF NcsaTypeOK, Room
  <1>2. /\ kept \in Seq(Reasons) /\ Len(kept) = Room(es)
        /\ \A i \in 1..Room(es) : kept[i] = es[i]
    BY <1>1
  <1>3. events' = events \o kept
    BY DEF SendEvents
  <1> HIDE DEF kept
  <1>4. /\ events' \in Seq(Reasons) /\ Len(events') = Len(events) + Room(es)
        /\ \A i \in 1..Len(events) : events'[i] = events[i]
        /\ \A i \in 1..Room(es) : events'[Len(events) + i] = kept[i]
    <2>1. events \in Seq(Reasons) /\ Len(events) \in Nat /\ Room(es) \in Nat
      BY <1>1 DEF NcsaTypeOK
    <2>2. events' \in Seq(Reasons) /\ Len(events') = Len(events) + Room(es)
      BY <1>2, <1>3, <2>1, ConcatProperties
    <2>3. \A i \in 1..Len(events) : events'[i] = events[i]
      BY <1>2, <1>3, <2>1
    <2>4. \A i \in 1..Room(es) : events'[Len(events) + i] = kept[i]
      BY <1>2, <1>3, <2>1
    <2> QED BY <2>2, <2>3, <2>4
  <1>5. dropped' \in BOOLEAN /\ (dropped => dropped')
        /\ (Room(es) < Len(es) => dropped')
    BY DEF SendEvents, NcsaTypeOK
  <1>6. Room(es) = Len(es) =>
          \A i \in 1..Len(es) : \E j \in 1..Len(events') : events'[j] = es[i]
    <2> SUFFICES ASSUME Room(es) = Len(es), NEW i \in 1..Len(es)
                 PROVE  \E j \in 1..Len(events') : events'[j] = es[i]
      OBVIOUS
    <2>1. Len(events) + i \in 1..Len(events')
      BY <1>4 DEF NcsaTypeOK
    <2>2. events'[Len(events) + i] = es[i]
      BY <1>2, <1>4
    <2> QED BY <2>1, <2>2
  <1>7. \A i \in 1..Len(events) : i \in 1..Len(events')
    BY <1>1, <1>4 DEF NcsaTypeOK
  <1>8. Room(es) = Len(es) \/ Room(es) < Len(es)
    BY <1>1
  <1>9. Len(events') <= EventCap
    BY <1>1, <1>4
  <1> QED
    BY <1>4, <1>5, <1>6, <1>7, <1>8, <1>9

\* What giving up or waiting for the next try does, after a run that ended
\* with the counter at most at its limit.
LEMMA GaveUpOrWaits ==
  ASSUME MonitorInv, monitor # "done",
         NEW reason \in {"StartFailed", "Exited"},
         NEW wait \in {"retry", "backoff"},
         crashes' \in 0..NCSAMaxCrashes, emitted' = emitted,
         GiveUpOr(reason, wait)
  PROVE  /\ monitor' \in {wait, "done"}
         /\ crashed' \in BOOLEAN
         /\ crashed' <=> crashes' = NCSAMaxCrashes
         /\ crashed' => monitor' = "done"
         /\ events' \in Seq(Reasons) /\ Len(events') <= EventCap
         /\ dropped' \in BOOLEAN
         /\ crashed' => Announced' \/ dropped'
  <1>1. crashed = FALSE /\ NCSAMaxCrashes \in Nat
    BY NcsaAssumption DEF MonitorInv, NcsaTypeOK
  <1>2. CASE crashes' >= NCSAMaxCrashes
    <2> DEFINE es == <<reason, "CrashLoop">>
    <2>1. es \in Seq(Reasons) /\ Len(es) = 2 /\ es[2] = "CrashLoop"
      BY DEF Reasons
    <2>2. SendEvents(es) /\ crashed' = TRUE /\ monitor' = "done"
      BY <1>2 DEF GiveUpOr
    <2> HIDE DEF es
    <2>3. dropped' \/ \E j \in 1..Len(events') : events'[j] = "CrashLoop"
      <3>1. \/ dropped'
            \/ \A i \in 1..Len(es) : \E j \in 1..Len(events') : events'[j] = es[i]
        BY <2>1, <2>2, EventsSent DEF MonitorInv
      <3>2. 2 \in 1..Len(es)
        BY <2>1
      <3> QED BY <2>1, <3>1, <3>2
    <2>4. Announced' \/ dropped'
      BY <2>3 DEF Announced
    <2>5. /\ events' \in Seq(Reasons) /\ Len(events') <= EventCap
          /\ dropped' \in BOOLEAN
      BY <2>1, <2>2, EventsSent DEF MonitorInv
    <2>6. crashes' = NCSAMaxCrashes
      BY <1>1, <1>2
    <2> QED
      BY <2>2, <2>4, <2>5, <2>6
  <1>3. CASE ~(crashes' >= NCSAMaxCrashes)
    <2>1. <<reason>> \in Seq(Reasons)
      BY DEF Reasons
    <2>2. SendEvents(<<reason>>) /\ crashed' = crashed /\ monitor' = wait
      BY <1>3 DEF GiveUpOr
    <2>3. /\ events' \in Seq(Reasons) /\ Len(events') <= EventCap
          /\ dropped' \in BOOLEAN
      BY <2>1, <2>2, EventsSent DEF MonitorInv
    <2>4. crashes' # NCSAMaxCrashes
      BY <1>1, <1>3
    <2> QED
      BY <1>1, <2>2, <2>3, <2>4
  <1> QED
    BY <1>2, <1>3

\* After an early failure, and after a stable run, the counter still counts
\* the row of early failures.
LEMMA FailureCounted ==
  ASSUME MonitorInv, monitor # "done", NEW outcome \in Outcomes,
         crashes' = CrashesAfter(outcome = "stable"), Record(outcome)
  PROVE  /\ crashes' \in 0..NCSAMaxCrashes
         /\ CountsFailures'
         /\ recent' \in Seq(Outcomes) /\ Len(recent') <= NCSAMaxCrashes
  <1>1. /\ NCSAMaxCrashes \in Nat \ {0} /\ crashes \in 0..NCSAMaxCrashes
        /\ crashes # NCSAMaxCrashes
        /\ Len(recent) \in Nat /\ Len(recent) <= NCSAMaxCrashes
    BY NcsaAssumption DEF MonitorInv, NcsaTypeOK
  <1>2. /\ recent' \in Seq(Outcomes)
        /\ Len(recent') = IF Len(recent) < NCSAMaxCrashes
                          THEN Len(recent) + 1 ELSE NCSAMaxCrashes
        /\ recent'[1] = outcome
        /\ \A i \in 1..Len(recent) :
             i + 1 <= NCSAMaxCrashes => recent'[i + 1] = recent[i]
    BY Recorded DEF MonitorInv
  <1>3. CountsFailures
    BY DEF MonitorInv
  <1>4. CASE outcome = "stable"
    BY <1>1, <1>2, <1>4 DEF CrashesAfter, CountsFailures
  <1>5. CASE outcome = "quick"
    <2>1. crashes' = crashes + 1
      BY <1>5 DEF CrashesAfter
    <2>2. ASSUME NEW i \in 1..crashes'
          PROVE  recent'[i] = "quick"
      <3>1. CASE i = 1
        BY <1>2, <1>5, <3>1
      <3>2. CASE i # 1
        <4>1. i - 1 \in 1..crashes /\ i - 1 \in 1..Len(recent)
              /\ (i - 1) + 1 = i /\ i <= NCSAMaxCrashes
          BY <1>1, <1>3, <2>1, <2>2, <3>2 DEF CountsFailures
        <4> QED
          BY <1>2, <1>3, <4>1 DEF CountsFailures
      <3> QED BY <3>1, <3>2
    <2>3. crashes' < Len(recent') => recent'[crashes' + 1] = "stable"
      <3> SUFFICES ASSUME crashes' < Len(recent')
                   PROVE  recent'[(crashes + 1) + 1] = "stable"
        BY <2>1
      <3>1. crashes + 1 \in 1..Len(recent) /\ (crashes + 1) + 1 <= NCSAMaxCrashes
            /\ crashes < Len(recent)
        BY <1>1, <1>2, <2>1
      <3> QED
        BY <1>2, <1>3, <3>1 DEF CountsFailures
    <2> QED
      BY <1>1, <1>2, <1>3, <2>1, <2>2, <2>3 DEF CountsFailures
  <1> QED
    BY <1>2, <1>4, <1>5 DEF Outcomes

\* Reading the queue, one event or all that are in it, forgets none.
LEMMA EventsRead ==
  ASSUME NcsaTypeOK
  PROVE  /\ ReadEvent \/ CrashEventsRead =>
              /\ emitted' \in SUBSET Reasons
              /\ events' \in Seq(Reasons) /\ Len(events') <= EventCap
              /\ Announced => Announced'
         /\ CrashEventsRead /\ Announced => "CrashLoop" \in emitted'
  <1>1. ASSUME ReadEvent
        PROVE  /\ emitted' \in SUBSET Reasons
               /\ events' \in Seq(Reasons) /\ Len(events') <= EventCap
               /\ Announced => Announced'
    <2>1. /\ Len(events) \in Nat \ {0} /\ Head(events) = events[1]
          /\ events' \in Seq(Reasons) /\ Len(events') = Len(events) - 1
          /\ \A i \in 1..Len(events') : events'[i] = events[i + 1]
          /\ events[1] \in Reasons
      BY <1>1, HeadTailProperties DEF NcsaTypeOK, ReadEvent
    <2>2. emitted' = emitted \cup {events[1]}
      BY <1>1, <2>1 DEF ReadEvent
    <2>3. ASSUME NEW i \in 1..Len(events), events[i] = "CrashLoop"
          PROVE  Announced'
      <3>1. CASE i = 1
        BY <2>2, <2>3, <3>1 DEF Announced
      <3>2. CASE i # 1
        <4>1. i - 1 \in 1..Len(events') /\ events'[i - 1] = events[i]
          BY <2>1, <3>2
        <4> QED BY <2>3, <4>1 DEF Announced
      <3> QED BY <3>1, <3>2
    <2>4. Announced => Announced'
      BY <2>2, <2>3 DEF Announced
    <2>5. Len(events') <= EventCap
      BY <2>1, NcsaAssumption DEF NcsaTypeOK
    <2> QED
      BY <2>1, <2>2, <2>4, <2>5 DEF NcsaTypeOK
  <1>2. ASSUME CrashEventsRead
        PROVE  /\ emitted' \in SUBSET Reasons
               /\ events' \in Seq(Reasons) /\ Len(events') <= EventCap
               /\ Announced => "CrashLoop" \in emitted'
    <2>1. \A i \in 1..Len(events) : events[i] \in Reasons
      BY DEF NcsaTypeOK
    <2>2. events' = <<>> /\ Len(<<>>) = 0 /\ <<>> \in Seq(Reasons)
      BY <1>2 DEF CrashEventsRead
    <2>3. Len(events') <= EventCap
      BY <2>2, NcsaAssumption
    <2> QED
      BY <1>2, <2>1, <2>2, <2>3 DEF CrashEventsRead, Announced, NcsaTypeOK
  <1> QED
    BY <1>1, <1>2 DEF Announced

\* Every step of the monitor, the process and the loop's part in it keeps the
\* invariant.
LEMMA MonitorStep == MonitorInv /\ [NcsaNext]_ncsaVars => MonitorInv'
  <1> SUFFICES ASSUME MonitorInv, [NcsaNext]_ncsaVars
               PROVE  MonitorInv'
    OBVIOUS
  <1>0. NcsaTypeOK /\ NCSAMaxCrashes \in Nat \ {0}
    BY NcsaAssumption DEF MonitorInv
  <1>1. ASSUME child' \in {"none", "running", "exited"},
               monitor' \in {"start", "up", "retry", "backoff", "terminating",
                             "killing", "done"},
               monitor' \in {"start", "retry", "backoff", "done"} => child' = "none",
               crashed => monitor' = "done",
               stable' \in BOOLEAN, ncsaStop' \in BOOLEAN,
               UNCHANGED <<crashes, crashed, events, emitted, dropped, recent>>
        PROVE  MonitorInv'
    BY <1>1 DEF MonitorInv, NcsaTypeOK, CountsFailures, Announced
  <1>2. CASE StartChild
    BY <1>0, <1>1, <1>2 DEF StartChild, MonitorInv, NcsaTypeOK
  <1>3. ASSUME NEW outcome \in Outcomes, NEW reason \in {"StartFailed", "Exited"},
               NEW wait \in {"retry", "backoff"}, monitor # "done",
               crashes' = CrashesAfter(outcome = "stable"), Record(outcome),
               GiveUpOr(reason, wait), child' = "none",
               UNCHANGED <<stable, ncsaStop, emitted>>
        PROVE  MonitorInv'
    <2>1. /\ crashes' \in 0..NCSAMaxCrashes
          /\ CountsFailures'
          /\ recent' \in Seq(Outcomes) /\ Len(recent') <= NCSAMaxCrashes
      BY <1>3, FailureCounted
    <2>2. /\ monitor' \in {wait, "done"}
          /\ crashed' \in BOOLEAN
          /\ crashed' <=> crashes' = NCSAMaxCrashes
          /\ crashed' => monitor' = "done"
          /\ events' \in Seq(Reasons) /\ Len(events') <= EventCap
          /\ dropped' \in BOOLEAN
          /\ crashed' => Announced' \/ dropped'
      BY <1>3, <2>1, GaveUpOrWaits
    <2>3. NcsaTypeOK'
      BY <1>0, <1>3, <2>1, <2>2 DEF NcsaTypeOK
    <2> QED
      BY <1>3, <2>1, <2>2, <2>3 DEF MonitorInv
  <1>4. CASE StartFails
    <2>1. crashes' = CrashesAfter("quick" = "stable") /\ "quick" \in Outcomes
      BY <1>4 DEF StartFails, CrashesAfter, Outcomes
    <2> QED
      BY <1>3, <1>4, <2>1 DEF StartFails, MonitorInv
  <1>5. CASE ChildExited
    <2>1. CASE stable
      <3>1. crashes' = CrashesAfter("stable" = "stable") /\ Record("stable")
            /\ "stable" \in Outcomes
        BY <1>5, <2>1 DEF ChildExited, CrashesAfter, Outcomes
      <3> QED
        BY <1>3, <1>5, <3>1 DEF ChildExited
    <2>2. CASE ~stable
      <3>1. crashes' = CrashesAfter("quick" = "stable") /\ Record("quick")
            /\ "quick" \in Outcomes
        BY <1>5, <2>2 DEF ChildExited, CrashesAfter, Outcomes
      <3> QED
        BY <1>3, <1>5, <3>1 DEF ChildExited
    <2> QED BY <2>1, <2>2
  <1>6. CASE RestartDelayOver
    <2>1. monitor' = "start" /\ child' = "none" /\ ~crashed
      BY <1>6 DEF RestartDelayOver, MonitorInv
    <2>2. CASE monitor = "backoff"
      <3>1. <<"Restarted">> \in Seq(Reasons) /\ SendEvents(<<"Restarted">>)
        BY <1>6, <2>2 DEF RestartDelayOver, Reasons
      <3>2. /\ events' \in Seq(Reasons) /\ Len(events') <= EventCap
            /\ dropped' \in BOOLEAN
        BY <1>0, <3>1, EventsSent
      <3> QED
        BY <1>6, <2>1, <3>2
           DEF RestartDelayOver, MonitorInv, NcsaTypeOK, CountsFailures
    <2>3. CASE monitor # "backoff"
      BY <1>1, <1>6, <2>1, <2>3 DEF RestartDelayOver, MonitorInv, NcsaTypeOK
    <2> QED BY <2>2, <2>3
  <1>7. CASE StopWaiting
    BY <1>0, <1>1, <1>7 DEF StopWaiting, MonitorInv, NcsaTypeOK
  <1>8. CASE Terminate \/ StopTimeout
    BY <1>0, <1>1, <1>8 DEF Terminate, StopTimeout, MonitorInv, NcsaTypeOK
  <1>9. CASE Reap
    BY <1>0, <1>1, <1>9 DEF Reap, MonitorInv, NcsaTypeOK
  <1>10. CASE Process
    BY <1>0, <1>1, <1>10
       DEF Process, ChildExits, StableUptime, MonitorInv, NcsaTypeOK
  <1>11. CASE StopNCSA
    BY <1>0, <1>1, <1>11 DEF StopNCSA, MonitorInv, NcsaTypeOK
  <1>12. CASE ReadEvent
    <2>1. UNCHANGED <<monitor, child, stable, crashes, ncsaStop, crashed,
                      dropped, recent>>
      BY <1>12 DEF ReadEvent
    <2>2. /\ emitted' \in SUBSET Reasons
          /\ events' \in Seq(Reasons) /\ Len(events') <= EventCap
          /\ Announced => Announced'
      BY <1>0, <1>12, EventsRead
    <2> QED
      BY <2>1, <2>2 DEF MonitorInv, NcsaTypeOK, CountsFailures
  <1>13. CASE UNCHANGED ncsaVars
    BY <1>13 DEF ncsaVars, MonitorInv, NcsaTypeOK, CountsFailures, Announced
  <1> QED
    BY <1>2, <1>4, <1>5, <1>6, <1>7, <1>8, <1>9, <1>10, <1>11, <1>12, <1>13
       DEF NcsaNext, Monitor

\* The monitor starts with nothing counted, queued or running.
LEMMA MonitorStarts == NcsaInit => MonitorInv
  <1> SUFFICES ASSUME NcsaInit PROVE MonitorInv
    OBVIOUS
  <1>1. Len(recent) = 0 /\ Len(events) = 0 /\ crashes = 0 /\ ~crashed
    BY DEF NcsaInit
  <1>2. NcsaTypeOK
    <2>1. crashes \in 0..NCSAMaxCrashes /\ Len(recent) <= NCSAMaxCrashes
          /\ Len(events) <= EventCap
      BY <1>1, NcsaAssumption
    <2>2. events \in Seq(Reasons) /\ recent \in Seq(Outcomes)
      BY DEF NcsaInit
    <2> QED
      BY <2>1, <2>2 DEF NcsaInit, NcsaTypeOK
  <1>3. CountsFailures
    BY <1>1 DEF CountsFailures
  <1> QED
    BY <1>1, <1>2, <1>3, NcsaAssumption DEF NcsaInit, MonitorInv

\* The breaker trips exactly at the last of NCSAMaxCrashes early failures in
\* a row.
LEMMA MonitorIsSound == MonitorInv => MonitorSound
  <1> SUFFICES ASSUME MonitorInv PROVE MonitorSound
    OBVIOUS
  <1>1. /\ NCSAMaxCrashes \in Nat /\ crashes \in 0..NCSAMaxCrashes
        /\ Len(recent) \in Nat /\ Len(recent) <= NCSAMaxCrashes
        /\ CountsFailures
        /\ crashed <=> crashes = NCSAMaxCrashes
    BY NcsaAssumption DEF MonitorInv, NcsaTypeOK
  <1>2. crashes = NCSAMaxCrashes <=>
          /\ Len(recent) = NCSAMaxCrashes
          /\ \A i \in 1..Len(recent) : recent[i] = "quick"
    <2>1. CASE crashes = NCSAMaxCrashes
      BY <1>1, <2>1 DEF CountsFailures
    <2>2. CASE crashes # NCSAMaxCrashes
      <3>1. SUFFICES ASSUME Len(recent) = NCSAMaxCrashes
                     PROVE  recent[crashes + 1] # "quick"
                            /\ crashes + 1 \in 1..Len(recent)
        BY <2>2
      <3> QED
        BY <1>1, <2>2, <3>1 DEF CountsFailures
    <2> QED BY <2>1, <2>2
  <1> QED
    BY <1>1, <1>2 DEF MonitorSound, BreakerExact, NoneLeftBehind, MonitorInv

\* The breaker trips exactly when the last NCSAMaxCrashes runs all failed
\* early, and the end of the monitor leaves no varnishncsa behind
\* (monitorNCSA).
THEOREM MonitorAlwaysSound == NcsaSpec => []MonitorSound
  BY MonitorStarts, MonitorStep, MonitorIsSound, PTL DEF NcsaSpec
-----------------------------------------------------------------------------
(* The end of the program.                                                 *)

(***************************************************************************)
(* Where the loop's goroutine is says how the loop was left and what has    *)
(* been done since: varnishncsa is stopped before varnishd is told to end,  *)
(* and the drain of a signal comes before both.                            *)
(***************************************************************************)
WaysOut ==
  /\ path = "none" <=> pc \in Running
  /\ pc \in Draining => path = "signal"
  /\ ended # "no" => path = "signal" /\ pc \notin Draining
  /\ path = "exit" => pc \in {"stopNCSA", "exited"} /\ varnishd = "exited"
  /\ pc \in {"forward", "wait", "kill", "exited"} => monitor = "done"
  /\ asked # {} => pc \in {"wait", "kill", "exited"}
  /\ pc = "exited" => varnishd = "exited"
  /\ pc # "exited" => code = -1
  /\ code = 0 => path = "signal" /\ clean

\* A call that is still to load its VCL was counted when it was started.
CallBound == call = "load" => loaded < MaxReloads

\* A second signal can only be one that came after the first was taken, and
\* what ended the drain is on record.
DrainInv ==
  /\ sigCh => signals > 0
  /\ path = "signal" => signals > 0 /\ (sigCh => signals > 1)
  /\ path = "signal" /\ Drain /\ pc \notin Draining => ended # "no"
  /\ poll = "none left" => sawNone
  /\ ended = "drained" => sawNone
  /\ ended = "deadline" => deadline
  /\ ended = "signal" => signals > 1

\* The steps of the loop and of its environment leave the monitor's invariant
\* alone or are steps of the monitor, but for the last reading of the queue.
LEMMA MonitorKept == MonitorInv /\ [Next]_vars => MonitorInv'
  <1> SUFFICES ASSUME MonitorInv, [Next]_vars PROVE MonitorInv'
    OBVIOUS
  <1>1. CASE TakeCrash
    <2>1. UNCHANGED <<monitor, child, stable, crashes, ncsaStop, crashed,
                      dropped, recent>> /\ CrashEventsRead
      BY <1>1 DEF TakeCrash
    <2>2. /\ emitted' \in SUBSET Reasons
          /\ events' \in Seq(Reasons) /\ Len(events') <= EventCap
          /\ Announced => Announced'
      BY <2>1, EventsRead DEF MonitorInv
    <2> QED
      BY <2>1, <2>2 DEF MonitorInv, NcsaTypeOK, CountsFailures
  <1>2. CASE ~TakeCrash
    <2>1. [NcsaNext]_ncsaVars
      <3>1. CASE Environment
        BY <3>1 DEF Environment, Signal, VarnishdExits, CallStep, PollAnswers,
                    DeadlinePasses, NcsaStep, NcsaNext
      <3>2. CASE StartReload \/ ReloadReturns \/ LoopReadsEvent
        BY <3>2 DEF StartReload, ReloadReturns, LoopReadsEvent, NcsaNext
      <3>3. CASE Select
        BY <1>2, <3>3 DEF Select, TakeSignal, TakeServerErr, TakeExit, NcsaNext
      <3>4. CASE HandleDrain
        BY <3>4 DEF HandleDrain, MarkBackendSick, DrainDelayOver, Interrupted,
                    Tick, DrainDeadline, PollAnswered
      <3>5. CASE RunShutdown
        BY <3>5 DEF RunShutdown, BroadcastDrained, NcsaStopped, ForwardSignal,
                    ForceExit, Exit, NcsaNext
      <3>6. CASE UNCHANGED vars
        BY <3>6 DEF vars
      <3> QED
        BY <3>1, <3>2, <3>3, <3>4, <3>5, <3>6 DEF Next
    <2> QED BY <2>1, MonitorStep
  <1> QED BY <1>1, <1>2

\* What the loop, the signals and varnishd are described by keeps its type.
LEMMA LoopTypesKept ==
  ASSUME LoopTypeOK, [Next]_vars
  PROVE  LoopTypeOK'
  <1> USE ShutdownAssumption DEF LoopTypeOK, Running, Draining, Stopping,
          Paths, signalVars, daemonVars
  <1>1. CASE Signal
    BY <1>1 DEF Signal
  <1>2. CASE VarnishdExits
    BY <1>2 DEF VarnishdExits
  <1>3. CASE CallStep \/ PollAnswers \/ DeadlinePasses \/ NcsaStep
    <2>1. UNCHANGED <<pc, path, code, signalVars, daemonVars>>
      <3>1. CASE CallStep
        BY <3>1 DEF CallStep
      <3>2. CASE PollAnswers
        BY <3>2 DEF PollAnswers
      <3>3. CASE DeadlinePasses
        BY <3>3 DEF DeadlinePasses
      <3>4. CASE NcsaStep
        BY <3>4 DEF NcsaStep
      <3> QED
        BY <1>3, <3>1, <3>2, <3>3, <3>4
    <2> QED
      BY <2>1
  <1>4. CASE StartReload
    BY <1>4 DEF StartReload
  <1>5. CASE ReloadReturns
    BY <1>5 DEF ReloadReturns
  <1>6. CASE TakeSignal
    BY <1>6 DEF TakeSignal
  <1>7. CASE TakeCrash
    BY <1>7 DEF TakeCrash, CrashEventsRead
  <1>8. CASE TakeServerErr
    BY <1>8 DEF TakeServerErr, StopNCSA
  <1>9. CASE TakeExit
    BY <1>9 DEF TakeExit, StopNCSA
  <1>10. CASE LoopReadsEvent
    BY <1>10 DEF LoopReadsEvent, ReadEvent
  <1>11. CASE MarkBackendSick
    BY <1>11 DEF MarkBackendSick
  <1>12. CASE DrainDelayOver
    BY <1>12 DEF DrainDelayOver, EndDrain
  <1>13. CASE Interrupted
    BY <1>13 DEF Interrupted, EndDrain
  <1>14. CASE DrainDeadline
    BY <1>14 DEF DrainDeadline, EndDrain
  <1>15. CASE PollAnswered
    BY <1>15 DEF PollAnswered, EndDrain, Drained
  <1>16. CASE Tick
    BY <1>16 DEF Tick, StartPoll
  <1>17. CASE BroadcastDrained
    BY <1>17 DEF BroadcastDrained, StopNCSA
  <1>18. CASE NcsaStopped
    BY <1>18 DEF NcsaStopped
  <1>19. CASE ForwardSignal
    BY <1>19 DEF ForwardSignal
  <1>20. CASE ForceExit
    BY <1>20 DEF ForceExit
  <1>21. CASE Exit
    BY <1>21 DEF Exit, ExitCode
  <1>22. CASE UNCHANGED vars
    BY <1>22 DEF vars
  <1> QED
    BY <1>1, <1>2, <1>3, <1>4, <1>5, <1>6, <1>7, <1>8, <1>9, <1>10, <1>11,
       <1>12, <1>13, <1>14, <1>15, <1>16, <1>17, <1>18, <1>19, <1>20, <1>21,
       <1>22
       DEF Next, Environment, Select, HandleDrain, RunShutdown

\* The numbers of the VCLs stay within the bound of the reloads.
LEMMA ReloadTypesKept ==
  ASSUME ReloadTypeOK, CallBound, [Next]_vars
  PROVE  (ReloadTypeOK /\ CallBound)'
  <1> USE ShutdownAssumption DEF ReloadTypeOK, CallBound, vclVars
  <1>1. CASE CallStep
    BY <1>1 DEF CallStep
  <1>2. CASE Signal \/ VarnishdExits \/ PollAnswers \/ DeadlinePasses \/
           NcsaStep
    BY <1>2 DEF Signal, VarnishdExits, PollAnswers, DeadlinePasses, NcsaStep
  <1>3. CASE StartReload
    BY <1>3 DEF StartReload
  <1>4. CASE ReloadReturns
    BY <1>4 DEF ReloadReturns
  <1>5. CASE LoopReadsEvent \/ TakeSignal \/ TakeCrash \/ TakeServerErr \/
           TakeExit
    BY <1>5 DEF LoopReadsEvent, ReadEvent, TakeSignal, TakeCrash,
       CrashEventsRead, TakeServerErr, StopNCSA, TakeExit
  <1>6. CASE MarkBackendSick
    BY <1>6 DEF MarkBackendSick
  <1>7. CASE DrainDelayOver \/ Interrupted \/ Tick \/ DrainDeadline \/
           PollAnswered
    BY <1>7 DEF DrainDelayOver, EndDrain, Interrupted, Tick, StartPoll,
       DrainDeadline, PollAnswered, Drained
  <1>8. CASE BroadcastDrained \/ NcsaStopped \/ ForwardSignal \/ ForceExit \/
           Exit
    BY <1>8 DEF BroadcastDrained, StopNCSA, NcsaStopped, ForwardSignal,
       ForceExit, Exit, ExitCode
  <1>9. CASE UNCHANGED vars
    BY <1>9 DEF vars
  <1> QED
    BY <1>1, <1>2, <1>3, <1>4, <1>5, <1>6, <1>7, <1>8, <1>9
       DEF Next, Environment, Select, HandleDrain, RunShutdown

\* What handleDrain keeps of the polls keeps its type.
LEMMA DrainTypesKept ==
  ASSUME DrainTypeOK, [Next]_vars
  PROVE  DrainTypeOK'
  <1> USE ShutdownAssumption DEF DrainTypeOK, pollVars, drainVars
  <1>1. CASE PollAnswers
    BY <1>1 DEF PollAnswers
  <1>2. CASE DeadlinePasses
    BY <1>2 DEF DeadlinePasses
  <1>3. CASE Signal \/ VarnishdExits \/ CallStep \/ NcsaStep
    BY <1>3 DEF Signal, VarnishdExits, CallStep, NcsaStep
  <1>4. CASE StartReload \/ ReloadReturns \/ LoopReadsEvent \/ TakeSignal \/
           TakeCrash \/ TakeServerErr \/ TakeExit
    BY <1>4 DEF StartReload, ReloadReturns, LoopReadsEvent, ReadEvent,
       TakeSignal, TakeCrash, CrashEventsRead, TakeServerErr, StopNCSA,
       TakeExit
  <1>5. CASE DrainDelayOver
    BY <1>5 DEF DrainDelayOver, EndDrain
  <1>6. CASE Interrupted
    BY <1>6 DEF Interrupted, EndDrain
  <1>7. CASE Tick
    BY <1>7 DEF Tick, StartPoll
  <1>8. CASE DrainDeadline
    BY <1>8 DEF DrainDeadline, EndDrain
  <1>9. CASE PollAnswered
    BY <1>9 DEF PollAnswered, EndDrain, Drained
  <1>10. CASE MarkBackendSick
    BY <1>10 DEF MarkBackendSick
  <1>11. CASE BroadcastDrained \/ NcsaStopped \/ ForwardSignal \/ ForceExit \/
           Exit
    BY <1>11 DEF BroadcastDrained, StopNCSA, NcsaStopped, ForwardSignal,
       ForceExit, Exit, ExitCode
  <1>12. CASE UNCHANGED vars
    BY <1>12 DEF vars
  <1> QED
    BY <1>1, <1>2, <1>3, <1>4, <1>5, <1>6, <1>7, <1>8, <1>9, <1>10, <1>11,
       <1>12
       DEF Next, Environment, Select, HandleDrain, RunShutdown

\* Every step keeps what is on record of the signals and the drain.
LEMMA DrainKept ==
  ASSUME LoopTypeOK, WaysOut, DrainInv, [Next]_vars
  PROVE  DrainInv'
  <1> USE DEF DrainInv, Draining, signalVars, pollVars, drainVars
  <1>1. /\ signals \in Nat
        /\ pc \in Running => path = "none"
        /\ pc \in Draining => path = "signal" /\ ended = "no"
    <2> HIDE DEF DrainInv
    <2>1. signals \in Nat
      BY ShutdownAssumption DEF LoopTypeOK
    <2>2. /\ pc \in Running => path = "none"
          /\ pc \in Draining => path = "signal" /\ ended = "no"
      BY DEF WaysOut
    <2> QED BY <2>1, <2>2
  <1>2. ASSUME path' = "signal" => path = "signal",
               path' = "signal" /\ pc' \notin Draining => pc \notin Draining,
               UNCHANGED <<sigCh, signals, poll, sawNone, deadline, ended>>
        PROVE  DrainInv'
    BY <1>2
  <1>3. CASE Signal
    <2>1. /\ signals' = signals + 1
          /\ pc' = pc /\ path' = path /\ ended' = ended
          /\ poll' = poll /\ sawNone' = sawNone /\ deadline' = deadline
      BY <1>3 DEF Signal
    <2>2. /\ signals' > 0
          /\ signals > 0 => signals' > 1
          /\ signals > 1 => signals' > 1
      <3> HIDE DEF DrainInv
      <3> QED BY <1>1, <2>1
    <2> QED BY <2>1, <2>2, Zenon DEF DrainInv, Draining
  <1>4. CASE VarnishdExits
    BY <1>2, <1>4 DEF VarnishdExits
  <1>5. CASE CallStep
    BY <1>2, <1>5 DEF CallStep
  <1>6. CASE PollAnswers
    <2>1. /\ UNCHANGED <<pc, path, sigCh, signals, ended, deadline>>
          /\ sawNone => sawNone'
          /\ poll' = "none left" => sawNone'
      BY <1>6 DEF PollAnswers
    <2> QED BY <2>1
  <1>7. CASE DeadlinePasses
    BY <1>7 DEF DeadlinePasses
  <1>8. CASE NcsaStep
    BY <1>2, <1>8 DEF NcsaStep
  <1>9. CASE StartReload
    BY <1>1, <1>2, <1>9 DEF StartReload, Running
  <1>10. CASE ReloadReturns
    BY <1>1, <1>2, <1>10 DEF ReloadReturns, Running
  <1>11. CASE LoopReadsEvent
    BY <1>2, <1>11 DEF LoopReadsEvent
  <1>12. CASE TakeSignal
    <2>1. /\ sigCh /\ sigCh' = FALSE /\ path' = "signal"
          /\ Drain => pc' \in Draining
          /\ UNCHANGED <<signals, poll, sawNone, deadline, ended>>
      BY <1>12 DEF TakeSignal
    <2> QED BY <2>1
  <1>13. CASE TakeCrash
    BY <1>2, <1>13 DEF TakeCrash
  <1>14. CASE TakeServerErr
    BY <1>2, <1>14 DEF TakeServerErr
  <1>15. CASE TakeExit
    BY <1>2, <1>15 DEF TakeExit
  <1>16. CASE MarkBackendSick
    BY <1>2, <1>16 DEF MarkBackendSick
  <1>17. CASE DrainDelayOver
    <2>1. /\ ended' # "no" \/ (ended' = ended /\ pc' \in Draining)
          /\ ended' \in {"delay", ended}
          /\ UNCHANGED <<path, sigCh, signals, poll, sawNone, deadline>>
      BY <1>17 DEF DrainDelayOver, EndDrain
    <2>2. pc = "delay"
      BY <1>17 DEF DrainDelayOver
    <2>3. path = "signal" /\ ended = "no"
      BY <1>1, <2>2
    <2> QED BY <2>1, <2>3
  <1>18. CASE Interrupted
    <2>1. /\ pc \in Draining /\ ended' \in {"exit", "signal"}
          /\ UNCHANGED <<path, signals, poll, sawNone, deadline>>
      BY <1>18 DEF Interrupted, EndDrain
    <2>2. (ended' = "signal" => sigCh) /\ (sigCh' => sigCh)
      <3>1. CASE sigCh' = sigCh /\ ended' = "exit"
        BY <3>1
      <3>2. CASE sigCh /\ sigCh' = FALSE
        BY <3>2
      <3> QED BY <1>18, <3>1, <3>2 DEF Interrupted, EndDrain
    <2> QED BY <1>1, <2>1, <2>2
  <1>19. CASE Tick
    BY <1>19 DEF Tick, StartPoll
  <1>20. CASE DrainDeadline
    BY <1>1, <1>20 DEF DrainDeadline, EndDrain
  <1>21. CASE PollAnswered
    <2>1. /\ poll' = "none" /\ (ended' = "drained" => ended = "drained" \/ sawNone)
          /\ ended' # "no" \/ (ended' = ended /\ pc' = pc)
          /\ ended' \in {"drained", ended}
          /\ UNCHANGED <<path, sigCh, signals, sawNone, deadline>>
      BY <1>21 DEF PollAnswered, EndDrain, Drained
    <2> QED BY <2>1
  <1>22. CASE BroadcastDrained
    BY <1>2, <1>22 DEF BroadcastDrained
  <1>23. CASE NcsaStopped
    BY <1>2, <1>23 DEF NcsaStopped
  <1>24. CASE ForwardSignal \/ ForceExit \/ Exit
    BY <1>2, <1>24 DEF ForwardSignal, ForceExit, Exit
  <1>25. CASE UNCHANGED vars
    BY <1>2, <1>25 DEF vars
  <1> QED
    BY <1>3, <1>4, <1>5, <1>6, <1>7, <1>8, <1>9, <1>10, <1>11, <1>12, <1>13,
       <1>14, <1>15, <1>16, <1>17, <1>18, <1>19, <1>20, <1>21, <1>22, <1>23,
       <1>24, <1>25
       DEF Next, Environment, Select, HandleDrain, RunShutdown

\* Every step keeps the order of the steps to the exit.
LEMMA WaysOutKept ==
  ASSUME LoopTypeOK, MonitorInv, WaysOut, [Next]_vars
  PROVE  WaysOut'
  <1> USE ShutdownAssumption DEF LoopTypeOK, WaysOut, Running, Draining,
          Stopping, Paths, signalVars, daemonVars, vclVars, pollVars,
          drainVars, ncsaVars
  <1>1. CASE VarnishdExits
    BY <1>1 DEF VarnishdExits
  <1>2. CASE NcsaStep
    BY <1>2 DEF NcsaStep, Monitor, Process, StartChild, StartFails,
       ChildExited, RestartDelayOver, StopWaiting, Terminate, StopTimeout,
       Reap, ChildExits, StableUptime
  <1>3. CASE Signal \/ CallStep \/ PollAnswers \/ DeadlinePasses
    BY <1>3 DEF Signal, CallStep, PollAnswers, DeadlinePasses
  <1>4. CASE TakeSignal
    <2>1. pc \in Running /\ path' = "signal" /\ pc' \in {"mark", "broadcast"}
          /\ UNCHANGED <<code, clean, monitor, ended, asked, varnishd>>
      BY <1>4 DEF TakeSignal
    <2>2. /\ pc \notin {"wait", "kill", "exited", "forward"}
          /\ path = "none" /\ code = -1
      BY <2>1
    <2>3. asked = {} /\ code # 0
      BY <2>2
    <2>4. ended = "no"
      BY <2>2
    <2> QED BY <2>1, <2>2, <2>3, <2>4
  <1>5. CASE TakeCrash
    BY <1>5 DEF TakeCrash, CrashEventsRead, MonitorInv
  <1>6. CASE TakeServerErr
    BY <1>6 DEF TakeServerErr, StopNCSA
  <1>7. CASE TakeExit
    BY <1>7 DEF TakeExit, StopNCSA
  <1>8. CASE StartReload \/ ReloadReturns \/ LoopReadsEvent
    BY <1>8 DEF StartReload, ReloadReturns, LoopReadsEvent, ReadEvent
  <1>9. CASE MarkBackendSick
    BY <1>9 DEF MarkBackendSick
  <1>10. CASE DrainDelayOver
    BY <1>10 DEF DrainDelayOver, EndDrain
  <1>11. CASE Interrupted
    BY <1>11 DEF Interrupted, EndDrain
  <1>12. CASE DrainDeadline
    BY <1>12 DEF DrainDeadline, EndDrain
  <1>13. CASE PollAnswered
    BY <1>13 DEF PollAnswered, EndDrain, Drained
  <1>14. CASE Tick
    BY <1>14 DEF Tick, StartPoll
  <1>15. CASE BroadcastDrained
    BY <1>15 DEF BroadcastDrained, StopNCSA
  <1>16. CASE NcsaStopped
    BY <1>16 DEF NcsaStopped
  <1>17. CASE ForwardSignal
    BY <1>17 DEF ForwardSignal
  <1>18. CASE ForceExit
    BY <1>18 DEF ForceExit
  <1>19. CASE Exit
    BY <1>19 DEF Exit, ExitCode
  <1>20. CASE UNCHANGED vars
    BY <1>20 DEF vars
  <1> QED
    BY <1>1, <1>2, <1>3, <1>4, <1>5, <1>6, <1>7, <1>8, <1>9, <1>10, <1>11,
       <1>12, <1>13, <1>14, <1>15, <1>16, <1>17, <1>18, <1>19, <1>20
       DEF Next, Environment, Select, HandleDrain, RunShutdown

\* An exit for a crash loop is taken when its event is in the queue, unless
\* that was full, and reads the queue.
LEMMA CrashExplainedKept ==
  ASSUME MonitorInv, CrashExplained, [Next]_vars
  PROVE  CrashExplained'
  <1> USE DEF CrashExplained
  <1>1. ASSUME path' # "crash" \/ path' = path,
               emitted \subseteq emitted', dropped => dropped'
        PROVE  CrashExplained'
    BY <1>1
  <1>2. ASSUME NEW es \in Seq(Reasons), SendEvents(es)
        PROVE  dropped => dropped'
    BY <1>2, EventsSent DEF MonitorInv
  <1>3. CASE NcsaStep
    <2>1. path' = path /\ emitted' = emitted
      BY <1>3 DEF NcsaStep, Monitor, Process, StartChild, StartFails,
         ChildExited, RestartDelayOver, StopWaiting, Terminate, StopTimeout,
         Reap, ChildExits, StableUptime
    <2>2. dropped => dropped'
      <3>1. CASE StartFails \/ ChildExited
        <4>1. PICK reason \in {"StartFailed", "Exited"}, wait \in {"retry", "backoff"} :
                GiveUpOr(reason, wait)
          BY <3>1 DEF StartFails, ChildExited
        <4>2. <<reason>> \in Seq(Reasons) /\ <<reason, "CrashLoop">> \in Seq(Reasons)
          BY DEF Reasons
        <4>3. CASE SendEvents(<<reason>>)
          BY <1>2, <4>2, <4>3
        <4>4. CASE SendEvents(<<reason, "CrashLoop">>)
          BY <1>2, <4>2, <4>4
        <4> QED BY <4>1, <4>3, <4>4 DEF GiveUpOr
      <3>2. CASE RestartDelayOver
        <4>1. <<"Restarted">> \in Seq(Reasons)
          BY DEF Reasons
        <4> QED BY <1>2, <3>2, <4>1 DEF RestartDelayOver
      <3>3. CASE ~(StartFails \/ ChildExited \/ RestartDelayOver)
        BY <1>3, <3>3
           DEF NcsaStep, Monitor, Process, StartChild, StopWaiting, Terminate,
               StopTimeout, Reap, ChildExits, StableUptime
      <3> QED BY <3>1, <3>2, <3>3
    <2> QED BY <1>1, <2>1, <2>2
  <1>4. CASE TakeCrash
    <2>1. crashed /\ CrashEventsRead /\ dropped' = dropped
      BY <1>4 DEF TakeCrash
    <2>2. Announced \/ dropped
      BY <2>1 DEF MonitorInv
    <2>3. Announced => "CrashLoop" \in emitted'
      BY <2>1, EventsRead DEF MonitorInv
    <2> QED BY <2>1, <2>2, <2>3
  <1>5. CASE LoopReadsEvent
    BY <1>1, <1>5 DEF LoopReadsEvent, ReadEvent
  <1>6. CASE Signal \/ VarnishdExits \/ CallStep \/ PollAnswers \/ DeadlinePasses
    BY <1>1, <1>6 DEF Signal, VarnishdExits, CallStep, PollAnswers,
                      DeadlinePasses, ncsaVars
  <1>7. CASE StartReload \/ ReloadReturns \/ TakeSignal
    BY <1>1, <1>7 DEF StartReload, ReloadReturns, TakeSignal, ncsaVars
  <1>8. CASE TakeServerErr \/ TakeExit \/ BroadcastDrained
    BY <1>1, <1>8 DEF TakeServerErr, TakeExit, BroadcastDrained, StopNCSA
  <1>9. CASE HandleDrain
    BY <1>1, <1>9 DEF HandleDrain, MarkBackendSick, DrainDelayOver, Interrupted,
                      Tick, DrainDeadline, PollAnswered, ncsaVars
  <1>10. CASE NcsaStopped \/ ForwardSignal \/ ForceExit \/ Exit
    BY <1>1, <1>10 DEF NcsaStopped, ForwardSignal, ForceExit, Exit, ncsaVars
  <1>11. CASE UNCHANGED vars
    BY <1>1, <1>11 DEF vars, ncsaVars
  <1> QED
    BY <1>3, <1>4, <1>5, <1>6, <1>7, <1>8, <1>9, <1>10, <1>11
       DEF Next, Environment, Select, RunShutdown
-----------------------------------------------------------------------------
(* The theorems.                                                           *)

(***************************************************************************)
(* The inductive invariant of the end of the program: how the loop was left *)
(* and how far the shutdown is, with the monitor's own invariant, explain   *)
(* the exit code, the signals that were sent and who is still running.     *)
(***************************************************************************)
ShutdownInv ==
  /\ TypeOK /\ CallBound
  /\ MonitorInv
  /\ WaysOut
  /\ DrainInv
  /\ CrashExplained

\* It holds at first, and every step of the program keeps it (runLoop and
\* runShutdown with everything that happens around them).
THEOREM ShutdownInductive == Spec => []ShutdownInv
  <1>1. Init => ShutdownInv
    <2> SUFFICES ASSUME Init PROVE ShutdownInv
      OBVIOUS
    <2>1. MonitorInv
      BY MonitorStarts DEF Init
    <2>2. LoopTypeOK
      <3>1. signals \in 0..MaxSignals
        BY ShutdownAssumption DEF Init
      <3> QED
        BY <3>1 DEF Init, LoopTypeOK, Running, Paths
    <2>3. ReloadTypeOK /\ CallBound
      BY ShutdownAssumption DEF Init, ReloadTypeOK, CallBound
    <2>4. DrainTypeOK
      BY DEF Init, DrainTypeOK
    <2>5. WaysOut /\ DrainInv /\ CrashExplained
      BY DEF Init, WaysOut, DrainInv, CrashExplained, Running, Draining
    <2> QED
      BY <2>1, <2>2, <2>3, <2>4, <2>5 DEF ShutdownInv, TypeOK, MonitorInv
  <1>2. ShutdownInv /\ [Next]_vars => ShutdownInv'
    BY MonitorKept, LoopTypesKept, ReloadTypesKept, DrainTypesKept, WaysOutKept,
       DrainKept, CrashExplainedKept DEF ShutdownInv, TypeOK, MonitorInv
  <1> QED
    BY <1>1, <1>2, PTL DEF Spec

\* Every variable of the end of the program keeps its type.
THEOREM ShutdownTypes == Spec => []TypeOK
  BY ShutdownInductive, PTL DEF ShutdownInv

\* Whatever ended the loop, the program leaves neither varnishd nor
\* varnishncsa behind (the five ways out of runLoop).
THEOREM ChildrenReaped == Spec => []Reaped
  <1>1. ShutdownInv => Reaped
    BY DEF ShutdownInv, WaysOut, MonitorInv, Reaped
  <1> QED BY <1>1, ShutdownInductive, PTL

\* Exit code 0 says that a signal asked for the end and that varnishd ended
\* without an error (runLoop's return values, Manager.Err).
THEOREM SuccessIsAsked == Spec => []SuccessMeansAsked
  <1>1. ShutdownInv => SuccessMeansAsked
    <2> SUFFICES ASSUME ShutdownInv, code = 0
                 PROVE  signals > 0 /\ clean /\ varnishd = "exited"
      BY DEF SuccessMeansAsked
    <2>1. code # -1
      OBVIOUS
    <2>2. path = "signal" /\ clean /\ varnishd = "exited"
      BY <2>1 DEF ShutdownInv, WaysOut
    <2>3. path = "signal" => signals > 0
      BY DEF ShutdownInv, DrainInv
    <2> QED BY <2>2, <2>3
  <1> QED BY <1>1, ShutdownInductive, PTL

\* With --drain a signal does not reach varnishd before the drain has ended
\* for a reason (handleDrain).
THEOREM DrainBeforeSignal == Spec => []ServedToTheEnd
  <1>1. ShutdownInv => ServedToTheEnd
    BY DEF ShutdownInv, WaysOut, DrainInv, ServedToTheEnd, Draining
  <1> QED BY <1>1, ShutdownInductive, PTL

\* An exit because of a crash loop is explained by its event, unless the
\* queue was full (drainNCSAEvents).
THEOREM CrashIsExplained == Spec => []CrashExplained
  <1>1. ShutdownInv => CrashExplained
    BY DEF ShutdownInv
  <1> QED BY <1>1, ShutdownInductive, PTL
=============================================================================
