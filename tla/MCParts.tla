------------------------------- MODULE MCParts -------------------------------
(***************************************************************************)
(* The parts of the program that share no state with the others, explored   *)
(* side by side: a behaviour picks one part, which runs alone while the     *)
(* rest stay in the state they started in.                                 *)
(***************************************************************************)
EXTENDS Ncsa, VclManager, Broadcast, Debounce, FileValues, Redact,
        DrainInjection, Collector, Startup

VARIABLE part

\* Two pods of one name, and one without.
MCFrontends ==
  <<[name |-> "a", addr |-> "h1"], [name |-> "a", addr |-> "h2"],
    [name |-> "", addr |-> "h3"]>>
MCFrontendLists == {<<>>, MCFrontends}

\* A secret that ends as it begins and one that overlaps itself, which gives way
\* to another; one that overlaps another, which is withdrawn; one on two lines,
\* which gives way to one that begins another line.
MCTargetSets ==
  {[static |-> {<<"a", "b", "a">>}, before |-> {<<"a", "a">>},
    after |-> {<<"b", "b">>}],
   [static |-> {<<"b", "a", "b", "b">>}, before |-> {<<"a", "b">>},
    after |-> {}],
   [static |-> {<<"a", "b">>}, before |-> {<<"b", "n", "a">>},
    after |-> {<<"a", "n">>}]}

\* 9 comes before 10, as numbers.
MCTags == {<<9>>, <<1, 0>>}

ncsaRest == <<vclVars, broadcastVars, debounceVars, fileVars, redactVars,
              drainVars, collectorVars, startupVars, part>>
vclRest == <<ncsaVars, broadcastVars, debounceVars, fileVars, redactVars,
             drainVars, collectorVars, startupVars, part>>
broadcastRest == <<ncsaVars, vclVars, debounceVars, fileVars, redactVars,
                   drainVars, collectorVars, startupVars, part>>
debounceRest == <<ncsaVars, vclVars, broadcastVars, fileVars, redactVars,
                  drainVars, collectorVars, startupVars, part>>
fileRest == <<ncsaVars, vclVars, broadcastVars, debounceVars, redactVars,
              drainVars, collectorVars, startupVars, part>>
redactRest == <<ncsaVars, vclVars, broadcastVars, debounceVars, fileVars,
                drainVars, collectorVars, startupVars, part>>
drainRest == <<ncsaVars, vclVars, broadcastVars, debounceVars, fileVars,
               redactVars, collectorVars, startupVars, part>>
collectorRest == <<ncsaVars, vclVars, broadcastVars, debounceVars, fileVars,
                   redactVars, drainVars, startupVars, part>>
startupRest == <<ncsaVars, vclVars, broadcastVars, debounceVars, fileVars,
                 redactVars, drainVars, collectorVars, part>>
partsVars == <<ncsaVars, ncsaRest>>

\* Where a part that does not run may choose its configuration, it has one.
PartsInit ==
  /\ part \in {"ncsa", "vcl", "broadcast", "debounce", "files", "redact",
               "drain", "collector", "startup"}
  /\ part # "vcl" => vclKept = 0
  /\ part # "broadcast" => frontends = <<>>
  /\ part # "debounce" => debounceMax = 0
  /\ part # "files" => linked = TRUE
  /\ part # "redact" => targetSet = CHOOSE t \in TargetSets : TRUE
  /\ part # "drain" => vcl = <<"version">>
  /\ part # "collector" => oldVarnish = TRUE
  /\ part # "startup" => startupTimeout = TRUE
  /\ NcsaInit /\ VclInit /\ BroadcastInit /\ DebounceInit
  /\ FileInit /\ RedactInit /\ DrainInit /\ CollectorInit /\ StartupInit

PartsNext ==
  \/ part = "ncsa" /\ NcsaNext /\ UNCHANGED ncsaRest
  \/ part = "vcl" /\ VclNext /\ UNCHANGED vclRest
  \/ part = "broadcast" /\ BroadcastNext /\ UNCHANGED broadcastRest
  \/ part = "debounce" /\ DebounceNext /\ UNCHANGED debounceRest
  \/ part = "files" /\ FileNext /\ UNCHANGED fileRest
  \/ part = "redact" /\ RedactNext /\ UNCHANGED redactRest
  \/ part = "drain" /\ injectDrainVCL /\ UNCHANGED drainRest
  \/ part = "collector" /\ CollectorNext /\ UNCHANGED collectorRest
  \/ part = "startup" /\ StartupNext /\ UNCHANGED startupRest

\* NcsaFairness.  The directory's watcher: Run's ticker fires for ever, the
\* fan-in goroutine is always ready, and the kubelet completes an update.  The
\* start: run goes on, a killed varnishd dies, and without --startup-timeout
\* each watcher delivers or fails.
PartsFairness ==
  /\ WF_partsVars(part = "ncsa" /\ Monitor /\ UNCHANGED ncsaRest)
  /\ WF_partsVars(part = "ncsa" /\ KilledExits /\ UNCHANGED ncsaRest)
  /\ SF_partsVars(part = "ncsa" /\ (StopWaiting \/ Terminate) /\ UNCHANGED ncsaRest)
  /\ WF_partsVars(part = "files" /\ Scan /\ UNCHANGED fileRest)
  /\ WF_partsVars(part = "files" /\ Receive /\ UNCHANGED fileRest)
  /\ WF_partsVars(part = "files" /\ NamesFollow /\ UNCHANGED fileRest)
  /\ WF_partsVars(part = "startup" /\ RunStep /\ UNCHANGED startupRest)
  /\ WF_partsVars(part = "startup" /\ Collect1 /\ UNCHANGED startupRest)
  /\ WF_partsVars(part = "startup" /\ AwaitInitial /\ UNCHANGED startupRest)
  /\ WF_partsVars(/\ part = "startup" /\ killSent
                  /\ DaemonExits /\ UNCHANGED startupRest)
  /\ \A s \in Sources :
       WF_partsVars(/\ part = "startup" /\ ~startupTimeout /\ s \notin sent
                    /\ (SourceSends(s) \/ SourceFails(s))
                    /\ UNCHANGED startupRest)

PartsSpec == PartsInit /\ [][PartsNext]_partsVars /\ PartsFairness
-----------------------------------------------------------------------------
\* A directory that is left alone is delivered (DirectoryArrives), for the
\* behaviours in which the watcher is the part that runs.
DirectoryDelivered == part = "files" => DirectoryArrives

\* The start of the program ends (StartEnds), for the behaviours of Startup.
StartConcluded == part = "startup" => StartEnds
=============================================================================
