------------------------------ MODULE Broadcast ------------------------------
(***************************************************************************)
(* The broadcast server (src/internal/broadcast/broadcast.go): requests that *)
(* fan out to every frontend known when they arrive, and Drain, which races *)
(* with the callbacks of net/http that count the client connections.        *)
(***************************************************************************)
EXTENDS Integers, Sequences, FiniteSets

CONSTANTS
  Conns,           \* client connections, each opened at most once
  FrontendLists    \* lists of [name, addr] SetFrontends may be given

ASSUME BroadcastAssumption ==
  /\ IsFiniteSet(Conns)
  /\ FrontendLists \subseteq Seq([name : STRING, addr : STRING])

VARIABLES
  frontends,
  conn,           \* what each connection is doing, see ConnStates
  left,           \* clients that went away in the middle of a request
  targets,        \* the frontends the connection's request was sent to
  contacted,      \* which of them have been answered or have failed
  results,        \* the keys of the aggregated response
  conns,          \* the atomic count of open connections
  draining,
  connsDrained,   \* the channel is closed
  dpc             \* where Drain is

broadcastVars == <<frontends, conn, left, targets, contacted, results, conns,
                   draining, connsDrained, dpc>>

\* "closed" and "counted" are inside connState(StateClosed), before the
\* decrement and between it and the check of the flag.
ConnStates == {"none", "idle", "request", "closed", "counted", "gone"}

BroadcastInit ==
  /\ frontends \in FrontendLists
  /\ conn = [c \in Conns |-> "none"]
  /\ left = {}
  /\ targets = [c \in Conns |-> <<>>]
  /\ contacted = [c \in Conns |-> {}]
  /\ results = [c \in Conns |-> {}]
  /\ conns = 0
  /\ draining = FALSE
  /\ connsDrained = FALSE
  /\ dpc = "serving"

Become(c, state) == conn' = [conn EXCEPT ![c] = state]
-----------------------------------------------------------------------------
(* fanoutKeys.  A key is what it is put together from, with separators that *)
(* neither names nor addresses contain.                                    *)

\* The name, unless it is missing or shared.
BaseKey(fs, i) ==
  IF fs[i].name = "" THEN <<fs[i].addr>>
  ELSE IF \E j \in DOMAIN fs \ {i} : fs[j].name = fs[i].name
       THEN <<fs[i].name, fs[i].addr>>
       ELSE <<fs[i].name>>

\* With the place in the list as a suffix, if the base is used already.
Key(fs, i) ==
  <<BaseKey(fs, i),
    IF \E j \in 1..(i - 1) : BaseKey(fs, j) = BaseKey(fs, i) THEN i ELSE 0>>

fanoutKeys(fs) == {Key(fs, i) : i \in DOMAIN fs}
-----------------------------------------------------------------------------
(* Connections and requests.                                               *)

SetFrontends(fs) ==
  /\ frontends' = fs
  /\ UNCHANGED <<conn, left, targets, contacted, results, conns, draining,
                 connsDrained, dpc>>

Accept(c) ==
  /\ conn[c] = "none"
  /\ dpc \notin {"shutdown", "over"}
  /\ Become(c, "idle")
  /\ conns' = conns + 1
  /\ UNCHANGED <<frontends, left, targets, contacted, results, draining,
                 connsDrained, dpc>>

\* A new request, whose body can be read or not.
Request(c) ==
  /\ conn[c] = "idle"
  /\ Become(c, "request")
  /\ \E fs \in {frontends, <<>>} : targets' = [targets EXCEPT ![c] = fs]
  /\ contacted' = [contacted EXCEPT ![c] = {}]
  /\ results' = [results EXCEPT ![c] = {}]
  /\ UNCHANGED <<frontends, left, conns, draining, connsDrained, dpc>>

\* forward to one pod has returned, with an answer or an error.
Forwarded(c, i) ==
  /\ conn[c] = "request"
  /\ i \in DOMAIN targets[c] \ contacted[c]
  /\ contacted' = [contacted EXCEPT ![c] = @ \cup {i}]
  /\ UNCHANGED <<frontends, conn, left, targets, results, conns, draining,
                 connsDrained, dpc>>

\* The client goes away; the fan-out is detached from it and goes on.
ClientLeaves(c) ==
  /\ conn[c] = "request"
  /\ c \notin left
  /\ left' = left \cup {c}
  /\ UNCHANGED <<frontends, conn, targets, contacted, results, conns, draining,
                 connsDrained, dpc>>

\* The response; "Connection: close" while draining.
Respond(c) ==
  /\ conn[c] = "request"
  /\ contacted[c] = DOMAIN targets[c]
  /\ results' = [results EXCEPT ![c] = fanoutKeys(targets[c])]
  /\ Become(c, IF draining \/ c \in left THEN "closed" ELSE "idle")
  /\ UNCHANGED <<frontends, left, targets, contacted, conns, draining,
                 connsDrained, dpc>>

\* An idle connection is closed by its client, by a timeout or by Shutdown.
CloseIdle(c) ==
  /\ conn[c] = "idle"
  /\ Become(c, "closed")
  /\ UNCHANGED <<frontends, left, targets, contacted, results, conns, draining,
                 connsDrained, dpc>>

\* connState(StateClosed), first half: Add(-1).
CountDown(c) ==
  /\ conn[c] = "closed"
  /\ conns' = conns - 1
  /\ Become(c, IF conns' <= 0 THEN "counted" ELSE "gone")
  /\ UNCHANGED <<frontends, left, targets, contacted, results, draining,
                 connsDrained, dpc>>

\* Second half: the flag.
CheckFlag(c) ==
  /\ conn[c] = "counted"
  /\ connsDrained' = (connsDrained \/ draining)
  /\ Become(c, "gone")
  /\ UNCHANGED <<frontends, left, targets, contacted, results, conns, draining,
                 dpc>>
-----------------------------------------------------------------------------
(* Drain.                                                                  *)

\* Slip: the count is read before the flag is stored.
DrainCountsFirst ==
  /\ \/ /\ dpc = "serving"
        /\ dpc' = "check"
        /\ connsDrained' = (conns <= 0)
        /\ UNCHANGED draining
     \/ /\ dpc = "check"
        /\ dpc' = "wait"
        /\ draining' = TRUE
        /\ UNCHANGED connsDrained
  /\ UNCHANGED <<frontends, conn, left, targets, contacted, results, conns>>

\* The flag is stored, then the count is read.
DrainStarts ==
  /\ \/ /\ dpc = "serving"
        /\ dpc' = "check"
        /\ draining' = TRUE
        /\ UNCHANGED connsDrained
     \/ /\ dpc = "check"
        /\ dpc' = "wait"
        /\ connsDrained' = (connsDrained \/ conns <= 0)
        /\ UNCHANGED draining
  /\ UNCHANGED <<frontends, conn, left, targets, contacted, results, conns>>

\* connsDrained, or the timeout: the listener closes.
DrainWaited ==
  /\ dpc = "wait"
  /\ dpc' = "shutdown"
  /\ UNCHANGED <<frontends, conn, left, targets, contacted, results, conns,
                 draining, connsDrained>>

\* srv.Shutdown returns: no connection is left, or ShutdownTimeout.
DrainOver ==
  /\ dpc = "shutdown"
  /\ dpc' = "over"
  /\ UNCHANGED <<frontends, conn, left, targets, contacted, results, conns,
                 draining, connsDrained>>

BroadcastNext ==
  \/ \E fs \in FrontendLists \ {frontends} : SetFrontends(fs)
  \/ \E c \in Conns :
       \/ Accept(c) \/ Request(c) \/ ClientLeaves(c) \/ Respond(c)
       \/ CloseIdle(c) \/ CountDown(c) \/ CheckFlag(c)
       \/ \E i \in DOMAIN targets[c] : Forwarded(c, i)
  \/ DrainStarts \/ DrainWaited \/ DrainOver

BroadcastSpec == BroadcastInit /\ [][BroadcastNext]_broadcastVars
-----------------------------------------------------------------------------
(* What must hold.                                                         *)

BroadcastTypeOK ==
  /\ frontends \in FrontendLists
  /\ conn \in [Conns -> ConnStates]
  /\ left \subseteq Conns
  /\ targets \in [Conns -> FrontendLists \cup {<<>>}]
  /\ contacted \in [Conns -> SUBSET Nat]
  /\ \A c \in Conns : contacted[c] \subseteq DOMAIN targets[c]
  /\ results \in [Conns -> {{}} \cup {fanoutKeys(fs) : fs \in FrontendLists}]
  /\ conns \in 0..Cardinality(Conns)
  /\ draining \in BOOLEAN /\ connsDrained \in BOOLEAN
  /\ dpc \in {"serving", "check", "wait", "shutdown", "over"}

\* Whichever comes first, Drain's look at the count or the callback of the
\* last connection: a Drain that waits with no connection open has been told,
\* or the callback that will tell it is running (Drain, connState).
DrainToldInTime ==
  dpc = "wait" /\ conns = 0 =>
    connsDrained \/ \E c \in Conns : conn[c] = "counted"

\* A broadcast that was answered, or whose client has gone, reached every pod
\* of the list it started with, and the response tells them apart by key
\* (forward's detached context, fanoutKeys).
EveryPodReported ==
  \A c \in Conns :
    conn[c] \in {"closed", "counted", "gone"} \/ results[c] # {} =>
      /\ contacted[c] = DOMAIN targets[c]
      /\ Cardinality(results[c]) = Len(targets[c])

\* A drain is told of its end and a broadcast is complete: both of the above.
BroadcastSound == DrainToldInTime /\ EveryPodReported
=============================================================================
