----------------------------- MODULE MCDiscovery -----------------------------
(***************************************************************************)
(* Instances of Discovery: Services 1 and 2 share a bare name, as two       *)
(* namespaces' Services do; Service 3 has an explicit backend's name.       *)
(***************************************************************************)
EXTENDS Discovery

MCNameOf == [s \in Services |-> IF s = 3 THEN "explicit" ELSE "web"]

\* The program comes to rest, and stops nowhere else: TLC looks for deadlocks.
Rest == AtRest /\ UNCHANGED vars

MCNext == Next \/ Rest

MCSpec == Init /\ [][MCNext]_vars
=============================================================================
