------------------------------ MODULE MCWatchers ------------------------------
(***************************************************************************)
(* A small instance of Watchers: slices, or maps, with a few entries, and   *)
(* Services with pods, with two host names, with nothing, and none at all.  *)
(***************************************************************************)
EXTENDS Watchers

MCContents == {{}, {<<"a", "ready">>}, {<<"a", "leaving">>}}

\* Two spellings of one value.
MCDecode == [v \in {"ready", "leaving"} |-> "value"]

MCServices ==
  {Gone, [target |-> "nothing", meta |-> "m1"]}
    \cup [target : {"pods"}, meta : {"m1", "m2"}]
    \cup {[target |-> "host1", meta |-> "m1"], [target |-> "host2", meta |-> "m2"]}
=============================================================================
