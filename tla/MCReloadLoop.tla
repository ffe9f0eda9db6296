---------------------------- MODULE MCReloadLoop ----------------------------
(***************************************************************************)
(* Small instances of ReloadLoop: a template in force, a good one, one that *)
(* fails to render or compiles for no input, and a file that does not       *)
(* parse (or is not readable).                                             *)
(***************************************************************************)
EXTENDS ReloadLoop, TLC

\* "same" inputs render alike under t0 and t1; "plain" ones differ; no
\* template renders "poison".
MCTemplates == {"t0", "t1", "bad", "broken"}
MCParseable == MCTemplates \ {"broken"}
MCInputs == {"same", "plain", "poison"}
MCVcls == {"a", "b", "c", "x"}
MCCompiles == {"a", "b", "c"}

MCOutput ==
  [p \in MCTemplates \X MCInputs |->
     CASE p[2] = "poison" -> "error"
       [] p = <<"t0", "same">> -> "a"
       [] p = <<"t1", "same">> -> "a"
       [] p = <<"t0", "plain">> -> "b"
       [] p = <<"t1", "plain">> -> "c"
       [] p = <<"bad", "plain">> -> "x"
       [] OTHER -> "error"]

\* The liveness runs: t0 and t1 are good, "bad" never compiles.
LiveTemplates == MCParseable
LiveInputs == {"plain", "poison"}
LiveOutput == [p \in LiveTemplates \X LiveInputs |-> MCOutput[p]]
=============================================================================
