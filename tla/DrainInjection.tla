---------------------------- MODULE DrainInjection ----------------------------
(***************************************************************************)
(* injectDrainVCL (src/internal/renderer/renderer.go): where the drain      *)
(* backend, the drain sub vcl_deliver and an "import std;" go in the VCL a  *)
(* template rendered.                                                      *)
(*                                                                         *)
(* A VCL is the sequence of its lines that matter: "version", "import",     *)
(* "backend" and "deliver" declarations, and the "open" and "close" of a    *)
(* block comment or long string, between which they are text.  What the     *)
(* controller adds is marked with "+"; "gone" is an import commented out.   *)
(***************************************************************************)
EXTENDS Integers, Sequences, FiniteSets, SequencesExt

CONSTANT MaxLines    \* bound: lines after the version

VARIABLES
  vcl,       \* what the template rendered
  drained,   \* what injectDrainVCL made of it, <<>> before
  warned     \* couldNotPrepend

drainVars == <<vcl, drained, warned>>

Lines == {"import", "backend", "deliver", "open", "close"}
Added == {"+import", "+deliver", "+backend"}

InText(v, i) ==
  \E o \in 1..(i - 1) :
    v[o] = "open" /\ \A k \in (o + 1)..(i - 1) : v[k] # "close"

\* The places of the declarations of a kind, text aside.
Live(v, kind) == {i \in DOMAIN v : v[i] = kind /\ ~InText(v, i)}

\* VCLs that compile: one version, before anything else, and std imported at
\* most once.
Headers == {<<"version">>, <<"open", "version", "import", "close", "version">>}

Compilable(v) ==
  /\ \A i \in DOMAIN v :
       /\ v[i] = "open" => ~InText(v, i) /\ \E j \in i..Len(v) : v[j] = "close"
       /\ v[i] = "close" => InText(v, i)
  /\ \A i, j \in Live(v, "import") : i = j

DrainInit ==
  /\ vcl \in {h \o b : h \in Headers, b \in BoundedSeq(Lines, MaxLines)}
  /\ Compilable(vcl)
  /\ drained = <<>>
  /\ warned = FALSE
-----------------------------------------------------------------------------
Least(S, default) ==
  IF S = {} THEN default ELSE CHOOSE x \in S : \A y \in S : x <= y
Last0(S) == IF S = {} THEN 0 ELSE CHOOSE x \in S : \A y \in S : y <= x

\* vclVersionEnd and backendBlocksEnd, as the number of the line before.
versionEnd(v) == Least(Live(v, "version"), 0)
backendsEnd(v) == Last0(Live(v, "backend"))

\* Lines ls after line i.
Insert(v, i, ls) == SubSeq(v, 1, i) \o ls \o SubSeq(v, i + 1, Len(v))

\* Slip: text is searched too.
CommentOutAll(v, from) ==
  [i \in DOMAIN v |-> IF v[i] = "import" /\ i >= from THEN "gone" ELSE v[i]]

commentOutImportStdFrom(v, from) ==
  [i \in DOMAIN v |->
     IF i \in Live(v, "import") /\ i >= from THEN "gone" ELSE v[i]]

\* An import of the user's before line `place', or one of ours after the
\* version.
WithImport(v, place, injected) ==
  IF \E i \in Live(v, "import") : i < place THEN injected
  ELSE Insert(injected, IF versionEnd(v) > place THEN 0 ELSE versionEnd(v),
              <<"+import">>)

\* The sub goes before the user's first vcl_deliver, the backend after the
\* first of the user's.
injectDrainPrepended(v, firstBackend, deliver) ==
  WithImport(v, deliver,
    Insert(Insert(commentOutImportStdFrom(v, deliver), deliver - 1,
                  <<"+deliver">>),
           firstBackend, <<"+backend">>))

drainVCL == <<"+backend", "+deliver">>

\* After the last backend; without one, after the import or the version.
injectDrainVCLLegacy(v) ==
  LET end == backendsEnd(v)
      import == Least({i \in Live(v, "import") : i >= versionEnd(v)}, 0)
  IN  CASE end > 0 ->
             WithImport(v, end,
               Insert(commentOutImportStdFrom(v, end), end, drainVCL))
        [] end = 0 /\ import > 0 ->
             Insert(commentOutImportStdFrom(v, import + 1), import, drainVCL)
        [] OTHER -> Insert(v, versionEnd(v), <<"+import">> \o drainVCL)

\* A vcl_deliver among the backends.
Prepended(v) ==
  \E b \in Live(v, "backend") :
    LET d == Least(Live(v, "deliver"), 0) IN b < d /\ d < backendsEnd(v)

injectDrainVCL ==
  /\ drained = <<>>
  /\ drained' = IF Prepended(vcl)
                THEN injectDrainPrepended(vcl, Least(Live(vcl, "backend"), 0),
                                          Least(Live(vcl, "deliver"), 0))
                ELSE injectDrainVCLLegacy(vcl)
  /\ warned' = /\ ~Prepended(vcl)
               /\ \E d \in Live(vcl, "deliver") : d < backendsEnd(vcl)
  /\ UNCHANGED vcl

DrainSpec == DrainInit /\ [][injectDrainVCL]_drainVars
-----------------------------------------------------------------------------
(* What must hold.                                                         *)

\* The result compiles: std is imported once, before the sub that needs it,
\* the drain backend is declared before that sub and never becomes the default
\* backend, and nothing of the user's is lost (injectDrainVCL).
DrainCompiles ==
  drained # <<>> =>
    LET imports == Live(drained, "import") \cup Live(drained, "+import")
        sub == Live(drained, "+deliver")
        backend == Live(drained, "+backend")
        user == {i \in DOMAIN drained : drained[i] \notin Added}
        place(i) == Cardinality({j \in user : j <= i})
    IN  /\ \A i, j \in imports : i = j
        /\ \E i \in imports, b \in backend, s \in sub : i < s /\ b < s
        /\ \A i, j \in sub : i = j
        /\ Live(drained, "backend") # {} =>
             \A b \in backend : \E u \in Live(drained, "backend") : u < b
        /\ Cardinality(user) = Len(vcl)
        /\ \A i \in user :
             \/ drained[i] = vcl[place(i)]
             \/ drained[i] = "gone" /\ place(i) \in Live(vcl, "import")

\* The drain sub runs before the user's vcl_deliver, which may return early,
\* or a warning says that it does not; a VCL without a backend block is given
\* neither when its import comes after its vcl_deliver (injectDrainVCL).
DrainFirst ==
  drained # <<>> /\ Live(vcl, "backend") # {} =>
    \/ \A s \in Live(drained, "+deliver"), d \in Live(drained, "deliver") : s < d
    \/ warned /\ \A d \in Live(vcl, "deliver"), b \in Live(vcl, "backend") :
                   d = Least(Live(vcl, "deliver"), 0) => d < b

\* What injectDrainVCL adds is where it works: both of the above.
DrainInPlace == DrainCompiles /\ DrainFirst
=============================================================================
