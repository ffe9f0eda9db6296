-------------------------------- MODULE Redact --------------------------------
(***************************************************************************)
(* The chain a subprocess writes its output through: the redacting writer   *)
(* (src/internal/redact/redact.go), which must recognise a secret however   *)
(* the bytes are cut into writes, and behind it the writer that prefixes    *)
(* every line (prefixWriter, src/internal/varnish/manager.go).  The event   *)
(* loop may change what is secret at any time, also within a write.         *)
(*                                                                         *)
(* `input' is all that was ever written.  A byte further down the chain is  *)
(* the position it has in the input, or a token the writers made up.        *)
(***************************************************************************)
EXTENDS Integers, Sequences, SequencesExt

CONSTANTS
  Bytes, NL,           \* the alphabet, and the newline in it
  TargetSets,          \* the redaction targets to consider: those that stay,
                       \* and the others before and after they change
  Chunk,               \* bound: the longest write
  MaxInput,            \* bound: bytes written
  maxRedactBuffer,
  maxBufferedLine

\* A target is not empty: it has minSecretLen bytes at least.
ASSUME RedactAssumption ==
  /\ NL \in Bytes
  /\ {Chunk, MaxInput, maxRedactBuffer, maxBufferedLine} \subseteq Nat
  /\ \A t \in TargetSets : \A v \in t.static \cup t.before \cup t.after :
       v \in Seq(Bytes) /\ v # <<>>

VARIABLES
  targetSet,
  changedAt,   \* bytes written when they changed, -1 before
  input,
  start,    \* buf is input[start..]: held by the redacting writer
  line,     \* what the prefixWriter holds
  out,      \* what has been written in the end
  flushed   \* history: nothing was written since the last Flush

redactVars == <<targetSet, changedAt, input, start, line, out, flushed>>

\* Tokens that are not bytes of the input.
Placeholder == 0
Prefix == -1
AddedNL == -2

RedactInit ==
  /\ targetSet \in TargetSets
  /\ changedAt = -1
  /\ input = <<>>
  /\ start = 1
  /\ line = <<>>
  /\ out = <<>>
  /\ flushed = TRUE

\* The Redactor's combined targets, before and after.
values(changed) ==
  targetSet.static \cup (IF changed THEN targetSet.after ELSE targetSet.before)
secrets == values(changedAt >= 0)

IsNL(text, token) == token = AddedNL \/ (token > 0 /\ text[token] = NL)
Greatest(S) == CHOOSE x \in S : \A y \in S : y <= x
-----------------------------------------------------------------------------
(* Secrets in a text.                                                      *)

\* v is at position i, and ends at hi at the latest.
At(text, v, i, hi) ==
  i + Len(v) - 1 <= hi /\ SubSeq(text, i, i + Len(v) - 1) = v

\* strings.Replacer at position i: the longest target there, unless that is in
\* what has been replaced.
ReplacedAt(text, vals, hi, i, r) ==
  LET here == {v \in vals : At(text, v, i, hi)}
  IN  IF i < r.past THEN r
      ELSE IF here = {} THEN [out |-> Append(r.out, i), past |-> i + 1]
      ELSE [out |-> Append(r.out, Placeholder),
            past |-> i + Greatest({Len(v) : v \in here})]

\* strings.Replacer on text[lo..hi], from left to right.
Replaced(text, vals, lo, hi) ==
  LET R[i \in (lo - 1)..hi] ==
        IF i = lo - 1 THEN [out |-> <<>>, past |-> lo]
        ELSE ReplacedAt(text, vals, hi, i, R[i - 1])
  IN  R[hi].out

\* The longest suffix of text[lo..hi] that begins some target.
tailHold(text, vals, lo, hi) ==
  Greatest({0} \cup
    {k \in 1..(hi - lo + 1) :
       \E v \in vals : k < Len(v) /\ At(text, SubSeq(v, 1, k), hi - k + 1, hi)})

\* Slip: only an incomplete secret at the end matters.
CutAnywhere(text, vals, lo, hi, cut) == cut

\* The greatest position up to cut that no complete target in text[lo..hi]
\* straddles; lo - 1 if there is none.  The loop goes there: a target across the
\* cut is across every position from its start on.
safeCut(text, vals, lo, hi, cut) ==
  Greatest({lo - 1} \cup
    {c \in lo..cut :
       ~ \E v \in vals, i \in lo..c : At(text, v, i, hi) /\ c < i + Len(v) - 1})
-----------------------------------------------------------------------------
(* prefixWriter.                                                           *)

\* A prefix in front of every line.
Prefixed(text, tokens) ==
  LET P[i \in 0..Len(tokens)] ==
        IF i = 0 THEN <<>>
        ELSE IF i = 1 \/ IsNL(text, tokens[i - 1])
        THEN P[i - 1] \o <<Prefix, tokens[i]>>
        ELSE Append(P[i - 1], tokens[i])
  IN  P[Len(tokens)]

\* One Write: complete lines go on, the rest waits, unless it is too long.
PrefixWrite(text, w, tokens) ==
  LET all == w.line \o tokens
      end == Greatest({0} \cup {i \in DOMAIN all : IsNL(text, all[i])})
  IN  IF \E t \in DOMAIN tokens : IsNL(text, tokens[t])
      THEN [line |-> SubSeq(all, end + 1, Len(all)),
            out |-> w.out \o Prefixed(text, SubSeq(all, 1, end))]
      ELSE IF Len(all) >= maxBufferedLine
           THEN [line |-> <<>>, out |-> w.out \o <<Prefix>> \o all]
           ELSE [w EXCEPT !.line = all]

\* Flush.
PrefixFlush(w) ==
  IF w.line = <<>> THEN w
  ELSE [line |-> <<>>, out |-> w.out \o <<Prefix>> \o Append(w.line, AddedNL)]

Downstream(w) == line' = w.line /\ out' = w.out
Now == [line |-> line, out |-> out]
-----------------------------------------------------------------------------
(* redactingWriter.                                                        *)

\* text[lo..hi] as one segment, such as the complete lines in the buffer.
Emit(text, w, vals, lo, hi) ==
  IF hi < lo THEN w ELSE PrefixWrite(text, w, Replaced(text, vals, lo, hi))

\* What a buffer text[lo..hi] that is too long gives up.  The targets are
\* looked up three times, each time under the lock.
Overflow(text, w, lo, hi, look) ==
  LET raw == hi - tailHold(text, look[2], lo, hi)
      cut == safeCut(text, look[3], lo, hi, raw)
  IN  CASE hi - lo + 1 < maxRedactBuffer ->
             Downstream(w) /\ start' = lo
        [] hi - lo + 1 >= maxRedactBuffer /\ cut >= lo ->
             Downstream(Emit(text, w, look[4], lo, cut)) /\ start' = cut + 1
        [] hi - lo + 1 >= maxRedactBuffer /\ cut < lo /\ raw >= lo ->
             Downstream(PrefixWrite(text, w, <<Placeholder>>)) /\ start' = raw + 1
        [] OTHER -> Downstream(w) /\ start' = lo

\* One Write of p, which looks at the targets four times.
Write(p, look) ==
  LET text == input \o p
      end == Greatest({start - 1} \cup {i \in start..Len(text) : text[i] = NL})
  IN  /\ Len(text) <= MaxInput
      /\ input' = text
      /\ Overflow(text, Emit(text, Now, look[1], start, end), end + 1, Len(text),
                  look)
      /\ flushed' = FALSE
      /\ UNCHANGED targetSet

Chunks == UNION {[1..n -> Bytes] : n \in 1..Chunk}

WriteBytes ==
  /\ \E p \in Chunks : Write(p, [k \in 1..4 |-> secrets])
  /\ UNCHANGED changedAt

\* Update, or SetStaticValues with another key, comes between two looks.
WriteUpdated ==
  /\ changedAt = -1
  /\ \E p \in Chunks, n \in 1..3 : Write(p, [k \in 1..4 |-> values(k > n)])
  /\ changedAt' = Len(input')

\* Between two writes.
Update ==
  /\ changedAt = -1
  /\ changedAt' = Len(input)
  /\ UNCHANGED <<targetSet, input, start, line, out, flushed>>

\* The subprocess has exited: flushNCSAWriters.
FlushWriters ==
  LET text == IF start <= Len(input) THEN Append(input, NL) ELSE input
  IN  /\ ~flushed
      /\ flushed' = TRUE
      /\ input' = text
      /\ start' = Len(text) + 1
      /\ Downstream(PrefixFlush(Emit(text, Now, secrets, start, Len(text))))
      /\ UNCHANGED <<targetSet, changedAt>>

RedactNext == WriteBytes \/ WriteUpdated \/ Update \/ FlushWriters

RedactSpec == RedactInit /\ [][RedactNext]_redactVars
-----------------------------------------------------------------------------
(* What must hold.                                                         *)

RedactTypeOK ==
  /\ targetSet \in TargetSets
  /\ changedAt \in -1..Len(input)
  /\ input \in Seq(Bytes)
  /\ start \in 1..(Len(input) + 1)
  /\ ToSet(line) \subseteq 0..Len(input)
  /\ ToSet(out) \subseteq AddedNL..Len(input)
  /\ flushed \in BOOLEAN

AnyTime == values(FALSE) \cup values(TRUE)

\* What was secret all the time, and what was when the first byte came.  A
\* secret of several lines can straddle what is written at once.
MustNotShow(v, i) ==
  /\ NL \notin ToSet(v)
  /\ IF changedAt = -1 THEN v \in secrets
     ELSE \/ v \in values(FALSE) \cap values(TRUE)
          \/ v \in secrets /\ i > changedAt

\* However the stream is cut into writes, however full the buffer gets and
\* whenever the targets change, no secret comes out whole, and nothing but
\* secrets is withheld or reordered (tailHold, safeCut, Write, Flush, Update).
StreamRedacted ==
  LET all == out \o line
      Occurs(v, i) == At(input, v, i, Len(input))
  IN  /\ \A v \in AnyTime, i \in 1..Len(input) :
           Occurs(v, i) /\ MustNotShow(v, i) =>
             ~(i..(i + Len(v) - 1) \subseteq ToSet(all))
      /\ \A k \in 1..(start - 1) :
           \/ k \in ToSet(all)
           \/ \E v \in AnyTime, i \in 1..k : Occurs(v, i) /\ k < i + Len(v)
      /\ \A i, j \in DOMAIN all : i < j /\ all[i] > 0 /\ all[j] > 0 => all[i] < all[j]

\* Every line of the result starts with the prefix, which is in the middle of
\* one only where a line was too long; and a subprocess that died in the middle
\* of a line does not get the next one's output appended to it, unless that
\* line was too long (prefixWriter, flushNCSAWriters).
LinesWhole ==
  LET LineEnds(k) == out[k] = AddedNL \/ (out[k] > 0 /\ input[out[k]] = NL)
      TooLong(k) == /\ k >= maxBufferedLine
                    /\ \A j \in (k - maxBufferedLine + 1)..k : out[j] # Prefix
  IN  /\ out # <<>> => out[1] = Prefix
      /\ \A k \in 2..Len(out) : LineEnds(k - 1) => out[k] = Prefix
      /\ \A k \in 2..Len(out) :
           out[k] = Prefix => LineEnds(k - 1) \/ TooLong(k - 1)
      /\ flushed /\ out # <<>> => LineEnds(Len(out)) \/ TooLong(Len(out))

\* The chain of writers loses no secret and breaks no line: both of the above.
OutputSound == StreamRedacted /\ LinesWhole
=============================================================================
