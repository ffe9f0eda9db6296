---------------------------- MODULE Redact_proofs -----------------------------
(***************************************************************************)
(* The chain of writers loses no secret and breaks no line, for any         *)
(* alphabet, secrets, buffer sizes and lengths of the input, however it is  *)
(* cut into writes.                                                        *)
(***************************************************************************)
EXTENDS Redact, Counting, SequenceTheorems, TLAPS


-----------------------------------------------------------------------------
(* The redacting writer.                                                   *)

\* A bounded set of numbers has a greatest one, and Greatest finds it.
LEMMA GreatestIs ==
  ASSUME NEW c \in Nat, NEW S, S \subseteq 0..c, S # {}
  PROVE  /\ Greatest(S) \in S
         /\ Greatest(S) \in 0..c
         /\ \A y \in S : y <= Greatest(S)
  <1> DEFINE T == {x + 1 : x \in S}
  <1>1. T \subseteq 1..(c + 1) /\ T # {}
    <2>1. \A x \in S : x \in 0..c
      OBVIOUS
    <2>2. \A x \in S : x + 1 \in 1..(c + 1)
      BY <2>1
    <2> QED
      BY <2>2
  <1>2. PICK t \in T : \A y \in T : y <= t
    <2> HIDE DEF T
    <2>1. c + 1 \in Nat
      OBVIOUS
    <2> QED
      BY <1>1, <2>1, LargestOf
  <1>3. PICK x \in S : t = x + 1
    OBVIOUS
  <1>4. \A y \in S : y <= x
    <2> TAKE y \in S
    <2>1. y + 1 \in T
      OBVIOUS
    <2>2. y + 1 <= t /\ y \in Int /\ x \in Int
      BY <1>2, <2>1
    <2> QED
      BY <1>3, <2>2
  <1>5. \E z \in S : \A y \in S : y <= z
    BY <1>4
  <1>6. Greatest(S) \in S /\ \A y \in S : y <= Greatest(S)
    BY <1>5 DEF Greatest
  <1> QED
    BY <1>6

\* v can be read at position i of the text, up to hi; and as far as the text
\* goes.
Reads(text, v, i, hi) ==
  i + Len(v) - 1 <= hi /\ \A m \in 1..Len(v) : text[i + m - 1] = v[m]
Fits(text, v, i) ==
  \A m \in 1..Len(v) : i + m - 1 <= Len(text) => text[i + m - 1] = v[m]

\* At compares byte by byte.
LEMMA AtIs ==
  ASSUME NEW text \in Seq(Bytes), NEW v \in Seq(Bytes), v # <<>>,
         NEW i \in Nat, i >= 1, NEW hi \in Nat, hi <= Len(text)
  PROVE  At(text, v, i, hi) <=> Reads(text, v, i, hi)
  <1> DEFINE n == Len(v)
             w == SubSeq(text, i, i + n - 1)
  <1>1. n \in Nat /\ n >= 1 /\ Len(text) \in Nat
    BY EmptySeq
  <1>2. SUFFICES ASSUME i + n - 1 <= hi
                 PROVE  w = v <=> \A m \in 1..n : text[i + m - 1] = v[m]
    BY DEF At, Reads
  <1>3. /\ w \in Seq(Bytes)
        /\ Len(w) = n
        /\ \A m \in 1..n : w[m] = text[i + m - 1]
    <2>1. i \in 1..(Len(text) + 1) /\ i + n - 1 \in (i - 1)..Len(text)
      BY <1>1, <1>2
    <2>2. /\ w \in Seq(Bytes)
          /\ Len(w) = i + n - 1 - i + 1
          /\ \A m \in 1..(i + n - 1 - i + 1) : w[m] = text[i + m - 1]
      BY <2>1, SubSeqProperties
    <2>3. i + n - 1 - i + 1 = n
      BY <1>1
    <2> QED
      BY <2>2, <2>3
  <1> HIDE DEF w, n
  <1>4. ASSUME \A m \in 1..n : text[i + m - 1] = v[m] PROVE w = v
    <2>1. \A m \in 1..n : w[m] = v[m]
      BY <1>3, <1>4
    <2>2. Len(v) = n
      BY DEF n
    <2> QED
      BY <1>3, <2>1, <2>2, SeqEqual
  <1>5. ASSUME w = v PROVE \A m \in 1..n : text[i + m - 1] = v[m]
    BY <1>3, <1>5
  <1> QED
    BY <1>4, <1>5

\* Bytes in the order they were written in, made-up tokens apart.
Asc(c) ==
  \A i, j \in 1..Len(c) : i < j /\ c[i] > 0 /\ c[j] > 0 => c[i] < c[j]

\* The bytes of a were written before those of b.
Ahead(a, b) == \A x \in ToSet(a), y \in ToSet(b) : x > 0 /\ y > 0 => x < y

\* The tokens of a sequence are its elements.
LEMMA TokenIn ==
  ASSUME NEW c \in Seq(Int)
  PROVE  /\ Len(c) \in Nat
         /\ \A i \in 1..Len(c) : c[i] \in Int /\ c[i] \in ToSet(c)
         /\ \A x \in ToSet(c) : \E i \in 1..Len(c) : x = c[i]
         /\ ToSet(c) \subseteq Int
  BY DEF ToSet

\* What is known of two sequences, of one behind the other.
LEMMA Joined ==
  ASSUME NEW a \in Seq(Int), NEW b \in Seq(Int)
  PROVE  /\ a \o b \in Seq(Int)
         /\ ToSet(a \o b) = ToSet(a) \cup ToSet(b)
         /\ Asc(a \o b) <=> Asc(a) /\ Asc(b) /\ Ahead(a, b)
  <1> DEFINE n == Len(a)
             m == Len(b)
             c == a \o b
  <1>1. n \in Nat /\ m \in Nat
    OBVIOUS
  <1>2. /\ c \in Seq(Int) /\ Len(c) = n + m
        /\ \A i \in 1..n : i \in 1..(n + m) /\ c[i] = a[i]
        /\ \A i \in 1..m : n + i \in 1..(n + m) /\ c[n + i] = b[i]
    OBVIOUS
  <1> HIDE DEF c, n, m
  <1>3. \A i \in 1..(n + m) : i \in 1..n \/ \E j \in 1..m : i = n + j
    <2> TAKE i \in 1..(n + m)
    <2>1. CASE i <= n
      BY <1>1, <2>1
    <2>2. CASE ~(i <= n)
      <3>1. i - n \in 1..m /\ i = n + (i - n)
        BY <1>1, <2>2
      <3> QED
        BY <3>1
    <2> QED
      BY <2>1, <2>2
  <1>4. ToSet(c) = ToSet(a) \cup ToSet(b)
    <2>1. ASSUME NEW x \in ToSet(c) PROVE x \in ToSet(a) \cup ToSet(b)
      <3>1. PICK i \in 1..(n + m) : x = c[i]
        BY <1>2, <2>1, TokenIn
      <3>2. CASE i \in 1..n
        <4>1. x = a[i] /\ a[i] \in ToSet(a)
          BY <1>2, <3>1, <3>2, TokenIn DEF n
        <4> QED
          BY <4>1
      <3>3. ASSUME NEW j \in 1..m, i = n + j PROVE x \in ToSet(b)
        <4>1. x = b[j] /\ b[j] \in ToSet(b)
          BY <1>2, <3>1, <3>3, TokenIn DEF m
        <4> QED
          BY <4>1
      <3> QED
        BY <1>3, <3>2, <3>3
    <2>2. ASSUME NEW x \in ToSet(a) PROVE x \in ToSet(c)
      <3>1. PICK i \in 1..n : x = a[i]
        BY <2>2, TokenIn DEF n
      <3> QED
        BY <1>2, <3>1, TokenIn
    <2>3. ASSUME NEW x \in ToSet(b) PROVE x \in ToSet(c)
      <3>1. PICK i \in 1..m : x = b[i]
        BY <2>3, TokenIn DEF m
      <3> QED
        BY <1>2, <3>1, TokenIn
    <2> QED
      BY <2>1, <2>2, <2>3
  <1>5. ASSUME Asc(c) PROVE Asc(a) /\ Asc(b) /\ Ahead(a, b)
    <2>1. \A i, j \in 1..(n + m) : i < j /\ c[i] > 0 /\ c[j] > 0 => c[i] < c[j]
      BY <1>2, <1>5 DEF Asc
    <2>2. Asc(a)
      BY <1>2, <2>1 DEF Asc, n
    <2>3. Asc(b)
      <3> SUFFICES ASSUME NEW i \in 1..m, NEW j \in 1..m, i < j, b[i] > 0, b[j] > 0
                   PROVE  b[i] < b[j]
        BY DEF Asc, m
      <3>1. n + i < n + j
        BY <1>1
      <3> QED
        BY <1>2, <2>1, <3>1
    <2>4. Ahead(a, b)
      <3> SUFFICES ASSUME NEW x \in ToSet(a), NEW y \in ToSet(b), x > 0, y > 0
                   PROVE  x < y
        BY DEF Ahead
      <3>1. PICK i \in 1..n : x = a[i]
        BY TokenIn DEF n
      <3>2. PICK j \in 1..m : y = b[j]
        BY TokenIn DEF m
      <3>3. i < n + j
        BY <1>1
      <3> QED
        BY <1>2, <2>1, <3>1, <3>2, <3>3
    <2> QED
      BY <2>2, <2>3, <2>4
  <1>6. ASSUME Asc(a), Asc(b), Ahead(a, b) PROVE Asc(c)
    <2> SUFFICES ASSUME NEW i \in 1..(n + m), NEW j \in 1..(n + m),
                        i < j, c[i] > 0, c[j] > 0
                 PROVE  c[i] < c[j]
      BY <1>2 DEF Asc
    <2>1. CASE j \in 1..n
      <3>1. i \in 1..n
        BY <1>1, <2>1
      <3> QED
        BY <1>2, <1>6, <2>1, <3>1 DEF Asc, n
    <2>2. ASSUME NEW k \in 1..m, j = n + k PROVE c[i] < c[j]
      <3>1. c[j] = b[k]
        BY <1>2, <2>2
      <3>2. CASE i \in 1..n
        <4>1. c[i] = a[i] /\ a[i] \in ToSet(a) /\ b[k] \in ToSet(b)
          BY <1>2, <3>2, TokenIn DEF n, m
        <4> QED
          BY <1>6, <3>1, <4>1 DEF Ahead
      <3>3. ASSUME NEW l \in 1..m, i = n + l PROVE c[i] < c[j]
        <4>1. c[i] = b[l] /\ l < k
          BY <1>1, <1>2, <2>2, <3>3
        <4> QED
          BY <1>6, <3>1, <4>1 DEF Asc, m
      <3> QED
        BY <1>3, <3>2, <3>3
    <2> QED
      BY <1>3, <2>1, <2>2
  <1> QED
    BY <1>2, <1>4, <1>5, <1>6 DEF c

\* A sequence of one token, or two.
LEMMA OneToken ==
  ASSUME NEW x \in Int
  PROVE  <<x>> \in Seq(Int) /\ Len(<<x>>) = 1 /\ ToSet(<<x>>) = {x} /\ Asc(<<x>>)
  <1>1. <<x>> \in Seq(Int) /\ Len(<<x>>) = 1 /\ DOMAIN <<x>> = {1} /\ <<x>>[1] = x
    OBVIOUS
  <1>2. ToSet(<<x>>) = {x}
    BY <1>1 DEF ToSet
  <1>3. Asc(<<x>>)
    BY <1>1 DEF Asc
  <1> QED
    BY <1>1, <1>2, <1>3

\* The same of a sequence and one token more.
LEMMA Appended ==
  ASSUME NEW a \in Seq(Int), NEW x \in Int
  PROVE  /\ Append(a, x) = a \o <<x>>
         /\ Append(a, x) \in Seq(Int)
         /\ Append(a, x) # <<>>
         /\ ToSet(Append(a, x)) = ToSet(a) \cup {x}
         /\ Asc(a) /\ (x > 0 => \A y \in ToSet(a) : y < x) => Asc(Append(a, x))
  <1>1. Append(a, x) = a \o <<x>>
    BY AppendIsConcat
  <1>2. Asc(a) /\ (x > 0 => \A y \in ToSet(a) : y < x) => Ahead(a, <<x>>)
    BY OneToken, TokenIn DEF Ahead
  <1>3. <<x>> \in Seq(Int) /\ ToSet(<<x>>) = {x} /\ Asc(<<x>>)
    BY OneToken
  <1>4. /\ a \o <<x>> \in Seq(Int)
        /\ ToSet(a \o <<x>>) = ToSet(a) \cup ToSet(<<x>>)
        /\ Asc(a) /\ Asc(<<x>>) /\ Ahead(a, <<x>>) => Asc(a \o <<x>>)
    BY <1>3, Joined
  <1> DEFINE b == a \o <<x>>
  <1>5. Append(a, x) = b
    BY <1>1
  <1>6. /\ b \in Seq(Int)
        /\ ToSet(b) = ToSet(a) \cup ToSet(<<x>>)
        /\ Asc(a) /\ Asc(<<x>>) /\ Ahead(a, <<x>>) => Asc(b)
    BY <1>4
  <1>7. b # <<>>
    BY <1>5, AppendProperties DEF b
  <1> HIDE DEF b
  <1> QED
    BY <1>1, <1>2, <1>3, <1>5, <1>6, <1>7, Zenon

\* A set of targets.
Targets(vals) == \A v \in vals : v \in Seq(Bytes) /\ v # <<>>

\* The targets at a position, and the longest of them.
Here(text, vals, i, hi) == {v \in vals : At(text, v, i, hi)}
Longest(here) == Greatest({Len(v) : v \in here})

\* Where some target is, a longest one is, and it is not empty.
LEMMA LongestIs ==
  ASSUME NEW vals, Targets(vals), NEW text, NEW i \in Nat, NEW hi \in Nat, i <= hi,
         Here(text, vals, i, hi) # {}
  PROVE  /\ Longest(Here(text, vals, i, hi)) \in Nat
         /\ \E v \in Here(text, vals, i, hi) :
              Len(v) = Longest(Here(text, vals, i, hi)) /\ Len(v) >= 1
  <1> DEFINE here == Here(text, vals, i, hi)
             S == {Len(v) : v \in here}
             c == hi - i + 1
  <1>1. ASSUME NEW v \in here
        PROVE  Len(v) \in Nat /\ Len(v) >= 1 /\ Len(v) <= c
    <2>1. v \in Seq(Bytes) /\ v # <<>> /\ At(text, v, i, hi)
      BY DEF Targets, Here
    <2>2. Len(v) \in Nat \ {0}
      BY <2>1, EmptySeq
    <2>3. i + Len(v) - 1 <= hi
      BY <2>1 DEF At
    <2> QED
      BY <2>2, <2>3
  <1>2. c \in Nat
    OBVIOUS
  <1> HIDE DEF c, here
  <1>3. here # {}
    BY DEF here
  <1>4. S \subseteq 0..c /\ S # {}
    <2>1. \A v \in here : Len(v) \in 0..c
      BY <1>1, <1>2
    <2>2. \A v \in here : Len(v) \in S
      OBVIOUS
    <2> QED
      BY <1>3, <2>1, <2>2
  <1>5. Greatest(S) \in S /\ Greatest(S) \in 0..c
    <2> HIDE DEF S
    <2> QED
      BY <1>2, <1>4, GreatestIs
  <1>6. PICK v \in here : Greatest(S) = Len(v)
    BY <1>5
  <1>7. Longest(here) = Greatest(S)
    BY DEF Longest
  <1> HIDE DEF S
  <1> QED
    BY <1>1, <1>6, <1>7 DEF here

\* strings.Replacer at one position.
LEMMA ReplacedAtIs ==
  ASSUME NEW vals, NEW text, NEW hi, NEW i, NEW r
  PROVE  ReplacedAt(text, vals, hi, i, r) =
           IF i < r.past THEN r
           ELSE IF Here(text, vals, i, hi) = {}
           THEN [out |-> Append(r.out, i), past |-> i + 1]
           ELSE [out |-> Append(r.out, Placeholder),
                 past |-> i + Longest(Here(text, vals, i, hi))]
  BY DEF ReplacedAt, Here, Longest

\* What a scan carries from position to position.
Scans == [out : Seq(Int), past : Int]

\* A step of the scan.
LEMMA ScanType ==
  ASSUME NEW vals, Targets(vals), NEW text, NEW hi \in Nat,
         NEW i \in 1..hi, NEW r \in Scans
  PROVE  ReplacedAt(text, vals, hi, i, r) \in Scans
  <1> DEFINE here == Here(text, vals, i, hi)
  <1>1. r.out \in Seq(Int) /\ r.past \in Int
    BY DEF Scans
  <1>2. /\ Append(r.out, i) \in Seq(Int)
        /\ Append(r.out, Placeholder) \in Seq(Int)
    BY <1>1 DEF Placeholder
  <1>3. here # {} => Longest(here) \in Nat
    BY LongestIs
  <1> DEFINE t == ReplacedAt(text, vals, hi, i, r)
  <1>4. \/ t = r
        \/ t = [out |-> Append(r.out, i), past |-> i + 1]
        \/ /\ here # {}
           /\ t = [out |-> Append(r.out, Placeholder), past |-> i + Longest(here)]
    BY ReplacedAtIs, Zenon
  <1> HIDE DEF here, t
  <1>5. i \in Int
    OBVIOUS
  <1>6. here # {} => i + Longest(here) \in Int
    BY <1>3
  <1>7. \A o \in Seq(Int), q \in Int : [out |-> o, past |-> q] \in Scans
    BY DEF Scans
  <1>8. i + 1 \in Int
    BY <1>5
  <1>9. t \in Scans
    BY <1>2, <1>4, <1>6, <1>7, <1>8, Zenon
  <1> QED
    BY <1>9 DEF t

\* The scan of text[lo..hi] up to each position, and what it makes of it.
Scanned(text, vals, lo, hi) ==
  CHOOSE R : R = [i \in (lo - 1)..hi |->
                    IF i = lo - 1 THEN [out |-> <<>>, past |-> lo]
                    ELSE ReplacedAt(text, vals, hi, i, R[i - 1])]

\* s is the scan of text[lo..hi].
IsScan(s, text, vals, lo, hi) ==
  /\ Replaced(text, vals, lo, hi) = s[hi].out
  /\ s[lo - 1] = [out |-> <<>>, past |-> lo]
  /\ \A i \in lo..hi : s[i] = ReplacedAt(text, vals, hi, i, s[i - 1])

\* The recursive definition of the scan is a scan.
LEMMA ScannedIs ==
  ASSUME NEW vals, Targets(vals), NEW text, NEW lo \in Nat, lo >= 1,
         NEW hi \in Nat, lo <= hi
  PROVE  IsScan(Scanned(text, vals, lo, hi), text, vals, lo, hi)
  <1> DEFINE n == hi - lo + 1
             v0 == [out |-> <<>>, past |-> lo]
             Eq(R) == R = [i \in (lo - 1)..hi |->
                             IF i = lo - 1 THEN v0
                             ELSE ReplacedAt(text, vals, hi, i, R[i - 1])]
             step == [j \in 1..n |->
                        [x \in Scans |-> ReplacedAt(text, vals, hi, lo - 1 + j, x)]]
             u == CHOOSE R : Eq(R)
  <1>1. n \in Nat /\ \A j \in 1..n : lo - 1 + j \in 1..hi
    OBVIOUS
  <1>2. Scanned(text, vals, lo, hi) = u /\ Replaced(text, vals, lo, hi) = u[hi].out
    BY DEF Scanned, Replaced
  <1>3. v0 \in Scans
    BY DEF Scans
  <1>4. step \in Steps(n, Scans)
    <2> HIDE DEF n
    <2>1. \A j \in 1..n, x \in Scans :
            ReplacedAt(text, vals, hi, lo - 1 + j, x) \in Scans
      BY <1>1, ScanType
    <2> QED
      BY <2>1 DEF Steps
  <1>5. PICK f : IsIterate(f, n, Scans, v0, step)
    <2> HIDE DEF step, n, v0
    <2> QED
      BY <1>1, <1>3, <1>4, IteratesOf
  <1>6. /\ f \in [0..n -> Scans] /\ f[0] = v0
        /\ \A j \in 1..n : f[j] = step[j][f[j - 1]]
    BY <1>5 DEF IsIterate
  <1>7. \A j \in 1..n : f[j] = ReplacedAt(text, vals, hi, lo - 1 + j, f[j - 1])
    <2> TAKE j \in 1..n
    <2>1. f[j - 1] \in Scans
      BY <1>1, <1>6
    <2>2. f[j] = step[j][f[j - 1]]
      BY <1>6, Zenon
    <2> HIDE DEF n
    <2> QED
      BY <2>1, <2>2
  <1> DEFINE g == [i \in (lo - 1)..hi |-> f[i - (lo - 1)]]
  <1>8. \E R : Eq(R)
    <2> DEFINE h == [i \in (lo - 1)..hi |->
                       IF i = lo - 1 THEN v0
                       ELSE ReplacedAt(text, vals, hi, i, g[i - 1])]
    <2>1. ASSUME NEW i \in (lo - 1)..hi PROVE g[i] = h[i]
      <3>1. CASE i = lo - 1
        <4>1. i - (lo - 1) = 0
          BY <3>1
        <4>2. g[i] = f[0]
          BY <4>1
        <4> QED
          BY <1>6, <3>1, <4>2
      <3>2. CASE i # lo - 1
        <4> DEFINE j == i - (lo - 1)
        <4>1. j \in 1..n /\ lo - 1 + j = i /\ i - 1 \in (lo - 1)..hi
              /\ (i - 1) - (lo - 1) = j - 1
          BY <3>2
        <4>2. g[i] = f[j] /\ g[i - 1] = f[j - 1]
          BY <4>1
        <4>3. f[j] = ReplacedAt(text, vals, hi, lo - 1 + j, f[j - 1])
          BY <1>7, <4>1
        <4>4. f[j] = ReplacedAt(text, vals, hi, i, f[j - 1])
          BY <4>1, <4>3
        <4>5. h[i] = ReplacedAt(text, vals, hi, i, g[i - 1])
          BY <3>2
        <4> HIDE DEF g, h, j
        <4> QED
          BY <4>2, <4>4, <4>5
      <3> QED
        BY <3>1, <3>2
    <2>2. g = h
      <3>1. DOMAIN g = (lo - 1)..hi /\ DOMAIN h = (lo - 1)..hi
        OBVIOUS
      <3>2. g = [i \in (lo - 1)..hi |-> g[i]] /\ h = [i \in (lo - 1)..hi |-> h[i]]
        OBVIOUS
      <3> HIDE DEF g, h
      <3> QED
        BY <2>1, <3>2
    <2>3. Eq(g)
      <3> HIDE DEF g
      <3> QED
        BY <2>2
    <2> QED
      BY <2>3
  <1>9. Eq(u)
    <2> HIDE DEF Eq
    <2> QED
      BY <1>8
  <1> HIDE DEF u, step, n, g
  <1>10. u[lo - 1] = v0
    <2>1. lo - 1 \in (lo - 1)..hi
      OBVIOUS
    <2> QED
      BY <1>9, <2>1
  <1>11. \A i \in lo..hi : u[i] = ReplacedAt(text, vals, hi, i, u[i - 1])
    <2> TAKE i \in lo..hi
    <2>1. i \in (lo - 1)..hi /\ i # lo - 1
      OBVIOUS
    <2> QED
      BY <1>9, <2>1
  <1>12. IsScan(u, text, vals, lo, hi)
    BY <1>2, <1>10, <1>11 DEF IsScan
  <1> QED
    BY <1>2, <1>12

\* Position k is in some target in text[lo..hi].
Under(text, vals, lo, hi, k) ==
  \E v \in vals, j \in lo..k : At(text, v, j, hi) /\ k < j + Len(v)

\* What the scan has made of text[lo..i].
ScanOK(text, vals, lo, hi, i, r) ==
  /\ r.out \in Seq(Int) /\ r.past \in Nat /\ r.past > i /\ r.past >= lo
  /\ r.past > lo => r.out # <<>>
  /\ Asc(r.out)
  /\ ToSet(r.out) \subseteq {0} \cup lo..i
  /\ \A k \in lo..(r.past - 1) :
       k \notin ToSet(r.out) => Under(text, vals, lo, hi, k)
  /\ \A k \in lo..i :
       Here(text, vals, k, hi) # {} => k \notin ToSet(r.out)

\* ScanOK, from its parts.
LEMMA ScanIs ==
  ASSUME NEW vals, NEW text, NEW lo, NEW hi, NEW i, NEW c \in Seq(Int), c # <<>>,
         NEW past \in Nat, past > i, past >= lo, Asc(c),
         ToSet(c) \subseteq {0} \cup lo..i,
         \A k \in lo..(past - 1) : k \notin ToSet(c) => Under(text, vals, lo, hi, k),
         \A k \in lo..i : Here(text, vals, k, hi) # {} => k \notin ToSet(c)
  PROVE  ScanOK(text, vals, lo, hi, i, [out |-> c, past |-> past])
  <1> DEFINE r == [out |-> c, past |-> past]
  <1>1. r.out = c /\ r.past = past
    OBVIOUS
  <1> HIDE DEF r
  <1>2. ScanOK(text, vals, lo, hi, i, r)
    BY <1>1 DEF ScanOK
  <1> QED
    BY <1>2 DEF r

\* The scan begins with nothing shown, at lo.
LEMMA ScanStarts ==
  ASSUME NEW vals, NEW text, NEW hi, NEW lo \in Nat, lo >= 1
  PROVE  ScanOK(text, vals, lo, hi, lo - 1, [out |-> <<>>, past |-> lo])
  <1>1. <<>> \in Seq(Int) /\ Len(<<>>) = 0 /\ ToSet(<<>>) = {} /\ Asc(<<>>)
    BY DEF Asc, ToSet
  <1> HIDE DEF Asc, ToSet
  <1> QED
    BY <1>1 DEF ScanOK

\* A step of the scan shows the byte it is at, or puts the placeholder for a
\* target that begins there, or is inside what it has replaced.
LEMMA ScanKeeps ==
  ASSUME NEW vals, Targets(vals), NEW text, NEW lo \in Nat, lo >= 1,
         NEW hi \in Nat, NEW i \in lo..hi, NEW r \in Scans,
         ScanOK(text, vals, lo, hi, i - 1, r)
  PROVE  ScanOK(text, vals, lo, hi, i, ReplacedAt(text, vals, hi, i, r))
  <1> DEFINE here == Here(text, vals, i, hi)
             far == Longest(here)
             shown == ToSet(r.out)
             t == ReplacedAt(text, vals, hi, i, r)
  <1>1. /\ i \in Nat /\ i >= 1 /\ i <= hi /\ i - 1 \in Nat
        /\ \A k \in lo..i : k = i \/ k \in lo..(i - 1)
    OBVIOUS
  <1>2. /\ r.out \in Seq(Int) /\ r.past \in Nat /\ r.past > i - 1 /\ r.past >= lo
        /\ r.past > lo => r.out # <<>>
        /\ Asc(r.out)
        /\ shown \subseteq {0} \cup lo..(i - 1)
        /\ \A k \in lo..(r.past - 1) : k \notin shown => Under(text, vals, lo, hi, k)
        /\ \A k \in lo..(i - 1) : Here(text, vals, k, hi) # {} => k \notin shown
    BY DEF ScanOK
  <1>3. i \notin shown /\ \A y \in shown : y < i
    BY <1>1, <1>2
  <1> HIDE DEF shown
  <1>4. CASE i < r.past
    <2>1. t = r
      BY <1>4, ReplacedAtIs
    <2>2. ScanOK(text, vals, lo, hi, i, r)
      <3>1. shown \subseteq {0} \cup lo..i
        BY <1>1, <1>2
      <3>2. \A k \in lo..i : Here(text, vals, k, hi) # {} => k \notin shown
        BY <1>1, <1>2, <1>3
      <3> QED
        BY <1>2, <1>4, <3>1, <3>2 DEF ScanOK, shown
    <2> QED
      BY <2>1, <2>2
  <1>5. CASE ~(i < r.past) /\ here = {}
    <2>0. r.past = i
      BY <1>1, <1>2, <1>5
    <2>1. t = [out |-> Append(r.out, i), past |-> i + 1]
      BY <1>5, ReplacedAtIs
    <2>2. /\ Append(r.out, i) \in Seq(Int)
          /\ Append(r.out, i) # <<>>
          /\ ToSet(Append(r.out, i)) = shown \cup {i}
          /\ Asc(Append(r.out, i))
      <3>1. i \in Int /\ r.out \in Seq(Int) /\ Asc(r.out)
        BY <1>1, <1>2
      <3>2. \A y \in ToSet(r.out) : y < i
        BY <1>3 DEF shown
      <3> QED
        BY <3>1, <3>2, Appended DEF shown
    <2> DEFINE c == Append(r.out, i)
    <2> HIDE DEF c
    <2>3. /\ c \in Seq(Int) /\ c # <<>> /\ ToSet(c) = shown \cup {i} /\ Asc(c)
      BY <2>2 DEF c
    <2>4. t = [out |-> c, past |-> i + 1]
      BY <2>1 DEF c
    <2>5. ToSet(c) \subseteq {0} \cup lo..i
      BY <1>1, <1>2, <2>3
    <2>6. \A k \in lo..(i + 1 - 1) : k \notin ToSet(c) => Under(text, vals, lo, hi, k)
      BY <1>1, <1>2, <2>0, <2>3
    <2>7. \A k \in lo..i : Here(text, vals, k, hi) # {} => k \notin ToSet(c)
      BY <1>1, <1>2, <1>5, <2>3
    <2>8. PICK q : q = i + 1
      OBVIOUS
    <2>9. /\ q \in Nat /\ q > i /\ q >= lo
          /\ \A k \in lo..(q - 1) : k \notin ToSet(c) => Under(text, vals, lo, hi, k)
      BY <1>1, <2>6, <2>8
    <2>10. ScanOK(text, vals, lo, hi, i, [out |-> c, past |-> q])
      BY <2>3, <2>5, <2>7, <2>9, ScanIs
    <2> QED
      BY <2>4, <2>8, <2>10, Zenon DEF t
  <1>6. CASE ~(i < r.past) /\ here # {}
    <2>0. r.past = i
      BY <1>1, <1>2, <1>6
    <2>1. t = [out |-> Append(r.out, 0), past |-> i + far]
      BY <1>6, ReplacedAtIs DEF Placeholder
    <2> DEFINE c == Append(r.out, 0)
    <2>2. /\ c \in Seq(Int) /\ c # <<>>
          /\ ToSet(c) = shown \cup {0} /\ Asc(c)
      <3>1. 0 \in Int /\ r.out \in Seq(Int) /\ Asc(r.out) /\ ~(0 > 0)
        BY <1>1, <1>2
      <3> QED
        BY <3>1, Appended DEF shown
    <2> HIDE DEF c
    <2>3. PICK v \in here : Len(v) = far /\ Len(v) >= 1 /\ far \in Nat
      BY <1>1, <1>6, LongestIs
    <2>5. ToSet(c) \subseteq {0} \cup lo..i
      BY <1>1, <1>2, <2>2
    <2> HIDE DEF far
    <2> DEFINE q == i + far
    <2>6. \A k \in lo..(q - 1) : k \notin ToSet(c) => Under(text, vals, lo, hi, k)
      <3> TAKE k \in lo..(q - 1)
      <3> HAVE k \notin ToSet(c)
      <3>1. CASE k < i
        BY <1>1, <1>2, <2>0, <2>2, <3>1
      <3>2. CASE k >= i
        <4>1. i \in lo..k /\ k < i + Len(v)
          BY <1>1, <2>3, <3>2
        <4>2. v \in vals /\ At(text, v, i, hi)
          BY DEF Here
        <4> QED
          BY <4>1, <4>2 DEF Under
      <3> QED
        BY <1>1, <2>3, <3>1, <3>2
    <2>7. \A k \in lo..i : Here(text, vals, k, hi) # {} => k \notin ToSet(c)
      <3>1. \A k \in lo..i : k # 0
        OBVIOUS
      <3> QED
        BY <1>1, <1>2, <1>3, <2>2, <3>1
    <2>8. i + far \in Nat /\ i + far > i /\ i + far >= lo
      BY <1>1, <2>3
    <2>10. q \in Nat /\ q > i /\ q >= lo
      BY <2>8
    <2> HIDE DEF q
    <2>11. ScanOK(text, vals, lo, hi, i, [out |-> c, past |-> q])
      BY <2>2, <2>5, <2>6, <2>7, <2>10, ScanIs
    <2>12. t = [out |-> c, past |-> q]
      BY <2>1 DEF c, q
    <2> HIDE DEF t
    <2>13. ScanOK(text, vals, lo, hi, i, t)
      BY <2>11, <2>12
    <2> QED
      BY <2>13 DEF t
  <1> QED
    BY <1>4, <1>5, <1>6

\* What the replacer makes of text[lo..hi].
Masked(text, vals, lo, hi, c) ==
  /\ c \in Seq(Int) /\ c # <<>> /\ Asc(c)
  /\ ToSet(c) \subseteq {0} \cup lo..hi
  /\ \A k \in lo..hi : k \notin ToSet(c) => Under(text, vals, lo, hi, k)
  /\ \A k \in lo..hi : Here(text, vals, k, hi) # {} => k \notin ToSet(c)

\* What the Replacer makes of a stretch of the text shows no byte at which a
\* target begins, and every byte that is in none.
LEMMA ReplacedIs ==
  ASSUME NEW vals, Targets(vals), NEW text, NEW lo \in Nat, lo >= 1,
         NEW hi \in Nat, lo <= hi
  PROVE  Masked(text, vals, lo, hi, Replaced(text, vals, lo, hi))
  <1> DEFINE u == Scanned(text, vals, lo, hi)
             n == hi - lo + 1
             T == {j \in 0..n : u[lo - 1 + j] \in Scans /\
                      ScanOK(text, vals, lo, hi, lo - 1 + j, u[lo - 1 + j])}
  <1>1. n \in Nat /\ lo - 1 + n = hi /\ lo - 1 + 0 = lo - 1
    OBVIOUS
  <1>2. /\ Replaced(text, vals, lo, hi) = u[hi].out
        /\ u[lo - 1] = [out |-> <<>>, past |-> lo]
        /\ \A i \in lo..hi : u[i] = ReplacedAt(text, vals, hi, i, u[i - 1])
    <2>1. IsScan(u, text, vals, lo, hi)
      BY ScannedIs
    <2> HIDE DEF u
    <2> QED
      BY <2>1, Zenon DEF IsScan
  <1> HIDE DEF u
  <1>3. 0 \in T
    <2>1. ScanOK(text, vals, lo, hi, lo - 1, u[lo - 1])
      BY <1>2, ScanStarts
    <2>2. u[lo - 1] \in Scans
      BY <1>2 DEF Scans
    <2> QED
      BY <1>1, <2>1, <2>2
  <1>4. ASSUME NEW j \in 1..n, j - 1 \in T PROVE j \in T
    <2> DEFINE i == lo - 1 + j
    <2>1. i \in lo..hi /\ lo - 1 + (j - 1) = i - 1 /\ j \in 0..n /\ i \in 1..hi
      OBVIOUS
    <2>2. u[i - 1] \in Scans /\ ScanOK(text, vals, lo, hi, i - 1, u[i - 1])
      BY <1>4, <2>1
    <2> HIDE DEF i
    <2>3. u[i] = ReplacedAt(text, vals, hi, i, u[i - 1])
      BY <1>2, <2>1
    <2>4. u[i] \in Scans
      BY <2>1, <2>2, <2>3, ScanType
    <2>5. ScanOK(text, vals, lo, hi, i, u[i])
      BY <2>1, <2>2, <2>3, ScanKeeps
    <2> QED
      BY <2>1, <2>4, <2>5 DEF i
  <1> HIDE DEF T
  <1>5. \A j \in 0..n : j \in T
    <2> HIDE DEF n
    <2> QED
      BY <1>1, <1>3, <1>4, UpTo
  <1>6. n \in T
    BY <1>1, <1>5
  <1>7. ScanOK(text, vals, lo, hi, hi, u[hi])
    BY <1>1, <1>6 DEF T
  <1>8. u[hi].past > lo
    BY <1>7 DEF ScanOK
  <1>9. \A k \in lo..hi : k \in lo..(u[hi].past - 1)
    BY <1>7 DEF ScanOK
  <1>10. Masked(text, vals, lo, hi, u[hi].out)
    BY <1>7, <1>8, <1>9 DEF ScanOK, Masked
  <1> QED
    BY <1>2, <1>10

-----------------------------------------------------------------------------
(* prefixWriter.                                                           *)

\* The lines that have been written: LinesWhole, for any text and sequence,
\* with its last part as it is at any time.
TooLongAt(c, k) ==
  /\ k >= maxBufferedLine
  /\ \A j \in (k - maxBufferedLine + 1)..k : c[j] # Prefix
Lines(text, c) ==
  /\ c # <<>> => c[1] = Prefix
  /\ \A k \in 2..Len(c) : IsNL(text, c[k - 1]) => c[k] = Prefix
  /\ \A k \in 2..Len(c) : c[k] = Prefix => IsNL(text, c[k - 1]) \/ TooLongAt(c, k - 1)
  /\ c # <<>> => IsNL(text, c[Len(c)]) \/ TooLongAt(c, Len(c))

\* Whole lines after whole lines.
LEMMA LinesJoin ==
  ASSUME NEW text, NEW a \in Seq(Int), NEW b \in Seq(Int),
         Lines(text, a), Lines(text, b)
  PROVE  Lines(text, a \o b)
  <1> DEFINE n == Len(a)
             m == Len(b)
             c == a \o b
             M == maxBufferedLine
  <1>0. M \in Nat
    BY RedactAssumption
  <1>1. n \in Nat /\ m \in Nat
    OBVIOUS
  <1>2. /\ c \in Seq(Int) /\ Len(c) = n + m
        /\ \A i \in 1..n : c[i] = a[i]
        /\ \A i \in 1..m : c[n + i] = b[i]
        /\ n = 0 <=> a = <<>>
        /\ m = 0 <=> b = <<>>
    OBVIOUS
  <1>3. CASE n = 0
    <2>1. c = b
      BY <1>2, <1>3
    <2> QED
      BY <2>1
  <1>4. CASE m = 0
    <2>1. c = a
      BY <1>2, <1>4
    <2> QED
      BY <2>1
  <1>5. CASE n >= 1 /\ m >= 1
    <2>1. /\ a[1] = Prefix /\ b[1] = Prefix
          /\ IsNL(text, a[n]) \/ TooLongAt(a, n)
          /\ IsNL(text, b[m]) \/ TooLongAt(b, m)
      BY <1>1, <1>2, <1>5 DEF Lines
    <2>2. /\ \A k \in 2..n : IsNL(text, a[k - 1]) => a[k] = Prefix
          /\ \A k \in 2..n : a[k] = Prefix => IsNL(text, a[k - 1]) \/ TooLongAt(a, k - 1)
          /\ \A k \in 2..m : IsNL(text, b[k - 1]) => b[k] = Prefix
          /\ \A k \in 2..m : b[k] = Prefix => IsNL(text, b[k - 1]) \/ TooLongAt(b, k - 1)
      BY DEF Lines
    <2> HIDE DEF c, n, m, M
    <2>3. \A k \in 1..n : TooLongAt(a, k) => TooLongAt(c, k)
      <3> SUFFICES ASSUME NEW k \in 1..n, TooLongAt(a, k) PROVE TooLongAt(c, k)
        OBVIOUS
      <3>1. k >= M /\ \A j \in (k - M + 1)..k : a[j] # Prefix
        BY DEF TooLongAt, M
      <3>2. \A j \in (k - M + 1)..k : j \in 1..n
        BY <1>0, <1>1, <3>1
      <3>3. \A j \in (k - M + 1)..k : c[j] # Prefix
        BY <1>2, <3>1, <3>2
      <3> QED
        BY <3>1, <3>3 DEF TooLongAt, M
    <2>4. \A k \in 1..m : TooLongAt(b, k) => TooLongAt(c, n + k)
      <3> SUFFICES ASSUME NEW k \in 1..m, TooLongAt(b, k) PROVE TooLongAt(c, n + k)
        OBVIOUS
      <3>1. k >= M /\ \A j \in (k - M + 1)..k : b[j] # Prefix
        BY DEF TooLongAt, M
      <3>2. \A j \in ((n + k) - M + 1)..(n + k) :
              j - n \in (k - M + 1)..k /\ j - n \in 1..m /\ n + (j - n) = j
        BY <1>0, <1>1, <3>1
      <3>3. \A j \in ((n + k) - M + 1)..(n + k) : c[j] # Prefix
        <4> TAKE j \in ((n + k) - M + 1)..(n + k)
        <4>1. c[n + (j - n)] = b[j - n] /\ b[j - n] # Prefix
          BY <1>2, <3>1, <3>2
        <4> QED
          BY <3>2, <4>1
      <3>4. n + k >= M
        BY <1>0, <1>1, <3>1
      <3> QED
        BY <3>3, <3>4 DEF TooLongAt, M
    <2>5. \A k \in 2..(n + m) :
             \/ k \in 2..n /\ c[k] = a[k] /\ c[k - 1] = a[k - 1]
             \/ k = n + 1 /\ c[k] = b[1] /\ c[k - 1] = a[n]
             \/ \E i \in 2..m : /\ k = n + i /\ k - 1 = n + (i - 1)
                                /\ c[k] = b[i] /\ c[k - 1] = b[i - 1]
      <3> TAKE k \in 2..(n + m)
      <3>1. CASE k <= n
        <4>1. k \in 1..n /\ k - 1 \in 1..n /\ k \in 2..n
          BY <1>1, <3>1
        <4> QED
          BY <1>2, <4>1
      <3>2. CASE k = n + 1
        <4>1. c[n + 1] = b[1] /\ c[n] = a[n] /\ k - 1 = n
          BY <1>1, <1>2, <1>5, <3>2
        <4> QED
          BY <3>2, <4>1
      <3>3. CASE k >= n + 2
        <4> DEFINE i == k - n
        <4>1. /\ i \in 2..m /\ i \in 1..m /\ i - 1 \in 1..m
              /\ k = n + i /\ k - 1 = n + (i - 1)
          BY <1>1, <3>3
        <4> HIDE DEF i
        <4>2. c[n + i] = b[i] /\ c[n + (i - 1)] = b[i - 1]
          BY <1>2, <4>1
        <4>3. c[k] = b[i] /\ c[k - 1] = b[i - 1]
          BY <4>1, <4>2
        <4> QED
          BY <4>1, <4>3
      <3> QED
        BY <1>1, <3>1, <3>2, <3>3
    <2>6. \A k \in 2..(n + m) : IsNL(text, c[k - 1]) => c[k] = Prefix
      BY <2>1, <2>2, <2>5
    <2>7. \A k \in 2..(n + m) :
             c[k] = Prefix => IsNL(text, c[k - 1]) \/ TooLongAt(c, k - 1)
      <3> SUFFICES ASSUME NEW k \in 2..(n + m), c[k] = Prefix
                   PROVE  IsNL(text, c[k - 1]) \/ TooLongAt(c, k - 1)
        OBVIOUS
      <3>1. CASE k \in 2..n /\ c[k] = a[k] /\ c[k - 1] = a[k - 1]
        <4>1. k - 1 \in 1..n
          BY <1>1, <3>1
        <4> QED
          BY <2>2, <2>3, <3>1, <4>1
      <3>2. CASE k = n + 1 /\ c[k - 1] = a[n]
        <4>1. k - 1 = n /\ n \in 1..n
          BY <1>1, <1>5, <3>2
        <4> QED
          BY <2>1, <2>3, <3>2, <4>1
      <3>3. ASSUME NEW i \in 2..m, k - 1 = n + (i - 1),
                   c[k] = b[i], c[k - 1] = b[i - 1]
            PROVE  IsNL(text, c[k - 1]) \/ TooLongAt(c, k - 1)
        <4>1. i - 1 \in 1..m
          BY <1>1
        <4>2. IsNL(text, b[i - 1]) \/ TooLongAt(b, i - 1)
          BY <2>2, <3>3
        <4> QED
          BY <2>4, <3>3, <4>1, <4>2
      <3> QED
        BY <2>5, <3>1, <3>2, <3>3
    <2>8. c[1] = Prefix
      BY <1>1, <1>2, <1>5, <2>1
    <2>9. IsNL(text, c[n + m]) \/ TooLongAt(c, n + m)
      <3>1. m \in 1..m
        BY <1>1, <1>5
      <3> QED
        BY <1>2, <2>1, <2>4, <3>1
    <2> HIDE DEF TooLongAt, IsNL
    <2>10. Lines(text, c)
      BY <1>2, <2>6, <2>7, <2>8, <2>9 DEF Lines
    <2> QED
      BY <2>10 DEF c
  <1> QED
    BY <1>1, <1>3, <1>4, <1>5

\* One more token after a prefix, or after the last one.
Fronted(text, tokens, i, x) ==
  IF i = 1 \/ IsNL(text, tokens[i - 1])
  THEN x \o <<Prefix, tokens[i]>>
  ELSE Append(x, tokens[i])
PrefixedUpTo(text, tokens) ==
  CHOOSE P : P = [i \in 0..Len(tokens) |->
                    IF i = 0 THEN <<>> ELSE Fronted(text, tokens, i, P[i - 1])]

\* A token and its prefix.
LEMMA FrontedType ==
  ASSUME NEW text, NEW tokens \in Seq(Int), NEW i \in 1..Len(tokens), NEW x \in Seq(Int)
  PROVE  Fronted(text, tokens, i, x) \in Seq(Int)
  <1>1. tokens[i] \in Int
    OBVIOUS
  <1>2. <<Prefix, tokens[i]>> \in Seq(Int)
    BY <1>1 DEF Prefix
  <1>3. x \o <<Prefix, tokens[i]>> \in Seq(Int)
    BY <1>2
  <1>4. Append(x, tokens[i]) \in Seq(Int)
    BY <1>1
  <1> QED
    BY <1>3, <1>4, Zenon DEF Fronted

\* The recursive definition of the prefixes, up to each token.
LEMMA PrefixedUpToIs ==
  ASSUME NEW text, NEW tokens \in Seq(Int)
  PROVE  /\ Prefixed(text, tokens) = PrefixedUpTo(text, tokens)[Len(tokens)]
         /\ PrefixedUpTo(text, tokens)[0] = <<>>
         /\ \A i \in 1..Len(tokens) :
              PrefixedUpTo(text, tokens)[i] =
                Fronted(text, tokens, i, PrefixedUpTo(text, tokens)[i - 1])
  <1> DEFINE n == Len(tokens)
             V == Seq(Int)
             Eq(P) == P = [i \in 0..n |->
                             IF i = 0 THEN <<>>
                             ELSE Fronted(text, tokens, i, P[i - 1])]
             step == [i \in 1..n |-> [x \in V |-> Fronted(text, tokens, i, x)]]
             u == CHOOSE P : Eq(P)
  <1>1. n \in Nat
    OBVIOUS
  <1>2. PrefixedUpTo(text, tokens) = u /\ Prefixed(text, tokens) = u[n]
    <2>1. PrefixedUpTo(text, tokens) = u
      BY DEF PrefixedUpTo
    <2>2. Prefixed(text, tokens) = PrefixedUpTo(text, tokens)[n]
      <3> DEFINE W(P) == [i \in 0..Len(tokens) |->
                            IF i = 0 THEN <<>>
                            ELSE IF i = 1 \/ IsNL(text, tokens[i - 1])
                            THEN P[i - 1] \o <<Prefix, tokens[i]>>
                            ELSE Append(P[i - 1], tokens[i])]
      <3>1. Prefixed(text, tokens) = (CHOOSE P : P = W(P))[n]
        BY DEF Prefixed
      <3>2. PrefixedUpTo(text, tokens) = CHOOSE P : P = W(P)
        BY DEF PrefixedUpTo, Fronted
      <3> QED
        BY <3>1, <3>2
    <2> QED
      BY <2>1, <2>2
  <1>3. <<>> \in V
    OBVIOUS
  <1>4. step \in Steps(n, V)
    <2>1. \A i \in 1..n, x \in V : Fronted(text, tokens, i, x) \in V
      BY FrontedType
    <2> HIDE DEF n, V
    <2> QED
      BY <2>1 DEF Steps
  <1>5. PICK f : IsIterate(f, n, V, <<>>, step)
    <2> HIDE DEF step, n, V
    <2> QED
      BY <1>1, <1>3, <1>4, IteratesOf
  <1> HIDE DEF V
  <1>6. /\ f \in [0..n -> V] /\ f[0] = <<>>
        /\ \A i \in 1..n : f[i] = step[i][f[i - 1]]
    BY <1>5 DEF IsIterate
  <1>7. \A i \in 1..n : f[i] = Fronted(text, tokens, i, f[i - 1])
    <2> TAKE i \in 1..n
    <2>1. i - 1 \in 0..n
      BY <1>1
    <2>2. f[i - 1] \in V
      BY <1>6, <2>1
    <2>3. f[i] = step[i][f[i - 1]]
      BY <1>6, Zenon
    <2> HIDE DEF n
    <2> QED
      BY <2>2, <2>3
  <1>8. Eq(f)
    <2> DEFINE g == [i \in 0..n |->
                       IF i = 0 THEN <<>> ELSE Fronted(text, tokens, i, f[i - 1])]
    <2>1. ASSUME NEW i \in 0..n PROVE f[i] = g[i]
      <3>1. CASE i = 0
        BY <1>6, <3>1
      <3>2. CASE i # 0
        <4>1. i \in 1..n
          BY <1>1, <3>2
        <4> QED
          BY <1>7, <3>2, <4>1
      <3> QED
        BY <3>1, <3>2
    <2>2. f = g
      BY <1>6, <2>1
    <2> QED
      BY <2>2
  <1>9. Eq(u)
    <2> HIDE DEF Eq
    <2> QED
      BY <1>8
  <1> HIDE DEF u, step, n
  <1>10. u[0] = <<>>
    BY <1>1, <1>9
  <1>11. \A i \in 1..n : u[i] = Fronted(text, tokens, i, u[i - 1])
    <2> TAKE i \in 1..n
    <2>1. i \in 0..n /\ i # 0
      BY <1>1
    <2> QED
      BY <1>9, <2>1
  <1> QED
    BY <1>2, <1>10, <1>11 DEF n

\* Bytes and placeholders.
Plain(tokens) == \A j \in 1..Len(tokens) : tokens[j] >= 0

\* Two tokens appended.
LEMMA TwoTokens ==
  ASSUME NEW c \in Seq(Int), NEW x \in Int, NEW y \in Int
  PROVE  /\ c \o <<x, y>> = Append(Append(c, x), y)
         /\ Len(Append(Append(c, x), y)) = Len(c) + 2
         /\ \A k \in 1..Len(c) : Append(Append(c, x), y)[k] = c[k]
         /\ Append(Append(c, x), y)[Len(c) + 1] = x
         /\ Append(Append(c, x), y)[Len(c) + 2] = y
  <1> DEFINE d == Append(c, x)
  <1>1. c \o <<x, y>> = Append(d, y)
    OBVIOUS
  <1>2. d \in Seq(Int) /\ Len(d) = Len(c) + 1 /\ d[Len(c) + 1] = x
        /\ \A k \in 1..Len(c) : d[k] = c[k]
    OBVIOUS
  <1> HIDE DEF d
  <1>3. /\ Len(Append(d, y)) = Len(c) + 2
        /\ \A k \in 1..(Len(c) + 1) : Append(d, y)[k] = d[k]
        /\ Append(d, y)[Len(c) + 2] = y
    BY <1>2
  <1>4. /\ \A k \in 1..Len(c) : Append(d, y)[k] = c[k]
        /\ Append(d, y)[Len(c) + 1] = x
    BY <1>2, <1>3
  <1> QED
    BY <1>1, <1>3, <1>4 DEF d

\* What has become of the first i tokens.
FrontOK(text, tokens, i, c) ==
  /\ c \in Seq(Int)
  /\ \A x \in Int : x # Prefix =>
       (x \in ToSet(c) <=> \E j \in 1..i : x = tokens[j])
  /\ Asc(tokens) => Asc(c)
  /\ i >= 1 => Len(c) >= 1 /\ c[1] = Prefix /\ c[Len(c)] = tokens[i]
  /\ i = 0 => c = <<>>
  /\ \A k \in 2..Len(c) : c[k] = Prefix <=> IsNL(text, c[k - 1])

\* One token more, with a prefix if it begins a line.
LEMMA FrontKeeps ==
  ASSUME NEW text, NEW tokens \in Seq(Int), Plain(tokens), NEW i \in 1..Len(tokens),
         NEW c, FrontOK(text, tokens, i - 1, c)
  PROVE  FrontOK(text, tokens, i, Fronted(text, tokens, i, c))
  <1> DEFINE x == tokens[i]
             d == IF i = 1 \/ IsNL(text, tokens[i - 1]) THEN Append(c, Prefix) ELSE c
             e == Append(d, x)
             n == Len(c)
  <1>1. x \in Int /\ x >= 0 /\ Prefix \in Int /\ ~(Prefix > 0) /\ x # Prefix
    BY DEF Plain, Prefix
  <1>2. ~IsNL(text, Prefix)
    BY DEF IsNL, Prefix, AddedNL
  <1>3. /\ c \in Seq(Int)
        /\ \A y \in Int : y # Prefix =>
             (y \in ToSet(c) <=> \E j \in 1..(i - 1) : y = tokens[j])
        /\ Asc(tokens) => Asc(c)
        /\ i - 1 >= 1 => n >= 1 /\ c[1] = Prefix /\ c[n] = tokens[i - 1]
        /\ i - 1 = 0 => c = <<>>
        /\ \A k \in 2..n : c[k] = Prefix <=> IsNL(text, c[k - 1])
    BY DEF FrontOK
  <1>0. c \in Seq(Int)
    BY <1>3
  <1>4. Fronted(text, tokens, i, c) = e
    <2>1. c \o <<Prefix, x>> = Append(Append(c, Prefix), x)
      BY <1>0, <1>1, TwoTokens, SMTT(30)
    <2> HIDE DEF x
    <2> QED
      BY <2>1, Zenon DEF Fronted, x
  <1>5. n \in Nat /\ (i = 1 => n = 0) /\ (i # 1 => n >= 1 /\ i - 1 >= 1)
    BY <1>3
  <1>6. ASSUME Asc(tokens) PROVE \A y \in ToSet(c) : x > 0 => y < x
    <2> SUFFICES ASSUME NEW y \in ToSet(c), x > 0 PROVE y < x
      OBVIOUS
    <2>1. y \in Int
      BY <1>3, TokenIn
    <2>2. CASE y > 0
      <3>1. PICK j \in 1..(i - 1) : y = tokens[j]
        BY <1>1, <1>3, <2>1, <2>2
      <3>2. j \in 1..Len(tokens) /\ j < i
        OBVIOUS
      <3> QED
        BY <1>6, <2>2, <3>1, <3>2 DEF Asc
    <2> QED
      BY <1>1, <2>1, <2>2
  <1>7. /\ d \in Seq(Int)
        /\ ToSet(c) \subseteq ToSet(d)
        /\ ToSet(d) \subseteq ToSet(c) \cup {Prefix}
        /\ Asc(tokens) => Asc(d)
    <2>1. /\ Append(c, Prefix) \in Seq(Int)
          /\ ToSet(Append(c, Prefix)) = ToSet(c) \cup {Prefix}
          /\ Asc(c) => Asc(Append(c, Prefix))
      BY <1>1, <1>3, Appended
    <2> HIDE DEF ToSet, Asc
    <2> QED
      BY <1>3, <2>1
  <1>8. /\ e \in Seq(Int)
        /\ ToSet(e) = ToSet(d) \cup {x}
        /\ Asc(tokens) => Asc(e)
    <2> HIDE DEF d, x
    <2>1. Asc(tokens) => \A y \in ToSet(d) : x > 0 => y < x
      BY <1>1, <1>6, <1>7
    <2>2. /\ e \in Seq(Int)
          /\ ToSet(e) = ToSet(d) \cup {x}
          /\ Asc(d) /\ (x > 0 => \A y \in ToSet(d) : y < x) => Asc(e)
      BY <1>1, <1>7, Appended
    <2> QED
      BY <1>7, <2>1, <2>2
  <1>9. ASSUME NEW y \in Int, y # Prefix
        PROVE  y \in ToSet(e) <=> \E j \in 1..i : y = tokens[j]
    <2> HIDE DEF e, d
    <2>1. y \in ToSet(e) <=> y \in ToSet(c) \/ y = tokens[i]
      BY <1>7, <1>8, <1>9
    <2>2. \A j \in 1..i : j = i \/ j \in 1..(i - 1)
      OBVIOUS
    <2>3. i \in 1..i /\ \A j \in 1..(i - 1) : j \in 1..i
      OBVIOUS
    <2> QED
      BY <1>3, <1>9, <2>1, <2>2, <2>3
  <1>10. CASE i = 1
    <2>1. e = Append(Append(<<>>, Prefix), x)
      BY <1>3, <1>10
    <2>2. Len(e) = 2 /\ e[1] = Prefix /\ e[2] = x
      BY <1>1, <2>1
    <2> HIDE DEF e, x
    <2>3. \A k \in 2..Len(e) : e[k] = Prefix <=> IsNL(text, e[k - 1])
      <3>1. \A k \in 2..2 : k = 2 /\ k - 1 = 1
        OBVIOUS
      <3> QED
        BY <1>1, <1>2, <2>2, <3>1
    <2>4. FrontOK(text, tokens, i, e)
      <3>1. i >= 1 /\ i # 0 /\ Len(e) >= 1
        BY <2>2
      <3> QED
        BY <1>8, <1>9, <2>2, <2>3, <3>1 DEF FrontOK, x
    <2> QED
      BY <1>4, <2>4
  <1>11. CASE i # 1 /\ IsNL(text, tokens[i - 1])
    <2>1. e = Append(Append(c, Prefix), x)
      BY <1>11
    <2>2. /\ Len(e) = n + 2
          /\ \A k \in 1..n : e[k] = c[k]
          /\ e[n + 1] = Prefix
          /\ e[n + 2] = x
      BY <1>0, <1>1, <2>1, TwoTokens, SMTT(30)
    <2> HIDE DEF e, x, n
    <2>3. \A k \in 2..Len(e) : e[k] = Prefix <=> IsNL(text, e[k - 1])
      <3> TAKE k \in 2..Len(e)
      <3>1. CASE k <= n
        <4>1. k \in 2..n /\ k \in 1..n /\ k - 1 \in 1..n
          BY <1>5, <3>1
        <4> QED
          BY <1>3, <2>2, <4>1
      <3>2. CASE k = n + 1
        <4>1. k - 1 = n /\ n \in 1..n
          BY <1>5, <1>11, <3>2
        <4>2. e[k - 1] = tokens[i - 1] /\ e[k] = Prefix
          BY <1>3, <1>5, <1>11, <2>2, <3>2, <4>1
        <4> QED
          BY <1>11, <4>2
      <3>3. CASE k = n + 2
        <4>1. k - 1 = n + 1
          BY <1>5, <3>3
        <4>2. e[k] = x /\ e[k - 1] = Prefix
          BY <2>2, <3>3, <4>1
        <4> QED
          BY <1>1, <1>2, <4>2
      <3> QED
        BY <1>5, <2>2, <3>1, <3>2, <3>3
    <2>4. FrontOK(text, tokens, i, e)
      <3>1. i >= 1 /\ i # 0 /\ Len(e) >= 1
        BY <1>5, <2>2
      <3>2. e[1] = Prefix
        BY <1>3, <1>5, <1>11, <2>2
      <3>3. e[Len(e)] = tokens[i]
        BY <2>2 DEF x
      <3> QED
        BY <1>8, <1>9, <2>3, <3>1, <3>2, <3>3 DEF FrontOK
    <2> QED
      BY <1>4, <2>4
  <1>12. CASE i # 1 /\ ~IsNL(text, tokens[i - 1])
    <2>1. e = Append(c, x)
      BY <1>12
    <2>2. /\ Len(e) = n + 1
          /\ \A k \in 1..n : e[k] = c[k]
          /\ e[n + 1] = x
      BY <1>0, <1>1, <2>1, AppendProperties, SMTT(30)
    <2> HIDE DEF e, x, n
    <2>3. \A k \in 2..Len(e) : e[k] = Prefix <=> IsNL(text, e[k - 1])
      <3> TAKE k \in 2..Len(e)
      <3>1. CASE k <= n
        <4>1. k \in 2..n /\ k \in 1..n /\ k - 1 \in 1..n
          BY <1>5, <3>1
        <4> QED
          BY <1>3, <2>2, <4>1
      <3>2. CASE k = n + 1
        <4>1. k - 1 = n /\ n \in 1..n
          BY <1>5, <1>12, <3>2
        <4>2. e[k - 1] = tokens[i - 1] /\ e[k] = x
          BY <1>3, <1>5, <1>12, <2>2, <3>2, <4>1
        <4> QED
          BY <1>1, <1>12, <4>2
      <3> QED
        BY <1>5, <2>2, <3>1, <3>2
    <2>4. FrontOK(text, tokens, i, e)
      <3>1. i >= 1 /\ i # 0 /\ Len(e) >= 1
        BY <1>5, <2>2
      <3>2. e[1] = Prefix
        BY <1>3, <1>5, <1>12, <2>2
      <3>3. e[Len(e)] = tokens[i]
        BY <2>2 DEF x
      <3> QED
        BY <1>8, <1>9, <2>3, <3>1, <3>2, <3>3 DEF FrontOK
    <2> QED
      BY <1>4, <2>4
  <1> QED
    BY <1>10, <1>11, <1>12

\* The bytes of some tokens.
BytesOf(tokens) == {x \in ToSet(tokens) : x > 0}

\* Complete lines are written as lines, with the same bytes.
LEMMA PrefixedIs ==
  ASSUME NEW text, NEW tokens \in Seq(Int), Plain(tokens), tokens # <<>>,
         IsNL(text, tokens[Len(tokens)])
  PROVE  /\ Prefixed(text, tokens) \in Seq(Int)
         /\ BytesOf(Prefixed(text, tokens)) = BytesOf(tokens)
         /\ ToSet(Prefixed(text, tokens)) \subseteq {Prefix} \cup ToSet(tokens)
         /\ Asc(tokens) => Asc(Prefixed(text, tokens))
         /\ Lines(text, Prefixed(text, tokens))
  <1> DEFINE n == Len(tokens)
             u == PrefixedUpTo(text, tokens)
             T == {i \in 0..n : FrontOK(text, tokens, i, u[i])}
             c == u[n]
  <1>1. n \in Nat /\ n >= 1
    OBVIOUS
  <1>2. /\ Prefixed(text, tokens) = u[n]
        /\ u[0] = <<>>
        /\ \A i \in 1..n : u[i] = Fronted(text, tokens, i, u[i - 1])
    BY PrefixedUpToIs
  <1> HIDE DEF u
  <1>3. 0 \in T
    <2>1. <<>> \in Seq(Int) /\ Len(<<>>) = 0 /\ ToSet(<<>>) = {} /\ Asc(<<>>)
      BY DEF Asc, ToSet
    <2> HIDE DEF Asc, ToSet
    <2>2. FrontOK(text, tokens, 0, <<>>)
      BY <2>1 DEF FrontOK
    <2> QED
      BY <1>1, <1>2, <2>2
  <1>4. ASSUME NEW i \in 1..n, i - 1 \in T PROVE i \in T
    <2>1. FrontOK(text, tokens, i - 1, u[i - 1])
      BY <1>4
    <2>2. FrontOK(text, tokens, i, Fronted(text, tokens, i, u[i - 1]))
      BY <2>1, FrontKeeps
    <2>3. i \in 0..n
      BY <1>1
    <2> HIDE DEF n
    <2>4. u[i] = Fronted(text, tokens, i, u[i - 1])
      BY <1>2
    <2> QED
      BY <2>2, <2>3, <2>4
  <1> HIDE DEF T
  <1>5. \A i \in 0..n : i \in T
    <2> HIDE DEF n
    <2> QED
      BY <1>1, <1>3, <1>4, UpTo
  <1>6. FrontOK(text, tokens, n, c)
    BY <1>1, <1>5 DEF T
  <1> HIDE DEF c
  <1>7. /\ c \in Seq(Int)
        /\ \A x \in Int : x # Prefix =>
             (x \in ToSet(c) <=> \E j \in 1..n : x = tokens[j])
        /\ Asc(tokens) => Asc(c)
        /\ Len(c) >= 1 /\ c[1] = Prefix /\ c[Len(c)] = tokens[n]
        /\ \A k \in 2..Len(c) : c[k] = Prefix <=> IsNL(text, c[k - 1])
    BY <1>1, <1>6 DEF FrontOK
  <1>8. \A x \in Int : x # Prefix => (x \in ToSet(c) <=> x \in ToSet(tokens))
    BY <1>7, TokenIn
  <1>9. ToSet(c) \subseteq Int /\ ToSet(tokens) \subseteq Int
    BY <1>7, TokenIn
  <1>10. ToSet(c) \subseteq {Prefix} \cup ToSet(tokens)
    BY <1>8, <1>9
  <1>11. BytesOf(c) = BytesOf(tokens)
    <2>1. \A x \in Int : x > 0 => x # Prefix
      BY DEF Prefix
    <2> QED
      BY <1>8, <1>9, <2>1 DEF BytesOf
  <1>12. Lines(text, c)
    <2>1. IsNL(text, c[Len(c)])
      BY <1>7
    <2> QED
      BY <1>7, <2>1 DEF Lines
  <1> QED
    BY <1>2, <1>7, <1>10, <1>11, <1>12 DEF c

\* A line that is given up because it is too long.
LEMMA LongLine ==
  ASSUME NEW text, NEW tokens \in Seq(Int), Plain(tokens),
         \A j \in 1..Len(tokens) : ~IsNL(text, tokens[j]),
         Len(tokens) >= maxBufferedLine
  PROVE  Lines(text, <<Prefix>> \o tokens)
  <1> DEFINE n == Len(tokens)
             c == <<Prefix>> \o tokens
             M == maxBufferedLine
  <1>0. M \in Nat
    BY RedactAssumption
  <1>1. Prefix \in Int /\ ~IsNL(text, Prefix) /\ \A x \in Int : x >= 0 => x # Prefix
    BY DEF Prefix, IsNL, AddedNL
  <1>2. n \in Nat /\ n >= M
    OBVIOUS
  <1>3. /\ Len(c) = n + 1 /\ c[1] = Prefix
        /\ \A k \in 2..(n + 1) : k - 1 \in 1..n /\ c[k] = tokens[k - 1]
    BY <1>1
  <1>4. \A k \in 2..(n + 1) : c[k] # Prefix /\ ~IsNL(text, c[k])
    <2> TAKE k \in 2..(n + 1)
    <2>1. c[k] = tokens[k - 1] /\ k - 1 \in 1..n
      BY <1>3
    <2>2. tokens[k - 1] >= 0 /\ tokens[k - 1] \in Int /\ ~IsNL(text, tokens[k - 1])
      BY <2>1 DEF Plain
    <2> QED
      BY <1>1, <2>1, <2>2
  <1> HIDE DEF c, n, M
  <1>5. TooLongAt(c, n + 1)
    <2>1. \A j \in ((n + 1) - M + 1)..(n + 1) : j \in 2..(n + 1)
      BY <1>0, <1>2
    <2>2. n + 1 >= M
      BY <1>0, <1>2
    <2> QED
      BY <1>4, <2>1, <2>2 DEF TooLongAt, M
  <1>6. \A k \in 2..(n + 1) : k - 1 = 1 \/ k - 1 \in 2..(n + 1)
    BY <1>2
  <1>7. \A k \in 2..(n + 1) : ~IsNL(text, c[k - 1])
    BY <1>1, <1>3, <1>4, <1>6
  <1>8. Lines(text, c)
    BY <1>3, <1>4, <1>5, <1>7 DEF Lines
  <1> QED
    BY <1>8 DEF c

\* A line that ends because the subprocess has.
LEMMA LastLine ==
  ASSUME NEW text, NEW tokens \in Seq(Int), Plain(tokens),
         \A j \in 1..Len(tokens) : ~IsNL(text, tokens[j])
  PROVE  Lines(text, <<Prefix>> \o Append(tokens, AddedNL))
  <1> DEFINE n == Len(tokens)
             c == <<Prefix>> \o Append(tokens, AddedNL)
  <1>1. /\ Prefix \in Int /\ ~IsNL(text, Prefix) /\ \A x \in Int : x >= 0 => x # Prefix
        /\ AddedNL \in Int /\ IsNL(text, AddedNL) /\ AddedNL # Prefix
    BY DEF Prefix, IsNL, AddedNL
  <1>2. n \in Nat
    OBVIOUS
  <1>3. /\ Len(c) = n + 2 /\ c[1] = Prefix /\ c[n + 2] = AddedNL
        /\ \A k \in 2..(n + 1) : k - 1 \in 1..n /\ c[k] = tokens[k - 1]
    BY <1>1
  <1>4. \A k \in 2..(n + 1) : c[k] # Prefix /\ ~IsNL(text, c[k])
    <2> TAKE k \in 2..(n + 1)
    <2>1. c[k] = tokens[k - 1] /\ k - 1 \in 1..n
      BY <1>3
    <2>2. tokens[k - 1] >= 0 /\ tokens[k - 1] \in Int /\ ~IsNL(text, tokens[k - 1])
      BY <2>1 DEF Plain
    <2> QED
      BY <1>1, <2>1, <2>2
  <1> HIDE DEF c, n
  <1>6. ASSUME NEW k \in 2..(n + 2) PROVE ~IsNL(text, c[k - 1]) /\ c[k] # Prefix
    <2>0. /\ k = n + 2 \/ k \in 2..(n + 1)
          /\ k - 1 = 1 \/ k - 1 \in 2..(n + 1)
      BY <1>2
    <2>1. c[k] # Prefix
      <3>1. CASE k = n + 2
        BY <1>1, <1>3, <3>1
      <3>2. CASE k \in 2..(n + 1)
        BY <1>4, <3>2
      <3> QED
        BY <2>0, <3>1, <3>2
    <2>2. ~IsNL(text, c[k - 1])
      <3>1. CASE k - 1 = 1
        BY <1>1, <1>3, <3>1
      <3>2. CASE k - 1 \in 2..(n + 1)
        BY <1>4, <3>2
      <3> QED
        BY <2>0, <3>1, <3>2
    <2> QED
      BY <2>1, <2>2
  <1>7. IsNL(text, c[Len(c)])
    BY <1>1, <1>3
  <1>8. Lines(text, c)
    BY <1>3, <1>6, <1>7 DEF Lines
  <1> QED
    BY <1>8 DEF c

\* The prefixWriter when it has been given the bytes up to n.
Writers == [line : Seq(Int), out : Seq(Int)]
Shown(w) == BytesOf(w.out) \cup BytesOf(w.line)
WriterOK(text, w, n) ==
  /\ w \in Writers
  /\ ToSet(w.line) \subseteq 0..n
  /\ ToSet(w.out) \subseteq AddedNL..n
  /\ Asc(w.out) /\ Asc(w.line) /\ Ahead(w.out, w.line)
  /\ \A x \in ToSet(w.line) : ~IsNL(text, x)
  /\ Lines(text, w.out)

\* A sequence in two.
Split(c, e, a, b) ==
  /\ a \in Seq(Int) /\ b \in Seq(Int) /\ c = a \o b
  /\ Len(a) = e /\ \A i \in 1..e : a[i] = c[i]
  /\ \A x \in ToSet(b) : \E i \in (e + 1)..Len(c) : x = c[i]

\* SubSeq splits a sequence.
LEMMA SplitAt ==
  ASSUME NEW c \in Seq(Int), NEW e \in 0..Len(c)
  PROVE  Split(c, e, SubSeq(c, 1, e), SubSeq(c, e + 1, Len(c)))
  <1> DEFINE a == SubSeq(c, 1, e)
             b == SubSeq(c, e + 1, Len(c))
             n == Len(c)
  <1>1. n \in Nat /\ e \in Nat /\ e <= n /\ \A i \in 1..n : c[i] \in Int
    OBVIOUS
  <1>2. /\ a \in Seq(Int) /\ Len(a) = e /\ \A i \in 1..e : a[i] = c[i]
    BY <1>1
  <1>3. /\ b \in Seq(Int) /\ Len(b) = n - e
        /\ \A i \in 1..(n - e) : b[i] = c[e + i] /\ e + i \in (e + 1)..n
    BY <1>1
  <1> HIDE DEF a, b, n
  <1>4. \A x \in ToSet(b) : \E i \in (e + 1)..n : x = c[i]
    <2> TAKE x \in ToSet(b)
    <2>1. PICK i \in 1..(n - e) : x = b[i]
      BY <1>3, TokenIn
    <2> QED
      BY <1>3, <2>1
  <1>5. c = a \o b
    <2> DEFINE d == a \o b
    <2>1. d \in Seq(Int) /\ Len(d) = n
      <3>1. d \in Seq(Int) /\ Len(d) = Len(a) + Len(b)
        BY <1>2, <1>3, ConcatProperties
      <3> QED
        BY <1>1, <1>2, <1>3, <3>1
    <2>2. \A i \in 1..n : d[i] = c[i]
      <3> TAKE i \in 1..n
      <3>1. d[i] = IF i <= e THEN a[i] ELSE b[i - e]
        BY <1>1, <1>2, <1>3
      <3>2. CASE i <= e
        <4>1. i \in 1..e
          BY <1>1, <3>2
        <4> QED
          BY <1>2, <3>1, <3>2, <4>1
      <3>3. CASE ~(i <= e)
        <4>1. i - e \in 1..(n - e) /\ e + (i - e) = i
          BY <1>1, <3>3
        <4>2. b[i - e] = c[e + (i - e)]
          BY <1>3, <4>1
        <4> QED
          BY <3>1, <3>3, <4>1, <4>2
      <3> QED
        BY <3>2, <3>3
    <2> HIDE DEF d
    <2>3. d = c
      BY <2>1, <2>2, SeqEqual DEF n
    <2> QED
      BY <2>3 DEF d
  <1>6. Split(c, e, a, b)
    BY <1>2, <1>3, <1>4, <1>5 DEF Split, n
  <1> QED
    BY <1>6 DEF a, b, n

\* Ahead is about the bytes alone.
LEMMA AheadIs ==
  ASSUME NEW a, NEW b
  PROVE  Ahead(a, b) <=> \A x \in BytesOf(a), y \in BytesOf(b) : x < y
  BY DEF Ahead, BytesOf

\* The bytes of two sequences.
LEMMA BytesJoined ==
  ASSUME NEW a \in Seq(Int), NEW b \in Seq(Int)
  PROVE  BytesOf(a \o b) = BytesOf(a) \cup BytesOf(b)
  <1>1. ToSet(a \o b) = ToSet(a) \cup ToSet(b)
    BY Joined
  <1> HIDE DEF ToSet
  <1> QED
    BY <1>1 DEF BytesOf

\* What is in 0..m holds no prefix and no newline made up.
LEMMA PlainIs ==
  ASSUME NEW c \in Seq(Int), NEW m, ToSet(c) \subseteq 0..m
  PROVE  Plain(c)
  BY TokenIn DEF Plain

\* A chunk of lines after what has been written.
Chunked(text, m, o, p, rest) ==
  /\ o \in Seq(Int) /\ p \in Seq(Int) /\ rest \in Seq(Int)
  /\ Asc(o) /\ Asc(p) /\ Asc(rest)
  /\ Ahead(o, p) /\ Ahead(o, rest) /\ Ahead(p, rest)
  /\ ToSet(o) \subseteq AddedNL..m /\ ToSet(p) \subseteq AddedNL..m
  /\ ToSet(rest) \subseteq 0..m /\ \A x \in ToSet(rest) : ~IsNL(text, x)
  /\ Lines(text, o) /\ Lines(text, p)

\* A prefixWriter that has written whole lines and holds back the rest.
LEMMA WrittenIs ==
  ASSUME NEW text, NEW m \in Nat, NEW o, NEW p, NEW rest,
         Chunked(text, m, o, p, rest)
  PROVE  WriterOK(text, [line |-> rest, out |-> o \o p], m)
  <1> DEFINE c == o \o p
  <1>0. /\ o \in Seq(Int) /\ p \in Seq(Int) /\ rest \in Seq(Int)
        /\ Asc(o) /\ Asc(p) /\ Asc(rest)
        /\ Ahead(o, p) /\ Ahead(o, rest) /\ Ahead(p, rest)
        /\ ToSet(o) \subseteq AddedNL..m /\ ToSet(p) \subseteq AddedNL..m
        /\ ToSet(rest) \subseteq 0..m /\ \A x \in ToSet(rest) : ~IsNL(text, x)
        /\ Lines(text, o) /\ Lines(text, p)
    BY DEF Chunked
  <1>1. c \in Seq(Int) /\ ToSet(c) = ToSet(o) \cup ToSet(p) /\ Asc(c)
    BY <1>0, Joined
  <1>2. BytesOf(c) = BytesOf(o) \cup BytesOf(p)
    BY <1>0, BytesJoined
  <1>3. Lines(text, c)
    BY <1>0, LinesJoin
  <1> HIDE DEF c
  <1>4. Ahead(c, rest)
    BY <1>0, <1>2, AheadIs
  <1>5. ToSet(c) \subseteq AddedNL..m
    BY <1>0, <1>1
  <1>6. [line |-> rest, out |-> c] \in Writers
    BY <1>0, <1>1 DEF Writers
  <1>7. WriterOK(text, [line |-> rest, out |-> c], m)
    BY <1>0, <1>1, <1>3, <1>4, <1>5, <1>6 DEF WriterOK
  <1> QED
    BY <1>7 DEF c

\* The bytes from n + 1 to m, and what is made up in place of some.
Between(tokens, n, m) ==
  tokens \in Seq(Int) /\ Asc(tokens) /\ ToSet(tokens) \subseteq {0} \cup (n + 1)..m
Wrote(text, w, tokens, m, z) ==
  WriterOK(text, z, m) /\ Shown(z) = Shown(w) \cup BytesOf(tokens)

\* A Write of the prefixWriter shows what it was given, in order, behind what
\* it was given before, and leaves whole lines.
LEMMA PrefixWriteIs ==
  ASSUME NEW text, NEW n \in Nat, NEW m \in Nat, n <= m,
         NEW w, WriterOK(text, w, n), NEW tokens, Between(tokens, n, m)
  PROVE  Wrote(text, w, tokens, m, PrefixWrite(text, w, tokens))
  <1> DEFINE o == w.out
             l == w.line
             all == l \o tokens
             S == {0} \cup {i \in DOMAIN all : IsNL(text, all[i])}
             e == Greatest(S)
             a == SubSeq(all, 1, e)
             b == SubSeq(all, e + 1, Len(all))
             p == Prefixed(text, a)
             z == PrefixWrite(text, w, tokens)
  <1>0. /\ tokens \in Seq(Int) /\ Asc(tokens)
        /\ ToSet(tokens) \subseteq {0} \cup (n + 1)..m
    BY DEF Between
  <1>1. /\ w = [line |-> l, out |-> o] /\ o \in Seq(Int) /\ l \in Seq(Int)
        /\ ToSet(l) \subseteq 0..n /\ ToSet(o) \subseteq AddedNL..n
        /\ Asc(o) /\ Asc(l) /\ Ahead(o, l)
        /\ \A x \in ToSet(l) : ~IsNL(text, x)
        /\ Lines(text, o)
    BY DEF WriterOK, Writers
  <1>2. z = IF \E t \in DOMAIN tokens : IsNL(text, tokens[t])
            THEN [line |-> b, out |-> o \o p]
            ELSE IF Len(all) >= maxBufferedLine
                 THEN [line |-> <<>>, out |-> o \o <<Prefix>> \o all]
                 ELSE [w EXCEPT !.line = all]
    BY DEF PrefixWrite
  <1> HIDE DEF o, l, z
  <1>3. /\ all \in Seq(Int) /\ ToSet(all) = ToSet(l) \cup ToSet(tokens)
        /\ BytesOf(all) = BytesOf(l) \cup BytesOf(tokens)
        /\ Len(all) = Len(l) + Len(tokens) /\ Len(l) \in Nat /\ Len(tokens) \in Nat
        /\ \A t \in 1..Len(tokens) : all[Len(l) + t] = tokens[t]
    BY <1>0, <1>1, Joined, BytesJoined
  <1>4. Asc(all) /\ Ahead(o, all) /\ ToSet(all) \subseteq 0..m /\ Plain(all)
    <2> HIDE DEF all
    <2>1. \A x \in BytesOf(tokens) : x \in (n + 1)..m
      BY <1>0 DEF BytesOf
    <2>2. \A x \in BytesOf(l) : x \in 0..n
      BY <1>1 DEF BytesOf
    <2>3. \A x \in BytesOf(o) : x \in Int /\ x <= n
      BY <1>1 DEF BytesOf, AddedNL
    <2>4. Ahead(l, tokens)
      BY <2>1, <2>2, AheadIs
    <2>5. Ahead(o, tokens)
      BY <2>1, <2>3, AheadIs
    <2>6. Ahead(o, all)
      BY <1>1, <1>3, <2>5, AheadIs
    <2>7. Asc(all)
      BY <1>0, <1>1, <2>4, Joined DEF all
    <2>8. ToSet(all) \subseteq 0..m
      BY <1>0, <1>1, <1>3
    <2> QED
      BY <1>3, <2>6, <2>7, <2>8, PlainIs
  <1>5. ToSet(o) \subseteq AddedNL..m
    BY <1>1 DEF AddedNL
  <1>6. Shown(w) \cup BytesOf(tokens) = BytesOf(o) \cup BytesOf(all)
    BY <1>1, <1>3 DEF Shown, o, l
  <1> HIDE DEF all
  <1>7. CASE \E t \in DOMAIN tokens : IsNL(text, tokens[t])
    <2>1. PICK t \in 1..Len(tokens) : IsNL(text, tokens[t])
      BY <1>7
    <2>2. Len(l) + t \in S
      BY <1>3, <2>1
    <2>3. S \subseteq 0..Len(all) /\ Len(all) \in Nat /\ S # {}
      BY <1>3
    <2>4. e \in S /\ e \in 0..Len(all) /\ \A y \in S : y <= e
      <3> HIDE DEF S
      <3> QED
        BY <2>3, GreatestIs
    <2>5. \A i \in 1..Len(all) : IsNL(text, all[i]) => i \in S
      BY <1>3
    <2>6. e >= 1 /\ IsNL(text, all[e])
      <3>1. Len(l) + t <= e /\ Len(l) + t >= 1
        <4> HIDE DEF S, e
        <4> QED
          BY <1>3, <2>2, <2>4
      <3>2. e # 0
        BY <1>3, <2>4, <3>1
      <3> QED
        BY <1>3, <2>4, <3>2
    <2> HIDE DEF S, e
    <2>7. Split(all, e, a, b)
      BY <1>3, <2>4, SplitAt
    <2> HIDE DEF a, b
    <2>8. /\ a \in Seq(Int) /\ b \in Seq(Int) /\ all = a \o b
          /\ Len(a) = e /\ a[e] = all[e]
          /\ \A x \in ToSet(b) : \E i \in (e + 1)..Len(all) : x = all[i]
      <3>1. /\ a \in Seq(Int) /\ b \in Seq(Int) /\ all = a \o b
            /\ Len(a) = e /\ \A i \in 1..e : a[i] = all[i]
            /\ \A x \in ToSet(b) : \E i \in (e + 1)..Len(all) : x = all[i]
        BY <2>7, Zenon DEF Split
      <3>2. e \in 1..e
        BY <2>4, <2>6
      <3> QED
        BY <3>1, <3>2, Zenon
    <2>9. /\ ToSet(all) = ToSet(a) \cup ToSet(b)
          /\ BytesOf(all) = BytesOf(a) \cup BytesOf(b)
          /\ Asc(a) /\ Asc(b) /\ Ahead(a, b)
      BY <1>4, <2>8, Joined, BytesJoined
    <2>10. \A x \in ToSet(b) : ~IsNL(text, x)
      <3> SUFFICES ASSUME NEW x \in ToSet(b), IsNL(text, x) PROVE FALSE
        OBVIOUS
      <3>1. PICK i \in (e + 1)..Len(all) : x = all[i]
        BY <2>8
      <3>2. i \in 1..Len(all) /\ i > e
        BY <2>4
      <3> QED
        BY <2>4, <2>5, <3>1, <3>2
    <2>11. ToSet(a) \subseteq 0..m /\ ToSet(b) \subseteq 0..m
      BY <1>4, <2>9
    <2>12. Plain(a) /\ a # <<>> /\ IsNL(text, a[Len(a)])
      <3>1. a # <<>>
        BY <2>6, <2>8
      <3>2. Plain(a)
        BY <2>8, <2>11, PlainIs
      <3> QED
        BY <2>6, <2>8, <3>1, <3>2
    <2>13. /\ p \in Seq(Int) /\ BytesOf(p) = BytesOf(a)
           /\ ToSet(p) \subseteq {Prefix} \cup ToSet(a)
           /\ Asc(p) /\ Lines(text, p)
      BY <2>8, <2>9, <2>12, PrefixedIs
    <2> HIDE DEF p
    <2>14. ToSet(p) \subseteq AddedNL..m
      BY <2>11, <2>13 DEF AddedNL, Prefix
    <2>15. Ahead(o, p) /\ Ahead(o, b) /\ Ahead(p, b)
      BY <1>4, <2>9, <2>13, AheadIs
    <2>16. /\ WriterOK(text, [line |-> b, out |-> o \o p], m)
           /\ Shown([line |-> b, out |-> o \o p]) =
                BytesOf(o) \cup BytesOf(p) \cup BytesOf(b)
      <3>1. Chunked(text, m, o, p, b)
        BY <1>1, <1>5, <2>8, <2>9, <2>10, <2>11, <2>13, <2>14, <2>15, Zenon DEF Chunked
      <3>2. WriterOK(text, [line |-> b, out |-> o \o p], m)
        BY <3>1, WrittenIs
      <3>3. BytesOf(o \o p) = BytesOf(o) \cup BytesOf(p)
        BY <1>1, <2>13, BytesJoined
      <3>4. Shown([line |-> b, out |-> o \o p]) = BytesOf(o \o p) \cup BytesOf(b)
        BY DEF Shown
      <3> QED
        BY <3>2, <3>3, <3>4
    <2>17. z = [line |-> b, out |-> o \o p]
      BY <1>2, <1>7
    <2> QED
      BY <1>6, <2>9, <2>13, <2>16, <2>17 DEF z, Wrote
  <1>8. ASSUME ~ \E t \in DOMAIN tokens : IsNL(text, tokens[t])
        PROVE  /\ \A x \in ToSet(all) : ~IsNL(text, x)
               /\ \A j \in 1..Len(all) : ~IsNL(text, all[j])
    <2>1. \A x \in ToSet(tokens) : ~IsNL(text, x)
      BY <1>0, <1>8, TokenIn
    <2>2. \A x \in ToSet(all) : ~IsNL(text, x)
      BY <1>1, <1>3, <2>1
    <2> QED
      BY <1>3, <2>2, TokenIn
  <1>9. CASE /\ ~ \E t \in DOMAIN tokens : IsNL(text, tokens[t])
             /\ Len(all) >= maxBufferedLine
    <2> DEFINE q == <<Prefix>> \o all
    <2>1. z = [line |-> <<>>, out |-> o \o q]
      <3>1. o \o <<Prefix>> \o all = o \o q
        <4>1. o \in Seq(Int) /\ all \in Seq(Int) /\ <<Prefix>> \in Seq(Int)
          BY <1>1, <1>3 DEF Prefix
        <4> QED
          BY <4>1, ConcatAssociative, SMTT(30)
      <3> QED
        BY <1>2, <1>9, <3>1
    <2>2. Lines(text, q)
      BY <1>3, <1>4, <1>8, <1>9, LongLine
    <2>3. /\ <<Prefix>> \in Seq(Int) /\ ToSet(<<Prefix>>) = {Prefix} /\ Asc(<<Prefix>>)
          /\ BytesOf(<<Prefix>>) = {}
      <3>1. Prefix \in Int /\ ~(Prefix > 0)
        BY DEF Prefix
      <3> QED
        BY <3>1, OneToken DEF BytesOf
    <2>4. /\ q \in Seq(Int) /\ ToSet(q) = {Prefix} \cup ToSet(all) /\ Asc(q)
          /\ BytesOf(q) = BytesOf(all)
      <3>1. Ahead(<<Prefix>>, all)
        BY <2>3, AheadIs
      <3> DEFINE one == <<Prefix>>
      <3>2. one \in Seq(Int) /\ Asc(one) /\ Ahead(one, all) /\ BytesOf(one) = {}
            /\ ToSet(one) = {Prefix}
        BY <2>3, <3>1
      <3> HIDE DEF one
      <3>3. /\ one \o all \in Seq(Int)
            /\ ToSet(one \o all) = ToSet(one) \cup ToSet(all)
            /\ Asc(one \o all)
        BY <1>3, <1>4, <3>2, Joined
      <3>4. BytesOf(one \o all) = BytesOf(one) \cup BytesOf(all)
        BY <1>3, <3>2, BytesJoined
      <3> QED
        BY <3>2, <3>3, <3>4 DEF one
    <2> HIDE DEF q
    <2>5. ToSet(q) \subseteq AddedNL..m
      BY <1>4, <2>4 DEF AddedNL, Prefix
    <2>6. /\ <<>> \in Seq(Int) /\ Asc(<<>>) /\ ToSet(<<>>) = {} /\ BytesOf(<<>>) = {}
      BY DEF Asc, ToSet, BytesOf
    <2>7. Ahead(o, q) /\ Ahead(o, <<>>) /\ Ahead(q, <<>>)
      BY <1>4, <2>4, <2>6, AheadIs
    <2>8. ToSet(<<>>) \subseteq 0..m /\ \A x \in ToSet(<<>>) : ~IsNL(text, x)
      BY <2>6
    <2>9. /\ WriterOK(text, [line |-> <<>>, out |-> o \o q], m)
          /\ Shown([line |-> <<>>, out |-> o \o q]) =
               BytesOf(o) \cup BytesOf(q) \cup BytesOf(<<>>)
      <3>1. Chunked(text, m, o, q, <<>>)
        BY <1>1, <1>5, <2>2, <2>4, <2>5, <2>6, <2>7, <2>8, Zenon DEF Chunked
      <3>2. WriterOK(text, [line |-> <<>>, out |-> o \o q], m)
        BY <3>1, WrittenIs
      <3>3. BytesOf(o \o q) = BytesOf(o) \cup BytesOf(q)
        BY <1>1, <2>4, BytesJoined
      <3>4. Shown([line |-> <<>>, out |-> o \o q]) = BytesOf(o \o q) \cup BytesOf(<<>>)
        BY DEF Shown
      <3> QED
        BY <3>2, <3>3, <3>4
    <2> QED
      BY <1>6, <2>1, <2>4, <2>6, <2>9 DEF z, Wrote
  <1>10. CASE /\ ~ \E t \in DOMAIN tokens : IsNL(text, tokens[t])
              /\ ~(Len(all) >= maxBufferedLine)
    <2>1. z = [line |-> all, out |-> o]
      BY <1>1, <1>2, <1>10
    <2>2. [line |-> all, out |-> o] \in Writers
      BY <1>1, <1>3 DEF Writers
    <2>3. WriterOK(text, [line |-> all, out |-> o], m)
      BY <1>1, <1>4, <1>5, <1>8, <1>10, <2>2 DEF WriterOK
    <2>4. Shown([line |-> all, out |-> o]) = BytesOf(o) \cup BytesOf(all)
      BY DEF Shown
    <2> QED
      BY <1>6, <2>1, <2>3, <2>4 DEF z, Wrote
  <1> QED
    BY <1>7, <1>9, <1>10 DEF Wrote

\* Flush shows what the prefixWriter has shown or holds back.
LEMMA PrefixFlushIs ==
  ASSUME NEW text, NEW n \in Nat, NEW w, WriterOK(text, w, n)
  PROVE  /\ WriterOK(text, PrefixFlush(w), n)
         /\ Shown(PrefixFlush(w)) = Shown(w)
  <1> DEFINE o == w.out
             l == w.line
             z == PrefixFlush(w)
             end == Append(l, AddedNL)
             one == <<Prefix>>
             q == one \o end
  <1>1. /\ w = [line |-> l, out |-> o] /\ o \in Seq(Int) /\ l \in Seq(Int)
        /\ ToSet(l) \subseteq 0..n /\ ToSet(o) \subseteq AddedNL..n
        /\ Asc(o) /\ Asc(l) /\ Ahead(o, l)
        /\ \A x \in ToSet(l) : ~IsNL(text, x)
        /\ Lines(text, o)
    BY DEF WriterOK, Writers
  <1>2. CASE l = <<>>
    BY <1>2 DEF PrefixFlush
  <1>3. CASE l # <<>>
    <2>0. AddedNL \in Int /\ ~(AddedNL > 0) /\ Prefix \in Int /\ ~(Prefix > 0)
          /\ AddedNL <= Prefix /\ Prefix <= n /\ AddedNL <= n
      BY DEF AddedNL, Prefix
    <2>1. z = [line |-> <<>>, out |-> o \o one \o end]
      BY <1>3 DEF PrefixFlush
    <2> HIDE DEF o, l, z
    <2>2. /\ end \in Seq(Int) /\ ToSet(end) = ToSet(l) \cup {AddedNL} /\ Asc(end)
      BY <1>1, <2>0, Appended
    <2>3. /\ one \in Seq(Int) /\ ToSet(one) = {Prefix} /\ Asc(one)
      BY <2>0, OneToken
    <2>4. z = [line |-> <<>>, out |-> o \o q]
      <3>1. o \o one \o end = o \o q
        <4>1. o \in Seq(Int) /\ one \in Seq(Int) /\ end \in Seq(Int)
          BY <1>1, <2>2, <2>3
        <4> HIDE DEF one, end
        <4> QED
          BY <4>1, ConcatAssociative, SMTT(30)
      <3> QED
        BY <2>1, <3>1
    <2>5. Lines(text, q)
      <3>1. Plain(l)
        BY <1>1, PlainIs
      <3>2. \A j \in 1..Len(l) : ~IsNL(text, l[j])
        BY <1>1, TokenIn
      <3> QED
        BY <1>1, <3>1, <3>2, LastLine
    <2> HIDE DEF one, end
    <2>6. BytesOf(one) = {} /\ BytesOf(end) = BytesOf(l)
      BY <2>0, <2>2, <2>3 DEF BytesOf
    <2>7. /\ q \in Seq(Int) /\ ToSet(q) = ToSet(one) \cup ToSet(end) /\ Asc(q)
          /\ BytesOf(q) = BytesOf(l)
      <3>1. Ahead(one, end)
        BY <2>6, AheadIs
      <3>2. BytesOf(q) = BytesOf(one) \cup BytesOf(end)
        BY <2>2, <2>3, BytesJoined
      <3>3. q \in Seq(Int) /\ ToSet(q) = ToSet(one) \cup ToSet(end) /\ Asc(q)
        BY <2>2, <2>3, <3>1, Joined
      <3> QED
        BY <2>6, <3>2, <3>3
    <2> HIDE DEF q
    <2>8. ToSet(q) \subseteq AddedNL..n
      <3>1. \A x \in ToSet(l) : x \in Int /\ AddedNL <= x /\ x <= n
        BY <1>1, <2>0 DEF AddedNL
      <3> QED
        BY <2>0, <2>2, <2>3, <2>7, <3>1
    <2>9. /\ <<>> \in Seq(Int) /\ Asc(<<>>) /\ ToSet(<<>>) = {} /\ BytesOf(<<>>) = {}
      BY DEF Asc, ToSet, BytesOf
    <2>10. Ahead(o, q) /\ Ahead(o, <<>>) /\ Ahead(q, <<>>)
      BY <1>1, <2>7, <2>9, AheadIs
    <2>11. ToSet(<<>>) \subseteq 0..n /\ \A x \in ToSet(<<>>) : ~IsNL(text, x)
      BY <2>9
    <2>12. Chunked(text, n, o, q, <<>>)
      BY <1>1, <2>5, <2>7, <2>8, <2>9, <2>10, <2>11, Zenon DEF Chunked
    <2>13. WriterOK(text, [line |-> <<>>, out |-> o \o q], n)
      BY <2>12, WrittenIs
    <2>14. BytesOf(o \o q) = BytesOf(o) \cup BytesOf(q)
      BY <1>1, <2>7, BytesJoined
    <2>15. Shown(z) = BytesOf(o \o q) \cup BytesOf(<<>>)
      BY <2>4 DEF Shown
    <2>16. Shown(w) = BytesOf(o) \cup BytesOf(l)
      BY DEF Shown, o, l
    <2> QED
      BY <2>4, <2>7, <2>9, <2>13, <2>14, <2>15, <2>16 DEF z
  <1> QED
    BY <1>2, <1>3

\* What has been written stays as it is when more is read.
LEMMA WriterStays ==
  ASSUME NEW text, NEW n \in Nat, NEW w, WriterOK(text, w, n),
         NEW more, \A x \in 1..n : more[x] = text[x]
  PROVE  WriterOK(more, w, n)
  <1>1. \A x \in Int : x <= n => (IsNL(text, x) <=> IsNL(more, x))
    <2> TAKE x \in Int
    <2> HAVE x <= n
    <2>1. CASE x > 0
      <3>1. more[x] = text[x]
        BY <2>1
      <3> QED
        BY <3>1 DEF IsNL
    <2>2. CASE ~(x > 0)
      BY <2>2 DEF IsNL
    <2> QED
      BY <2>1, <2>2
  <1> DEFINE c == w.out
  <1>2. /\ w \in Writers /\ c \in Seq(Int) /\ w.line \in Seq(Int)
        /\ ToSet(w.line) \subseteq 0..n
        /\ ToSet(c) \subseteq AddedNL..n
        /\ Asc(c) /\ Asc(w.line) /\ Ahead(c, w.line)
        /\ \A x \in ToSet(w.line) : ~IsNL(text, x)
        /\ Lines(text, c)
    BY DEF WriterOK, Writers
  <1> HIDE DEF c
  <1>3. \A x \in ToSet(w.line) : ~IsNL(more, x)
    BY <1>1, <1>2
  <1>4. \A k \in 1..Len(c) : IsNL(text, c[k]) <=> IsNL(more, c[k])
    <2>1. \A k \in 1..Len(c) : c[k] \in Int /\ c[k] <= n
      BY <1>2, TokenIn DEF AddedNL
    <2> QED
      BY <1>1, <2>1
  <1>5. Lines(more, c)
    <2>1. /\ Len(c) \in Nat
          /\ c # <<>> => Len(c) \in 1..Len(c)
          /\ \A k \in 2..Len(c) : k - 1 \in 1..Len(c)
      BY <1>2
    <2> QED
      BY <1>2, <1>4, <2>1 DEF Lines
  <1> QED
    BY <1>2, <1>3, <1>5 DEF WriterOK, c

-----------------------------------------------------------------------------
(* From the redacting writer on.                                           *)

\* The writers have been given text[1..s-1]: no byte of it is missing but those
\* of targets (any), and of a target at i that must not show, a byte is missing
\* even while the rest of it has not been read.
Kept(text, shown, s, any) ==
  \A k \in 1..(s - 1) : k \in shown \/ Under(text, any, 1, Len(text), k)
Hidden(text, shown, s, any, must) ==
  \A v \in any, i \in 1..(s - 1) :
    <<v, i>> \in must /\ Fits(text, v, i) =>
      \E k \in i..(i + Len(v) - 1) : k < s /\ k \notin shown
Progress(text, w, s, any, must) ==
  /\ s \in 1..(Len(text) + 1)
  /\ WriterOK(text, w, s - 1)
  /\ Kept(text, Shown(w), s, any)
  /\ Hidden(text, Shown(w), s, any, must)

\* What the writers show has been given to them.
LEMMA ShownIs ==
  ASSUME NEW text, NEW n \in Nat, NEW w, WriterOK(text, w, n)
  PROVE  Shown(w) \subseteq 1..n
  <1>1. /\ ToSet(w.line) \subseteq 0..n
        /\ ToSet(w.out) \subseteq AddedNL..n
    BY DEF WriterOK
  <1>2. \A x \in Int : AddedNL <= x /\ x <= n /\ x > 0 => x \in 1..n
    OBVIOUS
  <1>3. \A x \in ToSet(w.line) : x > 0 => x \in 1..n
    BY <1>1
  <1>4. \A x \in ToSet(w.out) : x > 0 => x \in 1..n
    BY <1>1 DEF AddedNL
  <1> QED
    BY <1>3, <1>4 DEF Shown, BytesOf

\* v at i, in a longer stretch of the text.
LEMMA AtLonger ==
  ASSUME NEW text, NEW v, NEW i, NEW hi \in Int, NEW far \in Int, hi <= far,
         i \in Int, Len(v) \in Int, At(text, v, i, hi)
  PROVE  At(text, v, i, far)
  BY DEF At

\* A position in a target of a stretch is in a target of a longer one.
LEMMA UnderLonger ==
  ASSUME NEW text, NEW vals, NEW any, vals \subseteq any, Targets(any),
         NEW lo \in Nat, lo >= 1, NEW hi \in Int, NEW far \in Int, hi <= far,
         NEW k \in Int, Under(text, vals, lo, hi, k)
  PROVE  Under(text, any, 1, far, k)
  <1>1. PICK v \in vals, j \in lo..k : At(text, v, j, hi) /\ k < j + Len(v)
    BY DEF Under
  <1>2. v \in any /\ j \in 1..k /\ Len(v) \in Int /\ j \in Int
    BY DEF Targets
  <1>3. At(text, v, j, far)
    BY <1>1, <1>2, AtLonger
  <1> QED
    BY <1>1, <1>2, <1>3 DEF Under

\* One segment: what is written of text[lo..hi], z being the writer after it.
Segment(text, w, z, any, must, lo, hi) ==
  /\ WriterOK(text, z, hi)
  /\ Shown(w) \subseteq Shown(z)
  /\ Shown(z) \subseteq Shown(w) \cup lo..hi
  /\ \A k \in lo..hi : k \in Shown(z) \/ Under(text, any, 1, Len(text), k)
  /\ \A v \in any, i \in lo..hi :
       <<v, i>> \in must /\ Fits(text, v, i) => i \notin Shown(z)

\* A segment that is written carries the progress to its end.
LEMMA SegmentIs ==
  ASSUME NEW text, NEW w, NEW z, NEW any, Targets(any), NEW must,
         NEW lo \in Nat, lo >= 1,
         NEW hi \in Nat, lo - 1 <= hi, hi <= Len(text), Len(text) \in Nat,
         Progress(text, w, lo, any, must), Segment(text, w, z, any, must, lo, hi)
  PROVE  Progress(text, z, hi + 1, any, must)
  <1>0. /\ WriterOK(text, z, hi)
        /\ Shown(w) \subseteq Shown(z)
        /\ Shown(z) \subseteq Shown(w) \cup lo..hi
        /\ \A k \in lo..hi : k \in Shown(z) \/ Under(text, any, 1, Len(text), k)
        /\ \A v \in any, i \in lo..hi :
             <<v, i>> \in must /\ Fits(text, v, i) => i \notin Shown(z)
    BY DEF Segment
  <1>1. /\ lo \in 1..(Len(text) + 1) /\ WriterOK(text, w, lo - 1)
        /\ Kept(text, Shown(w), lo, any) /\ Hidden(text, Shown(w), lo, any, must)
    BY DEF Progress
  <1>2. \A k \in 1..((hi + 1) - 1) : k \in 1..(lo - 1) \/ k \in lo..hi
    OBVIOUS
  <1>3. Kept(text, Shown(z), hi + 1, any)
    <2>1. \A k \in 1..(lo - 1) : k \in Shown(w) \/ Under(text, any, 1, Len(text), k)
      BY <1>1 DEF Kept
    <2>2. \A k \in 1..((hi + 1) - 1) :
            k \in Shown(z) \/ Under(text, any, 1, Len(text), k)
      BY <1>0, <1>2, <2>1
    <2> QED
      BY <2>2 DEF Kept
  <1>4. Hidden(text, Shown(z), hi + 1, any, must)
    <2> SUFFICES ASSUME NEW v \in any, NEW i \in 1..((hi + 1) - 1),
                        <<v, i>> \in must, Fits(text, v, i)
                 PROVE  \E k \in i..(i + Len(v) - 1) : k < hi + 1 /\ k \notin Shown(z)
      BY DEF Hidden
    <2>1. CASE i \in 1..(lo - 1)
      <3>1. PICK k \in i..(i + Len(v) - 1) : k < lo /\ k \notin Shown(w)
        BY <1>1, <2>1 DEF Hidden
      <3>2. k < hi + 1 /\ k \notin Shown(z)
        <4>1. k < lo => k \notin lo..hi /\ k < hi + 1
          OBVIOUS
        <4> QED
          BY <1>0, <3>1, <4>1
      <3> QED
        BY <3>2
    <2>2. CASE i \in lo..hi
      <3>1. i \notin Shown(z)
        BY <1>0, <2>2
      <3>2. Len(v) \in Nat \ {0}
        BY EmptySeq DEF Targets
      <3>3. i \in i..(i + Len(v) - 1) /\ i < hi + 1
        BY <2>2, <3>2
      <3> QED
        BY <3>1, <3>3
    <2> QED
      BY <1>2, <2>1, <2>2
  <1>5. hi + 1 \in 1..(Len(text) + 1) /\ (hi + 1) - 1 = hi
    OBVIOUS
  <1> QED
    BY <1>0, <1>3, <1>4, <1>5 DEF Progress

\* A target that fits into what has been read is there.
LEMMA FitsAt ==
  ASSUME NEW text \in Seq(Bytes), NEW v \in Seq(Bytes), v # <<>>,
         NEW i \in Nat, i >= 1, NEW hi \in Nat, hi <= Len(text),
         Fits(text, v, i), i + Len(v) - 1 <= hi
  PROVE  At(text, v, i, hi)
  <1>1. Len(v) \in Nat /\ Len(text) \in Nat
    OBVIOUS
  <1>2. \A m \in 1..Len(v) : i + m - 1 <= Len(text)
    BY <1>1
  <1>3. Reads(text, v, i, hi)
    BY <1>2 DEF Reads, Fits
  <1> QED
    BY <1>3, AtIs

\* Every target at a position of text[lo..hi] that must not show is one of
\* those looked for, and ends there.
Closed(text, vals, any, must, lo, hi) ==
  \A v \in any, i \in lo..hi :
    <<v, i>> \in must /\ Fits(text, v, i) => v \in vals /\ i + Len(v) - 1 <= hi

\* Emit writes a segment, if no target that must not show is across its end.
LEMMA EmitSegment ==
  ASSUME NEW text \in Seq(Bytes), NEW w, NEW any, Targets(any), NEW must, NEW vals,
         vals \subseteq any, NEW lo \in Nat, lo >= 1, NEW hi \in Nat, lo <= hi,
         hi <= Len(text), Progress(text, w, lo, any, must),
         Closed(text, vals, any, must, lo, hi)
  PROVE  Segment(text, w, Emit(text, w, vals, lo, hi), any, must, lo, hi)
  <1> DEFINE c == Replaced(text, vals, lo, hi)
             z == PrefixWrite(text, w, c)
  <1>1. Emit(text, w, vals, lo, hi) = z
    BY DEF Emit
  <1>2. Targets(vals)
    BY DEF Targets
  <1>3. Masked(text, vals, lo, hi, c)
    BY <1>2, ReplacedIs
  <1> HIDE DEF c
  <1>4. /\ c \in Seq(Int) /\ Asc(c)
        /\ ToSet(c) \subseteq {0} \cup lo..hi
        /\ \A k \in lo..hi : k \notin ToSet(c) => Under(text, vals, lo, hi, k)
        /\ \A k \in lo..hi : Here(text, vals, k, hi) # {} => k \notin ToSet(c)
    BY <1>3 DEF Masked
  <1> DEFINE n == lo - 1
  <1>5. n \in Nat /\ n <= hi /\ n + 1 = lo
    OBVIOUS
  <1>6. WriterOK(text, w, n)
    BY DEF Progress
  <1> HIDE DEF n
  <1>7. WriterOK(text, z, hi) /\ Shown(z) = Shown(w) \cup BytesOf(c)
    <2>1. Between(c, n, hi)
      BY <1>4, <1>5 DEF Between
    <2>2. Wrote(text, w, c, hi, z)
      BY <1>5, <1>6, <2>1, PrefixWriteIs
    <2> QED
      BY <2>2, Zenon DEF Wrote
  <1> HIDE DEF z
  <1>8. \A k \in lo..hi : k \in Shown(z) <=> k \in ToSet(c)
    <2>1. \A k \in lo..hi : k \notin Shown(w)
      <3>1. Shown(w) \subseteq 1..n
        BY <1>5, <1>6, ShownIs
      <3> QED
        BY <1>5, <3>1
    <2>2. \A k \in lo..hi : k \in BytesOf(c) <=> k \in ToSet(c)
      BY DEF BytesOf
    <2> QED
      BY <1>7, <2>1, <2>2
  <1>9. ASSUME NEW k \in lo..hi, k \notin Shown(z)
        PROVE  Under(text, any, 1, Len(text), k)
    <2>1. Under(text, vals, lo, hi, k)
      BY <1>4, <1>8, <1>9
    <2>2. Len(text) \in Int /\ hi \in Int /\ k \in Int
      OBVIOUS
    <2> QED
      BY <2>1, <2>2, UnderLonger
  <1>10. ASSUME NEW v \in any, NEW i \in lo..hi, <<v, i>> \in must, Fits(text, v, i)
         PROVE  i \notin Shown(z)
    <2>1. v \in vals /\ i + Len(v) - 1 <= hi
      BY <1>10 DEF Closed
    <2>2. v \in Seq(Bytes) /\ v # <<>>
      BY DEF Targets
    <2>3. At(text, v, i, hi)
      <3>1. i \in Nat /\ i >= 1
        OBVIOUS
      <3> QED
        BY <1>10, <2>1, <2>2, <3>1, FitsAt
    <2>4. Here(text, vals, i, hi) # {}
      BY <2>1, <2>3 DEF Here
    <2> QED
      BY <1>4, <1>8, <2>4
  <1>11. Shown(z) \subseteq Shown(w) \cup lo..hi
    <2>1. BytesOf(c) \subseteq lo..hi
      BY <1>4 DEF BytesOf
    <2> QED
      BY <1>7, <2>1
  <1>12. Segment(text, w, z, any, must, lo, hi)
    BY <1>7, <1>9, <1>10, <1>11 DEF Segment
  <1> QED
    BY <1>1, <1>12 DEF z

\* A stretch that is all targets becomes one placeholder.
LEMMA CollapseSegment ==
  ASSUME NEW text, NEW w, NEW any, NEW must,
         NEW lo \in Nat, lo >= 1, NEW hi \in Nat, lo <= hi,
         Progress(text, w, lo, any, must),
         \A k \in lo..hi : Under(text, any, 1, Len(text), k)
  PROVE  Segment(text, w, PrefixWrite(text, w, <<Placeholder>>), any, must, lo, hi)
  <1> DEFINE c == <<Placeholder>>
             z == PrefixWrite(text, w, c)
             n == lo - 1
  <1>1. n \in Nat /\ n <= hi /\ n + 1 = lo
    OBVIOUS
  <1>2. WriterOK(text, w, n)
    BY DEF Progress
  <1>3. c \in Seq(Int) /\ Asc(c) /\ ToSet(c) = {0} /\ BytesOf(c) = {}
    <2>1. 0 \in Int /\ ~(0 > 0) /\ c = <<0>>
      BY DEF Placeholder
    <2> HIDE DEF c
    <2>2. <<0>> \in Seq(Int) /\ ToSet(<<0>>) = {0} /\ Asc(<<0>>)
      BY OneToken
    <2> QED
      BY <2>1, <2>2 DEF BytesOf
  <1> HIDE DEF c, n
  <1>4. Between(c, n, hi)
    BY <1>3 DEF Between
  <1>5. WriterOK(text, z, hi) /\ Shown(z) = Shown(w) \cup BytesOf(c)
    <2>1. Wrote(text, w, c, hi, z)
      BY <1>1, <1>2, <1>4, PrefixWriteIs
    <2> QED
      BY <2>1, Zenon DEF Wrote
  <1> HIDE DEF z
  <1>6. Shown(w) \subseteq 1..n
    BY <1>1, <1>2, ShownIs
  <1>7. Shown(z) = Shown(w)
    BY <1>3, <1>5
  <1>8. \A i \in lo..hi : i \notin Shown(z)
    BY <1>1, <1>6, <1>7
  <1>9. Segment(text, w, z, any, must, lo, hi)
    BY <1>5, <1>7, <1>8 DEF Segment
  <1> QED
    BY <1>9 DEF z, c

\* The end of a text that may be the beginning of a target (tailHold).
LEMMA TailHoldIs ==
  ASSUME NEW text \in Seq(Bytes), NEW vals, Targets(vals),
         NEW lo \in Nat, lo >= 1, lo - 1 <= Len(text)
  PROVE  /\ tailHold(text, vals, lo, Len(text)) \in 0..(Len(text) - lo + 1)
         /\ \A v \in vals, i \in lo..Len(text) :
              Fits(text, v, i) /\ i + Len(v) - 1 > Len(text) =>
                Len(text) - i + 1 <= tailHold(text, vals, lo, Len(text))
  <1> DEFINE hi == Len(text)
             n == hi - lo + 1
             S == {0} \cup
                    {k \in 1..(hi - lo + 1) :
                       \E v \in vals :
                         k < Len(v) /\ At(text, SubSeq(v, 1, k), hi - k + 1, hi)}
  <1>1. hi \in Nat /\ n \in Nat /\ S \subseteq 0..n /\ S # {}
    OBVIOUS
  <1>2. tailHold(text, vals, lo, hi) = Greatest(S)
    BY DEF tailHold
  <1>3. Greatest(S) \in 0..n /\ \A y \in S : y <= Greatest(S)
    <2> HIDE DEF S, n
    <2> QED
      BY <1>1, GreatestIs
  <1>4. ASSUME NEW v \in vals, NEW i \in lo..hi, Fits(text, v, i), i + Len(v) - 1 > hi
        PROVE  hi - i + 1 \in S
    <2> DEFINE k == hi - i + 1
               u == SubSeq(v, 1, k)
    <2>0. v \in Seq(Bytes) /\ v # <<>> /\ Len(v) \in Nat
      BY DEF Targets
    <2>1. k \in 1..(hi - lo + 1) /\ hi - k + 1 = i /\ k < Len(v)
      BY <1>1, <1>4, <2>0
    <2>2. u \in Seq(Bytes) /\ Len(u) = k /\ \A m \in 1..k : u[m] = v[m]
      BY <2>0, <2>1
    <2> HIDE DEF u
    <2>3. u # <<>>
      <3>1. Len(u) # 0
        BY <2>1, <2>2
      <3> QED
        BY <3>1
    <2>4. Reads(text, u, i, hi)
      <3>1. \A m \in 1..k : m \in 1..Len(v) /\ i + m - 1 <= hi
        BY <2>0, <2>1
      <3>2. \A m \in 1..Len(u) : text[i + m - 1] = u[m]
        BY <1>4, <2>2, <3>1 DEF Fits
      <3>3. i + Len(u) - 1 <= hi
        BY <2>2
      <3> QED
        BY <3>2, <3>3 DEF Reads
    <2>5. At(text, u, i, hi)
      <3>1. i \in Nat /\ i >= 1
        OBVIOUS
      <3> QED
        BY <1>1, <2>2, <2>3, <2>4, <3>1, AtIs
    <2> HIDE DEF k
    <2>6. At(text, SubSeq(v, 1, k), hi - k + 1, hi)
      BY <2>1, <2>5 DEF u
    <2>7. k \in S
      BY <2>1, <2>6
    <2> QED
      BY <2>7 DEF k
  <1> HIDE DEF S, hi
  <1>5. \A v \in vals, i \in lo..hi :
          Fits(text, v, i) /\ i + Len(v) - 1 > hi => hi - i + 1 <= Greatest(S)
    BY <1>3, <1>4
  <1> QED
    BY <1>2, <1>3, <1>5 DEF hi

\* A cut that goes through no target, or a stretch that is all targets (safeCut).
CutIs(text, vals, lo, hi, cut, c) ==
  /\ c \in (lo - 1)..cut
  /\ c >= lo => \A v \in vals, i \in lo..c :
                 ~(At(text, v, i, hi) /\ c < i + Len(v) - 1)
  /\ c < lo => \A k \in lo..cut : \E v \in vals, i \in lo..k :
                 At(text, v, i, hi) /\ k < i + Len(v) - 1

\* safeCut finds the last position that no target is across, or that there is
\* none.
LEMMA SafeCutIs ==
  ASSUME NEW text, NEW vals, NEW lo \in Nat, lo >= 1, NEW hi,
         NEW cut \in Nat, lo - 1 <= cut
  PROVE  CutIs(text, vals, lo, hi, cut, safeCut(text, vals, lo, hi, cut))
  <1> DEFINE Across(c) == \E v \in vals, i \in lo..c :
                            At(text, v, i, hi) /\ c < i + Len(v) - 1
             S == {lo - 1} \cup {c \in lo..cut : ~Across(c)}
             g == Greatest(S)
  <1>1. safeCut(text, vals, lo, hi, cut) = g
    BY DEF safeCut
  <1> HIDE DEF Across
  <1>2. S \subseteq 0..cut /\ S # {}
    OBVIOUS
  <1>3. g \in S /\ g \in 0..cut /\ \A y \in S : y <= g
    <2> HIDE DEF S
    <2> QED
      BY <1>2, GreatestIs
  <1>4. g \in (lo - 1)..cut
    BY <1>3
  <1>5. g >= lo => ~Across(g)
    BY <1>3
  <1>6. ASSUME g < lo, NEW k \in lo..cut PROVE Across(k)
    <2> SUFFICES ASSUME ~Across(k) PROVE FALSE
      OBVIOUS
    <2>1. k \in S /\ k \in Int
      OBVIOUS
    <2> HIDE DEF S
    <2>2. k <= g
      BY <1>3, <2>1
    <2> QED
      BY <1>3, <1>6, <2>2
  <1> HIDE DEF g
  <1> QED
    BY <1>1, <1>4, <1>5, <1>6 DEF Across, CutIs

\* More has been read.
Extends(text, more) ==
  /\ text \in Seq(Bytes) /\ more \in Seq(Bytes)
  /\ Len(text) <= Len(more)
  /\ \A x \in 1..Len(text) : more[x] = text[x]

\* What holds still does when more has been read, and less must not show.
LEMMA ProgressStays ==
  ASSUME NEW text, NEW more, Extends(text, more), NEW any, Targets(any),
         NEW s, NEW w, NEW must, NEW less, Progress(text, w, s, any, must),
         \A v \in any, i \in 1..(s - 1) : <<v, i>> \in less => <<v, i>> \in must
  PROVE  Progress(more, w, s, any, less)
  <1> DEFINE n == Len(text)
             m == Len(more)
  <1>1. /\ text \in Seq(Bytes) /\ more \in Seq(Bytes)
        /\ n \in Nat /\ m \in Nat /\ n <= m /\ \A x \in 1..n : more[x] = text[x]
    BY DEF Extends
  <1>2. /\ s \in 1..(n + 1) /\ WriterOK(text, w, s - 1)
        /\ Kept(text, Shown(w), s, any) /\ Hidden(text, Shown(w), s, any, must)
    BY DEF Progress
  <1>3. s \in 1..(m + 1) /\ s - 1 \in Nat /\ \A x \in 1..(s - 1) : x \in 1..n
    BY <1>1, <1>2
  <1> HIDE DEF n, m
  <1>4. WriterOK(more, w, s - 1)
    <2> DEFINE r == s - 1
    <2>1. r \in Nat /\ \A x \in 1..r : more[x] = text[x]
      BY <1>1, <1>3
    <2>2. WriterOK(text, w, r)
      BY <1>2
    <2> HIDE DEF r
    <2>3. WriterOK(more, w, r)
      BY <2>1, <2>2, WriterStays
    <2> QED
      BY <2>3 DEF r
  <1>5. ASSUME NEW k \in 1..(s - 1), Under(text, any, 1, n, k)
        PROVE  Under(more, any, 1, m, k)
    <2>1. PICK v \in any, j \in 1..k : At(text, v, j, n) /\ k < j + Len(v)
      BY <1>5 DEF Under
    <2>2. v \in Seq(Bytes) /\ v # <<>> /\ Len(v) \in Nat /\ j \in Nat /\ j >= 1
      BY <1>3 DEF Targets
    <2>3. Reads(text, v, j, n)
      BY <1>1, <2>1, <2>2, AtIs DEF n
    <2>4. Reads(more, v, j, m)
      <3>1. \A l \in 1..Len(v) : j + l - 1 \in 1..n
        BY <1>1, <2>2, <2>3 DEF Reads
      <3>2. j + Len(v) - 1 <= m
        BY <1>1, <2>2, <2>3 DEF Reads
      <3> QED
        BY <1>1, <2>3, <3>1, <3>2 DEF Reads
    <2>5. At(more, v, j, m)
      BY <1>1, <2>2, <2>4, AtIs DEF m
    <2> QED
      BY <2>1, <2>5 DEF Under
  <1>6. Kept(more, Shown(w), s, any)
    BY <1>2, <1>5 DEF Kept, n, m
  <1>7. ASSUME NEW v \in any, NEW i \in 1..(s - 1), Fits(more, v, i)
        PROVE  Fits(text, v, i)
    <2>1. i \in Nat /\ i >= 1 /\ Len(v) \in Nat
      BY <1>3 DEF Targets
    <2>2. ASSUME NEW l \in 1..Len(v), i + l - 1 <= n
          PROVE  text[i + l - 1] = v[l]
      <3>1. i + l - 1 \in 1..n /\ i + l - 1 <= m
        BY <1>1, <2>1, <2>2
      <3> QED
        BY <1>1, <1>7, <3>1 DEF Fits, m
    <2> QED
      BY <2>2 DEF Fits, n
  <1>8. Hidden(more, Shown(w), s, any, less)
    BY <1>2, <1>7 DEF Hidden
  <1> QED
    BY <1>3, <1>4, <1>6, <1>8 DEF Progress, m

\* What is looked up from lo on: every target that must not show from there on.
Looks(look, any, must, lo, hi) ==
  \A n \in 1..4 :
    /\ look[n] \subseteq any
    /\ \A v \in any, i \in lo..hi : <<v, i>> \in must => v \in look[n]

\* Where Overflow cuts, no target is across the cut; and where there is no
\* such place, all that goes is in targets.
LEMMA CutClosed ==
  ASSUME NEW text \in Seq(Bytes), NEW any, Targets(any), NEW must, NEW look,
         NEW lo \in Nat, lo >= 1, lo - 1 <= Len(text),
         Looks(look, any, must, lo, Len(text)), NEW raw, NEW cut,
         raw = Len(text) - tailHold(text, look[2], lo, Len(text)),
         cut = safeCut(text, look[3], lo, Len(text), raw)
  PROVE  /\ raw \in (lo - 1)..Len(text)
         /\ cut \in (lo - 1)..raw
         /\ cut >= lo => Closed(text, look[4], any, must, lo, cut)
         /\ cut < lo => \A k \in lo..raw : Under(text, any, 1, Len(text), k)
  <1> DEFINE hi == Len(text)
             hold == tailHold(text, look[2], lo, hi)
             second == look[2]
             third == look[3]
             fourth == look[4]
  <1>1. hi \in Nat
    OBVIOUS
  <1>2. /\ second \subseteq any /\ third \subseteq any /\ fourth \subseteq any
        /\ \A v \in any, i \in lo..hi :
             <<v, i>> \in must => v \in second /\ v \in third /\ v \in fourth
    <2>1. 2 \in 1..4 /\ 3 \in 1..4 /\ 4 \in 1..4
      OBVIOUS
    <2> QED
      BY <2>1 DEF Looks
  <1>3. Targets(second) /\ Targets(third)
    BY <1>2 DEF Targets
  <1> HIDE DEF second, third, fourth
  <1>4. /\ hold \in 0..(hi - lo + 1)
        /\ \A v \in second, i \in lo..hi :
             Fits(text, v, i) /\ i + Len(v) - 1 > hi => hi - i + 1 <= hold
    BY <1>3, TailHoldIs DEF second
  <1> HIDE DEF hold
  <1>5. raw = hi - hold
    BY DEF hold, second
  <1>6. raw \in (lo - 1)..hi /\ raw \in Nat /\ lo - 1 <= raw
    BY <1>1, <1>4, <1>5
  <1> DEFINE c == safeCut(text, third, lo, hi, raw)
  <1>7. cut = c
    BY DEF third
  <1>8. /\ c \in (lo - 1)..raw
        /\ c >= lo => \A v \in third, i \in lo..c :
                        ~(At(text, v, i, hi) /\ c < i + Len(v) - 1)
        /\ c < lo => \A k \in lo..raw : \E v \in third, i \in lo..k :
                        At(text, v, i, hi) /\ k < i + Len(v) - 1
    <2>1. CutIs(text, third, lo, hi, raw, c)
      BY <1>1, <1>6, SafeCutIs
    <2> HIDE DEF c
    <2> QED
      BY <2>1 DEF CutIs
  <1> HIDE DEF c
  <1>9. ASSUME c >= lo, NEW v \in any, NEW i \in lo..c, <<v, i>> \in must,
               Fits(text, v, i)
        PROVE  v \in fourth /\ i + Len(v) - 1 <= c
    <2>1. i \in lo..hi /\ i \in Nat /\ i >= 1 /\ i <= raw /\ c \in Int
      BY <1>1, <1>6, <1>8
    <2>2. v \in second /\ v \in third /\ v \in fourth
      BY <1>2, <1>9, <2>1
    <2>3. v \in Seq(Bytes) /\ v # <<>> /\ Len(v) \in Nat
      BY DEF Targets
    <2>4. i + Len(v) - 1 <= hi
      <3> SUFFICES ASSUME i + Len(v) - 1 > hi PROVE FALSE
        BY <1>1, <2>1, <2>3
      <3>1. hi - i + 1 <= hold
        BY <1>4, <1>9, <2>1, <2>2
      <3> QED
        BY <1>1, <1>4, <1>5, <2>1, <3>1
    <2>5. At(text, v, i, hi)
      <3>1. hi <= Len(text)
        BY <1>1
      <3> HIDE DEF hi
      <3> QED
        BY <1>1, <1>9, <2>1, <2>3, <2>4, <3>1, FitsAt
    <2>6. ~(c < i + Len(v) - 1)
      BY <1>8, <1>9, <2>2, <2>5
    <2> QED
      BY <2>1, <2>2, <2>3, <2>6
  <1>10. ASSUME c < lo, NEW k \in lo..raw PROVE Under(text, any, 1, hi, k)
    <2>1. PICK v \in third, i \in lo..k : At(text, v, i, hi) /\ k < i + Len(v) - 1
      BY <1>8, <1>10
    <2>2. Len(v) \in Nat
      BY <1>3 DEF Targets
    <2>3. v \in any /\ i \in 1..k /\ k < i + Len(v)
      BY <1>2, <2>1, <2>2
    <2> QED
      BY <2>1, <2>3 DEF Under
  <1>11. c >= lo => Closed(text, fourth, any, must, lo, c)
    BY <1>9 DEF Closed
  <1> QED
    BY <1>6, <1>7, <1>8, <1>10, <1>11 DEF fourth

\* Downstream sets the writers.
LEMMA NowIs ==
  ASSUME NEW text, NEW n, NEW w, WriterOK(text, w, n), Downstream(w)
  PROVE  Now' = w
  BY DEF WriterOK, Writers, Downstream, Now

\* A buffer that is too long gives up nothing that must not show.
LEMMA OverflowIs ==
  ASSUME NEW text \in Seq(Bytes), NEW any, Targets(any), NEW must, NEW look, NEW w,
         NEW lo \in Nat, lo >= 1, lo - 1 <= Len(text), Progress(text, w, lo, any, must),
         Looks(look, any, must, lo, Len(text)), Overflow(text, w, lo, Len(text), look)
  PROVE  Progress(text, Now', start', any, must)
  <1> DEFINE hi == Len(text)
             raw == hi - tailHold(text, look[2], lo, hi)
             cut == safeCut(text, look[3], lo, hi, raw)
             z == Emit(text, w, look[4], lo, cut)
             q == PrefixWrite(text, w, <<Placeholder>>)
  <1>1. hi \in Nat
    OBVIOUS
  <1>2. /\ raw \in (lo - 1)..hi
        /\ cut \in (lo - 1)..raw
        /\ cut >= lo => Closed(text, look[4], any, must, lo, cut)
        /\ cut < lo => \A k \in lo..raw : Under(text, any, 1, hi, k)
    BY CutClosed
  <1>3. \/ Downstream(w) /\ start' = lo
        \/ cut >= lo /\ Downstream(z) /\ start' = cut + 1
        \/ cut < lo /\ raw >= lo /\ Downstream(q) /\ start' = raw + 1
    <2> HIDE DEF raw, cut, z, q
    <2> QED
      BY DEF Overflow, raw, cut, z, q
  <1>4. look[4] \subseteq any
    BY DEF Looks
  <1> HIDE DEF raw, cut
  <1>5. CASE Downstream(w) /\ start' = lo
    <2>1. Now' = w
      BY <1>5, NowIs DEF Progress
    <2> QED
      BY <1>5, <2>1
  <1>6. CASE cut >= lo /\ Downstream(z) /\ start' = cut + 1
    <2>1. cut \in Nat /\ lo <= cut /\ cut <= hi /\ lo - 1 <= cut
      BY <1>1, <1>2, <1>6
    <2>2. Segment(text, w, z, any, must, lo, cut)
      BY <1>2, <1>4, <1>6, <2>1, EmitSegment
    <2> HIDE DEF z
    <2>3. Progress(text, z, cut + 1, any, must)
      BY <1>1, <2>1, <2>2, SegmentIs
    <2>4. Now' = z
      BY <1>6, <2>2, NowIs DEF Segment
    <2> QED
      BY <1>6, <2>3, <2>4
  <1>7. CASE cut < lo /\ raw >= lo /\ Downstream(q) /\ start' = raw + 1
    <2>1. raw \in Nat /\ lo <= raw /\ raw <= hi /\ lo - 1 <= raw
      BY <1>1, <1>2, <1>7
    <2>2. Segment(text, w, q, any, must, lo, raw)
      BY <1>2, <1>7, <2>1, CollapseSegment
    <2> HIDE DEF q
    <2>3. Progress(text, q, raw + 1, any, must)
      BY <1>1, <2>1, <2>2, SegmentIs
    <2>4. Now' = q
      BY <1>7, <2>2, NowIs DEF Segment
    <2> QED
      BY <1>7, <2>3, <2>4
  <1> QED
    BY <1>3, <1>5, <1>6, <1>7

\* A target that must not show has no newline in it.
OneLine(any, must) ==
  \A v \in any, i \in Nat : <<v, i>> \in must => NL \notin ToSet(v)

\* A stretch that ends in a newline, which is in no such target.
LEMMA LinesClosed ==
  ASSUME NEW text \in Seq(Bytes), NEW any, Targets(any), NEW must, OneLine(any, must),
         NEW lo \in Nat, lo >= 1, NEW hi \in Nat, hi <= Len(text), text[hi] = NL,
         NEW vals, \A v \in any, i \in lo..hi : <<v, i>> \in must => v \in vals
  PROVE  Closed(text, vals, any, must, lo, hi)
  <1> SUFFICES ASSUME NEW v \in any, NEW i \in lo..hi, <<v, i>> \in must,
                      Fits(text, v, i)
               PROVE  v \in vals /\ i + Len(v) - 1 <= hi
    BY DEF Closed
  <1>1. v \in vals
    OBVIOUS
  <1>2. i \in Nat /\ i <= hi /\ v \in Seq(Bytes) /\ Len(v) \in Nat /\ Len(text) \in Nat
    BY DEF Targets
  <1>3. NL \notin ToSet(v)
    BY <1>2 DEF OneLine
  <1>4. i + Len(v) - 1 <= hi
    <2> SUFFICES ASSUME i + Len(v) - 1 > hi PROVE FALSE
      BY <1>2
    <2> DEFINE m == hi - i + 1
    <2>1. m \in 1..Len(v) /\ i + m - 1 = hi
      BY <1>2
    <2> HIDE DEF m
    <2>2. text[hi] = v[m]
      BY <2>1 DEF Fits
    <2>3. v[m] \in ToSet(v)
      BY <1>2, <2>1 DEF ToSet
    <2> QED
      BY <1>3, <2>2, <2>3
  <1> QED
    BY <1>1, <1>4

\* Segments of complete lines, if any.
LEMMA LinesProgress ==
  ASSUME NEW text \in Seq(Bytes), NEW any, Targets(any), NEW must, OneLine(any, must),
         NEW look, NEW w, NEW lo \in Nat, lo >= 1, Progress(text, w, lo, any, must),
         Looks(look, any, must, lo, Len(text)),
         NEW hi \in Nat, lo - 1 <= hi, hi <= Len(text), lo <= hi => text[hi] = NL
  PROVE  Progress(text, Emit(text, w, look[1], lo, hi), hi + 1, any, must)
  <1> DEFINE z == Emit(text, w, look[1], lo, hi)
             first == look[1]
  <1>1. CASE lo <= hi
    <2>1. first \subseteq any /\ \A v \in any, i \in lo..Len(text) :
                                  <<v, i>> \in must => v \in first
      <3>1. 1 \in 1..4
        OBVIOUS
      <3> QED
        BY <3>1 DEF Looks
    <2>2. \A i \in lo..hi : i \in lo..Len(text)
      OBVIOUS
    <2>3. \A v \in any, i \in lo..hi : <<v, i>> \in must => v \in first
      BY <2>1, <2>2
    <2> HIDE DEF first
    <2>4. Closed(text, first, any, must, lo, hi)
      BY <1>1, <2>3, LinesClosed
    <2>5. Segment(text, w, Emit(text, w, first, lo, hi), any, must, lo, hi)
      BY <1>1, <2>1, <2>4, EmitSegment
    <2>6. Segment(text, w, z, any, must, lo, hi)
      BY <2>5 DEF first
    <2> HIDE DEF z
    <2>7. Len(text) \in Nat
      OBVIOUS
    <2>8. Progress(text, z, hi + 1, any, must)
      BY <2>6, <2>7, SegmentIs
    <2> QED
      BY <2>8 DEF z
  <1>2. CASE ~(lo <= hi)
    <2>1. hi + 1 = lo /\ hi < lo
      BY <1>2
    <2>2. z = w
      BY <2>1 DEF Emit
    <2> QED
      BY <2>1, <2>2
  <1> QED
    BY <1>1, <1>2

\* What must not show, as pairs of a target and a position.
Must == {q \in AnyTime \X Nat : MustNotShow(q[1], q[2])}

\* Must, for a target and a position.
LEMMA MustIs ==
  ASSUME NEW v, NEW i
  PROVE  <<v, i>> \in Must <=> v \in AnyTime /\ i \in Nat /\ MustNotShow(v, i)
  <1>1. <<v, i>> \in AnyTime \X Nat <=> v \in AnyTime /\ i \in Nat
    OBVIOUS
  <1>2. <<v, i>>[1] = v /\ <<v, i>>[2] = i
    OBVIOUS
  <1> QED
    BY <1>1, <1>2 DEF Must

\* The inductive invariant.  What has been written shows every byte that is in no
\* target, and hides a byte of each secret that must not show, even of one whose
\* end has not been read: that is what tailHold and safeCut are for.
RedactInv ==
  /\ targetSet \in TargetSets
  /\ changedAt \in -1..Len(input)
  /\ input \in Seq(Bytes)
  /\ flushed \in BOOLEAN
  /\ Progress(input, Now, start, AnyTime, Must)

\* The targets of any time are targets, and those that must not show are
\* among them and have one line.
LEMMA AnyTargets ==
  ASSUME targetSet \in TargetSets
  PROVE  /\ Targets(AnyTime)
         /\ values(FALSE) \subseteq AnyTime /\ values(TRUE) \subseteq AnyTime
         /\ \A b : values(b) = values(TRUE) \/ values(b) = values(FALSE)
         /\ secrets \subseteq AnyTime
         /\ OneLine(AnyTime, Must)
  <1>1. \A v \in targetSet.static \cup targetSet.before \cup targetSet.after :
          v \in Seq(Bytes) /\ v # <<>>
    BY RedactAssumption
  <1>2. Targets(AnyTime)
    BY <1>1 DEF Targets, AnyTime, values
  <1>3. \A b : values(b) = values(TRUE) \/ values(b) = values(FALSE)
    BY DEF values
  <1>4. OneLine(AnyTime, Must)
    BY MustIs DEF OneLine, MustNotShow
  <1> QED
    BY <1>2, <1>3, <1>4 DEF AnyTime, secrets

\* Nothing is written at first.
LEMMA RedactStart == RedactInit => RedactInv
  <1> SUFFICES ASSUME RedactInit PROVE RedactInv
    OBVIOUS
  <1>1. /\ targetSet \in TargetSets /\ changedAt = -1 /\ input = <<>> /\ start = 1
        /\ line = <<>> /\ out = <<>> /\ flushed = TRUE
    BY DEF RedactInit
  <1>2. /\ <<>> \in Seq(Int) /\ <<>> \in Seq(Bytes) /\ Len(<<>>) = 0
        /\ ToSet(<<>>) = {} /\ Asc(<<>>)
    BY DEF Asc, ToSet
  <1>3. WriterOK(input, Now, 0)
    <2>1. Now = [line |-> <<>>, out |-> <<>>]
      BY <1>1 DEF Now
    <2>2. Lines(input, <<>>)
      BY <1>2 DEF Lines
    <2>3. Ahead(<<>>, <<>>)
      BY <1>2 DEF Ahead
    <2> QED
      BY <1>2, <2>1, <2>2, <2>3 DEF WriterOK, Writers
  <1>4. Kept(input, Shown(Now), 1, AnyTime) /\ Hidden(input, Shown(Now), 1, AnyTime, Must)
    BY DEF Kept, Hidden
  <1>5. Progress(input, Now, start, AnyTime, Must)
    BY <1>1, <1>2, <1>3, <1>4 DEF Progress
  <1>6. changedAt \in -1..Len(input)
    BY <1>1, <1>2
  <1> QED
    BY <1>1, <1>2, <1>5, <1>6 DEF RedactInv

\* A Write makes the text longer.
LEMMA Longer ==
  ASSUME NEW text \in Seq(Bytes), NEW p \in Seq(Bytes)
  PROVE  Extends(text, text \o p)
  BY DEF Extends

\* A Write keeps the invariant for whatever must not show, whichever targets
\* its four looks find, if each finds those that must not show in what is
\* held.
LEMMA WriteIs ==
  ASSUME RedactInv, NEW p \in Seq(Bytes), NEW look, Write(p, look), NEW must,
         OneLine(AnyTime, must),
         Looks(look, AnyTime, must, start, Len(input \o p)),
         \A v \in AnyTime, i \in 1..(start - 1) : <<v, i>> \in must => <<v, i>> \in Must
  PROVE  /\ Progress(input', Now', start', AnyTime, must)
         /\ Extends(input, input') /\ input' \in Seq(Bytes)
  <1>1. PICK text : text = input \o p
    OBVIOUS
  <1>2. PICK any : any = AnyTime
    OBVIOUS
  <1>3. PICK lo : lo = start
    OBVIOUS
  <1>4. PICK w : w = Now
    OBVIOUS
  <1> DEFINE n == Len(text)
             S == {lo - 1} \cup {i \in lo..n : text[i] = NL}
             e == Greatest(S)
             z == Emit(text, w, look[1], lo, e)
  <1>5. /\ input' = text /\ Overflow(text, z, e + 1, n, look)
    BY <1>1, <1>3, <1>4 DEF Write
  <1>6. input \in Seq(Bytes) /\ text \in Seq(Bytes) /\ n \in Nat /\ Extends(input, text)
    BY <1>1, Longer DEF RedactInv
  <1>7. Targets(any)
    BY <1>2, AnyTargets DEF RedactInv
  <1>8. OneLine(any, must) /\ Looks(look, any, must, lo, n)
    BY <1>1, <1>2, <1>3
  <1>9. Progress(text, w, lo, any, must)
    <2>1. Progress(input, w, lo, any, Must)
      BY <1>2, <1>3, <1>4 DEF RedactInv
    <2>2. \A v \in any, i \in 1..(lo - 1) : <<v, i>> \in must => <<v, i>> \in Must
      BY <1>2, <1>3
    <2>3. PICK more : more = Must
      OBVIOUS
    <2>4. PICK base : base = input
      OBVIOUS
    <2>5. /\ Progress(base, w, lo, any, more) /\ Extends(base, text)
          /\ \A v \in any, i \in 1..(lo - 1) : <<v, i>> \in must => <<v, i>> \in more
      BY <1>6, <2>1, <2>2, <2>3, <2>4
    <2> QED
      BY <1>7, <2>5, ProgressStays
  <1>10. lo \in Nat /\ lo >= 1 /\ lo <= n + 1
    BY <1>6, <1>9 DEF Progress
  <1>11. e \in Nat /\ lo - 1 <= e /\ e <= n /\ (lo <= e => text[e] = NL)
    <2>1. S \subseteq 0..n /\ S # {}
      BY <1>6, <1>10
    <2>2. e \in S
      <3> HIDE DEF S, n
      <3> QED
        BY <1>6, <2>1, GreatestIs
    <2> HIDE DEF e
    <2>3. e = lo - 1 \/ (e \in lo..n /\ text[e] = NL)
      BY <2>2
    <2> QED
      BY <1>6, <1>10, <2>3
  <1> HIDE DEF e
  <1>12. Progress(text, z, e + 1, any, must)
    BY <1>6, <1>7, <1>8, <1>9, <1>10, <1>11, LinesProgress
  <1> HIDE DEF z
  <1>13. Progress(text, Now', start', any, must)
    <2> DEFINE f == e + 1
    <2>1. f \in Nat /\ f >= 1 /\ f - 1 <= n
      BY <1>11
    <2>2. Looks(look, any, must, f, n)
      <3>1. \A i \in f..n : i \in lo..n
        BY <1>10, <1>11
      <3> QED
        BY <1>8, <3>1 DEF Looks
    <2>3. Progress(text, z, f, any, must) /\ Overflow(text, z, f, n, look)
      BY <1>5, <1>12
    <2> HIDE DEF f
    <2> QED
      BY <1>6, <1>7, <2>1, <2>2, <2>3, OverflowIs
  <1> QED
    BY <1>2, <1>5, <1>6, <1>13

\* Flush replaces what is held as one segment, which nothing is behind.
LEMMA FlushIs == RedactInv /\ FlushWriters => RedactInv'
  <1> SUFFICES ASSUME RedactInv, FlushWriters PROVE RedactInv'
    OBVIOUS
  <1>1. PICK text : text = IF start <= Len(input) THEN Append(input, NL) ELSE input
    OBVIOUS
  <1>2. PICK any : any = AnyTime
    OBVIOUS
  <1>3. PICK lo : lo = start
    OBVIOUS
  <1>4. PICK w : w = Now
    OBVIOUS
  <1>5. PICK must : must = Must
    OBVIOUS
  <1>6. PICK vals : vals = secrets
    OBVIOUS
  <1> DEFINE n == Len(text)
             z == Emit(text, w, vals, lo, n)
             q == PrefixFlush(z)
             look == [k \in 1..4 |-> vals]
  <1>7. /\ flushed' = TRUE /\ input' = text /\ start' = n + 1
        /\ Downstream(q)
        /\ targetSet' = targetSet /\ changedAt' = changedAt
    BY <1>1, <1>3, <1>4, <1>6 DEF FlushWriters
  <1>8. /\ targetSet \in TargetSets /\ changedAt \in -1..Len(input)
        /\ input \in Seq(Bytes) /\ Len(input) \in Nat
        /\ Progress(input, w, lo, any, must)
    BY <1>2, <1>3, <1>4, <1>5 DEF RedactInv
  <1>9. /\ Targets(any) /\ vals \subseteq any /\ OneLine(any, must)
    BY <1>2, <1>5, <1>6, <1>8, AnyTargets
  <1>10. NL \in Bytes
    BY RedactAssumption
  <1>11. lo \in 1..(Len(input) + 1)
    BY <1>8 DEF Progress
  <1>12. /\ text \in Seq(Bytes) /\ n \in Nat /\ Extends(input, text) /\ lo <= n + 1
         /\ lo <= n => text[n] = NL
    <2>1. CASE lo <= Len(input)
      <3>1. text = Append(input, NL)
        BY <1>1, <1>3, <2>1
      <3>2. /\ text \in Seq(Bytes) /\ n = Len(input) + 1 /\ text[n] = NL
            /\ \A x \in 1..Len(input) : text[x] = input[x]
        BY <1>8, <1>10, <3>1
      <3>3. Len(input) <= Len(text)
        BY <1>8, <3>2
      <3>4. Extends(input, text)
        BY <1>8, <3>2, <3>3 DEF Extends
      <3> HIDE DEF n
      <3>5. n \in Nat /\ lo <= n + 1
        BY <1>8, <1>11, <3>2
      <3> QED
        BY <3>2, <3>4, <3>5
    <2>2. CASE ~(lo <= Len(input))
      <3>1. text = input
        BY <1>1, <1>3, <2>2
      <3> QED
        BY <1>8, <1>11, <2>2, <3>1 DEF Extends
    <2> QED
      BY <2>1, <2>2
  <1> HIDE DEF n
  <1>13. Progress(text, w, lo, any, must)
    <2>1. PICK base : base = input
      OBVIOUS
    <2>2. Progress(base, w, lo, any, must) /\ Extends(base, text)
      BY <1>8, <1>12, <2>1
    <2> QED
      BY <1>9, <2>2, ProgressStays
  <1>14. Looks(look, any, must, lo, n)
    <2>1. \A v, i : <<v, i>> \in must => v \in vals
      BY <1>5, <1>6, MustIs DEF MustNotShow, secrets, values
    <2> QED
      BY <1>9, <2>1 DEF Looks
  <1>15. look[1] = vals
    OBVIOUS
  <1> HIDE DEF look
  <1>16. Progress(text, z, n + 1, any, must)
    <2>1. lo \in Nat /\ lo >= 1 /\ lo - 1 <= n /\ n <= Len(text)
      BY <1>11, <1>12 DEF n
    <2>2. Looks(look, any, must, lo, Len(text))
      BY <1>14 DEF n
    <2>3. Progress(text, Emit(text, w, look[1], lo, n), n + 1, any, must)
      BY <1>9, <1>12, <1>13, <2>1, <2>2, LinesProgress
    <2> QED
      BY <1>15, <2>3
  <1> HIDE DEF z
  <1>17. WriterOK(text, q, n) /\ Shown(q) = Shown(z)
    <2>1. (n + 1) - 1 = n
      BY <1>12
    <2>2. WriterOK(text, z, n)
      BY <1>16, <2>1 DEF Progress
    <2> QED
      BY <1>12, <2>2, PrefixFlushIs
  <1> HIDE DEF q
  <1>18. Progress(text, q, n + 1, any, must)
    <2>1. (n + 1) - 1 = n
      BY <1>12
    <2> QED
      BY <1>16, <1>17, <2>1 DEF Progress
  <1>19. Now' = q
    BY <1>7, <1>17, NowIs
  <1>20. AnyTime' = any /\ Must' = must
    <2>1. AnyTime' = AnyTime
      BY <1>7 DEF AnyTime, values
    <2>2. Must' = Must
      BY <1>7, <2>1 DEF Must, MustNotShow, values, secrets
    <2> QED
      BY <1>2, <1>5, <2>1, <2>2
  <1>21. Progress(input', Now', start', AnyTime', Must')
    BY <1>7, <1>18, <1>19, <1>20
  <1>22. changedAt' \in -1..Len(input')
    <2>1. Len(input) <= n
      BY <1>12 DEF Extends, n
    <2> QED
      BY <1>7, <1>8, <1>12, <2>1 DEF n
  <1> QED
    BY <1>7, <1>8, <1>12, <1>21, <1>22 DEF RedactInv

\* Each action.  When the targets change, less must not show: what was secret
\* all the time, and what is only from then on.
LEMMA RedactStep == RedactInv /\ [RedactNext]_redactVars => RedactInv'
  <1> SUFFICES ASSUME RedactInv, [RedactNext]_redactVars PROVE RedactInv'
    OBVIOUS
  <1>1. /\ targetSet \in TargetSets /\ changedAt \in -1..Len(input)
        /\ input \in Seq(Bytes) /\ Len(input) \in Nat /\ flushed \in BOOLEAN
        /\ Progress(input, Now, start, AnyTime, Must)
    BY DEF RedactInv
  <1>2. /\ Targets(AnyTime)
        /\ values(FALSE) \subseteq AnyTime /\ values(TRUE) \subseteq AnyTime
        /\ \A b : values(b) = values(TRUE) \/ values(b) = values(FALSE)
        /\ secrets \subseteq AnyTime
        /\ OneLine(AnyTime, Must)
    BY <1>1, AnyTargets
  <1>3. start \in 1..(Len(input) + 1)
    BY <1>1 DEF Progress
  <1>4. \A p \in Chunks : p \in Seq(Bytes)
    <2>1. Chunk \in Nat
      BY RedactAssumption
    <2> QED
      BY <2>1 DEF Chunks
  <1>5. CASE WriteBytes
    <2>1. PICK p \in Chunks : Write(p, [k \in 1..4 |-> secrets])
      BY <1>5 DEF WriteBytes
    <2>2. /\ changedAt' = changedAt /\ targetSet' = targetSet /\ flushed' = FALSE
      BY <1>5, <2>1 DEF WriteBytes, Write
    <2>3. PICK look : look = [k \in 1..4 |-> secrets]
      OBVIOUS
    <2>4. PICK must : must = Must
      OBVIOUS
    <2>5. Looks(look, AnyTime, must, start, Len(input \o p))
      <3>1. \A v, i : <<v, i>> \in Must => v \in secrets
        BY MustIs DEF MustNotShow, secrets, values
      <3> QED
        BY <1>2, <2>3, <2>4, <3>1 DEF Looks
    <2>6. /\ Progress(input', Now', start', AnyTime, must)
          /\ Extends(input, input') /\ input' \in Seq(Bytes)
      <3>1. p \in Seq(Bytes) /\ Write(p, look) /\ OneLine(AnyTime, must)
        BY <1>2, <1>4, <2>1, <2>3, <2>4
      <3>2. \A v \in AnyTime, i \in 1..(start - 1) :
              <<v, i>> \in must => <<v, i>> \in Must
        BY <2>4
      <3> QED
        BY <2>5, <3>1, <3>2, WriteIs
    <2>7. AnyTime' = AnyTime
      BY <2>2 DEF AnyTime, values
    <2>8. Must' = Must
      BY <2>2, <2>7 DEF Must, MustNotShow, values, secrets
    <2>9. changedAt' \in -1..Len(input')
      BY <1>1, <2>2, <2>6 DEF Extends
    <2> QED
      BY <1>1, <2>2, <2>4, <2>6, <2>7, <2>8, <2>9 DEF RedactInv
  <1>6. CASE WriteUpdated
    <2>1. PICK p \in Chunks, n \in 1..3 : Write(p, [k \in 1..4 |-> values(k > n)])
      BY <1>6 DEF WriteUpdated
    <2>2. /\ changedAt = -1 /\ changedAt' = Len(input')
          /\ targetSet' = targetSet /\ flushed' = FALSE
      BY <1>6, <2>1 DEF WriteUpdated, Write
    <2>3. PICK look : look = [k \in 1..4 |-> values(k > n)]
      OBVIOUS
    <2>4. AnyTime' = AnyTime /\ values(TRUE)' = values(TRUE) /\ values(FALSE)' = values(FALSE)
      BY <2>2 DEF AnyTime, values
    <2>5. PICK must : must = Must'
      OBVIOUS
    <2>6. PICK text : text = input'
      OBVIOUS
    <2>7. text = input \o p
      BY <2>1, <2>6 DEF Write
    <2>8. /\ text \in Seq(Bytes) /\ Len(text) \in Nat /\ Len(input) <= Len(text)
          /\ p \in Seq(Bytes)
      BY <1>1, <1>4, <2>7
    <2>9. \A v, i : <<v, i>> \in must /\ i <= Len(text) =>
                     /\ v \in values(TRUE) /\ v \in values(FALSE)
                     /\ v \in AnyTime /\ i \in Nat
                     /\ NL \notin ToSet(v)
      <3> SUFFICES ASSUME NEW v, NEW i, <<v, i>> \in Must', i <= Len(text)
                   PROVE  /\ v \in values(TRUE) /\ v \in values(FALSE)
                          /\ v \in AnyTime /\ i \in Nat
                          /\ NL \notin ToSet(v)
        BY <2>5
      <3>1. /\ v \in AnyTime' /\ i \in Nat /\ MustNotShow(v, i)'
        <4>1. <<v, i>> \in AnyTime' \X Nat /\ MustNotShow(<<v, i>>[1], <<v, i>>[2])'
          BY DEF Must
        <4> QED
          BY <4>1
      <3>2. changedAt' = Len(text) /\ changedAt' # -1 /\ ~(i > changedAt')
        BY <2>2, <2>6, <2>8, <3>1
      <3> QED
        BY <2>4, <3>1, <3>2 DEF MustNotShow
    <2>10. OneLine(AnyTime, must)
      <3>1. \A v, i : <<v, i>> \in Must' => NL \notin ToSet(v)
        BY DEF Must, MustNotShow
      <3> QED
        BY <2>5, <3>1 DEF OneLine
    <2>11. Looks(look, AnyTime, must, start, Len(text))
      <3> SUFFICES ASSUME NEW k \in 1..4
                   PROVE  /\ look[k] \subseteq AnyTime
                          /\ \A v \in AnyTime, i \in start..Len(text) :
                               <<v, i>> \in must => v \in look[k]
        BY DEF Looks
      <3>1. look[k] = values(k > n)
        BY <2>3
      <3>2. look[k] = values(TRUE) \/ look[k] = values(FALSE)
        BY <1>2, <3>1
      <3>3. \A i \in start..Len(text) : i <= Len(text)
        BY <1>3, <2>8
      <3> QED
        BY <1>2, <2>9, <3>2, <3>3
    <2>12. \A v \in AnyTime, i \in 1..(start - 1) : <<v, i>> \in must => <<v, i>> \in Must
      <3> SUFFICES ASSUME NEW v \in AnyTime, NEW i \in 1..(start - 1), <<v, i>> \in must
                   PROVE  <<v, i>> \in Must
        OBVIOUS
      <3>1. i <= Len(text)
        BY <1>1, <1>3, <2>8
      <3>2. v \in values(FALSE) /\ NL \notin ToSet(v) /\ i \in Nat
        BY <2>9, <3>1
      <3>3. v \in secrets
        BY <2>2, <3>2 DEF secrets, values
      <3>4. MustNotShow(v, i)
        BY <2>2, <3>2, <3>3 DEF MustNotShow
      <3> QED
        BY <3>2, <3>4, MustIs
    <2>13. /\ Progress(input', Now', start', AnyTime, must)
           /\ Extends(input, input') /\ input' \in Seq(Bytes)
      <3>1. Write(p, look) /\ Looks(look, AnyTime, must, start, Len(input \o p))
        BY <2>1, <2>3, <2>7, <2>11
      <3> QED
        BY <2>8, <2>10, <2>12, <3>1, WriteIs
    <2>14. changedAt' \in -1..Len(input')
      BY <2>2, <2>6, <2>8
    <2> QED
      BY <1>1, <2>2, <2>4, <2>5, <2>13, <2>14 DEF RedactInv
  <1>7. CASE Update
    <2>1. /\ changedAt = -1 /\ changedAt' = Len(input)
          /\ targetSet' = targetSet /\ input' = input /\ start' = start
          /\ Now' = Now /\ flushed' = flushed
      BY <1>7 DEF Update, Now
    <2>2. AnyTime' = AnyTime /\ values(TRUE)' = values(TRUE) /\ values(FALSE)' = values(FALSE)
      BY <2>1 DEF AnyTime, values
    <2>3. ASSUME NEW v \in AnyTime, NEW i \in 1..(start - 1), <<v, i>> \in Must'
          PROVE  <<v, i>> \in Must
      <3>1. i \in Nat /\ MustNotShow(v, i)'
        <4>1. <<v, i>> \in AnyTime' \X Nat /\ MustNotShow(<<v, i>>[1], <<v, i>>[2])'
          BY <2>3 DEF Must
        <4> QED
          BY <4>1
      <3>2. changedAt' # -1 /\ ~(i > changedAt')
        BY <1>1, <1>3, <2>1
      <3>3. v \in values(FALSE) /\ NL \notin ToSet(v)
        BY <2>2, <3>1, <3>2 DEF MustNotShow
      <3>4. v \in secrets
        BY <2>1, <3>3 DEF secrets, values
      <3>5. MustNotShow(v, i)
        BY <2>1, <3>3, <3>4 DEF MustNotShow
      <3> QED
        BY <3>1, <3>5, MustIs
    <2>4. Progress(input, Now, start, AnyTime, Must')
      <3>1. PICK text : text = input
        OBVIOUS
      <3>2. PICK any : any = AnyTime
        OBVIOUS
      <3>3. PICK s : s = start
        OBVIOUS
      <3>4. PICK w : w = Now
        OBVIOUS
      <3>5. PICK must : must = Must
        OBVIOUS
      <3>6. PICK less : less = Must'
        OBVIOUS
      <3>7. Extends(text, text)
        BY <1>1, <3>1 DEF Extends
      <3>8. Targets(any) /\ Progress(text, w, s, any, must)
        BY <1>1, <1>2, <3>1, <3>2, <3>3, <3>4, <3>5
      <3>9. \A v \in any, i \in 1..(s - 1) : <<v, i>> \in less => <<v, i>> \in must
        BY <2>3, <3>2, <3>3, <3>5, <3>6
      <3>10. Progress(text, w, s, any, less)
        BY <3>7, <3>8, <3>9, ProgressStays
      <3> QED
        BY <3>1, <3>2, <3>3, <3>4, <3>6, <3>10
    <2>5. changedAt' \in -1..Len(input')
      BY <1>1, <2>1
    <2> QED
      BY <1>1, <2>1, <2>2, <2>4, <2>5 DEF RedactInv
  <1>8. CASE FlushWriters
    BY <1>8, FlushIs
  <1>9. CASE UNCHANGED redactVars
    <2>1. /\ targetSet' = targetSet /\ changedAt' = changedAt /\ input' = input
          /\ start' = start /\ line' = line /\ out' = out /\ flushed' = flushed
      BY <1>9 DEF redactVars
    <2>2. AnyTime' = AnyTime /\ Now' = Now
      BY <2>1 DEF AnyTime, values, Now
    <2>3. Must' = Must
      BY <2>1, <2>2 DEF Must, MustNotShow, values, secrets
    <2> QED
      BY <1>1, <2>1, <2>2, <2>3 DEF RedactInv
  <1> QED
    BY <1>5, <1>6, <1>7, <1>8, <1>9 DEF RedactNext

\* The invariant holds.
LEMMA RedactInvariant == RedactSpec => []RedactInv
  <1> QED
    BY RedactStart, RedactStep, PTL DEF RedactSpec

\* It has the types.
LEMMA InvTypes == RedactInv => RedactTypeOK
  <1> SUFFICES ASSUME RedactInv PROVE RedactTypeOK
    OBVIOUS
  <1>1. /\ targetSet \in TargetSets /\ changedAt \in -1..Len(input)
        /\ input \in Seq(Bytes) /\ Len(input) \in Nat /\ flushed \in BOOLEAN
        /\ start \in 1..(Len(input) + 1) /\ WriterOK(input, Now, start - 1)
    BY DEF RedactInv, Progress
  <1>2. ToSet(line) \subseteq 0..(start - 1) /\ ToSet(out) \subseteq AddedNL..(start - 1)
    BY <1>1 DEF WriterOK, Now
  <1>3. start - 1 \in Int /\ start - 1 <= Len(input)
    BY <1>1
  <1>4. ToSet(line) \subseteq 0..Len(input) /\ ToSet(out) \subseteq AddedNL..Len(input)
    BY <1>1, <1>2, <1>3 DEF AddedNL
  <1> QED
    BY <1>1, <1>4 DEF RedactTypeOK

\* It implies what must hold: all that is shown of a text is in it, in order.
LEMMA InvSound == RedactInv => OutputSound
  <1> SUFFICES ASSUME RedactInv PROVE OutputSound
    OBVIOUS
  <1> DEFINE all == out \o line
             n == Len(input)
  <1>1. /\ input \in Seq(Bytes) /\ n \in Nat /\ start \in 1..(n + 1)
        /\ WriterOK(input, Now, start - 1)
        /\ Kept(input, Shown(Now), start, AnyTime)
        /\ Hidden(input, Shown(Now), start, AnyTime, Must)
        /\ Targets(AnyTime)
    BY AnyTargets DEF RedactInv, Progress
  <1>2. /\ out \in Seq(Int) /\ line \in Seq(Int)
        /\ Asc(out) /\ Asc(line) /\ Ahead(out, line)
        /\ Lines(input, out)
    BY <1>1 DEF WriterOK, Writers, Now
  <1>3. /\ all \in Seq(Int) /\ Asc(all) /\ BytesOf(all) = Shown(Now)
    BY <1>2, Joined, BytesJoined DEF Shown, Now
  <1> HIDE DEF all
  <1>4. Shown(Now) \subseteq 1..(start - 1)
    <2>1. start - 1 \in Nat
      BY <1>1
    <2>2. PICK w : w = Now
      OBVIOUS
    <2>3. PICK text : text = input
      OBVIOUS
    <2>4. PICK m : m = start - 1
      OBVIOUS
    <2>5. m \in Nat /\ WriterOK(text, w, m)
      BY <1>1, <2>1, <2>2, <2>3, <2>4
    <2>6. Shown(w) \subseteq 1..m
      BY <2>5, ShownIs
    <2> QED
      BY <2>2, <2>4, <2>6
  <1>5. \A k \in Nat : k >= 1 => (k \in ToSet(all) <=> k \in Shown(Now))
    BY <1>3 DEF BytesOf
  <1>6. ASSUME NEW v \in AnyTime, NEW i \in 1..n, At(input, v, i, n), MustNotShow(v, i)
        PROVE  ~(i..(i + Len(v) - 1) \subseteq ToSet(all))
    <2>1. v \in Seq(Bytes) /\ v # <<>> /\ Len(v) \in Nat \ {0}
      BY <1>1, EmptySeq DEF Targets
    <2>2. i \in Nat /\ i >= 1 /\ i + Len(v) - 1 \in Nat
      BY <2>1
    <2>3. CASE i < start
      <3>1. <<v, i>> \in Must
        BY <1>6, <2>2, MustIs
      <3>2. Reads(input, v, i, n)
        <4>1. n <= Len(input)
          BY <1>1
        <4> QED
          BY <1>1, <1>6, <2>1, <2>2, <4>1, AtIs
      <3>3. Fits(input, v, i)
        BY <3>2 DEF Reads, Fits
      <3>4. i \in 1..(start - 1)
        BY <1>1, <2>2, <2>3
      <3>5. PICK k \in i..(i + Len(v) - 1) : k < start /\ k \notin Shown(Now)
        BY <1>1, <3>1, <3>3, <3>4 DEF Hidden
      <3>6. k \in Nat /\ k >= 1
        BY <2>2
      <3> QED
        BY <1>5, <3>5, <3>6
    <2>4. CASE ~(i < start)
      <3>1. i \notin Shown(Now)
        BY <1>1, <1>4, <2>2, <2>4
      <3>2. i \in i..(i + Len(v) - 1)
        BY <2>1, <2>2
      <3> QED
        BY <1>5, <2>2, <3>1, <3>2
    <2> QED
      BY <2>3, <2>4
  <1>7. ASSUME NEW k \in 1..(start - 1), k \notin ToSet(all)
        PROVE  \E v \in AnyTime, i \in 1..k : At(input, v, i, n) /\ k < i + Len(v)
    <2>1. k \in Nat /\ k >= 1
      BY <1>1
    <2>2. k \notin Shown(Now)
      BY <1>5, <1>7, <2>1
    <2>3. Under(input, AnyTime, 1, n, k)
      BY <1>1, <2>2 DEF Kept
    <2> QED
      BY <2>3 DEF Under
  <1>8. ASSUME NEW i \in DOMAIN all, NEW j \in DOMAIN all, i < j, all[i] > 0, all[j] > 0
        PROVE  all[i] < all[j]
    BY <1>3, <1>8 DEF Asc
  <1>9. StreamRedacted
    BY <1>6, <1>7, <1>8 DEF StreamRedacted, all
  <1>10. LinesWhole
    <2>1. \A k \in 1..Len(out) :
            out[k] = AddedNL \/ (out[k] > 0 /\ input[out[k]] = NL) <=> IsNL(input, out[k])
      BY DEF IsNL
    <2>2. \A k \in 2..Len(out) : k - 1 \in 1..Len(out)
      BY <1>2
    <2>3. out # <<>> => Len(out) \in 1..Len(out)
      BY <1>2
    <2> QED
      BY <1>2, <2>1, <2>2, <2>3 DEF LinesWhole, Lines, TooLongAt
  <1> QED
    BY <1>9, <1>10 DEF OutputSound

\* Every variable of the chain of writers keeps its type: the buffer begins
\* within the input or right behind it, and what comes out are positions in it
\* (redactingWriter, prefixWriter).
THEOREM RedactTypes == RedactSpec => []RedactTypeOK
  <1> QED
    BY RedactInvariant, InvTypes, PTL

\* For any alphabet, any secrets and any size of the buffers, however a stream is
\* cut into writes and whenever the secrets change, no secret comes out whole,
\* nothing else is withheld or reordered, and every line that comes out is whole
\* behind its prefix, unless it was too long (Write, Flush, tailHold, safeCut).
THEOREM OutputIsSound == RedactSpec => []OutputSound
  <1> QED
    BY RedactInvariant, InvSound, PTL
=============================================================================
