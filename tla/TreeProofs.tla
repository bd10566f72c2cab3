----------------------------- MODULE TreeProofs -----------------------------
(***************************************************************************)
(* Lemmas about ProblemSource: paths and what normalize makes of them, and *)
(* directory trees and what canonicalize makes of paths in them.           *)
(***************************************************************************)
EXTENDS ProblemSource, TLAPS, WellFoundedInduction, SequenceTheorems

-----------------------------------------------------------------------------
(* Induction and recursion over the naturals, for sets and functions.      *)

\* The order of the natural numbers, as the relation the library speaks of.
Below == {ss \in Nat \X Nat : ss[1] < ss[2]}

\* A set of naturals that holds 0, and n when it holds n - 1, holds them all.
LEMMA Naturals ==
  ASSUME NEW S, 0 \in S, \A n \in Nat : n \in S => n + 1 \in S
  PROVE  Nat \subseteq S
<1> DEFINE Rest == Nat \ S
<1>1. SUFFICES ASSUME Rest # {} PROVE FALSE
  OBVIOUS
<1>2. IsWellFoundedOn(Below, Nat)
  BY NatLessThanWellFounded DEF OpToRel, Below
<1>3. PICK n \in Rest : \A m \in Rest : ~(<<m, n>> \in Below)
  BY <1>1, <1>2, WFMin, Zenon
<1>4. n # 0 /\ n \in Nat
  BY <1>3
<1>5. n - 1 \in Nat /\ <<n - 1, n>> \in Below
  BY <1>4 DEF Below
<1>6. n - 1 \in S
  BY <1>3, <1>5
<1> QED
  BY <1>3, <1>4, <1>5, <1>6

\* A set that holds the empty sequence, and a sequence over T with one more
\* element when it holds the sequence, holds all sequences over T.
LEMMA Sequences ==
  ASSUME NEW T, NEW X, << >> \in X,
         \A q \in Seq(T), c \in T : q \in X => Append(q, c) \in X
  PROVE  Seq(T) \subseteq X
<1> DEFINE Good == {n \in Nat : \A q \in Seq(T) : Len(q) = n => q \in X}
<1>1. 0 \in Good
  BY EmptySeq
<1>2. ASSUME NEW n \in Nat, n \in Good PROVE n + 1 \in Good
  <2>1. SUFFICES ASSUME NEW q \in Seq(T), Len(q) = n + 1 PROVE q \in X
    OBVIOUS
  <2>2. PICK s \in Seq(T), c \in T : q = Append(s, c)
    <3>1. q # << >>
      BY <2>1
    <3> QED
      BY <3>1, SequenceEmptyOrAppend
  <2>3. Len(s) = n
    BY <2>1, <2>2, AppendProperties
  <2> QED
    BY <1>2, <2>2, <2>3
<1> HIDE DEF Good
<1>3. Nat \subseteq Good
  BY <1>1, <1>2, Naturals
<1> QED
  BY <1>3 DEF Good

\* The steps of a loop of n turns, from S to S ...
Steps(S, n) == [(1..n) \X S -> S]

\* ... and where it is after each of them.
IsRun(f, b, n, F) == f[0] = b /\ \A i \in 1..n : f[i] = F[<<i, f[i - 1]>>]

\* Every loop has a run.
LEMMA Repeated ==
  ASSUME NEW S, NEW b \in S, NEW n \in Nat, NEW F \in Steps(S, n)
  PROVE  \E f \in [0..n -> S] : IsRun(f, b, n, F)
<1> USE DEF Steps, IsRun
<1> DEFINE Is(f, m) == f[0] = b /\ \A i \in 1..m : f[i] = F[<<i, f[i - 1]>>]
           Good == {m \in Nat : m <= n => \E f \in [0..m -> S] : Is(f, m)}
<1>1. 0 \in Good
  <2>1. [i \in 0..0 |-> b] \in [0..0 -> S] /\ Is([i \in 0..0 |-> b], 0)
    OBVIOUS
  <2> QED
    BY <2>1
<1>2. ASSUME NEW m \in Nat, m \in Good PROVE m + 1 \in Good
  <2>1. SUFFICES ASSUME m + 1 <= n PROVE \E f \in [0..(m + 1) -> S] : Is(f, m + 1)
    OBVIOUS
  <2>2. PICK f \in [0..m -> S] : Is(f, m)
    BY <1>2, <2>1
  <2> DEFINE g == [i \in 0..(m + 1) |-> IF i <= m THEN f[i] ELSE F[<<m + 1, f[m]>>]]
  <2>3. F[<<m + 1, f[m]>>] \in S
    BY <2>1, <2>2
  <2>4. g \in [0..(m + 1) -> S]
    BY <2>2, <2>3
  <2>5. g[0] = b
    BY <2>2
  <2>6. ASSUME NEW i \in 1..(m + 1) PROVE g[i] = F[<<i, g[i - 1]>>]
    <3>1. CASE i <= m
      BY <2>2, <3>1
    <3>2. CASE i = m + 1
      <4>1. m \in 0..(m + 1) /\ m + 1 \in 0..(m + 1) /\ ~(m + 1 <= m) /\ i - 1 = m
        BY <3>2
      <4>2. g[m] = f[m] /\ g[m + 1] = F[<<m + 1, f[m]>>]
        BY <4>1
      <4> HIDE DEF g
      <4> QED
        BY <3>2, <4>1, <4>2
    <3> QED
      BY <3>1, <3>2
  <2> HIDE DEF g
  <2> QED
    BY <2>4, <2>5, <2>6
<1> HIDE DEF Good
<1>3. Nat \subseteq Good
  BY <1>1, <1>2, Naturals
<1> QED
  BY <1>3 DEF Good

-----------------------------------------------------------------------------
(* Paths.                                                                  *)

\* FlattenSeq runs through its sequences, one concatenation after the other.
LEMMA Flattening ==
  ASSUME NEW T, NEW seqs \in Seq(Seq(T)), seqs # << >>
  PROVE  \E h : /\ \A i \in 1..Len(seqs) : h[i] = IF i = 1 THEN seqs[i] ELSE h[i - 1] \o seqs[i]
                /\ FlattenSeq(seqs) = h[Len(seqs)]
<1> DEFINE n == Len(seqs)
           F == [x \in (1..n) \X Seq(T) |-> x[2] \o seqs[x[1]]]
<1>1. n \in Nat \ {0} /\ \A i \in 1..n : seqs[i] \in Seq(T)
  OBVIOUS
<1>2. F \in [(1..n) \X Seq(T) -> Seq(T)]
  BY <1>1
<1> HIDE DEF n, F
<1>3. PICK b \in Seq(T) : b = << >>
  BY EmptySeq
<1>4. F \in Steps(Seq(T), n) /\ n \in Nat
  BY <1>1, <1>2 DEF Steps
<1>5. PICK f \in [0..n -> Seq(T)] : f[0] = b /\ \A i \in 1..n : f[i] = F[<<i, f[i - 1]>>]
  <2>1. \E f \in [0..n -> Seq(T)] : IsRun(f, b, n, F)
    BY <1>4, Repeated
  <2> QED
    BY <2>1 DEF IsRun
<1>6. ASSUME NEW i \in 1..n PROVE i - 1 \in 0..n /\ f[i] = f[i - 1] \o seqs[i]
  <2>1. i - 1 \in 0..n /\ f[i - 1] \in Seq(T) /\ f[i] = F[<<i, f[i - 1]>>]
    BY <1>1, <1>5
  <2> QED
    BY <2>1 DEF F
<1>7. f[1] = seqs[1]
  <2>1. 1 \in 1..n
    BY <1>1
  <2>2. f[1] = f[0] \o seqs[1]
    <3>1. f[1] = f[1 - 1] \o seqs[1]
      BY <1>6, <2>1, Zenon
    <3> QED
      BY <3>1
  <2>3. seqs[1] \in Seq(T)
    BY <1>1, <2>1
  <2> QED
    BY <1>3, <1>5, <2>2, <2>3, ConcatEmptySeq
<1> DEFINE Def(h) == h = [i \in 1..n |-> IF i = 1 THEN seqs[i] ELSE h[i - 1] \o seqs[i]]
           g == [i \in 1..n |-> f[i]]
<1>8. Def(g)
  <2>1. ASSUME NEW i \in 1..n, i # 1 PROVE g[i] = g[i - 1] \o seqs[i]
    <3>1. i - 1 \in 1..n
      BY <1>1, <2>1
    <3> QED
      BY <1>6, <3>1
  <2>2. \A i \in 1..n : g[i] = IF i = 1 THEN seqs[i] ELSE g[i - 1] \o seqs[i]
    BY <1>7, <2>1
  <2> QED
    BY <2>2
<1>9. PICK h : Def(h) /\ FlattenSeq(seqs) = h[n]
  <2>1. Def(CHOOSE h : Def(h))
    BY <1>8
  <2>2. FlattenSeq(seqs) = (CHOOSE h : Def(h))[n]
    BY <1>1 DEF FlattenSeq, n
  <2> QED
    BY <2>1, <2>2
<1>10. \A i \in 1..n : h[i] = IF i = 1 THEN seqs[i] ELSE h[i - 1] \o seqs[i]
  BY <1>9
<1> QED
  BY <1>9, <1>10 DEF n

\* Flattening sequences over T makes a sequence over T, and not an empty one
\* of sequences that are not empty.
LEMMA Flattened ==
  ASSUME NEW T, NEW seqs \in Seq(Seq(T)), seqs # << >>
  PROVE  /\ FlattenSeq(seqs) \in Seq(T)
         /\ seqs \in Seq(Seq(T) \ {<< >>}) => FlattenSeq(seqs) # << >>
<1> DEFINE n == Len(seqs)
<1>1. n \in Nat \ {0} /\ \A i \in 1..n : seqs[i] \in Seq(T)
  OBVIOUS
<1>2. PICK h : /\ \A i \in 1..n : h[i] = IF i = 1 THEN seqs[i] ELSE h[i - 1] \o seqs[i]
               /\ FlattenSeq(seqs) = h[n]
  BY Flattening
<1> HIDE DEF n
<1>3. \A i \in 1..n : h[i] = IF i = 1 THEN seqs[i] ELSE h[i - 1] \o seqs[i]
  BY <1>2
<1> DEFINE Whole(i) == /\ h[i] \in Seq(T)
                       /\ seqs \in Seq(Seq(T) \ {<< >>}) => h[i] # << >>
           Good == {m \in Nat : m + 1 <= n => Whole(m + 1)}
<1>4. 0 \in Good
  <2>1. 1 \in 1..n /\ h[1] = seqs[1]
    BY <1>1, <1>3
  <2>2. seqs \in Seq(Seq(T) \ {<< >>}) => seqs[1] # << >>
    BY <1>1 DEF n
  <2>3. Whole(1) /\ 0 + 1 = 1
    BY <1>1, <2>1, <2>2
  <2> HIDE DEF Whole
  <2> QED
    BY <2>3
<1>5. ASSUME NEW m \in Nat, m \in Good PROVE m + 1 \in Good
  <2>1. SUFFICES ASSUME m + 2 <= n PROVE Whole(m + 2)
    BY SMT
  <2>2. m + 2 \in 1..n /\ (m + 2) - 1 = m + 1 /\ m + 2 # 1
    BY <1>1, <2>1
  <2>3. h[m + 2] = h[m + 1] \o seqs[m + 2] /\ seqs[m + 2] \in Seq(T)
    BY <1>1, <1>3, <2>2
  <2>4. Whole(m + 1)
    BY <1>1, <1>5, <2>1
  <2> HIDE DEF n
  <2> QED
    BY <2>3, <2>4
<1> HIDE DEF Good, Whole
<1>6. n - 1 \in Nat /\ n - 1 \in Good
  <2>1. Nat \subseteq Good
    BY <1>4, <1>5, Naturals
  <2> QED
    BY <1>1, <2>1
<1>7. Whole(n)
  <2>1. (n - 1) + 1 = n
    BY <1>1
  <2>2. n - 1 + 1 <= n => Whole(n - 1 + 1)
    BY <1>6 DEF Good
  <2> QED
    BY <1>1, <2>1, <2>2
<1> QED
  BY <1>2, <1>7 DEF Whole

\* Flattening with one more sequence.
LEMMA FlattenAppend ==
  ASSUME NEW T, NEW seqs \in Seq(Seq(T)), NEW x \in Seq(T)
  PROVE  FlattenSeq(Append(seqs, x)) = FlattenSeq(seqs) \o x
<1>1. PICK n : n = Len(seqs)
  OBVIOUS
<1>2. PICK more : more = Append(seqs, x)
  OBVIOUS
<1>3. /\ n \in Nat /\ Len(more) = n + 1 /\ more \in Seq(Seq(T)) /\ more # << >>
      /\ more[n + 1] = x /\ \A i \in 1..n : more[i] = seqs[i]
  BY <1>1, <1>2, AppendProperties
<1>4. PICK h : /\ \A i \in 1..(n + 1) : h[i] = IF i = 1 THEN more[i] ELSE h[i - 1] \o more[i]
               /\ FlattenSeq(more) = h[n + 1]
  BY <1>3, Flattening
<1>5. CASE n = 0
  <2>1. seqs = << >> /\ FlattenSeq(seqs) = << >>
    BY <1>1, <1>5, EmptySeq DEF FlattenSeq
  <2>2. h[1] = x
    BY <1>3, <1>4, <1>5
  <2> QED
    BY <1>2, <1>4, <1>5, <2>1, <2>2, ConcatEmptySeq
<1>6. CASE n # 0
  <2>1. PICK g : /\ \A i \in 1..n : g[i] = IF i = 1 THEN seqs[i] ELSE g[i - 1] \o seqs[i]
                 /\ FlattenSeq(seqs) = g[n]
    <3>1. seqs # << >>
      BY <1>1, <1>6
    <3> QED
      BY <1>1, <3>1, Flattening
  <2> DEFINE Good == {m \in Nat : m + 1 <= n => h[m + 1] = g[m + 1]}
  <2>2. 0 \in Good
    <3>1. 1 \in 1..n /\ 1 \in 1..(n + 1)
      BY <1>3, <1>6
    <3>2. h[1] = g[1]
      BY <1>3, <1>4, <2>1, <3>1
    <3> QED
      BY <3>2
  <2>3. ASSUME NEW m \in Nat, m \in Good PROVE m + 1 \in Good
    <3>1. SUFFICES ASSUME m + 2 <= n PROVE h[m + 2] = g[m + 2]
      BY SMT
    <3>2. /\ m + 2 \in 1..n /\ m + 2 \in 1..(n + 1)
          /\ m + 2 # 1 /\ (m + 2) - 1 = m + 1 /\ m + 1 <= n
      BY <1>3, <3>1
    <3>3. h[m + 1] = g[m + 1]
      BY <2>3, <3>2
    <3>4. h[m + 2] = h[m + 1] \o seqs[m + 2] /\ g[m + 2] = g[m + 1] \o seqs[m + 2]
      BY <1>3, <1>4, <2>1, <3>2
    <3> QED
      BY <3>3, <3>4
  <2> HIDE DEF Good
  <2>4. n - 1 \in Nat /\ Nat \subseteq Good
    <3>1. Nat \subseteq Good
      BY <2>2, <2>3, Naturals
    <3> QED
      BY <1>3, <1>6, <3>1
  <2>5. h[n] = g[n]
    <3>1. n - 1 \in Good /\ (n - 1) + 1 = n
      BY <1>3, <2>4
    <3> QED
      BY <1>3, <3>1 DEF Good
  <2>6. h[n + 1] = h[n] \o x
    <3>1. n + 1 \in 1..(n + 1) /\ n + 1 # 1 /\ (n + 1) - 1 = n
      BY <1>3, <1>6
    <3>2. h[n + 1] = h[(n + 1) - 1] \o more[n + 1]
      BY <1>4, <3>1
    <3> QED
      BY <1>3, <3>1, <3>2
  <2> QED
    BY <1>2, <1>4, <2>1, <2>5, <2>6
<1> QED
  BY <1>5, <1>6

\* A segment that holds backslashes falls into segments, and never into none.
LEMMA SlashedIsPath ==
  ASSUME NEW path \in Seq(STRING) \ {<< >>}
  PROVE  Slashed(path) \in Seq(STRING) \ {<< >>}
<1> DEFINE Piece(i) == IF path[i] \in DOMAIN Backslash THEN Backslash[path[i]] ELSE <<path[i]>>
           pieces == [i \in DOMAIN path |-> Piece(i)]
<1>1. DOMAIN path = 1..Len(path) /\ Len(path) \in Nat \ {0}
  BY EmptySeq
<1>2. ASSUME NEW i \in DOMAIN path PROVE Piece(i) \in Seq(STRING) \ {<< >>}
  <2>1. path[i] \in STRING
    BY <1>1
  <2>2. CASE path[i] \in DOMAIN Backslash
    BY <2>2, SourceAssumption
  <2>3. <<path[i]>> \in Seq(STRING) /\ <<path[i]>> # << >>
    BY <2>1
  <2> QED
    BY <2>2, <2>3
<1> HIDE DEF Piece
<1>3. /\ pieces \in Seq(Seq(STRING) \ {<< >>}) /\ pieces \in Seq(Seq(STRING))
      /\ Len(pieces) = Len(path)
  BY <1>1, <1>2
<1>4. pieces # << >>
  BY <1>1, <1>3
<1>5. Slashed(path) = FlattenSeq(pieces)
  BY DEF Slashed, Piece
<1> HIDE DEF pieces
<1> QED
  BY <1>3, <1>4, <1>5, Flattened

\* What is left of a path is a path.
LEMMA WithoutIsPath ==
  ASSUME NEW T, NEW path \in Seq(T), NEW S
  PROVE  Without(path, S) \in Seq(T)
<1> DEFINE Piece(i) == IF path[i] \in S THEN << >> ELSE <<path[i]>>
           pieces == [i \in DOMAIN path |-> Piece(i)]
<1>1. DOMAIN path = 1..Len(path) /\ Len(path) \in Nat
  OBVIOUS
<1>2. ASSUME NEW i \in DOMAIN path PROVE Piece(i) \in Seq(T)
  <2>1. path[i] \in T
    BY <1>1
  <2>2. <<path[i]>> \in Seq(T) /\ << >> \in Seq(T)
    BY <2>1, EmptySeq
  <2> QED
    BY <2>2
<1> HIDE DEF Piece
<1>3. pieces \in Seq(Seq(T))
  BY <1>1, <1>2
<1>4. Without(path, S) = FlattenSeq(pieces)
  BY DEF Without, Piece
<1>5. CASE pieces = << >>
  <2>1. FlattenSeq(<< >>) = << >>
    BY DEF FlattenSeq
  <2> QED
    BY <1>4, <1>5, <2>1, EmptySeq
<1> HIDE DEF pieces
<1> QED
  BY <1>3, <1>4, <1>5, Flattened

\* A leading "./" goes, and the last segment stays.
LEMMA TrimmedIsPath ==
  ASSUME NEW T, NEW path \in Seq(T) \ {<< >>}
  PROVE  /\ Trimmed(path) \in Seq(T)
         /\ \E m \in 1..Len(path) :
              /\ Trimmed(path) = SubSeq(path, m, Len(path))
              /\ \A j \in 1..(m - 1) : path[j] = "."
<1> DEFINE starts == {i \in DOMAIN path : \A j \in 1..(i - 1) : path[j] = "."}
           n == Len(path)
           Left == {n - i : i \in starts}
<1>1. n \in Nat \ {0} /\ DOMAIN path = 1..n
  BY EmptySeq
<1>2. 1 \in starts /\ starts \subseteq 1..n
  BY <1>1
<1> HIDE DEF starts, n
<1>3. Left \subseteq Nat /\ Left # {}
  BY <1>1, <1>2
<1>4. IsWellFoundedOn(Below, Nat)
  BY NatLessThanWellFounded DEF OpToRel, Below
<1>5. PICK l \in Left : \A m \in Left : ~(<<m, l>> \in Below)
  BY <1>3, <1>4, WFMin, Zenon
<1>6. PICK i \in starts : l = n - i
  BY <1>5
<1>7. ASSUME NEW j \in starts PROVE i >= j
  <2>1. n - j \in Left /\ ~(<<n - j, l>> \in Below)
    BY <1>5
  <2>2. n - j \in Nat /\ l \in Nat
    BY <1>3, <1>5, <2>1
  <2> QED
    BY <1>1, <1>2, <1>6, <2>1, <2>2 DEF Below
<1>8. Max(starts) \in starts
  BY <1>7 DEF Max
<1>9. Trimmed(path) = SubSeq(path, Max(starts), n)
  BY DEF Trimmed, starts, n
<1>10. PICK m \in starts : Trimmed(path) = SubSeq(path, m, n)
  BY <1>8, <1>9
<1>11. m \in 1..n /\ m \in Int /\ n \in Int /\ \A k \in m..n : path[k] \in T
  BY <1>1, <1>2
<1>12. \A j \in 1..(m - 1) : path[j] = "."
  BY DEF starts
<1>13. SubSeq(path, m, n) \in Seq(T)
  BY <1>11, SubSeqProperties
<1> QED
  BY <1>10, <1>11, <1>12, <1>13 DEF n

\* What normalize answers is a path.
LEMMA NormalIsPath ==
  ASSUME NEW path \in Seq(STRING) \ {<< >>}, IsOk(Normalize(path))
  PROVE  Normalize(path).value \in Seq(STRING)
<1>1. Trimmed(Slashed(path)) \in Seq(STRING)
  BY SlashedIsPath, TrimmedIsPath
<1>2. Without(Trimmed(Slashed(path)), {"", "."}) \in Seq(STRING)
  BY <1>1, WithoutIsPath
<1> QED
  BY <1>2 DEF Normalize, Ok, Failed, IsOk

-----------------------------------------------------------------------------
(* Prefixes.                                                               *)

\* The paths of a directory.
Paths == Seq(Segments)

\* The first k names of p.
Upto(p, k) == SubSeq(p, 1, k)

\* What a prefix is, name by name.
LEMMA UptoProperties ==
  ASSUME NEW p \in Paths, NEW k \in 0..Len(p)
  PROVE  /\ Upto(p, k) \in Paths /\ Len(Upto(p, k)) = k
         /\ \A i \in 1..k : Upto(p, k)[i] = p[i]
<1>1. Len(p) \in Nat /\ \A i \in 1..k : p[i] \in Segments
  BY DEF Paths
<1>2. 1 \in Int /\ k \in Int
  BY <1>1
<1>3. /\ SubSeq(p, 1, k) \in Seq(Segments)
      /\ Len(SubSeq(p, 1, k)) = IF 1 <= k THEN k - 1 + 1 ELSE 0
      /\ \A i \in 1..(k - 1 + 1) : SubSeq(p, 1, k)[i] = p[1 + i - 1]
  BY <1>1, <1>2, SubSeqProperties
<1> QED
  BY <1>1, <1>3 DEF Upto, Paths

\* Two paths of the same names are the same.
LEMMA SamePath ==
  ASSUME NEW p \in Paths, NEW q \in Paths, Len(p) = Len(q), \A i \in 1..Len(p) : p[i] = q[i]
  PROVE  p = q
BY SeqEqual DEF Paths

\* A path is all of itself, and starts with nothing.
LEMMA UptoEnds ==
  ASSUME NEW p \in Paths
  PROVE  Upto(p, 0) = Root /\ Upto(p, Len(p)) = p
<1>1. Len(p) \in Nat
  BY DEF Paths
<1>2. Upto(p, Len(p)) \in Paths /\ Len(Upto(p, Len(p))) = Len(p)
  BY <1>1, UptoProperties
<1>3. Upto(p, Len(p)) = p
  BY <1>1, <1>2, UptoProperties, SamePath
<1> QED
  BY <1>3, SubSeqEmpty DEF Upto, Root

\* A prefix of a prefix.
LEMMA UptoUpto ==
  ASSUME NEW p \in Paths, NEW k \in 0..Len(p), NEW j \in 0..k
  PROVE  Upto(Upto(p, k), j) = Upto(p, j)
<1>1. Len(p) \in Nat /\ j \in 0..Len(p)
  BY DEF Paths
<1>2. /\ Upto(p, k) \in Paths /\ Len(Upto(p, k)) = k
      /\ Upto(p, j) \in Paths /\ Len(Upto(p, j)) = j
      /\ Upto(Upto(p, k), j) \in Paths /\ Len(Upto(Upto(p, k), j)) = j
  BY <1>1, UptoProperties
<1>3. ASSUME NEW i \in 1..j PROVE Upto(Upto(p, k), j)[i] = Upto(p, j)[i]
  BY <1>1, <1>2, UptoProperties
<1> QED
  BY <1>2, <1>3, SamePath

\* IsPrefix, name by name.
LEMMA PrefixIsUpto ==
  ASSUME NEW p \in Paths, NEW q \in Paths
  PROVE  IsPrefix(p, q) <=> Len(p) <= Len(q) /\ p = Upto(q, Len(p))
<1>1. SubSeq(p, 1, Len(p)) = p
  BY UptoEnds DEF Upto
<1> QED
  BY <1>1 DEF IsPrefix, Upto

\* A path with a name appended, and what is left without its last name.
LEMMA AppendPath ==
  ASSUME NEW p \in Paths, NEW n \in Segments
  PROVE  /\ Append(p, n) \in Paths /\ Len(Append(p, n)) = Len(p) + 1
         /\ Append(p, n)[Len(p) + 1] = n
         /\ \A k \in 0..Len(p) : Upto(Append(p, n), k) = Upto(p, k)
         /\ Parent(Append(p, n)) = p /\ Last(Append(p, n)) = n
<1>1. /\ Append(p, n) \in Paths /\ Len(Append(p, n)) = Len(p) + 1 /\ Len(p) \in Nat
      /\ Append(p, n)[Len(p) + 1] = n /\ \A i \in 1..Len(p) : Append(p, n)[i] = p[i]
  BY AppendProperties DEF Paths
<1>2. ASSUME NEW k \in 0..Len(p) PROVE Upto(Append(p, n), k) = Upto(p, k)
  <2>1. k \in 0..Len(Append(p, n))
    BY <1>1
  <2>2. /\ Upto(Append(p, n), k) \in Paths /\ Len(Upto(Append(p, n), k)) = k
        /\ Upto(p, k) \in Paths /\ Len(Upto(p, k)) = k
    BY <1>1, <2>1, UptoProperties
  <2>3. ASSUME NEW i \in 1..k PROVE Upto(Append(p, n), k)[i] = Upto(p, k)[i]
    <3>1. i \in 1..Len(p) /\ Append(p, n)[i] = p[i]
      BY <1>1
    <3>2. Upto(Append(p, n), k)[i] = Append(p, n)[i]
      BY <1>1, <2>1, UptoProperties
    <3>3. Upto(p, k)[i] = p[i]
      BY UptoProperties
    <3> QED
      BY <3>1, <3>2, <3>3
  <2> QED
    BY <2>2, <2>3, SamePath
<1>3. Parent(Append(p, n)) = Upto(Append(p, n), Len(p))
  BY <1>1 DEF Parent, Front, Upto
<1>4. Upto(p, Len(p)) = p
  BY UptoEnds
<1> QED
  BY <1>1, <1>2, <1>3, <1>4 DEF Last

\* Every path but the root is its parent with its last name appended.
LEMMA ParentPath ==
  ASSUME NEW p \in Paths, p # Root
  PROVE  /\ Len(p) \in Nat \ {0} /\ Parent(p) = Upto(p, Len(p) - 1) /\ Parent(p) \in Paths
         /\ Len(Parent(p)) = Len(p) - 1
         /\ Last(p) \in Segments /\ p = Append(Parent(p), Last(p))
<1>1. Len(p) \in Nat \ {0}
  BY EmptySeq DEF Paths, Root
<1>2. Parent(p) = Upto(p, Len(p) - 1) /\ Last(p) = p[Len(p)] /\ Last(p) \in Segments
  BY <1>1 DEF Parent, Front, Upto, Last, Paths
<1>3. /\ Parent(p) \in Paths /\ Len(Parent(p)) = Len(p) - 1
      /\ \A i \in 1..(Len(p) - 1) : Parent(p)[i] = p[i]
  BY <1>1, <1>2, UptoProperties
<1>4. /\ Append(Parent(p), Last(p)) \in Paths /\ Len(Append(Parent(p), Last(p))) = Len(p)
      /\ \A i \in 1..Len(p) : Append(Parent(p), Last(p))[i] = p[i]
  BY <1>1, <1>2, <1>3, AppendProperties DEF Paths
<1> QED
  BY <1>1, <1>2, <1>3, <1>4, SamePath

\* The names are none of the segments with a meaning, so no path leads out.
LEMMA PathsAreInside == Outside \notin Paths /\ \A p \in Paths : Inside(p)
<1>1. ".." \notin Segments
  BY SourceAssumption
<1>2. Len(Outside) = 1 /\ Outside[1] = ".."
  BY DEF Outside
<1>3. Outside \notin Paths
  BY <1>1, <1>2 DEF Paths
<1>4. ASSUME NEW p \in Paths, IsPrefix(Outside, p) PROVE FALSE
  <2>1. /\ 1 <= Len(p) /\ SubSeq(Outside, 1, 1) = SubSeq(p, 1, 1)
    BY <1>2, <1>4 DEF IsPrefix
  <2>2. p[1] \in Segments /\ Len(p) \in Nat
    BY <2>1 DEF Paths
  <2>3. 1 \in 0..Len(p)
    BY <2>1, <2>2
  <2>4. SubSeq(p, 1, 1)[1] = p[1]
    BY <2>3, UptoProperties DEF Upto
  <2>5. SubSeq(Outside, 1, 1)[1] = ".."
    BY DEF Outside
  <2> QED
    BY <1>1, <2>1, <2>2, <2>4, <2>5
<1> QED
  BY <1>3, <1>4 DEF Inside

-----------------------------------------------------------------------------
(* Trees.                                                                  *)

\* A tree whose paths are paths, none too long.
TreeOK(t) ==
  /\ IsTree(t) /\ DOMAIN t \subseteq Paths \cup {Outside}
  /\ \A p \in DOMAIN t \ {Outside} : Len(p) <= MaxDepth

\* No link is on the way to p, nor at p.
Clear(t, p) == \A k \in 0..Len(p) : ~IsLink(t, Upto(p, k))

\* What is at a path is in a directory, which is in a directory, and so on.
LEMMA Ancestors ==
  ASSUME NEW t, TreeOK(t), NEW p \in DOMAIN t \cap Paths, NEW k \in Nat, k < Len(p)
  PROVE  IsDir(t, Upto(p, k))
<1> DEFINE Good == {m \in Nat : m < Len(p) => IsDir(t, Upto(p, Len(p) - 1 - m))}
<1>1. Len(p) \in Nat
  BY DEF Paths
<1>2. ASSUME NEW q \in DOMAIN t \cap Paths, q # Root
      PROVE  IsDir(t, Parent(q)) /\ Parent(q) = Upto(q, Len(q) - 1) /\ Len(q) \in Nat \ {0}
  BY <1>2, PathsAreInside, ParentPath DEF TreeOK, IsTree
<1>3. 0 \in Good
  <2>1. SUFFICES ASSUME 0 < Len(p) PROVE IsDir(t, Upto(p, Len(p) - 1 - 0))
    OBVIOUS
  <2>2. p # Root
    BY <2>1, EmptySeq DEF Root, Paths
  <2>3. Len(p) - 1 - 0 = Len(p) - 1
    BY <1>1
  <2> QED
    BY <1>2, <2>2, <2>3
<1>4. ASSUME NEW m \in Nat, m \in Good PROVE m + 1 \in Good
  <2>1. SUFFICES ASSUME m + 1 < Len(p) PROVE IsDir(t, Upto(p, Len(p) - 1 - (m + 1)))
    BY SMT
  <2> DEFINE j == Len(p) - 1 - m
             q == Upto(p, j)
  <2>2. j \in 1..Len(p) /\ j - 1 \in 0..j /\ Len(p) - 1 - (m + 1) = j - 1
    BY <1>1, <2>1
  <2>3. m < Len(p)
    BY <1>1, <2>1
  <2>4. IsDir(t, q)
    BY <1>4, <2>3
  <2> HIDE DEF j
  <2>5. q \in Paths /\ Len(q) = j
    BY <2>2, UptoProperties
  <2>6. q # Root
    BY <2>2, <2>5 DEF Root
  <2>7. IsDir(t, Parent(q)) /\ Parent(q) = Upto(q, j - 1)
    BY <1>2, <2>4, <2>5, <2>6 DEF IsDir, Exists
  <2>8. j \in 0..Len(p)
    BY <2>2
  <2>9. Upto(q, j - 1) = Upto(p, j - 1)
    BY <2>2, <2>8, UptoUpto
  <2> QED
    BY <2>2, <2>7, <2>9
<1> HIDE DEF Good
<1>5. Len(p) - 1 - k \in Nat /\ Len(p) - 1 - k < Len(p) /\ Len(p) - 1 - (Len(p) - 1 - k) = k
  BY <1>1
<1>6. Len(p) - 1 - k \in Good
  BY <1>3, <1>4, <1>5, Naturals
<1> QED
  BY <1>5, <1>6 DEF Good

\* A directory is no link, and a link no directory.
LEMMA DirsAreNoLinks ==
  ASSUME NEW t, NEW p, IsDir(t, p)
  PROVE  ~IsLink(t, p) /\ p \in DOMAIN t
BY DEF IsDir, IsLink, Exists

\* What is there and is no link has a way without links.
LEMMA ClearWay ==
  ASSUME NEW t, TreeOK(t), NEW p \in DOMAIN t \cap Paths, ~IsLink(t, p)
  PROVE  Clear(t, p)
<1>1. SUFFICES ASSUME NEW k \in 0..Len(p) PROVE ~IsLink(t, Upto(p, k))
  BY DEF Clear
<1>2. Len(p) \in Nat
  BY DEF Paths
<1>3. CASE k = Len(p)
  BY <1>3, UptoEnds
<1>4. CASE k < Len(p)
  BY <1>2, <1>4, Ancestors, DirsAreNoLinks
<1> QED
  BY <1>2, <1>3, <1>4

-----------------------------------------------------------------------------
(* canonicalize.                                                           *)

\* Where a resolution may come to.
Places(t) == {Ok(p) : p \in DOMAIN t} \cup {Failed("Io"), Failed("NotFound")}

\* A result is a place or a failure.
LEMMA Results ==
  /\ \A v : IsOk(Ok(v)) /\ Ok(v).value = v
  /\ \A v, w : Ok(v) = Ok(w) => v = w
  /\ ~IsOk(Failed("Io")) /\ ~IsOk(Failed("NotFound"))
  /\ \A t, r : r \in Places(t) => ~IsOk(r) \/ (r = Ok(r.value) /\ r.value \in DOMAIN t)
BY DEF Ok, Failed, IsOk, Places

\* One name more.
LEMMA EnteredIsPlace ==
  ASSUME NEW t, NEW at \in Places(t), NEW name
  PROVE  /\ Entered(t, at, name) \in Places(t)
         /\ IsOk(Entered(t, at, name)) =>
              IsOk(at) /\ ~IsLink(t, Entered(t, at, name).value)
<1> DEFINE p == Append(at.value, name)
           end == IF IsLink(t, p) THEN t[p].to ELSE p
<1>1. Entered(t, at, name) = IF ~IsOk(at) THEN at
                             ELSE IF ~IsDir(t, at.value) THEN Failed("Io")
                             ELSE IF ~Exists(t, end) THEN Failed("NotFound")
                             ELSE IF IsLink(t, end) THEN Failed("Io") ELSE Ok(end)
  BY DEF Entered
<1> HIDE DEF end
<1>2. Exists(t, end) => Ok(end) \in Places(t)
  BY DEF Places, Exists
<1>3. Failed("Io") \in Places(t) /\ Failed("NotFound") \in Places(t)
  BY DEF Places
<1>4. CASE ~IsOk(at)
  BY <1>1, <1>4
<1>5. CASE IsOk(at) /\ (~IsDir(t, at.value) \/ ~Exists(t, end) \/ IsLink(t, end))
  BY <1>1, <1>3, <1>5, Results
<1>6. CASE IsOk(at) /\ IsDir(t, at.value) /\ Exists(t, end) /\ ~IsLink(t, end)
  BY <1>1, <1>2, <1>6, Results
<1> QED
  BY <1>4, <1>5, <1>6

\* canonicalize comes to a place with each name.
LEMMA Resolution ==
  ASSUME NEW t, Root \in DOMAIN t, NEW names, Len(names) \in Nat
  PROVE  \E f \in [0..Len(names) -> Places(t)] :
           /\ f[0] = Ok(Root)
           /\ \A i \in 1..Len(names) : f[i] = Entered(t, f[i - 1], names[i])
           /\ Canonicalize(t, names) = f[Len(names)]
<1> DEFINE n == Len(names)
           S == Places(t)
           F == [x \in (1..n) \X S |-> Entered(t, x[2], names[x[1]])]
<1>1. PICK b \in S : b = Ok(Root)
  BY DEF Places
<1>2. \A i \in 1..n, at \in S : Entered(t, at, names[i]) \in S
  BY EnteredIsPlace
<1>3. F \in Steps(S, n)
  BY <1>2 DEF Steps
<1>4. n \in Nat
  OBVIOUS
<1>5. \A i \in 1..n, at \in S : F[<<i, at>>] = Entered(t, at, names[i])
  OBVIOUS
<1> HIDE DEF n, S, F
<1>6. PICK f \in [0..n -> S] : IsRun(f, b, n, F)
  BY <1>1, <1>3, <1>4, Repeated
<1> DEFINE Def(h) == h = [i \in 0..n |-> IF i = 0 THEN Ok(Root) ELSE Entered(t, h[i - 1], names[i])]
<1>7. ASSUME NEW i \in 1..n PROVE f[i] = Entered(t, f[i - 1], names[i])
  <2>1. i - 1 \in 0..n
    BY <1>4
  <2> QED
    BY <1>5, <1>6, <2>1 DEF IsRun
<1>8. Def(f)
  <2>1. f[0] = Ok(Root)
    BY <1>1, <1>6 DEF IsRun
  <2>2. \A i \in 0..n : f[i] = IF i = 0 THEN Ok(Root) ELSE Entered(t, f[i - 1], names[i])
    BY <1>4, <1>7, <2>1
  <2> QED
    BY <2>2
<1> DEFINE c == CHOOSE h : Def(h)
<1>9. Def(c) /\ Canonicalize(t, names) = c[n]
  <2>1. Def(c)
    BY <1>8
  <2>2. Canonicalize(t, names) = c[n]
    BY DEF Canonicalize, n
  <2> QED
    BY <2>1, <2>2
<1> HIDE DEF c
<1>10. /\ DOMAIN c = 0..n /\ c[0] = Ok(Root)
       /\ \A i \in 1..n : c[i] = Entered(t, c[i - 1], names[i])
  BY <1>4, <1>9
<1> DEFINE Good == {m \in Nat : m <= n => c[m] \in S}
<1>11. 0 \in Good
  BY <1>1, <1>10
<1>12. ASSUME NEW m \in Nat, m \in Good PROVE m + 1 \in Good
  <2>1. SUFFICES ASSUME m + 1 <= n PROVE c[m + 1] \in S
    OBVIOUS
  <2>2. m + 1 \in 1..n /\ (m + 1) - 1 = m /\ c[m] \in S
    BY <1>4, <1>12, <2>1
  <2> QED
    BY <1>2, <1>10, <2>2
<1> HIDE DEF Good
<1>13. \A m \in 0..n : c[m] \in S
  <2>1. Nat \subseteq Good
    BY <1>11, <1>12, Naturals
  <2> QED
    BY <1>4, <2>1 DEF Good
<1>14. c \in [0..n -> S]
  BY <1>9, <1>10, <1>13
<1> QED
  BY <1>9, <1>10, <1>14 DEF n, S

\* canonicalize stays at the root for the empty path.
LEMMA ResolutionStarts ==
  ASSUME NEW t, Root \in DOMAIN t
  PROVE  Canonicalize(t, << >>) = Ok(Root)
<1>1. Len(<< >>) = 0
  OBVIOUS
<1>2. PICK f \in [0..0 -> Places(t)] : f[0] = Ok(Root) /\ Canonicalize(t, << >>) = f[0]
  BY <1>1, Resolution
<1> QED
  BY <1>2

\* One name more for canonicalize.
LEMMA ResolutionGoesOn ==
  ASSUME NEW t, Root \in DOMAIN t, NEW T, NEW q \in Seq(T), NEW c \in T
  PROVE  /\ Canonicalize(t, Append(q, c)) = Entered(t, Canonicalize(t, q), c)
         /\ Canonicalize(t, q) \in Places(t)
<1>1. PICK n : n = Len(q)
  OBVIOUS
<1>2. PICK more : more = Append(q, c)
  OBVIOUS
<1>3. /\ n \in Nat /\ Len(more) = n + 1
      /\ more[n + 1] = c /\ \A i \in 1..n : more[i] = q[i]
  BY <1>1, <1>2, AppendProperties
<1>4. PICK f \in [0..n -> Places(t)] :
        /\ f[0] = Ok(Root)
        /\ \A i \in 1..n : f[i] = Entered(t, f[i - 1], q[i])
        /\ Canonicalize(t, q) = f[n]
  BY <1>1, <1>3, Resolution
<1>5. PICK g \in [0..(n + 1) -> Places(t)] :
        /\ g[0] = Ok(Root)
        /\ \A i \in 1..(n + 1) : g[i] = Entered(t, g[i - 1], more[i])
        /\ Canonicalize(t, more) = g[n + 1]
  BY <1>3, Resolution
<1> DEFINE Good == {m \in Nat : m <= n => f[m] = g[m]}
<1>6. 0 \in Good
  BY <1>4, <1>5
<1>7. ASSUME NEW m \in Nat, m \in Good PROVE m + 1 \in Good
  <2>1. SUFFICES ASSUME m + 1 <= n PROVE f[m + 1] = g[m + 1]
    OBVIOUS
  <2>2. /\ m + 1 \in 1..n /\ m + 1 \in 1..(n + 1) /\ (m + 1) - 1 = m /\ m <= n
    BY <1>3, <2>1
  <2>3. f[m + 1] = Entered(t, f[m], q[m + 1]) /\ g[m + 1] = Entered(t, g[m], more[m + 1])
    BY <1>4, <1>5, <2>2
  <2>4. f[m] = g[m] /\ more[m + 1] = q[m + 1]
    BY <1>3, <1>7, <2>2
  <2> QED
    BY <2>3, <2>4
<1> HIDE DEF Good
<1>8. f[n] = g[n]
  <2>1. Nat \subseteq Good
    BY <1>6, <1>7, Naturals
  <2> QED
    BY <1>3, <2>1 DEF Good
<1>9. g[n + 1] = Entered(t, g[n], c)
  <2>1. n + 1 \in 1..(n + 1) /\ (n + 1) - 1 = n
    <3>1. n \in Nat
      BY <1>3
    <3> QED
      BY <3>1
  <2>2. \A i \in 1..(n + 1) : g[i] = Entered(t, g[i - 1], more[i])
    BY <1>5
  <2>3. PICK k \in 1..(n + 1) : k = n + 1 /\ k - 1 = n
    BY <2>1
  <2>4. g[k] = Entered(t, g[k - 1], more[k])
    BY <2>2
  <2> QED
    BY <1>3, <2>3, <2>4
<1>10. f[n] \in Places(t)
  BY <1>3, <1>4
<1> QED
  BY <1>2, <1>4, <1>5, <1>8, <1>9, <1>10

\* The next prefix.
LEMMA UptoNext ==
  ASSUME NEW p \in Paths, NEW k \in Nat, k < Len(p)
  PROVE  /\ Append(Upto(p, k), p[k + 1]) = Upto(p, k + 1)
         /\ p[k + 1] \in Segments /\ k \in 0..Len(p) /\ k + 1 \in 0..Len(p)
<1>1. /\ Len(p) \in Nat /\ k \in 0..Len(p) /\ k + 1 \in 0..Len(p)
      /\ p[k + 1] \in Segments
  BY DEF Paths
<1>2. /\ Upto(p, k) \in Paths /\ Len(Upto(p, k)) = k
      /\ Upto(p, k + 1) \in Paths /\ Len(Upto(p, k + 1)) = k + 1
  BY <1>1, UptoProperties
<1> DEFINE q == Append(Upto(p, k), p[k + 1])
<1>3. /\ q \in Paths /\ Len(q) = k + 1
      /\ q[k + 1] = p[k + 1] /\ \A i \in 1..k : q[i] = Upto(p, k)[i]
  BY <1>1, <1>2, AppendProperties DEF Paths
<1> HIDE DEF q
<1>4. ASSUME NEW i \in 1..(k + 1) PROVE q[i] = Upto(p, k + 1)[i]
  <2>1. Upto(p, k + 1)[i] = p[i]
    BY <1>1, UptoProperties
  <2>2. CASE i = k + 1
    BY <1>3, <2>1, <2>2
  <2>3. CASE i \in 1..k
    BY <1>1, <1>3, <2>1, <2>3, UptoProperties
  <2> QED
    BY <2>2, <2>3
<1>5. q = Upto(p, k + 1)
  BY <1>2, <1>3, <1>4, SamePath
<1> QED
  BY <1>1, <1>5 DEF q

\* A name that is no link leads to the path with that name, or nowhere.
LEMMA EnteredStraight ==
  ASSUME NEW t, NEW p, NEW name, ~IsLink(t, Append(p, name))
  PROVE  /\ \/ ~IsOk(Entered(t, Ok(p), name))
            \/ Entered(t, Ok(p), name) = Ok(Append(p, name))
         /\ IsDir(t, p) /\ Append(p, name) \in DOMAIN t =>
              Entered(t, Ok(p), name) = Ok(Append(p, name))
<1>1. Entered(t, Ok(p), name) = IF ~IsDir(t, p) THEN Failed("Io")
                                ELSE IF ~Exists(t, Append(p, name)) THEN Failed("NotFound")
                                ELSE Ok(Append(p, name))
  BY Results DEF Entered
<1> QED
  BY <1>1, Results DEF Exists

\* Where no link is on the way, canonicalize answers the path or fails.
LEMMA StraightWay ==
  ASSUME NEW t, TreeOK(t), NEW p \in Paths, Clear(t, p)
  PROVE  ~IsOk(Canonicalize(t, p)) \/ Canonicalize(t, p) = Ok(p)
<1>1. Len(p) \in Nat /\ Root \in DOMAIN t
  BY DEF Paths, TreeOK, IsTree, IsDir, Exists
<1>2. PICK f \in [0..Len(p) -> Places(t)] :
        /\ f[0] = Ok(Root)
        /\ \A i \in 1..Len(p) : f[i] = Entered(t, f[i - 1], p[i])
        /\ Canonicalize(t, p) = f[Len(p)]
  BY <1>1, Resolution
<1> DEFINE There(m) == ~IsOk(f[m]) \/ f[m] = Ok(Upto(p, m))
           Good == {m \in Nat : m <= Len(p) => There(m)}
<1>3. 0 \in Good
  BY <1>2, UptoEnds
<1>4. ASSUME NEW m \in Nat, m \in Good PROVE m + 1 \in Good
  <2>1. SUFFICES ASSUME m + 1 <= Len(p) PROVE There(m + 1)
    BY SMT
  <2>2. /\ m < Len(p) /\ m <= Len(p) /\ m + 1 \in 1..Len(p) /\ (m + 1) - 1 = m
        /\ m \in 0..Len(p) /\ m + 1 \in 0..Len(p)
    BY <1>1, <2>1
  <2>3. f[m + 1] = Entered(t, f[m], p[m + 1]) /\ f[m] \in Places(t)
    BY <1>2, <2>2
  <2>4. Append(Upto(p, m), p[m + 1]) = Upto(p, m + 1)
    BY <2>2, UptoNext
  <2>5. ~IsLink(t, Append(Upto(p, m), p[m + 1]))
    BY <2>2, <2>4 DEF Clear
  <2>6. There(m)
    BY <1>4, <2>2
  <2>7. CASE ~IsOk(f[m])
    BY <2>3, <2>7, EnteredIsPlace
  <2>8. CASE f[m] = Ok(Upto(p, m))
    <3>1. \/ ~IsOk(Entered(t, Ok(Upto(p, m)), p[m + 1]))
          \/ Entered(t, Ok(Upto(p, m)), p[m + 1]) = Ok(Append(Upto(p, m), p[m + 1]))
      BY <2>5, EnteredStraight
    <3> QED
      BY <2>3, <2>4, <2>8, <3>1
  <2> QED
    BY <2>6, <2>7, <2>8
<1> HIDE DEF Good, There
<1>5. Nat \subseteq Good
  BY <1>3, <1>4, Naturals
<1>6. There(Len(p))
  BY <1>1, <1>5 DEF Good
<1> QED
  BY <1>2, <1>6, UptoEnds DEF There

\* What is there and is no link is its own canonical path.
LEMMA WayIsThere ==
  ASSUME NEW t, TreeOK(t), NEW p \in DOMAIN t \cap Paths, ~IsLink(t, p)
  PROVE  Canonicalize(t, p) = Ok(p)
<1>1. Len(p) \in Nat /\ Root \in DOMAIN t
  BY DEF Paths, TreeOK, IsTree, IsDir, Exists
<1>2. PICK f \in [0..Len(p) -> Places(t)] :
        /\ f[0] = Ok(Root)
        /\ \A i \in 1..Len(p) : f[i] = Entered(t, f[i - 1], p[i])
        /\ Canonicalize(t, p) = f[Len(p)]
  BY <1>1, Resolution
<1> DEFINE There(m) == f[m] = Ok(Upto(p, m))
           Good == {m \in Nat : m <= Len(p) => There(m)}
<1>3. 0 \in Good
  BY <1>2, UptoEnds
<1>4. ASSUME NEW m \in Nat, m \in Good PROVE m + 1 \in Good
  <2>1. SUFFICES ASSUME m + 1 <= Len(p) PROVE There(m + 1)
    BY SMT
  <2>2. /\ m < Len(p) /\ m <= Len(p) /\ m + 1 \in 1..Len(p) /\ (m + 1) - 1 = m
        /\ m \in 0..Len(p) /\ m + 1 \in 0..Len(p)
    BY <1>1, <2>1
  <2>3. f[m + 1] = Entered(t, f[m], p[m + 1])
    BY <1>2, <2>2
  <2>4. Append(Upto(p, m), p[m + 1]) = Upto(p, m + 1)
    BY <2>2, UptoNext
  <2>5. Clear(t, p)
    BY ClearWay
  <2>6. ~IsLink(t, Upto(p, m + 1)) /\ IsDir(t, Upto(p, m))
    BY <2>2, <2>5, Ancestors DEF Clear
  <2>7. Upto(p, m + 1) \in DOMAIN t
    <3>1. CASE m + 1 = Len(p)
      BY <3>1, UptoEnds
    <3>2. CASE m + 1 < Len(p)
      BY <3>2, Ancestors, DirsAreNoLinks
    <3> QED
      BY <1>1, <2>1, <3>1, <3>2
  <2>8. There(m)
    BY <1>4, <2>2
  <2>9. Entered(t, Ok(Upto(p, m)), p[m + 1]) = Ok(Append(Upto(p, m), p[m + 1]))
    BY <2>4, <2>6, <2>7, EnteredStraight
  <2> QED
    BY <2>3, <2>4, <2>8, <2>9
<1> HIDE DEF Good, There
<1>5. Nat \subseteq Good
  BY <1>3, <1>4, Naturals
<1>6. There(Len(p))
  BY <1>1, <1>5 DEF Good
<1> QED
  BY <1>2, <1>6, UptoEnds DEF There

\* Where list starts is there, inside, and no link.
LEMMA StartIsThere ==
  ASSUME NEW t, TreeOK(t), NEW path \in Seq(STRING) \ {<< >>}, IsOk(ListStart(t, path))
  PROVE  /\ ListStart(t, path) = Ok(ListStart(t, path).value)
         /\ ListStart(t, path).value \in DOMAIN t \cap Paths
         /\ ~IsLink(t, ListStart(t, path).value)
<1>1. IsDir(t, Root) /\ Root \in Paths /\ Root \in DOMAIN t
  BY EmptySeq DEF TreeOK, IsTree, IsDir, Exists, Root, Paths
<1>2. CASE path \in {<<"">>, <<".">>}
  <2>1. ListStart(t, path) = Ok(Root)
    BY <1>2 DEF ListStart
  <2> QED
    BY <1>1, <2>1, Results, DirsAreNoLinks
<1>3. CASE path \notin {<<"">>, <<".">>}
  <2> DEFINE names == Normalize(path).value
             real == Canonicalize(t, names)
  <2>1. ListStart(t, path) = Resolve(t, path)
    BY <1>3 DEF ListStart
  <2>2. IsOk(Normalize(path)) /\ names \in Seq(STRING)
    <3>1. IsOk(Normalize(path))
      BY <2>1 DEF Resolve
    <3> QED
      BY <3>1, NormalIsPath
  <2>3. /\ IsOk(real) /\ Inside(real.value) /\ ListStart(t, path) = real
    <3>1. Resolve(t, path) = IF ~IsOk(Normalize(path)) THEN Normalize(path)
                             ELSE IF IsOk(real) /\ ~Inside(real.value) THEN Failed("Escapes")
                             ELSE real
      BY DEF Resolve
    <3>2. ~IsOk(Failed("Escapes"))
      BY DEF IsOk, Failed
    <3> QED
      BY <2>1, <3>1, <3>2
  <2> HIDE DEF names
  <2>4. Len(names) \in Nat
    BY <2>2
  <2>5. PICK f \in [0..Len(names) -> Places(t)] :
          /\ f[0] = Ok(Root)
          /\ \A i \in 1..Len(names) : f[i] = Entered(t, f[i - 1], names[i])
          /\ real = f[Len(names)]
    BY <1>1, <2>4, Resolution
  <2> HIDE DEF real
  <2>6. real \in Places(t)
    BY <2>4, <2>5
  <2>7. real = Ok(real.value) /\ real.value \in DOMAIN t
    BY <2>3, <2>6, Results
  <2>8. ~IsLink(t, real.value)
    <3>1. CASE Len(names) = 0
      BY <1>1, <2>5, <3>1, Results, DirsAreNoLinks
    <3>2. CASE Len(names) # 0
      <4>1. Len(names) \in 1..Len(names) /\ Len(names) - 1 \in 0..Len(names)
        BY <2>4, <3>2
      <4>2. real = Entered(t, f[Len(names) - 1], names[Len(names)])
        BY <2>5, <4>1
      <4>3. f[Len(names) - 1] \in Places(t)
        BY <2>5, <4>1
      <4> QED
        BY <2>3, <4>2, <4>3, EnteredIsPlace
    <3> QED
      BY <3>1, <3>2
  <2>9. real.value # Outside
    <3>1. IsPrefix(Outside, Outside)
      BY DEF IsPrefix, Outside
    <3> QED
      BY <2>3, <3>1 DEF Inside
  <2> QED
    BY <2>3, <2>7, <2>8, <2>9 DEF TreeOK
<1> QED
  BY <1>2, <1>3

-----------------------------------------------------------------------------
(* The entries of a tree.                                                  *)

\* The bound is a number.
LEMMA DepthIsNat == MaxDepth \in Nat
BY SourceAssumption

\* What a tree knows of the path of an entry.
LEMMA EntryPath ==
  ASSUME NEW t, TreeOK(t), NEW q \in DOMAIN t
  PROVE  /\ q # Outside => q \in Paths /\ Inside(q) /\ Len(q) <= MaxDepth
         /\ q \notin {Root, Outside} =>
              /\ IsDir(t, Parent(q)) /\ Parent(q) \in DOMAIN t \cap Paths
              /\ Parent(q) # Outside
         /\ IsDir(t, q) => q # Outside
<1>1. t[Outside].kind = "file"
  BY DEF TreeOK, IsTree
<1>2. q # Outside => q \in Paths /\ Inside(q) /\ Len(q) <= MaxDepth
  BY PathsAreInside DEF TreeOK
<1>3. q \notin {Root, Outside} => IsDir(t, Parent(q)) /\ Parent(q) \in DOMAIN t
  BY DEF TreeOK, IsTree, IsDir, Exists
<1>4. q \notin {Root, Outside} => Parent(q) \in Paths /\ Parent(q) # Outside
  BY <1>2, ParentPath, PathsAreInside
<1> QED
  BY <1>1, <1>2, <1>3, <1>4 DEF IsDir

\* The root and the outside are there.
LEMMA Grounds ==
  ASSUME NEW t, TreeOK(t)
  PROVE  /\ Root \in DOMAIN t /\ IsDir(t, Root) /\ Root \in Paths
         /\ Outside \in DOMAIN t /\ t[Outside].kind = "file" /\ Outside # Root
BY EmptySeq, PathsAreInside DEF TreeOK, IsTree, IsDir, Exists, Root, Paths

\* A tree with a new entry.
WithNew(t, p, node) ==
  [q \in DOMAIN t \cup {p} |-> IF q \in DOMAIN t THEN t[q] ELSE node]

\* A tree grows in its directories.
LEMMA Grown ==
  ASSUME NEW t, TreeOK(t), NEW at, NEW name \in Segments, NEW node,
         IsDir(t, at), Len(at) < MaxDepth, ~Exists(t, Append(at, name))
  PROVE  TreeOK(WithNew(t, Append(at, name), node))
<1>1. at \in DOMAIN t /\ at \in Paths
  BY EntryPath DEF IsDir, Exists
<1> DEFINE p == Append(at, name)
           u == WithNew(t, p, node)
<1>2. p \in Paths /\ Len(p) = Len(at) + 1 /\ Parent(p) = at /\ Len(at) \in Nat
  BY <1>1, AppendPath DEF Paths
<1>3. p \notin DOMAIN t
  BY DEF Exists
<1>4. /\ DOMAIN u = DOMAIN t \cup {p}
      /\ \A q \in DOMAIN t : u[q] = t[q]
      /\ u[p] = node
  BY <1>3 DEF WithNew
<1> HIDE DEF p, u
<1>5. \A q \in DOMAIN t : IsDir(t, q) => IsDir(u, q)
  BY <1>4 DEF IsDir, Exists
<1>6. IsDir(u, Root) /\ Exists(u, Outside) /\ u[Outside].kind = "file"
  BY <1>4, <1>5, Grounds DEF Exists
<1>7. ASSUME NEW q \in DOMAIN u \ {Root, Outside} PROVE Inside(q) /\ IsDir(u, Parent(q))
  <2>1. CASE q = p
    BY <1>1, <1>2, <1>5, <2>1, PathsAreInside
  <2>2. CASE q \in DOMAIN t
    BY <1>5, <2>2, EntryPath
  <2> QED
    BY <1>4, <2>1, <2>2
<1>8. DOMAIN u \subseteq Paths \cup {Outside}
  BY <1>2, <1>4, EntryPath
<1>9. \A q \in DOMAIN u \ {Outside} : Len(q) <= MaxDepth
  <2>1. Len(p) <= MaxDepth
    BY <1>2, DepthIsNat
  <2> QED
    BY <1>4, <2>1, EntryPath
<1>10. TreeOK(u)
  BY <1>6, <1>7, <1>8, <1>9 DEF TreeOK, IsTree
<1> QED
  BY <1>10 DEF u, p

\* The files of a tree, and those under a start.
LEMMA FilesAreThere ==
  ASSUME NEW t, TreeOK(t)
  PROVE  /\ FilesOf(t) = {p \in DOMAIN t \cap Paths : ~IsDir(t, p)}
         /\ \A s : FilesUnder(t, s) = {p \in FilesOf(t) : IsPrefix(s, p)}
<1>1. ASSUME NEW p \in DOMAIN t
      PROVE  Inside(p) <=> p \in Paths
  <2>1. IsPrefix(Outside, Outside)
    BY DEF IsPrefix, Outside
  <2> QED
    BY <2>1, EntryPath, PathsAreInside DEF Inside
<1>2. ASSUME NEW p \in Paths PROVE IsPrefix(Root, p)
  <2>1. Root \in Paths /\ Len(Root) = 0 /\ Len(p) \in Nat
    BY EmptySeq DEF Paths, Root
  <2> QED
    BY <2>1, PrefixIsUpto, UptoEnds
<1>3. FilesOf(t) = {p \in DOMAIN t \cap Paths : ~IsDir(t, p)}
  BY <1>1, <1>2 DEF FilesOf, FilesUnder
<1>4. ASSUME NEW s PROVE FilesUnder(t, s) = {p \in FilesOf(t) : IsPrefix(s, p)}
  BY <1>1, <1>3 DEF FilesUnder
<1> QED
  BY <1>3, <1>4
=============================================================================
