---------------------------- MODULE SourceProofs ----------------------------
(***************************************************************************)
(* Theorems about SourceWalk and SourceUpload, for directories of any      *)
(* shape, any edits and any paths asked for: what a listing holds, what it *)
(* does not and when it fails; and, for archives of any order and          *)
(* spelling, that a directory and its archive answer alike, and that read  *)
(* reads what its path names.                                              *)
(***************************************************************************)
EXTENDS SourceWalk, SourceUpload, TreeProofs

-----------------------------------------------------------------------------
(* The edits.                                                              *)

\* What has its parent below p is itself below p, and the other way round.
LEMMA PrefixOfParent ==
  ASSUME NEW p \in Paths, NEW q \in Paths, q # Root
  PROVE  /\ IsPrefix(p, Parent(q)) => IsPrefix(p, q)
         /\ IsPrefix(p, q) /\ p # q => IsPrefix(p, Parent(q))
<1>1. /\ Len(q) \in Nat \ {0} /\ Len(p) \in Nat /\ Parent(q) = Upto(q, Len(q) - 1)
      /\ Parent(q) \in Paths /\ Len(Parent(q)) = Len(q) - 1
  BY ParentPath DEF Paths
<1>2. ASSUME Len(p) <= Len(q) - 1 PROVE Upto(Parent(q), Len(p)) = Upto(q, Len(p))
  <2>1. Len(q) - 1 \in 0..Len(q) /\ Len(p) \in 0..(Len(q) - 1)
    BY <1>1, <1>2
  <2> QED
    BY <1>1, <2>1, UptoUpto
<1>3. ASSUME IsPrefix(p, Parent(q)) PROVE IsPrefix(p, q)
  <2>1. Len(p) <= Len(q) - 1 /\ p = Upto(Parent(q), Len(p))
    BY <1>1, <1>3, PrefixIsUpto
  <2>2. Len(p) <= Len(q) /\ p = Upto(q, Len(p))
    BY <1>1, <1>2, <2>1
  <2> QED
    BY <2>2, PrefixIsUpto
<1>4. ASSUME IsPrefix(p, q), p # q PROVE IsPrefix(p, Parent(q))
  <2>1. Len(p) <= Len(q) /\ p = Upto(q, Len(p))
    BY <1>4, PrefixIsUpto
  <2>2. Len(p) # Len(q)
    BY <1>4, <2>1, UptoEnds
  <2>3. Len(p) <= Len(q) - 1
    BY <1>1, <2>1, <2>2
  <2> QED
    BY <1>1, <1>2, <2>1, <2>3, PrefixIsUpto
<1> QED
  BY <1>3, <1>4

\* r is q with `to` where p was.
Swapped(p, to, q, r) ==
  /\ r \in Paths /\ Len(r) = Len(to) + Len(q) - Len(p)
  /\ \A i \in 1..Len(r) : r[i] = IF i <= Len(to) THEN to[i] ELSE q[i - Len(to) + Len(p)]
  /\ IsPrefix(to, r)

\* What starts with p may start with `to` instead.
LEMMA RelocatedPath ==
  ASSUME NEW p \in Paths, NEW to \in Paths, NEW q \in Paths, IsPrefix(p, q)
  PROVE  Swapped(p, to, q, Relocated(p, to, q))
<1> DEFINE r == Relocated(p, to, q)
<1>1. Len(p) \in Nat /\ Len(to) \in Nat /\ Len(q) \in Nat /\ Len(p) <= Len(q)
  BY PrefixIsUpto DEF Paths
<1> DEFINE rest == SubSeq(q, Len(p) + 1, Len(q))
<1>2. /\ Len(p) + 1 \in Int /\ Len(q) \in Int
      /\ \A i \in (Len(p) + 1)..Len(q) : q[i] \in Segments
  BY <1>1 DEF Paths
<1>3. /\ rest \in Seq(Segments)
      /\ Len(rest) = IF Len(p) + 1 <= Len(q) THEN Len(q) - (Len(p) + 1) + 1 ELSE 0
      /\ \A i \in 1..(Len(q) - (Len(p) + 1) + 1) : rest[i] = q[Len(p) + 1 + i - 1]
  BY <1>2, SubSeqProperties
<1> HIDE DEF rest
<1>4. Len(rest) = Len(q) - Len(p) /\ \A i \in 1..Len(rest) : rest[i] = q[Len(p) + i]
  <2>1. Len(rest) = Len(q) - Len(p)
    BY <1>1, <1>3
  <2>2. ASSUME NEW i \in 1..Len(rest) PROVE rest[i] = q[Len(p) + i]
    <3>1. i \in 1..(Len(q) - (Len(p) + 1) + 1) /\ Len(p) + 1 + i - 1 = Len(p) + i
      BY <1>1, <2>1
    <3>2. rest[i] = q[Len(p) + 1 + i - 1]
      BY <1>3, <3>1
    <3> QED
      BY <3>1, <3>2
  <2> QED
    BY <2>1, <2>2
<1>5. r = to \o rest
  BY DEF rest, Relocated
<1> HIDE DEF r
<1>6. /\ r \in Paths /\ Len(r) = Len(to) + Len(rest)
      /\ \A i \in 1..(Len(to) + Len(rest)) :
           r[i] = IF i <= Len(to) THEN to[i] ELSE rest[i - Len(to)]
  <2>1. to \in Seq(Segments) /\ rest \in Seq(Segments)
    BY <1>3 DEF Paths
  <2>2. /\ to \o rest \in Seq(Segments) /\ Len(to \o rest) = Len(to) + Len(rest)
        /\ \A i \in 1..(Len(to) + Len(rest)) :
             (to \o rest)[i] = IF i <= Len(to) THEN to[i] ELSE rest[i - Len(to)]
    BY <2>1, ConcatProperties
  <2> QED
    BY <1>5, <2>2 DEF Paths
<1>7. Len(r) = Len(to) + Len(q) - Len(p)
  BY <1>1, <1>4, <1>6
<1>8. ASSUME NEW i \in 1..Len(r)
      PROVE  r[i] = IF i <= Len(to) THEN to[i] ELSE q[i - Len(to) + Len(p)]
  <2>1. CASE i <= Len(to)
    BY <1>6, <2>1
  <2>2. CASE ~(i <= Len(to))
    <3>1. i - Len(to) \in 1..Len(rest) /\ Len(p) + (i - Len(to)) = i - Len(to) + Len(p)
      BY <1>1, <1>4, <1>6, <2>2
    <3> QED
      BY <1>4, <1>6, <2>2, <3>1
  <2> QED
    BY <2>1, <2>2
<1>9. IsPrefix(to, r)
  <2>1. Len(to) \in 0..Len(r)
    BY <1>1, <1>7
  <2>2. Upto(r, Len(to)) \in Paths /\ Len(Upto(r, Len(to))) = Len(to)
    BY <1>6, <2>1, UptoProperties
  <2>3. ASSUME NEW i \in 1..Len(to) PROVE Upto(r, Len(to))[i] = to[i]
    <3>1. i \in 1..Len(r) /\ i <= Len(to)
      BY <1>1, <2>1
    <3> QED
      BY <1>6, <1>8, <2>1, <3>1, UptoProperties
  <2>4. to = Upto(r, Len(to))
    BY <2>2, <2>3, SamePath
  <2> QED
    BY <1>1, <1>6, <2>1, <2>4, PrefixIsUpto
<1> QED
  BY <1>6, <1>7, <1>8, <1>9 DEF r, Swapped

\* There and back leads to the same path, and parents go with their children.
LEMMA RelocatedBack ==
  ASSUME NEW p \in Paths, NEW to \in Paths, NEW q \in Paths, IsPrefix(p, q),
         NEW r, r = Relocated(p, to, q)
  PROVE  /\ Relocated(to, p, r) = q
         /\ q = p => r = to
         /\ q # p => r # Root /\ Parent(r) = Relocated(p, to, Parent(q))
<1>1. Len(p) \in Nat /\ Len(to) \in Nat /\ Len(q) \in Nat /\ Len(p) <= Len(q)
  BY PrefixIsUpto DEF Paths
<1>2. /\ r \in Paths /\ Len(r) = Len(to) + Len(q) - Len(p) /\ IsPrefix(to, r)
      /\ \A i \in 1..Len(r) : r[i] = IF i <= Len(to) THEN to[i] ELSE q[i - Len(to) + Len(p)]
  BY RelocatedPath DEF Swapped
<1>3. p = Upto(q, Len(p)) /\ \A i \in 1..Len(p) : p[i] = q[i]
  <2>1. p = Upto(q, Len(p)) /\ Len(p) \in 0..Len(q)
    BY <1>1, PrefixIsUpto
  <2> QED
    BY <2>1, UptoProperties
<1>4. Relocated(to, p, r) = q
  <2>1. PICK b : b = Relocated(to, p, r)
    OBVIOUS
  <2>2. /\ b \in Paths /\ Len(b) = Len(p) + Len(r) - Len(to)
        /\ \A i \in 1..Len(b) : b[i] = IF i <= Len(p) THEN p[i] ELSE r[i - Len(p) + Len(to)]
    <3>1. Swapped(to, p, r, b)
      BY <1>2, <2>1, RelocatedPath
    <3> QED
      BY <3>1 DEF Swapped
  <2>3. Len(b) = Len(q)
    BY <1>1, <1>2, <2>2
  <2>4. ASSUME NEW i \in 1..Len(b) PROVE b[i] = q[i]
    <3>1. CASE i <= Len(p)
      BY <1>1, <1>3, <2>2, <3>1
    <3>2. CASE ~(i <= Len(p))
      <4>1. i - Len(p) + Len(to) \in 1..Len(r) /\ ~(i - Len(p) + Len(to) <= Len(to))
        BY <1>1, <1>2, <2>3, <3>2
      <4>2. r[i - Len(p) + Len(to)] = q[(i - Len(p) + Len(to)) - Len(to) + Len(p)]
        BY <1>2, <4>1
      <4>3. (i - Len(p) + Len(to)) - Len(to) + Len(p) = i
        BY <1>1
      <4> QED
        BY <2>2, <3>2, <4>2, <4>3
    <3> QED
      BY <3>1, <3>2
  <2> QED
    BY <2>1, <2>2, <2>3, <2>4, SamePath
<1>5. ASSUME q = p PROVE r = to
  <2>1. Len(r) = Len(to)
    BY <1>1, <1>2, <1>5
  <2>2. \A i \in 1..Len(r) : r[i] = to[i]
    BY <1>1, <1>2, <2>1
  <2> QED
    BY <1>2, <2>1, <2>2, SamePath
<1>6. ASSUME q # p
      PROVE  /\ r # Root
             /\ Parent(r) = Relocated(p, to, Parent(q))
  <2>1. Len(p) # Len(q)
    BY <1>3, <1>6, UptoEnds
  <2>2. Len(q) \in Nat \ {0} /\ Len(r) \in Nat \ {0} /\ Len(p) <= Len(q) - 1
    BY <1>1, <1>2, <2>1
  <2>3. q # Root /\ r # Root
    BY <2>2 DEF Root
  <2>4. IsPrefix(p, Parent(q))
    BY <1>6, <2>3, PrefixOfParent
  <2>5. /\ Parent(q) \in Paths /\ Len(Parent(q)) = Len(q) - 1 /\ Parent(q) = Upto(q, Len(q) - 1)
        /\ Parent(r) \in Paths /\ Len(Parent(r)) = Len(r) - 1 /\ Parent(r) = Upto(r, Len(r) - 1)
    BY <1>2, <2>3, ParentPath
  <2>6. PICK s : s = Relocated(p, to, Parent(q))
    OBVIOUS
  <2>7. /\ s \in Paths /\ Len(s) = Len(to) + Len(Parent(q)) - Len(p)
        /\ \A i \in 1..Len(s) :
             s[i] = IF i <= Len(to) THEN to[i] ELSE Parent(q)[i - Len(to) + Len(p)]
    <3>1. Swapped(p, to, Parent(q), s)
      BY <2>4, <2>5, <2>6, RelocatedPath
    <3> QED
      BY <3>1 DEF Swapped
  <2>8. Len(s) = Len(r) - 1
    <3>1. /\ Len(r) = Len(to) + Len(q) - Len(p) /\ Len(Parent(q)) = Len(q) - 1
          /\ Len(s) = Len(to) + Len(Parent(q)) - Len(p)
      BY <1>2, <2>5, <2>7
    <3> QED
      BY <1>1, <3>1
  <2>9. ASSUME NEW i \in 1..Len(s) PROVE s[i] = Parent(r)[i]
    <3>1. Len(r) - 1 \in 0..Len(r) /\ Len(q) - 1 \in 0..Len(q) /\ i \in 1..(Len(r) - 1) /\ i \in 1..Len(r)
      BY <2>2, <2>8
    <3>2. Parent(r)[i] = r[i]
      BY <1>2, <2>5, <3>1, UptoProperties
    <3>3. CASE i <= Len(to)
      BY <1>2, <2>7, <3>1, <3>2, <3>3
    <3>4. CASE ~(i <= Len(to))
      <4>1. PICK j : j = i - Len(to) + Len(p)
        OBVIOUS
      <4>2. j \in 1..(Len(q) - 1)
        BY <1>1, <1>2, <3>1, <3>4, <4>1
      <4>3. Upto(q, Len(q) - 1)[j] = q[j]
        BY <3>1, <4>2, UptoProperties
      <4>4. Parent(q)[j] = q[j]
        BY <2>5, <4>3
      <4> QED
        BY <1>2, <2>7, <3>1, <3>2, <3>4, <4>1, <4>4
    <3> QED
      BY <3>3, <3>4
  <2> QED
    BY <2>3, <2>5, <2>6, <2>7, <2>8, <2>9, SamePath
<1> QED
  BY <1>4, <1>5, <1>6

\* An edit leaves a tree, and makes links only where nothing was.
Edited(t, u) == TreeOK(u) /\ \A q : IsLink(u, q) => IsLink(t, q) \/ q \notin DOMAIN t

\* A new entry in a directory.
LEMMA CreateEdits ==
  ASSUME TreeOK(tree), NEW at, NEW name \in Segments, NEW node,
         IsDir(tree, at), Len(at) < MaxDepth, ~Exists(tree, Append(at, name))
  PROVE  Edited(tree, WithNew(tree, Append(at, name), node))
<1>1. PICK p : p = Append(at, name)
  OBVIOUS
<1>2. PICK u : u = WithNew(tree, p, node)
  OBVIOUS
<1>3. TreeOK(u)
  BY <1>1, <1>2, Grown
<1>4. DOMAIN u = DOMAIN tree \cup {p} /\ \A q \in DOMAIN tree : u[q] = tree[q]
  BY <1>2 DEF WithNew
<1>5. \A q : IsLink(u, q) => IsLink(tree, q) \/ q \notin DOMAIN tree
  BY <1>4 DEF IsLink, Exists
<1>6. Edited(tree, u)
  BY <1>3, <1>5 DEF Edited
<1> QED
  BY <1>1, <1>2, <1>6

\* An entry that is neither the root nor the outside is no prefix of either.
LEMMA NoPrefixOfGrounds ==
  ASSUME NEW p \in Paths, p # Root
  PROVE  ~IsPrefix(p, Root) /\ ~IsPrefix(p, Outside)
<1>1. Len(p) \in Nat \ {0} /\ Len(Root) = 0 /\ Root \in Paths
  BY EmptySeq DEF Paths, Root
<1>2. ~IsPrefix(p, Root)
  BY <1>1, PrefixIsUpto
<1>3. ASSUME IsPrefix(p, Outside) PROVE FALSE
  <2>1. Len(p) <= 1 /\ SubSeq(p, 1, Len(p)) = SubSeq(Outside, 1, Len(p))
    BY <1>3 DEF IsPrefix, Outside
  <2>2. Len(p) = 1
    <3>1. PICK n : n = Len(p)
      OBVIOUS
    <3>2. n \in Nat \ {0} /\ n <= 1
      BY <1>1, <2>1, <3>1
    <3> QED
      BY <3>1, <3>2
  <2>3. SubSeq(Outside, 1, 1) = Outside
    <3>1. ".." \in {".."}
      OBVIOUS
    <3>2. Outside \in Seq({".."}) /\ Len(Outside) = 1
      BY <3>1 DEF Outside
    <3> QED
      BY <3>2, SubSeqFull
  <2>4. p = Outside
    BY <2>1, <2>2, <2>3, UptoEnds DEF Upto
  <2> QED
    BY <2>4, PathsAreInside
<1> QED
  BY <1>2, <1>3

\* The tree without p and all below it.
LeftWithout(p) == [q \in {q \in DOMAIN tree : ~IsPrefix(p, q)} |-> tree[q]]

\* An entry goes, and all below it.
LEMMA UnlinkEdits ==
  ASSUME TreeOK(tree), NEW p \in DOMAIN tree, p \notin {Root, Outside}
  PROVE  Edited(tree, LeftWithout(p))
<1> DEFINE u == LeftWithout(p)
<1>1. p \in Paths
  BY EntryPath
<1>2. /\ DOMAIN u = {q \in DOMAIN tree : ~IsPrefix(p, q)}
      /\ \A q \in DOMAIN u : u[q] = tree[q]
  BY DEF LeftWithout
<1> HIDE DEF u
<1>3. /\ \A q \in DOMAIN u : IsDir(tree, q) => IsDir(u, q)
      /\ \A q : IsLink(u, q) => IsLink(tree, q)
  BY <1>2 DEF IsDir, IsLink, Exists
<1>4. Root \in DOMAIN u /\ Outside \in DOMAIN u
  BY <1>1, <1>2, Grounds, NoPrefixOfGrounds
<1>5. IsDir(u, Root) /\ Exists(u, Outside) /\ u[Outside].kind = "file"
  BY <1>2, <1>3, <1>4, Grounds DEF Exists
<1>6. ASSUME NEW q \in DOMAIN u \ {Root, Outside} PROVE Inside(q) /\ IsDir(u, Parent(q))
  <2>1. q \in DOMAIN tree /\ q \in Paths /\ Inside(q) /\ ~IsPrefix(p, q)
    BY <1>2, EntryPath
  <2>2. ~IsPrefix(p, Parent(q))
    BY <1>1, <2>1, PrefixOfParent
  <2>3. IsDir(tree, Parent(q)) /\ Parent(q) \in DOMAIN tree
    BY <2>1, EntryPath
  <2> QED
    BY <1>2, <1>3, <2>1, <2>2, <2>3
<1>7. DOMAIN u \subseteq Paths \cup {Outside} /\ \A q \in DOMAIN u \ {Outside} : Len(q) <= MaxDepth
  BY <1>2, EntryPath
<1> QED
  BY <1>3, <1>5, <1>6, <1>7 DEF Edited, TreeOK, IsTree, u

\* Nothing is below what is not there.
LEMMA NothingBelow ==
  ASSUME NEW t, TreeOK(t), NEW p \in Paths, p \notin DOMAIN t, p # Root, NEW q \in DOMAIN t
  PROVE  ~IsPrefix(p, q)
<1>1. CASE q = Outside
  BY <1>1, NoPrefixOfGrounds
<1>2. CASE q # Outside
  <2>1. SUFFICES ASSUME IsPrefix(p, q) PROVE FALSE
    OBVIOUS
  <2>2. q \in Paths /\ Len(p) <= Len(q) /\ p = Upto(q, Len(p)) /\ Len(p) \in Nat /\ Len(q) \in Nat
    BY <1>2, <2>1, EntryPath, PrefixIsUpto DEF Paths
  <2>3. Len(p) # Len(q)
    BY <2>2, UptoEnds
  <2>4. IsDir(t, Upto(q, Len(p)))
    BY <2>2, <2>3, Ancestors
  <2> QED
    BY <2>2, <2>4, DirsAreNoLinks
<1> QED
  BY <1>1, <1>2

\* What is at p and below it, where it is once p is at `to`, and the tree then.
Moving(p) == {q \in DOMAIN tree : IsPrefix(p, q)}
Landing(p, to) == {Relocated(p, to, q) : q \in Moving(p)}
WithMoved(p, to) ==
  [q \in (DOMAIN tree \ Moving(p)) \cup Landing(p, to) |->
     tree[IF IsPrefix(to, q) THEN Relocated(to, p, q) ELSE q]]

\* An entry is renamed, with all below it.
LEMMA MoveEdits ==
  ASSUME TreeOK(tree), NEW p \in DOMAIN tree, NEW at \in DOMAIN tree,
         p \notin {Root, Outside}, IsDir(tree, at), ~IsPrefix(p, at),
         ~Exists(tree, Append(at, Last(p))),
         \A q \in Moving(p) : ~IsLink(tree, q),
         \A q \in Landing(p, Append(at, Last(p))) : Len(q) <= MaxDepth
  PROVE  Edited(tree, WithMoved(p, Append(at, Last(p))))
<1> DEFINE to == Append(at, Last(p))
           moved == Moving(p)
           landed == Landing(p, to)
           u == WithMoved(p, to)
<1>1. p \in Paths /\ at \in Paths /\ Last(p) \in Segments
  BY EntryPath, ParentPath
<1>2. to \in Paths /\ Len(to) = Len(at) + 1 /\ Parent(to) = at /\ Len(at) \in Nat
  BY <1>1, AppendPath DEF Paths
<1>3. to \notin DOMAIN tree /\ to # Root
  <2>1. to \notin DOMAIN tree
    BY DEF Exists
  <2>2. to # Root
    <3>1. to = Root => Len(to) = 0
      BY DEF Root
    <3> HIDE DEF to
    <3> QED
      BY <1>2, <3>1
  <2> QED
    BY <2>1, <2>2
<1>4. /\ moved = {q \in DOMAIN tree : IsPrefix(p, q)}
      /\ landed = {Relocated(p, to, q) : q \in moved}
      /\ DOMAIN u = (DOMAIN tree \ moved) \cup landed
      /\ \A q \in DOMAIN u : u[q] = tree[IF IsPrefix(to, q) THEN Relocated(to, p, q) ELSE q]
      /\ \A q \in moved : ~IsLink(tree, q)
      /\ \A q \in landed : Len(q) <= MaxDepth
  BY DEF Moving, Landing, WithMoved
<1> HIDE DEF to, moved, landed, u
<1>5. ASSUME NEW q \in DOMAIN tree \ moved PROVE u[q] = tree[q] /\ q \in DOMAIN u
  <2>1. ~IsPrefix(to, q)
    BY <1>2, <1>3, NothingBelow
  <2> QED
    BY <1>4, <2>1
<1>6. ASSUME NEW q \in moved
      PROVE  /\ q \in Paths /\ IsPrefix(p, q)
             /\ Relocated(p, to, q) \in DOMAIN u \cap Paths
             /\ u[Relocated(p, to, q)] = tree[q]
  <2>1. IsPrefix(p, q) /\ q \in DOMAIN tree
    BY <1>4
  <2>2. q # Outside
    BY <1>1, <2>1, NoPrefixOfGrounds
  <2>3. q \in Paths
    BY <2>1, <2>2, EntryPath
  <2>4. Relocated(p, to, q) \in Paths /\ IsPrefix(to, Relocated(p, to, q))
    BY <1>1, <1>2, <2>1, <2>3, RelocatedPath DEF Swapped
  <2>5. Relocated(to, p, Relocated(p, to, q)) = q
    BY <1>1, <1>2, <2>1, <2>3, RelocatedBack
  <2>6. Relocated(p, to, q) \in DOMAIN u
    BY <1>4
  <2>7. u[Relocated(p, to, q)] = tree[q]
    BY <1>4, <2>4, <2>5, <2>6
  <2> QED
    BY <2>1, <2>3, <2>4, <2>6, <2>7
<1>7. \A r \in DOMAIN u : r \in DOMAIN tree \ moved \/ \E q \in moved : r = Relocated(p, to, q)
  BY <1>4
<1>8. /\ \A q \in DOMAIN tree \ moved : IsDir(tree, q) => IsDir(u, q)
      /\ \A q \in moved : IsDir(tree, q) => IsDir(u, Relocated(p, to, q))
      /\ \A q \in DOMAIN tree \ moved : IsLink(u, q) => IsLink(tree, q)
      /\ \A q \in moved : ~IsLink(u, Relocated(p, to, q))
  <2>1. ASSUME NEW q \in DOMAIN tree \ moved
        PROVE  (IsDir(tree, q) => IsDir(u, q)) /\ (IsLink(u, q) => IsLink(tree, q))
    BY <1>5 DEF IsDir, IsLink, Exists
  <2>2. ASSUME NEW q \in moved
        PROVE  /\ IsDir(tree, q) => IsDir(u, Relocated(p, to, q))
               /\ ~IsLink(u, Relocated(p, to, q))
    <3>1. PICK r : r = Relocated(p, to, q)
      OBVIOUS
    <3>2. r \in DOMAIN u /\ u[r] = tree[q] /\ q \in DOMAIN tree /\ ~IsLink(tree, q)
      BY <1>4, <1>6, <3>1
    <3> QED
      BY <3>1, <3>2 DEF IsDir, IsLink, Exists
  <2> QED
    BY <2>1, <2>2
<1>9. ASSUME NEW q, IsLink(u, q) PROVE IsLink(tree, q)
  <2>1. q \in DOMAIN u
    BY <1>9 DEF IsLink, Exists
  <2> QED
    BY <1>7, <1>8, <1>9, <2>1
<1>10. Root \in DOMAIN tree \ moved /\ Outside \in DOMAIN tree \ moved /\ at \in DOMAIN tree \ moved
  BY <1>1, <1>4, Grounds, NoPrefixOfGrounds
<1>11. IsDir(u, Root) /\ Exists(u, Outside) /\ u[Outside].kind = "file"
  BY <1>5, <1>8, <1>10, Grounds DEF Exists
<1>12. ASSUME NEW r \in DOMAIN u \ {Root, Outside} PROVE Inside(r) /\ IsDir(u, Parent(r))
  <2>1. CASE r \in DOMAIN tree \ moved
    <3>1. r \in Paths /\ Inside(r) /\ Parent(r) \in DOMAIN tree /\ IsDir(tree, Parent(r))
      BY <2>1, EntryPath
    <3>2. Parent(r) \notin moved
      BY <1>1, <1>4, <2>1, <3>1, PrefixOfParent
    <3> QED
      BY <1>8, <3>1, <3>2
  <2>2. ASSUME NEW q \in moved, r = Relocated(p, to, q) PROVE Inside(r) /\ IsDir(u, Parent(r))
    <3>1. q \in Paths /\ q \in DOMAIN tree /\ IsPrefix(p, q) /\ r \in Paths
      BY <1>4, <1>6, <2>2
    <3>2. Inside(r)
      BY <3>1, PathsAreInside
    <3>3. CASE q = p
      <4>1. Relocated(p, to, q) = to
        BY <1>1, <1>2, <3>1, <3>3, RelocatedBack
      <4>2. r = to
        BY <2>2, <4>1
      <4> QED
        BY <1>2, <1>8, <1>10, <3>2, <4>2
    <3>4. CASE q # p
      <4>1. Parent(r) = Relocated(p, to, Parent(q))
        BY <1>1, <1>2, <2>2, <3>1, <3>4, RelocatedBack
      <4>2. q # Root /\ q # Outside
        BY <1>1, <3>1, NoPrefixOfGrounds, PathsAreInside
      <4>3. IsDir(tree, Parent(q)) /\ Parent(q) \in DOMAIN tree /\ IsPrefix(p, Parent(q))
        BY <1>1, <3>1, <3>4, <4>2, EntryPath, PrefixOfParent
      <4>4. Parent(q) \in moved
        BY <1>4, <4>3
      <4> QED
        BY <1>8, <3>2, <4>1, <4>3, <4>4
    <3> QED
      BY <3>3, <3>4
  <2> QED
    BY <1>7, <2>1, <2>2
<1>13. ASSUME NEW r \in DOMAIN u PROVE r \in Paths \cup {Outside}
  <2>1. CASE r \in DOMAIN tree \ moved
    BY <2>1, EntryPath
  <2>2. CASE \E q \in moved : r = Relocated(p, to, q)
    BY <1>6, <2>2
  <2> QED
    BY <1>7, <2>1, <2>2
<1>14. \A q \in DOMAIN u \ {Outside} : Len(q) <= MaxDepth
  BY <1>4, EntryPath
<1> QED
  BY <1>9, <1>11, <1>12, <1>13, <1>14 DEF Edited, TreeOK, IsTree, u, to

\* The tree with the file of p at `over`.
WithReplaced(p, over) ==
  [q \in DOMAIN tree \ {p} |-> IF q = over THEN tree[p] ELSE tree[q]]

\* A file is renamed over a file or a link.
LEMMA ReplaceEdits ==
  ASSUME TreeOK(tree), NEW p \in DOMAIN tree, NEW over \in DOMAIN tree,
         p \notin {over, Outside}, over # Outside,
         tree[p].kind = "file", tree[over].kind # "dir"
  PROVE  Edited(tree, WithReplaced(p, over))
<1>1. PICK u : u = WithReplaced(p, over)
  OBVIOUS
<1>2. /\ DOMAIN u = DOMAIN tree \ {p} /\ over \in DOMAIN u /\ u[over] = tree[p]
      /\ \A q \in DOMAIN u : q # over => u[q] = tree[q]
  BY <1>1 DEF WithReplaced
<1>3. ASSUME NEW q, IsDir(tree, q) PROVE q \in DOMAIN u /\ IsDir(u, q)
  <2>1. q \in DOMAIN tree /\ q # p /\ q # over
    BY <1>3 DEF IsDir, Exists
  <2> QED
    BY <1>2, <1>3, <2>1 DEF IsDir, Exists
<1>4. IsDir(u, Root) /\ Exists(u, Outside) /\ u[Outside].kind = "file"
  BY <1>2, <1>3, Grounds DEF Exists
<1>5. ASSUME NEW q \in DOMAIN u \ {Root, Outside} PROVE Inside(q) /\ IsDir(u, Parent(q))
  BY <1>2, <1>3, EntryPath
<1>6. DOMAIN u \subseteq Paths \cup {Outside} /\ \A q \in DOMAIN u \ {Outside} : Len(q) <= MaxDepth
  BY <1>2, EntryPath
<1>7. ASSUME NEW q, IsLink(u, q) PROVE IsLink(tree, q)
  <2>1. q \in DOMAIN u /\ u[q].kind = "link"
    BY <1>7 DEF IsLink, Exists
  <2>2. q # over
    BY <1>2, <2>1
  <2> QED
    BY <1>2, <2>1, <2>2 DEF IsLink, Exists
<1>8. Edited(tree, u)
  BY <1>4, <1>5, <1>6, <1>7 DEF Edited, TreeOK, IsTree
<1> QED
  BY <1>1, <1>8

\* Every edit is one.
LEMMA EditEdits ==
  ASSUME TreeOK(tree), Edit
  PROVE  /\ Edited(tree, tree')
         /\ step # "done" /\ edits' = edits + 1
         /\ always' = always \cap FilesOf(tree') /\ ever' = ever \cup FilesOf(tree')
         /\ made' = made \cup (LinksOf(tree') \ LinksOf(tree))
         /\ UNCHANGED <<prefix, step, start, stack, out, answer, fault>>
<1>1. ASSUME NEW at \in DOMAIN tree, NEW name \in Segments, NEW node,
             Create(at, name, node)
      PROVE  Edited(tree, tree')
  <2>1. tree' = WithNew(tree, Append(at, name), node)
    BY <1>1 DEF Create, Becomes, WithNew
  <2>2. IsDir(tree, at) /\ Len(at) < MaxDepth /\ ~Exists(tree, Append(at, name))
    BY <1>1 DEF Create
  <2> QED
    BY <2>1, <2>2, CreateEdits
<1>2. ASSUME NEW p \in DOMAIN tree, Unlink(p) PROVE Edited(tree, tree')
  <2>1. tree' = LeftWithout(p) /\ p \notin {Root, Outside}
    BY <1>2 DEF Unlink, Becomes, LeftWithout
  <2> QED
    BY <2>1, UnlinkEdits
<1>3. ASSUME NEW p \in DOMAIN tree, NEW at \in DOMAIN tree, Move(p, at) PROVE Edited(tree, tree')
  <2>1. tree' = WithMoved(p, Append(at, Last(p)))
    BY <1>3 DEF Move, Becomes, WithMoved, Moving, Landing
  <2>2. /\ p \notin {Root, Outside} /\ IsDir(tree, at) /\ ~IsPrefix(p, at)
        /\ ~Exists(tree, Append(at, Last(p)))
        /\ \A q \in Moving(p) : ~IsLink(tree, q)
        /\ \A q \in Landing(p, Append(at, Last(p))) : Len(q) <= MaxDepth
    BY <1>3 DEF Move, Moving, Landing
  <2> QED
    BY <2>1, <2>2, MoveEdits
<1>4. ASSUME NEW p \in DOMAIN tree, NEW over \in DOMAIN tree, Replace(p, over)
      PROVE  Edited(tree, tree')
  <2>1. tree' = WithReplaced(p, over)
    BY <1>4 DEF Replace, Becomes, WithReplaced
  <2>2. /\ p \notin {over, Outside} /\ over # Outside
        /\ tree[p].kind = "file" /\ tree[over].kind # "dir"
    BY <1>4 DEF Replace
  <2> QED
    BY <2>1, <2>2, ReplaceEdits
<1>5. Edited(tree, tree')
  BY <1>1, <1>2, <1>3, <1>4 DEF Edit
<1>6. \E t : Becomes(t)
  BY DEF Edit, Create, Unlink, Move, Replace
<1> QED
  BY <1>5, <1>6 DEF Becomes, walker, Edit

-----------------------------------------------------------------------------
(* The inductive invariant.                                                *)

\* A directory being walked: its path and the names left, NULL until it is read.
Frames == [dir : Paths, names : {NULL} \cup SUBSET Segments]

\* The walk is to come to p through f.
LeadsTo(f, p) ==
  IsStrictPrefix(f.dir, p) /\ (f.names = NULL \/ p[Len(f.dir) + 1] \in f.names)

\* What is there, and what the histories know of it.
Shape ==
  /\ TreeOK(tree) /\ prefix \in AskedFor /\ edits \in Nat /\ stack \in Seq(Frames)
  /\ always \subseteq FilesOf(tree) /\ FilesOf(tree) \subseteq ever
  /\ edits = 0 => always = FilesOf(tree) /\ ever = FilesOf(tree) /\ made = {}
  /\ made \subseteq Paths
  /\ answer # NULL => step = "done"

\* A link was made on the way to d, or at d, or none is there.
Diverted(d) == \E m \in made : IsPrefix(m, d)
Straight(d) == Clear(tree, d) \/ Diverted(d)

\* Where the walk started, and where it is: the only links on the way there
\* are those that were made since.
Begun ==
  /\ step = "resolve" => start = NULL
  /\ step \in {"resolve", "start"} => out = {}
  /\ step = "start" => (start \in always => ~IsLink(tree, start))
  /\ step \in {"start", "walk"} => start \in Paths /\ Straight(start)
  /\ step = "walk" =>
       \A f \in ToSet(stack) : IsPrefix(start, f.dir) /\ Straight(f.dir)

\* What may be listed: what was there, and what is below a link made since.
Listable(p) == IsPrefix(start, p) /\ (p \in ever \/ \E m \in made : IsStrictPrefix(m, p))

\* What is listed was there, and what stayed is listed or still to come.
Progress ==
  step = "walk" =>
    /\ \A p \in out : Listable(p)
    /\ \A p \in always : IsPrefix(start, p) =>
         p \in out \/ \E f \in ToSet(stack) : LeadsTo(f, p)

\* While nobody has edited anything, all of it is still there.
Quiet ==
  edits = 0 =>
    /\ step \in {"start", "walk"} => ListStart(tree, prefix) = Ok(start)
    /\ step = "walk" =>
         \A f \in ToSet(stack) :
           /\ IsDir(tree, f.dir)
           /\ f.names # NULL => \A name \in f.names : Exists(tree, Append(f.dir, name))

\* The call is over.
Over == step = "done" => ListsWhatStayed /\ ListsWhatWas /\ FailsOnlyWhenEdited

WalkInv == Shape /\ Begun /\ Progress /\ Quiet /\ Over

-----------------------------------------------------------------------------
(* What the walker reads.                                                  *)

\* On the way from a directory to what is below it there is another one, or
\* what one came for.
LEMMA WayDown ==
  ASSUME NEW t, TreeOK(t), NEW q \in DOMAIN t \cap Paths, NEW d \in Paths,
         IsStrictPrefix(d, q)
  PROVE  /\ q[Len(d) + 1] \in Segments /\ IsDir(t, d)
         /\ Append(d, q[Len(d) + 1]) \in DOMAIN t
         /\ \/ Append(d, q[Len(d) + 1]) = q
            \/ IsStrictPrefix(Append(d, q[Len(d) + 1]), q) /\ IsDir(t, Append(d, q[Len(d) + 1]))
<1>1. /\ Len(d) \in Nat /\ Len(q) \in Nat
      /\ Len(d) <= Len(q) /\ d = Upto(q, Len(d)) /\ d # q
  BY PrefixIsUpto DEF IsStrictPrefix, Paths
<1>2. Len(d) < Len(q)
  <2>1. Len(d) # Len(q)
    BY <1>1, UptoEnds
  <2> QED
    BY <1>1, <2>1
<1>3. PICK k : k = Len(d)
  OBVIOUS
<1>4. k \in Nat /\ k < Len(q)
  BY <1>1, <1>2, <1>3
<1>5. Append(Upto(q, k), q[k + 1]) = Upto(q, k + 1) /\ q[k + 1] \in Segments /\ k + 1 \in 0..Len(q)
  BY <1>4, UptoNext
<1>6. PICK c : c = Append(d, q[k + 1])
  OBVIOUS
<1>7. c = Upto(q, k + 1) /\ c \in Paths /\ Len(c) = k + 1
  <2>1. c = Upto(q, k + 1)
    BY <1>1, <1>3, <1>5, <1>6
  <2>2. Upto(q, k + 1) \in Paths /\ Len(Upto(q, k + 1)) = k + 1
    BY <1>5, UptoProperties
  <2> QED
    BY <2>1, <2>2
<1>8. IsDir(t, d)
  BY <1>1, <1>2, Ancestors
<1>9. CASE k + 1 = Len(q)
  <2>1. c = q
    BY <1>7, <1>9, UptoEnds
  <2> QED
    BY <1>3, <1>5, <1>6, <1>8, <2>1
<1>10. CASE k + 1 # Len(q)
  <2>1. k + 1 \in Nat /\ k + 1 < Len(q) /\ k + 1 <= Len(q)
    BY <1>1, <1>4, <1>10
  <2>2. IsDir(t, c) /\ c \in DOMAIN t
    BY <1>7, <2>1, Ancestors, DirsAreNoLinks
  <2>3. IsStrictPrefix(c, q)
    <3>1. c # q
      BY <1>7, <1>10
    <3>2. IsPrefix(c, q)
      BY <1>7, <2>1, PrefixIsUpto
    <3> QED
      BY <3>1, <3>2 DEF IsStrictPrefix
  <2> QED
    BY <1>3, <1>5, <1>6, <1>8, <2>2, <2>3
<1> QED
  BY <1>9, <1>10

\* A name that is no link leads no way that has one.
LEMMA ClearSteps ==
  ASSUME NEW t, NEW d \in Paths, NEW name \in Segments, Clear(t, d), ~IsLink(t, Append(d, name))
  PROVE  Clear(t, Append(d, name))
<1>1. SUFFICES ASSUME NEW k \in 0..Len(Append(d, name))
               PROVE  ~IsLink(t, Upto(Append(d, name), k))
  BY DEF Clear
<1>2. PICK c : c = Append(d, name)
  OBVIOUS
<1>3. /\ c \in Paths /\ Len(c) = Len(d) + 1 /\ Len(d) \in Nat
      /\ \A j \in 0..Len(d) : Upto(c, j) = Upto(d, j)
  BY <1>2, AppendPath DEF Paths
<1>4. CASE k = Len(c)
  BY <1>2, <1>3, <1>4, UptoEnds
<1>5. CASE k # Len(c)
  <2>1. k \in 0..Len(d)
    BY <1>2, <1>3, <1>5
  <2> QED
    BY <1>2, <1>3, <2>1 DEF Clear
<1> QED
  BY <1>4, <1>5

\* A way that was straight stays so: a link that an edit puts there was made.
LEMMA StraightStays ==
  ASSUME NEW p \in Paths, Straight(p), made' = made \cup (LinksOf(tree') \ LinksOf(tree))
  PROVE  Straight(p)'
<1>1. CASE Diverted(p)
  BY <1>1 DEF Straight, Diverted
<1>2. CASE Clear(tree, p) /\ ~Clear(tree', p)
  <2>1. PICK k \in 0..Len(p) : IsLink(tree', Upto(p, k)) /\ ~IsLink(tree, Upto(p, k))
    BY <1>2 DEF Clear
  <2>2. Upto(p, k) \in made'
    BY <2>1 DEF LinksOf, IsLink, Exists
  <2>3. IsPrefix(Upto(p, k), p)
    <3>1. Len(p) \in Nat
      BY DEF Paths
    <3>2. Upto(p, k) \in Paths /\ Len(Upto(p, k)) = k /\ k <= Len(p)
      BY <3>1, UptoProperties
    <3> QED
      BY <3>2, PrefixIsUpto
  <2> QED
    BY <2>2, <2>3 DEF Straight, Diverted
<1>3. CASE Clear(tree', p)
  BY <1>3 DEF Straight
<1> QED
  BY <1>1, <1>2, <1>3 DEF Straight

\* read_dir answers names, and those in the directory where it is one.
LEMMA OpenedIsThere ==
  ASSUME TreeOK(tree), NEW d \in Paths
  PROVE  /\ IsOk(Opened(d)) => Opened(d).value \subseteq Segments
         /\ ~IsOk(Opened(d)) => Opened(d) = Failed("Io")
         /\ IsDir(tree, d) =>
              /\ IsOk(Opened(d))
              /\ \A name \in Segments :
                   name \in Opened(d).value <=> Append(d, name) \in DOMAIN tree
<1> DEFINE real == Canonicalize(tree, d)
           names(e) == {Last(q) : q \in {q \in DOMAIN tree \ {Root, Outside} : Parent(q) = e}}
<1>1. Opened(d) = IF Len(d) > MaxDepth \/ ~IsOk(real) \/ ~IsDir(tree, real.value)
                  THEN Failed("Io") ELSE Ok(names(real.value))
  BY DEF Opened
<1>3. ASSUME NEW q \in DOMAIN tree \ {Root, Outside}
      PROVE  q \in Paths /\ Last(q) \in Segments /\ q = Append(Parent(q), Last(q))
  BY EntryPath, ParentPath
<1>4. \A e : names(e) \subseteq Segments
  BY <1>3
<1>5. ASSUME NEW name \in Segments PROVE name \in names(d) <=> Append(d, name) \in DOMAIN tree
  <2>1. PICK c : c = Append(d, name)
    OBVIOUS
  <2>2. c \in Paths /\ Parent(c) = d /\ Last(c) = name /\ Len(c) = Len(d) + 1 /\ Len(d) \in Nat
    BY <2>1, AppendPath DEF Paths
  <2>3. c # Root /\ c # Outside
    <3>1. Len(Root) = 0
      BY DEF Root
    <3> QED
      BY <2>2, <3>1, PathsAreInside
  <2>4. c \in DOMAIN tree => name \in names(d)
    BY <2>2, <2>3
  <2>5. ASSUME name \in names(d) PROVE c \in DOMAIN tree
    <3>1. PICK q \in DOMAIN tree \ {Root, Outside} : Parent(q) = d /\ name = Last(q)
      BY <2>5
    <3> QED
      BY <1>3, <2>1, <3>1
  <2> QED
    BY <2>1, <2>4, <2>5
<1> HIDE DEF names, real
<1>6. IsOk(Opened(d)) => Opened(d).value = names(real.value)
  BY <1>1, Results
<1>7. ~IsOk(Opened(d)) => Opened(d) = Failed("Io")
  BY <1>1, Results
<1>8. IsDir(tree, d) => IsOk(Opened(d)) /\ Opened(d).value = names(d)
  <2>1. SUFFICES ASSUME IsDir(tree, d) PROVE IsOk(Opened(d)) /\ Opened(d).value = names(d)
    OBVIOUS
  <2>2. d \in DOMAIN tree /\ ~IsLink(tree, d)
    BY <2>1, DirsAreNoLinks
  <2>3. real = Ok(d)
    BY <2>2, WayIsThere DEF real
  <2>4. Len(d) \in Nat /\ MaxDepth \in Nat /\ Len(d) <= MaxDepth
    BY <2>2, EntryPath, PathsAreInside, DepthIsNat DEF Paths
  <2> QED
    BY <1>1, <2>1, <2>3, <2>4, Results
<1> QED
  BY <1>4, <1>5, <1>6, <1>7, <1>8

\* symlink_metadata answers what is at the path itself, unless a link is on
\* the way.
LEMMA MetaIsThere ==
  ASSUME TreeOK(tree), NEW d \in Paths, Clear(tree, d) \/ IsDir(tree, d), NEW name \in Segments
  PROVE  /\ IsOk(Meta(Append(d, name))) =>
              /\ Append(d, name) \in DOMAIN tree
              /\ Meta(Append(d, name)).value = tree[Append(d, name)].kind
         /\ IsDir(tree, d) /\ Append(d, name) \in DOMAIN tree => IsOk(Meta(Append(d, name)))
<1>1. PICK c : c = Append(d, name)
  OBVIOUS
<1>2. Parent(c) = d /\ Last(c) = name
  BY <1>1, AppendPath
<1> DEFINE at == Canonicalize(tree, d)
<1>3. Meta(c) = IF IsOk(at) /\ Exists(tree, Append(at.value, name))
                THEN Ok(tree[Append(at.value, name)].kind) ELSE Failed("Io")
  BY <1>2 DEF Meta
<1>4. IsDir(tree, d) => at = Ok(d)
  BY DirsAreNoLinks, WayIsThere
<1>5. IsOk(at) => at = Ok(d)
  BY <1>4, StraightWay
<1> HIDE DEF at
<1>6. IsOk(Meta(c)) => c \in DOMAIN tree /\ Meta(c).value = tree[c].kind
  BY <1>1, <1>3, <1>5, Results DEF Exists
<1>7. IsDir(tree, d) /\ c \in DOMAIN tree => IsOk(Meta(c))
  BY <1>1, <1>3, <1>4, Results DEF Exists
<1> QED
  BY <1>1, <1>6, <1>7

-----------------------------------------------------------------------------
(* The stack.                                                              *)

\* A stack whose innermost directory has other names left.
Narrowed(s, names) == [s EXCEPT ![Len(s)].names = names]

\* Only the innermost directory changes.
LEMMA NarrowedStack ==
  ASSUME NEW s \in Seq(Frames), s # << >>, NEW names \in {NULL} \cup SUBSET Segments,
         NEW g, g = [dir |-> s[Len(s)].dir, names |-> names]
  PROVE  /\ Narrowed(s, names) \in Seq(Frames)
         /\ g \in ToSet(Narrowed(s, names)) /\ g \in Frames
         /\ ToSet(Narrowed(s, names)) \subseteq ToSet(s) \cup {g}
         /\ \A f \in ToSet(s) : f = s[Len(s)] \/ f \in ToSet(Narrowed(s, names))
<1>1. Len(s) \in Nat \ {0} /\ \A i \in 1..Len(s) : s[i] \in Frames
  BY EmptySeq
<1>2. PICK n : n = Len(s)
  OBVIOUS
<1>3. n \in 1..n /\ n \in Nat /\ s \in [1..n -> Frames]
  BY <1>1, <1>2
<1>4. g \in Frames /\ g = [s[n] EXCEPT !.names = names]
  BY <1>1, <1>2 DEF Frames
<1>5. PICK u : u = [i \in 1..n |-> IF i = n THEN g ELSE s[i]]
  OBVIOUS
<1>6. Narrowed(s, names) = u
  BY <1>2, <1>3, <1>4, <1>5 DEF Narrowed
<1>7. u \in [1..n -> Frames]
  BY <1>3, <1>4, <1>5
<1>8. u \in Seq(Frames)
  BY <1>3, <1>7, SeqDef
<1>9. /\ DOMAIN u = 1..n /\ DOMAIN s = 1..n
      /\ u[n] = g /\ \A i \in 1..n : i # n => u[i] = s[i]
  BY <1>3, <1>5
<1>10. ToSet(u) = {u[i] : i \in 1..n} /\ ToSet(s) = {s[i] : i \in 1..n}
  BY <1>9 DEF ToSet
<1>11. /\ g \in ToSet(u) /\ ToSet(u) \subseteq ToSet(s) \cup {g}
       /\ \A f \in ToSet(s) : f = s[n] \/ f \in ToSet(u)
  BY <1>3, <1>9, <1>10
<1> QED
  BY <1>2, <1>4, <1>6, <1>8, <1>11

\* A directory is pushed.
LEMMA PushedStack ==
  ASSUME NEW s \in Seq(Frames), NEW f \in Frames
  PROVE  Append(s, f) \in Seq(Frames) /\ ToSet(Append(s, f)) = ToSet(s) \cup {f}
<1>1. PICK n : n = Len(s)
  OBVIOUS
<1>2. PICK u : u = Append(s, f)
  OBVIOUS
<1>3. /\ n \in Nat /\ u \in Seq(Frames) /\ Len(u) = n + 1
      /\ u[n + 1] = f /\ \A i \in 1..n : u[i] = s[i]
      /\ DOMAIN u = 1..(n + 1) /\ DOMAIN s = 1..n
  BY <1>1, <1>2
<1>4. 1..(n + 1) = 1..n \cup {n + 1}
  BY <1>3
<1>5. ToSet(u) = {u[i] : i \in 1..n} \cup {u[n + 1]} /\ ToSet(s) = {s[i] : i \in 1..n}
  BY <1>3, <1>4 DEF ToSet
<1> QED
  BY <1>2, <1>3, <1>5

\* The innermost directory is popped.
LEMMA PoppedStack ==
  ASSUME NEW s \in Seq(Frames), s # << >>
  PROVE  /\ Front(s) \in Seq(Frames) /\ ToSet(s) = ToSet(Front(s)) \cup {s[Len(s)]}
         /\ s[Len(s)] \in Frames
<1>1. PICK n : n = Len(s)
  OBVIOUS
<1>2. n \in Nat \ {0} /\ n \in 1..n /\ DOMAIN s = 1..n /\ \A i \in 1..n : s[i] \in Frames
  BY <1>1, EmptySeq
<1>3. PICK u : u = SubSeq(s, 1, n - 1)
  OBVIOUS
<1>4. /\ u \in Seq(Frames) /\ Len(u) = n - 1
      /\ \A i \in 1..(n - 1) : u[i] = s[i]
  <2>1. 1 \in Int /\ n - 1 \in Int /\ \A i \in 1..(n - 1) : s[i] \in Frames
    BY <1>2
  <2>2. /\ u \in Seq(Frames) /\ Len(u) = IF 1 <= n - 1 THEN n - 1 - 1 + 1 ELSE 0
        /\ \A i \in 1..(n - 1 - 1 + 1) : u[i] = s[1 + i - 1]
    BY <1>3, <2>1, SubSeqProperties
  <2> QED
    BY <1>2, <2>2
<1>5. DOMAIN u = 1..(n - 1) /\ 1..n = 1..(n - 1) \cup {n}
  BY <1>2, <1>4
<1>6. ToSet(s) = {s[i] : i \in 1..(n - 1)} \cup {s[n]} /\ ToSet(u) = {s[i] : i \in 1..(n - 1)}
  BY <1>2, <1>4, <1>5 DEF ToSet
<1>7. Front(s) = u
  BY <1>1, <1>3 DEF Front
<1> QED
  BY <1>1, <1>2, <1>4, <1>6, <1>7

\* A stack of one.
LEMMA FirstStack ==
  ASSUME NEW f \in Frames
  PROVE  <<f>> \in Seq(Frames) /\ ToSet(<<f>>) = {f}
<1>1. DOMAIN <<f>> = {1} /\ <<f>>[1] = f
  OBVIOUS
<1> QED
  BY <1>1 DEF ToSet

-----------------------------------------------------------------------------
(* Each step keeps the invariant.                                          *)

\* A step of the walker changes nothing but the walker.
Still == UNCHANGED <<tree, prefix, edits, always, ever, made>>

\* What such a step has to show for Shape.
LEMMA StillShaped ==
  ASSUME Shape, Still, stack' \in Seq(Frames), answer' # NULL => step' = "done"
  PROVE  Shape'
BY DEF Shape, Still, FilesOf

\* What the last step has to show.
LEMMA EndsWell ==
  ASSUME Shape', step' = "done", Over'
  PROVE  WalkInv'
BY DEF WalkInv, Begun, Progress, Quiet

\* It starts so.
LEMMA StartsWell == ASSUME Init PROVE WalkInv
<1>1. TreeOK(tree) /\ prefix \in AskedFor /\ edits = 0 /\ stack = << >>
  BY WalkAssumption DEF Init, TreeOK, Paths
<1>2. stack \in Seq(Frames)
  BY <1>1, EmptySeq
<1>3. Shape
  BY <1>1, <1>2 DEF Init, Shape
<1>4. Begun /\ Progress /\ Quiet /\ Over
  BY DEF Init, Begun, Progress, Quiet, Over
<1> QED
  BY <1>3, <1>4 DEF WalkInv

\* What the caller asks for is a path.
LEMMA AskedForIsPath ==
  ASSUME Shape
  PROVE  prefix \in Seq(STRING) \ {<< >>}
BY WalkAssumption DEF Shape

\* The start is resolved.
LEMMA ResolveKeeps ==
  ASSUME WalkInv, ResolveStart, Still
  PROVE  WalkInv'
<1> DEFINE r == ListStart(tree, prefix)
<1>1. Shape /\ TreeOK(tree) /\ step = "resolve" /\ start = NULL /\ out = {} /\ answer = NULL
  BY DEF WalkInv, Shape, Begun, ResolveStart
<1>2. stack' = stack /\ out' = out /\ tree' = tree /\ prefix' = prefix /\ stack \in Seq(Frames)
  BY <1>1 DEF ResolveStart, Still, Shape
<1>3. CASE IsOk(r)
  <2>1. start' = r.value /\ step' = "start" /\ answer' = answer
    BY <1>3 DEF ResolveStart
  <2>2. r = Ok(r.value) /\ r.value \in DOMAIN tree \cap Paths /\ ~IsLink(tree, r.value)
    BY <1>1, <1>3, AskedForIsPath, StartIsThere
  <2>3. Clear(tree, r.value)
    BY <1>1, <2>2, ClearWay
  <2>4. Shape'
    BY <1>1, <1>2, <2>1, StillShaped
  <2>5. ListStart(tree', prefix') = Ok(start')
    BY <1>2, <2>1, <2>2
  <2>6. start' \in Paths /\ Straight(start)' /\ ~IsLink(tree', start') /\ out' = {}
    BY <1>1, <1>2, <2>1, <2>2, <2>3 DEF Straight
  <2>7. Begun' /\ Quiet' /\ Progress' /\ Over'
    BY <2>1, <2>5, <2>6 DEF Begun, Quiet, Progress, Over
  <2> QED
    BY <2>4, <2>7 DEF WalkInv
<1>4. CASE ~IsOk(r)
  <2>1. /\ answer' = IF r.error = "NotFound" THEN Ok({}) ELSE r
        /\ step' = "done" /\ start' = NULL
    BY <1>1, <1>4 DEF ResolveStart, Answer
  <2>2. Shape'
    BY <1>1, <1>2, <2>1, StillShaped
  <2>3. answer' = DirList(tree', prefix')
    BY <1>2, <1>4, <2>1 DEF DirList
  <2>4. IsOk(answer') => answer'.value = {}
    BY <1>4, <2>1, Results
  <2>5. Over'
    BY <2>1, <2>3, <2>4 DEF Over, ListsWhatStayed, ListsWhatWas, FailsOnlyWhenEdited
  <2> QED
    BY <2>1, <2>2, <2>5, EndsWell
<1> QED
  BY <1>3, <1>4

\* What fails by itself ends the call, and shows nothing of it.
LEMMA BreaksWell ==
  ASSUME WalkInv, CallFails, Still
  PROVE  WalkInv'
<1>1. answer' = Failed("Io") /\ step' = "done" /\ fault' = TRUE /\ stack' = stack
  BY DEF CallFails, Answer
<1>2. Shape'
  BY <1>1, StillShaped DEF WalkInv, Shape
<1>3. ~IsOk(answer')
  BY <1>1, Results
<1>4. Over'
  BY <1>1, <1>3 DEF Over, ListsWhatStayed, ListsWhatWas, FailsOnlyWhenEdited
<1> QED
  BY <1>1, <1>2, <1>4, EndsWell

\* What is listed of a tree nobody edits.
LEMMA ListedIs ==
  ASSUME NEW t, NEW path, NEW s, ListStart(t, path) = Ok(s)
  PROVE  DirList(t, path) = Ok(FilesUnder(t, s))
BY Results DEF DirList, Ok, IsOk

\* The start is a directory to walk, or the one entry of the listing.
LEMMA CheckKeeps ==
  ASSUME WalkInv, CheckStart, Still
  PROVE  WalkInv'
<1> DEFINE real == Canonicalize(tree, start)
           isDir == IsOk(real) /\ IsDir(tree, real.value)
<1>1. /\ Shape /\ TreeOK(tree) /\ step = "start" /\ start \in Paths /\ Straight(start)
      /\ out = {} /\ answer = NULL /\ always \subseteq FilesOf(tree) /\ FilesOf(tree) \subseteq ever
      /\ start \in always => ~IsLink(tree, start)
  BY DEF WalkInv, Shape, Begun, CheckStart
<1>2. /\ tree' = tree /\ prefix' = prefix /\ edits' = edits /\ always' = always /\ ever' = ever
      /\ made' = made
      /\ start' = start
  BY DEF Still, CheckStart
<1>3. FilesOf(tree) = {p \in DOMAIN tree \cap Paths : ~IsDir(tree, p)}
  BY <1>1, FilesAreThere
<1>4. /\ edits = 0 => ListStart(tree, prefix) = Ok(start)
      /\ edits = 0 => always = FilesOf(tree) /\ ever = FilesOf(tree)
  BY <1>1 DEF WalkInv, Quiet, Shape
\* Where the start itself is no link, it is what is_dir looks at.
<1>5. start \in DOMAIN tree /\ ~IsLink(tree, start) => (isDir <=> IsDir(tree, start))
  <2>1. SUFFICES ASSUME start \in DOMAIN tree, ~IsLink(tree, start)
                 PROVE  isDir <=> IsDir(tree, start)
    OBVIOUS
  <2>2. real = Ok(start)
    BY <1>1, <2>1, WayIsThere
  <2> QED
    BY <2>2, Results
<1>6. edits = 0 => start \in DOMAIN tree \cap Paths /\ ~IsLink(tree, start)
  <2>1. SUFFICES ASSUME edits = 0 PROVE start \in DOMAIN tree \cap Paths /\ ~IsLink(tree, start)
    OBVIOUS
  <2>2. IsOk(ListStart(tree, prefix)) /\ ListStart(tree, prefix).value = start
    BY <1>4, <2>1, Results
  <2> QED
    BY <1>1, <2>2, AskedForIsPath, StartIsThere
<1>7. IsPrefix(start, start)
  <2>1. Len(start) \in Nat
    BY <1>1 DEF Paths
  <2> QED
    BY <1>1, <2>1, PrefixIsUpto, UptoEnds
<1>8. \/ /\ isDir /\ stack' = <<[dir |-> start, names |-> NULL]>> /\ step' = "walk"
         /\ out' = out /\ answer' = answer
      \/ /\ (isDir => fault') /\ out' = {start} /\ answer' = Ok({start}) /\ step' = "done"
         /\ stack' = stack
  BY DEF CheckStart, Answer
<1> HIDE DEF real, isDir
<1>9. CASE /\ isDir /\ stack' = <<[dir |-> start, names |-> NULL]>> /\ step' = "walk"
           /\ out' = out /\ answer' = answer
  <2> DEFINE f == [dir |-> start, names |-> NULL]
  <2>1. stack' = <<f>> /\ step' = "walk" /\ out' = out /\ answer' = answer
    BY <1>9
  <2>2. f \in Frames /\ f.dir = start /\ f.names = NULL
    BY <1>1 DEF Frames
  <2> HIDE DEF f
  <2>3. stack' \in Seq(Frames) /\ ToSet(stack') = {f}
    BY <2>1, <2>2, FirstStack
  <2>4. Shape'
    BY <1>1, <2>1, <2>3, StillShaped
  <2>5. Straight(start)'
    BY <1>1, <1>2 DEF Straight, Diverted
  <2>6. Begun'
    BY <1>1, <1>2, <1>7, <2>1, <2>2, <2>3, <2>5 DEF Begun, Straight, Diverted
  <2>7. ASSUME NEW p \in always, IsPrefix(start, p) PROVE LeadsTo(f, p)
    <3>1. p # start
      <4>1. SUFFICES ASSUME p = start PROVE FALSE
        OBVIOUS
      <4>2. start \in always /\ start \in DOMAIN tree /\ ~IsDir(tree, start)
        BY <1>1, <1>3, <4>1
      <4> QED
        BY <1>1, <1>5, <1>9, <4>2
    <3> QED
      BY <2>2, <2>7, <3>1 DEF LeadsTo, IsStrictPrefix
  <2>8. Progress'
    BY <1>1, <1>2, <2>1, <2>3, <2>7 DEF Progress, LeadsTo
  <2>9. edits = 0 => IsDir(tree, start)
    BY <1>5, <1>6, <1>9
  <2>10. Quiet'
    BY <1>2, <1>4, <2>1, <2>2, <2>3, <2>9 DEF Quiet
  <2>11. Over'
    BY <2>1 DEF Over
  <2> QED
    BY <2>4, <2>6, <2>8, <2>10, <2>11 DEF WalkInv
<1>10. CASE /\ (isDir => fault') /\ out' = {start} /\ answer' = Ok({start}) /\ step' = "done"
            /\ stack' = stack
  <2>1. Shape'
    BY <1>1, <1>10, StillShaped DEF Shape
  <2>2. IsOk(answer') /\ answer'.value = {start}
    BY <1>10, Results
  <2>3. ASSUME ~fault', NEW p \in FilesOf(tree), IsPrefix(start, p) PROVE p = start
    <3>1. SUFFICES ASSUME IsStrictPrefix(start, p) PROVE FALSE
      BY <2>3 DEF IsStrictPrefix
    <3>2. p \in DOMAIN tree \cap Paths
      BY <1>3
    <3>3. IsDir(tree, start)
      BY <1>1, <3>1, <3>2, WayDown
    <3>4. start \in DOMAIN tree /\ ~IsLink(tree, start)
      BY <3>3, DirsAreNoLinks
    <3> QED
      BY <1>5, <1>10, <2>3, <3>3, <3>4
  <2>4. ListsWhatStayed' /\ ListsWhatWas'
    BY <1>1, <1>2, <2>2, <2>3 DEF ListsWhatStayed, ListsWhatWas
  <2>5. ASSUME edits = 0, ~fault' PROVE answer' = DirList(tree, prefix)
    <3>1. ListStart(tree, prefix) = Ok(start)
      BY <1>4, <2>5
    <3>2. start \in FilesOf(tree)
      BY <1>3, <1>5, <1>6, <1>10, <2>5
    <3>3. FilesUnder(tree, start) = {p \in FilesOf(tree) : IsPrefix(start, p)}
      BY <1>1, FilesAreThere
    <3>4. FilesUnder(tree, start) = {start}
      BY <1>7, <2>3, <2>5, <3>2, <3>3
    <3> QED
      BY <1>10, <3>1, <3>4, ListedIs
  <2>6. FailsOnlyWhenEdited'
    BY <1>2, <2>2, <2>5 DEF FailsOnlyWhenEdited
  <2> QED
    BY <1>10, <2>1, <2>4, <2>6, EndsWell DEF Over
<1> QED
  BY <1>8, <1>9, <1>10

\* What a walk that goes on knows.
LEMMA Walking ==
  ASSUME WalkInv, step = "walk"
  PROVE  /\ Shape /\ TreeOK(tree) /\ start \in Paths /\ answer = NULL
         /\ always \subseteq FilesOf(tree) /\ FilesOf(tree) \subseteq ever
         /\ FilesOf(tree) = {p \in DOMAIN tree \cap Paths : ~IsDir(tree, p)}
         /\ stack \in Seq(Frames) /\ made \subseteq Paths /\ \A p \in out : Listable(p)
         /\ \A f \in ToSet(stack) : IsPrefix(start, f.dir) /\ Straight(f.dir)
         /\ \A p \in always : IsPrefix(start, p) =>
              p \in out \/ \E f \in ToSet(stack) : LeadsTo(f, p)
         /\ edits = 0 => /\ always = FilesOf(tree) /\ ever = FilesOf(tree) /\ made = {}
                         /\ ListStart(tree, prefix) = Ok(start)
                         /\ \A f \in ToSet(stack) :
                              /\ IsDir(tree, f.dir)
                              /\ f.names # NULL =>
                                   \A name \in f.names : Exists(tree, Append(f.dir, name))
         /\ stack # << >> => Top \in ToSet(stack) /\ Top \in Frames /\ Top.dir \in Paths
<1>1. /\ Shape /\ TreeOK(tree) /\ start \in Paths /\ answer = NULL
      /\ always \subseteq FilesOf(tree) /\ FilesOf(tree) \subseteq ever
      /\ stack \in Seq(Frames) /\ made \subseteq Paths
  BY DEF WalkInv, Shape, Begun
<1>2. FilesOf(tree) = {p \in DOMAIN tree \cap Paths : ~IsDir(tree, p)}
  BY <1>1, FilesAreThere
<1>3. stack # << >> => Top \in ToSet(stack) /\ Top \in Frames
  BY <1>1, PoppedStack DEF Top
<1>4. \A f \in Frames : f.dir \in Paths
  BY DEF Frames
<1>5. /\ \A p \in out : Listable(p)
      /\ \A f \in ToSet(stack) : IsPrefix(start, f.dir) /\ Straight(f.dir)
      /\ \A p \in always : IsPrefix(start, p) =>
           p \in out \/ \E f \in ToSet(stack) : LeadsTo(f, p)
  BY DEF WalkInv, Progress, Begun
<1>6. edits = 0 => /\ always = FilesOf(tree) /\ ever = FilesOf(tree) /\ made = {}
                   /\ ListStart(tree, prefix) = Ok(start)
                   /\ \A f \in ToSet(stack) :
                        /\ IsDir(tree, f.dir)
                        /\ f.names # NULL =>
                             \A name \in f.names : Exists(tree, Append(f.dir, name))
  BY DEF WalkInv, Quiet, Shape
<1> QED
  BY <1>1, <1>2, <1>3, <1>4, <1>5, <1>6

\* A walk that fails was edited.
LEMMA FailsWell ==
  ASSUME WalkInv, step = "walk", Still, edits # 0, stack' \in Seq(Frames),
         NEW r, ~IsOk(r), answer' = r, step' = "done"
  PROVE  WalkInv'
<1>1. Shape'
  BY StillShaped DEF WalkInv
<1>2. edits' # 0 /\ ~IsOk(answer')
  BY DEF Still
<1>3. Over'
  BY <1>2 DEF Over, ListsWhatStayed, ListsWhatWas, FailsOnlyWhenEdited
<1> QED
  BY <1>1, <1>3, EndsWell

\* What the rest of a step has to show while the walk goes on.
LEMMA GoesWell ==
  ASSUME WalkInv, step = "walk", Still, step' = "walk", answer' = answer, start' = start,
         stack' \in Seq(Frames),
         \A p \in out' : Listable(p),
         \A f \in ToSet(stack') : IsPrefix(start, f.dir) /\ Straight(f.dir),
         \A p \in always : IsPrefix(start, p) =>
           p \in out' \/ \E f \in ToSet(stack') : LeadsTo(f, p),
         edits = 0 =>
           \A f \in ToSet(stack') :
             /\ IsDir(tree, f.dir)
             /\ f.names # NULL => \A name \in f.names : Exists(tree, Append(f.dir, name))
  PROVE  WalkInv'
<1>1. /\ tree' = tree /\ prefix' = prefix /\ edits' = edits /\ always' = always /\ ever' = ever
      /\ made' = made
  BY DEF Still
<1>2. Shape'
  BY Walking, StillShaped
<1>3. Begun'
  BY <1>1, Walking DEF Begun, WalkInv, Straight, Diverted
<1>4. Progress'
  BY <1>1 DEF Progress, LeadsTo, Listable
<1>5. Quiet'
  BY <1>1, Walking DEF Quiet
<1>6. Over'
  BY DEF Over
<1> QED
  BY <1>2, <1>3, <1>4, <1>5, <1>6 DEF WalkInv

\* The innermost directory is read.
LEMMA ReadKeeps ==
  ASSUME WalkInv, ReadDir, Still
  PROVE  WalkInv'
<1> DEFINE names == Opened(Top.dir)
<1>1. step = "walk" /\ stack # << >> /\ Top.names = NULL /\ start' = start /\ out' = out
  BY DEF ReadDir
<1>2. /\ Shape /\ TreeOK(tree) /\ stack \in Seq(Frames)
      /\ Top \in ToSet(stack) /\ Top \in Frames /\ Top.dir \in Paths /\ Straight(Top.dir)
      /\ IsPrefix(start, Top.dir)
      /\ edits = 0 => IsDir(tree, Top.dir)
  BY <1>1, Walking
<1>3. /\ IsOk(names) => names.value \subseteq Segments
      /\ IsDir(tree, Top.dir) =>
           /\ IsOk(names)
           /\ \A name \in Segments : name \in names.value <=> Append(Top.dir, name) \in DOMAIN tree
  BY <1>2, OpenedIsThere
<1>4. CASE ~IsOk(names)
  <2>1. answer' = names /\ step' = "done" /\ stack' = stack
    BY <1>4 DEF ReadDir, Answer
  <2>2. edits # 0
    BY <1>2, <1>3, <1>4
  <2> HIDE DEF names
  <2> QED
    BY <1>1, <1>2, <1>4, <2>1, <2>2, FailsWell
<1>5. CASE IsOk(names)
  <2>1. stack' = Narrowed(stack, names.value) /\ step' = step /\ answer' = answer
    BY <1>5 DEF ReadDir, Narrowed
  <2> HIDE DEF names
  <2>2. PICK g : g = [dir |-> Top.dir, names |-> names.value]
    OBVIOUS
  <2>3. names.value \in {NULL} \cup SUBSET Segments
    BY <1>3, <1>5
  <2>4. /\ stack' \in Seq(Frames) /\ g \in ToSet(stack')
        /\ ToSet(stack') \subseteq ToSet(stack) \cup {g}
        /\ \A f \in ToSet(stack) : f = Top \/ f \in ToSet(stack')
    BY <1>1, <1>2, <2>1, <2>2, <2>3, NarrowedStack DEF Top
  <2>5. g.dir = Top.dir /\ g.names = names.value
    BY <2>2
  <2>6. \A f \in ToSet(stack') : IsPrefix(start, f.dir) /\ Straight(f.dir)
    BY <1>1, <1>2, <2>4, <2>5, Walking
  <2>7. ASSUME NEW p \in always, LeadsTo(Top, p) PROVE LeadsTo(g, p)
    <3>1. p \in DOMAIN tree \cap Paths /\ IsStrictPrefix(Top.dir, p)
      BY <1>1, <2>7, Walking DEF LeadsTo
    <3>2. /\ p[Len(Top.dir) + 1] \in Segments /\ Append(Top.dir, p[Len(Top.dir) + 1]) \in DOMAIN tree
          /\ IsDir(tree, Top.dir)
      BY <1>2, <3>1, WayDown
    <3>3. p[Len(Top.dir) + 1] \in names.value
      BY <1>3, <3>2
    <3> QED
      BY <2>5, <3>1, <3>3 DEF LeadsTo
  <2>8. \A p \in always : IsPrefix(start, p) =>
           p \in out' \/ \E f \in ToSet(stack') : LeadsTo(f, p)
    BY <1>1, <2>4, <2>7, Walking
  <2>9. ASSUME edits = 0, NEW f \in ToSet(stack')
        PROVE  /\ IsDir(tree, f.dir)
               /\ f.names # NULL => \A name \in f.names : Exists(tree, Append(f.dir, name))
    <3>1. CASE f = g
      BY <1>2, <1>3, <1>5, <2>5, <2>9, <3>1 DEF Exists
    <3>2. CASE f \in ToSet(stack)
      BY <1>1, <2>9, <3>2, Walking
    <3> QED
      BY <2>4, <3>1, <3>2
  <2>10. \A p \in out' : Listable(p)
    BY <1>1, Walking
  <2> QED
    BY <1>1, <2>1, <2>4, <2>6, <2>8, <2>9, <2>10, GoesWell
<1> QED
  BY <1>4, <1>5

\* The loop over a directory ends.
LEMMA LeaveKeeps ==
  ASSUME WalkInv, Leave, Still
  PROVE  WalkInv'
<1>1. /\ step = "walk" /\ stack # << >> /\ Top.names = {} /\ start' = start /\ out' = out
      /\ step' = step /\ answer' = answer /\ stack' = Front(stack)
  BY DEF Leave
<1>2. stack \in Seq(Frames) /\ \A p \in out' : Listable(p)
  BY <1>1, Walking
<1>3. stack' \in Seq(Frames) /\ ToSet(stack) = ToSet(stack') \cup {Top}
  BY <1>1, <1>2, PoppedStack DEF Top
<1>4. \A p : ~LeadsTo(Top, p)
  BY <1>1, WalkAssumption DEF LeadsTo
<1>5. \A p \in always : IsPrefix(start, p) =>
        p \in out' \/ \E f \in ToSet(stack') : LeadsTo(f, p)
  BY <1>1, <1>3, <1>4, Walking
<1>6. \A f \in ToSet(stack') : IsPrefix(start, f.dir) /\ Straight(f.dir)
  BY <1>1, <1>3, Walking
<1>7. edits = 0 =>
        \A f \in ToSet(stack') :
          /\ IsDir(tree, f.dir)
          /\ f.names # NULL => \A name \in f.names : Exists(tree, Append(f.dir, name))
  BY <1>1, <1>3, Walking
<1> QED
  BY <1>1, <1>2, <1>3, <1>5, <1>6, <1>7, GoesWell

\* The walk is over.
LEMMA ReturnKeeps ==
  ASSUME WalkInv, Return, Still
  PROVE  WalkInv'
<1>1. /\ step = "walk" /\ stack = << >> /\ start' = start /\ out' = out /\ stack' = stack
      /\ step' = "done" /\ answer' = Ok(out)
  BY DEF Return, Answer
<1>2. ToSet(stack) = {}
  BY <1>1 DEF ToSet
<1>3. /\ Shape /\ TreeOK(tree) /\ stack \in Seq(Frames)
      /\ \A p \in out : Listable(p)
      /\ \A p \in always : IsPrefix(start, p) => p \in out
  BY <1>1, <1>2, Walking
<1>4. Shape'
  BY <1>1, <1>3, StillShaped
<1>5. IsOk(answer') /\ answer'.value = out
  BY <1>1, Results
<1>6. /\ tree' = tree /\ prefix' = prefix /\ edits' = edits /\ always' = always /\ ever' = ever
      /\ made' = made
  BY DEF Still
<1>7. ListsWhatStayed' /\ ListsWhatWas'
  BY <1>1, <1>3, <1>5, <1>6 DEF ListsWhatStayed, ListsWhatWas, Listable
<1>8. ASSUME edits = 0 PROVE answer' = DirList(tree, prefix)
  <2>1. /\ always = FilesOf(tree) /\ ever = FilesOf(tree) /\ made = {}
        /\ ListStart(tree, prefix) = Ok(start)
    BY <1>1, <1>8, Walking
  <2>2. FilesUnder(tree, start) = {p \in FilesOf(tree) : IsPrefix(start, p)}
    BY <1>3, FilesAreThere
  <2>3. FilesUnder(tree, start) = out
    BY <1>3, <2>1, <2>2 DEF Listable
  <2> QED
    BY <1>1, <2>1, <2>3, ListedIs
<1>9. FailsOnlyWhenEdited'
  BY <1>5, <1>6, <1>8 DEF FailsOnlyWhenEdited
<1> QED
  BY <1>1, <1>4, <1>7, <1>9, EndsWell DEF Over

\* The next name: a directory to descend into, or a path to push.
LEMMA EntryKeeps ==
  ASSUME WalkInv, NEW name \in Segments, Entry(name), Still
  PROVE  WalkInv'
<1> DEFINE p == Append(Top.dir, name)
           meta == Meta(p)
           later == Top.names \ {name}
           rest == Narrowed(stack, later)
           g == [dir |-> Top.dir, names |-> later]
           h == [dir |-> p, names |-> NULL]
<1>1. /\ step = "walk" /\ stack # << >> /\ Top.names # NULL /\ name \in Top.names
      /\ start' = start
  BY DEF Entry
<1>2. /\ Shape /\ TreeOK(tree) /\ stack \in Seq(Frames) /\ start \in Paths
      /\ Top \in ToSet(stack) /\ Top \in Frames /\ Top.dir \in Paths /\ Straight(Top.dir)
      /\ IsPrefix(start, Top.dir)
      /\ edits = 0 =>
           IsDir(tree, Top.dir) /\ \A n \in Top.names : Exists(tree, Append(Top.dir, n))
      /\ FilesOf(tree) = {q \in DOMAIN tree \cap Paths : ~IsDir(tree, q)}
      /\ FilesOf(tree) \subseteq ever /\ always \subseteq FilesOf(tree)
      /\ made \subseteq Paths /\ \A q \in out : Listable(q)
  BY <1>1, Walking
<1>3. p \in Paths /\ Len(p) = Len(Top.dir) + 1 /\ Len(Top.dir) \in Nat /\ Parent(p) = Top.dir
  BY <1>2, AppendPath DEF Paths
<1>4. Clear(tree, Top.dir) \/ IsDir(tree, Top.dir) =>
        /\ IsOk(meta) => p \in DOMAIN tree /\ meta.value = tree[p].kind
        /\ IsDir(tree, Top.dir) /\ p \in DOMAIN tree => IsOk(meta)
  BY <1>2, MetaIsThere
<1>5. ~IsOk(meta) => answer' = meta /\ step' = "done" /\ stack' = stack
  BY DEF Entry, Answer
<1>6. IsOk(meta) => /\ step' = step /\ answer' = answer
                    /\ meta.value = "dir" => stack' = Append(rest, h) /\ out' = out
                    /\ meta.value # "dir" => stack' = rest /\ out' = out \cup {p}
  BY DEF Entry, Pushed, Narrowed, Top
<1>7. later \in {NULL} \cup SUBSET Segments
  BY <1>1, <1>2 DEF Frames
<1>8. /\ rest \in Seq(Frames) /\ g \in ToSet(rest) /\ g \in Frames
      /\ ToSet(rest) \subseteq ToSet(stack) \cup {g}
      /\ \A f \in ToSet(stack) : f = Top \/ f \in ToSet(rest)
  <2> HIDE DEF later
  <2>1. PICK f : f = g
    OBVIOUS
  <2>2. f = [dir |-> stack[Len(stack)].dir, names |-> later] /\ Top = stack[Len(stack)]
    BY <2>1 DEF Top
  <2>3. /\ rest \in Seq(Frames) /\ f \in ToSet(rest) /\ f \in Frames
        /\ ToSet(rest) \subseteq ToSet(stack) \cup {f}
        /\ \A e \in ToSet(stack) : e = stack[Len(stack)] \/ e \in ToSet(rest)
    BY <1>1, <1>2, <1>7, <2>2, NarrowedStack
  <2> QED
    BY <2>1, <2>2, <2>3
<1>9. g.dir = Top.dir /\ g.names = later /\ h.dir = p /\ h.names = NULL /\ h \in Frames
  BY <1>3 DEF Frames
<1>10. edits = 0 => Exists(tree, p)
  BY <1>1, <1>2
<1>11. later = Top.names \ {name} /\ p = Append(Top.dir, name)
  OBVIOUS
\* Below a link that was made on the way there are only such links.
<1>12. ASSUME NEW m \in made, IsPrefix(m, Top.dir) PROVE IsPrefix(m, p) /\ IsStrictPrefix(m, p)
  <2>1. m \in Paths /\ p # Root
    <3>1. Len(Root) = 0
      BY DEF Root
    <3> HIDE DEF p
    <3> QED
      BY <1>2, <1>3, <3>1
  <2>2. Len(m) \in Nat /\ Len(m) <= Len(Top.dir)
    BY <1>2, <1>12, <2>1, PrefixIsUpto DEF Paths
  <2>3. IsPrefix(m, p)
    BY <1>3, <1>12, <2>1, PrefixOfParent
  <2>4. m # p
    BY <1>3, <2>2
  <2> QED
    BY <2>3, <2>4 DEF IsStrictPrefix
<1> HIDE DEF p, meta, later, rest, g, h
<1>13. CASE ~IsOk(meta)
  <2>1. edits # 0
    BY <1>2, <1>4, <1>10, <1>13 DEF Exists
  <2> QED
    BY <1>1, <1>2, <1>5, <1>13, <2>1, FailsWell
\* What is come to through the innermost directory, but not through this name,
\* is come to later.
<1>14. ASSUME NEW q \in always, LeadsTo(Top, q)
       PROVE  /\ IsDir(tree, Top.dir)
              /\ \/ LeadsTo(g, q)
                 \/ p = q /\ ~IsDir(tree, q)
                 \/ IsStrictPrefix(p, q) /\ IsDir(tree, p)
  <2>1. q \in DOMAIN tree \cap Paths /\ ~IsDir(tree, q) /\ IsStrictPrefix(Top.dir, q)
    BY <1>2, <1>14 DEF LeadsTo
  <2>2. IsDir(tree, Top.dir)
    BY <1>2, <2>1, WayDown
  <2>3. CASE q[Len(Top.dir) + 1] = name
    <3>1. \/ Append(Top.dir, name) = q
          \/ IsStrictPrefix(Append(Top.dir, name), q) /\ IsDir(tree, Append(Top.dir, name))
      BY <1>2, <2>1, <2>3, WayDown
    <3> QED
      BY <1>11, <2>1, <2>2, <3>1
  <2>4. CASE q[Len(Top.dir) + 1] # name
    BY <1>1, <1>9, <1>11, <1>14, <2>2, <2>4 DEF LeadsTo
  <2> QED
    BY <2>3, <2>4
<1>15. ASSUME NEW f \in ToSet(rest)
       PROVE  /\ IsPrefix(start, f.dir) /\ Straight(f.dir)
              /\ edits = 0 =>
                   /\ IsDir(tree, f.dir)
                   /\ f.names # NULL => \A n \in f.names : Exists(tree, Append(f.dir, n))
  <2>1. CASE f = g
    BY <1>2, <1>9, <1>11, <2>1
  <2>2. CASE f \in ToSet(stack)
    BY <1>1, <2>2, Walking
  <2> QED
    BY <1>8, <2>1, <2>2
<1>16. IsPrefix(start, p)
  <2>1. /\ Len(start) \in Nat /\ Len(start) <= Len(Top.dir) /\ start = Upto(Top.dir, Len(start))
    BY <1>2, PrefixIsUpto DEF Paths
  <2>2. Len(start) \in 0..Len(Top.dir) /\ Len(start) <= Len(p)
    BY <1>3, <2>1
  <2>3. Upto(p, Len(start)) = Upto(Top.dir, Len(start))
    BY <1>2, <1>11, <2>2, AppendPath
  <2> QED
    BY <1>2, <1>3, <2>1, <2>2, <2>3, PrefixIsUpto
<1>17. CASE IsOk(meta) /\ meta.value = "dir"
  <2>1. stack' = Append(rest, h) /\ out' = out /\ step' = "walk" /\ answer' = answer
    BY <1>1, <1>6, <1>17
  <2>2. stack' \in Seq(Frames) /\ ToSet(stack') = ToSet(rest) \cup {h}
    BY <1>8, <1>9, <2>1, PushedStack
  <2>3. Clear(tree, Top.dir) \/ IsDir(tree, Top.dir) => IsDir(tree, p)
    BY <1>4, <1>17 DEF IsDir, Exists
  <2>4. Straight(p)
    <3>1. CASE Diverted(Top.dir)
      BY <1>12, <3>1 DEF Straight, Diverted
    <3>2. CASE Clear(tree, Top.dir)
      BY <1>2, <1>11, <2>3, <3>2, DirsAreNoLinks, ClearSteps DEF Straight
    <3> QED
      BY <1>2, <3>1, <3>2 DEF Straight
  <2>5. ASSUME NEW f \in ToSet(stack')
        PROVE  /\ IsPrefix(start, f.dir) /\ Straight(f.dir)
               /\ edits = 0 =>
                    /\ IsDir(tree, f.dir)
                    /\ f.names # NULL => \A n \in f.names : Exists(tree, Append(f.dir, n))
    <3>1. CASE f = h
      BY <1>2, <1>9, <1>16, <2>3, <2>4, <3>1
    <3>2. CASE f \in ToSet(rest)
      BY <1>15, <3>2
    <3> QED
      BY <2>2, <3>1, <3>2
  <2>6. ASSUME NEW q \in always, IsPrefix(start, q)
        PROVE  q \in out' \/ \E f \in ToSet(stack') : LeadsTo(f, q)
    <3>1. CASE q \in out
      BY <2>1, <3>1
    <3>2. CASE LeadsTo(Top, q)
      <4>1. LeadsTo(g, q) \/ LeadsTo(h, q)
        BY <1>9, <1>14, <2>3, <3>2 DEF LeadsTo
      <4> QED
        BY <1>8, <2>2, <4>1
    <3>3. CASE \E f \in ToSet(stack) : f # Top /\ LeadsTo(f, q)
      BY <1>8, <2>2, <3>3
    <3> QED
      BY <1>1, <2>6, <3>1, <3>2, <3>3, Walking
  <2> QED
    BY <1>1, <1>2, <2>1, <2>2, <2>5, <2>6, GoesWell
<1>18. CASE IsOk(meta) /\ meta.value # "dir"
  <2>1. stack' = rest /\ out' = out \cup {p} /\ step' = "walk" /\ answer' = answer
    BY <1>1, <1>6, <1>18
  <2>2. Clear(tree, Top.dir) \/ IsDir(tree, Top.dir) => ~IsDir(tree, p) /\ p \in DOMAIN tree
    BY <1>4, <1>18 DEF IsDir
  <2>3. Listable(p)
    <3>1. CASE Diverted(Top.dir)
      BY <1>12, <1>16, <3>1 DEF Listable, Diverted
    <3>2. CASE Clear(tree, Top.dir)
      BY <1>2, <1>3, <1>16, <2>2, <3>2 DEF Listable
    <3> QED
      BY <1>2, <3>1, <3>2 DEF Straight
  <2>5. \A q \in out' : Listable(q)
    BY <1>2, <2>1, <2>3
  <2>4. ASSUME NEW q \in always, IsPrefix(start, q)
        PROVE  q \in out' \/ \E f \in ToSet(stack') : LeadsTo(f, q)
    <3>1. CASE q \in out
      BY <2>1, <3>1
    <3>2. CASE LeadsTo(Top, q)
      <4>1. LeadsTo(g, q) \/ q = p
        BY <1>14, <2>2, <3>2
      <4> QED
        BY <1>8, <2>1, <4>1
    <3>3. CASE \E f \in ToSet(stack) : f # Top /\ LeadsTo(f, q)
      BY <1>8, <2>1, <3>3
    <3> QED
      BY <1>1, <2>4, <3>1, <3>2, <3>3, Walking
  <2> QED
    BY <1>1, <1>8, <1>15, <2>1, <2>4, <2>5, GoesWell
<1> QED
  BY <1>13, <1>17, <1>18

\* What is on the stack is a directory being walked.
LEMMA FramesOfStack ==
  ASSUME stack \in Seq(Frames), NEW f \in ToSet(stack)
  PROVE  f \in Frames /\ f.dir \in Paths
<1>1. PICK i \in DOMAIN stack : f = stack[i]
  BY DEF ToSet
<1>2. f \in Frames
  BY <1>1
<1> QED
  BY <1>2 DEF Frames

\* Whatever is edited, what the walk knows stays so.
LEMMA EditKeeps ==
  ASSUME WalkInv, Edit
  PROVE  WalkInv'
<1>1. Shape /\ TreeOK(tree)
  BY DEF WalkInv, Shape
<1>2. /\ Edited(tree, tree')
      /\ step # "done" /\ edits' = edits + 1
      /\ always' = always \cap FilesOf(tree') /\ ever' = ever \cup FilesOf(tree')
      /\ made' = made \cup (LinksOf(tree') \ LinksOf(tree))
      /\ prefix' = prefix /\ step' = step /\ start' = start /\ stack' = stack
      /\ out' = out /\ answer' = answer
  BY <1>1, EditEdits
<1>3. edits' # 0 /\ edits' \in Nat
  BY <1>1, <1>2 DEF Shape
<1>4. always' \subseteq always /\ ever \subseteq ever'
  BY <1>2
<1>5. Shape'
  <2>1. TreeOK(tree')
    BY <1>2 DEF Edited
  <2>2. LinksOf(tree') \subseteq Paths
    <3>1. ASSUME NEW q \in LinksOf(tree') PROVE q \in Paths
      <4>1. q \in DOMAIN tree' /\ tree'[q].kind = "link"
        BY <3>1 DEF LinksOf, IsLink
      <4> QED
        BY <2>1, <4>1, EntryPath, Grounds
    <3> QED
      BY <3>1
  <2> QED
    BY <1>1, <1>2, <1>3, <2>1, <2>2 DEF Shape, FilesOf
<1>6. Begun'
  <2>1. ASSUME NEW p \in Paths, Straight(p) PROVE Straight(p)'
    BY <1>2, <2>1, StraightStays
  <2>2. ASSUME step = "start", start \in always', IsLink(tree', start) PROVE FALSE
    <3>1. start \in always /\ start \in DOMAIN tree /\ ~IsLink(tree, start)
      BY <1>1, <1>4, <2>2 DEF WalkInv, Begun, Shape, FilesOf, FilesUnder
    <3> QED
      BY <1>2, <2>2, <3>1 DEF Edited
  <2>3. step = "walk" => \A f \in ToSet(stack) : f.dir \in Paths
    BY <1>1, FramesOfStack DEF Shape
  <2>4. step \in {"start", "walk"} => start \in Paths /\ Straight(start)'
    <3>1. SUFFICES ASSUME step \in {"start", "walk"} PROVE start \in Paths /\ Straight(start)'
      OBVIOUS
    <3>2. PICK d : d = start
      OBVIOUS
    <3>3. d \in Paths /\ Straight(d)
      BY <3>1, <3>2 DEF WalkInv, Begun
    <3>4. Straight(d)'
      BY <2>1, <3>3
    <3> QED
      BY <1>2, <3>2, <3>3, <3>4
  <2>5. step = "walk" =>
          \A f \in ToSet(stack) : IsPrefix(start, f.dir) /\ Straight(f.dir)'
    <3>1. SUFFICES ASSUME step = "walk", NEW f \in ToSet(stack)
                   PROVE  IsPrefix(start, f.dir) /\ Straight(f.dir)'
      OBVIOUS
    <3>2. IsPrefix(start, f.dir) /\ Straight(f.dir) /\ f.dir \in Paths
      BY <2>3, <3>1 DEF WalkInv, Begun
    <3>3. PICK d : d = f.dir
      OBVIOUS
    <3> QED
      BY <2>1, <3>2
  <2>6. /\ step = "resolve" => start = NULL
        /\ step \in {"resolve", "start"} => out = {}
    BY DEF WalkInv, Begun
  <2> QED
    BY <1>2, <2>2, <2>4, <2>5, <2>6 DEF Begun
<1>7. Progress'
  BY <1>2, <1>4 DEF WalkInv, Progress, LeadsTo, Listable
<1>8. Quiet' /\ Over'
  BY <1>2, <1>3 DEF Quiet, Over
<1> QED
  BY <1>5, <1>6, <1>7, <1>8 DEF WalkInv

-----------------------------------------------------------------------------
(* The theorems.                                                           *)

\* In every state of every run, whoever edits the directory: the tree is one,
\* the only links on the way to a directory being walked are those made since
\* the call began, what is listed was there or is below one of them, and what
\* stayed is listed or still to come (source.rs, walk).
THEOREM WalkInvariant == Spec => []WalkInv
<1>1. ASSUME WalkInv, [Next]_vars PROVE WalkInv'
  <2>1. CASE Walk
    <3>1. Still
      BY <2>1 DEF Walk, Still
    <3>2. ASSUME NEW name \in Segments, Entry(name) PROVE WalkInv'
      BY <1>1, <3>1, <3>2, EntryKeeps
    <3> QED
      BY <1>1, <2>1, <3>1, <3>2, ResolveKeeps, CheckKeeps, ReadKeeps, LeaveKeeps, ReturnKeeps
      DEF Walk
  <2>2. CASE Fault
    BY <1>1, <2>2, BreaksWell DEF Fault, Still
  <2>3. CASE Edit
    BY <1>1, <2>3, EditKeeps
  <2>4. CASE UNCHANGED vars
    BY <1>1, <2>4
    DEF vars, walker, WalkInv, Shape, Begun, Straight, Diverted, Progress, Listable, Quiet, Over,
        LeadsTo, FilesOf, ListsWhatStayed, ListsWhatWas, FailsOnlyWhenEdited
  <2> QED
    BY <1>1, <2>1, <2>2, <2>3, <2>4 DEF Next
<1> QED
  BY <1>1, StartsWell, PTL DEF Spec

\* An answer is there only when the call is over.
LEMMA AnswersAtTheEnd ==
  ASSUME WalkInv
  PROVE  ListsWhatStayed /\ ListsWhatWas /\ FailsOnlyWhenEdited
<1>1. CASE step = "done"
  BY <1>1 DEF WalkInv, Over
<1>2. CASE step # "done"
  <2>1. answer = NULL
    BY <1>2 DEF WalkInv, Shape
  <2> QED
    BY <2>1 DEF ListsWhatStayed, ListsWhatWas, FailsOnlyWhenEdited
<1> QED
  BY <1>1, <1>2

\* Whatever is created, removed, moved or linked during the call, a listing holds
\* every file that stayed where it was, unless a system call failed by itself
\* (source.rs, walk).
THEOREM StayedIsListed == Spec => []ListsWhatStayed
BY WalkInvariant, AnswersAtTheEnd, PTL

\* ... and what it holds was there at some time, but for a start that vanished
\* and for what is below a link that somebody made on the way meanwhile.
THEOREM ListedWasThere == Spec => []ListsWhatWas
BY WalkInvariant, AnswersAtTheEnd, PTL

\* In a directory nobody edits, and as long as no system call fails by itself,
\* the walk answers what is under the start, and a walk that has begun does not
\* fail, whatever links the directory holds: it enters none of them.
THEOREM FailuresAreEdits == Spec => []FailsOnlyWhenEdited
BY WalkInvariant, AnswersAtTheEnd, PTL

-----------------------------------------------------------------------------
(* The segments of a path, less some of them.                              *)

\* What Without makes of one segment, and of each.
Piece(c, S) == IF c \in S THEN << >> ELSE <<c>>
Pieces(q, S) == [i \in DOMAIN q |-> Piece(q[i], S)]

\* Each segment makes one piece, of at most one segment.
LEMMA PiecesAreSequences ==
  ASSUME NEW T, NEW q \in Seq(T), NEW S
  PROVE  /\ Pieces(q, S) \in Seq(Seq(T)) /\ Len(Pieces(q, S)) = Len(q)
         /\ \A i \in 1..Len(q) : Pieces(q, S)[i] = Piece(q[i], S)
         /\ Without(q, S) = FlattenSeq(Pieces(q, S))
<1>1. Len(q) \in Nat /\ DOMAIN q = 1..Len(q)
  OBVIOUS
<1>2. ASSUME NEW i \in 1..Len(q) PROVE Piece(q[i], S) \in Seq(T)
  <2>1. q[i] \in T
    BY <1>1
  <2>2. <<q[i]>> \in Seq(T) /\ << >> \in Seq(T)
    BY <2>1, EmptySeq
  <2> QED
    BY <2>2 DEF Piece
<1>3. Pieces(q, S) = [i \in 1..Len(q) |-> Piece(q[i], S)]
  BY <1>1 DEF Pieces
<1>4. Without(q, S) = FlattenSeq(Pieces(q, S))
  BY DEF Without, Pieces, Piece
<1>5. Pieces(q, S) \in Seq(Seq(T)) /\ Len(Pieces(q, S)) = Len(q)
  BY <1>1, <1>2, <1>3
<1> QED
  BY <1>3, <1>4, <1>5

\* The empty path stays empty.
LEMMA WithoutEmpty ==
  ASSUME NEW S
  PROVE  Without(<< >>, S) = << >>
<1>1. << >> \in Seq({}) /\ Len(<< >>) = 0
  BY EmptySeq
<1>2. Len(Pieces(<< >>, S)) = 0 /\ Pieces(<< >>, S) \in Seq(Seq({}))
      /\ Without(<< >>, S) = FlattenSeq(Pieces(<< >>, S))
  BY <1>1, PiecesAreSequences
<1>3. Pieces(<< >>, S) = << >>
  BY <1>2, EmptySeq
<1> QED
  BY <1>2, <1>3 DEF FlattenSeq

\* One segment more.
LEMMA WithoutAppend ==
  ASSUME NEW T, NEW q \in Seq(T), NEW c \in T, NEW S
  PROVE  /\ Append(q, c) \in Seq(T)
         /\ Without(Append(q, c), S) =
              IF c \in S THEN Without(q, S) ELSE Append(Without(q, S), c)
<1>1. PICK more : more = Append(q, c)
  OBVIOUS
<1>2. PICK n : n = Len(q)
  OBVIOUS
<1>3. /\ n \in Nat /\ more \in Seq(T) /\ Len(more) = n + 1
      /\ more[n + 1] = c /\ \A i \in 1..n : more[i] = q[i]
  BY <1>1, <1>2, AppendProperties
<1>4. PICK a : a = Pieces(q, S)
  OBVIOUS
<1>5. PICK b : b = Pieces(more, S)
  OBVIOUS
<1>6. PICK x : x = Piece(c, S)
  OBVIOUS
<1>7. /\ a \in Seq(Seq(T)) /\ Len(a) = n /\ \A i \in 1..n : a[i] = Piece(q[i], S)
      /\ Without(q, S) = FlattenSeq(a)
  BY <1>2, <1>4, PiecesAreSequences
<1>8. /\ b \in Seq(Seq(T)) /\ Len(b) = n + 1
      /\ \A i \in 1..(n + 1) : b[i] = Piece(more[i], S)
      /\ Without(more, S) = FlattenSeq(b)
  BY <1>3, <1>5, PiecesAreSequences
<1>9. x \in Seq(T)
  <2>1. <<c>> \in Seq(T) /\ << >> \in Seq(T)
    BY EmptySeq
  <2> QED
    BY <1>6, <2>1 DEF Piece
<1>10. PICK d : d = Append(a, x)
  OBVIOUS
<1>11. /\ d \in Seq(Seq(T)) /\ Len(d) = n + 1
       /\ d[n + 1] = x /\ \A i \in 1..n : d[i] = a[i]
  BY <1>7, <1>9, <1>10, AppendProperties
<1>12. ASSUME NEW i \in 1..(n + 1) PROVE b[i] = d[i]
  <2>1. CASE i = n + 1
    BY <1>3, <1>6, <1>8, <1>11, <2>1
  <2>2. CASE i \in 1..n
    BY <1>3, <1>7, <1>8, <1>11, <2>2
  <2> QED
    BY <1>3, <2>1, <2>2
<1>13. b = d
  BY <1>8, <1>11, <1>12, SeqEqual
<1>14. Without(more, S) = Without(q, S) \o x
  BY <1>7, <1>8, <1>9, <1>10, <1>13, FlattenAppend
<1>15. PICK w \in Seq(T) : w = Without(q, S)
  BY WithoutIsPath
<1>16. w \o << >> = w /\ w \o <<c>> = Append(w, c)
  BY ConcatEmptySeq, AppendIsConcat
<1> QED
  BY <1>1, <1>3, <1>6, <1>14, <1>15, <1>16 DEF Piece

\* What a sequence with one more element holds.
LEMMA SetOfAppend ==
  ASSUME NEW T, NEW q \in Seq(T), NEW c \in T
  PROVE  ToSet(Append(q, c)) = ToSet(q) \cup {c}
<1>1. PICK more : more = Append(q, c)
  OBVIOUS
<1>2. /\ Len(q) \in Nat /\ more \in Seq(T) /\ Len(more) = Len(q) + 1
      /\ more[Len(q) + 1] = c /\ \A i \in 1..Len(q) : more[i] = q[i]
  BY <1>1, AppendProperties
<1>3. DOMAIN more = 1..(Len(q) + 1) /\ DOMAIN q = 1..Len(q)
  BY <1>2
<1>4. ToSet(more) = {more[i] : i \in DOMAIN more} /\ ToSet(q) = {q[i] : i \in DOMAIN q}
  BY DEF ToSet
<1>5. ToSet(more) \subseteq ToSet(q) \cup {c}
  <2>1. SUFFICES ASSUME NEW i \in 1..(Len(q) + 1) PROVE more[i] \in ToSet(q) \cup {c}
    BY <1>3, <1>4
  <2>2. i = Len(q) + 1 \/ i \in 1..Len(q)
    BY <1>2
  <2> QED
    BY <1>2, <1>3, <1>4, <2>2
<1>6. ToSet(q) \cup {c} \subseteq ToSet(more)
  <2>1. Len(q) + 1 \in DOMAIN more /\ \A i \in 1..Len(q) : i \in DOMAIN more
    BY <1>2, <1>3
  <2> QED
    BY <1>2, <1>3, <1>4, <2>1
<1> QED
  BY <1>1, <1>5, <1>6

\* What a sequence of one element holds.
LEMMA SetOfOne ==
  ASSUME NEW c
  PROVE  ToSet(<<c>>) = {c}
<1>1. DOMAIN <<c>> = 1..1 /\ <<c>>[1] = c
  OBVIOUS
<1> QED
  BY <1>1 DEF ToSet

\* What is left holds what is not left out.
LEMMA SetOfWithout ==
  ASSUME NEW T, NEW q \in Seq(T), NEW S
  PROVE  /\ ToSet(Without(q, S)) = ToSet(q) \ S
         /\ ToSet(q) \cap S = {} => Without(q, S) = q
         /\ ToSet(q) \subseteq S => Without(q, S) = << >>
<1> DEFINE Fits(p) == /\ ToSet(Without(p, S)) = ToSet(p) \ S
                      /\ ToSet(p) \cap S = {} => Without(p, S) = p
                      /\ ToSet(p) \subseteq S => Without(p, S) = << >>
           X == {p \in Seq(T) : Fits(p)}
<1>1. << >> \in X
  <2>1. ToSet(<< >>) = {} /\ << >> \in Seq(T)
    BY EmptySeq DEF ToSet
  <2> QED
    BY <2>1, WithoutEmpty
<1>2. ASSUME NEW p \in Seq(T), NEW c \in T, p \in X PROVE Append(p, c) \in X
  <2>1. PICK w \in Seq(T) : w = Without(p, S)
    BY WithoutIsPath
  <2>2. PICK more \in Seq(T) : more = Append(p, c)
    BY AppendProperties
  <2>3. /\ ToSet(w) = ToSet(p) \ S /\ (ToSet(p) \cap S = {} => w = p)
        /\ (ToSet(p) \subseteq S => w = << >>)
    BY <1>2, <2>1
  <2>4. ToSet(more) = ToSet(p) \cup {c} /\ ToSet(Append(w, c)) = ToSet(w) \cup {c}
    BY <2>2, SetOfAppend
  <2>5. Without(more, S) = IF c \in S THEN w ELSE Append(w, c)
    BY <2>1, <2>2, WithoutAppend
  <2>6. CASE c \in S
    <3>1. Without(more, S) = w /\ ToSet(more) \cap S # {}
      BY <2>4, <2>5, <2>6
    <3>2. Fits(more)
      BY <2>3, <2>4, <2>6, <3>1
    <3> QED
      BY <2>2, <3>2
  <2>7. CASE c \notin S
    <3>1. Without(more, S) = Append(w, c) /\ ~(ToSet(more) \subseteq S)
      BY <2>4, <2>5, <2>7
    <3>2. Fits(more)
      BY <2>2, <2>3, <2>4, <2>7, <3>1
    <3> QED
      BY <2>2, <3>2
  <2> QED
    BY <2>6, <2>7
<1> HIDE DEF X
<1>3. Seq(T) \subseteq X
  BY <1>1, <1>2, Sequences
<1> QED
  BY <1>3 DEF X

\* One element more after two sequences in a row.
LEMMA ConcatAppend ==
  ASSUME NEW T, NEW p \in Seq(T), NEW q \in Seq(T), NEW c \in T
  PROVE  p \o q \in Seq(T) /\ p \o Append(q, c) = Append(p \o q, c)
<1>1. PICK e \in Seq(T) : e = <<c>>
  <2>1. <<c>> \in Seq(T)
    OBVIOUS
  <2> QED
    BY <2>1
<1>2. p \o q \in Seq(T)
  BY ConcatProperties
<1>3. Append(q, c) = q \o e /\ Append(p \o q, c) = (p \o q) \o e
  BY <1>1, <1>2, AppendIsConcat
<1>4. p \o (q \o e) = (p \o q) \o e
  BY ConcatAssociative
<1> QED
  BY <1>2, <1>3, <1>4

\* What is left of two paths in a row.
LEMMA WithoutConcat ==
  ASSUME NEW T, NEW p \in Seq(T), NEW q \in Seq(T), NEW S
  PROVE  Without(p \o q, S) = Without(p, S) \o Without(q, S)
<1> DEFINE X == {r \in Seq(T) : Without(p \o r, S) = Without(p, S) \o Without(r, S)}
<1>1. PICK w \in Seq(T) : w = Without(p, S)
  BY WithoutIsPath
<1>2. << >> \in X
  BY <1>1, EmptySeq, ConcatEmptySeq, WithoutEmpty
<1>3. ASSUME NEW r \in Seq(T), NEW c \in T, r \in X PROVE Append(r, c) \in X
  <2>1. PICK v \in Seq(T) : v = Without(r, S)
    BY WithoutIsPath
  <2>2. p \o Append(r, c) = Append(p \o r, c) /\ p \o r \in Seq(T)
    BY ConcatAppend
  <2>3. w \o Append(v, c) = Append(w \o v, c)
    BY ConcatAppend
  <2>4. Without(p \o r, S) = w \o v
    BY <1>1, <1>3, <2>1
  <2>5. Without(Append(p \o r, c), S) = IF c \in S THEN w \o v ELSE Append(w \o v, c)
    <3>1. PICK pr \in Seq(T) : pr = p \o r
      BY <2>2
    <3>2. Without(Append(pr, c), S) = IF c \in S THEN Without(pr, S) ELSE Append(Without(pr, S), c)
      BY WithoutAppend
    <3> QED
      BY <2>4, <3>1, <3>2
  <2>6. Without(Append(r, c), S) = IF c \in S THEN v ELSE Append(v, c)
    BY <2>1, WithoutAppend
  <2>7. Without(p \o Append(r, c), S) = w \o Without(Append(r, c), S)
    BY <2>2, <2>3, <2>5, <2>6
  <2> QED
    BY <1>1, <2>7, AppendProperties
<1> HIDE DEF X
<1>4. Seq(T) \subseteq X
  BY <1>2, <1>3, Sequences
<1> QED
  BY <1>4 DEF X

-----------------------------------------------------------------------------
(* normalize.                                                              *)

\* q is cut in two before its element m.
IsCut(q, m, a, b) ==
  /\ q = a \o b /\ b = SubSeq(q, m, Len(q)) /\ b # << >>
  /\ ToSet(q) = ToSet(a) \cup ToSet(b)
  /\ \A c : (\A j \in 1..(m - 1) : q[j] = c) => ToSet(a) \subseteq {c}

\* A sequence, from its first elements and the others.
LEMMA Cut ==
  ASSUME NEW T, NEW q \in Seq(T), NEW m \in 1..Len(q)
  PROVE  \E a, b \in Seq(T) : IsCut(q, m, a, b)
<1>1. PICK n : n = Len(q)
  OBVIOUS
<1>2. /\ n \in Nat /\ m \in 1..n /\ m - 1 \in Nat /\ m - 1 <= n
      /\ \A i \in 1..n : q[i] \in T
  BY <1>1
<1>3. PICK a : a = SubSeq(q, 1, m - 1)
  OBVIOUS
<1>4. PICK b : b = SubSeq(q, m, n)
  OBVIOUS
<1>5. /\ a \in Seq(T) /\ Len(a) = m - 1
      /\ \A i \in 1..(m - 1) : a[i] = q[i]
  BY <1>2, <1>3, SubSeqProperties
<1>6. /\ b \in Seq(T) /\ Len(b) = n - m + 1
      /\ \A i \in 1..(n - m + 1) : b[i] = q[m + i - 1]
  BY <1>2, <1>4, SubSeqProperties
<1>7. a \o b = q
  <2>1. 1 \in 1..(Len(q) + 1) /\ m - 1 \in 0..Len(q) /\ n \in (m - 1)..Len(q)
    BY <1>1, <1>2
  <2>2. (m - 1) + 1 = m /\ 1 - 1 = 0
    BY <1>2
  <2>3. SubSeq(q, 1, m - 1) \o SubSeq(q, (m - 1) + 1, n) = SubSeq(q, 1, n)
    BY <2>1, <2>2, ConcatAdjacentSubSeq
  <2> QED
    BY <1>1, <1>3, <1>4, <2>2, <2>3, SubSeqFull
<1>8. ToSet(a) = {q[j] : j \in 1..(m - 1)}
  <2>1. DOMAIN a = 1..(m - 1)
    BY <1>2, <1>5
  <2> QED
    BY <1>5, <2>1 DEF ToSet
<1>9. ToSet(b) = {q[j] : j \in m..n}
  <2>1. DOMAIN b = 1..(n - m + 1)
    BY <1>2, <1>6
  <2>2. ToSet(b) = {b[i] : i \in 1..(n - m + 1)}
    BY <2>1 DEF ToSet
  <2>3. ASSUME NEW i \in 1..(n - m + 1) PROVE b[i] \in {q[j] : j \in m..n}
    <3>1. m + i - 1 \in m..n
      BY <1>2
    <3> QED
      BY <1>6, <3>1
  <2>4. ASSUME NEW j \in m..n PROVE q[j] \in {b[i] : i \in 1..(n - m + 1)}
    <3>1. j - m + 1 \in 1..(n - m + 1) /\ m + (j - m + 1) - 1 = j
      BY <1>2
    <3>2. b[j - m + 1] = q[j]
      BY <1>6, <3>1
    <3> QED
      BY <3>1, <3>2
  <2> QED
    BY <2>2, <2>3, <2>4
<1>10. b # << >>
  <2>1. Len(b) # 0
    BY <1>2, <1>6
  <2> QED
    BY <2>1, EmptySeq
<1>11. ToSet(q) = ToSet(a) \cup ToSet(b)
  <2>1. \A j \in 1..n : j \in 1..(m - 1) \/ j \in m..n
    BY <1>2
  <2>2. \A j : j \in 1..(m - 1) \/ j \in m..n => j \in 1..n
    BY <1>2
  <2>3. ToSet(q) = {q[j] : j \in 1..n}
    BY <1>1 DEF ToSet
  <2> QED
    BY <1>8, <1>9, <2>1, <2>2, <2>3
<1>12. ASSUME NEW c, \A j \in 1..(m - 1) : q[j] = c PROVE ToSet(a) \subseteq {c}
  BY <1>8, <1>12
<1>13. IsCut(q, m, a, b)
  BY <1>1, <1>4, <1>7, <1>10, <1>11, <1>12 DEF IsCut
<1> QED
  BY <1>5, <1>6, <1>13

\* Trimming takes nothing but segments ".".
LEMMA TrimmedKeeps ==
  ASSUME NEW T, NEW q \in Seq(T) \ {<< >>}
  PROVE  /\ Trimmed(q) \in Seq(T) \ {<< >>}
         /\ Head(Trimmed(q)) \in ToSet(Trimmed(q))
         /\ ToSet(Trimmed(q)) \subseteq ToSet(q)
         /\ ToSet(q) \subseteq ToSet(Trimmed(q)) \cup {"."}
         /\ \A S : "." \in S => Without(Trimmed(q), S) = Without(q, S)
<1>1. PICK m \in 1..Len(q) : /\ Trimmed(q) = SubSeq(q, m, Len(q))
                             /\ \A j \in 1..(m - 1) : q[j] = "."
  BY TrimmedIsPath
<1>2. q \in Seq(T)
  OBVIOUS
<1>3. PICK a, b \in Seq(T) :
        /\ q = a \o b /\ b = SubSeq(q, m, Len(q)) /\ b # << >>
        /\ ToSet(q) = ToSet(a) \cup ToSet(b)
        /\ \A c : (\A j \in 1..(m - 1) : q[j] = c) => ToSet(a) \subseteq {c}
  <2>1. \E a, b \in Seq(T) : IsCut(q, m, a, b)
    BY <1>2, Cut
  <2> QED
    BY <2>1 DEF IsCut
<1>4. ToSet(a) \subseteq {"."}
  BY <1>1, <1>3
<1>5. Head(b) \in ToSet(b)
  <2>1. Head(b) = b[1] /\ 1 \in DOMAIN b
    BY <1>3, EmptySeq
  <2> QED
    BY <2>1 DEF ToSet
<1>6. ASSUME NEW S, "." \in S PROVE Without(b, S) = Without(q, S)
  <2>1. Without(a, S) = << >>
    <3>1. a \in Seq(T) /\ ToSet(a) \subseteq S
      BY <1>3, <1>4, <1>6
    <3> QED
      BY <3>1, SetOfWithout
  <2>2. Without(q, S) = Without(a, S) \o Without(b, S)
    <3>1. Without(a \o b, S) = Without(a, S) \o Without(b, S)
      BY WithoutConcat
    <3> QED
      BY <1>3, <3>1
  <2>3. Without(b, S) \in Seq(T)
    BY <1>3, WithoutIsPath
  <2> QED
    BY <2>1, <2>2, <2>3, ConcatEmptySeq
<1> QED
  BY <1>1, <1>3, <1>4, <1>5, <1>6

\* Without backslashes, replacing them changes nothing.
LEMMA SlashedKeeps ==
  ASSUME NEW T, NEW q \in Seq(T), ToSet(q) \cap DOMAIN Backslash = {}
  PROVE  Slashed(q) = q
<1>1. ASSUME NEW i \in DOMAIN q PROVE q[i] \notin DOMAIN Backslash
  BY <1>1 DEF ToSet
<1>2. Slashed(q) = FlattenSeq([i \in DOMAIN q |-> <<q[i]>>])
  BY <1>1 DEF Slashed
<1>3. Without(q, {}) = FlattenSeq([i \in DOMAIN q |-> <<q[i]>>])
  BY DEF Without
<1>4. Without(q, {}) = q
  BY SetOfWithout
<1> QED
  BY <1>2, <1>3, <1>4

\* What normalize leaves out.
Nothing == {"", "."}

\* What normalize refuses, wherever it is.
Refused == Colon \cup {".."}

\* normalize refuses a path that leads nowhere or is suspicious, and answers
\* the names of any other.
LEMMA NormalForms ==
  ASSUME NEW path \in Seq(STRING) \ {<< >>}
  PROVE  LET trimmed == Trimmed(Slashed(path))
             names == Without(Slashed(path), Nothing) IN
         /\ Slashed(path) \in Seq(STRING) \ {<< >>} /\ names \in Seq(STRING)
         /\ ToSet(Slashed(path)) \cap Refused # {} <=> ToSet(trimmed) \cap Refused # {}
         /\ \/ /\ Normalize(path) = Failed("NotFound") /\ names = << >>
               /\ ToSet(Slashed(path)) \cap {".."} = {}
            \/ /\ Normalize(path) = Failed("Escapes")
               /\ Head(trimmed) = "" \/ ToSet(trimmed) \cap Refused # {}
            \/ /\ Normalize(path) = Ok(names) /\ names # << >>
               /\ ToSet(Slashed(path)) \cap Refused = {}
<1>1. PICK s \in Seq(STRING) \ {<< >>} : s = Slashed(path)
  BY SlashedIsPath
<1>2. PICK t \in Seq(STRING) \ {<< >>} : t = Trimmed(s)
  BY TrimmedKeeps
<1>3. /\ ToSet(t) \subseteq ToSet(s) /\ ToSet(s) \subseteq ToSet(t) \cup {"."}
      /\ Without(t, Nothing) = Without(s, Nothing)
  BY <1>2, TrimmedKeeps DEF Nothing
<1>4. PICK names \in Seq(STRING) : names = Without(s, Nothing)
  BY WithoutIsPath
<1>5. "." \notin Refused
  BY SourceAssumption DEF Refused, Segments
<1>6. Normalize(path) = IF t = <<"">> THEN Failed("NotFound")
                        ELSE IF Head(t) = "" \/ ToSet(t) \cap Refused # {} THEN Failed("Escapes")
                        ELSE IF names = << >> THEN Failed("NotFound") ELSE Ok(names)
  BY <1>1, <1>2, <1>3, <1>4 DEF Normalize, Nothing, Refused
<1>7. ToSet(s) \cap Refused # {} <=> ToSet(t) \cap Refused # {}
  BY <1>3, <1>5
<1>8. ".." \in Refused
  BY DEF Refused
<1>9. CASE t = <<"">>
  <2>1. ToSet(t) = {""}
    BY <1>9, SetOfOne
  <2>2. names = << >>
    <3>1. ToSet(t) \subseteq Nothing
      BY <2>1 DEF Nothing
    <3>2. Without(t, Nothing) = << >>
      BY <3>1, SetOfWithout
    <3> QED
      BY <1>3, <1>4, <3>2
  <2>3. ToSet(s) \cap {".."} = {}
    BY <1>3, <2>1
  <2>4. Normalize(path) = Failed("NotFound")
    BY <1>6, <1>9
  <2> QED
    BY <1>1, <1>2, <1>4, <1>7, <2>2, <2>3, <2>4
<1>10. CASE t # <<"">> /\ (Head(t) = "" \/ ToSet(t) \cap Refused # {})
  <2>1. Normalize(path) = Failed("Escapes")
    BY <1>6, <1>10
  <2> QED
    BY <1>1, <1>2, <1>4, <1>7, <1>10, <2>1
<1>11. CASE t # <<"">> /\ ~(Head(t) = "" \/ ToSet(t) \cap Refused # {})
  <2>1. Normalize(path) = IF names = << >> THEN Failed("NotFound") ELSE Ok(names)
    BY <1>6, <1>11
  <2>2. ToSet(s) \cap Refused = {} /\ ToSet(s) \cap {".."} = {}
    BY <1>7, <1>8, <1>11
  <2> QED
    BY <1>1, <1>2, <1>4, <1>7, <2>1, <2>2
<1> QED
  BY <1>9, <1>10, <1>11

\* A path that is made of names of files, up to what is left out.
LEMMA Spelt ==
  ASSUME NEW path \in Seq(STRING) \ {<< >>}, ToSet(path) \cap DOMAIN Backslash = {},
         NEW p, p = Without(path, Nothing)
  PROVE  /\ Normalize(path) \in {Failed("NotFound"), Failed("Escapes"), Ok(p)}
         /\ ToSet(path) \subseteq Names /\ p # << >> => Normalize(path) = Ok(p)
<1>1. Slashed(path) = path
  BY SlashedKeeps
<1>2. Normalize(path) \in {Failed("NotFound"), Failed("Escapes"), Ok(p)}
  BY <1>1, NormalForms
<1>3. ASSUME ToSet(path) \subseteq Names, p # << >> PROVE Normalize(path) = Ok(p)
  <2>1. PICK t : t = Trimmed(path)
    OBVIOUS
  <2>2. ToSet(t) \subseteq Names /\ Head(t) \in Names
    BY <1>3, <2>1, TrimmedKeeps
  <2>3. Names \cap Refused = {} /\ "" \notin Names
    BY SourceAssumption DEF Refused, Segments
  <2>4. ~(Head(t) = "" \/ ToSet(t) \cap Refused # {})
    BY <2>2, <2>3
  <2> QED
    BY <1>1, <1>3, <2>1, <2>4, NormalForms
<1> QED
  BY <1>2, <1>3

-----------------------------------------------------------------------------
(* canonicalize.                                                           *)

\* Without links, a path leads to itself or nowhere.
LEMMA NoDetours ==
  ASSUME NEW t, TreeOK(t), \A p \in DOMAIN t : ~IsLink(t, p), NEW T, NEW q \in Seq(T)
  PROVE  \/ Canonicalize(t, q) = Ok(q) /\ q \in DOMAIN t
         \/ Canonicalize(t, q) \in {Failed("Io"), Failed("NotFound")}
<1> DEFINE Fits(p) == \/ Canonicalize(t, p) = Ok(p) /\ p \in DOMAIN t
                      \/ Canonicalize(t, p) \in {Failed("Io"), Failed("NotFound")}
           X == {p \in Seq(T) : Fits(p)}
<1>1. Root \in DOMAIN t
  BY Grounds
<1>2. << >> \in X
  BY <1>1, ResolutionStarts, EmptySeq DEF Root
<1>3. ASSUME NEW p \in Seq(T), NEW c \in T, p \in X PROVE Append(p, c) \in X
  <2>1. PICK at : at = Canonicalize(t, p)
    OBVIOUS
  <2>2. PICK m : m = Append(p, c)
    OBVIOUS
  <2>3. Canonicalize(t, m) = Entered(t, at, c) /\ at \in Places(t)
    BY <1>1, <2>1, <2>2, ResolutionGoesOn
  <2>4. m \in Seq(T)
    BY <2>2, AppendProperties
  <2>5. Entered(t, at, c) \in Places(t)
    BY <2>3, EnteredIsPlace
  <2>6. ~IsLink(t, m)
    BY DEF IsLink, Exists
  <2>7. CASE at = Ok(p)
    <3>1. \/ ~IsOk(Entered(t, at, c))
          \/ Entered(t, at, c) = Ok(m)
      BY <2>2, <2>6, <2>7, EnteredStraight
    <3>2. Entered(t, at, c) = Ok(m) => m \in DOMAIN t
      BY <2>5, Results
    <3>3. ~IsOk(Entered(t, at, c)) => Entered(t, at, c) \in {Failed("Io"), Failed("NotFound")}
      BY <2>5, Results DEF Places
    <3> QED
      BY <2>2, <2>3, <2>4, <3>1, <3>2, <3>3
  <2>8. CASE at \in {Failed("Io"), Failed("NotFound")}
    <3>1. Entered(t, at, c) = at
      BY <2>8, Results DEF Entered
    <3> QED
      BY <2>2, <2>3, <2>4, <2>8, <3>1
  <2> QED
    BY <1>3, <2>1, <2>7, <2>8
<1> HIDE DEF X
<1>4. Seq(T) \subseteq X
  BY <1>2, <1>3, Sequences
<1> QED
  BY <1>4 DEF X

\* A prefix and one element more.
LEMMA NextUpto ==
  ASSUME NEW T, NEW q \in Seq(T), NEW i \in 1..Len(q)
  PROVE  /\ Upto(q, i - 1) \in Seq(T) /\ q[i] \in T /\ q[i] \in ToSet(q)
         /\ Upto(q, i) = Append(Upto(q, i - 1), q[i])
<1>1. /\ Len(q) \in Nat /\ i \in Nat /\ q[i] \in T /\ i \in DOMAIN q
      /\ \A j \in 1..(i - 1) : q[j] \in T
  OBVIOUS
<1>2. Upto(q, i - 1) \in Seq(T)
  BY <1>1, SubSeqProperties DEF Upto
<1>3. 1 \in 1..Len(q) /\ i \in 1..Len(q)
  BY <1>1
<1>4. SubSeq(q, 1, i) = SubSeq(q, 1, i - 1) \o <<q[i]>>
  BY <1>3, SubSeqRecursiveSecond
<1>5. Append(Upto(q, i - 1), q[i]) = Upto(q, i - 1) \o <<q[i]>>
  BY <1>1, <1>2, AppendIsConcat
<1>6. q[i] \in ToSet(q)
  BY <1>1 DEF ToSet
<1> QED
  BY <1>1, <1>2, <1>4, <1>5, <1>6 DEF Upto

\* The operating system arrives where canonicalize does, unless the path
\* goes up.
LEMMA ReachedIs ==
  ASSUME Root \in DOMAIN folder, NEW T, NEW path \in Seq(T), ".." \notin ToSet(path)
  PROVE  Reached(path) = Canonicalize(folder, Without(path, Nothing))
<1> DEFINE G(i) == Canonicalize(folder, Without(Upto(path, i), Nothing))
<1>1. PICK n : n = Len(path)
  OBVIOUS
<1>2. n \in Nat
  BY <1>1
<1>3. G(0) = Ok(Root)
  <2>1. Upto(path, 0) = << >>
    BY SubSeqEmpty DEF Upto
  <2> QED
    BY <2>1, WithoutEmpty, ResolutionStarts
<1>4. ASSUME NEW i \in 1..n PROVE G(i) = Followed(G(i - 1), path[i])
  <2>1. PICK q \in Seq(T) : q = Upto(path, i - 1)
    BY <1>1, NextUpto
  <2>2. PICK c \in T : c = path[i]
    BY <1>1, NextUpto
  <2>3. Upto(path, i) = Append(q, c) /\ c # ".."
    BY <1>1, <2>1, <2>2, NextUpto
  <2>4. PICK w \in Seq(T) : w = Without(q, Nothing)
    BY WithoutIsPath
  <2>5. PICK at : at = Canonicalize(folder, w)
    OBVIOUS
  <2>6. G(i) = Canonicalize(folder, IF c \in Nothing THEN w ELSE Append(w, c))
    <3>1. Without(Append(q, c), Nothing) = IF c \in Nothing THEN w ELSE Append(w, c)
      BY <2>4, WithoutAppend
    <3> QED
      BY <2>3, <3>1
  <2>7. Canonicalize(folder, Append(w, c)) = Entered(folder, at, c)
    BY <2>5, ResolutionGoesOn
  <2>8. ~IsOk(at) => Entered(folder, at, c) = at
    BY DEF Entered
  <2>9. Followed(at, c) = IF ~IsOk(at) \/ c \in Nothing THEN at ELSE Entered(folder, at, c)
    BY <2>3 DEF Followed, Nothing
  <2>10. G(i - 1) = at
    BY <2>1, <2>4, <2>5
  <2> HIDE DEF G
  <2> QED
    BY <2>2, <2>5, <2>6, <2>7, <2>8, <2>9, <2>10
<1> DEFINE Def(h) == h = [i \in 0..n |-> IF i = 0 THEN Ok(Root) ELSE Followed(h[i - 1], path[i])]
           g == [i \in 0..n |-> G(i)]
<1> HIDE DEF G
<1>5. Def(g)
  <2>1. g[0] = Ok(Root)
    BY <1>2, <1>3
  <2>2. ASSUME NEW i \in 1..n PROVE g[i] = Followed(g[i - 1], path[i])
    <3>1. i - 1 \in 0..n /\ i \in 0..n
      BY <1>2
    <3> QED
      BY <1>4, <3>1
  <2>3. \A i \in 0..n : i = 0 \/ i \in 1..n
    BY <1>2
  <2>4. \A i \in 1..n : i # 0
    BY <1>2
  <2> HIDE DEF g
  <2>5. \A i \in 0..n : g[i] = IF i = 0 THEN Ok(Root) ELSE Followed(g[i - 1], path[i])
    BY <2>1, <2>2, <2>3, <2>4
  <2> QED
    BY <2>5 DEF g
<1>6. PICK h : Def(h) /\ Reached(path) = h[n]
  <2>1. Def(CHOOSE h : Def(h))
    BY <1>5
  <2>2. Reached(path) = (CHOOSE h : Def(h))[n]
    BY <1>1 DEF Reached
  <2> QED
    BY <2>1, <2>2
<1>7. h[0] = Ok(Root) /\ \A i \in 1..n : h[i] = Followed(h[i - 1], path[i])
  BY <1>2, <1>6
<1> DEFINE Good == {m \in Nat : m <= n => h[m] = G(m)}
<1>8. 0 \in Good
  BY <1>3, <1>7
<1>9. ASSUME NEW m \in Nat, m \in Good PROVE m + 1 \in Good
  <2>1. SUFFICES ASSUME m + 1 <= n PROVE h[m + 1] = G(m + 1)
    OBVIOUS
  <2>2. m + 1 \in 1..n /\ (m + 1) - 1 = m /\ m <= n
    BY <1>2, <2>1
  <2>3. h[m + 1] = Followed(h[m], path[m + 1]) /\ G(m + 1) = Followed(G(m), path[m + 1])
    BY <1>4, <1>7, <2>2
  <2> QED
    BY <1>9, <2>2, <2>3
<1> HIDE DEF Good
<1>10. h[n] = G(n)
  <2>1. Nat \subseteq Good
    BY <1>8, <1>9, Naturals
  <2> QED
    BY <1>2, <2>1 DEF Good
<1>11. Upto(path, n) = path
  BY <1>1, SubSeqFull DEF Upto
<1> QED
  BY <1>6, <1>10, <1>11 DEF G

-----------------------------------------------------------------------------
(* What the sources answer.                                                *)

\* The failures and successes that are told apart.
LEMMA Errors ==
  /\ \A v : Ok(v).error = "none" /\ Ok(v).value = v /\ IsOk(Ok(v))
  /\ \A e : Failed(e).error = e /\ (e # "none" => ~IsOk(Failed(e)))
BY DEF Ok, Failed, IsOk

\* What normalize answers is a path of one name or more, and not outside.
LEMMA NormalNames ==
  ASSUME NEW path \in Seq(STRING) \ {<< >>}
  PROVE  \/ Normalize(path) \in {Failed("NotFound"), Failed("Escapes")}
         \/ \E q \in Seq(STRING) : Normalize(path) = Ok(q) /\ q # Outside
<1>1. PICK s \in Seq(STRING) : s = Slashed(path)
  BY NormalForms
<1>2. PICK q \in Seq(STRING) : q = Without(s, Nothing)
  BY WithoutIsPath
<1>3. \/ Normalize(path) \in {Failed("NotFound"), Failed("Escapes")}
      \/ Normalize(path) = Ok(q) /\ ToSet(s) \cap Refused = {}
  BY <1>1, <1>2, NormalForms
<1>4. ToSet(q) \subseteq ToSet(s)
  BY <1>2, SetOfWithout
<1>5. ".." \in Refused /\ ToSet(Outside) = {".."}
  BY SetOfOne DEF Refused, Outside
<1>6. ToSet(s) \cap Refused = {} => q # Outside
  BY <1>4, <1>5
<1> QED
  BY <1>3, <1>6

\* Without links, what a path resolves to.
LEMMA Resolves ==
  ASSUME NEW t, TreeOK(t), \A p \in DOMAIN t : ~IsLink(t, p),
         NEW path, NEW q \in Seq(STRING), Normalize(path) = Ok(q), q # Outside
  PROVE  /\ q \in DOMAIN t => Resolve(t, path) = Ok(q) /\ q \in Paths
         /\ q \notin DOMAIN t => Resolve(t, path) \in {Failed("Io"), Failed("NotFound")}
<1>1. PICK real : real = Canonicalize(t, q)
  OBVIOUS
<1>2. Resolve(t, path) = IF IsOk(real) /\ ~Inside(real.value) THEN Failed("Escapes") ELSE real
  BY <1>1, Errors DEF Resolve
<1>3. \/ real = Ok(q) /\ q \in DOMAIN t
      \/ real \in {Failed("Io"), Failed("NotFound")}
  BY <1>1, NoDetours
<1>4. ASSUME q \in DOMAIN t PROVE Resolve(t, path) = Ok(q) /\ q \in Paths
  <2>1. q \in Paths /\ Inside(q) /\ ~IsLink(t, q)
    BY <1>4, EntryPath
  <2>2. real = Ok(q)
    BY <1>1, <1>4, <2>1, WayIsThere
  <2> QED
    BY <1>2, <2>1, <2>2, Errors
<1>5. ASSUME q \notin DOMAIN t PROVE Resolve(t, path) \in {Failed("Io"), Failed("NotFound")}
  BY <1>2, <1>3, <1>5, Errors
<1> QED
  BY <1>4, <1>5

\* Under what is not there, there is nothing.
LEMMA NothingUnder ==
  ASSUME NEW t, TreeOK(t), NEW T, NEW q \in Seq(T), q \notin DOMAIN t, NEW p \in FilesOf(t)
  PROVE  ~IsPrefix(q, p)
<1>1. SUFFICES ASSUME IsPrefix(q, p) PROVE FALSE
  OBVIOUS
<1>2. p \in DOMAIN t \cap Paths /\ Len(p) \in Nat
  BY FilesAreThere DEF Paths
<1>3. PICK k : k = Len(q)
  OBVIOUS
<1>4. k \in Nat /\ k <= Len(p) /\ SubSeq(q, 1, k) = q
  <2>1. k \in Nat /\ SubSeq(q, 1, k) = q
    BY <1>3, SubSeqFull
  <2>2. k <= Len(p)
    BY <1>1, <1>3 DEF IsPrefix
  <2> QED
    BY <2>1, <2>2
<1>5. q = Upto(p, k)
  BY <1>1, <1>3, <1>4 DEF IsPrefix, Upto
<1>6. CASE k < Len(p)
  BY <1>2, <1>4, <1>5, <1>6, Ancestors, DirsAreNoLinks
<1>7. CASE k = Len(p)
  BY <1>2, <1>5, <1>7, UptoEnds
<1> QED
  BY <1>2, <1>4, <1>6, <1>7

-----------------------------------------------------------------------------
(* The inductive invariant.                                                *)

\* What the archive is to hold of a file.
Archived(p) == [data |-> folder[p].data, mode |-> folder[p].mode]

\* The archive holds files of the directory, and what is not left to be
\* appended, which could be read, as it is now.
Held ==
  /\ DOMAIN entries \subseteq FilesOf(folder)
  /\ \A p \in FilesOf(folder) \ left :
       p \in DOMAIN entries /\ entries[p] = Archived(p) /\ folder[p].data # Unreadable

\* The directory is a tree, no link is archived, and the archive holds the
\* directory unless insert rewrites names.
UploadInv ==
  /\ TreeOK(folder)
  /\ phase = "edit" => entries = NoEntries
  /\ phase = "pack" => /\ \A p \in DOMAIN folder : ~IsLink(folder, p)
                       /\ left \subseteq FilesOf(folder)
                       /\ NamesAreKept => Held

\* At first there is nothing.
LEMMA UploadStarts == ASSUME UploadInit PROVE UploadInv
<1>1. DOMAIN folder = {Root, Outside} /\ folder[Root] = Dir
      /\ folder[Outside] = File(Secret, {})
  BY PathsAreInside, EmptySeq DEF UploadInit, Outside, Root, Paths
<1>2. IsTree(folder)
  BY <1>1 DEF IsTree, IsDir, Exists, Dir, File
<1>3. Root \in Paths /\ Root # Outside /\ Len(Root) = 0
  BY PathsAreInside, EmptySeq DEF Root, Paths
<1>4. TreeOK(folder)
  BY <1>1, <1>2, <1>3, DepthIsNat DEF TreeOK
<1> QED
  BY <1>4 DEF UploadInit, UploadInv

\* The author adds to the directory.
LEMMA CreateKeeps ==
  ASSUME UploadInv, NEW at \in DOMAIN folder, NEW name \in Segments, Make(at, name)
  PROVE  UploadInv'
<1>1. PICK p : p = Append(at, name)
  OBVIOUS
<1>2. PICK node : folder' = [q \in DOMAIN folder \cup {p} |-> IF q = p THEN node ELSE folder[q]]
  BY <1>1 DEF Make, Put
<1>3. /\ phase = "edit" /\ UNCHANGED <<entries, phase>>
      /\ IsDir(folder, at) /\ Len(at) < MaxDepth /\ p \notin DOMAIN folder
  BY <1>1 DEF Make, Exists
<1>4. folder' = WithNew(folder, p, node)
  <2>1. \A q \in DOMAIN folder \cup {p} : (IF q = p THEN node ELSE folder[q])
                                       = (IF q \in DOMAIN folder THEN folder[q] ELSE node)
    BY <1>3
  <2> QED
    BY <1>2, <2>1 DEF WithNew
<1>5. TreeOK(folder')
  <2>1. TreeOK(folder) /\ ~Exists(folder, Append(at, name))
    BY <1>1, <1>3 DEF UploadInv, Exists
  <2>2. TreeOK(WithNew(folder, Append(at, name), node))
    BY <1>3, <2>1, Grown
  <2> QED
    BY <1>1, <1>4, <2>2
<1> QED
  BY <1>3, <1>5 DEF UploadInv

\* The archive is begun.
LEMMA BeginKeeps == ASSUME UploadInv, Begin PROVE UploadInv'
<1>1. /\ phase' = "pack" /\ left' = FilesOf(folder) /\ folder' = folder
      /\ entries' = NoEntries /\ \A p \in DOMAIN folder : ~IsLink(folder, p)
  BY DEF Begin, UploadInv
<1>2. DOMAIN NoEntries = {}
  BY DEF NoEntries
<1> QED
  BY <1>1, <1>2 DEF UploadInv, Held

\* Another node at the path of a file makes another file of it.
LEMMA RewriteKeeps ==
  ASSUME UploadInv, NEW p \in DOMAIN folder, Rewrite(p)
  PROVE  UploadInv'
<1>1. PICK d, m : folder' = [q \in DOMAIN folder \cup {p} |-> IF q = p THEN File(d, m) ELSE folder[q]]
  BY DEF Rewrite, Put
<1>2. /\ DOMAIN folder' = DOMAIN folder /\ folder'[p] = File(d, m)
      /\ \A q \in DOMAIN folder \ {p} : folder'[q] = folder[q]
  BY <1>1
<1>3. /\ phase = "pack" /\ phase' = "pack" /\ entries' = entries
      /\ left' = left \cup {p} /\ p \in FilesOf(folder) /\ TreeOK(folder)
  BY DEF Rewrite, UploadInv
<1>4. p \in Paths /\ ~IsDir(folder, p) /\ p # Outside
  BY <1>3, FilesAreThere, PathsAreInside
<1>5. \A q : /\ IsDir(folder', q) <=> IsDir(folder, q)
             /\ IsLink(folder', q) => IsLink(folder, q)
  BY <1>2, <1>4 DEF IsDir, IsLink, Exists, File
<1>6. FilesOf(folder') = FilesOf(folder)
  BY <1>2, <1>5 DEF FilesOf, FilesUnder
<1>7. TreeOK(folder')
  BY <1>2, <1>3, <1>4, <1>5 DEF TreeOK, IsTree, Exists
<1>8. \A q \in FilesOf(folder) \ left' :
        Archived(q)' = Archived(q) /\ q \notin left /\ folder'[q].data = folder[q].data
  <2>1. \A q \in FilesOf(folder) : q \in DOMAIN folder
    BY <1>3, FilesAreThere
  <2> QED
    BY <1>2, <1>3, <2>1 DEF Archived
<1>9. NamesAreKept' <=> NamesAreKept
  BY <1>2 DEF NamesAreKept
<1> QED
  BY <1>2, <1>3, <1>5, <1>6, <1>7, <1>8, <1>9 DEF UploadInv, Held

\* q is another spelling of p, less S.
Spells(T, S, p, q) == q \in Seq(T) /\ q # << >> /\ Without(q, S) = p

\* Two elements.
LEMMA Two ==
  ASSUME NEW T, NEW h \in T, NEW a \in T, NEW y \in Seq(T)
  PROVE  /\ Append(y, a) \in Seq(T)
         /\ Len(y) = 1 /\ y[1] = h => Append(y, a) = <<h, a>> /\ Len(Append(y, a)) = 2
<1>1. PICK z : z = Append(y, a)
  OBVIOUS
<1>2. PICK n : n = Len(y)
  OBVIOUS
<1>3. /\ z \in Seq(T) /\ Len(z) = n + 1
      /\ z[n + 1] = a /\ \A i \in 1..n : z[i] = y[i]
  BY <1>1, <1>2, AppendProperties
<1>4. ASSUME n = 1, y[1] = h PROVE z = <<h, a>> /\ Len(z) = 2
  <2>1. Len(z) = 2 /\ z[1] = h /\ z[2] = a
    BY <1>3, <1>4
  <2>2. PICK w \in Seq(T) : w = <<h, a>>
    <3>1. <<h, a>> \in Seq(T)
      OBVIOUS
    <3> QED
      BY <3>1
  <2>3. Len(w) = 2 /\ w[1] = h /\ w[2] = a
    BY <2>2
  <2>4. \A i \in 1..2 : z[i] = w[i]
    <3>1. \A i \in 1..2 : i = 1 \/ i = 2
      OBVIOUS
    <3> QED
      BY <2>1, <2>3, <3>1
  <2>5. z = w
    BY <1>3, <2>1, <2>3, <2>4, SeqEqual
  <2> QED
    BY <2>1, <2>2, <2>5
<1> QED
  BY <1>1, <1>2, <1>3, <1>4

\* A path with a segment more that is left out: before it, after it, and after
\* its first segment.
LEMMA OneMore ==
  ASSUME NEW T, NEW S, NEW p \in Seq(T), p # << >>, ToSet(p) \cap S = {}, NEW a \in T, a \in S
  PROVE  /\ Spells(T, S, p, <<a>> \o p) /\ Spells(T, S, p, Append(p, a))
         /\ Spells(T, S, p, <<Head(p), a>> \o Tail(p))
<1>0. \A v, w \in Seq(T) : Without(v \o w, S) = Without(v, S) \o Without(w, S)
  BY WithoutConcat
<1>1. PICK n : n = Len(p)
  OBVIOUS
<1>2. n \in Nat /\ 1 \in 1..n /\ n \in 1..n /\ p[1] \in T
  BY <1>1, EmptySeq
<1>3. PICK h \in T : h = Head(p) /\ h = p[1]
  BY <1>2
<1>4. PICK r \in Seq(T) : r = Tail(p) /\ r = SubSeq(p, 2, n)
  BY <1>1, HeadTailProperties, TailIsSubSeq
<1>5. p = <<h>> \o r
  <2>1. SubSeq(p, 1, n) = <<p[1]>> \o SubSeq(p, 1 + 1, n)
    BY <1>1, <1>2, SubSeqRecursiveFirst
  <2> QED
    BY <1>1, <1>3, <1>4, <2>1, SubSeqFull
<1>6. PICK x \in Seq(T) : x = <<a>>
  <2>1. <<a>> \in Seq(T)
    OBVIOUS
  <2> QED
    BY <2>1
<1>7. PICK y \in Seq(T) : y = <<h>>
  <2>1. <<h>> \in Seq(T)
    OBVIOUS
  <2> QED
    BY <2>1
<1>8. Without(x, S) = << >>
  <2>1. ToSet(x) \subseteq S
    BY <1>6, SetOfOne
  <2> QED
    BY <2>1, SetOfWithout
<1>9. Without(p, S) = p
  BY SetOfWithout
<1>10. Without(y, S) \o Without(r, S) = p
  <2>1. Without(y \o r, S) = Without(y, S) \o Without(r, S)
    BY WithoutConcat
  <2> QED
    BY <1>5, <1>7, <1>9, <2>1
<1>11. Spells(T, S, p, x \o p)
  <2>1. Without(x \o p, S) = Without(x, S) \o Without(p, S)
    BY WithoutConcat
  <2>2. << >> \o p = p
    BY ConcatEmptySeq
  <2>3. x \o p \in Seq(T) /\ Len(x \o p) = Len(x) + Len(p) /\ Len(x) = 1
    BY <1>6, ConcatProperties
  <2>4. Len(x \o p) # 0
    BY <1>1, <1>2, <2>3
  <2> QED
    BY <1>8, <1>9, <2>1, <2>2, <2>3, <2>4, EmptySeq DEF Spells
<1>12. Spells(T, S, p, Append(p, a))
  <2>1. Append(p, a) \in Seq(T) /\ Len(Append(p, a)) = n + 1
    BY <1>1, AppendProperties
  <2>2. Without(Append(p, a), S) = IF a \in S THEN Without(p, S) ELSE Append(Without(p, S), a)
    BY WithoutAppend
  <2>3. Without(Append(p, a), S) = p
    BY <1>9, <2>2
  <2>4. Append(p, a) # << >>
    BY <1>2, <2>1, EmptySeq
  <2> QED
    BY <2>1, <2>3, <2>4 DEF Spells
<1>13. PICK z \in Seq(T) : z = Append(y, a) /\ z = <<h, a>> /\ Len(z) = 2
  <2>1. Append(y, a) = <<h, a>> /\ Append(y, a) \in Seq(T) /\ Len(Append(y, a)) = 2
    <3>1. Len(y) = 1 /\ y[1] = h
      BY <1>7
    <3> QED
      BY <3>1, Two
  <2> QED
    BY <2>1
<1>14. Without(z, S) = Without(y, S)
  <2>1. Without(Append(y, a), S) = IF a \in S THEN Without(y, S) ELSE Append(Without(y, S), a)
    BY WithoutAppend
  <2> QED
    BY <1>13, <2>1
<1>15. Spells(T, S, p, z \o r)
  <2>1. Without(z \o r, S) = Without(z, S) \o Without(r, S)
    BY <1>0
  <2>2. z \o r \in Seq(T) /\ Len(z \o r) = Len(z) + Len(r) /\ Len(r) \in Nat
    BY ConcatProperties
  <2>3. Len(z \o r) # 0
    BY <1>13, <2>2
  <2> QED
    BY <1>10, <1>14, <2>1, <2>2, <2>3, EmptySeq DEF Spells
<1> QED
  BY <1>3, <1>4, <1>6, <1>11, <1>12, <1>13, <1>15

\* The spellings of a path are spellings of it.
LEMMA SpellingsSpell ==
  ASSUME NEW p \in Paths, p # << >>, ToSet(p) \cap DOMAIN Backslash = {},
         NEW path \in Spellings(p)
  PROVE  /\ path \in Seq(STRING) \ {<< >>} /\ ToSet(path) \cap DOMAIN Backslash = {}
         /\ Without(path, Nothing) = p
<1> DEFINE All == Names \cup Colon \cup Nothing
<1>1. Segments \subseteq STRING /\ Names \cup Colon \subseteq Segments
      /\ All \cap DOMAIN Backslash = {}
  BY SourceAssumption DEF Nothing, Segments
<1>2. Segments \cap Nothing = {}
  BY SourceAssumption DEF Nothing
<1>3. All \subseteq STRING
  <2>1. Nothing \subseteq STRING
    BY SourceAssumption DEF Nothing
  <2> QED
    BY <1>1, <2>1
<1>4. PICK a \in All : a = "" /\ a \in Nothing
  BY DEF Nothing
<1>5. PICK b \in All : b = "." /\ b \in Nothing
  BY DEF Nothing
<1>6. p \in Seq(All) /\ ToSet(p) \cap Nothing = {}
  <2>1. p \in Seq(Segments)
    BY DEF Paths
  <2>3. ToSet(p) \subseteq Segments
    BY <2>1 DEF ToSet
  <2>2. ToSet(p) \subseteq All
    BY <2>3 DEF Segments
  <2> HIDE DEF All
  <2>4. p \in Seq(All)
    <3>1. /\ Len(p) \in Nat /\ DOMAIN p = 1..Len(p) /\ p = [i \in 1..Len(p) |-> p[i]]
          /\ \A i \in 1..Len(p) : p[i] \in ToSet(p)
      BY <2>1 DEF ToSet
    <3> QED
      BY <2>2, <3>1
  <2> QED
    BY <1>2, <2>3, <2>4
<1> HIDE DEF All
<1>7. Spellings(p) = {p, <<b>> \o p, Append(p, a), <<Head(p), a>> \o Tail(p)}
  BY <1>4, <1>5 DEF Spellings
<1>8. Spells(All, Nothing, p, <<b>> \o p)
  BY <1>5, <1>6, OneMore
<1>9. /\ Spells(All, Nothing, p, Append(p, a))
      /\ Spells(All, Nothing, p, <<Head(p), a>> \o Tail(p))
  BY <1>4, <1>6, OneMore
<1>10. Spells(All, Nothing, p, p)
  BY <1>6, SetOfWithout DEF Spells
<1>11. Spells(All, Nothing, p, path)
  BY <1>7, <1>8, <1>9, <1>10
<1>12. path \in Seq(All) /\ path # << >> /\ Without(path, Nothing) = p
  BY <1>11 DEF Spells
<1>13. ToSet(path) \subseteq All
  BY <1>12 DEF ToSet
<1>14. path \in Seq(STRING)
  BY <1>3, <1>12, SeqMonotonic
<1> QED
  BY <1>1, <1>12, <1>13, <1>14

\* An entry is appended as the file is now, or the archive is refused.
LEMMA InsertKeeps ==
  ASSUME UploadInv, NEW p \in left, NEW path \in Spellings(p), Insert(p, path)
  PROVE  UploadInv'
<1>1. /\ phase = "pack" /\ p \in FilesOf(folder) /\ folder' = folder /\ TreeOK(folder)
      /\ left \subseteq FilesOf(folder) /\ \A q \in DOMAIN folder : ~IsLink(folder, q)
      /\ NamesAreKept => Held
      /\ folder[p].data # Unreadable
  BY DEF Insert, UploadInv
<1>2. p \in Paths /\ p # << >>
  BY <1>1, FilesAreThere, Grounds DEF Root
<1>3. ASSUME NamesAreKept
      PROVE  Normalize(path) \in {Failed("NotFound"), Failed("Escapes"), Ok(p)}
  <2>0. ToSet(p) \cap DOMAIN Backslash = {}
    BY <1>1, <1>3, FilesAreThere DEF NamesAreKept
  <2>1. /\ path \in Seq(STRING) \ {<< >>} /\ ToSet(path) \cap DOMAIN Backslash = {}
        /\ Without(path, Nothing) = p
    BY <1>2, <2>0, SpellingsSpell
  <2> QED
    BY <2>1, Spelt
<1>7. NamesAreKept' <=> NamesAreKept
  BY <1>1 DEF NamesAreKept
<1>4. CASE NamesAreKept /\ Normalize(path) = Ok(p)
  <2> DEFINE more == [q \in DOMAIN entries \cup {p} |-> IF q = p THEN Archived(p) ELSE entries[q]]
  <2>1. TarInsert(entries, path, folder[p].data, folder[p].mode) = Ok(more)
    BY <1>4, Errors DEF TarInsert, Archived
  <2> HIDE DEF more
  <2>2. entries' = more /\ left' = left \ {p} /\ phase' = phase
    BY <2>1, Errors DEF Insert
  <2>3. /\ DOMAIN more = DOMAIN entries \cup {p} /\ more[p] = Archived(p)
        /\ \A q \in DOMAIN entries : more[q] = IF q = p THEN Archived(p) ELSE entries[q]
    BY DEF more
  <2>4. /\ DOMAIN more \subseteq FilesOf(folder)
        /\ \A q \in FilesOf(folder) \ (left \ {p}) :
             q \in DOMAIN more /\ more[q] = Archived(q) /\ folder[q].data # Unreadable
    BY <1>1, <1>4, <2>3 DEF Held
  <2>5. \A q : Archived(q)' = Archived(q)
    BY <1>1 DEF Archived
  <2>6. Held'
    BY <1>1, <2>2, <2>4, <2>5 DEF Held
  <2> QED
    BY <1>1, <2>2, <2>6 DEF UploadInv
<1>5. CASE NamesAreKept /\ Normalize(path) \in {Failed("NotFound"), Failed("Escapes")}
  <2>1. ~IsOk(TarInsert(entries, path, folder[p].data, folder[p].mode))
    BY <1>5, Errors DEF TarInsert
  <2>2. phase' = "refused"
    BY <2>1 DEF Insert
  <2> QED
    BY <1>1, <2>2 DEF UploadInv
<1>6. CASE ~NamesAreKept
  <2>1. phase' \in {"pack", "refused"} /\ left' \subseteq left
    BY <1>1 DEF Insert
  <2> QED
    BY <1>1, <1>6, <1>7, <2>1 DEF UploadInv
<1> QED
  BY <1>3, <1>4, <1>5, <1>6

\* The invariant holds of every upload: what is not left to be appended is in
\* the archive as it is in the directory.
THEOREM UploadInvariant == UploadSpec => []UploadInv
<1>1. UploadInit => UploadInv
  BY UploadStarts
<1>2. UploadInv /\ [UploadNext]_uploadVars => UploadInv'
  <2>1. SUFFICES ASSUME UploadInv, [UploadNext]_uploadVars PROVE UploadInv'
    OBVIOUS
  <2>2. CASE UNCHANGED uploadVars
    BY <2>1, <2>2 DEF UploadInv, Held, Archived, NamesAreKept, uploadVars
  <2>3. CASE Begin
    BY <2>1, <2>3, BeginKeeps
  <2>4. ASSUME NEW at \in DOMAIN folder, NEW name \in Segments, Make(at, name) PROVE UploadInv'
    BY <2>1, <2>4, CreateKeeps
  <2>5. ASSUME NEW p \in left, NEW path \in Spellings(p), Insert(p, path) PROVE UploadInv'
    BY <2>1, <2>5, InsertKeeps
  <2>6. ASSUME NEW p \in DOMAIN folder, Rewrite(p) PROVE UploadInv'
    BY <2>1, <2>6, RewriteKeeps
  <2> QED
    BY <2>1, <2>2, <2>3, <2>4, <2>5, <2>6 DEF UploadNext
<1> QED
  BY <1>1, <1>2, PTL DEF UploadSpec

-----------------------------------------------------------------------------
(* SourcesAgree.                                                           *)

\* The archive holds the directory as it is now.
Whole ==
  /\ TreeOK(folder) /\ \A p \in DOMAIN folder : ~IsLink(folder, p)
  /\ DOMAIN entries = FilesOf(folder)
  /\ \A p \in FilesOf(folder) : entries[p] = Archived(p) /\ folder[p].data # Unreadable

\* What a path is, once it is normalized: refused, a directory, a file, or
\* nothing.
Kind(path, q) ==
  \/ Normalize(path) \in {Failed("NotFound"), Failed("Escapes")}
  \/ /\ Normalize(path) = Ok(q)
     /\ \/ Resolve(folder, path) = Ok(q) /\ IsDir(folder, q) /\ q \notin FilesOf(folder)
        \/ Resolve(folder, path) = Ok(q) /\ ~IsDir(folder, q) /\ q \in FilesOf(folder)
        \/ /\ Resolve(folder, path) \in {Failed("Io"), Failed("NotFound")}
           /\ q \notin FilesOf(folder) /\ \A p \in FilesOf(folder) : ~IsPrefix(q, p)

\* Every path is one of these.
LEMMA Kinds ==
  ASSUME Whole, NEW path \in Seq(STRING) \ {<< >>}
  PROVE  \E q : Kind(path, q)
<1>1. TreeOK(folder) /\ \A p \in DOMAIN folder : ~IsLink(folder, p)
  BY DEF Whole
<1>2. FilesOf(folder) = {p \in DOMAIN folder \cap Paths : ~IsDir(folder, p)}
  BY <1>1, FilesAreThere
<1>3. CASE Normalize(path) \in {Failed("NotFound"), Failed("Escapes")}
  BY <1>3 DEF Kind
<1>4. ASSUME NEW q \in Seq(STRING), Normalize(path) = Ok(q), q # Outside PROVE Kind(path, q)
  <2>1. /\ q \in DOMAIN folder => Resolve(folder, path) = Ok(q) /\ q \in Paths
        /\ q \notin DOMAIN folder => Resolve(folder, path) \in {Failed("Io"), Failed("NotFound")}
    BY <1>1, <1>4, Resolves
  <2>2. CASE q \in DOMAIN folder
    BY <1>2, <1>4, <2>1, <2>2 DEF Kind
  <2>3. CASE q \notin DOMAIN folder
    <3>1. \A p \in FilesOf(folder) : ~IsPrefix(q, p)
      BY <1>1, <2>3, NothingUnder
    <3> QED
      BY <1>2, <1>4, <2>1, <2>3, <3>1 DEF Kind
  <2> QED
    BY <2>2, <2>3
<1> QED
  BY <1>3, <1>4, NormalNames

\* What differs between answers.
LEMMA Answers ==
  /\ \A v : Ok(v).error = "none" /\ Ok(v).value = v /\ IsOk(Ok(v))
  /\ \A e \in {"Io", "NotFound", "Escapes", "IsDirectory"} :
       /\ Failed(e).error = e /\ ~IsOk(Failed(e)) /\ e # "none"
  /\ "Escapes" \notin {"Io", "NotFound", "IsDirectory", "none"} /\ "Io" # "NotFound"
BY DEF Ok, Failed, IsOk

\* Of a directory the archive knows nothing; of any other path both read the
\* same.
LEMMA ReadsAgree ==
  ASSUME Whole, NEW path, NEW q, Kind(path, q)
  PROVE  IF LeadsToDir(path) THEN TarGet(entries, path) = Failed("NotFound")
         ELSE SameAnswer(DirRead(folder, path), TarRead(entries, path))
              /\ SameAnswer(DirIsExecutable(folder, path), TarIsExecutable(entries, path))
<1>1. CASE Normalize(path) \in {Failed("NotFound"), Failed("Escapes")}
  <2>1. ~IsOk(Normalize(path))
    BY <1>1, Answers
  <2>2. Resolve(folder, path) = Normalize(path) /\ TarGet(entries, path) = Normalize(path)
    BY <2>1 DEF Resolve, TarGet
  <2>3. DirRead(folder, path) = Normalize(path) /\ DirIsExecutable(folder, path) = Normalize(path)
    BY <2>1, <2>2 DEF DirRead, DirIsExecutable
  <2>4. TarRead(entries, path) = Normalize(path) /\ TarIsExecutable(entries, path) = Normalize(path)
    BY <2>1, <2>2 DEF TarRead, TarIsExecutable
  <2> QED
    BY <2>1, <2>2, <2>3, <2>4 DEF SameAnswer, LeadsToDir
<1>2. CASE Normalize(path) = Ok(q) /\ q \in FilesOf(folder) /\ Resolve(folder, path) = Ok(q)
                                   /\ ~IsDir(folder, q)
  <2>1. DirRead(folder, path) = Ok(folder[q].data)
    BY <1>2, Answers DEF DirRead, Content, Whole
  <2>2. DirIsExecutable(folder, path) = Ok(ModeIsExecutable(folder[q].mode))
    BY <1>2, Answers DEF DirIsExecutable, ModeIsExecutable
  <2>3. TarGet(entries, path) = Ok(Archived(q))
    BY <1>2, Answers DEF TarGet, Whole
  <2>4. TarRead(entries, path) = Ok(folder[q].data)
    BY <2>3, Answers DEF TarRead, Archived
  <2>5. TarIsExecutable(entries, path) = Ok(ModeIsExecutable(folder[q].mode))
    BY <2>3, Answers DEF TarIsExecutable, Archived
  <2>6. ~LeadsToDir(path)
    BY <1>2, Answers DEF LeadsToDir
  <2> QED
    BY <2>1, <2>2, <2>4, <2>5, <2>6, Answers DEF SameAnswer
<1>3. CASE Normalize(path) = Ok(q) /\ q \notin FilesOf(folder)
  <2>1. TarGet(entries, path) = Failed("NotFound")
    BY <1>3, Answers DEF TarGet, Whole
  <2>2. TarRead(entries, path) = Failed("NotFound") /\ TarIsExecutable(entries, path) = Failed("NotFound")
    BY <2>1, Answers DEF TarRead, TarIsExecutable
  <2>3. ASSUME Resolve(folder, path) \in {Failed("Io"), Failed("NotFound")}
        PROVE  /\ DirRead(folder, path) \in {Failed("Io"), Failed("NotFound")}
               /\ DirIsExecutable(folder, path) \in {Failed("Io"), Failed("NotFound")}
    BY <2>3, Answers DEF DirRead, DirIsExecutable
  <2>4. ASSUME Resolve(folder, path) = Ok(q), IsDir(folder, q) PROVE LeadsToDir(path)
    BY <2>4, Answers DEF LeadsToDir
  <2>5. \/ Resolve(folder, path) \in {Failed("Io"), Failed("NotFound")}
        \/ Resolve(folder, path) = Ok(q) /\ IsDir(folder, q)
    BY <1>3, Answers DEF Kind
  <2> QED
    BY <2>1, <2>2, <2>3, <2>4, <2>5, Answers DEF SameAnswer
<1> QED
  BY <1>1, <1>2, <1>3 DEF Kind

\* Listings agree.
Listings(path) ==
  LET dir == DirList(folder, path)
      tar == TarList(entries, path)
  IN  IF IsOk(dir) /\ IsOk(tar) THEN dir.value = tar.value
      ELSE \/ dir.error = "Escapes" /\ tar.error = "Escapes"
           \/ dir.error = "Io" /\ tar = Ok({})
           \/ dir = Ok({}) /\ tar.error = "NotFound"

\* list answers alike.
LEMMA ListsAgree ==
  ASSUME Whole, NEW path, NEW q, Kind(path, q)
  PROVE  Listings(path)
<1>1. FilesUnder(folder, Root) = FilesOf(folder)
  BY DEF FilesOf
<1>2. \A s : FilesUnder(folder, s) = {p \in FilesOf(folder) : IsPrefix(s, p)}
  BY FilesAreThere DEF Whole
<1>3. DOMAIN entries = FilesOf(folder)
  BY DEF Whole
<1>4. CASE path \in {<<"">>, <<".">>}
  <2>1. ListStart(folder, path) = Ok(Root)
    BY <1>4 DEF ListStart
  <2>2. DirList(folder, path) = Ok(FilesOf(folder))
    BY <1>1, <2>1, Answers DEF DirList
  <2>3. TarList(entries, path) = Ok(FilesOf(folder))
    BY <1>3, <1>4 DEF TarList
  <2> QED
    BY <2>2, <2>3, Answers DEF Listings
<1>5. CASE path \notin {<<"">>, <<".">>}
  <2>1. ListStart(folder, path) = Resolve(folder, path)
    BY <1>5 DEF ListStart
  <2>2. CASE Normalize(path) \in {Failed("NotFound"), Failed("Escapes")}
    <3>1. ~IsOk(Normalize(path))
      BY <2>2, Answers
    <3>2. ListStart(folder, path) = Normalize(path)
      BY <2>1, <3>1 DEF Resolve
    <3>3. TarList(entries, path) = Normalize(path)
      BY <1>5, <3>1 DEF TarList
    <3>4. DirList(folder, path) = IF Normalize(path).error = "NotFound" THEN Ok({})
                                ELSE Normalize(path)
      BY <3>1, <3>2 DEF DirList
    <3> QED
      BY <2>2, <3>3, <3>4, Answers DEF Listings
  <2>3. ASSUME Normalize(path) = Ok(q)
        PROVE  TarList(entries, path) = Ok(FilesUnder(folder, q))
    BY <1>2, <1>3, <1>5, <2>3, Answers DEF TarList
  <2>4. CASE Normalize(path) = Ok(q) /\ Resolve(folder, path) = Ok(q)
    <3>1. DirList(folder, path) = Ok(FilesUnder(folder, q))
      BY <2>1, <2>4, Answers DEF DirList
    <3> QED
      BY <2>3, <2>4, <3>1, Answers DEF Listings
  <2>5. CASE /\ Normalize(path) = Ok(q)
             /\ Resolve(folder, path) \in {Failed("Io"), Failed("NotFound")}
             /\ \A p \in FilesOf(folder) : ~IsPrefix(q, p)
    <3>1. TarList(entries, path) = Ok({})
      BY <1>2, <2>3, <2>5
    <3>2. DirList(folder, path) \in {Failed("Io"), Ok({})}
      BY <2>1, <2>5, Answers DEF DirList
    <3> QED
      BY <3>1, <3>2, Answers DEF Listings
  <2> QED
    BY <2>2, <2>4, <2>5 DEF Kind
<1> QED
  BY <1>4, <1>5

\* A rule of the validator sees the same problem in a directory and in the
\* archive of it, for directories of any shape, whatever the entries were
\* called, the order they were appended in, and what was appended again.
THEOREM Agreement == UploadSpec => []SourcesAgree
<1>1. UploadInv => SourcesAgree
  <2>1. SUFFICES ASSUME UploadInv, Complete, NamesAreKept, NEW path \in Asked
                 PROVE  /\ IF LeadsToDir(path)
                           THEN TarRead(entries, path) = Failed("NotFound")
                                /\ TarIsExecutable(entries, path) = Failed("NotFound")
                           ELSE SameAnswer(DirRead(folder, path), TarRead(entries, path))
                                /\ SameAnswer(DirIsExecutable(folder, path),
                                              TarIsExecutable(entries, path))
                        /\ Listings(path)
    BY DEF SourcesAgree, Listings
  <2>2. Whole
    BY <2>1 DEF UploadInv, Held, Complete, Whole
  <2>3. path \in Seq(STRING) \ {<< >>}
    BY UploadAssumption
  <2>4. PICK q : Kind(path, q)
    BY <2>2, <2>3, Kinds
  <2>5. TarGet(entries, path) = Failed("NotFound") =>
          TarRead(entries, path) = Failed("NotFound")
          /\ TarIsExecutable(entries, path) = Failed("NotFound")
    BY Answers DEF TarRead, TarIsExecutable
  <2> QED
    BY <2>2, <2>4, <2>5, ReadsAgree, ListsAgree
<1> QED
  BY <1>1, UploadInvariant, PTL

-----------------------------------------------------------------------------
(* What read answers.                                                      *)

\* Where read looks, once path is slashed: nowhere, or where the operating
\* system arrives.
LEMMA ReadLooksThere ==
  ASSUME TreeOK(folder), NEW path \in Seq(STRING) \ {<< >>},
         NEW s, s = Slashed(path), NEW os, os = Reached(s)
  PROVE  \/ /\ Resolve(folder, path) = Failed("NotFound")
            /\ os = Ok(Root)
         \/ Resolve(folder, path) = Failed("Escapes") /\ Suspicious(s)
         \/ Resolve(folder, path) = IF IsOk(os) /\ ~Inside(os.value) THEN Failed("Escapes") ELSE os
<1>1. PICK names : names = Without(s, Nothing)
  OBVIOUS
<1>2. /\ s \in Seq(STRING) \ {<< >>}
      /\ ToSet(s) \cap Refused # {} <=> ToSet(Trimmed(s)) \cap Refused # {}
      /\ \/ /\ Normalize(path) = Failed("NotFound") /\ names = << >>
            /\ ToSet(s) \cap {".."} = {}
         \/ /\ Normalize(path) = Failed("Escapes")
            /\ Head(Trimmed(s)) = "" \/ ToSet(Trimmed(s)) \cap Refused # {}
         \/ /\ Normalize(path) = Ok(names) /\ ToSet(s) \cap Refused = {}
  BY <1>1, NormalForms
<1>3. ASSUME ".." \notin ToSet(s) PROVE os = Canonicalize(folder, names)
  <2>1. s \in Seq(STRING) /\ Root \in DOMAIN folder
    BY <1>2, Grounds
  <2> QED
    BY <1>1, <1>3, <2>1, ReachedIs
<1>4. CASE Normalize(path) = Failed("NotFound") /\ names = << >> /\ ToSet(s) \cap {".."} = {}
  <2>1. os = Ok(Root)
    BY <1>3, <1>4, Grounds, ResolutionStarts
  <2> QED
    BY <1>4, <2>1, Answers DEF Resolve
<1>5. CASE /\ Normalize(path) = Failed("Escapes")
           /\ Head(Trimmed(s)) = "" \/ ToSet(s) \cap Refused # {}
  BY <1>5, Answers DEF Resolve, Suspicious, Refused
<1>6. CASE Normalize(path) = Ok(names) /\ ToSet(s) \cap Refused = {}
  <2>1. ".." \notin ToSet(s)
    BY <1>6 DEF Refused
  <2> QED
    BY <1>3, <1>6, <2>1, Answers DEF Resolve
<1> QED
  BY <1>2, <1>4, <1>5, <1>6

\* For any path and any directory, links and all: once its backslashes are
\* slashes, read answers the bytes of the file the operating system finds along
\* the path, never those of one outside, and calls a path to a file inside an
\* escape only when it is written suspiciously.
THEOREM ReadsThePath == UploadSpec => []ReadsWhatIsNamed
<1>1. UploadInv => ReadsWhatIsNamed
  <2>1. SUFFICES ASSUME UploadInv, NEW path \in Asked, NEW os, os = Reached(Slashed(path)),
                        NEW named, named = (IsOk(os) /\ Inside(os.value) /\ ~IsDir(folder, os.value))
                 PROVE  /\ IsOk(DirRead(folder, path)) =>
                             named /\ DirRead(folder, path) = Content(folder, os.value)
                        /\ named => \/ DirRead(folder, path) = Content(folder, os.value)
                                    \/ /\ DirRead(folder, path).error = "Escapes"
                                       /\ Suspicious(Slashed(path))
    BY DEF ReadsWhatIsNamed
  <2>2. TreeOK(folder) /\ path \in Seq(STRING) \ {<< >>}
    BY <2>1, UploadAssumption DEF UploadInv
  <2>3. \/ Resolve(folder, path) = Failed("NotFound") /\ os = Ok(Root)
        \/ Resolve(folder, path) = Failed("Escapes") /\ Suspicious(Slashed(path))
        \/ Resolve(folder, path) = IF IsOk(os) /\ ~Inside(os.value) THEN Failed("Escapes") ELSE os
    BY <2>1, <2>2, ReadLooksThere
  <2>4. CASE Resolve(folder, path) = Failed("NotFound") /\ os = Ok(Root)
    <3>1. ~named
      BY <2>1, <2>2, <2>4, Grounds, Answers
    <3>2. ~IsOk(DirRead(folder, path))
      BY <2>4, Answers DEF DirRead
    <3> QED
      BY <3>1, <3>2
  <2>5. CASE Resolve(folder, path) = Failed("Escapes") /\ Suspicious(Slashed(path))
    <3>1. DirRead(folder, path) = Failed("Escapes")
      BY <2>5, Answers DEF DirRead
    <3> QED
      BY <2>5, <3>1, Answers
  <2>6. CASE Resolve(folder, path) = Failed("Escapes") /\ IsOk(os) /\ ~Inside(os.value)
    <3>1. DirRead(folder, path) = Failed("Escapes")
      BY <2>6, Answers DEF DirRead
    <3> QED
      BY <2>1, <2>6, <3>1, Answers
  <2>7. CASE Resolve(folder, path) = os /\ ~(IsOk(os) /\ ~Inside(os.value))
    <3>1. ~IsOk(os) => DirRead(folder, path) = os
      BY <2>7 DEF DirRead
    <3>2. IsOk(os) /\ IsDir(folder, os.value) => DirRead(folder, path) = Failed("IsDirectory")
      BY <2>7 DEF DirRead
    <3>3. IsOk(os) /\ ~IsDir(folder, os.value) => DirRead(folder, path) = Content(folder, os.value)
      BY <2>7 DEF DirRead
    <3> QED
      BY <2>1, <2>7, <3>1, <3>2, <3>3, Answers
  <2> QED
    BY <2>3, <2>4, <2>5, <2>6, <2>7
<1> QED
  BY <1>1, UploadInvariant, PTL

\* A path of names of files is looked up as it is.
LEMMA PlainPathsAreKept ==
  ASSUME TreeOK(folder), NEW p \in FilesOf(folder), ToSet(p) \subseteq Names
  PROVE  /\ Normalize(p) = Ok(p) /\ p \in DOMAIN folder \cap Paths /\ p # << >>
         /\ ~IsDir(folder, p)
<1>1. p \in DOMAIN folder \cap Paths /\ ~IsDir(folder, p) /\ p # << >>
  BY FilesAreThere, Grounds DEF Root
<1>2. ToSet(p) \cap DOMAIN Backslash = {}
  BY SourceAssumption
<1>3. /\ p \in Seq(STRING) \ {<< >>} /\ Without(p, Nothing) = p
  <2>1. p \in Spellings(p)
    BY DEF Spellings
  <2> QED
    BY <1>1, <1>2, <2>1, SpellingsSpell
<1> QED
  BY <1>1, <1>2, <1>3, Spelt

\* What a listed path stands for is where the way along it ends.
LEMMA ListedAreFollowed ==
  ASSUME TreeOK(folder), NEW p \in FilesOf(folder), ToSet(p) \subseteq Names,
         NEW end, end = End(p), Exists(folder, end), ~IsLink(folder, end)
  PROVE  Normalize(p) = Ok(p) /\ Canonicalize(folder, p) = Ok(end) /\ ~IsDir(folder, p)
<1>1. /\ Normalize(p) = Ok(p) /\ p \in DOMAIN folder \cap Paths /\ p # << >>
      /\ p # Outside /\ p # Root /\ ~IsDir(folder, p)
  BY PlainPathsAreKept, PathsAreInside DEF Root
<1>2. CASE ~IsLink(folder, p)
  <2>1. end = p
    BY <1>2 DEF End
  <2> QED
    BY <1>1, <1>2, <2>1, WayIsThere
<1>3. CASE IsLink(folder, p)
  <2>1. PICK up : up = Parent(p)
    OBVIOUS
  <2>2. PICK name : name = Last(p)
    OBVIOUS
  <2>3. /\ IsDir(folder, up) /\ up \in DOMAIN folder \cap Paths
        /\ name \in Segments /\ p = Append(up, name)
    BY <1>1, <2>1, <2>2, EntryPath, ParentPath
  <2>4. Canonicalize(folder, up) = Ok(up)
    BY <2>3, WayIsThere, DirsAreNoLinks
  <2>5. Canonicalize(folder, p) = Entered(folder, Ok(up), name)
    <3>1. up \in Seq(Segments) /\ Root \in DOMAIN folder
      BY <2>3, Grounds DEF Paths
    <3> QED
      BY <2>3, <2>4, <3>1, ResolutionGoesOn
  <2>6. end = folder[p].to
    BY <1>3 DEF End
  <2>7. Entered(folder, Ok(up), name) = Ok(end)
    BY <1>3, <2>3, <2>6, Errors DEF Entered
  <2> QED
    BY <1>1, <2>5, <2>7
<1> QED
  BY <1>2, <1>3

\* A link out of the root is an escape.
LEMMA EscapesAreRefused ==
  ASSUME TreeOK(folder), NEW p \in FilesOf(folder), ToSet(p) \subseteq Names, End(p) = Outside
  PROVE  DirRead(folder, p) = Failed("Escapes") /\ DirIsExecutable(folder, p) = Failed("Escapes")
<1>1. Normalize(p) = Ok(p) /\ Canonicalize(folder, p) = Ok(Outside)
  <2>1. Exists(folder, Outside) /\ ~IsLink(folder, Outside)
    BY Grounds DEF IsLink, Exists
  <2> QED
    BY <2>1, ListedAreFollowed
<1>2. ~Inside(Outside)
  <2>1. Len(Outside) = 1
    BY DEF Outside
  <2> QED
    BY <2>1 DEF Inside, IsPrefix
<1>3. Resolve(folder, p) = Failed("Escapes")
  BY <1>1, <1>2, Answers DEF Resolve
<1> QED
  BY <1>3, Answers DEF DirRead, DirIsExecutable

\* What a listed path stands for is read by that path.
LEMMA EndsAreRead ==
  ASSUME TreeOK(folder), NEW p \in FilesOf(folder), ToSet(p) \subseteq Names,
         NEW end, end = End(p), Exists(folder, end), end # Outside
  PROVE  /\ IsDir(folder, end) =>
              /\ p # end
              /\ DirRead(folder, p) = Failed("IsDirectory")
              /\ DirIsExecutable(folder, p) = Ok(TRUE)
         /\ folder[end].kind = "file" =>
              /\ DirRead(folder, p) = Content(folder, end)
              /\ DirIsExecutable(folder, p) = Ok(ModeIsExecutable(folder[end].mode))
<1>1. SUFFICES ASSUME IsDir(folder, end) \/ folder[end].kind = "file"
               PROVE  /\ IsDir(folder, end) =>
                           /\ p # end
                           /\ DirRead(folder, p) = Failed("IsDirectory")
                           /\ DirIsExecutable(folder, p) = Ok(TRUE)
                      /\ folder[end].kind = "file" =>
                           /\ DirRead(folder, p) = Content(folder, end)
                           /\ DirIsExecutable(folder, p) = Ok(ModeIsExecutable(folder[end].mode))
  OBVIOUS
<1>2. ~IsLink(folder, end) /\ (folder[end].kind = "file" => ~IsDir(folder, end))
  BY <1>1 DEF IsDir, IsLink
<1>3. Normalize(p) = Ok(p) /\ Canonicalize(folder, p) = Ok(end) /\ ~IsDir(folder, p)
  BY <1>2, ListedAreFollowed
<1>4. Inside(end)
  BY EntryPath DEF Exists
<1>5. Resolve(folder, p) = Ok(end)
  BY <1>3, <1>4, Errors DEF Resolve
<1>6. IsDir(folder, end) => DirRead(folder, p) = Failed("IsDirectory")
  BY <1>5, Errors DEF DirRead
<1>7. folder[end].kind = "file" => DirRead(folder, p) = Content(folder, end)
  BY <1>2, <1>5, Errors DEF DirRead
<1>8. IsDir(folder, end) => DirIsExecutable(folder, p) = Ok(TRUE)
  BY <1>5, Errors DEF DirIsExecutable
<1>9. folder[end].kind = "file" =>
        DirIsExecutable(folder, p) = Ok(ModeIsExecutable(folder[end].mode))
  BY <1>2, <1>5, Errors DEF DirIsExecutable, ModeIsExecutable
<1> QED
  BY <1>3, <1>6, <1>7, <1>8, <1>9

\* list answers paths of entries that are no directories, from the root
\* whatever the prefix; of those of plain names read and is_executable take
\* what the entry stands for, say of a link to a directory that it is one, and
\* refuse every link out of the root.
THEOREM ListsWhatReads == UploadSpec => []ListedFilesRead
<1>1. UploadInv => ListedFilesRead
  <2>1. SUFFICES ASSUME UploadInv, NEW path \in Asked, NEW p \in Listed(path), NEW end, end = End(p)
                 PROVE  /\ p \in FilesOf(folder)
                        /\ ToSet(p) \subseteq Names /\ Exists(folder, end) =>
                             IF end = Outside
                             THEN /\ DirRead(folder, p) = Failed("Escapes")
                                  /\ DirIsExecutable(folder, p) = Failed("Escapes")
                             ELSE /\ IsDir(folder, end) =>
                                       /\ p # end
                                       /\ DirRead(folder, p) = Failed("IsDirectory")
                                       /\ DirIsExecutable(folder, p) = Ok(TRUE)
                                  /\ folder[end].kind = "file" =>
                                       /\ DirRead(folder, p) = Content(folder, end)
                                       /\ DirIsExecutable(folder, p)
                                            = Ok(ModeIsExecutable(folder[end].mode))
    BY DEF ListedFilesRead
  <2>2. TreeOK(folder)
    BY <2>1 DEF UploadInv
  <2>3. PICK from : from = ListStart(folder, path)
    OBVIOUS
  <2>4. p \in FilesUnder(folder, from.value)
    <3>1. DirList(folder, path) = IF from.error = "NotFound" THEN Ok({})
                                  ELSE IF ~IsOk(from) THEN from
                                  ELSE Ok(FilesUnder(folder, from.value))
      BY <2>3 DEF DirList
    <3>2. p \in IF IsOk(DirList(folder, path)) THEN DirList(folder, path).value ELSE {}
      BY DEF Listed
    <3> QED
      BY <3>1, <3>2, Errors
  <2>5. p \in FilesOf(folder)
    BY <2>2, <2>4, FilesAreThere
  <2> QED
    BY <2>1, <2>2, <2>5, EndsAreRead, EscapesAreRefused
<1> QED
  BY <1>1, UploadInvariant, PTL
=============================================================================
