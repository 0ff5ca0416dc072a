--------------------------- MODULE SFTPTreeProofs ---------------------------
(***************************************************************************)
(* Proofs about the remote tree of SFTPStore and SFTPFile: whatever stores  *)
(* do at the same time, every entry is in a directory, and no two names     *)
(* share a file.                                                            *)
(***************************************************************************)
EXTENDS SFTPFile, SequenceTheorems, TLAPS

-----------------------------------------------------------------------------
(* Paths.                                                                   *)

\* IsPrefix, block by block or part by part.
LEMMA PrefixPointwise ==
    ASSUME NEW S, NEW a \in Seq(S), NEW b \in Seq(S)
    PROVE  IsPrefix(a, b) <=> Len(a) <= Len(b) /\ \A i \in 1..Len(a) : a[i] = b[i]
<1>1. SUFFICES ASSUME Len(a) <= Len(b)
               PROVE  SubSeq(a, 1, Len(a)) = SubSeq(b, 1, Len(a))
                        <=> \A i \in 1..Len(a) : a[i] = b[i]
  BY DEF IsPrefix
<1> DEFINE c == SubSeq(b, 1, Len(a))
<1>2. SubSeq(a, 1, Len(a)) = a
  BY SubSeqFull
<1>3. c \in Seq(S) /\ Len(c) = Len(a) /\ \A i \in 1..Len(a) : c[i] = b[i]
  <2>1. Len(a) \in Nat /\ Len(b) \in Nat /\ \A i \in 1..Len(a) : b[i] \in S
    BY <1>1, LenProperties, ElementOfSeq
  <2>2. /\ c \in Seq(S)
        /\ Len(c) = IF 1 <= Len(a) THEN Len(a) - 1 + 1 ELSE 0
        /\ \A i \in 1..(Len(a) - 1 + 1) : c[i] = b[1 + i - 1]
    BY <2>1, SubSeqProperties
  <2> QED
    BY <2>1, <2>2
<1> HIDE DEF c
<1>4. a = c <=> \A i \in 1..Len(a) : a[i] = c[i]
  BY <1>3, SeqEqual
<1> QED
  BY <1>2, <1>3, <1>4 DEF c

\* A part of a sequence, element by element.
LEMMA PieceProperties ==
    ASSUME NEW S, NEW a \in Seq(S), NEW i \in Nat \ {0}, NEW j \in Nat, j <= Len(a)
    PROVE  /\ SubSeq(a, i, j) \in Seq(S)
           /\ Len(SubSeq(a, i, j)) = IF i <= j THEN j - i + 1 ELSE 0
           /\ \A k \in 1..Len(SubSeq(a, i, j)) : SubSeq(a, i, j)[k] = a[i + k - 1]
<1>1. Len(a) \in Nat
  BY LenProperties
<1>2. \A k \in i..j : a[k] \in S
  BY <1>1, ElementOfSeq
<1>3. /\ SubSeq(a, i, j) \in Seq(S)
      /\ Len(SubSeq(a, i, j)) = IF i <= j THEN j - i + 1 ELSE 0
      /\ \A k \in 1..(j - i + 1) : SubSeq(a, i, j)[k] = a[i + k - 1]
  BY <1>2, SubSeqProperties
<1> QED
  BY <1>3

\* A path has a part, and the path above it, if there is one, is a path.
LEMMA PathParts ==
    ASSUME NEW p \in Path
    PROVE  /\ p \in Seq(STRING) /\ p # <<>> /\ Len(p) \in Nat \ {0}
           /\ \A k \in 1..Len(p) : SubSeq(p, 1, k) \in Path
           /\ Front(p) \in Seq(STRING) /\ Len(Front(p)) = Len(p) - 1
           /\ \A i \in 1..(Len(p) - 1) : Front(p)[i] = p[i]
           /\ Front(p) # <<>> => Front(p) \in Path /\ Len(p) > 1
<1>1. /\ p \in Seq(STRING) /\ p # <<>>
      /\ \A k \in 1..Len(p) : SubSeq(p, 1, k) \in Path
  BY PathAssumption
<1>2. Len(p) \in Nat \ {0}
  BY <1>1, EmptySeq
<1>3. /\ Front(p) \in Seq(STRING) /\ Len(Front(p)) = Len(p) - 1
      /\ \A i \in 1..(Len(p) - 1) : Front(p)[i] = p[i]
  <2> DEFINE l == Len(p)
             f == Front(p)
  <2>1. l \in Nat \ {0} /\ l - 1 \in Nat /\ l - 1 <= l /\ 1 \in Nat \ {0}
    BY <1>1, <1>2
  <2>2. /\ f \in Seq(STRING)
        /\ Len(f) = IF 1 <= l - 1 THEN l - 1 - 1 + 1 ELSE 0
        /\ \A k \in 1..Len(f) : f[k] = p[1 + k - 1]
    BY <1>1, <2>1, PieceProperties DEF Front
  <2> HIDE DEF l, f
  <2>3. (IF 1 <= l - 1 THEN l - 1 - 1 + 1 ELSE 0) = l - 1
    BY <2>1
  <2>4. \A k \in 1..(l - 1) : f[k] = p[k]
    BY <2>1, <2>2, <2>3
  <2> QED
    BY <2>2, <2>3, <2>4 DEF l, f
<1>4. Front(p) # <<>> => Front(p) \in Path /\ Len(p) > 1
  <2> SUFFICES ASSUME Front(p) # <<>>
               PROVE  Front(p) \in Path /\ Len(p) > 1
    OBVIOUS
  <2>1. Len(Front(p)) # 0
    BY <1>3, EmptySeq
  <2>2. Len(p) - 1 \in 1..Len(p)
    BY <1>2, <1>3, <2>1
  <2> QED
    BY <1>1, <1>2, <2>2 DEF Front
<1> QED
  BY <1>1, <1>2, <1>3, <1>4

-----------------------------------------------------------------------------
(* The tree after a request.                                                *)

TreeOK == node \in [Path -> File \cup {Dir, None}] /\ WellFormed

\* A new entry, a directory or a file that nothing else is, is made in a directory.
LEMMA EntryMade ==
    ASSUME TreeOK, NEW p \in Path, CanMake(p), NEW v \in File \cup {Dir},
           \A r \in Path : v \in File => node[r] # v,
           node' = [node EXCEPT ![p] = v]
    PROVE  TreeOK'
<1>1. node' \in [Path -> File \cup {Dir, None}]
  BY DEF TreeOK
<1>2. ASSUME NEW r \in Path, Exists(r)'
      PROVE  IsDir(Front(r))'
  <2>1. IsDir(Front(r))
    BY <1>2 DEF TreeOK, WellFormed, Exists, IsDir, CanMake
  <2>2. Front(r) # <<>> => Front(r) \in Path /\ Front(r) # p
    BY <2>1, PathParts, FileAssumption DEF IsDir, CanMake, Exists
  <2> QED
    BY <2>1, <2>2 DEF IsDir, TreeOK
<1>3. ASSUME NEW q \in Path, NEW r \in Path, IsFile(q)', (node[q] = node[r])'
      PROVE  q = r
  BY <1>3, FileAssumption DEF TreeOK, WellFormed, IsFile
<1> QED
  BY <1>1, <1>2, <1>3 DEF TreeOK, WellFormed

\* An entry that nothing is in is taken away.
LEMMA EntryTaken ==
    ASSUME TreeOK, NEW p \in Path, Empty(p), node' = [node EXCEPT ![p] = None]
    PROVE  TreeOK'
<1>1. node' \in [Path -> File \cup {Dir, None}]
  BY DEF TreeOK
<1>2. ASSUME NEW r \in Path, Exists(r)'
      PROVE  IsDir(Front(r))'
  <2>1. r # p /\ Exists(r)
    BY <1>2 DEF TreeOK, Exists
  <2>2. IsDir(Front(r)) /\ Front(r) # p
    BY <2>1 DEF TreeOK, WellFormed, Empty
  <2> QED
    BY <2>2, PathParts DEF IsDir, TreeOK
<1>3. ASSUME NEW q \in Path, NEW r \in Path, IsFile(q)', (node[q] = node[r])'
      PROVE  q = r
  BY <1>3, FileAssumption DEF TreeOK, WellFormed, IsFile
<1> QED
  BY <1>1, <1>2, <1>3 DEF TreeOK, WellFormed

\* Nothing is in a file.
LEMMA FileEmpty ==
    ASSUME TreeOK, NEW p \in Path, IsFile(p)
    PROVE  Empty(p)
BY PathParts, FileAssumption DEF TreeOK, WellFormed, IsFile, IsDir, Exists, Empty

\* The name below p that a name below q had before it was renamed.
Moved(p, q, r) == p \o SubSeq(r, Len(q) + 1, Len(r))

\* It is p, and then what the name has below q.
LEMMA MovedParts ==
    ASSUME NEW p \in Path, NEW q \in Path, NEW r \in Seq(STRING), IsPrefix(q, r)
    PROVE  /\ Moved(p, q, r) \in Seq(STRING)
           /\ Len(Moved(p, q, r)) = Len(p) + Len(r) - Len(q)
           /\ \A i \in 1..Len(p) : Moved(p, q, r)[i] = p[i]
           /\ \A i \in 1..(Len(r) - Len(q)) :
                Moved(p, q, r)[Len(p) + i] = r[Len(q) + i]
<1> DEFINE a == Len(p)
           b == Len(q)
           c == Len(r)
           t == SubSeq(r, b + 1, c)
           m == p \o t
<1>1. p \in Seq(STRING) /\ a \in Nat \ {0} /\ b \in Nat \ {0} /\ c \in Nat /\ b <= c
  BY PathParts, LenProperties DEF IsPrefix
<1>2. /\ t \in Seq(STRING)
      /\ Len(t) = IF b + 1 <= c THEN c - (b + 1) + 1 ELSE 0
      /\ \A k \in 1..Len(t) : t[k] = r[b + 1 + k - 1]
  <2>1. b + 1 \in Nat \ {0} /\ c <= Len(r)
    BY <1>1
  <2> QED
    BY <1>1, <2>1, PieceProperties
<1>3. /\ m \in Seq(STRING) /\ Len(m) = a + Len(t)
      /\ \A i \in 1..(a + Len(t)) : m[i] = IF i <= a THEN p[i] ELSE t[i - a]
  BY <1>1, <1>2, ConcatProperties
<1>4. Moved(p, q, r) = m
  BY DEF Moved
<1> HIDE DEF a, b, c, t, m
<1>5. Len(t) = c - b
  BY <1>1, <1>2
<1>6. \A i \in 1..a : m[i] = p[i]
  BY <1>1, <1>3, <1>5
<1>7. \A i \in 1..(c - b) : m[a + i] = r[b + i]
  <2> TAKE i \in 1..(c - b)
  <2>1. a + i \in 1..(a + Len(t)) /\ ~(a + i <= a) /\ (a + i) - a = i
    BY <1>1, <1>5
  <2>2. m[a + i] = t[i]
    <3>1. m[a + i] = IF a + i <= a THEN p[a + i] ELSE t[(a + i) - a]
      BY <1>3, <2>1
    <3> QED
      BY <2>1, <3>1
  <2>3. i \in 1..Len(t) /\ b + 1 + i - 1 = b + i
    BY <1>1, <1>5
  <2> QED
    BY <1>2, <2>2, <2>3
<1>8. Len(m) = a + c - b
  BY <1>1, <1>3, <1>5
<1> QED
  BY <1>3, <1>4, <1>6, <1>7, <1>8 DEF a, b, c

\* What is above a prefix of a name, or in it, is one of the name as well.
LEMMA PrefixOfFront ==
    ASSUME NEW p \in Path, NEW r \in Path
    PROVE  /\ IsPrefix(p, Front(r)) => IsPrefix(p, r)
           /\ IsPrefix(p, r) /\ p # r => IsPrefix(p, Front(r)) /\ Len(p) < Len(r)
           /\ IsPrefix(p, p) /\ ~IsPrefix(p, Front(p))
<1>1. /\ p \in Seq(STRING) /\ r \in Seq(STRING)
      /\ Front(p) \in Seq(STRING) /\ Front(r) \in Seq(STRING)
      /\ Len(p) \in Nat \ {0} /\ Len(r) \in Nat \ {0}
      /\ Len(Front(p)) = Len(p) - 1 /\ Len(Front(r)) = Len(r) - 1
      /\ \A i \in 1..(Len(r) - 1) : Front(r)[i] = r[i]
  BY PathParts
<1>2. /\ IsPrefix(p, r) <=> Len(p) <= Len(r) /\ \A i \in 1..Len(p) : p[i] = r[i]
      /\ IsPrefix(p, p) <=> Len(p) <= Len(p) /\ \A i \in 1..Len(p) : p[i] = p[i]
      /\ IsPrefix(p, Front(r))
           <=> Len(p) <= Len(r) - 1 /\ \A i \in 1..Len(p) : p[i] = Front(r)[i]
      /\ IsPrefix(p, Front(p)) => Len(p) <= Len(p) - 1
  <2>1. IsPrefix(p, r) <=> Len(p) <= Len(r) /\ \A i \in 1..Len(p) : p[i] = r[i]
    <3>1. p \in Seq(STRING) /\ r \in Seq(STRING)
      BY <1>1
    <3> QED
      BY <3>1, PrefixPointwise
  <2>2. IsPrefix(p, p) <=> Len(p) <= Len(p) /\ \A i \in 1..Len(p) : p[i] = p[i]
    BY <1>1, PrefixPointwise
  <2>3. IsPrefix(p, Front(r))
          <=> Len(p) <= Len(Front(r)) /\ \A i \in 1..Len(p) : p[i] = Front(r)[i]
    BY <1>1, PrefixPointwise
  <2>4. IsPrefix(p, Front(p)) => Len(p) <= Len(Front(p))
    BY DEF IsPrefix
  <2> QED
    BY <1>1, <2>1, <2>2, <2>3, <2>4
<1>3. IsPrefix(p, Front(r)) => IsPrefix(p, r)
  BY <1>1, <1>2
<1>4. ASSUME IsPrefix(p, r), p # r
      PROVE  IsPrefix(p, Front(r)) /\ Len(p) < Len(r)
  <2>1. Len(p) # Len(r)
    BY <1>1, <1>2, <1>4, SeqEqual
  <2>2. Len(p) <= Len(r) - 1 /\ Len(p) < Len(r)
    BY <1>1, <1>2, <1>4, <2>1
  <2> QED
    BY <1>1, <1>2, <1>4, <2>2
<1>5. IsPrefix(p, p) /\ ~IsPrefix(p, Front(p))
  BY <1>1, <1>2
<1> QED
  BY <1>3, <1>4, <1>5

\* The names below a renamed entry stay below each other, and apart.
LEMMA MovedFront ==
    ASSUME NEW p \in Path, NEW q \in Path, NEW r \in Path, IsPrefix(q, r), r # q,
           Moved(p, q, r) \in Path
    PROVE  /\ Front(r) # <<>> /\ IsPrefix(q, Front(r))
           /\ Moved(p, q, Front(r)) = Front(Moved(p, q, r))
           /\ Front(Moved(p, q, r)) # <<>>
<1> DEFINE f == Front(r)
           m == Moved(p, q, r)
           g == Moved(p, q, f)
           h == Front(m)
<1>1. IsPrefix(q, f) /\ Len(q) < Len(r)
  BY PrefixOfFront
<1>2. /\ r \in Seq(STRING) /\ f \in Seq(STRING) /\ m \in Seq(STRING)
      /\ Len(p) \in Nat \ {0} /\ Len(q) \in Nat \ {0} /\ Len(r) \in Nat \ {0}
      /\ Len(f) = Len(r) - 1 /\ \A i \in 1..(Len(r) - 1) : f[i] = r[i]
      /\ h \in Seq(STRING) /\ Len(h) = Len(m) - 1 /\ \A i \in 1..(Len(m) - 1) : h[i] = m[i]
  BY PathParts
<1>3. /\ Len(m) = Len(p) + Len(r) - Len(q)
      /\ \A i \in 1..Len(p) : m[i] = p[i]
      /\ \A i \in 1..(Len(r) - Len(q)) : m[Len(p) + i] = r[Len(q) + i]
  <2>1. r \in Seq(STRING)
    BY <1>2
  <2> QED
    BY <2>1, MovedParts
<1>4. /\ g \in Seq(STRING)
      /\ Len(g) = Len(p) + Len(f) - Len(q)
      /\ \A i \in 1..Len(p) : g[i] = p[i]
      /\ \A i \in 1..(Len(f) - Len(q)) : g[Len(p) + i] = f[Len(q) + i]
  BY <1>1, <1>2, MovedParts
<1> DEFINE a == Len(p)
           b == Len(q)
           c == Len(r)
<1>5. a \in Nat \ {0} /\ b \in Nat \ {0} /\ c \in Nat \ {0} /\ b < c
  BY <1>1, <1>2
<1>6. Len(g) = a + c - b - 1 /\ Len(h) = a + c - b - 1
  BY <1>2, <1>3, <1>4
<1>7. ASSUME NEW i \in 1..(a + c - b - 1)
      PROVE  g[i] = h[i]
  <2>1. h[i] = m[i]
    <3>1. i \in 1..(Len(m) - 1)
      BY <1>2, <1>3, <1>5
    <3> QED
      BY <1>2, <3>1
  <2>2. CASE i <= a
    BY <1>3, <1>4, <1>5, <2>1, <2>2
  <2>3. CASE i > a
    <3> DEFINE j == i - a
    <3>1. j \in 1..(c - 1 - b) /\ j \in 1..(c - b) /\ i = a + j /\ b + j \in 1..(c - 1)
      BY <1>5, <2>3
    <3> HIDE DEF j
    <3>2. g[a + j] = f[b + j] /\ m[a + j] = r[b + j] /\ f[b + j] = r[b + j]
      BY <1>2, <1>3, <1>4, <3>1
    <3> QED
      BY <2>1, <3>1, <3>2
  <2> QED
    BY <1>5, <2>2, <2>3
<1>8. g = h
  BY <1>2, <1>4, <1>6, <1>7, SeqEqual
<1>9. Len(f) # 0 /\ Len(h) # 0
  <2> HIDE DEF a, b, c
  <2>1. c - 1 # 0 /\ a + c - b - 1 # 0
    BY <1>5
  <2> QED
    BY <1>2, <1>6, <2>1 DEF c
<1> QED
  BY <1>1, <1>8, <1>9, EmptySeq

\* Two names below q had two names below p.
LEMMA MovedInjective ==
    ASSUME NEW p \in Path, NEW q \in Path, NEW r \in Path, NEW t \in Path,
           IsPrefix(q, r), IsPrefix(q, t), Moved(p, q, r) = Moved(p, q, t)
    PROVE  r = t
<1> DEFINE a == Len(p)
           b == Len(q)
           c == Len(r)
           d == Len(t)
           m == Moved(p, q, r)
<1>1. /\ q \in Seq(STRING) /\ r \in Seq(STRING) /\ t \in Seq(STRING)
      /\ a \in Nat /\ b \in Nat /\ c \in Nat /\ d \in Nat
  BY PathParts
<1>2. b <= c /\ b <= d /\ \A i \in 1..b : q[i] = r[i] /\ q[i] = t[i]
  <2>1. b <= c /\ \A i \in 1..b : q[i] = r[i]
    BY <1>1, PrefixPointwise
  <2>2. b <= d /\ \A i \in 1..b : q[i] = t[i]
    BY <1>1, PrefixPointwise
  <2> QED
    BY <2>1, <2>2
<1>3. Len(m) = a + c - b /\ \A i \in 1..(c - b) : m[a + i] = r[b + i]
  BY <1>1, MovedParts
<1>4. Len(m) = a + d - b /\ \A i \in 1..(d - b) : m[a + i] = t[b + i]
  <2> DEFINE l == Moved(p, q, t)
  <2>1. t \in Seq(STRING)
    BY <1>1
  <2>2. Len(l) = a + d - b /\ \A i \in 1..(d - b) : l[a + i] = t[b + i]
    BY <2>1, MovedParts
  <2>3. m = l
    OBVIOUS
  <2> QED
    BY <2>2, <2>3
<1> HIDE DEF a, b, c, d, m
<1>5. c = d
  BY <1>1, <1>3, <1>4
<1>6. ASSUME NEW i \in 1..c
      PROVE  r[i] = t[i]
  <2>1. CASE i <= b
    BY <1>1, <1>2, <2>1
  <2>2. CASE i > b
    <3> DEFINE j == i - b
    <3>1. j \in 1..(c - b) /\ i = b + j
      BY <1>1, <1>2, <2>2
    <3> HIDE DEF j
    <3> QED
      BY <1>3, <1>4, <1>5, <3>1
  <2> QED
    BY <1>1, <2>1, <2>2
<1> QED
  BY <1>1, <1>5, <1>6, SeqEqual DEF c, d

\* A rename moves a name, and all that is below it, to a new name in a directory:
\* nothing is left without its directory, and no file gets a second name.
LEMMA EntryRenamed ==
    ASSUME TreeOK, NEW p \in Path, NEW q \in Path,
           Exists(p), ~Exists(q), IsDir(Front(q)), ~IsPrefix(p, q),
           node' = [r \in Path |->
                      IF IsPrefix(q, r)
                      THEN IF Moved(p, q, r) \in Path THEN node[Moved(p, q, r)] ELSE None
                      ELSE IF IsPrefix(p, r) THEN None ELSE node[r]]
    PROVE  TreeOK'
<1>1. node' \in [Path -> File \cup {Dir, None}]
  BY DEF TreeOK
<1>2. ASSUME NEW r \in Path, Exists(r)'
      PROVE  \/ IsPrefix(q, r) /\ Moved(p, q, r) \in Path /\ node'[r] = node[Moved(p, q, r)]
             \/ ~IsPrefix(q, r) /\ ~IsPrefix(p, r) /\ node'[r] = node[r]
  BY <1>2 DEF Exists
<1>3. ASSUME NEW r \in Path, ~IsPrefix(q, r), ~IsPrefix(p, r)
      PROVE  node'[r] = node[r]
  BY <1>3
<1>4. ASSUME NEW r \in Path, Exists(r)'
      PROVE  IsDir(Front(r))'
  <2> SUFFICES ASSUME Front(r) # <<>>
               PROVE  node'[Front(r)] = Dir
    BY DEF IsDir
  <2>1. Front(r) \in Path
    BY PathParts
  <2>2. CASE r = q
    <3>1. ~IsPrefix(q, Front(q))
      BY PrefixOfFront
    <3>2. ~IsPrefix(p, Front(q))
      BY PrefixOfFront
    <3> QED
      BY <1>3, <2>1, <2>2, <3>1, <3>2 DEF IsDir
  <2>3. CASE r # q /\ IsPrefix(q, r)
    <3> DEFINE m == Moved(p, q, r)
    <3>1. m \in Path /\ node'[r] = node[m]
      BY <1>2, <1>4, <2>3
    <3>2. /\ IsPrefix(q, Front(r)) /\ Moved(p, q, Front(r)) = Front(m)
          /\ Front(m) # <<>>
      BY <2>3, <3>1, MovedFront
    <3>3. Front(m) \in Path
      BY <3>1, <3>2, PathParts
    <3>4. node[Front(m)] = Dir
      BY <1>4, <3>1, <3>2 DEF TreeOK, WellFormed, Exists, IsDir
    <3> QED
      BY <2>1, <3>2, <3>3, <3>4
  <2>4. CASE ~IsPrefix(q, r)
    <3>1. ~IsPrefix(p, r) /\ node'[r] = node[r]
      BY <1>2, <1>4, <2>4
    <3>2. ~IsPrefix(q, Front(r)) /\ ~IsPrefix(p, Front(r))
      BY <2>4, <3>1, PrefixOfFront
    <3>3. node[Front(r)] = Dir
      BY <1>4, <3>1 DEF TreeOK, WellFormed, Exists, IsDir
    <3> QED
      BY <1>3, <2>1, <3>2, <3>3
  <2> QED
    BY <2>2, <2>3, <2>4
<1>5. ASSUME NEW r \in Path, NEW t \in Path, IsFile(r)', (node[r] = node[t])'
      PROVE  r = t
  <2> DEFINE m == Moved(p, q, r)
             l == Moved(p, q, t)
  <2>1. Exists(r)' /\ Exists(t)' /\ node'[r] = node'[t] /\ node'[r] \in File
    BY <1>5, FileAssumption DEF Exists, IsFile
  <2>2. \/ IsPrefix(q, r) /\ m \in Path /\ node'[r] = node[m]
        \/ ~IsPrefix(q, r) /\ ~IsPrefix(p, r) /\ node'[r] = node[r]
    BY <1>2, <2>1
  <2>3. \/ IsPrefix(q, t) /\ l \in Path /\ node'[t] = node[l]
        \/ ~IsPrefix(q, t) /\ ~IsPrefix(p, t) /\ node'[t] = node[t]
    BY <1>2, <2>1
  <2>4. \A x, y \in Path : node[x] \in File /\ node[x] = node[y] => x = y
    BY DEF TreeOK, WellFormed, IsFile
  <2>5. CASE IsPrefix(q, r) /\ IsPrefix(q, t)
    <3>1. m = l
      BY <2>1, <2>2, <2>3, <2>4, <2>5
    <3> QED
      BY <2>5, <3>1, MovedInjective
  <2>6. \A x \in Path : IsPrefix(q, x) /\ Moved(p, q, x) \in Path => IsPrefix(p, Moved(p, q, x))
    <3> SUFFICES ASSUME NEW x \in Path, IsPrefix(q, x), Moved(p, q, x) \in Path
                 PROVE  IsPrefix(p, Moved(p, q, x))
      OBVIOUS
    <3> DEFINE k == Moved(p, q, x)
    <3>1. /\ x \in Seq(STRING) /\ p \in Seq(STRING)
          /\ Len(p) \in Nat /\ Len(q) \in Nat /\ Len(x) \in Nat /\ Len(q) <= Len(x)
      BY PathParts DEF IsPrefix
    <3>2. k \in Seq(STRING) /\ Len(k) = Len(p) + Len(x) - Len(q)
          /\ \A i \in 1..Len(p) : k[i] = p[i]
      <4>1. x \in Seq(STRING)
        BY <3>1
      <4> QED
        BY <4>1, MovedParts
    <3>3. Len(p) <= Len(k)
      BY <3>1, <3>2
    <3> HIDE DEF k
    <3> QED
      BY <3>1, <3>2, <3>3, PrefixPointwise DEF k
  <2>7. CASE IsPrefix(q, r) /\ ~IsPrefix(q, t)
    BY <2>1, <2>2, <2>3, <2>4, <2>6, <2>7
  <2>8. CASE ~IsPrefix(q, r) /\ IsPrefix(q, t)
    BY <2>1, <2>2, <2>3, <2>4, <2>6, <2>8
  <2>9. CASE ~IsPrefix(q, r) /\ ~IsPrefix(q, t)
    BY <2>1, <2>2, <2>3, <2>4, <2>9
  <2> QED
    BY <2>5, <2>7, <2>8, <2>9
<1> QED
  BY <1>1, <1>4, <1>5 DEF TreeOK, WellFormed

-----------------------------------------------------------------------------
(* Files and calls.                                                         *)

DataOK ==
    /\ data \in [File -> Seq(Block)]
    /\ \A f \in File : Len(data[f]) <= MaxBlocks

CallsOK ==
    /\ pc \in [Store -> Label]
    /\ call \in [Store -> Calls \cup {None}]
    /\ \A s \in Store :
         IF pc[s] = "idle" THEN call[s] = None ELSE call[s] \in Calls

HandlesOK ==
    /\ n \in [Store -> Nat]
    /\ src \in [Store -> File \cup {None}]
    /\ dst \in [Store -> File \cup {None}]
    /\ got \in [Store -> Seq(Block)]
    /\ start \in [Store -> 0..MaxBlocks]
    /\ alone \in [Store -> BOOLEAN]
    /\ work \in Workloads

Types == TreeOK /\ DataOK /\ CallsOK /\ HandlesOK

\* What the place of a call says of its method, its arguments and its handles:
\* nothing is left of a call that is over,
IdleShape(s) ==
    pc[s] = "idle" =>
        /\ call[s] = None /\ src[s] = None /\ dst[s] = None
        /\ n[s] = 0 /\ start[s] = 0 /\ got[s] = <<>>

\* a method on files has the handles open that it goes on to use,
FileShape(s) ==
    LET op == call[s].op IN
    /\ pc[s] = "source" => op \in {"read", "copy"} /\ n[s] = 0 /\ got[s] = <<>>
    /\ pc[s] = "target" =>
         /\ op \in {"write", "append", "touch", "copy"} /\ n[s] = 0
         /\ op = "copy" => src[s] \in File /\ got[s] = <<>>
    /\ pc[s] = "read" =>
         /\ op \in {"read", "copy"} /\ n[s] = 0 /\ src[s] \in File
         /\ op = "copy" => dst[s] \in File
    /\ pc[s] = "write" =>
         /\ op \in {"write", "append", "touch", "copy"} /\ dst[s] \in File
         /\ op = "copy" => src[s] \in File
         /\ n[s] <= Len(got[s]) /\ n[s] <= Len(data[dst[s]])
    /\ pc[s] = "answer" =>
         /\ op \notin Handle
         /\ op \in {"read", "copy"} => src[s] \in File
         /\ op \in {"write", "append", "touch", "copy"} => dst[s] \in File

\* one on directories is at a part of its path, and
DirShape(s) ==
    LET op == call[s].op
        parts == Len(call[s].path)
    IN  /\ pc[s] \in {"check", "make"} =>
             /\ op \in {"mkdir", "mkdirs"} /\ n[s] \in 1..parts
             /\ op = "mkdir" => n[s] = parts
        /\ pc[s] = "rmdir" =>
             /\ op \in {"rmdir", "rmdirs"} /\ n[s] \in 0..parts
             /\ op = "rmdir" => n[s] = parts

\* a handle stands as far behind the offset that was sought as it has gone since.
HandleShape(s) ==
    InHand(s) \/ pc[s] = "stat" =>
        /\ call[s].op \in Handle /\ FileOf(s) \in File
        /\ pc[s] = "end" => call[s].op = "whandle"
        /\ pc[s] = "stat" => got[s] = <<>>
        /\ (pc[s] = "handle" /\ call[s].op = "rhandle") \/ pc[s] = "end"
             => n[s] = start[s] + Len(got[s])

Shape(s) == IdleShape(s) /\ FileShape(s) /\ DirShape(s) /\ HandleShape(s)

ShapeInv == Types /\ \A s \in Store : Shape(s)

\* A step of store s.
StepOf(s) ==
    \/ BeginRead(s) \/ BeginWrite(s) \/ BeginMkdir(s) \/ BeginRmdir(s)
    \/ OpenSource(s) \/ OpenTarget(s)
    \/ ReadBlock(s) \/ ReadEnd(s) \/ WriteBlock(s) \/ WriteEnd(s)
    \/ CheckPart(s) \/ MakePart(s) \/ RemovePart(s)
    \/ Unlink(s) \/ Rename(s) \/ Fail(s)
    \/ OpenHandle(s) \/ SeekTo(s) \/ Stat(s) \/ SeekEnd(s)
    \/ ReadPiece(s) \/ WritePiece(s)

\* Every step is one of some store; an answer and a close() end a call as a failure
\* does.
LEMMA FileNextSteps ==
    ASSUME FileNext
    PROVE  (\E s \in Store : StepOf(s)) /\ UNCHANGED work
BY DEF FileNext, Next, FileStep, DirStep, StepOf, Return, Close, InHand, Fail

LEMMA ShapeGivesTypeOK ==
    ASSUME ShapeInv
    PROVE  FileTypeOK
<1>1. \A s \in Store :
        /\ pc[s] = "write" => dst[s] # None /\ n[s] <= Len(got[s])
        /\ pc[s] \in {"check", "make"} => n[s] \in 1..Len(call[s].path)
        /\ pc[s] = "rmdir" => n[s] \in 0..Len(call[s].path)
  BY FileAssumption DEF ShapeInv, Shape, FileShape, DirShape
<1>2. TypeOK
  BY <1>1 DEF ShapeInv, Types, TreeOK, DataOK, CallsOK, HandlesOK, TypeOK
<1>3. ASSUME NEW s \in Store, InHand(s) \/ pc[s] = "stat"
      PROVE  /\ call[s].op \in Handle /\ FileOf(s) # None
             /\ pc[s] = "end" => call[s].op = "whandle"
  BY <1>3, FileAssumption DEF ShapeInv, Shape, HandleShape
<1> QED
  BY <1>2, <1>3 DEF FileTypeOK

-----------------------------------------------------------------------------
(* What requests do to files.                                               *)

LEMMA SeqOfFunction ==
    ASSUME NEW S, NEW m \in Nat, NEW f \in [1..m -> S]
    PROVE  f \in Seq(S) /\ Len(f) = m
OBVIOUS

\* A block is written over the one at its place, or comes after the last one.
LEMMA OverlayProperties ==
    ASSUME NEW S, NEW d \in Seq(S), NEW b \in S, NEW k \in Nat, k <= Len(d)
    PROVE  /\ Overlay(d, k, b) \in Seq(S)
           /\ Len(Overlay(d, k, b)) = IF k < Len(d) THEN Len(d) ELSE k + 1
           /\ \A i \in 1..Len(Overlay(d, k, b)) :
                Overlay(d, k, b)[i] = IF i = k + 1 THEN b ELSE d[i]
<1> DEFINE m == IF k < Len(d) THEN Len(d) ELSE k + 1
           o == [i \in 1..m |-> IF i = k + 1 THEN b ELSE d[i]]
<1>1. m \in Nat
  OBVIOUS
<1>2. \A i \in 1..m : (IF i = k + 1 THEN b ELSE d[i]) \in S
  OBVIOUS
<1>3. o \in [1..m -> S]
  BY <1>2
<1>4. \A i \in 1..m : o[i] = IF i = k + 1 THEN b ELSE d[i]
  OBVIOUS
<1>5. Overlay(d, k, b) = o
  BY DEF Overlay
<1> HIDE DEF o, m
<1>6. o \in Seq(S) /\ Len(o) = m
  BY <1>1, <1>3, SeqOfFunction
<1> QED
  BY <1>4, <1>5, <1>6 DEF m

\* Files under a name or a handle are kept, the others are empty.
LEMMA KeptProperties ==
    ASSUME DataOK, NEW nd, NEW sr, NEW ds, data' = Kept(nd, sr, ds)
    PROVE  /\ DataOK'
           /\ \A f \in File : Held(f, sr, ds) => data'[f] = data[f]
<1>1. \A f \in File : data'[f] = data[f] \/ data'[f] = <<>>
  BY DEF Kept
<1>2. <<>> \in Seq(Block) /\ Len(<<>>) <= MaxBlocks
  BY BoundAssumption, EmptySeq
<1>3. data' = [f \in File |-> data'[f]]
  BY DEF Kept
<1>4. \A f \in File : data'[f] \in Seq(Block) /\ Len(data'[f]) <= MaxBlocks
  BY <1>1, <1>2 DEF DataOK
<1> QED
  BY <1>3, <1>4 DEF DataOK, Kept

\* The block that is written next: a file grows by one at its end, or one block of
\* it is replaced.
LEMMA WriteProperties ==
    ASSUME DataOK, NEW f \in File, NEW b \in Block, NEW k \in Nat, NEW d,
           \/ d = Append(data[f], b)
           \/ k <= Len(data[f]) /\ d = Overlay(data[f], k, b),
           Len(d) <= MaxBlocks, data' = [data EXCEPT ![f] = d]
    PROVE  /\ DataOK'
           /\ data'[f] = d /\ \A g \in File \ {f} : data'[g] = data[g]
           /\ Len(data[f]) <= Len(d)
<1>1. data[f] \in Seq(Block) /\ Len(data[f]) \in Nat
  BY LenProperties DEF DataOK
<1>2. d \in Seq(Block) /\ Len(data[f]) <= Len(d)
  <2>1. CASE d = Append(data[f], b)
    BY <1>1, <2>1, AppendProperties
  <2>2. CASE k <= Len(data[f]) /\ d = Overlay(data[f], k, b)
    <3>1. /\ Overlay(data[f], k, b) \in Seq(Block)
          /\ Len(Overlay(data[f], k, b))
               = IF k < Len(data[f]) THEN Len(data[f]) ELSE k + 1
      BY <1>1, <2>2, OverlayProperties
    <3> QED
      BY <1>1, <2>2, <3>1
  <2> QED
    BY <2>1, <2>2
<1>3. data'[f] = d /\ \A g \in File \ {f} : data'[g] = data[g]
  BY DEF DataOK
<1>4. \A g \in File : Len(data'[g]) <= MaxBlocks
  BY <1>3 DEF DataOK
<1>5. data' \in [File -> Seq(Block)]
  BY <1>2 DEF DataOK
<1> QED
  BY <1>2, <1>3, <1>4, <1>5 DEF DataOK

-----------------------------------------------------------------------------
(* What a step of store s does to the others.                               *)

\* It leaves their calls alone.
Frame(s) ==
    \A t \in Store \ {s} :
        /\ pc'[t] = pc[t] /\ call'[t] = call[t] /\ n'[t] = n[t]
        /\ src'[t] = src[t] /\ dst'[t] = dst[t] /\ got'[t] = got[t]
        /\ start'[t] = start[t]

\* Those whom its deeds disturb remember it.
Noted(s, deeds) ==
    \A t \in Store \ {s} :
        alone'[t] => alone[t] /\ (pc[t] # "idle" => deeds \cap Disturbs(t) = {})

\* The files they have open never shrink; blocks of one are replaced only by a
\* write to it, and come behind them only by a write or an append to it.
DataEffect(s, deeds) ==
    \A f \in File : (\E t \in Store \ {s} : f \in {src[t], dst[t]}) =>
        /\ Len(data[f]) <= Len(data'[f])
        /\ <<"write", f>> \notin deeds =>
             \A i \in 1..Len(data[f]) : data'[f][i] = data[f][i]
        /\ <<"write", f>> \notin deeds /\ <<"append", f>> \notin deeds =>
             data'[f] = data[f]

\* An entry goes only when that one is taken, and is there anew only when that one
\* is made.
NodeEffect(deeds) ==
    \A p \in Path :
        /\ <<"take", p>> \notin deeds /\ Exists(p) => node'[p] = node[p]
        /\ <<"make", p>> \notin deeds /\ Exists(p)' => Exists(p)

\* Its deeds account for all that it has done.
Told(s) == \E deeds : Noted(s, deeds) /\ DataEffect(s, deeds) /\ NodeEffect(deeds)

Effect(s) == Frame(s) /\ Told(s)

LEMMA FrameStep ==
    ASSUME Types, NEW s \in Store, StepOf(s)
    PROVE  Frame(s)
<1> USE DEF Types, CallsOK, HandlesOK, Frame, Goto
<1>1. CASE BeginRead(s) \/ BeginWrite(s)
  BY <1>1 DEF BeginRead, BeginWrite, Begin
<1>2. CASE BeginMkdir(s) \/ BeginRmdir(s)
  BY <1>2 DEF BeginMkdir, BeginRmdir, Begin
<1>3. CASE OpenSource(s) \/ OpenTarget(s)
  BY <1>3 DEF OpenSource, OpenTarget, OpenOrCreate
<1>4. CASE ReadBlock(s) \/ ReadEnd(s)
  BY <1>4 DEF ReadBlock, ReadEnd, AfterRead
<1>5. CASE WriteBlock(s) \/ WriteEnd(s)
  BY <1>5 DEF WriteBlock, WriteEnd
<1>6. CASE CheckPart(s)
  BY <1>6 DEF CheckPart, NextPart
<1>7. CASE MakePart(s)
  BY <1>7 DEF MakePart, NextPart, End
<1>8. CASE RemovePart(s) \/ Fail(s)
  BY <1>8 DEF RemovePart, Fail, End
<1>9. CASE Unlink(s) \/ Rename(s)
  BY <1>9 DEF Unlink, Rename
<1>10. CASE OpenHandle(s)
  BY <1>10 DEF OpenHandle, OpenOrCreate
<1>11. CASE SeekTo(s) \/ SeekEnd(s)
  BY <1>11 DEF SeekTo, SeekEnd, Seek
<1>12. CASE Stat(s) \/ ReadPiece(s) \/ WritePiece(s)
  BY <1>12 DEF Stat, ReadPiece, WritePiece
<1> QED
  BY <1>1, <1>2, <1>3, <1>4, <1>5, <1>6, <1>7, <1>8, <1>9, <1>10, <1>11, <1>12
     DEF StepOf

\* A step that changes nothing in the tree disturbs nobody.
LEMMA QuietStep ==
    ASSUME TreeOK, DataOK, NEW s \in Store, UNCHANGED tree,
           \A t \in Store \ {s} : alone'[t] = alone[t]
    PROVE  /\ TreeOK' /\ DataOK'
           /\ Told(s)
<1>1. node' = node /\ data' = data
  BY DEF tree
<1>2. TreeOK' /\ DataOK'
  BY <1>1 DEF TreeOK, DataOK, WellFormed, Exists, IsDir, IsFile
<1>3. Noted(s, {}) /\ DataEffect(s, {}) /\ NodeEffect({})
  BY <1>1, LenProperties DEF Noted, DataEffect, NodeEffect, DataOK, Exists
<1> QED
  BY <1>2, <1>3 DEF Told

\* The end of a call only takes files that nobody has open.
LEMMA EndEffect ==
    ASSUME Types, NEW s \in Store, End(s)
    PROVE  /\ TreeOK' /\ DataOK'
           /\ Told(s)
<1>1. node' = node /\ data' = Kept(node, src', dst')
  BY DEF End
<1>2. TreeOK'
  BY <1>1 DEF Types, TreeOK, WellFormed, Exists, IsDir, IsFile
<1>3. DataOK' /\ \A f \in File : Held(f, src', dst') => data'[f] = data[f]
  BY <1>1, KeptProperties DEF Types
<1>4. \A f \in File : (\E t \in Store \ {s} : f \in {src[t], dst[t]}) => Held(f, src', dst')
  BY DEF End, Held, Types, HandlesOK
<1>5. Noted(s, {}) /\ NodeEffect({})
  BY <1>1 DEF Noted, NodeEffect, End, Types, HandlesOK, Exists
<1>6. DataEffect(s, {})
  BY <1>3, <1>4, LenProperties DEF DataEffect, Types, DataOK
<1> QED
  BY <1>2, <1>3, <1>5, <1>6 DEF Told

\* A handle on a new file, or on one that was there.
LEMMA OpenEffect ==
    ASSUME Types, NEW s \in Store, NEW p \in Path, OpenOrCreate(s, p)
    PROVE  /\ TreeOK' /\ DataOK'
           /\ Told(s)
           /\ dst'[s] \in File /\ node'[p] = dst'[s]
           /\ dst' = [dst EXCEPT ![s] = dst'[s]]
<1>1. CASE IsFile(p) /\ dst' = [dst EXCEPT ![s] = node[p]] /\ UNCHANGED <<node, alone>>
  <2>1. UNCHANGED tree
    BY <1>1 DEF OpenOrCreate, tree
  <2>2. /\ TreeOK' /\ DataOK'
        /\ Told(s)
    BY <1>1, <2>1, QuietStep DEF Types
  <2> QED
    BY <1>1, <2>2 DEF IsFile, Types, HandlesOK
<1>2. CASE /\ ~Exists(p) /\ IsDir(Front(p)) /\ Unused # {} /\ Note(s, {<<"make", p>>})
           /\ LET f == CHOOSE f \in Unused : TRUE IN
                node' = [node EXCEPT ![p] = f] /\ dst' = [dst EXCEPT ![s] = f]
  <2> DEFINE f == CHOOSE f \in Unused : TRUE
  <2>1. f \in File /\ \A r \in Path : node[r] # f
    BY <1>2 DEF Unused
  <2>2. node' = [node EXCEPT ![p] = f] /\ dst' = [dst EXCEPT ![s] = f] /\ data' = data
    BY <1>2 DEF OpenOrCreate
  <2> HIDE DEF f
  <2>3. TreeOK'
    BY <1>2, <2>1, <2>2, EntryMade DEF Types, CanMake
  <2>4. DataOK' /\ DataEffect(s, {<<"make", p>>})
    BY <2>2, LenProperties DEF Types, DataOK, DataEffect
  <2>5. Noted(s, {<<"make", p>>})
    BY <1>2 DEF Note, Noted
  <2>6. NodeEffect({<<"make", p>>})
    BY <1>2, <2>2 DEF NodeEffect, Types, TreeOK, Exists
  <2> QED
    BY <2>1, <2>2, <2>3, <2>4, <2>5, <2>6 DEF Told, Types, HandlesOK, TreeOK
<1> QED
  BY <1>1, <1>2 DEF OpenOrCreate

\* One block goes into a file that s has open.
LEMMA WriteEffect ==
    ASSUME Types, NEW s \in Store, NEW f \in File, NEW b \in Block, NEW k \in Nat, NEW d,
           NEW kind,
           \/ kind = "append" /\ d = Append(data[f], b)
           \/ kind = "write" /\ k <= Len(data[f]) /\ d = Overlay(data[f], k, b),
           Len(d) <= MaxBlocks,
           data' = [data EXCEPT ![f] = d], node' = node, Note(s, {<<kind, f>>})
    PROVE  /\ TreeOK' /\ DataOK'
           /\ data'[f] = d /\ \A g \in File \ {f} : data'[g] = data[g]
           /\ Told(s)
<1>1. /\ DataOK' /\ data'[f] = d /\ \A g \in File \ {f} : data'[g] = data[g]
      /\ Len(data[f]) <= Len(d)
  <2>1. d = Append(data[f], b) \/ (k <= Len(data[f]) /\ d = Overlay(data[f], k, b))
    OBVIOUS
  <2> QED
    BY <2>1, WriteProperties DEF Types
<1>2. TreeOK'
  BY DEF Types, TreeOK, WellFormed, Exists, IsDir, IsFile
<1>3. Noted(s, {<<kind, f>>}) /\ NodeEffect({<<kind, f>>})
  BY DEF Note, Noted, NodeEffect, Exists
<1>4. ASSUME NEW g \in File
      PROVE  /\ Len(data[g]) <= Len(data'[g])
             /\ kind # "write" => \A i \in 1..Len(data[g]) : data'[g][i] = data[g][i]
             /\ g # f => data'[g] = data[g]
  <2>1. data[g] \in Seq(Block) /\ Len(data[g]) \in Nat
    BY LenProperties DEF Types, DataOK
  <2>2. CASE g = f
    <3>1. Len(data[g]) <= Len(data'[g])
      BY <1>1, <2>2
    <3>2. ASSUME kind # "write"
          PROVE  \A i \in 1..Len(data[g]) : data'[g][i] = data[g][i]
      BY <1>1, <2>1, <2>2, <3>2, AppendProperties
    <3> QED
      BY <3>1, <3>2
  <2>3. CASE g # f
    BY <1>1, <2>1, <2>3
  <2> QED
    BY <2>2, <2>3
<1>5. ASSUME NEW g \in File
      PROVE  /\ <<"write", g>> \notin {<<kind, f>>} => g # f \/ kind # "write"
             /\ <<"append", g>> \notin {<<kind, f>>} => g # f \/ kind # "append"
  OBVIOUS
<1>6. ASSUME NEW g \in File, g # f
      PROVE  \A i \in 1..Len(data[g]) : data'[g][i] = data[g][i]
  BY <1>4, <1>6
<1>7. DataEffect(s, {<<kind, f>>})
  BY <1>4, <1>5, <1>6 DEF DataEffect
<1> QED
  BY <1>1, <1>2, <1>3, <1>7 DEF Told

LEMMA WriteBlockEffect ==
    ASSUME ShapeInv, NEW s \in Store, WriteBlock(s)
    PROVE  /\ TreeOK' /\ DataOK'
           /\ got[s][n[s] + 1] \in Block /\ dst[s] \in File
           /\ data'[dst[s]] = IF call[s].op = "append"
                               THEN Append(data[dst[s]], got[s][n[s] + 1])
                               ELSE Overlay(data[dst[s]], n[s], got[s][n[s] + 1])
           /\ \A g \in File \ {dst[s]} : data'[g] = data[g]
           /\ Told(s)
<1> DEFINE b == got[s][n[s] + 1]
           d == IF call[s].op = "append" THEN Append(data[dst[s]], b)
                                         ELSE Overlay(data[dst[s]], n[s], b)
           kind == IF call[s].op = "append" THEN "append" ELSE "write"
<1>1. /\ dst[s] \in File /\ n[s] \in Nat /\ n[s] <= Len(data[dst[s]])
      /\ got[s] \in Seq(Block) /\ n[s] < Len(got[s])
  BY DEF WriteBlock, ShapeInv, Shape, FileShape, Types, HandlesOK
<1>2. b \in Block
  BY <1>1, ElementOfSeq, LenProperties
<1>3. /\ Len(d) <= MaxBlocks /\ data' = [data EXCEPT ![dst[s]] = d] /\ node' = node
      /\ Note(s, {<<kind, dst[s]>>})
  BY DEF WriteBlock
<1>4. \/ kind = "append" /\ d = Append(data[dst[s]], b)
      \/ kind = "write" /\ n[s] <= Len(data[dst[s]]) /\ d = Overlay(data[dst[s]], n[s], b)
  BY <1>1
<1>5. Types
  BY DEF ShapeInv
<1> HIDE DEF b, d, kind
<1>6. /\ TreeOK' /\ DataOK'
      /\ data'[dst[s]] = d /\ \A g \in File \ {dst[s]} : data'[g] = data[g]
      /\ Told(s)
  BY <1>1, <1>2, <1>3, <1>4, <1>5, WriteEffect
<1> QED
  BY <1>1, <1>2, <1>6 DEF b, d

LEMMA WritePieceEffect ==
    ASSUME ShapeInv, NEW s \in Store, WritePiece(s)
    PROVE  /\ TreeOK' /\ DataOK'
           /\ <<s, Len(got[s]) + 1>> \in Block /\ dst[s] \in File
           /\ data'[dst[s]] = IF call[s].op = "ahandle"
                               THEN Append(data[dst[s]], <<s, Len(got[s]) + 1>>)
                               ELSE Overlay(data[dst[s]], n[s], <<s, Len(got[s]) + 1>>)
           /\ \A g \in File \ {dst[s]} : data'[g] = data[g]
           /\ Told(s)
<1> DEFINE b == <<s, Len(got[s]) + 1>>
           d == IF call[s].op = "ahandle" THEN Append(data[dst[s]], b)
                                          ELSE Overlay(data[dst[s]], n[s], b)
           kind == IF call[s].op = "ahandle" THEN "append" ELSE "write"
<1>1. /\ dst[s] \in File /\ n[s] \in Nat
      /\ call[s].op = "ahandle" \/ n[s] <= Len(data[dst[s]])
  BY DEF WritePiece, ShapeInv, Shape, HandleShape, Types, HandlesOK, FileOf, Size, InHand
<1>2. b \in Block
  BY BoundAssumption, LenProperties
     DEF WritePiece, ShapeInv, Types, HandlesOK, Block
<1>3. /\ Len(d) <= MaxBlocks /\ data' = [data EXCEPT ![dst[s]] = d] /\ node' = node
      /\ Note(s, {<<kind, dst[s]>>})
  BY DEF WritePiece
<1>4. \/ kind = "append" /\ d = Append(data[dst[s]], b)
      \/ kind = "write" /\ n[s] <= Len(data[dst[s]]) /\ d = Overlay(data[dst[s]], n[s], b)
  BY <1>1
<1>5. Types
  BY DEF ShapeInv
<1> HIDE DEF b, d, kind
<1>6. /\ TreeOK' /\ DataOK'
      /\ data'[dst[s]] = d /\ \A g \in File \ {dst[s]} : data'[g] = data[g]
      /\ Told(s)
  BY <1>1, <1>2, <1>3, <1>4, <1>5, WriteEffect
<1> QED
  BY <1>1, <1>2, <1>6 DEF b, d

\* A part of a path, at which a method on directories is, is a path.
LEMMA PartIsPath ==
    ASSUME ShapeInv, NEW s \in Store, pc[s] \in {"check", "make", "rmdir"}, n[s] > 0
    PROVE  Part(s) \in Path
<1>1. call[s].path \in Path /\ n[s] \in 1..Len(call[s].path)
  BY PathParts DEF ShapeInv, Types, CallsOK, Calls, Shape, DirShape
<1> QED
  BY <1>1, PathParts DEF Part

\* Entries that are made, taken and renamed.
LEMMA EntryEffect ==
    ASSUME Types, NEW s \in Store, NEW p \in Path,
           \/ /\ CanMake(p) /\ node' = [node EXCEPT ![p] = Dir] /\ Note(s, {<<"make", p>>})
              /\ data' = data
           \/ /\ Empty(p) /\ node' = [node EXCEPT ![p] = None] /\ Note(s, {<<"take", p>>})
              /\ data' = data \/ data' = Kept(node', src, dst)
    PROVE  /\ TreeOK' /\ DataOK'
           /\ Told(s)
<1>1. DataOK' /\ \A f \in File : Held(f, src, dst) => data'[f] = data[f]
  <2>1. CASE data' = data
    BY <2>1 DEF Types, DataOK
  <2>2. CASE data' = Kept(node', src, dst)
    BY <2>2, KeptProperties DEF Types
  <2> QED
    BY <2>1, <2>2
<1>2. ASSUME NEW deeds
      PROVE  DataEffect(s, deeds)
  <2>1. \A f \in File : Len(data[f]) <= Len(data[f])
    BY LenProperties DEF Types, DataOK
  <2> QED
    BY <1>1, <2>1 DEF DataEffect, Held
<1>3. CASE CanMake(p) /\ node' = [node EXCEPT ![p] = Dir] /\ Note(s, {<<"make", p>>})
  <2>1. TreeOK'
    BY <1>3, EntryMade, FileAssumption DEF Types
  <2>2. Noted(s, {<<"make", p>>})
    BY <1>3 DEF Note, Noted
  <2>3. NodeEffect({<<"make", p>>})
    BY <1>3 DEF NodeEffect, CanMake, Exists, Types, TreeOK
  <2> QED
    BY <1>1, <1>2, <2>1, <2>2, <2>3 DEF Told
<1>4. CASE Empty(p) /\ node' = [node EXCEPT ![p] = None] /\ Note(s, {<<"take", p>>})
  <2>1. TreeOK'
    BY <1>4, EntryTaken DEF Types
  <2>2. Noted(s, {<<"take", p>>})
    BY <1>4 DEF Note, Noted
  <2>3. NodeEffect({<<"take", p>>})
    BY <1>4 DEF NodeEffect, Exists, Types, TreeOK
  <2> QED
    BY <1>1, <1>2, <2>1, <2>2, <2>3 DEF Told
<1> QED
  BY <1>3, <1>4

LEMMA RenameEffect ==
    ASSUME Types, NEW s \in Store, Rename(s)
    PROVE  /\ TreeOK' /\ DataOK'
           /\ Told(s)
<1>1. work[s].paths \subseteq Path
  BY WorkloadsAssumption DEF Types, HandlesOK
<1>2. PICK p \in Path, q \in Path :
        /\ Exists(p) /\ ~Exists(q) /\ IsDir(Front(q)) /\ ~IsPrefix(p, q)
        /\ node' = [r \in Path |->
                      IF IsPrefix(q, r)
                      THEN IF Moved(p, q, r) \in Path THEN node[Moved(p, q, r)] ELSE None
                      ELSE IF IsPrefix(p, r) THEN None ELSE node[r]]
        /\ Note(s, {"take", "make"} \X {r \in Path : IsPrefix(p, r) \/ IsPrefix(q, r)})
  BY <1>1 DEF Rename, Moved
<1> DEFINE deeds == {"take", "make"} \X {r \in Path : IsPrefix(p, r) \/ IsPrefix(q, r)}
<1>3. TreeOK'
  BY <1>2, EntryRenamed DEF Types
<1>4. data' = data
  BY DEF Rename
<1>5. DataOK' /\ DataEffect(s, deeds)
  BY <1>4, LenProperties DEF Types, DataOK, DataEffect
<1>6. \A r \in Path : <<"take", r>> \notin deeds \/ <<"make", r>> \notin deeds
                        => node'[r] = node[r]
  BY <1>2
<1>7. Noted(s, deeds) /\ NodeEffect(deeds)
  <2> HIDE DEF deeds
  <2> QED
    BY <1>2, <1>6 DEF Note, Noted, NodeEffect, Exists, deeds
<1> QED
  BY <1>3, <1>5, <1>7 DEF Told

\* Every step keeps the tree and the files in order, and has an effect on the others
\* that those whom it disturbs remember.
LEMMA StepEffect ==
    ASSUME ShapeInv, NEW s \in Store, StepOf(s), UNCHANGED work
    PROVE  TreeOK' /\ DataOK' /\ Effect(s)
<1> SUFFICES TreeOK' /\ DataOK' /\ Told(s)
  BY FrameStep DEF Effect, ShapeInv
<1>1. ASSUME UNCHANGED tree, \A t \in Store \ {s} : alone'[t] = alone[t]
      PROVE  TreeOK' /\ DataOK' /\ Told(s)
  BY <1>1, QuietStep DEF ShapeInv, Types
<1>2. ASSUME End(s)
      PROVE  TreeOK' /\ DataOK' /\ Told(s)
  BY <1>2, EndEffect DEF ShapeInv
<1>3. /\ TreeOK /\ work[s].paths \subseteq Path
      /\ pc[s] # "idle" => call[s].path \in Path /\ call[s].to \in Path
  BY WorkloadsAssumption DEF ShapeInv, Types, HandlesOK, CallsOK, Calls
<1>4. CASE BeginRead(s) \/ BeginWrite(s) \/ BeginMkdir(s) \/ BeginRmdir(s)
  BY <1>1, <1>4 DEF BeginRead, BeginWrite, BeginMkdir, BeginRmdir, Begin
<1>5. CASE OpenSource(s) \/ ReadBlock(s) \/ ReadEnd(s) \/ WriteEnd(s) \/ CheckPart(s)
  BY <1>1, <1>5 DEF OpenSource, ReadBlock, ReadEnd, WriteEnd, CheckPart
<1>6. CASE OpenTarget(s)
  <2>1. call[s].to \in Path /\ OpenOrCreate(s, call[s].to)
    BY <1>3, <1>6 DEF OpenTarget
  <2> QED
    BY <2>1, OpenEffect DEF ShapeInv
<1>7. CASE WriteBlock(s)
  BY <1>7, WriteBlockEffect
<1>8. CASE MakePart(s)
  <2>1. CASE /\ CanMake(Part(s)) /\ node' = [node EXCEPT ![Part(s)] = Dir]
             /\ Note(s, {<<"make", Part(s)>>}) /\ data' = data
    <3>1. Part(s) \in Path
      BY <1>8, PartIsPath DEF MakePart, ShapeInv, Shape, DirShape
    <3> QED
      BY <2>1, <3>1, EntryEffect DEF ShapeInv
  <2> QED
    BY <1>2, <1>8, <2>1 DEF MakePart
<1>9. CASE RemovePart(s)
  <2>1. CASE /\ n[s] > 0 /\ Empty(Part(s)) /\ node' = [node EXCEPT ![Part(s)] = None]
             /\ Note(s, {<<"take", Part(s)>>}) /\ data' = data
    <3>1. Part(s) \in Path
      BY <1>9, <2>1, PartIsPath DEF RemovePart
    <3> QED
      BY <2>1, <3>1, EntryEffect DEF ShapeInv
  <2> QED
    BY <1>2, <1>9, <2>1 DEF RemovePart
<1>10. CASE Unlink(s)
  <2>1. PICK p \in Path : /\ IsFile(p) /\ node' = [node EXCEPT ![p] = None]
                          /\ Note(s, {<<"take", p>>})
    BY <1>3, <1>10 DEF Unlink
  <2>2. data' = Kept(node', src, dst) /\ Empty(p)
    BY <1>3, <1>10, <2>1, FileEmpty DEF Unlink
  <2> QED
    BY <2>1, <2>2, EntryEffect DEF ShapeInv
<1>11. CASE Rename(s)
  BY <1>11, RenameEffect DEF ShapeInv
<1>12. CASE Fail(s)
  BY <1>2, <1>12 DEF Fail
<1>13. CASE OpenHandle(s)
  <2>1. CASE UNCHANGED <<tree, dst, alone>>
    BY <1>1, <2>1
  <2>2. CASE \E p \in Path : OpenOrCreate(s, p)
    BY <2>2, OpenEffect DEF ShapeInv
  <2> QED
    BY <1>3, <1>13, <2>1, <2>2 DEF OpenHandle
<1>14. CASE SeekTo(s) \/ SeekEnd(s) \/ ReadPiece(s)
  BY <1>1, <1>14 DEF SeekTo, SeekEnd, Seek, ReadPiece
<1>15. CASE Stat(s)
  BY <1>1, <1>15 DEF Stat, ShapeInv, Types, HandlesOK
<1>16. CASE WritePiece(s)
  BY <1>16, WritePieceEffect
<1> QED
  BY <1>4, <1>5, <1>6, <1>7, <1>8, <1>9, <1>10, <1>11, <1>12, <1>13, <1>14, <1>15,
     <1>16 DEF StepOf

-----------------------------------------------------------------------------
(* The types of a step, and the shape of a call after it.                   *)

\* A block that is read is a block.
LEMMA ReadBlockType ==
    ASSUME ShapeInv, NEW s \in Store, ReadBlock(s)
    PROVE  got'[s] \in Seq(Block) /\ Len(got'[s]) = Len(got[s]) + 1
<1>1. src[s] \in File /\ got[s] \in Seq(Block) /\ data[src[s]] \in Seq(Block)
  BY DEF ReadBlock, ShapeInv, Shape, FileShape, Types, HandlesOK, DataOK
<1>2. data[src[s]][Len(got[s]) + 1] \in Block
  BY <1>1, ElementOfSeq, LenProperties DEF ReadBlock
<1>3. got'[s] = Append(got[s], data[src[s]][Len(got[s]) + 1])
  BY DEF ReadBlock, ShapeInv, Types, HandlesOK
<1> QED
  BY <1>1, <1>2, <1>3, AppendProperties

LEMMA ReadPieceType ==
    ASSUME ShapeInv, NEW s \in Store, NEW k \in 1..(Size(s) - n[s]),
           call[s].op = "rhandle", InHand(s)
    PROVE  LET piece == SubSeq(data[src[s]], n[s] + 1, n[s] + k) IN
           /\ src[s] \in File /\ data[src[s]] \in Seq(Block)
           /\ k \in Nat \ {0} /\ n[s] + k <= Len(data[src[s]])
           /\ piece \in Seq(Block) /\ Len(piece) = k
           /\ got[s] \o piece \in Seq(Block) /\ Len(got[s] \o piece) = Len(got[s]) + k
<1> DEFINE d == data[src[s]]
           m == n[s]
           piece == SubSeq(d, m + 1, m + k)
<1>1. /\ src[s] \in File /\ d \in Seq(Block) /\ m \in Nat /\ got[s] \in Seq(Block)
      /\ Size(s) = Len(d)
  BY DEF ShapeInv, Shape, HandleShape, Types, HandlesOK, DataOK, FileOf, Size
<1> HIDE DEF d, m
<1>2. Len(d) \in Nat
  BY <1>1, LenProperties
<1>3. k \in Nat \ {0} /\ m + k <= Len(d) /\ m + 1 \in Nat \ {0} /\ m + k \in Nat
      /\ m + 1 <= m + k /\ (m + k) - (m + 1) + 1 = k
  BY <1>1, <1>2 DEF m
<1>4. piece \in Seq(Block) /\ Len(piece) = k
  BY <1>1, <1>3, PieceProperties
<1>5. got[s] \o piece \in Seq(Block) /\ Len(got[s] \o piece) = Len(got[s]) + k
  BY <1>1, <1>4, ConcatProperties
<1> QED
  BY <1>1, <1>3, <1>4, <1>5 DEF d, m

LEMMA StepCalls ==
    ASSUME ShapeInv, NEW s \in Store, StepOf(s)
    PROVE  CallsOK'
<1> USE DEF ShapeInv, Types, CallsOK, Goto, Label
<1>1. ASSUME NEW c \in Calls, NEW l \in Label \ {"idle"},
             pc' = [pc EXCEPT ![s] = l], call' = [call EXCEPT ![s] = c]
      PROVE  CallsOK'
  BY <1>1
<1>2. ASSUME pc[s] # "idle", NEW l \in Label \ {"idle"},
             pc' = [pc EXCEPT ![s] = l], call' = call
      PROVE  CallsOK'
  BY <1>2
<1>3. ASSUME pc' = pc, call' = call
      PROVE  CallsOK'
  BY <1>3
<1>4. ASSUME End(s)
      PROVE  CallsOK'
  BY <1>4 DEF End
<1>5. CASE BeginRead(s) \/ BeginWrite(s) \/ BeginMkdir(s) \/ BeginRmdir(s)
  BY <1>1, <1>5
     DEF BeginRead, BeginWrite, BeginMkdir, BeginRmdir, Begin, Calls, Op
<1>6. CASE OpenSource(s) \/ OpenTarget(s) \/ ReadEnd(s) \/ WriteEnd(s)
  BY <1>2, <1>6 DEF OpenSource, OpenTarget, ReadEnd, AfterRead, WriteEnd
<1>7. CASE ReadBlock(s) \/ WriteBlock(s) \/ Unlink(s) \/ Rename(s)
           \/ ReadPiece(s) \/ WritePiece(s)
  BY <1>3, <1>7 DEF ReadBlock, WriteBlock, Unlink, Rename, ReadPiece, WritePiece
<1>8. CASE CheckPart(s)
  BY <1>2, <1>8 DEF CheckPart, NextPart
<1>9. CASE MakePart(s)
  BY <1>2, <1>4, <1>9 DEF MakePart, NextPart
<1>10. CASE RemovePart(s)
  BY <1>2, <1>3, <1>4, <1>10 DEF RemovePart
<1>11. CASE Fail(s)
  BY <1>4, <1>11 DEF Fail
<1>12. CASE OpenHandle(s)
  <2>1. work[s].paths \subseteq Path
    BY WorkloadsAssumption DEF HandlesOK
  <2> QED
    BY <1>1, <1>12, <2>1 DEF OpenHandle, Calls, Op
<1>13. CASE SeekTo(s) \/ Stat(s) \/ SeekEnd(s)
  BY <1>2, <1>13 DEF SeekTo, SeekEnd, Seek, Stat, InHand
<1> QED
  BY <1>5, <1>6, <1>7, <1>8, <1>9, <1>10, <1>11, <1>12, <1>13 DEF StepOf

LEMMA StepHandles ==
    ASSUME ShapeInv, NEW s \in Store, StepOf(s), UNCHANGED work
    PROVE  HandlesOK'
<1>0. Types /\ HandlesOK
  BY DEF ShapeInv, Types
<1> USE <1>0 DEF HandlesOK
<1>1. ASSUME NEW deeds, Note(s, deeds)
      PROVE  alone' \in [Store -> BOOLEAN]
  BY <1>1 DEF Note
<1>2. ASSUME NEW p \in Path, OpenOrCreate(s, p)
      PROVE  dst' \in [Store -> File \cup {None}] /\ alone' \in [Store -> BOOLEAN]
  <2>1. dst' \in [Store -> File \cup {None}]
    BY <1>2, OpenEffect DEF ShapeInv
  <2> QED
    BY <1>1, <1>2, <2>1 DEF OpenOrCreate
<1>3. ASSUME End(s)
      PROVE  HandlesOK'
  BY <1>3, BoundAssumption, EmptySeq DEF End
<1>4. ASSUME NEW k \in 0..MaxData
      PROVE  [i \in 1..k |-> <<s, i>>] \in Seq(Block)
  <2>1. k \in Nat /\ [i \in 1..k |-> <<s, i>>] \in [1..k -> Block]
    BY BoundAssumption DEF Block
  <2> QED
    BY <2>1, SeqOfFunction
<1>5. \A p \in Path : Len(p) \in Nat
  BY PathParts
<1>6. /\ work[s].paths \subseteq Path
      /\ pc[s] # "idle" => call[s].path \in Path /\ call[s].to \in Path
  BY WorkloadsAssumption DEF Types, CallsOK, Calls
<1>7. \A f \in File : Len(data[f]) \in 0..MaxBlocks
  BY BoundAssumption, LenProperties DEF Types, DataOK
<1>8. CASE BeginRead(s)
  BY <1>8 DEF BeginRead, Begin
<1>9. CASE BeginWrite(s)
  BY <1>4, <1>9 DEF BeginWrite, Begin
<1>10. CASE BeginMkdir(s) \/ BeginRmdir(s)
  <2>1. \E p \in Path : n' = [n EXCEPT ![s] = Len(p)] \/ n' = [n EXCEPT ![s] = 1]
    BY <1>10 DEF BeginMkdir, BeginRmdir
  <2>2. n' \in [Store -> Nat]
    BY <1>5, <2>1
  <2> QED
    BY <1>10, <2>2 DEF BeginMkdir, BeginRmdir, Begin
<1>11. CASE OpenSource(s)
  BY <1>6, <1>7, <1>11 DEF OpenSource, IsFile, Goto
<1>12. CASE OpenTarget(s)
  BY <1>2, <1>6, <1>12 DEF OpenTarget
<1>13. CASE ReadBlock(s)
  BY <1>13, ReadBlockType DEF ReadBlock
<1>14. CASE ReadEnd(s) \/ WriteEnd(s)
  BY <1>14 DEF ReadEnd, WriteEnd
<1>15. CASE WriteBlock(s)
  <2>1. alone' \in [Store -> BOOLEAN]
    BY <1>1, <1>15 DEF WriteBlock
  <2>2. n' \in [Store -> Nat]
    BY <1>15 DEF WriteBlock
  <2> QED
    BY <1>15, <2>1, <2>2 DEF WriteBlock
<1>16. ASSUME NextPart(s)
       PROVE  n' \in [Store -> Nat]
  <2>1. n' = [n EXCEPT ![s] = @ + 1] \/ n' = n
    BY <1>16 DEF NextPart, Goto
  <2>2. CASE n' = [n EXCEPT ![s] = @ + 1]
    BY <2>2
  <2>3. CASE n' = n
    BY <2>3
  <2> QED
    BY <2>1, <2>2, <2>3
<1>17. CASE CheckPart(s)
  <2>1. n' \in [Store -> Nat]
    BY <1>16, <1>17 DEF CheckPart
  <2> QED
    BY <1>17, <2>1 DEF CheckPart
<1>18. CASE MakePart(s)
  <2>1. CASE /\ Note(s, {<<"make", Part(s)>>}) /\ NextPart(s)
             /\ UNCHANGED <<data, call, src, dst, got, start>>
    BY <1>1, <1>16, <2>1
  <2> QED
    BY <1>3, <1>18, <2>1 DEF MakePart
<1>19. CASE RemovePart(s)
  <2>1. CASE /\ Note(s, {<<"take", Part(s)>>})
             /\ UNCHANGED <<data, call, src, dst, got, start>>
             /\ n[s] > 0 /\ (n' = [n EXCEPT ![s] = @ - 1] \/ n' = n)
    <3>1. alone' \in [Store -> BOOLEAN]
      BY <1>1, <2>1
    <3>2. CASE n' = n
      BY <2>1, <3>1, <3>2
    <3>3. CASE n' = [n EXCEPT ![s] = @ - 1]
      <4>1. n[s] - 1 \in Nat
        BY <2>1
      <4>2. n' \in [Store -> Nat]
        BY <3>3, <4>1
      <4> QED
        BY <2>1, <3>1, <4>2
    <3> QED
      BY <2>1, <3>2, <3>3
  <2> QED
    BY <1>3, <1>19, <2>1 DEF RemovePart
<1>20. CASE Unlink(s) \/ Rename(s)
  BY <1>1, <1>20 DEF Unlink, Rename
<1>21. CASE Fail(s)
  BY <1>3, <1>21 DEF Fail
<1>22. CASE OpenHandle(s)
  <2>1. UNCHANGED <<n, got, start>>
    BY <1>22 DEF OpenHandle
  <2>2. CASE UNCHANGED <<dst, alone>> /\ \E p \in Path : IsFile(p) /\ src' = [src EXCEPT ![s] = node[p]]
    BY <2>1, <2>2 DEF IsFile
  <2>3. CASE UNCHANGED src /\ \E p \in Path : OpenOrCreate(s, p)
    BY <1>2, <2>1, <2>3
  <2>4. PICK p \in work[s].paths, op \in Handle \cap work[s].ops :
          \/ /\ op = "rhandle" /\ IsFile(p)
             /\ src' = [src EXCEPT ![s] = node[p]]
             /\ UNCHANGED <<tree, dst, alone>>
          \/ op # "rhandle" /\ OpenOrCreate(s, p) /\ UNCHANGED src
    BY <1>22 DEF OpenHandle
  <2>5. p \in Path
    BY <1>6
  <2>6. CASE op = "rhandle"
    BY <2>2, <2>4, <2>5, <2>6
  <2>7. CASE op # "rhandle"
    BY <2>3, <2>4, <2>5, <2>7
  <2> QED
    BY <2>6, <2>7
<1>23. CASE SeekTo(s) \/ SeekEnd(s)
  <2>1. PICK o, l : Seek(s, o, l)
    BY <1>23 DEF SeekTo, SeekEnd
  <2>2. <<>> \in Seq(Block) /\ o \in 0..MaxBlocks /\ o \in Nat
    BY <2>1, BoundAssumption, EmptySeq DEF Seek
  <2> QED
    BY <2>1, <2>2 DEF Seek
<1>24. CASE Stat(s)
  BY <1>7, <1>24, EmptySeq DEF ShapeInv, Stat, Size, Shape, HandleShape
<1>25. CASE ReadPiece(s)
  <2>1. PICK k \in 1..(Size(s) - n[s]) :
          /\ got' = [got EXCEPT ![s] = @ \o SubSeq(data[src[s]], n[s] + 1, n[s] + k)]
          /\ n' = [n EXCEPT ![s] = @ + k]
    BY <1>25 DEF ReadPiece
  <2>2. got' \in [Store -> Seq(Block)]
    BY <1>25, <2>1, ReadPieceType DEF ReadPiece, InHand
  <2>3. k \in Nat
    BY <1>25, ReadPieceType DEF ReadPiece, InHand
  <2>4. n' \in [Store -> Nat]
    BY <2>1, <2>3
  <2> QED
    BY <1>25, <2>2, <2>4 DEF ReadPiece
<1>26. CASE WritePiece(s)
  <2>1. got' \in [Store -> Seq(Block)]
    BY <1>26, WritePieceEffect, AppendProperties DEF WritePiece
  <2> QED
    BY <1>1, <1>26, <2>1 DEF WritePiece
<1> QED
  BY <1>8, <1>9, <1>10, <1>11, <1>12, <1>13, <1>14, <1>15, <1>16, <1>17, <1>18,
     <1>19, <1>20, <1>21, <1>22, <1>23, <1>24, <1>25, <1>26 DEF StepOf

\* The calls of the others keep their shape: a file they write to does not shrink.
LEMMA OthersShape ==
    ASSUME ShapeInv, NEW s \in Store, Effect(s), DataOK', NEW t \in Store \ {s}
    PROVE  Shape(t)'
<1>1. /\ pc'[t] = pc[t] /\ call'[t] = call[t] /\ n'[t] = n[t]
      /\ src'[t] = src[t] /\ dst'[t] = dst[t] /\ got'[t] = got[t]
      /\ start'[t] = start[t]
  BY DEF Effect, Frame
<1>2. Shape(t) /\ n[t] \in Nat
  BY DEF ShapeInv, Types, HandlesOK
<1>3. IdleShape(t)' /\ DirShape(t)' /\ HandleShape(t)'
  BY <1>1, <1>2 DEF Shape, IdleShape, DirShape, HandleShape, FileOf, InHand
<1>4. ASSUME pc[t] = "write"
      PROVE  n[t] <= Len(data'[dst[t]])
  <2>1. dst[t] \in File /\ n[t] <= Len(data[dst[t]])
    BY <1>2, <1>4 DEF Shape, FileShape
  <2>2. Len(data[dst[t]]) <= Len(data'[dst[t]])
    BY <2>1 DEF Effect, Told, DataEffect
  <2>3. Len(data[dst[t]]) \in Nat /\ Len(data'[dst[t]]) \in Nat
    BY <2>1, LenProperties DEF ShapeInv, Types, DataOK
  <2> QED
    BY <1>2, <2>1, <2>2, <2>3
<1>5. FileShape(t)'
  BY <1>1, <1>2, <1>4 DEF Shape, FileShape
<1> QED
  BY <1>3, <1>5 DEF Shape

\* The call of the store that takes the step: first one that begins, and one that
\* ends;
LEMMA BeginShape ==
    ASSUME ShapeInv, NEW s \in Store,
           BeginRead(s) \/ BeginWrite(s) \/ BeginMkdir(s) \/ BeginRmdir(s) \/ End(s)
    PROVE  Shape(s)'
<1>1. pc[s] = "idle" => /\ src[s] = None /\ dst[s] = None
                        /\ n[s] = 0 /\ start[s] = 0 /\ got[s] = <<>>
  BY DEF ShapeInv, Shape, IdleShape
<1>2. /\ Types /\ CallsOK /\ HandlesOK
      /\ \A p \in Path : Len(p) \in Nat /\ Len(p) \in 1..Len(p) /\ 1 \in 1..Len(p)
                           /\ Len(p) \in 0..Len(p)
  BY PathParts DEF ShapeInv, Types
<1> USE <1>1, <1>2 DEF CallsOK, HandlesOK, Begin, Goto, Shape, IdleShape, FileShape,
        DirShape, HandleShape, InHand
<1>3. CASE BeginRead(s)
  BY <1>3 DEF BeginRead
<1>4. CASE BeginWrite(s)
  BY <1>4 DEF BeginWrite
<1>5. CASE BeginMkdir(s)
  BY <1>5 DEF BeginMkdir
<1>6. CASE BeginRmdir(s)
  BY <1>6 DEF BeginRmdir
<1>7. CASE End(s)
  BY <1>7 DEF End
<1> QED
  BY <1>3, <1>4, <1>5, <1>6, <1>7

\* one that opens, reads and writes files;
LEMMA FileStepShape ==
    ASSUME ShapeInv, NEW s \in Store, HandlesOK',
           OpenSource(s) \/ OpenTarget(s) \/ ReadBlock(s) \/ ReadEnd(s)
             \/ WriteBlock(s) \/ WriteEnd(s)
    PROVE  Shape(s)'
<1>1. /\ Types /\ CallsOK /\ HandlesOK /\ TreeOK /\ Shape(s)
      /\ pc[s] # "idle" => call[s].path \in Path /\ call[s].to \in Path
  BY DEF ShapeInv, Types, CallsOK, Calls
<1> USE <1>1 DEF CallsOK, HandlesOK, Goto, Shape, IdleShape, FileShape, DirShape,
        HandleShape, InHand
<1>2. CASE OpenSource(s)
  BY <1>2 DEF OpenSource, IsFile, Handle
<1>3. CASE OpenTarget(s)
  <2>1. dst'[s] \in File /\ data' = data
    BY <1>3, OpenEffect DEF OpenTarget, OpenOrCreate
  <2>2. 0 <= Len(got[s]) /\ 0 <= Len(data[dst'[s]])
    BY <2>1, LenProperties DEF Types, DataOK
  <2> QED
    BY <1>3, <2>1, <2>2 DEF OpenTarget
<1>4. CASE ReadBlock(s)
  BY <1>4 DEF ReadBlock
<1>5. CASE ReadEnd(s)
  <2>1. dst[s] \in File => 0 <= Len(got[s]) /\ 0 <= Len(data[dst[s]])
    BY LenProperties DEF Types, DataOK
  <2>2. data' = data
    BY <1>5 DEF ReadEnd, tree
  <2> QED
    BY <1>5, <2>1, <2>2 DEF ReadEnd, AfterRead, Handle
<1>6. CASE WriteBlock(s)
  <2> DEFINE d == data[dst[s]]
             b == got[s][n[s] + 1]
  <2>1. /\ dst[s] \in File /\ d \in Seq(Block) /\ Len(d) \in Nat /\ b \in Block
        /\ n[s] \in Nat /\ n[s] <= Len(d) /\ n[s] < Len(got[s]) /\ Len(got[s]) \in Nat
    BY <1>6, WriteBlockEffect, LenProperties DEF WriteBlock, Types, DataOK
  <2>2. Len(data'[dst[s]]) = Len(d) + 1
          \/ Len(data'[dst[s]]) = IF n[s] < Len(d) THEN Len(d) ELSE n[s] + 1
    <3>1. data'[dst[s]] = Append(d, b) \/ data'[dst[s]] = Overlay(d, n[s], b)
      BY <1>6, WriteBlockEffect
    <3>2. Len(Append(d, b)) = Len(d) + 1
      BY <2>1, AppendProperties
    <3>3. Len(Overlay(d, n[s], b)) = IF n[s] < Len(d) THEN Len(d) ELSE n[s] + 1
      BY <2>1, OverlayProperties
    <3> QED
      BY <3>1, <3>2, <3>3
  <2>3. n[s] + 1 <= Len(got[s]) /\ n[s] + 1 <= Len(data'[dst[s]])
    BY <2>1, <2>2
  <2> QED
    BY <1>6, <2>3 DEF WriteBlock
<1>7. CASE WriteEnd(s)
  BY <1>7 DEF WriteEnd, Handle
<1> QED
  BY <1>2, <1>3, <1>4, <1>5, <1>6, <1>7

\* one that makes and removes directories;
LEMMA DirStepShape ==
    ASSUME ShapeInv, NEW s \in Store, CheckPart(s) \/ MakePart(s) \/ RemovePart(s)
    PROVE  Shape(s)'
<1>1. /\ Types /\ CallsOK /\ HandlesOK /\ Shape(s)
      /\ pc[s] # "idle" => call[s].path \in Path /\ Len(call[s].path) \in Nat
  BY PathParts DEF ShapeInv, Types, CallsOK, Calls
<1>2. ASSUME pc[s] \in {"check", "make"}, NextPart(s),
             UNCHANGED <<data, call, src, dst, got, start>>
      PROVE  Shape(s)'
  <2>1. /\ call[s].op \in {"mkdir", "mkdirs"} /\ n[s] \in 1..Len(call[s].path)
        /\ call[s].op = "mkdir" => n[s] = Len(call[s].path)
    BY <1>1, <1>2 DEF Shape, DirShape
  <2>2. CASE /\ n[s] < Len(call[s].path)
             /\ pc' = [pc EXCEPT ![s] = "check"] /\ n' = [n EXCEPT ![s] = @ + 1]
    <3>1. n[s] + 1 \in 1..Len(call[s].path) /\ call[s].op # "mkdir"
      BY <1>1, <1>2, <2>1, <2>2
    <3> QED
      BY <1>1, <1>2, <2>1, <2>2, <3>1
         DEF CallsOK, HandlesOK, Shape, IdleShape, FileShape, DirShape, HandleShape, InHand
  <2>3. CASE pc' = [pc EXCEPT ![s] = "answer"] /\ n' = n
    BY <1>1, <1>2, <2>1, <2>3
       DEF CallsOK, HandlesOK, Shape, IdleShape, FileShape, DirShape, HandleShape, InHand,
           Handle
  <2> QED
    BY <1>2, <2>2, <2>3 DEF NextPart, Goto
<1>3. ASSUME End(s)
      PROVE  Shape(s)'
  BY <1>3, BeginShape
<1>4. CASE CheckPart(s)
  <2>1. CASE Goto(s, "make") /\ UNCHANGED n
    BY <1>1, <1>4, <2>1
       DEF CheckPart, CallsOK, HandlesOK, Shape, IdleShape, FileShape, DirShape,
           HandleShape, InHand, Goto
  <2>2. CASE NextPart(s)
    BY <1>2, <1>4, <2>2 DEF CheckPart, tree
  <2> QED
    BY <1>4, <2>1, <2>2 DEF CheckPart
<1>5. CASE MakePart(s)
  BY <1>2, <1>3, <1>5 DEF MakePart
<1>6. CASE RemovePart(s)
  <2>1. CASE /\ n[s] > 0 /\ UNCHANGED <<data, call, src, dst, got, start>>
             /\ IF call[s].op = "rmdirs" /\ (n[s] > 1 \/ call[s].absolute)
                THEN n' = [n EXCEPT ![s] = @ - 1] /\ UNCHANGED pc
                ELSE Goto(s, "answer") /\ UNCHANGED n
    <3>1. /\ pc[s] = "rmdir" /\ call[s].op \in {"rmdir", "rmdirs"}
          /\ n[s] \in 0..Len(call[s].path)
          /\ call[s].op = "rmdir" => n[s] = Len(call[s].path)
      BY <1>1, <1>6 DEF Shape, DirShape, RemovePart
    <3>2. CASE /\ call[s].op = "rmdirs" /\ n' = [n EXCEPT ![s] = @ - 1] /\ pc' = pc
      <4>1. n[s] - 1 \in 0..Len(call[s].path)
        BY <1>1, <2>1, <3>1
      <4> QED
        BY <1>1, <2>1, <3>1, <3>2, <4>1
           DEF CallsOK, HandlesOK, Shape, IdleShape, FileShape, DirShape, HandleShape, InHand
    <3>3. CASE pc' = [pc EXCEPT ![s] = "answer"] /\ n' = n
      BY <1>1, <2>1, <3>1, <3>3
         DEF CallsOK, HandlesOK, Shape, IdleShape, FileShape, DirShape, HandleShape, InHand,
             Handle
    <3> QED
      BY <2>1, <3>2, <3>3 DEF Goto
  <2> QED
    BY <1>3, <1>6, <2>1 DEF RemovePart
<1> QED
  BY <1>4, <1>5, <1>6

\* and one on a handle.
LEMMA HandleStepShape ==
    ASSUME ShapeInv, NEW s \in Store, HandlesOK',
           OpenHandle(s) \/ SeekTo(s) \/ Stat(s) \/ SeekEnd(s) \/ ReadPiece(s)
             \/ WritePiece(s)
    PROVE  Shape(s)'
<1>1. /\ Types /\ CallsOK /\ HandlesOK /\ Shape(s)
  BY DEF ShapeInv, Types
<1> USE <1>1 DEF CallsOK, HandlesOK, Goto, Shape, IdleShape, FileShape, DirShape,
        HandleShape, InHand, FileOf
<1>2. CASE OpenHandle(s)
  <2>1. PICK p \in work[s].paths, op \in Handle \cap work[s].ops :
          /\ call' = [call EXCEPT ![s] =
                        [op |-> op, path |-> p, to |-> p, absolute |-> FALSE]]
          /\ \/ /\ op = "rhandle" /\ IsFile(p)
                /\ src' = [src EXCEPT ![s] = node[p]]
                /\ UNCHANGED <<tree, dst, alone>>
             \/ op # "rhandle" /\ OpenOrCreate(s, p) /\ UNCHANGED src
    BY <1>2 DEF OpenHandle
  <2>2. /\ pc[s] = "idle" /\ n[s] = 0 /\ start[s] = 0 /\ got[s] = <<>>
        /\ pc'[s] = "handle" /\ n' = n /\ got' = got /\ start' = start
    BY <1>2 DEF OpenHandle
  <2>3. p \in Path
    BY WorkloadsAssumption
  <2>4. call'[s].op = op /\ op \in Handle
    BY <2>1
  <2>5. IF op = "rhandle" THEN src'[s] \in File ELSE dst'[s] \in File
    <3>1. CASE op = "rhandle"
      BY <2>1, <3>1 DEF IsFile
    <3>2. CASE op # "rhandle"
      BY <2>1, <2>3, <3>2, OpenEffect
    <3> QED
      BY <3>1, <3>2
  <2>6. n'[s] = start'[s] + Len(got'[s])
    BY <2>2
  <2> QED
    BY <2>2, <2>4, <2>5, <2>6
<1>3. ASSUME NEW o, NEW l, Seek(s, o, l), InHand(s) \/ pc[s] = "stat",
             l = "handle" \/ (l = "end" /\ call[s].op = "whandle")
      PROVE  Shape(s)'
  <2>1. o \in Nat /\ got'[s] = <<>> /\ Len(<<>>) = 0 /\ o = o + Len(<<>>)
    BY <1>3, BoundAssumption DEF Seek
  <2> QED
    BY <1>3, <2>1 DEF Seek
<1>4. CASE SeekTo(s)
  BY <1>3, <1>4 DEF SeekTo
<1>5. CASE SeekEnd(s)
  <2>1. PICK o \in Seeks :
          Seek(s, start[s] + o, IF o = 0 /\ call[s].op = "whandle" THEN "end" ELSE "handle")
    BY <1>5 DEF SeekEnd
  <2>2. CASE o = 0 /\ call[s].op = "whandle"
    BY <1>3, <1>5, <2>1, <2>2 DEF SeekEnd
  <2>3. CASE ~(o = 0 /\ call[s].op = "whandle")
    BY <1>3, <1>5, <2>1, <2>3 DEF SeekEnd
  <2> QED
    BY <2>2, <2>3
<1>6. CASE Stat(s)
  BY <1>6 DEF Stat
<1>7. CASE ReadPiece(s)
  <2>1. PICK k \in 1..(Size(s) - n[s]) :
          /\ got' = [got EXCEPT ![s] = @ \o SubSeq(data[src[s]], n[s] + 1, n[s] + k)]
          /\ n' = [n EXCEPT ![s] = @ + k]
    BY <1>7 DEF ReadPiece
  <2>2. k \in Nat /\ Len(got'[s]) = Len(got[s]) + k /\ n'[s] = n[s] + k
    BY <1>7, <2>1, ReadPieceType DEF ReadPiece
  <2>3. n[s] = start[s] + Len(got[s]) /\ Len(got[s]) \in Nat /\ start[s] \in Nat
    BY <1>7, BoundAssumption, LenProperties DEF ReadPiece
  <2>4. n'[s] = start[s] + Len(got'[s])
    BY <2>2, <2>3
  <2> QED
    BY <1>7, <2>4 DEF ReadPiece
<1>8. CASE WritePiece(s)
  <2>1. Len(got'[s]) = Len(got[s]) + 1 /\ n'[s] = n[s] + 1
    BY <1>8, WritePieceEffect, AppendProperties DEF WritePiece
  <2>2. Len(got[s]) \in Nat /\ start[s] \in Nat
    BY BoundAssumption, LenProperties
  <2>3. pc[s] = "end" => n'[s] = start[s] + Len(got'[s])
    BY <1>8, <2>1, <2>2
  <2> QED
    BY <1>8, <2>3 DEF WritePiece
<1> QED
  BY <1>2, <1>4, <1>5, <1>6, <1>7, <1>8

LEMMA StepShape ==
    ASSUME ShapeInv, NEW s \in Store, StepOf(s), UNCHANGED work
    PROVE  ShapeInv'
<1>1. TreeOK' /\ DataOK' /\ CallsOK' /\ HandlesOK' /\ Effect(s)
  BY StepEffect, StepCalls, StepHandles
<1>2. Shape(s)'
  <2>1. CASE Unlink(s) \/ Rename(s)
    BY <2>1 DEF Unlink, Rename, ShapeInv, Shape, IdleShape, FileShape, DirShape,
                HandleShape, InHand
  <2>2. CASE Fail(s)
    BY <2>2, BeginShape DEF Fail
  <2> QED
    BY <1>1, <2>1, <2>2, BeginShape, FileStepShape, DirStepShape, HandleStepShape
       DEF StepOf
<1>3. \A t \in Store : Shape(t)'
  BY <1>1, <1>2, OthersShape
<1> QED
  BY <1>1, <1>3 DEF ShapeInv, Types

-----------------------------------------------------------------------------

LEMMA ShapeInit ==
    ASSUME Init
    PROVE  ShapeInv
<1>1. TreeOK /\ DataOK
  BY BoundAssumption, EmptySeq, FileAssumption
     DEF Init, TreeOK, WellFormed, Exists, IsFile, DataOK
<1>2. CallsOK /\ HandlesOK
  BY BoundAssumption, EmptySeq DEF Init, CallsOK, HandlesOK, Label
<1>3. \A s \in Store : Shape(s)
  BY DEF Init, Shape, IdleShape, FileShape, DirShape, HandleShape, InHand
<1> QED
  BY <1>1, <1>2, <1>3 DEF ShapeInv, Types

LEMMA ShapeStutter ==
    ASSUME ShapeInv, UNCHANGED vars
    PROVE  ShapeInv'
<1>1. UNCHANGED <<node, data, pc, call, n, src, dst, got, start, alone, work>>
  BY DEF vars, tree, client
<1>2. TreeOK' /\ DataOK' /\ CallsOK' /\ HandlesOK'
  BY <1>1 DEF ShapeInv, Types, TreeOK, WellFormed, Exists, IsDir, IsFile, DataOK, CallsOK,
              HandlesOK
<1>3. \A s \in Store : Shape(s)'
  BY <1>1 DEF ShapeInv, Shape, IdleShape, FileShape, DirShape, HandleShape, InHand, FileOf
<1> QED
  BY <1>2, <1>3 DEF ShapeInv, Types

LEMMA ShapeNext ==
    ASSUME ShapeInv, [FileNext]_vars
    PROVE  ShapeInv'
BY StepShape, ShapeStutter, FileNextSteps

\* However many stores work on one remote tree, and whatever fails, every entry of it
\* is in a directory, no file has two names, and every call has the handles, the
\* part of its path or the offset that the code goes on to use.
THEOREM FileTypeCorrect == FileSpec => []FileTypeOK
<1>1. Init => ShapeInv
  BY ShapeInit
<1>2. ShapeInv /\ [FileNext]_vars => ShapeInv'
  BY ShapeNext
<1>3. ShapeInv => FileTypeOK
  BY ShapeGivesTypeOK
<1> QED
  BY <1>1, <1>2, <1>3, PTL DEF FileSpec
=============================================================================
