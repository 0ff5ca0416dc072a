--------------------------- MODULE SFTPFileProofs ---------------------------
(***************************************************************************)
(* Proofs about the calls of SFTPStore and the handles of SFTPFile, for any *)
(* stores, paths, files and bounds: what a call that nobody has disturbed   *)
(* has written, read, made or removed is so when it returns, whatever the   *)
(* other stores do at the same time.                                        *)
(***************************************************************************)
EXTENDS SFTPTreeProofs

-----------------------------------------------------------------------------
(* What is true of a call on its way, as long as it is alone.               *)

\* What has been read is the start of the file.
Reading(s) ==
    call[s].op = "read" /\ pc[s] \in {"read", "answer"} =>
        /\ IsPrefix(got[s], data[src[s]])
        /\ start[s] <= Len(data[src[s]])
        /\ pc[s] = "answer" => start[s] <= Len(got[s])

\* The file that is written is the one with the name, and its first blocks are the
\* ones written.  A copy has read all of a file before it writes.
Writing(s) ==
    call[s].op \in {"write", "copy"} =>
        /\ call[s].op = "copy" /\ pc[s] = "read" =>
             node[call[s].to] = dst[s] /\ IsPrefix(got[s], data[src[s]])
        /\ pc[s] = "write" =>
             /\ node[call[s].to] = dst[s]
             /\ SubSeq(got[s], 1, n[s]) = SubSeq(data[dst[s]], 1, n[s])
        /\ pc[s] = "answer" =>
             node[call[s].to] = dst[s] /\ IsPrefix(got[s], data[dst[s]])
        /\ call[s].op = "copy" /\ pc[s] \in {"write", "answer"} =>
             Len(got[s]) = Len(data[src[s]])

\* What has been appended so far is in the file with the name.
Appending(s) ==
    /\ call[s].op = "append" =>
         /\ pc[s] = "write" =>
              /\ node[call[s].to] = dst[s]
              /\ InOrder(SubSeq(got[s], 1, n[s]), data[dst[s]])
         /\ pc[s] = "answer" =>
              node[call[s].to] = dst[s] /\ InOrder(got[s], data[dst[s]])
    /\ call[s].op = "ahandle" =>
         node[call[s].to] = dst[s] /\ InOrder(got[s], data[dst[s]])

\* The last part has been made.
Making(s) ==
    call[s].op \in {"mkdir", "mkdirs"} /\ pc[s] = "answer" => Exists(call[s].path)

\* The parts behind the one at hand are gone.
Removing(s) ==
    LET p == call[s].path IN
    /\ call[s].op = "rmdir" /\ pc[s] = "answer" => ~Exists(p)
    /\ call[s].op = "rmdirs" /\ pc[s] \in {"rmdir", "answer"} =>
         \A k \in 1..Len(p) : pc[s] = "answer" \/ n[s] < k => ~Exists(SubSeq(p, 1, k))

\* What has been read through a handle is what the file has between the offset that
\* was sought and the one that the handle stands at.
Piecewise(s) ==
    call[s].op = "rhandle" /\ pc[s] = "handle" /\ got[s] # <<>> =>
        /\ n[s] <= Len(data[src[s]])
        /\ got[s] = SubSeq(data[src[s]], start[s] + 1, n[s])

\* fstat() has shown the end of the file, and the handle stays at the end.
FromEnd(s) ==
    call[s].op = "whandle" =>
        /\ pc[s] = "stat" => start[s] = Len(data[dst[s]])
        /\ pc[s] = "end" =>
             /\ n[s] = Len(data[dst[s]])
             /\ got[s] = SubSeq(data[dst[s]], start[s] + 1, n[s])

Undisturbed(s) ==
    pc[s] # "idle" /\ alone[s] =>
        /\ Reading(s) /\ Writing(s) /\ Appending(s) /\ Making(s) /\ Removing(s)
        /\ Piecewise(s) /\ FromEnd(s)

IInv == ShapeInv /\ \A s \in Store : Undisturbed(s)

-----------------------------------------------------------------------------
(* Prefixes, parts and orders of blocks.                                    *)

\* A prefix of a file stays one when the file grows at its end.
LEMMA PrefixGrows ==
    ASSUME NEW S, NEW a \in Seq(S), NEW b \in Seq(S), NEW c \in Seq(S), IsPrefix(a, b),
           Len(b) <= Len(c), \A i \in 1..Len(b) : c[i] = b[i]
    PROVE  IsPrefix(a, c)
<1>1. Len(a) <= Len(b) /\ \A i \in 1..Len(a) : a[i] = b[i]
  BY PrefixPointwise
<1>2. Len(a) \in Nat /\ Len(b) \in Nat /\ Len(c) \in Nat
  BY LenProperties
<1>3. Len(a) <= Len(c) /\ \A i \in 1..Len(a) : a[i] = c[i]
  BY <1>1, <1>2
<1> QED
  BY <1>3, PrefixPointwise

\* The next block of a file is read behind a prefix of it.
LEMMA PrefixNext ==
    ASSUME NEW S, NEW a \in Seq(S), NEW b \in Seq(S), IsPrefix(a, b), Len(a) < Len(b)
    PROVE  IsPrefix(Append(a, b[Len(a) + 1]), b)
<1> DEFINE e == b[Len(a) + 1]
           c == Append(a, e)
<1>1. Len(a) <= Len(b) /\ \A i \in 1..Len(a) : a[i] = b[i]
  BY PrefixPointwise
<1>2. Len(a) \in Nat /\ Len(b) \in Nat
  BY LenProperties
<1>3. e \in S
  BY <1>2, ElementOfSeq
<1> HIDE DEF e
<1>4. /\ c \in Seq(S) /\ Len(c) = Len(a) + 1 /\ c[Len(a) + 1] = e
      /\ \A i \in 1..Len(a) : c[i] = a[i]
  BY <1>3, AppendProperties
<1> HIDE DEF c
<1>5. Len(c) <= Len(b) /\ \A i \in 1..Len(c) : c[i] = b[i]
  BY <1>1, <1>2, <1>4 DEF e
<1> QED
  BY <1>4, <1>5, PrefixPointwise DEF c, e

\* Two sequences have the same part, if they have it element by element.
LEMMA PieceEqual ==
    ASSUME NEW S, NEW a \in Seq(S), NEW b \in Seq(S), NEW i \in Nat \ {0}, NEW j \in Nat,
           j <= Len(a), j <= Len(b)
    PROVE  SubSeq(a, i, j) = SubSeq(b, i, j) <=> \A k \in i..j : a[k] = b[k]
<1> DEFINE c == SubSeq(a, i, j)
           d == SubSeq(b, i, j)
           l == IF i <= j THEN j - i + 1 ELSE 0
<1>1. c \in Seq(S) /\ Len(c) = l /\ \A k \in 1..Len(c) : c[k] = a[i + k - 1]
  BY PieceProperties
<1>2. d \in Seq(S) /\ Len(d) = l /\ \A k \in 1..Len(d) : d[k] = b[i + k - 1]
  BY PieceProperties
<1>3. l \in Nat /\ \A k \in 1..l : i + k - 1 \in i..j
  OBVIOUS
<1>4. \A k \in i..j : k - i + 1 \in 1..l /\ i + (k - i + 1) - 1 = k
  OBVIOUS
<1> HIDE DEF c, d, l
<1>5. ASSUME c = d, NEW k \in i..j
      PROVE  a[k] = b[k]
  <2>1. c[k - i + 1] = a[i + (k - i + 1) - 1] /\ d[k - i + 1] = b[i + (k - i + 1) - 1]
    BY <1>1, <1>2, <1>4
  <2> QED
    BY <1>4, <1>5, <2>1
<1>6. ASSUME \A k \in i..j : a[k] = b[k]
      PROVE  c = d
  <2>1. \A k \in 1..l : c[k] = d[k]
    BY <1>1, <1>2, <1>3, <1>6
  <2> QED
    BY <1>1, <1>2, <2>1, SeqEqual
<1> QED
  BY <1>5, <1>6 DEF c, d

\* The first k + 1 of a sequence are the first k and the one behind them.
LEMMA PieceNext ==
    ASSUME NEW S, NEW a \in Seq(S), NEW k \in Nat, k < Len(a)
    PROVE  SubSeq(a, 1, k + 1) = Append(SubSeq(a, 1, k), a[k + 1])
<1> DEFINE c == SubSeq(a, 1, k)
           d == SubSeq(a, 1, k + 1)
           e == a[k + 1]
<1>1. Len(a) \in Nat /\ e \in S
  BY LenProperties, ElementOfSeq
<1>2. c \in Seq(S) /\ Len(c) = k /\ \A i \in 1..k : c[i] = a[i]
  <2>1. /\ c \in Seq(S) /\ Len(c) = IF 1 <= k THEN k - 1 + 1 ELSE 0
        /\ \A i \in 1..Len(c) : c[i] = a[1 + i - 1]
    BY <1>1, PieceProperties
  <2> QED
    BY <2>1
<1>3. d \in Seq(S) /\ Len(d) = k + 1 /\ \A i \in 1..(k + 1) : d[i] = a[i]
  <2>1. /\ d \in Seq(S) /\ Len(d) = IF 1 <= k + 1 THEN k + 1 - 1 + 1 ELSE 0
        /\ \A i \in 1..Len(d) : d[i] = a[1 + i - 1]
    BY <1>1, PieceProperties
  <2> QED
    BY <2>1
<1> HIDE DEF c, d, e
<1>4. /\ Append(c, e) \in Seq(S) /\ Len(Append(c, e)) = k + 1
      /\ Append(c, e)[k + 1] = e /\ \A i \in 1..k : Append(c, e)[i] = c[i]
  BY <1>1, <1>2, AppendProperties
<1>5. \A i \in 1..(k + 1) : d[i] = Append(c, e)[i]
  BY <1>2, <1>3, <1>4 DEF e
<1>6. d = Append(c, e)
  BY <1>3, <1>4, <1>5, SeqEqual
<1> QED
  BY <1>6 DEF c, d, e

LEMMA InOrderEmpty ==
    ASSUME NEW d
    PROVE  InOrder(<<>>, d)
<1> DEFINE f == [i \in 1..0 |-> 1]
<1>1. f \in [1..Len(<<>>) -> 1..Len(d)] /\ 1..Len(<<>>) = {}
  OBVIOUS
<1> QED
  BY <1>1 DEF InOrder

\* Blocks that are in a file in their order stay so when it grows at its end,
LEMMA InOrderGrows ==
    ASSUME NEW S, NEW b \in Seq(S), NEW d \in Seq(S), NEW e \in Seq(S), InOrder(b, d),
           Len(d) <= Len(e), \A i \in 1..Len(d) : e[i] = d[i]
    PROVE  InOrder(b, e)
<1>1. PICK f \in [1..Len(b) -> 1..Len(d)] :
        /\ \A i \in 1..Len(b) : d[f[i]] = b[i]
        /\ \A i, j \in 1..Len(b) : i < j => f[i] < f[j]
  BY DEF InOrder
<1>2. Len(d) \in Nat /\ Len(e) \in Nat
  BY LenProperties
<1>3. \A i \in 1..Len(b) : f[i] \in 1..Len(e) /\ e[f[i]] = b[i]
  <2> TAKE i \in 1..Len(b)
  <2>1. f[i] \in 1..Len(d) /\ d[f[i]] = b[i]
    BY <1>1
  <2>2. f[i] \in 1..Len(e)
    BY <1>2, <2>1
  <2> QED
    BY <2>1, <2>2
<1>4. f \in [1..Len(b) -> 1..Len(e)]
  BY <1>3
<1> QED
  BY <1>1, <1>3, <1>4 DEF InOrder

\* and with one more at the end of both.
LEMMA InOrderAppend ==
    ASSUME NEW S, NEW b \in Seq(S), NEW d \in Seq(S), NEW c \in S, InOrder(b, d)
    PROVE  InOrder(Append(b, c), Append(d, c))
<1> DEFINE l == Len(b)
           m == Len(d)
           b2 == Append(b, c)
           d2 == Append(d, c)
<1>1. PICK f \in [1..l -> 1..m] :
        /\ \A i \in 1..l : d[f[i]] = b[i]
        /\ \A i, j \in 1..l : i < j => f[i] < f[j]
  BY DEF InOrder
<1>2. l \in Nat /\ m \in Nat
  BY LenProperties
<1>3. Len(b2) = l + 1 /\ b2[l + 1] = c /\ \A i \in 1..l : b2[i] = b[i]
  BY AppendProperties
<1>4. Len(d2) = m + 1 /\ d2[m + 1] = c /\ \A i \in 1..m : d2[i] = d[i]
  BY AppendProperties
<1> HIDE DEF l, m, b2, d2
<1> DEFINE g == [i \in 1..(l + 1) |-> IF i <= l THEN f[i] ELSE m + 1]
<1>5. g \in [1..Len(b2) -> 1..Len(d2)]
  BY <1>1, <1>2, <1>3, <1>4
<1>6. \A i \in 1..l : g[i] = f[i] /\ g[i] \in 1..m
  BY <1>1, <1>2
<1>7. g[l + 1] = m + 1
  BY <1>2
<1> HIDE DEF g
<1>8. ASSUME NEW i \in 1..Len(b2)
      PROVE  d2[g[i]] = b2[i]
  <2>1. CASE i \in 1..l
    BY <1>1, <1>3, <1>4, <1>6, <2>1
  <2>2. CASE i = l + 1
    BY <1>3, <1>4, <1>7, <2>2
  <2> QED
    BY <1>2, <1>3, <2>1, <2>2
<1>9. ASSUME NEW i \in 1..Len(b2), NEW j \in 1..Len(b2), i < j
      PROVE  g[i] < g[j]
  <2>1. i \in 1..l /\ (j \in 1..l \/ j = l + 1)
    BY <1>2, <1>3, <1>9
  <2>2. CASE j \in 1..l
    <3>1. f[i] < f[j]
      BY <1>1, <1>9, <2>1, <2>2
    <3> QED
      BY <1>6, <2>1, <2>2, <3>1
  <2>3. CASE j = l + 1
    <3>1. g[i] \in 1..m
      BY <1>6, <2>1
    <3> QED
      BY <1>2, <1>7, <2>3, <3>1
  <2> QED
    BY <2>1, <2>2, <2>3
<1>10. \E h \in [1..Len(b2) -> 1..Len(d2)] :
         /\ \A i \in 1..Len(b2) : d2[h[i]] = b2[i]
         /\ \A i, j \in 1..Len(b2) : i < j => h[i] < h[j]
  BY <1>5, <1>8, <1>9
<1> QED
  BY <1>10 DEF InOrder, b2, d2

-----------------------------------------------------------------------------
(* A step of another store: if the call of t is alone after it, nothing was  *)
(* done to its file or its path that the property of the call cannot stand.  *)

LEMMA OthersUndisturbed ==
    ASSUME ShapeInv, ShapeInv', NEW s \in Store, Effect(s), NEW t \in Store \ {s},
           Undisturbed(t)
    PROVE  Undisturbed(t)'
<1>1. /\ pc'[t] = pc[t] /\ call'[t] = call[t] /\ n'[t] = n[t]
      /\ src'[t] = src[t] /\ dst'[t] = dst[t] /\ got'[t] = got[t]
      /\ start'[t] = start[t]
  BY DEF Effect, Frame
<1>2. SUFFICES ASSUME pc[t] # "idle", alone'[t]
               PROVE  /\ Reading(t)' /\ Writing(t)' /\ Appending(t)' /\ Making(t)'
                      /\ Removing(t)' /\ Piecewise(t)' /\ FromEnd(t)'
  BY <1>1 DEF Undisturbed
<1>3. PICK deeds : Noted(s, deeds) /\ DataEffect(s, deeds) /\ NodeEffect(deeds)
  BY DEF Effect, Told
<1>4. alone[t] /\ \A d \in Disturbs(t) : d \notin deeds
  BY <1>2, <1>3 DEF Noted
<1>5. /\ Reading(t) /\ Writing(t) /\ Appending(t) /\ Making(t) /\ Removing(t)
      /\ Piecewise(t) /\ FromEnd(t)
  BY <1>2, <1>4 DEF Undisturbed
<1>6. /\ Shape(t) /\ call[t].path \in Path /\ call[t].to \in Path
      /\ n[t] \in Nat /\ got[t] \in Seq(Block) /\ start[t] \in Nat
  BY <1>2, BoundAssumption DEF ShapeInv, Types, CallsOK, HandlesOK, Calls
<1>7. ASSUME NEW f \in File, f = src[t] \/ f = dst[t]
      PROVE  /\ data[f] \in Seq(Block) /\ data'[f] \in Seq(Block)
             /\ Len(data[f]) \in Nat /\ Len(data'[f]) \in Nat
             /\ Len(data[f]) <= Len(data'[f])
             /\ <<"write", f>> \notin deeds =>
                  \A i \in 1..Len(data[f]) : data'[f][i] = data[f][i]
             /\ <<"write", f>> \notin deeds /\ <<"append", f>> \notin deeds =>
                  data'[f] = data[f]
  <2>1. data[f] \in Seq(Block) /\ data'[f] \in Seq(Block)
    BY DEF ShapeInv, Types, DataOK
  <2> QED
    BY <1>3, <1>7, <2>1, LenProperties DEF DataEffect
<1>8. Reading(t)'
  <2> SUFFICES ASSUME call[t].op = "read", pc[t] \in {"read", "answer"}
               PROVE  /\ IsPrefix(got[t], data'[src[t]])
                      /\ start[t] <= Len(data'[src[t]])
                      /\ pc[t] = "answer" => start[t] <= Len(got[t])
    BY <1>1 DEF Reading
  <2>1. src[t] \in File /\ <<"write", src[t]>> \notin deeds
    BY <1>4, <1>6 DEF Shape, FileShape, Disturbs
  <2>2. /\ IsPrefix(got[t], data[src[t]]) /\ start[t] <= Len(data[src[t]])
        /\ pc[t] = "answer" => start[t] <= Len(got[t])
    BY <1>5 DEF Reading
  <2> DEFINE d == data[src[t]]
             e == data'[src[t]]
  <2>3. /\ d \in Seq(Block) /\ e \in Seq(Block) /\ Len(d) \in Nat /\ Len(e) \in Nat
        /\ Len(d) <= Len(e) /\ \A i \in 1..Len(d) : e[i] = d[i]
    BY <1>7, <2>1
  <2>4. got[t] \in Seq(Block) /\ start[t] \in Nat /\ start[t] <= Len(d) /\ IsPrefix(got[t], d)
    BY <1>6, <2>2
  <2> HIDE DEF d, e
  <2>5. IsPrefix(got[t], e)
    BY <2>3, <2>4, PrefixGrows
  <2>6. start[t] <= Len(e)
    BY <2>3, <2>4
  <2> QED
    BY <2>2, <2>5, <2>6 DEF e
<1>9. Writing(t)'
  <2> SUFFICES ASSUME call[t].op \in {"write", "copy"}, pc[t] \in {"read", "write", "answer"}
               PROVE  Writing(t)'
    BY <1>1 DEF Writing
  <2>1. /\ <<"write", dst[t]>> \notin deeds /\ <<"take", call[t].to>> \notin deeds
        /\ call[t].op = "copy" =>
             <<"write", src[t]>> \notin deeds /\ <<"append", src[t]>> \notin deeds
    BY <1>4 DEF Disturbs
  <2>2. /\ call[t].op = "copy" \/ pc[t] \in {"write", "answer"} => dst[t] \in File
        /\ call[t].op = "copy" => src[t] \in File
        /\ pc[t] = "write" => n[t] <= Len(got[t]) /\ n[t] <= Len(data[dst[t]])
    BY <1>6 DEF Shape, FileShape
  <2>3. call[t].op = "copy" => data'[src[t]] = data[src[t]]
    BY <1>7, <2>1, <2>2
  <2>4. node[call[t].to] = dst[t] /\ dst[t] \in File => node'[call[t].to] = dst[t]
    BY <1>3, <1>6, <2>1, FileAssumption DEF NodeEffect, Exists
  <2>5. ASSUME pc[t] = "write", SubSeq(got[t], 1, n[t]) = SubSeq(data[dst[t]], 1, n[t])
        PROVE  SubSeq(got[t], 1, n[t]) = SubSeq(data'[dst[t]], 1, n[t])
    <3> DEFINE d == data[dst[t]]
               e == data'[dst[t]]
    <3>1. /\ d \in Seq(Block) /\ e \in Seq(Block) /\ Len(d) \in Nat /\ Len(e) \in Nat
          /\ Len(d) <= Len(e) /\ n[t] <= Len(d) /\ n[t] \in Nat
          /\ \A k \in 1..Len(d) : e[k] = d[k]
      BY <1>6, <1>7, <2>1, <2>2, <2>5
    <3> HIDE DEF d, e
    <3>2. n[t] <= Len(e) /\ 1 \in Nat \ {0} /\ \A k \in 1..n[t] : d[k] = e[k]
      BY <3>1
    <3>3. SubSeq(d, 1, n[t]) = SubSeq(e, 1, n[t])
      BY <3>1, <3>2, PieceEqual
    <3> QED
      BY <2>5, <3>3 DEF d, e
  <2>6. ASSUME pc[t] = "answer", IsPrefix(got[t], data[dst[t]])
        PROVE  IsPrefix(got[t], data'[dst[t]])
    BY <1>6, <1>7, <2>1, <2>2, <2>6, PrefixGrows
  <2> QED
    BY <1>1, <1>5, <2>2, <2>3, <2>4, <2>5, <2>6 DEF Writing
<1>10. Appending(t)'
  <2> SUFFICES ASSUME \/ call[t].op = "append" /\ pc[t] \in {"write", "answer"}
                      \/ call[t].op = "ahandle"
               PROVE  Appending(t)'
    BY <1>1 DEF Appending
  <2>1. <<"write", dst[t]>> \notin deeds /\ <<"take", call[t].to>> \notin deeds
    BY <1>4 DEF Disturbs
  <2>2. dst[t] \in File
    <3>1. call[t].op = "ahandle" => InHand(t) \/ pc[t] = "stat"
      BY <1>2, <1>6
         DEF Shape, FileShape, DirShape, InHand, Handle, ShapeInv, Types, CallsOK, Label
    <3> QED
      BY <1>6, <3>1 DEF Shape, FileShape, HandleShape, FileOf
  <2>3. node[call[t].to] = dst[t] => node'[call[t].to] = dst[t]
    BY <1>3, <1>6, <2>1, <2>2, FileAssumption DEF NodeEffect, Exists
  <2>4. ASSUME NEW b \in Seq(Block), InOrder(b, data[dst[t]])
        PROVE  InOrder(b, data'[dst[t]])
    BY <1>7, <2>1, <2>2, <2>4, InOrderGrows
  <2>5. pc[t] = "write" => SubSeq(got[t], 1, n[t]) \in Seq(Block)
    <3>1. pc[t] = "write" => n[t] <= Len(got[t])
      BY <1>6 DEF Shape, FileShape
    <3> QED
      BY <1>6, <3>1, PieceProperties
  <2> QED
    BY <1>1, <1>5, <1>6, <2>3, <2>4, <2>5 DEF Appending
<1>11. Making(t)'
  <2> SUFFICES ASSUME call[t].op \in {"mkdir", "mkdirs"}, pc[t] = "answer"
               PROVE  Exists(call[t].path)'
    BY <1>1 DEF Making, Exists
  <2>1. <<"take", call[t].path>> \notin deeds /\ Exists(call[t].path)
    BY <1>4, <1>5 DEF Disturbs, Making
  <2> QED
    BY <1>1, <1>3, <1>6, <2>1 DEF NodeEffect, Exists
<1>12. Removing(t)'
  <2> SUFFICES ASSUME call[t].op \in {"rmdir", "rmdirs"}
               PROVE  Removing(t)'
    BY <1>1 DEF Removing
  <2>1. /\ call[t].op = "rmdir" => <<"make", call[t].path>> \notin deeds
        /\ call[t].op = "rmdirs" =>
             \A k \in 1..Len(call[t].path) :
                <<"make", SubSeq(call[t].path, 1, k)>> \notin deeds
    BY <1>4 DEF Disturbs
  <2>2. \A p \in Path : node'[p] # None /\ <<"make", p>> \notin deeds => node[p] # None
    BY <1>3 DEF NodeEffect, Exists
  <2>3. \A k \in 1..Len(call[t].path) : SubSeq(call[t].path, 1, k) \in Path
    BY <1>6, PathParts
  <2> QED
    BY <1>1, <1>5, <1>6, <2>1, <2>2, <2>3 DEF Removing, Exists
<1>13. Piecewise(t)'
  <2> SUFFICES ASSUME call[t].op = "rhandle", pc[t] = "handle", got[t] # <<>>
               PROVE  /\ n[t] <= Len(data'[src[t]])
                      /\ got[t] = SubSeq(data'[src[t]], start[t] + 1, n[t])
    BY <1>1 DEF Piecewise
  <2>1. src[t] \in File /\ <<"write", src[t]>> \notin deeds
    BY <1>4, <1>6 DEF Shape, HandleShape, InHand, FileOf, Disturbs
  <2>2. n[t] <= Len(data[src[t]]) /\ got[t] = SubSeq(data[src[t]], start[t] + 1, n[t])
    BY <1>5 DEF Piecewise
  <2> DEFINE d == data[src[t]]
             e == data'[src[t]]
             i == start[t] + 1
             j == n[t]
  <2>3. /\ d \in Seq(Block) /\ e \in Seq(Block) /\ Len(d) \in Nat /\ Len(e) \in Nat
        /\ Len(d) <= Len(e) /\ j \in Nat /\ i \in Nat \ {0} /\ j <= Len(d)
        /\ \A k \in 1..Len(d) : e[k] = d[k]
    <3>1. /\ d \in Seq(Block) /\ e \in Seq(Block) /\ Len(d) \in Nat /\ Len(e) \in Nat
          /\ Len(d) <= Len(e) /\ \A k \in 1..Len(d) : e[k] = d[k]
      BY <1>7, <2>1
    <3>2. j \in Nat /\ i \in Nat \ {0} /\ j <= Len(d)
      BY <1>6, <2>2
    <3> QED
      BY <3>1, <3>2
  <2> HIDE DEF d, e, i, j
  <2>4. j <= Len(e) /\ \A k \in i..j : d[k] = e[k]
    BY <2>3
  <2>5. SubSeq(d, i, j) = SubSeq(e, i, j)
    BY <2>3, <2>4, PieceEqual
  <2> QED
    BY <2>2, <2>4, <2>5 DEF d, e, i, j
<1>14. FromEnd(t)'
  <2> SUFFICES ASSUME call[t].op = "whandle", pc[t] \in {"stat", "end"}
               PROVE  FromEnd(t)'
    BY <1>1 DEF FromEnd
  <2>1. /\ dst[t] \in File
        /\ <<"write", dst[t]>> \notin deeds /\ <<"append", dst[t]>> \notin deeds
    BY <1>4, <1>6 DEF Shape, HandleShape, InHand, FileOf, Disturbs
  <2>2. data'[dst[t]] = data[dst[t]]
    BY <1>7, <2>1
  <2> QED
    BY <1>1, <1>5, <2>2 DEF FromEnd
<1> QED
  BY <1>8, <1>9, <1>10, <1>11, <1>12, <1>13, <1>14

-----------------------------------------------------------------------------
(* The store's own step.                                                    *)

\* A call that begins, or is over, has nothing to show yet, or any more.
LEMMA BeginUndisturbed ==
    ASSUME ShapeInv, NEW s \in Store,
           \/ BeginRead(s) \/ BeginWrite(s) \/ BeginMkdir(s) \/ BeginRmdir(s)
           \/ End(s) \/ Unlink(s) \/ Rename(s)
    PROVE  Undisturbed(s)'
<1>1. CallsOK /\ HandlesOK
  BY DEF ShapeInv, Types
<1> USE <1>1 DEF CallsOK, HandlesOK, Undisturbed, Reading, Writing, Appending, Making,
        Removing, Piecewise, FromEnd, Begin, Goto
<1>2. CASE BeginRead(s) \/ BeginWrite(s) \/ BeginMkdir(s)
  BY <1>2 DEF BeginRead, BeginWrite, BeginMkdir
<1>3. CASE BeginRmdir(s)
  <2>1. PICK p \in Path : call'[s].path = p /\ n'[s] = Len(p) /\ call'[s].op \in {"rmdir", "rmdirs"}
                          /\ pc'[s] = "rmdir"
    BY <1>3 DEF BeginRmdir
  <2>2. \A k \in 1..Len(p) : ~(Len(p) < k)
    BY PathParts
  <2> QED
    BY <2>1, <2>2
<1>4. CASE End(s) \/ Unlink(s) \/ Rename(s)
  BY <1>4 DEF End, Unlink, Rename
<1> QED
  BY <1>2, <1>3, <1>4

\* What was there of the call before the step, of a step that changes only some of
\* its variables.
LEMMA OwnFacts ==
    ASSUME ShapeInv, NEW s \in Store, pc[s] # "idle"
    PROVE  /\ CallsOK /\ HandlesOK /\ TreeOK /\ Shape(s)
           /\ call[s] \in Calls /\ call[s].path \in Path /\ call[s].to \in Path
           /\ n[s] \in Nat /\ got[s] \in Seq(Block) /\ Len(got[s]) \in Nat /\ start[s] \in Nat
           /\ \A f \in File : data[f] \in Seq(Block) /\ Len(data[f]) \in Nat
BY BoundAssumption, LenProperties
   DEF ShapeInv, Types, CallsOK, HandlesOK, DataOK, Calls

LEMMA OpenUndisturbed ==
    ASSUME ShapeInv, NEW s \in Store, OpenSource(s) \/ OpenTarget(s)
    PROVE  Undisturbed(s)'
<1>1. pc[s] # "idle"
  BY DEF OpenSource, OpenTarget
<1>2. /\ CallsOK /\ HandlesOK /\ TreeOK /\ FileShape(s)
      /\ call[s].path \in Path /\ call[s].to \in Path
      /\ got[s] \in Seq(Block) /\ Len(got[s]) \in Nat
      /\ \A f \in File : data[f] \in Seq(Block) /\ Len(data[f]) \in Nat
  BY <1>1, OwnFacts DEF Shape
<1>3. ASSUME NEW f \in File
      PROVE  IsPrefix(<<>>, data[f]) /\ Len(data[f]) <= Len(data[f])
  <2>1. SubSeq(<<>>, 1, 0) = <<>> /\ SubSeq(data[f], 1, 0) = <<>>
    BY SubSeqEmpty
  <2>2. Len(<<>>) = 0 /\ 0 <= Len(data[f]) /\ Len(data[f]) <= Len(data[f])
    BY <1>2, EmptySeq
  <2> QED
    BY <2>1, <2>2 DEF IsPrefix
<1>4. CASE OpenSource(s)
  <2>1. /\ pc[s] = "source" /\ src'[s] \in File /\ start'[s] = Len(data[src'[s]])
        /\ data' = data /\ got' = got /\ call' = call
        /\ pc'[s] = IF call[s].op = "copy" THEN "target" ELSE "read"
    BY <1>2, <1>4 DEF OpenSource, IsFile, Goto, CallsOK, HandlesOK, tree
  <2>2. got[s] = <<>> /\ call[s].op \in {"read", "copy"}
    BY <1>2, <2>1 DEF FileShape
  <2> QED
    BY <1>3, <2>1, <2>2
       DEF Undisturbed, Reading, Writing, Appending, Making, Removing, Piecewise, FromEnd
<1>5. CASE OpenTarget(s)
  <2>1. /\ pc[s] = "target" /\ dst'[s] \in File /\ node'[call[s].to] = dst'[s]
        /\ data' = data /\ got' = got /\ call' = call /\ n' = n /\ src' = src
        /\ pc'[s] = IF call[s].op = "copy" THEN "read" ELSE "write"
    <3>1. OpenOrCreate(s, call[s].to)
      BY <1>5 DEF OpenTarget
    <3>2. dst'[s] \in File /\ node'[call[s].to] = dst'[s] /\ data' = data
      BY <1>2, <3>1, OpenEffect DEF ShapeInv, OpenOrCreate
    <3> QED
      BY <1>2, <1>5, <3>2 DEF OpenTarget, Goto, CallsOK
  <2>2. /\ call[s].op \in {"write", "append", "touch", "copy"} /\ n[s] = 0
        /\ call[s].op = "copy" => src[s] \in File /\ got[s] = <<>>
    BY <1>2, <2>1 DEF FileShape
  <2>3. SubSeq(got[s], 1, 0) = <<>> /\ SubSeq(data[dst'[s]], 1, 0) = <<>>
    BY SubSeqEmpty
  <2>4. InOrder(<<>>, data[dst'[s]])
    BY InOrderEmpty
  <2> QED
    BY <1>3, <2>1, <2>2, <2>3, <2>4
       DEF Undisturbed, Reading, Writing, Appending, Making, Removing, Piecewise, FromEnd
<1> QED
  BY <1>4, <1>5

LEMMA ReadUndisturbed ==
    ASSUME ShapeInv, NEW s \in Store, Undisturbed(s), ReadBlock(s) \/ ReadEnd(s)
    PROVE  Undisturbed(s)'
<1>1. pc[s] = "read"
  BY DEF ReadBlock, ReadEnd
<1>2. /\ CallsOK /\ HandlesOK /\ FileShape(s) /\ n[s] = 0 /\ src[s] \in File
      /\ call[s].op \in {"read", "copy"}
      /\ got[s] \in Seq(Block) /\ Len(got[s]) \in Nat
      /\ start[s] \in Nat
      /\ data[src[s]] \in Seq(Block) /\ Len(data[src[s]]) \in Nat
  BY <1>1, OwnFacts DEF Shape, FileShape
<1>3. /\ data' = data /\ node' = node /\ call' = call /\ n' = n /\ src' = src
      /\ dst' = dst /\ start' = start /\ alone' = alone
  BY DEF ReadBlock, ReadEnd, tree
<1>4. SUFFICES ASSUME alone[s]
               PROVE  Undisturbed(s)'
  BY <1>3 DEF Undisturbed
<1>5. /\ IsPrefix(got[s], data[src[s]])
      /\ call[s].op = "read" => start[s] <= Len(data[src[s]])
      /\ call[s].op = "copy" => node[call[s].to] = dst[s]
  BY <1>1, <1>2, <1>4 DEF Undisturbed, Reading, Writing
<1>6. CASE ReadBlock(s)
  <2>1. /\ pc' = pc /\ Len(got[s]) < Len(data[src[s]])
        /\ got'[s] = Append(got[s], data[src[s]][Len(got[s]) + 1])
    BY <1>2, <1>6 DEF ReadBlock, HandlesOK
  <2>2. IsPrefix(got'[s], data[src[s]])
    BY <1>2, <1>5, <2>1, PrefixNext
  <2> QED
    BY <1>1, <1>2, <1>3, <1>5, <2>1, <2>2
       DEF Undisturbed, Reading, Writing, Appending, Making, Removing, Piecewise, FromEnd
<1>7. CASE ReadEnd(s)
  <2>1. /\ pc'[s] = IF call[s].op = "copy" THEN "write" ELSE "answer"
        /\ Len(got[s]) >= Len(data[src[s]]) /\ got' = got
    BY <1>2, <1>7 DEF ReadEnd, AfterRead, Goto, CallsOK
  <2>2. Len(got[s]) = Len(data[src[s]])
    BY <1>2, <1>5, <2>1 DEF IsPrefix
  <2>3. SubSeq(got[s], 1, 0) = <<>> /\ SubSeq(data[dst[s]], 1, 0) = <<>>
    BY SubSeqEmpty
  <2> QED
    BY <1>1, <1>2, <1>3, <1>5, <2>1, <2>2, <2>3
       DEF Undisturbed, Reading, Writing, Appending, Making, Removing, Piecewise, FromEnd
<1> QED
  BY <1>6, <1>7

\* The next block goes over the one at its place, and those before stay.
LEMMA OverlayNext ==
    ASSUME NEW S, NEW a \in Seq(S), NEW d \in Seq(S), NEW k \in Nat,
           k < Len(a), k <= Len(d), SubSeq(a, 1, k) = SubSeq(d, 1, k)
    PROVE  SubSeq(a, 1, k + 1) = SubSeq(Overlay(d, k, a[k + 1]), 1, k + 1)
<1> DEFINE o == Overlay(d, k, a[k + 1])
<1>1. a[k + 1] \in S /\ Len(a) \in Nat /\ Len(d) \in Nat
  BY ElementOfSeq, LenProperties
<1>2. /\ o \in Seq(S) /\ Len(o) = IF k < Len(d) THEN Len(d) ELSE k + 1
      /\ \A i \in 1..Len(o) : o[i] = IF i = k + 1 THEN a[k + 1] ELSE d[i]
  BY <1>1, OverlayProperties
<1>3. \A i \in 1..k : a[i] = d[i]
  <2>1. 1 \in Nat \ {0} /\ k <= Len(a)
    BY <1>1
  <2> QED
    BY <2>1, PieceEqual
<1> HIDE DEF o
<1>4. k + 1 <= Len(o) /\ k + 1 <= Len(a) /\ k + 1 \in Nat /\ 1 \in Nat \ {0}
  BY <1>1, <1>2
<1>5. \A i \in 1..(k + 1) : a[i] = o[i]
  BY <1>1, <1>2, <1>3, <1>4
<1>6. SubSeq(a, 1, k + 1) = SubSeq(o, 1, k + 1)
  BY <1>2, <1>4, <1>5, PieceEqual
<1> QED
  BY <1>6 DEF o

LEMMA WriteBlockUndisturbed ==
    ASSUME ShapeInv, NEW s \in Store, Undisturbed(s), WriteBlock(s)
    PROVE  Undisturbed(s)'
<1> DEFINE f == dst[s]
           d == data[f]
           k == n[s]
           b == got[s][k + 1]
<1>1. pc[s] = "write" /\ k < Len(got[s])
  BY DEF WriteBlock
<1>2. /\ CallsOK /\ HandlesOK /\ FileShape(s)
      /\ call[s].op \in {"write", "append", "touch", "copy"}
      /\ f \in File /\ (call[s].op = "copy" => src[s] \in File)
      /\ got[s] \in Seq(Block) /\ Len(got[s]) \in Nat /\ k \in Nat /\ k <= Len(d)
      /\ \A g \in File : data[g] \in Seq(Block) /\ Len(data[g]) \in Nat
  BY <1>1, OwnFacts DEF Shape, FileShape
<1>3. /\ node' = node /\ call' = call /\ pc' = pc /\ n'[s] = k + 1 /\ src' = src
      /\ dst' = dst /\ start' = start /\ got' = got
      /\ alone'[s] => alone[s]
  BY <1>2 DEF WriteBlock, HandlesOK, Note
<1>4. /\ b \in Block /\ \A g \in File \ {f} : data'[g] = data[g]
      /\ data'[f] = IF call[s].op = "append" THEN Append(d, b) ELSE Overlay(d, k, b)
  BY WriteBlockEffect
<1>5. SUFFICES ASSUME alone[s]
               PROVE  Undisturbed(s)'
  BY <1>3 DEF Undisturbed
<1>6. CASE call[s].op \in {"write", "copy"}
  <2>1. /\ node[call[s].to] = f /\ SubSeq(got[s], 1, k) = SubSeq(d, 1, k)
        /\ call[s].op = "copy" => Len(got[s]) = Len(data[src[s]])
    BY <1>1, <1>5, <1>6 DEF Undisturbed, Writing
  <2>2. data'[f] = Overlay(d, k, b)
    BY <1>4, <1>6
  <2>3. SubSeq(got[s], 1, k + 1) = SubSeq(data'[f], 1, k + 1)
    <3>1. d \in Seq(Block) /\ got[s] \in Seq(Block) /\ k \in Nat /\ k < Len(got[s])
          /\ k <= Len(d) /\ SubSeq(got[s], 1, k) = SubSeq(d, 1, k)
      BY <1>1, <1>2, <2>1
    <3> HIDE DEF d, k
    <3>2. SubSeq(got[s], 1, k + 1) = SubSeq(Overlay(d, k, b), 1, k + 1)
      BY <3>1, OverlayNext
    <3> QED
      BY <2>2, <3>2
  <2>4. call[s].op = "copy" => Len(data'[src[s]]) = Len(data[src[s]])
    <3>1. CASE src[s] = f
      <4>1. Len(Overlay(d, k, b)) = IF k < Len(d) THEN Len(d) ELSE k + 1
        BY <1>2, <1>4, OverlayProperties
      <4> QED
        BY <1>1, <2>1, <2>2, <3>1, <4>1
    <3>2. CASE src[s] # f
      BY <1>2, <1>4, <3>2
    <3> QED
      BY <3>1, <3>2
  <2> HIDE DEF f, d, k, b
  <2> QED
    BY <1>1, <1>3, <1>6, <2>1, <2>3, <2>4
       DEF Undisturbed, Reading, Writing, Appending, Making, Removing, Piecewise, FromEnd,
           f, d, k, b
<1>7. CASE call[s].op = "append"
  <2>1. node[call[s].to] = f /\ InOrder(SubSeq(got[s], 1, k), d)
    BY <1>1, <1>5, <1>7 DEF Undisturbed, Appending
  <2>2. SubSeq(got[s], 1, k) \in Seq(Block)
    BY <1>1, <1>2, PieceProperties
  <2>3. SubSeq(got[s], 1, k + 1) = Append(SubSeq(got[s], 1, k), b)
    BY <1>1, <1>2, PieceNext
  <2>4. InOrder(SubSeq(got[s], 1, k + 1), data'[f])
    <3>1. d \in Seq(Block) /\ b \in Block /\ data'[f] = Append(d, b)
      BY <1>2, <1>4, <1>7
    <3> HIDE DEF d, b
    <3> QED
      BY <2>1, <2>2, <2>3, <3>1, InOrderAppend
  <2> HIDE DEF f, d, k, b
  <2> QED
    BY <1>1, <1>3, <1>7, <2>1, <2>4
       DEF Undisturbed, Reading, Writing, Appending, Making, Removing, Piecewise, FromEnd,
           f, d, k, b
<1>8. CASE call[s].op = "touch"
  BY <1>3, <1>8
     DEF Undisturbed, Reading, Writing, Appending, Making, Removing, Piecewise, FromEnd
<1> QED
  BY <1>2, <1>6, <1>7, <1>8

LEMMA WriteEndUndisturbed ==
    ASSUME ShapeInv, NEW s \in Store, Undisturbed(s), WriteEnd(s)
    PROVE  Undisturbed(s)'
<1>1. pc[s] = "write" /\ n[s] = Len(got[s])
  BY DEF WriteEnd
<1>2. /\ CallsOK /\ HandlesOK /\ FileShape(s) /\ dst[s] \in File
      /\ call[s].op \in {"write", "append", "touch", "copy"}
      /\ got[s] \in Seq(Block) /\ n[s] \in Nat /\ n[s] <= Len(data[dst[s]])
      /\ data[dst[s]] \in Seq(Block)
  BY <1>1, OwnFacts DEF Shape, FileShape
<1>3. /\ data' = data /\ node' = node /\ call' = call /\ n' = n /\ src' = src
      /\ dst' = dst /\ start' = start /\ got' = got /\ alone' = alone /\ pc'[s] = "answer"
  BY <1>2 DEF WriteEnd, tree, Goto, CallsOK
<1>4. SUFFICES ASSUME alone[s]
               PROVE  Undisturbed(s)'
  BY <1>3 DEF Undisturbed
<1>5. SubSeq(got[s], 1, n[s]) = got[s]
  BY <1>1, <1>2, SubSeqFull
<1>6. call[s].op \in {"write", "copy"} => IsPrefix(got[s], data[dst[s]])
  BY <1>1, <1>2, <1>4 DEF Undisturbed, Writing, IsPrefix
<1> QED
  BY <1>1, <1>2, <1>3, <1>4, <1>5, <1>6
     DEF Undisturbed, Reading, Writing, Appending, Making, Removing, Piecewise, FromEnd

\* A part is made, or there; it is removed; and the loop goes on.
LEMMA DirUndisturbed ==
    ASSUME ShapeInv, NEW s \in Store, Undisturbed(s),
           CheckPart(s) \/ MakePart(s) \/ RemovePart(s)
    PROVE  Undisturbed(s)'
<1> DEFINE p == call[s].path
           k == n[s]
<1>1. pc[s] \in {"check", "make", "rmdir"}
  BY DEF CheckPart, MakePart, RemovePart
<1>2. /\ CallsOK /\ HandlesOK /\ TreeOK /\ DirShape(s) /\ p \in Path /\ k \in Nat
      /\ Len(p) \in Nat \ {0} /\ SubSeq(p, 1, Len(p)) = p
  BY <1>1, OwnFacts, PathParts, SubSeqFull DEF Shape
<1>3. ASSUME End(s)
      PROVE  Undisturbed(s)'
  BY <1>3, BeginUndisturbed
<1>4. ASSUME NextPart(s), call' = call, pc[s] \in {"check", "make"}, Exists(Part(s))'
      PROVE  Undisturbed(s)'
  <2>1. call[s].op \in {"mkdir", "mkdirs"} /\ k \in 1..Len(p)
    BY <1>2, <1>4 DEF DirShape
  <2>2. CASE pc'[s] = "check"
    BY <1>4, <2>1, <2>2
       DEF Undisturbed, Reading, Writing, Appending, Making, Removing, Piecewise, FromEnd
  <2>3. CASE pc'[s] = "answer" /\ ~(k < Len(p)) /\ n' = n
    <3>1. Part(s)' = p
      BY <1>2, <1>4, <2>1, <2>3 DEF Part
    <3>2. node'[p] # None
      BY <1>4, <3>1 DEF Exists
    <3> QED
      BY <1>4, <2>1, <2>3, <3>2
         DEF Undisturbed, Reading, Writing, Appending, Making, Removing, Piecewise, FromEnd,
             Exists
  <2> QED
    BY <1>2, <1>4, <2>2, <2>3 DEF NextPart, Goto, CallsOK
<1>5. CASE CheckPart(s)
  <2>1. call' = call /\ node' = node /\ pc[s] = "check"
    BY <1>5 DEF CheckPart, tree
  <2>2. CASE Exists(Part(s)) /\ NextPart(s)
    <3>1. node'[Part(s)] # None
      BY <2>1, <2>2 DEF Exists
    <3>2. CASE n' = n
      <4>1. Exists(Part(s))'
        BY <2>1, <3>1, <3>2 DEF Exists, Part
      <4> QED
        BY <1>4, <2>1, <2>2, <4>1
    <3>3. CASE pc'[s] = "check"
      BY <1>2, <2>1, <3>3
         DEF DirShape, Undisturbed, Reading, Writing, Appending, Making, Removing,
             Piecewise, FromEnd
    <3> QED
      BY <1>2, <2>2, <3>2, <3>3 DEF NextPart, Goto, CallsOK
  <2>3. CASE Goto(s, "make")
    BY <1>2, <2>1, <2>3
       DEF DirShape, Goto, CallsOK, Undisturbed, Reading, Writing, Appending, Making,
           Removing, Piecewise, FromEnd
  <2> QED
    BY <1>5, <2>2, <2>3 DEF CheckPart
<1>6. CASE MakePart(s)
  <2>1. CASE /\ CanMake(Part(s)) /\ node' = [node EXCEPT ![Part(s)] = Dir]
             /\ NextPart(s) /\ call' = call
    <3>1. pc[s] = "make" /\ Part(s) \in Path
      BY <1>2, <1>6, PartIsPath DEF MakePart, DirShape
    <3>2. node'[Part(s)] # None
      BY <1>2, <2>1, <3>1, FileAssumption DEF TreeOK
    <3>3. CASE n' = n
      <4>1. Exists(Part(s))'
        BY <2>1, <3>2, <3>3 DEF Exists, Part
      <4> QED
        BY <1>4, <2>1, <3>1, <4>1
    <3>4. CASE pc'[s] = "check"
      BY <1>2, <2>1, <3>1, <3>4
         DEF DirShape, Undisturbed, Reading, Writing, Appending, Making, Removing,
             Piecewise, FromEnd
    <3> QED
      BY <1>2, <2>1, <3>3, <3>4 DEF NextPart, Goto, CallsOK
  <2> QED
    BY <1>3, <1>6, <2>1 DEF MakePart
<1>7. CASE RemovePart(s)
  <2>1. CASE /\ k > 0 /\ node' = [node EXCEPT ![Part(s)] = None]
             /\ Note(s, {<<"take", Part(s)>>})
             /\ UNCHANGED <<data, call, src, dst, got, start>>
             /\ IF call[s].op = "rmdirs" /\ (k > 1 \/ call[s].absolute)
                THEN n' = [n EXCEPT ![s] = @ - 1] /\ UNCHANGED pc
                ELSE Goto(s, "answer") /\ UNCHANGED n
    <3>1. /\ pc[s] = "rmdir" /\ call[s].op \in {"rmdir", "rmdirs"} /\ k \in 0..Len(p)
          /\ call[s].op = "rmdir" => k = Len(p)
          /\ Part(s) \in Path /\ Part(s) = SubSeq(p, 1, k) /\ call'[s] = call[s]
      BY <1>2, <1>7, <2>1, PartIsPath DEF RemovePart, DirShape, Part
    <3>2. SUFFICES ASSUME alone[s]
                   PROVE  Undisturbed(s)'
      BY <2>1 DEF Note, Undisturbed
    <3>3. \A q \in Path : node'[q] = IF q = Part(s) THEN None ELSE node[q]
      BY <1>2, <2>1 DEF TreeOK
    <3>4. ASSUME call[s].op = "rmdirs", NEW i \in 1..Len(p), k - 1 < i
          PROVE  node'[SubSeq(p, 1, i)] = None
      <4>1. SubSeq(p, 1, i) \in Path
        BY <1>2, PathParts
      <4>2. CASE i = k
        BY <3>1, <3>3, <4>1, <4>2
      <4>3. CASE i # k
        <5>1. k < i
          BY <1>2, <3>4, <4>3
        <5>2. node[SubSeq(p, 1, i)] = None
          BY <3>1, <3>2, <3>4, <5>1 DEF Undisturbed, Removing, Exists
        <5> QED
          BY <3>3, <4>1, <5>2
      <4> QED
        BY <4>2, <4>3
    <3>5. call[s].op = "rmdir" => node'[p] = None
      BY <1>2, <3>1, <3>3
    <3>6. CASE call[s].op = "rmdirs" /\ n'[s] = k - 1 /\ pc' = pc
      BY <3>1, <3>4, <3>6
         DEF Undisturbed, Reading, Writing, Appending, Making, Removing, Piecewise, FromEnd,
             Exists
    <3>7. CASE pc'[s] = "answer" /\ (call[s].op = "rmdirs" => k = 1)
      <4>1. \A i \in 1..Len(p) : 1 - 1 < i
        OBVIOUS
      <4>2. call[s].op = "rmdirs" => \A i \in 1..Len(p) : node'[SubSeq(p, 1, i)] = None
        BY <3>4, <3>7, <4>1
      <4> QED
        BY <3>1, <3>5, <3>7, <4>2
           DEF Undisturbed, Reading, Writing, Appending, Making, Removing, Piecewise,
               FromEnd, Exists
    <3>8. \/ call[s].op = "rmdirs" /\ n'[s] = k - 1 /\ pc' = pc
          \/ pc'[s] = "answer" /\ (call[s].op = "rmdirs" => ~(k > 1))
      BY <1>2, <2>1 DEF Goto, CallsOK, HandlesOK
    <3>9. ~(k > 1) => k = 1
      BY <1>2, <2>1
    <3> QED
      BY <3>6, <3>7, <3>8, <3>9
  <2> QED
    BY <1>3, <1>7, <2>1 DEF RemovePart
<1> QED
  BY <1>5, <1>6, <1>7

LEMMA OpenHandleUndisturbed ==
    ASSUME ShapeInv, NEW s \in Store, OpenHandle(s)
    PROVE  Undisturbed(s)'
<1>1. Types /\ CallsOK /\ HandlesOK
  BY DEF ShapeInv, Types
<1>2. PICK p \in work[s].paths, op \in Handle \cap work[s].ops :
        /\ call' = [call EXCEPT ![s] =
                      [op |-> op, path |-> p, to |-> p, absolute |-> FALSE]]
        /\ \/ /\ op = "rhandle" /\ IsFile(p)
              /\ src' = [src EXCEPT ![s] = node[p]]
              /\ UNCHANGED <<tree, dst, alone>>
           \/ op # "rhandle" /\ OpenOrCreate(s, p) /\ UNCHANGED src
  BY DEF OpenHandle
<1>3. /\ got'[s] = <<>> /\ pc'[s] = "handle"
      /\ call'[s].op = op /\ call'[s].to = p /\ op \in Handle /\ p \in Path
  BY <1>1, <1>2, WorkloadsAssumption
     DEF OpenHandle, Goto, CallsOK, HandlesOK, ShapeInv, Shape, IdleShape
<1>4. op = "ahandle" => node'[p] = dst'[s]
  BY <1>1, <1>2, <1>3, OpenEffect
<1>5. InOrder(<<>>, data'[dst'[s]])
  BY InOrderEmpty
<1> QED
  BY <1>3, <1>4, <1>5
     DEF Handle, Undisturbed, Reading, Writing, Appending, Making, Removing, Piecewise,
         FromEnd

\* After fstat() the handle of a writer counts as alone, and after the seek that
\* follows it is at the end of the file, if it still is alone.
LEMMA SeekUndisturbed ==
    ASSUME ShapeInv, NEW s \in Store, Undisturbed(s), SeekTo(s) \/ Stat(s) \/ SeekEnd(s)
    PROVE  Undisturbed(s)'
<1>1. InHand(s) \/ pc[s] = "stat"
  BY DEF SeekTo, Stat, SeekEnd
<1>2. /\ CallsOK /\ HandlesOK /\ HandleShape(s)
      /\ call[s].op \in Handle /\ FileOf(s) \in File /\ pc[s] # "idle"
  BY <1>1, OwnFacts DEF InHand, Shape, HandleShape
<1>3. data' = data /\ node' = node /\ call' = call /\ src' = src /\ dst' = dst
  BY DEF SeekTo, SeekEnd, Seek, Stat, tree
<1>4. got'[s] = <<>> /\ pc'[s] \in {"handle", "end", "stat"}
  BY <1>2 DEF SeekTo, SeekEnd, Seek, Stat, Goto, CallsOK, HandlesOK
<1>5. InOrder(<<>>, data[dst[s]])
  BY InOrderEmpty
<1>6. ASSUME call[s].op # "whandle"
      PROVE  Undisturbed(s)'
  <2>1. alone'[s] => alone[s]
    BY <1>2, <1>6 DEF SeekTo, SeekEnd, Seek, Stat, HandlesOK
  <2>2. alone[s] /\ call[s].op = "ahandle" => node[call[s].to] = dst[s]
    BY <1>2 DEF Undisturbed, Appending
  <2> QED
    BY <1>2, <1>3, <1>4, <1>5, <1>6, <2>1, <2>2
       DEF Handle, Undisturbed, Reading, Writing, Appending, Making, Removing, Piecewise,
           FromEnd
<1>7. CASE call[s].op = "whandle"
  <2>1. CASE Stat(s)
    <3>1. start'[s] = Len(data[dst[s]]) /\ pc'[s] = "stat"
      BY <1>2, <1>7, <2>1 DEF Stat, Size, FileOf, Goto, CallsOK, HandlesOK
    <3> QED
      BY <1>3, <1>7, <3>1
         DEF Undisturbed, Reading, Writing, Appending, Making, Removing, Piecewise, FromEnd
  <2>2. CASE pc'[s] = "handle"
    BY <1>3, <1>7, <2>2
       DEF Undisturbed, Reading, Writing, Appending, Making, Removing, Piecewise, FromEnd
  <2>3. CASE pc'[s] = "end" /\ SeekEnd(s)
    <3>1. PICK o \in Seeks :
            Seek(s, start[s] + o, IF o = 0 /\ call[s].op = "whandle" THEN "end" ELSE "handle")
      BY <2>3 DEF SeekEnd
    <3>2. o = 0
      BY <1>2, <2>3, <3>1 DEF Seek, Goto, CallsOK
    <3>3. start[s] + 0 = start[s]
      BY <1>2, BoundAssumption DEF HandlesOK
    <3>4. n'[s] = start[s] /\ start'[s] = start[s] /\ alone' = alone /\ pc[s] = "stat"
      BY <1>2, <2>3, <3>1, <3>2, <3>3 DEF Seek, SeekEnd, HandlesOK
    <3>5. SUFFICES ASSUME alone[s]
                   PROVE  Undisturbed(s)'
      BY <3>4 DEF Undisturbed
    <3>6. start[s] = Len(data[dst[s]])
      BY <1>2, <1>7, <3>4, <3>5 DEF Undisturbed, FromEnd
    <3>7. SubSeq(data[dst[s]], start[s] + 1, start[s]) = <<>>
      <4>1. start[s] \in Int /\ start[s] + 1 \in Int /\ start[s] < start[s] + 1
        BY <1>2, BoundAssumption DEF HandlesOK
      <4> QED
        BY <4>1, SubSeqEmpty
    <3> QED
      BY <1>3, <1>4, <1>7, <2>3, <3>4, <3>6, <3>7
         DEF Undisturbed, Reading, Writing, Appending, Making, Removing, Piecewise, FromEnd
  <2>4. SeekTo(s) => pc'[s] = "handle"
    BY <1>2 DEF SeekTo, Seek, Goto, CallsOK
  <2>5. SeekEnd(s) => pc'[s] \in {"handle", "end"}
    BY <1>2 DEF SeekEnd, Seek, Goto, CallsOK
  <2> QED
    BY <2>1, <2>2, <2>3, <2>4, <2>5
<1> QED
  BY <1>6, <1>7

\* A piece that is read goes on where the one before ended.
LEMMA ReadPieceUndisturbed ==
    ASSUME ShapeInv, NEW s \in Store, Undisturbed(s), ReadPiece(s)
    PROVE  Undisturbed(s)'
<1> DEFINE d == data[src[s]]
           m == n[s]
           b == start[s]
<1>1. pc[s] = "handle" /\ call[s].op = "rhandle"
  BY DEF ReadPiece
<1>2. /\ CallsOK /\ HandlesOK /\ HandleShape(s) /\ m = b + Len(got[s])
      /\ m \in Nat /\ b \in Nat /\ got[s] \in Seq(Block) /\ Len(got[s]) \in Nat
  BY <1>1, OwnFacts DEF InHand, Shape, HandleShape
<1>3. /\ data' = data /\ node' = node /\ call' = call /\ src' = src /\ dst' = dst
      /\ start' = start /\ alone' = alone /\ pc' = pc
  BY DEF ReadPiece, tree
<1>4. PICK k \in 1..(Size(s) - m) :
        got'[s] = got[s] \o SubSeq(d, m + 1, m + k) /\ n'[s] = m + k
  BY <1>2 DEF ReadPiece, HandlesOK
<1> DEFINE piece == SubSeq(d, m + 1, m + k)
<1>5. d \in Seq(Block) /\ k \in Nat \ {0} /\ m + k <= Len(d) /\ piece \in Seq(Block)
      /\ Len(d) \in Nat
  BY <1>1, ReadPieceType, LenProperties DEF InHand
<1>6. SUFFICES ASSUME alone[s]
               PROVE  Undisturbed(s)'
  BY <1>3 DEF Undisturbed
<1>7. got[s] # <<>> => got[s] = SubSeq(d, b + 1, m)
  BY <1>1, <1>6 DEF Undisturbed, Piecewise
<1> HIDE DEF d, m, b
<1>8. got'[s] = SubSeq(d, b + 1, m + k)
  <2>1. CASE got[s] = <<>>
    <3>1. m = b
      BY <1>2, <2>1
    <3>2. <<>> \o piece = piece
      BY <1>5, ConcatEmptySeq
    <3> QED
      BY <1>4, <2>1, <3>1, <3>2
  <2>2. CASE got[s] # <<>>
    <3>1. /\ b + 1 \in 1..(Len(d) + 1) /\ m \in ((b + 1) - 1)..Len(d)
          /\ m + k \in m..Len(d)
      BY <1>2, <1>5
    <3>2. SubSeq(d, b + 1, m) \o SubSeq(d, m + 1, m + k) = SubSeq(d, b + 1, m + k)
      BY <1>5, <3>1, ConcatAdjacentSubSeq
    <3> QED
      BY <1>4, <1>7, <2>2, <3>2
  <2> QED
    BY <2>1, <2>2
<1> QED
  BY <1>1, <1>3, <1>4, <1>5, <1>8
     DEF d, m, b, Undisturbed, Reading, Writing, Appending, Making, Removing, Piecewise,
         FromEnd

\* What is written at the end of a file comes after the part of it that was there.
LEMMA OverlayAtEnd ==
    ASSUME NEW S, NEW d \in Seq(S), NEW c \in S, NEW i \in Nat \ {0}, i <= Len(d) + 1
    PROVE  /\ Len(Overlay(d, Len(d), c)) = Len(d) + 1
           /\ SubSeq(Overlay(d, Len(d), c), i, Len(d) + 1)
                = Append(SubSeq(d, i, Len(d)), c)
<1> DEFINE l == Len(d)
           o == Overlay(d, l, c)
           x == SubSeq(o, i, l + 1)
           y == SubSeq(d, i, l)
           z == Append(y, c)
<1>1. l \in Nat /\ i <= l + 1
  BY LenProperties
<1>2. /\ o \in Seq(S) /\ Len(o) = l + 1
      /\ \A j \in 1..(l + 1) : o[j] = IF j = l + 1 THEN c ELSE d[j]
  BY <1>1, OverlayProperties
<1>3. y \in Seq(S) /\ Len(y) = l - i + 1 /\ \A j \in 1..(l - i + 1) : y[j] = d[i + j - 1]
  <2>1. /\ y \in Seq(S) /\ Len(y) = IF i <= l THEN l - i + 1 ELSE 0
        /\ \A j \in 1..Len(y) : y[j] = d[i + j - 1]
    BY <1>1, PieceProperties
  <2> HIDE DEF l, y
  <2>2. (IF i <= l THEN l - i + 1 ELSE 0) = l - i + 1
    BY <1>1
  <2> QED
    BY <2>1, <2>2
<1>4. x \in Seq(S) /\ Len(x) = l - i + 2 /\ \A j \in 1..(l - i + 2) : x[j] = o[i + j - 1]
  <2> HIDE DEF l, o
  <2>1. l + 1 \in Nat /\ l + 1 <= Len(o)
    BY <1>1, <1>2
  <2>2. /\ x \in Seq(S) /\ Len(x) = IF i <= l + 1 THEN (l + 1) - i + 1 ELSE 0
        /\ \A j \in 1..Len(x) : x[j] = o[i + j - 1]
    BY <1>2, <2>1, PieceProperties
  <2> HIDE DEF x
  <2>3. (IF i <= l + 1 THEN (l + 1) - i + 1 ELSE 0) = l - i + 2
    BY <1>1
  <2> QED
    BY <2>2, <2>3
<1> HIDE DEF l, o, x, y
<1>5. /\ z \in Seq(S) /\ Len(z) = l - i + 2 /\ z[l - i + 2] = c
      /\ \A j \in 1..(l - i + 1) : z[j] = y[j]
  <2>1. /\ z \in Seq(S) /\ Len(z) = Len(y) + 1 /\ z[Len(y) + 1] = c
        /\ \A j \in 1..Len(y) : z[j] = y[j]
    BY <1>3, AppendProperties
  <2>2. l - i + 1 + 1 = l - i + 2
    BY <1>1
  <2> QED
    BY <1>3, <2>1, <2>2
<1> HIDE DEF z
<1>6. ASSUME NEW j \in 1..(l - i + 2)
      PROVE  x[j] = z[j]
  <2>1. i + j - 1 \in 1..(l + 1) /\ x[j] = o[i + j - 1]
    BY <1>1, <1>4
  <2>2. CASE j = l - i + 2
    <3>1. i + j - 1 = l + 1
      BY <1>1, <2>2
    <3> QED
      BY <1>2, <1>5, <2>1, <2>2, <3>1
  <2>3. CASE j # l - i + 2
    <3>1. j \in 1..(l - i + 1) /\ i + j - 1 # l + 1
      BY <1>1, <2>3
    <3> QED
      BY <1>2, <1>3, <1>5, <2>1, <3>1
  <2> QED
    BY <2>2, <2>3
<1>7. x = z
  BY <1>4, <1>5, <1>6, SeqEqual
<1> QED
  BY <1>2, <1>7 DEF l, o, x, y, z

LEMMA WritePieceUndisturbed ==
    ASSUME ShapeInv, NEW s \in Store, Undisturbed(s), WritePiece(s)
    PROVE  Undisturbed(s)'
<1> DEFINE d == data[dst[s]]
           b == <<s, Len(got[s]) + 1>>
<1>1. InHand(s) /\ call[s].op # "rhandle"
  BY DEF WritePiece
<1>2. /\ CallsOK /\ HandlesOK /\ HandleShape(s) /\ call[s].op \in {"whandle", "ahandle"}
      /\ dst[s] \in File /\ d \in Seq(Block) /\ Len(d) \in Nat
      /\ n[s] \in Nat /\ start[s] \in Nat /\ got[s] \in Seq(Block) /\ Len(got[s]) \in Nat
      /\ pc[s] # "idle"
  BY <1>1, OwnFacts DEF InHand, Shape, HandleShape, FileOf, Handle
<1>3. /\ node' = node /\ call' = call /\ src' = src /\ dst' = dst /\ start' = start
      /\ pc' = pc /\ n'[s] = n[s] + 1 /\ got'[s] = Append(got[s], b)
      /\ alone'[s] => alone[s]
  BY <1>2 DEF WritePiece, HandlesOK, Note
<1>4. /\ b \in Block
      /\ data'[dst[s]] = IF call[s].op = "ahandle" THEN Append(d, b) ELSE Overlay(d, n[s], b)
  BY WritePieceEffect
<1>5. SUFFICES ASSUME alone[s]
               PROVE  Undisturbed(s)'
  BY <1>3 DEF Undisturbed
<1> HIDE DEF d, b
<1>6. CASE call[s].op = "ahandle"
  <2>1. node[call[s].to] = dst[s] /\ InOrder(got[s], d)
    BY <1>2, <1>5, <1>6 DEF Undisturbed, Appending, d
  <2>2. InOrder(Append(got[s], b), Append(d, b))
    BY <1>2, <1>4, <2>1, InOrderAppend
  <2> QED
    BY <1>3, <1>4, <1>6, <2>1, <2>2
       DEF Undisturbed, Reading, Writing, Appending, Making, Removing, Piecewise, FromEnd
<1>7. CASE call[s].op = "whandle" /\ pc[s] = "end"
  <2>1. n[s] = Len(d) /\ got[s] = SubSeq(d, start[s] + 1, n[s])
    BY <1>2, <1>5, <1>7 DEF Undisturbed, FromEnd, d
  <2>2. n[s] = start[s] + Len(got[s])
    BY <1>2, <1>7 DEF HandleShape, InHand
  <2>3. start[s] + 1 \in Nat \ {0} /\ start[s] + 1 <= Len(d) + 1
    <3> DEFINE g == Len(got[s])
               l == Len(d)
               i == start[s]
    <3>1. l = i + g /\ i \in Nat /\ g \in Nat
      BY <1>2, <2>1, <2>2
    <3> HIDE DEF g, l, i
    <3>2. i + 1 \in Nat \ {0} /\ i + 1 <= l + 1
      BY <3>1
    <3> QED
      BY <3>2 DEF l, i
  <2>4. /\ Len(data'[dst[s]]) = Len(d) + 1
        /\ SubSeq(data'[dst[s]], start[s] + 1, Len(d) + 1) = Append(got[s], b)
    <3> DEFINE i == start[s] + 1
    <3>1. data'[dst[s]] = Overlay(d, Len(d), b) /\ got[s] = SubSeq(d, i, Len(d))
      BY <1>4, <1>7, <2>1
    <3> HIDE DEF i
    <3>2. i \in Nat \ {0} /\ i <= Len(d) + 1
      BY <2>3 DEF i
    <3>3. /\ Len(Overlay(d, Len(d), b)) = Len(d) + 1
          /\ SubSeq(Overlay(d, Len(d), b), i, Len(d) + 1)
               = Append(SubSeq(d, i, Len(d)), b)
      BY <1>2, <1>4, <3>2, OverlayAtEnd
    <3> QED
      BY <3>1, <3>3 DEF i
  <2> QED
    BY <1>3, <1>7, <2>1, <2>4
       DEF Undisturbed, Reading, Writing, Appending, Making, Removing, Piecewise, FromEnd
<1>8. CASE call[s].op = "whandle" /\ pc[s] = "handle"
  BY <1>3, <1>8
     DEF Undisturbed, Reading, Writing, Appending, Making, Removing, Piecewise, FromEnd
<1> QED
  BY <1>1, <1>2, <1>6, <1>7, <1>8 DEF InHand

-----------------------------------------------------------------------------
(* The invariant, and what it says of a call that returns.                  *)

LEMMA StepUndisturbed ==
    ASSUME ShapeInv, NEW s \in Store, Undisturbed(s), StepOf(s)
    PROVE  Undisturbed(s)'
<1>1. Fail(s) => End(s)
  BY DEF Fail
<1> QED
  BY <1>1, BeginUndisturbed, OpenUndisturbed, ReadUndisturbed, WriteBlockUndisturbed,
     WriteEndUndisturbed, DirUndisturbed, OpenHandleUndisturbed, SeekUndisturbed,
     ReadPieceUndisturbed, WritePieceUndisturbed DEF StepOf

LEMMA InvInit ==
    ASSUME Init
    PROVE  IInv
<1>1. ShapeInv
  BY ShapeInit
<1>2. \A s \in Store : pc[s] = "idle"
  BY DEF Init
<1> QED
  BY <1>1, <1>2 DEF IInv, Undisturbed

LEMMA InvNext ==
    ASSUME IInv, [FileNext]_vars
    PROVE  IInv'
<1>1. ShapeInv /\ ShapeInv'
  BY ShapeNext DEF IInv
<1>2. CASE FileNext
  <2>1. PICK s \in Store : StepOf(s) /\ UNCHANGED work
    BY <1>2, FileNextSteps
  <2>2. Effect(s)
    BY <1>1, <2>1, StepEffect
  <2>3. Undisturbed(s)'
    BY <1>1, <2>1, StepUndisturbed DEF IInv
  <2>4. \A t \in Store \ {s} : Undisturbed(t)'
    BY <1>1, <2>2, OthersUndisturbed DEF IInv
  <2> QED
    BY <1>1, <2>3, <2>4 DEF IInv
<1>3. CASE UNCHANGED vars
  <2>1. UNCHANGED <<node, data, pc, call, n, src, dst, got, start, alone>>
    BY <1>3 DEF vars, tree, client
  <2>2. ASSUME NEW s \in Store
        PROVE  Undisturbed(s)'
    <3>1. Undisturbed(s)
      BY DEF IInv
    <3> QED
      BY <2>1, <3>1
         DEF Undisturbed, Reading, Writing, Appending, Making, Removing, Piecewise, FromEnd,
             Exists
  <2> QED
    BY <1>1, <2>2 DEF IInv
<1> QED
  BY <1>2, <1>3

LEMMA InvProperties ==
    ASSUME IInv
    PROVE  /\ WriteIsThere /\ AppendsKept /\ ReadsPrefix /\ MkdirMakes /\ RmdirRemoves
           /\ PiecesTile /\ EndWriteKeeps
<1>1. ASSUME NEW s \in Store, pc[s] # "idle", alone[s]
      PROVE  /\ Reading(s) /\ Writing(s) /\ Appending(s) /\ Making(s) /\ Removing(s)
             /\ Piecewise(s) /\ FromEnd(s)
  BY <1>1 DEF IInv, Undisturbed
<1>2. ASSUME NEW s \in Store, pc[s] # "idle"
      PROVE  Shape(s) /\ TreeOK /\ call[s].path \in Path
  BY <1>2, OwnFacts DEF IInv
<1>3. WriteIsThere
  BY <1>1 DEF WriteIsThere, Answers, Writing
<1>4. AppendsKept
  BY <1>1 DEF AppendsKept, Answers, Appending
<1>5. ReadsPrefix
  <2> SUFFICES ASSUME NEW s \in Store, Answers(s, "read"), alone[s]
               PROVE  IsPrefix(got[s], data[src[s]]) /\ Len(got[s]) >= start[s]
    BY DEF ReadsPrefix
  <2>1. IsPrefix(got[s], data[src[s]]) /\ start[s] <= Len(got[s])
    BY <1>1 DEF Answers, Reading
  <2>2. Len(got[s]) \in Nat /\ start[s] \in Nat /\ got[s] \in Seq(Block)
    BY OwnFacts DEF Answers, IInv
  <2> QED
    BY <2>1, <2>2
<1>6. MkdirMakes
  <2> SUFFICES ASSUME NEW s \in Store, Answers(s, "mkdir") \/ Answers(s, "mkdirs"), alone[s]
               PROVE  Exists(call[s].path) /\ IsDir(Front(call[s].path))
    BY DEF MkdirMakes
  <2>1. Exists(call[s].path)
    BY <1>1 DEF Answers, Making
  <2> QED
    BY <1>2, <2>1 DEF Answers, TreeOK, WellFormed
<1>7. RmdirRemoves
  BY <1>1 DEF RmdirRemoves, Answers, Removing
<1>8. PiecesTile
  <2> SUFFICES ASSUME NEW s \in Store, pc[s] = "handle", call[s].op = "rhandle", alone[s],
                      got[s] # <<>>
               PROVE  got[s] = SubSeq(data[src[s]], start[s] + 1, start[s] + Len(got[s]))
    BY DEF PiecesTile
  <2>1. got[s] = SubSeq(data[src[s]], start[s] + 1, n[s])
    BY <1>1 DEF Piecewise
  <2>2. n[s] = start[s] + Len(got[s])
    BY <1>2 DEF Shape, HandleShape, InHand
  <2> QED
    BY <2>1, <2>2
<1>9. EndWriteKeeps
  <2> SUFFICES ASSUME NEW s \in Store, pc[s] = "end", alone[s]
               PROVE  SubSeq(data[dst[s]], start[s] + 1, Len(data[dst[s]])) = got[s]
    BY DEF EndWriteKeeps
  <2>1. call[s].op = "whandle"
    BY <1>2 DEF Shape, HandleShape, InHand
  <2> QED
    BY <1>1, <2>1 DEF FromEnd
<1> QED
  BY <1>3, <1>4, <1>5, <1>6, <1>7, <1>8, <1>9

THEOREM InvInvariant == FileSpec => []IInv
BY InvInit, InvNext, PTL DEF FileSpec

\* A write, an upload or a copy that returns is there under its name and from the
\* start of the file, and a copy is complete, unless another store has written to that
\* very file, or taken that name, meanwhile (for a copy, also unless one has changed
\* the file it reads).
THEOREM WritesAreThere == FileSpec => []WriteIsThere
<1>1. IInv => WriteIsThere
  BY InvProperties
<1> QED
  BY <1>1, InvInvariant, PTL

\* Any number of stores that append to one file lose nothing to each other, as long as
\* nobody writes to that file or takes its name.
THEOREM AppendsAreKept == FileSpec => []AppendsKept
<1>1. IInv => AppendsKept
  BY InvProperties
<1> QED
  BY <1>1, InvInvariant, PTL

\* A read beside any number of appends, removals and renames gives the start of one
\* file, and no less of it than was there when it was opened, unless another store
\* writes over that file.
THEOREM ReadsArePrefixes == FileSpec => []ReadsPrefix
<1>1. IInv => ReadsPrefix
  BY InvProperties
<1> QED
  BY <1>1, InvInvariant, PTL

\* A path of any length is there after mkdir, however many make it at once, unless
\* another store takes that path away.
THEOREM MkdirIsThere == FileSpec => []MkdirMakes
<1>1. IInv => MkdirMakes
  BY InvProperties
<1> QED
  BY <1>1, InvInvariant, PTL

\* A recursive rmdir that returns True has removed every part of its path, unless
\* another store makes one of them again.
THEOREM RmdirIsGone == FileSpec => []RmdirRemoves
<1>1. IInv => RmdirRemoves
  BY InvProperties
<1> QED
  BY <1>1, InvInvariant, PTL

\* Pieces read through a handle, however short, tile the file from the offset sought.
THEOREM PiecesAreTiles == FileSpec => []PiecesTile
<1>1. IInv => PiecesTile
  BY InvProperties
<1> QED
  BY <1>1, InvInvariant, PTL

\* What is written through a handle after seek(0, 2) replaces nothing, unless another
\* store writes or appends to that very file after the fstat().
THEOREM EndWritesKeep == FileSpec => []EndWriteKeeps
<1>1. IInv => EndWriteKeeps
  BY InvProperties
<1> QED
  BY <1>1, InvInvariant, PTL
=============================================================================
