------------------------- MODULE CommandOutputProofs -------------------------
(***************************************************************************)
(* Proofs about CommandOutput, for any size of the buffer, any output and   *)
(* any statuses: a response is all of what the command wrote, and a read    *)
(* fails exactly where it ends inside a character.                          *)
(***************************************************************************)
EXTENDS CommandOutput, SequenceTheorems, TLAPS

\* What has been read of a stream is the response, and a stream is left, unless
\* by a failure, at its end only.
ReadSoFar ==
    /\ pc = "execute" => response = <<>> /\ taken["stderr"] = 0
    /\ pc \in {"execute", "stderr", "status"} => taken["stdout"] = 0
    /\ pc = "stderr" => response = SubSeq(sent["stderr"], 1, taken["stderr"])
    /\ pc = "status" /\ ~failed => eof /\ response = sent["stderr"]
    /\ pc = "stdout" =>
         /\ eof /\ sent["stderr"] = <<>>
         /\ response = SubSeq(sent["stdout"], 1, taken["stdout"])

IInv ==
    /\ TypeOK
    /\ ReadSoFar
    /\ ResponseComplete

-----------------------------------------------------------------------------
(* Chunks.                                                                  *)

\* A chunk has as many bytes as there are, up to n, and goes on where the bytes
\* that have been taken end.
LEMMA ChunkGoesOn ==
    ASSUME TypeOK, NEW s \in Stream, NEW n \in 1..BufferSize, Available(s) > 0
    PROVE  /\ Chunk(s, n) \in Seq(Byte)
           /\ Len(Chunk(s, n)) \in 1..n
           /\ taken[s] + Len(Chunk(s, n)) <= Len(sent[s])
           /\ SubSeq(sent[s], 1, taken[s]) \o Chunk(s, n)
                = SubSeq(sent[s], 1, taken[s] + Len(Chunk(s, n)))
<1> DEFINE seq == sent[s]
           t == taken[s]
           k == IF n < Available(s) THEN n ELSE Available(s)
<1>1. seq \in Seq(Byte) /\ t \in Nat /\ t <= Len(seq) /\ Len(seq) \in Nat
  BY DEF TypeOK
<1>2. k \in 1..n /\ t + k \in t..Len(seq)
  BY <1>1, BufferSizeAssumption DEF Available
<1>3. Chunk(s, n) = SubSeq(seq, t + 1, t + k)
  BY DEF Chunk
<1>4. \A i \in (t + 1)..(t + k) : seq[i] \in Byte
  BY <1>1, <1>2
<1> HIDE DEF seq, t, k
<1>5. Chunk(s, n) \in Seq(Byte) /\ Len(Chunk(s, n)) = k
  <2>1. t + 1 \in Int /\ t + k \in Int /\ t + 1 <= t + k /\ (t + k) - (t + 1) + 1 = k
    BY <1>1, <1>2
  <2> QED
    BY <2>1, <1>3, <1>4, SubSeqProperties
<1>6. SubSeq(seq, 1, t) \o SubSeq(seq, t + 1, t + k) = SubSeq(seq, 1, t + k)
  <2>1. 1 \in 1..(Len(seq) + 1) /\ t \in (1 - 1)..Len(seq) /\ t + k \in t..Len(seq)
    BY <1>1, <1>2
  <2> QED
    BY <2>1, <1>1, ConcatAdjacentSubSeq
<1>7. taken[s] + Len(Chunk(s, n)) <= Len(sent[s])
  BY <1>1, <1>2, <1>5 DEF seq, t
<1>8. SubSeq(sent[s], 1, taken[s]) \o Chunk(s, n)
        = SubSeq(sent[s], 1, taken[s] + Len(Chunk(s, n)))
  BY <1>3, <1>5, <1>6 DEF seq, t
<1> QED
  BY <1>2, <1>5, <1>7, <1>8

\* What has been taken of a stream stays what it was when the command writes.
LEMMA TakenStays ==
    ASSUME NEW q \in Seq(Byte), NEW b \in Byte, NEW k \in 0..Len(q)
    PROVE  SubSeq(Append(q, b), 1, k) = SubSeq(q, 1, k)
<1>1. CASE k = 0
  BY <1>1, SubSeqEmpty
<1>2. CASE k > 0
  <2>1. Append(q, b) = q \o <<b>> /\ <<b>> \in Seq(Byte)
    OBVIOUS
  <2>2. 1 \in 1..Len(q) /\ k \in 1..Len(q)
    BY <1>2
  <2> QED
    BY <2>1, <2>2, SubSeqOfConcat1
<1> QED
  BY <1>1, <1>2

-----------------------------------------------------------------------------
(* IInv is inductive.                                                       *)

LEMMA NothingRead ==
    <<>> \in Seq(Byte) /\ Len(<<>>) = 0 /\ BufferSize \in 1..BufferSize
BY BufferSizeAssumption

LEMMA IInvInit == Init => IInv
<1> SUFFICES ASSUME Init PROVE IInv
  OBVIOUS
<1>1. TypeOK
  <2>1. sent \in [Stream -> Seq(Byte)] /\ taken \in [Stream -> Nat]
    BY NothingRead DEF Init
  <2>2. \A s \in Stream : taken[s] <= Len(sent[s])
    BY NothingRead DEF Init
  <2> QED
    BY <2>1, <2>2, NothingRead DEF Init, TypeOK, Results
<1>2. ReadSoFar /\ ResponseComplete
  BY DEF Init, ReadSoFar, ResponseComplete, Stream
<1> QED
  BY <1>1, <1>2 DEF IInv

LEMMA IInvWrite ==
    ASSUME IInv, NEW s \in Stream, Write(s)
    PROVE  IInv'
<1>1. PICK b \in Byte : sent' = [sent EXCEPT ![s] = Append(@, b)]
  BY DEF Write
<1>2. sent[s] \in Seq(Byte) /\ Append(sent[s], b) \in Seq(Byte)
      /\ Len(Append(sent[s], b)) = Len(sent[s]) + 1
  BY AppendProperties DEF IInv, TypeOK
<1>3. \A r \in Stream : sent'[r] = IF r = s THEN Append(sent[s], b) ELSE sent[r]
  BY <1>1 DEF IInv, TypeOK
<1>4. TypeOK'
  <2>1. sent' \in [Stream -> Seq(Byte)]
    BY <1>1, <1>2 DEF IInv, TypeOK
  <2>2. \A r \in Stream : taken[r] <= Len(sent'[r])
    <3> SUFFICES ASSUME NEW r \in Stream PROVE taken[r] <= Len(sent'[r])
      OBVIOUS
    <3>1. taken[r] \in Nat /\ taken[r] <= Len(sent[r]) /\ Len(sent[r]) \in Nat
      BY DEF IInv, TypeOK
    <3>2. sent'[r] = sent[r] \/ Len(sent'[r]) = Len(sent[r]) + 1
      BY <1>2, <1>3
    <3> QED
      BY <3>1, <3>2
  <2> QED
    BY <2>1, <2>2 DEF IInv, TypeOK, Write, client
<1>5. ReadSoFar'
  <2>1. ~eof /\ pc # "execute" /\ UNCHANGED <<eof, pc, taken, response, failed>>
    BY DEF Write, client
  <2>2. SubSeq(sent'["stderr"], 1, taken["stderr"]) = SubSeq(sent["stderr"], 1, taken["stderr"])
    <3>1. "stderr" \in Stream /\ taken["stderr"] \in 0..Len(sent["stderr"])
      BY DEF IInv, TypeOK, Stream
    <3> QED
      BY <3>1, <1>2, <1>3, TakenStays
  <2> QED
    BY <2>1, <2>2 DEF IInv, ReadSoFar
<1>6. ResponseComplete'
  BY DEF IInv, ResponseComplete, Write, client
<1> QED
  BY <1>4, <1>5, <1>6 DEF IInv

\* The steps of the server that leave the output alone.
LEMMA IInvServer ==
    ASSUME IInv, CloseOutput \/ Exit \/ ReportStatus \/ Break
    PROVE  IInv'
<1>1. TypeOK'
  <2>1. CASE CloseOutput
    BY <2>1 DEF IInv, TypeOK, CloseOutput, client
  <2>2. CASE Exit
    BY <2>2, StatusAssumption DEF IInv, TypeOK, Exit, client
  <2>3. CASE ReportStatus
    BY <2>3 DEF IInv, TypeOK, ReportStatus, client
  <2>4. CASE Break
    BY <2>4 DEF IInv, TypeOK, Break, client
  <2> QED
    BY <2>1, <2>2, <2>3, <2>4
<1>2. ReadSoFar'
  BY DEF IInv, ReadSoFar, CloseOutput, Exit, ReportStatus, Break, client
<1>3. ResponseComplete'
  BY DEF IInv, ResponseComplete, CloseOutput, Exit, ReportStatus, Break, client
<1> QED
  BY <1>1, <1>2, <1>3 DEF IInv

LEMMA IInvStart ==
    ASSUME IInv, Execute \/ Raise
    PROVE  IInv'
<1>1. TypeOK'
  BY DEF IInv, TypeOK, Execute, Raise, Return, server, Results, Stream
<1>2. ReadSoFar'
  <2>1. SubSeq(sent["stderr"], 1, 0) = <<>>
    BY SubSeqEmpty
  <2> QED
    BY <2>1 DEF IInv, ReadSoFar, Execute, Raise, Return, server
<1>3. ResponseComplete'
  BY DEF IInv, ResponseComplete, Execute, Raise, Return, server
<1> QED
  BY <1>1, <1>2, <1>3 DEF IInv

LEMMA IInvReadChunk ==
    ASSUME IInv, NEW s \in Stream, ReadChunk(s)
    PROVE  IInv'
<1> DEFINE chunk == Chunk(s, size)
<1>1. /\ chunk \in Seq(Byte)
      /\ Len(chunk) \in 1..size
      /\ taken[s] + Len(chunk) <= Len(sent[s])
      /\ SubSeq(sent[s], 1, taken[s]) \o chunk = SubSeq(sent[s], 1, taken[s] + Len(chunk))
  BY ChunkGoesOn DEF IInv, TypeOK, ReadChunk
<1>2. /\ pc = s
      /\ taken' = [taken EXCEPT ![s] = @ + Len(chunk)]
      /\ \/ /\ response' = response \o chunk
            /\ size' = Len(chunk)
            /\ UNCHANGED <<pc, failed, result>>
         \/ /\ response' = <<>>
            /\ failed' = TRUE
            /\ s = "stderr" => pc' = "status" /\ UNCHANGED result
            /\ s # "stderr" => pc' = "done" /\ result' = "CHANNEL_READ_ERROR"
            /\ UNCHANGED size
      /\ UNCHANGED <<sent, eof, status, known, broken, exitCode>>
  BY DEF ReadChunk, Return, server
<1> HIDE DEF chunk
<1>3. \A r \in Stream : taken'[r] = IF r = s THEN taken[s] + Len(chunk) ELSE taken[r]
  BY <1>2 DEF IInv, TypeOK
<1>4. TypeOK'
  <2>1. taken' \in [Stream -> Nat] /\ \A r \in Stream : taken'[r] <= Len(sent[r])
    BY <1>1, <1>2, <1>3 DEF IInv, TypeOK
  <2>2. response' \in Seq(Byte)
    <3>1. response \o chunk \in Seq(Byte)
      BY <1>1, ConcatProperties DEF IInv, TypeOK
    <3>2. response' = response \o chunk \/ response' = <<>>
      BY <1>2
    <3> QED
      BY <3>1, <3>2, NothingRead
  <2>3. size' \in 1..BufferSize
    BY <1>1, <1>2, BufferSizeAssumption DEF IInv, TypeOK
  <2> QED
    BY <2>1, <2>2, <2>3, <1>2 DEF IInv, TypeOK, Stream, Results
<1>5. ReadSoFar'
  <2>1. "stderr" \in Stream /\ "stdout" \in Stream
    BY DEF Stream
  <2> QED
    BY <2>1, <1>1, <1>2, <1>3 DEF IInv, ReadSoFar, Stream
<1>6. ResponseComplete'
  BY <1>2 DEF IInv, TypeOK, ResponseComplete, Stream
<1> QED
  BY <1>4, <1>5, <1>6 DEF IInv

\* At the end of a stream all that was sent has been taken.
LEMMA IInvReadEnd ==
    ASSUME IInv, NEW s \in Stream, ReadEnd(s)
    PROVE  IInv'
<1>1. SubSeq(sent[s], 1, taken[s]) = sent[s]
  <2>1. taken[s] = Len(sent[s]) /\ sent[s] \in Seq(Byte)
    BY DEF IInv, TypeOK, ReadEnd, Available
  <2> QED
    BY <2>1, SubSeqFull
<1>2. TypeOK'
  BY DEF IInv, TypeOK, ReadEnd, Return, server, Results, Stream
<1>3. ReadSoFar'
  BY <1>1 DEF IInv, ReadSoFar, ReadEnd, Return, server, Stream
<1>4. ResponseComplete'
  BY <1>1 DEF IInv, TypeOK, ReadSoFar, ResponseComplete, ReadEnd, Return, server, Stream
<1> QED
  BY <1>2, <1>3, <1>4 DEF IInv

LEMMA IInvReadStatus ==
    ASSUME IInv, ReadStatus
    PROVE  IInv'
<1>1. TypeOK'
  BY BufferSizeAssumption, StatusAssumption
     DEF IInv, TypeOK, ReadStatus, Return, server, Results, Stream
<1>2. ReadSoFar'
  <2>1. SubSeq(sent["stdout"], 1, 0) = <<>>
    BY SubSeqEmpty
  <2> QED
    BY <2>1 DEF IInv, ReadSoFar, ReadStatus, Return, server
<1>3. ResponseComplete'
  BY DEF IInv, TypeOK, ReadSoFar, ResponseComplete, ReadStatus, Return, server
<1> QED
  BY <1>1, <1>2, <1>3 DEF IInv

LEMMA IInvNextCommand ==
    ASSUME IInv, NextCommand
    PROVE  IInv'
<1>1. TypeOK'
  <2>1. sent' \in [Stream -> Seq(Byte)] /\ taken' \in [Stream -> Nat]
    BY NothingRead DEF NextCommand
  <2>2. \A s \in Stream : taken'[s] <= Len(sent'[s])
    BY NothingRead DEF NextCommand
  <2> QED
    BY <2>1, <2>2, NothingRead DEF NextCommand, TypeOK, Results
<1>2. ReadSoFar' /\ ResponseComplete'
  BY DEF NextCommand, ReadSoFar, ResponseComplete, Stream
<1> QED
  BY <1>1, <1>2 DEF IInv

LEMMA IInvNext == IInv /\ [Next]_vars => IInv'
<1> SUFFICES ASSUME IInv, [Next]_vars PROVE IInv'
  OBVIOUS
<1>1. CASE ServerStep
  BY <1>1, IInvWrite, IInvServer DEF ServerStep
<1>2. CASE ClientStep
  BY <1>2, IInvStart, IInvReadChunk, IInvReadEnd, IInvReadStatus DEF ClientStep
<1>3. CASE NextCommand
  BY <1>3, IInvNextCommand
<1>4. CASE UNCHANGED vars
  BY <1>4 DEF vars, server, client, IInv, TypeOK, ReadSoFar, ResponseComplete
<1> QED
  BY <1>1, <1>2, <1>3, <1>4 DEF Next

-----------------------------------------------------------------------------
(* The theorems.                                                            *)

\* The inductive invariant holds of every reachable state, whatever the command
\* does and whenever its output arrives.
THEOREM Invariance == Spec => []IInv
BY IInvInit, IInvNext, PTL DEF Spec

\* The reads of exec_command keep their types: no chunk is larger than the buffer,
\* and no more is taken from a stream than was sent.
THEOREM TypeCorrect == Spec => []TypeOK
<1>1. IInv => TypeOK
  BY DEF IInv
<1> QED
  BY <1>1, Invariance, PTL

\* exec_command returns all of stdout, or all of stderr, however it arrives.
THEOREM SpecResponseComplete == Spec => []ResponseComplete
<1>1. IInv => ResponseComplete
  BY DEF IInv
<1> QED
  BY <1>1, Invariance, PTL

-----------------------------------------------------------------------------
(* Characters.                                                              *)

\* What the command writes is UTF-8, but for a character that is not finished.
Text(q) == \A i \in 1..Len(q) : q[i] = "trail" <=> (i > 1 /\ q[i - 1] = "lead")

\* The first n bytes of q end inside a character.
Cut(q, n) == n > 0 /\ q[n] = "lead"

CutInv ==
    /\ \A s \in Stream : Text(sent[s])
    /\ failed => pc \in {"status", "done"}
    /\ FailsAtCut

LEMMA TextGrows ==
    ASSUME NEW q \in Seq(Byte), Text(q), NEW b \in Byte,
           b = "trail" <=> q # <<>> /\ q[Len(q)] = "lead"
    PROVE  /\ Text(Append(q, b))
           /\ \A n \in 0..Len(q) : Cut(Append(q, b), n) <=> Cut(q, n)
<1>1. /\ Len(Append(q, b)) = Len(q) + 1 /\ Len(q) \in Nat
      /\ \A k \in 1..Len(q) : Append(q, b)[k] = q[k]
      /\ Append(q, b)[Len(q) + 1] = b
  BY AppendProperties
<1>2. Text(Append(q, b))
  <2> SUFFICES ASSUME NEW i \in 1..(Len(q) + 1)
               PROVE  Append(q, b)[i] = "trail"
                        <=> (i > 1 /\ Append(q, b)[i - 1] = "lead")
    BY <1>1 DEF Text
  <2>1. CASE i = Len(q) + 1
    <3>1. CASE q = <<>>
      BY <1>1, <2>1, <3>1
    <3>2. CASE q # <<>>
      <4>1. Len(q) \in 1..Len(q) /\ i > 1 /\ i - 1 = Len(q)
        BY <1>1, <2>1, <3>2, EmptySeq
      <4> QED
        BY <1>1, <2>1, <3>2, <4>1
    <3> QED
      BY <3>1, <3>2
  <2>2. CASE i \in 1..Len(q)
    <3>1. i > 1 => i - 1 \in 1..Len(q)
      BY <1>1, <2>2
    <3> QED
      BY <1>1, <2>2, <3>1 DEF Text
  <2> QED
    BY <1>1, <2>1, <2>2
<1>3. \A n \in 0..Len(q) : Cut(Append(q, b), n) <=> Cut(q, n)
  <2> SUFFICES ASSUME NEW n \in 0..Len(q) PROVE Cut(Append(q, b), n) <=> Cut(q, n)
    OBVIOUS
  <2>1. CASE n = 0
    BY <2>1 DEF Cut
  <2>2. CASE n \in 1..Len(q)
    BY <1>1, <2>2 DEF Cut
  <2> QED
    BY <1>1, <2>1, <2>2
<1> QED
  BY <1>2, <1>3

\* The i-th byte of a chunk.
LEMMA ChunkBytes ==
    ASSUME TypeOK, NEW s \in Stream, NEW n \in 1..BufferSize, Available(s) > 0,
           NEW i \in 1..Len(Chunk(s, n))
    PROVE  /\ Chunk(s, n)[i] = sent[s][taken[s] + i]
           /\ taken[s] + i \in 1..Len(sent[s])
<1> DEFINE k == IF n < Available(s) THEN n ELSE Available(s)
<1>1. /\ sent[s] \in Seq(Byte) /\ taken[s] \in Nat /\ Len(sent[s]) \in Nat
      /\ taken[s] <= Len(sent[s]) /\ k \in Nat /\ taken[s] + k <= Len(sent[s])
  BY BufferSizeAssumption DEF TypeOK, Available
<1>2. Chunk(s, n) = SubSeq(sent[s], taken[s] + 1, taken[s] + k)
  BY DEF Chunk
<1>3. \A j \in (taken[s] + 1)..(taken[s] + k) : sent[s][j] \in Byte
  BY <1>1
<1> HIDE DEF k
<1>4. taken[s] + 1 \in Int /\ taken[s] + k \in Int
  BY <1>1
<1>5. \A j \in 1..Len(Chunk(s, n)) : Chunk(s, n)[j] = sent[s][taken[s] + 1 + j - 1]
  BY <1>2, <1>3, <1>4, SubSeqProperties
<1>6. Len(Chunk(s, n)) \in 1..n /\ taken[s] + Len(Chunk(s, n)) <= Len(sent[s])
  BY ChunkGoesOn
<1> QED
  BY <1>1, <1>5, <1>6

\* A chunk that begins where a character does decodes exactly when it ends where
\* one does.
LEMMA ChunkDecodes ==
    ASSUME TypeOK, NEW s \in Stream, Text(sent[s]), NEW n \in 1..BufferSize,
           Available(s) > 0, ~Cut(sent[s], taken[s])
    PROVE  Decodes(Chunk(s, n)) <=> ~Cut(sent[s], taken[s] + Len(Chunk(s, n)))
<1> DEFINE m == Len(Chunk(s, n))
           q == sent[s]
           t == taken[s]
<1>1. m \in Nat /\ m >= 1 /\ t \in Nat /\ t + m <= Len(q) /\ Len(q) \in Nat
  BY ChunkGoesOn, BufferSizeAssumption DEF TypeOK
<1>2. \A i \in 1..m : Chunk(s, n)[i] = q[t + i]
  BY ChunkBytes
<1>3. \A i \in 1..Len(q) : q[i] = "trail" <=> (i > 1 /\ q[i - 1] = "lead")
  BY DEF Text
<1>4. t > 0 => q[t] # "lead"
  BY DEF Cut
<1> HIDE DEF m, q, t
<1>5. ASSUME Decodes(Chunk(s, n)) PROVE ~Cut(q, t + m)
  <2>1. Chunk(s, n)[m] # "lead"
    BY <1>1, <1>5 DEF Decodes, m
  <2> QED
    BY <1>1, <1>2, <2>1 DEF Cut
<1>6. ASSUME ~Cut(q, t + m) PROVE Decodes(Chunk(s, n))
  <2> SUFFICES ASSUME NEW i \in 1..m
               PROVE  /\ q[t + i] = "lead" => i < m /\ q[t + i + 1] = "trail"
                      /\ q[t + i] = "trail" => i > 1 /\ q[t + i - 1] = "lead"
    <3>1. \A i \in 1..m : i < m => i + 1 \in 1..m /\ t + (i + 1) = t + i + 1
      BY <1>1
    <3>2. \A i \in 1..m : i > 1 => i - 1 \in 1..m /\ t + (i - 1) = t + i - 1
      BY <1>1
    <3> QED
      BY <1>2, <3>1, <3>2 DEF Decodes, m
  <2>1. t + i \in 1..Len(q) /\ i \in Nat /\ i >= 1 /\ i <= m
    BY <1>1
  <2>2. q[t + i] = "lead" => i < m
    <3>1. q[t + m] # "lead"
      BY <1>1, <1>6 DEF Cut
    <3> QED
      BY <1>1, <2>1, <3>1
  <2>3. i < m /\ q[t + i] = "lead" => q[t + i + 1] = "trail"
    <3> SUFFICES ASSUME i < m, q[t + i] = "lead" PROVE q[t + i + 1] = "trail"
      OBVIOUS
    <3>1. t + i + 1 \in 1..Len(q) /\ t + i + 1 > 1 /\ (t + i + 1) - 1 = t + i
      BY <1>1, <2>1
    <3> QED
      BY <1>3, <3>1
  <2>4. q[t + i] = "trail" => t + i > 1 /\ q[t + i - 1] = "lead"
    <3> DEFINE j == t + i
    <3>1. j \in 1..Len(q)
      BY <2>1
    <3> HIDE DEF j
    <3>2. q[j] = "trail" => j > 1 /\ q[j - 1] = "lead"
      BY <1>3, <3>1
    <3> QED
      BY <1>1, <2>1, <3>2 DEF j
  <2>5. q[t + i] = "trail" => i > 1
    <3> SUFFICES ASSUME q[t + i] = "trail", i = 1 PROVE FALSE
      BY <2>1
    <3>1. t > 0 /\ t + i - 1 = t
      BY <1>1, <2>4
    <3> QED
      BY <1>4, <2>4, <3>1
  <2> QED
    BY <2>2, <2>3, <2>4, <2>5
<1> QED
  BY <1>5, <1>6 DEF m, q, t

LEMMA CutStep ==
    ASSUME TypeOK, CutInv, [Next]_vars
    PROVE  CutInv'
<1> USE DEF Cut
<1>1. ASSUME NEW s \in Stream, Write(s) PROVE CutInv'
  <2>1. PICK b \in Byte :
            /\ b = "trail" <=> sent[s] # <<>> /\ sent[s][Len(sent[s])] = "lead"
            /\ sent' = [sent EXCEPT ![s] = Append(@, b)]
    BY <1>1 DEF Write
  <2>2. \A r \in Stream : sent'[r] = IF r = s THEN Append(sent[s], b) ELSE sent[r]
    BY <2>1 DEF TypeOK
  <2>3. sent[s] \in Seq(Byte) /\ \A r \in Stream : taken[r] \in 0..Len(sent[r])
    BY DEF TypeOK
  <2> HIDE DEF Cut
  <2>4. /\ Text(Append(sent[s], b))
        /\ \A n \in 0..Len(sent[s]) : Cut(Append(sent[s], b), n) <=> Cut(sent[s], n)
    BY <2>1, <2>3, TextGrows DEF CutInv
  <2>5. \A r \in Stream : Text(sent'[r]) /\ (Cut(sent'[r], taken[r]) <=> Cut(sent[r], taken[r]))
    BY <2>2, <2>3, <2>4 DEF CutInv
  <2> QED
    BY <1>1, <2>5 DEF CutInv, FailsAtCut, Write, client, Cut
<1>2. ASSUME NEW s \in Stream, ReadChunk(s), ~failed PROVE CutInv'
  <2> DEFINE m == Len(Chunk(s, size))
  <2>1. /\ Available(s) > 0 /\ size \in 1..BufferSize /\ sent' = sent
        /\ taken' = [taken EXCEPT ![s] = @ + m]
        /\ failed' = ~Decodes(Chunk(s, size))
    BY <1>2 DEF ReadChunk, server, TypeOK
  <2>2. \A r \in Stream : taken'[r] = IF r = s THEN taken[s] + m ELSE taken[r]
    BY <2>1 DEF TypeOK
  <2> HIDE DEF Cut
  <2>3. \A r \in Stream : Text(sent[r]) /\ ~Cut(sent[r], taken[r])
    BY <1>2 DEF CutInv, FailsAtCut, Cut
  <2>4. Decodes(Chunk(s, size)) <=> ~Cut(sent[s], taken[s] + m)
    BY <2>1, <2>3, ChunkDecodes
  <2> HIDE DEF m
  <2>5. failed' => pc' \in {"status", "done"}
    BY <1>2, <2>1 DEF ReadChunk, Return, Stream
  <2>6. failed' <=> \E r \in Stream : Cut(sent[r], taken'[r])
    BY <2>1, <2>2, <2>3, <2>4
  <2> QED
    BY <2>1, <2>3, <2>5, <2>6 DEF CutInv, FailsAtCut, Cut
<1>3. CASE /\ UNCHANGED <<sent, taken, failed>>
           /\ pc' \in {pc, "done"} \/ ~failed
  BY <1>3 DEF CutInv, FailsAtCut
<1>4. CASE NextCommand
  BY <1>4 DEF NextCommand, CutInv, FailsAtCut, Text
<1>5. CASE CloseOutput \/ Exit \/ ReportStatus \/ Break \/ UNCHANGED vars
  BY <1>3, <1>5 DEF CloseOutput, Exit, ReportStatus, Break, server, client, vars
<1>6. CASE Raise \/ Execute \/ ReadStatus
  BY <1>3, <1>6 DEF Raise, Execute, ReadStatus, Return, server, TypeOK, CutInv
<1>7. ASSUME NEW s \in Stream, ReadChunk(s) \/ ReadEnd(s) PROVE CutInv'
  <2>1. ~failed
    BY <1>7 DEF ReadChunk, ReadEnd, CutInv, Stream
  <2> QED
    BY <1>2, <1>3, <1>7, <2>1 DEF ReadEnd, server
<1> QED
  BY <1>1, <1>4, <1>5, <1>6, <1>7 DEF Next, ServerStep, ClientStep

\* Reading fails exactly when it has ended inside a character, whatever the output
\* and the chunks.
THEOREM SpecFailsAtCut == Spec => []FailsAtCut
<1>1. Init => CutInv
  BY DEF Init, CutInv, FailsAtCut, Text
<1>2. TypeOK /\ CutInv /\ [Next]_vars => CutInv'
  BY CutStep
<1>3. CutInv => FailsAtCut
  BY DEF CutInv
<1> QED
  BY <1>1, <1>2, <1>3, TypeCorrect, PTL DEF Spec
=============================================================================
