------------------------- MODULE GYCycleBuffer_proofs -------------------------
(***************************************************************************)
(* Theorems about the byte ring, for every buffer length and every set of  *)
(* bytes: its type invariant, that an empty ring is back at its header,    *)
(* and that it implements ByteFifo for callers that never fill it exactly. *)
(***************************************************************************)
EXTENDS GYCycleBuffer, SequenceTheorems, TLAPS

-----------------------------------------------------------------------------
(* The sizes: what can be read and what can be written add up to the whole *)
(* buffer, and GetWriteSize never reports a full one.                      *)
LEMMA Sizes ==
    ASSUME NEW b \in Buffers
    PROVE  /\ GetReadSize(b) \in 0 .. MAX_BUFFER_LEN - 1
           /\ GetWriteSize(b) \in 1 .. MAX_BUFFER_LEN
           /\ GetReadSize(b) + GetWriteSize(b) = MAX_BUFFER_LEN
  <1> DEFINE r == b.reader
             w == b.writer
  <1>1. r \in 0 .. MAX_BUFFER_LEN - 1 /\ w \in 0 .. MAX_BUFFER_LEN - 1
    BY DEF Buffers, Offset
  <1>2. GetReadSize(b) = IF r > w THEN MAX_BUFFER_LEN - (r - w) ELSE w - r
    BY DEF GetReadSize
  <1>3. GetWriteSize(b) = IF w >= r THEN MAX_BUFFER_LEN - (w - r) ELSE r - w
    BY DEF GetWriteSize
  <1> HIDE DEF r, w
  <1>4. CASE r > w
    BY <1>1, <1>2, <1>3, <1>4, BufferAssumption
  <1>5. CASE ~(r > w)
    BY <1>1, <1>2, <1>3, <1>5, BufferAssumption
  <1> QED
    BY <1>4, <1>5

(* An offset moved by at most one buffer length wraps to an offset. *)
LEMMA WrapOffset ==
    ASSUME NEW i \in Offset, NEW n \in 0 .. MAX_BUFFER_LEN
    PROVE  Wrap(i + n) \in Offset
  BY BufferAssumption DEF Offset, Wrap

(* Load returns a sequence of n bytes. *)
LEMMA LoadSeq ==
    ASSUME NEW b \in Buffers, NEW n \in 0 .. MAX_BUFFER_LEN
    PROVE  /\ Load(b, n) \in Seq(Byte)
           /\ Len(Load(b, n)) = n
           /\ \A i \in 1 .. n : Load(b, n)[i] = b.cells[Wrap(b.reader + i - 1)]
  <1>1. n \in Nat
    BY BufferAssumption
  <1>2. \A i \in 1 .. n : b.cells[Wrap(b.reader + (i - 1))] \in Byte
    <2> TAKE i \in 1 .. n
    <2>1. i - 1 \in 0 .. MAX_BUFFER_LEN
      BY BufferAssumption
    <2>2. b.reader \in Offset
      BY DEF Buffers
    <2>3. Wrap(b.reader + (i - 1)) \in Offset
      BY <2>1, <2>2, WrapOffset
    <2> QED
      BY <2>3 DEF Buffers
  <1>3. \A i \in 1 .. n : b.reader + (i - 1) = b.reader + i - 1
    BY BufferAssumption DEF Buffers, Offset
  <1>4. Load(b, n) \in [1 .. n -> Byte]
    BY <1>2, <1>3 DEF Load
  <1>5. Load(b, n) \in Seq(Byte)
    BY <1>1, <1>4
  <1>6. Len(Load(b, n)) = n
    BY <1>1, <1>4
  <1> QED
    BY <1>5, <1>6 DEF Load

(* Going round the ring from the reader, the unread bytes come first and  *)
(* the cells that a write of n bytes fills come next, in order.            *)
LEMMA RingDistance ==
    ASSUME NEW b \in Buffers, NEW n \in Nat, GetReadSize(b) + n < MAX_BUFFER_LEN,
           NEW i \in 1 .. GetReadSize(b) + n
    PROVE  /\ i <= GetReadSize(b) => ~(Distance(b, Wrap(b.reader + i - 1)) < n)
           /\ i > GetReadSize(b) =>
                Distance(b, Wrap(b.reader + i - 1)) = i - GetReadSize(b) - 1
  <1>1. ASSUME NEW rd \in Offset, NEW wr \in Offset, rd = b.reader, wr = b.writer
        PROVE  /\ i <= GetReadSize(b) => ~(Distance(b, Wrap(rd + i - 1)) < n)
               /\ i > GetReadSize(b) =>
                    Distance(b, Wrap(rd + i - 1)) = i - GetReadSize(b) - 1
    <2>1. CASE rd <= wr
      <3>1. GetReadSize(b) = wr - rd
        BY <1>1, <2>1, BufferAssumption DEF GetReadSize, Offset
      <3> QED
        BY <1>1, <2>1, <3>1, BufferAssumption DEF Wrap, Distance, Offset
    <2>2. CASE rd > wr
      <3>1. GetReadSize(b) = MAX_BUFFER_LEN - (rd - wr)
        BY <1>1, <2>2, BufferAssumption DEF GetReadSize, Offset
      <3> QED
        BY <1>1, <2>2, <3>1, BufferAssumption DEF Wrap, Distance, Offset
    <2> QED
      BY <1>1, <2>1, <2>2, BufferAssumption DEF Offset
  <1> QED
    BY <1>1 DEF Buffers

-----------------------------------------------------------------------------
(* A write that leaves a byte free appends its bytes to the contents, and  *)
(* moves no byte that was there.                                           *)
LEMMA WriteAppends ==
    ASSUME NEW b \in Buffers, NEW p \in Seq(Byte), Len(p) < GetWriteSize(b)
    PROVE  LET c == MoveWriter(Store(b, p), Len(p))
           IN  /\ c \in Buffers
               /\ Contents(c) = Contents(b) \o p
  <1> DEFINE n == Len(p)
             r == GetReadSize(b)
             s == Store(b, p)
             m == [s EXCEPT !.writer = Wrap(s.writer + n)]
             c == MoveWriter(s, n)
  <1>1. /\ n \in 0 .. MAX_BUFFER_LEN - 1
        /\ r \in 0 .. MAX_BUFFER_LEN - 1
        /\ r + n < MAX_BUFFER_LEN
    BY Sizes, LenProperties, BufferAssumption
  <1>2. /\ b.reader \in Offset
        /\ b.writer \in Offset
        /\ b.cells \in [Offset -> Byte]
    BY DEF Buffers
  <1>3. \A o \in Offset : Distance(b, o) < n => p[Distance(b, o) + 1] \in Byte
    <2> TAKE o \in Offset
    <2>1. Distance(b, o) \in Nat
      BY <1>2, BufferAssumption DEF Distance, Offset
    <2>2. p \in [1 .. n -> Byte]
      BY LenProperties
    <2> QED
      BY <1>1, <2>1, <2>2
  <1>4. /\ s \in Buffers
        /\ s.reader = b.reader
        /\ s.writer = b.writer
        /\ \A o \in Offset : s.cells[o] = IF Distance(b, o) < n
                                          THEN p[Distance(b, o) + 1] ELSE b.cells[o]
    BY <1>2, <1>3 DEF Store, Buffers
  <1>5. Wrap(b.writer + n) \in Offset
    BY <1>1, <1>2, WrapOffset, BufferAssumption
  <1>6. /\ m \in Buffers
        /\ m.reader = b.reader
        /\ m.writer = Wrap(b.writer + n)
        /\ m.cells = s.cells
    BY <1>4, <1>5 DEF Buffers
  <1>7. 0 \in Offset
    BY BufferAssumption DEF Offset
  <1>8. /\ c \in Buffers
        /\ c.cells = s.cells
        /\ c = IF m.writer = m.reader THEN [m EXCEPT !.writer = 0, !.reader = 0] ELSE m
    BY <1>6, <1>7 DEF MoveWriter, ResetIfEqual, Buffers
  <1>9. GetReadSize(c) = r + n
    <2>1. m.writer = m.reader <=> r + n = 0
      BY <1>1, <1>2, <1>6, BufferAssumption, SMTT(30) DEF Wrap, Offset, GetReadSize
    <2>2. CASE m.writer = m.reader
      BY <1>6, <1>8, <2>1, <2>2 DEF GetReadSize, Buffers
    <2>3. CASE m.writer # m.reader
      BY <1>1, <1>2, <1>6, <1>8, <2>3, BufferAssumption, SMTT(30) DEF GetReadSize, Wrap, Offset
    <2> QED
      BY <2>2, <2>3
  <1>10. r + n > 0 => c.reader = b.reader
    BY <1>1, <1>2, <1>6, <1>8, BufferAssumption DEF Wrap, Offset, GetReadSize
  <1> HIDE DEF s, c, m, r, n
  <1>11. \A i \in 1 .. r + n :
            s.cells[Wrap(b.reader + i - 1)] =
                IF i <= r THEN b.cells[Wrap(b.reader + i - 1)] ELSE p[i - r]
    <2> TAKE i \in 1 .. r + n
    <2> DEFINE o == Wrap(b.reader + i - 1)
    <2>1. o \in Offset
      BY <1>1, <1>2, BufferAssumption DEF Wrap, Offset
    <2>2. /\ i <= r => ~(Distance(b, o) < n)
          /\ i > r => Distance(b, o) = i - r - 1
      BY <1>1, RingDistance DEF r
    <2>3. i <= r \/ (i > r /\ i - r - 1 < n /\ i - r - 1 + 1 = i - r)
      BY <1>1
    <2> HIDE DEF o
    <2>4. s.cells[o] = IF Distance(b, o) < n THEN p[Distance(b, o) + 1] ELSE b.cells[o]
      BY <1>4, <2>1
    <2>5. CASE i <= r
      BY <2>2, <2>4, <2>5 DEF o
    <2>6. CASE i > r
      <3>1. Distance(b, o) < n /\ Distance(b, o) + 1 = i - r /\ ~(i <= r)
        BY <1>1, <2>2, <2>3, <2>6 DEF o
      <3> QED
        BY <2>4, <3>1 DEF o
    <2> QED
      BY <1>1, <2>5, <2>6
  <1>12. /\ Contents(c) \in Seq(Byte)
         /\ Len(Contents(c)) = r + n
         /\ \A i \in 1 .. r + n : Contents(c)[i] = s.cells[Wrap(b.reader + i - 1)]
    <2>1. r + n \in 0 .. MAX_BUFFER_LEN
      BY <1>1, BufferAssumption
    <2>2. /\ Contents(c) \in Seq(Byte)
          /\ Len(Contents(c)) = r + n
          /\ \A i \in 1 .. r + n : Contents(c)[i] = c.cells[Wrap(c.reader + i - 1)]
      <3>1. c \in Buffers
        BY <1>8
      <3>2. Contents(c) = Load(c, r + n)
        BY <1>9 DEF Contents
      <3> QED
        BY <2>1, <3>1, <3>2, LoadSeq
    <2>3. \A i \in 1 .. r + n : c.reader = b.reader
      BY <1>1, <1>10
    <2> QED
      BY <1>8, <2>2, <2>3
  <1>13. /\ Contents(b) \in Seq(Byte)
         /\ Len(Contents(b)) = r
         /\ \A i \in 1 .. r : Contents(b)[i] = b.cells[Wrap(b.reader + i - 1)]
    <2>1. r \in 0 .. MAX_BUFFER_LEN
      BY <1>1, BufferAssumption
    <2> QED
      BY <2>1, LoadSeq DEF Contents, r
  <1>14. /\ Contents(b) \o p \in Seq(Byte)
         /\ Len(Contents(b) \o p) = r + n
         /\ \A i \in 1 .. r + n : (Contents(b) \o p)[i] =
                IF i <= r THEN Contents(b)[i] ELSE p[i - r]
    BY <1>13, ConcatProperties DEF n
  <1>15. \A i \in 1 .. r + n : Contents(c)[i] = (Contents(b) \o p)[i]
    <2> TAKE i \in 1 .. r + n
    <2>1. CASE i <= r
      <3>1. i \in 1 .. r
        BY <1>1, <2>1
      <3> QED
        BY <1>11, <1>12, <1>13, <1>14, <2>1, <3>1
    <2>2. CASE ~(i <= r)
      BY <1>11, <1>12, <1>14, <2>2
    <2> QED
      BY <2>1, <2>2
  <1>16. Contents(c) = Contents(b) \o p
    BY <1>12, <1>14, <1>15, SeqEqual
  <1> QED
    BY <1>8, <1>16 DEF c, s, n

(* A read takes its bytes off the front of the contents. *)
LEMMA ReadTakesPrefix ==
    ASSUME NEW b \in Buffers, NEW n \in 0 .. GetReadSize(b)
    PROVE  LET c == MoveReader(b, n)
           IN  /\ c \in Buffers
               /\ Contents(c) = SubSeq(Contents(b), n + 1, Len(Contents(b)))
               /\ Load(b, n) = SubSeq(Contents(b), 1, n)
  <1> DEFINE r == GetReadSize(b)
             m == [b EXCEPT !.reader = Wrap(b.reader + n)]
             c == MoveReader(b, n)
  <1>1. /\ r \in 0 .. MAX_BUFFER_LEN - 1
        /\ n \in 0 .. r
        /\ n \in 0 .. MAX_BUFFER_LEN
    BY Sizes, BufferAssumption
  <1>2. /\ b.reader \in Offset
        /\ b.writer \in Offset
        /\ b.cells \in [Offset -> Byte]
    BY DEF Buffers
  <1>3. Wrap(b.reader + n) \in Offset
    BY <1>1, <1>2, WrapOffset
  <1>4. /\ m \in Buffers
        /\ m.reader = Wrap(b.reader + n)
        /\ m.writer = b.writer
        /\ m.cells = b.cells
    BY <1>2, <1>3 DEF Buffers
  <1>5. 0 \in Offset
    BY BufferAssumption DEF Offset
  <1>6. /\ c \in Buffers
        /\ c.cells = b.cells
        /\ c = IF m.writer = m.reader THEN [m EXCEPT !.writer = 0, !.reader = 0] ELSE m
    BY <1>4, <1>5 DEF MoveReader, ResetIfEqual, Buffers
  <1>7. m.writer = m.reader <=> n = r
    BY <1>1, <1>2, <1>4, BufferAssumption DEF Wrap, Offset, GetReadSize
  <1>8. GetReadSize(c) = r - n
    <2>1. CASE m.writer = m.reader
      BY <1>1, <1>4, <1>6, <1>7, <2>1 DEF GetReadSize, Buffers
    <2>2. CASE m.writer # m.reader
      BY <1>1, <1>2, <1>4, <1>6, <2>2, BufferAssumption, SMTT(30) DEF GetReadSize, Wrap, Offset
    <2> QED
      BY <2>1, <2>2
  <1>9. /\ Contents(b) \in Seq(Byte)
        /\ Len(Contents(b)) = r
        /\ \A i \in 1 .. r : Contents(b)[i] = b.cells[Wrap(b.reader + i - 1)]
    <2>1. r \in 0 .. MAX_BUFFER_LEN
      BY <1>1, BufferAssumption
    <2> QED
      BY <2>1, LoadSeq DEF Contents
  <1>10. /\ Contents(c) \in Seq(Byte)
         /\ Len(Contents(c)) = r - n
         /\ \A i \in 1 .. r - n : Contents(c)[i] = b.cells[Wrap(c.reader + i - 1)]
    <2>1. r - n \in 0 .. MAX_BUFFER_LEN
      BY <1>1, BufferAssumption
    <2> QED
      BY <1>6, <1>8, <2>1, LoadSeq, ZenonT(60) DEF Contents
  <1>11. \A i \in 1 .. r - n : Contents(c)[i] = Contents(b)[n + i]
    <2> TAKE i \in 1 .. r - n
    <2>1. n + i \in 1 .. r
      BY <1>1
    <2>2. c.reader = Wrap(b.reader + n)
      BY <1>1, <1>4, <1>6, <1>7
    <2>3. Wrap(Wrap(b.reader + n) + i - 1) = Wrap(b.reader + (n + i) - 1)
      BY <1>1, <1>2, BufferAssumption, SMTT(30) DEF Wrap, Offset
    <2> QED
      BY <1>9, <1>10, <2>1, <2>2, <2>3
  <1>12. /\ SubSeq(Contents(b), n + 1, r) \in Seq(Byte)
         /\ Len(SubSeq(Contents(b), n + 1, r)) = r - n
         /\ \A i \in 1 .. r - n : SubSeq(Contents(b), n + 1, r)[i] = Contents(b)[n + i]
    <2>1. \A i \in n + 1 .. r : Contents(b)[i] \in Byte
      BY <1>1, <1>9, ElementOfSeq
    <2>2. /\ n + 1 \in Int
          /\ r \in Int
      BY <1>1
    <2>3. /\ SubSeq(Contents(b), n + 1, r) \in Seq(Byte)
          /\ Len(SubSeq(Contents(b), n + 1, r)) = IF n + 1 <= r THEN r - (n + 1) + 1 ELSE 0
          /\ \A i \in 1 .. r - (n + 1) + 1 :
                SubSeq(Contents(b), n + 1, r)[i] = Contents(b)[n + 1 + i - 1]
      BY <2>1, <2>2, SubSeqProperties
    <2>4. /\ r - (n + 1) + 1 = r - n
          /\ \A i \in 1 .. r - n : n + 1 + i - 1 = n + i
      BY <1>1
    <2> QED
      BY <1>1, <2>3, <2>4
  <1>13. Contents(c) = SubSeq(Contents(b), n + 1, r)
    BY <1>10, <1>11, <1>12, SeqEqual
  <1>14. /\ Load(b, n) \in Seq(Byte)
         /\ Len(Load(b, n)) = n
         /\ \A i \in 1 .. n : Load(b, n)[i] = Contents(b)[i]
    <2>1. /\ Load(b, n) \in Seq(Byte)
          /\ Len(Load(b, n)) = n
          /\ \A i \in 1 .. n : Load(b, n)[i] = b.cells[Wrap(b.reader + i - 1)]
      BY <1>1, LoadSeq
    <2>2. \A i \in 1 .. n : i \in 1 .. r
      BY <1>1
    <2> QED
      BY <1>9, <2>1, <2>2
  <1>15. /\ SubSeq(Contents(b), 1, n) \in Seq(Byte)
         /\ Len(SubSeq(Contents(b), 1, n)) = n
         /\ \A i \in 1 .. n : SubSeq(Contents(b), 1, n)[i] = Contents(b)[i]
    <2>1. \A i \in 1 .. n : Contents(b)[i] \in Byte
      BY <1>1, <1>9, ElementOfSeq
    <2>2. /\ SubSeq(Contents(b), 1, n) \in Seq(Byte)
          /\ Len(SubSeq(Contents(b), 1, n)) = IF 1 <= n THEN n - 1 + 1 ELSE 0
          /\ \A i \in 1 .. n - 1 + 1 : SubSeq(Contents(b), 1, n)[i] = Contents(b)[1 + i - 1]
      BY <1>1, <2>1, SubSeqProperties
    <2>3. n - 1 + 1 = n /\ \A i \in 1 .. n : 1 + i - 1 = i
      BY <1>1
    <2> QED
      BY <1>1, <2>2, <2>3
  <1>16. Load(b, n) = SubSeq(Contents(b), 1, n)
    BY <1>14, <1>15, SeqEqual
  <1>17. Contents(c) = SubSeq(Contents(b), n + 1, Len(Contents(b)))
    BY <1>9, <1>13
  <1> HIDE DEF c
  <1> QED
    BY <1>6, <1>16, <1>17 DEF c

-----------------------------------------------------------------------------
(* Write's argument is a sequence of bytes; CleanUp empties the contents.  *)
LEMMA ChunkSeq == Chunk \subseteq Seq(Byte)
  <1> SUFFICES ASSUME NEW n \in 0 .. MaxLen, NEW p \in [1 .. n -> Byte]
               PROVE  p \in Seq(Byte)
    BY DEF Chunk
  <1>1. n \in Nat
    BY BufferAssumption
  <1> QED
    BY <1>1

(* There is nothing to read when the pointers are equal. *)
LEMMA EmptyContents ==
    ASSUME NEW b \in Buffers, b.reader = b.writer
    PROVE  Contents(b) = <<>>
  <1>1. GetReadSize(b) = 0
    BY BufferAssumption DEF Buffers, Offset, GetReadSize
  <1>2. 0 \in 0 .. MAX_BUFFER_LEN
    BY BufferAssumption
  <1>3. /\ Contents(b) \in Seq(Byte)
        /\ Len(Contents(b)) = 0
    BY <1>1, <1>2, LoadSeq DEF Contents
  <1> QED
    BY <1>3, EmptySeq

(* CleanUp leaves a buffer with nothing in it. *)
LEMMA EmptiedBuffer ==
    ASSUME NEW b \in Buffers
    PROVE  /\ Emptied(b) \in Buffers
           /\ Emptied(b).reader = 0
           /\ Emptied(b).writer = 0
           /\ Contents(Emptied(b)) = <<>>
  <1>1. 0 \in Offset
    BY BufferAssumption DEF Offset
  <1>2. /\ Emptied(b) \in Buffers
        /\ Emptied(b).reader = 0
        /\ Emptied(b).writer = 0
    BY <1>1 DEF Emptied, Buffers
  <1> QED
    BY <1>2, EmptyContents

(* Moving a pointer of a buffer gives a buffer, even when the move fills it. *)
LEMMA MovesKeepBuffers ==
    ASSUME NEW b \in Buffers
    PROVE  /\ \A n \in 0 .. MAX_BUFFER_LEN : MoveWriter(b, n) \in Buffers
           /\ \A n \in 0 .. MAX_BUFFER_LEN : MoveReader(b, n) \in Buffers
           /\ \A p \in Seq(Byte) : Store(b, p) \in Buffers
  <1>1. /\ b.reader \in Offset
        /\ b.writer \in Offset
        /\ b.cells \in [Offset -> Byte]
        /\ 0 \in Offset
    BY BufferAssumption DEF Buffers, Offset
  <1>2. ASSUME NEW n \in 0 .. MAX_BUFFER_LEN
        PROVE  MoveWriter(b, n) \in Buffers /\ MoveReader(b, n) \in Buffers
    <2>1. /\ Wrap(b.writer + n) \in Offset
          /\ Wrap(b.reader + n) \in Offset
      BY <1>1, WrapOffset
    <2> QED
      BY <1>1, <2>1 DEF MoveWriter, MoveReader, ResetIfEqual, Buffers
  <1>3. ASSUME NEW p \in Seq(Byte)
        PROVE  Store(b, p) \in Buffers
    <2>1. \A o \in Offset : Distance(b, o) < Len(p) => p[Distance(b, o) + 1] \in Byte
      <3> TAKE o \in Offset
      <3>1. Distance(b, o) \in Nat
        BY <1>1, BufferAssumption DEF Distance, Offset
      <3>2. /\ p \in [1 .. Len(p) -> Byte]
            /\ Len(p) \in Nat
        BY LenProperties
      <3> QED
        BY <3>1, <3>2
    <2> QED
      BY <1>1, <2>1 DEF Store, Buffers
  <1> QED
    BY <1>2, <1>3

(* TypeOK is inductive: no sequence of writes, reads and clean-ups moves a *)
(* pointer onto or past m_pTail.                                           *)
THEOREM TypeCorrect == Spec => []TypeOK
  <1>1. Init => TypeOK
    <2> SUFFICES ASSUME Init PROVE TypeOK
      OBVIOUS
    <2>1. buf \in Buffers
      BY BufferAssumption DEF Init, Buffers, Offset
    <2> QED
      BY <2>1, EmptySeq DEF Init, TypeOK
  <1>2. TypeOK /\ [Next]_vars => TypeOK'
    <2> SUFFICES ASSUME TypeOK, [Next]_vars PROVE TypeOK'
      OBVIOUS
    <2>1. ASSUME NEW p \in Chunk, Write(p) PROVE TypeOK'
      <3>1. p \in Seq(Byte)
        BY ChunkSeq
      <3>2. Len(p) \in 0 .. MAX_BUFFER_LEN
        BY <2>1, <3>1, Sizes, LenProperties, BufferAssumption DEF Write, TypeOK
      <3> QED
        BY <2>1, <3>1, <3>2, MovesKeepBuffers, EmptySeq DEF Write, TypeOK
    <2>2. ASSUME NEW p \in Chunk, WriteRefused(p) PROVE TypeOK'
      <3>1. p \in Seq(Byte)
        BY ChunkSeq
      <3> QED
        BY <2>2, <3>1, EmptySeq DEF WriteRefused, TypeOK
    <2>3. ASSUME NEW n \in 0 .. MaxLen, Read(n) PROVE TypeOK'
      <3>1. n \in 0 .. MAX_BUFFER_LEN
        BY <2>3, Sizes, BufferAssumption DEF Read, TypeOK
      <3> QED
        BY <2>3, <3>1, MovesKeepBuffers, LoadSeq DEF Read, TypeOK
    <2>4. ASSUME NEW n \in 0 .. MaxLen, ReadRefused(n) PROVE TypeOK'
      BY <2>4, EmptySeq DEF ReadRefused, TypeOK
    <2>5. CASE CleanUp
      BY <2>5, EmptiedBuffer, EmptySeq DEF CleanUp, TypeOK
    <2>6. CASE UNCHANGED vars
      BY <2>6 DEF vars, TypeOK
    <2> QED
      BY <2>1, <2>2, <2>3, <2>4, <2>5, <2>6 DEF Next
  <1> QED
    BY <1>1, <1>2, PTL DEF Spec

(* An empty ring has both pointers at the header, whatever the callers do. *)
THEOREM EmptyIsAtHeader == Spec => []EmptyAtHeader
  <1>1. Init => EmptyAtHeader
    BY DEF Init, EmptyAtHeader
  <1>2. TypeOK /\ EmptyAtHeader /\ [Next]_vars => EmptyAtHeader'
    <2> SUFFICES ASSUME TypeOK, EmptyAtHeader, [Next]_vars PROVE EmptyAtHeader'
      OBVIOUS
    <2>1. ASSUME NEW b \in Buffers
          PROVE  ResetIfEqual(b).reader = ResetIfEqual(b).writer => ResetIfEqual(b).reader = 0
      BY <2>1 DEF ResetIfEqual, Buffers
    <2>2. ASSUME NEW p \in Chunk, Write(p) PROVE EmptyAtHeader'
      <3>1. p \in Seq(Byte)
        BY ChunkSeq
      <3>2. Len(p) \in 0 .. MAX_BUFFER_LEN
        BY <2>2, <3>1, Sizes, LenProperties, BufferAssumption DEF Write, TypeOK
      <3> DEFINE s == Store(buf, p)
      <3>3. s \in Buffers
        BY <3>1, MovesKeepBuffers DEF TypeOK
      <3>4. Wrap(s.writer + Len(p)) \in Offset
        BY <3>2, <3>3, WrapOffset DEF Buffers
      <3>5. [s EXCEPT !.writer = Wrap(s.writer + Len(p))] \in Buffers
        BY <3>3, <3>4 DEF Buffers
      <3>6. buf' = ResetIfEqual([s EXCEPT !.writer = Wrap(s.writer + Len(p))])
        BY <2>2 DEF Write, MoveWriter
      <3> QED
        BY <2>1, <3>5, <3>6 DEF EmptyAtHeader
    <2>3. ASSUME NEW n \in 0 .. MaxLen, Read(n) PROVE EmptyAtHeader'
      <3>1. n \in 0 .. MAX_BUFFER_LEN
        BY <2>3, Sizes, BufferAssumption DEF Read, TypeOK
      <3>2. Wrap(buf.reader + n) \in Offset
        BY <3>1, WrapOffset DEF TypeOK, Buffers
      <3>3. [buf EXCEPT !.reader = Wrap(buf.reader + n)] \in Buffers
        BY <3>2 DEF TypeOK, Buffers
      <3> QED
        BY <2>1, <2>3, <3>3 DEF Read, MoveReader, EmptyAtHeader
    <2>4. CASE CleanUp
      BY <2>4, EmptiedBuffer DEF CleanUp, TypeOK, EmptyAtHeader
    <2>5. CASE UNCHANGED buf
      BY <2>5 DEF EmptyAtHeader
    <2> QED
      BY <2>2, <2>3, <2>4, <2>5 DEF Next, WriteRefused, ReadRefused, vars
  <1> QED
    BY <1>1, <1>2, TypeCorrect, PTL DEF Spec

(* For callers that always leave a byte free the ring is a queue of        *)
(* MAX_BUFFER_LEN - 1 bytes: every step of it is a step of ByteFifo.       *)
THEOREM Refinement == ASSUME ExactFill = FALSE PROVE Spec => ImplementsFifo
  <1>1. Init => Fifo!Init
    <2> SUFFICES ASSUME Init PROVE Contents(buf) = <<>>
      BY DEF Init, Fifo!Init
    <2>1. buf \in Buffers /\ buf.reader = buf.writer
      BY BufferAssumption DEF Init, Buffers, Offset
    <2> QED
      BY <2>1, EmptyContents
  <1>2. TypeOK /\ [Next]_vars => [Fifo!Next]_(Fifo!vars)
    <2> SUFFICES ASSUME TypeOK, [Next]_vars PROVE [Fifo!Next]_(Fifo!vars)
      OBVIOUS
    <2> USE DEF TypeOK
    <2>1. /\ Contents(buf) \in Seq(Byte)
          /\ Len(Contents(buf)) = GetReadSize(buf)
          /\ GetReadSize(buf) \in 0 .. MAX_BUFFER_LEN - 1
          /\ GetWriteSize(buf) = MAX_BUFFER_LEN - GetReadSize(buf)
      <3>1. GetReadSize(buf) \in 0 .. MAX_BUFFER_LEN
        BY Sizes, BufferAssumption
      <3> QED
        BY <3>1, Sizes, LoadSeq, BufferAssumption DEF Contents
    <2>2. ASSUME NEW p \in Chunk, Write(p) PROVE Fifo!Next
      <3>1. /\ p \in Seq(Byte)
            /\ Len(p) \in Nat
            /\ p \in [1 .. Len(p) -> Byte]
        BY ChunkSeq, LenProperties
      <3>2. Len(p) < GetWriteSize(buf)
        BY <2>1, <2>2, <3>1, Refinement!1, BufferAssumption DEF Write
      <3>3. Contents(buf') = Contents(buf) \o p
        BY <2>2, <3>1, <3>2, WriteAppends DEF Write
      <3>4. Len(Contents(buf)) + Len(p) <= MAX_BUFFER_LEN - 1
        BY <2>1, <3>1, <3>2, BufferAssumption
      <3>5. Fifo!Put(p)
        BY <2>2, <3>3, <3>4 DEF Write, Fifo!Put
      <3>6. Len(p) \in 0 .. MAX_BUFFER_LEN - 1
        BY <2>1, <3>1, <3>4, BufferAssumption
      <3> QED
        BY <3>1, <3>5, <3>6 DEF Fifo!Next
    <2>3. ASSUME NEW p \in Chunk, WriteRefused(p) PROVE Fifo!Next
      <3>1. p \in Seq(Byte) /\ Len(p) \in Nat
        BY ChunkSeq, LenProperties
      <3>2. Len(Contents(buf)) + Len(p) > MAX_BUFFER_LEN - 1
        BY <2>1, <2>3, <3>1, BufferAssumption DEF WriteRefused
      <3>3. UNCHANGED Contents(buf)
        BY <2>3 DEF WriteRefused, Contents, Load, GetReadSize
      <3> QED
        BY <2>3, <3>1, <3>2, <3>3
        DEF WriteRefused, Fifo!Next, Fifo!RefusePut, INVALID_VALUE
    <2>4. ASSUME NEW n \in 0 .. MaxLen, Read(n) PROVE Fifo!Next
      <3>1. n \in 0 .. GetReadSize(buf)
        BY <2>1, <2>4, BufferAssumption DEF Read
      <3>2. /\ Contents(buf') = SubSeq(Contents(buf), n + 1, Len(Contents(buf)))
            /\ out' = SubSeq(Contents(buf), 1, n)
        BY <2>4, <3>1, ReadTakesPrefix DEF Read
      <3>3. n <= Len(Contents(buf)) /\ n \in 0 .. MAX_BUFFER_LEN - 1
        <4> DEFINE r == GetReadSize(buf)
        <4>1. r \in 0 .. MAX_BUFFER_LEN - 1 /\ n \in 0 .. r /\ Len(Contents(buf)) = r
          BY <2>1, <3>1
        <4> HIDE DEF r
        <4> QED
          BY <4>1, BufferAssumption
      <3>4. Fifo!Get(n)
        BY <2>4, <3>2, <3>3 DEF Read, Fifo!Get
      <3> QED
        BY <3>3, <3>4 DEF Fifo!Next
    <2>5. ASSUME NEW n \in 0 .. MaxLen, ReadRefused(n) PROVE Fifo!Next
      BY <2>5 DEF ReadRefused, Fifo!Next, Fifo!RefuseGet, INVALID_VALUE
    <2>6. CASE CleanUp
      <3>1. Contents(buf') = <<>>
        BY <2>6, EmptiedBuffer DEF CleanUp
      <3> QED
        BY <2>6, <3>1 DEF CleanUp, Fifo!Next, Fifo!Clear
    <2>7. CASE UNCHANGED vars
      BY <2>7 DEF vars, Fifo!vars, Contents, Load, GetReadSize
    <2> QED
      BY <2>2, <2>3, <2>4, <2>5, <2>6, <2>7 DEF Next
  <1> QED
    BY <1>1, <1>2, TypeCorrect, PTL DEF Spec, Fifo!Spec, ImplementsFifo

=============================================================================
