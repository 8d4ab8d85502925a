---------------------- MODULE GYBufferStreamSocket_proofs ----------------------
(***************************************************************************)
(* What the operations of a buffered socket do to the bytes in one of its   *)
(* rings, for rings of any length: which bytes are there afterwards, and     *)
(* where they lie.                                                          *)
(***************************************************************************)
EXTENDS GYBufferStreamSocket, SequenceTheorems, TLAPS

CONSTANT Token  \* what a byte can be

RP == INSTANCE GYCycleBuffer_proofs
    WITH MAX_BUFFER_LEN <- BufferLen, Byte <- Token, MaxLen <- 0, ExactFill <- TRUE,
         buf <- <<>>, err <- 0, given <- <<>>, out <- <<>>

Sized ==
    /\ BufferLen \in Nat \ {0}
    /\ HeadLen \in Nat
    /\ Junk \in Token

Places == 0 .. BufferLen - 1

(* The cell of the i-th unread byte. *)
Cell(b, i) == LET c == b.reader + i - 1 IN IF c >= BufferLen THEN c - BufferLen ELSE c

Rings == [cells : [Places -> Token], reader : Places, writer : Places]

-----------------------------------------------------------------------------
(* The ring of this module is the one of the ring's lemmas. *)
LEMMA SameRing ==
    /\ Ring!Offset = Places /\ RP!Offset = Places /\ RP!Buffers = Rings
    /\ \A b : GetReadSize(b) = RP!GetReadSize(b)
    /\ \A b : GetWriteSize(b) = RP!GetWriteSize(b)
    /\ \A b, n : Ring!MoveReader(b, n) = RP!MoveReader(b, n)
    /\ \A b, n : Ring!MoveWriter(b, n) = RP!MoveWriter(b, n)
    /\ \A b, p : Ring!Store(b, p) = RP!Store(b, p)
    /\ \A b : Contents(b) = RP!Contents(b)
  <1>1. Ring!Offset = Places /\ RP!Offset = Places
    BY DEF Ring!Offset, RP!Offset, Places
  <1>2. RP!Buffers = Rings
    BY <1>1 DEF RP!Buffers, Rings
  <1>3. \A b : GetReadSize(b) = RP!GetReadSize(b)
    BY DEF GetReadSize, Ring!GetReadSize, RP!GetReadSize
  <1>4. \A b : GetWriteSize(b) = RP!GetWriteSize(b)
    BY DEF GetWriteSize, Ring!GetWriteSize, RP!GetWriteSize
  <1>5. \A b, n : Ring!MoveReader(b, n) = RP!MoveReader(b, n)
    BY DEF Ring!MoveReader, RP!MoveReader, Ring!ResetIfEqual, RP!ResetIfEqual, Ring!Wrap, RP!Wrap
  <1>6. \A b, n : Ring!MoveWriter(b, n) = RP!MoveWriter(b, n)
    BY DEF Ring!MoveWriter, RP!MoveWriter, Ring!ResetIfEqual, RP!ResetIfEqual, Ring!Wrap, RP!Wrap
  <1>7. \A b, p : Ring!Store(b, p) = RP!Store(b, p)
    BY DEF Ring!Store, RP!Store, Ring!Distance, RP!Distance, Ring!Offset, RP!Offset
  <1>8. \A b : Contents(b) = RP!Contents(b)
    BY DEF Contents, Ring!Contents, RP!Contents, Ring!Load, RP!Load, Ring!Wrap, RP!Wrap,
           Ring!GetReadSize, RP!GetReadSize
  <1> QED
    BY <1>1, <1>2, <1>3, <1>4, <1>5, <1>6, <1>7, <1>8

(* What can be read and what can be written make up the ring. *)
LEMMA RoomLeft ==
    ASSUME Sized, NEW b \in Rings
    PROVE  /\ GetReadSize(b) \in 0 .. BufferLen - 1
           /\ GetWriteSize(b) \in 1 .. BufferLen
           /\ GetReadSize(b) + GetWriteSize(b) = BufferLen
  BY SameRing, RP!Sizes DEF Sized

(* The bytes in a ring, and the cells they are in. *)
LEMMA BytesInRing ==
    ASSUME Sized, NEW b \in Rings
    PROVE  /\ Contents(b) \in Seq(Token)
           /\ Len(Contents(b)) = GetReadSize(b)
           /\ \A i \in 1 .. GetReadSize(b) :
                Contents(b)[i] = b.cells[Cell(b, i)]
  <1>1. GetReadSize(b) \in 0 .. BufferLen
    BY RoomLeft DEF Sized
  <1>2. Contents(b) = RP!Load(b, GetReadSize(b))
    BY SameRing DEF RP!Contents
  <1>3. /\ RP!Load(b, GetReadSize(b)) \in Seq(Token)
        /\ Len(RP!Load(b, GetReadSize(b))) = GetReadSize(b)
        /\ \A i \in 1 .. GetReadSize(b) :
                RP!Load(b, GetReadSize(b))[i] = b.cells[RP!Wrap(b.reader + i - 1)]
    BY <1>1, SameRing, RP!LoadSeq DEF Sized
  <1>4. \A i \in 1 .. GetReadSize(b) : Cell(b, i) = RP!Wrap(b.reader + i - 1)
    BY DEF Cell, RP!Wrap
  <1> QED
    BY <1>2, <1>3, <1>4

(* Scrubbing leaves the pointers and all unread bytes as they are. *)
LEMMA Scrubbed ==
    ASSUME Sized, NEW b \in Rings
    PROVE  /\ Scrub(b) \in Rings
           /\ Scrub(b).reader = b.reader
           /\ Scrub(b).writer = b.writer
           /\ Contents(Scrub(b)) = Contents(b)
  <1> DEFINE s == Scrub(b)
  <1>1. /\ s \in Rings
        /\ s.reader = b.reader /\ s.writer = b.writer
        /\ \A c \in Places : s.cells[c] = IF (c - b.reader) % BufferLen < GetReadSize(b)
                                          THEN b.cells[c] ELSE Junk
    BY SameRing DEF Scrub, Rings, Sized
  <1>2. GetReadSize(s) = GetReadSize(b)
    BY <1>1 DEF GetReadSize, Ring!GetReadSize
  <1>3. GetReadSize(b) \in 0 .. BufferLen - 1 /\ b.reader \in 0 .. BufferLen - 1
    BY RoomLeft DEF Rings, Places
  <1>4. \A i \in 1 .. GetReadSize(b) : s.cells[Cell(b, i)] = b.cells[Cell(b, i)]
    <2> TAKE i \in 1 .. GetReadSize(b)
    <2>1. Cell(b, i) \in 0 .. BufferLen - 1
      BY <1>3 DEF Sized, Cell
    <2>2. (Cell(b, i) - b.reader) % BufferLen = i - 1
      BY <1>3, <2>1 DEF Sized, Cell
    <2>3. i - 1 < GetReadSize(b) /\ Cell(b, i) \in Places
      BY <1>3, <2>1 DEF Places
    <2> QED
      BY <1>1, <2>2, <2>3
  <1>5. \A i : Cell(s, i) = Cell(b, i)
    BY <1>1 DEF Cell
  <1>6. /\ Contents(s) \in Seq(Token) /\ Contents(b) \in Seq(Token)
        /\ Len(Contents(s)) = Len(Contents(b))
        /\ Len(Contents(b)) = GetReadSize(b)
        /\ \A i \in 1 .. GetReadSize(b) : Contents(s)[i] = s.cells[Cell(b, i)]
        /\ \A i \in 1 .. GetReadSize(b) : Contents(b)[i] = b.cells[Cell(b, i)]
    BY <1>1, <1>2, <1>5, BytesInRing
  <1>7. Contents(s) = Contents(b)
    <2> HIDE DEF s
    <2>1. \A i \in 1 .. Len(Contents(s)) : Contents(s)[i] = Contents(b)[i]
      BY <1>4, <1>6
    <2> QED
      BY <1>6, <2>1, SeqEqual
  <1> QED
    BY <1>1, <1>7

-----------------------------------------------------------------------------
(* Reading takes bytes off the front.  A ring whose data starts at the header *)
(* and is read to its end starts at the header again.                        *)
LEMMA ReadPtrTakes ==
    ASSUME Sized, NEW b \in Rings, NEW n \in 0 .. GetReadSize(b)
    PROVE  /\ ReadPtr(b, n) \in Rings
           /\ Contents(ReadPtr(b, n)) = SubSeq(Contents(b), n + 1, Len(Contents(b)))
           /\ GetReadSize(ReadPtr(b, n)) = GetReadSize(b) - n
           /\ b.reader = 0 /\ n \in {0, GetReadSize(b)} => ReadPtr(b, n).reader = 0
  <1> DEFINE m == RP!MoveReader(b, n)
  <1>1. /\ m \in Rings
        /\ Contents(m) = SubSeq(Contents(b), n + 1, Len(Contents(b)))
    BY SameRing, RP!ReadTakesPrefix DEF Sized
  <1>2. ReadPtr(b, n) = Scrub(m)
    BY SameRing DEF ReadPtr
  <1>3. GetReadSize(b) \in 0 .. BufferLen - 1 /\ b.reader \in 0 .. BufferLen - 1
                                              /\ b.writer \in 0 .. BufferLen - 1
    BY RoomLeft DEF Rings, Places
  <1>4. b.reader = 0 /\ n \in {0, GetReadSize(b)} => m.reader = 0
    <2> SUFFICES ASSUME b.reader = 0, n \in {0, GetReadSize(b)}
                 PROVE  m.reader = 0
      OBVIOUS
    <2>1. GetReadSize(b) = b.writer
      BY <1>3 DEF GetReadSize, Ring!GetReadSize
    <2>2. b.reader + n = n /\ RP!Wrap(n) = n
      BY <1>3 DEF RP!Wrap, Sized
    <2>3. [b EXCEPT !.reader = n].reader = n /\ [b EXCEPT !.reader = n].writer = b.writer
      BY DEF Rings
    <2>4. m = RP!ResetIfEqual([b EXCEPT !.reader = n])
      BY <2>2 DEF RP!MoveReader
    <2>5. CASE b.writer = n
      <3>1. m = [[b EXCEPT !.reader = n] EXCEPT !.writer = 0, !.reader = 0]
        BY <2>3, <2>4, <2>5 DEF RP!ResetIfEqual
      <3> QED
        BY <3>1 DEF Rings
    <2>6. CASE b.writer # n
      <3>1. n = 0
        BY <2>1, <2>6
      <3>2. m = [b EXCEPT !.reader = n]
        BY <2>3, <2>4, <2>6 DEF RP!ResetIfEqual
      <3> QED
        BY <2>3, <3>1, <3>2
    <2> QED
      BY <2>5, <2>6
  <1>5. GetReadSize(ReadPtr(b, n)) = GetReadSize(b) - n
    <2> DEFINE all == Contents(b)
    <2>1. /\ all \in Seq(Token) /\ Len(all) = GetReadSize(b)
          /\ ReadPtr(b, n) \in Rings
          /\ Len(Contents(ReadPtr(b, n))) = GetReadSize(ReadPtr(b, n))
          /\ Contents(ReadPtr(b, n)) = SubSeq(all, n + 1, Len(all))
      BY <1>1, <1>2, Scrubbed, BytesInRing
    <2> HIDE DEF all
    <2>2. Len(SubSeq(all, n + 1, Len(all))) = Len(all) - n
      BY <1>3, <2>1
    <2> QED
      BY <2>1, <2>2
  <1> HIDE DEF m
  <1> QED
    BY <1>1, <1>2, <1>4, <1>5, Scrubbed

(* Writing puts the bytes behind those that are there, as long as one cell   *)
(* stays free; data that starts at the header still starts there.            *)
LEMMA WriteAppends ==
    ASSUME Sized, NEW b \in Rings, NEW p \in Seq(Token), Len(p) <= GetWriteSize(b)
    PROVE  /\ Write(b, p) \in Rings
           /\ ~Wipes(b, Len(p)) => Contents(Write(b, p)) = Contents(b) \o p
           /\ b.reader = 0 => Write(b, p).reader = 0
  <1> DEFINE st == RP!Store(b, p)
             m == RP!MoveWriter(st, Len(p))
  <1>1. Len(p) \in 0 .. BufferLen
    BY RoomLeft, LenProperties DEF Sized
  <1>2. st \in Rings /\ m \in Rings
    BY <1>1, SameRing, RP!MovesKeepBuffers DEF Sized
  <1>3. Write(b, p) = Scrub(m)
    BY SameRing DEF Write
  <1>4. ~Wipes(b, Len(p)) => Contents(m) = Contents(b) \o p
    <2> SUFFICES ASSUME ~Wipes(b, Len(p))
                 PROVE  Contents(m) = Contents(b) \o p
      OBVIOUS
    <2>1. Len(p) < RP!GetWriteSize(b)
      BY <1>1, RoomLeft, SameRing DEF Wipes
    <2>2. RP!Contents(m) = RP!Contents(b) \o p
      BY <2>1, SameRing, RP!WriteAppends DEF Sized
    <2> QED
      BY <2>2, SameRing
  <1>5. b.reader = 0 => m.reader = 0
    <2> SUFFICES ASSUME b.reader = 0
                 PROVE  m.reader = 0
      OBVIOUS
    <2> DEFINE x == [st EXCEPT !.writer = RP!Wrap(st.writer + Len(p))]
    <2>1. st.reader = 0
      BY DEF RP!Store, Rings
    <2>2. x.reader = 0
      BY <1>2, <2>1 DEF Rings
    <2>3. m = IF x.writer = x.reader THEN [x EXCEPT !.writer = 0, !.reader = 0] ELSE x
      BY DEF RP!MoveWriter, RP!ResetIfEqual
    <2>4. [x EXCEPT !.writer = 0, !.reader = 0].reader = 0
      BY <1>2 DEF Rings
    <2> HIDE DEF x, m
    <2> QED
      BY <2>2, <2>3, <2>4
  <1> HIDE DEF m, st
  <1> QED
    BY <1>2, <1>3, <1>4, <1>5, Scrubbed

(* A new ring is empty. *)
LEMMA NewRingEmpty ==
    ASSUME Sized
    PROVE  /\ NewRing \in Rings
           /\ Contents(NewRing) = <<>>
           /\ NewRing.reader = 0
           /\ GetReadSize(NewRing) = 0
  <1>1. NewRing \in Rings /\ NewRing.reader = 0 /\ NewRing.writer = 0
    BY SameRing DEF NewRing, Rings, Places, Sized
  <1>2. GetReadSize(NewRing) = 0
    BY <1>1 DEF GetReadSize, Ring!GetReadSize
  <1>3. RP!Contents(NewRing) = <<>>
    BY <1>1, SameRing, RP!EmptyContents DEF Sized
  <1> QED
    BY <1>1, <1>2, <1>3, SameRing

(* Bytes read in place are those of the ring, if they are unread and before   *)
(* its end; in any case they are bytes.                                       *)
LEMMA InPlaceBytes ==
    ASSUME Sized, NEW b \in Rings, NEW off \in Nat, NEW n \in Nat
    PROVE  /\ InPlace(b, off, n) \in Seq(Token)
           /\ Len(InPlace(b, off, n)) = n
           /\ off + n <= GetReadSize(b) /\ b.reader + off + n <= BufferLen =>
                InPlace(b, off, n) = SubSeq(Contents(b), off + 1, off + n)
  <1> DEFINE at == InPlace(b, off, n)
  <1>1. b.reader \in 0 .. BufferLen - 1 /\ BufferLen \in Nat /\ GetReadSize(b) \in Nat
    BY RoomLeft DEF Rings, Places, Sized
  <1>2. \A i \in 1 .. n : at[i] = IF b.reader + off + i - 1 < BufferLen
                                 THEN b.cells[b.reader + off + i - 1] ELSE Junk
    BY DEF InPlace
  <1>3. at \in [1 .. n -> Token]
    <2> SUFFICES ASSUME NEW i \in 1 .. n
                 PROVE  at[i] \in Token
      BY DEF InPlace
    <2>1. b.reader + off + i - 1 < BufferLen => b.reader + off + i - 1 \in Places
      BY <1>1 DEF Places
    <2> HIDE DEF at
    <2> QED
      BY <1>2, <2>1 DEF Rings, Sized
  <1>4. at \in Seq(Token) /\ Len(at) = n
    BY <1>3
  <1>5. ASSUME off + n <= GetReadSize(b), b.reader + off + n <= BufferLen
        PROVE  at = SubSeq(Contents(b), off + 1, off + n)
    <2> DEFINE all == Contents(b)
               s == SubSeq(all, off + 1, off + n)
    <2>1. /\ all \in Seq(Token) /\ Len(all) = GetReadSize(b)
          /\ \A i \in 1 .. GetReadSize(b) : all[i] = b.cells[Cell(b, i)]
      BY BytesInRing
    <2> HIDE DEF all
    <2>2. /\ s \in Seq(Token) /\ Len(s) = n
          /\ \A i \in 1 .. n : s[i] = all[off + i]
      <3>1. \A i \in off + 1 .. off + n : all[i] \in Token
        BY <1>1, <1>5, <2>1, ElementOfSeq
      <3>2. /\ s \in Seq(Token)
            /\ Len(s) = IF off + 1 <= off + n THEN off + n - (off + 1) + 1 ELSE 0
            /\ \A i \in 1 .. off + n - (off + 1) + 1 : s[i] = all[off + 1 + i - 1]
        BY <3>1, SubSeqProperties
      <3>3. off + n - (off + 1) + 1 = n /\ \A i \in 1 .. n : off + 1 + i - 1 = off + i
        OBVIOUS
      <3> QED
        BY <3>2, <3>3
    <2>3. \A i \in 1 .. n : at[i] = s[i]
      <3> TAKE i \in 1 .. n
      <3>1. off + i \in 1 .. GetReadSize(b)
        BY <1>1, <1>5
      <3>2. Cell(b, off + i) = b.reader + off + i - 1
        BY <1>1, <1>5 DEF Cell
      <3>3. b.reader + off + i - 1 < BufferLen
        BY <1>1, <1>5
      <3> HIDE DEF at, s
      <3> QED
        BY <1>2, <2>1, <2>2, <3>1, <3>2, <3>3
    <2>4. at = s
      <3> HIDE DEF at, s
      <3> QED
        BY <1>4, <2>2, <2>3, SeqEqual
    <2> QED
      BY <2>4 DEF s, all
  <1> QED
    BY <1>4, <1>5

-----------------------------------------------------------------------------
Results == {"SUCESS", "WOULD_BLOCK", "CONNECTION_CLOSED"}

(* A prefix of bytes. *)
LEMMA PrefixBytes ==
    ASSUME NEW p \in Seq(Token), NEW k \in 0 .. Len(p)
    PROVE  SubSeq(p, 1, k) \in Seq(Token) /\ Len(SubSeq(p, 1, k)) = k
  <1>1. \A i \in 1 .. k : p[i] \in Token
    BY LenProperties, ElementOfSeq
  <1> QED
    BY <1>1, SubSeqProperties, LenProperties

(* What the kernel takes are bytes. *)
LEMMA CallsBytes ==
    ASSUME NEW p \in Seq(Token), NEW partial, NEW s \in SendCalls(p, partial)
    PROVE  s.put \in Seq(Token) /\ s.result \in Results
  <1>1. CASE s \in {[put |-> p, result |-> "SUCESS"], [put |-> <<>>, result |-> "WOULD_BLOCK"],
                    [put |-> <<>>, result |-> "CONNECTION_CLOSED"]}
    <2>1. <<>> \in Seq(Token)
      OBVIOUS
    <2>2. s.put \in {p, <<>>} /\ s.result \in Results
      BY <1>1 DEF Results
    <2> QED
      BY <2>1, <2>2
  <1>2. CASE s \in {[put |-> Taken(p, k), result |-> "SUCESS"] : k \in 1 .. Len(p) - 1}
    <2> PICK k \in 1 .. Len(p) - 1 : s = [put |-> Taken(p, k), result |-> "SUCESS"]
      BY <1>2
    <2>1. k \in 0 .. Len(p) /\ Len(p) - k \in 0 .. Len(p)
      BY LenProperties
    <2>2. Taken(p, k) \in Seq(Token)
      BY <2>1, PrefixBytes, ConcatProperties DEF Taken
    <2> QED
      BY <2>2 DEF Results
  <1>3. CASE s \in {[put |-> SubSeq(p, 1, k), result |-> "WOULD_BLOCK"] : k \in 1 .. Len(p) - 1}
    <2> PICK k \in 1 .. Len(p) - 1 : s = [put |-> SubSeq(p, 1, k), result |-> "WOULD_BLOCK"]
      BY <1>3
    <2>1. k \in 0 .. Len(p)
      BY LenProperties
    <2> QED
      BY <2>1, PrefixBytes DEF Results
  <1> QED
    BY <1>1, <1>2, <1>3 DEF SendCalls

(* A send in which gone bytes leave the ring. *)
Sent(b, o, gone) ==
    /\ o.buf = ReadPtr(b, gone)
    /\ o.out = SubSeq(Contents(b), 1, gone)
    /\ o.put \in Seq(Token)
    /\ o.result \in Results
    /\ b.reader = 0 => /\ gone \in {0, GetReadSize(b)}
                       /\ o.result = "SUCESS" => gone = GetReadSize(b)

(* Nothing, what lies before the end, or everything leaves the ring; from a   *)
(* ring whose data starts at the header, nothing or everything.              *)
LEMMA SendGone ==
    ASSUME Sized, NEW b \in Rings, NEW partial, NEW o \in Send(b, partial)
    PROVE  \E gone \in 0 .. GetReadSize(b) : Sent(b, o, gone)
  <1> DEFINE all == Contents(b)
             toTail == IF b.reader + Len(all) <= BufferLen THEN Len(all) ELSE BufferLen - b.reader
             first == SubSeq(all, 1, toTail)
             second == SubSeq(all, toTail + 1, Len(all))
             Outcome(put, gone, result) ==
                 [buf |-> ReadPtr(b, gone), put |-> put, out |-> SubSeq(all, 1, gone),
                  result |-> result]
  <1>1. /\ all \in Seq(Token) /\ Len(all) = GetReadSize(b)
        /\ Len(all) \in 0 .. BufferLen - 1 /\ b.reader \in 0 .. BufferLen - 1
    BY BytesInRing, RoomLeft DEF Rings, Places
  <1>2. toTail \in 0 .. Len(all) /\ (b.reader = 0 => toTail = Len(all))
    BY <1>1 DEF Sized
  <1>3. first \in Seq(Token) /\ second \in Seq(Token)
    <2>1. first \in Seq(Token)
      BY <1>1, <1>2, PrefixBytes
    <2>2. \A i \in toTail + 1 .. Len(all) : all[i] \in Token
      BY <1>1, <1>2, ElementOfSeq
    <2> HIDE DEF all, toTail
    <2> QED
      BY <1>1, <1>2, <2>1, <2>2, SubSeqProperties
  <1>4. toTail = Len(all) => second = <<>>
    <2> HIDE DEF all, toTail
    <2> QED
      BY <1>1
  <1>5. \/ o = Outcome(<<>>, 0, "SUCESS") /\ all = <<>>
        \/ \E s \in SendCalls(first, partial) :
              s.result # "SUCESS" /\ o = Outcome(s.put, 0, s.result)
        \/ \E s \in SendCalls(first, partial) :
              /\ s.result = "SUCESS" /\ o = Outcome(s.put, toTail, s.result)
        \/ second # <<>> /\ \E s \in SendCalls(first, partial), t \in SendCalls(second, partial) :
              o = Outcome(s.put \o t.put, IF t.result = "SUCESS" THEN Len(all) ELSE toTail,
                          t.result)
    <2> DEFINE Calls(q) == SendCalls(q, partial)
    <2>1. o \in IF all = <<>> THEN {Outcome(<<>>, 0, "SUCESS")}
               ELSE {Outcome(s.put, 0, s.result) : s \in {c \in Calls(first) : c.result # "SUCESS"}}
                    \cup
                    IF second = <<>>
                    THEN {Outcome(s.put, toTail, s.result) :
                            s \in {c \in Calls(first) : c.result = "SUCESS"}}
                    ELSE UNION {{Outcome(s.put \o t.put,
                                         IF t.result = "SUCESS" THEN Len(all) ELSE toTail,
                                         t.result) : t \in Calls(second)} :
                                s \in {c \in Calls(first) : c.result = "SUCESS"}}
      BY DEF Send
    <2> HIDE DEF first, second, toTail, all, Outcome, Calls
    <2>2. \/ o = Outcome(<<>>, 0, "SUCESS") /\ all = <<>>
          \/ \E s \in Calls(first) : s.result # "SUCESS" /\ o = Outcome(s.put, 0, s.result)
          \/ \E s \in Calls(first) : s.result = "SUCESS" /\ o = Outcome(s.put, toTail, s.result)
          \/ second # <<>> /\ \E s \in Calls(first), t \in Calls(second) :
                o = Outcome(s.put \o t.put, IF t.result = "SUCESS" THEN Len(all) ELSE toTail,
                            t.result)
      BY <2>1
    <2> QED
      BY <2>2 DEF Calls
  <1> HIDE DEF first, second, toTail, all
  <1>6. ASSUME NEW put \in Seq(Token), NEW gone \in 0 .. Len(all), NEW result \in Results,
               b.reader = 0 => /\ gone \in {0, Len(all)}
                               /\ result = "SUCESS" => gone = Len(all),
               o = Outcome(put, gone, result)
        PROVE  \E g \in 0 .. GetReadSize(b) : Sent(b, o, g)
    <2>1. Sent(b, o, gone)
      BY <1>1, <1>6 DEF Sent, all
    <2> QED
      BY <1>1, <2>1
  <1>7. CASE o = Outcome(<<>>, 0, "SUCESS") /\ all = <<>>
    <2>1. Len(all) = 0
      BY <1>7
    <2>2. <<>> \in Seq(Token) /\ 0 \in 0 .. Len(all) /\ "SUCESS" \in Results
      BY <2>1 DEF Results
    <2>3. o = Outcome(<<>>, 0, "SUCESS")
      BY <1>7
    <2> HIDE DEF Outcome
    <2> QED
      BY <1>6, <2>1, <2>2, <2>3
  <1>8. ASSUME NEW s \in SendCalls(first, partial), s.result # "SUCESS",
               o = Outcome(s.put, 0, s.result)
        PROVE  \E g \in 0 .. GetReadSize(b) : Sent(b, o, g)
    <2>1. s.put \in Seq(Token) /\ s.result \in Results
      BY <1>3, CallsBytes
    <2>2. 0 \in 0 .. Len(all) /\ 0 \in {0, Len(all)} /\ s.result # "SUCESS"
      BY <1>1, <1>8
    <2>3. o = Outcome(s.put, 0, s.result)
      BY <1>8
    <2> HIDE DEF Outcome
    <2> QED
      BY <1>6, <2>1, <2>2, <2>3
  <1>9. ASSUME NEW s \in SendCalls(first, partial), s.result = "SUCESS",
               o = Outcome(s.put, toTail, s.result)
        PROVE  \E g \in 0 .. GetReadSize(b) : Sent(b, o, g)
    <2>1. s.put \in Seq(Token) /\ s.result \in Results
      BY <1>3, CallsBytes
    <2> QED
      BY <1>1, <1>2, <1>6, <1>9, <2>1
  <1>10. ASSUME second # <<>>, NEW s \in SendCalls(first, partial),
                NEW t \in SendCalls(second, partial),
                o = Outcome(s.put \o t.put, IF t.result = "SUCESS" THEN Len(all) ELSE toTail,
                            t.result)
         PROVE  \E g \in 0 .. GetReadSize(b) : Sent(b, o, g)
    <2> DEFINE gone == IF t.result = "SUCESS" THEN Len(all) ELSE toTail
    <2>1. s.put \in Seq(Token) /\ t.put \in Seq(Token) /\ t.result \in Results
      BY <1>3, CallsBytes
    <2>2. s.put \o t.put \in Seq(Token)
      BY <2>1, ConcatProperties
    <2>3. b.reader # 0
      BY <1>2, <1>4, <1>10
    <2>4. gone \in 0 .. Len(all)
      BY <1>1, <1>2
    <2>5. o = Outcome(s.put \o t.put, gone, t.result)
      BY <1>10
    <2> HIDE DEF gone, Outcome
    <2> QED
      BY <1>6, <2>1, <2>2, <2>3, <2>4, <2>5
  <1> HIDE DEF Outcome
  <1> QED
    BY <1>5, <1>7, <1>8, <1>9, <1>10

(* After a send the ring has what did not leave it.                           *)
LEMMA SendTakes ==
    ASSUME Sized, NEW b \in Rings, NEW partial, NEW o \in Send(b, partial)
    PROVE  /\ o.buf \in Rings
           /\ o.put \in Seq(Token) /\ o.out \in Seq(Token)
           /\ o.result \in Results
           /\ Contents(b) = o.out \o Contents(o.buf)
           /\ b.reader = 0 => o.buf.reader = 0
           /\ b.reader = 0 /\ o.result = "SUCESS" => GetReadSize(o.buf) = 0
  <1> PICK gone \in 0 .. GetReadSize(b) : Sent(b, o, gone)
    BY SendGone
  <1>1. /\ o.buf \in Rings
        /\ Contents(o.buf) = SubSeq(Contents(b), gone + 1, Len(Contents(b)))
        /\ GetReadSize(o.buf) = GetReadSize(b) - gone
        /\ b.reader = 0 => o.buf.reader = 0
    BY ReadPtrTakes DEF Sent
  <1>2. Contents(b) \in Seq(Token) /\ Len(Contents(b)) = GetReadSize(b)
        /\ GetReadSize(b) \in Nat
    BY BytesInRing, RoomLeft
  <1>3. o.out \in Seq(Token)
    BY <1>2, PrefixBytes DEF Sent
  <1>4. Contents(b) = SubSeq(Contents(b), 1, gone) \o SubSeq(Contents(b), gone + 1, Len(Contents(b)))
    <2> DEFINE all == Contents(b)
    <2>1. all \in Seq(Token) /\ gone \in 0 .. Len(all)
      BY <1>2
    <2> HIDE DEF all
    <2>2. all = SubSeq(all, 1, gone) \o SubSeq(all, gone + 1, Len(all))
      <3>1. Len(all) \in Nat
        BY <2>1, LenProperties
      <3>2. /\ 1 \in 1 .. Len(all) + 1 /\ gone \in 1 - 1 .. Len(all)
            /\ Len(all) \in gone .. Len(all)
        BY <2>1, <3>1
      <3> QED
        BY <2>1, <3>2, ConcatAdjacentSubSeq, SubSeqFull
    <2> QED
      BY <2>2 DEF all
  <1>5. b.reader = 0 /\ o.result = "SUCESS" => GetReadSize(o.buf) = 0
    BY <1>1, <1>2 DEF Sent
  <1> QED
    BY <1>1, <1>3, <1>4, <1>5 DEF Sent

(* Recv takes no more than there is room for and appends it, unless it fills  *)
(* the ring exactly; it takes the connection for closed when nothing is there *)
(* to be read, or when it has room for one byte only.                         *)
LEMMA RecvAppends ==
    ASSUME Sized, NEW b \in Rings, NEW kernel \in Seq(Token), NEW eof,
           NEW r, r = Recv(b, kernel, eof)
    PROVE  /\ r.result = "SUCESS" =>
                /\ r.n \in 1 .. Len(kernel)
                /\ r.buf \in Rings
                /\ ~Wipes(b, r.n) => Contents(r.buf) = Contents(b) \o SubSeq(kernel, 1, r.n)
           /\ r.result = "CONNECTION_CLOSED" => kernel = <<>> \/ GetWriteSize(b) = 1
  <1> DEFINE n == IF Len(kernel) > GetWriteSize(b) THEN GetWriteSize(b) - 1 ELSE Len(kernel)
  <1>1. GetWriteSize(b) \in 1 .. BufferLen /\ BufferLen \in Nat /\ Len(kernel) \in Nat
    BY RoomLeft, LenProperties DEF Sized
  <1>2. n \in 0 .. Len(kernel) /\ n <= GetWriteSize(b)
    BY <1>1
  <1>3. n = 0 => Len(kernel) = 0 \/ GetWriteSize(b) = 1
    BY <1>1
  <1>4. r = IF kernel = <<>> \/ n = 0
            THEN [buf |-> b, n |-> 0, result |-> IF eof \/ kernel # <<>> THEN "CONNECTION_CLOSED"
                                                 ELSE "SOCKET_CORE_BUFFER_EMPTY"]
            ELSE [buf |-> Write(b, SubSeq(kernel, 1, n)), n |-> n, result |-> "SUCESS"]
    BY DEF Recv
  <1> HIDE DEF n
  <1>5. CASE kernel = <<>> \/ n = 0
    <2>1. r.result # "SUCESS"
      BY <1>4, <1>5
    <2> QED
      BY <1>3, <1>5, <2>1, EmptySeq
  <1>6. CASE ~(kernel = <<>> \/ n = 0)
    <2> DEFINE p == SubSeq(kernel, 1, n)
    <2>1. r.buf = Write(b, p) /\ r.n = n /\ r.result = "SUCESS"
      BY <1>4, <1>6
    <2>2. p \in Seq(Token) /\ Len(p) = n
      BY <1>2, PrefixBytes
    <2>3. n \in 1 .. Len(kernel)
      BY <1>2, <1>6
    <2>4. /\ Write(b, p) \in Rings
          /\ ~Wipes(b, Len(p)) => Contents(Write(b, p)) = Contents(b) \o p
      BY <1>2, <2>2, WriteAppends
    <2> HIDE DEF p
    <2>5. ~Wipes(b, r.n) => Contents(r.buf) = Contents(b) \o p
      BY <2>1, <2>2, <2>4
    <2> QED
      BY <2>1, <2>3, <2>4, <2>5 DEF p
  <1> QED
    BY <1>5, <1>6

-----------------------------------------------------------------------------
(* The packet being written. *)
Writers == [buf : Rings, ok : BOOLEAN, wiped : BOOLEAN, overrun : BOOLEAN]

(* What has been written of p into w, if every assertion held and no field    *)
(* filled the ring.                                                           *)
Wrote(w, v, p) ==
    /\ v \in Writers
    /\ v.ok => w.ok
    /\ w.wiped => v.wiped
    /\ v.ok /\ ~v.wiped => /\ Contents(v.buf) = Contents(w.buf) \o p
                           /\ GetWriteSize(v.buf) = GetWriteSize(w.buf) - Len(p)
    /\ w.ok /\ Len(p) <= GetWriteSize(w.buf) => v.ok \/ v.wiped
    /\ w.buf.reader = 0 => v.buf.reader = 0 /\ v.overrun = w.overrun

(* A packet that has just been begun. *)
LEMMA Begun ==
    ASSUME NEW b \in Rings
    PROVE  /\ Begin(b) \in Writers
           /\ Begin(b).buf = b /\ Begin(b).ok /\ ~Begin(b).wiped /\ ~Begin(b).overrun
  BY DEF Begin, Writers

(* A field is written whole or fails. *)
LEMMA PutField ==
    ASSUME Sized, NEW w \in Writers, NEW p \in Seq(Token)
    PROVE  /\ Wrote(w, Put(w, p), p)
           /\ Put(w, p).overrun = w.overrun
           /\ Put(w, p).ok <=> w.ok /\ Len(p) <= GetWriteSize(w.buf)
  <1> DEFINE v == Put(w, p)
             b == w.buf
             c == Write(b, p)
  <1>1. /\ b \in Rings /\ w.ok \in BOOLEAN /\ w.wiped \in BOOLEAN /\ w.overrun \in BOOLEAN
        /\ GetWriteSize(b) \in Nat /\ Len(p) \in Nat
    BY RoomLeft, LenProperties DEF Writers, Sized
  <1>2. CASE ~w.ok \/ Len(p) > GetWriteSize(b)
    <2>1. v = [w EXCEPT !.ok = FALSE]
      BY <1>2 DEF Put
    <2>2. v \in Writers /\ v.buf = b /\ v.ok = FALSE /\ v.wiped = w.wiped /\ v.overrun = w.overrun
      BY <2>1 DEF Writers
    <2> HIDE DEF v
    <2>3. ~(w.ok /\ Len(p) <= GetWriteSize(b))
      BY <1>1, <1>2
    <2> QED
      BY <2>2, <2>3 DEF Wrote, v
  <1>3. CASE w.ok /\ Len(p) <= GetWriteSize(b)
    <2>1. v = [w EXCEPT !.buf = c, !.wiped = w.wiped \/ Wipes(b, Len(p))]
      BY <1>1, <1>3 DEF Put
    <2>2. /\ c \in Rings
          /\ ~Wipes(b, Len(p)) => Contents(c) = Contents(b) \o p
          /\ b.reader = 0 => c.reader = 0
      BY <1>1, <1>3, WriteAppends
    <2>3. Wipes(b, Len(p)) \in BOOLEAN
      BY DEF Wipes
    <2> HIDE DEF c
    <2>4. /\ v \in Writers /\ v.buf = c /\ v.ok /\ v.wiped = (w.wiped \/ Wipes(b, Len(p)))
          /\ v.overrun = w.overrun
      BY <1>1, <1>3, <2>1, <2>2, <2>3 DEF Writers
    <2>5. ~v.wiped => GetWriteSize(c) = GetWriteSize(b) - Len(p)
      <3> SUFFICES ASSUME ~v.wiped
                   PROVE  GetWriteSize(c) = GetWriteSize(b) - Len(p)
        OBVIOUS
      <3>1. Contents(c) = Contents(b) \o p
        BY <2>2, <2>4
      <3>2. /\ Contents(b) \in Seq(Token) /\ Len(Contents(b)) = GetReadSize(b)
            /\ Len(Contents(c)) = GetReadSize(c)
        BY <1>1, <2>2, BytesInRing
      <3>3. Len(Contents(b) \o p) = GetReadSize(b) + Len(p)
        BY <3>2, ConcatProperties
      <3>4. GetReadSize(c) = GetReadSize(b) + Len(p)
        BY <3>1, <3>2, <3>3
      <3>5. /\ GetReadSize(b) + GetWriteSize(b) = BufferLen
            /\ GetReadSize(c) + GetWriteSize(c) = BufferLen
            /\ GetReadSize(b) \in Int /\ GetWriteSize(b) \in Int /\ GetWriteSize(c) \in Int
        BY <1>1, <2>2, RoomLeft
      <3> QED
        BY <1>1, <3>4, <3>5
    <2> HIDE DEF v
    <2> QED
      BY <1>3, <2>2, <2>4, <2>5 DEF Wrote, v
  <1> QED
    BY <1>1, <1>2, <1>3

(* The parts of a packet are the packet. *)
LEMMA PacketParts ==
    ASSUME Sized, NEW p \in Seq(Token), Len(p) >= HeadLen
    PROVE  /\ SubSeq(p, 1, HeadLen) \in Seq(Token) /\ Len(SubSeq(p, 1, HeadLen)) = HeadLen
           /\ SubSeq(p, HeadLen + 1, Len(p)) \in Seq(Token)
           /\ Len(SubSeq(p, HeadLen + 1, Len(p))) = Len(p) - HeadLen
           /\ p = SubSeq(p, 1, HeadLen) \o SubSeq(p, HeadLen + 1, Len(p))
  <1>1. HeadLen \in 0 .. Len(p) /\ Len(p) \in Nat
    BY LenProperties DEF Sized
  <1>2. \A i \in HeadLen + 1 .. Len(p) : p[i] \in Token
    BY <1>1, ElementOfSeq
  <1>3. /\ SubSeq(p, HeadLen + 1, Len(p)) \in Seq(Token)
        /\ Len(SubSeq(p, HeadLen + 1, Len(p))) = Len(p) - HeadLen
    BY <1>1, <1>2, SubSeqProperties
  <1>4. p = SubSeq(p, 1, HeadLen) \o SubSeq(p, HeadLen + 1, Len(p))
    <2>1. 1 \in 1 .. Len(p) + 1 /\ HeadLen \in 1 - 1 .. Len(p) /\ Len(p) \in HeadLen .. Len(p)
      BY <1>1
    <2> QED
      BY <2>1, ConcatAdjacentSubSeq, SubSeqFull
  <1> QED
    BY <1>1, <1>3, <1>4, PrefixBytes

(* A packet is written whole or fails; when the data starts at the header, its *)
(* head never goes past the end.                                              *)
LEMMA PutWholePacket ==
    ASSUME Sized, NEW w \in Writers, NEW p \in Seq(Token), Len(p) >= HeadLen
    PROVE  Wrote(w, PutPacket(w, p), p)
  <1> DEFINE head == SubSeq(p, 1, HeadLen)
             body == SubSeq(p, HeadLen + 1, Len(p))
             x == Put(w, head)
             past == x.ok /\ w.buf.writer + HeadLen > BufferLen
             y == [x EXCEPT !.overrun = x.overrun \/ past]
             v == Put(y, body)
  <1>1. v = PutPacket(w, p)
    BY DEF PutPacket
  <1>2. /\ head \in Seq(Token) /\ Len(head) = HeadLen
        /\ body \in Seq(Token) /\ Len(body) = Len(p) - HeadLen
        /\ p = head \o body
    BY PacketParts
  <1> HIDE DEF head, body
  <1>3. Wrote(w, x, head) /\ x.overrun = w.overrun
        /\ (x.ok <=> w.ok /\ HeadLen <= GetWriteSize(w.buf))
    BY <1>2, PutField
  <1> HIDE DEF x
  <1>4. past \in BOOLEAN
    BY <1>3 DEF Wrote, Writers
  <1>5. w.buf.reader = 0 => ~past
    <2> SUFFICES ASSUME w.buf.reader = 0, past
                 PROVE  FALSE
      OBVIOUS
    <2>1. HeadLen <= GetWriteSize(w.buf) /\ w.buf \in Rings
      BY <1>3 DEF Writers
    <2>2. w.buf.writer \in 0 .. BufferLen - 1
      BY <2>1 DEF Rings, Places
    <2>3. GetWriteSize(w.buf) = BufferLen - w.buf.writer
      BY <2>2 DEF GetWriteSize, Ring!GetWriteSize, Sized
    <2> QED
      BY <2>1, <2>2, <2>3 DEF Sized
  <1> HIDE DEF past
  <1>6. /\ y \in Writers /\ y.buf = x.buf /\ y.ok = x.ok /\ y.wiped = x.wiped
        /\ y.overrun = (x.overrun \/ past)
    BY <1>3, <1>4 DEF Wrote, Writers
  <1> HIDE DEF y
  <1>7. Wrote(y, v, body)
    BY <1>2, <1>6, PutField
  <1> HIDE DEF v
  <1>8. w.buf \in Rings /\ x.buf \in Rings /\ x \in Writers
    BY <1>3 DEF Wrote, Writers
  <1>9. /\ Len(p) \in Nat /\ HeadLen \in Nat
        /\ GetWriteSize(w.buf) \in Nat /\ GetWriteSize(x.buf) \in Nat
        /\ Contents(w.buf) \in Seq(Token)
    BY <1>8, RoomLeft, LenProperties, BytesInRing DEF Sized
  <1>10. v.ok /\ ~v.wiped => /\ Contents(v.buf) = Contents(w.buf) \o p
                             /\ GetWriteSize(v.buf) = GetWriteSize(w.buf) - Len(p)
    <2> SUFFICES ASSUME v.ok, ~v.wiped
                 PROVE  /\ Contents(v.buf) = Contents(w.buf) \o p
                        /\ GetWriteSize(v.buf) = GetWriteSize(w.buf) - Len(p)
      OBVIOUS
    <2>1. x.ok /\ ~x.wiped
      BY <1>6, <1>7, <1>8 DEF Wrote, Writers
    <2>2. /\ Contents(v.buf) = Contents(x.buf) \o body
          /\ GetWriteSize(v.buf) = GetWriteSize(x.buf) - Len(body)
          /\ Contents(x.buf) = Contents(w.buf) \o head
          /\ GetWriteSize(x.buf) = GetWriteSize(w.buf) - Len(head)
      BY <1>3, <1>6, <1>7, <2>1 DEF Wrote
    <2>3. (Contents(w.buf) \o head) \o body = Contents(w.buf) \o (head \o body)
      <3> DEFINE a == Contents(w.buf)
      <3>1. a \in Seq(Token) /\ head \in Seq(Token) /\ body \in Seq(Token)
        BY <1>2, <1>9
      <3> HIDE DEF a
      <3>2. (a \o head) \o body = a \o (head \o body)
        BY <3>1, ConcatAssociative
      <3> QED
        BY <3>2 DEF a
    <2>4. GetWriteSize(v.buf) = GetWriteSize(w.buf) - Len(p)
      BY <1>2, <1>9, <2>2, SMTT(30)
    <2> QED
      BY <1>2, <2>2, <2>3, <2>4
  <1>11. w.ok /\ Len(p) <= GetWriteSize(w.buf) => v.ok \/ v.wiped
    <2> SUFFICES ASSUME w.ok, Len(p) <= GetWriteSize(w.buf), ~v.wiped
                 PROVE  v.ok
      BY <1>7 DEF Wrote, Writers
    <2>1. ~x.wiped
      BY <1>6, <1>7, <1>8 DEF Wrote, Writers
    <2>2. x.ok
      BY <1>3, <1>9
    <2>3. Len(body) <= GetWriteSize(x.buf)
      BY <1>2, <1>3, <1>9, <2>1, <2>2 DEF Wrote
    <2> QED
      BY <1>6, <1>7, <2>2, <2>3 DEF Wrote
  <1>12. w.buf.reader = 0 => v.buf.reader = 0 /\ v.overrun = w.overrun
    BY <1>3, <1>4, <1>5, <1>6, <1>7, <1>8 DEF Wrote, Writers
  <1>13. /\ v \in Writers
         /\ v.ok => w.ok
         /\ w.wiped => v.wiped
    BY <1>3, <1>6, <1>7 DEF Wrote
  <1> QED
    BY <1>1, <1>10, <1>11, <1>12, <1>13 DEF Wrote

(* One part after another is both of them. *)
LEMMA WroteBoth ==
    ASSUME Sized, NEW w \in Writers, NEW x, NEW y, NEW p \in Seq(Token), NEW q \in Seq(Token),
           Wrote(w, x, p), Wrote(x, y, q)
    PROVE  Wrote(w, y, p \o q)
  <1> DEFINE b == w.buf
             c == x.buf
             d == y.buf
  <1>1. x \in Writers /\ y \in Writers
    BY DEF Wrote
  <1>2. b \in Rings /\ c \in Rings /\ d \in Rings
    BY <1>1 DEF Writers
  <1>3. GetWriteSize(b) \in Nat /\ GetWriteSize(c) \in Nat /\ GetWriteSize(d) \in Nat
    <2> HIDE DEF b, c, d
    <2>1. BufferLen \in Nat \ {0}
      BY DEF Sized
    <2>2. GetWriteSize(b) \in Nat
      BY <1>2, <2>1, RoomLeft
    <2>3. GetWriteSize(c) \in Nat
      BY <1>2, <2>1, RoomLeft
    <2>4. GetWriteSize(d) \in Nat
      BY <1>2, <2>1, RoomLeft
    <2> QED
      BY <2>2, <2>3, <2>4
  <1>4. Len(p) \in Nat /\ Len(q) \in Nat /\ Len(p \o q) = Len(p) + Len(q)
    BY LenProperties, ConcatProperties
  <1>5. /\ y.ok => x.ok
        /\ x.ok => w.ok
        /\ w.wiped => x.wiped
        /\ x.wiped => y.wiped
    BY DEF Wrote
  <1>6. /\ x.ok /\ ~x.wiped => /\ Contents(c) = Contents(b) \o p
                               /\ GetWriteSize(c) = GetWriteSize(b) - Len(p)
        /\ y.ok /\ ~y.wiped => /\ Contents(d) = Contents(c) \o q
                               /\ GetWriteSize(d) = GetWriteSize(c) - Len(q)
        /\ w.ok /\ Len(p) <= GetWriteSize(b) => x.ok \/ x.wiped
        /\ x.ok /\ Len(q) <= GetWriteSize(c) => y.ok \/ y.wiped
        /\ b.reader = 0 => c.reader = 0 /\ x.overrun = w.overrun
        /\ c.reader = 0 => d.reader = 0 /\ y.overrun = x.overrun
    BY DEF Wrote
  <1> HIDE DEF b, c, d
  <1>7. ASSUME y.ok, ~y.wiped
        PROVE  Contents(d) = Contents(b) \o (p \o q)
    <2> DEFINE s == Contents(b)
    <2>1. s \in Seq(Token)
      BY <1>2, BytesInRing
    <2> HIDE DEF s
    <2>2. (s \o p) \o q = s \o (p \o q)
      BY <2>1, ConcatAssociative
    <2> QED
      BY <1>5, <1>6, <1>7, <2>2 DEF s
  <1>8. y.ok /\ ~y.wiped => GetWriteSize(d) = GetWriteSize(b) - Len(p \o q)
    BY <1>3, <1>4, <1>5, <1>6
  <1>9. w.ok /\ Len(p \o q) <= GetWriteSize(b) => y.ok \/ y.wiped
    BY <1>3, <1>4, <1>5, <1>6
  <1>10. b.reader = 0 => d.reader = 0 /\ y.overrun = w.overrun
    BY <1>6
  <1> QED
    BY <1>1, <1>5, <1>7, <1>8, <1>9, <1>10 DEF Wrote, b, d

=============================================================================
