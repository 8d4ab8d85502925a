---------------------------- MODULE GYCycleBuffer ----------------------------
(***************************************************************************)
(* The byte ring that every connection of both servers reads from and      *)
(* writes to (CommonDefine/GYCycleBuffer.h).  The pointers m_pReader and   *)
(* m_pWriter are offsets from m_pHeader.  There is no fill count: equal    *)
(* pointers mean "empty", and both are moved back to the header whenever   *)
(* they meet.                                                              *)
(*                                                                         *)
(* The operators work on a buffer record, so that the socket's model can   *)
(* use them on its input and on its output buffer; the state machine below *)
(* is one buffer and the calls made on it.                                 *)
(***************************************************************************)
EXTENDS Integers, Sequences

CONSTANTS
    MAX_BUFFER_LEN, \* the template parameter: bytes in m_pBuffer
    Byte,           \* the values a byte can have
    MaxLen,         \* bound: the longest write or read that is tried
    ExactFill       \* TRUE: callers may write exactly GetWriteSize() bytes

ASSUME BufferAssumption ==
    /\ MAX_BUFFER_LEN \in Nat \ {0}
    /\ MaxLen \in Nat
    /\ ExactFill \in BOOLEAN

Offset == 0 .. MAX_BUFFER_LEN - 1

Buffers == [cells : [Offset -> Byte], reader : Offset, writer : Offset]

GetWriteSize(b) ==
    IF b.writer >= b.reader THEN MAX_BUFFER_LEN - (b.writer - b.reader)
                            ELSE b.reader - b.writer

GetReadSize(b) ==
    IF b.reader > b.writer THEN MAX_BUFFER_LEN - (b.reader - b.writer)
                           ELSE b.writer - b.reader

(* Mutant of Wrap: > for >=, a pointer left standing on the tail.          *)
WrapPastTail(i) == IF i > MAX_BUFFER_LEN THEN i - MAX_BUFFER_LEN ELSE i

(* header + (n - (tail - pointer)) once pointer + n reaches the tail. *)
Wrap(i) == IF i >= MAX_BUFFER_LEN THEN i - MAX_BUFFER_LEN ELSE i

(* Both pointers go back to m_pHeader when they meet. *)
ResetIfEqual(b) ==
    IF b.writer = b.reader THEN [b EXCEPT !.writer = 0, !.reader = 0] ELSE b

MoveWriter(b, n) == ResetIfEqual([b EXCEPT !.writer = Wrap(b.writer + n)])

(* Mutant of MoveReader: the pointers are not sent back to the header.      *)
MoveReaderNoReset(b, n) == [b EXCEPT !.reader = Wrap(b.reader + n)]

MoveReader(b, n) == ResetIfEqual([b EXCEPT !.reader = Wrap(b.reader + n)])

(* How far past the writer the cell c lies, going round the ring. *)
Distance(b, c) ==
    IF c >= b.writer THEN c - b.writer ELSE c + MAX_BUFFER_LEN - b.writer

(* Mutant of Store: the second memcpy starts again at p, not at p + plen.   *)
StoreRestarts(b, p) ==
    [b EXCEPT !.cells =
        [c \in Offset |-> IF Distance(b, c) >= Len(p) THEN b.cells[c]
                          ELSE IF c >= b.writer THEN p[Distance(b, c) + 1]
                                                ELSE p[c + 1]]]

(* The one or two memcpy calls of Write. *)
Store(b, p) ==
    [b EXCEPT !.cells =
        [c \in Offset |-> IF Distance(b, c) < Len(p) THEN p[Distance(b, c) + 1]
                                                     ELSE b.cells[c]]]

(* The first n unread bytes: the one or two memcpy calls of Read. *)
Load(b, n) == [i \in 1 .. n |-> b.cells[Wrap(b.reader + i - 1)]]

Contents(b) == Load(b, GetReadSize(b))

Emptied(b) == [b EXCEPT !.writer = 0, !.reader = 0]
-----------------------------------------------------------------------------
VARIABLES
    buf,    \* the buffer
    err,    \* the result of the last call: 0 or INVALID_VALUE
    given,  \* the bytes the last call was asked to write
    out     \* the bytes the last Read copied out

vars == <<buf, err, given, out>>

INVALID_VALUE == -1

(* m_pBuffer is not initialized: any bytes can be in it. *)
Init ==
    /\ buf \in [cells : [Offset -> Byte], reader : {0}, writer : {0}]
    /\ err = 0
    /\ given = <<>>
    /\ out = <<>>

(* Write(p, nLen), and what Recv does: fill at WritePtr(), then WritePtr(n). *)
Write(p) ==
    /\ Len(p) <= GetWriteSize(buf)
    /\ ExactFill \/ Len(p) # GetWriteSize(buf)
    /\ buf' = MoveWriter(Store(buf, p), Len(p))
    /\ err' = 0
    /\ given' = p
    /\ out' = <<>>

WriteRefused(p) ==
    /\ Len(p) > GetWriteSize(buf)
    /\ err' = INVALID_VALUE
    /\ given' = p
    /\ out' = <<>>
    /\ UNCHANGED buf

(* Read(p, len); ReadPtr(n) is the same step with the bytes thrown away. *)
Read(n) ==
    /\ n <= GetReadSize(buf)
    /\ buf' = MoveReader(buf, n)
    /\ err' = 0
    /\ given' = <<>>
    /\ out' = Load(buf, n)

ReadRefused(n) ==
    /\ n > GetReadSize(buf)
    /\ err' = INVALID_VALUE
    /\ given' = <<>>
    /\ out' = <<>>
    /\ UNCHANGED buf

CleanUp ==
    /\ buf' = Emptied(buf)
    /\ err' = 0
    /\ given' = <<>>
    /\ out' = <<>>

(* The arguments that are tried: lengths 0..MaxLen. *)
Chunk == UNION {[1 .. n -> Byte] : n \in 0 .. MaxLen}

Next ==
    \/ \E p \in Chunk : Write(p)
    \/ \E p \in Chunk : WriteRefused(p)
    \/ \E n \in 0 .. MaxLen : Read(n)
    \/ \E n \in 0 .. MaxLen : ReadRefused(n)
    \/ CleanUp

Spec == Init /\ [][Next]_vars
-----------------------------------------------------------------------------
(* The pointers stay inside the array (m_pTail is never stored in either), *)
(* and a read never returns anything but bytes.                            *)
TypeOK ==
    /\ buf \in Buffers
    /\ err \in {0, INVALID_VALUE}
    /\ given \in Seq(Byte)
    /\ out \in Seq(Byte)

(* Whenever the ring is empty its pointers are back at the header, so that  *)
(* the next record starts at offset 0: PacketHead and GUID are read by      *)
(* casting the bytes at ReadPtr() in place.                                 *)
EmptyAtHeader == buf.reader = buf.writer => buf.reader = 0

(* The ring behaves as a queue of MAX_BUFFER_LEN - 1 bytes for callers that *)
(* never fill it exactly: no byte is lost, duplicated, changed or           *)
(* reordered, across any number of wraps (Write, WritePtr, Read, ReadPtr).  *)
Fifo == INSTANCE ByteFifo WITH queue <- Contents(buf), Capacity <- MAX_BUFFER_LEN - 1

ImplementsFifo == Fifo!Spec

(* What SendDataToServer and the serializer assert of Write: one that       *)
(* returns 0 has put its bytes behind those already buffered.               *)
WriteKeepsData ==
    [][\A p \in Chunk :
        Write(p) => Len(Contents(buf')) = Len(Contents(buf)) + Len(p)]_vars

=============================================================================
