------------------------ MODULE GYBufferStreamSocket ------------------------
(***************************************************************************)
(* A socket with a byte ring for each direction (GYBufferStreamSocket.h),  *)
(* and the serializer that packets are written and read with               *)
(* (GYStreamSerialization.h), as operators on ring records.  A byte is a    *)
(* token <<source, packet, position>>: what it means, not its value.        *)
(*                                                                          *)
(* An instance of this module is one direction of one socket: the template   *)
(* takes the lengths of the two rings separately.                            *)
(***************************************************************************)
EXTENDS Integers, Sequences

CONSTANTS
    BufferLen,  \* input_buffer_len or output_buffer_len
    HeadLen,    \* PacektHeadLen: the bytes of id, length and flags
    Junk        \* the token of a byte behind m_pBuffer, or of no use any more

Ring == INSTANCE GYCycleBuffer
    WITH MAX_BUFFER_LEN <- BufferLen, Byte <- {}, MaxLen <- 0, ExactFill <- TRUE,
         buf <- <<>>, err <- 0, given <- <<>>, out <- <<>>

NewRing == [cells |-> [c \in Ring!Offset |-> Junk], reader |-> 0, writer |-> 0]

GetReadSize(b) == Ring!GetReadSize(b)
GetWriteSize(b) == Ring!GetWriteSize(b)
Contents(b) == Ring!Contents(b)

(* The cells that hold nothing are made equal: no code looks at them.       *)
Scrub(b) ==
    [b EXCEPT !.cells =
        [c \in Ring!Offset |->
            IF (c - b.reader) % BufferLen < GetReadSize(b) THEN b.cells[c] ELSE Junk]]

ReadPtr(b, n) == Scrub(Ring!MoveReader(b, n))

(* Write(p): the caller has seen to it that p fits. *)
Write(b, p) == Scrub(Ring!MoveWriter(Ring!Store(b, p), Len(p)))

(* A write of exactly the free space: the ring takes itself for empty.      *)
Wipes(b, n) == n = GetWriteSize(b)

(* n bytes read by a cast of ReadPtr() + off: behind the tail lies the       *)
(* member m_pReader, whose bytes mean nothing.                               *)
InPlace(b, off, n) ==
    [i \in 1 .. n |-> LET c == b.reader + off + i - 1
                      IN  IF c < BufferLen THEN b.cells[c] ELSE Junk]
-----------------------------------------------------------------------------
(* send() takes k bytes first and the rest in a second call, for which _Send *)
(* shortens len but does not advance p.                                      *)
Taken(p, k) == SubSeq(p, 1, k) \o SubSeq(p, 1, Len(p) - k)

(* _Send(p, len): the bytes the kernel took, and the result.  Bound: the     *)
(* kernel takes the bytes in at most two calls.  partial: it may take less   *)
(* than it is given, or find the connection closed.                          *)
SendCalls(p, partial) ==
    {[put |-> p, result |-> "SUCESS"], [put |-> <<>>, result |-> "WOULD_BLOCK"]}
    \cup IF ~partial THEN {} ELSE
         {[put |-> Taken(p, k), result |-> "SUCESS"] : k \in 1 .. Len(p) - 1}
         \cup {[put |-> SubSeq(p, 1, k), result |-> "WOULD_BLOCK"] : k \in 1 .. Len(p) - 1}
         \cup {[put |-> <<>>, result |-> "CONNECTION_CLOSED"]}

(* Mutant of Send: nothing is sent before the ring is nearly full.            *)
SendLater(b, partial) ==
    IF GetWriteSize(b) > 1
    THEN {[buf |-> b, put |-> <<>>, out |-> <<>>, result |-> "SUCESS"]}
    ELSE {[buf |-> ReadPtr(b, GetReadSize(b)), put |-> Contents(b), out |-> Contents(b),
           result |-> "SUCESS"]}

(* Send(): the ring afterwards, the bytes the kernel took, the bytes that    *)
(* left the ring, and the result.  Data that wraps is sent in two parts.     *)
Send(b, partial) ==
    LET all == Contents(b)
        toTail == IF b.reader + Len(all) <= BufferLen THEN Len(all) ELSE BufferLen - b.reader
        first == SubSeq(all, 1, toTail)
        second == SubSeq(all, toTail + 1, Len(all))
        Outcome(put, gone, result) ==
            [buf |-> ReadPtr(b, gone), put |-> put, out |-> SubSeq(all, 1, gone),
             result |-> result]
    IN  IF all = <<>> THEN {Outcome(<<>>, 0, "SUCESS")}
        ELSE {Outcome(s.put, 0, s.result) :
                s \in {c \in SendCalls(first, partial) : c.result # "SUCESS"}}
             \cup
             IF second = <<>>
             THEN {Outcome(s.put, toTail, s.result) :
                    s \in {c \in SendCalls(first, partial) : c.result = "SUCESS"}}
             ELSE UNION {{Outcome(s.put \o t.put,
                                  IF t.result = "SUCESS" THEN Len(all) ELSE toTail, t.result) :
                            t \in SendCalls(second, partial)} :
                         s \in {c \in SendCalls(first, partial) : c.result = "SUCESS"}}

(* Recv() with the bytes kernel in the kernel, the connection not closed by  *)
(* the peer unless eof.  Reading nothing into a ring with room for one byte  *)
(* is taken for the end of the connection.                                   *)
Recv(b, kernel, eof) ==
    LET n == IF Len(kernel) > GetWriteSize(b) THEN GetWriteSize(b) - 1 ELSE Len(kernel)
    IN  IF kernel = <<>> \/ n = 0
        THEN [buf |-> b, n |-> 0, result |-> IF eof \/ kernel # <<>> THEN "CONNECTION_CLOSED"
                                             ELSE "SOCKET_CORE_BUFFER_EMPTY"]
        ELSE [buf |-> Write(b, SubSeq(kernel, 1, n)), n |-> n, result |-> "SUCESS"]
-----------------------------------------------------------------------------
(* A packet being written: the ring, whether every assertion held, whether a *)
(* field filled the ring exactly, and whether the head went past the tail.    *)
Begin(b) == [buf |-> b, ok |-> TRUE, wiped |-> FALSE, overrun |-> FALSE]

(* operator<< of a field in WRITE mode: GYAssert(0 == Write(...)).           *)
Put(w, p) ==
    IF ~w.ok \/ Len(p) > GetWriteSize(w.buf) THEN [w EXCEPT !.ok = FALSE]
    ELSE [w EXCEPT !.buf = Write(w.buf, p),
                   !.wiped = @ \/ Wipes(w.buf, Len(p))]

(* Mutant of PutPacket: WritePtr() is asked for when the body has been written. *)
PutPacketHeadLast(w, p) ==
    Put(Put(w, SubSeq(p, HeadLen + 1, Len(p))), SubSeq(p, 1, HeadLen))

(* operator<< of a packet: the head is reserved at WritePtr() and filled in   *)
(* through that pointer.                                                      *)
PutPacket(w, p) ==
    LET head == Put(w, SubSeq(p, 1, HeadLen))
        past == head.ok /\ w.buf.writer + HeadLen > BufferLen
    IN  Put([head EXCEPT !.overrun = @ \/ past], SubSeq(p, HeadLen + 1, Len(p)))

=============================================================================
