------------------------------ MODULE ByteFifo ------------------------------
(***************************************************************************)
(* What a byte buffer between a producer and a consumer promises: a queue  *)
(* of at most Capacity bytes.  A write appends all of its bytes or none, a *)
(* read takes a prefix or nothing, and nothing else loses a byte.          *)
(*                                                                         *)
(* GYCycleBuffer is shown to implement this specification.                 *)
(***************************************************************************)
EXTENDS Integers, Sequences

CONSTANTS
    Byte,       \* the values a byte can have
    Capacity    \* how many bytes the queue can hold

VARIABLES
    queue,      \* the bytes written and not read yet, oldest first
    err,        \* the result of the last call: 0, or -1 when it was refused
    given,      \* the bytes the last call was asked to write
    out         \* the bytes the last read returned

vars == <<queue, err, given, out>>

Init ==
    /\ queue = <<>>
    /\ err = 0
    /\ given = <<>>
    /\ out = <<>>

(* A write of the bytes p that fit. *)
Put(p) ==
    /\ Len(queue) + Len(p) <= Capacity
    /\ queue' = queue \o p
    /\ err' = 0
    /\ given' = p
    /\ out' = <<>>

(* A read of n bytes, when there are that many. *)
Get(n) ==
    /\ n <= Len(queue)
    /\ queue' = SubSeq(queue, n + 1, Len(queue))
    /\ err' = 0
    /\ given' = <<>>
    /\ out' = SubSeq(queue, 1, n)

(* A write that is too long. *)
RefusePut ==
    /\ given' \in Seq(Byte)
    /\ Len(queue) + Len(given') > Capacity
    /\ err' = -1
    /\ out' = <<>>
    /\ UNCHANGED queue

(* A read of more than there is. *)
RefuseGet ==
    /\ err' = -1
    /\ given' = <<>>
    /\ out' = <<>>
    /\ UNCHANGED queue

(* The owner drops what is buffered: the socket is closed. *)
Clear ==
    /\ queue' = <<>>
    /\ err' = 0
    /\ given' = <<>>
    /\ out' = <<>>

Next ==
    \/ \E n \in 0 .. Capacity : \E p \in [1 .. n -> Byte] : Put(p)
    \/ \E n \in 0 .. Capacity : Get(n)
    \/ RefusePut
    \/ RefuseGet
    \/ Clear

Spec == Init /\ [][Next]_vars

=============================================================================
