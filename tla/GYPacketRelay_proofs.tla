------------------------- MODULE GYPacketRelay_proofs -------------------------
(***************************************************************************)
(* What the gateway does to the bytes it relays, for any packets, any        *)
(* lengths of heads, GUIDs and bodies, and rings of any length.              *)
(***************************************************************************)
EXTENDS GYPacketRelay, SequenceTheorems, TLAPS

CI == INSTANCE GYBufferStreamSocket_proofs WITH BufferLen <- ClientIn, Token <- Tokens
CO == INSTANCE GYBufferStreamSocket_proofs WITH BufferLen <- ClientOut, Token <- Tokens
LI == INSTANCE GYBufferStreamSocket_proofs WITH BufferLen <- LogicIn, Token <- Tokens
LO == INSTANCE GYBufferStreamSocket_proofs WITH BufferLen <- LogicOut, Token <- Tokens
LP == INSTANCE GYList_proofs WITH NULL <- 0

-----------------------------------------------------------------------------
(* The ring from the client is that of the lemmas about rings. *)
LEMMA SameClientIn ==
    /\ CIn!NewRing = CI!NewRing
    /\ \A b : CIn!GetReadSize(b) = CI!GetReadSize(b)
    /\ \A b : CIn!GetWriteSize(b) = CI!GetWriteSize(b)
    /\ \A b : CIn!Contents(b) = CI!Contents(b)
    /\ \A b, n : CIn!ReadPtr(b, n) = CI!ReadPtr(b, n)
    /\ \A b, off, n : CIn!InPlace(b, off, n) = CI!InPlace(b, off, n)
    /\ \A b, n : CIn!Wipes(b, n) = CI!Wipes(b, n)
    /\ \A b, kernel, eof : CIn!Recv(b, kernel, eof) = CI!Recv(b, kernel, eof)
  <1>1. CIn!NewRing = CI!NewRing
    BY DEF CIn!NewRing, CI!NewRing, CIn!Ring!Offset, CI!Ring!Offset
  <1>2. \A b : CIn!GetReadSize(b) = CI!GetReadSize(b)
    BY DEF CIn!GetReadSize, CI!GetReadSize, CIn!Ring!GetReadSize, CI!Ring!GetReadSize
  <1>3. \A b : CIn!GetWriteSize(b) = CI!GetWriteSize(b)
    BY DEF CIn!GetWriteSize, CI!GetWriteSize, CIn!Ring!GetWriteSize, CI!Ring!GetWriteSize
  <1>4. \A b : CIn!Contents(b) = CI!Contents(b)
    BY DEF CIn!Contents, CI!Contents, CIn!Ring!Contents, CI!Ring!Contents,
           CIn!Ring!Load, CI!Ring!Load, CIn!Ring!Wrap, CI!Ring!Wrap,
           CIn!Ring!GetReadSize, CI!Ring!GetReadSize
  <1>5. \A b, n : CIn!ReadPtr(b, n) = CI!ReadPtr(b, n)
    BY DEF CIn!ReadPtr, CI!ReadPtr, CIn!Scrub, CI!Scrub, CIn!Ring!MoveReader, CI!Ring!MoveReader,
           CIn!Ring!ResetIfEqual, CI!Ring!ResetIfEqual, CIn!Ring!Wrap, CI!Ring!Wrap,
           CIn!Ring!Offset, CI!Ring!Offset, CIn!GetReadSize, CI!GetReadSize,
           CIn!Ring!GetReadSize, CI!Ring!GetReadSize
  <1>6. \A b, off, n : CIn!InPlace(b, off, n) = CI!InPlace(b, off, n)
    BY DEF CIn!InPlace, CI!InPlace
  <1>7. \A b, n : CIn!Wipes(b, n) = CI!Wipes(b, n)
    BY <1>3 DEF CIn!Wipes, CI!Wipes
  <1>8. \A b, kernel, eof : CIn!Recv(b, kernel, eof) = CI!Recv(b, kernel, eof)
    <2>1. \A b, p : CIn!Write(b, p) = CI!Write(b, p)
      <3>1. \A b, p : CIn!Ring!Store(b, p) = CI!Ring!Store(b, p)
        BY DEF CIn!Ring!Store, CI!Ring!Store, CIn!Ring!Distance, CI!Ring!Distance,
               CIn!Ring!Offset, CI!Ring!Offset
      <3>2. \A b, n : CIn!Ring!MoveWriter(b, n) = CI!Ring!MoveWriter(b, n)
        BY DEF CIn!Ring!MoveWriter, CI!Ring!MoveWriter, CIn!Ring!ResetIfEqual, CI!Ring!ResetIfEqual,
               CIn!Ring!Wrap, CI!Ring!Wrap
      <3>3. \A b : CIn!Scrub(b) = CI!Scrub(b)
        BY <1>2 DEF CIn!Scrub, CI!Scrub, CIn!Ring!Offset, CI!Ring!Offset
      <3> QED
        BY <3>1, <3>2, <3>3 DEF CIn!Write, CI!Write
    <2> QED
      BY <1>3, <2>1 DEF CIn!Recv, CI!Recv
  <1> QED
    BY <1>1, <1>2, <1>3, <1>4, <1>5, <1>6, <1>7, <1>8

(* The ring to the client. *)
LEMMA SameClientOut ==
    /\ COut!NewRing = CO!NewRing
    /\ \A b : COut!GetReadSize(b) = CO!GetReadSize(b)
    /\ \A b : COut!GetWriteSize(b) = CO!GetWriteSize(b)
    /\ \A b : COut!Contents(b) = CO!Contents(b)
    /\ \A b : COut!Begin(b) = CO!Begin(b)
    /\ \A w, p : COut!Put(w, p) = CO!Put(w, p)
    /\ \A w, p : COut!PutPacket(w, p) = CO!PutPacket(w, p)
    /\ \A b, partial : COut!Send(b, partial) \subseteq CO!Send(b, partial)
  <1>1. COut!NewRing = CO!NewRing
    BY DEF COut!NewRing, CO!NewRing, COut!Ring!Offset, CO!Ring!Offset
  <1>2. \A b : COut!GetReadSize(b) = CO!GetReadSize(b)
    BY DEF COut!GetReadSize, CO!GetReadSize, COut!Ring!GetReadSize, CO!Ring!GetReadSize
  <1>3. \A b : COut!GetWriteSize(b) = CO!GetWriteSize(b)
    BY DEF COut!GetWriteSize, CO!GetWriteSize, COut!Ring!GetWriteSize, CO!Ring!GetWriteSize
  <1>4. \A b : COut!Contents(b) = CO!Contents(b)
    BY DEF COut!Contents, CO!Contents, COut!Ring!Contents, CO!Ring!Contents,
           COut!Ring!Load, CO!Ring!Load, COut!Ring!Wrap, CO!Ring!Wrap,
           COut!Ring!GetReadSize, CO!Ring!GetReadSize
  <1>5. \A b : COut!Begin(b) = CO!Begin(b)
    BY DEF COut!Begin, CO!Begin
  <1>6. \A w, p : COut!Put(w, p) = CO!Put(w, p)
    <2>1. \A b, p : COut!Write(b, p) = CO!Write(b, p)
      <3>1. \A b, p : COut!Ring!Store(b, p) = CO!Ring!Store(b, p)
        BY DEF COut!Ring!Store, CO!Ring!Store, COut!Ring!Distance, CO!Ring!Distance,
               COut!Ring!Offset, CO!Ring!Offset
      <3>2. \A b, n : COut!Ring!MoveWriter(b, n) = CO!Ring!MoveWriter(b, n)
        BY DEF COut!Ring!MoveWriter, CO!Ring!MoveWriter, COut!Ring!ResetIfEqual, CO!Ring!ResetIfEqual,
               COut!Ring!Wrap, CO!Ring!Wrap
      <3>3. \A b : COut!Scrub(b) = CO!Scrub(b)
        BY <1>2 DEF COut!Scrub, CO!Scrub, COut!Ring!Offset, CO!Ring!Offset
      <3> QED
        BY <3>1, <3>2, <3>3 DEF COut!Write, CO!Write
    <2>2. \A b, n : COut!Wipes(b, n) = CO!Wipes(b, n)
      BY <1>3 DEF COut!Wipes, CO!Wipes
    <2> QED
      BY <1>3, <2>1, <2>2 DEF COut!Put, CO!Put
  <1>7. \A w, p : COut!PutPacket(w, p) = CO!PutPacket(w, p)
    BY <1>6 DEF COut!PutPacket, CO!PutPacket
  <1>8. \A b, partial : COut!Send(b, partial) \subseteq CO!Send(b, partial)
    <2>1. \A b, n : COut!ReadPtr(b, n) = CO!ReadPtr(b, n)
      BY DEF COut!ReadPtr, CO!ReadPtr, COut!Scrub, CO!Scrub,
             COut!Ring!MoveReader, CO!Ring!MoveReader,
             COut!Ring!ResetIfEqual, CO!Ring!ResetIfEqual, COut!Ring!Wrap, CO!Ring!Wrap,
             COut!Ring!Offset, CO!Ring!Offset, COut!GetReadSize, CO!GetReadSize,
             COut!Ring!GetReadSize, CO!Ring!GetReadSize
    <2>2. \A p, partial : COut!SendCalls(p, partial) = CO!SendCalls(p, partial)
      BY DEF COut!SendCalls, CO!SendCalls, COut!Taken, CO!Taken
    <2> SUFFICES ASSUME NEW b, NEW partial, NEW o \in COut!Send(b, partial)
                 PROVE  o \in CO!Send(b, partial)
      OBVIOUS
    <2> DEFINE all == COut!Contents(b)
               toTail == IF b.reader + Len(all) <= ClientOut THEN Len(all) ELSE ClientOut - b.reader
               first == SubSeq(all, 1, toTail)
               second == SubSeq(all, toTail + 1, Len(all))
               Outcome(put, gone, result) ==
                   [buf |-> COut!ReadPtr(b, gone), put |-> put, out |-> SubSeq(all, 1, gone),
                    result |-> result]
               Calls(q) == COut!SendCalls(q, partial)
               all2 == CO!Contents(b)
               toTail2 == IF b.reader + Len(all2) <= ClientOut THEN Len(all2) ELSE ClientOut - b.reader
               first2 == SubSeq(all2, 1, toTail2)
               second2 == SubSeq(all2, toTail2 + 1, Len(all2))
               Outcome2(put, gone, result) ==
                   [buf |-> CO!ReadPtr(b, gone), put |-> put, out |-> SubSeq(all2, 1, gone),
                    result |-> result]
               Calls2(q) == CO!SendCalls(q, partial)
    <2>3. o \in IF all = <<>> THEN {Outcome(<<>>, 0, "SUCESS")}
               ELSE {Outcome(s.put, 0, s.result) : s \in {c \in Calls(first) : c.result # "SUCESS"}}
                    \cup
                    IF second = <<>>
                    THEN {Outcome(s.put, toTail, s.result) :
                            s \in {c \in Calls(first) : c.result = "SUCESS"}}
                    ELSE UNION {{Outcome(s.put \o t.put,
                                         IF t.result = "SUCESS" THEN Len(all) ELSE toTail,
                                         t.result) : t \in Calls(second)} :
                                s \in {c \in Calls(first) : c.result = "SUCESS"}}
      BY DEF COut!Send
    <2>4. CO!Send(b, partial) =
             IF all2 = <<>> THEN {Outcome2(<<>>, 0, "SUCESS")}
             ELSE {Outcome2(s.put, 0, s.result) : s \in {c \in Calls2(first2) : c.result # "SUCESS"}}
                  \cup
                  IF second2 = <<>>
                  THEN {Outcome2(s.put, toTail2, s.result) :
                          s \in {c \in Calls2(first2) : c.result = "SUCESS"}}
                  ELSE UNION {{Outcome2(s.put \o t.put,
                                        IF t.result = "SUCESS" THEN Len(all2) ELSE toTail2,
                                        t.result) : t \in Calls2(second2)} :
                              s \in {c \in Calls2(first2) : c.result = "SUCESS"}}
      BY DEF CO!Send
    <2>5. /\ all2 = all /\ toTail2 = toTail /\ first2 = first /\ second2 = second
          /\ \A q : Calls2(q) = Calls(q)
          /\ \A put, gone, result : Outcome2(put, gone, result) = Outcome(put, gone, result)
      BY <1>4, <2>1, <2>2
    <2> HIDE DEF all, toTail, first, second, Outcome, Calls,
                 all2, toTail2, first2, second2, Outcome2, Calls2
    <2>6. \/ all = <<>> /\ o = Outcome(<<>>, 0, "SUCESS")
          \/ all # <<>> /\ \E s \in Calls(first) :
                s.result # "SUCESS" /\ o = Outcome(s.put, 0, s.result)
          \/ all # <<>> /\ second = <<>> /\ \E s \in Calls(first) :
                s.result = "SUCESS" /\ o = Outcome(s.put, toTail, s.result)
          \/ all # <<>> /\ second # <<>> /\ \E s \in Calls(first), t \in Calls(second) :
                /\ s.result = "SUCESS"
                /\ o = Outcome(s.put \o t.put, IF t.result = "SUCESS" THEN Len(all) ELSE toTail,
                               t.result)
      BY <2>3
    <2> QED
      BY <2>4, <2>5, <2>6
  <1> QED
    BY <1>1, <1>2, <1>3, <1>4, <1>5, <1>6, <1>7, <1>8

(* The ring from the logic server. *)
LEMMA SameLogicIn ==
    /\ LIn!NewRing = LI!NewRing
    /\ \A b : LIn!GetReadSize(b) = LI!GetReadSize(b)
    /\ \A b : LIn!GetWriteSize(b) = LI!GetWriteSize(b)
    /\ \A b : LIn!Contents(b) = LI!Contents(b)
    /\ \A b, n : LIn!ReadPtr(b, n) = LI!ReadPtr(b, n)
    /\ \A b, off, n : LIn!InPlace(b, off, n) = LI!InPlace(b, off, n)
    /\ \A b, n : LIn!Wipes(b, n) = LI!Wipes(b, n)
    /\ \A b, kernel, eof : LIn!Recv(b, kernel, eof) = LI!Recv(b, kernel, eof)
  <1>1. LIn!NewRing = LI!NewRing
    BY DEF LIn!NewRing, LI!NewRing, LIn!Ring!Offset, LI!Ring!Offset
  <1>2. \A b : LIn!GetReadSize(b) = LI!GetReadSize(b)
    BY DEF LIn!GetReadSize, LI!GetReadSize, LIn!Ring!GetReadSize, LI!Ring!GetReadSize
  <1>3. \A b : LIn!GetWriteSize(b) = LI!GetWriteSize(b)
    BY DEF LIn!GetWriteSize, LI!GetWriteSize, LIn!Ring!GetWriteSize, LI!Ring!GetWriteSize
  <1>4. \A b : LIn!Contents(b) = LI!Contents(b)
    BY DEF LIn!Contents, LI!Contents, LIn!Ring!Contents, LI!Ring!Contents,
           LIn!Ring!Load, LI!Ring!Load, LIn!Ring!Wrap, LI!Ring!Wrap,
           LIn!Ring!GetReadSize, LI!Ring!GetReadSize
  <1>5. \A b, n : LIn!ReadPtr(b, n) = LI!ReadPtr(b, n)
    BY DEF LIn!ReadPtr, LI!ReadPtr, LIn!Scrub, LI!Scrub, LIn!Ring!MoveReader, LI!Ring!MoveReader,
           LIn!Ring!ResetIfEqual, LI!Ring!ResetIfEqual, LIn!Ring!Wrap, LI!Ring!Wrap,
           LIn!Ring!Offset, LI!Ring!Offset, LIn!GetReadSize, LI!GetReadSize,
           LIn!Ring!GetReadSize, LI!Ring!GetReadSize
  <1>6. \A b, off, n : LIn!InPlace(b, off, n) = LI!InPlace(b, off, n)
    BY DEF LIn!InPlace, LI!InPlace
  <1>7. \A b, n : LIn!Wipes(b, n) = LI!Wipes(b, n)
    BY <1>3 DEF LIn!Wipes, LI!Wipes
  <1>8. \A b, kernel, eof : LIn!Recv(b, kernel, eof) = LI!Recv(b, kernel, eof)
    <2>1. \A b, p : LIn!Write(b, p) = LI!Write(b, p)
      <3>1. \A b, p : LIn!Ring!Store(b, p) = LI!Ring!Store(b, p)
        BY DEF LIn!Ring!Store, LI!Ring!Store, LIn!Ring!Distance, LI!Ring!Distance,
               LIn!Ring!Offset, LI!Ring!Offset
      <3>2. \A b, n : LIn!Ring!MoveWriter(b, n) = LI!Ring!MoveWriter(b, n)
        BY DEF LIn!Ring!MoveWriter, LI!Ring!MoveWriter, LIn!Ring!ResetIfEqual, LI!Ring!ResetIfEqual,
               LIn!Ring!Wrap, LI!Ring!Wrap
      <3>3. \A b : LIn!Scrub(b) = LI!Scrub(b)
        BY <1>2 DEF LIn!Scrub, LI!Scrub, LIn!Ring!Offset, LI!Ring!Offset
      <3> QED
        BY <3>1, <3>2, <3>3 DEF LIn!Write, LI!Write
    <2> QED
      BY <1>3, <2>1 DEF LIn!Recv, LI!Recv
  <1> QED
    BY <1>1, <1>2, <1>3, <1>4, <1>5, <1>6, <1>7, <1>8

(* The ring to the logic server. *)
LEMMA SameLogicOut ==
    /\ LOut!NewRing = LO!NewRing
    /\ \A b : LOut!GetReadSize(b) = LO!GetReadSize(b)
    /\ \A b : LOut!GetWriteSize(b) = LO!GetWriteSize(b)
    /\ \A b : LOut!Contents(b) = LO!Contents(b)
    /\ \A b : LOut!Begin(b) = LO!Begin(b)
    /\ \A w, p : LOut!Put(w, p) = LO!Put(w, p)
    /\ \A w, p : LOut!PutPacket(w, p) = LO!PutPacket(w, p)
    /\ \A b, partial : LOut!Send(b, partial) \subseteq LO!Send(b, partial)
  <1>1. LOut!NewRing = LO!NewRing
    BY DEF LOut!NewRing, LO!NewRing, LOut!Ring!Offset, LO!Ring!Offset
  <1>2. \A b : LOut!GetReadSize(b) = LO!GetReadSize(b)
    BY DEF LOut!GetReadSize, LO!GetReadSize, LOut!Ring!GetReadSize, LO!Ring!GetReadSize
  <1>3. \A b : LOut!GetWriteSize(b) = LO!GetWriteSize(b)
    BY DEF LOut!GetWriteSize, LO!GetWriteSize, LOut!Ring!GetWriteSize, LO!Ring!GetWriteSize
  <1>4. \A b : LOut!Contents(b) = LO!Contents(b)
    BY DEF LOut!Contents, LO!Contents, LOut!Ring!Contents, LO!Ring!Contents,
           LOut!Ring!Load, LO!Ring!Load, LOut!Ring!Wrap, LO!Ring!Wrap,
           LOut!Ring!GetReadSize, LO!Ring!GetReadSize
  <1>5. \A b : LOut!Begin(b) = LO!Begin(b)
    BY DEF LOut!Begin, LO!Begin
  <1>6. \A w, p : LOut!Put(w, p) = LO!Put(w, p)
    <2>1. \A b, p : LOut!Write(b, p) = LO!Write(b, p)
      <3>1. \A b, p : LOut!Ring!Store(b, p) = LO!Ring!Store(b, p)
        BY DEF LOut!Ring!Store, LO!Ring!Store, LOut!Ring!Distance, LO!Ring!Distance,
               LOut!Ring!Offset, LO!Ring!Offset
      <3>2. \A b, n : LOut!Ring!MoveWriter(b, n) = LO!Ring!MoveWriter(b, n)
        BY DEF LOut!Ring!MoveWriter, LO!Ring!MoveWriter, LOut!Ring!ResetIfEqual, LO!Ring!ResetIfEqual,
               LOut!Ring!Wrap, LO!Ring!Wrap
      <3>3. \A b : LOut!Scrub(b) = LO!Scrub(b)
        BY <1>2 DEF LOut!Scrub, LO!Scrub, LOut!Ring!Offset, LO!Ring!Offset
      <3> QED
        BY <3>1, <3>2, <3>3 DEF LOut!Write, LO!Write
    <2>2. \A b, n : LOut!Wipes(b, n) = LO!Wipes(b, n)
      BY <1>3 DEF LOut!Wipes, LO!Wipes
    <2> QED
      BY <1>3, <2>1, <2>2 DEF LOut!Put, LO!Put
  <1>7. \A w, p : LOut!PutPacket(w, p) = LO!PutPacket(w, p)
    BY <1>6 DEF LOut!PutPacket, LO!PutPacket
  <1>8. \A b, partial : LOut!Send(b, partial) \subseteq LO!Send(b, partial)
    <2>1. \A b, n : LOut!ReadPtr(b, n) = LO!ReadPtr(b, n)
      BY DEF LOut!ReadPtr, LO!ReadPtr, LOut!Scrub, LO!Scrub,
             LOut!Ring!MoveReader, LO!Ring!MoveReader,
             LOut!Ring!ResetIfEqual, LO!Ring!ResetIfEqual, LOut!Ring!Wrap, LO!Ring!Wrap,
             LOut!Ring!Offset, LO!Ring!Offset, LOut!GetReadSize, LO!GetReadSize,
             LOut!Ring!GetReadSize, LO!Ring!GetReadSize
    <2>2. \A p, partial : LOut!SendCalls(p, partial) = LO!SendCalls(p, partial)
      BY DEF LOut!SendCalls, LO!SendCalls, LOut!Taken, LO!Taken
    <2> SUFFICES ASSUME NEW b, NEW partial, NEW o \in LOut!Send(b, partial)
                 PROVE  o \in LO!Send(b, partial)
      OBVIOUS
    <2> DEFINE all == LOut!Contents(b)
               toTail == IF b.reader + Len(all) <= LogicOut THEN Len(all) ELSE LogicOut - b.reader
               first == SubSeq(all, 1, toTail)
               second == SubSeq(all, toTail + 1, Len(all))
               Outcome(put, gone, result) ==
                   [buf |-> LOut!ReadPtr(b, gone), put |-> put, out |-> SubSeq(all, 1, gone),
                    result |-> result]
               Calls(q) == LOut!SendCalls(q, partial)
               all2 == LO!Contents(b)
               toTail2 == IF b.reader + Len(all2) <= LogicOut THEN Len(all2) ELSE LogicOut - b.reader
               first2 == SubSeq(all2, 1, toTail2)
               second2 == SubSeq(all2, toTail2 + 1, Len(all2))
               Outcome2(put, gone, result) ==
                   [buf |-> LO!ReadPtr(b, gone), put |-> put, out |-> SubSeq(all2, 1, gone),
                    result |-> result]
               Calls2(q) == LO!SendCalls(q, partial)
    <2>3. o \in IF all = <<>> THEN {Outcome(<<>>, 0, "SUCESS")}
               ELSE {Outcome(s.put, 0, s.result) : s \in {c \in Calls(first) : c.result # "SUCESS"}}
                    \cup
                    IF second = <<>>
                    THEN {Outcome(s.put, toTail, s.result) :
                            s \in {c \in Calls(first) : c.result = "SUCESS"}}
                    ELSE UNION {{Outcome(s.put \o t.put,
                                         IF t.result = "SUCESS" THEN Len(all) ELSE toTail,
                                         t.result) : t \in Calls(second)} :
                                s \in {c \in Calls(first) : c.result = "SUCESS"}}
      BY DEF LOut!Send
    <2>4. LO!Send(b, partial) =
             IF all2 = <<>> THEN {Outcome2(<<>>, 0, "SUCESS")}
             ELSE {Outcome2(s.put, 0, s.result) : s \in {c \in Calls2(first2) : c.result # "SUCESS"}}
                  \cup
                  IF second2 = <<>>
                  THEN {Outcome2(s.put, toTail2, s.result) :
                          s \in {c \in Calls2(first2) : c.result = "SUCESS"}}
                  ELSE UNION {{Outcome2(s.put \o t.put,
                                        IF t.result = "SUCESS" THEN Len(all2) ELSE toTail2,
                                        t.result) : t \in Calls2(second2)} :
                              s \in {c \in Calls2(first2) : c.result = "SUCESS"}}
      BY DEF LO!Send
    <2>5. /\ all2 = all /\ toTail2 = toTail /\ first2 = first /\ second2 = second
          /\ \A q : Calls2(q) = Calls(q)
          /\ \A put, gone, result : Outcome2(put, gone, result) = Outcome(put, gone, result)
      BY <1>4, <2>1, <2>2
    <2> HIDE DEF all, toTail, first, second, Outcome, Calls,
                 all2, toTail2, first2, second2, Outcome2, Calls2
    <2>6. \/ all = <<>> /\ o = Outcome(<<>>, 0, "SUCESS")
          \/ all # <<>> /\ \E s \in Calls(first) :
                s.result # "SUCESS" /\ o = Outcome(s.put, 0, s.result)
          \/ all # <<>> /\ second = <<>> /\ \E s \in Calls(first) :
                s.result = "SUCESS" /\ o = Outcome(s.put, toTail, s.result)
          \/ all # <<>> /\ second # <<>> /\ \E s \in Calls(first), t \in Calls(second) :
                /\ s.result = "SUCESS"
                /\ o = Outcome(s.put \o t.put, IF t.result = "SUCESS" THEN Len(all) ELSE toTail,
                               t.result)
      BY <2>3
    <2> QED
      BY <2>4, <2>5, <2>6
  <1> QED
    BY <1>1, <1>2, <1>3, <1>4, <1>5, <1>6, <1>7, <1>8

-----------------------------------------------------------------------------
(* f is made of the first pieces of p, one after the other. *)
Concatenates(f, p) ==
    f = [n \in 0 .. Len(p) |-> IF n = 0 THEN <<>> ELSE f[n - 1] \o p[n]]

(* Sequences of sequences over T. *)
Pieces(T) == Seq(Seq(T))

(* The pieces are sequences. *)
LEMMA PiecesAre ==
    ASSUME NEW T, NEW p \in Pieces(T)
    PROVE  Len(p) \in Nat /\ \A n \in 1 .. Len(p) : p[n] \in Seq(T)
  BY ElementOfSeq, LenProperties DEF Pieces

(* Induction over the numbers up to a bound. *)
LEMMA Upto ==
    ASSUME NEW N \in Nat, NEW S, 0 \in S, \A n \in 1 .. N : n - 1 \in S => n \in S
    PROVE  0 .. N \subseteq S
  <1> DEFINE U == {n \in Nat : n <= N => n \in S}
  <1>1. 0 \in U
    OBVIOUS
  <1>2. ASSUME NEW n \in Nat, n \in U
        PROVE  n + 1 \in U
    <2>1. (n + 1) - 1 = n
      OBVIOUS
    <2> QED
      BY <1>2, <2>1
  <1>3. Nat \subseteq U
    <2> HIDE DEF U
    <2> QED
      BY <1>1, <1>2, LP!SetInduction
  <1> QED
    BY <1>3

(* The pieces of every sequence of sequences can be joined. *)
LEMMA JoinedExists ==
    ASSUME NEW T, NEW p \in Pieces(T)
    PROVE  Concatenates(Joined(p), p)
  <1> DEFINE P(f) == f = [n \in 0 .. Len(p) |-> IF n = 0 THEN <<>> ELSE f[n - 1] \o p[n]]
             D == Nat \X Seq(T)
             g == [x \in D |-> <<x[1] + 1,
                                 IF x[1] + 1 \in 1 .. Len(p) THEN x[2] \o p[x[1] + 1] ELSE x[2]>>]
  <1>1. Len(p) \in Nat /\ \A n \in 1 .. Len(p) : p[n] \in Seq(T)
    BY PiecesAre
  <1>2. <<0, <<>>>> \in D /\ g \in [D -> D]
    <2>1. <<>> \in Seq(T)
      OBVIOUS
    <2>2. ASSUME NEW x \in D
          PROVE  g[x] \in D
      <3>1. x[1] + 1 \in Nat /\ x[2] \in Seq(T)
        OBVIOUS
      <3>2. CASE x[1] + 1 \in 1 .. Len(p)
        <4>1. x[2] \o p[x[1] + 1] \in Seq(T)
          BY <1>1, <3>1, <3>2, ConcatProperties
        <4> QED
          BY <3>1, <3>2, <4>1
      <3>3. CASE x[1] + 1 \notin 1 .. Len(p)
        BY <3>1, <3>3
      <3> QED
        BY <3>2, <3>3
    <2> QED
      BY <2>1, <2>2
  <1>3. PICK w \in [Nat \ {0} -> D] :
            w[1] = <<0, <<>>>> /\ \A n \in Nat \ {0} : w[n + 1] = g[w[n]]
    <2> HIDE DEF g, D
    <2>1. LP!HasRun(D, <<0, <<>>>>, g)
      BY <1>2, LP!Iteration
    <2> QED
      BY <2>1 DEF LP!HasRun
  <1> DEFINE f == [n \in 0 .. Len(p) |-> w[n + 1][2]]
  <1>4. \A n \in 0 .. Len(p) : w[n + 1][1] = n
    <2> DEFINE S == {n \in 0 .. Len(p) : w[n + 1][1] = n}
    <2>1. 0 \in S
      BY <1>1, <1>3
    <2>2. ASSUME NEW n \in 1 .. Len(p), n - 1 \in S
          PROVE  n \in S
      <3>1. n \in Nat \ {0} /\ (n - 1) + 1 = n /\ w[n] \in D
        BY <1>1
      <3>2. w[n + 1] = g[w[n]] /\ w[n][1] = n - 1
        BY <1>3, <2>2, <3>1
      <3> QED
        BY <1>1, <3>1, <3>2
    <2>3. 0 .. Len(p) \subseteq S
      <3> HIDE DEF S
      <3> QED
        BY <1>1, <2>1, <2>2, Upto
    <2> QED
      BY <2>3
  <1>5. P(f)
    <2>1. ASSUME NEW n \in 0 .. Len(p)
          PROVE  f[n] = IF n = 0 THEN <<>> ELSE f[n - 1] \o p[n]
      <3>1. CASE n = 0
        BY <1>1, <1>3, <3>1
      <3>2. CASE n # 0
        <4>1. n \in Nat \ {0} /\ n \in 1 .. Len(p) /\ n - 1 \in 0 .. Len(p) /\ (n - 1) + 1 = n
          BY <1>1, <3>2
        <4>2. w[n + 1] = g[w[n]] /\ w[n] \in D /\ w[n][1] = n - 1
          <5>1. w[(n - 1) + 1][1] = n - 1
            BY <1>4, <4>1
          <5> QED
            BY <1>3, <4>1, <5>1
        <4>3. w[n + 1][2] = w[n][2] \o p[n]
          <5>1. g[w[n]] = <<w[n][1] + 1, IF w[n][1] + 1 \in 1 .. Len(p)
                                         THEN w[n][2] \o p[w[n][1] + 1] ELSE w[n][2]>>
            BY <4>2
          <5>2. w[n][1] + 1 = n
            BY <4>1, <4>2
          <5> HIDE DEF g, D
          <5>3. g[w[n]] = <<n, w[n][2] \o p[n]>>
            BY <4>1, <5>1, <5>2, Zenon
          <5>4. w[n + 1] = <<n, w[n][2] \o p[n]>>
            BY <4>2, <5>3, Zenon
          <5>5. \A y : <<n, y>>[2] = y
            OBVIOUS
          <5> QED
            BY <5>4, <5>5, Zenon
        <4>4. f[n] = w[n + 1][2] /\ f[n - 1] = w[n][2]
          BY <4>1
        <4> HIDE DEF f
        <4> QED
          BY <3>2, <4>3, <4>4
      <3> QED
        BY <3>1, <3>2
    <2> DEFINE h == [n \in 0 .. Len(p) |-> IF n = 0 THEN <<>> ELSE f[n - 1] \o p[n]]
    <2>2. \A n \in 0 .. Len(p) : f[n] = h[n]
      <3> HIDE DEF f
      <3> QED
        BY <2>1
    <2>3. f = [n \in 0 .. Len(p) |-> f[n]] /\ h = [n \in 0 .. Len(p) |-> h[n]]
      OBVIOUS
    <2>4. f = h
      <3> HIDE DEF f, h
      <3> QED
        BY <2>2, <2>3
    <2> QED
      BY <2>4
  <1> HIDE DEF f
  <1>6. P(CHOOSE F : P(F))
    <2> HIDE DEF P
    <2> QED
      BY <1>5
  <1> QED
    BY <1>6 DEF Joined, Concatenates

(* Joining: nothing at first, then one piece after the other. *)
LEMMA JoinedSteps ==
    ASSUME NEW T, NEW p \in Pieces(T)
    PROVE  /\ Joined(p)[0] = <<>>
           /\ \A n \in 1 .. Len(p) : Joined(p)[n] = Joined(p)[n - 1] \o p[n]
           /\ \A n \in 0 .. Len(p) : Joined(p)[n] \in Seq(T)
  <1> DEFINE f == Joined(p)
  <1>1. f = [n \in 0 .. Len(p) |-> IF n = 0 THEN <<>> ELSE f[n - 1] \o p[n]]
    BY JoinedExists DEF Concatenates
  <1>2. Len(p) \in Nat /\ \A n \in 1 .. Len(p) : p[n] \in Seq(T)
    BY PiecesAre
  <1> HIDE DEF f
  <1>3. \A n \in 0 .. Len(p) : f[n] = IF n = 0 THEN <<>> ELSE f[n - 1] \o p[n]
    BY <1>1
  <1>4. f[0] = <<>> /\ \A n \in 1 .. Len(p) : f[n] = f[n - 1] \o p[n]
    <2>1. 0 \in 0 .. Len(p) /\ \A n \in 1 .. Len(p) : n \in 0 .. Len(p) /\ n # 0
      BY <1>2
    <2> QED
      BY <1>3, <2>1, Zenon
  <1>5. \A n \in 0 .. Len(p) : f[n] \in Seq(T)
    <2> DEFINE S == {n \in 0 .. Len(p) : f[n] \in Seq(T)}
    <2>1. 0 \in S
      <3>1. <<>> \in Seq(T) /\ 0 \in 0 .. Len(p)
        BY <1>2
      <3> QED
        BY <1>4, <3>1, Zenon
    <2>2. ASSUME NEW n \in 1 .. Len(p), n - 1 \in S
          PROVE  n \in S
      <3>1. f[n - 1] \o p[n] \in Seq(T)
        BY <1>2, <2>2, ConcatProperties
      <3>2. n \in 0 .. Len(p)
        BY <1>2
      <3> QED
        BY <1>4, <3>1, <3>2, Zenon
    <2>3. 0 .. Len(p) \subseteq S
      <3> HIDE DEF S
      <3> QED
        BY <1>2, <2>1, <2>2, Upto
    <2> QED
      BY <2>3
  <1> QED
    BY <1>4, <1>5 DEF f

(* The joins of the same first pieces are the same. *)
LEMMA JoinedAgree ==
    ASSUME NEW T, NEW p \in Pieces(T), NEW q \in Pieces(T),
           NEW n \in 0 .. Len(p), n <= Len(q), \A i \in 1 .. n : p[i] = q[i]
    PROVE  Joined(p)[n] = Joined(q)[n]
  <1> DEFINE P(m) == Joined(p)[m] = Joined(q)[m]
             S == {m \in 0 .. n : P(m)}
  <1>1. Len(p) \in Nat /\ Len(q) \in Nat
    BY PiecesAre
  <1>2. P(0)
    BY JoinedSteps, Zenon
  <1>3. ASSUME NEW m \in 1 .. n, P(m - 1)
        PROVE  P(m)
    <2>1. m \in 1 .. Len(p) /\ m \in 1 .. Len(q)
      BY <1>1
    <2>2. Joined(p)[m] = Joined(p)[m - 1] \o p[m] /\ Joined(q)[m] = Joined(q)[m - 1] \o q[m]
      BY <2>1, JoinedSteps, Zenon
    <2> QED
      BY <1>3, <2>2, Zenon
  <1> HIDE DEF P
  <1>4. 0 .. n \subseteq S
    <2>1. 0 \in S
      BY <1>1, <1>2
    <2>2. ASSUME NEW m \in 1 .. n, m - 1 \in S
          PROVE  m \in S
      BY <1>1, <1>3, <2>2
    <2>3. n \in Nat
      BY <1>1
    <2> HIDE DEF S
    <2> QED
      BY <2>1, <2>2, <2>3, Upto
  <1>5. P(n)
    BY <1>1, <1>4
  <1> QED
    BY <1>5 DEF P

(* What was joined before is the beginning of what is joined later. *)
LEMMA JoinedPrefix ==
    ASSUME NEW T, NEW p \in Pieces(T), NEW n \in 0 .. Len(p), NEW k \in 0 .. n
    PROVE  \E r \in Seq(T) : Joined(p)[n] = Joined(p)[k] \o r
  <1> DEFINE P(m) == \E r \in Seq(T) : Joined(p)[m] = Joined(p)[k] \o r
             S == {m \in 0 .. n : m >= k => P(m)}
  <1>1. Len(p) \in Nat /\ \A m \in 1 .. Len(p) : p[m] \in Seq(T)
    BY PiecesAre
  <1>2. Joined(p)[k] \in Seq(T)
    <2>1. k \in 0 .. Len(p)
      BY <1>1
    <2> QED
      BY <2>1, JoinedSteps, Zenon
  <1>3. P(k)
    <2>1. <<>> \in Seq(T)
      OBVIOUS
    <2>2. Joined(p)[k] = Joined(p)[k] \o <<>>
      BY <1>2, ConcatSimplifications
    <2> QED
      BY <2>1, <2>2, Zenon
  <1>4. ASSUME NEW m \in 1 .. n, P(m - 1)
        PROVE  P(m)
    <2>1. PICK r \in Seq(T) : Joined(p)[m - 1] = Joined(p)[k] \o r
      BY <1>4, Zenon
    <2>2. m \in 1 .. Len(p)
      BY <1>1
    <2>3. Joined(p)[m] = Joined(p)[m - 1] \o p[m] /\ p[m] \in Seq(T)
      BY <1>1, <2>2, JoinedSteps, Zenon
    <2>4. (Joined(p)[k] \o r) \o p[m] = Joined(p)[k] \o (r \o p[m])
      <3> DEFINE a == Joined(p)[k]
                 c == p[m]
      <3>1. a \in Seq(T) /\ c \in Seq(T)
        BY <1>2, <2>3
      <3> HIDE DEF a, c
      <3>2. (a \o r) \o c = a \o (r \o c)
        BY <3>1, ConcatAssociative, SMTT(30)
      <3> QED
        BY <3>2 DEF a, c
    <2>5. r \o p[m] \in Seq(T)
      BY <2>3, ConcatProperties
    <2> QED
      BY <2>1, <2>3, <2>4, <2>5, Zenon
  <1> HIDE DEF P
  <1>5. 0 .. n \subseteq S
    <2>1. 0 \in S
      BY <1>1, <1>3
    <2>2. ASSUME NEW m \in 1 .. n, m - 1 \in S
          PROVE  m \in S
      BY <1>1, <1>3, <1>4, <2>2
    <2>3. n \in Nat
      BY <1>1
    <2> HIDE DEF S
    <2> QED
      BY <2>1, <2>2, <2>3, Upto
  <1>6. P(n)
    BY <1>1, <1>5
  <1> QED
    BY <1>6 DEF P

(* One piece for each byte: the byte, if it comes from source. *)
Kept(source, x) == IF x[1] = source THEN <<x>> ELSE <<>>
Sieve(source, s) == [i \in 1 .. Len(s) |-> Kept(source, s[i])]

(* The pieces are sequences of bytes. *)
LEMMA SievePieces ==
    ASSUME NEW T, NEW s \in Seq(T), NEW source
    PROVE  /\ Sieve(source, s) \in Pieces(T)
           /\ Len(Sieve(source, s)) = Len(s) /\ Len(s) \in Nat
           /\ \A i \in 1 .. Len(s) : Sieve(source, s)[i] = Kept(source, s[i])
           /\ Bytes(source, s) = Joined(Sieve(source, s))[Len(s)]
  <1> DEFINE n == Len(s)
  <1>1. n \in Nat /\ \A i \in 1 .. n : s[i] \in T
    BY LenProperties, ElementOfSeq
  <1>2. Bytes(source, s) = Joined(Sieve(source, s))[n]
    BY DEF Bytes, Sieve, Kept
  <1>3. \A i \in 1 .. n : Sieve(source, s)[i] = Kept(source, s[i])
    BY DEF Sieve
  <1>4. ASSUME NEW i \in 1 .. n
        PROVE  Sieve(source, s)[i] \in Seq(T)
    <2>1. <<>> \in Seq(T) /\ <<s[i]>> \in Seq(T)
      BY <1>1
    <2> QED
      BY <1>3, <2>1, Zenon DEF Kept
  <1>5. Sieve(source, s) = [i \in 1 .. n |-> Sieve(source, s)[i]]
    BY DEF Sieve
  <1> DEFINE q == Sieve(source, s)
  <1> HIDE DEF n, q
  <1>6. q \in Pieces(T) /\ Len(q) = n
    <2>1. q \in [1 .. n -> Seq(T)]
      BY <1>4, <1>5 DEF q
    <2> QED
      BY <1>1, <2>1 DEF Pieces
  <1> QED
    BY <1>1, <1>2, <1>3, <1>6 DEF n, q

(* The bytes from source are split where the sequence is. *)
Splits(T, source) ==
    \A s, t \in Seq(T) : /\ Bytes(source, s) \in Seq(T)
                         /\ Bytes(source, s \o t) = Bytes(source, s) \o Bytes(source, t)

(* They are in any sequences of bytes. *)
LEMMA BytesOfConcat ==
    \A T, source : Splits(T, source)
  <1> SUFFICES ASSUME NEW T, NEW source, NEW s \in Seq(T), NEW t \in Seq(T)
               PROVE  /\ Bytes(source, s) \in Seq(T)
                      /\ Bytes(source, s \o t) = Bytes(source, s) \o Bytes(source, t)
    BY DEF Splits
  <1> DEFINE L == Len(s)
             N == Len(t)
             u == s \o t
             ps == Sieve(source, s)
             pt == Sieve(source, t)
             pu == Sieve(source, u)
             a == Joined(ps)[L]
             F(m) == Joined(pu)[L + m]
             G(m) == Joined(pt)[m]
             P(m) == F(m) = a \o G(m)
             S == {m \in 0 .. N : P(m)}
  <1>1. /\ u \in Seq(T) /\ Len(u) = L + N /\ L \in Nat /\ N \in Nat
        /\ \A i \in 1 .. L : u[i] = s[i]
        /\ \A i \in 1 .. N : u[L + i] = t[i]
    BY ConcatProperties, LenProperties
  <1> HIDE DEF L, N, u
  <1>2. /\ ps \in Pieces(T) /\ Len(ps) = L
        /\ \A i \in 1 .. L : ps[i] = Kept(source, s[i])
    BY SievePieces DEF L
  <1>3. /\ pt \in Pieces(T) /\ Len(pt) = N
        /\ \A i \in 1 .. N : pt[i] = Kept(source, t[i])
    BY SievePieces DEF N
  <1>4. /\ pu \in Pieces(T) /\ Len(pu) = L + N
        /\ \A i \in 1 .. L + N : pu[i] = Kept(source, u[i])
    BY <1>1, SievePieces
  <1> HIDE DEF ps, pt, pu
  <1>5. a \in Seq(T) /\ G(0) = <<>> /\ \A m \in 0 .. N : G(m) \in Seq(T)
    <2>1. L \in 0 .. L
      BY <1>1
    <2> QED
      BY <1>2, <1>3, <2>1, JoinedSteps, Zenon
  <1>6. \A i \in 1 .. L : pu[i] = ps[i]
    <2>1. \A i \in 1 .. L : i \in 1 .. L + N
      BY <1>1
    <2> QED
      BY <1>1, <1>2, <1>4, <2>1
  <1>7. \A i \in 1 .. N : pu[L + i] = pt[i]
    <2>1. \A i \in 1 .. N : L + i \in 1 .. L + N
      BY <1>1
    <2> QED
      BY <1>1, <1>3, <1>4, <2>1
  <1>8. F(0) = a
    <2>1. L + 0 = L /\ L \in 0 .. Len(pu) /\ L <= Len(ps)
      BY <1>1, <1>2, <1>4
    <2>2. Joined(pu)[L] = Joined(ps)[L]
      BY <1>2, <1>4, <1>6, <2>1, JoinedAgree
    <2> QED
      BY <2>1, <2>2
  <1>9. ASSUME NEW m \in 1 .. N
        PROVE  F(m) = F(m - 1) \o pt[m] /\ G(m) = G(m - 1) \o pt[m]
    <2>1. L + m \in 1 .. L + N /\ (L + m) - 1 = L + (m - 1)
      BY <1>1
    <2>2. Joined(pu)[L + m] = Joined(pu)[(L + m) - 1] \o pu[L + m]
      BY <1>4, <2>1, JoinedSteps, Zenon
    <2>3. G(m) = G(m - 1) \o pt[m]
      BY <1>3, JoinedSteps, Zenon
    <2> QED
      BY <1>7, <2>1, <2>2, <2>3, Zenon
  <1>10. \A m \in 1 .. N : pt[m] \in Seq(T)
    BY <1>3, PiecesAre
  <1>11. Bytes(source, s) = a /\ Bytes(source, t) = G(N) /\ Bytes(source, u) = F(N)
    <2>1. Bytes(source, s) = a
      BY SievePieces DEF ps, L
    <2>2. Bytes(source, t) = G(N)
      BY SievePieces DEF pt, N
    <2>3. Bytes(source, u) = F(N)
      BY <1>1, SievePieces DEF pu
    <2> QED
      BY <2>1, <2>2, <2>3
  <1> HIDE DEF a, F, G
  <1>12. P(0)
    <2>1. a = a \o <<>>
      BY <1>5
    <2> QED
      BY <1>5, <1>8, <2>1, Zenon
  <1>13. ASSUME NEW m \in 1 .. N, P(m - 1)
         PROVE  P(m)
    <2> DEFINE g == G(m - 1)
               r == pt[m]
    <2>1. a \in Seq(T) /\ g \in Seq(T) /\ r \in Seq(T)
      BY <1>1, <1>5, <1>10
    <2>2. F(m) = (a \o g) \o r /\ G(m) = g \o r
      BY <1>9, <1>13
    <2> HIDE DEF g, r
    <2>3. (a \o g) \o r = a \o (g \o r)
      BY <2>1, ConcatAssociative, SMTT(30)
    <2> QED
      BY <2>2, <2>3
  <1> HIDE DEF P
  <1>14. 0 .. N \subseteq S
    <2>1. 0 \in S
      BY <1>1, <1>12
    <2>2. ASSUME NEW m \in 1 .. N, m - 1 \in S
          PROVE  m \in S
      BY <1>1, <1>13, <2>2
    <2> HIDE DEF S
    <2> QED
      BY <1>1, <2>1, <2>2, Upto
  <1>15. P(N)
    BY <1>1, <1>14
  <1> QED
    BY <1>5, <1>11, <1>15 DEF P, u

(* All bytes are from source. *)
LEMMA BytesAll ==
    ASSUME NEW T, NEW s \in Seq(T), NEW source, \A i \in 1 .. Len(s) : s[i][1] = source
    PROVE  Bytes(source, s) = s
  <1> DEFINE p == Sieve(source, s)
             F(m) == Joined(p)[m]
             P(m) == F(m) = SubSeq(s, 1, m)
             S == {m \in 0 .. Len(s) : P(m)}
  <1>1. /\ p \in Pieces(T) /\ Len(p) = Len(s) /\ Len(s) \in Nat
        /\ \A i \in 1 .. Len(s) : p[i] = Kept(source, s[i])
        /\ Bytes(source, s) = F(Len(s))
    BY SievePieces
  <1> HIDE DEF p
  <1>2. F(0) = <<>> /\ \A m \in 1 .. Len(s) : F(m) = F(m - 1) \o <<s[m]>>
    <2>1. \A m \in 1 .. Len(s) : m \in 1 .. Len(p)
      BY <1>1
    <2>2. \A m \in 1 .. Len(s) : p[m] = <<s[m]>>
      BY <1>1 DEF Kept
    <2>3. F(0) = <<>> /\ \A m \in 1 .. Len(p) : F(m) = F(m - 1) \o p[m]
      BY <1>1, JoinedSteps, Zenon
    <2> HIDE DEF F
    <2> QED
      BY <2>1, <2>2, <2>3, Zenon
  <1> HIDE DEF F
  <1>3. P(0)
    <2>1. SubSeq(s, 1, 0) = <<>>
      BY SubSeqEmpty
    <2> QED
      BY <1>2, <2>1
  <1>4. ASSUME NEW m \in 1 .. Len(s), P(m - 1)
        PROVE  P(m)
    <2>1. 1 \in 1 .. Len(s) /\ m \in 1 .. Len(s) /\ m \in 1 .. m
      BY <1>1
    <2>2. SubSeq(s, 1, m) = SubSeq(s, 1, m - 1) \o <<s[m]>>
      BY <1>1, <2>1, SubSeqRecursiveSecond
    <2> QED
      BY <1>2, <1>4, <2>2, Zenon
  <1> HIDE DEF P
  <1>5. 0 .. Len(s) \subseteq S
    <2>1. 0 \in S
      BY <1>1, <1>3
    <2>2. ASSUME NEW m \in 1 .. Len(s), m - 1 \in S
          PROVE  m \in S
      BY <1>1, <1>4, <2>2
    <2> HIDE DEF S
    <2> QED
      BY <1>1, <2>1, <2>2, Upto
  <1>6. P(Len(s))
    BY <1>1, <1>5
  <1>7. SubSeq(s, 1, Len(s)) = s
    BY SubSeqFull
  <1> QED
    BY <1>1, <1>6, <1>7 DEF P

(* No byte is from source. *)
LEMMA BytesNone ==
    ASSUME NEW T, NEW s \in Seq(T), NEW source, \A i \in 1 .. Len(s) : s[i][1] # source
    PROVE  Bytes(source, s) = <<>>
  <1> DEFINE p == Sieve(source, s)
             F(m) == Joined(p)[m]
             P(m) == F(m) = <<>>
             S == {m \in 0 .. Len(s) : P(m)}
  <1>1. /\ p \in Pieces(T) /\ Len(p) = Len(s) /\ Len(s) \in Nat
        /\ \A i \in 1 .. Len(s) : p[i] = Kept(source, s[i])
        /\ Bytes(source, s) = F(Len(s))
    BY SievePieces
  <1> HIDE DEF p
  <1>2. F(0) = <<>> /\ \A m \in 1 .. Len(s) : F(m) = F(m - 1) \o <<>>
    <2>1. \A m \in 1 .. Len(s) : m \in 1 .. Len(p)
      BY <1>1
    <2>2. \A m \in 1 .. Len(s) : p[m] = <<>>
      BY <1>1 DEF Kept
    <2>3. F(0) = <<>> /\ \A m \in 1 .. Len(p) : F(m) = F(m - 1) \o p[m]
      BY <1>1, JoinedSteps, Zenon
    <2> HIDE DEF F
    <2> QED
      BY <2>1, <2>2, <2>3, Zenon
  <1> HIDE DEF F
  <1>3. P(0)
    BY <1>2
  <1>4. ASSUME NEW m \in 1 .. Len(s), P(m - 1)
        PROVE  P(m)
    <2>1. <<>> \o <<>> = <<>>
      OBVIOUS
    <2> QED
      BY <1>2, <1>4, <2>1, Zenon
  <1> HIDE DEF P
  <1>5. 0 .. Len(s) \subseteq S
    <2>1. 0 \in S
      BY <1>1, <1>3
    <2>2. ASSUME NEW m \in 1 .. Len(s), m - 1 \in S
          PROVE  m \in S
      BY <1>1, <1>4, <2>2
    <2> HIDE DEF S
    <2> QED
      BY <1>1, <2>1, <2>2, Upto
  <1>6. P(Len(s))
    BY <1>1, <1>5
  <1> QED
    BY <1>1, <1>6 DEF P

Associates(T) == \A u, v, w \in Seq(T) : (u \o v) \o w = u \o (v \o w)

(* Concatenation is associative. *)
LEMMA Associative ==
    \A T : Associates(T)
  BY ConcatAssociative DEF Associates

(* c is what follows the first k pieces in the first f bytes of all of them. *)
Follows(p, k, c, f) == Joined(p)[k] \o c = SubSeq(Joined(p)[Len(p)], 1, f)

(* What follows the first k pieces begins with the next piece; when that has   *)
(* been taken, the rest follows it.                                            *)
LEMMA NextPiece ==
    ASSUME NEW T, NEW p \in Pieces(T), NEW k \in 0 .. Len(p), NEW c \in Seq(T), Len(c) > 0,
           NEW f \in 0 .. Len(Joined(p)[Len(p)]), Follows(p, k, c, f)
    PROVE  /\ k + 1 \in 1 .. Len(p)
           /\ \A j \in 1 .. Len(c) : j <= Len(p[k + 1]) => c[j] = p[k + 1][j]
           /\ Len(p[k + 1]) <= Len(c) =>
                /\ SubSeq(c, 1, Len(p[k + 1])) = p[k + 1]
                /\ Follows(p, k + 1, SubSeq(c, Len(p[k + 1]) + 1, Len(c)), f)
  <1> DEFINE N == Len(p)
             a == Joined(p)[k]
             all == Joined(p)[N]
             x == p[k + 1]
             s == SubSeq(all, 1, f)
             rest == SubSeq(c, Len(x) + 1, Len(c))
  <1>1. N \in Nat /\ a \in Seq(T) /\ all \in Seq(T)
    <2>1. Len(p) \in Nat
      BY PiecesAre
    <2>2. Len(p) \in 0 .. Len(p)
      BY <2>1
    <2> QED
      BY <2>1, <2>2, JoinedSteps, Zenon
  <1>2. a \o c = s
    BY DEF Follows
  <1>3. Len(c) \in Nat /\ Len(a) \in Nat /\ Len(all) \in Nat /\ f \in 0 .. Len(all)
    <2>1. f \in 0 .. Len(all)
      OBVIOUS
    <2> HIDE DEF all, a
    <2> QED
      BY <1>1, <2>1, LenProperties
  <1>4. k = N => a = all
    OBVIOUS
  <1>5. k \in 0 .. N
    OBVIOUS
  <1> HIDE DEF N, a, all
  <1>6. Len(s) = f /\ \A i \in 1 .. f : s[i] = all[i]
    <2>1. \A i \in 1 .. f : all[i] \in T
      BY <1>1, <1>3, ElementOfSeq
    <2>2. /\ Len(s) = IF 1 <= f THEN f - 1 + 1 ELSE 0
          /\ \A i \in 1 .. f - 1 + 1 : s[i] = all[1 + i - 1]
      BY <1>3, <2>1, SubSeqProperties
    <2> QED
      BY <1>3, <2>2
  <1> HIDE DEF s
  <1>7. /\ Len(a) + Len(c) = f
        /\ \A j \in 1 .. Len(c) : c[j] = s[Len(a) + j]
    <2>1. /\ Len(a \o c) = Len(a) + Len(c)
          /\ \A i \in 1 .. Len(a) + Len(c) : (a \o c)[i] = IF i <= Len(a) THEN a[i] ELSE c[i - Len(a)]
      BY <1>1, ConcatProperties
    <2>2. ASSUME NEW j \in 1 .. Len(c)
          PROVE  c[j] = (a \o c)[Len(a) + j]
      <3>1. Len(a) + j \in 1 .. Len(a) + Len(c) /\ ~(Len(a) + j <= Len(a)) /\ Len(a) + j - Len(a) = j
        BY <1>3
      <3> QED
        BY <2>1, <3>1
    <2> QED
      BY <1>2, <1>6, <2>1, <2>2
  <1>8. k + 1 \in 1 .. N /\ k + 1 \in 0 .. N /\ k = (k + 1) - 1
    BY <1>1, <1>3, <1>4, <1>5, <1>7
  <1>9. x \in Seq(T)
    BY <1>8, PiecesAre DEF N
  <1>10. Joined(p)[k + 1] = a \o x
    <2>1. Joined(p)[k + 1] = Joined(p)[(k + 1) - 1] \o p[k + 1]
      BY <1>8, JoinedSteps, Zenon DEF N
    <2> QED
      BY <1>8, <2>1 DEF a
  <1>11. PICK r \in Seq(T) : all = Joined(p)[k + 1] \o r
    <2>1. N \in 0 .. Len(p) /\ k + 1 \in 0 .. N
      BY <1>1, <1>8 DEF N
    <2> QED
      BY <2>1, JoinedPrefix DEF all
  <1>12. all = (a \o x) \o r
    BY <1>10, <1>11
  <1> HIDE DEF x
  <1>13. /\ a \o x \in Seq(T) /\ Len(x) \in Nat /\ Len(a \o x) = Len(a) + Len(x)
         /\ \A j \in 1 .. Len(x) : (a \o x)[Len(a) + j] = x[j]
    <2>1. Len(x) \in Nat
      BY <1>9, LenProperties
    <2>2. /\ a \o x \in Seq(T) /\ Len(a \o x) = Len(a) + Len(x)
          /\ \A i \in 1 .. Len(a) + Len(x) : (a \o x)[i] = IF i <= Len(a) THEN a[i] ELSE x[i - Len(a)]
      BY <1>1, <1>9, ConcatProperties
    <2>3. ASSUME NEW j \in 1 .. Len(x)
          PROVE  (a \o x)[Len(a) + j] = x[j]
      <3>1. Len(a) + j \in 1 .. Len(a) + Len(x) /\ ~(Len(a) + j <= Len(a)) /\ Len(a) + j - Len(a) = j
        BY <1>3, <2>1
      <3> QED
        BY <2>2, <3>1
    <2> QED
      BY <2>1, <2>2, <2>3
  <1>14. ASSUME NEW j \in 1 .. Len(c), j <= Len(x)
         PROVE  c[j] = x[j]
    <2> DEFINE ax == a \o x
    <2>1. Len(a) + j \in 1 .. f /\ Len(a) + j \in 1 .. Len(ax) /\ j \in 1 .. Len(x)
      BY <1>3, <1>7, <1>13, <1>14
    <2>2. ax \in Seq(T) /\ all = ax \o r /\ ax[Len(a) + j] = x[j]
      BY <1>12, <1>13, <2>1
    <2> HIDE DEF ax
    <2>3. all[Len(a) + j] = ax[Len(a) + j]
      BY <2>1, <2>2, ConcatProperties, LenProperties
    <2> QED
      BY <1>6, <1>7, <2>1, <2>2, <2>3
  <1>15. ASSUME Len(x) <= Len(c)
         PROVE  /\ SubSeq(c, 1, Len(x)) = x
                /\ Follows(p, k + 1, rest, f)
    <2>1. /\ SubSeq(c, 1, Len(x)) \in Seq(T) /\ Len(SubSeq(c, 1, Len(x))) = Len(x)
          /\ \A i \in 1 .. Len(x) : SubSeq(c, 1, Len(x))[i] = c[i]
      <3>1. \A i \in 1 .. Len(x) : c[i] \in T
        BY <1>3, <1>13, <1>15, ElementOfSeq
      <3>2. /\ SubSeq(c, 1, Len(x)) \in Seq(T)
            /\ Len(SubSeq(c, 1, Len(x))) = IF 1 <= Len(x) THEN Len(x) - 1 + 1 ELSE 0
            /\ \A i \in 1 .. Len(x) - 1 + 1 : SubSeq(c, 1, Len(x))[i] = c[1 + i - 1]
        BY <1>13, <3>1, SubSeqProperties
      <3> QED
        BY <1>13, <3>2
    <2>2. SubSeq(c, 1, Len(x)) = x
      <3>1. \A i \in 1 .. Len(x) : SubSeq(c, 1, Len(x))[i] = x[i]
        BY <1>3, <1>13, <1>14, <1>15, <2>1
      <3> QED
        BY <1>9, <2>1, <3>1, SeqEqual
    <2>3. c = x \o rest
      <3>1. /\ 1 \in 1 .. Len(c) + 1 /\ Len(x) \in 1 - 1 .. Len(c) /\ Len(c) \in Len(x) .. Len(c)
        BY <1>3, <1>13, <1>15
      <3>2. SubSeq(c, 1, Len(x)) \o SubSeq(c, Len(x) + 1, Len(c)) = SubSeq(c, 1, Len(c))
        BY <3>1, ConcatAdjacentSubSeq
      <3> QED
        BY <2>2, <3>2, SubSeqFull
    <2>4. rest \in Seq(T)
      <3>1. \A i \in Len(x) + 1 .. Len(c) : c[i] \in T
        BY <1>3, <1>13, ElementOfSeq
      <3> QED
        BY <1>3, <1>13, <3>1, SubSeqProperties
    <2> HIDE DEF rest
    <2>5. (a \o x) \o rest = a \o (x \o rest)
      <3>1. a \in Seq(T) /\ x \in Seq(T) /\ rest \in Seq(T)
        BY <1>1, <1>9, <2>4
      <3>2. Associates(T)
        BY Associative
      <3> QED
        BY <3>1, <3>2, ZenonT(60) DEF Associates
    <2>6. Joined(p)[k + 1] \o rest = s
      BY <1>2, <1>10, <2>3, <2>5
    <2> QED
      BY <2>2, <2>6 DEF Follows, s, all, N
  <1> QED
    BY <1>8, <1>14, <1>15 DEF N, x

-----------------------------------------------------------------------------
(* The packets there are. *)
IsPacket(source, i) ==
    \/ source = CLIENT /\ i \in 1 .. Len(ClientPackets)
    \/ source = LOGICSERVER /\ i \in 1 .. Len(LogicPackets)
    \/ source = GATEWAY /\ i = 1

(* A packet has an id, and is a head and a body. *)
LEMMA PacketIs ==
    ASSUME NEW source, NEW i, IsPacket(source, i)
    PROVE  /\ source \in {CLIENT, LOGICSERVER, GATEWAY} /\ source # GUID
           /\ i \in Nat
           /\ Id(source, i) \in PacketId
           /\ Body(Id(source, i)) \in 0 .. PacketMaxLen
           /\ Len(Packet(source, i)) = HeadLen + Body(Id(source, i))
           /\ Len(Packet(source, i)) \in Nat /\ Len(Packet(source, i)) >= 2
           /\ \A j \in 1 .. Len(Packet(source, i)) : Packet(source, i)[j] = <<source, i, j>>
  <1>1. source \in {CLIENT, LOGICSERVER, GATEWAY} /\ source # GUID
    BY DEF IsPacket, CLIENT, LOGICSERVER, GATEWAY, GUID
  <1>2. Len(ClientPackets) \in Nat /\ Len(LogicPackets) \in Nat
    BY RelayAssumption, LenProperties DEF RelayAssumption
  <1>3. i \in Nat
    BY <1>2 DEF IsPacket
  <1>4. Id(source, i) \in PacketId
    <2>1. \A n \in 1 .. Len(ClientPackets) : ClientPackets[n] \in PacketId
      BY RelayAssumption, ElementOfSeq DEF RelayAssumption
    <2>2. \A n \in 1 .. Len(LogicPackets) : LogicPackets[n] \in PacketId
      BY RelayAssumption, ElementOfSeq DEF RelayAssumption
    <2>3. "Logout" \in PacketId
      BY DEF PacketId
    <2> QED
      BY <2>1, <2>2, <2>3 DEF IsPacket, Id, CLIENT, LOGICSERVER, GATEWAY
  <1>5. Body(Id(source, i)) \in 0 .. PacketMaxLen /\ PacketMaxLen \in Nat
    BY <1>4, RelayAssumption DEF RelayAssumption
  <1> DEFINE n == HeadLen + Body(Id(source, i))
  <1>6. n \in Nat /\ n >= 2
    BY <1>5, RelayAssumption DEF RelayAssumption
  <1>7. Packet(source, i) = [j \in 1 .. n |-> <<source, i, j>>]
    BY DEF Packet
  <1> HIDE DEF n
  <1>8. /\ Len(Packet(source, i)) = n
        /\ \A j \in 1 .. n : Packet(source, i)[j] = <<source, i, j>>
    BY <1>6, <1>7
  <1> QED
    BY <1>1, <1>3, <1>4, <1>5, <1>6, <1>8 DEF n

(* The bytes of a GUID. *)
LEMMA GuidIs ==
    ASSUME NEW known \in BOOLEAN
    PROVE  /\ GuidLen \in Nat /\ GuidLen >= 1
           /\ Len(GuidBytes(known)) = GuidLen
           /\ \E g \in 0 .. 1 : \A j \in 1 .. GuidLen : GuidBytes(known)[j] = <<GUID, g, j>>
           /\ GuidBytes(known) \in Seq(Tokens)
  <1>1. GuidLen \in Nat /\ GuidLen >= 1
    BY RelayAssumption DEF RelayAssumption
  <1> DEFINE g == IF known THEN 1 ELSE 0
             b == GuidBytes(known)
  <1>2. g \in 0 .. 1
    OBVIOUS
  <1>3. b = [j \in 1 .. GuidLen |-> <<GUID, g, j>>]
    BY DEF GuidBytes
  <1> HIDE DEF g, b
  <1>4. Len(b) = GuidLen /\ \A j \in 1 .. GuidLen : b[j] = <<GUID, g, j>>
    BY <1>1, <1>3
  <1>5. b \in Seq(Tokens)
    <2>1. \A j \in 1 .. GuidLen : <<GUID, g, j>> \in Tokens
      BY <1>2 DEF Tokens
    <2> QED
      BY <1>1, <1>3, <2>1
  <1> QED
    BY <1>1, <1>2, <1>4, <1>5 DEF b

(* What the two peers send, packet by packet. *)
ClientPieces == [n \in 1 .. Len(ClientPackets) |-> Packet(CLIENT, n)]
LogicPieces == [n \in 1 .. Len(LogicPackets) |-> GuidBytes(TRUE) \o Packet(LOGICSERVER, n)]

Raw == Nat \X Nat \X Nat

(* Packets and GUIDs are bytes: of any position, as long as it is not known how *)
(* long the streams are.                                                       *)
LEMMA RawBytes ==
    /\ \A source, i : IsPacket(source, i) => Packet(source, i) \in Seq(Raw)
    /\ GuidBytes(TRUE) \in Seq(Raw)
  <1>1. ASSUME NEW source, NEW i, IsPacket(source, i)
        PROVE  Packet(source, i) \in Seq(Raw)
    <2> DEFINE q == Packet(source, i)
               n == HeadLen + Body(Id(source, i))
    <2>1. n \in Nat /\ q = [j \in 1 .. n |-> <<source, i, j>>]
      BY <1>1, PacketIs, RelayAssumption DEF Packet, RelayAssumption
    <2>2. \A j \in 1 .. n : <<source, i, j>> \in Raw
      BY <1>1, PacketIs DEF Raw, CLIENT, LOGICSERVER, GATEWAY
    <2> HIDE DEF n, q
    <2>3. q \in Seq(Raw)
      BY <2>1, <2>2
    <2> QED
      BY <2>3 DEF q
  <1>2. GuidBytes(TRUE) \in Seq(Raw)
    <2> DEFINE b == GuidBytes(TRUE)
    <2>1. \A j \in 1 .. GuidLen : <<GUID, 1, j>> \in Raw
      BY RelayAssumption DEF Raw, GUID, RelayAssumption
    <2>2. b = [j \in 1 .. GuidLen |-> <<GUID, 1, j>>] /\ GuidLen \in Nat
      BY RelayAssumption DEF GuidBytes, RelayAssumption
    <2> HIDE DEF b
    <2>3. b \in Seq(Raw)
      BY <2>1, <2>2
    <2> QED
      BY <2>3 DEF b
  <1> QED
    BY <1>1, <1>2

(* They are sequences of bytes. *)
LEMMA RawPieces ==
    /\ Len(ClientPackets) \in Nat /\ Len(LogicPackets) \in Nat
    /\ ClientPieces \in Pieces(Raw) /\ Len(ClientPieces) = Len(ClientPackets)
    /\ LogicPieces \in Pieces(Raw) /\ Len(LogicPieces) = Len(LogicPackets)
  <1>1. Len(ClientPackets) \in Nat /\ Len(LogicPackets) \in Nat
    BY RelayAssumption, LenProperties DEF RelayAssumption
  <1>2. ClientPieces \in Pieces(Raw) /\ Len(ClientPieces) = Len(ClientPackets)
    <2>1. \A i \in 1 .. Len(ClientPackets) : Packet(CLIENT, i) \in Seq(Raw)
      BY RawBytes DEF IsPacket
    <2> QED
      BY <1>1, <2>1 DEF ClientPieces, Pieces
  <1>3. LogicPieces \in Pieces(Raw) /\ Len(LogicPieces) = Len(LogicPackets)
    <2>1. \A i \in 1 .. Len(LogicPackets) : Packet(LOGICSERVER, i) \in Seq(Raw)
      BY RawBytes DEF IsPacket
    <2>2. \A i \in 1 .. Len(LogicPackets) : GuidBytes(TRUE) \o Packet(LOGICSERVER, i) \in Seq(Raw)
      BY RawBytes, <2>1, ConcatProperties
    <2> DEFINE q(i) == GuidBytes(TRUE) \o Packet(LOGICSERVER, i)
               s == [n \in 1 .. Len(LogicPackets) |-> q(n)]
    <2>3. LogicPieces = s /\ \A i \in 1 .. Len(LogicPackets) : q(i) \in Seq(Raw)
      BY <2>2 DEF LogicPieces
    <2> HIDE DEF q
    <2>4. s \in Pieces(Raw) /\ Len(s) = Len(LogicPackets)
      BY <1>1, <2>3 DEF Pieces
    <2> QED
      BY <2>3, <2>4
  <1> QED
    BY <1>1, <1>2, <1>3

(* A piece is not longer than all of them. *)
LEMMA PieceInside ==
    ASSUME NEW T, NEW p \in Pieces(T), NEW n \in 1 .. Len(p)
    PROVE  /\ Joined(p)[Len(p)] \in Seq(T)
           /\ Len(Joined(p)[Len(p)]) \in Nat
           /\ Len(p[n]) <= Len(Joined(p)[Len(p)])
  <1> DEFINE N == Len(p)
             all == Joined(p)[N]
             b == Joined(p)[n]
             a == Joined(p)[n - 1]
             x == p[n]
  <1>1. N \in Nat /\ n \in 0 .. N /\ n - 1 \in 0 .. N /\ N \in 0 .. N /\ n \in 1 .. N
    BY PiecesAre
  <1>2. x \in Seq(T)
    BY PiecesAre
  <1>3. all \in Seq(T) /\ b \in Seq(T) /\ a \in Seq(T) /\ b = a \o x
    BY <1>1, JoinedSteps, Zenon
  <1>4. PICK r \in Seq(T) : all = b \o r
    BY <1>1, JoinedPrefix
  <1> HIDE DEF all, a, b, x
  <1>5. Len(b) = Len(a) + Len(x)
    BY <1>2, <1>3, ConcatProperties
  <1>6. Len(all) = Len(b) + Len(r)
    BY <1>3, <1>4, ConcatProperties
  <1>7. Len(all) \in Nat /\ Len(a) \in Nat /\ Len(x) \in Nat /\ Len(r) \in Nat
    BY <1>2, <1>3, <1>4, LenProperties
  <1>8. all \in Seq(T) /\ Len(all) \in Nat /\ Len(x) <= Len(all)
    BY <1>3, <1>5, <1>6, <1>7
  <1> QED
    BY <1>8 DEF all, x

(* Packets are bytes. *)
LEMMA PacketTokens ==
    ASSUME NEW source, NEW i, IsPacket(source, i)
    PROVE  Packet(source, i) \in Seq(Tokens)
  <1> DEFINE n == HeadLen + Body(Id(source, i))
             q == Packet(source, i)
  <1>1. n \in Nat /\ Len(q) = n /\ q = [j \in 1 .. n |-> <<source, i, j>>]
    BY PacketIs, RelayAssumption DEF Packet, RelayAssumption
  <1>2. \A j \in 1 .. n : <<source, i, j>> \in Tokens
    <2>1. CASE source = CLIENT /\ i \in 1 .. Len(ClientPackets)
      <3>1. Len(ClientPieces[i]) <= Len(ClientStream) /\ Len(ClientStream) \in Nat
        <4>1. ClientStream = Joined(ClientPieces)[Len(ClientPieces)]
          BY RawPieces DEF ClientStream, ClientSent, ClientPieces
        <4> QED
          BY <2>1, <4>1, RawPieces, PieceInside
      <3>2. ClientPieces[i] = q
        BY <2>1 DEF ClientPieces
      <3>3. \A j \in 1 .. n : j \in 1 .. Len(ClientStream)
        BY <1>1, <3>1, <3>2
      <3> QED
        BY <2>1, <3>3 DEF Tokens
    <2>2. CASE source = LOGICSERVER /\ i \in 1 .. Len(LogicPackets)
      <3>1. Len(LogicPieces[i]) <= Len(LogicStream) /\ Len(LogicStream) \in Nat
        <4>1. LogicStream = Joined(LogicPieces)[Len(LogicPieces)]
          BY RawPieces DEF LogicStream, LogicSent, LogicPieces
        <4> QED
          BY <2>2, <4>1, RawPieces, PieceInside
      <3>2. LogicPieces[i] = GuidBytes(TRUE) \o q
        BY <2>2 DEF LogicPieces
      <3>3. Len(LogicPieces[i]) = GuidLen + n
        <4>1. q \in Seq(Raw) /\ GuidBytes(TRUE) \in Seq(Raw)
          BY RawBytes
        <4>2. Len(GuidBytes(TRUE)) = GuidLen
          BY GuidIs
        <4> QED
          BY <1>1, <3>2, <4>1, <4>2, ConcatProperties, ZenonT(60)
      <3>4. \A j \in 1 .. n : j \in 1 .. Len(LogicStream)
        <4>1. GuidLen \in Nat
          BY RelayAssumption DEF RelayAssumption
        <4>2. n \in Nat /\ GuidLen + n <= Len(LogicStream) /\ Len(LogicStream) \in Nat
          BY <1>1, <3>1, <3>3
        <4> HIDE DEF n
        <4> QED
          BY <4>1, <4>2
      <3> QED
        BY <2>2, <3>4 DEF Tokens
    <2>3. CASE source = GATEWAY /\ i = 1
      <3>1. n = HeadLen + Body("Logout")
        BY <2>3 DEF Id, GATEWAY, CLIENT, LOGICSERVER
      <3> QED
        BY <2>3, <3>1 DEF Tokens
    <2> QED
      BY <2>1, <2>2, <2>3 DEF IsPacket
  <1> HIDE DEF n, q
  <1>3. q \in Seq(Tokens)
    BY <1>1, <1>2
  <1> QED
    BY <1>3 DEF q

(* What the peers send is made of packets. *)
LEMMA Streams ==
    /\ ClientPieces \in Pieces(Tokens) /\ Len(ClientPieces) = Len(ClientPackets)
    /\ LogicPieces \in Pieces(Tokens) /\ Len(LogicPieces) = Len(LogicPackets)
    /\ \A n \in 1 .. Len(ClientPackets) : ClientPieces[n] = Packet(CLIENT, n)
    /\ \A n \in 1 .. Len(LogicPackets) :
            LogicPieces[n] = GuidBytes(TRUE) \o Packet(LOGICSERVER, n)
    /\ ClientSent = Joined(ClientPieces) /\ ClientStream = Joined(ClientPieces)[Len(ClientPieces)]
    /\ LogicSent = Joined(LogicPieces) /\ LogicStream = Joined(LogicPieces)[Len(LogicPieces)]
    /\ ClientStream \in Seq(Tokens) /\ Len(ClientStream) \in Nat
    /\ LogicStream \in Seq(Tokens) /\ Len(LogicStream) \in Nat
  <1>1. ClientPieces \in Pieces(Tokens) /\ Len(ClientPieces) = Len(ClientPackets)
    <2>1. \A i \in 1 .. Len(ClientPackets) : Packet(CLIENT, i) \in Seq(Tokens)
      BY PacketTokens DEF IsPacket
    <2> QED
      BY <2>1, RawPieces DEF ClientPieces, Pieces
  <1>2. LogicPieces \in Pieces(Tokens) /\ Len(LogicPieces) = Len(LogicPackets)
    <2>1. \A i \in 1 .. Len(LogicPackets) : Packet(LOGICSERVER, i) \in Seq(Tokens)
      BY PacketTokens DEF IsPacket
    <2>2. \A i \in 1 .. Len(LogicPackets) :
            GuidBytes(TRUE) \o Packet(LOGICSERVER, i) \in Seq(Tokens)
      BY <2>1, GuidIs, ConcatProperties
    <2> DEFINE q(i) == GuidBytes(TRUE) \o Packet(LOGICSERVER, i)
               s == [n \in 1 .. Len(LogicPackets) |-> q(n)]
    <2>3. LogicPieces = s /\ \A i \in 1 .. Len(LogicPackets) : q(i) \in Seq(Tokens)
      BY <2>2 DEF LogicPieces
    <2> HIDE DEF q
    <2>4. s \in Pieces(Tokens) /\ Len(s) = Len(LogicPackets)
      BY <2>3, RawPieces DEF Pieces
    <2> QED
      BY <2>3, <2>4
  <1>3. /\ \A n \in 1 .. Len(ClientPackets) : ClientPieces[n] = Packet(CLIENT, n)
        /\ \A n \in 1 .. Len(LogicPackets) :
              LogicPieces[n] = GuidBytes(TRUE) \o Packet(LOGICSERVER, n)
    BY DEF ClientPieces, LogicPieces
  <1>4. /\ ClientSent = Joined(ClientPieces) /\ ClientStream = Joined(ClientPieces)[Len(ClientPieces)]
        /\ LogicSent = Joined(LogicPieces) /\ LogicStream = Joined(LogicPieces)[Len(LogicPieces)]
    BY <1>1, <1>2 DEF ClientSent, LogicSent, ClientStream, LogicStream, ClientPieces, LogicPieces
  <1>5. ASSUME NEW p \in Pieces(Tokens)
        PROVE  Joined(p)[Len(p)] \in Seq(Tokens) /\ Len(Joined(p)[Len(p)]) \in Nat
    <2>1. Len(p) \in 0 .. Len(p)
      BY PiecesAre
    <2>2. Joined(p)[Len(p)] \in Seq(Tokens)
      BY <2>1, JoinedSteps, Zenon
    <2> DEFINE all == Joined(p)[Len(p)]
    <2> HIDE DEF all
    <2>3. all \in Seq(Tokens)
      BY <2>2 DEF all
    <2>4. Len(all) \in Nat
      BY <2>3, LenProperties
    <2> QED
      BY <2>3, <2>4 DEF all
  <1>6. /\ ClientStream \in Seq(Tokens) /\ Len(ClientStream) \in Nat
        /\ LogicStream \in Seq(Tokens) /\ Len(LogicStream) \in Nat
    BY <1>1, <1>2, <1>4, <1>5
  <1> QED
    BY <1>1, <1>2, <1>3, <1>4, <1>6

(* c is a and then b. *)
Placed(T, a, b, c) ==
    /\ c \in Seq(T)
    /\ Len(a) \in Nat /\ Len(b) \in Nat /\ Len(c) = Len(a) + Len(b)
    /\ \A i \in 1 .. Len(a) : c[i] = a[i]
    /\ \A j \in 1 .. Len(b) : c[Len(a) + j] = b[j]

(* Where the bytes of a concatenation are. *)
LEMMA ConcatAt ==
    ASSUME NEW T, NEW a \in Seq(T), NEW b \in Seq(T), NEW c, c = a \o b
    PROVE  Placed(T, a, b, c)
  <1>1. Len(a) \in Nat /\ Len(b) \in Nat
    BY LenProperties
  <1>2. /\ a \o b \in Seq(T) /\ Len(a \o b) = Len(a) + Len(b)
        /\ \A i \in 1 .. Len(a) + Len(b) : (a \o b)[i] = IF i <= Len(a) THEN a[i] ELSE b[i - Len(a)]
    BY ConcatProperties
  <1>3. ASSUME NEW i \in 1 .. Len(a)
        PROVE  c[i] = a[i]
    BY <1>1, <1>2
  <1>4. ASSUME NEW j \in 1 .. Len(b)
        PROVE  c[Len(a) + j] = b[j]
    <2>1. Len(a) + j \in 1 .. Len(a) + Len(b) /\ ~(Len(a) + j <= Len(a)) /\ Len(a) + j - Len(a) = j
      BY <1>1
    <2> QED
      BY <1>2, <2>1
  <1> QED
    BY <1>1, <1>2, <1>3, <1>4 DEF Placed

(* The last byte of a packet, and what byte u may come after byte t. *)
EndsPacket(t) == t[1] # GUID /\ t[3] = Len(Packet(t[1], t[2]))
GoesOn(t, u) ==
    CASE EndsPacket(t)                    -> u[1] = GUID /\ u[3] = 1
      [] t[1] = GUID /\ t[3] = GuidLen   -> u[1] # GUID /\ u[3] = 1
      [] OTHER                           -> u = <<t[1], t[2], t[3] + 1>>

(* A GUID and a packet after whole packets behind GUIDs. *)
LEMMA FramedAppend ==
    ASSUME NEW up \in Seq(Tokens), WellFramed(up), NEW known \in BOOLEAN,
           NEW source, NEW n, IsPacket(source, n),
           NEW w, w = up \o (GuidBytes(known) \o Packet(source, n))
    PROVE  WellFramed(w) /\ w \in Seq(Tokens)
  <1> DEFINE q == Packet(source, n)
             L == Len(up)
             P == Len(q)
  <1>1. \A x : WellFramed(x) <=>
            \A i \in 1 .. Len(x) : \/ i = Len(x) /\ EndsPacket(x[i])
                                   \/ i < Len(x) /\ GoesOn(x[i], x[i + 1])
    BY DEF WellFramed, EndsPacket, GoesOn
  <1>2. PICK g \in 0 .. 1 : \A j \in 1 .. GuidLen : GuidBytes(known)[j] = <<GUID, g, j>>
    BY GuidIs
  <1> DEFINE b == GuidBytes(known)
  <1>3. /\ b \in Seq(Tokens) /\ Len(b) = GuidLen /\ GuidLen \in Nat /\ GuidLen >= 1
        /\ \A j \in 1 .. GuidLen : b[j] = <<GUID, g, j>>
    BY <1>2, GuidIs
  <1>4. /\ q \in Seq(Tokens) /\ P \in Nat /\ P >= 2
        /\ \A j \in 1 .. P : q[j] = <<source, n, j>>
    BY PacketTokens, PacketIs
  <1>5. source # GUID
    BY PacketIs
  <1>6. w = up \o (b \o q) /\ P = Len(Packet(source, n))
    OBVIOUS
  <1> HIDE DEF q, b, L, P
  <1> DEFINE bq == b \o q
  <1>7. /\ bq \in Seq(Tokens) /\ Len(bq) = GuidLen + P
        /\ \A j \in 1 .. GuidLen : bq[j] = b[j]
        /\ \A j \in 1 .. P : bq[GuidLen + j] = q[j]
    <2>1. bq = b \o q
      OBVIOUS
    <2> HIDE DEF bq
    <2>2. /\ bq \in Seq(Tokens) /\ Len(bq) = Len(b) + Len(q)
          /\ \A i \in 1 .. Len(b) : bq[i] = b[i]
          /\ \A j \in 1 .. Len(q) : bq[Len(b) + j] = q[j]
      <3>1. Placed(Tokens, b, q, bq)
        BY <1>3, <1>4, <2>1, ConcatAt
      <3> QED
        BY <3>1 DEF Placed
    <2> QED
      BY <1>3, <2>2 DEF P
  <1>8. w = up \o bq
    BY <1>6
  <1> HIDE DEF bq
  <1>9. /\ w \in Seq(Tokens) /\ L \in Nat /\ Len(w) = L + (GuidLen + P)
        /\ \A i \in 1 .. L : w[i] = up[i]
        /\ \A j \in 1 .. GuidLen + P : w[L + j] = bq[j]
    <2>1. /\ w \in Seq(Tokens) /\ Len(up) \in Nat /\ Len(w) = Len(up) + Len(bq)
          /\ \A i \in 1 .. Len(up) : w[i] = up[i]
          /\ \A j \in 1 .. Len(bq) : w[Len(up) + j] = bq[j]
      <3>1. Placed(Tokens, up, bq, w)
        BY <1>7, <1>8, ConcatAt
      <3> QED
        BY <3>1 DEF Placed
    <2> QED
      BY <1>7, <2>1 DEF L
  <1>10. \A i \in 1 .. L : w[i] = up[i]
    BY <1>9
  <1>11. ASSUME NEW j \in 1 .. GuidLen
         PROVE  w[L + j] = <<GUID, g, j>>
    <2>1. j \in 1 .. GuidLen + P
      BY <1>3, <1>4
    <2> QED
      BY <1>3, <1>7, <1>9, <2>1
  <1>12. ASSUME NEW j \in 1 .. P
         PROVE  w[(L + GuidLen) + j] = <<source, n, j>>
    <2>1. GuidLen + j \in 1 .. GuidLen + P /\ (L + GuidLen) + j = L + (GuidLen + j)
      BY <1>3, <1>4, <1>9
    <2>2. w[L + (GuidLen + j)] = q[j]
      BY <1>7, <1>9, <2>1
    <2> QED
      BY <1>4, <2>1, <2>2
  <1>13. \A i \in 1 .. L : \/ i = L /\ EndsPacket(up[i])
                           \/ i < L /\ GoesOn(up[i], up[i + 1])
    BY <1>1 DEF L
  <1>14. ASSUME NEW i \in 1 .. Len(w)
         PROVE  \/ i = Len(w) /\ EndsPacket(w[i])
                \/ i < Len(w) /\ GoesOn(w[i], w[i + 1])
    <2>1. CASE i < L
      <3>1. i \in 1 .. L /\ i + 1 \in 1 .. L /\ i < Len(w)
        BY <1>3, <1>4, <1>9, <2>1
      <3>2. w[i] = up[i] /\ w[i + 1] = up[i + 1]
        BY <1>10, <3>1
      <3>3. GoesOn(up[i], up[i + 1])
        BY <1>13, <2>1, <3>1
      <3> QED
        BY <3>1, <3>2, <3>3
    <2>2. CASE i = L
      <3>1. i \in 1 .. L /\ 1 \in 1 .. GuidLen /\ i < Len(w)
        BY <1>3, <1>4, <1>9, <2>2
      <3>2. w[i] = up[i] /\ w[i + 1] = <<GUID, g, 1>>
        BY <1>10, <1>11, <2>2, <3>1
      <3>3. EndsPacket(up[i])
        BY <1>13, <2>2, <3>1
      <3>4. EndsPacket(w[i]) /\ w[i + 1][1] = GUID /\ w[i + 1][3] = 1
        BY <3>2, <3>3
      <3>5. GoesOn(w[i], w[i + 1])
        BY <3>4 DEF GoesOn, EndsPacket
      <3> QED
        BY <3>1, <3>5
    <2>3. CASE i > L /\ i < L + GuidLen
      <3> DEFINE j == i - L
      <3>1. j \in 1 .. GuidLen /\ j + 1 \in 1 .. GuidLen /\ i = L + j /\ i + 1 = L + (j + 1)
            /\ i < Len(w) /\ j # GuidLen
        BY <1>3, <1>4, <1>9, <2>3
      <3> HIDE DEF j
      <3>2. w[i] = <<GUID, g, j>> /\ w[i + 1] = <<GUID, g, j + 1>>
        BY <1>11, <3>1
      <3>3. w[i][1] = GUID /\ w[i][2] = g /\ w[i][3] = j
        BY <3>2
      <3>4. GoesOn(w[i], w[i + 1])
        BY <3>1, <3>2, <3>3 DEF GoesOn, EndsPacket
      <3> QED
        BY <3>1, <3>4
    <2>4. CASE i = L + GuidLen
      <3>1. GuidLen \in 1 .. GuidLen /\ 1 \in 1 .. P /\ i < Len(w)
        BY <1>3, <1>4, <1>9, <2>4
      <3>2. w[i] = <<GUID, g, GuidLen>> /\ w[i + 1] = <<source, n, 1>>
        BY <1>11, <1>12, <2>4, <3>1
      <3>3. w[i][1] = GUID /\ w[i][3] = GuidLen /\ w[i + 1][1] # GUID /\ w[i + 1][3] = 1
        BY <1>5, <3>2
      <3>4. GoesOn(w[i], w[i + 1])
        BY <3>3 DEF GoesOn, EndsPacket
      <3> QED
        BY <3>1, <3>4
    <2>5. CASE i > L + GuidLen /\ i < Len(w)
      <3> DEFINE j == i - (L + GuidLen)
      <3>1. /\ j \in 1 .. P /\ j + 1 \in 1 .. P /\ j # P
            /\ i = (L + GuidLen) + j /\ i + 1 = (L + GuidLen) + (j + 1)
        BY <1>3, <1>4, <1>9, <2>5
      <3> HIDE DEF j
      <3>2. w[i] = <<source, n, j>> /\ w[i + 1] = <<source, n, j + 1>>
        BY <1>12, <3>1
      <3>3. w[i][1] = source /\ w[i][2] = n /\ w[i][3] = j
        BY <3>2
      <3>4. ~EndsPacket(w[i])
        BY <1>6, <3>1, <3>3 DEF EndsPacket
      <3>5. GoesOn(w[i], w[i + 1])
        BY <1>5, <3>2, <3>3, <3>4 DEF GoesOn
      <3> QED
        BY <2>5, <3>5
    <2>6. CASE i = Len(w)
      <3>1. P \in 1 .. P /\ i = (L + GuidLen) + P
        BY <1>3, <1>4, <1>9, <2>6
      <3>2. w[i] = <<source, n, P>>
        BY <1>12, <3>1
      <3>3. w[i][1] = source /\ w[i][2] = n /\ w[i][3] = P
        BY <3>2
      <3>4. EndsPacket(w[i])
        BY <1>5, <1>6, <3>3 DEF EndsPacket
      <3> QED
        BY <2>6, <3>4
    <2>7. \/ i < L \/ i = L \/ (i > L /\ i < L + GuidLen) \/ i = L + GuidLen
          \/ (i > L + GuidLen /\ i < Len(w)) \/ i = Len(w)
      BY <1>3, <1>4, <1>9
    <2> QED
      BY <2>1, <2>2, <2>3, <2>4, <2>5, <2>6, <2>7
  <1>15. WellFramed(w)
    BY <1>1, <1>14
  <1> QED
    BY <1>9, <1>15

(* Of a GUID and a packet, the bytes of the client are those of its packets. *)
LEMMA ClientBytes ==
    ASSUME NEW up \in Seq(Tokens), NEW known \in BOOLEAN,
           NEW source, NEW n, IsPacket(source, n)
    PROVE  Bytes(CLIENT, up \o (GuidBytes(known) \o Packet(source, n)))
             = IF source = CLIENT THEN Bytes(CLIENT, up) \o Packet(source, n)
               ELSE Bytes(CLIENT, up)
  <1> DEFINE q == Packet(source, n)
             b == GuidBytes(known)
  <1>1. b \in Seq(Tokens) /\ \A j \in 1 .. Len(b) : b[j][1] # CLIENT
    <2>1. PICK g \in 0 .. 1 : \A j \in 1 .. GuidLen : b[j] = <<GUID, g, j>>
      BY GuidIs
    <2>2. b \in Seq(Tokens) /\ Len(b) = GuidLen
      BY GuidIs
    <2> QED
      BY <2>1, <2>2 DEF GUID, CLIENT
  <1>2. q \in Seq(Tokens) /\ \A j \in 1 .. Len(q) : q[j][1] = source
    <2>1. \A j \in 1 .. Len(q) : q[j] = <<source, n, j>>
      BY PacketIs
    <2> QED
      BY <2>1, PacketTokens
  <1> HIDE DEF q, b
  <1>3. b \o q \in Seq(Tokens)
    BY <1>1, <1>2, ConcatProperties
  <1>4. /\ Bytes(CLIENT, up) \in Seq(Tokens)
        /\ Bytes(CLIENT, up \o (b \o q)) = Bytes(CLIENT, up) \o (Bytes(CLIENT, b) \o Bytes(CLIENT, q))
    <2>1. Bytes(CLIENT, b \o q) = Bytes(CLIENT, b) \o Bytes(CLIENT, q)
      <3>1. Splits(Tokens, CLIENT)
        BY BytesOfConcat
      <3> QED
        BY <1>1, <1>2, <3>1 DEF Splits
    <2>2. Bytes(CLIENT, up) \in Seq(Tokens)
          /\ Bytes(CLIENT, up \o (b \o q)) = Bytes(CLIENT, up) \o Bytes(CLIENT, b \o q)
      <3>1. Splits(Tokens, CLIENT)
        BY BytesOfConcat
      <3> QED
        BY <1>3, <3>1 DEF Splits
    <2> QED
      BY <2>1, <2>2
  <1>5. Bytes(CLIENT, b) = <<>>
    BY <1>1, BytesNone
  <1> DEFINE u == Bytes(CLIENT, up)
  <1>6. CASE source = CLIENT
    <2>1. Bytes(CLIENT, q) = q
      BY <1>2, <1>6, BytesAll
    <2>2. <<>> \o q = q
      BY <1>2, ConcatEmptySeq
    <2> QED
      BY <1>4, <1>5, <1>6, <2>1, <2>2 DEF q, b
  <1>7. CASE source # CLIENT
    <2>1. Bytes(CLIENT, q) = <<>>
      BY <1>2, <1>7, BytesNone
    <2>2. <<>> \o <<>> = <<>> /\ u \o <<>> = u
      <3>1. u \in Seq(Tokens)
        BY <1>4
      <3> HIDE DEF u
      <3> QED
        BY <3>1, ConcatEmptySeq
    <2> QED
      BY <1>4, <1>5, <1>7, <2>1, <2>2 DEF q, b
  <1> QED
    BY <1>6, <1>7

-----------------------------------------------------------------------------
(* The rings have lengths, and bytes in them. *)
LEMMA RingsSized ==
    CI!Sized /\ CO!Sized /\ LI!Sized /\ LO!Sized
  <1>1. Junk \in Tokens
    BY DEF Tokens
  <1>2. HeadLen \in Nat /\ {ClientIn, ClientOut, LogicIn, LogicOut} \subseteq Nat \ {0}
    BY RelayAssumption DEF RelayAssumption
  <1> QED
    BY <1>1, <1>2 DEF CI!Sized, CO!Sized, LI!Sized, LO!Sized

(* What a send to the logic server leaves in the ring, and what it takes out. *)
LEMMA SendUp ==
    ASSUME NEW b \in LO!Rings, b.reader = 0, NEW partial, NEW o \in LOut!Send(b, partial)
    PROVE  /\ o.buf \in LO!Rings /\ o.buf.reader = 0
           /\ o.put \in Seq(Tokens) /\ o.out \in Seq(Tokens)
           /\ LOut!Contents(o.buf) \in Seq(Tokens)
           /\ LOut!Contents(b) = o.out \o LOut!Contents(o.buf)
           /\ o.result = "SUCESS" => LOut!GetWriteSize(o.buf) = LogicOut
  <1>1. o \in LO!Send(b, partial)
    BY SameLogicOut
  <1>2. /\ o.buf \in LO!Rings /\ o.put \in Seq(Tokens) /\ o.out \in Seq(Tokens)
        /\ LO!Contents(b) = o.out \o LO!Contents(o.buf)
        /\ o.buf.reader = 0
        /\ o.result = "SUCESS" => LO!GetReadSize(o.buf) = 0
    BY <1>1, RingsSized, LO!SendTakes
  <1>3. LO!Contents(o.buf) \in Seq(Tokens)
    BY <1>2, RingsSized, LO!BytesInRing
  <1>4. LO!GetReadSize(o.buf) = 0 => LO!GetWriteSize(o.buf) = LogicOut
    <2>1. /\ LO!GetReadSize(o.buf) + LO!GetWriteSize(o.buf) = LogicOut
          /\ LO!GetWriteSize(o.buf) \in 1 .. LogicOut
      BY <1>2, RingsSized, LO!RoomLeft
    <2> QED
      BY <2>1, RelayAssumption DEF RelayAssumption
  <1> QED
    BY <1>2, <1>3, <1>4, SameLogicOut

(* And to the client. *)
LEMMA SendDown ==
    ASSUME NEW b \in CO!Rings, b.reader = 0, NEW partial, NEW o \in COut!Send(b, partial)
    PROVE  /\ o.buf \in CO!Rings /\ o.buf.reader = 0
           /\ o.put \in Seq(Tokens) /\ o.out \in Seq(Tokens)
           /\ COut!Contents(o.buf) \in Seq(Tokens)
           /\ COut!Contents(b) = o.out \o COut!Contents(o.buf)
           /\ o.result = "SUCESS" => COut!GetWriteSize(o.buf) = ClientOut
  <1>1. o \in CO!Send(b, partial)
    BY SameClientOut
  <1>2. /\ o.buf \in CO!Rings /\ o.put \in Seq(Tokens) /\ o.out \in Seq(Tokens)
        /\ CO!Contents(b) = o.out \o CO!Contents(o.buf)
        /\ o.buf.reader = 0
        /\ o.result = "SUCESS" => CO!GetReadSize(o.buf) = 0
    BY <1>1, RingsSized, CO!SendTakes
  <1>3. CO!Contents(o.buf) \in Seq(Tokens)
    BY <1>2, RingsSized, CO!BytesInRing
  <1>4. CO!GetReadSize(o.buf) = 0 => CO!GetWriteSize(o.buf) = ClientOut
    <2>1. /\ CO!GetReadSize(o.buf) + CO!GetWriteSize(o.buf) = ClientOut
          /\ CO!GetWriteSize(o.buf) \in 1 .. ClientOut
      BY <1>2, RingsSized, CO!RoomLeft
    <2> QED
      BY <2>1, RelayAssumption DEF RelayAssumption
  <1> QED
    BY <1>2, <1>3, <1>4, SameClientOut

(* q has been written behind what is in the ring b to the logic server, if every *)
(* assertion held and no field filled the ring.                                  *)
WrittenUp(b, w, q) ==
    /\ w.buf \in LO!Rings /\ w.buf.reader = 0
    /\ w.ok \in BOOLEAN /\ w.wiped \in BOOLEAN /\ w.overrun = FALSE
    /\ w.ok /\ ~w.wiped => LOut!Contents(w.buf) = LOut!Contents(b) \o q
    /\ Len(q) <= LOut!GetWriteSize(b) => w.ok \/ w.wiped

(* What SendPacketToServer and SendDataToServer write: the GUID and a packet. *)
LEMMA WriteUp ==
    ASSUME NEW b \in LO!Rings, b.reader = 0, NEW g \in Seq(Tokens), NEW p \in Seq(Tokens),
           NEW w,
           \/ Len(p) >= HeadLen /\ w = LOut!PutPacket(LOut!Put(LOut!Begin(b), g), p)
           \/ w = LOut!Put(LOut!Put(LOut!Begin(b), g), p)
    PROVE  WrittenUp(b, w, g \o p)
  <1> DEFINE x == LO!Begin(b)
             y == LO!Put(x, g)
  <1>1. (Len(p) >= HeadLen /\ w = LO!PutPacket(y, p)) \/ w = LO!Put(y, p)
    BY SameLogicOut
  <1>2. x \in LO!Writers /\ x.buf = b /\ x.ok /\ ~x.wiped /\ ~x.overrun
    BY LO!Begun
  <1> HIDE DEF x
  <1>3. LO!Wrote(x, y, g)
    BY <1>2, RingsSized, LO!PutField
  <1> HIDE DEF y
  <1>4. y \in LO!Writers
    BY <1>3 DEF LO!Wrote
  <1>5. LO!Wrote(y, w, p)
    <2>1. CASE Len(p) >= HeadLen /\ w = LO!PutPacket(y, p)
      BY <1>4, <2>1, RingsSized, LO!PutWholePacket
    <2>2. CASE w = LO!Put(y, p)
      BY <1>4, <2>2, RingsSized, LO!PutField
    <2> QED
      BY <1>1, <2>1, <2>2
  <1>6. LO!Wrote(x, w, g \o p)
    BY <1>2, <1>3, <1>5, RingsSized, LO!WroteBoth
  <1>7. w \in LO!Writers
    BY <1>6 DEF LO!Wrote
  <1>8. /\ w.buf \in LO!Rings /\ w.ok \in BOOLEAN /\ w.wiped \in BOOLEAN /\ w.overrun \in BOOLEAN
        /\ x.overrun \in BOOLEAN
    BY <1>2, <1>7 DEF LO!Writers
  <1> DEFINE q == g \o p
  <1>9. /\ w.ok /\ ~w.wiped => LO!Contents(w.buf) = LO!Contents(b) \o q
        /\ Len(q) <= LO!GetWriteSize(b) => w.ok \/ w.wiped
        /\ w.buf.reader = 0 /\ w.overrun = x.overrun
    BY <1>2, <1>6 DEF LO!Wrote
  <1> HIDE DEF q
  <1>10. WrittenUp(b, w, q)
    BY <1>2, <1>8, <1>9, SameLogicOut DEF WrittenUp
  <1> QED
    BY <1>10 DEF q

(* And behind what is in the ring to the client. *)
WrittenDown(b, w, q) ==
    /\ w.buf \in CO!Rings /\ w.buf.reader = 0
    /\ w.ok \in BOOLEAN /\ w.wiped \in BOOLEAN /\ w.overrun = FALSE
    /\ w.ok /\ ~w.wiped => COut!Contents(w.buf) = COut!Contents(b) \o q
    /\ Len(q) <= COut!GetWriteSize(b) => w.ok \/ w.wiped

(* What SendPacketToClient and SendDataToClient write: a packet. *)
LEMMA WriteDown ==
    ASSUME NEW b \in CO!Rings, b.reader = 0, NEW p \in Seq(Tokens), NEW w,
           \/ Len(p) >= HeadLen /\ w = COut!PutPacket(COut!Begin(b), p)
           \/ w = COut!Put(COut!Begin(b), p)
    PROVE  WrittenDown(b, w, p)
  <1> DEFINE x == CO!Begin(b)
  <1>1. (Len(p) >= HeadLen /\ w = CO!PutPacket(x, p)) \/ w = CO!Put(x, p)
    BY SameClientOut
  <1>2. x \in CO!Writers /\ x.buf = b /\ x.ok /\ ~x.wiped /\ ~x.overrun
    BY CO!Begun
  <1> HIDE DEF x
  <1>3. CO!Wrote(x, w, p)
    <2>1. CASE Len(p) >= HeadLen /\ w = CO!PutPacket(x, p)
      BY <1>2, <2>1, RingsSized, CO!PutWholePacket
    <2>2. CASE w = CO!Put(x, p)
      BY <1>2, <2>2, RingsSized, CO!PutField
    <2> QED
      BY <1>1, <2>1, <2>2
  <1>4. w \in CO!Writers
    BY <1>3 DEF CO!Wrote
  <1>5. /\ w.buf \in CO!Rings /\ w.ok \in BOOLEAN /\ w.wiped \in BOOLEAN /\ w.overrun \in BOOLEAN
        /\ x.overrun \in BOOLEAN
    BY <1>2, <1>4 DEF CO!Writers
  <1>6. /\ w.ok /\ ~w.wiped => CO!Contents(w.buf) = CO!Contents(b) \o p
        /\ Len(p) <= CO!GetWriteSize(b) => w.ok \/ w.wiped
        /\ w.buf.reader = 0 /\ w.overrun = x.overrun
    BY <1>2, <1>3 DEF CO!Wrote
  <1> QED
    BY <1>2, <1>5, <1>6, SameClientOut DEF WrittenDown

(* How many bytes the ring from the client has. *)
LEMMA ReadClient ==
    ASSUME NEW b \in CI!Rings
    PROVE  /\ CIn!Contents(b) \in Seq(Tokens)
           /\ Len(CIn!Contents(b)) = CIn!GetReadSize(b)
           /\ CIn!GetReadSize(b) \in 0 .. ClientIn - 1
           /\ CIn!GetReadSize(b) + CIn!GetWriteSize(b) = ClientIn
  BY RingsSized, SameClientIn, CI!BytesInRing, CI!RoomLeft

(* The same of the logic server. *)
LEMMA ReadLogic ==
    ASSUME NEW b \in LI!Rings
    PROVE  /\ LIn!Contents(b) \in Seq(Tokens)
           /\ Len(LIn!Contents(b)) = LIn!GetReadSize(b)
           /\ LIn!GetReadSize(b) \in 0 .. LogicIn - 1
           /\ LIn!GetReadSize(b) + LIn!GetWriteSize(b) = LogicIn
  BY RingsSized, SameLogicIn, LI!BytesInRing, LI!RoomLeft

(* Taking n bytes leaves the others. *)
LEMMA TakeClient ==
    ASSUME NEW b \in CI!Rings, NEW n \in 0 .. CIn!GetReadSize(b)
    PROVE  /\ CIn!ReadPtr(b, n) \in CI!Rings
           /\ CIn!Contents(CIn!ReadPtr(b, n)) = SubSeq(CIn!Contents(b), n + 1, Len(CIn!Contents(b)))
  <1>1. n \in 0 .. CI!GetReadSize(b)
    BY SameClientIn
  <1>2. /\ CI!ReadPtr(b, n) \in CI!Rings
        /\ CI!Contents(CI!ReadPtr(b, n)) = SubSeq(CI!Contents(b), n + 1, Len(CI!Contents(b)))
    BY <1>1, RingsSized, CI!ReadPtrTakes
  <1> QED
    BY <1>2, SameClientIn

(* The same of the logic server. *)
LEMMA TakeLogic ==
    ASSUME NEW b \in LI!Rings, NEW n \in 0 .. LIn!GetReadSize(b)
    PROVE  /\ LIn!ReadPtr(b, n) \in LI!Rings
           /\ LIn!Contents(LIn!ReadPtr(b, n)) = SubSeq(LIn!Contents(b), n + 1, Len(LIn!Contents(b)))
  <1>1. n \in 0 .. LI!GetReadSize(b)
    BY SameLogicIn
  <1>2. /\ LI!ReadPtr(b, n) \in LI!Rings
        /\ LI!Contents(LI!ReadPtr(b, n)) = SubSeq(LI!Contents(b), n + 1, Len(LI!Contents(b)))
    BY <1>1, RingsSized, LI!ReadPtrTakes
  <1> QED
    BY <1>2, SameLogicIn

(* Bytes read in place: those of the ring, unless they lie past its end. *)
LEMMA InPlaceClient ==
    ASSUME NEW b \in CI!Rings, NEW n \in Nat
    PROVE  /\ CIn!InPlace(b, 0, n) \in Seq(Tokens)
           /\ Len(CIn!InPlace(b, 0, n)) = n
           /\ n <= CIn!GetReadSize(b) /\ b.reader + n <= ClientIn =>
                CIn!InPlace(b, 0, n) = SubSeq(CIn!Contents(b), 1, n)
  <1>1. 0 \in Nat
    OBVIOUS
  <1>2. /\ CI!InPlace(b, 0, n) \in Seq(Tokens)
        /\ Len(CI!InPlace(b, 0, n)) = n
        /\ 0 + n <= CI!GetReadSize(b) /\ b.reader + 0 + n <= ClientIn =>
             CI!InPlace(b, 0, n) = SubSeq(CI!Contents(b), 0 + 1, 0 + n)
    BY <1>1, RingsSized, CI!InPlaceBytes
  <1>3. 0 + n = n /\ 0 + 1 = 1 /\ b.reader + 0 + n = b.reader + n
    BY DEF CI!Rings, CI!Places
  <1> QED
    BY <1>2, <1>3, SameClientIn

(* The same of the logic server, and behind its GUIDs. *)
LEMMA InPlaceLogic ==
    ASSUME NEW b \in LI!Rings, NEW off \in Nat, NEW n \in Nat
    PROVE  /\ LIn!InPlace(b, off, n) \in Seq(Tokens)
           /\ Len(LIn!InPlace(b, off, n)) = n
           /\ off + n <= LIn!GetReadSize(b) /\ b.reader + off + n <= LogicIn =>
                LIn!InPlace(b, off, n) = SubSeq(LIn!Contents(b), off + 1, off + n)
  BY RingsSized, SameLogicIn, LI!InPlaceBytes

-----------------------------------------------------------------------------
(* A byte of a packet is of one there is. *)
LEMMA TokenIs ==
    ASSUME NEW t \in Tokens
    PROVE  t[1] \in {CLIENT, LOGICSERVER, GATEWAY} => IsPacket(t[1], t[2])
  <1>1. CASE t = Junk
    BY <1>1 DEF Junk, CLIENT, LOGICSERVER, GATEWAY
  <1>2. CASE t \in {<<CLIENT, i, j>> : i \in 1 .. Len(ClientPackets), j \in 1 .. Len(ClientStream)}
    BY <1>2 DEF IsPacket
  <1>3. CASE t \in {<<LOGICSERVER, i, j>> : i \in 1 .. Len(LogicPackets), j \in 1 .. Len(LogicStream)}
    BY <1>3 DEF IsPacket
  <1>4. CASE t \in {<<GATEWAY, 1, j>> : j \in 1 .. HeadLen + Body("Logout")}
    BY <1>4 DEF IsPacket
  <1>5. CASE t \in {<<GUID, g, j>> : g \in 0 .. 1, j \in 1 .. GuidLen}
    BY <1>5 DEF GUID, CLIENT, LOGICSERVER, GATEWAY
  <1> QED
    BY <1>1, <1>2, <1>3, <1>4, <1>5 DEF Tokens

(* Whatever is taken for a head, it has an id and a length. *)
LEMMA HeadsTyped ==
    ASSUME NEW bytes \in Seq(Tokens), Len(bytes) >= 2, NEW h \in HeadsOf(bytes)
    PROVE  h.id \in PacketId \cup {"bad"} /\ h.len \in Nat
  <1>1. bytes[1] \in Tokens /\ bytes[2] \in Tokens
    BY ElementOfSeq, LenProperties
  <1>2. h.id \in IdOf(bytes[1]) /\ h.len \in LenOf(bytes[2])
    BY DEF HeadsOf
  <1>3. \A t \in Tokens : IdOf(t) \subseteq PacketId \cup {"bad"}
    BY TokenIs, PacketIs DEF IdOf
  <1>4. \A t \in Tokens : LenOf(t) \subseteq Nat
    <2>1. AnyLen \subseteq Nat
      BY RelayAssumption DEF AnyLen, RelayAssumption
    <2>2. ASSUME NEW t \in Tokens, t[1] \in {CLIENT, LOGICSERVER, GATEWAY}
          PROVE  Body(Id(t[1], t[2])) \in Nat
      <3>1. IsPacket(t[1], t[2])
        BY <2>2, TokenIs
      <3>2. Body(Id(t[1], t[2])) \in 0 .. PacketMaxLen /\ PacketMaxLen \in Nat
        BY <3>1, PacketIs, RelayAssumption DEF RelayAssumption
      <3> QED
        BY <3>2
    <2> QED
      BY <2>1, <2>2 DEF LenOf
  <1> QED
    BY <1>1, <1>2, <1>3, <1>4

(* The head of a packet says what it is. *)
LEMMA HeadsExact ==
    ASSUME NEW bytes, NEW source, NEW n, IsPacket(source, n),
           bytes[1] = <<source, n, 1>>, bytes[2] = <<source, n, 2>>,
           NEW h \in HeadsOf(bytes)
    PROVE  h.id = Id(source, n) /\ h.len = Body(Id(source, n))
  <1>1. h.id \in IdOf(bytes[1]) /\ h.len \in LenOf(bytes[2])
    BY DEF HeadsOf
  <1>2. source \in {CLIENT, LOGICSERVER, GATEWAY}
    BY PacketIs
  <1>3. IdOf(bytes[1]) = {Id(source, n)} /\ LenOf(bytes[2]) = {Body(Id(source, n))}
    BY <1>2 DEF IdOf, LenOf
  <1> QED
    BY <1>1, <1>3

(* What the ring from the client holds, f bytes having been received: what     *)
(* follows the first k packets.                                                *)
ClientAt(b, k, f) == Follows(ClientPieces, k, CIn!Contents(b), f)

(* h is the head of the next packet, and if that is there completely, its bytes  *)
(* are, at the beginning of the ring.                                           *)
ClientHead(b, k, f, h) ==
    LET n == HeadLen + h.len
    IN  /\ k + 1 \in 1 .. Len(ClientPackets)
        /\ h.id = Id(CLIENT, k + 1) /\ h.len = Body(h.id)
        /\ n = Len(Packet(CLIENT, k + 1))
        /\ n <= CIn!GetReadSize(b) =>
             /\ SubSeq(CIn!Contents(b), 1, n) = Packet(CLIENT, k + 1)
             /\ b.reader + n <= ClientIn => CIn!InPlace(b, 0, n) = Packet(CLIENT, k + 1)
             /\ ClientAt(CIn!ReadPtr(b, n), k + 1, f)

(* A head that lies before the end of the ring is that of the next packet. *)
LEMMA ClientReads ==
    ASSUME NEW b \in CI!Rings, NEW k \in 0 .. Len(ClientPackets), NEW f \in 0 .. Len(ClientStream),
           ClientAt(b, k, f), CIn!GetReadSize(b) > HeadLen, b.reader + HeadLen <= ClientIn,
           NEW h \in HeadsOf(CIn!InPlace(b, 0, HeadLen))
    PROVE  ClientHead(b, k, f, h)
  <1> DEFINE c == CIn!Contents(b)
             q == Packet(CLIENT, k + 1)
             n == HeadLen + h.len
  <1>1. /\ c \in Seq(Tokens) /\ Len(c) = CIn!GetReadSize(b) /\ CIn!GetReadSize(b) \in Nat
        /\ HeadLen \in Nat /\ HeadLen >= 2
    BY ReadClient, RelayAssumption DEF RelayAssumption
  <1>2. /\ ClientPieces \in Pieces(Tokens) /\ Len(ClientPieces) = Len(ClientPackets)
        /\ \A i \in 1 .. Len(ClientPackets) : ClientPieces[i] = Packet(CLIENT, i)
        /\ ClientStream = Joined(ClientPieces)[Len(ClientPieces)]
    BY Streams
  <1> HIDE DEF c
  <1>3. /\ k + 1 \in 1 .. Len(ClientPieces)
        /\ \A j \in 1 .. Len(c) : j <= Len(ClientPieces[k + 1]) => c[j] = ClientPieces[k + 1][j]
        /\ Len(ClientPieces[k + 1]) <= Len(c) =>
             /\ SubSeq(c, 1, Len(ClientPieces[k + 1])) = ClientPieces[k + 1]
             /\ Follows(ClientPieces, k + 1, SubSeq(c, Len(ClientPieces[k + 1]) + 1, Len(c)), f)
    <2>1. k \in 0 .. Len(ClientPieces) /\ f \in 0 .. Len(Joined(ClientPieces)[Len(ClientPieces)])
      BY <1>2
    <2>2. Follows(ClientPieces, k, c, f)
      BY DEF ClientAt, c
    <2>3. Len(c) > 0
      BY <1>1
    <2> QED
      BY <1>1, <1>2, <2>1, <2>2, <2>3, NextPiece
  <1>4. k + 1 \in 1 .. Len(ClientPackets) /\ ClientPieces[k + 1] = q /\ IsPacket(CLIENT, k + 1)
    BY <1>2, <1>3 DEF IsPacket
  <1>5. /\ Len(q) \in Nat /\ Len(q) >= 2 /\ Len(q) = HeadLen + Body(Id(CLIENT, k + 1))
        /\ \A j \in 1 .. Len(q) : q[j] = <<CLIENT, k + 1, j>>
    BY <1>4, PacketIs
  <1> HIDE DEF q
  <1>6. c[1] = <<CLIENT, k + 1, 1>> /\ c[2] = <<CLIENT, k + 1, 2>>
    <2>1. 1 \in 1 .. Len(c) /\ 2 \in 1 .. Len(c) /\ 1 \in 1 .. Len(q) /\ 2 \in 1 .. Len(q)
      BY <1>1, <1>5
    <2> QED
      BY <1>3, <1>4, <1>5, <2>1
  <1> DEFINE head == CIn!InPlace(b, 0, HeadLen)
  <1>7. head[1] = c[1] /\ head[2] = c[2]
    <2>1. head = SubSeq(c, 1, HeadLen)
      <3>1. HeadLen \in Nat /\ HeadLen <= CIn!GetReadSize(b) /\ b.reader + HeadLen <= ClientIn
        BY <1>1
      <3>2. CIn!InPlace(b, 0, HeadLen) = SubSeq(CIn!Contents(b), 1, HeadLen)
        BY <3>1, InPlaceClient
      <3> QED
        BY <3>2 DEF c
    <2>2. /\ 1 \in 1 .. HeadLen /\ 2 \in 1 .. HeadLen
          /\ \A i \in 1 .. HeadLen : c[i] \in Tokens
      BY <1>1, ElementOfSeq
    <2>3. \A i \in 1 .. HeadLen - 1 + 1 : SubSeq(c, 1, HeadLen)[i] = c[1 + i - 1]
      BY <1>1, <2>2, SubSeqProperties
    <2> QED
      BY <1>1, <2>1, <2>2, <2>3
  <1>8. h.id = Id(CLIENT, k + 1) /\ h.len = Body(h.id)
    BY <1>4, <1>6, <1>7, HeadsExact
  <1>9. n = Len(q) /\ n \in Nat
    BY <1>5, <1>8
  <1>10. ASSUME n <= CIn!GetReadSize(b)
         PROVE  /\ SubSeq(c, 1, n) = q
                /\ b.reader + n <= ClientIn => CIn!InPlace(b, 0, n) = q
                /\ ClientAt(CIn!ReadPtr(b, n), k + 1, f)
    <2>1. SubSeq(c, 1, n) = q /\ Follows(ClientPieces, k + 1, SubSeq(c, n + 1, Len(c)), f)
      <3> HIDE DEF n
      <3> QED
        BY <1>1, <1>3, <1>4, <1>9, <1>10
    <2>2. b.reader + n <= ClientIn => CIn!InPlace(b, 0, n) = SubSeq(c, 1, n)
      BY <1>9, <1>10, InPlaceClient DEF c
    <2>3. n \in 0 .. CIn!GetReadSize(b)
      BY <1>1, <1>9, <1>10
    <2>4. CIn!Contents(CIn!ReadPtr(b, n)) = SubSeq(c, n + 1, Len(c))
      BY <2>3, TakeClient DEF c
    <2> QED
      BY <2>1, <2>2, <2>4 DEF ClientAt
  <1> QED
    BY <1>4, <1>8, <1>9, <1>10 DEF ClientHead, q, c

(* The same of the ring from the logic server, with a GUID before each packet. *)
LogicAt(b, m, f) == Follows(LogicPieces, m, LIn!Contents(b), f)

LogicHead(b, m, f, h) ==
    LET n == HeadLen + h.len
    IN  /\ m + 1 \in 1 .. Len(LogicPackets)
        /\ h.id = Id(LOGICSERVER, m + 1) /\ h.len = Body(h.id)
        /\ n = Len(Packet(LOGICSERVER, m + 1))
        /\ Need(h) <= LIn!GetReadSize(b) =>
             /\ SubSeq(LIn!Contents(b), GuidLen + 1, Need(h)) = Packet(LOGICSERVER, m + 1)
             /\ b.reader + Need(h) <= LogicIn =>
                  LIn!InPlace(b, GuidLen, n) = Packet(LOGICSERVER, m + 1)
             /\ LogicAt(LIn!ReadPtr(b, Need(h)), m + 1, f)

(* A head that lies before the end of the ring is that of the next packet. *)
LEMMA LogicReads ==
    ASSUME NEW b \in LI!Rings, NEW m \in 0 .. Len(LogicPackets), NEW f \in 0 .. Len(LogicStream),
           LogicAt(b, m, f), LIn!GetReadSize(b) > GuidLen + HeadLen,
           b.reader + (GuidLen + HeadLen) <= LogicIn,
           NEW h \in HeadsOf(LIn!InPlace(b, GuidLen, HeadLen))
    PROVE  LogicHead(b, m, f, h)
  <1> DEFINE c == LIn!Contents(b)
             q == Packet(LOGICSERVER, m + 1)
             x == LogicPieces[m + 1]
             n == HeadLen + h.len
  <1>1. /\ c \in Seq(Tokens) /\ Len(c) = LIn!GetReadSize(b) /\ LIn!GetReadSize(b) \in Nat
        /\ HeadLen \in Nat /\ HeadLen >= 2 /\ GuidLen \in Nat
    BY ReadLogic, RelayAssumption DEF RelayAssumption
  <1>2. /\ LogicPieces \in Pieces(Tokens) /\ Len(LogicPieces) = Len(LogicPackets)
        /\ \A i \in 1 .. Len(LogicPackets) :
                LogicPieces[i] = GuidBytes(TRUE) \o Packet(LOGICSERVER, i)
        /\ LogicStream = Joined(LogicPieces)[Len(LogicPieces)]
    BY Streams
  <1> HIDE DEF c
  <1>3. /\ m + 1 \in 1 .. Len(LogicPieces)
        /\ \A j \in 1 .. Len(c) : j <= Len(x) => c[j] = x[j]
        /\ Len(x) <= Len(c) => Follows(LogicPieces, m + 1, SubSeq(c, Len(x) + 1, Len(c)), f)
    <2>1. m \in 0 .. Len(LogicPieces) /\ f \in 0 .. Len(Joined(LogicPieces)[Len(LogicPieces)])
      BY <1>2
    <2>2. Follows(LogicPieces, m, c, f)
      BY DEF LogicAt, c
    <2>3. Len(c) > 0
      BY <1>1
    <2> QED
      BY <1>1, <1>2, <2>1, <2>2, <2>3, NextPiece
  <1>4. m + 1 \in 1 .. Len(LogicPackets) /\ x = GuidBytes(TRUE) \o q /\ IsPacket(LOGICSERVER, m + 1)
    BY <1>2, <1>3 DEF IsPacket
  <1>5. /\ Len(q) \in Nat /\ Len(q) >= 2 /\ Len(q) = HeadLen + Body(Id(LOGICSERVER, m + 1))
        /\ \A j \in 1 .. Len(q) : q[j] = <<LOGICSERVER, m + 1, j>>
        /\ q \in Seq(Tokens)
    BY <1>4, PacketIs, PacketTokens
  <1>6. Len(x) = GuidLen + Len(q) /\ \A j \in 1 .. Len(q) : x[GuidLen + j] = q[j]
    <2> DEFINE g == GuidBytes(TRUE)
    <2>1. g \in Seq(Tokens) /\ Len(g) = GuidLen /\ x = g \o q
      BY <1>4, GuidIs
    <2> HIDE DEF x, q, g
    <2>2. Placed(Tokens, g, q, x)
      BY <1>5, <2>1, ConcatAt
    <2> QED
      BY <2>1, <2>2 DEF Placed
  <1> HIDE DEF q, x
  <1>7. \A j \in 1 .. Len(q) : GuidLen + j <= Len(c) => c[GuidLen + j] = <<LOGICSERVER, m + 1, j>>
    <2> SUFFICES ASSUME NEW j \in 1 .. Len(q), GuidLen + j <= Len(c)
                 PROVE  c[GuidLen + j] = <<LOGICSERVER, m + 1, j>>
      OBVIOUS
    <2>1. GuidLen + j \in 1 .. Len(c) /\ GuidLen + j <= Len(x)
      BY <1>1, <1>5, <1>6, SMTT(30)
    <2> QED
      BY <1>3, <1>5, <1>6, <2>1
  <1> DEFINE head == LIn!InPlace(b, GuidLen, HeadLen)
  <1>8. head[1] = <<LOGICSERVER, m + 1, 1>> /\ head[2] = <<LOGICSERVER, m + 1, 2>>
    <2>1. head = SubSeq(c, GuidLen + 1, GuidLen + HeadLen)
      <3>1. /\ GuidLen \in Nat /\ HeadLen \in Nat /\ GuidLen + HeadLen <= LIn!GetReadSize(b)
            /\ b.reader + GuidLen + HeadLen <= LogicIn
        BY <1>1 DEF LI!Rings, LI!Places
      <3>2. LIn!InPlace(b, GuidLen, HeadLen) = SubSeq(LIn!Contents(b), GuidLen + 1, GuidLen + HeadLen)
        BY <3>1, InPlaceLogic
      <3> QED
        BY <3>2 DEF c
    <2>2. \A i \in GuidLen + 1 .. GuidLen + HeadLen : c[i] \in Tokens
      BY <1>1, ElementOfSeq
    <2> DEFINE u == GuidLen + 1
               v == GuidLen + HeadLen
    <2>3. u \in Int /\ v \in Int /\ v - u + 1 = HeadLen /\ u + 1 - 1 = GuidLen + 1
          /\ u + 2 - 1 = GuidLen + 2
      BY <1>1
    <2>4. \A i \in 1 .. v - u + 1 : SubSeq(c, u, v)[i] = c[u + i - 1]
      <3>1. \A i \in u .. v : c[i] \in Tokens
        BY <2>2
      <3> HIDE DEF u, v
      <3> QED
        BY <2>3, <3>1, SubSeqProperties
    <2>5. SubSeq(c, u, v)[1] = c[GuidLen + 1] /\ SubSeq(c, u, v)[2] = c[GuidLen + 2]
      <3>1. 1 \in 1 .. HeadLen /\ 2 \in 1 .. HeadLen
        BY <1>1
      <3> HIDE DEF u, v
      <3> QED
        BY <2>3, <2>4, <3>1
    <2>6. /\ 1 \in 1 .. Len(q) /\ 2 \in 1 .. Len(q)
          /\ GuidLen + 1 <= Len(c) /\ GuidLen + 2 <= Len(c)
      BY <1>1, <1>5
    <2> QED
      BY <1>7, <2>1, <2>5, <2>6
  <1>9. h.id = Id(LOGICSERVER, m + 1) /\ h.len = Body(h.id)
    BY <1>4, <1>8, HeadsExact
  <1>10. n = Len(q) /\ n \in Nat /\ Need(h) = GuidLen + n /\ Need(h) = Len(x)
    <2>1. n = Len(q)
      <3>1. h.len = Body(Id(LOGICSERVER, m + 1))
        BY <1>9
      <3> QED
        BY <1>5, <3>1
    <2>2. h.len = Len(q) - HeadLen
      <3>1. h.len = Body(Id(LOGICSERVER, m + 1)) /\ Len(q) = HeadLen + Body(Id(LOGICSERVER, m + 1))
        BY <1>5, <1>9
      <3>2. Body(Id(LOGICSERVER, m + 1)) \in Nat
        <4>1. Id(LOGICSERVER, m + 1) \in PacketId
          BY <1>4, PacketIs
        <4> QED
          BY <4>1, RelayAssumption DEF RelayAssumption
      <3> QED
        BY <1>1, <3>1, <3>2
    <2>3. Need(h) = GuidLen + HeadLen + h.len
      BY DEF Need
    <2>4. Need(h) = GuidLen + Len(q)
      BY <1>1, <1>5, <2>2, <2>3
    <2> QED
      BY <1>5, <1>6, <2>1, <2>4
  <1> HIDE DEF n
  <1>11. ASSUME Need(h) <= LIn!GetReadSize(b)
         PROVE  /\ SubSeq(c, GuidLen + 1, Need(h)) = q
                /\ b.reader + Need(h) <= LogicIn => LIn!InPlace(b, GuidLen, n) = q
                /\ LogicAt(LIn!ReadPtr(b, Need(h)), m + 1, f)
    <2>1. SubSeq(c, GuidLen + 1, GuidLen + n) = q
      <3> DEFINE u == GuidLen + 1
                 v == GuidLen + n
                 s == SubSeq(c, u, v)
      <3>1. \A i \in u .. v : c[i] \in Tokens
        BY <1>1, <1>10, <1>11, ElementOfSeq
      <3>2. u \in Int /\ v \in Int /\ v - u + 1 = n /\ u <= v
        <4>1. GuidLen \in Nat
          BY <1>1
        <4>2. n \in Nat /\ n = Len(q)
          BY <1>10
        <4>3. Len(q) >= 2
          BY <1>5
        <4> QED
          BY <4>1, <4>2, <4>3
      <3>3. /\ s \in Seq(Tokens) /\ Len(s) = IF u <= v THEN v - u + 1 ELSE 0
            /\ \A i \in 1 .. v - u + 1 : s[i] = c[u + i - 1]
        <4> HIDE DEF u, v
        <4> QED
          BY <3>1, <3>2, SubSeqProperties
      <3>4. ASSUME NEW j \in 1 .. n
            PROVE  s[j] = q[j]
        <4>1. u + j - 1 = GuidLen + j /\ GuidLen + j <= Len(c) /\ j \in 1 .. Len(q)
          BY <1>1, <1>10, <1>11
        <4>2. s[j] = c[u + j - 1]
          <5> HIDE DEF u, v, s
          <5> QED
            BY <3>2, <3>3
        <4> HIDE DEF u, v, s
        <4> QED
          BY <1>5, <1>7, <4>1, <4>2
      <3>5. s = q
        <4> HIDE DEF u, v, s
        <4> QED
          BY <1>5, <1>10, <3>2, <3>3, <3>4, SeqEqual
      <3> QED
        BY <3>5
    <2>2. b.reader + Need(h) <= LogicIn => LIn!InPlace(b, GuidLen, n) = SubSeq(c, GuidLen + 1, GuidLen + n)
      <3> SUFFICES ASSUME b.reader + Need(h) <= LogicIn
                   PROVE  LIn!InPlace(b, GuidLen, n) = SubSeq(c, GuidLen + 1, GuidLen + n)
        OBVIOUS
      <3>1. GuidLen + n <= LIn!GetReadSize(b) /\ b.reader + GuidLen + n <= LogicIn
        <4>1. b.reader \in Nat
          BY RelayAssumption DEF LI!Rings, LI!Places, RelayAssumption
        <4>2. GuidLen \in Nat /\ n \in Nat /\ Need(h) = GuidLen + n
          BY <1>1, <1>10
        <4>3. GuidLen + n <= LIn!GetReadSize(b)
          BY <1>11, <4>2
        <4>4. b.reader + (GuidLen + n) <= LogicIn
          BY <4>2
        <4>5. b.reader + GuidLen + n = b.reader + (GuidLen + n)
          BY <4>1, <4>2
        <4> QED
          BY <4>3, <4>4, <4>5
      <3>2. LIn!InPlace(b, GuidLen, n) = SubSeq(LIn!Contents(b), GuidLen + 1, GuidLen + n)
        BY <1>1, <1>10, <3>1, InPlaceLogic
      <3> QED
        BY <3>2 DEF c
    <2>3. Need(h) \in 0 .. LIn!GetReadSize(b)
      BY <1>1, <1>10, <1>11
    <2>4. LIn!Contents(LIn!ReadPtr(b, Need(h))) = SubSeq(c, Need(h) + 1, Len(c))
      BY <2>3, TakeLogic DEF c
    <2>5. Follows(LogicPieces, m + 1, SubSeq(c, Need(h) + 1, Len(c)), f)
      BY <1>1, <1>3, <1>10, <1>11
    <2> QED
      BY <1>10, <2>1, <2>2, <2>4, <2>5 DEF LogicAt
  <1>12. HeadLen + h.len = Len(Packet(LOGICSERVER, m + 1))
    BY <1>10 DEF n, q
  <1> QED
    BY <1>4, <1>9, <1>11, <1>12 DEF LogicHead, n, q, c

-----------------------------------------------------------------------------
(* What has gone up and what has gone down: on the wire, or still in the ring. *)
Up == wire.up \o LOut!Contents(logic.out)
Down == wire.down \o COut!Contents(client.out)

Clients == [in : CI!Rings, out : CO!Rings, open : BOOLEAN]
Logics == [in : LI!Rings, out : LO!Rings]
Nets == [fromClient : 0 .. Len(ClientStream), fromLogic : 0 .. Len(LogicStream),
         closed : BOOLEAN]
Wires == [up : Seq(Tokens), down : Seq(Tokens)]

(* The types of the variables, with the two facts they need: what has not been   *)
(* sent stays at the beginning of its ring, and no head goes past its end.       *)
Typed ==
    /\ client \in Clients /\ client.out.reader = 0
    /\ logic \in Logics /\ logic.out.reader = 0
    /\ guid \in BOOLEAN
    /\ net \in Nets
    /\ wire \in Wires
    /\ pc \in {"serve", "poll", "client", "logic", "tick", "aborted"}
    /\ served \subseteq {"client", "logic"}
    /\ trouble \subseteq Troubles

(* Regrouping what is on the wire, what a send took, and what is behind it. *)
Regrouped(a, b, c, q) ==
    /\ (a \o b) \o c = a \o (b \o c)
    /\ (a \o b) \o (c \o q) = (a \o (b \o c)) \o q
Regroups(T) == \A a, b, c, q \in Seq(T) : Regrouped(a, b, c, q)

(* Concatenations can be regrouped. *)
LEMMA Regroup ==
    \A T : Regroups(T)
  <1> SUFFICES ASSUME NEW T, NEW a \in Seq(T), NEW b \in Seq(T), NEW c \in Seq(T),
                      NEW q \in Seq(T)
               PROVE  /\ (a \o b) \o c = a \o (b \o c)
                      /\ (a \o b) \o (c \o q) = (a \o (b \o c)) \o q
    BY DEF Regroups, Regrouped
  <1>1. Associates(T)
    BY Associative
  <1>2. a \o b \in Seq(T)
    BY ConcatProperties
  <1>3. (a \o b) \o c = a \o (b \o c)
    BY <1>1 DEF Associates
  <1>4. ((a \o b) \o c) \o q = (a \o b) \o (c \o q)
    <2> DEFINE x == a \o b
    <2> HIDE DEF x
    <2>1. x \in Seq(T)
      BY <1>2 DEF x
    <2>2. (x \o c) \o q = x \o (c \o q)
      BY <1>1, <2>1 DEF Associates
    <2> QED
      BY <2>2 DEF x
  <1> QED
    BY <1>3, <1>4

(* What left the ring b, which is now c, went to the wire. *)
UpMoved(b, put, c) ==
    \A u, q \in Seq(Tokens) :
        /\ (u \o put) \o LOut!Contents(c) = u \o LOut!Contents(b)
        /\ (u \o put) \o (LOut!Contents(c) \o q) = (u \o LOut!Contents(b)) \o q

(* It does if it is what the kernel got. *)
LEMMA UpMoves ==
    ASSUME NEW b \in LO!Rings, b.reader = 0, NEW partial, NEW o \in LOut!Send(b, partial),
           o.put = o.out
    PROVE  UpMoved(b, o.put, o.buf)
  <1> DEFINE s == o.out
             c == LOut!Contents(o.buf)
             a == LOut!Contents(b)
  <1>1. s \in Seq(Tokens) /\ c \in Seq(Tokens) /\ a = s \o c /\ o.put = s
    BY SendUp
  <1> HIDE DEF s, c, a
  <1>2. ASSUME NEW u \in Seq(Tokens), NEW q \in Seq(Tokens)
        PROVE  (u \o s) \o c = u \o a /\ (u \o s) \o (c \o q) = (u \o a) \o q
    <2>1. Regroups(Tokens)
      BY Regroup
    <2>2. s \in Seq(Tokens) /\ c \in Seq(Tokens)
      BY <1>1
    <2>3. Regrouped(u, s, c, q)
      BY <2>1, <2>2, Zenon DEF Regroups
    <2> QED
      BY <1>1, <2>3, Zenon DEF Regrouped
  <1> QED
    BY <1>1, <1>2, ZenonT(60) DEF UpMoved, s, c, a

(* The same to the client. *)
DownMoved(b, put, c) ==
    \A u, q \in Seq(Tokens) :
        /\ (u \o put) \o COut!Contents(c) = u \o COut!Contents(b)
        /\ (u \o put) \o (COut!Contents(c) \o q) = (u \o COut!Contents(b)) \o q

(* It does if it is what the kernel got. *)
LEMMA DownMoves ==
    ASSUME NEW b \in CO!Rings, b.reader = 0, NEW partial, NEW o \in COut!Send(b, partial),
           o.put = o.out
    PROVE  DownMoved(b, o.put, o.buf)
  <1> DEFINE s == o.out
             c == COut!Contents(o.buf)
             a == COut!Contents(b)
  <1>1. s \in Seq(Tokens) /\ c \in Seq(Tokens) /\ a = s \o c /\ o.put = s
    BY SendDown
  <1> HIDE DEF s, c, a
  <1>2. ASSUME NEW u \in Seq(Tokens), NEW q \in Seq(Tokens)
        PROVE  (u \o s) \o c = u \o a /\ (u \o s) \o (c \o q) = (u \o a) \o q
    <2>1. Regroups(Tokens)
      BY Regroup
    <2>2. s \in Seq(Tokens) /\ c \in Seq(Tokens)
      BY <1>1
    <2>3. Regrouped(u, s, c, q)
      BY <2>1, <2>2, Zenon DEF Regroups
    <2> QED
      BY <1>1, <2>3, Zenon DEF Regrouped
  <1> QED
    BY <1>1, <1>2, ZenonT(60) DEF DownMoved, s, c, a

(* The outcomes of SendPacketToServer: an assertion failed, for want of room if  *)
(* nothing else has happened, or the packet is behind the rest.                  *)
PacketUp(cl, known, packet) ==
    \/ /\ pc' = "aborted" /\ UNCHANGED <<client, logic, guid, wire, served>>
       /\ trouble' = {} => Len(GuidBytes(known) \o packet) > LogicOut
    \/ /\ client' = cl /\ guid' = (known /\ cl.open) /\ UNCHANGED <<pc, served>>
       /\ logic' \in Logics /\ logic'.in = logic.in /\ logic'.out.reader = 0
       /\ wire' \in Wires /\ wire'.down = wire.down
       /\ Lossless' => Up' = Up \o (GuidBytes(known) \o packet)

(* Those of SendPacketToClient. *)
PacketDown(li, packet) ==
    \/ /\ pc' = "aborted" /\ UNCHANGED <<client, logic, guid, net, wire, served>>
       /\ trouble' = {} => Len(packet) > ClientOut
    \/ /\ logic' = [logic EXCEPT !.in = li] /\ UNCHANGED <<guid, net, pc, served>>
       /\ client' \in Clients /\ client'.in = client.in /\ client'.open = client.open
       /\ client'.out.reader = 0
       /\ wire' \in Wires /\ wire'.up = wire.up
       /\ Lossless' => Down' = Down \o packet

(* trouble only grows, and what a step reads past an end is in it. *)
Noting(read) == trouble' \subseteq Troubles /\ trouble \subseteq trouble' /\ read \subseteq trouble'

(* What a write to the logic server comes to. *)
LEMMA PacketGoesUp ==
    ASSUME Typed, NEW cl, NEW known \in BOOLEAN, NEW packet \in Seq(Tokens),
           Len(packet) >= HeadLen, NEW read \in SUBSET Troubles,
           SendPacketToServer(cl, known, packet, read)
    PROVE  PacketUp(cl, known, packet) /\ Noting(read)
  <1> DEFINE g == GuidBytes(known)
             b == logic.out
             u == wire.up
  <1>1. /\ b \in LO!Rings /\ b.reader = 0
        /\ u \in Seq(Tokens) /\ wire.down \in Seq(Tokens)
        /\ logic.in \in LI!Rings
    BY DEF Typed, Logics, Wires
  <1>2. g \in Seq(Tokens)
    BY GuidIs
  <1>3. PICK o \in SendsToLogic :
        LET w == LOut!PutPacket(LOut!Put(LOut!Begin(o.buf), GuidBytes(known)), packet)
        IN  /\ Notes(Partial(o), read \cup OfSend(o) \cup OfWrite(w))
            /\ IF ~w.ok THEN Ends("aborted")
               ELSE IF w.overrun THEN Ends("corrupt")
               ELSE /\ logic' = [logic EXCEPT !.out = w.buf]
                    /\ wire' = [wire EXCEPT !.up = @ \o o.put]
                    /\ client' = cl
                    /\ guid' = (known /\ cl.open)
                    /\ UNCHANGED <<pc, served>>
    BY DEF SendPacketToServer
  <1> DEFINE w == LOut!PutPacket(LOut!Put(LOut!Begin(o.buf), g), packet)
             q == g \o packet
  <1>4. o \in LOut!Send(b, partials < PartialSends)
    BY <1>3 DEF SendsToLogic
  <1>5. /\ o.buf \in LO!Rings /\ o.buf.reader = 0 /\ o.put \in Seq(Tokens)
        /\ o.result = "SUCESS" => LOut!GetWriteSize(o.buf) = LogicOut
    BY <1>1, <1>4, SendUp
  <1>6. WrittenUp(o.buf, w, q)
    BY <1>2, <1>5, WriteUp
  <1>7. q \in Seq(Tokens)
    BY <1>2, ConcatProperties
  <1>8. /\ trouble' = trouble \cup (read \cup OfSend(o) \cup OfWrite(w))
        /\ IF ~w.ok THEN Ends("aborted")
           ELSE IF w.overrun THEN Ends("corrupt")
           ELSE /\ logic' = [logic EXCEPT !.out = w.buf]
                /\ wire' = [wire EXCEPT !.up = @ \o o.put]
                /\ client' = cl
                /\ guid' = (known /\ cl.open)
                /\ UNCHANGED <<pc, served>>
    BY <1>3 DEF Notes
  <1> HIDE DEF w, q
  <1>9. /\ w.buf \in LO!Rings /\ w.buf.reader = 0
        /\ w.overrun = FALSE
        /\ w.ok /\ ~w.wiped => LOut!Contents(w.buf) = LOut!Contents(o.buf) \o q
        /\ Len(q) <= LOut!GetWriteSize(o.buf) => w.ok \/ w.wiped
    BY <1>6 DEF WrittenUp
  <1>10. Noting(read)
    BY <1>8, <1>9 DEF Noting, Typed, OfSend, OfWrite, Troubles
  <1>11. CASE ~w.ok
    <2>1. pc' = "aborted" /\ UNCHANGED <<client, logic, guid, wire, served>>
      BY <1>8, <1>11 DEF Ends
    <2>2. ASSUME trouble' = {}
          PROVE  Len(q) > LogicOut
      <3>1. o.result = "SUCESS" /\ ~w.wiped
        BY <1>8, <2>2 DEF OfSend, OfWrite
      <3>2. Len(q) \in Nat /\ LogicOut \in Nat
        BY <1>7, LenProperties, RelayAssumption DEF RelayAssumption
      <3> QED
        BY <1>5, <1>9, <1>11, <3>1, <3>2
    <2> QED
      BY <1>10, <2>1, <2>2 DEF PacketUp, q
  <1>12. CASE w.ok
    <2>1. /\ logic' = [logic EXCEPT !.out = w.buf]
          /\ wire' = [wire EXCEPT !.up = u \o o.put]
          /\ client' = cl
          /\ guid' = (known /\ cl.open)
          /\ UNCHANGED <<pc, served>>
      BY <1>8, <1>9, <1>12
    <2>2. /\ logic' \in Logics /\ logic'.in = logic.in /\ logic'.out = w.buf
          /\ logic'.out.reader = 0
      BY <1>1, <1>9, <2>1 DEF Logics, Typed
    <2>3. u \o o.put \in Seq(Tokens)
      BY <1>1, <1>5, ConcatProperties
    <2>4. wire' \in Wires /\ wire'.down = wire.down /\ wire'.up = u \o o.put
      BY <1>1, <2>1, <2>3 DEF Wires, Typed
    <2>5. ASSUME Lossless'
          PROVE  Up' = Up \o q
      <3>1. "resent" \notin trouble' /\ "wiped" \notin trouble'
        BY <2>5 DEF Lossless
      <3>2. o.put = o.out /\ ~w.wiped
        BY <1>8, <3>1 DEF OfSend, OfWrite
      <3>3. Up' = (u \o o.put) \o (LOut!Contents(o.buf) \o q)
        BY <1>9, <1>12, <2>2, <2>4, <3>2 DEF Up
      <3>4. (u \o o.put) \o (LOut!Contents(o.buf) \o q) = (u \o LOut!Contents(b)) \o q
        <4>1. UpMoved(b, o.put, o.buf)
          BY <1>1, <1>4, <3>2, UpMoves
        <4> QED
          BY <1>1, <1>7, <4>1 DEF UpMoved
      <3> QED
        BY <3>3, <3>4 DEF Up
    <2> QED
      BY <1>10, <2>1, <2>2, <2>4, <2>5 DEF PacketUp, q
  <1> QED
    BY <1>11, <1>12

(* And to the client. *)
LEMMA PacketGoesDown ==
    ASSUME Typed, NEW li, NEW packet \in Seq(Tokens),
           Len(packet) >= HeadLen, NEW read \in SUBSET Troubles,
           SendPacketToClient(li, packet, read)
    PROVE  PacketDown(li, packet) /\ Noting(read)
  <1> DEFINE b == client.out
             u == wire.down
  <1>1. /\ b \in CO!Rings /\ b.reader = 0
        /\ u \in Seq(Tokens) /\ wire.up \in Seq(Tokens)
    BY DEF Typed, Clients, Wires
  <1>2. PICK o \in SendsToClient :
        LET w == COut!PutPacket(COut!Begin(o.buf), packet)
        IN  /\ Notes(Partial(o), read \cup OfSend(o) \cup OfWrite(w))
            /\ IF ~w.ok THEN Aborts
               ELSE IF w.overrun THEN Ends("corrupt") /\ UNCHANGED net
               ELSE /\ client' = [client EXCEPT !.out = w.buf]
                    /\ wire' = [wire EXCEPT !.down = @ \o o.put]
                    /\ logic' = [logic EXCEPT !.in = li]
                    /\ UNCHANGED <<guid, net, pc, served>>
    BY DEF SendPacketToClient
  <1> DEFINE w == COut!PutPacket(COut!Begin(o.buf), packet)
  <1>3. o \in COut!Send(b, partials < PartialSends)
    BY <1>2 DEF SendsToClient
  <1>4. /\ o.buf \in CO!Rings /\ o.buf.reader = 0 /\ o.put \in Seq(Tokens)
        /\ o.result = "SUCESS" => COut!GetWriteSize(o.buf) = ClientOut
    BY <1>1, <1>3, SendDown
  <1>5. WrittenDown(o.buf, w, packet)
    BY <1>4, WriteDown
  <1>6. /\ trouble' = trouble \cup (read \cup OfSend(o) \cup OfWrite(w))
        /\ IF ~w.ok THEN Aborts
           ELSE IF w.overrun THEN Ends("corrupt") /\ UNCHANGED net
           ELSE /\ client' = [client EXCEPT !.out = w.buf]
                /\ wire' = [wire EXCEPT !.down = @ \o o.put]
                /\ logic' = [logic EXCEPT !.in = li]
                /\ UNCHANGED <<guid, net, pc, served>>
    BY <1>2 DEF Notes
  <1> HIDE DEF w
  <1>7. /\ w.buf \in CO!Rings /\ w.buf.reader = 0
        /\ w.overrun = FALSE
        /\ w.ok /\ ~w.wiped => COut!Contents(w.buf) = COut!Contents(o.buf) \o packet
        /\ Len(packet) <= COut!GetWriteSize(o.buf) => w.ok \/ w.wiped
    BY <1>5 DEF WrittenDown
  <1>8. Noting(read)
    BY <1>6, <1>7 DEF Noting, Typed, OfSend, OfWrite, Troubles
  <1>9. CASE ~w.ok
    <2>1. pc' = "aborted" /\ UNCHANGED <<client, logic, guid, net, wire, served>>
      BY <1>6, <1>9 DEF Aborts, Ends
    <2>2. ASSUME trouble' = {}
          PROVE  Len(packet) > ClientOut
      <3>1. o.result = "SUCESS" /\ ~w.wiped
        BY <1>6, <2>2 DEF OfSend, OfWrite
      <3>2. Len(packet) \in Nat /\ ClientOut \in Nat
        BY LenProperties, RelayAssumption DEF RelayAssumption
      <3> QED
        BY <1>4, <1>7, <1>9, <3>1, <3>2
    <2> QED
      BY <1>8, <2>1, <2>2 DEF PacketDown
  <1>10. CASE w.ok
    <2>1. /\ client' = [client EXCEPT !.out = w.buf]
          /\ wire' = [wire EXCEPT !.down = u \o o.put]
          /\ logic' = [logic EXCEPT !.in = li]
          /\ UNCHANGED <<guid, net, pc, served>>
      BY <1>6, <1>7, <1>10
    <2>2. /\ client' \in Clients /\ client'.in = client.in /\ client'.open = client.open
          /\ client'.out = w.buf /\ client'.out.reader = 0
      BY <1>7, <2>1 DEF Clients, Typed
    <2>3. u \o o.put \in Seq(Tokens)
      BY <1>1, <1>4, ConcatProperties
    <2>4. wire' \in Wires /\ wire'.up = wire.up /\ wire'.down = u \o o.put
      BY <1>1, <2>1, <2>3 DEF Wires, Typed
    <2>5. ASSUME Lossless'
          PROVE  Down' = Down \o packet
      <3>1. "resent" \notin trouble' /\ "wiped" \notin trouble'
        BY <2>5 DEF Lossless
      <3>2. o.put = o.out /\ ~w.wiped
        BY <1>6, <3>1 DEF OfSend, OfWrite
      <3>3. Down' = (u \o o.put) \o (COut!Contents(o.buf) \o packet)
        BY <1>7, <1>10, <2>2, <2>4, <3>2 DEF Down
      <3>4. (u \o o.put) \o (COut!Contents(o.buf) \o packet) = (u \o COut!Contents(b)) \o packet
        <4>1. DownMoved(b, o.put, o.buf)
          BY <1>1, <1>3, <3>2, DownMoves
        <4> QED
          BY <1>1, <4>1 DEF DownMoved
      <3> QED
        BY <3>3, <3>4 DEF Down
    <2> QED
      BY <1>8, <2>1, <2>2, <2>4, <2>5 DEF PacketDown
  <1> QED
    BY <1>9, <1>10

-----------------------------------------------------------------------------
(* A part of a sequence. *)
LEMMA Middle ==
    ASSUME NEW T, NEW s \in Seq(T), NEW f \in 0 .. Len(s), NEW e \in f .. Len(s)
    PROVE  /\ SubSeq(s, f + 1, e) \in Seq(T)
           /\ Len(SubSeq(s, f + 1, e)) = e - f
           /\ \A i \in 1 .. e - f : SubSeq(s, f + 1, e)[i] = s[f + i]
  <1> DEFINE u == f + 1
             b == SubSeq(s, u, e)
  <1>1. Len(s) \in Nat /\ f \in Nat /\ e \in Nat
    BY LenProperties
  <1>2. \A i \in 1 .. Len(s) : s[i] \in T
    BY ElementOfSeq
  <1>3. \A i \in u .. e : s[i] \in T
    BY <1>1, <1>2
  <1>4. u \in Int /\ e \in Int /\ u = f + 1
    BY <1>1
  <1>5. b = SubSeq(s, f + 1, e)
    OBVIOUS
  <1> HIDE DEF u
  <1>6. b \in Seq(T) /\ Len(b) = (IF u <= e THEN e - u + 1 ELSE 0)
        /\ \A i \in 1 .. e - u + 1 : b[i] = s[u + i - 1]
    BY <1>3, <1>4, SubSeqProperties
  <1> HIDE DEF b
  <1>7. e - u + 1 = e - f /\ (u <= e \/ e - f = 0)
    BY <1>1, <1>4
  <1>8. \A i \in 1 .. e - f : u + i - 1 = f + i
    BY <1>1, <1>4
  <1> QED
    BY <1>5, <1>6, <1>7, <1>8

(* The first bytes of a sequence, and the next ones. *)
LEMMA SubSeqNext ==
    ASSUME NEW T, NEW s \in Seq(T), NEW f \in 0 .. Len(s), NEW e \in f .. Len(s),
           NEW n \in 0 .. e - f
    PROVE  SubSeq(s, 1, f) \o SubSeq(SubSeq(s, f + 1, e), 1, n) = SubSeq(s, 1, f + n)
  <1> DEFINE a == SubSeq(s, 1, f)
             b == SubSeq(s, f + 1, e)
             c == SubSeq(b, 1, n)
             d == SubSeq(s, 1, f + n)
             g == a \o c
  <1>1. Len(s) \in Nat /\ f \in Nat /\ e \in Nat /\ n \in Nat /\ f + n <= Len(s)
    BY LenProperties
  <1>2. \A i \in 1 .. Len(s) : s[i] \in T
    BY ElementOfSeq
  <1>3. a \in Seq(T) /\ Len(a) = f /\ \A i \in 1 .. f : a[i] = s[i]
    <2>1. \A i \in 1 .. f : s[i] \in T
      BY <1>1, <1>2
    <2>2. a \in Seq(T) /\ Len(a) = (IF 1 <= f THEN f - 1 + 1 ELSE 0)
          /\ \A i \in 1 .. f - 1 + 1 : a[i] = s[1 + i - 1]
      BY <1>1, <2>1, SubSeqProperties
    <2> QED
      BY <1>1, <2>2
  <1>4. b \in Seq(T) /\ Len(b) = e - f /\ \A i \in 1 .. e - f : b[i] = s[f + i]
    BY Middle
  <1> HIDE DEF b
  <1>5. c \in Seq(T) /\ Len(c) = n /\ \A i \in 1 .. n : c[i] = s[f + i]
    <2>1. \A i \in 1 .. n : b[i] \in T
      BY <1>1, <1>4, ElementOfSeq
    <2>2. c \in Seq(T) /\ Len(c) = (IF 1 <= n THEN n - 1 + 1 ELSE 0)
          /\ \A i \in 1 .. n - 1 + 1 : c[i] = b[1 + i - 1]
      BY <1>1, <2>1, SubSeqProperties
    <2>3. c \in Seq(T) /\ Len(c) = n /\ \A i \in 1 .. n : c[i] = b[i]
      BY <1>1, <2>2
    <2>4. \A i \in 1 .. n : i \in 1 .. e - f
      BY <1>1
    <2> QED
      BY <1>4, <2>3, <2>4
  <1>6. d \in Seq(T) /\ Len(d) = f + n /\ \A i \in 1 .. f + n : d[i] = s[i]
    <2> DEFINE v == f + n
    <2>1. v \in Nat /\ v <= Len(s)
      BY <1>1
    <2> HIDE DEF v
    <2>2. \A i \in 1 .. v : s[i] \in T
      BY <1>1, <1>2, <2>1
    <2>3. /\ SubSeq(s, 1, v) \in Seq(T)
          /\ Len(SubSeq(s, 1, v)) = (IF 1 <= v THEN v - 1 + 1 ELSE 0)
          /\ \A i \in 1 .. v - 1 + 1 : SubSeq(s, 1, v)[i] = s[1 + i - 1]
      BY <2>1, <2>2, SubSeqProperties
    <2>4. /\ SubSeq(s, 1, v) \in Seq(T) /\ Len(SubSeq(s, 1, v)) = v
          /\ \A i \in 1 .. v : SubSeq(s, 1, v)[i] = s[i]
      BY <2>1, <2>3
    <2> QED
      BY <2>4 DEF v
  <1> HIDE DEF a, c, d
  <1>7. Placed(T, a, c, g)
    BY <1>3, <1>5, ConcatAt
  <1> HIDE DEF g
  <1>8. g \in Seq(T) /\ Len(g) = f + n
    BY <1>3, <1>5, <1>7 DEF Placed
  <1>9. ASSUME NEW i \in 1 .. f + n
        PROVE  g[i] = d[i]
    <2>1. CASE i <= f
      <3>1. i \in 1 .. f
        BY <1>1, <2>1
      <3> QED
        BY <1>3, <1>6, <1>7, <3>1 DEF Placed
    <2>2. CASE i > f
      <3> DEFINE j == i - f
      <3>1. j \in 1 .. n /\ i = f + j
        BY <1>1, <2>2
      <3> HIDE DEF j
      <3>2. g[f + j] = c[j]
        BY <1>3, <1>5, <1>7, <3>1 DEF Placed
      <3> QED
        BY <1>5, <1>6, <3>1, <3>2
    <2> QED
      BY <1>1, <2>1, <2>2
  <1>10. g = d
    BY <1>6, <1>8, <1>9, SeqEqual
  <1> QED
    BY <1>10 DEF g, a, c, d, b

(* More of the stream has come. *)
LEMMA FollowsMore ==
    ASSUME NEW T, NEW p \in Pieces(T), NEW k \in 0 .. Len(p), NEW c \in Seq(T),
           NEW s, s = Joined(p)[Len(p)],
           NEW f \in 0 .. Len(s), NEW e \in f .. Len(s), NEW n \in 0 .. e - f,
           Follows(p, k, c, f)
    PROVE  Follows(p, k, c \o SubSeq(SubSeq(s, f + 1, e), 1, n), f + n)
  <1> DEFINE a == Joined(p)[k]
             x == SubSeq(SubSeq(s, f + 1, e), 1, n)
  <1>1. a \in Seq(T) /\ s \in Seq(T)
    <2>1. Len(p) \in Nat
      BY PiecesAre
    <2>2. \A i \in 0 .. Len(p) : Joined(p)[i] \in Seq(T)
      BY JoinedSteps, Zenon
    <2>3. Len(p) \in 0 .. Len(p)
      BY <2>1
    <2> QED
      BY <2>2, <2>3
  <1>2. a \o c = SubSeq(s, 1, f)
    BY DEF Follows
  <1>3. SubSeq(s, 1, f) \o x = SubSeq(s, 1, f + n)
    BY <1>1, SubSeqNext
  <1>4. x \in Seq(T)
    <2>1. Len(s) \in Nat /\ f \in Nat /\ e \in Nat /\ n \in Nat
      BY <1>1, LenProperties
    <2> DEFINE b == SubSeq(s, f + 1, e)
    <2>3. b \in Seq(T) /\ Len(b) = e - f
      BY <1>1, Middle
    <2> HIDE DEF b
    <2>4. \A i \in 1 .. n : b[i] \in T
      BY <2>1, <2>3, ElementOfSeq
    <2>5. SubSeq(b, 1, n) \in Seq(T)
      BY <2>1, <2>4, SubSeqProperties
    <2> QED
      BY <2>5 DEF b
  <1> HIDE DEF a, x
  <1>5. (a \o c) \o x = a \o (c \o x)
    <2>1. Associates(T)
      BY Associative
    <2> QED
      BY <1>1, <1>4, <2>1, SMTT(30) DEF Associates
  <1>6. a \o (c \o x) = SubSeq(s, 1, f + n)
    BY <1>2, <1>3, <1>5
  <1> QED
    BY <1>6 DEF Follows, a, x

-----------------------------------------------------------------------------
(* The packets of the logic server that are in S, and nothing for the others. *)
Chosen(S) == [n \in 1 .. Len(LogicPackets) |-> IF n \in S THEN Packet(LOGICSERVER, n) ELSE <<>>]

(* They are pieces. *)
LEMMA ChosenPieces ==
    ASSUME NEW S
    PROVE  /\ Chosen(S) \in Pieces(Tokens) /\ Len(Chosen(S)) = Len(LogicPackets)
           /\ Len(LogicPackets) \in Nat
           /\ Delivered(S) = Joined(Chosen(S))
  <1>1. Len(LogicPackets) \in Nat
    BY RawPieces
  <1>2. \A n \in 1 .. Len(LogicPackets) : Packet(LOGICSERVER, n) \in Seq(Tokens)
    BY PacketTokens DEF IsPacket
  <1>3. <<>> \in Seq(Tokens)
    OBVIOUS
  <1>4. Chosen(S) \in [1 .. Len(LogicPackets) -> Seq(Tokens)]
    BY <1>2, <1>3 DEF Chosen
  <1>5. Chosen(S) \in Seq(Seq(Tokens)) /\ Len(Chosen(S)) = Len(LogicPackets)
    BY <1>1, <1>4
  <1> QED
    BY <1>1, <1>5 DEF Pieces, Delivered, Chosen

(* What S delivers, packet by packet. *)
DeliversBy(S, n) ==
    Delivered(S)[n] = IF n \in S THEN Delivered(S)[n - 1] \o Packet(LOGICSERVER, n)
                      ELSE Delivered(S)[n - 1]

(* Nothing at first; then the packets in S are added. *)
LEMMA DeliveredSteps ==
    ASSUME NEW S
    PROVE  /\ Delivered(S)[0] = <<>>
           /\ \A n \in 1 .. Len(LogicPackets) : DeliversBy(S, n)
  <1> DEFINE p == Chosen(S)
  <1>1. /\ p \in Pieces(Tokens) /\ Len(p) = Len(LogicPackets) /\ Delivered(S) = Joined(p)
        /\ Len(LogicPackets) \in Nat
    BY ChosenPieces
  <1>2. \A n \in 1 .. Len(LogicPackets) :
            p[n] = IF n \in S THEN Packet(LOGICSERVER, n) ELSE <<>>
    BY DEF Chosen
  <1> HIDE DEF p
  <1>3. /\ Joined(p)[0] = <<>>
        /\ \A n \in 1 .. Len(p) : Joined(p)[n] = Joined(p)[n - 1] \o p[n]
        /\ \A n \in 0 .. Len(p) : Joined(p)[n] \in Seq(Tokens)
    BY <1>1, JoinedSteps, Zenon
  <1>4. ASSUME NEW n \in 1 .. Len(LogicPackets)
        PROVE  DeliversBy(S, n)
    <2>1. n - 1 \in 0 .. Len(p) /\ n \in 1 .. Len(p)
      BY <1>1
    <2> DEFINE a == Joined(p)[n - 1]
    <2>2. a \in Seq(Tokens)
      BY <1>3, <2>1
    <2>3. Joined(p)[n] = a \o p[n]
      BY <1>3, <2>1
    <2> HIDE DEF a
    <2>4. a \o <<>> = a
      BY <2>2, ConcatEmptySeq
    <2>5. p[n] = IF n \in S THEN Packet(LOGICSERVER, n) ELSE <<>>
      BY <1>2
    <2>6. Joined(p)[n] = IF n \in S THEN a \o Packet(LOGICSERVER, n) ELSE a
      BY <2>3, <2>4, <2>5
    <2> QED
      BY <1>1, <2>6 DEF DeliversBy, a
  <1> QED
    BY <1>1, <1>3, <1>4

(* What is delivered of the first m packets depends on these only. *)
LEMMA DeliveredAgree ==
    ASSUME NEW S, NEW R, NEW m \in 0 .. Len(LogicPackets), \A i \in 1 .. m : i \in S <=> i \in R
    PROVE  Delivered(S)[m] = Delivered(R)[m]
  <1> DEFINE p == Chosen(S)
             q == Chosen(R)
  <1>1. /\ p \in Pieces(Tokens) /\ Len(p) = Len(LogicPackets) /\ Delivered(S) = Joined(p)
        /\ q \in Pieces(Tokens) /\ Len(q) = Len(LogicPackets) /\ Delivered(R) = Joined(q)
        /\ Len(LogicPackets) \in Nat
    BY ChosenPieces
  <1>2. \A i \in 1 .. m : p[i] = q[i]
    <2>1. \A i \in 1 .. m : i \in 1 .. Len(LogicPackets)
      BY <1>1
    <2> QED
      BY <2>1 DEF Chosen
  <1> HIDE DEF p, q
  <1>3. m \in 0 .. Len(p) /\ m <= Len(q)
    BY <1>1
  <1>4. Joined(p)[m] = Joined(q)[m]
    BY <1>1, <1>2, <1>3, JoinedAgree
  <1> QED
    BY <1>1, <1>4

(* If S is among the first m packets, nothing is delivered after them. *)
LEMMA DeliveredAll ==
    ASSUME NEW m \in 0 .. Len(LogicPackets), NEW S \in SUBSET (1 .. m)
    PROVE  Delivered(S)[Len(LogicPackets)] = Delivered(S)[m]
  <1> DEFINE D == Delivered(S)
             N == Len(LogicPackets)
             P(n) == n < m \/ D[n] = D[m]
             Q == {n \in 0 .. N : P(n)}
  <1>1. N \in Nat /\ m \in Nat
    BY RawPieces
  <1>2. \A n \in 1 .. N : DeliversBy(S, n)
    BY DeliveredSteps
  <1>3. P(0)
    BY <1>1
  <1>4. ASSUME NEW n \in 1 .. N, P(n - 1)
        PROVE  P(n)
    <2>1. CASE n <= m
      BY <1>1, <2>1
    <2>2. CASE n > m
      <3>1. n \notin S /\ ~(n - 1 < m)
        BY <1>1, <2>2
      <3>2. D[n] = D[n - 1]
        BY <1>2, <3>1 DEF DeliversBy
      <3> QED
        BY <1>4, <3>1, <3>2
    <2> QED
      BY <1>1, <2>1, <2>2
  <1> HIDE DEF D, P
  <1>5. 0 .. N \subseteq Q
    <2>1. 0 \in Q
      BY <1>1, <1>3
    <2>2. \A n \in 1 .. N : n - 1 \in Q => n \in Q
      BY <1>1, <1>4
    <2> HIDE DEF Q
    <2> QED
      BY <1>1, <2>1, <2>2, Upto
  <1>6. P(N) /\ ~(N < m)
    BY <1>1, <1>5
  <1> QED
    BY <1>6 DEF P, D

-----------------------------------------------------------------------------
(* Nothing has been lost or misread, and no assertion has failed. *)
Running == Lossless /\ pc # "aborted"

(* k packets of the client have gone up whole, each behind a GUID, and the bytes  *)
(* of no packet more; what has come of the client since is in its ring.          *)
Upward(k) ==
    /\ WellFramed(Up)
    /\ Bytes(CLIENT, Up) = ClientSent[k]
    /\ client.open => ClientAt(client.in, k, net.fromClient)

UpInv == Running => \E k \in 0 .. Len(ClientPackets) : Upward(k)

(* Of m packets of the logic server those in S have gone down, and what has come  *)
(* of it since is in its ring.                                                   *)
Downward(m, S) ==
    /\ LogicAt(logic.in, m, net.fromLogic)
    /\ client.open => Down = Delivered(S)[m]

DownInv ==
    Running => \E m \in 0 .. Len(LogicPackets) : \E S \in SUBSET (1 .. m) : Downward(m, S)

(* What a step may leave as it is: what has gone up, what has come of the client, *)
(* what has gone down, and what has come of the logic server.                     *)
UpKept == Lossless' => Up' = Up
FromClientKept ==
    client'.open => client.open /\ client'.in = client.in /\ net'.fromClient = net.fromClient
DownKept == Lossless' /\ client'.open => client.open /\ Down' = Down
FromLogicKept == logic'.in = logic.in /\ net'.fromLogic = net.fromLogic

(* What has gone up are bytes. *)
LEMMA UpTyped ==
    ASSUME Typed
    PROVE  Up \in Seq(Tokens)
  <1>1. logic.out \in LO!Rings /\ wire.up \in Seq(Tokens)
    BY DEF Typed, Logics, Wires
  <1>2. LOut!Contents(logic.out) \in Seq(Tokens)
    BY <1>1, RingsSized, LO!BytesInRing, SameLogicOut
  <1> QED
    BY <1>1, <1>2, ConcatProperties DEF Up

(* Nothing goes up or is taken from the client. *)
LEMMA UpStays ==
    ASSUME Running, UpInv, UpKept, FromClientKept
    PROVE  UpInv'
  <1> SUFFICES ASSUME Running'
               PROVE  \E k \in 0 .. Len(ClientPackets) : Upward(k)'
    BY DEF UpInv
  <1>1. PICK k \in 0 .. Len(ClientPackets) : Upward(k)
    BY DEF UpInv
  <1>2. Up' = Up
    BY DEF Running, UpKept
  <1>3. Upward(k)'
    BY <1>1, <1>2 DEF Upward, FromClientKept, ClientAt
  <1> QED
    BY <1>3

(* A Logout goes up, and the client is gone. *)
LEMMA UpLogout ==
    ASSUME Typed, Running, UpInv, ~client'.open, NEW known \in BOOLEAN,
           Lossless' => Up' = Up \o (GuidBytes(known) \o Packet(GATEWAY, 1))
    PROVE  UpInv'
  <1> SUFFICES ASSUME Running'
               PROVE  \E k \in 0 .. Len(ClientPackets) : Upward(k)'
    BY DEF UpInv
  <1>1. PICK k \in 0 .. Len(ClientPackets) : Upward(k)
    BY DEF UpInv
  <1>2. Up' = Up \o (GuidBytes(known) \o Packet(GATEWAY, 1))
    BY DEF Running
  <1>3. Up \in Seq(Tokens) /\ IsPacket(GATEWAY, 1) /\ GATEWAY # CLIENT
    BY UpTyped DEF IsPacket, GATEWAY, CLIENT
  <1> DEFINE u == Up
             v == Up'
  <1>4. WellFramed(u) /\ Bytes(CLIENT, u) = ClientSent[k] /\ u \in Seq(Tokens)
        /\ v = u \o (GuidBytes(known) \o Packet(GATEWAY, 1))
    BY <1>1, <1>2, <1>3 DEF Upward
  <1>5. Upward(k)' <=> WellFramed(v) /\ Bytes(CLIENT, v) = ClientSent[k]
    BY DEF Upward
  <1> HIDE DEF u, v
  <1>6. WellFramed(v)
    BY <1>3, <1>4, FramedAppend
  <1>7. Bytes(CLIENT, v) = Bytes(CLIENT, u)
    BY <1>3, <1>4, ClientBytes
  <1>8. Upward(k)'
    BY <1>4, <1>5, <1>6, <1>7
  <1> QED
    BY <1>8

(* The next packet of the client goes up. *)
LEMMA UpMore ==
    ASSUME Typed, NEW k \in 0 .. Len(ClientPackets), Upward(k),
           NEW known \in BOOLEAN,
           Lossless' => /\ k + 1 \in 1 .. Len(ClientPackets)
                        /\ Up' = Up \o (GuidBytes(known) \o Packet(CLIENT, k + 1))
                        /\ ClientAt(client'.in, k + 1, net'.fromClient)
    PROVE  UpInv'
  <1> SUFFICES ASSUME Running'
               PROVE  \E n \in 0 .. Len(ClientPackets) : Upward(n)'
    BY DEF UpInv
  <1>1. /\ k + 1 \in 1 .. Len(ClientPackets)
        /\ Up' = Up \o (GuidBytes(known) \o Packet(CLIENT, k + 1))
        /\ ClientAt(client'.in, k + 1, net'.fromClient)
    BY DEF Running
  <1>2. Up \in Seq(Tokens) /\ IsPacket(CLIENT, k + 1)
    BY <1>1, UpTyped DEF IsPacket
  <1> DEFINE u == Up
             v == Up'
             n == k + 1
  <1>3. n \in 1 .. Len(ClientPackets) /\ n \in 0 .. Len(ClientPackets) /\ n - 1 = k
    BY <1>1
  <1>4. WellFramed(u) /\ Bytes(CLIENT, u) = ClientSent[k] /\ u \in Seq(Tokens)
        /\ v = u \o (GuidBytes(known) \o Packet(CLIENT, n))
    BY <1>1, <1>2 DEF Upward
  <1>5. Upward(n)' <=> /\ WellFramed(v) /\ Bytes(CLIENT, v) = ClientSent[n]
                       /\ client'.open => ClientAt(client'.in, n, net'.fromClient)
    BY DEF Upward, ClientAt
  <1>6. IsPacket(CLIENT, n) /\ ClientAt(client'.in, n, net'.fromClient)
    BY <1>1, <1>2
  <1> HIDE DEF u, v, n
  <1>7. WellFramed(v)
    BY <1>4, <1>6, FramedAppend
  <1>8. Bytes(CLIENT, v) = Bytes(CLIENT, u) \o Packet(CLIENT, n)
    BY <1>4, <1>6, ClientBytes, ZenonT(60)
  <1>9. ClientSent[n] = ClientSent[k] \o Packet(CLIENT, n)
    <2>1. /\ ClientPieces \in Pieces(Tokens) /\ Len(ClientPieces) = Len(ClientPackets)
          /\ ClientPieces[n] = Packet(CLIENT, n)
          /\ ClientSent = Joined(ClientPieces)
      BY <1>3, Streams
    <2>2. \A i \in 1 .. Len(ClientPieces) :
              Joined(ClientPieces)[i] = Joined(ClientPieces)[i - 1] \o ClientPieces[i]
      BY <2>1, JoinedSteps, Zenon
    <2> QED
      BY <1>3, <2>1, <2>2
  <1>10. Upward(n)'
    BY <1>4, <1>5, <1>6, <1>7, <1>8, <1>9
  <1> QED
    BY <1>3, <1>10

(* Nothing goes down or is taken from the logic server. *)
LEMMA DownStays ==
    ASSUME Running, DownInv, DownKept, FromLogicKept
    PROVE  DownInv'
  <1> SUFFICES ASSUME Running'
               PROVE  \E m \in 0 .. Len(LogicPackets) : \E S \in SUBSET (1 .. m) : Downward(m, S)'
    BY DEF DownInv
  <1>1. PICK m \in 0 .. Len(LogicPackets) : \E S \in SUBSET (1 .. m) : Downward(m, S)
    BY DEF DownInv
  <1>2. PICK S \in SUBSET (1 .. m) : Downward(m, S)
    BY <1>1
  <1>3. Downward(m, S)'
    BY <1>2 DEF Downward, Running, DownKept, FromLogicKept, LogicAt
  <1> QED
    BY <1>3

(* A packet of the logic server is skipped. *)
LEMMA DownSkips ==
    ASSUME NEW m \in 0 .. Len(LogicPackets), NEW S \in SUBSET (1 .. m), Downward(m, S), DownKept,
           Lossless' => /\ m + 1 \in 1 .. Len(LogicPackets)
                        /\ LogicAt(logic'.in, m + 1, net'.fromLogic)
    PROVE  DownInv'
  <1> SUFFICES ASSUME Running'
               PROVE  \E n \in 0 .. Len(LogicPackets) : \E R \in SUBSET (1 .. n) : Downward(n, R)'
    BY DEF DownInv
  <1> DEFINE n == m + 1
  <1>1. n \in 1 .. Len(LogicPackets) /\ n \in 0 .. Len(LogicPackets) /\ n - 1 = m
        /\ LogicAt(logic'.in, n, net'.fromLogic)
    BY DEF Running
  <1>2. S \in SUBSET (1 .. n) /\ n \notin S
    <2>1. \A i \in 1 .. m : i \in 1 .. n /\ i # n
      BY <1>1
    <2> QED
      BY <2>1
  <1>3. Delivered(S)[n] = Delivered(S)[m]
    <2>1. DeliversBy(S, n)
      BY <1>1, DeliveredSteps
    <2> QED
      BY <1>1, <1>2, <2>1 DEF DeliversBy
  <1>4. client'.open => Down' = Delivered(S)[m]
    BY DEF Running, DownKept, Downward
  <1>5. Downward(n, S)'
    BY <1>1, <1>3, <1>4 DEF Downward, LogicAt
  <1> QED
    BY <1>1, <1>2, <1>5

(* A packet of the logic server goes down. *)
LEMMA DownMore ==
    ASSUME NEW m \in 0 .. Len(LogicPackets), NEW S \in SUBSET (1 .. m), Downward(m, S),
           client'.open => client.open,
           Lossless' => /\ m + 1 \in 1 .. Len(LogicPackets)
                        /\ LogicAt(logic'.in, m + 1, net'.fromLogic)
                        /\ Down' = Down \o Packet(LOGICSERVER, m + 1)
    PROVE  DownInv'
  <1> SUFFICES ASSUME Running'
               PROVE  \E n \in 0 .. Len(LogicPackets) : \E R \in SUBSET (1 .. n) : Downward(n, R)'
    BY DEF DownInv
  <1> DEFINE n == m + 1
             R == S \cup {n}
  <1>1. n \in 1 .. Len(LogicPackets) /\ n \in 0 .. Len(LogicPackets) /\ n - 1 = m
        /\ LogicAt(logic'.in, n, net'.fromLogic)
        /\ Down' = Down \o Packet(LOGICSERVER, n)
    BY DEF Running
  <1>2. /\ R \in SUBSET (1 .. n) /\ n \in R
        /\ \A i \in 1 .. m : i \in R <=> i \in S
    <2>1. \A i \in 1 .. m : i \in 1 .. n /\ i # n
      BY <1>1
    <2>2. n \in 1 .. n
      BY <1>1
    <2> QED
      BY <2>1, <2>2
  <1> HIDE DEF R
  <1>3. Delivered(R)[n] = Delivered(R)[m] \o Packet(LOGICSERVER, n)
    <2>1. DeliversBy(R, n)
      BY <1>1, DeliveredSteps
    <2> QED
      BY <1>1, <1>2, <2>1 DEF DeliversBy
  <1>4. Delivered(R)[m] = Delivered(S)[m]
    BY <1>2, DeliveredAgree
  <1>5. client'.open => Down' = Delivered(R)[n]
    BY <1>1, <1>3, <1>4 DEF Downward
  <1>6. Downward(n, R)'
    BY <1>1, <1>5 DEF Downward, LogicAt
  <1> QED
    BY <1>1, <1>2, <1>6

-----------------------------------------------------------------------------
(* Two sends, one after the other. *)
LEMMA UpMovesTwice ==
    ASSUME NEW b, NEW c \in LO!Rings, NEW d, NEW p \in Seq(Tokens), NEW r \in Seq(Tokens),
           LOut!Contents(d) \in Seq(Tokens),
           UpMoved(b, p, c), UpMoved(c, r, d)
    PROVE  UpMoved(b, p \o r, d)
  <1> DEFINE x == LOut!Contents(b)
             y == LOut!Contents(c)
             z == LOut!Contents(d)
  <1>1. /\ \A u, q \in Seq(Tokens) : /\ (u \o p) \o y = u \o x
                                     /\ (u \o p) \o (y \o q) = (u \o x) \o q
        /\ \A u, q \in Seq(Tokens) : /\ (u \o r) \o z = u \o y
                                     /\ (u \o r) \o (z \o q) = (u \o y) \o q
        /\ z \in Seq(Tokens)
    BY DEF UpMoved
  <1>2. y \in Seq(Tokens)
    BY RingsSized, LO!BytesInRing, SameLogicOut
  <1> HIDE DEF x, y, z
  <1>3. ASSUME NEW u \in Seq(Tokens), NEW q \in Seq(Tokens)
        PROVE  /\ (u \o (p \o r)) \o z = u \o x
               /\ (u \o (p \o r)) \o (z \o q) = (u \o x) \o q
    <2> DEFINE v == u \o p
    <2>1. v \in Seq(Tokens)
      BY ConcatProperties
    <2>2. v \o r = u \o (p \o r)
      <3>1. Associates(Tokens)
        BY Associative
      <3> QED
        BY <3>1, Zenon DEF Associates
    <2>3. v \o y = u \o x /\ v \o (y \o q) = (u \o x) \o q
      BY <1>1, Zenon
    <2> HIDE DEF v
    <2>4. (v \o r) \o z = v \o y /\ (v \o r) \o (z \o q) = (v \o y) \o q
      BY <1>1, <2>1, Zenon
    <2>5. (v \o y) \o q = v \o (y \o q)
      <3>1. Associates(Tokens)
        BY Associative
      <3> QED
        BY <1>2, <2>1, <3>1, ZenonT(60) DEF Associates
    <2> QED
      BY <2>2, <2>3, <2>4, <2>5, Zenon
  <1> QED
    BY <1>3, Zenon DEF UpMoved, x, z

(* The ring to the logic server is now c, and put is on the wire. *)
ToLogic(put, c) == /\ logic' = [logic EXCEPT !.out = c]
                   /\ wire' = [wire EXCEPT !.up = @ \o put]

(* That of the connection with the logic server which a step keeps. *)
LogicKept == /\ logic' \in Logics /\ logic'.out.reader = 0 /\ logic'.in = logic.in
             /\ wire' \in Wires /\ wire'.down = wire.down

(* What goes up keeps the types and what comes of the logic server. *)
LEMMA UpKeepsTypes ==
    ASSUME Typed, NEW put \in Seq(Tokens), NEW c \in LO!Rings, c.reader = 0, ToLogic(put, c)
    PROVE  /\ LogicKept
           /\ Up' = (wire.up \o put) \o LOut!Contents(c)
  <1>1. logic.in \in LI!Rings /\ wire.up \in Seq(Tokens) /\ wire.down \in Seq(Tokens)
    BY DEF Typed, Logics, Wires
  <1>2. wire.up \o put \in Seq(Tokens)
    BY <1>1, ConcatProperties
  <1>3. logic' \in Logics /\ logic'.out = c /\ logic'.in = logic.in
    BY <1>1 DEF ToLogic, Typed, Logics
  <1>4. wire' \in Wires /\ wire'.up = wire.up \o put /\ wire'.down = wire.down
    BY <1>1, <1>2 DEF ToLogic, Typed, Wires
  <1> QED
    BY <1>3, <1>4 DEF LogicKept, Up

(* The outcome of a send to the logic server, as far as the proofs need it. *)
LEMMA SentToLogic ==
    ASSUME Typed, NEW o \in SendsToLogic
    PROVE  /\ o.buf \in LO!Rings /\ o.buf.reader = 0 /\ o.put \in Seq(Tokens)
           /\ LOut!Contents(o.buf) \in Seq(Tokens)
           /\ o.put = o.out => UpMoved(logic.out, o.put, o.buf)
           /\ o.result = "SUCESS" => LOut!GetWriteSize(o.buf) = LogicOut
  <1>1. logic.out \in LO!Rings /\ logic.out.reader = 0
        /\ o \in LOut!Send(logic.out, partials < PartialSends)
    BY DEF Typed, Logics, SendsToLogic
  <1>2. /\ o.buf \in LO!Rings /\ o.buf.reader = 0 /\ o.put \in Seq(Tokens)
        /\ LOut!Contents(o.buf) \in Seq(Tokens)
        /\ o.result = "SUCESS" => LOut!GetWriteSize(o.buf) = LogicOut
    BY <1>1, SendUp
  <1>3. o.put = o.out => UpMoved(logic.out, o.put, o.buf)
    BY <1>1, UpMoves
  <1> QED
    BY <1>2, <1>3

(* And of one to the client. *)
LEMMA SentToClient ==
    ASSUME Typed, NEW o \in SendsToClient
    PROVE  /\ o.buf \in CO!Rings /\ o.buf.reader = 0 /\ o.put \in Seq(Tokens)
           /\ o.put = o.out => DownMoved(client.out, o.put, o.buf)
           /\ o.result = "SUCESS" => COut!GetWriteSize(o.buf) = ClientOut
  <1>1. client.out \in CO!Rings /\ client.out.reader = 0
        /\ o \in COut!Send(client.out, partials < PartialSends)
    BY DEF Typed, Clients, SendsToClient
  <1>2. /\ o.buf \in CO!Rings /\ o.buf.reader = 0 /\ o.put \in Seq(Tokens)
        /\ o.result = "SUCESS" => COut!GetWriteSize(o.buf) = ClientOut
    BY <1>1, SendDown
  <1>3. o.put = o.out => DownMoved(client.out, o.put, o.buf)
    BY <1>1, DownMoves
  <1> QED
    BY <1>2, <1>3

(* The wire to the client. *)
LEMMA WireDown ==
    ASSUME Typed, NEW put \in Seq(Tokens), wire' = [wire EXCEPT !.down = @ \o put]
    PROVE  wire' \in Wires /\ wire'.up = wire.up /\ wire'.down = wire.down \o put
  <1>1. wire.up \in Seq(Tokens) /\ wire.down \in Seq(Tokens)
    BY DEF Typed, Wires
  <1>2. wire.down \o put \in Seq(Tokens)
    BY <1>1, ConcatProperties
  <1> QED
    BY <1>1, <1>2 DEF Typed, Wires

(* A released session, its rings new. *)
LEMMA ReleasedIs ==
    /\ Released \in Clients /\ Released.out.reader = 0 /\ Released.open = FALSE
    /\ CIn!GetReadSize(Released.in) = 0
  <1>1. /\ CIn!NewRing \in CI!Rings /\ CIn!GetReadSize(CIn!NewRing) = 0
        /\ COut!NewRing \in CO!Rings /\ COut!NewRing.reader = 0
    BY RingsSized, CI!NewRingEmpty, CO!NewRingEmpty, SameClientIn, SameClientOut
  <1> QED
    BY <1>1 DEF Released, Clients

-----------------------------------------------------------------------------
(* Outside its loop the client's ring holds no more than a head; the loop runs    *)
(* for an open session only.                                                     *)
LoopLeft == pc \in {"serve", "poll", "logic", "tick"} => CIn!GetReadSize(client.in) <= HeadLen
OpenServed == pc = "client" => client.open

(* The inductive invariant. *)
RelayInv ==
    /\ Typed /\ LoopLeft /\ OpenServed /\ ReleasedForCause
    /\ UpInv /\ DownInv
    /\ AbortsExplained

(* It holds at first: nothing has come and nothing has gone. *)
LEMMA RelayInit ==
    ASSUME Init
    PROVE  RelayInv
  <1>1. /\ CIn!NewRing \in CI!Rings /\ CIn!Contents(CIn!NewRing) = <<>>
        /\ CIn!GetReadSize(CIn!NewRing) = 0
        /\ COut!NewRing \in CO!Rings /\ COut!Contents(COut!NewRing) = <<>>
        /\ COut!NewRing.reader = 0
        /\ LIn!NewRing \in LI!Rings /\ LIn!Contents(LIn!NewRing) = <<>>
        /\ LOut!NewRing \in LO!Rings /\ LOut!Contents(LOut!NewRing) = <<>>
        /\ LOut!NewRing.reader = 0
    BY RingsSized, CI!NewRingEmpty, CO!NewRingEmpty, LI!NewRingEmpty, LO!NewRingEmpty,
       SameClientIn, SameClientOut, SameLogicIn, SameLogicOut
  <1>2. /\ HeadLen \in Nat
        /\ ClientStream \in Seq(Tokens) /\ Len(ClientStream) \in Nat
        /\ LogicStream \in Seq(Tokens) /\ Len(LogicStream) \in Nat
        /\ ClientPieces \in Pieces(Tokens) /\ LogicPieces \in Pieces(Tokens)
        /\ ClientSent = Joined(ClientPieces) /\ ClientStream = Joined(ClientPieces)[Len(ClientPieces)]
        /\ LogicStream = Joined(LogicPieces)[Len(LogicPieces)]
        /\ Len(ClientPackets) \in Nat /\ Len(LogicPackets) \in Nat
    BY Streams, RawPieces, RelayAssumption DEF RelayAssumption
  <1>3. <<>> \in Seq(Tokens) /\ Len(<<>>) = 0
    OBVIOUS
  <1>4. <<>> \o <<>> = <<>>
    BY <1>3, ConcatEmptySeq
  <1>5. Typed
    <2>1. client \in Clients /\ client.out.reader = 0
      BY <1>1 DEF Init, Clients
    <2>2. logic \in Logics /\ logic.out.reader = 0
      BY <1>1 DEF Init, Logics
    <2>3. net \in Nets
      BY <1>2 DEF Init, Nets
    <2>4. wire \in Wires
      BY <1>3 DEF Init, Wires
    <2> QED
      BY <2>1, <2>2, <2>3, <2>4 DEF Init, Typed, Troubles
  <1>6. LoopLeft /\ OpenServed /\ ReleasedForCause /\ AbortsExplained
    BY <1>1, <1>2 DEF Init, LoopLeft, OpenServed, ReleasedForCause, AbortsExplained
  <1>7. Joined(ClientPieces)[0] = <<>> /\ Joined(LogicPieces)[0] = <<>>
    <2>1. Joined(ClientPieces)[0] = <<>>
      BY <1>2, JoinedSteps, Zenon
    <2>2. Joined(LogicPieces)[0] = <<>>
      BY <1>2, JoinedSteps, Zenon
    <2> QED
      BY <2>1, <2>2
  <1>8. SubSeq(ClientStream, 1, 0) = <<>> /\ SubSeq(LogicStream, 1, 0) = <<>>
    BY <1>2
  <1>9. Upward(0)
    <2>1. Up = <<>>
      BY <1>1, <1>4 DEF Up, Init
    <2>2. WellFramed(Up)
      BY <1>3, <2>1 DEF WellFramed
    <2>3. Bytes(CLIENT, Up) = <<>>
      <3>1. \A i \in 1 .. Len(<<>>) : <<>>[i][1] = CLIENT
        BY <1>3
      <3>2. Bytes(CLIENT, <<>>) = <<>>
        BY <1>3, <3>1, BytesAll
      <3> QED
        BY <2>1, <3>2
    <2>4. ClientAt(client.in, 0, net.fromClient)
      BY <1>1, <1>2, <1>4, <1>7, <1>8 DEF ClientAt, Follows, Init
    <2> QED
      BY <1>2, <1>7, <2>2, <2>3, <2>4 DEF Upward
  <1>10. Downward(0, {})
    <2>1. LogicAt(logic.in, 0, net.fromLogic)
      BY <1>1, <1>2, <1>4, <1>7, <1>8 DEF LogicAt, Follows, Init
    <2>2. Down = <<>>
      BY <1>1, <1>4 DEF Down, Init
    <2>3. Delivered({})[0] = <<>>
      BY DeliveredSteps
    <2> QED
      BY <2>1, <2>2, <2>3 DEF Downward
  <1>11. UpInv /\ DownInv
    <2>1. 0 \in 0 .. Len(ClientPackets) /\ 0 \in 0 .. Len(LogicPackets) /\ {} \in SUBSET (1 .. 0)
      BY <1>2
    <2> QED
      BY <1>9, <1>10, <2>1 DEF UpInv, DownInv
  <1> QED
    BY <1>5, <1>6, <1>11 DEF RelayInv

-----------------------------------------------------------------------------
(* What has been noted stays within the troubles there are. *)
LEMMA NotesTyped ==
    ASSUME Typed, NEW n, NEW what \in SUBSET Troubles, Notes(n, what)
    PROVE  trouble' = trouble \cup what /\ Noting(what)
  BY DEF Typed, Notes, Noting

(* A send notes what it is. *)
LEMMA SendNotes ==
    ASSUME NEW o
    PROVE  /\ OfSend(o) \in SUBSET Troubles
           /\ o.put # o.out => "resent" \in OfSend(o)
           /\ o.result # "SUCESS" => "blocked" \in OfSend(o)
  BY DEF OfSend, Troubles

(* The round sends to the logic server first. *)
LEMMA ServeSendKeeps ==
    ASSUME RelayInv, ServeSend
    PROVE  RelayInv'
  <1>1. Typed /\ pc = "serve" /\ Lossless /\ Running
    BY DEF RelayInv, ServeSend, At, Running
  <1>2. PICK o \in SendsToLogic :
        /\ Notes(Partial(o), OfSend(o))
        /\ ToLogic(o.put, o.buf)
    BY DEF ServeSend, ToLogic
  <1>3. pc' = "poll" /\ served' = {} /\ UNCHANGED <<client, guid, net>>
    BY DEF ServeSend
  <1>4. /\ o.buf \in LO!Rings /\ o.buf.reader = 0 /\ o.put \in Seq(Tokens)
        /\ o.put = o.out => UpMoved(logic.out, o.put, o.buf)
    BY <1>1, <1>2, SentToLogic
  <1>5. trouble' = trouble \cup OfSend(o) /\ Noting(OfSend(o))
    BY <1>1, <1>2, SendNotes, NotesTyped
  <1>6. LogicKept /\ Up' = (wire.up \o o.put) \o LOut!Contents(o.buf)
    BY <1>1, <1>2, <1>4, UpKeepsTypes
  <1>7. Typed'
    BY <1>1, <1>3, <1>5, <1>6 DEF Typed, LogicKept, Noting
  <1>8. UpKept
    <2> SUFFICES ASSUME Lossless'
                 PROVE  Up' = Up
      BY DEF UpKept
    <2>1. o.put = o.out
      BY <1>5, SendNotes DEF Lossless
    <2>2. UpMoved(logic.out, o.put, o.buf)
      BY <1>4, <2>1
    <2>3. wire.up \in Seq(Tokens) /\ <<>> \in Seq(Tokens)
      BY <1>1 DEF Typed, Wires
    <2>4. (wire.up \o o.put) \o LOut!Contents(o.buf) = wire.up \o LOut!Contents(logic.out)
      BY <2>2, <2>3, Zenon DEF UpMoved
    <2> QED
      BY <1>6, <2>4 DEF Up
  <1>9. FromClientKept /\ DownKept /\ FromLogicKept
    BY <1>3, <1>6 DEF FromClientKept, DownKept, FromLogicKept, Down, LogicKept
  <1>10. UpInv' /\ DownInv'
    BY <1>1, <1>8, <1>9, UpStays, DownStays DEF RelayInv
  <1>11. LoopLeft' /\ OpenServed' /\ ReleasedForCause' /\ AbortsExplained'
    BY <1>1, <1>3, <1>5
       DEF RelayInv, LoopLeft, OpenServed, ReleasedForCause, AbortsExplained, Noting
  <1> QED
    BY <1>7, <1>10, <1>11 DEF RelayInv

(* Bytes of the client are received. *)
LEMMA PollClientKeeps ==
    ASSUME RelayInv, PollClient
    PROVE  RelayInv'
  <1>1. Typed /\ pc = "poll" /\ Lossless /\ Running /\ client.open
    BY DEF RelayInv, PollClient, ClientReady, At, Running
  <1> DEFINE f == net.fromClient
             b == client.in
  <1>2. PICK e \in f + 1 .. Len(ClientStream) :
        LET r == CIn!Recv(b, SubSeq(ClientStream, f + 1, e), FALSE)
        IN  /\ r.result = "SUCESS"
            /\ client' = [client EXCEPT !.in = r.buf]
            /\ net' = [net EXCEPT !.fromClient = @ + r.n]
            /\ Notes(0, IF CIn!Wipes(b, r.n) THEN {"wiped"} ELSE {})
    BY DEF PollClient
  <1> DEFINE kernel == SubSeq(ClientStream, f + 1, e)
             r == CIn!Recv(b, kernel, FALSE)
             what == IF CIn!Wipes(b, r.n) THEN {"wiped"} ELSE {}
  <1>3. pc' = "client" /\ served' = served \cup {"client"} /\ UNCHANGED <<logic, guid, wire>>
    BY DEF PollClient
  <1>4. /\ ClientStream \in Seq(Tokens) /\ Len(ClientStream) \in Nat
        /\ f \in 0 .. Len(ClientStream) /\ e \in f .. Len(ClientStream)
        /\ b \in CI!Rings
    <2>1. Len(ClientStream) \in Nat /\ ClientStream \in Seq(Tokens)
      BY Streams
    <2>2. f \in 0 .. Len(ClientStream) /\ b \in CI!Rings
      BY <1>1 DEF Typed, Nets, Clients
    <2> QED
      BY <2>1, <2>2
  <1>5. kernel \in Seq(Tokens) /\ Len(kernel) = e - f
    BY <1>4, Middle
  <1>6. r = CI!Recv(b, kernel, FALSE)
    BY SameClientIn
  <1>7. /\ r.result = "SUCESS"
        /\ client' = [client EXCEPT !.in = r.buf]
        /\ net' = [net EXCEPT !.fromClient = f + r.n]
        /\ Notes(0, what)
    BY <1>2
  <1> HIDE DEF kernel, r
  <1>8. /\ r.n \in 1 .. Len(kernel)
        /\ r.buf \in CI!Rings
        /\ ~CI!Wipes(b, r.n) => CI!Contents(r.buf) = CI!Contents(b) \o SubSeq(kernel, 1, r.n)
    BY <1>4, <1>5, <1>6, <1>7, RingsSized, CI!RecvAppends
  <1>9. /\ r.n \in 0 .. e - f
        /\ ~CIn!Wipes(b, r.n) => CIn!Contents(r.buf) = CIn!Contents(b) \o SubSeq(kernel, 1, r.n)
    <2>1. r.n \in 0 .. e - f
      BY <1>4, <1>5, <1>8
    <2> QED
      BY <1>8, <2>1, SameClientIn
  <1>10. trouble' = trouble \cup what /\ Noting(what)
    <2>1. what \in SUBSET Troubles
      BY DEF Troubles
    <2> HIDE DEF what
    <2> QED
      BY <1>1, <1>7, <2>1, NotesTyped
  <1>11. /\ client' \in Clients /\ client'.in = r.buf /\ client'.out = client.out
         /\ client'.open = client.open
    BY <1>1, <1>7, <1>8 DEF Typed, Clients
  <1>12. f + r.n \in 0 .. Len(ClientStream)
    BY <1>4, <1>9
  <1>13. net' \in Nets /\ net'.fromClient = f + r.n /\ net'.fromLogic = net.fromLogic
         /\ net'.closed = net.closed
    BY <1>1, <1>7, <1>12 DEF Typed, Nets
  <1>14. Typed'
    BY <1>1, <1>3, <1>10, <1>11, <1>13 DEF Typed, Noting
  <1>15. UpInv'
    <2> SUFFICES ASSUME Running'
                 PROVE  \E k \in 0 .. Len(ClientPackets) : Upward(k)'
      BY DEF UpInv
    <2>1. PICK k \in 0 .. Len(ClientPackets) : Upward(k)
      BY <1>1 DEF RelayInv, UpInv
    <2>2. ~CIn!Wipes(b, r.n)
      BY <1>10 DEF Running, Lossless
    <2>3. CIn!Contents(r.buf) = CIn!Contents(b) \o SubSeq(kernel, 1, r.n)
      BY <1>9, <2>2
    <2>4. Follows(ClientPieces, k, CIn!Contents(b), f)
      BY <1>1, <2>1 DEF Upward, ClientAt
    <2>5. Follows(ClientPieces, k, CIn!Contents(b) \o SubSeq(kernel, 1, r.n), f + r.n)
      <3> DEFINE c == CIn!Contents(b)
                 n == r.n
      <3>1. c \in Seq(Tokens)
        BY <1>4, ReadClient
      <3>2. /\ ClientPieces \in Pieces(Tokens) /\ k \in 0 .. Len(ClientPieces)
            /\ ClientStream = Joined(ClientPieces)[Len(ClientPieces)]
        BY Streams
      <3>3. n \in 0 .. e - f /\ Follows(ClientPieces, k, c, f)
        BY <1>9, <2>4
      <3> HIDE DEF c, n
      <3>4. Follows(ClientPieces, k, c \o SubSeq(SubSeq(ClientStream, f + 1, e), 1, n), f + n)
        BY <1>4, <3>1, <3>2, <3>3, FollowsMore
      <3> QED
        BY <3>4 DEF c, n, kernel
    <2>6. ClientAt(client'.in, k, net'.fromClient)
      BY <1>11, <1>13, <2>3, <2>5 DEF ClientAt
    <2>7. Up' = Up
      BY <1>3 DEF Up
    <2>8. Upward(k)'
      BY <2>1, <2>6, <2>7 DEF Upward, ClientAt
    <2> QED
      BY <2>8
  <1>16. DownInv'
    <2>1. DownKept /\ FromLogicKept
      BY <1>3, <1>11, <1>13 DEF DownKept, FromLogicKept, Down
    <2> QED
      BY <1>1, <2>1, DownStays DEF RelayInv
  <1>17. LoopLeft' /\ OpenServed' /\ ReleasedForCause' /\ AbortsExplained'
    BY <1>1, <1>3, <1>11 DEF LoopLeft, OpenServed, ReleasedForCause, AbortsExplained
  <1> QED
    BY <1>14, <1>15, <1>16, <1>17 DEF RelayInv

(* Bytes of the logic server are received. *)
LEMMA PollLogicKeeps ==
    ASSUME RelayInv, PollLogic
    PROVE  RelayInv'
  <1>1. Typed /\ pc = "poll" /\ Lossless /\ Running
    BY DEF RelayInv, PollLogic, At, Running
  <1> DEFINE f == net.fromLogic
             b == logic.in
  <1>2. PICK e \in f + 1 .. Len(LogicStream) :
        LET r == LIn!Recv(b, SubSeq(LogicStream, f + 1, e), FALSE)
        IN  /\ r.result = "SUCESS"
            /\ logic' = [logic EXCEPT !.in = r.buf]
            /\ net' = [net EXCEPT !.fromLogic = @ + r.n]
            /\ Notes(0, IF LIn!Wipes(b, r.n) THEN {"wiped"} ELSE {})
    BY DEF PollLogic
  <1> DEFINE kernel == SubSeq(LogicStream, f + 1, e)
             r == LIn!Recv(b, kernel, FALSE)
             what == IF LIn!Wipes(b, r.n) THEN {"wiped"} ELSE {}
  <1>3. pc' = "logic" /\ served' = served \cup {"logic"} /\ UNCHANGED <<client, guid, wire>>
    BY DEF PollLogic
  <1>4. /\ LogicStream \in Seq(Tokens) /\ Len(LogicStream) \in Nat
        /\ f \in 0 .. Len(LogicStream) /\ e \in f .. Len(LogicStream)
        /\ b \in LI!Rings
    <2>1. Len(LogicStream) \in Nat /\ LogicStream \in Seq(Tokens)
      BY Streams
    <2>2. f \in 0 .. Len(LogicStream) /\ b \in LI!Rings
      BY <1>1 DEF Typed, Nets, Logics
    <2> QED
      BY <2>1, <2>2
  <1>5. kernel \in Seq(Tokens) /\ Len(kernel) = e - f
    BY <1>4, Middle
  <1>6. r = LI!Recv(b, kernel, FALSE)
    BY SameLogicIn
  <1>7. /\ r.result = "SUCESS"
        /\ logic' = [logic EXCEPT !.in = r.buf]
        /\ net' = [net EXCEPT !.fromLogic = f + r.n]
        /\ Notes(0, what)
    BY <1>2
  <1> HIDE DEF kernel, r
  <1>8. /\ r.n \in 1 .. Len(kernel)
        /\ r.buf \in LI!Rings
        /\ ~LI!Wipes(b, r.n) => LI!Contents(r.buf) = LI!Contents(b) \o SubSeq(kernel, 1, r.n)
    BY <1>4, <1>5, <1>6, <1>7, RingsSized, LI!RecvAppends
  <1>9. /\ r.n \in 0 .. e - f
        /\ ~LIn!Wipes(b, r.n) => LIn!Contents(r.buf) = LIn!Contents(b) \o SubSeq(kernel, 1, r.n)
    <2>1. r.n \in 0 .. e - f
      BY <1>4, <1>5, <1>8
    <2> QED
      BY <1>8, <2>1, SameLogicIn
  <1>10. trouble' = trouble \cup what /\ Noting(what)
    <2>1. what \in SUBSET Troubles
      BY DEF Troubles
    <2> HIDE DEF what
    <2> QED
      BY <1>1, <1>7, <2>1, NotesTyped
  <1>11. logic' \in Logics /\ logic'.in = r.buf /\ logic'.out = logic.out
    BY <1>1, <1>7, <1>8 DEF Typed, Logics
  <1>12. f + r.n \in 0 .. Len(LogicStream)
    BY <1>4, <1>9
  <1>13. net' \in Nets /\ net'.fromLogic = f + r.n /\ net'.fromClient = net.fromClient
         /\ net'.closed = net.closed
    BY <1>1, <1>7, <1>12 DEF Typed, Nets
  <1>14. Typed'
    BY <1>1, <1>3, <1>10, <1>11, <1>13 DEF Typed, Noting
  <1>15. DownInv'
    <2> SUFFICES ASSUME Running'
                 PROVE  \E m \in 0 .. Len(LogicPackets) : \E S \in SUBSET (1 .. m) : Downward(m, S)'
      BY DEF DownInv
    <2>1. PICK m \in 0 .. Len(LogicPackets) : \E S \in SUBSET (1 .. m) : Downward(m, S)
      BY <1>1 DEF RelayInv, DownInv
    <2>2. PICK S \in SUBSET (1 .. m) : Downward(m, S)
      BY <2>1
    <2>3. ~LIn!Wipes(b, r.n)
      BY <1>10 DEF Running, Lossless
    <2>4. LIn!Contents(r.buf) = LIn!Contents(b) \o SubSeq(kernel, 1, r.n)
      BY <1>9, <2>3
    <2>5. Follows(LogicPieces, m, LIn!Contents(b), f)
      BY <2>2 DEF Downward, LogicAt
    <2>6. Follows(LogicPieces, m, LIn!Contents(b) \o SubSeq(kernel, 1, r.n), f + r.n)
      <3> DEFINE c == LIn!Contents(b)
                 n == r.n
      <3>1. c \in Seq(Tokens)
        BY <1>4, ReadLogic
      <3>2. /\ LogicPieces \in Pieces(Tokens) /\ m \in 0 .. Len(LogicPieces)
            /\ LogicStream = Joined(LogicPieces)[Len(LogicPieces)]
        BY Streams
      <3>3. n \in 0 .. e - f /\ Follows(LogicPieces, m, c, f)
        BY <1>9, <2>5
      <3> HIDE DEF c, n
      <3>4. Follows(LogicPieces, m, c \o SubSeq(SubSeq(LogicStream, f + 1, e), 1, n), f + n)
        BY <1>4, <3>1, <3>2, <3>3, FollowsMore
      <3> QED
        BY <3>4 DEF c, n, kernel
    <2>7. LogicAt(logic'.in, m, net'.fromLogic)
      BY <1>11, <1>13, <2>4, <2>6 DEF LogicAt
    <2>8. Down' = Down /\ client'.open = client.open
      BY <1>3 DEF Down
    <2>9. Downward(m, S)'
      BY <2>2, <2>7, <2>8 DEF Downward, LogicAt
    <2> QED
      BY <2>9
  <1>16. UpInv'
    <2>1. UpKept /\ FromClientKept
      BY <1>3, <1>11, <1>13 DEF UpKept, FromClientKept, Up
    <2> QED
      BY <1>1, <2>1, UpStays DEF RelayInv
  <1>17. LoopLeft' /\ OpenServed' /\ ReleasedForCause' /\ AbortsExplained'
    BY <1>1, <1>3, <1>10, <1>13
       DEF RelayInv, LoopLeft, OpenServed, ReleasedForCause, AbortsExplained, Noting
  <1> QED
    BY <1>14, <1>15, <1>16, <1>17 DEF RelayInv

(* How long a packet is behind its GUID. *)
LEMMA FramedLength ==
    ASSUME NEW known \in BOOLEAN, NEW source, NEW n, IsPacket(source, n)
    PROVE  Len(GuidBytes(known) \o Packet(source, n)) = GuidLen + HeadLen + Body(Id(source, n))
  <1> DEFINE g == GuidBytes(known)
             p == Packet(source, n)
  <1>1. g \in Seq(Tokens) /\ Len(g) = GuidLen /\ GuidLen \in Nat
    BY GuidIs
  <1>2. p \in Seq(Tokens) /\ Len(p) = HeadLen + Body(Id(source, n))
        /\ Body(Id(source, n)) \in Nat
    BY PacketIs, PacketTokens, RelayAssumption DEF RelayAssumption
  <1>3. HeadLen \in Nat
    BY RelayAssumption DEF RelayAssumption
  <1> HIDE DEF g, p
  <1>4. Len(g \o p) = Len(g) + Len(p)
    BY <1>1, <1>2, ConcatProperties
  <1>5. Len(g \o p) = GuidLen + HeadLen + Body(Id(source, n))
    BY <1>1, <1>2, <1>3, <1>4
  <1> QED
    BY <1>5 DEF g, p

(* The client has closed: a Logout goes up and the session is released. *)
LEMMA ConnectionCloseKeeps ==
    ASSUME RelayInv, ConnectionClose
    PROVE  RelayInv'
  <1>1. Typed /\ pc = "poll" /\ Lossless /\ Running /\ client.open
    BY DEF RelayInv, ConnectionClose, ClientReady, At, Running
  <1>2. PICK e \in net.fromClient .. Len(ClientStream) :
        LET kernel == SubSeq(ClientStream, net.fromClient + 1, e)
        IN  /\ CIn!Recv(client.in, kernel, TRUE).result = "CONNECTION_CLOSED"
            /\ SendPacketToServer(Released, guid, Packet(GATEWAY, 1), {})
            /\ net' = [net EXCEPT !.closed = kernel = <<>>]
    BY DEF ConnectionClose
  <1> DEFINE kernel == SubSeq(ClientStream, net.fromClient + 1, e)
             r == CIn!Recv(client.in, kernel, TRUE)
             gone == kernel = <<>>
  <1>3. /\ r.result = "CONNECTION_CLOSED"
        /\ SendPacketToServer(Released, guid, Packet(GATEWAY, 1), {})
        /\ net' = [net EXCEPT !.closed = gone]
    BY <1>2
  <1>4. kernel \in Seq(Tokens)
    <2>1. ClientStream \in Seq(Tokens) /\ Len(ClientStream) \in Nat
      BY Streams
    <2>2. net.fromClient \in 0 .. Len(ClientStream)
      BY <1>1 DEF Typed, Nets
    <2> QED
      BY <2>1, <2>2, Middle
  <1> HIDE DEF kernel
  <1>5. gone
    <2>1. client.in \in CI!Rings
      BY <1>1 DEF Typed, Clients
    <2>2. r = CI!Recv(client.in, kernel, TRUE)
      BY SameClientIn
    <2>3. kernel = <<>> \/ CIn!GetWriteSize(client.in) = 1
      <3> HIDE DEF r
      <3>1. kernel = <<>> \/ CI!GetWriteSize(client.in) = 1
        BY <1>3, <1>4, <2>1, <2>2, RingsSized, CI!RecvAppends
      <3> QED
        BY <3>1, SameClientIn
    <2>4. /\ CIn!GetReadSize(client.in) \in 0 .. ClientIn - 1
          /\ CIn!GetReadSize(client.in) + CIn!GetWriteSize(client.in) = ClientIn
      BY <2>1, ReadClient
    <2>5. CIn!GetReadSize(client.in) <= HeadLen
      BY <1>1 DEF RelayInv, LoopLeft
    <2>6. ClientIn \in Nat /\ HeadLen \in Nat /\ ClientIn > HeadLen + 1
      BY RelayAssumption DEF RelayAssumption
    <2>7. CIn!GetWriteSize(client.in) # 1
      BY <2>4, <2>5, <2>6
    <2> QED
      BY <2>3, <2>7
  <1>6. net' \in Nets /\ net'.closed = TRUE /\ net'.fromClient = net.fromClient
        /\ net'.fromLogic = net.fromLogic
    BY <1>1, <1>3, <1>5 DEF Typed, Nets
  <1> DEFINE p == Packet(GATEWAY, 1)
  <1>7. IsPacket(GATEWAY, 1) /\ Id(GATEWAY, 1) = "Logout"
    BY DEF IsPacket, Id, GATEWAY, CLIENT, LOGICSERVER
  <1>8. p \in Seq(Tokens) /\ Len(p) >= HeadLen
    <2>1. Body("Logout") \in Nat /\ HeadLen \in Nat
      BY RelayAssumption DEF RelayAssumption, PacketId
    <2> QED
      BY <1>7, <2>1, PacketIs, PacketTokens
  <1>9. guid \in BOOLEAN
    BY <1>1 DEF Typed
  <1> HIDE DEF p
  <1>10. PacketUp(Released, guid, p) /\ Noting({})
    <2>1. SendPacketToServer(Released, guid, p, {})
      BY <1>3 DEF p
    <2> QED
      BY <1>1, <1>8, <1>9, <2>1, PacketGoesUp
  <1>11. CASE pc' = "aborted" /\ UNCHANGED <<client, logic, guid, wire, served>>
              /\ (trouble' = {} => Len(GuidBytes(guid) \o p) > LogicOut)
    <2>1. Typed'
      BY <1>1, <1>6, <1>10, <1>11 DEF Typed, Noting
    <2>2. trouble' # {}
      <3>1. Len(GuidBytes(guid) \o p) = GuidLen + HeadLen + Body("Logout")
        BY <1>7, <1>9, FramedLength DEF p
      <3>2. GuidLen + HeadLen + Body("Logout") <= LogicOut
        BY RelayAssumption DEF RelayAssumption
      <3>3. /\ GuidLen \in Nat /\ HeadLen \in Nat /\ LogicOut \in Nat
            /\ Body("Logout") \in Nat
        BY RelayAssumption DEF RelayAssumption, PacketId
      <3> QED
        BY <1>11, <3>1, <3>2, <3>3
    <2> QED
      BY <1>1, <1>11, <2>1, <2>2
         DEF RelayInv, LoopLeft, OpenServed, ReleasedForCause, AbortsExplained,
             UpInv, DownInv, Running
  <1>12. CASE /\ client' = Released /\ guid' = (guid /\ Released.open) /\ UNCHANGED <<pc, served>>
              /\ logic' \in Logics /\ logic'.in = logic.in /\ logic'.out.reader = 0
              /\ wire' \in Wires /\ wire'.down = wire.down
              /\ Lossless' => Up' = Up \o (GuidBytes(guid) \o p)
    <2>1. /\ client' \in Clients /\ client'.out.reader = 0 /\ client'.open = FALSE
          /\ CIn!GetReadSize(client'.in) = 0
      BY <1>12, ReleasedIs
    <2>2. Typed'
      BY <1>1, <1>6, <1>10, <1>12, <2>1 DEF Typed, Noting
    <2>3. UpInv'
      <3>1. Lossless' => Up' = Up \o (GuidBytes(guid) \o Packet(GATEWAY, 1))
        BY <1>12 DEF p
      <3> QED
        BY <1>1, <1>9, <2>1, <3>1, UpLogout DEF RelayInv
    <2>4. DownInv'
      <3>1. DownKept /\ FromLogicKept
        BY <1>6, <1>12, <2>1 DEF DownKept, FromLogicKept
      <3> QED
        BY <1>1, <3>1, DownStays DEF RelayInv
    <2>5. HeadLen \in Nat
      BY RelayAssumption DEF RelayAssumption
    <2>6. LoopLeft' /\ OpenServed' /\ ReleasedForCause' /\ AbortsExplained'
      BY <1>1, <1>6, <1>12, <2>1, <2>5
         DEF LoopLeft, OpenServed, ReleasedForCause, AbortsExplained
    <2> QED
      BY <2>2, <2>3, <2>4, <2>6 DEF RelayInv
  <1> QED
    BY <1>10, <1>11, <1>12 DEF PacketUp

(* A step that moves no byte. *)
LEMMA NothingMoves ==
    ASSUME RelayInv, Running, UNCHANGED <<client, logic, guid, net, wire, served>>,
           pc' \in {"serve", "poll", "client", "logic", "tick", "aborted"}, Noting({}),
           LoopLeft', OpenServed', AbortsExplained'
    PROVE  RelayInv'
  <1>1. Typed'
    BY DEF RelayInv, Typed, Noting
  <1>2. /\ UpKept /\ FromClientKept /\ DownKept /\ FromLogicKept
    BY DEF UpKept, FromClientKept, DownKept, FromLogicKept, Up, Down
  <1>3. UpInv' /\ DownInv'
    BY <1>2, UpStays, DownStays DEF RelayInv
  <1>4. ReleasedForCause'
    BY DEF RelayInv, ReleasedForCause, Noting
  <1> QED
    BY <1>1, <1>3, <1>4 DEF RelayInv

(* The events of the round have been handled. *)
LEMMA PollDoneKeeps ==
    ASSUME RelayInv, PollDone
    PROVE  RelayInv'
  <1>1. pc = "poll" /\ Running /\ pc' \in {"tick", "serve"}
        /\ UNCHANGED <<client, logic, guid, net, wire, served, trouble>>
    BY DEF PollDone, At, Running
  <1>2. Noting({})
    BY <1>1 DEF RelayInv, Typed, Noting
  <1>3. LoopLeft' /\ OpenServed' /\ AbortsExplained'
    BY <1>1 DEF RelayInv, LoopLeft, OpenServed, AbortsExplained
  <1> QED
    BY <1>1, <1>2, <1>3, NothingMoves

(* The client's loop is left: no more than a head remains. *)
LEMMA ClientLeavesKeeps ==
    ASSUME RelayInv, ClientLeaves
    PROVE  RelayInv'
  <1>1. pc = "client" /\ Running /\ pc' = "poll" /\ CIn!GetReadSize(client.in) <= HeadLen
        /\ UNCHANGED <<client, logic, guid, net, wire, served, trouble>>
    BY DEF ClientLeaves, At, Running, ClientDone, ClientSize
  <1>2. Noting({})
    BY <1>1 DEF RelayInv, Typed, Noting
  <1>3. LoopLeft' /\ OpenServed' /\ AbortsExplained'
    BY <1>1 DEF LoopLeft, OpenServed, AbortsExplained
  <1> QED
    BY <1>1, <1>2, <1>3, NothingMoves

(* It goes round. *)
LEMMA ClientWaitsKeeps ==
    ASSUME RelayInv, ClientWaits
    PROVE  RelayInv'
  <1>1. pc = "client" /\ Running /\ pc' = "client"
        /\ UNCHANGED <<client, logic, guid, net, wire, served>>
        /\ trouble' = trouble \cup ClientPast(HeadLen)
    BY DEF ClientWaits, At, Running
  <1>2. Noting({})
    BY <1>1 DEF RelayInv, Typed, Noting, ClientPast, OfRead, Troubles
  <1>3. LoopLeft' /\ OpenServed' /\ AbortsExplained'
    BY <1>1 DEF RelayInv, LoopLeft, OpenServed, AbortsExplained
  <1> QED
    BY <1>1, <1>2, <1>3, NothingMoves

(* The logic server's loop is left. *)
LEMMA LogicLeavesKeeps ==
    ASSUME RelayInv, LogicLeaves
    PROVE  RelayInv'
  <1>1. pc = "logic" /\ Running /\ pc' = "poll"
        /\ UNCHANGED <<client, logic, guid, net, wire, served, trouble>>
    BY DEF LogicLeaves, At, Running
  <1>2. Noting({})
    BY <1>1 DEF RelayInv, Typed, Noting
  <1>3. LoopLeft' /\ OpenServed' /\ AbortsExplained'
    BY <1>1 DEF RelayInv, LoopLeft, OpenServed, AbortsExplained
  <1> QED
    BY <1>1, <1>2, <1>3, NothingMoves

(* It goes round. *)
LEMMA LogicWaitsKeeps ==
    ASSUME RelayInv, LogicWaits
    PROVE  RelayInv'
  <1>1. pc = "logic" /\ Running /\ pc' = "logic"
        /\ UNCHANGED <<client, logic, guid, net, wire, served>>
        /\ trouble' = trouble \cup LogicPast(GuidLen + HeadLen)
    BY DEF LogicWaits, At, Running
  <1>2. Noting({})
    BY <1>1 DEF RelayInv, Typed, Noting, LogicPast, OfRead, Troubles
  <1>3. LoopLeft' /\ OpenServed' /\ AbortsExplained'
    BY <1>1 DEF RelayInv, LoopLeft, OpenServed, AbortsExplained
  <1> QED
    BY <1>1, <1>2, <1>3, NothingMoves

(* The client is sent what is there for it, or its session is released. *)
LEMMA TickKeeps ==
    ASSUME RelayInv, Tick
    PROVE  RelayInv'
  <1>1. Typed /\ pc = "tick" /\ Lossless /\ Running
    BY DEF RelayInv, Tick, At, Running
  <1>2. PICK o \in SendsToClient :
        /\ Notes(Partial(o), OfSend(o))
        /\ wire' = [wire EXCEPT !.down = @ \o o.put]
        /\ client' = IF o.result = "SUCESS" THEN [client EXCEPT !.out = o.buf] ELSE Released
        /\ guid' = (guid /\ o.result = "SUCESS")
    BY DEF Tick
  <1>3. pc' = "serve" /\ UNCHANGED <<logic, net, served>>
    BY DEF Tick
  <1>4. /\ o.buf \in CO!Rings /\ o.buf.reader = 0 /\ o.put \in Seq(Tokens)
        /\ o.put = o.out => DownMoved(client.out, o.put, o.buf)
    BY <1>1, <1>2, SentToClient
  <1>5. trouble' = trouble \cup OfSend(o) /\ Noting(OfSend(o))
    BY <1>1, <1>2, SendNotes, NotesTyped
  <1>6. wire' \in Wires /\ wire'.up = wire.up /\ wire'.down = wire.down \o o.put
    BY <1>1, <1>2, <1>4, WireDown
  <1>7. guid' \in BOOLEAN
    BY <1>2
  <1>8. CASE o.result = "SUCESS"
    <2>1. /\ client' \in Clients /\ client'.out = o.buf /\ client'.in = client.in
          /\ client'.open = client.open
      BY <1>1, <1>2, <1>4, <1>8 DEF Typed, Clients
    <2>2. Typed'
      BY <1>1, <1>3, <1>4, <1>5, <1>6, <1>7, <2>1 DEF Typed, Noting
    <2>3. UpKept /\ FromClientKept /\ FromLogicKept
      BY <1>3, <1>6, <2>1 DEF UpKept, FromClientKept, FromLogicKept, Up
    <2>4. DownKept
      <3> SUFFICES ASSUME Lossless'
                   PROVE  Down' = Down
        BY <2>1 DEF DownKept
      <3>1. o.put = o.out
        BY <1>5, SendNotes DEF Lossless
      <3>2. DownMoved(client.out, o.put, o.buf)
        BY <1>4, <3>1
      <3>3. wire.down \in Seq(Tokens) /\ <<>> \in Seq(Tokens)
        BY <1>1 DEF Typed, Wires
      <3>4. (wire.down \o o.put) \o COut!Contents(o.buf) = wire.down \o COut!Contents(client.out)
        BY <3>2, <3>3, Zenon DEF DownMoved
      <3> QED
        BY <1>6, <2>1, <3>4 DEF Down
    <2>5. UpInv' /\ DownInv'
      BY <1>1, <2>3, <2>4, UpStays, DownStays DEF RelayInv
    <2>6. LoopLeft' /\ OpenServed' /\ ReleasedForCause' /\ AbortsExplained'
      BY <1>1, <1>3, <1>5, <2>1
         DEF RelayInv, LoopLeft, OpenServed, ReleasedForCause, AbortsExplained, Noting
    <2> QED
      BY <2>2, <2>5, <2>6 DEF RelayInv
  <1>9. CASE o.result # "SUCESS"
    <2>1. /\ client' \in Clients /\ client'.out.reader = 0 /\ client'.open = FALSE
          /\ CIn!GetReadSize(client'.in) = 0
      BY <1>2, <1>9, ReleasedIs
    <2>2. Typed'
      BY <1>1, <1>3, <1>5, <1>6, <1>7, <2>1 DEF Typed, Noting
    <2>3. UpKept /\ FromClientKept /\ FromLogicKept /\ DownKept
      BY <1>3, <1>6, <2>1 DEF UpKept, FromClientKept, FromLogicKept, DownKept, Up
    <2>4. UpInv' /\ DownInv'
      BY <1>1, <2>3, UpStays, DownStays DEF RelayInv
    <2>5. "blocked" \in trouble'
      BY <1>5, <1>9, SendNotes
    <2>6. HeadLen \in Nat
      BY RelayAssumption DEF RelayAssumption
    <2>7. LoopLeft' /\ OpenServed' /\ ReleasedForCause' /\ AbortsExplained'
      BY <1>3, <2>1, <2>5, <2>6 DEF LoopLeft, OpenServed, ReleasedForCause, AbortsExplained
    <2> QED
      BY <2>2, <2>4, <2>7 DEF RelayInv
  <1> QED
    BY <1>8, <1>9

-----------------------------------------------------------------------------
(* Inside the client's loop there is a k as in UpInv, and a head that is read     *)
(* before the end of the ring is that of packet k + 1.                            *)
LEMMA ClientNext ==
    ASSUME RelayInv, At("client"), ~ClientDone
    PROVE  \E k \in 0 .. Len(ClientPackets) :
              /\ Upward(k)
              /\ ClientPast(HeadLen) = {} =>
                    \A h \in ClientHeads : ClientHead(client.in, k, net.fromClient, h)
  <1>1. Typed /\ Running /\ client.open
    BY DEF RelayInv, At, Running, OpenServed
  <1>2. PICK k \in 0 .. Len(ClientPackets) : Upward(k)
    BY <1>1 DEF RelayInv, UpInv
  <1>3. ASSUME ClientPast(HeadLen) = {}, NEW h \in ClientHeads
        PROVE  ClientHead(client.in, k, net.fromClient, h)
    <2>1. client.in \in CI!Rings /\ net.fromClient \in 0 .. Len(ClientStream)
      BY <1>1 DEF Typed, Clients, Nets
    <2>2. HeadLen \in Nat /\ ClientIn \in Nat
      BY RelayAssumption DEF RelayAssumption
    <2>3. client.in.reader \in Nat
      BY <2>1, <2>2 DEF CI!Rings, CI!Places
    <2>4. client.in.reader + HeadLen <= ClientIn
      <3>1. ~(client.in.reader + HeadLen > ClientIn)
        BY <1>3 DEF ClientPast, OfRead
      <3> QED
        BY <2>2, <2>3, <3>1
    <2>5. CIn!GetReadSize(client.in) > HeadLen
      <3>1. CIn!GetReadSize(client.in) \in 0 .. ClientIn - 1
        BY <2>1, ReadClient
      <3>2. ~(CIn!GetReadSize(client.in) <= HeadLen)
        BY DEF ClientDone, ClientSize
      <3> QED
        BY <2>2, <3>1, <3>2
    <2>6. ClientAt(client.in, k, net.fromClient)
      BY <1>1, <1>2 DEF Upward
    <2>7. h \in HeadsOf(CIn!InPlace(client.in, 0, HeadLen))
      BY DEF ClientHeads
    <2> QED
      BY <2>1, <2>4, <2>5, <2>6, <2>7, ClientReads
  <1> QED
    BY <1>2, <1>3

(* The same of the logic server's loop. *)
LEMMA LogicNext ==
    ASSUME RelayInv, At("logic"), ~LogicDone
    PROVE  \E m \in 0 .. Len(LogicPackets) : \E S \in SUBSET (1 .. m) :
              /\ Downward(m, S)
              /\ LogicPast(GuidLen + HeadLen) = {} =>
                    \A h \in LogicHeads : LogicHead(logic.in, m, net.fromLogic, h)
  <1>1. Typed /\ Running
    BY DEF RelayInv, At, Running
  <1>2. PICK m \in 0 .. Len(LogicPackets) : \E S \in SUBSET (1 .. m) : Downward(m, S)
    BY <1>1 DEF RelayInv, DownInv
  <1>3. PICK S \in SUBSET (1 .. m) : Downward(m, S)
    BY <1>2
  <1>4. ASSUME LogicPast(GuidLen + HeadLen) = {}, NEW h \in LogicHeads
        PROVE  LogicHead(logic.in, m, net.fromLogic, h)
    <2>1. logic.in \in LI!Rings /\ net.fromLogic \in 0 .. Len(LogicStream)
      BY <1>1 DEF Typed, Logics, Nets
    <2>2. HeadLen \in Nat /\ GuidLen \in Nat /\ LogicIn \in Nat
      BY RelayAssumption DEF RelayAssumption
    <2>3. logic.in.reader \in Nat
      BY <2>1, <2>2 DEF LI!Rings, LI!Places
    <2>4. logic.in.reader + (GuidLen + HeadLen) <= LogicIn
      <3>1. ~(logic.in.reader + (GuidLen + HeadLen) > LogicIn)
        BY <1>4 DEF LogicPast, OfRead
      <3> QED
        BY <2>2, <2>3, <3>1
    <2>5. LIn!GetReadSize(logic.in) > GuidLen + HeadLen
      <3>1. LIn!GetReadSize(logic.in) \in 0 .. LogicIn - 1
        BY <2>1, ReadLogic
      <3>2. ~(LIn!GetReadSize(logic.in) <= GuidLen + HeadLen)
        BY DEF LogicDone, LogicSize
      <3> QED
        BY <2>2, <3>1, <3>2
    <2>6. LogicAt(logic.in, m, net.fromLogic)
      BY <1>3 DEF Downward
    <2>7. h \in HeadsOf(LIn!InPlace(logic.in, GuidLen, HeadLen))
      BY DEF LogicHeads
    <2> QED
      BY <2>1, <2>4, <2>5, <2>6, <2>7, LogicReads
  <1> QED
    BY <1>3, <1>4

(* Whatever is taken for the head of a packet of the client, and its bytes. *)
LEMMA ClientTaken ==
    ASSUME Typed, NEW h, ClientHas(h)
    PROVE  /\ h.len \in Nat /\ HeadLen \in Nat
           /\ HeadLen + h.len \in 0 .. CIn!GetReadSize(client.in)
           /\ CIn!ReadPtr(client.in, HeadLen + h.len) \in CI!Rings
           /\ SubSeq(CIn!Contents(client.in), 1, HeadLen + h.len) \in Seq(Tokens)
           /\ Len(SubSeq(CIn!Contents(client.in), 1, HeadLen + h.len)) = HeadLen + h.len
           /\ CIn!InPlace(client.in, 0, HeadLen + h.len) \in Seq(Tokens)
           /\ Len(CIn!InPlace(client.in, 0, HeadLen + h.len)) = HeadLen + h.len
  <1>1. client.in \in CI!Rings
    BY DEF Typed, Clients
  <1>2. HeadLen \in Nat /\ HeadLen >= 2
    BY RelayAssumption DEF RelayAssumption
  <1>3. h.len \in Nat
    <2>1. CIn!InPlace(client.in, 0, HeadLen) \in Seq(Tokens)
          /\ Len(CIn!InPlace(client.in, 0, HeadLen)) >= 2
      BY <1>1, <1>2, InPlaceClient
    <2>2. h \in HeadsOf(CIn!InPlace(client.in, 0, HeadLen))
      BY DEF ClientHas, ClientHeads
    <2> QED
      BY <2>1, <2>2, HeadsTyped
  <1> DEFINE c == CIn!Contents(client.in)
             n == HeadLen + h.len
  <1>4. /\ c \in Seq(Tokens) /\ Len(c) = CIn!GetReadSize(client.in)
        /\ CIn!GetReadSize(client.in) \in Nat
    BY <1>1, ReadClient
  <1>5. n \in 0 .. CIn!GetReadSize(client.in)
    <2>1. h.len + HeadLen <= CIn!GetReadSize(client.in)
      BY DEF ClientHas, ClientSize
    <2> QED
      BY <1>2, <1>3, <1>4, <2>1
  <1>6. CIn!ReadPtr(client.in, n) \in CI!Rings
    BY <1>1, <1>5, TakeClient
  <1>7. SubSeq(c, 1, n) \in Seq(Tokens) /\ Len(SubSeq(c, 1, n)) = n
    <2> HIDE DEF c, n
    <2>1. n \in 0 .. Len(c)
      BY <1>4, <1>5
    <2> QED
      BY <1>4, <2>1, CI!PrefixBytes
  <1>8. CIn!InPlace(client.in, 0, n) \in Seq(Tokens) /\ Len(CIn!InPlace(client.in, 0, n)) = n
    <2>1. n \in Nat
      BY <1>5
    <2> QED
      BY <1>1, <2>1, InPlaceClient
  <1> QED
    BY <1>2, <1>3, <1>5, <1>6, <1>7, <1>8

(* The same of a packet of the logic server. *)
LEMMA LogicTaken ==
    ASSUME Typed, NEW h, LogicHas(h)
    PROVE  /\ h.len \in Nat /\ HeadLen \in Nat /\ GuidLen \in Nat
           /\ Need(h) = GuidLen + (HeadLen + h.len)
           /\ Need(h) \in 0 .. LIn!GetReadSize(logic.in)
           /\ LIn!ReadPtr(logic.in, Need(h)) \in LI!Rings
           /\ SubSeq(LIn!Contents(logic.in), GuidLen + 1, Need(h)) \in Seq(Tokens)
           /\ Len(SubSeq(LIn!Contents(logic.in), GuidLen + 1, Need(h))) = HeadLen + h.len
           /\ LIn!InPlace(logic.in, GuidLen, HeadLen + h.len) \in Seq(Tokens)
           /\ Len(LIn!InPlace(logic.in, GuidLen, HeadLen + h.len)) = HeadLen + h.len
  <1>1. logic.in \in LI!Rings
    BY DEF Typed, Logics
  <1>2. HeadLen \in Nat /\ HeadLen >= 2 /\ GuidLen \in Nat
    BY RelayAssumption DEF RelayAssumption
  <1>3. h.len \in Nat
    <2>1. LIn!InPlace(logic.in, GuidLen, HeadLen) \in Seq(Tokens)
          /\ Len(LIn!InPlace(logic.in, GuidLen, HeadLen)) >= 2
      BY <1>1, <1>2, InPlaceLogic
    <2>2. h \in HeadsOf(LIn!InPlace(logic.in, GuidLen, HeadLen))
      BY DEF LogicHas, LogicHeads
    <2> QED
      BY <2>1, <2>2, HeadsTyped
  <1> DEFINE c == LIn!Contents(logic.in)
             n == HeadLen + h.len
             e == Need(h)
  <1>4. /\ c \in Seq(Tokens) /\ Len(c) = LIn!GetReadSize(logic.in)
        /\ LIn!GetReadSize(logic.in) \in Nat
    BY <1>1, ReadLogic
  <1>5. n \in Nat /\ e = GuidLen + n /\ e \in Nat
    BY <1>2, <1>3 DEF Need
  <1>6. e \in 0 .. LIn!GetReadSize(logic.in)
    <2>1. e <= LIn!GetReadSize(logic.in)
      BY DEF LogicHas, LogicSize
    <2> QED
      BY <1>4, <1>5, <2>1
  <1>7. LIn!ReadPtr(logic.in, e) \in LI!Rings
    BY <1>1, <1>6, TakeLogic
  <1>8. SubSeq(c, GuidLen + 1, e) \in Seq(Tokens) /\ Len(SubSeq(c, GuidLen + 1, e)) = n
    <2> HIDE DEF c, n, e
    <2>1. GuidLen \in 0 .. Len(c) /\ e \in GuidLen .. Len(c) /\ e - GuidLen = n
      BY <1>2, <1>4, <1>5, <1>6
    <2> QED
      BY <1>4, <2>1, Middle
  <1>9. LIn!InPlace(logic.in, GuidLen, n) \in Seq(Tokens)
        /\ Len(LIn!InPlace(logic.in, GuidLen, n)) = n
    BY <1>1, <1>2, <1>5, InPlaceLogic
  <1> QED
    BY <1>2, <1>3, <1>5, <1>6, <1>7, <1>8, <1>9

(* An assertion has failed and nothing else has changed. *)
LEMMA AbortKeeps ==
    ASSUME RelayInv, Running, Aborts, Noting({}), AbortsExplained'
    PROVE  RelayInv'
  <1>1. pc' = "aborted" /\ UNCHANGED <<client, logic, guid, net, wire, served>>
    BY DEF Aborts, Ends
  <1>2. LoopLeft' /\ OpenServed'
    BY <1>1 DEF LoopLeft, OpenServed
  <1> QED
    BY <1>1, <1>2, NothingMoves

(* The assertion on the length of a packet fails only for a head that was read     *)
(* past the end of the ring.                                                      *)
LEMMA AssertsMisread ==
    ASSUME RelayInv, ClientAsserts
    PROVE  ClientPast(HeadLen) # {}
  <1> SUFFICES ASSUME ClientPast(HeadLen) = {}
               PROVE  FALSE
    OBVIOUS
  <1>1. At("client") /\ ~ClientDone
    BY DEF ClientAsserts
  <1>2. PICK h \in ClientHeads : h.len > PacketMaxLen
    BY DEF ClientAsserts
  <1>3. PICK k \in 0 .. Len(ClientPackets) : ClientHead(client.in, k, net.fromClient, h)
    BY <1>1, <1>2, ClientNext
  <1>4. k + 1 \in 1 .. Len(ClientPackets) /\ h.id = Id(CLIENT, k + 1) /\ h.len = Body(h.id)
    BY <1>3 DEF ClientHead
  <1>5. Body(Id(CLIENT, k + 1)) \in 0 .. PacketMaxLen /\ PacketMaxLen \in Nat
    <2>1. IsPacket(CLIENT, k + 1)
      BY <1>4 DEF IsPacket
    <2> QED
      BY <2>1, PacketIs, RelayAssumption DEF RelayAssumption
  <1> QED
    BY <1>2, <1>4, <1>5

(* The process ends, and it is noted why. *)
LEMMA ClientAssertsKeeps ==
    ASSUME RelayInv, ClientAsserts
    PROVE  RelayInv'
  <1>1. Typed /\ Running
    BY DEF RelayInv, ClientAsserts, At, Running
  <1>2. ClientPast(HeadLen) \in SUBSET Troubles
    BY DEF ClientPast, OfRead, Troubles
  <1>3. Notes(0, ClientPast(HeadLen)) /\ Aborts
    BY DEF ClientAsserts
  <1>4. trouble' = trouble \cup ClientPast(HeadLen) /\ Noting(ClientPast(HeadLen))
    BY <1>1, <1>2, <1>3, NotesTyped
  <1>5. trouble' # {}
    BY <1>4, AssertsMisread
  <1>6. AbortsExplained' /\ Noting({})
    BY <1>4, <1>5 DEF AbortsExplained, Noting
  <1> QED
    BY <1>1, <1>3, <1>6, AbortKeeps

(* A registered packet of the client is read and sent on behind its GUID; the      *)
(* assertions on this way hold unless bytes were misread or sends blocked.        *)
LEMMA ClientRegisteredKeeps ==
    ASSUME RelayInv, ClientRegistered
    PROVE  RelayInv'
  <1> DEFINE past == ClientPast(HeadLen)
             Cl(n) == [client EXCEPT !.in = CIn!ReadPtr(@, n)]
             By(n) == SubSeq(CIn!Contents(client.in), 1, n)
  <1>1. PICK h \in ClientHeads :
        /\ ClientHas(h) /\ h.id \in Registered \cup {"bad"}
        /\ LET n == HeadLen + h.len
               bytes == SubSeq(CIn!Contents(client.in), 1, n)
           IN  IF Decodes(bytes, h.id)
               THEN SendPacketToServer([client EXCEPT !.in = CIn!ReadPtr(@, n)],
                                       TRUE, bytes, ClientPast(HeadLen))
                    /\ UNCHANGED net
               ELSE Notes(0, ClientPast(HeadLen)) /\ Aborts
    BY DEF ClientRegistered
  <1>2. Typed /\ Running /\ At("client") /\ ~ClientDone /\ pc = "client" /\ client.open
    BY <1>1 DEF RelayInv, ClientHas, At, Running, OpenServed
  <1> DEFINE n == HeadLen + h.len
             bytes == By(n)
             cl == Cl(n)
             id == h.id
  <1>3. IF Decodes(bytes, id) THEN SendPacketToServer(cl, TRUE, bytes, past) /\ UNCHANGED net
        ELSE Notes(0, past) /\ Aborts
    BY <1>1
  <1>4. past \in SUBSET Troubles
    BY DEF ClientPast, OfRead, Troubles
  <1>5. /\ n \in 0 .. CIn!GetReadSize(client.in)
        /\ CIn!ReadPtr(client.in, n) \in CI!Rings
        /\ bytes \in Seq(Tokens) /\ Len(bytes) = n /\ n >= HeadLen
    <2>1. /\ h.len \in Nat /\ HeadLen \in Nat /\ n \in 0 .. CIn!GetReadSize(client.in)
          /\ CIn!ReadPtr(client.in, n) \in CI!Rings
          /\ bytes \in Seq(Tokens) /\ Len(bytes) = n
      BY <1>1, <1>2, ClientTaken
    <2>2. n >= HeadLen
      BY <2>1
    <2> QED
      BY <2>1, <2>2
  <1>6. cl \in Clients /\ cl.out = client.out /\ cl.open = TRUE /\ cl.out.reader = 0
        /\ cl.in = CIn!ReadPtr(client.in, n)
    <2> DEFINE b == CIn!ReadPtr(client.in, n)
    <2>1. b \in CI!Rings /\ cl = [client EXCEPT !.in = b]
      BY <1>5
    <2> HIDE DEF b, cl
    <2>2. cl \in Clients /\ cl.out = client.out /\ cl.open = TRUE /\ cl.out.reader = 0 /\ cl.in = b
      BY <1>2, <2>1 DEF Typed, Clients
    <2> QED
      BY <2>2 DEF b
  <1>7. PICK k \in 0 .. Len(ClientPackets) :
              /\ Upward(k)
              /\ past = {} => ClientHead(client.in, k, net.fromClient, h)
    BY <1>1, <1>2, ClientNext
  <1> DEFINE p == Packet(CLIENT, k + 1)
  <1>8. ASSUME past = {}
        PROVE  /\ k + 1 \in 1 .. Len(ClientPackets) /\ id = Id(CLIENT, k + 1) /\ bytes = p
               /\ ClientAt(cl.in, k + 1, net.fromClient)
               /\ IsPacket(CLIENT, k + 1) /\ Decodes(bytes, id)
    <2>1. ClientHead(client.in, k, net.fromClient, h)
      BY <1>7, <1>8
    <2>2. /\ k + 1 \in 1 .. Len(ClientPackets) /\ id = Id(CLIENT, k + 1)
          /\ n <= CIn!GetReadSize(client.in) =>
                /\ bytes = p
                /\ ClientAt(CIn!ReadPtr(client.in, n), k + 1, net.fromClient)
      BY <2>1 DEF ClientHead
    <2>3. CIn!GetReadSize(client.in) \in Nat
      <3>1. client.in \in CI!Rings
        BY <1>2 DEF Typed, Clients
      <3>2. CIn!GetReadSize(client.in) \in 0 .. ClientIn - 1 /\ ClientIn \in Nat
        BY <3>1, ReadClient, RelayAssumption DEF RelayAssumption
      <3> QED
        BY <3>2
    <2>4. n <= CIn!GetReadSize(client.in)
      BY <1>5, <2>3
    <2>5. IsPacket(CLIENT, k + 1)
      BY <2>2 DEF IsPacket
    <2>6. bytes[1] = <<CLIENT, k + 1, 1>>
      <3>1. Len(p) \in Nat /\ Len(p) >= 2 /\ \A j \in 1 .. Len(p) : p[j] = <<CLIENT, k + 1, j>>
        BY <2>5, PacketIs
      <3>2. 1 \in 1 .. Len(p)
        BY <3>1
      <3>3. p[1] = <<CLIENT, k + 1, 1>>
        BY <3>1, <3>2
      <3> QED
        BY <2>2, <2>4, <3>3
    <2>7. Decodes(bytes, id)
      <3>1. bytes = p /\ id = Id(CLIENT, k + 1)
        BY <2>2, <2>4
      <3> HIDE DEF bytes, id
      <3>2. bytes[1][1] = CLIENT /\ bytes[1][2] = k + 1
        BY <2>6
      <3> QED
        BY <3>1, <3>2 DEF Decodes
    <2> QED
      BY <1>6, <2>2, <2>4, <2>5, <2>7
  <1> HIDE DEF bytes, cl, past, p, id
  <1>9. CASE ~Decodes(bytes, id)
    <2>1. Notes(0, past) /\ Aborts
      BY <1>3, <1>9
    <2>2. Noting(past)
      BY <1>2, <1>4, <2>1, NotesTyped
    <2>3. past # {}
      BY <1>8, <1>9
    <2>4. AbortsExplained' /\ Noting({})
      BY <2>2, <2>3 DEF AbortsExplained, Noting
    <2> QED
      BY <1>2, <2>1, <2>4, AbortKeeps
  <1>10. CASE Decodes(bytes, id)
    <2>1. SendPacketToServer(cl, TRUE, bytes, past) /\ UNCHANGED net
      BY <1>3, <1>10
    <2>2. PacketUp(cl, TRUE, bytes) /\ Noting(past)
      <3>1. Len(bytes) >= HeadLen /\ TRUE \in BOOLEAN
        BY <1>5
      <3> QED
        BY <1>2, <1>4, <1>5, <2>1, <3>1, PacketGoesUp
    <2>3. CASE pc' = "aborted" /\ UNCHANGED <<client, logic, guid, wire, served>>
                /\ (trouble' = {} => Len(GuidBytes(TRUE) \o bytes) > LogicOut)
      <3>1. trouble' # {}
        <4> SUFFICES ASSUME trouble' = {}
                     PROVE  FALSE
          OBVIOUS
        <4>1. past = {}
          BY <2>2 DEF Noting
        <4>2. bytes = Packet(CLIENT, k + 1) /\ IsPacket(CLIENT, k + 1) /\ id = Id(CLIENT, k + 1)
          BY <1>8, <4>1 DEF p
        <4>3. Len(GuidBytes(TRUE) \o bytes) = GuidLen + HeadLen + Body(id)
          <5>1. TRUE \in BOOLEAN
            OBVIOUS
          <5> QED
            BY <4>2, <5>1, FramedLength
        <4>4. id \in Registered
          <5>1. id \in PacketId
            BY <4>2, PacketIs
          <5>2. id # "bad"
            BY <5>1 DEF PacketId, Registered
          <5> QED
            BY <1>1, <5>2 DEF id
        <4>5. /\ GuidLen + HeadLen + Body(id) <= LogicOut
              /\ GuidLen \in Nat /\ HeadLen \in Nat /\ LogicOut \in Nat /\ Body(id) \in Nat
          BY <4>4, RelayAssumption DEF RelayAssumption, PacketId
        <4> DEFINE len == Len(GuidBytes(TRUE) \o bytes)
                   need == GuidLen + HeadLen + Body(id)
        <4>6. len > LogicOut
          BY <2>3
        <4>7. len = need
          BY <4>3
        <4>8. need <= LogicOut
          BY <4>5
        <4>9. need \in Nat /\ LogicOut \in Nat
          BY <4>5
        <4> HIDE DEF len, need
        <4> QED
          BY <4>6, <4>7, <4>8, <4>9
      <3>2. Aborts
        BY <2>1, <2>3 DEF Aborts, Ends
      <3>3. AbortsExplained' /\ Noting({})
        BY <2>2, <3>1 DEF AbortsExplained, Noting
      <3> QED
        BY <1>2, <3>2, <3>3, AbortKeeps
    <2>4. CASE /\ client' = cl /\ guid' = (TRUE /\ cl.open) /\ UNCHANGED <<pc, served>>
               /\ logic' \in Logics /\ logic'.in = logic.in /\ logic'.out.reader = 0
               /\ wire' \in Wires /\ wire'.down = wire.down
               /\ Lossless' => Up' = Up \o (GuidBytes(TRUE) \o bytes)
      <3>1. Typed'
        BY <1>2, <1>6, <2>1, <2>2, <2>4 DEF Typed, Noting
      <3>2. UpInv'
        <4>1. ASSUME Lossless'
              PROVE  /\ k + 1 \in 1 .. Len(ClientPackets)
                     /\ Up' = Up \o (GuidBytes(TRUE) \o Packet(CLIENT, k + 1))
                     /\ ClientAt(client'.in, k + 1, net'.fromClient)
          <5>1. past = {}
            <6>1. past \subseteq {"straddled"} /\ "straddled" \notin past
              BY <2>2, <4>1 DEF Lossless, Noting, ClientPast, OfRead, past
            <6> QED
              BY <6>1
          <5> QED
            BY <1>8, <2>1, <2>4, <4>1, <5>1 DEF p
        <4>2. TRUE \in BOOLEAN
          OBVIOUS
        <4> QED
          BY <1>2, <1>7, <4>1, <4>2, UpMore
      <3>3. DownInv'
        <4>1. DownKept /\ FromLogicKept
          BY <1>2, <1>6, <2>1, <2>4 DEF DownKept, FromLogicKept, Down
        <4> QED
          BY <1>2, <4>1, DownStays DEF RelayInv
      <3>4. LoopLeft' /\ OpenServed' /\ ReleasedForCause' /\ AbortsExplained'
        BY <1>2, <1>6, <2>4 DEF LoopLeft, OpenServed, ReleasedForCause, AbortsExplained
      <3> QED
        BY <3>1, <3>2, <3>3, <3>4 DEF RelayInv
    <2> QED
      BY <2>2, <2>3, <2>4 DEF PacketUp
  <1> QED
    BY <1>9, <1>10

(* What SendDataToServer has sent before it writes. *)
SentFirst(put, last, seen) ==
    /\ last \in LO!Rings /\ last.reader = 0
    /\ put \in Seq(Tokens) /\ seen \in SUBSET Troubles
    /\ "resent" \notin seen => UpMoved(logic.out, put, last)

(* It sends once, or twice if there is no room after the first send. *)
LEMMA SendsFirst ==
    ASSUME Typed, NEW o \in SendsToLogic,
           NEW more \in LOut!Send(o.buf, partials < PartialSends)
    PROVE  /\ SentFirst(o.put, o.buf, OfSend(o))
           /\ SentFirst(o.put \o more.put, more.buf, OfSend(o) \cup OfSend(more))
  <1>1. /\ o.buf \in LO!Rings /\ o.buf.reader = 0 /\ o.put \in Seq(Tokens)
        /\ o.put = o.out => UpMoved(logic.out, o.put, o.buf)
    BY SentToLogic
  <1>2. /\ more.buf \in LO!Rings /\ more.buf.reader = 0 /\ more.put \in Seq(Tokens)
        /\ LOut!Contents(more.buf) \in Seq(Tokens)
    BY <1>1, SendUp
  <1>3. more.put = more.out => UpMoved(o.buf, more.put, more.buf)
    BY <1>1, UpMoves
  <1>4. /\ OfSend(o) \in SUBSET Troubles /\ OfSend(more) \in SUBSET Troubles
        /\ o.put # o.out => "resent" \in OfSend(o)
        /\ more.put # more.out => "resent" \in OfSend(more)
    BY SendNotes
  <1>5. o.put \o more.put \in Seq(Tokens)
    BY <1>1, <1>2, ConcatProperties
  <1>6. SentFirst(o.put, o.buf, OfSend(o))
    BY <1>1, <1>4 DEF SentFirst
  <1>7. ASSUME "resent" \notin OfSend(o) \cup OfSend(more)
        PROVE  UpMoved(logic.out, o.put \o more.put, more.buf)
    <2>1. UpMoved(logic.out, o.put, o.buf) /\ UpMoved(o.buf, more.put, more.buf)
      BY <1>1, <1>3, <1>4, <1>7
    <2> DEFINE b == logic.out
               c == o.buf
               d == more.buf
               p == o.put
               r == more.put
    <2>2. /\ c \in LO!Rings /\ p \in Seq(Tokens) /\ r \in Seq(Tokens)
          /\ LOut!Contents(d) \in Seq(Tokens) /\ UpMoved(b, p, c) /\ UpMoved(c, r, d)
      BY <1>1, <1>2, <2>1
    <2> HIDE DEF b, c, d, p, r
    <2>3. UpMoved(b, p \o r, d)
      BY <2>2, UpMovesTwice
    <2> QED
      BY <2>3 DEF b, c, d, p, r
  <1>8. SentFirst(o.put \o more.put, more.buf, OfSend(o) \cup OfSend(more))
    <2> DEFINE seen == OfSend(o) \cup OfSend(more)
    <2>1. seen \in SUBSET Troubles
      BY <1>4
    <2> QED
      BY <1>2, <1>5, <1>7, <2>1 DEF SentFirst
  <1> QED
    BY <1>6, <1>8

(* SendDataToServer after its sends: last is the ring, put went to the wire. *)
Passing(h, last, put, seen) ==
    LET w == Framed(last, CIn!InPlace(client.in, 0, HeadLen + h.len))
    IN  IF LOut!GetWriteSize(last) < Need(h)
        THEN /\ trouble' = trouble \cup (ClientPast(HeadLen) \cup seen)
             /\ ToLogic(put, last)
             /\ UNCHANGED <<client, guid, net, pc, served>>
        ELSE /\ trouble' = trouble \cup (ClientPast(HeadLen + h.len) \cup seen \cup OfWrite(w))
             /\ IF ~w.ok THEN Aborts
                ELSE /\ ToLogic(put, w.buf)
                     /\ client' = [client EXCEPT !.in = CIn!ReadPtr(@, HeadLen + h.len)]
                     /\ UNCHANGED <<guid, net, pc, served>>

(* If there is no room, the packet stays. *)
LEMMA PassingWaits ==
    ASSUME RelayInv, NEW h, ClientHas(h), NEW last, NEW put, NEW seen,
           SentFirst(put, last, seen), Passing(h, last, put, seen),
           LOut!GetWriteSize(last) < Need(h)
    PROVE  RelayInv'
  <1>1. Typed /\ Running /\ pc = "client"
    BY DEF RelayInv, ClientHas, At, Running
  <1>2. /\ trouble' = trouble \cup (ClientPast(HeadLen) \cup seen)
        /\ ToLogic(put, last)
        /\ UNCHANGED <<client, guid, net, pc, served>>
    BY DEF Passing
  <1>3. /\ last \in LO!Rings /\ last.reader = 0 /\ put \in Seq(Tokens) /\ seen \in SUBSET Troubles
        /\ "resent" \notin seen => UpMoved(logic.out, put, last)
    BY DEF SentFirst
  <1>4. LogicKept /\ Up' = (wire.up \o put) \o LOut!Contents(last)
    BY <1>1, <1>2, <1>3, UpKeepsTypes
  <1>5. Noting({}) /\ seen \subseteq trouble'
    BY <1>1, <1>2, <1>3 DEF Noting, Typed, ClientPast, OfRead, Troubles
  <1>6. Typed'
    BY <1>1, <1>2, <1>4, <1>5 DEF Typed, LogicKept, Noting
  <1>7. UpKept
    <2> SUFFICES ASSUME Lossless'
                 PROVE  Up' = Up
      BY DEF UpKept
    <2>1. UpMoved(logic.out, put, last)
      BY <1>3, <1>5 DEF Lossless
    <2>2. wire.up \in Seq(Tokens) /\ <<>> \in Seq(Tokens)
      BY <1>1 DEF Typed, Wires
    <2>3. (wire.up \o put) \o LOut!Contents(last) = wire.up \o LOut!Contents(logic.out)
      BY <2>1, <2>2, Zenon DEF UpMoved
    <2> QED
      BY <1>4, <2>3 DEF Up
  <1>8. FromClientKept /\ DownKept /\ FromLogicKept
    BY <1>2, <1>4 DEF FromClientKept, DownKept, FromLogicKept, Down, LogicKept
  <1>9. UpInv' /\ DownInv'
    BY <1>1, <1>7, <1>8, UpStays, DownStays DEF RelayInv
  <1>10. LoopLeft' /\ OpenServed' /\ ReleasedForCause' /\ AbortsExplained'
    BY <1>1, <1>2, <1>5
       DEF RelayInv, LoopLeft, OpenServed, ReleasedForCause, AbortsExplained, Noting
  <1> QED
    BY <1>6, <1>9, <1>10 DEF RelayInv

(* If there is room, the packet goes on behind its GUID. *)
LEMMA PassingWrites ==
    ASSUME RelayInv, NEW h, ClientHas(h), h \in ClientHeads, NEW last, NEW put, NEW seen,
           SentFirst(put, last, seen), Passing(h, last, put, seen),
           ~(LOut!GetWriteSize(last) < Need(h))
    PROVE  RelayInv'
  <1> DEFINE n == HeadLen + h.len
             data == CIn!InPlace(client.in, 0, n)
             w == Framed(last, data)
             past == ClientPast(n)
             g == GuidBytes(guid)
             q == g \o data
  <1>1. Typed /\ Running /\ pc = "client" /\ At("client") /\ ~ClientDone /\ client.open
    BY DEF RelayInv, ClientHas, At, Running, OpenServed
  <1>2. /\ trouble' = trouble \cup (past \cup seen \cup OfWrite(w))
        /\ IF ~w.ok THEN Aborts
           ELSE /\ ToLogic(put, w.buf)
                /\ client' = [client EXCEPT !.in = CIn!ReadPtr(@, n)]
                /\ UNCHANGED <<guid, net, pc, served>>
    BY DEF Passing
  <1>3. /\ last \in LO!Rings /\ last.reader = 0 /\ put \in Seq(Tokens) /\ seen \in SUBSET Troubles
        /\ "resent" \notin seen => UpMoved(logic.out, put, last)
    BY DEF SentFirst
  <1>4. /\ h.len \in Nat /\ HeadLen \in Nat /\ n \in 0 .. CIn!GetReadSize(client.in)
        /\ CIn!ReadPtr(client.in, n) \in CI!Rings
        /\ data \in Seq(Tokens) /\ Len(data) = n
    BY <1>1, ClientTaken
  <1>5. g \in Seq(Tokens) /\ Len(g) = GuidLen /\ GuidLen \in Nat /\ guid \in BOOLEAN
    <2>1. guid \in BOOLEAN
      BY <1>1 DEF Typed
    <2> QED
      BY <2>1, GuidIs
  <1>6. WrittenUp(last, w, q)
    <2>1. w = LOut!Put(LOut!Put(LOut!Begin(last), g), data)
      BY DEF Framed
    <2> HIDE DEF w, g, data
    <2> QED
      BY <1>3, <1>4, <1>5, <2>1, WriteUp
  <1>7. q \in Seq(Tokens) /\ Len(q) = GuidLen + n
    <2> HIDE DEF g, data, n
    <2> QED
      BY <1>4, <1>5, ConcatProperties
  <1>8. PICK k \in 0 .. Len(ClientPackets) :
              /\ Upward(k)
              /\ ClientPast(HeadLen) = {} => ClientHead(client.in, k, net.fromClient, h)
    BY <1>1, ClientNext
  <1>9. ASSUME past = {}
        PROVE  /\ k + 1 \in 1 .. Len(ClientPackets) /\ data = Packet(CLIENT, k + 1)
               /\ ClientAt(CIn!ReadPtr(client.in, n), k + 1, net.fromClient)
    <2>1. client.in \in CI!Rings
      BY <1>1 DEF Typed, Clients
    <2>2. /\ client.in.reader \in Nat /\ ClientIn \in Nat
          /\ CIn!GetReadSize(client.in) \in Nat
      <3>1. ClientIn \in Nat
        BY RelayAssumption DEF RelayAssumption
      <3>2. client.in.reader \in Nat
        BY <2>1, <3>1 DEF CI!Rings, CI!Places
      <3>3. CIn!GetReadSize(client.in) \in 0 .. ClientIn - 1
        BY <2>1, ReadClient
      <3> QED
        BY <3>1, <3>2, <3>3
    <2>3. client.in.reader + n <= ClientIn /\ n \in Nat
      <3>1. ~(client.in.reader + n > ClientIn)
        BY <1>9 DEF ClientPast, OfRead
      <3>2. n \in Nat
        BY <1>4
      <3> QED
        BY <2>2, <3>1, <3>2
    <2>4. ClientPast(HeadLen) = {}
      <3>1. ~(client.in.reader + HeadLen > ClientIn)
        BY <1>4, <2>2, <2>3, SMTT(30)
      <3> QED
        BY <3>1 DEF ClientPast, OfRead
    <2>5. ClientHead(client.in, k, net.fromClient, h)
      BY <1>8, <2>4
    <2>6. /\ k + 1 \in 1 .. Len(ClientPackets)
          /\ n <= CIn!GetReadSize(client.in) =>
                /\ client.in.reader + n <= ClientIn => data = Packet(CLIENT, k + 1)
                /\ ClientAt(CIn!ReadPtr(client.in, n), k + 1, net.fromClient)
      BY <2>5 DEF ClientHead
    <2>7. n <= CIn!GetReadSize(client.in)
      BY <1>4, <2>2
    <2> QED
      BY <2>3, <2>6, <2>7
  <1>10. Need(h) = GuidLen + n
    BY <1>4, <1>5 DEF Need
  <1> HIDE DEF w, data, g, q, past, n
  <1>11. /\ w.buf \in LO!Rings /\ w.buf.reader = 0
         /\ w.overrun = FALSE
         /\ w.ok /\ ~w.wiped => LOut!Contents(w.buf) = LOut!Contents(last) \o q
         /\ Len(q) <= LOut!GetWriteSize(last) => w.ok \/ w.wiped
    BY <1>6 DEF WrittenUp
  <1>12. Noting({}) /\ seen \subseteq trouble' /\ past \subseteq trouble'
         /\ past \subseteq {"straddled"}
    BY <1>1, <1>2, <1>3, <1>11
       DEF Noting, Typed, ClientPast, OfRead, OfWrite, Troubles, past
  <1>13. CASE ~w.ok
    <2>1. Aborts
      BY <1>2, <1>13
    <2>2. trouble' # {}
      <3>1. Len(q) <= LOut!GetWriteSize(last)
        <4>1. LOut!GetWriteSize(last) \in Nat
          <5>1. LO!GetWriteSize(last) \in 1 .. LogicOut
            BY <1>3, RingsSized, LO!RoomLeft
          <5>2. LogicOut \in Nat
            BY RelayAssumption DEF RelayAssumption
          <5> QED
            BY <5>1, <5>2, SameLogicOut
        <4>2. Len(q) = Need(h) /\ Need(h) \in Nat
          <5>1. n \in Nat
            BY <1>4
          <5> QED
            BY <1>5, <1>7, <1>10, <5>1
        <4> QED
          BY <4>1, <4>2
      <3>2. w.wiped
        BY <1>11, <1>13, <3>1
      <3> QED
        BY <1>2, <3>2 DEF OfWrite
    <2>3. AbortsExplained'
      BY <2>2 DEF AbortsExplained
    <2> QED
      BY <1>1, <1>12, <2>1, <2>3, AbortKeeps
  <1>14. CASE w.ok
    <2>1. /\ ToLogic(put, w.buf)
          /\ client' = [client EXCEPT !.in = CIn!ReadPtr(client.in, n)]
          /\ UNCHANGED <<guid, net, pc, served>>
      BY <1>2, <1>14
    <2>2. LogicKept /\ Up' = (wire.up \o put) \o LOut!Contents(w.buf)
      BY <1>1, <1>3, <1>11, <2>1, UpKeepsTypes
    <2>3. client' \in Clients /\ client'.in = CIn!ReadPtr(client.in, n)
          /\ client'.out = client.out /\ client'.open = client.open
      BY <1>1, <1>4, <2>1 DEF Typed, Clients
    <2>4. Typed'
      BY <1>1, <1>12, <2>1, <2>2, <2>3 DEF Typed, LogicKept, Noting
    <2>5. UpInv'
      <3>1. ASSUME Lossless'
            PROVE  /\ k + 1 \in 1 .. Len(ClientPackets)
                   /\ Up' = Up \o (g \o Packet(CLIENT, k + 1))
                   /\ ClientAt(client'.in, k + 1, net'.fromClient)
        <4>1. past = {}
          BY <1>12, <3>1 DEF Lossless
        <4>2. ~w.wiped /\ "resent" \notin seen
          BY <1>2, <1>12, <3>1 DEF Lossless, OfWrite
        <4>3. LOut!Contents(w.buf) = LOut!Contents(last) \o q
          BY <1>11, <1>14, <4>2
        <4>4. UpMoved(logic.out, put, last)
          BY <1>3, <4>2
        <4>5. wire.up \in Seq(Tokens)
          BY <1>1 DEF Typed, Wires
        <4>6. (wire.up \o put) \o (LOut!Contents(last) \o q) = (wire.up \o LOut!Contents(logic.out)) \o q
          BY <1>7, <4>4, <4>5, Zenon DEF UpMoved
        <4>7. Up' = Up \o q
          BY <2>2, <4>3, <4>6 DEF Up
        <4>8. q = g \o Packet(CLIENT, k + 1)
          BY <1>9, <4>1 DEF q
        <4> QED
          BY <1>9, <2>1, <2>3, <4>1, <4>7, <4>8
      <3>2. Lossless' => /\ k + 1 \in 1 .. Len(ClientPackets)
                         /\ Up' = Up \o (GuidBytes(guid) \o Packet(CLIENT, k + 1))
                         /\ ClientAt(client'.in, k + 1, net'.fromClient)
        BY <3>1 DEF g
      <3> QED
        BY <1>1, <1>5, <1>8, <3>2, UpMore
    <2>6. DownInv'
      <3>1. DownKept /\ FromLogicKept
        BY <2>1, <2>2, <2>3 DEF DownKept, FromLogicKept, Down, LogicKept
      <3> QED
        BY <1>1, <3>1, DownStays DEF RelayInv
    <2>7. LoopLeft' /\ OpenServed' /\ ReleasedForCause' /\ AbortsExplained'
      BY <1>1, <2>1, <2>3 DEF LoopLeft, OpenServed, ReleasedForCause, AbortsExplained
    <2> QED
      BY <2>4, <2>5, <2>6, <2>7 DEF RelayInv
  <1> QED
    BY <1>13, <1>14

(* Any other packet of the client is passed on as it stands in the ring. *)
LEMMA ClientRawKeeps ==
    ASSUME RelayInv, ClientRaw
    PROVE  RelayInv'
  <1>1. PICK h \in ClientHeads :
        /\ ClientHas(h) /\ h.id \in PacketId \ Registered
        /\ \E o \in SendsToLogic :
            \E more \in LOut!Send(o.buf, partials < PartialSends) : ClientPassesOn(h, o, more)
    BY DEF ClientRaw
  <1>2. PICK o \in SendsToLogic :
            \E more \in LOut!Send(o.buf, partials < PartialSends) : ClientPassesOn(h, o, more)
    BY <1>1
  <1>3. PICK more \in LOut!Send(o.buf, partials < PartialSends) : ClientPassesOn(h, o, more)
    BY <1>2
  <1>4. /\ SentFirst(o.put, o.buf, OfSend(o))
        /\ SentFirst(o.put \o more.put, more.buf, OfSend(o) \cup OfSend(more))
    BY <1>2, <1>3, SendsFirst DEF RelayInv
  <1>5. \/ Passing(h, o.buf, o.put, OfSend(o))
        \/ Passing(h, more.buf, o.put \o more.put, OfSend(o) \cup OfSend(more))
    <2>1. CASE LOut!GetWriteSize(o.buf) < Need(h)
      BY <1>3, <2>1, Zenon DEF ClientPassesOn, Passing, ToLogic, Notes
    <2>2. CASE ~(LOut!GetWriteSize(o.buf) < Need(h))
      <3>1. Passing(h, o.buf, o.put, OfSend(o))
        BY <1>3, <2>2, Zenon DEF ClientPassesOn, Passing, ToLogic, Notes
      <3> QED
        BY <3>1
    <2> QED
      BY <2>1, <2>2
  <1>6. CASE Passing(h, o.buf, o.put, OfSend(o))
    BY <1>1, <1>4, <1>6, PassingWaits, PassingWrites
  <1>7. CASE Passing(h, more.buf, o.put \o more.put, OfSend(o) \cup OfSend(more))
    BY <1>1, <1>4, <1>7, PassingWaits, PassingWrites
  <1> QED
    BY <1>5, <1>6, <1>7

-----------------------------------------------------------------------------
(* The packet of the logic server that is taken, if its head was read before the  *)
(* end of the ring.                                                               *)
LogicExact(h, m) ==
    /\ m + 1 \in 1 .. Len(LogicPackets) /\ h.id = Id(LOGICSERVER, m + 1)
    /\ SubSeq(LIn!Contents(logic.in), GuidLen + 1, Need(h)) = Packet(LOGICSERVER, m + 1)
    /\ LogicPast(Need(h)) = {} =>
          LIn!InPlace(logic.in, GuidLen, HeadLen + h.len) = Packet(LOGICSERVER, m + 1)
    /\ LogicAt(LIn!ReadPtr(logic.in, Need(h)), m + 1, net.fromLogic)

(* It is the next one. *)
LEMMA LogicTakes ==
    ASSUME RelayInv, NEW h, LogicHas(h), h \in LogicHeads
    PROVE  \E m \in 0 .. Len(LogicPackets) : \E S \in SUBSET (1 .. m) :
              Downward(m, S) /\ (LogicPast(GuidLen + HeadLen) = {} => LogicExact(h, m))
  <1>1. Typed /\ At("logic") /\ ~LogicDone
    BY DEF RelayInv, LogicHas
  <1>2. PICK m \in 0 .. Len(LogicPackets) : \E S \in SUBSET (1 .. m) :
              /\ Downward(m, S)
              /\ LogicPast(GuidLen + HeadLen) = {} =>
                    \A x \in LogicHeads : LogicHead(logic.in, m, net.fromLogic, x)
    BY <1>1, LogicNext
  <1>3. PICK S \in SUBSET (1 .. m) :
              /\ Downward(m, S)
              /\ LogicPast(GuidLen + HeadLen) = {} =>
                    \A x \in LogicHeads : LogicHead(logic.in, m, net.fromLogic, x)
    BY <1>2
  <1>4. ASSUME LogicPast(GuidLen + HeadLen) = {}
        PROVE  LogicExact(h, m)
    <2>1. LogicHead(logic.in, m, net.fromLogic, h)
      BY <1>3, <1>4
    <2>2. /\ Need(h) \in 0 .. LIn!GetReadSize(logic.in)
          /\ LIn!GetReadSize(logic.in) \in Nat
      <3>1. logic.in \in LI!Rings
        BY <1>1 DEF Typed, Logics
      <3>2. LIn!GetReadSize(logic.in) \in 0 .. LogicIn - 1 /\ LogicIn \in Nat
        BY <3>1, ReadLogic, RelayAssumption DEF RelayAssumption
      <3> QED
        BY <1>1, <3>2, LogicTaken
    <2>3. Need(h) <= LIn!GetReadSize(logic.in)
      BY <2>2
    <2>4. LogicPast(Need(h)) = {} => logic.in.reader + Need(h) <= LogicIn
      <3>1. logic.in.reader \in Nat /\ LogicIn \in Nat
        <4>1. LogicIn \in Nat
          BY RelayAssumption DEF RelayAssumption
        <4> QED
          BY <1>1, <4>1 DEF Typed, Logics, LI!Rings, LI!Places
      <3>2. LogicPast(Need(h)) = {} => ~(logic.in.reader + Need(h) > LogicIn)
        BY DEF LogicPast, OfRead
      <3>3. Need(h) \in Nat
        BY <2>2
      <3> QED
        BY <3>1, <3>2, <3>3
    <2> QED
      BY <2>1, <2>3, <2>4 DEF LogicHead, LogicExact
  <1> QED
    BY <1>3, <1>4

(* The client of a packet of the logic server has gone: it is skipped. *)
LEMMA LogicSkipsKeeps ==
    ASSUME RelayInv, LogicSkips
    PROVE  RelayInv'
  <1>1. PICK h \in LogicHeads :
        /\ LogicHas(h)
        /\ logic' = [logic EXCEPT !.in = LIn!ReadPtr(@, Need(h))]
    BY DEF LogicSkips
  <1>2. /\ Notes(0, LogicPast(GuidLen + HeadLen))
        /\ UNCHANGED <<client, guid, net, wire, pc, served>>
    BY DEF LogicSkips
  <1>3. Typed /\ Running /\ pc = "logic"
    BY <1>1 DEF RelayInv, LogicHas, At, Running
  <1> DEFINE past == LogicPast(GuidLen + HeadLen)
             b == LIn!ReadPtr(logic.in, Need(h))
  <1>4. past \in SUBSET Troubles /\ past \subseteq {"straddled"}
    BY DEF LogicPast, OfRead, Troubles
  <1>5. b \in LI!Rings
    BY <1>1, <1>3, LogicTaken
  <1>6. PICK m \in 0 .. Len(LogicPackets) : \E S \in SUBSET (1 .. m) :
              Downward(m, S) /\ (past = {} => LogicExact(h, m))
    BY <1>1, LogicTakes
  <1>7. PICK S \in SUBSET (1 .. m) : Downward(m, S) /\ (past = {} => LogicExact(h, m))
    BY <1>6
  <1>8. logic' = [logic EXCEPT !.in = b]
    BY <1>1
  <1>9. past = {} => /\ m + 1 \in 1 .. Len(LogicPackets)
                     /\ LogicAt(b, m + 1, net.fromLogic)
    BY <1>7 DEF LogicExact
  <1> HIDE DEF past, b
  <1>10. trouble' = trouble \cup past /\ Noting(past)
    BY <1>2, <1>3, <1>4, NotesTyped DEF past
  <1>11. logic' \in Logics /\ logic'.in = b /\ logic'.out = logic.out
    BY <1>3, <1>5, <1>8 DEF Typed, Logics
  <1>12. Typed'
    BY <1>2, <1>3, <1>10, <1>11 DEF Typed, Noting
  <1>13. UpInv'
    <2>1. UpKept /\ FromClientKept
      BY <1>2, <1>11 DEF UpKept, FromClientKept, Up
    <2> QED
      BY <1>3, <2>1, UpStays DEF RelayInv
  <1>14. DownInv'
    <2>1. DownKept
      BY <1>2 DEF DownKept, Down
    <2>2. Lossless' => /\ m + 1 \in 1 .. Len(LogicPackets)
                       /\ LogicAt(logic'.in, m + 1, net'.fromLogic)
      <3> SUFFICES ASSUME Lossless'
                   PROVE  /\ m + 1 \in 1 .. Len(LogicPackets)
                          /\ LogicAt(logic'.in, m + 1, net'.fromLogic)
        OBVIOUS
      <3>1. past = {}
        BY <1>4, <1>10 DEF Lossless
      <3> QED
        BY <1>2, <1>9, <1>11, <3>1
    <2> QED
      BY <1>7, <2>1, <2>2, DownSkips
  <1>15. LoopLeft' /\ OpenServed' /\ ReleasedForCause' /\ AbortsExplained'
    BY <1>2, <1>3, <1>10
       DEF RelayInv, LoopLeft, OpenServed, ReleasedForCause, AbortsExplained, Noting
  <1> QED
    BY <1>12, <1>13, <1>14, <1>15 DEF RelayInv

(* A registered packet of the logic server is read and sent to the client. *)
LEMMA LogicRegisteredKeeps ==
    ASSUME RelayInv, LogicRegistered
    PROVE  RelayInv'
  <1>1. PICK h \in LogicHeads :
        /\ LogicHas(h) /\ h.id \in Registered \cup {"bad"}
        /\ LET bytes == SubSeq(LIn!Contents(logic.in), GuidLen + 1, Need(h))
               past == LogicPast(GuidLen + HeadLen)
           IN  IF Decodes(bytes, h.id)
               THEN SendPacketToClient(LIn!ReadPtr(logic.in, Need(h)), bytes, past)
               ELSE Notes(0, past) /\ Aborts
    BY DEF LogicRegistered
  <1>2. Typed /\ Running /\ pc = "logic"
    BY <1>1 DEF RelayInv, LogicHas, At, Running
  <1> DEFINE past == LogicPast(GuidLen + HeadLen)
             b == LIn!ReadPtr(logic.in, Need(h))
             bytes == SubSeq(LIn!Contents(logic.in), GuidLen + 1, Need(h))
             id == h.id
  <1>3. IF Decodes(bytes, id) THEN SendPacketToClient(b, bytes, past)
        ELSE Notes(0, past) /\ Aborts
    BY <1>1
  <1>4. past \in SUBSET Troubles /\ past \subseteq {"straddled"}
    BY DEF LogicPast, OfRead, Troubles
  <1>5. b \in LI!Rings /\ bytes \in Seq(Tokens) /\ Len(bytes) >= HeadLen
    <2>1. /\ b \in LI!Rings /\ bytes \in Seq(Tokens) /\ Len(bytes) = HeadLen + h.len
          /\ h.len \in Nat /\ HeadLen \in Nat
      BY <1>1, <1>2, LogicTaken
    <2> QED
      BY <2>1
  <1>6. PICK m \in 0 .. Len(LogicPackets) : \E S \in SUBSET (1 .. m) :
              Downward(m, S) /\ (past = {} => LogicExact(h, m))
    BY <1>1, LogicTakes
  <1>7. PICK S \in SUBSET (1 .. m) : Downward(m, S) /\ (past = {} => LogicExact(h, m))
    BY <1>6
  <1> DEFINE p == Packet(LOGICSERVER, m + 1)
  <1>8. past = {} => /\ m + 1 \in 1 .. Len(LogicPackets) /\ id = Id(LOGICSERVER, m + 1)
                     /\ bytes = p
                     /\ LogicAt(b, m + 1, net.fromLogic)
    BY <1>7 DEF LogicExact
  <1>9. ASSUME past = {}
        PROVE  IsPacket(LOGICSERVER, m + 1) /\ Decodes(bytes, id)
    <2>1. m + 1 \in 1 .. Len(LogicPackets) /\ id = Id(LOGICSERVER, m + 1) /\ bytes = p
      BY <1>8, <1>9
    <2>2. IsPacket(LOGICSERVER, m + 1)
      BY <2>1 DEF IsPacket
    <2>3. p[1] = <<LOGICSERVER, m + 1, 1>>
      <3>1. /\ Len(p) \in Nat /\ Len(p) >= 2
            /\ \A j \in 1 .. Len(p) : p[j] = <<LOGICSERVER, m + 1, j>>
        BY <2>2, PacketIs
      <3>2. 1 \in 1 .. Len(p)
        BY <3>1
      <3> QED
        BY <3>1, <3>2
    <2>4. bytes[1] = <<LOGICSERVER, m + 1, 1>>
      BY <2>1, <2>3
    <2>5. Decodes(bytes, id)
      <3> HIDE DEF bytes, id
      <3>1. bytes[1][1] = LOGICSERVER /\ bytes[1][2] = m + 1
        BY <2>4
      <3> QED
        BY <2>1, <3>1 DEF Decodes
    <2> QED
      BY <2>2, <2>5
  <1> HIDE DEF past, b, bytes, id, p
  <1>10. CASE ~Decodes(bytes, id)
    <2>1. Notes(0, past) /\ Aborts
      BY <1>3, <1>10
    <2>2. Noting(past)
      BY <1>2, <1>4, <2>1, NotesTyped
    <2>3. past # {}
      BY <1>9, <1>10
    <2>4. AbortsExplained' /\ Noting({})
      BY <2>2, <2>3 DEF AbortsExplained, Noting
    <2> QED
      BY <1>2, <2>1, <2>4, AbortKeeps
  <1>11. CASE Decodes(bytes, id)
    <2>1. PacketDown(b, bytes) /\ Noting(past)
      <3>1. SendPacketToClient(b, bytes, past)
        BY <1>3, <1>11
      <3> QED
        BY <1>2, <1>4, <1>5, <3>1, PacketGoesDown
    <2>2. CASE pc' = "aborted" /\ UNCHANGED <<client, logic, guid, net, wire, served>>
                /\ (trouble' = {} => Len(bytes) > ClientOut)
      <3>1. trouble' # {}
        <4> SUFFICES ASSUME trouble' = {}
                     PROVE  FALSE
          OBVIOUS
        <4>1. past = {}
          BY <2>1 DEF Noting
        <4>2. bytes = p /\ IsPacket(LOGICSERVER, m + 1) /\ id = Id(LOGICSERVER, m + 1)
          BY <1>8, <1>9, <4>1
        <4>3. Len(bytes) = HeadLen + Body(id)
          BY <4>2, PacketIs DEF p
        <4>4. id \in Registered
          <5>1. id \in PacketId
            BY <4>2, PacketIs
          <5>2. id # "bad"
            BY <5>1 DEF PacketId, Registered
          <5> QED
            BY <1>1, <5>2 DEF id
        <4>5. HeadLen + Body(id) <= ClientOut
          BY <4>4, RelayAssumption DEF RelayAssumption
        <4>6. HeadLen + Body(id) \in Nat /\ ClientOut \in Nat
          <5>1. HeadLen \in Nat /\ ClientOut \in Nat /\ Body(id) \in Nat
            BY <4>4, RelayAssumption DEF RelayAssumption, PacketId
          <5> QED
            BY <5>1
        <4>7. Len(bytes) > ClientOut
          BY <2>2
        <4> QED
          BY <4>3, <4>5, <4>6, <4>7
      <3>2. Aborts
        BY <2>2 DEF Aborts, Ends
      <3>3. AbortsExplained' /\ Noting({})
        BY <2>1, <3>1 DEF AbortsExplained, Noting
      <3> QED
        BY <1>2, <3>2, <3>3, AbortKeeps
    <2>3. CASE /\ logic' = [logic EXCEPT !.in = b] /\ UNCHANGED <<guid, net, pc, served>>
               /\ client' \in Clients /\ client'.in = client.in /\ client'.open = client.open
               /\ client'.out.reader = 0
               /\ wire' \in Wires /\ wire'.up = wire.up
               /\ Lossless' => Down' = Down \o bytes
      <3>1. logic' \in Logics /\ logic'.in = b /\ logic'.out = logic.out
        BY <1>2, <1>5, <2>3 DEF Typed, Logics
      <3>2. Typed'
        BY <1>2, <2>1, <2>3, <3>1 DEF Typed, Noting
      <3>3. UpInv'
        <4>1. UpKept /\ FromClientKept
          BY <2>3, <3>1 DEF UpKept, FromClientKept, Up
        <4> QED
          BY <1>2, <4>1, UpStays DEF RelayInv
      <3>4. DownInv'
        <4>1. ASSUME Lossless'
              PROVE  /\ m + 1 \in 1 .. Len(LogicPackets)
                     /\ LogicAt(logic'.in, m + 1, net'.fromLogic)
                     /\ Down' = Down \o Packet(LOGICSERVER, m + 1)
          <5>1. past = {}
            BY <1>4, <2>1, <4>1 DEF Lossless, Noting
          <5> QED
            BY <1>8, <2>3, <3>1, <4>1, <5>1 DEF p
        <4> QED
          BY <1>7, <2>3, <4>1, DownMore
      <3>5. LoopLeft' /\ OpenServed' /\ ReleasedForCause' /\ AbortsExplained'
        BY <1>2, <2>1, <2>3
           DEF RelayInv, LoopLeft, OpenServed, ReleasedForCause, AbortsExplained, Noting
      <3> QED
        BY <3>2, <3>3, <3>4, <3>5 DEF RelayInv
    <2> QED
      BY <2>1, <2>2, <2>3 DEF PacketDown
  <1> QED
    BY <1>10, <1>11

(* SendDataToClient: too much room fails its assertion, too little leaves the      *)
(* packet, and just enough sends it down (and fills the ring).                     *)
LEMMA LogicRawKeeps ==
    ASSUME RelayInv, LogicRaw
    PROVE  RelayInv'
  <1>1. PICK h \in LogicHeads : \E o \in SendsToClient :
        LET room == COut!GetWriteSize(o.buf)
            size == HeadLen + h.len
            w == COut!Put(COut!Begin(o.buf), LIn!InPlace(logic.in, GuidLen, size))
            seen == LogicPast(Need(h)) \cup OfSend(o)
        IN  /\ LogicHas(h) /\ h.id \in PacketId \ Registered
            /\ IF room > size THEN Notes(Partial(o), seen) /\ Aborts
               ELSE /\ wire' = [wire EXCEPT !.down = @ \o o.put]
                    /\ IF room < size
                       THEN /\ Notes(Partial(o), seen)
                            /\ client' = [client EXCEPT !.out = o.buf]
                            /\ UNCHANGED logic
                       ELSE /\ Notes(Partial(o), seen \cup OfWrite(w))
                            /\ client' = [client EXCEPT !.out = w.buf]
                            /\ logic' = [logic EXCEPT !.in = LIn!ReadPtr(@, Need(h))]
                    /\ UNCHANGED <<guid, net, pc, served>>
    BY DEF LogicRaw
  <1>2. PICK o \in SendsToClient :
        LET room == COut!GetWriteSize(o.buf)
            size == HeadLen + h.len
            w == COut!Put(COut!Begin(o.buf), LIn!InPlace(logic.in, GuidLen, size))
            seen == LogicPast(Need(h)) \cup OfSend(o)
        IN  /\ LogicHas(h) /\ h.id \in PacketId \ Registered
            /\ IF room > size THEN Notes(Partial(o), seen) /\ Aborts
               ELSE /\ wire' = [wire EXCEPT !.down = @ \o o.put]
                    /\ IF room < size
                       THEN /\ Notes(Partial(o), seen)
                            /\ client' = [client EXCEPT !.out = o.buf]
                            /\ UNCHANGED logic
                       ELSE /\ Notes(Partial(o), seen \cup OfWrite(w))
                            /\ client' = [client EXCEPT !.out = w.buf]
                            /\ logic' = [logic EXCEPT !.in = LIn!ReadPtr(@, Need(h))]
                    /\ UNCHANGED <<guid, net, pc, served>>
    BY <1>1
  <1> DEFINE room == COut!GetWriteSize(o.buf)
             size == HeadLen + h.len
             data == LIn!InPlace(logic.in, GuidLen, size)
             w == COut!Put(COut!Begin(o.buf), data)
             past == LogicPast(Need(h))
             seen == past \cup OfSend(o)
             b == LIn!ReadPtr(logic.in, Need(h))
             p(m) == Packet(LOGICSERVER, m + 1)
  <1>3. /\ LogicHas(h) /\ h.id \in PacketId \ Registered
        /\ IF room > size THEN Notes(Partial(o), seen) /\ Aborts
           ELSE /\ wire' = [wire EXCEPT !.down = @ \o o.put]
                /\ IF room < size
                   THEN /\ Notes(Partial(o), seen)
                        /\ client' = [client EXCEPT !.out = o.buf]
                        /\ UNCHANGED logic
                   ELSE /\ Notes(Partial(o), seen \cup OfWrite(w))
                        /\ client' = [client EXCEPT !.out = w.buf]
                        /\ logic' = [logic EXCEPT !.in = b]
                /\ UNCHANGED <<guid, net, pc, served>>
    BY <1>2
  <1>4. Typed /\ Running /\ pc = "logic" /\ ~LogicDone
    BY <1>3 DEF RelayInv, LogicHas, At, Running
  <1>5. /\ b \in LI!Rings /\ data \in Seq(Tokens) /\ Len(data) = size /\ size \in Nat
        /\ GuidLen \in Nat /\ HeadLen \in Nat /\ Need(h) = GuidLen + size /\ size >= HeadLen
    <2>1. /\ h.len \in Nat /\ HeadLen \in Nat /\ GuidLen \in Nat /\ Need(h) = GuidLen + size
          /\ b \in LI!Rings /\ data \in Seq(Tokens) /\ Len(data) = size
      BY <1>3, <1>4, LogicTaken
    <2> QED
      BY <2>1
  <1>6. /\ o.buf \in CO!Rings /\ o.buf.reader = 0 /\ o.put \in Seq(Tokens)
        /\ o.put = o.out => DownMoved(client.out, o.put, o.buf)
    BY <1>2, <1>4, SentToClient
  <1>7. WrittenDown(o.buf, w, data)
    <2> HIDE DEF data
    <2> QED
      BY <1>5, <1>6, WriteDown
  <1>8. past \in SUBSET Troubles /\ past \subseteq {"straddled"} /\ OfSend(o) \in SUBSET Troubles
        /\ (o.put # o.out => "resent" \in OfSend(o))
    BY SendNotes DEF LogicPast, OfRead, Troubles
  <1>9. past = {} => LogicPast(GuidLen + HeadLen) = {}
    <2> SUFFICES ASSUME past = {}
                 PROVE  LogicPast(GuidLen + HeadLen) = {}
      OBVIOUS
    <2>1. logic.in.reader \in Nat /\ LogicIn \in Nat
      <3>1. LogicIn \in Nat
        BY RelayAssumption DEF RelayAssumption
      <3> QED
        BY <1>4, <3>1 DEF Typed, Logics, LI!Rings, LI!Places
    <2>2. ~(logic.in.reader + Need(h) > LogicIn)
      BY DEF LogicPast, OfRead
    <2>3. ~(logic.in.reader + (GuidLen + HeadLen) > LogicIn)
      BY <1>5, <2>1, <2>2
    <2> QED
      BY <2>3 DEF LogicPast, OfRead
  <1>10. PICK m \in 0 .. Len(LogicPackets) : \E S \in SUBSET (1 .. m) :
              /\ Downward(m, S)
              /\ past = {} => /\ m + 1 \in 1 .. Len(LogicPackets) /\ data = p(m)
                              /\ LogicAt(b, m + 1, net.fromLogic)
    <2>1. PICK m \in 0 .. Len(LogicPackets) : \E S \in SUBSET (1 .. m) :
              Downward(m, S) /\ (LogicPast(GuidLen + HeadLen) = {} => LogicExact(h, m))
      BY <1>1, <1>3, LogicTakes
    <2>2. PICK S \in SUBSET (1 .. m) :
              Downward(m, S) /\ (LogicPast(GuidLen + HeadLen) = {} => LogicExact(h, m))
      BY <2>1
    <2>3. past = {} => /\ m + 1 \in 1 .. Len(LogicPackets) /\ data = p(m)
                       /\ LogicAt(b, m + 1, net.fromLogic)
      BY <1>9, <2>2 DEF LogicExact
    <2> QED
      BY <2>2, <2>3
  <1>11. PICK S \in SUBSET (1 .. m) :
              /\ Downward(m, S)
              /\ past = {} => /\ m + 1 \in 1 .. Len(LogicPackets) /\ data = p(m)
                              /\ LogicAt(b, m + 1, net.fromLogic)
    BY <1>10
  <1>12. Len(data) = size /\ room \in Nat /\ size \in Nat
    <2>1. CO!GetWriteSize(o.buf) \in 1 .. ClientOut
      BY <1>6, RingsSized, CO!RoomLeft
    <2>2. ClientOut \in Nat
      BY RelayAssumption DEF RelayAssumption
    <2> QED
      BY <1>5, <2>1, <2>2, SameClientOut
  <1> HIDE DEF room, size, data, w, past, b
  <1>13. CASE room > size
    <2>1. Notes(Partial(o), seen) /\ Aborts
      BY <1>3, <1>13
    <2>2. Noting({})
      <3>1. seen \in SUBSET Troubles
        BY <1>8
      <3> HIDE DEF seen
      <3> QED
        BY <1>4, <2>1, <3>1, NotesTyped DEF Noting
    <2>3. AbortsExplained'
      <3>1. UNCHANGED logic
        BY <2>1 DEF Aborts, Ends
      <3>2. ~LogicDone' /\ h \in LogicHeads'
        BY <1>1, <1>4, <3>1 DEF LogicDone, LogicSize, LogicHeads
      <3> QED
        BY <1>3, <3>2 DEF AbortsExplained
    <2> QED
      BY <1>4, <2>1, <2>2, <2>3, AbortKeeps
  <1>14. CASE room < size
    <2>1. /\ wire' = [wire EXCEPT !.down = @ \o o.put]
          /\ Notes(Partial(o), seen)
          /\ client' = [client EXCEPT !.out = o.buf]
          /\ UNCHANGED <<logic, guid, net, pc, served>>
      <3>1. ~(room > size)
        BY <1>12, <1>14
      <3>2. /\ wire' = [wire EXCEPT !.down = @ \o o.put]
            /\ Notes(Partial(o), seen)
            /\ client' = [client EXCEPT !.out = o.buf]
            /\ UNCHANGED logic
            /\ UNCHANGED <<guid, net, pc, served>>
        BY <1>3, <1>14, <3>1, Zenon
      <3> QED
        BY <3>2, Zenon
    <2>2. wire' \in Wires /\ wire'.up = wire.up /\ wire'.down = wire.down \o o.put
      BY <1>4, <1>6, <2>1, WireDown
    <2>3. trouble' = trouble \cup seen /\ Noting(seen)
      <3>1. seen \in SUBSET Troubles
        BY <1>8
      <3> HIDE DEF seen
      <3> QED
        BY <1>4, <2>1, <3>1, NotesTyped
    <2>4. /\ client' \in Clients /\ client'.out = o.buf /\ client'.in = client.in
          /\ client'.open = client.open
      BY <1>4, <1>6, <2>1 DEF Typed, Clients
    <2>5. Typed'
      BY <1>4, <1>6, <2>1, <2>2, <2>3, <2>4 DEF Typed, Noting
    <2>6. UpKept /\ FromClientKept /\ FromLogicKept
      BY <2>1, <2>2, <2>4 DEF UpKept, FromClientKept, FromLogicKept, Up
    <2>7. DownKept
      <3> SUFFICES ASSUME Lossless'
                   PROVE  Down' = Down
        BY <2>4 DEF DownKept
      <3>1. DownMoved(client.out, o.put, o.buf)
        BY <1>6, <1>8, <2>3 DEF Lossless
      <3>2. wire.down \in Seq(Tokens) /\ <<>> \in Seq(Tokens)
        BY <1>4 DEF Typed, Wires
      <3>3. (wire.down \o o.put) \o COut!Contents(o.buf) = wire.down \o COut!Contents(client.out)
        BY <3>1, <3>2, Zenon DEF DownMoved
      <3> QED
        BY <2>2, <2>4, <3>3 DEF Down
    <2>8. UpInv' /\ DownInv'
      BY <1>4, <2>6, <2>7, UpStays, DownStays DEF RelayInv
    <2>9. LoopLeft' /\ OpenServed' /\ ReleasedForCause' /\ AbortsExplained'
      BY <1>4, <2>1, <2>3, <2>4
         DEF RelayInv, LoopLeft, OpenServed, ReleasedForCause, AbortsExplained, Noting
    <2> QED
      BY <2>5, <2>8, <2>9 DEF RelayInv
  <1>15. CASE room = size
    <2>1. /\ wire' = [wire EXCEPT !.down = @ \o o.put]
          /\ Notes(Partial(o), seen \cup OfWrite(w))
          /\ client' = [client EXCEPT !.out = w.buf]
          /\ logic' = [logic EXCEPT !.in = b]
          /\ UNCHANGED <<guid, net, pc, served>>
      <3>1. ~(room > size) /\ ~(room < size)
        BY <1>12, <1>15
      <3> QED
        BY <1>3, <3>1, Zenon
    <2>2. wire' \in Wires /\ wire'.up = wire.up /\ wire'.down = wire.down \o o.put
      BY <1>4, <1>6, <2>1, WireDown
    <2>3. /\ w.buf \in CO!Rings /\ w.buf.reader = 0
          /\ w.overrun = FALSE /\ (w.ok \/ w.wiped)
          /\ w.ok /\ ~w.wiped => COut!Contents(w.buf) = COut!Contents(o.buf) \o data
      <3>1. Len(data) <= COut!GetWriteSize(o.buf)
        BY <1>12, <1>15 DEF room
      <3> QED
        BY <1>7, <3>1 DEF WrittenDown
    <2>4. trouble' = trouble \cup (seen \cup OfWrite(w)) /\ Noting(seen \cup OfWrite(w))
      <3> DEFINE what == seen \cup OfWrite(w)
      <3>1. what \in SUBSET Troubles
        BY <1>8, <2>3 DEF OfWrite, Troubles
      <3>2. Notes(Partial(o), what)
        BY <2>1
      <3> HIDE DEF what
      <3>3. trouble' = trouble \cup what /\ Noting(what)
        BY <1>4, <3>1, <3>2, NotesTyped
      <3> QED
        BY <3>3 DEF what
    <2>5. /\ client' \in Clients /\ client'.out = w.buf /\ client'.in = client.in
          /\ client'.open = client.open
      BY <1>4, <2>1, <2>3 DEF Typed, Clients
    <2>6. logic' \in Logics /\ logic'.in = b /\ logic'.out = logic.out
      BY <1>4, <1>5, <2>1 DEF Typed, Logics
    <2>7. Typed'
      BY <1>4, <2>1, <2>2, <2>3, <2>4, <2>5, <2>6 DEF Typed, Noting
    <2>8. UpInv'
      <3>1. UpKept /\ FromClientKept
        BY <2>1, <2>2, <2>5, <2>6 DEF UpKept, FromClientKept, Up
      <3> QED
        BY <1>4, <3>1, UpStays DEF RelayInv
    <2>9. DownInv'
      <3>1. ASSUME Lossless'
            PROVE  /\ m + 1 \in 1 .. Len(LogicPackets)
                   /\ LogicAt(logic'.in, m + 1, net'.fromLogic)
                   /\ Down' = Down \o Packet(LOGICSERVER, m + 1)
        <4>1. past = {} /\ "resent" \notin OfSend(o) /\ ~w.wiped
          BY <1>8, <2>4, <3>1 DEF Lossless, OfWrite
        <4>2. DownMoved(client.out, o.put, o.buf)
          BY <1>6, <1>8, <4>1
        <4>3. COut!Contents(w.buf) = COut!Contents(o.buf) \o data
          BY <2>3, <4>1
        <4>4. wire.down \in Seq(Tokens) /\ data \in Seq(Tokens)
          BY <1>4, <1>5 DEF Typed, Wires
        <4>5. (wire.down \o o.put) \o (COut!Contents(o.buf) \o data)
                = (wire.down \o COut!Contents(client.out)) \o data
          BY <4>2, <4>4, Zenon DEF DownMoved
        <4>6. Down' = Down \o data
          BY <2>2, <2>5, <4>3, <4>5 DEF Down
        <4> QED
          BY <1>11, <2>1, <2>6, <4>1, <4>6
      <3> QED
        BY <1>11, <2>5, <3>1, DownMore
    <2>10. LoopLeft' /\ OpenServed' /\ ReleasedForCause' /\ AbortsExplained'
      BY <1>4, <2>1, <2>4, <2>5
         DEF RelayInv, LoopLeft, OpenServed, ReleasedForCause, AbortsExplained, Noting
    <2> QED
      BY <2>7, <2>8, <2>9, <2>10 DEF RelayInv
  <1> QED
    BY <1>12, <1>13, <1>14, <1>15

-----------------------------------------------------------------------------
(* Every step keeps the invariant: one step of the proof for each action. *)
LEMMA RelayStep ==
    ASSUME RelayInv, [Next]_vars
    PROVE  RelayInv'
  <1>1. CASE UNCHANGED vars
    BY <1>1 DEF vars, RelayInv, Typed, LoopLeft, OpenServed, ReleasedForCause, UpInv, DownInv,
       Running, Lossless, Upward, Downward, Up, Down, ClientAt, LogicAt, AbortsExplained,
       LogicDone, LogicSize, LogicHeads
  <1>2. CASE ServeSend
    BY <1>2, ServeSendKeeps
  <1>3. CASE PollClient
    BY <1>3, PollClientKeeps
  <1>4. CASE ConnectionClose
    BY <1>4, ConnectionCloseKeeps
  <1>5. CASE PollLogic
    BY <1>5, PollLogicKeeps
  <1>6. CASE PollDone
    BY <1>6, PollDoneKeeps
  <1>7. CASE Tick
    BY <1>7, TickKeeps
  <1>8. CASE ClientLeaves
    BY <1>8, ClientLeavesKeeps
  <1>9. CASE ClientAsserts
    BY <1>9, ClientAssertsKeeps
  <1>10. CASE ClientWaits
    BY <1>10, ClientWaitsKeeps
  <1>11. CASE ClientRegistered
    BY <1>11, ClientRegisteredKeeps
  <1>12. CASE ClientRaw
    BY <1>12, ClientRawKeeps
  <1>13. CASE LogicLeaves
    BY <1>13, LogicLeavesKeeps
  <1>14. CASE LogicWaits
    BY <1>14, LogicWaitsKeeps
  <1>15. CASE LogicSkips
    BY <1>15, LogicSkipsKeeps
  <1>16. CASE LogicRegistered
    BY <1>16, LogicRegisteredKeeps
  <1>17. CASE LogicRaw
    BY <1>17, LogicRawKeeps
  <1> QED
    BY <1>1, <1>2, <1>3, <1>4, <1>5, <1>6, <1>7, <1>8, <1>9, <1>10, <1>11, <1>12, <1>13,
       <1>14, <1>15, <1>16, <1>17 DEF Next

(* The invariant holds in every behaviour. *)
LEMMA RelayInvariant == Spec => []RelayInv
  <1>1. Init => RelayInv
    BY RelayInit
  <1>2. RelayInv /\ [Next]_vars => RelayInv'
    BY RelayStep
  <1> QED
    BY <1>1, <1>2, PTL DEF Spec

(* The pointers of all four rings stay inside them, every byte in a ring is one of *)
(* a packet or a GUID, and no more is received than was sent: GYCycleBuffer's      *)
(* offsets under everything the gateway thread does with its two connections.     *)
THEOREM RelayTypes == Spec => []TypeOK
  <1>1. RelayInv => TypeOK
    <2> SUFFICES ASSUME Typed
                 PROVE  TypeOK
      BY DEF RelayInv
    <2>1. /\ client.in \in CI!Rings /\ client.out \in CO!Rings /\ client.open \in BOOLEAN
          /\ logic.in \in LI!Rings /\ logic.out \in LO!Rings
      BY DEF Typed, Clients, Logics
    <2>2. /\ {client.in.reader, client.in.writer} \subseteq 0 .. ClientIn - 1
          /\ {client.in.cells[c] : c \in 0 .. ClientIn - 1} \subseteq Tokens
      BY <2>1 DEF CI!Rings, CI!Places
    <2>3. {client.out.reader, client.out.writer} \subseteq 0 .. ClientOut - 1
      BY <2>1 DEF CO!Rings, CO!Places
    <2>4. {logic.in.reader, logic.in.writer} \subseteq 0 .. LogicIn - 1
      BY <2>1 DEF LI!Rings, LI!Places
    <2>5. /\ {logic.out.reader, logic.out.writer} \subseteq 0 .. LogicOut - 1
          /\ {logic.out.cells[c] : c \in 0 .. LogicOut - 1} \subseteq Tokens
      BY <2>1 DEF LO!Rings, LO!Places
    <2>6. /\ net.fromClient \in 0 .. Len(ClientStream)
          /\ net.fromLogic \in 0 .. Len(LogicStream)
          /\ net.closed \in BOOLEAN
      BY DEF Typed, Nets
    <2>7. /\ guid \in BOOLEAN
          /\ pc \in {"serve", "poll", "client", "logic", "tick", "aborted", "corrupt"}
          /\ served \subseteq {"client", "logic"} /\ trouble \subseteq Troubles
      BY DEF Typed
    <2> QED
      BY <2>1, <2>2, <2>3, <2>4, <2>5, <2>6, <2>7 DEF TypeOK
  <1> QED
    BY <1>1, RelayInvariant, PTL

(* No head is filled in past the end of a ring: Send empties a ring or leaves what  *)
(* is in it at its beginning, so that operator<< of a packet has its head before   *)
(* the end of m_pBuffer, whatever the lengths of the rings and packets are.        *)
THEOREM HeadsStayInside == Spec => []HeadsInsideRing
  <1>1. RelayInv => HeadsInsideRing
    BY DEF RelayInv, Typed, HeadsInsideRing
  <1> QED
    BY <1>1, RelayInvariant, PTL

(* _OnReceiveWithServer releases a session only if its client has closed, or a     *)
(* send to it failed: because the loop leaves no more than a head in the ring,     *)
(* Recv never finds room for one byte only.                                       *)
THEOREM SessionsReleasedForCause == Spec => []ReleasedForCause
  <1>1. RelayInv => ReleasedForCause
    BY DEF RelayInv
  <1> QED
    BY <1>1, RelayInvariant, PTL

(* While every send goes through and no ring fills exactly, an assertion of the    *)
(* packet path fails only for a packet of the logic server that the gateway has no *)
(* factory for (the GYAssert of SendDataToClient among them).                      *)
THEOREM RelayAbortsExplained == Spec => []AbortsExplained
  <1>1. RelayInv => AbortsExplained
    BY DEF RelayInv
  <1> QED
    BY <1>1, RelayInvariant, PTL

(* A join of pieces begins with the join of the first of them. *)
LEMMA BeginsWith ==
    ASSUME NEW T, NEW a \in Seq(T), NEW r \in Seq(T)
    PROVE  SubSeq(a \o r, 1, Len(a)) = a
  <1> DEFINE c == a \o r
             n == Len(a)
             s == SubSeq(c, 1, n)
  <1>1. Placed(T, a, r, c)
    BY ConcatAt
  <1>2. /\ c \in Seq(T) /\ n \in Nat /\ Len(r) \in Nat /\ Len(c) = n + Len(r)
        /\ \A i \in 1 .. n : c[i] = a[i]
    BY <1>1 DEF Placed
  <1> HIDE DEF c, n
  <1>3. \A i \in 1 .. n : c[i] \in T
    BY <1>2, ElementOfSeq
  <1>4. s \in Seq(T) /\ Len(s) = (IF 1 <= n THEN n - 1 + 1 ELSE 0)
        /\ \A i \in 1 .. n - 1 + 1 : s[i] = c[1 + i - 1]
    BY <1>2, <1>3, SubSeqProperties
  <1>5. s \in Seq(T) /\ Len(s) = n /\ \A i \in 1 .. n : s[i] = a[i]
    BY <1>2, <1>4
  <1> HIDE DEF s
  <1>6. s = a
    BY <1>5, SeqEqual DEF n
  <1> QED
    BY <1>6 DEF s, c, n

(* Up to a send that is repeated, a ring that is filled exactly or a head read     *)
(* across the end of a ring, the logic server gets what the client sent: in order, *)
(* each byte once, whole packets, each behind its GUID.                            *)
THEOREM UpStreamIntact == Spec => []UpIntact
  <1>1. RelayInv => UpIntact
    <2> SUFFICES ASSUME RelayInv, Lossless, pc \notin {"aborted", "corrupt"}
                 PROVE  LET up == wire.up \o LOut!Contents(logic.out)
                            sent == Bytes(CLIENT, up)
                        IN  /\ WellFramed(up)
                            /\ IF client.open
                               THEN sent \o CIn!Contents(client.in)
                                      = SubSeq(ClientStream, 1, net.fromClient)
                               ELSE sent = SubSeq(ClientStream, 1, Len(sent))
      BY DEF UpIntact
    <2>1. PICK k \in 0 .. Len(ClientPackets) : Upward(k)
      BY DEF RelayInv, UpInv, Running
    <2> DEFINE sent == Bytes(CLIENT, Up)
    <2>2. WellFramed(Up) /\ sent = ClientSent[k]
      BY <2>1 DEF Upward
    <2>3. /\ ClientPieces \in Pieces(Tokens) /\ Len(ClientPieces) = Len(ClientPackets)
          /\ ClientSent = Joined(ClientPieces)
          /\ ClientStream = Joined(ClientPieces)[Len(ClientPieces)]
          /\ Len(ClientPackets) \in Nat
      BY Streams, RawPieces
    <2> HIDE DEF sent
    <2>4. ASSUME client.open
          PROVE  sent \o CIn!Contents(client.in) = SubSeq(ClientStream, 1, net.fromClient)
      <3>1. Follows(ClientPieces, k, CIn!Contents(client.in), net.fromClient)
        BY <2>1, <2>4 DEF Upward, ClientAt
      <3> QED
        BY <2>2, <2>3, <3>1 DEF Follows
    <2>5. sent = SubSeq(ClientStream, 1, Len(sent))
      <3> DEFINE n == Len(ClientPieces)
      <3>1. n \in 0 .. Len(ClientPieces) /\ k \in 0 .. n
        BY <2>3
      <3>2. \E r \in Seq(Tokens) : Joined(ClientPieces)[n] = Joined(ClientPieces)[k] \o r
        BY <2>3, <3>1, JoinedPrefix
      <3>3. PICK r \in Seq(Tokens) : ClientStream = sent \o r
        BY <2>2, <2>3, <3>2
      <3>4. sent \in Seq(Tokens)
        <4>1. \A i \in 0 .. Len(ClientPieces) : Joined(ClientPieces)[i] \in Seq(Tokens)
          BY <2>3, JoinedSteps, Zenon
        <4> QED
          BY <2>2, <2>3, <4>1
      <3> QED
        BY <3>3, <3>4, BeginsWith
    <2> QED
      BY <2>2, <2>4, <2>5 DEF Up, sent
  <1> QED
    BY <1>1, RelayInvariant, PTL

(* Up to the same, the client gets whole packets of the logic server, none twice    *)
(* and none out of order.                                                         *)
THEOREM DownStreamIntact == Spec => []DownIntact
  <1>1. RelayInv => DownIntact
    <2> SUFFICES ASSUME RelayInv, Lossless, client.open, pc \notin {"aborted", "corrupt"}
                 PROVE  \E S \in SUBSET (1 .. Len(LogicPackets)) :
                            wire.down \o COut!Contents(client.out)
                              = Delivered(S)[Len(LogicPackets)]
      BY DEF DownIntact
    <2>1. PICK m \in 0 .. Len(LogicPackets) : \E S \in SUBSET (1 .. m) : Downward(m, S)
      BY DEF RelayInv, DownInv, Running
    <2>2. PICK S \in SUBSET (1 .. m) : Downward(m, S)
      BY <2>1
    <2>3. Down = Delivered(S)[m]
      BY <2>2 DEF Downward
    <2>4. Delivered(S)[Len(LogicPackets)] = Delivered(S)[m]
      BY DeliveredAll
    <2>5. S \in SUBSET (1 .. Len(LogicPackets))
      <3>1. Len(LogicPackets) \in Nat
        BY RawPieces
      <3>2. \A i \in 1 .. m : i \in 1 .. Len(LogicPackets)
        BY <3>1
      <3> QED
        BY <3>2
    <2> QED
      BY <2>3, <2>4, <2>5 DEF Down
  <1> QED
    BY <1>1, RelayInvariant, PTL

(* In a packet that is not complete no step of the client's loop does anything. *)
LEMMA HangsOn ==
    ASSUME RelayInv, Next, InPartialPacket
    PROVE  InPartialPacket'
  <1>1. /\ pc = "client" /\ ~ClientDone /\ ClientPast(HeadLen) = {}
        /\ \A h \in ClientHeads : h.len + HeadLen > ClientSize
    BY DEF InPartialPacket, At
  <1>2. ClientAsserts \/ ClientWaits \/ ClientRegistered \/ ClientRaw
    BY <1>1 DEF Next, ServeSend, PollClient, ConnectionClose, ClientReady, PollLogic, PollDone,
       Tick, ClientLeaves, LogicLeaves, LogicWaits, LogicSkips, LogicRegistered, LogicRaw,
       LogicHas, At
  <1>3. ~ClientAsserts
    BY <1>1, AssertsMisread
  <1>4. ASSUME NEW h, ClientHas(h)
        PROVE  FALSE
    <2>1. Typed /\ h \in ClientHeads /\ h.len + HeadLen <= ClientSize
      BY <1>4 DEF RelayInv, ClientHas
    <2>2. h.len \in Nat /\ HeadLen \in Nat
      BY <1>4, <2>1, ClientTaken
    <2>3. ClientSize \in Nat
      <3>1. client.in \in CI!Rings
        BY <2>1 DEF Typed, Clients
      <3>2. CIn!GetReadSize(client.in) \in 0 .. ClientIn - 1 /\ ClientIn \in Nat
        BY <3>1, ReadClient, RelayAssumption DEF RelayAssumption
      <3> QED
        BY <3>2 DEF ClientSize
    <2> QED
      BY <1>1, <2>1, <2>2, <2>3
  <1>5. ~ClientRegistered /\ ~ClientRaw
    BY <1>4 DEF ClientRegistered, ClientRaw
  <1>6. UNCHANGED <<client, pc, trouble>>
    BY <1>1, <1>2, <1>3, <1>5 DEF ClientWaits
  <1> QED
    BY <1>6 DEF InPartialPacket, At, Lossless, ClientDone, ClientSize, ClientPast, ClientHeads

(* Once the loop of _OnReceiveWithServer meets a packet that is not complete it     *)
(* never leaves it, for packets and rings of any length.                           *)
THEOREM LoopsHang == Spec => PartialPacketHangs
  <1>1. RelayInv /\ [Next]_vars => [InPartialPacket => InPartialPacket']_vars
    BY HangsOn
  <1> QED
    BY <1>1, RelayInvariant, PTL DEF Spec, PartialPacketHangs

=============================================================================
