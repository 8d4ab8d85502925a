---------------------------- MODULE GYPacketRelay ----------------------------
(***************************************************************************)
(* The bytes of one client through one gateway thread: received from the    *)
(* client, cut into packets, handled or passed on behind the GUID of the    *)
(* client, sent to the logic server, and the other way round.  The lists,   *)
(* locks and reactors around this are in GYGateway.                         *)
(*                                                                          *)
(* Heads and GUIDs are read by casting ReadPtr(), so that what is read may   *)
(* lie past the end of the ring; a send may take part of what it is given;   *)
(* a write may fill a ring exactly.  trouble records which of these happened.  *)
(***************************************************************************)
EXTENDS Integers, Sequences, FiniteSets

CONSTANTS
    HeadLen,        \* PacektHeadLen
    GuidLen,        \* GYGUIDLEN
    Body(_),        \* the length of the body of a packet, by its id
    ClientPackets,  \* bound: the ids of the packets the client sends, in order
    LogicPackets,   \* bound: those the logic server sends to the client
    ClientIn, ClientOut, LogicIn, LogicOut, \* the lengths of the four rings
    PartialSends,   \* bound: how many sends take less than they are given
    PacketMaxLen    \* the longest body the client loop accepts

(* The packets with a factory and a handler on the gateway; every other id   *)
(* below EM_PACKET_ID_COUNT is passed on as it is.                           *)
Registered == {"Login", "Test", "SCTest"}
PacketId == Registered \cup {"Logout", "Raw"}

(* A head has an id and a length, no body is longer than PacketMaxLen, and   *)
(* the ring from a client, of 16384 bytes, is longer than a head; one packet *)
(* that the gateway writes itself fits into the ring it is written to.       *)
ASSUME RelayAssumption ==
    /\ HeadLen \in Nat /\ HeadLen >= 2
    /\ GuidLen \in Nat \ {0}
    /\ PacketMaxLen \in Nat
    /\ \A id \in PacketId : Body(id) \in 0 .. PacketMaxLen
    /\ ClientPackets \in Seq(PacketId) /\ LogicPackets \in Seq(PacketId)
    /\ {ClientIn, ClientOut, LogicIn, LogicOut} \subseteq Nat \ {0}
    /\ ClientIn > HeadLen + 1
    /\ \A id \in Registered \cup {"Logout"} : GuidLen + HeadLen + Body(id) <= LogicOut
    /\ \A id \in Registered : HeadLen + Body(id) <= ClientOut
    /\ PartialSends \in Nat

(* Tokens <<source, packet, position>>.  The GUID token of a client that has  *)
(* none yet is INVALID_VALUE.                                                *)
CLIENT == 1  LOGICSERVER == 2  GATEWAY == 3  GUID == 4
Junk == <<0, 0, 0>>

CIn == INSTANCE GYBufferStreamSocket WITH BufferLen <- ClientIn
COut == INSTANCE GYBufferStreamSocket WITH BufferLen <- ClientOut
LIn == INSTANCE GYBufferStreamSocket WITH BufferLen <- LogicIn
LOut == INSTANCE GYBufferStreamSocket WITH BufferLen <- LogicOut

Id(source, i) == CASE source = CLIENT -> ClientPackets[i]
                   [] source = LOGICSERVER -> LogicPackets[i]
                   [] source = GATEWAY -> "Logout"

Packet(source, i) ==
    [j \in 1 .. HeadLen + Body(Id(source, i)) |-> <<source, i, j>>]

GuidBytes(known) == [j \in 1 .. GuidLen |-> <<GUID, IF known THEN 1 ELSE 0, j>>]

(* The first n pieces one after the other. *)
Joined(pieces) ==
    LET First[n \in 0 .. Len(pieces)] == IF n = 0 THEN <<>> ELSE First[n - 1] \o pieces[n]
    IN  First

(* What a peer sends: its packets, here the first n. *)
ClientSent == Joined([n \in 1 .. Len(ClientPackets) |-> Packet(CLIENT, n)])
LogicSent == Joined([n \in 1 .. Len(LogicPackets) |-> GuidBytes(TRUE) \o Packet(LOGICSERVER, n)])

ClientStream == ClientSent[Len(ClientPackets)]
LogicStream == LogicSent[Len(LogicPackets)]

VARIABLES
    client,     \* GYClientSession: m_connection's rings, and whether it is open
    logic,      \* m_connection2Logic
    guid,       \* the client has a GUID and is in m_workSessionHash
    net,        \* per peer: the bytes received of it; closed: the client is done
    wire,       \* what the kernel took, for the logic server and for the client
    pc,         \* where the thread is
    served,     \* the events RunOnce has handled in this round
    partials,   \* sends so far that took less than they were given
    trouble       \* what has happened that may lose or change bytes

vars == <<client, logic, guid, net, wire, pc, served, partials, trouble>>

Init ==
    /\ client = [in |-> CIn!NewRing, out |-> COut!NewRing, open |-> TRUE]
    /\ logic = [in |-> LIn!NewRing, out |-> LOut!NewRing]
    /\ guid = FALSE
    /\ net = [fromClient |-> 0, fromLogic |-> 0, closed |-> FALSE]
    /\ wire = [up |-> <<>>, down |-> <<>>]
    /\ pc = "serve"
    /\ served = {}
    /\ partials = 0
    /\ trouble = {}
-----------------------------------------------------------------------------
(* Bound: once bytes are lost or misread nothing more is followed.  Every       *)
(* property speaks of the time before, and of the step in which it happens.     *)
Lossless == trouble \subseteq {"blocked"}

At(place) == pc = place /\ Lossless

SendsToClient == COut!Send(client.out, partials < PartialSends)
SendsToLogic == LOut!Send(logic.out, partials < PartialSends)

(* What a Send with outcome o adds to partials and to trouble. *)
Partial(o) == IF o.result = "CONNECTION_CLOSED" \/ o.put # o.out THEN 1 ELSE 0
OfSend(o) == (IF o.put # o.out THEN {"resent"} ELSE {})
             \cup (IF o.result # "SUCESS" THEN {"blocked"} ELSE {})
OfWrite(w) == (IF w.wiped THEN {"wiped"} ELSE {}) \cup (IF w.overrun THEN {"overrun"} ELSE {})
OfRead(past) == IF past THEN {"straddled"} ELSE {}

Notes(count, what) == partials' = partials + count /\ trouble' = trouble \cup what

(* GYAssert fails, or the head of a packet was filled in past the end of the  *)
(* ring, over m_pReader, and nothing is known of the process any more.        *)
Ends(how) == pc' = how /\ UNCHANGED <<client, logic, guid, wire, served>>
Aborts == Ends("aborted") /\ UNCHANGED net

(* SendPacketToServer: Send, whatever comes of it, then the GUID and the      *)
(* packet, each field asserted to fit.  cl is the client after the packet was *)
(* read, known whether it has its GUID, read what reading has noted.          *)
SendPacketToServer(cl, known, packet, read) ==
    \E o \in SendsToLogic :
        LET w == LOut!PutPacket(LOut!Put(LOut!Begin(o.buf), GuidBytes(known)), packet)
        IN  /\ Notes(Partial(o), read \cup OfSend(o) \cup OfWrite(w))
            /\ IF ~w.ok THEN Ends("aborted")
               ELSE IF w.overrun THEN Ends("corrupt")
               ELSE /\ logic' = [logic EXCEPT !.out = w.buf]
                    /\ wire' = [wire EXCEPT !.up = @ \o o.put]
                    /\ client' = cl
                    /\ guid' = (known /\ cl.open)
                    /\ UNCHANGED <<pc, served>>

(* SendPacketToClient, li the ring of the logic connection after the packet    *)
(* was read from it.                                                           *)
SendPacketToClient(li, packet, read) ==
    \E o \in SendsToClient :
        LET w == COut!PutPacket(COut!Begin(o.buf), packet)
        IN  /\ Notes(Partial(o), read \cup OfSend(o) \cup OfWrite(w))
            /\ IF ~w.ok THEN Aborts
               ELSE IF w.overrun THEN Ends("corrupt") /\ UNCHANGED net
               ELSE /\ client' = [client EXCEPT !.out = w.buf]
                    /\ wire' = [wire EXCEPT !.down = @ \o o.put]
                    /\ logic' = [logic EXCEPT !.in = li]
                    /\ UNCHANGED <<guid, net, pc, served>>
-----------------------------------------------------------------------------
(* The round: GYGatewayThread::Run and _ServeringClientSession. *)
ServeSend ==
    /\ At("serve")
    /\ \E o \in SendsToLogic :
        /\ Notes(Partial(o), OfSend(o))
        /\ logic' = [logic EXCEPT !.out = o.buf]
        /\ wire' = [wire EXCEPT !.up = @ \o o.put]
    /\ pc' = "poll"
    /\ served' = {}
    /\ UNCHANGED <<client, guid, net>>

(* _OnReceiveWithServer up to its loop.  A closed connection sends a Logout   *)
(* for the client and releases the session, which closes and empties it.      *)
Released == [in |-> CIn!NewRing, out |-> COut!NewRing, open |-> FALSE]

ClientReady == At("poll") /\ client.open /\ "client" \notin served

(* n bytes of the client are in the kernel: how many have come so far is only  *)
(* seen here.                                                                  *)
PollClient ==
    /\ ClientReady
    /\ \E n \in net.fromClient + 1 .. Len(ClientStream) :
        LET r == CIn!Recv(client.in, SubSeq(ClientStream, net.fromClient + 1, n), FALSE)
        IN  /\ r.result = "SUCESS"
            /\ client' = [client EXCEPT !.in = r.buf]
            /\ net' = [net EXCEPT !.fromClient = @ + r.n]
            /\ Notes(0, IF CIn!Wipes(client.in, r.n) THEN {"wiped"} ELSE {})
    /\ pc' = "client"
    /\ served' = served \cup {"client"}
    /\ UNCHANGED <<logic, guid, wire>>

(* The connection is closed, or taken for closed. *)
ConnectionClose ==
    /\ ClientReady
    /\ \E n \in net.fromClient .. Len(ClientStream) :
        LET kernel == SubSeq(ClientStream, net.fromClient + 1, n)
        IN  /\ CIn!Recv(client.in, kernel, TRUE).result = "CONNECTION_CLOSED"
            /\ SendPacketToServer(Released, guid, Packet(GATEWAY, 1), {})
            /\ net' = [net EXCEPT !.closed = kernel = <<>>]

(* ProcessLogicServerData up to its loop. *)
PollLogic ==
    /\ At("poll") /\ "logic" \notin served
    /\ \E n \in net.fromLogic + 1 .. Len(LogicStream) :
        LET r == LIn!Recv(logic.in, SubSeq(LogicStream, net.fromLogic + 1, n), FALSE)
        IN  /\ r.result = "SUCESS"
            /\ logic' = [logic EXCEPT !.in = r.buf]
            /\ net' = [net EXCEPT !.fromLogic = @ + r.n]
            /\ Notes(0, IF LIn!Wipes(logic.in, r.n) THEN {"wiped"} ELSE {})
    /\ pc' = "logic"
    /\ served' = served \cup {"logic"}
    /\ UNCHANGED <<client, guid, wire>>

(* epoll_wait returned what was ready when it was called; a peer that sends    *)
(* later is served in the next round.                                          *)
PollDone ==
    /\ At("poll")
    /\ pc' = IF client.open THEN "tick" ELSE "serve"
    /\ UNCHANGED <<client, logic, guid, net, wire, served, partials, trouble>>

(* GYClientSession::Tick: any failure of Send, WOULD_BLOCK too, releases the   *)
(* session, without a Logout.                                                  *)
Tick ==
    /\ At("tick")
    /\ \E o \in SendsToClient :
        /\ Notes(Partial(o), OfSend(o))
        /\ wire' = [wire EXCEPT !.down = @ \o o.put]
        /\ client' = IF o.result = "SUCESS" THEN [client EXCEPT !.out = o.buf] ELSE Released
        /\ guid' = (guid /\ o.result = "SUCESS")
    /\ pc' = "serve"
    /\ UNCHANGED <<logic, net, served>>
-----------------------------------------------------------------------------
(* Heads read in place: a byte that is not the one the field is made of gives  *)
(* any value.                                                                  *)
AnyLen == {Body(id) : id \in PacketId} \cup {PacketMaxLen, PacketMaxLen + 1}

IdOf(t) == IF t[1] \in {CLIENT, LOGICSERVER, GATEWAY} /\ t[3] = 1
           THEN {Id(t[1], t[2])} ELSE PacketId \cup {"bad"}

LenOf(t) == IF t[1] \in {CLIENT, LOGICSERVER, GATEWAY} /\ t[3] = 2
            THEN {Body(Id(t[1], t[2]))} ELSE AnyLen

HeadsOf(bytes) == [id : IdOf(bytes[1]), len : LenOf(bytes[2])]

(* bytes are what the stream reads of a packet: its own fields check it.       *)
Decodes(bytes, id) ==
    \E source \in {CLIENT, LOGICSERVER} :
        /\ bytes[1][1] = source
        /\ Id(source, bytes[1][2]) = id
        /\ bytes = Packet(source, bytes[1][2])

(* The loop of _OnReceiveWithServer. *)
ClientSize == CIn!GetReadSize(client.in)

(* Mutant of ClientDone: one packet in each round.                             *)
ClientDoneEarly == TRUE

(* Fewer bytes than a head and one byte of body. *)
ClientDone == ClientSize <= HeadLen

ClientHeads == HeadsOf(CIn!InPlace(client.in, 0, HeadLen))
ClientPast(n) == OfRead(client.in.reader + n > ClientIn)

ClientLeaves ==
    /\ At("client") /\ ClientDone
    /\ pc' = "poll"
    /\ UNCHANGED <<client, logic, guid, net, wire, served, partials, trouble>>

ClientAsserts ==
    /\ At("client") /\ ~ClientDone
    /\ \E h \in ClientHeads : h.len > PacketMaxLen
    /\ Notes(0, ClientPast(HeadLen))
    /\ Aborts

(* A whole packet with head h is there. *)
ClientHas(h) ==
    /\ At("client") /\ ~ClientDone
    /\ h \in ClientHeads
    /\ h.len + HeadLen <= ClientSize

(* Mutant of ClientWaits: an incomplete packet ends the loop.                  *)
ClientWaitsOutside ==
    /\ At("client") /\ ~ClientDone
    /\ \E h \in ClientHeads : h.len <= PacketMaxLen /\ h.len + HeadLen > ClientSize
    /\ pc' = "poll"
    /\ UNCHANGED <<client, logic, guid, net, wire, served, partials, trouble>>

(* The packet is not complete: the loop goes round, and nothing receives.      *)
ClientWaits ==
    /\ At("client") /\ ~ClientDone
    /\ \E h \in ClientHeads : h.len <= PacketMaxLen /\ h.len + HeadLen > ClientSize
    /\ trouble' = trouble \cup ClientPast(HeadLen)
    /\ UNCHANGED <<client, logic, guid, net, wire, pc, served, partials>>

(* GYClientSession::_ProcessInputData of a registered packet: it is read       *)
(* through the stream, and its handler, Login's or Test's, gives the client    *)
(* its GUID if need be and sends the packet on.  An id that is no packet's     *)
(* fails the assertion of GetPacketByID.                                       *)
ClientRegistered ==
    \E h \in ClientHeads :
        /\ ClientHas(h) /\ h.id \in Registered \cup {"bad"}
        /\ LET n == HeadLen + h.len
               bytes == SubSeq(CIn!Contents(client.in), 1, n)
           IN  IF Decodes(bytes, h.id)
               THEN SendPacketToServer([client EXCEPT !.in = CIn!ReadPtr(@, n)],
                                       TRUE, bytes, ClientPast(HeadLen))
                    /\ UNCHANGED net
               ELSE Notes(0, ClientPast(HeadLen)) /\ Aborts

(* The bytes of a packet with head h behind its GUID. *)
Need(h) == GuidLen + HeadLen + h.len

(* Mutant of Framed: the bytes are passed on without the GUID.                 *)
FramedBare(b, data) == LOut!Put(LOut!Begin(b), data)

(* The GUID, then the packet as it stands in the ring. *)
Framed(b, data) == LOut!Put(LOut!Put(LOut!Begin(b), GuidBytes(guid)), data)

(* Any other packet: SendDataToServer.  Send, and once more when there is no   *)
(* room; o and more are those two sends.                                       *)
ClientPassesOn(h, o, more) ==
    LET full == LOut!GetWriteSize(o.buf) < Need(h)
        count == Partial(o) + IF full THEN Partial(more) ELSE 0
        seen == OfSend(o) \cup IF full THEN OfSend(more) ELSE {}
        last == IF full THEN more.buf ELSE o.buf
        put == IF full THEN o.put \o more.put ELSE o.put
        w == Framed(last, CIn!InPlace(client.in, 0, HeadLen + h.len))
    IN  IF LOut!GetWriteSize(last) < Need(h)
        THEN /\ Notes(count, ClientPast(HeadLen) \cup seen)
             /\ logic' = [logic EXCEPT !.out = last]
             /\ wire' = [wire EXCEPT !.up = @ \o put]
             /\ UNCHANGED <<client, guid, net, pc, served>>
        ELSE /\ Notes(count, ClientPast(HeadLen + h.len) \cup seen \cup OfWrite(w))
             /\ IF ~w.ok THEN Aborts
                ELSE /\ logic' = [logic EXCEPT !.out = w.buf]
                     /\ wire' = [wire EXCEPT !.up = @ \o put]
                     /\ client' = [client EXCEPT !.in = CIn!ReadPtr(@, HeadLen + h.len)]
                     /\ UNCHANGED <<guid, net, pc, served>>

ClientRaw ==
    \E h \in ClientHeads :
        /\ ClientHas(h) /\ h.id \in PacketId \ Registered
        /\ \E o \in SendsToLogic :
            \E more \in LOut!Send(o.buf, partials < PartialSends) : ClientPassesOn(h, o, more)
-----------------------------------------------------------------------------
(* The loop of ProcessLogicServerData. *)
LogicSize == LIn!GetReadSize(logic.in)
LogicDone == LogicSize <= GuidLen + HeadLen
LogicHeads == HeadsOf(LIn!InPlace(logic.in, GuidLen, HeadLen))
LogicPast(n) == OfRead(logic.in.reader + n > LogicIn)

(* Whether m_workSessionHash finds the client for the GUID in place. *)
Found == IF LIn!InPlace(logic.in, 0, GuidLen) = GuidBytes(TRUE) THEN {guid} ELSE {guid, FALSE}

LogicLeaves ==
    /\ At("logic") /\ LogicDone
    /\ pc' = "poll"
    /\ UNCHANGED <<client, logic, guid, net, wire, served, partials, trouble>>

LogicWaits ==
    /\ At("logic") /\ ~LogicDone
    /\ \E h \in LogicHeads : Need(h) > LogicSize
    /\ trouble' = trouble \cup LogicPast(GuidLen + HeadLen)
    /\ UNCHANGED <<client, logic, guid, net, wire, pc, served, partials>>

LogicHas(h) == At("logic") /\ ~LogicDone /\ h \in LogicHeads /\ Need(h) <= LogicSize

(* GYGatewayThread::_ProcessInputData.  The client has gone: skip the packet.  *)
LogicSkips ==
    /\ FALSE \in Found
    /\ \E h \in LogicHeads :
        /\ LogicHas(h)
        /\ logic' = [logic EXCEPT !.in = LIn!ReadPtr(@, Need(h))]
    /\ Notes(0, LogicPast(GuidLen + HeadLen))
    /\ UNCHANGED <<client, guid, net, wire, pc, served>>

LogicRegistered ==
    /\ TRUE \in Found
    /\ \E h \in LogicHeads :
        /\ LogicHas(h) /\ h.id \in Registered \cup {"bad"}
        /\ LET bytes == SubSeq(LIn!Contents(logic.in), GuidLen + 1, Need(h))
               past == LogicPast(GuidLen + HeadLen)
           IN  IF Decodes(bytes, h.id)
               THEN SendPacketToClient(LIn!ReadPtr(logic.in, Need(h)), bytes, past)
               ELSE Notes(0, past) /\ Aborts

(* SendDataToClient: too little room is tried again, just enough is written,   *)
(* more than enough fails an assertion.                                        *)
LogicRaw ==
    /\ TRUE \in Found
    /\ \E h \in LogicHeads : \E o \in SendsToClient :
        LET room == COut!GetWriteSize(o.buf)
            size == HeadLen + h.len
            w == COut!Put(COut!Begin(o.buf), LIn!InPlace(logic.in, GuidLen, size))
            seen == LogicPast(Need(h)) \cup OfSend(o)
        IN  /\ LogicHas(h) /\ h.id \in PacketId \ Registered
            /\ IF room > size THEN Notes(Partial(o), seen) /\ Aborts
               ELSE /\ wire' = [wire EXCEPT !.down = @ \o o.put]
                    /\ IF room < size
                       THEN /\ Notes(Partial(o), seen)
                            /\ client' = [client EXCEPT !.out = o.buf]
                            /\ UNCHANGED logic
                       ELSE /\ Notes(Partial(o), seen \cup OfWrite(w))
                            /\ client' = [client EXCEPT !.out = w.buf]
                            /\ logic' = [logic EXCEPT !.in = LIn!ReadPtr(@, Need(h))]
                    /\ UNCHANGED <<guid, net, pc, served>>
-----------------------------------------------------------------------------
Next ==
    \/ ServeSend \/ PollClient \/ ConnectionClose \/ PollLogic \/ PollDone \/ Tick
    \/ ClientLeaves \/ ClientAsserts \/ ClientWaits \/ ClientRegistered \/ ClientRaw
    \/ LogicLeaves \/ LogicWaits \/ LogicSkips \/ LogicRegistered
    \/ LogicRaw

Spec == Init /\ [][Next]_vars
-----------------------------------------------------------------------------
Troubles == {"resent", "blocked", "wiped", "overrun", "straddled"}
Tokens == {Junk} \cup {<<CLIENT, i, j>> : i \in 1 .. Len(ClientPackets), j \in 1 .. Len(ClientStream)}
          \cup {<<LOGICSERVER, i, j>> : i \in 1 .. Len(LogicPackets), j \in 1 .. Len(LogicStream)}
          \cup {<<GATEWAY, 1, j>> : j \in 1 .. HeadLen + Body("Logout")}
          \cup {<<GUID, g, j>> : g \in 0 .. 1, j \in 1 .. GuidLen}

(* The pointers of the four rings stay inside them, and Recv never takes more  *)
(* out of the kernel than there is.                                            *)
TypeOK ==
    /\ {client.in.reader, client.in.writer} \subseteq 0 .. ClientIn - 1
    /\ {client.out.reader, client.out.writer} \subseteq 0 .. ClientOut - 1
    /\ {logic.in.reader, logic.in.writer} \subseteq 0 .. LogicIn - 1
    /\ {logic.out.reader, logic.out.writer} \subseteq 0 .. LogicOut - 1
    /\ {client.in.cells[c] : c \in 0 .. ClientIn - 1} \subseteq Tokens
    /\ {logic.out.cells[c] : c \in 0 .. LogicOut - 1} \subseteq Tokens
    /\ client.open \in BOOLEAN /\ guid \in BOOLEAN /\ net.closed \in BOOLEAN
    /\ net.fromClient \in 0 .. Len(ClientStream)
    /\ net.fromLogic \in 0 .. Len(LogicStream)
    /\ pc \in {"serve", "poll", "client", "logic", "tick", "aborted", "corrupt"}
    /\ served \subseteq {"client", "logic"}
    /\ trouble \subseteq Troubles

(* Those of the bytes s that come from source. *)
Bytes(source, s) ==
    Joined([i \in 1 .. Len(s) |-> IF s[i][1] = source THEN <<s[i]>> ELSE <<>>])[Len(s)]

(* Every packet in up is whole, with nothing between its bytes, and stands      *)
(* behind one GUID.                                                            *)
WellFramed(up) ==
    \A i \in 1 .. Len(up) :
        LET t == up[i]
            last == t[1] # GUID /\ t[3] = Len(Packet(t[1], t[2]))
        IN  \/ i = Len(up) /\ last
            \/ i < Len(up) /\ LET u == up[i + 1] IN
                CASE last                            -> u[1] = GUID /\ u[3] = 1
                  [] t[1] = GUID /\ t[3] = GuidLen   -> u[1] # GUID /\ u[3] = 1
                  [] OTHER                           -> u = <<t[1], t[2], t[3] + 1>>

(* What the client has sent reaches the logic server in order, each byte once   *)
(* and each packet behind its GUID (SendDataToServer, SendPacketToServer): what  *)
(* is on the wire, in the ring to the logic server and in the ring from the      *)
(* client is what was received of it, unless a send was repeated, a ring filled  *)
(* exactly or a packet read across the end of a ring.                            *)
UpIntact ==
    Lossless /\ pc \notin {"aborted", "corrupt"} =>
        LET up == wire.up \o LOut!Contents(logic.out)
            sent == Bytes(CLIENT, up)
        IN  /\ WellFramed(up)
            /\ IF client.open
               THEN sent \o CIn!Contents(client.in) = SubSeq(ClientStream, 1, net.fromClient)
               ELSE sent = SubSeq(ClientStream, 1, Len(sent))

(* Those of the first n packets of the logic server that are in S, without the   *)
(* GUIDs before them.                                                            *)
Delivered(S) ==
    Joined([n \in 1 .. Len(LogicPackets) |-> IF n \in S THEN Packet(LOGICSERVER, n) ELSE <<>>])

(* What the client gets are whole packets of the logic server, none twice and    *)
(* none out of order; those for a client that is not known are skipped whole.    *)
DownIntact ==
    Lossless /\ client.open /\ pc \notin {"aborted", "corrupt"} =>
        \E S \in SUBSET (1 .. Len(LogicPackets)) :
            wire.down \o COut!Contents(client.out) = Delivered(S)[Len(LogicPackets)]

(* The assertions of the packet path fail for no other reason than these: a send *)
(* that did not go through left too little room for a packet; bytes were lost or *)
(* misread; or the logic server sent the client a packet the gateway has no      *)
(* factory for.                                                                  *)
AbortsExplained ==
    pc = "aborted" /\ trouble = {} =>
        /\ ~LogicDone
        /\ \E h \in LogicHeads : h.id \notin Registered

(* A session is released only when its client has closed or could not be sent    *)
(* to: a Recv into a ring with room for one byte, which reads nothing and takes  *)
(* that for the end of the connection, never happens.                            *)
ReleasedForCause == ~client.open => net.closed \/ "blocked" \in trouble

(* The client's loop is in a packet that has not come completely.                *)
InPartialPacket ==
    /\ At("client") /\ ~ClientDone
    /\ ClientPast(HeadLen) = {}
    /\ \A h \in ClientHeads : h.len + HeadLen > ClientSize

(* Once the loop of _OnReceiveWithServer meets a packet that is not complete, it *)
(* never leaves it: what is missing is never received.                           *)
PartialPacketHangs == [][InPartialPacket => InPartialPacket']_vars

(* A head is never filled in past the end of a ring: what has not been sent stays *)
(* at the beginning of its ring, so that a head either fits before the end or     *)
(* does not fit at all.                                                           *)
HeadsInsideRing == pc # "corrupt"

=============================================================================
