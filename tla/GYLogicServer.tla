--------------------------- MODULE GYLogicServer ---------------------------
(***************************************************************************)
(* The logic server: one thread that accepts gateways                      *)
(* (NetWork/GYNetWorkManager.cpp), receives their packets                  *)
(* (NetWork/GYGatewaySession.cpp), lets humans in and out of its scene      *)
(* (GYServer.cpp, ObjectPool/GYObjectPool.h, Scene/) and ticks both.        *)
(*                                                                          *)
(* A frame is RunOnce of the reactor, one handler after the other, then the *)
(* tick of the sessions, then the tick of the scene.                        *)
(***************************************************************************)
EXTENDS GYScene, FiniteSets

CONSTANTS
    GatewaySession,     \* m_gatewaySession
    Fd,                 \* bound: the descriptors there are for gateways, numbers
    MaxReactorSize,     \* MAX_REACTOR_SIZE
    Human,              \* the objects of m_humanPool
    UserID,             \* GUIDs of humans
    Buckets,            \* the buckets of the only row of the pool's table
    BucketOf(_),
    Start,              \* where humans enter, GYPosition(100.0f, 100.0f)
    MaxTrouble,         \* bound: how many sessions are lost
    MaxHumanGateways,   \* bound: how many gateways humans come through
    Faults              \* subset of {"epoll", "emfile", "accept", "send"}

POOL == -2      \* m_pFreeObjectChain, beside the lists of the zones

(* With one row the stray byte of _HashFunction1 is masked away.               *)
Table == INSTANCE GYHashTable WITH Rows <- {0}, RowOf <- LAMBDA key, stray : 0

(* MAX_REACTOR_SIZE is one more than there are sessions; a row of the pool's    *)
(* table has 1024 buckets, and only one row means fewer than 512 humans; a      *)
(* dropped row is none that is there; humans enter inside the scene.            *)
ASSUME LogicAssumption ==
    /\ IsFiniteSet(GatewaySession) /\ IsFiniteSet(Human)
    /\ NULL \notin GatewaySession \cup Human \cup Zone
    /\ NULL \notin Fd \cup UserID \cup Buckets
    /\ NULL \notin [Buckets -> [key : UserID \cup {NULL}, value : Human \cup {NULL}]]
    /\ "listen" \notin GatewaySession
    /\ MaxReactorSize \in Nat /\ MaxReactorSize > Cardinality(GatewaySession)
    /\ MaxHumanInScene \in Nat
    /\ IsFiniteSet(Buckets) /\ Buckets # {} /\ Buckets = 0 .. Cardinality(Buckets) - 1
    /\ \A id \in UserID : BucketOf(id) \in Buckets
    /\ Cardinality(Human) <= Cardinality(Buckets)
    /\ GetZone(Start) \in Zone

VARIABLES
    link,       \* m_freeGatewaySessionList, m_workSession, tempSessionList
    session,    \* the fields of each gateway session
    reactor,    \* m_reactor, what epoll watches, and m_eventList
    open,       \* the open descriptors
    sock,       \* the sock of _OnAcceptGateway
    table,      \* m_humanPool.m_hashTable
    world,      \* m_scene, and the humans
    owner,      \* m_pSession of each human that is not in the pool
    pc,         \* where the thread is
    cur,        \* the session whose packets are handled
    trouble     \* what has happened to the sessions that no frame mends, in order

net == <<link, session, reactor, open, sock, trouble>>
humans == <<table, world, owner>>
vars == <<link, session, reactor, open, sock, table, world, owner, pc, cur, trouble>>

(* A list of sessions or humans after Init has added them, in any order. *)
Orders(items) ==
    {f \in [1 .. Cardinality(items) -> items] : \A i, j \in DOMAIN f : f[i] = f[j] => i = j}

Filled0(m, l, order) ==
    LET after[i \in 0 .. Len(order)] ==
            IF i = 0 THEN m ELSE Add(after[i - 1], l, order[i])
    IN  after[Len(order)]

Memory(items, lists) ==
    [next |-> [i \in items |-> NULL], prev |-> [i \in items |-> NULL],
     head |-> [l \in lists |-> NULL], count |-> [l \in lists |-> 0]]

(* GYGatewaySession::CleanUp: the descriptor is left alone. *)
CleanUp(s) == [s EXCEPT !.reactor = FALSE, !.manager = FALSE, !.busy = FALSE, !.output = FALSE]

Init ==
    /\ \E order \in Orders(GatewaySession) :
        link = Filled0(Memory(GatewaySession, {"free", "work", "temp"}), "free", order)
    /\ session = [s \in GatewaySession |->
                    [reactor |-> FALSE, manager |-> FALSE, busy |-> FALSE,
                     output |-> FALSE, fd |-> NULL]]
    /\ reactor = [up |-> TRUE, count |-> 1, listen |-> TRUE, watched |-> {}, ready |-> {}]
    /\ open = {}
    /\ sock = NULL
    /\ table = Table!NewTable
    /\ \E order \in Orders(Human) :
        world = [list |-> Filled0(Memory(Human, {POOL} \cup Zone), POOL, order),
                 items |-> <<>>, index |-> [h \in Human |-> INVALID_VALUE],
                 position |-> [h \in Human |-> NULL],
                 scene |-> [h \in Human |-> INVALID_VALUE]]
    /\ owner = [h \in Human |-> NULL]
    /\ pc = "poll"
    /\ cur = NULL
    /\ trouble = <<>>
-----------------------------------------------------------------------------
Goto(place) == pc' = place

(* Bound: MaxTrouble of them, and one in a frame with humans, which is the last. *)
Happens(kind) ==
    /\ Len(trouble) < IF world.items = <<>> THEN MaxTrouble ELSE 1
    /\ trouble' = Append(trouble, kind)

(* Closing a descriptor takes it out of epoll. *)
Unwatched(r, fd) == [r EXCEPT !.watched = {s \in @ : session[s].fd # fd}]

(* Mutant of DeleteEvent: the event is not counted down.                        *)
DeleteEventUncounted(r, s) == [r EXCEPT !.watched = @ \ {s}]

(* GYReactor::DeleteEvent of a session: it counts only what epoll lets go.     *)
DeleteEvent(r, s) ==
    IF session[s].busy /\ r.up /\ s \in r.watched
    THEN [r EXCEPT !.watched = @ \ {s}, !.count = @ - 1] ELSE r

(* GYReactor::Release: epoll and m_eventList are gone, and with a count of 0   *)
(* RunOnce only sleeps.                                                        *)
ReactorReleased == [up |-> FALSE, count |-> 0, listen |-> FALSE, watched |-> {}, ready |-> {}]

(* Bound: the frame of an accept error is the last one that is followed. *)
AcceptErred == \E i \in DOMAIN trouble : trouble[i] = "stale"

(* epoll_wait: any of the watched, the listening socket among them.            *)
Poll ==
    /\ pc = "poll"
    /\ ~AcceptErred
    /\ \E ready \in SUBSET (reactor.watched \cup IF reactor.listen THEN {"listen"} ELSE {}) :
        reactor' = [reactor EXCEPT !.ready = ready]
    /\ Goto("events")
    /\ UNCHANGED <<link, session, open, sock, trouble, humans, cur>>

EventsDone ==
    /\ pc = "events"
    /\ reactor.ready = {}
    /\ link' = CleanUpList(link, "temp")
    /\ Goto("tick")
    /\ UNCHANGED <<session, reactor, open, sock, trouble, humans, cur>>
-----------------------------------------------------------------------------
(* _OnAcceptGateway. *)
AcceptBegins ==
    /\ pc = "events"
    /\ "listen" \in reactor.ready
    /\ reactor' = [reactor EXCEPT !.ready = @ \ {"listen"}]
    /\ sock' = NULL
    /\ Goto("accept")
    /\ UNCHANGED <<link, session, open, trouble, humans, cur>>

(* EAGAIN, EINTR: no more gateways. *)
AcceptEnds ==
    /\ pc = "accept"
    /\ sock' = NULL
    /\ Goto("events")
    /\ UNCHANGED <<link, session, reactor, open, trouble, humans, cur>>

(* EMFILE: the listening event is taken out and put in again, to be told again. *)
AcceptEmfile ==
    /\ pc = "accept"
    /\ "emfile" \in Faults
    /\ \E ok \in {TRUE} \cup IF "epoll" \in Faults THEN {FALSE} ELSE {} :
        reactor' = IF ok \/ ~reactor.listen THEN reactor
                   ELSE [reactor EXCEPT !.listen = FALSE, !.count = @ - 1]
    /\ sock' = NULL
    /\ Goto("events")
    /\ UNCHANGED <<link, session, open, trouble, humans, cur>>

(* A session for the descriptor fd: none is free, or the one that is refuses.   *)
Refused(fd, s) ==
    /\ open' = open \ {fd}
    /\ reactor' = Unwatched(reactor, fd)
    /\ link' = IF s = NULL THEN link ELSE Add(PickUpFirstItem(link, "free"), "free", s)
    /\ sock' = NULL
    /\ UNCHANGED session

(* GYGatewaySession::Init fails in AddEvent: it closes the connection, releases *)
(* the reactor and cleans up, then sock is closed and the session is free.      *)
EventRefused(fd, s) ==
    /\ open' = open \ {fd}
    /\ reactor' = ReactorReleased
    /\ link' = Add(PickUpFirstItem(link, "free"), "free", s)
    /\ session' = [session EXCEPT ![s] = [CleanUp(@) EXCEPT !.fd = NULL]]
    /\ sock' = NULL

Accepted(fd, s) ==
    /\ reactor' = [reactor EXCEPT !.watched = @ \cup {s}, !.count = @ + 1]
    /\ link' = Add(PickUpFirstItem(link, "free"), "work", s)
    /\ session' = [session EXCEPT ![s] = [reactor |-> TRUE, manager |-> TRUE, busy |-> TRUE,
                                          output |-> FALSE, fd |-> fd]]
    /\ sock' = fd

(* Mutant of Unused: Init takes a session that still is in use.                 *)
UnusedAlways(s) == TRUE

(* Init takes no session that has a reactor or a manager. *)
Unused(s) == ~session[s].reactor /\ ~session[s].manager

CanAddEvent(fd) ==
    /\ reactor.up
    /\ reactor.count < MaxReactorSize
    /\ \A s \in reactor.watched : session[s].fd # fd

(* One turn of the loop with sock, the new connection or, after an error that  *)
(* is none of the above, the one of the turn before.                            *)
Serve(fd) ==
    LET s == FirstItem(link, "free")
    IN  \/ s = NULL /\ Refused(fd, s)
        \/ s # NULL /\ ~Unused(s) /\ Refused(fd, s)
        \/ s # NULL /\ Unused(s) /\ fd # NULL /\ CanAddEvent(fd)
            /\ Accepted(fd, s) /\ open' = open \cup {fd}
        \/ s # NULL /\ Unused(s) /\ fd # NULL
            /\ ("epoll" \in Faults \/ ~CanAddEvent(fd)) /\ EventRefused(fd, s)

(* A new connection gets the lowest descriptor that is not open. *)
Accept ==
    /\ pc = "accept"
    /\ \E fd \in Fd \ open : (\A other \in Fd \ open : fd <= other) /\ Serve(fd)
    /\ UNCHANGED <<trouble, humans, pc, cur>>

(* The descriptor of the turn before is served again: it is closed under the    *)
(* session that has it, or refused by epoll.  With no turn before, sock is not  *)
(* valid: SetBlock fails, and in the end nothing has changed.                   *)
AcceptError ==
    /\ pc = "accept"
    /\ "accept" \in Faults
    /\ sock # NULL /\ Serve(sock)
    /\ Happens("stale")
    /\ UNCHANGED <<humans, pc, cur>>
-----------------------------------------------------------------------------
(* GYGatewaySession::Release.  The session is put into the free list; nobody    *)
(* takes it out of m_workSession.                                               *)
Close(s) ==
    /\ pc = "events" /\ s \in reactor.ready
    /\ reactor' = [Unwatched(DeleteEvent(reactor, s), session[s].fd) EXCEPT !.ready = @ \ {s}]
    /\ open' = open \ {session[s].fd}
    /\ link' = Add(link, "free", s)
    /\ session' = [session EXCEPT ![s] = [CleanUp(@) EXCEPT !.fd = NULL]]
    /\ Happens("closed")
    /\ UNCHANGED <<sock, humans, pc, cur>>

(* _OnReceive with bytes to read. *)
Receive(s) ==
    /\ pc = "events" /\ s \in reactor.ready
    /\ reactor' = [reactor EXCEPT !.ready = @ \ {s}]
    /\ cur' = s
    /\ Goto("receive")
    /\ UNCHANGED <<link, session, open, sock, trouble, humans>>

ReceiveEnds ==
    /\ pc = "receive"
    /\ cur' = NULL
    /\ Goto("events")
    /\ UNCHANGED <<net, humans>>

(* The last packet is not complete: the loop goes round for ever. *)
ReceiveHangs ==
    /\ pc = "receive"
    /\ Goto("hung")
    /\ UNCHANGED <<net, humans, cur>>

(* GYObjectPool::FindObject. *)
Find(id) == Table!Find(table, id, 0)

(* A human goes back to the pool; its position is not read before it has a new one. *)
Pooled(w, h) == [w EXCEPT !.list = Add(@, POOL, h), !.position = [@ EXCEPT ![h] = NULL]]

(* Mutant of Inside: a human that is there already is not noticed.             *)
InsideNever(id) == FALSE

Inside(id) == Find(id) # NULL

(* Bound: humans enter only while few gateways are connected and none was lost. *)
(* No handler reads anything of the sessions for them but cur.                  *)
HumansEnter == trouble = <<>> /\ Cardinality(open) <= MaxHumanGateways

(* AddHumanToScene.  The second SetPosition of AddCreature finds it unchanged. *)
Login(id) ==
    LET h == FirstItem(world.list, POOL)
        taken == [world EXCEPT !.list = PickUpFirstItem(@, POOL)]
        placed == SetPosition(taken, h, Start)
    IN  /\ pc = "receive" /\ HumansEnter
        /\ IF Inside(id) \/ h = NULL THEN UNCHANGED humans
           ELSE IF CanAddCreature(placed, Start)
           THEN /\ table' = Table!Insert(table, id, h, 0)
                /\ world' = AddCreature(placed, h, Start)
                /\ owner' = [owner EXCEPT ![h] = cur]
           ELSE /\ world' = Pooled(placed, h)
                /\ UNCHANGED <<table, owner>>
        /\ UNCHANGED <<net, pc, cur>>

(* Mutant of Freed: a human is freed when its removal says that it worked.      *)
FreedIfRemoved(result) == result = 0

Freed(result) == result # 0

(* RemoveHumanFromScene: of whoever has the id, through whatever session.       *)
Logout(id) ==
    LET h == Find(id)
        removed == RemoveCreature(world, h)
    IN  /\ pc = "receive"
        /\ IF h = NULL THEN UNCHANGED humans
           ELSE IF Freed(removed.result)
           THEN /\ world' = Pooled(removed.world, h)
                /\ table' = Table!Remove(table, id, 0)
                /\ owner' = [owner EXCEPT ![h] = NULL]
           ELSE world' = removed.world /\ UNCHANGED <<table, owner>>
        /\ UNCHANGED <<net, pc, cur>>

(* Test: the answer is written into the session's ring.                         *)
Test ==
    /\ pc = "receive"
    /\ session' = [session EXCEPT ![cur].output = TRUE]
    /\ UNCHANGED <<link, reactor, open, sock, trouble, humans, pc, cur>>

(* SCTest, and ids that are none, fail an assertion. *)
Unregistered ==
    /\ pc = "receive"
    /\ Goto("aborted")
    /\ UNCHANGED <<net, humans, cur>>
-----------------------------------------------------------------------------
(* Mutant of TickDone: the temporary list is not assigned back.                 *)
TickDoneForgets ==
    /\ pc = "tick" /\ FirstItem(link, "work") = NULL
    /\ Goto("scene")
    /\ UNCHANGED <<net, humans, cur>>

(* The loop of GYNetWorkManager::RunOnce over m_workSession. *)
TickDone ==
    /\ pc = "tick" /\ FirstItem(link, "work") = NULL
    /\ link' = Assign(link, "work", "temp")
    /\ Goto("scene")
    /\ UNCHANGED <<session, reactor, open, sock, trouble, humans, cur>>

TickOk ==
    LET s == FirstItem(link, "work")
    IN  /\ pc = "tick" /\ s # NULL
        /\ link' = Add(PickUpFirstItem(link, "work"), "temp", s)
        /\ session' = [session EXCEPT ![s].output = FALSE]
        /\ UNCHANGED <<reactor, open, sock, trouble, humans, pc, cur>>

(* Send fails: the session stays open and watched and is in no list any more.   *)
TickFails ==
    LET s == FirstItem(link, "work")
    IN  /\ pc = "tick" /\ s # NULL
        /\ "send" \in Faults /\ session[s].output
        /\ link' = PickUpFirstItem(link, "work")
        /\ Happens("unsent")
        /\ UNCHANGED <<session, reactor, open, sock, humans, pc, cur>>

(* Mutant of SceneTick: the inner loop counts t.                                *)
SceneTickEach ==
    /\ pc = "scene"
    /\ Goto("poll")
    /\ UNCHANGED <<net, humans, cur>>

(* GYScene::Tick. *)
SceneTick ==
    /\ pc = "scene"
    /\ Goto(IF TickAsserts(world) THEN "aborted" ELSE "poll")
    /\ UNCHANGED <<net, humans, cur>>
-----------------------------------------------------------------------------
Next ==
    \/ Poll \/ EventsDone \/ AcceptBegins \/ AcceptEnds \/ AcceptEmfile \/ Accept \/ AcceptError
    \/ \E s \in GatewaySession : Close(s) \/ Receive(s)
    \/ ReceiveEnds \/ ReceiveHangs \/ Test \/ Unregistered
    \/ \E id \in UserID : Login(id) \/ Logout(id)
    \/ TickOk \/ TickFails \/ TickDone \/ SceneTick

Spec == Init /\ [][Next]_vars
-----------------------------------------------------------------------------
(* No link, index, descriptor or count is outside what exists.                  *)
TypeOK ==
    /\ link.head \in [{"free", "work", "temp"} -> GatewaySession \cup {NULL}]
    /\ link.count \in [{"free", "work", "temp"} -> Int]
    /\ link.next \in [GatewaySession -> GatewaySession \cup {NULL}]
    /\ \A s \in GatewaySession : session[s].fd \in Fd \cup {NULL}
    /\ reactor.watched \cup reactor.ready \subseteq GatewaySession \cup {"listen"}
    /\ reactor.count \in 0 .. MaxReactorSize
    /\ open \subseteq Fd /\ sock \in Fd \cup {NULL}
    /\ table \in Table!Tables(UserID, Human)
    /\ world.items \in Seq(Human) /\ Len(world.items) <= MaxHumanInScene
    /\ world.index \in [Human -> INVALID_VALUE .. MaxHumanInScene - 1]
    /\ owner \in [Human -> GatewaySession \cup {NULL}]
    /\ pc \in {"poll", "events", "accept", "receive", "tick", "scene", "aborted", "hung"}
    /\ cur \in GatewaySession \cup {NULL}

(* The humans that can be found by their id, those in the scene's array, at     *)
(* the index they know, and those linked in the zone they entered are the same, *)
(* one for each id; all others are in the pool (GYObjectPool, GYScene,          *)
(* GYPointArray, GYZone).                                                       *)
HumansConsistent ==
    LET entries == Table!Entries(table)
        inside == {e[2] : e \in entries}
        zone == GetZone(Start)
    IN  /\ \A e, f \in entries : (e[1] = f[1] \/ e[2] = f[2]) => e = f
        /\ {world.items[i] : i \in 1 .. Len(world.items)} = inside
        /\ \A i \in 1 .. Len(world.items) : world.index[world.items[i]] = i - 1
        /\ Items(world.list, zone) = inside
        /\ Items(world.list, POOL) = Human \ inside
        /\ \A l \in {POOL} \cup Zone : WellFormed(world.list, l)

(* The human with an id, and the session it came through. *)
Known(id) == IF Find(id) = NULL THEN NULL ELSE <<Find(id), owner[Find(id)]>>

(* The first login of an id counts: later ones of the same id, through whatever *)
(* gateway, change nothing, and neither does anything else before its Logout    *)
(* (AddHumanToScene, RemoveHumanFromScene).                                     *)
FirstLoginCounts ==
    [][\A id \in UserID : Known(id) # NULL =>
        \/ Known(id)' = Known(id)
        \/ Known(id)' = NULL /\ Logout(id)]_vars

(* Two connected sessions never share a descriptor, however much the lists they *)
(* are taken from are damaged: Init's checks of m_reactor and m_networkManger   *)
(* keep a session that is in use from being used again, and no descriptor is     *)
(* closed under a session or left open without one.  An accept error ends that.  *)
ConnectionsOwnedOnce ==
    ~AcceptErred =>
    /\ \A s, t \in GatewaySession :
        session[s].reactor /\ session[t].reactor /\ session[s].fd = session[t].fd => s = t
    /\ reactor.up => {session[s].fd : s \in reactor.watched} = open
    /\ reactor.up => \A s \in GatewaySession : session[s].reactor <=> s \in reactor.watched

(* The reactor, made for one event more than there are sessions, always has     *)
(* room for the session that is being accepted: Init releases the reactor under *)
(* all others only when epoll itself refuses.                                    *)
ReactorHasRoom ==
    reactor.up /\ ~AcceptErred =>
        reactor.count = Cardinality(reactor.watched) + IF reactor.listen THEN 1 ELSE 0

(* Until the first gateway closes or cannot be sent to, the work list has       *)
(* exactly the connected sessions and the free list all others, and a frame     *)
(* leaves no answer behind in a session (RunOnce).                              *)
FramesServeAll ==
    pc = "poll" /\ trouble = <<>> =>
        /\ WellFormed(link, "free") /\ WellFormed(link, "work")
        /\ Items(link, "work") = {s \in GatewaySession : session[s].reactor}
        /\ Items(link, "free") = GatewaySession \ Items(link, "work")
        /\ \A s \in GatewaySession : ~session[s].output

(* No frame ends with a human in the scene: the tick of the scene stops the     *)
(* server instead, whether or not the human would have left later               *)
(* (GYScene::Tick, GYPointArray::operator[]).                                   *)
SceneEmptyBetweenFrames == pc = "poll" => Table!Entries(table) = {}
=============================================================================
