------------------------------ MODULE GYGateway ------------------------------
(***************************************************************************)
(* The gateway server: the main thread accepts clients and hands each of   *)
(* them to one of the gateway threads, in turn; a gateway thread serves its *)
(* clients from its own reactor, keeps one connection to the logic server,  *)
(* and gives closed sessions back.  Sessions live in one array and wander   *)
(* between the lists of the main thread (free) and of the threads (add,     *)
(* work, closed, and temp, the local list of the tick loop).                *)
(*                                                                          *)
(* A step is what a thread does between two places where another thread can *)
(* interfere: a lock, a system call, the next event, the next session of a  *)
(* loop.  Sources: Gateway/GYServer.cpp, Gateway/GatewayThread/*.cpp, and   *)
(* NetWork/GYReactor.cpp and GYEpoll.cpp for AddEvent and DeleteEvent.      *)
(***************************************************************************)
EXTENDS GYList, FiniteSets

CONSTANTS
    SessionCount,   \* GatewayClientSessionCount
    ThreadCount,    \* GatewayThreadCount
    Cap,            \* CLIENT_FOR_PER_THREAD: the events a reactor takes
    FdCount,        \* the file descriptors client connections can have
    Guid,           \* the GUIDs clients log in with
    Rows, Buckets, RowOf(_, _), BucketOf(_),    \* the hash table, see GYHashTable
    Stray,          \* the bytes that can lie behind a key on the stack
    Acceptor,       \* the main thread
    LOGIC,          \* m_event4Logic, the event of the logic connection
    Faults          \* which of FaultKinds can happen

Session == 1 .. SessionCount
Thread == 0 .. ThreadCount - 1
FD == 1 .. FdCount

(* logicDown: the logic server closes a connection; tickFail: Send fails in  *)
(* Tick; acceptError: accept fails with an errno _OnAcceptClient does not    *)
(* expect; relogin: a client sends Login twice; sharedGuid: two clients of a *)
(* thread send the same GUID.                                                *)
FaultKinds == {"logicDown", "tickFail", "acceptError", "relogin", "sharedGuid"}

ASSUME GatewayAssumption ==
    /\ SessionCount \in Nat \ {0}
    /\ ThreadCount \in Nat \ {0}
    /\ Cap \in Nat \ {0}
    /\ FdCount \in Nat \ {0}
    /\ Stray # {}
    /\ Faults \subseteq FaultKinds
    /\ NULL \notin Session \cup FD \cup Thread \cup Guid \cup {Acceptor, LOGIC}
    /\ Acceptor \notin Thread
    /\ LOGIC \notin Session

(* A row of the table that has been dropped is none that is there. *)
ASSUME TableAssumption ==
    NULL \notin Buckets \cup [Buckets -> [key   : Guid \cup {NULL},
                                         value : Session \cup {NULL}]]

INSTANCE GYHashTable

VARIABLES
    mem,        \* the links of the sessions and the heads and counts of the lists
    session,    \* the fields of each GYClientSession
    openFds,    \* the open client connections
    epoll,      \* per thread: the <<fd, session>> its epoll instance watches
    eventCount, \* per thread: m_currentEventCount of its reactor
    hash,       \* per thread: m_workSessionHash
    loggedIn,   \* per thread: GUIDs whose last packet to logic was a Login
    th,         \* per thread: where it is, and its locals and fields
    acc,        \* the main thread: where it is, and the locals of _OnAcceptClient
    closeMutex, \* who holds m_sessionCloseMutex, or NULL
    addMutex,   \* per thread: who holds its m_addSessionMutex, or NULL
    aborted     \* a GYAssert failed, or a NULL or out-of-range handler was called

net == <<openFds, epoll, eventCount>>
data == <<hash, loggedIn>>
locks == <<closeMutex, addMutex>>
vars == <<mem, session, net, data, th, acc, locks, aborted>>

Free == <<"free", NULL>>
AddList(t) == <<"add", t>>
Work(t) == <<"work", t>>
Closed(t) == <<"closed", t>>
Temp(t) == <<"temp", t>>
ThreadLists(t) == {AddList(t), Work(t), Closed(t), Temp(t)}
Lists == {Free} \cup UNION {ThreadLists(t) : t \in Thread}

(* A session after CleanUp with its connection closed.  m_server, m_status:  *)
(* server # NULL exactly when the status is WITH_SERVER (the NO_SERVER       *)
(* status is never set).  handler: m_clientNetEvnet has its read handler.    *)
Blank == [fd |-> NULL, reactor |-> NULL, server |-> NULL, handler |-> FALSE,
          guid |-> NULL]

Init ==
    /\ mem = [next  |-> [s \in Session |-> IF s = 1 THEN NULL ELSE s - 1],
              prev  |-> [s \in Session |-> IF s = SessionCount THEN NULL ELSE s + 1],
              head  |-> [l \in Lists |-> IF l = Free THEN SessionCount ELSE NULL],
              count |-> [l \in Lists |-> IF l = Free THEN SessionCount ELSE 0]]
    /\ session = [s \in Session |-> Blank]
    /\ openFds = {}
    /\ epoll = [t \in Thread |-> {}]
    /\ eventCount = [t \in Thread |-> 0]
    /\ hash = [t \in Thread |-> NewTable]
    /\ loggedIn = [t \in Thread |-> {}]
    /\ th = [t \in Thread |-> [pc |-> "run", ret |-> "run", cur |-> NULL,
                               status |-> "CONNECTING", logic |-> "open",
                               pending |-> {}]]
    /\ acc = [pc |-> "accept", cur |-> NULL, sock |-> NULL, robin |-> 0]
    /\ closeMutex = NULL
    /\ addMutex = [t \in Thread |-> NULL]
    /\ aborted = FALSE
-----------------------------------------------------------------------------
(* Thread t goes on at pc. *)
Goto(t, pc) == th' = [th EXCEPT ![t].pc = pc]

(* close(fd): the kernel drops the registrations of the descriptor. *)
Unwatch(ep, fd) == [t \in Thread |-> {w \in ep[t] : w[1] # fd}]

(* epoll_ctl(DEL) goes by the descriptor, and fails when it is not watched. *)
Watched(t, fd) == \E w \in epoll[t] : w[1] = fd

(* Mutant of Counted: Close comes before DeleteEvent, as it does in          *)
(* _StopCurrentService, and epoll_ctl fails.                                 *)
CountedNever(s) == FALSE

(* DeleteEvent of session s succeeds. *)
Counted(s) ==
    session[s].reactor # NULL /\ Watched(session[s].reactor, session[s].fd)

(* Mutant of MoveToClosed: Delete from the work list is left out. *)
MoveToClosedKeeps(m, t, s) == Add(m, Closed(t), s)

(* GYGatewayThread::OnClientSessionClose: the session leaves the work list  *)
(* (or whatever it is linked in) for the closed list.                       *)
MoveToClosed(m, t, s) == Add(Delete(m, Work(t), s), Closed(t), s)

Forget(t, s, stray) ==
    IF session[s].guid = NULL THEN hash
    ELSE [hash EXCEPT ![t] = Remove(@, session[s].guid, stray)]

(* GYClientSession::Release(s) in the list memory m: DeleteEvent, Close,     *)
(* OnClientSessionClose, CleanUp.  Not being WITH_SERVER fails an assertion. *)
Release(m, s) ==
    LET t == session[s].server
        r == session[s].reactor
    IN  /\ eventCount' = IF Counted(s) THEN [eventCount EXCEPT ![r] = @ - 1]
                                      ELSE eventCount
        /\ openFds' = openFds \ {session[s].fd}
        /\ epoll' = Unwatch(epoll, session[s].fd)
        /\ session' = [session EXCEPT ![s] = Blank]
        /\ mem' = IF t = NULL THEN m ELSE MoveToClosed(m, t, s)
        /\ \E stray \in Stray :
            hash' = IF t = NULL THEN hash ELSE Forget(t, s, stray)
        /\ aborted' = (t = NULL)
-----------------------------------------------------------------------------
(* The main thread: GYServer::_OnAcceptClient.                              *)

(* accept returns the lowest descriptor that is free. *)
AcceptOk ==
    /\ acc.pc = "accept"
    /\ \E fd \in FD \ openFds :
        /\ \A lower \in FD \ openFds : fd <= lower
        /\ openFds' = openFds \cup {fd}
        /\ acc' = [acc EXCEPT !.pc = "lockFree", !.sock = fd]
    /\ UNCHANGED <<mem, session, epoll, eventCount, data, th, locks, aborted>>

(* Nothing to accept, or EMFILE: leave the loop, and its sock, until the     *)
(* listening socket is readable again.                                       *)
AcceptBreak ==
    /\ acc.pc = "accept"
    /\ acc' = [acc EXCEPT !.sock = NULL]
    /\ UNCHANGED <<mem, session, net, data, th, locks, aborted>>

(* Any other errno: the code goes on with the sock of the turn before. *)
AcceptError ==
    /\ "acceptError" \in Faults
    /\ acc.pc = "accept"
    /\ acc' = [acc EXCEPT !.pc = "lockFree"]
    /\ UNCHANGED <<mem, session, net, data, th, locks, aborted>>

AcceptorLockFree ==
    /\ acc.pc = "lockFree"
    /\ closeMutex = NULL
    /\ closeMutex' = Acceptor
    /\ acc' = [acc EXCEPT !.pc = "pick"]
    /\ UNCHANGED <<mem, session, net, data, th, addMutex, aborted>>

(* Mutant of TurnAway: the client's connection is left open. *)
TurnAwayLeaks ==
    /\ acc.pc = "pick"
    /\ FirstItem(mem, Free) = NULL
    /\ closeMutex' = NULL
    /\ acc' = [acc EXCEPT !.pc = "accept", !.sock = NULL]
    /\ UNCHANGED <<mem, session, net, data, th, addMutex, aborted>>

(* Every session is in use: the client is turned away. *)
TurnAway ==
    /\ acc.pc = "pick"
    /\ FirstItem(mem, Free) = NULL
    /\ openFds' = openFds \ {acc.sock}
    /\ epoll' = Unwatch(epoll, acc.sock)
    /\ closeMutex' = NULL
    /\ acc' = [acc EXCEPT !.pc = "accept", !.sock = NULL]
    /\ UNCHANGED <<mem, session, eventCount, data, th, addMutex, aborted>>

(* Mutant of PickSession: the lock is kept while the session is set up. *)
PickSessionKeepsLock ==
    /\ acc.pc = "pick"
    /\ FirstItem(mem, Free) # NULL
    /\ mem' = PickUpFirstItem(mem, Free)
    /\ acc' = [acc EXCEPT !.pc = "init", !.cur = FirstItem(mem, Free)]
    /\ UNCHANGED <<session, net, data, th, locks, aborted>>

PickSession ==
    /\ acc.pc = "pick"
    /\ FirstItem(mem, Free) # NULL
    /\ mem' = PickUpFirstItem(mem, Free)
    /\ closeMutex' = NULL
    /\ acc' = [acc EXCEPT !.pc = "init", !.cur = FirstItem(mem, Free)]
    /\ UNCHANGED <<session, net, data, th, addMutex, aborted>>

(* GYClientSession::Init succeeds on an open descriptor. *)
InitSession ==
    /\ acc.pc = "init"
    /\ acc.sock \in openFds
    /\ session' = [session EXCEPT ![acc.cur] = [Blank EXCEPT !.fd = acc.sock]]
    /\ acc' = [acc EXCEPT !.pc = "lockAdd"]
    /\ UNCHANGED <<mem, net, data, th, locks, aborted>>

(* SetBlock fails on a closed one; then the session goes back without the    *)
(* lock, so that the links and the head are written at different moments.    *)
InitFails ==
    /\ acc.pc = "init"
    /\ acc.sock \notin openFds
    /\ session' = [session EXCEPT ![acc.cur] = Blank]
    /\ mem' = Link(mem, Free, acc.cur)
    /\ acc' = [acc EXCEPT !.pc = "giveBack", !.sock = NULL]
    /\ UNCHANGED <<net, data, th, locks, aborted>>

GiveBack ==
    /\ acc.pc = "giveBack"
    /\ mem' = Publish(mem, Free, acc.cur)
    /\ acc' = [acc EXCEPT !.pc = "accept", !.cur = NULL]
    /\ UNCHANGED <<session, net, data, th, locks, aborted>>

(* m_gateThread[count++].AddWorkingSession *)
AcceptorLockAdd ==
    /\ acc.pc = "lockAdd"
    /\ addMutex[acc.robin] = NULL
    /\ addMutex' = [addMutex EXCEPT ![acc.robin] = Acceptor]
    /\ acc' = [acc EXCEPT !.pc = "handOver"]
    /\ UNCHANGED <<mem, session, net, data, th, closeMutex, aborted>>

(* Mutant of HandOver: > for >= before count is set back. *)
HandOverPastLast ==
    /\ acc.pc = "handOver"
    /\ mem' = Add(mem, AddList(acc.robin), acc.cur)
    /\ addMutex' = [addMutex EXCEPT ![acc.robin] = NULL]
    /\ acc' = [acc EXCEPT !.pc = "accept", !.cur = NULL,
                          !.robin = (@ + 1) % (ThreadCount + 1)]
    /\ UNCHANGED <<session, net, data, th, closeMutex, aborted>>

(* Mutant of HandOver: count is advanced first, and the lock of the next     *)
(* thread is the one released.                                               *)
HandOverUnlocksNext ==
    /\ acc.pc = "handOver"
    /\ mem' = Add(mem, AddList(acc.robin), acc.cur)
    /\ addMutex' = [addMutex EXCEPT ![(acc.robin + 1) % ThreadCount] = NULL]
    /\ acc' = [acc EXCEPT !.pc = "accept", !.cur = NULL,
                          !.robin = (@ + 1) % ThreadCount]
    /\ UNCHANGED <<session, net, data, th, closeMutex, aborted>>

HandOver ==
    /\ acc.pc = "handOver"
    /\ mem' = Add(mem, AddList(acc.robin), acc.cur)
    /\ addMutex' = [addMutex EXCEPT ![acc.robin] = NULL]
    /\ acc' = [acc EXCEPT !.pc = "accept", !.cur = NULL,
                          !.robin = (@ + 1) % ThreadCount]
    /\ UNCHANGED <<session, net, data, th, closeMutex, aborted>>

AcceptorStep ==
    \/ AcceptOk \/ AcceptBreak \/ AcceptError \/ AcceptorLockFree
    \/ TurnAway \/ PickSession \/ InitSession \/ InitFails \/ GiveBack
    \/ AcceptorLockAdd \/ HandOver
-----------------------------------------------------------------------------
(* A gateway thread: GYGatewayThread::Run and what it calls.                *)

(* _ConnectLogicServer: no connection yet. *)
ConnectFails(t) ==
    /\ th[t].pc = "run"
    /\ th[t].status = "CONNECTING"
    /\ Goto(t, "tick")
    /\ UNCHANGED <<mem, session, net, data, acc, locks, aborted>>

(* Mutant of ConnectOk: the event is not counted when it is added. *)
ConnectUncounted(t) ==
    /\ th[t].pc = "run"
    /\ th[t].status = "CONNECTING"
    /\ th[t].logic = "open"
    /\ eventCount[t] < Cap
    /\ th' = [th EXCEPT ![t].pc = "tick", ![t].status = "SERVERING",
                        ![t].logic = "connected"]
    /\ UNCHANGED <<mem, session, net, data, acc, locks, aborted>>

(* Connected, and the reactor takes the connection's event. *)
ConnectOk(t) ==
    /\ th[t].pc = "run"
    /\ th[t].status = "CONNECTING"
    /\ th[t].logic = "open"
    /\ eventCount[t] < Cap
    /\ eventCount' = [eventCount EXCEPT ![t] = @ + 1]
    /\ th' = [th EXCEPT ![t].pc = "tick", ![t].status = "SERVERING",
                        ![t].logic = "connected"]
    /\ UNCHANGED <<mem, session, openFds, epoll, data, acc, locks, aborted>>

(* AddEvent refuses: the socket is closed, and Open is not called again. *)
ConnectRefused(t) ==
    /\ th[t].pc = "run"
    /\ th[t].status = "CONNECTING"
    /\ th[t].logic = "open"
    /\ eventCount[t] >= Cap
    /\ th' = [th EXCEPT ![t].pc = "tick", ![t].logic = "closed"]
    /\ UNCHANGED <<mem, session, net, data, acc, locks, aborted>>

(* _ServeringClientSession: first the sessions closed in the last frame.    *)
DrainClosed(t) ==
    /\ th[t].pc = "run"
    /\ th[t].status = "SERVERING"
    /\ FirstItem(mem, Closed(t)) # NULL
    /\ mem' = PickUpFirstItem(mem, Closed(t))
    /\ th' = [th EXCEPT ![t].pc = "lockFree", ![t].ret = "run",
                        ![t].cur = FirstItem(mem, Closed(t))]
    /\ UNCHANGED <<session, net, data, acc, locks, aborted>>

(* GYServer::OnClientSessionClose *)
LockFree(t) ==
    /\ th[t].pc = "lockFree"
    /\ closeMutex = NULL
    /\ closeMutex' = t
    /\ Goto(t, "free")
    /\ UNCHANGED <<mem, session, net, data, acc, addMutex, aborted>>

ReturnSession(t) ==
    /\ th[t].pc = "free"
    /\ mem' = Add(mem, Free, th[t].cur)
    /\ closeMutex' = NULL
    /\ th' = [th EXCEPT ![t].pc = th[t].ret, ![t].cur = NULL]
    /\ UNCHANGED <<session, net, data, acc, addMutex, aborted>>

(* Mutant of LockAdd: the closed sessions can wait for the next frame. *)
LockAddFirst(t) ==
    /\ th[t].pc = "run"
    /\ th[t].status = "SERVERING"
    /\ addMutex[t] = NULL
    /\ addMutex' = [addMutex EXCEPT ![t] = t]
    /\ Goto(t, "adopt")
    /\ UNCHANGED <<mem, session, net, data, acc, closeMutex, aborted>>

(* Then the sessions the main thread has handed over, under their lock.     *)
LockAdd(t) ==
    /\ th[t].pc = "run"
    /\ th[t].status = "SERVERING"
    /\ FirstItem(mem, Closed(t)) = NULL
    /\ addMutex[t] = NULL
    /\ addMutex' = [addMutex EXCEPT ![t] = t]
    /\ Goto(t, "adopt")
    /\ UNCHANGED <<mem, session, net, data, acc, closeMutex, aborted>>

(* Mutant of CanRegister: > for >= in AddEvent. *)
CanRegisterOneMore(t, s) ==
    /\ eventCount[t] <= Cap
    /\ session[s].fd \in openFds
    /\ ~Watched(t, session[s].fd)

(* AddEvent takes the event of a session: there is room, and the descriptor *)
(* is open and not watched yet.                                             *)
CanRegister(t, s) ==
    /\ eventCount[t] < Cap
    /\ session[s].fd \in openFds
    /\ ~Watched(t, session[s].fd)

(* Mutant of Adopt: if for while, one session in a frame. *)
AdoptOne(t) ==
    LET s == FirstItem(mem, AddList(t))
    IN  /\ th[t].pc = "adopt"
        /\ s # NULL
        /\ CanRegister(t, s)
        /\ epoll' = [epoll EXCEPT ![t] = @ \cup {<<session[s].fd, s>>}]
        /\ eventCount' = [eventCount EXCEPT ![t] = @ + 1]
        /\ session' = [session EXCEPT ![s].reactor = t, ![s].server = t,
                                      ![s].handler = TRUE]
        /\ mem' = Add(PickUpFirstItem(mem, AddList(t)), Work(t), s)
        /\ addMutex' = [addMutex EXCEPT ![t] = NULL]
        /\ Goto(t, "poll")
        /\ UNCHANGED <<openFds, data, acc, closeMutex, aborted>>

Adopt(t) ==
    LET s == FirstItem(mem, AddList(t))
    IN  /\ th[t].pc = "adopt"
        /\ s # NULL
        /\ CanRegister(t, s)
        /\ epoll' = [epoll EXCEPT ![t] = @ \cup {<<session[s].fd, s>>}]
        /\ eventCount' = [eventCount EXCEPT ![t] = @ + 1]
        /\ session' = [session EXCEPT ![s].reactor = t, ![s].server = t,
                                      ![s].handler = TRUE]
        /\ mem' = Add(PickUpFirstItem(mem, AddList(t)), Work(t), s)
        /\ UNCHANGED <<openFds, data, th, acc, locks, aborted>>

(* Mutant of AdoptFails: the session is dropped, not given back. *)
AdoptFailsDrops(t) ==
    LET s == FirstItem(mem, AddList(t))
    IN  /\ th[t].pc = "adopt"
        /\ s # NULL
        /\ ~CanRegister(t, s)
        /\ openFds' = openFds \ {session[s].fd}
        /\ epoll' = Unwatch(epoll, session[s].fd)
        /\ session' = [session EXCEPT ![s].fd = NULL, ![s].handler = TRUE]
        /\ mem' = PickUpFirstItem(mem, AddList(t))
        /\ UNCHANGED <<eventCount, data, th, acc, locks, aborted>>

(* Regeist2Reactor fails: the connection is closed and the session given    *)
(* back at once, while m_addSessionMutex is held.                           *)
AdoptFails(t) ==
    LET s == FirstItem(mem, AddList(t))
        fd == session[s].fd
    IN  /\ th[t].pc = "adopt"
        /\ s # NULL
        /\ ~CanRegister(t, s)
        /\ openFds' = openFds \ {fd}
        /\ epoll' = Unwatch(epoll, fd)
        /\ session' = [session EXCEPT ![s].fd = NULL, ![s].handler = TRUE]
        /\ mem' = PickUpFirstItem(mem, AddList(t))
        /\ th' = [th EXCEPT ![t].pc = "lockFree", ![t].ret = "adopt", ![t].cur = s]
        /\ UNCHANGED <<eventCount, data, acc, locks, aborted>>

(* Mutant of UnlockAdd: a return that leaves the lock behind. *)
UnlockAddForgotten(t) ==
    /\ th[t].pc = "adopt"
    /\ FirstItem(mem, AddList(t)) = NULL
    /\ Goto(t, "poll")
    /\ UNCHANGED <<mem, session, net, data, acc, locks, aborted>>

UnlockAdd(t) ==
    /\ th[t].pc = "adopt"
    /\ FirstItem(mem, AddList(t)) = NULL
    /\ addMutex' = [addMutex EXCEPT ![t] = NULL]
    /\ Goto(t, "poll")
    /\ UNCHANGED <<mem, session, net, data, acc, closeMutex, aborted>>

(* GYReactor::RunOnce: any of the watched events can be ready, and they are *)
(* handled in an order the thread does not control.                         *)
Poll(t) ==
    /\ th[t].pc = "poll"
    /\ \E ready \in SUBSET ({w[2] : w \in epoll[t]} \cup {LOGIC}) :
        th' = [th EXCEPT ![t].pc = "events", ![t].pending = ready]
    /\ UNCHANGED <<mem, session, net, data, acc, locks, aborted>>

EventsDone(t) ==
    /\ th[t].pc = "events"
    /\ th[t].pending = {}
    /\ Goto(t, "tick")
    /\ UNCHANGED <<mem, session, net, data, acc, locks, aborted>>

(* Event e leaves m_eventList to be handled. *)
Handling(t, e) ==
    /\ th[t].pc = "events"
    /\ e \in th[t].pending

Handled(t, e) == th' = [th EXCEPT ![t].pending = @ \ {e}]

(* The event of a session that was released in this round has no handler   *)
(* any more; or its data is only passed on, or there is none.               *)
ClientIdle(t, s) ==
    /\ Handling(t, s)
    /\ session[s].handler => session[s].server # NULL
    /\ Handled(t, s)
    /\ UNCHANGED <<mem, session, net, data, acc, locks, aborted>>

(* HandleClientData uses m_status as an index, also when it is INVALID. *)
ClientInvalid(t, s) ==
    /\ Handling(t, s)
    /\ session[s].handler
    /\ session[s].server = NULL
    /\ aborted' = TRUE
    /\ Handled(t, s)
    /\ UNCHANGED <<mem, session, net, data, acc, locks>>

(* GYLoginPacketHandler: SetGUID, which enters the session in the hash      *)
(* table, and the Login goes on to the logic server.                        *)
Login(t, s, g) ==
    LET o == session[s].server
    IN  /\ Handling(t, s)
        /\ session[s].handler
        /\ o # NULL
        /\ session[s].guid # NULL => "relogin" \in Faults
        /\ (\E x \in Session \ {s} : session[x].guid = g) => "sharedGuid" \in Faults
        /\ session' = [session EXCEPT ![s].guid = g]
        /\ \E stray \in Stray : hash' = [hash EXCEPT ![o] = Insert(@, g, s, stray)]
        /\ loggedIn' = [loggedIn EXCEPT ![o] = @ \cup {g}]
        /\ Handled(t, s)
        /\ UNCHANGED <<mem, net, acc, locks, aborted>>

(* Mutant of ClientClosed: Release first, and then there is nobody left to  *)
(* send the Logout for.                                                      *)
ClientClosedNoLogout(t, s) ==
    /\ Handling(t, s)
    /\ session[s].handler
    /\ session[s].server # NULL
    /\ Release(mem, s)
    /\ Handled(t, s)
    /\ UNCHANGED <<loggedIn, acc, locks>>

(* Recv finds the connection closed: _ConnectionClose sends the Logout, then *)
(* Release.                                                                  *)
ClientClosed(t, s) ==
    LET o == session[s].server
    IN  /\ Handling(t, s)
        /\ session[s].handler
        /\ o # NULL
        /\ loggedIn' = [loggedIn EXCEPT ![o] = @ \ {session[s].guid}]
        /\ Release(mem, s)
        /\ Handled(t, s)
        /\ UNCHANGED <<acc, locks>>

(* ProcessLogicServerData with a packet for the client g: the session the   *)
(* hash table has for it is asserted to be that client's.                   *)
LogicData(t, g) ==
    /\ Handling(t, LOGIC)
    /\ \E stray \in Stray :
        LET s == Find(hash[t], g, stray)
        IN  aborted' = (s # NULL /\ session[s].guid # g)
    /\ Handled(t, LOGIC)
    /\ UNCHANGED <<mem, session, net, data, acc, locks>>

(* Nothing to read, or nothing complete. *)
LogicIdle(t) ==
    /\ Handling(t, LOGIC)
    /\ Handled(t, LOGIC)
    /\ UNCHANGED <<mem, session, net, data, acc, locks, aborted>>

(* _StopCurrentService: Close, DeleteEvent (which fails, the descriptor is   *)
(* gone, so the count of events stays) and Open.                             *)
LogicClosed(t) ==
    /\ "logicDown" \in Faults
    /\ Handling(t, LOGIC)
    /\ th' = [th EXCEPT ![t].pc = "stop", ![t].logic = "open",
                        ![t].pending = @ \ {LOGIC}]
    /\ loggedIn' = [loggedIn EXCEPT ![t] = {}]
    /\ UNCHANGED <<mem, session, net, hash, acc, locks, aborted>>

(* Every session being served is taken off the list and released. *)
StopSession(t) ==
    /\ th[t].pc = "stop"
    /\ FirstItem(mem, Work(t)) # NULL
    /\ Release(PickUpFirstItem(mem, Work(t)), FirstItem(mem, Work(t)))
    /\ UNCHANGED <<loggedIn, th, acc, locks>>

(* Then the closed ones go back to the main thread. *)
StopReturn(t) ==
    /\ th[t].pc = "stop"
    /\ FirstItem(mem, Work(t)) = NULL
    /\ FirstItem(mem, Closed(t)) # NULL
    /\ mem' = PickUpFirstItem(mem, Closed(t))
    /\ th' = [th EXCEPT ![t].pc = "lockFree", ![t].ret = "stop",
                        ![t].cur = FirstItem(mem, Closed(t))]
    /\ UNCHANGED <<session, net, data, acc, locks, aborted>>

StopDone(t) ==
    /\ th[t].pc = "stop"
    /\ FirstItem(mem, Work(t)) = NULL
    /\ FirstItem(mem, Closed(t)) = NULL
    /\ hash' = [hash EXCEPT ![t] = CleanedUp]
    /\ th' = [th EXCEPT ![t].pc = "events", ![t].status = "CONNECTING"]
    /\ UNCHANGED <<mem, session, net, loggedIn, acc, locks, aborted>>

(* The tick loop of Run: Send succeeds, the session moves to the new list.  *)
TickOk(t) ==
    /\ th[t].pc = "tick"
    /\ FirstItem(mem, Work(t)) # NULL
    /\ mem' = Add(PickUpFirstItem(mem, Work(t)), Temp(t), FirstItem(mem, Work(t)))
    /\ UNCHANGED <<session, net, data, th, acc, locks, aborted>>

(* Send fails: Release, without a Logout. *)
TickFails(t) ==
    /\ "tickFail" \in Faults
    /\ th[t].pc = "tick"
    /\ FirstItem(mem, Work(t)) # NULL
    /\ Release(PickUpFirstItem(mem, Work(t)), FirstItem(mem, Work(t)))
    /\ UNCHANGED <<loggedIn, th, acc, locks>>

(* m_workSession = tempSessionList, and the local list is gone. *)
TickDone(t) ==
    /\ th[t].pc = "tick"
    /\ FirstItem(mem, Work(t)) = NULL
    /\ mem' = CleanUpList(Assign(mem, Work(t), Temp(t)), Temp(t))
    /\ Goto(t, "run")
    /\ UNCHANGED <<session, net, data, acc, locks, aborted>>

ThreadStep(t) ==
    \/ ConnectFails(t) \/ ConnectOk(t) \/ ConnectRefused(t)
    \/ DrainClosed(t) \/ LockFree(t) \/ ReturnSession(t)
    \/ LockAdd(t) \/ Adopt(t) \/ AdoptFails(t) \/ UnlockAdd(t)
    \/ Poll(t) \/ EventsDone(t)
    \/ \E s \in Session : ClientIdle(t, s) \/ ClientInvalid(t, s) \/ ClientClosed(t, s)
    \/ \E s \in Session, g \in Guid : Login(t, s, g)
    \/ \E g \in Guid : LogicData(t, g)
    \/ LogicIdle(t) \/ LogicClosed(t)
    \/ StopSession(t) \/ StopReturn(t) \/ StopDone(t)
    \/ TickOk(t) \/ TickFails(t) \/ TickDone(t)

(* The process is gone. *)
Dead == aborted /\ UNCHANGED vars

Next ==
    \/ ~aborted /\ (AcceptorStep \/ \E t \in Thread : ThreadStep(t))
    \/ Dead

Spec == Init /\ [][Next]_vars

(* Every thread goes on when it can; and one that tries again and again to  *)
(* get a lock, or the logic server, gets it in the end.                     *)
Waiting(t) == LockFree(t) \/ LockAdd(t) \/ ConnectOk(t)

Fairness ==
    /\ WF_vars(~aborted /\ AcceptorStep)
    /\ \A t \in Thread :
        /\ WF_vars(~aborted /\ ThreadStep(t))
        /\ SF_vars(~aborted /\ Waiting(t))

FairSpec == Spec /\ Fairness
-----------------------------------------------------------------------------
(* The sessions of list l. *)
In(l) == Items(mem, l)

(* Where a thread and the main thread can be. *)
ThreadPcs == {"run", "lockFree", "free", "adopt", "poll", "events", "stop", "tick"}
AcceptorPcs == {"accept", "lockFree", "pick", "init", "giveBack", "lockAdd", "handOver"}

Memories == [next : [Session -> Session \cup {NULL}],
             prev : [Session -> Session \cup {NULL}],
             head : [Lists -> Session \cup {NULL}],
             count : [Lists -> Int]]

SessionFields == [fd : FD \cup {NULL}, reactor : Thread \cup {NULL},
                  server : Thread \cup {NULL}, handler : BOOLEAN,
                  guid : Guid \cup {NULL}]

ThreadFields == [pc : ThreadPcs, ret : {"run", "adopt", "stop"},
                 cur : Session \cup {NULL},
                 status : {"CONNECTING", "SERVERING"},
                 logic : {"open", "connected", "closed"},
                 pending : SUBSET (Session \cup {LOGIC})]

AcceptorFields == [pc : AcceptorPcs, cur : Session \cup {NULL},
                   sock : FD \cup {NULL}, robin : Thread]

DataTypes ==
    /\ mem \in Memories
    /\ session \in [Session -> SessionFields]
    /\ openFds \subseteq FD
    /\ epoll \in [Thread -> SUBSET (FD \X Session)]
    /\ eventCount \in [Thread -> Int]
    /\ hash \in [Thread -> Tables(Guid, Session)]
    /\ loggedIn \in [Thread -> SUBSET Guid]

ControlTypes ==
    /\ th \in [Thread -> ThreadFields]
    /\ acc \in AcceptorFields
    /\ closeMutex \in Thread \cup {Acceptor, NULL}
    /\ addMutex \in [Thread -> Thread \cup {Acceptor, NULL}]
    /\ aborted \in BOOLEAN

(* No link, no event and no index of the main thread's round robin ever     *)
(* points at something that is not there, whatever fails.                   *)
TypeOK == DataTypes /\ ControlTypes

(* Every list of sessions is a list: the count is its length and the links  *)
(* agree in both directions.                                                *)
ListsWellFormed == \A l \in Lists : WellFormed(mem, l)

(* A session is in exactly one place: on one list, or in the hands of the   *)
(* thread that moves it.  None is lost, none is served twice.               *)
OneOwner ==
    \A s \in Session :
        Cardinality({l \in Lists : s \in In(l)})
        + Cardinality({t \in Thread : th[t].cur = s})
        + (IF acc.cur = s THEN 1 ELSE 0) = 1

Serving(t) == In(Work(t)) \cup In(Temp(t))

(* A thread's reactor watches the connections of the sessions it serves and *)
(* of no other session, and counts them right.                              *)
ReactorExact ==
    \A t \in Thread :
        /\ epoll[t] = {<<session[s].fd, s>> : s \in Serving(t)}
        /\ eventCount[t] = Cardinality(epoll[t])
                           + (IF th[t].logic = "connected" THEN 1 ELSE 0)

(* Every open client connection belongs to one session, or is the one the   *)
(* main thread is about to give to a session: nothing leaks, nothing is     *)
(* shared, nothing closed stays in use.                                     *)
FdOwnedOnce ==
    LET used == {s \in Session : session[s].fd # NULL}
        fresh == IF acc.pc \in {"lockFree", "pick", "init"} THEN {acc.sock} ELSE {}
    IN  /\ openFds = {session[s].fd : s \in used} \cup fresh
        /\ \A s \in used : session[s].fd \notin fresh
        /\ \A s, x \in used : session[s].fd = session[x].fd => s = x

(* A reactor counts at least the events it watches and takes no more than   *)
(* it was made for: epoll_wait is never given fewer places than there are   *)
(* connections, nor more than the array it fills has.                       *)
ReactorInBounds ==
    \A t \in Thread :
        /\ Cardinality(epoll[t]) + (IF th[t].logic = "connected" THEN 1 ELSE 0)
            <= eventCount[t]
        /\ eventCount[t] <= Cap

(* The two locks are held exactly where the code is between lock and unlock,*)
(* and by one thread at a time.                                             *)
LocksHeldRight ==
    /\ \A t \in Thread : closeMutex = t <=> th[t].pc = "free"
    /\ closeMutex = Acceptor <=> acc.pc = "pick"
    /\ \A t \in Thread :
        /\ addMutex[t] = t <=>
                (\/ th[t].pc = "adopt"
                 \/ th[t].pc \in {"lockFree", "free"} /\ th[t].ret = "adopt")
        /\ addMutex[t] = Acceptor <=> (acc.pc = "handOver" /\ acc.robin = t)
        /\ addMutex[t] \in {t, Acceptor, NULL}

(* Thread p cannot go on before thread q has released a lock. *)
WaitsFor(p, q) ==
    \/ /\ closeMutex = q
       /\ IF p = Acceptor THEN acc.pc = "lockFree" ELSE th[p].pc = "lockFree"
    \/ /\ p = Acceptor
       /\ acc.pc = "lockAdd"
       /\ addMutex[acc.robin] = q
    \/ /\ p # Acceptor
       /\ th[p].pc = "run"
       /\ th[p].status = "SERVERING"
       /\ addMutex[p] = q

(* Among any threads there is one that waits for none of the others: the    *)
(* nested locking in _ServeringClientSession never meets its reverse.       *)
NoCircularWait ==
    \A S \in (SUBSET (Thread \cup {Acceptor})) \ {{}} :
        \E p \in S : \A q \in S : ~WaitsFor(p, q)

(* The hash table of a thread has every client that has logged in, under   *)
(* its GUID and once, and nobody else: data from the logic server reaches   *)
(* the client it is for, and no session that is free or another client's.   *)
HashMatchesSessions ==
    \A t \in Thread :
        Entries(hash[t]) = {<<session[s].guid, s>> :
                              s \in {x \in Session : session[x].server = t
                                                  /\ session[x].guid # NULL}}

(* The logic server has been told of exactly the clients that are there. *)
LogicKnowsClients ==
    \A t \in Thread :
        loggedIn[t] = {session[s].guid : s \in {x \in Session : session[x].server = t}}
                      \ {NULL}

(* A session that was handed to a thread is taken up (or given back). *)
HandedOverIsTaken ==
    \A t \in Thread, s \in Session : s \in In(AddList(t)) ~> s \notin In(AddList(t))

(* A closed session comes back to the main thread. *)
ClosedComesBack ==
    \A t \in Thread, s \in Session : s \in In(Closed(t)) ~> s \in In(Free)

(* The comment on losing the logic server: every client session being       *)
(* served is released and given back before the thread connects again.      *)
LogicDownReleasesAll ==
    \A t \in Thread, s \in Session :
        th[t].status = "CONNECTING" => session[s].server # t

(* The comment on an accept error that cannot be repaired: the server is    *)
(* closed, so that a session is only ever set up for a client of its own.   *)
SessionsAreForNewClients ==
    acc.pc = "init" => \A s \in Session : session[s].fd # acc.sock

(* The comment on m_workSessionHash: it is there to find the client session  *)
(* a packet from the logic server is for.                                    *)
LogicDataFindsClient ==
    \A t \in Thread, s \in Session :
        session[s].server = t /\ session[s].guid # NULL
            => \A stray \in Stray : Find(hash[t], session[s].guid, stray) = s

(* None of the assertions about sessions fails (Release of a session that    *)
(* has no owner, _ProcessInputData that found another client's session), and *)
(* HandleClientData never calls a handler that does not exist.               *)
NeverAborts == ~aborted
=============================================================================
