--------------------------- MODULE GYGateway_proofs ---------------------------
(***************************************************************************)
(* What holds of the gateway for any number of sessions, threads,           *)
(* descriptors and GUIDs, any size of the reactors and of the hash tables.  *)
(* Under every fault: its fields keep their types, its locks are held       *)
(* where they should be and never in a circle, and its reactors stay within *)
(* their bounds.  As long as nothing but the clients misbehaves: every list *)
(* stays a list, every session is in one place, and a thread's reactor and  *)
(* the open connections are those of the sessions it should be serving.     *)
(***************************************************************************)
EXTENDS GYGateway, GYList_proofs

(* The lists the code names are lists of the memory. *)
LEMMA ListNames ==
    /\ Free \in Lists
    /\ \A t \in Thread : AddList(t) \in Lists /\ Work(t) \in Lists
                         /\ Closed(t) \in Lists /\ Temp(t) \in Lists
  BY DEF Lists, ThreadLists

(* GYList: every operation on a list keeps the links, the heads and the     *)
(* counts what they are.                                                    *)
LEMMA FirstItemType ==
    ASSUME NEW m \in Memories, NEW l \in Lists
    PROVE  FirstItem(m, l) \in Session \cup {NULL}
  BY DEF Memories, FirstItem

(* PickUpFirstItem, of a list that has an item. *)
LEMMA PickUpType ==
    ASSUME NEW m \in Memories, NEW l \in Lists, FirstItem(m, l) # NULL
    PROVE  PickUpFirstItem(m, l) \in Memories
  BY DEF Memories, FirstItem, PickUpFirstItem

(* The links that Add writes. *)
LEMMA LinkType ==
    ASSUME NEW m \in Memories, NEW l \in Lists, NEW s \in Session
    PROVE  Link(m, l, s) \in Memories
  BY DEF Memories, Link, Pointing

(* The head and the count that Add writes. *)
LEMMA PublishType ==
    ASSUME NEW m \in Memories, NEW l \in Lists, NEW s \in Session
    PROVE  Publish(m, l, s) \in Memories
  BY DEF Memories, Publish

(* Add as a whole. *)
LEMMA AddType ==
    ASSUME NEW m \in Memories, NEW l \in Lists, NEW s \in Session
    PROVE  Add(m, l, s) \in Memories
  BY LinkType, PublishType DEF Add

(* Delete, also of an item that is in another list. *)
LEMMA DeleteType ==
    ASSUME NEW m \in Memories, NEW l \in Lists, NEW s \in Session
    PROVE  Delete(m, l, s) \in Memories
  BY DEF Memories, Delete, Pointing

(* The end of the tick loop: the new list becomes the work list. *)
LEMMA AssignType ==
    ASSUME NEW m \in Memories, NEW l \in Lists, NEW k \in Lists
    PROVE  CleanUpList(Assign(m, l, k), k) \in Memories
  <1>1. Assign(m, l, k) \in Memories
    BY DEF Memories, Assign
  <1> QED
    BY <1>1 DEF Memories, CleanUpList

(* GYHashTable: the operations return tables. *)
LEMMA InsertType ==
    ASSUME NEW table \in Tables(Guid, Session), NEW g \in Guid, NEW s \in Session,
           NEW stray
    PROVE  Insert(table, g, s, stray) \in Tables(Guid, Session)
  BY DEF Tables, Insert, Position

(* Remove frees a bucket or changes nothing. *)
LEMMA RemoveType ==
    ASSUME NEW table \in Tables(Guid, Session), NEW g \in Guid, NEW stray
    PROVE  Remove(table, g, stray) \in Tables(Guid, Session)
  BY DEF Tables, Remove, Position

(* A new table, and one that CleanUp has taken the rows from. *)
LEMMA NewTableType ==
    /\ NewTable \in Tables(Guid, Session)
    /\ CleanedUp \in Tables(Guid, Session)
  BY DEF Tables, NewTable, CleanedUp, EmptyRow

-----------------------------------------------------------------------------
(* Release changes lists, session, reactor and table within their types.    *)
LEMMA ReleaseType ==
    ASSUME TypeOK, NEW m \in Memories, NEW s \in Session, Release(m, s)
    PROVE  /\ mem' \in Memories
           /\ session' \in [Session -> SessionFields]
           /\ openFds' \subseteq FD
           /\ epoll' \in [Thread -> SUBSET (FD \X Session)]
           /\ eventCount' \in [Thread -> Int]
           /\ hash' \in [Thread -> Tables(Guid, Session)]
           /\ aborted' \in BOOLEAN
  <1> DEFINE t == session[s].server
  <1>1. session[s] \in SessionFields
    BY DEF TypeOK, DataTypes
  <1>2. t \in Thread \cup {NULL}
    BY <1>1 DEF SessionFields
  <1>3. mem' \in Memories
    <2>1. CASE t = NULL
      BY <2>1 DEF Release
    <2>2. CASE t # NULL
      <3>1. Work(t) \in Lists /\ Closed(t) \in Lists
        BY <1>2, <2>2, ListNames
      <3>2. Delete(m, Work(t), s) \in Memories
        BY <3>1, DeleteType
      <3>3. MoveToClosed(m, t, s) \in Memories
        BY <3>1, <3>2, AddType DEF MoveToClosed
      <3> QED
        BY <2>2, <3>3 DEF Release
    <2> QED
      BY <2>1, <2>2
  <1>4. session' \in [Session -> SessionFields]
    <2>1. Blank \in SessionFields
      BY DEF Blank, SessionFields
    <2> QED
      BY <2>1 DEF TypeOK, DataTypes, Release
  <1>5. openFds' \subseteq FD
    BY DEF TypeOK, DataTypes, Release
  <1>6. epoll' \in [Thread -> SUBSET (FD \X Session)]
    BY DEF TypeOK, DataTypes, Release, Unwatch
  <1>7. eventCount' \in [Thread -> Int]
    <2> DEFINE r == session[s].reactor
    <2>1. eventCount' = eventCount \/ eventCount' = [eventCount EXCEPT ![r] = @ - 1]
      BY DEF Release
    <2>2. eventCount \in [Thread -> Int]
      BY DEF TypeOK, DataTypes
    <2> HIDE DEF r
    <2> QED
      BY <2>1, <2>2
  <1>8. hash' \in [Thread -> Tables(Guid, Session)]
    <2>1. CASE t = NULL \/ session[s].guid = NULL
      BY <2>1 DEF TypeOK, DataTypes, Release, Forget
    <2>2. CASE t # NULL /\ session[s].guid # NULL
      <3>1. t \in Thread /\ session[s].guid \in Guid
        BY <1>1, <2>2 DEF SessionFields
      <3>2. hash[t] \in Tables(Guid, Session)
        BY <3>1 DEF TypeOK, DataTypes
      <3>3. PICK stray \in Stray :
                hash' = [hash EXCEPT ![t] = Remove(hash[t], session[s].guid, stray)]
        BY <2>2 DEF Release, Forget
      <3>4. Remove(hash[t], session[s].guid, stray) \in Tables(Guid, Session)
        BY <3>1, <3>2, RemoveType
      <3> QED
        BY <3>3, <3>4 DEF TypeOK, DataTypes
    <2> QED
      BY <2>1, <2>2
  <1>9. aborted' \in BOOLEAN
    BY DEF Release
  <1> QED
    BY <1>3, <1>4, <1>5, <1>6, <1>7, <1>8, <1>9

-----------------------------------------------------------------------------
(* A thread that is moving a session has it in its hands. *)
InHand ==
    /\ acc.pc \in {"init", "giveBack", "lockAdd", "handOver"} => acc.cur # NULL
    /\ \A t \in Thread : th[t].pc \in {"lockFree", "free"} => th[t].cur # NULL

Inv == TypeOK /\ InHand

(* A session after CleanUp. *)
LEMMA BlankType == Blank \in SessionFields
  BY DEF Blank, SessionFields

(* What a step leaves alone keeps its type. *)
LEMMA DataUnchanged ==
    ASSUME TypeOK, UNCHANGED <<mem, session, net, data>>
    PROVE  DataTypes'
  BY DEF TypeOK, DataTypes, net, data

(* A step that leaves the threads and the locks alone. *)
LEMMA ControlUnchanged ==
    ASSUME Inv, UNCHANGED <<th, acc, locks>>, aborted' \in BOOLEAN
    PROVE  ControlTypes' /\ InHand'
  BY DEF Inv, TypeOK, ControlTypes, InHand, locks

(* A step that changes a list only. *)
LEMMA OnlyLists ==
    ASSUME TypeOK, mem' \in Memories, UNCHANGED <<session, net, data>>
    PROVE  DataTypes'
  BY DEF TypeOK, DataTypes, net, data

(* The step of the main thread keeps the types. *)
LEMMA AcceptorStepType ==
    ASSUME Inv, AcceptorStep
    PROVE  Inv'
  <1> USE DEF Inv
  <1>0. acc.cur \in Session \cup {NULL}
    BY DEF TypeOK, ControlTypes, AcceptorFields
  <1>1. CASE AcceptOk
    <2>3. DataTypes'
      BY <1>1 DEF TypeOK, DataTypes, AcceptOk, data
    <2>4. ControlTypes' /\ InHand'
      BY <1>1, GatewayAssumption
      DEF TypeOK, ControlTypes, InHand, AcceptOk, locks, AcceptorFields, AcceptorPcs
    <2> QED
      BY <2>3, <2>4 DEF TypeOK
  <1>2. CASE AcceptBreak
    <2>3. DataTypes'
      BY <1>2, DataUnchanged DEF AcceptBreak
    <2>4. ControlTypes' /\ InHand'
      BY <1>2, GatewayAssumption
      DEF TypeOK, ControlTypes, InHand, AcceptBreak, locks, AcceptorFields, AcceptorPcs
    <2> QED
      BY <2>3, <2>4 DEF TypeOK
  <1>3. CASE AcceptError
    <2>3. DataTypes'
      BY <1>3, DataUnchanged DEF AcceptError
    <2>4. ControlTypes' /\ InHand'
      BY <1>3, GatewayAssumption
      DEF TypeOK, ControlTypes, InHand, AcceptError, locks, AcceptorFields, AcceptorPcs
    <2> QED
      BY <2>3, <2>4 DEF TypeOK
  <1>4. CASE AcceptorLockFree
    <2>3. DataTypes'
      BY <1>4, DataUnchanged DEF AcceptorLockFree
    <2>4. ControlTypes' /\ InHand'
      BY <1>4, GatewayAssumption
      DEF TypeOK, ControlTypes, InHand, AcceptorLockFree, locks, AcceptorFields, AcceptorPcs
    <2> QED
      BY <2>3, <2>4 DEF TypeOK
  <1>5. CASE TurnAway
    <2>3. DataTypes'
      BY <1>5 DEF TypeOK, DataTypes, TurnAway, Unwatch, data
    <2>4. ControlTypes' /\ InHand'
      BY <1>5, GatewayAssumption
      DEF TypeOK, ControlTypes, InHand, TurnAway, locks, AcceptorFields, AcceptorPcs
    <2> QED
      BY <2>3, <2>4 DEF TypeOK
  <1>6. CASE PickSession
    <2>1. FirstItem(mem, Free) \in Session
      BY <1>6, ListNames, FirstItemType DEF TypeOK, DataTypes, PickSession
    <2>2. mem' \in Memories
      BY <1>6, ListNames, PickUpType DEF TypeOK, DataTypes, PickSession
    <2>3. DataTypes'
      BY <1>6, <2>2, OnlyLists DEF PickSession
    <2>4. ControlTypes' /\ InHand'
      BY <1>6, <2>1, GatewayAssumption
      DEF TypeOK, ControlTypes, InHand, PickSession, locks, AcceptorFields, AcceptorPcs
    <2> QED
      BY <2>3, <2>4 DEF TypeOK
  <1>7. CASE InitSession
    <2>1. [Blank EXCEPT !.fd = acc.sock] \in SessionFields
      BY <1>7, BlankType DEF TypeOK, DataTypes, SessionFields, InitSession
    <2>2. session' \in [Session -> SessionFields]
      BY <1>7, <2>1 DEF TypeOK, DataTypes, InitSession
    <2>3. DataTypes'
      BY <1>7, <2>2 DEF TypeOK, DataTypes, InitSession, net, data
    <2>4. ControlTypes' /\ InHand'
      BY <1>7, GatewayAssumption
      DEF TypeOK, ControlTypes, InHand, InitSession, locks, AcceptorFields, AcceptorPcs
    <2> QED
      BY <2>3, <2>4 DEF TypeOK
  <1>8. CASE InitFails
    <2>1. acc.cur \in Session
      BY <1>0, <1>8 DEF InHand, InitFails
    <2>2. mem' \in Memories
      BY <1>8, <2>1, ListNames, LinkType DEF TypeOK, DataTypes, InitFails
    <2>3. session' \in [Session -> SessionFields]
      BY <1>8, BlankType DEF TypeOK, DataTypes, InitFails
    <2>4. DataTypes'
      BY <1>8, <2>2, <2>3 DEF TypeOK, DataTypes, InitFails, net, data
    <2>5. ControlTypes' /\ InHand'
      BY <1>8, GatewayAssumption
      DEF TypeOK, ControlTypes, InHand, InitFails, locks, AcceptorFields, AcceptorPcs
    <2> QED
      BY <2>4, <2>5 DEF TypeOK
  <1>9. CASE GiveBack
    <2>1. acc.cur \in Session
      BY <1>0, <1>9 DEF InHand, GiveBack
    <2>2. mem' \in Memories
      BY <1>9, <2>1, ListNames, PublishType DEF TypeOK, DataTypes, GiveBack
    <2>3. DataTypes'
      BY <1>9, <2>2, OnlyLists DEF GiveBack
    <2>4. ControlTypes' /\ InHand'
      BY <1>9, GatewayAssumption
      DEF TypeOK, ControlTypes, InHand, GiveBack, locks, AcceptorFields, AcceptorPcs
    <2> QED
      BY <2>3, <2>4 DEF TypeOK
  <1>10. CASE AcceptorLockAdd
    <2>3. DataTypes'
      BY <1>10, DataUnchanged DEF AcceptorLockAdd
    <2>4. ControlTypes' /\ InHand'
      BY <1>10, GatewayAssumption
      DEF TypeOK, ControlTypes, InHand, AcceptorLockAdd, locks, AcceptorFields, AcceptorPcs
    <2> QED
      BY <2>3, <2>4 DEF TypeOK
  <1>11. CASE HandOver
    <2>0. acc.cur \in Session /\ acc.robin \in Thread
      BY <1>0, <1>11 DEF InHand, HandOver, TypeOK, ControlTypes, AcceptorFields
    <2>1. (acc.robin + 1) % ThreadCount \in Thread
      BY <2>0, GatewayAssumption DEF Thread
    <2>2. mem' \in Memories
      BY <1>11, <2>0, ListNames, AddType DEF TypeOK, DataTypes, HandOver
    <2>3. DataTypes'
      BY <1>11, <2>2, OnlyLists DEF HandOver
    <2>4. ControlTypes' /\ InHand'
      BY <1>11, <2>0, <2>1, GatewayAssumption
      DEF TypeOK, ControlTypes, InHand, HandOver, locks, AcceptorFields, AcceptorPcs
    <2> QED
      BY <2>3, <2>4 DEF TypeOK
  <1> QED
    BY <1>1, <1>2, <1>3, <1>4, <1>5, <1>6, <1>7, <1>8, <1>9, <1>10, <1>11 DEF AcceptorStep

(* The step of a gateway thread keeps the types. *)
LEMMA ThreadStepType ==
    ASSUME Inv, NEW t \in Thread, ThreadStep(t)
    PROVE  Inv'
  <1> USE DEF Inv
  <1>1. CASE ConnectFails(t)
    <2>3. DataTypes'
      BY <1>1, DataUnchanged DEF ConnectFails
    <2>4. ControlTypes' /\ InHand'
      BY <1>1, SMTT(30)
      DEF TypeOK, ControlTypes, InHand, ConnectFails, locks, ThreadFields, ThreadPcs, Goto
    <2> QED
      BY <2>3, <2>4 DEF TypeOK
  <1>2. CASE ConnectOk(t)
    <2>3. DataTypes'
      BY <1>2 DEF TypeOK, DataTypes, ConnectOk, data
    <2>4. ControlTypes' /\ InHand'
      BY <1>2
      DEF TypeOK, ControlTypes, InHand, ConnectOk, locks, ThreadFields, ThreadPcs
    <2> QED
      BY <2>3, <2>4 DEF TypeOK
  <1>3. CASE ConnectRefused(t)
    <2>3. DataTypes'
      BY <1>3, DataUnchanged DEF ConnectRefused
    <2>4. ControlTypes' /\ InHand'
      BY <1>3
      DEF TypeOK, ControlTypes, InHand, ConnectRefused, locks, ThreadFields, ThreadPcs
    <2> QED
      BY <2>3, <2>4 DEF TypeOK
  <1>4. CASE DrainClosed(t)
    <2>1. FirstItem(mem, Closed(t)) \in Session
      BY <1>4, ListNames, FirstItemType DEF TypeOK, DataTypes, DrainClosed
    <2>2. mem' \in Memories
      BY <1>4, ListNames, PickUpType DEF TypeOK, DataTypes, DrainClosed
    <2>3. DataTypes'
      BY <1>4, <2>2, OnlyLists DEF DrainClosed
    <2>4. th' \in [Thread -> ThreadFields]
      <3> DEFINE moved == [th[t] EXCEPT !.pc = "lockFree", !.ret = "run", !.cur = FirstItem(mem, Closed(t))]
      <3>1. th \in [Thread -> ThreadFields]
        BY DEF TypeOK, ControlTypes
      <3>2. moved \in ThreadFields
        BY <3>1, <2>1 DEF ThreadFields, ThreadPcs
      <3>3. th' = [th EXCEPT ![t] = moved]
        BY <1>4, <3>1 DEF DrainClosed
      <3> HIDE DEF moved
      <3> QED
        BY <3>1, <3>2, <3>3
    <2>5. ControlTypes' /\ InHand'
      BY <1>4, <2>1, <2>4
      DEF TypeOK, ControlTypes, InHand, DrainClosed, locks, ThreadFields
    <2> QED
      BY <2>3, <2>5 DEF TypeOK
  <1>5. CASE LockFree(t)
    <2>3. DataTypes'
      BY <1>5, DataUnchanged DEF LockFree
    <2>4. ControlTypes' /\ InHand'
      BY <1>5
      DEF TypeOK, ControlTypes, InHand, LockFree, locks, ThreadFields, ThreadPcs, Goto
    <2> QED
      BY <2>3, <2>4 DEF TypeOK
  <1>6. CASE ReturnSession(t)
    <2>1. th[t].cur \in Session
      BY <1>6 DEF InHand, ReturnSession, TypeOK, ControlTypes, ThreadFields
    <2>2. mem' \in Memories
      BY <1>6, <2>1, ListNames, AddType DEF TypeOK, DataTypes, ReturnSession
    <2>3. DataTypes'
      BY <1>6, <2>2, OnlyLists DEF ReturnSession
    <2>4. ControlTypes' /\ InHand'
      BY <1>6, <2>1
      DEF TypeOK, ControlTypes, InHand, ReturnSession, locks, ThreadFields, ThreadPcs
    <2> QED
      BY <2>3, <2>4 DEF TypeOK
  <1>7. CASE LockAdd(t)
    <2>3. DataTypes'
      BY <1>7, DataUnchanged DEF LockAdd
    <2>4. ControlTypes' /\ InHand'
      BY <1>7
      DEF TypeOK, ControlTypes, InHand, LockAdd, locks, ThreadFields, ThreadPcs, Goto
    <2> QED
      BY <2>3, <2>4 DEF TypeOK
  <1>8. CASE Adopt(t)
    <2> DEFINE s == FirstItem(mem, AddList(t))
    <2>1. s \in Session /\ AddList(t) \in Lists /\ Work(t) \in Lists
      BY <1>8, ListNames, FirstItemType DEF TypeOK, DataTypes, Adopt
    <2>2. mem' \in Memories
      BY <1>8, <2>1, PickUpType, AddType DEF TypeOK, DataTypes, Adopt
    <2>3. session[s] \in SessionFields /\ session[s].fd \in FD
      BY <1>8, <2>1, GatewayAssumption DEF TypeOK, DataTypes, SessionFields, Adopt, CanRegister
    <2>4. epoll' \in [Thread -> SUBSET (FD \X Session)]
      BY <1>8, <2>1, <2>3 DEF TypeOK, DataTypes, Adopt
    <2>5. session' \in [Session -> SessionFields]
      <3>1. session' = [session EXCEPT ![s] =
                [session[s] EXCEPT !.reactor = t, !.server = t, !.handler = TRUE]]
        BY <1>8, <2>1 DEF TypeOK, DataTypes, Adopt
      <3>2. [session[s] EXCEPT !.reactor = t, !.server = t, !.handler = TRUE]
                \in SessionFields
        BY <2>3 DEF SessionFields
      <3> QED
        BY <3>1, <3>2 DEF TypeOK, DataTypes
    <2>6. DataTypes'
      BY <1>8, <2>2, <2>4, <2>5 DEF TypeOK, DataTypes, Adopt, data
    <2>7. ControlTypes' /\ InHand'
      BY <1>8
      DEF TypeOK, ControlTypes, InHand, Adopt, locks, ThreadFields, ThreadPcs
    <2> QED
      BY <2>6, <2>7 DEF TypeOK
  <1>9. CASE AdoptFails(t)
    <2> DEFINE s == FirstItem(mem, AddList(t))
    <2>1. s \in Session /\ AddList(t) \in Lists
      BY <1>9, ListNames, FirstItemType DEF TypeOK, DataTypes, AdoptFails
    <2>2. mem' \in Memories
      BY <1>9, <2>1, PickUpType DEF TypeOK, DataTypes, AdoptFails
    <2>3. session' \in [Session -> SessionFields]
      BY <1>9, <2>1, ZenonT(60) DEF TypeOK, DataTypes, SessionFields, AdoptFails
    <2>4. openFds' \subseteq FD /\ epoll' \in [Thread -> SUBSET (FD \X Session)]
      BY <1>9 DEF TypeOK, DataTypes, AdoptFails, Unwatch
    <2>5. DataTypes'
      BY <1>9, <2>2, <2>3, <2>4 DEF TypeOK, DataTypes, AdoptFails, data
    <2>6. th' \in [Thread -> ThreadFields]
      <3> DEFINE moved == [th[t] EXCEPT !.pc = "lockFree", !.ret = "adopt", !.cur = s]
      <3>1. th \in [Thread -> ThreadFields]
        BY DEF TypeOK, ControlTypes
      <3>2. moved \in ThreadFields
        BY <3>1, <2>1 DEF ThreadFields, ThreadPcs
      <3>3. th' = [th EXCEPT ![t] = moved]
        BY <1>9, <3>1 DEF AdoptFails
      <3> HIDE DEF moved
      <3> QED
        BY <3>1, <3>2, <3>3
    <2>7. ControlTypes' /\ InHand'
      BY <1>9, <2>1, <2>6
      DEF TypeOK, ControlTypes, InHand, AdoptFails, locks, ThreadFields
    <2> QED
      BY <2>5, <2>7 DEF TypeOK
  <1>10. CASE UnlockAdd(t)
    <2>3. DataTypes'
      BY <1>10, DataUnchanged DEF UnlockAdd
    <2>4. ControlTypes' /\ InHand'
      BY <1>10
      DEF TypeOK, ControlTypes, InHand, UnlockAdd, locks, ThreadFields, ThreadPcs, Goto
    <2> QED
      BY <2>3, <2>4 DEF TypeOK
  <1>11. CASE Poll(t)
    <2>3. DataTypes'
      BY <1>11, DataUnchanged DEF Poll
    <2>4. th' \in [Thread -> ThreadFields]
      <3> PICK ready \in SUBSET ({w[2] : w \in epoll[t]} \cup {LOGIC}) :
                th' = [th EXCEPT ![t].pc = "events", ![t].pending = ready]
        BY <1>11 DEF Poll
      <3>1. th \in [Thread -> ThreadFields]
        BY DEF TypeOK, ControlTypes
      <3>2. ready \subseteq Session \cup {LOGIC}
        BY DEF TypeOK, DataTypes
      <3> DEFINE moved == [th[t] EXCEPT !.pc = "events", !.pending = ready]
      <3>3. moved \in ThreadFields
        BY <3>1, <3>2, ZenonT(60) DEF ThreadFields, ThreadPcs
      <3>4. th' = [th EXCEPT ![t] = moved]
        BY <3>1
      <3> HIDE DEF moved
      <3> QED
        BY <3>1, <3>3, <3>4
    <2>5. ControlTypes' /\ InHand'
      BY <1>11, <2>4
      DEF TypeOK, ControlTypes, InHand, Poll, locks, ThreadFields
    <2> QED
      BY <2>3, <2>5 DEF TypeOK
  <1>12. CASE EventsDone(t)
    <2>3. DataTypes'
      BY <1>12, DataUnchanged DEF EventsDone
    <2>4. ControlTypes' /\ InHand'
      BY <1>12
      DEF TypeOK, ControlTypes, InHand, EventsDone, locks, ThreadFields, ThreadPcs, Goto
    <2> QED
      BY <2>3, <2>4 DEF TypeOK
  <1>13. ASSUME NEW s \in Session, ClientIdle(t, s) PROVE Inv'
    <2>3. DataTypes'
      BY <1>13, DataUnchanged DEF ClientIdle
    <2>4. ControlTypes' /\ InHand'
      BY <1>13
      DEF TypeOK, ControlTypes, InHand, ClientIdle, locks, ThreadFields, ThreadPcs, Handled, Handling
    <2> QED
      BY <2>3, <2>4 DEF TypeOK
  <1>14. ASSUME NEW s \in Session, ClientInvalid(t, s) PROVE Inv'
    <2>3. DataTypes'
      BY <1>14, DataUnchanged DEF ClientInvalid
    <2>4. ControlTypes' /\ InHand'
      BY <1>14
      DEF TypeOK, ControlTypes, InHand, ClientInvalid, locks, ThreadFields, ThreadPcs, Handled, Handling
    <2> QED
      BY <2>3, <2>4 DEF TypeOK
  <1>15. ASSUME NEW s \in Session, ClientClosed(t, s) PROVE Inv'
    <2>1. loggedIn' \in [Thread -> SUBSET Guid]
      BY <1>15 DEF TypeOK, DataTypes, ClientClosed
    <2>2. DataTypes' /\ aborted' \in BOOLEAN
      BY <1>15, <2>1, ReleaseType DEF TypeOK, DataTypes, ClientClosed
    <2>3. ControlTypes' /\ InHand'
      BY <1>15, <2>2
      DEF TypeOK, ControlTypes, InHand, ClientClosed, locks, ThreadFields, ThreadPcs, Handled, Handling
    <2> QED
      BY <2>2, <2>3 DEF TypeOK
  <1>16. ASSUME NEW s \in Session, NEW g \in Guid, Login(t, s, g) PROVE Inv'
    <2>1. session[s].server \in Thread
      BY <1>16 DEF TypeOK, DataTypes, SessionFields, Login
    <2>2. session' \in [Session -> SessionFields]
      BY <1>16 DEF TypeOK, DataTypes, SessionFields, Login
    <2>3. hash' \in [Thread -> Tables(Guid, Session)]
      BY <1>16, <2>1, InsertType DEF TypeOK, DataTypes, Login
    <2>4. loggedIn' \in [Thread -> SUBSET Guid]
      BY <1>16, <2>1 DEF TypeOK, DataTypes, Login
    <2>5. DataTypes'
      BY <1>16, <2>2, <2>3, <2>4 DEF TypeOK, DataTypes, Login, net
    <2>6. ControlTypes' /\ InHand'
      BY <1>16
      DEF TypeOK, ControlTypes, InHand, Login, locks, ThreadFields, ThreadPcs, Handled, Handling
    <2> QED
      BY <2>5, <2>6 DEF TypeOK
  <1>17. ASSUME NEW g \in Guid, LogicData(t, g) PROVE Inv'
    <2>3. DataTypes'
      BY <1>17, DataUnchanged DEF LogicData
    <2>4. ControlTypes' /\ InHand'
      BY <1>17
      DEF TypeOK, ControlTypes, InHand, LogicData, locks, ThreadFields, ThreadPcs, Handled, Handling
    <2> QED
      BY <2>3, <2>4 DEF TypeOK
  <1>18. CASE LogicIdle(t)
    <2>3. DataTypes'
      BY <1>18, DataUnchanged DEF LogicIdle
    <2>4. ControlTypes' /\ InHand'
      BY <1>18
      DEF TypeOK, ControlTypes, InHand, LogicIdle, locks, ThreadFields, ThreadPcs, Handled, Handling
    <2> QED
      BY <2>3, <2>4 DEF TypeOK
  <1>19. CASE LogicClosed(t)
    <2>3. DataTypes'
      BY <1>19 DEF TypeOK, DataTypes, LogicClosed, net
    <2>4. ControlTypes' /\ InHand'
      BY <1>19
      DEF TypeOK, ControlTypes, InHand, LogicClosed, locks, ThreadFields, ThreadPcs, Handled, Handling
    <2> QED
      BY <2>3, <2>4 DEF TypeOK
  <1>20. CASE StopSession(t)
    <2>1. /\ FirstItem(mem, Work(t)) \in Session
          /\ PickUpFirstItem(mem, Work(t)) \in Memories
      BY <1>20, ListNames, FirstItemType, PickUpType DEF TypeOK, DataTypes, StopSession
    <2>2. DataTypes' /\ aborted' \in BOOLEAN
      BY <1>20, <2>1, ReleaseType DEF TypeOK, DataTypes, StopSession
    <2>3. ControlTypes' /\ InHand'
      BY <1>20, <2>2
      DEF TypeOK, ControlTypes, InHand, StopSession, locks, ThreadFields, ThreadPcs
    <2> QED
      BY <2>2, <2>3 DEF TypeOK
  <1>21. CASE StopReturn(t)
    <2>1. FirstItem(mem, Closed(t)) \in Session
      BY <1>21, ListNames, FirstItemType DEF TypeOK, DataTypes, StopReturn
    <2>2. mem' \in Memories
      BY <1>21, ListNames, PickUpType DEF TypeOK, DataTypes, StopReturn
    <2>3. DataTypes'
      BY <1>21, <2>2, OnlyLists DEF StopReturn
    <2>4. th' \in [Thread -> ThreadFields]
      <3> DEFINE moved == [th[t] EXCEPT !.pc = "lockFree", !.ret = "stop", !.cur = FirstItem(mem, Closed(t))]
      <3>1. th \in [Thread -> ThreadFields]
        BY DEF TypeOK, ControlTypes
      <3>2. moved \in ThreadFields
        BY <3>1, <2>1 DEF ThreadFields, ThreadPcs
      <3>3. th' = [th EXCEPT ![t] = moved]
        BY <1>21, <3>1 DEF StopReturn
      <3> HIDE DEF moved
      <3> QED
        BY <3>1, <3>2, <3>3
    <2>5. ControlTypes' /\ InHand'
      BY <1>21, <2>1, <2>4
      DEF TypeOK, ControlTypes, InHand, StopReturn, locks, ThreadFields
    <2> QED
      BY <2>3, <2>5 DEF TypeOK
  <1>22. CASE StopDone(t)
    <2>3. DataTypes'
      BY <1>22, NewTableType DEF TypeOK, DataTypes, StopDone, net
    <2>4. th' \in [Thread -> ThreadFields]
      <3> DEFINE moved == [th[t] EXCEPT !.pc = "events", !.status = "CONNECTING"]
      <3>1. th \in [Thread -> ThreadFields]
        BY DEF TypeOK, ControlTypes
      <3>2. moved \in ThreadFields
        BY <3>1 DEF ThreadFields, ThreadPcs
      <3>3. th' = [th EXCEPT ![t] = moved]
        BY <1>22, <3>1 DEF StopDone
      <3> HIDE DEF moved
      <3> QED
        BY <3>1, <3>2, <3>3
    <2>5. ControlTypes' /\ InHand'
      BY <1>22, <2>4
      DEF TypeOK, ControlTypes, InHand, StopDone, locks, ThreadFields
    <2> QED
      BY <2>3, <2>5 DEF TypeOK
  <1>23. CASE TickOk(t)
    <2>1. FirstItem(mem, Work(t)) \in Session /\ Work(t) \in Lists /\ Temp(t) \in Lists
      BY <1>23, ListNames, FirstItemType DEF TypeOK, DataTypes, TickOk
    <2>2. mem' \in Memories
      BY <1>23, <2>1, PickUpType, AddType DEF TypeOK, DataTypes, TickOk
    <2>3. DataTypes'
      BY <1>23, <2>2, OnlyLists DEF TickOk
    <2>4. ControlTypes' /\ InHand'
      BY <1>23
      DEF TypeOK, ControlTypes, InHand, TickOk, locks, ThreadFields, ThreadPcs
    <2> QED
      BY <2>3, <2>4 DEF TypeOK
  <1>24. CASE TickFails(t)
    <2>1. /\ FirstItem(mem, Work(t)) \in Session
          /\ PickUpFirstItem(mem, Work(t)) \in Memories
      BY <1>24, ListNames, FirstItemType, PickUpType DEF TypeOK, DataTypes, TickFails
    <2>2. DataTypes' /\ aborted' \in BOOLEAN
      BY <1>24, <2>1, ReleaseType DEF TypeOK, DataTypes, TickFails
    <2>3. ControlTypes' /\ InHand'
      BY <1>24, <2>2
      DEF TypeOK, ControlTypes, InHand, TickFails, locks, ThreadFields, ThreadPcs
    <2> QED
      BY <2>2, <2>3 DEF TypeOK
  <1>25. CASE TickDone(t)
    <2>1. Work(t) \in Lists /\ Temp(t) \in Lists
      BY ListNames
    <2>2. mem' \in Memories
      BY <1>25, <2>1, AssignType DEF TypeOK, DataTypes, TickDone
    <2>3. DataTypes'
      BY <1>25, <2>2, OnlyLists DEF TickDone
    <2>4. ControlTypes' /\ InHand'
      BY <1>25
      DEF TypeOK, ControlTypes, InHand, TickDone, locks, ThreadFields, ThreadPcs, Goto
    <2> QED
      BY <2>3, <2>4 DEF TypeOK
  <1> QED
    BY <1>1, <1>2, <1>3, <1>4, <1>5, <1>6, <1>7, <1>8, <1>9, <1>10, <1>11, <1>12, <1>13,
       <1>14, <1>15, <1>16, <1>17, <1>18, <1>19, <1>20, <1>21, <1>22, <1>23, <1>24, <1>25 DEF ThreadStep

(* The server starts in a state of the right types. *)
LEMMA InitType == Init => Inv
  <1> SUFFICES ASSUME Init
               PROVE  Inv
    OBVIOUS
  <1>1. mem \in Memories
    BY GatewayAssumption DEF Init, Memories, Session
  <1>2. DataTypes
    BY <1>1, BlankType, NewTableType DEF Init, DataTypes
  <1>3. ControlTypes /\ InHand
    <2>1. th \in [Thread -> ThreadFields]
      BY DEF Init, ThreadFields, ThreadPcs
    <2>2. acc \in AcceptorFields
      BY GatewayAssumption DEF Init, AcceptorFields, AcceptorPcs, Thread
    <2>3. InHand
      BY DEF Init, InHand
    <2> QED
      BY <2>1, <2>2, <2>3 DEF Init, ControlTypes
  <1> QED
    BY <1>2, <1>3 DEF Inv, TypeOK

(* No step of any thread leaves the types. *)
LEMMA NextType ==
    ASSUME Inv, [Next]_vars
    PROVE  Inv'
  <1>1. CASE UNCHANGED vars
    BY <1>1, DataUnchanged, ControlUnchanged DEF vars, Inv, TypeOK, ControlTypes
  <1>2. CASE AcceptorStep
    BY <1>2, AcceptorStepType
  <1>3. CASE \E t \in Thread : ThreadStep(t)
    BY <1>3, ThreadStepType
  <1> QED
    BY <1>1, <1>2, <1>3 DEF Next, Dead

(* The type invariant holds in every state, for every value of the          *)
(* constants and whatever fails.                                            *)
THEOREM TypeCorrect == Spec => []TypeOK
  <1>1. Spec => []Inv
    BY InitType, NextType, PTL DEF Spec
  <1> QED
    BY <1>1, PTL DEF Inv

-----------------------------------------------------------------------------
(* The locks.  A step that leaves them alone and moves its thread between   *)
(* places outside (or inside) the critical sections keeps LocksHeldRight.   *)
LEMMA LocksUnchanged ==
    ASSUME LocksHeldRight, UNCHANGED <<th, acc, locks>>
    PROVE  LocksHeldRight'
  BY DEF LocksHeldRight, locks

(* Steps of the main thread keep the locks right. *)
LEMMA AcceptorLocks ==
    ASSUME Inv, LocksHeldRight, AcceptorStep
    PROVE  LocksHeldRight'
  <1> USE GatewayAssumption DEF Inv, TypeOK, ControlTypes, AcceptorFields, LocksHeldRight
  <1>1. CASE AcceptOk
    BY <1>1 DEF AcceptOk, locks
  <1>2. CASE AcceptBreak
    BY <1>2 DEF AcceptBreak, locks
  <1>3. CASE AcceptError
    BY <1>3 DEF AcceptError, locks
  <1>4. CASE AcceptorLockFree
    BY <1>4 DEF AcceptorLockFree, locks
  <1>5. CASE TurnAway
    BY <1>5 DEF TurnAway, locks
  <1>6. CASE PickSession
    BY <1>6 DEF PickSession, locks
  <1>7. CASE InitSession
    BY <1>7 DEF InitSession, locks
  <1>8. CASE InitFails
    BY <1>8 DEF InitFails, locks
  <1>9. CASE GiveBack
    BY <1>9 DEF GiveBack, locks
  <1>10. CASE AcceptorLockAdd
    BY <1>10 DEF AcceptorLockAdd, locks
  <1>11. CASE HandOver
    BY <1>11 DEF HandOver, locks
  <1> QED
    BY <1>1, <1>2, <1>3, <1>4, <1>5, <1>6, <1>7, <1>8, <1>9, <1>10, <1>11 DEF AcceptorStep

(* Steps of a gateway thread keep the locks right. *)
LEMMA ThreadLocks ==
    ASSUME Inv, LocksHeldRight, NEW t \in Thread, ThreadStep(t)
    PROVE  LocksHeldRight'
  <1> USE GatewayAssumption DEF Inv, TypeOK, ControlTypes, ThreadFields, LocksHeldRight
  <1>1. CASE ConnectFails(t)
    BY <1>1 DEF ConnectFails, locks, Goto
  <1>2. CASE ConnectOk(t)
    BY <1>2 DEF ConnectOk, locks
  <1>3. CASE ConnectRefused(t)
    BY <1>3 DEF ConnectRefused, locks
  <1>4. CASE DrainClosed(t)
    BY <1>4 DEF DrainClosed, locks
  <1>5. CASE LockFree(t)
    BY <1>5 DEF LockFree, locks, Goto
  <1>6. CASE ReturnSession(t)
    BY <1>6 DEF ReturnSession, locks
  <1>7. CASE LockAdd(t)
    BY <1>7 DEF LockAdd, locks, Goto
  <1>8. CASE Adopt(t)
    BY <1>8 DEF Adopt, locks
  <1>9. CASE AdoptFails(t)
    BY <1>9 DEF AdoptFails, locks
  <1>10. CASE UnlockAdd(t)
    BY <1>10 DEF UnlockAdd, locks, Goto
  <1>11. CASE Poll(t)
    BY <1>11 DEF Poll, locks
  <1>12. CASE EventsDone(t)
    BY <1>12 DEF EventsDone, locks, Goto
  <1>13. ASSUME NEW s \in Session, ClientIdle(t, s) PROVE LocksHeldRight'
    BY <1>13 DEF ClientIdle, locks, Handled, Handling
  <1>14. ASSUME NEW s \in Session, ClientInvalid(t, s) PROVE LocksHeldRight'
    BY <1>14 DEF ClientInvalid, locks, Handled, Handling
  <1>15. ASSUME NEW s \in Session, ClientClosed(t, s) PROVE LocksHeldRight'
    BY <1>15 DEF ClientClosed, locks, Handled, Handling
  <1>16. ASSUME NEW s \in Session, NEW g \in Guid, Login(t, s, g)
         PROVE LocksHeldRight'
    BY <1>16 DEF Login, locks, Handled, Handling
  <1>17. ASSUME NEW g \in Guid, LogicData(t, g) PROVE LocksHeldRight'
    BY <1>17 DEF LogicData, locks, Handled, Handling
  <1>18. CASE LogicIdle(t)
    BY <1>18 DEF LogicIdle, locks, Handled, Handling
  <1>19. CASE LogicClosed(t)
    BY <1>19 DEF LogicClosed, locks, Handled, Handling
  <1>20. CASE StopSession(t)
    BY <1>20 DEF StopSession, locks
  <1>21. CASE StopReturn(t)
    BY <1>21 DEF StopReturn, locks
  <1>22. CASE StopDone(t)
    BY <1>22 DEF StopDone, locks
  <1>23. CASE TickOk(t)
    BY <1>23 DEF TickOk, locks
  <1>24. CASE TickFails(t)
    BY <1>24 DEF TickFails, locks
  <1>25. CASE TickDone(t)
    BY <1>25 DEF TickDone, locks, Goto
  <1> QED
    BY <1>1, <1>2, <1>3, <1>4, <1>5, <1>6, <1>7, <1>8, <1>9, <1>10, <1>11, <1>12, <1>13,
       <1>14, <1>15, <1>16, <1>17, <1>18, <1>19, <1>20, <1>21, <1>22, <1>23, <1>24, <1>25 DEF ThreadStep

(* Both locks are held exactly inside the critical sections of the code,    *)
(* and so by one thread at a time.                                          *)
THEOREM LocksAreHeldRight == Spec => []LocksHeldRight
  <1>1. Init => LocksHeldRight
    BY GatewayAssumption DEF Init, LocksHeldRight
  <1>2. Inv /\ LocksHeldRight /\ [Next]_vars => LocksHeldRight'
    <2> SUFFICES ASSUME Inv, LocksHeldRight, [Next]_vars
                 PROVE  LocksHeldRight'
      OBVIOUS
    <2>1. CASE UNCHANGED vars
      BY <2>1, LocksUnchanged DEF vars
    <2>2. CASE AcceptorStep
      BY <2>2, AcceptorLocks
    <2>3. CASE \E t \in Thread : ThreadStep(t)
      BY <2>3, ThreadLocks
    <2> QED
      BY <2>1, <2>2, <2>3 DEF Next, Dead
  <1> QED
    BY <1>1, <1>2, InitType, NextType, PTL DEF Spec

(* A thread that holds m_sessionCloseMutex waits for nobody, a gateway      *)
(* thread that holds an m_addSessionMutex waits at most for the first lock, *)
(* and the main thread holding one waits for nobody: no deadlock.           *)
LEMMA LockOrder ==
    ASSUME Inv, LocksHeldRight
    PROVE  NoCircularWait
  <1> USE GatewayAssumption
  <1>1. SUFFICES ASSUME NEW S \in SUBSET (Thread \cup {Acceptor}), S # {},
                        \A p \in S : \E q \in S : WaitsFor(p, q)
                 PROVE  FALSE
    BY DEF NoCircularWait
  <1>2. \A p, q \in S : closeMutex = p => ~WaitsFor(p, q)
    BY DEF LocksHeldRight, WaitsFor
  <1>3. closeMutex \notin S
    BY <1>1, <1>2
  <1>4. \A p \in S : p \in Thread => Acceptor \in S
    <2> SUFFICES ASSUME NEW p \in S, p \in Thread
                 PROVE  Acceptor \in S
      OBVIOUS
    <2>1. PICK q \in S : WaitsFor(p, q)
      BY <1>1
    <2>2. th[p].pc = "run" /\ addMutex[p] = q
      BY <1>3, <2>1 DEF WaitsFor
    <2>3. q # p
      BY <2>2 DEF LocksHeldRight
    <2> QED
      BY <2>1, <2>2, <2>3 DEF LocksHeldRight
  <1>5. Acceptor \in S
    BY <1>1, <1>4
  <1>6. PICK t \in S : WaitsFor(Acceptor, t)
    BY <1>1, <1>5
  <1>7. acc.pc = "lockAdd" /\ addMutex[acc.robin] = t /\ acc.robin \in Thread
    BY <1>3, <1>6 DEF WaitsFor, Inv, TypeOK, ControlTypes, AcceptorFields
  <1>8. t = acc.robin /\ t # Acceptor
    BY <1>7 DEF LocksHeldRight
  <1>9. th[t].pc # "run"
    BY <1>7, <1>8 DEF LocksHeldRight
  <1>10. PICK q \in S : WaitsFor(t, q)
    BY <1>1
  <1> QED
    BY <1>3, <1>8, <1>9, <1>10 DEF WaitsFor

(* No set of threads waits for each other's locks, however many there are.  *)
THEOREM NoDeadlock == Spec => []NoCircularWait
  <1>1. Spec => []Inv
    BY InitType, NextType, PTL DEF Spec
  <1>2. Spec => []LocksHeldRight
    BY LocksAreHeldRight
  <1> QED
    BY <1>1, <1>2, LockOrder, PTL

-----------------------------------------------------------------------------
(* The reactors.  Watching less is counted right away or not at all.        *)
LEMMA Fewer ==
    ASSUME TypeOK, NEW t \in Thread, NEW watched \in SUBSET epoll[t]
    PROVE  /\ IsFiniteSet(watched)
           /\ Cardinality(watched) \in Nat
           /\ Cardinality(epoll[t]) \in Nat
           /\ Cardinality(watched) <= Cardinality(epoll[t])
           /\ watched # epoll[t] => Cardinality(watched) < Cardinality(epoll[t])
  <1>1. IsFiniteSet(FD) /\ IsFiniteSet(Session)
    BY FS_Interval, GatewayAssumption DEF FD, Session
  <1>2. IsFiniteSet(FD \X Session)
    BY <1>1, FS_Product
  <1>3. epoll[t] \in SUBSET (FD \X Session)
    BY DEF TypeOK, DataTypes
  <1>4. IsFiniteSet(epoll[t])
    BY <1>2, <1>3, FS_Subset
  <1>5. /\ IsFiniteSet(watched)
        /\ Cardinality(watched) <= Cardinality(epoll[t])
        /\ Cardinality(watched) = Cardinality(epoll[t]) => watched = epoll[t]
    BY <1>4, FS_Subset
  <1>6. Cardinality(watched) \in Nat /\ Cardinality(epoll[t]) \in Nat
    BY <1>4, <1>5, FS_CardinalityType
  <1> QED
    BY <1>5, <1>6

(* Any step that adds no event and takes none off the count. *)
LEMMA WatchesShrink ==
    ASSUME TypeOK, ReactorInBounds, UNCHANGED eventCount,
           \A t \in Thread : epoll'[t] \subseteq epoll[t],
           \A t \in Thread : th'[t].logic = "connected" => th[t].logic = "connected"
    PROVE  ReactorInBounds'
  <1> SUFFICES ASSUME NEW t \in Thread
               PROVE  /\ Cardinality(epoll'[t])
                           + (IF th'[t].logic = "connected" THEN 1 ELSE 0)
                           <= eventCount[t]
                      /\ eventCount[t] <= Cap
    BY DEF ReactorInBounds
  <1>1. /\ Cardinality(epoll'[t]) \in Nat
        /\ Cardinality(epoll[t]) \in Nat
        /\ Cardinality(epoll'[t]) <= Cardinality(epoll[t])
    BY Fewer
  <1>2. eventCount[t] \in Int
    BY DEF TypeOK, DataTypes
  <1> QED
    BY <1>1, <1>2 DEF ReactorInBounds

(* Release takes at most one off the count, and when it does, at least one   *)
(* registration of the same reactor goes.                                   *)
LEMMA ReleaseInBounds ==
    ASSUME TypeOK, ReactorInBounds, NEW m, NEW s \in Session, Release(m, s),
           \A t \in Thread : th'[t].logic = th[t].logic
    PROVE  ReactorInBounds'
  <1> DEFINE r == session[s].reactor
  <1>0. \A t \in Thread : epoll'[t] = {w \in epoll[t] : w[1] # session[s].fd}
    BY DEF Release, Unwatch
  <1>1. CASE ~Counted(s)
    BY <1>0, <1>1, WatchesShrink DEF Release
  <1>2. CASE Counted(s)
    <2>1. r \in Thread
      BY <1>2 DEF Counted, TypeOK, DataTypes, SessionFields
    <2>2. eventCount' = [eventCount EXCEPT ![r] = eventCount[r] - 1]
      BY <1>2 DEF Release
    <2>3. epoll'[r] # epoll[r]
      BY <1>0, <1>2, <2>1 DEF Counted, Watched
    <2> SUFFICES ASSUME NEW t \in Thread
                 PROVE  /\ Cardinality(epoll'[t])
                             + (IF th[t].logic = "connected" THEN 1 ELSE 0)
                             <= eventCount'[t]
                        /\ eventCount'[t] <= Cap
      BY DEF ReactorInBounds
    <2>4. /\ Cardinality(epoll'[t]) \in Nat
          /\ Cardinality(epoll[t]) \in Nat
          /\ Cardinality(epoll'[t]) <= Cardinality(epoll[t])
          /\ t = r => Cardinality(epoll'[t]) < Cardinality(epoll[t])
      <3>1. epoll'[t] \subseteq epoll[t]
        BY <1>0
      <3> QED
        BY <2>3, <3>1, Fewer
    <2>5. eventCount \in [Thread -> Int]
      BY DEF TypeOK, DataTypes
    <2>6. eventCount'[t] = IF t = r THEN eventCount[t] - 1 ELSE eventCount[t]
      BY <2>2, <2>5
    <2>7. /\ Cardinality(epoll[t]) + (IF th[t].logic = "connected" THEN 1 ELSE 0)
               <= eventCount[t]
          /\ eventCount[t] <= Cap
      BY DEF ReactorInBounds
    <2> HIDE DEF r
    <2> QED
      BY <2>4, <2>5, <2>6, <2>7, GatewayAssumption
  <1> QED
    BY <1>1, <1>2

(* The main thread only ever takes watched descriptors away. *)
LEMMA AcceptorInBounds ==
    ASSUME Inv, ReactorInBounds, AcceptorStep
    PROVE  ReactorInBounds'
  <1>1. UNCHANGED <<eventCount, th>>
    BY DEF AcceptorStep, AcceptOk, AcceptBreak, AcceptError, AcceptorLockFree,
           TurnAway, PickSession, InitSession, InitFails, GiveBack,
           AcceptorLockAdd, HandOver, net
  <1>2. \A t \in Thread : epoll'[t] \subseteq epoll[t]
    BY DEF AcceptorStep, AcceptOk, AcceptBreak, AcceptError, AcceptorLockFree,
           TurnAway, PickSession, InitSession, InitFails, GiveBack,
           AcceptorLockAdd, HandOver, net, Unwatch
  <1> QED
    BY <1>1, <1>2, WatchesShrink DEF Inv

(* AddEvent checks the room before it counts, DeleteEvent counts what is gone. *)
LEMMA ThreadInBounds ==
    ASSUME Inv, ReactorInBounds, NEW t \in Thread, ThreadStep(t)
    PROVE  ReactorInBounds'
  <1> USE GatewayAssumption DEF Inv
  <1>0. /\ eventCount \in [Thread -> Int]
        /\ th \in [Thread -> ThreadFields]
        /\ epoll \in [Thread -> SUBSET (FD \X Session)]
    BY DEF TypeOK, DataTypes, ControlTypes
  <1>1. CASE ConnectFails(t)
    BY <1>0, <1>1, WatchesShrink DEF ConnectFails, net, ThreadFields, Goto
  <1>2. CASE ConnectOk(t)
    <2>1. epoll' = epoll /\ eventCount' = [eventCount EXCEPT ![t] = eventCount[t] + 1]
      BY <1>2 DEF ConnectOk
    <2>2. \A x \in Thread : /\ x # t => th'[x].logic = th[x].logic
                            /\ x = t => th[x].logic # "connected"
      BY <1>0, <1>2 DEF ConnectOk, ThreadFields
    <2>3. eventCount[t] < Cap
      BY <1>2 DEF ConnectOk
    <2>4. \A x \in Thread : Cardinality(epoll[x]) \in Nat
      BY Fewer
    <2> QED
      BY <1>0, <2>1, <2>2, <2>3, <2>4 DEF ReactorInBounds
  <1>3. CASE ConnectRefused(t)
    BY <1>0, <1>3, WatchesShrink DEF ConnectRefused, net, ThreadFields
  <1>4. CASE DrainClosed(t)
    BY <1>0, <1>4, WatchesShrink DEF DrainClosed, net, ThreadFields
  <1>5. CASE LockFree(t)
    BY <1>0, <1>5, WatchesShrink DEF LockFree, net, ThreadFields, Goto
  <1>6. CASE ReturnSession(t)
    BY <1>0, <1>6, WatchesShrink DEF ReturnSession, net, ThreadFields
  <1>7. CASE LockAdd(t)
    BY <1>0, <1>7, WatchesShrink DEF LockAdd, net, ThreadFields, Goto
  <1>8. CASE Adopt(t)
    <2> DEFINE w == <<session[FirstItem(mem, AddList(t))].fd, FirstItem(mem, AddList(t))>>
    <2>1. /\ epoll' = [epoll EXCEPT ![t] = epoll[t] \cup {w}]
          /\ eventCount' = [eventCount EXCEPT ![t] = eventCount[t] + 1]
          /\ th' = th
      BY <1>8 DEF Adopt
    <2>2. eventCount[t] < Cap
      BY <1>8 DEF Adopt, CanRegister
    <2> HIDE DEF w
    <2>3. \A x \in Thread : Cardinality(epoll[x]) \in Nat
      BY Fewer
    <2>4. /\ Cardinality(epoll[t] \cup {w}) <= Cardinality(epoll[t]) + 1
          /\ Cardinality(epoll[t] \cup {w}) \in Nat
      <3>1. IsFiniteSet(epoll[t]) /\ Cardinality(epoll[t]) \in Nat
        BY <1>0, Fewer
      <3> DEFINE old == epoll[t]
      <3> HIDE DEF old
      <3>2. Cardinality(old \cup {w})
              = IF w \in old THEN Cardinality(old) ELSE Cardinality(old) + 1
        BY <3>1, FS_AddElement DEF old
      <3>3. Cardinality(old) \in Nat
        BY <3>1 DEF old
      <3> QED
        BY <3>2, <3>3 DEF old
    <2> SUFFICES ASSUME NEW x \in Thread
                 PROVE  /\ Cardinality(epoll'[x])
                             + (IF th[x].logic = "connected" THEN 1 ELSE 0)
                             <= eventCount'[x]
                        /\ eventCount'[x] <= Cap
      BY <2>1 DEF ReactorInBounds
    <2>5. /\ Cardinality(epoll[x]) + (IF th[x].logic = "connected" THEN 1 ELSE 0)
               <= eventCount[x]
          /\ eventCount[x] <= Cap
      BY DEF ReactorInBounds
    <2>6. CASE x = t
      <3>1. epoll'[x] = epoll[t] \cup {w} /\ eventCount'[x] = eventCount[t] + 1
        BY <1>0, <2>1, <2>6
      <3> QED
        BY <1>0, <2>2, <2>3, <2>4, <2>5, <2>6, <3>1
    <2>7. CASE x # t
      BY <1>0, <2>1, <2>5, <2>7
    <2> QED
      BY <2>6, <2>7
  <1>9. CASE AdoptFails(t)
    BY <1>0, <1>9, WatchesShrink DEF AdoptFails, net, ThreadFields, Unwatch
  <1>10. CASE UnlockAdd(t)
    BY <1>0, <1>10, WatchesShrink DEF UnlockAdd, net, ThreadFields, Goto
  <1>11. CASE Poll(t)
    BY <1>0, <1>11, WatchesShrink DEF Poll, net, ThreadFields
  <1>12. CASE EventsDone(t)
    BY <1>0, <1>12, WatchesShrink DEF EventsDone, net, ThreadFields, Goto
  <1>13. ASSUME NEW s \in Session, ClientIdle(t, s) PROVE ReactorInBounds'
    BY <1>0, <1>13, WatchesShrink DEF ClientIdle, net, ThreadFields, Handled, Handling
  <1>14. ASSUME NEW s \in Session, ClientInvalid(t, s) PROVE ReactorInBounds'
    BY <1>0, <1>14, WatchesShrink DEF ClientInvalid, net, ThreadFields, Handled, Handling
  <1>15. ASSUME NEW s \in Session, ClientClosed(t, s) PROVE ReactorInBounds'
    <2>1. \A x \in Thread : th'[x].logic = th[x].logic
      BY <1>0, <1>15 DEF ClientClosed, ThreadFields, Handled
    <2>3. Release(mem, s)
      BY <1>15 DEF ClientClosed
    <2> QED
      BY <2>1, <2>3, ReleaseInBounds
  <1>16. ASSUME NEW s \in Session, NEW g \in Guid, Login(t, s, g)
         PROVE ReactorInBounds'
    BY <1>0, <1>16, WatchesShrink DEF Login, net, ThreadFields, Handled, Handling
  <1>17. ASSUME NEW g \in Guid, LogicData(t, g) PROVE ReactorInBounds'
    BY <1>0, <1>17, WatchesShrink DEF LogicData, net, ThreadFields, Handled, Handling
  <1>18. CASE LogicIdle(t)
    BY <1>0, <1>18, WatchesShrink DEF LogicIdle, net, ThreadFields, Handled, Handling
  <1>19. CASE LogicClosed(t)
    BY <1>0, <1>19, WatchesShrink DEF LogicClosed, net, ThreadFields, Handled, Handling
  <1>20. CASE StopSession(t)
    <2>1. \A x \in Thread : th'[x].logic = th[x].logic
      BY <1>0, <1>20 DEF StopSession, ThreadFields
    <2>2. FirstItem(mem, Work(t)) \in Session
      BY <1>20, ListNames, FirstItemType DEF StopSession, TypeOK, DataTypes
    <2>3. Release(PickUpFirstItem(mem, Work(t)), FirstItem(mem, Work(t)))
      BY <1>20 DEF StopSession
    <2> QED
      BY <2>1, <2>2, <2>3, ReleaseInBounds
  <1>21. CASE StopReturn(t)
    BY <1>0, <1>21, WatchesShrink DEF StopReturn, net, ThreadFields
  <1>22. CASE StopDone(t)
    BY <1>0, <1>22, WatchesShrink DEF StopDone, net, ThreadFields
  <1>23. CASE TickOk(t)
    BY <1>0, <1>23, WatchesShrink DEF TickOk, net, ThreadFields
  <1>24. CASE TickFails(t)
    <2>1. \A x \in Thread : th'[x].logic = th[x].logic
      BY <1>0, <1>24 DEF TickFails, ThreadFields
    <2>2. FirstItem(mem, Work(t)) \in Session
      BY <1>24, ListNames, FirstItemType DEF TickFails, TypeOK, DataTypes
    <2>3. Release(PickUpFirstItem(mem, Work(t)), FirstItem(mem, Work(t)))
      BY <1>24 DEF TickFails
    <2> QED
      BY <2>1, <2>2, <2>3, ReleaseInBounds
  <1>25. CASE TickDone(t)
    BY <1>0, <1>25, WatchesShrink DEF TickDone, net, ThreadFields, Goto
  <1> QED
    BY <1>1, <1>2, <1>3, <1>4, <1>5, <1>6, <1>7, <1>8, <1>9, <1>10, <1>11, <1>12, <1>13,
       <1>14, <1>15, <1>16, <1>17, <1>18, <1>19, <1>20, <1>21, <1>22, <1>23, <1>24, <1>25 DEF ThreadStep

(* A reactor never has more events than it counts nor counts more than it   *)
(* has room for, for any capacity and whatever fails.                       *)
THEOREM ReactorsAreInBounds == Spec => []ReactorInBounds
  <1>1. Init => ReactorInBounds
    BY FS_EmptySet, GatewayAssumption DEF Init, ReactorInBounds
  <1>2. Inv /\ ReactorInBounds /\ [Next]_vars => ReactorInBounds'
    <2> SUFFICES ASSUME Inv, ReactorInBounds, [Next]_vars
                 PROVE  ReactorInBounds'
      OBVIOUS
    <2>1. CASE UNCHANGED vars
      BY <2>1, WatchesShrink DEF vars, net, Inv
    <2>2. CASE AcceptorStep
      BY <2>2, AcceptorInBounds
    <2>3. CASE \E t \in Thread : ThreadStep(t)
      BY <2>3, ThreadInBounds
    <2> QED
      BY <2>1, <2>2, <2>3 DEF Next, Dead
  <1> QED
    BY <1>1, <1>2, InitType, NextType, PTL DEF Spec

-----------------------------------------------------------------------------
(* Without the faults that break the lists: where the sessions are and which *)
(* clients the gateway knows.                                               *)

(* No fault but those of the clients themselves. *)
NothingFails == Faults \subseteq {"relogin", "sharedGuid"}

(* The lists of the memory m are lists, and no session is on two of them. *)
Apart(m) ==
    /\ \A l \in Lists : WellFormed(m, l)
    /\ \A l, k \in Lists : l # k => Items(m, l) \cap Items(m, k) = {}

(* A thread has a session in its hands exactly while it moves it from one  *)
(* list to another; that session is on no list, and nobody else has it.    *)
HeldOnce ==
    /\ \A t \in Thread : th[t].cur # NULL <=> th[t].pc \in {"lockFree", "free"}
    /\ acc.cur # NULL <=> acc.pc \in {"init", "lockAdd", "handOver"}
    /\ acc.pc # "giveBack"
    /\ \A l \in Lists : acc.cur \notin In(l)
    /\ \A t \in Thread, l \in Lists : th[t].cur \notin In(l)
    /\ \A t \in Thread : th[t].cur # NULL => th[t].cur # acc.cur
    /\ \A t, u \in Thread : th[t].cur # NULL /\ th[t].cur = th[u].cur => t = u

(* Every session is on a list or in somebody's hands. *)
Somewhere ==
    \A s \in Session : \/ \E l \in Lists : s \in In(l)
                       \/ \E t \in Thread : th[t].cur = s
                       \/ acc.cur = s

(* Delete can be called for the work list outside of the tick loop, which  *)
(* takes it apart; the local list of the loop is empty outside of it.      *)
Frames ==
    \A t \in Thread :
        /\ th[t].pc # "stop" /\ th[t].ret # "stop"
        /\ th[t].pc # "tick" => HeadIsFirst(mem, Work(t)) /\ In(Temp(t)) = {}
        /\ HeadIsFirst(mem, Temp(t))

(* A session knows the thread that serves it, and a thread handles events  *)
(* of sessions it serves.                                                  *)
Owners ==
    /\ \A t \in Thread, s \in Session : session[s].server = t <=> s \in Serving(t)
    /\ \A s \in Session : session[s].reactor = session[s].server
    /\ \A t \in Thread : th[t].pc = "events" => th[t].pending \ {LOGIC} \subseteq In(Work(t))

(* The connection the main thread has accepted for a session to come. *)
Fresh == IF acc.pc \in {"lockFree", "pick", "init"} THEN {acc.sock} ELSE {}

(* The sessions between Init and Release. *)
HasConnection(s) ==
    \/ \E t \in Thread : s \in In(AddList(t)) \cup Serving(t)
    \/ acc.cur = s /\ acc.pc \in {"lockAdd", "handOver"}

Connected ==
    /\ Fresh \subseteq FD
    /\ \A s \in Session : session[s].fd # NULL <=> HasConnection(s)

Places == Apart(mem) /\ HeldOnce /\ Somewhere /\ Frames

Connections == Owners /\ Connected /\ FdOwnedOnce /\ ReactorExact

-----------------------------------------------------------------------------
(* Taking an element out of a finite set leaves one element less. *)
LEMMA OneLess ==
    ASSUME NEW S, IsFiniteSet(S), NEW x \in S
    PROVE  Cardinality(S \ {x}) = Cardinality(S) - 1 /\ Cardinality(S) \in Nat
  BY FS_RemoveElement, FS_CardinalityType

(* An element that is new makes a finite set larger by one. *)
LEMMA OneMore ==
    ASSUME NEW S, IsFiniteSet(S), NEW x, x \notin S
    PROVE  Cardinality(S \cup {x}) = Cardinality(S) + 1 /\ Cardinality(S) \in Nat
  BY FS_AddElement, FS_CardinalityType

(* The names of the lists are different. *)
LEMMA ListsDiffer ==
    /\ \A t \in Thread :
        /\ Free \notin {AddList(t), Work(t), Closed(t), Temp(t)}
        /\ AddList(t) \notin {Work(t), Closed(t), Temp(t)}
        /\ Work(t) \notin {Closed(t), Temp(t)}
        /\ Closed(t) # Temp(t)
    /\ \A t, u \in Thread : t # u =>
        /\ AddList(t) \notin {AddList(u), Work(u), Closed(u), Temp(u)}
        /\ Work(t) \notin {AddList(u), Work(u), Closed(u), Temp(u)}
        /\ Closed(t) \notin {AddList(u), Work(u), Closed(u), Temp(u)}
        /\ Temp(t) \notin {AddList(u), Work(u), Closed(u), Temp(u)}
  BY DEF Free, AddList, Work, Closed, Temp

(* NULL is no session. *)
LEMMA NoNull == NULL \notin Session
  BY GatewayAssumption

(* The memories of the gateway are memories of lists of sessions. *)
LEMMA GatewayMemory == Memories = MemoryOf(Session, Lists)
  BY DEF Memories, MemoryOf

(* PickUpFirstItem, in the memory of the gateway. *)
LEMMA PickUpApart ==
    ASSUME NEW m \in Memories, Apart(m), NEW l \in Lists, FirstItem(m, l) # NULL
    PROVE  LET p == PickUpFirstItem(m, l)
               h == FirstItem(m, l)
           IN  /\ p \in Memories
               /\ h \in Session
               /\ h \in Items(m, l)
               /\ Apart(p)
               /\ Items(p, l) = Items(m, l) \ {h}
               /\ \A k \in Lists \ {l} : /\ Items(p, k) = Items(m, k)
                                         /\ HeadIsFirst(m, k) => HeadIsFirst(p, k)
               /\ \A k \in Lists : h \notin Items(p, k)
  <1> DEFINE p == PickUpFirstItem(m, l)
             h == FirstItem(m, l)
  <1>0. m \in MemoryOf(Session, Lists)
    BY GatewayMemory
  <1>1. /\ p \in MemoryOf(Session, Lists)
        /\ h \in Items(m, l)
        /\ WellFormed(p, l)
        /\ Items(p, l) = Items(m, l) \ {h}
    BY <1>0, NoNull, PickUpFromList DEF Apart
  <1>2. Items(m, l) \subseteq Session
    BY <1>0, NoNull, FirstItemOfList DEF Apart
  <1>3. ASSUME NEW k \in Lists, k # l
        PROVE  /\ WellFormed(p, k)
               /\ Items(p, k) = Items(m, k)
               /\ HeadIsFirst(m, k) => HeadIsFirst(p, k)
               /\ h \notin Items(m, k)
    <2>1. h \notin Items(m, k) /\ WellFormed(m, k)
      BY <1>1, <1>3 DEF Apart
    <2> QED
      BY <1>0, <1>3, <2>1, NoNull, PickUpOther
  <1> HIDE DEF p, h
  <1>4. Apart(p)
    BY <1>1, <1>3 DEF Apart
  <1> QED
    BY <1>1, <1>2, <1>3, <1>4, GatewayMemory DEF p, h

(* Add of a session that is on no list. *)
LEMMA AddApart ==
    ASSUME NEW m \in Memories, Apart(m), NEW l \in Lists, NEW s \in Session,
           \A k \in Lists : s \notin Items(m, k)
    PROVE  LET p == Add(m, l, s)
           IN  /\ p \in Memories
               /\ Apart(p)
               /\ Items(p, l) = Items(m, l) \cup {s}
               /\ HeadIsFirst(p, l)
               /\ \A k \in Lists \ {l} : /\ Items(p, k) = Items(m, k)
                                         /\ HeadIsFirst(m, k) => HeadIsFirst(p, k)
  <1> DEFINE p == Add(m, l, s)
  <1>0. m \in MemoryOf(Session, Lists)
    BY GatewayMemory
  <1>1. /\ p \in MemoryOf(Session, Lists)
        /\ WellFormed(p, l)
        /\ Items(p, l) = Items(m, l) \cup {s}
        /\ HeadIsFirst(p, l)
    BY <1>0, NoNull, AddToList DEF Apart
  <1>2. ASSUME NEW k \in Lists, k # l
        PROVE  /\ WellFormed(p, k)
               /\ Items(p, k) = Items(m, k)
               /\ HeadIsFirst(m, k) => HeadIsFirst(p, k)
    <2>1. /\ s \notin Items(m, k)
          /\ Items(m, k) \cap Items(m, l) = {}
          /\ WellFormed(m, k) /\ WellFormed(m, l)
      BY <1>2 DEF Apart
    <2> QED
      BY <1>0, <1>2, <2>1, NoNull, AddOther
  <1> HIDE DEF p
  <1>3. Apart(p)
    BY <1>1, <1>2 DEF Apart
  <1> QED
    BY <1>1, <1>2, <1>3, GatewayMemory DEF p

(* Delete of a session that is on the list. *)
LEMMA DeleteApart ==
    ASSUME NEW m \in Memories, Apart(m), NEW l \in Lists, HeadIsFirst(m, l),
           NEW s \in Items(m, l)
    PROVE  LET p == Delete(m, l, s)
           IN  /\ p \in Memories
               /\ s \in Session
               /\ Apart(p)
               /\ Items(p, l) = Items(m, l) \ {s}
               /\ HeadIsFirst(p, l)
               /\ \A k \in Lists \ {l} : /\ Items(p, k) = Items(m, k)
                                         /\ HeadIsFirst(m, k) => HeadIsFirst(p, k)
               /\ \A k \in Lists : s \notin Items(p, k)
  <1> DEFINE p == Delete(m, l, s)
  <1>0. m \in MemoryOf(Session, Lists) /\ WellFormed(m, l)
    BY GatewayMemory DEF Apart
  <1>1. /\ p \in MemoryOf(Session, Lists)
        /\ WellFormed(p, l)
        /\ Items(p, l) = Items(m, l) \ {s}
        /\ HeadIsFirst(p, l)
    BY <1>0, NoNull, DeleteFromList
  <1>2. s \in Session
    BY <1>0, NoNull, FirstItemOfList
  <1>3. ASSUME NEW k \in Lists, k # l
        PROVE  /\ WellFormed(p, k)
               /\ Items(p, k) = Items(m, k)
               /\ HeadIsFirst(m, k) => HeadIsFirst(p, k)
               /\ s \notin Items(m, k)
    <2>1. /\ s \notin Items(m, k)
          /\ Items(m, k) \cap Items(m, l) = {}
          /\ WellFormed(m, k)
      BY <1>3 DEF Apart
    <2> QED
      BY <1>0, <1>3, <2>1, NoNull, DeleteOther
  <1> HIDE DEF p
  <1>4. Apart(p)
    BY <1>1, <1>3 DEF Apart
  <1> QED
    BY <1>1, <1>2, <1>3, <1>4, GatewayMemory DEF p

(* The items of a list are sessions. *)
LEMMA ItemsAreSessions ==
    ASSUME NEW m \in Memories, Apart(m), NEW l \in Lists
    PROVE  Items(m, l) \subseteq Session
  <1>1. m \in MemoryOf(Session, Lists) /\ WellFormed(m, l)
    BY GatewayMemory DEF Apart
  <1> QED
    BY <1>1, NoNull, FirstItemOfList

(* What a thread serves are sessions. *)
LEMMA ServedAreSessions ==
    ASSUME TypeOK, Places, NEW t \in Thread
    PROVE  Serving(t) \subseteq Session
  BY ItemsAreSessions, ListNames DEF TypeOK, DataTypes, Places, Serving, In

-----------------------------------------------------------------------------
(* A step that leaves the lists and the hands alone. *)
LEMMA PlacesSame ==
    ASSUME Places, mem' = mem, acc'.cur = acc.cur,
           acc'.pc \in {"init", "lockAdd", "handOver"}
                <=> acc.pc \in {"init", "lockAdd", "handOver"},
           acc'.pc # "giveBack",
           \A t \in Thread :
                /\ th'[t].cur = th[t].cur
                /\ th'[t].pc \in {"lockFree", "free"} <=> th[t].pc \in {"lockFree", "free"}
                /\ th'[t].pc # "stop" /\ th'[t].ret # "stop"
                /\ th[t].pc = "tick" => th'[t].pc = "tick"
    PROVE  Places'
  <1>1. Apart(mem)' /\ HeldOnce'
    BY DEF Places, HeldOnce, In
  <1>2. Somewhere'
    BY DEF Places, Somewhere, In
  <1>3. Frames'
    BY DEF Places, Frames, In
  <1> QED
    BY <1>1, <1>2, <1>3 DEF Places

(* A step that leaves the connections alone: the same sessions are served  *)
(* and connected, through the same descriptors.                            *)
LEMMA ConnectionsSame ==
    ASSUME TypeOK, Places, Connections, UNCHANGED net, Fresh' = Fresh,
           \A t \in Thread :
                /\ Serving(t)' = Serving(t)
                /\ th'[t].pc = "events" => th'[t].pending \ {LOGIC} \subseteq In(Work(t))'
                /\ th'[t].logic = "connected" <=> th[t].logic = "connected",
           \A s \in Session :
                /\ session'[s].fd = session[s].fd
                /\ session'[s].server = session[s].server
                /\ session'[s].reactor = session[s].reactor
                /\ HasConnection(s)' <=> HasConnection(s)
    PROVE  Connections'
  <1>1. Owners'
    BY DEF Connections, Owners
  <1>2. Connected'
    BY DEF Connections, Connected
  <1>3. FdOwnedOnce'
    BY DEF Connections, FdOwnedOnce, Fresh, net
  <1>4. ReactorExact'
    <2> SUFFICES ASSUME NEW t \in Thread
                 PROVE  /\ epoll'[t] = {<<session'[s].fd, s>> : s \in Serving(t)'}
                        /\ eventCount'[t] = Cardinality(epoll'[t])
                                + (IF th'[t].logic = "connected" THEN 1 ELSE 0)
      BY DEF ReactorExact
    <2>1. Serving(t) \subseteq Session
      BY ServedAreSessions
    <2> QED
      BY <2>1 DEF Connections, ReactorExact, net
  <1> QED
    BY <1>1, <1>2, <1>3, <1>4 DEF Connections

-----------------------------------------------------------------------------
(* The main thread keeps the sessions in their places. *)
LEMMA AcceptorPlaces ==
    ASSUME NothingFails, Inv, Places, Connections, AcceptorStep
    PROVE  Places'
  <1>0. /\ mem \in Memories
        /\ acc \in AcceptorFields
        /\ Apart(mem)
        /\ \A t \in Thread : th[t].pc # "stop" /\ th[t].ret # "stop"
        /\ acc.pc # "giveBack"
    BY DEF Inv, TypeOK, DataTypes, ControlTypes, Places, Frames, HeldOnce
  <1>1. CASE AcceptOk
    BY <1>0, <1>1, PlacesSame DEF AcceptOk, AcceptorFields
  <1>2. CASE AcceptBreak
    BY <1>0, <1>2, PlacesSame DEF AcceptBreak, AcceptorFields
  <1>3. CASE AcceptError
    BY <1>3 DEF AcceptError, NothingFails
  <1>4. CASE AcceptorLockFree
    BY <1>0, <1>4, PlacesSame DEF AcceptorLockFree, AcceptorFields
  <1>5. CASE TurnAway
    BY <1>0, <1>5, PlacesSame DEF TurnAway, AcceptorFields
  <1>6. CASE PickSession
    <2> DEFINE h == FirstItem(mem, Free)
    <2>1. /\ mem' = PickUpFirstItem(mem, Free)
          /\ th' = th
          /\ h # NULL
          /\ acc'.pc = "init" /\ acc'.cur = h
          /\ acc.pc = "pick"
      BY <1>0, <1>6 DEF PickSession, AcceptorFields
    <2>2. /\ h \in Session
          /\ h \in Items(mem, Free)
          /\ Apart(mem')
          /\ Items(mem', Free) = Items(mem, Free) \ {h}
          /\ \A k \in Lists \ {Free} : /\ Items(mem', k) = Items(mem, k)
                                       /\ HeadIsFirst(mem, k) => HeadIsFirst(mem', k)
          /\ \A k \in Lists : h \notin Items(mem', k)
      BY <1>0, <2>1, ListNames, PickUpApart
    <2> HIDE DEF h
    <2>3. HeldOnce'
      BY <2>1, <2>2, ListNames DEF Places, HeldOnce, In
    <2>4. Somewhere'
      <3>1. acc.cur = NULL
        BY <2>1 DEF Places, HeldOnce
      <3>2. \A k \in Lists : Items(mem, k) \subseteq Items(mem', k) \cup {h}
        BY <2>2
      <3>3. \A s \in Session : s # NULL
        BY NoNull
      <3> QED
        BY <2>1, <3>1, <3>2, <3>3 DEF Places, Somewhere, In
    <2>5. Frames'
      BY <2>1, <2>2, ListNames, ListsDiffer DEF Places, Frames, In
    <2> QED
      BY <2>2, <2>3, <2>4, <2>5 DEF Places
  <1>7. CASE InitSession
    BY <1>0, <1>7, PlacesSame DEF InitSession, AcceptorFields
  <1>8. CASE InitFails
    BY <1>8 DEF InitFails, Connections, FdOwnedOnce
  <1>9. CASE GiveBack
    BY <1>0, <1>9 DEF GiveBack
  <1>10. CASE AcceptorLockAdd
    BY <1>0, <1>10, PlacesSame DEF AcceptorLockAdd, AcceptorFields
  <1>11. CASE HandOver
    <2> DEFINE l == AddList(acc.robin)
               s == acc.cur
    <2>1. /\ mem' = Add(mem, l, s)
          /\ th' = th
          /\ acc'.pc = "accept" /\ acc'.cur = NULL
          /\ acc.pc = "handOver" /\ acc.robin \in Thread /\ l \in Lists
      BY <1>0, <1>11, ListNames DEF HandOver, AcceptorFields
    <2>2. s \in Session /\ \A k \in Lists : s \notin Items(mem, k)
      BY <1>0, <2>1 DEF AcceptorFields, Places, HeldOnce, In
    <2>3. /\ Apart(mem')
          /\ Items(mem', l) = Items(mem, l) \cup {s}
          /\ \A k \in Lists \ {l} : /\ Items(mem', k) = Items(mem, k)
                                    /\ HeadIsFirst(mem, k) => HeadIsFirst(mem', k)
      BY <1>0, <2>1, <2>2, AddApart
    <2>4. \A t \in Thread : Work(t) # l /\ Temp(t) # l
      BY <2>1, ListsDiffer
    <2> HIDE DEF l, s
    <2>5. \A k \in Lists : NULL \notin Items(mem, k)
      BY <1>0, ItemsAreSessions, NoNull
    <2>6. HeldOnce'
      BY <2>1, <2>2, <2>3, <2>5, NoNull DEF Places, HeldOnce, In, s
    <2>7. Somewhere'
      BY <2>1, <2>2, <2>3 DEF Places, HeldOnce, Somewhere, In, s
    <2>8. Frames'
      BY <2>1, <2>3, <2>4, ListNames DEF Places, Frames, In
    <2> QED
      BY <2>3, <2>6, <2>7, <2>8 DEF Places
  <1> QED
    BY <1>1, <1>2, <1>3, <1>4, <1>5, <1>6, <1>7, <1>8, <1>9, <1>10, <1>11 DEF AcceptorStep

-----------------------------------------------------------------------------
(* The event a thread handles is the event of a session it serves. *)
LEMMA HandledIsServed ==
    ASSUME Inv, Places, Connections, NEW t \in Thread, NEW s \in Session, Handling(t, s)
    PROVE  /\ th[t].pc = "events"
           /\ s \in Items(mem, Work(t))
           /\ session[s].server = t /\ session[s].reactor = t
  BY GatewayAssumption DEF Handling, Connections, Owners, Serving, In

(* PickUpFirstItem of one list, Add to another. *)
LEMMA MoveApart ==
    ASSUME NEW m \in Memories, Apart(m), NEW l \in Lists, NEW to \in Lists, l # to,
           FirstItem(m, l) # NULL
    PROVE  LET h == FirstItem(m, l)
               p == Add(PickUpFirstItem(m, l), to, h)
           IN  /\ p \in Memories
               /\ h \in Session
               /\ h \in Items(m, l)
               /\ Apart(p)
               /\ Items(p, l) = Items(m, l) \ {h}
               /\ Items(p, to) = Items(m, to) \cup {h}
               /\ HeadIsFirst(p, to)
               /\ \A k \in Lists \ {l, to} : /\ Items(p, k) = Items(m, k)
                                             /\ HeadIsFirst(m, k) => HeadIsFirst(p, k)
  <1> DEFINE h == FirstItem(m, l)
             o == PickUpFirstItem(m, l)
             p == Add(o, to, h)
  <1>1. /\ o \in Memories
        /\ h \in Session
        /\ h \in Items(m, l)
        /\ Apart(o)
        /\ Items(o, l) = Items(m, l) \ {h}
        /\ \A k \in Lists \ {l} : /\ Items(o, k) = Items(m, k)
                                  /\ HeadIsFirst(m, k) => HeadIsFirst(o, k)
        /\ \A k \in Lists : h \notin Items(o, k)
    BY PickUpApart
  <1> HIDE DEF h, o
  <1>2. /\ p \in Memories
        /\ Apart(p)
        /\ Items(p, to) = Items(o, to) \cup {h}
        /\ HeadIsFirst(p, to)
        /\ \A k \in Lists \ {to} : /\ Items(p, k) = Items(o, k)
                                   /\ HeadIsFirst(o, k) => HeadIsFirst(p, k)
    BY <1>1, AddApart
  <1> HIDE DEF p
  <1> QED
    BY <1>1, <1>2 DEF p, o, h

(* MoveToClosed of a session that is served. *)
LEMMA CloseApart ==
    ASSUME NEW m \in Memories, Apart(m), NEW t \in Thread, HeadIsFirst(m, Work(t)),
           NEW s \in Items(m, Work(t))
    PROVE  LET p == MoveToClosed(m, t, s)
           IN  /\ Apart(p)
               /\ Items(p, Work(t)) = Items(m, Work(t)) \ {s}
               /\ Items(p, Closed(t)) = Items(m, Closed(t)) \cup {s}
               /\ HeadIsFirst(p, Work(t))
               /\ \A k \in Lists \ {Work(t), Closed(t)} :
                    /\ Items(p, k) = Items(m, k)
                    /\ HeadIsFirst(m, k) => HeadIsFirst(p, k)
  <1> DEFINE o == Delete(m, Work(t), s)
             p == Add(o, Closed(t), s)
  <1>0. Work(t) \in Lists /\ Closed(t) \in Lists /\ Work(t) # Closed(t)
    BY ListNames, ListsDiffer
  <1>1. /\ o \in Memories
        /\ s \in Session
        /\ Apart(o)
        /\ Items(o, Work(t)) = Items(m, Work(t)) \ {s}
        /\ HeadIsFirst(o, Work(t))
        /\ \A k \in Lists \ {Work(t)} : /\ Items(o, k) = Items(m, k)
                                        /\ HeadIsFirst(m, k) => HeadIsFirst(o, k)
        /\ \A k \in Lists : s \notin Items(o, k)
    BY <1>0, DeleteApart
  <1> HIDE DEF o
  <1>2. /\ Apart(p)
        /\ Items(p, Closed(t)) = Items(o, Closed(t)) \cup {s}
        /\ \A k \in Lists \ {Closed(t)} : /\ Items(p, k) = Items(o, k)
                                          /\ HeadIsFirst(o, k) => HeadIsFirst(p, k)
    BY <1>0, <1>1, AddApart
  <1> HIDE DEF p
  <1>3. p = MoveToClosed(m, t, s)
    BY DEF p, o, MoveToClosed
  <1>4. Items(p, Work(t)) = Items(o, Work(t)) /\ (HeadIsFirst(o, Work(t)) => HeadIsFirst(p, Work(t)))
    <2>1. Work(t) \in Lists \ {Closed(t)}
      BY <1>0
    <2> QED
      BY <1>2, <2>1
  <1>5. Items(o, Closed(t)) = Items(m, Closed(t))
    <2>1. Closed(t) \in Lists \ {Work(t)}
      BY <1>0
    <2> QED
      BY <1>1, <2>1
  <1>6. ASSUME NEW k \in Lists \ {Work(t), Closed(t)}
        PROVE  /\ Items(p, k) = Items(m, k)
               /\ HeadIsFirst(m, k) => HeadIsFirst(p, k)
    <2>1. Items(o, k) = Items(m, k) /\ (HeadIsFirst(m, k) => HeadIsFirst(o, k))
      BY <1>1
    <2>2. Items(p, k) = Items(o, k) /\ (HeadIsFirst(o, k) => HeadIsFirst(p, k))
      BY <1>2
    <2> QED
      BY <2>1, <2>2
  <1>7. Items(p, Work(t)) = Items(m, Work(t)) \ {s} /\ HeadIsFirst(p, Work(t))
    BY <1>1, <1>4
  <1>8. Items(p, Closed(t)) = Items(m, Closed(t)) \cup {s}
    BY <1>2, <1>5
  <1> QED
    BY <1>2, <1>3, <1>6, <1>7, <1>8

(* A step that moves sessions from list to list and takes none of them into *)
(* or out of anybody's hands.                                               *)
LEMMA PlacesMoved ==
    ASSUME Places, Apart(mem'), Frames', acc' = acc,
           \A t \in Thread :
                /\ th'[t].cur = th[t].cur
                /\ th'[t].pc \in {"lockFree", "free"} <=> th[t].pc \in {"lockFree", "free"},
           \A x : (\E l \in Lists : x \in Items(mem', l)) <=> (\E l \in Lists : x \in Items(mem, l))
    PROVE  Places'
  <1>1. HeldOnce'
    BY DEF Places, HeldOnce, In
  <1>2. Somewhere'
    BY DEF Places, Somewhere, In
  <1> QED
    BY <1>1, <1>2 DEF Places

(* A thread takes the first session of one of its lists into its hands. *)
LEMMA PlacesTaken ==
    ASSUME Inv, Places, NEW t \in Thread, NEW l \in Lists,
           l \notin {Work(u) : u \in Thread}, l \notin {Temp(u) : u \in Thread},
           FirstItem(mem, l) # NULL, mem' = PickUpFirstItem(mem, l), acc' = acc,
           th[t].pc \notin {"lockFree", "free", "tick"},
           NEW ret \in {"run", "adopt"},
           th' = [th EXCEPT ![t].pc = "lockFree", ![t].ret = ret,
                            ![t].cur = FirstItem(mem, l)]
    PROVE  Places'
  <1> DEFINE h == FirstItem(mem, l)
  <1>0. mem \in Memories /\ th \in [Thread -> ThreadFields] /\ Apart(mem)
    BY DEF Inv, TypeOK, DataTypes, ControlTypes, Places
  <1>1. /\ h \in Session
        /\ h \in Items(mem, l)
        /\ Apart(mem')
        /\ Items(mem', l) = Items(mem, l) \ {h}
        /\ \A k \in Lists \ {l} : /\ Items(mem', k) = Items(mem, k)
                                  /\ HeadIsFirst(mem, k) => HeadIsFirst(mem', k)
        /\ \A k \in Lists : h \notin Items(mem', k)
    BY <1>0, PickUpApart
  <1> HIDE DEF h
  <1>2. /\ th'[t].pc = "lockFree" /\ th'[t].ret = ret /\ th'[t].cur = h
        /\ \A u \in Thread \ {t} : th'[u] = th[u]
        /\ th[t].cur = NULL
    BY <1>0 DEF h, ThreadFields, Places, HeldOnce
  <1>3. \A s \in Session : s # NULL
    BY NoNull
  <1>4. HeldOnce'
    <2>1. \A k \in Lists : Items(mem', k) \subseteq Items(mem, k)
      BY <1>1
    <2>2. \A u \in Thread, k \in Lists : th'[u].cur \notin Items(mem', k)
      BY <1>1, <1>2, <2>1, ZenonT(60) DEF Places, HeldOnce, In
    <2>3. acc.cur # h /\ \A u \in Thread : th[u].cur # h
      BY <1>1 DEF Places, HeldOnce, In
    <2>4. \A u, v \in Thread : th'[u].cur # NULL /\ th'[u].cur = th'[v].cur => u = v
      <3> SUFFICES ASSUME NEW u \in Thread, NEW v \in Thread,
                          th'[u].cur # NULL, th'[u].cur = th'[v].cur
                   PROVE  u = v
        OBVIOUS
      <3>1. ASSUME u # t, v # t
            PROVE  u = v
        <4>1. th'[u] = th[u] /\ th'[v] = th[v]
          BY <1>2, <3>1
        <4>2. th[u].cur # NULL /\ th[u].cur = th[v].cur
          BY <4>1
        <4> QED
          BY <4>2 DEF Places, HeldOnce
      <3>2. u = t => v = t
        BY <1>2, <2>3
      <3>3. v = t => u = t
        BY <1>2, <2>3
      <3> QED
        BY <3>1, <3>2, <3>3
    <2>5. \A u \in Thread : /\ th'[u].cur # NULL => th'[u].cur # acc.cur
                            /\ th'[u].cur # NULL <=> th'[u].pc \in {"lockFree", "free"}
      BY <1>1, <1>2, <1>3, <2>3 DEF Places, HeldOnce
    <2> QED
      BY <2>1, <2>2, <2>4, <2>5 DEF Places, HeldOnce, In
  <1>5. Somewhere'
    <2>1. \A k \in Lists : Items(mem, k) \subseteq Items(mem', k) \cup {h}
      BY <1>1
    <2>2. ASSUME NEW s \in Session, s # h
          PROVE  \/ \E k \in Lists : s \in Items(mem', k)
                 \/ \E u \in Thread : th'[u].cur = s
                 \/ acc.cur = s
      <3>1. \/ \E k \in Lists : s \in Items(mem, k)
            \/ \E u \in Thread : th[u].cur = s
            \/ acc.cur = s
        BY DEF Places, Somewhere, In
      <3>2. \A u \in Thread : th[u].cur = s => th'[u].cur = s
        BY <1>2, <1>3
      <3> QED
        BY <2>1, <2>2, <3>1, <3>2
    <2> QED
      BY <1>2, <2>2 DEF Somewhere, In
  <1>6. Frames'
    <2>1. \A u \in Thread : /\ Work(u) \in Lists \ {l} /\ Temp(u) \in Lists \ {l}
      BY ListNames
    <2> QED
      BY <1>1, <1>2, <2>1, ZenonT(60) DEF Places, Frames, In
  <1> QED
    BY <1>1, <1>4, <1>5, <1>6 DEF Places

(* TickDone: the work list takes over the local list. *)
LEMMA AssignApart ==
    ASSUME NEW m \in Memories, Apart(m), NEW t \in Thread, Items(m, Work(t)) = {},
           HeadIsFirst(m, Temp(t))
    PROVE  LET p == CleanUpList(Assign(m, Work(t), Temp(t)), Temp(t))
           IN  /\ Apart(p)
               /\ Items(p, Work(t)) = Items(m, Temp(t)) /\ Items(p, Temp(t)) = {}
               /\ HeadIsFirst(p, Work(t)) /\ HeadIsFirst(p, Temp(t))
               /\ \A k \in Lists \ {Work(t), Temp(t)} :
                    /\ Items(p, k) = Items(m, k)
                    /\ HeadIsFirst(m, k) => HeadIsFirst(p, k)
  <1> DEFINE p == CleanUpList(Assign(m, Work(t), Temp(t)), Temp(t))
  <1>1. /\ Work(t) \in Lists /\ Temp(t) \in Lists /\ Work(t) # Temp(t)
        /\ m \in MemoryOf(Session, Lists)
        /\ \A k \in Lists : WellFormed(m, k)
    BY ListNames, ListsDiffer, GatewayMemory DEF Apart
  <1>2. /\ WellFormed(p, Work(t)) /\ WellFormed(p, Temp(t))
        /\ Items(p, Work(t)) = Items(m, Temp(t)) /\ Items(p, Temp(t)) = {}
        /\ HeadIsFirst(p, Work(t)) /\ HeadIsFirst(p, Temp(t))
        /\ \A k \in Lists \ {Work(t), Temp(t)} : WellFormed(m, k) =>
             /\ WellFormed(p, k)
             /\ Items(p, k) = Items(m, k)
             /\ HeadIsFirst(m, k) => HeadIsFirst(p, k)
    BY <1>1, NoNull, AssignList
  <1> HIDE DEF p
  <1>3. Apart(p)
    <2>1. \A k \in Lists : WellFormed(p, k)
      BY <1>1, <1>2
    <2>2. \A k \in Lists \ {Work(t), Temp(t)} : Items(p, k) = Items(m, k)
      BY <1>1, <1>2
    <2>3. \A l, k \in Lists : l # k => Items(p, l) \cap Items(p, k) = {}
      BY <1>1, <1>2, <2>2 DEF Apart
    <2> QED
      BY <2>1, <2>3 DEF Apart
  <1> QED
    BY <1>1, <1>2, <1>3 DEF p

(* The gateway threads keep the sessions in their places. *)
LEMMA ThreadPlaces ==
    ASSUME NothingFails, Inv, Places, Connections, NEW t \in Thread, ThreadStep(t)
    PROVE  Places'
  <1>0. /\ mem \in Memories
        /\ th \in [Thread -> ThreadFields]
        /\ Apart(mem)
        /\ \A u \in Thread : th[u].pc # "stop" /\ th[u].ret # "stop"
        /\ acc.pc # "giveBack"
    BY DEF Inv, TypeOK, DataTypes, ControlTypes, Places, Frames, HeldOnce
  <1> USE DEF ThreadFields
  <1>1. CASE ConnectFails(t)
    BY <1>0, <1>1, PlacesSame DEF ConnectFails, Goto
  <1>2. CASE ConnectOk(t)
    BY <1>0, <1>2, PlacesSame DEF ConnectOk
  <1>3. CASE ConnectRefused(t)
    BY <1>0, <1>3, PlacesSame DEF ConnectRefused
  <1>4. CASE DrainClosed(t)
    <2>1. /\ Closed(t) \in Lists
          /\ \A u \in Thread : Closed(t) # Work(u) /\ Closed(t) # Temp(u)
      BY ListNames, ListsDiffer
    <2>2. /\ FirstItem(mem, Closed(t)) # NULL
          /\ mem' = PickUpFirstItem(mem, Closed(t))
          /\ acc' = acc
          /\ th[t].pc = "run"
          /\ th' = [th EXCEPT ![t].pc = "lockFree", ![t].ret = "run",
                              ![t].cur = FirstItem(mem, Closed(t))]
      BY <1>4 DEF DrainClosed
    <2> QED
      BY <2>1, <2>2, PlacesTaken
  <1>5. CASE LockFree(t)
    BY <1>0, <1>5, PlacesSame DEF LockFree, Goto
  <1>6. CASE ReturnSession(t)
    <2> DEFINE s == th[t].cur
    <2>1. /\ mem' = Add(mem, Free, s)
          /\ acc' = acc
          /\ th[t].pc = "free"
          /\ th'[t].pc = th[t].ret /\ th'[t].ret = th[t].ret /\ th'[t].cur = NULL
          /\ th[t].ret \in {"run", "adopt"}
          /\ \A u \in Thread \ {t} : th'[u] = th[u]
      BY <1>0, <1>6 DEF ReturnSession
    <2>2. s \in Session /\ \A k \in Lists : s \notin Items(mem, k)
      BY <1>0, <2>1 DEF Places, HeldOnce, In
    <2>3. /\ Apart(mem')
          /\ Items(mem', Free) = Items(mem, Free) \cup {s}
          /\ \A k \in Lists \ {Free} :
                /\ Items(mem', k) = Items(mem, k)
                /\ HeadIsFirst(mem, k) => HeadIsFirst(mem', k)
      BY <1>0, <2>1, <2>2, ListNames, AddApart
    <2>4. \A k \in Lists : /\ Items(mem, k) \subseteq Items(mem', k)
                           /\ Items(mem', k) \subseteq Items(mem, k) \cup {s}
                           /\ NULL \notin Items(mem', k)
      BY <1>0, <2>2, <2>3, ItemsAreSessions, NoNull
    <2>5. /\ acc.cur # s
          /\ \A u \in Thread \ {t} : th[u].cur # s
      BY <2>2, NoNull DEF Places, HeldOnce
    <2>6. s \in Items(mem', Free) /\ Free \in Lists
      BY <2>3, ListNames
    <2> HIDE DEF s
    <2>7. HeldOnce'
      <3>1. \A u \in Thread, k \in Lists : th'[u].cur \notin Items(mem', k)
        BY <2>1, <2>4, <2>5 DEF Places, HeldOnce, In
      <3>2. \A u, v \in Thread : th'[u].cur # NULL /\ th'[u].cur = th'[v].cur => u = v
        BY <2>1 DEF Places, HeldOnce
      <3>3. \A u \in Thread : /\ th'[u].cur # NULL => th'[u].cur # acc.cur
                              /\ th'[u].cur # NULL <=> th'[u].pc \in {"lockFree", "free"}
        BY <2>1 DEF Places, HeldOnce
      <3>4. \A k \in Lists : acc.cur \notin Items(mem', k)
        BY <2>4, <2>5 DEF Places, HeldOnce, In
      <3> QED
        BY <2>1, <3>1, <3>2, <3>3, <3>4 DEF Places, HeldOnce, In
    <2>8. Somewhere'
      <3> SUFFICES ASSUME NEW x \in Session
                   PROVE  \/ \E k \in Lists : x \in Items(mem', k)
                          \/ \E u \in Thread : th'[u].cur = x
                          \/ acc.cur = x
        BY <2>1 DEF Somewhere, In
      <3>1. CASE x = s
        BY <2>6, <3>1
      <3>2. CASE x # s
        <4>1. \A u \in Thread : th[u].cur = x => th'[u].cur = x
          BY <2>1, <3>2 DEF s
        <4>2. \/ \E k \in Lists : x \in Items(mem, k)
              \/ \E u \in Thread : th[u].cur = x
              \/ acc.cur = x
          BY DEF Places, Somewhere, In
        <4> QED
          BY <2>4, <4>1, <4>2
      <3> QED
        BY <3>1, <3>2
    <2>9. Frames'
      <3>1. \A u \in Thread : Work(u) \in Lists \ {Free} /\ Temp(u) \in Lists \ {Free}
        BY ListNames, ListsDiffer
      <3> QED
        BY <2>1, <2>3, <3>1 DEF Places, Frames, In
    <2> QED
      BY <2>3, <2>7, <2>8, <2>9 DEF Places
  <1>7. CASE LockAdd(t)
    BY <1>0, <1>7, PlacesSame DEF LockAdd, Goto
  <1>8. CASE Adopt(t)
    <2> DEFINE h == FirstItem(mem, AddList(t))
    <2>0. /\ AddList(t) \in Lists /\ Work(t) \in Lists /\ Temp(t) \in Lists
          /\ AddList(t) # Work(t) /\ Temp(t) \notin {AddList(t), Work(t)}
          /\ \A u \in Thread \ {t} :
                /\ Work(u) \in Lists \ {AddList(t), Work(t)}
                /\ Temp(u) \in Lists \ {AddList(t), Work(t)}
      BY ListNames, ListsDiffer
    <2>1. /\ h # NULL
          /\ mem' = Add(PickUpFirstItem(mem, AddList(t)), Work(t), h)
          /\ th' = th /\ acc' = acc
      BY <1>8 DEF Adopt
    <2>2. /\ h \in Items(mem, AddList(t))
          /\ Apart(mem')
          /\ Items(mem', AddList(t)) = Items(mem, AddList(t)) \ {h}
          /\ Items(mem', Work(t)) = Items(mem, Work(t)) \cup {h}
          /\ HeadIsFirst(mem', Work(t))
          /\ \A k \in Lists \ {AddList(t), Work(t)} :
                /\ Items(mem', k) = Items(mem, k)
                /\ HeadIsFirst(mem, k) => HeadIsFirst(mem', k)
      BY <1>0, <2>0, <2>1, MoveApart
    <2> HIDE DEF h
    <2>3. \A x : (\E l \in Lists : x \in Items(mem', l)) <=> (\E l \in Lists : x \in Items(mem, l))
      BY <2>0, <2>2
    <2>4. Frames'
      BY <2>0, <2>1, <2>2 DEF Places, Frames, In
    <2> QED
      BY <2>1, <2>2, <2>3, <2>4, PlacesMoved
  <1>9. CASE AdoptFails(t)
    <2>1. /\ AddList(t) \in Lists
          /\ \A u \in Thread : AddList(t) # Work(u) /\ AddList(t) # Temp(u)
      BY ListNames, ListsDiffer
    <2>2. /\ FirstItem(mem, AddList(t)) # NULL
          /\ mem' = PickUpFirstItem(mem, AddList(t))
          /\ acc' = acc
          /\ th[t].pc = "adopt"
          /\ th' = [th EXCEPT ![t].pc = "lockFree", ![t].ret = "adopt",
                              ![t].cur = FirstItem(mem, AddList(t))]
      BY <1>9 DEF AdoptFails
    <2> QED
      BY <2>1, <2>2, PlacesTaken
  <1>10. CASE UnlockAdd(t)
    BY <1>0, <1>10, PlacesSame DEF UnlockAdd, Goto
  <1>11. CASE Poll(t)
    BY <1>0, <1>11, PlacesSame DEF Poll
  <1>12. CASE EventsDone(t)
    BY <1>0, <1>12, PlacesSame DEF EventsDone, Goto
  <1>13. ASSUME NEW s \in Session, ClientIdle(t, s) PROVE Places'
    BY <1>0, <1>13, PlacesSame DEF ClientIdle, Handled
  <1>14. ASSUME NEW s \in Session, ClientInvalid(t, s) PROVE Places'
    <2>1. session[s].server = t
      BY <1>14, HandledIsServed DEF ClientInvalid
    <2> QED
      BY <1>14, <2>1, GatewayAssumption DEF ClientInvalid
  <1>15. ASSUME NEW s \in Session, ClientClosed(t, s) PROVE Places'
    <2>0. /\ Work(t) \in Lists /\ Closed(t) \in Lists /\ Temp(t) \in Lists
          /\ Closed(t) # Work(t) /\ Temp(t) \notin {Closed(t), Work(t)}
          /\ \A u \in Thread \ {t} :
                /\ Work(u) \in Lists \ {Closed(t), Work(t)}
                /\ Temp(u) \in Lists \ {Closed(t), Work(t)}
      BY ListNames, ListsDiffer
    <2>1. th[t].pc = "events" /\ s \in Items(mem, Work(t)) /\ session[s].server = t
      BY <1>15, HandledIsServed DEF ClientClosed
    <2>2. /\ mem' = MoveToClosed(mem, t, s)
          /\ acc' = acc
          /\ \A u \in Thread : /\ th'[u].cur = th[u].cur
                               /\ th'[u].pc = th[u].pc
                               /\ th'[u].ret = th[u].ret
      BY <1>0, <1>15, <2>1 DEF ClientClosed, Release, Handled
    <2>3. HeadIsFirst(mem, Work(t))
      BY <2>1 DEF Places, Frames
    <2>4. /\ Apart(mem')
          /\ Items(mem', Work(t)) = Items(mem, Work(t)) \ {s}
          /\ Items(mem', Closed(t)) = Items(mem, Closed(t)) \cup {s}
          /\ HeadIsFirst(mem', Work(t))
          /\ \A k \in Lists \ {Work(t), Closed(t)} :
                /\ Items(mem', k) = Items(mem, k)
                /\ HeadIsFirst(mem, k) => HeadIsFirst(mem', k)
      BY <1>0, <2>1, <2>2, <2>3, CloseApart
    <2>5. \A x : (\E l \in Lists : x \in Items(mem', l)) <=> (\E l \in Lists : x \in Items(mem, l))
      BY <2>0, <2>1, <2>4
    <2>6. Frames'
      BY <2>0, <2>2, <2>4 DEF Places, Frames, In
    <2> QED
      BY <2>2, <2>4, <2>5, <2>6, PlacesMoved
  <1>16. ASSUME NEW s \in Session, NEW g \in Guid, Login(t, s, g) PROVE Places'
    BY <1>0, <1>16, PlacesSame DEF Login, Handled
  <1>17. ASSUME NEW g \in Guid, LogicData(t, g) PROVE Places'
    BY <1>0, <1>17, PlacesSame DEF LogicData, Handled
  <1>18. CASE LogicIdle(t)
    BY <1>0, <1>18, PlacesSame DEF LogicIdle, Handled
  <1>19. CASE LogicClosed(t)
    BY <1>19 DEF LogicClosed, NothingFails
  <1>20. CASE StopSession(t)
    BY <1>0, <1>20 DEF StopSession
  <1>21. CASE StopReturn(t)
    BY <1>0, <1>21 DEF StopReturn
  <1>22. CASE StopDone(t)
    BY <1>0, <1>22 DEF StopDone
  <1>23. CASE TickOk(t)
    <2> DEFINE h == FirstItem(mem, Work(t))
    <2>0. /\ Work(t) \in Lists /\ Temp(t) \in Lists /\ Work(t) # Temp(t)
          /\ \A u \in Thread \ {t} :
                /\ Work(u) \in Lists \ {Work(t), Temp(t)}
                /\ Temp(u) \in Lists \ {Work(t), Temp(t)}
      BY ListNames, ListsDiffer
    <2>1. /\ h # NULL
          /\ mem' = Add(PickUpFirstItem(mem, Work(t)), Temp(t), h)
          /\ th' = th /\ acc' = acc /\ th[t].pc = "tick"
      BY <1>23 DEF TickOk
    <2>2. /\ h \in Items(mem, Work(t))
          /\ Apart(mem')
          /\ Items(mem', Work(t)) = Items(mem, Work(t)) \ {h}
          /\ Items(mem', Temp(t)) = Items(mem, Temp(t)) \cup {h}
          /\ HeadIsFirst(mem', Temp(t))
          /\ \A k \in Lists \ {Work(t), Temp(t)} :
                /\ Items(mem', k) = Items(mem, k)
                /\ HeadIsFirst(mem, k) => HeadIsFirst(mem', k)
      BY <1>0, <2>0, <2>1, MoveApart
    <2> HIDE DEF h
    <2>3. \A x : (\E l \in Lists : x \in Items(mem', l)) <=> (\E l \in Lists : x \in Items(mem, l))
      BY <2>0, <2>2
    <2>4. Frames'
      BY <2>0, <2>1, <2>2 DEF Places, Frames, In
    <2> QED
      BY <2>1, <2>2, <2>3, <2>4, PlacesMoved
  <1>24. CASE TickFails(t)
    BY <1>24 DEF TickFails, NothingFails
  <1>25. CASE TickDone(t)
    <2>0. /\ Work(t) \in Lists /\ Temp(t) \in Lists /\ Work(t) # Temp(t)
          /\ \A u \in Thread \ {t} :
                /\ Work(u) \in Lists \ {Work(t), Temp(t)}
                /\ Temp(u) \in Lists \ {Work(t), Temp(t)}
      BY ListNames, ListsDiffer
    <2>1. /\ FirstItem(mem, Work(t)) = NULL
          /\ mem' = CleanUpList(Assign(mem, Work(t), Temp(t)), Temp(t))
          /\ acc' = acc /\ th[t].pc = "tick" /\ th'[t].pc = "run"
          /\ \A u \in Thread : th'[u].cur = th[u].cur /\ th'[u].ret = th[u].ret
          /\ \A u \in Thread \ {t} : th'[u].pc = th[u].pc
      BY <1>0, <1>25 DEF TickDone, Goto
    <2>2. Items(mem, Work(t)) = {} /\ HeadIsFirst(mem, Temp(t))
      <3>1. mem \in MemoryOf(Session, Lists) /\ WellFormed(mem, Work(t))
        BY <1>0, <2>0, GatewayMemory DEF Apart
      <3> QED
        BY <2>0, <2>1, <3>1, NoNull, FirstItemOfList DEF Places, Frames
    <2>3. /\ Apart(mem')
          /\ Items(mem', Work(t)) = Items(mem, Temp(t)) /\ Items(mem', Temp(t)) = {}
          /\ HeadIsFirst(mem', Work(t)) /\ HeadIsFirst(mem', Temp(t))
          /\ \A k \in Lists \ {Work(t), Temp(t)} :
                /\ Items(mem', k) = Items(mem, k)
                /\ HeadIsFirst(mem, k) => HeadIsFirst(mem', k)
      BY <1>0, <2>1, <2>2, AssignApart
    <2>4. \A x : (\E l \in Lists : x \in Items(mem', l)) <=> (\E l \in Lists : x \in Items(mem, l))
      BY <2>0, <2>2, <2>3
    <2>5. Frames'
      BY <2>0, <2>1, <2>3 DEF Places, Frames, In
    <2> QED
      BY <2>1, <2>3, <2>4, <2>5, PlacesMoved
  <1> QED
    BY <1>1, <1>2, <1>3, <1>4, <1>5, <1>6, <1>7, <1>8, <1>9, <1>10, <1>11, <1>12, <1>13,
       <1>14, <1>15, <1>16, <1>17, <1>18, <1>19, <1>20, <1>21, <1>22, <1>23, <1>24, <1>25
    DEF ThreadStep

-----------------------------------------------------------------------------
(* A step that leaves the lists alone as well. *)
LEMMA ConnectionsKept ==
    ASSUME TypeOK, Places, Connections, UNCHANGED <<mem, net>>, Fresh' = Fresh,
           acc'.cur = acc.cur,
           acc'.pc \in {"lockAdd", "handOver"} <=> acc.pc \in {"lockAdd", "handOver"},
           \A t \in Thread :
                /\ th'[t].pc = "events" => th'[t].pending \ {LOGIC} \subseteq In(Work(t))
                /\ th'[t].logic = "connected" <=> th[t].logic = "connected",
           \A s \in Session :
                /\ session'[s].fd = session[s].fd
                /\ session'[s].server = session[s].server
                /\ session'[s].reactor = session[s].reactor
    PROVE  Connections'
  <1>1. \A t \in Thread : Serving(t)' = Serving(t) /\ In(Work(t))' = In(Work(t))
    BY DEF Serving, In
  <1>2. \A s \in Session : HasConnection(s)' <=> HasConnection(s)
    BY DEF HasConnection, Serving, In
  <1> QED
    BY <1>1, <1>2, ConnectionsSame

(* What a reactor watches belongs to a session with a connection, and is not *)
(* the connection that waits for a session.                                  *)
LEMMA WatchedIsUsed ==
    ASSUME TypeOK, Places, Connections, NEW t \in Thread, NEW w \in epoll[t]
    PROVE  /\ w[2] \in Session /\ w = <<session[w[2]].fd, w[2]>>
           /\ w[2] \in Serving(t)
           /\ session[w[2]].fd # NULL
           /\ w[1] \notin Fresh
  <1>1. PICK s \in Serving(t) : w = <<session[s].fd, s>>
    BY DEF Connections, ReactorExact
  <1>2. s \in Session
    BY ServedAreSessions
  <1>3. session[s].fd # NULL
    BY <1>2 DEF Connections, Connected, HasConnection
  <1>4. session[s].fd \notin Fresh
    BY <1>2, <1>3 DEF Connections, FdOwnedOnce, Fresh
  <1> QED
    BY <1>1, <1>2, <1>3, <1>4

(* The main thread keeps the connections and the sessions together. *)
LEMMA AcceptorConnections ==
    ASSUME NothingFails, Inv, Places, Connections, AcceptorStep
    PROVE  Connections'
  <1>0. /\ mem \in Memories
        /\ acc \in AcceptorFields
        /\ session \in [Session -> SessionFields]
        /\ epoll \in [Thread -> SUBSET (FD \X Session)]
        /\ Apart(mem)
        /\ TypeOK
        /\ \A u \in Thread : th[u].pc = "events" => th[u].pending \ {LOGIC} \subseteq In(Work(u))
        /\ acc.pc # "giveBack"
    BY DEF Inv, TypeOK, DataTypes, ControlTypes, Places, HeldOnce, Connections, Owners
  <1>1. CASE AcceptOk
    <2>1. PICK fd \in FD \ openFds :
            /\ openFds' = openFds \cup {fd}
            /\ acc' = [acc EXCEPT !.pc = "lockFree", !.sock = fd]
      BY <1>1 DEF AcceptOk
    <2>2. /\ acc.pc = "accept" /\ acc'.pc = "lockFree" /\ acc'.sock = fd /\ acc'.cur = acc.cur
          /\ UNCHANGED <<mem, session, epoll, eventCount, th>>
      BY <1>0, <1>1, <2>1 DEF AcceptOk, AcceptorFields
    <2>3. Fresh = {} /\ Fresh' = {fd}
      BY <2>2 DEF Fresh
    <2>4. Owners' /\ ReactorExact'
      BY <2>2 DEF Connections, Owners, ReactorExact, Serving, In
    <2>5. Connected'
      BY <2>2, <2>3 DEF Connections, Connected, HasConnection, Serving, In
    <2>6. FdOwnedOnce'
      BY <2>1, <2>2, <2>3 DEF Connections, FdOwnedOnce, Fresh
    <2> QED
      BY <2>4, <2>5, <2>6 DEF Connections
  <1>2. CASE AcceptBreak
    <2>1. Fresh' = Fresh
      BY <1>0, <1>2 DEF AcceptBreak, Fresh, AcceptorFields
    <2> QED
      BY <1>0, <1>2, <2>1, ConnectionsKept DEF AcceptBreak, AcceptorFields
  <1>3. CASE AcceptError
    BY <1>3 DEF AcceptError, NothingFails
  <1>4. CASE AcceptorLockFree
    <2>1. Fresh' = Fresh
      BY <1>0, <1>4 DEF AcceptorLockFree, Fresh, AcceptorFields
    <2> QED
      BY <1>0, <1>4, <2>1, ConnectionsKept DEF AcceptorLockFree, AcceptorFields
  <1>5. CASE TurnAway
    <2>1. /\ acc.pc = "pick" /\ acc'.pc = "accept" /\ acc'.cur = acc.cur
          /\ openFds' = openFds \ {acc.sock}
          /\ epoll' = Unwatch(epoll, acc.sock)
          /\ UNCHANGED <<mem, session, eventCount, th>>
      BY <1>0, <1>5 DEF TurnAway, AcceptorFields
    <2>2. Fresh = {acc.sock} /\ Fresh' = {}
      BY <2>1 DEF Fresh
    <2>3. epoll' = epoll
      <3>1. \A t \in Thread : \A w \in epoll[t] : w[1] # acc.sock
        BY <1>0, <2>2, WatchedIsUsed
      <3> QED
        BY <1>0, <2>1, <3>1 DEF Unwatch
    <2>4. Owners' /\ ReactorExact'
      BY <2>1, <2>3 DEF Connections, Owners, ReactorExact, Serving, In
    <2>5. Connected'
      BY <2>1, <2>2 DEF Connections, Connected, HasConnection, Serving, In
    <2>6. FdOwnedOnce'
      BY <2>1, <2>2 DEF Connections, FdOwnedOnce, Fresh
    <2> QED
      BY <2>4, <2>5, <2>6 DEF Connections
  <1>6. CASE PickSession
    <2>1. /\ mem' = PickUpFirstItem(mem, Free) /\ FirstItem(mem, Free) # NULL
          /\ acc.pc = "pick" /\ acc'.pc = "init" /\ acc'.sock = acc.sock
          /\ UNCHANGED <<session, net, th>>
      BY <1>0, <1>6 DEF PickSession, AcceptorFields
    <2>2. \A k \in Lists \ {Free} : Items(mem', k) = Items(mem, k)
      BY <1>0, <2>1, ListNames, PickUpApart
    <2>3. \A t \in Thread : /\ In(AddList(t))' = In(AddList(t))
                            /\ In(Work(t))' = In(Work(t))
                            /\ Serving(t)' = Serving(t)
      BY <2>2, ListNames, ListsDiffer DEF Serving, In
    <2>4. \A s \in Session : HasConnection(s)' <=> HasConnection(s)
      BY <2>1, <2>3 DEF HasConnection
    <2>5. Fresh' = Fresh
      BY <2>1 DEF Fresh
    <2> QED
      BY <1>0, <2>1, <2>3, <2>4, <2>5, ConnectionsSame
  <1>7. CASE InitSession
    <2> DEFINE c == acc.cur
    <2>1. /\ acc.pc = "init" /\ acc'.pc = "lockAdd" /\ acc'.cur = c /\ acc.sock \in FD
          /\ UNCHANGED <<mem, net, th>>
          /\ c \in Session
          /\ \A k \in Lists : c \notin Items(mem, k)
      BY <1>0, <1>7 DEF InitSession, AcceptorFields, Places, HeldOnce, In, Connections, Connected, Fresh
    <2>2. /\ session'[c].fd = acc.sock /\ session'[c].server = NULL /\ session'[c].reactor = NULL
          /\ \A s \in Session \ {c} : session'[s] = session[s]
      BY <1>0, <1>7, <2>1 DEF InitSession, Blank
    <2>3. \A t \in Thread : /\ Serving(t)' = Serving(t)
                            /\ Serving(t) \subseteq Session \ {c}
                            /\ c \notin In(AddList(t))
      BY <1>0, <2>1, ServedAreSessions, ListNames DEF Serving, In
    <2>4. session[c].server = NULL /\ session[c].fd = NULL
      <3>1. session[c].server \in Thread \cup {NULL}
        BY <1>0, <2>1 DEF SessionFields
      <3>2. ~HasConnection(c)
        BY <2>1, <2>3 DEF HasConnection
      <3> QED
        BY <2>1, <2>3, <3>1, <3>2 DEF Connections, Owners, Connected
    <2>5. Owners'
      <3>1. \A t \in Thread, s \in Session : session'[s].server = t <=> s \in Serving(t)'
        BY <2>2, <2>3, GatewayAssumption DEF Connections, Owners
      <3>2. \A s \in Session : session'[s].reactor = session'[s].server
        BY <2>2 DEF Connections, Owners
      <3> QED
        BY <1>0, <2>1, <3>1, <3>2 DEF Owners, In
    <2>6. Fresh = {acc.sock} /\ Fresh' = {} /\ acc.sock # NULL
      BY <2>1, GatewayAssumption DEF Fresh
    <2>7. Connected'
      <3> SUFFICES ASSUME NEW s \in Session
                   PROVE  session'[s].fd # NULL <=> HasConnection(s)'
        BY <2>6 DEF Connected
      <3>1. CASE s = c
        BY <2>1, <2>2, <2>6, <3>1 DEF HasConnection
      <3>2. CASE s # c
        <4>1. HasConnection(s)' <=> HasConnection(s)
          BY <2>1, <3>2 DEF HasConnection, Serving, In
        <4> QED
          BY <2>2, <3>2, <4>1 DEF Connections, Connected
      <3> QED
        BY <3>1, <3>2
    <2>8. FdOwnedOnce'
      BY <2>1, <2>2, <2>4, <2>6 DEF Connections, FdOwnedOnce, Fresh, net
    <2>9. ReactorExact'
      BY <2>1, <2>2, <2>3 DEF Connections, ReactorExact, net
    <2> QED
      BY <2>5, <2>7, <2>8, <2>9 DEF Connections
  <1>8. CASE InitFails
    BY <1>8 DEF InitFails, Connections, FdOwnedOnce
  <1>9. CASE GiveBack
    BY <1>0, <1>9 DEF GiveBack
  <1>10. CASE AcceptorLockAdd
    <2>1. Fresh' = Fresh
      BY <1>0, <1>10 DEF AcceptorLockAdd, Fresh, AcceptorFields
    <2> QED
      BY <1>0, <1>10, <2>1, ConnectionsKept DEF AcceptorLockAdd, AcceptorFields
  <1>11. CASE HandOver
    <2> DEFINE l == AddList(acc.robin)
    <2>1. /\ mem' = Add(mem, l, acc.cur)
          /\ acc.pc = "handOver" /\ acc'.pc = "accept" /\ acc.robin \in Thread
          /\ UNCHANGED <<session, net, th>>
      BY <1>0, <1>11 DEF HandOver, AcceptorFields
    <2>2. acc.cur \in Session /\ \A k \in Lists : acc.cur \notin Items(mem, k)
      BY <1>0, <2>1 DEF AcceptorFields, Places, HeldOnce, In
    <2>3. /\ Items(mem', l) = Items(mem, l) \cup {acc.cur}
          /\ \A k \in Lists \ {l} : Items(mem', k) = Items(mem, k)
      BY <1>0, <2>1, <2>2, ListNames, AddApart
    <2>4. \A t \in Thread : /\ AddList(t) # l => In(AddList(t))' = In(AddList(t))
                            /\ In(Work(t))' = In(Work(t))
                            /\ Serving(t)' = Serving(t)
      BY <2>1, <2>3, ListNames, ListsDiffer DEF Serving, In
    <2>5. \A s \in Session : HasConnection(s)' <=> HasConnection(s)
      BY <2>1, <2>3, <2>4 DEF HasConnection, In
    <2>6. Fresh' = Fresh
      BY <2>1 DEF Fresh
    <2> QED
      BY <1>0, <2>1, <2>4, <2>5, <2>6, ConnectionsSame
  <1> QED
    BY <1>1, <1>2, <1>3, <1>4, <1>5, <1>6, <1>7, <1>8, <1>9, <1>10, <1>11 DEF AcceptorStep

(* The connection of a session is nobody else's. *)
LEMMA OwnConnection ==
    ASSUME TypeOK, Places, Connections, NEW s \in Session, session[s].fd # NULL
    PROVE  /\ session[s].fd \in openFds
           /\ session[s].fd \in FD
           /\ session[s].fd \notin Fresh
           /\ \A x \in Session \ {s} : session[x].fd # session[s].fd
           /\ \A t \in Thread : \A w \in epoll[t] : w[1] = session[s].fd => w[2] = s
  <1>1. /\ session[s].fd \in openFds
        /\ session[s].fd \notin Fresh
        /\ \A x \in Session \ {s} : session[x].fd # session[s].fd
    BY DEF Connections, FdOwnedOnce, Fresh
  <1>2. session[s].fd \in FD
    BY DEF TypeOK, DataTypes, SessionFields
  <1>3. ASSUME NEW t \in Thread, NEW w \in epoll[t], w[1] = session[s].fd
        PROVE  w[2] = s
    BY <1>1, <1>3, WatchedIsUsed
  <1> QED
    BY <1>1, <1>2, <1>3

(* A connection closes, and its session has it no more. *)
LEMMA FdClosed ==
    ASSUME TypeOK, Places, Connections, NEW s \in Session, session[s].fd # NULL,
           openFds' = openFds \ {session[s].fd}, session'[s].fd = NULL,
           \A x \in Session \ {s} : session'[x] = session[x],
           acc' = acc
    PROVE  FdOwnedOnce'
  <1>1. /\ session[s].fd \notin Fresh
        /\ \A x \in Session \ {s} : session[x].fd # session[s].fd
    BY OwnConnection
  <1>2. Fresh' = Fresh
    BY DEF Fresh
  <1>3. /\ openFds = {session[x].fd : x \in {y \in Session : session[y].fd # NULL}} \cup Fresh
        /\ \A x \in Session : session[x].fd # NULL => session[x].fd \notin Fresh
        /\ \A x, y \in Session : session[x].fd # NULL /\ session[x].fd = session[y].fd => x = y
    BY DEF Connections, FdOwnedOnce, Fresh
  <1>4. openFds' = {session'[x].fd : x \in {y \in Session : session'[y].fd # NULL}} \cup Fresh
    BY <1>1, <1>3
  <1>5. \A x \in Session : session'[x].fd # NULL => session'[x].fd \notin Fresh
    BY <1>3
  <1>6. \A x, y \in Session : session'[x].fd # NULL /\ session'[x].fd = session'[y].fd => x = y
    BY <1>3
  <1> QED
    BY <1>2, <1>4, <1>5, <1>6 DEF FdOwnedOnce, Fresh

(* A thread releases a session it serves. *)
LEMMA ReleaseConnections ==
    ASSUME Inv, Places, Connections, NEW t \in Thread, NEW s \in Session,
           ClientClosed(t, s)
    PROVE  Connections'
  <1> DEFINE fd == session[s].fd
  <1>0. /\ mem \in Memories
        /\ th \in [Thread -> ThreadFields]
        /\ session \in [Session -> SessionFields]
        /\ epoll \in [Thread -> SUBSET (FD \X Session)]
        /\ eventCount \in [Thread -> Int]
        /\ TypeOK
        /\ Apart(mem)
    BY DEF Inv, TypeOK, DataTypes, ControlTypes, Places
  <1>1. /\ th[t].pc = "events" /\ s \in Items(mem, Work(t))
        /\ session[s].server = t /\ session[s].reactor = t
    BY HandledIsServed DEF ClientClosed
  <1>2. /\ t # NULL
        /\ s \in Serving(t)
        /\ fd # NULL
    BY <1>1, GatewayAssumption DEF Connections, Connected, HasConnection, Serving, In
  <1>3. /\ fd \in FD
        /\ \A x \in Session \ {s} : session[x].fd # fd
        /\ \A u \in Thread : \A w \in epoll[u] : w[1] = fd => w[2] = s
        /\ fd \notin Fresh
    BY <1>0, <1>2, OwnConnection
  <1>4. <<fd, s>> \in epoll[t]
    BY <1>2 DEF Connections, ReactorExact
  <1>5. Counted(s)
    BY <1>1, <1>2, <1>4 DEF Counted, Watched
  <1>6. /\ eventCount' = [eventCount EXCEPT ![t] = @ - 1]
        /\ openFds' = openFds \ {fd}
        /\ epoll' = Unwatch(epoll, fd)
        /\ session' = [session EXCEPT ![s] = Blank]
        /\ mem' = MoveToClosed(mem, t, s)
        /\ th' = [th EXCEPT ![t].pending = @ \ {s}]
        /\ acc' = acc
    BY <1>1, <1>2, <1>5 DEF ClientClosed, Release, Handled
  <1>7. /\ session'[s].fd = NULL /\ session'[s].server = NULL /\ session'[s].reactor = NULL
        /\ \A x \in Session \ {s} : session'[x] = session[x]
    BY <1>0, <1>6 DEF Blank
  <1>8. /\ Items(mem', Work(t)) = Items(mem, Work(t)) \ {s}
        /\ \A k \in Lists \ {Work(t), Closed(t)} : Items(mem', k) = Items(mem, k)
    <2>1. HeadIsFirst(mem, Work(t))
      BY <1>1 DEF Places, Frames
    <2> QED
      BY <1>0, <1>1, <1>6, <2>1, CloseApart
  <1>9. /\ In(Temp(t)) = {} /\ In(Temp(t))' = {}
        /\ \A u \in Thread : In(AddList(u))' = In(AddList(u))
        /\ \A u \in Thread \ {t} : /\ In(Work(u))' = In(Work(u))
                                   /\ Serving(u)' = Serving(u)
    BY <1>1, <1>8, ListNames, ListsDiffer DEF Places, Frames, Serving, In
  <1>10. Serving(t)' = Serving(t) \ {s}
    BY <1>8, <1>9 DEF Serving, In
  <1>11. \A u \in Thread \ {t} : s \notin Serving(u)
    BY <1>1, <1>2 DEF Connections, Owners
  <1>12. \A u \in Thread : s \notin In(AddList(u))
    BY <1>0, <1>1, ListNames, ListsDiffer DEF Apart, In
  <1>13. acc.cur # s
    BY <1>1, ListNames DEF Places, HeldOnce, In
  <1>14. Owners'
    <2>1. \A u \in Thread, x \in Session : session'[x].server = u <=> x \in Serving(u)'
      <3> SUFFICES ASSUME NEW u \in Thread, NEW x \in Session
                   PROVE  session'[x].server = u <=> x \in Serving(u)'
        OBVIOUS
      <3>1. CASE x = s
        BY <1>7, <1>9, <1>10, <1>11, <3>1, GatewayAssumption
      <3>2. CASE x # s
        BY <1>7, <1>9, <1>10, <3>2 DEF Connections, Owners
      <3> QED
        BY <3>1, <3>2
    <2>2. \A x \in Session : session'[x].reactor = session'[x].server
      BY <1>7 DEF Connections, Owners
    <2>3. ASSUME NEW u \in Thread, th'[u].pc = "events"
          PROVE  th'[u].pending \ {LOGIC} \subseteq In(Work(u))'
      <3>1. CASE u = t
        <4>1. th[t].pending \ {LOGIC} \subseteq Items(mem, Work(t))
          BY <1>1 DEF Connections, Owners, In
        <4>2. th'[t].pending = th[t].pending \ {s}
          BY <1>0, <1>6 DEF ThreadFields
        <4> QED
          BY <1>8, <3>1, <4>1, <4>2 DEF In
      <3>2. CASE u # t
        BY <1>0, <1>6, <1>9, <2>3, <3>2 DEF Connections, Owners
      <3> QED
        BY <3>1, <3>2
    <2> QED
      BY <2>1, <2>2, <2>3 DEF Owners
  <1>15. Connected'
    <2>1. Fresh' = Fresh
      BY <1>6 DEF Fresh
    <2> SUFFICES ASSUME NEW x \in Session
                 PROVE  session'[x].fd # NULL <=> HasConnection(x)'
      BY <2>1 DEF Connections, Connected
    <2>2. CASE x = s
      <3>1. ~HasConnection(s)'
        BY <1>6, <1>9, <1>10, <1>11, <1>12, <1>13 DEF HasConnection
      <3> QED
        BY <1>7, <2>2, <3>1
    <2>3. CASE x # s
      <3>1. HasConnection(x)' <=> HasConnection(x)
        BY <1>6, <1>9, <1>10, <2>3 DEF HasConnection
      <3> QED
        BY <1>7, <2>3, <3>1 DEF Connections, Connected
    <2> QED
      BY <2>2, <2>3
  <1>16. FdOwnedOnce'
    BY <1>0, <1>2, <1>6, <1>7, FdClosed
  <1>17. ReactorExact'
    <2> SUFFICES ASSUME NEW u \in Thread
                 PROVE  /\ epoll'[u] = {<<session'[x].fd, x>> : x \in Serving(u)'}
                        /\ eventCount'[u] = Cardinality(epoll'[u])
                                + (IF th'[u].logic = "connected" THEN 1 ELSE 0)
      BY DEF ReactorExact
    <2>1. /\ epoll[u] = {<<session[x].fd, x>> : x \in Serving(u)}
          /\ eventCount[u] = Cardinality(epoll[u])
                             + (IF th[u].logic = "connected" THEN 1 ELSE 0)
      BY DEF Connections, ReactorExact
    <2>2. Serving(u) \subseteq Session
      BY <1>0, ServedAreSessions
    <2>3. th'[u].logic = th[u].logic
      BY <1>0, <1>6
    <2>4. epoll'[u] = {w \in epoll[u] : w[1] # fd}
      BY <1>6 DEF Unwatch
    <2>5. CASE u = t
      <3>1. epoll'[t] = epoll[t] \ {<<fd, s>>}
        BY <1>0, <1>3, <2>1, <2>4, <2>5
      <3>2. epoll'[t] = {<<session'[x].fd, x>> : x \in Serving(t)'}
        BY <1>2, <1>7, <1>10, <2>1, <2>2, <2>5, <3>1
      <3>3. Cardinality(epoll'[t]) = Cardinality(epoll[t]) - 1 /\ Cardinality(epoll[t]) \in Nat
        <4>1. IsFiniteSet(epoll[t])
          BY <1>0, Fewer
        <4> QED
          BY <1>4, <3>1, <4>1, OneLess
      <3>4. eventCount'[t] = eventCount[t] - 1
        BY <1>0, <1>6
      <3>5. eventCount'[t] = Cardinality(epoll'[t])
                             + (IF th'[t].logic = "connected" THEN 1 ELSE 0)
        <4> DEFINE old == Cardinality(epoll[t])
                   new == Cardinality(epoll'[t])
                   one == IF th[t].logic = "connected" THEN 1 ELSE 0
        <4>1. old \in Nat /\ new = old - 1 /\ one \in Int
          BY <3>3
        <4>2. eventCount[t] = old + one
          BY <2>1, <2>5
        <4> HIDE DEF old, new, one
        <4>3. eventCount'[t] = new + one
          BY <3>4, <4>1, <4>2
        <4> QED
          BY <2>3, <2>5, <4>3 DEF new, one
      <3> QED
        BY <2>5, <3>2, <3>5
    <2>6. CASE u # t
      <3>1. epoll'[u] = epoll[u]
        BY <1>3, <1>11, <2>1, <2>2, <2>4, <2>6
      <3>2. Serving(u)' = Serving(u) /\ s \notin Serving(u) /\ eventCount'[u] = eventCount[u]
        BY <1>0, <1>6, <1>9, <1>11, <2>6
      <3> QED
        BY <1>7, <2>1, <2>2, <2>3, <3>1, <3>2
    <2> QED
      BY <2>5, <2>6
  <1> QED
    BY <1>14, <1>15, <1>16, <1>17 DEF Connections

(* A thread takes a session over from the main thread. *)
LEMMA AdoptConnections ==
    ASSUME Inv, Places, Connections, NEW t \in Thread, Adopt(t)
    PROVE  Connections'
  <1> DEFINE h == FirstItem(mem, AddList(t))
             fd == session[h].fd
  <1>0. /\ mem \in Memories
        /\ session \in [Session -> SessionFields]
        /\ epoll \in [Thread -> SUBSET (FD \X Session)]
        /\ eventCount \in [Thread -> Int]
        /\ TypeOK
        /\ Apart(mem)
    BY DEF Inv, TypeOK, DataTypes, Places
  <1>1. /\ th[t].pc = "adopt" /\ h # NULL
        /\ openFds' = openFds
        /\ epoll' = [epoll EXCEPT ![t] = @ \cup {<<fd, h>>}]
        /\ eventCount' = [eventCount EXCEPT ![t] = @ + 1]
        /\ session' = [session EXCEPT ![h].reactor = t, ![h].server = t, ![h].handler = TRUE]
        /\ mem' = Add(PickUpFirstItem(mem, AddList(t)), Work(t), h)
        /\ UNCHANGED <<th, acc>>
    BY DEF Adopt
  <1>2. /\ AddList(t) \in Lists /\ Work(t) \in Lists /\ AddList(t) # Work(t)
    BY ListNames, ListsDiffer
  <1>3. /\ h \in Session
        /\ h \in Items(mem, AddList(t))
        /\ Items(mem', AddList(t)) = Items(mem, AddList(t)) \ {h}
        /\ Items(mem', Work(t)) = Items(mem, Work(t)) \cup {h}
        /\ \A k \in Lists \ {AddList(t), Work(t)} : Items(mem', k) = Items(mem, k)
    BY <1>0, <1>1, <1>2, MoveApart
  <1> HIDE DEF h
  <1>4. /\ session'[h].fd = fd /\ session'[h].server = t /\ session'[h].reactor = t
        /\ \A x \in Session \ {h} : session'[x] = session[x]
        /\ \A x \in Session : session'[x].fd = session[x].fd
    BY <1>0, <1>1, <1>3 DEF SessionFields
  <1>5. /\ In(AddList(t))' = In(AddList(t)) \ {h}
        /\ In(Work(t))' = In(Work(t)) \cup {h}
        /\ Serving(t)' = Serving(t) \cup {h}
        /\ \A u \in Thread \ {t} : /\ In(AddList(u))' = In(AddList(u))
                                   /\ In(Work(u))' = In(Work(u))
                                   /\ Serving(u)' = Serving(u)
    BY <1>3, ListNames, ListsDiffer DEF Serving, In
  <1>6. \A u \in Thread : h \notin Serving(u)
    BY <1>0, <1>2, <1>3, ListNames, ListsDiffer DEF Apart, Serving, In
  <1>7. HasConnection(h) /\ fd # NULL
    BY <1>3 DEF HasConnection, In, Connections, Connected
  <1>8. Owners'
    <2>1. \A u \in Thread, x \in Session : session'[x].server = u <=> x \in Serving(u)'
      <3> SUFFICES ASSUME NEW u \in Thread, NEW x \in Session
                   PROVE  session'[x].server = u <=> x \in Serving(u)'
        OBVIOUS
      <3>1. CASE x = h
        BY <1>4, <1>5, <1>6, <3>1
      <3>2. CASE x # h
        BY <1>4, <1>5, <3>2 DEF Connections, Owners
      <3> QED
        BY <3>1, <3>2
    <2>2. \A x \in Session : session'[x].reactor = session'[x].server
      BY <1>4 DEF Connections, Owners
    <2>3. \A u \in Thread : th'[u].pc = "events"
                => th'[u].pending \ {LOGIC} \subseteq In(Work(u))'
      BY <1>1, <1>5 DEF Connections, Owners
    <2> QED
      BY <2>1, <2>2, <2>3 DEF Owners
  <1>9. Fresh' = Fresh
    BY <1>1 DEF Fresh
  <1>10. Connected'
    <2> SUFFICES ASSUME NEW x \in Session
                 PROVE  session'[x].fd # NULL <=> HasConnection(x)'
      BY <1>9 DEF Connections, Connected
    <2>1. HasConnection(x)' <=> HasConnection(x)
      <3>1. (\E u \in Thread : x \in In(AddList(u))' \cup Serving(u)')
              <=> (\E u \in Thread : x \in In(AddList(u)) \cup Serving(u))
        BY <1>3, <1>5 DEF In
      <3> QED
        BY <1>1, <3>1 DEF HasConnection
    <2> QED
      BY <1>4, <2>1 DEF Connections, Connected
  <1>11. FdOwnedOnce'
    <2>1. {x \in Session : session'[x].fd # NULL} = {x \in Session : session[x].fd # NULL}
      BY <1>4
    <2>2. {session'[x].fd : x \in {y \in Session : session'[y].fd # NULL}}
            = {session[x].fd : x \in {y \in Session : session[y].fd # NULL}}
      BY <1>4, <2>1
    <2> QED
      BY <1>1, <1>4, <1>9, <2>1, <2>2 DEF Connections, FdOwnedOnce, Fresh
  <1>12. ReactorExact'
    <2> SUFFICES ASSUME NEW u \in Thread
                 PROVE  /\ epoll'[u] = {<<session'[x].fd, x>> : x \in Serving(u)'}
                        /\ eventCount'[u] = Cardinality(epoll'[u])
                                + (IF th'[u].logic = "connected" THEN 1 ELSE 0)
      BY DEF ReactorExact
    <2>1. /\ epoll[u] = {<<session[x].fd, x>> : x \in Serving(u)}
          /\ eventCount[u] = Cardinality(epoll[u])
                             + (IF th[u].logic = "connected" THEN 1 ELSE 0)
      BY DEF Connections, ReactorExact
    <2>2. Serving(u) \subseteq Session
      BY <1>0, ServedAreSessions
    <2>3. CASE u = t
      <3>1. epoll'[t] = epoll[t] \cup {<<fd, h>>} /\ <<fd, h>> \notin epoll[t]
        BY <1>0, <1>1, <1>6, <2>1, <2>3
      <3>2. epoll'[t] = {<<session'[x].fd, x>> : x \in Serving(t)'}
        BY <1>4, <1>5, <2>1, <2>2, <2>3, <3>1
      <3>3. Cardinality(epoll'[t]) = Cardinality(epoll[t]) + 1 /\ Cardinality(epoll[t]) \in Nat
        <4>1. IsFiniteSet(epoll[t])
          BY <1>0, Fewer
        <4> QED
          BY <3>1, <4>1, OneMore
      <3>4. eventCount'[t] = eventCount[t] + 1
        BY <1>0, <1>1
      <3>5. eventCount'[t] = Cardinality(epoll'[t])
                             + (IF th'[t].logic = "connected" THEN 1 ELSE 0)
        <4> DEFINE old == Cardinality(epoll[t])
                   new == Cardinality(epoll'[t])
                   one == IF th[t].logic = "connected" THEN 1 ELSE 0
        <4>1. old \in Nat /\ new = old + 1 /\ one \in Int
          BY <3>3
        <4>2. eventCount[t] = old + one
          BY <2>1, <2>3
        <4> HIDE DEF old, new, one
        <4>3. eventCount'[t] = new + one
          BY <3>4, <4>1, <4>2
        <4> QED
          BY <1>1, <4>3 DEF new, one
      <3> QED
        BY <2>3, <3>2, <3>5
    <2>4. CASE u # t
      <3>1. epoll'[u] = epoll[u] /\ eventCount'[u] = eventCount[u] /\ Serving(u)' = Serving(u)
        BY <1>0, <1>1, <1>5, <2>4
      <3>2. {<<session'[x].fd, x>> : x \in Serving(u)} = {<<session[x].fd, x>> : x \in Serving(u)}
        BY <1>4, <2>2
      <3> QED
        BY <1>1, <2>1, <3>1, <3>2
    <2> QED
      BY <2>3, <2>4
  <1> QED
    BY <1>8, <1>10, <1>11, <1>12 DEF Connections

(* A thread turns down a session of the main thread. *)
LEMMA AdoptFailsConnections ==
    ASSUME Inv, Places, Connections, NEW t \in Thread, AdoptFails(t)
    PROVE  Connections'
  <1> DEFINE h == FirstItem(mem, AddList(t))
             fd == session[h].fd
  <1>0. /\ mem \in Memories
        /\ th \in [Thread -> ThreadFields]
        /\ session \in [Session -> SessionFields]
        /\ epoll \in [Thread -> SUBSET (FD \X Session)]
        /\ TypeOK
        /\ Apart(mem)
    BY DEF Inv, TypeOK, DataTypes, ControlTypes, Places
  <1>1. /\ th[t].pc = "adopt" /\ h # NULL
        /\ openFds' = openFds \ {fd}
        /\ epoll' = Unwatch(epoll, fd)
        /\ eventCount' = eventCount
        /\ session' = [session EXCEPT ![h].fd = NULL, ![h].handler = TRUE]
        /\ mem' = PickUpFirstItem(mem, AddList(t))
        /\ th' = [th EXCEPT ![t].pc = "lockFree", ![t].ret = "adopt", ![t].cur = h]
        /\ acc' = acc
    BY DEF AdoptFails
  <1>2. AddList(t) \in Lists
    BY ListNames
  <1>3. /\ h \in Session
        /\ h \in Items(mem, AddList(t))
        /\ Items(mem', AddList(t)) = Items(mem, AddList(t)) \ {h}
        /\ \A k \in Lists \ {AddList(t)} : Items(mem', k) = Items(mem, k)
        /\ \A k \in Lists : h \notin Items(mem', k)
    BY <1>0, <1>1, <1>2, PickUpApart
  <1> HIDE DEF h
  <1>4. /\ session'[h].fd = NULL
        /\ \A x \in Session \ {h} : session'[x] = session[x]
        /\ \A x \in Session : /\ session'[x].server = session[x].server
                              /\ session'[x].reactor = session[x].reactor
    BY <1>0, <1>1, <1>3 DEF SessionFields
  <1>5. /\ In(AddList(t))' = In(AddList(t)) \ {h}
        /\ \A u \in Thread : /\ u # t => In(AddList(u))' = In(AddList(u))
                             /\ In(Work(u))' = In(Work(u))
                             /\ Serving(u)' = Serving(u)
    BY <1>3, ListNames, ListsDiffer DEF Serving, In
  <1>6. \A u \in Thread : h \notin Serving(u)
    BY <1>0, <1>2, <1>3, ListNames, ListsDiffer DEF Apart, Serving, In
  <1>7. fd # NULL
    BY <1>3 DEF HasConnection, In, Connections, Connected
  <1>8. epoll' = epoll
    <2>1. \A u \in Thread : \A w \in epoll[u] : w[1] # fd
      BY <1>0, <1>3, <1>6, <1>7, OwnConnection, WatchedIsUsed
    <2> QED
      BY <1>0, <1>1, <2>1 DEF Unwatch
  <1>9. \A u \in Thread : /\ th'[u].logic = th[u].logic
                          /\ th'[u].pc = "events" =>
                                /\ th[u].pc = "events"
                                /\ th'[u].pending = th[u].pending
    BY <1>0, <1>1 DEF ThreadFields
  <1>10. Owners'
    <2>1. \A u \in Thread, x \in Session : session'[x].server = u <=> x \in Serving(u)'
      BY <1>4, <1>5 DEF Connections, Owners
    <2>2. \A x \in Session : session'[x].reactor = session'[x].server
      BY <1>4 DEF Connections, Owners
    <2>3. \A u \in Thread : th'[u].pc = "events"
                => th'[u].pending \ {LOGIC} \subseteq In(Work(u))'
      BY <1>5, <1>9 DEF Connections, Owners
    <2> QED
      BY <2>1, <2>2, <2>3 DEF Owners
  <1>11. Fresh' = Fresh
    BY <1>1 DEF Fresh
  <1>12. Connected'
    <2> SUFFICES ASSUME NEW x \in Session
                 PROVE  session'[x].fd # NULL <=> HasConnection(x)'
      BY <1>11 DEF Connections, Connected
    <2>1. CASE x = h
      <3>1. acc.cur # h
        BY <1>2, <1>3 DEF Places, HeldOnce, In
      <3>2. \A u \in Thread : h \notin In(AddList(u))'
        BY <1>3, ListNames DEF In
      <3> QED
        BY <1>1, <1>4, <1>5, <1>6, <2>1, <3>1, <3>2 DEF HasConnection
    <2>2. CASE x # h
      <3>1. HasConnection(x)' <=> HasConnection(x)
        BY <1>1, <1>5, <2>2 DEF HasConnection
      <3> QED
        BY <1>4, <2>2, <3>1 DEF Connections, Connected
    <2> QED
      BY <2>1, <2>2
  <1>13. FdOwnedOnce'
    BY <1>0, <1>1, <1>3, <1>4, <1>7, FdClosed
  <1>14. ReactorExact'
    <2> SUFFICES ASSUME NEW u \in Thread
                 PROVE  /\ epoll'[u] = {<<session'[x].fd, x>> : x \in Serving(u)'}
                        /\ eventCount'[u] = Cardinality(epoll'[u])
                                + (IF th'[u].logic = "connected" THEN 1 ELSE 0)
      BY DEF ReactorExact
    <2>1. /\ epoll[u] = {<<session[x].fd, x>> : x \in Serving(u)}
          /\ eventCount[u] = Cardinality(epoll[u])
                             + (IF th[u].logic = "connected" THEN 1 ELSE 0)
      BY DEF Connections, ReactorExact
    <2>2. Serving(u) \subseteq Session \ {h}
      BY <1>0, <1>6, ServedAreSessions
    <2>3. {<<session'[x].fd, x>> : x \in Serving(u)} = {<<session[x].fd, x>> : x \in Serving(u)}
      BY <1>4, <2>2
    <2> QED
      BY <1>1, <1>5, <1>8, <1>9, <2>1, <2>3
  <1> QED
    BY <1>10, <1>12, <1>13, <1>14 DEF Connections

(* A step of a thread that moves no session and opens or closes nothing. *)
LEMMA ThreadConnectionsKept ==
    ASSUME Inv, Places, Connections, NEW t \in Thread,
           UNCHANGED <<mem, session, net, acc>>,
           \A u \in Thread \ {t} : th'[u] = th[u],
           th'[t].logic = "connected" <=> th[t].logic = "connected",
           th'[t].pc = "events" =>
                \/ th[t].pc = "events" /\ th'[t].pending \subseteq th[t].pending
                \/ th'[t].pending \ {LOGIC} \subseteq In(Work(t))
    PROVE  Connections'
  <1>1. TypeOK
    BY DEF Inv
  <1>2. Fresh' = Fresh
    BY DEF Fresh
  <1>3. \A u \in Thread : /\ th'[u].pc = "events" => th'[u].pending \ {LOGIC} \subseteq In(Work(u))
                          /\ th'[u].logic = "connected" <=> th[u].logic = "connected"
    <2> SUFFICES ASSUME NEW u \in Thread
                 PROVE  /\ th'[u].pc = "events" => th'[u].pending \ {LOGIC} \subseteq In(Work(u))
                        /\ th'[u].logic = "connected" <=> th[u].logic = "connected"
      OBVIOUS
    <2>1. th[u].pc = "events" => th[u].pending \ {LOGIC} \subseteq In(Work(u))
      BY DEF Connections, Owners
    <2> QED
      BY <2>1
  <1> QED
    BY <1>1, <1>2, <1>3, ConnectionsKept

(* The connection to the logic server comes up: one more event. *)
LEMMA ConnectConnections ==
    ASSUME Inv, Places, Connections, NEW t \in Thread, ConnectOk(t)
    PROVE  Connections'
  <1>1. /\ UNCHANGED <<mem, session, openFds, epoll, acc>>
        /\ eventCount' = [eventCount EXCEPT ![t] = @ + 1]
        /\ th[t].logic = "open" /\ th'[t].logic = "connected"
        /\ th'[t].pc = "tick"
        /\ \A u \in Thread \ {t} : th'[u] = th[u]
    BY DEF ConnectOk, Inv, TypeOK, ControlTypes, ThreadFields
  <1>2. \A u \in Thread : Serving(u)' = Serving(u) /\ In(AddList(u))' = In(AddList(u))
    BY <1>1 DEF Serving, In
  <1>3. Owners'
    BY <1>1, <1>2 DEF Connections, Owners, In
  <1>4. Fresh' = Fresh /\ \A s \in Session : HasConnection(s)' <=> HasConnection(s)
    BY <1>1, <1>2 DEF Fresh, HasConnection
  <1>5. Connected'
    BY <1>1, <1>4 DEF Connections, Connected
  <1>6. FdOwnedOnce'
    BY <1>1, <1>4 DEF Connections, FdOwnedOnce, Fresh
  <1>7. ReactorExact'
    <2> SUFFICES ASSUME NEW u \in Thread
                 PROVE  /\ epoll[u] = {<<session[x].fd, x>> : x \in Serving(u)}
                        /\ eventCount'[u] = Cardinality(epoll[u])
                                + (IF th'[u].logic = "connected" THEN 1 ELSE 0)
      BY <1>1, <1>2 DEF ReactorExact
    <2>1. /\ epoll[u] = {<<session[x].fd, x>> : x \in Serving(u)}
          /\ eventCount[u] = Cardinality(epoll[u])
                             + (IF th[u].logic = "connected" THEN 1 ELSE 0)
      BY DEF Connections, ReactorExact
    <2>2. CASE u = t
      <3>1. eventCount'[t] = eventCount[t] + 1
        BY <1>1 DEF Inv, TypeOK, DataTypes
      <3>2. eventCount[t] = Cardinality(epoll[t]) + 0 /\ Cardinality(epoll[t]) \in Nat
        BY <1>1, <2>1, <2>2, Fewer DEF Inv
      <3>3. eventCount'[t] = Cardinality(epoll[t]) + 1
        <4> DEFINE watched == Cardinality(epoll[t])
        <4>1. watched \in Nat /\ eventCount[t] = watched + 0
          BY <3>2
        <4> HIDE DEF watched
        <4>2. eventCount'[t] = watched + 1
          BY <3>1, <4>1
        <4> QED
          BY <4>2 DEF watched
      <3> QED
        BY <1>1, <2>1, <2>2, <3>3
    <2>3. CASE u # t
      <3>1. eventCount'[u] = eventCount[u] /\ th'[u] = th[u]
        BY <1>1, <2>3 DEF Inv, TypeOK, DataTypes
      <3> QED
        BY <2>1, <3>1
    <2> QED
      BY <2>2, <2>3
  <1> QED
    BY <1>3, <1>5, <1>6, <1>7 DEF Connections

(* The gateway threads keep the connections and the sessions together. *)
LEMMA ThreadConnections ==
    ASSUME NothingFails, Inv, Places, Connections, NEW t \in Thread, ThreadStep(t)
    PROVE  Connections'
  <1>0. /\ mem \in Memories
        /\ th \in [Thread -> ThreadFields]
        /\ session \in [Session -> SessionFields]
        /\ epoll \in [Thread -> SUBSET (FD \X Session)]
        /\ TypeOK
        /\ Apart(mem)
        /\ \A u \in Thread : th[u].pc # "stop" /\ th[u].ret # "stop"
        /\ \A u \in Thread : th[u].pc = "events" => th[u].pending \ {LOGIC} \subseteq In(Work(u))
    BY DEF Inv, TypeOK, DataTypes, ControlTypes, Places, Frames, Connections, Owners
  <1> USE DEF ThreadFields
  <1>1. CASE ConnectFails(t)
    BY <1>0, <1>1, ThreadConnectionsKept DEF ConnectFails, Goto
  <1>2. CASE ConnectOk(t)
    BY <1>2, ConnectConnections
  <1>3. CASE ConnectRefused(t)
    BY <1>0, <1>3, ThreadConnectionsKept DEF ConnectRefused
  <1>4. CASE DrainClosed(t)
    <2>1. /\ mem' = PickUpFirstItem(mem, Closed(t)) /\ FirstItem(mem, Closed(t)) # NULL
          /\ UNCHANGED <<session, net, acc>>
          /\ th'[t].pc = "lockFree" /\ th'[t].logic = th[t].logic
          /\ \A u \in Thread \ {t} : th'[u] = th[u]
      BY <1>0, <1>4 DEF DrainClosed
    <2>2. \A k \in Lists \ {Closed(t)} : Items(mem', k) = Items(mem, k)
      BY <1>0, <2>1, ListNames, PickUpApart
    <2>3. \A u \in Thread : /\ In(AddList(u))' = In(AddList(u))
                            /\ In(Work(u))' = In(Work(u))
                            /\ Serving(u)' = Serving(u)
      BY <2>2, ListNames, ListsDiffer DEF Serving, In
    <2>4. \A s \in Session : HasConnection(s)' <=> HasConnection(s)
      BY <2>1, <2>3 DEF HasConnection
    <2>5. Fresh' = Fresh
      BY <2>1 DEF Fresh
    <2> QED
      BY <1>0, <2>1, <2>3, <2>4, <2>5, ConnectionsSame
  <1>5. CASE LockFree(t)
    BY <1>0, <1>5, ThreadConnectionsKept DEF LockFree, Goto
  <1>6. CASE ReturnSession(t)
    <2>1. /\ mem' = Add(mem, Free, th[t].cur) /\ th[t].pc = "free"
          /\ UNCHANGED <<session, net, acc>>
          /\ th'[t].pc # "events" /\ th'[t].logic = th[t].logic
          /\ \A u \in Thread \ {t} : th'[u] = th[u]
      BY <1>0, <1>6 DEF ReturnSession
    <2>2. th[t].cur \in Session /\ \A k \in Lists : th[t].cur \notin Items(mem, k)
      BY <1>0, <2>1 DEF Places, HeldOnce, In
    <2>3. \A k \in Lists \ {Free} : Items(mem', k) = Items(mem, k)
      BY <1>0, <2>1, <2>2, ListNames, AddApart
    <2>4. \A u \in Thread : /\ In(AddList(u))' = In(AddList(u))
                            /\ In(Work(u))' = In(Work(u))
                            /\ Serving(u)' = Serving(u)
      BY <2>3, ListNames, ListsDiffer DEF Serving, In
    <2>5. \A s \in Session : HasConnection(s)' <=> HasConnection(s)
      BY <2>1, <2>4 DEF HasConnection
    <2>6. Fresh' = Fresh
      BY <2>1 DEF Fresh
    <2> QED
      BY <1>0, <2>1, <2>4, <2>5, <2>6, ConnectionsSame
  <1>7. CASE LockAdd(t)
    BY <1>0, <1>7, ThreadConnectionsKept DEF LockAdd, Goto
  <1>8. CASE Adopt(t)
    BY <1>8, AdoptConnections
  <1>9. CASE AdoptFails(t)
    BY <1>9, AdoptFailsConnections
  <1>10. CASE UnlockAdd(t)
    BY <1>0, <1>10, ThreadConnectionsKept DEF UnlockAdd, Goto
  <1>11. CASE Poll(t)
    <2>1. PICK ready \in SUBSET ({w[2] : w \in epoll[t]} \cup {LOGIC}) :
            th' = [th EXCEPT ![t].pc = "events", ![t].pending = ready]
      BY <1>11 DEF Poll
    <2>2. In(Temp(t)) = {}
      BY <1>11 DEF Poll, Places, Frames
    <2>3. \A w \in epoll[t] : w[2] \in In(Work(t))
      BY <1>0, <2>2, WatchedIsUsed DEF Serving
    <2>4. ready \ {LOGIC} \subseteq In(Work(t))
      BY <2>3
    <2> QED
      BY <1>0, <1>11, <2>1, <2>4, ThreadConnectionsKept DEF Poll
  <1>12. CASE EventsDone(t)
    BY <1>0, <1>12, ThreadConnectionsKept DEF EventsDone, Goto
  <1>13. ASSUME NEW s \in Session, ClientIdle(t, s)
         PROVE  Connections'
    BY <1>0, <1>13, ThreadConnectionsKept DEF ClientIdle, Handling, Handled
  <1>14. ASSUME NEW s \in Session, ClientInvalid(t, s)
         PROVE  Connections'
    BY <1>14, HandledIsServed, GatewayAssumption DEF ClientInvalid
  <1>15. ASSUME NEW s \in Session, ClientClosed(t, s)
         PROVE  Connections'
    BY <1>15, ReleaseConnections
  <1>16. ASSUME NEW s \in Session, NEW g \in Guid, Login(t, s, g)
         PROVE  Connections'
    <2>1. /\ UNCHANGED <<mem, net, acc>>
          /\ session' = [session EXCEPT ![s].guid = g]
          /\ th[t].pc = "events" /\ th' = [th EXCEPT ![t].pending = @ \ {s}]
      BY <1>16 DEF Login, Handling, Handled
    <2>2. \A x \in Session : /\ session'[x].fd = session[x].fd
                             /\ session'[x].server = session[x].server
                             /\ session'[x].reactor = session[x].reactor
      BY <1>0, <2>1 DEF SessionFields
    <2>3. \A u \in Thread : /\ th'[u].pc = "events" => th'[u].pending \ {LOGIC} \subseteq In(Work(u))
                            /\ th'[u].logic = "connected" <=> th[u].logic = "connected"
      BY <1>0, <2>1
    <2>4. Fresh' = Fresh
      BY <2>1 DEF Fresh
    <2> QED
      BY <1>0, <2>1, <2>2, <2>3, <2>4, ConnectionsKept
  <1>17. ASSUME NEW g \in Guid, LogicData(t, g)
         PROVE  Connections'
    BY <1>0, <1>17, ThreadConnectionsKept DEF LogicData, Handling, Handled
  <1>18. CASE LogicIdle(t)
    BY <1>0, <1>18, ThreadConnectionsKept DEF LogicIdle, Handling, Handled
  <1>19. CASE LogicClosed(t)
    BY <1>19 DEF LogicClosed, NothingFails
  <1>20. CASE StopSession(t)
    BY <1>0, <1>20 DEF StopSession
  <1>21. CASE StopReturn(t)
    BY <1>0, <1>21 DEF StopReturn
  <1>22. CASE StopDone(t)
    BY <1>0, <1>22 DEF StopDone
  <1>23. CASE TickOk(t)
    <2> DEFINE h == FirstItem(mem, Work(t))
    <2>0. Work(t) \in Lists /\ Temp(t) \in Lists /\ Work(t) # Temp(t)
      BY ListNames, ListsDiffer
    <2>1. /\ h # NULL /\ th[t].pc = "tick"
          /\ mem' = Add(PickUpFirstItem(mem, Work(t)), Temp(t), h)
          /\ UNCHANGED <<session, net, th, acc>>
      BY <1>23 DEF TickOk
    <2>2. /\ h \in Items(mem, Work(t))
          /\ Items(mem', Work(t)) = Items(mem, Work(t)) \ {h}
          /\ Items(mem', Temp(t)) = Items(mem, Temp(t)) \cup {h}
          /\ \A k \in Lists \ {Work(t), Temp(t)} : Items(mem', k) = Items(mem, k)
      BY <1>0, <2>0, <2>1, MoveApart
    <2> HIDE DEF h
    <2>3. \A u \in Thread : /\ In(AddList(u))' = In(AddList(u))
                            /\ u # t => In(Work(u))' = In(Work(u))
                            /\ Serving(u)' = Serving(u)
      <3>1. Serving(t)' = Serving(t)
        BY <2>2 DEF Serving, In
      <3> QED
        BY <2>2, <3>1, ListNames, ListsDiffer DEF Serving, In
    <2>4. \A s \in Session : HasConnection(s)' <=> HasConnection(s)
      BY <2>1, <2>3 DEF HasConnection
    <2>5. Fresh' = Fresh
      BY <2>1 DEF Fresh
    <2>6. \A u \in Thread : th'[u].pc = "events" => th'[u].pending \ {LOGIC} \subseteq In(Work(u))'
      BY <1>0, <2>1, <2>3
    <2> QED
      BY <1>0, <2>1, <2>3, <2>4, <2>5, <2>6, ConnectionsSame
  <1>24. CASE TickFails(t)
    BY <1>24 DEF TickFails, NothingFails
  <1>25. CASE TickDone(t)
    <2>1. /\ FirstItem(mem, Work(t)) = NULL
          /\ mem' = CleanUpList(Assign(mem, Work(t), Temp(t)), Temp(t))
          /\ UNCHANGED <<session, net, acc>>
          /\ th[t].pc = "tick" /\ th'[t].pc = "run" /\ th'[t].logic = th[t].logic
          /\ \A u \in Thread \ {t} : th'[u] = th[u]
      BY <1>0, <1>25 DEF TickDone, Goto
    <2>2. Items(mem, Work(t)) = {} /\ HeadIsFirst(mem, Temp(t))
      <3>1. Work(t) \in Lists /\ mem \in MemoryOf(Session, Lists) /\ WellFormed(mem, Work(t))
        BY <1>0, ListNames, GatewayMemory DEF Apart
      <3> QED
        BY <2>1, <3>1, NoNull, FirstItemOfList DEF Places, Frames
    <2>3. /\ Items(mem', Work(t)) = Items(mem, Temp(t)) /\ Items(mem', Temp(t)) = {}
          /\ \A k \in Lists \ {Work(t), Temp(t)} : Items(mem', k) = Items(mem, k)
      BY <1>0, <2>1, <2>2, AssignApart
    <2>4. \A u \in Thread : /\ In(AddList(u))' = In(AddList(u))
                            /\ u # t => In(Work(u))' = In(Work(u))
                            /\ Serving(u)' = Serving(u)
      <3>1. Serving(t)' = Serving(t)
        BY <2>2, <2>3 DEF Serving, In
      <3> QED
        BY <2>3, <3>1, ListNames, ListsDiffer DEF Serving, In
    <2>5. \A s \in Session : HasConnection(s)' <=> HasConnection(s)
      BY <2>1, <2>4 DEF HasConnection
    <2>6. Fresh' = Fresh
      BY <2>1 DEF Fresh
    <2>7. \A u \in Thread : th'[u].pc = "events" => th'[u].pending \ {LOGIC} \subseteq In(Work(u))'
      BY <1>0, <2>1, <2>4
    <2> QED
      BY <1>0, <2>1, <2>4, <2>5, <2>6, <2>7, ConnectionsSame
  <1> QED
    BY <1>1, <1>2, <1>3, <1>4, <1>5, <1>6, <1>7, <1>8, <1>9, <1>10, <1>11, <1>12, <1>13,
       <1>14, <1>15, <1>16, <1>17, <1>18, <1>19, <1>20, <1>21, <1>22, <1>23, <1>24, <1>25
    DEF ThreadStep

-----------------------------------------------------------------------------
(* GYServer::Init puts the sessions on the free list, the first one last, and *)
(* nothing else has happened.                                                *)
LEMMA InitPlaces ==
    ASSUME Init
    PROVE  Places /\ Connections
  <1> DEFINE q == [i \in 1 .. SessionCount |-> SessionCount + 1 - i]
  <1>0. /\ mem \in MemoryOf(Session, Lists)
        /\ SessionCount \in Nat \ {0}
        /\ \A s \in Session : s # NULL
        /\ mem.head[Free] = SessionCount /\ mem.count[Free] = SessionCount
        /\ \A l \in Lists \ {Free} : mem.head[l] = NULL /\ mem.count[l] = 0
    BY InitType, GatewayMemory, GatewayAssumption, NoNull, ListNames
    DEF Init, Inv, TypeOK, DataTypes
  <1>1. Chain(Session, mem, Free, q)
    <2>1. q \in [1 .. SessionCount -> Session]
      BY <1>0 DEF Session
    <2>2. \A i \in 1 .. SessionCount :
            mem.next[q[i]] = IF i = SessionCount THEN NULL ELSE q[i + 1]
      <3> SUFFICES ASSUME NEW i \in 1 .. SessionCount
                   PROVE  mem.next[q[i]] = IF i = SessionCount THEN NULL ELSE q[i + 1]
        OBVIOUS
      <3>1. q[i] = SessionCount + 1 - i /\ q[i] \in Session
        BY <1>0 DEF Session
      <3>2. mem.next[q[i]] = IF q[i] = 1 THEN NULL ELSE q[i] - 1
        BY <3>1 DEF Init
      <3>3. i # SessionCount => q[i + 1] = SessionCount + 1 - (i + 1)
        BY <1>0
      <3> QED
        BY <1>0, <3>1, <3>2, <3>3
    <2>3. \A i \in 2 .. SessionCount : mem.prev[q[i]] = q[i - 1]
      <3> SUFFICES ASSUME NEW i \in 2 .. SessionCount
                   PROVE  mem.prev[q[i]] = q[i - 1]
        OBVIOUS
      <3>1. q[i] = SessionCount + 1 - i /\ q[i] \in Session
        BY <1>0 DEF Session
      <3>2. mem.prev[q[i]] = IF q[i] = SessionCount THEN NULL ELSE q[i] + 1
        BY <3>1 DEF Init
      <3>3. q[i - 1] = SessionCount + 1 - (i - 1)
        BY <1>0
      <3> QED
        BY <1>0, <3>1, <3>2, <3>3
    <2>4. \A i, j \in 1 .. SessionCount : q[i] = q[j] => i = j
      BY <1>0
    <2>5. q[1] = SessionCount
      BY <1>0
    <2> HIDE DEF q
    <2> QED
      BY <1>0, <2>1, <2>2, <2>3, <2>4, <2>5 DEF Chain
  <1>2. WellFormed(mem, Free) /\ Items(mem, Free) = {q[i] : i \in 1 .. SessionCount}
    <2> HIDE DEF q
    <2> QED
      BY <1>0, <1>1, NoNull, ListNames, NewChain
  <1>3. Items(mem, Free) = Session
    <2>1. \A s \in Session : /\ SessionCount + 1 - s \in 1 .. SessionCount
                             /\ q[SessionCount + 1 - s] = s
      BY <1>0 DEF Session
    <2>2. \A i \in 1 .. SessionCount : q[i] \in Session
      BY <1>0 DEF Session
    <2> HIDE DEF q
    <2> QED
      BY <1>2, <2>1, <2>2
  <1>4. \A l \in Lists \ {Free} : WellFormed(mem, l) /\ Items(mem, l) = {} /\ HeadIsFirst(mem, l)
    BY <1>0, NoNull, EmptyList
  <1> HIDE DEF q
  <1>5. Apart(mem)
    BY <1>2, <1>4 DEF Apart
  <1>6. /\ \A t \in Thread : th[t].pc = "run" /\ th[t].ret = "run" /\ th[t].cur = NULL
                             /\ th[t].logic = "open"
        /\ acc.pc = "accept" /\ acc.cur = NULL
        /\ \A s \in Session : session[s] = Blank
        /\ openFds = {}
        /\ \A t \in Thread : epoll[t] = {} /\ eventCount[t] = 0
    BY DEF Init
  <1>7. HeldOnce
    <2>1. \A l \in Lists : NULL \notin In(l)
      BY <1>0, <1>3, <1>4 DEF In
    <2> QED
      BY <1>6, <2>1 DEF HeldOnce
  <1>8. Somewhere
    BY <1>3, ListNames DEF Somewhere, In
  <1>9. \A t \in Thread : /\ Free \notin {AddList(t), Work(t), Temp(t)}
                          /\ In(AddList(t)) = {} /\ In(Work(t)) = {} /\ In(Temp(t)) = {}
    BY <1>4, ListNames, ListsDiffer DEF In
  <1>10. Frames
    BY <1>4, <1>6, <1>9, ListNames DEF Frames
  <1>11. \A t \in Thread : Serving(t) = {}
    BY <1>9 DEF Serving
  <1>12. Owners
    BY <1>6, <1>11, GatewayAssumption DEF Owners, Blank
  <1>13. Connected
    BY <1>6, <1>9, <1>11 DEF Connected, Fresh, HasConnection, Blank
  <1>14. FdOwnedOnce
    BY <1>6 DEF FdOwnedOnce, Blank
  <1>15. ReactorExact
    <2>1. \A t \in Thread : epoll[t] = {<<session[s].fd, s>> : s \in Serving(t)}
      BY <1>6, <1>11
    <2>2. Cardinality({}) = 0
      BY FS_EmptySet
    <2>3. \A t \in Thread : eventCount[t] = Cardinality(epoll[t])
                                + (IF th[t].logic = "connected" THEN 1 ELSE 0)
      <3> SUFFICES ASSUME NEW t \in Thread
                   PROVE  eventCount[t] = Cardinality(epoll[t])
                                + (IF th[t].logic = "connected" THEN 1 ELSE 0)
        OBVIOUS
      <3>1. eventCount[t] = 0 /\ Cardinality(epoll[t]) = 0 /\ th[t].logic = "open"
        BY <1>6, <2>2
      <3> QED
        BY <3>1
    <2> QED
      BY <2>1, <2>3 DEF ReactorExact
  <1> QED
    BY <1>5, <1>7, <1>8, <1>10, <1>12, <1>13, <1>14, <1>15 DEF Places, Connections

(* Every step keeps the sessions and the connections together. *)
LEMMA NextPlaces ==
    ASSUME NothingFails, Inv, Places, Connections, [Next]_vars
    PROVE  Places' /\ Connections'
  <1>1. CASE UNCHANGED vars
    <2>1. UNCHANGED <<mem, session, openFds, epoll, eventCount, th, acc>>
      BY <1>1 DEF vars, net
    <2>2. Places'
      BY <2>1 DEF Places, HeldOnce, Somewhere, Frames, In
    <2>3. Owners' /\ ReactorExact'
      BY <2>1 DEF Connections, Owners, ReactorExact, Serving, In
    <2>4. Connected'
      BY <2>1 DEF Connections, Connected, Fresh, HasConnection, Serving, In
    <2>5. FdOwnedOnce'
      BY <2>1 DEF Connections, FdOwnedOnce
    <2> QED
      BY <2>2, <2>3, <2>4, <2>5 DEF Connections
  <1>2. CASE AcceptorStep
    BY <1>2, AcceptorPlaces, AcceptorConnections
  <1>3. CASE \E t \in Thread : ThreadStep(t)
    BY <1>3, ThreadPlaces, ThreadConnections
  <1> QED
    BY <1>1, <1>2, <1>3 DEF Next, Dead

(* The inductive invariant holds of every run in which nothing fails. *)
LEMMA OwnersInvariant ==
    ASSUME NothingFails
    PROVE  Spec => [](Inv /\ Places /\ Connections)
  <1>1. Init => Inv /\ Places /\ Connections
    BY InitType, InitPlaces
  <1>2. Inv /\ Places /\ Connections /\ [Next]_vars => (Inv /\ Places /\ Connections)'
    BY NextType, NextPlaces
  <1> QED
    BY <1>1, <1>2, PTL DEF Spec

(* As long as nothing but the clients misbehaves, every list of sessions     *)
(* stays a list through all the moves of PickUpFirstItem, Add, Delete and    *)
(* assignment: its count is its length and its links agree in both           *)
(* directions.                                                               *)
THEOREM ListsStayLists ==
    ASSUME NothingFails
    PROVE  Spec => []ListsWellFormed
  <1>1. Places => ListsWellFormed
    BY DEF Places, Apart, ListsWellFormed
  <1> QED
    BY <1>1, OwnersInvariant, PTL

(* From being somewhere, and in no two places, to being in one. *)
LEMMA OnePlace ==
    ASSUME Inv, Places
    PROVE  OneOwner
  <1> SUFFICES ASSUME NEW s \in Session
               PROVE  Cardinality({l \in Lists : s \in In(l)})
                        + Cardinality({t \in Thread : th[t].cur = s})
                        + (IF acc.cur = s THEN 1 ELSE 0) = 1
    BY DEF OneOwner
  <1> DEFINE on == {l \in Lists : s \in In(l)}
             by == {t \in Thread : th[t].cur = s}
  <1>0. s # NULL
    BY NoNull
  <1>1. CASE \E l \in Lists : s \in In(l)
    <2>1. PICK l \in Lists : s \in In(l)
      BY <1>1
    <2>2. on = {l} /\ by = {} /\ acc.cur # s
      BY <2>1 DEF Places, Apart, HeldOnce, In
    <2> HIDE DEF on, by
    <2>3. Cardinality(on) = 1 /\ Cardinality(by) = 0
      BY <2>2, FS_Singleton, FS_EmptySet
    <2> QED
      BY <2>2, <2>3 DEF on, by
  <1>2. CASE \E t \in Thread : th[t].cur = s
    <2>1. PICK t \in Thread : th[t].cur = s
      BY <1>2
    <2>2. on = {} /\ acc.cur # s
      BY <1>0, <2>1 DEF Places, HeldOnce
    <2>3. by = {t}
      BY <1>0, <2>1 DEF Places, HeldOnce
    <2> HIDE DEF on, by
    <2>4. Cardinality(on) = 0 /\ Cardinality(by) = 1
      BY <2>2, <2>3, FS_Singleton, FS_EmptySet
    <2> QED
      BY <2>2, <2>4 DEF on, by
  <1>3. CASE acc.cur = s
    <2>1. on = {} /\ by = {}
      BY <1>0, <1>3 DEF Places, HeldOnce
    <2> HIDE DEF on, by
    <2>2. Cardinality(on) = 0 /\ Cardinality(by) = 0
      BY <2>1, FS_EmptySet
    <2> QED
      BY <1>3, <2>2 DEF on, by
  <1> QED
    BY <1>1, <1>2, <1>3 DEF Places, Somewhere

(* Under the same condition a session is in exactly one place: on one list,  *)
(* or in the hands of the one thread that moves it.  None is lost between    *)
(* two locks, none is served by two threads.                                 *)
THEOREM OneOwnerEach ==
    ASSUME NothingFails
    PROVE  Spec => []OneOwner
  <1>1. Inv /\ Places => OneOwner
    BY OnePlace
  <1> QED
    BY <1>1, OwnersInvariant, PTL

(* Under the same condition every open connection belongs to one session, or *)
(* is on its way to one: TurnAway, Release and a refused AddEvent close the   *)
(* connection they should and no other.                                      *)
THEOREM ConnectionsOwned ==
    ASSUME NothingFails
    PROVE  Spec => []FdOwnedOnce
  <1>1. Connections => FdOwnedOnce
    BY DEF Connections
  <1> QED
    BY <1>1, OwnersInvariant, PTL

(* Under the same condition the reactor of a thread watches exactly the      *)
(* connections of the sessions the thread serves, and its count of events is *)
(* exact.                                                                    *)
THEOREM ReactorsAreExact ==
    ASSUME NothingFails
    PROVE  Spec => []ReactorExact
  <1>1. Connections => ReactorExact
    BY DEF Connections
  <1> QED
    BY <1>1, OwnersInvariant, PTL

-----------------------------------------------------------------------------
(* Which clients a gateway knows: when nothing fails and every client logs in *)
(* once, under a GUID of its own, the table of a thread and the logic server   *)
(* have exactly the clients that are there, and no assertion about them fails. *)
HT == INSTANCE GYHashTable_proofs

(* Nothing fails, the byte behind a GUID is always the same, and a thread's  *)
(* table has a bucket in a row for each client its reactor takes, as it has  *)
(* in _Init: both are made for CLIENT_FOR_PER_THREAD.                        *)
Undisturbed ==
    /\ Faults = {}
    /\ HT!Numbered
    /\ HT!Steady(Guid, Stray)
    /\ Cap <= Cardinality(Buckets)

HashSound(table) == HT!Sound(table, Guid, Session, Stray)

(* The entries for the clients that are logged in at thread t. *)
Known(t) == {<<session[s].guid, s>> : s \in {x \in Session : session[x].server = t
                                                          /\ session[x].guid # NULL}}

(* Only a session that is served is logged in, and no two under one GUID; the *)
(* tables and the logic server have exactly those; no assertion has failed.   *)
Clients ==
    /\ \A s \in Session : session[s].guid # NULL => session[s].server # NULL
    /\ \A s, x \in Session :
            session[s].guid # NULL /\ session[s].guid = session[x].guid => s = x
    /\ \A t \in Thread : HashSound(hash[t]) /\ Entries(hash[t]) = Known(t)
    /\ LogicKnowsClients
    /\ ~aborted

-----------------------------------------------------------------------------
(* The table of the gateway is the table of the lemmas. *)
LEMMA SameTable ==
    /\ NewTable = HT!NewTable
    /\ \A table : Entries(table) = HT!Entries(table)
    /\ \A table, k, x : Find(table, k, x) = HT!Find(table, k, x)
    /\ \A table, k, x : Remove(table, k, x) = HT!Remove(table, k, x)
    /\ \A table, k, v, x : Insert(table, k, v, x) = HT!Insert(table, k, v, x)
  <1>1. NewTable = HT!NewTable
    BY DEF NewTable, EmptyRow, HT!NewTable, HT!EmptyRow
  <1>2. \A table : Entries(table) = HT!Entries(table)
    BY DEF Entries, HT!Entries
  <1>3. \A table, k, w, x : Position(table, k, w, x) = HT!Position(table, k, w, x)
    BY DEF Position, FindPosition, HT!Position, HT!FindPosition
  <1>4. \A table, k, x : Find(table, k, x) = HT!Find(table, k, x)
    BY <1>3 DEF Find, HT!Find
  <1>5. \A table, k, x : Remove(table, k, x) = HT!Remove(table, k, x)
    BY <1>3 DEF Remove, HT!Remove
  <1>6. \A table, k, v, x : Insert(table, k, v, x) = HT!Insert(table, k, v, x)
    BY <1>3 DEF Insert, HT!Insert
  <1> QED
    BY <1>1, <1>2, <1>4, <1>5, <1>6

(* NULL is neither a row nor anything in one. *)
LEMMA NullIsApart == HT!NullApart(Guid, Session)
  BY GatewayAssumption, TableAssumption DEF HT!NullApart, HT!RowType

(* Insert, in the table of the gateway. *)
LEMMA EnterClient ==
    ASSUME Undisturbed, NEW table, HashSound(table), NEW g \in Guid, NEW s \in Session,
           NEW x \in Stray, HT!Absent(table, g),
           NEW some, IsFiniteSet(some), Cardinality(some) < Cardinality(Buckets),
           HT!ValuesOnce(table, some)
    PROVE  /\ HashSound(Insert(table, g, s, x))
           /\ Entries(Insert(table, g, s, x)) = Entries(table) \cup {<<g, s>>}
  <1>1. HT!NullApart(Guid, Session) /\ HT!Sound(table, Guid, Session, Stray)
    BY NullIsApart DEF HashSound
  <1>2. RowOf(g, x) \in Rows
    BY DEF Undisturbed, HT!Steady
  <1>3. HT!HasFree(table, RowOf(g, x))
    <2>1. /\ HT!IsFiniteSet(some)
          /\ HT!Cardinality(some) < HT!Cardinality(Buckets)
      BY DEF IsFiniteSet, HT!IsFiniteSet, Cardinality, HT!Cardinality
    <2> QED
      BY <1>1, <1>2, <2>1, HT!FreeBucket
  <1>4. /\ HT!Sound(HT!Insert(table, g, s, x), Guid, Session, Stray)
        /\ HT!Entries(HT!Insert(table, g, s, x)) = HT!Entries(table) \cup {<<g, s>>}
    BY <1>1, <1>3, HT!InsertEnters DEF Undisturbed
  <1> QED
    BY <1>4, SameTable DEF HashSound

(* Remove, in the table of the gateway. *)
LEMMA LeaveClient ==
    ASSUME Undisturbed, NEW table, HashSound(table), NEW g \in Guid, NEW x \in Stray
    PROVE  /\ HashSound(Remove(table, g, x))
           /\ Entries(Remove(table, g, x)) = {e \in Entries(table) : e[1] # g}
  <1>1. HT!NullApart(Guid, Session) /\ HT!Sound(table, Guid, Session, Stray)
    BY NullIsApart DEF HashSound
  <1>2. /\ HT!Sound(HT!Remove(table, g, x), Guid, Session, Stray)
        /\ HT!Entries(HT!Remove(table, g, x)) = {e \in HT!Entries(table) : e[1] # g}
    BY <1>1, HT!RemoveRemoves DEF Undisturbed
  <1> QED
    BY <1>2, SameTable DEF HashSound

(* Find, in the table of the gateway. *)
LEMMA FindClient ==
    ASSUME Undisturbed, NEW table, HashSound(table), NEW g \in Guid, NEW x \in Stray,
           Find(table, g, x) # NULL
    PROVE  <<g, Find(table, g, x)>> \in Entries(table)
  <1>1. HT!NullApart(Guid, Session) /\ HT!Sound(table, Guid, Session, Stray)
    BY NullIsApart DEF HashSound
  <1>2. /\ \A v : <<g, v>> \in HT!Entries(table) => HT!Find(table, g, x) = v
        /\ (\A v : <<g, v>> \notin HT!Entries(table)) => HT!Find(table, g, x) = NULL
    BY <1>1, HT!FindFinds DEF Undisturbed
  <1> QED
    BY <1>2, SameTable

-----------------------------------------------------------------------------
(* The sessions of thread t that are logged in. *)
LEMMA KnownSessions ==
    ASSUME NEW t, NEW e
    PROVE  e \in Known(t) <=> \E x \in Session : /\ session[x].server = t
                                                 /\ session[x].guid # NULL
                                                 /\ e = <<session[x].guid, x>>
  BY DEF Known

(* The GUIDs the logic server should have from thread t. *)
LEMMA LogicKnows ==
    LogicKnowsClients <=>
        \A t \in Thread : \A g :
            g \in loggedIn[t] <=> \E x \in Session : /\ session[x].server = t
                                                     /\ session[x].guid # NULL
                                                     /\ g = session[x].guid
  BY DEF LogicKnowsClients

(* A step that logs nobody in or out. *)
LEMMA ClientsSame ==
    ASSUME Clients, UNCHANGED data, aborted' = FALSE,
           \A s \in Session :
                /\ session'[s].guid = session[s].guid
                /\ session[s].guid # NULL => session'[s].server = session[s].server
    PROVE  Clients'
  <1>1. \A t \in Thread : Known(t)' = Known(t)
    BY DEF Known
  <1>2. \A t \in Thread : HashSound(hash'[t]) /\ Entries(hash'[t]) = Known(t)'
    BY <1>1 DEF Clients, data
  <1>3. LogicKnowsClients'
    <2>1. /\ loggedIn' = loggedIn
          /\ \A t \in Thread : \A g :
                g \in loggedIn[t] <=> \E x \in Session : /\ session[x].server = t
                                                         /\ session[x].guid # NULL
                                                         /\ g = session[x].guid
      BY LogicKnows DEF Clients, data
    <2>2. \A t \in Thread : \A g :
                g \in loggedIn'[t] <=> \E x \in Session : /\ session'[x].server = t
                                                          /\ session'[x].guid # NULL
                                                          /\ g = session'[x].guid
      BY <2>1
    <2> QED
      BY <2>2 DEF LogicKnowsClients
  <1> QED
    BY <1>2, <1>3 DEF Clients

(* A session that is not served is not logged in. *)
LEMMA NotServed ==
    ASSUME Inv, Connections, Clients, NEW s \in Session, \A t \in Thread : s \notin Serving(t)
    PROVE  session[s].server = NULL /\ session[s].guid = NULL
  <1>1. session[s].server \in Thread \cup {NULL}
    BY DEF Inv, TypeOK, DataTypes, SessionFields
  <1>2. \A t \in Thread : session[s].server # t
    BY DEF Connections, Owners
  <1> QED
    BY <1>1, <1>2 DEF Clients

(* The main thread logs nobody in or out. *)
LEMMA AcceptorClients ==
    ASSUME Undisturbed, Inv, Places, Connections, Clients, ~aborted, AcceptorStep
    PROVE  Clients'
  <1>0. session \in [Session -> SessionFields] /\ acc.cur \in Session \cup {NULL}
    BY DEF Inv, TypeOK, DataTypes, ControlTypes, AcceptorFields
  <1>1. CASE InitSession \/ InitFails
    <2>1. /\ acc.cur \in Session /\ \A t \in Thread : acc.cur \notin Serving(t)
      BY <1>0, <1>1, ListNames DEF InitSession, InitFails, Inv, InHand, Places, HeldOnce, Serving
    <2>2. session[acc.cur].guid = NULL
      BY <2>1, NotServed
    <2>3. /\ session'[acc.cur].guid = NULL
          /\ \A s \in Session \ {acc.cur} : session'[s] = session[s]
          /\ UNCHANGED data /\ aborted' = FALSE
      BY <1>0, <1>1, <2>1 DEF InitSession, InitFails, Blank, Clients
    <2> QED
      BY <2>1, <2>2, <2>3, ClientsSame
  <1>2. CASE ~(InitSession \/ InitFails)
    <2>1. session' = session /\ data' = data /\ aborted' = aborted
      BY <1>2 DEF AcceptorStep, AcceptOk, AcceptBreak, AcceptError, AcceptorLockFree,
                  TurnAway, PickSession, GiveBack, AcceptorLockAdd, HandOver
    <2>2. aborted' = FALSE
      BY <2>1 DEF Inv, TypeOK, ControlTypes
    <2> QED
      BY <2>1, <2>2, ClientsSame
  <1> QED
    BY <1>1, <1>2

(* A thread serves no more clients than its table has buckets in a row. *)
LEMMA ServedFit ==
    ASSUME Undisturbed, Inv, Places, Connections, ReactorInBounds, NEW t \in Thread
    PROVE  /\ IsFiniteSet(Serving(t))
           /\ Cardinality(Serving(t)) \in Nat
           /\ Cardinality(Serving(t)) <= Cardinality(Buckets)
  <1>1. /\ epoll \in [Thread -> SUBSET (FD \X Session)]
        /\ eventCount \in [Thread -> Int]
        /\ TypeOK
    BY DEF Inv, TypeOK, DataTypes
  <1>2. IsFiniteSet(epoll[t])
    BY <1>1, Fewer
  <1>3. epoll[t] = {<<session[s].fd, s>> : s \in Serving(t)}
    BY DEF Connections, ReactorExact
  <1> DEFINE f == [s \in Serving(t) |-> <<session[s].fd, s>>]
  <1>4. f \in Injection(Serving(t), epoll[t])
    BY <1>3 DEF Injection, IsInjective
  <1>5. IsFiniteSet(Serving(t)) /\ Cardinality(Serving(t)) <= Cardinality(epoll[t])
    BY <1>2, <1>4, FS_Injection
  <1>6. Cardinality(Serving(t)) \in Nat /\ Cardinality(epoll[t]) \in Nat
    BY <1>2, <1>5, FS_CardinalityType
  <1>7. Cardinality(epoll[t]) <= Cap
    <2>1. /\ Cardinality(epoll[t]) + (IF th[t].logic = "connected" THEN 1 ELSE 0) <= eventCount[t]
          /\ eventCount[t] <= Cap /\ eventCount[t] \in Int
      BY <1>1 DEF ReactorInBounds
    <2> QED
      BY <1>6, <2>1, GatewayAssumption
  <1>8. Cardinality(Buckets) \in Nat
    <2>1. IsFiniteSet(Buckets)
      <3>1. PICK n \in Nat \ {0} : Buckets = 0 .. n - 1
        BY DEF Undisturbed, HT!Numbered
      <3> QED
        BY <3>1, FS_Interval
    <2> QED
      BY <2>1, FS_CardinalityType
  <1> QED
    BY <1>5, <1>6, <1>7, <1>8, GatewayAssumption DEF Undisturbed

(* Login: nobody has the GUID yet, and the row of it has a free bucket. *)
LEMMA LoginClients ==
    ASSUME Undisturbed, Inv, Places, Connections, ReactorInBounds, Clients, ~aborted,
           NEW t \in Thread, NEW s \in Session, NEW g \in Guid, Login(t, s, g)
    PROVE  Clients'
  <1>0. /\ session \in [Session -> SessionFields]
        /\ hash \in [Thread -> Tables(Guid, Session)]
        /\ loggedIn \in [Thread -> SUBSET Guid]
        /\ g # NULL /\ t # NULL
        /\ aborted \in BOOLEAN
    BY GatewayAssumption DEF Inv, TypeOK, DataTypes, ControlTypes
  <1>1. session[s].server = t
    BY HandledIsServed DEF Login
  <1>2. /\ session[s].guid = NULL
        /\ \A x \in Session : session[x].guid # g
        /\ session' = [session EXCEPT ![s].guid = g]
        /\ loggedIn' = [loggedIn EXCEPT ![t] = @ \cup {g}]
        /\ aborted' = aborted
    BY <1>0, <1>1 DEF Login, Undisturbed
  <1>3. PICK x \in Stray : hash' = [hash EXCEPT ![t] = Insert(hash[t], g, s, x)]
    BY <1>0, <1>1 DEF Login
  <1>4. /\ session'[s].guid = g /\ session'[s].server = t
        /\ \A y \in Session \ {s} : session'[y] = session[y]
        /\ \A y \in Session : session'[y].server = session[y].server
    BY <1>0, <1>1, <1>2 DEF SessionFields
  <1>5. HashSound(hash[t]) /\ Entries(hash[t]) = Known(t)
    BY DEF Clients
  <1> DEFINE some == Serving(t) \ {s}
  <1>6. IsFiniteSet(some) /\ Cardinality(some) < Cardinality(Buckets)
    <2>1. s \in Serving(t)
      BY <1>1 DEF Connections, Owners
    <2>2. /\ IsFiniteSet(Serving(t)) /\ Cardinality(Serving(t)) \in Nat
          /\ Cardinality(Serving(t)) <= Cardinality(Buckets)
      BY ServedFit
    <2>3. Cardinality(some) = Cardinality(Serving(t)) - 1
      BY <2>1, <2>2, OneLess
    <2>4. Cardinality(Buckets) \in Nat
      <3>1. PICK n \in Nat \ {0} : Buckets = 0 .. n - 1
        BY DEF Undisturbed, HT!Numbered
      <3>2. IsFiniteSet(Buckets)
        BY <3>1, FS_Interval
      <3> QED
        BY <3>2, FS_CardinalityType
    <2>5. Cardinality(some) < Cardinality(Buckets)
      BY <2>2, <2>3, <2>4
    <2> QED
      BY <2>2, <2>5, FS_RemoveElement
  <1>7. HT!Absent(hash[t], g)
    BY <1>2, <1>5, KnownSessions, SameTable DEF HT!Absent
  <1>8. HT!ValuesOnce(hash[t], some)
    <2>1. \A e \in Known(t) : e[2] \in some
      BY <1>2, KnownSessions DEF Connections, Owners
    <2>2. \A e, f \in Known(t) : e[2] = f[2] => e = f
      BY KnownSessions
    <2> HIDE DEF some
    <2> QED
      BY <1>5, <2>1, <2>2, SameTable DEF HT!ValuesOnce
  <1> HIDE DEF some
  <1>9. /\ HashSound(hash'[t])
        /\ Entries(hash'[t]) = Known(t) \cup {<<g, s>>}
        /\ \A u \in Thread \ {t} : hash'[u] = hash[u]
    <2>1. /\ HashSound(Insert(hash[t], g, s, x))
          /\ Entries(Insert(hash[t], g, s, x)) = Entries(hash[t]) \cup {<<g, s>>}
      BY <1>5, <1>6, <1>7, <1>8, EnterClient
    <2> QED
      BY <1>0, <1>3, <1>5, <2>1
  <1>10. Known(t)' = Known(t) \cup {<<g, s>>}
    <2> SUFFICES ASSUME NEW e
                 PROVE  e \in Known(t)' <=> e \in Known(t) \/ e = <<g, s>>
      OBVIOUS
    <2>1. e \in Known(t)' <=> \E y \in Session : /\ session'[y].server = t
                                                 /\ session'[y].guid # NULL
                                                 /\ e = <<session'[y].guid, y>>
      BY DEF Known
    <2> QED
      BY <1>0, <1>2, <1>4, <2>1, KnownSessions
  <1>11. \A u \in Thread \ {t} : Known(u)' = Known(u)
    <2> SUFFICES ASSUME NEW u \in Thread \ {t}, NEW e
                 PROVE  e \in Known(u)' <=> e \in Known(u)
      OBVIOUS
    <2>1. e \in Known(u)' <=> \E y \in Session : /\ session'[y].server = u
                                                 /\ session'[y].guid # NULL
                                                 /\ e = <<session'[y].guid, y>>
      BY DEF Known
    <2> QED
      BY <1>1, <1>4, <2>1, KnownSessions
  <1>12. \A u \in Thread : HashSound(hash'[u]) /\ Entries(hash'[u]) = Known(u)'
    BY <1>9, <1>10, <1>11 DEF Clients
  <1>13. LogicKnowsClients'
    <2> SUFFICES ASSUME NEW u \in Thread, NEW h
                 PROVE  h \in loggedIn'[u] <=>
                            \E y \in Session : /\ session'[y].server = u
                                               /\ session'[y].guid # NULL
                                               /\ h = session'[y].guid
      BY DEF LogicKnowsClients
    <2>1. h \in loggedIn[u] <=> \E y \in Session : /\ session[y].server = u
                                                   /\ session[y].guid # NULL
                                                   /\ h = session[y].guid
      BY LogicKnows DEF Clients
    <2>2. h \in loggedIn'[u] <=> h \in loggedIn[u] \/ (u = t /\ h = g)
      BY <1>0, <1>2
    <2> QED
      BY <1>0, <1>1, <1>2, <1>4, <2>1, <2>2
  <1>14. /\ \A y \in Session : session'[y].guid # NULL => session'[y].server # NULL
         /\ \A y, z \in Session :
                session'[y].guid # NULL /\ session'[y].guid = session'[z].guid => y = z
    BY <1>0, <1>2, <1>4 DEF Clients
  <1> QED
    BY <1>2, <1>12, <1>13, <1>14 DEF Clients

(* A client is gone: its entry and its GUID go with it. *)
LEMMA CloseClients ==
    ASSUME Undisturbed, Inv, Places, Connections, Clients,
           NEW t \in Thread, NEW s \in Session, ClientClosed(t, s)
    PROVE  Clients'
  <1>0. /\ session \in [Session -> SessionFields]
        /\ hash \in [Thread -> Tables(Guid, Session)]
        /\ loggedIn \in [Thread -> SUBSET Guid]
        /\ t # NULL
        /\ session[s].guid \in Guid \cup {NULL}
    BY GatewayAssumption DEF Inv, TypeOK, DataTypes, SessionFields
  <1>1. session[s].server = t
    BY HandledIsServed DEF ClientClosed
  <1> DEFINE g == session[s].guid
  <1>2. /\ session' = [session EXCEPT ![s] = Blank]
        /\ loggedIn' = [loggedIn EXCEPT ![t] = @ \ {g}]
        /\ aborted' = FALSE
    BY <1>0, <1>1 DEF ClientClosed, Release
  <1>3. PICK x \in Stray : hash' = Forget(t, s, x)
    BY <1>0, <1>1 DEF ClientClosed, Release
  <1>4. /\ session'[s].guid = NULL /\ session'[s].server = NULL
        /\ \A y \in Session \ {s} : session'[y] = session[y]
    BY <1>0, <1>2 DEF Blank
  <1>5. HashSound(hash[t]) /\ Entries(hash[t]) = Known(t)
    BY DEF Clients
  <1>6. /\ HashSound(hash'[t])
        /\ Entries(hash'[t]) = {e \in Known(t) : e[1] # g}
        /\ \A u \in Thread \ {t} : hash'[u] = hash[u]
    <2>1. CASE g = NULL
      <3>1. hash' = hash
        BY <1>3, <2>1 DEF Forget
      <3>2. \A e \in Known(t) : e[1] # NULL
        BY KnownSessions
      <3> QED
        BY <1>5, <2>1, <3>1, <3>2
    <2>2. CASE g # NULL
      <3>1. g \in Guid
        BY <1>0, <2>2
      <3>2. hash' = [hash EXCEPT ![t] = Remove(hash[t], g, x)]
        BY <1>3, <2>2 DEF Forget
      <3> HIDE DEF g
      <3>3. /\ HashSound(Remove(hash[t], g, x))
            /\ Entries(Remove(hash[t], g, x)) = {e \in Entries(hash[t]) : e[1] # g}
        BY <1>5, <3>1, LeaveClient
      <3> QED
        BY <1>0, <1>5, <3>2, <3>3
    <2> QED
      BY <2>1, <2>2
  <1>7. /\ \A y \in Session \ {s} : session[y].guid # NULL => session[y].guid # g
        /\ \A y \in Session : session'[y].guid # NULL => session[y].guid # g
    BY <1>4 DEF Clients
  <1>8. Known(t)' = {e \in Known(t) : e[1] # g}
    <2> SUFFICES ASSUME NEW e
                 PROVE  e \in Known(t)' <=> e \in Known(t) /\ e[1] # g
      OBVIOUS
    <2>1. e \in Known(t)' <=> \E y \in Session : /\ session'[y].server = t
                                                 /\ session'[y].guid # NULL
                                                 /\ e = <<session'[y].guid, y>>
      BY DEF Known
    <2> QED
      BY <1>0, <1>4, <1>7, <2>1, KnownSessions
  <1>9. \A u \in Thread \ {t} : Known(u)' = Known(u)
    <2> SUFFICES ASSUME NEW u \in Thread \ {t}, NEW e
                 PROVE  e \in Known(u)' <=> e \in Known(u)
      OBVIOUS
    <2>1. e \in Known(u)' <=> \E y \in Session : /\ session'[y].server = u
                                                 /\ session'[y].guid # NULL
                                                 /\ e = <<session'[y].guid, y>>
      BY DEF Known
    <2> QED
      BY <1>1, <1>4, <2>1, KnownSessions
  <1>10. \A u \in Thread : HashSound(hash'[u]) /\ Entries(hash'[u]) = Known(u)'
    BY <1>6, <1>8, <1>9 DEF Clients
  <1>11. LogicKnowsClients'
    <2> SUFFICES ASSUME NEW u \in Thread, NEW h
                 PROVE  h \in loggedIn'[u] <=>
                            \E y \in Session : /\ session'[y].server = u
                                               /\ session'[y].guid # NULL
                                               /\ h = session'[y].guid
      BY DEF LogicKnowsClients
    <2>1. h \in loggedIn[u] <=> \E y \in Session : /\ session[y].server = u
                                                   /\ session[y].guid # NULL
                                                   /\ h = session[y].guid
      BY LogicKnows DEF Clients
    <2>2. h \in loggedIn'[u] <=> h \in loggedIn[u] /\ ~(u = t /\ h = g)
      BY <1>0, <1>2
    <2> QED
      BY <1>0, <1>1, <1>4, <1>7, <2>1, <2>2
  <1>12. /\ \A y \in Session : session'[y].guid # NULL => session'[y].server # NULL
         /\ \A y, z \in Session :
                session'[y].guid # NULL /\ session'[y].guid = session'[z].guid => y = z
    BY <1>4 DEF Clients
  <1> QED
    BY <1>2, <1>10, <1>11, <1>12 DEF Clients

(* The gateway threads keep their tables and the logic server informed. *)
LEMMA ThreadClients ==
    ASSUME Undisturbed, Inv, Places, Connections, ReactorInBounds, Clients, ~aborted,
           NEW t \in Thread, ThreadStep(t)
    PROVE  Clients'
  <1>0. /\ session \in [Session -> SessionFields]
        /\ mem \in Memories /\ Apart(mem)
        /\ aborted = FALSE
        /\ t # NULL
        /\ th[t].pc # "stop"
        /\ Faults = {}
    BY GatewayAssumption
    DEF Inv, TypeOK, DataTypes, ControlTypes, Places, Frames, Undisturbed
  <1>1. CASE session' = session /\ data' = data /\ aborted' = aborted
    BY <1>0, <1>1, ClientsSame
  <1>2. CASE Adopt(t) \/ AdoptFails(t)
    <2> DEFINE h == FirstItem(mem, AddList(t))
    <2>1. h # NULL
      BY <1>2 DEF Adopt, AdoptFails
    <2>2. /\ h \in Session /\ h \in Items(mem, AddList(t))
      BY <1>0, <2>1, ListNames, PickUpApart
    <2>3. \A u \in Thread : h \notin Serving(u)
      BY <1>0, <2>2, ListNames, ListsDiffer DEF Apart, Serving, In
    <2> HIDE DEF h
    <2>4. session[h].guid = NULL
      BY <2>2, <2>3, NotServed
    <2>5. /\ session'[h].guid = session[h].guid
          /\ \A s \in Session \ {h} : session'[s] = session[s]
          /\ data' = data /\ aborted' = FALSE
      BY <1>0, <1>2, <2>2 DEF Adopt, AdoptFails, SessionFields, h
    <2> QED
      BY <2>2, <2>4, <2>5, ClientsSame
  <1>3. ASSUME NEW s \in Session, ClientInvalid(t, s)
        PROVE  Clients'
    BY <1>0, <1>3, HandledIsServed DEF ClientInvalid
  <1>4. ASSUME NEW s \in Session, ClientClosed(t, s)
        PROVE  Clients'
    BY <1>4, CloseClients
  <1>5. ASSUME NEW s \in Session, NEW g \in Guid, Login(t, s, g)
        PROVE  Clients'
    BY <1>5, LoginClients
  <1>6. ASSUME NEW g \in Guid, LogicData(t, g)
        PROVE  Clients'
    <2>1. PICK x \in Stray : aborted' = (Find(hash[t], g, x) # NULL
                                        /\ session[Find(hash[t], g, x)].guid # g)
      BY <1>6 DEF LogicData
    <2>2. Find(hash[t], g, x) # NULL => <<g, Find(hash[t], g, x)>> \in Known(t)
      <3>1. HashSound(hash[t]) /\ Entries(hash[t]) = Known(t)
        BY DEF Clients
      <3> QED
        BY <3>1, FindClient
    <2>3. Find(hash[t], g, x) # NULL => session[Find(hash[t], g, x)].guid = g
      BY <2>2, KnownSessions
    <2>4. session' = session /\ data' = data /\ aborted' = FALSE
      BY <1>6, <2>1, <2>3 DEF LogicData
    <2> QED
      BY <2>4, ClientsSame
  <1>7. ~LogicClosed(t) /\ ~StopSession(t) /\ ~StopReturn(t) /\ ~StopDone(t) /\ ~TickFails(t)
    BY <1>0 DEF LogicClosed, StopSession, StopReturn, StopDone, TickFails
  <1>8. ConnectFails(t) \/ ConnectOk(t) \/ ConnectRefused(t) \/ DrainClosed(t) \/ LockFree(t)
            => session' = session /\ data' = data /\ aborted' = aborted
    BY DEF ConnectFails, ConnectOk, ConnectRefused, DrainClosed, LockFree
  <1>9. ReturnSession(t) \/ LockAdd(t) \/ UnlockAdd(t) \/ Poll(t) \/ EventsDone(t)
            => session' = session /\ data' = data /\ aborted' = aborted
    BY DEF ReturnSession, LockAdd, UnlockAdd, Poll, EventsDone
  <1>10. LogicIdle(t) \/ TickOk(t) \/ TickDone(t)
            => session' = session /\ data' = data /\ aborted' = aborted
    BY DEF LogicIdle, TickOk, TickDone
  <1>11. \A s \in Session : ClientIdle(t, s)
            => session' = session /\ data' = data /\ aborted' = aborted
    BY DEF ClientIdle
  <1> QED
    BY <1>1, <1>2, <1>3, <1>4, <1>5, <1>6, <1>7, <1>8, <1>9, <1>10, <1>11 DEF ThreadStep

(* Nobody is there yet. *)
LEMMA InitClients ==
    ASSUME Init
    PROVE  Clients
  <1>1. /\ \A s \in Session : session[s].guid = NULL
        /\ \A t \in Thread : hash[t] = NewTable /\ loggedIn[t] = {}
        /\ ~aborted
    BY DEF Init, Blank
  <1>2. HashSound(NewTable) /\ Entries(NewTable) = {}
    <2>1. HT!Sound(HT!NewTable, Guid, Session, Stray) /\ HT!Entries(HT!NewTable) = {}
      BY NullIsApart, HT!NewTableSound
    <2> QED
      BY <2>1, SameTable DEF HashSound
  <1>3. \A t \in Thread : Known(t) = {}
    BY <1>1 DEF Known
  <1>4. LogicKnowsClients
    BY <1>1, LogicKnows
  <1> QED
    BY <1>1, <1>2, <1>3, <1>4 DEF Clients

(* Every step keeps them, and so does the dead process, which is none. *)
LEMMA NextClients ==
    ASSUME Undisturbed, Inv, Places, Connections, ReactorInBounds, Clients, [Next]_vars
    PROVE  Clients'
  <1>1. CASE UNCHANGED vars
    <2>1. session' = session /\ data' = data /\ aborted' = FALSE
      BY <1>1 DEF vars, Inv, TypeOK, ControlTypes, Clients
    <2> QED
      BY <2>1, ClientsSame
  <1>2. CASE ~aborted /\ AcceptorStep
    BY <1>2, AcceptorClients
  <1>3. CASE ~aborted /\ \E t \in Thread : ThreadStep(t)
    BY <1>3, ThreadClients
  <1> QED
    BY <1>1, <1>2, <1>3 DEF Next, Dead

(* The inductive invariant of a run that nothing disturbs. *)
LEMMA ClientsInvariant ==
    ASSUME Undisturbed
    PROVE  Spec => []Clients
  <1>1. NothingFails
    BY DEF Undisturbed, NothingFails
  <1>2. Spec => [](Inv /\ Places /\ Connections)
    BY <1>1, OwnersInvariant
  <1>3. Init => Clients
    BY InitClients
  <1>4. Inv /\ Places /\ Connections /\ ReactorInBounds /\ Clients /\ [Next]_vars => Clients'
    BY NextClients
  <1> QED
    BY <1>2, <1>3, <1>4, ReactorsAreInBounds, PTL DEF Spec

(* When nothing fails, no client logs in twice or under another's GUID and    *)
(* the byte behind a GUID is always the same, the hash table of a thread has  *)
(* exactly the clients that are logged in, whatever the order in which they  *)
(* come and go and in which bucket Insert finds room: every place it has     *)
(* taken, Remove finds again.                                                *)
THEOREM HashHasTheClients ==
    ASSUME Undisturbed
    PROVE  Spec => []HashMatchesSessions
  <1>1. Clients => HashMatchesSessions
    BY DEF Clients, HashMatchesSessions, Known
  <1> QED
    BY <1>1, ClientsInvariant, PTL

(* Then the Logins and Logouts the logic server has been sent leave it with   *)
(* exactly the clients that are there: Release never comes before a Logout.  *)
THEOREM LogicIsTold ==
    ASSUME Undisturbed
    PROVE  Spec => []LogicKnowsClients
  <1>1. Clients => LogicKnowsClients
    BY DEF Clients
  <1> QED
    BY <1>1, ClientsInvariant, PTL

(* And no assertion about a session fails, no handler is called that is not   *)
(* there: a packet from the logic server finds its client or nobody.         *)
THEOREM NothingAborts ==
    ASSUME Undisturbed
    PROVE  Spec => []NeverAborts
  <1>1. Clients => NeverAborts
    BY DEF Clients, NeverAborts
  <1> QED
    BY <1>1, ClientsInvariant, PTL

(* And the table answers: a packet from the logic server for a client that is *)
(* logged in finds the session of that client, which the run with a byte that *)
(* is not always the same refutes.                                           *)
THEOREM LogicFindsTheClient ==
    ASSUME Undisturbed
    PROVE  Spec => []LogicDataFindsClient
  <1>1. Inv /\ Clients => LogicDataFindsClient
    <2> SUFFICES ASSUME Inv, Clients, NEW t \in Thread, NEW s \in Session,
                        session[s].server = t, session[s].guid # NULL, NEW x \in Stray
                 PROVE  Find(hash[t], session[s].guid, x) = s
      BY DEF LogicDataFindsClient
    <2>1. HashSound(hash[t]) /\ Entries(hash[t]) = Known(t)
      BY DEF Clients
    <2>2. <<session[s].guid, s>> \in HT!Entries(hash[t])
      BY <2>1, KnownSessions, SameTable
    <2>3. session[s].guid \in Guid
      BY DEF Inv, TypeOK, DataTypes, SessionFields
    <2>4. HT!NullApart(Guid, Session) /\ HT!Sound(hash[t], Guid, Session, Stray)
      BY <2>1, NullIsApart DEF HashSound
    <2>5. \A v : <<session[s].guid, v>> \in HT!Entries(hash[t])
                    => HT!Find(hash[t], session[s].guid, x) = v
      BY <2>3, <2>4, HT!FindFinds DEF Undisturbed
    <2> QED
      BY <2>2, <2>5, SameTable
  <1>2. Spec => []Inv
    BY InitType, NextType, PTL DEF Spec
  <1> QED
    BY <1>1, <1>2, ClientsInvariant, PTL
=============================================================================
