---------------------------- MODULE GYThreadPool ----------------------------
(***************************************************************************)
(* The thread pool (Thread/GYThreadPool.cpp, GYThread.cpp): each task gets *)
(* a thread of its own, and Release joins the threads one after the other. *)
(* A task reads its GYThreadTask from the thread object, when it comes to  *)
(* run; the caller fills one task variable again for each AddTask, the way *)
(* the gateway's GYServer::Init does.  pthread_create may fail.            *)
(***************************************************************************)
EXTENDS Integers, Sequences

CONSTANTS
    Tasks,       \* the parameters tasks are made with
    PoolSizes    \* what Init may be given

VARIABLES
    pool,     \* m_threads, m_maxThreadCount; m_currentThreadCount is Len(threads)
    threads,  \* the GYThread of each slot
    task,     \* the caller's GYThreadTask
    ran,      \* how often the function of each task has been entered
    caller    \* what the caller is doing

vars == <<pool, threads, task, ran, caller>>

NoTask == "none"
Deleted == "deleted"

-----------------------------------------------------------------------------
(* The calls.                                                              *)

\* A second Init is refused: Release does not reset m_threads.
InitPool(maxThreadCount) ==
    /\ caller.pc = "idle"
    /\ ~pool.m_threads
    /\ pool' = [m_threads |-> TRUE, m_maxThreadCount |-> maxThreadCount]
    /\ threads' = <<>>
    /\ UNCHANGED <<task, ran, caller>>

\* A thread that pthread_create does not give is counted and kept all the
\* same: the result of InitThread is not looked at.  (A task is added once.)
AddTask(t, created) ==
    /\ caller.pc = "idle"
    /\ \A i \in DOMAIN threads : threads[i].task # t
    /\ task' = t
    /\ threads' = IF Len(threads) >= pool.m_maxThreadCount THEN threads
                  ELSE Append(threads, [task |-> t, created |-> created, state |-> "waiting"])
    /\ UNCHANGED <<pool, ran, caller>>

Release ==
    /\ caller.pc = "idle"
    /\ caller' = [pc |-> "joining", thread |-> 1]
    /\ UNCHANGED <<pool, threads, task, ran>>

\* pthread_join returns: the thread has ended.  The handle of a thread that
\* was not created is uninitialized: the call fails or brings the program down.
Joined(i) == ~threads[i].created \/ threads[i].state = "ended"

\* One round of Release; in a second Release m_threads[i] is NULL.
JoinThread ==
    LET i == caller.thread
    IN  /\ caller.pc = "joining" /\ i <= Len(threads)
        /\ \/ /\ threads[i].state = Deleted \/ ~threads[i].created
              /\ caller' = [caller EXCEPT !.pc = "crashed"]
              /\ UNCHANGED threads
           \/ /\ threads[i].state # Deleted /\ Joined(i)
              /\ threads' = [threads EXCEPT ![i].state = Deleted]
              /\ caller' = [caller EXCEPT !.thread = i + 1]
        /\ UNCHANGED <<pool, task, ran>>

Released ==
    /\ caller.pc = "joining" /\ caller.thread > Len(threads)
    /\ caller' = [pc |-> "idle", thread |-> 0]
    /\ UNCHANGED <<pool, threads, task, ran>>

-----------------------------------------------------------------------------
(* thread_proc.                                                            *)

\* Mutant of GetTask: the thread keeps a pointer to the caller's task.
GetTaskOfCaller(i) == task

\* The copy InitThread has made.
GetTask(i) == threads[i].task

thread_proc(i) ==
    /\ threads[i].created /\ threads[i].state = "waiting"
    /\ threads' = [threads EXCEPT ![i].state = "running"]
    /\ ran' = [ran EXCEPT ![GetTask(i)] = @ + 1]
    /\ UNCHANGED <<pool, task, caller>>

ThreadEnds(i) ==
    /\ threads[i].state = "running"
    /\ threads' = [threads EXCEPT ![i].state = "ended"]
    /\ UNCHANGED <<pool, task, ran, caller>>

Init ==
    /\ pool = [m_threads |-> FALSE, m_maxThreadCount |-> 0]
    /\ threads = <<>>
    /\ task = NoTask
    /\ ran = [t \in Tasks |-> 0]
    /\ caller = [pc |-> "idle", thread |-> 0]

Next ==
    /\ caller.pc # "crashed"
    /\ \/ \E size \in PoolSizes : InitPool(size)
       \/ \E t \in Tasks, created \in BOOLEAN : AddTask(t, created)
       \/ Release
       \/ JoinThread
       \/ Released
       \/ \E i \in DOMAIN threads : thread_proc(i) \/ ThreadEnds(i)

Spec == Init /\ [][Next]_vars

-----------------------------------------------------------------------------
(* Properties.                                                             *)

\* A task is entered once by the thread made for it and by no other, however
\* late that thread comes to run, and a thread is deleted only when its task
\* is over.
TasksRunOnce ==
    \A t \in Tasks :
        ran[t] = IF \E i \in DOMAIN threads :
                        /\ threads[i].task = t /\ threads[i].created
                        /\ threads[i].state # "waiting"
                 THEN 1 ELSE 0
=============================================================================
