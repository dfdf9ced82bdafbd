----------------------------- MODULE HttpServer -----------------------------
(***************************************************************************)
(* The running server: the main loop (server.cpp, httpServer.cpp), the     *)
(* worker threads (threadPool.cpp), the runnables they execute             *)
(* (HttpWorkerRunnables.cpp, serverRunnable.cpp) and the connections that  *)
(* both share (module Connections).                                        *)
(*                                                                         *)
(* The main thread polls: it closes the answered connections, asks select  *)
(* which connections are ready, creates a runnable for each that is not    *)
(* locked, pushes the runnables to the workers' queue, and frees those the *)
(* workers have handed back.  A worker runs one runnable at a time.  The   *)
(* only synchronisation is the mutex around each lookup in the descriptor  *)
(* table and around each queue; state and lock are plain fields.           *)
(*                                                                         *)
(* The steps are cut where a thread can be overtaken: at a call that       *)
(* blocks, a lookup, and a write of a shared field.                        *)
(***************************************************************************)
EXTENDS Connections, Functions

CONSTANTS
  Workers,   \* the threads ThreadPool::Start creates
  Silent,    \* clients that connect and then neither send nor leave
  NoTask     \* stands for the runnable of a worker that has none

ASSUME HttpServerAssumption ==
  /\ IsFiniteSet(Workers)
  /\ Silent \subseteq Clients

VARIABLES
  \* the main thread
  pc,          \* where it is
  listening,   \* the main connection has a descriptor
  running,     \* Server::_is_running
  closeSignal, \* Server::_close_signal_recieved
  comm,        \* Server::_comm_connections
  connRead,    \* conn_read without the main connection, what is left of it
  connWrite,   \* conn_write, what is left of it
  acceptReady, \* the main connection is in conn_read
  todo,        \* conn_to_close, or what CloseAllConnections still has to close
  closing,     \* the connection between release and ::shutdown
  unwinding,   \* an exception is propagating out of Start
  \* the runnables
  made,        \* client -> number of runnables created for its connection
  runnables,   \* Server::_runnables
  cursor,      \* how many of them have been pushed to the pool
  inProcess,   \* Server::_runnables_in_process
  done,        \* Server::_runnable_mark_as_done__safe
  \* the thread pool
  tasks,       \* ThreadPool::_runnable_queue
  joinFlag,    \* WorkerContext::join_flag
  wpc,         \* worker -> where it is
  wtask,       \* worker -> the runnable it executes
  parsed,      \* worker -> the request a read run has parsed and not stored
  \* the process
  fate         \* "alive", or how the process ended

netVars == <<sockVars, descrVars>>
serverVars == <<listening, running, closeSignal, comm>>
eventVars == <<connRead, connWrite, acceptReady>>
sweepVars == <<todo, closing>>
runVars == <<made, runnables, cursor, inProcess, done>>
poolVars == <<tasks, joinFlag, wpc, wtask, parsed>>
controlVars == <<pc, unwinding, fate>>
vars == <<netVars, serverVars, eventVars, sweepVars, runVars, poolVars,
          controlVars>>

MainSteps ==
  {"listen", "createPool", "sweep", "close", "shutdown", "select", "events",
   "schedule", "erase", "exitTest",
   "stop", "closeAll", "shutdownAll", "closeMain", "destroy", "join"}

WorkerSteps ==
  {"unborn", "loop", "pop", "readLookup", "recv", "store",
   "writeLookup", "respond", "send", "setClose", "sendData", "finish", "push",
   "exited"}

Fates == {"alive", "exited", "terminate", "abort", "sigpipe", "segv"}

HttpWorkerRunnableType == {"ENone", "EReadRequest", "EWriteResponse", "ESendData"}

\* A runnable object; seq tells apart the objects made for one connection.
Runnable == [conn : Clients, type : HttpWorkerRunnableType \ {"ENone"}, seq : Nat]

ASSUME NoTaskAssumption == NoTask \notin Runnable

Init ==
  /\ ConnectionsInit
  /\ pc = "listen"
  /\ listening = FALSE /\ running = FALSE /\ closeSignal = FALSE
  /\ comm = {} /\ connRead = {} /\ connWrite = {} /\ acceptReady = FALSE
  /\ todo = {} /\ closing = {} /\ unwinding = FALSE
  /\ made = [c \in Clients |-> 0]
  /\ runnables = <<>> /\ cursor = 0 /\ inProcess = {} /\ done = <<>>
  /\ tasks = <<>> /\ joinFlag = FALSE
  /\ wpc = [w \in Workers |-> "unborn"]
  /\ wtask = [w \in Workers |-> NoTask]
  /\ parsed = [w \in Workers |-> "none"]
  /\ fate = "alive"

-----------------------------------------------------------------------------
(* Control of the main thread.                                             *)

At(step) == fate = "alive" /\ pc = step

\* An exception leaves Start, or Stop, and unwinds main's frame into ~Server,
\* which calls Stop when the server is running.  An exception that leaves
\* ~Server itself ends the process.
Throw ==
  IF unwinding THEN /\ fate' = "terminate"
                    /\ UNCHANGED <<pc, unwinding>>
               ELSE /\ unwinding' = TRUE
                    /\ pc' = "stop"
                    /\ UNCHANGED fate

Goto(step) == pc' = step /\ UNCHANGED <<unwinding, fate>>

\* CreateConnectionForServer, ::listen and _is_running = true.
StartListening ==
  /\ At("listen")
  /\ listening' = TRUE
  /\ running' = TRUE
  /\ Goto("createPool")
  /\ UNCHANGED <<netVars, closeSignal, comm, eventVars, sweepVars, runVars, poolVars>>

\* Any of the socket calls fails: the SocketException finds no server running.
StartListeningFails ==
  /\ "bind" \in Faults
  /\ At("listen")
  /\ Throw
  /\ UNCHANGED <<netVars, serverVars, eventVars, sweepVars, runVars, poolVars>>

\* CreateThreadPool and ThreadPool::Start.
StartThreadPool ==
  /\ At("createPool")
  /\ wpc' = [w \in Workers |-> "loop"]
  /\ wtask' = [w \in Workers |-> NoTask]
  /\ Goto("sweep")
  /\ UNCHANGED <<netVars, serverVars, eventVars, sweepVars, runVars,
                 tasks, joinFlag, parsed>>

-----------------------------------------------------------------------------
(* "Test for close".                                                       *)

\* Two defects of the test: a connection closed before its answer, and one closed
\* only while it is locked.
NeedsCloseEarly(c) == state[c] \in {"CNeedResponse", "CNeedClose"}
NeedsCloseIfLocked(c) == state[c] = "CNeedClose" /\ lock[c]

TestConnectionNeedsClose(c) == state[c] = "CNeedClose"

\* ForEachConnection runs without the lock; the states it reads one by one
\* are taken in one step, a worker's later write being seen by the next turn.
TestForClose ==
  /\ At("sweep")
  /\ todo' = {c \in table : TestConnectionNeedsClose(c)}
  /\ Goto("close")
  /\ UNCHANGED <<netVars, serverVars, eventVars, closing, runVars, poolVars>>

\* A defect: the handler stays in _comm_connections.
CloseForgotten(c) ==
  /\ At("close")
  /\ c \in todo
  /\ todo' = todo \ {c}
  /\ ReleaseConnectionHandler(c)
  /\ closing' = {c}
  /\ Goto("shutdown")
  /\ UNCHANGED <<sockVars, serverVars, eventVars, runVars, poolVars>>

\* CloseServerConnection up to the ::shutdown in CloseConnection.
CloseServerConnection(c) ==
  /\ At("close")
  /\ c \in todo
  /\ todo' = todo \ {c}
  /\ comm' = comm \ {c}
  /\ ReleaseConnectionHandler(c)
  /\ closing' = {c}
  /\ Goto("shutdown")
  /\ UNCHANGED <<sockVars, listening, running, closeSignal, eventVars, runVars, poolVars>>

\* ::shutdown of the released connection; catch (...) swallows a failure.
ShutdownSwept(c) ==
  /\ At("shutdown")
  /\ c \in closing
  /\ \E ok \in ShutdownResults(c) : shut' = [shut EXCEPT ![c] = ok \/ @]
  /\ closing' = {}
  /\ Goto("close")
  /\ UNCHANGED <<peer, inbox, outbox, backlog, descrVars, serverVars, eventVars,
                 todo, runVars, poolVars>>

SweepDone ==
  /\ At("close")
  /\ todo = {}
  /\ Goto("select")
  /\ UNCHANGED <<netVars, serverVars, eventVars, sweepVars, runVars, poolVars>>

-----------------------------------------------------------------------------
(* "Test for incoming events".                                             *)

\* The three ::select calls with a zero timeout.  A socket can always be
\* written: a response fits in an empty send buffer.
ObtainIdleConnections ==
  /\ At("select")
  /\ IF comm \subseteq table
     THEN /\ connRead' = {c \in comm : Readable(c)}
          /\ connWrite' = comm
          /\ acceptReady' = (backlog # <<>>)
          /\ Goto("events")
     ELSE Throw /\ UNCHANGED eventVars
  /\ UNCHANGED <<netVars, serverVars, sweepVars, runVars, poolVars>>

\* SIGINT ends the first ::select with EINTR when nothing is ready.  The set
\* still holds every socket, and the loop goes on as if all were readable.
ObtainInterrupted ==
  /\ "eintr" \in Faults
  /\ At("select")
  /\ comm \subseteq table
  /\ backlog = <<>> /\ \A c \in comm : ~Readable(c)
  /\ closeSignal' = TRUE
  /\ connRead' = comm
  /\ connWrite' = comm
  /\ acceptReady' = TRUE
  /\ Goto("events")
  /\ UNCHANGED <<netVars, listening, running, comm, sweepVars, runVars, poolVars>>

\* AcceptNewConnection, push_back and OnConnect.  The main connection has the
\* lowest handler and so comes first.  ::accept blocks on an empty backlog.
AcceptNewConnection ==
  /\ At("events")
  /\ acceptReady
  /\ backlog # <<>>
  /\ backlog' = Tail(backlog)
  /\ AcceptDescriptor(Head(backlog))
  /\ comm' = comm \cup {Head(backlog)}
  /\ acceptReady' = FALSE
  /\ UNCHANGED <<peer, inbox, outbox, shut, listening, running, closeSignal,
                 connRead, connWrite, sweepVars, runVars, poolVars, controlVars>>

\* ::accept returns -1 with EMFILE, at once: it does not wait for a client first.
AcceptFails ==
  /\ At("events")
  /\ acceptReady
  /\ Cardinality(accepted) >= FdLimit
  /\ Throw
  /\ UNCHANGED <<netVars, serverVars, eventVars, sweepVars, runVars, poolVars>>

\* ::accept, blocked after an interrupted select, returns -1 with EINTR: the
\* handler is installed without SA_RESTART.  It takes another SIGINT.
AcceptInterrupted ==
  /\ "eintr" \in Faults
  /\ At("events")
  /\ acceptReady
  /\ backlog = <<>>
  /\ Throw
  /\ UNCHANGED <<netVars, serverVars, eventVars, sweepVars, runVars, poolVars>>

\* ReceiveRunnableTypeForConnection: the switch over the connection's state.
ReceiveRunnableTypeForConnection(c) ==
  CASE state[c] = "CNeedRequest" -> "EReadRequest"
    [] state[c] = "CNeedResponse" -> "EWriteResponse"
    [] state[c] = "CDataSending" -> "ESendData"
    [] OTHER -> "ENone"

\* ScheduleRunnable: CreateRunnableWithType, OnBeforeScheduling, push_back.
ScheduleRunnable(c) ==
  /\ made' = [made EXCEPT ![c] = @ + 1]
  /\ runnables' = Append(runnables, [conn |-> c,
                                     type |-> ReceiveRunnableTypeForConnection(c),
                                     seq |-> made[c] + 1])
  /\ lock' = [lock EXCEPT ![c] = TRUE]

\* Two defects: no test of the lock, no TestRunnableIsInitialized.
ScheduleUnlocked(c) ==
  IF HasDescriptor(c) /\ ReceiveRunnableTypeForConnection(c) # "ENone"
  THEN ScheduleRunnable(c)
  ELSE UNCHANGED <<made, runnables, lock>>
ScheduleUninitialized(c) ==
  IF HasDescriptor(c) /\ ~lock[c]
  THEN ScheduleRunnable(c)
  ELSE UNCHANGED <<made, runnables, lock>>

\* The body OnRead and OnWrite share.  A free lock means that no worker writes
\* the descriptor, so the lookups, the test and the switch are one step.
ScheduleIfIdle(c) ==
  IF /\ HasDescriptor(c)
     /\ ~lock[c]
     /\ ReceiveRunnableTypeForConnection(c) # "ENone"
  THEN ScheduleRunnable(c)
  ELSE UNCHANGED <<made, runnables, lock>>

OnRead(c) ==
  /\ At("events")
  /\ ~acceptReady
  /\ c \in connRead
  /\ connRead' = connRead \ {c}
  /\ ScheduleIfIdle(c)
  /\ UNCHANGED <<sockVars, accepted, table, state, request, serverVars, connWrite,
                 acceptReady, sweepVars, cursor, inProcess, done, poolVars, controlVars>>

\* OnWrite runs the same code: an idle client's writable socket is enough to
\* have its read scheduled.
OnWrite(c) ==
  /\ At("events")
  /\ ~acceptReady
  /\ connRead = {}
  /\ c \in connWrite
  /\ connWrite' = connWrite \ {c}
  /\ ScheduleIfIdle(c)
  /\ UNCHANGED <<sockVars, accepted, table, state, request, serverVars, connRead,
                 acceptReady, sweepVars, cursor, inProcess, done, poolVars, controlVars>>

EventsDone ==
  /\ At("events")
  /\ ~acceptReady /\ connRead = {} /\ connWrite = {}
  /\ Goto("schedule")
  /\ UNCHANGED <<netVars, serverVars, eventVars, sweepVars, runVars, poolVars>>

-----------------------------------------------------------------------------
(* "Runnable for thread pool".                                             *)

\* ScheduleExecutionRunnable for the next element of _runnables.
ScheduleExecutionRunnable ==
  /\ At("schedule")
  /\ cursor < Len(runnables)
  /\ cursor' = cursor + 1
  /\ tasks' = Append(tasks, runnables[cursor + 1])
  /\ UNCHANGED <<netVars, serverVars, eventVars, sweepVars, made, runnables, inProcess,
                 done, joinFlag, wpc, wtask, parsed, controlVars>>

\* A defect: the list is cleared and not spliced.
ClearRunnables ==
  /\ At("schedule")
  /\ cursor = Len(runnables)
  /\ runnables' = <<>>
  /\ cursor' = 0
  /\ Goto("erase")
  /\ UNCHANGED <<netVars, serverVars, eventVars, sweepVars, made, inProcess, done, poolVars>>

\* MarkRunnersStatusToInProgress: the list is spliced into _runnables_in_process.
MarkRunnersStatusToInProgress ==
  /\ At("schedule")
  /\ cursor = Len(runnables)
  /\ inProcess' = inProcess \cup Range(runnables)
  /\ runnables' = <<>>
  /\ cursor' = 0
  /\ Goto("erase")
  /\ UNCHANGED <<netVars, serverVars, eventVars, sweepVars, made, done, poolVars>>

\* PopAll, then each runnable is looked up among those in process and freed.
EraseCompletedRunners ==
  /\ At("erase")
  /\ IF Range(done) \subseteq inProcess /\ IsInjective(done)
     THEN inProcess' = inProcess \ Range(done) /\ Goto("exitTest")
     ELSE Throw /\ UNCHANGED inProcess
  /\ done' = <<>>
  /\ UNCHANGED <<netVars, serverVars, eventVars, sweepVars, made, runnables, cursor, poolVars>>

TestExit ==
  /\ At("exitTest")
  /\ Goto(IF closeSignal THEN "stop" ELSE "sweep")
  /\ UNCHANGED <<netVars, serverVars, eventVars, sweepVars, runVars, poolVars>>

-----------------------------------------------------------------------------
(* Stop, ~Server and the join.                                             *)

\* Two defects: busy connections are left alone, no connection is closed.
StopIdleOnly ==
  /\ At("stop")
  /\ todo' = IF running THEN {c \in comm : ~lock[c]} ELSE {}
  /\ Goto(IF running THEN "closeAll" ELSE "destroy")
  /\ UNCHANGED <<netVars, serverVars, eventVars, closing, runVars, poolVars>>
StopWithoutClosing ==
  /\ At("stop")
  /\ todo' = {}
  /\ Goto(IF running THEN "closeAll" ELSE "destroy")
  /\ UNCHANGED <<netVars, serverVars, eventVars, closing, runVars, poolVars>>

\* Stop is entered from Start or from ~Server; it does nothing, in either, for
\* a server that is not running.
Stop ==
  /\ At("stop")
  /\ todo' = IF running THEN comm ELSE {}
  /\ Goto(IF running THEN "closeAll" ELSE "destroy")
  /\ UNCHANGED <<netVars, serverVars, eventVars, closing, runVars, poolVars>>

\* CloseConnection of the next connection, up to its ::shutdown.
CloseNextConnection(c) ==
  /\ At("closeAll")
  /\ c \in todo
  /\ todo' = todo \ {c}
  /\ IF HasDescriptor(c)
     THEN /\ ReleaseConnectionHandler(c)
          /\ closing' = {c}
          /\ Goto("shutdownAll")
     ELSE Throw /\ UNCHANGED <<descrVars, closing>>
  /\ UNCHANGED <<sockVars, serverVars, eventVars, runVars, poolVars>>

\* The ::shutdown; here a failure leaves CloseAllConnections.
ShutdownNext(c) ==
  /\ At("shutdownAll")
  /\ c \in closing
  /\ closing' = {}
  /\ \E ok \in ShutdownResults(c) :
       /\ shut' = [shut EXCEPT ![c] = ok \/ @]
       /\ IF ok THEN Goto("closeAll") ELSE Throw
  /\ UNCHANGED <<peer, inbox, outbox, backlog, descrVars, serverVars, eventVars,
                 todo, runVars, poolVars>>

\* _comm_connections.clear(), CloseConnection(_main_sock), _is_running = false.
CloseMainConnection ==
  /\ At("closeAll")
  /\ todo = {}
  /\ comm' = {}
  /\ listening' = FALSE
  /\ running' = FALSE
  /\ Goto("destroy")
  /\ UNCHANGED <<netVars, closeSignal, eventVars, sweepVars, runVars, poolVars>>

\* The members of the server are destroyed, the thread pool before the lists of
\* runnables: JoinAllThreads raises the flags ...
JoinAllThreads ==
  /\ At("destroy")
  /\ joinFlag' = TRUE
  /\ Goto("join")
  /\ UNCHANGED <<netVars, serverVars, eventVars, sweepVars, runVars, tasks, wpc, wtask, parsed>>

\* ... and waits for every thread that was started.
ThreadsJoined ==
  /\ At("join")
  /\ \A w \in Workers : wpc[w] \in {"unborn", "exited"}
  /\ fate' = "exited"
  /\ UNCHANGED <<netVars, serverVars, eventVars, sweepVars, runVars, poolVars, pc, unwinding>>

-----------------------------------------------------------------------------
(* The worker threads.                                                     *)

Working(w, step) == fate = "alive" /\ wpc[w] = step

WGoto(w, step) == wpc' = [wpc EXCEPT ![w] = step]

\* An exception that leaves ThreadWorkerFunction, a failed assertion, a signal.
Die(how) == fate' = how /\ UNCHANGED wpc

\* What the steps of a worker leave alone, unless they say otherwise.
UnchangedByWorkers ==
  UNCHANGED <<peer, backlog, shut, accepted, table, serverVars, eventVars, sweepVars,
              made, runnables, cursor, inProcess, joinFlag, pc, unwinding>>

\* while (!context->join_flag)
TestJoinFlag(w) ==
  /\ Working(w, "loop")
  /\ WGoto(w, IF joinFlag THEN "exited" ELSE "pop")
  /\ UnchangedByWorkers
  /\ UNCHANGED <<inbox, outbox, state, lock, request, done, tasks, wtask, parsed, fate>>

\* Where run() starts.  No step leaves "sendData", the assert(false) of
\* HttpServerSendDataRunnable: no response sets the state CDataSending.
RunSteps == [EReadRequest |-> "readLookup", EWriteResponse |-> "writeLookup",
             ESendData |-> "sendData"]

\* TryPop, and a sleep when the queue is empty.
TryPop(w) ==
  /\ Working(w, "pop")
  /\ IF tasks = <<>>
     THEN WGoto(w, "loop") /\ UNCHANGED <<tasks, wtask>>
     ELSE /\ wtask' = [wtask EXCEPT ![w] = Head(tasks)]
          /\ tasks' = Tail(tasks)
          /\ WGoto(w, RunSteps[Head(tasks).type])
  /\ UnchangedByWorkers
  /\ UNCHANGED <<inbox, outbox, state, lock, request, done, parsed, fate>>

\* ReadBuffer finds the descriptor.
ReadLookup(w) ==
  /\ Working(w, "readLookup")
  /\ IF HasDescriptor(wtask[w].conn)
     THEN WGoto(w, "recv") /\ UNCHANGED fate
     ELSE Die("terminate")
  /\ UnchangedByWorkers
  /\ UNCHANGED <<inbox, outbox, state, lock, request, done, tasks, wtask, parsed>>

\* ::recv and ReadRequest, which works on the worker's own buffer.
Recv(w) ==
  LET c == wtask[w].conn IN
  /\ Working(w, "recv")
  /\ Readable(c)
  /\ IF RecvFails(c)
     THEN Die("terminate") /\ UNCHANGED <<inbox, parsed>>
     ELSE /\ parsed' = [parsed EXCEPT ![w] = ReceivedRequest(c)]
          /\ inbox' = [inbox EXCEPT ![c] = "none"]
          /\ WGoto(w, "store") /\ UNCHANGED fate
  /\ UnchangedByWorkers
  /\ UNCHANGED <<outbox, state, lock, request, done, tasks, wtask>>

\* The second lookup of HttpServerReadRequestRunnable::run and its two writes.
StoreRequest(w) ==
  LET c == wtask[w].conn IN
  /\ Working(w, "store")
  /\ IF HasDescriptor(c)
     THEN /\ request' = [request EXCEPT ![c] = parsed[w]]
          /\ state' = [state EXCEPT ![c] = "CNeedResponse"]
          /\ parsed' = [parsed EXCEPT ![w] = "none"]
          /\ WGoto(w, "finish") /\ UNCHANGED fate
     ELSE Die("terminate") /\ UNCHANGED <<request, state, parsed>>
  /\ UnchangedByWorkers
  /\ UNCHANGED <<inbox, outbox, lock, done, tasks, wtask>>

\* HttpServerWriteResponseRunnable::run looks up the descriptor and its request.
WriteLookup(w) ==
  LET c == wtask[w].conn IN
  /\ Working(w, "writeLookup")
  /\ IF HasDescriptor(c) /\ request[c] # "none"
     THEN WGoto(w, "respond") /\ UNCHANGED fate
     ELSE Die("terminate")
  /\ UnchangedByWorkers
  /\ UNCHANGED <<inbox, outbox, state, lock, request, done, tasks, wtask, parsed>>

\* ProcessRequest, Generate and the lookup in WriteBuffer.  A request for what
\* IsFile, which takes the path without the root, calls a file meets
\* assert(false); one whose descriptor has been released since is a dangling
\* pointer, and the lookup then finds nothing.
Respond(w) ==
  LET c == wtask[w].conn IN
  /\ Working(w, "respond")
  /\ \/ request[c] = "file" /\ Die("abort")
     \/ ~HasDescriptor(c) /\ Die("segv")
     \/ request[c] # "file" /\ ~HasDescriptor(c) /\ Die("terminate")
     \/ request[c] # "file" /\ HasDescriptor(c) /\ WGoto(w, "send") /\ UNCHANGED fate
  /\ UnchangedByWorkers
  /\ UNCHANGED <<inbox, outbox, state, lock, request, done, tasks, wtask, parsed>>

\* ::send.  Our own shutdown gives EPIPE and SIGPIPE, a peer's RST that or
\* ECONNRESET, which WriteBuffer throws.
SendResponse(w) ==
  LET c == wtask[w].conn IN
  /\ Working(w, "send")
  /\ IF SendFails(c)
     THEN /\ \/ Die("sigpipe")
             \/ peer[c] = "reset" /\ Die("terminate")
          /\ UNCHANGED outbox
     ELSE /\ outbox' = [outbox EXCEPT ![c] = @ + 1]
          /\ WGoto(w, "setClose") /\ UNCHANGED fate
  /\ UnchangedByWorkers
  /\ UNCHANGED <<inbox, state, lock, request, done, tasks, wtask, parsed>>

\* Two defects: the state is not changed, or it is reset for another request.
KeepState(w) ==
  /\ Working(w, "setClose")
  /\ WGoto(w, "finish")
  /\ UnchangedByWorkers
  /\ UNCHANGED <<inbox, outbox, state, lock, request, done, tasks, wtask, parsed, fate>>
SetNeedRequest(w) ==
  /\ Working(w, "setClose")
  /\ state' = [state EXCEPT ![wtask[w].conn] = "CNeedRequest"]
  /\ WGoto(w, "finish")
  /\ UnchangedByWorkers
  /\ UNCHANGED <<inbox, outbox, lock, request, done, tasks, wtask, parsed, fate>>

\* "change state": DoCloseConnection is true of every response.  The pointer
\* dates from writeLookup; a released node takes the write.
SetNeedClose(w) ==
  /\ Working(w, "setClose")
  /\ state' = [state EXCEPT ![wtask[w].conn] = "CNeedClose"]
  /\ WGoto(w, "finish")
  /\ UnchangedByWorkers
  /\ UNCHANGED <<inbox, outbox, lock, request, done, tasks, wtask, parsed, fate>>

\* A defect: the lock is not released.
KeepLock(w) ==
  /\ Working(w, "finish")
  /\ IF HasDescriptor(wtask[w].conn) THEN WGoto(w, "push") /\ UNCHANGED fate ELSE Die("terminate")
  /\ UnchangedByWorkers
  /\ UNCHANGED <<inbox, outbox, state, lock, request, done, tasks, wtask, parsed>>

\* MarkRunnerStatusToDone: OnFinished ...
OnFinished(w) ==
  LET c == wtask[w].conn IN
  /\ Working(w, "finish")
  /\ IF HasDescriptor(c)
     THEN /\ lock' = [lock EXCEPT ![c] = FALSE]
          /\ WGoto(w, "push") /\ UNCHANGED fate
     ELSE Die("terminate") /\ UNCHANGED lock
  /\ UnchangedByWorkers
  /\ UNCHANGED <<inbox, outbox, state, request, done, tasks, wtask, parsed>>

\* ... and the Push that hands the runnable back to the main thread.
PushDone(w) ==
  /\ Working(w, "push")
  /\ done' = Append(done, wtask[w])
  /\ wtask' = [wtask EXCEPT ![w] = NoTask]
  /\ WGoto(w, "loop")
  /\ UnchangedByWorkers
  /\ UNCHANGED <<inbox, outbox, state, lock, request, tasks, parsed, fate>>

-----------------------------------------------------------------------------
(* The clients and the terminal.                                           *)

UnchangedByClients ==
  UNCHANGED <<descrVars, serverVars, eventVars, sweepVars, runVars, poolVars, controlVars>>

ClientConnects(c) == listening /\ Connect(c) /\ UnchangedByClients
ClientSends(c) == c \notin Silent /\ Send(c) /\ UnchangedByClients
ClientCloses(c) == c \notin Silent /\ Close(c) /\ UnchangedByClients
ClientResets(c) == c \notin Silent /\ Reset(c) /\ UnchangedByClients

\* SIGINT, handled by ProgramBreakEventProvider and Server::onEvent.
ReceiveSignal ==
  /\ "sigint" \in Faults
  /\ fate = "alive"
  /\ ~closeSignal
  /\ closeSignal' = TRUE
  /\ UNCHANGED <<netVars, listening, running, comm, eventVars, sweepVars, runVars,
                 poolVars, controlVars>>

\* Nothing moves once the process has ended.
Ended == fate # "alive" /\ UNCHANGED vars

-----------------------------------------------------------------------------
Main ==
  \/ StartListening \/ StartListeningFails \/ StartThreadPool
  \/ TestForClose \/ SweepDone
  \/ \E c \in Clients : CloseServerConnection(c) \/ ShutdownSwept(c)
  \/ ObtainIdleConnections \/ ObtainInterrupted
  \/ AcceptNewConnection \/ AcceptFails \/ EventsDone
  \/ \E c \in Clients : OnRead(c) \/ OnWrite(c)
  \/ ScheduleExecutionRunnable \/ MarkRunnersStatusToInProgress
  \/ EraseCompletedRunners \/ TestExit
  \/ Stop \/ CloseMainConnection \/ JoinAllThreads \/ ThreadsJoined
  \/ \E c \in Clients : CloseNextConnection(c) \/ ShutdownNext(c)

Worker(w) ==
  \/ TestJoinFlag(w) \/ TryPop(w)
  \/ ReadLookup(w) \/ Recv(w) \/ StoreRequest(w)
  \/ WriteLookup(w) \/ Respond(w) \/ SendResponse(w) \/ SetNeedClose(w)
  \/ OnFinished(w) \/ PushDone(w)

Client(c) == ClientConnects(c) \/ ClientSends(c) \/ ClientCloses(c) \/ ClientResets(c)

Next ==
  \/ Main
  \/ \E w \in Workers : Worker(w)
  \/ \E c \in Clients : Client(c)
  \/ ReceiveSignal \/ AcceptInterrupted
  \/ Ended

Spec == Init /\ [][Next]_vars

\* The operating system runs every thread that is not blocked.
ThreadFairness == WF_vars(Main) /\ \A w \in Workers : WF_vars(Worker(w))

FairSpec == Spec /\ ThreadFairness

\* A client that is not silent eventually sends its request, unless it leaves.
PoliteSpec == FairSpec /\ \A c \in Clients : WF_vars(ClientSends(c))

-----------------------------------------------------------------------------
(* Properties.                                                             *)

ServerTypeOK ==
  /\ listening \in BOOLEAN
  /\ running \in BOOLEAN
  /\ closeSignal \in BOOLEAN
  /\ comm \in SUBSET Clients

EventTypeOK ==
  /\ connRead \in SUBSET Clients
  /\ connWrite \in SUBSET Clients
  /\ acceptReady \in BOOLEAN

SweepTypeOK == todo \in SUBSET Clients /\ closing \in SUBSET Clients

RunTypeOK ==
  /\ made \in [Clients -> Nat]
  /\ runnables \in Seq(Runnable)
  /\ cursor \in 0 .. Len(runnables)
  /\ inProcess \in SUBSET Runnable
  /\ done \in Seq(Runnable)

PoolTypeOK ==
  /\ tasks \in Seq(Runnable)
  /\ joinFlag \in BOOLEAN
  /\ wpc \in [Workers -> WorkerSteps]
  /\ wtask \in [Workers -> Runnable \cup {NoTask}]
  /\ parsed \in [Workers -> Parsed \cup {"none"}]

ControlTypeOK == pc \in MainSteps /\ unwinding \in BOOLEAN /\ fate \in Fates

\* Every variable keeps to its type, and the cursor to the list it walks.
TypeOK ==
  /\ ConnectionsTypeOK
  /\ ServerTypeOK
  /\ EventTypeOK
  /\ SweepTypeOK
  /\ RunTypeOK
  /\ PoolTypeOK
  /\ ControlTypeOK

\* The loop has been left for good.
Stopping == unwinding \/ pc \in {"stop", "closeAll", "shutdownAll", "destroy", "join"}

Unpushed == {runnables[i] : i \in cursor + 1 .. Len(runnables)}
Idle(w) == wtask[w] = NoTask
Executing(w) == ~Idle(w) /\ wpc[w] # "push"

\* The runnables some thread is still going to touch a connection with.
Active == Unpushed \cup Range(tasks) \cup {wtask[w] : w \in {v \in Workers : Executing(v)}}

\* At most one runnable at a time works on a connection, on one worker, and the
\* connection is locked meanwhile: OnRead and OnWrite test a flag that nothing
\* but the order of the writes protects (httpServer.cpp:41, serverRunnable.cpp:30).
ExclusiveAccess ==
  /\ \A r \in Active : lock[r.conn]
  /\ \A r, s \in Active : r.conn = s.conn => r = s
  /\ IsInjective(tasks)
  /\ \A w \in Workers : ~Idle(w) => wtask[w] \notin Unpushed \cup Range(tasks)
  /\ \A v, w \in Workers : ~Idle(v) /\ wtask[v] = wtask[w] => v = w

\* The pool and the queue of completed runnables hold raw pointers: each of them
\* points to an object that one of the server's two lists owns, and when the
\* completed ones are erased each is found, once (server.cpp:105-115, 212-233).
RunnersOwned ==
  /\ Range(tasks) \cup Range(done) \cup ({wtask[w] : w \in Workers} \ {NoTask})
       \subseteq Range(runnables) \cup inProcess
  /\ pc = "erase" => Range(done) \subseteq inProcess
  /\ IsInjective(done)

Pushed == {runnables[i] : i \in 1 .. cursor}
Held == {wtask[w] : w \in Workers} \ {NoTask}

\* Runnables are made for accepted connections only, and numbered as they are.
Numbered ==
  /\ \A r \in Range(runnables) \cup inProcess : r.seq \in 1 .. made[r.conn]
  /\ \A c \in Clients : made[c] > 0 => c \in accepted

\* A connection waits in the backlog once, before it is accepted and described.
ArrivesOnce ==
  /\ table \subseteq accepted
  /\ IsInjective(backlog)
  /\ Range(backlog) \cap accepted = {}
  /\ \A c \in Clients : peer[c] = "absent" => c \notin Range(backlog) \cup accepted

\* Each runnable is in one of the server's lists, once ...
InOneList == IsInjective(runnables) /\ Range(runnables) \cap inProcess = {}

\* ... and, once it has been pushed, in at most one place of the pool.
InOnePlace ==
  /\ Range(tasks) \cup Held \cup Range(done) \subseteq Pushed \cup inProcess
  /\ IsInjective(tasks) /\ IsInjective(done)
  /\ Range(tasks) \cap Held = {} /\ Range(done) \cap (Range(tasks) \cup Held) = {}
  /\ \A v, w \in Workers : ~Idle(v) /\ wtask[v] = wtask[w] => v = w

\* Why ExclusiveAccess and RunnersOwned hold: where each runnable is, who owns it
\* and which connection it has locked, at every step (server.cpp:102-116).
Ownership ==
  /\ Numbered
  /\ ArrivesOnce
  /\ InOneList
  /\ InOnePlace
  /\ \A r \in Active : lock[r.conn]
  /\ \A r, s \in Active : r.conn = s.conn => r = s
  /\ pc = "erase" => runnables = <<>>

\* While the loop runs, the connections select watches are those that have a
\* descriptor; a missing one makes ObtainIdleSocketsFor throw (functions.cpp:357).
WatchedHaveDescriptors == ~Stopping => comm = table

\* A worker that has not yet answered finds its connection where it looks for
\* it, and its request: only OnFinished may come too late (serverRunnable.cpp:26).
ConnectionHeldUntilAnswered ==
  \A w \in Workers :
    /\ ~Stopping
    /\ wpc[w] \in {"readLookup", "recv", "store", "writeLookup", "respond", "send", "setClose"}
    => /\ HasDescriptor(wtask[w].conn)
       /\ wtask[w].type = "EWriteResponse" => request[wtask[w].conn] # "none"

\* Two runnables, one to read and one to write, are made for a connection: none
\* is scheduled for a state a worker is about to leave (httpServer.cpp:41, 64).
TwoRunnables == \A c \in Clients : made[c] <= 2

\* A process that ends by itself has shut down every connection it accepted,
\* those the workers were busy with included (server.cpp:141).
CleanExit ==
  fate = "exited" =>
    /\ ~running /\ ~listening
    /\ table = {}
    /\ \A c \in accepted : shut[c] \/ peer[c] = "reset" \/ (peer[c] = "closed" /\ outbox[c] = 1)

\* Every accepted connection is answered, or the process ends, although each of
\* the silent clients keeps a worker in recv (httpServer.cpp:66).
Answered ==
  \A c \in Clients \ Silent : c \in accepted ~> outbox[c] = 1 \/ fate # "alive"

\* Every answered connection is closed, or the process ends.
ClosedAfterAnswer ==
  \A c \in Clients : outbox[c] = 1 ~> c \notin table \/ fate # "alive"

\* SIGINT ends the server: the loop sees the flag, Stop unblocks the workers
\* that wait in recv, and the join returns.
ShutdownCompletes == closeSignal ~> fate # "alive"

-----------------------------------------------------------------------------
(* What it implements.                                                     *)

Phase(c) ==
  CASE c \notin accepted /\ c \notin Range(backlog) -> "none"
    [] c \notin accepted /\ c \in Range(backlog) -> "waiting"
    [] c \in accepted /\ c \notin table -> "gone"
    [] c \in table /\ state[c] = "CNeedRequest" -> "open"
    [] c \in table /\ state[c] = "CNeedResponse" -> "asked"
    [] c \in table /\ state[c] = "CNeedClose" -> "answered"

Life == INSTANCE ConnectionLife WITH
  phase <- [c \in Clients |-> Phase(c)], replies <- outbox, stopping <- Stopping

\* A connection that goes away while the server runs has been answered; none is
\* answered twice.
AnsweredBeforeGone == Life!GoneAnswered

\* Each connection lives the life ConnectionLife allows: threads, faults and a
\* stop at any point included.
ImplementsLife == Life!LifeSpec

-----------------------------------------------------------------------------
(* What the repository says of the program, and the program does not do.   *)

\* OnFinished throws when the descriptor is missing: serverRunnable.cpp:26 takes
\* its presence for granted after a run() that found it.
FinishedFindsDescriptor ==
  ~Stopping => \A w \in Workers : wpc[w] = "finish" => HasDescriptor(wtask[w].conn)

\* assert(false) marks a branch that is not taken (httpCommandProcessor.cpp:51).
NoAssertionFails == fate # "abort"

\* The exceptions of the main thread reach the catch clauses of main, which turn
\* them into its return value (ftpOverHttpServer.cpp:14-18, 82-94).
ExceptionsReachMain == [][Main => fate' # "terminate"]_vars

=============================================================================
