-------------------------- MODULE HttpServerProofs --------------------------
(* Theorems about HttpServer, for every set of clients and of workers: its  *)
(* types, and how its list of connections follows the descriptors.          *)
EXTENDS HttpServer, TLAPS

\* A worker holds a runnable exactly while it executes one.
BusySteps ==
  WorkerSteps \ {"unborn", "loop", "pop", "exited"}

BusyHasTask ==
  \A w \in Workers : wpc[w] \in BusySteps <=> wtask[w] \in Runnable

TypeInv == TypeOK /\ BusyHasTask

-----------------------------------------------------------------------------
\* The initial state has the right types.
LEMMA TypeInit == Init => TypeInv
<1> SUFFICES ASSUME Init PROVE TypeInv
  OBVIOUS
<1>1. ConnectionsTypeOK
  BY DEF Init, ConnectionsInit, ConnectionsTypeOK, PeerStates, HttpConnectionState, Parsed
<1>2. ServerTypeOK /\ EventTypeOK /\ SweepTypeOK
  BY DEF Init, ServerTypeOK, EventTypeOK, SweepTypeOK
<1>3. RunTypeOK
  BY DEF Init, RunTypeOK
<1>4. PoolTypeOK
  <2>1. wpc \in [Workers -> WorkerSteps]
    BY DEF Init, WorkerSteps
  <2>2. wtask \in [Workers -> Runnable \cup {NoTask}]
    BY DEF Init
  <2>3. parsed \in [Workers -> Parsed \cup {"none"}]
    BY DEF Init
  <2>4. tasks \in Seq(Runnable)
    <3>1. tasks = <<>>
      BY DEF Init
    <3> QED
      BY <3>1
  <2>5. joinFlag \in BOOLEAN
    BY DEF Init
  <2> QED
    BY <2>1, <2>2, <2>3, <2>4, <2>5 DEF PoolTypeOK
<1>5. ControlTypeOK
  BY DEF Init, ControlTypeOK, MainSteps, Fates
<1>6. BusyHasTask
  BY NoTaskAssumption DEF Init, BusyHasTask, BusySteps
<1> QED
  BY <1>1, <1>2, <1>3, <1>4, <1>5, <1>6 DEF TypeInv, TypeOK

\* A group of variables that does not change keeps its type.
LEMMA TypeFrame ==
  /\ ConnectionsTypeOK /\ UNCHANGED netVars => ConnectionsTypeOK'
  /\ ServerTypeOK /\ UNCHANGED serverVars => ServerTypeOK'
  /\ EventTypeOK /\ UNCHANGED eventVars => EventTypeOK'
  /\ SweepTypeOK /\ UNCHANGED sweepVars => SweepTypeOK'
  /\ RunTypeOK /\ UNCHANGED runVars => RunTypeOK'
  /\ PoolTypeOK /\ BusyHasTask /\ UNCHANGED poolVars => PoolTypeOK' /\ BusyHasTask'
  /\ ControlTypeOK /\ UNCHANGED controlVars => ControlTypeOK'
<1>1. ConnectionsTypeOK /\ UNCHANGED netVars => ConnectionsTypeOK'
  BY DEF ConnectionsTypeOK, netVars, sockVars, descrVars
<1>2. ServerTypeOK /\ UNCHANGED serverVars => ServerTypeOK'
  BY DEF ServerTypeOK, serverVars
<1>3. EventTypeOK /\ UNCHANGED eventVars => EventTypeOK'
  BY DEF EventTypeOK, eventVars
<1>4. SweepTypeOK /\ UNCHANGED sweepVars => SweepTypeOK'
  BY DEF SweepTypeOK, sweepVars
<1>5. RunTypeOK /\ UNCHANGED runVars => RunTypeOK'
  BY DEF RunTypeOK, runVars
<1>6. PoolTypeOK /\ BusyHasTask /\ UNCHANGED poolVars => PoolTypeOK' /\ BusyHasTask'
  BY DEF PoolTypeOK, BusyHasTask, poolVars
<1>7. ControlTypeOK /\ UNCHANGED controlVars => ControlTypeOK'
  BY DEF ControlTypeOK, controlVars
<1> QED
  BY <1>1, <1>2, <1>3, <1>4, <1>5, <1>6, <1>7

\* Where Goto and Throw lead.
LEMMA TypeControl ==
  ControlTypeOK =>
    /\ \A step \in MainSteps : Goto(step) => ControlTypeOK'
    /\ Throw => ControlTypeOK'
BY DEF ControlTypeOK, Goto, Throw, MainSteps, Fates

-----------------------------------------------------------------------------
\* The steps of the main thread up to select preserve the types.
LEMMA TypeSweep ==
  ASSUME TypeInv,
         \/ StartListening \/ StartListeningFails \/ StartThreadPool
         \/ TestForClose \/ SweepDone
         \/ \E c \in Clients : CloseServerConnection(c) \/ ShutdownSwept(c)
  PROVE  TypeInv'
<1> USE TypeFrame, TypeControl DEF TypeInv, TypeOK
<1>1. CASE StartListening
  <2>1. ServerTypeOK'
    BY <1>1 DEF StartListening, ServerTypeOK
  <2> QED
    BY <1>1, <2>1 DEF StartListening, MainSteps
<1>2. CASE StartListeningFails
  BY <1>2 DEF StartListeningFails
<1>3. CASE StartThreadPool
  <2>1. PoolTypeOK'
    BY <1>3 DEF StartThreadPool, PoolTypeOK, WorkerSteps
  <2>2. BusyHasTask'
    BY <1>3, NoTaskAssumption DEF StartThreadPool, BusyHasTask, BusySteps
  <2> QED
    BY <1>3, <2>1, <2>2 DEF StartThreadPool, MainSteps
<1>4. CASE TestForClose
  <2>1. SweepTypeOK'
    BY <1>4 DEF TestForClose, SweepTypeOK, ConnectionsTypeOK
  <2> QED
    BY <1>4, <2>1 DEF TestForClose, MainSteps
<1>5. CASE SweepDone
  BY <1>5 DEF SweepDone, MainSteps
<1>6. ASSUME NEW c \in Clients, CloseServerConnection(c) PROVE TypeInv'
  <2>1. ConnectionsTypeOK'
    BY <1>6 DEF CloseServerConnection, ReleaseConnectionHandler, ConnectionsTypeOK, sockVars
  <2>2. ServerTypeOK' /\ SweepTypeOK'
    BY <1>6 DEF CloseServerConnection, ServerTypeOK, SweepTypeOK
  <2> QED
    BY <1>6, <2>1, <2>2 DEF CloseServerConnection, MainSteps
<1>7. ASSUME NEW c \in Clients, ShutdownSwept(c) PROVE TypeInv'
  <2>1. ConnectionsTypeOK'
    BY <1>7 DEF ShutdownSwept, ShutdownResults, ConnectionsTypeOK, descrVars
  <2>2. SweepTypeOK'
    BY <1>7 DEF ShutdownSwept, SweepTypeOK
  <2> QED
    BY <1>7, <2>1, <2>2 DEF ShutdownSwept, MainSteps
<1> QED
  BY <1>1, <1>2, <1>3, <1>4, <1>5, <1>6, <1>7

\* The head of the backlog is a client, and the rest are.
LEMMA BacklogHead ==
  ASSUME NEW S, NEW s \in Seq(S), s # <<>>
  PROVE  Head(s) \in S /\ Tail(s) \in Seq(S)
OBVIOUS

\* Scheduling a runnable keeps the types.
LEMMA TypeSchedule ==
  ASSUME TypeInv, NEW c \in Clients, ScheduleIfIdle(c), UNCHANGED <<cursor, inProcess, done>>
  PROVE  RunTypeOK' /\ lock' \in [Clients -> BOOLEAN]
<1> USE DEF TypeInv, TypeOK, RunTypeOK, ConnectionsTypeOK
<1>1. CASE UNCHANGED <<made, runnables, lock>>
  BY <1>1
<1>2. CASE ScheduleRunnable(c) /\ ReceiveRunnableTypeForConnection(c) # "ENone"
  <2> DEFINE r == [conn |-> c, type |-> ReceiveRunnableTypeForConnection(c), seq |-> made[c] + 1]
  <2>1. r \in Runnable
    BY <1>2 DEF Runnable, ReceiveRunnableTypeForConnection, HttpWorkerRunnableType
  <2>2. runnables' = Append(runnables, r)
    BY <1>2 DEF ScheduleRunnable
  <2>3. runnables' \in Seq(Runnable) /\ Len(runnables') = Len(runnables) + 1
    BY <2>1, <2>2
  <2> QED
    BY <1>2, <2>3 DEF ScheduleRunnable
<1> QED
  BY <1>1, <1>2 DEF ScheduleIfIdle

\* The steps of the main thread that handle events preserve the types.
LEMMA TypeEvents ==
  ASSUME TypeInv,
         \/ ObtainIdleConnections \/ ObtainInterrupted
         \/ AcceptNewConnection \/ AcceptFails \/ AcceptInterrupted \/ EventsDone
         \/ \E c \in Clients : OnRead(c) \/ OnWrite(c)
  PROVE  TypeInv'
<1> USE TypeFrame, TypeControl DEF TypeInv, TypeOK
<1>1. CASE ObtainIdleConnections
  <2>1. EventTypeOK'
    BY <1>1 DEF ObtainIdleConnections, EventTypeOK, ServerTypeOK, eventVars
  <2>2. ControlTypeOK'
    BY <1>1 DEF ObtainIdleConnections, MainSteps
  <2> QED
    BY <1>1, <2>1, <2>2 DEF ObtainIdleConnections
<1>2. CASE ObtainInterrupted
  <2>1. EventTypeOK' /\ ServerTypeOK'
    BY <1>2 DEF ObtainInterrupted, EventTypeOK, ServerTypeOK
  <2> QED
    BY <1>2, <2>1 DEF ObtainInterrupted, MainSteps
<1>3. CASE AcceptNewConnection
  <2>1. Head(backlog) \in Clients /\ Tail(backlog) \in Seq(Clients)
    BY <1>3, BacklogHead DEF AcceptNewConnection, ConnectionsTypeOK
  <2>2. ConnectionsTypeOK'
    BY <1>3, <2>1 DEF AcceptNewConnection, AcceptDescriptor, ConnectionsTypeOK,
                      HttpConnectionState
  <2>3. ServerTypeOK' /\ EventTypeOK'
    BY <1>3, <2>1 DEF AcceptNewConnection, ServerTypeOK, EventTypeOK
  <2> QED
    BY <1>3, <2>2, <2>3 DEF AcceptNewConnection
<1>4. CASE AcceptFails
  BY <1>4 DEF AcceptFails
<1>5. CASE AcceptInterrupted
  BY <1>5 DEF AcceptInterrupted
<1>6. CASE EventsDone
  BY <1>6 DEF EventsDone, MainSteps
<1>7. ASSUME NEW c \in Clients, OnRead(c) PROVE TypeInv'
  <2>1. RunTypeOK' /\ lock' \in [Clients -> BOOLEAN]
    BY <1>7, TypeSchedule DEF OnRead
  <2>2. ConnectionsTypeOK'
    BY <1>7, <2>1 DEF OnRead, ConnectionsTypeOK, sockVars
  <2>3. EventTypeOK'
    BY <1>7 DEF OnRead, EventTypeOK
  <2> QED
    BY <1>7, <2>1, <2>2, <2>3 DEF OnRead
<1>8. ASSUME NEW c \in Clients, OnWrite(c) PROVE TypeInv'
  <2>1. RunTypeOK' /\ lock' \in [Clients -> BOOLEAN]
    BY <1>8, TypeSchedule DEF OnWrite
  <2>2. ConnectionsTypeOK'
    BY <1>8, <2>1 DEF OnWrite, ConnectionsTypeOK, sockVars
  <2>3. EventTypeOK'
    BY <1>8 DEF OnWrite, EventTypeOK
  <2> QED
    BY <1>8, <2>1, <2>2, <2>3 DEF OnWrite
<1> QED
  BY <1>1, <1>2, <1>3, <1>4, <1>5, <1>6, <1>7, <1>8

\* The steps of the main thread that push and erase runnables preserve the types.
LEMMA TypeRunners ==
  ASSUME TypeInv,
         \/ ScheduleExecutionRunnable \/ MarkRunnersStatusToInProgress
         \/ EraseCompletedRunners \/ TestExit
  PROVE  TypeInv'
<1> USE TypeFrame, TypeControl DEF TypeInv, TypeOK
<1>1. CASE ScheduleExecutionRunnable
  <2>1. RunTypeOK'
    BY <1>1 DEF ScheduleExecutionRunnable, RunTypeOK
  <2>2. runnables[cursor + 1] \in Runnable
    BY <1>1 DEF ScheduleExecutionRunnable, RunTypeOK
  <2>3. PoolTypeOK'
    BY <1>1, <2>2 DEF ScheduleExecutionRunnable, PoolTypeOK
  <2>4. BusyHasTask'
    BY <1>1 DEF ScheduleExecutionRunnable, BusyHasTask
  <2> QED
    BY <1>1, <2>1, <2>3, <2>4 DEF ScheduleExecutionRunnable
<1>2. CASE MarkRunnersStatusToInProgress
  <2>1. Range(runnables) \subseteq Runnable
    BY DEF Range, RunTypeOK
  <2>2. RunTypeOK'
    BY <1>2, <2>1 DEF MarkRunnersStatusToInProgress, RunTypeOK
  <2> QED
    BY <1>2, <2>2 DEF MarkRunnersStatusToInProgress, MainSteps
<1>3. CASE EraseCompletedRunners
  <2>1. RunTypeOK'
    BY <1>3 DEF EraseCompletedRunners, RunTypeOK
  <2>2. ControlTypeOK'
    BY <1>3 DEF EraseCompletedRunners, MainSteps
  <2> QED
    BY <1>3, <2>1, <2>2 DEF EraseCompletedRunners
<1>4. CASE TestExit
  <2>1. ControlTypeOK'
    BY <1>4 DEF TestExit, MainSteps
  <2> QED
    BY <1>4, <2>1 DEF TestExit
<1> QED
  BY <1>1, <1>2, <1>3, <1>4

\* The steps that stop the server preserve the types.
LEMMA TypeStop ==
  ASSUME TypeInv,
         \/ Stop \/ CloseMainConnection \/ JoinAllThreads \/ ThreadsJoined
         \/ \E c \in Clients : CloseNextConnection(c) \/ ShutdownNext(c)
  PROVE  TypeInv'
<1> USE TypeFrame, TypeControl DEF TypeInv, TypeOK
<1>1. CASE Stop
  <2>1. SweepTypeOK'
    BY <1>1 DEF Stop, SweepTypeOK, ServerTypeOK
  <2>2. ControlTypeOK'
    BY <1>1 DEF Stop, MainSteps
  <2> QED
    BY <1>1, <2>1, <2>2 DEF Stop
<1>2. CASE CloseMainConnection
  <2>1. ServerTypeOK'
    BY <1>2 DEF CloseMainConnection, ServerTypeOK
  <2> QED
    BY <1>2, <2>1 DEF CloseMainConnection, MainSteps
<1>3. CASE JoinAllThreads
  <2>1. PoolTypeOK' /\ BusyHasTask'
    BY <1>3 DEF JoinAllThreads, PoolTypeOK, BusyHasTask
  <2> QED
    BY <1>3, <2>1 DEF JoinAllThreads, MainSteps
<1>4. CASE ThreadsJoined
  <2>1. ControlTypeOK'
    BY <1>4 DEF ThreadsJoined, ControlTypeOK, Fates
  <2> QED
    BY <1>4, <2>1 DEF ThreadsJoined
<1>5. ASSUME NEW c \in Clients, CloseNextConnection(c) PROVE TypeInv'
  <2>1. ConnectionsTypeOK'
    BY <1>5 DEF CloseNextConnection, ReleaseConnectionHandler, ConnectionsTypeOK,
                sockVars, descrVars
  <2>2. SweepTypeOK'
    BY <1>5 DEF CloseNextConnection, SweepTypeOK
  <2>3. ControlTypeOK'
    BY <1>5 DEF CloseNextConnection, MainSteps
  <2> QED
    BY <1>5, <2>1, <2>2, <2>3 DEF CloseNextConnection
<1>6. ASSUME NEW c \in Clients, ShutdownNext(c) PROVE TypeInv'
  <2>1. ConnectionsTypeOK'
    BY <1>6 DEF ShutdownNext, ShutdownResults, ConnectionsTypeOK, descrVars
  <2>2. SweepTypeOK'
    BY <1>6 DEF ShutdownNext, SweepTypeOK
  <2>3. ControlTypeOK'
    BY <1>6 DEF ShutdownNext, MainSteps
  <2> QED
    BY <1>6, <2>1, <2>2, <2>3 DEF ShutdownNext
<1> QED
  BY <1>1, <1>2, <1>3, <1>4, <1>5, <1>6

-----------------------------------------------------------------------------
\* An update keeps a function's type.
LEMMA UpdateType ==
  ASSUME NEW S, NEW T, NEW f \in [S -> T], NEW x, NEW y \in T
  PROVE  [f EXCEPT ![x] = y] \in [S -> T]
OBVIOUS

\* An increment keeps a counter's.
LEMMA IncrementType ==
  ASSUME NEW S, NEW f \in [S -> Nat], NEW x \in S
  PROVE  [f EXCEPT ![x] = @ + 1] \in [S -> Nat]
OBVIOUS

\* What remains to be shown of a worker's step.
LEMMA TypeWorkerFrame ==
  ASSUME TypeInv, UnchangedByWorkers,
         inbox' \in [Clients -> Requests \cup {"none"}], outbox' \in [Clients -> Nat],
         state' \in [Clients -> HttpConnectionState], lock' \in [Clients -> BOOLEAN],
         request' \in [Clients -> Parsed \cup {"none"}],
         done' \in Seq(Runnable), tasks' \in Seq(Runnable),
         wtask' \in [Workers -> Runnable \cup {NoTask}],
         parsed' \in [Workers -> Parsed \cup {"none"}],
         NEW w \in Workers, NEW step \in WorkerSteps,
         \/ WGoto(w, step) /\ UNCHANGED fate
            /\ (step \in BusySteps <=> wtask'[w] \in Runnable)
            /\ \A v \in Workers \ {w} : wtask'[v] = wtask[v]
         \/ UNCHANGED <<wpc, wtask>> /\ fate' \in Fates
  PROVE  TypeInv'
<1> USE DEF TypeInv, TypeOK, UnchangedByWorkers
<1>1. ConnectionsTypeOK'
  BY DEF ConnectionsTypeOK
<1>2. ServerTypeOK' /\ EventTypeOK' /\ SweepTypeOK'
  BY DEF ServerTypeOK, EventTypeOK, SweepTypeOK, serverVars, eventVars, sweepVars
<1>3. RunTypeOK'
  BY DEF RunTypeOK
<1>4. ControlTypeOK'
  BY DEF ControlTypeOK
<1>5. PoolTypeOK'
  BY DEF PoolTypeOK, WGoto
<1>6. BusyHasTask'
  BY DEF BusyHasTask, PoolTypeOK, WGoto
<1> QED
  BY <1>1, <1>2, <1>3, <1>4, <1>5, <1>6

\* A worker's steps preserve the types.
LEMMA TypeWorker ==
  ASSUME TypeInv, NEW w \in Workers, Worker(w)
  PROVE  TypeInv'
<1> DEFINE c == wtask[w].conn
<1> USE DEF TypeInv, TypeOK, ConnectionsTypeOK, PoolTypeOK, RunTypeOK, ControlTypeOK
<1>0. wpc[w] \in BusySteps <=> wtask[w] \in Runnable
  BY DEF BusyHasTask
<1>1. CASE TestJoinFlag(w)
  <2>1. wtask[w] \notin Runnable
    BY <1>0, <1>1 DEF TestJoinFlag, Working, BusySteps
  <2>2. {"exited", "pop"} \subseteq WorkerSteps /\ {"exited", "pop"} \cap BusySteps = {}
    BY DEF WorkerSteps, BusySteps
  <2> QED
    BY <1>1, <2>1, <2>2, TypeWorkerFrame DEF TestJoinFlag
<1>2. CASE TryPop(w)
  <2>0. {"pop", "loop"} \subseteq WorkerSteps /\ {"pop", "loop"} \cap BusySteps = {}
    BY DEF WorkerSteps, BusySteps
  <2>1. CASE tasks = <<>>
    <3>1. wtask[w] \notin Runnable
      BY <1>0, <1>2, <2>0 DEF TryPop, Working
    <3> QED
      BY <1>2, <2>0, <2>1, <3>1, TypeWorkerFrame DEF TryPop
  <2>2. CASE tasks # <<>>
    <3>1. Head(tasks) \in Runnable /\ Tail(tasks) \in Seq(Runnable)
      BY <2>2, BacklogHead
    <3>2. RunSteps[Head(tasks).type] \in WorkerSteps \cap BusySteps
      BY <3>1 DEF Runnable, RunSteps, WorkerSteps, BusySteps, HttpWorkerRunnableType
    <3> QED
      BY <1>2, <2>2, <3>1, <3>2, TypeWorkerFrame DEF TryPop
  <2> QED
    BY <2>1, <2>2
<1>3. CASE ReadLookup(w)
  <2>1. wtask[w] \in Runnable
    BY <1>0, <1>3 DEF ReadLookup, Working, WorkerSteps, BusySteps
  <2>2. "recv" \in WorkerSteps \cap BusySteps /\ "terminate" \in Fates
    BY DEF WorkerSteps, BusySteps, Fates
  <2> QED
    BY <1>3, <2>1, <2>2, TypeWorkerFrame DEF ReadLookup, Die
<1>4. CASE Recv(w)
  <2>1. wtask[w] \in Runnable /\ c \in Clients
    BY <1>0, <1>4 DEF Recv, Working, WorkerSteps, BusySteps, Runnable
  <2>2. "store" \in WorkerSteps \cap BusySteps /\ "terminate" \in Fates
    BY DEF WorkerSteps, BusySteps, Fates
  <2>3. ReceivedRequest(c) \in Parsed
    BY <2>1 DEF ReceivedRequest, Parsed
  <2> QED
    BY <1>4, <2>1, <2>2, <2>3, TypeWorkerFrame DEF Recv, Die
<1>5. CASE StoreRequest(w)
  <2>1. wtask[w] \in Runnable
    BY <1>0, <1>5 DEF StoreRequest, Working, WorkerSteps, BusySteps
  <2>2. "finish" \in WorkerSteps \cap BusySteps /\ "terminate" \in Fates
    BY DEF WorkerSteps, BusySteps, Fates
  <2>3. "CNeedResponse" \in HttpConnectionState
    BY DEF HttpConnectionState
  <2>4. /\ request' \in [Clients -> Parsed \cup {"none"}]
        /\ state' \in [Clients -> HttpConnectionState]
        /\ parsed' \in [Workers -> Parsed \cup {"none"}]
    <3>1. CASE HasDescriptor(c)
      <4>1. /\ request' = [request EXCEPT ![c] = parsed[w]]
            /\ state' = [state EXCEPT ![c] = "CNeedResponse"]
            /\ parsed' = [parsed EXCEPT ![w] = "none"]
        BY <1>5, <3>1 DEF StoreRequest
      <4> QED
        BY <2>3, <4>1, UpdateType
    <3>2. CASE ~HasDescriptor(c)
      BY <1>5, <3>2 DEF StoreRequest
    <3> QED
      BY <3>1, <3>2
  <2>5. CASE HasDescriptor(c)
    BY <1>5, <2>1, <2>2, <2>4, <2>5, TypeWorkerFrame DEF StoreRequest
  <2>6. CASE ~HasDescriptor(c)
    BY <1>5, <2>1, <2>2, <2>4, <2>6, TypeWorkerFrame DEF StoreRequest, Die
  <2> QED
    BY <2>5, <2>6
<1>6. CASE WriteLookup(w)
  <2>1. wtask[w] \in Runnable
    BY <1>0, <1>6 DEF WriteLookup, Working, WorkerSteps, BusySteps
  <2>2. "respond" \in WorkerSteps \cap BusySteps /\ "terminate" \in Fates
    BY DEF WorkerSteps, BusySteps, Fates
  <2> QED
    BY <1>6, <2>1, <2>2, TypeWorkerFrame DEF WriteLookup, Die
<1>7. CASE Respond(w)
  <2>1. wtask[w] \in Runnable
    BY <1>0, <1>7 DEF Respond, Working, WorkerSteps, BusySteps
  <2>2. "send" \in WorkerSteps \cap BusySteps /\ {"terminate", "abort", "segv"} \subseteq Fates
    BY DEF WorkerSteps, BusySteps, Fates
  <2> QED
    BY <1>7, <2>1, <2>2, TypeWorkerFrame DEF Respond, Die
<1>8. CASE SendResponse(w)
  <2>1. wtask[w] \in Runnable /\ c \in Clients
    BY <1>0, <1>8 DEF SendResponse, Working, WorkerSteps, BusySteps, Runnable
  <2>2. "setClose" \in WorkerSteps \cap BusySteps /\ {"terminate", "sigpipe"} \subseteq Fates
    BY DEF WorkerSteps, BusySteps, Fates
  <2>3. CASE SendFails(c)
    BY <1>8, <2>1, <2>2, <2>3, TypeWorkerFrame DEF SendResponse, Die
  <2>4. CASE ~SendFails(c)
    <3>1. outbox' \in [Clients -> Nat]
      <4>1. outbox' = [outbox EXCEPT ![c] = @ + 1]
        BY <1>8, <2>4 DEF SendResponse
      <4> QED
        BY <2>1, <4>1, IncrementType
    <3> QED
      BY <1>8, <2>1, <2>2, <2>4, <3>1, TypeWorkerFrame DEF SendResponse
  <2> QED
    BY <2>3, <2>4
<1>9. CASE SetNeedClose(w)
  <2>1. wtask[w] \in Runnable
    BY <1>0, <1>9 DEF SetNeedClose, Working, WorkerSteps, BusySteps
  <2>2. "finish" \in WorkerSteps \cap BusySteps /\ "CNeedClose" \in HttpConnectionState
    BY DEF WorkerSteps, BusySteps, HttpConnectionState
  <2> QED
    BY <1>9, <2>1, <2>2, TypeWorkerFrame DEF SetNeedClose
<1>10. CASE OnFinished(w)
  <2>1. wtask[w] \in Runnable
    BY <1>0, <1>10 DEF OnFinished, Working, WorkerSteps, BusySteps
  <2>2. "push" \in WorkerSteps \cap BusySteps /\ "terminate" \in Fates
    BY DEF WorkerSteps, BusySteps, Fates
  <2> QED
    BY <1>10, <2>1, <2>2, TypeWorkerFrame DEF OnFinished, Die
<1>11. CASE PushDone(w)
  <2>1. wtask[w] \in Runnable
    BY <1>0, <1>11 DEF PushDone, Working, WorkerSteps, BusySteps
  <2>2. "loop" \in WorkerSteps \ BusySteps /\ NoTask \notin Runnable
    BY NoTaskAssumption DEF WorkerSteps, BusySteps
  <2>3. done' \in Seq(Runnable)
    BY <1>11, <2>1 DEF PushDone
  <2>4. wtask' \in [Workers -> Runnable \cup {NoTask}] /\ wtask'[w] = NoTask
    BY <1>11 DEF PushDone
  <2> QED
    BY <1>11, <2>2, <2>3, <2>4, TypeWorkerFrame DEF PushDone
<1> QED
  BY <1>1, <1>2, <1>3, <1>4, <1>5, <1>6, <1>7, <1>8, <1>9, <1>10, <1>11 DEF Worker

\* The clients' steps and the signal preserve the types.
LEMMA TypeEnvironment ==
  ASSUME TypeInv, ReceiveSignal \/ Ended \/ \E c \in Clients : Client(c)
  PROVE  TypeInv'
<1> USE TypeFrame DEF TypeInv, TypeOK
<1>1. CASE ReceiveSignal
  <2>1. ServerTypeOK'
    BY <1>1 DEF ReceiveSignal, ServerTypeOK
  <2> QED
    BY <1>1, <2>1 DEF ReceiveSignal
<1>2. CASE Ended
  BY <1>2 DEF Ended, vars
<1>3. ASSUME NEW c \in Clients, Client(c) PROVE TypeInv'
  <2>1. UnchangedByClients
    BY <1>3 DEF Client, ClientConnects, ClientSends, ClientCloses, ClientResets
  <2>2. ConnectionsTypeOK'
    <3> USE DEF UnchangedByClients, ConnectionsTypeOK, PeerStates, descrVars
    <3>1. CASE ClientConnects(c)
      BY <3>1 DEF ClientConnects, Connect
    <3>2. CASE ClientSends(c)
      BY <3>2 DEF ClientSends, Send
    <3>3. CASE ClientCloses(c)
      BY <3>3 DEF ClientCloses, Close
    <3>4. CASE ClientResets(c)
      BY <3>4 DEF ClientResets, Reset
    <3> QED
      BY <1>3, <3>1, <3>2, <3>3, <3>4 DEF Client
  <2> QED
    BY <2>1, <2>2 DEF UnchangedByClients
<1> QED
  BY <1>1, <1>2, <1>3

\* Every step preserves the types.
LEMMA TypeStep == TypeInv /\ [Next]_vars => TypeInv'
<1>1. TypeInv /\ UNCHANGED vars => TypeInv'
  BY TypeFrame DEF vars, TypeInv, TypeOK
<1> QED
  BY <1>1, TypeSweep, TypeEvents, TypeRunners, TypeStop, TypeWorker, TypeEnvironment
     DEF Next, Main

\* The types, and which workers have a runnable.
LEMMA TypeInvariant == Spec => []TypeInv
BY TypeInit, TypeStep, PTL DEF Spec

\* Every variable keeps to its type (TypeOK), whatever the clients, the workers
\* and the faults.
THEOREM TypeCorrect == Spec => []TypeOK
<1>1. TypeInv => TypeOK
  BY DEF TypeInv
<1> QED
  BY TypeInvariant, <1>1, PTL

-----------------------------------------------------------------------------
(* The list of connections, the descriptors and the sockets.               *)

\* The client has been told, or has left on its own.
Down(c) == shut[c] \/ peer[c] = "reset" \/ (peer[c] = "closed" /\ outbox[c] > 0)

\* The server runs from its listen to the end of Stop, its list covers the
\* descriptors, and an accepted socket without one is down or being shut.
Listed ==
  /\ running = listening
  /\ pc \in {"destroy", "join"} => ~running
  /\ pc \notin {"listen", "stop", "destroy", "join"} => running
  /\ ~running => table = {}
  /\ table \subseteq comm
  /\ ~Stopping => comm = table
  /\ pc \in {"closeAll", "shutdownAll"} => table \subseteq todo
  /\ closing # {} => pc \in {"shutdown", "shutdownAll"}
  /\ \A c, d \in closing : c = d
  /\ \A c \in accepted : c \in table \cup closing \/ Down(c)
  /\ fate = "exited" => pc = "join"

\* There are no connections at the start.
LEMMA ListedInit == Init => Listed
  BY DEF Init, ConnectionsInit, Listed, Stopping

\* Nothing a worker does, and nothing a client does, unless it connects, matters
\* but that what is down stays down.
LEMMA ListedFrame ==
  ASSUME TypeInv, Listed,
         UNCHANGED <<accepted, table, listening, running, comm, sweepVars, pc, unwinding>>,
         fate' = "exited" => fate = "exited",
         \A c \in Clients : Down(c) => Down(c)'
  PROVE  Listed'
<1>1. accepted \subseteq Clients
  BY DEF TypeInv, TypeOK, ConnectionsTypeOK
<1> QED
  BY <1>1 DEF Listed, Stopping, sweepVars, Down

\* A ::shutdown that fails found the client gone.
LEMMA ShutIsDown ==
  ASSUME TypeInv, NEW c \in Clients, UNCHANGED <<peer, outbox>>,
         \E ok \in ShutdownResults(c) : shut' = [shut EXCEPT ![c] = ok \/ @]
  PROVE  Down(c)' /\ \A d \in Clients : Down(d) => Down(d)'
<1>1. PICK ok \in ShutdownResults(c) : shut' = [shut EXCEPT ![c] = ok \/ @]
  OBVIOUS
<1>2. shut \in [Clients -> BOOLEAN] /\ ok \in BOOLEAN
  BY DEF TypeInv, TypeOK, ConnectionsTypeOK, ShutdownResults
<1>3. shut'[c] = (ok \/ shut[c]) /\ \A d \in Clients \ {c} : shut'[d] = shut[d]
  BY <1>1, <1>2, Zenon
<1>4. ok \/ peer[c] = "reset" \/ (peer[c] = "closed" /\ outbox[c] > 0)
  BY DEF ShutdownResults
<1> QED
  BY <1>2, <1>3, <1>4 DEF Down

\* What is down stays down when only more is sent.
LEMMA ListedWorker ==
  ASSUME TypeInv, Listed, NEW w \in Workers, Worker(w)
  PROVE  Listed'
<1> USE DEF UnchangedByWorkers, serverVars, sweepVars, Working, Die
<1>1. /\ UNCHANGED <<accepted, table, listening, running, comm, sweepVars, pc, unwinding, shut, peer>>
      /\ fate' = "exited" => fate = "exited"
  BY DEF Worker, TestJoinFlag, TryPop, ReadLookup, Recv, StoreRequest, WriteLookup, Respond,
         SendResponse, SetNeedClose, OnFinished, PushDone
<1>2. outbox' = outbox \/ outbox' = [outbox EXCEPT ![wtask[w].conn] = @ + 1]
  BY DEF Worker, TestJoinFlag, TryPop, ReadLookup, Recv, StoreRequest, WriteLookup, Respond,
         SendResponse, SetNeedClose, OnFinished, PushDone
<1>3. outbox \in [Clients -> Nat]
  BY DEF TypeInv, TypeOK, ConnectionsTypeOK
<1>4. \A c \in Clients : outbox[c] > 0 => outbox'[c] > 0
  BY <1>2, <1>3
<1> QED
  BY <1>1, <1>4, ListedFrame DEF Down

\* Neither the signal nor a client touches the list.
LEMMA ListedEnvironment ==
  ASSUME TypeInv, Listed,
         ReceiveSignal \/ UNCHANGED vars \/ \E c \in Clients : Client(c)
  PROVE  Listed'
<1> USE DEF netVars, sockVars, descrVars, serverVars, sweepVars, controlVars
<1>1. CASE ReceiveSignal \/ UNCHANGED vars
  BY <1>1, ListedFrame DEF ReceiveSignal, vars, Down
<1>2. ASSUME NEW c \in Clients, Client(c) PROVE Listed'
  <2>1. /\ UNCHANGED <<accepted, table, listening, running, comm, sweepVars, pc, unwinding, fate, shut,
                       outbox>>
        /\ peer \in [Clients -> PeerStates]
        /\ \/ peer' = peer
           \/ peer[c] = "absent" /\ peer' = [peer EXCEPT ![c] = "open"]
           \/ peer[c] = "open" /\ peer' = [peer EXCEPT ![c] = "asked"]
           \/ peer[c] \in {"open", "asked"} /\ peer' = [peer EXCEPT ![c] = "closed"]
           \/ peer' = [peer EXCEPT ![c] = "reset"]
    BY <1>2 DEF Client, ClientConnects, ClientSends, ClientCloses, ClientResets, Connect, Send,
                Close, Reset, UnchangedByClients, TypeInv, TypeOK, ConnectionsTypeOK
  <2>2. \A d \in Clients : Down(d) => Down(d)'
    BY <2>1 DEF Down
  <2> QED
    BY <2>1, <2>2, ListedFrame
<1> QED
  BY <1>1, <1>2

\* The loop: what the sweep releases it takes off the list, and shuts.
LEMMA ListedLoop ==
  ASSUME TypeInv, Listed,
         \/ StartListening \/ StartListeningFails \/ StartThreadPool
         \/ TestForClose \/ SweepDone
         \/ \E c \in Clients : CloseServerConnection(c) \/ ShutdownSwept(c)
         \/ ObtainIdleConnections \/ ObtainInterrupted
         \/ AcceptNewConnection \/ AcceptFails \/ AcceptInterrupted \/ EventsDone
         \/ \E c \in Clients : OnRead(c) \/ OnWrite(c)
         \/ ScheduleExecutionRunnable \/ MarkRunnersStatusToInProgress
         \/ EraseCompletedRunners \/ TestExit
  PROVE  Listed'
<1> USE DEF netVars, sockVars, descrVars, serverVars, sweepVars, controlVars, Goto, Throw, At,
        Listed, Stopping, Down
<1>1. CASE StartListening \/ StartListeningFails \/ StartThreadPool
  BY <1>1 DEF StartListening, StartListeningFails, StartThreadPool
<1>2. CASE TestForClose \/ SweepDone
  BY <1>2 DEF TestForClose, SweepDone
<1>3. ASSUME NEW c \in Clients, CloseServerConnection(c) PROVE Listed'
  BY <1>3 DEF CloseServerConnection, ReleaseConnectionHandler
<1>4. ASSUME NEW c \in Clients, ShutdownSwept(c) PROVE Listed'
  <2>1. closing = {c} /\ closing' = {}
    BY <1>4 DEF ShutdownSwept
  <2>2. Down(c)' /\ \A d \in Clients : Down(d) => Down(d)'
    BY <1>4, ShutIsDown DEF ShutdownSwept
  <2>3. accepted \subseteq Clients
    BY DEF TypeInv, TypeOK, ConnectionsTypeOK
  <2> QED
    BY <1>4, <2>1, <2>2, <2>3 DEF ShutdownSwept
<1>5. CASE ObtainIdleConnections \/ ObtainInterrupted
  BY <1>5 DEF ObtainIdleConnections, ObtainInterrupted
<1>6. CASE AcceptNewConnection
  BY <1>6 DEF AcceptNewConnection, AcceptDescriptor
<1>7. CASE AcceptFails \/ AcceptInterrupted \/ EventsDone
  BY <1>7 DEF AcceptFails, AcceptInterrupted, EventsDone
<1>8. ASSUME NEW c \in Clients, OnRead(c) \/ OnWrite(c) PROVE Listed'
  BY <1>8 DEF OnRead, OnWrite
<1>9. CASE ScheduleExecutionRunnable \/ MarkRunnersStatusToInProgress
  BY <1>9 DEF ScheduleExecutionRunnable, MarkRunnersStatusToInProgress
<1>10. CASE EraseCompletedRunners \/ TestExit
  BY <1>10 DEF EraseCompletedRunners, TestExit
<1> QED
  BY <1>1, <1>2, <1>3, <1>4, <1>5, <1>6, <1>7, <1>8, <1>9, <1>10

\* Stop, entered once or twice, ends with no descriptor or not at all.
LEMMA ListedStop ==
  ASSUME TypeInv, Listed,
         \/ Stop \/ CloseMainConnection \/ JoinAllThreads \/ ThreadsJoined
         \/ \E c \in Clients : CloseNextConnection(c) \/ ShutdownNext(c)
  PROVE  Listed'
<1> USE DEF netVars, sockVars, descrVars, serverVars, sweepVars, controlVars, Goto, Throw, At,
        Listed, Stopping, Down
<1>1. CASE Stop
  BY <1>1 DEF Stop
<1>2. CASE CloseMainConnection
  BY <1>2 DEF CloseMainConnection
<1>3. CASE JoinAllThreads \/ ThreadsJoined
  BY <1>3 DEF JoinAllThreads, ThreadsJoined
<1>4. ASSUME NEW c \in Clients, CloseNextConnection(c) PROVE Listed'
  BY <1>4 DEF CloseNextConnection, ReleaseConnectionHandler, HasDescriptor
<1>5. ASSUME NEW c \in Clients, ShutdownNext(c) PROVE Listed'
  <2>1. closing = {c} /\ closing' = {}
    BY <1>5 DEF ShutdownNext
  <2>2. Down(c)' /\ \A d \in Clients : Down(d) => Down(d)'
    <3>1. \E ok \in ShutdownResults(c) : shut' = [shut EXCEPT ![c] = ok \/ @]
      BY <1>5, Zenon DEF ShutdownNext
    <3>2. UNCHANGED <<peer, outbox>>
      BY <1>5 DEF ShutdownNext
    <3> HIDE DEF Down
    <3> QED
      BY <3>1, <3>2, ShutIsDown
  <2>3. accepted \subseteq Clients
    BY DEF TypeInv, TypeOK, ConnectionsTypeOK
  <2> QED
    BY <1>5, <2>1, <2>2, <2>3 DEF ShutdownNext
<1> QED
  BY <1>1, <1>2, <1>3, <1>4, <1>5

\* Listed is inductive.
LEMMA ListedStep == TypeInv /\ Listed /\ [Next]_vars => Listed'
<1> SUFFICES ASSUME TypeInv, Listed, [Next]_vars PROVE Listed'
  OBVIOUS
<1> QED
  BY ListedWorker, ListedEnvironment, ListedLoop, ListedStop DEF Next, Main, Ended

\* Every connection select is asked about has a descriptor, as long as the loop
\* runs: nobody else's step takes one away (WatchedHaveDescriptors).
THEOREM WatchedCorrect == Spec => []WatchedHaveDescriptors
<1>1. Listed => WatchedHaveDescriptors
  BY DEF Listed, WatchedHaveDescriptors
<1> QED
  BY ListedInit, ListedStep, TypeInvariant, <1>1, PTL DEF Spec
=============================================================================
