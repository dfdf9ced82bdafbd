----------------------------- MODULE Lifecycle -----------------------------
(***************************************************************************)
(* The lives of the objects of the example program: main                   *)
(* (examples/ftpOverHttpServer.cpp), the provider of break events and its  *)
(* listener, the server with its members, the default thread pool with its *)
(* threads, and the container of singletons.  SIGINT arrives at any time.  *)
(* What the server does between its start and its end is one step here     *)
(* that may throw; it is the subject of HttpServer.                        *)
(***************************************************************************)
EXTENDS Integers, Sequences, SequencesExt

CONSTANTS
  Cores,       \* what hardware_concurrency() may answer; 0 is "not known"
  UnsignedMax, \* the largest unsigned
  MaxSignals   \* a bound on the SIGINTs that arrive

ASSUME LifecycleAssumption ==
  /\ UnsignedMax \in Nat /\ MaxSignals \in Nat
  /\ Cores \subseteq 0 .. UnsignedMax

VARIABLES
  pc,        \* main's place
  command,   \* what the arguments ask for
  objects,   \* the living objects of the try block, in the order of construction
  provider,  \* event_provider and the SIGINT handler: none, alive, null
  listener,  \* the server is in _listeners
  closeSignal, isRunning,
  pool,      \* the memory _communication_thread_pool points to: null, alive, freed
  singletons,   \* _container: none, or whether it holds the pool
  cores, contexts, threads, joinFlag,
  exception, \* what is being thrown or was caught last, or none
  appResult,
  signals,
  fate       \* of the process

poolVars == <<pool, singletons, contexts, threads, joinFlag>>
serverVars == <<closeSignal, isRunning>>
signalVars == <<provider, listener, signals>>
resultVars == <<exception, appResult, fate>>
vars == <<pc, command, objects, cores, poolVars, serverVars, signalVars, resultVars>>

ReturnValue ==
  [none |-> 0, argument |-> -1, socket |-> -2, connection |-> -3, unspecified |-> -4]

\* A defect: the pool is declared before what its threads use.
PoolFirst ==
  <<"fs_reader", "command_processor", "_communication_thread_pool",
    "_runnable_mark_as_done__safe", "_runnables", "_runnables_in_process", "_comm_connections">>

\* In the order of their declarations, the server's members included.
Declared ==
  <<"fs_reader", "command_processor", "_runnable_mark_as_done__safe", "_runnables",
    "_runnables_in_process", "_comm_connections", "_communication_thread_pool">>

Init ==
  /\ pc = "provider" /\ command \in {"help", "noPath", "serve"} /\ objects = <<>>
  /\ provider = "none" /\ listener = FALSE /\ signals = 0
  /\ closeSignal = FALSE /\ isRunning = FALSE
  /\ pool = "null" /\ singletons = {} /\ contexts = 0 /\ threads = {} /\ joinFlag = FALSE
  /\ cores \in Cores
  /\ exception = "none" /\ appResult = ReturnValue["none"] /\ fate = "running"

Goto(from, to) == fate = "running" /\ pc = from /\ pc' = to
Throw(e) == pc' = "destroyServer" /\ exception' = e
Terminate == fate' = "terminated" /\ UNCHANGED pc

-----------------------------------------------------------------------------
(* main, up to the loop of the server.                                     *)

ProgramBreakEventProvider ==
  /\ Goto("provider", "arguments")
  /\ provider' = "alive"
  /\ UNCHANGED <<command, objects, cores, listener, signals, poolVars, serverVars, resultVars>>

TestArguments ==
  /\ Goto("arguments", IF command = "serve" THEN "construct" ELSE "release")
  /\ appResult' = IF command = "noPath" THEN ReturnValue["argument"] ELSE appResult
  /\ UNCHANGED <<command, objects, cores, exception, fate, poolVars, serverVars, signalVars>>

HttpServer ==
  /\ Goto("construct", "register")
  /\ objects' = Declared
  /\ UNCHANGED <<command, cores, poolVars, serverVars, signalVars, resultVars>>

\* push_back of the listener is under way: a handler may see any of its writes.
RegisterListener ==
  /\ Goto("register", "registering")
  /\ UNCHANGED <<command, objects, cores, poolVars, serverVars, signalVars, resultVars>>

Registered ==
  /\ Goto("registering", "listen")
  /\ listener' = TRUE
  /\ UNCHANGED <<command, objects, cores, provider, signals, poolVars, serverVars, resultVars>>


StartListening ==
  /\ Goto("listen", "createPool")
  /\ isRunning' = TRUE
  /\ UNCHANGED <<command, objects, cores, closeSignal, poolVars, signalVars, resultVars>>

StartListeningFails ==
  /\ fate = "running" /\ pc = "listen"
  /\ Throw("socket")
  /\ UNCHANGED <<command, objects, cores, appResult, fate, poolVars, serverVars, signalVars>>

\* The Singleton constructor registers the pool, the unique_ptr owns it as well.
CreateThreadPool ==
  /\ Goto("createPool", "startPool")
  /\ pool' = "alive"
  /\ singletons' = {"pool"}
  /\ UNCHANGED <<command, objects, cores, contexts, threads, joinFlag, serverVars, signalVars, resultVars>>

\* hardware_concurrency() - 1 is unsigned.
DefaultThreadCount == IF cores = 0 THEN UnsignedMax ELSE cores - 1

StartThreadPool ==
  /\ Goto("startPool", "startThreads")
  /\ contexts' = DefaultThreadCount
  /\ UNCHANGED <<command, objects, cores, pool, singletons, threads, joinFlag, serverVars, signalVars, resultVars>>

\* std::bad_alloc: the memory left decides, not the program; a vector of none takes none.
AllocationFails ==
  /\ fate = "running" /\ pc = "startPool"
  /\ DefaultThreadCount > 0
  /\ Throw("unspecified")
  /\ UNCHANGED <<command, objects, cores, appResult, fate, poolVars, serverVars, signalVars>>

\* Threads are started in order: none ends before the join flag is set.
StartThread(t) ==
  /\ fate = "running" /\ pc = "startThreads"
  /\ threads = 0 .. t - 1 /\ t < contexts
  /\ threads' = threads \cup {t}
  /\ UNCHANGED <<pc, command, objects, cores, pool, singletons, contexts, joinFlag, serverVars, signalVars, resultVars>>

StartThreadFails ==
  /\ fate = "running" /\ pc = "startThreads"
  /\ threads # 0 .. contexts - 1
  /\ Throw("unspecified")
  /\ UNCHANGED <<command, objects, cores, appResult, fate, poolVars, serverVars, signalVars>>

ThreadsStarted ==
  /\ Goto("startThreads", "loop")
  /\ threads = 0 .. contexts - 1
  /\ UNCHANGED <<command, objects, cores, poolVars, serverVars, signalVars, resultVars>>

-----------------------------------------------------------------------------
(* The end of the server, and what remains of main.                        *)

TestExit ==
  /\ Goto("loop", "stop")
  /\ closeSignal
  /\ UNCHANGED <<command, objects, cores, poolVars, serverVars, signalVars, resultVars>>

\* accept or select has failed, or a lookup on the main thread has.
LoopThrows(e) ==
  /\ fate = "running" /\ pc = "loop"
  /\ Throw(e)
  /\ UNCHANGED <<command, objects, cores, appResult, fate, poolVars, serverVars, signalVars>>

\* A defect: the server is not stopped when it is destroyed.
DestroyOnly ==
  /\ Goto("destroyServer", "destroyMembers")
  /\ UNCHANGED <<command, objects, cores, poolVars, serverVars, signalVars, resultVars>>

Stop ==
  /\ Goto("stop", "destroyServer")
  /\ isRunning' = FALSE
  /\ UNCHANGED <<command, objects, cores, closeSignal, poolVars, signalVars, resultVars>>

\* The socket exception unwinds into the destructor, where Stop meets the
\* connection it has released already.
StopFails ==
  /\ fate = "running" /\ pc \in {"stop", "destroyServer"} /\ isRunning
  /\ Terminate
  /\ UNCHANGED <<command, objects, cores, exception, appResult, poolVars, serverVars, signalVars>>

DestroyServer ==
  /\ Goto("destroyServer", "destroyMembers")
  /\ isRunning' = FALSE
  /\ UNCHANGED <<command, objects, cores, closeSignal, poolVars, signalVars, resultVars>>

DestroyObject ==
  /\ Goto("destroyMembers", "destroyMembers")
  /\ objects # <<>> /\ (Last(objects) = "_communication_thread_pool" => pool # "alive")
  /\ objects' = Front(objects)
  /\ UNCHANGED <<command, cores, poolVars, serverVars, signalVars, resultVars>>

\* A defect: the threads are polled and not told to end.
JoinSilently ==
  /\ fate = "running" /\ pc = "destroyMembers"
  /\ objects # <<>> /\ Last(objects) = "_communication_thread_pool" /\ pool = "alive"
  /\ pc' = IF threads = {} THEN "join" ELSE pc
  /\ UNCHANGED <<command, objects, cores, poolVars, serverVars, signalVars, resultVars>>

JoinAllThreads ==
  /\ Goto("destroyMembers", "join")
  /\ objects # <<>> /\ Last(objects) = "_communication_thread_pool" /\ pool = "alive"
  /\ joinFlag' = TRUE
  /\ UNCHANGED <<command, objects, cores, pool, singletons, contexts, threads, serverVars, signalVars, resultVars>>

DeletePool ==
  /\ Goto("join", "destroyMembers")
  /\ threads = {}
  /\ pool' = "freed" /\ contexts' = 0
  /\ UNCHANGED <<command, objects, cores, singletons, threads, joinFlag, serverVars, signalVars, resultVars>>

Catch ==
  /\ Goto("destroyMembers", "release")
  /\ objects = <<>>
  /\ appResult' = ReturnValue[exception]
  /\ UNCHANGED <<command, objects, cores, exception, fate, poolVars, serverVars, signalVars>>

\* Nobody has taken the pool out of the container: deleting it again calls a
\* destructor through freed memory, which ends the process or is not noticed.
ReleaseAllSingletones ==
  /\ fate = "running" /\ pc = "release"
  /\ \/ pc' = "return" /\ UNCHANGED fate
     \/ pool = "freed" /\ "pool" \in singletons /\ fate' = "crashed" /\ UNCHANGED pc
  /\ pool' = IF "pool" \in singletons THEN "freed" ELSE pool
  /\ singletons' = {}
  /\ UNCHANGED <<command, objects, cores, contexts, threads, joinFlag, exception, appResult, serverVars, signalVars>>

Return ==
  /\ Goto("return", "exit")
  /\ provider' = "null"
  /\ UNCHANGED <<command, objects, cores, listener, signals, poolVars, serverVars, resultVars>>

Exit ==
  /\ fate = "running" /\ pc = "exit"
  /\ fate' = "returned"
  /\ UNCHANGED <<pc, command, objects, cores, exception, appResult, poolVars, serverVars, signalVars>>

-----------------------------------------------------------------------------
(* The threads and the signal.                                             *)

ThreadEnds(t) ==
  /\ fate = "running" /\ t \in threads /\ joinFlag
  /\ threads' = threads \ {t}
  /\ UNCHANGED <<pc, command, objects, cores, pool, singletons, contexts, joinFlag, serverVars, signalVars, resultVars>>

ThreadThrows(t) ==
  /\ fate = "running" /\ t \in threads
  /\ pc # "startThreads" /\ exception # "unspecified"  \* there have been tasks
  /\ Terminate
  /\ UNCHANGED <<command, objects, cores, exception, appResult, poolVars, serverVars, signalVars>>

ServerLives == pc \in {"listen", "createPool", "startPool", "startThreads", "loop", "stop",
                       "destroyServer", "destroyMembers", "join"}
                 /\ Len(objects) > Len(<<"fs_reader", "command_processor">>)

\* What the handler of SIGINT does: ignore, tell the server, or fault.
HandlerResults ==
  CASE provider = "none" -> {"killed"}
    [] provider = "null" -> {"crashed"}
    [] provider = "alive" /\ pc = "registering" -> {"ignored", "told", "crashed"}
    [] provider = "alive" /\ pc # "registering" /\ ~listener -> {"ignored"}
    [] provider = "alive" /\ listener /\ ServerLives -> {"told"}
    [] provider = "alive" /\ listener /\ ~ServerLives -> {"ignored", "crashed"}

ReceiveSignal ==
  /\ fate = "running" /\ signals < MaxSignals
  /\ signals' = signals + 1
  /\ \E result \in HandlerResults :
       /\ closeSignal' = (closeSignal \/ result = "told")
       /\ fate' = IF result \in {"ignored", "told"} THEN fate ELSE result
  /\ UNCHANGED <<pc, command, objects, cores, provider, listener, isRunning, exception, appResult, poolVars>>

Ended == fate # "running" /\ UNCHANGED vars

MainNext ==
  \/ ProgramBreakEventProvider \/ TestArguments \/ HttpServer
  \/ RegisterListener \/ Registered \/ StartListening
  \/ CreateThreadPool \/ StartThreadPool
  \/ \E t \in 0 .. contexts - 1 : StartThread(t)
  \/ ThreadsStarted \/ TestExit \/ Stop \/ DestroyServer \/ DestroyObject
  \/ JoinAllThreads \/ DeletePool \/ Catch \/ ReleaseAllSingletones \/ Return \/ Exit

\* What may fail in place of a step of main.
MainFails ==
  \/ StartListeningFails \/ AllocationFails \/ StartThreadFails
  \/ \E e \in {"socket", "connection"} : LoopThrows(e)
  \/ StopFails

Next ==
  \/ MainNext \/ MainFails
  \/ \E t \in threads : ThreadEnds(t) \/ ThreadThrows(t)
  \/ ReceiveSignal
  \/ Ended

Spec == Init /\ [][Next]_vars

\* Every thread that can run is scheduled; nothing has to fail, nor a signal to come.
Fairness ==
  /\ WF_vars(MainNext)
  /\ \A t \in 0 .. UnsignedMax - 1 : WF_vars(t \in threads /\ ThreadEnds(t))

FairSpec == Spec /\ Fairness

-----------------------------------------------------------------------------

TypeOK ==
  /\ pc \in {"provider", "arguments", "construct", "register", "registering", "listen",
             "createPool", "startPool", "startThreads", "loop", "stop", "destroyServer",
             "destroyMembers", "join", "release", "return", "exit"}
  /\ command \in {"help", "noPath", "serve"}
  /\ \E n \in 0 .. Len(Declared) : objects = SubSeq(Declared, 1, n)
  /\ provider \in {"none", "alive", "null"}
  /\ {listener, closeSignal, isRunning, joinFlag} \subseteq BOOLEAN
  /\ pool \in {"null", "alive", "freed"} /\ singletons \subseteq {"pool"}
  /\ cores \in Cores /\ contexts \in 0 .. UnsignedMax /\ threads \subseteq 0 .. contexts - 1
  /\ exception \in {"none", "socket", "connection", "unspecified"}
  /\ appResult \in {0, -1, -2, -3, -4} /\ signals \in 0 .. MaxSignals
  /\ fate \in {"running", "terminated", "killed", "crashed", "returned"}

\* While a worker runs, everything a run or its callback touches is alive: the
\* processor, the storage, the runnables, the queue of completed ones and the pool's
\* contexts, also when an exception unwinds the server half started
\* (server.h:64-90, ftpOverHttpServer.cpp:69-75).
WorkersSeeLiveObjects ==
  threads # {} => /\ ToSet(Declared) \subseteq ToSet(objects)
                  /\ pool = "alive"
                  /\ \A t \in threads : t < contexts

\* Once the try block is left, on whichever path, nothing of the server goes on: no
\* thread, no listening socket, no pool (ftpOverHttpServer.cpp:68-94).
NothingLeftBehind ==
  pc \in {"release", "return", "exit"} => threads = {} /\ ~isRunning /\ pool # "alive"

\* Once the server leaves its loop, or its start, the process ends: the destruction of
\* the pool waits for no thread for ever (server.cpp:15-21, 127; threadPool.cpp:58-68).
LeftServerEnds == pc \in {"stop", "destroyServer"} ~> fate # "running"


\* "return values" (ftpOverHttpServer.cpp:14-18): main, undisturbed by signals, ends by
\* returning one of them or by a termination of the server, and not by a fault.
ResultReturned == signals = 0 => fate # "crashed"
=============================================================================
