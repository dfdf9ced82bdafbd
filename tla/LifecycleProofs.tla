--------------------------- MODULE LifecycleProofs ---------------------------
(***************************************************************************)
(* Proofs about Lifecycle: a worker outlives nothing it uses, for any      *)
(* number of cores, wherever the start of the server fails.                *)
(***************************************************************************)
EXTENDS Lifecycle, SequenceTheorems, TLAPS

\* The server has reached the construction of the pool and not yet the join's end.
PoolInUse == {"startPool", "startThreads", "loop", "stop", "destroyServer", "destroyMembers", "join"}

\* The pool is the last member: while it lives nothing before it is destroyed.
PoolLast ==
  /\ pool = "alive" => objects = Declared /\ pc \in PoolInUse
  /\ threads # {} => pool = "alive" /\ threads \subseteq 0 .. contexts - 1
  /\ contexts \in Nat
  /\ pc = "join" => pool = "alive"
  /\ pc \in {"register", "registering", "listen", "createPool"} => objects = Declared /\ threads = {}
  /\ pc \in {"startPool", "startThreads", "loop", "stop"} => pool = "alive"
  /\ pc = "startPool" => threads = {}

\* Only the server between its listen and its Stop is running.
RunningPlaces ==
  isRunning => pc \in {"createPool", "startPool", "startThreads", "loop", "stop", "destroyServer"}

Inv == PoolLast /\ RunningPlaces /\ cores \in Cores

\* The pool is the last object declared.
LEMMA LastDeclared ==
  /\ Last(Declared) = "_communication_thread_pool"
  /\ Declared # <<>>
  BY DEF Last, Declared

\* Nothing exists at the start.
LEMMA InitInv == Init => Inv
  BY LifecycleAssumption DEF Init, Inv, PoolLast, RunningPlaces, PoolInUse

\* The steps before the pool exists, and those after it is gone.
LEMMA StartInv ==
  ASSUME Inv,
         \/ ProgramBreakEventProvider \/ TestArguments \/ HttpServer
         \/ RegisterListener \/ Registered \/ StartListening \/ StartListeningFails
         \/ CreateThreadPool
  PROVE  Inv'
  <1> USE DEF Inv, PoolLast, RunningPlaces, PoolInUse, Goto, Throw,
          poolVars, serverVars, signalVars, resultVars
  <1>1. CASE ProgramBreakEventProvider
    BY <1>1 DEF ProgramBreakEventProvider
  <1>2. CASE TestArguments
    BY <1>2 DEF TestArguments
  <1>3. CASE HttpServer
    BY <1>3 DEF HttpServer
  <1>4. CASE RegisterListener
    BY <1>4 DEF RegisterListener
  <1>5. CASE Registered
    BY <1>5 DEF Registered
  <1>6. CASE StartListening
    BY <1>6 DEF StartListening
  <1>7. CASE StartListeningFails
    BY <1>7 DEF StartListeningFails
  <1>8. CASE CreateThreadPool
    BY <1>8 DEF CreateThreadPool
  <1> QED BY <1>1, <1>2, <1>3, <1>4, <1>5, <1>6, <1>7, <1>8

\* The start of the threads; a failure leaves those already started in the pool.
LEMMA ThreadsInv ==
  ASSUME Inv,
         \/ StartThreadPool \/ AllocationFails
         \/ \E t \in 0 .. contexts - 1 : StartThread(t)
         \/ StartThreadFails \/ ThreadsStarted
  PROVE  Inv'
  <1> USE DEF Inv, PoolLast, RunningPlaces, PoolInUse, Goto, Throw,
          poolVars, serverVars, signalVars, resultVars
  <1>1. CASE StartThreadPool
    <2>1. DefaultThreadCount \in Nat
      BY LifecycleAssumption DEF DefaultThreadCount
    <2> QED BY <1>1, <2>1 DEF StartThreadPool
  <1>2. CASE AllocationFails
    BY <1>2 DEF AllocationFails
  <1>3. ASSUME NEW t \in 0 .. contexts - 1, StartThread(t) PROVE Inv'
    BY <1>3 DEF StartThread
  <1>4. CASE StartThreadFails
    BY <1>4 DEF StartThreadFails
  <1>5. CASE ThreadsStarted
    BY <1>5 DEF ThreadsStarted
  <1> QED BY <1>1, <1>2, <1>3, <1>4, <1>5

\* The end: the pool is destroyed first, and not before its threads have ended.
LEMMA EndInv ==
  ASSUME Inv,
         \/ TestExit \/ \E e \in {"socket", "connection"} : LoopThrows(e)
         \/ Stop \/ StopFails \/ DestroyServer \/ DestroyObject
         \/ JoinAllThreads \/ DeletePool
  PROVE  Inv'
  <1> USE DEF Inv, PoolLast, RunningPlaces, PoolInUse, Goto, Throw, Terminate,
          poolVars, serverVars, signalVars, resultVars
  <1>1. CASE TestExit
    BY <1>1 DEF TestExit
  <1>2. CASE \E e \in {"socket", "connection"} : LoopThrows(e)
    BY <1>2 DEF LoopThrows
  <1>3. CASE Stop
    BY <1>3 DEF Stop
  <1>4. CASE StopFails
    BY <1>4 DEF StopFails
  <1>5. CASE DestroyServer
    BY <1>5 DEF DestroyServer
  <1>6. CASE DestroyObject
    <2>1. pool # "alive"
      BY <1>6, LastDeclared DEF DestroyObject
    <2> QED BY <1>6, <2>1 DEF DestroyObject
  <1>7. CASE JoinAllThreads
    BY <1>7 DEF JoinAllThreads
  <1>8. CASE DeletePool
    BY <1>8 DEF DeletePool
  <1> QED BY <1>1, <1>2, <1>3, <1>4, <1>5, <1>6, <1>7, <1>8

\* The steps of main after the try block.
LEMMA ReleaseInv ==
  ASSUME Inv, Catch \/ ReleaseAllSingletones \/ Return \/ Exit
  PROVE  Inv'
  <1> USE DEF Inv, PoolLast, RunningPlaces, PoolInUse, Goto,
          poolVars, serverVars, signalVars, resultVars
  <1>1. CASE Catch
    BY <1>1, LastDeclared DEF Catch
  <1>2. CASE ReleaseAllSingletones
    BY <1>2 DEF ReleaseAllSingletones
  <1>3. CASE Return
    BY <1>3 DEF Return
  <1>4. CASE Exit
    BY <1>4 DEF Exit
  <1> QED BY <1>1, <1>2, <1>3, <1>4

\* The threads' own steps, the signal, and what comes after the end.
LEMMA OthersInv ==
  ASSUME Inv,
         \/ \E t \in threads : ThreadEnds(t) \/ ThreadThrows(t)
         \/ ReceiveSignal \/ Ended \/ UNCHANGED vars
  PROVE  Inv'
  <1> USE DEF Inv, PoolLast, RunningPlaces, PoolInUse, Terminate,
          poolVars, serverVars, signalVars, resultVars
  <1>1. ASSUME NEW t \in threads, ThreadEnds(t) PROVE Inv'
    BY <1>1 DEF ThreadEnds
  <1>2. ASSUME NEW t \in threads, ThreadThrows(t) PROVE Inv'
    BY <1>2 DEF ThreadThrows
  <1>3. CASE ReceiveSignal
    BY <1>3 DEF ReceiveSignal
  <1>4. CASE Ended \/ UNCHANGED vars
    BY <1>4 DEF Ended, vars
  <1> QED BY <1>1, <1>2, <1>3, <1>4

\* Inv is inductive.
LEMMA NextInv == Inv /\ [Next]_vars => Inv'
  BY StartInv, ThreadsInv, EndInv, ReleaseInv, OthersInv DEF Next, MainNext, MainFails

\* The parts of the invariant hold together: where the objects are while the pool
\* lives, and where the server runs (ftpOverHttpServer.cpp:68-94).
THEOREM LifecycleInvariant == Spec => []Inv
  BY InitInv, NextInv, PTL DEF Spec

\* However the server's start or loop fails, no worker touches a destroyed object:
\* the pool is the last member (server.h:90) and joins its threads first.
THEOREM WorkersSeeLiveObjectsCorrect == Spec => []WorkersSeeLiveObjects
  <1>1. Inv => WorkersSeeLiveObjects
    BY DEF Inv, PoolLast, WorkersSeeLiveObjects
  <1> QED BY <1>1, LifecycleInvariant, PTL

\* main leaves no thread, socket or pool behind, whatever has been thrown.
THEOREM NothingLeftBehindCorrect == Spec => []NothingLeftBehind
  <1>1. Inv => NothingLeftBehind
    BY DEF Inv, PoolLast, RunningPlaces, PoolInUse, NothingLeftBehind
  <1> QED BY <1>1, LifecycleInvariant, PTL

-----------------------------------------------------------------------------
(* The types.                                                              *)

\* What is left of the try block when its newest object is destroyed.
LEMMA FrontOfDeclared ==
  ASSUME NEW n \in 0 .. Len(Declared), SubSeq(Declared, 1, n) # <<>>
  PROVE  \E m \in 0 .. Len(Declared) : Front(SubSeq(Declared, 1, n)) = SubSeq(Declared, 1, m)
  <1>1. Len(Declared) = 7 /\ \A i \in 1 .. 7 : Declared[i] \in Range(Declared)
    BY DEF Declared, Range
  <1>2. SubSeq(Declared, 1, 0) = <<>>
    BY SubSeqEmpty
  <1>3. n \in 1 .. 7
    BY <1>1, <1>2
  <1>4. /\ SubSeq(Declared, 1, n) \in Seq(Range(Declared)) /\ Len(SubSeq(Declared, 1, n)) = n
    BY <1>1, <1>3, SubSeqProperties
  <1>5. Declared \in Seq(Range(Declared))
    BY <1>1 DEF Declared
  <1>6. CASE n = 1
    <2>1. Front(SubSeq(Declared, 1, n)) = SubSeq(Declared, 1, 0)
      BY <1>2, <1>4, <1>6, SubSeqEmpty DEF Front
    <2> QED BY <1>1, <2>1
  <1>7. CASE n # 1
    <2>1. Front(SubSeq(Declared, 1, n)) = SubSeq(Declared, 1, n - 1)
      BY <1>1, <1>3, <1>4, <1>5, <1>7, SubSeqOfSubSeq DEF Front
    <2>2. n - 1 \in 0 .. Len(Declared)
      BY <1>1, <1>3
    <2> QED BY <2>1, <2>2
  <1> QED BY <1>6, <1>7

Beginning == \E n \in 0 .. Len(Declared) : objects = SubSeq(Declared, 1, n)

Places ==
  pc \in {"provider", "arguments", "construct", "register", "registering", "listen",
          "createPool", "startPool", "startThreads", "loop", "stop", "destroyServer",
          "destroyMembers", "join", "release", "return", "exit"}

Flags ==
  /\ command \in {"help", "noPath", "serve"}
  /\ provider \in {"none", "alive", "null"}
  /\ listener \in BOOLEAN /\ closeSignal \in BOOLEAN /\ isRunning \in BOOLEAN /\ joinFlag \in BOOLEAN
  /\ pool \in {"null", "alive", "freed"} /\ singletons \subseteq {"pool"}

Counts ==
  cores \in Cores /\ contexts \in 0 .. UnsignedMax /\ threads \subseteq 0 .. contexts - 1
  /\ signals \in 0 .. MaxSignals

Results ==
  /\ exception \in {"none", "socket", "connection", "unspecified"}
  /\ appResult \in {0, -1, -2, -3, -4}
  /\ fate \in {"running", "terminated", "killed", "crashed", "returned"}

Parts == Beginning /\ Places /\ Flags /\ Counts /\ Results

\* The types of the initial states.
LEMMA TypeInit == Init => Parts
  <1> SUFFICES ASSUME Init PROVE Parts
    OBVIOUS
  <1>1. Beginning
    <2>1. objects = SubSeq(Declared, 1, 0)
      BY SubSeqEmpty DEF Init
    <2>2. 0 \in 0 .. Len(Declared)
      BY DEF Declared
    <2> QED BY <2>1, <2>2 DEF Beginning
  <1>2. Places /\ Flags
    BY DEF Init, Places, Flags
  <1>3. Counts
    BY LifecycleAssumption DEF Init, Counts
  <1>4. Results
    BY DEF Init, Results, ReturnValue
  <1> QED BY <1>1, <1>2, <1>3, <1>4 DEF Parts

\* Objects are constructed and destroyed at the end of the list alone.
LEMMA BeginningStep == Beginning /\ [Next]_vars => Beginning'
  <1> SUFFICES ASSUME Beginning, [Next]_vars PROVE Beginning'
    OBVIOUS
  <1>1. CASE HttpServer
    <2>1. Len(Declared) = 7 /\ Declared \in Seq(Range(Declared))
      BY DEF Declared, Range
    <2>2. SubSeq(Declared, 1, Len(Declared)) = Declared
      BY <2>1, SubSeqFull
    <2> QED BY <1>1, <2>1, <2>2 DEF HttpServer, Beginning
  <1>2. CASE DestroyObject
    BY <1>2, FrontOfDeclared DEF DestroyObject, Beginning
  <1>3. CASE objects' = objects
    BY <1>3 DEF Beginning
  <1> QED
    BY <1>1, <1>2, <1>3
       DEF Next, MainNext, MainFails, ProgramBreakEventProvider, TestArguments, RegisterListener, Registered,
           StartListening, StartListeningFails, CreateThreadPool, StartThreadPool, AllocationFails,
           StartThread, StartThreadFails, ThreadsStarted, TestExit, LoopThrows, Stop, StopFails,
           DestroyServer, JoinAllThreads, DeletePool, Catch, ReleaseAllSingletones, Return, Exit,
           ThreadEnds, ThreadThrows, ReceiveSignal, Ended, vars

\* The places of main.
LEMMA PlacesStep == Places /\ [Next]_vars => Places'
  BY DEF Places, Goto, Throw, Terminate,
         Next, MainNext, MainFails, ProgramBreakEventProvider, TestArguments, HttpServer, RegisterListener, Registered,
         StartListening, StartListeningFails, CreateThreadPool, StartThreadPool, AllocationFails,
         StartThread, StartThreadFails, ThreadsStarted, TestExit, LoopThrows, Stop, StopFails,
         DestroyServer, DestroyObject, JoinAllThreads, DeletePool, Catch, ReleaseAllSingletones, Return, Exit,
         ThreadEnds, ThreadThrows, ReceiveSignal, Ended, vars

\* The flags, and what is registered.
LEMMA FlagsStep == Flags /\ [Next]_vars => Flags'
  <1> SUFFICES ASSUME Flags, [Next]_vars PROVE Flags'
    OBVIOUS
  <1>1. command' \in {"help", "noPath", "serve"}
    BY DEF Flags, poolVars, serverVars, signalVars,
           Next, MainNext, MainFails, ProgramBreakEventProvider, TestArguments, HttpServer, RegisterListener, Registered,
           StartListening, StartListeningFails, CreateThreadPool, StartThreadPool, AllocationFails,
           StartThread, StartThreadFails, ThreadsStarted, TestExit, LoopThrows, Stop, StopFails,
           DestroyServer, DestroyObject, JoinAllThreads, DeletePool, Catch, ReleaseAllSingletones, Return, Exit,
           ThreadEnds, ThreadThrows, ReceiveSignal, Ended, vars
  <1>2. provider' \in {"none", "alive", "null"}
    BY DEF Flags, poolVars, serverVars, signalVars,
           Next, MainNext, MainFails, ProgramBreakEventProvider, TestArguments, HttpServer, RegisterListener, Registered,
           StartListening, StartListeningFails, CreateThreadPool, StartThreadPool, AllocationFails,
           StartThread, StartThreadFails, ThreadsStarted, TestExit, LoopThrows, Stop, StopFails,
           DestroyServer, DestroyObject, JoinAllThreads, DeletePool, Catch, ReleaseAllSingletones, Return, Exit,
           ThreadEnds, ThreadThrows, ReceiveSignal, Ended, vars
  <1>3. listener' \in BOOLEAN
    BY DEF Flags, poolVars, serverVars, signalVars,
           Next, MainNext, MainFails, ProgramBreakEventProvider, TestArguments, HttpServer, RegisterListener, Registered,
           StartListening, StartListeningFails, CreateThreadPool, StartThreadPool, AllocationFails,
           StartThread, StartThreadFails, ThreadsStarted, TestExit, LoopThrows, Stop, StopFails,
           DestroyServer, DestroyObject, JoinAllThreads, DeletePool, Catch, ReleaseAllSingletones, Return, Exit,
           ThreadEnds, ThreadThrows, ReceiveSignal, Ended, vars
  <1>4. closeSignal' \in BOOLEAN
    BY DEF Flags, poolVars, serverVars, signalVars,
           Next, MainNext, MainFails, ProgramBreakEventProvider, TestArguments, HttpServer, RegisterListener, Registered,
           StartListening, StartListeningFails, CreateThreadPool, StartThreadPool, AllocationFails,
           StartThread, StartThreadFails, ThreadsStarted, TestExit, LoopThrows, Stop, StopFails,
           DestroyServer, DestroyObject, JoinAllThreads, DeletePool, Catch, ReleaseAllSingletones, Return, Exit,
           ThreadEnds, ThreadThrows, ReceiveSignal, Ended, vars
  <1>5. isRunning' \in BOOLEAN
    BY DEF Flags, poolVars, serverVars, signalVars,
           Next, MainNext, MainFails, ProgramBreakEventProvider, TestArguments, HttpServer, RegisterListener, Registered,
           StartListening, StartListeningFails, CreateThreadPool, StartThreadPool, AllocationFails,
           StartThread, StartThreadFails, ThreadsStarted, TestExit, LoopThrows, Stop, StopFails,
           DestroyServer, DestroyObject, JoinAllThreads, DeletePool, Catch, ReleaseAllSingletones, Return, Exit,
           ThreadEnds, ThreadThrows, ReceiveSignal, Ended, vars
  <1>6. joinFlag' \in BOOLEAN
    BY DEF Flags, poolVars, serverVars, signalVars,
           Next, MainNext, MainFails, ProgramBreakEventProvider, TestArguments, HttpServer, RegisterListener, Registered,
           StartListening, StartListeningFails, CreateThreadPool, StartThreadPool, AllocationFails,
           StartThread, StartThreadFails, ThreadsStarted, TestExit, LoopThrows, Stop, StopFails,
           DestroyServer, DestroyObject, JoinAllThreads, DeletePool, Catch, ReleaseAllSingletones, Return, Exit,
           ThreadEnds, ThreadThrows, ReceiveSignal, Ended, vars
  <1>7. pool' \in {"null", "alive", "freed"}
    BY DEF Flags, poolVars, serverVars, signalVars,
           Next, MainNext, MainFails, ProgramBreakEventProvider, TestArguments, HttpServer, RegisterListener, Registered,
           StartListening, StartListeningFails, CreateThreadPool, StartThreadPool, AllocationFails,
           StartThread, StartThreadFails, ThreadsStarted, TestExit, LoopThrows, Stop, StopFails,
           DestroyServer, DestroyObject, JoinAllThreads, DeletePool, Catch, ReleaseAllSingletones, Return, Exit,
           ThreadEnds, ThreadThrows, ReceiveSignal, Ended, vars
  <1>8. singletons' \subseteq {"pool"}
    BY DEF Flags, poolVars, serverVars, signalVars,
           Next, MainNext, MainFails, ProgramBreakEventProvider, TestArguments, HttpServer, RegisterListener, Registered,
           StartListening, StartListeningFails, CreateThreadPool, StartThreadPool, AllocationFails,
           StartThread, StartThreadFails, ThreadsStarted, TestExit, LoopThrows, Stop, StopFails,
           DestroyServer, DestroyObject, JoinAllThreads, DeletePool, Catch, ReleaseAllSingletones, Return, Exit,
           ThreadEnds, ThreadThrows, ReceiveSignal, Ended, vars
  <1> QED BY <1>1, <1>2, <1>3, <1>4, <1>5, <1>6, <1>7, <1>8 DEF Flags

\* The threads are among the contexts, given Inv.
LEMMA CountsStep == Inv /\ Counts /\ [Next]_vars => Counts'
  <1> SUFFICES ASSUME Inv, Counts, [Next]_vars PROVE Counts'
    OBVIOUS
  <1>1. CASE StartThreadPool
    <2>1. contexts' \in 0 .. UnsignedMax /\ threads' = {}
      BY <1>1, LifecycleAssumption DEF StartThreadPool, DefaultThreadCount, Inv, PoolLast, Goto, Counts
    <2> QED BY <1>1, <2>1 DEF StartThreadPool, signalVars, Counts
  <1>2. CASE DeletePool
    BY <1>2, LifecycleAssumption DEF DeletePool, signalVars, Counts
  <1>3. CASE ReceiveSignal
    BY <1>3, LifecycleAssumption DEF ReceiveSignal, poolVars, Counts
  <1>4. ASSUME threads' \subseteq 0 .. contexts - 1, UNCHANGED <<cores, contexts, signals>> PROVE Counts'
    BY <1>4 DEF Counts
  <1> QED
    BY <1>1, <1>2, <1>3, <1>4
       DEF poolVars, signalVars, Counts,
           Next, MainNext, MainFails, ProgramBreakEventProvider, TestArguments, HttpServer, RegisterListener, Registered,
           StartListening, StartListeningFails, CreateThreadPool, AllocationFails,
           StartThread, StartThreadFails, ThreadsStarted, TestExit, LoopThrows, Stop, StopFails,
           DestroyServer, DestroyObject, JoinAllThreads, Catch, ReleaseAllSingletones, Return, Exit,
           ThreadEnds, ThreadThrows, Ended, vars

\* What is thrown and what is returned.
LEMMA ResultsStep == Flags /\ Results /\ [Next]_vars => Results'
  <1> SUFFICES ASSUME Flags, Results, [Next]_vars PROVE Results'
    OBVIOUS
  <1>1. ReturnValue["argument"] = -1
    BY DEF ReturnValue
  <1>2. \A e \in {"none", "socket", "connection", "unspecified"} : ReturnValue[e] \in {0, -1, -2, -3, -4}
    BY DEF ReturnValue
  <1>3. HandlerResults \subseteq {"killed", "crashed", "ignored", "told"}
    <2>1. CASE provider = "none"
      BY <2>1 DEF HandlerResults
    <2>2. CASE provider = "null"
      BY <2>2 DEF HandlerResults
    <2>3. CASE provider = "alive" /\ pc = "registering"
      BY <2>3 DEF HandlerResults
    <2>4. CASE provider = "alive" /\ pc # "registering" /\ ~listener
      BY <2>4 DEF HandlerResults
    <2>5. CASE provider = "alive" /\ pc # "registering" /\ listener /\ ServerLives
      BY <2>5 DEF HandlerResults
    <2>6. CASE provider = "alive" /\ pc # "registering" /\ listener /\ ~ServerLives
      BY <2>6 DEF HandlerResults
    <2> QED BY <2>1, <2>2, <2>3, <2>4, <2>5, <2>6 DEF Flags
  <1>4. exception' \in {"none", "socket", "connection", "unspecified"}
    BY DEF Results, resultVars, Goto, Throw, Terminate,
           Next, MainNext, MainFails, ProgramBreakEventProvider, TestArguments, HttpServer, RegisterListener, Registered,
           StartListening, StartListeningFails, CreateThreadPool, StartThreadPool, AllocationFails,
           StartThread, StartThreadFails, ThreadsStarted, TestExit, LoopThrows, Stop, StopFails,
           DestroyServer, DestroyObject, JoinAllThreads, DeletePool, Catch, ReleaseAllSingletones, Return, Exit,
           ThreadEnds, ThreadThrows, ReceiveSignal, Ended, vars
  <1>5. appResult' \in {0, -1, -2, -3, -4}
    BY <1>1, <1>2
       DEF Results, resultVars, Goto, Throw, Terminate,
           Next, MainNext, MainFails, ProgramBreakEventProvider, TestArguments, HttpServer, RegisterListener, Registered,
           StartListening, StartListeningFails, CreateThreadPool, StartThreadPool, AllocationFails,
           StartThread, StartThreadFails, ThreadsStarted, TestExit, LoopThrows, Stop, StopFails,
           DestroyServer, DestroyObject, JoinAllThreads, DeletePool, Catch, ReleaseAllSingletones, Return, Exit,
           ThreadEnds, ThreadThrows, ReceiveSignal, Ended, vars
  <1>6. fate' \in {"running", "terminated", "killed", "crashed", "returned"}
    BY <1>3
       DEF Results, resultVars, Goto, Throw, Terminate,
           Next, MainNext, MainFails, ProgramBreakEventProvider, TestArguments, HttpServer, RegisterListener, Registered,
           StartListening, StartListeningFails, CreateThreadPool, StartThreadPool, AllocationFails,
           StartThread, StartThreadFails, ThreadsStarted, TestExit, LoopThrows, Stop, StopFails,
           DestroyServer, DestroyObject, JoinAllThreads, DeletePool, Catch, ReleaseAllSingletones, Return, Exit,
           ThreadEnds, ThreadThrows, ReceiveSignal, Ended, vars
  <1> QED BY <1>4, <1>5, <1>6 DEF Results

\* The types are inductive, given Inv.
LEMMA TypeStep == Inv /\ Parts /\ [Next]_vars => Parts'
  BY BeginningStep, PlacesStep, FlagsStep, CountsStep, ResultsStep DEF Parts

\* The parts make TypeOK.
LEMMA PartsAreTypes == Parts => TypeOK
  BY DEF Parts, Beginning, Places, Flags, Counts, Results, TypeOK

\* The objects of the try block are at every step a beginning of those declared, in
\* their order, and no more threads run than there are contexts (server.h:64-90).
THEOREM LifecycleTypeCorrect == Spec => []TypeOK
  BY TypeInit, TypeStep, PartsAreTypes, LifecycleInvariant, PTL DEF Spec
=============================================================================
