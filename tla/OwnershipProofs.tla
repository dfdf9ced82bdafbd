-------------------------- MODULE OwnershipProofs --------------------------
(* What HttpServer keeps for every set of clients and of workers.  First     *)
(* ExclusiveAccess and RunnersOwned, by the inductive invariant Ownership:   *)
(* where each runnable is.  Then what a connection goes through, by          *)
(* Answering: how far each runnable is with its connection; from it follow   *)
(* the answer before the close and the refinement of ConnectionLife.         *)
EXTENDS HttpServerProofs

OwnInv == TypeInv /\ Ownership

-----------------------------------------------------------------------------
(* Sequences as the sets of their elements.                                *)

\* What Append adds.
LEMMA AppendRange ==
  ASSUME NEW S, NEW s \in Seq(S), NEW x \in S
  PROVE  /\ Range(Append(s, x)) = Range(s) \cup {x}
         /\ IsInjective(s) /\ x \notin Range(s) => IsInjective(Append(s, x))
<1>1. /\ Len(Append(s, x)) = Len(s) + 1 /\ Append(s, x)[Len(s) + 1] = x
      /\ \A i \in 1 .. Len(s) : Append(s, x)[i] = s[i]
      /\ DOMAIN Append(s, x) = 1 .. Len(s) + 1 /\ DOMAIN s = 1 .. Len(s)
      /\ Len(s) \in Nat
  OBVIOUS
<1>2. Range(Append(s, x)) = Range(s) \cup {x}
  BY <1>1 DEF Range
<1>3. ASSUME IsInjective(s), x \notin Range(s) PROVE IsInjective(Append(s, x))
  BY <1>1, <1>3 DEF Range, IsInjective
<1> QED
  BY <1>2, <1>3

\* What Tail removes.
LEMMA TailRange ==
  ASSUME NEW S, NEW s \in Seq(S), s # <<>>
  PROVE  /\ Range(s) = {Head(s)} \cup Range(Tail(s))
         /\ IsInjective(s) => IsInjective(Tail(s)) /\ Head(s) \notin Range(Tail(s))
<1>1. /\ Len(Tail(s)) = Len(s) - 1 /\ Head(s) = s[1]
      /\ \A i \in 1 .. Len(s) - 1 : Tail(s)[i] = s[i + 1]
      /\ DOMAIN Tail(s) = 1 .. Len(s) - 1 /\ DOMAIN s = 1 .. Len(s)
      /\ Len(s) \in Nat /\ Len(s) > 0
  OBVIOUS
<1>2. Range(s) = {Head(s)} \cup Range(Tail(s))
  <2>1. ASSUME NEW y \in Range(s) PROVE y \in {Head(s)} \cup Range(Tail(s))
    <3>1. PICK i \in 1 .. Len(s) : y = s[i]
      BY <1>1, <2>1 DEF Range
    <3>2. CASE i = 1
      BY <1>1, <3>1, <3>2
    <3>3. CASE i # 1
      <4>1. i - 1 \in 1 .. Len(s) - 1 /\ Tail(s)[i - 1] = y
        BY <1>1, <3>1, <3>3
      <4> QED
        BY <1>1, <4>1 DEF Range
    <3> QED
      BY <3>2, <3>3
  <2>2. ASSUME NEW y \in {Head(s)} \cup Range(Tail(s)) PROVE y \in Range(s)
    BY <1>1, <2>2 DEF Range
  <2> QED
    BY <2>1, <2>2
<1>3. ASSUME IsInjective(s) PROVE IsInjective(Tail(s)) /\ Head(s) \notin Range(Tail(s))
  BY <1>1, <1>3 DEF Range, IsInjective
<1> QED
  BY <1>2, <1>3

\* The pushed and the unpushed runnables make up the list.
LEMMA PushedUnpushed ==
  ASSUME RunTypeOK
  PROVE  /\ Range(runnables) = Pushed \cup Unpushed
         /\ Pushed \subseteq Runnable /\ Unpushed \subseteq Runnable
         /\ IsInjective(runnables) => Pushed \cap Unpushed = {}
         /\ cursor = Len(runnables) => Unpushed = {} /\ Pushed = Range(runnables)
<1>1. /\ DOMAIN runnables = 1 .. Len(runnables) /\ Len(runnables) \in Nat
      /\ \A i \in 1 .. Len(runnables) : runnables[i] \in Runnable
      /\ cursor \in 0 .. Len(runnables)
  BY DEF RunTypeOK
<1>2. 1 .. Len(runnables) = (1 .. cursor) \cup (cursor + 1 .. Len(runnables))
  BY <1>1
<1>3. (1 .. cursor) \cap (cursor + 1 .. Len(runnables)) = {}
  BY <1>1
<1>4. Range(runnables) = Pushed \cup Unpushed
  BY <1>1, <1>2 DEF Range, Pushed, Unpushed
<1>5. Pushed \subseteq Runnable /\ Unpushed \subseteq Runnable
  BY <1>1, <1>2 DEF Pushed, Unpushed
<1>6. ASSUME IsInjective(runnables) PROVE Pushed \cap Unpushed = {}
  BY <1>1, <1>2, <1>3, <1>6 DEF Pushed, Unpushed, IsInjective
<1>7. ASSUME cursor = Len(runnables) PROVE Unpushed = {} /\ Pushed = Range(runnables)
  <2>1. cursor + 1 .. Len(runnables) = {}
    BY <1>1, <1>7
  <2> QED
    BY <1>4, <2>1 DEF Unpushed
<1> QED
  BY <1>4, <1>5, <1>6, <1>7

-----------------------------------------------------------------------------
\* The invariant holds initially.
LEMMA OwnInit == Init => OwnInv
<1> SUFFICES ASSUME Init PROVE OwnInv
  OBVIOUS
<1>1. TypeInv
  BY TypeInit
<1>2. runnables = <<>> /\ tasks = <<>> /\ done = <<>> /\ backlog = <<>> /\ inProcess = {}
      /\ cursor = 0 /\ accepted = {} /\ table = {} /\ pc = "listen" /\ made = [c \in Clients |-> 0]
  BY DEF Init, ConnectionsInit
<1>3. Range(<<>>) = {} /\ IsInjective(<<>>)
  BY DEF Range, IsInjective
<1>4. Held = {} /\ \A w \in Workers : Idle(w)
  BY DEF Held, Idle, Init
<1>5. Unpushed = {} /\ Pushed = {}
  BY <1>2 DEF Unpushed, Pushed
<1>6. Active = {}
  BY <1>2, <1>3, <1>4, <1>5 DEF Active, Executing
<1>7. Numbered /\ ArrivesOnce
  BY <1>2, <1>3 DEF Numbered, ArrivesOnce
<1>8. InOneList /\ InOnePlace
  BY <1>2, <1>3, <1>4, <1>5 DEF InOneList, InOnePlace
<1> QED
  BY <1>1, <1>2, <1>6, <1>7, <1>8 DEF OwnInv, Ownership

-----------------------------------------------------------------------------
\* What a step must leave alone to preserve the invariant: it may only let go of
\* runnables, and take clients into the network.
OwnStep ==
  /\ UNCHANGED <<runnables, cursor, inProcess, made, tasks, done, lock, accepted, backlog>>
  /\ table' \subseteq table
  /\ \A c \in Clients : peer'[c] = "absent" => peer[c] = "absent"
  /\ \A w \in Workers :
       \/ wtask'[w] = NoTask
       \/ wtask'[w] = wtask[w] /\ (wpc[w] = "push" => wpc'[w] = "push")
  /\ pc' = "erase" => pc = "erase"

\* Fewer runnables are executing after such a step.
LEMMA OwnFrame ==
  ASSUME OwnInv, TypeInv', OwnStep
  PROVE  OwnInv'
<1> USE DEF OwnInv, Ownership, OwnStep
<1>1. Unpushed' = Unpushed /\ Pushed' = Pushed
  BY DEF Unpushed, Pushed
<1>2. \A w \in Workers :
        ~Idle(w)' => /\ ~Idle(w) /\ wtask'[w] = wtask[w]
                     /\ wpc[w] = "push" => wpc'[w] = "push"
  BY DEF Idle
<1>3. \A w \in Workers : Executing(w)' => Executing(w)
  BY <1>2 DEF Executing
<1>4. Active' \subseteq Active
  <2>1. Range(tasks)' = Range(tasks)
    OBVIOUS
  <2>2. {wtask[w] : w \in {v \in Workers : Executing(v)}}'
          \subseteq {wtask[w] : w \in {v \in Workers : Executing(v)}}
    BY <1>2, <1>3 DEF Executing
  <2> QED
    BY <1>1, <2>1, <2>2 DEF Active
<1>5. Held' \subseteq Held
  BY <1>2 DEF Held, Idle
<1>6. Numbered'
  BY DEF Numbered
<1>7. ArrivesOnce'
  BY DEF ArrivesOnce
<1>8. InOneList'
  BY DEF InOneList
<1>9. InOnePlace'
  <2>1. \A v, w \in Workers : ~Idle(v)' /\ wtask'[v] = wtask'[w] => v = w
    BY <1>2 DEF InOnePlace, Idle
  <2> QED
    BY <1>1, <1>5, <2>1 DEF InOnePlace
<1>10. \A r \in Active' : lock'[r.conn]
  BY <1>4
<1>11. \A r, s \in Active' : r.conn = s.conn => r = s
  BY <1>4
<1>12. pc' = "erase" => runnables' = <<>>
  OBVIOUS
<1> QED
  BY <1>6, <1>7, <1>8, <1>9, <1>10, <1>11, <1>12

\* Most steps of the main thread touch no runnable.
LEMMA OwnMainFrame ==
  ASSUME OwnInv, TypeInv',
         \/ StartListening \/ StartListeningFails \/ StartThreadPool
         \/ TestForClose \/ SweepDone
         \/ \E c \in Clients : CloseServerConnection(c) \/ ShutdownSwept(c)
         \/ ObtainIdleConnections \/ ObtainInterrupted
         \/ AcceptFails \/ AcceptInterrupted \/ EventsDone
         \/ TestExit
         \/ Stop \/ CloseMainConnection \/ JoinAllThreads \/ ThreadsJoined
         \/ \E c \in Clients : CloseNextConnection(c) \/ ShutdownNext(c)
  PROVE  OwnInv'
<1> USE DEF netVars, sockVars, descrVars, runVars, poolVars, Goto, Throw
<1> SUFFICES OwnStep
  BY OwnFrame
<1>1. CASE StartListening \/ StartListeningFails
  BY <1>1 DEF OwnStep, StartListening, StartListeningFails
<1>2. CASE StartThreadPool
  BY <1>2 DEF OwnStep, StartThreadPool
<1>3. CASE TestForClose \/ SweepDone
  BY <1>3 DEF OwnStep, TestForClose, SweepDone
<1>4. ASSUME NEW c \in Clients, CloseServerConnection(c) PROVE OwnStep
  BY <1>4 DEF OwnStep, CloseServerConnection, ReleaseConnectionHandler
<1>5. ASSUME NEW c \in Clients, ShutdownSwept(c) PROVE OwnStep
  BY <1>5 DEF OwnStep, ShutdownSwept
<1>6. CASE ObtainIdleConnections \/ ObtainInterrupted
  BY <1>6 DEF OwnStep, ObtainIdleConnections, ObtainInterrupted
<1>7. CASE AcceptFails \/ AcceptInterrupted \/ EventsDone
  BY <1>7 DEF OwnStep, AcceptFails, AcceptInterrupted, EventsDone
<1>8. CASE TestExit \/ Stop
  BY <1>8 DEF OwnStep, TestExit, Stop
<1>9. CASE CloseMainConnection \/ JoinAllThreads \/ ThreadsJoined
  BY <1>9 DEF OwnStep, CloseMainConnection, JoinAllThreads, ThreadsJoined
<1>10. ASSUME NEW c \in Clients, CloseNextConnection(c) PROVE OwnStep
  BY <1>10 DEF OwnStep, CloseNextConnection, ReleaseConnectionHandler
<1>11. ASSUME NEW c \in Clients, ShutdownNext(c) PROVE OwnStep
  BY <1>11 DEF OwnStep, ShutdownNext
<1> QED
  BY <1>1, <1>2, <1>3, <1>4, <1>5, <1>6, <1>7, <1>8, <1>9, <1>10, <1>11

-----------------------------------------------------------------------------
\* Accepting a connection unlocks it: no runnable has been made for it yet.
LEMMA OwnAccept ==
  ASSUME OwnInv, TypeInv', AcceptNewConnection
  PROVE  OwnInv'
<1> DEFINE h == Head(backlog)
<1> USE DEF OwnInv, Ownership
<1>1. backlog \in Seq(Clients) /\ backlog # <<>> /\ h \in Clients
  BY BacklogHead DEF AcceptNewConnection, TypeInv, TypeOK, ConnectionsTypeOK
<1>2. /\ backlog' = Tail(backlog) /\ accepted' = accepted \cup {h} /\ table' = table \cup {h}
      /\ lock' = [lock EXCEPT ![h] = FALSE] /\ lock \in [Clients -> BOOLEAN]
      /\ UNCHANGED <<peer, made, runnables, cursor, inProcess, done, tasks, wtask, wpc, pc>>
  BY DEF AcceptNewConnection, AcceptDescriptor, runVars, poolVars, controlVars,
         TypeInv, TypeOK, ConnectionsTypeOK
<1>3. h \in Range(backlog) /\ h \notin accepted
  BY <1>1, TailRange DEF ArrivesOnce
<1>4. ArrivesOnce'
  BY <1>1, <1>2, TailRange DEF ArrivesOnce
<1>5. Numbered'
  BY <1>2 DEF Numbered
<1>6. InOneList' /\ InOnePlace' /\ Active' = Active
  BY <1>2 DEF InOneList, InOnePlace, Pushed, Unpushed, Held, Idle, Active, Executing
<1>7. ASSUME NEW r \in Active PROVE r.conn # h /\ r.conn \in Clients
  <2>1. r \in Range(runnables) \cup inProcess
    <3>1. Active \subseteq Unpushed \cup Range(tasks) \cup Held
      BY DEF Active, Executing, Idle, Held
    <3>2. Pushed \cup Unpushed = Range(runnables)
      BY PushedUnpushed DEF TypeInv, TypeOK
    <3> QED
      BY <3>1, <3>2 DEF InOnePlace
  <2>2. r \in Runnable
    BY <2>1, PushedUnpushed DEF TypeInv, TypeOK, RunTypeOK
  <2>3. r.conn \in Clients /\ r.seq \in 1 .. made[r.conn] /\ made[r.conn] \in Nat
    BY <2>1, <2>2 DEF Numbered, Runnable, TypeInv, TypeOK, RunTypeOK
  <2>4. made[r.conn] > 0
    BY <2>3
  <2> QED
    BY <1>3, <2>3, <2>4 DEF Numbered
<1>8. \A r \in Active : lock'[r.conn]
  BY <1>2, <1>7
<1> QED
  BY <1>2, <1>4, <1>5, <1>6, <1>8

\* A new runnable takes the lock that no active runnable held.
LEMMA OwnSchedule ==
  ASSUME OwnInv, TypeInv', NEW c \in Clients, ScheduleIfIdle(c), pc = "events",
         UNCHANGED <<peer, backlog, accepted, table, cursor, inProcess, done, tasks, wtask, wpc, pc>>
  PROVE  OwnInv'
<1> DEFINE r == [conn |-> c, type |-> ReceiveRunnableTypeForConnection(c), seq |-> made[c] + 1]
<1> USE DEF OwnInv, Ownership
<1>1. CASE UNCHANGED <<made, runnables, lock>>
  BY <1>1, OwnFrame DEF OwnStep
<1>2. CASE HasDescriptor(c) /\ ~lock[c] /\ ScheduleRunnable(c) /\ ReceiveRunnableTypeForConnection(c) # "ENone"
  <2> HIDE DEF OwnInv, Ownership
  <2>1. r \in Runnable /\ r.conn = c /\ r.seq = made[c] + 1
    BY <1>2 DEF Runnable, ReceiveRunnableTypeForConnection, HttpWorkerRunnableType,
                OwnInv, TypeInv, TypeOK, RunTypeOK
  <2>2. /\ runnables \in Seq(Runnable) /\ runnables' = Append(runnables, r)
        /\ made \in [Clients -> Nat] /\ made' = [made EXCEPT ![c] = @ + 1]
        /\ lock \in [Clients -> BOOLEAN] /\ lock' = [lock EXCEPT ![c] = TRUE]
        /\ inProcess \subseteq Runnable
        /\ cursor \in 0 .. Len(runnables)
    BY <1>2 DEF ScheduleRunnable, OwnInv, TypeInv, TypeOK, RunTypeOK, ConnectionsTypeOK
  <2> HIDE DEF r
  <2>3. r \notin Range(runnables) \cup inProcess
    BY <2>1, <2>2 DEF OwnInv, Ownership, Numbered
  <2>4. Range(runnables') = Range(runnables) \cup {r} /\ IsInjective(runnables')
    BY <2>1, <2>2, <2>3, AppendRange DEF OwnInv, Ownership, InOneList
  <2>5. Pushed' = Pushed /\ Unpushed' = Unpushed \cup {r}
    <3>1. /\ Len(runnables') = Len(runnables) + 1 /\ Len(runnables) \in Nat
          /\ \A i \in 1 .. Len(runnables) : runnables'[i] = runnables[i]
          /\ runnables'[Len(runnables) + 1] = r
      BY <2>1, <2>2
    <3>2. cursor + 1 .. Len(runnables') = (cursor + 1 .. Len(runnables)) \cup {Len(runnables) + 1}
      BY <2>2, <3>1
    <3>3. \A i \in 1 .. cursor : i \in 1 .. Len(runnables)
      BY <2>2
    <3>4. \A i \in cursor + 1 .. Len(runnables) : i \in 1 .. Len(runnables)
      BY <2>2
    <3>5. Pushed' = Pushed
      BY <3>1, <3>3 DEF Pushed
    <3>6. Unpushed' = {runnables'[i] : i \in (cursor + 1 .. Len(runnables)) \cup {Len(runnables) + 1}}
      BY <3>2 DEF Unpushed
    <3>7. Unpushed' = {runnables'[i] : i \in cursor + 1 .. Len(runnables)} \cup {runnables'[Len(runnables) + 1]}
      BY <3>6
    <3>8. {runnables'[i] : i \in cursor + 1 .. Len(runnables)} = Unpushed
      BY <3>1, <3>4 DEF Unpushed
    <3> QED
      BY <3>1, <3>5, <3>7, <3>8
  <2>6. Range(runnables) = Pushed \cup Unpushed
    BY PushedUnpushed DEF OwnInv, TypeInv, TypeOK
  <2>7. Active' = Active \cup {r}
    BY <2>5 DEF Active, Executing, Idle
  <2>8. ASSUME NEW s \in Active PROVE s.conn # c /\ s.conn \in Clients
    <3>1. lock[s.conn]
      BY DEF OwnInv, Ownership
    <3>2. s \in Range(runnables) \cup inProcess
      BY <2>6 DEF OwnInv, Ownership, InOnePlace, Active, Executing, Idle, Held
    <3>3. s \in Runnable
      BY <2>2, <3>2 DEF Range
    <3> QED
      BY <1>2, <3>1, <3>3 DEF Runnable
  <2>9. Numbered'
    <3>1. ASSUME NEW s \in Range(runnables) \cup inProcess PROVE s.seq \in 1 .. made'[s.conn]
      <4>1. s \in Runnable
        BY <2>2 DEF Range
      <4>2. s.seq \in 1 .. made[s.conn] /\ s.conn \in Clients
        BY <4>1 DEF OwnInv, Ownership, Numbered, Runnable
      <4> QED
        BY <2>2, <4>2
    <3>2. r.seq \in 1 .. made'[r.conn]
      BY <2>1, <2>2
    <3>3. \A d \in Clients : made'[d] > 0 => d \in accepted
      BY <1>2, <2>2 DEF OwnInv, Ownership, Numbered, ArrivesOnce, HasDescriptor
    <3> QED
      BY <2>4, <3>1, <3>2, <3>3 DEF Numbered
  <2>10. ArrivesOnce'
    BY DEF OwnInv, Ownership, ArrivesOnce
  <2>11. InOneList'
    BY <2>3, <2>4 DEF OwnInv, Ownership, InOneList
  <2>12. InOnePlace'
    BY <2>5 DEF OwnInv, Ownership, InOnePlace, Held, Idle
  <2>13. \A s \in Active' : lock'[s.conn]
    BY <2>1, <2>2, <2>7, <2>8 DEF OwnInv, Ownership
  <2>14. \A s, t \in Active' : s.conn = t.conn => s = t
    BY <2>1, <2>7, <2>8 DEF OwnInv, Ownership
  <2> QED
    BY <2>9, <2>10, <2>11, <2>12, <2>13, <2>14 DEF OwnInv, Ownership
<1> QED
  BY <1>1, <1>2 DEF ScheduleIfIdle

\* Pushing a runnable moves it from the list's unpushed part to the queue.
LEMMA OwnPush ==
  ASSUME OwnInv, TypeInv', ScheduleExecutionRunnable
  PROVE  OwnInv'
<1> DEFINE r == runnables[cursor + 1]
<1>1. /\ runnables \in Seq(Runnable) /\ cursor \in 0 .. Len(runnables) /\ cursor < Len(runnables)
      /\ tasks \in Seq(Runnable) /\ r \in Runnable
      /\ cursor' = cursor + 1 /\ tasks' = Append(tasks, r)
  BY DEF ScheduleExecutionRunnable, OwnInv, TypeInv, TypeOK, RunTypeOK, PoolTypeOK
<1>2. UNCHANGED <<peer, backlog, accepted, table, lock, made, runnables, inProcess, done,
                  wtask, wpc, pc>>
  BY DEF ScheduleExecutionRunnable, netVars, sockVars, descrVars, controlVars
<1> HIDE DEF r
<1>3. Pushed' = Pushed \cup {r} /\ Unpushed = Unpushed' \cup {r}
  <2>1. 1 .. cursor + 1 = (1 .. cursor) \cup {cursor + 1}
    BY <1>1
  <2>2. cursor + 1 .. Len(runnables) = (cursor' + 1 .. Len(runnables)) \cup {cursor + 1}
    BY <1>1
  <2>3. Pushed' = {runnables[i] : i \in (1 .. cursor) \cup {cursor + 1}}
    BY <1>1, <1>2, <2>1 DEF Pushed
  <2>4. Unpushed = {runnables[i] : i \in (cursor' + 1 .. Len(runnables)) \cup {cursor + 1}}
    BY <2>2 DEF Unpushed
  <2>5. Unpushed' = {runnables[i] : i \in cursor' + 1 .. Len(runnables)}
    BY <1>2 DEF Unpushed
  <2> QED
    BY <2>3, <2>4, <2>5 DEF Pushed, r
<1>4. r \in Range(runnables) /\ r \notin Pushed \cup inProcess
  <2>1. Range(runnables) = Pushed \cup Unpushed /\ Pushed \cap Unpushed = {}
    BY PushedUnpushed DEF OwnInv, Ownership, InOneList, TypeInv, TypeOK
  <2> QED
    BY <1>3, <2>1 DEF OwnInv, Ownership, InOneList
<1>5. r \notin Unpushed'
  <2>1. ASSUME NEW i \in cursor' + 1 .. Len(runnables) PROVE runnables[i] # r
    <3>1. i \in DOMAIN runnables /\ cursor + 1 \in DOMAIN runnables /\ i # cursor + 1
      BY <1>1
    <3> QED
      BY <3>1 DEF OwnInv, Ownership, InOneList, IsInjective, r
  <2> QED
    BY <1>2, <2>1 DEF Unpushed
<1>6. r \notin Range(tasks) \cup Held \cup Range(done)
  BY <1>4 DEF OwnInv, Ownership, InOnePlace
<1>7. Range(tasks') = Range(tasks) \cup {r} /\ IsInjective(tasks')
  BY <1>1, <1>6, AppendRange DEF OwnInv, Ownership, InOnePlace
<1>8. Active' = Active
  BY <1>2, <1>3, <1>7 DEF Active, Executing, Idle
<1>9. InOnePlace'
  BY <1>2, <1>3, <1>6, <1>7 DEF OwnInv, Ownership, InOnePlace, Held, Idle
<1>10. Numbered' /\ ArrivesOnce' /\ InOneList'
  BY <1>2 DEF OwnInv, Ownership, Numbered, ArrivesOnce, InOneList
<1> QED
  BY <1>2, <1>8, <1>9, <1>10 DEF OwnInv, Ownership, ScheduleExecutionRunnable, At

\* The splice moves the pushed runnables, all of them, to the other list.
LEMMA OwnSplice ==
  ASSUME OwnInv, TypeInv', MarkRunnersStatusToInProgress
  PROVE  OwnInv'
<1>1. /\ UNCHANGED <<peer, backlog, accepted, table, lock, made, done, tasks, wtask, wpc>>
      /\ inProcess' = inProcess \cup Range(runnables) /\ runnables' = <<>> /\ cursor' = 0
  BY DEF MarkRunnersStatusToInProgress, netVars, sockVars, descrVars, poolVars
<1>2. Unpushed = {} /\ Pushed = Range(runnables)
  BY PushedUnpushed DEF MarkRunnersStatusToInProgress, OwnInv, TypeInv, TypeOK
<1>3. Unpushed' = {} /\ Pushed' = {} /\ Range(runnables') = {} /\ IsInjective(runnables')
  BY <1>1 DEF Unpushed, Pushed, Range, IsInjective
<1>4. Active' = Active
  BY <1>1, <1>2, <1>3 DEF Active, Executing, Idle
<1>5. InOneList' /\ InOnePlace'
  BY <1>1, <1>2, <1>3 DEF OwnInv, Ownership, InOneList, InOnePlace, Held, Idle
<1>6. Numbered' /\ ArrivesOnce'
  BY <1>1, <1>3 DEF OwnInv, Ownership, Numbered, ArrivesOnce
<1> QED
  BY <1>1, <1>4, <1>5, <1>6 DEF OwnInv, Ownership

\* What is freed is in no place any more.
LEMMA OwnErase ==
  ASSUME OwnInv, TypeInv', EraseCompletedRunners
  PROVE  OwnInv'
<1>1. /\ UNCHANGED <<peer, backlog, accepted, table, lock, made, runnables, cursor, tasks,
                     wtask, wpc>>
      /\ done' = <<>> /\ pc = "erase"
      /\ inProcess' = inProcess \ Range(done) \/ inProcess' = inProcess
  BY DEF EraseCompletedRunners, netVars, sockVars, descrVars, poolVars, At
<1>2. Range(done') = {} /\ IsInjective(done')
  BY <1>1 DEF Range, IsInjective
<1>3. Pushed' = Pushed /\ Unpushed' = Unpushed /\ Active' = Active /\ Held' = Held
  BY <1>1 DEF Pushed, Unpushed, Active, Executing, Idle, Held
<1>4. InOneList' /\ InOnePlace'
  BY <1>1, <1>2, <1>3 DEF OwnInv, Ownership, InOneList, InOnePlace, Idle
<1>5. Numbered' /\ ArrivesOnce'
  BY <1>1 DEF OwnInv, Ownership, Numbered, ArrivesOnce
<1> QED
  BY <1>1, <1>3, <1>4, <1>5 DEF OwnInv, Ownership

-----------------------------------------------------------------------------
\* A runnable goes from the head of the queue to the worker.
LEMMA OwnPop ==
  ASSUME OwnInv, TypeInv', NEW w \in Workers, TryPop(w)
  PROVE  OwnInv'
<1>1. /\ UNCHANGED <<peer, backlog, accepted, table, lock, made, runnables, cursor,
                     inProcess, done, pc>>
      /\ wpc[w] = "pop" /\ wpc \in [Workers -> WorkerSteps]
      /\ wtask \in [Workers -> Runnable \cup {NoTask}] /\ tasks \in Seq(Runnable)
  BY DEF TryPop, Working, UnchangedByWorkers, OwnInv, TypeInv, TypeOK, PoolTypeOK
<1>2. CASE tasks = <<>>
  BY <1>1, <1>2, OwnFrame DEF TryPop, OwnStep, WGoto
<1>3. CASE tasks # <<>>
  <2> DEFINE r == Head(tasks)
  <2>1. /\ r \in Runnable /\ Range(tasks) = {r} \cup Range(Tail(tasks))
        /\ IsInjective(Tail(tasks)) /\ r \notin Range(Tail(tasks))
    BY <1>1, <1>3, BacklogHead, TailRange DEF OwnInv, Ownership, InOnePlace
  <2>2. /\ tasks' = Tail(tasks) /\ wtask' = [wtask EXCEPT ![w] = r]
        /\ wpc' = [wpc EXCEPT ![w] = RunSteps[r.type]]
    BY <1>3 DEF TryPop, WGoto
  <2> HIDE DEF r
  <2>3. RunSteps[r.type] # "push" /\ r # NoTask
    BY <2>1, NoTaskAssumption DEF RunSteps, Runnable, HttpWorkerRunnableType
  <2>4. Idle(w)
    BY <1>1 DEF OwnInv, TypeInv, BusyHasTask, BusySteps, Idle
  <2>5. Held' = Held \cup {r}
    BY <1>1, <2>2, <2>3, <2>4 DEF Held, Idle
  <2>6. /\ ~Idle(w)' /\ Executing(w)' /\ wtask'[w] = r
        /\ \A v \in Workers \ {w} : wtask'[v] = wtask[v] /\ (Executing(v)' <=> Executing(v))
    BY <1>1, <2>2, <2>3 DEF Idle, Executing
  <2>7. Pushed' = Pushed /\ Unpushed' = Unpushed
    BY <1>1 DEF Pushed, Unpushed
  <2>8. Active' = Active
    <3>1. {wtask[v] : v \in {u \in Workers : Executing(u)}}'
            = {wtask[v] : v \in {u \in Workers : Executing(u)}} \cup {r}
      BY <2>4, <2>6 DEF Executing
    <3> QED
      BY <2>1, <2>2, <2>7, <3>1 DEF Active
  <2>9. InOnePlace'
    <3>1. r \notin Held \cup Range(done)
      BY <2>1 DEF OwnInv, Ownership, InOnePlace
    <3>2. ASSUME NEW u \in Workers, NEW v \in Workers, ~Idle(u)', wtask'[u] = wtask'[v]
          PROVE  u = v
      <4>1. \A x \in Workers \ {w} : wtask[x] # NoTask => wtask[x] \in Held
        BY DEF Held
      <4> QED
        BY <2>3, <2>6, <3>1, <3>2, <4>1 DEF OwnInv, Ownership, InOnePlace, Idle
    <3> QED
      BY <1>1, <2>1, <2>2, <2>5, <2>7, <3>1, <3>2 DEF OwnInv, Ownership, InOnePlace
  <2>10. Numbered' /\ ArrivesOnce' /\ InOneList'
    BY <1>1 DEF OwnInv, Ownership, Numbered, ArrivesOnce, InOneList
  <2> QED
    BY <1>1, <2>8, <2>9, <2>10 DEF OwnInv, Ownership
<1> QED
  BY <1>2, <1>3

\* The lock is released by the one worker whose runnable had it.
LEMMA OwnFinish ==
  ASSUME OwnInv, TypeInv', NEW w \in Workers, OnFinished(w)
  PROVE  OwnInv'
<1> DEFINE c == wtask[w].conn
<1>1. /\ UNCHANGED <<peer, backlog, accepted, table, made, runnables, cursor, inProcess,
                     done, tasks, wtask, pc>>
      /\ wpc[w] = "finish" /\ wpc \in [Workers -> WorkerSteps]
      /\ lock \in [Clients -> BOOLEAN]
  BY DEF OnFinished, Working, UnchangedByWorkers, OwnInv, TypeInv, TypeOK, PoolTypeOK,
         ConnectionsTypeOK
<1>2. CASE ~HasDescriptor(c)
  BY <1>1, <1>2, OwnFrame DEF OnFinished, OwnStep, Die
<1>3. CASE HasDescriptor(c)
  <2>1. lock' = [lock EXCEPT ![c] = FALSE] /\ wpc' = [wpc EXCEPT ![w] = "push"]
    BY <1>3 DEF OnFinished, WGoto
  <2>2. ~Idle(w) /\ Executing(w)
    BY <1>1, NoTaskAssumption
       DEF OwnInv, TypeInv, BusyHasTask, BusySteps, WorkerSteps, Idle, Executing
  <2>3. \A v \in Workers : Idle(v)' <=> Idle(v)
    BY <1>1 DEF Idle
  <2>4. /\ ~Executing(w)'
        /\ \A v \in Workers \ {w} : Executing(v)' <=> Executing(v)
    BY <1>1, <2>1, <2>3 DEF Executing
  <2>5. Pushed' = Pushed /\ Unpushed' = Unpushed /\ Held' = Held
    BY <1>1 DEF Pushed, Unpushed, Held
  <2>6. Active' \subseteq Active
    BY <1>1, <2>4, <2>5 DEF Active, Executing
  <2>7. wtask[w] \in Active /\ wtask[w] \in Held
    BY <2>2 DEF Active, Held, Idle
  <2>8. wtask[w] \notin Active'
    <3>1. wtask[w] \notin Range(tasks)
      BY <2>7 DEF OwnInv, Ownership, InOnePlace
    <3>2. wtask[w] \notin Unpushed
      BY <2>7, PushedUnpushed DEF OwnInv, Ownership, InOnePlace, InOneList, TypeInv, TypeOK
    <3>3. \A v \in Workers : Executing(v)' => wtask[v] # wtask[w]
      BY <2>2, <2>4 DEF OwnInv, Ownership, InOnePlace
    <3> QED
      BY <1>1, <2>5, <3>1, <3>2, <3>3 DEF Active
  <2>9. \A r \in Active' : lock'[r.conn]
    <3>1. ASSUME NEW r \in Active' PROVE r.conn # c /\ lock[r.conn]
      BY <2>6, <2>7, <2>8 DEF OwnInv, Ownership
    <3>2. ASSUME NEW r \in Active PROVE r.conn \in Clients
      <4>1. Active \subseteq Unpushed \cup Range(tasks) \cup Held
        BY DEF Active, Held, Executing, Idle
      <4>2. Unpushed \subseteq Runnable
        BY PushedUnpushed DEF OwnInv, TypeInv, TypeOK
      <4>3. Range(tasks) \cup Held \subseteq Runnable
        BY DEF OwnInv, TypeInv, TypeOK, PoolTypeOK, Range, Held
      <4> QED
        BY <4>1, <4>2, <4>3 DEF Runnable
    <3> QED
      BY <1>1, <2>1, <2>6, <3>1, <3>2
  <2>10. \A r, s \in Active' : r.conn = s.conn => r = s
    BY <2>6 DEF OwnInv, Ownership
  <2>11. InOnePlace'
    BY <1>1, <2>3, <2>5 DEF OwnInv, Ownership, InOnePlace
  <2>12. Numbered' /\ ArrivesOnce' /\ InOneList'
    BY <1>1 DEF OwnInv, Ownership, Numbered, ArrivesOnce, InOneList
  <2> QED
    BY <1>1, <2>9, <2>10, <2>11, <2>12 DEF OwnInv, Ownership
<1> QED
  BY <1>2, <1>3

\* A worker lets go of its runnable as it hands it back.
LEMMA OwnHandBack ==
  ASSUME OwnInv, TypeInv', NEW w \in Workers, PushDone(w)
  PROVE  OwnInv'
<1> DEFINE r == wtask[w]
<1>1. /\ UNCHANGED <<peer, backlog, accepted, table, lock, made, runnables, cursor, inProcess,
                     tasks, pc>>
      /\ wpc[w] = "push" /\ wtask \in [Workers -> Runnable \cup {NoTask}]
      /\ wpc \in [Workers -> WorkerSteps]
      /\ wtask' = [wtask EXCEPT ![w] = NoTask] /\ wpc' = [wpc EXCEPT ![w] = "loop"]
      /\ done' = Append(done, r) /\ done \in Seq(Runnable)
  BY DEF PushDone, Working, WGoto, UnchangedByWorkers, OwnInv, TypeInv, TypeOK, PoolTypeOK,
         RunTypeOK
<1>2. r \in Runnable /\ r \in Held /\ ~Idle(w) /\ ~Executing(w)
  BY <1>1, NoTaskAssumption
     DEF OwnInv, TypeInv, BusyHasTask, BusySteps, WorkerSteps, Held, Idle, Executing
<1>3. r \notin Range(done) \cup Range(tasks)
  BY <1>2 DEF OwnInv, Ownership, InOnePlace
<1> HIDE DEF r
<1>4. Range(done') = Range(done) \cup {r} /\ IsInjective(done')
  BY <1>1, <1>2, <1>3, AppendRange DEF OwnInv, Ownership, InOnePlace
<1>5. /\ Idle(w)'
      /\ \A v \in Workers \ {w} :
           wtask'[v] = wtask[v] /\ (Idle(v)' <=> Idle(v)) /\ (Executing(v)' <=> Executing(v))
  BY <1>1 DEF Idle, Executing
<1>6. Held' = Held \ {r}
  <2>1. \A v \in Workers \ {w} : wtask[v] # r
    BY <1>2 DEF OwnInv, Ownership, InOnePlace, r
  <2> QED
    BY <1>5, <2>1 DEF Held, Idle, r
<1>7. Pushed' = Pushed /\ Unpushed' = Unpushed
  BY <1>1 DEF Pushed, Unpushed
<1>8. Active' = Active
  <2>1. {wtask[v] : v \in {u \in Workers : Executing(u)}}'
          = {wtask[v] : v \in {u \in Workers : Executing(u)}}
    BY <1>2, <1>5 DEF Executing
  <2> QED
    BY <1>1, <1>7, <2>1 DEF Active
<1>9. InOnePlace'
  <2>1. ASSUME NEW u \in Workers, NEW v \in Workers, ~Idle(u)', wtask'[u] = wtask'[v]
        PROVE  u = v
    BY <1>5, <2>1 DEF OwnInv, Ownership, InOnePlace, Idle
  <2>2. Range(tasks)' \cup Held' \cup Range(done)' \subseteq Pushed' \cup inProcess'
    BY <1>1, <1>2, <1>4, <1>6, <1>7 DEF OwnInv, Ownership, InOnePlace
  <2>3. /\ Range(tasks)' \cap Held' = {}
        /\ Range(done)' \cap (Range(tasks)' \cup Held') = {}
    BY <1>1, <1>3, <1>4, <1>6 DEF OwnInv, Ownership, InOnePlace
  <2>4. IsInjective(tasks)'
    BY <1>1 DEF OwnInv, Ownership, InOnePlace
  <2> QED
    BY <1>4, <2>1, <2>2, <2>3, <2>4 DEF InOnePlace
<1>10. Numbered' /\ ArrivesOnce' /\ InOneList'
  BY <1>1 DEF OwnInv, Ownership, Numbered, ArrivesOnce, InOneList
<1> QED
  BY <1>1, <1>8, <1>9, <1>10 DEF OwnInv, Ownership

\* The other steps of a worker move no runnable.
LEMMA OwnWorkerFrame ==
  ASSUME OwnInv, TypeInv', NEW w \in Workers,
         \/ TestJoinFlag(w) \/ ReadLookup(w) \/ Recv(w) \/ StoreRequest(w)
         \/ WriteLookup(w) \/ Respond(w) \/ SendResponse(w) \/ SetNeedClose(w)
  PROVE  OwnInv'
<1> USE DEF UnchangedByWorkers, OwnStep, Working, WGoto, Die
<1> SUFFICES OwnStep
  BY OwnFrame
<1>1. wpc \in [Workers -> WorkerSteps]
  BY DEF OwnInv, TypeInv, TypeOK, PoolTypeOK
<1>2. CASE TestJoinFlag(w)
  BY <1>1, <1>2 DEF TestJoinFlag
<1>3. CASE ReadLookup(w)
  BY <1>1, <1>3 DEF ReadLookup
<1>4. CASE Recv(w)
  BY <1>1, <1>4 DEF Recv
<1>5. CASE StoreRequest(w)
  BY <1>1, <1>5 DEF StoreRequest
<1>6. CASE WriteLookup(w)
  BY <1>1, <1>6 DEF WriteLookup
<1>7. CASE Respond(w)
  BY <1>1, <1>7 DEF Respond
<1>8. CASE SendResponse(w)
  BY <1>1, <1>8 DEF SendResponse
<1>9. CASE SetNeedClose(w)
  BY <1>1, <1>9 DEF SetNeedClose
<1> QED
  BY <1>2, <1>3, <1>4, <1>5, <1>6, <1>7, <1>8, <1>9

\* A client that connects enters the backlog for the first time.
LEMMA OwnConnect ==
  ASSUME OwnInv, TypeInv', NEW c \in Clients, ClientConnects(c)
  PROVE  OwnInv'
<1>1. /\ UNCHANGED <<accepted, table, lock, made, runnables, cursor, inProcess, done, tasks,
                     wtask, wpc, pc>>
      /\ peer[c] = "absent" /\ peer' = [peer EXCEPT ![c] = "open"]
      /\ backlog' = Append(backlog, c)
      /\ peer \in [Clients -> PeerStates] /\ backlog \in Seq(Clients)
  BY DEF ClientConnects, Connect, UnchangedByClients, descrVars, runVars, poolVars, controlVars,
         OwnInv, TypeInv, TypeOK, ConnectionsTypeOK
<1>2. c \notin Range(backlog) \cup accepted
  BY <1>1 DEF OwnInv, Ownership, ArrivesOnce
<1>3. Range(backlog') = Range(backlog) \cup {c} /\ IsInjective(backlog')
  BY <1>1, <1>2, AppendRange DEF OwnInv, Ownership, ArrivesOnce
<1>4. ArrivesOnce'
  BY <1>1, <1>2, <1>3 DEF OwnInv, Ownership, ArrivesOnce
<1>5. Active' = Active /\ Pushed' = Pushed /\ Held' = Held
  BY <1>1 DEF Active, Unpushed, Executing, Idle, Pushed, Held
<1>6. Numbered' /\ InOneList' /\ InOnePlace'
  BY <1>1, <1>5 DEF OwnInv, Ownership, Numbered, InOneList, InOnePlace, Idle
<1> QED
  BY <1>1, <1>4, <1>5, <1>6 DEF OwnInv, Ownership

\* The rest of the environment moves no runnable either.
LEMMA OwnEnvironmentFrame ==
  ASSUME OwnInv, TypeInv',
         \/ ReceiveSignal \/ UNCHANGED vars
         \/ \E c \in Clients : ClientSends(c) \/ ClientCloses(c) \/ ClientResets(c)
  PROVE  OwnInv'
<1> USE DEF OwnStep, netVars, sockVars, descrVars, runVars, poolVars, controlVars
<1> SUFFICES OwnStep
  BY OwnFrame
<1>1. CASE ReceiveSignal
  BY <1>1 DEF ReceiveSignal
<1>2. CASE UNCHANGED vars
  BY <1>2 DEF vars
<1>3. ASSUME NEW c \in Clients, ClientSends(c) \/ ClientCloses(c) \/ ClientResets(c)
      PROVE  OwnStep
  <2>1. peer \in [Clients -> PeerStates]
    BY DEF OwnInv, TypeInv, TypeOK, ConnectionsTypeOK
  <2> QED
    BY <1>3, <2>1 DEF ClientSends, ClientCloses, ClientResets, Send, Close, Reset,
                      UnchangedByClients
<1> QED
  BY <1>1, <1>2, <1>3

-----------------------------------------------------------------------------
\* Every step preserves the invariant.
LEMMA OwnStepInv == OwnInv /\ TypeInv' /\ [Next]_vars => OwnInv'
<1> SUFFICES ASSUME OwnInv, TypeInv', [Next]_vars PROVE OwnInv'
  OBVIOUS
<1>1. ASSUME NEW c \in Clients, OnRead(c) \/ OnWrite(c) PROVE OwnInv'
  BY <1>1, OwnSchedule
     DEF OnRead, OnWrite, At, sockVars, poolVars, controlVars
<1>2. CASE Main
  BY <1>1, <1>2, OwnMainFrame, OwnAccept, OwnPush, OwnSplice, OwnErase DEF Main
<1>3. ASSUME NEW w \in Workers, Worker(w) PROVE OwnInv'
  BY <1>3, OwnWorkerFrame, OwnPop, OwnFinish, OwnHandBack DEF Worker
<1>4. ASSUME NEW c \in Clients, Client(c) PROVE OwnInv'
  BY <1>4, OwnConnect, OwnEnvironmentFrame DEF Client
<1> QED
  BY <1>2, <1>3, <1>4, OwnEnvironmentFrame, OwnMainFrame DEF Next, Ended

\* Where every runnable is, and who owns it (Ownership): the server's two lists,
\* the pool's queue, its workers and the queue of completed runnables.
THEOREM OwnershipCorrect == Spec => []Ownership
<1>1. TypeInv /\ [Next]_vars => TypeInv'
  BY TypeStep
<1>2. OwnInv => TypeInv /\ Ownership
  BY DEF OwnInv
<1> QED
  BY OwnInit, OwnStepInv, <1>1, <1>2, PTL DEF Spec

\* Two runnables never work on one connection at a time, although the lock that
\* OnRead and OnWrite test is a plain field of the descriptor (ExclusiveAccess).
THEOREM ExclusiveAccessCorrect == Spec => []ExclusiveAccess
<1>1. TypeInv /\ Ownership => ExclusiveAccess
  <2> SUFFICES ASSUME TypeInv, Ownership PROVE ExclusiveAccess
    OBVIOUS
  <2>1. ASSUME NEW w \in Workers, ~Idle(w) PROVE wtask[w] \notin Unpushed \cup Range(tasks)
    <3>1. wtask[w] \in Held
      BY <2>1 DEF Held, Idle
    <3>2. Pushed \cup Unpushed = Range(runnables) /\ Pushed \cap Unpushed = {}
      BY PushedUnpushed DEF TypeInv, TypeOK, Ownership, InOneList
    <3> QED
      BY <3>1, <3>2 DEF Ownership, InOneList, InOnePlace
  <2> QED
    BY <2>1 DEF ExclusiveAccess, Ownership, InOnePlace
<1>2. Spec => []TypeInv
  BY TypeInvariant
<1> QED
  BY OwnershipCorrect, <1>1, <1>2, PTL

\* No pointer of the pool, or of the completed queue, outlives its runnable, and
\* EraseCompletedRunners finds each one it looks for (RunnersOwned).
THEOREM RunnersOwnedCorrect == Spec => []RunnersOwned
<1>1. TypeInv /\ Ownership => RunnersOwned
  <2> SUFFICES ASSUME TypeInv, Ownership PROVE RunnersOwned
    OBVIOUS
  <2>1. Pushed \subseteq Range(runnables)
    BY PushedUnpushed DEF TypeInv, TypeOK
  <2>2. Range(<<>>) = {}
    BY DEF Range
  <2>3. pc = "erase" => Range(done) \subseteq inProcess
    BY <2>1, <2>2 DEF Ownership, InOnePlace
  <2> QED
    BY <2>1, <2>3 DEF RunnersOwned, Ownership, InOnePlace, Held
<1>2. Spec => []TypeInv
  BY TypeInvariant
<1> QED
  BY OwnershipCorrect, <1>1, <1>2, PTL

-----------------------------------------------------------------------------
(* What each runnable has done for its connection, and what the state of a *)
(* connection says of that.                                                *)

Waiting == Unpushed \cup Range(tasks)

\* How far a runnable is: its type and its connection's state, answers and number.
Reading(r) ==
  r.type = "EReadRequest" /\ state[r.conn] = "CNeedRequest" /\ made[r.conn] = 1
HasRead(r) ==
  /\ r.type = "EReadRequest" /\ state[r.conn] = "CNeedResponse"
  /\ outbox[r.conn] = 0 /\ made[r.conn] = 1
Writing(r) ==
  r.type = "EWriteResponse" /\ state[r.conn] = "CNeedResponse" /\ outbox[r.conn] = 0
HasSent(r) ==
  r.type = "EWriteResponse" /\ state[r.conn] = "CNeedResponse" /\ outbox[r.conn] = 1
HasWritten(r) == r.type = "EWriteResponse" /\ state[r.conn] = "CNeedClose"

Staged(w) ==
  /\ wpc[w] \in {"readLookup", "recv", "store"} => Reading(wtask[w])
  /\ wpc[w] = "store" => parsed[w] # "none"
  /\ wpc[w] \in {"writeLookup", "respond", "send"} => Writing(wtask[w])
  /\ wpc[w] = "setClose" => HasSent(wtask[w])
  /\ wpc[w] = "finish" => HasRead(wtask[w]) \/ HasWritten(wtask[w])
  /\ wpc[w] # "sendData"

\* The state tells whether the connection has been answered, and with a free lock
\* how many runnables it has had.
Progress(c) ==
  /\ outbox[c] \in {0, 1}
  /\ state[c] # "CDataSending"
  /\ state[c] = "CNone" <=> c \notin accepted
  /\ state[c] \in {"CNone", "CNeedRequest"} => outbox[c] = 0
  /\ state[c] = "CNeedResponse" => request[c] # "none"
  /\ state[c] = "CNeedClose" => outbox[c] = 1
  /\ made[c] <= 2
  /\ ~lock[c] /\ state[c] \in {"CNone", "CNeedRequest"} => made[c] = 0
  /\ ~lock[c] /\ state[c] = "CNeedResponse" => made[c] = 1 /\ outbox[c] = 0

\* Only an answered connection is swept.
Swept(c) ==
  /\ ~Stopping /\ c \in accepted \ table => state[c] = "CNeedClose"
  /\ c \in todo /\ pc \in {"close", "shutdown"} => state[c] = "CNeedClose"

Answering ==
  /\ \A r \in Waiting : Reading(r) \/ Writing(r)
  /\ \A w \in Workers : Staged(w)
  /\ \A c \in Clients : Progress(c) /\ Swept(c)

AnsInv == OwnInv /\ Listed /\ Answering

-----------------------------------------------------------------------------
BusyAtWork == BusySteps \ {"push"}

\* Waiting or at work, a runnable is active, and its connection was accepted.
LEMMA ActiveConnections ==
  ASSUME OwnInv
  PROVE  /\ Waiting \subseteq Active
         /\ \A w \in Workers : wpc[w] \in BusyAtWork => wtask[w] \in Active
         /\ \A r \in Active : r \in Runnable /\ r.conn \in Clients \cap accepted /\ lock[r.conn]
<1>1. Waiting \subseteq Active
  BY DEF Waiting, Active
<1>2. ASSUME NEW w \in Workers, wpc[w] \in BusyAtWork PROVE wtask[w] \in Active
  <2>1. Executing(w)
    BY <1>2, NoTaskAssumption DEF BusyAtWork, Executing, Idle, OwnInv, TypeInv, BusyHasTask
  <2> QED
    BY <2>1 DEF Active
<1>3. ASSUME NEW r \in Active PROVE r \in Runnable /\ r.conn \in Clients \cap accepted /\ lock[r.conn]
  <2>1. r \in Range(runnables) \cup inProcess
    <3>1. Active \subseteq Unpushed \cup Range(tasks) \cup Held
      BY DEF Active, Executing, Idle, Held
    <3>2. Pushed \cup Unpushed = Range(runnables)
      BY PushedUnpushed DEF OwnInv, TypeInv, TypeOK
    <3> QED
      BY <3>1, <3>2 DEF OwnInv, Ownership, InOnePlace
  <2>2. r \in Runnable
    BY <2>1, PushedUnpushed DEF OwnInv, TypeInv, TypeOK, RunTypeOK
  <2>3. r.conn \in Clients /\ r.seq \in 1 .. made[r.conn] /\ made[r.conn] \in Nat
    BY <2>1, <2>2 DEF Numbered, Runnable, OwnInv, Ownership, TypeInv, TypeOK, RunTypeOK
  <2>4. made[r.conn] > 0
    BY <2>3
  <2> QED
    BY <2>2, <2>3, <2>4 DEF OwnInv, Ownership, Numbered
<1> QED
  BY <1>1, <1>2, <1>3

\* No other runnable that waits or works is for the connection of a worker.
LEMMA Alone ==
  ASSUME OwnInv, NEW w \in Workers, wpc[w] \in BusyAtWork
  PROVE  /\ wtask[w] \in Runnable /\ wtask[w].conn \in Clients \cap accepted
         /\ \A r \in Waiting : r.conn # wtask[w].conn
         /\ \A v \in Workers \ {w} : wpc[v] \in BusyAtWork => wtask[v].conn # wtask[w].conn
<1>1. wtask[w] \in Active /\ wtask[w] \in Runnable /\ wtask[w].conn \in Clients \cap accepted
  BY ActiveConnections
<1>2. wtask[w] \in Held /\ ~Idle(w)
  BY <1>1, NoTaskAssumption DEF Held, Idle
<1>3. wtask[w] \notin Waiting
  BY <1>2, PushedUnpushed
     DEF Waiting, OwnInv, Ownership, InOnePlace, InOneList, TypeInv, TypeOK
<1>4. \A v \in Workers \ {w} : wtask[v] # wtask[w]
  BY <1>2 DEF OwnInv, Ownership, InOnePlace
<1> QED
  BY <1>1, <1>3, <1>4, ActiveConnections DEF OwnInv, Ownership

\* Initially nothing has been accepted.
LEMMA AnsweringInit == Init => Answering
<1> SUFFICES ASSUME Init PROVE Answering
  OBVIOUS
<1>1. tasks = <<>> /\ runnables = <<>> /\ cursor = 0
  BY DEF Init
<1>2. Waiting = {}
  BY <1>1 DEF Waiting, Unpushed, Range
<1>3. \A w \in Workers : Staged(w)
  BY DEF Init, Staged
<1>4. \A c \in Clients : Progress(c) /\ Swept(c)
  BY DEF Init, ConnectionsInit, Progress, Swept
<1> QED
  BY <1>2, <1>3, <1>4 DEF Answering

\* A step that leaves the descriptors and the answers alone.
LEMMA AnsweringFrame ==
  ASSUME Answering,
         UNCHANGED <<accepted, state, lock, request, outbox, made>>,
         Waiting' \subseteq Waiting,
         \A w \in Workers :
           \/ Staged(w)'
           \/ UNCHANGED <<wpc[w], wtask[w], parsed[w]>>,
         \A c \in Clients : Swept(c)'
  PROVE  Answering'
<1> USE DEF Answering, Reading, HasRead, Writing, HasSent, HasWritten
<1>1. \A r \in Waiting' : (Reading(r) \/ Writing(r))'
  OBVIOUS
<1>2. \A w \in Workers : Staged(w)'
  BY DEF Staged
<1>3. \A c \in Clients : Progress(c)'
  BY DEF Progress
<1> QED
  BY <1>1, <1>2, <1>3

-----------------------------------------------------------------------------
\* The main thread sweeps what has been answered, and nothing else until it stops.
LEMMA AnsweringMain ==
  ASSUME AnsInv,
         \/ StartListening \/ StartListeningFails \/ StartThreadPool
         \/ TestForClose \/ SweepDone
         \/ \E c \in Clients : CloseServerConnection(c) \/ ShutdownSwept(c)
         \/ ObtainIdleConnections \/ ObtainInterrupted
         \/ AcceptFails \/ AcceptInterrupted \/ EventsDone
         \/ EraseCompletedRunners \/ TestExit
         \/ Stop \/ CloseMainConnection \/ JoinAllThreads \/ ThreadsJoined
         \/ \E c \in Clients : CloseNextConnection(c) \/ ShutdownNext(c)
  PROVE  Answering'
<1> USE DEF netVars, sockVars, descrVars, serverVars, sweepVars, runVars, poolVars, Goto, Throw, At
<1>1. \A c \in Clients : Swept(c)
  BY DEF AnsInv, Answering
<1>2. CASE StartListening \/ StartListeningFails
  <2>1. UNCHANGED <<netVars, sweepVars, runVars, poolVars>> /\ \A c \in Clients : Swept(c)'
    BY <1>1, <1>2 DEF StartListening, StartListeningFails, Swept, Stopping
  <2> QED
    BY <2>1, AnsweringFrame DEF AnsInv, Waiting, Unpushed
<1>3. CASE StartThreadPool
  <2>1. UNCHANGED <<netVars, sweepVars, runVars, tasks>> /\ \A c \in Clients : Swept(c)'
    BY <1>1, <1>3 DEF StartThreadPool, Swept, Stopping
  <2>2. \A w \in Workers : Staged(w)'
    BY <1>3 DEF StartThreadPool, Staged
  <2> QED
    BY <2>1, <2>2, AnsweringFrame DEF AnsInv, Waiting, Unpushed
<1>4. CASE TestForClose \/ SweepDone
  <2>1. UNCHANGED <<netVars, runVars, poolVars>> /\ \A c \in Clients : Swept(c)'
    BY <1>1, <1>4 DEF TestForClose, SweepDone, Swept, Stopping, TestConnectionNeedsClose
  <2> QED
    BY <2>1, AnsweringFrame DEF AnsInv, Waiting, Unpushed
<1>5. ASSUME NEW c \in Clients, CloseServerConnection(c) \/ CloseNextConnection(c) PROVE Answering'
  <2>1. /\ UNCHANGED <<sockVars, accepted, state, lock, request, runVars, poolVars>>
        /\ \A d \in Clients : Swept(d)'
    BY <1>1, <1>5
       DEF CloseServerConnection, CloseNextConnection, ReleaseConnectionHandler, Swept, Stopping
  <2> QED
    BY <2>1, AnsweringFrame DEF AnsInv, Waiting, Unpushed
<1>6. ASSUME NEW c \in Clients, ShutdownSwept(c) \/ ShutdownNext(c) PROVE Answering'
  <2>1. /\ UNCHANGED <<outbox, descrVars, runVars, poolVars>>
        /\ \A d \in Clients : Swept(d)'
    BY <1>1, <1>6 DEF ShutdownSwept, ShutdownNext, Swept, Stopping
  <2> QED
    BY <2>1, AnsweringFrame DEF AnsInv, Waiting, Unpushed
<1>7. CASE ObtainIdleConnections \/ ObtainInterrupted \/ AcceptFails \/ AcceptInterrupted \/ EventsDone
  <2>1. UNCHANGED <<netVars, sweepVars, runVars, poolVars>> /\ \A c \in Clients : Swept(c)'
    BY <1>1, <1>7
       DEF ObtainIdleConnections, ObtainInterrupted, AcceptFails, AcceptInterrupted, EventsDone,
           Swept, Stopping
  <2> QED
    BY <2>1, AnsweringFrame DEF AnsInv, Waiting, Unpushed
<1>8. CASE EraseCompletedRunners
  <2>1. /\ UNCHANGED <<netVars, sweepVars, made, runnables, cursor, poolVars>>
        /\ \A c \in Clients : Swept(c)'
    BY <1>1, <1>8 DEF EraseCompletedRunners, Swept, Stopping
  <2> QED
    BY <2>1, AnsweringFrame DEF AnsInv, Waiting, Unpushed
<1>9. CASE TestExit \/ Stop
  <2>1. UNCHANGED <<netVars, runVars, poolVars>> /\ \A c \in Clients : Swept(c)'
    BY <1>1, <1>9 DEF TestExit, Stop, Swept, Stopping
  <2> QED
    BY <2>1, AnsweringFrame DEF AnsInv, Waiting, Unpushed
<1>10. CASE CloseMainConnection \/ JoinAllThreads \/ ThreadsJoined
  <2>1. /\ UNCHANGED <<netVars, runVars, tasks, wpc, wtask, parsed>>
        /\ \A c \in Clients : Swept(c)'
    BY <1>1, <1>10 DEF CloseMainConnection, JoinAllThreads, ThreadsJoined, Swept, Stopping
  <2> QED
    BY <2>1, AnsweringFrame DEF AnsInv, Waiting, Unpushed
<1> QED
  BY <1>2, <1>3, <1>4, <1>5, <1>6, <1>7, <1>8, <1>9, <1>10

\* A connection that is accepted is new: no runnable works for it.
LEMMA AnsweringAccept ==
  ASSUME AnsInv, AcceptNewConnection
  PROVE  Answering'
<1> DEFINE h == Head(backlog)
<1>1. backlog \in Seq(Clients) /\ backlog # <<>> /\ h \in Clients /\ h \in Range(backlog)
  BY BacklogHead, TailRange
     DEF AcceptNewConnection, AnsInv, OwnInv, TypeInv, TypeOK, ConnectionsTypeOK
<1>2. h \notin accepted
  BY <1>1 DEF AnsInv, OwnInv, Ownership, ArrivesOnce
<1>3. /\ accepted' = accepted \cup {h} /\ table' = table \cup {h}
      /\ state' = [state EXCEPT ![h] = "CNeedRequest"] /\ lock' = [lock EXCEPT ![h] = FALSE]
      /\ request' = [request EXCEPT ![h] = "none"]
      /\ state \in [Clients -> HttpConnectionState] /\ lock \in [Clients -> BOOLEAN]
      /\ request \in [Clients -> Parsed \cup {"none"}] /\ made \in [Clients -> Nat]
      /\ UNCHANGED <<outbox, made, runnables, cursor, tasks, wtask, wpc, parsed, pc, unwinding, todo>>
      /\ pc = "events"
  BY DEF AcceptNewConnection, AcceptDescriptor, runVars, poolVars, controlVars, sweepVars, At,
         AnsInv, OwnInv, TypeInv, TypeOK, ConnectionsTypeOK, RunTypeOK
<1> HIDE DEF h
<1>4. \A r \in Active : r.conn # h
  BY <1>2, ActiveConnections DEF AnsInv
<1>5. \A r \in Waiting' : (Reading(r) \/ Writing(r))'
  BY <1>3, <1>4, ActiveConnections
     DEF AnsInv, Answering, Waiting, Unpushed, Reading, Writing
<1>6. \A w \in Workers : Staged(w)'
  <2> SUFFICES ASSUME NEW w \in Workers PROVE Staged(w)'
    OBVIOUS
  <2>1. Staged(w)
    BY DEF AnsInv, Answering
  <2>2. wpc[w] \in BusyAtWork => wtask[w].conn # h
    BY <1>4, ActiveConnections DEF AnsInv
  <2> QED
    BY <1>3, <2>1, <2>2
       DEF Staged, Reading, HasRead, Writing, HasSent, HasWritten, BusyAtWork, BusySteps, WorkerSteps
<1>7. made[h] = 0 /\ outbox[h] = 0
  BY <1>1, <1>2, <1>3 DEF AnsInv, OwnInv, Ownership, Numbered, Answering, Progress
<1>8. \A c \in Clients : Progress(c)'
  BY <1>1, <1>3, <1>7 DEF AnsInv, Answering, Progress
<1>9. \A c \in Clients : Swept(c)'
  BY <1>1, <1>3 DEF AnsInv, Answering, Swept, Stopping
<1> QED
  BY <1>5, <1>6, <1>8, <1>9 DEF Answering

\* A runnable is made for the state it finds, with the lock free, and keeps it taken.
LEMMA AnsweringSchedule ==
  ASSUME AnsInv, NEW c \in Clients, ScheduleIfIdle(c),
         UNCHANGED <<outbox, accepted, table, state, request, cursor, tasks, wpc, wtask, parsed, pc,
                     unwinding, todo>>
  PROVE  Answering'
<1>0. PICK r : r = [conn |-> c, type |-> ReceiveRunnableTypeForConnection(c), seq |-> made[c] + 1]
  OBVIOUS
<1>1. CASE UNCHANGED <<made, runnables, lock>>
  <2>1. \A d \in Clients : Swept(d)'
    BY DEF AnsInv, Answering, Swept, Stopping
  <2> QED
    BY <1>1, <2>1, AnsweringFrame DEF AnsInv, Waiting, Unpushed
<1>2. CASE HasDescriptor(c) /\ ~lock[c] /\ ScheduleRunnable(c) /\ ReceiveRunnableTypeForConnection(c) # "ENone"
  <2>1. /\ runnables \in Seq(Runnable) /\ runnables' = Append(runnables, r)
        /\ made \in [Clients -> Nat] /\ made' = [made EXCEPT ![c] = @ + 1]
        /\ lock \in [Clients -> BOOLEAN] /\ lock' = [lock EXCEPT ![c] = TRUE]
        /\ cursor \in 0 .. Len(runnables)
    BY <1>0, <1>2 DEF ScheduleRunnable, AnsInv, OwnInv, TypeInv, TypeOK, RunTypeOK, ConnectionsTypeOK
  <2>2. Progress(c) /\ state[c] # "CDataSending"
    BY DEF AnsInv, Answering, Progress
  <2>3. /\ r.conn = c
        /\ \/ r.type = "EReadRequest" /\ state[c] = "CNeedRequest" /\ made[c] = 0
           \/ r.type = "EWriteResponse" /\ state[c] = "CNeedResponse" /\ made[c] = 1 /\ outbox[c] = 0
    BY <1>0, <1>2, <2>2 DEF ReceiveRunnableTypeForConnection, Progress
  <2>4. Waiting' \subseteq Waiting \cup {r}
    <3>1. /\ Len(runnables') = Len(runnables) + 1 /\ Len(runnables) \in Nat
          /\ \A i \in 1 .. Len(runnables) : runnables'[i] = runnables[i]
          /\ runnables'[Len(runnables) + 1] = r
      BY <2>1, <2>3
    <3>2. \A i \in cursor + 1 .. Len(runnables') :
            \/ i \in cursor + 1 .. Len(runnables) /\ i \in 1 .. Len(runnables)
            \/ i = Len(runnables) + 1
      BY <2>1, <3>1
    <3> QED
      BY <3>1, <3>2 DEF Waiting, Unpushed
  <2>5. \A s \in Active : s.conn # c
    BY <1>2, ActiveConnections DEF AnsInv
  <2>6. \A s \in Waiting' : (Reading(s) \/ Writing(s))'
    <3>1. (Reading(r) \/ Writing(r))'
      BY <2>1, <2>3 DEF Reading, Writing
    <3>2. ASSUME NEW s \in Waiting PROVE (Reading(s) \/ Writing(s))'
      <4>1. s.conn # c /\ s.conn \in Clients /\ (Reading(s) \/ Writing(s))
        BY <2>5, ActiveConnections DEF AnsInv, Answering
      <4> QED
        BY <2>1, <4>1 DEF Reading, Writing
    <3> QED
      BY <2>4, <3>1, <3>2
  <2>7. \A w \in Workers : Staged(w)'
    <3> SUFFICES ASSUME NEW w \in Workers PROVE Staged(w)'
      OBVIOUS
    <3>1. Staged(w)
      BY DEF AnsInv, Answering
    <3>2. wpc[w] \in BusyAtWork => wtask[w].conn # c /\ wtask[w].conn \in Clients
      BY <2>5, ActiveConnections DEF AnsInv
    <3> QED
      BY <2>1, <3>1, <3>2
         DEF Staged, Reading, HasRead, Writing, HasSent, HasWritten, BusyAtWork, BusySteps, WorkerSteps
  <2>8. \A d \in Clients : Progress(d)'
    BY <2>1, <2>3 DEF AnsInv, Answering, Progress
  <2>9. \A d \in Clients : Swept(d)'
    BY DEF AnsInv, Answering, Swept, Stopping
  <2> QED
    BY <2>6, <2>7, <2>8, <2>9 DEF Answering
<1> QED
  BY <1>1, <1>2 DEF ScheduleIfIdle

\* What is pushed was waiting before.
LEMMA AnsweringPush ==
  ASSUME AnsInv, ScheduleExecutionRunnable \/ MarkRunnersStatusToInProgress
  PROVE  Answering'
<1> USE DEF netVars, sockVars, descrVars, serverVars, sweepVars, controlVars, Goto, At
<1>1. \A c \in Clients : Swept(c)'
  BY DEF ScheduleExecutionRunnable, MarkRunnersStatusToInProgress, AnsInv, Answering, Swept, Stopping
<1>2. CASE ScheduleExecutionRunnable
  <2> DEFINE r == runnables[cursor + 1]
  <2>1. /\ runnables \in Seq(Runnable) /\ cursor \in 0 .. Len(runnables) /\ cursor < Len(runnables)
        /\ tasks \in Seq(Runnable) /\ r \in Runnable /\ runnables' = runnables
        /\ cursor' = cursor + 1 /\ tasks' = Append(tasks, r)
    BY <1>2 DEF ScheduleExecutionRunnable, AnsInv, OwnInv, TypeInv, TypeOK, RunTypeOK, PoolTypeOK
  <2>2. r \in Unpushed /\ Unpushed' \subseteq Unpushed
    <3>1. cursor + 1 \in cursor + 1 .. Len(runnables)
      BY <2>1
    <3>2. \A i \in cursor' + 1 .. Len(runnables) : i \in cursor + 1 .. Len(runnables)
      BY <2>1
    <3> QED
      BY <2>1, <3>1, <3>2 DEF Unpushed
  <2>3. Range(tasks') = Range(tasks) \cup {r}
    BY <2>1, AppendRange
  <2>4. Waiting' \subseteq Waiting
    BY <2>2, <2>3 DEF Waiting
  <2> QED
    BY <1>1, <1>2, <2>4, AnsweringFrame DEF ScheduleExecutionRunnable, AnsInv
<1>3. CASE MarkRunnersStatusToInProgress
  <2>1. Unpushed' = {}
    <3>1. runnables' = <<>> /\ cursor' = 0
      BY <1>3 DEF MarkRunnersStatusToInProgress
    <3> QED
      BY <3>1 DEF Unpushed
  <2>2. Waiting' \subseteq Waiting
    BY <1>3, <2>1 DEF MarkRunnersStatusToInProgress, poolVars, Waiting
  <2> QED
    BY <1>1, <1>3, <2>2, AnsweringFrame DEF MarkRunnersStatusToInProgress, AnsInv, poolVars
<1> QED
  BY <1>2, <1>3

-----------------------------------------------------------------------------
\* A worker's step that touches its own connection only.
LEMMA AnsweringOne ==
  ASSUME AnsInv, NEW w \in Workers, NEW c \in Clients, wpc[w] \in BusyAtWork, c = wtask[w].conn,
         UNCHANGED <<accepted, table, made, runnables, cursor, tasks, todo, pc, unwinding>>,
         \A d \in Clients \ {c} : UNCHANGED <<state[d], lock[d], request[d], outbox[d]>>,
         \A v \in Workers \ {w} : UNCHANGED <<wpc[v], wtask[v], parsed[v]>>,
         Staged(w)', Progress(c)', Swept(c)'
  PROVE  Answering'
<1>1. Waiting' = Waiting
  BY DEF Waiting, Unpushed
<1>2. ASSUME NEW r \in Waiting PROVE (Reading(r) \/ Writing(r))'
  <2>1. r.conn \in Clients \ {c}
    BY Alone, ActiveConnections DEF AnsInv
  <2> QED
    BY <2>1 DEF AnsInv, Answering, Reading, Writing
<1>3. ASSUME NEW v \in Workers \ {w} PROVE Staged(v)'
  <2>1. wpc[v] \in BusyAtWork => wtask[v].conn \in Clients \ {c}
    BY Alone, ActiveConnections DEF AnsInv
  <2>2. Staged(v)
    BY DEF AnsInv, Answering
  <2> QED
    BY <2>1, <2>2
       DEF Staged, Reading, HasRead, Writing, HasSent, HasWritten, BusyAtWork, BusySteps, WorkerSteps
<1>4. \A d \in Clients \ {c} : Progress(d)' /\ Swept(d)'
  BY DEF AnsInv, Answering, Progress, Swept, Stopping
<1> QED
  BY <1>1, <1>2, <1>3, <1>4 DEF Answering

\* The steps of a worker that change nothing of a connection.
LEMMA AnsweringWork ==
  ASSUME AnsInv, NEW w \in Workers,
         \/ TestJoinFlag(w) \/ TryPop(w) \/ ReadLookup(w) \/ Recv(w)
         \/ WriteLookup(w) \/ Respond(w) \/ PushDone(w)
  PROVE  Answering'
<1> USE DEF UnchangedByWorkers, Working, WGoto, Die
<1>1. Staged(w) /\ \A c \in Clients : Swept(c)
  BY DEF AnsInv, Answering
<1>2. /\ wpc \in [Workers -> WorkerSteps] /\ wtask \in [Workers -> Runnable \cup {NoTask}]
      /\ parsed \in [Workers -> Parsed \cup {"none"}] /\ tasks \in Seq(Runnable)
      /\ inbox \in [Clients -> Requests \cup {"none"}]
  BY DEF AnsInv, OwnInv, TypeInv, TypeOK, PoolTypeOK, ConnectionsTypeOK
<1>3. /\ UNCHANGED <<accepted, table, state, lock, request, outbox, made, runnables, cursor, sweepVars,
                     pc, unwinding>>
      /\ \A v \in Workers \ {w} : UNCHANGED <<wpc[v], wtask[v], parsed[v]>>
  BY <1>2 DEF TestJoinFlag, TryPop, ReadLookup, Recv, WriteLookup, Respond, PushDone
<1>4. \A c \in Clients : Swept(c)'
  BY <1>1, <1>3 DEF Swept, Stopping, sweepVars
<1> SUFFICES Waiting' \subseteq Waiting /\ (Staged(w)' \/ UNCHANGED <<wpc[w], wtask[w], parsed[w]>>)
  BY <1>3, <1>4, AnsweringFrame DEF AnsInv
<1>5. ASSUME tasks' = tasks PROVE Waiting' = Waiting
  BY <1>3, <1>5 DEF Waiting, Unpushed
<1>6. CASE TryPop(w) /\ tasks # <<>>
  <2> DEFINE r == Head(tasks)
  <2>1. Range(tasks) = {r} \cup Range(Tail(tasks))
    BY <1>2, <1>6, TailRange
  <2>2. /\ tasks' = Tail(tasks) /\ wtask'[w] = r /\ wpc'[w] = RunSteps[r.type] /\ parsed' = parsed
    BY <1>2, <1>6 DEF TryPop
  <2>3. r \in Waiting /\ (Reading(r) \/ Writing(r))
    BY <2>1 DEF Waiting, AnsInv, Answering
  <2>4. Waiting' \subseteq Waiting
    BY <1>3, <2>1, <2>2 DEF Waiting, Unpushed
  <2>5. \/ Reading(r) /\ wpc'[w] = "readLookup"
        \/ Writing(r) /\ wpc'[w] = "writeLookup"
    BY <2>2, <2>3 DEF Reading, Writing, RunSteps
  <2> HIDE DEF r
  <2>6. Staged(w)'
    BY <1>3, <2>2, <2>5 DEF Staged, Reading, Writing
  <2> QED
    BY <2>4, <2>6
<1>7. CASE TryPop(w) /\ tasks = <<>>
  BY <1>2, <1>3, <1>5, <1>7 DEF TryPop, Staged
<1>8. CASE TestJoinFlag(w) \/ PushDone(w)
  <2>1. wpc'[w] \in {"exited", "pop", "loop"} /\ tasks' = tasks
    BY <1>2, <1>8 DEF TestJoinFlag, PushDone
  <2> QED
    BY <1>5, <2>1 DEF Staged
<1>9. CASE ReadLookup(w) \/ WriteLookup(w) \/ Respond(w)
  <2>1. /\ UNCHANGED <<tasks, wtask, parsed>>
        /\ \/ wpc' = wpc
           \/ wpc[w] = "readLookup" /\ wpc'[w] = "recv"
           \/ wpc[w] = "writeLookup" /\ wpc'[w] = "respond"
           \/ wpc[w] = "respond" /\ wpc'[w] = "send"
    BY <1>2, <1>9 DEF ReadLookup, WriteLookup, Respond
  <2> QED
    BY <1>1, <1>3, <1>5, <2>1 DEF Staged, Reading, Writing
<1>10. CASE Recv(w)
  <2>1. UNCHANGED <<tasks, wtask>> /\ wpc[w] = "recv"
    BY <1>10 DEF Recv
  <2>2. CASE wpc' = wpc /\ parsed' = parsed
    BY <1>5, <2>1, <2>2
  <2>3. CASE parsed'[w] = ReceivedRequest(wtask[w].conn) /\ wpc'[w] = "store"
    <3>1. wtask[w].conn \in Clients
      BY <2>1, Alone DEF AnsInv, BusyAtWork, BusySteps, WorkerSteps
    <3>2. ReceivedRequest(wtask[w].conn) # "none"
      BY DEF ReceivedRequest
    <3> QED
      BY <1>1, <1>3, <1>5, <2>1, <2>3, <3>2 DEF Staged, Reading
  <2> QED
    BY <1>2, <1>10, <2>2, <2>3 DEF Recv
<1> QED
  BY <1>6, <1>7, <1>8, <1>9, <1>10

\* The steps that tell of an answer, or of a request read, and free the lock.
LEMMA AnsweringAdvance ==
  ASSUME AnsInv, NEW w \in Workers,
         StoreRequest(w) \/ SendResponse(w) \/ SetNeedClose(w) \/ OnFinished(w)
  PROVE  Answering'
<1> DEFINE d == wtask[w].conn
<1> USE DEF UnchangedByWorkers, Working, WGoto, Die
<1>1. PICK c : c = d
  OBVIOUS
<1>2. Staged(w) /\ \A e \in Clients : Swept(e)
  BY DEF AnsInv, Answering
<1>3. /\ wpc \in [Workers -> WorkerSteps] /\ parsed \in [Workers -> Parsed \cup {"none"}]
      /\ state \in [Clients -> HttpConnectionState] /\ lock \in [Clients -> BOOLEAN]
      /\ request \in [Clients -> Parsed \cup {"none"}] /\ outbox \in [Clients -> Nat]
  BY DEF AnsInv, OwnInv, TypeInv, TypeOK, PoolTypeOK, ConnectionsTypeOK
<1>4. wpc[w] \in BusyAtWork
  BY DEF BusyAtWork, BusySteps, WorkerSteps, StoreRequest, SendResponse, SetNeedClose, OnFinished
<1>5. c \in Clients /\ c \in accepted /\ Progress(c) /\ Swept(c)
  BY <1>1, <1>4, Alone DEF AnsInv, Answering
<1>6. /\ UNCHANGED <<accepted, table, made, runnables, cursor, tasks, wtask, sweepVars, pc, unwinding>>
      /\ \A e \in Clients \ {c} : UNCHANGED <<state[e], lock[e], request[e], outbox[e]>>
      /\ \A v \in Workers \ {w} : UNCHANGED <<wpc[v], parsed[v]>>
  BY <1>1, <1>3, <1>5 DEF StoreRequest, SendResponse, SetNeedClose, OnFinished
<1> SUFFICES Staged(w)' /\ Progress(c)' /\ Swept(c)'
  BY <1>1, <1>4, <1>5, <1>6, AnsweringOne DEF sweepVars
<1> HIDE DEF d
<1>7. wtask'[w].conn = c /\ wtask[w].conn = c
  BY <1>1, <1>6 DEF d
<1>8. CASE UNCHANGED <<state, lock, request, outbox, wpc, parsed>>
  BY <1>2, <1>5, <1>6, <1>8
     DEF Staged, Progress, Swept, Stopping, sweepVars, Reading, HasRead, Writing, HasSent, HasWritten
<1>9. CASE StoreRequest(w) /\ HasDescriptor(c)
  <2>1. /\ state'[c] = "CNeedResponse" /\ request'[c] = parsed[w] /\ wpc'[w] = "finish"
        /\ UNCHANGED <<lock, outbox>> /\ wpc[w] = "store" /\ c \in table
    BY <1>3, <1>5, <1>7, <1>9 DEF StoreRequest, HasDescriptor
  <2>2. Reading(wtask[w]) /\ parsed[w] # "none" /\ lock[c]
    BY <1>2, <1>4, <1>7, <2>1, ActiveConnections DEF Staged, AnsInv
  <2> QED
    BY <1>5, <1>6, <1>7, <2>1, <2>2
       DEF Staged, Reading, HasRead, Progress, Swept, Stopping, sweepVars
<1>10. CASE SendResponse(w) /\ ~SendFails(c)
  <2>1. /\ outbox'[c] = outbox[c] + 1 /\ wpc'[w] = "setClose" /\ wpc[w] = "send"
        /\ UNCHANGED <<state, lock, request, parsed>>
    BY <1>3, <1>5, <1>7, <1>10 DEF SendResponse
  <2>2. Writing(wtask[w]) /\ lock[c]
    BY <1>2, <1>4, <1>7, <2>1, ActiveConnections DEF Staged, AnsInv
  <2> QED
    BY <1>5, <1>6, <1>7, <2>1, <2>2
       DEF Staged, Writing, HasSent, Progress, Swept, Stopping, sweepVars
<1>11. CASE SetNeedClose(w)
  <2>1. /\ state'[c] = "CNeedClose" /\ wpc'[w] = "finish" /\ wpc[w] = "setClose"
        /\ UNCHANGED <<outbox, lock, request, parsed>>
    BY <1>3, <1>5, <1>7, <1>11 DEF SetNeedClose
  <2>2. HasSent(wtask[w])
    BY <1>2, <2>1 DEF Staged
  <2> QED
    BY <1>5, <1>6, <1>7, <2>1, <2>2
       DEF Staged, HasSent, HasWritten, Progress, Swept, Stopping, sweepVars
<1>12. CASE OnFinished(w) /\ HasDescriptor(c)
  <2>1. /\ lock'[c] = FALSE /\ wpc'[w] = "push" /\ wpc[w] = "finish"
        /\ UNCHANGED <<state, outbox, request, parsed>>
    BY <1>3, <1>5, <1>7, <1>12 DEF OnFinished
  <2>2. HasRead(wtask[w]) \/ HasWritten(wtask[w])
    BY <1>2, <2>1 DEF Staged
  <2> QED
    BY <1>5, <1>6, <1>7, <2>1, <2>2
       DEF Staged, HasRead, HasWritten, Progress, Swept, Stopping, sweepVars
<1> QED
  BY <1>7, <1>8, <1>9, <1>10, <1>11, <1>12 DEF StoreRequest, SendResponse, OnFinished

\* Neither the signal nor a client touches a runnable.
LEMMA AnsweringEnvironment ==
  ASSUME AnsInv, ReceiveSignal \/ UNCHANGED vars \/ \E c \in Clients : Client(c)
  PROVE  Answering'
<1>1. /\ UNCHANGED <<descrVars, outbox, runVars, poolVars, sweepVars, pc, unwinding>>
  BY DEF ReceiveSignal, vars, netVars, sockVars, controlVars, Client, UnchangedByClients,
         ClientConnects, ClientSends, ClientCloses, ClientResets, Connect, Send, Close, Reset
<1>2. \A c \in Clients : Swept(c)'
  BY <1>1 DEF AnsInv, Answering, Swept, Stopping, descrVars, sweepVars
<1> QED
  BY <1>1, <1>2, AnsweringFrame DEF AnsInv, Waiting, Unpushed, descrVars, runVars, poolVars

\* Answering is inductive, given ownership and the list of connections.
LEMMA AnsweringStep == AnsInv /\ [Next]_vars => Answering'
<1> SUFFICES ASSUME AnsInv, [Next]_vars PROVE Answering'
  OBVIOUS
<1>1. ASSUME NEW c \in Clients, OnRead(c) \/ OnWrite(c) PROVE Answering'
  BY <1>1, AnsweringSchedule
     DEF OnRead, OnWrite, sockVars, poolVars, controlVars, sweepVars
<1>2. CASE Main
  BY <1>1, <1>2, AnsweringMain, AnsweringAccept, AnsweringPush DEF Main
<1>3. ASSUME NEW w \in Workers, Worker(w) PROVE Answering'
  BY <1>3, AnsweringWork, AnsweringAdvance DEF Worker
<1> QED
  BY <1>2, <1>3, AnsweringMain, AnsweringEnvironment DEF Next, Ended

\* The three invariants hold together.
LEMMA AnswersInvariant == Spec => []AnsInv
<1>1. Init => AnsInv
  BY OwnInit, ListedInit, AnsweringInit DEF AnsInv
<1>2. AnsInv /\ [Next]_vars => AnsInv'
  <2> SUFFICES ASSUME AnsInv, [Next]_vars PROVE AnsInv'
    OBVIOUS
  <2>1. TypeInv'
    BY TypeStep DEF AnsInv, OwnInv
  <2> QED
    BY <2>1, OwnStepInv, ListedStep, AnsweringStep DEF AnsInv, OwnInv
<1> QED
  BY <1>1, <1>2, PTL DEF Spec

-----------------------------------------------------------------------------
\* A worker that has looked up its connection, and not yet answered it, finds it
\* at its next lookup, and the request it answers: the main thread sweeps the
\* answered ones only (ConnectionHeldUntilAnswered, server.cpp:81-90).
THEOREM ConnectionHeldCorrect == Spec => []ConnectionHeldUntilAnswered
<1>1. AnsInv => ConnectionHeldUntilAnswered
  <2> SUFFICES ASSUME AnsInv, NEW w \in Workers, ~Stopping,
                      wpc[w] \in {"readLookup", "recv", "store", "writeLookup", "respond", "send", "setClose"}
               PROVE  /\ HasDescriptor(wtask[w].conn)
                      /\ wtask[w].type = "EWriteResponse" => request[wtask[w].conn] # "none"
    BY DEF ConnectionHeldUntilAnswered
  <2>1. wtask[w].conn \in Clients \cap accepted
    BY Alone DEF AnsInv, BusyAtWork, BusySteps, WorkerSteps
  <2>2. Staged(w) /\ Progress(wtask[w].conn) /\ Swept(wtask[w].conn)
    BY <2>1 DEF AnsInv, Answering
  <2>3. Reading(wtask[w]) \/ Writing(wtask[w]) \/ HasSent(wtask[w])
    BY <2>2 DEF Staged
  <2> QED
    BY <2>1, <2>2, <2>3 DEF Reading, Writing, HasSent, Progress, Swept, HasDescriptor
<1> QED
  BY <1>1, AnswersInvariant, PTL

\* No connection gets a third runnable: none is made for a state that a worker
\* is about to leave (TwoRunnables, httpServer.cpp:41, 64).
THEOREM TwoRunnablesCorrect == Spec => []TwoRunnables
<1>1. AnsInv => TwoRunnables
  BY DEF AnsInv, Answering, Progress, TwoRunnables
<1> QED
  BY <1>1, AnswersInvariant, PTL

\* A process that ends by itself has shut down every connection it accepted, or
\* the peer has: Stop leaves none behind (CleanExit, server.cpp:141).
THEOREM CleanExitCorrect == Spec => []CleanExit
<1>1. AnsInv => CleanExit
  <2> SUFFICES ASSUME AnsInv, fate = "exited" PROVE CleanExit
    BY DEF CleanExit
  <2>1. ~running /\ ~listening /\ table = {} /\ closing = {}
    BY DEF AnsInv, Listed
  <2>2. \A c \in accepted : Down(c) /\ outbox[c] \in {0, 1}
    BY <2>1 DEF AnsInv, Listed, Answering, Progress, OwnInv, TypeInv, TypeOK, ConnectionsTypeOK
  <2> QED
    BY <2>1, <2>2 DEF CleanExit, Down
<1> QED
  BY <1>1, AnswersInvariant, PTL

-----------------------------------------------------------------------------
(* ConnectionLife: what the phases of the connections do at each step.     *)

\* Once an exception has left Start, the server is being stopped.
Unwinds == unwinding => pc \in {"stop", "closeAll", "shutdownAll", "destroy", "join"}

\* Unwinds is inductive.
LEMMA UnwindsStep == Unwinds /\ [Next]_vars => Unwinds'
<1> SUFFICES ASSUME Unwinds, [Next]_vars PROVE Unwinds'
  OBVIOUS
<1> USE DEF Unwinds, controlVars
<1>1. ASSUME UNCHANGED <<pc, unwinding>> PROVE Unwinds'
  BY <1>1
<1>2. CASE Main
  BY <1>2
     DEF Main, At, Goto, Throw, StartListening, StartListeningFails, StartThreadPool, TestForClose,
         SweepDone, CloseServerConnection, ShutdownSwept, ObtainIdleConnections, ObtainInterrupted,
         AcceptNewConnection, AcceptFails, EventsDone, OnRead, OnWrite, ScheduleExecutionRunnable,
         MarkRunnersStatusToInProgress, EraseCompletedRunners, TestExit, Stop, CloseMainConnection,
         JoinAllThreads, ThreadsJoined, CloseNextConnection, ShutdownNext
<1>3. ASSUME NEW w \in Workers, Worker(w) PROVE UNCHANGED <<pc, unwinding>>
  BY <1>3
     DEF Worker, UnchangedByWorkers, TestJoinFlag, TryPop, ReadLookup, Recv, StoreRequest, WriteLookup,
         Respond, SendResponse, SetNeedClose, OnFinished, PushDone
<1>4. ASSUME NEW c \in Clients, Client(c) PROVE UNCHANGED <<pc, unwinding>>
  BY <1>4
     DEF Client, ClientConnects, ClientSends, ClientCloses, ClientResets, UnchangedByClients
<1>5. CASE AcceptInterrupted
  BY <1>5 DEF AcceptInterrupted, Throw
<1>6. CASE ReceiveSignal \/ Ended \/ UNCHANGED vars
  BY <1>1, <1>6 DEF ReceiveSignal, Ended, vars
<1> QED
  BY <1>1, <1>2, <1>3, <1>4, <1>5, <1>6 DEF Next

LifeStep == [Life!LifeNext]_(Life!lifeVars)

\* A step that leaves the descriptors and the sockets' places alone may only stop
\* the server.
LEMMA LifeFrame ==
  ASSUME UNCHANGED <<accepted, table, state, outbox, backlog>>, Stopping => Stopping'
  PROVE  LifeStep
<1>1. [c \in Clients |-> Phase(c)]' = [c \in Clients |-> Phase(c)]
  BY DEF Phase
<1>2. CASE Stopping' = Stopping
  BY <1>1, <1>2 DEF LifeStep, Life!lifeVars
<1>3. CASE ~Stopping /\ Stopping'
  BY <1>1, <1>3 DEF LifeStep, Life!LifeNext, Life!BeginStop, Stopping
<1> QED
  BY <1>2, <1>3 DEF Stopping

\* A connection that moves alone from one phase to another.
LEMMA LifeMove ==
  ASSUME NEW c \in Clients,
         \A d \in Clients \ {c} : Phase(d)' = Phase(d),
         UNCHANGED <<outbox, pc, unwinding>>,
         \/ Phase(c) = "none" /\ Phase(c)' = "waiting"
         \/ Phase(c) = "waiting" /\ Phase(c)' = "open" /\ ~Stopping
         \/ Phase(c) = "open" /\ Phase(c)' = "asked"
         \/ Phase(c) = "asked" /\ Phase(c)' = "answered" /\ outbox[c] = 1
  PROVE  LifeStep
<1>1. [d \in Clients |-> Phase(d)]' = [[d \in Clients |-> Phase(d)] EXCEPT ![c] = Phase(c)']
  OBVIOUS
<1>2. Stopping' = Stopping
  BY DEF Stopping
<1>3. Life!Arrive(c) \/ Life!Accept(c) \/ Life!Ask(c) \/ Life!Complete(c)
  BY <1>1, <1>2 DEF Life!Arrive, Life!Accept, Life!Ask, Life!Complete, Life!Become
<1> QED
  BY <1>3 DEF LifeStep, Life!LifeNext

\* What the phase of a connection says of its descriptor.
LEMMA Phases ==
  ASSUME AnsInv, NEW c \in Clients
  PROVE  /\ Phase(c) = "none" <=> c \notin accepted \cup Range(backlog)
         /\ Phase(c) = "waiting" <=> c \in Range(backlog)
         /\ Phase(c) = "gone" <=> c \in accepted \ table
         /\ Phase(c) = "open" <=> c \in table /\ state[c] = "CNeedRequest"
         /\ Phase(c) = "asked" <=> c \in table /\ state[c] = "CNeedResponse"
         /\ Phase(c) = "answered" <=> c \in table /\ state[c] = "CNeedClose"
<1>1. table \subseteq accepted /\ Range(backlog) \cap accepted = {}
  BY DEF AnsInv, OwnInv, Ownership, ArrivesOnce
<1>2. state[c] \in {"CNone", "CNeedRequest", "CNeedResponse", "CNeedClose"}
  BY DEF AnsInv, Answering, Progress, OwnInv, TypeInv, TypeOK, ConnectionsTypeOK, HttpConnectionState
<1>3. c \in accepted => state[c] # "CNone"
  BY DEF AnsInv, Answering, Progress
<1> QED
  BY <1>1, <1>2, <1>3 DEF Phase

\* A connection that loses its descriptor had its answer, or the server is stopping.
LEMMA LifeRelease ==
  ASSUME AnsInv, NEW c \in Clients, CloseServerConnection(c) \/ CloseNextConnection(c)
  PROVE  LifeStep
<1>0. /\ table \in SUBSET Clients
      /\ pc = "close" => state[c] = "CNeedClose" \/ c \notin todo
  BY DEF AnsInv, Answering, Swept, OwnInv, TypeInv, TypeOK, ConnectionsTypeOK
<1>1. /\ UNCHANGED <<accepted, state, outbox, backlog>>
      /\ \/ table' = table /\ (Stopping => Stopping')
         \/ /\ c \in table /\ table' = table \ {c} /\ Stopping' = Stopping
            /\ Stopping \/ state[c] = "CNeedClose"
  BY <1>0 DEF CloseServerConnection, CloseNextConnection, ReleaseConnectionHandler, HasDescriptor,
              sockVars, descrVars, Goto, Throw, At, Stopping
<1>2. CASE table' = table
  BY <1>1, <1>2, LifeFrame
<1>3. CASE c \in table /\ table' = table \ {c} /\ Stopping' = Stopping /\ (Stopping \/ state[c] = "CNeedClose")
  <2>1. /\ Phase(c) \in {"open", "asked", "answered"}
        /\ Stopping \/ Phase(c) = "answered"
    <3>1. /\ c \in accepted
          /\ state[c] \in {"CNeedRequest", "CNeedResponse", "CNeedClose"}
      BY <1>3 DEF AnsInv, Answering, Progress, OwnInv, Ownership, ArrivesOnce,
                  TypeInv, TypeOK, ConnectionsTypeOK, HttpConnectionState
    <3> QED
      BY <1>3, <3>1, Phases
  <2>2. Phase(c)' = "gone" /\ \A d \in Clients \ {c} : Phase(d)' = Phase(d)
    <3>1. c \in accepted
      BY <1>3 DEF AnsInv, OwnInv, Ownership, ArrivesOnce
    <3> QED
      BY <1>1, <1>3, <3>1 DEF Phase
  <2>3. [d \in Clients |-> Phase(d)]' = [[d \in Clients |-> Phase(d)] EXCEPT ![c] = "gone"]
    BY <2>2
  <2>4. Life!Retire(c) \/ Life!Abandon(c)
    BY <1>1, <1>3, <2>1, <2>3 DEF Life!Retire, Life!Abandon, Life!Become
  <2> QED
    BY <2>4 DEF LifeStep, Life!LifeNext
<1> QED
  BY <1>1, <1>2, <1>3

\* The main thread's other steps, an accept apart, change no phase.
LEMMA LifeMain ==
  ASSUME AnsInv,
         \/ StartListening \/ StartListeningFails \/ StartThreadPool
         \/ TestForClose \/ SweepDone
         \/ \E c \in Clients : ShutdownSwept(c) \/ ShutdownNext(c) \/ OnRead(c) \/ OnWrite(c)
         \/ ObtainIdleConnections \/ ObtainInterrupted
         \/ AcceptFails \/ AcceptInterrupted \/ EventsDone
         \/ ScheduleExecutionRunnable \/ MarkRunnersStatusToInProgress
         \/ EraseCompletedRunners \/ TestExit
         \/ Stop \/ CloseMainConnection \/ JoinAllThreads \/ ThreadsJoined
  PROVE  LifeStep
<1> USE DEF netVars, sockVars, descrVars, controlVars, Goto, Throw, At, Stopping
<1> SUFFICES UNCHANGED <<accepted, table, state, outbox, backlog>> /\ (Stopping => Stopping')
  BY LifeFrame
<1>1. CASE StartListening \/ StartListeningFails \/ StartThreadPool \/ TestForClose \/ SweepDone
  BY <1>1 DEF StartListening, StartListeningFails, StartThreadPool, TestForClose, SweepDone
<1>2. ASSUME NEW c \in Clients, ShutdownSwept(c) \/ ShutdownNext(c) \/ OnRead(c) \/ OnWrite(c)
      PROVE  UNCHANGED <<accepted, table, state, outbox, backlog>> /\ (Stopping => Stopping')
  BY <1>2 DEF ShutdownSwept, ShutdownNext, OnRead, OnWrite
<1>3. CASE ObtainIdleConnections \/ ObtainInterrupted \/ AcceptFails \/ AcceptInterrupted \/ EventsDone
  BY <1>3 DEF ObtainIdleConnections, ObtainInterrupted, AcceptFails, AcceptInterrupted, EventsDone
<1>4. CASE ScheduleExecutionRunnable \/ MarkRunnersStatusToInProgress \/ EraseCompletedRunners \/ TestExit
  BY <1>4 DEF ScheduleExecutionRunnable, MarkRunnersStatusToInProgress, EraseCompletedRunners, TestExit
<1>5. CASE Stop \/ CloseMainConnection \/ JoinAllThreads \/ ThreadsJoined
  BY <1>5 DEF Stop, CloseMainConnection, JoinAllThreads, ThreadsJoined
<1> QED
  BY <1>1, <1>2, <1>3, <1>4, <1>5

\* An accepted connection leaves the backlog, and none is accepted by a server
\* that stops.
LEMMA LifeAccept ==
  ASSUME AnsInv, Unwinds, AcceptNewConnection
  PROVE  LifeStep
<1>0. PICK h : h = Head(backlog)
  OBVIOUS
<1>1. backlog \in Seq(Clients) /\ backlog # <<>> /\ h \in Clients /\ backlog' = Tail(backlog)
  BY <1>0, BacklogHead
     DEF AcceptNewConnection, AnsInv, OwnInv, TypeInv, TypeOK, ConnectionsTypeOK
<1>2. Range(backlog) = {h} \cup Range(backlog)' /\ h \notin Range(backlog)'
  BY <1>0, <1>1, TailRange DEF AnsInv, OwnInv, Ownership, ArrivesOnce
<1>3. /\ accepted' = accepted \cup {h} /\ table' = table \cup {h}
      /\ state \in [Clients -> HttpConnectionState] /\ state' = [state EXCEPT ![h] = "CNeedRequest"]
      /\ UNCHANGED <<outbox, pc, unwinding>> /\ ~Stopping
  BY <1>0 DEF AcceptNewConnection, AcceptDescriptor, controlVars, At, Unwinds, Stopping,
              AnsInv, OwnInv, TypeInv, TypeOK, ConnectionsTypeOK
<1>4. Phase(h) = "waiting"
  BY <1>1, <1>2, Phases
<1>5. Phase(h)' = "open"
  BY <1>1, <1>3 DEF Phase
<1>6. \A d \in Clients \ {h} : Phase(d)' = Phase(d)
  BY <1>2, <1>3 DEF Phase
<1> QED
  BY <1>1, <1>3, <1>4, <1>5, <1>6, LifeMove

\* Reading a request, answering it and asking for the close are the steps of a
\* worker that matter to the connection; they change nothing once it is gone.
LEMMA LifeWorker ==
  ASSUME AnsInv, NEW w \in Workers, Worker(w)
  PROVE  LifeStep
<1> USE DEF UnchangedByWorkers, Working, WGoto, Die
<1>1. PICK c : c = wtask[w].conn
  OBVIOUS
<1>2. /\ state \in [Clients -> HttpConnectionState] /\ outbox \in [Clients -> Nat]
      /\ UNCHANGED <<accepted, table, backlog, pc, unwinding>> /\ (Stopping => Stopping')
  BY DEF Worker, TestJoinFlag, TryPop, ReadLookup, Recv, StoreRequest, WriteLookup, Respond,
         SendResponse, SetNeedClose, OnFinished, PushDone, Stopping,
         AnsInv, OwnInv, TypeInv, TypeOK, ConnectionsTypeOK
<1>3. wpc[w] \in BusyAtWork => c \in Clients \cap accepted /\ Staged(w) /\ Progress(c)
  BY <1>1, Alone DEF AnsInv, Answering
<1>4. CASE UNCHANGED <<state, outbox>>
  BY <1>2, <1>4, LifeFrame
<1>5. CASE StoreRequest(w) /\ HasDescriptor(c)
  <2>1. /\ wpc[w] = "store" /\ outbox' = outbox /\ c \in table
        /\ state' = [state EXCEPT ![c] = "CNeedResponse"]
    BY <1>1, <1>5 DEF StoreRequest, HasDescriptor
  <2>2. c \in Clients \cap accepted /\ state[c] = "CNeedRequest"
    BY <1>1, <1>3, <2>1 DEF BusyAtWork, BusySteps, WorkerSteps, Staged, Reading
  <2>3. Phase(c) = "open"
    BY <2>1, <2>2, Phases
  <2>4. Phase(c)' = "asked" /\ \A d \in Clients \ {c} : Phase(d)' = Phase(d)
    BY <1>2, <2>1, <2>2 DEF Phase
  <2> QED
    BY <1>2, <2>1, <2>2, <2>3, <2>4, LifeMove
<1>6. CASE SendResponse(w) /\ ~SendFails(c)
  <2>1. wpc[w] = "send" /\ state' = state /\ outbox' = [outbox EXCEPT ![c] = @ + 1]
    BY <1>1, <1>6 DEF SendResponse
  <2>2. c \in Clients \cap accepted /\ state[c] = "CNeedResponse" /\ outbox[c] = 0
    BY <1>1, <1>3, <2>1 DEF BusyAtWork, BusySteps, WorkerSteps, Staged, Writing
  <2>3. Phase(c) \in {"asked", "gone"}
    BY <2>2, Phases
  <2>4. [d \in Clients |-> Phase(d)]' = [d \in Clients |-> Phase(d)]
    BY <1>2, <2>1 DEF Phase
  <2>5. outbox' = [outbox EXCEPT ![c] = 1] /\ Stopping' = Stopping
    BY <1>2, <2>1, <2>2 DEF Stopping
  <2>6. Life!Reply(c)
    BY <2>2, <2>3, <2>4, <2>5 DEF Life!Reply
  <2> QED
    BY <2>2, <2>6 DEF LifeStep, Life!LifeNext
<1>7. CASE SetNeedClose(w)
  <2>1. wpc[w] = "setClose" /\ outbox' = outbox /\ state' = [state EXCEPT ![c] = "CNeedClose"]
    BY <1>1, <1>7 DEF SetNeedClose
  <2>2. c \in Clients \cap accepted /\ state[c] = "CNeedResponse" /\ outbox[c] = 1
    BY <1>1, <1>3, <2>1 DEF BusyAtWork, BusySteps, WorkerSteps, Staged, HasSent
  <2>3. \A d \in Clients \ {c} : Phase(d)' = Phase(d)
    BY <1>2, <2>1, <2>2 DEF Phase
  <2>4. CASE c \in table
    <3>1. Phase(c) = "asked"
      BY <2>2, <2>4, Phases
    <3>2. Phase(c)' = "answered"
      BY <1>2, <2>1, <2>2, <2>4 DEF Phase
    <3> QED
      BY <1>2, <2>1, <2>2, <2>3, <3>1, <3>2, LifeMove
  <2>5. CASE c \notin table
    <3>1. Phase(c)' = Phase(c)
      BY <1>2, <2>2, <2>5 DEF Phase
    <3>2. [d \in Clients |-> Phase(d)]' = [d \in Clients |-> Phase(d)]
      BY <2>3, <3>1
    <3> QED
      BY <1>2, <2>1, <3>2 DEF LifeStep, Life!lifeVars, Stopping
  <2> QED
    BY <2>4, <2>5
<1>8. CASE TestJoinFlag(w) \/ TryPop(w) \/ ReadLookup(w) \/ Recv(w) \/ WriteLookup(w) \/ Respond(w)
           \/ OnFinished(w) \/ PushDone(w)
  <2>1. UNCHANGED <<state, outbox>>
    BY <1>8 DEF TestJoinFlag, TryPop, ReadLookup, Recv, WriteLookup, Respond, OnFinished, PushDone
  <2> QED
    BY <1>4, <2>1
<1> QED
  BY <1>1, <1>4, <1>5, <1>6, <1>7, <1>8 DEF Worker, StoreRequest, SendResponse

\* A client that connects waits in the backlog; what else it does is not seen.
LEMMA LifeEnvironment ==
  ASSUME AnsInv, ReceiveSignal \/ UNCHANGED vars \/ \E c \in Clients : Client(c)
  PROVE  LifeStep
<1> USE DEF netVars, sockVars, descrVars, controlVars, Stopping
<1>1. CASE ReceiveSignal \/ UNCHANGED vars
  BY <1>1, LifeFrame DEF ReceiveSignal, vars
<1>2. ASSUME NEW c \in Clients, Client(c) PROVE LifeStep
  <2>1. UNCHANGED <<accepted, table, state, outbox, pc, unwinding>>
    BY <1>2 DEF Client, UnchangedByClients, ClientConnects, ClientSends, ClientCloses, ClientResets,
                Connect, Send, Close, Reset
  <2>2. CASE backlog' = backlog
    BY <2>1, <2>2, LifeFrame
  <2>3. CASE Connect(c)
    <3>1. peer[c] = "absent" /\ backlog' = Append(backlog, c) /\ backlog \in Seq(Clients)
      BY <2>3 DEF Connect, AnsInv, OwnInv, TypeInv, TypeOK, ConnectionsTypeOK
    <3>2. Range(backlog)' = Range(backlog) \cup {c}
      BY <3>1, AppendRange
    <3>3. c \notin Range(backlog) \cup accepted
      BY <3>1 DEF AnsInv, OwnInv, Ownership, ArrivesOnce
    <3>4. Phase(c) = "none"
      BY <3>3, Phases
    <3>5. Phase(c)' = "waiting" /\ \A d \in Clients \ {c} : Phase(d)' = Phase(d)
      <4>1. c \notin accepted' /\ c \notin table' /\ c \in Range(backlog)'
        BY <2>1, <3>2, <3>3 DEF AnsInv, OwnInv, Ownership, ArrivesOnce
      <4>2. \A d \in Clients \ {c} : d \in Range(backlog)' <=> d \in Range(backlog)
        BY <3>2
      <4> QED
        BY <2>1, <4>1, <4>2 DEF Phase
    <3> QED
      BY <2>1, <3>4, <3>5, LifeMove
  <2> QED
    BY <1>2, <2>2, <2>3
       DEF Client, ClientConnects, ClientSends, ClientCloses, ClientResets, Send, Close, Reset
<1> QED
  BY <1>1, <1>2

\* An initial state of the server is one of ConnectionLife.
LEMMA InitLives == Init => Life!LifeInit
<1> SUFFICES ASSUME Init PROVE Life!LifeInit
  OBVIOUS
<1>1. backlog = <<>> /\ accepted = {} /\ table = {} /\ outbox = [c \in Clients |-> 0] /\ ~Stopping
  BY DEF Init, ConnectionsInit, Stopping
<1>2. Range(backlog) = {}
  BY <1>1 DEF Range
<1>3. ASSUME NEW c \in Clients PROVE Phase(c) = "none"
  <2>1. c \notin accepted /\ c \notin table /\ c \notin Range(backlog)
    BY <1>1, <1>2
  <2> QED
    BY <2>1 DEF Phase
<1> QED
  BY <1>1, <1>3 DEF Life!LifeInit, Stopping

\* Each step of the server is a step of ConnectionLife or leaves its variables alone.
LEMMA NextLives == AnsInv /\ Unwinds /\ [Next]_vars => [Life!LifeNext]_(Life!lifeVars)
<1> SUFFICES ASSUME AnsInv, Unwinds, [Next]_vars PROVE LifeStep
  BY DEF LifeStep
<1> QED
  BY LifeMain, LifeAccept, LifeRelease, LifeWorker, LifeEnvironment DEF Next, Main, Ended

\* Each connection is accepted, read, answered once and closed after that, or
\* abandoned by a server that stops, whatever the threads, the clients and the
\* faults do (ImplementsLife; server.cpp, serverRunnable.cpp, httpServer.cpp).
THEOREM ServerImplementsLife == Spec => ImplementsLife
<1>1. Init => Unwinds
  BY DEF Init, Unwinds
<1>2. Spec => []Unwinds
  BY <1>1, UnwindsStep, PTL DEF Spec
<1> QED
  BY <1>2, AnswersInvariant, InitLives, NextLives, PTL DEF Spec, ImplementsLife, Life!LifeSpec

\* A connection that is gone while the server runs was answered, and none is
\* answered twice (AnsweredBeforeGone, server.cpp:81-90).
THEOREM AnsweredBeforeGoneCorrect == Spec => []AnsweredBeforeGone
<1>1. AnsInv => AnsweredBeforeGone
  <2> SUFFICES ASSUME AnsInv, NEW c \in Clients
               PROVE  /\ outbox[c] <= 1
                      /\ ~Stopping /\ Phase(c) = "gone" => outbox[c] = 1
    BY DEF AnsweredBeforeGone, Life!GoneAnswered
  <2>1. Progress(c) /\ Swept(c)
    BY DEF AnsInv, Answering
  <2> QED
    BY <2>1, Phases DEF Progress, Swept
<1> QED
  BY <1>1, AnswersInvariant, PTL
=============================================================================
