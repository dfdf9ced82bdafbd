--------------------------- MODULE QueueSafeProofs ---------------------------
(***************************************************************************)
(* Proofs about QueueSafe: its mutex protects what it should, it           *)
(* implements an atomic queue, and no wake-up is lost.                     *)
(***************************************************************************)
EXTENDS QueueSafe, FiniteSetTheorems, TLAPS

Holding == {"locked", "front", "pop", "unlock"}

\* The mutex is held in the body of an operation and nowhere else.
MutexInv == \A t \in Threads : pc[t] \in Holding <=> mutex = t

\* Which operation is where, and what it has taken there.
PlaceInv ==
  \A t \in Threads :
    /\ pc[t] \in {"front", "pop"} => op[t] \in {"TryPop", "Pop_WithWait"}
    /\ pc[t] \in {"asleep", "woken"} => op[t] = "Pop_WithWait"
    /\ pc[t] = "notify" => op[t] = "Push"
    /\ pc[t] \in {"lock", "locked", "front", "asleep", "woken"} => item[t] = <<>>

\* TakesWhatItSaw is inductive with the mutex and the places of the threads.
Inv == TypeOK /\ MutexInv /\ PlaceInv /\ TakesWhatItSaw

\* The head and the tail of a queue that is not empty.
LEMMA HeadTail ==
  ASSUME NEW S, NEW s \in Seq(S), s # <<>>
  PROVE  Head(s) \in S /\ Tail(s) \in Seq(S) /\ Len(Tail(s)) = Len(s) - 1 /\ Len(s) \in Nat
  OBVIOUS

\* The queue is empty and nobody is in it.
LEMMA InitInv == Init => Inv
  <1>1. \A x \in {<<>>} : x \in Seq(Items)
    OBVIOUS
  <1>2. QED
    BY <1>1, QueueAssumption
    DEF Init, Inv, TypeOK, MutexInv, PlaceInv, TakesWhatItSaw, Holding, Steps, Operations

\* A thread outside the queue calls an operation.
LEMMA CallInv ==
  ASSUME Inv, NEW t \in Threads, NEW o \in Operations,
         NEW s \in {<<>>} \cup {<<x>> : x \in Items}, unused' \in SUBSET Items, Call(t, o, s)
  PROVE  Inv'
  <1>1. TypeOK'
    BY DEF Inv, TypeOK, Call, Goto, Steps
  <1>2. MutexInv'
    BY DEF Inv, TypeOK, MutexInv, Holding, Call, Goto
  <1>3. PlaceInv'
    BY DEF Inv, TypeOK, PlaceInv, Call, Goto
  <1>4. TakesWhatItSaw'
    BY DEF Inv, TypeOK, TakesWhatItSaw, Call, Goto
  <1>5. QED
    BY <1>1, <1>2, <1>3, <1>4 DEF Inv

\* A step that takes a thread from one place to another and leaves the queue,
\* the operations and the results alone.
LEMMA MoveInv ==
  ASSUME Inv, NEW t \in Threads, NEW step \in Steps, Goto(t, step),
         UNCHANGED <<queue, unused, op, arg, item>>,
         mutex' \in Threads \cup {Free},
         MutexInv',
         step = "front" => queue # <<>> /\ op[t] \in {"TryPop", "Pop_WithWait"} /\ item[t] = <<>>,
         step # "pop",
         step \in {"asleep", "woken"} => op[t] = "Pop_WithWait" /\ item[t] = <<>>,
         step = "notify" => op[t] = "Push",
         step \in {"lock", "locked"} => item[t] = <<>>
  PROVE  Inv'
  <1>1. TypeOK'
    BY DEF Inv, TypeOK, Goto
  <1>2. PlaceInv'
    BY DEF Inv, TypeOK, PlaceInv, Goto
  <1>3. TakesWhatItSaw'
    BY DEF Inv, TypeOK, TakesWhatItSaw, Goto
  <1>4. QED
    BY <1>1, <1>2, <1>3 DEF Inv

\* A step of the holder of the mutex that changes the queue or its own result.
LEMMA BodyInv ==
  ASSUME Inv, NEW t \in Threads, pc[t] \in Holding,
         NEW step \in {"pop", "unlock"}, Goto(t, step),
         queue' \in Seq(Items),
         NEW taken \in Seq(Items), item' = [item EXCEPT ![t] = taken],
         step = "pop" => queue' # <<>> /\ taken = <<Head(queue')>>
                         /\ op[t] \in {"TryPop", "Pop_WithWait"},
         UNCHANGED <<mutex, unused, op, arg>>
  PROVE  Inv'
  <1>1. TypeOK'
    BY DEF Inv, TypeOK, Goto, Steps
  <1>2. MutexInv'
    BY DEF Inv, TypeOK, MutexInv, Holding, Goto
  <1>3. PlaceInv'
    BY DEF Inv, TypeOK, PlaceInv, Goto
  <1>4. TakesWhatItSaw'
    BY DEF Inv, TypeOK, TakesWhatItSaw, MutexInv, Holding, Goto
  <1>5. QED
    BY <1>1, <1>2, <1>3, <1>4 DEF Inv

\* Inv is inductive.
LEMMA NextInv == Inv /\ [Next]_vars => Inv'
  <1> SUFFICES ASSUME Inv, [Next]_vars PROVE Inv'
    OBVIOUS
  <1>1. ASSUME NEW t \in Threads, NEW x \in Items, CallPush(t, x) PROVE Inv'
    <2>1. <<x>> \in {<<>>} \cup {<<y>> : y \in Items} /\ unused' \in SUBSET Items
      BY <1>1 DEF CallPush, Inv, TypeOK
    <2>2. QED
      BY <1>1, <2>1, CallInv DEF CallPush, Operations
  <1>2. ASSUME NEW t \in Threads, NEW o \in Operations, CallPop(t, o) PROVE Inv'
    <2>1. <<>> \in {<<>>} \cup {<<y>> : y \in Items} /\ unused' \in SUBSET Items
      BY <1>2 DEF CallPop, Inv, TypeOK
    <2>2. QED
      BY <1>2, <2>1, CallInv DEF CallPop
  <1>3. ASSUME NEW t \in Threads, Lock(t) PROVE Inv'
    <2>1. MutexInv'
      BY <1>3, QueueAssumption DEF Inv, TypeOK, MutexInv, Holding, Lock, Goto
    <2>2. item[t] = <<>>
      BY <1>3 DEF Inv, PlaceInv, Lock
    <2>3. mutex' \in Threads \cup {Free} /\ "locked" \in Steps
      BY <1>3 DEF Lock, Steps
    <2>4. QED
      BY <1>3, <2>1, <2>2, <2>3, MoveInv DEF Lock
  <1>4. ASSUME NEW t \in Threads, Push(t) PROVE Inv'
    <2>1. queue' \in Seq(Items)
      <3>1. queue \in Seq(Items) /\ arg[t] \in {<<>>} \cup {<<x>> : x \in Items}
        BY DEF Inv, TypeOK
      <3>2. CASE arg[t] = <<>>
        BY <1>4, <3>1, <3>2 DEF Push
      <3>3. ASSUME NEW x \in Items, arg[t] = <<x>> PROVE queue' \in Seq(Items)
        BY <1>4, <3>1, <3>3 DEF Push
      <3>4. QED
        BY <3>1, <3>2, <3>3
    <2>2. item' = [item EXCEPT ![t] = item[t]] /\ item[t] \in Seq(Items)
      BY <1>4 DEF Push, Inv, TypeOK
    <2>3. QED
      BY <1>4, <2>1, <2>2, BodyInv DEF Push, Holding
  <1>5. ASSUME NEW t \in Threads, TestNotEmpty(t) PROVE Inv'
    <2>1. MutexInv'
      BY <1>5 DEF Inv, TypeOK, MutexInv, Holding, TestNotEmpty, Goto
    <2>2. item[t] = <<>>
      BY <1>5 DEF Inv, PlaceInv, TestNotEmpty
    <2>3. mutex' \in Threads \cup {Free} /\ "front" \in Steps
      BY <1>5 DEF TestNotEmpty, Steps, Inv, TypeOK
    <2>4. QED
      BY <1>5, <2>1, <2>2, <2>3, MoveInv DEF TestNotEmpty
  <1>6. ASSUME NEW t \in Threads, TryPopFails(t) PROVE Inv'
    <2>1. MutexInv'
      BY <1>6 DEF Inv, TypeOK, MutexInv, Holding, TryPopFails, Goto
    <2>2. mutex' \in Threads \cup {Free} /\ "unlock" \in Steps
      BY <1>6 DEF TryPopFails, Steps, Inv, TypeOK
    <2>3. QED
      BY <1>6, <2>1, <2>2, MoveInv DEF TryPopFails
  <1>7. ASSUME NEW t \in Threads, Wait(t) PROVE Inv'
    <2>1. MutexInv'
      BY <1>7, QueueAssumption DEF Inv, TypeOK, MutexInv, Holding, Wait, Goto
    <2>2. item[t] = <<>>
      BY <1>7 DEF Inv, PlaceInv, Wait
    <2>3. mutex' \in Threads \cup {Free} /\ "asleep" \in Steps
      BY <1>7 DEF Wait, Steps
    <2>4. QED
      BY <1>7, <2>1, <2>2, <2>3, MoveInv DEF Wait
  <1>8. ASSUME NEW t \in Threads, Front(t) PROVE Inv'
    <2>1. queue # <<>> /\ queue \in Seq(Items) /\ op[t] \in {"TryPop", "Pop_WithWait"}
      BY <1>8 DEF Front, Inv, TakesWhatItSaw, PlaceInv, TypeOK
    <2>2. <<Head(queue)>> \in Seq(Items)
      BY <2>1, HeadTail
    <2>3. QED
      BY <1>8, <2>1, <2>2, BodyInv DEF Front, Holding
  <1>9. ASSUME NEW t \in Threads, Pop(t) PROVE Inv'
    <2>1. queue # <<>> /\ queue \in Seq(Items)
      BY <1>9 DEF Pop, Inv, TakesWhatItSaw, TypeOK
    <2>2. queue' \in Seq(Items)
      BY <1>9, <2>1, HeadTail DEF Pop
    <2>3. item' = [item EXCEPT ![t] = item[t]] /\ item[t] \in Seq(Items)
      BY <1>9 DEF Pop, Inv, TypeOK
    <2>4. QED
      BY <1>9, <2>2, <2>3, BodyInv DEF Pop, Holding
  <1>10. ASSUME NEW t \in Threads, PopAll(t) PROVE Inv'
    <2>1. queue' \in Seq(Items) /\ queue \in Seq(Items)
      BY <1>10 DEF PopAll, Inv, TypeOK
    <2>2. QED
      BY <1>10, <2>1, BodyInv DEF PopAll, Holding
  <1>11. ASSUME NEW t \in Threads, Unlock(t) PROVE Inv'
    <2>1. MutexInv'
      BY <1>11, QueueAssumption DEF Inv, TypeOK, MutexInv, Holding, Unlock, Goto
    <2>2. mutex' \in Threads \cup {Free}
      BY <1>11 DEF Unlock
    <2>3. CASE op[t] = "Push"
      <3>1. Goto(t, "notify") /\ "notify" \in Steps
        BY <1>11, <2>3 DEF Unlock, Steps
      <3>2. QED
        BY <1>11, <2>1, <2>2, <2>3, <3>1, MoveInv DEF Unlock
    <2>4. CASE op[t] # "Push"
      <3>1. Goto(t, "return") /\ "return" \in Steps
        BY <1>11, <2>4 DEF Unlock, Steps
      <3>2. QED
        BY <1>11, <2>1, <2>2, <3>1, MoveInv DEF Unlock
    <2>5. QED
      BY <2>3, <2>4
  <1>12. ASSUME NEW t \in Threads, NotifyOne(t) PROVE Inv'
    <2>1. UNCHANGED <<queue, mutex, unused, op, arg, item>> /\ pc[t] = "notify"
      BY <1>12 DEF NotifyOne
    <2>2. ASSUME NEW s \in Sleeping, pc' = [pc EXCEPT ![t] = "return", ![s] = "woken"]
          PROVE  Inv'
      <3>1. s \in Threads /\ pc[s] = "asleep" /\ s # t
        BY <2>1, <2>2 DEF Sleeping
      <3>2. TypeOK'
        BY <2>1, <2>2 DEF Inv, TypeOK, Steps
      <3>3. MutexInv'
        BY <2>1, <2>2, <3>1 DEF Inv, TypeOK, MutexInv, Holding
      <3>4. PlaceInv'
        BY <2>1, <2>2, <3>1 DEF Inv, TypeOK, PlaceInv
      <3>5. TakesWhatItSaw'
        BY <2>1, <2>2, <3>1 DEF Inv, TypeOK, TakesWhatItSaw
      <3>6. QED
        BY <3>2, <3>3, <3>4, <3>5 DEF Inv
    <2>3. ASSUME Goto(t, "return") PROVE Inv'
      <3>1. MutexInv'
        BY <2>1, <2>3 DEF Inv, TypeOK, MutexInv, Holding, Goto
      <3>2. mutex' \in Threads \cup {Free} /\ "return" \in Steps
        BY <2>1 DEF Steps, Inv, TypeOK
      <3>3. QED
        BY <2>1, <2>3, <3>1, <3>2, MoveInv
    <2>4. QED
      BY <1>12, <2>2, <2>3 DEF NotifyOne
  <1>13. ASSUME NEW t \in Threads, Return(t) PROVE Inv'
    <2>1. MutexInv'
      BY <1>13 DEF Inv, TypeOK, MutexInv, Holding, Return, Goto
    <2>2. mutex' \in Threads \cup {Free} /\ "idle" \in Steps
      BY <1>13 DEF Return, Steps, Inv, TypeOK
    <2>3. QED
      BY <1>13, <2>1, <2>2, MoveInv DEF Return
  <1>14. ASSUME NEW t \in Threads, WakeSpuriously(t) PROVE Inv'
    <2>1. MutexInv'
      BY <1>14 DEF Inv, TypeOK, MutexInv, Holding, WakeSpuriously, Goto
    <2>2. op[t] = "Pop_WithWait" /\ item[t] = <<>>
      BY <1>14 DEF WakeSpuriously, Inv, PlaceInv
    <2>3. mutex' \in Threads \cup {Free} /\ "woken" \in Steps
      BY <1>14 DEF WakeSpuriously, Steps, Inv, TypeOK
    <2>4. QED
      BY <1>14, <2>1, <2>2, <2>3, MoveInv DEF WakeSpuriously
  <1>15. CASE UNCHANGED vars
    BY <1>15 DEF vars, Inv, TypeOK, MutexInv, PlaceInv, TakesWhatItSaw
  <1>16. QED
    BY <1>1, <1>2, <1>3, <1>4, <1>5, <1>6, <1>7, <1>8, <1>9, <1>10, <1>11, <1>12, <1>13,
       <1>14, <1>15
    DEF Next, Progress

\* Inv holds in every state.
LEMMA Invariance == Spec => []Inv
  BY InitInv, NextInv, PTL DEF Spec

\* The queue a thread pops is the one it has tested, and what it returns is what
\* it removes, whatever the other threads do between its statements.
THEOREM TakesWhatItSawCorrect == Spec => []TakesWhatItSaw
  <1>1. Inv => TakesWhatItSaw
    BY DEF Inv
  <1>2. QED
    BY <1>1, Invariance, PTL
-----------------------------------------------------------------------------
(* The implementation of AtomicQueue.                                      *)

stages == [t \in Threads |-> Stage(t)]
results == [t \in Threads |-> IF pc[t] = "pop" THEN <<>> ELSE item[t]]

\* An initial state is one of AtomicQueue.
LEMMA InitRefines == Init => Atomic!QueueInit
  BY DEF Init, Atomic!QueueInit, Stage

\* A step that moves one thread within one stage, or two as NotifyOne does, is a
\* stutter of the abstract queue.
LEMMA Stutter ==
  ASSUME UNCHANGED <<queue, unused, op, arg>>,
         \A t \in Threads : Stage(t)' = Stage(t),
         \A t \in Threads : results'[t] = results[t]
  PROVE  UNCHANGED Atomic!queueVars
  <1>1. stages' = stages /\ results' = results
    BY DEF stages, results
  <1>2. QED
    BY <1>1 DEF Atomic!queueVars, stages, results

\* The step in which an operation of the abstract queue takes effect.
LEMMA EffectRefines ==
  ASSUME Inv, NEW t \in Threads, pc[t] \in {"locked", "pop"}, Goto(t, "unlock"),
         NEW o \in Operations, op[t] = o,
         NEW taken, taken \in Seq(Items),
         item' = [item EXCEPT ![t] = taken],
         UNCHANGED <<unused, op, arg>>
  PROVE  Atomic!Effect(t, o, taken, queue')
  <1>1. stages[t] = "called" /\ stages' = [stages EXCEPT ![t] = "done"]
    BY DEF stages, Stage, Goto, Inv, TypeOK
  <1>2. results' = [results EXCEPT ![t] = taken]
    BY DEF results, Goto, Inv, TypeOK
  <1>3. QED
    BY <1>1, <1>2 DEF Atomic!Effect, stages, results

\* A call of QueueSafe is the start of an operation of AtomicQueue.
LEMMA StartRefines ==
  ASSUME Inv, NEW t \in Threads, NEW o, NEW s, Call(t, o, s)
  PROVE  Atomic!Start(t, o, s)
  <1>1. stages[t] = "idle" /\ stages' = [stages EXCEPT ![t] = "called"]
    BY DEF stages, Stage, Goto, Call, Inv, TypeOK
  <1>2. results' = [results EXCEPT ![t] = <<>>]
    BY DEF results, Goto, Call, Inv, TypeOK
  <1>3. QED
    BY <1>1, <1>2 DEF Atomic!Start, stages, results, Call

\* Each step of QueueSafe is a step of AtomicQueue or leaves its variables alone.
LEMMA NextRefines == Inv /\ [Next]_vars => [Atomic!QueueNext]_(Atomic!queueVars)
  <1> SUFFICES ASSUME Inv, [Next]_vars PROVE Atomic!QueueNext \/ UNCHANGED Atomic!queueVars
    OBVIOUS
  <1>1. ASSUME NEW t \in Threads, NEW x \in Items, CallPush(t, x) PROVE Atomic!QueueNext
    <2>1. Atomic!StartPush(t, x)
      BY <1>1, StartRefines DEF CallPush, Atomic!StartPush
    <2>2. QED
      BY <2>1 DEF Atomic!QueueNext
  <1>2. ASSUME NEW t \in Threads, NEW o \in Operations, CallPop(t, o) PROVE Atomic!QueueNext
    <2>1. Atomic!StartPop(t, o)
      BY <1>2, StartRefines DEF CallPop, Atomic!StartPop
    <2>2. QED
      BY <2>1 DEF Atomic!QueueNext, Atomic!Operations, Operations
  <1>3. ASSUME NEW t \in Threads, Push(t) PROVE Atomic!QueueNext
    <2>1. item[t] = <<>> /\ <<>> \in Seq(Items) /\ item' = [item EXCEPT ![t] = <<>>]
      BY <1>3 DEF Push, Inv, PlaceInv, TypeOK
    <2>2. Atomic!Effect(t, "Push", <<>>, queue')
      BY <1>3, <2>1, EffectRefines DEF Push, Operations
    <2>3. Atomic!Push(t)
      BY <1>3, <2>2 DEF Push, Atomic!Push, Atomic!Effect
    <2>4. QED
      BY <2>3 DEF Atomic!QueueNext
  <1>4. ASSUME NEW t \in Threads, TryPopFails(t) PROVE Atomic!QueueNext
    <2>1. item[t] = <<>> /\ <<>> \in Seq(Items) /\ item' = [item EXCEPT ![t] = <<>>]
      BY <1>4 DEF TryPopFails, Inv, PlaceInv, TypeOK
    <2>2. Atomic!Effect(t, "TryPop", <<>>, queue')
      BY <1>4, <2>1, EffectRefines DEF TryPopFails, Operations
    <2>3. Atomic!PopNothing(t)
      BY <1>4, <2>2 DEF TryPopFails, Atomic!PopNothing, Atomic!Effect
    <2>4. QED
      BY <2>3 DEF Atomic!QueueNext
  <1>5. ASSUME NEW t \in Threads, Pop(t) PROVE Atomic!QueueNext
    <2>1. queue # <<>> /\ item[t] = <<Head(queue)>> /\ item[t] \in Seq(Items)
      BY <1>5 DEF Pop, Inv, TakesWhatItSaw, TypeOK
    <2>2. op[t] \in {"TryPop", "Pop_WithWait"} /\ op[t] \in Operations
      BY <1>5 DEF Pop, Inv, PlaceInv, Operations
    <2>3. item' = [item EXCEPT ![t] = item[t]]
      BY <1>5 DEF Pop, Inv, TypeOK
    <2>4. Atomic!Effect(t, op[t], item[t], queue')
      BY <1>5, <2>1, <2>2, <2>3, EffectRefines DEF Pop
    <2>5. Atomic!PopOne(t)
      BY <1>5, <2>1, <2>2, <2>4 DEF Pop, Atomic!PopOne, Atomic!Effect
    <2>6. QED
      BY <2>5 DEF Atomic!QueueNext
  <1>6. ASSUME NEW t \in Threads, PopAll(t) PROVE Atomic!QueueNext
    <2>1. queue \in Seq(Items)
      BY DEF Inv, TypeOK
    <2>2. Atomic!Effect(t, "PopAll", queue, queue')
      BY <1>6, <2>1, EffectRefines DEF PopAll, Operations
    <2>3. Atomic!PopAll(t)
      BY <1>6, <2>2 DEF PopAll, Atomic!PopAll, Atomic!Effect
    <2>4. QED
      BY <2>3 DEF Atomic!QueueNext
  <1>7. ASSUME NEW t \in Threads, Return(t) PROVE Atomic!QueueNext
    <2>1. stages[t] = "done" /\ stages' = [stages EXCEPT ![t] = "idle"]
      BY <1>7 DEF stages, Stage, Goto, Return, Inv, TypeOK
    <2>2. results' = results
      BY <1>7 DEF results, Goto, Return, Inv, TypeOK
    <2>3. Atomic!Return(t)
      BY <1>7, <2>1, <2>2 DEF Atomic!Return, stages, results, Return
    <2>4. QED
      BY <2>3 DEF Atomic!QueueNext
  <1>8. ASSUME NEW t \in Threads, Lock(t) \/ TestNotEmpty(t) \/ Wait(t) \/ WakeSpuriously(t)
        PROVE  UNCHANGED Atomic!queueVars
    <2>1. \A u \in Threads : Stage(u)' = Stage(u)
      BY <1>8 DEF Lock, TestNotEmpty, Wait, WakeSpuriously, Goto, Stage, Inv, TypeOK
    <2>2. \A u \in Threads : results'[u] = results[u]
      BY <1>8 DEF Lock, TestNotEmpty, Wait, WakeSpuriously, Goto, results, Inv, TypeOK
    <2>3. QED
      BY <1>8, <2>1, <2>2, Stutter DEF Lock, TestNotEmpty, Wait, WakeSpuriously
  <1>9. ASSUME NEW t \in Threads, Front(t) PROVE UNCHANGED Atomic!queueVars
    <2>1. \A u \in Threads : Stage(u)' = Stage(u)
      BY <1>9 DEF Front, Goto, Stage, Inv, TypeOK
    <2>2. \A u \in Threads : results'[u] = results[u]
      BY <1>9 DEF Front, Goto, results, Inv, TypeOK, PlaceInv
    <2>3. QED
      BY <1>9, <2>1, <2>2, Stutter DEF Front
  <1>10. ASSUME NEW t \in Threads, Unlock(t) PROVE UNCHANGED Atomic!queueVars
    <2>1. \A u \in Threads : Stage(u)' = Stage(u)
      BY <1>10 DEF Unlock, Goto, Stage, Inv, TypeOK
    <2>2. \A u \in Threads : results'[u] = results[u]
      BY <1>10 DEF Unlock, Goto, results, Inv, TypeOK
    <2>3. QED
      BY <1>10, <2>1, <2>2, Stutter DEF Unlock
  <1>11. ASSUME NEW t \in Threads, NotifyOne(t) PROVE UNCHANGED Atomic!queueVars
    <2>1. \A u \in Threads : Stage(u)' = Stage(u)
      BY <1>11 DEF NotifyOne, Sleeping, Goto, Stage, Inv, TypeOK
    <2>2. \A u \in Threads : results'[u] = results[u]
      BY <1>11 DEF NotifyOne, Sleeping, Goto, results, Inv, TypeOK
    <2>3. QED
      BY <1>11, <2>1, <2>2, Stutter DEF NotifyOne
  <1>12. CASE UNCHANGED vars
    <2>1. \A u \in Threads : Stage(u)' = Stage(u)
      BY <1>12 DEF vars, Stage
    <2>2. \A u \in Threads : results'[u] = results[u]
      BY <1>12 DEF vars, results
    <2>3. QED
      BY <1>12, <2>1, <2>2, Stutter DEF vars
  <1>13. QED
    BY <1>1, <1>2, <1>3, <1>4, <1>5, <1>6, <1>7, <1>8, <1>9, <1>10, <1>11, <1>12
    DEF Next, Progress

\* Each operation of QueueSafe appears to its users as one step.
THEOREM QueueImplementsAtomic == Spec => ImplementsAtomic
  <1>1. Spec => []Inv /\ Init /\ [][Next]_vars
    BY Invariance, PTL DEF Spec
  <1>2. QED
    BY <1>1, InitRefines, NextRefines, PTL DEF ImplementsAtomic, Atomic!QueueSpec
-----------------------------------------------------------------------------
(* No wake-up is lost.                                                     *)

\* The helpers can be counted.
LEMMA HelpersFinite == IsFiniteSet(Helpers) /\ Cardinality(Helpers) \in Nat
  <1>1. Helpers \subseteq Threads
    BY DEF Helpers
  <1>2. QED
    BY <1>1, QueueAssumption, FS_Subset, FS_CardinalityType

\* A step that loses no helper, adds no item and puts nobody to sleep.
LEMMA KeepsWakeups ==
  ASSUME Inv, NoLostWakeup, IsFiniteSet(Helpers'), Helpers \subseteq Helpers',
         Sleeping' \subseteq Sleeping, queue' = queue
  PROVE  NoLostWakeup'
  <1>1. Cardinality(Helpers) <= Cardinality(Helpers')
    BY FS_Subset
  <1>2. Cardinality(Helpers) \in Nat /\ Cardinality(Helpers') \in Nat
    BY FS_CardinalityType, HelpersFinite
  <1>3. Len(queue) \in Nat
    BY DEF Inv, TypeOK
  <1>4. QED
    BY <1>1, <1>2, <1>3 DEF NoLostWakeup

\* NoLostWakeup is inductive, given Inv.
LEMMA WakeupStep == Inv /\ Inv' /\ NoLostWakeup /\ [Next]_vars => NoLostWakeup'
  <1> SUFFICES ASSUME Inv, Inv', NoLostWakeup, [Next]_vars PROVE NoLostWakeup'
    OBVIOUS
  <1>f. IsFiniteSet(Helpers') /\ Cardinality(Helpers') \in Nat
    <2>1. Helpers' \subseteq Threads
      BY DEF Helpers
    <2>2. QED
      BY <2>1, QueueAssumption, FS_Subset, FS_CardinalityType
  <1>l. Len(queue) \in Nat /\ queue \in Seq(Items)
    BY DEF Inv, TypeOK
  <1>1. ASSUME NEW t \in Threads, NEW o \in Operations, NEW s, Call(t, o, s) PROVE NoLostWakeup'
    <2>1. Helpers \subseteq Helpers' /\ Sleeping' \subseteq Sleeping
      BY <1>1 DEF Call, Goto, Helpers, Sleeping, Inv, TypeOK
    <2>2. QED
      BY <1>1, <1>f, <2>1, KeepsWakeups DEF Call
  <1>2. ASSUME NEW t \in Threads,
               Lock(t) \/ TestNotEmpty(t) \/ TryPopFails(t) \/ Front(t) \/ Unlock(t) \/ Return(t)
               \/ WakeSpuriously(t)
        PROVE  NoLostWakeup'
    <2>1. Helpers \subseteq Helpers' /\ Sleeping' \subseteq Sleeping
      BY <1>2 DEF Lock, TestNotEmpty, TryPopFails, Front, Unlock, Return, WakeSpuriously,
                  Goto, Helpers, Sleeping, Inv, TypeOK, PlaceInv
    <2>2. queue' = queue
      BY <1>2 DEF Lock, TestNotEmpty, TryPopFails, Front, Unlock, Return, WakeSpuriously
    <2>3. QED
      BY <1>f, <2>1, <2>2, KeepsWakeups
  <1>3. ASSUME NEW t \in Threads, Push(t) PROVE NoLostWakeup'
    <2>1. t \notin Helpers /\ Helpers' = Helpers \cup {t} /\ Sleeping' = Sleeping
      BY <1>3 DEF Push, Goto, Helpers, Sleeping, Inv, TypeOK
    <2>2. Cardinality(Helpers') = Cardinality(Helpers) + 1
      BY <2>1, HelpersFinite, FS_AddElement
    <2>3. Len(queue') <= Len(queue) + 1
      <3>1. CASE arg[t] = <<>>
        BY <1>3, <1>l, <3>1 DEF Push
      <3>2. ASSUME NEW x \in Items, arg[t] = <<x>> PROVE Len(queue') <= Len(queue) + 1
        BY <1>3, <1>l, <3>2 DEF Push
      <3>3. QED
        BY <3>1, <3>2 DEF Inv, TypeOK
    <2>4. QED
      BY <2>1, <2>2, <2>3, <1>l, <1>f, HelpersFinite DEF NoLostWakeup
  <1>4. ASSUME NEW t \in Threads, Wait(t) \/ PopAll(t) PROVE NoLostWakeup'
    <2>1. queue' = <<>>
      BY <1>4 DEF Wait, PopAll
    <2>2. QED
      BY <2>1, <1>f DEF NoLostWakeup
  <1>5. ASSUME NEW t \in Threads, Pop(t) PROVE NoLostWakeup'
    <2>1. queue # <<>>
      BY <1>5 DEF Pop, Inv, TakesWhatItSaw
    <2>2. Len(queue') = Len(queue) - 1
      BY <1>5, <1>l, <2>1, HeadTail DEF Pop
    <2>3. Helpers \ {t} \subseteq Helpers' /\ Helpers' \subseteq Helpers
      BY <1>5 DEF Pop, Goto, Helpers, Inv, TypeOK, PlaceInv
    <2>4. Cardinality(Helpers') >= Cardinality(Helpers) - 1
      <3>1. IsFiniteSet(Helpers \ {t}) /\ Cardinality(Helpers \ {t}) >= Cardinality(Helpers) - 1
        <4>1. Cardinality(Helpers \ {t}) = IF t \in Helpers THEN Cardinality(Helpers) - 1 ELSE Cardinality(Helpers)
          BY HelpersFinite, FS_RemoveElement, Zenon
        <4>2. IsFiniteSet(Helpers \ {t})
          BY HelpersFinite, FS_RemoveElement, Zenon
        <4>3. QED
          BY <4>1, <4>2, HelpersFinite
      <3>2. Cardinality(Helpers \ {t}) <= Cardinality(Helpers')
        BY <2>3, <1>f, FS_Subset
      <3>3. QED
        BY <3>1, <3>2, <1>f, HelpersFinite, FS_CardinalityType
    <2>5. Sleeping' = Sleeping
      BY <1>5 DEF Pop, Goto, Sleeping, Inv, TypeOK
    <2>6. QED
      BY <2>2, <2>4, <2>5, <1>l, <1>f, HelpersFinite DEF NoLostWakeup
  <1>6. ASSUME NEW t \in Threads, NotifyOne(t) PROVE NoLostWakeup'
    <2>1. queue' = queue /\ pc[t] = "notify" /\ op' = op
      BY <1>6 DEF NotifyOne
    <2>2. CASE Sleeping = {}
      <3>1. Sleeping' = {}
        BY <1>6, <2>2 DEF NotifyOne, Goto, Sleeping, Inv, TypeOK
      <3>2. QED
        BY <3>1 DEF NoLostWakeup
    <2>3. ASSUME NEW s \in Sleeping, pc' = [pc EXCEPT ![t] = "return", ![s] = "woken"]
          PROVE  NoLostWakeup'
      <3>1. /\ s \in Threads /\ s # t /\ s \notin Helpers
            /\ t \in Helpers
        BY <2>1, <2>3 DEF Sleeping, Helpers, Inv, PlaceInv
      <3>2. Helpers' = (Helpers \ {t}) \cup {s}
        BY <2>1, <2>3, <3>1 DEF Sleeping, Helpers, Inv, TypeOK, PlaceInv
      <3>3. /\ IsFiniteSet(Helpers \ {t})
            /\ Cardinality(Helpers \ {t}) = Cardinality(Helpers) - 1
        BY <3>1, HelpersFinite, FS_RemoveElement
      <3>4. Cardinality(Helpers') = Cardinality(Helpers)
        <4>1. s \notin Helpers \ {t}
          BY <3>1
        <4>2. Cardinality((Helpers \ {t}) \cup {s}) = Cardinality(Helpers \ {t}) + 1
          BY <3>3, <4>1, FS_AddElement
        <4>3. QED
          BY <3>2, <3>3, <4>2, HelpersFinite
      <3>5. Sleeping # {}
        BY <2>3
      <3>6. QED
        BY <2>1, <3>4, <3>5 DEF NoLostWakeup
    <2>4. QED
      BY <1>6, <2>2, <2>3 DEF NotifyOne
  <1>7. CASE UNCHANGED vars
    BY <1>7 DEF vars, NoLostWakeup, Sleeping, Helpers
  <1>8. ASSUME NEW t \in Threads, NEW x \in Items, CallPush(t, x) PROVE NoLostWakeup'
    BY <1>1, <1>8 DEF CallPush, Operations
  <1>9. ASSUME NEW t \in Threads, NEW o \in Operations, CallPop(t, o) PROVE NoLostWakeup'
    BY <1>1, <1>9 DEF CallPop
  <1>10. QED
    BY <1>2, <1>3, <1>4, <1>5, <1>6, <1>7, <1>8, <1>9 DEF Next, Progress

\* While a thread sleeps beside items, as many threads are on their way to them:
\* notifying after the unlock, and testing again after a wake-up, is enough.
THEOREM NoLostWakeupCorrect == Spec => []NoLostWakeup
  <1>1. Init => NoLostWakeup
    BY DEF Init, NoLostWakeup, Sleeping
  <1>2. QED
    BY <1>1, WakeupStep, Invariance, PTL DEF Spec
=============================================================================
