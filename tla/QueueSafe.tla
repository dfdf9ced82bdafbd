------------------------------ MODULE QueueSafe ------------------------------
(***************************************************************************)
(* QueueSafe (thread_things/queueSafe.cpp), the queue between the main     *)
(* thread and the workers: std::queue, a mutex and a condition variable.   *)
(*                                                                         *)
(* Any thread may call any operation.  An item is pushed once, as the      *)
(* server pushes each runnable once into each of its two queues, so a run  *)
(* pushes Items at most.                                                   *)
(***************************************************************************)
EXTENDS Naturals, Sequences, FiniteSets

CONSTANTS
  Threads,   \* the threads that share the queue
  Items,     \* what they push
  Free       \* the owner of a mutex that nobody holds

ASSUME QueueAssumption ==
  /\ IsFiniteSet(Threads)
  /\ Free \notin Threads

VARIABLES
  queue,   \* _queue
  mutex,   \* the thread that holds _lock, or Free
  unused,  \* items not pushed yet
  pc,      \* thread -> where it is
  op,      \* thread -> the operation it executes, or executed last
  arg,     \* thread -> the item it pushes, in a sequence
  item     \* thread -> what it has taken: item, or ret in PopAll

vars == <<queue, mutex, unused, pc, op, arg, item>>

Operations == {"Push", "TryPop", "PopAll", "Pop_WithWait"}

\* "lock": before the mutex; "locked": the body; "front", "pop": the two
\* statements that take an item; "unlock"; "notify"; "return".
\* "asleep", "woken": in _cond_var.wait.
Steps == {"idle", "lock", "locked", "front", "pop", "unlock", "notify", "return",
          "asleep", "woken"}

Init ==
  /\ queue = <<>>
  /\ mutex = Free
  /\ unused = Items
  /\ pc = [t \in Threads |-> "idle"]
  /\ op = [t \in Threads |-> "TryPop"]
  /\ arg = [t \in Threads |-> <<>>]
  /\ item = [t \in Threads |-> <<>>]

Goto(t, step) == pc' = [pc EXCEPT ![t] = step]

Sleeping == {t \in Threads : pc[t] = "asleep"}

-----------------------------------------------------------------------------
Call(t, o, a) ==
  /\ pc[t] = "idle"
  /\ op' = [op EXCEPT ![t] = o]
  /\ arg' = [arg EXCEPT ![t] = a]
  /\ item' = [item EXCEPT ![t] = <<>>]
  /\ Goto(t, "lock")
  /\ UNCHANGED <<queue, mutex>>

CallPush(t, x) == x \in unused /\ unused' = unused \ {x} /\ Call(t, "Push", <<x>>)
CallPop(t, o) == o # "Push" /\ UNCHANGED unused /\ Call(t, o, <<>>)

\* A defect: TryPop looks at the queue without the mutex.
LockUnlessTryPop(t) ==
  /\ pc[t] \in {"lock", "woken"}
  /\ mutex = Free \/ op[t] = "TryPop"
  /\ mutex' = IF op[t] = "TryPop" THEN mutex ELSE t
  /\ Goto(t, "locked")
  /\ UNCHANGED <<queue, unused, op, arg, item>>

\* std::unique_lock, or the end of a wait.
Lock(t) ==
  /\ pc[t] \in {"lock", "woken"}
  /\ mutex = Free
  /\ mutex' = t
  /\ Goto(t, "locked")
  /\ UNCHANGED <<queue, unused, op, arg, item>>

Push(t) ==
  /\ pc[t] = "locked" /\ op[t] = "Push"
  /\ queue' = queue \o arg[t]
  /\ Goto(t, "unlock")
  /\ UNCHANGED <<mutex, unused, op, arg, item>>

\* if (_queue.size()) in TryPop, while (_queue.empty()) in Pop_WithWait.
TestNotEmpty(t) ==
  /\ pc[t] = "locked" /\ op[t] \in {"TryPop", "Pop_WithWait"}
  /\ queue # <<>>
  /\ Goto(t, "front")
  /\ UNCHANGED <<queue, mutex, unused, op, arg, item>>

\* TryPop returns false.
TryPopFails(t) ==
  /\ pc[t] = "locked" /\ op[t] = "TryPop"
  /\ queue = <<>>
  /\ Goto(t, "unlock")
  /\ UNCHANGED <<queue, mutex, unused, op, arg, item>>

\* _cond_var.wait(ulock): the mutex is released and the thread sleeps.
Wait(t) ==
  /\ pc[t] = "locked" /\ op[t] = "Pop_WithWait"
  /\ queue = <<>>
  /\ mutex' = Free
  /\ Goto(t, "asleep")
  /\ UNCHANGED <<queue, unused, op, arg, item>>

Front(t) ==
  /\ pc[t] = "front"
  /\ item' = [item EXCEPT ![t] = <<Head(queue)>>]
  /\ Goto(t, "pop")
  /\ UNCHANGED <<queue, mutex, unused, op, arg>>

Pop(t) ==
  /\ pc[t] = "pop"
  /\ queue' = Tail(queue)
  /\ Goto(t, "unlock")
  /\ UNCHANGED <<mutex, unused, op, arg, item>>

\* A defect: PopAll copies the queue and leaves it full.
CopyAll(t) ==
  /\ pc[t] = "locked" /\ op[t] = "PopAll"
  /\ item' = [item EXCEPT ![t] = queue]
  /\ Goto(t, "unlock")
  /\ UNCHANGED <<queue, mutex, unused, op, arg>>

PopAll(t) ==
  /\ pc[t] = "locked" /\ op[t] = "PopAll"
  /\ item' = [item EXCEPT ![t] = queue]
  /\ queue' = <<>>
  /\ Goto(t, "unlock")
  /\ UNCHANGED <<mutex, unused, op, arg>>

\* Push unlocks before it notifies; the others return with the lock's end.
Unlock(t) ==
  /\ pc[t] = "unlock"
  /\ mutex' = Free
  /\ Goto(t, IF op[t] = "Push" THEN "notify" ELSE "return")
  /\ UNCHANGED <<queue, unused, op, arg, item>>

\* A defect: only the push into an empty queue notifies.
NotifyFirst(t) ==
  /\ pc[t] = "notify"
  /\ IF Sleeping = {} \/ Len(queue) > 1
     THEN Goto(t, "return")
     ELSE \E s \in Sleeping : pc' = [pc EXCEPT ![t] = "return", ![s] = "woken"]
  /\ UNCHANGED <<queue, mutex, unused, op, arg, item>>

\* notify_one wakes one of the threads that wait, if there is one.
NotifyOne(t) ==
  /\ pc[t] = "notify"
  /\ IF Sleeping = {}
     THEN Goto(t, "return")
     ELSE \E s \in Sleeping : pc' = [pc EXCEPT ![t] = "return", ![s] = "woken"]
  /\ UNCHANGED <<queue, mutex, unused, op, arg, item>>

Return(t) ==
  /\ pc[t] = "return"
  /\ Goto(t, "idle")
  /\ UNCHANGED <<queue, mutex, unused, op, arg, item>>

\* The standard lets a wait end without a notification.
WakeSpuriously(t) ==
  /\ pc[t] = "asleep"
  /\ Goto(t, "woken")
  /\ UNCHANGED <<queue, mutex, unused, op, arg, item>>

-----------------------------------------------------------------------------
\* The steps of a thread inside an operation.
Progress(t) ==
  \/ Lock(t) \/ Push(t) \/ TestNotEmpty(t) \/ TryPopFails(t) \/ Wait(t)
  \/ Front(t) \/ Pop(t) \/ PopAll(t) \/ Unlock(t) \/ NotifyOne(t) \/ Return(t)

Next ==
  \E t \in Threads :
    \/ \E x \in Items : CallPush(t, x)
    \/ \E o \in Operations : CallPop(t, o)
    \/ Progress(t)
    \/ WakeSpuriously(t)

Spec == Init /\ [][Next]_vars

\* Threads that can run are scheduled.  Nothing is assumed of the order in which
\* the mutex is granted, of spurious wake-ups, nor that an operation is called.
FairSpec == Spec /\ \A t \in Threads : WF_vars(Progress(t))

-----------------------------------------------------------------------------
(* Properties.                                                             *)

\* Each variable has its type: the queue, the pushes and what is returned hold
\* items, and every thread is inside one of the four operations or between them.
TypeOK ==
  /\ queue \in Seq(Items)
  /\ mutex \in Threads \cup {Free}
  /\ unused \in SUBSET Items
  /\ pc \in [Threads -> Steps]
  /\ op \in [Threads -> Operations]
  /\ arg \in [Threads -> {<<>>} \cup {<<x>> : x \in Items}]
  /\ item \in [Threads -> Seq(Items)]

\* Between the test and the pop the queue stays as it was tested: front and pop
\* of an empty std::queue are undefined, and the item returned is the one
\* removed (queueSafe.cpp:11-16, 47-50).
TakesWhatItSaw ==
  \A t \in Threads :
    /\ pc[t] \in {"front", "pop"} => queue # <<>>
    /\ pc[t] = "pop" => item[t] = <<Head(queue)>>

\* The threads that will look at the queue, or wake a thread that will, without
\* any further call.
Helpers ==
  {t \in Threads : op[t] = "Push" /\ pc[t] \in {"unlock", "notify"}}
    \cup {t \in Threads : op[t] = "Pop_WithWait" /\ pc[t] \in {"woken", "locked", "front", "pop"}}

\* No wake-up is lost: while a thread sleeps in Pop_WithWait there are as many
\* threads on their way as items in the queue (queueSafe.cpp:13, 24, 32).
NoLostWakeup == Sleeping # {} => Len(queue) <= Cardinality(Helpers)

\* A thread does not sleep for ever beside an item.
SleeperServed == (Sleeping # {} /\ queue # <<>>) ~> (Sleeping = {} \/ queue = <<>>)

Stage(t) ==
  CASE pc[t] = "idle" -> "idle"
    [] pc[t] \in {"unlock", "notify", "return"} -> "done"
    [] OTHER -> "called"

Atomic == INSTANCE AtomicQueue WITH
  content <- queue, stage <- [t \in Threads |-> Stage(t)],
  result <- [t \in Threads |-> IF pc[t] = "pop" THEN <<>> ELSE item[t]]

\* Every operation takes effect at one point while its caller waits for it, as
\* the modules that use the queue assume.
ImplementsAtomic == Atomic!QueueSpec
=============================================================================
