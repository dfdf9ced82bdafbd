----------------------------- MODULE AtomicQueue -----------------------------
(***************************************************************************)
(* What QueueSafe promises its users: each call takes effect in one step   *)
(* between its start and its return.  A result is a sequence: what PopAll  *)
(* took, the item TryPop or Pop_WithWait took, <<>> for a TryPop that      *)
(* returned false.                                                         *)
(***************************************************************************)
EXTENDS Sequences

CONSTANTS Threads, Items

VARIABLES
  content,  \* the items pushed and not taken yet, oldest first
  unused,   \* the items not pushed yet: each object is pushed once
  op,       \* thread -> the call it is in, or was in last
  arg,      \* thread -> what it pushes
  result,   \* thread -> what it took
  stage     \* thread -> "idle", "called", "done"

queueVars == <<content, unused, op, arg, result, stage>>

Operations == {"Push", "TryPop", "PopAll", "Pop_WithWait"}

QueueInit ==
  /\ content = <<>>
  /\ unused = Items
  /\ op = [t \in Threads |-> "TryPop"]
  /\ arg = [t \in Threads |-> <<>>]
  /\ result = [t \in Threads |-> <<>>]
  /\ stage = [t \in Threads |-> "idle"]

Start(t, o, a) ==
  /\ stage[t] = "idle"
  /\ op' = [op EXCEPT ![t] = o]
  /\ arg' = [arg EXCEPT ![t] = a]
  /\ result' = [result EXCEPT ![t] = <<>>]
  /\ stage' = [stage EXCEPT ![t] = "called"]
  /\ UNCHANGED content

StartPush(t, x) == x \in unused /\ unused' = unused \ {x} /\ Start(t, "Push", <<x>>)
StartPop(t, o) == o # "Push" /\ UNCHANGED unused /\ Start(t, o, <<>>)

Effect(t, o, taken, left) ==
  /\ stage[t] = "called"
  /\ op[t] = o
  /\ result' = [result EXCEPT ![t] = taken]
  /\ content' = left
  /\ stage' = [stage EXCEPT ![t] = "done"]
  /\ UNCHANGED <<unused, op, arg>>

Push(t) == Effect(t, "Push", <<>>, content \o arg[t])
PopNothing(t) == content = <<>> /\ Effect(t, "TryPop", <<>>, <<>>)
PopAll(t) == Effect(t, "PopAll", content, <<>>)
PopOne(t) ==
  /\ content # <<>>
  /\ \E o \in {"TryPop", "Pop_WithWait"} : Effect(t, o, <<Head(content)>>, Tail(content))

Return(t) ==
  /\ stage[t] = "done"
  /\ stage' = [stage EXCEPT ![t] = "idle"]
  /\ UNCHANGED <<content, unused, op, arg, result>>

QueueNext ==
  \E t \in Threads :
    \/ \E x \in Items : StartPush(t, x)
    \/ \E o \in Operations : StartPop(t, o)
    \/ Push(t) \/ PopNothing(t) \/ PopAll(t) \/ PopOne(t)
    \/ Return(t)

QueueSpec == QueueInit /\ [][QueueNext]_queueVars
=============================================================================
