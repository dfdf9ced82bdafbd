---------------------------- MODULE HandlerTable ----------------------------
(***************************************************************************)
(* The handlers of connection/functions.cpp: a counter that goes round the *)
(* values of connection_handler, and the table it finds free slots in.     *)
(*                                                                         *)
(* Module Connections names a connection by its client.  That is right as  *)
(* long as a handler kept by a runnable never finds the descriptor of a    *)
(* later connection, which is what is stated here.                         *)
(*                                                                         *)
(* Only the main thread generates and releases, each under the mutex of    *)
(* the table, so each is one step.  The increment of the largest int, which *)
(* is undefined, is taken to go on at the smallest.                        *)
(***************************************************************************)
EXTENDS Naturals, FiniteSets, FiniteSetsExt, Functions

CONSTANTS
  Size,          \* how many values connection_handler has
  MaxGenerated   \* a bound on the handlers generated in a run

ASSUME SizeAssumption == Size \in Nat /\ Size > 2 /\ MaxGenerated \in Nat

VARIABLES
  counter,    \* g_handler_counter
  table,      \* g_connection_descriptors: handler -> the connection it is for
  generated,  \* how many handlers have been generated: numbers the connections
  kept,       \* what runnables hold: <<handler, connection it was made for>>
  fate        \* "alive", or "segv"

handlersVars == <<counter, table, generated, kept, fate>>

\* CONNECTION_HANDLER_INVALID is -1: the last value before the counter is 0.
Invalid == Size - 1
Handlers == 0 .. Size - 1

Live == DOMAIN table

HandlersInit ==
  /\ counter = 0
  /\ table = [h \in {} |-> 0]
  /\ generated = 0
  /\ kept = {}
  /\ fate = "alive"

\* The counter after k turns of the loop: each skips Invalid, so they go round
\* the Size - 1 other values.
Candidate(k) == (counter + k) % (Size - 1)

\* Two defects: no test that the slot is free, a search that ends a turn early.
NextSlot == {1}
ShortSearch == {k \in 1 .. Size - 3 : Candidate(k) \notin Live}

\* The turns that meet a free slot before the counter is back where it started.
FreeSlots == {k \in 1 .. Size - 2 : Candidate(k) \notin Live}

\* A defect: the lowest free handler is taken.
LowestFree ==
  /\ FreeSlots # {}
  /\ LET h == Min({Candidate(k) : k \in FreeSlots}) IN
       /\ counter' = counter
       /\ table' = [g \in Live \cup {h} |-> IF g = h THEN generated + 1 ELSE table[g]]
  /\ generated' = generated + 1
  /\ UNCHANGED <<kept, fate>>

\* GenerateConnectionHandler, when the loop finds a free slot.
GenerateConnectionHandler ==
  /\ FreeSlots # {}
  /\ LET h == Candidate(Min(FreeSlots)) IN
       /\ counter' = h
       /\ table' = [g \in Live \cup {h} |-> IF g = h THEN generated + 1 ELSE table[g]]
  /\ generated' = generated + 1
  /\ UNCHANGED <<kept, fate>>

\* Otherwise it returns a null descriptor, to which both callers assign.
GenerateFails ==
  /\ FreeSlots = {}
  /\ fate' = "segv"
  /\ UNCHANGED <<counter, table, generated, kept>>

ReleaseConnectionHandler(h) ==
  /\ h \in Live
  /\ table' = Restrict(table, Live \ {h})
  /\ UNCHANGED <<counter, generated, kept, fate>>

\* A runnable is made for a connection, and keeps its handler ...
CreateRunnable(h) ==
  /\ h \in Live
  /\ kept' = kept \cup {<<h, table[h]>>}
  /\ UNCHANGED <<counter, table, generated, fate>>

\* ... until it is freed, before or after the connection is released.
FreeRunnable(r) ==
  /\ kept' = kept \ {r}
  /\ UNCHANGED <<counter, table, generated, fate>>

HandlersNext ==
  \/ /\ fate = "alive"
     /\ \/ generated < MaxGenerated /\ (GenerateConnectionHandler \/ GenerateFails)
        \/ \E h \in Live : ReleaseConnectionHandler(h) \/ CreateRunnable(h)
        \/ \E r \in kept : FreeRunnable(r)
  \/ fate = "segv" /\ UNCHANGED handlersVars
  \/ generated = MaxGenerated /\ UNCHANGED handlersVars

HandlersSpec == HandlersInit /\ [][HandlersNext]_handlersVars

-----------------------------------------------------------------------------
(* Properties.                                                             *)

\* A handler that a runnable has kept finds the connection it was made for, or
\* none: OnFinished never unlocks a stranger (serverRunnable.cpp:25).
NoAlias == \A r \in kept : r[1] \in Live => table[r[1]] = r[2]

\* NoAlias holds until the counter has gone once round its values.
NoAliasBeforeWrap == generated < Size - 1 => NoAlias

\* The slot of a connection is not taken while the connection has it, before or
\* after the counter wraps (functions.cpp:50).
LiveKept == [][\A h \in Live : h \in Live' => table'[h] = table[h]]_handlersVars

\* -1 means that there is no connection: ReleaseConnectionHandler ignores it
\* (functions.cpp:44, 73).
InvalidNotLive == Invalid \notin Live

\* The null descriptor, and with it the end of the process, comes only when every
\* slot is taken but the one the counter is at, which the loop does not look at
\* (functions.cpp:47, 195, 236).
FailsOnlyWhenFull == fate = "segv" => Cardinality(Live \cup {counter}) = Size - 1
=============================================================================
