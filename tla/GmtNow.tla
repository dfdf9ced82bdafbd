------------------------------- MODULE GmtNow -------------------------------
(***************************************************************************)
(* GMTNow (utils/dateTime.cpp:136-142) called by the workers: gmtime fills *)
(* the one tm of the C library under the library's lock, and the caller    *)
(* copies it with no lock at all, while another call may be filling it.    *)
(***************************************************************************)
EXTENDS Naturals

CONSTANTS
  Threads,    \* the workers
  Fields,     \* the fields of a tm
  MaxInstant  \* a bound on the clock

ASSUME GmtAssumption == MaxInstant \in Nat

VARIABLES
  clock,     \* the system clock
  progress,  \* where each call is
  instant,   \* time_t t of each call
  todo,      \* the fields a call has still to fill or to copy
  shared_tm, \* the tm of the C library: whose instant each field is of
  utc_tm,    \* what each call has copied
  live       \* for the properties: a call's instant, and those filled in while it copied

gmtVars == <<clock, progress, instant, todo, shared_tm, utc_tm, live>>

GmtInit ==
  /\ clock = 0
  /\ progress = [th \in Threads |-> "idle"]
  /\ instant = [th \in Threads |-> 0]
  /\ todo = [th \in Threads |-> {}]
  /\ shared_tm = [field \in Fields |-> 0]
  /\ utc_tm = [th \in Threads |-> [field \in Fields |-> 0]]
  /\ live = [th \in Threads |-> {}]

Tick ==
  /\ clock < MaxInstant /\ clock' = clock + 1
  /\ UNCHANGED <<progress, instant, todo, shared_tm, utc_tm, live>>

\* A defect: a worker reads the clock for its first response alone.
NowOnce(th) ==
  /\ progress[th] \in {"idle", "done"}
  /\ progress' = [progress EXCEPT ![th] = "now"]
  /\ instant' = IF progress[th] = "idle" THEN [instant EXCEPT ![th] = clock] ELSE instant
  /\ live' = [live EXCEPT ![th] = {clock}]
  /\ UNCHANGED <<clock, todo, shared_tm, utc_tm>>

Now(th) ==
  /\ progress[th] \in {"idle", "done"}
  /\ progress' = [progress EXCEPT ![th] = "now"]
  /\ instant' = [instant EXCEPT ![th] = clock]
  /\ live' = [live EXCEPT ![th] = {clock}]
  /\ UNCHANGED <<clock, todo, shared_tm, utc_tm>>

\* The lock of the C library is free.
LockFree == \A other \in Threads : progress[other] # "filling"

Lock(th) ==
  /\ progress[th] = "now" /\ LockFree
  /\ progress' = [progress EXCEPT ![th] = "filling"]
  /\ todo' = [todo EXCEPT ![th] = Fields]
  /\ live' = [other \in Threads |-> IF progress[other] = "copying" THEN live[other] \cup {instant[th]}
                                   ELSE live[other]]
  /\ UNCHANGED <<clock, instant, shared_tm, utc_tm>>

Fill(th) ==
  /\ progress[th] = "filling"
  /\ \E field \in todo[th] :
       /\ shared_tm' = [shared_tm EXCEPT ![field] = instant[th]]
       /\ todo' = [todo EXCEPT ![th] = @ \ {field}]
  /\ UNCHANGED <<clock, progress, instant, utc_tm, live>>

\* gmtime returns the address of the tm.
Unlock(th) ==
  /\ progress[th] = "filling" /\ todo[th] = {}
  /\ progress' = [progress EXCEPT ![th] = "copying"]
  /\ todo' = [todo EXCEPT ![th] = Fields]
  /\ UNCHANGED <<clock, instant, shared_tm, utc_tm, live>>

\* The copy of *gmtime(&t), in any order, without the lock.
Copy(th) ==
  /\ progress[th] = "copying"
  /\ \E field \in todo[th] :
       /\ utc_tm' = [utc_tm EXCEPT ![th][field] = shared_tm[field]]
       /\ todo' = [todo EXCEPT ![th] = @ \ {field}]
  /\ UNCHANGED <<clock, progress, instant, shared_tm, live>>

ReturnTm(th) ==
  /\ progress[th] = "copying" /\ todo[th] = {}
  /\ progress' = [progress EXCEPT ![th] = "done"]
  /\ UNCHANGED <<clock, instant, todo, shared_tm, utc_tm, live>>

GmtNext ==
  \/ Tick
  \/ \E th \in Threads : Now(th) \/ Lock(th) \/ Fill(th) \/ Unlock(th) \/ Copy(th) \/ ReturnTm(th)

GmtSpec == GmtInit /\ [][GmtNext]_gmtVars

-----------------------------------------------------------------------------

GmtTypeOK ==
  /\ clock \in Nat
  /\ progress \in [Threads -> {"idle", "now", "filling", "copying", "done"}]
  /\ instant \in [Threads -> Nat]
  /\ todo \in [Threads -> SUBSET Fields]
  /\ shared_tm \in [Fields -> Nat]
  /\ utc_tm \in [Threads -> [Fields -> Nat]]
  /\ live \in [Threads -> SUBSET Nat]

\* A Date is of the instant its own call read, whole, unless another call took the
\* library's lock between the return of gmtime and the end of the copy; its fields are
\* then of the one instant or the other, and never of a call that filled the tm before or
\* that was still waiting (dateTime.cpp:138-141).
FieldsOfThisTime ==
  \A th \in Threads : progress[th] = "done" => \A field \in Fields : utc_tm[th][field] \in live[th]
=============================================================================
