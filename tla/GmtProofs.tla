----------------------------- MODULE GmtProofs -----------------------------
(***************************************************************************)
(* What GMTNow returns, for any number of threads and of fields: its own   *)
(* instant, mixed at most with those filled in while it copied.            *)
(***************************************************************************)
EXTENDS GmtNow, TLAPS

\* The library's lock keeps the calls of gmtime apart.
OneFills == \A a, b \in Threads : progress[a] = "filling" /\ progress[b] = "filling" => a = b

OwnAllowed == \A th \in Threads : progress[th] \in {"now", "filling"} => instant[th] \in live[th]

\* Whoever fills the tm under a copy took the lock after the copy began.
FillerAllowed ==
  \A a, b \in Threads : progress[a] = "filling" /\ progress[b] = "copying" => instant[a] \in live[b]

FilledAllowed ==
  \A th \in Threads : progress[th] \in {"filling", "copying"} =>
    \A field \in Fields :
      (progress[th] = "filling" => field \notin todo[th]) => shared_tm[field] \in live[th]

CopiedAllowed ==
  \A th \in Threads : progress[th] \in {"copying", "done"} =>
    \A field \in Fields :
      (progress[th] = "copying" => field \notin todo[th]) => utc_tm[th][field] \in live[th]

\* The property speaks of copies that are complete; what is in the tm meanwhile, and who
\* may be writing to it, is what makes each field of them allowed.
IInv == GmtTypeOK /\ OneFills /\ OwnAllowed /\ FillerAllowed /\ FilledAllowed /\ CopiedAllowed

\* No call is running.
LEMMA GmtStart == GmtInit => IInv
BY DEF GmtInit, IInv, GmtTypeOK, OneFills, OwnAllowed, FillerAllowed, FilledAllowed, CopiedAllowed

\* A call reads the clock: what it copied before is forgotten.
LEMMA GmtNowStep == ASSUME IInv, NEW th \in Threads, Now(th) PROVE IInv'
<1>1. GmtTypeOK'
  BY DEF Now, IInv, GmtTypeOK
<1>2. /\ progress'[th] = "now" /\ instant'[th] \in live'[th]
      /\ \A o \in Threads \ {th} :
           progress'[o] = progress[o] /\ instant'[o] = instant[o] /\ live'[o] = live[o]
  BY DEF Now, IInv, GmtTypeOK
<1>3. todo' = todo /\ shared_tm' = shared_tm /\ utc_tm' = utc_tm
  BY DEF Now
<1>4. OneFills'
  BY <1>2 DEF IInv, OneFills
<1>5. OwnAllowed'
  BY <1>2 DEF IInv, OwnAllowed
<1>6. FillerAllowed'
  BY <1>2 DEF IInv, FillerAllowed
<1>7. FilledAllowed'
  BY <1>2, <1>3 DEF IInv, FilledAllowed
<1>8. CopiedAllowed'
  BY <1>2, <1>3 DEF IInv, CopiedAllowed
<1> QED BY <1>1, <1>4, <1>5, <1>6, <1>7, <1>8 DEF IInv

\* gmtime is entered: its instant is allowed to those that copy.
LEMMA GmtLockStep == ASSUME IInv, NEW th \in Threads, Lock(th) PROVE IInv'
<1>1. GmtTypeOK'
  BY DEF Lock, IInv, GmtTypeOK
<1>2. /\ progress[th] = "now" /\ progress'[th] = "filling" /\ todo'[th] = Fields
      /\ \A o \in Threads : progress[o] # "filling"
      /\ \A o \in Threads \ {th} : progress'[o] = progress[o] /\ todo'[o] = todo[o]
  BY DEF Lock, LockFree, IInv, GmtTypeOK
<1>3. instant' = instant /\ shared_tm' = shared_tm /\ utc_tm' = utc_tm
  BY DEF Lock
<1>4. \A o \in Threads : live[o] \subseteq live'[o] /\ (progress[o] = "copying" => instant[th] \in live'[o])
  BY DEF Lock
<1>5. OneFills'
  BY <1>2 DEF OneFills
<1>6. OwnAllowed'
  BY <1>2, <1>3, <1>4 DEF IInv, OwnAllowed
<1>7. FillerAllowed'
  BY <1>2, <1>3, <1>4 DEF FillerAllowed
<1>8. FilledAllowed'
  BY <1>2, <1>3, <1>4 DEF IInv, FilledAllowed
<1>9. CopiedAllowed'
  BY <1>2, <1>3, <1>4 DEF IInv, CopiedAllowed
<1> QED BY <1>1, <1>5, <1>6, <1>7, <1>8, <1>9 DEF IInv

\* A field is filled with an instant that everyone who may copy it is allowed.
LEMMA GmtFillStep == ASSUME IInv, NEW th \in Threads, Fill(th) PROVE IInv'
<1> PICK field \in todo[th] :
      /\ shared_tm' = [shared_tm EXCEPT ![field] = instant[th]]
      /\ todo' = [todo EXCEPT ![th] = @ \ {field}]
  BY DEF Fill
<1>1. field \in Fields /\ progress[th] = "filling"
  BY DEF Fill, IInv, GmtTypeOK
<1>2. GmtTypeOK'
  BY <1>1 DEF Fill, IInv, GmtTypeOK
<1>3. progress' = progress /\ instant' = instant /\ live' = live /\ utc_tm' = utc_tm
  BY DEF Fill
<1>4. OneFills' /\ OwnAllowed' /\ FillerAllowed'
  BY <1>3 DEF IInv, OneFills, OwnAllowed, FillerAllowed
<1>5. CopiedAllowed'
  BY <1>1, <1>3 DEF IInv, GmtTypeOK, CopiedAllowed
<1>6. FilledAllowed'
  <2> SUFFICES ASSUME NEW o \in Threads, progress[o] \in {"filling", "copying"}, NEW f \in Fields,
                      progress[o] = "filling" => f \notin todo'[o]
               PROVE  shared_tm'[f] \in live[o]
    BY <1>3 DEF FilledAllowed
  <2>1. CASE f = field
    <3>1. instant[th] \in live[o]
      BY <1>1 DEF IInv, OneFills, OwnAllowed, FillerAllowed
    <3> QED BY <2>1, <3>1 DEF IInv, GmtTypeOK
  <2>2. CASE f # field
    <3>1. progress[o] = "filling" => f \notin todo[o]
      BY <2>2 DEF IInv, GmtTypeOK
    <3> QED BY <2>2, <3>1 DEF IInv, GmtTypeOK, FilledAllowed
  <2> QED BY <2>1, <2>2
<1> QED BY <1>2, <1>4, <1>5, <1>6 DEF IInv

\* gmtime returns: the tm is of this call's instant, and nobody is filling it.
LEMMA GmtUnlockStep == ASSUME IInv, NEW th \in Threads, Unlock(th) PROVE IInv'
<1>1. GmtTypeOK'
  BY DEF Unlock, IInv, GmtTypeOK
<1>2. /\ progress[th] = "filling" /\ progress'[th] = "copying" /\ todo[th] = {} /\ todo'[th] = Fields
      /\ \A o \in Threads \ {th} : progress'[o] = progress[o] /\ todo'[o] = todo[o]
  BY DEF Unlock, IInv, GmtTypeOK
<1>3. instant' = instant /\ shared_tm' = shared_tm /\ utc_tm' = utc_tm /\ live' = live
  BY DEF Unlock
<1>4. \A o \in Threads : progress'[o] # "filling"
  BY <1>2 DEF IInv, OneFills
<1>5. OneFills' /\ FillerAllowed'
  BY <1>4 DEF OneFills, FillerAllowed
<1>6. OwnAllowed'
  BY <1>2, <1>3 DEF IInv, OwnAllowed
<1>7. FilledAllowed'
  BY <1>2, <1>3 DEF IInv, FilledAllowed
<1>8. CopiedAllowed'
  BY <1>2, <1>3 DEF IInv, CopiedAllowed
<1> QED BY <1>1, <1>5, <1>6, <1>7, <1>8 DEF IInv

\* A field is copied that is allowed.
LEMMA GmtCopyStep == ASSUME IInv, NEW th \in Threads, Copy(th) PROVE IInv'
<1> PICK field \in todo[th] :
      /\ utc_tm' = [utc_tm EXCEPT ![th][field] = shared_tm[field]]
      /\ todo' = [todo EXCEPT ![th] = @ \ {field}]
  BY DEF Copy
<1>1. field \in Fields /\ progress[th] = "copying" /\ shared_tm[field] \in live[th]
  BY DEF Copy, IInv, GmtTypeOK, FilledAllowed
<1>2. GmtTypeOK'
  BY <1>1 DEF Copy, IInv, GmtTypeOK
<1>3. OneFills' /\ OwnAllowed' /\ FillerAllowed' /\ FilledAllowed'
  BY <1>1 DEF Copy, IInv, GmtTypeOK, OneFills, OwnAllowed, FillerAllowed, FilledAllowed
<1>4. CopiedAllowed'
  <2> SUFFICES ASSUME NEW o \in Threads, progress[o] \in {"copying", "done"}, NEW f \in Fields,
                      progress[o] = "copying" => f \notin todo'[o]
               PROVE  utc_tm'[o][f] \in live[o]
    BY DEF CopiedAllowed, Copy
  <2>1. CASE o = th /\ f = field
    BY <1>1, <2>1 DEF IInv, GmtTypeOK
  <2>2. CASE o # th
    BY <2>2 DEF IInv, GmtTypeOK, CopiedAllowed
  <2>3. CASE o = th /\ f # field
    BY <1>1, <2>3 DEF IInv, GmtTypeOK, CopiedAllowed
  <2> QED BY <2>1, <2>2, <2>3
<1> QED BY <1>2, <1>3, <1>4 DEF IInv

\* IInv is inductive.
LEMMA GmtStep == IInv /\ [GmtNext]_gmtVars => IInv'
<1> SUFFICES ASSUME IInv, [GmtNext]_gmtVars PROVE IInv'
  OBVIOUS
<1>1. CASE Tick
  BY <1>1 DEF Tick, IInv, GmtTypeOK, OneFills, OwnAllowed, FillerAllowed, FilledAllowed, CopiedAllowed
<1>2. ASSUME NEW th \in Threads, Now(th) PROVE IInv'
  BY <1>2, GmtNowStep
<1>3. ASSUME NEW th \in Threads, Lock(th) PROVE IInv'
  BY <1>3, GmtLockStep
<1>4. ASSUME NEW th \in Threads, Fill(th) PROVE IInv'
  BY <1>4, GmtFillStep
<1>5. ASSUME NEW th \in Threads, Unlock(th) PROVE IInv'
  BY <1>5, GmtUnlockStep
<1>6. ASSUME NEW th \in Threads, Copy(th) PROVE IInv'
  BY <1>6, GmtCopyStep
<1>7. ASSUME NEW th \in Threads, ReturnTm(th) PROVE IInv'
  BY <1>7 DEF ReturnTm, IInv, GmtTypeOK, OneFills, OwnAllowed, FillerAllowed, FilledAllowed, CopiedAllowed
<1>8. CASE UNCHANGED gmtVars
  BY <1>8 DEF gmtVars, IInv, GmtTypeOK, OneFills, OwnAllowed, FillerAllowed, FilledAllowed, CopiedAllowed
<1> QED BY <1>1, <1>2, <1>3, <1>4, <1>5, <1>6, <1>7, <1>8 DEF GmtNext

\* The account of what each copy may hold is kept always (dateTime.cpp:136-142).
THEOREM GmtInvariant == GmtSpec => []IInv
BY GmtStart, GmtStep, PTL DEF GmtSpec

\* A call that is done has copied every field.
LEMMA GmtGives == IInv => FieldsOfThisTime
BY DEF IInv, CopiedAllowed, FieldsOfThisTime

\* However many workers ask for the time, an answer is of the instant its call read, but
\* for fields that another call filled while this one copied (dateTime.cpp:138-141).
THEOREM FieldsOfThisTimeCorrect == GmtSpec => []FieldsOfThisTime
BY GmtInvariant, GmtGives, PTL
=============================================================================
