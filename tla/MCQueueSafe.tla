---- MODULE MCQueueSafe ----
(* Model values and bounds for checking QueueSafe. *)
EXTENDS QueueSafe

CONSTANTS t1, t2, t3, a, b

ThreeThreads == {t1, t2, t3}
TwoItems == {a, b}
====
