---- MODULE MCHttpServer ----
(* Model values, symmetry and bounds for checking HttpServer. *)
EXTENDS HttpServer, TLC

CONSTANTS c1, c2, w1, w2

TwoClients == {c1, c2}
TwoWorkers == {w1, w2}
OneWorker == {w1}
OneClient == {c1}
NoClient == {}
SecondClient == {c2}

PageOnly == {"page"}
PagesAndFiles == {"page", "file"}

NoFaults == {}
Interrupt == {"sigint"}
ResetAndInterrupt == {"reset", "sigint"}
Interrupted == {"sigint", "eintr"}
SeveralFaults == {"bind", "reset", "eintr"}

\* Nothing distinguishes two clients or two workers; for safety runs only.
Symmetry == Permutations(TwoClients) \cup Permutations(TwoWorkers)
====
