--------------------------- MODULE ConnectionLife ---------------------------
(***************************************************************************)
(* What the server promises about a connection, whatever its threads do:   *)
(* it is accepted, its request is read, it is answered once, and it goes   *)
(* away after that.  A connection goes away unanswered only when the       *)
(* server stops.                                                           *)
(***************************************************************************)
EXTENDS Naturals

CONSTANT Clients

VARIABLES
  phase,    \* client -> where its connection is in its life
  replies,  \* client -> how many responses it has been sent
  stopping  \* the server has left its loop

lifeVars == <<phase, replies, stopping>>

Phases == {"none", "waiting", "open", "asked", "answered", "gone"}

LifeInit ==
  /\ phase = [c \in Clients |-> "none"]
  /\ replies = [c \in Clients |-> 0]
  /\ stopping = FALSE

Become(c, from, to) ==
  /\ phase[c] \in from
  /\ phase' = [phase EXCEPT ![c] = to]
  /\ UNCHANGED <<replies, stopping>>

Arrive(c) == Become(c, {"none"}, "waiting")
Accept(c) == ~stopping /\ Become(c, {"waiting"}, "open")
Ask(c) == Become(c, {"open"}, "asked")
\* A response that was under way when the server stopped may still leave.
Reply(c) ==
  /\ phase[c] \in {"asked", "gone"}
  /\ replies[c] = 0
  /\ replies' = [replies EXCEPT ![c] = 1]
  /\ UNCHANGED <<phase, stopping>>
Complete(c) == replies[c] = 1 /\ Become(c, {"asked"}, "answered")
Retire(c) == Become(c, {"answered"}, "gone")
Abandon(c) == stopping /\ Become(c, {"open", "asked", "answered"}, "gone")
BeginStop == ~stopping /\ stopping' = TRUE /\ UNCHANGED <<phase, replies>>

LifeNext ==
  \/ BeginStop
  \/ \E c \in Clients :
       \/ Arrive(c) \/ Accept(c) \/ Ask(c) \/ Reply(c)
       \/ Complete(c) \/ Retire(c) \/ Abandon(c)

LifeSpec == LifeInit /\ [][LifeNext]_lifeVars

-----------------------------------------------------------------------------
\* A connection that goes away while the server runs has been answered, once.
GoneAnswered ==
  /\ \A c \in Clients : replies[c] <= 1
  /\ ~stopping => \A c \in Clients : phase[c] = "gone" => replies[c] = 1

LifeInv ==
  /\ phase \in [Clients -> Phases]
  /\ replies \in [Clients -> {0, 1}]
  /\ stopping \in BOOLEAN
  /\ \A c \in Clients : phase[c] = "answered" => replies[c] = 1
  /\ GoneAnswered
=============================================================================
