---------------------------- MODULE Connections ----------------------------
(***************************************************************************)
(* The connection layer of the server (code/connection/functions.cpp): the *)
(* descriptor table g_connection_descriptors, the calls on it, and the     *)
(* kernel sockets and remote clients those calls talk to.                  *)
(*                                                                         *)
(* A connection is named by the client at its other end.  The code names   *)
(* it by a handler drawn from a counter that never repeats a value before  *)
(* it has wrapped, so in a run each accepted client has one handler and    *)
(* each handler one client; socket numbers are never reused because the    *)
(* code shuts sockets down and never closes them.                          *)
(*                                                                         *)
(* The module has no next-state relation of its own: HttpServer composes   *)
(* these operators with the main loop and the worker threads.              *)
(***************************************************************************)
EXTENDS Naturals, Sequences, FiniteSets

CONSTANTS
  Clients,         \* the remote clients; each connects at most once
  Requests,        \* "page", or "file": a path that names one both under the root and by itself
  MaxConnections,  \* --maxconnections, handed to ::listen as the backlog
  FdLimit,         \* with so many sockets ::accept may fail: none is ever closed
  Faults           \* what the environment may do in a run: refuse the port,
                   \* reset a connection, send SIGINT, interrupt a system call

ASSUME ConnectionsAssumption ==
  /\ Requests \subseteq {"page", "file"}
  /\ MaxConnections \in Nat
  /\ FdLimit \in Nat
  /\ Faults \subseteq {"bind", "reset", "sigint", "eintr"}

VARIABLES
  \* remote clients and kernel sockets (external)
  peer,       \* client -> "absent", "open", "asked" (has sent), "closed" (FIN), "reset" (RST)
  inbox,      \* client -> the request it sent that no recv has returned, or "none"
  outbox,     \* client -> number of responses the server has sent to it
  backlog,    \* connections the kernel has completed and ::accept has not returned
  shut,       \* client -> the server has called ::shutdown on its socket
  \* connection/functions.cpp
  accepted,   \* clients whose socket number the process holds
  table,      \* clients that have an entry in g_connection_descriptors
  state,      \* connection_descriptor::state
  lock,       \* connection_descriptor::_access_lock
  request     \* connection_descriptor::request, "none" for a null pointer

sockVars == <<peer, inbox, outbox, backlog, shut>>
descrVars == <<accepted, table, state, lock, request>>

PeerStates == {"absent", "open", "asked", "closed", "reset"}
HttpConnectionState ==
  {"CNone", "CNeedRequest", "CNeedResponse", "CDataSending", "CNeedClose"}

\* What a request object can hold: "empty" is the parse of a zero-byte read.
Parsed == Requests \cup {"empty"}

ConnectionsTypeOK ==
  /\ peer \in [Clients -> PeerStates]
  /\ inbox \in [Clients -> Requests \cup {"none"}]
  /\ outbox \in [Clients -> Nat]
  /\ backlog \in Seq(Clients)
  /\ shut \in [Clients -> BOOLEAN]
  /\ accepted \in SUBSET Clients
  /\ table \in SUBSET Clients
  /\ state \in [Clients -> HttpConnectionState]
  /\ lock \in [Clients -> BOOLEAN]
  /\ request \in [Clients -> Parsed \cup {"none"}]

ConnectionsInit ==
  /\ peer = [c \in Clients |-> "absent"]
  /\ inbox = [c \in Clients |-> "none"]
  /\ outbox = [c \in Clients |-> 0]
  /\ backlog = <<>>
  /\ shut = [c \in Clients |-> FALSE]
  /\ accepted = {}
  /\ table = {}
  /\ state = [c \in Clients |-> "CNone"]
  /\ lock = [c \in Clients |-> FALSE]
  /\ request = [c \in Clients |-> "none"]

-----------------------------------------------------------------------------
(* The descriptor table.                                                   *)

\* GetConnectionDescriptor returns a null pointer exactly when this is false.
HasDescriptor(c) == c \in table

\* AcceptNewConnection: ::accept, GenerateConnectionHandler (a fresh
\* descriptor) and, as every caller does next, the state OnConnect gives it.
AcceptDescriptor(c) ==
  /\ accepted' = accepted \cup {c}
  /\ table' = table \cup {c}
  /\ state' = [state EXCEPT ![c] = "CNeedRequest"]
  /\ lock' = [lock EXCEPT ![c] = FALSE]
  /\ request' = [request EXCEPT ![c] = "none"]

\* ReleaseConnectionHandler erases the map node.  The freed node keeps its
\* bytes (no later insertion can take it while somebody still points to it),
\* so the other fields stay as they were.
ReleaseConnectionHandler(c) ==
  /\ table' = table \ {c}
  /\ UNCHANGED <<accepted, state, lock, request>>

-----------------------------------------------------------------------------
(* The kernel calls.                                                       *)

\* ::select reports a socket readable, and ::recv does not block.
Readable(c) ==
  \/ inbox[c] # "none"
  \/ peer[c] \in {"closed", "reset"}
  \/ shut[c]

\* ::recv returns -1: the peer's RST, once the received bytes are used up.
RecvFails(c) == inbox[c] = "none" /\ peer[c] = "reset"

\* What HttpServer::ReadRequest makes of the bytes ::recv returned.
ReceivedRequest(c) == IF inbox[c] = "none" THEN "empty" ELSE inbox[c]

\* ::send fails, with a signal or with -1: after RST, or after our own shutdown.
SendFails(c) == peer[c] = "reset" \/ shut[c]

\* ::shutdown returns -1 (ENOTCONN) on a socket that an RST has torn down; the
\* answer to a client that has closed may provoke that RST.
ShutdownResults(c) ==
  {ok \in BOOLEAN :
     IF ok THEN peer[c] # "reset"
           ELSE \/ peer[c] = "reset"
                \/ peer[c] = "closed" /\ outbox[c] > 0}

-----------------------------------------------------------------------------
(* The clients.                                                            *)

\* The kernel completes handshakes for a listening socket until its accept
\* queue exceeds the backlog, whether or not the process runs.
Connect(c) ==
  /\ peer[c] = "absent"
  /\ Len(backlog) <= MaxConnections
  /\ peer' = [peer EXCEPT ![c] = "open"]
  /\ backlog' = Append(backlog, c)
  /\ UNCHANGED <<inbox, outbox, shut>>

Send(c) ==
  /\ peer[c] = "open"
  /\ peer' = [peer EXCEPT ![c] = "asked"]
  /\ \E q \in Requests : inbox' = [inbox EXCEPT ![c] = q]
  /\ UNCHANGED <<outbox, backlog, shut>>

Close(c) ==
  /\ peer[c] \in {"open", "asked"}
  /\ peer' = [peer EXCEPT ![c] = "closed"]
  /\ UNCHANGED <<inbox, outbox, backlog, shut>>

Reset(c) ==
  /\ "reset" \in Faults
  /\ peer[c] \in {"open", "asked", "closed"}
  /\ peer' = [peer EXCEPT ![c] = "reset"]
  /\ UNCHANGED <<inbox, outbox, backlog, shut>>

=============================================================================
