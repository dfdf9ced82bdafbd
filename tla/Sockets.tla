------------------------------ MODULE Sockets ------------------------------
(***************************************************************************)
(* connection/functions.cpp call by call, with the numbers the kernel      *)
(* gives to sockets: how the server's connection is made or its making is  *)
(* given up, and how select, accept and the closing of connections use the *)
(* numbers.  Handlers count up here; HandlerTable has their ring.          *)
(***************************************************************************)
EXTENDS Naturals, FiniteSets, Sequences, SequencesExt

CONSTANTS
  Inheritances, \* sets of numbers that may be open when the program starts
  MaxOpen,      \* the limit of open numbers
  FdSetSize     \* FD_SETSIZE

ASSUME SocketsAssumption ==
  MaxOpen \in Nat /\ FdSetSize \in Nat /\ \A open \in Inheritances : open \subseteq 0 .. MaxOpen - 1

VARIABLES
  reached,       \* where the main thread is; "threw" when an exception left it
  sockets,    \* the state of each open number
  addrs,      \* the results of getaddrinfo that are allocated
  descriptors,      \* g_connection_descriptors: the sock_handler of each handler
  main,       \* the handler of the server's connection, 0 before there is one
  comm,       \* the handlers of the clients' connections
  handlers,   \* g_handler_counter
  read,       \* connection_out of the last select
  ready,      \* for the properties: the numbers that were ready
  interrupted \* for the properties: it was interrupted

socketsVars == <<reached, sockets, addrs, descriptors, main, comm, handlers, read, ready, interrupted>>

kernelVars == <<sockets, addrs>>
tableVars == <<descriptors, main, comm, handlers>>
selectVars == <<read, ready, interrupted>>

SocketsInit ==
  /\ reached = "addr"
  /\ \E open \in Inheritances : sockets = [n \in open |-> "inherited"]
  /\ addrs = 0
  /\ descriptors = <<>> /\ main = 0 /\ comm = {} /\ handlers = 0
  /\ read = <<>> /\ ready = {} /\ interrupted = FALSE

Inherited == {n \in DOMAIN sockets : sockets[n] = "inherited"}

Free == (0 .. MaxOpen - 1) \ DOMAIN sockets

\* The kernel gives the lowest free number.
Lowest == CHOOSE n \in Free : \A other \in Free : n <= other

WithSocket(n, state) == [k \in DOMAIN sockets \cup {n} |-> IF k = n THEN state ELSE sockets[k]]

-----------------------------------------------------------------------------
\* CreateConnectionForServer and StartListening.

GetAddrInfo ==
  /\ reached = "addr" /\ reached' = "socket" /\ addrs' = addrs + 1
  /\ UNCHANGED <<sockets, tableVars, selectVars>>

\* EAI_BADFLAGS is -1.
GetAddrInfoFails ==
  /\ reached = "addr" /\ reached' = "threw"
  /\ UNCHANGED <<kernelVars, tableVars, selectVars>>

\* Any other error code: addr is used uninitialised.
GetAddrInfoMissed ==
  /\ reached = "addr" /\ reached' \in {"undefined", "socket"}
  /\ UNCHANGED <<kernelVars, tableVars, selectVars>>

\* The number 0 counts as a failure, and stays open.
Socket ==
  /\ reached = "socket" /\ Free # {}
  /\ sockets' = WithSocket(Lowest, "new")
  /\ reached' = IF Lowest = 0 THEN "threw" ELSE "option"
  /\ UNCHANGED <<addrs, tableVars, selectVars>>

SocketFails ==
  /\ reached = "socket" /\ reached' = "threw"
  /\ UNCHANGED <<kernelVars, tableVars, selectVars>>

New == CHOOSE n \in DOMAIN sockets : sockets[n] = "new"

SetSockOpt ==
  /\ reached = "option" /\ reached' = "bind"
  /\ UNCHANGED <<kernelVars, tableVars, selectVars>>

\* setsockopt or bind fails: the socket is shut down.
CreationFails ==
  /\ reached \in {"option", "bind"} /\ reached' = "threw"
  /\ sockets' = [sockets EXCEPT ![New] = "shut"]
  /\ UNCHANGED <<addrs, tableVars, selectVars>>

\* GenerateConnectionHandler, and the new descriptor's sock_handler.
WithDescriptor(socket) ==
  /\ handlers' = handlers + 1
  /\ descriptors' = [h \in DOMAIN descriptors \cup {handlers + 1} |-> IF h = handlers + 1 THEN socket ELSE descriptors[h]]

Bind ==
  /\ reached = "bind" /\ reached' = "listen"
  /\ WithDescriptor(New) /\ main' = handlers + 1
  /\ UNCHANGED <<kernelVars, comm, selectVars>>

StartListening ==
  /\ reached = "listen" /\ reached' = "loop"
  /\ sockets' = [sockets EXCEPT ![descriptors[main]] = "listening"]
  /\ UNCHANGED <<addrs, tableVars, selectVars>>

ListenFails ==
  /\ reached = "listen" /\ reached' = "threw"
  /\ UNCHANGED <<kernelVars, tableVars, selectVars>>

-----------------------------------------------------------------------------
\* ObtainIdleSocketsFor the reading of the main connection and the clients' ones.

Asked == {main} \cup comm

conn2sock == [h \in Asked |-> descriptors[h]]

Largest == CHOOSE n \in Range(conn2sock) : \A other \in Range(conn2sock) : other <= n

\* A defect: select is given the largest number, not the one after it.
LargestGiven == Largest

nfds == Largest + 1

\* FD_SET of a number too large writes outside of the set.
OutsideSet ==
  /\ reached = "loop" /\ reached' = "undefined" /\ Largest >= FdSetSize
  /\ UNCHANGED <<kernelVars, tableVars, selectVars>>

\* The handlers whose socket is in the set, in the order of the map.
InOrder(isset) ==
  LET found == {h \in Asked : conn2sock[h] \in isset}
      Before(h) == {other \in found : other < h}
  IN  [k \in 1 .. Cardinality(found) |-> CHOOSE h \in found : Cardinality(Before(h)) = k - 1]

Select ==
  /\ reached = "loop" /\ Largest < FdSetSize /\ reached' = "events"
  /\ \E numbers \in SUBSET Range(conn2sock) :
       /\ ready' = numbers
       /\ read' = InOrder({n \in numbers : n < nfds})
  /\ interrupted' = FALSE
  /\ UNCHANGED <<kernelVars, tableVars>>

\* EINTR leaves the set as FD_SET has made it.
SelectInterrupted ==
  /\ reached = "loop" /\ Largest < FdSetSize /\ reached' = "events"
  /\ read' = InOrder(Range(conn2sock)) /\ ready' = {} /\ interrupted' = TRUE
  /\ UNCHANGED <<kernelVars, tableVars>>

\* AcceptNewConnection, for a client that is there.
AcceptNewConnection ==
  /\ reached = "events" /\ main \in Range(read) /\ Free # {} /\ reached' = "loop"
  /\ sockets' = WithSocket(Lowest, "connected")
  /\ WithDescriptor(Lowest) /\ comm' = comm \cup {handlers + 1}
  /\ read' = <<>> /\ UNCHANGED <<addrs, main, ready, interrupted>>

AcceptFails ==
  /\ reached = "events" /\ main \in Range(read) /\ Free = {} /\ reached' = "threw"
  /\ UNCHANGED <<kernelVars, tableVars, selectVars>>

EventsDone ==
  /\ reached = "events" /\ main \notin Range(read) /\ reached' = "loop" /\ read' = <<>>
  /\ UNCHANGED <<kernelVars, tableVars, ready, interrupted>>

\* A defect: the descriptor is kept.
CloseKeepsDescriptor(h) ==
  /\ reached = "loop" /\ h \in comm
  /\ sockets' = [sockets EXCEPT ![descriptors[h]] = "shut"] /\ comm' = comm \ {h}
  /\ UNCHANGED <<reached, addrs, descriptors, main, handlers, selectVars>>

\* The number is read from the descriptor after its release; nothing has been allocated
\* in its place.  It is shut down and stays open.
CloseConnection(h) ==
  /\ reached = "loop" /\ h \in comm
  /\ sockets' = [sockets EXCEPT ![descriptors[h]] = "shut"] /\ comm' = comm \ {h}
  /\ descriptors' = [k \in DOMAIN descriptors \ {h} |-> descriptors[k]]
  /\ UNCHANGED <<reached, addrs, main, handlers, selectVars>>

SocketsOver == reached \in {"threw", "undefined"} /\ UNCHANGED socketsVars

SocketsNext ==
  \/ GetAddrInfo \/ GetAddrInfoFails \/ GetAddrInfoMissed
  \/ Socket \/ SocketFails \/ SetSockOpt \/ CreationFails \/ Bind
  \/ StartListening \/ ListenFails
  \/ OutsideSet \/ Select \/ SelectInterrupted
  \/ AcceptNewConnection \/ AcceptFails \/ EventsDone
  \/ \E h \in comm : CloseConnection(h)
  \/ SocketsOver

SocketsSpec == SocketsInit /\ [][SocketsNext]_socketsVars

-----------------------------------------------------------------------------

\* select reports the connections that are ready, each, and no other, the main connection
\* before the clients', unless a signal interrupts it, which reports them all: whatever
\* numbers sockets have after others were opened and closed (functions.cpp:346-399).
ReadyAndNoOther ==
  reached = "events" /\ (read # <<>> \/ ready # {}) =>
    /\ Range(read) = {h \in Asked : interrupted \/ descriptors[h] \in ready}
    /\ \A k \in DOMAIN read : read[k] = main => k = 1

\* A descriptor leads to a socket of its own, one that is open and was not shut down, so
\* that no connection is read, answered or closed in place of another
\* (functions.cpp:194-196, 235-237, 246-253).
DescriptorsHaveSockets ==
  /\ \A h \in DOMAIN descriptors : sockets[descriptors[h]] \in {"new", "listening", "connected"}
  /\ \A h, other \in DOMAIN descriptors : descriptors[h] = descriptors[other] => h = other
=============================================================================
