-------------------------- MODULE ConnectionProofs --------------------------
(***************************************************************************)
(* Proofs about the handlers and the sockets of connections.               *)
(*                                                                         *)
(* HandlerTable: until the counter has gone once round, handlers name      *)
(* connections; before and after, the search round the ring finds a free   *)
(* handler that is not -1 or, when there is none, nothing.                 *)
(*                                                                         *)
(* Sockets: each descriptor has an open socket of its own, and select      *)
(* reports what is ready, the main connection first.                       *)
(***************************************************************************)
EXTENDS HandlerTable, Sockets, FiniteSetTheorems, FunctionTheorems, WellFoundedInduction, TLAPS

\* A set of numbers has a least one.
LEMMA LeastNatural ==
  ASSUME NEW S \in SUBSET Nat, S # {}
  PROVE  \E least \in S : \A n \in S : least <= n
  <1>1. PICK least \in S : \A n \in S : ~ (<<n, least>> \in OpToRel(<, Nat))
    BY NatLessThanWellFounded, WFMin, Zenon
  <1>2. \A n \in S : ~ (n < least)
    BY <1>1, Zenon DEF OpToRel
  <1> QED BY <1>2

\* Induction over the numbers, for the set of those a statement holds of.
LEMMA SetInduction ==
  ASSUME NEW S, 0 \in S, \A n \in Nat : n \in S => n + 1 \in S
  PROVE  Nat \subseteq S
  <1> SUFFICES ASSUME Nat \ S # {} PROVE FALSE
    OBVIOUS
  <1>1. PICK least \in Nat \ S : \A n \in Nat \ S : least <= n
    BY LeastNatural
  <1>2. least - 1 \in Nat /\ least - 1 \in S /\ least = (least - 1) + 1
    BY <1>1
  <1> QED BY <1>1, <1>2

-----------------------------------------------------------------------------
(* The handlers.                                                           *)

\* Before it wraps, the counter is the number of handlers generated, and the
\* handler of a connection is the connection's number.
Numbering ==
  /\ generated \in Nat
  /\ generated < Size - 1 =>
       /\ counter = generated
       /\ Live \subseteq 1 .. counter
       /\ \A h \in Live : table[h] = h
       /\ \A r \in kept : r[1] = r[2]

\* Min picks the first free slot when that is the next one.
LEMMA FirstSlot ==
  ASSUME NEW S \in SUBSET Nat, 1 \in S, 0 \notin S
  PROVE  Min(S) = 1
  <1>1. \A x \in S : 1 <= x
    OBVIOUS
  <1>2. \A x \in S : (\A y \in S : x <= y) => x = 1
    BY <1>1
  <1>3. QED
    BY <1>1, <1>2 DEF Min

\* Before the first connection there is nothing to number.
LEMMA InitNumbering == HandlersInit => Numbering
  BY SizeAssumption DEF HandlersInit, Numbering, Live

\* The connection after n others gets the handler after theirs, until the wrap.
LEMMA GenerateNumbering == Numbering /\ GenerateConnectionHandler => Numbering'
  <1> SUFFICES ASSUME Numbering, GenerateConnectionHandler PROVE Numbering'
    OBVIOUS
  <1>1. generated' = generated + 1 /\ generated' \in Nat /\ generated \in Nat /\ kept' = kept
    BY DEF Numbering, GenerateConnectionHandler
  <1>2. SUFFICES ASSUME generated' < Size - 1
        PROVE  /\ counter' = generated'
               /\ Live' \subseteq 1 .. counter'
               /\ \A h \in Live' : table'[h] = h
               /\ \A r \in kept' : r[1] = r[2]
    BY <1>1 DEF Numbering
  <1>3. /\ counter = generated /\ Live \subseteq 1 .. counter
        /\ \A h \in Live : table[h] = h
        /\ \A r \in kept : r[1] = r[2]
    BY <1>1, <1>2, SizeAssumption DEF Numbering
  <1>4. counter + 1 \in 1 .. Size - 2 /\ Candidate(1) = counter + 1
    BY <1>1, <1>2, <1>3, SizeAssumption DEF Candidate
  <1>5. Min(FreeSlots) = 1
    <2>1. 1 \in FreeSlots /\ 0 \notin FreeSlots /\ FreeSlots \in SUBSET Nat
      BY <1>1, <1>3, <1>4, SizeAssumption DEF FreeSlots
    <2>2. QED
      BY <2>1, FirstSlot
  <1>6. /\ counter' = counter + 1
        /\ table' = [g \in Live \cup {counter + 1} |->
                       IF g = counter + 1 THEN generated + 1 ELSE table[g]]
    BY <1>4, <1>5 DEF GenerateConnectionHandler
  <1>7. Live' = Live \cup {counter + 1}
    BY <1>6 DEF Live
  <1>8. QED
    BY <1>1, <1>3, <1>6, <1>7

\* Numbering is inductive.
LEMMA NextNumbering == Numbering /\ [HandlersNext]_handlersVars => Numbering'
  <1> SUFFICES ASSUME Numbering, [HandlersNext]_handlersVars PROVE Numbering'
    OBVIOUS
  <1>1. CASE GenerateConnectionHandler
    BY <1>1, GenerateNumbering
  <1>2. CASE GenerateFails
    BY <1>2 DEF GenerateFails, Numbering, Live
  <1>3. ASSUME NEW h \in Live, ReleaseConnectionHandler(h) PROVE Numbering'
    BY <1>3 DEF ReleaseConnectionHandler, Numbering, Live, Restrict
  <1>4. ASSUME NEW h \in Live, CreateRunnable(h) PROVE Numbering'
    BY <1>4 DEF CreateRunnable, Numbering, Live
  <1>5. ASSUME NEW r \in kept, FreeRunnable(r) PROVE Numbering'
    BY <1>5 DEF FreeRunnable, Numbering, Live
  <1>6. CASE UNCHANGED handlersVars
    BY <1>6 DEF handlersVars, Numbering, Live
  <1>7. QED
    BY <1>1, <1>2, <1>3, <1>4, <1>5, <1>6 DEF HandlersNext

\* No runnable ever meets a later connection under its handler, as long as fewer
\* connections than handlers have been made.
THEOREM NoAliasCorrect == HandlersSpec => []NoAliasBeforeWrap
  <1>1. Numbering => NoAliasBeforeWrap
    BY DEF Numbering, NoAliasBeforeWrap, NoAlias
  <1>2. QED
    BY <1>1, InitNumbering, NextNumbering, PTL DEF HandlersSpec

-----------------------------------------------------------------------------
(* The ring, however often it is gone round.                               *)

\* The values the counter takes: all but Invalid.
Ring == 0 .. Size - 2

\* The counter and every handler are on the ring, and a search that found nothing
\* left nothing.
OnRing ==
  /\ counter \in Ring
  /\ Live \subseteq Ring
  /\ fate = "segv" => Live \cup {counter} = Ring

\* Min of a set of numbers is one of them.
LEMMA MinIn ==
  ASSUME NEW S \in SUBSET Nat, S # {}
  PROVE  Min(S) \in S
  <1>1. PICK least \in S : \A n \in S : least <= n
    BY LeastNatural
  <1> QED
    BY <1>1, Zenon DEF Min

\* Once round the ring and back.
LEMMA RoundTheRing ==
  ASSUME NEW m \in Nat \ {0}, NEW a \in 0 .. m - 1
  PROVE  a % m = a /\ (a + m) % m = a
  OBVIOUS

\* A remainder is on the ring.
LEMMA RemainderInRing ==
  ASSUME NEW m \in Nat \ {0}, NEW a \in Nat
  PROVE  a % m \in 0 .. m - 1
  OBVIOUS

\* A turn of the loop stays on the ring, and the turns meet every value of it but
\* the one they started from.
LEMMA CandidatesAreRing ==
  ASSUME NEW start \in Ring, counter = start
  PROVE  /\ \A k \in 1 .. Size - 2 : Candidate(k) \in Ring
         /\ \A v \in Ring \ {start} : \E k \in 1 .. Size - 2 : Candidate(k) = v
  <1>1. Size - 1 \in Nat \ {0} /\ Ring = 0 .. (Size - 1) - 1
    BY SizeAssumption DEF Ring
  <1>2. ASSUME NEW k \in 1 .. Size - 2 PROVE Candidate(k) \in Ring
    <2>1. counter + k \in Nat
      BY SizeAssumption DEF Ring
    <2> QED
      BY <1>1, <2>1, RemainderInRing, Zenon DEF Candidate
  <1>3. ASSUME NEW v \in Ring \ {start} PROVE \E k \in 1 .. Size - 2 : Candidate(k) = v
    <2>1. CASE v > start
      <3>1. v - start \in 1 .. Size - 2 /\ start + (v - start) = v
        BY <2>1, SizeAssumption DEF Ring
      <3>2. v % (Size - 1) = v
        BY <1>1, RoundTheRing, Zenon
      <3> QED
        BY <3>1, <3>2 DEF Candidate
    <2>2. CASE v < start
      <3>1. /\ v - start + (Size - 1) \in 1 .. Size - 2
            /\ start + (v - start + (Size - 1)) = v + (Size - 1)
        BY <2>2, SizeAssumption DEF Ring
      <3>2. (v + (Size - 1)) % (Size - 1) = v
        BY <1>1, RoundTheRing, Zenon
      <3> QED
        BY <3>1, <3>2 DEF Candidate
    <2> QED
      BY <2>1, <2>2 DEF Ring
  <1> QED
    BY <1>2, <1>3

\* The counter starts on the ring.
LEMMA InitOnRing == HandlersInit => OnRing
  BY SizeAssumption DEF HandlersInit, OnRing, Live, Ring

\* What GenerateConnectionHandler finds is on the ring and free.
LEMMA FoundIsFree ==
  ASSUME OnRing, FreeSlots # {}
  PROVE  Candidate(Min(FreeSlots)) \in Ring \ Live
  <1>1. FreeSlots \in SUBSET Nat
    BY SizeAssumption DEF FreeSlots
  <1>2. Min(FreeSlots) \in FreeSlots
    BY <1>1, MinIn
  <1> QED
    BY <1>2, CandidatesAreRing DEF FreeSlots, OnRing

\* OnRing is inductive.
LEMMA NextOnRing == OnRing /\ [HandlersNext]_handlersVars => OnRing'
  <1> SUFFICES ASSUME OnRing, [HandlersNext]_handlersVars PROVE OnRing'
    OBVIOUS
  <1>1. CASE GenerateConnectionHandler /\ fate = "alive"
    <2>1. Candidate(Min(FreeSlots)) \in Ring
      BY <1>1, FoundIsFree DEF GenerateConnectionHandler
    <2> QED
      BY <1>1, <2>1 DEF GenerateConnectionHandler, OnRing, Live
  <1>2. CASE GenerateFails
    <2>1. \A v \in Ring \ {counter} : v \in Live
      BY <1>2, CandidatesAreRing DEF GenerateFails, FreeSlots, OnRing
    <2> QED
      BY <1>2, <2>1 DEF GenerateFails, OnRing, Live
  <1>3. ASSUME NEW h \in Live, ReleaseConnectionHandler(h), fate = "alive" PROVE OnRing'
    BY <1>3 DEF ReleaseConnectionHandler, OnRing, Live, Restrict
  <1>4. ASSUME NEW h \in Live, CreateRunnable(h) PROVE OnRing'
    BY <1>4 DEF CreateRunnable, OnRing, Live
  <1>5. ASSUME NEW r \in kept, FreeRunnable(r) PROVE OnRing'
    BY <1>5 DEF FreeRunnable, OnRing, Live
  <1>6. CASE UNCHANGED handlersVars
    BY <1>6 DEF handlersVars, OnRing, Live
  <1>7. QED
    BY <1>1, <1>2, <1>3, <1>4, <1>5, <1>6 DEF HandlersNext

\* -1 is never given out, for any width of the handler and however often the counter
\* wraps (functions.cpp:44).
THEOREM InvalidNotLiveCorrect == HandlersSpec => []InvalidNotLive
  <1>1. OnRing => InvalidNotLive
    BY SizeAssumption DEF OnRing, InvalidNotLive, Invalid, Ring
  <1>2. QED
    BY <1>1, InitOnRing, NextOnRing, PTL DEF HandlersSpec

\* The search gives up only when every handler is in use but -1 and, it may be, the one
\* the counter stands at, which the loop does not look at (functions.cpp:47).
THEOREM FailsOnlyWhenFullCorrect == HandlersSpec => []FailsOnlyWhenFull
  <1>1. Cardinality(Ring) = Size - 1
    BY FS_Interval, SizeAssumption DEF Ring
  <1>2. OnRing => FailsOnlyWhenFull
    BY <1>1 DEF OnRing, FailsOnlyWhenFull
  <1>3. QED
    BY <1>2, InitOnRing, NextOnRing, PTL DEF HandlersSpec

\* The slot of a connection is its own until it is released (functions.cpp:50).
THEOREM LiveKeptCorrect == HandlersSpec => LiveKept
  <1>1. OnRing /\ [HandlersNext]_handlersVars => [\A h \in Live : h \in Live' => table'[h] = table[h]]_handlersVars
    <2> SUFFICES ASSUME OnRing, [HandlersNext]_handlersVars, NEW h \in Live, h \in Live'
                 PROVE  table'[h] = table[h]
      OBVIOUS
    <2>1. CASE GenerateConnectionHandler
      <3>1. Candidate(Min(FreeSlots)) \notin Live
        BY <2>1, FoundIsFree DEF GenerateConnectionHandler
      <3> QED
        BY <2>1, <3>1 DEF GenerateConnectionHandler
    <2>2. ASSUME NEW g \in Live, ReleaseConnectionHandler(g) PROVE table'[h] = table[h]
      BY <2>2 DEF ReleaseConnectionHandler, Live, Restrict
    <2>3. CASE table' = table
      BY <2>3
    <2> QED
      BY <2>1, <2>2, <2>3
         DEF HandlersNext, GenerateFails, CreateRunnable, FreeRunnable, handlersVars
  <1>2. QED
    BY <1>1, InitOnRing, NextOnRing, PTL DEF HandlersSpec, LiveKept

-----------------------------------------------------------------------------
(* The sockets.                                                            *)

\* What is open has a number below the limit.
OpenNumbers ==
  /\ DOMAIN sockets \subseteq 0 .. MaxOpen - 1
  /\ sockets = [n \in DOMAIN sockets |-> sockets[n]]

\* Handlers count up, the first is the main connection's, and those that are not
\* released have the descriptors.
HandlersCount ==
  /\ handlers \in Nat
  /\ main = IF handlers = 0 THEN 0 ELSE 1
  /\ comm \subseteq 2 .. handlers
  /\ DOMAIN descriptors = comm \cup (IF handlers = 0 THEN {} ELSE {1})

\* Before the main connection has its descriptor it is a single new socket.
Creating ==
  /\ reached \in {"addr", "socket", "option", "bind"} => handlers = 0
  /\ reached \in {"addr", "socket"} => \A n \in DOMAIN sockets : sockets[n] = "inherited"
  /\ reached \in {"option", "bind"} => \E n \in DOMAIN sockets : sockets[n] = "new"
  /\ reached \in {"listen", "loop", "events"} => handlers # 0

\* A descriptor leads to an open number.
Leads == \A h \in DOMAIN descriptors : descriptors[h] \in DOMAIN sockets

\* The inductive invariant: two descriptors have different sockets since a new socket
\* takes a number that is not open, and every descriptor's is.
SocketsInv == OpenNumbers /\ HandlersCount /\ Creating /\ Leads /\ DescriptorsHaveSockets

\* At the start only inherited numbers are open.
LEMMA InitSocketsInv == SocketsInit => SocketsInv
  <1> SUFFICES ASSUME SocketsInit PROVE SocketsInv
    OBVIOUS
  <1>1. PICK open \in Inheritances : sockets = [n \in open |-> "inherited"]
    BY DEF SocketsInit
  <1>2. DOMAIN sockets = open /\ open \subseteq 0 .. MaxOpen - 1
    BY <1>1, SocketsAssumption
  <1>3. DOMAIN descriptors = {}
    BY DEF SocketsInit
  <1>4. OpenNumbers
    BY <1>1, <1>2 DEF OpenNumbers
  <1> QED BY <1>1, <1>3, <1>4
          DEF SocketsInit, SocketsInv, HandlersCount, Creating, Leads, DescriptorsHaveSockets

\* The number a new socket gets was not open.
LEMMA LowestIsFree ==
  ASSUME SocketsInv, Free # {}
  PROVE  Lowest \in 0 .. MaxOpen - 1 /\ Lowest \notin DOMAIN sockets
  <1>1. Free \in SUBSET Nat
    BY SocketsAssumption DEF Free
  <1>2. \E n \in Free : \A other \in Free : n <= other
    BY <1>1, LeastNatural
  <1>3. Lowest \in Free
    BY <1>2 DEF Lowest
  <1> QED BY <1>3 DEF Free

\* The socket that is being made into the server's is open.
LEMMA NewIsOpen ==
  ASSUME SocketsInv, reached \in {"option", "bind"}
  PROVE  New \in DOMAIN sockets /\ sockets[New] = "new"
  <1>1. \E n \in DOMAIN sockets : sockets[n] = "new"
    BY DEF SocketsInv, Creating
  <1> QED BY <1>1 DEF New

\* A new socket takes a number nobody has.
LEMMA SocketInv ==
  ASSUME SocketsInv, Socket
  PROVE  SocketsInv'
  <1>1. Lowest \in 0 .. MaxOpen - 1 /\ Lowest \notin DOMAIN sockets
    BY LowestIsFree DEF Socket
  <1> DEFINE low == Lowest
  <1> HIDE DEF low
  <1>2. sockets' = [k \in DOMAIN sockets \cup {low} |-> IF k = low THEN "new" ELSE sockets[k]]
    BY DEF Socket, WithSocket, low
  <1>3. low \in 0 .. MaxOpen - 1 /\ low \notin DOMAIN sockets
    BY <1>1 DEF low
  <1>4. UNCHANGED tableVars /\ handlers = 0 /\ DOMAIN descriptors = {}
    BY DEF Socket, SocketsInv, Creating, HandlersCount, tableVars
  <1>5. sockets'[low] = "new" /\ low \in DOMAIN sockets'
    BY <1>2
  <1>6. reached' \in {"threw", "option"}
    BY DEF Socket
  <1>7. OpenNumbers'
    BY <1>2, <1>3 DEF SocketsInv, OpenNumbers
  <1>8. Creating'
    BY <1>4, <1>5, <1>6 DEF Creating, tableVars
  <1> QED BY <1>4, <1>7, <1>8 DEF SocketsInv, HandlersCount, tableVars, Leads, DescriptorsHaveSockets

\* A creation that fails leaves no descriptor.
LEMMA CreationFailsInv ==
  ASSUME SocketsInv, CreationFails
  PROVE  SocketsInv'
  <1>1. UNCHANGED tableVars /\ handlers = 0 /\ DOMAIN descriptors = {} /\ reached' = "threw"
    BY DEF CreationFails, SocketsInv, Creating, HandlersCount, tableVars
  <1>2. OpenNumbers'
    BY DEF CreationFails, SocketsInv, OpenNumbers
  <1> QED BY <1>1, <1>2 DEF SocketsInv, HandlersCount, tableVars, Leads, DescriptorsHaveSockets, Creating

\* Binding keeps the socket.
LEMMA BindInv ==
  ASSUME SocketsInv, Bind
  PROVE  SocketsInv'
  <1>1. New \in DOMAIN sockets /\ sockets[New] = "new"
    BY NewIsOpen DEF Bind
  <1>2. handlers = 0 /\ DOMAIN descriptors = {} /\ comm = {}
    BY DEF Bind, SocketsInv, Creating, HandlersCount
  <1>3. handlers' = 1 /\ main' = 1 /\ DOMAIN descriptors' = {1} /\ descriptors'[1] = New
    BY <1>2 DEF Bind, WithDescriptor
  <1>4. UNCHANGED <<sockets, comm>> /\ reached' = "listen"
    BY DEF Bind, kernelVars
  <1> QED BY <1>1, <1>2, <1>3, <1>4
          DEF SocketsInv, OpenNumbers, HandlersCount, Creating, Leads, DescriptorsHaveSockets

\* The server's connection gets the first descriptor and the new socket.
LEMMA StartListeningInv ==
  ASSUME SocketsInv, StartListening
  PROVE  SocketsInv'
  <1>1. main = 1 /\ main \in DOMAIN descriptors
    BY DEF StartListening, SocketsInv, Creating, HandlersCount
  <1>2. descriptors[main] \in DOMAIN sockets
    BY <1>1 DEF SocketsInv, Leads
  <1>3. UNCHANGED tableVars /\ reached' = "loop" /\ handlers # 0
        /\ sockets' = [sockets EXCEPT ![descriptors[main]] = "listening"]
    BY DEF StartListening, SocketsInv, Creating, HandlersCount, tableVars
  <1>4. /\ DOMAIN sockets' = DOMAIN sockets
        /\ \A n \in DOMAIN sockets : sockets'[n] = IF n = descriptors[main] THEN "listening" ELSE sockets[n]
        /\ sockets' = [n \in DOMAIN sockets' |-> sockets'[n]]
    BY <1>3 DEF SocketsInv, OpenNumbers
  <1>5. OpenNumbers' /\ HandlersCount' /\ Creating'
    BY <1>3, <1>4 DEF SocketsInv, OpenNumbers, HandlersCount, Creating, tableVars
  <1>6. Leads'
    BY <1>3, <1>4 DEF SocketsInv, Leads, tableVars
  <1>7. DescriptorsHaveSockets'
    BY <1>3, <1>4 DEF SocketsInv, Leads, tableVars, DescriptorsHaveSockets
  <1> QED BY <1>5, <1>6, <1>7 DEF SocketsInv

\* An accepted connection gets a number no descriptor leads to.
LEMMA AcceptInv ==
  ASSUME SocketsInv, AcceptNewConnection
  PROVE  SocketsInv'
  <1> DEFINE low == Lowest
  <1>3. low \in 0 .. MaxOpen - 1 /\ low \notin DOMAIN sockets
    BY LowestIsFree DEF AcceptNewConnection
  <1>2. /\ sockets' = [k \in DOMAIN sockets \cup {low} |-> IF k = low THEN "connected" ELSE sockets[k]]
        /\ descriptors' = [h \in DOMAIN descriptors \cup {handlers + 1} |->
                             IF h = handlers + 1 THEN low ELSE descriptors[h]]
        /\ handlers' = handlers + 1 /\ comm' = comm \cup {handlers + 1} /\ main' = main
        /\ reached' = "loop" /\ reached = "events"
    BY DEF AcceptNewConnection, WithSocket, WithDescriptor, low
  <1> HIDE DEF low
  <1>4. handlers \in Nat /\ handlers # 0 /\ handlers + 1 \notin DOMAIN descriptors
    BY <1>2 DEF SocketsInv, HandlersCount, Creating
  <1>5. OpenNumbers'
    BY <1>2, <1>3 DEF SocketsInv, OpenNumbers
  <1>6. HandlersCount' /\ Creating'
    <2>1. DOMAIN descriptors' = DOMAIN descriptors \cup {handlers + 1}
      BY <1>2
    <2> QED BY <1>2, <1>4, <2>1 DEF SocketsInv, HandlersCount, Creating
  <1>7. /\ \A h \in DOMAIN descriptors : descriptors'[h] = descriptors[h] /\ descriptors[h] # low
                                         /\ sockets'[descriptors[h]] = sockets[descriptors[h]]
        /\ descriptors'[handlers + 1] = low /\ sockets'[low] = "connected"
        /\ DOMAIN descriptors' = DOMAIN descriptors \cup {handlers + 1}
    BY <1>2, <1>3, <1>4 DEF SocketsInv, Leads
  <1>8. Leads'
    BY <1>2, <1>7 DEF SocketsInv, Leads
  <1>9. DescriptorsHaveSockets'
    BY <1>7 DEF SocketsInv, DescriptorsHaveSockets
  <1> QED BY <1>5, <1>6, <1>8, <1>9 DEF SocketsInv

\* A closed connection loses its descriptor; its number stays open.
LEMMA CloseInv ==
  ASSUME SocketsInv, NEW h \in comm, CloseConnection(h)
  PROVE  SocketsInv'
  <1>1. /\ sockets' = [sockets EXCEPT ![descriptors[h]] = "shut"]
        /\ descriptors' = [k \in DOMAIN descriptors \ {h} |-> descriptors[k]]
        /\ comm' = comm \ {h} /\ UNCHANGED <<main, handlers, reached>>
    BY DEF CloseConnection
  <1>2. h \in DOMAIN descriptors /\ h # 1
    BY DEF SocketsInv, HandlersCount
  <1>3. /\ DOMAIN sockets' = DOMAIN sockets
        /\ \A n \in DOMAIN sockets : n # descriptors[h] => sockets'[n] = sockets[n]
    BY <1>1
  <1>4. /\ DOMAIN descriptors' = DOMAIN descriptors \ {h}
        /\ \A k \in DOMAIN descriptors' : descriptors'[k] = descriptors[k] /\ descriptors[k] # descriptors[h]
    BY <1>1, <1>2 DEF SocketsInv, DescriptorsHaveSockets
  <1>5. OpenNumbers'
    BY <1>1 DEF SocketsInv, OpenNumbers
  <1>6. HandlersCount'
    BY <1>1, <1>2, <1>4 DEF SocketsInv, HandlersCount
  <1>7. Creating'
    BY <1>1, reached = "loop" DEF SocketsInv, Creating, CloseConnection
  <1>8. Leads'
    BY <1>3, <1>4 DEF SocketsInv, Leads
  <1>9. DescriptorsHaveSockets'
    BY <1>3, <1>4 DEF SocketsInv, DescriptorsHaveSockets, Leads
  <1> QED BY <1>5, <1>6, <1>7, <1>8, <1>9 DEF SocketsInv

\* SocketsInv is inductive.
LEMMA NextSocketsInv == SocketsInv /\ [SocketsNext]_socketsVars => SocketsInv'
  <1> SUFFICES ASSUME SocketsInv, [SocketsNext]_socketsVars PROVE SocketsInv'
    OBVIOUS
  <1>1. CASE Socket
    BY <1>1, SocketInv
  <1>2. CASE CreationFails
    BY <1>2, CreationFailsInv
  <1>3. CASE Bind
    BY <1>3, BindInv
  <1>4. CASE StartListening
    BY <1>4, StartListeningInv
  <1>5. CASE AcceptNewConnection
    BY <1>5, AcceptInv
  <1>6. ASSUME NEW h \in comm, CloseConnection(h) PROVE SocketsInv'
    BY <1>6, CloseInv
  <1>7. CASE UNCHANGED <<sockets, tableVars>> /\ Creating'
    BY <1>7 DEF SocketsInv, OpenNumbers, HandlersCount, Leads, DescriptorsHaveSockets, tableVars
  <1>8. CASE GetAddrInfo \/ GetAddrInfoFails \/ GetAddrInfoMissed \/ SocketFails \/ SetSockOpt
    BY <1>7, <1>8 DEF GetAddrInfo, GetAddrInfoFails, GetAddrInfoMissed, SocketFails, SetSockOpt,
                      SocketsInv, Creating, tableVars, kernelVars
  <1>9. CASE ListenFails \/ OutsideSet \/ Select \/ SelectInterrupted
    BY <1>7, <1>9 DEF ListenFails, OutsideSet, Select, SelectInterrupted,
                      SocketsInv, Creating, tableVars, kernelVars
  <1>10. CASE AcceptFails \/ EventsDone \/ SocketsOver \/ UNCHANGED socketsVars
    BY <1>7, <1>10 DEF AcceptFails, EventsDone, SocketsOver, socketsVars,
                      SocketsInv, Creating, tableVars, kernelVars
  <1> QED BY <1>1, <1>2, <1>3, <1>4, <1>5, <1>6, <1>8, <1>9, <1>10 DEF SocketsNext

\* Whatever was open when the program started and whatever the limits, a descriptor leads
\* to an open socket that no other has (functions.cpp:194-196, 235-237, 246-253).
THEOREM DescriptorsHaveSocketsCorrect == SocketsSpec => []DescriptorsHaveSockets
  <1>1. SocketsInv => DescriptorsHaveSockets
    BY DEF SocketsInv
  <1> QED BY <1>1, InitSocketsInv, NextSocketsInv, PTL DEF SocketsSpec

-----------------------------------------------------------------------------
(* The order of the map.                                                   *)

\* A list of the members of a set of numbers, in increasing order and each once.
Increasing(list, S) ==
  /\ list \in [1 .. Cardinality(S) -> S]
  /\ \A m \in S : \E k \in 1 .. Cardinality(S) : list[k] = m
  /\ \A i, j \in 1 .. Cardinality(S) : i < j => list[i] < list[j]

\* The largest number is put behind the others.
LEMMA LargestLast ==
  ASSUME NEW n \in Nat, NEW S \in SUBSET (1 .. n + 1), n + 1 \in S,
         NEW f, Increasing(f, S \ {n + 1})
  PROVE  \E g : Increasing(g, S)
  <1> DEFINE k == Cardinality(S \ {n + 1})
             g == [i \in 1 .. k + 1 |-> IF i = k + 1 THEN n + 1 ELSE f[i]]
  <1>1. IsFiniteSet(S \ {n + 1})
    BY FS_Interval, FS_Subset, 1 \in Int, n + 1 \in Int, S \ {n + 1} \in SUBSET (1 .. n + 1), Zenon
  <1>2. k \in Nat
    BY <1>1, FS_CardinalityType
  <1>3. (S \ {n + 1}) \cup {n + 1} = S
    OBVIOUS
  <1>4. Cardinality(S) = k + 1
    BY <1>1, <1>3, FS_AddElement, n + 1 \notin S \ {n + 1}, Zenon
  <1>5. \A i \in 1 .. k : f[i] \in S \ {n + 1}
    BY DEF Increasing
  <1>6. \A m \in S \ {n + 1} : \E i \in 1 .. k : f[i] = m
    BY DEF Increasing
  <1>7. \A i, j \in 1 .. k : i < j => f[i] < f[j]
    BY DEF Increasing
  <1> HIDE DEF k
  <1>8. \A i \in 1 .. k + 1 : g[i] = IF i = k + 1 THEN n + 1 ELSE f[i]
    OBVIOUS
  <1>9. g \in [1 .. k + 1 -> S]
    BY <1>2, <1>5
  <1>10. \A m \in S : \E i \in 1 .. k + 1 : g[i] = m
    BY <1>2, <1>6
  <1>11. ASSUME NEW i \in 1 .. k + 1, NEW j \in 1 .. k + 1, i < j PROVE g[i] < g[j]
    <2>1. CASE j \in 1 .. k
      <3>1. i \in 1 .. k
        BY <1>2, <1>11, <2>1
      <3> QED BY <1>2, <1>7, <1>11, <2>1, <3>1
    <2>2. CASE j = k + 1
      <3>1. i \in 1 .. k /\ g[i] = f[i] /\ g[j] = n + 1
        BY <1>2, <1>8, <1>11, <2>2
      <3>2. \A m \in S \ {n + 1} : m \in 1 .. n
        OBVIOUS
      <3>3. f[i] \in 1 .. n
        BY <1>5, <3>1, <3>2
      <3> QED BY <3>1, <3>3
    <2> QED BY <1>2, <2>1, <2>2
  <1> HIDE DEF g
  <1>12. Increasing(g, S)
    BY <1>4, <1>9, <1>10, <1>11 DEF Increasing
  <1> QED BY <1>12

\* Any set of numbers up to n can be listed in increasing order.
LEMMA IncreasingExists ==
  ASSUME NEW n \in Nat, NEW S \in SUBSET (1 .. n)
  PROVE  \E f : Increasing(f, S)
  <1> DEFINE P(m) == \A T \in SUBSET (1 .. m) : \E f : Increasing(f, T)
             Good == {m \in Nat : P(m)}
  <1>1. 0 \in Good
    <2> SUFFICES ASSUME NEW T \in SUBSET (1 .. 0) PROVE \E f : Increasing(f, T)
      OBVIOUS
    <2>1. T = {} /\ Cardinality(T) = 0 /\ 1 .. 0 = {}
      <3>1. T = {} /\ 1 .. 0 = {}
        OBVIOUS
      <3> QED BY <3>1, FS_EmptySet, Zenon
    <2>2. PICK f : f = [i \in {} |-> 0]
      OBVIOUS
    <2>3. f \in [1 .. 0 -> {}]
      BY <2>1, <2>2
    <2>4. Increasing(f, T)
      BY <2>1, <2>3 DEF Increasing
    <2> QED BY <2>4
  <1>2. ASSUME NEW m \in Nat, m \in Good PROVE m + 1 \in Good
    <2> SUFFICES ASSUME NEW T \in SUBSET (1 .. m + 1) PROVE \E f : Increasing(f, T)
      OBVIOUS
    <2>1. P(m) /\ T \ {m + 1} \in SUBSET (1 .. m)
      BY <1>2
    <2>2. PICK f : Increasing(f, T \ {m + 1})
      BY <2>1
    <2>3. CASE m + 1 \in T
      BY <2>2, <2>3, LargestLast
    <2>4. CASE m + 1 \notin T
      BY <2>2, <2>4, T \ {m + 1} = T
    <2> QED BY <2>3, <2>4
  <1>3. Nat \subseteq Good
    <2> HIDE DEF Good
    <2> QED BY <1>1, <1>2, SetInduction
  <1> QED BY <1>3

\* The number of members before the k-th is k - 1.
LEMMA BeforeTheKth ==
  ASSUME NEW n \in Nat, NEW S \in SUBSET (1 .. n), NEW f, Increasing(f, S),
         NEW k \in 1 .. Cardinality(S)
  PROVE  Cardinality({m \in S : m < f[k]}) = k - 1
  <1> DEFINE T == {m \in S : m < f[k]}
             g == [i \in 1 .. k - 1 |-> f[i]]
             last == Cardinality(S)
  <1>1. IsFiniteSet(S) /\ last \in Nat
    BY FS_Interval, FS_Subset, FS_CardinalityType, 1 \in Int, n \in Int, Zenon
  <1> HIDE DEF last
  <1>2. /\ \A i \in 1 .. last : f[i] \in S
        /\ \A m \in S : \E i \in 1 .. last : f[i] = m
        /\ \A i, j \in 1 .. last : i < j => f[i] < f[j]
        /\ k \in 1 .. last
    BY DEF Increasing, last
  <1>3. \A m \in S : m \in Nat
    OBVIOUS
  <1>4. ASSUME NEW m \in T PROVE \E i \in 1 .. k - 1 : g[i] = m
    <2>1. PICK i \in 1 .. last : f[i] = m
      BY <1>2
    <2>2. f[i] < f[k] /\ f[i] \in Nat /\ f[k] \in Nat
      BY <1>2, <1>3, <2>1
    <2>3. ~(k < i) /\ k # i
      BY <1>2, <2>2
    <2>4. i \in 1 .. k - 1
      BY <1>1, <1>2, <2>3
    <2> QED BY <2>1, <2>4
  <1>5. \A i \in 1 .. k - 1 : g[i] = f[i] /\ i \in 1 .. last /\ f[i] \in T
    BY <1>1, <1>2
  <1>6. g \in [1 .. k - 1 -> T]
    BY <1>5
  <1>7. ASSUME NEW i \in 1 .. k - 1, NEW j \in 1 .. k - 1, g[i] = g[j] PROVE i = j
    <2>1. f[i] = f[j] /\ f[i] \in Nat /\ i \in 1 .. last /\ j \in 1 .. last
      BY <1>3, <1>5, <1>7
    <2>2. ~(i < j) /\ ~(j < i)
      BY <1>2, <2>1
    <2> QED BY <1>1, <2>1, <2>2
  <1> HIDE DEF g, T
  <1>8. g \in Bijection(1 .. k - 1, T)
    BY <1>4, <1>6, <1>7, Fun_IsBij, Zenon
  <1>9. ExistsBijection(1 .. k - 1, T)
    BY <1>8, Zenon DEF ExistsBijection
  <1>10. IsFiniteSet(1 .. k - 1) /\ Cardinality(1 .. k - 1) = k - 1
    BY <1>1, <1>2, FS_Interval
  <1>11. Cardinality(T) = k - 1
    BY <1>9, <1>10, FS_Bijection, Zenon
  <1> QED BY <1>11 DEF T

\* select lists handlers in the order of the map, each once.
LEMMA InOrderIncreasing ==
  ASSUME NEW n \in Nat, Asked \subseteq 1 .. n, NEW isset
  PROVE  /\ Increasing(InOrder(isset), {h \in Asked : conn2sock[h] \in isset})
         /\ Cardinality({h \in Asked : conn2sock[h] \in isset}) \in Nat
  <1> DEFINE S == {h \in Asked : conn2sock[h] \in isset}
             last == Cardinality(S)
  <1>0. InOrder(isset) = [k \in 1 .. last |-> CHOOSE h \in S : Cardinality({m \in S : m < h}) = k - 1]
    BY DEF InOrder
  <1>1. S \in SUBSET (1 .. n)
    OBVIOUS
  <1> HIDE DEF S
  <1>2. IsFiniteSet(S) /\ last \in Nat
    BY <1>1, FS_Interval, FS_Subset, FS_CardinalityType, 1 \in Int, n \in Int, Zenon
  <1>3. PICK f : Increasing(f, S)
    BY <1>1, IncreasingExists, Zenon
  <1>4. \A k \in 1 .. last : Cardinality({m \in S : m < f[k]}) = k - 1
    BY <1>1, <1>3, BeforeTheKth, Zenon
  <1>5. /\ f \in [1 .. last -> S]
        /\ \A m \in S : \E i \in 1 .. last : f[i] = m
    BY <1>3 DEF Increasing
  <1>6. ASSUME NEW k \in 1 .. last, NEW h \in S, Cardinality({m \in S : m < h}) = k - 1
        PROVE  h = f[k]
    <2>1. PICK i \in 1 .. last : f[i] = h
      BY <1>5
    <2>2. i - 1 = k - 1
      BY <1>4, <1>6, <2>1
    <2> QED BY <1>2, <2>1, <2>2
  <1> HIDE DEF last
  <1>7. \A k \in 1 .. last : InOrder(isset)[k] = f[k]
    BY <1>0, <1>4, <1>5, <1>6
  <1>8. InOrder(isset) = f
    BY <1>0, <1>5, <1>7
  <1> QED BY <1>2, <1>3, <1>8 DEF S, last

-----------------------------------------------------------------------------

\* What select has reported of the connections it was asked for.
Reported ==
  reached = "events" =>
    /\ \A h \in Asked : h \in Range(read) <=> interrupted \/ descriptors[h] \in ready
    /\ \A h \in Range(read) : h \in Asked
    /\ \A k \in DOMAIN read : read[k] = main => k = 1

\* The list of select, for any set of numbers.
LEMMA SelectLists ==
  ASSUME SocketsInv, reached = "loop", NEW isset
  PROVE  /\ \A h \in Asked : h \in Range(InOrder(isset)) <=> descriptors[h] \in isset
         /\ \A h \in Range(InOrder(isset)) : h \in Asked
         /\ \A k \in DOMAIN InOrder(isset) : InOrder(isset)[k] = main => k = 1
  <1> DEFINE S == {h \in Asked : conn2sock[h] \in isset}
             list == InOrder(isset)
  <1>1. handlers \in Nat /\ main = 1 /\ Asked \subseteq 1 .. handlers
    BY DEF SocketsInv, HandlersCount, Creating, Asked
  <1>2. Increasing(list, S) /\ Cardinality(S) \in Nat
    BY <1>1, InOrderIncreasing
  <1>3. \A h \in Asked : h \in S <=> descriptors[h] \in isset
    BY DEF conn2sock
  <1>4. \A h \in S : h \in Asked
    OBVIOUS
  <1> HIDE DEF S, list
  <1>5. /\ DOMAIN list = 1 .. Cardinality(S)
        /\ \A k \in 1 .. Cardinality(S) : list[k] \in S
        /\ \A h \in S : \E k \in 1 .. Cardinality(S) : list[k] = h
        /\ \A i, j \in 1 .. Cardinality(S) : i < j => list[i] < list[j]
    BY <1>2 DEF Increasing
  <1>6. Range(list) = S
    BY <1>5 DEF Range
  <1>7. ASSUME NEW k \in DOMAIN list, list[k] = main PROVE k = 1
    <2>1. CASE 1 < k
      <3>1. 1 \in 1 .. Cardinality(S) /\ k \in 1 .. Cardinality(S)
        BY <1>2, <1>5, <1>7, <2>1
      <3>2. list[1] < 1
        BY <1>1, <1>5, <1>7, <2>1, <3>1
      <3>3. list[1] \in 1 .. handlers
        BY <1>1, <1>4, <1>5, <3>1
      <3> QED BY <1>1, <3>2, <3>3
    <2> QED BY <1>2, <1>5, <1>7, <2>1
  <1> QED BY <1>3, <1>4, <1>6, <1>7 DEF list

\* The largest of the numbers select is given is one of them.
LEMMA LargestIsLargest ==
  ASSUME SocketsInv, reached = "loop"
  PROVE  \A n \in Range(conn2sock) : n \in Nat /\ Largest \in Nat /\ n <= Largest
  <1>1. \A h \in Asked : descriptors[h] \in 0 .. MaxOpen - 1
    BY DEF SocketsInv, HandlersCount, Creating, Asked, Leads, OpenNumbers
  <1>2. Range(conn2sock) \subseteq 0 .. MaxOpen - 1 /\ Range(conn2sock) # {}
    BY <1>1 DEF Range, conn2sock, Asked
  <1> DEFINE R == Range(conn2sock)
             Above == {b \in Nat : \A n \in R : n <= b}
  <1> HIDE DEF R
  <1>3. R \subseteq 0 .. MaxOpen - 1 /\ R # {} /\ MaxOpen \in Nat
    BY <1>2, SocketsAssumption DEF R
  <1>4. MaxOpen \in Above
    BY <1>3
  <1>5. PICK b \in Above : \A other \in Above : b <= other
    BY <1>4, LeastNatural
  <1>6. b \in R
    <2> SUFFICES ASSUME b \notin R PROVE FALSE
      OBVIOUS
    <2>0. \A n \in R : n <= b
      BY <1>5
    <2>1. PICK n \in R : n \in Nat /\ n <= b
      BY <1>3, <2>0, 0 .. MaxOpen - 1 \subseteq Nat
    <2>2. b - 1 \in Nat
      BY <1>5, <2>1
    <2>3. \A m \in R : m <= b - 1
      BY <1>3, <1>5
    <2> QED BY <1>5, <2>2, <2>3
  <1>7. \E n \in R : \A other \in R : other <= n
    BY <1>5, <1>6
  <1>8. Largest \in R /\ \A other \in R : other <= Largest
    BY <1>7 DEF Largest, R
  <1> QED BY <1>3, <1>8 DEF R

\* What select reported stays so while its events are handled.
LEMMA NextReported == SocketsInv /\ SocketsInv' /\ Reported /\ [SocketsNext]_socketsVars => Reported'
  <1> SUFFICES ASSUME SocketsInv, SocketsInv', Reported, [SocketsNext]_socketsVars, reached' = "events"
               PROVE  Reported'
    BY DEF Reported
  <1>1. CASE Select
    <2>1. PICK numbers \in SUBSET Range(conn2sock) :
            ready' = numbers /\ read' = InOrder({n \in numbers : n < nfds})
      BY <1>1 DEF Select
    <2>2. {n \in numbers : n < nfds} = numbers
      BY <1>1, LargestIsLargest DEF nfds, Select
    <2>3. UNCHANGED tableVars /\ interrupted' = FALSE /\ read' = InOrder(numbers)
      BY <1>1, <2>1, <2>2 DEF Select
    <2>4. Asked' = Asked
      BY <2>3 DEF Asked, tableVars
    <2> QED BY <1>1, <2>1, <2>3, <2>4, SelectLists DEF Reported, Select, tableVars
  <1>2. CASE SelectInterrupted
    <2>1. UNCHANGED tableVars /\ interrupted' = TRUE /\ read' = InOrder(Range(conn2sock))
      BY <1>2 DEF SelectInterrupted
    <2>2. Asked' = Asked
      BY <2>1 DEF Asked, tableVars
    <2>3. \A h \in Asked : descriptors[h] \in Range(conn2sock)
      BY DEF conn2sock, Range
    <2> QED BY <1>2, <2>1, <2>2, <2>3, SelectLists DEF Reported, SelectInterrupted, tableVars
  <1>3. CASE UNCHANGED socketsVars
    BY <1>3 DEF Reported, socketsVars, Asked
  <1>4. reached' # "events" \/ UNCHANGED socketsVars \/ Select \/ SelectInterrupted
    BY DEF SocketsNext, GetAddrInfo, GetAddrInfoFails, GetAddrInfoMissed, Socket, SocketFails,
           SetSockOpt, CreationFails, Bind, StartListening, ListenFails, OutsideSet,
           AcceptNewConnection, AcceptFails, EventsDone, SocketsOver, CloseConnection
  <1> QED BY <1>1, <1>2, <1>3, <1>4

\* select reports all that is ready and nothing else, or all when a signal comes, the
\* main connection first, whatever numbers the sockets have (functions.cpp:346-399).
THEOREM ReadyAndNoOtherCorrect == SocketsSpec => []ReadyAndNoOther
  <1>1. SocketsInit => Reported
    BY DEF SocketsInit, Reported
  <1>2. Reported => ReadyAndNoOther
    BY DEF Reported, ReadyAndNoOther
  <1> QED BY <1>1, <1>2, InitSocketsInv, NextSocketsInv, NextReported, PTL DEF SocketsSpec
=============================================================================
