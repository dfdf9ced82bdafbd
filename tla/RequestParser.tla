--------------------------- MODULE RequestParser ---------------------------
(***************************************************************************)
(* HttpServer::ReadRequest (httpServer.cpp:84-140) on the DataBuffer that   *)
(* one recv has filled: each step reads one chunk of the request.          *)
(*                                                                         *)
(* Bytes are the three the parser looks for, and letters.                  *)
(***************************************************************************)
EXTENDS Naturals, Sequences, FiniteSets, FiniteSetsExt, SequencesExt

CONSTANTS
  Space, Return, NewLine,  \* the bytes ' ', '\r' and '\n'
  Letters,    \* the others
  Requests,   \* what clients ask for: type, path, protocol, headers
  Streams,    \* byte sequences that are no rendering of a request
  ReadSize    \* c_read_buffer_sz

Bytes == Letters \cup {Space, Return, NewLine}

ASSUME ParserAssumption ==
  /\ Streams \subseteq Seq(Bytes)
  /\ ReadSize \in Nat \ {0}
  /\ Space # NewLine /\ Return # NewLine /\ Space # Return

NoRequest == [request_type |-> <<>>, path |-> <<>>, protocol |-> <<>>, headers |-> <<>>]

VARIABLES
  asked, sent,     \* by the client: the request, its bytes
  data, position,  \* the DataBuffer; its size is Len(data)
  request_type, path, protocol, other,  \* the HttpRequest
  line,
  pc

bufferVars == <<asked, sent, data>>
requestVars == <<request_type, path, protocol, other>>
parserVars == <<bufferVars, position, requestVars, line, pc>>

Line(bytes) == bytes \o <<Return, NewLine>>

\* HTTP/1.1: the request line, the headers and an empty line.
Rendered(r) ==
  Line(r.request_type \o <<Space>> \o r.path \o <<Space>> \o r.protocol)
    \o FlattenSeq([n \in DOMAIN r.headers |-> Line(r.headers[n])])
    \o Line(<<>>)

\* The grammar of HTTP: words have no blank in them, and neither a path nor a header is empty.
WordsOfBytes == Seq(Bytes \ {Space, NewLine})

ASSUME RequestsAssumption ==
  \A r \in Requests :
    /\ r.request_type \in WordsOfBytes /\ r.path \in WordsOfBytes \ {<<>>} /\ r.protocol \in WordsOfBytes
    /\ r.headers \in Seq(Seq(Bytes \ {NewLine}) \ {<<>>})

ParserInit ==
  /\ \/ asked \in Requests /\ sent = Rendered(asked)
     \/ asked = NoRequest /\ sent \in Streams
  /\ data = <<>> /\ position = 0
  /\ request_type = <<>> /\ path = <<>> /\ protocol = <<>> /\ other = <<>>
  /\ line = <<>>
  /\ pc = "recv"

\* One recv: what has arrived by then, at most ReadSize bytes of it, and nothing
\* when the client has closed.
ReadBuffer ==
  /\ pc = "recv"
  /\ \E n \in 0 .. Len(sent) : n <= ReadSize /\ data' = SubSeq(sent, 1, n)
  /\ pc' = "request_type"
  /\ UNCHANGED <<asked, sent, position, requestVars, line>>

-----------------------------------------------------------------------------
(* ReadDataChunk: from position up to a delimiter, a new line or the end;  *)
(* past the delimiter, and past the spaces that follow a ' '.              *)

size == Len(data)

\* A defect: a line end does not end a word.
EndsAtDelimiter(p, delim) == p = size \/ data[p + 1] = delim

Ends(p, delim) == p = size \/ data[p + 1] \in {delim, NewLine}

ChunkEnd(delim) == CHOOSE p \in position .. size :
                     /\ Ends(p, delim)
                     /\ \A q \in position .. p - 1 : ~Ends(q, delim)

Chunk(delim) == SubSeq(data, position + 1, ChunkEnd(delim))

AfterDelimiter(delim) == IF ChunkEnd(delim) < size THEN ChunkEnd(delim) + 1 ELSE size

\* A defect: the delimiter is left.
AtDelimiter(delim) == ChunkEnd(delim)

AfterChunk(delim) ==
  IF delim # Space THEN AfterDelimiter(delim)
  ELSE CHOOSE p \in AfterDelimiter(delim) .. size :
         /\ p = size \/ data[p + 1] # Space
         /\ \A q \in AfterDelimiter(delim) .. p - 1 : data[q + 1] = Space

ReadRequestType ==
  /\ pc = "request_type"
  /\ request_type' = Chunk(Space)
  /\ position' = AfterChunk(Space)
  /\ pc' = "path"
  /\ UNCHANGED <<bufferVars, path, protocol, other, line>>

ReadPath ==
  /\ pc = "path"
  /\ path' = Chunk(Space)
  /\ position' = AfterChunk(Space)
  /\ pc' = "protocol"
  /\ UNCHANGED <<bufferVars, request_type, protocol, other, line>>

ReadProtocol ==
  /\ pc = "protocol"
  /\ protocol' = Chunk(NewLine)
  /\ position' = AfterChunk(NewLine)
  /\ pc' = "line"
  /\ UNCHANGED <<bufferVars, request_type, path, other, line>>

ReadFirstLine ==
  /\ pc = "line"
  /\ line' = Chunk(NewLine)
  /\ position' = AfterChunk(NewLine)
  /\ pc' = "lines"
  /\ UNCHANGED <<bufferVars, requestVars>>

\* Two defects: only one of the two kinds of empty line ends the headers.
LastWhenEmpty == line = <<>>

LastWhenReturn == line = <<Return>>

LastLine == line = <<>> \/ line = <<Return>>

\* The line just read is stored, not the one tested.
ReadNextLine ==
  /\ pc = "lines" /\ ~LastLine
  /\ line' = Chunk(NewLine)
  /\ other' = Append(other, Chunk(NewLine))
  /\ position' = AfterChunk(NewLine)
  /\ UNCHANGED <<bufferVars, request_type, path, protocol, pc>>

ReadDone ==
  /\ pc = "lines" /\ LastLine
  /\ pc' = "done"
  /\ UNCHANGED <<bufferVars, position, requestVars, line>>

Done == pc = "done" /\ UNCHANGED parserVars

ParserNext ==
  \/ ReadBuffer \/ ReadRequestType \/ ReadPath \/ ReadProtocol
  \/ ReadFirstLine \/ ReadNextLine \/ ReadDone \/ Done

ParserSpec == ParserInit /\ [][ParserNext]_parserVars

-----------------------------------------------------------------------------

Received(n) == Len(data) >= n

\* The path that is served is the one asked for when the blank after it was in the
\* one read, and otherwise a beginning of it: never another part of the request,
\* wherever the client's bytes were cut (functions.cpp:303-317, httpServer.cpp:88-95).
PathAsAsked ==
  pc = "done" /\ asked # NoRequest =>
    LET upToPath == Len(asked.request_type) + 1 + Len(asked.path) IN
      /\ IsPrefix(request_type, asked.request_type)
      /\ IsPrefix(path, asked.path)
      /\ Received(upToPath) => request_type = asked.request_type /\ path = asked.path

\* A request received whole: its protocol and headers keep the '\r', the first
\* header is lost and the empty line is taken for one (httpServer.cpp:96-108).
HeadersShifted ==
  pc = "done" /\ asked # NoRequest /\ data = sent =>
    /\ protocol = asked.protocol \o <<Return>>
    /\ other = IF asked.headers = <<>> THEN <<>>
               ELSE [n \in 1 .. Len(asked.headers) |->
                       IF n < Len(asked.headers) THEN asked.headers[n + 1] \o <<Return>>
                       ELSE <<Return>>]

Without(bytes, some) == \A n \in DOMAIN bytes : bytes[n] \notin some

\* Whatever bytes arrive, no part of a request holds what separates the parts: the
\* type and the path, which goes into the response, are single words of one line.
PartsSeparated ==
  /\ Without(request_type, {Space, NewLine}) /\ Without(path, {Space, NewLine})
  /\ Without(protocol, {NewLine}) /\ Without(line, {NewLine})
  /\ \A n \in DOMAIN other : Without(other[n], {NewLine})

\* Each turn of the header loop consumes a byte or ends the loop: whatever arrives,
\* also cut in the middle of a line, a worker does not read on for ever (httpServer.cpp:102-108).
HeadersAdvance == [][pc = "lines" /\ pc' = "lines" => position' > position \/ LastLine']_parserVars
=============================================================================
