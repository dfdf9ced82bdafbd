------------------------------ MODULE MCParts ------------------------------
(***************************************************************************)
(* The parts that share no state with one another, for checking: each      *)
(* behaviour is of one part, and the others stay where they start.         *)
(***************************************************************************)
EXTENDS HandlerTable, ArgumentsParser, RequestParser, HtmlCalls, CommandProcessor,
        FileData, DateTime, GmtNow, Sockets

VARIABLE part  \* the one that moves

-----------------------------------------------------------------------------
(* Command lines: every shape of argument.  Empty, dashes only, a key in    *)
(* three spellings, another key, a key-like one that ends in a dash, plain. *)

Shapes ==
  {<<>>, <<"-">>, <<"-", "-">>, <<"-", "p">>, <<"-", "-", "p">>, <<"-", "-", "-", "p">>,
   <<"-", "-", "q">>, <<"-", "p", "-">>, <<"x">>, <<"y">>}

PortDefault == [k \in {<<"p">>} |-> <<"d">>]

-----------------------------------------------------------------------------
(* Requests with no header, one and three, and with two paths; and every    *)
(* short stream: without a line, with empty lines, many blanks, no letters. *)

SomeRequests ==
  [request_type : {<<"G">>, <<"G", "E">>}, path : {<<"a">>, <<"a", "b">>},
   protocol : {<<"H">>},
   headers : {<<>>, <<<<"x">>>>, <<<<"x">>, <<"y", Space, "z">>, <<"z">>>>}]

ShortStreams == UNION {[1 .. n -> {"a", Space, Return, NewLine}] : n \in 0 .. 5}

-----------------------------------------------------------------------------
(* Two paths of requests: "same" names one place with the root and without, *)
(* "other" names two.                                                       *)

MCRooted == ("same" :> "top" @@ "other" :> "under root")

MCBare == ("same" :> "top" @@ "other" :> "outside")

-----------------------------------------------------------------------------
(* Dates at the ends of the fields' ranges, in years before and after the  *)
(* century; words at, below and above every bound, names of each table and *)
(* of none.                                                                *)

TmOf(wday, mday, mon, year, hour, min, sec) ==
  [wday |-> wday, mday |-> mday, mon |-> mon, year |-> year, hour |-> hour, min |-> min, sec |-> sec]

LastSecond == TmOf(5, 31, 11, 99, 23, 59, 59)

MCDates ==
  {LastSecond, TmOf(5, 31, 11, 109, 23, 59, 59), TmOf(6, 1, 0, 100, 0, 0, 0),
   TmOf(0, 9, 4, 116, 9, 5, 3), TmOf(2, 12, 1, 170, 12, 12, 12), TmOf(3, 7, 7, 199, 7, 8, 9)}

MCWords ==
  {Number(n) : n \in {0, 1, 5, 8, 9, 11, 12, 23, 24, 31, 59, 60, 99, 100, 2009}}
    \cup {Name(name) : name \in {"Fri", "Friday", "Jan", "Dec", "GMT", "xyz"}}
    \cup {[name |-> "31st", number |-> 31]}

-----------------------------------------------------------------------------

\* A part that does not move has the least of its inputs.
Init ==
  /\ part \in {"handlers", "arguments", "parser", "html", "command", "file", "date", "gmt", "sockets"}
  /\ part = "arguments" \/ argv = <<>>
  /\ part = "parser" \/ sent = <<>>
  /\ \/ part = "command"
     \/ /\ fs = [place \in Places |-> "none"] /\ entries = [name \in Names |-> "none"]
        /\ request = [method |-> "GET", path |-> "same"]
  /\ part = "file" \/ length = [file \in FilePaths |-> NoFile]
  /\ part = "date" \/ (date = LastSecond /\ format = 1 /\ change = NoChange)
  /\ part = "sockets" \/ sockets = [n \in {} |-> "inherited"]
  /\ HandlersInit /\ ArgumentsInit /\ ParserInit /\ HtmlInit /\ CommandInit
  /\ FileInit /\ DateInit /\ GmtInit /\ SocketsInit

Next ==
  /\ UNCHANGED part
  /\ IF part = "handlers" THEN HandlersNext ELSE UNCHANGED handlersVars
  /\ IF part = "arguments" THEN ArgumentsNext ELSE UNCHANGED argumentsVars
  /\ IF part = "parser" THEN ParserNext ELSE UNCHANGED parserVars
  /\ IF part = "html" THEN HtmlNext ELSE UNCHANGED htmlVars
  /\ IF part = "command" THEN CommandNext ELSE UNCHANGED commandVars
  /\ IF part = "file" THEN FileNext ELSE UNCHANGED fileVars
  /\ IF part = "date" THEN DateNext ELSE UNCHANGED dateVars
  /\ IF part = "gmt" THEN GmtNext ELSE UNCHANGED gmtVars
  /\ IF part = "sockets" THEN SocketsNext ELSE UNCHANGED socketsVars

vars ==
  <<part, handlersVars, argumentsVars, parserVars, htmlVars, commandVars, fileVars, dateVars,
    gmtVars, socketsVars>>

Spec == Init /\ [][Next]_vars
=============================================================================
