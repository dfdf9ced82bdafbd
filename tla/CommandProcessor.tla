-------------------------- MODULE CommandProcessor --------------------------
(***************************************************************************)
(* HttpCommandProcessor::ProcessRequest with the FileStorageReader, the    *)
(* HttpResponse and the HtmlWrapper it uses, one system call at a time,    *)
(* while others change the file system between the calls.                  *)
(*                                                                         *)
(* A place is what a path names in the file system.  Rooted[p] is the      *)
(* place of _root + p, Bare[p] the place of p itself: TestIfPathExists and *)
(* GetFilesList look at the first, IsFolder and IsFile at the second.      *)
(***************************************************************************)
EXTENDS HtmlWrapper, FiniteSets

CONSTANTS
  Paths,      \* the paths of requests
  Places,     \* the places they name
  Rooted,     \* [Paths -> Places], with the root of the reader
  Bare,       \* [Paths -> Places], without it
  Kinds,      \* what may be at a place: a subset of AllKinds
  Names,      \* the names that entries of the folder may have, besides "." and ".."
  MaxChanges  \* a bound on the changes others make

AllKinds == {"none", "directory", "file", "socket", "block", "character", "fifo"}

EntryKinds == {"none", "directory", "file"}

ASSUME PlacesAssumption ==
  /\ Rooted \in [Paths -> Places] /\ Bare \in [Paths -> Places]
  /\ Kinds \subseteq AllKinds /\ MaxChanges \in Nat
  /\ Names \cap {".", ".."} = {}

VARIABLES
  fs,        \* what is at each place
  entries,   \* the entries of the folder at Rooted[request.path]
  request,   \* the request being processed
  step,      \* the call that comes next
  response,  \* the HttpResponse
  files,     \* the result of GetFilesList so far: a name and whether a "/" follows it
  unread,    \* the entries readdir has still to return
  message,   \* what Generate made of the response
  changes,   \* the changes made so far
  seen       \* for the properties: what was where since the request came

storage == <<fs, entries, changes, seen>>

commandVars == <<fs, entries, request, step, response, files, unread, message, changes, seen>>

-----------------------------------------------------------------------------
\* HttpResponse.

StatusText ==
  [status \in {200, 404, 500, 501} |->
     CASE status = 200 -> "OK" [] status = 404 -> "Not Found"
       [] status = 500 -> "Server Error" [] status = 501 -> "Not Implemented"]

push_header_line(resp, header, value) ==
  [resp EXCEPT !.headers = [h \in DOMAIN @ \cup {header} |-> IF h = header THEN value ELSE @[h]]]

\* content.size() counts the tags and texts of the page.
SetPage(resp, content) ==
  [push_header_line(push_header_line(resp, "Content-Type", "text/html"), "Content-Length", Len(content))
     EXCEPT !.content = content]

StatusPage(status) == GenerateHtml(push_text(EmptyPage, <<status, StatusText[status]>>))

ChangeStatus(resp, status) ==
  SetPage([resp EXCEPT !.status = status, !.text = StatusText[status]], StatusPage(status))

NewResponse == ChangeStatus([status |-> 200, text |-> "OK", headers |-> <<>>, content |-> <<>>], 200)

NUL == Tag("NUL", NoText)

\* The headers are in the order of the map.
Generate(resp) ==
  [status  |-> <<resp.status, resp.text>>,
   headers |-> SelectSeq(<<"Content-Length", "Content-Type", "Date">>, LAMBDA h : h \in DOMAIN resp.headers),
   values  |-> resp.headers,
   body    |-> resp.content \o <<NUL, NUL>>]

NoMessage == [status |-> <<>>, headers |-> <<>>, values |-> <<>>, body |-> <<>>]

-----------------------------------------------------------------------------
\* FileStorageReader.  The mode bits are tested one by one: S_IFDIR is set in the mode of
\* a block device and of a socket too, S_IFREG in that of a socket.

TestIfPathExists(path) == fs[Rooted[path]] # "none"

\* A defect: whatever exists is a folder.
ExistsBare(path) == fs[Bare[path]] # "none"

FolderBit == {"directory", "block", "socket"}

FileBit == {"file", "socket"}

IsFolder(path) == fs[Bare[path]] \in FolderBit

IsFile(path) == fs[Bare[path]] \in FileBit

Present == {<<name, entries[name]>> : name \in {n \in Names : entries[n] # "none"}}
             \cup {<<".", "directory">>, <<"..", "directory">>}

\* A defect: the folder and its parent are listed.
ListedAll(name) == TRUE

Listed(name) == name \notin {".", ".."}

-----------------------------------------------------------------------------

Seen(opened) ==
  [kinds  |-> [place \in Places |-> {fs[place]}],
   ever   |-> [name \in Names |-> {entries[name]}],
   opened |-> opened]

CommandInit ==
  /\ fs \in [Places -> Kinds]
  /\ entries \in [Names -> EntryKinds]
  /\ request \in [method : {"GET", "POST"}, path : Paths]
  /\ step = "method"
  /\ response = NewResponse
  /\ files = <<>> /\ unread = {} /\ message = NoMessage
  /\ changes = 0 /\ seen = Seen(FALSE)

\* A defect: the page of the status before stays.
BecomeOnly(status, next) ==
  response' = [response EXCEPT !.status = status, !.text = StatusText[status]] /\ step' = next

Become(status, next) == response' = ChangeStatus(response, status) /\ step' = next

TestUnimplementedMethods ==
  /\ step = "method"
  /\ IF request.method # "GET" THEN Become(501, "date") ELSE step' = "exists" /\ UNCHANGED response
  /\ UNCHANGED <<request, files, unread, message, storage>>

TestPath ==
  /\ step = "exists"
  /\ IF TestIfPathExists(request.path) THEN Become(200, "is_folder") ELSE Become(404, "date")
  /\ UNCHANGED <<request, files, unread, message, storage>>

TestFolder ==
  /\ step = "is_folder"
  /\ step' = IF IsFolder(request.path) THEN "open" ELSE "is_file"
  /\ UNCHANGED <<request, response, files, unread, message, storage>>

\* A file: assert(false).
TestFile ==
  /\ step = "is_file"
  /\ IF IsFile(request.path) THEN step' = "aborted" /\ UNCHANGED response ELSE Become(500, "date")
  /\ UNCHANGED <<request, files, unread, message, storage>>

OpenFolder ==
  /\ step = "open" /\ fs[Rooted[request.path]] = "directory"
  /\ step' = "read" /\ unread' = Present
  /\ seen' = [seen EXCEPT !.opened = TRUE]
  /\ UNCHANGED <<request, response, files, message, fs, entries, changes>>

\* Not a directory, or no permission, or no descriptor: the list stays empty.
OpenFails ==
  /\ step = "open" /\ step' = "page"
  /\ UNCHANGED <<request, response, files, unread, message, storage>>

\* One readdir.  A file system may leave the type of an entry unknown.
ReadEntry ==
  /\ step = "read"
  /\ \E entry \in unread :
       /\ unread' = unread \ {entry}
       /\ \E slash \in {FALSE, entry[2] = "directory"} :
            files' = IF Listed(entry[1]) THEN Append(files, <<entry[1], slash>>) ELSE files
  /\ UNCHANGED <<request, response, step, message, storage>>

EndOfFolder ==
  /\ step = "read" /\ unread = {} /\ step' = "page"
  /\ UNCHANGED <<request, response, files, unread, message, storage>>

FolderPage ==
  LET head == end_paragraph(push_header(begin_paragraph(EmptyPage), request.path, 1))
      page[n \in 0 .. Len(files)] ==
        IF n = 0 THEN begin_list(head) ELSE push_list_item(page[n - 1], files[n])
  IN  GenerateHtml(end_list(page[Len(files)]))

\* A defect: the length stays that of the page of the status.
GenerateWithoutLength ==
  /\ step = "page" /\ step' = "date"
  /\ response' = [response EXCEPT !.content = FolderPage]
  /\ UNCHANGED <<request, files, unread, message, storage>>

GenerateResponseWithFolderContent ==
  /\ step = "page" /\ step' = "date"
  /\ response' = SetPage(response, FolderPage)
  /\ UNCHANGED <<request, files, unread, message, storage>>

PushDate ==
  /\ step = "date" /\ step' = "generate"
  /\ response' = push_header_line(response, "Date", "now")
  /\ UNCHANGED <<request, files, unread, message, storage>>

\* In the worker, after ProcessRequest has returned.
GenerateMessage ==
  /\ step = "generate" /\ step' = "generated"
  /\ message' = Generate(response)
  /\ UNCHANGED <<request, response, files, unread, storage>>

-----------------------------------------------------------------------------
\* The others.  Only a change between two looks at the same thing matters: what was
\* there before the first look is in Init.

ChangePlace ==
  /\ step \in {"is_folder", "is_file", "open"} /\ changes < MaxChanges
  /\ \E place \in {Rooted[request.path], Bare[request.path]}, kind \in Kinds :
       /\ kind # fs[place]
       /\ fs' = [fs EXCEPT ![place] = kind]
       /\ seen' = [seen EXCEPT !.kinds[place] = @ \cup {kind}]
  /\ changes' = changes + 1
  /\ UNCHANGED <<entries, request, step, response, files, unread, message>>

\* readdir may or may not return an entry that comes or goes during the scan.
ChangeEntry ==
  /\ step = "read" /\ changes < MaxChanges
  /\ \E name \in Names, kind \in EntryKinds :
       /\ kind # entries[name]
       /\ entries' = [entries EXCEPT ![name] = kind]
       /\ seen' = [seen EXCEPT !.ever[name] = @ \cup {kind}]
       /\ LET others == {entry \in unread : entry[1] # name}
              returned == entries[name] # "none" /\ others = unread
          IN  unread' \in {unread} \cup (IF kind = "none" THEN {others}
                                        ELSE IF returned THEN {} ELSE {others \cup {<<name, kind>>}})
  /\ changes' = changes + 1
  /\ UNCHANGED <<fs, request, step, response, files, message>>

\* ProcessRequest is over.
CommandOver == step \in {"generated", "aborted"} /\ UNCHANGED commandVars

CommandNext ==
  \/ TestUnimplementedMethods \/ TestPath \/ TestFolder \/ TestFile
  \/ OpenFolder \/ OpenFails \/ ReadEntry \/ EndOfFolder
  \/ GenerateResponseWithFolderContent \/ PushDate \/ GenerateMessage
  \/ ChangePlace \/ ChangeEntry \/ CommandOver

CommandSpec == CommandInit /\ [][CommandNext]_commandVars

-----------------------------------------------------------------------------

Generated == step = "generated"

Items == {n \in DOMAIN message.body : message.body[n].tag = "li"}

Item(n) == message.body[n].text

Length == message.values["Content-Length"]

\* A client that believes Content-Length has the whole page, to its last tag, of what
\* Generate puts after the empty line; two NULs of the message are then unread
\* (httpThings.cpp:50-59), whatever statuses and pages came before.
LengthIsOfPage ==
  Generated =>
    /\ SubSeq(message.body, 1, Length) = response.content
    /\ message.body[Length].tag = "/html"
    /\ SubSeq(message.body, Length + 1, Len(message.body)) = <<NUL, NUL>>

\* The page a client shows and the status line say the same: the folder that was asked
\* for with 200, else the page of that very status (httpCommandProcessor.cpp:24-63).
PageTellsStatus ==
  Generated =>
    IF message.status[1] = 200
    THEN message.body[4].tag = "h" /\ message.body[4].text = <<1, request.path>>
    ELSE message.body[3].tag = "text" /\ message.body[3].text = message.status

\* Each answer is true of the two places its calls look at, at some time while it was
\* made and others changed them: 404 of what is not there under the root, 200 only of
\* what is there and has the bit of a folder without the root, 500 and the abort of the
\* other kinds; a place that stays a socket is a folder (httpCommandProcessor.cpp:35-60).
AnswerWasTrue ==
  LET rooted == seen.kinds[Rooted[request.path]]
      bare == seen.kinds[Bare[request.path]]
      Answered(status) == Generated /\ message.status[1] = status
  IN  /\ Answered(501) => request.method # "GET"
      /\ Answered(404) => rooted = {"none"}
      /\ Answered(200) => rooted # {"none"} /\ bare \cap FolderBit # {}
      /\ Answered(500) => rooted # {"none"} /\ bare \ FolderBit # {} /\ bare \ FileBit # {}
      /\ step = "aborted" => rooted # {"none"} /\ bare \ FolderBit # {} /\ bare \cap FileBit # {}

\* The page of a folder names every entry that was there throughout the scan, once, and
\* nothing that was not there during it; a "/" follows only what was a folder
\* (fileStorageReader.cpp:35-46, httpCommandProcessor.cpp:80-83).
ListsTheFolder ==
  Generated =>
    /\ ~seen.opened => Items = {}
    /\ \A n \in Items :
         /\ Item(n)[1] \in Names /\ seen.ever[Item(n)[1]] # {"none"}
         /\ Item(n)[2] => "directory" \in seen.ever[Item(n)[1]]
    /\ \A name \in Names :
         seen.opened /\ seen.ever[name] \in {{"file"}, {"directory"}} =>
           Cardinality({n \in Items : Item(n)[1] = name}) = 1

\* What the synopsis promises ("server SERVE_PATH", ftpOverHttpServer.cpp:45) and the
\* code does not do: a folder under the root, there throughout, is answered as one.
FolderServed ==
  Generated /\ request.method = "GET" /\ seen.kinds[Rooted[request.path]] = {"directory"} =>
    message.status[1] = 200
=============================================================================
