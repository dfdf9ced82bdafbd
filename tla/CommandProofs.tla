--------------------------- MODULE CommandProofs ---------------------------
(***************************************************************************)
(* Proofs about what is served.                                            *)
(*                                                                         *)
(* CommandProcessor: the answer, its page and its length, and the list of  *)
(* a folder, while others change the file system between the calls.        *)
(*                                                                         *)
(* HtmlCalls: the pages an HtmlWrapper hands out.                          *)
(*                                                                         *)
(* FileData: the blocks of a file.                                         *)
(***************************************************************************)
EXTENDS CommandProcessor, HtmlCalls, FileData,
        SequenceTheorems, FiniteSetTheorems, WellFoundedInduction, TLAPS

-----------------------------------------------------------------------------
(* Induction over the numbers.                                             *)

\* A set of numbers has a least one.
LEMMA LeastNatural ==
  ASSUME NEW S \in SUBSET Nat, S # {}
  PROVE  \E least \in S : \A n \in S : least <= n
  <1>1. PICK least \in S : \A n \in S : ~ (<<n, least>> \in OpToRel(<, Nat))
    BY NatLessThanWellFounded, WFMin, Zenon
  <1>2. \A n \in S : ~ (n < least)
    BY <1>1, Zenon DEF OpToRel
  <1> QED BY <1>2

\* Induction over the numbers, for the set of those a statement holds of.
LEMMA SetInduction ==
  ASSUME NEW S, 0 \in S, \A n \in Nat : n \in S => n + 1 \in S
  PROVE  Nat \subseteq S
  <1> SUFFICES ASSUME Nat \ S # {} PROVE FALSE
    OBVIOUS
  <1>1. PICK least \in Nat \ S : \A n \in Nat \ S : least <= n
    BY LeastNatural
  <1>2. least - 1 \in Nat /\ least - 1 \in S /\ least = (least - 1) + 1
    BY <1>1
  <1> QED BY <1>1, <1>2

-----------------------------------------------------------------------------
(* The answer: what is known at each step.                                 *)

\* The statuses ProcessRequest gives, and the steps between its calls.
Statuses == {200, 404, 500, 501}

Steps == {"method", "exists", "is_folder", "is_file", "open", "read", "page", "date",
          "generate", "generated", "aborted"}

\* The page of the folder called title: an item of list after the other, and no more.
ListsEntries(content, list, title) ==
  /\ \E S : content \in Seq(S)
  /\ Len(content) = Len(list) + 9
  /\ content[4] = Tag("h", <<1, title>>)
  /\ content[Len(list) + 9].tag = "/html"
  /\ \A k \in 7 .. Len(list) + 6 : content[k] = Tag("li", list[k - 6])
  /\ \A k \in 1 .. Len(list) + 9 : k \notin 7 .. Len(list) + 6 => content[k].tag # "li"

\* The page of a status: the text of the status, and no item.
ShowsStatus(content, status) ==
  /\ \E S : content \in Seq(S)
  /\ Len(content) = 5
  /\ content[3] = Tag("text", <<status, StatusText[status]>>)
  /\ content[5].tag = "/html"
  /\ \A k \in 1 .. 5 : content[k].tag # "li"

\* The types of the state; what the properties remember is of the same places and names.
CommandTypes ==
  /\ fs \in [Places -> Kinds] /\ entries \in [Names -> EntryKinds]
  /\ request \in [method : {"GET", "POST"}, path : Paths]
  /\ step \in Steps
  /\ DOMAIN response = {"status", "text", "headers", "content"}
  /\ response.status \in Statuses
  /\ files \in Seq(Names \X BOOLEAN)
  /\ unread \subseteq (Names \cup {".", ".."}) \X EntryKinds
  /\ seen \in [kinds : [Places -> SUBSET Kinds], ever : [Names -> SUBSET EntryKinds], opened : BOOLEAN]

\* What was seen at the two places the calls look at.
RootedSeen == seen.kinds[Rooted[request.path]]

BareSeen == seen.kinds[Bare[request.path]]

\* What is at a place is among what was seen there, and before the first look at the
\* places it is all that was.
KindsSeen ==
  /\ \A place \in Places : fs[place] \in seen.kinds[place]
  /\ step \in {"method", "exists"} => \A place \in Places : seen.kinds[place] = {fs[place]}

\* Something of a set has been at a place.
SomeSeen(kinds, set) == \E kind \in kinds : kind \in set

\* What a status was given for, from when it is given on.
Grounds ==
  /\ step \in {"method", "exists", "is_folder", "is_file", "open", "read", "page", "aborted"} => response.status = 200
  /\ response.status = 501 => request.method # "GET"
  /\ response.status = 404 => RootedSeen = {"none"}
  /\ step \notin {"method", "exists"} /\ response.status \in {200, 500} => SomeSeen(RootedSeen, Kinds \ {"none"})
  /\ step \in {"open", "read", "page"} => SomeSeen(BareSeen, FolderBit)
  /\ step \in {"date", "generate", "generated"} /\ response.status = 200 => SomeSeen(BareSeen, FolderBit)
  /\ step = "is_file" => SomeSeen(BareSeen, Kinds \ FolderBit)
  /\ response.status = 500 => SomeSeen(BareSeen, Kinds \ FolderBit) /\ SomeSeen(BareSeen, Kinds \ FileBit)
  /\ step = "aborted" => SomeSeen(BareSeen, Kinds \ FolderBit) /\ SomeSeen(BareSeen, FileBit)

\* The page is that of the status, until the folder's replaces it, and the headers have
\* its length.
Shown ==
  /\ response.text = StatusText[response.status]
  /\ "Content-Length" \in DOMAIN response.headers
  /\ response.headers["Content-Length"] = Len(response.content)
  /\ IF step \in {"date", "generate", "generated"} /\ response.status = 200
     THEN ListsEntries(response.content, files, request.path)
     ELSE ShowsStatus(response.content, response.status)

\* The message is what Generate makes of the response as it still is.
GeneratedOf == Generated => message = Generate(response)

\* The inductive invariant of the answer: each status keeps its grounds in what was seen,
\* and the page and its length follow the status at every step between the calls.
AnswerInv == CommandTypes /\ KindsSeen /\ Grounds /\ Shown /\ GeneratedOf

\* The path of a request names places.
LEMMA PlacesOfPath ==
  ASSUME CommandTypes
  PROVE  Rooted[request.path] \in Places /\ Bare[request.path] \in Places
  BY PlacesAssumption DEF CommandTypes

\* A header is added, and the others stay.
LEMMA HeaderPushed ==
  ASSUME NEW resp, DOMAIN resp = {"status", "text", "headers", "content"}, NEW header, NEW value,
         NEW result, result = push_header_line(resp, header, value)
  PROVE  /\ DOMAIN result = {"status", "text", "headers", "content"}
         /\ result.status = resp.status /\ result.text = resp.text /\ result.content = resp.content
         /\ result.headers[header] = value
         /\ \A other \in DOMAIN resp.headers : other # header => result.headers[other] = resp.headers[other]
         /\ DOMAIN result.headers = DOMAIN resp.headers \cup {header}
  BY DEF push_header_line

\* SetPage changes the content, the length with it, and no status.
LEMMA PageSet ==
  ASSUME NEW resp, DOMAIN resp = {"status", "text", "headers", "content"}, NEW content,
         NEW result, result = SetPage(resp, content)
  PROVE  /\ DOMAIN result = {"status", "text", "headers", "content"}
         /\ result.status = resp.status /\ result.text = resp.text /\ result.content = content
         /\ result.headers["Content-Length"] = Len(content)
         /\ "Content-Length" \in DOMAIN result.headers
  <1>1. PICK typed : typed = push_header_line(resp, "Content-Type", "text/html")
    OBVIOUS
  <1>2. PICK sized : sized = push_header_line(typed, "Content-Length", Len(content))
    OBVIOUS
  <1>3. DOMAIN typed = {"status", "text", "headers", "content"} /\ typed.status = resp.status /\ typed.text = resp.text
    BY <1>1, HeaderPushed
  <1>4. /\ DOMAIN sized = {"status", "text", "headers", "content"}
        /\ sized.status = resp.status /\ sized.text = resp.text
        /\ sized.headers["Content-Length"] = Len(content)
        /\ "Content-Length" \in DOMAIN sized.headers
    BY <1>2, <1>3, HeaderPushed
  <1>5. result = [sized EXCEPT !.content = content]
    BY <1>1, <1>2 DEF SetPage
  <1> QED BY <1>4, <1>5

\* Changing the status changes its text and its page with it.
LEMMA StatusChanged ==
  ASSUME NEW resp, DOMAIN resp = {"status", "text", "headers", "content"}, NEW status,
         NEW result, result = ChangeStatus(resp, status)
  PROVE  /\ DOMAIN result = {"status", "text", "headers", "content"}
         /\ result.status = status /\ result.text = StatusText[status] /\ result.content = StatusPage(status)
         /\ result.headers["Content-Length"] = Len(result.content)
         /\ "Content-Length" \in DOMAIN result.headers
  <1>1. PICK marked : marked = [resp EXCEPT !.status = status, !.text = StatusText[status]]
    OBVIOUS
  <1>2. /\ DOMAIN marked = {"status", "text", "headers", "content"}
        /\ marked.status = status /\ marked.text = StatusText[status]
    BY <1>1
  <1>3. result = SetPage(marked, StatusPage(status))
    BY <1>1 DEF ChangeStatus
  <1> QED BY <1>2, <1>3, PageSet

-----------------------------------------------------------------------------
(* The pages of a folder and of a status.                                  *)

\* What precedes the items.
Heading(title) == <<Tag("p", NoText), Tag("h", <<1, title>>), Tag("/p", NoText), Tag("ul", NoText)>>

\* The page with the first n entries, its list still open.
OpenPage(list, title, n) ==
  [inner |-> [k \in 1 .. n + 4 |-> IF k <= 4 THEN Heading(title)[k] ELSE Tag("li", list[k - 4])],
   paragraphs |-> 0, lists |-> 1, aborted |-> EmptyPage.aborted]

\* Append, element by element.
LEMMA OneAppended ==
  ASSUME NEW S, NEW list \in Seq(S), NEW last \in S, NEW longer, longer = Append(list, last)
  PROVE  /\ longer \in Seq(S) /\ Len(longer) = Len(list) + 1
         /\ longer[Len(list) + 1] = last
         /\ \A k \in 1 .. Len(list) : longer[k] = list[k]
  BY AppendProperties

\* Two before and two after a sequence.
LEMMA InFrame ==
  ASSUME NEW S, NEW inner \in Seq(S), NEW a \in S, NEW b \in S, NEW c \in S, NEW d \in S,
         NEW whole, whole = <<a, b>> \o inner \o <<c, d>>
  PROVE  /\ whole \in Seq(S) /\ Len(whole) = Len(inner) + 4
         /\ whole[1] = a /\ whole[2] = b
         /\ \A k \in 1 .. Len(inner) : whole[k + 2] = inner[k]
         /\ whole[Len(inner) + 3] = c /\ whole[Len(inner) + 4] = d
  <1>1. PICK s, t : s = <<a, b>> /\ t = <<c, d>>
    OBVIOUS
  <1>2. /\ s \in Seq(S) /\ Len(s) = 2 /\ s[1] = a /\ s[2] = b
        /\ t \in Seq(S) /\ Len(t) = 2 /\ t[1] = c /\ t[2] = d
        /\ Len(inner) \in Nat
    BY <1>1
  <1>3. PICK front : front = s \o inner
    OBVIOUS
  <1>4. /\ front \in Seq(S) /\ Len(front) = Len(s) + Len(inner)
        /\ \A i \in 1 .. Len(s) + Len(inner) : front[i] = IF i <= Len(s) THEN s[i] ELSE inner[i - Len(s)]
    BY <1>2, <1>3, ConcatProperties
  <1>5. /\ whole \in Seq(S) /\ Len(whole) = Len(front) + Len(t)
        /\ \A i \in 1 .. Len(front) + Len(t) : whole[i] = IF i <= Len(front) THEN front[i] ELSE t[i - Len(front)]
    BY <1>1, <1>2, <1>3, <1>4, ConcatProperties
  <1>6. \A i \in 1 .. Len(inner) + 2 : whole[i] = IF i <= 2 THEN s[i] ELSE inner[i - 2]
    BY <1>2, <1>4, <1>5
  <1>7. \A i \in 1 .. 2 : whole[Len(inner) + 2 + i] = t[i]
    BY <1>2, <1>4, <1>5
  <1>8. whole[1] = a /\ whole[2] = b
    BY <1>2, <1>6
  <1>9. \A k \in 1 .. Len(inner) : whole[k + 2] = inner[k]
    BY <1>2, <1>6
  <1>10. whole[Len(inner) + 3] = c /\ whole[Len(inner) + 4] = d
    <2>1. Len(inner) + 2 + 1 = Len(inner) + 3 /\ Len(inner) + 2 + 2 = Len(inner) + 4
      BY <1>2
    <2> QED BY <1>2, <1>7, <2>1
  <1> QED BY <1>2, <1>4, <1>5, <1>8, <1>9, <1>10

\* Where the tags of a page stand once GenerateHtml has put two before and two after.
LEMMA InPage ==
  ASSUME NEW S, NEW inner \in Seq(S),
         Tag("html", NoText) \in S, Tag("body", NoText) \in S, Tag("/body", NoText) \in S, Tag("/html", NoText) \in S,
         NEW whole,
         whole = <<Tag("html", NoText), Tag("body", NoText)>> \o inner \o <<Tag("/body", NoText), Tag("/html", NoText)>>
  PROVE  /\ whole \in Seq(S) /\ Len(whole) = Len(inner) + 4
         /\ whole[1] = Tag("html", NoText) /\ whole[2] = Tag("body", NoText)
         /\ \A k \in 1 .. Len(inner) : whole[k + 2] = inner[k]
         /\ whole[Len(inner) + 3] = Tag("/body", NoText) /\ whole[Len(inner) + 4] = Tag("/html", NoText)
  <1>1. PICK a \in S : a = Tag("html", NoText)
    OBVIOUS
  <1>2. PICK b \in S : b = Tag("body", NoText)
    OBVIOUS
  <1>3. PICK c \in S : c = Tag("/body", NoText)
    OBVIOUS
  <1>4. PICK d \in S : d = Tag("/html", NoText)
    OBVIOUS
  <1>5. whole = <<a, b>> \o inner \o <<c, d>>
    BY <1>1, <1>2, <1>3, <1>4
  <1>6. /\ whole \in Seq(S) /\ Len(whole) = Len(inner) + 4
        /\ whole[1] = a /\ whole[2] = b
        /\ \A k \in 1 .. Len(inner) : whole[k + 2] = inner[k]
        /\ whole[Len(inner) + 3] = c /\ whole[Len(inner) + 4] = d
    BY <1>5, InFrame
  <1> QED BY <1>1, <1>2, <1>3, <1>4, <1>6

\* Four in a row, element by element.
LEMMA FourAppended ==
  ASSUME NEW a, NEW b, NEW c, NEW d
  PROVE  Append(Append(Append(Append(<<>>, a), b), c), d) = <<a, b, c, d>>
  <1> DEFINE S == {a, b, c, d}
             s == Append(Append(Append(Append(<<>>, a), b), c), d)
  <1>1. PICK t : t = <<a, b, c, d>>
    OBVIOUS
  <1>2. t \in Seq(S) /\ Len(t) = 4 /\ t[1] = a /\ t[2] = b /\ t[3] = c /\ t[4] = d
    BY <1>1
  <1>3. a \in S /\ b \in S /\ c \in S /\ d \in S
    OBVIOUS
  <1> HIDE DEF S
  <1>4. PICK one : one = Append(<<>>, a)
    OBVIOUS
  <1>5. one \in Seq(S) /\ Len(one) = 1 /\ one[1] = a
    BY <1>3, <1>4, EmptySeq, AppendProperties
  <1>6. PICK two : two = Append(one, b)
    OBVIOUS
  <1>7. two \in Seq(S) /\ Len(two) = 2 /\ two[1] = a /\ two[2] = b
    <2>1. two \in Seq(S) /\ Len(two) = Len(one) + 1 /\ two[Len(one) + 1] = b /\ \A k \in 1 .. Len(one) : two[k] = one[k]
      BY <1>3, <1>5, <1>6, OneAppended
    <2> QED BY <1>5, <2>1
  <1>8. PICK three : three = Append(two, c)
    OBVIOUS
  <1>9. three \in Seq(S) /\ Len(three) = 3 /\ three[1] = a /\ three[2] = b /\ three[3] = c
    <2>1. three \in Seq(S) /\ Len(three) = Len(two) + 1 /\ three[Len(two) + 1] = c /\ \A k \in 1 .. Len(two) : three[k] = two[k]
      BY <1>3, <1>7, <1>8, OneAppended
    <2> QED BY <1>7, <2>1
  <1>10. s = Append(three, d)
    BY <1>4, <1>6, <1>8
  <1> HIDE DEF s
  <1>11. s \in Seq(S) /\ Len(s) = 4 /\ s[1] = a /\ s[2] = b /\ s[3] = c /\ s[4] = d
    <2>1. s \in Seq(S) /\ Len(s) = Len(three) + 1 /\ s[Len(three) + 1] = d /\ \A k \in 1 .. Len(three) : s[k] = three[k]
      BY <1>3, <1>9, <1>10, OneAppended
    <2> QED BY <1>9, <2>1
  <1>12. \A k \in 1 .. 4 : s[k] = t[k]
    BY <1>2, <1>11
  <1>13. s = t
    BY <1>2, <1>11, <1>12, SeqEqual, Zenon
  <1> QED BY <1>1, <1>13 DEF s

\* A page by its fields.
Record(inner, paragraphs, lists, aborted) ==
  [inner |-> inner, paragraphs |-> paragraphs, lists |-> lists, aborted |-> aborted]

\* A page that has not aborted.
Page(inner, paragraphs, lists) == Record(inner, paragraphs, lists, EmptyPage.aborted)

\* The fields of a page.
LEMMA PageInner ==
  ASSUME NEW inner, NEW paragraphs, NEW lists, NEW value
  PROVE  [Page(inner, paragraphs, lists) EXCEPT !.inner = value] = Page(value, paragraphs, lists)
  BY DEF Page, Record

\* The level of the paragraphs.
LEMMA PageParagraphs ==
  ASSUME NEW inner, NEW paragraphs, NEW lists, NEW value
  PROVE  [Page(inner, paragraphs, lists) EXCEPT !.paragraphs = value] = Page(inner, value, lists)
  BY DEF Page, Record

\* The level of the lists.
LEMMA PageLists ==
  ASSUME NEW inner, NEW paragraphs, NEW lists, NEW value
  PROVE  [Page(inner, paragraphs, lists) EXCEPT !.lists = value] = Page(inner, paragraphs, value)
  BY DEF Page, Record

\* What the calls do to a page that has not aborted.
LEMMA PageCalls ==
  ASSUME NEW inner, NEW paragraphs, NEW lists
  PROVE  /\ begin_paragraph(Page(inner, paragraphs, lists))
              = Page(Append(inner, Tag("p", NoText)), Increment(paragraphs), lists)
         /\ end_paragraph(Page(inner, paragraphs, lists))
              = Page(Append(inner, Tag("/p", NoText)), Decrement(paragraphs), lists)
         /\ begin_list(Page(inner, paragraphs, lists))
              = Page(Append(inner, Tag("ul", NoText)), paragraphs, Increment(lists))
         /\ lists > 0 => end_list(Page(inner, paragraphs, lists))
              = Page(Append(inner, Tag("/ul", NoText)), paragraphs, Decrement(lists))
         /\ \A text : lists > 0 => push_list_item(Page(inner, paragraphs, lists), text)
              = Page(Append(inner, Tag("li", text)), paragraphs, lists)
         /\ \A text : push_header(Page(inner, paragraphs, lists), text, 1)
              = Page(Append(inner, Tag("h", <<1, text>>)), paragraphs, lists)
         /\ \A text : push_text(Page(inner, paragraphs, lists), text)
              = Page(Append(inner, Tag("text", text)), paragraphs, lists)
  <1>1. \A name, text : Added(Page(inner, paragraphs, lists), name, text)
                          = Page(Append(inner, Tag(name, text)), paragraphs, lists)
    BY DEF Added, Page, Record
  <1>2. Page(inner, paragraphs, lists).inner = inner /\ Page(inner, paragraphs, lists).lists = lists
    BY DEF Page, Record
  <1>3. \A text : push_header(Page(inner, paragraphs, lists), text, 1)
              = Page(Append(inner, Tag("h", <<1, text>>)), paragraphs, lists)
    <2> SUFFICES ASSUME NEW text
                 PROVE  push_header(Page(inner, paragraphs, lists), text, 1)
                          = Page(Append(inner, Tag("h", <<1, text>>)), paragraphs, lists)
      OBVIOUS
    <2> DEFINE tag == Tag("h", <<1, text>>)
    <2>1. 1 \in 1 .. 6
      OBVIOUS
    <2>2. push_header(Page(inner, paragraphs, lists), text, 1)
            = [Page(inner, paragraphs, lists) EXCEPT !.inner = Append(Page(inner, paragraphs, lists).inner, tag)]
      BY <2>1 DEF push_header, Asserted
    <2> HIDE DEF tag
    <2>3. [Page(inner, paragraphs, lists) EXCEPT !.inner = Append(inner, tag)] = Page(Append(inner, tag), paragraphs, lists)
      <3>1. PICK longer : longer = Append(inner, tag)
        OBVIOUS
      <3>2. [Page(inner, paragraphs, lists) EXCEPT !.inner = longer] = Page(longer, paragraphs, lists)
        BY PageInner
      <3> QED BY <3>1, <3>2
    <2>4. push_header(Page(inner, paragraphs, lists), text, 1) = Page(Append(inner, tag), paragraphs, lists)
      BY <1>2, <2>2, <2>3
    <2> QED BY <2>4 DEF tag
  <1>4. begin_paragraph(Page(inner, paragraphs, lists)) = Page(Append(inner, Tag("p", NoText)), Increment(paragraphs), lists)
    <2>1. Added(Page(inner, paragraphs, lists), "p", NoText) = Page(Append(inner, Tag("p", NoText)), paragraphs, lists)
      BY <1>1
    <2>2. [Page(Append(inner, Tag("p", NoText)), paragraphs, lists) EXCEPT !.paragraphs = Increment(paragraphs)] = Page(Append(inner, Tag("p", NoText)), Increment(paragraphs), lists)
      BY PageParagraphs
    <2>3. Page(Append(inner, Tag("p", NoText)), paragraphs, lists).paragraphs = paragraphs
      BY DEF Page, Record
    <2> QED BY <1>2, <2>1, <2>2, <2>3 DEF begin_paragraph
  <1>5. end_paragraph(Page(inner, paragraphs, lists)) = Page(Append(inner, Tag("/p", NoText)), Decrement(paragraphs), lists)
    <2>1. Added(Page(inner, paragraphs, lists), "/p", NoText) = Page(Append(inner, Tag("/p", NoText)), paragraphs, lists)
      BY <1>1
    <2>2. [Page(Append(inner, Tag("/p", NoText)), paragraphs, lists) EXCEPT !.paragraphs = Decrement(paragraphs)] = Page(Append(inner, Tag("/p", NoText)), Decrement(paragraphs), lists)
      BY PageParagraphs
    <2>3. Page(Append(inner, Tag("/p", NoText)), paragraphs, lists).paragraphs = paragraphs
      BY DEF Page, Record
    <2> QED BY <1>2, <2>1, <2>2, <2>3 DEF end_paragraph
  <1>6. begin_list(Page(inner, paragraphs, lists)) = Page(Append(inner, Tag("ul", NoText)), paragraphs, Increment(lists))
    <2>1. Added(Page(inner, paragraphs, lists), "ul", NoText) = Page(Append(inner, Tag("ul", NoText)), paragraphs, lists)
      BY <1>1
    <2>2. [Page(Append(inner, Tag("ul", NoText)), paragraphs, lists) EXCEPT !.lists = Increment(lists)] = Page(Append(inner, Tag("ul", NoText)), paragraphs, Increment(lists))
      BY PageLists
    <2>3. Page(Append(inner, Tag("ul", NoText)), paragraphs, lists).lists = lists
      BY DEF Page, Record
    <2> QED BY <1>2, <2>1, <2>2, <2>3 DEF begin_list
  <1>7. lists > 0 => end_list(Page(inner, paragraphs, lists)) = Page(Append(inner, Tag("/ul", NoText)), paragraphs, Decrement(lists))
    <2>1. Added(Page(inner, paragraphs, lists), "/ul", NoText) = Page(Append(inner, Tag("/ul", NoText)), paragraphs, lists)
      BY <1>1
    <2>2. [Page(Append(inner, Tag("/ul", NoText)), paragraphs, lists) EXCEPT !.lists = Decrement(lists)] = Page(Append(inner, Tag("/ul", NoText)), paragraphs, Decrement(lists))
      BY PageLists
    <2>3. Page(Append(inner, Tag("/ul", NoText)), paragraphs, lists).lists = lists
      BY DEF Page, Record
    <2> QED BY <1>2, <2>1, <2>2, <2>3 DEF end_list, Asserted
  <1> QED BY <1>1, <1>2, <1>3, <1>4, <1>5, <1>6, <1>7 DEF push_list_item, push_text, Asserted

\* The page of a folder before its first item.
LEMMA PageHead ==
  ASSUME NEW list, NEW title
  PROVE  begin_list(end_paragraph(push_header(begin_paragraph(EmptyPage), title, 1)))
           = OpenPage(list, title, 0)
  <1> DEFINE a == Tag("p", NoText)
             b == Tag("h", <<1, title>>)
             c == Tag("/p", NoText)
             d == Tag("ul", NoText)
  <1>1. EmptyPage = Page(<<>>, 0, 0)
    BY DEF EmptyPage, Page, Record
  <1>2. Increment(0) = 1 /\ Decrement(1) = 0
    BY HtmlAssumption DEF Increment, Decrement
  <1>3. begin_paragraph(EmptyPage) = Page(Append(<<>>, a), 1, 0)
    <2>1. PICK empty : empty = <<>>
      OBVIOUS
    <2>2. begin_paragraph(Page(empty, 0, 0)) = Page(Append(empty, a), Increment(0), 0)
      BY PageCalls
    <2> QED BY <1>1, <1>2, <2>1, <2>2
  <1>4. push_header(Page(Append(<<>>, a), 1, 0), title, 1) = Page(Append(Append(<<>>, a), b), 1, 0)
    BY PageCalls
  <1>5. end_paragraph(Page(Append(Append(<<>>, a), b), 1, 0)) = Page(Append(Append(Append(<<>>, a), b), c), 0, 0)
    BY <1>2, PageCalls
  <1>6. begin_list(Page(Append(Append(Append(<<>>, a), b), c), 0, 0))
          = Page(Append(Append(Append(Append(<<>>, a), b), c), d), 0, 1)
    BY <1>2, PageCalls
  <1>7. Append(Append(Append(Append(<<>>, a), b), c), d) = Heading(title)
    <2>1. Heading(title) = <<a, b, c, d>>
      BY DEF Heading
    <2> HIDE DEF a, b, c, d
    <2> QED BY <2>1, FourAppended
  <1>8. Heading(title) = [k \in 1 .. 0 + 4 |-> IF k <= 4 THEN Heading(title)[k] ELSE Tag("li", list[k - 4])]
    BY DEF Heading
  <1> QED BY <1>3, <1>4, <1>5, <1>6, <1>7, <1>8 DEF OpenPage, Page, Record

\* One item more.
LEMMA PageItem ==
  ASSUME NEW list, NEW title, NEW n \in Nat \ {0}
  PROVE  push_list_item(OpenPage(list, title, n - 1), list[n]) = OpenPage(list, title, n)
  <1> DEFINE before == [k \in 1 .. n - 1 + 4 |-> IF k <= 4 THEN Heading(title)[k] ELSE Tag("li", list[k - 4])]
             after == [k \in 1 .. n + 4 |-> IF k <= 4 THEN Heading(title)[k] ELSE Tag("li", list[k - 4])]
  <1>1. Append(before, Tag("li", list[n])) = after
    <2>1. DOMAIN before = 1 .. n + 3 /\ Len(before) = n + 3
      BY n - 1 + 4 = n + 3
    <2> HIDE DEF before
    <2>2. Append(before, Tag("li", list[n])) = [k \in 1 .. n + 3 + 1 |-> IF k = n + 4 THEN Tag("li", list[n]) ELSE before[k]]
      BY <2>1 
    <2>3. \A k \in 1 .. n + 3 : before[k] = after[k]
      BY DEF before
    <2>4. after[n + 4] = Tag("li", list[n])
      BY n + 4 - 4 = n
    <2>5. DOMAIN after = 1 .. n + 3 + 1
      OBVIOUS
    <2> HIDE DEF after
    <2>6. \A k \in 1 .. n + 3 + 1 : Append(before, Tag("li", list[n]))[k] = after[k]
      BY <2>2, <2>3, <2>4
    <2>7. after = [k \in 1 .. n + 3 + 1 |-> after[k]]
      BY n + 3 + 1 = n + 4 DEF after
    <2> QED BY <2>2, <2>6, <2>7
  <1> HIDE DEF before, after
  <1>3. OpenPage(list, title, n - 1) = Page(before, 0, 1)
    BY DEF OpenPage, Page, Record, before
  <1>4. OpenPage(list, title, n) = Page(after, 0, 1)
    BY DEF OpenPage, Page, Record, after
  <1>5. 1 > 0 /\ push_list_item(Page(before, 0, 1), list[n]) = Page(Append(before, Tag("li", list[n])), 0, 1)
    BY PageCalls
  <1> QED BY <1>1, <1>3, <1>4, <1>5

\* The page GenerateResponseWithFolderContent makes, item by item.
LEMMA FolderPageLists ==
  ASSUME files \in Seq(Names \X BOOLEAN)
  PROVE  ListsEntries(FolderPage, files, request.path)
  <1> DEFINE head == end_paragraph(push_header(begin_paragraph(EmptyPage), request.path, 1))
             made[n \in 0 .. Len(files)] ==
               IF n = 0 THEN begin_list(head) ELSE push_list_item(made[n - 1], files[n])
             P(n) == n <= Len(files) => made[n] = OpenPage(files, request.path, n)
             Good == {n \in Nat : P(n)}
  <1>1. FolderPage = GenerateHtml(end_list(made[Len(files)]))
    BY DEF FolderPage
  <1>2. made = [n \in 0 .. Len(files) |->
                  IF n = 0 THEN begin_list(head) ELSE push_list_item(made[n - 1], files[n])]
    <2>1. PICK g : g = [n \in 0 .. Len(files) |-> OpenPage(files, request.path, n)]
      OBVIOUS
    <2> DEFINE h == [n \in 0 .. Len(files) |-> IF n = 0 THEN begin_list(head) ELSE push_list_item(g[n - 1], files[n])]
    <2>2. ASSUME NEW n \in 0 .. Len(files) PROVE g[n] = h[n]
      <3>1. CASE n = 0
        BY <2>1, <3>1, PageHead
      <3>2. CASE n # 0
        <4>1. n \in Nat \ {0} /\ n - 1 \in 0 .. Len(files)
          BY <3>2
        <4>2. g[n - 1] = OpenPage(files, request.path, n - 1)
          BY <2>1, <4>1
        <4> QED BY <2>1, <4>1, <4>2, PageItem
      <3> QED BY <3>1, <3>2
    <2> HIDE DEF head
    <2>3. g = h
      BY <2>1, <2>2
    <2> QED BY <2>3
  <1> HIDE DEF made
  <1>3. 0 \in Good
    BY <1>2, PageHead
  <1>4. ASSUME NEW n \in Nat, n \in Good PROVE n + 1 \in Good
    <2> SUFFICES ASSUME n + 1 <= Len(files) PROVE made[n + 1] = OpenPage(files, request.path, n + 1)
      OBVIOUS
    <2>1. made[n] = OpenPage(files, request.path, n)
      BY <1>4
    <2>2. made[n + 1] = push_list_item(made[n], files[n + 1])
      BY <1>2
    <2> QED BY <2>1, <2>2, PageItem
  <1>5. Len(files) \in Good
    <2> HIDE DEF Good
    <2> QED BY <1>3, <1>4, SetInduction
  <1>6. end_list(made[Len(files)]).inner = Append(OpenPage(files, request.path, Len(files)).inner, Tag("/ul", NoText))
    <2>1. made[Len(files)] = OpenPage(files, request.path, Len(files))
      BY <1>5
    <2>2. PICK list : list = OpenPage(files, request.path, Len(files)).inner
      OBVIOUS
    <2>3. OpenPage(files, request.path, Len(files)) = Page(list, 0, 1)
      BY <2>2 DEF OpenPage, Page, Record
    <2>4. end_list(Page(list, 0, 1)) = Page(Append(list, Tag("/ul", NoText)), 0, Decrement(1))
      BY PageCalls
    <2>5. \A longer : Page(longer, 0, Decrement(1)).inner = longer
      BY DEF Page, Record
    <2> QED BY <2>1, <2>2, <2>3, <2>4, <2>5
  <1> DEFINE L == Len(files)
             open == OpenPage(files, request.path, L).inner
             Values == {Tag("html", NoText), Tag("body", NoText), Tag("/body", NoText), Tag("/html", NoText), Tag("/ul", NoText)}
                      \cup {open[k] : k \in 1 .. L + 4}
  <1>7. PICK inner : inner = Append(open, Tag("/ul", NoText))
    OBVIOUS
  <1>8. FolderPage = <<Tag("html", NoText), Tag("body", NoText)>> \o inner \o <<Tag("/body", NoText), Tag("/html", NoText)>>
    BY <1>1, <1>6, <1>7 DEF GenerateHtml
  <1>9. /\ open = [k \in 1 .. L + 4 |-> IF k <= 4 THEN Heading(request.path)[k] ELSE Tag("li", files[k - 4])]
        /\ L \in Nat
    BY DEF OpenPage
  <1> HIDE DEF open, L
  <1>10. open \in Seq(Values) /\ Len(open) = L + 4
    <2>1. PICK n : n = L + 4
      OBVIOUS
    <2>2. n \in Nat /\ open = [k \in 1 .. n |-> open[k]]
      BY <1>9, <2>1
    <2>3. \A k \in 1 .. n : open[k] \in Values
      BY <2>1
    <2> HIDE DEF Values
    <2>4. open \in [1 .. n -> Values]
      BY <2>2, <2>3
    <2>5. open \in Seq(Values) /\ Len(open) = n
      BY <2>2, <2>4
    <2> QED BY <2>1, <2>5
  <1>11. /\ Tag("html", NoText) \in Values /\ Tag("body", NoText) \in Values /\ Tag("/body", NoText) \in Values
         /\ Tag("/html", NoText) \in Values /\ Tag("/ul", NoText) \in Values
    OBVIOUS
  <1> HIDE DEF Values
  <1>12. /\ inner \in Seq(Values) /\ Len(inner) = L + 5 /\ inner[L + 5] = Tag("/ul", NoText)
         /\ \A k \in 1 .. L + 4 : inner[k] = open[k]
    <2>1. /\ inner \in Seq(Values) /\ Len(inner) = Len(open) + 1 /\ inner[Len(open) + 1] = Tag("/ul", NoText)
          /\ \A k \in 1 .. Len(open) : inner[k] = open[k]
      BY <1>7, <1>10, <1>11, OneAppended
    <2>2. L + 4 + 1 = L + 5 /\ Len(open) = L + 4
      BY <1>9, <1>10
    <2> QED BY <2>1, <2>2
  <1>13. /\ FolderPage \in Seq(Values) /\ Len(FolderPage) = L + 9
         /\ FolderPage[1] = Tag("html", NoText) /\ FolderPage[2] = Tag("body", NoText)
         /\ \A k \in 1 .. L + 5 : FolderPage[k + 2] = inner[k]
         /\ FolderPage[L + 8] = Tag("/body", NoText) /\ FolderPage[L + 9] = Tag("/html", NoText)
    <2>1. PICK whole : whole = FolderPage
      OBVIOUS
    <2>2. /\ whole \in Seq(Values) /\ Len(whole) = Len(inner) + 4
          /\ whole[1] = Tag("html", NoText) /\ whole[2] = Tag("body", NoText)
          /\ \A k \in 1 .. Len(inner) : whole[k + 2] = inner[k]
          /\ whole[Len(inner) + 3] = Tag("/body", NoText) /\ whole[Len(inner) + 4] = Tag("/html", NoText)
      <3>1. inner \in Seq(Values)
        BY <1>12
      <3>2. whole = <<Tag("html", NoText), Tag("body", NoText)>> \o inner \o <<Tag("/body", NoText), Tag("/html", NoText)>>
        BY <1>8, <2>1
      <3> QED BY <1>11, <3>1, <3>2, InPage
    <2> QED BY <1>9, <1>12, <2>1, <2>2
  <1>14. /\ FolderPage[3] = Tag("p", NoText) /\ FolderPage[4] = Tag("h", <<1, request.path>>)
         /\ FolderPage[5] = Tag("/p", NoText) /\ FolderPage[6] = Tag("ul", NoText)
    <2>1. \A k \in 1 .. 4 : open[k] = Heading(request.path)[k]
      BY <1>9
    <2>2. \A k \in 1 .. 4 : FolderPage[k + 2] = Heading(request.path)[k]
      BY <1>9, <1>12, <1>13, <2>1
    <2> DEFINE a == Tag("p", NoText)
               b == Tag("h", <<1, request.path>>)
               c == Tag("/p", NoText)
               d == Tag("ul", NoText)
    <2>3. Heading(request.path) = <<a, b, c, d>>
      BY DEF Heading
    <2> HIDE DEF a, b, c, d
    <2>4. FolderPage[3] = a /\ FolderPage[4] = b /\ FolderPage[5] = c /\ FolderPage[6] = d
      BY <2>2, <2>3
    <2> QED BY <2>4 DEF a, b, c, d
  <1>15. \A k \in 7 .. L + 6 : FolderPage[k] = Tag("li", files[k - 6])
    <2> SUFFICES ASSUME NEW k \in 7 .. L + 6 PROVE FolderPage[k] = Tag("li", files[k - 6])
      OBVIOUS
    <2>1. k - 2 \in 1 .. L + 4 /\ ~(k - 2 <= 4) /\ (k - 2) + 2 = k /\ (k - 2) - 4 = k - 6 /\ k - 2 \in 1 .. L + 5
      BY <1>9
    <2>2. open[k - 2] = Tag("li", files[k - 6])
      BY <1>9, <2>1
    <2> QED BY <1>12, <1>13, <2>1, <2>2
  <1>16. FolderPage[L + 7] = Tag("/ul", NoText)
    <2>1. L + 5 \in 1 .. L + 5 /\ (L + 5) + 2 = L + 7
      BY <1>9
    <2> QED BY <1>12, <1>13, <2>1
  <1>17. ASSUME NEW k \in 1 .. L + 9, k \notin 7 .. L + 6 PROVE FolderPage[k].tag # "li"
    <2>1. k \in {1, 2, 3, 4, 5, 6, L + 7, L + 8, L + 9}
      BY <1>9, <1>17
    <2>2. \A text : /\ Tag("html", text).tag # "li" /\ Tag("body", text).tag # "li" /\ Tag("p", text).tag # "li"
                     /\ Tag("h", text).tag # "li" /\ Tag("/p", text).tag # "li" /\ Tag("ul", text).tag # "li"
                     /\ Tag("/ul", text).tag # "li" /\ Tag("/body", text).tag # "li" /\ Tag("/html", text).tag # "li"
      BY DEF Tag
    <2> QED BY <1>13, <1>14, <1>16, <2>1, <2>2
  <1>18. Tag("/html", NoText).tag = "/html"
    BY DEF Tag
  <1> QED BY <1>13, <1>14, <1>15, <1>17, <1>18 DEF ListsEntries, L

\* The page ChangeStatus makes.
LEMMA StatusPageShows ==
  ASSUME NEW status
  PROVE  ShowsStatus(StatusPage(status), status)
  <1> DEFINE text == <<status, StatusText[status]>>
             Values == {Tag("html", NoText), Tag("body", NoText), Tag("/body", NoText), Tag("/html", NoText), Tag("text", text)}
  <1>1. PICK empty : empty = <<>>
    OBVIOUS
  <1>2. PICK inner : inner = Append(empty, Tag("text", text))
    OBVIOUS
  <1>3. EmptyPage = Page(empty, 0, 0)
    BY <1>1 DEF EmptyPage, Page, Record
  <1>4. push_text(EmptyPage, text) = Page(inner, 0, 0)
    BY <1>2, <1>3, PageCalls
  <1>5. Page(inner, 0, 0).inner = inner
    BY DEF Page, Record
  <1>6. PICK whole : whole = StatusPage(status)
    OBVIOUS
  <1>7. whole = <<Tag("html", NoText), Tag("body", NoText)>> \o inner \o <<Tag("/body", NoText), Tag("/html", NoText)>>
    BY <1>4, <1>5, <1>6 DEF StatusPage, GenerateHtml
  <1>8. /\ Tag("html", NoText) \in Values /\ Tag("body", NoText) \in Values /\ Tag("/body", NoText) \in Values
        /\ Tag("/html", NoText) \in Values /\ Tag("text", text) \in Values
    OBVIOUS
  <1> HIDE DEF Values, text
  <1>9. inner \in Seq(Values) /\ Len(inner) = 1 /\ inner[1] = Tag("text", text)
    BY <1>1, <1>2, <1>8, EmptySeq, AppendProperties
  <1>10. /\ whole \in Seq(Values) /\ Len(whole) = Len(inner) + 4
         /\ whole[1] = Tag("html", NoText) /\ whole[2] = Tag("body", NoText)
         /\ \A k \in 1 .. Len(inner) : whole[k + 2] = inner[k]
         /\ whole[Len(inner) + 3] = Tag("/body", NoText) /\ whole[Len(inner) + 4] = Tag("/html", NoText)
    <2>1. inner \in Seq(Values)
      BY <1>9
    <2> QED BY <1>7, <1>8, <2>1, InPage
  <1>11. /\ Len(whole) = 5 /\ whole[1] = Tag("html", NoText) /\ whole[2] = Tag("body", NoText)
         /\ whole[3] = Tag("text", text) /\ whole[4] = Tag("/body", NoText) /\ whole[5] = Tag("/html", NoText)
    BY <1>9, <1>10
  <1>12. \A t : /\ Tag("html", t).tag # "li" /\ Tag("body", t).tag # "li" /\ Tag("text", t).tag # "li"
                /\ Tag("/body", t).tag # "li" /\ Tag("/html", t).tag # "li" /\ Tag("/html", t).tag = "/html"
    BY DEF Tag
  <1>13. \A k \in 1 .. 5 : whole[k].tag # "li"
    BY <1>11, <1>12
  <1> QED BY <1>6, <1>10, <1>11, <1>12, <1>13 DEF ShowsStatus, text

-----------------------------------------------------------------------------
(* The answer is kept by every step.                                       *)

\* The page of a status is shown as soon as it is given.
LEMMA StatusShown ==
  ASSUME CommandTypes, NEW status \in Statuses, response' = ChangeStatus(response, status)
  PROVE  /\ DOMAIN response' = {"status", "text", "headers", "content"}
         /\ response'.status = status /\ response'.text = StatusText[status]
         /\ "Content-Length" \in DOMAIN response'.headers
         /\ response'.headers["Content-Length"] = Len(response'.content)
         /\ ShowsStatus(response'.content, status)
  <1>1. PICK resp, result : resp = response /\ result = response'
    OBVIOUS
  <1>2. DOMAIN resp = {"status", "text", "headers", "content"} /\ result = ChangeStatus(resp, status)
    BY <1>1 DEF CommandTypes
  <1>3. /\ DOMAIN result = {"status", "text", "headers", "content"}
        /\ result.status = status /\ result.text = StatusText[status] /\ result.content = StatusPage(status)
        /\ "Content-Length" \in DOMAIN result.headers
        /\ result.headers["Content-Length"] = Len(result.content)
    BY <1>2, StatusChanged
  <1>4. ShowsStatus(StatusPage(status), status)
    BY StatusPageShows
  <1> QED BY <1>1, <1>3, <1>4

\* A step that changes the status, and none of what others change.
LEMMA Becoming ==
  ASSUME AnswerInv, NEW status \in Statuses, NEW next \in Steps, Become(status, next),
         UNCHANGED <<request, files, unread, message, fs, entries, changes, seen>>,
         next # "generated", status = 200 => next = "is_folder"
  PROVE  CommandTypes' /\ Shown' /\ GeneratedOf' /\ response'.status = status /\ step' = next
  <1>1. /\ DOMAIN response' = {"status", "text", "headers", "content"}
        /\ response'.status = status /\ response'.text = StatusText[status]
        /\ "Content-Length" \in DOMAIN response'.headers
        /\ response'.headers["Content-Length"] = Len(response'.content)
        /\ ShowsStatus(response'.content, status)
    BY StatusShown DEF Become, AnswerInv
  <1>2. step' = next
    BY DEF Become
  <1>3. CommandTypes'
    BY <1>1, <1>2 DEF AnswerInv, CommandTypes
  <1>4. Shown'
    BY <1>1, <1>2 DEF Shown
  <1> QED BY <1>1, <1>2, <1>3, <1>4 DEF GeneratedOf, Generated

\* A request starts with the page of 200.
LEMMA AnswerInit == CommandInit => AnswerInv
  <1> SUFFICES ASSUME CommandInit PROVE AnswerInv
    OBVIOUS
  <1>1. PICK blank : blank = [status |-> 200, text |-> "OK", headers |-> <<>>, content |-> <<>>]
    OBVIOUS
  <1>2. DOMAIN blank = {"status", "text", "headers", "content"} /\ response = ChangeStatus(blank, 200)
    BY <1>1 DEF CommandInit, NewResponse
  <1>3. /\ DOMAIN response = {"status", "text", "headers", "content"}
        /\ response.status = 200 /\ response.text = StatusText[200] /\ response.content = StatusPage(200)
        /\ "Content-Length" \in DOMAIN response.headers
        /\ response.headers["Content-Length"] = Len(response.content)
    BY <1>2, StatusChanged
  <1>4. ShowsStatus(response.content, 200)
    BY <1>3, StatusPageShows
  <1>5. CommandTypes
    <2>1. seen \in [kinds : [Places -> SUBSET Kinds], ever : [Names -> SUBSET EntryKinds], opened : BOOLEAN]
      BY DEF CommandInit, Seen
    <2>2. files \in Seq(Names \X BOOLEAN) /\ unread \subseteq (Names \cup {".", ".."}) \X EntryKinds
      BY DEF CommandInit
    <2>3. response.status \in Statuses /\ step \in Steps
      BY <1>3 DEF CommandInit, Statuses, Steps
    <2>4. /\ fs \in [Places -> Kinds] /\ entries \in [Names -> EntryKinds]
          /\ request \in [method : {"GET", "POST"}, path : Paths]
      BY DEF CommandInit
    <2> QED BY <1>3, <2>1, <2>2, <2>3, <2>4 DEF CommandTypes
  <1>6. KindsSeen
    BY DEF CommandInit, KindsSeen, Seen
  <1>7. Grounds
    BY <1>3 DEF CommandInit, Grounds
  <1>8. Shown
    BY <1>3, <1>4 DEF CommandInit, Shown
  <1> QED BY <1>5, <1>6, <1>7, <1>8 DEF AnswerInv, GeneratedOf, Generated, CommandInit

\* 501 for what is not a GET.
LEMMA AnswerMethod == AnswerInv /\ TestUnimplementedMethods => AnswerInv'
  <1> SUFFICES ASSUME AnswerInv, TestUnimplementedMethods PROVE AnswerInv'
    OBVIOUS
  <1>1. KindsSeen'
    BY DEF AnswerInv, KindsSeen, TestUnimplementedMethods, Become, storage
  <1>2. CASE request.method # "GET"
    <2>1. /\ Become(501, "date") /\ 501 \in Statuses /\ "date" \in Steps
          /\ UNCHANGED <<request, files, unread, message, fs, entries, changes, seen>>
          /\ RootedSeen' = RootedSeen /\ BareSeen' = BareSeen
      BY <1>2 DEF TestUnimplementedMethods, Statuses, Steps, storage, RootedSeen, BareSeen
    <2>2. CommandTypes' /\ Shown' /\ GeneratedOf' /\ response'.status = 501 /\ step' = "date"
      BY <2>1, Becoming
    <2>3. Grounds'
      BY <1>2, <2>1, <2>2 DEF Grounds
    <2> QED BY <1>1, <2>2, <2>3 DEF AnswerInv
  <1>3. CASE request.method = "GET"
    <2>1. step' = "exists" /\ UNCHANGED <<response, request, files, unread, message, storage>> /\ step = "method"
      BY <1>3 DEF TestUnimplementedMethods
    <2>2. CommandTypes'
      BY <2>1 DEF AnswerInv, CommandTypes, storage, Steps
    <2>3. Grounds'
      <3>1. RootedSeen' = RootedSeen /\ BareSeen' = BareSeen
        BY <2>1 DEF RootedSeen, BareSeen, storage
      <3> QED BY <2>1, <3>1 DEF AnswerInv, Grounds, SomeSeen
    <2>4. Shown'
      BY <2>1 DEF AnswerInv, Shown
    <2> QED BY <1>1, <2>1, <2>2, <2>3, <2>4 DEF AnswerInv, GeneratedOf, Generated
  <1> QED BY <1>2, <1>3

\* 404 for what is not there under the root.
LEMMA AnswerPath == AnswerInv /\ TestPath => AnswerInv'
  <1> SUFFICES ASSUME AnswerInv, TestPath PROVE AnswerInv'
    OBVIOUS
  <1>1. Rooted[request.path] \in Places /\ RootedSeen = {fs[Rooted[request.path]]}
    BY PlacesOfPath DEF AnswerInv, KindsSeen, TestPath, RootedSeen
  <1>2. KindsSeen'
    BY DEF AnswerInv, KindsSeen, TestPath, Become, storage
  <1>3. CASE TestIfPathExists(request.path)
    <2>1. /\ Become(200, "is_folder") /\ 200 \in Statuses /\ "is_folder" \in Steps
          /\ UNCHANGED <<request, files, unread, message, fs, entries, changes, seen>>
          /\ RootedSeen' = RootedSeen
      BY <1>3 DEF TestPath, Statuses, Steps, storage, RootedSeen
    <2>2. CommandTypes' /\ Shown' /\ GeneratedOf' /\ response'.status = 200 /\ step' = "is_folder"
      BY <2>1, Becoming
    <2>3. Grounds'
      <3>1. SomeSeen(RootedSeen, Kinds \ {"none"})
        BY <1>1, <1>3 DEF SomeSeen, TestIfPathExists, AnswerInv, CommandTypes
      <3> QED BY <2>1, <2>2, <3>1 DEF Grounds, SomeSeen
    <2> QED BY <1>2, <2>2, <2>3 DEF AnswerInv
  <1>4. CASE ~TestIfPathExists(request.path)
    <2>1. /\ Become(404, "date") /\ 404 \in Statuses /\ "date" \in Steps
          /\ UNCHANGED <<request, files, unread, message, fs, entries, changes, seen>>
          /\ RootedSeen' = RootedSeen
      BY <1>4 DEF TestPath, Statuses, Steps, storage, RootedSeen
    <2>2. CommandTypes' /\ Shown' /\ GeneratedOf' /\ response'.status = 404 /\ step' = "date"
      BY <2>1, Becoming
    <2>3. Grounds'
      <3>1. RootedSeen = {"none"}
        BY <1>1, <1>4 DEF TestIfPathExists
      <3> QED BY <2>1, <2>2, <3>1 DEF Grounds, SomeSeen
    <2> QED BY <1>2, <2>2, <2>3 DEF AnswerInv
  <1> QED BY <1>3, <1>4

\* The look without the root.
LEMMA AnswerFolder == AnswerInv /\ TestFolder => AnswerInv'
  <1> SUFFICES ASSUME AnswerInv, TestFolder PROVE AnswerInv'
    OBVIOUS
  <1>1. Bare[request.path] \in Places /\ fs[Bare[request.path]] \in BareSeen
    BY PlacesOfPath DEF AnswerInv, KindsSeen, BareSeen
  <1>2. /\ step = "is_folder" /\ UNCHANGED <<request, response, files, unread, message, fs, entries, changes, seen>>
        /\ step' = IF IsFolder(request.path) THEN "open" ELSE "is_file"
    BY DEF TestFolder, storage
  <1>3. CommandTypes'
    BY <1>2 DEF AnswerInv, CommandTypes, Steps
  <1>4. KindsSeen'
    BY <1>2 DEF AnswerInv, KindsSeen
  <1>5. Grounds'
    <2>1. RootedSeen' = RootedSeen /\ BareSeen' = BareSeen
      BY <1>2 DEF RootedSeen, BareSeen
    <2>2. IF IsFolder(request.path) THEN SomeSeen(BareSeen, FolderBit) ELSE SomeSeen(BareSeen, Kinds \ FolderBit)
      BY <1>1 DEF IsFolder, SomeSeen, AnswerInv, CommandTypes
    <2> QED BY <1>2, <2>1, <2>2 DEF AnswerInv, Grounds, SomeSeen
  <1>6. Shown'
    BY <1>2 DEF AnswerInv, Shown
  <1> QED BY <1>2, <1>3, <1>4, <1>5, <1>6 DEF AnswerInv, GeneratedOf, Generated

\* The abort for a file, 500 for the rest.
LEMMA AnswerFile == AnswerInv /\ TestFile => AnswerInv'
  <1> SUFFICES ASSUME AnswerInv, TestFile PROVE AnswerInv'
    OBVIOUS
  <1>1. Bare[request.path] \in Places /\ fs[Bare[request.path]] \in BareSeen
    BY PlacesOfPath DEF AnswerInv, KindsSeen, BareSeen
  <1>2. KindsSeen'
    BY DEF AnswerInv, KindsSeen, TestFile, Become, storage
  <1>3. CASE IsFile(request.path)
    <2>1. step' = "aborted" /\ UNCHANGED <<response, request, files, unread, message, storage>> /\ step = "is_file"
      BY <1>3 DEF TestFile
    <2>2. CommandTypes'
      BY <2>1 DEF AnswerInv, CommandTypes, storage, Steps
    <2>3. Grounds'
      <3>1. RootedSeen' = RootedSeen /\ BareSeen' = BareSeen
        BY <2>1 DEF RootedSeen, BareSeen, storage
      <3>2. SomeSeen(BareSeen, FileBit)
        BY <1>1, <1>3 DEF SomeSeen, IsFile
      <3> QED BY <2>1, <3>1, <3>2 DEF AnswerInv, Grounds, SomeSeen
    <2>4. Shown'
      BY <2>1 DEF AnswerInv, Shown
    <2> QED BY <1>2, <2>1, <2>2, <2>3, <2>4 DEF AnswerInv, GeneratedOf, Generated
  <1>4. CASE ~IsFile(request.path)
    <2>1. /\ Become(500, "date") /\ 500 \in Statuses /\ "date" \in Steps
          /\ UNCHANGED <<request, files, unread, message, fs, entries, changes, seen>>
          /\ RootedSeen' = RootedSeen /\ BareSeen' = BareSeen
      BY <1>4 DEF TestFile, Statuses, Steps, storage, RootedSeen, BareSeen
    <2>2. CommandTypes' /\ Shown' /\ GeneratedOf' /\ response'.status = 500 /\ step' = "date"
      BY <2>1, Becoming
    <2>3. Grounds'
      <3>1. SomeSeen(BareSeen, Kinds \ FileBit)
        BY <1>1, <1>4 DEF SomeSeen, IsFile, AnswerInv, CommandTypes
      <3> QED BY <2>1, <2>2, <3>1 DEF AnswerInv, Grounds, SomeSeen, TestFile
    <2> QED BY <1>2, <2>2, <2>3 DEF AnswerInv
  <1> QED BY <1>3, <1>4

\* The steps of the scan, which change neither the response nor what is known of the
\* places.
LEMMA AnswerScan ==
  ASSUME AnswerInv, CommandTypes', step \in {"open", "read"}, step' \in {"read", "page"},
         UNCHANGED <<fs, request, response, message>>, UNCHANGED seen.kinds
  PROVE  AnswerInv'
  <1>1. KindsSeen'
    BY DEF AnswerInv, KindsSeen
  <1>2. Grounds'
    <2>1. RootedSeen' = RootedSeen /\ BareSeen' = BareSeen
      BY DEF RootedSeen, BareSeen
    <2> QED BY <2>1 DEF AnswerInv, Grounds, SomeSeen
  <1>3. Shown'
    BY DEF AnswerInv, Shown
  <1> QED BY <1>1, <1>2, <1>3 DEF AnswerInv, GeneratedOf, Generated

\* The folder is opened or is not, and ends.
LEMMA AnswerOpen == AnswerInv /\ (OpenFolder \/ OpenFails \/ EndOfFolder) => AnswerInv'
  <1> SUFFICES ASSUME AnswerInv, OpenFolder \/ OpenFails \/ EndOfFolder PROVE AnswerInv'
    OBVIOUS
  <1>1. CASE OpenFolder
    <2>1. UNCHANGED seen.kinds /\ seen' \in [kinds : [Places -> SUBSET Kinds], ever : [Names -> SUBSET EntryKinds], opened : BOOLEAN]
      BY <1>1 DEF OpenFolder, AnswerInv, CommandTypes
    <2>2. Present \subseteq (Names \cup {".", ".."}) \X EntryKinds
      BY DEF Present, AnswerInv, CommandTypes, EntryKinds
    <2>3. CommandTypes'
      BY <1>1, <2>1, <2>2 DEF OpenFolder, AnswerInv, CommandTypes, Steps
    <2> QED BY <1>1, <2>1, <2>3, AnswerScan DEF OpenFolder
  <1>2. CASE OpenFails \/ EndOfFolder
    <2>1. CommandTypes'
      BY <1>2 DEF OpenFails, EndOfFolder, AnswerInv, CommandTypes, Steps, storage
    <2> QED BY <1>2, <2>1, AnswerScan DEF OpenFails, EndOfFolder, storage
  <1> QED BY <1>1, <1>2

\* An entry more in the list, of the names readdir may return.
LEMMA AnswerRead == AnswerInv /\ ReadEntry => AnswerInv'
  <1> SUFFICES ASSUME AnswerInv, ReadEntry PROVE AnswerInv'
    OBVIOUS
  <1>0. PICK entry \in unread : \E slash \in {FALSE, entry[2] = "directory"} :
          /\ unread' = unread \ {entry}
          /\ files' = IF Listed(entry[1]) THEN Append(files, <<entry[1], slash>>) ELSE files
    BY DEF ReadEntry
  <1>1. PICK slash \in {FALSE, entry[2] = "directory"} :
          /\ unread' = unread \ {entry}
          /\ files' = IF Listed(entry[1]) THEN Append(files, <<entry[1], slash>>) ELSE files
    BY <1>0
  <1>2. entry[1] \in Names \cup {".", ".."} /\ slash \in BOOLEAN
    BY <1>1 DEF AnswerInv, CommandTypes
  <1>3. files' \in Seq(Names \X BOOLEAN)
    <2>1. CASE Listed(entry[1])
      <3>1. <<entry[1], slash>> \in Names \X BOOLEAN
        BY <1>2, <2>1 DEF Listed
      <3> QED BY <1>1, <2>1, <3>1, AppendProperties DEF AnswerInv, CommandTypes
    <2> QED BY <1>1, <2>1 DEF AnswerInv, CommandTypes
  <1>4. CommandTypes'
    BY <1>1, <1>3 DEF ReadEntry, AnswerInv, CommandTypes, storage
  <1> QED BY <1>4, AnswerScan DEF ReadEntry, storage

\* The folder's page replaces that of the status, its length with it.
LEMMA AnswerPage == AnswerInv /\ GenerateResponseWithFolderContent => AnswerInv'
  <1> SUFFICES ASSUME AnswerInv, GenerateResponseWithFolderContent PROVE AnswerInv'
    OBVIOUS
  <1>1. /\ step = "page" /\ step' = "date" /\ response' = SetPage(response, FolderPage)
        /\ UNCHANGED <<request, files, unread, message, fs, entries, changes, seen>>
    BY DEF GenerateResponseWithFolderContent, storage
  <1>2. PICK resp, result, content : resp = response /\ result = response' /\ content = FolderPage
    OBVIOUS
  <1>3. DOMAIN resp = {"status", "text", "headers", "content"} /\ result = SetPage(resp, content)
    BY <1>1, <1>2 DEF AnswerInv, CommandTypes
  <1>4. /\ DOMAIN result = {"status", "text", "headers", "content"}
        /\ result.status = resp.status /\ result.text = resp.text /\ result.content = content
        /\ "Content-Length" \in DOMAIN result.headers
        /\ result.headers["Content-Length"] = Len(content)
    BY <1>3, PageSet
  <1>5. /\ DOMAIN response' = {"status", "text", "headers", "content"}
        /\ response'.status = response.status /\ response'.text = response.text
        /\ "Content-Length" \in DOMAIN response'.headers
        /\ response'.headers["Content-Length"] = Len(response'.content)
        /\ response'.content = FolderPage
    BY <1>2, <1>4
  <1>6. ListsEntries(FolderPage, files, request.path)
    BY FolderPageLists DEF AnswerInv, CommandTypes
  <1>7. response.status = 200
    BY <1>1 DEF AnswerInv, Grounds
  <1>8. CommandTypes'
    BY <1>1, <1>5 DEF AnswerInv, CommandTypes, Steps
  <1>9. KindsSeen'
    BY <1>1 DEF AnswerInv, KindsSeen
  <1>10. Grounds'
    <2>1. RootedSeen' = RootedSeen /\ BareSeen' = BareSeen
      BY <1>1, <1>5, <1>7 DEF RootedSeen, BareSeen
    <2> QED BY <1>1, <1>5, <1>7, <2>1 DEF AnswerInv, Grounds, SomeSeen
  <1>11. Shown'
    BY <1>1, <1>5, <1>6, <1>7 DEF AnswerInv, Shown
  <1> QED BY <1>1, <1>8, <1>9, <1>10, <1>11 DEF AnswerInv, GeneratedOf, Generated

\* A header more leaves the length.
LEMMA AnswerDate == AnswerInv /\ PushDate => AnswerInv'
  <1> SUFFICES ASSUME AnswerInv, PushDate PROVE AnswerInv'
    OBVIOUS
  <1>1. /\ step = "date" /\ step' = "generate" /\ response' = push_header_line(response, "Date", "now")
        /\ UNCHANGED <<request, files, unread, message, fs, entries, changes, seen>>
    BY DEF PushDate, storage
  <1>2. /\ DOMAIN response' = {"status", "text", "headers", "content"}
        /\ response'.status = response.status /\ response'.text = response.text
        /\ response'.content = response.content
        /\ "Content-Length" \in DOMAIN response'.headers
        /\ response'.headers["Content-Length"] = response.headers["Content-Length"]
    <2>1. PICK resp, result : resp = response /\ result = response'
      OBVIOUS
    <2>2. /\ DOMAIN resp = {"status", "text", "headers", "content"} /\ result = push_header_line(resp, "Date", "now")
          /\ "Content-Length" \in DOMAIN resp.headers
      BY <1>1, <2>1 DEF AnswerInv, CommandTypes, Shown
    <2>3. /\ DOMAIN result = {"status", "text", "headers", "content"}
          /\ result.status = resp.status /\ result.text = resp.text /\ result.content = resp.content
          /\ result.headers["Content-Length"] = resp.headers["Content-Length"]
          /\ "Content-Length" \in DOMAIN result.headers
      BY <2>2, HeaderPushed
    <2> QED BY <2>1, <2>3
  <1>3. CommandTypes'
    BY <1>1, <1>2 DEF AnswerInv, CommandTypes, Steps
  <1>4. KindsSeen'
    BY <1>1 DEF AnswerInv, KindsSeen
  <1>5. Grounds'
    <2>1. RootedSeen' = RootedSeen /\ BareSeen' = BareSeen
      BY <1>1, <1>2 DEF RootedSeen, BareSeen
    <2> QED BY <1>1, <1>2, <2>1 DEF AnswerInv, Grounds, SomeSeen
  <1>6. Shown'
    BY <1>1, <1>2 DEF AnswerInv, Shown
  <1> QED BY <1>1, <1>3, <1>4, <1>5, <1>6 DEF AnswerInv, GeneratedOf, Generated

\* The message is made.
LEMMA AnswerMessage == AnswerInv /\ GenerateMessage => AnswerInv'
  <1> SUFFICES ASSUME AnswerInv, GenerateMessage PROVE AnswerInv'
    OBVIOUS
  <1>1. /\ step = "generate" /\ step' = "generated" /\ message' = Generate(response)
        /\ UNCHANGED <<request, response, files, unread, fs, entries, changes, seen>>
    BY DEF GenerateMessage, storage
  <1>2. CommandTypes'
    BY <1>1 DEF AnswerInv, CommandTypes, Steps
  <1>3. KindsSeen'
    BY <1>1 DEF AnswerInv, KindsSeen
  <1>4. Grounds'
    <2>1. RootedSeen' = RootedSeen /\ BareSeen' = BareSeen
      BY <1>1 DEF RootedSeen, BareSeen
    <2> QED BY <1>1, <2>1 DEF AnswerInv, Grounds, SomeSeen
  <1>5. Shown'
    BY <1>1 DEF AnswerInv, Shown
  <1>6. GeneratedOf'
    BY <1>1 DEF GeneratedOf
  <1> QED BY <1>2, <1>3, <1>4, <1>5, <1>6 DEF AnswerInv

\* What was seen only grows.
LEMMA AnswerPlace == AnswerInv /\ ChangePlace => AnswerInv'
  <1> SUFFICES ASSUME AnswerInv, ChangePlace PROVE AnswerInv'
    OBVIOUS
  <1>1. /\ step \in {"is_folder", "is_file", "open"}
        /\ UNCHANGED <<entries, request, step, response, files, unread, message>>
    BY DEF ChangePlace
  <1>2. PICK place \in {Rooted[request.path], Bare[request.path]}, kind \in Kinds :
          /\ fs' = [fs EXCEPT ![place] = kind]
          /\ seen' = [seen EXCEPT !.kinds[place] = @ \cup {kind}]
    BY DEF ChangePlace
  <1>3. place \in Places
    BY <1>2, PlacesOfPath DEF AnswerInv
  <1>4. /\ seen'.kinds = [seen.kinds EXCEPT ![place] = @ \cup {kind}]
        /\ seen'.ever = seen.ever /\ seen'.opened = seen.opened
        /\ seen' \in [kinds : [Places -> SUBSET Kinds], ever : [Names -> SUBSET EntryKinds], opened : BOOLEAN]
    <2>1. seen.kinds[place] \cup {kind} \in SUBSET Kinds
      BY <1>2, <1>3 DEF AnswerInv, CommandTypes
    <2>2. PICK grown : grown = [seen.kinds EXCEPT ![place] = @ \cup {kind}]
      OBVIOUS
    <2>3. grown \in [Places -> SUBSET Kinds]
      BY <2>1, <2>2 DEF AnswerInv, CommandTypes
    <2>4. seen' = [seen EXCEPT !.kinds = grown]
      BY <1>2, <2>2
    <2> QED BY <2>2, <2>3, <2>4 DEF AnswerInv, CommandTypes
  <1>5. CommandTypes'
    BY <1>1, <1>2, <1>3, <1>4 DEF AnswerInv, CommandTypes
  <1>6. KindsSeen'
    BY <1>1, <1>2, <1>3, <1>4 DEF AnswerInv, CommandTypes, KindsSeen
  <1>7. RootedSeen \subseteq RootedSeen' /\ BareSeen \subseteq BareSeen'
    BY <1>1, <1>3, <1>4, PlacesOfPath DEF AnswerInv, CommandTypes, RootedSeen, BareSeen
  <1>8. /\ response'.status = 200 /\ step' = step
        /\ SomeSeen(RootedSeen, Kinds \ {"none"})
        /\ step = "open" => SomeSeen(BareSeen, FolderBit)
        /\ step = "is_file" => SomeSeen(BareSeen, Kinds \ FolderBit)
    BY <1>1 DEF AnswerInv, Grounds
  <1>9. Grounds'
    <2>1. /\ SomeSeen(RootedSeen', Kinds \ {"none"})
          /\ step = "open" => SomeSeen(BareSeen', FolderBit)
          /\ step = "is_file" => SomeSeen(BareSeen', Kinds \ FolderBit)
      BY <1>7, <1>8 DEF SomeSeen
    <2> QED BY <1>1, <1>8, <2>1 DEF Grounds, SomeSeen
  <1>10. Shown'
    BY <1>1 DEF AnswerInv, Shown
  <1> QED BY <1>1, <1>5, <1>6, <1>9, <1>10 DEF AnswerInv, GeneratedOf, Generated

\* An entry changes, and no place.
LEMMA AnswerEntry == AnswerInv /\ ChangeEntry => AnswerInv'
  <1> SUFFICES ASSUME AnswerInv, ChangeEntry PROVE AnswerInv'
    OBVIOUS
  <1>1. step = "read" /\ UNCHANGED <<fs, request, step, response, files, message>>
    BY DEF ChangeEntry
  <1>2. PICK name \in Names, kind \in EntryKinds :
          /\ entries' = [entries EXCEPT ![name] = kind]
          /\ seen' = [seen EXCEPT !.ever[name] = @ \cup {kind}]
          /\ unread' \subseteq unread \cup {<<name, kind>>}
    BY DEF ChangeEntry
  <1>3. /\ seen'.kinds = seen.kinds
        /\ seen' \in [kinds : [Places -> SUBSET Kinds], ever : [Names -> SUBSET EntryKinds], opened : BOOLEAN]
    <2>1. seen.ever[name] \cup {kind} \in SUBSET EntryKinds
      BY <1>2 DEF AnswerInv, CommandTypes
    <2>2. PICK grown : grown = [seen.ever EXCEPT ![name] = @ \cup {kind}]
      OBVIOUS
    <2>3. grown \in [Names -> SUBSET EntryKinds]
      BY <2>1, <2>2 DEF AnswerInv, CommandTypes
    <2>4. seen' = [seen EXCEPT !.ever = grown]
      BY <1>2, <2>2
    <2> QED BY <2>2, <2>3, <2>4 DEF AnswerInv, CommandTypes
  <1>4. unread' \subseteq (Names \cup {".", ".."}) \X EntryKinds
    BY <1>2 DEF AnswerInv, CommandTypes
  <1>5. CommandTypes'
    BY <1>1, <1>2, <1>3, <1>4 DEF AnswerInv, CommandTypes
  <1> QED BY <1>1, <1>3, <1>5, AnswerScan

\* No step.
LEMMA AnswerStays == AnswerInv /\ UNCHANGED commandVars => AnswerInv'
  <1> SUFFICES ASSUME AnswerInv, UNCHANGED commandVars PROVE AnswerInv'
    OBVIOUS
  <1>1. CommandTypes' /\ KindsSeen' /\ Shown' /\ GeneratedOf'
    BY DEF AnswerInv, CommandTypes, KindsSeen, Shown, GeneratedOf, Generated, commandVars
  <1>2. Grounds'
    <2>1. RootedSeen' = RootedSeen /\ BareSeen' = BareSeen
      BY DEF RootedSeen, BareSeen, commandVars
    <2> QED BY <2>1 DEF AnswerInv, Grounds, SomeSeen, commandVars
  <1> QED BY <1>1, <1>2 DEF AnswerInv

\* The inductive invariant holds.
LEMMA AnswerAlways == CommandSpec => []AnswerInv
  <1>1. AnswerInv /\ [CommandNext]_commandVars => AnswerInv'
    BY AnswerMethod, AnswerPath, AnswerFolder, AnswerFile, AnswerOpen, AnswerRead, AnswerPage, AnswerDate, AnswerMessage,
       AnswerPlace, AnswerEntry, AnswerStays DEF CommandNext, CommandOver
  <1> QED BY <1>1, AnswerInit, PTL DEF CommandSpec

\* Whatever others do to the file system between the calls of ProcessRequest, its answer
\* was true of the two places at some time while it was made: 501, 404, 200, 500 and the
\* abort each of what its own calls saw (httpCommandProcessor.cpp:24-63).
THEOREM AnswerWasTrueCorrect == CommandSpec => []AnswerWasTrue
  <1>1. AnswerInv => AnswerWasTrue
    <2> SUFFICES ASSUME AnswerInv PROVE AnswerWasTrue
      OBVIOUS
    <2>1. Generated => message.status[1] = response.status
      BY DEF AnswerInv, GeneratedOf, Generate
    <2>2. BareSeen = seen.kinds[Bare[request.path]] /\ RootedSeen = seen.kinds[Rooted[request.path]]
      BY DEF BareSeen, RootedSeen
    <2> QED BY <2>1, <2>2 DEF AnswerInv, Grounds, SomeSeen, AnswerWasTrue, Generated
  <1> QED BY <1>1, AnswerAlways, PTL

-----------------------------------------------------------------------------
(* The message.                                                            *)

\* What follows the empty line of a message.
LEMMA TwoAfter ==
  ASSUME NEW S, NEW content \in Seq(S), NEW end \in S, NEW body, body = content \o <<end, end>>
  PROVE  /\ body \in Seq(S) /\ Len(content) \in Nat /\ Len(body) = Len(content) + 2
         /\ \A k \in 1 .. Len(content) : body[k] = content[k]
         /\ body[Len(content) + 1] = end /\ body[Len(content) + 2] = end
  <1>1. PICK t : t = <<end, end>>
    OBVIOUS
  <1>2. t \in Seq(S) /\ Len(t) = 2 /\ t[1] = end /\ t[2] = end
    BY <1>1
  <1>3. /\ body \in Seq(S) /\ Len(body) = Len(content) + Len(t)
        /\ \A i \in 1 .. Len(content) + Len(t) : body[i] = IF i <= Len(content) THEN content[i] ELSE t[i - Len(content)]
    BY <1>1, <1>2, ConcatProperties
  <1>4. Len(content) \in Nat
    BY LenProperties
  <1> QED BY <1>2, <1>3, <1>4

\* A sequence made of two is cut where they meet.
LEMMA CutInTwo ==
  ASSUME NEW S, NEW content \in Seq(S), NEW tail \in Seq(S), NEW body, body = content \o tail
  PROVE  SubSeq(body, 1, Len(content)) = content /\ SubSeq(body, Len(content) + 1, Len(body)) = tail
  <1>1. /\ body \in Seq(S) /\ Len(body) = Len(content) + Len(tail) /\ Len(content) \in Nat /\ Len(tail) \in Nat
        /\ \A k \in 1 .. Len(content) + Len(tail) : body[k] = IF k <= Len(content) THEN content[k] ELSE tail[k - Len(content)]
    BY ConcatProperties, LenProperties
  <1>2. PICK front, back : front = SubSeq(body, 1, Len(content)) /\ back = SubSeq(body, Len(content) + 1, Len(body))
    OBVIOUS
  <1>3. front \in Seq(S) /\ Len(front) = Len(content) /\ \A k \in 1 .. Len(content) : front[k] = body[k]
    BY <1>1, <1>2, SubSeqProperties
  <1>4. front = content
    <2>1. \A k \in 1 .. Len(content) : front[k] = content[k]
      BY <1>1, <1>3
    <2> QED BY <1>3, <2>1, SeqEqual
  <1>5. back \in Seq(S) /\ Len(back) = Len(tail) /\ \A k \in 1 .. Len(tail) : back[k] = body[Len(content) + k]
    BY <1>1, <1>2, SubSeqProperties
  <1>6. back = tail
    <2>1. \A k \in 1 .. Len(tail) : back[k] = tail[k]
      BY <1>1, <1>5
    <2> QED BY <1>5, <2>1, SeqEqual
  <1> QED BY <1>2, <1>4, <1>6

\* The content of a response, whichever page it is.
LEMMA ContentShown ==
  ASSUME AnswerInv
  PROVE  /\ \E S : response.content \in Seq(S)
         /\ Len(response.content) \in Nat /\ Len(response.content) >= 5
         /\ response.content[Len(response.content)].tag = "/html"
  <1>1. CASE ListsEntries(response.content, files, request.path)
    <2>1. Len(files) \in Nat
      BY DEF AnswerInv, CommandTypes
    <2> QED BY <1>1, <2>1 DEF ListsEntries
  <1>2. CASE ShowsStatus(response.content, response.status)
    BY <1>2 DEF ShowsStatus
  <1> QED BY <1>1, <1>2 DEF AnswerInv, Shown

\* What was generated is of the response as it is.
LEMMA MessageOf ==
  ASSUME AnswerInv, Generated
  PROVE  /\ message.body = response.content \o <<NUL, NUL>>
         /\ message.values = response.headers
         /\ message.status = <<response.status, response.text>>
  <1>1. message = Generate(response)
    BY DEF AnswerInv, GeneratedOf
  <1>2. PICK r : r = response
    OBVIOUS
  <1>3. /\ Generate(r).body = r.content \o <<NUL, NUL>>
        /\ Generate(r).values = r.headers
    BY DEF Generate
  <1>4. Generate(r).status = <<r.status, r.text>>
    BY DEF Generate
  <1> QED BY <1>1, <1>2, <1>3, <1>4

\* The message's body begins as the content does.
LEMMA BodyBegins ==
  ASSUME AnswerInv, Generated
  PROVE  \A k \in 1 .. Len(response.content) : message.body[k] = response.content[k]
  <1>1. PICK body, end : body = message.body /\ end = NUL
    OBVIOUS
  <1>2. PICK S : response.content \in Seq(S)
    BY ContentShown
  <1>3. response.content \in Seq(S \cup {end}) /\ end \in S \cup {end}
    BY <1>2
  <1>4. body = response.content \o <<end, end>>
    BY <1>1, MessageOf
  <1> QED BY <1>1, <1>3, <1>4, TwoAfter

\* Content-Length is the length of the page in every message Generate makes, whatever
\* statuses and pages the response had before (httpThings.cpp:50-59).
THEOREM LengthIsOfPageCorrect == CommandSpec => []LengthIsOfPage
  <1>1. AnswerInv => LengthIsOfPage
    <2> SUFFICES ASSUME AnswerInv, Generated PROVE LengthIsOfPage
      BY DEF LengthIsOfPage
    <2>1. PICK body, content, end, tail :
            body = message.body /\ content = response.content /\ end = NUL /\ tail = <<end, end>>
      OBVIOUS
    <2>2. PICK S : content \in Seq(S)
      BY <2>1, ContentShown
    <2>3. PICK Values : content \in Seq(Values) /\ tail \in Seq(Values)
      <3>1. content \in Seq(S \cup {end}) /\ tail \in Seq(S \cup {end})
        BY <2>1, <2>2
      <3> QED BY <3>1
    <2>4. body = content \o tail
      BY <2>1, MessageOf
    <2>5. Length = Len(content)
      BY <2>1, MessageOf DEF Length, AnswerInv, Shown
    <2>6. SubSeq(body, 1, Len(content)) = content /\ SubSeq(body, Len(content) + 1, Len(body)) = tail
      BY <2>3, <2>4, CutInTwo
    <2>7. body[Len(content)].tag = "/html"
      BY <2>1, ContentShown, BodyBegins
    <2> QED BY <2>1, <2>5, <2>6, <2>7 DEF LengthIsOfPage
  <1> QED BY <1>1, AnswerAlways, PTL

\* The page and the status line of every message say the same
\* (httpCommandProcessor.cpp:24-63).
THEOREM PageTellsStatusCorrect == CommandSpec => []PageTellsStatus
  <1>1. AnswerInv => PageTellsStatus
    <2> SUFFICES ASSUME AnswerInv, Generated PROVE PageTellsStatus
      BY DEF PageTellsStatus
    <2>1. message.status = <<response.status, StatusText[response.status]>> /\ message.status[1] = response.status
      BY MessageOf DEF AnswerInv, Shown
    <2>2. message.body[3] = response.content[3] /\ message.body[4] = response.content[4]
      <3>1. 3 \in 1 .. Len(response.content) /\ 4 \in 1 .. Len(response.content)
        BY ContentShown
      <3> QED BY <3>1, BodyBegins
    <2>3. CASE response.status = 200
      <3>1. response.content[4] = Tag("h", <<1, request.path>>)
        BY <2>3 DEF AnswerInv, Shown, ListsEntries, Generated
      <3> QED BY <2>1, <2>2, <2>3, <3>1 DEF PageTellsStatus, Tag
    <2>4. CASE response.status # 200
      <3>1. response.content[3] = Tag("text", <<response.status, StatusText[response.status]>>)
        BY <2>4 DEF AnswerInv, Shown, ShowsStatus
      <3> QED BY <2>1, <2>2, <2>4, <3>1 DEF PageTellsStatus, Tag
    <2> QED BY <2>3, <2>4
  <1> QED BY <1>1, AnswerAlways, PTL

-----------------------------------------------------------------------------
(* The scan of a folder.                                                   *)

\* Whether the folder was opened, and what is left to read of it.
Scanned ==
  /\ step = "read" => seen.opened
  /\ seen.opened => step \in {"read", "page", "date", "generate", "generated"} /\ response.status = 200
  /\ ~seen.opened => files = <<>>
  /\ seen.opened /\ step # "read" => unread = {}

\* What is there was seen, and so was what is still to be read of it.
EntriesSeen ==
  /\ \A name \in Names : entries[name] \in seen.ever[name]
  /\ \A entry \in unread : entry[1] \in Names => entry[2] \in seen.ever[entry[1]] \ {"none"}

\* An entry of the list was there, and a slash follows what was a folder.
ListedSeen(file) ==
  /\ file[1] \in Names
  /\ \E kind \in seen.ever[file[1]] : kind # "none"
  /\ file[2] => "directory" \in seen.ever[file[1]]

FilesSeen == \A k \in 1 .. Len(files) : ListedSeen(files[k])

\* An entry that was of one kind throughout.
Steady(name) == seen.ever[name] \in {{"file"}, {"directory"}}

\* A name is in the list not at all, or once.
Absent(list, name) == \A k \in 1 .. Len(list) : list[k][1] # name

Once(list, name) == \E k \in 1 .. Len(list) : list[k][1] = name /\ \A j \in 1 .. Len(list) : list[j][1] = name => j = k

\* An entry that stays what it is has still to be read, or is in the list once.
ReadOnce ==
  seen.opened =>
    \A name \in Names : Steady(name) =>
      IF <<name, entries[name]>> \in unread THEN Absent(files, name) ELSE Once(files, name)

\* The inductive invariant of the scan: an entry that stays is either unread and not yet
\* listed, or listed once; all that is listed or unread was there.
ListingInv == Scanned /\ EntriesSeen /\ FilesSeen /\ ReadOnce

\* Before the scan.
LEMMA ListingInit == CommandInit => ListingInv
  <1> SUFFICES ASSUME CommandInit PROVE ListingInv
    OBVIOUS
  <1>1. step = "method" /\ files = <<>> /\ unread = {} /\ ~seen.opened /\ \A name \in Names : seen.ever[name] = {entries[name]}
    BY DEF CommandInit, Seen
  <1>2. Scanned /\ EntriesSeen /\ ReadOnce
    BY <1>1 DEF Scanned, EntriesSeen, ReadOnce
  <1>3. FilesSeen
    BY <1>1 DEF FilesSeen
  <1> QED BY <1>2, <1>3 DEF ListingInv

\* The steps that read nothing.
LEMMA ListingKept ==
  ASSUME ListingInv, UNCHANGED <<entries, files, unread>>, UNCHANGED seen.ever, UNCHANGED seen.opened, Scanned'
  PROVE  ListingInv'
  <1>1. EntriesSeen'
    BY DEF ListingInv, EntriesSeen
  <1>2. FilesSeen'
    BY DEF ListingInv, FilesSeen, ListedSeen
  <1>3. ReadOnce'
    <2>1. ASSUME NEW name \in Names, seen'.opened, Steady(name)'
          PROVE  IF <<name, entries'[name]>> \in unread' THEN Absent(files, name) ELSE Once(files, name)
      <3>1. seen.opened /\ Steady(name)
        BY <2>1 DEF Steady
      <3>2. IF <<name, entries[name]>> \in unread THEN Absent(files, name) ELSE Once(files, name)
        BY <3>1 DEF ListingInv, ReadOnce
      <3> QED BY <3>2
    <2> QED BY <2>1 DEF ReadOnce
  <1> QED BY <1>1, <1>2, <1>3 DEF ListingInv

\* A step that gives a status without a scan.
LEMMA ListingStatus ==
  AnswerInv /\ ListingInv /\ (TestUnimplementedMethods \/ TestPath \/ TestFolder \/ TestFile \/ OpenFails) => ListingInv'
  <1> SUFFICES ASSUME AnswerInv, ListingInv, TestUnimplementedMethods \/ TestPath \/ TestFolder \/ TestFile \/ OpenFails
               PROVE  ListingInv'
    OBVIOUS
  <1>1. step \in {"method", "exists", "is_folder", "is_file", "open"} /\ UNCHANGED <<files, unread, entries, seen>>
    BY DEF TestUnimplementedMethods, TestPath, TestFolder, TestFile, OpenFails, storage
  <1>2. ~seen.opened
    BY <1>1 DEF ListingInv, Scanned
  <1>3. step' # "read"
    BY DEF TestUnimplementedMethods, TestPath, TestFolder, TestFile, OpenFails, Become
  <1>4. Scanned'
    BY <1>1, <1>2, <1>3 DEF ListingInv, Scanned
  <1> QED BY <1>1, <1>4, ListingKept

\* The steps of the answer outside the scan.
LEMMA ListingAnswer ==
  AnswerInv /\ ListingInv /\ (EndOfFolder \/ GenerateResponseWithFolderContent \/ PushDate \/ GenerateMessage) => ListingInv'
  <1> SUFFICES ASSUME AnswerInv, ListingInv, EndOfFolder \/ GenerateResponseWithFolderContent \/ PushDate \/ GenerateMessage
               PROVE  ListingInv'
    OBVIOUS
  <1>1. PICK resp, result : resp = response /\ result = response'
    OBVIOUS
  <1>2. DOMAIN resp = {"status", "text", "headers", "content"}
    BY <1>1 DEF AnswerInv, CommandTypes
  <1>3. result.status = resp.status
    <2>1. CASE GenerateResponseWithFolderContent
      <3>1. PICK content : content = FolderPage
        OBVIOUS
      <3>2. result = SetPage(resp, content)
        BY <1>1, <2>1, <3>1 DEF GenerateResponseWithFolderContent
      <3> QED BY <1>2, <3>2, PageSet
    <2>2. CASE PushDate
      <3>1. result = push_header_line(resp, "Date", "now")
        BY <1>1, <2>2 DEF PushDate
      <3> QED BY <1>2, <3>1, HeaderPushed
    <2> QED BY <1>1, <2>1, <2>2 DEF EndOfFolder, GenerateMessage
  <1>4. /\ UNCHANGED <<files, unread, entries, seen>>
        /\ step' \in {"page", "date", "generate", "generated"}
        /\ step = "read" => unread = {}
    BY DEF EndOfFolder, GenerateResponseWithFolderContent, PushDate, GenerateMessage, storage
  <1>5. Scanned'
    BY <1>1, <1>3, <1>4 DEF ListingInv, Scanned
  <1> QED BY <1>4, <1>5, ListingKept

\* The folder is opened: what is there is unread.
LEMMA ListingOpen == AnswerInv /\ ListingInv /\ OpenFolder => ListingInv'
  <1> SUFFICES ASSUME AnswerInv, ListingInv, OpenFolder PROVE ListingInv'
    OBVIOUS
  <1>1. /\ step = "open" /\ step' = "read" /\ unread' = Present /\ UNCHANGED <<response, files, entries>>
        /\ seen'.opened /\ seen'.ever = seen.ever
    BY DEF OpenFolder, AnswerInv, CommandTypes
  <1>2. files = <<>> /\ response.status = 200
    BY <1>1 DEF ListingInv, Scanned, AnswerInv, Grounds
  <1>3. Scanned'
    BY <1>1, <1>2 DEF Scanned
  <1>4. EntriesSeen'
    <2>1. ASSUME NEW entry \in Present, entry[1] \in Names
          PROVE  entry[2] \in seen.ever[entry[1]] \ {"none"}
      <3>1. PICK name \in Names : entry = <<name, entries[name]>> /\ entries[name] # "none"
        BY <2>1, PlacesAssumption DEF Present
      <3> QED BY <3>1 DEF ListingInv, EntriesSeen
    <2> QED BY <1>1, <2>1 DEF ListingInv, EntriesSeen
  <1>5. FilesSeen'
    BY <1>1, <1>2 DEF FilesSeen
  <1>6. ReadOnce'
    <2>1. ASSUME NEW name \in Names, Steady(name) PROVE <<name, entries[name]>> \in Present
      <3>1. entries[name] # "none"
        BY <2>1 DEF ListingInv, EntriesSeen, Steady
      <3> QED BY <3>1 DEF Present
    <2>2. \A name \in Names : Absent(files', name)
      BY <1>1, <1>2 DEF Absent
    <2> QED BY <1>1, <2>1, <2>2 DEF ReadOnce, Steady, Absent
  <1> QED BY <1>3, <1>4, <1>5, <1>6 DEF ListingInv

\* A name that is appended is there once if it was not there, and no other is disturbed.
LEMMA NameAppended ==
  ASSUME NEW S, NEW list \in Seq(S), NEW last \in S, NEW longer, longer = Append(list, last), NEW name
  PROVE  /\ last[1] = name /\ Absent(list, name) => Once(longer, name)
         /\ last[1] # name /\ Absent(list, name) => Absent(longer, name)
         /\ last[1] # name /\ Once(list, name) => Once(longer, name)
  <1>1. /\ longer \in Seq(S) /\ Len(longer) = Len(list) + 1 /\ Len(list) \in Nat
        /\ longer[Len(list) + 1] = last
        /\ \A k \in 1 .. Len(list) : longer[k] = list[k]
    BY OneAppended, LenProperties
  <1>2. \A k \in 1 .. Len(longer) : k \in 1 .. Len(list) \/ k = Len(list) + 1
    BY <1>1
  <1>3. Len(list) + 1 \in 1 .. Len(longer) /\ \A k \in 1 .. Len(list) : k \in 1 .. Len(longer)
    BY <1>1
  <1>4. ASSUME last[1] = name, Absent(list, name) PROVE Once(longer, name)
    BY <1>1, <1>2, <1>3, <1>4 DEF Absent, Once
  <1>5. ASSUME last[1] # name, Absent(list, name) PROVE Absent(longer, name)
    BY <1>1, <1>2, <1>5 DEF Absent
  <1>6. ASSUME last[1] # name, Once(list, name) PROVE Once(longer, name)
    BY <1>1, <1>2, <1>3, <1>6 DEF Once
  <1> QED BY <1>4, <1>5, <1>6

\* One entry goes from the unread to the list, or is not listed.
LEMMA ListingRead == AnswerInv /\ ListingInv /\ ReadEntry => ListingInv'
  <1> SUFFICES ASSUME AnswerInv, ListingInv, ReadEntry PROVE ListingInv'
    OBVIOUS
  <1>1. step = "read" /\ seen.opened /\ UNCHANGED <<step, response, entries, seen>>
    BY DEF ReadEntry, storage, ListingInv, Scanned
  <1>2. PICK entry \in unread : \E slash \in {FALSE, entry[2] = "directory"} :
          /\ unread' = unread \ {entry}
          /\ files' = IF Listed(entry[1]) THEN Append(files, <<entry[1], slash>>) ELSE files
    BY DEF ReadEntry
  <1>3. PICK slash \in BOOLEAN :
          /\ slash => entry[2] = "directory"
          /\ unread' = unread \ {entry}
          /\ files' = IF Listed(entry[1]) THEN Append(files, <<entry[1], slash>>) ELSE files
    BY <1>2
  <1>4. PICK file : file = <<entry[1], slash>>
    OBVIOUS
  <1>5. file[1] = entry[1] /\ file[2] = slash
    BY <1>4
  <1>6. entry = <<entry[1], entry[2]>> /\ entry[1] \in Names \cup {".", ".."}
    BY <1>2 DEF AnswerInv, CommandTypes
  <1>7. Listed(entry[1]) <=> entry[1] \in Names
    BY <1>6, PlacesAssumption DEF Listed
  <1>8. files' = IF entry[1] \in Names THEN Append(files, file) ELSE files
    BY <1>3, <1>4, <1>7
  <1>9. files \in Seq(Names \X BOOLEAN)
    BY DEF AnswerInv, CommandTypes
  <1>10. entry[1] \in Names => file \in Names \X BOOLEAN
    BY <1>4
  <1>11. Scanned'
    BY <1>1 DEF ListingInv, Scanned
  <1>12. EntriesSeen'
    BY <1>1, <1>3 DEF ListingInv, EntriesSeen
  <1>13. FilesSeen'
    <2>1. CASE entry[1] \in Names
      <3>1. entry[2] \in seen.ever[entry[1]] /\ entry[2] # "none"
        BY <1>2, <2>1 DEF ListingInv, EntriesSeen
      <3>2. ListedSeen(file)
        BY <1>3, <1>5, <2>1, <3>1 DEF ListedSeen
      <3>3. /\ Len(files') = Len(files) + 1 /\ Len(files) \in Nat /\ files'[Len(files) + 1] = file
            /\ \A k \in 1 .. Len(files) : files'[k] = files[k]
        BY <1>8, <1>9, <1>10, <2>1, OneAppended, LenProperties
      <3>4. \A k \in 1 .. Len(files') : k \in 1 .. Len(files) \/ k = Len(files) + 1
        BY <3>3
      <3>5. \A k \in 1 .. Len(files') : ListedSeen(files'[k])
        BY <3>2, <3>3, <3>4 DEF ListingInv, FilesSeen
      <3> QED BY <1>1, <3>5 DEF FilesSeen, ListedSeen
    <2>2. CASE entry[1] \notin Names
      BY <1>1, <1>8, <2>2 DEF ListingInv, FilesSeen, ListedSeen
    <2> QED BY <2>1, <2>2
  <1>14. ASSUME NEW name \in Names, Steady(name)
         PROVE  IF <<name, entries[name]>> \in unread' THEN Absent(files', name) ELSE Once(files', name)
    <2>1. IF <<name, entries[name]>> \in unread THEN Absent(files, name) ELSE Once(files, name)
      BY <1>1, <1>14 DEF ListingInv, ReadOnce
    <2>2. CASE entry[1] = name
      <3>1. entry[2] \in seen.ever[name] /\ entries[name] \in seen.ever[name]
        BY <1>2, <2>2 DEF ListingInv, EntriesSeen
      <3>2. entry[2] = entries[name]
        BY <1>14, <3>1 DEF Steady
      <3>3. entry = <<name, entries[name]>>
        BY <1>6, <2>2, <3>2
      <3>4. Absent(files, name) /\ <<name, entries[name]>> \notin unread'
        BY <1>2, <1>3, <2>1, <3>3
      <3>5. file \in Names \X BOOLEAN /\ files' = Append(files, file) /\ file[1] = name
        BY <1>5, <1>8, <1>10, <2>2
      <3>6. Once(files', name)
        BY <1>9, <3>4, <3>5, NameAppended
      <3> QED BY <3>4, <3>6
    <2>3. CASE entry[1] # name
      <3>1. <<name, entries[name]>> # entry
        BY <2>3
      <3>2. <<name, entries[name]>> \in unread' <=> <<name, entries[name]>> \in unread
        BY <1>3, <3>1
      <3>3. CASE entry[1] \in Names
        <4>1. file \in Names \X BOOLEAN /\ files' = Append(files, file) /\ file[1] # name
          BY <1>5, <1>8, <1>10, <2>3, <3>3
        <4>2. /\ Absent(files, name) => Absent(files', name)
              /\ Once(files, name) => Once(files', name)
          BY <1>9, <4>1, NameAppended
        <4> QED BY <2>1, <3>2, <4>2
      <3>4. CASE entry[1] \notin Names
        <4>1. files' = files
          BY <1>8, <3>4
        <4> QED BY <2>1, <3>2, <4>1
      <3> QED BY <3>3, <3>4
    <2> QED BY <2>2, <2>3
  <1>15. ReadOnce'
    BY <1>1, <1>14 DEF ReadOnce, Steady, Absent, Once
  <1> QED BY <1>11, <1>12, <1>13, <1>15 DEF ListingInv

\* A place changes, and no entry.
LEMMA ListingPlace == AnswerInv /\ ListingInv /\ ChangePlace => ListingInv'
  <1> SUFFICES ASSUME AnswerInv, ListingInv, ChangePlace PROVE ListingInv'
    OBVIOUS
  <1>1. UNCHANGED <<step, response, files, unread, entries>>
    BY DEF ChangePlace
  <1>2. seen'.ever = seen.ever /\ seen'.opened = seen.opened
    BY DEF ChangePlace, AnswerInv, CommandTypes
  <1>3. Scanned'
    BY <1>1, <1>2 DEF ListingInv, Scanned
  <1> QED BY <1>1, <1>2, <1>3, ListingKept

\* An entry that changes is no longer one that stays; the others are not disturbed.
LEMMA ListingEntry == AnswerInv /\ ListingInv /\ ChangeEntry => ListingInv'
  <1> SUFFICES ASSUME AnswerInv, ListingInv, ChangeEntry PROVE ListingInv'
    OBVIOUS
  <1>1. step = "read" /\ UNCHANGED <<step, response, files>>
    BY DEF ChangeEntry
  <1>2. PICK changed \in Names, kind \in EntryKinds :
          /\ kind # entries[changed]
          /\ entries' = [entries EXCEPT ![changed] = kind]
          /\ seen' = [seen EXCEPT !.ever[changed] = @ \cup {kind}]
          /\ LET others == {entry \in unread : entry[1] # changed}
                 returned == entries[changed] # "none" /\ others = unread
             IN  unread' \in {unread} \cup (IF kind = "none" THEN {others}
                                           ELSE IF returned THEN {} ELSE {others \cup {<<changed, kind>>}})
    BY DEF ChangeEntry
  <1>3. PICK others : others = {entry \in unread : entry[1] # changed}
    OBVIOUS
  <1>4. \/ unread' = unread
        \/ unread' = others
        \/ kind # "none" /\ unread' = others \cup {<<changed, kind>>}
    BY <1>2, <1>3
  <1>5. /\ seen'.opened = seen.opened
        /\ seen'.ever = [seen.ever EXCEPT ![changed] = @ \cup {kind}]
    BY <1>2 DEF AnswerInv, CommandTypes
  <1>6. /\ seen'.ever[changed] = seen.ever[changed] \cup {kind}
        /\ \A name \in Names : name # changed => seen'.ever[name] = seen.ever[name]
        /\ \A name \in Names : seen.ever[name] \subseteq seen'.ever[name]
    BY <1>5 DEF AnswerInv, CommandTypes
  <1>7. entries'[changed] = kind /\ \A name \in Names : name # changed => entries'[name] = entries[name]
    BY <1>2 DEF AnswerInv, CommandTypes
  <1>8. Scanned'
    BY <1>1, <1>5 DEF ListingInv, Scanned
  <1>9. EntriesSeen'
    <2>1. \A name \in Names : entries'[name] \in seen'.ever[name]
      BY <1>6, <1>7 DEF ListingInv, EntriesSeen
    <2>2. ASSUME NEW entry \in unread', entry[1] \in Names
          PROVE  entry[2] \in seen'.ever[entry[1]] \ {"none"}
      <3>1. CASE entry \in unread
        BY <1>6, <2>2, <3>1 DEF ListingInv, EntriesSeen
      <3>2. CASE entry \notin unread
        <4>1. kind # "none" /\ entry = <<changed, kind>>
          BY <1>3, <1>4, <3>2
        <4> QED BY <1>6, <4>1
      <3> QED BY <3>1, <3>2
    <2> QED BY <2>1, <2>2 DEF EntriesSeen
  <1>10. FilesSeen'
    BY <1>1, <1>6 DEF ListingInv, FilesSeen, ListedSeen
  <1>11. ASSUME NEW name \in Names, Steady(name)'
         PROVE  Steady(name) /\ (<<name, entries'[name]>> \in unread' <=> <<name, entries[name]>> \in unread)
    <2>1. name # changed
      <3>1. entries[changed] \in seen'.ever[changed] /\ kind \in seen'.ever[changed]
        BY <1>6 DEF ListingInv, EntriesSeen
      <3> QED BY <1>2, <1>11, <3>1 DEF Steady
    <2>2. PICK pair : pair = <<name, entries[name]>>
      OBVIOUS
    <2>3. pair[1] # changed /\ pair # <<changed, kind>>
      BY <2>1, <2>2
    <2>4. pair \in unread' <=> pair \in unread
      BY <1>3, <1>4, <2>3
    <2> QED BY <1>6, <1>7, <1>11, <2>1, <2>2, <2>4 DEF Steady
  <1>12. ReadOnce'
    <2>1. ASSUME NEW name \in Names, seen'.opened, Steady(name)'
          PROVE  IF <<name, entries'[name]>> \in unread' THEN Absent(files, name) ELSE Once(files, name)
      <3>1. IF <<name, entries[name]>> \in unread THEN Absent(files, name) ELSE Once(files, name)
        BY <1>5, <1>11, <2>1 DEF ListingInv, ReadOnce
      <3> QED BY <1>11, <2>1, <3>1
    <2> QED BY <1>1, <2>1 DEF ReadOnce
  <1> QED BY <1>8, <1>9, <1>10, <1>12 DEF ListingInv

\* The inductive invariant of the scan holds.
LEMMA ListingAlways == CommandSpec => []ListingInv
  <1>1. ListingInv /\ UNCHANGED commandVars => ListingInv'
    <2> SUFFICES ASSUME ListingInv, UNCHANGED commandVars PROVE ListingInv'
      OBVIOUS
    <2>1. Scanned'
      BY DEF ListingInv, Scanned, commandVars
    <2> QED BY <2>1, ListingKept DEF commandVars
  <1>2. AnswerInv /\ ListingInv /\ [CommandNext]_commandVars => ListingInv'
    BY <1>1, ListingStatus, ListingAnswer, ListingOpen, ListingRead, ListingPlace, ListingEntry DEF CommandNext, CommandOver
  <1> QED BY <1>2, ListingInit, AnswerAlways, PTL DEF CommandSpec

\* For any number of names and of changes during the scan, the page lists every entry that
\* stayed, once, and nothing that was never there (fileStorageReader.cpp:35-46,
\* httpCommandProcessor.cpp:80-83).
THEOREM ListsTheFolderCorrect == CommandSpec => []ListsTheFolder
  <1>1. AnswerInv /\ ListingInv => ListsTheFolder
    <2> SUFFICES ASSUME AnswerInv, ListingInv, Generated PROVE ListsTheFolder
      BY DEF ListsTheFolder
    <2>1. /\ DOMAIN message.body = 1 .. Len(response.content) + 2 /\ Len(response.content) \in Nat
          /\ \A k \in 1 .. Len(response.content) : message.body[k] = response.content[k]
          /\ \A k \in {Len(response.content) + 1, Len(response.content) + 2} : message.body[k].tag # "li"
      <3>1. PICK body, content, end : body = message.body /\ content = response.content /\ end = NUL
        OBVIOUS
      <3>2. PICK S : content \in Seq(S)
        BY <3>1, ContentShown
      <3>3. PICK Values : content \in Seq(Values) /\ end \in Values
        <4>1. content \in Seq(S \cup {end}) /\ end \in S \cup {end}
          BY <3>2
        <4> QED BY <4>1
      <3>4. body = content \o <<end, end>>
        BY <3>1, MessageOf
      <3>5. /\ body \in Seq(Values) /\ Len(content) \in Nat /\ Len(body) = Len(content) + 2
            /\ \A k \in 1 .. Len(content) : body[k] = content[k]
            /\ body[Len(content) + 1] = end /\ body[Len(content) + 2] = end
        BY <3>3, <3>4, TwoAfter
      <3>6. DOMAIN body = 1 .. Len(content) + 2
        BY <3>5, LenProperties
      <3>7. end.tag # "li"
        BY <3>1 DEF NUL, Tag
      <3> QED BY <3>1, <3>5, <3>6, <3>7
    <2>2. \A n \in Items : n \in 1 .. Len(response.content) /\ response.content[n].tag = "li"
      <3>1. \A n \in 1 .. Len(response.content) + 2 :
              n \in 1 .. Len(response.content) \/ n \in {Len(response.content) + 1, Len(response.content) + 2}
        BY <2>1
      <3> QED BY <2>1, <3>1 DEF Items
    <2>3. CASE response.status # 200
      <3>1. Items = {}
        BY <2>2, <2>3 DEF AnswerInv, Shown, ShowsStatus
      <3>2. ~seen.opened
        BY <2>3 DEF ListingInv, Scanned
      <3> QED BY <3>1, <3>2 DEF ListsTheFolder
    <2>4. CASE response.status = 200
      <3>1. ListsEntries(response.content, files, request.path)
        BY <2>4 DEF AnswerInv, Shown, Generated
      <3>2. Len(files) \in Nat
        BY LenProperties DEF AnswerInv, CommandTypes
      <3>3. Items = 7 .. Len(files) + 6
        <4>1. \A n \in Items : n \in 7 .. Len(files) + 6
          BY <2>2, <3>1 DEF ListsEntries
        <4>2. ASSUME NEW n \in 7 .. Len(files) + 6 PROVE n \in Items
          <5>1. n \in 1 .. Len(response.content)
            BY <3>1, <3>2 DEF ListsEntries
          <5>2. response.content[n] = Tag("li", files[n - 6])
            BY <3>1 DEF ListsEntries
          <5>3. n \in DOMAIN message.body
            BY <2>1, <5>1
          <5> QED BY <2>1, <5>1, <5>2, <5>3 DEF Items, Tag
        <4> QED BY <4>1, <4>2
      <3>4. \A n \in Items : n - 6 \in 1 .. Len(files) /\ Item(n) = files[n - 6]
        <4> SUFFICES ASSUME NEW n \in Items PROVE n - 6 \in 1 .. Len(files) /\ Item(n) = files[n - 6]
          OBVIOUS
        <4>1. n \in 7 .. Len(files) + 6 /\ n - 6 \in 1 .. Len(files) /\ n \in 1 .. Len(response.content)
          BY <2>2, <3>2, <3>3
        <4>2. response.content[n] = Tag("li", files[n - 6])
          BY <3>1, <4>1 DEF ListsEntries
        <4> QED BY <2>1, <4>1, <4>2 DEF Item, Tag
      <3>5. ~seen.opened => Items = {}
        BY <3>3 DEF ListingInv, Scanned
      <3>6. ASSUME NEW n \in Items
            PROVE  /\ Item(n)[1] \in Names /\ seen.ever[Item(n)[1]] # {"none"}
                   /\ Item(n)[2] => "directory" \in seen.ever[Item(n)[1]]
        BY <3>4 DEF ListingInv, FilesSeen, ListedSeen
      <3>7. ASSUME NEW name \in Names, seen.opened, Steady(name)
            PROVE  Cardinality({n \in Items : Item(n)[1] = name}) = 1
        <4>1. Once(files, name)
          BY <3>7 DEF ListingInv, ReadOnce, Scanned, Generated
        <4>2. PICK k \in 1 .. Len(files) : files[k][1] = name /\ \A j \in 1 .. Len(files) : files[j][1] = name => j = k
          BY <4>1 DEF Once
        <4>3. k + 6 \in Items /\ (k + 6) - 6 = k
          BY <3>2, <3>3
        <4>4. \A n \in Items : Item(n)[1] = name <=> n = k + 6
          <5> SUFFICES ASSUME NEW n \in Items PROVE Item(n)[1] = name <=> n = k + 6
            OBVIOUS
          <5>1. n \in Int /\ n - 6 \in 1 .. Len(files) /\ Item(n) = files[n - 6]
            BY <3>2, <3>3, <3>4
          <5>2. n - 6 = k <=> n = k + 6
            BY <3>2, <5>1
          <5> QED BY <4>2, <5>1, <5>2
        <4>5. {n \in Items : Item(n)[1] = name} = {k + 6}
          BY <4>3, <4>4
        <4> QED BY <4>5, FS_Singleton
      <3> QED BY <3>5, <3>6, <3>7 DEF ListsTheFolder, Steady
    <2> QED BY <2>3, <2>4
  <1> QED BY <1>1, AnswerAlways, ListingAlways, PTL

-----------------------------------------------------------------------------
(* Counting tags.                                                          *)

\* In none of the tags.
LEMMA CountNothing ==
  ASSUME NEW tags, NEW name
  PROVE  Count(tags, name, 0) = 0
  <1>1. {k \in 1 .. 0 : tags[k].tag = name} = {}
    OBVIOUS
  <1> QED BY <1>1, FS_EmptySet DEF Count

\* The number of tags is a number.
LEMMA CountFinite ==
  ASSUME NEW tags, NEW name, NEW n \in Nat
  PROVE  IsFiniteSet({k \in 1 .. n : tags[k].tag = name}) /\ Count(tags, name, n) \in Nat
  <1>1. IsFiniteSet(1 .. n)
    BY FS_Interval
  <1>2. IsFiniteSet({k \in 1 .. n : tags[k].tag = name})
    BY <1>1, FS_Subset
  <1> QED BY <1>2, FS_CardinalityType DEF Count

\* With one tag more.
LEMMA CountOne ==
  ASSUME NEW tags, NEW name, NEW n \in Nat
  PROVE  Count(tags, name, n + 1) = Count(tags, name, n) + (IF tags[n + 1].tag = name THEN 1 ELSE 0)
  <1> DEFINE found == {k \in 1 .. n : tags[k].tag = name}
             more == {k \in 1 .. n + 1 : tags[k].tag = name}
  <1>1. \A k : k \in 1 .. n + 1 <=> k \in 1 .. n \/ k = n + 1
    OBVIOUS
  <1>0. Count(tags, name, n) = Cardinality(found) /\ Count(tags, name, n + 1) = Cardinality(more)
    BY DEF Count
  <1>2. IsFiniteSet(found) /\ Cardinality(found) \in Nat /\ n + 1 \notin found
    <2>1. IsFiniteSet(found) /\ Count(tags, name, n) \in Nat
      BY CountFinite
    <2>2. n + 1 \notin found
      OBVIOUS
    <2> QED BY <1>0, <2>1, <2>2
  <1>3. CASE tags[n + 1].tag = name
    <2>1. more = found \cup {n + 1}
      BY <1>1, <1>3
    <2>2. Cardinality(more) = Cardinality(found) + 1
      BY <1>2, <2>1, FS_AddElement
    <2> QED BY <1>0, <1>3, <2>2
  <1>4. CASE tags[n + 1].tag # name
    <2>1. more = found
      BY <1>1, <1>4
    <2> HIDE DEF found, more
    <2> QED BY <1>0, <1>2, <1>4, <2>1
  <1> QED BY <1>3, <1>4

\* In tags that agree.
LEMMA CountAgrees ==
  ASSUME NEW tags, NEW others, NEW name, NEW n \in Nat, \A k \in 1 .. n : tags[k] = others[k]
  PROVE  Count(tags, name, n) = Count(others, name, n)
  <1>1. {k \in 1 .. n : tags[k].tag = name} = {k \in 1 .. n : others[k].tag = name}
    OBVIOUS
  <1> QED BY <1>1 DEF Count

\* In tags of other names.
LEMMA CountNone ==
  ASSUME NEW tags, NEW name, NEW n \in Nat, \A k \in 1 .. n : tags[k].tag # name
  PROVE  Count(tags, name, n) = 0
  <1>1. {k \in 1 .. n : tags[k].tag = name} = {}
    OBVIOUS
  <1> QED BY <1>1, FS_EmptySet DEF Count

\* A page between two tags and two more.
LEMMA CountInPage ==
  ASSUME NEW S, NEW inner \in Seq(S), NEW whole, NEW name,
         \A k \in 1 .. Len(inner) : whole[k + 2] = inner[k]
  PROVE  \A n \in 0 .. Len(inner) : Count(whole, name, n + 2) = Count(whole, name, 2) + Count(inner, name, n)
  <1> DEFINE P(n) == n <= Len(inner) => Count(whole, name, n + 2) = Count(whole, name, 2) + Count(inner, name, n)
             Holds == {n \in Nat : P(n)}
  <1>1. Len(inner) \in Nat
    BY LenProperties
  <1>2. 0 \in Holds
    <2>1. Count(inner, name, 0) = 0 /\ Count(whole, name, 2) \in Nat
      BY CountNothing, CountFinite
    <2> QED BY <2>1
  <1>3. ASSUME NEW n \in Nat, n \in Holds PROVE n + 1 \in Holds
    <2> SUFFICES ASSUME n + 1 <= Len(inner) PROVE P(n + 1)
      OBVIOUS
    <2>1. Count(whole, name, n + 2) = Count(whole, name, 2) + Count(inner, name, n)
      BY <1>1, <1>3
    <2>2. n + 1 \in 1 .. Len(inner) /\ (n + 2) + 1 = (n + 1) + 2 /\ n + 2 \in Nat
      BY <1>1
    <2>3. Count(whole, name, (n + 2) + 1) = Count(whole, name, n + 2) + (IF whole[(n + 2) + 1].tag = name THEN 1 ELSE 0)
      BY <2>2, CountOne
    <2>4. Count(inner, name, n + 1) = Count(inner, name, n) + (IF inner[n + 1].tag = name THEN 1 ELSE 0)
      BY CountOne
    <2>5. whole[(n + 2) + 1] = inner[n + 1]
      BY <2>2
    <2>6. Count(whole, name, 2) \in Nat /\ Count(inner, name, n) \in Nat
      BY CountFinite
    <2> QED BY <2>1, <2>2, <2>3, <2>4, <2>5, <2>6
  <1> HIDE DEF Holds
  <1>4. Nat \subseteq Holds
    BY <1>2, <1>3, SetInduction
  <1> QED BY <1>1, <1>4 DEF Holds

-----------------------------------------------------------------------------
(* Levels that go round.                                                   *)

\* Division.
LEMMA Remainder ==
  ASSUME NEW a \in Nat, NEW m \in Nat \ {0}
  PROVE  a \div m \in Int /\ (a % m) \in 0 .. m - 1 /\ a = m * (a \div m) + (a % m)
  BY SMT

\* Numbers that differ by a multiple of m leave the same remainder.
LEMMA SameRemainder ==
  ASSUME NEW a \in Nat, NEW b \in Nat, NEW m \in Nat \ {0}, NEW q \in Int, a = b + q * m
  PROVE  a % m = b % m
  <1>1. PICK r \in 0 .. m - 1, c \in Int : r = a % m /\ a = m * c + r
    BY Remainder
  <1>2. PICK s \in 0 .. m - 1, d \in Int : s = b % m /\ b = m * d + s
    BY Remainder
  <1>3. PICK e \in Int : e = c - d - q
    OBVIOUS
  <1>4. m * e = s - r
    BY <1>1, <1>2, <1>3
  <1>5. e <= 0
    <2> SUFFICES ASSUME e >= 1 PROVE FALSE
      OBVIOUS
    <2>1. m * e >= m
      OBVIOUS
    <2> QED BY <1>4, <2>1
  <1>6. e >= 0
    <2> SUFFICES ASSUME e <= -1 PROVE FALSE
      OBVIOUS
    <2>1. m * e <= -m
      OBVIOUS
    <2> QED BY <1>4, <2>1
  <1>7. m * e = 0
    BY <1>5, <1>6
  <1>8. s = r
    BY <1>4, <1>7
  <1> QED BY <1>1, <1>2, <1>8

\* The level is the difference of the two numbers, up to rounds of the counter.
Level(level, begun, ended) ==
  \E rounds \in Int : begun = ended + level + rounds * (UnsignedMax + 1)

\* One begun more.
LEMMA LevelUp ==
  ASSUME NEW level \in 0 .. UnsignedMax, NEW begun \in Nat, NEW ended \in Nat, Level(level, begun, ended)
  PROVE  Increment(level) \in 0 .. UnsignedMax /\ Level(Increment(level), begun + 1, ended)
  <1>1. PICK rounds \in Int : begun = ended + level + rounds * (UnsignedMax + 1)
    BY DEF Level
  <1>2. UnsignedMax \in Nat
    BY HtmlAssumption
  <1>3. CASE level = UnsignedMax
    <2>1. begun + 1 = ended + 0 + (rounds + 1) * (UnsignedMax + 1)
      BY <1>1, <1>2, <1>3
    <2>2. rounds + 1 \in Int /\ Increment(level) = 0
      BY <1>3 DEF Increment
    <2>3. Level(0, begun + 1, ended)
      BY <2>1, <2>2 DEF Level
    <2> QED BY <1>2, <2>2, <2>3
  <1>4. CASE level # UnsignedMax
    <2>1. begun + 1 = ended + (level + 1) + rounds * (UnsignedMax + 1)
      BY <1>1, <1>2, <1>4
    <2>2. Increment(level) = level + 1
      BY <1>4 DEF Increment
    <2> QED BY <1>2, <1>4, <2>1, <2>2 DEF Level
  <1> QED BY <1>3, <1>4

\* One ended more.
LEMMA LevelDown ==
  ASSUME NEW level \in 0 .. UnsignedMax, NEW begun \in Nat, NEW ended \in Nat, Level(level, begun, ended)
  PROVE  Decrement(level) \in 0 .. UnsignedMax /\ Level(Decrement(level), begun, ended + 1)
  <1>1. PICK rounds \in Int : begun = ended + level + rounds * (UnsignedMax + 1)
    BY DEF Level
  <1>2. UnsignedMax \in Nat
    BY HtmlAssumption
  <1>3. CASE level = 0
    <2>1. begun = (ended + 1) + UnsignedMax + (rounds - 1) * (UnsignedMax + 1)
      BY <1>1, <1>2, <1>3
    <2>2. rounds - 1 \in Int /\ Decrement(level) = UnsignedMax
      BY <1>3 DEF Decrement
    <2>3. Level(UnsignedMax, begun, ended + 1)
      BY <2>1, <2>2 DEF Level
    <2> QED BY <1>2, <2>2, <2>3
  <1>4. CASE level # 0
    <2>1. begun = (ended + 1) + (level - 1) + rounds * (UnsignedMax + 1)
      BY <1>1, <1>2, <1>4
    <2>2. Decrement(level) = level - 1
      BY <1>4 DEF Decrement
    <2> QED BY <1>2, <1>4, <2>1, <2>2 DEF Level
  <1> QED BY <1>3, <1>4

\* At level 0 as many were begun as ended, up to rounds of the counter.
LEMMA LevelClosed ==
  ASSUME NEW begun \in Nat, NEW ended \in Nat, Level(0, begun, ended)
  PROVE  begun % (UnsignedMax + 1) = ended % (UnsignedMax + 1)
  <1>1. PICK rounds \in Int : begun = ended + 0 + rounds * (UnsignedMax + 1)
    BY DEF Level
  <1>2. PICK m : m = UnsignedMax + 1
    OBVIOUS
  <1>3. m \in Nat \ {0} /\ begun = ended + rounds * m
    BY <1>1, <1>2, HtmlAssumption
  <1>4. begun % m = ended % m
    BY <1>3, SameRemainder
  <1> QED BY <1>2, <1>4

-----------------------------------------------------------------------------
(* Any sequence of calls of an HtmlWrapper.                                *)

\* The tags between those of the page itself.
InnerTags == {"p", "/p", "ul", "/ul", "li", "h", "text"}

\* The types of the state.
PageTypes ==
  /\ DOMAIN page = {"inner", "paragraphs", "lists", "aborted"}
  /\ \E S : page.inner \in Seq(S)
  /\ \A k \in 1 .. Len(page.inner) : page.inner[k].tag \in InnerTags
  /\ page.paragraphs \in 0 .. UnsignedMax /\ page.lists \in 0 .. UnsignedMax

\* The levels count what is open; while no more lists were begun than the level can count,
\* exactly.
Levels ==
  LET Of(name) == Count(page.inner, name, Len(page.inner)) IN
  /\ Level(page.paragraphs, Of("p"), Of("/p"))
  /\ Level(page.lists, Of("ul"), Of("/ul"))
  /\ Of("ul") <= UnsignedMax => Of("ul") = Of("/ul") + page.lists

\* What was handed out is the page, all closed.
HandedOut ==
  html # <<>> =>
    /\ html = <<Tag("html", NoText), Tag("body", NoText)>> \o page.inner \o <<Tag("/body", NoText), Tag("/html", NoText)>>
    /\ page.paragraphs = 0 /\ page.lists = 0

\* The inductive invariant of an HtmlWrapper: the levels its assertions test are what its
\* tags say.
HtmlInv == PageTypes /\ Levels /\ ListsNested /\ HandedOut

\* The steps that add nothing to the page.
LEMMA PageKept ==
  ASSUME HtmlInv, DOMAIN page' = DOMAIN page, HandedOut',
         page'.inner = page.inner, page'.paragraphs = page.paragraphs, page'.lists = page.lists
  PROVE  HtmlInv'
  <1>1. PageTypes'
    BY DEF HtmlInv, PageTypes
  <1>2. Levels'
    BY DEF HtmlInv, Levels, Count
  <1>3. ListsNested'
    BY DEF HtmlInv, ListsNested, Count
  <1> QED BY <1>1, <1>2, <1>3 DEF HtmlInv

\* A tag more, with the levels it changes.
LEMMA PageGrown ==
  ASSUME HtmlInv, NEW name \in InnerTags, NEW text,
         DOMAIN page' = DOMAIN page, page'.inner = Append(page.inner, Tag(name, text)),
         page'.paragraphs = IF name = "p" THEN Increment(page.paragraphs)
                            ELSE IF name = "/p" THEN Decrement(page.paragraphs) ELSE page.paragraphs,
         page'.lists = IF name = "ul" THEN Increment(page.lists)
                       ELSE IF name = "/ul" THEN Decrement(page.lists) ELSE page.lists,
         name \in {"/ul", "li"} => page.lists > 0,
         html' = <<>>
  PROVE  HtmlInv'
  <1>1. PICK S : page.inner \in Seq(S)
    BY DEF HtmlInv, PageTypes
  <1>2. PICK inner, longer, last : inner = page.inner /\ longer = page'.inner /\ last = Tag(name, text)
    OBVIOUS
  <1>3. inner \in Seq(S \cup {last}) /\ last \in S \cup {last} /\ longer = Append(inner, last)
    BY <1>1, <1>2
  <1>4. PICK Values : inner \in Seq(Values) /\ last \in Values
    BY <1>3
  <1>5. PICK n : n = Len(inner)
    OBVIOUS
  <1>6. /\ longer \in Seq(Values) /\ Len(longer) = n + 1 /\ n \in Nat
        /\ longer[n + 1] = last
        /\ \A k \in 1 .. n : longer[k] = inner[k]
    BY <1>3, <1>4, <1>5, OneAppended, LenProperties
  <1>7. last.tag = name
    BY <1>2 DEF Tag
  <1>8. \A tag : \A k \in 0 .. n : Count(longer, tag, k) = Count(inner, tag, k)
    <2> SUFFICES ASSUME NEW tag, NEW k \in 0 .. n PROVE Count(longer, tag, k) = Count(inner, tag, k)
      OBVIOUS
    <2>1. k \in Nat /\ \A j \in 1 .. k : longer[j] = inner[j]
      BY <1>6
    <2> QED BY <2>1, CountAgrees
  <1>9. \A tag : Count(longer, tag, n + 1) = Count(inner, tag, n) + (IF tag = name THEN 1 ELSE 0)
    <2> SUFFICES ASSUME NEW tag PROVE Count(longer, tag, n + 1) = Count(inner, tag, n) + (IF tag = name THEN 1 ELSE 0)
      OBVIOUS
    <2>1. Count(longer, tag, n + 1) = Count(longer, tag, n) + (IF longer[n + 1].tag = tag THEN 1 ELSE 0)
      BY <1>6, CountOne
    <2>2. Count(longer, tag, n) = Count(inner, tag, n)
      BY <1>6, <1>8
    <2> QED BY <1>6, <1>7, <2>1, <2>2
  <1>10. \A tag : Count(inner, tag, n) \in Nat
    BY <1>6, CountFinite
  <1>11. PICK before, after \in [{"p", "/p", "ul", "/ul"} -> Nat] :
           \A tag \in {"p", "/p", "ul", "/ul"} :
             /\ before[tag] = Count(inner, tag, n)
             /\ after[tag] = before[tag] + (IF tag = name THEN 1 ELSE 0)
    <2> DEFINE b == [tag \in {"p", "/p", "ul", "/ul"} |-> Count(inner, tag, n)]
               a == [tag \in {"p", "/p", "ul", "/ul"} |-> Count(inner, tag, n) + (IF tag = name THEN 1 ELSE 0)]
    <2>1. b \in [{"p", "/p", "ul", "/ul"} -> Nat] /\ a \in [{"p", "/p", "ul", "/ul"} -> Nat]
      BY <1>10
    <2> QED BY <2>1
  <1>12. \A tag \in {"p", "/p", "ul", "/ul"} : after[tag] = Count(longer, tag, n + 1)
    BY <1>9, <1>11
  <1>13. /\ Level(page.paragraphs, before["p"], before["/p"])
         /\ Level(page.lists, before["ul"], before["/ul"])
         /\ before["ul"] <= UnsignedMax => before["ul"] = before["/ul"] + page.lists
         /\ page.paragraphs \in 0 .. UnsignedMax /\ page.lists \in 0 .. UnsignedMax
    BY <1>2, <1>5, <1>11 DEF HtmlInv, Levels, PageTypes
  <1>14. page'.paragraphs \in 0 .. UnsignedMax /\ Level(page'.paragraphs, after["p"], after["/p"])
    <2>1. CASE name = "p"
      <3>1. page'.paragraphs = Increment(page.paragraphs) /\ after["p"] = before["p"] + 1 /\ after["/p"] = before["/p"]
        BY <1>11, <2>1
      <3> QED BY <1>11, <1>13, <3>1, LevelUp
    <2>2. CASE name = "/p"
      <3>1. page'.paragraphs = Decrement(page.paragraphs) /\ after["p"] = before["p"] /\ after["/p"] = before["/p"] + 1
        BY <1>11, <2>2
      <3> QED BY <1>11, <1>13, <3>1, LevelDown
    <2>3. CASE name \notin {"p", "/p"}
      <3>1. page'.paragraphs = page.paragraphs /\ after["p"] = before["p"] /\ after["/p"] = before["/p"]
        BY <1>11, <2>3
      <3> QED BY <1>13, <3>1
    <2> QED BY <2>1, <2>2, <2>3
  <1>15. page'.lists \in 0 .. UnsignedMax /\ Level(page'.lists, after["ul"], after["/ul"])
    <2>1. CASE name = "ul"
      <3>1. page'.lists = Increment(page.lists) /\ after["ul"] = before["ul"] + 1 /\ after["/ul"] = before["/ul"]
        BY <1>11, <2>1
      <3> QED BY <1>11, <1>13, <3>1, LevelUp
    <2>2. CASE name = "/ul"
      <3>1. page'.lists = Decrement(page.lists) /\ after["ul"] = before["ul"] /\ after["/ul"] = before["/ul"] + 1
        BY <1>11, <2>2
      <3> QED BY <1>11, <1>13, <3>1, LevelDown
    <2>3. CASE name \notin {"ul", "/ul"}
      <3>1. page'.lists = page.lists /\ after["ul"] = before["ul"] /\ after["/ul"] = before["/ul"]
        BY <1>11, <2>3
      <3> QED BY <1>13, <3>1
    <2> QED BY <2>1, <2>2, <2>3
  <1>16. after["ul"] <= UnsignedMax =>
           /\ after["ul"] = after["/ul"] + page'.lists
           /\ name = "li" => after["ul"] > after["/ul"]
    <2> SUFFICES ASSUME after["ul"] <= UnsignedMax
                 PROVE  after["ul"] = after["/ul"] + page'.lists /\ (name = "li" => after["ul"] > after["/ul"])
      OBVIOUS
    <2>1. UnsignedMax \in Nat /\ before["ul"] \in Nat /\ before["/ul"] \in Nat
      BY <1>11, HtmlAssumption
    <2>2. CASE name = "ul"
      <3>1. after["ul"] = before["ul"] + 1 /\ after["/ul"] = before["/ul"]
        BY <1>11, <2>2
      <3>2. before["ul"] = before["/ul"] + page.lists /\ page.lists # UnsignedMax
        BY <1>13, <2>1, <3>1
      <3>3. page'.lists = page.lists + 1
        BY <2>2, <3>2 DEF Increment
      <3> QED BY <1>13, <2>1, <2>2, <3>1, <3>2, <3>3
    <2>3. CASE name = "/ul"
      <3>1. after["ul"] = before["ul"] /\ after["/ul"] = before["/ul"] + 1
        BY <1>11, <2>3
      <3>2. page'.lists = page.lists - 1
        BY <1>13, <2>3 DEF Decrement
      <3>3. before["ul"] = before["/ul"] + page.lists
        BY <1>13, <3>1
      <3>4. page.lists \in Int
        BY <1>13, <2>1
      <3>5. after["ul"] = after["/ul"] + page'.lists
        BY <2>1, <3>1, <3>2, <3>3, <3>4
      <3>6. name # "li"
        BY <2>3
      <3> QED BY <3>5, <3>6
    <2>4. CASE name \notin {"ul", "/ul"}
      <3>1. after["ul"] = before["ul"] /\ after["/ul"] = before["/ul"] /\ page'.lists = page.lists
        BY <1>11, <2>4
      <3> QED BY <1>13, <2>1, <2>4, <3>1
    <2> QED BY <2>2, <2>3, <2>4
  <1>17. PageTypes'
    <2>1. \A k \in 1 .. n + 1 : longer[k].tag \in InnerTags
      <3>1. \A k \in 1 .. n : longer[k].tag \in InnerTags
        BY <1>2, <1>5, <1>6 DEF HtmlInv, PageTypes
      <3>2. \A k \in 1 .. n + 1 : k \in 1 .. n \/ k = n + 1
        BY <1>6
      <3> QED BY <1>6, <1>7, <3>1, <3>2
    <2> QED BY <1>2, <1>6, <1>14, <1>15, <2>1 DEF HtmlInv, PageTypes
  <1>18. Levels'
    <2>1. /\ Level(page'.paragraphs, Count(longer, "p", n + 1), Count(longer, "/p", n + 1))
          /\ Level(page'.lists, Count(longer, "ul", n + 1), Count(longer, "/ul", n + 1))
          /\ Count(longer, "ul", n + 1) <= UnsignedMax => Count(longer, "ul", n + 1) = Count(longer, "/ul", n + 1) + page'.lists
      BY <1>12, <1>14, <1>15, <1>16
    <2> QED BY <1>2, <1>6, <2>1 DEF Levels, Level, Count
  <1>19. ListsNested'
    <2> SUFFICES ASSUME Count(longer, "ul", n + 1) <= UnsignedMax, NEW k \in 1 .. n + 1
                 PROVE  /\ Count(longer, "ul", k) >= Count(longer, "/ul", k)
                        /\ longer[k].tag = "li" => Count(longer, "ul", k) > Count(longer, "/ul", k)
      <3>1. DOMAIN longer = 1 .. n + 1
        BY <1>6
      <3> QED BY <1>2, <1>6, <3>1 DEF ListsNested, Count
    <2>1. CASE k = n + 1
      <3>1. Count(longer, "ul", k) = after["ul"] /\ Count(longer, "/ul", k) = after["/ul"]
        BY <1>12, <2>1
      <3>2. after["ul"] \in Nat /\ after["/ul"] \in Nat /\ page'.lists \in Nat
        BY <1>11, <1>15, HtmlAssumption
      <3>3. after["ul"] <= UnsignedMax
        BY <1>12
      <3> QED BY <1>6, <1>7, <1>16, <2>1, <3>1, <3>2, <3>3
    <2>2. CASE k # n + 1
      <3>1. k \in 1 .. n /\ k \in 0 .. n
        BY <1>6, <2>2
      <3>2. Count(inner, "ul", n) <= UnsignedMax
        <4>1. after["ul"] >= before["ul"] /\ after["ul"] <= UnsignedMax /\ before["ul"] \in Nat
          BY <1>11, <1>12
        <4> QED BY <1>11, <4>1, HtmlAssumption
      <3>3. DOMAIN inner = 1 .. n
        BY <1>4, <1>5
      <3>4. /\ Count(inner, "ul", k) >= Count(inner, "/ul", k)
            /\ inner[k].tag = "li" => Count(inner, "ul", k) > Count(inner, "/ul", k)
        BY <1>2, <1>5, <3>1, <3>2, <3>3 DEF HtmlInv, ListsNested
      <3> QED BY <1>6, <1>8, <3>1, <3>4
    <2> QED BY <2>1, <2>2
  <1>20. HandedOut'
    BY DEF HandedOut
  <1> QED BY <1>17, <1>18, <1>19, <1>20 DEF HtmlInv

\* The empty page.
LEMMA HtmlInitially == HtmlInit => HtmlInv
  <1> SUFFICES ASSUME HtmlInit PROVE HtmlInv
    OBVIOUS
  <1>1. PICK empty : empty = <<>>
    OBVIOUS
  <1>2. empty \in Seq({}) /\ Len(empty) = 0
    BY <1>1
  <1>3. /\ DOMAIN page = {"inner", "paragraphs", "lists", "aborted"}
        /\ page.inner = empty /\ page.paragraphs = 0 /\ page.lists = 0 /\ html = <<>>
    BY <1>1 DEF HtmlInit, EmptyPage
  <1>4. \A name : Count(page.inner, name, 0) = 0
    BY CountNothing
  <1>5. PageTypes
    BY <1>2, <1>3, HtmlAssumption DEF PageTypes
  <1>6. Levels
    <2>1. Level(0, 0, 0)
      <3>1. 0 = 0 + 0 + 0 * (UnsignedMax + 1)
        BY HtmlAssumption
      <3> QED BY <3>1 DEF Level
    <2> QED BY <1>2, <1>3, <1>4, <2>1 DEF Levels
  <1>7. ListsNested
    <2>1. DOMAIN page.inner = {}
      BY <1>1, <1>3
    <2> QED BY <2>1 DEF ListsNested
  <1>8. HandedOut
    BY <1>3 DEF HandedOut
  <1> QED BY <1>5, <1>6, <1>7, <1>8 DEF HtmlInv

\* Each call that adds a tag, and the two that abort.
LEMMA HtmlAdds ==
  HtmlInv /\ (BeginParagraph \/ EndParagraph \/ BeginList \/ EndList \/ PushListItem \/ PushHeader \/ PushText) => HtmlInv'
  <1> SUFFICES ASSUME HtmlInv,
                      BeginParagraph \/ EndParagraph \/ BeginList \/ EndList \/ PushListItem \/ PushHeader \/ PushText
               PROVE  HtmlInv'
    OBVIOUS
  <1>1. DOMAIN page = {"inner", "paragraphs", "lists", "aborted"} /\ html' = <<>>
    BY DEF HtmlInv, PageTypes, BeginParagraph, EndParagraph, BeginList, EndList, PushListItem, PushHeader, PushText, Alive
  <1>2. ASSUME page' = [page EXCEPT !.aborted = TRUE] PROVE HtmlInv'
    <2>1. HandedOut'
      BY <1>1 DEF HandedOut
    <2> QED BY <1>1, <1>2, <2>1, PageKept
  <1>3. CASE BeginParagraph
    <2>1. /\ DOMAIN page' = DOMAIN page /\ page'.inner = Append(page.inner, Tag("p", NoText))
          /\ page'.paragraphs = Increment(page.paragraphs) /\ page'.lists = page.lists
      BY <1>1, <1>3 DEF BeginParagraph, begin_paragraph, Added
    <2>2. "p" \in InnerTags
      BY DEF InnerTags
    <2> QED BY <1>1, <2>1, <2>2, PageGrown
  <1>4. CASE EndParagraph
    <2>1. /\ DOMAIN page' = DOMAIN page /\ page'.inner = Append(page.inner, Tag("/p", NoText))
          /\ page'.paragraphs = Decrement(page.paragraphs) /\ page'.lists = page.lists
      BY <1>1, <1>4 DEF EndParagraph, end_paragraph, Added
    <2>2. "/p" \in InnerTags
      BY DEF InnerTags
    <2> QED BY <1>1, <2>1, <2>2, PageGrown
  <1>5. CASE BeginList
    <2>1. /\ DOMAIN page' = DOMAIN page /\ page'.inner = Append(page.inner, Tag("ul", NoText))
          /\ page'.paragraphs = page.paragraphs /\ page'.lists = Increment(page.lists)
      BY <1>1, <1>5 DEF BeginList, begin_list, Added
    <2>2. "ul" \in InnerTags
      BY DEF InnerTags
    <2> QED BY <1>1, <2>1, <2>2, PageGrown
  <1>6. CASE EndList /\ page.lists > 0
    <2>1. /\ DOMAIN page' = DOMAIN page /\ page'.inner = Append(page.inner, Tag("/ul", NoText))
          /\ page'.paragraphs = page.paragraphs /\ page'.lists = Decrement(page.lists)
      BY <1>1, <1>6 DEF EndList, end_list, Added, Asserted
    <2>2. "/ul" \in InnerTags
      BY DEF InnerTags
    <2> QED BY <1>1, <1>6, <2>1, <2>2, PageGrown
  <1>7. CASE EndList /\ ~(page.lists > 0)
    BY <1>2, <1>7 DEF EndList, end_list, Asserted
  <1>8. CASE PushListItem /\ page.lists > 0
    <2>1. /\ DOMAIN page' = DOMAIN page /\ page'.inner = Append(page.inner, Tag("li", "item"))
          /\ page'.paragraphs = page.paragraphs /\ page'.lists = page.lists
      BY <1>1, <1>8 DEF PushListItem, push_list_item, Added, Asserted
    <2>2. "li" \in InnerTags
      BY DEF InnerTags
    <2> QED BY <1>1, <1>8, <2>1, <2>2, PageGrown
  <1>9. CASE PushListItem /\ ~(page.lists > 0)
    BY <1>2, <1>9 DEF PushListItem, push_list_item, Asserted
  <1>10. CASE PushHeader
    <2>1. PICK level \in {0, 1} : page' = push_header(page, "title", level)
      BY <1>10 DEF PushHeader
    <2>2. CASE level \in 1 .. 6
      <3>1. PICK text : text = <<level, "title">>
        OBVIOUS
      <3>2. /\ DOMAIN page' = DOMAIN page /\ page'.inner = Append(page.inner, Tag("h", text))
            /\ page'.paragraphs = page.paragraphs /\ page'.lists = page.lists
        BY <1>1, <2>1, <2>2, <3>1 DEF push_header, Asserted
      <3>3. "h" \in InnerTags
        BY DEF InnerTags
      <3> QED BY <1>1, <3>2, <3>3, PageGrown
    <2>3. CASE level \notin 1 .. 6
      BY <1>2, <2>1, <2>3 DEF push_header, Asserted
    <2> QED BY <2>2, <2>3
  <1>11. CASE PushText
    <2>1. /\ DOMAIN page' = DOMAIN page /\ page'.inner = Append(page.inner, Tag("text", "text"))
          /\ page'.paragraphs = page.paragraphs /\ page'.lists = page.lists
      BY <1>1, <1>11 DEF PushText, push_text, Added
    <2>2. "text" \in InnerTags
      BY DEF InnerTags
    <2> QED BY <1>1, <2>1, <2>2, PageGrown
  <1> QED BY <1>3, <1>4, <1>5, <1>6, <1>7, <1>8, <1>9, <1>10, <1>11

\* The page is handed out only at level 0.
LEMMA HtmlGenerates == HtmlInv /\ GeneratePage => HtmlInv'
  <1> SUFFICES ASSUME HtmlInv, GeneratePage PROVE HtmlInv'
    OBVIOUS
  <1>1. /\ DOMAIN page' = DOMAIN page /\ page'.inner = page.inner
        /\ page'.paragraphs = page.paragraphs /\ page'.lists = page.lists
    BY DEF GeneratePage, HtmlInv, PageTypes
  <1>2. /\ html = <<>>
        /\ html' = IF CanGenerate(page) THEN GenerateHtml(page) ELSE html
    BY DEF GeneratePage
  <1>3. HandedOut'
    BY <1>1, <1>2 DEF HandedOut, GenerateHtml, CanGenerate
  <1> QED BY <1>1, <1>3, PageKept

\* The inductive invariant holds.
LEMMA HtmlAlways == HtmlSpec => []HtmlInv
  <1>1. HtmlInv /\ UNCHANGED htmlVars => HtmlInv'
    BY PageKept DEF htmlVars, HtmlInv, HandedOut
  <1> QED BY <1>1, HtmlInitially, HtmlAdds, HtmlGenerates, PTL DEF HtmlSpec, HtmlNext, HtmlOver

\* What a page counts of a name: what is inside it, and the four tags around that.
PageCount(inner, name) ==
  (IF "html" = name THEN 1 ELSE 0) + (IF "body" = name THEN 1 ELSE 0) + Count(inner, name, Len(inner))
    + (IF "/body" = name THEN 1 ELSE 0) + (IF "/html" = name THEN 1 ELSE 0)

\* What is in the page that is handed out, counted.
LEMMA PageCounted ==
  ASSUME NEW S, NEW inner \in Seq(S), NEW whole, NEW name,
         whole = <<Tag("html", NoText), Tag("body", NoText)>> \o inner \o <<Tag("/body", NoText), Tag("/html", NoText)>>
  PROVE  /\ Len(whole) = Len(inner) + 4 /\ Len(inner) \in Nat
         /\ Count(whole, name, Len(inner) + 4) = PageCount(inner, name)
  <1>1. PICK Values : /\ inner \in Seq(Values)
                   /\ Tag("html", NoText) \in Values /\ Tag("body", NoText) \in Values
                   /\ Tag("/body", NoText) \in Values /\ Tag("/html", NoText) \in Values
    <2>1. inner \in Seq(S \cup {Tag("html", NoText), Tag("body", NoText), Tag("/body", NoText), Tag("/html", NoText)})
      OBVIOUS
    <2> QED BY <2>1
  <1>2. /\ Len(whole) = Len(inner) + 4 /\ Len(inner) \in Nat
        /\ whole[1] = Tag("html", NoText) /\ whole[2] = Tag("body", NoText)
        /\ \A k \in 1 .. Len(inner) : whole[k + 2] = inner[k]
        /\ whole[Len(inner) + 3] = Tag("/body", NoText) /\ whole[Len(inner) + 4] = Tag("/html", NoText)
    BY <1>1, InPage, LenProperties
  <1>3. /\ whole[1].tag = "html" /\ whole[2].tag = "body"
        /\ whole[Len(inner) + 3].tag = "/body" /\ whole[Len(inner) + 4].tag = "/html"
    BY <1>2 DEF Tag
  <1>4. Count(whole, name, 2) = (IF "html" = name THEN 1 ELSE 0) + (IF "body" = name THEN 1 ELSE 0)
    <2>0. ASSUME NEW n \in Nat
          PROVE  Count(whole, name, n + 1) = Count(whole, name, n) + (IF whole[n + 1].tag = name THEN 1 ELSE 0)
      BY CountOne
    <2>1. Count(whole, name, 1) = Count(whole, name, 0) + (IF whole[1].tag = name THEN 1 ELSE 0)
      <3>1. 0 \in Nat /\ 0 + 1 = 1
        OBVIOUS
      <3> QED BY <2>0, <3>1
    <2>2. Count(whole, name, 2) = Count(whole, name, 1) + (IF whole[2].tag = name THEN 1 ELSE 0)
      <3>1. 1 \in Nat /\ 1 + 1 = 2
        OBVIOUS
      <3> QED BY <2>0, <3>1
    <2>3. Count(whole, name, 0) = 0
      BY CountNothing
    <2> QED BY <1>3, <2>1, <2>2, <2>3
  <1>5. Count(whole, name, Len(inner) + 2) = Count(whole, name, 2) + Count(inner, name, Len(inner))
    <2>1. \A n \in 0 .. Len(inner) : Count(whole, name, n + 2) = Count(whole, name, 2) + Count(inner, name, n)
      <3>1. PICK Other : inner \in Seq(Other)
        BY <1>1
      <3>2. \A k \in 1 .. Len(inner) : whole[k + 2] = inner[k]
        BY <1>2
      <3> QED BY <3>1, <3>2, CountInPage
    <2>2. Len(inner) \in 0 .. Len(inner)
      BY <1>2
    <2> QED BY <2>1, <2>2
  <1>6. Count(whole, name, Len(inner) + 3) = Count(whole, name, Len(inner) + 2) + (IF "/body" = name THEN 1 ELSE 0)
    <2>1. PICK n \in Nat : n = Len(inner) + 2
      BY <1>2
    <2>2. n + 1 = Len(inner) + 3
      BY <1>2, <2>1
    <2>3. Count(whole, name, n + 1) = Count(whole, name, n) + (IF whole[n + 1].tag = name THEN 1 ELSE 0)
      BY CountOne
    <2> QED BY <1>3, <2>1, <2>2, <2>3
  <1>7. Count(whole, name, Len(inner) + 4) = Count(whole, name, Len(inner) + 3) + (IF "/html" = name THEN 1 ELSE 0)
    <2>1. PICK n \in Nat : n = Len(inner) + 3
      BY <1>2
    <2>2. n + 1 = Len(inner) + 4
      BY <1>2, <2>1
    <2>3. Count(whole, name, n + 1) = Count(whole, name, n) + (IF whole[n + 1].tag = name THEN 1 ELSE 0)
      BY CountOne
    <2> QED BY <1>3, <2>1, <2>2, <2>3
  <1>8. Count(inner, name, Len(inner)) \in Nat
    BY <1>2, CountFinite
  <1> QED BY <1>2, <1>4, <1>5, <1>6, <1>7, <1>8 DEF PageCount

\* For a level of any width and any sequence of calls: what GenerateHtml hands out closes
\* what it opens, and its lists are nested, as far as the levels can count
\* (htmlWrapper.cpp:12-16, 51-60).
THEOREM PageNestedCorrect == HtmlSpec => []PageNested
  <1>1. HtmlInv => PageNested
    <2> SUFFICES ASSUME HtmlInv, html # <<>> PROVE TagsClosed
      BY DEF PageNested, HtmlInv, TagsClosed
    <2>1. PICK S : page.inner \in Seq(S)
      BY DEF HtmlInv, PageTypes
    <2>2. PICK inner : inner = page.inner
      OBVIOUS
    <2>3. /\ Len(html) = Len(inner) + 4 /\ Len(inner) \in Nat
          /\ \A name : Count(html, name, Len(html)) = PageCount(inner, name)
      <3>1. html = <<Tag("html", NoText), Tag("body", NoText)>> \o inner \o <<Tag("/body", NoText), Tag("/html", NoText)>>
        BY <2>2 DEF HtmlInv, HandedOut
      <3>2. PICK Values : inner \in Seq(Values)
        BY <2>1, <2>2
      <3>3. ASSUME NEW name
            PROVE  Len(html) = Len(inner) + 4 /\ Len(inner) \in Nat /\ Count(html, name, Len(inner) + 4) = PageCount(inner, name)
        BY <3>1, <3>2, PageCounted
      <3> QED BY <3>3
    <2>4. \A name : Count(inner, name, Len(inner)) \in Nat
      BY <2>3, CountFinite
    <2>5. ASSUME NEW name \in {"html", "/html", "body", "/body"} PROVE Count(html, name, Len(html)) = 1
      <3>1. Count(inner, name, Len(inner)) = 0
        <4>1. \A k \in 1 .. Len(inner) : inner[k].tag # name
          BY <2>2 DEF HtmlInv, PageTypes, InnerTags
        <4> QED BY <2>3, <4>1, CountNone
      <3> QED BY <2>3, <2>5, <3>1 DEF PageCount
    <2>6. ASSUME NEW name \in {"p", "/p", "ul", "/ul"}
          PROVE  Count(html, name, Len(html)) = Count(inner, name, Len(inner)) /\ Count(html, name, Len(html)) \in Nat
      BY <2>3, <2>4, <2>6 DEF PageCount
    <2>7. /\ Level(0, Count(inner, "p", Len(inner)), Count(inner, "/p", Len(inner)))
          /\ Level(0, Count(inner, "ul", Len(inner)), Count(inner, "/ul", Len(inner)))
      BY <2>2 DEF HtmlInv, HandedOut, Levels
    <2>8. /\ Count(html, "p", Len(html)) % (UnsignedMax + 1) = Count(html, "/p", Len(html)) % (UnsignedMax + 1)
          /\ Count(html, "ul", Len(html)) % (UnsignedMax + 1) = Count(html, "/ul", Len(html)) % (UnsignedMax + 1)
      <3>1. /\ Count(inner, "p", Len(inner)) % (UnsignedMax + 1) = Count(inner, "/p", Len(inner)) % (UnsignedMax + 1)
            /\ Count(inner, "ul", Len(inner)) % (UnsignedMax + 1) = Count(inner, "/ul", Len(inner)) % (UnsignedMax + 1)
        BY <2>4, <2>7, LevelClosed
      <3> QED BY <2>6, <3>1
    <2>9. /\ Count(html, "html", Len(html)) = Count(html, "/html", Len(html))
          /\ Count(html, "body", Len(html)) = Count(html, "/body", Len(html))
      BY <2>5
    <2> QED BY <2>8, <2>9 DEF TagsClosed
  <1> QED BY <1>1, HtmlAlways, PTL

-----------------------------------------------------------------------------
(* The blocks of a file.                                                   *)

\* What a provider that has a file has handed out: the file up to the stream's position
\* while the stream is not at its end, then the file and less than a block more.
Handed(n) ==
  /\ n \in Nat /\ stream_position \in 0 .. n
  /\ buffer \in Seq(Nat) /\ \A k \in 1 .. Len(buffer) : buffer[k] <= stream_position
  /\ blocks \in Seq(Nat)
  /\ ~isEnd => Len(blocks) = stream_position /\ answer # "null"
  /\ isEnd => stream_position = n /\ Len(blocks) >= n + 1 /\ Len(blocks) <= n + MaxNeeded
  /\ \A k \in 1 .. stream_position : blocks[k] = k
  /\ \A k \in 1 .. Len(blocks) : blocks[k] <= n

\* The inductive invariant of a provider of any file.
FileInv ==
  /\ length \in [FilePaths -> {NoFile} \cup 0 .. MaxLength]
  /\ opened \in FilePaths \cup {"none"}
  /\ opened = "none" => stream_position = 0 /\ buffer = <<>> /\ isEnd = FALSE /\ blocks = <<>> /\ answer = "none"
  /\ opened # "none" /\ isReady => Handed(length[opened])

\* A path is chosen.
LEMMA ChosenIsPath == Chosen \in FilePaths /\ Chosen # "none"
  BY Zenon DEF Chosen, FilePaths

\* The stream is opened, or is not ready.
LEMMA FileOpened == FileInv /\ GetFileDataProvider => FileInv'
  <1> SUFFICES ASSUME FileInv, GetFileDataProvider PROVE FileInv'
    OBVIOUS
  <1>1. /\ opened = "none" /\ opened' \in FilePaths /\ (isReady' <=> length[opened'] # NoFile)
        /\ UNCHANGED <<length, stream_position, buffer, isEnd, blocks, answer>>
    BY ChosenIsPath DEF GetFileDataProvider
  <1>2. stream_position = 0 /\ buffer = <<>> /\ isEnd = FALSE /\ blocks = <<>> /\ answer = "none"
    BY <1>1 DEF FileInv
  <1>3. opened' # "none"
    BY ChosenIsPath DEF GetFileDataProvider
  <1>4. ASSUME isReady' PROVE Handed(length[opened])'
    <2>1. length[opened'] \in Nat
      BY <1>1, <1>4, FileDataAssumption DEF FileInv, NoFile
    <2>2. PICK n \in Nat : n = length[opened']
      BY <2>1
    <2>3. Len(blocks') = 0 /\ buffer' \in Seq(Nat) /\ Len(buffer') = 0 /\ blocks' \in Seq(Nat)
      BY <1>1, <1>2, EmptySeq
    <2>4. n = (length[opened])'
      BY <1>1, <2>2
    <2> QED BY <1>1, <1>2, <2>2, <2>3, <2>4 DEF Handed
  <1> QED BY <1>1, <1>3, <1>4 DEF FileInv

\* A block, and what is left after it.
LEMMA FileBlock == FileInv /\ GetNextDataBlock => FileInv'
  <1> SUFFICES ASSUME FileInv, GetNextDataBlock PROVE FileInv'
    OBVIOUS
  <1>1. opened # "none" /\ isReady /\ ~isEnd /\ answer' = "block" /\ UNCHANGED <<length, opened, isReady>>
    BY DEF GetNextDataBlock
  <1>2. PICK needed \in 1 .. MaxNeeded :
          /\ buffer' = BlockFilled(needed)
          /\ blocks' = blocks \o BlockFilled(needed)
          /\ stream_position' = stream_position + AtMost(needed)
          /\ isEnd' = Eof(needed)
    BY DEF GetNextDataBlock
  <1>3. PICK n, left, got, block :
          n = length[opened] /\ left = n - stream_position /\ got = AtMost(needed) /\ block = BlockFilled(needed)
    OBVIOUS
  <1>4. Handed(n) /\ needed \in Nat /\ needed >= 1 /\ needed <= MaxNeeded /\ MaxNeeded \in Nat
    BY <1>1, <1>3, FileDataAssumption DEF FileInv
  <1>5. /\ n \in Nat /\ stream_position \in Nat /\ stream_position <= n /\ left \in Nat
        /\ got = (IF needed <= left THEN needed ELSE left) /\ got \in Nat
        /\ stream_position' = stream_position + got /\ stream_position' \in 0 .. n
        /\ isEnd' <=> needed > left
    <2>1. isEnd' <=> needed > Left
      BY <1>2 DEF Eof
    <2>2. Left = left
      BY <1>3 DEF Left
    <2>3. got = (IF needed <= left THEN needed ELSE left)
      BY <1>3, <2>2 DEF AtMost
    <2>4. n \in Nat /\ stream_position \in Nat /\ stream_position <= n
      BY <1>4 DEF Handed
    <2>5. stream_position' = stream_position + got
      BY <1>2, <1>3
    <2>6. left = n - stream_position
      BY <1>3
    <2> QED BY <1>4, <2>1, <2>2, <2>3, <2>4, <2>5, <2>6
  <1>6. block = [k \in 1 .. needed |-> IF k <= got THEN stream_position + k
                                       ELSE IF k <= Len(buffer) THEN buffer[k] ELSE 0]
    BY <1>3 DEF BlockFilled
  <1>7. ASSUME NEW k \in 1 .. needed
        PROVE  block[k] \in Nat /\ block[k] <= stream_position' /\ (k <= got => block[k] = stream_position + k)
    <2>1. k \in Nat /\ k >= 1 /\ Len(buffer) \in Nat
      BY LenProperties, <1>4 DEF Handed
    <2>2. CASE k <= got
      BY <1>5, <1>6, <2>1, <2>2
    <2>3. CASE ~(k <= got) /\ k <= Len(buffer)
      <3>1. k \in 1 .. Len(buffer) /\ block[k] = buffer[k]
        BY <1>6, <2>1, <2>3
      <3>2. buffer[k] \in Nat /\ buffer[k] <= stream_position
        BY <1>4, <3>1 DEF Handed
      <3> QED BY <1>5, <2>3, <3>1, <3>2
    <2>4. CASE ~(k <= got) /\ ~(k <= Len(buffer))
      BY <1>5, <1>6, <2>4
    <2> QED BY <2>2, <2>3, <2>4
  <1>8. block \in Seq(Nat) /\ Len(block) = needed
    BY <1>4, <1>6, <1>7
  <1>9. /\ blocks' \in Seq(Nat) /\ Len(blocks') = stream_position + needed /\ Len(blocks) = stream_position
        /\ \A k \in 1 .. stream_position + needed :
             blocks'[k] = IF k <= stream_position THEN blocks[k] ELSE block[k - stream_position]
    <2>1. blocks \in Seq(Nat) /\ Len(blocks) = stream_position
      BY <1>1, <1>4 DEF Handed
    <2>2. blocks' = blocks \o block
      BY <1>2, <1>3
    <2> QED BY <1>8, <2>1, <2>2, ConcatProperties
  <1>10. \A k \in 1 .. stream_position' : blocks'[k] = k
    <2> SUFFICES ASSUME NEW k \in 1 .. stream_position' PROVE blocks'[k] = k
      OBVIOUS
    <2>1. k \in 1 .. stream_position + needed /\ k \in Nat
      BY <1>4, <1>5
    <2>2. CASE k <= stream_position
      BY <1>4, <1>5, <1>9, <2>1, <2>2 DEF Handed
    <2>3. CASE ~(k <= stream_position)
      <3>1. k - stream_position \in 1 .. needed /\ k - stream_position <= got
        BY <1>4, <1>5, <2>1, <2>3
      <3>2. block[k - stream_position] = stream_position + (k - stream_position)
        BY <1>7, <3>1
      <3> QED BY <1>5, <1>9, <2>1, <2>3, <3>2
    <2> QED BY <2>2, <2>3
  <1>11. \A k \in 1 .. Len(blocks') : blocks'[k] <= n
    <2> SUFFICES ASSUME NEW k \in 1 .. stream_position + needed PROVE blocks'[k] <= n
      BY <1>9
    <2>1. CASE k <= stream_position
      <3>1. k \in 1 .. Len(blocks)
        BY <1>5, <1>9, <2>1
      <3> QED BY <1>4, <1>9, <2>1, <3>1 DEF Handed
    <2>2. CASE ~(k <= stream_position)
      <3>1. k - stream_position \in 1 .. needed
        BY <1>4, <1>5, <2>2
      <3>2. block[k - stream_position] \in Nat /\ block[k - stream_position] <= stream_position'
        BY <1>7, <3>1
      <3>3. blocks'[k] = block[k - stream_position]
        BY <1>9, <2>2
      <3>4. stream_position' <= n
        BY <1>5
      <3>5. PICK d \in Nat : d = blocks'[k] /\ d <= stream_position'
        BY <3>2, <3>3
      <3>6. stream_position' \in Nat /\ n \in Nat
        BY <1>4, <1>5
      <3>7. d <= n
        BY <3>4, <3>5, <3>6
      <3> QED BY <3>5, <3>7
    <2> QED BY <2>1, <2>2
  <1>12. Handed(n)'
    <2>1. PICK m : m = n
      OBVIOUS
    <2>2. \A k \in 1 .. Len(buffer') : buffer'[k] <= stream_position'
      BY <1>2, <1>3, <1>7, <1>8
    <2>3. buffer' \in Seq(Nat)
      BY <1>2, <1>3, <1>8
    <2>4. /\ ~isEnd' => Len(blocks') = stream_position' /\ answer' # "null"
          /\ isEnd' => stream_position' = n /\ Len(blocks') >= n + 1 /\ Len(blocks') <= n + MaxNeeded
      <3>1. left = n - stream_position
        BY <1>3
      <3>2. CASE needed > left
        <4>1. isEnd' /\ got = left
          BY <1>4, <1>5, <3>2
        <4>2. stream_position' = n /\ stream_position + needed >= n + 1 /\ stream_position + needed <= n + MaxNeeded
          BY <1>4, <1>5, <3>1, <3>2, <4>1
        <4> QED BY <1>9, <4>1, <4>2
      <3>3. CASE ~(needed > left)
        <4>1. ~isEnd' /\ got = needed
          BY <1>4, <1>5, <3>3
        <4> QED BY <1>1, <1>5, <1>9, <4>1
      <3> QED BY <3>2, <3>3
    <2> QED BY <1>5, <1>9, <1>10, <1>11, <2>2, <2>3, <2>4 DEF Handed
  <1> QED BY <1>1, <1>3, <1>12 DEF FileInv

\* The inductive invariant holds.
LEMMA FileAlways == FileSpec => []FileInv
  <1>1. FileInit => FileInv
    BY DEF FileInit, FileInv
  <1>2. FileInv /\ GetNothing => FileInv'
    <2> SUFFICES ASSUME FileInv, GetNothing PROVE FileInv'
      OBVIOUS
    <2>1. opened # "none" /\ (~isReady \/ isEnd) /\ UNCHANGED <<length, opened, stream_position, buffer, isEnd, isReady, blocks>>
      BY DEF GetNothing
    <2> QED BY <2>1 DEF FileInv, Handed
  <1>3. FileInv /\ UNCHANGED fileVars => FileInv'
    BY DEF FileInv, Handed, fileVars
  <1> QED BY <1>1, <1>2, <1>3, FileOpened, FileBlock, PTL DEF FileSpec, FileNext

\* A sequence another begins with.
LEMMA PrefixOf ==
  ASSUME NEW S, NEW s \in Seq(S), NEW t \in Seq(S), Len(s) <= Len(t), \A k \in 1 .. Len(s) : s[k] = t[k]
  PROVE  IsPrefix(s, t)
  <1>1. PICK front : front = SubSeq(t, 1, Len(s))
    OBVIOUS
  <1>2. front \in Seq(S) /\ Len(front) = Len(s) /\ \A k \in 1 .. Len(s) : front[k] = t[k]
    BY <1>1, SubSeqProperties, LenProperties
  <1>3. front = s
    BY <1>2, SeqEqual
  <1> QED BY <1>1, <1>3 DEF IsPrefix

\* For files and blocks of any size: the blocks handed out until the null begin with the
\* file, and at most one block of other bytes follows it (dataProvider.cpp:20-25).
THEOREM BlocksAreFileCorrect == FileSpec => []BlocksAreFile
  <1>1. FileInv => BlocksAreFile
    <2> SUFFICES ASSUME FileInv, opened # "none", isReady PROVE BlocksAreFile
      BY DEF BlocksAreFile
    <2>1. PICK n, file, extra : n = length[opened] /\ file = [k \in 1 .. n |-> k] /\ extra = SubSeq(blocks, Len(file) + 1, Len(blocks))
      OBVIOUS
    <2>2. Handed(n) /\ n \in Nat
      BY <2>1 DEF FileInv, Handed
    <2>3. file \in Seq(Nat) /\ Len(file) = n /\ blocks \in Seq(Nat) /\ Len(blocks) \in Nat
      BY <2>1, <2>2, LenProperties DEF Handed
    <2>4. isEnd => IsPrefix(file, blocks)
      <3>1. isEnd => Len(file) <= Len(blocks) /\ \A k \in 1 .. Len(file) : blocks[k] = k /\ file[k] = k
        BY <2>1, <2>2, <2>3 DEF Handed
      <3> QED BY <2>3, <3>1, PrefixOf
    <2>5. ~isEnd => IsPrefix(blocks, file)
      <3>1. ~isEnd => Len(blocks) <= Len(file) /\ \A k \in 1 .. Len(blocks) : blocks[k] = k /\ file[k] = k
        BY <2>1, <2>2, <2>3 DEF Handed
      <3> QED BY <2>3, <3>1, PrefixOf
    <2>6. ASSUME answer = "null"
          PROVE  /\ IsPrefix(file, blocks) /\ Len(extra) <= MaxNeeded
                 /\ \A k \in DOMAIN extra : extra[k] \in 0 .. Len(file)
      <3>1. isEnd /\ Len(blocks) >= n + 1 /\ Len(blocks) <= n + MaxNeeded
        BY <2>2, <2>6 DEF Handed
      <3>2. extra \in Seq(Nat) /\ Len(extra) = Len(blocks) - n /\ \A k \in 1 .. Len(blocks) - n : extra[k] = blocks[n + k]
        <4>1. /\ extra \in Seq(Nat) /\ Len(extra) = Len(blocks) - (n + 1) + 1
              /\ \A k \in 1 .. Len(blocks) - (n + 1) + 1 : extra[k] = blocks[n + 1 + k - 1]
          <5>1. n + 1 \in Int /\ n + 1 <= Len(blocks) /\ extra = SubSeq(blocks, n + 1, Len(blocks))
            <6>1. n + 1 \in Int /\ n + 1 <= Len(blocks)
              BY <2>2, <2>3, <3>1
            <6>2. extra = SubSeq(blocks, n + 1, Len(blocks))
              BY <2>1, <2>3
            <6> QED BY <6>1, <6>2
          <5>2. \A k \in n + 1 .. Len(blocks) : blocks[k] \in Nat
            BY <2>2, <2>3
          <5>3. PICK m \in Int, l \in Int : m = n + 1 /\ l = Len(blocks)
            BY <2>3, <5>1
          <5>4. blocks \in Seq(Nat) /\ extra = SubSeq(blocks, m, l) /\ m <= l /\ \A k \in m .. l : blocks[k] \in Nat
            BY <2>3, <5>1, <5>2, <5>3
          <5>5. extra \in Seq(Nat)
            BY <5>4, SubSeqProperties
          <5>6. Len(extra) = l - m + 1
            BY <5>4, SubSeqProperties
          <5>7. \A k \in 1 .. l - m + 1 : extra[k] = blocks[m + k - 1]
            BY <5>4, SubSeqProperties
          <5> QED BY <5>3, <5>5, <5>6, <5>7
        <4>2. Len(blocks) - (n + 1) + 1 = Len(blocks) - n /\ \A k \in 1 .. Len(blocks) - n : n + 1 + k - 1 = n + k
          BY <2>2, <2>3
        <4> QED BY <4>1, <4>2
      <3>3. \A k \in 1 .. Len(blocks) - n : n + k \in 1 .. Len(blocks)
        BY <2>2, <2>3
      <3>4. \A k \in 1 .. Len(blocks) : blocks[k] \in Nat /\ blocks[k] <= n
        BY <2>2, <2>3 DEF Handed
      <3>5. DOMAIN extra = 1 .. Len(blocks) - n
        BY <3>2
      <3>6. Len(extra) <= MaxNeeded
        BY <2>2, <2>3, <3>1, <3>2, FileDataAssumption
      <3>7. \A k \in DOMAIN extra : extra[k] \in 0 .. Len(file)
        <4> SUFFICES ASSUME NEW k \in 1 .. Len(blocks) - n PROVE extra[k] \in 0 .. Len(file)
          BY <3>5
        <4>1. extra[k] = blocks[n + k] /\ n + k \in 1 .. Len(blocks)
          BY <3>2, <3>3
        <4>2. extra[k] \in Nat /\ extra[k] <= n
          BY <3>4, <4>1
        <4> QED BY <2>2, <2>3, <4>2
      <3> QED BY <2>4, <3>1, <3>6, <3>7
    <2> QED BY <2>1, <2>4, <2>5, <2>6 DEF BlocksAreFile
  <1> QED BY <1>1, FileAlways, PTL
=============================================================================
