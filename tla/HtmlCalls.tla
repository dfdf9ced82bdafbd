----------------------------- MODULE HtmlCalls -----------------------------
(***************************************************************************)
(* Any sequence of calls of an HtmlWrapper, and the html it hands out.     *)
(***************************************************************************)
EXTENDS HtmlWrapper, FiniteSets

CONSTANT MaxCalls  \* a bound on the calls

VARIABLES page, html  \* the wrapper; what GenerateHtml returned last, or none

htmlVars == <<page, html>>

HtmlInit == page = EmptyPage /\ html = <<>>

Alive == ~page.aborted /\ html = <<>> /\ Len(page.inner) < MaxCalls

BeginParagraph == Alive /\ page' = begin_paragraph(page) /\ UNCHANGED html

EndParagraph == Alive /\ page' = end_paragraph(page) /\ UNCHANGED html

BeginList == Alive /\ page' = begin_list(page) /\ UNCHANGED html

EndList == Alive /\ page' = end_list(page) /\ UNCHANGED html

PushListItem == Alive /\ page' = push_list_item(page, "item") /\ UNCHANGED html

PushHeader == Alive /\ \E level \in {0, 1} : page' = push_header(page, "title", level) /\ UNCHANGED html

PushText == Alive /\ page' = push_text(page, "text") /\ UNCHANGED html

GeneratePage ==
  /\ ~page.aborted /\ html = <<>>
  /\ page' = [page EXCEPT !.aborted = ~CanGenerate(page)]
  /\ html' = IF CanGenerate(page) THEN GenerateHtml(page) ELSE html

HtmlOver == (page.aborted \/ html # <<>>) /\ UNCHANGED htmlVars

HtmlNext ==
  \/ BeginParagraph \/ EndParagraph \/ BeginList \/ EndList
  \/ PushListItem \/ PushHeader \/ PushText \/ GeneratePage \/ HtmlOver

HtmlSpec == HtmlInit /\ [][HtmlNext]_htmlVars

-----------------------------------------------------------------------------

Count(tags, name, n) == Cardinality({k \in 1 .. n : tags[k].tag = name})

\* What is handed out closes what it opens, body and html included; paragraphs only
\* in number, for an unmatched "</p>" is not asserted against, and only while fewer
\* were opened than the level can count (htmlWrapper.cpp:12-16, 51-60).
TagsClosed ==
  html # <<>> =>
    \A tags \in {<<"html", "/html">>, <<"body", "/body">>, <<"p", "/p">>, <<"ul", "/ul">>} :
      Count(html, tags[1], Len(html)) % (UnsignedMax + 1)
        = Count(html, tags[2], Len(html)) % (UnsignedMax + 1)

\* No list is ended before it is begun and every item is inside a list, at every
\* point of every page, as long as the level has not gone round.
ListsNested ==
  Count(page.inner, "ul", Len(page.inner)) <= UnsignedMax =>
    \A n \in DOMAIN page.inner :
      /\ Count(page.inner, "ul", n) >= Count(page.inner, "/ul", n)
      /\ page.inner[n].tag = "li" => Count(page.inner, "ul", n) > Count(page.inner, "/ul", n)

\* A page a browser can be given: its tags are closed and its lists nested.
PageNested == TagsClosed /\ ListsNested
=============================================================================
