---------------------------- MODULE HtmlWrapper ----------------------------
(***************************************************************************)
(* HtmlWrapper (utils/htmlWrapper.cpp): the html of a page as a sequence   *)
(* of tags and texts, and the levels its assertions test.  A page whose    *)
(* assertion fails has aborted: so has the process.                        *)
(***************************************************************************)
EXTENDS Naturals, Sequences

CONSTANT UnsignedMax  \* the largest value of a level

ASSUME HtmlAssumption == UnsignedMax \in Nat \ {0}

Tag(name, text) == [tag |-> name, text |-> text]

\* A tag that has none.
NoText == ""

EmptyPage == [inner |-> <<>>, paragraphs |-> 0, lists |-> 0, aborted |-> FALSE]

Increment(level) == IF level = UnsignedMax THEN 0 ELSE level + 1

Decrement(level) == IF level = 0 THEN UnsignedMax ELSE level - 1

Added(page, name, text) == [page EXCEPT !.inner = Append(@, Tag(name, text))]

\* assert(condition), then the rest of the call.
Asserted(condition, page, result) == IF condition THEN result ELSE [page EXCEPT !.aborted = TRUE]

begin_paragraph(page) == [Added(page, "p", NoText) EXCEPT !.paragraphs = Increment(@)]

end_paragraph(page) == [Added(page, "/p", NoText) EXCEPT !.paragraphs = Decrement(@)]

begin_list(page) == [Added(page, "ul", NoText) EXCEPT !.lists = Increment(@)]

end_list(page) == Asserted(page.lists > 0, page, [Added(page, "/ul", NoText) EXCEPT !.lists = Decrement(@)])

\* A defect: an item needs no list.
PushAnyItem(page, text) == Added(page, "li", text)

push_list_item(page, text) == Asserted(page.lists > 0, page, Added(page, "li", text))

push_header(page, text, level) ==
  Asserted(level \in 1 .. 6, page, [page EXCEPT !.inner = Append(@, Tag("h", <<level, text>>))])

push_text(page, text) == Added(page, "text", text)

\* A defect: open lists are not noticed.
CanGenerateParagraphs(page) == page.paragraphs = 0

CanGenerate(page) == page.paragraphs = 0 /\ page.lists = 0

GenerateHtml(page) ==
  <<Tag("html", NoText), Tag("body", NoText)>> \o page.inner \o <<Tag("/body", NoText), Tag("/html", NoText)>>
=============================================================================
