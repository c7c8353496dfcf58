----------------------------- MODULE Conversion -----------------------------
(* What becomes of a document on its way from the editor's JSON to a Yjs     *)
(* fragment, back to JSON and into the text that is searched:                *)
(* json-to-fragment.ts, fragment-to-json.ts, extract-plain-text.ts.          *)
(*                                                                           *)
(* A document is the content of its "doc" node, a sequence of nodes.  A text *)
(* node has its letters and the set of its marks; any other node has a type, *)
(* attributes, and a content, which may be absent (Absent).                  *)
EXTENDS SequencesExt

CONSTANTS
  Documents,  \* what a REST write or a restored version may hold
  Absent,     \* no content, no fragment
  Null,       \* an attribute's value
  MAX_DEPTH   \* how deep the text is looked for

ConversionAssumption == MAX_DEPTH \in Nat

VARIABLES
  written,     \* history: the document as it was last written from JSON
  json,        \* page_contents.json
  searchText,  \* page_contents.searchText
  fragment     \* the live fragment, then kept as yjsState; Absent before

vars == <<written, json, searchText, fragment>>

IsText(node) == node.type = "text"
ContentOf(node) == IF node.content = Absent THEN <<>> ELSE node.content

-----------------------------------------------------------------------------
(* From JSON to the fragment                                                *)

NonNull(attrs) == Restrict(attrs, {key \in DOMAIN attrs : attrs[key] # Null})

\* A Y.XmlText is a sequence of runs of letters that have the same marks.
EmptyText == [type |-> "text", runs |-> <<>>]

\* The elements come first; neighbouring text nodes share one empty Y.XmlText.
RECURSIVE buildChildren(_)
build(node) ==
  [type |-> node.type, attrs |-> NonNull(node.attrs),
   children |-> buildChildren(ContentOf(node))]
buildChildren(nodes) ==
  FoldLeft(LAMBDA made, node :
      IF ~IsText(node) THEN Append(made, build(node))
      ELSE IF made # <<>> /\ IsText(Last(made)) THEN made
      ELSE Append(made, EmptyText),
    <<>>, nodes)

\* Y.Text.insert at the end: nothing for no letters, and a text inserted without
\* attributes takes those of the letter before it.
InsertAtEnd(runs, letters, marks) ==
  IF letters = <<>> THEN runs
  ELSE IF runs # <<>> /\ marks \in {{}, Last(runs).marks}
       THEN [runs EXCEPT ![Len(runs)].letters = @ \o letters]
       ELSE Append(runs, [letters |-> letters, marks |-> marks])

\* Variant: the active text is not forgotten at an element.
RECURSIVE FilledOn(_, _)
FilledOn(children, nodes) ==
  FoldLeft(LAMBDA s, node :
      LET at == IF IsText(node) /\ s.active # 0 THEN s.active ELSE s.next
          next == IF at = s.next THEN at + 1 ELSE s.next
      IN  IF IsText(node)
          THEN [filled |-> [s.filled EXCEPT
                  ![at].runs = InsertAtEnd(@, node.letters, node.marks)],
                next |-> next, active |-> at]
          ELSE [filled |-> [s.filled EXCEPT
                  ![at].children = FilledOn(@, ContentOf(node))],
                next |-> next, active |-> s.active],
    [filled |-> children, next |-> 1, active |-> 0], nodes).filled

\* fillTexts: the texts in the order of the nodes; active is the Y.XmlText of the
\* text node just before, next is childIndex.
RECURSIVE fillTexts(_, _)
fillTexts(children, nodes) ==
  FoldLeft(LAMBDA s, node :
      LET at == IF IsText(node) /\ s.active # 0 THEN s.active ELSE s.next
          next == IF at = s.next THEN at + 1 ELSE s.next
      IN  IF IsText(node)
          THEN [filled |-> [s.filled EXCEPT
                  ![at].runs = InsertAtEnd(@, node.letters, node.marks)],
                next |-> next, active |-> at]
          ELSE [filled |-> [s.filled EXCEPT
                  ![at].children = fillTexts(@, ContentOf(node))],
                next |-> next, active |-> 0],
    [filled |-> children, next |-> 1, active |-> 0], nodes).filled

jsonToFragment(document) == fillTexts(buildChildren(document), document)

-----------------------------------------------------------------------------
(* From the fragment to JSON                                                *)

xmlTextToNodes(text) ==
  [i \in DOMAIN text.runs |->
     [type |-> "text", letters |-> text.runs[i].letters, marks |-> text.runs[i].marks]]

RECURSIVE xmlChildrenToNodes(_)
fragmentToJson(children) == xmlChildrenToNodes(children)
xmlChildrenToNodes(children) ==
  FlattenSeq([i \in DOMAIN children |->
    LET child == children[i] IN
    IF IsText(child) THEN xmlTextToNodes(child)
    ELSE LET content == xmlChildrenToNodes(child.children) IN
         <<[type |-> child.type, attrs |-> child.attrs,
            content |-> IF content = <<>> THEN Absent ELSE content]>>])

-----------------------------------------------------------------------------
(* The text that is searched                                                *)

\* The nodes of the content array at this depth; each is one deeper.
RECURSIVE collect(_, _)
collect(nodes, depth) ==
  FlattenSeq([i \in DOMAIN nodes |->
    IF depth + 1 > MAX_DEPTH THEN <<>>
    ELSE IF IsText(nodes[i]) THEN nodes[i].letters
    ELSE IF nodes[i].content = Absent THEN <<>>
    ELSE Append(collect(nodes[i].content, depth + 2), " ")])

\* Spaces folded into one and trimmed.
Squeezed(letters) ==
  LET folded == FoldLeft(LAMBDA done, c :
                   IF c = " " /\ (done = <<>> \/ Last(done) = " ") THEN done
                   ELSE Append(done, c), <<>>, letters)
  IN  IF folded # <<>> /\ Last(folded) = " " THEN Front(folded) ELSE folded

extractPlainText(document) == Squeezed(collect(document, 1))

-----------------------------------------------------------------------------
(* The row and the session                                                  *)

\* A REST write, or a restored version, replaces the text; yjsState is dropped.
\* As nothing of the text before it is left, one write is followed.
Writes(document) ==
  /\ written = <<>> /\ fragment = Absent
  /\ written' = document /\ json' = document
  /\ searchText' = extractPlainText(document)
  /\ UNCHANGED fragment

\* The first session after that seeds its fragment.
Seeds ==
  /\ fragment = Absent
  /\ fragment' = jsonToFragment(json)
  /\ UNCHANGED <<written, json, searchText>>

\* The seeded text is saved at once.
Saves ==
  /\ fragment # Absent
  /\ json' = fragmentToJson(fragment)
  /\ searchText' = extractPlainText(json')
  /\ UNCHANGED <<written, fragment>>

Init ==
  /\ written = <<>> /\ json = <<>> /\ searchText = <<>> /\ fragment = Absent

Next == Seeds \/ Saves \/ \E document \in Documents : Writes(document)

Spec == Init /\ [][Next]_vars

-----------------------------------------------------------------------------
(* Properties                                                               *)

\* A document without what JSON may say in two ways: texts of the same marks are
\* one, empty texts, null attributes and empty contents are left out.
RECURSIVE Normal(_)
Normal(nodes) ==
  FoldLeft(LAMBDA done, node :
      IF ~IsText(node)
      THEN LET content == Normal(ContentOf(node)) IN
           Append(done, [node EXCEPT !.attrs = NonNull(@),
                           !.content = IF content = <<>> THEN Absent ELSE content])
      ELSE IF node.letters = <<>> THEN done
      ELSE IF done # <<>> /\ IsText(Last(done)) /\ Last(done).marks = node.marks
      THEN [done EXCEPT ![Len(done)].letters = @ \o node.letters]
      ELSE Append(done, node),
    <<>>, nodes)

RECURSIVE Unmarked(_)
Unmarked(nodes) ==
  [i \in DOMAIN nodes |->
     IF IsText(nodes[i]) THEN [nodes[i] EXCEPT !.marks = {}]
     ELSE [nodes[i] EXCEPT !.content = IF @ = Absent THEN @ ELSE Unmarked(@)]]

\* The first session of a document that was written as JSON puts nothing out of
\* its place: every node, attribute and letter is saved where it was, whatever
\* empty texts and null attributes the JSON had.  Marks aside, for which see below.
SessionKeepsTheText ==
  Normal(Unmarked(json)) = Normal(Unmarked(written))

\* The letters of the blocks that hold text, one sequence for each, as far down
\* as the text is looked for: level 1 is the content of the document.
RECURSIVE TextBlocks(_, _)
TextBlocks(nodes, level) ==
  FlattenSeq([i \in DOMAIN nodes |->
    IF IsText(nodes[i]) \/ nodes[i].content = Absent THEN <<>>
    ELSE <<IF 2 * level + 2 > MAX_DEPTH THEN <<>>
           ELSE FlattenSeq([j \in DOMAIN nodes[i].content |->
                  IF IsText(nodes[i].content[j])
                  THEN nodes[i].content[j].letters ELSE <<>>])>>
         \o TextBlocks(nodes[i].content, level + 1)])

\* What is searched is the text that is shown, block by block with a space in
\* between, before the first session, after it, and whoever wrote the row: no word
\* runs into the word of another block.
SearchedTextIsShown ==
  searchText = Squeezed(FoldLeft(LAMBDA done, letters : done \o <<" ">> \o letters,
                                 <<>>, TextBlocks(json, 1)))

\* yjs-json.spec.ts:36: JSON round-trips through a Y.XmlFragment, so a session
\* without an edit leaves the document as it was written, with its marks.
RoundTrips == Normal(json) = Normal(written)
=============================================================================
