----------------------------- MODULE MCBackground -----------------------------
(* What the server does by itself, in one run: it purges deleted pages and   *)
(* their files, ends what it has asked of the AI provider, and converts the  *)
(* document of a page that is opened and saved.  part is chosen at the start *)
(* and only that component moves.                                            *)
EXTENDS Trash, TLC

CONSTANTS BrokenPage, BrokenFile, Users, MaxGenerations, Absent, Null, MAX_DEPTH

VARIABLES
  part,
  inFlightUserIds, generations, answer, generationsStarted,
  writtenJson, json, searchText, fragment

\* Values of the constants that a .cfg cannot write down.
FileOfBrokenPage == BrokenFile :> BrokenPage
SomeReplies == {<<"delta", "delta", "noise">>, <<"delta", "error">>, <<"noise">>}

\* The documents converted: a paragraph of up to three texts and breaks, alone or
\* beside a heading, a quote or a list.
Plain(letters) == [type |-> "text", letters |-> letters, marks |-> {}]
Bold(letters) == [type |-> "text", letters |-> letters, marks |-> {"bold"}]
NoAttrs == [key \in {} |-> Null]
Element(type, content) == [type |-> type, attrs |-> NoAttrs, content |-> content]
Heading(level) ==
  [type |-> "heading", attrs |-> [key \in {"level"} |-> level],
   content |-> <<Plain(<<"d">>)>>]
Inlines == {Plain(<<"a">>), Plain(<<" ", "b">>), Plain(<<>>), Bold(<<"c">>),
            Element("hardBreak", Absent)}
Paragraphs ==
  {Element("paragraph", content) :
     content \in UNION {[1..n -> Inlines] : n \in 0..3} \cup {Absent}}
Others ==
  {Heading(Null), Heading("2"),
   Element("quote", <<Element("paragraph", <<Plain(<<"e">>)>>),
                      Element("paragraph", <<Bold(<<"f">>)>>)>>),
   Element("list", <<Element("item", <<Element("paragraph", <<Plain(<<"g">>)>>)>>)>>)}
SomeDocuments ==
  {<<p>> : p \in Paragraphs} \cup {<<p, o>> : p \in Paragraphs, o \in Others}
    \cup {<<o, p>> : p \in Paragraphs, o \in Others}

Gn == INSTANCE Generation WITH
        Replies <- SomeReplies, MaxStarted <- MaxGenerations, run <- generations,
        started <- generationsStarted
Cv == INSTANCE Conversion WITH Documents <- SomeDocuments, written <- writtenJson

ASSUME BackgroundAssumption ==
  TrashAssumption /\ Gn!GenerationAssumption /\ Cv!ConversionAssumption

gnVars == <<inFlightUserIds, generations, answer, generationsStarted>>

cvVars == <<writtenJson, json, searchText, fragment>>

BackgroundInit ==
  part \in {"trash", "generation", "conversion"} /\ Init /\ Gn!Init /\ Cv!Init

TrashMoves == part = "trash" /\ Next /\ UNCHANGED <<part, gnVars, cvVars>>
GenerationMoves ==
  part = "generation" /\ Gn!Next /\ UNCHANGED <<part, vars, cvVars>>
ConversionMoves ==
  part = "conversion" /\ Cv!Next /\ UNCHANGED <<part, vars, gnVars>>

Background ==
  BackgroundInit
    /\ [][TrashMoves \/ GenerationMoves \/ ConversionMoves]_
         <<part, vars, gnVars, cvVars>>

\* The fairness of the component that moves: the other one's steps never happen.
TrashFairness ==
  \A r \in Requests :
    /\ WF_vars(part = "trash" /\ Works(r))
    /\ SF_vars(part = "trash" /\ NightlyPurge(r))
GenerationFairness ==
  \A r \in Requests :
    /\ WF_gnVars(part = "generation" /\ Gn!TimerFires(r))
    /\ WF_gnVars(part = "generation" /\ Gn!AbortEnds(r))

LiveBackground == Background /\ TrashFairness /\ GenerationFairness

\* The properties of the components, looked at where they move.

\* A generation ends and gives its place back, wherever the reply of the provider
\* stops; a reply is finite.
PlaceIsReleased == Gn!PlaceIsReleased

\* A document keeps its letters on the way into a session and back, and the
\* search looks at the words it shows.
TextSurvivesConversion ==
  part = "conversion" => Cv!SessionKeepsTheText /\ Cv!SearchedTextIsShown

\* pages-content/yjs/yjs-json.spec.ts:36: a document round-trips through a
\* Y.XmlFragment, marks and all.
RoundTrips == part = "conversion" => Cv!RoundTrips
==============================================================================
