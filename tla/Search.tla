------------------------------- MODULE Search -------------------------------
(* The search for pages: pages-search.repository.ts and search in            *)
(* pages.service.ts.                                                         *)
(*                                                                           *)
(* The rows, the chains of projects and the pages' own chains are three      *)
(* statements, the last two sent together: pages and projects may move       *)
(* between any two of them.  Nothing sets a page's parentPageId, so the      *)
(* chain of a page is the page itself.  Moments are counted in some unit of  *)
(* which DAY make a day.                                                     *)
EXTENDS Naturals, FiniteSets, Sequences

CONSTANTS
  Pages, Projects, None,
  TitleMatches, TextMatches,  \* the pages whose title, whose text has the words
  Moments, Bounds, DAY,       \* of updates, of queries, and the length of a day
  LIMIT, PATH_MAX_DEPTH,
  MaxChanges                  \* bound on moves and deletions

SearchAssumption ==
  /\ IsFiniteSet(Pages) /\ None \notin Projects
  /\ TitleMatches \cup TextMatches \subseteq Pages
  /\ Moments \cup Bounds \subseteq Nat /\ DAY \in Nat \ {0}
  /\ LIMIT \in Nat \ {0} /\ PATH_MAX_DEPTH \in Nat /\ MaxChanges \in Nat

VARIABLES
  project,    \* pages.projectId
  trashed,    \* pages with a deletedAt
  updatedAt,  \* pages.updatedAt, as it is when the search begins
  parent,     \* projects.parentProjectId
  asked,      \* the query
  rows,       \* the pages found, in order, and the project each had
  projectPath, pagePath,  \* what the two statements returned for each page
  changes,
  crossed,    \* history: pages that were moved or deleted since they were found
  shifted     \* history: projects were moved since their chains were read

vars == <<project, trashed, updatedAt, parent, asked, rows, projectPath, pagePath,
          changes, crossed, shifted>>

\* SearchPagesQueryDto: what to look in, where, and between which moments.
Query ==
  {q \in [type : {"all", "documents", "content"}, projectId : Projects \cup {None},
          from : Bounds \cup {0}, to : Bounds \cup {0}] :
     q.from = 0 \/ q.to = 0 \/ q.from <= q.to}

NotAsked == [type |-> "none"]

\* Two moves that crossed may have made a ring of projects.
Init ==
  /\ project \in [Pages -> Projects] /\ trashed = {}
  /\ updatedAt \in [Pages -> Moments]
  /\ parent \in [Projects -> Projects \cup {None}] /\ \A g \in Projects : parent[g] # g
  /\ asked = NotAsked /\ rows = <<>> /\ projectPath = None /\ pagePath = None
  /\ changes = 0 /\ crossed = {} /\ shifted = FALSE

-----------------------------------------------------------------------------
(* search                                                                   *)

\* A `to` at midnight stands for the whole day.
updatedBefore(moment, to) ==
  IF to % DAY # 0 THEN moment <= to ELSE moment < to + DAY

Matches(q) ==
  CASE q.type = "documents" -> TitleMatches
    [] q.type = "content" -> TextMatches
    [] OTHER -> TitleMatches \cup TextMatches

Hits(q) ==
  {p \in Matches(q) \ trashed :
     /\ q.projectId # None => project[p] = q.projectId
     /\ q.from # 0 => updatedAt[p] >= q.from
     /\ q.to # 0 => updatedBefore(updatedAt[p], q.to)}

TitleFirst(q, p) == IF q.type # "content" /\ p \in TitleMatches THEN 1 ELSE 0

\* ORDER BY: title matches, then the latest.
Before(q, p, r) ==
  \/ TitleFirst(q, p) > TitleFirst(q, r)
  \/ TitleFirst(q, p) = TitleFirst(q, r) /\ updatedAt[p] > updatedAt[r]

\* The pages in order, as many as LIMIT allows.
Orderings(q) ==
  LET hits == Hits(q)
      n == IF Cardinality(hits) < LIMIT THEN Cardinality(hits) ELSE LIMIT
  IN  {s \in [1..n -> hits] :
         /\ \A i, j \in 1..n : i < j => s[i] # s[j] /\ ~Before(q, s[j], s[i])
         /\ \A p \in hits : (\A i \in 1..n : s[i] # p)
                              => \A i \in 1..n : ~Before(q, p, s[i])}

Searches(q) ==
  /\ asked = NotAsked
  /\ asked' = q
  /\ \E s \in Orderings(q) :
       rows' = [i \in DOMAIN s |-> [page |-> s[i], projectId |-> project[s[i]]]]
  /\ UNCHANGED <<project, trashed, updatedAt, parent, projectPath, pagePath, changes,
                 crossed, shifted>>

Found == {rows[i].page : i \in DOMAIN rows}

\* The project with its parents, at most PATH_MAX_DEPTH of them.
Up(g) ==
  LET up[depth \in 0..PATH_MAX_DEPTH] ==
        IF depth = 0 THEN g
        ELSE IF up[depth - 1] = None THEN None ELSE parent[up[depth - 1]]
  IN  up

Height(g) == Cardinality({depth \in 0..PATH_MAX_DEPTH : Up(g)[depth] # None})

\* Variant: the chain as it is climbed.
ProjectChainUp(g) == [i \in 1..Height(g) |-> Up(g)[i - 1]]

\* ORDER BY depth DESC: from the root down.
ProjectChain(g) == [i \in 1..Height(g) |-> Up(g)[Height(g) - i]]

loadProjectChain ==
  /\ rows # <<>> /\ projectPath = None
  /\ projectPath' = [p \in Found |-> ProjectChain(project[p])]
  /\ UNCHANGED <<project, trashed, updatedAt, parent, asked, rows, pagePath, changes,
                 crossed, shifted>>

\* A page that is in the trash by now has no chain.
loadPageChain ==
  /\ rows # <<>> /\ pagePath = None
  /\ pagePath' = [p \in Found |-> IF p \in trashed THEN <<>> ELSE <<p>>]
  /\ UNCHANGED <<project, trashed, updatedAt, parent, asked, rows, projectPath,
                 changes, crossed, shifted>>

MatchedInTitle(type, p) == type = "documents" \/ (type = "all" /\ p \in TitleMatches)

\* position() of the words in the text, which the snippet is cut around.
HasContentMatch(type, p) == ~MatchedInTitle(type, p) /\ p \in TextMatches

\* What the service makes of a row: where the match is and whether it is shown.
Result(row) ==
  [matchedIn |-> IF MatchedInTitle(asked.type, row.page) THEN "title" ELSE "content",
   snippet |-> HasContentMatch(asked.type, row.page),
   path |-> projectPath[row.page] \o pagePath[row.page]]

-----------------------------------------------------------------------------
(* Meanwhile, by other requests (modules Pages and Projects)                *)

\* What changes once both statements have answered is no matter, nor are moves
\* before the search, whose results are among the first states.
Changes ==
  /\ projectPath = None \/ pagePath = None
  /\ changes < MaxChanges /\ changes' = changes + 1
  /\ UNCHANGED <<updatedAt, asked, rows, projectPath, pagePath>>

PageMoves(p, g) ==
  /\ asked # NotAsked /\ p \notin trashed /\ project[p] # g /\ Changes
  /\ project' = [project EXCEPT ![p] = g]
  /\ crossed' = crossed \cup ({p} \cap Found)
  /\ UNCHANGED <<trashed, parent, shifted>>

PageIsTrashed(p) ==
  /\ p \notin trashed /\ Changes
  /\ trashed' = trashed \cup {p}
  /\ crossed' = crossed \cup ({p} \cap Found)
  /\ UNCHANGED <<project, parent, shifted>>

ProjectMoves(g, h) ==
  /\ asked # NotAsked /\ g # h /\ parent[g] # h /\ Changes
  /\ parent' = [parent EXCEPT ![g] = h]
  /\ shifted' = (shifted \/ projectPath # None)
  /\ UNCHANGED <<project, trashed, crossed>>

Next ==
  \/ \E q \in Query : Searches(q)
  \/ loadProjectChain \/ loadPageChain
  \/ \E p \in Pages : PageIsTrashed(p) \/ \E g \in Projects : PageMoves(p, g)
  \/ \E g \in Projects, h \in Projects \cup {None} : ProjectMoves(g, h)

Spec == Init /\ [][Next]_vars

-----------------------------------------------------------------------------
(* Properties                                                               *)

Answered == projectPath # None /\ pagePath # None

IsRoot(g) == parent[g] = None

\* The path of a page leads from the root project, project by project, to the one
\* the row names and ends with the page, though the three were read apart, unless
\* the page was moved or deleted in between.  Only a chain of full length may begin
\* below a root, and a ring of projects ends there too.
PathLeadsToPage ==
  Answered => \A i \in DOMAIN rows :
    LET path == Result(rows[i]).path
        n == Len(path) - 1
    IN  rows[i].page \in crossed
          \/ /\ n \in 1..(PATH_MAX_DEPTH + 1)
             /\ path[n + 1] = rows[i].page /\ path[n] = rows[i].projectId
             /\ shifted \/ /\ IsRoot(path[1]) \/ n = PATH_MAX_DEPTH + 1
                           /\ \A k \in 1..(n - 1) : parent[path[k + 1]] = path[k]

\* Whatever was looked in, a result that says the words are in the text shows them
\* there, and one that says they are in the title has them there.
ResultShowsTheMatch ==
  Answered => \A i \in DOMAIN rows :
    LET result == Result(rows[i]) IN
    IF result.matchedIn = "content" THEN result.snippet
    ELSE rows[i].page \in TitleMatches

\* search-pages-query.dto.ts:63: a date without a time takes in its whole day, and
\* nothing of the next one.
DayIsWhole ==
  asked # NotAsked /\ asked.to # 0 /\ asked.to % DAY = 0 =>
    LET later == {p \in Pages : updatedAt[p] \div DAY > asked.to \div DAY}
        ofThatDay == {p \in Matches(asked) \ trashed :
                        updatedAt[p] \div DAY = asked.to \div DAY}
    IN  /\ Found \cap later = {}
        /\ changes = 0 /\ asked.projectId = None /\ asked.from = 0
             /\ Cardinality(Found) < LIMIT => ofThatDay \subseteq Found
=============================================================================
