--------------------------------- MODULE Pages ---------------------------------
(* The order of the pages of a project: pages.service.ts, pages.repository.ts. *)
(*                                                                           *)
(* A page keeps its position while it lies in the trash, so a reorder of the *)
(* pages somebody sees has to move those he does not see out of the way.     *)
(* Only reorder takes the lock of the group; create and move do not.         *)
EXTENDS Integers, Sequences, FiniteSets

CONSTANTS
  PageIds, Projects, None, Requests,
  MaxStarted    \* bound on requests

ASSUME PagesAssumption ==
  /\ IsFiniteSet(PageIds) /\ MaxStarted \in Nat
  /\ None \notin PageIds \cup Projects

VARIABLES
  project,   \* pages.projectId, None where there is no such row
  pos,       \* pages.position
  trashed,   \* pages with a deletedAt
  projects,  \* rows of projects
  run, started,
  used       \* ids ever given to a page

vars == <<project, pos, trashed, projects, run, started, used>>

Idle == [pc |-> "idle", page |-> None, to |-> None, pos |-> 0, order |-> << >>,
         disturbed |-> FALSE]

Run == [pc : {"idle", "create", "insert", "check", "position", "update", "trash",
              "restore", "lock", "list", "aside", "place"},
        page : PageIds \cup {None}, to : Projects \cup {None}, pos : Nat,
        order : Seq(PageIds), disturbed : BOOLEAN]

TypeOK ==
  /\ project \in [PageIds -> Projects \cup {None}] /\ pos \in [PageIds -> Nat]
  /\ trashed \in SUBSET PageIds /\ projects \in SUBSET Projects
  /\ run \in [Requests -> Run] /\ started \in 0..MaxStarted
  /\ used \in SUBSET PageIds

Rows == {p \in PageIds : project[p] # None}
In(g) == {p \in PageIds : project[p] = g}
LiveIn(g) == In(g) \ trashed
TrashIn(g) == In(g) \cap trashed
Live(p) == p \in Rows /\ p \notin trashed
Elements(s) == {s[i] : i \in DOMAIN s}

\* Some pages exist already, in one project, one after the other.
Init ==
  /\ used \in SUBSET PageIds /\ projects = Projects
  /\ \E g \in Projects :
       project = [p \in PageIds |-> IF p \in used THEN g ELSE None]
  /\ pos \in [PageIds -> 0..Cardinality(used)]
  /\ {pos[p] : p \in used} = 0..(Cardinality(used) - 1)
  /\ \A p \in PageIds \ used : pos[p] = 0
  /\ trashed = {} /\ run = [r \in Requests |-> Idle] /\ started = 0

At(r, pc) == run[r].pc = pc
Goes(r, pc) == run' = [run EXCEPT ![r].pc = pc]
Ends(r) == run' = [run EXCEPT ![r] = Idle]
Starts(r, fields) ==
  /\ At(r, "idle") /\ started < MaxStarted
  /\ started' = started + 1
  /\ run' = [run EXCEPT ![r] = fields]

\* Variant: the largest position itself.
LastPosition(g) ==
  CHOOSE k \in {-1} \cup {pos[p] : p \in In(g)} : \A p \in In(g) : pos[p] <= k

\* _max.position + 1, over the trash too
NextPosition(g) ==
  CHOOSE k \in {0} \cup {pos[p] + 1 : p \in In(g)} : \A p \in In(g) : pos[p] < k

\* History: who has read a project that is no longer what he read.
\* Pages that come into a group disturb the requests that have read it, and
\* pages that leave one the reorders that list them.
Disturb(f, r, groups, left) ==
  [q \in Requests |->
     IF q # r /\ f[q].pc \in {"insert", "update", "list", "aside", "place"}
        /\ (f[q].to \in groups \/ left \cap Elements(f[q].order) # {})
     THEN [f[q] EXCEPT !.disturbed = TRUE] ELSE f[q]]

\* A page restored between the two reads of a reorder is in neither of its lists.
Overlook(f, p) ==
  [q \in Requests |->
     IF /\ f[q].pc = "list" /\ f[q].to = project[p]
        /\ p \in trashed \ Elements(f[q].order)
     THEN [f[q] EXCEPT !.disturbed = TRUE] ELSE f[q]]

\* pages_position_unique
Vacant(p, g, k) == \A o \in In(g) \ {p} : pos[o] # k

\* The rows a reorder between its two updates has taken out of their places:
\* who comes to one of them, or to a place one of them leaves, waits.
Aside(r) == IF At(r, "place") THEN Elements(run[r].order) ELSE {}
Locked(r, p) == \E q \in Requests \ {r} : p \in Aside(q)
PlaceIsSettled(r, g, k) ==
  \A q \in Requests \ {r} : \A p \in Aside(q) \cap In(g) : pos[p] # k

-----------------------------------------------------------------------------
(* create and update                                                        *)

\* assertProjectInWorkspace: a project of another workspace counts as none.
ProjectIsThere(g) == g \in projects

CreateAsked(r, p, g) ==
  /\ p \notin used /\ ProjectIsThere(g)
  /\ Starts(r, [Idle EXCEPT !.pc = "create", !.page = p, !.to = g])
  /\ used' = used \cup {p}
  /\ UNCHANGED <<project, pos, trashed, projects>>

CreateReads(r) ==
  /\ At(r, "create")
  /\ run' = [run EXCEPT ![r].pc = "insert", ![r].pos = NextPosition(run[r].to)]
  /\ UNCHANGED <<project, pos, trashed, projects, started, used>>

\* The page and its empty content in one transaction; 400 without the project,
\* 409 if the position was taken meanwhile.
CreateInserts(r) ==
  LET p == run[r].page  g == run[r].to  k == run[r].pos IN
  /\ At(r, "insert") /\ PlaceIsSettled(r, g, k)
  /\ IF ProjectIsThere(g) /\ Vacant(p, g, k)
       THEN /\ project' = [project EXCEPT ![p] = g]
            /\ pos' = [pos EXCEPT ![p] = k]
            /\ run' = Disturb([run EXCEPT ![r] = Idle], r, {g}, {})
       ELSE Ends(r) /\ UNCHANGED <<project, pos>>
  /\ UNCHANGED <<trashed, projects, started, used>>

\* A move to another project (title, icon and type are left out).
MoveAsked(r, p, g) ==
  /\ Live(p) /\ g # project[p]
  /\ Starts(r, [Idle EXCEPT !.pc = "check", !.page = p, !.to = g])
  /\ UNCHANGED <<project, pos, trashed, projects, used>>

MoveChecks(r) ==
  /\ At(r, "check")
  /\ IF ProjectIsThere(run[r].to) THEN Goes(r, "position") ELSE Ends(r)
  /\ UNCHANGED <<project, pos, trashed, projects, started, used>>

MoveReadsPosition(r) ==
  /\ At(r, "position")
  /\ run' = [run EXCEPT ![r].pc = "update", ![r].pos = NextPosition(run[r].to)]
  /\ UNCHANGED <<project, pos, trashed, projects, started, used>>

\* A page that went to the trash meanwhile is a 404.
MoveUpdates(r) ==
  LET p == run[r].page  g == run[r].to  k == run[r].pos IN
  /\ At(r, "update") /\ ~Locked(r, p) /\ PlaceIsSettled(r, g, k)
  /\ IF Live(p) /\ ProjectIsThere(g) /\ Vacant(p, g, k)
       THEN /\ project' = [project EXCEPT ![p] = g]
            /\ pos' = [pos EXCEPT ![p] = k]
            /\ run' = Disturb([run EXCEPT ![r] = Idle], r, {g}, {p})
       ELSE Ends(r) /\ UNCHANGED <<project, pos>>
  /\ UNCHANGED <<trashed, projects, started, used>>

-----------------------------------------------------------------------------
(* delete, restore                                                          *)

TrashAsked(r, p) ==
  /\ Live(p) /\ Starts(r, [Idle EXCEPT !.pc = "trash", !.page = p])
  /\ UNCHANGED <<project, pos, trashed, projects, used>>

RestoreAsked(r, p) ==
  /\ p \in Rows /\ Starts(r, [Idle EXCEPT !.pc = "restore", !.page = p])
  /\ UNCHANGED <<project, pos, trashed, projects, used>>

\* softDelete, and restore in pages.repository.ts
SetsTrashed(r) ==
  LET p == run[r].page IN
  /\ ~Locked(r, p)
  /\ \/ /\ At(r, "trash") /\ Ends(r)
        /\ trashed' = IF p \in Rows THEN trashed \cup {p} ELSE trashed
     \/ /\ At(r, "restore") /\ run' = Overlook([run EXCEPT ![r] = Idle], p)
        /\ trashed' = trashed \ {p}
  /\ UNCHANGED <<project, pos, projects, started, used>>

-----------------------------------------------------------------------------
(* reorder                                                                  *)

\* order lists what the client sees.
ReorderAsked(r, g, order) ==
  /\ ProjectIsThere(g) /\ order # << >>
  /\ Starts(r, [Idle EXCEPT !.pc = "lock", !.to = g, !.order = order])
  /\ UNCHANGED <<project, pos, trashed, projects, used>>

IsExactPermutation(order, g) ==
  Len(order) = Cardinality(LiveIn(g)) /\ LiveIn(g) \subseteq Elements(order)

\* The trash of the group by position.
TrashInOrder(g) ==
  CHOOSE s \in [1..Cardinality(TrashIn(g)) -> TrashIn(g)] :
    \A i, j \in DOMAIN s : i < j => pos[s[i]] < pos[s[j]]

\* placements: the pages in use get 0..n-1, the trash what follows.
Placements(order, g) == order \o TrashInOrder(g)

\* The lock of the group, and the pages in use.
ReorderReadsLive(r) ==
  LET g == run[r].to IN
  /\ At(r, "lock")
  /\ \A q \in Requests \ {r} :
       run[q].to = g => run[q].pc \notin {"list", "aside", "place"}
  /\ IF IsExactPermutation(run[r].order, g) THEN Goes(r, "list") ELSE Ends(r)
  /\ UNCHANGED <<project, pos, trashed, projects, started, used>>

\* A second statement: it sees what was trashed or restored since the first.
ReorderReadsTrash(r) ==
  /\ At(r, "list")
  /\ run' = [run EXCEPT ![r].pc = "aside",
                        ![r].order = Placements(run[r].order, run[r].to)]
  /\ UNCHANGED <<project, pos, trashed, projects, started, used>>

\* position = -(position + 1), which nothing else has
ReorderSetsAside(r) ==
  /\ At(r, "aside") /\ \A p \in Elements(run[r].order) : ~Locked(r, p)
  /\ Goes(r, "place")
  /\ UNCHANGED <<project, pos, trashed, projects, started, used>>

\* The places the lists give a page: two if it was trashed between the two reads,
\* and UPDATE ... FROM takes either.
Places(order, p) == {i - 1 : i \in {j \in DOMAIN order : order[j] = p}}

\* A row of its group that was not set aside has the place of p.
Collides(r, p, k) == \E o \in In(project[p]) \ Aside(r) : pos[o] = k

\* The lists name every page of the project, and each of them once.
ListsAreExact(r) ==
  In(run[r].to) = Aside(r) /\ Len(run[r].order) = Cardinality(Aside(r))

ReorderPlaces(r) ==
  LET order == run[r].order  placed == Aside(r) \cap Rows IN
  /\ At(r, "place")
  /\ \E to \in [placed -> 0..(Len(order) - 1)] :
       /\ \A p \in placed : to[p] \in Places(order, p)
       /\ IF \E p \in placed : Collides(r, p, to[p]) THEN Ends(r) /\ UNCHANGED pos
          ELSE /\ pos' = [p \in PageIds |-> IF p \in placed THEN to[p] ELSE pos[p]]
               /\ run' = Disturb([run EXCEPT ![r] = Idle], r,
                                 IF ListsAreExact(r) THEN {}
                                 ELSE {project[p] : p \in Aside(r)}, {})
  /\ UNCHANGED <<project, trashed, projects, started, used>>

-----------------------------------------------------------------------------
(* Other modules: hardDelete (module Trash), the deletion of a project        *)

Vanish(gone) ==
  /\ \A r \in Requests, p \in gone : ~Locked(r, p)
  /\ project' = [p \in PageIds |-> IF p \in gone THEN None ELSE project[p]]
  /\ pos' = [p \in PageIds |-> IF p \in gone THEN 0 ELSE pos[p]]
  /\ trashed' = trashed \ gone
  /\ UNCHANGED <<run, started, used>>

HardDeletes(p) == p \in Rows /\ Vanish({p}) /\ UNCHANGED projects
ProjectGoes(g) == g \in projects /\ projects' = projects \ {g} /\ Vanish(In(g))

Orders == {s \in UNION {[1..k -> PageIds] : k \in 1..Cardinality(PageIds)} :
             Cardinality(Elements(s)) = Len(s)}

Next ==
  \/ \E r \in Requests :
       \/ \E p \in PageIds, g \in Projects : CreateAsked(r, p, g) \/ MoveAsked(r, p, g)
       \/ \E p \in PageIds : TrashAsked(r, p) \/ RestoreAsked(r, p)
       \/ At(r, "idle") /\ \E g \in Projects, order \in Orders : ReorderAsked(r, g, order)
       \/ CreateReads(r) \/ CreateInserts(r)
       \/ MoveChecks(r) \/ MoveReadsPosition(r) \/ MoveUpdates(r) \/ SetsTrashed(r)
       \/ ReorderReadsLive(r) \/ ReorderReadsTrash(r) \/ ReorderSetsAside(r) \/ ReorderPlaces(r)
  \/ \E p \in PageIds : HardDeletes(p)
  \/ \E g \in Projects : ProjectGoes(g)

Spec == Init /\ [][Next]_vars

-----------------------------------------------------------------------------
(* Properties                                                               *)

\* A reorder of the pages in use finds every place free, whatever lies in the
\* trash and whatever is trashed or deleted meanwhile, unless a page has come into
\* the project or left it since the reorder read it, or one has been restored
\* between its two reads.
TrashGivesWay ==
  \A r \in Requests : At(r, "place") /\ ~run[r].disturbed =>
    \A p \in Aside(r) \cap Rows : \A k \in Places(run[r].order, p) : ~Collides(r, p, k)

\* The position a create or a move has read is still past the end of the project,
\* though it holds no lock: the trash, deletions and reorders never take it.  Only
\* a page that arrives does, or a reorder whose lists are not, or no longer, each
\* page of the project once.
NewPageComesLast ==
  \A r \in Requests : run[r].pc \in {"insert", "update"} =>
    \/ run[r].disturbed
    \/ \A p \in In(run[r].to) : pos[p] < run[r].pos
=============================================================================
