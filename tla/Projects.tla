------------------------------- MODULE Projects -------------------------------
(* The project tree of one workspace: projects.service.ts and its repository. *)
(*                                                                           *)
(* A project has a parent and a position that is unique among its siblings.  *)
(* create and reorder are transactions under a lock of the sibling group; a  *)
(* move checks the tree, reads a position and updates, with no lock at all.  *)
EXTENDS Integers, Sequences, FiniteSets

CONSTANTS
  Nodes,       \* ids of projects
  Root, None,  \* the parent of a top-level project; no project
  Requests,
  MaxStarted   \* bound on requests

ProjectsAssumption ==
  /\ IsFiniteSet(Nodes) /\ MaxStarted \in Nat
  /\ Root \notin Nodes /\ None \notin Nodes \cup {Root}

Group == Nodes \cup {Root}

VARIABLES
  parent,   \* projects.parentProjectId, None where there is no such row
  pos,      \* projects.position
  run, started,
  used,     \* ids ever given to a project
  crossed   \* history: a move committed between the check and the update of another

vars == <<parent, pos, run, started, used, crossed>>

Idle == [pc |-> "idle", node |-> None, to |-> Root, pos |-> 0, order |-> << >>,
         todo |-> {}, mine |-> << >>, disturbed |-> FALSE]

Run == [pc : {"idle", "create", "insert", "parent", "descend", "loops", "position",
              "update", "delete", "lock", "aside", "place"},
        node : Nodes \cup {None}, to : Group, pos : Nat, order : Seq(Nodes),
        todo : SUBSET Nodes, mine : UNION {[S -> Int] : S \in SUBSET Nodes},
        disturbed : BOOLEAN]

TypeOK ==
  /\ parent \in [Nodes -> Group \cup {None}] /\ pos \in [Nodes -> Nat]
  /\ run \in [Requests -> Run] /\ started \in 0..MaxStarted
  /\ used \in SUBSET Nodes /\ crossed \in BOOLEAN

\* Some top-level projects exist already, one after the other.
Init ==
  /\ used \in SUBSET Nodes
  /\ parent = [n \in Nodes |-> IF n \in used THEN Root ELSE None]
  /\ pos \in [Nodes -> 0..Cardinality(used)]
  /\ {pos[n] : n \in used} = 0..(Cardinality(used) - 1)
  /\ \A n \in Nodes \ used : pos[n] = 0
  /\ run = [r \in Requests |-> Idle] /\ started = 0 /\ crossed = FALSE

Rows == {n \in Nodes : parent[n] # None}
Children(g) == {n \in Nodes : parent[n] = g}
Elements(s) == {s[i] : i \in DOMAIN s}
At(r, pc) == run[r].pc = pc
Goes(r, pc) == run' = [run EXCEPT ![r].pc = pc]
Ends(r) == run' = [run EXCEPT ![r] = Idle]
Starts(r, fields) ==
  /\ At(r, "idle") /\ started < MaxStarted
  /\ started' = started + 1
  /\ run' = [run EXCEPT ![r] = fields]

\* g and all the projects above it.
Above(g) ==
  LET up[n \in 0..Cardinality(Nodes)] ==
        IF n = 0 THEN {g}
        ELSE up[n - 1] \cup {parent[m] : m \in up[n - 1] \cap Rows}
  IN up[Cardinality(Nodes)] \ {Root, None}

InCycle(n) == parent[n] \in Rows /\ n \in Above(parent[n])

\* assertParentInWorkspace: a parent of another workspace counts as none.
ParentIsThere(g) == g = Root \/ g \in Rows

\* _max.position + 1 over the siblings
NextPosition(g) ==
  CHOOSE k \in {0} \cup {pos[n] + 1 : n \in Children(g)} : \A n \in Children(g) : pos[n] < k

\* Rows a transaction of reorder has written and not committed: who comes to a
\* row or a place of theirs waits.
Writing(r) == run[r].pc \in {"aside", "place"}
Written(r) == DOMAIN run[r].mine
RowIsFree(r, n) == \A q \in Requests \ {r} : n \notin Written(q)
PlaceIsSettled(r, g, k) ==
  \A q \in Requests \ {r}, n \in Children(g) :
    n \in Written(q) => pos[n] # k /\ run[q].mine[n] # k
LockIsFree(r, g) ==
  \A q \in Requests \ {r} :
    ~(run[q].to = g /\ run[q].pc \in {"insert", "aside", "place"})

\* projects_position_unique
Vacant(n, g, k) == \A m \in Children(g) \ {n} : pos[m] # k

-----------------------------------------------------------------------------
(* create                                                                   *)

CreateAsked(r, n, g) ==
  /\ n \notin used /\ ParentIsThere(g)
  /\ Starts(r, [Idle EXCEPT !.pc = "create", !.node = n, !.to = g])
  /\ used' = used \cup {n}
  /\ UNCHANGED <<parent, pos, crossed>>

\* lockSiblingGroup and the largest position
CreateReads(r) ==
  /\ At(r, "create") /\ LockIsFree(r, run[r].to)
  /\ run' = [run EXCEPT ![r].pc = "insert", ![r].pos = NextPosition(run[r].to)]
  /\ UNCHANGED <<parent, pos, started, used, crossed>>

\* Rows that get a place in a group without its lock disturb a create that has
\* read the group's last position.
Disturb(f, r, groups) ==
  [q \in Requests |->
     IF q # r /\ f[q].pc = "insert" /\ f[q].to \in groups
     THEN [f[q] EXCEPT !.disturbed = TRUE] ELSE f[q]]

\* The foreign key and the unique index have the last word.
CreateInserts(r) ==
  LET n == run[r].node  g == run[r].to  k == run[r].pos IN
  /\ At(r, "insert") /\ PlaceIsSettled(r, g, k)
  /\ IF ParentIsThere(g) /\ Vacant(n, g, k)
       THEN /\ parent' = [parent EXCEPT ![n] = g]
            /\ pos' = [pos EXCEPT ![n] = k]
            /\ run' = Disturb([run EXCEPT ![r] = Idle], r, {g})
       ELSE Ends(r) /\ UNCHANGED <<parent, pos>>
  /\ UNCHANGED <<started, used, crossed>>

-----------------------------------------------------------------------------
(* update with a new parent (name, colour and icon are left out)            *)

\* WorkspaceProjectGuard has read the row.
MoveAsked(r, n, g) ==
  /\ n \in Rows /\ g \in Group /\ g # parent[n]
  /\ Starts(r, [Idle EXCEPT !.pc = IF g = Root THEN "position" ELSE "parent",
                            !.node = n, !.to = g])
  /\ UNCHANGED <<parent, pos, used, crossed>>

MoveReadsParent(r) ==
  /\ At(r, "parent")
  /\ IF ParentIsThere(run[r].to) /\ run[r].to # run[r].node
       THEN Goes(r, "descend") ELSE Ends(r)
  /\ UNCHANGED <<parent, pos, started, used, crossed>>

\* Variant: a project may go below itself.
WalkUpUnchecked(n, g) == IF \E m \in Above(g) \ {n} : InCycle(m) THEN "loops" ELSE "ok"

\* assertNotOwnDescendant walks from the new parent to the root, or to the
\* project itself; round a cycle it walks for ever, and the process with it.
WalkUp(n, g) ==
  IF n \in Above(g) THEN "refused"
  ELSE IF \E m \in Above(g) : InCycle(m) THEN "loops" ELSE "ok"

MoveChecks(r) ==
  /\ At(r, "descend")
  /\ LET end == WalkUp(run[r].node, run[r].to) IN
       IF end = "refused" THEN Ends(r)
       ELSE Goes(r, IF end = "ok" THEN "position" ELSE "loops")
  /\ UNCHANGED <<parent, pos, started, used, crossed>>

\* nextPosition, outside any transaction
MoveReadsPosition(r) ==
  /\ At(r, "position")
  /\ run' = [run EXCEPT ![r].pc = "update", ![r].pos = NextPosition(run[r].to)]
  /\ UNCHANGED <<parent, pos, started, used, crossed>>

\* No row is a 404, no parent a 400, a position that was taken meanwhile a 409.
MoveUpdates(r) ==
  LET n == run[r].node  g == run[r].to  k == run[r].pos IN
  /\ At(r, "update") /\ RowIsFree(r, n) /\ PlaceIsSettled(r, g, k)
  /\ IF n \in Rows /\ ParentIsThere(g) /\ Vacant(n, g, k)
       THEN /\ parent' = [parent EXCEPT ![n] = g]
            /\ pos' = [pos EXCEPT ![n] = k]
            /\ run' = Disturb([run EXCEPT ![r] = Idle], r, {g})
            /\ crossed' = (crossed \/ \E q \in Requests \ {r} :
                                         run[q].node # None
                                         /\ run[q].pc \in {"position", "update"})
       ELSE Ends(r) /\ UNCHANGED <<parent, pos, crossed>>
  /\ UNCHANGED <<started, used>>

-----------------------------------------------------------------------------
(* reorder                                                                  *)

ReorderAsked(r, g, order) ==
  /\ ParentIsThere(g) /\ order # << >>
  /\ Starts(r, [Idle EXCEPT !.pc = "lock", !.to = g, !.order = order])
  /\ UNCHANGED <<parent, pos, used, crossed>>

\* isExactPermutation; the DTO has refused duplicates.
IsExactPermutation(order, g) ==
  Len(order) = Cardinality(Children(g)) /\ Children(g) \subseteq Elements(order)

\* Variant: the rows go to their places at once.
FirstPhaseNone == "place"

FirstPhase == "aside"

ReorderReads(r) ==
  LET order == run[r].order IN
  /\ At(r, "lock") /\ LockIsFree(r, run[r].to)
  /\ IF IsExactPermutation(order, run[r].to)
       THEN run' = [run EXCEPT ![r].pc = FirstPhase, ![r].todo = Elements(order)]
       ELSE Ends(r)
  /\ UNCHANGED <<parent, pos, started, used, crossed>>

\* What the transaction of r sees and is about to write.
Seen(r, n) == IF n \in Written(r) THEN run[r].mine[n] ELSE pos[n]
Target(r, n) ==
  IF At(r, "aside") THEN -(pos[n] + 1)
  ELSE (CHOOSE i \in DOMAIN run[r].order : run[r].order[i] = n) - 1
Collides(r, n) ==
  \E m \in Children(parent[n]) \ {n} : Seen(r, m) = Target(r, n)

Mine(r, n) == [m \in Written(r) \cup {n} |->
                 IF m = n THEN Target(r, n) ELSE run[r].mine[m]]

\* One row, in whatever order the database comes to them; the index is checked
\* at every row, and the last row of the second phase commits.
ReorderWritesRow(r, n) ==
  /\ Writing(r) /\ n \in run[r].todo
  /\ RowIsFree(r, n) /\ PlaceIsSettled(r, parent[n], Target(r, n))
  /\ LET left == run[r].todo \ {n}
         mine == IF n \in Rows THEN Mine(r, n) ELSE run[r].mine IN
     IF n \in Rows /\ Collides(r, n) THEN Ends(r) /\ UNCHANGED pos
     ELSE IF left # {} THEN
       /\ run' = [run EXCEPT ![r].todo = left, ![r].mine = mine]
       /\ UNCHANGED pos
     ELSE IF At(r, "aside") THEN
       /\ run' = [run EXCEPT ![r].pc = "place", ![r].mine = mine,
                             ![r].todo = Elements(run[r].order)]
       /\ UNCHANGED pos
     ELSE /\ pos' = [m \in Nodes |-> IF m \in DOMAIN mine THEN mine[m] ELSE pos[m]]
          /\ run' = Disturb([run EXCEPT ![r] = Idle], r,
                            {parent[m] : m \in DOMAIN mine} \ {run[r].to})
  /\ UNCHANGED <<parent, started, used, crossed>>

\* Two transactions that wait for each other's rows: one is rolled back.
ReorderRolledBack(r) ==
  /\ Writing(r) /\ \E n \in run[r].todo : ~RowIsFree(r, n)
  /\ Ends(r)
  /\ UNCHANGED <<parent, pos, started, used, crossed>>

-----------------------------------------------------------------------------
(* delete                                                                   *)

DeleteAsked(r, n) ==
  /\ n \in Rows /\ Starts(r, [Idle EXCEPT !.pc = "delete", !.node = n])
  /\ UNCHANGED <<parent, pos, used, crossed>>

\* The whole subtree goes with the row.
Deletes(r) ==
  LET gone == {m \in Rows : run[r].node \in Above(m)} IN
  /\ At(r, "delete") /\ \A m \in gone : RowIsFree(r, m)
  /\ parent' = [m \in Nodes |-> IF m \in gone THEN None ELSE parent[m]]
  /\ pos' = [m \in Nodes |-> IF m \in gone THEN 0 ELSE pos[m]]
  /\ Ends(r)
  /\ UNCHANGED <<started, used, crossed>>

\* The lists a client may send: orders of a set of projects.
Orders == {s \in UNION {[1..k -> Nodes] : k \in 1..Cardinality(Nodes)} :
             Cardinality(Elements(s)) = Len(s)}

Next ==
  \E r \in Requests :
    \/ \E n \in Nodes, g \in Group : CreateAsked(r, n, g) \/ MoveAsked(r, n, g)
    \/ At(r, "idle") /\ \E g \in Group, order \in Orders : ReorderAsked(r, g, order)
    \/ \E n \in Nodes : DeleteAsked(r, n) \/ ReorderWritesRow(r, n)
    \/ CreateReads(r) \/ CreateInserts(r)
    \/ MoveReadsParent(r) \/ MoveChecks(r) \/ MoveReadsPosition(r) \/ MoveUpdates(r)
    \/ ReorderReads(r) \/ ReorderRolledBack(r) \/ Deletes(r)

Spec == Init /\ [][Next]_vars

\* buildTree: the answer of list and reorder starts at the rows whose parent is
\* not among the rows and attaches children to what is in it already.
BuildTree ==
  LET roots == {n \in Rows : parent[n] \notin Rows}
      attached[depth \in 0..Cardinality(Nodes)] ==
        IF depth = 0 THEN roots
        ELSE attached[depth - 1] \cup {n \in Rows : parent[n] \in attached[depth - 1]}
  IN  attached[Cardinality(Nodes)]

-----------------------------------------------------------------------------
(* Properties                                                               *)

\* Every project of the workspace is in the tree its members are shown, and no
\* request walks round for ever, unless two moves that crossed have put two
\* projects below each other.
TreeShowsAllButForCrossedMoves ==
  crossed \/ /\ BuildTree = Rows
             /\ \A r \in Requests : ~At(r, "loops")

\* A reorder never meets a taken position, in whatever order its rows are
\* written, unless moves have changed who is in the group.
ReorderMeetsNoDuplicate ==
  \A r \in Requests : Writing(r) =>
    \/ Children(run[r].to) # Elements(run[r].order)
    \/ \A n \in run[r].todo : ~Collides(r, n)

\* The position a create has read is still the end of the group, unless a project
\* got a place there by a move: the lock keeps other creates and reorders out.
CreateFindsItsPlace ==
  \A r \in Requests : At(r, "insert") =>
    run[r].disturbed \/ \A n \in Children(run[r].to) : pos[n] < run[r].pos
=============================================================================
