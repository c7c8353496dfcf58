----------------------------- MODULE Workspaces -----------------------------
(* Workspaces and their members: workspaces.service.ts,                      *)
(* workspace-members.service.ts and their repositories.                      *)
(*                                                                           *)
(* Every rule about who may do what is checked on rows read before the row   *)
(* that is changed, one query per step, with nothing locked in between.      *)
EXTENDS Naturals, FiniteSets

CONSTANTS
  Users, Workspaces, Requests, None,
  MaxWorkspaces,   \* MAX_WORKSPACES_PER_USER
  MaxStarted       \* bound on requests

ASSUME WorkspacesAssumption ==
  /\ MaxWorkspaces \in Nat /\ MaxStarted \in Nat
  /\ None \notin Users /\ None \notin Workspaces
  /\ IsFiniteSet(Requests) /\ IsFiniteSet(Workspaces)

Role == {"OWNER", "ADMIN", "EDITOR", "VIEWER"}
Managers == {"OWNER", "ADMIN"}

VARIABLES
  owner,    \* workspaces.ownerId, None where there is no such row
  role,     \* workspace_members.role, "none" where there is no such row
  public,   \* workspaces.isPublic
  run,      \* the requests under way
  started,
  told,     \* the role applyMembership was last called with
  \* History: who made each role, and the memberships changed by a request
  \* while another had still to announce its own change of it.
  madeBy, crossed

rows == <<owner, role, public>>
vars == <<rows, run, started, told, madeBy, crossed>>

Idle == [pc |-> "idle", kind |-> "none", actor |-> None, ws |-> None,
         target |-> None, role |-> "VIEWER", actorRole |-> "VIEWER"]

Run == [pc : {"idle", "create", "target", "owner", "commit", "announce"},
        kind : {"none", "create", "add", "change", "remove", "update", "delete"},
        actor : Users \cup {None}, ws : Workspaces \cup {None},
        target : Users \cup {None}, role : Role, actorRole : Role]

TypeOK ==
  /\ owner \in [Workspaces -> Users \cup {None}]
  /\ role \in [Workspaces -> [Users -> Role \cup {"none"}]]
  /\ public \in [Workspaces -> BOOLEAN]
  /\ run \in [Requests -> Run] /\ started \in 0..MaxStarted
  /\ told \in [Workspaces -> [Users -> Role \cup {"none"}]]
  /\ madeBy \in [Workspaces -> [Users -> Users \cup {None}]]
  /\ crossed \in SUBSET (Workspaces \X Users)

Init ==
  /\ owner = [w \in Workspaces |-> None]
  /\ role = [w \in Workspaces |-> [u \in Users |-> "none"]]
  /\ public = [w \in Workspaces |-> FALSE]
  /\ run = [r \in Requests |-> Idle] /\ started = 0
  /\ told = role
  /\ madeBy = [w \in Workspaces |-> [u \in Users |-> None]]
  /\ crossed = {}

At(r, pc) == run[r].pc = pc
Goes(r, pc) == run' = [run EXCEPT ![r].pc = pc]
Ends(r) == run' = [run EXCEPT ![r] = Idle]
Starts(r, fields) ==
  /\ At(r, "idle") /\ started < MaxStarted
  /\ started' = started + 1
  /\ run' = [run EXCEPT ![r] = fields]

Owned(u) == {w \in Workspaces : owner[w] = u}

\* A commit makes role p of user u in workspace w.  (A commit after another's,
\* before that one is announced, crosses it.)
Crosses(r, w, u) ==
  \E q \in Requests \ {r} : At(q, "announce") /\ run[q].ws = w /\ run[q].target = u

Writes(r, w, u, p) ==
  /\ role' = [role EXCEPT ![w][u] = p]
  /\ madeBy' = [madeBy EXCEPT ![w][u] = run[r].actor]
  /\ crossed' = IF Crosses(r, w, u) THEN crossed \cup {<<w, u>>} ELSE crossed

-----------------------------------------------------------------------------
(* create                                                                   *)

\* Variant: the limit is off by one.
BelowLimitPlus(u) == Cardinality(Owned(u)) <= MaxWorkspaces

BelowLimit(u) == Cardinality(Owned(u)) < MaxWorkspaces

CreateCounts(r, u) ==
  /\ BelowLimit(u)
  /\ Starts(r, [Idle EXCEPT !.pc = "create", !.kind = "create", !.actor = u])
  /\ UNCHANGED <<rows, told, madeBy, crossed>>

\* One transaction: the workspace and its owner's membership.  Ids are new: a
\* name is used again only when no request holds it.
CreateCommits(r, w) ==
  /\ At(r, "create") /\ owner[w] = None
  /\ \A q \in Requests : run[q].ws # w
  /\ LET u == run[r].actor
         first == [x \in Users |-> IF x = u THEN "OWNER" ELSE "none"] IN
       /\ owner' = [owner EXCEPT ![w] = u]
       /\ role' = [role EXCEPT ![w] = first]
       /\ told' = [told EXCEPT ![w] = first]
       /\ madeBy' = [madeBy EXCEPT ![w][u] = u]
  /\ public' = [public EXCEPT ![w] = FALSE]
  /\ crossed' = {c \in crossed : c[1] # w}
  /\ Ends(r)
  /\ UNCHANGED started

-----------------------------------------------------------------------------
(* update and delete, for the owner                                         *)

\* assertIsOwner
IsOwner(w, u) == role[w][u] = "OWNER"

OwnerAsks(r, u, w, kind) ==
  /\ kind \in {"update", "delete"} /\ IsOwner(w, u)
  /\ Starts(r, [Idle EXCEPT !.pc = "commit", !.kind = kind, !.actor = u, !.ws = w])
  /\ UNCHANGED <<rows, told, madeBy, crossed>>

\* A workspace that is gone by now answers 404.
UpdateCommits(r) ==
  /\ At(r, "commit") /\ run[r].kind = "update"
  /\ \E b \in BOOLEAN :
       public' = IF owner[run[r].ws] = None THEN public
                 ELSE [public EXCEPT ![run[r].ws] = b]
  /\ Ends(r)
  /\ UNCHANGED <<owner, role, started, told, madeBy, crossed>>

\* The members go with the row; requests already past their checks find nothing.
DeleteCommits(r) ==
  /\ At(r, "commit") /\ run[r].kind = "delete"
  /\ owner' = [owner EXCEPT ![run[r].ws] = None]
  /\ role' = [role EXCEPT ![run[r].ws] = [u \in Users |-> "none"]]
  /\ Ends(r)
  /\ UNCHANGED <<public, started, told, madeBy, crossed>>

-----------------------------------------------------------------------------
(* Members: add, change of role, removal                                    *)

\* Variant: strangers manage members too.
CanManageAnyone(w, u) == TRUE

\* assertCanManageMembers
CanManage(w, u) == role[w][u] \in Managers

\* Nobody changes or removes himself.  The role asked for is not OWNER (the
\* request would be refused a few reads later).
MemberAsks(r, kind, u, w, t, p) ==
  /\ kind \in {"add", "change", "remove"} /\ p \in Role \ {"OWNER"}
  /\ CanManage(w, u)
  /\ kind # "add" => u # t
  /\ kind = "remove" => p = "VIEWER"
  /\ Starts(r, [pc |-> IF kind # "add" THEN "target"
                       ELSE IF p = "ADMIN" THEN "owner" ELSE "commit",
                kind |-> kind, actor |-> u, ws |-> w, target |-> t, role |-> p,
                actorRole |-> role[w][u]])
  /\ UNCHANGED <<rows, told, madeBy, crossed>>

\* Variant: the owner may be changed like anybody.
CanChangeAnyone(actorRole, targetRole) == ~(actorRole = "ADMIN" /\ targetRole = "ADMIN")

\* assertCanChangeRole, on the roles both had when they were read.
CanChange(actorRole, targetRole) ==
  /\ targetRole # "OWNER"
  /\ ~(actorRole = "ADMIN" /\ targetRole = "ADMIN")

TargetRead(r) ==
  /\ At(r, "target")
  /\ LET seen == role[run[r].ws][run[r].target] IN
       IF seen = "none" \/ ~CanChange(run[r].actorRole, seen) THEN Ends(r)
       ELSE Goes(r, IF run[r].kind = "change" /\ run[r].role = "ADMIN"
                    THEN "owner" ELSE "commit")
  /\ UNCHANGED <<rows, started, told, madeBy, crossed>>

\* Variant: whoever manages members may make admins.
OwnerReadManager(r) ==
  /\ At(r, "owner")
  /\ IF role[run[r].ws][run[r].actor] \in Managers THEN Goes(r, "commit") ELSE Ends(r)
  /\ UNCHANGED <<rows, started, told, madeBy, crossed>>

\* assertOwner, for the role ADMIN.
OwnerRead(r) ==
  /\ At(r, "owner")
  /\ IF IsOwner(run[r].ws, run[r].actor) THEN Goes(r, "commit") ELSE Ends(r)
  /\ UNCHANGED <<rows, started, told, madeBy, crossed>>

\* An existing membership is a 409, a missing workspace a 404.  Nobody is told:
\* a new member has no session to change.
AddCommits(r) ==
  /\ At(r, "commit") /\ run[r].kind = "add"
  /\ LET w == run[r].ws  t == run[r].target IN
       IF owner[w] # None /\ role[w][t] = "none"
         THEN /\ Writes(r, w, t, run[r].role)
              /\ told' = [told EXCEPT ![w][t] = run[r].role]
         ELSE UNCHANGED <<role, told, madeBy, crossed>>
  /\ Ends(r)
  /\ UNCHANGED <<owner, public, started>>

\* Variant: the open pages are not told of a change.
ChangeCommitsSilently(r) ==
  /\ At(r, "commit") /\ run[r].kind \in {"change", "remove"}
  /\ LET w == run[r].ws  t == run[r].target IN
       IF role[w][t] = "none" THEN UNCHANGED <<role, madeBy, crossed>>
       ELSE Writes(r, w, t, IF run[r].kind = "change" THEN run[r].role ELSE "none")
  /\ Ends(r)
  /\ UNCHANGED <<owner, public, started, told>>

\* update or delete of the row the request named; 404 if it has gone.
ChangeCommits(r) ==
  /\ At(r, "commit") /\ run[r].kind \in {"change", "remove"}
  /\ LET w == run[r].ws  t == run[r].target IN
       IF role[w][t] = "none" THEN Ends(r) /\ UNCHANGED <<role, madeBy, crossed>>
       ELSE /\ Writes(r, w, t, IF run[r].kind = "change" THEN run[r].role ELSE "none")
            /\ Goes(r, "announce")
  /\ UNCHANGED <<owner, public, started, told>>

\* applyPageMembership
Announces(r) ==
  /\ At(r, "announce")
  /\ told' = [told EXCEPT ![run[r].ws][run[r].target] =
                IF run[r].kind = "change" THEN run[r].role ELSE "none"]
  /\ Ends(r)
  /\ UNCHANGED <<rows, started, madeBy, crossed>>

Next ==
  \E r \in Requests :
    \/ \E u \in Users : CreateCounts(r, u)
    \/ \E w \in Workspaces : CreateCommits(r, w)
    \/ \E u \in Users, w \in Workspaces :
         \/ \E kind \in {"update", "delete"} : OwnerAsks(r, u, w, kind)
         \/ \E kind \in {"add", "change", "remove"}, t \in Users, p \in Role :
              MemberAsks(r, kind, u, w, t, p)
    \/ UpdateCommits(r) \/ DeleteCommits(r) \/ TargetRead(r) \/ OwnerRead(r)
    \/ AddCommits(r) \/ ChangeCommits(r) \/ Announces(r)

Spec == Init /\ [][Next]_vars

-----------------------------------------------------------------------------
(* Properties                                                               *)

\* Every workspace has its founder, and nobody else, as OWNER, whatever changes
\* of role run against each other on roles read earlier.
OneOwner ==
  \A w \in Workspaces, u \in Users : role[w][u] = "OWNER" <=> owner[w] = u

\* Every ADMIN was made one by the owner, even where the request was checked
\* before other requests changed the roles of its actor and its target.
OwnerMakesAdmins ==
  \A w \in Workspaces, u \in Users : role[w][u] = "ADMIN" => madeBy[w][u] = owner[w]

\* The limit is counted before the create, so it can be exceeded, but only by
\* creates that run at the same time: by at most one for each further request.
Creating(u) == {r \in Requests : At(r, "create") /\ run[r].actor = u}

LimitHoldsButForOverlap ==
  \A u \in Users :
    Owned(u) # {} \/ Creating(u) # {} =>
      Cardinality(Owned(u)) + Cardinality(Creating(u))
        <= MaxWorkspaces + Cardinality(Requests) - 1

\* The open pages were last told the role that is in the database, once every
\* change of it is announced, unless two changes of one membership crossed.
PagesKnowTheRole ==
  \A w \in Workspaces, u \in Users : owner[w] # None =>
    \/ told[w][u] = role[w][u]
    \/ <<w, u>> \in crossed
    \/ \E r \in Requests : At(r, "announce") /\ run[r].ws = w /\ run[r].target = u
=============================================================================
