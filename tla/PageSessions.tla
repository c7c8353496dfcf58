---------------------------- MODULE PageSessions ----------------------------
(***************************************************************************)
(* Who is on which page: PagesGateway and the socket half of               *)
(* PagesYjsService.  Every socket has a queue of tasks (its own events, its *)
(* disconnect, membership changes aimed at it); the tasks of one socket run *)
(* one after the other, those of different sockets interleave at every      *)
(* await.  A task that has joined holds a reference on the page's live      *)
(* document, which is kept here as absent, loading or live (LiveDoc says    *)
(* what happens inside).                                                    *)
(*                                                                         *)
(* An await that may or may not leave the turn (the release of a document)  *)
(* is modelled as leaving it.                                               *)
(***************************************************************************)
EXTENDS Naturals, FiniteSets, Sequences, SequencesExt

CONSTANTS
  Sockets,      \* socket connections; a socket never reconnects under its id
  Pages,        \* pages of one workspace
  Users,
  UserOf,       \* the user authenticated on a socket
  MaxQueue,     \* bound: client events waiting in the queue of a socket
  MaxChanges    \* bound: membership changes

Roles == {"none", "viewer", "editor"}

ASSUME UserOfAssumption == UserOf \in [Sockets -> Users]
ASSUME FiniteAssumption == IsFiniteSet(Sockets)
ASSUME PagesAssumption == Pages # {}
ASSUME BoundsAssumption == MaxQueue \in Nat /\ MaxChanges \in Nat

VARIABLES
  role,         \* workspace_members: user -> role, "none" when not a member
  notes,        \* committed membership changes whose handler has yet to call
                \* applyMembership
  changes,      \* bound counter
  connected,    \* client.connected
  queue,        \* socketTasks: the head is the task under way
  run,          \* where the task under way is
  socketPages,  \* socket -> pages joined
  presence,     \* page -> sockets shown on it
  pageWorkspace,\* pages with a known workspace
  editors,      \* <<socket, page>> allowed to edit
  cursors,      \* <<socket, page>> with awareness state
  room,         \* page -> sockets in its Socket.IO room
  doc,          \* page -> live document of the page
  refs          \* page -> reference count of the live document

sessionVars == <<socketPages, presence, pageWorkspace, editors, cursors>>
docVars == <<doc, refs>>
memberVars == <<role, notes, changes>>
vars == <<memberVars, connected, queue, run, sessionVars, room, docVars>>

-----------------------------------------------------------------------------
(* Types                                                                    *)

ClientKinds == {"join", "leave", "update", "cursor"}

Task == [kind : ClientKinds \cup {"member", "disconnect"},
         page : Pages, role : Roles]

AnyPage == CHOOSE p \in Pages : TRUE

Run == [pc : {"idle", "auth", "authed", "loading", "releasing", "dropping"},
        already : BOOLEAN, access : Roles, pages : SUBSET Pages]

Resting == [pc |-> "idle", already |-> FALSE, access |-> "none", pages |-> {}]

-----------------------------------------------------------------------------

Init ==
  /\ role \in [Users -> {"viewer", "editor"}]
  /\ notes = {}
  /\ changes = 0
  /\ connected = [s \in Sockets |-> TRUE]
  /\ queue = [s \in Sockets |-> <<>>]
  /\ run = [s \in Sockets |-> Resting]
  /\ socketPages = [s \in Sockets |-> {}]
  /\ presence = [p \in Pages |-> {}]
  /\ pageWorkspace = {}
  /\ editors = {}
  /\ cursors = {}
  /\ room = [p \in Pages |-> {}]
  /\ doc = [p \in Pages |-> "absent"]
  /\ refs = [p \in Pages |-> 0]

-----------------------------------------------------------------------------
(* The socket's queue                                                       *)

\* The task under way ends: the next one may start.
End(s) ==
  /\ queue' = [queue EXCEPT ![s] = Tail(@)]
  /\ run' = [run EXCEPT ![s] = Resting]

Goto(s, pc) ==
  /\ run' = [run EXCEPT ![s].pc = pc]
  /\ UNCHANGED queue

\* A client event is queued on its socket.
ClientSends(s) ==
  /\ connected[s]
  /\ Len(queue[s]) < MaxQueue
  /\ \E k \in ClientKinds, p \in Pages :
       queue' = [queue EXCEPT ![s] = Append(@, [kind |-> k, page |-> p, role |-> "none"])]
  /\ UNCHANGED <<memberVars, connected, run, sessionVars, room, docVars>>

\* The socket dies: Socket.IO takes it out of its rooms, handleDisconnect is
\* queued behind the tasks already waiting.
Disconnects(s) ==
  /\ connected[s]
  /\ connected' = [connected EXCEPT ![s] = FALSE]
  /\ room' = [p \in Pages |-> room[p] \ {s}]
  /\ queue' = [queue EXCEPT ![s] =
       Append(@, [kind |-> "disconnect", page |-> AnyPage, role |-> "none"])]
  /\ UNCHANGED <<memberVars, run, sessionVars, docVars>>

-----------------------------------------------------------------------------
(* Effects shared by leave, dropSocket, disconnect and abandonJoin          *)

\* Variant: the page's workspace is forgotten with any socket.
RemoveFromPageForgets(s, p) ==
  /\ presence' = [presence EXCEPT ![p] = @ \ {s}]
  /\ pageWorkspace' = pageWorkspace \ {p}

\* removeFromPage: the page's workspace is forgotten with its last socket.
RemoveFromPage(s, p) ==
  /\ presence' = [presence EXCEPT ![p] = @ \ {s}]
  /\ pageWorkspace' = IF presence[p] \subseteq {s} THEN pageWorkspace \ {p}
                      ELSE pageWorkspace

\* release: one reference less; what follows waits for the flush.
Release(p) ==
  /\ refs' = [refs EXCEPT ![p] = IF @ = 0 THEN 0 ELSE @ - 1]
  /\ UNCHANGED doc

\* Variant: the same on a counter that may pass zero.
LeavePageUncounted(s, p) ==
  /\ room' = [room EXCEPT ![p] = @ \ {s}]
  /\ socketPages' = [socketPages EXCEPT ![s] = @ \ {p}]
  /\ editors' = editors \ {<<s, p>>}
  /\ cursors' = cursors \ {<<s, p>>}
  /\ RemoveFromPage(s, p)
  /\ refs' = [refs EXCEPT ![p] = @ - 1]
  /\ Goto(s, "releasing")
  /\ UNCHANGED doc

\* Variant: a leave that keeps the right to edit.
LeavePageKeepsRight(s, p) ==
  /\ room' = [room EXCEPT ![p] = @ \ {s}]
  /\ socketPages' = [socketPages EXCEPT ![s] = @ \ {p}]
  /\ RemoveFromPage(s, p)
  /\ IF p \in socketPages[s]
     THEN /\ cursors' = cursors \ {<<s, p>>}
          /\ Release(p) /\ Goto(s, "releasing")
     ELSE UNCHANGED <<cursors, docVars>> /\ End(s)
  /\ UNCHANGED editors

\* leave and dropSocket: out of the room, the session state of the pair goes,
\* and a socket that had joined gives its reference back.
LeavePage(s, p) ==
  /\ room' = [room EXCEPT ![p] = @ \ {s}]
  /\ socketPages' = [socketPages EXCEPT ![s] = @ \ {p}]
  /\ editors' = editors \ {<<s, p>>}
  /\ RemoveFromPage(s, p)
  /\ IF p \in socketPages[s]
     THEN /\ cursors' = cursors \ {<<s, p>>}
          /\ Release(p) /\ Goto(s, "releasing")
     ELSE UNCHANGED <<cursors, docVars>> /\ End(s)

\* The release awaited by the task has ended.
ReleaseEnds(s) ==
  /\ run[s].pc = "releasing"
  /\ End(s)
  /\ UNCHANGED <<memberVars, connected, sessionVars, room, docVars>>

-----------------------------------------------------------------------------
(* A task starts                                                            *)

Ready(s, kind) ==
  /\ run[s].pc = "idle"
  /\ queue[s] # <<>>
  /\ Head(queue[s]).kind = kind

\* join: who is joining is read before the first await.
JoinStarts(s) ==
  /\ Ready(s, "join")
  /\ IF connected[s]
     THEN /\ run' = [run EXCEPT ![s].pc = "auth",
                                ![s].already = Head(queue[s]).page \in socketPages[s]]
          /\ UNCHANGED queue
     ELSE End(s)
  /\ UNCHANGED <<memberVars, connected, sessionVars, room, docVars>>

LeaveStarts(s) ==
  /\ Ready(s, "leave")
  /\ LeavePage(s, Head(queue[s]).page)
  /\ UNCHANGED <<memberVars, connected>>

\* yjs:update and yjs:awareness are for joined sockets; both re-authorize.
EventStarts(s) ==
  /\ Ready(s, "update") \/ Ready(s, "cursor")
  /\ IF Head(queue[s]).page \in socketPages[s] THEN Goto(s, "auth") ELSE End(s)
  /\ UNCHANGED <<memberVars, connected, sessionVars, room, docVars>>

\* The task of applyMembership for one socket and page.
MemberStarts(s) ==
  /\ Ready(s, "member")
  /\ LET p == Head(queue[s]).page
         r == Head(queue[s]).role
     IN IF s \in presence[p] /\ r = "none"
        THEN LeavePage(s, p)
        ELSE /\ editors' = IF s \notin presence[p] THEN editors
                           ELSE IF r = "editor" THEN editors \cup {<<s, p>>}
                           ELSE editors \ {<<s, p>>}
             /\ End(s)
             /\ UNCHANGED <<socketPages, presence, pageWorkspace, cursors, room,
                            docVars>>
  /\ UNCHANGED <<memberVars, connected>>

\* One page of a dead socket; the release is awaited before the next page.
Drop(s, p, others) ==
  /\ editors' = editors \ {<<s, p>>}
  /\ cursors' = cursors \ {<<s, p>>}
  /\ RemoveFromPage(s, p)
  /\ Release(p)
  /\ run' = [run EXCEPT ![s].pc = "dropping", ![s].pages = others]
  /\ UNCHANGED queue

\* disconnect: all pages of the socket go off the map at once ...
DisconnectStarts(s) ==
  /\ Ready(s, "disconnect")
  /\ socketPages' = [socketPages EXCEPT ![s] = {}]
  /\ \/ \E p \in socketPages[s] : Drop(s, p, socketPages[s] \ {p})
     \/ /\ socketPages[s] = {}
        /\ End(s)
        /\ UNCHANGED <<presence, pageWorkspace, editors, cursors, docVars>>
  /\ UNCHANGED <<memberVars, connected, room>>

\* Variant: the release that fails ends the loop.
DisconnectDropsStops(s) ==
  /\ run[s].pc = "dropping" /\ run[s].pages # {}
  /\ End(s)
  /\ UNCHANGED <<memberVars, connected, sessionVars, room, docVars>>

\* ... and are left one by one.
DisconnectDrops(s) ==
  /\ run[s].pc = "dropping"
  /\ \E p \in run[s].pages : Drop(s, p, run[s].pages \ {p})
  /\ UNCHANGED <<memberVars, connected, socketPages, room>>

DisconnectEnds(s) ==
  /\ run[s].pc = "dropping" /\ run[s].pages = {}
  /\ End(s)
  /\ UNCHANGED <<memberVars, connected, sessionVars, room, docVars>>

-----------------------------------------------------------------------------
(* authorize                                                                *)

\* The database answers with the role of the moment, or with no access: not a
\* member, the page in the trash, or a database error.
AuthorizeReads(s) ==
  /\ run[s].pc = "auth"
  /\ \E access \in {role[UserOf[s]], "none"} :
       run' = [run EXCEPT ![s].pc = "authed", ![s].access = access]
  /\ UNCHANGED <<memberVars, connected, queue, sessionVars, room, docVars>>

\* Whoever lost access leaves the page; others who are gone do nothing.
Refused(s) ==
  /\ run[s].pc = "authed"
  /\ LET p == Head(queue[s]).page IN
     IF connected[s] /\ p \in socketPages[s]
     THEN LeavePage(s, p)
     ELSE End(s) /\ UNCHANGED <<sessionVars, room, docVars>>
  /\ ~connected[s] \/ run[s].access = "none"
  /\ UNCHANGED <<memberVars, connected>>

Granted(s, kind) ==
  /\ run[s].pc = "authed"
  /\ connected[s]
  /\ run[s].access # "none"
  /\ Head(queue[s]).kind = kind

\* setCanEdit with the role just read, then the edit goes to the document.
UpdateGranted(s) ==
  /\ Granted(s, "update")
  /\ LET pair == <<s, Head(queue[s]).page>>
     IN editors' = IF run[s].access = "editor" THEN editors \cup {pair}
                   ELSE editors \ {pair}
  /\ End(s)
  /\ UNCHANGED <<memberVars, connected, socketPages, presence, pageWorkspace,
                 cursors, room, docVars>>

\* applyAwareness: the cursor is kept with the live document.
CursorGranted(s) ==
  /\ Granted(s, "cursor")
  /\ LET p == Head(queue[s]).page
     IN cursors' = IF doc[p] = "live" THEN cursors \cup {<<s, p>>} ELSE cursors
  /\ End(s)
  /\ UNCHANGED <<memberVars, connected, socketPages, presence, pageWorkspace,
                 editors, room, docVars>>

-----------------------------------------------------------------------------
(* join after authorize                                                     *)

\* The last turn of join for the sockets S that wait for page p: rights,
\* workspace, presence and the socket's pages are written together.
Register(S, p) ==
  /\ editors' = (editors \ (S \X {p})) \cup
                ({s \in S : run[s].access = "editor"} \X {p})
  /\ presence' = [presence EXCEPT ![p] = @ \cup S]
  /\ socketPages' = [s \in Sockets |-> IF s \in S THEN socketPages[s] \cup {p}
                                       ELSE socketPages[s]]
  /\ pageWorkspace' = IF S = {} THEN pageWorkspace ELSE pageWorkspace \cup {p}

\* The room is joined, then the document is acquired, or only read by a socket
\* that had joined before.  On a loaded page join ends in the same turn.
JoinGranted(s) ==
  /\ Granted(s, "join")
  /\ LET p == Head(queue[s]).page IN
     /\ room' = [room EXCEPT ![p] = @ \cup {s}]
     /\ IF doc[p] = "live"
        THEN /\ refs' = [refs EXCEPT ![p] = IF run[s].already THEN @ ELSE @ + 1]
             /\ Register({s}, p)
             /\ End(s)
             /\ UNCHANGED <<doc, cursors>>
        ELSE /\ doc' = [doc EXCEPT ![p] = "loading"]
             /\ Goto(s, "loading")
             /\ UNCHANGED <<refs, sessionVars>>
  /\ UNCHANGED <<memberVars, connected>>

Waiting(p) == {s \in Sockets : run[s].pc = "loading" /\ Head(queue[s]).page = p}

EndAll(S, R) ==
  /\ queue' = [s \in Sockets |-> IF s \in S THEN Tail(queue[s]) ELSE queue[s]]
  /\ run' = [s \in Sockets |-> IF s \in S THEN Resting
                               ELSE IF s \in R THEN [run[s] EXCEPT !.pc = "releasing"]
                               ELSE run[s]]

\* Variant: a join whose socket died while the document was loading returns
\* without giving its reference back.
LoadEndsNoAbandon(p) ==
  /\ doc[p] = "loading"
  /\ LET joined == {s \in Waiting(p) : connected[s]}
         fresh == {s \in Waiting(p) : ~run[s].already}
     IN /\ Register(joined, p)
        /\ refs' = [refs EXCEPT ![p] = Cardinality(fresh)]
        /\ EndAll(Waiting(p), {})
  /\ doc' = [doc EXCEPT ![p] = "live"]
  /\ UNCHANGED <<memberVars, connected, cursors, room>>

\* The document is loaded: every join waiting for it takes its reference; those
\* still connected register, the others give the reference back (abandonJoin).
LoadEnds(p) ==
  /\ doc[p] = "loading"
  /\ LET joined == {s \in Waiting(p) : connected[s]}
         abandoned == {s \in Waiting(p) : ~connected[s] /\ ~run[s].already}
         fresh == {s \in joined : ~run[s].already}
     IN /\ Register(joined, p)
        /\ refs' = [refs EXCEPT ![p] = Cardinality(fresh)]
        /\ EndAll(Waiting(p) \ abandoned, abandoned)
  /\ doc' = [doc EXCEPT ![p] = "live"]
  /\ UNCHANGED <<memberVars, connected, cursors, room>>

\* Variant: the sockets stay in the room of a page that could not be loaded.
LoadFailsInRoom(p) ==
  /\ doc[p] = "loading"
  /\ doc' = [doc EXCEPT ![p] = "absent"]
  /\ EndAll(Waiting(p), {})
  /\ UNCHANGED <<memberVars, connected, sessionVars, room, refs>>

\* The load fails: the joins waiting for it leave the room and end.
LoadFails(p) ==
  /\ doc[p] = "loading"
  /\ doc' = [doc EXCEPT ![p] = "absent"]
  /\ room' = [room EXCEPT ![p] = @ \ {s \in Waiting(p) : ~run[s].already}]
  /\ EndAll(Waiting(p), {})
  /\ UNCHANGED <<memberVars, connected, sessionVars, refs>>

\* A document nobody holds is unloaded (LiveDoc says when), its cursors with it.
Unloads(p) ==
  /\ doc[p] = "live" /\ refs[p] = 0
  /\ doc' = [doc EXCEPT ![p] = "absent"]
  /\ cursors' = cursors \ (Sockets \X {p})
  /\ UNCHANGED <<memberVars, connected, queue, run, socketPages, presence,
                 pageWorkspace, editors, room, refs>>

-----------------------------------------------------------------------------
(* Membership                                                               *)

\* The database commits a role change, a removal or a new membership.  Only the
\* first two go on to applyMembership.
RoleChanges(u, r) ==
  /\ changes < MaxChanges
  /\ r # role[u]
  /\ role' = [role EXCEPT ![u] = r]
  /\ notes' = IF role[u] = "none" THEN notes
              ELSE notes \cup {[user |-> u, role |-> r, nr |-> changes]}
  /\ changes' = changes + 1
  /\ UNCHANGED <<connected, queue, run, sessionVars, room, docVars>>

\* The pages of socket s that applyMembership finds for user u.
Targets(s, u) ==
  {p \in pageWorkspace : s \in presence[p] /\ UserOf[s] = u}

\* applyMembership: presence is scanned now, a task is queued on every socket
\* found, one per page.
MembershipApplied(note) ==
  /\ note \in notes
  /\ notes' = notes \ {note}
  /\ queue' = [s \in Sockets |->
       LET pages == SetToSeq(Targets(s, note.user))
       IN queue[s] \o [k \in DOMAIN pages |->
            [kind |-> "member", page |-> pages[k], role |-> note.role]]]
  /\ UNCHANGED <<role, changes, connected, run, sessionVars, room, docVars>>

-----------------------------------------------------------------------------

Starts(s) ==
  JoinStarts(s) \/ LeaveStarts(s) \/ EventStarts(s) \/ MemberStarts(s)
    \/ DisconnectStarts(s)

Goes(s) ==
  \/ AuthorizeReads(s) \/ Refused(s)
  \/ UpdateGranted(s) \/ CursorGranted(s) \/ JoinGranted(s)
  \/ ReleaseEnds(s) \/ DisconnectDrops(s) \/ DisconnectEnds(s)

Next ==
  \/ \E s \in Sockets : ClientSends(s) \/ Disconnects(s) \/ Starts(s) \/ Goes(s)
  \/ \E p \in Pages : LoadEnds(p) \/ LoadFails(p) \/ Unloads(p)
  \/ \E u \in Users, r \in Roles : RoleChanges(u, r)
  \/ \E note \in notes : MembershipApplied(note)

Spec == Init /\ [][Next]_vars

\* The event loop runs queued tasks, the database and the document loads
\* answer.  Clients need not do anything.
Fairness ==
  /\ \A s \in Sockets : WF_vars(Starts(s) \/ Goes(s))
  /\ \A p \in Pages : WF_vars(LoadEnds(p) \/ LoadFails(p))
  /\ WF_vars(\E note \in notes : MembershipApplied(note))

FairSpec == Spec /\ Fairness

-----------------------------------------------------------------------------
(* Properties                                                               *)

\* Types of the variables.
TypeOK ==
  /\ role \in [Users -> Roles]
  /\ notes \in SUBSET [user : Users, role : Roles, nr : Nat]
  /\ changes \in 0..MaxChanges
  /\ connected \in [Sockets -> BOOLEAN]
  /\ queue \in [Sockets -> Seq(Task)]
  /\ run \in [Sockets -> Run]
  /\ socketPages \in [Sockets -> SUBSET Pages]
  /\ presence \in [Pages -> SUBSET Sockets]
  /\ pageWorkspace \in SUBSET Pages
  /\ editors \in SUBSET (Sockets \X Pages)
  /\ cursors \in SUBSET (Sockets \X Pages)
  /\ room \in [Pages -> SUBSET Sockets]
  /\ doc \in [Pages -> {"absent", "loading", "live"}]
  /\ refs \in [Pages -> Nat]

\* Sockets whose disconnect has yet to leave p.
Dropping(p) == {s \in Sockets : p \in run[s].pages}

Joined(p) == {s \in Sockets : p \in socketPages[s]}

\* pages.gateway.ts:56-57: the document's counter and the list of participants
\* change together.  The counter is the number of sockets on the page, joined or
\* about to be dropped, through every interleaving of joins, repeated joins,
\* leaves, disconnects and membership changes; no reference leaks, none is
\* given back twice.  So a joined page has its document in memory: an update or
\* a cursor that passes the checks always finds it.
RefsCountSessions ==
  \A p \in Pages :
    /\ refs[p] = Cardinality(Joined(p) \cup Dropping(p))
    /\ Joined(p) # {} => doc[p] = "live"

\* The participants shown are the sockets on the page, and a page with
\* participants has its workspace on record, so that applyMembership finds them.
PresenceMatchesSessions ==
  \A p \in Pages : /\ presence[p] = Joined(p) \cup Dropping(p)
                   /\ p \in pageWorkspace <=> presence[p] # {}

\* Rights and cursors do not outlive the session they were given to.
RightsEndWithSession ==
  \A s \in Sockets, p \in Pages :
    <<s, p>> \in editors \cup cursors => s \in presence[p]

\* A socket in the room of a page is alive and on the page, or in the middle of
\* joining it: nobody keeps receiving a page he has left.
RoomIsForSessions ==
  \A s \in Sockets, p \in Pages :
    s \in room[p] => /\ connected[s]
                     /\ p \in socketPages[s] \/ s \in Waiting(p)

\* Whoever has left a page, was removed from it or died has no right, no cursor
\* and no place in its room left, in whatever order that met his joins.
NothingOutlivesSession == RightsEndWithSession /\ RoomIsForSessions

\* Where a socket is with p, as the live document of p sees it.  A socket that
\* died while the document was loading has given up: the reference it gets is
\* given back in the same turn.  A release takes effect when it is called.
LeaseOf(s, p) ==
  IF s \in Joined(p) \cup Dropping(p) THEN "in"
  ELSE IF s \in Waiting(p) /\ connected[s] THEN "opening" ELSE "out"

Lease(p) == INSTANCE PageLease WITH
  Holders <- Sockets, lease <- [s \in Sockets |-> LeaseOf(s, p)],
  loaded <- (doc[p] = "live")

\* The sockets are lessees of the live document of every page: they ask for no
\* more than PageLease allows, and rely on no more than it promises.
SocketsAreLessees == \A p \in Pages : Lease(p)!Spec

\* Socket s is on no page, nor about to be dropped from one.
Forgotten(s) == \A p \in Pages : s \notin presence[p] \cup Joined(p) \cup Dropping(p)

\* A dead socket ends up on no page, whatever was queued before it died.
DeadSocketIsForgotten == \A s \in Sockets : ~connected[s] ~> []Forgotten(s)

=============================================================================
