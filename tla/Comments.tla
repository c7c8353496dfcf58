------------------------------- MODULE Comments -------------------------------
(* Comments of a page: page-comments.service.ts, its access service, its     *)
(* repository and page-comments-realtime.service.ts.                         *)
(*                                                                           *)
(* A handler checks the page, reads the row and its author, writes, and only *)
(* after the answer of the database tells the sockets in the room of the     *)
(* page: two handlers may tell in the other order than they wrote.           *)
EXTENDS Naturals, FiniteSets

CONSTANTS
  CommentIds, Pages, Users, Bodies, None, Requests,
  MaxStarted,    \* bound on requests
  MaxTrash,      \* bound on what happens to pages
  MaxFailures    \* bound on emits that throw

ASSUME CommentsAssumption ==
  /\ MaxStarted \in Nat /\ MaxTrash \in Nat /\ MaxFailures \in Nat
  /\ None \notin CommentIds \cup Pages \cup Users \cup Bodies

VARIABLES
  row,        \* page_comments
  page,       \* "live", "trash" (it has a deletedAt) or "gone"
  run, started, trashings, failures,
  told,       \* what the last page:comment event of a comment says
  behind      \* comments whose last event was overtaken or lost

vars == <<row, page, run, started, trashings, failures, told, behind>>

NoRow == [page |-> None, author |-> None, body |-> None, resolvedBy |-> None]
Row == [page : Pages, author : Users, body : Bodies, resolvedBy : Users \cup {None}]
Ops == {"create", "update", "resolve", "reopen", "delete"}

Idle == [pc |-> "idle", op |-> "create", comment |-> None, page |-> None,
         actor |-> None, body |-> None, event |-> NoRow, overtaken |-> FALSE]

TypeOK ==
  /\ row \in [CommentIds -> Row \cup {NoRow}]
  /\ page \in [Pages -> {"live", "trash", "gone"}]
  /\ run \in [Requests ->
       [pc : {"idle", "check", "read", "write", "publish"}, op : Ops,
        comment : CommentIds \cup {None}, page : Pages \cup {None},
        actor : Users \cup {None}, body : Bodies \cup {None},
        event : Row \cup {NoRow}, overtaken : BOOLEAN]]
  /\ started \in 0..MaxStarted /\ trashings \in 0..MaxTrash
  /\ failures \in 0..MaxFailures
  /\ told \in [CommentIds -> Row \cup {NoRow}] /\ behind \in SUBSET CommentIds

Init ==
  /\ row = [c \in CommentIds |-> NoRow] /\ page = [p \in Pages |-> "live"]
  /\ run = [r \in Requests |-> Idle]
  /\ started = 0 /\ trashings = 0 /\ failures = 0
  /\ told = [c \in CommentIds |-> NoRow] /\ behind = {}

At(r, pc) == run[r].pc = pc
Goes(r, pc) == run' = [run EXCEPT ![r].pc = pc]
Ends(r) == run' = [run EXCEPT ![r] = Idle]

-----------------------------------------------------------------------------

\* A new comment has a new id; the others name one, of the page or not.
Asked(r, op, c, p, u, b) ==
  /\ At(r, "idle") /\ started < MaxStarted /\ started' = started + 1
  /\ op = "create" => row[c] = NoRow /\ told[c] = NoRow /\ c \notin behind
                      /\ \A q \in Requests : run[q].comment # c
  /\ op \notin {"create", "update"} => b = CHOOSE x \in Bodies : TRUE
  /\ run' = [run EXCEPT ![r] = [Idle EXCEPT !.pc = "check", !.op = op, !.comment = c,
               !.page = p, !.actor = u, !.body = b]]
  /\ UNCHANGED <<row, page, trashings, failures, told, behind>>

assertActivePage(r) ==
  /\ At(r, "check")
  /\ IF page[run[r].page] # "live" THEN Ends(r)
     ELSE IF run[r].op \in {"update", "delete"} THEN Goes(r, "read") ELSE Goes(r, "write")
  /\ UNCHANGED <<row, page, started, trashings, failures, told, behind>>

\* findByIdAndPageId and assertAuthor: 404, 403.
assertAuthor(r) ==
  LET c == run[r].comment IN
  /\ At(r, "read")
  /\ IF row[c].page = run[r].page /\ row[c].author = run[r].actor
       THEN Goes(r, "write") ELSE Ends(r)
  /\ UNCHANGED <<row, page, started, trashings, failures, told, behind>>

\* Who has written the comment before and has not told yet is overtaken.
Wrote(r, after) ==
  /\ row' = [row EXCEPT ![run[r].comment] = after]
  /\ run' = [q \in Requests |->
       IF q = r THEN [run[r] EXCEPT !.pc = "publish", !.event = after]
       ELSE IF At(q, "publish") /\ run[q].comment = run[r].comment
         THEN [run[q] EXCEPT !.overtaken = TRUE] ELSE run[q]]

\* The foreign key of a page that is gone: 400.
CreateWrites(r) ==
  /\ At(r, "write") /\ run[r].op = "create"
  /\ IF page[run[r].page] = "gone" THEN Ends(r) /\ UNCHANGED row
     ELSE Wrote(r, [page |-> run[r].page, author |-> run[r].actor,
                    body |-> run[r].body, resolvedBy |-> None])
  /\ UNCHANGED <<page, started, trashings, failures, told, behind>>

\* Variant: a delete leaves an empty row behind.
ChangedSoftly(r, old) ==
  CASE run[r].op = "update"  -> [old EXCEPT !.body = run[r].body]
    [] run[r].op = "resolve" -> [old EXCEPT !.resolvedBy = run[r].actor]
    [] run[r].op = "reopen"  -> [old EXCEPT !.resolvedBy = None]
    [] run[r].op = "delete"  -> [NoRow EXCEPT !.page = old.page]

Changed(r, old) ==
  CASE run[r].op = "update"  -> [old EXCEPT !.body = run[r].body]
    [] run[r].op = "resolve" -> [old EXCEPT !.resolvedBy = run[r].actor]
    [] run[r].op = "reopen"  -> [old EXCEPT !.resolvedBy = None]
    [] run[r].op = "delete"  -> NoRow

\* One UPDATE or DELETE by id and page, which returns the row as it is then; 404.
ChangeWrites(r) ==
  LET c == run[r].comment IN
  /\ At(r, "write") /\ run[r].op # "create"
  /\ IF row[c].page = run[r].page THEN Wrote(r, Changed(r, row[c]))
     ELSE Ends(r) /\ UNCHANGED row
  /\ UNCHANGED <<page, started, trashings, failures, told, behind>>

\* Variant: the event says what the request was asked for, not what it wrote.
EventOfAsked(r) ==
  IF run[r].op = "update" THEN [run[r].event EXCEPT !.resolvedBy = None] ELSE run[r].event

Event(r) == run[r].event

Publishes(r) ==
  LET c == run[r].comment IN
  /\ At(r, "publish") /\ Ends(r)
  /\ told' = [told EXCEPT ![c] = Event(r)]
  /\ behind' = IF run[r].overtaken THEN behind \cup {c} ELSE behind \ {c}
  /\ UNCHANGED <<row, page, started, trashings, failures>>

\* safeEmit: the listener throws, the request has its answer all the same.
EmitFails(r) ==
  /\ At(r, "publish") /\ failures < MaxFailures /\ failures' = failures + 1
  /\ Ends(r) /\ behind' = behind \cup {run[r].comment}
  /\ UNCHANGED <<row, page, started, trashings, told>>

\* Trash, restore and hard delete, which takes the comments along and tells
\* nobody.
PageChanges(p, to) ==
  /\ page[p] # "gone" /\ page[p] # to /\ trashings < MaxTrash
  /\ trashings' = trashings + 1 /\ page' = [page EXCEPT ![p] = to]
  /\ LET lost == {c \in CommentIds : to = "gone" /\ row[c].page = p} IN
     /\ row' = [c \in CommentIds |-> IF c \in lost THEN NoRow ELSE row[c]]
     /\ behind' = behind \cup lost
     /\ run' = [q \in Requests |->
          IF At(q, "publish") /\ run[q].comment \in lost
            THEN [run[q] EXCEPT !.overtaken = TRUE] ELSE run[q]]
  /\ UNCHANGED <<started, failures, told>>

Next ==
  \/ \E r \in Requests :
       \/ \E op \in Ops, c \in CommentIds, p \in Pages, u \in Users, b \in Bodies :
            Asked(r, op, c, p, u, b)
       \/ assertActivePage(r) \/ assertAuthor(r)
       \/ CreateWrites(r) \/ ChangeWrites(r)
       \/ Publishes(r) \/ EmitFails(r)
  \/ \E p \in Pages, to \in {"live", "trash", "gone"} : PageChanges(p, to)

Spec == Init /\ [][Next]_vars

-----------------------------------------------------------------------------

\* Whoever has the page open ends up with the comment as it is stored: the last
\* event of a comment says what its row says, once those who wrote it have told,
\* unless that event was overtaken by another write or failed to go out.
LastEventTellsRow ==
  \A c \in CommentIds :
    \/ told[c] = row[c] \/ c \in behind
    \/ \E r \in Requests : At(r, "publish") /\ run[r].comment = c
=============================================================================
