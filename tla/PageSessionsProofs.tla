------------------------- MODULE PageSessionsProofs -------------------------
(* Who is on which page, for every value of PageSessions' constants: any    *)
(* number of sockets, pages and waiting tasks.                              *)
EXTENDS PageSessions, FiniteSetTheorems, SequenceTheorems, TLAPS

-----------------------------------------------------------------------------
(* The inductive invariant                                                  *)

\* A disconnect is queued when the socket dies.
HoldsDisconnect(q) == \E i \in 1..Len(q) : q[i].kind = "disconnect"

\* A task under way is the head of its queue; only the disconnect of a dead
\* socket, which is on no page any more, has pages to drop.
AtHead(s) ==
  /\ run[s].pc # "idle" => queue[s] # <<>>
  /\ HoldsDisconnect(queue[s]) => ~connected[s]
  /\ run[s].pc = "dropping" => ~connected[s] /\ socketPages[s] = {}
  /\ run[s].pages # {} => run[s].pc = "dropping"

\* What a task read before its await is still so after it: nobody but the tasks
\* of a socket changes its pages.
StillSo(s) ==
  LET task == Head(queue[s]) IN
  /\ run[s].pc \in {"auth", "authed"} =>
       task.kind \in {"join", "update", "cursor"}
         /\ (task.kind # "join" => task.page \in socketPages[s])
  /\ run[s].pc \in {"auth", "authed"} /\ task.kind = "join" =>
       (run[s].already <=> task.page \in socketPages[s])
  /\ run[s].pc = "loading" =>
       task.kind = "join" /\ doc[task.page] = "loading" /\ ~run[s].already

TasksSound == \A s \in Sockets : AtHead(s) /\ StillSo(s)

\* The sockets on a page.  They keep it in memory, and are counted.
OnPage(p) == Joined(p) \cup Dropping(p)

HeldIsLive == \A p \in Pages : OnPage(p) # {} => doc[p] = "live"

CountsSessions == \A p \in Pages : refs[p] = Cardinality(OnPage(p))

PInv ==
  /\ TypeOK /\ IsFiniteSet(pageWorkspace)
  /\ TasksSound
  /\ HeldIsLive /\ CountsSessions
  /\ PresenceMatchesSessions /\ RightsEndWithSession /\ RoomIsForSessions

-----------------------------------------------------------------------------
(* Queues of tasks                                                          *)

LEMMA QueueTail ==
  ASSUME NEW q \in Seq(Task), q # <<>>
  PROVE  /\ Head(q) \in Task /\ Tail(q) \in Seq(Task)
         /\ HoldsDisconnect(Tail(q)) => HoldsDisconnect(q)
         /\ Head(q).kind = "disconnect" => HoldsDisconnect(q)
<1>1. Len(q) \in Nat /\ Len(q) > 0 /\ Head(q) = q[1] /\ q[1] \in Task
  OBVIOUS
<1>2. Tail(q) \in Seq(Task) /\ Len(Tail(q)) = Len(q) - 1
      /\ \A i \in 1..Len(Tail(q)) : Tail(q)[i] = q[i + 1]
  OBVIOUS
<1>3. HoldsDisconnect(Tail(q)) => HoldsDisconnect(q)
  <2> SUFFICES ASSUME NEW i \in 1..Len(Tail(q)), Tail(q)[i].kind = "disconnect"
               PROVE  HoldsDisconnect(q)
    BY DEF HoldsDisconnect
  <2>1. i + 1 \in 1..Len(q) /\ q[i + 1].kind = "disconnect"
    BY <1>1, <1>2
  <2> QED
    BY <2>1 DEF HoldsDisconnect
<1>4. Head(q).kind = "disconnect" => HoldsDisconnect(q)
  BY <1>1 DEF HoldsDisconnect
<1> QED
  BY <1>1, <1>2, <1>3, <1>4

LEMMA QueueAppend ==
  ASSUME NEW q \in Seq(Task), NEW t \in Task
  PROVE  /\ Append(q, t) \in Seq(Task) /\ Append(q, t) # <<>>
         /\ q # <<>> => Head(Append(q, t)) = Head(q)
         /\ HoldsDisconnect(Append(q, t)) => HoldsDisconnect(q) \/ t.kind = "disconnect"
<1>1. /\ Append(q, t) \in Seq(Task) /\ Len(Append(q, t)) = Len(q) + 1 /\ Len(q) \in Nat
      /\ \A i \in 1..Len(q) : Append(q, t)[i] = q[i]
      /\ Append(q, t)[Len(q) + 1] = t
  OBVIOUS
<1>2. Append(q, t) # <<>>
  BY <1>1
<1>3. q # <<>> => Head(Append(q, t)) = Head(q)
  BY <1>1
<1>4. HoldsDisconnect(Append(q, t)) => HoldsDisconnect(q) \/ t.kind = "disconnect"
  BY <1>1 DEF HoldsDisconnect
<1> QED
  BY <1>1, <1>2, <1>3, <1>4

LEMMA QueueConcat ==
  ASSUME NEW q \in Seq(Task), NEW r \in Seq(Task),
         \A i \in 1..Len(r) : r[i].kind # "disconnect"
  PROVE  /\ q \o r \in Seq(Task)
         /\ q # <<>> => q \o r # <<>> /\ Head(q \o r) = Head(q)
         /\ HoldsDisconnect(q \o r) => HoldsDisconnect(q)
<1>1. /\ q \o r \in Seq(Task) /\ Len(q \o r) = Len(q) + Len(r)
      /\ Len(q) \in Nat /\ Len(r) \in Nat
      /\ \A i \in 1..(Len(q) + Len(r)) :
           (q \o r)[i] = IF i <= Len(q) THEN q[i] ELSE r[i - Len(q)]
  BY ConcatProperties
<1>2. q # <<>> => q \o r # <<>> /\ Head(q \o r) = Head(q)
  BY <1>1
<1>3. HoldsDisconnect(q \o r) => HoldsDisconnect(q)
  <2> SUFFICES ASSUME NEW i \in 1..(Len(q) + Len(r)), (q \o r)[i].kind = "disconnect"
               PROVE  HoldsDisconnect(q)
    BY <1>1 DEF HoldsDisconnect
  <2>1. CASE i <= Len(q)
    BY <1>1, <2>1 DEF HoldsDisconnect
  <2>2. CASE ~(i <= Len(q))
    <3>1. i - Len(q) \in 1..Len(r)
      BY <1>1, <2>2
    <3> QED
      BY <1>1, <2>2, <3>1
  <2> QED
    BY <2>1, <2>2
<1> QED
  BY <1>1, <1>2, <1>3

-----------------------------------------------------------------------------
(* Tasks                                                                    *)

LEMMA TaskOfSocket ==
  ASSUME PInv, NEW s \in Sockets, queue[s] # <<>>
  PROVE  /\ queue[s] \in Seq(Task) /\ Head(queue[s]) \in Task
         /\ Head(queue[s]).page \in Pages /\ Tail(queue[s]) \in Seq(Task)
         /\ run[s] \in Run
<1>1. queue[s] \in Seq(Task) /\ run[s] \in Run
  BY DEF PInv, TypeOK
<1>2. Head(queue[s]) \in Task /\ Tail(queue[s]) \in Seq(Task)
  BY <1>1, QueueTail
<1>3. Head(queue[s]).page \in Pages
  BY <1>2 DEF Task
<1> QED
  BY <1>1, <1>2, <1>3

\* A socket whose task and pages stay has the same facts to rely on.
LEMMA SocketStays ==
  ASSUME PInv, NEW x \in Sockets, run'[x] = run[x], queue'[x] = queue[x],
         connected'[x] = connected[x], socketPages'[x] = socketPages[x],
         \A p \in Pages : doc[p] = "loading" => doc'[p] = "loading"
  PROVE  AtHead(x)' /\ StillSo(x)'
<1>1. AtHead(x) /\ StillSo(x)
  BY DEF PInv, TasksSound
<1>2. AtHead(x)'
  BY <1>1 DEF AtHead
<1>3. run[x].pc # "idle" => Head(queue[x]).page \in Pages
  BY <1>1, TaskOfSocket DEF AtHead
<1>4. StillSo(x)'
  BY <1>1, <1>3 DEF StillSo
<1> QED
  BY <1>2, <1>4

\* A task that ends leaves the next one to start.
LEMMA TaskEnds ==
  ASSUME PInv, NEW s \in Sockets, queue[s] # <<>>, queue'[s] = Tail(queue[s]),
         run'[s] = Resting, connected'[s] = connected[s]
  PROVE  AtHead(s)' /\ StillSo(s)'
<1>1. AtHead(s) /\ queue[s] \in Seq(Task)
  BY TaskOfSocket DEF PInv, TasksSound
<1>2. HoldsDisconnect(queue'[s]) => HoldsDisconnect(queue[s])
  BY <1>1, QueueTail
<1> QED
  BY <1>1, <1>2 DEF AtHead, StillSo, Resting

\* One task goes on, in its place or to its end, and the others stand.
LEMMA OneTaskMoves ==
  ASSUME PInv, NEW s \in Sockets, UNCHANGED connected,
         \A x \in Sockets \ {s} : run'[x] = run[x] /\ queue'[x] = queue[x]
                                  /\ socketPages'[x] = socketPages[x],
         \A p \in Pages : doc[p] = "loading" => doc'[p] = "loading",
         AtHead(s)' /\ StillSo(s)'
  PROVE  TasksSound'
BY SocketStays DEF TasksSound

LEMMA EndType ==
  ASSUME PInv, NEW s \in Sockets, queue[s] # <<>>, End(s)
  PROVE  /\ queue' \in [Sockets -> Seq(Task)] /\ run' \in [Sockets -> Run]
         /\ queue'[s] = Tail(queue[s]) /\ run'[s] = Resting
         /\ \A x \in Sockets \ {s} : run'[x] = run[x] /\ queue'[x] = queue[x]
<1>1. Tail(queue[s]) \in Seq(Task)
  BY TaskOfSocket
<1>2. Resting \in Run
  BY DEF Resting, Run, Roles
<1> QED
  BY <1>1, <1>2 DEF PInv, TypeOK, End

\* A step that touches neither sessions nor documents nor rooms.
LEMMA SessionsStand ==
  ASSUME PInv, TypeOK', TasksSound', UNCHANGED <<connected, sessionVars, docVars, room>>,
         \A s \in Sockets : /\ run'[s].pages = run[s].pages
                            /\ run[s].pc = "loading" =>
                                 run'[s].pc = "loading" /\ Head(queue'[s]) = Head(queue[s])
  PROVE  PInv'
<1>1. \A p \in Pages : OnPage(p)' = OnPage(p) /\ Joined(p)' = Joined(p)
                       /\ Dropping(p)' = Dropping(p)
  BY DEF OnPage, Joined, Dropping, sessionVars
<1>2. HeldIsLive' /\ CountsSessions'
  BY <1>1 DEF PInv, HeldIsLive, CountsSessions, docVars
<1>3. PresenceMatchesSessions' /\ RightsEndWithSession' /\ IsFiniteSet(pageWorkspace')
  BY <1>1 DEF PInv, PresenceMatchesSessions, RightsEndWithSession, sessionVars
<1>4. RoomIsForSessions'
  BY DEF PInv, RoomIsForSessions, Waiting, sessionVars
<1> QED
  BY <1>2, <1>3, <1>4 DEF PInv

-----------------------------------------------------------------------------
(* Init, and the steps that only read                                       *)

LEMMA InitHolds == Init => PInv
<1> SUFFICES ASSUME Init PROVE PInv
  OBVIOUS
<1>1. Resting \in Run /\ Resting.pages = {} /\ Resting.pc = "idle"
  BY DEF Resting, Run, Roles
<1>2. TypeOK
  BY <1>1, BoundsAssumption DEF Init, TypeOK, Roles
<1>3. TasksSound
  BY <1>1 DEF Init, TasksSound, AtHead, StillSo, HoldsDisconnect
<1>4. \A p \in Pages : OnPage(p) = {} /\ Joined(p) = {} /\ Dropping(p) = {}
  BY <1>1 DEF Init, OnPage, Joined, Dropping
<1>5. CountsSessions
  BY <1>4, FS_EmptySet DEF Init, CountsSessions
<1> QED
  BY <1>2, <1>3, <1>4, <1>5, FS_EmptySet
     DEF Init, PInv, HeldIsLive, PresenceMatchesSessions, RightsEndWithSession,
         RoomIsForSessions

\* Tasks that end having changed nothing.
LEMMA EndKeeps ==
  ASSUME PInv, NEW s \in Sockets, queue[s] # <<>>, run[s].pages = {},
         run[s].pc # "loading", End(s),
         UNCHANGED <<memberVars, connected, sessionVars, docVars, room>>
  PROVE  PInv'
<1>1. queue' \in [Sockets -> Seq(Task)] /\ run' \in [Sockets -> Run]
      /\ queue'[s] = Tail(queue[s]) /\ run'[s] = Resting
      /\ \A x \in Sockets \ {s} : run'[x] = run[x] /\ queue'[x] = queue[x]
  BY EndType
<1>2. TypeOK'
  BY <1>1 DEF PInv, TypeOK, memberVars, sessionVars, docVars
<1>3. AtHead(s)' /\ StillSo(s)'
  BY <1>1, TaskEnds
<1>4. TasksSound'
  BY <1>1, <1>3, OneTaskMoves DEF sessionVars, docVars
<1>5. Resting.pages = {}
  BY DEF Resting
<1> QED
  BY <1>1, <1>2, <1>4, <1>5, SessionsStand

\* A task that goes on to its next await with nothing else changed.
LEMMA GoesKeeps ==
  ASSUME PInv, NEW s \in Sockets, NEW q \in Run, queue[s] # <<>>,
         run[s].pc # "loading", run' = [run EXCEPT ![s] = q], UNCHANGED queue,
         q.pages = run[s].pages, AtHead(s)', StillSo(s)',
         UNCHANGED <<memberVars, connected, sessionVars, docVars, room>>
  PROVE  PInv'
<1>1. run' \in [Sockets -> Run] /\ run'[s] = q
      /\ \A x \in Sockets \ {s} : run'[x] = run[x]
  BY DEF PInv, TypeOK
<1>2. TypeOK'
  BY <1>1 DEF PInv, TypeOK, memberVars, sessionVars, docVars
<1>3. TasksSound'
  BY <1>1, OneTaskMoves DEF sessionVars, docVars
<1> QED
  BY <1>1, <1>2, <1>3, SessionsStand

\* The starts of join, update and cursor, the answer of authorize, and the ends.
LEMMA ReadingKeeps ==
  ASSUME PInv, NEW s \in Sockets,
         JoinStarts(s) \/ EventStarts(s) \/ AuthorizeReads(s)
           \/ ReleaseEnds(s) \/ DisconnectEnds(s)
  PROVE  PInv'
<1>1. queue[s] # <<>> /\ run[s].pc # "loading" /\ AtHead(s) /\ StillSo(s)
      /\ UNCHANGED <<memberVars, connected, sessionVars, docVars, room>>
  <2>1. AtHead(s) /\ StillSo(s)
    BY DEF PInv, TasksSound
  <2> QED
    BY <2>1 DEF AtHead, JoinStarts, EventStarts, AuthorizeReads, ReleaseEnds,
                DisconnectEnds, Ready
<1>2. run[s] \in Run /\ run \in [Sockets -> Run]
  BY DEF PInv, TypeOK
<1>3. run[s].pc \in {"idle", "auth", "releasing"} => run[s].pages = {}
  BY <1>1 DEF AtHead
<1>4. CASE End(s)
  <2>1. run[s].pages = {}
    BY <1>1, <1>3 DEF AtHead, JoinStarts, EventStarts, AuthorizeReads, ReleaseEnds,
                      DisconnectEnds, Ready
  <2> QED
    BY <1>1, <1>4, <2>1, EndKeeps
<1>5. CASE JoinStarts(s) /\ ~End(s)
  <2> DEFINE joined == Head(queue[s]).page \in socketPages[s]
             q == [run[s] EXCEPT !.pc = "auth", !.already = joined]
  <2>1. run' = [run EXCEPT ![s] = q] /\ UNCHANGED queue
    BY <1>2, <1>5 DEF JoinStarts
  <2>2. run[s].pc = "idle" /\ Head(queue[s]).kind = "join"
    BY <1>5 DEF JoinStarts, Ready
  <2>3. q \in Run /\ q.pc = "auth" /\ q.pages = run[s].pages /\ q.already = joined
    <3>1. joined \in BOOLEAN
      OBVIOUS
    <3> HIDE DEF joined
    <3> QED
      BY <1>2, <3>1 DEF Run
  <2> HIDE DEF q
  <2>4. run'[s] = q
    BY <1>2, <2>1
  <2>5. AtHead(s)'
    BY <1>1, <1>3, <2>1, <2>2, <2>3, <2>4 DEF AtHead, sessionVars
  <2>6. StillSo(s)'
    BY <1>1, <2>1, <2>2, <2>3, <2>4 DEF StillSo, sessionVars
  <2> QED
    BY <1>1, <2>1, <2>3, <2>5, <2>6, GoesKeeps
<1>6. CASE EventStarts(s) /\ ~End(s)
  <2> DEFINE q == [run[s] EXCEPT !.pc = "auth"]
  <2>1. run' = [run EXCEPT ![s] = q] /\ UNCHANGED queue
    BY <1>2, <1>6 DEF EventStarts, Goto
  <2>2. run[s].pc = "idle" /\ Head(queue[s]).kind \in {"update", "cursor"}
        /\ Head(queue[s]).page \in socketPages[s]
    BY <1>6 DEF EventStarts, Ready
  <2>3. q \in Run /\ q.pc = "auth" /\ q.pages = run[s].pages
    BY <1>2 DEF Run
  <2> HIDE DEF q
  <2>4. run'[s] = q
    BY <1>2, <2>1
  <2>5. AtHead(s)'
    BY <1>1, <1>3, <2>1, <2>2, <2>3, <2>4 DEF AtHead, sessionVars
  <2>6. StillSo(s)'
    BY <1>1, <2>1, <2>2, <2>3, <2>4 DEF StillSo, sessionVars
  <2> QED
    BY <1>1, <2>1, <2>3, <2>5, <2>6, GoesKeeps
<1>7. CASE AuthorizeReads(s)
  <2>1. PICK access \in {role[UserOf[s]], "none"} :
          run' = [run EXCEPT ![s].pc = "authed", ![s].access = access]
    BY <1>7 DEF AuthorizeReads
  <2>2. access \in Roles
    BY UserOfAssumption DEF PInv, TypeOK, Roles
  <2> DEFINE q == [run[s] EXCEPT !.pc = "authed", !.access = access]
  <2>3. run' = [run EXCEPT ![s] = q] /\ UNCHANGED queue /\ run[s].pc = "auth"
    BY <1>2, <1>7, <2>1 DEF AuthorizeReads
  <2>4. q \in Run /\ q.pc = "authed" /\ q.pages = run[s].pages
        /\ q.already = run[s].already
    BY <1>2, <2>2 DEF Run
  <2> HIDE DEF q
  <2>5. run'[s] = q
    BY <1>2, <2>3
  <2>6. AtHead(s)'
    BY <1>1, <1>3, <2>3, <2>4, <2>5 DEF AtHead, sessionVars
  <2>7. StillSo(s)'
    BY <1>1, <2>3, <2>4, <2>5 DEF StillSo, sessionVars
  <2> QED
    BY <1>1, <2>3, <2>4, <2>6, <2>7, GoesKeeps
<1> QED
  BY <1>4, <1>5, <1>6, <1>7 DEF ReleaseEnds, DisconnectEnds

-----------------------------------------------------------------------------
(* Leaving                                                                  *)

\* Socket s goes off page p: the participants, the workspace on record, the
\* rights and the count follow.
LEMMA GoesOff ==
  ASSUME PInv, NEW s \in Sockets, NEW p \in Pages,
         OnPage(p)' = OnPage(p) \ {s},
         \A x \in Pages \ {p} : OnPage(x)' = OnPage(x),
         RemoveFromPage(s, p),
         editors' = editors \ {<<s, p>>},
         cursors' = cursors \ {<<s, p>>},
         refs' = [refs EXCEPT ![p] = IF s \in OnPage(p) THEN refs[p] - 1 ELSE refs[p]],
         UNCHANGED doc
  PROVE  /\ HeldIsLive' /\ CountsSessions' /\ PresenceMatchesSessions'
         /\ RightsEndWithSession' /\ IsFiniteSet(pageWorkspace')
         /\ presence' \in [Pages -> SUBSET Sockets] /\ pageWorkspace' \in SUBSET Pages
         /\ refs' \in [Pages -> Nat]
         /\ editors' \in SUBSET (Sockets \X Pages) /\ cursors' \in SUBSET (Sockets \X Pages)
<1>1. \A x \in Pages : IsFiniteSet(OnPage(x)) /\ OnPage(x) \subseteq Sockets
  <2>1. \A x \in Pages : OnPage(x) \subseteq Sockets
    BY DEF OnPage, Joined, Dropping
  <2> QED
    BY <2>1, FiniteAssumption, FS_Subset
<1>2. \A x \in Pages : Cardinality(OnPage(x)) \in Nat /\ refs[x] = Cardinality(OnPage(x))
  BY <1>1, FS_CardinalityType DEF PInv, CountsSessions
<1>3. Cardinality(OnPage(p) \ {s}) = IF s \in OnPage(p) THEN refs[p] - 1 ELSE refs[p]
  BY <1>1, <1>2, FS_RemoveElement
<1>4. CountsSessions'
  BY <1>2, <1>3 DEF PInv, TypeOK, CountsSessions
<1>5. HeldIsLive'
  BY DEF PInv, HeldIsLive
<1>6. presence' = [presence EXCEPT ![p] = presence[p] \ {s}]
  BY DEF RemoveFromPage
<1>7. presence' \in [Pages -> SUBSET Sockets]
      /\ \A x \in Pages : presence'[x] = IF x = p THEN presence[x] \ {s} ELSE presence[x]
  BY <1>6 DEF PInv, TypeOK
<1>8. \A x \in Pages : presence[x] = OnPage(x)
  BY DEF PInv, PresenceMatchesSessions, OnPage
<1>9. \A x \in Pages : x \in pageWorkspace' <=> presence'[x] # {}
  BY <1>7 DEF RemoveFromPage, PInv, PresenceMatchesSessions
<1>10. PresenceMatchesSessions'
  BY <1>7, <1>8, <1>9 DEF PresenceMatchesSessions, OnPage
<1>11. RightsEndWithSession'
  BY <1>7 DEF PInv, RightsEndWithSession
<1>12. IsFiniteSet(pageWorkspace') /\ pageWorkspace' \in SUBSET Pages
  <2>1. IsFiniteSet(pageWorkspace) /\ pageWorkspace \in SUBSET Pages
    BY DEF PInv, TypeOK
  <2>2. IsFiniteSet(pageWorkspace \ {p})
    BY <2>1, FS_RemoveElement
  <2> QED
    BY <2>1, <2>2 DEF RemoveFromPage
<1>13. refs' \in [Pages -> Nat]
  <2>1. Cardinality(OnPage(p) \ {s}) \in Nat
    BY <1>1, FS_RemoveElement, FS_CardinalityType
  <2> QED
    BY <1>3, <2>1 DEF PInv, TypeOK
<1> QED
  BY <1>4, <1>5, <1>7, <1>10, <1>11, <1>12, <1>13 DEF PInv, TypeOK

\* leave and dropSocket.
LEMMA LeaveKeeps ==
  ASSUME PInv, NEW s \in Sockets, NEW p \in Pages, queue[s] # <<>>,
         run[s].pages = {}, run[s].pc \notin {"loading", "dropping"},
         LeavePage(s, p), UNCHANGED <<memberVars, connected>>
  PROVE  PInv'
<1>1. run[s] \in Run /\ run \in [Sockets -> Run] /\ queue[s] \in Seq(Task)
  BY DEF PInv, TypeOK
<1>2. socketPages' = [socketPages EXCEPT ![s] = socketPages[s] \ {p}]
      /\ room' = [room EXCEPT ![p] = room[p] \ {s}]
  BY DEF LeavePage
<1>3. \/ /\ queue'[s] = queue[s] /\ queue' \in [Sockets -> Seq(Task)]
         /\ run'[s] = [run[s] EXCEPT !.pc = "releasing"] /\ run' \in [Sockets -> Run]
      \/ /\ queue'[s] = Tail(queue[s]) /\ queue' \in [Sockets -> Seq(Task)]
         /\ run'[s] = Resting /\ run' \in [Sockets -> Run]
  <2>1. CASE Goto(s, "releasing")
    <3>1. [run[s] EXCEPT !.pc = "releasing"] \in Run
      BY <1>1 DEF Run
    <3>2. run' = [run EXCEPT ![s] = [run[s] EXCEPT !.pc = "releasing"]] /\ queue' = queue
      BY <1>1, <2>1 DEF Goto
    <3> QED
      BY <1>1, <3>1, <3>2 DEF PInv, TypeOK
  <2>2. CASE End(s)
    BY <2>2, EndType
  <2> QED
    BY <2>1, <2>2 DEF LeavePage
<1>4. \A x \in Sockets \ {s} : run'[x] = run[x] /\ queue'[x] = queue[x]
                              /\ socketPages'[x] = socketPages[x]
  BY <1>1, <1>2 DEF LeavePage, Goto, End, PInv, TypeOK
<1>5. run'[s].pages = {} /\ run'[s].pc \in {"releasing", "idle"}
  BY <1>1, <1>3 DEF Resting, Run
<1>6. UNCHANGED doc
  BY DEF LeavePage, Release, docVars
<1>7. AtHead(s)' /\ StillSo(s)'
  <2>1. CASE run'[s] = Resting /\ queue'[s] = Tail(queue[s])
    BY <2>1, TaskEnds
  <2>2. CASE queue'[s] = queue[s] /\ run'[s] = [run[s] EXCEPT !.pc = "releasing"]
    <3>1. run'[s].pc = "releasing"
      BY <1>1, <2>2 DEF Run
    <3>2. AtHead(s)
      BY DEF PInv, TasksSound
    <3> QED
      BY <1>5, <2>2, <3>1, <3>2 DEF AtHead, StillSo
  <2> QED
    BY <1>3, <2>1, <2>2
<1>8. TasksSound'
  BY <1>4, <1>6, <1>7, OneTaskMoves
<1>9. socketPages' \in [Sockets -> SUBSET Pages]
      /\ \A x \in Sockets : socketPages'[x] = IF x = s THEN socketPages[x] \ {p}
                                              ELSE socketPages[x]
  BY <1>2 DEF PInv, TypeOK
<1>10. \A x \in Sockets : run'[x].pages = run[x].pages
  BY <1>4, <1>5
<1>11. /\ OnPage(p)' = OnPage(p) \ {s}
       /\ \A x \in Pages \ {p} : OnPage(x)' = OnPage(x)
       /\ s \in OnPage(p) <=> p \in socketPages[s]
  BY <1>9, <1>10 DEF OnPage, Joined, Dropping
<1>12. cursors' = cursors \ {<<s, p>>}
  <2>1. CASE p \in socketPages[s]
    BY <2>1 DEF LeavePage
  <2>2. CASE p \notin socketPages[s]
    <3>1. s \notin presence[p]
      BY <1>11, <2>2 DEF PInv, PresenceMatchesSessions, OnPage
    <3> QED
      BY <2>2, <3>1 DEF LeavePage, PInv, RightsEndWithSession
  <2> QED
    BY <2>1, <2>2
<1>13. refs' = [refs EXCEPT ![p] = IF s \in OnPage(p) THEN refs[p] - 1 ELSE refs[p]]
  <2>1. CASE p \in socketPages[s]
    <3>1. refs[p] # 0
      <4>1. OnPage(p) # {} /\ IsFiniteSet(OnPage(p))
        <5>1. OnPage(p) \subseteq Sockets
          BY DEF OnPage, Joined, Dropping
        <5> QED
          BY <1>11, <2>1, <5>1, FiniteAssumption, FS_Subset
      <4> QED
        BY <4>1, FS_EmptySet DEF PInv, CountsSessions
    <3> QED
      BY <1>11, <2>1, <3>1 DEF LeavePage, Release
  <2>2. CASE p \notin socketPages[s]
    BY <1>11, <2>2 DEF LeavePage, docVars, PInv, TypeOK
  <2> QED
    BY <2>1, <2>2
<1>14. /\ HeldIsLive' /\ CountsSessions' /\ PresenceMatchesSessions'
       /\ RightsEndWithSession' /\ IsFiniteSet(pageWorkspace')
       /\ presence' \in [Pages -> SUBSET Sockets] /\ pageWorkspace' \in SUBSET Pages
       /\ refs' \in [Pages -> Nat]
       /\ editors' \in SUBSET (Sockets \X Pages) /\ cursors' \in SUBSET (Sockets \X Pages)
  BY <1>6, <1>11, <1>12, <1>13, GoesOff DEF LeavePage
<1>15. room' \in [Pages -> SUBSET Sockets]
       /\ \A x \in Pages : room'[x] = IF x = p THEN room[x] \ {s} ELSE room[x]
  BY <1>2 DEF PInv, TypeOK
<1>16. RoomIsForSessions'
  <2> SUFFICES ASSUME NEW x \in Sockets, NEW y \in Pages, x \in room'[y]
               PROVE  connected'[x] /\ (y \in socketPages'[x] \/ x \in Waiting(y)')
    BY DEF RoomIsForSessions
  <2>1. x \in room[y] /\ ~(x = s /\ y = p)
    BY <1>15
  <2>2. connected[x] /\ (y \in socketPages[x] \/ x \in Waiting(y))
    BY <2>1 DEF PInv, RoomIsForSessions
  <2> QED
    BY <1>4, <1>9, <2>1, <2>2 DEF Waiting
<1>17. TypeOK'
  BY <1>3, <1>6, <1>9, <1>14, <1>15 DEF PInv, TypeOK, memberVars
<1> QED
  BY <1>8, <1>14, <1>16, <1>17 DEF PInv

LEMMA LeavingKeeps ==
  ASSUME PInv, NEW s \in Sockets, LeaveStarts(s) \/ Refused(s)
  PROVE  PInv'
<1>1. AtHead(s)
  BY DEF PInv, TasksSound
<1>2. queue[s] # <<>> /\ run[s].pages = {} /\ run[s].pc \in {"idle", "authed"}
      /\ UNCHANGED <<memberVars, connected>>
  BY <1>1 DEF AtHead, LeaveStarts, Refused, Ready
<1>3. Head(queue[s]).page \in Pages
  BY <1>2, TaskOfSocket
<1>4. CASE LeavePage(s, Head(queue[s]).page)
  BY <1>2, <1>3, <1>4, LeaveKeeps
<1>5. CASE ~LeavePage(s, Head(queue[s]).page)
  <2>1. End(s) /\ UNCHANGED <<sessionVars, room, docVars>>
    BY <1>5 DEF LeaveStarts, Refused
  <2> QED
    BY <1>2, <2>1, EndKeeps
<1> QED
  BY <1>4, <1>5

\* One page of a dead socket: `pages` are the ones it was on and has not left.
LEMMA DropKeeps ==
  ASSUME PInv, NEW s \in Sockets, NEW pages \in SUBSET Pages, NEW p \in pages,
         queue[s] # <<>>, ~connected[s], run[s].pc \in {"idle", "dropping"},
         pages = socketPages[s] \cup run[s].pages,
         socketPages' = [socketPages EXCEPT ![s] = {}],
         Drop(s, p, pages \ {p}), UNCHANGED <<memberVars, connected, room>>
  PROVE  PInv'
<1> DEFINE q == [run[s] EXCEPT !.pc = "dropping", !.pages = pages \ {p}]
<1>1. run[s] \in Run /\ run \in [Sockets -> Run]
  BY DEF PInv, TypeOK
<1>2. q \in Run /\ q.pc = "dropping" /\ q.pages = pages \ {p}
  BY <1>1 DEF Run
<1>3. run' = [run EXCEPT ![s] = q] /\ UNCHANGED <<queue, doc>>
  BY <1>1 DEF Drop, Release
<1> HIDE DEF q
<1>4. /\ run' \in [Sockets -> Run] /\ run'[s] = q
      /\ \A x \in Sockets \ {s} : run'[x] = run[x]
      /\ socketPages' \in [Sockets -> SUBSET Pages] /\ socketPages'[s] = {}
      /\ \A x \in Sockets \ {s} : socketPages'[x] = socketPages[x]
  BY <1>1, <1>2, <1>3 DEF PInv, TypeOK
<1>5. AtHead(s)' /\ StillSo(s)'
  <2>1. AtHead(s)
    BY DEF PInv, TasksSound
  <2> QED
    BY <1>2, <1>3, <1>4, <2>1 DEF AtHead, StillSo
<1>6. TasksSound'
  BY <1>3, <1>4, <1>5, OneTaskMoves
<1>7. /\ OnPage(p)' = OnPage(p) \ {s}
      /\ \A x \in Pages \ {p} : OnPage(x)' = OnPage(x)
      /\ s \in OnPage(p)
  BY <1>2, <1>4 DEF OnPage, Joined, Dropping
<1>8. refs' = [refs EXCEPT ![p] = refs[p] - 1]
  <2>1. OnPage(p) \subseteq Sockets
    BY DEF OnPage, Joined, Dropping
  <2>2. IsFiniteSet(OnPage(p))
    BY <2>1, FiniteAssumption, FS_Subset
  <2>3. refs[p] # 0
    BY <1>7, <2>2, FS_EmptySet DEF PInv, CountsSessions
  <2> QED
    BY <2>3 DEF Drop, Release
<1>9. /\ HeldIsLive' /\ CountsSessions' /\ PresenceMatchesSessions'
      /\ RightsEndWithSession' /\ IsFiniteSet(pageWorkspace')
      /\ presence' \in [Pages -> SUBSET Sockets] /\ pageWorkspace' \in SUBSET Pages
      /\ refs' \in [Pages -> Nat]
      /\ editors' \in SUBSET (Sockets \X Pages) /\ cursors' \in SUBSET (Sockets \X Pages)
  BY <1>3, <1>7, <1>8, GoesOff DEF Drop
<1>10. RoomIsForSessions'
  <2> SUFFICES ASSUME NEW x \in Sockets, NEW y \in Pages, x \in room[y]
               PROVE  connected[x] /\ (y \in socketPages'[x] \/ x \in Waiting(y)')
    BY DEF RoomIsForSessions
  <2>1. connected[x] /\ (y \in socketPages[x] \/ x \in Waiting(y)) /\ x # s
    BY DEF PInv, RoomIsForSessions
  <2> QED
    BY <1>3, <1>4, <2>1 DEF Waiting
<1>11. TypeOK'
  BY <1>3, <1>4, <1>9 DEF PInv, TypeOK, memberVars
<1> QED
  BY <1>6, <1>9, <1>10, <1>11 DEF PInv

LEMMA DisconnectKeeps ==
  ASSUME PInv, NEW s \in Sockets, DisconnectStarts(s) \/ DisconnectDrops(s)
  PROVE  PInv'
<1>1. AtHead(s) /\ queue[s] # <<>> /\ run[s].pc \in {"idle", "dropping"}
      /\ UNCHANGED <<memberVars, connected, room>>
  <2>1. AtHead(s)
    BY DEF PInv, TasksSound
  <2> QED
    BY <2>1 DEF AtHead, DisconnectStarts, DisconnectDrops, Ready
<1>2. CASE DisconnectDrops(s)
  <2>1. PICK p \in run[s].pages : Drop(s, p, run[s].pages \ {p})
    BY <1>2 DEF DisconnectDrops
  <2>2. ~connected[s] /\ socketPages[s] = {} /\ run[s].pages \in SUBSET Pages
    BY <1>1, <1>2 DEF AtHead, DisconnectDrops, PInv, TypeOK, Run
  <2>3. socketPages' = [socketPages EXCEPT ![s] = {}]
    BY <1>2, <2>2 DEF DisconnectDrops, PInv, TypeOK
  <2>4. run[s].pages = socketPages[s] \cup run[s].pages
    BY <2>2
  <2> QED
    BY <1>1, <2>1, <2>2, <2>3, <2>4, DropKeeps
<1>3. CASE DisconnectStarts(s)
  <2>1. queue[s] \in Seq(Task) /\ Head(queue[s]).kind = "disconnect" /\ run[s].pages = {}
    BY <1>1, <1>3, TaskOfSocket DEF AtHead, DisconnectStarts, Ready
  <2>2. ~connected[s]
    BY <1>1, <2>1, QueueTail DEF AtHead
  <2>3. socketPages[s] \in SUBSET Pages /\ socketPages' = [socketPages EXCEPT ![s] = {}]
    BY <1>3 DEF DisconnectStarts, PInv, TypeOK
  <2>4. CASE \E p \in socketPages[s] : Drop(s, p, socketPages[s] \ {p})
    <3>1. socketPages[s] = socketPages[s] \cup run[s].pages
      BY <2>1
    <3> QED
      BY <1>1, <2>2, <2>3, <2>4, <3>1, DropKeeps
  <2>5. CASE socketPages[s] = {} /\ End(s)
             /\ UNCHANGED <<presence, pageWorkspace, editors, cursors, docVars>>
    <3>1. UNCHANGED socketPages
      BY <2>3, <2>5 DEF PInv, TypeOK
    <3>2. run[s].pc # "loading"
      BY <1>1
    <3> QED
      BY <1>1, <2>1, <2>5, <3>1, <3>2, EndKeeps DEF sessionVars
  <2> QED
    BY <1>3, <2>4, <2>5 DEF DisconnectStarts
<1> QED
  BY <1>2, <1>3

-----------------------------------------------------------------------------
(* Rights and cursors                                                       *)

\* A task that ends with rights or cursors given to a socket that is on the page,
\* or taken.
LEMMA RightsKeep ==
  ASSUME PInv, NEW s \in Sockets, NEW p \in Pages, queue[s] # <<>>, run[s].pages = {},
         run[s].pc # "loading", End(s),
         s \in presence[p] \/ UNCHANGED <<editors, cursors>>,
         editors' \subseteq editors \cup {<<s, p>>},
         cursors' \subseteq cursors \cup {<<s, p>>},
         UNCHANGED <<memberVars, connected, socketPages, presence, pageWorkspace,
                     docVars, room>>
  PROVE  PInv'
<1>1. queue' \in [Sockets -> Seq(Task)] /\ run' \in [Sockets -> Run]
      /\ queue'[s] = Tail(queue[s]) /\ run'[s] = Resting
      /\ \A x \in Sockets \ {s} : run'[x] = run[x] /\ queue'[x] = queue[x]
  BY EndType
<1>2. editors' \in SUBSET (Sockets \X Pages) /\ cursors' \in SUBSET (Sockets \X Pages)
  BY DEF PInv, TypeOK
<1>3. TypeOK'
  BY <1>1, <1>2 DEF PInv, TypeOK, memberVars, docVars
<1>4. AtHead(s)' /\ StillSo(s)'
  BY <1>1, TaskEnds
<1>5. TasksSound'
  BY <1>1, <1>4, OneTaskMoves DEF docVars
<1>6. \A x \in Sockets : run'[x].pages = run[x].pages
  <2>1. Resting.pages = {}
    BY DEF Resting
  <2> QED
    BY <1>1, <2>1
<1>7. \A x \in Pages : OnPage(x)' = OnPage(x) /\ Joined(x)' = Joined(x)
                       /\ Dropping(x)' = Dropping(x)
  BY <1>6 DEF OnPage, Joined, Dropping
<1>8. HeldIsLive' /\ CountsSessions' /\ PresenceMatchesSessions'
  BY <1>7 DEF PInv, HeldIsLive, CountsSessions, PresenceMatchesSessions, docVars
<1>9. RightsEndWithSession'
  BY DEF PInv, RightsEndWithSession
<1>10. RoomIsForSessions'
  BY <1>1 DEF PInv, RoomIsForSessions, Waiting
<1> QED
  BY <1>3, <1>5, <1>8, <1>9, <1>10 DEF PInv

LEMMA GrantedKeeps ==
  ASSUME PInv, NEW s \in Sockets, UpdateGranted(s) \/ CursorGranted(s)
  PROVE  PInv'
<1> DEFINE p == Head(queue[s]).page
<1>1. AtHead(s) /\ StillSo(s)
  BY DEF PInv, TasksSound
<1>2. queue[s] # <<>> /\ run[s].pages = {} /\ run[s].pc = "authed" /\ End(s)
      /\ Head(queue[s]).kind \in {"update", "cursor"}
  BY <1>1 DEF AtHead, UpdateGranted, CursorGranted, Granted
<1>3. p \in Pages /\ p \in socketPages[s]
  BY <1>1, <1>2, TaskOfSocket DEF StillSo
<1>4. s \in presence[p]
  BY <1>3 DEF PInv, PresenceMatchesSessions, Joined
<1>5. editors' \subseteq editors \cup {<<s, p>>} /\ cursors' \subseteq cursors \cup {<<s, p>>}
      /\ UNCHANGED <<memberVars, connected, socketPages, presence, pageWorkspace,
                     docVars, room>>
  BY DEF UpdateGranted, CursorGranted
<1> HIDE DEF p
<1>6. run[s].pc # "loading"
  BY <1>2
<1> QED
  BY <1>2, <1>3, <1>4, <1>5, <1>6, RightsKeep

LEMMA MemberKeeps == ASSUME PInv, NEW s \in Sockets, MemberStarts(s) PROVE PInv'
<1> DEFINE p == Head(queue[s]).page
<1>1. AtHead(s)
  BY DEF PInv, TasksSound
<1>2. queue[s] # <<>> /\ run[s].pages = {} /\ run[s].pc = "idle"
      /\ UNCHANGED <<memberVars, connected>>
  BY <1>1 DEF AtHead, MemberStarts, Ready
<1>3. p \in Pages /\ run[s].pc \notin {"loading", "dropping"}
  BY <1>2, TaskOfSocket
<1>4. CASE LeavePage(s, p)
  BY <1>2, <1>3, <1>4, LeaveKeeps
<1>5. CASE ~LeavePage(s, p)
  <2>1. /\ End(s) /\ (s \in presence[p] \/ editors' = editors)
        /\ UNCHANGED <<socketPages, presence, pageWorkspace, cursors, room, docVars>>
        /\ editors' \subseteq editors \cup {<<s, p>>}
    BY <1>5 DEF MemberStarts
  <2> HIDE DEF p
  <2> QED
    BY <1>2, <1>3, <2>1, RightsKeep
<1> QED
  BY <1>4, <1>5

-----------------------------------------------------------------------------
(* Joining                                                                  *)

\* No socket is on a page that is not in memory.
LEMMA NobodyOnUnloaded ==
  ASSUME PInv, NEW p \in Pages, doc[p] # "live"
  PROVE  OnPage(p) = {} /\ presence[p] = {} /\ p \notin pageWorkspace
         /\ \A s \in Sockets : p \notin socketPages[s] /\ p \notin run[s].pages
<1>1. OnPage(p) = {}
  BY DEF PInv, HeldIsLive
<1> QED
  BY <1>1 DEF OnPage, Joined, Dropping, PInv, PresenceMatchesSessions

\* The sockets S go on page p.
LEMMA GoesOn ==
  ASSUME PInv, NEW S \in SUBSET Sockets, NEW p \in Pages,
         Register(S, p), OnPage(p)' = OnPage(p) \cup S,
         \A x \in Pages \ {p} : OnPage(x)' = OnPage(x), UNCHANGED cursors
  PROVE  /\ PresenceMatchesSessions' /\ RightsEndWithSession'
         /\ IsFiniteSet(pageWorkspace') /\ pageWorkspace' \in SUBSET Pages
         /\ presence' \in [Pages -> SUBSET Sockets]
         /\ editors' \in SUBSET (Sockets \X Pages)
         /\ socketPages' \in [Sockets -> SUBSET Pages]
         /\ \A s \in Sockets : socketPages'[s] = IF s \in S THEN socketPages[s] \cup {p}
                                                 ELSE socketPages[s]
<1>1. presence' \in [Pages -> SUBSET Sockets]
      /\ \A x \in Pages : presence'[x] = IF x = p THEN presence[x] \cup S ELSE presence[x]
  BY DEF Register, PInv, TypeOK
<1>2. \A x \in Pages : presence[x] = OnPage(x) /\ (x \in pageWorkspace <=> presence[x] # {})
  BY DEF PInv, PresenceMatchesSessions, OnPage
<1>3. \A x \in Pages : x \in pageWorkspace' <=> presence'[x] # {}
  BY <1>1, <1>2 DEF Register
<1>4. PresenceMatchesSessions'
  BY <1>1, <1>2, <1>3 DEF PresenceMatchesSessions, OnPage
<1>5. IsFiniteSet(pageWorkspace') /\ pageWorkspace' \in SUBSET Pages
  <2>1. IsFiniteSet(pageWorkspace) /\ pageWorkspace \in SUBSET Pages
    BY DEF PInv, TypeOK
  <2>2. IsFiniteSet(pageWorkspace \cup {p})
    BY <2>1, FS_AddElement
  <2> QED
    BY <2>1, <2>2 DEF Register
<1>6. editors' \in SUBSET (Sockets \X Pages)
  BY DEF Register, PInv, TypeOK
<1>7. RightsEndWithSession'
  <2> SUFFICES ASSUME NEW s \in Sockets, NEW x \in Pages, <<s, x>> \in editors' \cup cursors
               PROVE  s \in presence'[x]
    BY DEF RightsEndWithSession
  <2>1. <<s, x>> \in editors \cup cursors \/ (s \in S /\ x = p)
    BY DEF Register
  <2> QED
    BY <1>1, <2>1 DEF PInv, RightsEndWithSession
<1>8. socketPages' \in [Sockets -> SUBSET Pages]
      /\ \A s \in Sockets : socketPages'[s] = IF s \in S THEN socketPages[s] \cup {p}
                                              ELSE socketPages[s]
  BY DEF Register, PInv, TypeOK
<1> QED
  BY <1>1, <1>4, <1>5, <1>6, <1>7, <1>8

LEMMA JoinKeeps ==
  ASSUME PInv, NEW s \in Sockets, NEW p \in Pages, p = Head(queue[s]).page,
         JoinGranted(s)
  PROVE  PInv'
<1>1. AtHead(s) /\ StillSo(s) /\ run[s] \in Run /\ run \in [Sockets -> Run]
  BY DEF PInv, TypeOK, TasksSound
<1>2. queue[s] # <<>> /\ run[s].pages = {} /\ run[s].pc = "authed" /\ connected[s]
      /\ Head(queue[s]).kind = "join" /\ UNCHANGED <<memberVars, connected>>
  BY <1>1 DEF AtHead, JoinGranted, Granted
<1>3. run[s].already <=> p \in socketPages[s]
  BY <1>1, <1>2 DEF StillSo
<1>4. room' \in [Pages -> SUBSET Sockets]
      /\ \A x \in Pages : room'[x] = IF x = p THEN room[x] \cup {s} ELSE room[x]
  BY <1>3 DEF JoinGranted, PInv, TypeOK
<1>5. CASE doc[p] = "live"
  <2>1. End(s) /\ Register({s}, p) /\ UNCHANGED <<doc, cursors>>
        /\ refs' = [refs EXCEPT ![p] = IF run[s].already THEN refs[p] ELSE refs[p] + 1]
    BY <1>5 DEF JoinGranted
  <2>2. queue' \in [Sockets -> Seq(Task)] /\ run' \in [Sockets -> Run]
        /\ queue'[s] = Tail(queue[s]) /\ run'[s] = Resting
        /\ \A x \in Sockets \ {s} : run'[x] = run[x] /\ queue'[x] = queue[x]
    BY <1>2, <2>1, EndType
  <2>3. \A x \in Sockets : run'[x].pages = run[x].pages
    <3>1. Resting.pages = {}
      BY DEF Resting
    <3> QED
      BY <1>2, <2>2, <3>1
  <2>4. \A x \in Sockets : socketPages'[x] = IF x = s THEN socketPages[x] \cup {p}
                                             ELSE socketPages[x]
    BY <2>1 DEF Register
  <2>5. OnPage(p)' = OnPage(p) \cup {s} /\ \A x \in Pages \ {p} : OnPage(x)' = OnPage(x)
    BY <2>3, <2>4 DEF OnPage, Joined, Dropping
  <2>6. /\ PresenceMatchesSessions' /\ RightsEndWithSession'
        /\ IsFiniteSet(pageWorkspace') /\ pageWorkspace' \in SUBSET Pages
        /\ presence' \in [Pages -> SUBSET Sockets]
        /\ editors' \in SUBSET (Sockets \X Pages)
        /\ socketPages' \in [Sockets -> SUBSET Pages]
    <3>1. {s} \in SUBSET Sockets
      OBVIOUS
    <3> QED
      BY <2>1, <2>5, <3>1, GoesOn
  <2>7. run[s].already <=> s \in OnPage(p)
    BY <1>2, <1>3 DEF OnPage, Joined, Dropping
  <2>8. IsFiniteSet(OnPage(p)) /\ Cardinality(OnPage(p)) \in Nat
    <3>1. OnPage(p) \subseteq Sockets
      BY DEF OnPage, Joined, Dropping
    <3> QED
      BY <3>1, FiniteAssumption, FS_Subset, FS_CardinalityType
  <2>9. Cardinality(OnPage(p)') = IF run[s].already THEN refs[p] ELSE refs[p] + 1
    BY <1>3, <2>5, <2>7, <2>8, FS_AddElement DEF PInv, CountsSessions
  <2>10. CountsSessions' /\ refs' \in [Pages -> Nat]
    BY <1>3, <2>1, <2>5, <2>9 DEF PInv, TypeOK, CountsSessions
  <2>11. HeldIsLive'
    BY <1>5, <2>1, <2>5 DEF PInv, HeldIsLive
  <2>12. TasksSound'
    <3>1. AtHead(s)' /\ StillSo(s)'
      BY <1>2, <2>2, TaskEnds
    <3> QED
      BY <1>2, <2>1, <2>2, <2>4, <3>1, OneTaskMoves
  <2>13. RoomIsForSessions'
    <3> SUFFICES ASSUME NEW x \in Sockets, NEW y \in Pages, x \in room'[y]
                 PROVE  connected[x] /\ (y \in socketPages'[x] \/ x \in Waiting(y)')
      BY <1>2 DEF RoomIsForSessions
    <3>1. CASE x = s /\ y = p
      BY <1>2, <2>4, <3>1
    <3>2. CASE ~(x = s /\ y = p)
      <4>1. connected[x] /\ (y \in socketPages[x] \/ x \in Waiting(y))
        BY <1>4, <3>2 DEF PInv, RoomIsForSessions
      <4> QED
        BY <1>2, <2>2, <2>4, <4>1 DEF Waiting
    <3> QED
      BY <3>1, <3>2
  <2>14. TypeOK'
    BY <1>2, <1>4, <2>1, <2>2, <2>6, <2>10 DEF PInv, TypeOK, memberVars
  <2> QED
    BY <2>6, <2>10, <2>11, <2>12, <2>13, <2>14 DEF PInv
<1>6. CASE doc[p] # "live"
  <2>1. p \notin socketPages[s] /\ OnPage(p) = {}
    BY <1>3, <1>6, NobodyOnUnloaded
  <2> DEFINE q == [run[s] EXCEPT !.pc = "loading"]
  <2>2. run' = [run EXCEPT ![s] = q] /\ doc' = [doc EXCEPT ![p] = "loading"]
        /\ UNCHANGED <<queue, refs, sessionVars>>
    BY <1>1, <1>6 DEF JoinGranted, Goto
  <2>3. q \in Run /\ q.pc = "loading" /\ q.pages = run[s].pages /\ q.already = run[s].already
    BY <1>1 DEF Run
  <2> HIDE DEF q
  <2>4. /\ run' \in [Sockets -> Run] /\ run'[s] = q
        /\ \A x \in Sockets \ {s} : run'[x] = run[x]
    BY <1>1, <2>2, <2>3
  <2>5. doc' \in [Pages -> {"absent", "loading", "live"}]
        /\ \A x \in Pages : doc'[x] = IF x = p THEN "loading" ELSE doc[x]
    BY <1>3, <2>2 DEF PInv, TypeOK
  <2>6. \A x \in Pages : OnPage(x)' = OnPage(x) /\ Joined(x)' = Joined(x)
                         /\ Dropping(x)' = Dropping(x)
    BY <2>2, <2>3, <2>4 DEF OnPage, Joined, Dropping, sessionVars
  <2>7. CountsSessions' /\ PresenceMatchesSessions' /\ RightsEndWithSession'
        /\ IsFiniteSet(pageWorkspace')
    BY <2>2, <2>6 DEF PInv, CountsSessions, PresenceMatchesSessions,
                      RightsEndWithSession, sessionVars
  <2>8. HeldIsLive'
    BY <2>1, <2>5, <2>6 DEF PInv, HeldIsLive
  <2>9. AtHead(s)' /\ StillSo(s)'
    <3>1. AtHead(s)'
      BY <1>1, <1>2, <2>2, <2>3, <2>4 DEF AtHead, sessionVars
    <3>2. StillSo(s)'
      BY <1>2, <1>3, <2>1, <2>2, <2>3, <2>4, <2>5 DEF StillSo, sessionVars
    <3> QED
      BY <3>1, <3>2
  <2>10. TasksSound'
    BY <1>2, <2>2, <2>4, <2>5, <2>9, OneTaskMoves DEF sessionVars
  <2>11. RoomIsForSessions'
    <3> SUFFICES ASSUME NEW x \in Sockets, NEW y \in Pages, x \in room'[y]
                 PROVE  connected[x] /\ (y \in socketPages[x] \/ x \in Waiting(y)')
      BY <1>2, <2>2 DEF RoomIsForSessions, sessionVars
    <3>1. CASE x = s /\ y = p
      BY <1>2, <2>2, <2>3, <2>4, <3>1 DEF Waiting
    <3>2. CASE ~(x = s /\ y = p)
      <4>1. connected[x] /\ (y \in socketPages[x] \/ x \in Waiting(y))
        BY <1>4, <3>2 DEF PInv, RoomIsForSessions
      <4> QED
        BY <1>2, <2>2, <2>4, <4>1 DEF Waiting
    <3> QED
      BY <3>1, <3>2
  <2>12. TypeOK'
    BY <1>2, <1>4, <2>2, <2>4, <2>5 DEF PInv, TypeOK, memberVars, sessionVars
  <2> QED
    BY <2>7, <2>8, <2>10, <2>11, <2>12 DEF PInv
<1> QED
  BY <1>5, <1>6

-----------------------------------------------------------------------------
(* The end of a load                                                        *)

\* The sockets W that waited for page p go on: R give their reference back, the
\* others end.
LEMMA WaitersGo ==
  ASSUME PInv, NEW p \in Pages, NEW R \in SUBSET Waiting(p),
         EndAll(Waiting(p) \ R, R), UNCHANGED connected, \A s \in R : ~connected[s],
         \A x \in Sockets \ Waiting(p) : socketPages'[x] = socketPages[x],
         \A s \in R : socketPages'[s] = socketPages[s],
         \A x \in Pages \ {p} : doc'[x] = doc[x]
  PROVE  /\ TasksSound'
         /\ queue' \in [Sockets -> Seq(Task)] /\ run' \in [Sockets -> Run]
         /\ \A s \in Sockets : run'[s].pages = run[s].pages
         /\ \A s \in Sockets \ Waiting(p) : run'[s] = run[s] /\ queue'[s] = queue[s]
<1>1. \A s \in Waiting(p) : /\ s \in Sockets /\ run[s].pc = "loading" /\ queue[s] # <<>>
                            /\ run[s].pages = {} /\ AtHead(s)
  BY DEF PInv, TasksSound, AtHead, Waiting
<1>2. Resting \in Run /\ Resting.pages = {} /\ Resting.pc = "idle"
  BY DEF Resting, Run, Roles
<1>3. \A s \in Sockets : run[s] \in Run /\ queue[s] \in Seq(Task)
  BY DEF PInv, TypeOK
<1>4. \A s \in Sockets : /\ [run[s] EXCEPT !.pc = "releasing"] \in Run
                         /\ [run[s] EXCEPT !.pc = "releasing"].pc = "releasing"
                         /\ [run[s] EXCEPT !.pc = "releasing"].pages = run[s].pages
  BY <1>3 DEF Run
<1>5. /\ \A s \in Waiting(p) \ R : queue'[s] = Tail(queue[s]) /\ run'[s] = Resting
      /\ \A s \in R : queue'[s] = queue[s] /\ run'[s] = [run[s] EXCEPT !.pc = "releasing"]
      /\ \A s \in Sockets \ Waiting(p) : queue'[s] = queue[s] /\ run'[s] = run[s]
  BY <1>1 DEF EndAll
<1>6. queue' \in [Sockets -> Seq(Task)]
  <2>1. \A s \in Sockets : queue'[s] \in Seq(Task)
    <3>1. ASSUME NEW s \in Waiting(p) \ R PROVE Tail(queue[s]) \in Seq(Task)
      <4>1. s \in Sockets /\ queue[s] # <<>> /\ queue[s] \in Seq(Task)
        BY <1>1, <1>3
      <4> QED
        BY <4>1, QueueTail
    <3>2. ASSUME NEW s \in Sockets PROVE queue'[s] \in Seq(Task)
      <4>1. CASE s \in Waiting(p) \ R
        <5>1. queue'[s] = Tail(queue[s])
          BY <1>5, <4>1
        <5> QED
          BY <3>1, <4>1, <5>1
      <4>2. CASE s \notin Waiting(p) \ R
        <5>1. queue'[s] = queue[s]
          BY <1>5, <4>2
        <5> QED
          BY <1>3, <5>1
      <4> QED
        BY <4>1, <4>2
    <3> QED
      BY <3>2
  <2>2. queue' = [s \in Sockets |-> queue'[s]]
    BY DEF EndAll
  <2> QED
    BY <2>1, <2>2
<1>7. run' \in [Sockets -> Run]
  <2>1. \A s \in Sockets : run'[s] \in Run
    BY <1>2, <1>3, <1>4, <1>5
  <2>2. run' = [s \in Sockets |-> run'[s]]
    BY DEF EndAll
  <2> QED
    BY <2>1, <2>2
<1>8. \A s \in Sockets : run'[s].pages = run[s].pages
  BY <1>1, <1>2, <1>4, <1>5
<1>9. TasksSound'
  <2> SUFFICES ASSUME NEW s \in Sockets PROVE (AtHead(s) /\ StillSo(s))'
    BY DEF TasksSound
  <2>1. CASE s \in Waiting(p) \ R
    BY <1>1, <1>5, <2>1, TaskEnds
  <2>2. CASE s \in R
    <3>0. s \in Waiting(p) /\ run[s].pages = {}
      BY <1>1, <2>2
    <3>1. run'[s].pc = "releasing" /\ run'[s].pages = {} /\ queue'[s] = queue[s]
      <4>1. run'[s] = [run[s] EXCEPT !.pc = "releasing"] /\ queue'[s] = queue[s]
        BY <1>5, <2>2
      <4> QED
        BY <1>4, <3>0, <4>1
    <3> QED
      BY <1>1, <2>2, <3>0, <3>1 DEF AtHead, StillSo
  <2>3. CASE s \notin Waiting(p)
    <3>1. run'[s] = run[s] /\ queue'[s] = queue[s] /\ socketPages'[s] = socketPages[s]
          /\ connected'[s] = connected[s]
      BY <1>5, <2>3
    <3>2. AtHead(s) /\ StillSo(s)
      BY DEF PInv, TasksSound
    <3>3. AtHead(s)'
      BY <3>1, <3>2 DEF AtHead
    <3>4. run[s].pc = "loading" =>
            Head(queue[s]).page # p /\ Head(queue[s]).page \in Pages
      BY <2>3, <3>2, TaskOfSocket DEF Waiting, AtHead
    <3>5. StillSo(s)'
      BY <3>1, <3>2, <3>4 DEF StillSo
    <3> QED
      BY <3>3, <3>5
  <2> QED
    BY <2>1, <2>2, <2>3
<1> QED
  BY <1>5, <1>6, <1>7, <1>8, <1>9

LEMMA LoadKeeps == ASSUME PInv, NEW p \in Pages, LoadEnds(p) PROVE PInv'
<1> DEFINE joined == {s \in Waiting(p) : connected[s]}
           abandoned == {s \in Waiting(p) : ~connected[s] /\ ~run[s].already}
           fresh == {s \in joined : ~run[s].already}
<1>1. doc[p] = "loading" /\ Register(joined, p)
      /\ refs' = [refs EXCEPT ![p] = Cardinality(fresh)]
      /\ EndAll(Waiting(p) \ abandoned, abandoned)
      /\ doc' = [doc EXCEPT ![p] = "live"]
      /\ UNCHANGED <<memberVars, connected, cursors, room>>
  BY DEF LoadEnds
<1>2. \A s \in Waiting(p) : ~run[s].already
  BY DEF PInv, TasksSound, StillSo, Waiting
<1>3. fresh = joined /\ joined \in SUBSET Sockets /\ abandoned \in SUBSET Waiting(p)
      /\ \A s \in abandoned : ~connected[s]
  BY <1>2 DEF Waiting
<1>4. \A s \in Waiting(p) : connected[s] => s \in joined
  OBVIOUS
<1> HIDE DEF joined, abandoned, fresh
<1>5. OnPage(p) = {}
  BY <1>1, NobodyOnUnloaded
<1>6. \A s \in Sockets : socketPages'[s] = IF s \in joined THEN socketPages[s] \cup {p}
                                           ELSE socketPages[s]
  BY <1>1 DEF Register
<1>7. \A s \in Sockets \ Waiting(p) : s \notin joined
  BY DEF joined
<1>8. \A s \in abandoned : s \notin joined /\ s \in Sockets
  BY DEF joined, abandoned, Waiting
<1>9. /\ TasksSound'
      /\ queue' \in [Sockets -> Seq(Task)] /\ run' \in [Sockets -> Run]
      /\ \A s \in Sockets : run'[s].pages = run[s].pages
      /\ \A s \in Sockets \ Waiting(p) : run'[s] = run[s] /\ queue'[s] = queue[s]
  <2>1. \A x \in Pages \ {p} : doc'[x] = doc[x]
    BY <1>1 DEF PInv, TypeOK
  <2>2. \A x \in Sockets \ Waiting(p) : socketPages'[x] = socketPages[x]
    BY <1>6, <1>7
  <2>3. \A s \in abandoned : socketPages'[s] = socketPages[s]
    BY <1>6, <1>8
  <2> QED
    BY <1>1, <1>3, <2>1, <2>2, <2>3, WaitersGo
<1>10. OnPage(p)' = OnPage(p) \cup joined /\ \A x \in Pages \ {p} : OnPage(x)' = OnPage(x)
  BY <1>3, <1>6, <1>9 DEF OnPage, Joined, Dropping
<1>11. /\ PresenceMatchesSessions' /\ RightsEndWithSession'
       /\ IsFiniteSet(pageWorkspace') /\ pageWorkspace' \in SUBSET Pages
       /\ presence' \in [Pages -> SUBSET Sockets]
       /\ editors' \in SUBSET (Sockets \X Pages)
       /\ socketPages' \in [Sockets -> SUBSET Pages]
  BY <1>1, <1>3, <1>10, GoesOn
<1>12. Cardinality(joined) \in Nat
  BY <1>3, FiniteAssumption, FS_Subset, FS_CardinalityType
<1>13. CountsSessions' /\ refs' \in [Pages -> Nat]
  BY <1>1, <1>3, <1>5, <1>10, <1>12 DEF PInv, TypeOK, CountsSessions
<1>14. HeldIsLive'
  BY <1>1, <1>10 DEF PInv, TypeOK, HeldIsLive
<1>15. RoomIsForSessions'
  <2> SUFFICES ASSUME NEW s \in Sockets, NEW y \in Pages, s \in room[y]
               PROVE  connected[s] /\ (y \in socketPages'[s] \/ s \in Waiting(y)')
    BY <1>1 DEF RoomIsForSessions
  <2>1. connected[s] /\ (y \in socketPages[s] \/ s \in Waiting(y))
    BY DEF PInv, RoomIsForSessions
  <2>2. CASE s \in Waiting(p)
    <3>1. s \in joined
      BY <1>4, <2>1, <2>2
    <3>2. y = p \/ y \in socketPages[s]
      BY <2>1, <2>2 DEF Waiting
    <3> QED
      BY <1>6, <2>1, <3>1, <3>2
  <2>3. CASE s \notin Waiting(p)
    BY <1>6, <1>7, <1>9, <2>1, <2>3 DEF Waiting
  <2> QED
    BY <2>2, <2>3
<1>16. TypeOK'
  BY <1>1, <1>9, <1>11, <1>13 DEF PInv, TypeOK, memberVars
<1> QED
  BY <1>9, <1>11, <1>13, <1>14, <1>15, <1>16 DEF PInv

LEMMA FailedLoadKeeps == ASSUME PInv, NEW p \in Pages, LoadFails(p) PROVE PInv'
<1>1. doc[p] = "loading" /\ doc' = [doc EXCEPT ![p] = "absent"]
      /\ room' = [room EXCEPT ![p] = room[p] \ {s \in Waiting(p) : ~run[s].already}]
      /\ EndAll(Waiting(p), {})
      /\ UNCHANGED <<memberVars, connected, sessionVars, refs>>
  BY DEF LoadFails
<1>2. \A s \in Waiting(p) : ~run[s].already
  BY DEF PInv, TasksSound, StillSo, Waiting
<1>3. OnPage(p) = {}
  BY <1>1, NobodyOnUnloaded
<1>4. /\ TasksSound'
      /\ queue' \in [Sockets -> Seq(Task)] /\ run' \in [Sockets -> Run]
      /\ \A s \in Sockets : run'[s].pages = run[s].pages
      /\ \A s \in Sockets \ Waiting(p) : run'[s] = run[s] /\ queue'[s] = queue[s]
  <2>1. \A x \in Pages \ {p} : doc'[x] = doc[x]
    BY <1>1 DEF PInv, TypeOK
  <2>2. Waiting(p) \ {} = Waiting(p) /\ {} \in SUBSET Waiting(p)
    OBVIOUS
  <2> QED
    BY <1>1, <2>1, <2>2, WaitersGo DEF sessionVars
<1>5. \A x \in Pages : OnPage(x)' = OnPage(x) /\ Joined(x)' = Joined(x)
                       /\ Dropping(x)' = Dropping(x)
  BY <1>1, <1>4 DEF OnPage, Joined, Dropping, sessionVars
<1>6. CountsSessions' /\ PresenceMatchesSessions' /\ RightsEndWithSession'
      /\ IsFiniteSet(pageWorkspace')
  BY <1>1, <1>5 DEF PInv, CountsSessions, PresenceMatchesSessions,
                    RightsEndWithSession, sessionVars
<1>7. HeldIsLive'
  BY <1>1, <1>3, <1>5 DEF PInv, TypeOK, HeldIsLive
<1>8. room' \in [Pages -> SUBSET Sockets]
      /\ \A x \in Pages : room'[x] = IF x = p THEN room[x] \ Waiting(p) ELSE room[x]
  BY <1>1, <1>2 DEF PInv, TypeOK
<1>9. RoomIsForSessions'
  <2> SUFFICES ASSUME NEW s \in Sockets, NEW y \in Pages, s \in room'[y]
               PROVE  connected[s] /\ (y \in socketPages[s] \/ s \in Waiting(y)')
    BY <1>1 DEF RoomIsForSessions, sessionVars
  <2>1. s \in room[y] /\ connected[s] /\ (y \in socketPages[s] \/ s \in Waiting(y))
    BY <1>8 DEF PInv, RoomIsForSessions
  <2>2. CASE s \in Waiting(p)
    BY <1>8, <2>1, <2>2 DEF Waiting
  <2>3. CASE s \notin Waiting(p)
    BY <1>4, <2>1, <2>3 DEF Waiting
  <2> QED
    BY <2>2, <2>3
<1>10. TypeOK'
  BY <1>1, <1>4, <1>8 DEF PInv, TypeOK, memberVars, sessionVars
<1> QED
  BY <1>4, <1>6, <1>7, <1>9, <1>10 DEF PInv

LEMMA UnloadKeeps == ASSUME PInv, NEW p \in Pages, Unloads(p) PROVE PInv'
<1>1. doc[p] = "live" /\ refs[p] = 0 /\ doc' = [doc EXCEPT ![p] = "absent"]
      /\ cursors' = cursors \ (Sockets \X {p})
      /\ UNCHANGED <<memberVars, connected, queue, run, socketPages, presence,
                     pageWorkspace, editors, room, refs>>
  BY DEF Unloads
<1>2. OnPage(p) = {}
  <2>1. OnPage(p) \subseteq Sockets
    BY DEF OnPage, Joined, Dropping
  <2> QED
    BY <1>1, <2>1, FiniteAssumption, FS_Subset, FS_EmptySet DEF PInv, CountsSessions
<1>3. TasksSound'
  <2>1. \A x \in Pages : doc[x] = "loading" => doc'[x] = "loading"
    BY <1>1 DEF PInv, TypeOK
  <2> QED
    BY <1>1, <2>1, SocketStays DEF TasksSound
<1>4. \A x \in Pages : OnPage(x)' = OnPage(x) /\ Joined(x)' = Joined(x)
                       /\ Dropping(x)' = Dropping(x)
  BY <1>1 DEF OnPage, Joined, Dropping
<1>5. HeldIsLive'
  BY <1>1, <1>2, <1>4 DEF PInv, TypeOK, HeldIsLive
<1>6. CountsSessions' /\ PresenceMatchesSessions' /\ RightsEndWithSession'
      /\ RoomIsForSessions'
  BY <1>1, <1>4 DEF PInv, CountsSessions, PresenceMatchesSessions,
                    RightsEndWithSession, RoomIsForSessions, Waiting
<1>7. TypeOK'
  BY <1>1 DEF PInv, TypeOK, memberVars
<1> QED
  BY <1>1, <1>3, <1>5, <1>6, <1>7 DEF PInv

-----------------------------------------------------------------------------
(* Clients and members                                                      *)

LEMMA SendKeeps == ASSUME PInv, NEW s \in Sockets, ClientSends(s) PROVE PInv'
<1>1. PICK k \in ClientKinds, p \in Pages :
        queue' = [queue EXCEPT ![s] =
                    Append(queue[s], [kind |-> k, page |-> p, role |-> "none"])]
  BY DEF ClientSends
<1> DEFINE t == [kind |-> k, page |-> p, role |-> "none"]
<1>2. t \in Task /\ t.kind # "disconnect"
  BY DEF Task, ClientKinds, Roles
<1> HIDE DEF t
<1>3. queue' = [queue EXCEPT ![s] = Append(queue[s], t)]
      /\ UNCHANGED <<memberVars, connected, run, sessionVars, room, docVars>>
  BY <1>1 DEF ClientSends, t
<1>4. queue[s] \in Seq(Task) /\ AtHead(s) /\ StillSo(s)
  BY DEF PInv, TypeOK, TasksSound
<1>5. /\ Append(queue[s], t) \in Seq(Task) /\ Append(queue[s], t) # <<>>
      /\ queue[s] # <<>> => Head(Append(queue[s], t)) = Head(queue[s])
      /\ HoldsDisconnect(Append(queue[s], t)) => HoldsDisconnect(queue[s])
  BY <1>2, <1>4, QueueAppend
<1>6. queue' \in [Sockets -> Seq(Task)] /\ queue'[s] = Append(queue[s], t)
      /\ \A x \in Sockets \ {s} : queue'[x] = queue[x]
  BY <1>3, <1>5 DEF PInv, TypeOK
<1>7. AtHead(s)' /\ StillSo(s)'
  BY <1>3, <1>4, <1>5, <1>6 DEF AtHead, StillSo, sessionVars, docVars
<1>8. TasksSound'
  BY <1>3, <1>6, <1>7, OneTaskMoves DEF sessionVars, docVars
<1>9. TypeOK'
  BY <1>3, <1>6 DEF PInv, TypeOK, memberVars, sessionVars, docVars
<1>10. \A x \in Sockets : run[x].pc = "loading" => Head(queue'[x]) = Head(queue[x])
  BY <1>4, <1>5, <1>6 DEF AtHead
<1> QED
  BY <1>3, <1>8, <1>9, <1>10, SessionsStand

LEMMA DeathKeeps == ASSUME PInv, NEW s \in Sockets, Disconnects(s) PROVE PInv'
<1> DEFINE t == [kind |-> "disconnect", page |-> AnyPage, role |-> "none"]
<1>1. t \in Task
  BY PagesAssumption DEF Task, AnyPage, Roles
<1>2. connected' = [connected EXCEPT ![s] = FALSE]
      /\ room' = [p \in Pages |-> room[p] \ {s}]
      /\ queue' = [queue EXCEPT ![s] = Append(queue[s], t)]
      /\ UNCHANGED <<memberVars, run, sessionVars, docVars>>
  BY DEF Disconnects
<1> HIDE DEF t
<1>3. queue[s] \in Seq(Task) /\ AtHead(s) /\ StillSo(s)
  BY DEF PInv, TypeOK, TasksSound
<1>4. /\ Append(queue[s], t) \in Seq(Task) /\ Append(queue[s], t) # <<>>
      /\ queue[s] # <<>> => Head(Append(queue[s], t)) = Head(queue[s])
  BY <1>1, <1>3, QueueAppend
<1>5. queue' \in [Sockets -> Seq(Task)] /\ queue'[s] = Append(queue[s], t)
      /\ \A x \in Sockets \ {s} : queue'[x] = queue[x]
  BY <1>2, <1>4 DEF PInv, TypeOK
<1>6. connected' \in [Sockets -> BOOLEAN] /\ connected'[s] = FALSE
      /\ \A x \in Sockets \ {s} : connected'[x] = connected[x]
  BY <1>2 DEF PInv, TypeOK
<1>7. AtHead(s)' /\ StillSo(s)'
  BY <1>2, <1>3, <1>4, <1>5, <1>6 DEF AtHead, StillSo, sessionVars, docVars
<1>8. TasksSound'
  BY <1>2, <1>5, <1>6, <1>7, SocketStays DEF TasksSound, sessionVars, docVars
<1>9. \A x \in Pages : OnPage(x)' = OnPage(x) /\ Joined(x)' = Joined(x)
                       /\ Dropping(x)' = Dropping(x)
  BY <1>2 DEF OnPage, Joined, Dropping, sessionVars
<1>10. HeldIsLive' /\ CountsSessions' /\ PresenceMatchesSessions' /\ RightsEndWithSession'
       /\ IsFiniteSet(pageWorkspace')
  BY <1>2, <1>9 DEF PInv, HeldIsLive, CountsSessions, PresenceMatchesSessions,
                    RightsEndWithSession, sessionVars, docVars
<1>11. RoomIsForSessions'
  BY <1>2, <1>5, <1>6 DEF PInv, RoomIsForSessions, Waiting, sessionVars
<1>12. TypeOK'
  BY <1>2, <1>5, <1>6 DEF PInv, TypeOK, memberVars, sessionVars, docVars
<1> QED
  BY <1>8, <1>10, <1>11, <1>12 DEF PInv

LEMMA RoleKeeps ==
  ASSUME PInv, NEW u \in Users, NEW r \in Roles, RoleChanges(u, r)
  PROVE  PInv'
<1>1. UNCHANGED <<connected, queue, run, sessionVars, room, docVars>>
  BY DEF RoleChanges
<1>2. TypeOK'
  <2>1. role' \in [Users -> Roles]
    BY DEF RoleChanges, PInv, TypeOK
  <2>2. changes \in Nat /\ changes' \in 0..MaxChanges
    BY BoundsAssumption DEF RoleChanges, PInv, TypeOK
  <2>3. notes' \in SUBSET [user : Users, role : Roles, nr : Nat]
    BY <2>2 DEF RoleChanges, PInv, TypeOK
  <2> QED
    BY <1>1, <2>1, <2>2, <2>3 DEF PInv, TypeOK, sessionVars, docVars
<1>3. TasksSound'
  BY <1>1, SocketStays DEF TasksSound, sessionVars, docVars
<1> QED
  BY <1>1, <1>2, <1>3, SessionsStand

\* The pages applyMembership finds are finitely many, and listed.
LEMMA PagesAreListed ==
  ASSUME NEW S, IsFiniteSet(S)
  PROVE  SetToSeq(S) \in Seq(S) /\ DOMAIN SetToSeq(S) = 1..Cardinality(S)
<1>1. Cardinality(S) \in Nat /\ ExistsBijection(1..Cardinality(S), S)
  BY FS_CardinalityType
<1>2. \E f \in [1..Cardinality(S) -> S] : IsInjective(f)
  BY <1>1 DEF ExistsBijection, Bijection, Injection
<1>3. SetToSeq(S) \in [1..Cardinality(S) -> S]
  BY <1>2 DEF SetToSeq
<1> QED
  BY <1>1, <1>3

\* A function over 1..n is a sequence of length n.
LEMMA ListsAreSequences ==
  ASSUME NEW T, NEW n \in Nat, NEW f \in [1..n -> T]
  PROVE  f \in Seq(T) /\ Len(f) = n
  OBVIOUS

LEMMA MembershipKeeps ==
  ASSUME PInv, NEW note \in notes, MembershipApplied(note)
  PROVE  PInv'
<1> DEFINE told(s) == [k \in DOMAIN SetToSeq(Targets(s, note.user)) |->
                         [kind |-> "member", page |-> SetToSeq(Targets(s, note.user))[k],
                          role |-> note.role]]
<1>1. UNCHANGED <<role, changes, connected, run, sessionVars, room, docVars>>
      /\ notes' = notes \ {note} /\ queue' = [s \in Sockets |-> queue[s] \o told(s)]
  BY DEF MembershipApplied
<1>2. \A s \in Sockets : told(s) \in Seq(Task)
                         /\ \A i \in 1..Len(told(s)) : told(s)[i].kind # "disconnect"
  <2> SUFFICES ASSUME NEW s \in Sockets
               PROVE  told(s) \in Seq(Task)
                      /\ \A i \in 1..Len(told(s)) : told(s)[i].kind # "disconnect"
    OBVIOUS
  <2> DEFINE S == Targets(s, note.user)  pages == SetToSeq(S)
  <2>1. S \subseteq Pages /\ IsFiniteSet(S)
    <3>1. S \subseteq pageWorkspace /\ IsFiniteSet(pageWorkspace) /\ pageWorkspace \subseteq Pages
      BY DEF Targets, PInv, TypeOK
    <3> QED
      BY <3>1, FS_Subset
  <2>2. pages \in Seq(S) /\ DOMAIN pages = 1..Cardinality(S) /\ Cardinality(S) \in Nat
    BY <2>1, PagesAreListed, FS_CardinalityType
  <2> HIDE DEF S, pages
  <2>3. note.role \in Roles
    BY DEF PInv, TypeOK
  <2>4. told(s) = [k \in 1..Cardinality(S) |->
                     [kind |-> "member", page |-> pages[k], role |-> note.role]]
    BY <2>2 DEF S, pages
  <2>5. \A k \in 1..Cardinality(S) :
          [kind |-> "member", page |-> pages[k], role |-> note.role] \in Task
    BY <2>1, <2>2, <2>3 DEF Task
  <2>6. told(s) \in [1..Cardinality(S) -> Task]
    BY <2>4, <2>5
  <2>7. told(s) \in Seq(Task) /\ Len(told(s)) = Cardinality(S)
    BY <2>2, <2>6, ListsAreSequences
  <2> QED
    BY <2>4, <2>7
<1> HIDE DEF told
<1>3. \A s \in Sockets : queue[s] \in Seq(Task) /\ AtHead(s) /\ StillSo(s)
  BY DEF PInv, TypeOK, TasksSound
<1>4. \A s \in Sockets :
        /\ queue'[s] \in Seq(Task)
        /\ queue[s] # <<>> => queue'[s] # <<>> /\ Head(queue'[s]) = Head(queue[s])
        /\ HoldsDisconnect(queue'[s]) => HoldsDisconnect(queue[s])
  BY <1>1, <1>2, <1>3, QueueConcat
<1>5. queue' \in [Sockets -> Seq(Task)]
  BY <1>1, <1>4
<1>6. TypeOK'
  BY <1>1, <1>5 DEF PInv, TypeOK, sessionVars, docVars
<1>7. TasksSound'
  <2> SUFFICES ASSUME NEW s \in Sockets PROVE (AtHead(s) /\ StillSo(s))'
    BY DEF TasksSound
  <2> QED
    BY <1>1, <1>3, <1>4 DEF AtHead, StillSo, sessionVars, docVars
<1>8. \A s \in Sockets : run[s].pc = "loading" => Head(queue'[s]) = Head(queue[s])
  BY <1>3, <1>4 DEF AtHead
<1> QED
  BY <1>1, <1>6, <1>7, <1>8, SessionsStand

-----------------------------------------------------------------------------
(* The theorems                                                             *)

LEMMA StepKeeps == ASSUME PInv, [Next]_vars PROVE PInv'
<1>1. CASE UNCHANGED vars
  <2>1. TypeOK' /\ UNCHANGED <<connected, sessionVars, docVars, room, queue, run>>
    BY <1>1 DEF PInv, TypeOK, vars, memberVars, sessionVars, docVars
  <2>2. TasksSound'
    BY <2>1, SocketStays DEF TasksSound, sessionVars, docVars
  <2> QED
    BY <2>1, <2>2, SessionsStand
<1>2. ASSUME NEW s \in Sockets, ClientSends(s) \/ Disconnects(s) \/ Starts(s) \/ Goes(s)
      PROVE  PInv'
  <2>1. CASE ClientSends(s)
    BY <2>1, SendKeeps
  <2>2. CASE Disconnects(s)
    BY <2>2, DeathKeeps
  <2>3. CASE JoinStarts(s) \/ EventStarts(s) \/ AuthorizeReads(s)
               \/ ReleaseEnds(s) \/ DisconnectEnds(s)
    BY <2>3, ReadingKeeps
  <2>4. CASE LeaveStarts(s) \/ Refused(s)
    BY <2>4, LeavingKeeps
  <2>5. CASE DisconnectStarts(s) \/ DisconnectDrops(s)
    BY <2>5, DisconnectKeeps
  <2>6. CASE UpdateGranted(s) \/ CursorGranted(s)
    BY <2>6, GrantedKeeps
  <2>7. CASE MemberStarts(s)
    BY <2>7, MemberKeeps
  <2>8. CASE JoinGranted(s)
    <3>1. queue[s] # <<>>
      BY <2>8 DEF PInv, TasksSound, AtHead, JoinGranted, Granted
    <3>2. Head(queue[s]).page \in Pages
      BY <3>1, TaskOfSocket
    <3> QED
      BY <2>8, <3>2, JoinKeeps
  <2> QED
    BY <1>2, <2>1, <2>2, <2>3, <2>4, <2>5, <2>6, <2>7, <2>8 DEF Starts, Goes
<1>3. ASSUME NEW p \in Pages, LoadEnds(p) \/ LoadFails(p) \/ Unloads(p) PROVE PInv'
  BY <1>3, LoadKeeps, FailedLoadKeeps, UnloadKeeps
<1> QED
  BY <1>1, <1>2, <1>3, RoleKeeps, MembershipKeeps DEF Next

\* Sessions, references, participants and rooms stay in step, through every
\* interleaving of the tasks of PagesGateway: the inductive invariant.
THEOREM SessionsInvariant == Spec => []PInv
BY InitHolds, StepKeeps, PTL DEF Spec

\* Every variable has its type; in particular no queue holds a broken task.
THEOREM SessionsTyped == Spec => []TypeOK
<1>1. PInv => TypeOK
  BY DEF PInv
<1> QED
  BY <1>1, SessionsInvariant, PTL

\* The live document's counter is the number of sockets on the page, and a page
\* somebody has joined is in memory (pages.gateway.ts:56-57), for any number of
\* sockets, pages and waiting tasks.
THEOREM RefsAreSessions == Spec => []RefsCountSessions
<1>1. PInv => RefsCountSessions
  BY DEF PInv, CountsSessions, HeldIsLive, RefsCountSessions, OnPage
<1> QED
  BY <1>1, SessionsInvariant, PTL

\* The participants shown are the sockets on the page, and applyMembership finds
\* every page with participants.
THEOREM PresenceIsSessions == Spec => []PresenceMatchesSessions
<1>1. PInv => PresenceMatchesSessions
  BY DEF PInv
<1> QED
  BY <1>1, SessionsInvariant, PTL

\* Rights, cursors and rooms end with the session they were given to, by
\* whichever way it ends: leave, removal, death, or a load that fails.
THEOREM SessionsLeaveNothing == Spec => []NothingOutlivesSession
<1>1. PInv => NothingOutlivesSession
  BY DEF PInv, NothingOutlivesSession
<1> QED
  BY <1>1, SessionsInvariant, PTL

-----------------------------------------------------------------------------
(* Every page's live document is leased to the sockets: each step is a step *)
(* of PageLease for every page, or changes nothing its lessees see.         *)

\* Socket s waits for the load of p.
Awaits(s, p) == run[s].pc = "loading" /\ Head(queue[s]).page = p

LEMMA LeaseIs ==
  ASSUME NEW s \in Sockets, NEW p \in Pages
  PROVE  LeaseOf(s, p) = IF s \in OnPage(p) THEN "in"
                         ELSE IF Awaits(s, p) /\ connected[s] THEN "opening" ELSE "out"
BY DEF LeaseOf, OnPage, Awaits, Waiting

LEMMA LeaseBecomes ==
  ASSUME NEW s \in Sockets, NEW p \in Pages
  PROVE  LeaseOf(s, p)' =
           IF p \in socketPages'[s] \/ p \in run'[s].pages THEN "in"
           ELSE IF run'[s].pc = "loading" /\ Head(queue'[s]).page = p /\ connected'[s]
                THEN "opening" ELSE "out"
BY DEF LeaseOf, Joined, Dropping, Waiting

LEMMA OnPageIs ==
  ASSUME NEW s \in Sockets, NEW p \in Pages
  PROVE  s \in OnPage(p) <=> p \in socketPages[s] \/ p \in run[s].pages
BY DEF OnPage, Joined, Dropping

\* Who is on a page does not await it, and awaits one page at most.
LEMMA AwaitsAlone ==
  ASSUME PInv, NEW s \in Sockets, run[s].pc = "loading"
  PROVE  /\ Head(queue[s]).page \in Pages /\ doc[Head(queue[s]).page] = "loading"
         /\ run[s].pages = {} /\ queue[s] # <<>>
<1>1. AtHead(s) /\ StillSo(s)
  BY DEF PInv, TasksSound
<1>2. queue[s] # <<>> /\ run[s].pages = {}
  BY <1>1 DEF AtHead
<1>3. Head(queue[s]).page \in Pages
  BY <1>2, TaskOfSocket
<1> QED
  BY <1>1, <1>2, <1>3 DEF StillSo

\* Nothing a lessee of p sees is changed.
SeesNoChange(p) ==
  /\ \A s \in Sockets : LeaseOf(s, p)' = LeaseOf(s, p)
  /\ doc'[p] = "live" <=> doc[p] = "live"

LEMMA NoChange ==
  ASSUME NEW p \in Pages, SeesNoChange(p)
  PROVE  UNCHANGED Lease(p)!leaseVars
BY DEF SeesNoChange, Lease!leaseVars

\* Socket s takes a step of its own; the others are where they were.
OneSteps(s) ==
  \A x \in Sockets \ {s} :
    /\ connected'[x] = connected[x] /\ socketPages'[x] = socketPages[x]
    /\ run'[x] = run[x] /\ queue'[x] = queue[x]

LEMMA OthersSeen ==
  ASSUME NEW s \in Sockets, OneSteps(s), NEW p \in Pages
  PROVE  \A x \in Sockets \ {s} : LeaseOf(x, p)' = LeaseOf(x, p)
<1> SUFFICES ASSUME NEW x \in Sockets \ {s} PROVE LeaseOf(x, p)' = LeaseOf(x, p)
  OBVIOUS
<1>1. (x \in OnPage(p))' <=> x \in OnPage(p)
  BY DEF OneSteps, OnPage, Joined, Dropping
<1>2. Awaits(x, p)' <=> Awaits(x, p)
  BY DEF OneSteps, Awaits
<1>3. connected'[x] = connected[x]
  BY DEF OneSteps
<1>4. LeaseOf(x, p)' = IF (x \in OnPage(p))' THEN "in"
                       ELSE IF Awaits(x, p)' /\ connected'[x] THEN "opening" ELSE "out"
  BY DEF LeaseOf, OnPage, Awaits, Waiting
<1> QED
  BY <1>1, <1>2, <1>3, <1>4, LeaseIs

\* What the step of s is to page p.
LEMMA StepOfOne ==
  ASSUME NEW s \in Sockets, OneSteps(s), NEW p \in Pages, doc'[p] = "live" <=> doc[p] = "live",
         \/ LeaseOf(s, p)' = LeaseOf(s, p)
         \/ /\ LeaseOf(s, p) = "out"
            /\ LeaseOf(s, p)' = IF doc[p] = "live" THEN "in" ELSE "opening"
         \/ LeaseOf(s, p) = "in" /\ LeaseOf(s, p)' = "out"
         \/ LeaseOf(s, p) = "opening" /\ LeaseOf(s, p)' = "out"
  PROVE  [Lease(p)!Next]_(Lease(p)!leaseVars)
<1>1. \A x \in Sockets \ {s} : LeaseOf(x, p)' = LeaseOf(x, p)
  BY OthersSeen
<1>2. (doc[p] = "live")' = (doc[p] = "live")
  OBVIOUS
<1>3. CASE LeaseOf(s, p)' = LeaseOf(s, p)
  BY <1>1, <1>3, NoChange DEF SeesNoChange
<1>4. Lease(p)!Move({s}, LeaseOf(s, p)')
  BY <1>1 DEF Lease!Move
<1>5. CASE /\ LeaseOf(s, p) = "out"
           /\ LeaseOf(s, p)' = IF doc[p] = "live" THEN "in" ELSE "opening"
  <2>1. Lease(p)!Acquires(s)
    BY <1>2, <1>4, <1>5 DEF Lease!Acquires
  <2> QED
    BY <2>1 DEF Lease!Next
<1>6. CASE LeaseOf(s, p) = "in" /\ LeaseOf(s, p)' = "out"
  <2>1. Lease(p)!Move({s}, "out")
    BY <1>4, <1>6
  <2>2. Lease(p)!Releases(s)
    BY <1>2, <1>6, <2>1 DEF Lease!Releases, Lease!MayUnload
  <2> QED
    BY <2>2 DEF Lease!Next
<1>7. CASE LeaseOf(s, p) = "opening" /\ LeaseOf(s, p)' = "out"
  <2>1. Lease(p)!Move({s}, "out")
    BY <1>4, <1>7
  <2>2. Lease(p)!Withdraws(s)
    BY <1>2, <1>7, <2>1 DEF Lease!Withdraws
  <2> QED
    BY <2>2 DEF Lease!Next
<1> QED
  BY <1>3, <1>5, <1>6, <1>7

\* Nobody comes, goes, or stops waiting.
LEMMA QuietLease ==
  ASSUME PInv, UNCHANGED <<connected, socketPages, doc>>,
         \A x \in Sockets : /\ run'[x].pages = run[x].pages
                            /\ run'[x].pc = "loading" <=> run[x].pc = "loading"
                            /\ run[x].pc = "loading" => Head(queue'[x]) = Head(queue[x])
  PROVE  \A p \in Pages : [Lease(p)!Next]_(Lease(p)!leaseVars)
<1> SUFFICES ASSUME NEW p \in Pages PROVE SeesNoChange(p)
  BY NoChange
<1>1. ASSUME NEW x \in Sockets PROVE LeaseOf(x, p)' = LeaseOf(x, p)
  <2>1. (x \in OnPage(p))' <=> x \in OnPage(p)
    BY DEF OnPage, Joined, Dropping
  <2>2. Awaits(x, p)' <=> Awaits(x, p)
    BY DEF Awaits
  <2>3. LeaseOf(x, p)' = IF (x \in OnPage(p))' THEN "in"
                         ELSE IF Awaits(x, p)' /\ connected'[x] THEN "opening" ELSE "out"
    BY DEF LeaseOf, OnPage, Awaits, Waiting
  <2> QED
    BY <2>1, <2>2, <2>3, LeaseIs
<1> QED
  BY <1>1 DEF SeesNoChange

\* Steps of a task that change no session.
LEMMA TaskIsQuiet ==
  ASSUME PInv, NEW s \in Sockets, queue[s] # <<>>, run[s].pc # "loading",
         UNCHANGED <<connected, socketPages, doc>>,
         \/ run[s].pages = {} /\ End(s)
         \/ \E q \in Run : /\ q.pages = run[s].pages /\ q.pc # "loading"
                           /\ run' = [run EXCEPT ![s] = q] /\ UNCHANGED queue
  PROVE  \A p \in Pages : [Lease(p)!Next]_(Lease(p)!leaseVars)
<1>1. \A x \in Sockets \ {s} : run'[x] = run[x] /\ queue'[x] = queue[x]
  BY EndType DEF PInv, TypeOK
<1>2. run'[s].pages = run[s].pages /\ run'[s].pc # "loading"
  <2>1. CASE run[s].pages = {} /\ End(s)
    BY <2>1, EndType DEF Resting
  <2>2. CASE \E q \in Run : /\ q.pages = run[s].pages /\ q.pc # "loading"
                            /\ run' = [run EXCEPT ![s] = q] /\ UNCHANGED queue
    BY <2>2 DEF PInv, TypeOK
  <2> QED
    BY <2>1, <2>2
<1> QED
  BY <1>1, <1>2, QuietLease

\* A task that reads, asks or ends, and grants of events.
LEMMA ReadingStep ==
  ASSUME PInv, NEW s \in Sockets,
         \/ JoinStarts(s) \/ EventStarts(s) \/ AuthorizeReads(s) \/ ReleaseEnds(s)
         \/ DisconnectEnds(s) \/ UpdateGranted(s) \/ CursorGranted(s)
  PROVE  /\ queue[s] # <<>> /\ run[s].pc # "loading" /\ run[s].pages = {}
         /\ UNCHANGED <<connected, socketPages, doc>>
         /\ \/ End(s)
            \/ \E q \in Run : /\ q.pages = run[s].pages /\ q.pc \in {"auth", "authed"}
                              /\ run' = [run EXCEPT ![s] = q] /\ UNCHANGED queue
<1>1. AtHead(s) /\ run[s] \in Run /\ run \in [Sockets -> Run]
  BY DEF PInv, TypeOK, TasksSound
<1>2. queue[s] # <<>> /\ run[s].pc # "loading" /\ UNCHANGED <<connected, socketPages, doc>>
      /\ (run[s].pc # "dropping" \/ DisconnectEnds(s))
  BY <1>1 DEF AtHead, JoinStarts, EventStarts, AuthorizeReads, ReleaseEnds, DisconnectEnds,
              UpdateGranted, CursorGranted, Granted, Ready, sessionVars, docVars
<1>3. run[s].pages = {}
  BY <1>1, <1>2 DEF AtHead, DisconnectEnds
<1>4. \/ End(s)
      \/ \E q \in Run : /\ q.pages = run[s].pages /\ q.pc \in {"auth", "authed"}
                        /\ run' = [run EXCEPT ![s] = q] /\ UNCHANGED queue
  <2>1. CASE JoinStarts(s)
    <3>1. CASE End(s)
      BY <3>1
    <3>2. CASE ~End(s)
      <4> DEFINE joined == Head(queue[s]).page \in socketPages[s]
                 q == [run[s] EXCEPT !.pc = "auth", !.already = joined]
      <4>1. run' = [run EXCEPT ![s] = q] /\ UNCHANGED queue
        BY <1>1, <2>1, <3>2 DEF JoinStarts
      <4>2. q \in Run /\ q.pages = run[s].pages /\ q.pc \in {"auth", "authed"}
        <5>1. joined \in BOOLEAN
          OBVIOUS
        <5> HIDE DEF joined
        <5> QED
          BY <1>1, <5>1 DEF Run
      <4> HIDE DEF q
      <4> QED
        BY <4>1, <4>2
    <3> QED
      BY <3>1, <3>2
  <2>2. CASE EventStarts(s)
    <3>1. [run[s] EXCEPT !.pc = "auth"] \in Run
          /\ [run[s] EXCEPT !.pc = "auth"].pages = run[s].pages
          /\ [run[s] EXCEPT !.pc = "auth"].pc = "auth"
      BY <1>1 DEF Run
    <3>2. End(s) \/ (run' = [run EXCEPT ![s] = [run[s] EXCEPT !.pc = "auth"]]
                     /\ UNCHANGED queue)
      BY <1>1, <2>2 DEF EventStarts, Goto
    <3> QED
      BY <3>1, <3>2
  <2>3. CASE AuthorizeReads(s)
    <3>1. PICK access \in {role[UserOf[s]], "none"} :
            run' = [run EXCEPT ![s].pc = "authed", ![s].access = access]
      BY <2>3 DEF AuthorizeReads
    <3>2. access \in Roles
      BY UserOfAssumption DEF PInv, TypeOK, Roles
    <3> DEFINE q == [run[s] EXCEPT !.pc = "authed", !.access = access]
    <3>3. q \in Run /\ q.pages = run[s].pages /\ q.pc \in {"auth", "authed"}
      BY <1>1, <3>2 DEF Run
    <3>4. run' = [run EXCEPT ![s] = q] /\ UNCHANGED queue
      BY <1>1, <2>3, <3>1 DEF AuthorizeReads
    <3> QED
      BY <3>3, <3>4
  <2>4. CASE ReleaseEnds(s) \/ DisconnectEnds(s) \/ UpdateGranted(s) \/ CursorGranted(s)
    BY <2>4 DEF ReleaseEnds, DisconnectEnds, UpdateGranted, CursorGranted
  <2> QED
    BY <2>1, <2>2, <2>3, <2>4
<1> QED
  BY <1>2, <1>3, <1>4

LEMMA ReadingLease ==
  ASSUME PInv, NEW s \in Sockets,
         \/ JoinStarts(s) \/ EventStarts(s) \/ AuthorizeReads(s) \/ ReleaseEnds(s)
         \/ DisconnectEnds(s) \/ UpdateGranted(s) \/ CursorGranted(s)
  PROVE  \A p \in Pages : [Lease(p)!Next]_(Lease(p)!leaseVars)
BY ReadingStep, TaskIsQuiet

\* The membership tasks that one socket gets.
LEMMA MemberTasks ==
  ASSUME PInv, NEW x \in Sockets, NEW note \in notes, MembershipApplied(note)
  PROVE  \E tasks \in Seq(Task) : /\ queue'[x] = queue[x] \o tasks
                                 /\ \A i \in 1..Len(tasks) : tasks[i].kind # "disconnect"
<1> DEFINE pages == SetToSeq(Targets(x, note.user))
           tasks == [k \in DOMAIN pages |->
                       [kind |-> "member", page |-> pages[k], role |-> note.role]]
<1>1. queue'[x] = queue[x] \o tasks
  BY DEF MembershipApplied
<1>2. tasks \in Seq(Task)
  <2>1. Targets(x, note.user) \subseteq Pages /\ IsFiniteSet(Targets(x, note.user))
    <3>1. Targets(x, note.user) \subseteq pageWorkspace
      BY DEF Targets
    <3> QED
      BY <3>1, FS_Subset DEF PInv, TypeOK
  <2>2. pages \in Seq(Targets(x, note.user))
        /\ DOMAIN pages = 1..Cardinality(Targets(x, note.user))
        /\ Cardinality(Targets(x, note.user)) \in Nat
    BY <2>1, PagesAreListed, FS_CardinalityType
  <2>3. note.role \in Roles
    BY DEF PInv, TypeOK
  <2> HIDE DEF pages
  <2>4. \A k \in DOMAIN pages : pages[k] \in Pages
    BY <2>1, <2>2
  <2>5. tasks \in [1..Cardinality(Targets(x, note.user)) -> Task]
    BY <2>2, <2>3, <2>4 DEF Task
  <2> HIDE DEF tasks
  <2> QED
    BY <2>2, <2>5, ListsAreSequences
<1>3. \A i \in 1..Len(tasks) : tasks[i].kind # "disconnect"
  <2>1. \A i \in DOMAIN tasks : tasks[i].kind = "member"
    OBVIOUS
  <2> HIDE DEF tasks
  <2> QED
    BY <1>2, <2>1
<1> HIDE DEF tasks
<1> QED
  BY <1>1, <1>2, <1>3

\* A client sends, and memberships change.
LEMMA QueueingLease ==
  ASSUME PInv, \/ \E s \in Sockets : ClientSends(s)
               \/ \E u \in Users, r \in Roles : RoleChanges(u, r)
               \/ \E note \in notes : MembershipApplied(note)
  PROVE  \A p \in Pages : [Lease(p)!Next]_(Lease(p)!leaseVars)
<1>1. UNCHANGED <<connected, socketPages, doc, run>>
  BY DEF ClientSends, RoleChanges, MembershipApplied, sessionVars, docVars
<1>2. ASSUME NEW x \in Sockets, run[x].pc = "loading"
      PROVE  Head(queue'[x]) = Head(queue[x])
  <2>1. queue[x] # <<>> /\ queue[x] \in Seq(Task)
    BY <1>2, AwaitsAlone DEF PInv, TypeOK
  <2>2. CASE \E s \in Sockets : ClientSends(s)
    <3>1. PICK s \in Sockets : ClientSends(s)
      BY <2>2
    <3>2. PICK k \in ClientKinds, p \in Pages :
            queue' = [queue EXCEPT ![s] =
                        Append(@, [kind |-> k, page |-> p, role |-> "none"])]
      BY <3>1 DEF ClientSends
    <3> DEFINE t == [kind |-> k, page |-> p, role |-> "none"]
    <3>3. t \in Task
      BY DEF Task, Roles
    <3>4. queue'[x] = queue[x] \/ queue'[x] = Append(queue[x], t)
      BY <3>2 DEF PInv, TypeOK
    <3> HIDE DEF t
    <3> QED
      BY <2>1, <3>3, <3>4, QueueAppend
  <2>3. CASE \E u \in Users, r \in Roles : RoleChanges(u, r)
    BY <2>3 DEF RoleChanges
  <2>4. CASE \E note \in notes : MembershipApplied(note)
    BY <2>1, <2>4, MemberTasks, QueueConcat
  <2> QED
    BY <2>2, <2>3, <2>4
<1> QED
  BY <1>1, <1>2, QuietLease

\* A socket dies: who was waiting for a load has given up.
LEMMA DeathLease ==
  ASSUME PInv, NEW s \in Sockets, Disconnects(s)
  PROVE  \A p \in Pages : [Lease(p)!Next]_(Lease(p)!leaseVars)
<1> SUFFICES ASSUME NEW p \in Pages PROVE [Lease(p)!Next]_(Lease(p)!leaseVars)
  OBVIOUS
<1>1. OneSteps(s) /\ UNCHANGED <<run, socketPages, doc>> /\ ~connected'[s]
  BY DEF Disconnects, OneSteps, sessionVars, docVars, PInv, TypeOK
<1>2. (s \in OnPage(p))' <=> s \in OnPage(p)
  BY <1>1 DEF OnPage, Joined, Dropping
<1>3. LeaseOf(s, p)' = IF s \in OnPage(p) THEN "in" ELSE "out"
  BY <1>1, <1>2 DEF LeaseOf, OnPage, Waiting
<1>4. LeaseOf(s, p)' = LeaseOf(s, p) \/ (LeaseOf(s, p) = "opening" /\ LeaseOf(s, p)' = "out")
  BY <1>3, LeaseIs
<1> QED
  BY <1>1, <1>4, StepOfOne

\* Socket s, which waits for no load, is off the pages `left` and on the others as before.
LEMMA OffLease ==
  ASSUME PInv, NEW s \in Sockets, OneSteps(s), UNCHANGED doc,
         run[s].pc # "loading", run'[s].pc # "loading",
         NEW left,
         \A p \in Pages : (s \in OnPage(p))' <=> s \in OnPage(p) /\ p # left
  PROVE  \A p \in Pages : [Lease(p)!Next]_(Lease(p)!leaseVars)
<1> SUFFICES ASSUME NEW p \in Pages PROVE [Lease(p)!Next]_(Lease(p)!leaseVars)
  OBVIOUS
<1>1. LeaseOf(s, p) = IF s \in OnPage(p) THEN "in" ELSE "out"
  BY LeaseIs DEF Awaits
<1>2. LeaseOf(s, p)' = IF (s \in OnPage(p))' THEN "in" ELSE "out"
  BY DEF LeaseOf, OnPage, Waiting
<1>3. LeaseOf(s, p)' = LeaseOf(s, p) \/ (LeaseOf(s, p) = "in" /\ LeaseOf(s, p)' = "out")
  BY <1>1, <1>2
<1> QED
  BY <1>3, StepOfOne

LEMMA LeaveLease ==
  ASSUME PInv, NEW s \in Sockets, NEW p \in Pages, queue[s] # <<>>, run[s].pages = {},
         run[s].pc # "loading", LeavePage(s, p), UNCHANGED connected
  PROVE  \A x \in Pages : [Lease(x)!Next]_(Lease(x)!leaseVars)
<1>1. run[s] \in Run /\ socketPages'[s] = socketPages[s] \ {p} /\ UNCHANGED doc
      /\ \A x \in Sockets \ {s} : socketPages'[x] = socketPages[x]
  BY DEF LeavePage, Release, docVars, PInv, TypeOK
<1>2. /\ \A x \in Sockets \ {s} : run'[x] = run[x] /\ queue'[x] = queue[x]
      /\ run'[s].pages = {} /\ run'[s].pc # "loading"
  <2>1. CASE Goto(s, "releasing")
    <3>1. run' = [run EXCEPT ![s] = [run[s] EXCEPT !.pc = "releasing"]] /\ UNCHANGED queue
      BY <2>1 DEF Goto, PInv, TypeOK
    <3>2. [run[s] EXCEPT !.pc = "releasing"].pages = {}
          /\ [run[s] EXCEPT !.pc = "releasing"].pc = "releasing"
      BY <1>1 DEF Run
    <3> QED
      BY <3>1, <3>2 DEF PInv, TypeOK
  <2>2. CASE End(s)
    BY <2>2, EndType DEF Resting
  <2> QED
    BY <2>1, <2>2 DEF LeavePage
<1>3. \A x \in Pages : (s \in OnPage(x))' <=> s \in OnPage(x) /\ x # p
  BY <1>1, <1>2 DEF OnPage, Joined, Dropping
<1>4. OneSteps(s)
  BY <1>1, <1>2 DEF OneSteps
<1> QED
  BY <1>1, <1>2, <1>3, <1>4, OffLease

\* leave, a membership that ends, an authorization that is refused.
LEMMA LeavingLease ==
  ASSUME PInv, NEW s \in Sockets, LeaveStarts(s) \/ MemberStarts(s) \/ Refused(s)
  PROVE  \A p \in Pages : [Lease(p)!Next]_(Lease(p)!leaseVars)
<1>1. AtHead(s)
  BY DEF PInv, TasksSound
<1>2. queue[s] # <<>> /\ run[s].pages = {} /\ run[s].pc # "loading" /\ UNCHANGED connected
  BY <1>1 DEF AtHead, LeaveStarts, MemberStarts, Refused, Ready
<1>3. Head(queue[s]).page \in Pages
  BY <1>2, TaskOfSocket
<1>4. \/ LeavePage(s, Head(queue[s]).page)
      \/ End(s) /\ UNCHANGED <<socketPages, doc>>
  BY DEF LeaveStarts, MemberStarts, Refused, sessionVars, docVars
<1> QED
  BY <1>2, <1>3, <1>4, LeaveLease, TaskIsQuiet

LEMMA DropLease ==
  ASSUME PInv, NEW s \in Sockets, run[s].pc # "loading", UNCHANGED connected,
         socketPages' = [socketPages EXCEPT ![s] = {}],
         NEW p, Drop(s, p, (socketPages[s] \cup run[s].pages) \ {p})
  PROVE  \A x \in Pages : [Lease(x)!Next]_(Lease(x)!leaseVars)
<1> DEFINE others == (socketPages[s] \cup run[s].pages) \ {p}
           q == [run[s] EXCEPT !.pc = "dropping", !.pages = others]
<1>1. run[s] \in Run /\ socketPages \in [Sockets -> SUBSET Pages] /\ run \in [Sockets -> Run]
  BY DEF PInv, TypeOK
<1>2. run' = [run EXCEPT ![s] = q] /\ UNCHANGED <<queue, doc>>
  BY <1>1 DEF Drop, Release
<1>3. q.pc = "dropping" /\ q.pages = others
  BY <1>1 DEF Run
<1>4. run'[s] = q /\ socketPages'[s] = {}
  BY <1>1, <1>2
<1>5. OneSteps(s)
  BY <1>1, <1>2 DEF OneSteps
<1> HIDE DEF q
<1>6. \A x \in Pages : (s \in OnPage(x))' <=> s \in OnPage(x) /\ x # p
  BY <1>3, <1>4 DEF OnPage, Joined, Dropping
<1> QED
  BY <1>2, <1>3, <1>4, <1>5, <1>6, OffLease

\* disconnect, at its start and page by page.
LEMMA DroppingLease ==
  ASSUME PInv, NEW s \in Sockets, DisconnectStarts(s) \/ DisconnectDrops(s)
  PROVE  \A p \in Pages : [Lease(p)!Next]_(Lease(p)!leaseVars)
<1>1. AtHead(s) /\ socketPages \in [Sockets -> SUBSET Pages]
  BY DEF PInv, TypeOK, TasksSound
<1>2. queue[s] # <<>> /\ run[s].pc # "loading" /\ UNCHANGED connected
  BY <1>1 DEF AtHead, DisconnectStarts, DisconnectDrops, Ready
<1>3. CASE DisconnectStarts(s)
  <2>1. run[s].pages = {}
    BY <1>1, <1>3 DEF AtHead, DisconnectStarts, Ready
  <2>2. socketPages[s] = socketPages[s] \cup run[s].pages
    BY <2>1
  <2>3. CASE \E p \in socketPages[s] : Drop(s, p, socketPages[s] \ {p})
    <3>1. socketPages' = [socketPages EXCEPT ![s] = {}]
      BY <1>3 DEF DisconnectStarts
    <3> QED
      BY <1>2, <2>2, <2>3, <3>1, DropLease
  <2>4. CASE socketPages[s] = {} /\ End(s) /\ UNCHANGED docVars
    <3>1. UNCHANGED <<socketPages, doc>>
      BY <1>1, <1>3, <2>4 DEF DisconnectStarts, docVars
    <3> QED
      BY <1>2, <2>1, <2>4, <3>1, TaskIsQuiet
  <2> QED
    BY <1>3, <2>3, <2>4 DEF DisconnectStarts
<1>4. CASE DisconnectDrops(s)
  <2>1. PICK p \in run[s].pages : Drop(s, p, run[s].pages \ {p})
    BY <1>4 DEF DisconnectDrops
  <2>2. socketPages[s] = {}
    BY <1>1, <1>4 DEF AtHead, DisconnectDrops
  <2>3. socketPages' = [socketPages EXCEPT ![s] = {}]
    BY <1>1, <1>4, <2>2 DEF DisconnectDrops
  <2>4. run[s].pages = socketPages[s] \cup run[s].pages
    BY <2>2
  <2> QED
    BY <1>2, <2>1, <2>3, <2>4, DropLease
<1> QED
  BY <1>3, <1>4

-----------------------------------------------------------------------------
(* Coming in                                                                *)

LEMMA JoinLease ==
  ASSUME PInv, NEW s \in Sockets, JoinGranted(s)
  PROVE  \A x \in Pages : [Lease(x)!Next]_(Lease(x)!leaseVars)
<1> SUFFICES ASSUME NEW x \in Pages PROVE [Lease(x)!Next]_(Lease(x)!leaseVars)
  OBVIOUS
<1> DEFINE p == Head(queue[s]).page
<1>1. AtHead(s) /\ StillSo(s) /\ run[s] \in Run /\ run \in [Sockets -> Run]
      /\ socketPages \in [Sockets -> SUBSET Pages] /\ doc \in [Pages -> {"absent", "loading", "live"}]
  BY DEF PInv, TypeOK, TasksSound
<1>2. queue[s] # <<>> /\ run[s].pages = {} /\ run[s].pc = "authed" /\ connected[s]
      /\ Head(queue[s]).kind = "join" /\ UNCHANGED connected
  BY <1>1 DEF AtHead, JoinGranted, Granted
<1>3. p \in Pages /\ (run[s].already <=> p \in socketPages[s])
  BY <1>1, <1>2, TaskOfSocket DEF StillSo
<1>4. LeaseOf(s, x) = IF x \in socketPages[s] THEN "in" ELSE "out"
  BY <1>2, LeaseIs, OnPageIs DEF Awaits
<1>5. CASE doc[p] = "live"
  <2>1. End(s) /\ Register({s}, p) /\ UNCHANGED doc
    BY <1>5 DEF JoinGranted
  <2>2. run'[s] = Resting /\ \A y \in Sockets \ {s} : run'[y] = run[y] /\ queue'[y] = queue[y]
    BY <1>2, <2>1, EndType
  <2>3. \A y \in Sockets : socketPages'[y] = IF y = s THEN socketPages[y] \cup {p}
                                             ELSE socketPages[y]
    BY <2>1 DEF Register
  <2>4. OneSteps(s)
    BY <1>2, <2>2, <2>3 DEF OneSteps
  <2>5. LeaseOf(s, x)' = IF x \in socketPages[s] \cup {p} THEN "in" ELSE "out"
    <3>1. run'[s].pages = {} /\ run'[s].pc = "idle"
      BY <2>2 DEF Resting
    <3> QED
      BY <2>3, <3>1, LeaseBecomes
  <2>6. LeaseOf(s, x)' = LeaseOf(s, x)
        \/ (LeaseOf(s, x) = "out" /\ LeaseOf(s, x)' = "in" /\ doc[x] = "live")
    BY <1>4, <1>5, <2>5
  <2> QED
    BY <2>1, <2>4, <2>6, StepOfOne
<1>6. CASE doc[p] # "live"
  <2> DEFINE q == [run[s] EXCEPT !.pc = "loading"]
  <2>1. p \notin socketPages[s]
    BY <1>3, <1>6, NobodyOnUnloaded
  <2>2. run' = [run EXCEPT ![s] = q] /\ doc' = [doc EXCEPT ![p] = "loading"]
        /\ UNCHANGED <<queue, socketPages>>
    BY <1>1, <1>6 DEF JoinGranted, Goto, sessionVars
  <2>3. q.pc = "loading" /\ q.pages = {}
    BY <1>1, <1>2 DEF Run
  <2> HIDE DEF q
  <2>4. run'[s] = q /\ OneSteps(s)
    BY <1>1, <1>2, <2>2 DEF OneSteps
  <2>5. doc'[x] = "live" <=> doc[x] = "live"
    BY <1>1, <1>3, <1>6, <2>2
  <2>6. LeaseOf(s, x)' = IF x \in socketPages[s] THEN "in"
                         ELSE IF x = p THEN "opening" ELSE "out"
    BY <1>2, <2>2, <2>3, <2>4 DEF LeaseOf, Joined, Dropping, Waiting
  <2>7. LeaseOf(s, x)' = LeaseOf(s, x)
        \/ (LeaseOf(s, x) = "out" /\ LeaseOf(s, x)' = "opening" /\ doc[x] # "live")
    BY <1>4, <1>6, <2>1, <2>6
  <2> QED
    BY <2>4, <2>5, <2>7, StepOfOne
<1> QED
  BY <1>5, <1>6

\* A load ends in LoadEnds or LoadFails: who waited for p and lives is at
\* `state` of it, who died is not on it, and nobody else sees anything.
LEMMA WaitersLease ==
  ASSUME PInv, NEW p \in Pages, doc[p] = "loading", NEW S, NEW R,
         S \cup R = Waiting(p), EndAll(S, R), UNCHANGED connected,
         \A s \in R : ~connected[s],
         \A x \in Pages \ {p} : doc'[x] = doc[x],
         \/ /\ doc'[p] = "live"
            /\ \A s \in Sockets : socketPages'[s] =
                 IF s \in Waiting(p) /\ connected[s] THEN socketPages[s] \cup {p}
                 ELSE socketPages[s]
         \/ doc'[p] # "live" /\ UNCHANGED socketPages
  PROVE  \A x \in Pages : [Lease(x)!Next]_(Lease(x)!leaseVars)
<1>1. run \in [Sockets -> Run] /\ Waiting(p) \subseteq Sockets
  BY DEF PInv, TypeOK, Waiting
<1>2. ASSUME NEW s \in Waiting(p)
      PROVE  /\ run'[s].pages = {} /\ run'[s].pc # "loading"
             /\ run[s].pages = {} /\ Awaits(s, p) /\ s \in Sockets
             /\ \A x \in Pages : Awaits(s, x) => x = p
  <2>1. run[s] \in Run /\ s \in Sockets /\ run[s].pages = {} /\ Awaits(s, p)
    BY <1>1, AwaitsAlone DEF Waiting, Awaits
  <2>2. CASE s \in S
    <3>1. run'[s] = Resting
      BY <2>1, <2>2 DEF EndAll
    <3>2. Resting.pages = {} /\ Resting.pc = "idle"
      BY DEF Resting
    <3> QED
      BY <2>1, <3>1, <3>2 DEF Awaits
  <2>3. CASE s \in R /\ s \notin S
    <3>1. run'[s] = [run[s] EXCEPT !.pc = "releasing"]
      BY <2>1, <2>3 DEF EndAll
    <3>2. [run[s] EXCEPT !.pc = "releasing"].pages = {}
          /\ [run[s] EXCEPT !.pc = "releasing"].pc = "releasing"
      BY <2>1 DEF Run
    <3> QED
      BY <2>1, <3>1, <3>2 DEF Awaits
  <2> QED
    BY <2>2, <2>3
<1>3. ASSUME NEW s \in Sockets \ Waiting(p), NEW x \in Pages
      PROVE  LeaseOf(s, x)' = LeaseOf(s, x) /\ ~Awaits(s, p)
  <2>1. run'[s] = run[s] /\ queue'[s] = queue[s] /\ socketPages'[s] = socketPages[s]
    BY DEF EndAll
  <2> QED
    BY <2>1, LeaseBecomes, LeaseIs, OnPageIs DEF Awaits, Waiting
<1>4. OnPage(p) = {}
  BY NobodyOnUnloaded
<1>5. ASSUME NEW x \in Pages \ {p} PROVE SeesNoChange(x)
  <2>1. ASSUME NEW s \in Waiting(p) PROVE LeaseOf(s, x)' = LeaseOf(s, x)
    <3>1. x \in socketPages'[s] <=> x \in socketPages[s]
      BY <1>2
    <3> QED
      BY <1>2, <3>1, LeaseBecomes, LeaseIs, OnPageIs
  <2> QED
    BY <1>3, <2>1 DEF SeesNoChange
<1>6. \A s \in Sockets : LeaseOf(s, p) = IF s \in Waiting(p) /\ connected[s]
                                       THEN "opening" ELSE "out"
  BY <1>2, <1>3, <1>4, LeaseIs
<1>7. [Lease(p)!Next]_(Lease(p)!leaseVars)
  <2>1. \A s \in Sockets : p \notin socketPages[s]
    BY <1>4, OnPageIs
  <2>2. Lease(p)!Lessees("in") = {}
    BY <1>6 DEF Lease!Lessees
  <2>3. \A s \in Sockets : s \in Lease(p)!Lessees("opening") <=>
                            s \in Waiting(p) /\ connected[s]
    BY <1>6 DEF Lease!Lessees
  <2>4. CASE doc'[p] = "live"
    <3>1. \A s \in Sockets : LeaseOf(s, p)' =
            IF s \in Waiting(p) /\ connected[s] THEN "in" ELSE LeaseOf(s, p)
      <4> SUFFICES ASSUME NEW s \in Sockets
                   PROVE  LeaseOf(s, p)' = IF s \in Waiting(p) /\ connected[s] THEN "in"
                                           ELSE LeaseOf(s, p)
        OBVIOUS
      <4>1. CASE s \in Waiting(p)
        BY <1>2, <1>6, <2>1, <2>4, <4>1, LeaseBecomes
      <4>2. CASE s \notin Waiting(p)
        BY <1>3, <4>2
      <4> QED
        BY <4>1, <4>2
    <3>2. Lease(p)!Move(Lease(p)!Lessees("opening"), "in")
      BY <2>3, <3>1 DEF Lease!Move
    <3>3. Lease(p)!Opens
      BY <2>2, <2>4, <3>2 DEF Lease!Opens
    <3> QED
      BY <3>3 DEF Lease!Next
  <2>5. CASE doc'[p] # "live"
    <3>1. \A s \in Sockets : LeaseOf(s, p)' =
            IF s \in Waiting(p) /\ connected[s] THEN "out" ELSE LeaseOf(s, p)
      <4> SUFFICES ASSUME NEW s \in Sockets
                   PROVE  LeaseOf(s, p)' = IF s \in Waiting(p) /\ connected[s] THEN "out"
                                           ELSE LeaseOf(s, p)
        OBVIOUS
      <4>1. CASE s \in Waiting(p)
        BY <1>2, <1>6, <2>1, <2>5, <4>1, LeaseBecomes
      <4>2. CASE s \notin Waiting(p)
        BY <1>3, <4>2
      <4> QED
        BY <4>1, <4>2
    <3>2. Lease(p)!Move(Lease(p)!Lessees("opening"), "out")
      BY <2>3, <3>1 DEF Lease!Move
    <3>3. Lease(p)!Refuses
      BY <2>5, <3>2 DEF Lease!Refuses
    <3> QED
      BY <3>3 DEF Lease!Next
  <2> QED
    BY <2>4, <2>5
<1> QED
  BY <1>5, <1>7, NoChange

LEMMA LoadLease ==
  ASSUME PInv, NEW p \in Pages, LoadEnds(p)
  PROVE  \A x \in Pages : [Lease(x)!Next]_(Lease(x)!leaseVars)
<1> DEFINE joined == {s \in Waiting(p) : connected[s]}
           abandoned == {s \in Waiting(p) : ~connected[s] /\ ~run[s].already}
<1>1. doc[p] = "loading" /\ Register(joined, p)
      /\ EndAll(Waiting(p) \ abandoned, abandoned)
      /\ doc' = [doc EXCEPT ![p] = "live"] /\ UNCHANGED connected
  BY DEF LoadEnds
<1>2. \A s \in Sockets : socketPages'[s] =
        IF s \in Waiting(p) /\ connected[s] THEN socketPages[s] \cup {p} ELSE socketPages[s]
  BY <1>1 DEF Register
<1>3. doc'[p] = "live" /\ \A x \in Pages \ {p} : doc'[x] = doc[x]
  BY <1>1 DEF PInv, TypeOK
<1>4. (Waiting(p) \ abandoned) \cup abandoned = Waiting(p) /\ \A s \in abandoned : ~connected[s]
  OBVIOUS
<1> HIDE DEF abandoned
<1> QED
  BY <1>1, <1>2, <1>3, <1>4, WaitersLease

LEMMA FailedLoadLease ==
  ASSUME PInv, NEW p \in Pages, LoadFails(p)
  PROVE  \A x \in Pages : [Lease(x)!Next]_(Lease(x)!leaseVars)
<1>1. doc[p] = "loading" /\ EndAll(Waiting(p), {})
      /\ doc' = [doc EXCEPT ![p] = "absent"] /\ UNCHANGED <<connected, socketPages>>
  BY DEF LoadFails, sessionVars
<1>2. doc'[p] # "live" /\ \A x \in Pages \ {p} : doc'[x] = doc[x]
  BY <1>1 DEF PInv, TypeOK
<1>3. Waiting(p) \cup {} = Waiting(p) /\ \A s \in {} : ~connected[s]
  OBVIOUS
<1> QED
  BY <1>1, <1>2, <1>3, WaitersLease

\* Only a document that nobody is on is unloaded.
LEMMA UnloadLease ==
  ASSUME PInv, NEW p \in Pages, Unloads(p)
  PROVE  \A x \in Pages : [Lease(x)!Next]_(Lease(x)!leaseVars)
<1>1. doc[p] = "live" /\ refs[p] = 0 /\ doc' = [doc EXCEPT ![p] = "absent"]
      /\ UNCHANGED <<connected, queue, run, socketPages>>
  BY DEF Unloads
<1>2. doc'[p] = "absent" /\ \A x \in Pages \ {p} : doc'[x] = doc[x]
  BY <1>1 DEF PInv, TypeOK
<1>3. \A x \in Pages, s \in Sockets : LeaseOf(s, x)' = LeaseOf(s, x)
  BY <1>1, LeaseBecomes, LeaseIs, OnPageIs DEF Awaits
<1>4. OnPage(p) = {}
  <2>1. OnPage(p) \subseteq Sockets /\ Cardinality(OnPage(p)) = 0
    BY <1>1 DEF PInv, CountsSessions, OnPage, Joined, Dropping
  <2> QED
    BY <2>1, FiniteAssumption, FS_Subset, FS_EmptySet
<1>5. Lease(p)!Settles
  <2>1. Lease(p)!Lessees("in") = {}
    BY <1>4, LeaseIs DEF Lease!Lessees
  <2>2. Lease(p)!MayUnload(Lease(p)!Lessees("in"))
    BY <1>2, <2>1 DEF Lease!MayUnload
  <2>3. Lease(p)!Move({}, "out")
    BY <1>3 DEF Lease!Move
  <2> QED
    BY <2>2, <2>3 DEF Lease!Settles
<1>6. \A x \in Pages \ {p} : SeesNoChange(x)
  BY <1>2, <1>3 DEF SeesNoChange
<1> QED
  BY <1>5, <1>6, NoChange DEF Lease!Next

LEMMA StepLease ==
  ASSUME PInv, [Next]_vars
  PROVE  \A p \in Pages : [Lease(p)!Next]_(Lease(p)!leaseVars)
<1>1. CASE UNCHANGED vars
  <2>1. UNCHANGED <<connected, queue, run, socketPages, doc>>
    BY <1>1 DEF vars, sessionVars, docVars
  <2> QED
    BY <2>1, QuietLease
<1>2. CASE \E s \in Sockets : Disconnects(s)
  BY <1>2, DeathLease
<1>3. CASE \E s \in Sockets : Starts(s)
  BY <1>3, ReadingLease, LeavingLease, DroppingLease DEF Starts
<1>4. CASE \E s \in Sockets : Goes(s)
  BY <1>4, ReadingLease, LeavingLease, DroppingLease, JoinLease DEF Goes
<1>5. CASE \E p \in Pages : LoadEnds(p) \/ LoadFails(p) \/ Unloads(p)
  BY <1>5, LoadLease, FailedLoadLease, UnloadLease
<1>6. CASE \/ \E s \in Sockets : ClientSends(s)
           \/ \E u \in Users, r \in Roles : RoleChanges(u, r)
           \/ \E note \in notes : MembershipApplied(note)
  BY <1>6, QueueingLease
<1> QED
  BY <1>1, <1>2, <1>3, <1>4, <1>5, <1>6 DEF Next

LEMMA InitLease == Init => \A p \in Pages : Lease(p)!Init
<1> SUFFICES ASSUME Init, NEW p \in Pages PROVE Lease(p)!Init
  OBVIOUS
<1>1. \A s \in Sockets : LeaseOf(s, p) = "out"
  BY LeaseIs, OnPageIs DEF Init, Resting, Awaits
<1> QED
  BY <1>1 DEF Init, Lease!Init

LEMMA PageIsLeased == ASSUME NEW p \in Pages PROVE Spec => Lease(p)!Spec
<1>1. Init => Lease(p)!Init
  BY InitLease
<1>2. PInv /\ [Next]_vars => [Lease(p)!Next]_(Lease(p)!leaseVars)
  BY StepLease
<1> QED
  BY <1>1, <1>2, SessionsInvariant, PTL DEF Spec, Lease!Spec

\* pages.gateway.ts and pages-yjs.service.ts over yjs-doc.service.ts: whatever
\* the sockets do, through joins of a page being loaded, deaths, refusals and
\* membership changes, they are lessees of every page's live document as
\* PageLease has them.  A socket is on a page only between an acquire and its
\* release; those waiting for a load come in together, none after its death; and
\* no document leaves memory with a socket on its page.
THEOREM SessionsImplementLease == Spec => SocketsAreLessees
BY PageIsLeased DEF SocketsAreLessees

-----------------------------------------------------------------------------
(* A dead socket                                                            *)

OffPages(s) == socketPages[s] = {} /\ run[s].pages = {}

\* Its disconnect stays queued until it is on no page; only that task drops.
DisconnectDue(s) ==
  /\ run[s].pc = "dropping" => Head(queue[s]).kind = "disconnect"
  /\ run[s].pc = "releasing" => Head(queue[s]).kind # "disconnect"
  /\ ~connected[s] => HoldsDisconnect(queue[s]) \/ OffPages(s)

DisconnectsDue == \A s \in Sockets : DisconnectDue(s)

\* The dead do not come in.
OnlyLeaves(s) == ~connected[s] /\ OffPages(s) => OffPages(s)'

LEMMA DisconnectKept ==
  ASSUME NEW q \in Seq(Task), HoldsDisconnect(q)
  PROVE  /\ \A t \in Task : HoldsDisconnect(Append(q, t))
         /\ \A r \in Seq(Task) : HoldsDisconnect(q \o r)
         /\ q # <<>> /\ Head(q).kind # "disconnect" => HoldsDisconnect(Tail(q))
<1>1. PICK i \in 1..Len(q) : q[i].kind = "disconnect"
  BY DEF HoldsDisconnect
<1>2. Len(q) \in Nat
  OBVIOUS
<1>3. ASSUME NEW t \in Task PROVE HoldsDisconnect(Append(q, t))
  <2>1. Len(Append(q, t)) = Len(q) + 1 /\ Append(q, t)[i] = q[i]
    BY <1>1
  <2> QED
    BY <1>1, <1>2, <2>1 DEF HoldsDisconnect
<1>4. ASSUME NEW r \in Seq(Task) PROVE HoldsDisconnect(q \o r)
  <2>1. Len(q \o r) = Len(q) + Len(r) /\ Len(r) \in Nat /\ (q \o r)[i] = q[i]
    BY <1>1, ConcatProperties
  <2> QED
    BY <1>1, <1>2, <2>1 DEF HoldsDisconnect
<1>5. ASSUME q # <<>>, Head(q).kind # "disconnect" PROVE HoldsDisconnect(Tail(q))
  <2>1. Head(q) = q[1] /\ Len(Tail(q)) = Len(q) - 1
        /\ \A j \in 1..Len(Tail(q)) : Tail(q)[j] = q[j + 1]
    BY <1>5
  <2>2. i # 1
    BY <1>1, <1>5, <2>1
  <2>3. i - 1 \in 1..Len(Tail(q)) /\ Tail(q)[i - 1] = q[i]
    BY <1>1, <1>2, <2>1, <2>2
  <2> QED
    BY <1>1, <2>3 DEF HoldsDisconnect
<1> QED
  BY <1>3, <1>4, <1>5

LEMMA LastDisconnect ==
  ASSUME NEW q \in Seq(Task), NEW t \in Task, t.kind = "disconnect"
  PROVE  HoldsDisconnect(Append(q, t))
<1>1. Len(Append(q, t)) = Len(q) + 1 /\ Append(q, t)[Len(q) + 1] = t /\ Len(q) \in Nat
  OBVIOUS
<1> QED
  BY <1>1 DEF HoldsDisconnect

\* The task under way goes on.
LEMMA DueGoesOn ==
  ASSUME NEW s \in Sockets, DisconnectDue(s), OnlyLeaves(s),
         queue'[s] = queue[s], connected'[s] = connected[s],
         \/ run'[s].pc = run[s].pc
         \/ run'[s].pc = "dropping" /\ Head(queue[s]).kind = "disconnect"
         \/ run'[s].pc = "releasing" /\ Head(queue[s]).kind # "disconnect"
         \/ run'[s].pc \notin {"dropping", "releasing"}
  PROVE  DisconnectDue(s)'
BY DEF DisconnectDue, OnlyLeaves, HoldsDisconnect

\* It ends.
LEMMA DueEnds ==
  ASSUME PInv, NEW s \in Sockets, DisconnectDue(s), OnlyLeaves(s), queue[s] # <<>>,
         run'[s] = Resting, queue'[s] = Tail(queue[s]), connected'[s] = connected[s],
         Head(queue[s]).kind # "disconnect" \/ OffPages(s)'
  PROVE  DisconnectDue(s)'
<1>1. run'[s].pc = "idle"
  BY DEF Resting
<1>2. HoldsDisconnect(queue[s]) /\ Head(queue[s]).kind # "disconnect"
        => HoldsDisconnect(Tail(queue[s]))
  BY TaskOfSocket, DisconnectKept
<1>3. HoldsDisconnect(queue[s])' <=> HoldsDisconnect(queue'[s])
  BY DEF HoldsDisconnect
<1> QED
  BY <1>1, <1>2, <1>3 DEF DisconnectDue, OnlyLeaves

\* A step of s: all is as it was for the others.
LEMMA OthersDue ==
  ASSUME NEW s \in Sockets, OneSteps(s), \A x \in Sockets : DisconnectDue(x),
         OnlyLeaves(s), DisconnectDue(s)'
  PROVE  \A x \in Sockets : OnlyLeaves(x) /\ DisconnectDue(x)'
BY DEF OneSteps, OnlyLeaves, OffPages, DisconnectDue, HoldsDisconnect

\* A task ends that is not the disconnect, or goes on without an end of one.
LEMMA TaskDue ==
  ASSUME PInv, \A x \in Sockets : DisconnectDue(x), NEW s \in Sockets, queue[s] # <<>>,
         \A x \in Sockets \ {s} : socketPages'[x] = socketPages[x],
         OnlyLeaves(s), UNCHANGED connected,
         \/ End(s) /\ (Head(queue[s]).kind # "disconnect" \/ OffPages(s)')
         \/ /\ \E q \in Run :
                 /\ run' = [run EXCEPT ![s] = q]
                 /\ \/ q.pc = "dropping" /\ Head(queue[s]).kind = "disconnect"
                    \/ q.pc = "releasing" /\ Head(queue[s]).kind # "disconnect"
                    \/ q.pc \notin {"dropping", "releasing"}
            /\ UNCHANGED queue
  PROVE  \A x \in Sockets : OnlyLeaves(x) /\ DisconnectDue(x)'
<1>1. run \in [Sockets -> Run]
  BY DEF PInv, TypeOK
<1>2. CASE End(s) /\ (Head(queue[s]).kind # "disconnect" \/ OffPages(s)')
  <2>1. /\ run'[s] = Resting /\ queue'[s] = Tail(queue[s])
        /\ \A x \in Sockets \ {s} : run'[x] = run[x] /\ queue'[x] = queue[x]
    BY <1>2, EndType
  <2>2. DisconnectDue(s)'
    BY <1>2, <2>1, DueEnds
  <2>3. OneSteps(s)
    BY <2>1 DEF OneSteps
  <2> QED
    BY <2>2, <2>3, OthersDue
<1>3. CASE /\ \E q \in Run :
                /\ run' = [run EXCEPT ![s] = q]
                /\ \/ q.pc = "dropping" /\ Head(queue[s]).kind = "disconnect"
                   \/ q.pc = "releasing" /\ Head(queue[s]).kind # "disconnect"
                   \/ q.pc \notin {"dropping", "releasing"}
           /\ UNCHANGED queue
  <2>1. PICK q \in Run :
                /\ run' = [run EXCEPT ![s] = q]
                /\ \/ q.pc = "dropping" /\ Head(queue[s]).kind = "disconnect"
                   \/ q.pc = "releasing" /\ Head(queue[s]).kind # "disconnect"
                   \/ q.pc \notin {"dropping", "releasing"}
    BY <1>3
  <2>2. run'[s] = q /\ \A x \in Sockets \ {s} : run'[x] = run[x]
    BY <1>1, <2>1
  <2>3. DisconnectDue(s)'
    BY <1>3, <2>1, <2>2, DueGoesOn
  <2>4. OneSteps(s)
    BY <1>3, <2>2 DEF OneSteps
  <2> QED
    BY <2>3, <2>4, OthersDue
<1> QED
  BY <1>2, <1>3

LEMMA ReadingDue ==
  ASSUME PInv, \A x \in Sockets : DisconnectDue(x), NEW s \in Sockets,
         \/ JoinStarts(s) \/ EventStarts(s) \/ AuthorizeReads(s) \/ ReleaseEnds(s)
         \/ DisconnectEnds(s) \/ UpdateGranted(s) \/ CursorGranted(s)
  PROVE  \A x \in Sockets : OnlyLeaves(x) /\ DisconnectDue(x)'
<1>1. AtHead(s) /\ StillSo(s) /\ DisconnectDue(s) /\ run \in [Sockets -> Run]
  BY DEF PInv, TypeOK, TasksSound
<1>2. /\ queue[s] # <<>> /\ run[s].pages = {}
      /\ UNCHANGED <<connected, socketPages, doc>>
      /\ \/ End(s)
         \/ \E q \in Run : /\ q.pages = run[s].pages /\ q.pc \in {"auth", "authed"}
                           /\ run' = [run EXCEPT ![s] = q] /\ UNCHANGED queue
  BY ReadingStep
<1>3. run'[s].pages = {}
  BY <1>1, <1>2, EndType DEF Resting
<1>4. OnlyLeaves(s)
  BY <1>2, <1>3 DEF OnlyLeaves, OffPages
<1>5. Head(queue[s]).kind # "disconnect" \/ OffPages(s)'
  <2>1. CASE DisconnectEnds(s)
    BY <1>1, <1>2, <1>3, <2>1 DEF AtHead, DisconnectEnds, OffPages
  <2>2. CASE ~DisconnectEnds(s)
    BY <1>1, <2>2 DEF StillSo, DisconnectDue, JoinStarts, EventStarts, AuthorizeReads,
                      ReleaseEnds, UpdateGranted, CursorGranted, Granted, Ready
  <2> QED
    BY <2>1, <2>2
<1> QED
  BY <1>2, <1>4, <1>5, TaskDue

LEMMA LeavingDue ==
  ASSUME PInv, \A x \in Sockets : DisconnectDue(x), NEW s \in Sockets,
         LeaveStarts(s) \/ MemberStarts(s) \/ Refused(s)
  PROVE  \A x \in Sockets : OnlyLeaves(x) /\ DisconnectDue(x)'
<1>1. AtHead(s) /\ StillSo(s) /\ run \in [Sockets -> Run]
      /\ socketPages \in [Sockets -> SUBSET Pages]
  BY DEF PInv, TypeOK, TasksSound
<1>2. queue[s] # <<>> /\ run[s].pages = {} /\ UNCHANGED connected
      /\ Head(queue[s]).kind # "disconnect"
  BY <1>1 DEF AtHead, StillSo, LeaveStarts, MemberStarts, Refused, Ready
<1>3. Head(queue[s]).page \in Pages
  BY <1>2, TaskOfSocket
<1>4. \/ LeavePage(s, Head(queue[s]).page)
      \/ End(s) /\ UNCHANGED socketPages
  BY DEF LeaveStarts, MemberStarts, Refused, sessionVars
<1>5. /\ socketPages'[s] \subseteq socketPages[s]
      /\ \A x \in Sockets \ {s} : socketPages'[x] = socketPages[x]
  BY <1>1, <1>4 DEF LeavePage
<1> DEFINE q == [run[s] EXCEPT !.pc = "releasing"]
<1>6. q \in Run /\ q.pc = "releasing" /\ q.pages = {}
  BY <1>1, <1>2 DEF Run
<1>7. End(s) \/ (run' = [run EXCEPT ![s] = q] /\ UNCHANGED queue)
  BY <1>1, <1>4 DEF LeavePage, Goto
<1> HIDE DEF q
<1>8. run'[s].pages = {}
  BY <1>1, <1>2, <1>6, <1>7, EndType DEF Resting
<1>9. OnlyLeaves(s)
  BY <1>5, <1>8 DEF OnlyLeaves, OffPages
<1> QED
  BY <1>2, <1>5, <1>6, <1>7, <1>9, TaskDue

LEMMA DroppingDue ==
  ASSUME PInv, \A x \in Sockets : DisconnectDue(x), NEW s \in Sockets,
         DisconnectStarts(s) \/ DisconnectDrops(s)
  PROVE  \A x \in Sockets : OnlyLeaves(x) /\ DisconnectDue(x)'
<1>1. AtHead(s) /\ DisconnectDue(s) /\ run \in [Sockets -> Run]
      /\ socketPages \in [Sockets -> SUBSET Pages]
  BY DEF PInv, TypeOK, TasksSound
<1>2. queue[s] # <<>> /\ UNCHANGED connected /\ Head(queue[s]).kind = "disconnect"
  BY <1>1 DEF AtHead, DisconnectDue, DisconnectStarts, DisconnectDrops, Ready
<1>3. socketPages'[s] = {} /\ \A x \in Sockets \ {s} : socketPages'[x] = socketPages[x]
  BY <1>1 DEF AtHead, DisconnectStarts, DisconnectDrops
<1>4. CASE End(s) /\ run[s].pages = {}
  <2>1. run'[s].pages = {}
    BY <1>2, <1>4, EndType DEF Resting
  <2> QED
    BY <1>2, <1>3, <1>4, <2>1, TaskDue DEF OnlyLeaves, OffPages
<1>5. CASE \E p, others : Drop(s, p, others) /\ p \in socketPages[s] \cup run[s].pages
                                           /\ others \subseteq Pages
  <2>1. PICK p, others : Drop(s, p, others) /\ p \in socketPages[s] \cup run[s].pages
                                           /\ others \subseteq Pages
    BY <1>5
  <2> DEFINE q == [run[s] EXCEPT !.pc = "dropping", !.pages = others]
  <2>2. q \in Run /\ q.pc = "dropping"
    BY <1>1, <2>1 DEF Run
  <2>3. run' = [run EXCEPT ![s] = q] /\ UNCHANGED queue
    BY <1>1, <2>1 DEF Drop
  <2>4. OnlyLeaves(s)
    BY <2>1 DEF OnlyLeaves, OffPages
  <2> HIDE DEF q
  <2> QED
    BY <1>2, <1>3, <2>2, <2>3, <2>4, TaskDue
<1>6. run[s].pages \subseteq Pages /\ socketPages[s] \subseteq Pages
  BY <1>1 DEF Run
<1>7. CASE DisconnectStarts(s)
  <2>1. run[s].pages = {}
    BY <1>1, <1>7 DEF AtHead, DisconnectStarts, Ready
  <2>2. CASE \E p \in socketPages[s] : Drop(s, p, socketPages[s] \ {p})
    BY <1>5, <1>6, <2>2
  <2> QED
    BY <1>4, <1>7, <2>1, <2>2 DEF DisconnectStarts
<1>8. CASE DisconnectDrops(s)
  <2>1. PICK p \in run[s].pages : Drop(s, p, run[s].pages \ {p})
    BY <1>8 DEF DisconnectDrops
  <2> QED
    BY <1>5, <1>6, <2>1
<1> QED
  BY <1>7, <1>8

LEMMA JoinDue ==
  ASSUME PInv, \A x \in Sockets : DisconnectDue(x), NEW s \in Sockets, JoinGranted(s)
  PROVE  \A x \in Sockets : OnlyLeaves(x) /\ DisconnectDue(x)'
<1>1. AtHead(s) /\ run \in [Sockets -> Run]
  BY DEF PInv, TypeOK, TasksSound
<1>2. queue[s] # <<>> /\ UNCHANGED connected /\ connected[s]
      /\ Head(queue[s]).kind # "disconnect"
  BY <1>1 DEF AtHead, JoinGranted, Granted
<1>3. \A x \in Sockets \ {s} : socketPages'[x] = socketPages[x]
  BY DEF JoinGranted, Register, sessionVars
<1>4. OnlyLeaves(s)
  BY <1>2 DEF OnlyLeaves
<1> DEFINE q == [run[s] EXCEPT !.pc = "loading"]
<1>5. q \in Run /\ q.pc = "loading"
  BY <1>1 DEF Run
<1>6. End(s) \/ (run' = [run EXCEPT ![s] = q] /\ UNCHANGED queue)
  BY <1>1 DEF JoinGranted, Goto
<1> HIDE DEF q
<1> QED
  BY <1>2, <1>3, <1>4, <1>5, <1>6, TaskDue

LEMMA DeathDue ==
  ASSUME PInv, \A x \in Sockets : DisconnectDue(x), NEW s \in Sockets,
         ClientSends(s) \/ Disconnects(s)
  PROVE  \A x \in Sockets : OnlyLeaves(x) /\ DisconnectDue(x)'
<1>1. queue \in [Sockets -> Seq(Task)] /\ connected \in [Sockets -> BOOLEAN]
      /\ DisconnectDue(s) /\ AtHead(s)
  BY DEF PInv, TypeOK, TasksSound
<1>2. connected[s] /\ UNCHANGED <<run, socketPages>>
  BY DEF ClientSends, Disconnects, sessionVars
<1>3. PICK t \in Task : /\ queue' = [queue EXCEPT ![s] = Append(queue[s], t)]
                        /\ connected'[s] \/ t.kind = "disconnect"
                        /\ \A x \in Sockets \ {s} : connected'[x] = connected[x]
  <2>1. CASE ClientSends(s)
    <3>1. PICK k \in ClientKinds, p \in Pages : queue' = [queue EXCEPT ![s] =
            Append(queue[s], [kind |-> k, page |-> p, role |-> "none"])]
      BY <2>1 DEF ClientSends
    <3> DEFINE t == [kind |-> k, page |-> p, role |-> "none"]
    <3>2. t \in Task
      BY DEF Task, Roles
    <3>3. UNCHANGED connected
      BY <2>1 DEF ClientSends
    <3> HIDE DEF t
    <3> QED
      BY <1>2, <3>1, <3>2, <3>3 DEF t
  <2>2. CASE Disconnects(s)
    <3> DEFINE t == [kind |-> "disconnect", page |-> AnyPage, role |-> "none"]
    <3>1. AnyPage \in Pages
      BY PagesAssumption DEF AnyPage
    <3>2. t \in Task /\ t.kind = "disconnect"
      BY <3>1 DEF Task, Roles
    <3>3. queue' = [queue EXCEPT ![s] = Append(queue[s], t)]
          /\ \A x \in Sockets \ {s} : connected'[x] = connected[x]
      BY <1>1, <2>2 DEF Disconnects
    <3> HIDE DEF t
    <3> QED
      BY <3>2, <3>3
  <2> QED
    BY <2>1, <2>2
<1>4. queue'[s] = Append(queue[s], t) /\ \A x \in Sockets \ {s} : queue'[x] = queue[x]
  BY <1>1, <1>3
<1>5. OneSteps(s) /\ OnlyLeaves(s)
  BY <1>2, <1>3, <1>4 DEF OneSteps, OnlyLeaves
<1>6. run[s].pc # "idle" => Head(queue'[s]) = Head(queue[s])
  BY <1>1, <1>4, QueueAppend DEF AtHead
<1>7. connected'[s] \/ HoldsDisconnect(queue'[s])
  BY <1>1, <1>3, <1>4, LastDisconnect
<1>8. HoldsDisconnect(queue[s])' <=> HoldsDisconnect(queue'[s])
  BY DEF HoldsDisconnect
<1>9. DisconnectDue(s)'
  BY <1>1, <1>2, <1>6, <1>7, <1>8 DEF DisconnectDue
<1> QED
  BY <1>5, <1>9, OthersDue

LEMMA WaitersDue ==
  ASSUME PInv, \A x \in Sockets : DisconnectDue(x), NEW p \in Pages,
         LoadEnds(p) \/ LoadFails(p)
  PROVE  \A x \in Sockets : OnlyLeaves(x) /\ DisconnectDue(x)'
<1> SUFFICES ASSUME NEW s \in Sockets PROVE OnlyLeaves(s) /\ DisconnectDue(s)'
  OBVIOUS
<1>1. AtHead(s) /\ StillSo(s) /\ DisconnectDue(s) /\ run[s] \in Run
  BY DEF PInv, TypeOK, TasksSound
<1>2. UNCHANGED connected /\ (~connected[s] => socketPages'[s] = socketPages[s])
  BY DEF LoadEnds, LoadFails, Register, sessionVars
<1>3. PICK S, R : EndAll(S, R) /\ S \cup R = Waiting(p)
  <2>1. CASE LoadEnds(p)
    <3> DEFINE gone == {x \in Waiting(p) : ~connected[x] /\ ~run[x].already}
    <3>1. EndAll(Waiting(p) \ gone, gone) /\ (Waiting(p) \ gone) \cup gone = Waiting(p)
      BY <2>1 DEF LoadEnds
    <3> HIDE DEF gone
    <3> QED
      BY <3>1
  <2>2. CASE LoadFails(p)
    <3>1. EndAll(Waiting(p), {}) /\ Waiting(p) \cup {} = Waiting(p)
      BY <2>2 DEF LoadFails
    <3> QED
      BY <3>1
  <2> QED
    BY <2>1, <2>2
<1>4. s \in S \cup R => queue[s] # <<>> /\ Head(queue[s]).kind = "join"
  BY <1>1, <1>3 DEF AtHead, StillSo, Waiting
<1>5. CASE s \in S
  <2>1. run'[s] = Resting /\ queue'[s] = Tail(queue[s]) /\ run'[s].pages = {}
    BY <1>3, <1>5 DEF EndAll, Resting
  <2>2. OnlyLeaves(s)
    BY <1>2, <2>1 DEF OnlyLeaves, OffPages
  <2> QED
    BY <1>1, <1>2, <1>4, <1>5, <2>1, <2>2, DueEnds
<1>6. CASE s \in R \ S
  <2>1. run'[s] = [run[s] EXCEPT !.pc = "releasing"] /\ UNCHANGED queue[s]
    BY <1>3, <1>6 DEF EndAll
  <2>2. run'[s].pc = "releasing" /\ run'[s].pages = run[s].pages
    BY <1>1, <2>1 DEF Run
  <2>3. OnlyLeaves(s)
    BY <1>2, <2>2 DEF OnlyLeaves, OffPages
  <2> QED
    BY <1>1, <1>2, <1>4, <1>6, <2>1, <2>2, <2>3, DueGoesOn
<1>7. CASE s \notin S \cup R
  <2>1. run'[s] = run[s] /\ queue'[s] = queue[s]
    BY <1>3, <1>7 DEF EndAll
  <2>2. OnlyLeaves(s)
    BY <1>2, <2>1 DEF OnlyLeaves, OffPages
  <2> QED
    BY <1>1, <1>2, <2>1, <2>2, DueGoesOn
<1> QED
  BY <1>5, <1>6, <1>7

LEMMA DueStep ==
  ASSUME PInv, [Next]_vars, \A x \in Sockets : DisconnectDue(x)
  PROVE  \A x \in Sockets : OnlyLeaves(x) /\ DisconnectDue(x)'
<1>1. CASE UNCHANGED <<connected, queue, run, socketPages>>
  BY <1>1 DEF OnlyLeaves, OffPages, DisconnectDue, HoldsDisconnect
<1>2. CASE UNCHANGED vars
  BY <1>1, <1>2 DEF vars, sessionVars
<1>3. CASE \E s \in Sockets : ClientSends(s) \/ Disconnects(s)
  BY <1>3, DeathDue
<1>4. CASE \E s \in Sockets : Starts(s)
  BY <1>4, ReadingDue, LeavingDue, DroppingDue DEF Starts
<1>5. CASE \E s \in Sockets : Goes(s)
  BY <1>5, ReadingDue, LeavingDue, DroppingDue, JoinDue DEF Goes
<1>6. CASE \E p \in Pages : LoadEnds(p) \/ LoadFails(p)
  BY <1>6, WaitersDue
<1>7. CASE \/ \E p \in Pages : Unloads(p)
           \/ \E u \in Users, r \in Roles : RoleChanges(u, r)
  BY <1>1, <1>7 DEF Unloads, RoleChanges, sessionVars
<1>8. CASE \E note \in notes : MembershipApplied(note)
  <2> SUFFICES ASSUME NEW x \in Sockets PROVE OnlyLeaves(x) /\ DisconnectDue(x)'
    OBVIOUS
  <2>1. UNCHANGED <<connected, run, socketPages>>
    BY <1>8 DEF MembershipApplied, sessionVars
  <2>2. PICK tasks \in Seq(Task) : /\ queue'[x] = queue[x] \o tasks
                                 /\ \A i \in 1..Len(tasks) : tasks[i].kind # "disconnect"
    BY <1>8, MemberTasks
  <2>3. queue[x] \in Seq(Task) /\ AtHead(x) /\ DisconnectDue(x)
    BY DEF PInv, TypeOK, TasksSound
  <2>4. run[x].pc # "idle" => Head(queue'[x]) = Head(queue[x])
    BY <2>2, <2>3, QueueConcat DEF AtHead
  <2>5. HoldsDisconnect(queue[x]) => HoldsDisconnect(queue'[x])
    BY <2>2, <2>3, DisconnectKept
  <2>6. HoldsDisconnect(queue[x])' <=> HoldsDisconnect(queue'[x])
    BY DEF HoldsDisconnect
  <2> QED
    BY <2>1, <2>3, <2>4, <2>5, <2>6 DEF OnlyLeaves, OffPages, DisconnectDue
<1> QED
  BY <1>2, <1>3, <1>4, <1>5, <1>6, <1>7, <1>8 DEF Next

LEMMA DeathIsFinal ==
  ASSUME PInv, [Next]_vars, NEW s \in Sockets, ~connected[s]
  PROVE  ~connected'[s]
<1>1. UNCHANGED connected \/ \E x \in Sockets : Disconnects(x)
  BY DEF Next, Starts, Goes, ClientSends, JoinStarts, LeaveStarts, EventStarts, MemberStarts,
         DisconnectStarts, AuthorizeReads, Refused, UpdateGranted, CursorGranted,
         JoinGranted, ReleaseEnds, DisconnectDrops, DisconnectEnds, LoadEnds, LoadFails,
         Unloads, RoleChanges, MembershipApplied, vars
<1> QED
  BY <1>1 DEF Disconnects, PInv, TypeOK

LEMMA ForgottenIs ==
  ASSUME PInv, NEW s \in Sockets
  PROVE  /\ Forgotten(s) <=> OffPages(s)
         /\ Forgotten(s) <=> \A p \in Pages : s \notin presence[p]
<1>1. run[s] \in Run /\ socketPages[s] \in SUBSET Pages
  BY DEF PInv, TypeOK
<1>2. \A p \in Pages : /\ s \in Joined(p) <=> p \in socketPages[s]
                       /\ s \in Dropping(p) <=> p \in run[s].pages
                       /\ presence[p] = Joined(p) \cup Dropping(p)
  BY DEF PInv, PresenceMatchesSessions, Joined, Dropping
<1>3. run[s].pages \subseteq Pages
  BY <1>1 DEF Run
<1> QED
  BY <1>1, <1>2, <1>3 DEF Forgotten, OffPages

LEMMA DueHolds == Spec => [](PInv /\ DisconnectsDue)
<1>1. Init => DisconnectsDue
  BY DEF Init, DisconnectsDue, DisconnectDue, Resting
<1>2. PInv /\ [Next]_vars /\ DisconnectsDue => DisconnectsDue'
  BY DueStep DEF DisconnectsDue
<1> QED
  BY <1>1, <1>2, SessionsInvariant, PTL DEF Spec

\* pages.gateway.ts handleDisconnect: a dead socket that is still shown on a page
\* has its disconnect in its queue, waiting or under way: whatever runs before it,
\* and whatever is queued behind it, the task that takes the socket off its pages
\* is not lost.
THEOREM DeadSocketIsDue ==
  Spec => [](\A s \in Sockets : ~connected[s] /\ (\E p \in Pages : s \in presence[p])
                                => HoldsDisconnect(queue[s]))
<1>1. PInv /\ DisconnectsDue =>
        \A s \in Sockets : ~connected[s] /\ (\E p \in Pages : s \in presence[p])
                            => HoldsDisconnect(queue[s])
  BY ForgottenIs DEF DisconnectsDue, DisconnectDue
<1> QED
  BY <1>1, DueHolds, PTL

DeadAndGone(s) == ~connected[s] /\ Forgotten(s)

LEMMA GoneStays ==
  ASSUME PInv, PInv', [Next]_vars, NEW s \in Sockets, \A x \in Sockets : DisconnectDue(x),
         DeadAndGone(s)
  PROVE  DeadAndGone(s)'
<1>1. socketPages'[s] = {} /\ run'[s].pages = {} /\ ~connected'[s]
  BY ForgottenIs, DueStep, DeathIsFinal DEF DeadAndGone, OnlyLeaves, OffPages
<1>2. \A p \in Pages : /\ presence'[p] = Joined(p)' \cup Dropping(p)'
                       /\ s \notin Joined(p)' /\ s \notin Dropping(p)'
  BY <1>1 DEF PInv, PresenceMatchesSessions, Joined, Dropping
<1> QED
  BY <1>1, <1>2 DEF DeadAndGone, Forgotten

\* The safety half of DeadSocketIsForgotten: a dead socket that is off all pages
\* stays off, even if a join of it is still under way.
THEOREM DeadSocketStaysForgotten ==
  ASSUME NEW s \in Sockets
  PROVE  Spec => [](~connected[s] /\ Forgotten(s) => []Forgotten(s))
<1>1. PInv /\ PInv' /\ DisconnectsDue /\ [Next]_vars /\ DeadAndGone(s) => DeadAndGone(s)'
  BY GoneStays DEF DisconnectsDue
<1>2. ~connected[s] /\ Forgotten(s) <=> DeadAndGone(s)
  BY DEF DeadAndGone
<1> QED
  BY <1>1, <1>2, DueHolds, PTL DEF Spec
=============================================================================
