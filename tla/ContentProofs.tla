---------------------------- MODULE ContentProofs ----------------------------
(* What readers and members are shown, for every value of the constants: the *)
(* events of comments, the public articles, the history of a page and the    *)
(* reminders of an event.  Comments are proved by themselves, the others as  *)
(* parts of Content, the composition the run checks.                         *)
EXTENDS MCContent, Integers, FiniteSetTheorems, WellFoundedInduction, TLAPS

-----------------------------------------------------------------------------
(* Finite sets                                                              *)

\* Of the subsets of a finite set that have something in common, one is smallest.
LEMMA SmallestSubset ==
  ASSUME NEW S, IsFiniteSet(S), NEW Chosen \in SUBSET (SUBSET S), Chosen # {}
  PROVE  \E T \in Chosen : \A U \in SUBSET T : U # T => U \notin Chosen
<1>1. IsWellFoundedOn(StrictSubsetOrdering(S), SUBSET S)
  BY FS_StrictSubsetOrderingWellFounded, FS_FiniteSubsetsOfFinite
<1>2. PICK T \in Chosen : \A U \in Chosen : <<U, T>> \notin StrictSubsetOrdering(S)
  BY <1>1, WFMin
<1> QED
  BY <1>2 DEF StrictSubsetOrdering

\* B orders S from the first to the last; rank counts those before.
Linear(B, S) ==
  /\ \A x, y \in S : x # y => <<x, y>> \in B \/ <<y, x>> \in B
  /\ \A x, y \in S : ~(<<x, y>> \in B /\ <<y, x>> \in B)
  /\ \A x, y, z \in S : <<x, y>> \in B /\ <<y, z>> \in B => <<x, z>> \in B

RankIn(B, G, x) == Cardinality({y \in G : <<y, x>> \in B})

\* A set that is not empty has a first element in any linear order.
LEMMA FirstExists ==
  ASSUME NEW S, IsFiniteSet(S), NEW B, Linear(B, S), NEW T \in SUBSET S, T # {}
  PROVE  \E x \in T : \A y \in T \ {x} : <<x, y>> \in B
<1> DEFINE Bad ==
      {U \in SUBSET S : U # {} /\ ~\E x \in U : \A y \in U \ {x} : <<x, y>> \in B}
<1> SUFFICES ASSUME Bad # {} PROVE FALSE
  OBVIOUS
<1>1. PICK U \in Bad : \A V \in SUBSET U : V # U => V \notin Bad
  <2>1. Bad \in SUBSET (SUBSET S)
    OBVIOUS
  <2> HIDE DEF Bad
  <2> QED
    BY <2>1, SmallestSubset
<1>2. PICK x \in U : TRUE
  OBVIOUS
<1>3. U \ {x} \notin Bad
  BY <1>1, <1>2
<1>4. CASE U \ {x} = {}
  BY <1>1, <1>2, <1>4
<1>5. CASE U \ {x} # {}
  <2>1. PICK z \in U \ {x} : \A y \in (U \ {x}) \ {z} : <<z, y>> \in B
    BY <1>3, <1>5
  <2>2. CASE <<x, z>> \in B
    <3>1. \A y \in U \ {x} : <<x, y>> \in B
      BY <1>1, <2>1, <2>2 DEF Linear
    <3> QED
      BY <3>1, <1>1
  <2>3. CASE <<z, x>> \in B
    <3>1. \A y \in U \ {z} : <<z, y>> \in B
      BY <1>1, <2>1, <2>3 DEF Linear
    <3> QED
      BY <3>1, <2>1, <1>1
  <2> QED
    BY <1>1, <2>1, <2>2, <2>3 DEF Linear
<1> QED
  BY <1>4, <1>5

LEMMA PairHasTwo ==
  ASSUME NEW x, NEW y, x # y
  PROVE  IsFiniteSet({x, y}) /\ Cardinality({x, y}) = 2
<1>1. IsFiniteSet({x}) /\ Cardinality({x}) = 1
  BY FS_Singleton
<1>2. IsFiniteSet({x} \cup {y}) /\ Cardinality({x} \cup {y}) = 2
  <2>1. y \notin {x}
    OBVIOUS
  <2> QED
    BY <1>1, <2>1, FS_AddElement
<1>3. {x} \cup {y} = {x, y}
  OBVIOUS
<1> QED
  BY <1>2, <1>3

LEMMA RankIsANumber ==
  ASSUME NEW S, IsFiniteSet(S), NEW B, NEW G \in SUBSET S, NEW x
  PROVE  /\ IsFiniteSet({y \in G : <<y, x>> \in B}) /\ RankIn(B, G, x) \in Nat
         /\ RankIn(B, G, x) = 0 <=> \A y \in G : <<y, x>> \notin B
<1>1. IsFiniteSet({y \in G : <<y, x>> \in B})
  BY FS_Subset
<1>2. RankIn(B, G, x) = 0 <=> {y \in G : <<y, x>> \in B} = {}
  BY <1>1, FS_EmptySet DEF RankIn
<1> QED
  BY <1>1, <1>2, FS_CardinalityType DEF RankIn

\* rows are the first of G and, if there is one, the second.
OneOrTwo(B, G, rows) ==
  \E m \in G :
    /\ \A y \in G \ {m} : <<m, y>> \in B
    /\ \/ G = {m} /\ rows = {m} /\ Cardinality(rows) = 1
       \/ \E n \in G \ {m} : rows = {m, n} /\ Cardinality(rows) = 2

\* Who has none or one before him is the first or the second.
LEMMA FirstTwo ==
  ASSUME NEW S, IsFiniteSet(S), NEW B, Linear(B, S), NEW G \in SUBSET S, G # {},
         NEW rows, rows = {x \in G : RankIn(B, G, x) \in 0..1}
  PROVE  OneOrTwo(B, G, rows)
<1> USE DEF OneOrTwo
<1>1. PICK m \in G : \A y \in G \ {m} : <<m, y>> \in B
  BY FirstExists
<1>2. RankIn(B, G, m) = 0
  <2>1. \A y \in G : <<y, m>> \notin B
    BY <1>1 DEF Linear
  <2> QED
    BY <2>1, RankIsANumber
<1>3. CASE G = {m}
  <2>1. rows = {m}
    BY <1>2, <1>3
  <2>2. Cardinality({m}) = 1
    BY FS_Singleton
  <2> QED
    BY <1>1, <1>3, <2>1, <2>2
<1>4. CASE G # {m}
  <2>1. PICK n \in G \ {m} : \A y \in (G \ {m}) \ {n} : <<n, y>> \in B
    <3> DEFINE R == G \ {m}
    <3>1. R # {} /\ R \in SUBSET S
      BY <1>4
    <3> HIDE DEF R
    <3>2. \E x \in R : \A y \in R \ {x} : <<x, y>> \in B
      BY <3>1, FirstExists
    <3> QED
      BY <3>2 DEF R
  <2>2. RankIn(B, G, n) = 1
    <3>1. m \in S /\ n \in S /\ n # m /\ <<m, n>> \in B /\ <<n, n>> \notin B
      BY <1>1, <2>1 DEF Linear
    <3>2. \A y \in G \ {m, n} : <<y, n>> \notin B
      BY <2>1, <3>1 DEF Linear
    <3>3. {y \in G : <<y, n>> \in B} = {m}
      BY <3>1, <3>2
    <3>4. Cardinality({m}) = 1
      BY FS_Singleton
    <3> QED
      BY <3>3, <3>4 DEF RankIn
  <2>3. ASSUME NEW x \in G \ {m, n} PROVE RankIn(B, G, x) \notin 0..1
    <3>1. {m, n} \subseteq {y \in G : <<y, x>> \in B}
      BY <1>1, <2>1
    <3>2. IsFiniteSet({y \in G : <<y, x>> \in B}) /\ RankIn(B, G, x) \in Nat
      BY RankIsANumber
    <3>3. Cardinality({m, n}) <= RankIn(B, G, x)
      BY <3>1, <3>2, FS_Subset DEF RankIn
    <3>4. Cardinality({m, n}) = 2
      BY <2>1, PairHasTwo
    <3> QED
      BY <3>2, <3>3, <3>4
  <2>4. rows = {m, n}
    BY <1>2, <2>1, <2>2, <2>3
  <2>5. Cardinality({m, n}) = 2
    BY <2>1, PairHasTwo
  <2> QED
    BY <1>1, <2>1, <2>4, <2>5
<1> QED
  BY <1>3, <1>4

\* Rows read from a cursor on, the cursor's skipped, are those that come after it.
LEMMA CursorIsSkipped ==
  ASSUME NEW S, IsFiniteSet(S), NEW B, Linear(B, S), NEW K \in SUBSET S, NEW c \in K,
         NEW from, from = {x \in K : x = c \/ <<c, x>> \in B},
         NEW G, G = {x \in K : <<c, x>> \in B}
  PROVE  {x \in from : RankIn(B, from, x) \in 1..2} = {x \in G : RankIn(B, G, x) \in 0..1}
<1>1. from = G \cup {c} /\ c \notin G /\ G \in SUBSET S /\ from \in SUBSET S
  BY DEF Linear
<1>2. RankIn(B, from, c) = 0
  <2>1. \A y \in from : <<y, c>> \notin B
    BY DEF Linear
  <2> QED
    BY <1>1, <2>1, RankIsANumber
<1>3. ASSUME NEW x \in G
      PROVE  RankIn(B, from, x) = RankIn(B, G, x) + 1 /\ RankIn(B, G, x) \in Nat
  <2>1. {y \in from : <<y, x>> \in B} = {y \in G : <<y, x>> \in B} \cup {c}
    BY <1>1
  <2>2. c \notin {y \in G : <<y, x>> \in B}
    BY <1>1
  <2> DEFINE T == {y \in G : <<y, x>> \in B}
  <2>3. IsFiniteSet(T) /\ RankIn(B, G, x) \in Nat
    <3>1. T \in SUBSET S
      BY <1>1
    <3> HIDE DEF T
    <3>2. IsFiniteSet(T) /\ Cardinality(T) \in Nat
      BY <3>1, FS_Subset, FS_CardinalityType
    <3> QED
      BY <3>2 DEF RankIn, T
  <2>4. Cardinality(T \cup {c}) = Cardinality(T) + 1
    <3>1. IsFiniteSet(T) /\ c \notin T
      BY <2>2, <2>3
    <3> HIDE DEF T
    <3> QED
      BY <3>1, FS_AddElement
  <2> QED
    BY <2>1, <2>3, <2>4 DEF RankIn
<1>4. \A x \in from : RankIn(B, from, x) \in 1..2 <=> x \in G /\ RankIn(B, G, x) \in 0..1
  BY <1>1, <1>2, <1>3
<1> QED
  BY <1>1, <1>4

-----------------------------------------------------------------------------
(* Comments: any number of handlers write and tell in any order.             *)

\* A handler under way names the comment and the page it was asked for.
NamesItsRow(q) ==
  q.pc # "idle" => q.comment \in CommentIds /\ q.page \in Pages
                   /\ q.actor \in Users /\ q.body \in Bodies

\* What a handler is about to tell is the row, unless it was overtaken.
TellsItsRow(q) == q.pc = "publish" => q.overtaken \/ q.event = row[q.comment]

Handlers == \A r \in Requests : NamesItsRow(run[r]) /\ TellsItsRow(run[r])

CInv == TypeOK /\ Handlers /\ LastEventTellsRow

-----------------------------------------------------------------------------
(* Steps                                                                    *)

Requested ==
  [pc : {"idle", "check", "read", "write", "publish"}, op : Ops,
   comment : CommentIds \cup {None}, page : Pages \cup {None},
   actor : Users \cup {None}, body : Bodies \cup {None},
   event : Row \cup {NoRow}, overtaken : BOOLEAN]

LEMMA IdleIsARequest == Idle \in Requested /\ NamesItsRow(Idle) /\ TellsItsRow(Idle)
BY DEF Idle, Requested, Ops, NamesItsRow, TellsItsRow, NoRow

LEMMA InitHolds == Init => CInv
BY CommentsAssumption, IdleIsARequest
   DEF Init, CInv, TypeOK, Requested, Handlers, LastEventTellsRow, NamesItsRow,
       TellsItsRow, Idle

\* A handler comes, goes on or ends, with nothing written and nothing to tell.
LEMMA QuietStep ==
  ASSUME CInv, NEW r \in Requests, NEW q \in Requested,
         run' = [run EXCEPT ![r] = q], ~At(r, "publish"), q.pc # "publish",
         NamesItsRow(q), started' \in 0..MaxStarted,
         UNCHANGED <<row, page, trashings, failures, told, behind>>
  PROVE  CInv'
<1>1. \A s \in Requests : run'[s] = IF s = r THEN q ELSE run[s]
  BY DEF CInv, TypeOK
<1>2. TypeOK'
  BY DEF CInv, TypeOK, Requested
<1>3. Handlers'
  BY <1>1 DEF CInv, Handlers, NamesItsRow, TellsItsRow
<1>4. LastEventTellsRow'
  <2> SUFFICES ASSUME NEW c \in CommentIds, told[c] # row[c], c \notin behind
               PROVE  \E s \in Requests : run'[s].pc = "publish" /\ run'[s].comment = c
    BY DEF LastEventTellsRow, At
  <2>1. PICK s \in Requests : At(s, "publish") /\ run[s].comment = c
    BY DEF CInv, LastEventTellsRow
  <2> QED
    BY <1>1, <2>1 DEF At
<1> QED
  BY <1>2, <1>3, <1>4 DEF CInv

LEMMA AskedKeeps ==
  ASSUME CInv, NEW r \in Requests, NEW op \in Ops, NEW c \in CommentIds,
         NEW p \in Pages, NEW u \in Users, NEW b \in Bodies, Asked(r, op, c, p, u, b)
  PROVE  CInv'
<1> DEFINE q == [Idle EXCEPT !.pc = "check", !.op = op, !.comment = c, !.page = p,
                             !.actor = u, !.body = b]
<1>1. q \in Requested /\ NamesItsRow(q) /\ q.pc # "publish"
  BY DEF Requested, NamesItsRow, Idle
<1>2. run' = [run EXCEPT ![r] = q] /\ started' \in 0..MaxStarted /\ ~At(r, "publish")
  BY CommentsAssumption DEF CInv, TypeOK, Asked, At
<1> HIDE DEF q
<1> QED
  BY <1>1, <1>2, QuietStep DEF Asked

\* Whatever does not write ends the handler or moves it on.
LEMMA GoesOn ==
  ASSUME CInv, NEW r \in Requests, ~At(r, "idle"), ~At(r, "publish"),
         Ends(r) \/ \E pc \in {"read", "write"} : Goes(r, pc),
         UNCHANGED <<row, page, started, trashings, failures, told, behind>>
  PROVE  CInv'
<1>1. run[r] \in Requested /\ NamesItsRow(run[r]) /\ started \in 0..MaxStarted
  BY DEF CInv, TypeOK, Requested, Handlers
<1>2. CASE Ends(r)
  BY <1>1, <1>2, IdleIsARequest, QuietStep DEF Ends, Idle
<1>3. ASSUME NEW pc \in {"read", "write"}, Goes(r, pc) PROVE CInv'
  <2> DEFINE q == [run[r] EXCEPT !.pc = pc]
  <2>1. q \in Requested /\ NamesItsRow(q) /\ q.pc # "publish"
    BY <1>1 DEF Requested, NamesItsRow, At
  <2>2. run' = [run EXCEPT ![r] = q]
    BY <1>3 DEF Goes
  <2> HIDE DEF q
  <2> QED
    BY <1>1, <2>1, <2>2, QuietStep
<1> QED
  BY <1>2, <1>3

\* A write leaves the writer with something to tell, and overtakes the others.
LEMMA WroteKeeps ==
  ASSUME CInv, NEW r \in Requests, NEW after \in Row \cup {NoRow},
         At(r, "write"), Wrote(r, after),
         UNCHANGED <<page, started, trashings, failures, told, behind>>
  PROVE  CInv'
<1> DEFINE c == run[r].comment
           wrote == [run[r] EXCEPT !.pc = "publish", !.event = after]
<1>1. run[r] \in Requested /\ NamesItsRow(run[r]) /\ c \in CommentIds
  BY DEF CInv, TypeOK, Requested, Handlers, NamesItsRow, At
<1>2. wrote \in Requested /\ wrote.pc = "publish" /\ wrote.event = after
      /\ wrote.comment = c /\ NamesItsRow(wrote)
  BY <1>1 DEF Requested, NamesItsRow, At
<1>3. run'[r] = wrote /\ row' = [row EXCEPT ![c] = after]
  BY DEF Wrote
<1> HIDE DEF wrote
<1>4. \A s \in Requests :
        s # r => run'[s] = IF At(s, "publish") /\ run[s].comment = c
                           THEN [run[s] EXCEPT !.overtaken = TRUE] ELSE run[s]
  BY DEF Wrote
<1>5. \A s \in Requests : run[s] \in Requested
  BY DEF CInv, TypeOK, Requested
<1>6. \A d \in CommentIds : row'[d] = IF d = c THEN after ELSE row[d]
  BY <1>1, <1>3 DEF CInv, TypeOK
<1>7. \A s \in Requests : s # r =>
        /\ run'[s] \in Requested
        /\ run'[s].pc = run[s].pc /\ run'[s].comment = run[s].comment
        /\ run'[s].event = run[s].event
        /\ run'[s].page = run[s].page /\ run'[s].actor = run[s].actor
        /\ run'[s].body = run[s].body
        /\ run[s].overtaken => run'[s].overtaken
        /\ run[s].pc = "publish" /\ run[s].comment = c => run'[s].overtaken
  <2> SUFFICES ASSUME NEW s \in Requests, s # r
               PROVE  /\ run'[s] \in Requested
                      /\ run'[s].pc = run[s].pc /\ run'[s].comment = run[s].comment
                      /\ run'[s].event = run[s].event
                      /\ run'[s].page = run[s].page /\ run'[s].actor = run[s].actor
                      /\ run'[s].body = run[s].body
                      /\ run[s].overtaken => run'[s].overtaken
                      /\ run[s].pc = "publish" /\ run[s].comment = c => run'[s].overtaken
    OBVIOUS
  <2>1. CASE At(s, "publish") /\ run[s].comment = c
    BY <1>4, <1>5, <2>1 DEF Requested
  <2>2. CASE ~(At(s, "publish") /\ run[s].comment = c)
    BY <1>4, <1>5, <2>2 DEF At
  <2> QED
    BY <2>1, <2>2
<1>8. TypeOK'
  <2>1. run' \in [Requests -> Requested]
    <3>1. \A s \in Requests : run'[s] \in Requested
      BY <1>2, <1>3, <1>7
    <3>2. run' = [s \in Requests |-> run'[s]]
      BY DEF Wrote
    <3> QED
      BY <3>1, <3>2
  <2>2. row' \in [CommentIds -> Row \cup {NoRow}]
    BY <1>1, <1>3 DEF CInv, TypeOK
  <2> QED
    BY <2>1, <2>2 DEF CInv, TypeOK, Requested
<1>9. Handlers'
  <2> SUFFICES ASSUME NEW s \in Requests
               PROVE  (NamesItsRow(run[s]) /\ TellsItsRow(run[s]))'
    BY DEF Handlers
  <2>1. CASE s = r
    BY <1>1, <1>2, <1>3, <1>6, <2>1 DEF NamesItsRow, TellsItsRow
  <2>2. CASE s # r
    <3>1. NamesItsRow(run[s]) /\ TellsItsRow(run[s])
      BY DEF CInv, Handlers
    <3>2. NamesItsRow(run[s])'
      BY <1>7, <2>2, <3>1 DEF NamesItsRow
    <3>3. TellsItsRow(run[s])'
      BY <1>6, <1>7, <2>2, <3>1 DEF NamesItsRow, TellsItsRow
    <3> QED
      BY <3>2, <3>3
  <2> QED
    BY <2>1, <2>2
<1>10. LastEventTellsRow'
  <2> SUFFICES ASSUME NEW d \in CommentIds, told[d] # row'[d], d \notin behind
               PROVE  \E s \in Requests : run'[s].pc = "publish" /\ run'[s].comment = d
    BY DEF LastEventTellsRow, At
  <2>1. CASE d = c
    BY <1>2, <1>3, <2>1
  <2>2. CASE d # c
    <3>1. PICK s \in Requests : At(s, "publish") /\ run[s].comment = d
      BY <1>6, <2>2 DEF CInv, LastEventTellsRow
    <3>2. s # r
      BY <3>1 DEF At
    <3> QED
      BY <1>7, <3>1, <3>2 DEF At
  <2> QED
    BY <2>1, <2>2
<1> QED
  BY <1>8, <1>9, <1>10 DEF CInv

LEMMA WritesKeep ==
  ASSUME CInv, NEW r \in Requests, CreateWrites(r) \/ ChangeWrites(r)
  PROVE  CInv'
<1> DEFINE c == run[r].comment
<1>1. At(r, "write") /\ ~At(r, "idle") /\ ~At(r, "publish")
      /\ UNCHANGED <<page, started, trashings, failures, told, behind>>
  BY DEF CreateWrites, ChangeWrites, At
<1>2. run[r] \in Requested /\ c \in CommentIds /\ run[r].page \in Pages
      /\ run[r].actor \in Users /\ run[r].body \in Bodies /\ run[r].op \in Ops
  BY <1>1 DEF CInv, TypeOK, Requested, Handlers, NamesItsRow, At
<1>3. CASE Ends(r) /\ UNCHANGED row
  BY <1>1, <1>3, GoesOn
<1>4. ASSUME CreateWrites(r), ~(Ends(r) /\ UNCHANGED row) PROVE CInv'
  <2> DEFINE after == [page |-> run[r].page, author |-> run[r].actor,
                       body |-> run[r].body, resolvedBy |-> None]
  <2>1. after \in Row /\ Wrote(r, after)
    BY <1>2, <1>4 DEF CreateWrites, Row
  <2> HIDE DEF after
  <2> QED
    BY <1>1, <2>1, WroteKeeps
<1>5. ASSUME ChangeWrites(r), ~(Ends(r) /\ UNCHANGED row) PROVE CInv'
  <2>1. Wrote(r, Changed(r, row[c])) /\ row[c].page = run[r].page /\ run[r].op # "create"
    BY <1>5 DEF ChangeWrites
  <2>2. row[c] \in Row
    <3>1. row[c] \in Row \cup {NoRow}
      BY <1>2 DEF CInv, TypeOK
    <3> QED
      BY <1>2, <2>1, <3>1, CommentsAssumption DEF NoRow
  <2>3. Changed(r, row[c]) \in Row \cup {NoRow}
    <3>1. CASE run[r].op = "update"
      BY <1>2, <2>2, <3>1 DEF Changed, Row
    <3>2. CASE run[r].op = "resolve"
      BY <1>2, <2>2, <3>2 DEF Changed, Row
    <3>3. CASE run[r].op = "reopen"
      BY <1>2, <2>2, <3>3 DEF Changed, Row
    <3>4. CASE run[r].op = "delete"
      BY <3>4 DEF Changed
    <3> QED
      BY <1>2, <2>1, <3>1, <3>2, <3>3, <3>4 DEF Ops
  <2> QED
    BY <1>1, <2>1, <2>3, WroteKeeps
<1> QED
  BY <1>3, <1>4, <1>5

\* What a handler tells is the row; what was overtaken or lost is behind.
LEMMA TellingKeeps ==
  ASSUME CInv, NEW r \in Requests, Publishes(r) \/ EmitFails(r)
  PROVE  CInv'
<1> DEFINE c == run[r].comment
<1>1. run[r] \in Requested /\ c \in CommentIds /\ TellsItsRow(run[r])
      /\ run[r].pc = "publish" /\ run[r].event \in Row \cup {NoRow}
  BY DEF CInv, TypeOK, Requested, Handlers, NamesItsRow, Publishes, EmitFails, At
<1>2. /\ run' = [run EXCEPT ![r] = Idle]
      /\ UNCHANGED <<row, page, started, trashings>>
      /\ failures' \in 0..MaxFailures
  BY CommentsAssumption DEF CInv, TypeOK, Publishes, EmitFails, Ends
<1>3. \A s \in Requests : run'[s] = IF s = r THEN Idle ELSE run[s]
  BY <1>2 DEF CInv, TypeOK
<1>4. \/ told' = [told EXCEPT ![c] = run[r].event]
         /\ behind' = IF run[r].overtaken THEN behind \cup {c} ELSE behind \ {c}
      \/ told' = told /\ behind' = behind \cup {c}
  BY DEF Publishes, EmitFails, Event
<1>5. \A d \in CommentIds : d # c => told'[d] = told[d] /\ (d \in behind' <=> d \in behind)
  BY <1>4 DEF CInv, TypeOK
<1>6. c \in behind' \/ told'[c] = row[c]
  BY <1>1, <1>4 DEF CInv, TypeOK, TellsItsRow
<1>7. TypeOK'
  <2>1. told' \in [CommentIds -> Row \cup {NoRow}]
    BY <1>1, <1>4 DEF CInv, TypeOK
  <2>2. behind' \in SUBSET CommentIds
    BY <1>1, <1>4 DEF CInv, TypeOK
  <2> QED
    BY <1>2, <2>1, <2>2, IdleIsARequest DEF CInv, TypeOK, Requested
<1>8. Handlers'
  BY <1>2, <1>3, IdleIsARequest DEF CInv, Handlers, NamesItsRow, TellsItsRow
<1>9. LastEventTellsRow'
  <2> SUFFICES ASSUME NEW d \in CommentIds, told'[d] # row[d], d \notin behind'
               PROVE  \E s \in Requests : run'[s].pc = "publish" /\ run'[s].comment = d
    BY <1>2 DEF LastEventTellsRow, At
  <2>1. d # c
    BY <1>6
  <2>2. PICK s \in Requests : At(s, "publish") /\ run[s].comment = d
    BY <1>5, <2>1 DEF CInv, LastEventTellsRow
  <2> QED
    BY <1>3, <2>1, <2>2 DEF At
<1> QED
  BY <1>7, <1>8, <1>9 DEF CInv

\* The comments of a page that goes are behind, and so is who has still to tell.
LEMMA PageKeeps ==
  ASSUME CInv, NEW p \in Pages, NEW to \in {"live", "trash", "gone"}, PageChanges(p, to)
  PROVE  CInv'
<1> DEFINE lost == {c \in CommentIds : to = "gone" /\ row[c].page = p}
<1>1. /\ row' = [c \in CommentIds |-> IF c \in lost THEN NoRow ELSE row[c]]
      /\ behind' = behind \cup lost /\ page' = [page EXCEPT ![p] = to]
      /\ run' = [q \in Requests |->
           IF At(q, "publish") /\ run[q].comment \in lost
             THEN [run[q] EXCEPT !.overtaken = TRUE] ELSE run[q]]
      /\ UNCHANGED <<started, failures, told>> /\ trashings' \in 0..MaxTrash
  BY CommentsAssumption DEF CInv, TypeOK, PageChanges
<1>2. lost \subseteq CommentIds
  OBVIOUS
<1> HIDE DEF lost
<1>3. \A s \in Requests : run[s] \in Requested
  BY DEF CInv, TypeOK, Requested
<1>4. \A s \in Requests :
        /\ run'[s] \in Requested
        /\ run'[s].pc = run[s].pc /\ run'[s].comment = run[s].comment
        /\ run'[s].event = run[s].event
        /\ run'[s].page = run[s].page /\ run'[s].actor = run[s].actor
        /\ run'[s].body = run[s].body
        /\ run[s].overtaken => run'[s].overtaken
        /\ run[s].pc = "publish" /\ run[s].comment \in lost => run'[s].overtaken
  BY <1>1, <1>3 DEF Requested, At
<1>5. TypeOK'
  <2>1. run' \in [Requests -> Requested]
    <3>1. run' = [s \in Requests |-> run'[s]]
      BY <1>1
    <3> QED
      BY <1>4, <3>1
  <2>2. row' \in [CommentIds -> Row \cup {NoRow}] /\ behind' \in SUBSET CommentIds
    BY <1>1, <1>2 DEF CInv, TypeOK
  <2> QED
    BY <1>1, <2>1, <2>2 DEF CInv, TypeOK, Requested
<1>6. Handlers'
  <2> SUFFICES ASSUME NEW s \in Requests
               PROVE  (NamesItsRow(run[s]) /\ TellsItsRow(run[s]))'
    BY DEF Handlers
  <2>1. NamesItsRow(run[s]) /\ TellsItsRow(run[s])
    BY DEF CInv, Handlers
  <2>2. NamesItsRow(run[s])'
    BY <1>4, <2>1 DEF NamesItsRow
  <2>3. TellsItsRow(run[s])'
    BY <1>1, <1>4, <2>1 DEF NamesItsRow, TellsItsRow
  <2> QED
    BY <2>2, <2>3
<1>7. LastEventTellsRow'
  <2> SUFFICES ASSUME NEW d \in CommentIds, told[d] # row'[d], d \notin behind \cup lost
               PROVE  \E s \in Requests : run'[s].pc = "publish" /\ run'[s].comment = d
    BY <1>1 DEF LastEventTellsRow, At
  <2>1. row'[d] = row[d]
    BY <1>1
  <2>2. PICK s \in Requests : At(s, "publish") /\ run[s].comment = d
    BY <2>1 DEF CInv, LastEventTellsRow
  <2> QED
    BY <1>4, <2>2 DEF At
<1> QED
  BY <1>5, <1>6, <1>7 DEF CInv

LEMMA StepKeeps == ASSUME CInv, [Next]_vars PROVE CInv'
<1>1. CASE UNCHANGED vars
  BY <1>1 DEF vars, CInv, TypeOK, Handlers, NamesItsRow, TellsItsRow,
              LastEventTellsRow, At
<1>2. CASE Next
  <2>1. ASSUME NEW p \in Pages, NEW to \in {"live", "trash", "gone"}, PageChanges(p, to)
        PROVE  CInv'
    BY <2>1, PageKeeps
  <2>2. ASSUME NEW r \in Requests, NEW op \in Ops, NEW c \in CommentIds, NEW p \in Pages,
               NEW u \in Users, NEW b \in Bodies, Asked(r, op, c, p, u, b)
        PROVE  CInv'
    BY <2>2, AskedKeeps
  <2>3. ASSUME NEW r \in Requests, assertActivePage(r) \/ assertAuthor(r) PROVE CInv'
    <3>1. Ends(r) \/ \E pc \in {"read", "write"} : Goes(r, pc)
      BY <2>3 DEF assertActivePage, assertAuthor
    <3> QED
      BY <2>3, <3>1, GoesOn DEF assertActivePage, assertAuthor, At
  <2>4. ASSUME NEW r \in Requests, CreateWrites(r) \/ ChangeWrites(r) PROVE CInv'
    BY <2>4, WritesKeep
  <2>5. ASSUME NEW r \in Requests, Publishes(r) \/ EmitFails(r) PROVE CInv'
    BY <2>5, TellingKeeps
  <2> QED
    BY <1>2, <2>1, <2>2, <2>3, <2>4, <2>5 DEF Next
<1> QED
  BY <1>1, <1>2

-----------------------------------------------------------------------------
(* The theorems                                                             *)

\* Every variable has its type, in the handlers of page-comments.service.ts as
\* in its repository.
THEOREM CommentsTyped == Spec => []TypeOK
<1>1. CInv => TypeOK
  BY DEF CInv
<1> QED
  BY <1>1, InitHolds, StepKeeps, PTL DEF Spec

\* The last page:comment event of a comment says what its row says, once those
\* who wrote it have told, unless another write overtook the event or
\* safeEmit lost it (page-comments-realtime.service.ts).
THEOREM LastEventIsTheRow == Spec => []LastEventTellsRow
<1>1. CInv => LastEventTellsRow
  BY DEF CInv
<1> QED
  BY <1>1, InitHolds, StepKeeps, PTL DEF Spec

-----------------------------------------------------------------------------
(* Publication: any number of publishes, deletes, restores and readers.      *)

\* A publish about to be written has an address for its page, and a date, its own
\* or that of the page.
PublishesWell ==
  \A r \in Requests :
    publishRun[r].pc = "update" =>
      /\ publishRun[r].page \in Articles /\ publishRun[r].base \in Pb!Slugs
      /\ publishRun[r].attempt \in 0..(SLUG_ATTEMPTS - 1)
      /\ publishRun[r].status = "PUBLISHED" =>
           publishRun[r].dated \/ publishedAt[publishRun[r].page] # 0

\* A reader has been shown what stands before his cursor, and nothing after it.
UpToCursor(w) ==
  /\ reader[w].cursor \in Pb!publishedWhere
  /\ reader[w].steady \subseteq Pb!publishedWhere
  /\ reader[w].steady \cap reader[w].twice = {}
  /\ \A p \in reader[w].steady :
       p \in reader[w].seen <=> (p = reader[w].cursor \/ Pb!Before(p, reader[w].cursor))

Walks(w) ==
  /\ reader[w].pc = "idle" =>
       /\ reader[w].cursor = 0 /\ reader[w].seen = {} /\ reader[w].twice = {}
       /\ reader[w].steady = {}
  /\ reader[w].pc = "more" => reader[w].cursor \in Articles
  /\ ~reader[w].lost => (reader[w].pc = "more" => UpToCursor(w))
  /\ ~reader[w].lost =>
       (reader[w].pc = "done" => reader[w].steady \subseteq reader[w].seen \ reader[w].twice)

PublishRequest ==
  [pc : {"idle", "update"}, page : Articles \cup {0}, asked : Pb!Slugs \cup {Pb!NoSlug},
   status : Pb!Statuses, base : Pb!Slugs \cup {Pb!NoSlug}, generated : BOOLEAN,
   dated : BOOLEAN, attempt : 0..SLUG_ATTEMPTS]

Walk ==
  [pc : {"idle", "more", "done"}, cursor : Articles \cup {0}, seen : SUBSET Articles,
   twice : SUBSET Articles, steady : SUBSET Articles, lost : BOOLEAN]

PbInv ==
  /\ Pb!TypeOK /\ PublishesWell /\ Pb!PublishedIsComplete
  /\ \A w \in Readers : Walks(w)

\* The operators of FiniteSets, under the names they have in the instance.
LEMMA ArticlesAreFinite == IsFiniteSet(Articles)
BY ContentAssumption DEF Pb!PublicationAssumption, Pb!IsFiniteSet, IsFiniteSet

LEMMA SameCardinality == \A S : Pb!Cardinality(S) = Cardinality(S)
BY DEF Pb!Cardinality, Cardinality, Pb!IsFiniteSet, IsFiniteSet

LEMMA SlugsAreNamed ==
  /\ Pb!NoSlug \notin Pb!Slugs
  /\ \A s \in Pb!Slugs, n \in 1..SLUG_ATTEMPTS : Pb!suffixSlug(s, n) \in Pb!Slugs
  /\ \A a \in Articles : <<TitleOf[a], 1>> \in Pb!Slugs
BY ContentAssumption
   DEF Pb!NoSlug, Pb!Slugs, Pb!suffixSlug, Pb!PublicationAssumption

LEMMA PbInitHolds == Pb!Init => PbInv
BY ContentAssumption, SlugsAreNamed
   DEF Pb!Init, PbInv, Pb!TypeOK, PublishesWell, Pb!PublishedIsComplete, Walks, Pb!Idle,
       Pb!NoWalk, Pb!Statuses, Pb!PublicationAssumption

LEMMA PbAskedKeeps ==
  ASSUME PbInv, NEW r \in Requests, NEW p \in Articles,
         NEW asked \in Pb!Slugs \cup {Pb!NoSlug}, NEW to \in Pb!Statuses,
         Pb!PublishAsked(r, p, asked, to)
  PROVE  PbInv'
<1>1. Pb!BaseSlug(p, asked) \in Pb!Slugs
  BY SlugsAreNamed DEF PbInv, Pb!TypeOK, Pb!BaseSlug
<1>2. Pb!TypeOK'
  BY <1>1, ContentAssumption
     DEF PbInv, Pb!TypeOK, Pb!PublishAsked, Pb!PublicationAssumption
<1>3. PublishesWell'
  <2>1. \A q \in Requests : q # r => publishRun'[q] = publishRun[q]
    BY DEF Pb!PublishAsked, PbInv, Pb!TypeOK
  <2>2. /\ publishRun'[r].page = p /\ publishRun'[r].base = Pb!BaseSlug(p, asked)
        /\ publishRun'[r].attempt = 0 /\ publishRun'[r].status = to
        /\ publishRun'[r].dated = (to = "PUBLISHED" /\ status[p] # "PUBLISHED")
    BY DEF Pb!PublishAsked, PbInv, Pb!TypeOK
  <2>3. to = "PUBLISHED" => publishRun'[r].dated \/ publishedAt[p] # 0
    BY <2>2 DEF PbInv, Pb!PublishedIsComplete
  <2>4. publishedAt' = publishedAt
    BY DEF Pb!PublishAsked
  <2>5. 0 \in 0..(SLUG_ATTEMPTS - 1)
    BY ContentAssumption DEF Pb!PublicationAssumption
  <2> QED
    BY <1>1, <2>1, <2>2, <2>3, <2>4, <2>5 DEF PbInv, PublishesWell
<1>4. Pb!PublishedIsComplete' /\ \A w \in Readers : Walks(w)'
  BY DEF PbInv, Pb!PublishAsked, Pb!PublishedIsComplete, Walks, UpToCursor,
         Pb!publishedWhere, Pb!Before
<1> QED
  BY <1>2, <1>3, <1>4 DEF PbInv

LEMMA PbTriedIsNamed ==
  ASSUME PbInv, NEW r \in Requests, publishRun[r].pc = "update"
  PROVE  Pb!Tried(r) \in Pb!Slugs
BY SlugsAreNamed, ContentAssumption
   DEF PbInv, PublishesWell, Pb!Tried, Pb!PublicationAssumption

LEMMA DisturbedWalks ==
  ASSUME Pb!TypeOK, NEW p \in Articles, Pb!Disturb(p)
  PROVE  reader' \in [Readers -> Walk]
<1> SUFFICES ASSUME NEW w \in Readers
             PROVE  [reader[w] EXCEPT !.steady = reader[w].steady \ {p},
                                      !.lost = reader[w].lost \/ reader[w].cursor = p]
                      \in Walk
  BY DEF Pb!Disturb
<1>1. reader[w] \in Walk
  BY DEF Pb!TypeOK, Walk
<1>2. (reader[w].lost \/ reader[w].cursor = p) \in BOOLEAN
  OBVIOUS
<1> QED
  BY <1>1, <1>2 DEF Walk

\* What happens to one article leaves the walks of the readers as they should be.
LEMMA WalksGoOn ==
  ASSUME PbInv, NEW p \in Articles, Pb!Disturb(p),
         Pb!TypeOK',
         \A q \in Articles \ {p} :
           /\ publishedAt'[q] = publishedAt[q]
           /\ q \in Pb!publishedWhere => q \in Pb!publishedWhere'
  PROVE  \A w \in Readers : Walks(w)'
<1> SUFFICES ASSUME NEW w \in Readers PROVE Walks(w)'
  OBVIOUS
<1>0. Walks(w)
  BY DEF PbInv
<1>1. /\ reader'[w].pc = reader[w].pc /\ reader'[w].cursor = reader[w].cursor
      /\ reader'[w].seen = reader[w].seen /\ reader'[w].twice = reader[w].twice
      /\ reader'[w].steady = reader[w].steady \ {p}
      /\ reader'[w].lost = (reader[w].lost \/ reader[w].cursor = p)
  <2>1. reader[w] \in Walk
    BY DEF PbInv, Pb!TypeOK, Walk
  <2>2. reader'[w] = [reader[w] EXCEPT !.steady = reader[w].steady \ {p},
                                       !.lost = reader[w].lost \/ reader[w].cursor = p]
    BY DEF Pb!Disturb
  <2> QED
    BY <2>1, <2>2, Zenon DEF Walk
<1>2. reader[w].steady \subseteq Articles
  BY DEF PbInv, Pb!TypeOK
<1>3. \A q, s \in Articles \ {p} : Pb!Before(q, s)' <=> Pb!Before(q, s)
  BY DEF Pb!Before
<1>4. ASSUME ~reader'[w].lost, reader'[w].pc = "more"
      PROVE  UpToCursor(w)'
  <2>1. ~reader[w].lost /\ reader[w].cursor # p /\ reader[w].pc = "more"
    BY <1>1, <1>4
  <2>2. UpToCursor(w) /\ reader[w].cursor \in Articles
    BY <2>1, <1>0 DEF Walks
  <2> QED
    BY <1>1, <1>2, <1>3, <2>1, <2>2 DEF UpToCursor
<1> QED
  BY <1>0, <1>1, <1>4 DEF Walks

LEMMA PbUpdateKeeps ==
  ASSUME PbInv, NEW r \in Requests, NEW t \in 1..MaxPublishRequests,
         Pb!UpdateSucceeds(r, t)
  PROVE  PbInv'
<1> DEFINE p == publishRun[r].page
<1>1. p \in Articles /\ Pb!Tried(r) \in Pb!Slugs /\ p \notin trashedArticles
  BY PbTriedIsNamed DEF PbInv, PublishesWell, Pb!UpdateSucceeds
<1>2. /\ slug' = [slug EXCEPT ![p] = Pb!Tried(r)]
      /\ status' = [status EXCEPT ![p] = publishRun[r].status]
      /\ publishedAt' = [publishedAt EXCEPT ![p] =
           IF publishRun[r].dated THEN t ELSE publishedAt[p]]
      /\ publishRun' = [publishRun EXCEPT ![r] = Pb!Idle]
      /\ Pb!Disturb(p)
      /\ UNCHANGED <<trashedArticles, publishStarted, articleTrashings>>
  BY DEF Pb!UpdateSucceeds, Pb!PublicationData, PbInv, Pb!TypeOK
<1>3. Pb!TypeOK'
  <2>1. reader' \in [Readers ->
          [pc : {"idle", "more", "done"}, cursor : Articles \cup {0},
           seen : SUBSET Articles, twice : SUBSET Articles, steady : SUBSET Articles,
           lost : BOOLEAN]]
    BY <1>1, <1>2, DisturbedWalks DEF PbInv, Walk
  <2>2. publishedAt' \in [Articles -> 0..MaxPublishRequests]
    <3>1. (IF publishRun[r].dated THEN t ELSE publishedAt[p]) \in 0..MaxPublishRequests
      BY <1>1 DEF PbInv, Pb!TypeOK
    <3> QED
      BY <1>1, <1>2, <3>1 DEF PbInv, Pb!TypeOK
  <2> QED
    BY <1>1, <1>2, <2>1, <2>2, ContentAssumption
       DEF PbInv, Pb!TypeOK, Pb!Idle, Pb!Statuses, Pb!PublicationAssumption
<1>4. PublishesWell'
  BY <1>1, <1>2, ContentAssumption
     DEF PbInv, Pb!TypeOK, PublishesWell, Pb!Idle, Pb!PublicationAssumption
<1>5. Pb!PublishedIsComplete'
  BY <1>1, <1>2, SlugsAreNamed, ContentAssumption
     DEF PbInv, Pb!TypeOK, PublishesWell, Pb!PublishedIsComplete, Pb!PublicationAssumption,
         Pb!UpdateSucceeds
<1>6. \A w \in Readers : Walks(w)'
  BY <1>1, <1>2, <1>3, WalksGoOn DEF PbInv, Pb!TypeOK, Pb!publishedWhere
<1> QED
  BY <1>3, <1>4, <1>5, <1>6 DEF PbInv

LEMMA PbRestKeeps ==
  ASSUME PbInv, NEW r \in Requests, Pb!UpdateFindsNone(r) \/ Pb!UpdateFindsTaken(r)
  PROVE  PbInv'
<1>1. UNCHANGED <<slug, status, publishedAt, trashedArticles, publishStarted,
                  articleTrashings, reader>>
  BY DEF Pb!UpdateFindsNone, Pb!UpdateFindsTaken
<1>2. \/ publishRun' = [publishRun EXCEPT ![r] = Pb!Idle]
      \/ /\ publishRun[r].pc = "update" /\ publishRun[r].attempt # SLUG_ATTEMPTS - 1
         /\ publishRun' = [publishRun EXCEPT ![r].attempt = publishRun[r].attempt + 1]
  BY DEF Pb!UpdateFindsNone, Pb!UpdateFindsTaken, PbInv, Pb!TypeOK
<1>3. Pb!TypeOK' /\ PublishesWell'
  <2>1. Pb!Idle \in PublishRequest /\ Pb!Idle.pc = "idle"
    BY ContentAssumption DEF Pb!Idle, PublishRequest, Pb!Statuses, Pb!PublicationAssumption
  <2>2. publishRun \in [Requests -> PublishRequest]
    BY DEF PbInv, Pb!TypeOK, PublishRequest
  <2>3. CASE publishRun' = [publishRun EXCEPT ![r] = Pb!Idle]
    <3>1. publishRun' \in [Requests -> PublishRequest]
      BY <2>1, <2>2, <2>3
    <3> QED
      BY <1>1, <2>1, <2>2, <2>3, <3>1
         DEF PbInv, Pb!TypeOK, PublishesWell, PublishRequest
  <2>4. CASE /\ publishRun[r].pc = "update" /\ publishRun[r].attempt # SLUG_ATTEMPTS - 1
             /\ publishRun' = [publishRun EXCEPT ![r].attempt = publishRun[r].attempt + 1]
    <3>1. publishRun[r].attempt + 1 \in 0..(SLUG_ATTEMPTS - 1)
      BY <2>4, ContentAssumption DEF PbInv, PublishesWell, Pb!PublicationAssumption
    <3>2. publishRun' \in [Requests -> PublishRequest]
      BY <2>2, <2>4, <3>1, ContentAssumption DEF PublishRequest, Pb!PublicationAssumption
    <3> QED
      BY <1>1, <2>2, <2>4, <3>1, <3>2
         DEF PbInv, Pb!TypeOK, PublishesWell, PublishRequest
  <2> QED
    BY <1>2, <2>3, <2>4
<1>4. Pb!PublishedIsComplete' /\ \A w \in Readers : Walks(w)'
  BY <1>1 DEF PbInv, Pb!PublishedIsComplete, Walks, UpToCursor, Pb!publishedWhere, Pb!Before
<1> QED
  BY <1>3, <1>4 DEF PbInv

LEMMA PbTrashKeeps ==
  ASSUME PbInv, NEW p \in Articles, Pb!TrashChanges(p)
  PROVE  PbInv'
<1>1. Pb!TypeOK' /\ PublishesWell' /\ Pb!PublishedIsComplete'
  <2>1. reader' \in [Readers -> Walk]
    BY DisturbedWalks DEF Pb!TrashChanges, PbInv
  <2>2. trashedArticles' \in SUBSET Articles
    BY DEF Pb!TrashChanges, PbInv, Pb!TypeOK
  <2>3. articleTrashings' \in 0..MaxTrash
    BY ContentAssumption DEF Pb!TrashChanges, PbInv, Pb!TypeOK, Pb!PublicationAssumption
  <2> QED
    BY <2>1, <2>2, <2>3
       DEF PbInv, Pb!TypeOK, PublishesWell, Pb!PublishedIsComplete, Pb!TrashChanges, Walk
<1>2. \A w \in Readers : Walks(w)'
  BY <1>1, WalksGoOn DEF Pb!TrashChanges, Pb!publishedWhere
<1> QED
  BY <1>1, <1>2 DEF PbInv


-----------------------------------------------------------------------------
(* The public list, one article at a time                                    *)

\* Newest first, and the larger id first: a linear order of the articles.
LEMMA OrderIsLinear ==
  ASSUME Pb!TypeOK
  PROVE  /\ \A p, q \in Articles : p # q => Pb!Before(p, q) \/ Pb!Before(q, p)
         /\ \A p, q \in Articles : ~(Pb!Before(p, q) /\ Pb!Before(q, p))
         /\ \A p, q, s \in Articles :
              Pb!Before(p, q) /\ Pb!Before(q, s) => Pb!Before(p, s)
<1>1. publishedAt \in [Articles -> Int] /\ Articles \subseteq Int
  BY ContentAssumption DEF Pb!TypeOK, Pb!PublicationAssumption
<1> QED
  BY <1>1 DEF Pb!Before

ArticleOrder == {b \in Articles \X Articles : Pb!Before(b[1], b[2])}

LEMMA ArticlesAreOrdered ==
  ASSUME Pb!TypeOK
  PROVE  /\ Linear(ArticleOrder, Articles)
         /\ \A p, q \in Articles : <<p, q>> \in ArticleOrder <=> Pb!Before(p, q)
BY OrderIsLinear DEF Linear, ArticleOrder

LEMMA LastArticle ==
  ASSUME Pb!TypeOK, NEW T \in SUBSET Articles, T # {}
  PROVE  /\ Pb!LastOf(T) \in T
         /\ \A q \in T \ {Pb!LastOf(T)} : Pb!Before(q, Pb!LastOf(T))
<1> DEFINE Reversed == {b \in Articles \X Articles : Pb!Before(b[2], b[1])}
<1>1. Linear(Reversed, Articles)
  BY OrderIsLinear DEF Linear
<1>2. \A p, q \in Articles : <<p, q>> \in Reversed <=> Pb!Before(q, p)
  OBVIOUS
<1> HIDE DEF Reversed
<1>3. \E p \in T : \A q \in T \ {p} : <<p, q>> \in Reversed
  BY <1>1, ArticlesAreFinite, FirstExists
<1>4. \E p \in T : \A q \in T \ {p} : Pb!Before(q, p)
  BY <1>2, <1>3
<1> QED
  BY <1>4 DEF Pb!LastOf

\* What is listed from a cursor on is public, and so is the next cursor.
LEMMA ListedIsPublic ==
  ASSUME Pb!TypeOK, NEW c
  PROVE  /\ Pb!Listed(c, 1).items \subseteq Pb!publishedWhere
         /\ Pb!Listed(c, 1).next \in Pb!Listed(c, 1).items \cup {0}
<1> DEFINE rows == Pb!findPublished(c, 2)
           last == Pb!LastOf(rows)
<1>1. rows \subseteq Pb!publishedWhere /\ Pb!publishedWhere \subseteq Articles
  BY DEF Pb!findPublished, Pb!publishedWhere
<1>2. IsFiniteSet(rows) /\ Cardinality(rows) \in Nat
  BY <1>1, FS_Subset, FS_CardinalityType, ArticlesAreFinite
<1> HIDE DEF rows
<1>3. CASE Cardinality(rows) > 1
  <2>1. rows # {} /\ rows \ {last} # {}
    <3>1. Cardinality(rows \ {last}) \in {Cardinality(rows), Cardinality(rows) - 1}
      BY <1>2, FS_RemoveElement
    <3> QED
      BY <1>2, <1>3, <3>1, FS_EmptySet
  <2>2. Pb!LastOf(rows \ {last}) \in rows \ {last}
    BY <1>1, <2>1, LastArticle
  <2> QED
    BY <1>1, <1>3, <2>2, SameCardinality DEF Pb!Listed, rows
<1>4. CASE ~(Cardinality(rows) > 1)
  BY <1>1, <1>4, SameCardinality DEF Pb!Listed, rows
<1> QED
  BY <1>3, <1>4

\* The public articles after a cursor; 0 stands before all of them.
After(c) == {p \in Pb!publishedWhere : c = 0 \/ Pb!Before(c, p)}

LEMMA TwoAreFetched ==
  ASSUME Pb!TypeOK, NEW c, c = 0 \/ c \in Pb!publishedWhere
  PROVE  Pb!findPublished(c, 2) =
           {p \in After(c) : RankIn(ArticleOrder, After(c), p) \in 0..1}
<1> DEFINE from == {p \in Pb!publishedWhere : c = 0 \/ p = c \/ Pb!Before(c, p)}
<1>1. /\ Pb!publishedWhere \in SUBSET Articles /\ 0 \notin Articles
      /\ from \in SUBSET Articles
  BY ContentAssumption DEF Pb!publishedWhere, Pb!PublicationAssumption
<1>2. \A p \in from :
        RankIn(ArticleOrder, from, p) = Pb!Cardinality({q \in from : Pb!Before(q, p)})
  <2> SUFFICES ASSUME NEW p \in from
               PROVE  {q \in from : <<q, p>> \in ArticleOrder}
                        = {q \in from : Pb!Before(q, p)}
    BY SameCardinality DEF RankIn
  <2> HIDE DEF from
  <2> QED
    BY <1>1, ArticlesAreOrdered
<1>3. Pb!findPublished(c, 2) =
        {p \in from : RankIn(ArticleOrder, from, p) \in
                        (IF c = 0 THEN 0 .. 1 ELSE 1 .. 2)}
  BY <1>2 DEF Pb!findPublished
<1>4. CASE c = 0
  <2>1. from = After(c)
    BY <1>4 DEF After
  <2> QED
    BY <1>3, <1>4, <2>1
<1>5. CASE c # 0
  <2>1. c \in Pb!publishedWhere
    BY <1>5
  <2>2. /\ from = {p \in Pb!publishedWhere : p = c \/ <<c, p>> \in ArticleOrder}
        /\ After(c) = {p \in Pb!publishedWhere : <<c, p>> \in ArticleOrder}
    BY <1>1, <1>5, <2>1, ArticlesAreOrdered DEF After
  <2> HIDE DEF from
  <2>3. {p \in from : RankIn(ArticleOrder, from, p) \in 1..2} =
          {p \in After(c) : RankIn(ArticleOrder, After(c), p) \in 0..1}
    BY <1>1, <2>1, <2>2, ArticlesAreFinite, ArticlesAreOrdered, CursorIsSkipped
  <2> QED
    BY <1>3, <1>5, <2>3
<1> QED
  BY <1>4, <1>5

\* One article is listed, the first after the cursor, which is the next cursor
\* unless nothing comes after it.
LEMMA FirstIsListed ==
  ASSUME Pb!TypeOK, NEW c, c = 0 \/ c \in Pb!publishedWhere
  PROVE  LET got == Pb!Listed(c, 1) IN
         \/ After(c) = {} /\ got.items = {} /\ got.next = 0
         \/ \E m \in After(c) :
              /\ \A q \in After(c) \ {m} : Pb!Before(m, q)
              /\ got.items = {m} /\ got.next = IF After(c) = {m} THEN 0 ELSE m
<1> DEFINE G == After(c)
           rows == Pb!findPublished(c, 2)
<1>1. G \in SUBSET Articles
  BY DEF After, Pb!publishedWhere
<1>2. rows = {p \in G : RankIn(ArticleOrder, G, p) \in 0..1}
  BY TwoAreFetched
<1>3. Pb!Listed(c, 1) =
        [items |-> IF Cardinality(rows) > 1 THEN rows \ {Pb!LastOf(rows)} ELSE rows,
         next |-> IF Cardinality(rows) > 1
                  THEN Pb!LastOf(rows \ {Pb!LastOf(rows)}) ELSE 0]
  BY SameCardinality DEF Pb!Listed
<1> HIDE DEF G, rows
<1>4. CASE G = {}
  <2>1. rows = {} /\ Cardinality({}) = 0
    BY <1>2, <1>4, FS_EmptySet
  <2> QED
    BY <1>3, <1>4, <2>1 DEF G
<1>5. CASE G # {}
  <2>1. PICK m \in G :
          /\ \A q \in G \ {m} : <<m, q>> \in ArticleOrder
          /\ \/ G = {m} /\ rows = {m} /\ Cardinality(rows) = 1
             \/ \E n \in G \ {m} : rows = {m, n} /\ Cardinality(rows) = 2
    <3>1. Linear(ArticleOrder, Articles)
      BY ArticlesAreOrdered
    <3>2. OneOrTwo(ArticleOrder, G, rows)
      BY <1>1, <1>2, <1>5, <3>1, ArticlesAreFinite, FirstTwo
    <3> QED
      BY <3>2 DEF OneOrTwo
  <2>2. \A q \in G \ {m} : Pb!Before(m, q)
    BY <1>1, <2>1, ArticlesAreOrdered
  <2>3. CASE G = {m} /\ rows = {m} /\ Cardinality(rows) = 1
    BY <1>3, <2>2, <2>3 DEF G
  <2>4. ASSUME NEW n \in G \ {m}, rows = {m, n}, Cardinality(rows) = 2
        PROVE  rows \ {Pb!LastOf(rows)} = {m}
    BY <1>1, <2>2, <2>4, LastArticle, OrderIsLinear
  <2>5. Pb!LastOf({m}) = m
    BY <1>1, LastArticle
  <2> QED
    BY <1>3, <2>1, <2>2, <2>3, <2>4, <2>5 DEF G
<1> QED
  BY <1>4, <1>5

LEMMA PbListKeeps ==
  ASSUME PbInv, NEW w \in Readers, Pb!List(w, 1)
  PROVE  PbInv'
<1> DEFINE c == reader[w].cursor
           got == Pb!Listed(c, 1)
           pub == Pb!publishedWhere
<1>1. Pb!TypeOK /\ Walks(w) /\ reader[w] \in Walk /\ reader \in [Readers -> Walk]
  BY DEF PbInv, Pb!TypeOK, Walk
<1>2. pub \subseteq Articles /\ 0 \notin Articles
  BY ContentAssumption DEF Pb!publishedWhere, Pb!PublicationAssumption
<1>3. /\ reader[w].pc # "done"
      /\ reader'[w] = [pc |-> IF got.next = 0 THEN "done" ELSE "more",
                       cursor |-> got.next, seen |-> reader[w].seen \cup got.items,
                       twice |-> reader[w].twice \cup (reader[w].seen \cap got.items),
                       steady |-> IF reader[w].pc = "idle" THEN pub ELSE reader[w].steady,
                       lost |-> reader[w].lost]
      /\ reader' = [reader EXCEPT ![w] = reader'[w]]
      /\ UNCHANGED <<slug, status, publishedAt, trashedArticles, publishRun,
                     publishStarted, articleTrashings>>
  BY <1>1 DEF Pb!List
<1>4. got.items \subseteq pub /\ got.next \in got.items \cup {0}
  BY <1>1, ListedIsPublic
<1> HIDE DEF got
<1>5. reader'[w] \in Walk
  BY <1>1, <1>2, <1>3, <1>4 DEF Walk
<1>6. Pb!TypeOK' /\ PublishesWell' /\ Pb!PublishedIsComplete'
  <2>1. reader' \in [Readers -> Walk]
    BY <1>1, <1>3, <1>5
  <2> QED
    BY <1>3, <2>1
       DEF PbInv, Pb!TypeOK, PublishesWell, Pb!PublishedIsComplete, Walk
<1>7. /\ pub' = pub /\ \A p, q : Pb!Before(p, q)' <=> Pb!Before(p, q)
  BY <1>3 DEF Pb!publishedWhere, Pb!Before
<1>8. ASSUME NEW v \in Readers, v # w PROVE Walks(v)'
  <2>1. reader'[v] = reader[v] /\ Walks(v)
    BY <1>1, <1>3, <1>8 DEF PbInv
  <2> QED
    BY <1>7, <2>1 DEF Walks, UpToCursor
<1>9. Walks(w)'
  <2>1. CASE reader[w].lost
    BY <1>1, <1>2, <1>3, <1>4, <2>1 DEF Walks, Walk
  <2>2. CASE ~reader[w].lost
    <3>1. \/ reader[w].pc = "idle" /\ c = 0 /\ reader[w].steady = {}
               /\ reader[w].seen = {} /\ reader[w].twice = {}
          \/ reader[w].pc = "more" /\ UpToCursor(w) /\ c \in pub /\ c # 0
      BY <1>1, <1>2, <1>3, <2>2 DEF Walks, Walk, UpToCursor
    <3>2. \/ After(c) = {} /\ got.items = {} /\ got.next = 0
          \/ \E m \in After(c) :
               /\ \A q \in After(c) \ {m} : Pb!Before(m, q)
               /\ got.items = {m} /\ got.next = IF After(c) = {m} THEN 0 ELSE m
      BY <1>1, <3>1, FirstIsListed DEF got
    <3>3. CASE reader[w].pc = "idle"
      <4>1. After(c) = pub
        BY <3>1, <3>3 DEF After
      <4>2. CASE After(c) = {} /\ got.items = {} /\ got.next = 0
        BY <1>3, <3>1, <3>3, <4>1, <4>2 DEF Walks
      <4>3. ASSUME NEW m \in After(c),
                   \A q \in After(c) \ {m} : Pb!Before(m, q),
                   got.items = {m}, got.next = IF After(c) = {m} THEN 0 ELSE m
            PROVE  Walks(w)'
        <5>1. \A p \in pub : p = m <=> (p = m \/ Pb!Before(p, m))
          BY <1>1, <1>2, <4>1, <4>3, OrderIsLinear
        <5>2. m # 0 /\ m \in pub
          BY <1>2, <4>1
        <5>3. CASE After(c) = {m}
          BY <1>3, <3>1, <3>3, <4>1, <4>3, <5>2, <5>3 DEF Walks
        <5>4. CASE After(c) # {m}
          <6>1. UpToCursor(w)'
            BY <1>3, <1>7, <3>1, <3>3, <4>3, <5>1, <5>2, <5>4 DEF UpToCursor
          <6> QED
            BY <1>2, <1>3, <4>3, <5>2, <5>4, <6>1 DEF Walks
        <5> QED
          BY <5>3, <5>4
      <4> QED
        BY <3>2, <4>2, <4>3
    <3>4. CASE reader[w].pc = "more"
      <4>1. /\ reader[w].steady \subseteq pub /\ reader[w].steady \cap reader[w].twice = {}
            /\ \A p \in reader[w].steady :
                 p \in reader[w].seen <=> (p = c \/ Pb!Before(p, c))
            /\ c \in pub
        BY <3>1, <3>4 DEF UpToCursor
      <4>2. \A p \in pub : p \in After(c) <=> ~(p = c \/ Pb!Before(p, c))
        BY <1>1, <1>2, <3>1, <3>4, OrderIsLinear DEF After
      <4>3. CASE After(c) = {} /\ got.items = {} /\ got.next = 0
        BY <1>3, <3>4, <4>1, <4>2, <4>3 DEF Walks
      <4>4. ASSUME NEW m \in After(c),
                   \A q \in After(c) \ {m} : Pb!Before(m, q),
                   got.items = {m}, got.next = IF After(c) = {m} THEN 0 ELSE m
            PROVE  Walks(w)'
        <5>1. m \in pub /\ m # 0
          BY <1>2 DEF After
        <5>2. m \in reader[w].steady => m \notin reader[w].seen
          BY <4>1, <4>2, <5>1
        <5>3. CASE After(c) = {m}
          BY <1>3, <3>4, <4>1, <4>2, <4>4, <5>1, <5>2, <5>3 DEF Walks
        <5>4. CASE After(c) # {m}
          <6>1. \A p \in pub : (p = m \/ Pb!Before(p, m)) <=>
                                 (p = m \/ p = c \/ Pb!Before(p, c))
            BY <1>1, <1>2, <3>1, <3>4, <4>1, <4>2, <4>4, <5>1, OrderIsLinear DEF After
          <6>2. UpToCursor(w)'
            BY <1>3, <1>7, <3>4, <4>1, <4>4, <5>1, <5>2, <5>4, <6>1 DEF UpToCursor
          <6> QED
            BY <1>2, <1>3, <4>4, <5>1, <5>4, <6>2 DEF Walks
        <5> QED
          BY <5>3, <5>4
      <4> QED
        BY <3>2, <4>3, <4>4
    <3> QED
      BY <3>1, <3>3, <3>4
  <2> QED
    BY <2>1, <2>2
<1> QED
  BY <1>6, <1>8, <1>9 DEF PbInv

LEMMA PbStepKeeps == PbInv /\ [Pb!Next]_pbVars => PbInv'
<1> SUFFICES ASSUME PbInv, [Pb!Next]_pbVars PROVE PbInv'
  OBVIOUS
<1>1. CASE UNCHANGED pbVars
  BY <1>1 DEF pbVars, PbInv, Pb!TypeOK, PublishesWell, Pb!PublishedIsComplete, Walks,
              UpToCursor, Pb!publishedWhere, Pb!Before
<1>2. CASE Pb!Next
  BY <1>2, PbAskedKeeps, PbUpdateKeeps, PbRestKeeps, PbTrashKeeps, PbListKeeps DEF Pb!Next
<1> QED
  BY <1>1, <1>2

LEMMA ContentMovesPublication ==
  [CommentsMove \/ PublicationMoves \/ SnapshotsMove \/ RemindersMove]_
      <<part, vars, pbVars, snVars, rmVars>> => [Pb!Next]_pbVars
BY DEF CommentsMove, PublicationMoves, SnapshotsMove, RemindersMove

LEMMA PublicationHolds == Content => []PbInv
<1>1. ContentInit => PbInv
  BY PbInitHolds DEF ContentInit
<1>2. PbInv /\ [CommentsMove \/ PublicationMoves \/ SnapshotsMove \/ RemindersMove]_
                 <<part, vars, pbVars, snVars, rmVars>> => PbInv'
  BY PbStepKeeps, ContentMovesPublication
<1> QED
  BY <1>1, <1>2, PTL DEF Content

\* What is public has an address and a date: publish never takes them back
\* (pages-publication.service.ts), whatever requests cross.
THEOREM PublishedStaysComplete == Content => []PublishedIsComplete
<1>1. PbInv => PublishedIsComplete
  BY DEF PbInv, PublishedIsComplete
<1> QED
  BY <1>1, PublicationHolds, PTL

-----------------------------------------------------------------------------
(* Snapshots: any number of saves, jobs, restores and versions.              *)

\* A job is at work while it is active, and one that waits has attempts left.
JobAtWork ==
  /\ snapshotJob.state = "active" <=> snapshotWorker.pc # "idle"
  /\ snapshotJob.state = "delayed" => snapshotJob.attempts < ATTEMPTS

\* Nothing is dated later than now.
NothingIsAhead ==
  /\ updatedAt <= hour
  /\ \A v \in Sn!Known : versions[v].at \in 1..hour

\* Every text was written once; the next one is new.
TextsAreWritten ==
  /\ text <= written /\ snapshotWorker.text <= written
  /\ \A v \in VersionIds : versions[v].text <= written

\* A version not older than the row has its text, or was made over it.
NewestHasText ==
  (\E v \in Sn!Known : versions[v].at >= updatedAt) => Sn!Kept(text) \/ text \in uncovered

\* What the processor compares is the row as it is, or another text, or one that a
\* restore has brought back.
ComparesRow ==
  snapshotWorker.pc = "compare" /\ snapshotWorker.text = text =>
    snapshotWorker.at = updatedAt \/ Sn!Kept(text)

\* Who walks has seen what stands before his cursor, of what he began with all.
HistoryWalk ==
  /\ walk.twice = {} /\ walk.seen \subseteq Sn!Known /\ walk.expected \subseteq Sn!Known
  /\ walk.pc = "idle" => walk.cursor = 0 /\ walk.seen = {} /\ walk.expected = {}
  /\ walk.pc = "more" =>
       /\ walk.cursor \in Sn!Known
       /\ \A v \in walk.seen : v = walk.cursor \/ Sn!Before(v, walk.cursor)
       /\ \A v \in walk.expected :
            v = walk.cursor \/ Sn!Before(v, walk.cursor) => v \in walk.seen
  /\ walk.pc = "done" => walk.expected \subseteq walk.seen

SnInv ==
  /\ Sn!TypeOK /\ JobAtWork /\ NothingIsAhead /\ TextsAreWritten /\ NewestHasText
  /\ ComparesRow /\ Sn!TextIsKeptOrPlanned /\ HistoryWalk

LEMMA VersionsAreFinite == IsFiniteSet(VersionIds) /\ VersionIds \subseteq Nat \ {0}
BY ContentAssumption DEF Sn!SnapshotsAssumption, Sn!IsFiniteSet, IsFiniteSet

LEMMA SnCardinality == \A S : Sn!Cardinality(S) = Cardinality(S)
BY DEF Sn!Cardinality, Cardinality, Sn!IsFiniteSet, IsFiniteSet

LEMMA SnInitHolds == Sn!Init => SnInv
<1> SUFFICES ASSUME Sn!Init PROVE SnInv
  OBVIOUS
<1> USE DEF Sn!Init, Sn!AtRest, Sn!NoVersion
<1>1. Sn!Known = {}
  BY DEF Sn!Known
<1>2. Sn!TypeOK
  <2>1. /\ LastHour \in Nat \ {0} /\ MaxWrites \in Nat /\ MaxErrors \in Nat
        /\ ATTEMPTS \in Nat \ {0}
    BY ContentAssumption DEF Sn!SnapshotsAssumption
  <2>2. 0 \in 0..MaxWrites /\ 0 \in 0..LastHour /\ 1 \in 1..LastHour /\ 0 \in 0..ATTEMPTS
        /\ 0 \in 0..MaxErrors
    BY <2>1
  <2>3. versions \in [VersionIds -> [text : 0..MaxWrites, at : 0..LastHour]]
    BY <2>2
  <2>4. writer \in [Writers -> 0..MaxWrites]
    BY <2>2
  <2>5. snapshotJob \in [state : {"none", "delayed", "active", "failed"},
                         attempts : 0..ATTEMPTS]
    BY <2>2
  <2>6. snapshotWorker \in [pc : {"idle", "read", "compare", "create"},
                            text : 0..MaxWrites, at : 0..LastHour]
    BY <2>2
  <2>7. walk \in [pc : {"idle", "more", "done"}, cursor : VersionIds \cup {0},
                  seen : SUBSET VersionIds, twice : SUBSET VersionIds,
                  expected : SUBSET VersionIds]
    OBVIOUS
  <2> QED
    BY <2>2, <2>3, <2>4, <2>5, <2>6, <2>7 DEF Sn!TypeOK
<1>3. JobAtWork /\ NothingIsAhead /\ TextsAreWritten /\ NewestHasText /\ ComparesRow
  BY <1>1 DEF JobAtWork, NothingIsAhead, TextsAreWritten, NewestHasText, ComparesRow
<1>4. Sn!TextIsKeptOrPlanned /\ HistoryWalk
  BY <1>1 DEF Sn!TextIsKeptOrPlanned, Sn!Covered, Sn!Kept, HistoryWalk
<1> QED
  BY <1>2, <1>3, <1>4 DEF SnInv

\* Where no version is made, the walk stands as it was.
LEMMA WalkStands ==
  ASSUME HistoryWalk, UNCHANGED <<versions, walk>>
  PROVE  HistoryWalk'
BY DEF HistoryWalk, Sn!Known, Sn!Before, Sn!NoVersion

\* A version that is made is dated now and takes nothing from the others.
LEMMA VersionIsMade ==
  ASSUME SnInv, NEW v \in VersionIds, v \notin Sn!Known, NEW t \in 0..MaxWrites,
         versions' = [versions EXCEPT ![v] = [text |-> t, at |-> hour]]
  PROVE  /\ versions' \in [VersionIds -> [text : 0..MaxWrites, at : 0..LastHour]]
         /\ Sn!Known' = Sn!Known \cup {v} /\ versions'[v] = [text |-> t, at |-> hour]
         /\ \A u \in Sn!Known : versions'[u] = versions[u]
         /\ UNCHANGED walk => HistoryWalk'
<1>1. versions \in [VersionIds -> [text : 0..MaxWrites, at : 0..LastHour]]
      /\ hour \in 1..LastHour
  BY DEF SnInv, Sn!TypeOK
<1>2. versions'[v] = [text |-> t, at |-> hour]
      /\ \A u \in VersionIds \ {v} : versions'[u] = versions[u]
  BY <1>1
<1>3. Sn!Known' = Sn!Known \cup {v}
  BY <1>1, <1>2 DEF Sn!Known, Sn!NoVersion
<1>4. versions' \in [VersionIds -> [text : 0..MaxWrites, at : 0..LastHour]]
  BY <1>1
<1>5. \A u \in Sn!Known : u \in VersionIds /\ u # v
  BY DEF Sn!Known
<1>6. \A u, w \in Sn!Known : Sn!Before(u, w)' <=> Sn!Before(u, w)
  BY <1>2, <1>5 DEF Sn!Before
<1>7. ASSUME UNCHANGED walk PROVE HistoryWalk'
  BY <1>3, <1>6, <1>7 DEF SnInv, HistoryWalk
<1> QED
  BY <1>2, <1>3, <1>4, <1>5, <1>7

LEMMA WritesKeeps ==
  ASSUME SnInv, NEW w \in Writers, Sn!Writes(w)
  PROVE  SnInv'
<1> USE DEF Sn!Writes
<1>0. MaxWrites \in Nat /\ MaxErrors \in Nat
  BY ContentAssumption DEF Sn!SnapshotsAssumption
<1>1. Sn!TypeOK'
  <2>1. written' \in 0..MaxWrites /\ text' \in 0..MaxWrites /\ updatedAt' \in 0..LastHour
    BY <1>0 DEF SnInv, Sn!TypeOK
  <2>2. writer' \in [Writers -> 0..MaxWrites]
    BY <2>1 DEF SnInv, Sn!TypeOK
  <2>3. uncovered' \in SUBSET (0..MaxWrites)
    BY <2>1 DEF SnInv, Sn!TypeOK, Sn!Misses
  <2> QED
    BY <2>1, <2>2, <2>3 DEF SnInv, Sn!TypeOK
<1>2. Sn!Known' = Sn!Known
  BY DEF Sn!Known, Sn!NoVersion
<1>3. JobAtWork' /\ NothingIsAhead' /\ TextsAreWritten'
  BY <1>2 DEF SnInv, Sn!TypeOK, JobAtWork, NothingIsAhead, TextsAreWritten
<1>4. NewestHasText'
  <2>1. /\ versions' = versions /\ updatedAt' = hour /\ text' = written + 1
        /\ (\E v \in Sn!Known : versions[v].at = hour) => text' \in uncovered'
    BY DEF Sn!Misses
  <2>2. \A v \in Sn!Known : versions[v].at \in 1..hour
    BY DEF SnInv, NothingIsAhead
  <2>3. hour \in Nat
    BY DEF SnInv, Sn!TypeOK
  <2>4. ASSUME NEW v \in Sn!Known, versions[v].at >= hour PROVE versions[v].at = hour
    BY <2>2, <2>3, <2>4
  <2> QED
    BY <1>2, <2>1, <2>4 DEF NewestHasText
<1>5. ComparesRow'
  BY DEF SnInv, Sn!TypeOK, TextsAreWritten, ComparesRow
<1>6. Sn!TextIsKeptOrPlanned'
  BY DEF SnInv, Sn!TypeOK, Sn!TextIsKeptOrPlanned, Sn!Covered
<1> QED
  BY <1>1, <1>3, <1>4, <1>5, <1>6, WalkStands DEF SnInv

LEMMA ScheduleKeeps ==
  ASSUME SnInv, NEW w \in Writers, Sn!scheduleAutoSnapshot(w) \/ Sn!ScheduleFails(w)
  PROVE  SnInv'
<1> USE DEF Sn!scheduleAutoSnapshot, Sn!ScheduleFails
<1>0. MaxWrites \in Nat /\ MaxErrors \in Nat /\ ATTEMPTS \in Nat \ {0}
  BY ContentAssumption DEF Sn!SnapshotsAssumption
<1>1. Sn!TypeOK'
  <2>1. errors' \in 0..MaxErrors
    BY <1>0 DEF SnInv, Sn!TypeOK
  <2>2. writer' \in [Writers -> 0..MaxWrites]
    BY <1>0 DEF SnInv, Sn!TypeOK
  <2>3. uncovered' \in SUBSET (0..MaxWrites)
    <3>1. writer[w] \in 0..MaxWrites /\ uncovered \in SUBSET (0..MaxWrites)
      BY DEF SnInv, Sn!TypeOK
    <3>2. uncovered' = uncovered \/ uncovered' = uncovered \cup {writer[w]}
      BY DEF Sn!Misses
    <3> QED
      BY <3>1, <3>2
  <2>4. snapshotJob' \in [state : {"none", "delayed", "active", "failed"},
                          attempts : 0..ATTEMPTS]
    BY <1>0 DEF SnInv, Sn!TypeOK
  <2> QED
    BY <2>1, <2>2, <2>3, <2>4 DEF SnInv, Sn!TypeOK
<1>2. Sn!Known' = Sn!Known /\ (Sn!Kept(text) => Sn!Kept(text)')
      /\ uncovered \subseteq uncovered'
  BY DEF Sn!Known, Sn!NoVersion, Sn!Kept, Sn!Misses
<1>3. JobAtWork' /\ NothingIsAhead' /\ TextsAreWritten'
  BY <1>2, ContentAssumption
     DEF SnInv, Sn!TypeOK, JobAtWork, NothingIsAhead, TextsAreWritten, Sn!SnapshotsAssumption
<1>4. NewestHasText' /\ ComparesRow'
  BY <1>2 DEF SnInv, NewestHasText, ComparesRow, Sn!Kept
<1>5. Sn!TextIsKeptOrPlanned'
  <2>1. \A v \in Writers : writer'[v] = IF v = w THEN 0 ELSE writer[v]
    BY DEF SnInv, Sn!TypeOK
  <2> QED
    BY <1>2, <2>1 DEF SnInv, Sn!TypeOK, JobAtWork, Sn!TextIsKeptOrPlanned, Sn!Covered,
                      Sn!Misses, Sn!Kept
<1> QED
  BY <1>1, <1>3, <1>4, <1>5, WalkStands DEF SnInv

LEMMA JobKeeps ==
  ASSUME SnInv,
         \/ Sn!JobStarts \/ Sn!ReadsContent \/ Sn!FindsLatest \/ Sn!JobFails
         \/ Sn!FailedJobIsRemoved
  PROVE  SnInv'
<1> USE DEF Sn!JobStarts, Sn!ReadsContent, Sn!FindsLatest, Sn!JobFails,
            Sn!FailedJobIsRemoved, Sn!Completes, Sn!AtRest
<1>1. Sn!TypeOK'
  BY ContentAssumption DEF SnInv, Sn!TypeOK, JobAtWork, Sn!Misses, Sn!SnapshotsAssumption
<1>2. Sn!Known' = Sn!Known /\ (Sn!Kept(text) <=> Sn!Kept(text)')
      /\ uncovered \subseteq uncovered'
  BY DEF Sn!Known, Sn!NoVersion, Sn!Kept, Sn!Misses
<1>3. JobAtWork' /\ NothingIsAhead' /\ TextsAreWritten'
  BY <1>2, ContentAssumption
     DEF SnInv, Sn!TypeOK, JobAtWork, NothingIsAhead, TextsAreWritten, Sn!SnapshotsAssumption
<1>4. NewestHasText' /\ ComparesRow'
  BY <1>2 DEF SnInv, Sn!TypeOK, NewestHasText, ComparesRow
<1>5. Sn!TextIsKeptOrPlanned'
  <2>1. CASE Sn!FindsLatest
    <3>1. CASE snapshotWorker.text = text /\ Sn!HasNoChanges(snapshotWorker.at)
      <4>1. Sn!Kept(text) \/ text \in uncovered
        BY <2>1, <3>1 DEF SnInv, ComparesRow, NewestHasText, Sn!HasNoChanges
      <4> QED
        BY <1>2, <2>1, <4>1 DEF Sn!TextIsKeptOrPlanned, Sn!Covered
    <3>2. CASE ~(snapshotWorker.text = text /\ Sn!HasNoChanges(snapshotWorker.at))
      BY <1>2, <2>1, <3>2 DEF SnInv, Sn!TypeOK, JobAtWork, Sn!TextIsKeptOrPlanned, Sn!Covered
    <3> QED
      BY <3>1, <3>2
  <2>2. CASE ~Sn!FindsLatest
    BY <1>2, <2>2 DEF SnInv, Sn!TypeOK, JobAtWork, Sn!TextIsKeptOrPlanned, Sn!Covered,
                      Sn!Misses
  <2> QED
    BY <2>1, <2>2
<1> QED
  BY <1>1, <1>3, <1>4, <1>5, WalkStands DEF SnInv

LEMMA CreatesKeeps ==
  ASSUME SnInv, NEW v \in VersionIds, Sn!CreatesVersion(v)
  PROVE  SnInv'
<1> USE DEF Sn!CreatesVersion, Sn!Completes, Sn!AtRest
<1>1. /\ versions' \in [VersionIds -> [text : 0..MaxWrites, at : 0..LastHour]]
      /\ Sn!Known' = Sn!Known \cup {v}
      /\ versions'[v] = [text |-> snapshotWorker.text, at |-> hour]
      /\ \A u \in Sn!Known : versions'[u] = versions[u]
      /\ HistoryWalk'
  BY VersionIsMade DEF SnInv, Sn!TypeOK
<1>2. Sn!TypeOK'
  <2>1. uncovered' \in SUBSET (0..MaxWrites)
    BY DEF SnInv, Sn!TypeOK, Sn!Misses
  <2>2. /\ snapshotJob' \in [state : {"none", "delayed", "active", "failed"},
                             attempts : 0..ATTEMPTS]
        /\ snapshotWorker' \in [pc : {"idle", "read", "compare", "create"},
                                text : 0..MaxWrites, at : 0..LastHour]
    BY ContentAssumption DEF Sn!SnapshotsAssumption
  <2> QED
    BY <1>1, <2>1, <2>2 DEF SnInv, Sn!TypeOK
<1>3. (Sn!Kept(text) => Sn!Kept(text)') /\ uncovered \subseteq uncovered'
      /\ (Sn!Kept(text)' \/ text \in uncovered')
  BY <1>1 DEF Sn!Kept, Sn!Misses
<1>4. JobAtWork' /\ ComparesRow'
  BY DEF SnInv, JobAtWork, ComparesRow
<1>5. NothingIsAhead'
  BY <1>1 DEF SnInv, Sn!TypeOK, NothingIsAhead
<1>6. TextsAreWritten'
  BY <1>1 DEF SnInv, Sn!TypeOK, TextsAreWritten
<1>7. NewestHasText' /\ Sn!TextIsKeptOrPlanned'
  BY <1>3 DEF NewestHasText, Sn!TextIsKeptOrPlanned, Sn!Covered, Sn!Kept
<1> QED
  BY <1>1, <1>2, <1>4, <1>5, <1>6, <1>7 DEF SnInv

LEMMA SnRestoresKeeps ==
  ASSUME SnInv, NEW v \in VersionIds, NEW new \in VersionIds, Sn!Restores(v, new)
  PROVE  SnInv'
<1> USE DEF Sn!Restores
<1>1. /\ versions' \in [VersionIds -> [text : 0..MaxWrites, at : 0..LastHour]]
      /\ Sn!Known' = Sn!Known \cup {new}
      /\ versions'[new] = [text |-> text, at |-> hour]
      /\ \A u \in Sn!Known : versions'[u] = versions[u]
      /\ HistoryWalk'
  BY VersionIsMade DEF SnInv, Sn!TypeOK
<1>2. Sn!TypeOK'
  BY <1>1 DEF SnInv, Sn!TypeOK
<1>3. Sn!Kept(text)'
  BY <1>1 DEF Sn!Kept
<1>4. JobAtWork' /\ ComparesRow'
  BY <1>3 DEF SnInv, JobAtWork, ComparesRow, Sn!Kept
<1>5. NothingIsAhead'
  BY <1>1 DEF SnInv, Sn!TypeOK, NothingIsAhead
<1>6. TextsAreWritten'
  BY <1>1 DEF SnInv, Sn!TypeOK, TextsAreWritten
<1>7. NewestHasText' /\ Sn!TextIsKeptOrPlanned'
  BY <1>3 DEF NewestHasText, Sn!TextIsKeptOrPlanned, Sn!Covered, Sn!Kept
<1> QED
  BY <1>1, <1>2, <1>4, <1>5, <1>6, <1>7 DEF SnInv

LEMMA AroundKeeps ==
  ASSUME SnInv, Sn!TrashChanges \/ Sn!Tick
  PROVE  SnInv'
<1> USE DEF Sn!TrashChanges, Sn!Tick
<1>1. Sn!TypeOK'
  <2>1. trashed' \in BOOLEAN
    BY DEF SnInv, Sn!TypeOK
  <2>2. hour' \in 1..LastHour
    BY ContentAssumption DEF SnInv, Sn!TypeOK, Sn!SnapshotsAssumption
  <2> QED
    BY <2>1, <2>2 DEF SnInv, Sn!TypeOK
<1>2. Sn!Known' = Sn!Known
  BY DEF Sn!Known, Sn!NoVersion
<1>3. JobAtWork' /\ NothingIsAhead' /\ TextsAreWritten'
  BY <1>2 DEF SnInv, Sn!TypeOK, JobAtWork, NothingIsAhead, TextsAreWritten, Sn!Known
<1>4. NewestHasText' /\ ComparesRow' /\ Sn!TextIsKeptOrPlanned'
  BY <1>2 DEF SnInv, NewestHasText, ComparesRow, Sn!TextIsKeptOrPlanned, Sn!Covered, Sn!Kept
<1> QED
  BY <1>1, <1>3, <1>4, WalkStands DEF SnInv

-----------------------------------------------------------------------------
(* The list of versions, one version at a time                               *)

VersionOrder == {b \in VersionIds \X VersionIds : Sn!Before(b[1], b[2])}

LEMMA VersionsAreOrdered ==
  ASSUME Sn!TypeOK
  PROVE  /\ Linear(VersionOrder, VersionIds)
         /\ \A u, v \in VersionIds : <<u, v>> \in VersionOrder <=> Sn!Before(u, v)
<1>1. \A v \in VersionIds : v \in Int /\ versions[v].at \in Int
  BY VersionsAreFinite DEF Sn!TypeOK
<1>2. /\ \A u, v \in VersionIds : u # v => Sn!Before(u, v) \/ Sn!Before(v, u)
      /\ \A u, v \in VersionIds : ~(Sn!Before(u, v) /\ Sn!Before(v, u))
      /\ \A u, v, x \in VersionIds :
           Sn!Before(u, v) /\ Sn!Before(v, x) => Sn!Before(u, x)
  BY <1>1 DEF Sn!Before
<1> QED
  BY <1>2 DEF Linear, VersionOrder

LEMMA SnRank ==
  ASSUME Sn!TypeOK, NEW G \in SUBSET VersionIds, NEW v \in VersionIds
  PROVE  Sn!Rank(v, G) = RankIn(VersionOrder, G, v)
<1>1. {u \in G : <<u, v>> \in VersionOrder} = {u \in G : Sn!Before(u, v)}
  BY VersionsAreOrdered
<1> QED
  BY <1>1, SnCardinality DEF RankIn, Sn!Rank

LEMMA SnRankIsANumber ==
  ASSUME Sn!TypeOK, NEW G \in SUBSET VersionIds, NEW v \in VersionIds
  PROVE  /\ Sn!Rank(v, G) \in Nat
         /\ Sn!Rank(v, G) = 0 <=> \A u \in G : ~Sn!Before(u, v)
<1>1. /\ RankIn(VersionOrder, G, v) \in Nat
      /\ RankIn(VersionOrder, G, v) = 0 <=> \A u \in G : <<u, v>> \notin VersionOrder
  BY VersionsAreFinite, RankIsANumber
<1>2. \A u \in G : <<u, v>> \in VersionOrder <=> Sn!Before(u, v)
  BY VersionsAreOrdered
<1> QED
  BY <1>1, <1>2, SnRank

LEMMA NoVersionIsBeforeItself ==
  ASSUME Sn!TypeOK
  PROVE  \A u, v \in VersionIds : ~(Sn!Before(u, v) /\ Sn!Before(v, u))
BY VersionsAreOrdered DEF Linear

\* The versions after a cursor.
Following(c) == {v \in Sn!Known : c = 0 \/ Sn!Before(c, v)}

LEMMA TwoAreRead ==
  ASSUME Sn!TypeOK, NEW c, c = 0 \/ c \in Sn!Known
  PROVE  Sn!Rows(c, 2) =
           {v \in Following(c) : RankIn(VersionOrder, Following(c), v) \in 0..1}
<1> DEFINE from == Sn!From(c)
<1>1. /\ Sn!Known \in SUBSET VersionIds /\ 0 \notin VersionIds
      /\ from \in SUBSET VersionIds
  BY VersionsAreFinite DEF Sn!Known, Sn!From
<1>2. \A v \in from : Sn!Rank(v, from) = RankIn(VersionOrder, from, v)
  <2> HIDE DEF from
  <2> QED
    BY <1>1, SnRank
<1>3. Sn!Rows(c, 2) =
        {v \in from : RankIn(VersionOrder, from, v) \in (IF c = 0 THEN 0 .. 1 ELSE 1 .. 2)}
  BY <1>2 DEF Sn!Rows
<1>4. CASE c = 0
  <2>1. from = Following(c)
    BY <1>4 DEF Following, Sn!From
  <2> QED
    BY <1>3, <1>4, <2>1
<1>5. CASE c # 0
  <2>1. c \in Sn!Known
    BY <1>5
  <2>2. /\ from = {v \in Sn!Known : v = c \/ <<c, v>> \in VersionOrder}
        /\ Following(c) = {v \in Sn!Known : <<c, v>> \in VersionOrder}
    BY <1>1, <1>5, <2>1, VersionsAreOrdered DEF Following, Sn!From
  <2>3. Linear(VersionOrder, VersionIds) /\ IsFiniteSet(VersionIds)
    BY VersionsAreFinite, VersionsAreOrdered
  <2> DEFINE K == Sn!Known
             G == Following(c)
  <2>4. /\ K \in SUBSET VersionIds /\ c \in K
        /\ from = {v \in K : v = c \/ <<c, v>> \in VersionOrder}
        /\ G = {v \in K : <<c, v>> \in VersionOrder}
    BY <1>1, <2>1, <2>2
  <2> HIDE DEF from, K, G
  <2>5. {v \in from : RankIn(VersionOrder, from, v) \in 1..2} =
          {v \in G : RankIn(VersionOrder, G, v) \in 0..1}
    BY <2>3, <2>4, CursorIsSkipped
  <2> QED
    BY <1>3, <1>5, <2>5 DEF G
<1> QED
  BY <1>4, <1>5

\* One version is listed, the first after the cursor, and it is the next cursor
\* unless nothing comes after it.
LEMMA ListShowsFirst ==
  ASSUME SnInv, Sn!Lists(1)
  PROVE  LET G == Following(walk.cursor) IN
         \E items, next :
           /\ \/ G = {} /\ items = {} /\ next = 0
              \/ \E m \in G : /\ \A v \in G \ {m} : Sn!Before(m, v)
                              /\ items = {m} /\ next = IF G = {m} THEN 0 ELSE m
           /\ walk' = [pc |-> IF next = 0 THEN "done" ELSE "more", cursor |-> next,
                       seen |-> walk.seen \cup items,
                       twice |-> walk.twice \cup (walk.seen \cap items),
                       expected |-> IF walk.pc = "idle" THEN Sn!Known ELSE walk.expected]
<1> DEFINE c == walk.cursor
           G == Following(c)
           rows == Sn!Rows(c, 1 + 1)
           hasMore == Sn!Cardinality(rows) > 1
           items == {v \in rows : hasMore => Sn!Rank(v, rows) < 1}
           next == IF hasMore THEN CHOOSE v \in items : Sn!Rank(v, items) = 1 - 1 ELSE 0
<1>1. /\ Sn!TypeOK /\ G \in SUBSET VersionIds /\ 0 \notin VersionIds
      /\ c = 0 \/ c \in Sn!Known
  BY VersionsAreFinite DEF SnInv, Following, Sn!Known, HistoryWalk, Sn!Lists, Sn!TypeOK
<1>2. walk' = [pc |-> IF hasMore THEN "more" ELSE "done", cursor |-> next,
               seen |-> walk.seen \cup items,
               twice |-> walk.twice \cup (walk.seen \cap items),
               expected |-> IF walk.pc = "idle" THEN Sn!Known ELSE walk.expected]
  BY DEF Sn!Lists
<1>3. rows = {v \in G : RankIn(VersionOrder, G, v) \in 0..1}
  BY <1>1, TwoAreRead, 1 + 1 = 2
<1>4. rows \in SUBSET VersionIds
  BY <1>1, <1>3
<1> HIDE DEF G, rows
<1>5. CASE G = {}
  <2>1. rows = {} /\ Cardinality({}) = 0
    BY <1>3, <1>5, FS_EmptySet
  <2>2. ~hasMore /\ items = {} /\ next = 0
    BY <2>1, SnCardinality
  <2> QED
    BY <1>2, <1>5, <2>2 DEF G
<1>6. CASE G # {}
  <2>1. OneOrTwo(VersionOrder, G, rows)
    <3>1. Linear(VersionOrder, VersionIds)
      BY <1>1, VersionsAreOrdered
    <3> QED
      BY <1>1, <1>3, <1>6, <3>1, VersionsAreFinite, FirstTwo
  <2>2. PICK m \in G :
          /\ \A v \in G \ {m} : <<m, v>> \in VersionOrder
          /\ \/ G = {m} /\ rows = {m} /\ Cardinality(rows) = 1
             \/ \E n \in G \ {m} : rows = {m, n} /\ Cardinality(rows) = 2
    BY <2>1 DEF OneOrTwo
  <2>3. (\A v \in G \ {m} : Sn!Before(m, v)) /\ m # 0
    BY <1>1, <2>2, VersionsAreOrdered
  <2>4. CASE G = {m} /\ rows = {m} /\ Cardinality(rows) = 1
    <3>1. ~hasMore /\ items = {m} /\ next = 0
      BY <2>4, SnCardinality
    <3> QED
      BY <1>2, <2>3, <2>4, <3>1 DEF G
  <2>5. ASSUME NEW n \in G \ {m}, rows = {m, n}, Cardinality(rows) = 2
        PROVE  hasMore /\ items = {m} /\ next = m
    <3>1. hasMore
      BY <2>5, SnCardinality
    <3>2. m \in VersionIds /\ n \in VersionIds /\ {m} \in SUBSET VersionIds
      BY <1>1, <2>2, <2>5
    <3>3. Sn!Before(m, n) /\ ~Sn!Before(n, m) /\ ~Sn!Before(m, m)
      BY <1>1, <2>3, <2>5, <3>2, NoVersionIsBeforeItself
    <3>4. Sn!Rank(m, rows) = 0 /\ Sn!Rank(m, {m}) = 0
      <4>1. (\A u \in rows : ~Sn!Before(u, m)) /\ (\A u \in {m} : ~Sn!Before(u, m))
        BY <2>5, <3>3
      <4> QED
        BY <1>1, <1>4, <3>2, <4>1, SnRankIsANumber
    <3>5. Sn!Rank(n, rows) # 0 /\ Sn!Rank(n, rows) \in Nat
      <4>1. ~\A u \in rows : ~Sn!Before(u, n)
        BY <2>5, <3>3
      <4> QED
        BY <1>1, <1>4, <3>2, <4>1, SnRankIsANumber
    <3>6. items = {m}
      BY <3>1, <3>4, <3>5, <2>5
    <3>7. next = m
      BY <3>1, <3>4, <3>6, 1 - 1 = 0
    <3> QED
      BY <3>1, <3>6, <3>7
  <2>6. CASE \E n \in G \ {m} : rows = {m, n} /\ Cardinality(rows) = 2
    <3>1. hasMore /\ items = {m} /\ next = m /\ G # {m}
      BY <2>5, <2>6
    <3>2. next # 0
      BY <2>3, <3>1
    <3>3. walk' = [pc |-> IF next = 0 THEN "done" ELSE "more", cursor |-> next,
                   seen |-> walk.seen \cup items,
                   twice |-> walk.twice \cup (walk.seen \cap items),
                   expected |-> IF walk.pc = "idle" THEN Sn!Known ELSE walk.expected]
      BY <1>2, <3>1, <3>2
    <3> HIDE DEF hasMore, items, next
    <3>4. next = IF G = {m} THEN 0 ELSE m
      BY <3>1
    <3> QED
      BY <2>3, <3>1, <3>3, <3>4 DEF G
  <2> QED
    BY <2>2, <2>4, <2>6
<1> QED
  BY <1>5, <1>6

LEMMA SnListsKeeps ==
  ASSUME SnInv, Sn!Lists(1)
  PROVE  SnInv'
<1> DEFINE G == Following(walk.cursor)
<1>1. PICK items, next :
        /\ \/ G = {} /\ items = {} /\ next = 0
           \/ \E m \in G : /\ \A v \in G \ {m} : Sn!Before(m, v)
                           /\ items = {m} /\ next = IF G = {m} THEN 0 ELSE m
        /\ walk' = [pc |-> IF next = 0 THEN "done" ELSE "more", cursor |-> next,
                    seen |-> walk.seen \cup items,
                    twice |-> walk.twice \cup (walk.seen \cap items),
                    expected |-> IF walk.pc = "idle" THEN Sn!Known ELSE walk.expected]
  BY ListShowsFirst
<1>2. /\ Sn!Known \subseteq VersionIds /\ 0 \notin VersionIds /\ G \subseteq Sn!Known
      /\ HistoryWalk /\ walk.pc \in {"idle", "more"}
  BY VersionsAreFinite DEF SnInv, Sn!Known, Following, Sn!Lists, Sn!TypeOK
<1>3. UNCHANGED <<hour, text, updatedAt, trashed, versions, snapshotJob, snapshotWorker,
                  writer, written, errors, uncovered>>
  BY DEF Sn!Lists
<1>4. Sn!Known' = Sn!Known /\ \A u, v : Sn!Before(u, v)' <=> Sn!Before(u, v)
  BY <1>3 DEF Sn!Known, Sn!NoVersion, Sn!Before
<1>5. Sn!TypeOK'
  <2>1. walk' \in [pc : {"idle", "more", "done"}, cursor : VersionIds \cup {0},
                  seen : SUBSET VersionIds, twice : SUBSET VersionIds,
                  expected : SUBSET VersionIds]
    <3>1. items \subseteq VersionIds /\ next \in VersionIds \cup {0}
      BY <1>1, <1>2
    <3> QED
      BY <1>1, <1>2, <3>1 DEF SnInv, Sn!TypeOK
  <2> QED
    BY <1>3, <2>1 DEF SnInv, Sn!TypeOK
<1>6. \A u, v \in Sn!Known :
        /\ u # v => Sn!Before(u, v) \/ Sn!Before(v, u)
        /\ ~(Sn!Before(u, v) /\ Sn!Before(v, u))
        /\ \A x \in Sn!Known : Sn!Before(u, v) /\ Sn!Before(v, x) => Sn!Before(u, x)
  BY <1>2, VersionsAreOrdered DEF SnInv, Linear
<1>7. HistoryWalk'
  <2>1. CASE walk.pc = "idle"
    <3>1. /\ walk.cursor = 0 /\ walk.seen = {} /\ walk.twice = {} /\ G = Sn!Known
      BY <1>2, <2>1 DEF HistoryWalk, Following
    <3>2. /\ walk'.cursor = next /\ walk'.seen = items /\ walk'.twice = {}
          /\ walk'.expected = Sn!Known
          /\ walk'.pc = IF next = 0 THEN "done" ELSE "more"
      BY <1>1, <2>1, <3>1
    <3> HIDE DEF G
    <3> QED
      BY <1>1, <1>2, <1>4, <1>6, <3>1, <3>2 DEF HistoryWalk
  <2>2. CASE walk.pc = "more"
    <3>1. /\ walk.cursor \in Sn!Known /\ walk.cursor # 0 /\ walk.twice = {}
          /\ walk.seen \subseteq Sn!Known /\ walk.expected \subseteq Sn!Known
          /\ \A v \in walk.seen : v = walk.cursor \/ Sn!Before(v, walk.cursor)
          /\ \A v \in walk.expected :
               v = walk.cursor \/ Sn!Before(v, walk.cursor) => v \in walk.seen
      BY <1>2, <2>2 DEF HistoryWalk
    <3>2. \A v \in Sn!Known : v \in G <=> Sn!Before(walk.cursor, v)
      BY <3>1 DEF Following
    <3>3. \A v \in Sn!Known : v \notin G <=> (v = walk.cursor \/ Sn!Before(v, walk.cursor))
      BY <1>6, <3>1, <3>2
    <3>4. /\ walk'.cursor = next /\ walk'.seen = walk.seen \cup items
          /\ walk'.twice = walk.seen \cap items /\ walk'.expected = walk.expected
          /\ walk'.pc = IF next = 0 THEN "done" ELSE "more"
      BY <1>1, <2>2, <3>1
    <3>5. walk.seen \cap items = {}
      BY <1>1, <1>2, <3>1, <3>3
    <3> HIDE DEF G
    <3>6. CASE G = {} /\ items = {} /\ next = 0
      BY <1>4, <3>1, <3>3, <3>4, <3>5, <3>6 DEF HistoryWalk
    <3>7. ASSUME NEW m \in G, \A v \in G \ {m} : Sn!Before(m, v),
                 items = {m}, next = IF G = {m} THEN 0 ELSE m
          PROVE  HistoryWalk'
      <4>1. m \in Sn!Known /\ m # 0
        BY <1>2
      <4>2. CASE G = {m}
        BY <1>4, <3>1, <3>3, <3>4, <3>5, <3>7, <4>1, <4>2 DEF HistoryWalk
      <4>3. CASE G # {m}
        <5>1. \A v \in Sn!Known :
                (v = m \/ Sn!Before(v, m)) <=> (v = m \/ v \notin G)
          BY <1>2, <1>6, <3>1, <3>2, <3>3, <3>7, <4>1
        <5> QED
          BY <1>4, <3>1, <3>3, <3>4, <3>5, <3>7, <4>1, <4>3, <5>1 DEF HistoryWalk
      <4> QED
        BY <4>2, <4>3
    <3> QED
      BY <1>1, <3>6, <3>7
  <2> QED
    BY <1>2, <2>1, <2>2
<1>8. /\ JobAtWork' /\ NothingIsAhead' /\ TextsAreWritten' /\ NewestHasText'
      /\ ComparesRow' /\ Sn!TextIsKeptOrPlanned'
  BY <1>3, <1>4 DEF SnInv, JobAtWork, NothingIsAhead, TextsAreWritten, NewestHasText,
                    ComparesRow, Sn!TextIsKeptOrPlanned, Sn!Covered, Sn!Kept
<1> QED
  BY <1>5, <1>7, <1>8 DEF SnInv

LEMMA SnStepKeeps == SnInv /\ [Sn!Next]_snVars => SnInv'
<1> SUFFICES ASSUME SnInv, [Sn!Next]_snVars PROVE SnInv'
  OBVIOUS
<1>1. CASE UNCHANGED snVars
  BY <1>1 DEF snVars, SnInv, Sn!TypeOK, JobAtWork, NothingIsAhead, TextsAreWritten,
              NewestHasText, ComparesRow, Sn!TextIsKeptOrPlanned, Sn!Covered, Sn!Kept,
              HistoryWalk, Sn!Known, Sn!NoVersion, Sn!Before
<1>2. CASE Sn!Next
  BY <1>2, WritesKeeps, ScheduleKeeps, JobKeeps, CreatesKeeps, SnRestoresKeeps, AroundKeeps,
     SnListsKeeps DEF Sn!Next
<1> QED
  BY <1>1, <1>2

LEMMA ContentMovesSnapshots ==
  [CommentsMove \/ PublicationMoves \/ SnapshotsMove \/ RemindersMove]_
      <<part, vars, pbVars, snVars, rmVars>> => [Sn!Next]_snVars
BY DEF CommentsMove, PublicationMoves, SnapshotsMove, RemindersMove

LEMMA SnapshotsHold == Content => []SnInv
<1>1. ContentInit => SnInv
  BY SnInitHolds DEF ContentInit
<1>2. SnInv /\ [CommentsMove \/ PublicationMoves \/ SnapshotsMove \/ RemindersMove]_
                 <<part, vars, pbVars, snVars, rmVars>> => SnInv'
  BY SnStepKeeps, ContentMovesSnapshots
<1> QED
  BY <1>1, <1>2, PTL DEF Content

\* A saved text is in the history, or on its way there, or one of those that the
\* queue is known to miss (pages-version.service.ts and its processor), for any
\* number of saves, attempts, errors and versions.
THEOREM TextStaysKeptOrPlanned == Content => []TextIsKeptOrPlanned
<1>1. SnInv => TextIsKeptOrPlanned
  BY DEF SnInv, TextIsKeptOrPlanned
<1> QED
  BY <1>1, SnapshotsHold, PTL

\* Who walks through the public articles or the versions of a page by cursor gets
\* what is there throughout, and gets it once, for any number of rows.
THEOREM WalksAlwaysShowEachOnce == Content => []WalksShowEachOnce
<1>1. SnInv /\ PbInv => WalksShowEachOnce
  BY DEF SnInv, HistoryWalk, PbInv, Walks, WalksShowEachOnce, Sn!HistoryShowsEachOnce,
         Pb!WalkShowsEachOnce
<1> QED
  BY <1>1, SnapshotsHold, PublicationHolds, PTL

-----------------------------------------------------------------------------
(* Reminders: who has written the event, unless somebody else is between a    *)
(* write and its calls, finds the queue as he leaves it.                      *)

RmPcs == {"idle", "write", "main", "list", "found", "add"}
RmRequest ==
  [pc : RmPcs, op : {"create", "update", "delete"},
   patch : Rm!Patches \cup {Rm!NoPatch}, row : Rm!Events, found : SUBSET Rm!JobIds]
RmJob ==
  [state : {"none", "delayed", "active", "failed"}, at : Nat, attempts : 0..ATTEMPTS]
RmWorker ==
  [pc : {"idle", "event", "reach", "send", "list", "remove", "defer"},
   job : Rm!JobIds, row : Rm!Events, until : Rm!JobIds, found : SUBSET Rm!JobIds]

\* What a request is about to write is a range, if it names an end.
KnowsItsEvent(q) ==
  /\ q.op # "update" => q.patch = Rm!NoPatch
  /\ q.op = "update" => q.patch \in Rm!Patches
  /\ q.pc = "write" /\ q.op # "delete" =>
       /\ q.row.start <= q.row.end
       /\ q.patch[1] = "start" => q.patch[2] <= q.row.end
       /\ q.patch[1] = "end" => q.row.start <= q.patch[2]

RowsAreValid ==
  event.start <= event.end /\ \A r \in Requests : KnowsItsEvent(eventRun[r])

\* The job the processor works on is the active one; one that waits has an
\* attempt left.
OneJobAtWork ==
  \A j \in Rm!JobIds :
    /\ jobs[j].state = "active" <=> worker.pc # "idle" /\ worker.job = j
    /\ jobs[j].state = "delayed" => jobs[j].attempts < ATTEMPTS

\* Between its write and its last call.
Calling(r) == eventRun[r].pc \in {"main", "list", "found", "add"}

\* Who has written the event takes its jobs out before he puts one in.
ClearsJobs(r) ==
  LET q == eventRun[r] IN
  /\ worker.pc = "idle" /\ sent = 0 /\ q.row = event
  /\ \A o \in Requests : Calling(o) => o = r
  /\ q.op = "delete" => event.on = 0
  /\ q.patch = <<"done", 1>> => event.done = 1
  /\ q.pc \in {"list", "found", "add"} => jobs[0].state = "none"
  /\ q.pc = "found" => q.found = Rm!Delayed
  /\ q.pc = "add" => Rm!Delayed = {}

CallsAlone == ~astray => \A r \in Requests : Calling(r) => ClearsJobs(r)

Due == Rm!Wanted(event) /\ Rm!FireAt(event) <= now

\* No job is left, or the one of the event, or one that was put off.
Planned ==
  \/ /\ Rm!Delayed = {} /\ sent <= 1
     /\ Rm!Wanted(event) => Rm!FireAt(event) <= now \/ event.done = 1
  \/ /\ Rm!Delayed = {0} /\ sent = 0
     /\ Rm!Wanted(event) /\ jobs[0].at = Rm!FireAt(event)
  \/ Due /\ sent = 0 /\ \E j \in Rm!JobIds : Rm!Delayed = {j}

PlanAtRest ==
  ~astray /\ (\A r \in Requests : ~Calling(r)) =>
    IF worker.pc = "idle" THEN Planned ELSE Rm!Delayed = {} /\ sent = 0 /\ Due

RmInv == Rm!TypeOK /\ RowsAreValid /\ OneJobAtWork /\ CallsAlone /\ PlanAtRest

-----------------------------------------------------------------------------

LEMMA RmConstants ==
  /\ Times \in SUBSET Nat /\ Leads \in SUBSET Nat /\ DEFAULT_REMINDER_MINUTES \in Leads
  /\ LastMoment \in Nat /\ ATTEMPTS \in Nat \ {0} /\ DAY \in Nat \ {0}
  /\ QuietStart \in 0..(DAY - 1) /\ QuietEnd \in 0..(DAY - 1)
  /\ MaxEventRequests \in Nat /\ MaxChanges \in Nat /\ MaxEventFailures \in Nat
BY ContentAssumption DEF Rm!RemindersAssumption

LEMMA RmTyped ==
  Rm!TypeOK <=>
    /\ now \in 0..LastMoment /\ event \in Rm!Events
    /\ created \in {"no", "yes", "deleted"} /\ jobs \in [Rm!JobIds -> RmJob]
    /\ worker \in RmWorker /\ reach \in {"on", "quiet", "off"}
    /\ eventRun \in [Requests -> RmRequest]
    /\ eventStarted \in 0..MaxEventRequests /\ changes \in 0..MaxChanges
    /\ eventFailures \in 0..MaxEventFailures /\ sent \in Nat /\ astray \in BOOLEAN
BY DEF Rm!TypeOK, RmRequest, RmPcs, RmJob, RmWorker

\* An event has whole numbers, and so has what is planned for it.
LEMMA EventsHaveNumbers ==
  ASSUME NEW e \in Rm!Events
  PROVE  /\ e.start \in Nat /\ e.end \in Nat /\ e.lead \in Int /\ e.on \in 0..1
         /\ e.done \in 0..1 /\ Rm!FireAt(e) \in Int
<1>1. /\ e.start \in Times \cup {0} /\ e.end \in Times \cup {0}
      /\ e.lead \in Leads \cup {Rm!NoLead} /\ e.on \in 0..1 /\ e.done \in 0..1
  BY DEF Rm!Events
<1>2. Times \cup {0} \subseteq Nat /\ Leads \cup {Rm!NoLead} \subseteq Int
  BY RmConstants DEF Rm!NoLead
<1>3. e.start \in Nat /\ e.end \in Nat /\ e.lead \in Int
  BY <1>1, <1>2
<1> QED
  BY <1>1, <1>3 DEF Rm!FireAt

LEMMA NoEventIsAnEvent ==
  Rm!NoEvent \in Rm!Events /\ Rm!NoEvent.start <= Rm!NoEvent.end /\ Rm!NoEvent.on = 0
BY DEF Rm!NoEvent, Rm!Events, Rm!NoLead

LEMMA RestIsTyped ==
  /\ Rm!Idle \in RmRequest /\ KnowsItsEvent(Rm!Idle) /\ Rm!Idle.pc = "idle"
  /\ Rm!AtRest \in RmWorker /\ Rm!AtRest.pc = "idle"
  /\ Rm!NoJob \in RmJob /\ Rm!NoJob.state = "none"
  /\ 0 \in Rm!JobIds
<1>1. 0 \in Rm!JobIds
  BY RmConstants DEF Rm!JobIds
<1>2. Rm!Idle \in RmRequest /\ KnowsItsEvent(Rm!Idle) /\ Rm!Idle.pc = "idle"
  BY NoEventIsAnEvent DEF Rm!Idle, RmRequest, RmPcs, KnowsItsEvent
<1>3. Rm!AtRest \in RmWorker /\ Rm!AtRest.pc = "idle"
  BY <1>1, NoEventIsAnEvent DEF Rm!AtRest, RmWorker
<1>4. Rm!NoJob \in RmJob /\ Rm!NoJob.state = "none"
  BY RmConstants DEF Rm!NoJob, RmJob
<1> QED
  BY <1>1, <1>2, <1>3, <1>4

LEMMA RmInitHolds == Rm!Init => RmInv
<1> SUFFICES ASSUME Rm!Init PROVE RmInv
  OBVIOUS
<1>1. event \in Rm!Events /\ event.start <= event.end /\ ~Rm!Wanted(event)
  BY NoEventIsAnEvent, RmConstants
     DEF Rm!Init, Rm!NoEvent, Rm!Wanted, Rm!NoLead, Rm!Events
<1>2. Rm!TypeOK
  <2>1. now \in 0..LastMoment /\ 0 \in Nat /\ eventStarted \in 0..MaxEventRequests
    BY RmConstants DEF Rm!Init
  <2>2. changes \in 0..MaxChanges /\ eventFailures \in 0..MaxEventFailures
    BY RmConstants DEF Rm!Init
  <2>3. jobs \in [Rm!JobIds -> RmJob] /\ worker \in RmWorker
    BY RestIsTyped DEF Rm!Init
  <2>4. eventRun \in [Requests -> RmRequest]
    BY RestIsTyped DEF Rm!Init
  <2>5. /\ created \in {"no", "yes", "deleted"} /\ reach \in {"on", "quiet", "off"}
        /\ sent = 0 /\ astray \in BOOLEAN
    BY DEF Rm!Init
  <2> QED
    BY <1>1, <2>1, <2>2, <2>3, <2>4, <2>5, RmTyped
<1>3. /\ \A r \in Requests : eventRun[r] = Rm!Idle
      /\ \A j \in Rm!JobIds : jobs[j] = Rm!NoJob
      /\ worker.pc = "idle" /\ Rm!Delayed = {} /\ sent = 0
  BY RestIsTyped DEF Rm!Init, Rm!Delayed
<1>4. RowsAreValid
  BY <1>1, <1>3, RestIsTyped DEF RowsAreValid
<1>5. OneJobAtWork
  BY <1>3, RestIsTyped DEF OneJobAtWork
<1>6. CallsAlone /\ PlanAtRest
  BY <1>1, <1>3, RestIsTyped DEF CallsAlone, PlanAtRest, Calling, Planned
<1> QED
  BY <1>2, <1>4, <1>5, <1>6 DEF RmInv

-----------------------------------------------------------------------------
(* Steps of requests                                                        *)

\* A request comes, or ends before it has written.
LEMMA AskedEvent ==
  ASSUME RmInv, NEW r \in Requests, ~Calling(r),
         NEW q \in RmRequest, KnowsItsEvent(q), q.pc \in {"idle", "write"},
         eventRun' = [eventRun EXCEPT ![r] = q], eventStarted' \in 0..MaxEventRequests,
         UNCHANGED <<now, event, created, jobs, worker, reach, changes, eventFailures,
                     sent, astray>>
  PROVE  RmInv'
<1>1. /\ eventRun \in [Requests -> RmRequest] /\ eventRun'[r] = q
      /\ \A o \in Requests \ {r} : eventRun'[o] = eventRun[o]
  BY RmTyped DEF RmInv
<1>2. \A o \in Requests : Calling(o)' => Calling(o) /\ eventRun'[o] = eventRun[o]
  BY <1>1 DEF Calling
<1>3. \A o \in Requests : Calling(o) => Calling(o)'
  BY <1>1 DEF Calling
<1>4. Rm!TypeOK'
  BY RmTyped DEF RmInv, Rm!TypeOK, RmRequest, RmPcs
<1>5. RowsAreValid'
  BY <1>1 DEF RmInv, RowsAreValid
<1>6. OneJobAtWork'
  BY DEF RmInv, OneJobAtWork
<1>7. CallsAlone'
  BY <1>2 DEF RmInv, CallsAlone, ClearsJobs, Rm!Delayed
<1>8. PlanAtRest'
  BY <1>3 DEF RmInv, PlanAtRest, Planned, Due, Rm!Delayed, Rm!Wanted, Rm!FireAt
<1> QED
  BY <1>4, <1>5, <1>6, <1>7, <1>8 DEF RmInv

\* The row is written; who is alone has the queue for himself.
LEMMA WrittenEvent ==
  ASSUME RmInv, NEW r \in Requests, eventRun[r].pc = "write",
         NEW q \in RmRequest, KnowsItsEvent(q), q.pc = "main", q.row = event',
         q.op = "delete" => event'.on = 0,
         q.patch = <<"done", 1>> => event'.done = 1,
         event' \in Rm!Events, event'.start <= event'.end,
         created' \in {"no", "yes", "deleted"}, sent' = 0, astray' = ~Rm!Alone(r),
         eventRun' = [eventRun EXCEPT ![r] = q],
         UNCHANGED <<now, jobs, worker, reach, eventStarted, changes, eventFailures>>
  PROVE  RmInv'
<1>1. /\ eventRun \in [Requests -> RmRequest] /\ eventRun'[r] = q
      /\ \A o \in Requests \ {r} : eventRun'[o] = eventRun[o]
  BY RmTyped DEF RmInv
<1>2. Rm!TypeOK'
  <2>1. eventRun' \in [Requests -> RmRequest] /\ sent' \in Nat
    BY <1>1
  <2>2. astray' \in BOOLEAN
    BY DEF Rm!Alone
  <2> QED
    BY <2>1, <2>2, RmTyped DEF RmInv, Rm!TypeOK, RmRequest, RmPcs
<1>3. RowsAreValid'
  BY <1>1 DEF RmInv, RowsAreValid
<1>4. OneJobAtWork'
  BY DEF RmInv, OneJobAtWork
<1>5. ASSUME ~astray' PROVE worker.pc = "idle" /\ \A o \in Requests : Calling(o)' => o = r
  BY <1>1, <1>5 DEF Rm!Alone, Rm!At, Calling
<1>6. CallsAlone'
  BY <1>1, <1>5 DEF CallsAlone, ClearsJobs
<1>7. PlanAtRest'
  BY <1>1 DEF PlanAtRest, Calling
<1> QED
  BY <1>2, <1>3, <1>4, <1>6, <1>7 DEF RmInv

\* The next call, after jobs were taken out or read.
LEMMA CallGoesOn ==
  ASSUME RmInv, NEW r \in Requests, Calling(r),
         NEW q \in RmRequest, q.pc \in {"list", "found", "add"},
         q.op = eventRun[r].op, q.patch = eventRun[r].patch, q.row = eventRun[r].row,
         jobs' \in [Rm!JobIds -> RmJob], OneJobAtWork',
         ~astray => /\ jobs'[0].state = "none"
                    /\ q.pc = "found" => q.found = Rm!Delayed'
                    /\ q.pc = "add" => Rm!Delayed' = {},
         eventRun' = [eventRun EXCEPT ![r] = q],
         UNCHANGED <<now, event, created, worker, reach, eventStarted, changes,
                     eventFailures, sent, astray>>
  PROVE  RmInv'
<1>1. /\ eventRun \in [Requests -> RmRequest] /\ eventRun'[r] = q
      /\ \A o \in Requests \ {r} : eventRun'[o] = eventRun[o]
  BY RmTyped DEF RmInv
<1>2. \A o \in Requests : Calling(o)' <=> Calling(o)
  BY <1>1 DEF Calling
<1>3. Rm!TypeOK'
  BY RmTyped DEF RmInv, Rm!TypeOK, RmRequest, RmPcs, RmJob
<1>4. RowsAreValid'
  BY <1>1 DEF RmInv, RowsAreValid, KnowsItsEvent
<1>5. CallsAlone'
  <2> SUFFICES ASSUME ~astray', NEW o \in Requests, Calling(o)' PROVE ClearsJobs(o)'
    BY DEF CallsAlone
  <2>1. Calling(o) /\ ClearsJobs(o) /\ ClearsJobs(r)
    BY <1>2 DEF RmInv, CallsAlone
  <2>2. o = r
    BY <2>1 DEF ClearsJobs
  <2> QED
    BY <1>1, <1>2, <2>1, <2>2 DEF ClearsJobs
<1>6. PlanAtRest'
  BY <1>2 DEF PlanAtRest
<1> QED
  BY <1>3, <1>4, <1>5, <1>6 DEF RmInv

\* The last call.
LEMMA CallEnds ==
  ASSUME RmInv, NEW r \in Requests, Calling(r),
         jobs' \in [Rm!JobIds -> RmJob], OneJobAtWork', ~astray => Planned',
         eventRun' = [eventRun EXCEPT ![r] = Rm!Idle],
         UNCHANGED <<now, event, created, worker, reach, eventStarted, changes,
                     eventFailures, sent, astray>>
  PROVE  RmInv'
<1>1. /\ eventRun \in [Requests -> RmRequest] /\ eventRun'[r] = Rm!Idle
      /\ \A o \in Requests \ {r} : eventRun'[o] = eventRun[o]
  BY RmTyped DEF RmInv
<1>2. \A o \in Requests : Calling(o)' => Calling(o) /\ o # r
  BY <1>1, RestIsTyped DEF Calling
<1>3. Rm!TypeOK'
  BY RmTyped, RestIsTyped DEF RmInv, Rm!TypeOK, RmRequest, RmPcs, RmJob
<1>4. RowsAreValid'
  BY <1>1, RestIsTyped DEF RmInv, RowsAreValid
<1>5. CallsAlone'
  BY <1>2 DEF RmInv, CallsAlone, ClearsJobs
<1>6. PlanAtRest'
  BY DEF RmInv, CallsAlone, ClearsJobs, PlanAtRest
<1> QED
  BY <1>3, <1>4, <1>5, <1>6 DEF RmInv

\* Jobs are taken out that do not run.
LEMMA TakenOut ==
  ASSUME RmInv, NEW gone, jobs' = Rm!Without(gone),
         \A j \in Rm!JobIds : j \in gone => jobs[j].state # "active",
         worker'.pc = worker.pc, worker'.job = worker.job
  PROVE  /\ jobs' \in [Rm!JobIds -> RmJob] /\ OneJobAtWork'
         /\ Rm!Delayed' = Rm!Delayed \ gone
         /\ \A j \in Rm!JobIds \cap gone : jobs'[j].state = "none"
         /\ \A j \in Rm!JobIds \ gone : jobs'[j] = jobs[j]
<1>1. \A j \in Rm!JobIds : jobs'[j] = IF j \in gone THEN Rm!NoJob ELSE jobs[j]
  BY DEF Rm!Without
<1>2. jobs' \in [Rm!JobIds -> RmJob]
  BY RmTyped, RestIsTyped DEF RmInv, Rm!Without
<1>3. OneJobAtWork'
  BY <1>1, RestIsTyped DEF RmInv, OneJobAtWork
<1>4. Rm!Delayed' = Rm!Delayed \ gone
  BY <1>1, RestIsTyped DEF Rm!Delayed
<1> QED
  BY <1>1, <1>2, <1>3, <1>4, RestIsTyped

LEMMA RmAsksKeeps ==
  ASSUME RmInv, NEW r \in Requests,
         \/ \E s, e \in Times, lead \in Leads \cup {Rm!NoLead}, on \in 0..1 :
              Rm!CreateAsked(r, s, e, lead, on)
         \/ \E p \in Rm!Patches : Rm!UpdateAsked(r, p)
         \/ Rm!DeleteAsked(r)
  PROVE  RmInv'
<1>1. /\ ~Calling(r) /\ eventStarted' \in 0..MaxEventRequests
      /\ UNCHANGED <<now, event, created, jobs, worker, reach, changes, eventFailures,
                     sent, astray>>
  <2>1. eventStarted \in 0..MaxEventRequests /\ MaxEventRequests \in Nat
    BY RmTyped, RmConstants DEF RmInv
  <2>2. eventStarted < MaxEventRequests /\ eventStarted' = eventStarted + 1
    BY DEF Rm!CreateAsked, Rm!UpdateAsked, Rm!DeleteAsked
  <2>3. ~Calling(r)
    BY DEF Rm!CreateAsked, Rm!UpdateAsked, Rm!DeleteAsked, Rm!At, Calling
  <2>4. UNCHANGED <<now, event, created, jobs, worker, reach, changes, eventFailures,
                    sent, astray>>
    BY DEF Rm!CreateAsked, Rm!UpdateAsked, Rm!DeleteAsked
  <2> QED
    BY <2>1, <2>2, <2>3, <2>4
<1>2. CASE \E s, e \in Times, lead \in Leads \cup {Rm!NoLead}, on \in 0..1 :
             Rm!CreateAsked(r, s, e, lead, on)
  <2>1. PICK s \in Times, e \in Times, lead \in Leads \cup {Rm!NoLead}, on \in 0..1 :
          Rm!CreateAsked(r, s, e, lead, on)
    BY <1>2
  <2> DEFINE given == IF lead = Rm!NoLead /\ on = 1 THEN DEFAULT_REMINDER_MINUTES
                      ELSE lead
             asked == [start |-> s, end |-> e, on |-> on, done |-> 0, lead |-> given]
             q == [Rm!Idle EXCEPT !.pc = "write", !.row = asked]
  <2>2. asked \in Rm!Events /\ asked.start <= asked.end
    <3>1. given \in Leads \cup {Rm!NoLead}
      BY RmConstants
    <3>2. s <= e
      BY <2>1 DEF Rm!CreateAsked
    <3> HIDE DEF given
    <3> QED
      BY <3>1, <3>2 DEF Rm!Events
  <2>3. eventRun' = [eventRun EXCEPT ![r] = q]
    BY <2>1 DEF Rm!CreateAsked
  <2> HIDE DEF asked
  <2>4. q \in RmRequest /\ KnowsItsEvent(q) /\ q.pc = "write"
    BY <2>2, RestIsTyped DEF RmRequest, RmPcs, KnowsItsEvent, Rm!Idle, Rm!NoPatch
  <2> HIDE DEF q
  <2> QED
    BY <1>1, <2>3, <2>4, AskedEvent
<1>3. CASE \E p \in Rm!Patches : Rm!UpdateAsked(r, p)
  <2>1. PICK p \in Rm!Patches : Rm!UpdateAsked(r, p)
    BY <1>3
  <2> DEFINE q == [Rm!Idle EXCEPT !.pc = "write", !.op = "update", !.patch = p, !.row = event]
  <2>2. event \in Rm!Events /\ event.start <= event.end
    BY RmTyped DEF RmInv, RowsAreValid
  <2>3. eventRun' = [eventRun EXCEPT ![r] = q]
    BY <2>1 DEF Rm!UpdateAsked
  <2>4. p[1] = "start" => p[2] <= event.end
    BY <2>1 DEF Rm!UpdateAsked
  <2>5. p[1] = "end" => event.start <= p[2]
    BY <2>1 DEF Rm!UpdateAsked
  <2>6. q \in RmRequest
    BY <2>2, RestIsTyped DEF RmRequest, RmPcs, Rm!Idle
  <2>7. KnowsItsEvent(q) /\ q.pc = "write"
    BY <2>2, <2>4, <2>5 DEF KnowsItsEvent, Rm!Idle
  <2> HIDE DEF q
  <2> QED
    BY <1>1, <2>3, <2>6, <2>7, AskedEvent
<1>4. CASE Rm!DeleteAsked(r)
  <2> DEFINE q == [Rm!Idle EXCEPT !.pc = "write", !.op = "delete"]
  <2>1. eventRun' = [eventRun EXCEPT ![r] = q]
    BY <1>4 DEF Rm!DeleteAsked
  <2>2. q \in RmRequest /\ KnowsItsEvent(q) /\ q.pc = "write"
    BY NoEventIsAnEvent DEF RmRequest, RmPcs, KnowsItsEvent, Rm!Idle
  <2> HIDE DEF q
  <2> QED
    BY <1>1, <2>1, <2>2, AskedEvent
<1> QED
  BY <1>2, <1>3, <1>4

\* An update leaves a range, whatever was written since its event was read.
LEMMA UpdateIsValid ==
  ASSUME RmInv, NEW r \in Requests, eventRun[r].pc = "write", eventRun[r].op = "update"
  PROVE  LET new == Rm!Updated(r) IN
         /\ new \in Rm!Events /\ new.start <= new.end
         /\ eventRun[r].patch = <<"done", 1>> => new.done = 1
<1> DEFINE q == eventRun[r]
           p == q.patch
           new == Rm!Updated(r)
<1>1. /\ event \in Rm!Events /\ event.start <= event.end /\ q.row \in Rm!Events
      /\ q.row.start <= q.row.end
      /\ p[1] = "start" => p[2] <= q.row.end
      /\ p[1] = "end" => q.row.start <= p[2]
      /\ p \in Rm!Patches
  <2>1. eventRun[r] \in RmRequest
    BY RmTyped DEF RmInv
  <2> QED
    BY <2>1, RmTyped DEF RmInv, RowsAreValid, KnowsItsEvent, RmRequest
<1>2. \/ p[1] \in {"start", "end"} /\ p[2] \in Times
      \/ p[1] = "lead" /\ p[2] \in Leads \cup {Rm!NoLead}
      \/ p[1] \in {"on", "done"} /\ p[2] \in {0, 1}
  BY <1>1 DEF Rm!Patches
<1>3. /\ event = [start |-> event.start, end |-> event.end, lead |-> event.lead,
                  on |-> event.on, done |-> event.done]
      /\ event.start \in Times \cup {0} /\ event.end \in Times \cup {0}
      /\ event.lead \in Leads \cup {Rm!NoLead} /\ event.on \in 0..1
      /\ event.done \in 0..1 /\ q.row.start \in Times \cup {0}
      /\ q.row.end \in Times \cup {0}
  BY <1>1 DEF Rm!Events
<1>4. CASE p[1] = "start"
  <2>1. new = [start |-> p[2], end |-> q.row.end, lead |-> event.lead,
               on |-> event.on, done |-> event.done]
    BY <1>3, <1>4 DEF Rm!Updated
  <2> QED
    BY <1>1, <1>2, <1>3, <1>4, <2>1 DEF Rm!Events
<1>5. CASE p[1] = "end"
  <2>1. new = [start |-> q.row.start, end |-> p[2], lead |-> event.lead,
               on |-> event.on, done |-> event.done]
    BY <1>3, <1>5 DEF Rm!Updated
  <2> QED
    BY <1>1, <1>2, <1>3, <1>5, <2>1 DEF Rm!Events
<1>6. CASE p[1] = "lead"
  <2>1. new = [start |-> event.start, end |-> event.end, lead |-> p[2],
               on |-> event.on, done |-> event.done]
    <3>1. p[1] \notin {"start", "end"} /\ p # <<"on", 1>>
      BY <1>6
    <3>2. new = [event EXCEPT !["lead"] = p[2]]
      BY <1>6, <3>1 DEF Rm!Updated
    <3> QED
      BY <1>3, <3>2
  <2> QED
    BY <1>1, <1>2, <1>3, <1>6, <2>1 DEF Rm!Events
<1>7. CASE p[1] = "on"
  <2>1. \E lead \in Leads \cup {Rm!NoLead} :
          new = [start |-> event.start, end |-> event.end, lead |-> lead,
                 on |-> p[2], done |-> event.done]
    <3>1. p[1] \notin {"start", "end"}
      BY <1>7
    <3>2. CASE p = <<"on", 1>> /\ q.row.lead = Rm!NoLead
      <4>1. new = [event EXCEPT !.on = 1, !.lead = DEFAULT_REMINDER_MINUTES]
        BY <3>1, <3>2 DEF Rm!Updated
      <4>2. new = [start |-> event.start, end |-> event.end,
                   lead |-> DEFAULT_REMINDER_MINUTES, on |-> 1, done |-> event.done]
        BY <1>3, <4>1
      <4>3. p[2] = 1
        BY <3>2
      <4>4. DEFAULT_REMINDER_MINUTES \in Leads \cup {Rm!NoLead}
        BY RmConstants
      <4> HIDE DEF new, p
      <4> QED
        BY <4>2, <4>3, <4>4
    <3>3. CASE ~(p = <<"on", 1>> /\ q.row.lead = Rm!NoLead)
      <4>1. new = [event EXCEPT !["on"] = p[2]]
        BY <1>7, <3>1, <3>3 DEF Rm!Updated
      <4>2. new = [start |-> event.start, end |-> event.end, lead |-> event.lead,
                   on |-> p[2], done |-> event.done]
        BY <1>3, <4>1
      <4> QED
        BY <1>3, <4>2
    <3> QED
      BY <3>2, <3>3
  <2> QED
    BY <1>1, <1>2, <1>3, <1>7, <2>1 DEF Rm!Events
<1>8. CASE p[1] = "done"
  <2>1. new = [start |-> event.start, end |-> event.end, lead |-> event.lead,
               on |-> event.on, done |-> p[2]]
    <3>1. p[1] \notin {"start", "end"} /\ p # <<"on", 1>>
      BY <1>8
    <3>2. new = [event EXCEPT !["done"] = p[2]]
      BY <1>8, <3>1 DEF Rm!Updated
    <3> QED
      BY <1>3, <3>2
  <2> QED
    BY <1>1, <1>2, <1>3, <1>8, <2>1 DEF Rm!Events
<1> QED
  BY <1>2, <1>4, <1>5, <1>6, <1>7, <1>8

LEMMA RmWritesKeeps ==
  ASSUME RmInv, NEW r \in Requests, Rm!Writes(r) \/ Rm!Deletes(r)
  PROVE  RmInv'
<1> DEFINE q == eventRun[r]
<1>1. /\ q \in RmRequest /\ KnowsItsEvent(q) /\ q.pc = "write" /\ ~Calling(r)
      /\ UNCHANGED <<now, jobs, worker, reach, eventStarted, changes, eventFailures>>
      /\ eventStarted \in 0..MaxEventRequests
  BY RmTyped DEF RmInv, RowsAreValid, Rm!Writes, Rm!Deletes, Rm!At, Calling, Rm!counts
<1>2. CASE UNCHANGED <<event, created, sent, astray>> /\ Rm!Ends(r)
  BY <1>1, <1>2, RestIsTyped, AskedEvent DEF Rm!Ends
<1>3. CASE Rm!Writes(r) /\ ~(UNCHANGED <<event, created, sent, astray>> /\ Rm!Ends(r))
  <2> DEFINE new == IF q.op = "create" THEN q.row ELSE Rm!Updated(r)
             next == [q EXCEPT !.pc = "main", !.row = new]
  <2>1. /\ new \in Rm!Events /\ new.start <= new.end
        /\ q.patch = <<"done", 1>> => new.done = 1
        /\ q.op # "delete"
    BY <1>1, <1>3, UpdateIsValid DEF KnowsItsEvent, RmRequest, Rm!Writes, Rm!NoPatch
  <2>2. /\ event' = new /\ created' = "yes" /\ sent' = 0 /\ astray' = ~Rm!Alone(r)
        /\ eventRun' = [eventRun EXCEPT ![r].pc = "main", ![r].row = new]
    BY <1>3 DEF Rm!Writes
  <2> HIDE DEF new
  <2>3. eventRun' = [eventRun EXCEPT ![r] = next]
    BY <2>2
  <2>4. /\ next \in RmRequest /\ KnowsItsEvent(next) /\ next.pc = "main"
        /\ next.row = event' /\ next.op = q.op /\ next.patch = q.patch
    BY <1>1, <2>1, <2>2 DEF RmRequest, RmPcs, KnowsItsEvent
  <2> HIDE DEF next
  <2> QED
    BY <1>1, <2>1, <2>2, <2>3, <2>4, WrittenEvent
<1>4. CASE Rm!Deletes(r) /\ ~(UNCHANGED <<event, created, sent, astray>> /\ Rm!Ends(r))
  <2> DEFINE next == [q EXCEPT !.pc = "main", !.row = Rm!NoEvent]
  <2>1. /\ event' = Rm!NoEvent /\ created' = "deleted" /\ sent' = 0
        /\ astray' = ~Rm!Alone(r) /\ q.op = "delete"
        /\ eventRun' = [eventRun EXCEPT ![r].pc = "main", ![r].row = Rm!NoEvent]
    BY <1>4 DEF Rm!Deletes
  <2>2. eventRun' = [eventRun EXCEPT ![r] = next]
    BY <2>1
  <2>3. /\ next \in RmRequest /\ KnowsItsEvent(next) /\ next.pc = "main"
        /\ next.row = event' /\ next.op = q.op /\ next.patch = Rm!NoPatch
    BY <1>1, <2>1, NoEventIsAnEvent DEF RmRequest, RmPcs, KnowsItsEvent
  <2> HIDE DEF next
  <2> QED
    <3>1. next.patch # <<"done", 1>> /\ created' \in {"no", "yes", "deleted"}
      BY <2>1, <2>3 DEF Rm!NoPatch
    <3>2. event' \in Rm!Events /\ event'.start <= event'.end /\ event'.on = 0
      BY <2>1, NoEventIsAnEvent
    <3> QED
      BY <1>1, <2>1, <2>2, <2>3, <3>1, <3>2, WrittenEvent
<1> QED
  BY <1>2, <1>3, <1>4

LEMMA RmCallsKeeps ==
  ASSUME RmInv, NEW r \in Requests,
         Rm!RemovesMain(r) \/ Rm!ListsJobs(r) \/ Rm!RemovesListed(r)
  PROVE  RmInv'
<1> DEFINE q == eventRun[r]
<1>1. /\ q \in RmRequest /\ Calling(r)
      /\ ~astray => ClearsJobs(r)
      /\ UNCHANGED <<now, event, created, worker, reach, eventStarted, changes,
                     eventFailures, sent, astray>>
  BY RmTyped DEF RmInv, CallsAlone, Rm!RemovesMain, Rm!ListsJobs, Rm!RemovesListed, Rm!At,
                 Calling, Rm!counts
<1>2. CASE Rm!RemovesMain(r)
  <2> DEFINE next == [q EXCEPT !.pc = "list"]
             gone == IF jobs[0].state = "active" THEN {} ELSE {0}
  <2>1. eventRun' = [eventRun EXCEPT ![r] = next]
    BY <1>2 DEF Rm!RemovesMain, Rm!Goes
  <2>2. /\ next \in RmRequest /\ next.pc = "list" /\ next.op = q.op
        /\ next.patch = q.patch /\ next.row = q.row
    BY <1>1 DEF RmRequest, RmPcs
  <2>3. jobs \in [Rm!JobIds -> RmJob] /\ OneJobAtWork
    BY RmTyped DEF RmInv
  <2>4. jobs' = Rm!Without(gone)
    BY <1>2, <2>3 DEF Rm!RemovesMain, Rm!Without
  <2>5. /\ jobs' \in [Rm!JobIds -> RmJob] /\ OneJobAtWork'
        /\ 0 \in gone => jobs'[0].state = "none"
    <3>1. \A j \in Rm!JobIds : j \in gone => jobs[j].state # "active"
      OBVIOUS
    <3> HIDE DEF gone
    <3> QED
      BY <1>1, <2>4, <3>1, TakenOut, RestIsTyped
  <2>6. ~astray => jobs[0].state # "active"
    BY <1>1, <2>3, RestIsTyped DEF ClearsJobs, OneJobAtWork
  <2> HIDE DEF next
  <2> QED
    BY <1>1, <2>1, <2>2, <2>5, <2>6, CallGoesOn
<1>3. CASE Rm!ListsJobs(r)
  <2> DEFINE next == [q EXCEPT !.pc = "found", !.found = Rm!Delayed]
  <2>1. eventRun' = [eventRun EXCEPT ![r] = next] /\ jobs' = jobs /\ q.pc = "list"
    BY <1>3 DEF Rm!ListsJobs, Rm!Listed, Rm!At
  <2>2. /\ next \in RmRequest /\ next.pc = "found" /\ next.op = q.op
        /\ next.patch = q.patch /\ next.row = q.row /\ next.found = Rm!Delayed
    BY <1>1 DEF RmRequest, RmPcs, Rm!Delayed
  <2>3. jobs' \in [Rm!JobIds -> RmJob] /\ OneJobAtWork' /\ Rm!Delayed' = Rm!Delayed
    BY <1>1, <2>1, RmTyped DEF RmInv, OneJobAtWork, Rm!Delayed
  <2>4. ~astray => jobs'[0].state = "none"
    BY <1>1, <2>1 DEF ClearsJobs
  <2> HIDE DEF next
  <2> QED
    BY <1>1, <2>1, <2>2, <2>3, <2>4, CallGoesOn
<1>4. CASE Rm!RemovesListed(r)
  <2> DEFINE gone == q.found \cap Rm!Delayed
             next == [q EXCEPT !.pc = "add"]
  <2>1. q.pc = "found" /\ jobs' = Rm!Without(gone)
    BY <1>4 DEF Rm!RemovesListed, Rm!At
  <2>2. /\ jobs' \in [Rm!JobIds -> RmJob] /\ OneJobAtWork'
        /\ Rm!Delayed' = Rm!Delayed \ gone
        /\ \A j \in Rm!JobIds \ gone : jobs'[j] = jobs[j]
    <3>1. \A j \in Rm!JobIds : j \in gone => jobs[j].state # "active"
      BY DEF Rm!Delayed
    <3> HIDE DEF gone
    <3> QED
      BY <1>1, <2>1, <3>1, TakenOut
  <2>3. ~astray => Rm!Delayed' = {} /\ jobs'[0].state = "none" /\ sent = 0
    BY <1>1, <2>1, <2>2, RestIsTyped DEF ClearsJobs, Rm!Delayed
  <2>4. CASE q.op = "delete" \/ q.patch = <<"done", 1>>
    <3>1. eventRun' = [eventRun EXCEPT ![r] = Rm!Idle]
      BY <1>4, <2>4 DEF Rm!RemovesListed, Rm!Ends
    <3>2. ~astray => Planned'
      BY <1>1, <2>3, <2>4 DEF ClearsJobs, Planned, Rm!Wanted
    <3> QED
      BY <1>1, <2>2, <3>1, <3>2, CallEnds
  <2>5. CASE ~(q.op = "delete" \/ q.patch = <<"done", 1>>)
    <3>1. eventRun' = [eventRun EXCEPT ![r] = next]
      BY <1>4, <2>5 DEF Rm!RemovesListed, Rm!Goes
    <3>2. /\ next \in RmRequest /\ next.pc = "add" /\ next.op = q.op
          /\ next.patch = q.patch /\ next.row = q.row
      BY <1>1 DEF RmRequest, RmPcs
    <3> HIDE DEF next
    <3> QED
      BY <1>1, <2>2, <2>3, <3>1, <3>2, CallGoesOn
  <2> QED
    BY <2>4, <2>5
<1> QED
  BY <1>2, <1>3, <1>4

LEMMA RmAddsKeeps ==
  ASSUME RmInv, NEW r \in Requests, Rm!Adds(r)
  PROVE  RmInv'
<1> DEFINE row1 == eventRun[r].row
           fits == Rm!Wanted(row1) /\ Rm!FireAt(row1) > now /\ jobs[0].state = "none"
           new == [state |-> "delayed", at |-> Rm!FireAt(row1), attempts |-> 0]
<1>1. /\ Calling(r) /\ eventRun[r].pc = "add"
      /\ ~astray => ClearsJobs(r)
      /\ eventRun' = [eventRun EXCEPT ![r] = Rm!Idle]
      /\ UNCHANGED <<now, event, created, worker, reach, eventStarted, changes,
                     eventFailures, sent, astray>>
  BY DEF RmInv, CallsAlone, Rm!Adds, Rm!At, Calling, Rm!counts, Rm!Ends
<1>2. jobs' = IF fits THEN [jobs EXCEPT ![0] = new] ELSE jobs
  BY DEF Rm!Adds
<1>3. /\ jobs \in [Rm!JobIds -> RmJob] /\ OneJobAtWork /\ row1 \in Rm!Events
      /\ now \in Int /\ 0 \in Rm!JobIds /\ now >= 0
  <2>1. eventRun[r] \in RmRequest /\ now \in 0..LastMoment
    BY RmTyped DEF RmInv
  <2> QED
    BY <2>1, RmTyped, RestIsTyped, RmConstants DEF RmInv, RmRequest
<1>4. Rm!FireAt(row1) \in Int
  BY <1>3, EventsHaveNumbers
<1>5. CASE fits
  <2>1. new \in RmJob
    BY <1>3, <1>4, <1>5, RmConstants DEF RmJob
  <2>2. /\ jobs'[0] = new /\ \A j \in Rm!JobIds \ {0} : jobs'[j] = jobs[j]
        /\ jobs' \in [Rm!JobIds -> RmJob]
    BY <1>2, <1>3, <1>5, <2>1
  <2>3. OneJobAtWork'
    BY <1>1, <1>3, <1>5, <2>2, RmConstants DEF OneJobAtWork
  <2>4. Rm!Delayed' = Rm!Delayed \cup {0}
    BY <1>3, <2>2 DEF Rm!Delayed
  <2>5. ~astray => Planned'
    BY <1>1, <1>5, <2>2, <2>4 DEF ClearsJobs, Planned, Rm!Wanted, Rm!FireAt
  <2> QED
    BY <1>1, <2>2, <2>3, <2>5, CallEnds
<1>6. CASE ~fits
  <2>1. /\ jobs' \in [Rm!JobIds -> RmJob] /\ OneJobAtWork' /\ Rm!Delayed' = Rm!Delayed
    BY <1>1, <1>2, <1>3, <1>6 DEF OneJobAtWork, Rm!Delayed
  <2>2. ~astray => Planned'
    BY <1>1, <1>3, <1>4, <1>6, <2>1 DEF ClearsJobs, Planned, Rm!Wanted, Rm!FireAt
  <2> QED
    BY <1>1, <2>1, <2>2, CallEnds
<1> QED
  BY <1>5, <1>6

-----------------------------------------------------------------------------
(* Steps of the processor                                                   *)

LEMMA BusyWorker ==
  ASSUME RmInv, worker.pc # "idle"
  PROVE  /\ worker.job \in Rm!JobIds /\ jobs[worker.job].state = "active"
         /\ ~astray => /\ \A r \in Requests : ~Calling(r)
                       /\ Rm!Delayed = {} /\ sent = 0 /\ Due
<1>1. worker.job \in Rm!JobIds
  BY RmTyped DEF RmInv, RmWorker
<1> QED
  BY <1>1 DEF RmInv, OneJobAtWork, CallsAlone, ClearsJobs, PlanAtRest

\* The processor reads on.
LEMMA WorkerGoesOn ==
  ASSUME RmInv, worker.pc # "idle", worker' \in RmWorker, worker'.pc # "idle",
         worker'.job = worker.job,
         UNCHANGED <<now, event, created, jobs, reach, eventRun, eventStarted, changes,
                     eventFailures, sent, astray>>
  PROVE  RmInv'
<1>1. Rm!TypeOK'
  BY RmTyped DEF RmInv, Rm!TypeOK, RmWorker
<1>2. RowsAreValid'
  BY DEF RmInv, RowsAreValid
<1>3. OneJobAtWork'
  BY DEF RmInv, OneJobAtWork
<1>4. CallsAlone'
  BY BusyWorker DEF CallsAlone, Calling
<1>5. PlanAtRest'
  BY BusyWorker DEF PlanAtRest, Due, Rm!Wanted, Rm!FireAt, Rm!Delayed
<1> QED
  BY <1>1, <1>2, <1>3, <1>4, <1>5 DEF RmInv

\* The job is done with; another one may be left, put off.
LEMMA WorkerEnds ==
  ASSUME RmInv, worker.pc # "idle", worker' = Rm!AtRest, sent' \in Nat,
         jobs' \in [Rm!JobIds -> RmJob], OneJobAtWork',
         ~astray => \/ Rm!Delayed' = {} /\ sent' <= 1
                    \/ sent' = 0 /\ \E j \in Rm!JobIds : Rm!Delayed' = {j},
         UNCHANGED <<now, event, created, reach, eventRun, eventStarted, changes,
                     eventFailures, astray>>
  PROVE  RmInv'
<1>1. Rm!TypeOK'
  BY RestIsTyped, RmTyped DEF RmInv, Rm!TypeOK, RmWorker, RmJob
<1>2. RowsAreValid'
  BY DEF RmInv, RowsAreValid
<1>3. CallsAlone'
  BY BusyWorker DEF CallsAlone, Calling
<1>4. ~astray => Due' /\ Rm!JobIds' = Rm!JobIds
  BY BusyWorker DEF Due, Rm!Wanted, Rm!FireAt, Rm!JobIds
<1>5. PlanAtRest'
  BY <1>4, RestIsTyped DEF PlanAtRest, Planned, Due
<1> QED
  BY <1>1, <1>2, <1>3, <1>5 DEF RmInv

\* Its job taken out, the processor rests.
LEMMA JobIsDone ==
  ASSUME RmInv, worker.pc # "idle", jobs' = Rm!Without({worker.job}), worker' = Rm!AtRest
  PROVE  /\ jobs' \in [Rm!JobIds -> RmJob] /\ OneJobAtWork' /\ Rm!Delayed' = Rm!Delayed
<1>1. \A j \in Rm!JobIds : jobs'[j] = IF j = worker.job THEN Rm!NoJob ELSE jobs[j]
  BY DEF Rm!Without
<1>2. jobs' \in [Rm!JobIds -> RmJob]
  BY RmTyped, RestIsTyped DEF RmInv, Rm!Without
<1>3. OneJobAtWork'
  BY <1>1, RestIsTyped DEF RmInv, OneJobAtWork
<1>4. Rm!Delayed' = Rm!Delayed
  BY <1>1, RestIsTyped, BusyWorker DEF Rm!Delayed
<1> QED
  BY <1>2, <1>3, <1>4

LEMMA RmCompletesKeeps ==
  ASSUME RmInv, worker.pc # "idle", Rm!Completes, sent' \in {sent, sent + 1},
         UNCHANGED <<now, event, created, reach, eventRun, eventStarted, changes,
                     eventFailures, astray>>
  PROVE  RmInv'
<1>1. worker' = Rm!AtRest /\ jobs' = Rm!Without({worker.job}) /\ sent \in Nat
  BY RmTyped DEF RmInv, Rm!Completes
<1>2. /\ jobs' \in [Rm!JobIds -> RmJob] /\ OneJobAtWork' /\ Rm!Delayed' = Rm!Delayed
  BY <1>1, JobIsDone
<1>3. ~astray => Rm!Delayed' = {} /\ sent' <= 1
  BY <1>2, BusyWorker
<1> QED
  BY <1>1, <1>2, <1>3, WorkerEnds

\* Quiet hours end today or tomorrow.
LEMMA QuietHoursEnd ==
  ASSUME NEW t \in 0..LastMoment
  PROVE  Rm!nextQuietHoursEnd(t) \in Rm!JobIds
<1>1. t \in Nat /\ DAY \in Nat /\ DAY > 0 /\ QuietEnd \in 0..(DAY - 1) /\ LastMoment \in Nat
  BY RmConstants
<1>2. t % DAY \in 0..(DAY - 1) /\ t % DAY <= t
  BY <1>1
<1> QED
  BY <1>1, <1>2 DEF Rm!nextQuietHoursEnd, Rm!JobIds

LEMMA RmJobStartsKeeps ==
  ASSUME RmInv, NEW j \in Rm!JobIds, Rm!JobStarts(j)
  PROVE  RmInv'
<1> DEFINE busy == [Rm!AtRest EXCEPT !.pc = "event", !.job = j]
<1>1. /\ worker.pc = "idle" /\ jobs[j].state = "delayed" /\ jobs[j].at <= now
      /\ jobs' = [jobs EXCEPT ![j].state = "active", ![j].attempts = @ + 1]
      /\ worker' = busy
      /\ UNCHANGED <<now, event, created, reach, eventRun, eventStarted, changes,
                     eventFailures, sent>>
  BY DEF Rm!JobStarts, Rm!counts
<1>2. /\ busy \in RmWorker /\ busy.pc = "event" /\ busy.job = j
  BY RestIsTyped DEF RmWorker, Rm!AtRest
<1>3. jobs \in [Rm!JobIds -> RmJob] /\ jobs[j] \in RmJob /\ jobs[j].attempts < ATTEMPTS
  BY <1>1, RmTyped DEF RmInv, OneJobAtWork
<1>4. /\ jobs'[j].state = "active" /\ jobs' \in [Rm!JobIds -> RmJob]
      /\ \A i \in Rm!JobIds \ {j} : jobs'[i] = jobs[i]
  BY <1>1, <1>3, RmConstants DEF RmJob
<1>5. astray' = (astray \/ \E r \in Requests : Calling(r))
  <2>1. \A r \in Requests : Calling(r) <=> ~Rm!At(r, "idle") /\ ~Rm!At(r, "write")
    BY RmTyped DEF RmInv, RmRequest, RmPcs, Calling, Rm!At
  <2> QED
    BY <2>1 DEF Rm!JobStarts
<1> HIDE DEF busy
<1>6. Rm!TypeOK'
  <2>1. astray' \in BOOLEAN
    BY <1>5
  <2> QED
    BY <1>1, <1>2, <1>4, <2>1, RmTyped DEF RmInv, Rm!TypeOK, RmWorker, RmJob
<1>7. RowsAreValid'
  BY <1>1 DEF RmInv, RowsAreValid
<1>8. OneJobAtWork'
  BY <1>1, <1>2, <1>4 DEF RmInv, OneJobAtWork
<1>9. CallsAlone'
  BY <1>1, <1>5 DEF CallsAlone, Calling
<1>10. PlanAtRest'
  <2> SUFFICES ASSUME ~astray' PROVE Rm!Delayed' = {} /\ sent' = 0 /\ Due'
    BY <1>1, <1>2 DEF PlanAtRest
  <2>1. Planned /\ j \in Rm!Delayed
    BY <1>1, <1>5 DEF RmInv, PlanAtRest, Rm!Delayed
  <2>2. Rm!Delayed' = Rm!Delayed \ {j}
    BY <1>4 DEF Rm!Delayed
  <2>3. Due' <=> Due
    BY <1>1 DEF Due, Rm!Wanted, Rm!FireAt
  <2>4. CASE Rm!Delayed = {0} /\ sent = 0 /\ Rm!Wanted(event)
               /\ jobs[0].at = Rm!FireAt(event)
    BY <1>1, <2>1, <2>2, <2>3, <2>4 DEF Due
  <2>5. CASE Due /\ sent = 0 /\ \E i \in Rm!JobIds : Rm!Delayed = {i}
    BY <1>1, <2>1, <2>2, <2>3, <2>5
  <2> QED
    BY <2>1, <2>4, <2>5 DEF Planned
<1> QED
  BY <1>6, <1>7, <1>8, <1>9, <1>10 DEF RmInv

LEMMA RmReadsKeeps ==
  ASSUME RmInv, Rm!ReadsEvent \/ Rm!ReadsReach \/ Rm!Sends \/ Rm!DeferLists
  PROVE  RmInv'
<1>1. /\ worker.pc # "idle"
      /\ UNCHANGED <<now, event, created, reach, eventRun, eventStarted, changes,
                     eventFailures, astray>>
  BY DEF Rm!ReadsEvent, Rm!ReadsReach, Rm!Sends, Rm!DeferLists, Rm!counts
<1>2. worker \in RmWorker /\ event \in Rm!Events /\ now \in 0..LastMoment
  BY RmTyped DEF RmInv
<1>3. CASE Rm!Completes /\ sent' \in {sent, sent + 1}
  BY <1>1, <1>3, RmCompletesKeeps
<1>4. CASE Rm!ReadsEvent /\ worker' = [worker EXCEPT !.pc = "reach", !.row = event]
             /\ UNCHANGED <<jobs, sent>>
  <2>1. worker' \in RmWorker /\ worker'.pc = "reach" /\ worker'.job = worker.job
    BY <1>2, <1>4 DEF RmWorker
  <2> QED
    BY <1>1, <1>4, <2>1, WorkerGoesOn
<1>5. CASE /\ UNCHANGED <<jobs, sent>>
           /\ \/ worker' = [worker EXCEPT !.pc = "send"]
              \/ worker' = [worker EXCEPT !.pc = "list",
                                          !.until = Rm!nextQuietHoursEnd(now)]
  <2>1. worker' \in RmWorker /\ worker'.pc # "idle" /\ worker'.job = worker.job
    BY <1>2, <1>5, QuietHoursEnd DEF RmWorker
  <2>2. UNCHANGED <<now, event, created, jobs, reach, eventRun, eventStarted, changes,
                    eventFailures, sent, astray>>
    BY <1>1, <1>5
  <2> QED
    BY <1>1, <2>1, <2>2, WorkerGoesOn
<1>6. CASE Rm!DeferLists
  <2>1. worker' = [worker EXCEPT !.pc = "remove", !.found = Rm!Delayed]
        /\ UNCHANGED <<jobs, sent>>
    BY <1>6 DEF Rm!DeferLists
  <2>2. worker' \in RmWorker /\ worker'.pc = "remove" /\ worker'.job = worker.job
    BY <1>2, <2>1 DEF RmWorker, Rm!Delayed
  <2> QED
    BY <1>1, <2>1, <2>2, WorkerGoesOn
<1>7. CASE Rm!ReadsEvent
  BY <1>3, <1>4, <1>7 DEF Rm!ReadsEvent
<1>8. CASE Rm!ReadsReach
  BY <1>3, <1>5, <1>8 DEF Rm!ReadsReach
<1>9. CASE Rm!Sends
  BY <1>3, <1>9 DEF Rm!Sends
<1> QED
  BY <1>6, <1>7, <1>8, <1>9

LEMMA RmDefersKeeps ==
  ASSUME RmInv, Rm!DeferRemoves \/ Rm!DeferAdds
  PROVE  RmInv'
<1>1. /\ worker.pc # "idle"
      /\ UNCHANGED <<now, event, created, reach, eventRun, eventStarted, changes,
                     eventFailures, sent, astray>>
  BY DEF Rm!DeferRemoves, Rm!DeferAdds, Rm!counts
<1>2. worker \in RmWorker /\ jobs \in [Rm!JobIds -> RmJob] /\ OneJobAtWork /\ sent \in Nat
  BY RmTyped DEF RmInv
<1>3. CASE Rm!DeferRemoves
  <2> DEFINE gone == worker.found \cap Rm!Delayed
  <2>1. worker' = [worker EXCEPT !.pc = "defer"] /\ jobs' = Rm!Without(gone)
        /\ UNCHANGED <<now, event, created, reach, eventRun, eventStarted, changes,
                       eventFailures, sent, astray>>
    BY <1>1, <1>3 DEF Rm!DeferRemoves
  <2>2. worker' \in RmWorker /\ worker'.pc = "defer" /\ worker'.job = worker.job
    BY <1>2, <2>1 DEF RmWorker
  <2>3. jobs' \in [Rm!JobIds -> RmJob] /\ Rm!Delayed' = Rm!Delayed \ gone
    <3>1. \A j \in Rm!JobIds : jobs'[j] = IF j \in gone THEN Rm!NoJob ELSE jobs[j]
      BY <2>1 DEF Rm!Without
    <3>2. jobs' \in [Rm!JobIds -> RmJob]
      BY <1>2, <2>1, RestIsTyped DEF Rm!Without
    <3>3. Rm!Delayed' = Rm!Delayed \ gone
      BY <3>1, RestIsTyped DEF Rm!Delayed
    <3> QED
      BY <3>2, <3>3
  <2>4. OneJobAtWork'
    <3>1. \A j \in Rm!JobIds : jobs'[j] = jobs[j] \/ (jobs'[j] = Rm!NoJob /\ j \in Rm!Delayed)
      BY <2>1 DEF Rm!Without
    <3> QED
      BY <1>1, <1>2, <2>2, <3>1, RestIsTyped DEF OneJobAtWork, Rm!Delayed
  <2>5. Rm!TypeOK'
    BY <2>1, <2>2, <2>3, RmTyped DEF RmInv, Rm!TypeOK, RmWorker, RmJob
  <2>6. RowsAreValid'
    BY <2>1 DEF RmInv, RowsAreValid
  <2>7. CallsAlone'
    BY <1>1, <2>1, BusyWorker DEF CallsAlone, Calling
  <2>8. PlanAtRest'
    <3>1. ~astray => Rm!Delayed' = {} /\ sent = 0 /\ Due
      BY <1>1, <2>3, BusyWorker
    <3>2. Due' <=> Due
      BY <2>1 DEF Due, Rm!Wanted, Rm!FireAt
    <3> QED
      BY <2>1, <2>2, <3>1, <3>2 DEF PlanAtRest
  <2> QED
    BY <2>4, <2>5, <2>6, <2>7, <2>8 DEF RmInv
<1>4. CASE Rm!DeferAdds
  <2> DEFINE u == worker.until
             k == worker.job
             new == [state |-> "delayed", at |-> u, attempts |-> 0]
  <2>1. /\ worker' = Rm!AtRest
        /\ jobs' = [Rm!Without({k}) EXCEPT ![u] =
                      IF jobs[u].state = "none" THEN new ELSE @]
    BY <1>4 DEF Rm!DeferAdds
  <2>2. /\ u \in Rm!JobIds /\ k \in Rm!JobIds /\ jobs[k].state = "active" /\ u \in Nat
        /\ \A j \in Rm!JobIds : jobs[j].state = "active" => j = k
    BY <1>1, <1>2, BusyWorker DEF RmWorker, OneJobAtWork, Rm!JobIds
  <2>3. new \in RmJob /\ new.attempts < ATTEMPTS /\ new.state = "delayed"
    BY <2>2, RmConstants DEF RmJob
  <2>4. \A j \in Rm!JobIds :
          jobs'[j] = IF j = k THEN Rm!NoJob
                     ELSE IF j = u /\ jobs[u].state = "none" THEN new ELSE jobs[j]
    BY <2>1, <2>2 DEF Rm!Without
  <2>5. jobs' \in [Rm!JobIds -> RmJob]
    <3>1. jobs' = [j \in Rm!JobIds |-> jobs'[j]]
      BY <2>1 DEF Rm!Without
    <3> HIDE DEF new
    <3>2. \A j \in Rm!JobIds : jobs'[j] \in RmJob
      BY <1>2, <2>3, <2>4, RestIsTyped
    <3> QED
      BY <3>1, <3>2
  <2> HIDE DEF new
  <2>6. OneJobAtWork'
    <3> SUFFICES ASSUME NEW j \in Rm!JobIds
                 PROVE  /\ jobs'[j].state # "active"
                        /\ jobs'[j].state = "delayed" => jobs'[j].attempts < ATTEMPTS
      BY <2>1, RestIsTyped DEF OneJobAtWork, Rm!JobIds
    <3>1. CASE j = k
      BY <2>4, <3>1, RestIsTyped
    <3>2. CASE j # k /\ jobs'[j] = new
      BY <2>3, <3>2
    <3>3. CASE j # k /\ jobs'[j] = jobs[j]
      BY <1>2, <2>2, <3>3 DEF OneJobAtWork
    <3> QED
      BY <2>4, <3>1, <3>2, <3>3
  <2>7. Rm!Delayed' = IF jobs[u].state = "none" THEN Rm!Delayed \cup {u} ELSE Rm!Delayed
    BY <2>2, <2>3, <2>4, RestIsTyped DEF Rm!Delayed
  <2>8. ~astray => \/ Rm!Delayed' = {} /\ sent' <= 1
                   \/ sent' = 0 /\ \E j \in Rm!JobIds : Rm!Delayed' = {j}
    BY <1>1, <2>2, <2>7, BusyWorker
  <2> QED
    BY <1>1, <1>2, <2>1, <2>5, <2>6, <2>8, WorkerEnds
<1> QED
  BY <1>3, <1>4

LEMMA RmJobFailsKeeps ==
  ASSUME RmInv, NEW d \in BOOLEAN, Rm!JobFails(d)
  PROVE  RmInv'
<1> DEFINE k == worker.job
<1>1. /\ worker.pc # "idle" /\ eventFailures < MaxEventFailures
      /\ eventFailures' = eventFailures + 1 /\ worker' = Rm!AtRest /\ astray' = TRUE
      /\ sent' \in {sent, sent + 1}
      /\ UNCHANGED <<now, event, created, reach, eventRun, eventStarted, changes>>
  BY DEF Rm!JobFails
<1>2. /\ jobs \in [Rm!JobIds -> RmJob] /\ k \in Rm!JobIds /\ jobs[k] \in RmJob
      /\ sent \in Nat /\ now \in Nat /\ eventFailures \in Nat
  BY <1>1, RmTyped, BusyWorker, RmConstants DEF RmInv
<1>3. jobs' = [jobs EXCEPT ![k] =
        IF jobs[k].attempts < ATTEMPTS
          THEN [jobs[k] EXCEPT !.state = "delayed", !.at = now]
          ELSE [jobs[k] EXCEPT !.state = "failed"]]
  BY <1>2 DEF Rm!JobFails
<1>4. /\ jobs'[k] \in RmJob
      /\ \/ jobs'[k].state = "failed"
         \/ jobs'[k].state = "delayed" /\ jobs'[k].attempts < ATTEMPTS
      /\ \A j \in Rm!JobIds \ {k} : jobs'[j] = jobs[j]
  <2> DEFINE again == [jobs[k] EXCEPT !.state = "delayed", !.at = now]
             given == [jobs[k] EXCEPT !.state = "failed"]
  <2>1. again \in RmJob /\ again.state = "delayed" /\ again.attempts = jobs[k].attempts
    BY <1>2 DEF RmJob
  <2>2. given \in RmJob /\ given.state = "failed"
    BY <1>2 DEF RmJob
  <2>3. jobs'[k] = IF jobs[k].attempts < ATTEMPTS THEN again ELSE given
    BY <1>2, <1>3
  <2>4. \A j \in Rm!JobIds \ {k} : jobs'[j] = jobs[j]
    BY <1>2, <1>3
  <2> HIDE DEF again, given
  <2> QED
    BY <2>1, <2>2, <2>3, <2>4
<1>5. jobs' \in [Rm!JobIds -> RmJob]
  BY <1>2, <1>3, <1>4
<1>6. Rm!TypeOK'
  <2>1. eventFailures' \in 0..MaxEventFailures
    BY <1>1, <1>2, RmConstants
  <2>2. sent' \in Nat
    BY <1>1, <1>2
  <2> QED
    BY <1>1, <1>5, <2>1, <2>2, RmTyped, RestIsTyped DEF RmInv, Rm!TypeOK, RmWorker, RmJob
<1>7. RowsAreValid'
  BY <1>1 DEF RmInv, RowsAreValid
<1>8. OneJobAtWork'
  BY <1>1, <1>4, RestIsTyped DEF RmInv, OneJobAtWork
<1>9. CallsAlone' /\ PlanAtRest'
  BY <1>1 DEF CallsAlone, PlanAtRest
<1> QED
  BY <1>6, <1>7, <1>8, <1>9 DEF RmInv

\* A call is lost, the event goes with its project, who can be told changes.
LEMMA RmAroundKeeps ==
  ASSUME RmInv,
         \/ \E r \in Requests : Rm!RequestFails(r)
         \/ Rm!Cascades
         \/ \E to \in {"on", "quiet", "off"} : Rm!ReachChanges(to)
         \/ Rm!Tick
  PROVE  RmInv'
<1>1. CASE \E r \in Requests : Rm!RequestFails(r)
  <2>1. PICK r \in Requests : Rm!RequestFails(r)
    BY <1>1
  <2>2. /\ astray' = TRUE /\ eventRun' = [eventRun EXCEPT ![r] = Rm!Idle]
        /\ eventFailures < MaxEventFailures /\ eventFailures' = eventFailures + 1
        /\ UNCHANGED <<now, event, created, jobs, worker, reach, eventStarted, changes, sent>>
    BY <2>1 DEF Rm!RequestFails, Rm!Ends
  <2>3. eventRun \in [Requests -> RmRequest]
    BY RmTyped DEF RmInv
  <2>4. eventRun' \in [Requests -> RmRequest] /\ eventFailures' \in 0..MaxEventFailures
    BY <2>2, <2>3, RestIsTyped, RmTyped, RmConstants DEF RmInv
  <2>5. Rm!TypeOK'
    BY <2>2, <2>4, RmTyped DEF RmInv, Rm!TypeOK, RmRequest, RmPcs
  <2>6. RowsAreValid'
    BY <2>2, <2>3, RestIsTyped DEF RmInv, RowsAreValid
  <2>7. OneJobAtWork'
    BY <2>2 DEF RmInv, OneJobAtWork
  <2>8. CallsAlone' /\ PlanAtRest'
    BY <2>2 DEF CallsAlone, PlanAtRest
  <2> QED
    BY <2>5, <2>6, <2>7, <2>8 DEF RmInv
<1>2. CASE Rm!Cascades
  <2>1. /\ astray' = TRUE /\ event' = Rm!NoEvent /\ created' = "deleted" /\ sent' = 0
        /\ UNCHANGED <<now, jobs, worker, reach, eventRun, eventStarted, changes,
                       eventFailures>>
    BY <1>2 DEF Rm!Cascades, Rm!counts
  <2>2. Rm!TypeOK'
    BY <2>1, RmTyped, NoEventIsAnEvent DEF RmInv, Rm!TypeOK
  <2>3. RowsAreValid'
    BY <2>1, NoEventIsAnEvent DEF RmInv, RowsAreValid
  <2>4. OneJobAtWork'
    BY <2>1 DEF RmInv, OneJobAtWork
  <2>5. CallsAlone' /\ PlanAtRest'
    BY <2>1 DEF CallsAlone, PlanAtRest
  <2> QED
    BY <2>2, <2>3, <2>4, <2>5 DEF RmInv
<1>3. CASE \/ \E to \in {"on", "quiet", "off"} : Rm!ReachChanges(to)
           \/ Rm!Tick
  <2>1. /\ now \in 0..LastMoment /\ changes \in 0..MaxChanges /\ LastMoment \in Nat
        /\ MaxChanges \in Nat /\ reach \in {"on", "quiet", "off"}
    BY RmTyped, RmConstants DEF RmInv
  <2>2. /\ now' \in {now, now + 1} /\ now' \in 0..LastMoment
        /\ changes' \in 0..MaxChanges /\ reach' \in {"on", "quiet", "off"}
    BY <1>3, <2>1 DEF Rm!ReachChanges, Rm!Tick, Rm!counts
  <2>3. UNCHANGED <<event, created, jobs, worker, eventRun, eventStarted, eventFailures,
                    sent, astray>>
    BY <1>3 DEF Rm!ReachChanges, Rm!Tick, Rm!counts
  <2>4. Rm!TypeOK'
    BY <2>2, <2>3, RmTyped DEF RmInv, Rm!TypeOK
  <2>5. RowsAreValid' /\ OneJobAtWork'
    BY <2>3 DEF RmInv, RowsAreValid, OneJobAtWork
  <2>6. /\ Rm!Wanted(event)' <=> Rm!Wanted(event)
        /\ Rm!FireAt(event)' = Rm!FireAt(event) /\ Rm!FireAt(event) \in Int
        /\ Rm!Delayed' = Rm!Delayed
    BY <2>3, EventsHaveNumbers, RmTyped DEF RmInv, Rm!Wanted, Rm!FireAt, Rm!Delayed
  <2>7. CallsAlone'
    BY <2>3, <2>6 DEF RmInv, CallsAlone, ClearsJobs, Calling
  <2>8. /\ Due => Due'
        /\ Planned => Planned'
    BY <2>1, <2>2, <2>3, <2>6 DEF Due, Planned
  <2>9. PlanAtRest'
    BY <2>3, <2>6, <2>8 DEF RmInv, PlanAtRest, Calling
  <2> QED
    BY <2>4, <2>5, <2>7, <2>9 DEF RmInv
<1> QED
  BY <1>1, <1>2, <1>3

LEMMA RmStepKeeps == RmInv /\ [Rm!Next]_rmVars => RmInv'
<1> SUFFICES ASSUME RmInv, [Rm!Next]_rmVars PROVE RmInv'
  OBVIOUS
<1>1. CASE UNCHANGED rmVars
  <2>1. UNCHANGED <<now, event, created, jobs, worker, reach, eventRun, eventStarted,
                    changes, eventFailures, sent, astray>>
    BY <1>1 DEF rmVars
  <2>2. Rm!TypeOK' /\ RowsAreValid' /\ OneJobAtWork'
    BY <2>1 DEF RmInv, Rm!TypeOK, RowsAreValid, OneJobAtWork
  <2>3. CallsAlone'
    BY <2>1 DEF RmInv, CallsAlone, ClearsJobs, Calling, Rm!Delayed
  <2>4. PlanAtRest'
    BY <2>1 DEF RmInv, PlanAtRest, Planned, Due, Calling, Rm!Delayed, Rm!Wanted, Rm!FireAt
  <2> QED
    BY <2>2, <2>3, <2>4 DEF RmInv
<1>2. CASE Rm!Next
  BY <1>2, RmAsksKeeps, RmWritesKeeps, RmCallsKeeps, RmAddsKeeps, RmJobStartsKeeps,
     RmReadsKeeps, RmDefersKeeps, RmJobFailsKeeps, RmAroundKeeps DEF Rm!Next
<1> QED
  BY <1>1, <1>2

LEMMA ContentMovesReminders ==
  [CommentsMove \/ PublicationMoves \/ SnapshotsMove \/ RemindersMove]_
      <<part, vars, pbVars, snVars, rmVars>> => [Rm!Next]_rmVars
BY DEF CommentsMove, PublicationMoves, SnapshotsMove, RemindersMove

LEMMA RemindersHold == Content => []RmInv
<1>1. ContentInit => RmInv
  BY RmInitHolds DEF ContentInit
<1>2. RmInv /\ [CommentsMove \/ PublicationMoves \/ SnapshotsMove \/ RemindersMove]_
                 <<part, vars, pbVars, snVars, rmVars>> => RmInv'
  BY RmStepKeeps, ContentMovesReminders
<1> QED
  BY <1>1, <1>2, PTL DEF Content

\* An event ends after it begins, and the queue holds what the event asks for,
\* once its calls are made and unless calls overlapped or failed half way
\* (events.service.ts, event-reminders.service.ts and .processor.ts), for any
\* number of requests, moments, attempts and errors.
THEOREM PlanAlwaysFitsEvent == Content => []PlanFitsEvent
<1>1. RmInv => PlanFitsEvent
  <2> SUFFICES ASSUME RmInv PROVE Rm!RangeIsValid /\ Rm!PlanFitsEvent
    BY DEF PlanFitsEvent
  <2>1. Rm!RangeIsValid
    BY DEF RmInv, RowsAreValid, Rm!RangeIsValid
  <2> SUFFICES ASSUME Rm!Settled, ~astray
               PROVE  IF ~Rm!Wanted(event) THEN Rm!Delayed = {}
                      ELSE IF Rm!FireAt(event) > now
                        THEN event.done = 1
                               \/ (Rm!Delayed = {0} /\ jobs[0].at = Rm!FireAt(event))
                      ELSE Rm!Cardinality(Rm!Delayed) <= 1
    BY <2>1, Zenon DEF Rm!PlanFitsEvent
  <2>2. Planned
    BY DEF RmInv, PlanAtRest, Rm!Settled, Rm!At, Calling
  <2>3. now \in Int /\ Rm!FireAt(event) \in Int
    BY RmTyped, EventsHaveNumbers, RmConstants DEF RmInv
  <2>4. Rm!Cardinality({}) <= 1 /\ \A j : Rm!Cardinality({j}) <= 1
    <3>1. \A S : Rm!Cardinality(S) = Cardinality(S)
      BY DEF Rm!Cardinality, Cardinality, Rm!IsFiniteSet, IsFiniteSet
    <3>2. Cardinality({}) = 0 /\ \A j : Cardinality({j}) = 1
      BY FS_EmptySet, FS_Singleton
    <3> QED
      BY <3>1, <3>2
  <2>5. CASE /\ Rm!Delayed = {} /\ sent <= 1
             /\ Rm!Wanted(event) => Rm!FireAt(event) <= now \/ event.done = 1
    BY <2>3, <2>4, <2>5
  <2>6. CASE /\ Rm!Delayed = {0} /\ sent = 0
             /\ Rm!Wanted(event) /\ jobs[0].at = Rm!FireAt(event)
    BY <2>3, <2>4, <2>6
  <2>7. CASE Due /\ sent = 0 /\ \E j \in Rm!JobIds : Rm!Delayed = {j}
    BY <2>3, <2>4, <2>7 DEF Due
  <2> QED
    BY <2>2, <2>5, <2>6, <2>7 DEF Planned
<1> QED
  BY <1>1, RemindersHold, PTL

\* One plan of an event is told once, put off or not (event-reminders.processor.ts),
\* unless an attempt failed or calls overlapped.
THEOREM ToldOnceAlways == Content => []ToldOnce
<1>1. RmInv => ToldOnce
  <2> SUFFICES ASSUME RmInv, ~astray PROVE sent <= 1
    BY DEF ToldOnce, Rm!ToldOnce
  <2>1. CASE \E r \in Requests : Calling(r)
    BY <2>1 DEF RmInv, CallsAlone, ClearsJobs
  <2>2. CASE \A r \in Requests : ~Calling(r)
    BY <2>2 DEF RmInv, PlanAtRest, Planned
  <2> QED
    BY <2>1, <2>2
<1> QED
  BY <1>1, RemindersHold, PTL
=============================================================================
