----------------------------- MODULE Publication -----------------------------
(* Public articles: pages-publication.service.ts and its repository.         *)
(*                                                                           *)
(* publish works on the page the guard has loaded: its slug, its status and  *)
(* whether a slug has to be made up are read before the first of up to       *)
(* SLUG_ATTEMPTS updates, and the unique index on slug says which is free.   *)
(* A reader walks the public list with the id of the last article he got.    *)
EXTENDS Integers, FiniteSets

CONSTANTS
  Articles,          \* ids of pages, numbers: the list orders by them
  Titles,            \* titles, by the slug slugifyTitle makes of them
  TitleOf,           \* Articles -> Titles
  Requests, Readers, None,
  SLUG_ATTEMPTS,
  MaxStarted,        \* bound on publish requests
  MaxTrash           \* bound on deletes and restores

PublicationAssumption ==
  /\ IsFiniteSet(Articles) /\ Articles \subseteq Nat \ {0}
  /\ TitleOf \in [Articles -> Titles] /\ None \notin Articles /\ None \notin Titles
  /\ SLUG_ATTEMPTS \in Nat \ {0} /\ MaxStarted \in Nat /\ MaxTrash \in Nat

VARIABLES
  slug,          \* pages.slug
  status,        \* pages.publicationStatus
  publishedAt,   \* pages.publishedAt, 0 for none
  trashed,       \* pages with a deletedAt
  run, started, trashings,
  reader         \* a walk through the public list

vars == <<slug, status, publishedAt, trashed, run, started, trashings, reader>>

Slugs == Titles \X (1..SLUG_ATTEMPTS)
NoSlug == <<None, 0>>
\* DRAFT is every status but PUBLISHED: none at all and HIDDEN too.
Statuses == {"DRAFT", "PUBLISHED"}

Idle == [pc |-> "idle", page |-> 0, asked |-> NoSlug, status |-> "DRAFT",
         base |-> NoSlug, generated |-> FALSE, dated |-> FALSE, attempt |-> 0]
NoWalk == [pc |-> "idle", cursor |-> 0, seen |-> {}, twice |-> {}, steady |-> {},
           lost |-> FALSE]

TypeOK ==
  /\ slug \in [Articles -> Slugs \cup {NoSlug}] /\ status \in [Articles -> Statuses]
  /\ publishedAt \in [Articles -> 0..MaxStarted] /\ trashed \in SUBSET Articles
  /\ run \in [Requests ->
       [pc : {"idle", "update"}, page : Articles \cup {0}, asked : Slugs \cup {NoSlug},
        status : Statuses, base : Slugs \cup {NoSlug}, generated : BOOLEAN,
        dated : BOOLEAN, attempt : 0..SLUG_ATTEMPTS]]
  /\ started \in 0..MaxStarted /\ trashings \in 0..MaxTrash
  /\ reader \in [Readers ->
       [pc : {"idle", "more", "done"}, cursor : Articles \cup {0},
        seen : SUBSET Articles, twice : SUBSET Articles, steady : SUBSET Articles,
        lost : BOOLEAN]]

Init ==
  /\ slug = [p \in Articles |-> NoSlug] /\ status = [p \in Articles |-> "DRAFT"]
  /\ publishedAt = [p \in Articles |-> 0] /\ trashed = {}
  /\ run = [r \in Requests |-> Idle] /\ started = 0 /\ trashings = 0
  /\ reader = [w \in Readers |-> NoWalk]

publishedWhere ==
  {p \in Articles : /\ status[p] = "PUBLISHED" /\ p \notin trashed
                    /\ slug[p] # NoSlug /\ publishedAt[p] # 0}

-----------------------------------------------------------------------------
(* publish                                                                  *)

BaseSlug(p, asked) ==
  IF asked # NoSlug THEN asked
  ELSE IF slug[p] # NoSlug THEN slug[p] ELSE <<TitleOf[p], 1>>

suffixSlug(base, n) == <<base[1], n>>

PublishAsked(r, p, asked, to) ==
  /\ run[r].pc = "idle" /\ started < MaxStarted /\ p \notin trashed
  /\ started' = started + 1
  /\ run' = [run EXCEPT ![r] =
       [pc |-> "update", page |-> p, asked |-> asked, status |-> to,
        base |-> BaseSlug(p, asked),
        generated |-> asked = NoSlug /\ slug[p] = NoSlug,
        dated |-> to = "PUBLISHED" /\ status[p] # "PUBLISHED",
        attempt |-> 0]]
  /\ UNCHANGED <<slug, status, publishedAt, trashed, trashings, reader>>

Tried(r) ==
  IF run[r].attempt = 0 THEN run[r].base
  ELSE suffixSlug(run[r].base, run[r].attempt + 1)

Taken(p, s) == \E q \in Articles \ {p} : slug[q] = s

\* A walk is told what to expect of the articles nothing happens to, and that
\* its cursor has moved or gone.
Disturb(p) ==
  reader' = [w \in Readers |->
    [reader[w] EXCEPT !.steady = @ \ {p}, !.lost = @ \/ reader[w].cursor = p]]

\* Variant: a draft loses the date of its publication.
PublicationDataUndated(r, p, t) ==
  /\ status' = [status EXCEPT ![p] = run[r].status]
  /\ publishedAt' = [publishedAt EXCEPT ![p] =
       IF run[r].dated THEN t ELSE IF run[r].status = "DRAFT" THEN 0 ELSE @]

PublicationData(r, p, t) ==
  /\ status' = [status EXCEPT ![p] = run[r].status]
  /\ publishedAt' = [publishedAt EXCEPT ![p] = IF run[r].dated THEN t ELSE @]

\* Publications in one millisecond have one date.
Newest == CHOOSE t \in 0..MaxStarted :
            /\ \A p \in Articles : publishedAt[p] <= t
            /\ t = 0 \/ \E p \in Articles : publishedAt[p] = t

UpdateSucceeds(r, t) ==
  LET p == run[r].page IN
  /\ run[r].pc = "update" /\ p \notin trashed /\ ~Taken(p, Tried(r))
  /\ t \in 1..MaxStarted /\ t \in {Newest, Newest + 1}
  /\ slug' = [slug EXCEPT ![p] = Tried(r)]
  /\ PublicationData(r, p, t)
  /\ run' = [run EXCEPT ![r] = Idle]
  /\ Disturb(p)
  /\ UNCHANGED <<trashed, started, trashings>>

\* The page went to the trash meanwhile: 404.
UpdateFindsNone(r) ==
  /\ run[r].pc = "update" /\ run[r].page \in trashed
  /\ run' = [run EXCEPT ![r] = Idle]
  /\ UNCHANGED <<slug, status, publishedAt, trashed, started, trashings, reader>>

\* P2002: the next suffix, or 409.
UpdateFindsTaken(r) ==
  /\ run[r].pc = "update" /\ run[r].page \notin trashed /\ Taken(run[r].page, Tried(r))
  /\ IF ~run[r].generated \/ run[r].attempt = SLUG_ATTEMPTS - 1
       THEN run' = [run EXCEPT ![r] = Idle]
       ELSE run' = [run EXCEPT ![r].attempt = @ + 1]
  /\ UNCHANGED <<slug, status, publishedAt, trashed, started, trashings, reader>>

\* The slug stays taken while the page lies in the trash.
TrashChanges(p) ==
  /\ trashings < MaxTrash /\ trashings' = trashings + 1
  /\ trashed' = IF p \in trashed THEN trashed \ {p} ELSE trashed \cup {p}
  /\ Disturb(p)
  /\ UNCHANGED <<slug, status, publishedAt, run, started>>

-----------------------------------------------------------------------------
(* list                                                                     *)

Before(p, q) ==
  \/ publishedAt[p] > publishedAt[q]
  \/ publishedAt[p] = publishedAt[q] /\ p > q

\* The rows from the cursor on, published or not, and one of them skipped.
findPublished(cursor, take) ==
  LET from == {p \in publishedWhere : cursor = 0 \/ p = cursor \/ Before(cursor, p)}
      rank(p) == Cardinality({q \in from : Before(q, p)})
      skip == IF cursor = 0 THEN 0 ELSE 1
  IN  {p \in from : rank(p) \in skip..(skip + take - 1)}

LastOf(rows) == CHOOSE p \in rows : \A q \in rows \ {p} : Before(q, p)

\* Variant: whether there is more is asked of a page that is just full.
ListedJust(cursor, limit) ==
  LET rows == findPublished(cursor, limit) IN
  [items |-> rows, next |-> IF Cardinality(rows) > limit THEN LastOf(rows) ELSE 0]

Listed(cursor, limit) ==
  LET rows == findPublished(cursor, limit + 1)
      hasMore == Cardinality(rows) > limit
      items == IF hasMore THEN rows \ {LastOf(rows)} ELSE rows
  IN  [items |-> items, next |-> IF hasMore THEN LastOf(items) ELSE 0]

List(w, limit) ==
  LET got == Listed(reader[w].cursor, limit) IN
  /\ reader[w].pc # "done"
  /\ reader' = [reader EXCEPT ![w] =
       [pc |-> IF got.next = 0 THEN "done" ELSE "more", cursor |-> got.next,
        seen |-> @.seen \cup got.items, twice |-> @.twice \cup (@.seen \cap got.items),
        steady |-> IF @.pc = "idle" THEN publishedWhere ELSE @.steady,
        lost |-> @.lost]]
  /\ UNCHANGED <<slug, status, publishedAt, trashed, run, started, trashings>>

-----------------------------------------------------------------------------

Next ==
  \/ \E r \in Requests :
       \/ \E p \in Articles, asked \in Slugs \cup {NoSlug}, to \in Statuses :
            PublishAsked(r, p, asked, to)
       \/ \E t \in 1..MaxStarted : UpdateSucceeds(r, t)
       \/ UpdateFindsNone(r) \/ UpdateFindsTaken(r)
  \/ \E p \in Articles : TrashChanges(p)
  \/ \E w \in Readers : List(w, 1)

Spec == Init /\ [][Next]_vars

-----------------------------------------------------------------------------

\* What is published has an address and a date, also when one request makes a
\* draft of the page another has read as published: nothing ever takes them back.
PublishedIsComplete ==
  \A p \in Articles : status[p] = "PUBLISHED" => slug[p] # NoSlug /\ publishedAt[p] # 0

\* A reader who has walked the list to its end has got every article that was
\* in it throughout, and no such article twice, as long as no article he used
\* as a cursor was published anew or taken away. (If it was, skip: 1 skips one
\* he has not seen.)
WalkShowsEachOnce ==
  \A w \in Readers :
    reader[w].pc = "done" /\ ~reader[w].lost =>
      reader[w].steady \subseteq reader[w].seen \ reader[w].twice
=============================================================================
