# NotionBack in TLA+

A formal model of the NotionBack server (NestJS, Prisma/PostgreSQL, Redis,
BullMQ, Socket.IO with Yjs), kept beside the code. The models say what the
server does between two awaits, TLC checks them on small instances, TLAPS proves
the central properties for every instance. Paths below are relative to the
repository's `src/` unless they begin with it.

Contents: 1 the system; 2 the modules and the code; 3 the runs; 4 fairness;
5 abstractions and bounds; 6 what is proved; 7 what disagrees with the
documentation, and what the code is known not to do; 8 what is not modelled;
9 the plan; 10 how to run.

## 1. The system

A workspace has members and projects, a project has pages, a page has a text.
The text is edited live: every socket that opens the page shares one Yjs
document in the memory of the single server process, which loads it from the
page's `page_contents` row and writes it back three seconds after the last edit.
The same row is also written by the REST API and by the restore of an older
version. Everything else is request/response over PostgreSQL, with Redis for
sessions and invites, BullMQ for delayed jobs and S3 for attachments.

Node runs one callback at a time. Concurrency is between the awaits of
handlers: whatever was read before an await may be stale after it.

| Component (code under `src/modules/`) | State | Operations | Talks to | What is hard | What makes it correct |
|---|---|---|---|---|---|
| Live document (`pages/pages-content/yjs/yjs-doc.service.ts`) | `entries` (promise per page), `loaded`; per entry the Y.Doc, `dirty`, `editedBy`, `refs`, `saveTimer`, `saving` (a promise chain) | acquire, release, applyUpdate, flush, persist, persistAndUnload, unloadIfIdle, replaceContent, load | content row, snapshot queue | edits during a save, several joins of one load, releases and timers awaiting different links of one chain, failed saves | no edit is taken for saved, the reference count is the number of holders, every edit is eventually stored, an idle document is unloaded |
| Content row and REST write (`pages-content.*.ts`) | `page_contents`: json, yjsState, searchText | findContent, saveYjsState, upsertContent, updateContent | live document (`isActive`) | the check for a session and the write are two steps | json and yjsState tell one story |
| Conversion (`yjs/json-to-fragment.ts`, `fragment-to-json.ts`, `extract-plain-text.ts`) | none | both ways, and the text searched | content row, live document | texts are filled in a second pass | a document survives the way into a session and back |
| Versions (`pages-version.*.ts`) | `page_versions`, BullMQ job per page | restore, scheduled snapshot, list | live document, content row | flush, transaction and replacement are three steps; a job with a fixed id | what was saved is in the history or on its way there |
| Page sessions (`pages.gateway.ts`, `pages-yjs.service.ts`) | `socketPages`, `presence`, `pageWorkspaces`, `socketTasks`, rights and cursors, Socket.IO rooms | join, leave, yjs:update, yjs:awareness, disconnect, applyMembership | live document, members | a socket dies or loses its membership while a handler awaits | references match sessions, nothing outlives a session, a dead socket is forgotten |
| Workspaces and members (`workspaces`, `workspace-members`) | `workspaces`, `workspace_members` | create, update, delete; add, change role, remove | page sessions (applyMembership), invites | rules are checked on rows read before the write | one owner, who alone makes admins; pages know the role in the database |
| Invites (`workspace-invites`) | rows for permanent links, Redis keys and an index set for temporary ones | create, list, revoke, redeem | members | a one-time token is taken before the member is added, and given back | a one-time invite admits one member and is lost to nobody |
| Refresh sessions (`auth`) | Redis key per token, set per user | register, login, refresh, logout, logout everywhere | users | get-then-delete of a token, list-then-delete of a set | what was ended opens nothing |
| Pages and trash (`pages.service.ts`, `pages.repository.ts`, `pages-trash`) | `pages` with position and deletedAt | create, move, reorder, delete, restore, hard delete, empty, nightly purge | attachments, S3 | listing and purging are separate steps; positions are unique per project, the trash included | places do not collide, old pages go, files go with their page |
| Projects (`projects`) | tree with positions | create, move, reorder, delete | pages | the cycle check reads before the update | every project is in the tree |
| Attachments (`attachments`, `s3`) | `attachments`, objects, their tags | presign, upload, confirm, delete | trash | two stores, no transaction | a confirmed file is there, none outlives its page |
| Publication (`pages-publication`) | slug, status, date | publish, hide, public list | pages | retry on a taken slug with the page as read before | what is public has an address and a date |
| Comments (`page-comments`) | `page_comments`, events | create, edit, resolve, reopen, delete | pages, sockets | told after the write, in another order | the last event says what the row says |
| Calendar and reminders (`calendar`, `notifications`) | events, BullMQ jobs | create, update, delete; send, defer | Telegram | fixed job ids, retries, quiet hours | the plan is that of the event, and told once |
| Telegram link (`telegram`) | codes, chats | create code, redeem, disconnect | notifications | transactions that cross under READ COMMITTED | a chat has one user, a code works once |
| AI generation (`ai`) | set of users with a generation under way | generate | provider | chunks, aborts and timeouts | one at a time, always released, the reply complete |
| Search (`pages-search`) | none | search | pages, projects | three statements | a result lies where its path says |
| Users, health, configuration, filters, DTOs | rows of users | reads, plain writes | - | - | - |

## 2. The modules and the code

| Module | Models | In the runs |
|---|---|---|
| `LiveDoc` | one page's live document, its row, the REST write, the version restore | `live_doc_*`, `early_unload` |
| `PageLease` | what the live document promises those who hold the page (abstract), and what the sockets may ask of it | `live_doc_edits`, as a property |
| `LiveDocProofs` | theorems about `LiveDoc` | - |
| `PageSessions` | sockets, task queues, sessions, rooms, membership changes | `page_sessions` |
| `PageSessionsProofs` | theorems about `PageSessions` | - |
| `Workspaces`, `Sessions`, `Invites`, `Telegram`, `Search` | what hangs on an account | `accounts` |
| `Generation` | AI generations | `accounts`, `background` |
| `SessionsProofs`, `InvitesProofs`, `TelegramProofs` | theorems about the modules of these names | - |
| `AccountsProofs` | theorems about `Workspaces`, `Generation` and `Search`, and about the composition `MCAccounts` | - |
| `Projects`, `Pages`, `Trash` | where things are, and their files | `structure`, `background` |
| `StructureProofs` | theorems about these three, in their composition `MCStructure` | - |
| `Comments`, `Publication`, `Snapshots`, `Reminders` | what readers and members are shown | `content` |
| `ContentProofs` | theorems about these four; but for `Comments`, in their composition `MCContent` | - |
| `Conversion` | documents to Yjs and back | `background` |
| `MC*` | values of constants, compositions of components, properties looked at where a component moves | |

`MCAccounts`, `MCStructure`, `MCContent` and `MCBackground` put several
components that share no state into one run. A variable `part`, chosen in the
initial state, says which one moves; the others stand still. Such a run is the
union of the components' own state spaces, not their product, so nothing is
left out and nothing interleaves that does not meet in the code. Where
components do meet, they meet in one module: the REST write and the restore in
`LiveDoc`, membership changes in `PageSessions`, files and pages in `Trash`.

The theorems about a composition speak of the very properties the run checks.
`MCAccounts` instantiates `SessionsProofs`, `InvitesProofs` and `TelegramProofs`
rather than the modules these extend, so that their theorems are at hand under
the names of the composition; what TLC evaluates is the same.

In every module of a request handler, `run[r]` is what request `r` has read and
where it waits (`pc`), and an action is the code from one answer of PostgreSQL,
Redis or S3 to the next. Definitions named "Variant" in a comment are not part
of any `Next`. Each is a plausible mistake in the definition it precedes (a
dropped guard, a missing reset); substituting it must break a property, which
shows the property looks at that code.

### LiveDoc and PageLease

`entry[i]` is one in-memory `DocEntry` with its save chain. There are several
incarnations because an entry that has been unloaded may still have saves queued
while the page is loaded again; `current` is the one the `entries` map names.
Its phase says where it is: `reading` (findContent sent), `read` (the database
has answered, load has not gone on), `seeding` (text came from json alone and is
saved before the page opens), `live` (in `loaded`), `gone` (unloaded, saves
still queued).

| Code (`yjs-doc.service.ts`) | Action or operator |
|---|---|
| acquire, getEntry | `AcquireLoaded`, `AcquireShared` (another join's load), `AcquireLoads` |
| load | `LoadReads`, `LoadAnswered`, `LoadFails`; `Opened` when the promise resolves |
| applyUpdate with schedulePersist | `Edit` |
| release | `ReleaseKeeps`, `ReleaseLast` |
| persistAndUnload from the timer | `TimerFires` |
| flush | `Flush`, `FlushReturns` |
| persist | `Persist`, `SaveCommits`, `SaveAnswered`, `SnapshotQueued`, `SaveFails` |
| the chain of `saving` | `Advance`, `Returned`, `StartsNext` |
| unloadIfIdle, `finally` of replaceContent | `Unloads`, `Reschedules`, `Settled` |
| replaceContent, `isActive` | `RestoreReplaces`, `Live` |

The row is `[json, yjsState]`. `RestSends`/`RestCommits`/`RestFails` are
`updateContent` of `pages-content.service.ts`; `RestoreBegins`,
`RestoreCommits`, `RestoreReplaces`, `RestoreFails` are `restore` of
`pages-version.service.ts`. `Crash` is the death and restart of the process.

Two points of order deserve care, because TypeScript hides them.

- Every flush appends a link to the promise chain of the entry, and awaits that
  link. When a link ends, the next link's persist runs before the code that
  awaited the first one: both are reactions to the same promise, the next link
  registered directly on it and the waiter one `async` return further out. The
  next persist clears `dirty` before it awaits the database. So `Advance` is
  applied before `Settled` looks at `dirty`. That is what `early_unload` is about.
- A persist of a clean entry does not await the database; it, and every link
  behind it, ends in the same turn. `Returned` is the set of waiters that go on
  in that turn.

`PageLease` is the same component as its callers see it: a holder is out,
opening, in or closing, and the page is loaded or not. A page is loaded for all
who wait or for none, a holder who is in finds it loaded, and a page is dropped
only when nobody is in. Entries, chains, saves, timers and the row are not in
it. `HoldsAsLease` (`LiveDoc`) is its specification under the mapping
`lease <- holder, loaded <- Live`: TLC checks it, and `LiveDocProofs` proves it.
`PageSessions` is on the other side of it: `SocketsAreLessees` is the same
specification for every page, with the sockets as holders, and
`PageSessionsProofs` proves that too. So what the sockets rely on, and all they
may ask for, is what the document was shown to keep.

### PageSessions

`queue[s]` is the promise chain of `socketTasks`, its head the task under way,
`run[s]` where that task is. Tasks are the socket's own events, its disconnect,
and the membership tasks that `applyMembership` puts there. `LoadEnds` resolves
every join that shares a load in one turn, as the promise does. The live
document is reduced to absent, loading or live and a reference count; `Unloads`
is allowed whenever nobody holds it, which is what `PageLease` promises.

| Code | Action |
|---|---|
| gateway `enqueue`, `handleDisconnect` | `ClientSends`, `Disconnects` |
| join | `JoinStarts`, `AuthorizeReads`, `JoinGranted`, `LoadEnds`, `LoadFails`, `Register` |
| leave, dropSocket, abandonJoin | `LeaveStarts`, `Refused`, `LeavePage`, `ReleaseEnds`, `LoadEnds` |
| yjs:update, yjs:awareness | `EventStarts`, `UpdateGranted`, `CursorGranted` |
| disconnect | `DisconnectStarts`, `DisconnectDrops`, `DisconnectEnds` |
| applyMembership and its task | `MembershipApplied`, `MemberStarts` |
| role change or removal in `workspace-members.service.ts` | `RoleChanges` |

### Accounts

- `Workspaces`: `owner` and `role` are the rows, `told` is the role
  `applyMembership` was last called with. `CreateCounts`/`CreateCommits` are
  `create` around its limit; `OwnerAsks` and the commits `update` and `delete`;
  `MemberAsks`, `TargetRead`, `OwnerRead`, `AddCommits`, `ChangeCommits` and
  `Announces` the three member operations, one query each.
- `Sessions`: `key` and `listed` are the two structures in Redis, `cookie` what
  browsers have been given. Register and login lead through `Makes`, `Sets`,
  `Lists`, `AnswersToken`; a refresh through `RefreshGets`, `RefreshDeletes`,
  `RefreshUnlists`, `RefreshFindsAccount` and the same again; logout is two
  commands, logout everywhere three. A token is named by its user and its
  millisecond, since two signed in one millisecond are the same string.
- `Invites`: `keys` and `index` in Redis, `links` and `members` as rows. Revoking
  deletes a row by its id; a temporary link is listed under its token and has no
  row, so it cannot be revoked and ends by expiry or use.
  Redeeming is TTL, GETDEL, SREM, the insert, and `Restores` if that failed.
  Errors come before or after the commit, keys expire, processes die.
- `Telegram`: `Claims`, `ClearFinds`, `Clears`, `Sets`, `Commits` are the
  statements of `redeemCode`, the second of them in two steps, as it finds its
  rows before it locks them; who touches a row another transaction has written waits, the
  unique index refuses, and a ring of waiting transactions is broken.
- `Search`: `Searches` is the ranked query, `loadProjectChain` and
  `loadPageChain` the two that follow; moves and deletions come in between.

### Structure and trash

- `Projects`: create and reorder hold the lock of the sibling group, a move
  holds none. A reorder writes row by row, first to negative places, and its
  rows are seen by nobody until it commits (`mine`). `WalkUp` is the loop of
  `assertNotOwnDescendant`, which on a cycle does not end (`pc = "loops"`).
  `BuildTree` is the answer the client gets.
- `Pages`: the same for pages, where only reorder locks, and pages in the trash
  keep their places; `ReorderPlaces` and `TrashInOrder` move them out of the way.
  A reorder is four statements: `ReorderReadsLive`, `ReorderReadsTrash`,
  `ReorderSetsAside`, `ReorderPlaces`. Deleting and restoring a page take no
  lock, so a page may go to the trash between the two reads, is then in both
  lists and gets either place (`Places`), or come back, and is in neither.
- `Trash`: a page is live, in the trash, there too long, or gone; a file is a
  row, an object in S3 and the object's tag. Confirm is head, validate, read
  tags, write tags, mark; a purge is the list, then for each page the keys, the
  objects one by one, the row. S3 errors, deaths, expired URLs and the bucket's
  rule for pending objects are steps of their own. The purge by the user and the
  purge of the night are `EmptyTrashAsked` and `NightlyPurge`.

### Content

- `Comments`: `row` and `told` are the comment and its last event; check, read,
  write and event are four steps of a handler.
- `Publication`: `publish` works on the page it was handed; `UpdateFindsTaken`
  is the P2002 of the slug index. A reader walks `findPublished` by cursor.
- `Snapshots`: `job` is the delayed job with its fixed id, `worker` what the
  processor has read. `Writes` and `scheduleAutoSnapshot` are a save and the
  `add` after it; `Restores` leaves its version at once.
- `Reminders`: `event` is the row, `jobs[0]` its job and `jobs[t]` the one put
  off to moment `t`. `RemovesMain`, `ListsJobs`, `RemovesListed`, `Adds` are the
  calls after every write; `JobStarts` to `Sends` or `DeferAdds` the processor.
- `Conversion`: documents are trees of nodes and texts with marks.
  `buildChildren` and `fillTexts` are the two passes of `jsonToFragment`.

### Generation

`inFlightUserIds` is the service's set. A line of the provider's stream is
three pieces (its two halves and the break), a chunk ends after any piece, and
`Lines` is what the buffer of `readDeltas` gives out at that point. The timer,
the client's going away and every error end in `Answers`, which stands for the
`finally` of handler and generator.

## 3. The runs

| Run | Instance | Shows |
|---|---|---|
| `live_doc_edits` | 2 holders, 2 edits, 2 incarnations, 2 database errors, 1 restart, no other writer | `HoldersAreCounted`, `AcceptedEditIsPlanned`, `HoldsAsLease`: no interleaving of edits, chained saves, failures, leaves and reloads miscounts the holders, leaves an edit without a save coming, or breaks what `PageLease` promises; `UnloadIsSavedOrSaving`: whoever leaves last, an unload leaves the text in the row or in a save on the wire |
| `live_doc_writers` | 2 holders, 1 edit, one REST text, one version, 1 error, 1 restart | `StateMatchesJson`, `CleanMeansStored`: whoever writes the row last, json and yjsState tell one story, and nothing unsaved is taken for saved |
| `live_doc_progress` | 2 holders, 2 edits, 2 errors, fairness | `UnsavedEditReachesRow`: what the live document has unsaved reaches the row, whatever save fails and whoever leaves, unless an early unload has left it to one write that may still fail (section 7); `IdleDocIsUnloaded` |
| `page_sessions` | 2 sockets of one user on 1 page, and 1 socket between 2 pages with 2 waiting events; 1 membership change; fairness | `RefsCountSessions`, `PresenceMatchesSessions`, `NothingOutlivesSession` (rights, cursors and rooms), `DeadSocketIsForgotten` |
| `accounts` | 2 overlapping requests, 4 in all, for members, sessions, invites (2 permanent links, a limit of 1), Telegram; 3 generations of 2 users; 2 pages and 2 projects searched | one owner and his admins, pages that know the role, limits, ended sessions, one-time invites and the list of links, start commands that link their chat, one generation at a time and the answer complete, results that lie where they say |
| `structure` | 2 overlapping requests, 3 in all; 3 projects; 3 pages in 2 projects; one page with one file, 2 uploads | `TreeShowsAllButForCrossedMoves`, `PlacesDoNotCollide`, `FilesFollowTheirPage` |
| `content` | 2 overlapping requests, 3 in all; 3 articles and a reader; 2 saves and 3 versions; one event over two days | events against rows, publications, walks, snapshots, reminders |
| `background` | 2 requests; 2 old pages, of which one has a file S3 refuses; 2 generations of 2 users; documents of a few nodes; fairness | `OldTrashIsPurged`, `PlaceIsReleased`, `TextSurvivesConversion` |
| `early_unload`, `restored_page_purged`, `marks_spread`, `session_outlives_logout` | the smallest instance that shows it, or that of the passing run | a comment, document or test and the code disagree: section 7 |

Why the bounds are enough for the cases that matter:

- Live document: two edits are needed for one to arrive while the other is being
  saved; two holders for a join during another's release; two incarnations for a
  reload over queued saves (a third would need two unloads before the first save
  is answered, and only repeats the second); two errors for a failure of the
  retry; one restart because nothing survives it but the row. A chain of saves
  reaches three links (timer, release, restore).
- Sockets: `MCPageSessions` chooses one of two scenes at the start and bounds
  what clients send in it (`WithinPart`), not what the server does. On one page
  two sockets of one user share the load and a membership change; each has one
  event waiting at most, and the second, the bystander, only joins and leaves.
  Between two pages one socket has two events waiting, which exercises the queue
  and the loop of the disconnect. Two sockets on one page with two waiting events
  each and all kinds of them (8.3 million states) were tried once and hold too.
  `PageSessionsProofs` does without bounds.
- Requests: two at once are what every hazard of section 1 needs, because each
  is a check of one request overtaken by a write of another. One or two more, one
  after the other, bring the rows into the state where that hurts: a workspace
  with an admin, a link that has been made, a page that has been published.
- Counters (`MaxStarted`, `MaxFailures`, `MaxUploads`, `MaxChanges`,
  `MaxWrites`, `MaxEverywhere`, `MaxGenerations`) bound what comes from outside:
  requests, errors, uploads, changes. Limits of the code (workspaces of a user,
  links of a workspace, attempts at a slug or at a job, depths of paths) are
  constants set to one or two, so that they are reached.
- Time is a few moments. A day of two moments has a loud one and a quiet one;
  three days bring a deferred reminder past its event. A refresh token is named
  by user and moment, and two moments (`LastSecond`) tell tokens of one and of two
  milliseconds apart. Two logouts from all devices are allowed, so that the second
  meets what the first left behind; a third moment brings nothing new (536
  thousand states).
- Names no definition of a run distinguishes (requests, users, holders,
  incarnations, ids) are permuted by symmetry. No run with symmetry has a
  liveness property: `live_doc_progress`, `page_sessions` and `background` are
  without symmetry.

`AcceptedEditIsPlanned` is checked where nothing restores a version: the flush
of a restore cancels the debounce timer and does not set it again when its write
fails, so with restores an edit can be left waiting for the next edit or leave.

Deadlock is checked for the live document, which can always be opened again. The
other runs switch it off: they stop once every socket is dead or every request
the bounds allow has been served.

Some properties carry an exception in their name (`ButForOverlap`,
`ButForCrossedMoves`) or as a history variable in their statement: `crossed`,
`late`, `again`, `begun`, `cascaded`, `lost`, `doubt`, `dropped`, `astray`,
`uncovered`, `doubled`, `behind`, `unlisted`, `overtaken`, `disturbed`. Each marks the rows or the requests for which a case the
code does not cover has happened, named for it, and read by no guard. The
property says that nothing else goes wrong: where two requests did not cross, the
rule stands, whatever else they did. Section 7 lists those cases.

## 4. Fairness

- `LiveDoc!Fairness`: a timer that is armed fires, and the database and the
  queue answer, positively or with an error (errors are bounded, so a save that
  is retried succeeds in the end). `live_doc_progress` has no restart, since a
  restart loses what was not saved.
- `PageSessions!Fairness`: the event loop runs the next task of every socket,
  the database and document loads answer, and a committed membership change
  reaches `applyMembership`.
- `MCBackground!TrashFairness`: a purge that is under way goes on (WF of
  `Works`), and the nightly purge is started (SF of `NightlyPurge`): BullMQ's
  scheduler adds the job every night, and on some night no other request is being
  served, hence strong and not weak fairness. S3 may refuse one page's file for
  ever, and does.
- `MCBackground!GenerationFairness`: the idle timer of `ai.service.ts` fires
  when armed, and an abort ends the read it was given to. The provider is not
  assumed to answer, nor the client to stay or to go, but its reply is finite: each
  chunk sets the idle timer again (`ai.service.ts:194`), so a provider that went
  on sending for ever would hold the place for ever.

Node and the clients of PostgreSQL and Redis guarantee the rest while the process
runs; a permanent outage is the one thing excluded. Users are never assumed to do
anything: nobody has to open, edit, leave, restore, or cancel.

## 5. Abstractions and bounds

Everywhere:

- One action is the code between two awaits that really leave the turn. A
  statement or a transaction is one action where nothing of it can be seen before
  the end, and several where locks or read committed make a difference
  (`Telegram`, reorders in `Projects` and `Pages`).
- A lost answer is a failure after the commit. Where the code has no retry and
  no clean-up, failures before and after the commit are both possible ends of the
  request.
- `authorize` and its kin are one read whose outcome is the role of that moment.
- The server is a single instance, as `README.md:250` requires.

By module:

- `LiveDoc`: a document is the set of fragments it shows. An edit adds one, a
  write replaces the set. This keeps what the properties distinguish (whether an
  edit is in a text) and drops Yjs merging, item ids and encoding. One REST write
  and one restore at a time: two REST writes commit in some order and leave the
  later one. `row` is read and written as one; the row locks of a restore make
  its check and its write one step. `AcquireLoads` needs a free incarnation.
  `rowSeenBy` and `accepted` are history. Left out: the size limit, awareness
  (its life is in `PageSessions`), `onModuleDestroy` (it runs only with shutdown
  hooks, which `src/main.ts` does not enable).
- `PageSessions`: without the handshake, validation of payloads, broadcasts and a
  failed send of the first sync. No access also stands for a page in the trash
  or a database error.
- `Workspaces`: a deleted workspace takes its members with it; names, avatars
  and the list of members are not in it.
- `Sessions`: without access tokens, passwords, and the expiry of the whole set.
- `Invites`: a temporary link expires at any moment after it was made.
- `Telegram`: the table's rows and the index are PostgreSQL's; a transaction
  that waits looks at its row again, one in a ring of waits is broken off.
- `Search`: the rank is the database's; matching is a set of pages by title and
  one by text.
- `Projects`, `Pages`: positions are integers, negative ones included; only the
  move and the order of rows are in it.
- `Trash`: a page is old from some moment on; deletion of a project takes its
  pages at once, without their files, as the code does (`cascaded`).
- `Comments`: one text per comment, its state, and the author.
- `Publication`: a slug is its stem and a number; the list is ordered by date
  and id, as the index is.
- `Snapshots`: a text is the number of its save; hours stand for the age an
  automatic version must have.
- `Reminders`: an event is begin, end, all day or not, lead; recurrence does not
  exist in the code.
- `Conversion`: letters, marks as sets of names, a depth of six.
- `Generation`: a reply is a sequence of deltas and other lines.

## 6. What is proved

Eight modules of proofs, for every value of the constants: any number of holders
(finitely many), edits, incarnations, sockets, pages, requests, users, rows,
failures and restarts. `Accounts`, `Structure` and `Content` are the
specifications of the compositions, so a theorem about one of them is about the
formula TLC checks in the run of that name.

| Module | Theorem | Says |
|---|---|---|
| `LiveDocProofs` | `InvariantHolds` | `Spec => []IInv`, the inductive invariant |
| | `TypesHold` | `Spec => []TypeOK`, with exactly one entry per page in memory |
| | `RowTellsOneStory` | `Spec => []StateMatchesJson` |
| | `CleanIsStored` | `Spec => []CleanMeansStored` |
| | `EditIsPlanned` | `VersionBodies = {}` implies `Spec => []AcceptedEditIsPlanned` |
| | `CountIsHolders` | `Spec => []HoldersAreCounted` |
| | `ImplementsLease` | `Spec => HoldsAsLease`: the live document implements `PageLease` |
| | `UnloadsAreSaved` | `Spec => UnloadIsSavedOrSaving`, an action property |
| | `SavesOnlyAdd` | `VersionBodies = {}` implies `Spec => SaveOnlyAdds`, an action property |
| `PageSessionsProofs` | `SessionsInvariant`, `SessionsTyped` | `Spec => []PInv`, `Spec => []TypeOK` |
| | `RefsAreSessions` | `Spec => []RefsCountSessions` |
| | `PresenceIsSessions` | `Spec => []PresenceMatchesSessions` |
| | `SessionsLeaveNothing` | `Spec => []NothingOutlivesSession` |
| | `SessionsImplementLease` | `Spec => SocketsAreLessees`: the sockets are lessees of every page |
| | `DeadSocketIsDue`, `DeadSocketStaysForgotten` | the safety half of `DeadSocketIsForgotten` |
| `SessionsProofs` | `EndedTokensAreDead` | `Spec => [](TypeOK /\ EndedIsDead)` |
| | `SessionsNeverMultiply` | `Spec => []SessionsDoNotMultiply` |
| `InvitesProofs` | `TemporaryInvitesHold` | `Spec => [](TypeOK /\ OneTimeAdmitsOne /\ NoInviteVanishes /\ WorkingInviteIsListed)` |
| | `LinkLimitHolds` | `Spec => []LinkLimitHoldsButForOverlap` |
| `TelegramProofs` | `ChatHasOneUserAlways` | `Spec => [](TypeOK /\ ChatHasOneUser /\ OnlyARaceIsRefused /\ CodeLinksOnce)` |
| | `OneCodeWorks` | `Spec => []OneCodeWorksButForOverlap` |
| `AccountsProofs` | `WorkspacesInvariant`, `WorkspacesTyped` | `Spec => []WInv`, `Spec => []TypeOK` |
| | `FounderStaysOwner`, `AdminsComeFromOwner`, `PagesAreTold` | `Spec => []OneOwner`, `Spec => []OwnerMakesAdmins`, `Spec => []PagesKnowTheRole` |
| | `LimitsAlwaysHold` | `Accounts => []LimitsHoldButForOverlap` |
| | `SessionsAlwaysEnd` | `Accounts => []SessionsEnd` |
| | `OneTimeAlwaysAdmitsOne`, `WorkingInviteAlwaysListed` | `Accounts => []OneTimeAdmitsOne`, `Accounts => []WorkingInviteIsListed` |
| | `StartAlwaysLinksTheChat` | `Accounts => []StartLinksTheChat` |
| | `GenerationsNeverOverlap`, `AnswerAlwaysFitsReply` | `Accounts => []OneGenerationAtATime`, `Accounts => []AnswerFitsReply` |
| | `FoundIsAlwaysThere` | `Accounts => []FoundIsWhereItSays` |
| `StructureProofs` | `StructureTyped` | `Structure => []TypeOK` |
| | `PlacesNeverCollide` | `Structure => []PlacesDoNotCollide` |
| | `TreeAlwaysShowsAll` | `Structure => []TreeShowsAllButForCrossedMoves` |
| | `FilesAlwaysFollowTheirPage` | `Structure => []FilesFollowTheirPage` |
| `ContentProofs` | `CommentsTyped`, `LastEventIsTheRow` | `Spec => []TypeOK`, `Spec => []LastEventTellsRow` |
| | `PublishedStaysComplete` | `Content => []PublishedIsComplete` |
| | `TextStaysKeptOrPlanned` | `Content => []TextIsKeptOrPlanned` |
| | `WalksAlwaysShowEachOnce` | `Content => []WalksShowEachOnce` |
| | `PlanAlwaysFitsEvent`, `ToldOnceAlways` | `Content => []PlanFitsEvent`, `Content => []ToldOnce` |

Assumptions, which TLC evaluates in every run of the module: `NamesAssumption`
(the special names differ from the ordinary ones), `BoundsAssumption`,
`HoldersAssumption` (finitely many holders, used for the reference count being a
number); `UserOfAssumption`, `FiniteAssumption` (finitely many sockets) and
`PagesAssumption` (there is a page) of `PageSessions`; `WorkspacesAssumption` and
`CommentsAssumption`; `PagesAssumption` of `Pages`; and for the compositions
`AccountsAssumption`, `StructureAssumption` and `ContentAssumption`, each the
conjunction of the assumptions of its parts. They say that bounds are numbers,
that what is counted is finite, and that special names differ from ordinary ones.

Two kinds of lemmas recur. An instance of a module has its own copies of the
operators of `FiniteSets`; `PjSame` and its kin say that they are the same.
Where an argument needs induction over numbers or finite sets, it takes a
smallest counterexample instead (`LeastNumber`, `SmallestSubset`, `HighestExists`):
`WFMin` of the library gives one for a relation, and no operator has to be passed.

### LiveDoc

`CleanMeansStored` is not inductive. It speaks of live entries, but an entry
becomes live after a read or after the save of a seeded text, so `Saved` extends
it to `read` and `seeding`. It also needs to know that a save in flight means an
occupied chain: only then is a flush that finds the chain empty free to start a
save, and only then is `NoSave` what the end of the chain leaves behind.
`PhaseShape` says so: nothing is saved before the text is read, a seeding entry
saves outside the chain, a live one has a chain exactly while its head's save is
under way, and a discarded one has a chain left. Finally a clean entry that has
just read the row owes its text to `yjsState` or to an empty json, and this is
its json by `StateMatchesJson`. `IInv` is the conjunction of the types, these
facts for every entry (`EntriesSound`) and `StateMatchesJson`.

The proof goes operation by operation: `PersistFacts`, `FlushFacts`,
`AdvanceFacts` say what the helpers return; `FlushKeeps`, `AdvanceKeeps`,
`SettledKeeps` that they keep `PhaseShape` and `Saved`; `OneEntryChanges`,
`RowChanges` and `EntriesStay` lift that to all entries; then one step per
action in `OpeningKeeps`, `UseKeeps`, `SaveKeeps` and `OthersKeep`.

`HoldersAreCounted` is not inductive either. When a save ends, the holders who
waited for it go on, and the count stands only if none of them still counted.
`ChainsOK` says so: whoever waits in a chain has the state `closing`, waits
there once, and in one chain only (an unloaded entry and its successor have a
chain each). A last release queues a holder who was `in` and so waited nowhere;
the end of a head takes out exactly the ones it lets go (`AdvanceReturns`).
`Unloads` asks for a count of zero, which by the invariant means nobody holds
the page. The proof uses `IInv` for the shape of the entries; its lemmas about
chains (`LongerChain`, `ShorterChain`) are lemmas about sequences.

`EditIsPlanned` holds where no version can be restored, as the property's run
has it. Its invariant, `PInv` of `LiveDocProofs`, says that then only the timer
and departing holders wait in a chain (`Retriers`). Both go on with
`unloadIfIdle`, which arms the timer again for a document a failed save left
dirty; a restore's flush would not. It also says that a page not yet open has no
edit of a user (a seeded text is dirty, but nobody typed it), so the first live
step owes no save.

`ImplementsLease` maps every step of `LiveDoc` to a step of `PageLease` or to
none. Most actions touch neither a holder nor `Live` (`QuietStep`); a release
lets its holder out and may unload (`ReleaseStep`); a load lets in all who wait
or none (`OpeningStep`); the end of a save lets go those who waited for it and
may unload after it, and loads nothing (`SettleLoadsNothing`, `HeadEndsLease`).
That an unload finds nobody in is `HoldersAreCounted`, so the step lemmas assume
`IInv` and the holders' invariant `HInv`.

`UnloadsAreSaved` is what is left of the promise that `early_unload` breaks, and
it holds with every other writer of the row. All unloads are in `Settle`
(`SettleUnloads`), and there the entry is clean. A clean entry with an empty
chain has its text in the row or somebody else has written it, which is
`CleanIsStored`; one with a chain left has just started the next save
(`StartsNext`), which took the text as it is.

`SavesOnlyAdd` is about rows across incarnations: an unloaded entry can go on
saving beside its successor. `Grown` says of every entry that its save under way
is part of its document, and that the row it was last to read or write is part of
both. Edits only add; a restore does not, so the theorem is for pages without
versions to restore. What remains is that text leaves a row only by a writer who
had not seen it: another incarnation, or the REST write.

### PageSessions

None of the five properties is inductive alone. A task reads the socket's pages,
awaits the database, and then acts on what it read; so `StillSo` says that what
was read is still so: an update or a cursor under way is on a page the socket is
on, `already` of a join under way is the truth, and a join that waits for a load
was not on the page. This stands because the pages of a socket are changed by
its own tasks only, one at a time, which `AtHead` says: a task under way is the
head of its queue, and what a disconnect has still to drop belongs to a dead
socket that is on no page. `HeldIsLive` (who is on a page, or about to be
dropped from it, keeps it in memory) and `CountsSessions` are
`RefsCountSessions` with those about to be dropped.

The lemmas follow the helpers of the gateway: `TaskEnds` for the queue,
`OneTaskMoves` for a task that changes no session, `GoesOff` for a socket that
leaves a page by any way (leave, removal, disconnect, a join given up), `GoesOn`
for one that enters it, `WaitersGo` for the end of a load, which moves all who
waited at once. Counting is cardinality of finite sets: an element less or more.

`SessionsImplementLease` reads off each socket where it is with a page
(`LeaseOf`): waiting for its load, on it or being dropped from it, or neither.
Most steps change this for one socket at most (`StepOfOne`: it asks, enters,
leaves or gives up), the end of a load for all that wait (`WaitersLease`), and an
unload for nobody. A socket
that died while the page was loading has given up at its death, not when
`abandonJoin` gives the reference back: both are in one turn with the end of the
load, so it never was in. `Unloads` needs that nobody is on the page, which is
`RefsCountSessions`.

`DeadSocketIsForgotten` is a liveness property, and half of it is safety. That a
dead socket stays off once it is off (`DeadSocketStaysForgotten`) needs that a
join under way looks at `connected` after each await. That there is something for
fairness to work on (`DeadSocketIsDue`) is `DisconnectsDue`: the disconnect is
put into the queue with the death and stays there, behind what was queued before,
until the socket is on no page.

### Accounts

In `WInv` the strengthening is `ChecksHold`: a request that has read that its
target is no owner, or that its actor is one, still finds it so when it commits.
It holds because nothing ever makes or unmakes an owner but the creation and the
deletion of the workspace; the rules on roles read earlier are safe for that
reason alone. `PendingOK` is the other half: what a request has still to announce
is in the row, unless the row was written by another one since (`crossed`).

`EndedIsDead` of `Sessions` needs `SInv`, because a logout from all devices only
deletes the keys whose ids it has read. `Found` says why that is enough: a token
in a browser is on the list, or is dead, or is one that such a logout took off
the list without having read it (`unlisted`). `RequestOK` carries this through
the commands: whoever is about to delete the keys has read the ids of all he is
to end, and whoever is past the deletion finds them gone. A key that is deleted
could come back if a login of the same millisecond were still to store it.
`Settled` says that nobody is about to store the key of a listed token for the
first time, and `SettersAgree` that two about to store one key have made the token
twice, which the property excepts.

`VInv` follows a one-time token. `OnePlace`: it is in Redis or in the hand of
one request, whether that is the create about to store it or the redeem that
took it, and in no two hands. `Unused`: wherever it is, it has made no member but
those whose answer was lost, so the one that takes it may make one. A
redeem puts back only a token whose life it read, so `RequestOK` says that one
who found no life holds a token that has ended or was asked for while another
held it. `MakersAlone` keeps a link that is being made from being redeemed.
`HandMoves`, `HandStays` and `HandEnds` are the three things that can happen to
a hand, and every action is one of them or touches none.

That a working link is listed takes `LInv`: a list drops only links it saw gone,
so what it is about to drop and still, or again, has a key was given back in
between (`givenBack`, in `ListOK`). A link is written to the key and the index
in one step, and only links that are known are in the index.

`TInv` is about the transactions of `redeemCode`. No two of them have claimed one
code (`OneClaimsACode`), and the claimed code is still open until the commit
(`KnowsItsCode`), so a code is used up by one link and by that link alone. One
has found, and then cleared, whoever has its chat, unless another start command
from that chat has been committed since (`KnowsTheOwner`, `overtaken`): only then
does the unique index refuse it. One about to commit has the index on its side
(`HasTheIndex`), and no two about to commit give away one chat
(`OneGivesAChat`).
`OneCode` adds to the one code that works who is making the next: he has deleted
the ones before when he comes to insert his, and he is alone at it, unless two
are made for the user at once (`doubled`).

`SessionsNeverMultiply` counts claims. A user's claims are his live tokens that
no refresh has read (`Free`) and his requests between two tokens (`Heirs`): each
was brought by a login, or by a refresh that read a token another had read and
not yet deleted. A refresh passes a claim from the token to itself and from
itself to the next token. That every step passes on or drops what it takes is
the whole of the proof; `CountInv` is the sum.

The two limits (`LimitsAlwaysHold`) are counted before the insert. `LimitPass`
says what a step may do: nothing; or add one row and end one create that had
counted; or let one more create count while the rows are below the limit.
`LimitStays` concludes: by as many as are over the limit, creates overlapped.

`GInv` ties the text a generation has to the pieces it has got (`Handled`): the
deltas of the lines that are complete, and no error among them. So the end of
the stream finds all of the reply, however the chunks were cut, and what is
answered (`AnswerOK`) is all of it or has a cause.

`SearchInv` follows the three statements. `LedTo` says of a path that was read
that it led from a root, or from a project too deep for a root, down to the
project of its row, and still does unless a project has moved. `UpClimbs` is the
lemma about the recursive function behind it. `AllHitsFound` needs the ranking:
fewer results than the limit leave nothing out.

Theorems about `Accounts` follow from those about its parts: a step of the
composition is a step of the part or leaves it alone (`AccountsSteps`), so the
composition implies the specification of each part (`AccountsParts`).

### Structure

`PgInv` says of a request what it has read and still holds: a page to be created
is no row and nobody else's (`Newborn`), the pages a reorder lists are those of
its project, or between its two reads those that are not in the trash
(`OrderFits`, `Covers`), the position a create or a move has read is past the end
(`PastTheEnd`), each unless the request is known to have been disturbed; and
positions in a project differ (`Distinct`), the trash included. A page that goes
to the trash between the two reads stays covered, one that comes back does not,
and then the reorder knows it. A reorder that covers its project has every page
set aside and meets no taken position. Where each page is listed once, its last
place is not past the old end, which is a counting argument (`FewBelow`,
`ListOf`) as positions have no bound.

`PjInv` is the same for projects, where reorders write row by row and nobody
sees it. `SeesApart` says that siblings differ in position as the writer sees
them, `WritesFit` how far it has come: a row it has written has the negative of
its old position, or later its place in the list. `Beside` keeps two requests
apart: no row is written by two, no group is locked by two, and what one writes
does not meet what another has written. Who deletes, inserts or moves waits for
rows of a reorder and for places it has taken, which is all that is needed.

`TreeInv` is about parents only. `Hangs` says that no set of projects has all
its parents inside, which is to hang from the root; unlike a path, it needs no
length. A move that has been checked carries a reason, `ClearOf`: a set that
holds the new parent, is closed upwards and does not hold the project. A create
adds a leaf, and `TreeRequestFits` knows that nobody is below it yet; a delete
takes rows away. Neither hurts a reason another request carries. Only a move
carried out does, and then `crossed` is set if there is such a request. That
the loops of the code come to the right end is three lemmas about growing sets
(`CanIterate`, `GrowthEnds`, `GrowthStays`), from which `AboveIs` (what `WalkUp`
walks over is the least set that is closed upwards) and `BuildTreeIs` follow.
`NoCycle` and `TreeIsShown` conclude.

`TsInv` follows one file through uploads, confirms and deletions. A confirm
carries what it has seen (`ConfirmFits`) and a deletion its keys; a file is
excused by the histories `late`, `again` and `cascaded`, and by nothing else
(`Excused`). A confirmed file that is not excused is a row, and so is among the
keys of every deletion of its page under way.

### Content

`CInv` adds to the property what a handler carries: it names the comment it was
asked for, and what it is about to tell is the row unless it was overtaken.

`PbInv`: what is being published has a slug to try and a date, its own or one to
be written with it (`PublishesWell`), whatever the retry does to the slug. A reader's walk
(`UpToCursor`) has seen exactly what was there throughout and is not behind the
cursor. `Before` is a strict order on the rows there, so the next part begins
where the last ended.

`SnInv`: a version at least as new as the row has its text (`NewestHasText`), as
nothing is dated ahead of the clock; what the processor compares with is the row
or another text (`ComparesRow`); so it skips a version only when one has the
text. `JobAtWork` ties the job's state to the processor.

`RmInv` splits the time of an event in two. While a request is between its write
and its last call, it is alone and has cleared the queue as far as it has come
(`ClearsJobs`); when none is, the queue is as planned (`Planned`): empty and
rightly so, or the event's own job, or one that was put off. `astray` excepts
overlaps and failures. `ToldOnce` is the count in `Planned`.

### Model-checked only

The three liveness properties `UnsavedEditReachesRow`, `IdleDocIsUnloaded` and
`DeadSocketIsForgotten`, and `OldTrashIsPurged` and `PlaceIsReleased` of
`background`, need fairness and ENABLED and are outside the prover's reach; of
`DeadSocketIsForgotten` the part without fairness is proved.
`TextSurvivesConversion` is about functions that recur over documents: these are
RECURSIVE operators, which the provers do not take. What the violation runs show
is a behaviour, and needs no proof. Every other property of a run has a theorem.
The other way round, `SocketsAreLessees` and `SaveOnlyAdds` are proved and are
properties of no run.

## 7. Where code and documentation disagree

| Run | The line | What the code does |
|---|---|---|
| `early_unload` | `yjs-doc.service.ts:296-297`: a document is unloaded only when no edit is left; if the write fails it stays in memory and is retried | a release that waited for one save sees the entry clean because the next save has already started, and unloads it; if that save fails, its edits are gone |
| `restored_page_purged` | `docs/scenarios/pages.md`: emptying the trash deletes all the deleted pages | the trash is listed once and deleted page by page (`pages.service.ts:250`); a page restored meanwhile is deleted all the same, with its files |
| `marks_spread` | `yjs-json.spec.ts:36`: json round-trips through a Y.XmlFragment | plain text after marked text is inserted without attributes and takes those of the letter before it; the next save stores it so |
| `session_outlives_logout` | `auth/dto/logout.dto.ts:7`: with allDevices, all sessions of the user on all devices are ended | the ids are listed, their keys deleted, and then the whole set (`token.service.ts:136-142`); a session whose key and id come in between keeps its key and loses its id, and no later logout from all devices ends it |

Known from the models, and left out of the passing properties by their history
variables or by their statements rather than shown by runs of their own:

- What `early_unload` shows loses an edit for good if the one write it is left to
  fails, of two edits the second (`LeftToOneWrite` of `UnsavedEditReachesRow`).
  It can lose one without any error: the last holder
  leaves while the timer's save is under way and a later edit waits behind it;
  the later edit's save is still on the wire when the page is opened and edited
  again; the saves of the two entries then overwrite each other (`yjs-doc.service.ts:211` chains the saves of
  one entry only). It takes three edits; the runs have two.
- A member removed while his join is under way stays on the page
  (`pages.gateway.ts:315` against `:305-308` and `README.md:249`).
- A REST write can commit under a session that opened after its check
  (`pages-content.service.ts:66` against `:64-65`).
- A restore drops edits accepted between its flush and the replacement, which
  are in no version (`pages-version.service.ts:98-99`), and misses a page that is
  loading (`yjs-doc.service.ts:82` against `README.md:245-246`).
- Two project moves that cross make a cycle. Its projects are in nobody's tree,
  and the `while` loop of the next check on them does not end
  (`projects.service.ts:181-189`); `docs/scenarios/projects.md:38,89` still says
  that there is no protection from cycles.
- A temporary invite is lost without admitting anybody when the process or an
  answer of Redis is lost while a redeem holds it, or when a second redeem asked
  for its life while the first held it. A list that runs while it is being given
  back takes it for stale and drops it from the index: it works and is in no
  list.
- A temporary link cannot be revoked, though it is in the list of links: revoke
  looks for a row by its id (`workspace-invites.service.ts:128`), and the list
  shows the token as the id.
- A reorder of pages whose page is restored between its reading of the pages in
  use (`pages.repository.ts:79`) and of the trash (`:94`) has that page in neither
  list and meets the unique index, although `:121-123` moves the trash out of the
  way for that reason. A reorder is also refused if a page has been created in
  the project, or moved into it or out of it, since the reads.
- Limits on workspaces and links are exceeded by creates that overlap.
- Two refreshes with one cookie that overlap both succeed.
- `EXPIRE ... GT` never gives a time to live to a set that has none.
- Two `/start` with one chat at once: the loser's P2002 is answered with 200, so
  Telegram does not try again.
- An upload confirmed twice beside a second upload leaves an object without a
  row (`attachments.service.ts:96-104`, `:195`), and so do files of pages deleted
  with their project.
- `publish` finds the slug free for the title it read, not for the one renamed
  meanwhile. A reader whose cursor article is unpublished skips one article, as
  `skip: 1` counts it no more.
- A save whose `add` meets a running or a failed snapshot job gets no job of its
  own.
- A reminder whose message reached Telegram and whose answer did not is sent
  again. A lead of 0 minutes, which the DTO allows, is planned for the start of
  the event and then skipped because the event has begun
  (`event-reminders.processor.ts:77`).
- An AI stream that ends early without `[DONE]` is taken for complete.
- A hard break joins the words around it in the searched text
  (`extract-plain-text.ts:19-22`), and what is deeper than 100 levels is not in
  it.

## 8. What is not modelled

- Users, health, configuration, filters and DTOs: reads or single writes of one
  row, wiring and formatting. No two of their steps can go apart.
- Yjs, Socket.IO, BullMQ, Redis, PostgreSQL, S3, Telegram and the AI provider are
  external: what the code relies on is in the modules that use them, and marked
  external in `PROJECT.json`.
- Plain updates of one row (titles, icons, covers, colours, favourites, profile)
  are left out of the modules that have the row.
- The seed (`prisma/seed.ts`), generated clients and tests.
- The locks of a restore and a save, taken in opposite orders
  (`pages-version.repository.ts:56`): PostgreSQL breaks the ring, which is
  `SaveFails` or `RestoreFails` of `LiveDoc`; the locks themselves are not there.

## 9. The plan

Done: the inventory; `LiveDoc`, `PageSessions` and the modules of accounts,
structure, content and background; `PageLease` as an abstract specification and
its refinement, from below by the live document and from above by the sockets;
a proof of every safety property that a run checks, but for
`TextSurvivesConversion`; action properties of unloads and saves.

Next: `ContentLocks`, the row locks of restore and save, to show that the ring
is the only way they wait for each other; and of positions, that a step changes
only those of the group its request has locked.

## 10. How to run

    tlc -workers 2 -config live_doc_edits.cfg MCLiveDoc.tla
    tlc -workers 2 -config page_sessions.cfg MCPageSessions.tla
    tlc -workers 2 -config accounts.cfg MCAccounts.tla
    tlc -workers 2 -config structure.cfg MCStructure.tla
    tlc -workers 2 -config content.cfg MCContent.tla
    tlc -workers 2 -config background.cfg MCBackground.tla

    for m in LiveDocProofs PageSessionsProofs SessionsProofs InvitesProofs \
             TelegramProofs AccountsProofs StructureProofs ContentProofs; do
      tlapm $m.tla
    done

`PROJECT.json` lists for every run its module and properties, for every
definition the source lines it models, and for every hazard the properties that
cover it.
