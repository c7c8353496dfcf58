------------------------------ MODULE Snapshots ------------------------------
(* The history of a page: pages-version.service.ts, its processor and its    *)
(* repository.                                                               *)
(*                                                                           *)
(* Who has saved a page asks for a snapshot an hour later.  The job has one  *)
(* id per page, so asking again while it exists does nothing.  The processor *)
(* reads the content, then the latest version, and adds one unless that is   *)
(* not older than the content.  A restore writes both in one transaction.    *)
EXTENDS Naturals, FiniteSets

CONSTANTS
  Writers,      \* saves that can be under way at once
  VersionIds,   \* uuids, as numbers: the list orders by them
  ATTEMPTS,     \* of a job
  LastMoment,   \* bound on the clock
  MaxWrites,    \* bound on saves
  MaxFailures   \* bound on errors of Redis and PostgreSQL, and restarts

SnapshotsAssumption ==
  /\ VersionIds \subseteq Nat \ {0} /\ IsFiniteSet(VersionIds)
  /\ ATTEMPTS \in Nat \ {0} /\ LastMoment \in Nat \ {0} /\ MaxWrites \in Nat
  /\ MaxFailures \in Nat

VARIABLES
  now,
  text, updatedAt,   \* the row of page_contents; text 0 is the empty document
  trashed,           \* the page has a deletedAt
  versions,          \* id -> row of page_versions
  job,               \* the job auto-snapshot-<page>
  worker,            \* what the processor has read
  writer, written, failures,
  walk,              \* a walk through the list of versions
  uncovered          \* texts whose snapshot fell through, see Covered

vars == <<now, text, updatedAt, trashed, versions, job, worker, writer, written,
          failures, walk, uncovered>>

NoVersion == [text |-> 0, at |-> 0]
Known == {v \in VersionIds : versions[v] # NoVersion}
Kept(t) == t = 0 \/ \E v \in Known : versions[v].text = t
AtRest == [pc |-> "idle", text |-> 0, at |-> 0]

TypeOK ==
  /\ now \in 1..LastMoment /\ text \in 0..MaxWrites /\ updatedAt \in 0..LastMoment
  /\ trashed \in BOOLEAN
  /\ versions \in [VersionIds -> [text : 0..MaxWrites, at : 0..LastMoment]]
  /\ job \in [state : {"none", "delayed", "active", "failed"}, attempts : 0..ATTEMPTS]
  /\ worker \in [pc : {"idle", "read", "compare", "create"},
                 text : 0..MaxWrites, at : 0..LastMoment]
  /\ writer \in [Writers -> 0..MaxWrites] /\ written \in 0..MaxWrites
  /\ failures \in 0..MaxFailures
  /\ walk \in [pc : {"idle", "more", "done"}, cursor : VersionIds \cup {0},
               seen : SUBSET VersionIds, twice : SUBSET VersionIds,
               expected : SUBSET VersionIds]
  /\ uncovered \in SUBSET (0..MaxWrites)

Init ==
  /\ now = 1 /\ text = 0 /\ updatedAt = 0 /\ trashed = FALSE
  /\ versions = [v \in VersionIds |-> NoVersion]
  /\ job = [state |-> "none", attempts |-> 0] /\ worker = AtRest
  /\ writer = [w \in Writers |-> 0] /\ written = 0 /\ failures = 0
  /\ walk = [pc |-> "idle", cursor |-> 0, seen |-> {}, twice |-> {}, expected |-> {}]
  /\ uncovered = {}

Misses(t) == uncovered' = uncovered \cup {t}

-----------------------------------------------------------------------------
(* Saving and scheduling                                                    *)

\* A REST write or a save of the live document commits.  (A version of the same
\* millisecond hides the new text from the next job.)
Writes(w) ==
  /\ writer[w] = 0 /\ written < MaxWrites /\ ~trashed
  /\ written' = written + 1 /\ text' = written + 1 /\ updatedAt' = now
  /\ writer' = [writer EXCEPT ![w] = written + 1]
  /\ IF \E v \in Known : versions[v].at = now
       THEN Misses(written + 1) ELSE UNCHANGED uncovered
  /\ UNCHANGED <<now, trashed, versions, job, worker, failures, walk>>

\* queue.add does nothing while a job of this id is there, were it one that has
\* read the page already or one kept for its failure.
scheduleAutoSnapshot(w) ==
  /\ writer[w] # 0 /\ writer' = [writer EXCEPT ![w] = 0]
  /\ job' = IF job.state = "none" THEN [state |-> "delayed", attempts |-> 0] ELSE job
  /\ IF worker.pc \in {"compare", "create"} \/ job.state = "failed"
       THEN Misses(writer[w]) ELSE UNCHANGED uncovered
  /\ UNCHANGED <<now, text, updatedAt, trashed, versions, worker, written, failures, walk>>

\* Redis does not answer, or the process stops between the save and here.
ScheduleFails(w) ==
  /\ writer[w] # 0 /\ failures < MaxFailures /\ failures' = failures + 1
  /\ writer' = [writer EXCEPT ![w] = 0] /\ Misses(writer[w])
  /\ UNCHANGED <<now, text, updatedAt, trashed, versions, job, worker, written, walk>>

-----------------------------------------------------------------------------
(* The processor                                                            *)

JobStarts ==
  /\ job.state = "delayed"
  /\ job' = [state |-> "active", attempts |-> job.attempts + 1]
  /\ worker' = [AtRest EXCEPT !.pc = "read"]
  /\ UNCHANGED <<now, text, updatedAt, trashed, versions, writer, written, failures,
                 walk, uncovered>>

\* removeOnComplete
Completes == job' = [state |-> "none", attempts |-> 0] /\ worker' = AtRest

\* A page in the trash is not snapshotted.
ReadsContent ==
  /\ worker.pc = "read"
  /\ IF trashed THEN Completes /\ Misses(text)
     ELSE /\ worker' = [pc |-> "compare", text |-> text, at |-> updatedAt]
          /\ UNCHANGED <<job, uncovered>>
  /\ UNCHANGED <<now, text, updatedAt, trashed, versions, writer, written, failures, walk>>

\* Variant: one version is enough.
HasNoChangesOnce(at) == Known # {}

\* The latest version is not older than the content that was read.
HasNoChanges(at) == \E v \in Known : versions[v].at >= at

FindsLatest ==
  /\ worker.pc = "compare"
  /\ IF HasNoChanges(worker.at) THEN Completes
     ELSE worker' = [worker EXCEPT !.pc = "create"] /\ UNCHANGED job
  /\ UNCHANGED <<now, text, updatedAt, trashed, versions, writer, written, failures,
                 walk, uncovered>>

\* What was written since the read is older than this version: the next job
\* takes it for covered.
CreatesVersion(v) ==
  /\ worker.pc = "create" /\ v \notin Known
  /\ versions' = [versions EXCEPT ![v] = [text |-> worker.text, at |-> now]]
  /\ Completes
  /\ IF text # worker.text THEN Misses(text) ELSE UNCHANGED uncovered
  /\ UNCHANGED <<now, text, updatedAt, trashed, writer, written, failures, walk>>

\* An error, or a restart of the process: the job is tried again, and after the
\* last attempt it stays where it is.
JobFails ==
  /\ job.state = "active" /\ failures < MaxFailures /\ failures' = failures + 1
  /\ job' = [job EXCEPT !.state = IF job.attempts = ATTEMPTS THEN "failed" ELSE "delayed"]
  /\ worker' = AtRest
  /\ IF job.attempts = ATTEMPTS THEN Misses(text) ELSE UNCHANGED uncovered
  /\ UNCHANGED <<now, text, updatedAt, trashed, versions, writer, written, walk>>

\* removeOnFail keeps the last hundred of all pages.
FailedJobIsRemoved ==
  /\ job.state = "failed" /\ job' = [state |-> "none", attempts |-> 0]
  /\ UNCHANGED <<now, text, updatedAt, trashed, versions, worker, writer, written,
                 failures, walk, uncovered>>

-----------------------------------------------------------------------------
(* restore, the list of versions, and what happens around                   *)

\* The text that is replaced becomes a version; no snapshot of the restored one
\* is asked for, since a version has it.
Restores(v, new) ==
  /\ v \in Known /\ new \notin Known /\ ~trashed /\ versions[v].text # text
  /\ versions' = [versions EXCEPT ![new] = [text |-> text, at |-> now]]
  /\ text' = versions[v].text /\ updatedAt' = now
  /\ UNCHANGED <<now, trashed, job, worker, writer, written, failures, walk, uncovered>>

Before(u, v) ==
  \/ versions[u].at > versions[v].at
  \/ versions[u].at = versions[v].at /\ u > v

\* findManyByPageId, from the cursor on and without it
From(cursor) == {v \in Known : cursor = 0 \/ v = cursor \/ Before(cursor, v)}
Rank(v, rows) == Cardinality({u \in rows : Before(u, v)})

Rows(cursor, take) ==
  LET skip == IF cursor = 0 THEN 0 ELSE 1
  IN  {v \in From(cursor) : Rank(v, From(cursor)) \in skip..(skip + take - 1)}

Lists(limit) ==
  LET rows == Rows(walk.cursor, limit + 1)
      hasMore == Cardinality(rows) > limit
      items == {v \in rows : hasMore => Rank(v, rows) < limit}
      next == IF hasMore THEN CHOOSE v \in items : Rank(v, items) = limit - 1 ELSE 0
  IN  /\ walk.pc # "done"
      /\ walk' = [pc |-> IF hasMore THEN "more" ELSE "done", cursor |-> next,
                  seen |-> walk.seen \cup items,
                  twice |-> walk.twice \cup (walk.seen \cap items),
                  expected |-> IF walk.pc = "idle" THEN Known ELSE walk.expected]
      /\ UNCHANGED <<now, text, updatedAt, trashed, versions, job, worker, writer,
                     written, failures, uncovered>>

TrashChanges ==
  /\ trashed' = ~trashed
  /\ UNCHANGED <<now, text, updatedAt, versions, job, worker, writer, written,
                 failures, walk, uncovered>>

Tick ==
  /\ now < LastMoment /\ now' = now + 1
  /\ UNCHANGED <<text, updatedAt, trashed, versions, job, worker, writer, written,
                 failures, walk, uncovered>>

Next ==
  \/ \E w \in Writers : Writes(w) \/ scheduleAutoSnapshot(w) \/ ScheduleFails(w)
  \/ JobStarts \/ ReadsContent \/ FindsLatest \/ JobFails \/ FailedJobIsRemoved
  \/ \E v \in VersionIds : CreatesVersion(v)
  \/ \E v, new \in VersionIds : Restores(v, new)
  \/ Lists(1) \/ TrashChanges \/ Tick

Spec == Init /\ [][Next]_vars

-----------------------------------------------------------------------------

\* The text of a page is in its history or on its way there: a version has it, a
\* save has still to ask for its snapshot, or a job has still to read it or has
\* read it.  What falls through is listed: the job was busy with an older text or
\* had failed for good, the queue or the process failed, the page lay in the trash
\* when the job came, or a version was made between the read and the write.
Covered(t) ==
  \/ Kept(t) \/ t \in uncovered
  \/ \E w \in Writers : writer[w] = t
  \/ job.state = "delayed"
  \/ worker.pc = "read"
  \/ worker.pc \in {"compare", "create"} /\ worker.text = t

TextIsKeptOrPlanned == Covered(text)

\* Who walks through the history gets no version twice, and at the end has got
\* every one that was in it when he began, whatever was added meanwhile.
HistoryShowsEachOnce ==
  /\ walk.twice = {}
  /\ walk.pc = "done" => walk.expected \subseteq walk.seen
=============================================================================
