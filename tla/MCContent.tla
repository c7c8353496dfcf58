------------------------------ MODULE MCContent ------------------------------
(* What goes on around the text of a page, in one run: comments, public      *)
(* articles, the history of versions and reminders of events.  part is       *)
(* chosen at the start and only that component moves.                        *)
EXTENDS Comments, TLC

CONSTANTS
  Articles, Titles, TitleOf, Readers, SLUG_ATTEMPTS, MaxPublishRequests,
  Writers, VersionIds, ATTEMPTS, LastHour, MaxWrites, MaxErrors,
  Times, Leads, DEFAULT_REMINDER_MINUTES, DAY, QuietStart, QuietEnd,
  LastMoment, MaxEventRequests, MaxChanges, MaxEventFailures

VARIABLES
  part,
  slug, status, publishedAt, trashedArticles, publishRun, publishStarted,
  articleTrashings, reader,
  hour, text, updatedAt, trashed, versions, snapshotJob, snapshotWorker, writer,
  written, errors, walk, uncovered,
  now, event, created, jobs, worker, reach, eventRun, eventStarted, changes,
  eventFailures, sent, astray

\* A value of TitleOf that a .cfg cannot write down.
OneTitle == [a \in Articles |-> CHOOSE title \in Titles : TRUE]

Pb == INSTANCE Publication WITH
        MaxStarted <- MaxPublishRequests, trashed <- trashedArticles,
        run <- publishRun, started <- publishStarted, trashings <- articleTrashings
Sn == INSTANCE Snapshots WITH
        LastMoment <- LastHour, MaxFailures <- MaxErrors, now <- hour,
        job <- snapshotJob, worker <- snapshotWorker, failures <- errors
Rm == INSTANCE Reminders WITH
        MaxStarted <- MaxEventRequests, MaxFailures <- MaxEventFailures,
        run <- eventRun, started <- eventStarted, failures <- eventFailures

ASSUME ContentAssumption ==
  /\ Pb!PublicationAssumption /\ Sn!SnapshotsAssumption /\ Rm!RemindersAssumption

pbVars == <<slug, status, publishedAt, trashedArticles, publishRun, publishStarted,
            articleTrashings, reader>>
snVars == <<hour, text, updatedAt, trashed, versions, snapshotJob, snapshotWorker,
            writer, written, errors, walk, uncovered>>
rmVars == <<now, event, created, jobs, worker, reach, eventRun, eventStarted, changes,
            eventFailures, sent, astray>>

\* Where a component does not move, its first state does not matter.
ContentInit ==
  /\ part \in {"comments", "publication", "snapshots", "reminders"}
  /\ Init /\ Pb!Init /\ Sn!Init /\ Rm!Init
  /\ part # "reminders" => created = "no"

CommentsMove ==
  part = "comments" /\ Next /\ UNCHANGED <<part, pbVars, snVars, rmVars>>
PublicationMoves ==
  part = "publication" /\ Pb!Next
    /\ UNCHANGED <<part, vars, snVars, rmVars>>
SnapshotsMove ==
  part = "snapshots" /\ Sn!Next
    /\ UNCHANGED <<part, vars, pbVars, rmVars>>
RemindersMove ==
  part = "reminders" /\ Rm!Next
    /\ UNCHANGED <<part, vars, pbVars, snVars>>

Content ==
  ContentInit
    /\ [][CommentsMove \/ PublicationMoves \/ SnapshotsMove \/ RemindersMove]_
         <<part, vars, pbVars, snVars, rmVars>>

\* Requests, users and saves are interchangeable.
Symmetry == Permutations(Requests) \cup Permutations(Users) \cup Permutations(Writers)

\* The properties of the other components, looked at where they move.

\* What is public has an address and a date, whatever two publishes,
\* a delete and a restore do to one page at once.
PublishedIsComplete == part = "publication" => Pb!PublishedIsComplete

\* A reader who walks a list part by part, of articles or of versions, gets what
\* is in it throughout, and gets it once.
WalksShowEachOnce ==
  /\ part = "publication" => Pb!WalkShowsEachOnce
  /\ part = "snapshots" => Sn!HistoryShowsEachOnce

\* A saved text is in a version, or a job will put it there, but for the saves
\* that met a job at work or a job that had failed.
TextIsKeptOrPlanned == part = "snapshots" => Sn!TextIsKeptOrPlanned

\* An event ends after it begins, and the reminders planned are those of the
\* event as it is.
PlanFitsEvent == part = "reminders" => Rm!RangeIsValid /\ Rm!PlanFitsEvent

\* One plan of an event tells its owner once, but for answers of Telegram lost.
ToldOnce == part = "reminders" => Rm!ToldOnce
=============================================================================
