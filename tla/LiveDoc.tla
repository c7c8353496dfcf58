------------------------------ MODULE LiveDoc ------------------------------
(***************************************************************************)
(* The live Yjs document of one page: YjsDocService (in-memory entry, save *)
(* chain, debounce timer, unloading), the page_contents row it is loaded   *)
(* from and saved to, and the two other writers of that row: the REST      *)
(* write of PagesContentService and the version restore of                 *)
(* PagesVersionService.                                                    *)
(*                                                                         *)
(* Node runs one callback at a time, so an action is everything the code   *)
(* does between two awaits that really leave the event loop (a database or *)
(* queue round trip, a timer).  Promise continuations that run in the same *)
(* turn are part of the same action.                                       *)
(*                                                                         *)
(* A document is the set of text fragments it shows.  An edit adds one.    *)
(***************************************************************************)
EXTENDS Naturals, FiniteSets, Sequences

CONSTANTS
  Holders,        \* socket joins that may hold the page (acquire .. release)
  Edits,          \* edits a client may send, each at most once
  Incarnations,   \* in-memory entries that may exist at the same time
  NoEntry,        \* no incarnation
  NoState,        \* yjsState = null
  StoredBodies,   \* texts the row may start with
  RestBodies,     \* texts a REST write may carry ({} : no REST writes)
  VersionBodies,  \* version snapshots present at the start ({} : no restores)
  MaxFailures,    \* bound: database errors
  MaxCrashes      \* bound: process restarts

Texts == SUBSET (Edits \cup UNION (StoredBodies \cup RestBodies \cup VersionBodies))

\* Who is waiting for a save in the chain: the debounce timer
\* (persistAndUnload), the two flushes of a restore, a release by a holder.
Tails == {"timer", "restore", "replace"}
Waiters == Tails \cup Holders

ASSUME NamesAssumption ==
  /\ NoEntry \notin Incarnations
  /\ \A text \in Texts : NoState # text
  /\ Holders \cap Tails = {}

ASSUME BoundsAssumption ==
  /\ MaxFailures \in Nat
  /\ MaxCrashes \in Nat

ASSUME HoldersAssumption == IsFiniteSet(Holders)

VARIABLES
  row,        \* page_contents row: json and yjsState
  rowSeenBy,  \* history: the incarnation that last read or wrote the row
  versions,   \* page_versions snapshots
  entry,      \* incarnation -> DocEntry and its save chain
  current,    \* incarnation in the `entries` map, or NoEntry
  holder,     \* holder -> where its acquire/release handler is
  accepted,   \* history: edits applied and acknowledged
  rest,       \* the REST write in flight
  restore,    \* the version restore in flight
  failures,   \* bound counter
  crashes     \* bound counter

vars == <<row, rowSeenBy, versions, entry, current, holder, accepted, rest,
          restore, failures, crashes>>

-----------------------------------------------------------------------------
(* Types                                                                    *)

Phases == {"free", "reading", "read", "seeding", "live", "gone"}

Save == [stage : {"none", "sent", "stored", "queueing"},
         doc   : Texts,
         byUser : BOOLEAN]

Entry == [phase : Phases, doc : Texts, dirty : BOOLEAN, byUser : BOOLEAN,
          timer : BOOLEAN, refs : Nat, chain : Seq(Waiters), save : Save]

Row == [json : Texts, yjsState : {NoState} \cup Texts]

NoSave == [stage |-> "none", doc |-> {}, byUser |-> FALSE]

Blank == [phase |-> "free", doc |-> {}, dirty |-> FALSE, byUser |-> FALSE,
          timer |-> FALSE, refs |-> 0, chain |-> <<>>, save |-> NoSave]

Idle == [pc |-> "idle", text |-> {}]

-----------------------------------------------------------------------------
(* Operations on one entry                                                  *)

\* persist up to its first await: a dirty entry is marked clean, its text and
\* last editor are captured and the write is sent.
Persist(e) ==
  IF e.dirty
  THEN [e EXCEPT !.dirty = FALSE,
                 !.save = [stage |-> "sent", doc |-> e.doc, byUser |-> e.byUser]]
  ELSE e

\* flush: the timer is cleared and a persist is appended to the chain.  With
\* nothing under way the persist starts at once.
Flush(e, w) ==
  LET f == [e EXCEPT !.timer = FALSE] IN
  IF f.chain # <<>>
  THEN [f EXCEPT !.chain = Append(@, w)]
  ELSE IF f.dirty
       THEN [Persist(f) EXCEPT !.chain = <<w>>]
       ELSE f

\* The flush has nothing to wait for: it returns in the same turn.
FlushReturns(e) == e.chain = <<>> /\ ~e.dirty

\* The head of the chain has ended.  The next persist of the chain starts
\* before the code that awaited the head goes on: both are reactions of the
\* same promise, and that code sits one `await` further out.  A persist that
\* finds the entry clean ends at once, and so does everything behind it.
StartsNext(e) == Len(e.chain) > 1 /\ e.dirty

Advance(e) ==
  IF StartsNext(e)
  THEN [Persist(e) EXCEPT !.chain = Tail(@)]
  ELSE [e EXCEPT !.chain = <<>>, !.save = NoSave]

Returned(e) ==
  IF StartsNext(e)
  THEN {e.chain[1]}
  ELSE {e.chain[k] : k \in DOMAIN e.chain}

\* The waiters that go on with unloadIfIdle.
ChecksIdle(done) == done \cap (Holders \cup {"timer"}) # {}

\* Variant: unloadIfIdle that trusts the count read before the save.
UnloadsWithoutRefs(i, e, done) ==
  current = i /\ ChecksIdle(done) /\ ~e.dirty

\* Variant: unloadIfIdle that does not look for unsaved edits.
UnloadsUnsaved(i, e, done) ==
  current = i /\ ChecksIdle(done) /\ e.refs = 0

\* unloadIfIdle drops the entry: it is still the page's entry, clean, unheld.
Unloads(i, e, done) ==
  current = i /\ ChecksIdle(done) /\ ~e.dirty /\ e.refs = 0

\* Variant: a failed save that nobody repeats.
ReschedulesNever(i, e, done) == FALSE

\* unloadIfIdle and replaceContent arm the timer of an entry left dirty.
Reschedules(i, e, done) ==
  current = i /\ e.dirty /\ (ChecksIdle(done) \/ "replace" \in done)

\* The entry once everyone in `done` has gone on.  An unloaded entry with
\* saves still queued stays in memory until they end.
Settled(i, e, done) ==
  IF Unloads(i, e, done)
  THEN IF e.chain = <<>> THEN Blank
       ELSE [e EXCEPT !.phase = "gone", !.timer = FALSE]
  ELSE IF Reschedules(i, e, done) THEN [e EXCEPT !.timer = TRUE]
  ELSE IF current # i /\ e.chain = <<>> THEN Blank
  ELSE e

Settle(i, e, done) ==
  /\ entry' = [entry EXCEPT ![i] = Settled(i, e, done)]
  /\ current' = IF Unloads(i, e, done) THEN NoEntry ELSE current

HoldersAfter(done) == [c \in Holders |-> IF c \in done THEN "out" ELSE holder[c]]

RestoreAfter(done) ==
  IF "restore" \in done THEN [restore EXCEPT !.pc = "tx"]
  ELSE IF "replace" \in done THEN Idle
  ELSE restore

\* Waiters whose flush returns in the turn that called it.
AtOnce(e, w) == IF FlushReturns(e) THEN {w} ELSE {}

\* `loaded.get(pageId)` finds an entry.
Live == current # NoEntry /\ entry[current].phase = "live"

-----------------------------------------------------------------------------
(* Initial state: a row with or without yjsState, nothing in memory.        *)

Init ==
  /\ \E text \in StoredBodies : \E state \in {text, NoState} :
       row = [json |-> text, yjsState |-> state]
  /\ rowSeenBy = NoEntry
  /\ versions = VersionBodies
  /\ entry = [i \in Incarnations |-> Blank]
  /\ current = NoEntry
  /\ holder = [c \in Holders |-> "out"]
  /\ accepted = {}
  /\ rest = Idle
  /\ restore = Idle
  /\ failures = 0
  /\ crashes = 0

-----------------------------------------------------------------------------
(* acquire, getEntry, load                                                  *)

\* acquire on a loaded page.
AcquireLoaded(c) ==
  /\ holder[c] = "out"
  /\ Live
  /\ entry' = [entry EXCEPT ![current].refs = @ + 1]
  /\ holder' = [holder EXCEPT ![c] = "in"]
  /\ UNCHANGED <<row, rowSeenBy, versions, current, accepted, rest, restore,
                 failures, crashes>>

\* acquire while the page is loading: it awaits the shared promise.
AcquireShared(c) ==
  /\ holder[c] = "out"
  /\ current # NoEntry /\ ~Live
  /\ holder' = [holder EXCEPT ![c] = "opening"]
  /\ UNCHANGED <<row, rowSeenBy, versions, entry, current, accepted, rest,
                 restore, failures, crashes>>

\* acquire on a page not in memory: getEntry starts a load.
AcquireLoads(c) ==
  /\ holder[c] = "out"
  /\ current = NoEntry
  /\ \E i \in Incarnations :
       /\ entry[i].phase = "free"
       /\ entry' = [entry EXCEPT ![i].phase = "reading"]
       /\ current' = i
  /\ holder' = [holder EXCEPT ![c] = "opening"]
  /\ UNCHANGED <<row, rowSeenBy, versions, accepted, rest, restore, failures,
                 crashes>>

\* The database answers findContent with the row as it is now.  A text that
\* comes from json alone makes the entry dirty.
LoadReads(i) ==
  /\ entry[i].phase = "reading"
  /\ entry' = [entry EXCEPT
       ![i].phase = "read",
       ![i].doc = IF row.yjsState # NoState THEN row.yjsState ELSE row.json,
       ![i].dirty = row.yjsState = NoState /\ row.json # {}]
  /\ rowSeenBy' = i
  /\ UNCHANGED <<row, versions, current, holder, accepted, rest, restore,
                 failures, crashes>>

Opening == {c \in Holders : holder[c] = "opening"}

\* Variant: one reference for a load that several joins were waiting for.
OpenedOnce(e) == [e EXCEPT !.phase = "live", !.refs = 1]

\* load resolves: the entry is in `loaded`, every acquire that awaited it adds
\* its reference in the same turn.
Opened(e) == [e EXCEPT !.phase = "live", !.refs = Cardinality(Opening)]

OpenHolders == [c \in Holders |-> IF c \in Opening THEN "in" ELSE holder[c]]

\* The answer reaches load.  A seeded document is persisted first.
LoadAnswered(i) ==
  /\ entry[i].phase = "read"
  /\ IF entry[i].dirty
     THEN /\ entry' = [entry EXCEPT ![i] = [Persist(@) EXCEPT !.phase = "seeding"]]
          /\ UNCHANGED holder
     ELSE /\ entry' = [entry EXCEPT ![i] = Opened(@)]
          /\ holder' = OpenHolders
  /\ UNCHANGED <<row, rowSeenBy, versions, current, accepted, rest, restore,
                 failures, crashes>>

\* Variant: a failed load stays in `entries`.
LoadFailsKept(i) ==
  /\ entry[i].phase \in {"reading", "read"}
  /\ failures < MaxFailures
  /\ entry' = [entry EXCEPT ![i] = Blank]
  /\ holder' = [c \in Holders |-> IF c \in Opening THEN "out" ELSE holder[c]]
  /\ failures' = failures + 1
  /\ UNCHANGED <<row, rowSeenBy, versions, current, accepted, rest, restore, crashes>>

\* findContent fails: the promise leaves `entries` and every acquire rejects.
LoadFails(i) ==
  /\ entry[i].phase \in {"reading", "read"}
  /\ failures < MaxFailures
  /\ entry' = [entry EXCEPT ![i] = Blank]
  /\ current' = NoEntry
  /\ holder' = [c \in Holders |-> IF c \in Opening THEN "out" ELSE holder[c]]
  /\ failures' = failures + 1
  /\ UNCHANGED <<row, rowSeenBy, versions, accepted, rest, restore, crashes>>

-----------------------------------------------------------------------------
(* applyUpdate and release                                                  *)

\* Variant: an edit that leaves the saving to whoever leaves last.
EditUnscheduled(c) ==
  /\ holder[c] = "in"
  /\ Live
  /\ \E x \in Edits \ accepted :
       /\ entry' = [entry EXCEPT ![current].doc = @ \cup {x},
                                 ![current].dirty = TRUE,
                                 ![current].byUser = TRUE]
       /\ accepted' = accepted \cup {x}
  /\ UNCHANGED <<row, rowSeenBy, versions, current, holder, rest, restore,
                 failures, crashes>>

\* applyUpdate by a holder: the edit is in the document, the entry is dirty,
\* the debounce restarts, the client gets ok.
Edit(c) ==
  /\ holder[c] = "in"
  /\ Live
  /\ \E x \in Edits \ accepted :
       /\ entry' = [entry EXCEPT ![current].doc = @ \cup {x},
                                 ![current].dirty = TRUE,
                                 ![current].byUser = TRUE,
                                 ![current].timer = TRUE]
       /\ accepted' = accepted \cup {x}
  /\ UNCHANGED <<row, rowSeenBy, versions, current, holder, rest, restore,
                 failures, crashes>>

\* release when the page is not in `loaded`, or others still hold it.
ReleaseKeeps(c) ==
  /\ holder[c] = "in"
  /\ IF Live
     THEN /\ entry[current].refs > 1
          /\ entry' = [entry EXCEPT ![current].refs = @ - 1]
     ELSE UNCHANGED entry
  /\ holder' = [holder EXCEPT ![c] = "out"]
  /\ UNCHANGED <<row, rowSeenBy, versions, current, accepted, rest, restore,
                 failures, crashes>>

\* release of the last reference: flush, then unloadIfIdle.
ReleaseLast(c) ==
  /\ holder[c] = "in"
  /\ Live /\ entry[current].refs <= 1
  /\ LET e == [entry[current] EXCEPT !.refs = 0]
         done == AtOnce(e, c)
     IN /\ Settle(current, Flush(e, c), done)
        /\ holder' = [holder EXCEPT ![c] = IF done = {} THEN "closing" ELSE "out"]
  /\ UNCHANGED <<row, rowSeenBy, versions, accepted, rest, restore, failures,
                 crashes>>

\* The debounce timer: persistAndUnload.
TimerFires ==
  /\ Live /\ entry[current].timer
  /\ LET e == [entry[current] EXCEPT !.timer = FALSE]
     IN Settle(current, Flush(e, "timer"), AtOnce(e, "timer"))
  /\ UNCHANGED <<row, rowSeenBy, versions, holder, accepted, rest, restore,
                 failures, crashes>>

-----------------------------------------------------------------------------
(* persist, from the write on the wire to the end of the chain's head       *)

\* The saveYjsState transaction commits json and yjsState together.
SaveCommits(i) ==
  /\ entry[i].save.stage = "sent"
  /\ row' = [json |-> entry[i].save.doc, yjsState |-> entry[i].save.doc]
  /\ rowSeenBy' = i
  /\ entry' = [entry EXCEPT ![i].save.stage = "stored"]
  /\ UNCHANGED <<versions, current, holder, accepted, rest, restore, failures,
                 crashes>>

\* The head of the chain ends with the entry as `e`; seeding opens the page.
HeadEnds(i, e) ==
  IF e.phase = "seeding"
  THEN /\ entry' = [entry EXCEPT ![i] = Opened([e EXCEPT !.save = NoSave])]
       /\ holder' = OpenHolders
       /\ UNCHANGED <<current, restore>>
  ELSE /\ Settle(i, Advance(e), Returned(e))
       /\ holder' = HoldersAfter(Returned(e))
       /\ restore' = RestoreAfter(Returned(e))

\* Variant: `dirty` is cleared when the write is answered.
SaveAnsweredClean(i) ==
  /\ entry[i].save.stage = "stored"
  /\ IF entry[i].save.byUser
     THEN /\ entry' = [entry EXCEPT ![i].save.stage = "queueing", ![i].dirty = FALSE]
          /\ UNCHANGED <<current, holder, restore>>
     ELSE HeadEnds(i, [entry[i] EXCEPT !.dirty = FALSE])
  /\ UNCHANGED <<row, rowSeenBy, versions, accepted, rest, failures, crashes>>

\* The write is answered.  A user's edit also queues an automatic snapshot.
SaveAnswered(i) ==
  /\ entry[i].save.stage = "stored"
  /\ IF entry[i].save.byUser
     THEN /\ entry' = [entry EXCEPT ![i].save.stage = "queueing"]
          /\ UNCHANGED <<current, holder, restore>>
     ELSE HeadEnds(i, entry[i])
  /\ UNCHANGED <<row, rowSeenBy, versions, accepted, rest, failures, crashes>>

\* The queue answers, or fails and the error is swallowed.
SnapshotQueued(i) ==
  /\ entry[i].save.stage = "queueing"
  /\ HeadEnds(i, entry[i])
  /\ UNCHANGED <<row, rowSeenBy, versions, accepted, rest, failures, crashes>>

\* The write fails, before or after the commit: the entry is dirty again and
\* the error is swallowed.
SaveFails(i) ==
  /\ entry[i].save.stage \in {"sent", "stored"}
  /\ failures < MaxFailures
  /\ HeadEnds(i, [entry[i] EXCEPT !.dirty = TRUE])
  /\ failures' = failures + 1
  /\ UNCHANGED <<row, rowSeenBy, versions, accepted, rest, crashes>>

-----------------------------------------------------------------------------
(* The REST write                                                           *)

\* updateContent: no live session, so the upsert is sent.
RestSends ==
  /\ rest.pc = "idle"
  /\ ~Live
  /\ \E text \in RestBodies : rest' = [pc |-> "sent", text |-> text]
  /\ UNCHANGED <<row, rowSeenBy, versions, entry, current, holder, accepted,
                 restore, failures, crashes>>

\* Variant: an upsert that leaves the old yjsState in the row.
RestCommitsJsonOnly ==
  /\ rest.pc = "sent"
  /\ row' = [row EXCEPT !.json = rest.text]
  /\ rowSeenBy' = NoEntry
  /\ rest' = Idle
  /\ UNCHANGED <<versions, entry, current, holder, accepted, restore, failures,
                 crashes>>

\* The upsert commits: new json, yjsState dropped.
RestCommits ==
  /\ rest.pc = "sent"
  /\ row' = [json |-> rest.text, yjsState |-> NoState]
  /\ rowSeenBy' = NoEntry
  /\ rest' = Idle
  /\ UNCHANGED <<versions, entry, current, holder, accepted, restore, failures,
                 crashes>>

RestFails ==
  /\ rest.pc = "sent"
  /\ failures < MaxFailures
  /\ rest' = Idle
  /\ failures' = failures + 1
  /\ UNCHANGED <<row, rowSeenBy, versions, entry, current, holder, accepted,
                 restore, crashes>>

-----------------------------------------------------------------------------
(* The version restore                                                      *)

\* restore begins with a flush of the live document, if there is one.
RestoreBegins ==
  /\ restore.pc = "idle"
  /\ \E text \in versions :
       IF ~Live
       THEN /\ restore' = [pc |-> "tx", text |-> text]
            /\ UNCHANGED <<entry, current>>
       ELSE LET e == entry[current] IN
            /\ Settle(current, Flush(e, "restore"), AtOnce(e, "restore"))
            /\ restore' = [pc |-> IF FlushReturns(e) THEN "tx" ELSE "flushing",
                           text |-> text]
  /\ UNCHANGED <<row, rowSeenBy, versions, holder, accepted, rest, failures,
                 crashes>>

\* The transaction under the row locks: the text being replaced goes to the
\* history, the row gets the version's json and no yjsState.  A row that
\* already shows the version is left alone and the restore ends.
RestoreCommits ==
  /\ restore.pc = "tx"
  /\ IF row.json = restore.text
     THEN /\ restore' = Idle
          /\ UNCHANGED <<row, rowSeenBy, versions>>
     ELSE /\ versions' = versions \cup {row.json}
          /\ row' = [json |-> restore.text, yjsState |-> NoState]
          /\ rowSeenBy' = NoEntry
          /\ restore' = [restore EXCEPT !.pc = "committed"]
  /\ UNCHANGED <<entry, current, holder, accepted, rest, failures, crashes>>

\* replaceContent: nothing when the page is not in `loaded`; otherwise the live
\* document becomes the version's text and is flushed.
RestoreReplaces ==
  /\ restore.pc = "committed"
  /\ IF ~Live
     THEN restore' = Idle /\ UNCHANGED <<entry, current>>
     ELSE LET e == [entry[current] EXCEPT !.doc = restore.text, !.dirty = TRUE,
                                          !.byUser = FALSE]
          IN /\ Settle(current, Flush(e, "replace"), AtOnce(e, "replace"))
             /\ restore' = [restore EXCEPT !.pc = "replacing"]
  /\ UNCHANGED <<row, rowSeenBy, versions, holder, accepted, rest, failures,
                 crashes>>

\* The transaction is refused, or its answer is lost: replaceContent is not
\* called.
RestoreFails ==
  /\ restore.pc \in {"tx", "committed"}
  /\ failures < MaxFailures
  /\ restore' = Idle
  /\ failures' = failures + 1
  /\ UNCHANGED <<row, rowSeenBy, versions, entry, current, holder, accepted,
                 rest, crashes>>

-----------------------------------------------------------------------------
(* The process dies and restarts: only the database is left.                *)

Crash ==
  /\ crashes < MaxCrashes
  /\ entry' = [i \in Incarnations |-> Blank]
  /\ current' = NoEntry
  /\ holder' = [c \in Holders |-> "out"]
  /\ rest' = Idle
  /\ restore' = Idle
  /\ rowSeenBy' = NoEntry
  /\ crashes' = crashes + 1
  /\ UNCHANGED <<row, versions, accepted, failures>>

-----------------------------------------------------------------------------

Acquire(c) == AcquireLoaded(c) \/ AcquireShared(c) \/ AcquireLoads(c)

Release(c) == ReleaseKeeps(c) \/ ReleaseLast(c)

Load(i) == LoadReads(i) \/ LoadAnswered(i) \/ LoadFails(i)

SaveStep(i) ==
  SaveCommits(i) \/ SaveAnswered(i) \/ SnapshotQueued(i) \/ SaveFails(i)

RestStep == RestSends \/ RestCommits \/ RestFails

RestoreStep ==
  RestoreBegins \/ RestoreCommits \/ RestoreReplaces \/ RestoreFails

Next ==
  \/ \E c \in Holders : Acquire(c) \/ Edit(c) \/ Release(c)
  \/ \E i \in Incarnations : Load(i) \/ SaveStep(i)
  \/ TimerFires
  \/ RestStep
  \/ RestoreStep
  \/ Crash

Spec == Init /\ [][Next]_vars

\* Timers fire and the database and the queue answer, one way or the other.
\* Nobody has to open, edit, leave or restore.
Fairness ==
  /\ WF_vars(TimerFires)
  /\ \A i \in Incarnations :
       WF_vars(LoadReads(i) \/ LoadAnswered(i)) /\ WF_vars(SaveStep(i))

FairSpec == Spec /\ Fairness

-----------------------------------------------------------------------------
(* Properties                                                               *)

\* Types of the variables, and which entry the `entries` map names.
TypeOK ==
  /\ row \in Row
  /\ rowSeenBy \in Incarnations \cup {NoEntry}
  /\ versions \in SUBSET Texts
  /\ entry \in [Incarnations -> Entry]
  /\ current \in Incarnations \cup {NoEntry}
  /\ \A i \in Incarnations :
       i = current <=> entry[i].phase \in {"reading", "read", "seeding", "live"}
  /\ holder \in [Holders -> {"out", "opening", "in", "closing"}]
  /\ accepted \in SUBSET Edits
  /\ rest \in [pc : {"idle", "sent"}, text : Texts]
  /\ restore \in [pc : {"idle", "flushing", "tx", "committed", "replacing"},
                  text : Texts]
  /\ failures \in 0..MaxFailures
  /\ crashes \in 0..MaxCrashes

\* json and yjsState never tell different stories: whoever wrote the row last
\* (a save, a REST write, a restore), yjsState is either dropped or is the
\* state of the very text in json.
StateMatchesJson == row.yjsState # NoState => row.yjsState = row.json

\* An entry that counts as saved is saved: a clean document is the text of the
\* write under way, or of the row if nobody else has written it since.  An edit
\* applied while a save is on the wire is never taken for a saved one.
CleanMeansStored ==
  \A i \in Incarnations :
    entry[i].phase \in {"live", "gone"} /\ ~entry[i].dirty =>
      /\ entry[i].save.stage \in {"sent", "stored"} =>
           entry[i].save.doc = entry[i].doc
      /\ entry[i].save.stage # "sent" /\ rowSeenBy = i =>
           row.json = entry[i].doc

Held == {c \in Holders : holder[c] = "in"}

\* The reference count is the number of joins that hold the page, and a held
\* page is in `loaded`, whatever saves, timers and other leaves were awaited
\* in between: unloadIfIdle never takes the document from under a holder.
HoldersAreCounted ==
  IF Live THEN entry[current].refs = Cardinality(Held) ELSE Held = {}

\* The document as those who hold it see it.
Lease == INSTANCE PageLease WITH lease <- holder, loaded <- Live

\* acquire and release keep what PageLease promises, through every save, timer,
\* error and restart: joins that wait for one load come in together, a page in
\* use is never dropped, and only who is leaving is let go by a save that ends.
HoldsAsLease == Lease!Spec

\* An edit that was acknowledged and is not saved has a save coming: a timer, or
\* a persist queued behind the one under way.
AcceptedEditIsPlanned ==
  Live /\ entry[current].dirty /\ entry[current].byUser =>
    entry[current].timer \/ Len(entry[current].chain) > 1

\* yjs-doc.service.ts:296-297, as far as the code keeps it: a document that is
\* unloaded, other than by a crash, is in the row, unless somebody else has
\* written the row since, or is the text of a save that is on the wire.
UnloadKeepsText ==
  Live /\ current' = NoEntry /\ crashes' = crashes =>
    \/ rowSeenBy = current => row.json = entry[current].doc
    \/ /\ entry'[current].phase = "gone"
       /\ entry'[current].save.stage = "sent"
       /\ entry'[current].save.doc = entry[current].doc

\* No unload leaves text behind that is neither stored nor about to be.
UnloadIsSavedOrSaving == [][UnloadKeepsText]_vars

\* yjs-doc.service.ts:296-297: an entry is unloaded only when no edit is left,
\* and one whose write failed stays in memory and is retried.  With no other
\* writer of the row, the text in the row at that moment is the document.
UnloadOnlyWhenSaved ==
  [][ Live /\ current' = NoEntry /\ crashes' = crashes =>
        row.json = entry[current].doc ]_vars

\* The edit is in nothing but a save of an entry that has been unloaded, and the
\* database may yet fail it: nobody would save it again (run early_unload).
LeftToOneWrite(x) ==
  failures < MaxFailures /\ \E i \in Incarnations :
    /\ entry[i].phase = "gone" /\ entry[i].save.stage = "sent"
    /\ x \in entry[i].save.doc

\* What a live document has that is not saved reaches the row, whatever save fails
\* and whoever leaves, unless an early unload leaves it to one write that can
\* fail.  Once the database fails no more, every unsaved edit reaches the row.
UnsavedEditReachesRow ==
  \A x \in Edits :
    Live /\ entry[current].dirty /\ x \in entry[current].doc
      ~> x \in row.json \/ LeftToOneWrite(x)

\* A document nobody holds leaves memory once the database answers again.
IdleDocIsUnloaded ==
  Live /\ entry[current].refs = 0 ~> ~Live \/ entry[current].refs > 0
=============================================================================
