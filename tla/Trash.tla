--------------------------------- MODULE Trash ---------------------------------
(* The life of a page and of its files: pages.service.ts (delete, restore,    *)
(* hardDelete, emptyTrash, hardDeleteExpired), pages-trash, attachments.      *)
(*                                                                           *)
(* A file is a row in the database, an object in S3 and a tag on the object: *)
(* S3 drops by itself what is tagged pending for a day.  Nothing spans the   *)
(* two stores, so every step below can be the last one of its request.       *)
EXTENDS Naturals, FiniteSets

CONSTANTS
  PageIds, Files, None, Requests,
  PageOf,       \* the page each file is uploaded for
  Broken,       \* files S3 refuses to delete
  MaxStarted,   \* bound on requests
  MaxUploads,   \* bound on uploads
  MaxFailures   \* bound on errors of S3 and on deaths

TrashAssumption ==
  /\ PageOf \in [Files -> PageIds] /\ Broken \subseteq Files
  /\ MaxStarted \in Nat /\ MaxUploads \in Nat /\ MaxFailures \in Nat
  /\ None \notin PageIds \cup Files

VARIABLES
  life,      \* a page: no row yet, in use, in the trash, there too long, deleted
  row,       \* attachments.status; "none" and "gone": no row yet, and no more
  object,    \* the tag of the object in S3, "none" without an object
  good,      \* the file in S3 has the size and type that were announced
  url,       \* files whose upload URL is still valid
  run, started, uploads, failures,
  \* History: files uploaded again once confirmed; pages a deletion of whose files
  \* has begun; files that were being presigned, uploaded or confirmed meanwhile;
  \* pages that went with their project.
  again, begun, late, cascaded

data == <<life, row, object, good, url>>
counts == <<started, uploads, failures>>
history == <<again, begun, late, cascaded>>
vars == <<data, run, counts, history>>

Idle == [pc |-> "idle", page |-> None, file |-> None, keys |-> {}, list |-> {},
         purge |-> FALSE]

Run == [pc : {"idle", "presign", "head", "validate", "cleanup", "unrow", "tags",
              "setTags", "mark", "trash", "restore", "next", "keys", "object", "row"},
        page : PageIds \cup {None}, file : Files \cup {None},
        keys : SUBSET Files, list : SUBSET PageIds, purge : BOOLEAN]

TypeOK ==
  /\ life \in [PageIds -> {"live", "trash", "old", "gone"}]
  /\ row \in [Files -> {"none", "pending", "confirmed", "gone"}]
  /\ object \in [Files -> {"none", "pending", "confirmed"}]
  /\ good \in [Files -> BOOLEAN] /\ url \in SUBSET Files
  /\ run \in [Requests -> Run]
  /\ started \in 0..MaxStarted /\ uploads \in 0..MaxUploads
  /\ failures \in 0..MaxFailures
  /\ again \in SUBSET Files /\ late \in SUBSET Files
  /\ \A s \in {begun, cascaded} : s \in SUBSET PageIds

\* Some files have been presigned already, and have not been uploaded.
Init ==
  /\ life = [p \in PageIds |-> "live"]
  /\ row \in [Files -> {"none", "pending"}] /\ url = {f \in Files : row[f] = "pending"}
  /\ object = [f \in Files |-> "none"] /\ good = [f \in Files |-> TRUE]
  /\ run = [r \in Requests |-> Idle]
  /\ started = 0 /\ uploads = 0 /\ failures = 0
  /\ again = {} /\ begun = {} /\ late = {} /\ cascaded = {}

At(r, pc) == run[r].pc = pc
Goes(r, pc) == run' = [run EXCEPT ![r].pc = pc]
Ends(r) == run' = [run EXCEPT ![r] = Idle]
Starts(r, fields) ==
  /\ At(r, "idle") /\ started < MaxStarted
  /\ started' = started + 1
  /\ run' = [run EXCEPT ![r] = fields]
Fails == failures < MaxFailures /\ failures' = failures + 1

InTrash(p) == life[p] \in {"trash", "old"}
HasRow(f) == row[f] \in {"pending", "confirmed"}
\* The deletion of the files of p is under way, or began once.
Late(f) == IF PageOf[f] \in begun THEN late \cup {f} ELSE late

-----------------------------------------------------------------------------
(* Upload of a file: presign, PUT to S3, confirm                            *)

PresignAsked(r, f) ==
  /\ life[PageOf[f]] = "live" /\ row[f] = "none"
  /\ \A q \in Requests : run[q].file # f
  /\ Starts(r, [Idle EXCEPT !.pc = "presign", !.file = f])
  /\ UNCHANGED <<data, uploads, failures, history>>

\* attachmentsRepository.create, then the answer with the URL; without the page
\* a 400 of the foreign key.
Presigns(r) ==
  LET f == run[r].file IN
  /\ At(r, "presign") /\ Ends(r)
  /\ IF life[PageOf[f]] = "gone" THEN UNCHANGED <<row, url, late>>
     ELSE /\ row' = [row EXCEPT ![f] = "pending"]
          /\ url' = url \cup {f} /\ late' = Late(f)
  /\ UNCHANGED <<life, object, good, counts, again, begun, cascaded>>

\* The client puts the file, perhaps twice; the URL is signed for the tag pending.
Uploads(f, b) ==
  /\ f \in url /\ uploads < MaxUploads
  /\ uploads' = uploads + 1
  /\ object' = [object EXCEPT ![f] = "pending"]
  /\ good' = [good EXCEPT ![f] = b]
  /\ again' = IF object[f] = "confirmed" \/ (\E r \in Requests : run[r].file = f)
              THEN again \cup {f} ELSE again
  /\ late' = Late(f)
  /\ UNCHANGED <<life, row, url, run, started, failures, begun, cascaded>>

UrlExpires(f) ==
  /\ f \in url /\ url' = url \ {f}
  /\ UNCHANGED <<life, row, object, good, run, counts, history>>

\* The rule of the bucket: what is tagged pending goes after a day.
S3Expires(f) ==
  /\ object[f] = "pending" /\ f \notin url
  /\ object' = [object EXCEPT ![f] = "none"]
  /\ UNCHANGED <<life, row, good, url, run, counts, history>>

\* The row is there, pending, and the uploader's.
ConfirmAsked(r, f) ==
  /\ row[f] = "pending" /\ Starts(r, [Idle EXCEPT !.pc = "head", !.file = f])
  /\ late' = Late(f)
  /\ UNCHANGED <<data, uploads, failures, again, begun, cascaded>>

\* getObjectInfo, validateStoredFile
ConfirmHeads(r) ==
  LET f == run[r].file IN
  /\ At(r, "head")
  /\ IF object[f] = "none" THEN Ends(r)
     ELSE Goes(r, IF good[f] THEN "tags" ELSE "cleanup")
  /\ UNCHANGED <<data, counts, history>>

\* cleanupRejectedUpload: the object, then the row.
CleansUpObject(r) ==
  /\ At(r, "cleanup") /\ Goes(r, "unrow")
  /\ object' = [object EXCEPT ![run[r].file] = "none"]
  /\ UNCHANGED <<life, row, good, url, counts, history>>

CleansUpRow(r) ==
  /\ At(r, "unrow") /\ Ends(r)
  /\ row' = [row EXCEPT ![run[r].file] = "gone"]
  /\ UNCHANGED <<life, object, good, url, counts, history>>

\* updateTags reads the tags, then writes them; without an object an error.
ReadsTags(r) ==
  /\ At(r, "tags")
  /\ IF object[run[r].file] = "none" THEN Ends(r) ELSE Goes(r, "setTags")
  /\ UNCHANGED <<data, counts, history>>

\* Variant: the row is marked whatever became of the object.
SetsTagsAnyway(r) ==
  LET f == run[r].file IN
  /\ At(r, "setTags") /\ Goes(r, "mark")
  /\ object' = IF object[f] = "none" THEN object ELSE [object EXCEPT ![f] = "confirmed"]
  /\ UNCHANGED <<life, row, good, url, counts, history>>

SetsTags(r) ==
  LET f == run[r].file IN
  /\ At(r, "setTags")
  /\ IF object[f] = "none" THEN Ends(r) /\ UNCHANGED object
     ELSE Goes(r, "mark") /\ object' = [object EXCEPT ![f] = "confirmed"]
  /\ UNCHANGED <<life, row, good, url, counts, history>>

\* markConfirmed; a row that went meanwhile is a 404, and its object stays.
Marks(r) ==
  LET f == run[r].file IN
  /\ At(r, "mark") /\ Ends(r)
  /\ row' = IF HasRow(f) THEN [row EXCEPT ![f] = "confirmed"] ELSE row
  /\ UNCHANGED <<life, object, good, url, counts, history>>

-----------------------------------------------------------------------------
(* Trash and restore                                                        *)

TrashAsked(r, p) ==
  /\ life[p] = "live" /\ Starts(r, [Idle EXCEPT !.pc = "trash", !.page = p])
  /\ UNCHANGED <<data, uploads, failures, history>>

SoftDeletes(r) ==
  LET p == run[r].page IN
  /\ At(r, "trash") /\ Ends(r)
  /\ life' = IF life[p] = "live" THEN [life EXCEPT ![p] = "trash"] ELSE life
  /\ UNCHANGED <<row, object, good, url, counts, history>>

RestoreAsked(r, p) ==
  /\ life[p] # "gone" /\ Starts(r, [Idle EXCEPT !.pc = "restore", !.page = p])
  /\ UNCHANGED <<data, uploads, failures, history>>

Restores(r) ==
  LET p == run[r].page IN
  /\ At(r, "restore") /\ Ends(r)
  /\ life' = IF InTrash(p) THEN [life EXCEPT ![p] = "live"] ELSE life
  /\ UNCHANGED <<row, object, good, url, counts, history>>

\* Thirty days in the trash.
GrowsOld(p) ==
  /\ life[p] = "trash" /\ life' = [life EXCEPT ![p] = "old"]
  /\ UNCHANGED <<row, object, good, url, run, counts, history>>

-----------------------------------------------------------------------------
(* hardDelete, emptyTrash and the nightly purge                             *)

\* findDeletableById finds pages in use as well.
HardDeleteAsked(r, p) ==
  /\ life[p] # "gone" /\ Starts(r, [Idle EXCEPT !.pc = "keys", !.page = p])
  /\ UNCHANGED <<data, uploads, failures, history>>

\* findTrashedForPurge
EmptyTrashAsked(r) ==
  /\ Starts(r, [Idle EXCEPT !.pc = "next", !.purge = TRUE,
                            !.list = {p \in PageIds : InTrash(p)}])
  /\ UNCHANGED <<data, uploads, failures, history>>

\* findExpiredTrashed; the scheduler starts it every night.
NightlyPurge(r) ==
  /\ At(r, "idle") /\ \E p \in PageIds : life[p] = "old"
  /\ run' = [run EXCEPT ![r] = [Idle EXCEPT !.pc = "next", !.purge = TRUE,
                                            !.list = {p \in PageIds : life[p] = "old"}]]
  /\ UNCHANGED <<data, counts, history>>

PurgesNext(r) ==
  /\ At(r, "next")
  /\ IF run[r].list = {} THEN Ends(r)
     ELSE \E p \in run[r].list :
            run' = [run EXCEPT ![r].pc = "keys", ![r].page = p, ![r].list = @ \ {p}]
  /\ UNCHANGED <<data, counts, history>>

\* findAttachmentKeys
KeysOf(p) == {f \in Files : PageOf[f] = p /\ HasRow(f)}

ReadsKeys(r) ==
  LET p == run[r].page IN
  /\ At(r, "keys")
  /\ run' = [run EXCEPT ![r].pc = "object", ![r].keys = KeysOf(p)]
  /\ begun' = begun \cup {p}
  /\ late' = late \cup {f \in Files : PageOf[f] = p /\ \E q \in Requests : run[q].file = f}
  /\ UNCHANGED <<data, counts, again, cascaded>>

\* Variant: the first page that fails ends the purge.
AfterFailureStop(r) == [run EXCEPT ![r] = Idle]

\* tryHardDelete goes on with the next page, hardDelete throws.
AfterFailure(r) ==
  IF run[r].purge THEN [run EXCEPT ![r].pc = "next", ![r].page = None, ![r].keys = {}]
  ELSE [run EXCEPT ![r] = Idle]

\* deleteObject, one key after the other
DeletesObject(r) ==
  /\ At(r, "object")
  /\ IF run[r].keys = {} THEN Goes(r, "row") /\ UNCHANGED object
     ELSE \E f \in run[r].keys :
            IF f \in Broken THEN run' = AfterFailure(r) /\ UNCHANGED object
            ELSE /\ object' = [object EXCEPT ![f] = "none"]
                 /\ run' = [run EXCEPT ![r].keys = @ \ {f}]
  /\ UNCHANGED <<life, row, good, url, counts, history>>

\* The rows of the files go with the page's.  The page need not be in the trash.
DeletesRow(r) ==
  LET p == run[r].page IN
  /\ At(r, "row")
  /\ life' = [life EXCEPT ![p] = "gone"]
  /\ row' = [f \in Files |-> IF PageOf[f] = p /\ HasRow(f) THEN "gone" ELSE row[f]]
  /\ run' = IF run[r].purge
              THEN [run EXCEPT ![r].pc = "next", ![r].page = None] ELSE [run EXCEPT ![r] = Idle]
  /\ UNCHANGED <<object, good, url, counts, history>>

\* The deletion of the project takes its pages and the rows of their files.
ProjectGoes(p) ==
  /\ life[p] # "gone" /\ cascaded' = cascaded \cup {p}
  /\ life' = [life EXCEPT ![p] = "gone"]
  /\ row' = [f \in Files |-> IF PageOf[f] = p /\ HasRow(f) THEN "gone" ELSE row[f]]
  /\ UNCHANGED <<object, good, url, run, counts, again, begun, late>>

-----------------------------------------------------------------------------
(* Errors                                                                   *)

S3Fails(r) ==
  /\ run[r].pc \in {"head", "cleanup", "tags", "setTags", "object"} /\ Fails
  /\ run' = IF At(r, "object") THEN AfterFailure(r) ELSE [run EXCEPT ![r] = Idle]
  /\ UNCHANGED <<data, started, uploads, history>>

Dies(r) ==
  /\ ~At(r, "idle") /\ Fails /\ Ends(r)
  /\ UNCHANGED <<data, started, uploads, history>>

Works(r) ==
  \/ PurgesNext(r) \/ ReadsKeys(r) \/ DeletesObject(r) \/ DeletesRow(r)
  \/ SoftDeletes(r) \/ Restores(r) \/ Presigns(r) \/ ConfirmHeads(r)
  \/ CleansUpObject(r) \/ CleansUpRow(r) \/ ReadsTags(r) \/ SetsTags(r) \/ Marks(r)

Next ==
  \/ \E r \in Requests :
       \/ \E f \in Files : PresignAsked(r, f) \/ ConfirmAsked(r, f)
       \/ \E p \in PageIds : TrashAsked(r, p) \/ RestoreAsked(r, p) \/ HardDeleteAsked(r, p)
       \/ EmptyTrashAsked(r) \/ NightlyPurge(r)
       \/ Works(r) \/ S3Fails(r) \/ Dies(r)
  \/ \E f \in Files, b \in BOOLEAN : Uploads(f, b)
  \/ \E f \in Files : UrlExpires(f) \/ S3Expires(f)
  \/ \E p \in PageIds : GrowsOld(p) \/ ProjectGoes(p)

Spec == Init /\ [][Next]_vars

\* Requests go on, and the queue starts the purge every night.
Fairness == \A r \in Requests : WF_vars(Works(r)) /\ SF_vars(NightlyPurge(r))

LiveSpec == Spec /\ Fairness

-----------------------------------------------------------------------------
(* Properties                                                               *)

\* No file stays in S3 for good once its page is deleted, whichever of its steps
\* the deletion was cut off at, unless the file was on its way when the deletion
\* read the keys, the client put it again while a confirm of it was under way
\* (another confirm may drop the row, and the tag is set all the same), or the
\* page went with its project, which deletes no files.
NoFileOutlivesItsPage ==
  \A f \in Files :
    life[PageOf[f]] = "gone" /\ object[f] = "confirmed"
      => f \in late \cup again \/ PageOf[f] \in cascaded

\* A confirmed file of a page is in S3, and will stay there, unless a deletion of
\* the page has begun or the client used the URL again after confirm.
ConfirmedFileStays ==
  \A f \in Files :
    row[f] = "confirmed" =>
      object[f] = "confirmed" \/ PageOf[f] \in begun \/ f \in again

\* pages.md: emptying the trash deletes "all the deleted pages" of the workspace,
\* so a page that was restored before its turn came is not deleted by it.
RestoredPageStays ==
  [][\A p \in PageIds, r \in Requests :
       run[r].purge /\ run[r].page = p /\ life[p] = "live" /\ At(r, "row")
         /\ run'[r].pc = "next" => life'[p] # "gone"]_vars

\* A page that has been long enough in the trash is deleted, or restored, even if
\* S3 refuses to delete the files of another one.
OldTrashIsPurged ==
  \A p \in PageIds :
    (\A f \in Broken : PageOf[f] # p) => life[p] = "old" ~> life[p] # "old"
=============================================================================
