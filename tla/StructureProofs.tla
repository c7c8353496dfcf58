---------------------------- MODULE StructureProofs ----------------------------
(* What always holds of the structure of a workspace, for any number of      *)
(* pages, projects, files and requests.                                      *)
EXTENDS MCStructure, Integers, Sequences, FiniteSets, FiniteSetTheorems, WellFoundedInduction, TLAPS

-----------------------------------------------------------------------------
(* Trash: a file is on its way, or confirmed with its row, or is excused.    *)

FilePcs == {"presign", "head", "validate", "cleanup", "unrow", "tags", "setTags", "mark"}

TsRequest ==
  [pc : {"idle", "presign", "head", "validate", "cleanup", "unrow", "tags", "setTags",
         "mark", "trash", "restore", "next", "keys", "object", "row"},
   page : FilePages \cup {None}, file : Files \cup {None}, keys : SUBSET Files,
   list : SUBSET FilePages, purge : BOOLEAN]

\* A deletion that has read its keys has begun, and they are keys of its page.
KnowsItsPage(q) ==
  /\ q.pc \in FilePcs => q.file \in Files
  /\ q.pc \in {"keys", "object", "row"} => q.page \in FilePages
  /\ q.pc \in {"object", "row"} =>
       q.page \in begun /\ q.keys \subseteq {f \in Files : PageOf[f] = q.page}
  /\ q.pc = "row" => q.keys = {}

\* A deletion is not to be blamed for the file.
Excused(f) == f \in late \cup again \/ PageOf[f] \in cascaded

\* A confirm of f works on what it has seen, unless the file was put again.
ConfirmFits(f, q) ==
  /\ PageOf[f] \in begun => f \in late
  /\ Ts!HasRow(f) \/ Excused(f) \/ object[f] = "none"
  /\ q.pc \in {"tags", "setTags", "mark"} => good[f] = TRUE \/ f \in again
  /\ q.pc = "cleanup" => good[f] = FALSE \/ f \in again
  /\ q.pc = "unrow" => object[f] = "none" \/ f \in again
  /\ q.pc = "mark" => object[f] = "confirmed" \/ PageOf[f] \in begun \/ f \in again

FileFits(f) ==
  /\ object[f] = "confirmed" =>
       /\ good[f] = TRUE \/ f \in again
       /\ Ts!HasRow(f) \/ Excused(f)
       /\ life[PageOf[f]] = "gone" => Excused(f)
  /\ row[f] = "confirmed" =>
       object[f] = "confirmed" \/ PageOf[f] \in begun \/ f \in again
  /\ \A r \in Requests :
       /\ trashRun[r].file = f /\ trashRun[r].pc # "presign" => ConfirmFits(f, trashRun[r])
       /\ trashRun[r].pc \in {"object", "row"} /\ trashRun[r].page = PageOf[f]
            /\ object[f] = "confirmed" => f \in trashRun[r].keys \/ Excused(f)

TsInv ==
  /\ Ts!TypeOK
  /\ \A r \in Requests : KnowsItsPage(trashRun[r])
  /\ \A p \in FilePages : life[p] = "gone" => p \in begun \cup cascaded
  /\ \A f \in Files : FileFits(f)

LEMMA TsConstants ==
  /\ PageOf \in [Files -> FilePages] /\ None \notin FilePages \cup Files
  /\ MaxTrashRequests \in Nat /\ MaxUploads \in Nat /\ MaxFailures \in Nat
BY StructureAssumption DEF Ts!TrashAssumption

LEMMA TsRun == Ts!Run = TsRequest
BY DEF Ts!Run, TsRequest

LEMMA TsTyped ==
  Ts!TypeOK <=>
    /\ life \in [FilePages -> {"live", "trash", "old", "gone"}]
    /\ row \in [Files -> {"none", "pending", "confirmed", "gone"}]
    /\ object \in [Files -> {"none", "pending", "confirmed"}]
    /\ good \in [Files -> BOOLEAN] /\ url \in SUBSET Files
    /\ trashRun \in [Requests -> TsRequest]
    /\ trashStarted \in 0..MaxTrashRequests /\ uploads \in 0..MaxUploads
    /\ failures \in 0..MaxFailures
    /\ again \in SUBSET Files /\ late \in SUBSET Files
    /\ begun \in SUBSET FilePages /\ cascaded \in SUBSET FilePages
<1>1. (\A s \in {begun, cascaded} : s \in SUBSET FilePages)
        <=> begun \in SUBSET FilePages /\ cascaded \in SUBSET FilePages
  OBVIOUS
<1> QED
  BY <1>1, TsRun DEF Ts!TypeOK

LEMMA TsIdle ==
  /\ Ts!Idle \in TsRequest /\ KnowsItsPage(Ts!Idle)
  /\ Ts!Idle.pc = "idle" /\ Ts!Idle.file = None
BY DEF Ts!Idle, TsRequest, KnowsItsPage, FilePcs

LEMMA TsInitHolds == Ts!Init => TsInv
<1> SUFFICES ASSUME Ts!Init PROVE TsInv
  OBVIOUS
<1>1. Ts!TypeOK
  <2>1. /\ trashStarted \in 0..MaxTrashRequests /\ uploads \in 0..MaxUploads
        /\ failures \in 0..MaxFailures
    BY TsConstants DEF Ts!Init
  <2>2. trashRun \in [Requests -> TsRequest]
    BY TsIdle DEF Ts!Init
  <2>3. row \in [Files -> {"none", "pending", "confirmed", "gone"}]
    BY DEF Ts!Init
  <2> QED
    BY <2>1, <2>2, <2>3, TsTyped DEF Ts!Init
<1>2. \A r \in Requests : trashRun[r] = Ts!Idle
  BY DEF Ts!Init
<1>3. \A f \in Files : object[f] = "none" /\ row[f] # "confirmed" /\ f # None
  BY TsConstants DEF Ts!Init
<1>4. \A p \in FilePages : life[p] = "live"
  BY DEF Ts!Init
<1> QED
  BY <1>1, <1>2, <1>3, <1>4, TsIdle DEF TsInv, FileFits

-----------------------------------------------------------------------------
(* Steps                                                                    *)

\* One request goes on and nothing is written.
LEMMA RunMoves ==
  ASSUME TsInv, NEW r \in Requests, NEW q \in TsRequest, KnowsItsPage(q),
         \A f \in Files : q.file = f /\ q.pc # "presign" => ConfirmFits(f, q),
         \A f \in Files : q.pc \in {"object", "row"} /\ q.page = PageOf[f]
                            /\ object[f] = "confirmed" => f \in q.keys \/ Excused(f),
         trashRun' = [trashRun EXCEPT ![r] = q],
         trashStarted' \in 0..MaxTrashRequests, failures' \in 0..MaxFailures,
         UNCHANGED <<life, row, object, good, url, uploads, again, begun, late, cascaded>>
  PROVE  TsInv'
<1>1. trashRun \in [Requests -> TsRequest] /\ Ts!TypeOK
  BY TsTyped DEF TsInv
<1>2. trashRun'[r] = q /\ \A o \in Requests \ {r} : trashRun'[o] = trashRun[o]
  BY <1>1
<1>3. Ts!TypeOK'
  <2>1. trashRun' \in [Requests -> TsRequest]
    BY <1>1
  <2> QED
    BY <1>1, <2>1, TsRun DEF Ts!TypeOK
<1>4. \A o \in Requests : KnowsItsPage(trashRun[o])'
  BY <1>2 DEF TsInv, KnowsItsPage
<1>5. \A p \in FilePages : life'[p] = "gone" => p \in begun' \cup cascaded'
  BY DEF TsInv
<1>6. ASSUME NEW f \in Files PROVE FileFits(f)'
  <2>1. FileFits(f) /\ (Excused(f)' <=> Excused(f)) /\ (Ts!HasRow(f)' <=> Ts!HasRow(f))
    BY DEF TsInv, Excused, Ts!HasRow
  <2>2. ASSUME NEW o \in Requests, trashRun'[o].file = f, trashRun'[o].pc # "presign"
        PROVE  ConfirmFits(f, trashRun[o])'
    <3>1. ConfirmFits(f, trashRun'[o])
      BY <1>2, <2>1, <2>2 DEF FileFits
    <3> QED
      BY <2>1, <3>1 DEF ConfirmFits
  <2>3. ASSUME NEW o \in Requests, trashRun'[o].pc \in {"object", "row"},
               trashRun'[o].page = PageOf[f], object[f] = "confirmed"
        PROVE  f \in trashRun'[o].keys \/ Excused(f)
    BY <1>2, <2>1, <2>3 DEF FileFits
  <2> QED
    BY <2>1, <2>2, <2>3 DEF FileFits
<1> QED
  BY <1>3, <1>4, <1>5, <1>6 DEF TsInv

\* A request of a page comes, or ends.
LEMMA PageRunMoves ==
  ASSUME TsInv, NEW r \in Requests, NEW q \in TsRequest, KnowsItsPage(q),
         q.file = None, q.pc \notin {"object", "row"},
         trashRun' = [trashRun EXCEPT ![r] = q],
         trashStarted' \in 0..MaxTrashRequests, failures' \in 0..MaxFailures,
         UNCHANGED <<life, row, object, good, url, uploads, again, begun, late, cascaded>>
  PROVE  TsInv'
BY TsConstants, RunMoves

LEMMA TsStarts ==
  ASSUME TsInv, NEW r \in Requests, NEW q, Ts!Starts(r, q)
  PROVE  trashStarted' \in 0..MaxTrashRequests /\ failures \in 0..MaxFailures
         /\ trashRun' = [trashRun EXCEPT ![r] = q]
<1>1. trashStarted \in 0..MaxTrashRequests /\ MaxTrashRequests \in Nat
      /\ failures \in 0..MaxFailures
  BY TsTyped, TsConstants DEF TsInv
<1> QED
  BY <1>1 DEF Ts!Starts

LEMMA TsAsksKeeps ==
  ASSUME TsInv, NEW r \in Requests,
         \/ \E f \in Files : Ts!PresignAsked(r, f)
         \/ \E p \in FilePages :
              Ts!TrashAsked(r, p) \/ Ts!RestoreAsked(r, p) \/ Ts!HardDeleteAsked(r, p)
         \/ Ts!EmptyTrashAsked(r) \/ Ts!NightlyPurge(r)
  PROVE  TsInv'
<1>1. UNCHANGED <<life, row, object, good, url, uploads, failures, again, begun, late,
                  cascaded>>
  BY DEF Ts!PresignAsked, Ts!TrashAsked, Ts!RestoreAsked, Ts!HardDeleteAsked,
         Ts!EmptyTrashAsked, Ts!NightlyPurge, Ts!data, Ts!counts, Ts!history
<1>2. ASSUME NEW q \in TsRequest, KnowsItsPage(q), q.pc \notin {"object", "row"},
             q.pc \in FilePcs => q.pc = "presign",
             q.pc \notin FilePcs => q.file = None,
             trashStarted' \in 0..MaxTrashRequests, failures \in 0..MaxFailures,
             trashRun' = [trashRun EXCEPT ![r] = q]
      PROVE  TsInv'
  BY <1>1, <1>2, RunMoves, TsConstants
<1>3. CASE \E f \in Files : Ts!PresignAsked(r, f)
  <2>1. PICK f \in Files : Ts!Starts(r, [Ts!Idle EXCEPT !.pc = "presign", !.file = f])
    BY <1>3 DEF Ts!PresignAsked
  <2> DEFINE q == [Ts!Idle EXCEPT !.pc = "presign", !.file = f]
  <2>2. q \in TsRequest /\ KnowsItsPage(q) /\ q.pc = "presign"
    BY DEF Ts!Idle, TsRequest, KnowsItsPage, FilePcs
  <2> HIDE DEF q
  <2> QED
    BY <1>2, <2>1, <2>2, TsStarts DEF q, FilePcs
<1>4. CASE \E p \in FilePages :
             Ts!TrashAsked(r, p) \/ Ts!RestoreAsked(r, p) \/ Ts!HardDeleteAsked(r, p)
  <2>1. PICK p \in FilePages, pc \in {"trash", "restore", "keys"} :
          Ts!Starts(r, [Ts!Idle EXCEPT !.pc = pc, !.page = p])
    BY <1>4 DEF Ts!TrashAsked, Ts!RestoreAsked, Ts!HardDeleteAsked
  <2> DEFINE q == [Ts!Idle EXCEPT !.pc = pc, !.page = p]
  <2>2. q \in TsRequest /\ KnowsItsPage(q) /\ q.pc = pc /\ q.file = None
    BY DEF Ts!Idle, TsRequest, KnowsItsPage, FilePcs
  <2> HIDE DEF q
  <2> QED
    BY <1>2, <2>1, <2>2, TsStarts DEF q, FilePcs
<1>5. CASE Ts!EmptyTrashAsked(r) \/ Ts!NightlyPurge(r)
  <2>1. PICK list \in SUBSET FilePages :
          /\ trashRun' = [trashRun EXCEPT ![r] =
               [Ts!Idle EXCEPT !.pc = "next", !.purge = TRUE, !.list = list]]
          /\ trashStarted' \in 0..MaxTrashRequests /\ failures \in 0..MaxFailures
    <3>1. CASE Ts!EmptyTrashAsked(r)
      <4> DEFINE all == {p \in FilePages : Ts!InTrash(p)}
                 q == [Ts!Idle EXCEPT !.pc = "next", !.purge = TRUE, !.list = all]
      <4>1. Ts!Starts(r, q) /\ all \in SUBSET FilePages
        BY <3>1 DEF Ts!EmptyTrashAsked
      <4>2. /\ trashRun' = [trashRun EXCEPT ![r] = q]
            /\ trashStarted' \in 0..MaxTrashRequests /\ failures \in 0..MaxFailures
        <5> HIDE DEF q
        <5> QED
          BY <4>1, TsStarts
      <4> QED
        BY <4>1, <4>2
    <3>2. CASE Ts!NightlyPurge(r)
      <4> DEFINE old == {p \in FilePages : life[p] = "old"}
      <4>1. /\ trashRun' = [trashRun EXCEPT ![r] =
                 [Ts!Idle EXCEPT !.pc = "next", !.purge = TRUE, !.list = old]]
            /\ trashStarted' = trashStarted /\ old \in SUBSET FilePages
        BY <3>2 DEF Ts!NightlyPurge, Ts!counts
      <4>2. trashStarted \in 0..MaxTrashRequests /\ failures \in 0..MaxFailures
        BY TsTyped DEF TsInv
      <4> QED
        BY <4>1, <4>2
    <3> QED
      BY <1>5, <3>1, <3>2
  <2> DEFINE q == [Ts!Idle EXCEPT !.pc = "next", !.purge = TRUE, !.list = list]
  <2>2. q \in TsRequest /\ KnowsItsPage(q) /\ q.pc = "next" /\ q.file = None
    BY DEF Ts!Idle, TsRequest, KnowsItsPage, FilePcs
  <2> HIDE DEF q
  <2> QED
    BY <1>2, <2>1, <2>2 DEF q, FilePcs
<1> QED
  BY <1>3, <1>4, <1>5

\* A request ends early, or a purge leaves a page.
LEMMA TsEndsKeeps ==
  ASSUME TsInv, NEW r \in Requests,
         \/ trashRun' = [trashRun EXCEPT ![r] = Ts!Idle]
         \/ /\ trashRun[r].pc \in {"object", "row"}
            /\ trashRun' = [trashRun EXCEPT ![r].pc = "next", ![r].page = None, ![r].keys = {}],
         trashStarted' = trashStarted, failures' \in 0..MaxFailures,
         UNCHANGED <<life, row, object, good, url, uploads, again, begun, late, cascaded>>
  PROVE  TsInv'
<1>1. trashStarted \in 0..MaxTrashRequests /\ trashRun[r] \in TsRequest
  BY TsTyped DEF TsInv
<1>2. CASE trashRun' = [trashRun EXCEPT ![r] = Ts!Idle]
  BY <1>1, <1>2, TsIdle, PageRunMoves
<1>3. CASE /\ trashRun[r].pc \in {"object", "row"}
           /\ trashRun' = [trashRun EXCEPT ![r].pc = "next", ![r].page = None, ![r].keys = {}]
  <2> DEFINE q == [trashRun[r] EXCEPT !.pc = "next", !.page = None, !.keys = {}]
  <2>1. trashRun' = [trashRun EXCEPT ![r] = q]
    BY <1>3
  <2>2. q \in TsRequest /\ KnowsItsPage(q) /\ q.pc = "next" /\ q.file = trashRun[r].file
    BY <1>1 DEF TsRequest, KnowsItsPage, FilePcs
  <2>3. \A f \in Files : q.file = f => ConfirmFits(f, q)
    BY <1>3, <2>2 DEF TsInv, FileFits, ConfirmFits
  <2> HIDE DEF q
  <2> QED
    BY <1>1, <2>1, <2>2, <2>3, RunMoves
<1> QED
  BY <1>2, <1>3

\* A request reads on.
LEMMA TsReadsKeeps ==
  ASSUME TsInv, NEW r \in Requests, NEW pc,
         \/ trashRun[r].pc = "head" /\ pc = "tags" /\ good[trashRun[r].file] = TRUE
         \/ trashRun[r].pc = "head" /\ pc = "cleanup" /\ good[trashRun[r].file] = FALSE
         \/ trashRun[r].pc = "tags" /\ pc = "setTags"
         \/ trashRun[r].pc = "object" /\ pc = "row" /\ trashRun[r].keys = {},
         trashRun' = [trashRun EXCEPT ![r].pc = pc],
         UNCHANGED <<life, row, object, good, url, trashStarted, uploads, failures, again,
                     begun, late, cascaded>>
  PROVE  TsInv'
<1> DEFINE q == [trashRun[r] EXCEPT !.pc = pc]
<1>1. /\ trashStarted \in 0..MaxTrashRequests /\ failures \in 0..MaxFailures
      /\ trashRun[r] \in TsRequest /\ trashRun' = [trashRun EXCEPT ![r] = q]
      /\ KnowsItsPage(trashRun[r])
  BY TsTyped DEF TsInv
<1>2. /\ q \in TsRequest /\ q.file = trashRun[r].file /\ q.page = trashRun[r].page
      /\ q.keys = trashRun[r].keys /\ q.pc = pc
  BY <1>1 DEF TsRequest
<1>3. KnowsItsPage(q)
  BY <1>1, <1>2 DEF KnowsItsPage, FilePcs
<1>4. \A f \in Files : q.file = f /\ q.pc # "presign" => ConfirmFits(f, q)
  BY <1>2 DEF TsInv, FileFits, ConfirmFits
<1>5. \A f \in Files : q.pc \in {"object", "row"} /\ q.page = PageOf[f]
                         /\ object[f] = "confirmed" => f \in q.keys \/ Excused(f)
  BY <1>2 DEF TsInv, FileFits
<1> HIDE DEF q
<1> QED
  BY <1>1, <1>2, <1>3, <1>4, <1>5, RunMoves

LEMMA TsQuietKeeps ==
  ASSUME TsInv, NEW r \in Requests,
         \/ Ts!ConfirmHeads(r) \/ Ts!ReadsTags(r)
         \/ Ts!SetsTags(r) /\ UNCHANGED object
         \/ Ts!DeletesObject(r) /\ UNCHANGED object /\ trashRun[r].keys = {}
         \/ Ts!S3Fails(r) \/ Ts!Dies(r)
  PROVE  TsInv'
<1>1. /\ UNCHANGED <<life, row, object, good, url, trashStarted, uploads, again, begun,
                     late, cascaded>>
      /\ trashRun[r] \in TsRequest /\ KnowsItsPage(trashRun[r])
      /\ good \in [Files -> BOOLEAN] /\ failures \in 0..MaxFailures /\ MaxFailures \in Nat
  BY TsTyped, TsConstants
     DEF TsInv, Ts!ConfirmHeads, Ts!ReadsTags, Ts!SetsTags, Ts!DeletesObject, Ts!S3Fails,
         Ts!Dies, Ts!data, Ts!counts, Ts!history
<1>2. CASE Ts!ConfirmHeads(r)
  <2>1. /\ failures' = failures /\ trashRun[r].pc = "head"
        /\ \/ Ts!Ends(r)
           \/ good[trashRun[r].file] /\ Ts!Goes(r, "tags")
           \/ ~good[trashRun[r].file] /\ Ts!Goes(r, "cleanup")
    BY <1>2 DEF Ts!ConfirmHeads, Ts!At, Ts!counts
  <2>2. trashRun[r].file \in Files
    BY <1>1, <2>1 DEF KnowsItsPage, FilePcs
  <2>3. CASE Ts!Ends(r)
    BY <1>1, <2>1, <2>3, TsEndsKeeps DEF Ts!Ends
  <2>4. CASE good[trashRun[r].file] /\ Ts!Goes(r, "tags")
    <3>1. good[trashRun[r].file] = TRUE
      BY <1>1, <2>2, <2>4
    <3> QED
      BY <1>1, <2>1, <2>4, <3>1, TsReadsKeeps DEF Ts!Goes
  <2>5. CASE ~good[trashRun[r].file] /\ Ts!Goes(r, "cleanup")
    <3>1. good[trashRun[r].file] = FALSE
      BY <1>1, <2>2, <2>5
    <3> QED
      BY <1>1, <2>1, <2>5, <3>1, TsReadsKeeps DEF Ts!Goes
  <2> QED
    BY <2>1, <2>3, <2>4, <2>5
<1>3. CASE Ts!ReadsTags(r)
  <2>1. /\ failures' = failures /\ trashRun[r].pc = "tags"
        /\ Ts!Ends(r) \/ Ts!Goes(r, "setTags")
    BY <1>3 DEF Ts!ReadsTags, Ts!At, Ts!counts
  <2>2. CASE Ts!Ends(r)
    BY <1>1, <2>1, <2>2, TsEndsKeeps DEF Ts!Ends
  <2>3. CASE Ts!Goes(r, "setTags")
    BY <1>1, <2>1, <2>3, TsReadsKeeps DEF Ts!Goes
  <2> QED
    BY <2>1, <2>2, <2>3
<1>4. CASE Ts!DeletesObject(r) /\ trashRun[r].keys = {}
  <2>1. failures' = failures /\ trashRun[r].pc = "object" /\ Ts!Goes(r, "row")
    BY <1>4 DEF Ts!DeletesObject, Ts!At, Ts!counts
  <2> QED
    BY <1>1, <1>4, <2>1, TsReadsKeeps DEF Ts!Goes
<1>5. CASE Ts!SetsTags(r) /\ UNCHANGED object
  <2>1. trashRun[r].pc = "setTags" /\ trashRun[r].file \in Files /\ failures' = failures
    BY <1>1, <1>5 DEF Ts!SetsTags, Ts!At, KnowsItsPage, FilePcs, Ts!counts
  <2>2. CASE object[trashRun[r].file] = "none"
    BY <1>1, <1>5, <2>1, <2>2, TsEndsKeeps DEF Ts!SetsTags, Ts!Ends
  <2>3. CASE object[trashRun[r].file] # "none"
    <3> DEFINE q == [trashRun[r] EXCEPT !.pc = "mark"]
               f == trashRun[r].file
    <3>1. trashRun' = [trashRun EXCEPT ![r] = q] /\ object[f] = "confirmed"
      <4>1. /\ trashRun' = [trashRun EXCEPT ![r].pc = "mark"]
            /\ object' = [object EXCEPT ![f] = "confirmed"]
        BY <1>5, <2>3 DEF Ts!SetsTags, Ts!Goes
      <4> QED
        BY <1>1, <2>1, <4>1, TsTyped DEF TsInv
    <3>2. q \in TsRequest /\ KnowsItsPage(q) /\ q.pc = "mark" /\ q.file = f
      BY <1>1, <2>1 DEF TsRequest, KnowsItsPage, FilePcs
    <3>3. \A x \in Files : q.file = x => ConfirmFits(x, q)
      BY <2>1, <3>1, <3>2 DEF TsInv, FileFits, ConfirmFits
    <3>4. trashStarted \in 0..MaxTrashRequests
      BY TsTyped DEF TsInv
    <3> HIDE DEF q
    <3> QED
      BY <1>1, <2>1, <3>1, <3>2, <3>3, <3>4, RunMoves
  <2> QED
    BY <2>2, <2>3
<1>6. CASE Ts!S3Fails(r)
  <2>1. failures' \in 0..MaxFailures
    BY <1>1, <1>6 DEF Ts!S3Fails, Ts!Fails
  <2>2. CASE Ts!At(r, "object")
    <3>1. trashRun' = Ts!AfterFailure(r) /\ trashRun[r].pc = "object"
      BY <1>6, <2>2 DEF Ts!S3Fails, Ts!At
    <3> QED
      BY <1>1, <2>1, <3>1, TsEndsKeeps DEF Ts!AfterFailure
  <2>3. CASE ~Ts!At(r, "object")
    BY <1>1, <1>6, <2>1, <2>3, TsEndsKeeps DEF Ts!S3Fails
  <2> QED
    BY <2>2, <2>3
<1>7. CASE Ts!Dies(r)
  <2>1. failures' \in 0..MaxFailures /\ trashRun' = [trashRun EXCEPT ![r] = Ts!Idle]
    BY <1>1, <1>7 DEF Ts!Dies, Ts!Fails, Ts!Ends
  <2> QED
    BY <1>1, <2>1, TsEndsKeeps
<1> QED
  BY <1>2, <1>3, <1>4, <1>5, <1>6, <1>7

LEMMA TsPurgesNextKeeps ==
  ASSUME TsInv, NEW r \in Requests, Ts!PurgesNext(r)
  PROVE  TsInv'
<1>1. /\ trashRun[r] \in TsRequest /\ trashRun[r].pc = "next"
      /\ UNCHANGED <<life, row, object, good, url, trashStarted, uploads, failures, again,
                     begun, late, cascaded>>
      /\ trashStarted \in 0..MaxTrashRequests /\ failures \in 0..MaxFailures
  BY TsTyped DEF TsInv, Ts!PurgesNext, Ts!At, Ts!data, Ts!counts, Ts!history
<1>2. CASE trashRun[r].list = {}
  BY <1>1, <1>2, TsEndsKeeps DEF Ts!PurgesNext, Ts!Ends
<1>3. CASE trashRun[r].list # {}
  <2>1. PICK p \in trashRun[r].list :
          trashRun' = [trashRun EXCEPT ![r].pc = "keys", ![r].page = p, ![r].list = @ \ {p}]
    BY <1>3 DEF Ts!PurgesNext
  <2> DEFINE q == [trashRun[r] EXCEPT !.pc = "keys", !.page = p, !.list = @ \ {p}]
  <2>2. p \in FilePages
    BY <1>1 DEF TsRequest
  <2>3. q \in TsRequest /\ KnowsItsPage(q) /\ q.pc = "keys" /\ q.file = trashRun[r].file
    BY <1>1, <2>2 DEF TsRequest, KnowsItsPage, FilePcs
  <2>4. \A f \in Files : q.file = f => ConfirmFits(f, q)
    BY <1>1, <2>3 DEF TsInv, FileFits, ConfirmFits
  <2>5. trashRun' = [trashRun EXCEPT ![r] = q]
    BY <2>1
  <2> HIDE DEF q
  <2> QED
    BY <1>1, <2>3, <2>4, <2>5, RunMoves
<1> QED
  BY <1>2, <1>3

-----------------------------------------------------------------------------
(* Steps that write                                                         *)

\* What a step writes leaves the other requests alone.
OthersStand(r) == \A o \in Requests \ {r} : trashRun'[o] = trashRun[o]

LEMMA TsPresignsKeeps ==
  ASSUME TsInv, NEW r \in Requests, Ts!Presigns(r)
  PROVE  TsInv'
<1> DEFINE g == trashRun[r].file
<1>1. /\ Ts!TypeOK /\ trashRun \in [Requests -> TsRequest] /\ g \in Files
      /\ trashRun' = [trashRun EXCEPT ![r] = Ts!Idle]
      /\ UNCHANGED <<life, object, good, trashStarted, uploads, failures, again, begun, cascaded>>
  BY TsTyped DEF TsInv, KnowsItsPage, FilePcs, Ts!Presigns, Ts!At, Ts!Ends, Ts!counts
<1>2. CASE UNCHANGED <<row, url, late>>
  BY <1>1, <1>2, TsEndsKeeps, TsTyped
<1>3. CASE /\ row' = [row EXCEPT ![g] = "pending"] /\ url' = url \cup {g}
           /\ late' = Ts!Late(g)
  <2>1. trashRun'[r] = Ts!Idle /\ OthersStand(r)
    BY <1>1 DEF OthersStand
  <2>2. late \subseteq late' /\ late' \in SUBSET Files
    BY <1>1, <1>3, TsTyped DEF Ts!Late
  <2>3. /\ row' \in [Files -> {"none", "pending", "confirmed", "gone"}]
        /\ row'[g] = "pending" /\ \A f \in Files \ {g} : row'[f] = row[f]
    BY <1>1, <1>3, TsTyped
  <2>4. Ts!TypeOK'
    <3>1. trashRun' \in [Requests -> TsRequest] /\ url' \in SUBSET Files
      BY <1>1, <1>3, TsIdle, TsTyped
    <3> QED
      BY <1>1, <2>2, <2>3, <3>1, TsRun DEF Ts!TypeOK
  <2>5. \A o \in Requests : KnowsItsPage(trashRun[o])'
    BY <1>1, <2>1, TsIdle DEF TsInv, KnowsItsPage, OthersStand
  <2>6. \A p \in FilePages : life'[p] = "gone" => p \in begun' \cup cascaded'
    BY <1>1 DEF TsInv
  <2>7. ASSUME NEW f \in Files PROVE FileFits(f)'
    <3>1. /\ FileFits(f)
          /\ Excused(f) => Excused(f)'
          /\ Ts!HasRow(f) => Ts!HasRow(f)'
      BY <1>1, <2>2, <2>3 DEF TsInv, Excused, Ts!HasRow
    <3>2. row'[f] = "confirmed" => row[f] = "confirmed"
      BY <2>3
    <3>3. \A o \in Requests : trashRun'[o].file = f => o # r
      BY <2>1, TsIdle, TsConstants
    <3>4. \A o \in Requests : trashRun'[o].pc \in {"object", "row"} => o # r
      BY <2>1, TsIdle
    <3> QED
      BY <1>1, <2>1, <2>2, <3>1, <3>2, <3>3, <3>4 DEF FileFits, ConfirmFits, OthersStand
  <2> QED
    BY <2>4, <2>5, <2>6, <2>7 DEF TsInv
<1> QED
  BY <1>2, <1>3 DEF Ts!Presigns

LEMMA TsUploadsKeeps ==
  ASSUME TsInv, NEW g \in Files, NEW b \in BOOLEAN, Ts!Uploads(g, b)
  PROVE  TsInv'
<1>1. /\ Ts!TypeOK /\ uploads < MaxUploads /\ uploads' = uploads + 1
      /\ object' = [object EXCEPT ![g] = "pending"] /\ good' = [good EXCEPT ![g] = b]
      /\ late' = Ts!Late(g)
      /\ UNCHANGED <<life, row, url, trashRun, trashStarted, failures, begun, cascaded>>
  BY DEF TsInv, Ts!Uploads
<1>2. /\ again \subseteq again' /\ again' \in SUBSET Files
      /\ object[g] = "confirmed" => g \in again'
      /\ \A r \in Requests : trashRun[r].file = g => g \in again'
  BY <1>1, TsTyped DEF Ts!Uploads
<1>3. late \subseteq late' /\ late' \in SUBSET Files
  BY <1>1, TsTyped DEF Ts!Late
<1>4. /\ object' \in [Files -> {"none", "pending", "confirmed"}]
      /\ object'[g] = "pending"
      /\ \A f \in Files \ {g} : object'[f] = object[f] /\ good'[f] = good[f]
  BY <1>1, TsTyped
<1>5. Ts!TypeOK'
  <2>1. good' \in [Files -> BOOLEAN]
    BY <1>1, TsTyped
  <2>2. uploads' \in 0..MaxUploads
    BY <1>1, TsTyped, TsConstants
  <2> QED
    BY <1>1, <1>2, <1>3, <1>4, <2>1, <2>2, TsRun DEF Ts!TypeOK
<1>6. \A o \in Requests : KnowsItsPage(trashRun[o])'
  BY <1>1 DEF TsInv, KnowsItsPage
<1>7. \A p \in FilePages : life'[p] = "gone" => p \in begun' \cup cascaded'
  BY <1>1 DEF TsInv
<1>8. ASSUME NEW f \in Files PROVE FileFits(f)'
  <2>1. /\ FileFits(f)
        /\ Excused(f) => Excused(f)'
        /\ Ts!HasRow(f)' <=> Ts!HasRow(f)
    BY <1>1, <1>2, <1>3 DEF TsInv, Excused, Ts!HasRow
  <2>2. CASE f # g
    BY <1>1, <1>2, <1>3, <1>4, <2>1, <2>2 DEF FileFits, ConfirmFits
  <2>3. CASE f = g
    <3>1. ASSUME NEW o \in Requests, trashRun[o].file = f, trashRun[o].pc # "presign"
          PROVE  ConfirmFits(f, trashRun[o])'
      BY <1>1, <1>2, <1>3, <2>1, <2>3, <3>1 DEF FileFits, ConfirmFits, Excused
    <3>2. row'[f] = "confirmed" => PageOf[f] \in begun' \/ f \in again'
      BY <1>1, <1>2, <2>1, <2>3 DEF FileFits
    <3> QED
      BY <1>1, <1>4, <2>3, <3>1, <3>2 DEF FileFits
  <2> QED
    BY <2>2, <2>3
<1> QED
  BY <1>5, <1>6, <1>7, <1>8 DEF TsInv

\* A URL expires, S3 drops what is pending.
LEMMA TsExpiresKeeps ==
  ASSUME TsInv, NEW g \in Files, Ts!UrlExpires(g) \/ Ts!S3Expires(g)
  PROVE  TsInv'
<1>1. /\ Ts!TypeOK /\ url' \in SUBSET Files
      /\ UNCHANGED <<life, row, good, trashRun, trashStarted, uploads, failures, again,
                     begun, late, cascaded>>
      /\ \/ object' = object
         \/ /\ object[g] = "pending"
            /\ object' = [object EXCEPT ![g] = "none"]
  BY TsTyped DEF TsInv, Ts!UrlExpires, Ts!S3Expires, Ts!counts, Ts!history
<1>2. /\ object' \in [Files -> {"none", "pending", "confirmed"}]
      /\ \A f \in Files : \/ object'[f] = object[f]
                          \/ (object[f] = "pending" /\ object'[f] = "none")
  BY <1>1, TsTyped
<1>3. Ts!TypeOK'
  BY <1>1, <1>2, TsRun DEF Ts!TypeOK
<1>4. \A o \in Requests : KnowsItsPage(trashRun[o])'
  BY <1>1 DEF TsInv, KnowsItsPage
<1>5. \A p \in FilePages : life'[p] = "gone" => p \in begun' \cup cascaded'
  BY <1>1 DEF TsInv
<1>6. ASSUME NEW f \in Files PROVE FileFits(f)'
  <2>1. FileFits(f) /\ (Excused(f)' <=> Excused(f)) /\ (Ts!HasRow(f)' <=> Ts!HasRow(f))
    BY <1>1 DEF TsInv, Excused, Ts!HasRow
  <2> QED
    BY <1>1, <1>2, <2>1 DEF FileFits, ConfirmFits
<1> QED
  BY <1>3, <1>4, <1>5, <1>6 DEF TsInv

LEMMA TsConfirmAskedKeeps ==
  ASSUME TsInv, NEW r \in Requests, NEW g \in Files, Ts!ConfirmAsked(r, g)
  PROVE  TsInv'
<1> DEFINE q == [Ts!Idle EXCEPT !.pc = "head", !.file = g]
<1>1. /\ Ts!TypeOK /\ row[g] = "pending" /\ Ts!Starts(r, q) /\ late' = Ts!Late(g)
      /\ UNCHANGED <<life, row, object, good, url, uploads, failures, again, begun, cascaded>>
  BY DEF TsInv, Ts!ConfirmAsked, Ts!data
<1>2. q \in TsRequest /\ KnowsItsPage(q) /\ q.pc = "head" /\ q.file = g
  BY DEF Ts!Idle, TsRequest, KnowsItsPage, FilePcs
<1> HIDE DEF q
<1>3. /\ trashStarted' \in 0..MaxTrashRequests /\ trashRun \in [Requests -> TsRequest]
      /\ trashRun' = [trashRun EXCEPT ![r] = q]
  BY <1>1, TsStarts, TsTyped
<1>4. /\ trashRun'[r] = q /\ OthersStand(r) /\ trashRun' \in [Requests -> TsRequest]
  BY <1>2, <1>3 DEF OthersStand
<1>5. /\ late \subseteq late' /\ late' \in SUBSET Files
      /\ PageOf[g] \in begun => g \in late'
  BY <1>1, TsTyped DEF Ts!Late
<1>6. Ts!TypeOK'
  BY <1>1, <1>3, <1>4, <1>5, TsRun DEF Ts!TypeOK
<1>7. \A o \in Requests : KnowsItsPage(trashRun[o])'
  BY <1>1, <1>2, <1>4 DEF TsInv, KnowsItsPage, OthersStand
<1>8. \A p \in FilePages : life'[p] = "gone" => p \in begun' \cup cascaded'
  BY <1>1 DEF TsInv
<1>9. ASSUME NEW f \in Files PROVE FileFits(f)'
  <2>1. /\ FileFits(f)
        /\ Excused(f) => Excused(f)'
        /\ Ts!HasRow(f)' <=> Ts!HasRow(f)
    BY <1>1, <1>5 DEF TsInv, Excused, Ts!HasRow
  <2>2. ASSUME NEW o \in Requests, trashRun'[o].file = f, trashRun'[o].pc # "presign"
        PROVE  ConfirmFits(f, trashRun[o])'
    <3>1. CASE o = r
      BY <1>1, <1>2, <1>4, <1>5, <2>2, <3>1 DEF ConfirmFits, Ts!HasRow
    <3>2. CASE o # r
      BY <1>1, <1>4, <1>5, <2>1, <2>2, <3>2 DEF FileFits, ConfirmFits, OthersStand
    <3> QED
      BY <3>1, <3>2
  <2>3. ASSUME NEW o \in Requests, trashRun'[o].pc \in {"object", "row"}
        PROVE  o # r
    BY <1>2, <1>4, <2>3
  <2> QED
    BY <1>1, <1>4, <1>5, <2>1, <2>2, <2>3 DEF FileFits, OthersStand
<1> QED
  BY <1>6, <1>7, <1>8, <1>9 DEF TsInv

-----------------------------------------------------------------------------
(* Steps of a confirm that write                                            *)

\* What a step of a confirm leaves: its own request, and every other one as it was.
LEMMA TsConfirmMoves ==
  ASSUME TsInv, NEW r \in Requests, NEW pc, trashRun[r].pc \in FilePcs,
         \/ pc \in {"unrow", "mark"} /\ Ts!Goes(r, pc)
         \/ pc = "idle" /\ Ts!Ends(r)
  PROVE  /\ trashRun' \in [Requests -> TsRequest] /\ OthersStand(r)
         /\ trashRun'[r].pc = pc
         /\ pc # "idle" => trashRun'[r].file = trashRun[r].file
         /\ pc = "idle" => trashRun'[r].file = None
         /\ trashRun[r].file \in Files
         /\ ConfirmFits(trashRun[r].file, trashRun[r])
            \/ trashRun[r].pc = "presign"
         /\ begun' = begun => \A o \in Requests : KnowsItsPage(trashRun[o])'
<1>1. /\ trashRun \in [Requests -> TsRequest] /\ trashRun[r].file \in Files
      /\ ConfirmFits(trashRun[r].file, trashRun[r]) \/ trashRun[r].pc = "presign"
  BY TsTyped DEF TsInv, KnowsItsPage, FileFits
<1>2. CASE pc \in {"unrow", "mark"} /\ Ts!Goes(r, pc)
  <2> DEFINE q == [trashRun[r] EXCEPT !.pc = pc]
  <2>1. q \in TsRequest /\ q.pc = pc /\ q.file = trashRun[r].file
    BY <1>1, <1>2 DEF TsRequest
  <2>2. trashRun' = [trashRun EXCEPT ![r] = q]
    BY <1>2 DEF Ts!Goes
  <2> HIDE DEF q
  <2>3. trashRun' \in [Requests -> TsRequest] /\ trashRun'[r] = q /\ OthersStand(r)
    BY <1>1, <2>1, <2>2 DEF OthersStand
  <2>4. ASSUME begun' = begun, NEW o \in Requests PROVE KnowsItsPage(trashRun[o])'
    <3>1. CASE o = r
      BY <1>1, <1>2, <2>1, <2>3, <2>4, <3>1 DEF KnowsItsPage, FilePcs
    <3>2. CASE o # r
      BY <2>3, <2>4, <3>2 DEF TsInv, KnowsItsPage, OthersStand
    <3> QED
      BY <3>1, <3>2
  <2> QED
    BY <1>1, <1>2, <2>1, <2>3, <2>4
<1>3. CASE pc = "idle" /\ Ts!Ends(r)
  <2>1. trashRun' = [trashRun EXCEPT ![r] = Ts!Idle]
    BY <1>3 DEF Ts!Ends
  <2>2. trashRun' \in [Requests -> TsRequest] /\ trashRun'[r] = Ts!Idle /\ OthersStand(r)
    BY <1>1, <2>1, TsIdle DEF OthersStand
  <2>3. ASSUME begun' = begun, NEW o \in Requests PROVE KnowsItsPage(trashRun[o])'
    BY <2>2, <2>3, TsIdle DEF TsInv, KnowsItsPage, OthersStand
  <2> QED
    BY <1>1, <1>3, <2>2, <2>3, TsIdle
<1> QED
  BY <1>2, <1>3

LEMMA TsCleansUpObjectKeeps ==
  ASSUME TsInv, NEW r \in Requests, Ts!CleansUpObject(r)
  PROVE  TsInv'
<1> DEFINE g == trashRun[r].file
<1>1. /\ trashRun[r].pc = "cleanup" /\ Ts!Goes(r, "unrow")
      /\ object' = [object EXCEPT ![g] = "none"]
      /\ UNCHANGED <<life, row, good, url, trashStarted, uploads, failures, again, begun,
                     late, cascaded>>
  BY DEF Ts!CleansUpObject, Ts!At, Ts!counts, Ts!history
<1>2. /\ trashRun' \in [Requests -> TsRequest] /\ OthersStand(r)
      /\ trashRun'[r].pc = "unrow" /\ trashRun'[r].file = g /\ g \in Files
      /\ ConfirmFits(g, trashRun[r])
      /\ \A o \in Requests : KnowsItsPage(trashRun[o])'
  BY <1>1, TsConfirmMoves DEF FilePcs
<1>3. /\ object' \in [Files -> {"none", "pending", "confirmed"}]
      /\ object'[g] = "none" /\ \A f \in Files \ {g} : object'[f] = object[f]
  BY <1>1, <1>2, TsTyped DEF TsInv
<1>4. Ts!TypeOK'
  BY <1>1, <1>2, <1>3, TsRun DEF TsInv, Ts!TypeOK
<1>5. \A p \in FilePages : life'[p] = "gone" => p \in begun' \cup cascaded'
  BY <1>1 DEF TsInv
<1>6. ASSUME NEW f \in Files PROVE FileFits(f)'
  <2>1. /\ FileFits(f)
        /\ Excused(f)' <=> Excused(f)
        /\ Ts!HasRow(f)' <=> Ts!HasRow(f)
    BY <1>1 DEF TsInv, Excused, Ts!HasRow
  <2>2. CASE f # g
    BY <1>1, <1>2, <1>3, <2>1, <2>2 DEF FileFits, ConfirmFits, OthersStand
  <2>3. CASE f = g
    <3>1. object[f] = "confirmed" => f \in again
      BY <1>1, <1>2, <2>1, <2>3 DEF FileFits, ConfirmFits
    <3>2. row'[f] = "confirmed" => PageOf[f] \in begun' \/ f \in again'
      BY <1>1, <2>1, <3>1 DEF FileFits
    <3>3. ASSUME NEW o \in Requests, trashRun'[o].file = f, trashRun'[o].pc # "presign"
          PROVE  ConfirmFits(f, trashRun[o])'
      <4>1. CASE o = r
        BY <1>1, <1>2, <1>3, <2>3, <4>1 DEF ConfirmFits
      <4>2. CASE o # r
        <5>1. ConfirmFits(f, trashRun[o]) /\ trashRun'[o] = trashRun[o]
          BY <1>2, <2>1, <3>3, <4>2 DEF FileFits, OthersStand
        <5> QED
          BY <1>1, <1>3, <2>3, <3>1, <5>1 DEF ConfirmFits
      <4> QED
        BY <4>1, <4>2
    <3> QED
      BY <1>3, <2>3, <3>2, <3>3 DEF FileFits
  <2> QED
    BY <2>2, <2>3
<1> QED
  BY <1>2, <1>4, <1>5, <1>6 DEF TsInv

LEMMA TsCleansUpRowKeeps ==
  ASSUME TsInv, NEW r \in Requests, Ts!CleansUpRow(r)
  PROVE  TsInv'
<1> DEFINE g == trashRun[r].file
<1>1. /\ trashRun[r].pc = "unrow" /\ Ts!Ends(r)
      /\ row' = [row EXCEPT ![g] = "gone"]
      /\ UNCHANGED <<life, object, good, url, trashStarted, uploads, failures, again, begun,
                     late, cascaded>>
  BY DEF Ts!CleansUpRow, Ts!At, Ts!counts, Ts!history
<1>2. /\ trashRun' \in [Requests -> TsRequest] /\ OthersStand(r)
      /\ trashRun'[r].pc = "idle" /\ trashRun'[r].file = None /\ g \in Files
      /\ ConfirmFits(g, trashRun[r])
      /\ \A o \in Requests : KnowsItsPage(trashRun[o])'
  BY <1>1, TsConfirmMoves DEF FilePcs
<1>3. /\ row' \in [Files -> {"none", "pending", "confirmed", "gone"}]
      /\ row'[g] = "gone" /\ \A f \in Files \ {g} : row'[f] = row[f]
  BY <1>1, <1>2, TsTyped DEF TsInv
<1>4. Ts!TypeOK'
  BY <1>1, <1>2, <1>3, TsRun DEF TsInv, Ts!TypeOK
<1>5. \A p \in FilePages : life'[p] = "gone" => p \in begun' \cup cascaded'
  BY <1>1 DEF TsInv
<1>6. ASSUME NEW f \in Files PROVE FileFits(f)'
  <2>1. /\ FileFits(f)
        /\ Excused(f)' <=> Excused(f)
        /\ f # g => (Ts!HasRow(f)' <=> Ts!HasRow(f))
        /\ f = g => f \in again \/ object[f] = "none"
        /\ f \in again => Excused(f)
    BY <1>1, <1>2, <1>3 DEF TsInv, Excused, Ts!HasRow, ConfirmFits
  <2>2. ASSUME NEW o \in Requests, trashRun'[o].file = f
        PROVE  o # r /\ trashRun'[o] = trashRun[o]
    BY <1>2, <2>2, TsConstants DEF OthersStand
  <2>3. ASSUME NEW o \in Requests, trashRun'[o].pc \in {"object", "row"}
        PROVE  o # r /\ trashRun'[o] = trashRun[o]
    BY <1>2, <2>3 DEF OthersStand
  <2> QED
    BY <1>1, <1>3, <2>1, <2>2, <2>3 DEF FileFits, ConfirmFits
<1> QED
  BY <1>2, <1>4, <1>5, <1>6 DEF TsInv

LEMMA TsSetsTagsKeeps ==
  ASSUME TsInv, NEW r \in Requests, Ts!SetsTags(r)
  PROVE  TsInv'
<1> DEFINE g == trashRun[r].file
<1>1. CASE UNCHANGED object
  BY <1>1, TsQuietKeeps
<1>2. CASE object' # object
  <2>1. /\ trashRun[r].pc = "setTags" /\ Ts!Goes(r, "mark") /\ object[g] # "none"
        /\ object' = [object EXCEPT ![g] = "confirmed"]
        /\ UNCHANGED <<life, row, good, url, trashStarted, uploads, failures, again, begun,
                       late, cascaded>>
    BY <1>2 DEF Ts!SetsTags, Ts!At, Ts!counts, Ts!history
  <2>2. /\ trashRun' \in [Requests -> TsRequest] /\ OthersStand(r)
        /\ trashRun'[r].pc = "mark" /\ trashRun'[r].file = g /\ g \in Files
        /\ ConfirmFits(g, trashRun[r])
        /\ \A o \in Requests : KnowsItsPage(trashRun[o])'
    BY <2>1, TsConfirmMoves DEF FilePcs
  <2>3. /\ object' \in [Files -> {"none", "pending", "confirmed"}]
        /\ object'[g] = "confirmed" /\ \A f \in Files \ {g} : object'[f] = object[f]
    BY <2>1, <2>2, TsTyped DEF TsInv
  <2>4. Ts!TypeOK'
    BY <2>1, <2>2, <2>3, TsRun DEF TsInv, Ts!TypeOK
  <2>5. \A p \in FilePages : life'[p] = "gone" => p \in begun' \cup cascaded'
    BY <2>1 DEF TsInv
  <2>6. ASSUME NEW f \in Files PROVE FileFits(f)'
    <3>1. /\ FileFits(f) /\ PageOf[f] \in FilePages
          /\ Excused(f)' <=> Excused(f)
          /\ Ts!HasRow(f)' <=> Ts!HasRow(f)
      BY <2>1, TsConstants DEF TsInv, Excused, Ts!HasRow
    <3>2. CASE f # g
      <4>1. ASSUME NEW o \in Requests, trashRun'[o].file = f, trashRun'[o].pc # "presign"
            PROVE  ConfirmFits(f, trashRun[o])'
        BY <2>1, <2>2, <2>3, <3>1, <3>2, <4>1 DEF FileFits, ConfirmFits, OthersStand
      <4>2. ASSUME NEW o \in Requests, trashRun'[o].pc \in {"object", "row"}
            PROVE  trashRun'[o] = trashRun[o]
        BY <2>2, <4>2 DEF OthersStand
      <4> QED
        BY <2>1, <2>3, <3>1, <3>2, <4>1, <4>2 DEF FileFits
    <3>3. CASE f = g
      <4>1. /\ good[f] = TRUE \/ f \in again
            /\ Ts!HasRow(f) \/ Excused(f)
            /\ PageOf[f] \in begun => Excused(f)
        BY <2>1, <2>2, <3>3 DEF ConfirmFits, Excused
      <4>2. life[PageOf[f]] = "gone" => Excused(f)
        BY <3>1, <4>1 DEF TsInv, Excused
      <4>3. ASSUME NEW o \in Requests, trashRun'[o].file = f, trashRun'[o].pc # "presign"
            PROVE  ConfirmFits(f, trashRun[o])'
        <5>1. CASE o = r
          BY <2>1, <2>2, <2>3, <3>1, <3>3, <4>1, <5>1 DEF ConfirmFits
        <5>2. CASE o # r
          <6>1. ConfirmFits(f, trashRun[o]) /\ trashRun'[o] = trashRun[o]
            BY <2>2, <3>1, <4>3, <5>2 DEF FileFits, OthersStand
          <6> QED
            BY <2>1, <2>3, <3>1, <3>3, <4>1, <6>1 DEF ConfirmFits
        <5> QED
          BY <5>1, <5>2
      <4>4. ASSUME NEW o \in Requests, trashRun'[o].pc \in {"object", "row"},
                   trashRun'[o].page = PageOf[f]
            PROVE  Excused(f)
        BY <2>1, <2>2, <4>1, <4>4 DEF KnowsItsPage
      <4> QED
        BY <2>1, <2>3, <3>1, <3>3, <4>1, <4>2, <4>3, <4>4 DEF FileFits
    <3> QED
      BY <3>2, <3>3
  <2> QED
    BY <2>2, <2>4, <2>5, <2>6 DEF TsInv
<1> QED
  BY <1>1, <1>2

LEMMA TsMarksKeeps ==
  ASSUME TsInv, NEW r \in Requests, Ts!Marks(r)
  PROVE  TsInv'
<1> DEFINE g == trashRun[r].file
<1>1. /\ trashRun[r].pc = "mark" /\ Ts!Ends(r)
      /\ row' = IF Ts!HasRow(g) THEN [row EXCEPT ![g] = "confirmed"] ELSE row
      /\ UNCHANGED <<life, object, good, url, trashStarted, uploads, failures, again, begun,
                     late, cascaded>>
  BY DEF Ts!Marks, Ts!At, Ts!counts, Ts!history
<1>2. /\ trashRun' \in [Requests -> TsRequest] /\ OthersStand(r)
      /\ trashRun'[r].pc = "idle" /\ trashRun'[r].file = None /\ g \in Files
      /\ ConfirmFits(g, trashRun[r])
      /\ \A o \in Requests : KnowsItsPage(trashRun[o])'
  BY <1>1, TsConfirmMoves DEF FilePcs
<1>3. /\ row' \in [Files -> {"none", "pending", "confirmed", "gone"}]
      /\ \A f \in Files \ {g} : row'[f] = row[f]
      /\ Ts!HasRow(g) => row'[g] = "confirmed"
      /\ ~Ts!HasRow(g) => row'[g] = row[g]
  BY <1>1, <1>2, TsTyped DEF TsInv
<1>4. Ts!TypeOK'
  BY <1>1, <1>2, <1>3, TsRun DEF TsInv, Ts!TypeOK
<1>5. \A p \in FilePages : life'[p] = "gone" => p \in begun' \cup cascaded'
  BY <1>1 DEF TsInv
<1>6. ASSUME NEW f \in Files PROVE FileFits(f)'
  <2>1. /\ FileFits(f)
        /\ Excused(f)' <=> Excused(f)
        /\ Ts!HasRow(f)' <=> Ts!HasRow(f)
        /\ f = g => object[f] = "confirmed" \/ PageOf[f] \in begun \/ f \in again
    BY <1>1, <1>2, <1>3 DEF TsInv, Excused, Ts!HasRow, ConfirmFits
  <2>2. ASSUME NEW o \in Requests, trashRun'[o].file = f
        PROVE  o # r /\ trashRun'[o] = trashRun[o]
    BY <1>2, <2>2, TsConstants DEF OthersStand
  <2>3. ASSUME NEW o \in Requests, trashRun'[o].pc \in {"object", "row"}
        PROVE  o # r /\ trashRun'[o] = trashRun[o]
    BY <1>2, <2>3 DEF OthersStand
  <2> QED
    BY <1>1, <1>3, <2>1, <2>2, <2>3 DEF FileFits, ConfirmFits
<1> QED
  BY <1>2, <1>4, <1>5, <1>6 DEF TsInv
-----------------------------------------------------------------------------
(* Steps of a page                                                          *)

\* Into the trash, out of it, and too long in it: no page comes or goes.
LEMMA TsPageMovesKeeps ==
  ASSUME TsInv,
         \/ \E r \in Requests : Ts!SoftDeletes(r) \/ Ts!Restores(r)
         \/ \E p \in FilePages : Ts!GrowsOld(p)
  PROVE  TsInv'
<1>1. /\ life' \in [FilePages -> {"live", "trash", "old", "gone"}]
      /\ \A p \in FilePages : life'[p] = "gone" <=> life[p] = "gone"
  BY TsTyped DEF TsInv, Ts!SoftDeletes, Ts!Restores, Ts!GrowsOld, Ts!InTrash
<1>2. /\ UNCHANGED <<row, object, good, url, trashStarted, uploads, failures, again, begun,
                     late, cascaded>>
      /\ \/ UNCHANGED trashRun
         \/ \E r \in Requests : trashRun' = [trashRun EXCEPT ![r] = Ts!Idle]
  BY DEF Ts!SoftDeletes, Ts!Restores, Ts!GrowsOld, Ts!Ends, Ts!counts, Ts!history
<1>3. /\ trashRun' \in [Requests -> TsRequest]
      /\ \A o \in Requests : trashRun'[o] = trashRun[o] \/ trashRun'[o] = Ts!Idle
  BY <1>2, TsIdle, TsTyped DEF TsInv
<1>4. Ts!TypeOK'
  BY <1>1, <1>2, <1>3, TsRun DEF TsInv, Ts!TypeOK
<1>5. \A o \in Requests : KnowsItsPage(trashRun[o])'
  BY <1>2, <1>3, TsIdle DEF TsInv, KnowsItsPage
<1>6. \A p \in FilePages : life'[p] = "gone" => p \in begun' \cup cascaded'
  BY <1>1, <1>2 DEF TsInv
<1>7. ASSUME NEW f \in Files PROVE FileFits(f)'
  <2>1. /\ FileFits(f) /\ PageOf[f] \in FilePages
        /\ Excused(f)' <=> Excused(f)
        /\ Ts!HasRow(f)' <=> Ts!HasRow(f)
    BY <1>2, TsConstants DEF TsInv, Excused, Ts!HasRow
  <2>2. ASSUME NEW o \in Requests, trashRun'[o].file = f \/ trashRun'[o].pc \in {"object", "row"}
        PROVE  trashRun'[o] = trashRun[o]
    BY <1>3, <2>2, TsIdle, TsConstants
  <2> QED
    BY <1>1, <1>2, <2>1, <2>2 DEF FileFits, ConfirmFits
<1> QED
  BY <1>4, <1>5, <1>6, <1>7 DEF TsInv

LEMMA TsReadsKeysKeeps ==
  ASSUME TsInv, NEW r \in Requests, Ts!ReadsKeys(r)
  PROVE  TsInv'
<1> DEFINE p == trashRun[r].page
           q == [trashRun[r] EXCEPT !.pc = "object", !.keys = Ts!KeysOf(p)]
<1>1. /\ trashRun[r].pc = "keys" /\ trashRun[r] \in TsRequest
      /\ trashRun' = [trashRun EXCEPT ![r] = q]
      /\ begun' = begun \cup {p}
      /\ late' = late \cup {f \in Files : PageOf[f] = p /\ \E o \in Requests : trashRun[o].file = f}
      /\ UNCHANGED <<life, row, object, good, url, trashStarted, uploads, failures, again,
                     cascaded>>
  BY TsTyped DEF TsInv, Ts!ReadsKeys, Ts!At, Ts!data, Ts!counts
<1>2. p \in FilePages
  BY <1>1 DEF TsInv, KnowsItsPage
<1>3. Ts!KeysOf(p) \subseteq {f \in Files : PageOf[f] = p}
  BY DEF Ts!KeysOf
<1>4. /\ q \in TsRequest /\ q.pc = "object" /\ q.page = p /\ q.keys = Ts!KeysOf(p)
      /\ q.file = trashRun[r].file
  BY <1>1, <1>3 DEF TsRequest
<1> HIDE DEF q
<1>5. /\ trashRun' \in [Requests -> TsRequest] /\ trashRun'[r] = q /\ OthersStand(r)
  BY <1>1, <1>4, TsTyped DEF TsInv, OthersStand
<1>6. /\ begun \subseteq begun' /\ p \in begun' /\ begun' \in SUBSET FilePages
      /\ late \subseteq late' /\ late' \in SUBSET Files
      /\ \A f \in Files, o \in Requests : PageOf[f] = p /\ trashRun[o].file = f => f \in late'
  BY <1>1, <1>2, TsTyped DEF TsInv
<1>7. Ts!TypeOK'
  BY <1>1, <1>5, <1>6, TsRun DEF TsInv, Ts!TypeOK
<1>8. ASSUME NEW o \in Requests PROVE KnowsItsPage(trashRun[o])'
  <2>1. CASE o = r
    BY <1>2, <1>3, <1>4, <1>5, <1>6, <2>1 DEF KnowsItsPage, FilePcs
  <2>2. CASE o # r
    <3>1. KnowsItsPage(trashRun[o]) /\ trashRun'[o] = trashRun[o]
      BY <1>5, <2>2 DEF TsInv, OthersStand
    <3> QED
      BY <1>6, <3>1 DEF KnowsItsPage
  <2> QED
    BY <2>1, <2>2
<1>9. \A x \in FilePages : life'[x] = "gone" => x \in begun' \cup cascaded'
  BY <1>1, <1>6 DEF TsInv
<1>10. ASSUME NEW f \in Files PROVE FileFits(f)'
  <2>1. /\ FileFits(f)
        /\ Excused(f) => Excused(f)'
        /\ Ts!HasRow(f)' <=> Ts!HasRow(f)
    BY <1>1, <1>6 DEF TsInv, Excused, Ts!HasRow
  <2>2. ASSUME NEW o \in Requests, trashRun'[o].file = f, trashRun'[o].pc # "presign"
        PROVE  ConfirmFits(f, trashRun[o])'
    <3>1. trashRun[o].file = f
      BY <1>4, <1>5, <2>2 DEF OthersStand
    <3>2. PageOf[f] \in begun' => f \in late'
      <4>1. CASE PageOf[f] = p
        BY <1>6, <3>1, <4>1
      <4>2. CASE PageOf[f] # p
        <5>1. trashRun[o].pc # "presign" => ConfirmFits(f, trashRun[o])
          BY <2>1, <3>1 DEF FileFits
        <5>2. trashRun[o].pc # "presign"
          BY <1>1, <1>4, <1>5, <2>2 DEF OthersStand
        <5> QED
          BY <1>1, <1>6, <4>2, <5>1, <5>2 DEF ConfirmFits
      <4> QED
        BY <4>1, <4>2
    <3>3. CASE o = r
      <4>1. ConfirmFits(f, trashRun[r])
        BY <1>1, <2>1, <3>1, <3>3 DEF FileFits
      <4> QED
        BY <1>1, <1>4, <1>5, <2>1, <3>2, <3>3, <4>1 DEF ConfirmFits
    <3>4. CASE o # r
      <4>1. ConfirmFits(f, trashRun[o]) /\ trashRun'[o] = trashRun[o]
        BY <1>5, <2>1, <2>2, <3>1, <3>4 DEF FileFits, OthersStand
      <4> QED
        BY <1>1, <1>6, <2>1, <3>2, <4>1 DEF ConfirmFits
    <3> QED
      BY <3>3, <3>4
  <2>3. ASSUME NEW o \in Requests, trashRun'[o].pc \in {"object", "row"},
               trashRun'[o].page = PageOf[f], object[f] = "confirmed"
        PROVE  f \in trashRun'[o].keys \/ Excused(f)'
    <3>1. CASE o = r
      BY <1>4, <1>5, <2>1, <2>3, <3>1 DEF FileFits, Ts!KeysOf
    <3>2. CASE o # r
      BY <1>5, <2>1, <2>3, <3>2 DEF FileFits, OthersStand
    <3> QED
      BY <3>1, <3>2
  <2> QED
    BY <1>1, <1>6, <2>1, <2>2, <2>3 DEF FileFits
<1> QED
  BY <1>7, <1>8, <1>9, <1>10 DEF TsInv

\* S3 deletes a key; none is refused here.
LEMMA TsDeletesObjectKeeps ==
  ASSUME TsInv, NEW r \in Requests, Ts!DeletesObject(r)
  PROVE  TsInv'
<1>1. /\ trashRun[r].pc = "object" /\ trashRun[r] \in TsRequest /\ KnowsItsPage(trashRun[r])
      /\ UNCHANGED <<life, row, good, url, trashStarted, uploads, failures, again, begun,
                     late, cascaded>>
  BY TsTyped DEF TsInv, Ts!DeletesObject, Ts!At, Ts!counts, Ts!history
<1>2. CASE trashRun[r].keys = {}
  BY <1>2, TsQuietKeeps DEF Ts!DeletesObject
<1>3. CASE trashRun[r].keys # {}
  <2>1. PICK g \in trashRun[r].keys :
          /\ object' = [object EXCEPT ![g] = "none"]
          /\ trashRun' = [trashRun EXCEPT ![r].keys = @ \ {g}]
    BY <1>3 DEF Ts!DeletesObject
  <2> DEFINE q == [trashRun[r] EXCEPT !.keys = @ \ {g}]
  <2>2. /\ q \in TsRequest /\ q.pc = "object" /\ q.file = trashRun[r].file
        /\ q.page = trashRun[r].page /\ q.keys = trashRun[r].keys \ {g}
    BY <1>1 DEF TsRequest
  <2>3. trashRun' = [trashRun EXCEPT ![r] = q]
    BY <2>1
  <2> HIDE DEF q
  <2>4. /\ g \in Files /\ PageOf[g] = trashRun[r].page /\ PageOf[g] \in begun
    BY <1>1 DEF KnowsItsPage, TsRequest
  <2>5. trashRun' \in [Requests -> TsRequest] /\ trashRun'[r] = q /\ OthersStand(r)
    BY <2>2, <2>3, TsTyped DEF TsInv, OthersStand
  <2>6. /\ object' \in [Files -> {"none", "pending", "confirmed"}]
        /\ object'[g] = "none" /\ \A f \in Files \ {g} : object'[f] = object[f]
    BY <2>1, <2>4, TsTyped DEF TsInv
  <2>7. Ts!TypeOK'
    BY <1>1, <2>5, <2>6, TsRun DEF TsInv, Ts!TypeOK
  <2>8. \A o \in Requests : KnowsItsPage(trashRun[o])'
    BY <1>1, <2>2, <2>5 DEF TsInv, KnowsItsPage, OthersStand, FilePcs
  <2>9. \A p \in FilePages : life'[p] = "gone" => p \in begun' \cup cascaded'
    BY <1>1 DEF TsInv
  <2>10. ASSUME NEW f \in Files PROVE FileFits(f)'
    <3>1. /\ FileFits(f)
          /\ Excused(f)' <=> Excused(f)
          /\ Ts!HasRow(f)' <=> Ts!HasRow(f)
      BY <1>1 DEF TsInv, Excused, Ts!HasRow
    <3>2. \A o \in Requests : /\ trashRun'[o].file = trashRun[o].file
                              /\ trashRun'[o].pc = trashRun[o].pc
                              /\ trashRun'[o].page = trashRun[o].page
      BY <1>1, <2>2, <2>5 DEF OthersStand
    <3>3. f # g => \A o \in Requests : f \in trashRun[o].keys => f \in trashRun'[o].keys
      BY <2>2, <2>5 DEF OthersStand
    <3>4. ASSUME NEW o \in Requests, trashRun'[o].file = f, trashRun'[o].pc # "presign"
          PROVE  ConfirmFits(f, trashRun[o])'
      <4>1. ConfirmFits(f, trashRun[o])
        BY <3>1, <3>2, <3>4 DEF FileFits
      <4>2. object'[f] = object[f] \/ (object'[f] = "none" /\ PageOf[f] \in begun)
        BY <2>4, <2>6
      <4> QED
        BY <1>1, <3>1, <3>2, <4>1, <4>2 DEF ConfirmFits
    <3>5. object'[f] = "confirmed" => f # g /\ object[f] = "confirmed"
      BY <2>6
    <3>6. row'[f] = "confirmed" =>
            object'[f] = "confirmed" \/ PageOf[f] \in begun' \/ f \in again'
      BY <1>1, <2>4, <2>6, <3>1 DEF FileFits
    <3> QED
      BY <1>1, <3>1, <3>2, <3>3, <3>4, <3>5, <3>6 DEF FileFits
  <2> QED
    BY <2>7, <2>8, <2>9, <2>10 DEF TsInv
<1> QED
  BY <1>2, <1>3
\* What the rows of the files of p become with the page.
RowsGo(p) ==
  row' = [f \in Files |-> IF PageOf[f] = p /\ Ts!HasRow(f) THEN "gone" ELSE row[f]]

LEMMA TsRowsGo ==
  ASSUME Ts!TypeOK, NEW p \in FilePages, RowsGo(p), life' = [life EXCEPT ![p] = "gone"]
  PROVE  /\ row' \in [Files -> {"none", "pending", "confirmed", "gone"}]
         /\ \A f \in Files : PageOf[f] # p => row'[f] = row[f]
         /\ \A f \in Files : PageOf[f] = p => row'[f] # "confirmed"
         /\ life' \in [FilePages -> {"live", "trash", "old", "gone"}]
         /\ \A x \in FilePages \ {p} : life'[x] = life[x]
BY TsTyped DEF RowsGo, Ts!HasRow

LEMMA TsDeletesRowKeeps ==
  ASSUME TsInv, NEW r \in Requests, Ts!DeletesRow(r)
  PROVE  TsInv'
<1> DEFINE p == trashRun[r].page
           q == IF trashRun[r].purge THEN [trashRun[r] EXCEPT !.pc = "next", !.page = None]
                ELSE Ts!Idle
<1>1. /\ trashRun[r].pc = "row" /\ trashRun[r] \in TsRequest /\ KnowsItsPage(trashRun[r])
      /\ life' = [life EXCEPT ![p] = "gone"] /\ RowsGo(p)
      /\ trashRun' = [trashRun EXCEPT ![r] = q]
      /\ UNCHANGED <<object, good, url, trashStarted, uploads, failures, again, begun,
                     late, cascaded>>
  BY TsTyped DEF TsInv, Ts!DeletesRow, Ts!At, Ts!counts, Ts!history, RowsGo
<1>2. p \in FilePages /\ p \in begun /\ trashRun[r].keys = {}
  BY <1>1 DEF KnowsItsPage
<1>3. /\ q \in TsRequest /\ q.pc \in {"idle", "next"}
      /\ q.file = trashRun[r].file \/ q.file = None
  BY <1>1, TsIdle DEF TsRequest
<1> HIDE DEF q
<1>4. trashRun' \in [Requests -> TsRequest] /\ trashRun'[r] = q /\ OthersStand(r)
  BY <1>1, <1>3, TsTyped DEF TsInv, OthersStand
<1>5. /\ row' \in [Files -> {"none", "pending", "confirmed", "gone"}]
      /\ \A f \in Files : PageOf[f] # p => row'[f] = row[f]
      /\ \A f \in Files : PageOf[f] = p => row'[f] # "confirmed"
      /\ life' \in [FilePages -> {"live", "trash", "old", "gone"}]
      /\ \A x \in FilePages \ {p} : life'[x] = life[x]
  BY <1>1, <1>2, TsRowsGo DEF TsInv
<1>6. Ts!TypeOK'
  BY <1>1, <1>4, <1>5, TsRun DEF TsInv, Ts!TypeOK
<1>7. \A o \in Requests : KnowsItsPage(trashRun[o])'
  BY <1>1, <1>3, <1>4 DEF TsInv, KnowsItsPage, OthersStand, FilePcs
<1>8. \A x \in FilePages : life'[x] = "gone" => x \in begun' \cup cascaded'
  BY <1>1, <1>2, <1>5 DEF TsInv
<1>9. ASSUME NEW f \in Files PROVE FileFits(f)'
  <2>1. /\ FileFits(f) /\ PageOf[f] \in FilePages
        /\ Excused(f)' <=> Excused(f)
        /\ PageOf[f] # p => (Ts!HasRow(f)' <=> Ts!HasRow(f))
    BY <1>1, <1>5, TsConstants DEF TsInv, Excused, Ts!HasRow
  <2>2. PageOf[f] = p => object[f] # "confirmed" \/ Excused(f)
    BY <1>1, <1>2, <2>1 DEF FileFits
  <2>3. ASSUME NEW o \in Requests, trashRun'[o].file = f, trashRun'[o].pc # "presign"
        PROVE  ConfirmFits(f, trashRun[o])'
    <3>1. /\ ConfirmFits(f, trashRun[o])
          /\ trashRun'[o] = trashRun[o] \/ trashRun'[o].pc \in {"idle", "next"}
      BY <1>1, <1>3, <1>4, <2>1, <2>3, TsConstants DEF FileFits, OthersStand
    <3>2. PageOf[f] = p => Excused(f)
      BY <1>2, <3>1 DEF ConfirmFits, Excused
    <3> QED
      BY <1>1, <2>1, <3>1, <3>2 DEF ConfirmFits
  <2>4. ASSUME NEW o \in Requests, trashRun'[o].pc \in {"object", "row"}
        PROVE  trashRun'[o] = trashRun[o]
    BY <1>3, <1>4, <2>4 DEF OthersStand
  <2> QED
    BY <1>1, <1>5, <2>1, <2>2, <2>3, <2>4 DEF FileFits
<1> QED
  BY <1>6, <1>7, <1>8, <1>9 DEF TsInv

LEMMA TsProjectGoesKeeps ==
  ASSUME TsInv, NEW p \in FilePages, Ts!ProjectGoes(p)
  PROVE  TsInv'
<1>1. /\ life' = [life EXCEPT ![p] = "gone"] /\ RowsGo(p)
      /\ cascaded' = cascaded \cup {p}
      /\ UNCHANGED <<object, good, url, trashRun, trashStarted, uploads, failures, again,
                     begun, late>>
  BY DEF Ts!ProjectGoes, Ts!counts, RowsGo
<1>2. /\ row' \in [Files -> {"none", "pending", "confirmed", "gone"}]
      /\ \A f \in Files : PageOf[f] # p => row'[f] = row[f]
      /\ \A f \in Files : PageOf[f] = p => row'[f] # "confirmed"
      /\ life' \in [FilePages -> {"live", "trash", "old", "gone"}]
      /\ \A x \in FilePages \ {p} : life'[x] = life[x]
  BY <1>1, TsRowsGo DEF TsInv
<1>3. p \in cascaded' /\ cascaded \subseteq cascaded' /\ cascaded' \in SUBSET FilePages
  BY <1>1, TsTyped DEF TsInv
<1>4. Ts!TypeOK'
  BY <1>1, <1>2, <1>3, TsRun DEF TsInv, Ts!TypeOK
<1>5. \A o \in Requests : KnowsItsPage(trashRun[o])'
  BY <1>1 DEF TsInv, KnowsItsPage
<1>6. \A x \in FilePages : life'[x] = "gone" => x \in begun' \cup cascaded'
  BY <1>1, <1>2, <1>3 DEF TsInv
<1>7. ASSUME NEW f \in Files PROVE FileFits(f)'
  <2>1. /\ FileFits(f) /\ PageOf[f] \in FilePages
        /\ Excused(f) => Excused(f)'
        /\ PageOf[f] = p => Excused(f)'
        /\ PageOf[f] # p => (Ts!HasRow(f)' <=> Ts!HasRow(f))
    BY <1>1, <1>2, <1>3, TsConstants DEF TsInv, Excused, Ts!HasRow
  <2>2. ASSUME NEW o \in Requests, trashRun'[o].file = f, trashRun'[o].pc # "presign"
        PROVE  ConfirmFits(f, trashRun[o])'
    BY <1>1, <2>1, <2>2 DEF FileFits, ConfirmFits
  <2> QED
    BY <1>1, <1>2, <2>1, <2>2 DEF FileFits
<1> QED
  BY <1>4, <1>5, <1>6, <1>7 DEF TsInv

-----------------------------------------------------------------------------
(* The invariant of the composition                                         *)

LEMMA TsStepKeeps == TsInv /\ [Ts!Next]_tsVars => TsInv'
<1> SUFFICES ASSUME TsInv, [Ts!Next]_tsVars PROVE TsInv'
  OBVIOUS
<1>1. CASE UNCHANGED tsVars
  <2>1. UNCHANGED <<life, row, object, good, url, trashRun, trashStarted, uploads, failures,
                    again, begun, late, cascaded>>
    BY <1>1 DEF tsVars
  <2>2. Ts!TypeOK'
    BY <2>1, TsRun DEF TsInv, Ts!TypeOK
  <2>3. \A o \in Requests : KnowsItsPage(trashRun[o])'
    BY <2>1 DEF TsInv, KnowsItsPage
  <2>4. ASSUME NEW f \in Files PROVE FileFits(f)'
    BY <2>1 DEF TsInv, FileFits, ConfirmFits, Excused, Ts!HasRow
  <2> QED
    BY <2>1, <2>2, <2>3, <2>4 DEF TsInv
<1>2. ASSUME NEW r \in Requests, Ts!Works(r) PROVE TsInv'
  <2>1. \/ Ts!PurgesNext(r) \/ Ts!ReadsKeys(r) \/ Ts!DeletesObject(r) \/ Ts!DeletesRow(r)
        \/ Ts!SoftDeletes(r) \/ Ts!Restores(r) \/ Ts!Presigns(r) \/ Ts!ConfirmHeads(r)
        \/ Ts!CleansUpObject(r) \/ Ts!CleansUpRow(r) \/ Ts!ReadsTags(r) \/ Ts!SetsTags(r)
        \/ Ts!Marks(r)
    BY <1>2 DEF Ts!Works
  <2>2. CASE Ts!PurgesNext(r) \/ Ts!ReadsKeys(r) \/ Ts!DeletesObject(r) \/ Ts!DeletesRow(r)
    BY <2>2, TsPurgesNextKeeps, TsReadsKeysKeeps, TsDeletesObjectKeeps, TsDeletesRowKeeps
  <2>3. CASE Ts!SoftDeletes(r) \/ Ts!Restores(r) \/ Ts!Presigns(r)
    BY <2>3, TsPageMovesKeeps, TsPresignsKeeps
  <2>4. CASE Ts!ConfirmHeads(r) \/ Ts!ReadsTags(r)
    BY <2>4, TsQuietKeeps
  <2>5. CASE \/ Ts!CleansUpObject(r) \/ Ts!CleansUpRow(r) \/ Ts!SetsTags(r) \/ Ts!Marks(r)
    BY <2>5, TsCleansUpObjectKeeps, TsCleansUpRowKeeps, TsSetsTagsKeeps, TsMarksKeeps
  <2> QED
    BY <2>1, <2>2, <2>3, <2>4, <2>5
<1>3. ASSUME NEW r \in Requests,
             \/ \E f \in Files : Ts!PresignAsked(r, f) \/ Ts!ConfirmAsked(r, f)
             \/ \E p \in FilePages :
                  Ts!TrashAsked(r, p) \/ Ts!RestoreAsked(r, p) \/ Ts!HardDeleteAsked(r, p)
             \/ Ts!EmptyTrashAsked(r) \/ Ts!NightlyPurge(r)
      PROVE  TsInv'
  <2>1. CASE \E f \in Files : Ts!ConfirmAsked(r, f)
    BY <2>1, TsConfirmAskedKeeps
  <2> QED
    BY <1>3, <2>1, TsAsksKeeps
<1>4. ASSUME NEW r \in Requests, Ts!S3Fails(r) \/ Ts!Dies(r) PROVE TsInv'
  BY <1>4, TsQuietKeeps
<1>5. ASSUME NEW f \in Files, \E b \in BOOLEAN : Ts!Uploads(f, b) PROVE TsInv'
  BY <1>5, TsUploadsKeeps
<1>6. ASSUME NEW f \in Files, Ts!UrlExpires(f) \/ Ts!S3Expires(f) PROVE TsInv'
  BY <1>6, TsExpiresKeeps
<1>7. ASSUME NEW p \in FilePages, Ts!GrowsOld(p) \/ Ts!ProjectGoes(p) PROVE TsInv'
  BY <1>7, TsPageMovesKeeps, TsProjectGoesKeeps
<1> QED
  BY <1>1, <1>2, <1>3, <1>4, <1>5, <1>6, <1>7 DEF Ts!Next

\* Whatever moves, the trash takes one of its steps or stands still.
LEMMA StructureMovesTrash ==
  [PagesMove \/ ProjectsMove \/ TrashMoves]_<<part, vars, pjVars, tsVars>>
    => [Ts!Next]_tsVars
BY DEF PagesMove, ProjectsMove, TrashMoves

LEMMA TrashStaysInOrder == Structure => []TsInv
<1>1. StructureInit => TsInv
  BY TsInitHolds DEF StructureInit
<1>2. TsInv /\ [PagesMove \/ ProjectsMove \/ TrashMoves]_<<part, vars, pjVars, tsVars>> => TsInv'
  BY TsStepKeeps, StructureMovesTrash
<1> QED
  BY <1>1, <1>2, PTL DEF Structure

\* No file stays in the store for good once its page is deleted, and none that was
\* confirmed is missing from it, but for what the hazards of the code excuse.
THEOREM FilesAlwaysFollowTheirPage == Structure => []FilesFollowTheirPage
<1>1. TsInv => FilesFollowTheirPage
  BY DEF TsInv, FileFits, Excused, FilesFollowTheirPage, Ts!NoFileOutlivesItsPage,
         Ts!ConfirmedFileStays
<1> QED
  BY <1>1, TrashStaysInOrder, PTL

-----------------------------------------------------------------------------
(* Finite sets of numbers                                                   *)

\* Among the chosen subsets of a finite set there is a smallest one.
LEMMA SmallestSubset ==
  ASSUME NEW S, IsFiniteSet(S), NEW Chosen \in SUBSET (SUBSET S), Chosen # {}
  PROVE  \E T \in Chosen : \A U \in SUBSET T : U # T => U \notin Chosen
<1>1. IsWellFoundedOn(StrictSubsetOrdering(S), SUBSET S)
  BY FS_StrictSubsetOrderingWellFounded, FS_FiniteSubsetsOfFinite
<1>2. PICK T \in Chosen : \A U \in Chosen : <<U, T>> \notin StrictSubsetOrdering(S)
  BY <1>1, WFMin
<1> QED
  BY <1>2 DEF StrictSubsetOrdering

\* x is highest in T.
Tops(f, T, x) == x \in T /\ \A y \in T : f[y] <= f[x]

LEMMA HighestExists ==
  ASSUME NEW S, IsFiniteSet(S), S # {}, NEW f, \A x \in S : f[x] \in Nat
  PROVE  \E x : Tops(f, S, x)
<1> DEFINE Bad == {T \in SUBSET S : T # {} /\ \A x : ~Tops(f, T, x)}
<1>1. ASSUME Bad # {} PROVE FALSE
  <2>1. PICK T \in Bad : \A U \in SUBSET T : U # T => U \notin Bad
    <3>1. Bad \in SUBSET (SUBSET S)
      OBVIOUS
    <3> HIDE DEF Bad
    <3> QED
      BY <1>1, <3>1, SmallestSubset
  <2>2. T \in SUBSET S /\ T # {} /\ \A x : ~Tops(f, T, x)
    BY <2>1
  <2>3. PICK x \in T : TRUE
    BY <2>2
  <2> DEFINE U == T \ {x}
  <2>4. U # {}
    BY <2>2, <2>3 DEF Tops
  <2>5. U \in SUBSET S /\ U \in SUBSET T /\ U # T
    BY <2>2, <2>3
  <2>6. PICK m : Tops(f, U, m)
    BY <2>1, <2>4, <2>5
  <2>7. f[x] \in Nat /\ f[m] \in Nat /\ m \in T /\ \A y \in T : f[y] \in Nat
    BY <2>2, <2>6 DEF Tops
  <2>8. CASE f[m] <= f[x]
    <3>1. \A y \in T : f[y] <= f[x]
      BY <2>6, <2>7, <2>8 DEF Tops
    <3> QED
      BY <2>2, <2>3, <3>1 DEF Tops
  <2>9. CASE ~(f[m] <= f[x])
    <3>1. \A y \in T : f[y] <= f[m]
      BY <2>6, <2>7, <2>9 DEF Tops
    <3> QED
      BY <2>2, <2>7, <3>1 DEF Tops
  <2> QED
    BY <2>8, <2>9
<1> QED
  BY <1>1

\* The number after the highest, which a CHOOSE of the model picks.
After(f, S) == CHOOSE k \in {0} \cup {f[p] + 1 : p \in S} : \A p \in S : f[p] < k

LEMMA AfterIsAfter ==
  ASSUME NEW S, IsFiniteSet(S), NEW f, \A x \in S : f[x] \in Nat
  PROVE  After(f, S) \in Nat /\ \A p \in S : f[p] < After(f, S)
<1>1. \E k \in {0} \cup {f[p] + 1 : p \in S} : \A p \in S : f[p] < k
  <2>1. CASE S = {}
    BY <2>1
  <2>2. CASE S # {}
    <3>1. PICK x : Tops(f, S, x)
      BY <2>2, HighestExists
    <3>2. x \in S /\ \A p \in S : f[p] < f[x] + 1
      BY <3>1 DEF Tops
    <3> QED
      BY <3>2
  <2> QED
    BY <2>1, <2>2
<1>2. /\ After(f, S) \in {0} \cup {f[p] + 1 : p \in S}
      /\ \A p \in S : f[p] < After(f, S)
  BY <1>1 DEF After
<1> QED
  BY <1>2

OneToOne(f, S) == \A x, y \in S : f[x] = f[y] => x = y

\* s lists T, lowest first.
Lists(f, T, s) ==
  /\ s \in [1..Cardinality(T) -> T]
  /\ \A i, j \in 1..Cardinality(T) : i < j => f[s[i]] < f[s[j]]

LEMMA ListExists ==
  ASSUME NEW S, IsFiniteSet(S), NEW f, \A x \in S : f[x] \in Nat, OneToOne(f, S)
  PROVE  \E s : Lists(f, S, s)
<1> DEFINE Bad == {T \in SUBSET S : \A s : ~Lists(f, T, s)}
<1>1. ASSUME Bad # {} PROVE FALSE
  <2>1. PICK T \in Bad : \A U \in SUBSET T : U # T => U \notin Bad
    <3>1. Bad \in SUBSET (SUBSET S)
      OBVIOUS
    <3> HIDE DEF Bad
    <3> QED
      BY <1>1, <3>1, SmallestSubset
  <2>2. T \in SUBSET S /\ \A s : ~Lists(f, T, s)
    BY <2>1
  <2>3. IsFiniteSet(T) /\ \A y \in T : f[y] \in Nat
    BY <2>2, FS_Subset
  <2>4. T # {}
    <3>1. ASSUME T = {} PROVE FALSE
      <4>1. Cardinality(T) = 0
        BY <3>1, FS_EmptySet
      <4>2. Lists(f, T, [i \in 1..0 |-> i])
        BY <3>1, <4>1 DEF Lists
      <4> QED
        BY <2>2, <4>2
    <3> QED
      BY <3>1
  <2>5. PICK x : Tops(f, T, x)
    BY <2>3, <2>4, HighestExists
  <2> DEFINE U == T \ {x}
             n == Cardinality(U)
  <2>6. x \in T /\ U \in SUBSET T /\ U # T /\ U \in SUBSET S
    BY <2>2, <2>5 DEF Tops
  <2>7. PICK s : Lists(f, U, s)
    BY <2>1, <2>6
  <2>8. IsFiniteSet(U) /\ n \in Nat /\ Cardinality(T) = n + 1
    BY <2>3, <2>6, FS_RemoveElement, FS_CardinalityType, FS_Subset
  <2>9. \A y \in U : f[y] < f[x]
    <3>1. SUFFICES ASSUME NEW y \in U PROVE f[y] < f[x]
      OBVIOUS
    <3>2. f[y] # f[x] /\ f[y] <= f[x] /\ f[y] \in Nat /\ f[x] \in Nat
      BY <2>3, <2>5, <2>6 DEF Tops, OneToOne
    <3> QED
      BY <3>2
  <2> DEFINE t == [i \in 1..(n + 1) |-> IF i = n + 1 THEN x ELSE s[i]]
  <2>10. s \in [1..n -> U] /\ \A i, j \in 1..n : i < j => f[s[i]] < f[s[j]]
    BY <2>7 DEF Lists
  <2> HIDE DEF U, n
  <2>11. \A i \in 1..n : i # n + 1 /\ i \in 1..(n + 1) /\ s[i] \in U /\ s[i] \in T
    BY <2>6, <2>8, <2>10
  <2>12. \A i \in 1..(n + 1) : i = n + 1 \/ i \in 1..n
    BY <2>8
  <2>13. t \in [1..(n + 1) -> T]
    BY <2>6, <2>11, <2>12
  <2>14. ASSUME NEW i \in 1..(n + 1), NEW j \in 1..(n + 1), i < j PROVE f[t[i]] < f[t[j]]
    <3>1. i \in 1..n /\ t[i] = s[i]
      BY <2>8, <2>11, <2>14
    <3>2. CASE j = n + 1
      BY <2>9, <2>11, <3>1, <3>2
    <3>3. CASE j # n + 1
      BY <2>10, <2>12, <2>14, <3>1, <3>3
    <3> QED
      BY <3>2, <3>3
  <2>15. Lists(f, T, t)
    BY <2>8, <2>13, <2>14 DEF Lists
  <2> QED
    BY <2>2, <2>15
<1>2. S \notin Bad
  BY <1>1
<1> QED
  BY <1>2

\* What has different numbers below k is not more than k.
LEMMA FewBelow ==
  ASSUME NEW S, IsFiniteSet(S), NEW f, NEW k \in Nat, OneToOne(f, S),
         \A x \in S : f[x] \in Nat /\ f[x] < k
  PROVE  Cardinality(S) <= k
<1> DEFINE g == [x \in S |-> f[x]]
<1>1. g \in Injection(S, 0..(k - 1))
  <2>1. g \in [S -> 0..(k - 1)]
    OBVIOUS
  <2> QED
    BY <2>1 DEF OneToOne, Injection, IsInjective
<1>2. IsFiniteSet(0..(k - 1)) /\ Cardinality(0..(k - 1)) = k
  BY FS_Interval
<1> HIDE DEF g
<1> QED
  BY <1>1, <1>2, FS_Injection

\* A list has no more elements than places, and exactly as many when each comes once.
LEMMA ElementsCount ==
  ASSUME NEW S, NEW n \in Nat, NEW s \in [1..n -> S]
  PROVE  /\ IsFiniteSet(Elements(s)) /\ Cardinality(Elements(s)) <= n
         /\ Elements(s) \subseteq S
         /\ (\A i, j \in 1..n : i < j => s[i] # s[j]) => Cardinality(Elements(s)) = n
<1>1. Elements(s) = {s[i] : i \in 1..n} /\ Elements(s) \subseteq S
  BY DEF Elements
<1>2. s \in Surjection(1..n, Elements(s))
  BY <1>1 DEF Surjection
<1>3. IsFiniteSet(1..n) /\ Cardinality(1..n) = n
  BY FS_Interval
<1>4. (\A i, j \in 1..n : i < j => s[i] # s[j]) => s \in Injection(1..n, Elements(s))
  BY <1>1 DEF Injection, IsInjective
<1> QED
  BY <1>1, <1>2, <1>3, <1>4, FS_Surjection

\* A list that holds a set and is no longer than it lists that set.
LEMMA ListOf ==
  ASSUME NEW order \in Seq(PageIds), NEW S, IsFiniteSet(S), S \subseteq Elements(order),
         Len(order) = Cardinality(S)
  PROVE  Elements(order) = S
<1>1. Len(order) \in Nat /\ order \in [1..Len(order) -> PageIds]
  OBVIOUS
<1>2. IsFiniteSet(Elements(order)) /\ Cardinality(Elements(order)) <= Len(order)
  BY <1>1, ElementsCount
<1>3. Cardinality(Elements(order)) \in Nat /\ Cardinality(S) \in Nat
  BY <1>2, FS_CardinalityType
<1>4. Cardinality(S) <= Cardinality(Elements(order))
  BY <1>2, FS_Subset
<1>5. Cardinality(S) = Cardinality(Elements(order))
  BY <1>2, <1>3, <1>4
<1> QED
  BY <1>2, <1>5, FS_Subset

\* As many numbers as there are, from 0 on, are one for each.
LEMMA FirstPlaces ==
  ASSUME NEW S, IsFiniteSet(S), NEW f, {f[x] : x \in S} = 0..(Cardinality(S) - 1)
  PROVE  OneToOne(f, S)
<1> DEFINE n == Cardinality(S)
           g == [x \in S |-> f[x]]
<1>1. g \in Surjection(S, 0..(n - 1))
  <2>1. \A k \in 0..(n - 1) : \E x \in S : g[x] = k
    OBVIOUS
  <2> QED
    BY <2>1 DEF Surjection
<1>2. n \in Nat /\ Cardinality(0..(n - 1)) = n
  BY FS_CardinalityType, FS_Interval
<1>3. g \in Injection(S, 0..(n - 1))
  <2> HIDE DEF g, n
  <2>1. Cardinality(S) = Cardinality(0..(n - 1))
    BY <1>2 DEF n
  <2> QED
    BY <1>1, <2>1, FS_SurjSameCardinalityImpliesInj
<1> QED
  BY <1>3 DEF Injection, IsInjective, OneToOne

-----------------------------------------------------------------------------
(* Pages: what a request has read still holds when it writes, or it is known *)
(* to have been disturbed.                                                   *)

\* The request names what it works on.
NamesIts(q) ==
  /\ q.pc \in {"create", "insert", "check", "position", "update", "trash", "restore"}
       => q.page \in PageIds
  /\ q.pc \in {"create", "insert", "check", "position", "update", "lock",
                "list", "aside", "place"}
       => q.to \in Projects

Creating(q) == q.pc \in {"create", "insert"}
Listing(q) == q.pc \in {"list", "aside", "place"}
Placing(q) == q.pc \in {"insert", "update"}

\* The page that r is to create is no row yet, and nobody else's.
Newborn(r) ==
  /\ run[r].page \in used \ Rows
  /\ \A q \in Requests \ {r} :
       /\ Creating(run[q]) => run[q].page # run[r].page
       /\ Listing(run[q]) => run[r].page \notin Elements(run[q].order)

\* A reorder lists p, or will when it reads the trash.
Covers(q, p) == p \in Elements(q.order) \/ (q.pc = "list" /\ p \in trashed)

\* The pages a reorder lists are those of its project, unless it was disturbed.
OrderFits(q) ==
  /\ Elements(q.order) \subseteq used
  /\ q.disturbed = TRUE
       \/ /\ \A p \in In(q.to) : Covers(q, p)
          /\ \A p \in Elements(q.order) \cap Rows : project[p] = q.to

PastTheEnd(q) == q.disturbed = TRUE \/ \A p \in In(q.to) : pos[p] < q.pos

RequestFits(r) ==
  /\ NamesIts(run[r])
  /\ Creating(run[r]) => Newborn(r)
  /\ Listing(run[r]) => OrderFits(run[r])
  /\ Placing(run[r]) => PastTheEnd(run[r])

\* pages_position_unique
Distinct == \A g \in Projects : OneToOne(pos, In(g))

PgInv ==
  /\ TypeOK /\ Distinct /\ Rows \subseteq used
  /\ \A r \in Requests : RequestFits(r)

LEMMA PgConstants ==
  IsFiniteSet(PageIds) /\ MaxStarted \in Nat /\ None \notin PageIds \cup Projects
BY PagesAssumption

LEMMA PgTyped ==
  ASSUME PgInv
  PROVE  /\ \A p \in PageIds : pos[p] \in Nat /\ project[p] \in Projects \cup {None}
         /\ \A r \in Requests : run[r] \in Run
         /\ \A g : IsFiniteSet(In(g)) /\ In(g) \subseteq PageIds
         /\ \A g \in Projects : In(g) \subseteq Rows
         /\ Rows \subseteq used /\ used \subseteq PageIds /\ trashed \subseteq PageIds
<1>1. TypeOK
  BY DEF PgInv
<1>2. \A g : In(g) \subseteq PageIds
  BY DEF In
<1>3. \A g : IsFiniteSet(In(g))
  BY <1>2, PgConstants, FS_Subset
<1>4. \A g \in Projects : In(g) \subseteq Rows
  BY PgConstants DEF In, Rows
<1> QED
  BY <1>1, <1>2, <1>3, <1>4 DEF TypeOK, PgInv

LEMMA PgIdle ==
  /\ Idle \in Run /\ ~Creating(Idle) /\ ~Listing(Idle) /\ ~Placing(Idle)
  /\ NamesIts(Idle)
<1>1. << >> \in Seq(PageIds)
  OBVIOUS
<1>2. Idle \in Run
  BY <1>1 DEF Idle, Run
<1> QED
  BY <1>2 DEF Idle, Creating, Listing, Placing, NamesIts

LEMMA PgInitHolds == Init => PgInv
<1> SUFFICES ASSUME Init PROVE PgInv
  OBVIOUS
<1>1. PICK g \in Projects : project = [p \in PageIds |-> IF p \in used THEN g ELSE None]
  BY DEF Init
<1>2. used \in SUBSET PageIds /\ run = [r \in Requests |-> Idle]
  BY DEF Init
<1>3. IsFiniteSet(used) /\ Cardinality(used) \in Nat
  BY <1>2, PgConstants, FS_Subset, FS_CardinalityType
<1>4. TypeOK
  <2>1. pos \in [PageIds -> Nat]
    BY <1>3 DEF Init
  <2>2. run \in [Requests -> Run]
    BY <1>2, PgIdle
  <2>3. started \in 0..MaxStarted
    BY PgConstants DEF Init
  <2> QED
    BY <1>1, <1>2, <2>1, <2>2, <2>3 DEF Init, TypeOK
<1>5. Rows \subseteq used /\ \A h \in Projects : In(h) \subseteq used
  BY <1>1, <1>2, PgConstants DEF Rows, In
<1>6. OneToOne(pos, used)
  <2>1. {pos[p] : p \in used} = 0..(Cardinality(used) - 1)
    BY DEF Init
  <2> QED
    BY <1>3, <2>1, FirstPlaces
<1>7. Distinct
  BY <1>5, <1>6 DEF Distinct, OneToOne
<1>8. \A r \in Requests : RequestFits(r)
  BY <1>2, PgIdle DEF RequestFits
<1> QED
  BY <1>4, <1>5, <1>7, <1>8 DEF PgInv

\* One request moves on, and the pages stay where they are.
LEMMA PgRunMoves ==
  ASSUME PgInv, NEW r \in Requests, NEW q \in Run,
         run' = [run EXCEPT ![r] = q], UNCHANGED <<project, pos>>,
         trashed' \in SUBSET PageIds, trashed \subseteq trashed',
         projects' \in SUBSET Projects,
         started' \in 0..MaxStarted, used' \in SUBSET PageIds, used \subseteq used',
         NamesIts(q),
         Creating(q) =>
           /\ q.page \in used' \ Rows
           /\ \A x \in Requests \ {r} :
                /\ Creating(run[x]) => run[x].page # q.page
                /\ Listing(run[x]) => q.page \notin Elements(run[x].order),
         Listing(q) =>
           /\ OrderFits(q)
           /\ \A x \in Requests \ {r} :
                Creating(run[x]) => run[x].page \notin Elements(q.order),
         Placing(q) => PastTheEnd(q)
  PROVE  PgInv'
<1>1. TypeOK'
  BY DEF PgInv, TypeOK
<1>2. /\ run'[r] = q /\ \A x \in Requests \ {r} : run'[x] = run[x]
      /\ Rows' = Rows /\ \A g : In(g)' = In(g)
  BY DEF PgInv, TypeOK, Rows, In
<1>3. Distinct' /\ Rows' \subseteq used'
  BY <1>2 DEF PgInv, Distinct, OneToOne
<1>4. \A z : OrderFits(z) => OrderFits(z)'
  BY <1>2 DEF OrderFits, Covers
<1>5. \A z : PastTheEnd(z) => PastTheEnd(z)'
  BY <1>2 DEF PastTheEnd
<1>6. RequestFits(r)'
  <2>1. Creating(q) => Newborn(r)'
    BY <1>2 DEF Newborn
  <2> QED
    BY <1>2, <1>4, <1>5, <2>1 DEF RequestFits
<1>7. ASSUME NEW x \in Requests \ {r} PROVE RequestFits(x)'
  <2>1. RequestFits(x)
    BY DEF PgInv
  <2>2. Creating(run[x]) => Newborn(x)'
    <3> SUFFICES ASSUME Creating(run[x]) PROVE Newborn(x)'
      OBVIOUS
    <3>1. Newborn(x)
      BY <2>1 DEF RequestFits
    <3> QED
      BY <1>2, <3>1 DEF Newborn
  <2> QED
    BY <1>2, <1>4, <1>5, <2>1, <2>2 DEF RequestFits
<1> QED
  BY <1>1, <1>3, <1>6, <1>7 DEF PgInv

\* The pages of a project after the step.
Comes(g) == {p \in PageIds : project'[p] = g}

\* r is done, and a request that has been disturbed knows it and is otherwise as it was.
DoneDisturbing(r, groups, left) ==
  /\ run'[r] = Idle
  /\ \A x \in Requests \ {r} :
       /\ run'[x].pc = run[x].pc /\ run'[x].page = run[x].page
       /\ run'[x].to = run[x].to /\ run'[x].order = run[x].order
       /\ run'[x].pos = run[x].pos
       /\ run[x].disturbed = TRUE => run'[x].disturbed = TRUE
       /\ Listing(run[x]) \/ Placing(run[x]) =>
            \/ run'[x].disturbed = TRUE
            \/ run[x].to \notin groups /\ left \cap Elements(run[x].order) = {}

LEMMA DisturbedRun ==
  ASSUME PgInv, NEW r \in Requests, NEW groups, NEW left,
         run' = Disturb([run EXCEPT ![r] = Idle], r, groups, left)
  PROVE  run' \in [Requests -> Run] /\ DoneDisturbing(r, groups, left)
<1>1. run \in [Requests -> Run]
  BY DEF PgInv, TypeOK
<1>2. run'[r] = Idle
  BY <1>1 DEF Disturb
<1>3. ASSUME NEW x \in Requests \ {r}
      PROVE  /\ run'[x] \in Run
             /\ run'[x].pc = run[x].pc /\ run'[x].page = run[x].page
             /\ run'[x].to = run[x].to /\ run'[x].order = run[x].order
             /\ run'[x].pos = run[x].pos
             /\ run[x].disturbed = TRUE => run'[x].disturbed = TRUE
             /\ Listing(run[x]) \/ Placing(run[x]) =>
                  \/ run'[x].disturbed = TRUE
                  \/ run[x].to \notin groups /\ left \cap Elements(run[x].order) = {}
  <2> DEFINE hit == /\ run[x].pc \in {"insert", "update", "list", "aside", "place"}
                    /\ run[x].to \in groups \/ left \cap Elements(run[x].order) # {}
  <2>1. run'[x] = IF hit THEN [run[x] EXCEPT !.disturbed = TRUE] ELSE run[x]
    BY <1>1 DEF Disturb
  <2>2. run[x] \in Run
    BY <1>1
  <2>3. CASE hit
    <3>1. run'[x] = [run[x] EXCEPT !.disturbed = TRUE]
      BY <2>1, <2>3
    <3> HIDE DEF hit
    <3> QED
      BY <2>2, <3>1 DEF Run
  <2>4. CASE ~hit
    <3>1. run'[x] = run[x]
      BY <2>1, <2>4
    <3>2. Listing(run[x]) \/ Placing(run[x]) =>
            run[x].to \notin groups /\ left \cap Elements(run[x].order) = {}
      BY <2>4 DEF Listing, Placing
    <3> HIDE DEF hit
    <3> QED
      BY <2>2, <3>1, <3>2
  <2> HIDE DEF hit
  <2> QED
    BY <2>3, <2>4
<1>4. run' \in [Requests -> Run]
  <2>1. run' = [x \in Requests |-> run'[x]]
    BY DEF Disturb
  <2> QED
    BY <1>2, <1>3, <2>1, PgIdle
<1> QED
  BY <1>2, <1>3, <1>4 DEF DoneDisturbing

\* What a request that is not the one that writes needs of the new rows.
LEMMA OthersFit ==
  ASSUME PgInv, NEW r \in Requests, NEW groups, NEW left, DoneDisturbing(r, groups, left),
         used' = used, NEW x \in Requests \ {r},
         Creating(run[x]) => run[x].page \notin Rows',
         Listing(run[x]) /\ run[x].to \notin groups
           /\ left \cap Elements(run[x].order) = {} /\ run'[x].disturbed # TRUE
           => /\ \A p \in Comes(run[x].to) : Covers(run[x], p)'
              /\ \A p \in Elements(run[x].order) \cap Rows' : project'[p] = run[x].to,
         Placing(run[x]) /\ run[x].to \notin groups /\ run'[x].disturbed # TRUE
           => \A p \in Comes(run[x].to) : pos'[p] < run[x].pos
  PROVE  RequestFits(x)'
<1>1. /\ run'[r] = Idle
      /\ \A y \in Requests \ {r} :
           /\ run'[y].pc = run[y].pc /\ run'[y].page = run[y].page
           /\ run'[y].to = run[y].to /\ run'[y].order = run[y].order
           /\ run'[y].pos = run[y].pos
           /\ run[y].disturbed = TRUE => run'[y].disturbed = TRUE
           /\ Listing(run[y]) \/ Placing(run[y]) =>
                \/ run'[y].disturbed = TRUE
                \/ run[y].to \notin groups /\ left \cap Elements(run[y].order) = {}
  BY DEF DoneDisturbing
<1>2. RequestFits(x)
  BY DEF PgInv
<1>3. \A y \in Requests \ {r} :
        /\ Creating(run'[y]) <=> Creating(run[y])
        /\ Listing(run'[y]) <=> Listing(run[y])
        /\ Placing(run'[y]) <=> Placing(run[y])
  BY <1>1 DEF Creating, Listing, Placing
<1>4. NamesIts(run'[x])
  BY <1>1, <1>2 DEF RequestFits, NamesIts
<1>5. Creating(run[x]) => Newborn(x)'
  <2> SUFFICES ASSUME Creating(run[x]) PROVE Newborn(x)'
    OBVIOUS
  <2>1. Newborn(x)
    BY <1>2 DEF RequestFits
  <2>2. \A y \in Requests \ {x} :
          /\ Creating(run'[y]) => run'[y].page # run[x].page
          /\ Listing(run'[y]) => run[x].page \notin Elements(run'[y].order)
    <3>1. ~Creating(run'[r]) /\ ~Listing(run'[r])
      BY <1>1, PgIdle
    <3>2. ASSUME NEW y \in Requests \ {x}, y # r
          PROVE  /\ Creating(run'[y]) => run'[y].page # run[x].page
                 /\ Listing(run'[y]) => run[x].page \notin Elements(run'[y].order)
      <4>1. run'[y].page = run[y].page /\ run'[y].order = run[y].order
        BY <1>1, <3>2
      <4> QED
        BY <1>3, <2>1, <3>2, <4>1 DEF Newborn
    <3> QED
      BY <3>1, <3>2
  <2>3. run'[x].page = run[x].page /\ run[x].page \in used' \ Rows'
    BY <1>1, <2>1 DEF Newborn
  <2> QED
    BY <2>2, <2>3 DEF Newborn
<1>6. Listing(run[x]) => OrderFits(run[x])'
  <2> SUFFICES ASSUME Listing(run[x]) PROVE OrderFits(run[x])'
    OBVIOUS
  <2>1. OrderFits(run[x])
    BY <1>2 DEF RequestFits
  <2>2. run'[x].to = run[x].to /\ run'[x].order = run[x].order
    BY <1>1
  <2>3. \/ run'[x].disturbed = TRUE
        \/ /\ run[x].to \notin groups /\ left \cap Elements(run[x].order) = {}
           /\ run'[x].disturbed # TRUE
    BY <1>1
  <2>4. \/ run'[x].disturbed = TRUE
        \/ /\ \A p \in Comes(run'[x].to) : Covers(run[x], p)'
           /\ \A p \in Elements(run'[x].order) \cap Rows' : project'[p] = run'[x].to
    BY <2>2, <2>3
  <2>5. Elements(run'[x].order) \subseteq used'
    BY <2>1, <2>2 DEF OrderFits
  <2> QED
    BY <2>4, <2>5 DEF OrderFits, Comes, In, Elements, Covers
<1>7. Placing(run[x]) => PastTheEnd(run[x])'
  <2> SUFFICES ASSUME Placing(run[x]) PROVE PastTheEnd(run[x])'
    OBVIOUS
  <2>1. run'[x].to = run[x].to /\ run'[x].pos = run[x].pos
    BY <1>1
  <2>2. \/ run'[x].disturbed = TRUE
        \/ run[x].to \notin groups /\ run'[x].disturbed # TRUE
    BY <1>1
  <2>3. run'[x].disturbed = TRUE \/ \A p \in Comes(run'[x].to) : pos'[p] < run'[x].pos
    BY <2>1, <2>2
  <2> QED
    BY <2>3 DEF PastTheEnd, Comes, In
<1>8. /\ Creating(run[x])' <=> Creating(run[x])
      /\ Listing(run[x])' <=> Listing(run[x])
      /\ Placing(run[x])' <=> Placing(run[x])
  BY <1>1 DEF Creating, Listing, Placing
<1>9. NamesIts(run[x])'
  BY <1>4 DEF NamesIts
<1> QED
  BY <1>5, <1>6, <1>7, <1>8, <1>9 DEF RequestFits

\* A page comes to a vacant place: it was created, or left another project.
LEMMA PageComes ==
  ASSUME PgInv, NEW r \in Requests, NEW p \in used, NEW g \in Projects, NEW k \in Nat,
         NEW left, run' = Disturb([run EXCEPT ![r] = Idle], r, {g}, left),
         project' = [project EXCEPT ![p] = g], pos' = [pos EXCEPT ![p] = k],
         Vacant(p, g, k), UNCHANGED <<trashed, projects, started, used>>,
         \A x \in Requests \ {r} :
           /\ Creating(run[x]) => run[x].page # p
           /\ Listing(run[x]) => p \notin Elements(run[x].order) \/ p \in left
  PROVE  PgInv'
<1>1. p \in PageIds /\ project \in [PageIds -> Projects \cup {None}]
        /\ pos \in [PageIds -> Nat] /\ None \notin Projects
  BY PgConstants DEF PgInv, TypeOK
<1>2. /\ project'[p] = g /\ pos'[p] = k
      /\ \A o \in PageIds \ {p} : project'[o] = project[o] /\ pos'[o] = pos[o]
  BY <1>1
<1>3. /\ Rows' = Rows \cup {p}
      /\ \A h : h # g => In(h)' = In(h) \ {p}
      /\ In(g)' = In(g) \cup {p}
  BY <1>1, <1>2 DEF Rows, In
<1>4. \A h : Comes(h) = IF h = g THEN In(g) \cup {p} ELSE In(h) \ {p}
  BY <1>1, <1>2 DEF Comes, In
<1>5. run' \in [Requests -> Run] /\ DoneDisturbing(r, {g}, left)
  BY DisturbedRun
<1>6. TypeOK'
  BY <1>1, <1>5 DEF PgInv, TypeOK
<1>7. Distinct'
  <2> SUFFICES ASSUME NEW h \in Projects, NEW x \in In(h)', NEW y \in In(h)',
                      pos'[x] = pos'[y]
               PROVE  x = y
    BY DEF Distinct, OneToOne
  <2>1. x \in PageIds /\ y \in PageIds
    BY DEF In
  <2>2. CASE x # p /\ y # p
    <3>1. x \in In(h) /\ y \in In(h) /\ pos[x] = pos[y]
      BY <1>2, <1>3, <2>1, <2>2
    <3> QED
      BY <3>1 DEF PgInv, Distinct, OneToOne
  <2>3. CASE (x = p /\ y # p) \/ (y = p /\ x # p)
    <3>1. h = g
      BY <1>3, <2>3
    <3> QED
      BY <1>2, <1>3, <2>1, <2>3, <3>1 DEF Vacant
  <2> QED
    BY <2>2, <2>3
<1>8. Rows' \subseteq used'
  BY <1>3 DEF PgInv
<1>9. RequestFits(r)'
  <2>1. run'[r] = Idle
    BY <1>5 DEF DoneDisturbing
  <2> QED
    BY <2>1, PgIdle DEF RequestFits, NamesIts, Creating, Listing, Placing
<1>10. ASSUME NEW x \in Requests \ {r} PROVE RequestFits(x)'
  <2>1. RequestFits(x)
    BY DEF PgInv
  <2>2. Creating(run[x]) => run[x].page \notin Rows'
    BY <1>3, <2>1 DEF RequestFits, Newborn
  <2>3. ASSUME Listing(run[x]), run[x].to \notin {g},
               left \cap Elements(run[x].order) = {}, run'[x].disturbed # TRUE
        PROVE  /\ \A o \in Comes(run[x].to) : Covers(run[x], o)'
               /\ \A o \in Elements(run[x].order) \cap Rows' : project'[o] = run[x].to
    <3>1. OrderFits(run[x]) /\ p \notin Elements(run[x].order)
      BY <2>1, <2>3 DEF RequestFits
    <3>2. Comes(run[x].to) \subseteq In(run[x].to)
      BY <1>4, <2>3
    <3>3. \A o \in Elements(run[x].order) \cap Rows' :
            o \in Rows /\ o \in PageIds /\ o # p
      BY <1>3, <3>1 DEF Rows
    <3>4. /\ run'[x].order = run[x].order /\ run'[x].pc = run[x].pc /\ trashed' = trashed
          /\ run[x].disturbed # TRUE
      BY <1>5, <2>3 DEF DoneDisturbing
    <3> QED
      BY <1>2, <3>1, <3>2, <3>3, <3>4 DEF OrderFits, Covers
  <2>4. ASSUME Placing(run[x]), run[x].to \notin {g}, run'[x].disturbed # TRUE
        PROVE  \A o \in Comes(run[x].to) : pos'[o] < run[x].pos
    <3>1. \A o \in Comes(run[x].to) : o \in In(run[x].to) /\ o # p /\ o \in PageIds
      BY <1>4, <2>4 DEF In
    <3>2. PastTheEnd(run[x]) /\ run[x].disturbed # TRUE
      BY <1>5, <2>1, <2>4 DEF RequestFits, DoneDisturbing
    <3> QED
      BY <1>2, <3>1, <3>2 DEF PastTheEnd
  <2> QED
    BY <1>5, <2>2, <2>3, <2>4, OthersFit
<1> QED
  BY <1>6, <1>7, <1>8, <1>9, <1>10 DEF PgInv

\* Rows go for good.
LEMMA PagesVanish ==
  ASSUME PgInv, NEW gone \in SUBSET PageIds, Vanish(gone), projects' \in SUBSET Projects
  PROVE  PgInv'
<1>1. /\ project' = [p \in PageIds |-> IF p \in gone THEN None ELSE project[p]]
      /\ pos' = [p \in PageIds |-> IF p \in gone THEN 0 ELSE pos[p]]
      /\ trashed' = trashed \ gone /\ UNCHANGED <<run, started, used>>
  BY DEF Vanish
<1>2. None \notin Projects
  BY PgConstants
<1>3. /\ Rows' \subseteq Rows
      /\ \A p \in Rows' : p \in PageIds /\ project'[p] = project[p] /\ pos'[p] = pos[p]
      /\ \A g \in Projects : In(g)' \subseteq In(g)
      /\ \A g \in Projects : \A p \in In(g)' : pos'[p] = pos[p]
  BY <1>1, <1>2 DEF Rows, In
<1>4. TypeOK'
  BY <1>1 DEF PgInv, TypeOK
<1>5. Distinct' /\ Rows' \subseteq used'
  BY <1>1, <1>3 DEF PgInv, Distinct, OneToOne
<1>6. ASSUME NEW x \in Requests PROVE RequestFits(x)'
  <2>1. RequestFits(x) /\ run' = run /\ used' = used
    BY <1>1 DEF PgInv
  <2>2. Listing(run[x]) \/ Placing(run[x]) => run[x].to \in Projects
    BY <2>1 DEF RequestFits, NamesIts, Listing, Placing
  <2>3. Creating(run[x]) => Newborn(x)'
    BY <1>3, <2>1 DEF RequestFits, Newborn
  <2>4. Listing(run[x]) => OrderFits(run[x])'
    <3> SUFFICES ASSUME Listing(run[x]) PROVE OrderFits(run[x])'
      OBVIOUS
    <3>1. OrderFits(run[x]) /\ In(run[x].to)' \subseteq In(run[x].to) \ gone
      BY <1>1, <1>2, <1>3, <2>1, <2>2 DEF RequestFits, In
    <3>2. \A p \in Elements(run[x].order) \cap Rows' : p \in Rows /\ project'[p] = project[p]
      BY <1>3
    <3>3. \A p \in In(run[x].to)' : Covers(run[x], p) => Covers(run[x], p)'
      BY <1>1, <2>1, <3>1 DEF Covers
    <3> QED
      BY <2>1, <3>1, <3>2, <3>3 DEF OrderFits
  <2>5. Placing(run[x]) => PastTheEnd(run[x])'
    <3> SUFFICES ASSUME Placing(run[x]) PROVE PastTheEnd(run[x])'
      OBVIOUS
    <3>1. PastTheEnd(run[x]) /\ In(run[x].to)' \subseteq In(run[x].to)
      BY <1>3, <2>1, <2>2 DEF RequestFits
    <3> QED
      BY <1>3, <2>1, <2>2, <3>1 DEF PastTheEnd
  <2> QED
    BY <2>1, <2>3, <2>4, <2>5 DEF RequestFits
<1> QED
  BY <1>4, <1>5, <1>6 DEF PgInv

\* The list of the trash names every page of it.
LEMMA TrashIsListed ==
  ASSUME PgInv, NEW g \in Projects
  PROVE  TrashInOrder(g) \in Seq(PageIds) /\ Elements(TrashInOrder(g)) = TrashIn(g)
<1> DEFINE T == TrashIn(g)
           t == TrashInOrder(g)
           m == Cardinality(T)
<1>1. T \subseteq In(g) /\ In(g) \subseteq PageIds
  BY PgTyped DEF TrashIn
<1>2. IsFiniteSet(T) /\ m \in Nat
  BY <1>1, PgTyped, FS_Subset, FS_CardinalityType
<1>3. Lists(pos, T, t)
  <2>1. \A x \in T : pos[x] \in Nat
    BY <1>1, PgTyped
  <2>2. OneToOne(pos, T)
    BY <1>1 DEF PgInv, Distinct, OneToOne
  <2>3. \E s : Lists(pos, T, s)
    BY <1>2, <2>1, <2>2, ListExists
  <2>4. \E s \in [1..Cardinality(TrashIn(g)) -> TrashIn(g)] :
          \A i, j \in DOMAIN s : i < j => pos[s[i]] < pos[s[j]]
    BY <2>3 DEF Lists
  <2>5. /\ t \in [1..Cardinality(TrashIn(g)) -> TrashIn(g)]
        /\ \A i, j \in DOMAIN t : i < j => pos[t[i]] < pos[t[j]]
    BY <2>4 DEF TrashInOrder
  <2> QED
    BY <2>5 DEF Lists
<1> HIDE DEF T, t
<1>4. t \in [1..m -> T] /\ \A i, j \in 1..m : i < j => t[i] # t[j]
  <2>1. t \in [1..m -> T] /\ \A i, j \in 1..m : i < j => pos[t[i]] < pos[t[j]]
    BY <1>3 DEF Lists
  <2>2. \A i \in 1..m : pos[t[i]] \in Nat
    BY <1>1, <2>1, PgTyped
  <2> QED
    BY <2>1, <2>2
<1>5. Elements(t) = T
  <2>1. Elements(t) \in SUBSET T /\ Cardinality(Elements(t)) = m
    BY <1>2, <1>4, ElementsCount
  <2> QED
    BY <1>2, <2>1, FS_Subset
<1>6. t \in Seq(PageIds)
  BY <1>1, <1>2, <1>4
<1> QED
  BY <1>5, <1>6 DEF T, t

\* What is in one of two lists is in both together.
LEMMA ElementsOfBoth ==
  ASSUME NEW s \in Seq(PageIds), NEW t \in Seq(PageIds)
  PROVE  s \o t \in Seq(PageIds) /\ Elements(s \o t) = Elements(s) \cup Elements(t)
<1> DEFINE n == Len(s)
           m == Len(t)
<1>1. n \in Nat /\ m \in Nat /\ s \in [1..n -> PageIds] /\ t \in [1..m -> PageIds]
  OBVIOUS
<1>2. /\ s \o t \in Seq(PageIds) /\ Len(s \o t) = n + m
      /\ \A i \in 1..n : (s \o t)[i] = s[i]
      /\ \A i \in 1..m : (s \o t)[n + i] = t[i]
  BY <1>1
<1>3. Elements(s \o t) = {(s \o t)[i] : i \in 1..(n + m)}
  BY <1>2 DEF Elements
<1>4. Elements(s) = {s[i] : i \in 1..n} /\ Elements(t) = {t[i] : i \in 1..m}
  BY <1>1 DEF Elements
<1> HIDE DEF n, m
<1>5. \A i \in 1..(n + m) : i \in 1..n \/ (i - n \in 1..m /\ i = n + (i - n))
  BY <1>1
<1>6. /\ \A i \in 1..n : i \in 1..(n + m)
      /\ \A i \in 1..m : n + i \in 1..(n + m)
  BY <1>1
<1>7. ASSUME NEW i \in 1..(n + m) PROVE (s \o t)[i] \in Elements(s) \cup Elements(t)
  <2>1. CASE i \in 1..n
    BY <1>2, <1>4, <2>1
  <2>2. CASE i - n \in 1..m /\ i = n + (i - n)
    BY <1>2, <1>4, <2>2
  <2> QED
    BY <1>5, <2>1, <2>2
<1>8. \A i \in 1..n : s[i] \in Elements(s \o t)
  BY <1>2, <1>3, <1>6
<1>9. \A i \in 1..m : t[i] \in Elements(s \o t)
  BY <1>2, <1>3, <1>6
<1>10. Elements(s) \cup Elements(t) \subseteq Elements(s \o t)
  BY <1>4, <1>8, <1>9
<1>11. Elements(s \o t) \subseteq Elements(s) \cup Elements(t)
  BY <1>3, <1>7
<1> QED
  BY <1>2, <1>10, <1>11

\* Each page has a place among those of the list, and no two pages have the same.
LEMMA PlacesAre ==
  ASSUME NEW order \in Seq(PageIds), NEW p, NEW k \in Places(order, p)
  PROVE  k \in 0..(Len(order) - 1) /\ k \in Nat /\ order[k + 1] = p
<1>1. PICK i \in DOMAIN order : order[i] = p /\ k = i - 1
  BY DEF Places
<1>2. i \in 1..Len(order) /\ Len(order) \in Nat
  BY <1>1
<1> QED
  BY <1>1, <1>2

\* The place of an element of a list.
Place(order, p) == (CHOOSE i \in DOMAIN order : order[i] = p) - 1

LEMMA PlaceIs ==
  ASSUME NEW order \in Seq(PageIds), NEW p \in Elements(order)
  PROVE  /\ Place(order, p) \in 0..(Len(order) - 1)
         /\ order[Place(order, p) + 1] = p
<1>1. \E i \in DOMAIN order : order[i] = p
  BY DEF Elements
<1> DEFINE i == CHOOSE i \in DOMAIN order : order[i] = p
<1>2. i \in DOMAIN order /\ order[i] = p
  BY <1>1
<1>3. Place(order, p) = i - 1
  BY DEF Place
<1> HIDE DEF i
<1>4. i \in 1..Len(order) /\ Len(order) \in Nat
  BY <1>2
<1> QED
  BY <1>2, <1>3, <1>4

\* The pages in use are those of the list, and the others lie in the trash.
LEMMA ReorderReadsLiveKeeps == ASSUME PgInv, NEW r \in Requests, ReorderReadsLive(r) PROVE PgInv'
<1> DEFINE g == run[r].to
           order == run[r].order
<1>1. run[r] \in Run /\ At(r, "lock") /\ run \in [Requests -> Run]
  BY PgTyped DEF ReorderReadsLive, PgInv, TypeOK
<1>2. g \in Projects /\ order \in Seq(PageIds) /\ NamesIts(run[r])
  BY <1>1 DEF PgInv, RequestFits, NamesIts, At, Run
<1>3. UNCHANGED <<project, pos, trashed, projects, started, used>>
  BY DEF ReorderReadsLive
<1>4. CASE IsExactPermutation(order, g)
  <2>1. PICK q : q = [run[r] EXCEPT !.pc = "list"]
    OBVIOUS
  <2>2. run' = [run EXCEPT ![r] = q]
    BY <1>1, <1>4, <2>1 DEF ReorderReadsLive, Goes
  <2>3. /\ q \in Run /\ q.pc = "list" /\ q.to = g /\ q.order = order
        /\ q.page = run[r].page
    BY <1>1, <2>1 DEF Run
  <2>4. NamesIts(q) /\ ~Creating(q) /\ ~Placing(q)
    BY <1>2, <2>3 DEF NamesIts, Creating, Placing
  <2>5. In(g) \subseteq Rows /\ Rows \subseteq used /\ IsFiniteSet(In(g))
    BY <1>2, PgTyped
  <2>6. Elements(order) = LiveIn(g)
    <3>1. /\ IsFiniteSet(LiveIn(g)) /\ LiveIn(g) \subseteq Elements(order)
          /\ Len(order) = Cardinality(LiveIn(g))
      BY <1>4, <2>5, FS_Subset DEF IsExactPermutation, LiveIn
    <3> HIDE DEF order, g
    <3> QED
      BY <1>2, <3>1, ListOf
  <2>7. OrderFits(q)
    <3>1. \A p \in In(g) : project[p] = g
      BY DEF In
    <3>2. \A p \in In(g) : Covers(q, p)
      BY <2>3, <2>6 DEF Covers, LiveIn
    <3> QED
      BY <2>3, <2>5, <2>6, <3>1, <3>2 DEF OrderFits, LiveIn
  <2>8. ASSUME NEW x \in Requests \ {r}, Creating(run[x])
        PROVE  run[x].page \notin Elements(q.order)
    BY <2>3, <2>5, <2>6, <2>8 DEF PgInv, RequestFits, Newborn, LiveIn
  <2> HIDE DEF g, order
  <2> QED
    BY <1>3, <2>2, <2>3, <2>4, <2>7, <2>8, PgRunMoves DEF PgInv, TypeOK
<1>5. CASE ~IsExactPermutation(order, g)
  <2>1. run' = [run EXCEPT ![r] = Idle]
    BY <1>5 DEF ReorderReadsLive, Ends
  <2> HIDE DEF g, order
  <2> QED
    BY <1>3, <2>1, PgIdle, PgRunMoves DEF PgInv, TypeOK
<1> QED
  BY <1>4, <1>5

\* The trash joins the list.
LEMMA ReorderReadsTrashKeeps == ASSUME PgInv, NEW r \in Requests, ReorderReadsTrash(r) PROVE PgInv'
<1> DEFINE g == run[r].to
           order == run[r].order
<1>1. run[r] \in Run /\ At(r, "list") /\ run \in [Requests -> Run]
  BY PgTyped DEF ReorderReadsTrash, PgInv, TypeOK
<1>2. g \in Projects /\ order \in Seq(PageIds) /\ NamesIts(run[r])
  BY <1>1 DEF PgInv, RequestFits, NamesIts, At, Run
<1>3. UNCHANGED <<project, pos, trashed, projects, started, used>>
  BY DEF ReorderReadsTrash
<1>4. OrderFits(run[r]) /\ Listing(run[r])
  BY <1>1 DEF PgInv, RequestFits, Listing, At
<1>5. PICK o : o = Placements(order, g)
  OBVIOUS
<1>6. o \in Seq(PageIds) /\ Elements(o) = Elements(order) \cup TrashIn(g)
  <2>1. PICK s : s = TrashInOrder(g)
    OBVIOUS
  <2>2. s \in Seq(PageIds) /\ Elements(s) = TrashIn(g) /\ o = order \o s
    BY <1>2, <1>5, <2>1, TrashIsListed DEF Placements
  <2> HIDE DEF order, g
  <2> QED
    BY <1>2, <2>2, ElementsOfBoth
<1>7. PICK q : q = [run[r] EXCEPT !.pc = "aside", !.order = o]
  OBVIOUS
<1>8. run' = [run EXCEPT ![r] = q]
  BY <1>1, <1>5, <1>7 DEF ReorderReadsTrash
<1>9. /\ q \in Run /\ q.pc = "aside" /\ q.to = g /\ q.order = o
      /\ q.page = run[r].page /\ q.disturbed = run[r].disturbed
  BY <1>1, <1>6, <1>7 DEF Run
<1>10. NamesIts(q) /\ ~Creating(q) /\ ~Placing(q)
  BY <1>2, <1>9 DEF NamesIts, Creating, Placing
<1>11. In(g) \subseteq Rows /\ Rows \subseteq used
  BY <1>2, PgTyped
<1>12. OrderFits(q)
  <2>1. \A p \in In(g) : project[p] = g
    BY DEF In
  <2>2. \A p \in In(g) : Covers(run[r], p) => Covers(q, p)
    BY <1>6, <1>9 DEF Covers, TrashIn
  <2> QED
    BY <1>4, <1>6, <1>9, <1>11, <2>1, <2>2 DEF OrderFits, TrashIn
<1>13. ASSUME NEW x \in Requests \ {r}, Creating(run[x])
       PROVE  run[x].page \notin Elements(q.order)
  BY <1>4, <1>6, <1>9, <1>11, <1>13 DEF PgInv, RequestFits, Newborn, TrashIn
<1> HIDE DEF g, order
<1> QED
  BY <1>3, <1>8, <1>9, <1>10, <1>12, <1>13, PgRunMoves DEF PgInv, TypeOK

\* The pages of a reorder take the places of its list.
LEMMA ReorderPlaceKeeps == ASSUME PgInv, NEW r \in Requests, ReorderPlaces(r) PROVE PgInv'
<1> DEFINE g == run[r].to
           order == run[r].order
           A == Elements(order)
           groups == IF ListsAreExact(r) THEN {} ELSE {project[p] : p \in A}
<1>1. run[r] \in Run /\ At(r, "place") /\ Aside(r) = A
  BY PgTyped DEF ReorderPlaces, Aside
<1>2. /\ g \in Projects /\ order \in Seq(PageIds) /\ OrderFits(run[r])
  BY <1>1 DEF PgInv, RequestFits, NamesIts, Listing, At, Run
<1>3. UNCHANGED <<project, trashed, projects, started, used>>
  BY DEF ReorderPlaces
<1>4. PICK to \in [A \cap Rows -> 0..(Len(order) - 1)] :
        /\ \A p \in A \cap Rows : to[p] \in Places(order, p)
        /\ \/ run' = [run EXCEPT ![r] = Idle] /\ UNCHANGED pos
           \/ /\ \A p \in A \cap Rows : ~Collides(r, p, to[p])
              /\ pos' = [p \in PageIds |-> IF p \in A \cap Rows THEN to[p] ELSE pos[p]]
              /\ run' = Disturb([run EXCEPT ![r] = Idle], r, groups, {})
  BY <1>1 DEF ReorderPlaces, Ends
<1>5. CASE run' = [run EXCEPT ![r] = Idle] /\ UNCHANGED pos
  <2> HIDE DEF g, order, A, groups
  <2> QED
    BY <1>3, <1>5, PgIdle, PgRunMoves DEF PgInv, TypeOK
<1>6. CASE /\ \A p \in A \cap Rows : ~Collides(r, p, to[p])
           /\ pos' = [p \in PageIds |-> IF p \in A \cap Rows THEN to[p] ELSE pos[p]]
           /\ run' = Disturb([run EXCEPT ![r] = Idle], r, groups, {})
  <2>1. A \subseteq PageIds /\ Len(order) \in Nat
    BY <1>2 DEF Elements
  <2>2. \A p \in A \cap Rows : to[p] \in 0..(Len(order) - 1) /\ to[p] \in Nat
                               /\ order[to[p] + 1] = p
    BY <1>2, <1>4, PlacesAre
  <2>3. \A p \in A \cap Rows : \A o \in In(project[p]) \ A : pos[o] # to[p]
    BY <1>1, <1>6 DEF Collides
  <2>4. ListsAreExact(r) => In(g) = A /\ Len(order) = Cardinality(A)
    BY <1>1 DEF ListsAreExact
  <2>5. run' \in [Requests -> Run] /\ DoneDisturbing(r, groups, {})
    BY <1>6, DisturbedRun
  <2> HIDE DEF g, order, A, groups
  <2>6. \A p \in PageIds : pos'[p] = IF p \in A \cap Rows THEN to[p] ELSE pos[p]
    BY <1>6
  <2>7. TypeOK'
    BY <1>3, <1>6, <2>2, <2>5 DEF PgInv, TypeOK
  <2>8. Rows' = Rows /\ \A h : In(h)' = In(h) /\ Comes(h) = In(h)
    BY <1>3 DEF Rows, In, Comes
  <2>9. Distinct'
    <3> SUFFICES ASSUME NEW h \in Projects, NEW x \in In(h), NEW y \in In(h),
                        pos'[x] = pos'[y]
                 PROVE  x = y
      BY <2>8 DEF Distinct, OneToOne
    <3>1. x \in Rows /\ y \in Rows /\ x \in PageIds /\ y \in PageIds
            /\ project[x] = h /\ project[y] = h
      BY PgTyped DEF In
    <3>2. CASE x \in A /\ y \in A
      BY <2>2, <2>6, <3>1, <3>2
    <3>3. CASE x \notin A /\ y \notin A
      BY <2>6, <3>1, <3>3 DEF PgInv, Distinct, OneToOne
    <3>4. CASE x \in A /\ y \notin A
      BY <2>3, <2>6, <3>1, <3>4
    <3>5. CASE x \notin A /\ y \in A
      BY <2>3, <2>6, <3>1, <3>5
    <3> QED
      BY <3>2, <3>3, <3>4, <3>5
  <2>10. Rows' \subseteq used'
    BY <1>3, <2>8 DEF PgInv
  <2>11. RequestFits(r)'
    <3>1. run'[r] = Idle
      BY <2>5 DEF DoneDisturbing
    <3> QED
      BY <3>1, PgIdle DEF RequestFits, NamesIts, Creating, Listing, Placing
  <2>12. ASSUME NEW x \in Requests \ {r} PROVE RequestFits(x)'
    <3>1. RequestFits(x)
      BY DEF PgInv
    <3>2. Creating(run[x]) => run[x].page \notin Rows'
      BY <2>8, <3>1 DEF RequestFits, Newborn
    <3>3. ASSUME Listing(run[x]), run'[x].disturbed # TRUE
          PROVE  /\ \A p \in Comes(run[x].to) : Covers(run[x], p)'
                 /\ \A p \in Elements(run[x].order) \cap Rows' : project'[p] = run[x].to
      <4>1. /\ run'[x].order = run[x].order /\ run'[x].pc = run[x].pc
            /\ run[x].disturbed # TRUE
        BY <2>5, <3>3 DEF DoneDisturbing
      <4> QED
        BY <1>3, <2>8, <3>1, <3>3, <4>1 DEF RequestFits, OrderFits, Covers
    <3>4. ASSUME Placing(run[x]), run[x].to \notin groups, run'[x].disturbed # TRUE,
                 NEW p \in Comes(run[x].to)
          PROVE  pos'[p] < run[x].pos
      <4>1. /\ run[x].to \in Projects /\ run[x].pos \in Nat /\ p \in In(run[x].to)
            /\ \A o \in In(run[x].to) : pos[o] < run[x].pos
        <5>1. run[x].disturbed # TRUE
          BY <2>5, <3>4 DEF DoneDisturbing
        <5> QED
          BY <2>8, <3>1, <3>4, <5>1, PgTyped DEF RequestFits, NamesIts, Placing, PastTheEnd, Run
      <4>2. p \in PageIds /\ project[p] = run[x].to /\ p \in Rows
        BY <4>1, PgTyped DEF In
      <4>3. CASE p \notin A
        BY <2>6, <4>1, <4>2, <4>3
      <4>4. CASE p \in A
        <5>1. ListsAreExact(r)
          BY <3>4, <4>2, <4>4 DEF groups
        <5>2. In(g) = A /\ run[x].to = g /\ Len(order) = Cardinality(In(g))
          BY <2>4, <4>2, <4>4, <5>1 DEF In
        <5>3. OneToOne(pos, In(g)) /\ IsFiniteSet(In(g)) /\ \A o \in In(g) : pos[o] \in Nat
          BY <1>2, PgTyped DEF PgInv, Distinct
        <5>4. Cardinality(In(g)) <= run[x].pos
          BY <4>1, <5>2, <5>3, FewBelow
        <5>5. pos'[p] = to[p] /\ to[p] \in 0..(Len(order) - 1)
          BY <2>2, <2>6, <4>2, <4>4
        <5> QED
          BY <2>1, <4>1, <5>2, <5>4, <5>5
      <4> QED
        BY <4>3, <4>4
    <3> QED
      BY <1>3, <2>5, <3>2, <3>3, <3>4, OthersFit
  <2> QED
    BY <2>7, <2>9, <2>10, <2>11, <2>12 DEF PgInv
<1> QED
  BY <1>4, <1>5, <1>6

\* What a request asks for is there.
LEMMA PgAsks ==
  ASSUME PgInv, NEW r \in Requests, NEW p \in PageIds, NEW g,
         \/ g \in Projects /\ (CreateAsked(r, p, g) \/ MoveAsked(r, p, g))
         \/ TrashAsked(r, p) \/ RestoreAsked(r, p)
  PROVE  PgInv'
<1>1. /\ started' \in 0..MaxStarted
      /\ UNCHANGED <<project, pos, trashed, projects>>
  BY PgConstants DEF CreateAsked, MoveAsked, TrashAsked, RestoreAsked, Starts, PgInv, TypeOK
<1>2. CASE g \in Projects /\ CreateAsked(r, p, g)
  <2> DEFINE q == [Idle EXCEPT !.pc = "create", !.page = p, !.to = g]
  <2>1. run' = [run EXCEPT ![r] = q] /\ used' = used \cup {p} /\ p \notin used
    BY <1>2 DEF CreateAsked, Starts
  <2>2. /\ q \in Run /\ q.pc = "create" /\ q.page = p /\ q.to = g
    BY <1>2, PgIdle DEF Idle, Run
  <2>3. NamesIts(q) /\ ~Listing(q) /\ ~Placing(q)
    BY <1>2, <2>2 DEF NamesIts, Listing, Placing
  <2>4. p \in used' \ Rows
    BY <2>1, PgTyped
  <2>5. ASSUME NEW x \in Requests \ {r}
        PROVE  /\ Creating(run[x]) => run[x].page # p
               /\ Listing(run[x]) => p \notin Elements(run[x].order)
    BY <2>1 DEF PgInv, RequestFits, Newborn, OrderFits
  <2> HIDE DEF q
  <2> QED
    BY <1>1, <2>1, <2>2, <2>3, <2>4, <2>5, PgRunMoves DEF PgInv, TypeOK
<1>3. CASE \/ g \in Projects /\ MoveAsked(r, p, g)
         \/ TrashAsked(r, p) \/ RestoreAsked(r, p)
  <2>1. PICK q :
          /\ run' = [run EXCEPT ![r] = q]
          /\ \/ g \in Projects /\ q = [Idle EXCEPT !.pc = "check", !.page = p, !.to = g]
             \/ q = [Idle EXCEPT !.pc = "trash", !.page = p]
             \/ q = [Idle EXCEPT !.pc = "restore", !.page = p]
    BY <1>3 DEF MoveAsked, TrashAsked, RestoreAsked, Starts
  <2>2. /\ q \in Run /\ q.pc \in {"check", "trash", "restore"} /\ q.page = p
        /\ q.pc = "check" => q.to = g /\ g \in Projects
    BY <2>1, PgIdle DEF Idle, Run
  <2>3. NamesIts(q) /\ ~Creating(q) /\ ~Listing(q) /\ ~Placing(q)
    BY <2>2 DEF NamesIts, Creating, Listing, Placing
  <2>4. used' = used
    BY <1>3 DEF MoveAsked, TrashAsked, RestoreAsked
  <2> QED
    BY <1>1, <2>1, <2>2, <2>3, <2>4, PgRunMoves DEF PgInv, TypeOK
<1> QED
  BY <1>2, <1>3

LEMMA ReorderAskKeeps ==
  ASSUME PgInv, NEW r \in Requests, NEW g \in Projects, NEW order \in Orders,
         ReorderAsked(r, g, order)
  PROVE  PgInv'
<1> DEFINE q == [Idle EXCEPT !.pc = "lock", !.to = g, !.order = order]
<1>1. order \in Seq(PageIds)
  <2>1. PICK k \in 1..Cardinality(PageIds) : order \in [1..k -> PageIds]
    BY DEF Orders
  <2>2. k \in Nat
    BY PgConstants, FS_CardinalityType
  <2> QED
    BY <2>1, <2>2
<1>2. run' = [run EXCEPT ![r] = q] /\ started' \in 0..MaxStarted
      /\ UNCHANGED <<project, pos, trashed, projects, used>>
  BY PgConstants DEF ReorderAsked, Starts, PgInv, TypeOK
<1>3. q \in Run /\ q.pc = "lock" /\ q.to = g
  BY <1>1, PgIdle DEF Idle, Run
<1>4. NamesIts(q) /\ ~Creating(q) /\ ~Listing(q) /\ ~Placing(q)
  BY <1>3 DEF NamesIts, Creating, Listing, Placing
<1> HIDE DEF q
<1> QED
  BY <1>2, <1>3, <1>4, PgRunMoves DEF PgInv, TypeOK

\* The last position is read and none of the project is behind it.
LEMMA PositionReadKeeps ==
  ASSUME PgInv, NEW r \in Requests, CreateReads(r) \/ MoveReadsPosition(r)
  PROVE  PgInv'
<1> DEFINE g == run[r].to
           k == NextPosition(g)
<1>1. PICK pc \in {"insert", "update"} :
        /\ At(r, IF pc = "insert" THEN "create" ELSE "position")
        /\ run' = [run EXCEPT ![r].pc = pc, ![r].pos = k]
        /\ UNCHANGED <<project, pos, trashed, projects, started, used>>
  BY DEF CreateReads, MoveReadsPosition
<1> DEFINE q == [run[r] EXCEPT !.pc = pc, !.pos = k]
<1>2. run \in [Requests -> Run] /\ run[r] \in Run /\ NamesIts(run[r])
  BY PgTyped DEF PgInv, TypeOK, RequestFits
<1>3. run' = [run EXCEPT ![r] = q]
  BY <1>1, <1>2
<1>4. g \in Projects /\ run[r].page \in PageIds
  BY <1>1, <1>2 DEF NamesIts, At
<1>5. k = After(pos, In(g))
  BY DEF NextPosition, After
<1>6. k \in Nat /\ \A p \in In(g) : pos[p] < k
  <2>1. IsFiniteSet(In(g)) /\ \A p \in In(g) : pos[p] \in Nat
    BY PgTyped
  <2> QED
    BY <1>5, <2>1, AfterIsAfter
<1>7. PICK z : z = q
  OBVIOUS
<1>8. /\ z \in Run /\ z.pc = pc /\ z.to = g /\ z.page = run[r].page /\ z.pos = k
  BY <1>2, <1>6, <1>7 DEF Run
<1>9. NamesIts(z) /\ ~Listing(z) /\ PastTheEnd(z)
  BY <1>4, <1>6, <1>8 DEF NamesIts, Listing, PastTheEnd
<1>10. Creating(z) => Creating(run[r])
  BY <1>1, <1>8 DEF Creating, At
<1>11. Creating(z) => Newborn(r)
  BY <1>10 DEF PgInv, RequestFits
<1>12. /\ started' \in 0..MaxStarted
       /\ trashed' \in SUBSET PageIds /\ trashed \subseteq trashed'
       /\ projects' \in SUBSET Projects /\ used' \in SUBSET PageIds /\ used' = used
  BY <1>1 DEF PgInv, TypeOK
<1>13. Creating(z) =>
         /\ z.page \in used' \ Rows
         /\ \A x \in Requests \ {r} :
              /\ Creating(run[x]) => run[x].page # z.page
              /\ Listing(run[x]) => z.page \notin Elements(run[x].order)
  BY <1>8, <1>11, <1>12 DEF Newborn
<1>14. run' = [run EXCEPT ![r] = z] /\ UNCHANGED <<project, pos>> /\ z \in Run
  BY <1>1, <1>3, <1>7, <1>8
<1> HIDE DEF q, g, k
<1> QED
  BY <1>9, <1>12, <1>13, <1>14, PgRunMoves

\* A move finds its project, a reorder sets its rows aside, a page goes to the trash.
LEMMA PgGoesOn ==
  ASSUME PgInv, NEW r \in Requests, MoveChecks(r) \/ ReorderSetsAside(r)
                                     \/ (SetsTrashed(r) /\ At(r, "trash"))
  PROVE  PgInv'
<1>1. run \in [Requests -> Run] /\ run[r] \in Run /\ NamesIts(run[r])
  BY PgTyped DEF PgInv, TypeOK, RequestFits
<1>2. UNCHANGED <<project, pos, projects, started, used>>
  BY DEF MoveChecks, ReorderSetsAside, SetsTrashed
<1>3. trashed' \in SUBSET PageIds /\ trashed \subseteq trashed'
  <2>1. SetsTrashed(r) => run[r].page \in PageIds
    BY <1>1 DEF SetsTrashed, NamesIts, At
  <2>2. trashed \in SUBSET PageIds
    BY PgTyped
  <2> QED
    BY <2>1, <2>2 DEF MoveChecks, ReorderSetsAside, SetsTrashed, At
<1>4. CASE run' = [run EXCEPT ![r] = Idle]
  BY <1>2, <1>3, <1>4, PgIdle, PgRunMoves DEF PgInv, TypeOK
<1>5. CASE At(r, "check") /\ run' = [run EXCEPT ![r].pc = "position"]
  <2>1. PICK z : z = [run[r] EXCEPT !.pc = "position"]
    OBVIOUS
  <2>2. z \in Run /\ z.pc = "position" /\ z.page = run[r].page /\ z.to = run[r].to
    BY <1>1, <2>1 DEF Run
  <2>3. run' = [run EXCEPT ![r] = z]
    BY <1>1, <1>5, <2>1
  <2>4. NamesIts(z) /\ ~Creating(z) /\ ~Listing(z) /\ ~Placing(z)
    BY <1>1, <1>5, <2>2 DEF NamesIts, Creating, Listing, Placing, At
  <2> QED
    BY <1>2, <1>3, <2>2, <2>3, <2>4, PgRunMoves DEF PgInv, TypeOK
<1>6. CASE At(r, "aside") /\ run' = [run EXCEPT ![r].pc = "place"]
  <2>1. PICK z : z = [run[r] EXCEPT !.pc = "place"]
    OBVIOUS
  <2>2. /\ z \in Run /\ z.pc = "place" /\ z.to = run[r].to /\ z.order = run[r].order
        /\ z.disturbed = run[r].disturbed
    BY <1>1, <2>1 DEF Run
  <2>3. run' = [run EXCEPT ![r] = z]
    BY <1>1, <1>6, <2>1
  <2>4. NamesIts(z) /\ ~Creating(z) /\ ~Placing(z)
    BY <1>1, <1>6, <2>2 DEF NamesIts, Creating, Placing, At
  <2>5. Listing(run[r]) /\ OrderFits(run[r])
    BY <1>6 DEF PgInv, RequestFits, Listing, At
  <2>6. OrderFits(z)
    BY <1>6, <2>2, <2>5 DEF OrderFits, Covers, At
  <2>7. ASSUME NEW x \in Requests \ {r}, Creating(run[x])
        PROVE  run[x].page \notin Elements(z.order)
    BY <2>2, <2>5, <2>7 DEF PgInv, RequestFits, Newborn
  <2> QED
    BY <1>2, <1>3, <2>2, <2>3, <2>4, <2>6, <2>7, PgRunMoves DEF PgInv, TypeOK
<1> QED
  BY <1>4, <1>5, <1>6 DEF MoveChecks, ReorderSetsAside, SetsTrashed, Goes, Ends, At

\* A page comes back, and a reorder between its two reads that has it in neither list
\* knows it.
LEMMA RestoreKeeps ==
  ASSUME PgInv, NEW r \in Requests, SetsTrashed(r), At(r, "restore") PROVE PgInv'
<1> DEFINE p == run[r].page
<1>1. /\ run' = Overlook([run EXCEPT ![r] = Idle], p) /\ trashed' = trashed \ {p}
      /\ UNCHANGED <<project, pos, projects, started, used>>
  BY DEF SetsTrashed, At
<1>2. run \in [Requests -> Run]
  BY DEF PgInv, TypeOK
<1>3. run'[r] = Idle
  BY <1>1, <1>2 DEF Overlook, Idle
<1>4. ASSUME NEW x \in Requests \ {r}
      PROVE  /\ run'[x] \in Run
             /\ run'[x].pc = run[x].pc /\ run'[x].page = run[x].page
             /\ run'[x].to = run[x].to /\ run'[x].order = run[x].order
             /\ run'[x].pos = run[x].pos
             /\ run[x].disturbed = TRUE => run'[x].disturbed = TRUE
             /\ run'[x].disturbed # TRUE =>
                  ~(/\ run[x].pc = "list" /\ run[x].to = project[p]
                    /\ p \in trashed \ Elements(run[x].order))
  <2> DEFINE hit == /\ run[x].pc = "list" /\ run[x].to = project[p]
                    /\ p \in trashed \ Elements(run[x].order)
  <2>1. run'[x] = IF hit THEN [run[x] EXCEPT !.disturbed = TRUE] ELSE run[x]
    BY <1>1, <1>2 DEF Overlook
  <2>2. run[x] \in Run
    BY <1>2
  <2>3. CASE hit
    <3>1. run'[x] = [run[x] EXCEPT !.disturbed = TRUE]
      BY <2>1, <2>3
    <3>2. /\ run'[x] \in Run /\ run'[x].disturbed = TRUE
          /\ run'[x].pc = run[x].pc /\ run'[x].page = run[x].page
          /\ run'[x].to = run[x].to /\ run'[x].order = run[x].order
          /\ run'[x].pos = run[x].pos
      <4> HIDE DEF hit
      <4> QED
        BY <2>2, <3>1 DEF Run
    <3> HIDE DEF hit
    <3> QED
      BY <3>2
  <2>4. CASE ~hit
    <3>1. run'[x] = run[x]
      BY <2>1, <2>4
    <3> QED
      BY <2>2, <2>4, <3>1
  <2> HIDE DEF hit
  <2> QED
    BY <2>3, <2>4
<1> HIDE DEF p
<1>5. run' \in [Requests -> Run]
  <2>1. run' = [x \in Requests |-> run'[x]]
    BY <1>1 DEF Overlook
  <2> QED
    BY <1>3, <1>4, <2>1, PgIdle
<1>6. DoneDisturbing(r, {}, {})
  BY <1>3, <1>4 DEF DoneDisturbing
<1>7. Rows' = Rows /\ \A h : In(h)' = In(h) /\ Comes(h) = In(h)
  BY <1>1 DEF Rows, In, Comes
<1>8. TypeOK' /\ Distinct' /\ Rows' \subseteq used'
  BY <1>1, <1>5, <1>7 DEF PgInv, TypeOK, Distinct, OneToOne
<1>9. RequestFits(r)'
  BY <1>3, PgIdle DEF RequestFits, NamesIts, Creating, Listing, Placing
<1>10. ASSUME NEW x \in Requests \ {r} PROVE RequestFits(x)'
  <2>1. RequestFits(x)
    BY DEF PgInv
  <2>2. Creating(run[x]) => run[x].page \notin Rows'
    BY <1>7, <2>1 DEF RequestFits, Newborn
  <2>3. ASSUME Listing(run[x]), run'[x].disturbed # TRUE
        PROVE  /\ \A o \in Comes(run[x].to) : Covers(run[x], o)'
               /\ \A o \in Elements(run[x].order) \cap Rows' : project'[o] = run[x].to
    <3>1. OrderFits(run[x]) /\ run[x].disturbed # TRUE
      BY <1>4, <2>1, <2>3 DEF RequestFits
    <3>2. ASSUME NEW o \in In(run[x].to) PROVE Covers(run[x], o)'
      <4>1. Covers(run[x], o) /\ project[o] = run[x].to
        BY <3>1 DEF OrderFits, In
      <4>2. CASE o = p
        BY <1>4, <2>3, <4>1, <4>2 DEF Covers
      <4>3. CASE o # p
        BY <1>1, <1>4, <4>1, <4>3 DEF Covers
      <4> QED
        BY <4>2, <4>3
    <3> QED
      BY <1>1, <1>7, <3>1, <3>2 DEF OrderFits
  <2>4. ASSUME Placing(run[x]), run'[x].disturbed # TRUE
        PROVE  \A o \in Comes(run[x].to) : pos'[o] < run[x].pos
    <3>1. run[x].disturbed # TRUE
      BY <1>4, <2>4
    <3> QED
      BY <1>1, <1>7, <2>1, <2>4, <3>1 DEF RequestFits, PastTheEnd
  <2> QED
    BY <1>1, <1>6, <2>2, <2>3, <2>4, OthersFit
<1> QED
  BY <1>8, <1>9, <1>10 DEF PgInv

LEMMA InsertKeeps == ASSUME PgInv, NEW r \in Requests, CreateInserts(r) PROVE PgInv'
<1> DEFINE p == run[r].page
           g == run[r].to
           k == run[r].pos
<1>1. /\ At(r, "insert") /\ run[r] \in Run /\ Newborn(r)
  BY PgTyped DEF CreateInserts, PgInv, RequestFits, Creating, At
<1>2. p \in used /\ g \in Projects /\ k \in Nat
  BY <1>1 DEF Newborn, PgInv, RequestFits, NamesIts, At, Run
<1>3. UNCHANGED <<trashed, projects, started, used>>
  BY DEF CreateInserts
<1>4. CASE ProjectIsThere(g) /\ Vacant(p, g, k)
  <2>1. /\ project' = [project EXCEPT ![p] = g] /\ pos' = [pos EXCEPT ![p] = k]
        /\ run' = Disturb([run EXCEPT ![r] = Idle], r, {g}, {})
    BY <1>4 DEF CreateInserts
  <2>2. \A x \in Requests \ {r} :
          /\ Creating(run[x]) => run[x].page # p
          /\ Listing(run[x]) => p \notin Elements(run[x].order)
    BY <1>1 DEF Newborn
  <2> HIDE DEF p, g, k
  <2> QED
    BY <1>2, <1>3, <1>4, <2>1, <2>2, PageComes
<1>5. CASE ~(ProjectIsThere(g) /\ Vacant(p, g, k))
  <2>1. run' = [run EXCEPT ![r] = Idle] /\ UNCHANGED <<project, pos>>
    BY <1>5 DEF CreateInserts, Ends
  <2> QED
    BY <1>3, <2>1, PgIdle, PgRunMoves DEF PgInv, TypeOK
<1> QED
  BY <1>4, <1>5

LEMMA MoveKeeps == ASSUME PgInv, NEW r \in Requests, MoveUpdates(r) PROVE PgInv'
<1> DEFINE p == run[r].page
           g == run[r].to
           k == run[r].pos
<1>1. At(r, "update") /\ run[r] \in Run
  BY PgTyped DEF MoveUpdates
<1>2. p \in PageIds /\ g \in Projects /\ k \in Nat
  BY <1>1 DEF PgInv, RequestFits, NamesIts, At, Run
<1>3. UNCHANGED <<trashed, projects, started, used>>
  BY DEF MoveUpdates
<1>4. CASE Live(p) /\ ProjectIsThere(g) /\ Vacant(p, g, k)
  <2>1. /\ project' = [project EXCEPT ![p] = g] /\ pos' = [pos EXCEPT ![p] = k]
        /\ run' = Disturb([run EXCEPT ![r] = Idle], r, {g}, {p})
    BY <1>4 DEF MoveUpdates
  <2>2. p \in Rows /\ p \in used
    BY <1>4, PgTyped DEF Live
  <2>3. \A x \in Requests \ {r} : Creating(run[x]) => run[x].page # p
    BY <2>2 DEF PgInv, RequestFits, Newborn
  <2> HIDE DEF p, g, k
  <2> QED
    BY <1>2, <1>3, <1>4, <2>1, <2>2, <2>3, PageComes
<1>5. CASE ~(Live(p) /\ ProjectIsThere(g) /\ Vacant(p, g, k))
  <2>1. run' = [run EXCEPT ![r] = Idle] /\ UNCHANGED <<project, pos>>
    BY <1>5 DEF MoveUpdates, Ends
  <2> QED
    BY <1>3, <2>1, PgIdle, PgRunMoves DEF PgInv, TypeOK
<1> QED
  BY <1>4, <1>5

LEMMA PgQuiet == ASSUME PgInv, UNCHANGED vars PROVE PgInv'
<1>1. UNCHANGED <<project, pos, trashed, projects, run, started, used>>
  BY DEF vars
<1>2. TypeOK' /\ Rows' = Rows /\ \A g : In(g)' = In(g)
  BY <1>1 DEF PgInv, TypeOK, Rows, In
<1>3. Distinct'
  BY <1>1, <1>2 DEF PgInv, Distinct, OneToOne
<1>4. ASSUME NEW r \in Requests PROVE RequestFits(r)'
  <2>1. RequestFits(r)
    BY DEF PgInv
  <2>2. Newborn(r) => Newborn(r)'
    BY <1>1, <1>2 DEF Newborn
  <2>3. OrderFits(run[r]) => OrderFits(run[r])'
    BY <1>1 DEF OrderFits, In, Rows, Covers
  <2>4. PastTheEnd(run[r]) => PastTheEnd(run[r])'
    BY <1>1 DEF PastTheEnd, In
  <2> QED
    BY <1>1, <2>1, <2>2, <2>3, <2>4 DEF RequestFits
<1> QED
  BY <1>1, <1>2, <1>3, <1>4 DEF PgInv

LEMMA PgStepKeeps == ASSUME PgInv, [Next]_vars PROVE PgInv'
<1>1. CASE UNCHANGED vars
  BY <1>1, PgQuiet
<1>2. ASSUME NEW r \in Requests, NEW p \in PageIds, NEW g \in Projects,
             CreateAsked(r, p, g) \/ MoveAsked(r, p, g)
      PROVE  PgInv'
  BY <1>2, PgAsks
<1>3. ASSUME NEW r \in Requests, NEW p \in PageIds, TrashAsked(r, p) \/ RestoreAsked(r, p)
      PROVE  PgInv'
  <2>1. PICK g : g = None
    OBVIOUS
  <2> QED
    BY <1>3, PgAsks
<1>4. ASSUME NEW r \in Requests, NEW g \in Projects, NEW order \in Orders,
             ReorderAsked(r, g, order)
      PROVE  PgInv'
  BY <1>4, ReorderAskKeeps
<1>5. ASSUME NEW r \in Requests,
             \/ CreateReads(r) \/ CreateInserts(r)
             \/ MoveChecks(r) \/ MoveReadsPosition(r) \/ MoveUpdates(r) \/ SetsTrashed(r)
             \/ ReorderReadsLive(r) \/ ReorderReadsTrash(r)
             \/ ReorderSetsAside(r) \/ ReorderPlaces(r)
      PROVE  PgInv'
  <2>1. SetsTrashed(r) => At(r, "trash") \/ At(r, "restore")
    BY DEF SetsTrashed
  <2> QED
    BY <1>5, <2>1, PositionReadKeeps, InsertKeeps, PgGoesOn, RestoreKeeps, MoveKeeps,
       ReorderReadsLiveKeeps, ReorderReadsTrashKeeps, ReorderPlaceKeeps
<1>6. ASSUME NEW p \in PageIds, HardDeletes(p) PROVE PgInv'
  BY <1>6, PagesVanish DEF HardDeletes, PgInv, TypeOK
<1>7. ASSUME NEW g \in Projects, ProjectGoes(g) PROVE PgInv'
  <2>1. In(g) \in SUBSET PageIds /\ projects' \in SUBSET Projects /\ Vanish(In(g))
    BY <1>7, PgTyped DEF ProjectGoes, PgInv, TypeOK
  <2> QED
    BY <2>1, PagesVanish
<1> QED
  BY <1>1, <1>2, <1>3, <1>4, <1>5, <1>6, <1>7 DEF Next

\* What PgInv says of a reorder that is about to give its pages their places.
LEMMA PgReordersFit == PgInv => TrashGivesWay /\ NewPageComesLast
<1> SUFFICES ASSUME PgInv PROVE TrashGivesWay /\ NewPageComesLast
  OBVIOUS
<1>1. ASSUME NEW r \in Requests, At(r, "place"), run[r].disturbed # TRUE
      PROVE  \A p \in Aside(r) \cap Rows : \A k : ~Collides(r, p, k)
  <2>1. OrderFits(run[r]) /\ Aside(r) = Elements(run[r].order) /\ run[r].pc = "place"
    BY <1>1 DEF PgInv, RequestFits, Listing, At, Aside
  <2>2. \A p \in Aside(r) \cap Rows : project[p] = run[r].to
    BY <1>1, <2>1 DEF OrderFits
  <2>3. In(run[r].to) \subseteq Aside(r)
    BY <1>1, <2>1 DEF OrderFits, Covers
  <2> QED
    BY <2>2, <2>3 DEF Collides
<1>2. ASSUME NEW r \in Requests, run[r].pc \in {"insert", "update"}
      PROVE  run[r].disturbed = TRUE \/ \A p \in In(run[r].to) : pos[p] < run[r].pos
  BY <1>2 DEF PgInv, RequestFits, Placing, PastTheEnd
<1> QED
  BY <1>1, <1>2 DEF TrashGivesWay, NewPageComesLast

LEMMA StructureMovesPages ==
  [PagesMove \/ ProjectsMove \/ TrashMoves]_<<part, vars, pjVars, tsVars>> => [Next]_vars
BY DEF PagesMove, ProjectsMove, TrashMoves

LEMMA PagesStayInOrder == Structure => []PgInv
<1>1. StructureInit => PgInv
  BY PgInitHolds DEF StructureInit
<1>2. PgInv /\ [PagesMove \/ ProjectsMove \/ TrashMoves]_<<part, vars, pjVars, tsVars>> => PgInv'
  BY PgStepKeeps, StructureMovesPages
<1> QED
  BY <1>1, <1>2, PTL DEF Structure

\* Rows of pages and the requests that work on them keep their types.
THEOREM StructureTyped == Structure => []TypeOK
<1>1. PgInv => TypeOK
  BY DEF PgInv
<1> QED
  BY <1>1, PagesStayInOrder, PTL


-----------------------------------------------------------------------------
(* Projects: what a transaction sees of a group of siblings has no position  *)
(* twice, and no two transactions write what is the other's.                 *)

InLock(q) == q.pc \in {"insert", "aside", "place"}
Reordering(q) == q.pc \in {"aside", "place"}

\* The position of a project as the transaction of q sees it.
SeenIn(q, n) == IF n \in DOMAIN q.mine THEN q.mine[n] ELSE nodePos[n]

\* Siblings have different positions, for those who read and for the writer q.
SeesApart(q) ==
  \A g \in Pj!Group : \A x, y \in Pj!Children(g) : SeenIn(q, x) = SeenIn(q, y) => x = y

\* What a reorder has written so far: first every row out of the way, each to a
\* number of its own, and then every row to its place.
WritesFit(q) ==
  /\ q.todo \subseteq Elements(q.order) /\ Elements(q.order) \subseteq nodeUsed
  /\ DOMAIN q.mine \subseteq Elements(q.order) \cap Pj!Rows
  /\ q.pc = "aside" =>
       /\ (Elements(q.order) \ q.todo) \cap Pj!Rows \subseteq DOMAIN q.mine
       /\ \A m \in DOMAIN q.mine : m \notin q.todo /\ q.mine[m] = -(nodePos[m] + 1)
  /\ q.pc = "place" =>
       /\ Elements(q.order) \cap Pj!Rows \subseteq DOMAIN q.mine
       /\ \A m \in DOMAIN q.mine :
            IF m \in q.todo THEN q.mine[m] < 0 ELSE q.mine[m] = Place(q.order, m)

EndOfGroup(q) == q.disturbed = TRUE \/ \A n \in Pj!Children(q.to) : nodePos[n] < q.pos

NodeRequestFits(q) ==
  /\ SeesApart(q)
  /\ IF Reordering(q) THEN WritesFit(q) ELSE DOMAIN q.mine = {}
  /\ Creating(q) => q.node \in nodeUsed \ Pj!Rows
  /\ q.pc = "insert" => EndOfGroup(q)

\* Of two requests: they create different projects, write different rows to
\* different positions, and do not hold the lock of the same group.
Beside(q, z) ==
  /\ Creating(q) /\ Creating(z) => q.node # z.node
  /\ Creating(q) /\ Reordering(z) => q.node \notin Elements(z.order)
  /\ \A x \in DOMAIN q.mine, y \in DOMAIN z.mine :
       x # y /\ (parent[x] = parent[y] => q.mine[x] # z.mine[y])
  /\ InLock(q) /\ InLock(z) => q.to # z.to

\* projects_position_unique
SiblingsApart == \A g \in Pj!Group : OneToOne(nodePos, Pj!Children(g))

PjInv ==
  /\ Pj!TypeOK /\ SiblingsApart /\ Pj!Rows \subseteq nodeUsed
  /\ \A r \in Requests : NodeRequestFits(nodeRun[r])
  /\ \A r \in Requests : \A x \in Requests \ {r} : Beside(nodeRun[r], nodeRun[x])

LEMMA PjConstants ==
  /\ IsFiniteSet(PageIds) /\ MaxProjectRequests \in Nat
  /\ Root \notin PageIds /\ None \notin PageIds /\ None # Root
<1>1. Pj!IsFiniteSet(PageIds) <=> IsFiniteSet(PageIds)
  BY DEF Pj!IsFiniteSet, IsFiniteSet
<1> QED
  BY <1>1, StructureAssumption DEF Pj!ProjectsAssumption

LEMMA PjSame ==
  /\ \A s : Pj!Elements(s) = Elements(s)
  /\ \A S : Pj!Cardinality(S) = Cardinality(S)
BY DEF Pj!Elements, Elements, Pj!Cardinality, Cardinality, Pj!IsFiniteSet, IsFiniteSet

LEMMA PjTyped ==
  ASSUME Pj!TypeOK
  PROVE  /\ parent \in [PageIds -> PageIds \cup {Root, None}] /\ nodePos \in [PageIds -> Nat]
         /\ nodeRun \in [Requests -> Pj!Run] /\ nodeUsed \subseteq PageIds
         /\ Pj!Rows \subseteq PageIds
         /\ \A g : Pj!Children(g) \subseteq PageIds /\ IsFiniteSet(Pj!Children(g))
         /\ \A g \in Pj!Group : Pj!Children(g) \subseteq Pj!Rows
         /\ Pj!Group = PageIds \cup {Root}
<1>1. Pj!Group = PageIds \cup {Root}
  BY DEF Pj!Group
<1>2. /\ parent \in [PageIds -> PageIds \cup {Root, None}] /\ nodePos \in [PageIds -> Nat]
      /\ nodeRun \in [Requests -> Pj!Run] /\ nodeUsed \subseteq PageIds
  BY <1>1 DEF Pj!TypeOK
<1>3. \A g : Pj!Children(g) \subseteq PageIds
  BY DEF Pj!Children
<1>4. \A g : IsFiniteSet(Pj!Children(g))
  BY <1>3, PjConstants, FS_Subset
<1>5. \A g \in Pj!Group : Pj!Children(g) \subseteq Pj!Rows
  BY <1>1, PjConstants DEF Pj!Children, Pj!Rows
<1> QED
  BY <1>1, <1>2, <1>3, <1>4, <1>5 DEF Pj!Rows

\* What a transaction has written are numbers for projects.
Numbers == UNION {[S -> Int] : S \in SUBSET PageIds}

LEMMA NumbersAre ==
  /\ \A S \in SUBSET PageIds : \A f \in [S -> Int] : f \in Numbers
  /\ \A f \in Numbers : DOMAIN f \subseteq PageIds /\ \A m \in DOMAIN f : f[m] \in Int
<1>1. ASSUME NEW f \in Numbers
      PROVE  DOMAIN f \subseteq PageIds /\ \A m \in DOMAIN f : f[m] \in Int
  <2>1. PICK S \in SUBSET PageIds : f \in [S -> Int]
    BY DEF Numbers
  <2> QED
    BY <2>1
<1>2. ASSUME NEW S \in SUBSET PageIds, NEW f \in [S -> Int] PROVE f \in Numbers
  BY DEF Numbers
<1> QED
  BY <1>1, <1>2

NodeRequest ==
  [pc : {"idle", "create", "insert", "parent", "descend", "loops", "position",
         "update", "delete", "lock", "aside", "place"},
   node : PageIds \cup {None}, to : PageIds \cup {Root}, pos : Nat,
   order : Seq(PageIds), todo : SUBSET PageIds, mine : Numbers, disturbed : BOOLEAN]

LEMMA PjRun == Pj!Run = NodeRequest
BY DEF Pj!Run, NodeRequest, Numbers, Pj!Group

LEMMA PjRunMoves ==
  ASSUME PjInv, NEW r \in Requests, NEW q \in NodeRequest,
         nodeRun' = [nodeRun EXCEPT ![r] = q], UNCHANGED <<parent, nodePos>>,
         nodeStarted' \in 0..MaxProjectRequests, crossed' \in BOOLEAN,
         nodeUsed' \in SUBSET PageIds, nodeUsed \subseteq nodeUsed',
         NodeRequestFits(q)',
         \A x \in Requests \ {r} : Beside(q, nodeRun[x]) /\ Beside(nodeRun[x], q)
  PROVE  PjInv'
<1>1. Pj!TypeOK'
  BY PjRun DEF PjInv, Pj!TypeOK
<1>2. nodeRun \in [Requests -> Pj!Run]
  BY PjTyped DEF PjInv
<1>3. nodeRun'[r] = q /\ \A x \in Requests \ {r} : nodeRun'[x] = nodeRun[x]
  BY <1>2
<1>4. Pj!Rows' = Pj!Rows /\ \A g : Pj!Children(g)' = Pj!Children(g)
  BY DEF Pj!Rows, Pj!Children
<1>5. SiblingsApart' /\ Pj!Rows' \subseteq nodeUsed'
  BY <1>4 DEF PjInv, SiblingsApart, OneToOne, Pj!Group
<1>6. ASSUME NEW z, NodeRequestFits(z) PROVE NodeRequestFits(z)'
  <2>1. SeesApart(z)'
    BY <1>4, <1>6 DEF NodeRequestFits, SeesApart, SeenIn, Pj!Group
  <2>2. WritesFit(z) => WritesFit(z)'
    BY <1>4 DEF WritesFit
  <2>3. EndOfGroup(z) => EndOfGroup(z)'
    BY <1>4 DEF EndOfGroup
  <2> QED
    BY <1>4, <1>6, <2>1, <2>2, <2>3 DEF NodeRequestFits
<1>7. \A z, y : Beside(z, y) => Beside(z, y)'
  BY DEF Beside
<1>8. ASSUME NEW x \in Requests PROVE NodeRequestFits(nodeRun[x])'
  BY <1>3, <1>6 DEF PjInv
<1>9. ASSUME NEW x \in Requests, NEW y \in Requests \ {x}
      PROVE  Beside(nodeRun[x], nodeRun[y])'
  <2>1. Beside(nodeRun'[x], nodeRun'[y])
    BY <1>3 DEF PjInv
  <2> QED
    BY <1>7, <2>1
<1> QED
  BY <1>1, <1>5, <1>8, <1>9 DEF PjInv

LEMMA PjIdle ==
  /\ Pj!Idle \in NodeRequest /\ DOMAIN Pj!Idle.mine = {} /\ Pj!Idle.pc = "idle"
<1>1. << >> \in Seq(PageIds) /\ << >> \in [{} -> Int] /\ DOMAIN << >> = {}
  OBVIOUS
<1>2. << >> \in Numbers
  BY <1>1, NumbersAre
<1> QED
  BY <1>1, <1>2 DEF Pj!Idle, NodeRequest

\* A request that neither creates nor has rows to write is in nobody's way.
Plain(q) ==
  q \in NodeRequest /\ ~Creating(q) /\ ~Reordering(q) /\ DOMAIN q.mine = {}

LEMMA PlainFits ==
  ASSUME NEW q, Plain(q), SiblingsApart
  PROVE  NodeRequestFits(q) /\ \A z : Beside(q, z) /\ Beside(z, q)
<1>1. ~Creating(q) /\ ~Reordering(q) /\ q.pc # "insert" /\ DOMAIN q.mine = {} /\ ~InLock(q)
  BY DEF Plain, Creating, Reordering, InLock
<1>2. SeesApart(q)
  BY <1>1 DEF SeesApart, SeenIn, SiblingsApart, OneToOne
<1> QED
  BY <1>1, <1>2 DEF NodeRequestFits, Beside

LEMMA PjPlainMoves ==
  ASSUME PjInv, NEW r \in Requests, NEW q, Plain(q),
         nodeRun' = [nodeRun EXCEPT ![r] = q], UNCHANGED <<parent, nodePos, nodeUsed>>,
         nodeStarted' \in 0..MaxProjectRequests, crossed' \in BOOLEAN
  PROVE  PjInv'
<1>1. NodeRequestFits(q) /\ \A z : Beside(q, z) /\ Beside(z, q)
  BY PlainFits DEF PjInv
<1>2. NodeRequestFits(q)'
  <2>1. Pj!Rows' = Pj!Rows /\ SeesApart(q)'
    BY <1>1 DEF Pj!Rows, NodeRequestFits, SeesApart, SeenIn, Pj!Children, Pj!Group
  <2> QED
    BY <1>1, <2>1 DEF NodeRequestFits, Plain, Creating, Reordering
<1>3. q \in NodeRequest /\ nodeUsed' \in SUBSET PageIds
  BY PjTyped DEF Plain, PjInv
<1> QED
  BY <1>1, <1>2, <1>3, PjRunMoves

LEMMA PjEnds ==
  ASSUME PjInv, NEW r \in Requests, Pj!Ends(r),
         UNCHANGED <<parent, nodePos, nodeUsed, nodeStarted, crossed>>
  PROVE  PjInv'
<1>1. Plain(Pj!Idle)
  BY PjIdle DEF Plain, Creating, Reordering
<1> QED
  BY <1>1, PjPlainMoves DEF Pj!Ends, PjInv, Pj!TypeOK

LEMMA PjStarts ==
  ASSUME PjInv, NEW r \in Requests, NEW q, Pj!Starts(r, q)
  PROVE  nodeStarted' \in 0..MaxProjectRequests /\ nodeRun' = [nodeRun EXCEPT ![r] = q]
BY PjConstants DEF Pj!Starts, PjInv, Pj!TypeOK

LEMMA PjAsks ==
  ASSUME PjInv, NEW r \in Requests, NEW n \in PageIds, NEW g \in Pj!Group,
         Pj!MoveAsked(r, n, g) \/ Pj!DeleteAsked(r, n)
  PROVE  PjInv'
<1>1. PICK q :
        /\ Pj!Starts(r, q)
        /\ \/ \E pc \in {"position", "parent"} : q = [Pj!Idle EXCEPT !.pc = pc, !.node = n, !.to = g]
           \/ q = [Pj!Idle EXCEPT !.pc = "delete", !.node = n]
  BY DEF Pj!MoveAsked, Pj!DeleteAsked
<1>2. q \in NodeRequest /\ q.pc \in {"position", "parent", "delete"} /\ q.mine = Pj!Idle.mine
  BY <1>1, PjIdle DEF NodeRequest, Pj!Group
<1>3. Plain(q)
  BY <1>2, PjIdle DEF Plain, Creating, Reordering
<1>4. UNCHANGED <<parent, nodePos, nodeUsed, crossed>> /\ Pj!Starts(r, q)
  BY <1>1 DEF Pj!MoveAsked, Pj!DeleteAsked
<1> QED
  BY <1>3, <1>4, PjStarts, PjPlainMoves DEF PjInv, Pj!TypeOK

LEMMA PjReorderAsked ==
  ASSUME PjInv, NEW r \in Requests, NEW g \in Pj!Group, NEW order \in Pj!Orders,
         Pj!ReorderAsked(r, g, order)
  PROVE  PjInv'
<1>1. order \in Seq(PageIds)
  <2>1. PICK k \in 1..Pj!Cardinality(PageIds) : order \in [1..k -> PageIds]
    BY DEF Pj!Orders
  <2>2. k \in Nat
    BY PjConstants, PjSame, FS_CardinalityType
  <2> QED
    BY <2>1, <2>2
<1>2. PICK q : q = [Pj!Idle EXCEPT !.pc = "lock", !.to = g, !.order = order]
  OBVIOUS
<1>3. q \in NodeRequest /\ q.pc = "lock" /\ q.mine = Pj!Idle.mine
  BY <1>1, <1>2, PjIdle DEF NodeRequest, Pj!Group
<1>4. Plain(q)
  BY <1>3, PjIdle DEF Plain, Creating, Reordering
<1>5. UNCHANGED <<parent, nodePos, nodeUsed, crossed>> /\ Pj!Starts(r, q)
  BY <1>2 DEF Pj!ReorderAsked
<1> QED
  BY <1>4, <1>5, PjStarts, PjPlainMoves DEF PjInv, Pj!TypeOK

LEMMA PjGoesOn ==
  ASSUME PjInv, NEW r \in Requests,
         \/ Pj!MoveReadsParent(r) \/ Pj!MoveChecks(r) \/ Pj!MoveReadsPosition(r)
         \/ Pj!ReorderRolledBack(r)
  PROVE  PjInv'
<1>1. UNCHANGED <<parent, nodePos, nodeUsed, nodeStarted, crossed>>
  BY DEF Pj!MoveReadsParent, Pj!MoveChecks, Pj!MoveReadsPosition, Pj!ReorderRolledBack
<1>2. CASE Pj!Ends(r)
  BY <1>1, <1>2, PjEnds
<1>3. CASE /\ nodeRun[r].pc \in {"parent", "descend", "position"}
           /\ \E pc \in {"descend", "loops", "position", "update"}, k \in Nat :
                nodeRun' = [nodeRun EXCEPT ![r].pc = pc, ![r].pos = k]
  <2>1. PICK pc \in {"descend", "loops", "position", "update"}, k \in Nat :
          nodeRun' = [nodeRun EXCEPT ![r].pc = pc, ![r].pos = k]
    BY <1>3
  <2>2. nodeRun[r] \in NodeRequest
    BY PjTyped, PjRun DEF PjInv
  <2>3. PICK q : q = [nodeRun[r] EXCEPT !.pc = pc, !.pos = k]
    OBVIOUS
  <2>4. q \in NodeRequest /\ q.pc = pc /\ q.mine = nodeRun[r].mine
    BY <2>2, <2>3 DEF NodeRequest
  <2>5. DOMAIN nodeRun[r].mine = {}
    BY <1>3 DEF PjInv, NodeRequestFits, Reordering
  <2>6. Plain(q)
    BY <2>4, <2>5 DEF Plain, Creating, Reordering
  <2>7. nodeRun' = [nodeRun EXCEPT ![r] = q]
    BY <2>1, <2>3
  <2> QED
    BY <1>1, <2>6, <2>7, PjPlainMoves DEF PjInv, Pj!TypeOK
<1>4. Pj!MoveReadsPosition(r) => Pj!NextPosition(nodeRun[r].to) \in Nat
  <2>1. Pj!NextPosition(nodeRun[r].to) = After(nodePos, Pj!Children(nodeRun[r].to))
    BY DEF Pj!NextPosition, After
  <2>2. /\ IsFiniteSet(Pj!Children(nodeRun[r].to))
        /\ \A n \in Pj!Children(nodeRun[r].to) : nodePos[n] \in Nat
    BY PjTyped DEF PjInv
  <2> QED
    BY <2>1, <2>2, AfterIsAfter
<1>5. nodeRun \in [Requests -> NodeRequest] /\ nodeRun[r].pos \in Nat
  BY PjTyped, PjRun DEF PjInv, NodeRequest
<1>6. ASSUME NEW pc, nodeRun' = [nodeRun EXCEPT ![r].pc = pc]
      PROVE  nodeRun' = [nodeRun EXCEPT ![r].pc = pc, ![r].pos = nodeRun[r].pos]
  BY <1>5, <1>6 DEF NodeRequest
<1>7. CASE ~Pj!Ends(r)
  <2>1. CASE Pj!MoveReadsPosition(r)
    BY <1>3, <1>4, <2>1 DEF Pj!MoveReadsPosition, Pj!At
  <2>2. CASE Pj!MoveReadsParent(r) \/ Pj!MoveChecks(r)
    <3>1. /\ nodeRun[r].pc \in {"parent", "descend"}
          /\ \E pc \in {"descend", "loops", "position"} : nodeRun' = [nodeRun EXCEPT ![r].pc = pc]
      BY <1>7, <2>2 DEF Pj!MoveReadsParent, Pj!MoveChecks, Pj!Goes, Pj!At
    <3>2. PICK pc \in {"descend", "loops", "position"} : nodeRun' = [nodeRun EXCEPT ![r].pc = pc]
      BY <3>1
    <3>3. nodeRun' = [nodeRun EXCEPT ![r].pc = pc, ![r].pos = nodeRun[r].pos]
      BY <1>6, <3>2
    <3> QED
      BY <1>3, <1>5, <3>1, <3>3
  <2> QED
    BY <1>7, <2>1, <2>2 DEF Pj!ReorderRolledBack
<1> QED
  BY <1>2, <1>7

LEMMA PjCreateAsked ==
  ASSUME PjInv, NEW r \in Requests, NEW n \in PageIds, NEW g \in Pj!Group,
         Pj!CreateAsked(r, n, g)
  PROVE  PjInv'
<1>1. PICK q : q = [Pj!Idle EXCEPT !.pc = "create", !.node = n, !.to = g]
  OBVIOUS
<1>2. /\ q \in NodeRequest /\ q.pc = "create" /\ q.node = n /\ q.mine = Pj!Idle.mine
      /\ DOMAIN q.mine = {}
  BY <1>1, PjIdle DEF NodeRequest, Pj!Group
<1>3. /\ UNCHANGED <<parent, nodePos, crossed>> /\ Pj!Starts(r, q)
      /\ n \notin nodeUsed /\ nodeUsed' = nodeUsed \cup {n}
  BY <1>1 DEF Pj!CreateAsked
<1>4. Pj!Rows' = Pj!Rows /\ Pj!Rows \subseteq nodeUsed
  BY <1>3 DEF Pj!Rows, PjInv
<1>5. NodeRequestFits(q)'
  <2>1. SeesApart(q)'
    BY <1>2, <1>3 DEF PjInv, SiblingsApart, OneToOne, SeesApart, SeenIn, Pj!Children, Pj!Group
  <2> QED
    BY <1>2, <1>3, <1>4, <2>1 DEF NodeRequestFits, Reordering
<1>6. ASSUME NEW x \in Requests \ {r} PROVE Beside(q, nodeRun[x]) /\ Beside(nodeRun[x], q)
  <2>1. NodeRequestFits(nodeRun[x])
    BY DEF PjInv
  <2>2. ~Reordering(q) /\ ~InLock(q)
    BY <1>2 DEF Reordering, InLock
  <2>3. Creating(nodeRun[x]) => nodeRun[x].node # n
    BY <1>3, <2>1 DEF NodeRequestFits
  <2>4. Reordering(nodeRun[x]) => n \notin Elements(nodeRun[x].order)
    BY <1>3, <2>1 DEF NodeRequestFits, WritesFit
  <2> QED
    BY <1>2, <2>2, <2>3, <2>4 DEF Beside
<1>7. nodeUsed' \in SUBSET PageIds /\ nodeUsed \subseteq nodeUsed' /\ crossed' \in BOOLEAN
  BY <1>3, PjTyped DEF PjInv, Pj!TypeOK
<1> QED
  BY <1>2, <1>3, <1>5, <1>6, <1>7, PjStarts, PjRunMoves

LEMMA PjCreateReads ==
  ASSUME PjInv, NEW r \in Requests, Pj!CreateReads(r)
  PROVE  PjInv'
<1>1. nodeRun[r] \in NodeRequest /\ nodeRun \in [Requests -> NodeRequest]
  BY PjTyped, PjRun DEF PjInv
<1> DEFINE g == nodeRun[r].to
           k == Pj!NextPosition(g)
<1>2. k \in Nat /\ \A n \in Pj!Children(g) : nodePos[n] < k
  <2>1. k = After(nodePos, Pj!Children(g))
    BY DEF Pj!NextPosition, After
  <2>2. IsFiniteSet(Pj!Children(g)) /\ \A n \in Pj!Children(g) : nodePos[n] \in Nat
    BY PjTyped DEF PjInv
  <2> QED
    BY <2>1, <2>2, AfterIsAfter
<1>3. PICK q : q = [nodeRun[r] EXCEPT !.pc = "insert", !.pos = k]
  OBVIOUS
<1>4. /\ q \in NodeRequest /\ q.pc = "insert" /\ q.pos = k /\ q.to = g
      /\ q.node = nodeRun[r].node /\ q.mine = nodeRun[r].mine
  BY <1>1, <1>2, <1>3 DEF NodeRequest
<1>5. /\ UNCHANGED <<parent, nodePos, nodeUsed, nodeStarted, crossed>>
      /\ nodeRun' = [nodeRun EXCEPT ![r] = q]
      /\ nodeRun[r].pc = "create" /\ Pj!LockIsFree(r, g)
  BY <1>3 DEF Pj!CreateReads, Pj!At
<1> HIDE DEF g, k
<1>6. /\ DOMAIN q.mine = {} /\ q.node \in nodeUsed \ Pj!Rows
      /\ Creating(nodeRun[r])
  BY <1>4, <1>5 DEF PjInv, NodeRequestFits, Creating, Reordering
<1>7. NodeRequestFits(q)'
  <2>1. SeesApart(q)'
    BY <1>5, <1>6 DEF PjInv, SiblingsApart, OneToOne, SeesApart, SeenIn, Pj!Children, Pj!Group
  <2>2. Pj!Rows' = Pj!Rows /\ Pj!Children(q.to)' = Pj!Children(q.to)
    BY <1>5 DEF Pj!Rows, Pj!Children
  <2>3. EndOfGroup(q)'
    <3>1. \A n \in Pj!Children(q.to) : nodePos[n] < q.pos
      BY <1>2, <1>4
    <3> QED
      BY <1>5, <2>2, <3>1 DEF EndOfGroup
  <2> QED
    BY <1>4, <1>5, <1>6, <2>1, <2>2, <2>3 DEF NodeRequestFits, Reordering
<1>8. ASSUME NEW x \in Requests \ {r} PROVE Beside(q, nodeRun[x]) /\ Beside(nodeRun[x], q)
  <2>1. Beside(nodeRun[r], nodeRun[x]) /\ Beside(nodeRun[x], nodeRun[r])
    BY DEF PjInv
  <2>2. ~Reordering(q) /\ Creating(q)
    BY <1>4 DEF Reordering, Creating
  <2>3. InLock(nodeRun[x]) => nodeRun[x].to # g
    BY <1>5 DEF Pj!LockIsFree, InLock
  <2> QED
    BY <1>4, <1>6, <2>1, <2>2, <2>3 DEF Beside
<1>9. nodeUsed' \in SUBSET PageIds /\ nodeUsed \subseteq nodeUsed' /\ crossed' \in BOOLEAN
      /\ nodeStarted' \in 0..MaxProjectRequests
  BY <1>5, PjTyped DEF PjInv, Pj!TypeOK
<1> QED
  BY <1>4, <1>5, <1>7, <1>8, <1>9, PjRunMoves

LEMMA PjReorderReads ==
  ASSUME PjInv, NEW r \in Requests, Pj!ReorderReads(r)
  PROVE  PjInv'
<1>1. nodeRun[r] \in NodeRequest /\ nodeRun \in [Requests -> NodeRequest]
  BY PjTyped, PjRun DEF PjInv
<1> DEFINE g == nodeRun[r].to
           order == nodeRun[r].order
<1>2. /\ UNCHANGED <<parent, nodePos, nodeUsed, nodeStarted, crossed>>
      /\ nodeRun[r].pc = "lock" /\ Pj!LockIsFree(r, g)
  BY DEF Pj!ReorderReads, Pj!At
<1>3. CASE Pj!IsExactPermutation(order, g)
  <2>1. Elements(order) = Pj!Children(g)
    <3>1. order \in Seq(PageIds)
      BY <1>1 DEF NodeRequest
    <3>2. IsFiniteSet(Pj!Children(g))
      BY PjTyped DEF PjInv
    <3>3. Len(order) = Cardinality(Pj!Children(g)) /\ Pj!Children(g) \subseteq Elements(order)
      BY <1>3, PjSame DEF Pj!IsExactPermutation
    <3> HIDE DEF order, g
    <3> QED
      BY <3>1, <3>2, <3>3, ListOf
  <2>2. Elements(order) \subseteq Pj!Rows /\ Elements(order) \subseteq PageIds
    <3>1. g \in Pj!Group
      BY <1>1 DEF NodeRequest, Pj!Group
    <3> QED
      BY <2>1, <3>1, PjTyped DEF PjInv
  <2>3. PICK q : q = [nodeRun[r] EXCEPT !.pc = "aside", !.todo = Elements(order)]
    OBVIOUS
  <2>4. /\ q \in NodeRequest /\ q.pc = "aside" /\ q.to = g /\ q.order = order
        /\ q.mine = nodeRun[r].mine /\ q.todo = Elements(order)
    BY <1>1, <2>2, <2>3 DEF NodeRequest
  <2>5. nodeRun' = [nodeRun EXCEPT ![r] = q]
    BY <1>3, <2>3, PjSame DEF Pj!ReorderReads, Pj!FirstPhase
  <2>6. DOMAIN q.mine = {}
    BY <1>2, <2>4 DEF PjInv, NodeRequestFits, Reordering
  <2> HIDE DEF order, g
  <2>7. Reordering(q) /\ ~Creating(q) /\ Pj!Rows \subseteq nodeUsed
    BY <2>4 DEF Reordering, Creating, PjInv
  <2>8. NodeRequestFits(q)'
    <3>1. SeesApart(q)'
      BY <1>2, <2>6 DEF PjInv, SiblingsApart, OneToOne, SeesApart, SeenIn, Pj!Children, Pj!Group
    <3>2. WritesFit(q)'
      BY <1>2, <2>2, <2>4, <2>6, <2>7 DEF WritesFit
    <3> QED
      BY <2>4, <2>7, <3>1, <3>2 DEF NodeRequestFits
  <2>9. ASSUME NEW x \in Requests \ {r} PROVE Beside(q, nodeRun[x]) /\ Beside(nodeRun[x], q)
    <3>1. InLock(nodeRun[x]) => nodeRun[x].to # g
      BY <1>2 DEF Pj!LockIsFree, InLock
    <3>2. Creating(nodeRun[x]) => nodeRun[x].node \notin Elements(order)
      BY <2>2 DEF PjInv, NodeRequestFits
    <3> QED
      BY <2>4, <2>6, <2>7, <3>1, <3>2 DEF Beside
  <2>10. nodeUsed' \in SUBSET PageIds /\ nodeUsed \subseteq nodeUsed' /\ crossed' \in BOOLEAN
         /\ nodeStarted' \in 0..MaxProjectRequests
    BY <1>2, PjTyped DEF PjInv, Pj!TypeOK
  <2> QED
    BY <1>2, <2>4, <2>5, <2>8, <2>9, <2>10, PjRunMoves
<1>4. CASE ~Pj!IsExactPermutation(order, g)
  <2>1. Pj!Ends(r)
    BY <1>4 DEF Pj!ReorderReads
  <2> QED
    BY <1>2, <2>1, PjEnds
<1> QED
  BY <1>3, <1>4

\* The request of r once it has written the row of n.
WithRow(r, n) ==
  [nodeRun[r] EXCEPT
     !.todo = nodeRun[r].todo \ {n},
     !.mine = IF n \in Pj!Rows THEN Pj!Mine(r, n) ELSE nodeRun[r].mine]

\* A row that may be written finds its place vacant.
MayWrite(r, n) ==
  /\ Reordering(nodeRun[r]) /\ n \in nodeRun[r].todo
  /\ Pj!RowIsFree(r, n) /\ Pj!PlaceIsSettled(r, parent[n], Pj!Target(r, n))
  /\ ~(n \in Pj!Rows /\ Pj!Collides(r, n))

LEMMA RowIsWritten ==
  ASSUME PjInv, NEW r \in Requests, NEW n \in PageIds, MayWrite(r, n),
         NEW q, q = WithRow(r, n)
  PROVE  /\ q \in NodeRequest /\ WritesFit(q) /\ SeesApart(q)
         /\ \A x \in Requests \ {r} : Beside(q, nodeRun[x]) /\ Beside(nodeRun[x], q)
         /\ q.pc = nodeRun[r].pc /\ q.to = nodeRun[r].to /\ q.order = nodeRun[r].order
         /\ q.todo = nodeRun[r].todo \ {n}
<1> DEFINE p == nodeRun[r]
           k == Pj!Target(r, n)
<1>1. p \in NodeRequest /\ DOMAIN p.mine \subseteq PageIds
  BY PjTyped, PjRun, NumbersAre DEF PjInv, NodeRequest
<1>2. /\ Reordering(p) /\ n \in p.todo /\ WritesFit(p) /\ SeesApart(p)
      /\ p.pc \in {"aside", "place"} /\ \A m \in DOMAIN p.mine : p.mine[m] \in Int
  BY <1>1, NumbersAre DEF MayWrite, PjInv, NodeRequestFits, Reordering, NodeRequest
<1>3. /\ p.order \in Seq(PageIds) /\ n \in Elements(p.order) /\ Place(p.order, n) \in Nat
      /\ nodePos[n] \in Nat
  <2>1. p.order \in Seq(PageIds) /\ n \in Elements(p.order)
    BY <1>1, <1>2 DEF NodeRequest, WritesFit
  <2>2. nodePos[n] \in Nat
    BY PjTyped DEF PjInv
  <2> HIDE DEF p
  <2> QED
    BY <2>1, <2>2, PlaceIs
<1>4. k = IF p.pc = "aside" THEN -(nodePos[n] + 1) ELSE Place(p.order, n)
  BY DEF Pj!Target, Pj!At, Place
<1>5. k \in Int
  BY <1>3, <1>4
<1>6. \A x \in Requests \ {r} :
        /\ Beside(p, nodeRun[x]) /\ Beside(nodeRun[x], p)
        /\ n \notin DOMAIN nodeRun[x].mine
  BY DEF MayWrite, PjInv, Pj!RowIsFree, Pj!Written
<1>7. CASE n \notin Pj!Rows
  <2>1. q = [p EXCEPT !.todo = p.todo \ {n}, !.mine = p.mine]
    BY <1>7 DEF WithRow
  <2> HIDE DEF p, k
  <2>2. /\ q \in NodeRequest /\ q.pc = p.pc /\ q.to = p.to /\ q.order = p.order
        /\ q.node = p.node /\ q.mine = p.mine /\ q.todo = p.todo \ {n}
    BY <1>1, <2>1 DEF NodeRequest
  <2>3. WritesFit(q)
    BY <1>2, <1>7, <2>2 DEF WritesFit
  <2>4. SeesApart(q)
    BY <1>2, <2>2 DEF SeesApart, SeenIn
  <2>5. \A z : /\ Beside(p, z) => Beside(q, z)
               /\ Beside(z, p) => Beside(z, q)
    BY <2>2 DEF Beside, Creating, Reordering, InLock
  <2> QED
    BY <1>6, <2>2, <2>3, <2>4, <2>5 DEF p
<1>8. CASE n \in Pj!Rows
  <2>1. q = [p EXCEPT !.todo = p.todo \ {n}, !.mine = Pj!Mine(r, n)]
    BY <1>8 DEF WithRow
  <2>2. PICK f : f = Pj!Mine(r, n)
    OBVIOUS
  <2>3. /\ f = [m \in DOMAIN p.mine \cup {n} |-> IF m = n THEN k ELSE p.mine[m]]
    BY <2>2 DEF Pj!Mine, Pj!Written
  <2>4. \A m \in Pj!Children(parent[n]) \ {n} : SeenIn(p, m) # k
    BY <1>8 DEF MayWrite, Pj!Collides, Pj!Seen, Pj!Written, SeenIn
  <2>5. \A x \in Requests \ {r} : \A m \in DOMAIN nodeRun[x].mine :
          parent[m] = parent[n] /\ m \in PageIds => nodeRun[x].mine[m] # k
    BY DEF MayWrite, Pj!PlaceIsSettled, Pj!Written, Pj!Children
  <2> HIDE DEF p, k
  <2>6. f \in Numbers
    BY <1>1, <1>2, <1>5, <2>3, NumbersAre
  <2>7. /\ q \in NodeRequest /\ q.pc = p.pc /\ q.to = p.to /\ q.order = p.order
        /\ q.node = p.node /\ q.mine = f /\ q.todo = p.todo \ {n}
    BY <1>1, <2>1, <2>2, <2>6 DEF NodeRequest
  <2>8. /\ DOMAIN f = DOMAIN p.mine \cup {n} /\ f[n] = k
        /\ \A m \in DOMAIN p.mine : m # n => f[m] = p.mine[m]
    BY <2>3
  <2>9. WritesFit(q)
    <3>1. /\ q.todo \subseteq Elements(q.order) /\ Elements(q.order) \subseteq nodeUsed
          /\ DOMAIN q.mine \subseteq Elements(q.order) \cap Pj!Rows
      BY <1>2, <1>3, <1>8, <2>7, <2>8 DEF WritesFit
    <3>2. CASE p.pc = "aside"
      BY <1>2, <1>4, <2>7, <2>8, <3>1, <3>2 DEF WritesFit
    <3>3. CASE p.pc = "place"
      BY <1>2, <1>4, <2>7, <2>8, <3>1, <3>3 DEF WritesFit
    <3> QED
      BY <1>2, <3>2, <3>3
  <2>10. SeesApart(q)
    <3> SUFFICES ASSUME NEW g \in Pj!Group, NEW x \in Pj!Children(g), NEW y \in Pj!Children(g),
                        SeenIn(q, x) = SeenIn(q, y)
                 PROVE  x = y
      BY DEF SeesApart
    <3>1. \A m : SeenIn(q, m) = IF m = n THEN k ELSE SeenIn(p, m)
      BY <2>7, <2>8 DEF SeenIn
    <3>2. parent[x] = g /\ parent[y] = g
      BY DEF Pj!Children
    <3>3. CASE x # n /\ y # n
      BY <1>2, <3>1, <3>3 DEF SeesApart
    <3>4. CASE x = n /\ y # n
      BY <2>4, <3>1, <3>2, <3>4
    <3>5. CASE y = n /\ x # n
      BY <2>4, <3>1, <3>2, <3>5
    <3> QED
      BY <3>3, <3>4, <3>5
  <2>11. ASSUME NEW x \in Requests \ {r} PROVE Beside(q, nodeRun[x]) /\ Beside(nodeRun[x], q)
    <3>1. DOMAIN nodeRun[x].mine \subseteq PageIds
      BY PjTyped, PjRun, NumbersAre DEF PjInv, NodeRequest
    <3>2. /\ Beside(p, nodeRun[x]) /\ Beside(nodeRun[x], p)
          /\ n \notin DOMAIN nodeRun[x].mine
      BY <1>6
    <3>3. \A m \in DOMAIN nodeRun[x].mine : parent[m] = parent[n] => nodeRun[x].mine[m] # k
      BY <2>5, <3>1
    <3> QED
      BY <2>7, <2>8, <3>2, <3>3 DEF Beside, Creating, Reordering, InLock
  <2> QED
    BY <2>7, <2>9, <2>10, <2>11 DEF p
<1> QED
  BY <1>7, <1>8

\* A row is written and there are others to write, in this phase or the next.
LEMMA PjRowKeeps ==
  ASSUME PjInv, NEW r \in Requests, NEW n \in PageIds, MayWrite(r, n),
         UNCHANGED <<parent, nodePos, nodeUsed, nodeStarted, crossed>>,
         \/ nodeRun' = [nodeRun EXCEPT ![r] = WithRow(r, n)]
         \/ /\ nodeRun[r].pc = "aside" /\ nodeRun[r].todo \ {n} = {}
            /\ nodeRun' = [nodeRun EXCEPT ![r] = [WithRow(r, n) EXCEPT
                             !.pc = "place", !.todo = Elements(nodeRun[r].order)]]
  PROVE  PjInv'
<1>1. PICK q : q = WithRow(r, n)
  OBVIOUS
<1>2. /\ q \in NodeRequest /\ WritesFit(q) /\ SeesApart(q)
      /\ \A x \in Requests \ {r} : Beside(q, nodeRun[x]) /\ Beside(nodeRun[x], q)
      /\ q.pc = nodeRun[r].pc /\ q.to = nodeRun[r].to /\ q.order = nodeRun[r].order
      /\ q.todo = nodeRun[r].todo \ {n}
  BY <1>1, RowIsWritten
<1>3. PICK z : /\ nodeRun' = [nodeRun EXCEPT ![r] = z]
               /\ \/ z = q
                  \/ /\ q.pc = "aside" /\ q.todo = {}
                     /\ z = [q EXCEPT !.pc = "place", !.todo = Elements(q.order)]
  BY <1>1, <1>2
<1>4. q.pc \in {"aside", "place"} /\ Elements(q.order) \subseteq PageIds
  <2>1. nodeUsed \subseteq PageIds
    BY PjTyped DEF PjInv
  <2> QED
    BY <1>2, <2>1 DEF MayWrite, Reordering, WritesFit
<1>5. /\ z \in NodeRequest /\ z.pc \in {"aside", "place"} /\ z.to = q.to /\ z.order = q.order
      /\ z.mine = q.mine /\ z.node = q.node
  BY <1>2, <1>3, <1>4 DEF NodeRequest
<1>6. WritesFit(z)
  <2>1. CASE z = q
    BY <1>2, <2>1
  <2>2. CASE q.pc = "aside" /\ q.todo = {} /\ z.pc = "place" /\ z.todo = Elements(q.order)
    <3>1. \A m \in DOMAIN q.mine : q.mine[m] < 0 /\ m \in Elements(q.order)
      <4>1. \A m \in PageIds : nodePos[m] \in Nat
        BY PjTyped DEF PjInv
      <4>2. \A m \in DOMAIN q.mine : m \in PageIds /\ q.mine[m] = -(nodePos[m] + 1)
                                     /\ m \in Elements(q.order)
        BY <1>2, <1>4, <2>2 DEF WritesFit
      <4> QED
        BY <4>1, <4>2
    <3> QED
      BY <1>2, <1>5, <2>2, <3>1 DEF WritesFit
  <2> QED
    BY <1>2, <1>3, <2>1, <2>2 DEF NodeRequest
<1>7. SeesApart(z)
  BY <1>2, <1>5 DEF SeesApart, SeenIn
<1>8. \A x \in Requests \ {r} : Beside(z, nodeRun[x]) /\ Beside(nodeRun[x], z)
  BY <1>2, <1>4, <1>5 DEF Beside, Creating, Reordering, InLock
<1>9. NodeRequestFits(z)'
  <2>1. SeesApart(z)' /\ WritesFit(z)'
    BY <1>6, <1>7 DEF SeesApart, SeenIn, WritesFit, Pj!Children, Pj!Group, Pj!Rows
  <2> QED
    BY <1>5, <2>1 DEF NodeRequestFits, Reordering, Creating
<1>10. nodeUsed' \in SUBSET PageIds /\ nodeUsed \subseteq nodeUsed' /\ crossed' \in BOOLEAN
       /\ nodeStarted' \in 0..MaxProjectRequests
  BY PjTyped DEF PjInv, Pj!TypeOK
<1> QED
  BY <1>3, <1>5, <1>8, <1>9, <1>10, PjRunMoves

\* r is done; a create in one of the groups knows that it has been disturbed, and
\* all the rest is as it was.
LeavesDisturbed(r, groups) ==
  /\ nodeRun' \in [Requests -> NodeRequest] /\ nodeRun'[r] = Pj!Idle
  /\ \A x \in Requests \ {r} :
       /\ nodeRun'[x].pc = nodeRun[x].pc /\ nodeRun'[x].node = nodeRun[x].node
       /\ nodeRun'[x].to = nodeRun[x].to /\ nodeRun'[x].pos = nodeRun[x].pos
       /\ nodeRun'[x].order = nodeRun[x].order /\ nodeRun'[x].todo = nodeRun[x].todo
       /\ nodeRun'[x].mine = nodeRun[x].mine
       /\ nodeRun[x].disturbed = TRUE => nodeRun'[x].disturbed = TRUE
       /\ nodeRun[x].pc = "insert" /\ nodeRun[x].to \in groups => nodeRun'[x].disturbed = TRUE

LEMMA NodesDisturbed ==
  ASSUME PjInv, NEW r \in Requests, NEW groups,
         nodeRun' = Pj!Disturb([nodeRun EXCEPT ![r] = Pj!Idle], r, groups)
  PROVE  LeavesDisturbed(r, groups)
<1>1. nodeRun \in [Requests -> NodeRequest]
  BY PjTyped, PjRun DEF PjInv
<1>2. nodeRun'[r] = Pj!Idle /\ Pj!Idle \in NodeRequest
  BY <1>1, PjIdle DEF Pj!Disturb
<1>3. ASSUME NEW x \in Requests \ {r}
      PROVE  nodeRun'[x] = IF nodeRun[x].pc = "insert" /\ nodeRun[x].to \in groups
                           THEN [nodeRun[x] EXCEPT !.disturbed = TRUE] ELSE nodeRun[x]
  BY <1>1 DEF Pj!Disturb
<1>4. nodeRun' = [x \in Requests |-> nodeRun'[x]]
  BY DEF Pj!Disturb
<1>5. ASSUME NEW x \in Requests \ {r}
      PROVE  /\ nodeRun'[x] \in NodeRequest
             /\ nodeRun'[x].pc = nodeRun[x].pc /\ nodeRun'[x].node = nodeRun[x].node
             /\ nodeRun'[x].to = nodeRun[x].to /\ nodeRun'[x].pos = nodeRun[x].pos
             /\ nodeRun'[x].order = nodeRun[x].order /\ nodeRun'[x].todo = nodeRun[x].todo
             /\ nodeRun'[x].mine = nodeRun[x].mine
             /\ nodeRun[x].disturbed = TRUE => nodeRun'[x].disturbed = TRUE
             /\ nodeRun[x].pc = "insert" /\ nodeRun[x].to \in groups => nodeRun'[x].disturbed = TRUE
  <2>1. nodeRun[x] \in NodeRequest
    BY <1>1
  <2>2. CASE nodeRun[x].pc = "insert" /\ nodeRun[x].to \in groups
    <3>1. nodeRun'[x] = [nodeRun[x] EXCEPT !.disturbed = TRUE]
      BY <1>3, <2>2
    <3> QED
      BY <2>1, <3>1 DEF NodeRequest
  <2>3. CASE ~(nodeRun[x].pc = "insert" /\ nodeRun[x].to \in groups)
    <3>1. nodeRun'[x] = nodeRun[x]
      BY <1>3, <2>3
    <3> QED
      BY <2>1, <2>3, <3>1
  <2> QED
    BY <2>2, <2>3
<1>6. nodeRun' \in [Requests -> NodeRequest]
  <2>1. \A x \in Requests : nodeRun'[x] \in NodeRequest
    BY <1>2, <1>5
  <2> QED
    BY <1>4, <2>1
<1> QED
  BY <1>2, <1>5, <1>6 DEF LeavesDisturbed

LEMMA PjEndsDisturbNone ==
  ASSUME PjInv, NEW r \in Requests, Pj!Ends(r) PROVE LeavesDisturbed(r, {})
<1>1. nodeRun \in [Requests -> NodeRequest] /\ Pj!Idle \in NodeRequest
  BY PjTyped, PjRun, PjIdle DEF PjInv
<1> QED
  BY <1>1 DEF Pj!Ends, LeavesDisturbed

\* Who is below g after the step, and the position of n that q sees then.
ChildrenAfter(g) == {n \in PageIds : parent'[n] = g}
SeenAfter(q, n) == IF n \in DOMAIN q.mine THEN q.mine[n] ELSE nodePos'[n]

\* A step that ends r and moves rows, seen by the other requests.
LEMMA PjRowsMove ==
  ASSUME PjInv, NEW r \in Requests, NEW groups, LeavesDisturbed(r, groups),
         parent' \in [PageIds -> PageIds \cup {Root, None}], nodePos' \in [PageIds -> Nat],
         crossed' \in BOOLEAN, UNCHANGED <<nodeStarted, nodeUsed>>,
         Pj!Rows' \subseteq nodeUsed,
         \A g \in PageIds \cup {Root} : \A a, b \in ChildrenAfter(g) : nodePos'[a] = nodePos'[b] => a = b,
         \A x \in Requests \ {r} :
           /\ \A g \in PageIds \cup {Root} : \A a, b \in ChildrenAfter(g) :
                SeenAfter(nodeRun[x], a) = SeenAfter(nodeRun[x], b) => a = b
           /\ \A m \in DOMAIN nodeRun[x].mine : parent'[m] = parent[m] /\ nodePos'[m] = nodePos[m]
           /\ Reordering(nodeRun[x]) => Pj!Rows' \cap Elements(nodeRun[x].order) \subseteq Pj!Rows
           /\ Creating(nodeRun[x]) => nodeRun[x].node \notin Pj!Rows'
           /\ nodeRun[x].pc = "insert" =>
                \/ nodeRun[x].to \in groups \/ nodeRun[x].disturbed = TRUE
                \/ \A n \in ChildrenAfter(nodeRun[x].to) : nodePos'[n] < nodeRun[x].pos
  PROVE  PjInv'
<1>1. Pj!Group = PageIds \cup {Root} /\ Pj!Group' = PageIds \cup {Root}
  BY DEF Pj!Group
<1>2. \A g : Pj!Children(g)' = ChildrenAfter(g)
  BY DEF Pj!Children, ChildrenAfter
<1>3. Pj!TypeOK'
  BY <1>1, PjRun DEF LeavesDisturbed, PjInv, Pj!TypeOK
<1>4. SiblingsApart' /\ Pj!Rows' \subseteq nodeUsed'
  BY <1>1, <1>2 DEF SiblingsApart, OneToOne
<1>5. NodeRequestFits(nodeRun[r])'
  <2>1. Plain(Pj!Idle)
    BY PjIdle DEF Plain, Creating, Reordering
  <2>2. ASSUME NEW z, z = Pj!Idle PROVE NodeRequestFits(z)'
    <3>1. /\ ~Creating(z) /\ ~Reordering(z) /\ z.pc # "insert" /\ DOMAIN z.mine = {}
      BY <2>1, <2>2 DEF Plain, Creating
    <3>2. SeesApart(z)'
      BY <1>4, <3>1 DEF SeesApart, SeenIn, SiblingsApart, OneToOne
    <3> QED
      BY <3>1, <3>2 DEF NodeRequestFits
  <2> QED
    BY <2>2 DEF LeavesDisturbed
<1>6. ASSUME NEW x \in Requests \ {r} PROVE NodeRequestFits(nodeRun[x])'
  <2>1. PICK q : q = nodeRun[x]
    OBVIOUS
  <2>2. PICK z : z = nodeRun'[x]
    OBVIOUS
  <2>3. /\ z.pc = q.pc /\ z.node = q.node /\ z.to = q.to /\ z.pos = q.pos
        /\ z.order = q.order /\ z.todo = q.todo /\ z.mine = q.mine
        /\ q.disturbed = TRUE => z.disturbed = TRUE
        /\ q.pc = "insert" /\ q.to \in groups => z.disturbed = TRUE
    BY <2>1, <2>2 DEF LeavesDisturbed
  <2>4. NodeRequestFits(q)
    BY <2>1 DEF PjInv
  <2>5. SeesApart(z)'
    BY <1>1, <1>2, <2>1, <2>3 DEF SeesApart, SeenIn, SeenAfter
  <2>6. ASSUME Reordering(q) PROVE WritesFit(z)'
    <3>1. WritesFit(q)
      BY <2>4, <2>6 DEF NodeRequestFits
    <3>2. \A m \in DOMAIN q.mine : m \in Pj!Rows' /\ nodePos'[m] = nodePos[m]
      BY <2>1, <3>1 DEF WritesFit, Pj!Rows
    <3>3. Pj!Rows' \cap Elements(q.order) \subseteq Pj!Rows
      BY <2>1, <2>6
    <3> QED
      BY <2>3, <3>1, <3>2, <3>3 DEF WritesFit
  <2>7. z.pc = "insert" => EndOfGroup(z)'
    BY <1>2, <2>1, <2>3 DEF EndOfGroup
  <2>8. Creating(q) => q.node \in nodeUsed' \ Pj!Rows'
    BY <2>1, <2>4 DEF NodeRequestFits
  <2>9. NodeRequestFits(z)'
    BY <2>3, <2>4, <2>5, <2>6, <2>7, <2>8 DEF NodeRequestFits, Reordering, Creating
  <2> QED
    BY <2>2, <2>9
<1>7. ASSUME NEW x \in Requests, NEW y \in Requests \ {x}
      PROVE  Beside(nodeRun[x], nodeRun[y])'
  <2>1. CASE x # r /\ y # r
    <3>1. Beside(nodeRun[x], nodeRun[y])
      BY DEF PjInv
    <3>2. \A m \in DOMAIN nodeRun[x].mine \cup DOMAIN nodeRun[y].mine : parent'[m] = parent[m]
      BY <2>1
    <3> QED
      BY <2>1, <3>1, <3>2 DEF Beside, LeavesDisturbed, Creating, Reordering, InLock
  <2>2. CASE x = r \/ y = r
    <3>1. ~Creating(Pj!Idle) /\ ~InLock(Pj!Idle) /\ DOMAIN Pj!Idle.mine = {} /\ ~Reordering(Pj!Idle)
      BY PjIdle DEF Creating, InLock, Reordering
    <3> QED
      BY <2>2, <3>1 DEF Beside, LeavesDisturbed
  <2> QED
    BY <2>1, <2>2
<1> QED
  BY <1>3, <1>4, <1>5, <1>6, <1>7 DEF PjInv

LEMMA PjDeletes ==
  ASSUME PjInv, NEW r \in Requests, Pj!Deletes(r) PROVE PjInv'
<1>1. PICK gone \in SUBSET Pj!Rows :
        /\ \A m \in gone : Pj!RowIsFree(r, m)
        /\ parent' = [m \in PageIds |-> IF m \in gone THEN None ELSE parent[m]]
        /\ nodePos' = [m \in PageIds |-> IF m \in gone THEN 0 ELSE nodePos[m]]
        /\ Pj!Ends(r) /\ UNCHANGED <<nodeStarted, nodeUsed, crossed>>
  <2> DEFINE gone == {m \in Pj!Rows : nodeRun[r].node \in Pj!Above(m)}
  <2>1. /\ \A m \in gone : Pj!RowIsFree(r, m)
        /\ parent' = [m \in PageIds |-> IF m \in gone THEN None ELSE parent[m]]
        /\ nodePos' = [m \in PageIds |-> IF m \in gone THEN 0 ELSE nodePos[m]]
        /\ Pj!Ends(r) /\ UNCHANGED <<nodeStarted, nodeUsed, crossed>>
    BY DEF Pj!Deletes
  <2>2. gone \in SUBSET Pj!Rows
    OBVIOUS
  <2> HIDE DEF gone
  <2> QED
    BY <2>1, <2>2
<1>2. /\ parent \in [PageIds -> PageIds \cup {Root, None}] /\ nodePos \in [PageIds -> Nat]
      /\ Pj!Rows \subseteq nodeUsed /\ None \notin PageIds \cup {Root}
      /\ crossed' \in BOOLEAN
  BY <1>1, PjTyped, PjConstants DEF PjInv, Pj!TypeOK
<1>3. /\ parent' \in [PageIds -> PageIds \cup {Root, None}] /\ nodePos' \in [PageIds -> Nat]
      /\ Pj!Rows' \subseteq Pj!Rows
  BY <1>1, <1>2 DEF Pj!Rows
<1>4. ASSUME NEW g \in PageIds \cup {Root}, NEW a \in ChildrenAfter(g)
      PROVE  a \in Pj!Children(g) /\ nodePos'[a] = nodePos[a]
  BY <1>1, <1>2 DEF ChildrenAfter, Pj!Children
<1>5. ASSUME NEW g \in PageIds \cup {Root}, NEW a \in ChildrenAfter(g), NEW b \in ChildrenAfter(g),
             nodePos'[a] = nodePos'[b]
      PROVE  a = b
  BY <1>4, <1>5 DEF PjInv, SiblingsApart, OneToOne, Pj!Group
<1>6. LeavesDisturbed(r, {})
  BY <1>1, PjEndsDisturbNone
<1>7. ASSUME NEW x \in Requests \ {r}
      PROVE  /\ \A g \in PageIds \cup {Root} : \A a, b \in ChildrenAfter(g) :
                  SeenAfter(nodeRun[x], a) = SeenAfter(nodeRun[x], b) => a = b
             /\ \A m \in DOMAIN nodeRun[x].mine : parent'[m] = parent[m] /\ nodePos'[m] = nodePos[m]
             /\ Reordering(nodeRun[x]) => Pj!Rows' \cap Elements(nodeRun[x].order) \subseteq Pj!Rows
             /\ Creating(nodeRun[x]) => nodeRun[x].node \notin Pj!Rows'
             /\ nodeRun[x].pc = "insert" =>
                  \/ nodeRun[x].to \in {} \/ nodeRun[x].disturbed = TRUE
                  \/ \A n \in ChildrenAfter(nodeRun[x].to) : nodePos'[n] < nodeRun[x].pos
  <2>1. NodeRequestFits(nodeRun[x]) /\ SeesApart(nodeRun[x])
    BY DEF PjInv, NodeRequestFits
  <2>2. nodeRun[x] \in NodeRequest /\ DOMAIN nodeRun[x].mine \subseteq PageIds
    BY PjTyped, PjRun, NumbersAre DEF PjInv, NodeRequest
  <2>3. nodeRun[x].to \in PageIds \cup {Root}
    BY <2>2 DEF NodeRequest
  <2>4. \A g \in PageIds \cup {Root} : \A a, b \in ChildrenAfter(g) :
          SeenAfter(nodeRun[x], a) = SeenAfter(nodeRun[x], b) => a = b
    BY <1>4, <2>1 DEF SeesApart, SeenAfter, SeenIn, Pj!Group
  <2>5. \A m \in DOMAIN nodeRun[x].mine : parent'[m] = parent[m] /\ nodePos'[m] = nodePos[m]
    BY <1>1, <2>2 DEF Pj!RowIsFree, Pj!Written
  <2> QED
    BY <1>3, <1>4, <2>1, <2>3, <2>4, <2>5 DEF NodeRequestFits, EndOfGroup
<1> QED
  BY <1>1, <1>2, <1>3, <1>5, <1>6, <1>7, PjRowsMove

\* A project comes to a vacant place: it was created, or left another parent.
LEMMA PjNodeComes ==
  ASSUME PjInv, NEW r \in Requests, NEW n \in nodeUsed, NEW g \in Pj!Group, NEW k \in Nat,
         LeavesDisturbed(r, {g}), crossed' \in BOOLEAN, UNCHANGED <<nodeStarted, nodeUsed>>,
         parent' = [parent EXCEPT ![n] = g], nodePos' = [nodePos EXCEPT ![n] = k],
         Pj!Vacant(n, g, k), Pj!PlaceIsSettled(r, g, k),
         \A x \in Requests \ {r} :
           /\ n \notin DOMAIN nodeRun[x].mine
           /\ Creating(nodeRun[x]) => nodeRun[x].node # n
           /\ Reordering(nodeRun[x]) => n \in Pj!Rows \/ n \notin Elements(nodeRun[x].order)
  PROVE  PjInv'
<1>1. /\ parent \in [PageIds -> PageIds \cup {Root, None}] /\ nodePos \in [PageIds -> Nat]
      /\ Pj!Rows \subseteq nodeUsed /\ None \notin PageIds \cup {Root} /\ n \in PageIds
      /\ g \in PageIds \cup {Root}
  BY PjTyped, PjConstants DEF PjInv
<1>2. /\ parent'[n] = g /\ nodePos'[n] = k
      /\ \A m \in PageIds \ {n} : parent'[m] = parent[m] /\ nodePos'[m] = nodePos[m]
      /\ parent' \in [PageIds -> PageIds \cup {Root, None}] /\ nodePos' \in [PageIds -> Nat]
  BY <1>1
<1>3. Pj!Rows' = Pj!Rows \cup {n}
  BY <1>1, <1>2 DEF Pj!Rows
<1>4. ASSUME NEW h \in PageIds \cup {Root}, NEW a \in ChildrenAfter(h)
      PROVE  \/ a = n /\ h = g
             \/ a # n /\ a \in Pj!Children(h) /\ nodePos'[a] = nodePos[a]
  BY <1>2 DEF ChildrenAfter, Pj!Children
<1>5. \A a \in Pj!Children(g) : a # n => nodePos[a] # k
  BY DEF Pj!Vacant
<1>6. ASSUME NEW h \in PageIds \cup {Root}, NEW a \in ChildrenAfter(h), NEW b \in ChildrenAfter(h),
             nodePos'[a] = nodePos'[b]
      PROVE  a = b
  <2>1. CASE a # n /\ b # n
    BY <1>4, <1>6, <2>1 DEF PjInv, SiblingsApart, OneToOne, Pj!Group
  <2>2. CASE a = n /\ b # n
    BY <1>2, <1>4, <1>5, <1>6, <2>2
  <2>3. CASE b = n /\ a # n
    BY <1>2, <1>4, <1>5, <1>6, <2>3
  <2> QED
    BY <2>1, <2>2, <2>3
<1>7. ASSUME NEW x \in Requests \ {r}
      PROVE  /\ \A h \in PageIds \cup {Root} : \A a, b \in ChildrenAfter(h) :
                  SeenAfter(nodeRun[x], a) = SeenAfter(nodeRun[x], b) => a = b
             /\ \A m \in DOMAIN nodeRun[x].mine : parent'[m] = parent[m] /\ nodePos'[m] = nodePos[m]
             /\ Reordering(nodeRun[x]) => Pj!Rows' \cap Elements(nodeRun[x].order) \subseteq Pj!Rows
             /\ Creating(nodeRun[x]) => nodeRun[x].node \notin Pj!Rows'
             /\ nodeRun[x].pc = "insert" =>
                  \/ nodeRun[x].to \in {g} \/ nodeRun[x].disturbed = TRUE
                  \/ \A m \in ChildrenAfter(nodeRun[x].to) : nodePos'[m] < nodeRun[x].pos
  <2>1. NodeRequestFits(nodeRun[x]) /\ SeesApart(nodeRun[x])
    BY DEF PjInv, NodeRequestFits
  <2>2. nodeRun[x] \in NodeRequest /\ DOMAIN nodeRun[x].mine \subseteq PageIds
    BY PjTyped, PjRun, NumbersAre DEF PjInv, NodeRequest
  <2>3. nodeRun[x].to \in PageIds \cup {Root}
    BY <2>2 DEF NodeRequest
  <2>4. n \notin DOMAIN nodeRun[x].mine
    OBVIOUS
  <2>5. \A a \in Pj!Children(g) : a # n => SeenIn(nodeRun[x], a) # k
    BY <1>5 DEF SeenIn, Pj!PlaceIsSettled, Pj!Written
  <2>6. SeenAfter(nodeRun[x], n) = k
    BY <1>2, <2>4 DEF SeenAfter
  <2>7. ASSUME NEW h \in PageIds \cup {Root}, NEW a \in ChildrenAfter(h), a # n
        PROVE  a \in Pj!Children(h) /\ SeenAfter(nodeRun[x], a) = SeenIn(nodeRun[x], a)
    BY <1>4, <2>7 DEF SeenAfter, SeenIn
  <2>8. ASSUME NEW h \in PageIds \cup {Root}, NEW a \in ChildrenAfter(h), NEW b \in ChildrenAfter(h),
               SeenAfter(nodeRun[x], a) = SeenAfter(nodeRun[x], b)
        PROVE  a = b
    <3>1. CASE a # n /\ b # n
      BY <2>1, <2>7, <2>8, <3>1 DEF SeesApart, Pj!Group
    <3>2. CASE a = n /\ b # n
      BY <1>4, <2>5, <2>6, <2>7, <2>8, <3>2
    <3>3. CASE b = n /\ a # n
      BY <1>4, <2>5, <2>6, <2>7, <2>8, <3>3
    <3> QED
      BY <3>1, <3>2, <3>3
  <2>9. \A m \in DOMAIN nodeRun[x].mine : parent'[m] = parent[m] /\ nodePos'[m] = nodePos[m]
    BY <1>2, <2>2, <2>4
  <2>10. nodeRun[x].pc = "insert" =>
           \/ nodeRun[x].to \in {g} \/ nodeRun[x].disturbed = TRUE
           \/ \A m \in ChildrenAfter(nodeRun[x].to) : nodePos'[m] < nodeRun[x].pos
    BY <1>4, <2>1, <2>3 DEF NodeRequestFits, EndOfGroup
  <2>11. Reordering(nodeRun[x]) => Pj!Rows' \cap Elements(nodeRun[x].order) \subseteq Pj!Rows
    BY <1>3
  <2>12. Creating(nodeRun[x]) => nodeRun[x].node \notin Pj!Rows'
    BY <1>3, <2>1 DEF NodeRequestFits
  <2> QED
    BY <2>8, <2>9, <2>10, <2>11, <2>12
<1>8. Pj!Rows' \subseteq nodeUsed
  BY <1>1, <1>3
<1> QED
  BY <1>2, <1>6, <1>7, <1>8, PjRowsMove

LEMMA PjInserts ==
  ASSUME PjInv, NEW r \in Requests, Pj!CreateInserts(r) PROVE PjInv'
<1> DEFINE n == nodeRun[r].node
           g == nodeRun[r].to
           k == nodeRun[r].pos
<1>1. nodeRun[r] \in NodeRequest /\ nodeRun[r].pc = "insert" /\ Pj!PlaceIsSettled(r, g, k)
  BY PjTyped, PjRun DEF PjInv, Pj!CreateInserts, Pj!At
<1>2. UNCHANGED <<nodeStarted, nodeUsed, crossed>>
  BY DEF Pj!CreateInserts
<1>3. CASE Pj!ParentIsThere(g) /\ Pj!Vacant(n, g, k)
  <2>1. /\ parent' = [parent EXCEPT ![n] = g] /\ nodePos' = [nodePos EXCEPT ![n] = k]
        /\ nodeRun' = Pj!Disturb([nodeRun EXCEPT ![r] = Pj!Idle], r, {g})
    BY <1>3 DEF Pj!CreateInserts
  <2>2. n \in nodeUsed \ Pj!Rows /\ Creating(nodeRun[r]) /\ g \in Pj!Group /\ k \in Nat
    BY <1>1 DEF PjInv, NodeRequestFits, Creating, NodeRequest, Pj!Group
  <2>3. LeavesDisturbed(r, {g})
    BY <2>1, NodesDisturbed
  <2>4. ASSUME NEW x \in Requests \ {r}
        PROVE  /\ n \notin DOMAIN nodeRun[x].mine
               /\ Creating(nodeRun[x]) => nodeRun[x].node # n
               /\ Reordering(nodeRun[x]) => n \in Pj!Rows \/ n \notin Elements(nodeRun[x].order)
    <3>1. Beside(nodeRun[r], nodeRun[x]) /\ NodeRequestFits(nodeRun[x])
      BY DEF PjInv
    <3>2. DOMAIN nodeRun[x].mine \subseteq Pj!Rows
      BY <3>1 DEF NodeRequestFits, WritesFit
    <3> QED
      BY <2>2, <3>1, <3>2 DEF Beside
  <2>5. crossed' \in BOOLEAN
    BY <1>2 DEF PjInv, Pj!TypeOK
  <2> HIDE DEF n, g, k
  <2> QED
    BY <1>1, <1>2, <1>3, <2>1, <2>2, <2>3, <2>4, <2>5, PjNodeComes
<1>4. CASE ~(Pj!ParentIsThere(g) /\ Pj!Vacant(n, g, k))
  <2>1. Pj!Ends(r) /\ UNCHANGED <<parent, nodePos>>
    BY <1>4 DEF Pj!CreateInserts
  <2> QED
    BY <1>2, <2>1, PjEnds
<1> QED
  BY <1>3, <1>4

LEMMA PjUpdates ==
  ASSUME PjInv, NEW r \in Requests, Pj!MoveUpdates(r) PROVE PjInv'
<1> DEFINE n == nodeRun[r].node
           g == nodeRun[r].to
           k == nodeRun[r].pos
<1>1. nodeRun[r] \in NodeRequest /\ Pj!RowIsFree(r, n) /\ Pj!PlaceIsSettled(r, g, k)
  BY PjTyped, PjRun DEF PjInv, Pj!MoveUpdates
<1>2. UNCHANGED <<nodeStarted, nodeUsed>>
  BY DEF Pj!MoveUpdates
<1>3. CASE n \in Pj!Rows /\ Pj!ParentIsThere(g) /\ Pj!Vacant(n, g, k)
  <2>1. /\ parent' = [parent EXCEPT ![n] = g] /\ nodePos' = [nodePos EXCEPT ![n] = k]
        /\ nodeRun' = Pj!Disturb([nodeRun EXCEPT ![r] = Pj!Idle], r, {g})
    BY <1>3 DEF Pj!MoveUpdates
  <2>2. n \in nodeUsed /\ g \in Pj!Group /\ k \in Nat
    BY <1>1, <1>3 DEF PjInv, NodeRequest, Pj!Group
  <2>3. LeavesDisturbed(r, {g})
    BY <2>1, NodesDisturbed
  <2>4. ASSUME NEW x \in Requests \ {r}
        PROVE  /\ n \notin DOMAIN nodeRun[x].mine
               /\ Creating(nodeRun[x]) => nodeRun[x].node # n
               /\ Reordering(nodeRun[x]) => n \in Pj!Rows \/ n \notin Elements(nodeRun[x].order)
    <3>1. NodeRequestFits(nodeRun[x])
      BY DEF PjInv
    <3> QED
      BY <1>1, <1>3, <3>1 DEF NodeRequestFits, Pj!RowIsFree, Pj!Written
  <2>5. crossed' \in BOOLEAN
    <3>1. crossed' = (crossed \/ \E q \in Requests \ {r} :
                        nodeRun[q].node # None /\ nodeRun[q].pc \in {"position", "update"})
      BY <1>3 DEF Pj!MoveUpdates
    <3>2. crossed \in BOOLEAN
      BY DEF PjInv, Pj!TypeOK
    <3> QED
      BY <3>1, <3>2
  <2> HIDE DEF n, g, k
  <2> QED
    BY <1>1, <1>2, <1>3, <2>1, <2>2, <2>3, <2>4, <2>5, PjNodeComes
<1>4. CASE ~(n \in Pj!Rows /\ Pj!ParentIsThere(g) /\ Pj!Vacant(n, g, k))
  <2>1. Pj!Ends(r) /\ UNCHANGED <<parent, nodePos, crossed>>
    BY <1>4 DEF Pj!MoveUpdates
  <2> QED
    BY <1>2, <2>1, PjEnds
<1> QED
  BY <1>3, <1>4

\* The last row of a reorder is written: the rows take their places.
LEMMA PjCommits ==
  ASSUME PjInv, NEW r \in Requests, NEW n \in PageIds, MayWrite(r, n), NEW q, q = WithRow(r, n),
         q.pc = "place", q.todo = {}, UNCHANGED <<parent, nodeStarted, nodeUsed, crossed>>,
         nodePos' = [m \in PageIds |-> IF m \in DOMAIN q.mine THEN q.mine[m] ELSE nodePos[m]],
         nodeRun' = Pj!Disturb([nodeRun EXCEPT ![r] = Pj!Idle], r,
                               {parent[m] : m \in DOMAIN q.mine} \ {q.to})
  PROVE  PjInv'
<1>1. /\ q \in NodeRequest /\ WritesFit(q) /\ SeesApart(q)
      /\ \A x \in Requests \ {r} : Beside(q, nodeRun[x]) /\ Beside(nodeRun[x], q)
  BY RowIsWritten
<1>2. /\ parent \in [PageIds -> PageIds \cup {Root, None}] /\ nodePos \in [PageIds -> Nat]
      /\ Pj!Rows' \subseteq nodeUsed /\ crossed' \in BOOLEAN /\ Pj!Rows' = Pj!Rows
  BY PjTyped DEF PjInv, Pj!TypeOK, Pj!Rows
<1>3. \A m \in DOMAIN q.mine : q.mine[m] \in Nat
  <2>1. \A m \in DOMAIN q.mine : m \in Elements(q.order) /\ q.mine[m] = Place(q.order, m)
    BY <1>1 DEF WritesFit
  <2>2. q.order \in Seq(PageIds) /\ Len(q.order) \in Nat
    BY <1>1 DEF NodeRequest
  <2>3. \A m \in Elements(q.order) : Place(q.order, m) \in 0..(Len(q.order) - 1)
    BY <2>2, PlaceIs
  <2> QED
    BY <2>1, <2>2, <2>3
<1>4. nodePos' \in [PageIds -> Nat]
  BY <1>2, <1>3
<1>5. \A g : ChildrenAfter(g) = Pj!Children(g)
  BY DEF ChildrenAfter, Pj!Children
<1>6. \A m \in PageIds : nodePos'[m] = SeenIn(q, m)
  BY DEF SeenIn
<1>7. ASSUME NEW g \in PageIds \cup {Root}, NEW a \in ChildrenAfter(g), NEW b \in ChildrenAfter(g),
             nodePos'[a] = nodePos'[b]
      PROVE  a = b
  BY <1>1, <1>5, <1>6, <1>7 DEF SeesApart, Pj!Children, Pj!Group
<1> DEFINE groups == {parent[m] : m \in DOMAIN q.mine} \ {q.to}
<1>8. LeavesDisturbed(r, groups)
  BY NodesDisturbed
<1>9. ASSUME NEW x \in Requests \ {r}
      PROVE  /\ \A g \in PageIds \cup {Root} : \A a, b \in ChildrenAfter(g) :
                  SeenAfter(nodeRun[x], a) = SeenAfter(nodeRun[x], b) => a = b
             /\ \A m \in DOMAIN nodeRun[x].mine : parent'[m] = parent[m] /\ nodePos'[m] = nodePos[m]
             /\ Reordering(nodeRun[x]) => Pj!Rows' \cap Elements(nodeRun[x].order) \subseteq Pj!Rows
             /\ Creating(nodeRun[x]) => nodeRun[x].node \notin Pj!Rows'
             /\ nodeRun[x].pc = "insert" =>
                  \/ nodeRun[x].to \in groups \/ nodeRun[x].disturbed = TRUE
                  \/ \A m \in ChildrenAfter(nodeRun[x].to) : nodePos'[m] < nodeRun[x].pos
  <2>1. NodeRequestFits(nodeRun[x]) /\ SeesApart(nodeRun[x])
    BY DEF PjInv, NodeRequestFits
  <2>2. nodeRun[x] \in NodeRequest /\ DOMAIN nodeRun[x].mine \subseteq PageIds
    BY PjTyped, PjRun, NumbersAre DEF PjInv, NodeRequest
  <2>3. Beside(nodeRun[x], q)
    BY <1>1
  <2>4. \A m \in DOMAIN nodeRun[x].mine : m \notin DOMAIN q.mine
    BY <2>3 DEF Beside
  <2>5. \A m \in DOMAIN nodeRun[x].mine : parent'[m] = parent[m] /\ nodePos'[m] = nodePos[m]
    BY <2>2, <2>4
  <2>6. ASSUME NEW g \in PageIds \cup {Root}, NEW a \in ChildrenAfter(g), NEW b \in ChildrenAfter(g),
               SeenAfter(nodeRun[x], a) = SeenAfter(nodeRun[x], b)
        PROVE  a = b
    <3>1. /\ a \in PageIds /\ b \in PageIds /\ parent[a] = g /\ parent[b] = g
          /\ a \in Pj!Children(g) /\ b \in Pj!Children(g)
      BY <1>5 DEF Pj!Children
    <3>2. SeenIn(nodeRun[x], a) = SeenIn(nodeRun[x], b) => a = b
      BY <2>1, <3>1 DEF SeesApart, Pj!Group
    <3>3. CASE a \in DOMAIN nodeRun[x].mine /\ b \in DOMAIN nodeRun[x].mine
      BY <2>6, <3>2, <3>3 DEF SeenAfter, SeenIn
    <3>4. CASE a \notin DOMAIN nodeRun[x].mine /\ b \notin DOMAIN nodeRun[x].mine
      BY <1>7, <2>6, <3>4 DEF SeenAfter
    <3>5. CASE a \in DOMAIN nodeRun[x].mine /\ b \notin DOMAIN nodeRun[x].mine
      <4>1. CASE b \in DOMAIN q.mine
        BY <1>6, <2>3, <2>6, <3>1, <3>5, <4>1 DEF SeenAfter, SeenIn, Beside
      <4>2. CASE b \notin DOMAIN q.mine
        BY <1>6, <2>6, <3>1, <3>2, <3>5, <4>2 DEF SeenAfter, SeenIn
      <4> QED
        BY <4>1, <4>2
    <3>6. CASE a \notin DOMAIN nodeRun[x].mine /\ b \in DOMAIN nodeRun[x].mine
      <4>1. CASE a \in DOMAIN q.mine
        BY <1>6, <2>3, <2>6, <3>1, <3>6, <4>1 DEF SeenAfter, SeenIn, Beside
      <4>2. CASE a \notin DOMAIN q.mine
        BY <1>6, <2>6, <3>1, <3>2, <3>6, <4>2 DEF SeenAfter, SeenIn
      <4> QED
        BY <4>1, <4>2
    <3> QED
      BY <3>3, <3>4, <3>5, <3>6
  <2>7. ASSUME nodeRun[x].pc = "insert", nodeRun[x].to \notin groups, nodeRun[x].disturbed # TRUE,
               NEW m \in ChildrenAfter(nodeRun[x].to)
        PROVE  nodePos'[m] < nodeRun[x].pos
    <3>1. nodeRun[x].to # q.to
      BY <1>1, <2>7 DEF Beside, InLock
    <3>2. m \in PageIds /\ parent[m] = nodeRun[x].to /\ m \in Pj!Children(nodeRun[x].to)
      BY <1>5, <2>7 DEF Pj!Children
    <3>3. m \notin DOMAIN q.mine
      BY <2>7, <3>1, <3>2
    <3>4. nodePos'[m] = nodePos[m]
      BY <3>2, <3>3
    <3> QED
      BY <2>1, <2>7, <3>2, <3>4 DEF NodeRequestFits, EndOfGroup
  <2> HIDE DEF groups
  <2> QED
    BY <1>2, <2>1, <2>5, <2>6, <2>7 DEF NodeRequestFits
<1> HIDE DEF groups
<1> QED
  BY <1>2, <1>4, <1>7, <1>8, <1>9, PjRowsMove

LEMMA PjWritesRow ==
  ASSUME PjInv, NEW r \in Requests, NEW n \in PageIds, Pj!ReorderWritesRow(r, n)
  PROVE  PjInv'
<1> DEFINE left == nodeRun[r].todo \ {n}
           mine == IF n \in Pj!Rows THEN Pj!Mine(r, n) ELSE nodeRun[r].mine
<1>1. /\ Reordering(nodeRun[r]) /\ n \in nodeRun[r].todo /\ nodeRun[r] \in NodeRequest
      /\ Pj!RowIsFree(r, n) /\ Pj!PlaceIsSettled(r, parent[n], Pj!Target(r, n))
      /\ UNCHANGED <<parent, nodeStarted, nodeUsed, crossed>>
  BY PjTyped, PjRun DEF PjInv, Pj!ReorderWritesRow, Pj!Writing, Reordering
<1>2. CASE n \in Pj!Rows /\ Pj!Collides(r, n)
  <2>1. Pj!Ends(r) /\ UNCHANGED nodePos
    BY <1>2 DEF Pj!ReorderWritesRow
  <2> QED
    BY <1>1, <2>1, PjEnds
<1>3. CASE ~(n \in Pj!Rows /\ Pj!Collides(r, n))
  <2>1. MayWrite(r, n)
    BY <1>1, <1>3 DEF MayWrite
  <2>2. PICK q : q = WithRow(r, n)
    OBVIOUS
  <2>3. /\ q = [nodeRun[r] EXCEPT !.todo = left, !.mine = mine]
        /\ q.todo = left /\ q.mine = mine /\ q.pc = nodeRun[r].pc /\ q.to = nodeRun[r].to
    <3>1. q = [nodeRun[r] EXCEPT !.todo = left, !.mine = mine]
      BY <2>2 DEF WithRow
    <3> HIDE DEF left, mine
    <3> QED
      BY <1>1, <3>1 DEF NodeRequest
  <2>4. CASE left # {}
    <3>1. /\ nodeRun' = [nodeRun EXCEPT ![r].todo = left, ![r].mine = mine] /\ UNCHANGED nodePos
      BY <1>3, <2>4 DEF Pj!ReorderWritesRow
    <3> HIDE DEF left, mine
    <3>2. nodeRun' = [nodeRun EXCEPT ![r] = WithRow(r, n)]
      BY <2>2, <2>3, <3>1
    <3> QED
      BY <1>1, <2>1, <3>1, <3>2, PjRowKeeps
  <2>5. CASE left = {} /\ nodeRun[r].pc = "aside"
    <3>1. /\ nodeRun' = [nodeRun EXCEPT ![r].pc = "place", ![r].mine = mine,
                                        ![r].todo = Elements(nodeRun[r].order)]
          /\ UNCHANGED nodePos
      BY <1>3, <2>5, PjSame DEF Pj!ReorderWritesRow, Pj!At
    <3>2. nodeRun[r].todo \ {n} = {}
      BY <2>5
    <3> HIDE DEF left, mine
    <3>3. [WithRow(r, n) EXCEPT !.pc = "place", !.todo = Elements(nodeRun[r].order)]
            = [nodeRun[r] EXCEPT !.pc = "place", !.mine = mine,
                                 !.todo = Elements(nodeRun[r].order)]
      BY <1>1, <2>2, <2>3 DEF NodeRequest
    <3>4. nodeRun' = [nodeRun EXCEPT ![r] = [WithRow(r, n) EXCEPT
                        !.pc = "place", !.todo = Elements(nodeRun[r].order)]]
      BY <3>1, <3>3
    <3> QED
      BY <1>1, <2>1, <2>5, <3>1, <3>2, <3>4, PjRowKeeps
  <2>6. CASE left = {} /\ nodeRun[r].pc # "aside"
    <3>1. /\ nodePos' = [m \in PageIds |-> IF m \in DOMAIN mine THEN mine[m] ELSE nodePos[m]]
          /\ nodeRun' = Pj!Disturb([nodeRun EXCEPT ![r] = Pj!Idle], r,
                                   {parent[m] : m \in DOMAIN mine} \ {nodeRun[r].to})
      BY <1>3, <2>6 DEF Pj!ReorderWritesRow, Pj!At
    <3> HIDE DEF left, mine
    <3>2. q.pc = "place" /\ q.todo = {}
      BY <1>1, <2>3, <2>6 DEF Reordering
    <3>3. /\ nodePos' = [m \in PageIds |-> IF m \in DOMAIN q.mine THEN q.mine[m] ELSE nodePos[m]]
          /\ nodeRun' = Pj!Disturb([nodeRun EXCEPT ![r] = Pj!Idle], r,
                                   {parent[m] : m \in DOMAIN q.mine} \ {q.to})
      BY <2>3, <3>1
    <3> QED
      BY <1>1, <2>1, <2>2, <3>2, <3>3, PjCommits
  <2> QED
    BY <2>4, <2>5, <2>6
<1> QED
  BY <1>2, <1>3

LEMMA PjQuiet == ASSUME PjInv, UNCHANGED pjVars PROVE PjInv'
<1>1. UNCHANGED <<parent, nodePos, nodeRun, nodeStarted, nodeUsed, crossed>>
  BY DEF pjVars
<1>2. Pj!TypeOK'
  BY <1>1 DEF PjInv, Pj!TypeOK, Pj!Group
<1>3. \A g : Pj!Children(g)' = Pj!Children(g)
  BY <1>1 DEF Pj!Children
<1>4. SiblingsApart' /\ Pj!Rows' \subseteq nodeUsed' /\ Pj!Rows' = Pj!Rows
  BY <1>1, <1>3 DEF PjInv, SiblingsApart, OneToOne, Pj!Rows, Pj!Group
<1>5. ASSUME NEW q, NodeRequestFits(q) PROVE NodeRequestFits(q)'
  BY <1>1, <1>3, <1>4, <1>5 DEF NodeRequestFits, SeesApart, SeenIn, WritesFit, EndOfGroup, Pj!Group
<1>6. \A q, z : Beside(q, z) => Beside(q, z)'
  BY <1>1 DEF Beside
<1>7. \A r \in Requests : NodeRequestFits(nodeRun[r])'
  BY <1>1, <1>5 DEF PjInv
<1>8. \A r \in Requests : \A x \in Requests \ {r} : Beside(nodeRun[r], nodeRun[x])'
  BY <1>1, <1>6 DEF PjInv
<1> QED
  BY <1>2, <1>4, <1>7, <1>8 DEF PjInv

LEMMA PjStepKeeps == ASSUME PjInv, [Pj!Next]_pjVars PROVE PjInv'
<1>1. CASE UNCHANGED pjVars
  BY <1>1, PjQuiet
<1>2. ASSUME NEW r \in Requests, NEW n \in PageIds, NEW g \in Pj!Group,
             Pj!CreateAsked(r, n, g) \/ Pj!MoveAsked(r, n, g)
      PROVE  PjInv'
  BY <1>2, PjCreateAsked, PjAsks
<1>3. ASSUME NEW r \in Requests, NEW g \in Pj!Group, NEW order \in Pj!Orders,
             Pj!ReorderAsked(r, g, order)
      PROVE  PjInv'
  BY <1>3, PjReorderAsked
<1>4. ASSUME NEW r \in Requests, NEW n \in PageIds,
             Pj!DeleteAsked(r, n) \/ Pj!ReorderWritesRow(r, n)
      PROVE  PjInv'
  <2>1. Root \in Pj!Group
    BY DEF Pj!Group
  <2> QED
    BY <1>4, <2>1, PjAsks, PjWritesRow
<1>5. ASSUME NEW r \in Requests,
             \/ Pj!CreateReads(r) \/ Pj!CreateInserts(r) \/ Pj!MoveReadsParent(r)
             \/ Pj!MoveChecks(r) \/ Pj!MoveReadsPosition(r) \/ Pj!MoveUpdates(r)
             \/ Pj!ReorderReads(r) \/ Pj!ReorderRolledBack(r) \/ Pj!Deletes(r)
      PROVE  PjInv'
  BY <1>5, PjCreateReads, PjInserts, PjGoesOn, PjUpdates, PjReorderReads, PjDeletes
<1> QED
  BY <1>1, <1>2, <1>3, <1>4, <1>5 DEF Pj!Next

LEMMA PjInitHolds == Pj!Init => PjInv
<1> SUFFICES ASSUME Pj!Init PROVE PjInv
  OBVIOUS
<1>1. /\ nodeUsed \in SUBSET PageIds /\ nodeRun = [r \in Requests |-> Pj!Idle]
      /\ parent = [n \in PageIds |-> IF n \in nodeUsed THEN Root ELSE None]
      /\ nodeStarted = 0 /\ crossed = FALSE
  BY DEF Pj!Init
<1>2. /\ nodePos \in [PageIds -> 0..Cardinality(nodeUsed)]
      /\ {nodePos[n] : n \in nodeUsed} = 0..(Cardinality(nodeUsed) - 1)
  BY PjSame DEF Pj!Init
<1>3. IsFiniteSet(nodeUsed) /\ Cardinality(nodeUsed) \in Nat
  BY <1>1, PjConstants, FS_Subset, FS_CardinalityType
<1>4. Pj!TypeOK
  <2>1. nodePos \in [PageIds -> Nat]
    BY <1>2, <1>3
  <2>2. nodeRun \in [Requests -> Pj!Run]
    BY <1>1, PjIdle, PjRun
  <2>3. parent \in [PageIds -> PageIds \cup {Root, None}]
    BY <1>1
  <2>4. nodeStarted \in 0..MaxProjectRequests
    BY <1>1, PjConstants
  <2>5. crossed \in BOOLEAN
    BY DEF Pj!Init
  <2>6. parent \in [PageIds -> Pj!Group \cup {None}]
    BY <2>3 DEF Pj!Group
  <2>7. nodeUsed \in SUBSET PageIds
    BY <1>1
  <2> QED
    BY <2>1, <2>2, <2>4, <2>5, <2>6, <2>7 DEF Pj!TypeOK
<1>5. Pj!Rows \subseteq nodeUsed /\ \A g \in Pj!Group : Pj!Children(g) \subseteq nodeUsed
  BY <1>1, PjConstants DEF Pj!Rows, Pj!Children, Pj!Group
<1>6. OneToOne(nodePos, nodeUsed)
  BY <1>2, <1>3, FirstPlaces
<1>7. SiblingsApart
  BY <1>5, <1>6 DEF SiblingsApart, OneToOne
<1>8. Plain(Pj!Idle)
  BY PjIdle DEF Plain, Creating, Reordering
<1> QED
  BY <1>1, <1>4, <1>5, <1>7, <1>8, PlainFits DEF PjInv

\* What PjInv says of a reorder that is about to write a row, and of a create.
LEMMA PjPlacesFit == PjInv => Pj!ReorderMeetsNoDuplicate /\ Pj!CreateFindsItsPlace
<1> SUFFICES ASSUME PjInv PROVE Pj!ReorderMeetsNoDuplicate /\ Pj!CreateFindsItsPlace
  OBVIOUS
<1>1. ASSUME NEW r \in Requests, Pj!Writing(r),
             Pj!Children(nodeRun[r].to) = Pj!Elements(nodeRun[r].order),
             NEW n \in nodeRun[r].todo
      PROVE  ~Pj!Collides(r, n)
  <2> DEFINE q == nodeRun[r]
  <2>1. q \in NodeRequest /\ q.pc \in {"aside", "place"} /\ WritesFit(q)
    BY <1>1, PjTyped, PjRun DEF PjInv, NodeRequestFits, Reordering, Pj!Writing
  <2>2. Pj!Children(q.to) = Elements(q.order) /\ q.to \in Pj!Group
    BY <1>1, <2>1, PjSame DEF NodeRequest, Pj!Group
  <2>3. n \in Pj!Children(q.to) /\ parent[n] = q.to
    BY <2>1, <2>2 DEF WritesFit, Pj!Children
  <2>4. SUFFICES ASSUME NEW m \in Pj!Children(q.to) \ {n} PROVE Pj!Seen(r, m) # Pj!Target(r, n)
    BY <2>3 DEF Pj!Collides
  <2>5. Pj!Seen(r, m) = SeenIn(q, m)
    BY DEF Pj!Seen, Pj!Written, SeenIn
  <2>6. Pj!Target(r, n) = IF q.pc = "aside" THEN -(nodePos[n] + 1) ELSE Place(q.order, n)
    BY DEF Pj!Target, Pj!At, Place
  <2>7. /\ nodePos[m] \in Nat /\ nodePos[n] \in Nat
        /\ m \in Elements(q.order) \cap Pj!Rows /\ n \in Elements(q.order)
        /\ q.order \in Seq(PageIds)
    BY <2>1, <2>2, <2>3, <2>4, PjTyped DEF PjInv, NodeRequest
  <2>8. m # n /\ nodePos[m] # nodePos[n]
    BY <2>2, <2>3, <2>4 DEF PjInv, SiblingsApart, OneToOne
  <2> HIDE DEF q
  <2>9. CASE q.pc = "aside"
    BY <2>1, <2>5, <2>6, <2>7, <2>8, <2>9 DEF WritesFit, SeenIn
  <2>10. CASE q.pc = "place"
    <3>1. Len(q.order) \in Nat
      BY <2>7
    <3>2. /\ Place(q.order, n) \in 0..(Len(q.order) - 1) /\ q.order[Place(q.order, n) + 1] = n
          /\ Place(q.order, m) \in 0..(Len(q.order) - 1) /\ q.order[Place(q.order, m) + 1] = m
      BY <2>7, PlaceIs
    <3>3. m \in DOMAIN q.mine /\ (q.mine[m] < 0 \/ q.mine[m] = Place(q.order, m))
      BY <2>1, <2>7, <2>10 DEF WritesFit
    <3>4. q.mine[m] \in Int
      BY <2>1, <3>3, NumbersAre DEF NodeRequest
    <3>5. q.mine[m] # Place(q.order, n)
      BY <2>8, <3>1, <3>2, <3>3, <3>4
    <3> QED
      BY <2>5, <2>6, <2>10, <3>3, <3>5 DEF SeenIn
  <2> QED
    BY <2>1, <2>9, <2>10
<1>2. ASSUME NEW r \in Requests, Pj!At(r, "insert")
      PROVE  nodeRun[r].disturbed
               \/ \A n \in Pj!Children(nodeRun[r].to) : nodePos[n] < nodeRun[r].pos
  BY <1>2 DEF PjInv, NodeRequestFits, EndOfGroup, Pj!At
<1> QED
  BY <1>1, <1>2 DEF Pj!ReorderMeetsNoDuplicate, Pj!CreateFindsItsPlace

LEMMA StructureMovesProjects ==
  [PagesMove \/ ProjectsMove \/ TrashMoves]_<<part, vars, pjVars, tsVars>> => [Pj!Next]_pjVars
BY DEF PagesMove, ProjectsMove, TrashMoves

LEMMA ProjectsStayInOrder == Structure => []PjInv
<1>1. StructureInit => PjInv
  BY PjInitHolds DEF StructureInit
<1>2. PjInv /\ [PagesMove \/ ProjectsMove \/ TrashMoves]_<<part, vars, pjVars, tsVars>> => PjInv'
  BY PjStepKeeps, StructureMovesProjects
<1> QED
  BY <1>1, <1>2, PTL DEF Structure

\* The unique indexes on positions are met by nothing but pages and projects that
\* come or go between a read and its write: a reorder finds every place free, row
\* by row, and who comes last finds that nobody has come behind.
THEOREM PlacesNeverCollide == Structure => []PlacesDoNotCollide
<1>1. PgInv /\ PjInv => PlacesDoNotCollide
  BY PgReordersFit, PjPlacesFit DEF PlacesDoNotCollide
<1> QED
  BY <1>1, PagesStayInOrder, ProjectsStayInOrder, PTL

-----------------------------------------------------------------------------
(* The tree of projects: until two moves have crossed, every project hangs   *)
(* from the root.                                                            *)

LEMMA LeastNumber ==
  ASSUME NEW T \in SUBSET Nat, T # {}
  PROVE  \E n \in T : \A m \in T : n <= m
<1> DEFINE R == {q \in Nat \X Nat : q[1] < q[2]}
<1>1. IsWellFoundedOn(R, Nat)
  BY NatLessThanWellFounded, Zenon DEF OpToRel
<1> HIDE DEF R
<1>2. PICK n \in T : \A m \in T : <<m, n>> \notin R
  BY <1>1, WFMin
<1>3. ASSUME NEW m \in T PROVE n <= m
  <2>1. m \in Nat /\ n \in Nat
    OBVIOUS
  <2>2. m < n => <<m, n>> \in R
    BY <2>1 DEF R
  <2> QED
    BY <1>2, <2>1, <2>2
<1> QED
  BY <1>3

\* f applies F over and over, from a on, n times.
Iterates(f, F, a, n) ==
  f[0] = a /\ \A i \in 1..n : f[i] = F[f[i - 1]]

IteratesIn(T, f, F, a, n) ==
  /\ F \in [SUBSET T -> SUBSET T] /\ n \in Nat /\ f \in [0..n -> SUBSET T]
  /\ Iterates(f, F, a, n)

LEMMA CanIterate ==
  ASSUME NEW S, NEW F \in [SUBSET S -> SUBSET S], NEW a \in SUBSET S, NEW n \in Nat
  PROVE  \E f : IteratesIn(S, f, F, a, n)
<1> DEFINE D == SUBSET S
           T == {m \in Nat : ~\E f \in [0..m -> D] : Iterates(f, F, a, m)}
<1>1. SUFFICES ASSUME T # {} PROVE FALSE
  BY DEF IteratesIn
<1>2. PICK m \in T : \A k \in T : m <= k
  <2>1. T \in SUBSET Nat
    BY DEF T
  <2> HIDE DEF T
  <2> QED
    BY <1>1, <2>1, LeastNumber
<1>3. m # 0
  <2>1. [i \in 0..0 |-> a] \in [0..0 -> D] /\ Iterates([i \in 0..0 |-> a], F, a, 0)
    BY DEF Iterates
  <2> QED
    BY <1>2, <2>1 DEF T
<1>4. m \in Nat /\ m - 1 \in Nat /\ m - 1 \notin T
  BY <1>2, <1>3 DEF T
<1>5. PICK f \in [0..(m - 1) -> D] : Iterates(f, F, a, m - 1)
  BY <1>4 DEF T
<1> DEFINE h == [i \in 0..m |-> IF i = m THEN F[f[m - 1]] ELSE f[i]]
<1>6. f[m - 1] \in D /\ F[f[m - 1]] \in D
  BY <1>4, <1>5
<1>7. h \in [0..m -> D] /\ h[0] = a
  BY <1>3, <1>4, <1>5, <1>6 DEF Iterates
<1>8. ASSUME NEW i \in 1..m PROVE h[i] = F[h[i - 1]]
  <2> HIDE DEF D
  <2> QED
    BY <1>4, <1>5 DEF Iterates
<1>9. Iterates(h, F, a, m)
  BY <1>7, <1>8 DEF Iterates
<1> QED
  BY <1>2, <1>7, <1>9 DEF T

\* There is no other iteration.
SameSteps(T, u, F, a, n) ==
  /\ u = [i \in 0..n |-> u[i]] /\ u[0] = a
  /\ \A i \in 1..n : u[i - 1] \in SUBSET T => u[i] = F[u[i - 1]]

LEMMA IteratesAlone ==
  ASSUME NEW S, NEW F, NEW a, NEW n, NEW f, IteratesIn(S, f, F, a, n), NEW u, SameSteps(S, u, F, a, n)
  PROVE  u = f
<1> USE DEF IteratesIn, SameSteps
<1> DEFINE T == {i \in 0..n : u[i] # f[i]}
<1>1. ASSUME T # {} PROVE FALSE
  <2>1. T \in SUBSET Nat
    OBVIOUS
  <2>2. PICK m \in T : \A k \in T : m <= k
    <3> HIDE DEF T
    <3> QED
      BY <1>1, <2>1, LeastNumber
  <2>3. m # 0
    BY <2>2 DEF Iterates
  <2>4. m \in 1..n /\ m - 1 \in 0..n /\ m - 1 \notin T
    BY <2>2, <2>3
  <2>5. u[m - 1] = f[m - 1] /\ f[m - 1] \in SUBSET S /\ u[m] # f[m]
    BY <2>2, <2>4
  <2> HIDE DEF T
  <2> QED
    BY <2>4, <2>5 DEF Iterates
<1>2. \A i \in 0..n : u[i] = f[i]
  BY <1>1
<1> QED
  BY <1>2

\* What grows within a finite set has stopped after as many steps as it has elements.
GrowsIn(T, F) == IsFiniteSet(T) /\ \A X \in SUBSET T : X \subseteq F[X]

LEMMA GrowthEnds ==
  ASSUME NEW T, NEW F, NEW a, NEW n, NEW f, IteratesIn(T, f, F, a, n), GrowsIn(T, F),
         n = Cardinality(T)
  PROVE  F[f[n]] = f[n] /\ a \subseteq f[n]
<1> USE DEF IteratesIn, GrowsIn
<1>1. n \in Nat
  BY FS_CardinalityType
<1> DEFINE Grown(i) == F[f[i]] = f[i] \/ Cardinality(f[i]) >= i
           B == {i \in 0..n : ~(Grown(i) /\ a \subseteq f[i])}
<1>2. \A X \in SUBSET T : IsFiniteSet(X) /\ Cardinality(X) \in Nat
  BY FS_Subset, FS_CardinalityType
<1>3. ASSUME B # {} PROVE FALSE
  <2>1. PICK i \in B : \A k \in B : i <= k
    <3>1. B \in SUBSET Nat
      BY <1>1
    <3> HIDE DEF B
    <3> QED
      BY <1>3, <3>1, LeastNumber
  <2>2. i \in 0..n /\ ~(Grown(i) /\ a \subseteq f[i])
    BY <2>1
  <2>3. CASE i = 0
    <3>1. f[0] = a /\ Cardinality(f[0]) >= 0
      BY <1>2 DEF Iterates
    <3> QED
      BY <2>2, <2>3, <3>1
  <2>4. CASE i # 0
    <3>1. i \in 1..n /\ i - 1 \in 0..n /\ i - 1 \notin B
      BY <1>1, <2>1, <2>2, <2>4
    <3>2. Grown(i - 1) /\ a \subseteq f[i - 1]
      BY <3>1
    <3>3. f[i] = F[f[i - 1]] /\ f[i - 1] \in SUBSET T /\ f[i] \in SUBSET T
      BY <2>2, <3>1 DEF Iterates
    <3>4. f[i - 1] \subseteq f[i] /\ a \subseteq f[i]
      BY <3>2, <3>3
    <3>5. CASE F[f[i - 1]] = f[i - 1]
      <4>1. F[f[i]] = f[i]
        BY <3>3, <3>5
      <4> QED
        BY <2>2, <3>4, <4>1
    <3>6. CASE F[f[i - 1]] # f[i - 1]
      <4>1. Cardinality(f[i - 1]) >= i - 1
        BY <3>2, <3>6
      <4>2. Cardinality(f[i - 1]) <= Cardinality(f[i]) /\ Cardinality(f[i - 1]) # Cardinality(f[i])
        BY <1>2, <3>3, <3>4, <3>6, FS_Subset
      <4>3. Cardinality(f[i - 1]) \in Nat /\ Cardinality(f[i]) \in Nat /\ i \in Nat
        BY <1>1, <1>2, <3>1, <3>3
      <4>4. Cardinality(f[i]) >= i
        BY <4>1, <4>2, <4>3
      <4> QED
        BY <2>2, <3>4, <4>4
    <3> QED
      BY <3>5, <3>6
  <2> QED
    BY <2>3, <2>4
<1>4. Grown(n) /\ a \subseteq f[n] /\ f[n] \in SUBSET T
  BY <1>1, <1>3
<1>5. CASE Cardinality(f[n]) >= n
  <2>1. Cardinality(f[n]) <= n /\ Cardinality(f[n]) \in Nat
    BY <1>2, <1>4, FS_Subset
  <2>2. f[n] = T
    BY <1>1, <1>4, <1>5, <2>1, FS_Subset
  <2> QED
    BY <1>4, <2>2
<1> QED
  BY <1>4, <1>5

\* What no step leaves is never left.
StaysIn(U, F, a) == a \subseteq U /\ \A X \in SUBSET U : F[X] \subseteq U

LEMMA GrowthStays ==
  ASSUME NEW T, NEW F, NEW a, NEW n, NEW f, IteratesIn(T, f, F, a, n),
         NEW U \in SUBSET T, StaysIn(U, F, a)
  PROVE  f[n] \subseteq U
<1> USE DEF IteratesIn, StaysIn
<1> DEFINE B == {i \in 0..n : ~(f[i] \subseteq U)}
<1>1. ASSUME B # {} PROVE FALSE
  <2>1. PICK i \in B : \A k \in B : i <= k
    <3>1. B \in SUBSET Nat
      OBVIOUS
    <3> HIDE DEF B
    <3> QED
      BY <1>1, <3>1, LeastNumber
  <2>2. i \in 0..n /\ ~(f[i] \subseteq U) /\ i # 0
    BY <2>1 DEF Iterates
  <2>3. i \in 1..n /\ i - 1 \in 0..n /\ i - 1 \notin B
    BY <2>1, <2>2
  <2>4. f[i - 1] \in SUBSET U /\ f[i] = F[f[i - 1]]
    BY <2>3 DEF Iterates
  <2> QED
    BY <2>2, <2>4
<1> QED
  BY <1>1

LEMMA AboveIs ==
  ASSUME parent \in [PageIds -> PageIds \cup {Root, None}], NEW g \in PageIds \cup {Root}
  PROVE  /\ Pj!Above(g) \subseteq PageIds /\ (g \in PageIds => g \in Pj!Above(g))
         /\ \A m \in Pj!Above(g) \cap Pj!Rows : parent[m] \in Pj!Above(g) \cup {Root}
         /\ \A U \in SUBSET PageIds :
              g \in U \cup {Root} /\ (\A m \in U \cap Pj!Rows : parent[m] \in U \cup {Root})
                => Pj!Above(g) \subseteq U
<1> DEFINE n == Cardinality(PageIds)
           D == PageIds \cup {Root, None}
           Up(X) == {parent[m] : m \in X \cap Pj!Rows}
           E == [X \in SUBSET D |-> X \cup Up(X)]
           F == [X \in SUBSET PageIds |-> X \cup (Up(X) \ {Root, None})]
           Is(up) == up = [i \in 0..n |-> IF i = 0 THEN {g} ELSE up[i - 1] \cup Up(up[i - 1])]
<1>1. n \in Nat /\ IsFiniteSet(PageIds) /\ Root \notin PageIds /\ None \notin PageIds \cup {Root}
  BY PjConstants, FS_CardinalityType
<1>2. /\ Pj!Rows \subseteq PageIds
      /\ \A X : Up(X) \subseteq D
      /\ \A m \in Pj!Rows : parent[m] \in PageIds \cup {Root}
  BY DEF Pj!Rows
<1>3. E \in [SUBSET D -> SUBSET D] /\ F \in [SUBSET PageIds -> SUBSET PageIds]
  BY <1>2
<1>4. PICK f : IteratesIn(D, f, E, {g}, n)
  <2>1. {g} \in SUBSET D
    OBVIOUS
  <2> HIDE DEF n, D, E, F, Up
  <2> QED
    BY <1>1, <1>3, <2>1, CanIterate
<1>5. Is(f)
  <2>1. f = [i \in 0..n |-> f[i]] /\ f[0] = {g}
    BY <1>4 DEF IteratesIn, Iterates
  <2>2. ASSUME NEW i \in 0..n, i # 0 PROVE f[i] = f[i - 1] \cup Up(f[i - 1])
    <3>1. i \in 1..n /\ i - 1 \in 0..n
      BY <1>1, <2>2
    <3>2. f[i] = E[f[i - 1]] /\ f[i - 1] \in SUBSET D
      BY <1>4, <3>1 DEF IteratesIn, Iterates
    <3> HIDE DEF n, D, Up
    <3> QED
      BY <3>2
  <2> HIDE DEF n, D, E, F, Up
  <2> QED
    BY <2>1, <2>2
<1>6. PICK u : Is(u) /\ Pj!Above(g) = u[n] \ {Root, None}
  <2>1. Pj!Above(g) = (CHOOSE up : Is(up))[n] \ {Root, None}
    BY PjSame DEF Pj!Above
  <2> HIDE DEF Is, n
  <2> QED
    BY <1>5, <2>1
<1>7. u = f
  <2>1. u = [i \in 0..n |-> u[i]] /\ u[0] = {g}
    BY <1>1, <1>6
  <2>2. ASSUME NEW i \in 1..n, u[i - 1] \in SUBSET D PROVE u[i] = E[u[i - 1]]
    <3>1. i \in 0..n /\ i # 0
      BY <1>1
    <3>2. u[i] = u[i - 1] \cup Up(u[i - 1])
      BY <1>6, <3>1
    <3> HIDE DEF n, D, Up
    <3> QED
      BY <2>2, <3>2
  <2> HIDE DEF n, D, E, F, Up
  <2>3. SameSteps(D, u, E, {g}, n)
    BY <2>1, <2>2 DEF SameSteps
  <2> QED
    BY <1>4, <2>3, IteratesAlone
<1> DEFINE w == [i \in 0..n |-> f[i] \ {Root, None}]
           a == {g} \ {Root, None}
<1>8. IteratesIn(PageIds, w, F, a, n)
  <2>1. w \in [0..n -> SUBSET PageIds]
    <3>1. \A i \in 0..n : f[i] \in SUBSET D
      BY <1>4 DEF IteratesIn
    <3> HIDE DEF n
    <3> QED
      BY <3>1
  <2>2. w[0] = a
    BY <1>1, <1>4 DEF IteratesIn, Iterates
  <2>3. ASSUME NEW i \in 1..n PROVE w[i] = F[w[i - 1]]
    <3>1. i \in 0..n /\ i - 1 \in 0..n
      BY <1>1
    <3>2. f[i] = E[f[i - 1]] /\ f[i - 1] \in SUBSET D
      BY <1>4, <3>1 DEF IteratesIn, Iterates
    <3>3. f[i] = f[i - 1] \cup Up(f[i - 1])
      BY <3>2
    <3>4. w[i] = f[i] \ {Root, None} /\ w[i - 1] = f[i - 1] \ {Root, None}
      BY <3>1
    <3>5. w[i - 1] \in SUBSET PageIds
      BY <2>1, <3>1
    <3>6. Up(f[i - 1]) = Up(w[i - 1])
      <4>1. f[i - 1] \cap Pj!Rows = w[i - 1] \cap Pj!Rows
        <5> HIDE DEF w, n, E, F, D, Up
        <5> QED
          BY <1>1, <1>2, <3>4
      <4> HIDE DEF w, n, E, F, D
      <4> QED
        BY <4>1
    <3>7. F[w[i - 1]] = w[i - 1] \cup (Up(w[i - 1]) \ {Root, None})
      BY <3>5
    <3> HIDE DEF w, Up, F, E
    <3> QED
      BY <3>3, <3>4, <3>6, <3>7
  <2> HIDE DEF w, a, F, n
  <2> QED
    BY <1>1, <1>3, <2>1, <2>2, <2>3 DEF IteratesIn, Iterates
<1>9. Pj!Above(g) = w[n] /\ Pj!Above(g) \in SUBSET PageIds
  <2>1. n \in 0..n
    BY <1>1
  <2>2. w[n] = f[n] \ {Root, None} /\ w[n] \in SUBSET PageIds
    BY <1>8, <2>1 DEF IteratesIn
  <2> QED
    BY <1>6, <1>7, <2>2
<1>10. GrowsIn(PageIds, F)
  BY <1>1 DEF GrowsIn
<1>11. F[Pj!Above(g)] = Pj!Above(g) /\ a \subseteq Pj!Above(g)
  <2>1. n = Cardinality(PageIds)
    OBVIOUS
  <2> HIDE DEF w, a, F, n
  <2> QED
    BY <1>8, <1>9, <1>10, <2>1, GrowthEnds
<1>12. \A m \in Pj!Above(g) \cap Pj!Rows : parent[m] \in Pj!Above(g) \cup {Root}
  <2>1. F[Pj!Above(g)] = Pj!Above(g) \cup (Up(Pj!Above(g)) \ {Root, None})
    BY <1>9
  <2>2. \A m \in Pj!Above(g) \cap Pj!Rows : parent[m] \in Up(Pj!Above(g))
    OBVIOUS
  <2>3. \A m \in Pj!Rows : parent[m] \in PageIds \cup {Root} /\ parent[m] # None
    BY <1>1, <1>2
  <2> HIDE DEF F, E, D, Up, w, n, a
  <2>4. Up(Pj!Above(g)) \ {Root, None} \subseteq Pj!Above(g)
    BY <1>11, <2>1
  <2> QED
    BY <2>2, <2>3, <2>4
<1>13. ASSUME NEW U \in SUBSET PageIds, g \in U \cup {Root},
              \A m \in U \cap Pj!Rows : parent[m] \in U \cup {Root}
       PROVE  Pj!Above(g) \subseteq U
  <2>1. a \subseteq U
    BY <1>13
  <2>2. \A X \in SUBSET U : F[X] \subseteq U
    BY <1>1, <1>13
  <2>3. StaysIn(U, F, a)
    BY <2>1, <2>2 DEF StaysIn
  <2> HIDE DEF w, a, F, n
  <2> QED
    BY <1>8, <1>9, <2>3, GrowthStays
<1>14. g \in PageIds => g \in Pj!Above(g)
  BY <1>1, <1>11
<1> QED
  BY <1>9, <1>12, <1>13, <1>14

\* buildTree starts at the rows without a parent among the rows and goes down to the end.
LEMMA BuildTreeIs ==
  ASSUME parent \in [PageIds -> PageIds \cup {Root, None}]
  PROVE  /\ Pj!BuildTree \subseteq Pj!Rows
         /\ \A m \in Pj!Rows :
              parent[m] \notin Pj!Rows \/ parent[m] \in Pj!BuildTree => m \in Pj!BuildTree
<1> DEFINE n == Cardinality(PageIds)
           roots == {m \in Pj!Rows : parent[m] \notin Pj!Rows}
           Down(X) == {m \in Pj!Rows : parent[m] \in X}
           F == [X \in SUBSET PageIds |-> X \cup Down(X)]
           Is(t) == t = [i \in 0..n |-> IF i = 0 THEN roots ELSE t[i - 1] \cup Down(t[i - 1])]
<1>1. n \in Nat /\ IsFiniteSet(PageIds) /\ Pj!Rows \subseteq PageIds
  BY PjConstants, FS_CardinalityType DEF Pj!Rows
<1>2. F \in [SUBSET PageIds -> SUBSET PageIds] /\ roots \in SUBSET PageIds
  BY <1>1
<1>3. PICK f : IteratesIn(PageIds, f, F, roots, n)
  <2> HIDE DEF n, F, roots
  <2> QED
    BY <1>1, <1>2, CanIterate
<1>4. Is(f)
  <2>1. f = [i \in 0..n |-> f[i]] /\ f[0] = roots
    BY <1>3 DEF IteratesIn, Iterates
  <2>2. ASSUME NEW i \in 0..n, i # 0 PROVE f[i] = f[i - 1] \cup Down(f[i - 1])
    <3>1. i \in 1..n /\ i - 1 \in 0..n
      BY <1>1, <2>2
    <3>2. f[i] = F[f[i - 1]] /\ f[i - 1] \in SUBSET PageIds
      <4> HIDE DEF n, F, roots, Down
      <4> QED
        BY <1>3, <3>1 DEF IteratesIn, Iterates
    <3> HIDE DEF n, Down
    <3> QED
      BY <3>2
  <2> HIDE DEF n, F, roots, Down
  <2> QED
    BY <2>1, <2>2
<1>5. PICK u : Is(u) /\ Pj!BuildTree = u[n]
  <2>1. Pj!BuildTree = (CHOOSE t : Is(t))[n]
    BY PjSame DEF Pj!BuildTree
  <2> HIDE DEF Is, n
  <2> QED
    BY <1>4, <2>1
<1>6. u = f
  <2>1. u = [i \in 0..n |-> u[i]] /\ u[0] = roots
    BY <1>1, <1>5
  <2>2. ASSUME NEW i \in 1..n, u[i - 1] \in SUBSET PageIds PROVE u[i] = F[u[i - 1]]
    <3>1. i \in 0..n /\ i # 0
      BY <1>1
    <3>2. u[i] = u[i - 1] \cup Down(u[i - 1])
      BY <1>5, <3>1
    <3> HIDE DEF n, Down
    <3> QED
      BY <2>2, <3>2
  <2> HIDE DEF n, F, roots, Down
  <2>3. SameSteps(PageIds, u, F, roots, n)
    BY <2>1, <2>2 DEF SameSteps
  <2> QED
    BY <1>3, <2>3, IteratesAlone
<1>7. GrowsIn(PageIds, F)
  BY <1>1 DEF GrowsIn
<1>8. F[f[n]] = f[n] /\ roots \subseteq f[n] /\ f[n] \in SUBSET PageIds
  <2>1. n = Cardinality(PageIds) /\ n \in 0..n
    BY <1>1
  <2>2. f[n] \in SUBSET PageIds
    BY <1>3, <2>1 DEF IteratesIn
  <2> HIDE DEF n, F, roots
  <2> QED
    BY <1>3, <1>7, <2>1, <2>2, GrowthEnds
<1>9. f[n] \subseteq Pj!Rows
  <2>1. StaysIn(Pj!Rows, F, roots)
    BY <1>1 DEF StaysIn
  <2> HIDE DEF n, F, roots
  <2> QED
    BY <1>1, <1>3, <2>1, GrowthStays
<1>10. F[f[n]] = f[n] \cup Down(f[n])
  BY <1>8
<1> HIDE DEF n, F
<1> QED
  BY <1>5, <1>6, <1>8, <1>9, <1>10

\* No set of projects hangs from itself.
Hangs == \A S \in SUBSET Pj!Rows : S # {} => \E n \in S : parent[n] \notin S

\* A project may go below g: what is above g does not hold it.
ClearOf(n, g) ==
  \E U \in SUBSET PageIds :
    /\ g \in U \cup {Root} /\ n \notin U
    /\ \A m \in U \cap Pj!Rows : parent[m] \in U \cup {Root}

Descending(q) == q.pc \in {"descend", "position", "update"}

\* What a request may do to the tree: a project that is to be created has nobody
\* below it yet, and one that is to be moved goes where it may.
TreeRequestFits(q) ==
  /\ q.pc \in {"parent", "descend", "position", "update"} => q.node \in PageIds
  /\ Creating(q) => \A m \in Pj!Rows : parent[m] # q.node
  /\ Descending(q) => q.to \in nodeUsed \cup {Root}
  /\ crossed = TRUE
       \/ (q.pc # "loops" /\ (q.pc \in {"position", "update"} => ClearOf(q.node, q.to)))

TreeInv ==
  /\ \A m \in Pj!Rows : parent[m] \in nodeUsed \cup {Root}
  /\ crossed = TRUE \/ Hangs
  /\ \A r \in Requests : TreeRequestFits(nodeRun[r])
  /\ \A r \in Requests : \A x \in Requests \ {r} :
       Descending(nodeRun[r]) /\ Creating(nodeRun[x]) => nodeRun[r].to # nodeRun[x].node

\* No cycle is above a project of a tree that hangs from the root.
LEMMA NoCycle ==
  ASSUME parent \in [PageIds -> PageIds \cup {Root, None}], Hangs,
         NEW m \in PageIds
  PROVE  ~Pj!InCycle(m)
<1> SUFFICES ASSUME Pj!InCycle(m) PROVE FALSE
  OBVIOUS
<1>1. /\ parent[m] \in Pj!Rows /\ m \in Pj!Above(parent[m])
      /\ Pj!Rows \subseteq PageIds /\ None \notin PageIds /\ Root \notin PageIds
  BY PjConstants DEF Pj!InCycle, Pj!Rows
<1> DEFINE T == {x \in Pj!Rows : m \in Pj!Above(x)}
<1>2. m \in Pj!Rows
  BY <1>1 DEF Pj!Rows
<1>3. ASSUME NEW x \in T PROVE parent[x] \in T
  <2>1. x \in Pj!Rows /\ m \in Pj!Above(x) /\ x \in PageIds
    BY <1>1
  <2>2. CASE x = m
    BY <1>1, <2>2
  <2>3. CASE x # m
    <3>1. PICK y \in PageIds \cup {Root} : y = parent[x]
      BY <2>1 DEF Pj!Rows
    <3>2. /\ Pj!Above(y) \subseteq PageIds /\ (y \in PageIds => y \in Pj!Above(y))
          /\ \A z \in Pj!Above(y) \cap Pj!Rows : parent[z] \in Pj!Above(y) \cup {Root}
      BY AboveIs
    <3>7. ASSUME NEW V \in SUBSET PageIds, y \in V \cup {Root},
                 \A z \in V \cap Pj!Rows : parent[z] \in V \cup {Root}
          PROVE  Pj!Above(y) \subseteq V
      BY <3>7, AboveIs
    <3> DEFINE U == {x} \cup Pj!Above(y)
    <3>3. /\ U \in SUBSET PageIds /\ x \in U
          /\ \A z \in U \cap Pj!Rows : parent[z] \in U \cup {Root}
      BY <2>1, <3>1, <3>2
    <3>4. Pj!Above(x) \subseteq U
      <4> HIDE DEF U
      <4> QED
        BY <2>1, <3>3, AboveIs
    <3>5. m \in Pj!Above(y)
      BY <2>1, <2>3, <3>4
    <3>6. y \in Pj!Rows
      <4>1. CASE y = Root
        <5>1. PICK V \in SUBSET PageIds : V = {}
          OBVIOUS
        <5>2. y \in V \cup {Root} /\ \A z \in V \cap Pj!Rows : parent[z] \in V \cup {Root}
          BY <4>1, <5>1
        <5>3. Pj!Above(y) \subseteq V
          BY <3>7, <5>2
        <5> QED
          BY <3>5, <5>1, <5>3
      <4>2. CASE y \in PageIds /\ y \notin Pj!Rows
        <5>1. {y} \in SUBSET PageIds /\ \A z \in {y} \cap Pj!Rows : parent[z] \in {y} \cup {Root}
          BY <4>2
        <5>2. Pj!Above(y) \subseteq {y}
          BY <3>7, <4>2, <5>1
        <5> QED
          BY <1>2, <3>5, <4>2, <5>2
      <4> QED
        BY <4>1, <4>2
    <3> QED
      BY <3>1, <3>5, <3>6
  <2> QED
    BY <2>2, <2>3
<1>4. T \in SUBSET Pj!Rows /\ parent[m] \in T
  BY <1>1
<1> HIDE DEF T
<1> QED
  BY <1>3, <1>4 DEF Hangs

\* Two records of one request, alike in what the tree is told by.
Alike(z, q) == z.pc = q.pc /\ z.node = q.node /\ z.to = q.to

LEMMA TreeStands ==
  ASSUME TreeInv, NEW r \in Requests, UNCHANGED <<parent, crossed>>, nodeUsed \subseteq nodeUsed',
         \A x \in Requests \ {r} : Alike(nodeRun'[x], nodeRun[x]),
         NEW q, Alike(nodeRun'[r], q), TreeRequestFits(q),
         \A x \in Requests \ {r} :
           /\ Descending(q) /\ Creating(nodeRun[x]) => q.to # nodeRun[x].node
           /\ Descending(nodeRun[x]) /\ Creating(q) => nodeRun[x].to # q.node
  PROVE  TreeInv'
<1>1. Pj!Rows' = Pj!Rows
  BY DEF Pj!Rows
<1>2. Hangs => Hangs'
  BY <1>1 DEF Hangs
<1>3. ASSUME NEW n, NEW g, ClearOf(n, g) PROVE ClearOf(n, g)'
  BY <1>1, <1>3 DEF ClearOf
<1>4. ASSUME NEW y, NEW z, TreeRequestFits(y), Alike(z, y) PROVE TreeRequestFits(z)'
  BY <1>1, <1>3, <1>4 DEF TreeRequestFits, Alike, Creating, Descending
<1>5. ASSUME NEW x \in Requests PROVE TreeRequestFits(nodeRun[x])'
  <2>1. PICK y : TreeRequestFits(y) /\ Alike(nodeRun'[x], y)
    BY DEF TreeInv
  <2> QED
    BY <1>4, <2>1
<1>6. ASSUME NEW x \in Requests, NEW y \in Requests \ {x},
             Descending(nodeRun'[x]), Creating(nodeRun'[y])
      PROVE  nodeRun'[x].to # nodeRun'[y].node
  BY <1>6 DEF TreeInv, Alike, Descending, Creating
<1> QED
  BY <1>1, <1>2, <1>5, <1>6 DEF TreeInv, Descending, Creating

\* A request that says nothing of the tree.
LEMMA TreeRests ==
  ASSUME TreeInv, NEW r \in Requests, UNCHANGED <<parent, crossed>>, nodeUsed \subseteq nodeUsed',
         \A x \in Requests \ {r} : Alike(nodeRun'[x], nodeRun[x]),
         nodeRun'[r].pc \in {"idle", "delete", "lock", "aside", "place"}
  PROVE  TreeInv'
<1>1. PICK q : q = nodeRun'[r]
  OBVIOUS
<1>2. q.pc \in {"idle", "delete", "lock", "aside", "place"} /\ ~Creating(q) /\ ~Descending(q)
  BY <1>1 DEF Creating, Descending
<1>3. TreeRequestFits(q) /\ Alike(nodeRun'[r], q)
  BY <1>1, <1>2 DEF TreeRequestFits, Alike
<1> QED
  BY <1>2, <1>3, TreeStands

\* Requests that are created, or that go below somebody, name ids of projects.
LEMMA TreeTyped ==
  ASSUME PjInv
  PROVE  /\ parent \in [PageIds -> PageIds \cup {Root, None}] /\ nodeUsed \subseteq PageIds
         /\ Pj!Rows \subseteq nodeUsed /\ nodeRun \in [Requests -> NodeRequest]
         /\ \A r \in Requests : Creating(nodeRun[r]) => nodeRun[r].node \in nodeUsed \ Pj!Rows
         /\ Root \notin PageIds /\ None \notin PageIds /\ None # Root /\ crossed \in BOOLEAN
BY PjTyped, PjRun, PjConstants DEF PjInv, NodeRequestFits, Pj!TypeOK

\* One request goes on to q.
LEMMA TreeMoves ==
  ASSUME PjInv, TreeInv, NEW r \in Requests, NEW q, nodeRun' = [nodeRun EXCEPT ![r] = q],
         UNCHANGED <<parent, crossed>>, nodeUsed \subseteq nodeUsed', TreeRequestFits(q),
         \A x \in Requests \ {r} :
           /\ Descending(q) /\ Creating(nodeRun[x]) => q.to # nodeRun[x].node
           /\ Descending(nodeRun[x]) /\ Creating(q) => nodeRun[x].to # q.node
  PROVE  TreeInv'
<1>1. Alike(nodeRun'[r], q) /\ \A x \in Requests \ {r} : Alike(nodeRun'[x], nodeRun[x])
  BY TreeTyped DEF Alike
<1> QED
  BY <1>1, TreeStands

LEMMA TreeEnds ==
  ASSUME PjInv, TreeInv, NEW r \in Requests, Pj!Ends(r), UNCHANGED <<parent, crossed, nodeUsed>>
  PROVE  TreeInv'
<1>1. nodeRun'[r] = Pj!Idle /\ \A x \in Requests \ {r} : Alike(nodeRun'[x], nodeRun[x])
  BY TreeTyped DEF Alike, Pj!Ends
<1> QED
  BY <1>1, PjIdle, TreeRests

LEMMA TreeMoveAsked ==
  ASSUME PjInv, TreeInv, NEW r \in Requests, NEW n \in PageIds, NEW g \in Pj!Group,
         Pj!MoveAsked(r, n, g)
  PROVE  TreeInv'
<1>1. PICK q : /\ q.pc = (IF g = Root THEN "position" ELSE "parent")
               /\ q.node = n /\ q.to = g /\ Pj!Starts(r, q)
  BY DEF Pj!MoveAsked, Pj!Idle
<1>2. UNCHANGED <<parent, crossed, nodeUsed>> /\ nodeRun' = [nodeRun EXCEPT ![r] = q]
  BY <1>1 DEF Pj!MoveAsked, Pj!Starts
<1>3. ClearOf(n, Root)
  <2>1. {} \in SUBSET PageIds /\ Root \in {} \cup {Root} /\ n \notin {}
    OBVIOUS
  <2>2. \A m \in {} \cap Pj!Rows : parent[m] \in {} \cup {Root}
    OBVIOUS
  <2> QED
    BY <2>1, <2>2, Zenon DEF ClearOf
<1>4. ~Creating(q) /\ q.pc # "loops" /\ (Descending(q) \/ q.pc \in {"position", "update"} => g = Root)
  BY <1>1 DEF Creating, Descending
<1>5. TreeRequestFits(q)
  BY <1>1, <1>3, <1>4 DEF TreeRequestFits
<1>6. \A x \in Requests : Creating(nodeRun[x]) => nodeRun[x].node # Root
  BY TreeTyped
<1> QED
  BY <1>1, <1>2, <1>4, <1>5, <1>6, TreeMoves

LEMMA TreeCreateAsked ==
  ASSUME PjInv, TreeInv, NEW r \in Requests, NEW n \in PageIds, NEW g \in Pj!Group,
         Pj!CreateAsked(r, n, g)
  PROVE  TreeInv'
<1>1. PICK q : q.pc = "create" /\ q.node = n /\ Pj!Starts(r, q)
  BY DEF Pj!CreateAsked, Pj!Idle
<1>2. /\ UNCHANGED <<parent, crossed>> /\ nodeUsed \subseteq nodeUsed' /\ n \notin nodeUsed \cup {Root}
      /\ nodeRun' = [nodeRun EXCEPT ![r] = q]
  BY <1>1, TreeTyped DEF Pj!CreateAsked, Pj!Starts
<1>3. ~Descending(q) /\ q.pc = "create"
  BY <1>1 DEF Descending
<1>4. TreeRequestFits(q)
  BY <1>1, <1>2, <1>3 DEF TreeRequestFits, TreeInv
<1>5. \A x \in Requests : Descending(nodeRun[x]) => nodeRun[x].to # n
  BY <1>2 DEF TreeInv, TreeRequestFits
<1> QED
  BY <1>1, <1>2, <1>3, <1>4, <1>5, TreeMoves

\* A request goes on to another step with the project and the parent it has.
LEMMA TreeGoesOn ==
  ASSUME PjInv, TreeInv, NEW r \in Requests,
         \/ Pj!CreateReads(r) \/ Pj!MoveReadsPosition(r)
         \/ Pj!MoveReadsParent(r) \/ Pj!MoveChecks(r)
  PROVE  TreeInv'
<1> DEFINE n == nodeRun[r].node
           g == nodeRun[r].to
<1>1. UNCHANGED <<parent, crossed, nodeUsed>>
  BY DEF Pj!CreateReads, Pj!MoveReadsPosition, Pj!MoveReadsParent, Pj!MoveChecks
<1>2. nodeRun[r] \in NodeRequest /\ nodeRun \in [Requests -> NodeRequest] /\ TreeRequestFits(nodeRun[r])
  BY TreeTyped DEF TreeInv
<1>3. CASE Pj!Ends(r)
  BY <1>1, <1>3, TreeEnds
<1>4. ASSUME NEW pc, NEW k,
             \/ nodeRun' = [nodeRun EXCEPT ![r].pc = pc, ![r].pos = k]
             \/ nodeRun' = [nodeRun EXCEPT ![r].pc = pc]
      PROVE  \E q : q.pc = pc /\ q.node = n /\ q.to = g /\ nodeRun' = [nodeRun EXCEPT ![r] = q]
  <2>1. PICK q : /\ q = [nodeRun[r] EXCEPT !.pc = pc, !.pos = k] \/ q = [nodeRun[r] EXCEPT !.pc = pc]
                 /\ nodeRun' = [nodeRun EXCEPT ![r] = q]
    BY <1>4
  <2>2. q.pc = pc /\ q.node = n /\ q.to = g
    BY <1>2, <2>1 DEF NodeRequest
  <2> QED
    BY <2>1, <2>2
<1>5. CASE Pj!CreateReads(r)
  <2>1. PICK q : q.pc = "insert" /\ q.node = n /\ nodeRun' = [nodeRun EXCEPT ![r] = q]
    BY <1>4, <1>5 DEF Pj!CreateReads
  <2>2. nodeRun[r].pc = "create" /\ Creating(nodeRun[r]) /\ ~Descending(q) /\ q.pc = "insert"
    BY <1>5, <2>1 DEF Pj!CreateReads, Pj!At, Creating, Descending
  <2>3. TreeRequestFits(q)
    BY <1>2, <2>1, <2>2 DEF TreeRequestFits, Creating
  <2>4. \A x \in Requests \ {r} : Descending(nodeRun[x]) => nodeRun[x].to # n
    BY <2>2 DEF TreeInv
  <2> QED
    BY <1>1, <2>1, <2>2, <2>3, <2>4, TreeMoves
<1>6. CASE Pj!MoveReadsPosition(r)
  <2>1. PICK q : q.pc = "update" /\ q.node = n /\ q.to = g /\ nodeRun' = [nodeRun EXCEPT ![r] = q]
    BY <1>4, <1>6 DEF Pj!MoveReadsPosition
  <2>2. nodeRun[r].pc = "position" /\ Descending(nodeRun[r]) /\ ~Creating(q)
    BY <1>6, <2>1 DEF Pj!MoveReadsPosition, Pj!At, Creating, Descending
  <2>3. TreeRequestFits(q)
    BY <1>2, <2>1, <2>2 DEF TreeRequestFits, Descending
  <2>4. \A x \in Requests \ {r} : Creating(nodeRun[x]) => q.to # nodeRun[x].node
    BY <2>1, <2>2 DEF TreeInv
  <2> HIDE DEF n, g
  <2> QED
    BY <1>1, <2>1, <2>2, <2>3, <2>4, TreeMoves
<1>7. CASE Pj!MoveReadsParent(r) /\ ~Pj!Ends(r)
  <2>1. nodeRun[r].pc = "parent" /\ Pj!ParentIsThere(g) /\ nodeRun' = [nodeRun EXCEPT ![r].pc = "descend"]
    BY <1>7 DEF Pj!MoveReadsParent, Pj!Goes, Pj!At
  <2>2. PICK q : q.pc = "descend" /\ q.node = n /\ q.to = g /\ nodeRun' = [nodeRun EXCEPT ![r] = q]
    BY <1>4, <2>1
  <2>3. g \in Pj!Rows \cup {Root} /\ g \in nodeUsed \cup {Root} /\ ~Creating(q)
    BY <2>1, <2>2, TreeTyped DEF Pj!ParentIsThere, Creating
  <2>4. TreeRequestFits(q)
    BY <1>2, <2>1, <2>2, <2>3 DEF TreeRequestFits
  <2>5. \A x \in Requests \ {r} : Creating(nodeRun[x]) => g # nodeRun[x].node
    BY <2>3, TreeTyped
  <2> QED
    BY <1>1, <2>2, <2>3, <2>4, <2>5, TreeMoves
<1>8. CASE Pj!MoveChecks(r) /\ ~Pj!Ends(r)
  <2>1. PICK pc \in {"position", "loops"} :
          /\ nodeRun[r].pc = "descend" /\ nodeRun' = [nodeRun EXCEPT ![r].pc = pc]
          /\ n \notin Pj!Above(g)
          /\ pc = "loops" => \E m \in Pj!Above(g) : Pj!InCycle(m)
    BY <1>8 DEF Pj!MoveChecks, Pj!WalkUp, Pj!Goes, Pj!At
  <2>2. PICK q : q.pc = pc /\ q.node = n /\ q.to = g /\ nodeRun' = [nodeRun EXCEPT ![r] = q]
    BY <1>4, <2>1
  <2>3. Descending(nodeRun[r]) /\ ~Creating(q) /\ n \in PageIds /\ g \in nodeUsed \cup {Root}
    BY <1>2, <2>1, <2>2 DEF Descending, Creating, TreeRequestFits
  <2>4. /\ Pj!Above(g) \in SUBSET PageIds /\ g \in Pj!Above(g) \cup {Root}
        /\ \A m \in Pj!Above(g) \cap Pj!Rows : parent[m] \in Pj!Above(g) \cup {Root}
    BY <2>3, AboveIs, TreeTyped
  <2>5. ClearOf(n, g)
    BY <2>1, <2>4, Zenon DEF ClearOf
  <2>6. crossed = TRUE \/ pc # "loops"
    BY <2>1, <2>4, NoCycle, TreeTyped DEF TreeInv
  <2>7. TreeRequestFits(q)
    BY <2>2, <2>3, <2>5, <2>6 DEF TreeRequestFits
  <2>8. \A x \in Requests \ {r} : Creating(nodeRun[x]) => g # nodeRun[x].node
    BY <2>3 DEF TreeInv
  <2> QED
    BY <1>1, <2>2, <2>3, <2>7, <2>8, TreeMoves
<1> QED
  BY <1>3, <1>5, <1>6, <1>7, <1>8

LEMMA TreeWrites ==
  ASSUME PjInv, TreeInv, NEW r \in Requests, NEW q, nodeRun' = [nodeRun EXCEPT ![r] = q],
         q.pc \in {"aside", "place"}, UNCHANGED <<parent, crossed, nodeUsed>>
  PROVE  TreeInv'
<1>1. nodeRun'[r].pc \in {"aside", "place"} /\ \A x \in Requests \ {r} : Alike(nodeRun'[x], nodeRun[x])
  BY TreeTyped DEF Alike
<1> QED
  BY <1>1, TreeRests

\* A reorder changes nothing of the tree.
LEMMA TreeReorders ==
  ASSUME PjInv, TreeInv, NEW r \in Requests,
         \/ Pj!ReorderReads(r) \/ Pj!ReorderRolledBack(r)
         \/ \E n \in PageIds : Pj!ReorderWritesRow(r, n)
  PROVE  TreeInv'
<1>1. UNCHANGED <<parent, crossed, nodeUsed>>
  BY DEF Pj!ReorderReads, Pj!ReorderRolledBack, Pj!ReorderWritesRow
<1>2. nodeRun \in [Requests -> NodeRequest]
  BY TreeTyped
<1>3. CASE Pj!Ends(r)
  BY <1>1, <1>3, TreeEnds
<1>4. CASE \E groups : nodeRun' = Pj!Disturb([nodeRun EXCEPT ![r] = Pj!Idle], r, groups)
  <2>1. PICK groups : LeavesDisturbed(r, groups)
    BY <1>4, NodesDisturbed
  <2>2. nodeRun'[r] = Pj!Idle /\ \A x \in Requests \ {r} : Alike(nodeRun'[x], nodeRun[x])
    BY <2>1 DEF LeavesDisturbed, Alike
  <2> QED
    BY <1>1, <2>2, PjIdle, TreeRests
<1>5. CASE Pj!ReorderReads(r) /\ ~Pj!Ends(r)
  <2>1. nodeRun' = [nodeRun EXCEPT ![r].pc = "aside", ![r].todo = Pj!Elements(nodeRun[r].order)]
    BY <1>5 DEF Pj!ReorderReads, Pj!FirstPhase
  <2>2. PICK q : q = [nodeRun[r] EXCEPT !.pc = "aside", !.todo = Pj!Elements(nodeRun[r].order)]
    OBVIOUS
  <2>3. q.pc = "aside"
    BY <1>2, <2>2 DEF NodeRequest
  <2>4. nodeRun' = [nodeRun EXCEPT ![r] = q]
    BY <2>1, <2>2
  <2> QED
    BY <1>1, <2>3, <2>4, TreeWrites
<1>6. ASSUME NEW n \in PageIds, Pj!ReorderWritesRow(r, n), ~Pj!Ends(r) PROVE TreeInv'
  <2> DEFINE left == nodeRun[r].todo \ {n}
             mine == IF n \in Pj!Rows THEN Pj!Mine(r, n) ELSE nodeRun[r].mine
  <2>1. nodeRun[r].pc \in {"aside", "place"} /\ nodeRun[r] \in NodeRequest
    BY <1>2, <1>6 DEF Pj!ReorderWritesRow, Pj!Writing
  <2>2. \/ nodeRun' = [nodeRun EXCEPT ![r].todo = left, ![r].mine = mine]
        \/ nodeRun' = [nodeRun EXCEPT ![r].pc = "place", ![r].mine = mine,
                                      ![r].todo = Pj!Elements(nodeRun[r].order)]
        \/ nodeRun' = Pj!Disturb([nodeRun EXCEPT ![r] = Pj!Idle], r,
                                 {parent[m] : m \in DOMAIN mine} \ {nodeRun[r].to})
    BY <1>6 DEF Pj!ReorderWritesRow
  <2> HIDE DEF left, mine
  <2>3. CASE nodeRun' = [nodeRun EXCEPT ![r].todo = left, ![r].mine = mine]
    <3>1. PICK q : q = [nodeRun[r] EXCEPT !.todo = left, !.mine = mine]
      OBVIOUS
    <3>2. q.pc \in {"aside", "place"}
      BY <2>1, <3>1 DEF NodeRequest
    <3>3. nodeRun' = [nodeRun EXCEPT ![r] = q]
      BY <2>3, <3>1
    <3> QED
      BY <1>1, <3>2, <3>3, TreeWrites
  <2>4. CASE nodeRun' = [nodeRun EXCEPT ![r].pc = "place", ![r].mine = mine,
                                        ![r].todo = Pj!Elements(nodeRun[r].order)]
    <3>1. PICK q : q = [nodeRun[r] EXCEPT !.pc = "place", !.mine = mine,
                                          !.todo = Pj!Elements(nodeRun[r].order)]
      OBVIOUS
    <3>2. q.pc = "place"
      BY <2>1, <3>1 DEF NodeRequest
    <3>3. nodeRun' = [nodeRun EXCEPT ![r] = q]
      BY <2>4, <3>1
    <3> QED
      BY <1>1, <3>2, <3>3, TreeWrites
  <2> QED
    BY <1>4, <2>2, <2>3, <2>4
<1> QED
  BY <1>3, <1>5, <1>6 DEF Pj!ReorderRolledBack

\* The rows, and where a project may go, once the rows have changed.
RowsAfter == {m \in PageIds : parent'[m] # None}
ClearAfter(n, g) ==
  \E U \in SUBSET PageIds :
    /\ g \in U \cup {Root} /\ n \notin U
    /\ \A m \in U \cap RowsAfter : parent'[m] \in U \cup {Root}
HangsAfter == \A S \in SUBSET RowsAfter : S # {} => \E n \in S : parent'[n] \notin S

\* What the requests other than r still are after a step that ends r and changes the tree.
StillFits(q) ==
  /\ Creating(q) => \A m \in RowsAfter : parent'[m] # q.node
  /\ crossed' = TRUE
       \/ (q.pc # "loops" /\ (q.pc \in {"position", "update"} => ClearAfter(q.node, q.to)))

LEMMA TreeShifts ==
  ASSUME TreeInv, NEW r \in Requests, UNCHANGED nodeUsed, nodeRun'[r].pc = "idle",
         \A x \in Requests \ {r} : Alike(nodeRun'[x], nodeRun[x]) /\ StillFits(nodeRun[x]),
         \A m \in RowsAfter : parent'[m] \in nodeUsed \cup {Root},
         crossed' = TRUE \/ HangsAfter
  PROVE  TreeInv'
<1>1. Pj!Rows' = RowsAfter
  BY DEF Pj!Rows, RowsAfter
<1>2. HangsAfter => Hangs'
  BY <1>1 DEF Hangs, HangsAfter
<1>3. ASSUME NEW n, NEW g, ClearAfter(n, g) PROVE ClearOf(n, g)'
  BY <1>1, <1>3 DEF ClearOf, ClearAfter
<1>4. ASSUME NEW y, NEW z, TreeRequestFits(y), StillFits(y), Alike(z, y) PROVE TreeRequestFits(z)'
  BY <1>1, <1>3, <1>4 DEF TreeRequestFits, StillFits, Alike, Creating, Descending
<1>5. ASSUME NEW x \in Requests PROVE TreeRequestFits(nodeRun[x])'
  <2>1. CASE x = r
    BY <2>1 DEF TreeRequestFits, Creating, Descending
  <2>2. CASE x # r
    <3>1. PICK y : TreeRequestFits(y) /\ StillFits(y) /\ Alike(nodeRun'[x], y)
      BY <2>2 DEF TreeInv
    <3> QED
      BY <1>4, <3>1
  <2> QED
    BY <2>1, <2>2
<1>6. ASSUME NEW x \in Requests, NEW y \in Requests \ {x},
             Descending(nodeRun'[x]), Creating(nodeRun'[y])
      PROVE  nodeRun'[x].to # nodeRun'[y].node
  BY <1>6 DEF TreeInv, Alike, Descending, Creating
<1> QED
  BY <1>1, <1>2, <1>5, <1>6 DEF TreeInv, Descending, Creating

\* A new project is below one that is there, and nobody is below it.
LEMMA TreeInserts ==
  ASSUME PjInv, TreeInv, NEW r \in Requests, Pj!CreateInserts(r)
  PROVE  TreeInv'
<1>1. PICK n, g : n = nodeRun[r].node /\ g = nodeRun[r].to
  OBVIOUS
<1>2. /\ n \in nodeUsed \ Pj!Rows /\ \A m \in Pj!Rows : parent[m] # n
      /\ Creating(nodeRun[r]) /\ UNCHANGED <<crossed, nodeUsed>>
  <2>1. Creating(nodeRun[r]) /\ UNCHANGED <<crossed, nodeUsed>>
    BY DEF Pj!CreateInserts, Pj!At, Creating
  <2> QED
    BY <1>1, <2>1, TreeTyped DEF TreeInv, TreeRequestFits
<1>3. CASE ~Pj!ParentIsThere(g) \/ (Pj!Ends(r) /\ UNCHANGED parent)
  <2>1. Pj!Ends(r) /\ UNCHANGED parent
    BY <1>1, <1>3 DEF Pj!CreateInserts
  <2> QED
    BY <1>2, <2>1, TreeEnds
<1>4. CASE Pj!ParentIsThere(g) /\ ~(Pj!Ends(r) /\ UNCHANGED parent)
  <2>1. /\ g \in Pj!Rows \cup {Root} /\ parent' = [parent EXCEPT ![n] = g]
        /\ nodeRun' = Pj!Disturb([nodeRun EXCEPT ![r] = Pj!Idle], r, {g})
    BY <1>1, <1>4 DEF Pj!CreateInserts, Pj!ParentIsThere
  <2>2. LeavesDisturbed(r, {g})
    BY <2>1, NodesDisturbed
  <2>3. /\ parent'[n] = g /\ g # n /\ g # None /\ g \in nodeUsed \cup {Root}
        /\ \A m \in PageIds \ {n} : parent'[m] = parent[m]
        /\ RowsAfter = Pj!Rows \cup {n} /\ n \in PageIds /\ Pj!Rows \subseteq PageIds
    BY <1>2, <2>1, TreeTyped DEF RowsAfter, Pj!Rows
  <2>4. Hangs => HangsAfter
    <3> SUFFICES ASSUME Hangs, NEW S \in SUBSET RowsAfter, S # {}
                 PROVE  \E m \in S : parent'[m] \notin S
      BY DEF HangsAfter
    <3>1. CASE S = {n}
      BY <2>3, <3>1
    <3>2. CASE S # {n}
      <4>1. S \ {n} \in SUBSET Pj!Rows /\ S \ {n} # {}
        BY <2>3, <3>2
      <4>2. PICK m \in S \ {n} : parent[m] \notin S \ {n}
        BY <4>1 DEF Hangs
      <4>3. parent'[m] = parent[m] /\ parent[m] # n
        BY <1>2, <2>3, <4>1, <4>2
      <4> QED
        BY <4>2, <4>3
    <3> QED
      BY <3>1, <3>2
  <2>5. ASSUME NEW x \in Requests \ {r} PROVE StillFits(nodeRun[x])
    <3>1. TreeRequestFits(nodeRun[x])
      BY DEF TreeInv
    <3>2. Creating(nodeRun[x]) => \A m \in RowsAfter : parent'[m] # nodeRun[x].node
      <4>1. ASSUME Creating(nodeRun[x]) PROVE g # nodeRun[x].node
        BY <2>1, <4>1, TreeTyped
      <4> QED
        BY <2>3, <3>1, <4>1 DEF TreeRequestFits
    <3>3. ASSUME nodeRun[x].pc \in {"position", "update"}, ClearOf(nodeRun[x].node, nodeRun[x].to)
          PROVE  ClearAfter(nodeRun[x].node, nodeRun[x].to)
      <4>1. PICK U \in SUBSET PageIds :
              /\ nodeRun[x].to \in U \cup {Root} /\ nodeRun[x].node \notin U
              /\ \A m \in U \cap Pj!Rows : parent[m] \in U \cup {Root}
        BY <3>3 DEF ClearOf
      <4>2. nodeRun[x].to # n
        BY <1>1, <1>2, <3>3 DEF TreeInv, Descending
      <4>3. U \ {n} \in SUBSET PageIds /\ nodeRun[x].to \in (U \ {n}) \cup {Root}
            /\ nodeRun[x].node \notin U \ {n}
        BY <4>1, <4>2
      <4>4. \A m \in (U \ {n}) \cap RowsAfter : parent'[m] \in (U \ {n}) \cup {Root}
        BY <1>2, <2>3, <4>1
      <4> QED
        BY <4>3, <4>4, Zenon DEF ClearAfter
    <3> QED
      BY <1>2, <3>1, <3>2, <3>3 DEF StillFits, TreeRequestFits
  <2>6. nodeRun'[r].pc = "idle" /\ \A x \in Requests \ {r} : Alike(nodeRun'[x], nodeRun[x])
    BY <2>2, PjIdle DEF LeavesDisturbed, Alike
  <2>7. \A m \in RowsAfter : parent'[m] \in nodeUsed \cup {Root}
    BY <2>3 DEF TreeInv
  <2>8. crossed' = TRUE \/ HangsAfter
    BY <1>2, <2>4 DEF TreeInv
  <2> QED
    BY <1>2, <2>5, <2>6, <2>7, <2>8, TreeShifts
<1> QED
  BY <1>3, <1>4

\* A move puts a project where the check has found that it may go, unless another
\* has moved meanwhile.
LEMMA TreeUpdates ==
  ASSUME PjInv, TreeInv, NEW r \in Requests, Pj!MoveUpdates(r)
  PROVE  TreeInv'
<1>1. PICK n, g : n = nodeRun[r].node /\ g = nodeRun[r].to
  OBVIOUS
<1>2. nodeRun[r].pc = "update" /\ Descending(nodeRun[r]) /\ UNCHANGED nodeUsed
  BY DEF Pj!MoveUpdates, Pj!At, Descending
<1>3. CASE \/ ~(n \in Pj!Rows /\ Pj!ParentIsThere(g))
           \/ Pj!Ends(r) /\ UNCHANGED <<parent, crossed>>
  <2>1. Pj!Ends(r) /\ UNCHANGED <<parent, crossed>>
    BY <1>1, <1>3 DEF Pj!MoveUpdates
  <2> QED
    BY <1>2, <2>1, TreeEnds
<1>4. CASE /\ n \in Pj!Rows /\ Pj!ParentIsThere(g)
           /\ ~(Pj!Ends(r) /\ UNCHANGED <<parent, crossed>>)
  <2>1. /\ n \in Pj!Rows /\ g \in Pj!Rows \cup {Root} /\ parent' = [parent EXCEPT ![n] = g]
        /\ nodeRun' = Pj!Disturb([nodeRun EXCEPT ![r] = Pj!Idle], r, {g})
    BY <1>1, <1>4 DEF Pj!MoveUpdates, Pj!ParentIsThere
  <2>2. crossed' = (crossed \/ \E q \in Requests \ {r} :
                       nodeRun[q].node # None /\ nodeRun[q].pc \in {"position", "update"})
    BY <1>1, <1>4 DEF Pj!MoveUpdates
  <2>3. LeavesDisturbed(r, {g})
    BY <2>1, NodesDisturbed
  <2>4. /\ parent'[n] = g /\ g # None /\ g \in nodeUsed \cup {Root}
        /\ \A m \in PageIds \ {n} : parent'[m] = parent[m]
        /\ RowsAfter = Pj!Rows /\ Pj!Rows \subseteq PageIds
    BY <2>1, TreeTyped DEF RowsAfter, Pj!Rows
  <2>5. ASSUME Hangs, ClearOf(n, g) PROVE HangsAfter
    <3>1. PICK U \in SUBSET PageIds :
            /\ g \in U \cup {Root} /\ n \notin U
            /\ \A m \in U \cap Pj!Rows : parent[m] \in U \cup {Root}
      BY <2>5 DEF ClearOf
    <3> SUFFICES ASSUME NEW S \in SUBSET RowsAfter, S # {}
                 PROVE  \E m \in S : parent'[m] \notin S
      BY DEF HangsAfter
    <3>2. S \subseteq Pj!Rows /\ Root \notin S /\ S \cap U \in SUBSET Pj!Rows
      BY <2>4, TreeTyped
    <3>3. CASE S \cap U # {}
      <4>1. PICK m \in S \cap U : parent[m] \notin S \cap U
        BY <2>5, <3>2, <3>3 DEF Hangs
      <4>2. parent'[m] = parent[m] /\ parent[m] \in U \cup {Root}
        BY <2>4, <3>1, <3>2, <4>1
      <4> QED
        BY <3>2, <4>1, <4>2
    <3>4. CASE S \cap U = {} /\ n \in S
      <4>1. g \notin S
        BY <3>1, <3>2, <3>4
      <4> QED
        BY <2>4, <3>4, <4>1
    <3>5. CASE n \notin S
      <4>1. PICK m \in S : parent[m] \notin S
        BY <2>5, <3>2 DEF Hangs
      <4>2. parent'[m] = parent[m]
        BY <2>4, <3>2, <3>5, <4>1
      <4> QED
        BY <4>1, <4>2
    <3> QED
      BY <3>3, <3>4, <3>5
  <2>6. crossed' = TRUE \/ (crossed = FALSE /\ Hangs /\ ClearOf(n, g))
    <3>1. TreeRequestFits(nodeRun[r]) /\ crossed \in BOOLEAN
      BY TreeTyped DEF TreeInv
    <3>2. CASE crossed = TRUE
      BY <2>2, <3>2
    <3>3. CASE crossed = FALSE
      <4>1. crossed # TRUE
        BY <3>3
      <4> QED
        BY <1>1, <1>2, <3>1, <3>3, <4>1 DEF TreeInv, TreeRequestFits
    <3> QED
      BY <3>1, <3>2, <3>3
  <2>7. ASSUME NEW x \in Requests \ {r} PROVE StillFits(nodeRun[x])
    <3>1. TreeRequestFits(nodeRun[x])
      BY DEF TreeInv
    <3>2. Creating(nodeRun[x]) => \A m \in RowsAfter : parent'[m] # nodeRun[x].node
      <4>1. ASSUME Creating(nodeRun[x]) PROVE g # nodeRun[x].node
        BY <1>1, <1>2, <4>1 DEF TreeInv
      <4> QED
        BY <2>4, <3>1, <4>1 DEF TreeRequestFits
    <3>3. CASE nodeRun[x].pc \in {"position", "update"}
      <4>1. nodeRun[x].node # None
        BY <3>1, <3>3, TreeTyped DEF TreeRequestFits
      <4>2. crossed' = TRUE
        BY <2>2, <3>3, <4>1
      <4> QED
        BY <3>2, <4>2 DEF StillFits
    <3>4. CASE nodeRun[x].pc \notin {"position", "update"}
      <4>1. crossed' = TRUE \/ nodeRun[x].pc # "loops"
        BY <2>6, <3>1 DEF TreeRequestFits
      <4> QED
        BY <3>2, <3>4, <4>1 DEF StillFits
    <3> QED
      BY <3>3, <3>4
  <2>8. nodeRun'[r].pc = "idle" /\ \A x \in Requests \ {r} : Alike(nodeRun'[x], nodeRun[x])
    BY <2>3, PjIdle DEF LeavesDisturbed, Alike
  <2>9. \A m \in RowsAfter : parent'[m] \in nodeUsed \cup {Root}
    BY <2>4 DEF TreeInv
  <2>10. crossed' = TRUE \/ HangsAfter
    BY <2>5, <2>6
  <2> QED
    BY <1>2, <2>7, <2>8, <2>9, <2>10, TreeShifts
<1> QED
  BY <1>3, <1>4

\* Rows that go take nothing from under the root.
LEMMA TreeDeletes ==
  ASSUME PjInv, TreeInv, NEW r \in Requests, Pj!Deletes(r)
  PROVE  TreeInv'
<1>1. PICK gone : /\ parent' = [m \in PageIds |-> IF m \in gone THEN None ELSE parent[m]]
                  /\ Pj!Ends(r) /\ UNCHANGED <<crossed, nodeUsed>>
  BY DEF Pj!Deletes
<1>2. RowsAfter \subseteq Pj!Rows /\ \A m \in RowsAfter : parent'[m] = parent[m]
  BY <1>1 DEF RowsAfter, Pj!Rows
<1>3. nodeRun'[r].pc = "idle" /\ \A x \in Requests \ {r} : Alike(nodeRun'[x], nodeRun[x])
  BY <1>1, TreeTyped, PjIdle DEF Pj!Ends, Alike
<1>4. Hangs => HangsAfter
  <2> SUFFICES ASSUME Hangs, NEW S \in SUBSET RowsAfter, S # {}
               PROVE  \E m \in S : parent'[m] \notin S
    BY DEF HangsAfter
  <2>1. PICK m \in S : parent[m] \notin S
    BY <1>2 DEF Hangs
  <2> QED
    BY <1>2, <2>1
<1>5. ASSUME NEW n, NEW g, ClearOf(n, g) PROVE ClearAfter(n, g)
  <2>1. PICK U \in SUBSET PageIds :
          /\ g \in U \cup {Root} /\ n \notin U
          /\ \A m \in U \cap Pj!Rows : parent[m] \in U \cup {Root}
    BY <1>5 DEF ClearOf
  <2>2. \A m \in U \cap RowsAfter : parent'[m] \in U \cup {Root}
    BY <1>2, <2>1
  <2> QED
    BY <2>1, <2>2 DEF ClearAfter
<1>6. ASSUME NEW q, TreeRequestFits(q) PROVE StillFits(q)
  BY <1>1, <1>2, <1>5, <1>6 DEF TreeRequestFits, StillFits
<1>7. \A x \in Requests \ {r} : StillFits(nodeRun[x])
  BY <1>6 DEF TreeInv
<1>8. \A m \in RowsAfter : parent'[m] \in nodeUsed \cup {Root}
  BY <1>2 DEF TreeInv
<1>9. crossed' = TRUE \/ HangsAfter
  BY <1>1, <1>4 DEF TreeInv
<1> QED
  BY <1>1, <1>3, <1>7, <1>8, <1>9, TreeShifts

LEMMA TreeStepKeeps == ASSUME PjInv, TreeInv, [Pj!Next]_pjVars PROVE TreeInv'
<1>1. CASE UNCHANGED pjVars
  <2>1. UNCHANGED <<parent, nodeRun, nodeUsed, crossed>>
    BY <1>1 DEF pjVars
  <2>2. Pj!Rows' = Pj!Rows /\ (Hangs => Hangs')
    BY <2>1 DEF Pj!Rows, Hangs
  <2>3. ASSUME NEW n, NEW g, ClearOf(n, g) PROVE ClearOf(n, g)'
    BY <2>1, <2>2, <2>3 DEF ClearOf
  <2>4. ASSUME NEW q, TreeRequestFits(q) PROVE TreeRequestFits(q)'
    BY <2>1, <2>2, <2>3, <2>4 DEF TreeRequestFits
  <2>5. \A r \in Requests : TreeRequestFits(nodeRun[r])'
    BY <2>1, <2>4 DEF TreeInv
  <2> QED
    BY <2>1, <2>2, <2>5 DEF TreeInv
<1>2. ASSUME NEW r \in Requests, NEW n \in PageIds, NEW g \in Pj!Group,
             Pj!CreateAsked(r, n, g) \/ Pj!MoveAsked(r, n, g)
      PROVE  TreeInv'
  BY <1>2, TreeCreateAsked, TreeMoveAsked
<1>3. ASSUME NEW r \in Requests, NEW g \in Pj!Group, NEW order, Pj!ReorderAsked(r, g, order)
      PROVE  TreeInv'
  <2>1. nodeRun'[r].pc = "lock" /\ \A x \in Requests \ {r} : Alike(nodeRun'[x], nodeRun[x])
    BY <1>3, TreeTyped DEF Pj!ReorderAsked, Pj!Starts, Pj!Idle, Alike
  <2>2. UNCHANGED <<parent, crossed, nodeUsed>>
    BY <1>3 DEF Pj!ReorderAsked
  <2> QED
    BY <2>1, <2>2, TreeRests
<1>4. ASSUME NEW r \in Requests, NEW n \in PageIds, Pj!DeleteAsked(r, n) PROVE TreeInv'
  <2>1. nodeRun'[r].pc = "delete" /\ \A x \in Requests \ {r} : Alike(nodeRun'[x], nodeRun[x])
    BY <1>4, TreeTyped DEF Pj!DeleteAsked, Pj!Starts, Pj!Idle, Alike
  <2>2. UNCHANGED <<parent, crossed, nodeUsed>>
    BY <1>4 DEF Pj!DeleteAsked
  <2> QED
    BY <2>1, <2>2, TreeRests
<1>5. ASSUME NEW r \in Requests,
             \/ \E n \in PageIds : Pj!ReorderWritesRow(r, n)
             \/ Pj!CreateReads(r) \/ Pj!CreateInserts(r) \/ Pj!MoveReadsParent(r)
             \/ Pj!MoveChecks(r) \/ Pj!MoveReadsPosition(r) \/ Pj!MoveUpdates(r)
             \/ Pj!ReorderReads(r) \/ Pj!ReorderRolledBack(r) \/ Pj!Deletes(r)
      PROVE  TreeInv'
  BY <1>5, TreeGoesOn, TreeInserts, TreeUpdates, TreeReorders, TreeDeletes
<1> QED
  BY <1>1, <1>2, <1>3, <1>4, <1>5 DEF Pj!Next

LEMMA TreeInitHolds == Pj!Init => TreeInv
<1> SUFFICES ASSUME Pj!Init PROVE TreeInv
  OBVIOUS
<1>1. /\ parent = [n \in PageIds |-> IF n \in nodeUsed THEN Root ELSE None]
      /\ nodeRun = [r \in Requests |-> Pj!Idle] /\ crossed = FALSE
  BY DEF Pj!Init
<1>2. Root \notin PageIds /\ \A m \in Pj!Rows : m \in PageIds /\ parent[m] = Root
  BY <1>1, PjConstants DEF Pj!Rows
<1>3. Hangs
  BY <1>2 DEF Hangs
<1>4. \A r \in Requests : nodeRun[r].pc = "idle"
  BY <1>1, PjIdle
<1> QED
  BY <1>2, <1>3, <1>4 DEF TreeInv, TreeRequestFits, Creating, Descending

\* A tree that hangs from the root is shown whole.
LEMMA TreeIsShown == ASSUME PjInv, TreeInv PROVE Pj!TreeShowsAllButForCrossedMoves
<1>1. parent \in [PageIds -> PageIds \cup {Root, None}] /\ crossed \in BOOLEAN
  BY TreeTyped
<1>2. ASSUME Hangs PROVE Pj!BuildTree = Pj!Rows
  <2> DEFINE S == Pj!Rows \ Pj!BuildTree
  <2>1. ASSUME S # {} PROVE FALSE
    <3>1. S \in SUBSET Pj!Rows
      OBVIOUS
    <3>2. PICK m \in S : parent[m] \notin S
      BY <1>2, <2>1, <3>1 DEF Hangs
    <3> QED
      BY <1>1, <3>2, BuildTreeIs
  <2> QED
    BY <1>1, <2>1, BuildTreeIs
<1>3. CASE crossed = TRUE
  BY <1>3 DEF Pj!TreeShowsAllButForCrossedMoves
<1>4. CASE crossed = FALSE
  <2>1. crossed # TRUE
    BY <1>4
  <2>2. Hangs /\ \A r \in Requests : nodeRun[r].pc # "loops"
    BY <2>1 DEF TreeInv, TreeRequestFits
  <2> QED
    BY <1>2, <2>2 DEF Pj!TreeShowsAllButForCrossedMoves, Pj!At
<1> QED
  BY <1>1, <1>3, <1>4

LEMMA TreeStaysWhole == Structure => []TreeInv
<1>1. StructureInit => TreeInv
  BY TreeInitHolds DEF StructureInit
<1>2. PjInv /\ TreeInv /\ [PagesMove \/ ProjectsMove \/ TrashMoves]_<<part, vars, pjVars, tsVars>>
        => TreeInv'
  BY TreeStepKeeps, StructureMovesProjects
<1> QED
  BY <1>1, <1>2, ProjectsStayInOrder, PTL DEF Structure

\* No member ever loses sight of a project, and no request walks up for ever,
\* unless two moves have crossed: one was carried out between the check of another
\* and its update. A create, a delete or a reorder between the two does no harm.
THEOREM TreeAlwaysShowsAll == Structure => []TreeShowsAllButForCrossedMoves
<1>1. PjInv /\ TreeInv => TreeShowsAllButForCrossedMoves
  BY TreeIsShown DEF TreeShowsAllButForCrossedMoves
<1> QED
  BY <1>1, ProjectsStayInOrder, TreeStaysWhole, PTL
=============================================================================
