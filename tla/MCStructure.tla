----------------------------- MODULE MCStructure -----------------------------
(* The tree of projects, the order of the pages in them, and the life of a   *)
(* page with its files, in one run: part is chosen at the start and only     *)
(* that component moves.                                                     *)
EXTENDS Pages, TLC

CONSTANTS
  Root, MaxProjectRequests,
  FilePages, Files, PageOf, MaxTrashRequests, MaxUploads, MaxFailures

VARIABLES
  part,
  parent, nodePos, nodeRun, nodeStarted, nodeUsed, crossed,
  life, row, object, good, url, trashRun, trashStarted, uploads, failures,
  again, begun, late, cascaded

\* A value of PageOf that a .cfg cannot write down.
OnePage == [f \in Files |-> CHOOSE p \in FilePages : TRUE]

\* One set of ids does for projects and for pages.
Pj == INSTANCE Projects WITH
        Nodes <- PageIds, MaxStarted <- MaxProjectRequests, pos <- nodePos,
        run <- nodeRun, started <- nodeStarted, used <- nodeUsed

\* S3 fails now and then, and refuses no file for ever.
Ts == INSTANCE Trash WITH
        PageIds <- FilePages, Broken <- {}, MaxStarted <- MaxTrashRequests, run <- trashRun, started <- trashStarted

ASSUME StructureAssumption == Pj!ProjectsAssumption /\ Ts!TrashAssumption

pjVars == <<parent, nodePos, nodeRun, nodeStarted, nodeUsed, crossed>>
tsVars == <<life, row, object, good, url, trashRun, trashStarted, uploads, failures,
            again, begun, late, cascaded>>

\* Where a component does not move, its first state does not matter.
StructureInit ==
  /\ part \in {"projects", "pages", "trash"}
  /\ Init /\ Pj!Init /\ Ts!Init
  /\ part # "pages" => used = {}
  /\ part # "projects" => nodeUsed = {}
  /\ part # "trash" => url = {}

PagesMove == part = "pages" /\ Next /\ UNCHANGED <<part, pjVars, tsVars>>
ProjectsMove == part = "projects" /\ Pj!Next /\ UNCHANGED <<part, vars, tsVars>>
TrashMoves == part = "trash" /\ Ts!Next /\ UNCHANGED <<part, vars, pjVars>>

Structure ==
  StructureInit
  /\ [][PagesMove \/ ProjectsMove \/ TrashMoves]_<<part, vars, pjVars, tsVars>>

\* Requests are interchangeable, and so are ids.
Symmetry ==
  Permutations(Requests) \cup Permutations(PageIds) \cup Permutations(Projects)

\* The properties of the components, looked at where they move.
TreeShowsAllButForCrossedMoves ==
  part = "projects" => Pj!TreeShowsAllButForCrossedMoves

\* The unique index on a position is met by nothing but the pages and projects
\* that come or go between a read and its write, a page that is restored between
\* the two reads of a reorder among them: otherwise a reorder finds every place
\* free, row by row and with the trash out of its way, and a create its own.
PlacesDoNotCollide ==
  /\ part = "projects" => Pj!ReorderMeetsNoDuplicate /\ Pj!CreateFindsItsPlace
  /\ part = "pages" => TrashGivesWay /\ NewPageComesLast

\* No object in the store outlives its page, and none that was confirmed expires.
FilesFollowTheirPage ==
  part = "trash" => Ts!NoFileOutlivesItsPage /\ Ts!ConfirmedFileStays
=============================================================================
