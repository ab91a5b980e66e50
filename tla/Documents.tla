------------------------------ MODULE Documents ------------------------------
(***************************************************************************)
(* The generated documents (scripts/generate_llms_txt.py) and the skill    *)
(* that is installed from them (cli/skill.py).                             *)
(*                                                                         *)
(* Six files are computed from the code, the pages and the committed spec, *)
(* then compared (--check) or written one after the other.  One of them,   *)
(* the SKS page, is also a source: people write its text, the generator    *)
(* its addon block.  Contents are the versions of what they are made from. *)
(***************************************************************************)
EXTENDS Integers, Sequences, SequencesExt

CONSTANT MaxEdits      \* a bound: edits and interruptions in a behaviour

ASSUME EditsAssumption == MaxEdits \in Nat

VARIABLES
    code,       \* the version of the package, the generator and the other pages
    spec,       \* the version of the committed OpenAPI snapshot
    disk,       \* the files; Missing where there is none
    job,        \* the job that runs, or the last one
    step,       \* how far it is; "over" when none runs
    planned,    \* artifacts(): the contents the job has computed
    todo,       \* the files it has not come to yet
    stale,      \* those it has found to differ
    exit,       \* the exit code of the last job, or NoExit
    steady,     \* TRUE if nothing was edited since the last job began
    edits       \* the edits so far

docVars == <<code, spec, disk, job, step, planned, todo, stale, exit, steady, edits>>

Missing == [code |-> -1, text |-> -1, block |-> -1]
NoBlock == -2          \* a page without the markers
NoExit == -1

\* Slip: the page is left out.
ArtifactsSlip == <<"llms", "skill", "reference", "repo_skill", "repo_reference">>

\* artifacts(), in its order; the page is among them.
Artifacts == <<"llms", "sks", "skill", "reference", "repo_skill", "repo_reference">>
Installed == <<"installed_skill", "installed_reference">>
Skills == {"skill", "repo_skill"}
Bundles == {"llms", "reference", "repo_reference"}
Files == {"sks"} \cup Skills \cup Bundles \cup ToSet(Installed)

\* Slip: the page is taken as it is.
LoadedPageSlip(page) == page

\* The page with its block rendered from the snapshot; untouched without markers.
LoadedPage(page) ==
    IF page.block = NoBlock THEN page ELSE [page EXCEPT !.block = spec]

\* A file made from the code and, but for SKILL.md, from the page.
Bundle(page) == [code |-> code, text |-> page.text, block |-> page.block]
SkillMd == [code |-> code, text |-> 0, block |-> 0]

-----------------------------------------------------------------------------
DocumentsInit ==
    /\ code = 0 /\ spec = 0
    /\ disk = [f \in Files |-> IF f \in ToSet(Installed) THEN Missing
                              ELSE [code |-> 0, text |-> 0, block |-> 0]]
    /\ job = "none" /\ step = "over"
    /\ planned = [f \in Files |-> Missing]
    /\ todo = <<>> /\ stale = {}
    /\ exit = NoExit
    /\ steady = TRUE
    /\ edits = 0

Disturb ==
    /\ edits < MaxEdits
    /\ edits' = edits + 1
    /\ UNCHANGED <<job, planned, todo, stale>>

\* People change the code, take in a new snapshot, write on the page, take its
\* markers out, and lose a generated file (external).
Edit ==
    /\ Disturb
    /\ steady' = FALSE
    /\ \/ code' = code + 1 /\ UNCHANGED <<spec, disk>>
       \/ spec' = spec + 1 /\ UNCHANGED <<code, disk>>
       \/ disk' = [disk EXCEPT !["sks"].text = @ + 1] /\ UNCHANGED <<code, spec>>
       \/ disk' = [disk EXCEPT !["sks"].block = NoBlock] /\ UNCHANGED <<code, spec>>
       \/ /\ \E f \in Skills \cup Bundles : disk' = [disk EXCEPT ![f] = Missing]
          /\ UNCHANGED <<code, spec>>
    /\ UNCHANGED <<step, exit>>

\* A job is killed, or a file cannot be read or written, between two steps.
Killed ==
    /\ Disturb
    /\ step # "over"
    /\ step' = "over"
    /\ UNCHANGED <<code, spec, disk, exit, steady>>

Start(j) ==
    /\ step = "over"
    /\ job' = j /\ steady' = TRUE /\ stale' = {}
    /\ UNCHANGED <<code, spec, disk, edits>>

Over(e) ==
    /\ step' = "over" /\ exit' = e
    /\ UNCHANGED <<code, spec, disk, job, planned, todo, stale, steady, edits>>

-----------------------------------------------------------------------------
(* The generator.                                                          *)

\* The code is imported, and the pages are read for the bundle.
ReadBundle(j) ==
    /\ Start(j)
    /\ step' = "page" /\ exit' = NoExit
    /\ todo' = Artifacts
    /\ planned' = [f \in Files |->
                      IF f \in Skills THEN SkillMd
                      ELSE Bundle(LoadedPage(disk["sks"]))]

\* The page is read once more, for itself.
ReadPage ==
    /\ step = "page"
    /\ step' = "files"
    /\ planned' = [planned EXCEPT !["sks"] = LoadedPage(disk["sks"])]
    /\ UNCHANGED <<code, spec, disk, job, todo, stale, exit, steady, edits>>

Compare ==
    /\ job = "check" /\ step = "files" /\ todo # <<>>
    /\ stale' = IF disk[Head(todo)] = planned[Head(todo)] THEN stale
                ELSE stale \cup {Head(todo)}
    /\ todo' = Tail(todo)
    /\ UNCHANGED <<code, spec, disk, job, step, planned, exit, steady, edits>>

Write ==
    /\ job # "check" /\ step = "files" /\ todo # <<>>
    /\ disk' = [disk EXCEPT ![Head(todo)] = planned[Head(todo)]]
    /\ todo' = Tail(todo)
    /\ UNCHANGED <<code, spec, job, step, planned, stale, exit, steady, edits>>

Done ==
    /\ step = "files" /\ todo = <<>>
    /\ Over(IF stale = {} THEN 0 ELSE 1)

-----------------------------------------------------------------------------
(* skill install.                                                          *)

Packaged == disk["skill"] # Missing /\ disk["reference"] # Missing

Install ==
    /\ Start("install")
    /\ \/ /\ Packaged
          /\ step' = "copy" /\ exit' = NoExit
          /\ todo' = Installed
          /\ UNCHANGED planned
       \/ /\ ~Packaged
          /\ step' = "over" /\ exit' = 1
          /\ UNCHANGED <<planned, todo>>

\* Each file is read when it is copied.
Source(f) == IF f = "installed_skill" THEN "skill" ELSE "reference"
Copy ==
    /\ step = "copy" /\ todo # <<>>
    /\ disk[Source(Head(todo))] # Missing
    /\ disk' = [disk EXCEPT ![Head(todo)] = disk[Source(Head(todo))]]
    /\ todo' = Tail(todo)
    /\ UNCHANGED <<code, spec, job, step, planned, stale, exit, steady, edits>>

CopyEnds ==
    /\ step = "copy"
    /\ \/ todo = <<>> /\ Over(0)
       \/ todo # <<>> /\ disk[Source(Head(todo))] = Missing /\ Over(1)

DocumentsNext ==
    \/ Edit
    \/ Killed
    \/ \E j \in {"check", "write"} : ReadBundle(j)
    \/ ReadPage
    \/ Compare
    \/ Write
    \/ Done
    \/ Install
    \/ Copy
    \/ CopyEnds

-----------------------------------------------------------------------------
(* Properties.                                                             *)

\* What the documents are when they are in order, said of the files alone.
InSync ==
    LET page == disk["sks"]
        bundle == [code |-> code, text |-> page.text, block |-> page.block]
    IN  /\ page.block \in {spec, NoBlock}
        /\ \A f \in Bundles : disk[f] = bundle
        /\ \A f \in Skills : disk[f] = [code |-> code, text |-> 0, block |-> 0]

\* CI can rely on --check: what it says of the documents, the page with its
\* block among them, is so, whatever was edited, lost or half written before.
CheckIsTruthful ==
    job = "check" /\ step = "over" /\ exit # NoExit /\ steady
    => (exit = 0 <=> InSync)

\* One run of the generator puts the documents in order, also after a run that
\* was killed half-way; and an installed skill is the packaged one, both files.
RunsSettle ==
    step = "over" /\ exit = 0 /\ steady =>
        /\ job = "write" => InSync
        /\ job = "install" => \A f \in ToSet(Installed) : disk[f] = disk[Source(f)]
=============================================================================
