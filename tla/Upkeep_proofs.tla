---------------------------- MODULE Upkeep_proofs ----------------------------
(***************************************************************************)
(* Proofs about the tools the repository is kept with, for every value of  *)
(* the constants: the documents' gate is truthful and a run settles it     *)
(* (Documents), the drift tools account for what they are given            *)
(* (SpecDrift), and a sweep that comes to its end leaves nothing it could  *)
(* have deleted (ResourceTracker).                                         *)
(***************************************************************************)
EXTENDS Upkeep, SequenceTheorems, FiniteSetTheorems, WellFoundedInduction, TLAPS

(***************************************************************************)
(* The documents.                                                          *)
(***************************************************************************)

Content == [code : Int, text : Int, block : Int]

DocumentsTypeOK ==
    /\ code \in Nat /\ spec \in Nat
    /\ disk \in [Files -> Content] /\ planned \in [Files -> Content]
    /\ step \in {"over", "page", "files", "copy"}
    /\ todo \in Seq(Files) /\ stale \subseteq Files
    /\ steady \in BOOLEAN

\* A set of files in order: InSync, of files that are on disk or planned.
InOrder(g) ==
    /\ g["sks"].block \in {spec, NoBlock}
    /\ \A f \in Bundles : g[f] = Bundle(g["sks"])
    /\ \A f \in Skills : g[f] = SkillMd

\* Where the files a job has come past are those it had planned, or found stale;
\* where the installed ones are the packaged.
Past(f) == f \notin ToSet(todo)

PageInv ==
    step = "page" /\ steady =>
        /\ todo = Artifacts /\ stale = {}
        /\ \A f \in Bundles : planned[f] = Bundle(LoadedPage(disk["sks"]))
        /\ \A f \in Skills : planned[f] = SkillMd

CheckInv ==
    step = "files" /\ steady /\ job = "check" =>
        /\ planned["sks"] = LoadedPage(disk["sks"])
        /\ stale \subseteq ToSet(Artifacts)
        /\ \A f \in stale : disk[f] # planned[f]
        /\ \A f \in ToSet(Artifacts) : Past(f) => f \in stale \/ disk[f] = planned[f]

WriteInv ==
    step = "files" /\ steady /\ job # "check" =>
        \A f \in ToSet(Artifacts) : Past(f) => disk[f] = planned[f]

CopyInv ==
    step = "copy" /\ steady =>
        \A f \in ToSet(Installed) : Past(f) => disk[f] = disk[Source(f)]

\* A job has no exit code before its end, and is of the kind that does its steps.
JobInv ==
    /\ step # "over" => exit = NoExit
    /\ step \in {"page", "files"} => job \in {"check", "write"}
    /\ step = "copy" => job = "install" /\ ToSet(todo) \subseteq ToSet(Installed)
    /\ step \in {"page", "files"} => ToSet(todo) \subseteq ToSet(Artifacts)
    /\ step = "files" /\ steady => InOrder(planned)

DocumentsInv ==
    /\ DocumentsTypeOK /\ PageInv /\ CheckInv /\ WriteInv /\ CopyInv /\ JobInv
    /\ CheckIsTruthful /\ RunsSettle

-----------------------------------------------------------------------------
(* Files and their contents. *)

\* What is left of a sequence that is worked off from its head.
LEMMA WorkedOff ==
    ASSUME NEW S, NEW s \in Seq(S), s # <<>>
    PROVE  /\ Head(s) \in S /\ Head(s) \in ToSet(s) /\ Tail(s) \in Seq(S)
           /\ ToSet(Tail(s)) \subseteq ToSet(s)
           /\ ToSet(s) \subseteq ToSet(Tail(s)) \cup {Head(s)}
<1>1. /\ Len(s) \in Nat /\ Len(s) > 0 /\ Len(Tail(s)) = Len(s) - 1 /\ Tail(s) \in Seq(S)
      /\ Head(s) = s[1] /\ DOMAIN s = 1 .. Len(s) /\ DOMAIN Tail(s) = 1 .. Len(s) - 1
      /\ \A j \in 1 .. Len(s) - 1 : Tail(s)[j] = s[j + 1]
      /\ \A j \in 1 .. Len(s) : s[j] \in S
  OBVIOUS
<1>2. ASSUME NEW x \in ToSet(s), x # Head(s) PROVE x \in ToSet(Tail(s))
  <2>1. PICK j \in 1 .. Len(s) : x = s[j]
    BY <1>1, <1>2 DEF ToSet
  <2>2. j - 1 \in 1 .. Len(s) - 1 /\ Tail(s)[j - 1] = x
    BY <1>1, <1>2, <2>1
  <2> QED
    BY <1>1, <2>2 DEF ToSet
<1>3. ASSUME NEW x \in ToSet(Tail(s)) PROVE x \in ToSet(s)
  BY <1>1, <1>3 DEF ToSet
<1> QED
  BY <1>1, <1>2, <1>3 DEF ToSet

\* The files of each kind.
LEMMA FileSets ==
    /\ ToSet(Artifacts) = {"sks"} \cup Skills \cup Bundles
    /\ ToSet(Installed) = {"installed_skill", "installed_reference"}
    /\ Files = {"sks"} \cup Skills \cup Bundles \cup ToSet(Installed)
    /\ Artifacts \in Seq(Files) /\ Installed \in Seq(Files)
    /\ \A f \in ToSet(Installed) : Source(f) \in Skills \cup Bundles
    /\ \A f \in Skills \cup Bundles \cup {"sks"} : f \notin ToSet(Installed)
    /\ \A f \in Skills \cup Bundles : f # "sks"
    /\ \A f \in Bundles : f \notin Skills
<1>1. ToSet(Artifacts) = {"llms", "sks", "skill", "reference", "repo_skill", "repo_reference"}
  BY DEF ToSet, Artifacts
<1>2. ToSet(Installed) = {"installed_skill", "installed_reference"}
  BY DEF ToSet, Installed
<1>3. Files = {"sks"} \cup Skills \cup Bundles \cup ToSet(Installed)
  BY DEF Files
<1>4. Artifacts \in Seq(Files) /\ Installed \in Seq(Files)
  BY <1>2, <1>3 DEF Artifacts, Installed, Skills, Bundles
<1> QED
  BY <1>1, <1>2, <1>3, <1>4 DEF Skills, Bundles, Source

\* Loading a page renders its block, once and for all.
LEMMA PageFacts ==
    ASSUME NEW p \in Content, spec \in Nat
    PROVE  /\ LoadedPage(p) \in Content
           /\ LoadedPage(p).block \in {spec, NoBlock}
           /\ p.block \in {spec, NoBlock} => LoadedPage(p) = p
  BY DEF LoadedPage, Content, NoBlock

\* What is made from a page is content.
LEMMA MadeFacts ==
    ASSUME NEW p \in Content, code \in Nat
    PROVE  Bundle(p) \in Content /\ SkillMd \in Content
  BY DEF Bundle, SkillMd, Content

\* The documents are in sync when the files are in order.
LEMMA InSyncInOrder == InSync <=> InOrder(disk)
  BY DEF InSync, InOrder, Bundle, SkillMd

\* Files that are alike are in order alike.
LEMMA AlikeInOrder ==
    ASSUME NEW g, NEW h, \A f \in ToSet(Artifacts) : g[f] = h[f]
    PROVE  InOrder(g) <=> InOrder(h)
  BY FileSets DEF InOrder

-----------------------------------------------------------------------------
(* The steps of the jobs. *)

\* People may edit at any time; nothing is said of the job then.
LEMMA EditKeeps ==
    ASSUME DocumentsInv, Edit
    PROVE  DocumentsInv'
<1>1. /\ steady' = FALSE /\ UNCHANGED <<job, step, planned, todo, stale, exit>>
      /\ DocumentsTypeOK /\ JobInv
  BY DEF Edit, Disturb, DocumentsInv
<1>2. code' \in Nat /\ spec' \in Nat /\ disk' \in [Files -> Content]
  <2>1. "sks" \in Files /\ Missing \in Content /\ disk["sks"] \in Content
    BY <1>1, FileSets DEF DocumentsTypeOK, Missing, Content
  <2>2. [disk["sks"] EXCEPT !.text = @ + 1] \in Content
        /\ [disk["sks"] EXCEPT !.block = NoBlock] \in Content
    BY <2>1 DEF Content, NoBlock
  <2>3. code' \in Nat /\ spec' \in Nat
    BY <1>1 DEF Edit, DocumentsTypeOK
  <2>4. \/ disk' = disk
        \/ disk' = [disk EXCEPT !["sks"] = [disk["sks"] EXCEPT !.text = @ + 1]]
        \/ disk' = [disk EXCEPT !["sks"] = [disk["sks"] EXCEPT !.block = NoBlock]]
        \/ \E f \in Files : disk' = [disk EXCEPT ![f] = Missing]
    BY FileSets DEF Edit
  <2>5. \A c \in Content, f \in Files : [disk EXCEPT ![f] = c] \in [Files -> Content]
    BY <1>1 DEF DocumentsTypeOK
  <2>6. disk' \in [Files -> Content]
    BY <1>1, <2>1, <2>2, <2>4, <2>5 DEF DocumentsTypeOK
  <2> QED
    BY <2>3, <2>6
<1>3. DocumentsTypeOK'
  BY <1>1, <1>2 DEF DocumentsTypeOK
<1> QED
  BY <1>1, <1>3 DEF DocumentsInv, PageInv, CheckInv, WriteInv, CopyInv, JobInv,
     CheckIsTruthful, RunsSettle

\* A job that is killed has no exit code.
LEMMA KilledKeeps ==
    ASSUME DocumentsInv, Killed
    PROVE  DocumentsInv'
<1>1. /\ step # "over" /\ step' = "over" /\ exit' = NoExit
      /\ UNCHANGED <<code, spec, disk, job, planned, todo, stale, steady>>
  BY DEF Killed, Disturb, DocumentsInv, JobInv
<1> QED
  BY <1>1 DEF DocumentsInv, DocumentsTypeOK, PageInv, CheckInv, WriteInv, CopyInv, JobInv,
     CheckIsTruthful, RunsSettle, NoExit

\* The generator may start, and computes its files from what is there.
LEMMA ReadBundleKeeps ==
    ASSUME DocumentsInv, NEW j \in {"check", "write"}, ReadBundle(j)
    PROVE  DocumentsInv'
<1>1. /\ step' = "page" /\ exit' = NoExit /\ job' = j /\ steady' = TRUE /\ stale' = {}
      /\ todo' = Artifacts /\ UNCHANGED <<code, spec, disk>>
      /\ planned' = [f \in Files |-> IF f \in Skills THEN SkillMd
                                     ELSE Bundle(LoadedPage(disk["sks"]))]
      /\ DocumentsTypeOK
  BY DEF ReadBundle, Start, DocumentsInv
<1> DEFINE b == Bundle(LoadedPage(disk["sks"]))
<1>2. b \in Content /\ SkillMd \in Content
  BY <1>1, FileSets, PageFacts, MadeFacts DEF DocumentsTypeOK
<1>3. b' = b /\ SkillMd' = SkillMd
  BY <1>1 DEF Bundle, LoadedPage, SkillMd
<1> HIDE DEF b
<1>4. /\ planned' \in [Files -> Content]
      /\ \A f \in Bundles : planned'[f] = b
      /\ \A f \in Skills : planned'[f] = SkillMd
  <2>1. planned' = [f \in Files |-> IF f \in Skills THEN SkillMd ELSE b]
    BY <1>1 DEF b
  <2> QED
    BY <1>2, <2>1, FileSets
<1>5. PageInv'
  BY <1>1, <1>3, <1>4 DEF PageInv, b
<1>6. DocumentsTypeOK'
  BY <1>1, <1>4, FileSets DEF DocumentsTypeOK
<1> QED
  BY <1>1, <1>5, <1>6 DEF DocumentsInv, CheckInv, WriteInv, CopyInv, JobInv, CheckIsTruthful,
     RunsSettle

\* The page may be read for itself: what is planned then is in order.
LEMMA ReadPageKeeps ==
    ASSUME DocumentsInv, ReadPage
    PROVE  DocumentsInv'
<1> DEFINE p == LoadedPage(disk["sks"])
<1>1. /\ step = "page" /\ step' = "files"
      /\ planned' = [planned EXCEPT !["sks"] = p]
      /\ UNCHANGED <<code, spec, disk, job, todo, stale, exit, steady>>
      /\ DocumentsTypeOK /\ PageInv /\ JobInv
  BY DEF ReadPage, DocumentsInv
<1>2. "sks" \in Files /\ p \in Content /\ p.block \in {spec, NoBlock}
  BY <1>1, FileSets, PageFacts DEF DocumentsTypeOK
<1>3. /\ planned' \in [Files -> Content] /\ planned'["sks"] = p
      /\ \A f \in Files \ {"sks"} : planned'[f] = planned[f]
  <2> HIDE DEF p
  <2> QED
    BY <1>1, <1>2 DEF DocumentsTypeOK
<1>4. DocumentsTypeOK'
  BY <1>1, <1>3 DEF DocumentsTypeOK
<1>5. p' = p /\ \A q : Bundle(q)' = Bundle(q) /\ SkillMd' = SkillMd
  BY <1>1 DEF LoadedPage, Bundle, SkillMd
<1> HIDE DEF p
<1>6. ASSUME steady PROVE InOrder(planned)'
  <2>1. /\ \A f \in Bundles : planned[f] = Bundle(p)
        /\ \A f \in Skills : planned[f] = SkillMd
    BY <1>1, <1>6 DEF PageInv, p
  <2>2. /\ \A f \in Bundles : planned'[f] = Bundle(p)
        /\ \A f \in Skills : planned'[f] = SkillMd
    BY <1>3, <2>1, FileSets
  <2> QED
    BY <1>1, <1>2, <1>3, <2>2 DEF InOrder, Bundle, SkillMd
<1>7. steady => stale' = {} /\ \A f \in ToSet(Artifacts) : ~Past(f)'
  BY <1>1 DEF PageInv, Past
<1>8. CheckInv' /\ WriteInv'
  BY <1>1, <1>3, <1>5, <1>7 DEF CheckInv, WriteInv, p
<1>9. JobInv'
  BY <1>1, <1>6 DEF JobInv
<1> QED
  BY <1>1, <1>4, <1>8, <1>9 DEF DocumentsInv, PageInv, CopyInv, CheckIsTruthful, RunsSettle

\* A file may be compared.
LEMMA CompareKeeps ==
    ASSUME DocumentsInv, Compare
    PROVE  DocumentsInv'
<1> DEFINE h == Head(todo)
<1>1. /\ job = "check" /\ step = "files" /\ todo # <<>>
      /\ stale' = (IF disk[h] = planned[h] THEN stale ELSE stale \cup {h})
      /\ todo' = Tail(todo)
      /\ UNCHANGED <<code, spec, disk, job, step, planned, exit, steady>>
      /\ DocumentsTypeOK /\ CheckInv /\ JobInv
  BY DEF Compare, DocumentsInv
<1>2. /\ h \in Files /\ h \in ToSet(todo) /\ todo' \in Seq(Files)
      /\ ToSet(todo') \subseteq ToSet(todo)
      /\ ToSet(todo) \subseteq ToSet(todo') \cup {h}
  BY <1>1, WorkedOff DEF DocumentsTypeOK
<1> HIDE DEF h
<1>3. DocumentsTypeOK'
  BY <1>1, <1>2 DEF DocumentsTypeOK
<1>4. JobInv'
  BY <1>1, <1>2 DEF JobInv, InOrder, Bundle, SkillMd
<1>5. ASSUME steady PROVE CheckInv'
  <2>1. LoadedPage(disk["sks"])' = LoadedPage(disk["sks"])
    BY <1>1 DEF LoadedPage
  <2>2. /\ planned["sks"] = LoadedPage(disk["sks"]) /\ h \in ToSet(Artifacts)
        /\ stale \subseteq ToSet(Artifacts)
        /\ \A f \in stale : disk[f] # planned[f]
        /\ \A f \in ToSet(Artifacts) : f \notin ToSet(todo) => f \in stale \/ disk[f] = planned[f]
    BY <1>1, <1>2, <1>5 DEF CheckInv, JobInv, Past
  <2>3. \A f \in ToSet(Artifacts) : f \notin ToSet(todo') => f \in stale' \/ disk[f] = planned[f]
    BY <1>1, <1>2, <2>2
  <2>4. stale' \subseteq ToSet(Artifacts) /\ \A f \in stale' : disk[f] # planned[f]
    BY <1>1, <2>2
  <2> QED
    BY <1>1, <2>1, <2>2, <2>3, <2>4 DEF CheckInv, Past
<1>6. CheckInv'
  BY <1>1, <1>5 DEF CheckInv
<1> QED
  BY <1>1, <1>3, <1>4, <1>6 DEF DocumentsInv, PageInv, WriteInv, CopyInv, CheckIsTruthful,
     RunsSettle

\* A file may be written.
LEMMA WriteKeeps ==
    ASSUME DocumentsInv, Write
    PROVE  DocumentsInv'
<1> DEFINE h == Head(todo)
<1>1. /\ job # "check" /\ step = "files" /\ todo # <<>>
      /\ disk' = [disk EXCEPT ![h] = planned[h]]
      /\ todo' = Tail(todo)
      /\ UNCHANGED <<code, spec, job, step, planned, stale, exit, steady>>
      /\ DocumentsTypeOK /\ WriteInv /\ JobInv
  BY DEF Write, DocumentsInv
<1>2. /\ h \in Files /\ h \in ToSet(todo) /\ todo' \in Seq(Files)
      /\ ToSet(todo') \subseteq ToSet(todo)
      /\ ToSet(todo) \subseteq ToSet(todo') \cup {h}
  BY <1>1, WorkedOff DEF DocumentsTypeOK
<1> HIDE DEF h
<1>3. /\ disk' \in [Files -> Content] /\ disk'[h] = planned[h]
      /\ \A f \in Files \ {h} : disk'[f] = disk[f]
  BY <1>1, <1>2 DEF DocumentsTypeOK
<1>4. DocumentsTypeOK'
  BY <1>1, <1>2, <1>3 DEF DocumentsTypeOK
<1>5. JobInv'
  BY <1>1, <1>2 DEF JobInv, InOrder, Bundle, SkillMd
<1>6. WriteInv'
  BY <1>1, <1>2, <1>3, FileSets DEF WriteInv, Past
<1> QED
  BY <1>1, <1>4, <1>5, <1>6 DEF DocumentsInv, PageInv, CheckInv, CopyInv, CheckIsTruthful,
     RunsSettle

\* The generator may have come past every file: a check has found those that
\* differ, a run has written what it had planned.
LEMMA DoneKeeps ==
    ASSUME DocumentsInv, Done
    PROVE  DocumentsInv'
<1>1. /\ step = "files" /\ todo = <<>> /\ step' = "over"
      /\ exit' = IF stale = {} THEN 0 ELSE 1
      /\ UNCHANGED <<code, spec, disk, job, planned, todo, stale, steady>>
      /\ DocumentsTypeOK /\ CheckInv /\ WriteInv /\ JobInv
      /\ \A f \in ToSet(Artifacts) : Past(f)
  BY DEF Done, Over, DocumentsInv, Past, ToSet
<1>2. InSync' <=> InSync
  BY <1>1 DEF InSync
<1>3. ASSUME steady, job = "check" PROVE stale = {} <=> InSync
  <2>1. /\ planned["sks"] = LoadedPage(disk["sks"]) /\ InOrder(planned)
        /\ stale \subseteq ToSet(Artifacts)
        /\ \A f \in stale : disk[f] # planned[f]
        /\ \A f \in ToSet(Artifacts) : f \in stale \/ disk[f] = planned[f]
    BY <1>1, <1>3 DEF CheckInv, JobInv
  <2>2. stale = {} => InSync
    BY <2>1, AlikeInOrder, InSyncInOrder
  <2>3. ASSUME InSync PROVE stale = {}
    <3>1. InOrder(disk)
      BY <2>3, InSyncInOrder
    <3>2. disk["sks"] = planned["sks"]
      BY <1>1, <2>1, <3>1, FileSets, PageFacts DEF InOrder, DocumentsTypeOK
    <3>3. \A f \in ToSet(Artifacts) : disk[f] = planned[f]
      BY <2>1, <3>1, <3>2, FileSets DEF InOrder
    <3> QED
      BY <2>1, <3>3
  <2> QED
    BY <2>2, <2>3
<1>4. ASSUME steady, job = "write" PROVE InSync
  BY <1>1, <1>4, AlikeInOrder, InSyncInOrder DEF WriteInv, JobInv
<1>5. CheckIsTruthful' /\ RunsSettle'
  BY <1>1, <1>2, <1>3, <1>4 DEF CheckIsTruthful, RunsSettle, NoExit, JobInv
<1> QED
  BY <1>1, <1>5 DEF DocumentsInv, DocumentsTypeOK, PageInv, CheckInv, WriteInv, CopyInv, JobInv

\* The skill may be installed, if there is one in the package.
LEMMA InstallKeeps ==
    ASSUME DocumentsInv, Install
    PROVE  DocumentsInv'
<1>1. /\ job' = "install" /\ steady' = TRUE /\ stale' = {}
      /\ UNCHANGED <<code, spec, disk, planned>> /\ DocumentsTypeOK
      /\ \/ step' = "copy" /\ exit' = NoExit /\ todo' = Installed
         \/ step' = "over" /\ exit' = 1 /\ todo' = todo
  BY DEF Install, Start, DocumentsInv
<1>2. DocumentsTypeOK'
  BY <1>1, FileSets DEF DocumentsTypeOK
<1> QED
  BY <1>1, <1>2 DEF DocumentsInv, PageInv, CheckInv, WriteInv, CopyInv, JobInv, Past,
     CheckIsTruthful, RunsSettle

\* A file of the skill may be copied; what it is copied from stays.
LEMMA CopyKeeps ==
    ASSUME DocumentsInv, Copy
    PROVE  DocumentsInv'
<1> DEFINE h == Head(todo)
<1>1. /\ step = "copy" /\ todo # <<>>
      /\ disk' = [disk EXCEPT ![h] = disk[Source(h)]]
      /\ todo' = Tail(todo)
      /\ UNCHANGED <<code, spec, job, step, planned, stale, exit, steady>>
      /\ DocumentsTypeOK /\ CopyInv /\ JobInv
  BY DEF Copy, DocumentsInv
<1>2. /\ h \in ToSet(todo) /\ todo' \in Seq(Files)
      /\ ToSet(todo') \subseteq ToSet(todo)
      /\ ToSet(todo) \subseteq ToSet(todo') \cup {h}
  BY <1>1, WorkedOff DEF DocumentsTypeOK
<1>3. h \in ToSet(Installed) /\ h \in Files /\ Source(h) \in Files
      /\ \A f \in ToSet(Installed) : Source(f) \in Files /\ Source(f) # h
  BY <1>1, <1>2, FileSets DEF JobInv
<1> HIDE DEF h
<1>4. /\ disk' \in [Files -> Content] /\ disk'[h] = disk[Source(h)]
      /\ \A f \in Files \ {h} : disk'[f] = disk[f]
  BY <1>1, <1>3 DEF DocumentsTypeOK
<1>5. DocumentsTypeOK'
  BY <1>1, <1>2, <1>4 DEF DocumentsTypeOK
<1>6. JobInv'
  BY <1>1, <1>2 DEF JobInv
<1>7. ASSUME steady, NEW f \in ToSet(Installed), f \notin ToSet(todo')
      PROVE  disk'[f] = disk'[Source(f)]
  <2>1. disk'[Source(f)] = disk[Source(f)]
    BY <1>3, <1>4
  <2>2. CASE f = h
    BY <1>4, <2>1, <2>2
  <2>3. CASE f # h
    <3>1. f \in Files /\ f \notin ToSet(todo)
      BY <1>2, <1>7, <2>3, FileSets
    <3> QED
      BY <1>1, <1>4, <1>7, <2>1, <2>3, <3>1 DEF CopyInv, Past
  <2> QED
    BY <2>2, <2>3
<1>8. CopyInv'
  BY <1>1, <1>7 DEF CopyInv, Past
<1> QED
  BY <1>1, <1>5, <1>6, <1>8 DEF DocumentsInv, PageInv, CheckInv, WriteInv, CheckIsTruthful,
     RunsSettle

\* The skill may be complete, or its rest gone.
LEMMA CopyEndsKeeps ==
    ASSUME DocumentsInv, CopyEnds
    PROVE  DocumentsInv'
<1>1. /\ step = "copy" /\ step' = "over" /\ job = "install"
      /\ UNCHANGED <<code, spec, disk, job, planned, todo, stale, steady>>
      /\ exit' = 1 \/ (exit' = 0 /\ todo = <<>>)
      /\ DocumentsTypeOK /\ CopyInv
  BY DEF CopyEnds, Over, DocumentsInv, JobInv
<1>2. todo = <<>> => \A f \in ToSet(Installed) : Past(f)
  BY DEF Past, ToSet
<1> QED
  BY <1>1, <1>2 DEF DocumentsInv, DocumentsTypeOK, PageInv, CheckInv, WriteInv, CopyInv,
     JobInv, CheckIsTruthful, RunsSettle

\* The invariant holds of the files as they are first committed.
LEMMA DocumentsStart ==
    ASSUME DocumentsInit
    PROVE  DocumentsInv
<1>1. Missing \in Content /\ [code |-> 0, text |-> 0, block |-> 0] \in Content
  BY DEF Missing, Content
<1>2. disk \in [Files -> Content] /\ planned \in [Files -> Content]
  BY <1>1 DEF DocumentsInit
<1> QED
  BY <1>2 DEF DocumentsInit, DocumentsInv, DocumentsTypeOK, PageInv, CheckInv, WriteInv,
     CopyInv, JobInv, CheckIsTruthful, RunsSettle, NoExit

\* Every step of a job, or of those who edit, keeps the invariant.
LEMMA DocumentsKeeps ==
    ASSUME DocumentsInv, [DocumentsNext]_docVars
    PROVE  DocumentsInv'
<1>1. CASE Edit
  BY <1>1, EditKeeps
<1>2. CASE Killed
  BY <1>2, KilledKeeps
<1>3. CASE \E j \in {"check", "write"} : ReadBundle(j)
  BY <1>3, ReadBundleKeeps
<1>4. CASE ReadPage
  BY <1>4, ReadPageKeeps
<1>5. CASE Compare
  BY <1>5, CompareKeeps
<1>6. CASE Write
  BY <1>6, WriteKeeps
<1>7. CASE Done
  BY <1>7, DoneKeeps
<1>8. CASE Install
  BY <1>8, InstallKeeps
<1>9. CASE Copy
  BY <1>9, CopyKeeps
<1>10. CASE CopyEnds
  BY <1>10, CopyEndsKeeps
<1>11. CASE UNCHANGED docVars
  BY <1>11 DEF docVars, DocumentsInv, DocumentsTypeOK, PageInv, CheckInv, WriteInv, CopyInv,
     JobInv, CheckIsTruthful, RunsSettle, InSync, InOrder, Past, LoadedPage, Bundle, SkillMd
<1> QED
  BY <1>1, <1>2, <1>3, <1>4, <1>5, <1>6, <1>7, <1>8, <1>9, <1>10, <1>11 DEF DocumentsNext

-----------------------------------------------------------------------------
(***************************************************************************)
(* The drift tools: schemas.                                               *)
(*                                                                         *)
(* The recursion over references comes to its end because the names that   *)
(* are not being followed grow fewer; what it finds at each name is what   *)
(* is reached from there without the names being followed, and that is     *)
(* shown by induction on how many are left.                                *)
(***************************************************************************)

\* Induction: a set of natural numbers that is not empty has a least one.
LEMMA LeastNumber ==
    ASSUME NEW T \in SUBSET Nat, T # {}
    PROVE  \E x \in T : \A y \in T : x <= y
<1> DEFINE R == {p \in Nat \X Nat : p[1] < p[2]}
<1>1. OpToRel(<, Nat) = R
  BY DEF OpToRel
<1>2. IsWellFoundedOn(R, Nat)
  BY <1>1, NatLessThanWellFounded
<1> HIDE DEF R
<1>3. PICK x \in T : \A y \in T : <<y, x>> \notin R
  BY <1>2, WFMin
<1>4. \A y \in T : ~(y < x)
  BY <1>3 DEF R
<1> QED
  BY <1>4

\* How many names are left to follow.
Left(seen) == Cardinality(Names \ seen)

\* Following a name leaves fewer.
LEMMA LeftFacts ==
    ASSUME NEW seen \in SUBSET Names
    PROVE  /\ Left(seen) \in Nat /\ Left(seen) <= Cardinality(Names)
           /\ \A m \in Names \ seen :
                 seen \cup {m} \in SUBSET Names /\ Left(seen \cup {m}) < Left(seen)
<1>1. IsFiniteSet(Names) /\ IsFiniteSet(Names \ seen) /\ Names \ seen \subseteq Names
  BY DriftAssumption, FS_Subset
<1>2. Left(seen) \in Nat /\ Left(seen) <= Cardinality(Names)
  BY <1>1, FS_Subset, FS_CardinalityType DEF Left
<1>3. ASSUME NEW m \in Names \ seen
      PROVE  seen \cup {m} \in SUBSET Names /\ Left(seen \cup {m}) < Left(seen)
  <2>1. Names \ (seen \cup {m}) = (Names \ seen) \ {m}
    OBVIOUS
  <2>2. Cardinality((Names \ seen) \ {m}) = Cardinality(Names \ seen) - 1
    BY <1>1, FS_RemoveElement
  <2> QED
    BY <1>2, <2>1, <2>2 DEF Left
<1> QED
  BY <1>2, <1>3

\* One unfolding of ResolveSchema, whose results so far are in f.
Followed(f, seen, m) == IF m \in seen THEN Nothing ELSE f[seen \cup {m}][m]
Unfolded(node, f, seen) ==
    IF node.ref # {} THEN Merge({Followed(f, seen, m) : m \in node.ref})
    ELSE Merge({Own(node)} \cup {Followed(f, seen, m) : m \in node.all}
                           \cup {Variant(Followed(f, seen, m)) : m \in node.any})
Resolving(schemas, f, seen) == [n \in Names |-> Unfolded(schemas[n], f, seen)]

\* f solves the recursion where fewer than k names are left.
Solves(schemas, f, k) ==
    \A seen \in SUBSET Names : Left(seen) < k => f[seen] = Resolving(schemas, f, seen)
Solvable(schemas, k) == \E f : Solves(schemas, f, k)

\* A schema is composed of schemas that have names.
LEMMA NodeFacts ==
    ASSUME NEW node \in Nodes
    PROVE  /\ node.ref \subseteq Names /\ node.all \subseteq Names /\ node.any \subseteq Names
           /\ node.props \subseteq Aliases /\ node.required \subseteq Aliases
           /\ node.ref # {} => node.all = {} /\ node.any = {} /\ node.props = {}
                               /\ node.required = {}
  BY DriftAssumption DEF Nodes, Node

\* An unfolding depends on what the names that are followed come to.
LEMMA UnfoldedAlike ==
    ASSUME NEW schemas \in [Names -> Nodes], NEW seen \in SUBSET Names, NEW f, NEW g,
           \A m \in Names \ seen : f[seen \cup {m}] = g[seen \cup {m}]
    PROVE  Resolving(schemas, f, seen) = Resolving(schemas, g, seen)
<1>1. \A m \in Names : Followed(f, seen, m) = Followed(g, seen, m)
  BY DEF Followed
<1>2. ASSUME NEW n \in Names
      PROVE  Unfolded(schemas[n], f, seen) = Unfolded(schemas[n], g, seen)
  <2> DEFINE node == schemas[n]
  <2>1. node.ref \subseteq Names /\ node.all \subseteq Names /\ node.any \subseteq Names
    BY NodeFacts
  <2> HIDE DEF node
  <2>2. {Followed(f, seen, m) : m \in node.ref} = {Followed(g, seen, m) : m \in node.ref}
    BY <1>1, <2>1
  <2>3. {Followed(f, seen, m) : m \in node.all} = {Followed(g, seen, m) : m \in node.all}
    BY <1>1, <2>1
  <2>4. {Variant(Followed(f, seen, m)) : m \in node.any}
         = {Variant(Followed(g, seen, m)) : m \in node.any}
    BY <1>1, <2>1
  <2>5. Unfolded(node, f, seen) = Unfolded(node, g, seen)
    BY <2>2, <2>3, <2>4, Zenon DEF Unfolded
  <2> QED
    BY <2>5 DEF node
<1> QED
  BY <1>2 DEF Resolving

\* What solves the recursion below k can be unfolded to solve it at k.
LEMMA SolvesNext ==
    ASSUME NEW schemas \in [Names -> Nodes], NEW k \in Nat, NEW f, Solves(schemas, f, k)
    PROVE  Solves(schemas, [seen \in SUBSET Names |-> Resolving(schemas, f, seen)], k + 1)
<1> DEFINE g == [seen \in SUBSET Names |-> Resolving(schemas, f, seen)]
<1> SUFFICES ASSUME NEW seen \in SUBSET Names, Left(seen) < k + 1
             PROVE  g[seen] = Resolving(schemas, g, seen)
  BY DEF Solves
<1>1. \A s \in SUBSET Names : g[s] = Resolving(schemas, f, s)
  OBVIOUS
<1> HIDE DEF g
<1>2. ASSUME NEW m \in Names \ seen
      PROVE  f[seen \cup {m}] = g[seen \cup {m}]
  <2>1. seen \cup {m} \in SUBSET Names /\ Left(seen \cup {m}) < Left(seen)
        /\ Left(seen) \in Nat
    BY LeftFacts
  <2>2. Left(seen \cup {m}) \in Nat
    BY <2>1, LeftFacts
  <2>3. Left(seen \cup {m}) < k
    BY <2>1, <2>2
  <2> QED
    BY <1>1, <2>1, <2>3 DEF Solves
<1>3. Resolving(schemas, f, seen) = Resolving(schemas, g, seen)
  BY <1>2, UnfoldedAlike
<1> QED
  BY <1>1, <1>3

\* The recursion has a solution up to any number of names left.
LEMMA SolvableAlways ==
    ASSUME NEW schemas \in [Names -> Nodes]
    PROVE  \A k \in Nat : Solvable(schemas, k)
<1> DEFINE T == {k \in Nat : ~Solvable(schemas, k)}
<1>1. ASSUME T # {} PROVE FALSE
  <2>1. PICK k \in T : \A j \in T : k <= j
    BY <1>1, LeastNumber
  <2>2. k \in Nat /\ ~Solvable(schemas, k)
    BY <2>1
  <2>3. \A j \in Nat : j < k => Solvable(schemas, j)
    BY <2>1
  <2> HIDE DEF T
  <2>4. CASE k = 0
    <3>1. Solves(schemas, <<>>, 0)
      BY LeftFacts DEF Solves
    <3> QED
      BY <2>2, <2>4, <3>1 DEF Solvable
  <2>5. CASE k # 0
    <3>1. k - 1 \in Nat /\ k - 1 < k /\ (k - 1) + 1 = k
      BY <2>2, <2>5
    <3>2. PICK f : Solves(schemas, f, k - 1)
      BY <2>3, <3>1 DEF Solvable
    <3>3. Solves(schemas, [seen \in SUBSET Names |-> Resolving(schemas, f, seen)], k)
      BY <3>1, <3>2, SolvesNext
    <3> QED
      BY <2>2, <3>3 DEF Solvable
  <2> QED
    BY <2>4, <2>5
<1> QED
  BY <1>1

\* ResolveSchema is what its recursion says.
LEMMA ResolveSchemaDef ==
    ASSUME NEW schemas \in [Names -> Nodes], NEW seen \in SUBSET Names
    PROVE  ResolveSchema(schemas)[seen] = Resolving(schemas, ResolveSchema(schemas), seen)
<1> DEFINE Fix(f) == f = [s \in SUBSET Names |-> Resolving(schemas, f, s)]
<1>1. ResolveSchema(schemas) = CHOOSE f : Fix(f)
  BY DEF ResolveSchema, Resolving, Unfolded, Followed
<1>2. \E f : Fix(f)
  <2> DEFINE N == Cardinality(Names) + 1
  <2>1. N \in Nat /\ \A s \in SUBSET Names : Left(s) \in Nat /\ Left(s) < N
    BY LeftFacts, FS_CardinalityType, DriftAssumption
  <2> HIDE DEF N
  <2>2. PICK f : Solves(schemas, f, N)
    BY <2>1, SolvableAlways DEF Solvable
  <2> DEFINE g == [s \in SUBSET Names |-> Resolving(schemas, f, s)]
  <2>3. \A s \in SUBSET Names : f[s] = g[s]
    BY <2>1, <2>2 DEF Solves
  <2>4. \A s \in SUBSET Names : Resolving(schemas, f, s) = Resolving(schemas, g, s)
    <3> SUFFICES ASSUME NEW s \in SUBSET Names
                 PROVE  Resolving(schemas, f, s) = Resolving(schemas, g, s)
      OBVIOUS
    <3> HIDE DEF g
    <3>1. \A m \in Names \ s : f[s \cup {m}] = g[s \cup {m}]
      BY <2>3
    <3> QED
      BY <3>1, UnfoldedAlike
  <2>5. g = [s \in SUBSET Names |-> Resolving(schemas, g, s)]
    BY <2>4
  <2> QED
    BY <2>5
<1>3. Fix(ResolveSchema(schemas))
  BY <1>1, <1>2
<1> QED
  BY <1>3

\* The schemas reached from n in steps that do not lead to the names in seen.
Below(steps, n, seen) ==
    {x \in Names : \A X \in SUBSET Names :
                      n \in X /\ (\A y \in X : steps[y] \ seen \subseteq X) => x \in X}

\* They are the least set that holds n and is closed under the steps.
LEMMA BelowFacts ==
    ASSUME NEW steps \in [Names -> SUBSET Names], NEW n \in Names, NEW seen
    PROVE  /\ n \in Below(steps, n, seen) /\ Below(steps, n, seen) \subseteq Names
           /\ \A x \in Below(steps, n, seen) : \A y \in steps[x] \ seen :
                 y \in Below(steps, n, seen)
           /\ \A X \in SUBSET Names :
                 n \in X /\ (\A y \in X : steps[y] \ seen \subseteq X)
                 => Below(steps, n, seen) \subseteq X
<1>1. ASSUME NEW x \in Below(steps, n, seen), NEW y \in steps[x] \ seen
      PROVE  y \in Below(steps, n, seen)
  <2>1. x \in Names /\ y \in Names
    BY <1>1 DEF Below
  <2>2. ASSUME NEW X \in SUBSET Names, n \in X, \A z \in X : steps[z] \ seen \subseteq X
        PROVE  y \in X
    BY <1>1, <2>2 DEF Below
  <2> QED
    BY <2>1, <2>2 DEF Below
<1> QED
  BY <1>1 DEF Below

\* They are n itself, and what is below each step from it that does not lead back.
LEMMA BelowSteps ==
    ASSUME NEW steps \in [Names -> SUBSET Names], NEW n \in Names,
           NEW seen \in SUBSET Names, NEW x
    PROVE  x \in Below(steps, n, seen)
           <=> x = n \/ \E m \in steps[n] \ seen : x \in Below(steps, m, seen \cup {m})
<1> DEFINE B == Below(steps, n, seen)
           D(m) == Below(steps, m, seen \cup {m})
           U == {y \in Names : y = n \/ \E m \in steps[n] \ seen : y \in D(m)}
<1>1. \A m \in steps[n] \ seen : m \in Names
  OBVIOUS
<1>2. ASSUME NEW m \in steps[n] \ seen PROVE D(m) \subseteq B
  <2>1. B \in SUBSET Names /\ m \in B
        /\ \A y \in B : steps[y] \ (seen \cup {m}) \subseteq B
    BY BelowFacts
  <2> HIDE DEF B
  <2> QED
    BY <1>1, <2>1, BelowFacts
<1>3. ASSUME NEW y \in U, NEW z \in steps[y] \ seen PROVE z \in U
  <2>1. z \in Names
    BY <1>3
  <2>2. CASE y = n
    <3>1. z \in D(z)
      BY <2>1, BelowFacts
    <3> QED
      BY <1>3, <2>1, <2>2, <3>1
  <2>3. CASE \E m \in steps[n] \ seen : y \in D(m)
    <3>1. PICK m \in steps[n] \ seen : y \in D(m)
      BY <2>3
    <3>2. z = m \/ z \in steps[y] \ (seen \cup {m})
      BY <1>3
    <3>3. m \in D(m) /\ \A v \in D(m) : \A w \in steps[v] \ (seen \cup {m}) : w \in D(m)
      BY <1>1, BelowFacts
    <3>4. z \in D(m)
      BY <3>1, <3>2, <3>3
    <3> HIDE DEF D
    <3> QED
      BY <2>1, <3>1, <3>4
  <2> QED
    BY <1>3, <2>2, <2>3
<1>4. U \in SUBSET Names /\ n \in U /\ \A y \in U : steps[y] \ seen \subseteq U
  <2> HIDE DEF D
  <2>1. U \in SUBSET Names /\ n \in U
    OBVIOUS
  <2> HIDE DEF U
  <2> QED
    BY <1>3, <2>1
<1>5. B \subseteq U
  <2> HIDE DEF U
  <2> QED
    BY <1>4, BelowFacts
<1>6. n \in B
  BY BelowFacts
<1> HIDE DEF B, D
<1> QED
  BY <1>2, <1>5, <1>6 DEF B, D

\* What is gathered from all that is reached.
Gathered(G, steps, n, seen) == UNION {G[x] : x \in Below(steps, n, seen)}

\* It is what n has itself, and what is gathered below each step from it.
LEMMA GatheredSteps ==
    ASSUME NEW steps \in [Names -> SUBSET Names], NEW n \in Names,
           NEW seen \in SUBSET Names, NEW G, NEW P,
           \A m \in Names : P[m] = IF m \in seen THEN {}
                                  ELSE Gathered(G, steps, m, seen \cup {m})
    PROVE  G[n] \cup UNION {P[m] : m \in steps[n]} = Gathered(G, steps, n, seen)
<1> SUFFICES ASSUME NEW a
             PROVE  a \in G[n] \/ (\E m \in steps[n] : a \in P[m])
                    <=> a \in Gathered(G, steps, n, seen)
  OBVIOUS
<1>1. a \in Gathered(G, steps, n, seen)
      <=> \E x : x \in Below(steps, n, seen) /\ a \in G[x]
  BY DEF Gathered
<1>2. \A m \in steps[n] : a \in P[m] <=>
         m \notin seen /\ \E x : x \in Below(steps, m, seen \cup {m}) /\ a \in G[x]
  <2> TAKE m \in steps[n]
  <2>1. m \in Names
    OBVIOUS
  <2>2. CASE m \in seen
    BY <2>1, <2>2
  <2>3. CASE m \notin seen
    <3>1. P[m] = Gathered(G, steps, m, seen \cup {m})
      BY <2>1, <2>3
    <3> QED
      BY <2>3, <3>1 DEF Gathered
  <2> QED
    BY <2>2, <2>3
<1>3. \A x : x \in Below(steps, n, seen)
             <=> x = n \/ \E m \in steps[n] \ seen : x \in Below(steps, m, seen \cup {m})
  BY BelowSteps
<1> QED
  BY <1>1, <1>2, <1>3

\* What a name comes to: the properties of all that is reached any way, and what is
\* required by all that is reached for sure.
AnySteps(schemas) == [n \in Names |-> AnyWay(schemas[n])]
SureSteps(schemas) == [n \in Names |-> Sure(schemas[n])]
Known(schemas) == [n \in Names |-> schemas[n].props]
Needed(schemas) == [n \in Names |-> Own(schemas[n]).required]
KnownBelow(schemas, n, seen) == Gathered(Known(schemas), AnySteps(schemas), n, seen)
NeededBelow(schemas, n, seen) == Gathered(Needed(schemas), SureSteps(schemas), n, seen)
Meaning(schemas, n, seen) ==
    [props |-> KnownBelow(schemas, n, seen), required |-> NeededBelow(schemas, n, seen)]

\* One unfolding: what the node has itself, what is known any way, and what is
\* required for sure.
LEMMA UnfoldedFacts ==
    ASSUME NEW node \in Nodes, NEW f, NEW seen \in SUBSET Names,
           NEW P, NEW Q,
           \A m \in Names : /\ Followed(f, seen, m) = [props |-> P[m], required |-> Q[m]]
    PROVE  Unfolded(node, f, seen)
           = [props |-> node.props \cup UNION {P[m] : m \in AnyWay(node)},
              required |-> Own(node).required \cup UNION {Q[m] : m \in Sure(node)}]
<1> DEFINE F(m) == Followed(f, seen, m)
<1>1. /\ node.ref \subseteq Names /\ node.all \subseteq Names /\ node.any \subseteq Names
      /\ node.ref # {} => node.all = {} /\ node.any = {} /\ node.props = {}
  BY NodeFacts
<1>2. /\ Own(node).props = node.props
      /\ node.props = {} => Own(node).required = {}
  BY DEF Own
<1>3. \A m \in Names : /\ F(m).props = P[m] /\ F(m).required = Q[m]
                       /\ Variant(F(m)).props = P[m] /\ Variant(F(m)).required = {}
  BY DEF Variant
<1> HIDE DEF F
<1>4. CASE node.ref # {}
  <2> DEFINE R == {F(m) : m \in node.ref}
  <2>1. Unfolded(node, f, seen) = Merge(R)
    BY <1>4 DEF Unfolded, F
  <2>2. UNION {r.props : r \in R} = UNION {P[m] : m \in node.ref}
    BY <1>1, <1>3
  <2>3. UNION {r.required : r \in R} = UNION {Q[m] : m \in node.ref}
    BY <1>1, <1>3
  <2>4. AnyWay(node) = node.ref /\ Sure(node) = node.ref
    BY <1>1, <1>4 DEF AnyWay, Sure
  <2> HIDE DEF R
  <2> QED
    BY <1>1, <1>2, <1>4, <2>1, <2>2, <2>3, <2>4 DEF Merge
<1>5. CASE node.ref = {}
  <2> DEFINE R == {Own(node)} \cup {F(m) : m \in node.all} \cup {Variant(F(m)) : m \in node.any}
  <2>1. Unfolded(node, f, seen) = Merge(R)
    BY <1>5 DEF Unfolded, F
  <2>2. UNION {r.props : r \in R}
        = node.props \cup UNION {P[m] : m \in node.all \cup node.any}
    BY <1>1, <1>2, <1>3
  <2>3. UNION {r.required : r \in R} = Own(node).required \cup UNION {Q[m] : m \in node.all}
    BY <1>1, <1>3
  <2>4. AnyWay(node) = node.all \cup node.any /\ Sure(node) = node.all
    BY <1>5 DEF AnyWay, Sure
  <2> HIDE DEF R
  <2> QED
    BY <2>1, <2>2, <2>3, <2>4 DEF Merge
<1> QED
  BY <1>4, <1>5

\* If the names below are resolved to their meaning, so is this one.
LEMMA MeaningNext ==
    ASSUME NEW schemas \in [Names -> Nodes], NEW seen \in SUBSET Names, NEW n \in Names,
           \A m \in Names \ seen :
              ResolveSchema(schemas)[seen \cup {m}][m] = Meaning(schemas, m, seen \cup {m})
    PROVE  ResolveSchema(schemas)[seen][n] = Meaning(schemas, n, seen)
<1> DEFINE P == [m \in Names |-> IF m \in seen THEN {}
                                ELSE KnownBelow(schemas, m, seen \cup {m})]
           Q == [m \in Names |-> IF m \in seen THEN {}
                                ELSE NeededBelow(schemas, m, seen \cup {m})]
           node == schemas[n]
<1>1. \A m \in Names :
         /\ m \in seen => P[m] = {} /\ Q[m] = {}
         /\ m \notin seen => /\ P[m] = KnownBelow(schemas, m, seen \cup {m})
                             /\ Q[m] = NeededBelow(schemas, m, seen \cup {m})
  OBVIOUS
<1>2. node \in Nodes /\ AnySteps(schemas)[n] = AnyWay(node) /\ SureSteps(schemas)[n] = Sure(node)
      /\ AnyWay(node) \subseteq Names /\ Sure(node) \subseteq Names
      /\ AnySteps(schemas) \in [Names -> SUBSET Names]
      /\ SureSteps(schemas) \in [Names -> SUBSET Names]
  <2>1. \A x \in Names : AnyWay(schemas[x]) \subseteq Names /\ Sure(schemas[x]) \subseteq Names
    BY NodeFacts DEF AnyWay, Sure
  <2> QED
    BY <2>1 DEF AnySteps, SureSteps
<1> HIDE DEF P, Q
<1>3. \A m \in Names : Followed(ResolveSchema(schemas), seen, m)
                       = [props |-> P[m], required |-> Q[m]]
  BY <1>1 DEF Followed, Meaning, Nothing
<1>4. ResolveSchema(schemas)[seen][n] = Unfolded(node, ResolveSchema(schemas), seen)
  BY ResolveSchemaDef DEF Resolving
<1> HIDE DEF node
<1>5. ResolveSchema(schemas)[seen][n]
      = [props |-> node.props \cup UNION {P[m] : m \in AnyWay(node)},
         required |-> Own(node).required \cup UNION {Q[m] : m \in Sure(node)}]
  BY <1>2, <1>3, <1>4, UnfoldedFacts
<1>6. node.props \cup UNION {P[m] : m \in AnyWay(node)} = KnownBelow(schemas, n, seen)
  <2> DEFINE G == Known(schemas)
             steps == AnySteps(schemas)
  <2>1. G[n] = node.props
    BY DEF Known, node
  <2>2. \A m \in Names : P[m] = IF m \in seen THEN {} ELSE Gathered(G, steps, m, seen \cup {m})
    BY <1>1 DEF KnownBelow
  <2>3. steps \in [Names -> SUBSET Names] /\ steps[n] = AnyWay(node)
    BY <1>2
  <2> HIDE DEF G, steps
  <2>4. G[n] \cup UNION {P[m] : m \in steps[n]} = Gathered(G, steps, n, seen)
    BY <2>2, <2>3, GatheredSteps
  <2> QED
    BY <2>1, <2>3, <2>4 DEF KnownBelow, G, steps
<1>7. Own(node).required \cup UNION {Q[m] : m \in Sure(node)} = NeededBelow(schemas, n, seen)
  <2> DEFINE G == Needed(schemas)
             steps == SureSteps(schemas)
  <2>1. G[n] = Own(node).required
    BY DEF Needed, node
  <2>2. \A m \in Names : Q[m] = IF m \in seen THEN {} ELSE Gathered(G, steps, m, seen \cup {m})
    BY <1>1 DEF NeededBelow
  <2>3. steps \in [Names -> SUBSET Names] /\ steps[n] = Sure(node)
    BY <1>2
  <2> HIDE DEF G, steps
  <2>4. G[n] \cup UNION {Q[m] : m \in steps[n]} = Gathered(G, steps, n, seen)
    BY <2>2, <2>3, GatheredSteps
  <2> QED
    BY <2>1, <2>3, <2>4 DEF NeededBelow, G, steps
<1> QED
  BY <1>5, <1>6, <1>7 DEF Meaning

\* Every name is resolved to its meaning while fewer than k are left.
Resolved(schemas, k) ==
    \A seen \in SUBSET Names : Left(seen) < k =>
        \A n \in Names : ResolveSchema(schemas)[seen][n] = Meaning(schemas, n, seen)

\* resolve_schema finds what is reached: however the schemas refer to each other,
\* in circles too, it ends with the properties of all that is reached any way, and
\* what is required by all that is reached through references and allOf.
LEMMA ResolvesToMeaning ==
    ASSUME NEW schemas \in [Names -> Nodes]
    PROVE  ResolveSchema(schemas)[{}][Root] = Meaning(schemas, Root, {})
<1> DEFINE T == {k \in Nat : ~Resolved(schemas, k)}
<1>1. ASSUME T # {} PROVE FALSE
  <2>1. PICK k \in T : \A j \in T : k <= j
    BY <1>1, LeastNumber
  <2>2. k \in Nat /\ ~Resolved(schemas, k)
    BY <2>1
  <2>3. \A j \in Nat : j < k => Resolved(schemas, j)
    BY <2>1
  <2> HIDE DEF T
  <2>4. PICK seen \in SUBSET Names :
           Left(seen) < k
           /\ \E n \in Names : ResolveSchema(schemas)[seen][n] # Meaning(schemas, n, seen)
    BY <2>2 DEF Resolved
  <2>5. PICK n \in Names : ResolveSchema(schemas)[seen][n] # Meaning(schemas, n, seen)
    BY <2>4
  <2>6. Left(seen) \in Nat /\ Resolved(schemas, Left(seen))
    BY <2>3, <2>4, LeftFacts
  <2>7. \A m \in Names \ seen :
           ResolveSchema(schemas)[seen \cup {m}][m] = Meaning(schemas, m, seen \cup {m})
    BY <2>6, LeftFacts DEF Resolved
  <2> QED
    BY <2>5, <2>7, MeaningNext
<1>2. {} \in SUBSET Names /\ Left({}) + 1 \in Nat /\ Left({}) < Left({}) + 1 /\ Root \in Names
  BY LeftFacts, DriftAssumption
<1>3. Resolved(schemas, Left({}) + 1)
  BY <1>1, <1>2
<1> QED
  BY <1>2, <1>3 DEF Resolved

-----------------------------------------------------------------------------
(* The verdict on the fields. *)

FieldInputs ==
    [tool : {"fields"}, schemas : [Names -> Nodes],
     fields : [Aliases -> FieldFamilies \cup {Absent}], allow : SUBSET Aliases,
     mapping : Mappings]

\* The tool's verdict accounts for the real differences.
LEMMA FieldsAreAccounted ==
    ASSUME input \in FieldInputs, report = FieldVerdict(input)
    PROVE  DriftIsAccounted
<1> DEFINE schemas == input.schemas
           reached == Reached([n \in Names |-> AnyWay(schemas[n])])
           sure == Reached([n \in Names |-> Sure(schemas[n])])
           known == UNION {schemas[n].props : n \in reached}
           needed == UNION {schemas[n].required : n \in sure}
           read == UNION {Own(schemas[n]).required : n \in sure}
           lacking == {a \in Aliases : input.fields[a] = Absent}
           real == (lacking \cap needed)
                   \cup {a \in Aliases \ lacking :
                            \/ a \notin known
                            \/ input.fields[a] \notin {"wildcard", Family[a]}
                               /\ Family[a] # "wildcard"}
           overlooked == {a \in lacking :
                             \/ a \notin known
                             \/ \A n \in sure : a \in schemas[n].required
                                                => schemas[n].props = {}}
           found == ResolveSchema(schemas)[{}][Root]
<1>1. /\ schemas \in [Names -> Nodes] /\ input.allow \subseteq Aliases
      /\ input.mapping \in Mappings
  BY DEF FieldInputs
<1>2. /\ KnownBelow(schemas, Root, {}) = known
      /\ NeededBelow(schemas, Root, {}) = read
  <2> HIDE DEF schemas
  <2>1. /\ reached = Below(AnySteps(schemas), Root, {}) /\ reached \subseteq Names
        /\ sure = Below(SureSteps(schemas), Root, {}) /\ sure \subseteq Names
    BY DEF Reached, Below, AnySteps, SureSteps
  <2> HIDE DEF reached, sure
  <2> QED
    BY <2>1 DEF KnownBelow, NeededBelow, Gathered, Known, Needed
<1>3. found = Meaning(schemas, Root, {})
  <2> HIDE DEF schemas
  <2> QED
    BY <1>1, ResolvesToMeaning
<1>4. /\ \A a \in lacking : a \in needed <=> \E n \in sure : a \in schemas[n].required
      /\ \A a \in lacking :
            a \in read <=> \E n \in sure : a \in schemas[n].required /\ schemas[n].props # {}
  <2> HIDE DEF schemas, sure, lacking
  <2> QED
    BY DEF Own
<1> HIDE DEF known, needed, read, found, sure
<1>5. found.props = known /\ found.required = read
  BY <1>2, <1>3 DEF Meaning
<1>6. Differs(input.fields, found) = real \ overlooked
  <2>1. ASSUME NEW a \in Aliases, input.fields[a] = Absent
        PROVE  a \in known /\ a \in read <=> a \in real \ overlooked
    BY <1>4, <2>1
  <2>2. ASSUME NEW a \in Aliases, input.fields[a] # Absent
        PROVE  (\/ a \notin known
                \/ /\ "wildcard" \notin {input.fields[a], Family[a]}
                   /\ input.fields[a] # Family[a])
               <=> a \in real \ overlooked
    BY <2>2
  <2>3. real \ overlooked \subseteq Aliases
    OBVIOUS
  <2> HIDE DEF real, overlooked, lacking
  <2> QED
    BY <1>5, <2>1, <2>2, <2>3 DEF Differs
<1> DEFINE told == real \ overlooked
<1> HIDE DEF real, overlooked, lacking
<1>7. ~report.failed <=>
         \/ input.mapping = "exempt" /\ input.allow = {}
         \/ input.mapping \in {"alias", "path_or_name"} /\ input.allow = told
  <2> DEFINE differing == IF input.mapping \in {"alias", "dead_alias", "path_or_name"}
                          THEN Differs(input.fields, IF input.mapping = "dead_alias"
                                                     THEN Nothing ELSE found)
                          ELSE {}
  <2>1. report.failed = (\/ input.mapping \in {"unresolved", "dead_alias"}
                         \/ input.allow \ Used(input.allow, differing) # {}
                         \/ differing \ Used(input.allow, differing) # {})
    BY DEF FieldVerdict, found
  <2>2. CASE input.mapping \in {"unresolved", "dead_alias"}
    BY <2>1, <2>2
  <2>3. CASE input.mapping = "exempt"
    <3>1. differing = {}
      BY <2>3
    <3> HIDE DEF differing
    <3> QED
      BY <2>1, <2>3, <3>1 DEF Used
  <2>4. CASE input.mapping \in {"alias", "path_or_name"}
    <3>1. differing = told
      BY <1>6, <2>4
    <3> HIDE DEF differing
    <3> QED
      BY <2>1, <2>4, <3>1 DEF Used
  <2> QED
    BY <1>1, <2>2, <2>3, <2>4 DEF Mappings
<1> QED
  BY <1>7, Zenon DEF DriftIsAccounted, told, real, overlooked, lacking, known,
     needed, sure

-----------------------------------------------------------------------------
(* The verdict on the paths. *)

PathInputs ==
    [tool : {"paths"}, call : Paths(Calls), declared : Paths(Declared), word : Words,
     place : Places]

\* A segment of a call, with what is filled in for a word.
Segment(c, with) ==
    [j \in DOMAIN c |-> IF c[j] = "id" THEN "hole" ELSE IF c[j] = "word" THEN with ELSE c[j]]

\* A path is filled segment by segment, and keeps its length.
LEMMA FilledPaths ==
    ASSUME NEW call \in Paths(Calls), NEW with
    PROVE  LET filled == Fill(Fill(call, "id", "hole"), "word", with)
           IN  /\ Len(filled) = Len(call) /\ DOMAIN call = 1 .. Len(call)
               /\ \A i \in DOMAIN call :
                     call[i] \in Calls /\ filled[i] = Segment(call[i], with)
<1> DEFINE filled == Fill(Fill(call, "id", "hole"), "word", with)
<1>1. PICK n \in Nat : call \in [1 .. n -> Calls]
  BY DriftAssumption DEF Paths
<1>2. call \in Seq(Calls) /\ Len(call) = n /\ DOMAIN call = 1 .. n
  BY <1>1
<1>3. filled = [i \in 1 .. n |-> Segment(call[i], with)]
  BY <1>2 DEF Fill, Segment
<1>4. Len([i \in 1 .. n |-> Segment(call[i], with)]) = n
  <2> DEFINE S == {Segment(call[i], with) : i \in 1 .. n}
             g == [i \in 1 .. n |-> Segment(call[i], with)]
  <2>1. g \in [1 .. n -> S]
    OBVIOUS
  <2>2. DOMAIN g = 1 .. n
    OBVIOUS
  <2> HIDE DEF g, S
  <2>3. g \in Seq(S)
    BY <2>1, SeqDef
  <2> QED
    BY <2>2, <2>3, LenProperties DEF g
<1> QED
  BY <1>1, <1>2, <1>3, <1>4

\* What is declared and matches a segment that is drawn from the code matches it in
\* the specification, whichever word that has in its place.
LEMMA SegmentsAgree ==
    ASSUME NEW c \in Calls, NEW d \in Declared, NEW word \in Words,
           SegMatches(d, Segment(c, "hole"))
    PROVE  SegMatches(d, Segment(c, word))
<1>1. CASE \A j \in DOMAIN c : c[j] # "word"
  <2>1. Segment(c, word) = Segment(c, "hole")
    BY <1>1 DEF Segment
  <2> QED
    BY <2>1
<1>2. CASE ~\A j \in DOMAIN c : c[j] # "word"
  <2>1. c = <<"a", "word">>
    BY <1>2 DEF Calls
  <2>2. Segment(c, "hole") = <<"a", "hole">> /\ Segment(c, word) = <<"a", word>>
    BY <2>1 DEF Segment
  <2>3. CASE d = <<"a", "any">>
    <3>1. Last(d) = "any" /\ Front(d) = <<"a">>
      <4>1. d \in Seq({"a", "any"}) /\ Len(d) = 2 /\ d[1] = "a" /\ d[2] = "any"
        BY <2>3
      <4>2. Front(d) \in Seq({"a", "any"}) /\ Len(Front(d)) = 1 /\ Front(d)[1] = "a"
        BY <4>1, SubSeqProperties DEF Front
      <4> QED
        BY <4>1, <4>2 DEF Last
    <3>2. IsPrefix(<<"a">>, <<"a", word>>)
      BY DEF IsPrefix
    <3> QED
      BY <2>2, <3>1, <3>2 DEF SegMatches
  <2>4. CASE d # <<"a", "any">>
    <3>1. Last(d) # "any" /\ d # <<"a", "hole">>
      BY <2>4 DEF Declared, Last
    <3>2. d = <<"hole">>
      BY <2>2, <3>1 DEF SegMatches
    <3> QED
      BY <3>2 DEF SegMatches
  <2> QED
    BY <2>3, <2>4
<1> QED
  BY <1>1, <1>2

\* A call that is covered as the code has it is covered as the specification has it.
LEMMA PathsAreAttributed ==
    ASSUME input \in PathInputs, report = PathVerdict(input)
    PROVE  CallsAreAttributed
<1>1. /\ input.call \in Paths(Calls) /\ input.declared \in Paths(Declared)
      /\ input.word \in Words
      /\ input.place = "client" =>
            /\ report.failed = ~TemplateCovers(input.declared, Template(input.call))
            /\ report.listed =
                  IF TemplateCovers(input.declared, SpecPath(input.call, input.word))
                  THEN {"module"} ELSE {}
  BY DEF PathInputs, PathVerdict, Discovered
<1>2. ASSUME NEW call \in Paths(Calls), NEW declared \in Paths(Declared), NEW word \in Words,
             TemplateCovers(declared, Template(call))
      PROVE  TemplateCovers(declared, SpecPath(call, word))
  <2>1. /\ Len(Template(call)) = Len(call) /\ Len(SpecPath(call, word)) = Len(call)
        /\ DOMAIN call = 1 .. Len(call)
        /\ \A i \in DOMAIN call :
              /\ call[i] \in Calls /\ Template(call)[i] = Segment(call[i], "hole")
              /\ SpecPath(call, word)[i] = Segment(call[i], word)
    BY FilledPaths DEF Template, SpecPath
  <2>2. DOMAIN declared = 1 .. Len(declared) /\ Len(declared) \in Nat
        /\ \A i \in DOMAIN declared : declared[i] \in Declared
    <3>1. PICK n \in Nat : declared \in [1 .. n -> Declared]
      BY DriftAssumption DEF Paths
    <3>2. declared \in Seq(Declared)
      BY <3>1, SeqDef
    <3> QED
      BY <3>1, <3>2, LenProperties
  <2>3. Len(call) \in Nat
    <3>1. PICK n \in Nat : call \in [1 .. n -> Calls]
      BY DriftAssumption DEF Paths
    <3> QED
      BY <3>1, SeqDef, LenProperties
  <2>4. Len(declared) <= Len(call)
        /\ \A i \in DOMAIN declared : SegMatches(declared[i], Template(call)[i])
    BY <1>2, <2>1 DEF TemplateCovers
  <2>5. ASSUME NEW i \in DOMAIN declared
        PROVE  SegMatches(declared[i], SpecPath(call, word)[i])
    <3>1. i \in DOMAIN call /\ declared[i] \in Declared
      BY <2>1, <2>2, <2>3, <2>4
    <3>2. SegMatches(declared[i], Segment(call[i], "hole")) /\ call[i] \in Calls
      BY <2>1, <2>4, <3>1
    <3>3. SegMatches(declared[i], Segment(call[i], word))
      BY <3>1, <3>2, SegmentsAgree
    <3> QED
      BY <2>1, <3>1, <3>3
  <2> QED
    BY <2>1, <2>4, <2>5 DEF TemplateCovers
<1> QED
  BY <1>1, <1>2 DEF CallsAreAttributed

-----------------------------------------------------------------------------
(* The tools' one step. *)

DriftInv ==
    \/ input = NoInput
    \/ input \in FieldInputs /\ report = FieldVerdict(input)
    \/ input \in PathInputs /\ report = PathVerdict(input)

\* Each tool reports its verdict on its input.
LEMMA DriftKeeps ==
    ASSUME DriftInv, [DriftNext]_driftVars
    PROVE  DriftInv'
<1>1. CASE CheckFields
  <2>1. input' \in FieldInputs /\ report' = FieldVerdict(input')
    BY <1>1 DEF CheckFields, FieldInputs
  <2> QED
    BY <2>1 DEF DriftInv, FieldInputs, FieldVerdict
<1>2. CASE CheckPaths
  <2>1. input' \in PathInputs /\ report' = PathVerdict(input')
    BY <1>2 DEF CheckPaths, PathInputs
  <2> QED
    BY <2>1 DEF DriftInv, PathInputs, PathVerdict
<1>3. CASE UNCHANGED driftVars
  BY <1>3 DEF driftVars, DriftInv, FieldInputs, PathInputs, FieldVerdict, PathVerdict
<1> QED
  BY <1>1, <1>2, <1>3 DEF DriftNext

\* The verdicts are what the properties of the tools say.
LEMMA DriftInvSuffices ==
    ASSUME DriftInv
    PROVE  DriftIsAccounted /\ CallsAreAttributed
<1>1. CASE input = NoInput
  BY <1>1 DEF NoInput, DriftIsAccounted, CallsAreAttributed
<1>2. CASE input \in FieldInputs /\ report = FieldVerdict(input)
  <2>1. input.tool = "fields"
    BY <1>2 DEF FieldInputs
  <2> QED
    BY <1>2, <2>1, FieldsAreAccounted DEF CallsAreAttributed
<1>3. CASE input \in PathInputs /\ report = PathVerdict(input)
  <2>1. input.tool = "paths"
    BY <1>3 DEF PathInputs
  <2> QED
    BY <1>3, <2>1, PathsAreAttributed DEF DriftIsAccounted
<1> QED
  BY <1>1, <1>2, <1>3 DEF DriftInv

-----------------------------------------------------------------------------
(***************************************************************************)
(* The tracker.                                                            *)
(***************************************************************************)

TrackerTypeOK ==
    /\ phase \in {"test", "sweep", "over", "interrupted"}
    /\ made \in Nat
    /\ alive \subseteq 1 .. made
    /\ items \in Seq(Nat)
    /\ results \in Seq([item : Nat, ok : BOOLEAN])

\* Of r, which the sweep has come past: if it is left, it was refused, or holds one
\* that was refused or was never registered. F is what was refused, A what is alive,
\* R what the sweep has come past.
Excused(r, F, A, R) ==
    \/ r \in F
    \/ \E s \in A : s > r /\ (s \in F \/ \A j \in 1 .. Len(R) : R[j].item # s)

Ascending(s) == \A i, j \in 1 .. Len(s) : i < j => s[i] < s[j]
Descending(s) == \A i, j \in 1 .. Len(s) : i < j => s[i] > s[j]

\* The test keeps the order of creation, the sweep goes back through it.
OrderInv ==
    /\ phase = "test" => /\ results = <<>>
                         /\ Ascending(items)
                         /\ \A i \in 1 .. Len(items) : items[i] <= made
    /\ phase # "test" =>
          /\ Descending(items)
          /\ \A i \in 1 .. Len(results), j \in 1 .. Len(items) : results[i].item > items[j]
          /\ \A i \in 1 .. Len(results) :
                results[i].item \in alive => ~results[i].ok /\ Excused(results[i].item, faults, alive, results)

TrackerInv == TrackerTypeOK /\ OrderInv

-----------------------------------------------------------------------------
(* Sequences of numbers. *)

\* What SubSeq takes.
LEMMA Piece ==
    ASSUME NEW s \in Seq(Nat), NEW l \in Int, NEW u \in Int,
           \A j \in l .. u : s[j] \in Nat
    PROVE  /\ SubSeq(s, l, u) \in Seq(Nat)
           /\ Len(SubSeq(s, l, u)) = IF l <= u THEN u - l + 1 ELSE 0
           /\ \A j \in 1 .. u - l + 1 : SubSeq(s, l, u)[j] = s[l + j - 1]
BY SubSeqProperties

\* One place taken out leaves an ascending sequence, of the same elements.
LEMMA Removed ==
    ASSUME NEW s \in Seq(Nat), Ascending(s), NEW i \in Nat, i \in DOMAIN s,
           NEW m, \A j \in 1 .. Len(s) : s[j] <= m
    PROVE  /\ RemoveAt(s, i) \in Seq(Nat) /\ Ascending(RemoveAt(s, i))
           /\ \A j \in 1 .. Len(RemoveAt(s, i)) : RemoveAt(s, i)[j] <= m
<1> DEFINE a == SubSeq(s, 1, i - 1)
           b == SubSeq(s, i + 1, Len(s))
           r == a \o b
<1>1. /\ i \in 1 .. Len(s) /\ Len(s) \in Nat /\ \A j \in 1 .. Len(s) : s[j] \in Nat
      /\ 1 <= i /\ i <= Len(s)
  OBVIOUS
<1>2. a \in Seq(Nat) /\ Len(a) = i - 1 /\ \A j \in 1 .. i - 1 : a[j] = s[j]
  BY <1>1
<1>3. b \in Seq(Nat) /\ Len(b) = Len(s) - i /\ \A j \in 1 .. Len(s) - i : b[j] = s[i + j]
  <2>1. i + 1 \in Int /\ Len(s) \in Int /\ \A j \in (i + 1) .. Len(s) : s[j] \in Nat
    BY <1>1
  <2>2. /\ b \in Seq(Nat) /\ Len(b) = IF i + 1 <= Len(s) THEN Len(s) - (i + 1) + 1 ELSE 0
        /\ \A j \in 1 .. Len(s) - (i + 1) + 1 : b[j] = s[(i + 1) + j - 1]
    BY <2>1, Piece
  <2> HIDE DEF b
  <2>4. ASSUME NEW j \in 1 .. Len(s) - i
        PROVE  b[j] = s[i + j]
    <3>1. j \in 1 .. Len(s) - (i + 1) + 1 /\ (i + 1) + j - 1 = i + j
      BY <1>1
    <3>2. b[j] = s[(i + 1) + j - 1]
      BY <2>2, <3>1, Zenon
    <3> QED
      BY <3>1, <3>2, Zenon
  <2>5. Len(b) = Len(s) - i
    BY <1>1, <2>2
  <2> QED
    BY <2>2, <2>4, <2>5
<1> HIDE DEF a, b
<1>4. r \in Seq(Nat) /\ Len(r) = Len(s) - 1
      /\ \A j \in 1 .. Len(s) - 1 : r[j] = IF j < i THEN a[j] ELSE b[j - (i - 1)]
  <2>1. /\ r \in Seq(Nat) /\ Len(r) = Len(a) + Len(b)
        /\ \A j \in 1 .. Len(a) + Len(b) : r[j] = IF j <= Len(a) THEN a[j] ELSE b[j - Len(a)]
    BY <1>2, <1>3, ConcatProperties, Zenon
  <2> HIDE DEF r
  <2>2. Len(a) + Len(b) = Len(s) - 1
    BY <1>1, <1>2, <1>3
  <2>3. \A j \in 1 .. Len(s) - 1 : j <= Len(a) <=> j < i
    BY <1>1, <1>2
  <2> QED
    BY <1>2, <2>1, <2>2, <2>3
<1>5. ASSUME NEW j \in 1 .. Len(s) - 1
      PROVE  r[j] = IF j < i THEN s[j] ELSE s[j + 1]
  <2>1. CASE j < i
    BY <1>1, <1>2, <1>4, <2>1
  <2>2. CASE ~(j < i)
    <3>1. j - (i - 1) \in 1 .. Len(s) - i /\ i + (j - (i - 1)) = j + 1
      BY <1>1, <2>2
    <3> QED
      BY <1>3, <1>4, <2>2, <3>1
  <2> QED
    BY <2>1, <2>2
<1> HIDE DEF r
<1>6. ASSUME NEW j \in 1 .. Len(s) - 1, NEW k \in 1 .. Len(s) - 1, j < k
      PROVE  r[j] < r[k]
  <2>1. /\ j \in 1 .. Len(s) /\ j + 1 \in 1 .. Len(s) /\ k \in 1 .. Len(s) /\ k + 1 \in 1 .. Len(s)
        /\ j < k + 1 /\ j + 1 < k + 1
    BY <1>1, <1>6
  <2>2. s[j] < s[k] /\ s[j] < s[k + 1] /\ s[j + 1] < s[k + 1]
    BY <1>6, <2>1 DEF Ascending
  <2>3. j < i \/ ~(k < i)
    BY <1>1, <1>6
  <2> QED
    BY <1>5, <2>2, <2>3
<1>7. ASSUME NEW j \in 1 .. Len(s) - 1
      PROVE  r[j] <= m
  <2>1. j \in 1 .. Len(s) /\ j + 1 \in 1 .. Len(s)
    BY <1>1
  <2> QED
    BY <1>5, <2>1
<1>8. Ascending(r)
  BY <1>4, <1>6 DEF Ascending
<1> QED
  BY <1>4, <1>7, <1>8 DEF RemoveAt, r, a, b

\* What is larger than all goes to the end.
LEMMA Appended ==
    ASSUME NEW s \in Seq(Nat), Ascending(s), NEW m \in Nat, m \notin ToSet(s),
           \A j \in 1 .. Len(s) : s[j] <= m
    PROVE  /\ Append(s, m) \in Seq(Nat) /\ Ascending(Append(s, m))
           /\ \A j \in 1 .. Len(Append(s, m)) : Append(s, m)[j] <= m
<1>1. \A j \in 1 .. Len(s) : s[j] \in Nat /\ s[j] < m
  BY DEF ToSet
<1>2. /\ Append(s, m) \in Seq(Nat) /\ Len(Append(s, m)) = Len(s) + 1 /\ Len(s) \in Nat
      /\ \A j \in 1 .. Len(s) : Append(s, m)[j] = s[j]
      /\ Append(s, m)[Len(s) + 1] = m
  OBVIOUS
<1> QED
  BY <1>1, <1>2 DEF Ascending

\* An ascending sequence descends when it is reversed.
LEMMA Reversed ==
    ASSUME NEW s \in Seq(Nat), Ascending(s)
    PROVE  Reverse(s) \in Seq(Nat) /\ Descending(Reverse(s))
<1>1. /\ Reverse(s) \in Seq(Nat) /\ Len(Reverse(s)) = Len(s) /\ Len(s) \in Nat
      /\ \A i \in 1 .. Len(s) : Reverse(s)[i] = s[Len(s) - i + 1] /\ Len(s) - i + 1 \in 1 .. Len(s)
  BY DEF Reverse
<1>2. \A i \in 1 .. Len(s) : s[i] \in Nat
  OBVIOUS
<1>3. ASSUME NEW i \in 1 .. Len(s), NEW j \in 1 .. Len(s), i < j
      PROVE  Reverse(s)[i] > Reverse(s)[j]
  <2>1. Len(s) - j + 1 < Len(s) - i + 1
    BY <1>1, <1>3
  <2>2. s[Len(s) - j + 1] < s[Len(s) - i + 1]
    BY <1>1, <2>1 DEF Ascending
  <2> QED
    BY <1>1, <1>2, <2>2
<1> QED
  BY <1>1, <1>3 DEF Descending

\* The head of a descending sequence is larger than the rest, which descends.
LEMMA Headed ==
    ASSUME NEW s \in Seq(Nat), Descending(s), s # <<>>
    PROVE  /\ Head(s) \in Nat /\ Head(s) = s[1] /\ 1 \in 1 .. Len(s)
           /\ Tail(s) \in Seq(Nat) /\ Descending(Tail(s))
           /\ \A j \in 1 .. Len(Tail(s)) :
                 /\ Head(s) > Tail(s)[j]
                 /\ j + 1 \in 1 .. Len(s) /\ Tail(s)[j] = s[j + 1]
<1>1. /\ Len(s) \in Nat /\ Len(s) > 0 /\ Len(Tail(s)) = Len(s) - 1
      /\ Tail(s) \in Seq(Nat) /\ Head(s) = s[1] /\ s[1] \in Nat
      /\ \A j \in 1 .. Len(s) - 1 : Tail(s)[j] = s[j + 1] /\ j + 1 \in 1 .. Len(s)
  OBVIOUS
<1> QED
  BY <1>1 DEF Descending

-----------------------------------------------------------------------------
(* Steps. *)

\* A test registers at the end, and takes out without changing the order.
LEMMA TestKeeps ==
    ASSUME TrackerInv, phase = "test", phase' = "test", UNCHANGED results,
           made' \in Nat, made' >= made, alive' \subseteq 1 .. made',
           \/ items' = items
           \/ made \notin Registered /\ items' = Append(items, made)
           \/ \E i \in DOMAIN items : items' = RemoveAt(items, i)
    PROVE  TrackerInv'
<1>1. /\ items \in Seq(Nat) /\ made \in Nat /\ results = <<>>
      /\ Ascending(items) /\ \A i \in 1 .. Len(items) : items[i] <= made
  BY DEF TrackerInv, TrackerTypeOK, OrderInv
<1>2. items' \in Seq(Nat) /\ Ascending(items') /\ \A i \in 1 .. Len(items') : items'[i] <= made
  <2>1. CASE items' = items
    BY <1>1, <2>1
  <2>2. CASE made \notin Registered /\ items' = Append(items, made)
    BY <1>1, <2>2, Appended DEF Registered
  <2>3. CASE \E i \in DOMAIN items : items' = RemoveAt(items, i)
    <3>1. PICK i \in DOMAIN items : items' = RemoveAt(items, i)
      BY <2>3
    <3>2. i \in Nat
      BY <1>1, <3>1
    <3> QED
      BY <1>1, <3>1, <3>2, Removed
  <2> QED
    BY <2>1, <2>2, <2>3
<1>3. \A i \in 1 .. Len(items') : items'[i] <= made'
  BY <1>1, <1>2
<1>4. TrackerTypeOK'
  BY <1>1, <1>2 DEF TrackerTypeOK
<1>5. OrderInv'
  BY <1>1, <1>2, <1>3 DEF OrderInv, Ascending
<1> QED
  BY <1>4, <1>5 DEF TrackerInv

\* The sweep goes through the registered resources backwards.
LEMMA TestEndsKeeps ==
    ASSUME TrackerInv, TestEnds
    PROVE  TrackerInv'
<1>1. /\ phase' = "sweep" /\ items' = Reverse(items)
      /\ UNCHANGED <<made, alive, results, faults>>
      /\ TrackerTypeOK /\ items \in Seq(Nat) /\ results = <<>> /\ Ascending(items)
  BY DEF TestEnds, SweepOrder, TrackerInv, TrackerTypeOK, OrderInv
<1>2. items' \in Seq(Nat) /\ Descending(items')
  BY <1>1, Reversed
<1>3. TrackerTypeOK'
  BY <1>1, <1>2 DEF TrackerTypeOK
<1>4. OrderInv'
  BY <1>1, <1>2 DEF OrderInv, Descending
<1> QED
  BY <1>3, <1>4 DEF TrackerInv

\* The next resource is swept, or stays for a reason.
LEMMA SweptKeeps ==
    ASSUME TrackerInv, phase = "sweep", phase' = "sweep", items # <<>>,
           NEW h, h = Head(items),
           NEW ok \in BOOLEAN, Swept(ok), made' = made,
           \/ ok /\ Deletable(h) /\ alive' = alive \ {h} /\ faults' = faults
           \/ /\ ~ok /\ alive' = alive
              /\ \/ ~Deletable(h) /\ faults' = faults
                 \/ faults' = faults \cup {h}
    PROVE  TrackerInv'
<1> DEFINE n == Len(results)
           Entry == [item : Nat, ok : BOOLEAN]
<1>1. /\ items \in Seq(Nat) /\ made \in Nat /\ alive \subseteq Nat
      /\ results \in Seq(Entry) /\ Descending(items)
      /\ \A i \in 1 .. Len(results), j \in 1 .. Len(items) : results[i].item > items[j]
      /\ \A i \in 1 .. Len(results) :
            results[i].item \in alive =>
                ~results[i].ok /\ Excused(results[i].item, faults, alive, results)
  BY DEF TrackerInv, TrackerTypeOK, OrderInv
<1>2. /\ h \in Nat /\ h = items[1] /\ 1 \in 1 .. Len(items)
      /\ items' \in Seq(Nat) /\ Descending(items')
      /\ \A j \in 1 .. Len(items') :
            h > items'[j] /\ j + 1 \in 1 .. Len(items) /\ items'[j] = items[j + 1]
  BY <1>1, Headed DEF Swept
<1>3. /\ n \in Nat /\ [item |-> h, ok |-> ok] \in Entry
      /\ results' = Append(results, [item |-> h, ok |-> ok])
  BY <1>1, <1>2 DEF Swept
<1>6. \A i \in 1 .. n : results[i] \in Entry /\ results[i].item \in Nat /\ results[i].item > h
  <2>1. \A i \in 1 .. n : results[i] \in Entry
    <3> HIDE DEF Entry
    <3> QED
      BY <1>1
  <2>2. \A e \in Entry : e.item \in Nat
    OBVIOUS
  <2> QED
    BY <1>1, <1>2, <2>1, <2>2
<1> HIDE DEF Entry
<1>4. /\ results' \in Seq(Entry) /\ Len(results') = n + 1
      /\ \A i \in 1 .. n : results'[i] = results[i]
      /\ results'[n + 1] = [item |-> h, ok |-> ok]
  BY <1>1, <1>3
<1>5. TrackerTypeOK'
  BY <1>1, <1>2, <1>4 DEF TrackerTypeOK, TrackerInv, Entry
<1>8. \A i \in 1 .. Len(results'), j \in 1 .. Len(items') : results'[i].item > items'[j]
  <2> TAKE i \in 1 .. Len(results'), j \in 1 .. Len(items')
  <2>1. CASE i \in 1 .. n
    BY <1>1, <1>2, <1>4, <2>1
  <2>2. CASE i = n + 1
    BY <1>2, <1>4, <2>2
  <2> QED
    BY <1>3, <1>4, <2>1, <2>2
<1>9. ASSUME NEW r \in alive, r > h
      PROVE  ~Deletable(h) /\ ~ok /\ alive' = alive /\ faults \subseteq faults'
  <2>1. ~Deletable(h)
    BY <1>1, <1>2, <1>9 DEF Deletable
  <2> QED
    BY <2>1
<1>10. ASSUME NEW r \in alive, r >= h, ~ok, Excused(r, faults, alive, results)
       PROVE  Excused(r, faults', alive', results')
  <2>1. alive' = alive /\ faults \subseteq faults'
    BY <1>10
  <2>2. ASSUME NEW s \in alive, s > r,
               s \in faults \/ \A j \in 1 .. Len(results) : results[j].item # s
        PROVE  s \in faults' \/ \A j \in 1 .. Len(results') : results'[j].item # s
    <3>1. s # h
      BY <1>1, <1>2, <1>10, <2>2
    <3> QED
      BY <1>3, <1>4, <2>1, <2>2, <3>1
  <2> QED
    BY <1>10, <2>1, <2>2 DEF Excused
<1>11. ASSUME h \in alive, ~ok, h \in faults'
       PROVE  Excused(h, faults', alive', results')
  BY <1>11 DEF Excused
<1>12. ASSUME h \in alive, ~ok, ~Deletable(h)
       PROVE  Excused(h, faults', alive', results')
  <2>1. PICK s \in alive : s > h
    BY <1>1, <1>2, <1>12 DEF Deletable
  <2>2. CASE \A j \in 1 .. Len(results) : results[j].item # s
    <3>1. Excused(h, faults, alive, results)
      BY <2>1, <2>2 DEF Excused
    <3> QED
      BY <1>2, <1>10, <1>12, <3>1
  <2>3. ASSUME NEW j \in 1 .. Len(results), results[j].item = s
        PROVE  Excused(h, faults', alive', results')
    <3>1. Excused(s, faults, alive, results)
      BY <1>1, <2>3
    <3>2. Excused(h, faults, alive, results)
      BY <1>1, <1>2, <2>1, <3>1 DEF Excused
    <3> QED
      BY <1>2, <1>10, <1>12, <3>2
  <2> QED
    BY <2>2, <2>3
<1>13. ASSUME NEW i \in 1 .. Len(results'), results'[i].item \in alive'
       PROVE  ~results'[i].ok /\ Excused(results'[i].item, faults', alive', results')
  <2>1. ASSUME i \in 1 .. n, NEW r, r = results[i].item
        PROVE  ~results'[i].ok /\ Excused(r, faults', alive', results')
    <3>1. results'[i] = results[i] /\ i \in 1 .. Len(results)
      BY <1>4, <2>1
    <3>2. r \in alive /\ r > h /\ r \in Int
      BY <1>6, <1>13, <2>1, <3>1
    <3>3. ~ok /\ ~results[i].ok /\ Excused(r, faults, alive, results)
      BY <1>1, <1>9, <2>1, <3>1, <3>2
    <3>4. r >= h
      BY <1>2, <3>2
    <3>5. Excused(r, faults', alive', results')
      BY <1>10, <3>2, <3>3, <3>4
    <3> QED
      BY <3>1, <3>3, <3>5
  <2>2. CASE i = n + 1
    <3>1. results'[i].item = h /\ results'[i].ok = ok
      BY <1>4, <2>2
    <3>2. ~ok /\ h \in alive
      BY <1>13, <3>1
    <3>3. Excused(h, faults', alive', results')
      BY <1>11, <1>12, <3>2
    <3> QED
      BY <3>1, <3>2, <3>3
  <2>3. i \in 1 .. n \/ i = n + 1
    BY <1>3, <1>4
  <2>4. results'[i].item = results[i].item \/ i = n + 1
    BY <1>4, <2>3
  <2> QED
    BY <2>1, <2>2, <2>3, <2>4
<1> QED
  BY <1>2, <1>5, <1>8, <1>13 DEF TrackerInv, OrderInv, Descending

\* The invariant holds before anything is provisioned.
LEMMA TrackerStart ==
    ASSUME TrackerInit
    PROVE  TrackerInv
  BY DEF TrackerInit, TrackerInv, TrackerTypeOK, OrderInv, Ascending

\* Every step of the test or the sweep keeps the invariant.
LEMMA TrackerKeeps ==
    ASSUME TrackerInv, [TrackerNext]_trackerVars
    PROVE  TrackerInv'
<1>1. CASE Provision \/ Register \/ \E r \in 1 .. MaxResources : Delete(r) \/ Unregister(r)
  <2>1. CASE Provision
    BY <2>1, TestKeeps DEF Provision, TrackerInv, TrackerTypeOK
  <2>2. CASE Register
    BY <2>2, TestKeeps DEF Register, TrackerInv, TrackerTypeOK
  <2>3. CASE \E r \in 1 .. MaxResources : Delete(r) \/ Unregister(r)
    <3>1. PICK r \in 1 .. MaxResources : Delete(r) \/ Unregister(r)
      BY <2>3
    <3>2. made \in Nat /\ made >= made /\ alive \subseteq 1 .. made
      BY DEF TrackerInv, TrackerTypeOK
    <3>3. CASE Delete(r)
      BY <3>2, <3>3, TestKeeps DEF Delete
    <3>4. CASE Unregister(r)
      BY <3>2, <3>4, TestKeeps DEF Unregister
    <3> QED
      BY <3>1, <3>3, <3>4
  <2> QED
    BY <1>1, <2>1, <2>2, <2>3
<1>2. CASE TestEnds
  BY <1>2, TestEndsKeeps
<1>3. CASE SweepDeletes
  BY <1>3, SweptKeeps DEF SweepDeletes
<1>4. CASE SweepFails
  BY <1>4, SweptKeeps DEF SweepFails
<1>5. CASE SweepEnds \/ Interrupted
  BY <1>5 DEF SweepEnds, Interrupted, TrackerInv, TrackerTypeOK, OrderInv
<1>6. CASE UNCHANGED trackerVars
  BY <1>6 DEF trackerVars, TrackerInv, TrackerTypeOK, OrderInv
<1> QED
  BY <1>1, <1>2, <1>3, <1>4, <1>5, <1>6 DEF TrackerNext

-----------------------------------------------------------------------------
(***************************************************************************)
(* The theorems.                                                           *)
(***************************************************************************)

\* The invariants of the three tools hold of every behaviour.
THEOREM UpkeepInvariance == UpkeepSpec => [](DocumentsInv /\ DriftInv /\ TrackerInv)
<1>1. UpkeepInit => DocumentsInv /\ DriftInv /\ TrackerInv
  BY DocumentsStart, TrackerStart DEF UpkeepInit, DriftInit, DriftInv
<1>2. DocumentsInv /\ DriftInv /\ TrackerInv
      /\ [UpkeepNext]_<<task, docVars, driftVars, trackerVars>>
      => DocumentsInv' /\ DriftInv' /\ TrackerInv'
  <2>1. [UpkeepNext]_<<task, docVars, driftVars, trackerVars>>
        => [DocumentsNext]_docVars /\ [DriftNext]_driftVars /\ [TrackerNext]_trackerVars
    BY Zenon DEF UpkeepNext
  <2> QED
    BY <2>1, DocumentsKeeps, DriftKeeps, TrackerKeeps
<1> QED
  BY <1>1, <1>2, PTL DEF UpkeepSpec

\* CI can rely on --check, whatever was edited, lost or half written before.
THEOREM ChecksAreTruthful == UpkeepSpec => []CheckIsTruthful
  BY UpkeepInvariance, PTL DEF DocumentsInv

\* One run of the generator or of the installation puts its files in order.
THEOREM OneRunSettles == UpkeepSpec => []RunsSettle
  BY UpkeepInvariance, PTL DEF DocumentsInv

\* The field drift tool passes exactly when the allowlist is the real difference less
\* what the tool overlooks, however many schemas there are and however they refer to
\* each other.
THEOREM DriftIsFound == UpkeepSpec => []DriftIsAccounted
  BY UpkeepInvariance, DriftInvSuffices, PTL

\* A path that the module of a client calls in a form that can be rendered is attributed
\* to that module, for paths of any length.
THEOREM CallsAreFound == UpkeepSpec => []CallsAreAttributed
  BY UpkeepInvariance, DriftInvSuffices, PTL

\* A sweep that comes to its end leaves only what was refused, or holds what was
\* refused or never registered; and reports it.
THEOREM SweepsAreThorough == UpkeepSpec => []SweepIsThorough
<1>1. TrackerInv => SweepIsThorough
  BY DEF TrackerInv, OrderInv, Excused, SweepIsThorough
<1> QED
  BY UpkeepInvariance, <1>1, PTL
=============================================================================
