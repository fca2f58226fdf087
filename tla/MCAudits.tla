------------------------------ MODULE MCAudits ------------------------------
(* The audits of verification/ for TLC: each is a process of its own that   *)
(* shares nothing with the others, so a behaviour is one audit on its own   *)
(* and the others do not begin.                                             *)
EXTENDS CargoWorkspace, SwiftEvidence, MCSwiftManifest, NativeArchive, MCStagedPublication, TLC

CONSTANTS a, b, alias, moduleA, moduleB, s1, s2

VARIABLE subject

auditVars == <<subject, cargoVars, evidenceVars, manifestVars, archiveVars, stagingVars>>

-----------------------------------------------------------------------------
\* Cargo workspaces: a graph of three manifests, known or not; one fault of
\* the index; one missing review.

SoundRow == [local |-> "pinned", sha256 |-> "pinned", blob |-> "pinned"]

Exact(known) == [status |-> "exact", paths |-> known]

IndexOnly(indexed) == [p \in Manifests |-> IF p \in indexed THEN SoundRow ELSE <<>>]

\* A dependency at most of each manifest, on another manifest or by an alias.
OneDependency ==
  {d \in [Manifests -> {{}} \cup {{[path |-> p]} : p \in Manifests} \cup {{[workspace |-> alias]}}] :
     \A p \in Manifests : [path |-> p] \notin d[p]}

Graphs3 ==
  /\ \E known, indexed \in SUBSET Manifests :
       /\ root \in indexed /\ indexed \subseteq known
       /\ tree = Exact(known)
       /\ rows = IndexOnly(indexed)
  /\ cargo \in [package : BOOLEAN, workspace : BOOLEAN, members : SUBSET {{a}, {a, b}},
                exclude : {{}, {b}}, outside : {{}}, inherited : [Aliases -> {{}, {a}}],
                deps : OneDependency]
  /\ ~cargo.workspace => cargo.members = {} /\ cargo.exclude = {} /\ cargo.inherited[alias] = {}
  /\ open = {}

Faults ==
  /\ tree \in [status : {"exact", "stale", "truncated"}, paths : {Manifests, {root}}]
              \cup [status : {"none"}, paths : {{}}]
  /\ \E f \in {root, a}, r \in Row \cup {<<>>} :
       /\ rows = [p \in Manifests |-> IF p = f THEN r ELSE SoundRow]
       /\ f = root => r # <<>>
  /\ cargo \in [package : {TRUE}, workspace : {TRUE}, members : {{{a, b}}}, exclude : {{}},
                outside : {{}}, inherited : {[x \in Aliases |-> {}]}, deps : {[p \in Manifests |-> {}]}]
  /\ open = {}

Reviews ==
  /\ tree = Exact(Manifests)
  /\ rows = IndexOnly(Manifests)
  /\ cargo \in [package : {TRUE}, workspace : {TRUE}, members : {{}, {{a}}}, exclude : {{}, {b}},
                outside : {{}, {b}}, inherited : [Aliases -> {{a}, {beyond}}], deps : OneDependency]
  /\ \E k \in Key : open = {k}

CargoIdle ==
  /\ Faults /\ tree = Exact(Manifests) /\ rows = IndexOnly(Manifests)
  /\ pc = "idle" /\ members = {} /\ processed = {} /\ gaps = {}

-----------------------------------------------------------------------------
\* Two revisions that export different modules.
MCModulesOf == [s \in Sources |-> IF s = s1 THEN {moduleA} ELSE {moduleB}]

\* The revisions are symmetric: it does not matter which comes first.
EvidenceIdle == EvidenceInit /\ source = s1

ManifestIdle ==
  /\ manifest = [tools |-> 6, target |-> "none", text |-> Text({"targets"}, "v6", TRUE, FALSE, TRUE)]
  /\ original = manifest /\ edits = {} /\ outcome = "none"

-----------------------------------------------------------------------------
\* Objects of one or two bytes, and one for another machine.
MCObjects == {<<"x64">>, <<"x64", "byte">>, <<"arm64">>}

ArchiveIdle == ArchiveInit /\ flavor = "bsd" /\ object = <<"x64">>

StagingIdle == StagingInit /\ asked = Asked(jvm, jvm, 1)

-----------------------------------------------------------------------------
Init ==
  \/ subject = "cargo" /\ (Graphs3 \/ Faults \/ Reviews) /\ CargoStart
     /\ EvidenceIdle /\ ManifestIdle /\ ArchiveIdle /\ StagingIdle
  \/ subject = "evidence" /\ CargoIdle /\ EvidenceIdle /\ ManifestIdle /\ ArchiveIdle /\ StagingIdle
  \/ subject = "manifest" /\ CargoIdle /\ EvidenceIdle /\ ManifestInit /\ ArchiveIdle /\ StagingIdle
  \/ subject = "archive" /\ CargoIdle /\ EvidenceIdle /\ ManifestIdle /\ ArchiveInit /\ StagingIdle
  \/ subject = "staging" /\ CargoIdle /\ EvidenceIdle /\ ManifestIdle /\ ArchiveIdle /\ StagingInit

CargoRuns ==
  subject = "cargo" /\ CargoNext /\ UNCHANGED <<evidenceVars, manifestVars, archiveVars, stagingVars>>

Next ==
  /\ UNCHANGED subject
  /\ \/ CargoRuns
     \/ subject = "evidence" /\ EvidenceNext /\ UNCHANGED <<cargoVars, manifestVars, archiveVars, stagingVars>>
     \/ subject = "manifest" /\ ManifestNext /\ UNCHANGED <<cargoVars, evidenceVars, archiveVars, stagingVars>>
     \/ subject = "archive" /\ ArchiveNext /\ UNCHANGED <<cargoVars, evidenceVars, manifestVars, stagingVars>>
     \/ subject = "staging" /\ StagingNext /\ UNCHANGED <<cargoVars, evidenceVars, manifestVars, archiveVars>>

\* The audit of workspaces, a loop, is scheduled again and again; nobody is
\* obliged to begin anything else.
Spec == Init /\ [][Next]_auditVars /\ WF_cargoVars(CargoRuns)
=============================================================================
