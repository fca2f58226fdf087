--------------------------- MODULE CargoWorkspace ---------------------------
(***************************************************************************)
(* audit() of verification/scan_rust_parity.py: which manifests belong to  *)
(* the upstream Cargo workspace, and whether everything in it has been     *)
(* reviewed.                                                               *)
(*                                                                         *)
(* A manifest is a name; a pattern of workspace.members is the set of      *)
(* manifests it matches (Audits checks the matching); the content of a     *)
(* manifest is "pinned" if it is the one of the pinned upstream revision.  *)
(* The indexed local copies, their hashes and the tree inventory are the   *)
(* input, and none of them changes while the audit runs.                   *)
(***************************************************************************)
CONSTANTS
  Manifests,  \* the paths of Cargo.toml files
  root,       \* the root manifest
  Aliases,    \* names of dependencies in workspace.dependencies
  registry,   \* a dependency that has no path
  beyond      \* a path that leaves the upstream repository

ASSUME RootAssumption == root \in Manifests
ASSUME PathAssumption == registry \notin Manifests /\ beyond \notin Manifests

VARIABLES
  rows,       \* rows[m]: what the index says of the local copy of m, if any
  tree,       \* the inventory of the upstream tree, if one is given
  cargo,      \* what the manifests declare
  open,       \* what has no review: none, one without rationale or evidence,
              \* or one whose evidence has changed since
  pc,         \* where the audit is
  members,    \* manifests found to belong to the workspace
  processed,  \* those of them already looked at
  gaps        \* findings: each code with what it is about

input == <<rows, tree, cargo, open>>

cargoVars == <<input, pc, members, processed, gaps>>

Content == {"pinned", "other"}

\* The content of the local copy, and those its two hashes were made from.
Row == [local : Content, sha256 : Content, blob : Content]

Place == Manifests \cup {registry, beyond}

\* A dependency is declared with a path, or inherited from the workspace.
Edge == [path : Place] \cup [workspace : Aliases]

Declarations ==
  [package   : BOOLEAN,                       \* the root is a package
   workspace : BOOLEAN,                       \* the root is a workspace
   members   : SUBSET SUBSET Manifests,
   exclude   : SUBSET Manifests,
   outside   : SUBSET Manifests,              \* not below the root's directory
   inherited : [Aliases -> {{}} \cup {{p} : p \in Place}],
   deps      : [Manifests -> SUBSET Edge]]

\* What a review is of.
Key ==
  ({"member", "excluded"} \X Manifests) \cup ({"dependency"} \X Manifests \X Edge)

Verdict == {"refused", "incomplete", "classified"}

CargoTypeOK ==
  /\ rows \in [Manifests -> Row \cup {<<>>}]
  /\ tree \in [status : {"none", "exact", "stale", "truncated"}, paths : SUBSET Manifests]
  /\ cargo \in Declarations
  /\ open \in SUBSET Key
  /\ pc \in {"idle", "index", "members", "closure"} \cup Verdict
  /\ members \in SUBSET Manifests
  /\ processed \in SUBSET Manifests

-----------------------------------------------------------------------------
\* The index.

Indexed == {m \in Manifests : rows[m] # <<>>}

Known == tree.paths \cup Indexed

\* Mutant: the Git blob is not compared with the bytes.
Sha256Only(m) == rows[m].local = rows[m].sha256

Verified(m) == rows[m].local = rows[m].sha256 /\ rows[m].local = rows[m].blob

\* The tree is of the pinned revision, so its blobs are the pinned ones.
MatchesTree(m) == m \in tree.paths /\ rows[m].blob = "pinned"

\* Every ValueError of this part ends the audit.
CheckIndex ==
  /\ pc = "index"
  /\ IF /\ \A m \in Indexed : Verified(m)
        /\ tree.status \in {"none", "exact"}
        /\ tree.status = "exact" => \A m \in Indexed : MatchesTree(m)
       THEN pc' = "members"
       ELSE pc' = "refused"
  /\ gaps' = IF tree.status = "none" THEN {<<"SOURCE_TREE_UNVERIFIED", root>>} ELSE {}
  /\ UNCHANGED <<input, members, processed>>

-----------------------------------------------------------------------------
\* The members.

Excluded(p) == p \in cargo.exclude

Selected(pattern) == {p \in Known \cap pattern : ~Excluded(p)}

Declared ==
  (IF cargo.package THEN {root} ELSE {}) \cup UNION {Selected(p) : p \in cargo.members}

SelectMembers ==
  /\ pc = "members"
  /\ members' = Declared
  /\ gaps' = gaps \cup {<<"MISSING_MEMBER", p>> : p \in {q \in cargo.members : Selected(q) = {}}}
  /\ pc' = "closure"
  /\ UNCHANGED <<input, processed>>

\* Where a dependency leads: nowhere if it is inherited and not declared.
Resolve(e) == IF "workspace" \in DOMAIN e THEN cargo.inherited[e.workspace] ELSE {e.path}

Paths(m) == (UNION {Resolve(e) : e \in cargo.deps[m]}) \ {registry}

\* Mutant: a path dependency is a member wherever it leads.
FollowsAll(m) == IF m \notin Indexed \/ ~cargo.workspace THEN {} ELSE Paths(m)

\* Path dependencies in the workspace's directory belong to it by themselves.
Follows(m) ==
  IF m \notin Indexed \/ ~cargo.workspace THEN {}
  ELSE {p \in Paths(m) : p \in Known /\ ~Excluded(p) /\ p \notin cargo.outside}

GapsOf(m) ==
  IF m \notin Indexed THEN {<<"MISSING_MANIFEST_BYTES", m>>} ELSE
  {<<"UNRESOLVED_INHERITANCE", m, e>> : e \in {d \in cargo.deps[m] : Resolve(d) = {}}} \cup
  {<<"MISSING_PATH_DEPENDENCY", m, p>> : p \in Paths(m) \ Known} \cup
  {<<"PATH_CRATE_GRAPH_UNVERIFIED", m, p>> :
     p \in {q \in Paths(m) \cap Known : ~cargo.workspace /\ ~Excluded(q) /\ q \notin cargo.outside}}

\* Mutant: a manifest without bytes is not marked before the loop continues.
Unmarked(m) == IF m \in Indexed THEN processed \cup {m} ELSE processed

Marked(m) == processed \cup {m}

\* The least name comes first in the code; here any does. normalized() raises
\* on a path that leaves the repository.
Process(m) ==
  /\ pc = "closure"
  /\ m \in members \ processed
  /\ processed' = Marked(m)
  /\ members' = members \cup Follows(m)
  /\ gaps' = gaps \cup GapsOf(m)
  /\ pc' = IF m \in Indexed /\ beyond \in Paths(m) THEN "refused" ELSE pc
  /\ UNCHANGED input

-----------------------------------------------------------------------------
\* The gate.

\* What needs a review: members, their dependencies, and manifests left out
\* for no reason the workspace states.
Reviewable ==
  {<<"member", m>> : m \in processed \cap Indexed} \cup
  (UNION {{<<"dependency", m, e>> : e \in {d \in cargo.deps[m] : Resolve(d) # {}}} :
            m \in processed \cap Indexed}) \cup
  {<<"excluded", p>> : p \in {q \in Known \ processed : q # root /\ ~Excluded(q)}}

\* Mutant: the loop runs over the members known when it started.
DeclaredLooked == Declared \subseteq processed

AllLooked == members \subseteq processed

Gate ==
  /\ pc = "closure"
  /\ AllLooked
  /\ gaps' = gaps \cup {<<"REVIEW", k>> : k \in open \cap Reviewable}
  /\ pc' = IF gaps' = {} THEN "classified" ELSE "incomplete"
  /\ UNCHANGED <<input, members, processed>>

-----------------------------------------------------------------------------
\* The local copies may be of another revision, hashed or not; a root that is
\* not a workspace declares neither members nor inherited dependencies.
CargoInput ==
  /\ rows \in [Manifests -> Row \cup {<<>>}]
  /\ root \in Indexed
  /\ tree \in [status : {"none", "exact", "stale", "truncated"}, paths : SUBSET Manifests]
  /\ tree.status = "none" => tree.paths = {}
  /\ cargo \in Declarations
  /\ open \in SUBSET Key
  /\ ~cargo.workspace =>
       /\ cargo.members = {} /\ cargo.exclude = {}
       /\ \A a \in Aliases : cargo.inherited[a] = {}

CargoStart ==
  /\ pc = "index"
  /\ members = {}
  /\ processed = {}
  /\ gaps = {}

CargoInit == CargoInput /\ CargoStart

CargoNext ==
  \/ CheckIndex
  \/ SelectMembers
  \/ \E m \in members : Process(m)
  \/ Gate

CargoSpec == CargoInit /\ [][CargoNext]_cargoVars

FairCargoSpec == CargoSpec /\ WF_cargoVars(CargoNext)

-----------------------------------------------------------------------------
\* Properties.

\* What Cargo makes of the declarations: the least set that holds the members
\* declared and is closed under path dependencies.
Closed(S) == Declared \subseteq S /\ \A m \in S : Follows(m) \subseteq S

Workspace == {m \in Manifests : \A S \in SUBSET Manifests : Closed(S) => m \in S}

\* The members an audit ends with are the workspace, in whatever order it
\* came across them and however they depend on each other
\* (scan_rust_parity.py:108-147).
ClosureFound == pc \in {"incomplete", "classified"} => processed = Workspace

\* An audit without findings has read every manifest of the workspace at the
\* pinned revision and somebody reviewed it and its dependencies, none of
\* which leads nowhere; and nothing in the tree is left out unless the
\* workspace excludes it or somebody reviewed that
\* (scan_rust_parity.py:66-95, 112-149, 205-230).
ClassifiedIsComplete ==
  pc = "classified" =>
    /\ \A m \in Workspace :
         /\ m \in Indexed
         /\ rows[m].local = "pinned"
         /\ <<"member", m>> \notin open
         /\ \A e \in cargo.deps[m] :
              /\ Resolve(e) # {}
              /\ Resolve(e) \subseteq Known \cup {registry}
              /\ <<"dependency", m, e>> \notin open
    /\ \A p \in tree.paths \ Workspace :
         p = root \/ Excluded(p) \/ <<"excluded", p>> \notin open

\* The audit comes to a verdict (scan_rust_parity.py:109).
AuditEnds == pc = "index" ~> pc \in Verdict
=============================================================================
