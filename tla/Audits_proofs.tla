---------------------------- MODULE Audits_proofs ----------------------------
(* Theorems about the audits of verification/: CargoWorkspace, SwiftEvidence, *)
(* StagedPublication and NativeArchive, one after the other.                  *)
EXTENDS CargoWorkspace, SwiftEvidence, StagedPublication, NativeArchive, SequenceTheorems, TLAPS

-----------------------------------------------------------------------------
(* CargoWorkspace *)

(***************************************************************************)
(* The loop invariant of the closure: everything found belongs to every    *)
(* closed set, everything looked at has been followed, and the loop ends   *)
(* with nothing left to look at.                                           *)
(***************************************************************************)
InputOK == tree.paths \subseteq Manifests

Found == members \subseteq Workspace

Followed ==
  pc \in {"closure", "incomplete", "classified"} =>
    /\ Declared \subseteq members
    /\ \A m \in processed : Follows(m) \subseteq members

Looked ==
  /\ processed \subseteq members
  /\ pc \in {"incomplete", "classified"} => members \subseteq processed

NotBegun == pc \in {"index", "members"} => members = {} /\ processed = {}

LoopInv == InputOK /\ Found /\ Followed /\ Looked /\ NotBegun

\* The workspace is one of the sets it is the least of.
LEMMA WorkspaceClosed == ASSUME InputOK PROVE Closed(Workspace)
<1>1. Known \subseteq Manifests
  BY DEF Known, Indexed, InputOK
<1>2. Declared \subseteq Manifests
  BY <1>1, RootAssumption DEF Declared, Selected
<1>3. Declared \subseteq Workspace
  BY <1>2 DEF Workspace, Closed
<1>4. ASSUME NEW m \in Workspace PROVE Follows(m) \subseteq Workspace
  <2>1. Follows(m) \subseteq Manifests
    BY <1>1 DEF Follows
  <2>2. QED  BY <1>4, <2>1 DEF Workspace, Closed
<1>5. QED  BY <1>3, <1>4 DEF Closed

\* And it is below every closed set.
LEMMA WorkspaceLeast ==
  ASSUME NEW S \in SUBSET Manifests, Closed(S) PROVE Workspace \subseteq S
BY DEF Workspace

LEMMA LoopInvInit == CargoInit => LoopInv
BY DEF CargoInit, CargoInput, CargoStart, LoopInv, InputOK, Found, Followed,
       Looked, NotBegun

LEMMA LoopInvNext == LoopInv /\ [CargoNext]_cargoVars => LoopInv'
<1> SUFFICES ASSUME LoopInv, [CargoNext]_cargoVars PROVE LoopInv'
  OBVIOUS
<1>1. UNCHANGED input
  BY DEF CargoNext, cargoVars, CheckIndex, SelectMembers, Process, Gate
<1>2. InputOK'
  BY <1>1 DEF LoopInv, InputOK, input
<1>3. Declared' = Declared /\ (\A m : Follows(m)' = Follows(m))
  BY <1>1 DEF input, Declared, Selected, Excluded, Known, Indexed, Follows,
              Paths, Resolve
<1>4. Workspace' = Workspace
  BY <1>3 DEF Workspace, Closed
<1>5. Closed(Workspace)
  BY WorkspaceClosed DEF LoopInv
<1>6. CASE CheckIndex
  BY <1>2, <1>3, <1>4, <1>6
     DEF LoopInv, Found, Followed, Looked, NotBegun, CheckIndex
<1>7. CASE SelectMembers
  <2>1. Found'
    BY <1>4, <1>5, <1>7 DEF SelectMembers, Found, Closed
  <2>2. Followed'
    BY <1>3, <1>7 DEF SelectMembers, Followed, LoopInv, NotBegun
  <2>3. QED
    BY <1>2, <1>7, <2>1, <2>2 DEF SelectMembers, LoopInv, Looked, NotBegun
<1>8. CASE \E m \in members : Process(m)
  <2>1. PICK m \in members : Process(m)
    BY <1>8
  <2>2. members' = members \cup Follows(m) /\ processed' = processed \cup {m}
    BY <2>1 DEF Process, Marked
  <2>3. pc = "closure" /\ pc' \in {"closure", "refused"}
    BY <2>1 DEF Process
  <2>4. Found'
    <3>1. Follows(m) \subseteq Workspace
      BY <1>5 DEF LoopInv, Found, Closed
    <3>2. QED  BY <1>4, <2>2, <3>1 DEF LoopInv, Found
  <2>5. Followed'
    BY <1>3, <2>2, <2>3 DEF LoopInv, Followed
  <2>6. Looked' /\ NotBegun'
    BY <2>2, <2>3 DEF LoopInv, Looked, NotBegun
  <2>7. QED  BY <1>2, <2>4, <2>5, <2>6 DEF LoopInv
<1>9. CASE Gate
  <2>1. pc = "closure" /\ members \subseteq processed
    BY <1>9 DEF Gate, AllLooked
  <2>2. pc' \in {"classified", "incomplete"} /\ UNCHANGED <<members, processed>>
    BY <1>9 DEF Gate
  <2>3. QED
    BY <1>2, <1>3, <1>4, <2>1, <2>2
       DEF LoopInv, Found, Followed, Looked, NotBegun
<1>10. CASE UNCHANGED cargoVars
  BY <1>2, <1>3, <1>4, <1>10
     DEF cargoVars, LoopInv, Found, Followed, Looked, NotBegun
<1>11. QED  BY <1>6, <1>7, <1>8, <1>9, <1>10 DEF CargoNext

\* The audit ends with the workspace Cargo would make of the declarations,
\* whatever the manifests depend on and in whatever order they are looked at
\* (scan_rust_parity.py:108-147).
THEOREM ClosureCorrect == CargoSpec => []ClosureFound
<1>1. LoopInv => ClosureFound
  <2> SUFFICES ASSUME LoopInv, pc \in {"incomplete", "classified"}
               PROVE processed = Workspace
    BY DEF ClosureFound
  <2>1. processed = members
    BY DEF LoopInv, Looked
  <2>2. Closed(Workspace)
    BY WorkspaceClosed DEF LoopInv
  <2>3. members \subseteq Manifests
    BY DEF LoopInv, Found, Workspace
  <2>4. Closed(members)
    BY <2>1 DEF LoopInv, Followed, Closed
  <2>5. Workspace \subseteq members
    BY <2>3, <2>4, WorkspaceLeast
  <2>6. QED  BY <2>1, <2>5 DEF LoopInv, Found
<1>2. QED  BY <1>1, LoopInvInit, LoopInvNext, PTL DEF CargoSpec

-----------------------------------------------------------------------------
(***************************************************************************)
(* What an audit without findings has established so far: the index was    *)
(* checked against the tree, and nothing looked at left a finding.         *)
(***************************************************************************)
IndexChecked ==
  pc \in {"members", "closure", "incomplete", "classified"} =>
    /\ \A m \in Indexed : Verified(m)
    /\ tree.status \in {"none", "exact"}
    /\ tree.status = "exact" => \A m \in Indexed : MatchesTree(m)
    /\ gaps = {} => tree.status # "none"

NoGaps ==
  pc \in {"closure", "classified"} /\ gaps = {} => \A m \in processed : GapsOf(m) = {}

Reviewed == pc = "classified" => gaps = {} /\ open \cap Reviewable = {}

ReviewInv == IndexChecked /\ NoGaps /\ Reviewed

LEMMA ReviewInvInit == CargoInit => ReviewInv
BY DEF CargoInit, CargoStart, ReviewInv, IndexChecked, NoGaps, Reviewed

LEMMA ReviewInvNext ==
  LoopInv /\ ReviewInv /\ [CargoNext]_cargoVars => ReviewInv'
<1> SUFFICES ASSUME LoopInv, ReviewInv, [CargoNext]_cargoVars PROVE ReviewInv'
  OBVIOUS
<1>1. UNCHANGED input
  BY DEF CargoNext, cargoVars, CheckIndex, SelectMembers, Process, Gate
<1>2. /\ UNCHANGED <<rows, tree, cargo, open>>
      /\ Indexed' = Indexed /\ Known' = Known
      /\ \A m : Verified(m)' = Verified(m) /\ MatchesTree(m)' = MatchesTree(m)
  BY <1>1 DEF input, Indexed, Known, Verified, MatchesTree
<1>3. \A m : GapsOf(m)' = GapsOf(m)
  BY <1>2 DEF GapsOf, Paths, Resolve, Excluded
<1>4. processed' = processed => Reviewable' = Reviewable
  BY <1>2 DEF Reviewable, Resolve, Excluded
<1>5. CASE CheckIndex
  <2>1. pc' \in {"members", "refused"} /\ (pc' = "members" => IndexChecked')
    BY <1>2, <1>5 DEF CheckIndex, IndexChecked
  <2>2. IndexChecked'
    BY <2>1 DEF IndexChecked
  <2>3. QED  BY <2>1, <2>2 DEF ReviewInv, NoGaps, Reviewed
<1>6. CASE SelectMembers
  <2>1. pc = "members" /\ pc' = "closure" /\ gaps \subseteq gaps'
    BY <1>6 DEF SelectMembers
  <2>2. processed' = {}
    BY <1>6, <2>1 DEF SelectMembers, LoopInv, NotBegun
  <2>3. IndexChecked'
    BY <1>2, <2>1 DEF ReviewInv, IndexChecked
  <2>4. NoGaps' /\ Reviewed'
    BY <2>1, <2>2 DEF NoGaps, Reviewed
  <2>5. QED  BY <2>3, <2>4 DEF ReviewInv
<1>7. CASE \E m \in members : Process(m)
  <2>1. PICK m \in members : Process(m)
    BY <1>7
  <2>2. pc = "closure" /\ pc' \in {"closure", "refused"}
    BY <2>1 DEF Process
  <2>3. gaps' = gaps \cup GapsOf(m) /\ processed' = processed \cup {m}
    BY <2>1 DEF Process, Marked
  <2>4. IndexChecked'
    BY <1>2, <2>2, <2>3 DEF ReviewInv, IndexChecked
  <2>5. NoGaps'
    BY <1>3, <2>2, <2>3 DEF ReviewInv, NoGaps
  <2>6. Reviewed'
    BY <2>2 DEF Reviewed
  <2>7. QED  BY <2>4, <2>5, <2>6 DEF ReviewInv
<1>8. CASE Gate
  <2>1. pc = "closure" /\ pc' \in {"classified", "incomplete"}
    BY <1>8 DEF Gate
  <2>2. processed' = processed /\ gaps' = gaps \cup {<<"REVIEW", k>> : k \in open \cap Reviewable}
    BY <1>8 DEF Gate
  <2>3. pc' = "classified" => gaps' = {}
    BY <1>8 DEF Gate
  <2>4. IndexChecked'
    BY <1>2, <2>1, <2>2 DEF ReviewInv, IndexChecked
  <2>5. NoGaps'
    BY <1>3, <2>1, <2>2 DEF ReviewInv, NoGaps
  <2>6. Reviewed'
    <3>1. open' = open /\ Reviewable' = Reviewable
      BY <1>2, <1>4, <2>2
    <3>2. QED  BY <2>2, <2>3, <3>1 DEF Reviewed
  <2>7. QED  BY <2>4, <2>5, <2>6 DEF ReviewInv
<1>9. CASE UNCHANGED cargoVars
  <2>1. UNCHANGED <<pc, gaps, processed>>
    BY <1>9 DEF cargoVars
  <2>2. QED
    BY <1>2, <1>3, <1>4, <2>1 DEF ReviewInv, IndexChecked, NoGaps, Reviewed
<1>10. QED  BY <1>5, <1>6, <1>7, <1>8, <1>9 DEF CargoNext

\* "classified" means the whole workspace was read at the pinned revision,
\* resolved and reviewed, and whatever the tree holds besides was accounted
\* for (scan_rust_parity.py:66-95, 112-149, 205-230).
THEOREM ClassifiedCorrect == CargoSpec => []ClassifiedIsComplete
<1>1. LoopInv /\ ReviewInv /\ ClosureFound => ClassifiedIsComplete
  <2> SUFFICES ASSUME LoopInv, ReviewInv, ClosureFound, pc = "classified"
               PROVE /\ \A m \in Workspace :
                          /\ m \in Indexed
                          /\ rows[m].local = "pinned"
                          /\ <<"member", m>> \notin open
                          /\ \A e \in cargo.deps[m] :
                               /\ Resolve(e) # {}
                               /\ Resolve(e) \subseteq Known \cup {registry}
                               /\ <<"dependency", m, e>> \notin open
                     /\ \A p \in tree.paths \ Workspace :
                          p = root \/ Excluded(p) \/ <<"excluded", p>> \notin open
    BY DEF ClassifiedIsComplete
  <2>1. processed = Workspace /\ gaps = {}
    BY DEF ClosureFound, ReviewInv, Reviewed
  <2>2. open \cap Reviewable = {}
    BY DEF ReviewInv, Reviewed
  <2>3. \A m \in Workspace : GapsOf(m) = {}
    BY <2>1 DEF ReviewInv, NoGaps
  <2>4. tree.status = "exact"
    BY <2>1 DEF ReviewInv, IndexChecked
  <2>5. ASSUME NEW m \in Workspace
        PROVE  /\ m \in Indexed
               /\ rows[m].local = "pinned"
               /\ <<"member", m>> \notin open
    <3>1. m \in Indexed
      BY <2>3, <2>5 DEF GapsOf
    <3>2. rows[m].local = "pinned"
      BY <2>4, <3>1 DEF ReviewInv, IndexChecked, Verified, MatchesTree
    <3>3. <<"member", m>> \in Reviewable
      BY <2>1, <3>1 DEF Reviewable
    <3>4. QED  BY <2>2, <3>1, <3>2, <3>3
  <2>6. ASSUME NEW m \in Workspace, NEW e \in cargo.deps[m]
        PROVE  /\ Resolve(e) # {}
               /\ Resolve(e) \subseteq Known \cup {registry}
               /\ <<"dependency", m, e>> \notin open
    <3>1. m \in Indexed
      BY <2>5
    <3>2. Resolve(e) # {}
      BY <2>3, <3>1 DEF GapsOf
    <3>3. Paths(m) \subseteq Known
      BY <2>3, <3>1 DEF GapsOf
    <3>4. Resolve(e) \subseteq Known \cup {registry}
      BY <3>3 DEF Paths
    <3>5. <<"dependency", m, e>> \in Reviewable
      BY <2>1, <3>1, <3>2 DEF Reviewable
    <3>6. QED  BY <2>2, <3>2, <3>4, <3>5
  <2>7. ASSUME NEW p \in tree.paths \ Workspace, p # root, ~Excluded(p)
        PROVE  <<"excluded", p>> \notin open
    <3>1. <<"excluded", p>> \in Reviewable
      BY <2>1, <2>7 DEF Reviewable, Known
    <3>2. QED  BY <2>2, <3>1
  <2>8. QED  BY <2>5, <2>6, <2>7
<1>2. QED
  BY <1>1, LoopInvInit, LoopInvNext, ReviewInvInit, ReviewInvNext,
     ClosureCorrect, PTL DEF CargoSpec

-----------------------------------------------------------------------------
\* What an audit reads and concludes has its type; the members it collects are
\* manifests (scan_rust_parity.py:66-149).
THEOREM CargoTypeCorrect == CargoSpec => []CargoTypeOK
<1>1. CargoInit => CargoTypeOK
  BY DEF CargoInit, CargoInput, CargoStart, CargoTypeOK
<1>2. CargoTypeOK /\ LoopInv /\ LoopInv' /\ [CargoNext]_cargoVars => CargoTypeOK'
  <2> SUFFICES ASSUME CargoTypeOK, LoopInv, LoopInv', [CargoNext]_cargoVars
               PROVE  CargoTypeOK'
    OBVIOUS
  <2>1. UNCHANGED input
    BY DEF CargoNext, cargoVars, CheckIndex, SelectMembers, Process, Gate
  <2>2. UNCHANGED <<rows, tree, cargo, open>>
    BY <2>1 DEF input
  <2>3. members' \subseteq Manifests /\ processed' \subseteq Manifests
    BY DEF LoopInv, Found, Looked, Workspace
  <2>4. pc' \in {pc, "members", "refused", "closure", "classified", "incomplete"}
    BY DEF CargoNext, cargoVars, CheckIndex, SelectMembers, Process, Gate
  <2>5. QED  BY <2>2, <2>3, <2>4 DEF CargoTypeOK, Verdict
<1>3. QED  BY <1>1, <1>2, LoopInvInit, LoopInvNext, PTL DEF CargoSpec

-----------------------------------------------------------------------------
(* SwiftEvidence *)

Consistent == "evidence-consistent-scoped-consumer"

(***************************************************************************)
(* A job that nothing was edited during works on one checkout: while it is *)
(* busy, everything it recorded was done on the files that are there, and  *)
(* later all of it was done on the files of its export. So an export's     *)
(* receipt speaks for such a job; of any job it says what the export left. *)
(***************************************************************************)
Numbered ==
  /\ run \in Nat
  /\ \A r \in receipts : r.run_id \in 1..run
  /\ disturbed \subseteq 1..run

AtWork ==
  /\ source \in Sources
  /\ busy => run # 0 /\ emitted # NoFiles /\ emitted.from \in Sources

OnThisCheckout ==
  busy /\ run \notin disturbed =>
    \A r \in receipts : r.run_id = run => r.source = source /\ r.emitted = emitted

OneCheckout ==
  \A g, r \in receipts :
    g.run_id = r.run_id /\ g.run_id \notin disturbed => g.source = r.source /\ g.emitted = r.emitted

\* An export that succeeds leaves all files of the source it ran on.
Exports ==
  \A g \in receipts :
    g.of = "export" /\ g.exit_code = 0 =>
      /\ g.emitted = [from |-> g.source, intact |-> TRUE]
      /\ g.sha256.strict

\* What a scan accepted is still there.
Judged ==
  status = Consistent =>
    \E g \in receipts \ Commands, evidence \in SUBSET Commands, tools \in Toolchains :
      Accepted(g, evidence, tools)

EvidenceInv == Numbered /\ AtWork /\ OnThisCheckout /\ OneCheckout /\ Exports /\ Judged

LEMMA EvidenceInvInit == EvidenceInit => EvidenceInv
BY DEF EvidenceInit, EvidenceInv, Numbered, AtWork, OnThisCheckout, OneCheckout, Exports,
       Judged, Consistent

\* One more receipt of the job at work, or of a new one.
LEMMA RecordKeeps ==
  ASSUME Numbered, OneCheckout, Exports, run' \in {run, run + 1},
         NEW rec, receipts' = receipts \cup {rec},
         rec.run_id = run', rec.source = source, rec.emitted = emitted',
         source' = source, disturbed' = disturbed,
         run' = run => busy /\ OnThisCheckout /\ emitted' = emitted,
         rec.of = "export" /\ rec.exit_code = 0 =>
           /\ rec.emitted = [from |-> rec.source, intact |-> TRUE]
           /\ rec.sha256.strict,
         run' \in 1..run'
  PROVE  Numbered' /\ OnThisCheckout' /\ OneCheckout' /\ Exports'
<1>1. Numbered'
  BY DEF Numbered
<1>2. run' \notin disturbed =>
        \A r \in receipts : r.run_id = run' => r.source = source /\ r.emitted = emitted'
  <2>1. CASE run' = run
    BY <2>1 DEF OnThisCheckout
  <2>2. CASE run' = run + 1
    BY <2>2 DEF Numbered
  <2>3. QED  BY <2>1, <2>2
<1>3. OnThisCheckout'
  BY <1>2 DEF OnThisCheckout
<1>4. OneCheckout'
  BY <1>2 DEF OneCheckout
<1>5. Exports'
  BY DEF Exports
<1>6. QED  BY <1>1, <1>3, <1>4, <1>5

\* An edit disturbs the job at work, or there is none.
LEMMA DisturbKeeps ==
  ASSUME Numbered, AtWork, OneCheckout, Exports, Disturb, UNCHANGED <<run, busy, receipts>>
  PROVE  Numbered' /\ OnThisCheckout' /\ OneCheckout' /\ Exports'
<1>1. disturbed \subseteq disturbed' /\ disturbed' \subseteq disturbed \cup {run}
  BY DEF Disturb
<1>2. busy => run \in disturbed' /\ run \in 1..run
  BY DEF Disturb, Numbered, AtWork
<1>3. Numbered'
  BY <1>1, <1>2 DEF Numbered, Disturb
<1>4. OnThisCheckout'
  BY <1>2 DEF OnThisCheckout
<1>5. OneCheckout'
  BY <1>1 DEF OneCheckout
<1>6. QED  BY <1>3, <1>4, <1>5 DEF Exports

LEMMA EvidenceInvNext ==
  EvidenceInv /\ [EvidenceNext]_evidenceVars => EvidenceInv'
<1> SUFFICES ASSUME EvidenceInv, [EvidenceNext]_evidenceVars PROVE EvidenceInv'
  OBVIOUS
<1>1. ASSUME NEW code \in {0, 1}, Export(code) PROVE EvidenceInv'
  <2> DEFINE rec == [of |-> "export", run_id |-> run', exit_code |-> code,
                     sha256 |-> [run |-> run', of |-> "export", strict |-> TRUE],
                     source |-> source, emitted |-> emitted']
  <2>1. /\ receipts' = receipts \cup {rec} /\ run' = run + 1 /\ source' = source
        /\ disturbed' = disturbed
    BY <1>1 DEF Export, Record
  <2>2. emitted' = [from |-> source, intact |-> code = 0] /\ status' = "none"
    BY <1>1 DEF Export
  <2>3. Judged'
    BY <2>2 DEF Judged, Consistent
  <2>4. run' # run /\ run' \in 1..run'
    BY <2>1 DEF EvidenceInv, Numbered
  <2>5. code = 0 => rec.emitted = [from |-> rec.source, intact |-> TRUE]
    BY <2>2
  <2> HIDE DEF rec
  <2>6. Numbered' /\ OnThisCheckout' /\ OneCheckout' /\ Exports'
    <3>1. /\ rec.run_id = run' /\ rec.source = source /\ rec.emitted = emitted'
          /\ rec.exit_code = code /\ rec.sha256.strict
      BY DEF rec
    <3>2. run' \in {run, run + 1} /\ (run' = run => FALSE)
      BY <2>1, <2>4
    <3>3. QED  BY <2>1, <2>4, <2>5, <3>1, <3>2, RecordKeeps DEF EvidenceInv
  <2>7. AtWork'
    BY <2>1, <2>2, <2>4 DEF EvidenceInv, AtWork, Numbered, NoFiles
  <2>8. QED  BY <2>3, <2>6, <2>7 DEF EvidenceInv
<1>2. ASSUME NEW p \in Logs, NEW code \in {0, 1}, NEW strict \in BOOLEAN,
             Command(p, code, strict)
      PROVE  EvidenceInv'
  <2> DEFINE rec == [of |-> p, run_id |-> run', exit_code |-> code,
                     sha256 |-> [run |-> run', of |-> p, strict |-> strict],
                     source |-> source, emitted |-> emitted]
  <2>1. receipts' = receipts \cup {rec} /\ run' = run /\ busy
        /\ UNCHANGED <<source, emitted, disturbed>> /\ status' = "none"
    BY <1>2 DEF Command, Record
  <2>2. Judged'
    BY <2>1 DEF Judged, Consistent
  <2>3. p # "export"
    BY <1>2, <2>1, ModulesAssumption DEF Command, EvidenceInv, AtWork
  <2>4. run' \in 1..run'
    BY <2>1 DEF EvidenceInv, Numbered, AtWork
  <2>5. run' \in {run, run + 1} /\ rec.of # "export"
    BY <2>1, <2>3
  <2>6. rec.run_id = run' /\ rec.source = source /\ rec.emitted = emitted'
    BY <2>1
  <2>7. Numbered' /\ OnThisCheckout' /\ OneCheckout' /\ Exports'
    BY <2>1, <2>4, <2>5, <2>6, RecordKeeps DEF EvidenceInv
  <2>8. AtWork'
    BY <2>1 DEF EvidenceInv, AtWork
  <2>9. QED  BY <2>2, <2>7, <2>8 DEF EvidenceInv
<1>3. ASSUME NEW s \in Sources, EditSource(s) PROVE EvidenceInv'
  <2>1. source' = s /\ Disturb /\ status' = "none" /\ UNCHANGED <<emitted, run, busy, receipts>>
    BY <1>3 DEF EditSource
  <2>2. AtWork'
    BY <2>1 DEF EvidenceInv, AtWork
  <2>3. Numbered' /\ OnThisCheckout' /\ OneCheckout' /\ Exports'
    BY <2>1, DisturbKeeps DEF EvidenceInv
  <2>4. QED  BY <2>1, <2>2, <2>3 DEF EvidenceInv, Judged, Consistent
<1>4. CASE EditEmitted
  <2>1. /\ Disturb /\ status' = "none" /\ UNCHANGED <<source, run, busy, receipts>>
        /\ emitted' = [from |-> emitted.from, intact |-> ~emitted.intact]
    BY <1>4 DEF EditEmitted
  <2>2. emitted' # NoFiles /\ emitted'.from = emitted.from
    BY <2>1 DEF NoFiles
  <2>3. AtWork'
    BY <2>1, <2>2 DEF EvidenceInv, AtWork
  <2>4. Numbered' /\ OnThisCheckout' /\ OneCheckout' /\ Exports'
    BY <2>1, DisturbKeeps DEF EvidenceInv
  <2>5. QED  BY <2>1, <2>3, <2>4 DEF EvidenceInv, Judged, Consistent
<1>5. CASE Scan
  <2>1. UNCHANGED <<source, emitted, run, busy, logs, receipts, disturbed>>
    BY <1>5 DEF Scan
  <2>2. PICK g \in receipts \ Commands, evidence \in SUBSET Commands, tools \in Toolchains :
          status' = IF Accepted(g, evidence, tools) THEN Consistent ELSE "unverified"
    BY <1>5 DEF Scan, StatusOf, Consistent
  <2>3. Judged'
    <3> SUFFICES ASSUME status' = Consistent
                 PROVE  (\E h \in receipts \ Commands, e \in SUBSET Commands, t \in Toolchains :
                           Accepted(h, e, t))'
      BY DEF Judged
    <3>1. Accepted(g, evidence, tools)
      BY <2>2 DEF Consistent
    <3>2. Commands' = Commands /\ Toolchains' = Toolchains /\ Accepted(g, evidence, tools)'
      BY <2>1, <3>1 DEF Commands, Toolchains, Accepted, GenerationValid, Belongs, Fresh, Modules
    <3>3. QED  BY <2>1, <2>2, <3>2
  <2>4. QED
    BY <2>1, <2>3 DEF EvidenceInv, Numbered, AtWork, OnThisCheckout, OneCheckout, Exports
<1>6. CASE UNCHANGED evidenceVars
  <2>1. UNCHANGED <<source, emitted, run, busy, logs, receipts, disturbed, status>>
    BY <1>6 DEF evidenceVars
  <2>2. Judged'
    <3> SUFFICES ASSUME status' = Consistent
                 PROVE  (\E h \in receipts \ Commands, e \in SUBSET Commands, t \in Toolchains :
                           Accepted(h, e, t))'
      BY DEF Judged
    <3>1. PICK g \in receipts \ Commands, evidence \in SUBSET Commands, tools \in Toolchains :
            Accepted(g, evidence, tools)
      BY <2>1 DEF EvidenceInv, Judged
    <3>2. Commands' = Commands /\ Toolchains' = Toolchains /\ Accepted(g, evidence, tools)'
      BY <2>1, <3>1 DEF Commands, Toolchains, Accepted, GenerationValid, Belongs, Fresh, Modules
    <3>3. QED  BY <2>1, <3>1, <3>2
  <2>3. QED
    BY <2>1, <2>2 DEF EvidenceInv, Numbered, AtWork, OnThisCheckout, OneCheckout, Exports
<1>7. QED  BY <1>1, <1>2, <1>3, <1>4, <1>5, <1>6 DEF EvidenceNext

\* One more log and receipt of a job are of the types of the others.
LEMMA RecordTyped ==
  ASSUME EvidenceTypeOK, NEW p \in Logs, NEW code \in {0, 1}, NEW strict \in BOOLEAN,
         NEW files \in Emitted, run' \in 1..MaxRun, Record(p, code, strict, files)
  PROVE  /\ \A q \in DOMAIN logs' : q \in Logs /\ logs'[q] \in LogContent
         /\ receipts' \subseteq Receipt
<1> DEFINE content == [run |-> run', of |-> p, strict |-> strict]
           rec == [of |-> p, run_id |-> run', exit_code |-> code, sha256 |-> content,
                   source |-> source, emitted |-> files]
<1>1. content \in LogContent
  BY DEF LogContent
<1>2. source \in Sources
  BY DEF EvidenceTypeOK
<1> HIDE DEF content
<1>3. rec \in Receipt
  BY <1>1, <1>2 DEF Receipt
<1> HIDE DEF rec
<1>4. receipts' = receipts \cup {rec}
  BY DEF Record, rec, content
<1>5. logs' = [q \in DOMAIN logs \cup {p} |-> IF q = p THEN content ELSE logs[q]]
  BY DEF Record, content
<1>6. \A q \in DOMAIN logs : q \in Logs /\ logs[q] \in LogContent
  BY DEF EvidenceTypeOK
<1>7. ASSUME NEW q \in DOMAIN logs' PROVE q \in Logs /\ logs'[q] \in LogContent
  <2>1. q \in DOMAIN logs \cup {p}
    BY <1>5, <1>7
  <2>2. logs'[q] = IF q = p THEN content ELSE logs[q]
    BY <1>5, <2>1
  <2>3. QED  BY <1>1, <1>6, <2>1, <2>2
<1>8. QED  BY <1>3, <1>4, <1>7 DEF EvidenceTypeOK

\* An edit is counted, and the job it disturbs is one there was.
LEMMA DisturbTyped ==
  ASSUME EvidenceInv, EvidenceTypeOK, Disturb
  PROVE  changes' \in 0..MaxChanges /\ disturbed' \subseteq 1..MaxRun
<1>1. busy => run \in 1..MaxRun
  BY MaxRunAssumption DEF EvidenceInv, AtWork, EvidenceTypeOK
<1>2. changes' \in 0..MaxChanges
  BY MaxRunAssumption DEF Disturb, EvidenceTypeOK
<1>3. QED  BY <1>1, <1>2 DEF Disturb, EvidenceTypeOK

\* Logs and receipts are of commands that jobs run, and every one of them is of
\* a job there was (scan_swift.py:102-158).
THEOREM EvidenceTypeCorrect == EvidenceSpec => []EvidenceTypeOK
<1>1. EvidenceInit => EvidenceTypeOK
  <2> SUFFICES ASSUME EvidenceInit PROVE EvidenceTypeOK
    OBVIOUS
  <2>1. DOMAIN logs = {}
    BY DEF EvidenceInit
  <2>2. run \in 0..MaxRun /\ changes \in 0..MaxChanges
    BY MaxRunAssumption DEF EvidenceInit
  <2>3. QED  BY <2>1, <2>2 DEF EvidenceInit, EvidenceTypeOK
<1>2. EvidenceInv /\ EvidenceTypeOK /\ [EvidenceNext]_evidenceVars => EvidenceTypeOK'
  <2> SUFFICES ASSUME EvidenceInv, EvidenceTypeOK, [EvidenceNext]_evidenceVars
               PROVE  EvidenceTypeOK'
    OBVIOUS
  <2>1. ASSUME NEW code \in {0, 1}, Export(code) PROVE EvidenceTypeOK'
    <3>1. run' \in 1..MaxRun
      BY <2>1, MaxRunAssumption DEF Export, EvidenceTypeOK
    <3>2. emitted' \in Emitted
      BY <2>1 DEF Export, EvidenceTypeOK, Emitted
    <3>3. Record("export", code, TRUE, emitted')
      BY <2>1 DEF Export
    <3>4. "export" \in Logs
      BY DEF Logs
    <3>5. /\ \A q \in DOMAIN logs' : q \in Logs /\ logs'[q] \in LogContent
          /\ receipts' \subseteq Receipt
      BY <3>1, <3>2, <3>3, <3>4, RecordTyped
    <3>6. QED  BY <2>1, <3>1, <3>2, <3>5, MaxRunAssumption DEF Export, EvidenceTypeOK
  <2>2. ASSUME NEW p \in Logs, NEW code \in {0, 1}, NEW strict \in BOOLEAN,
               Command(p, code, strict)
        PROVE  EvidenceTypeOK'
    <3>1. run' = run /\ busy /\ busy' = (code = 0 /\ p # "tests") /\ status' = "none"
          /\ UNCHANGED <<source, emitted, changes, disturbed>> /\ Record(p, code, strict, emitted)
      BY <2>2 DEF Command
    <3>2. run' \in 1..MaxRun
      BY <3>1, MaxRunAssumption DEF EvidenceInv, AtWork, EvidenceTypeOK
    <3>3. emitted \in Emitted
      BY <3>1 DEF EvidenceInv, AtWork, EvidenceTypeOK, NoFiles
    <3>4. /\ \A q \in DOMAIN logs' : q \in Logs /\ logs'[q] \in LogContent
          /\ receipts' \subseteq Receipt
      BY <3>1, <3>2, <3>3, RecordTyped
    <3>5. QED  BY <3>1, <3>4 DEF EvidenceTypeOK
  <2>3. ASSUME NEW s \in Sources, EditSource(s) PROVE EvidenceTypeOK'
    <3>1. changes' \in 0..MaxChanges /\ disturbed' \subseteq 1..MaxRun
      BY <2>3, DisturbTyped DEF EditSource
    <3>2. QED  BY <2>3, <3>1 DEF EditSource, EvidenceTypeOK
  <2>4. CASE EditEmitted
    <3>1. changes' \in 0..MaxChanges /\ disturbed' \subseteq 1..MaxRun
      BY <2>4, DisturbTyped DEF EditEmitted
    <3>2. emitted' \in Emitted
      BY <2>4 DEF EditEmitted, EvidenceTypeOK, Emitted, NoFiles
    <3>3. QED  BY <2>4, <3>1, <3>2 DEF EditEmitted, EvidenceTypeOK
  <2>5. CASE Scan
    BY <2>5 DEF Scan, StatusOf, EvidenceTypeOK
  <2>6. CASE UNCHANGED evidenceVars
    BY <2>6 DEF evidenceVars, EvidenceTypeOK
  <2>7. QED  BY <2>1, <2>2, <2>3, <2>4, <2>5, <2>6 DEF EvidenceNext
<1>3. QED  BY <1>1, <1>2, EvidenceInvInit, EvidenceInvNext, PTL DEF EvidenceSpec

\* Accepted evidence is about the source and the generated files that are
\* there now, and all of it comes from one job, which worked on just those
\* unless something was edited while it was on (scan_swift.py:102-158).
THEOREM AcceptanceCorrect == EvidenceSpec => []AcceptedIsCurrent
<1>1. EvidenceInv => AcceptedIsCurrent
  <2> SUFFICES ASSUME EvidenceInv, status = Consistent
               PROVE  AcceptedIsCurrent
    BY DEF AcceptedIsCurrent, Consistent
  <2>1. PICK g \in receipts \ Commands, evidence \in SUBSET Commands, tools \in Toolchains :
          Accepted(g, evidence, tools)
    BY DEF EvidenceInv, Judged
  <2> DEFINE good == {r \in receipts : r.run_id = g.run_id /\ r.exit_code = 0 /\ r.sha256.strict}
  <2>2. g \in receipts /\ g.of = "export" /\ evidence \subseteq receipts
    BY DEF Commands
  <2>3. g.exit_code = 0 /\ g.source = source /\ g.emitted = emitted
    BY <2>1 DEF Accepted, GenerationValid
  <2>4. g.run_id \in 1..run
    BY <2>2 DEF EvidenceInv, Numbered
  <2>5. emitted = [from |-> source, intact |-> TRUE] /\ g \in good
    BY <2>2, <2>3 DEF EvidenceInv, Exports
  <2>6. {q \in evidence : q.sha256.strict} \subseteq good
    <3>1. \A r \in evidence : r.run_id = g.run_id /\ r.exit_code = 0
      BY <2>1 DEF Accepted, Belongs
    <3>2. QED  BY <2>2, <3>1
  <2>7. Modules = ModulesOf[source]
    <3>1. emitted # NoFiles
      BY <2>1 DEF Accepted, Modules
    <3>2. QED  BY <2>5, <3>1 DEF Modules
  <2>8. ModulesOf[source] \cup {consumer} \subseteq {r.of : r \in good}
    <3>1. ModulesOf[source] \cup {consumer} \subseteq {r.of : r \in {q \in evidence : q.sha256.strict}}
      BY <2>1, <2>7 DEF Accepted
    <3>2. QED  BY <2>6, <3>1
  <2>9. "tests" \in {r.of : r \in good}
    <3>1. PICK r \in evidence : r.of = "tests" /\ r.sha256.strict
      BY <2>1 DEF Accepted
    <3>2. QED  BY <2>6, <3>1
  <2>10. "export" \in {r.of : r \in good}
    BY <2>2, <2>5
  <2>11. ModulesOf[source] \cup {consumer, "export", "tests"} \subseteq {r.of : r \in good}
    BY <2>8, <2>9, <2>10
  <2>12. g.run_id \notin disturbed => \A r \in good : r.source = source /\ r.emitted = emitted
    BY <2>2, <2>3 DEF EvidenceInv, OneCheckout
  <2>13. QED  BY <2>2, <2>3, <2>4, <2>5, <2>11, <2>12 DEF AcceptedIsCurrent
<1>2. QED  BY <1>1, EvidenceInvInit, EvidenceInvNext, PTL DEF EvidenceSpec

-----------------------------------------------------------------------------
(* StagedPublication *)

Typed ==
  /\ at \in Nat
  /\ staged = [f \in Files |-> staged[f]]
  /\ seen = [f \in Files |-> seen[f]]
  /\ receipt = [f \in Files |-> receipt[f]]
  /\ foreign \subseteq Files

\* Nothing is looked at before both publications are staged.
Begun ==
  at # 0 \/ zip # Nothing \/ bundle # Nothing \/ payload # none => written = Files

Requested == at # 0 => Declarable

\* What the check of the pins has read is as it is there, and good.
ReadSoFar ==
  foreign = {} =>
    \A i \in DOMAIN Reads : i < at =>
      /\ seen[Reads[i]] = staged[Reads[i]]
      /\ staged[Reads[i]] # none
      /\ Good(Reads[i], staged)

PrintedSoFar ==
  \A i \in DOMAIN Prints : Len(Reads) + i < at /\ Prints[i] \notin foreign =>
    receipt[Prints[i]] = staged[Prints[i]]

Agrees(copy) == \A f \in Files \ foreign : copy[f] = staged[f]

Zipped == zip # Nothing => Agrees(zip)

Attested == payload # none => /\ zip # Nothing
                              /\ payload = zip["aar"]
                              /\ AndroidVerified(zip)

Bundled == bundle # Nothing => PinsPassed /\ Agrees(bundle)

Uploaded == build = "uploaded" => bundle # Nothing /\ payload # none

StagingInv ==
  /\ Typed /\ Begun /\ Requested /\ ReadSoFar /\ PrintedSoFar
  /\ Zipped /\ Attested /\ Bundled /\ Uploaded /\ RefusedForCause

-----------------------------------------------------------------------------
\* The two checks together are the reference.

LEMMA ReadsOrder ==
  /\ DOMAIN Reads = 1..6 /\ Len(Reads) = 6
  /\ Reads[1] = "root_module" /\ Reads[2] = "android_module" /\ Reads[3] = "aar"
  /\ Reads[4] = "aar" /\ Reads[5] = "root_pom" /\ Reads[6] = "android_pom"
BY DEF Reads

LEMMA PrintsOrder ==
  /\ DOMAIN Prints = 1..4 /\ Len(Prints) = 4
  /\ \A i \in DOMAIN Prints : Prints[i] \in Files
BY DEF Prints, Files

LEMMA PinnedExactly ==
  ASSUME NEW edges, NEW d \in Deps, Pinned(edges, TRUE)
  PROVE  edges[d] = <<asked.expected[d]>>
BY DEF Pinned

LEMMA ExactlyPinned ==
  ASSUME NEW edges, \A d \in Deps : edges[d] = <<asked.expected[d]>>
  PROVE  Pinned(edges, TRUE)
<1>1. \A d \in Deps : <<asked.expected[d]>> # <<>>
  OBVIOUS
<1>2. QED  BY <1>1 DEF Pinned

LEMMA GoodIsRight ==
  ASSUME NEW p, \A f \in Files : p[f] # none /\ Good(f, p), AndroidVerified(p)
  PROVE  Right(p)
<1>1. RightFile("root_module", p["root_module"], p["aar"])
  BY PinnedExactly, ZenonT(60) DEF Files, Good, RightFile
<1>2. RightFile("android_module", p["android_module"], p["aar"])
  <2> DEFINE c == p["android_module"]
  <2>1. c # none /\ c.owner /\ c.rootUrl /\ DOMAIN c.variants = Usages
    BY DEF Files, Good
  <2>2. \A u \in Usages : Pinned(c.variants[u], u = "java-runtime")
    BY DEF Files, Good
  <2>3. c.aar = p["aar"]
    BY DEF Files, Good
  <2>4. \A d \in Deps : c.variants["java-runtime"][d] = <<asked.expected[d]>>
    BY <2>2, PinnedExactly DEF Usages
  <2>5. \A d \in Deps : c.variants["java-api"][d] \in {<<>>, <<asked.expected[d]>>}
    BY <2>2 DEF Usages, Pinned
  <2>6. \A d \in Api : c.variants["java-api"][d] # <<>>
    BY DEF AndroidVerified, Usages
  <2>7. QED  BY <2>1, <2>3, <2>4, <2>5, <2>6 DEF RightFile
<1>3. RightFile("aar", p["aar"], p["aar"])
  BY DEF Files, AndroidVerified, RightFile
<1>4. RightFile("root_pom", p["root_pom"], p["aar"])
  <2> DEFINE c == p["root_pom"]
  <2>1. c # none /\ c.owner /\ Pinned([d \in Deps |-> c.pins[d]], TRUE)
    BY DEF Files, Good, PomArtifact
  <2>2. \A d \in Deps : c.pins[d] = <<asked.expected[d]>>
    BY <2>1 DEF Pinned
  <2>3. QED  BY <2>1, <2>2 DEF RightFile
<1>5. RightFile("android_pom", p["android_pom"], p["aar"])
  <2> DEFINE c == p["android_pom"]
  <2>1. c # none /\ c.owner /\ Pinned([d \in Deps |-> c.pins[asked.pomName[d]]], TRUE)
    BY DEF Files, Good, PomArtifact
  <2>2. \A d \in Deps : c.pins[asked.pomName[d]] = <<asked.expected[d]>>
    BY <2>1 DEF Pinned
  <2>3. \A d \in Api : asked.apiName[d] \in c.compile
    BY DEF AndroidVerified
  <2>4. QED  BY <2>1, <2>2, <2>3 DEF RightFile
<1>6. QED  BY <1>1, <1>2, <1>3, <1>4, <1>5 DEF Right, Files

LEMMA RightIsGood ==
  ASSUME NEW p, Right(p)
  PROVE  /\ \A f \in Files : p[f] # none /\ Good(f, p)
         /\ AndroidVerified(p)
<1>1. \A f \in Files : p[f] # none
  BY DEF Right, RightFile
<1>2. RightFile("root_module", p["root_module"], p["aar"])
  BY DEF Right, Files
<1>3. RightFile("android_module", p["android_module"], p["aar"])
  BY DEF Right, Files
<1>4. RightFile("aar", p["aar"], p["aar"])
  BY DEF Right, Files
<1>5. RightFile("root_pom", p["root_pom"], p["aar"])
  BY DEF Right, Files
<1>6. RightFile("android_pom", p["android_pom"], p["aar"])
  BY DEF Right, Files
<1>7. Good("root_module", p)
  BY <1>2, ExactlyPinned DEF RightFile, Good
<1>8. Good("android_module", p)
  <2> DEFINE c == p["android_module"]
  <2>1. c.owner /\ c.rootUrl /\ DOMAIN c.variants = Usages
    BY <1>3 DEF RightFile
  <2>2. Pinned(c.variants["java-runtime"], TRUE)
    BY <1>3, ExactlyPinned DEF RightFile
  <2>3. Pinned(c.variants["java-api"], FALSE)
    BY <1>3 DEF RightFile, Pinned
  <2>4. \A u \in Usages : Pinned(c.variants[u], u = "java-runtime")
    BY <2>2, <2>3 DEF Usages, Pinned
  <2>5. QED  BY <2>1, <2>4 DEF Good
<1>9. Good("aar", p)
  BY <1>3 DEF RightFile, Good
<1>10. Good("root_pom", p)
  <2> DEFINE pins == [d \in Deps |-> p["root_pom"].pins[d]]
  <2>1. \A d \in Deps : pins[d] = <<asked.expected[d]>>
    BY <1>5 DEF RightFile
  <2>2. Pinned(pins, TRUE)
    BY <2>1, ExactlyPinned
  <2>3. QED  BY <1>5, <2>2 DEF RightFile, Good, PomArtifact
<1>11. Good("android_pom", p)
  <2> DEFINE pins == [d \in Deps |-> p["android_pom"].pins[asked.pomName[d]]]
  <2>1. \A d \in Deps : pins[d] = <<asked.expected[d]>>
    BY <1>6 DEF RightFile
  <2>2. Pinned(pins, TRUE)
    BY <2>1, ExactlyPinned
  <2>3. QED  BY <1>6, <2>2 DEF RightFile, Good, PomArtifact
<1>12. \A u \in Usages, d \in Api : p["android_module"].variants[u][d] # <<>>
  BY <1>3, PublicationAssumption DEF RightFile, Usages
<1>13. AndroidVerified(p)
  BY <1>1, <1>2, <1>3, <1>4, <1>6, <1>12 DEF RightFile, AndroidVerified, Files
<1>14. QED  BY <1>1, <1>7, <1>8, <1>9, <1>10, <1>11, <1>13 DEF Files

\* Copies that agree are judged alike.
LEMMA GoodSame ==
  ASSUME NEW p, NEW q, NEW f, p[f] = q[f],
         f = "aar" => p["android_module"] = q["android_module"]
  PROVE  Good(f, p) = Good(f, q)
BY DEF Good

LEMMA RightSame ==
  ASSUME NEW p, NEW q, \A f \in Files : p[f] = q[f]
  PROVE  Right(p) = Right(q) /\ AndroidVerified(p) = AndroidVerified(q)
<1>1. Right(p) = Right(q)
  BY DEF Right, Files
<1>2. AndroidVerified(p) = AndroidVerified(q)
  BY DEF AndroidVerified, Files
<1>3. QED  BY <1>1, <1>2

\* The judgements of a copy depend on nothing but the copy and the arguments.
LEMMA SameArguments ==
  ASSUME asked' = asked
  PROVE  /\ Declarable' = Declarable
         /\ \A f \in Files : (\A g \in Files : staged'[g] = staged[g]) =>
              Good(f, staged)' = Good(f, staged)
         /\ zip' = zip => AndroidVerified(zip)' = AndroidVerified(zip)
         /\ staged' = staged => Right(staged)' = Right(staged)
<1>1. Declarable' = Declarable
  BY DEF Declarable
<1>2. ASSUME NEW f \in Files, \A g \in Files : staged'[g] = staged[g]
      PROVE  Good(f, staged)' = Good(f, staged)
  <2>1. staged'[f] = staged[f] /\ staged'["android_module"] = staged["android_module"]
    BY <1>2 DEF Files
  <2>2. QED  BY <2>1 DEF Good, Pinned, PomArtifact
<1>3. ASSUME zip' = zip PROVE AndroidVerified(zip)' = AndroidVerified(zip)
  BY <1>3 DEF AndroidVerified
<1>4. ASSUME staged' = staged PROVE Right(staged)' = Right(staged)
  BY <1>4 DEF Right, RightFile
<1>5. QED  BY <1>1, <1>2, <1>3, <1>4

-----------------------------------------------------------------------------
\* The invariant.

LEMMA StagingInvInit == StagingInit => StagingInv
<1> SUFFICES ASSUME StagingInit PROVE StagingInv
  OBVIOUS
<1>1. Typed
  BY DEF StagingInit, Typed, Nothing
<1>2. ReadSoFar /\ PrintedSoFar
  BY ReadsOrder, PrintsOrder DEF StagingInit, ReadSoFar, PrintedSoFar
<1>3. QED
  BY <1>1, <1>2 DEF StagingInit, StagingInv, Begun, Requested, Zipped, Attested,
                    Bundled, Uploaded, RefusedForCause

\* Whatever happens to files that others have staged, what was made of the
\* rest remains true of them.
LEMMA CopiesKept ==
  ASSUME StagingInv, asked' = asked, foreign \subseteq foreign', foreign' \subseteq Files,
         \A f \in Files \ foreign' : staged'[f] = staged[f]
  PROVE  /\ UNCHANGED <<at, seen>> => ReadSoFar'
         /\ UNCHANGED <<at, receipt>> => PrintedSoFar'
         /\ UNCHANGED zip => Zipped'
         /\ UNCHANGED <<zip, payload>> => Attested'
         /\ UNCHANGED bundle /\ (PinsPassed => PinsPassed') => Bundled'
<1>1. ASSUME UNCHANGED <<at, seen>>, foreign' = {},
             NEW i \in DOMAIN Reads, i < at'
      PROVE  /\ seen'[Reads[i]] = staged'[Reads[i]]
             /\ staged'[Reads[i]] # none
             /\ Good(Reads[i], staged)'
  <2>1. Reads[i] \in Files
    BY ReadsOrder DEF Files
  <2>2. foreign = {} /\ \A g \in Files : staged'[g] = staged[g]
    BY <1>1
  <2>3. /\ seen[Reads[i]] = staged[Reads[i]]
        /\ staged[Reads[i]] # none
        /\ Good(Reads[i], staged)
    BY <1>1, <2>2 DEF StagingInv, ReadSoFar
  <2>4. Good(Reads[i], staged)' = Good(Reads[i], staged)
    BY <2>1, <2>2, SameArguments
  <2>5. QED  BY <1>1, <2>1, <2>2, <2>3, <2>4
<1>2. UNCHANGED <<at, seen>> => ReadSoFar'
  BY <1>1 DEF ReadSoFar
<1>3. UNCHANGED <<at, receipt>> => PrintedSoFar'
  BY PrintsOrder DEF StagingInv, PrintedSoFar
<1>4. UNCHANGED zip => Zipped'
  BY DEF StagingInv, Zipped, Agrees
<1>5. UNCHANGED <<zip, payload>> => Attested'
  BY SameArguments DEF StagingInv, Attested
<1>6. UNCHANGED bundle /\ (PinsPassed => PinsPassed') => Bundled'
  BY DEF StagingInv, Bundled, Agrees
<1>7. QED  BY <1>2, <1>3, <1>4, <1>5, <1>6

\* A check that fails has a reason.
LEMMA FailKeeps ==
  ASSUME StagingInv, Fail, UNCHANGED <<asked, staged, written, zip, bundle, foreign>>,
         foreign = {} => ~Declarable \/ ~Right(staged)
  PROVE  StagingInv'
<1>1. ReadSoFar' /\ PrintedSoFar' /\ Zipped' /\ Attested' /\ Bundled'
  BY CopiesKept DEF StagingInv, Typed, Fail, PinsPassed
<1>2. RefusedForCause'
  BY SameArguments DEF RefusedForCause
<1>3. Typed' /\ Begun' /\ Uploaded'
  BY DEF StagingInv, Typed, Begun, Uploaded, Fail
<1>4. Requested'
  BY SameArguments DEF StagingInv, Requested, Fail
<1>5. QED  BY <1>1, <1>2, <1>3, <1>4 DEF StagingInv

LEMMA StageKeeps ==
  ASSUME StagingInv, NEW published \in Published, Stage(published)
  PROVE  StagingInv'
<1>1. asked' = asked /\ UNCHANGED <<at, seen, receipt, zip, payload, bundle, build, foreign>>
  BY DEF Stage
<1>2. staged' = [f \in Files |-> IF f \in DOMAIN published THEN published[f] ELSE staged[f]]
  BY DEF Stage
<1>3. Typed' /\ Uploaded' /\ RefusedForCause'
  BY <1>1, <1>2 DEF StagingInv, Typed, Uploaded, RefusedForCause, Stage, Running
<1>4. Requested'
  BY <1>1, SameArguments DEF StagingInv, Requested
<1>5. CASE written = Files
  <2>1. DOMAIN published = {}
    BY <1>5, PublishedAssumption DEF Stage
  <2>2. written' = written /\ \A f \in Files : staged'[f] = staged[f]
    BY <1>2, <2>1 DEF Stage
  <2>3. ReadSoFar' /\ PrintedSoFar' /\ Zipped' /\ Attested' /\ Bundled'
    BY <1>1, <2>2, CopiesKept DEF StagingInv, Typed, PinsPassed
  <2>4. QED  BY <1>1, <1>3, <1>4, <2>2, <2>3 DEF StagingInv, Begun
<1>6. CASE written # Files
  <2>1. at = 0 /\ zip = Nothing /\ bundle = Nothing /\ payload = none
    BY <1>6 DEF StagingInv, Begun
  <2>2. ReadSoFar' /\ PrintedSoFar'
    BY <1>1, <2>1, ReadsOrder, PrintsOrder DEF ReadSoFar, PrintedSoFar
  <2>3. Begun' /\ Zipped' /\ Attested' /\ Bundled'
    BY <1>1, <2>1 DEF Begun, Zipped, Attested, Bundled, Nothing
  <2>4. QED  BY <1>3, <1>4, <2>2, <2>3 DEF StagingInv
<1>7. QED  BY <1>5, <1>6

LEMMA StageForeignKeeps ==
  ASSUME StagingInv, NEW f \in Files, NEW c, StageForeign(f, c)
  PROVE  StagingInv'
<1>1. UNCHANGED <<asked, written, at, seen, receipt, zip, payload, bundle, build>>
  BY DEF StageForeign
<1>2. foreign' = foreign \cup {f} /\ foreign' \subseteq Files
  BY DEF StageForeign, StagingInv, Typed
<1>3. staged' = [staged EXCEPT ![f] = c]
  BY DEF StageForeign
<1>4. \A g \in Files \ foreign' : staged'[g] = staged[g]
  BY <1>2, <1>3 DEF StagingInv, Typed
<1>5. ReadSoFar' /\ PrintedSoFar' /\ Zipped' /\ Attested' /\ Bundled'
  BY <1>1, <1>2, <1>4, CopiesKept DEF PinsPassed
<1>6. Typed'
  BY <1>1, <1>2, <1>3 DEF StagingInv, Typed
<1>7. Begun' /\ Uploaded' /\ RefusedForCause'
  BY <1>1, <1>2 DEF StagingInv, Begun, Uploaded, RefusedForCause
<1>8. Requested'
  BY <1>1, SameArguments DEF StagingInv, Requested
<1>9. QED  BY <1>5, <1>6, <1>7, <1>8 DEF StagingInv

LEMMA PinsStartKeeps ==
  ASSUME StagingInv, PinsStart PROVE StagingInv'
<1>1. UNCHANGED <<asked, staged, written, zip, bundle, foreign>> /\ at = 0
      /\ written = Files /\ build = "running"
  BY DEF PinsStart, Running
<1>2. CASE Declarable /\ \A f \in Files \ {"aar"} : staged[f] # none
  <2>1. at' = 1 /\ UNCHANGED <<seen, receipt, payload, build>>
    BY <1>2 DEF PinsStart
  <2>2. ReadSoFar' /\ PrintedSoFar'
    BY <2>1, ReadsOrder, PrintsOrder DEF ReadSoFar, PrintedSoFar
  <2>3. bundle = Nothing
    BY <1>1, ReadsOrder, PrintsOrder DEF StagingInv, Bundled, PinsPassed
  <2>4. Zipped' /\ Attested' /\ Bundled'
    BY <1>1, <2>1, <2>3, CopiesKept DEF StagingInv, Typed, Bundled, Nothing
  <2>5. Requested'
    BY <1>1, <1>2, SameArguments DEF Requested
  <2>6. Typed' /\ Begun' /\ Uploaded' /\ RefusedForCause'
    BY <1>1, <2>1 DEF StagingInv, Typed, Begun, Uploaded, RefusedForCause
  <2>7. QED  BY <2>2, <2>4, <2>5, <2>6 DEF StagingInv
<1>3. CASE ~(Declarable /\ \A f \in Files \ {"aar"} : staged[f] # none)
  <2>1. Fail
    BY <1>3 DEF PinsStart
  <2>2. ~Declarable \/ ~Right(staged)
    BY <1>3 DEF Right, RightFile
  <2>3. QED  BY <1>1, <2>1, <2>2, FailKeeps
<1>4. QED  BY <1>2, <1>3

LEMMA PinsReadKeeps ==
  ASSUME StagingInv, PinsRead PROVE StagingInv'
<1> DEFINE f == Reads[at]
           read == [seen EXCEPT ![f] = staged[f]]
<1>1. /\ UNCHANGED <<asked, staged, written, zip, bundle, foreign>>
      /\ at \in 1..6 /\ build = "running" /\ f \in Files
  BY ReadsOrder DEF PinsRead, Running, Files
<1>2. bundle = Nothing
  BY <1>1, ReadsOrder, PrintsOrder DEF StagingInv, Bundled, PinsPassed
<1>3. read[f] = staged[f] /\ \A g \in Files \ {f} : read[g] = seen[g]
  BY <1>1 DEF StagingInv, Typed
<1>4. ASSUME foreign = {} PROVE Good(f, read) = Good(f, staged)
  <2>1. f = "aar" => read["android_module"] = staged["android_module"]
    <3>1. f = "aar" => at \in {3, 4}
      BY <1>1, ReadsOrder
    <3>2. 2 < at => seen["android_module"] = staged["android_module"]
      BY <1>4, ReadsOrder DEF StagingInv, ReadSoFar
    <3>3. QED  BY <1>3, <3>1, <3>2 DEF Files
  <2>2. QED  BY <1>3, <2>1, GoodSame
<1>5. CASE read[f] # none /\ Good(f, read)
  <2>1. at' = at + 1 /\ seen' = read /\ UNCHANGED <<receipt, payload, build>>
    BY <1>5 DEF PinsRead
  <2>2. ASSUME foreign' = {}, NEW i \in DOMAIN Reads, i < at'
        PROVE  /\ seen'[Reads[i]] = staged'[Reads[i]]
               /\ staged'[Reads[i]] # none
               /\ Good(Reads[i], staged)'
    <3>1. Reads[i] \in Files /\ (i < at \/ i = at)
      BY <1>1, <2>1, <2>2, ReadsOrder DEF Files
    <3>2. i < at => /\ seen[Reads[i]] = staged[Reads[i]]
                    /\ staged[Reads[i]] # none
                    /\ Good(Reads[i], staged)
      BY <1>1, <2>2 DEF StagingInv, ReadSoFar
    <3>3. i = at => staged[Reads[i]] # none /\ Good(Reads[i], staged)
      BY <1>1, <1>3, <1>4, <1>5, <2>2
    <3>4. seen'[Reads[i]] = staged[Reads[i]]
      BY <1>3, <2>1, <3>1, <3>2
    <3>5. Good(Reads[i], staged)' = Good(Reads[i], staged)
      BY <1>1, <3>1, SameArguments
    <3>6. QED  BY <1>1, <3>1, <3>2, <3>3, <3>4, <3>5
  <2>3. ReadSoFar'
    BY <2>2 DEF ReadSoFar
  <2>4. PrintedSoFar'
    BY <1>1, <2>1, ReadsOrder, PrintsOrder DEF PrintedSoFar
  <2>5. Zipped' /\ Attested' /\ Bundled'
    BY <1>1, <1>2, <2>1, CopiesKept DEF StagingInv, Typed, Bundled, Nothing
  <2>6. Requested'
    BY <1>1, SameArguments DEF StagingInv, Requested
  <2>7. seen' = [g \in Files |-> seen'[g]]
    BY <2>1 DEF StagingInv, Typed
  <2>8. Typed' /\ Begun' /\ Uploaded' /\ RefusedForCause'
    BY <1>1, <2>1, <2>7 DEF StagingInv, Typed, Begun, Uploaded, RefusedForCause
  <2>9. QED  BY <2>3, <2>4, <2>5, <2>6, <2>8 DEF StagingInv
<1>6. CASE ~(read[f] # none /\ Good(f, read))
  <2>1. Fail
    BY <1>6 DEF PinsRead
  <2>2. foreign = {} => ~Right(staged)
    BY <1>1, <1>3, <1>4, <1>6, RightIsGood
  <2>3. QED  BY <1>1, <2>1, <2>2, FailKeeps
<1>7. QED  BY <1>5, <1>6

LEMMA PinsPrintKeeps ==
  ASSUME StagingInv, PinsPrint PROVE StagingInv'
<1> DEFINE f == Prints[at - Len(Reads)]
<1>1. /\ UNCHANGED <<asked, staged, written, zip, bundle, foreign>>
      /\ at \in Nat /\ at - 6 \in 1..4 /\ build = "running" /\ f \in Files
  BY ReadsOrder, PrintsOrder DEF PinsPrint, Running, StagingInv, Typed
<1>2. CASE staged[f] # none
  <2>1. /\ at' = at + 1 /\ receipt' = [receipt EXCEPT ![f] = staged[f]]
        /\ UNCHANGED <<seen, payload, build>>
    BY <1>2 DEF PinsPrint
  <2>2. ASSUME NEW i \in DOMAIN Prints, Len(Reads) + i < at', Prints[i] \notin foreign
        PROVE  receipt'[Prints[i]] = staged[Prints[i]]
    <3>1. Prints[i] \in Files /\ (Len(Reads) + i < at \/ i = at - Len(Reads))
      BY <1>1, <2>1, <2>2, ReadsOrder, PrintsOrder
    <3>2. Len(Reads) + i < at => receipt[Prints[i]] = staged[Prints[i]]
      BY <2>2 DEF StagingInv, PrintedSoFar
    <3>3. receipt'[Prints[i]] = IF Prints[i] = f THEN staged[f] ELSE receipt[Prints[i]]
      BY <2>1, <3>1 DEF StagingInv, Typed
    <3>4. QED  BY <3>1, <3>2, <3>3
  <2>3. PrintedSoFar'
    BY <1>1, <2>2 DEF PrintedSoFar
  <2>4. ReadSoFar'
    <3>1. ASSUME NEW i \in DOMAIN Reads PROVE i < at /\ Reads[i] \in Files
      BY <1>1, ReadsOrder DEF Files
    <3>2. \A i \in DOMAIN Reads : Good(Reads[i], staged)' = Good(Reads[i], staged)
      BY <1>1, <3>1, SameArguments
    <3>3. QED  BY <1>1, <2>1, <3>1, <3>2 DEF StagingInv, ReadSoFar
  <2>5. PinsPassed => PinsPassed'
    BY <1>1, <2>1, ReadsOrder, PrintsOrder DEF PinsPassed
  <2>6. Zipped' /\ Attested' /\ Bundled'
    BY <1>1, <2>1, <2>5, CopiesKept DEF StagingInv, Typed
  <2>7. Requested'
    BY <1>1, SameArguments DEF StagingInv, Requested
  <2>8. receipt' = [g \in Files |-> receipt'[g]]
    BY <2>1 DEF StagingInv, Typed
  <2>9. Typed' /\ Begun' /\ Uploaded' /\ RefusedForCause'
    BY <1>1, <2>1, <2>8 DEF StagingInv, Typed, Begun, Uploaded, RefusedForCause
  <2>10. QED  BY <2>3, <2>4, <2>6, <2>7, <2>9 DEF StagingInv
<1>3. CASE staged[f] = none
  <2>1. Fail
    BY <1>3 DEF PinsPrint
  <2>2. ~Right(staged)
    BY <1>1, <1>3 DEF Right, RightFile
  <2>3. QED  BY <1>1, <2>1, <2>2, FailKeeps
<1>4. QED  BY <1>2, <1>3

LEMMA VerifyAndroidKeeps ==
  ASSUME StagingInv, VerifyAndroid PROVE StagingInv'
<1>1. /\ UNCHANGED <<asked, staged, written, zip, bundle, foreign>>
      /\ build = "running" /\ zip # Nothing
  BY DEF VerifyAndroid, Running
<1>2. CASE AndroidVerified(zip)
  <2>1. payload' = zip["aar"] /\ UNCHANGED <<at, seen, receipt, build>>
    BY <1>2 DEF VerifyAndroid
  <2>2. Attested'
    BY <1>1, <1>2, <2>1, SameArguments DEF Attested, Nothing
  <2>3. ReadSoFar' /\ PrintedSoFar' /\ Zipped' /\ Bundled'
    BY <1>1, <2>1, CopiesKept DEF StagingInv, Typed, PinsPassed
  <2>4. Typed' /\ Begun' /\ Uploaded' /\ RefusedForCause'
    BY <1>1, <2>1 DEF StagingInv, Typed, Begun, Uploaded, RefusedForCause
  <2>5. Requested'
    BY <1>1, <2>1, SameArguments DEF StagingInv, Requested
  <2>6. QED  BY <2>2, <2>3, <2>4, <2>5 DEF StagingInv
<1>3. CASE ~AndroidVerified(zip)
  <2>1. Fail
    BY <1>3 DEF VerifyAndroid
  <2>2. foreign = {} => ~Right(staged)
    <3>1. ASSUME foreign = {} PROVE AndroidVerified(zip) = AndroidVerified(staged)
      BY <1>1, <3>1, RightSame DEF StagingInv, Zipped, Agrees
    <3>2. QED  BY <1>3, <3>1, RightIsGood
  <2>3. QED  BY <1>1, <2>1, <2>2, FailKeeps
<1>4. QED  BY <1>2, <1>3

LEMMA BundleKeeps ==
  ASSUME StagingInv, CentralPortalBundle PROVE StagingInv'
<1>1. /\ UNCHANGED <<asked, staged, written, at, seen, receipt, zip, payload, build, foreign>>
      /\ PinsPassed /\ bundle' = staged
  BY DEF CentralPortalBundle
<1>2. written = Files
  BY <1>1, ReadsOrder, PrintsOrder DEF StagingInv, Begun, PinsPassed
<1>3. ReadSoFar' /\ PrintedSoFar' /\ Zipped' /\ Attested'
  BY <1>1, CopiesKept DEF StagingInv, Typed
<1>4. Bundled' /\ Begun' /\ Uploaded' /\ Typed'
  BY <1>1, <1>2 DEF StagingInv, Bundled, Begun, Uploaded, Typed,
                      PinsPassed, Agrees, CentralPortalBundle, Running
<1>5. Requested' /\ RefusedForCause'
  BY <1>1, SameArguments DEF StagingInv, Requested, RefusedForCause
<1>6. QED  BY <1>3, <1>4, <1>5 DEF StagingInv

LEMMA ZipKeeps ==
  ASSUME StagingInv, AndroidPublicationBundle PROVE StagingInv'
<1>1. /\ UNCHANGED <<asked, staged, written, at, seen, receipt, payload, bundle, build, foreign>>
      /\ written = Files /\ zip = Nothing /\ zip' = staged
  BY DEF AndroidPublicationBundle
<1>2. payload = none
  BY <1>1 DEF StagingInv, Attested
<1>3. ReadSoFar' /\ PrintedSoFar' /\ Bundled'
  BY <1>1, CopiesKept DEF StagingInv, Typed, PinsPassed
<1>4. Zipped' /\ Attested' /\ Begun' /\ Uploaded' /\ Typed'
  BY <1>1, <1>2 DEF StagingInv, Zipped, Attested, Begun, Uploaded, Typed, Agrees
<1>5. Requested' /\ RefusedForCause'
  BY <1>1, SameArguments DEF StagingInv, Requested, RefusedForCause
<1>6. QED  BY <1>3, <1>4, <1>5 DEF StagingInv

LEMMA UploadKeeps ==
  ASSUME StagingInv, Upload PROVE StagingInv'
<1>1. /\ UNCHANGED <<asked, staged, written, at, seen, receipt, zip, payload, bundle, foreign>>
      /\ bundle # Nothing /\ payload # none /\ build' = "uploaded"
  BY DEF Upload
<1>2. ReadSoFar' /\ PrintedSoFar' /\ Zipped' /\ Attested' /\ Bundled'
  BY <1>1, CopiesKept DEF StagingInv, Typed, PinsPassed
<1>3. Begun' /\ Uploaded' /\ Typed' /\ RefusedForCause'
  BY <1>1 DEF StagingInv, Begun, Uploaded, Typed, RefusedForCause, Nothing
<1>4. Requested'
  BY <1>1, SameArguments DEF StagingInv, Requested
<1>5. QED  BY <1>2, <1>3, <1>4 DEF StagingInv

LEMMA NewRunKeeps ==
  ASSUME StagingInv, NewRun PROVE StagingInv'
<1>1. /\ at' = 0 /\ seen' = Nothing /\ receipt' = Nothing
      /\ zip' = Nothing' /\ payload' = none /\ bundle' = Nothing'
      /\ build' = "running" /\ foreign' = {} /\ staged' = staged
  BY DEF NewRun, Nothing
<1>2. Typed'
  BY <1>1 DEF StagingInv, Typed, Nothing
<1>3. ReadSoFar' /\ PrintedSoFar'
  BY <1>1, ReadsOrder, PrintsOrder DEF ReadSoFar, PrintedSoFar
<1>4. Begun' /\ Requested' /\ Zipped' /\ Attested' /\ Bundled' /\ Uploaded' /\ RefusedForCause'
  BY <1>1 DEF Begun, Requested, Zipped, Attested, Bundled, Uploaded, RefusedForCause
<1>5. QED  BY <1>2, <1>3, <1>4 DEF StagingInv

LEMMA StutterKeeps ==
  ASSUME StagingInv, UNCHANGED stagingVars PROVE StagingInv'
<1>1. UNCHANGED <<asked, staged, written, at, seen, receipt, zip, payload, bundle, build, foreign>>
  BY DEF stagingVars
<1>2. ReadSoFar' /\ PrintedSoFar' /\ Zipped' /\ Attested' /\ Bundled'
  BY <1>1, CopiesKept DEF StagingInv, Typed, PinsPassed
<1>3. Begun' /\ Uploaded' /\ Typed'
  BY <1>1 DEF StagingInv, Begun, Uploaded, Typed, Nothing
<1>4. Requested' /\ RefusedForCause'
  BY <1>1, SameArguments DEF StagingInv, Requested, RefusedForCause
<1>5. QED  BY <1>2, <1>3, <1>4 DEF StagingInv

LEMMA StagingInvNext == StagingInv /\ [StagingNext]_stagingVars => StagingInv'
<1> SUFFICES ASSUME StagingInv, [StagingNext]_stagingVars PROVE StagingInv'
  OBVIOUS
<1>1. ASSUME NEW published \in Published, Stage(published) PROVE StagingInv'
  BY <1>1, StageKeeps
<1>2. ASSUME NEW published \in Published, NEW f \in DOMAIN published,
             StageForeign(f, published[f])
      PROVE  StagingInv'
  BY <1>2, PublishedAssumption, StageForeignKeeps
<1>3. CASE PinsStart
  BY <1>3, PinsStartKeeps
<1>4. CASE PinsRead
  BY <1>4, PinsReadKeeps
<1>5. CASE PinsPrint
  BY <1>5, PinsPrintKeeps
<1>6. CASE CentralPortalBundle
  BY <1>6, BundleKeeps
<1>7. CASE AndroidPublicationBundle
  BY <1>7, ZipKeeps
<1>8. CASE VerifyAndroid
  BY <1>8, VerifyAndroidKeeps
<1>9. CASE Upload
  BY <1>9, UploadKeeps
<1>10. CASE NewRun
  BY <1>10, NewRunKeeps
<1>11. CASE UNCHANGED stagingVars
  BY <1>11, StutterKeeps
<1>12. QED
  BY <1>1, <1>2, <1>3, <1>4, <1>5, <1>6, <1>7, <1>8, <1>9, <1>10, <1>11 DEF StagingNext

LEMMA StagingInvAlways == StagingSpec => []StagingInv
BY StagingInvInit, StagingInvNext, PTL DEF StagingSpec

-----------------------------------------------------------------------------
\* The theorems.

\* If nobody else staged anything during the run, whatever is uploaded is
\* right for every consumer: what verify_publication_pins.py requires of the
\* files as it reads them and what verify_android_publication.py requires of
\* its ZIP are together all of it, and hold of the bundle.
THEOREM UploadCorrect == StagingSpec => []UploadedIsRight
<1>1. ASSUME StagingInv PROVE UploadedIsRight
  <2> SUFFICES ASSUME build = "uploaded", foreign = {} PROVE Right(bundle)
    BY DEF UploadedIsRight
  <2>1. PinsPassed /\ Agrees(bundle) /\ Agrees(zip) /\ AndroidVerified(zip)
    BY <1>1 DEF StagingInv, Uploaded, Bundled, Attested, Zipped
  <2>2. ASSUME NEW i \in 1..6 PROVE staged[Reads[i]] # none /\ Good(Reads[i], staged)
    BY <1>1, <2>1, ReadsOrder, PrintsOrder DEF StagingInv, Typed, ReadSoFar, PinsPassed
  <2>3. \A f \in Files : staged[f] # none /\ Good(f, staged)
    BY <2>2, ReadsOrder DEF Files
  <2>4. AndroidVerified(staged)
    BY <2>1, RightSame DEF Agrees
  <2>5. Right(staged)
    BY <2>3, <2>4, GoodIsRight
  <2>6. QED  BY <2>1, <2>5, RightSame DEF Agrees
<1>2. QED  BY <1>1, StagingInvAlways, PTL

\* Whatever others stage meanwhile, the receipts of the two checks are true
\* of every uploaded file that they left alone.
THEOREM ReceiptsCorrect == StagingSpec => []ReceiptsAttest
<1>1. ASSUME StagingInv PROVE ReceiptsAttest
  <2> SUFFICES ASSUME build = "uploaded" PROVE ReceiptsAttest
    BY DEF ReceiptsAttest
  <2>1. PinsPassed /\ Agrees(bundle) /\ Agrees(zip) /\ payload = zip["aar"]
    BY <1>1 DEF StagingInv, Uploaded, Bundled, Attested, Zipped
  <2>2. ASSUME NEW i \in DOMAIN Prints, Prints[i] \notin foreign
        PROVE  receipt[Prints[i]] = bundle[Prints[i]]
    <3>1. Prints[i] \in Files /\ Len(Reads) + i < at
      BY <1>1, <2>1, ReadsOrder, PrintsOrder DEF StagingInv, Typed, PinsPassed
    <3>2. QED  BY <1>1, <2>1, <2>2, <3>1 DEF StagingInv, PrintedSoFar, Agrees
  <2>3. "aar" \notin foreign => payload = bundle["aar"]
    BY <2>1 DEF Agrees, Files
  <2>4. QED  BY <2>2, <2>3 DEF ReceiptsAttest
<1>2. QED  BY <1>1, StagingInvAlways, PTL

\* A run that a check refuses has a reason, of which somebody else's files
\* are one.
THEOREM RefusalCorrect == StagingSpec => []RefusedForCause
<1>1. StagingInv => RefusedForCause
  BY DEF StagingInv
<1>2. QED  BY <1>1, StagingInvAlways, PTL

-----------------------------------------------------------------------------
(* NativeArchive *)

(***************************************************************************)
(* The invariant ties the cells of the file to the members they were       *)
(* written for: of every block as much stands at its place as the file     *)
(* still has (PreambleStands, MembersStand), and the loop is always at the *)
(* beginning of a block (Position). So what a turn reads is what was       *)
(* written, and a block that is not whole is a file cut within a member.   *)
(***************************************************************************)
Cell ==
  Byte \cup Nat \cup Short \cup Long
  \cup {"magic", "pad", "index", "zero", "__.SYMDEF", "/", "\n"}
  \cup ({"plain"} \X Short) \cup ({"gnu", "bsd", "symbols", "table"} \X Nat)

\* Where a block of these bytes ends that begins after a cell.
After(base, bytes) == base + 2 + Len(bytes) + (Len(bytes) % 2)

\* A block stands after a cell of the file, as far as the file goes.
Stands(d, base, header, bytes) ==
  /\ base + 1 <= Len(d) => d[base + 1] = header
  /\ base + 2 <= Len(d) => d[base + 2] = Len(bytes)
  /\ \A i \in 1..Len(bytes) : base + 2 + i <= Len(d) => d[base + 2 + i] = bytes[i]

\* A member's bytes, and what its header may be.
BytesOf(style, m) ==
  IF style = "bsd" /\ m.name \in Long THEN <<m.name, "zero">> \o m.object ELSE m.object

HeadersOf(style, longs, m) ==
  IF m.name \in Short THEN {<<"plain", m.name>>}
  ELSE IF style = "bsd" THEN {<<"bsd", 2>>}
  ELSE {<<"gnu", 3 * (k - 1)>> : k \in {j \in DOMAIN longs : longs[j] = m.name}}

\* What is before the members, as far as the file goes,
PreambleStands ==
  /\ flavor = "gnu" =>
       /\ Stands(data, 1, <<"symbols", 0>>, <<"index">>)
       /\ Stands(data, 5, <<"table", 0>>, Lines(table))
       /\ ends[1] = After(5, Lines(table))
  /\ flavor = "bsd" =>
       /\ Stands(data, 1, <<"bsd", 2>>, <<"__.SYMDEF", "zero", "index">>)
       /\ ends[1] = 7
       /\ table = <<>>

\* and the members.
MembersStand ==
  \A i \in 1..Len(packed) :
    /\ \E h \in HeadersOf(flavor, table, packed[i]) :
         Stands(data, ends[i], h, BytesOf(flavor, packed[i]))
    /\ ends[i + 1] = After(ends[i], BytesOf(flavor, packed[i]))

\* Every member takes some room.
EndsGrow == \A i, j \in 1..Len(ends) : i < j => ends[i] < ends[j]

\* Nothing follows the last member.
Extent == 1 <= Len(data) /\ Len(data) <= ends[Len(ends)]

\* Nobody reads while ar writes.
Packing ==
  verdict = "packing" =>
    /\ Len(data) = ends[Len(ends)]
    /\ offset = 1 /\ names = <<>> /\ found = <<>>

\* The loop stands where a member begins, or before the first of them.
Position ==
  /\ Len(found) <= Len(packed)
  /\ \A i \in 1..Len(found) : found[i] = packed[i] /\ IsForTarget(packed[i].object)
  /\ \/ offset = ends[Len(found) + 1] /\ names = Lines(table)
     \/ offset = 1 /\ found = <<>> /\ names = <<>>
     \/ offset = 5 /\ found = <<>> /\ names = <<>> /\ flavor = "gnu"

\* What there is to accept.
Acceptable ==
  \E k \in Kept :
    /\ k > 0
    /\ \A i \in 1..k : IsForTarget(packed[i].object)
    /\ object # NoObject => \E i \in 1..k : packed[i].object = object

\* The verdict so far.
Judgement ==
  /\ verdict = "passed" => Acceptable
  /\ verdict = "refused" => ~Acceptable

ArchiveInv ==
  /\ ArchiveTypeOK /\ data \in Seq(Cell)
  /\ PreambleStands /\ MembersStand /\ Extent /\ EndsGrow
  /\ Packing /\ Position /\ Judgement

-----------------------------------------------------------------------------
\* The rest of a sequence.
LEMMA RestShape ==
  ASSUME NEW S, NEW s \in Seq(S), NEW m \in 0..Len(s)
  PROVE  /\ SubSeq(s, m + 1, Len(s)) \in Seq(S)
         /\ Len(SubSeq(s, m + 1, Len(s))) = Len(s) - m
         /\ \A i \in 1..(Len(s) - m) : SubSeq(s, m + 1, Len(s))[i] = s[m + i]
OBVIOUS

\* One sequence of cells after another.
LEMMA Joined ==
  ASSUME NEW s \in Seq(Cell), NEW t \in Seq(Cell)
  PROVE  /\ s \o t \in Seq(Cell)
         /\ Len(s \o t) = Len(s) + Len(t)
         /\ \A i \in 1..Len(s) : (s \o t)[i] = s[i]
         /\ \A i \in 1..Len(t) : (s \o t)[Len(s) + i] = t[i]
<1>1. Len(s) \in Nat /\ Len(t) \in Nat
  OBVIOUS
<1>2. /\ s \o t \in Seq(Cell)
      /\ Len(s \o t) = Len(s) + Len(t)
      /\ \A i \in 1 .. Len(s) + Len(t) : (s \o t)[i] = IF i <= Len(s) THEN s[i] ELSE t[i - Len(s)]
  BY ConcatProperties
<1>3. ASSUME NEW i \in 1..Len(s) PROVE (s \o t)[i] = s[i]
  BY <1>1, <1>2
<1>4. ASSUME NEW i \in 1..Len(t) PROVE (s \o t)[Len(s) + i] = t[i]
  BY <1>1, <1>2
<1>5. QED  BY <1>2, <1>3, <1>4

\* The cells of a block.
LEMMA BlockShape ==
  ASSUME NEW header \in Cell, NEW bytes \in Seq(Cell)
  PROVE  /\ Block(header, bytes) \in Seq(Cell)
         /\ Len(Block(header, bytes)) = 2 + Len(bytes) + (Len(bytes) % 2)
         /\ Block(header, bytes)[1] = header
         /\ Block(header, bytes)[2] = Len(bytes)
         /\ \A i \in 1..Len(bytes) : Block(header, bytes)[2 + i] = bytes[i]
<1>1. PICK head : head = <<header, Len(bytes)>>
  OBVIOUS
<1>2. PICK front : front = head \o bytes
  OBVIOUS
<1>3. PICK pad : pad = Pad(bytes)
  OBVIOUS
<1>4. PICK b : b = front \o pad
  OBVIOUS
<1>5. Block(header, bytes) = b
  BY <1>1, <1>2, <1>3, <1>4 DEF Block
<1>6. Len(bytes) \in Nat /\ Len(bytes) % 2 \in {0, 1}
  OBVIOUS
<1>7. pad \in Seq(Cell) /\ Len(pad) = Len(bytes) % 2
  <2>1. "pad" \in Cell
    BY DEF Cell
  <2>2. QED  BY <1>6, <1>3, <2>1 DEF Pad
<1>8. head \in Seq(Cell) /\ Len(head) = 2 /\ head[1] = header /\ head[2] = Len(bytes)
  <2>1. Len(bytes) \in Cell
    BY DEF Cell
  <2>2. QED  BY <1>1, <2>1
<1>9. /\ front \in Seq(Cell) /\ Len(front) = 2 + Len(bytes)
      /\ \A i \in 1..2 : front[i] = head[i]
      /\ \A i \in 1..Len(bytes) : front[2 + i] = bytes[i]
  <2>1. /\ front \in Seq(Cell) /\ Len(front) = Len(head) + Len(bytes)
        /\ \A i \in 1..Len(head) : front[i] = head[i]
        /\ \A i \in 1..Len(bytes) : front[Len(head) + i] = bytes[i]
    <3>1. head \in Seq(Cell)
      BY <1>8
    <3>2. QED  BY <1>2, <3>1, Joined
  <2>2. QED  BY <1>8, <2>1
<1>10. /\ b \in Seq(Cell) /\ Len(b) = 2 + Len(bytes) + (Len(bytes) % 2)
      /\ \A i \in 1..(2 + Len(bytes)) : b[i] = front[i]
  BY <1>7, <1>9, <1>4, Joined
<1>11. b[1] = header /\ b[2] = Len(bytes) /\ \A i \in 1..Len(bytes) : b[2 + i] = bytes[i]
  BY <1>6, <1>8, <1>9, <1>10
<1>12. QED  BY <1>5, <1>10, <1>11

\* A block written at the end of a file stands there, and nothing before it
\* has changed.
LEMMA BlockWritten ==
  ASSUME NEW d \in Seq(Cell), NEW header \in Cell, NEW bytes \in Seq(Cell)
  PROVE  /\ d \o Block(header, bytes) \in Seq(Cell)
         /\ Len(d \o Block(header, bytes)) = After(Len(d), bytes)
         /\ \A i \in 1..Len(d) : (d \o Block(header, bytes))[i] = d[i]
         /\ Stands(d \o Block(header, bytes), Len(d), header, bytes)
<1>1. PICK b : b = Block(header, bytes)
  OBVIOUS
<1>2. /\ b \in Seq(Cell)
      /\ Len(b) = 2 + Len(bytes) + (Len(bytes) % 2)
      /\ b[1] = header
      /\ b[2] = Len(bytes)
      /\ \A i \in 1..Len(bytes) : b[2 + i] = bytes[i]
  BY <1>1, BlockShape, ZenonT(60)
<1>3. PICK e : e = d \o b
  OBVIOUS
<1>4. /\ e \in Seq(Cell) /\ Len(e) = Len(d) + Len(b)
      /\ \A i \in 1..Len(d) : e[i] = d[i]
      /\ \A i \in 1..Len(b) : e[Len(d) + i] = b[i]
  BY <1>2, <1>3, Joined
<1>5. Len(bytes) % 2 \in Nat /\ Len(bytes) \in Nat /\ Len(d) \in Nat
  OBVIOUS
<1>6. Stands(e, Len(d), header, bytes)
  <2>1. e[Len(d) + 1] = header /\ e[Len(d) + 2] = Len(bytes)
    <3>1. 1 \in 1..Len(b) /\ 2 \in 1..Len(b)
      BY <1>2, <1>5
    <3>2. QED  BY <1>2, <1>4, <3>1
  <2>2. ASSUME NEW i \in 1..Len(bytes) PROVE e[Len(d) + 2 + i] = bytes[i]
    <3>1. 2 + i \in 1..Len(b)
      BY <1>2, <1>5
    <3>2. e[Len(d) + (2 + i)] = b[2 + i]
      BY <1>4, <3>1
    <3>3. Len(d) + (2 + i) = Len(d) + 2 + i
      BY <1>5
    <3>4. QED  BY <1>2, <3>2, <3>3
  <2>3. QED  BY <2>1, <2>2 DEF Stands
<1>7. Len(e) = After(Len(d), bytes)
  BY <1>2, <1>4, <1>5 DEF After
<1>8. QED  BY <1>1, <1>3, <1>4, <1>6, <1>7

\* What stands in a file still stands when the file grows,
LEMMA StandsInLonger ==
  ASSUME NEW d \in Seq(Cell), NEW e \in Seq(Cell), NEW base \in Nat, NEW header,
         NEW bytes \in Seq(Cell), Stands(d, base, header, bytes),
         After(base, bytes) <= Len(d), \A i \in 1..Len(d) : e[i] = d[i]
  PROVE  Stands(e, base, header, bytes)
<1>1. Len(bytes) \in Nat /\ Len(bytes) % 2 \in Nat
  OBVIOUS
<1>2. base + 2 + Len(bytes) <= Len(d)
  BY <1>1 DEF After
<1>3. e[base + 1] = header /\ e[base + 2] = Len(bytes)
  BY <1>1, <1>2 DEF Stands
<1>4. ASSUME NEW i \in 1..Len(bytes) PROVE e[base + 2 + i] = bytes[i]
  <2>1. base + 2 + i \in 1..Len(d)
    BY <1>1, <1>2
  <2>2. d[base + 2 + i] = bytes[i]
    BY <2>1, SMTT(30) DEF Stands
  <2>3. QED  BY <2>1, <2>2
<1>5. QED  BY <1>3, <1>4 DEF Stands

\* and when it is cut short.
LEMMA StandsInShorter ==
  ASSUME NEW d \in Seq(Cell), NEW cut \in 1..Len(d), NEW base \in Nat, NEW header,
         NEW bytes \in Seq(Cell), Stands(d, base, header, bytes)
  PROVE  Stands(SubSeq(d, 1, cut), base, header, bytes)
<1> DEFINE e == SubSeq(d, 1, cut)
<1>1. Len(e) = cut /\ \A i \in 1..cut : e[i] = d[i]
  OBVIOUS
<1> HIDE DEF e
<1>2. base + 1 <= Len(e) => e[base + 1] = header
  BY <1>1 DEF Stands
<1>3. base + 2 <= Len(e) => e[base + 2] = Len(bytes)
  BY <1>1 DEF Stands
<1>4. ASSUME NEW i \in 1..Len(bytes), base + 2 + i <= Len(e) PROVE e[base + 2 + i] = bytes[i]
  BY <1>1, <1>4, SMTT(30) DEF Stands
<1>5. Stands(e, base, header, bytes)
  BY <1>2, <1>3, <1>4 DEF Stands
<1>6. QED  BY <1>5 DEF e

\* The turn of the loop at a block sees what was written there.
LEMMA BlockRead ==
  ASSUME data \in Seq(Cell), offset \in Nat, NEW header, NEW bytes \in Seq(Cell),
         Stands(data, offset, header, bytes), HeaderWhole, ~Truncated
  PROVE  /\ Kind = header[1] /\ Value = header[2]
         /\ Size = Len(bytes) /\ Payload = bytes
         /\ Following = After(offset, bytes) /\ Following <= Len(data)
<1>1. Len(bytes) \in Nat /\ Len(bytes) % 2 \in Nat /\ Len(data) \in Nat
  OBVIOUS
<1>2. data[offset + 1] = header /\ data[offset + 2] = Len(bytes)
  BY <1>1 DEF Stands, HeaderWhole
<1>3. Size = Len(bytes) /\ Following = After(offset, bytes)
  BY <1>2 DEF Size, Following, After
<1>4. Following <= Len(data) /\ offset + 2 + Len(bytes) <= Len(data)
  BY <1>1, <1>3 DEF Truncated, After
<1>5. Payload = bytes
  <2> DEFINE p == SubSeq(data, offset + 3, offset + 2 + Len(bytes))
  <2>1. p \in Seq(Cell) /\ Len(p) = Len(bytes)
    BY <1>1, <1>4
  <2>2. \A i \in 1..Len(bytes) : p[i] = data[offset + 2 + i]
    BY <1>1, <1>4
  <2>3. \A i \in 1..Len(bytes) : data[offset + 2 + i] = bytes[i]
    BY <1>1, <1>4 DEF Stands
  <2> HIDE DEF p
  <2>4. p = bytes
    BY <2>1, <2>2, <2>3, SMTT(30)
  <2>5. QED  BY <1>3, <2>4 DEF p, Payload
<1>6. QED  BY <1>2, <1>3, <1>4, <1>5 DEF Kind, Value

\* A block that is all there is not refused for its length.
LEMMA WholeBlock ==
  ASSUME data \in Seq(Cell), offset \in Nat, NEW header, NEW bytes \in Seq(Cell),
         Stands(data, offset, header, bytes), After(offset, bytes) <= Len(data)
  PROVE  HeaderWhole /\ ~Truncated
<1>1. Len(bytes) \in Nat /\ Len(bytes) % 2 \in Nat /\ Len(data) \in Nat
  OBVIOUS
<1>2. HeaderWhole
  BY <1>1 DEF HeaderWhole, After
<1>3. Size = Len(bytes)
  BY <1>2 DEF Stands, Size, HeaderWhole
<1>4. QED  BY <1>1, <1>2, <1>3 DEF Truncated, Following, After

-----------------------------------------------------------------------------
\* The table as GNU ar writes it.
LEMMA LinesShape ==
  ASSUME NEW longs \in Seq(Long)
  PROVE  /\ Lines(longs) \in Seq(Long \cup {"/", "\n"})
         /\ Lines(longs) \in Seq(Cell)
         /\ Len(Lines(longs)) = 3 * Len(longs)
         /\ \A k \in 1..Len(longs) : /\ Lines(longs)[3 * k - 2] = longs[k]
                                     /\ Lines(longs)[3 * k - 1] = "/"
                                     /\ Lines(longs)[3 * k] = "\n"
<1> DEFINE n == 3 * Len(longs)
           cell(i) == IF i % 3 = 1 THEN longs[(i + 2) \div 3] ELSE IF i % 3 = 2 THEN "/" ELSE "\n"
<1>1. Len(longs) \in Nat /\ n \in Nat
  OBVIOUS
<1>2. Lines(longs) = [i \in 1..n |-> cell(i)]
  BY DEF Lines
<1>3. ASSUME NEW i \in 1..n PROVE cell(i) \in Long \cup {"/", "\n"}
  <2>1. i % 3 = 1 => (i + 2) \div 3 \in 1..Len(longs)
    BY <1>1
  <2>2. i % 3 = 1 => longs[(i + 2) \div 3] \in Long
    BY <2>1
  <2>3. QED  BY <2>2
<1>4. ASSUME NEW k \in 1..Len(longs)
      PROVE  /\ 3 * k - 2 \in 1..n /\ 3 * k - 1 \in 1..n /\ 3 * k \in 1..n
             /\ cell(3 * k - 2) = longs[k] /\ cell(3 * k - 1) = "/" /\ cell(3 * k) = "\n"
  <2>1. 3 * k - 2 \in 1..n /\ 3 * k - 1 \in 1..n /\ 3 * k \in 1..n
    BY <1>1
  <2>2. (3 * k - 2) % 3 = 1 /\ (3 * k - 1) % 3 = 2 /\ (3 * k) % 3 = 0
    BY <1>1
  <2>3. ((3 * k - 2) + 2) \div 3 = k
    BY <1>1
  <2>4. QED  BY <2>1, <2>2, <2>3
<1> HIDE DEF n, cell
<1>5. \A k \in 1..Len(longs) : /\ Lines(longs)[3 * k - 2] = longs[k]
                               /\ Lines(longs)[3 * k - 1] = "/"
                               /\ Lines(longs)[3 * k] = "\n"
  BY <1>2, <1>4
<1>6. Lines(longs) \in Seq(Long \cup {"/", "\n"}) /\ Len(Lines(longs)) = n
  BY <1>1, <1>2, <1>3
<1>7. Long \cup {"/", "\n"} \subseteq Cell
  BY DEF Cell
<1>8. Lines(longs) \in Seq(Cell)
  BY <1>6, <1>7
<1>9. QED  BY <1>5, <1>6, <1>8 DEF n

\* A line of two cells is what comes before the first line break,
LEMMA FirstLineOfTwo ==
  ASSUME NEW S, NEW cells \in Seq(S), Len(cells) >= 3,
         cells[1] # "\n", cells[2] # "\n", cells[3] = "\n"
  PROVE  FirstLine(cells) = <<cells[1], cells[2]>>
<1> DEFINE Ends(n) == /\ n < Len(cells) => cells[n + 1] = "\n"
                      /\ \A i \in 1..n : cells[i] # "\n"
           chosen == CHOOSE n \in 0..Len(cells) : Ends(n)
<1>1. Len(cells) \in Nat
  OBVIOUS
<1>2. 2 \in 0..Len(cells) /\ Ends(2)
  BY <1>1
<1>3. ASSUME NEW n \in 0..Len(cells), Ends(n) PROVE n = 2
  <2>1. ~(3 \in 1..n)
    BY <1>3
  <2>2. n # 0 /\ n # 1
    BY <1>1, <1>3
  <2>3. QED  BY <1>1, <2>1, <2>2
<1>4. chosen \in 0..Len(cells) /\ Ends(chosen)
  <2>1. \E n \in 0..Len(cells) : Ends(n)
    BY <1>2
  <2> HIDE DEF Ends
  <2>2. QED  BY <2>1
<1>5. chosen = 2
  <2> HIDE DEF Ends, chosen
  <2>1. QED  BY <1>3, <1>4
<1>6. FirstLine(cells) = SubSeq(cells, 1, chosen)
  BY DEF FirstLine
<1>7. FirstLine(cells) = SubSeq(cells, 1, 2)
  <2> HIDE DEF chosen
  <2>1. QED  BY <1>5, <1>6
<1>8. SubSeq(cells, 1, 2) = <<cells[1], cells[2]>>
  <2> DEFINE two == SubSeq(cells, 1, 2)
  <2>1. two \in Seq(S) /\ Len(two) = 2
    BY <1>1
  <2>2. two[1] = cells[1] /\ two[2] = cells[2]
    BY <1>1
  <2> HIDE DEF two
  <2>3. two = <<cells[1], cells[2]>>
    BY <2>1, <2>2
  <2>4. QED  BY <2>3 DEF two
<1>9. QED  BY <1>7, <1>8

\* and stripping takes the last of two.
LEMMA StrippedOfOne ==
  ASSUME NEW x, NEW c, x # c
  PROVE  RightStrip(<<x, c>>, c) = <<x>>
<1> DEFINE cells == <<x, c>>
           Keeps(n) == /\ n > 0 => cells[n] # c
                       /\ \A i \in (n + 1)..Len(cells) : cells[i] = c
           chosen == CHOOSE n \in 0..Len(cells) : Keeps(n)
<1>1. cells \in Seq({x, c}) /\ Len(cells) = 2 /\ cells[1] = x /\ cells[2] = c
  OBVIOUS
<1>2. RightStrip(<<x, c>>, c) = SubSeq(cells, 1, chosen)
  BY DEF RightStrip
<1> HIDE DEF cells
<1>3. 1 \in 0..Len(cells) /\ Keeps(1)
  BY <1>1
<1>4. ASSUME NEW n \in 0..Len(cells), Keeps(n) PROVE n = 1
  <2>1. n \in 0..2
    BY <1>1
  <2>2. n # 2
    BY <1>1, <1>4
  <2>3. n # 0
    <3>1. n = 0 => 1 \in (n + 1)..Len(cells)
      BY <1>1
    <3>2. QED  BY <1>1, <1>4, <3>1
  <2>4. QED  BY <2>1, <2>2, <2>3
<1>5. chosen \in 0..Len(cells) /\ Keeps(chosen)
  <2>1. \E n \in 0..Len(cells) : Keeps(n)
    BY <1>3
  <2> HIDE DEF Keeps
  <2>2. QED  BY <2>1
<1>6. chosen = 1
  <2> HIDE DEF Keeps, chosen
  <2>1. QED  BY <1>4, <1>5
<1>7. SubSeq(cells, 1, 1) = <<x>>
  <2> DEFINE one == SubSeq(cells, 1, 1)
  <2>1. one \in Seq({x, c}) /\ Len(one) = 1 /\ one[1] = x
    BY <1>1
  <2> HIDE DEF one
  <2>2. one = <<x>>
    BY <2>1
  <2>3. QED  BY <2>2 DEF one
<1>8. QED
  <2> HIDE DEF chosen
  <2>1. QED  BY <1>2, <1>6, <1>7

\* A name comes out of the table as it went in.
LEMMA LongNameRead ==
  ASSUME NEW k \in DOMAIN table, table \in Seq(Long), names = Lines(table)
  PROVE  3 * (k - 1) < Len(names) /\ LongName(3 * (k - 1)) = <<table[k]>>
<1> DEFINE S == Long \cup {"/", "\n"}
           rest == SubSeq(names, 3 * (k - 1) + 1, Len(names))
<1>1. k \in 1..Len(table) /\ Len(table) \in Nat /\ table[k] \in Long
  OBVIOUS
<1>2. /\ names \in Seq(S) /\ Len(names) = 3 * Len(table)
      /\ names[3 * k - 2] = table[k] /\ names[3 * k - 1] = "/" /\ names[3 * k] = "\n"
  BY <1>1, LinesShape
<1>3. table[k] # "/" /\ table[k] # "\n"
  BY <1>1, ArchiveAssumption
<1>4. 3 * (k - 1) < Len(names)
  BY <1>1, <1>2
<1> DEFINE m == 3 * (k - 1)
<1>5. m \in 0..Len(names) /\ Len(names) >= m + 3
      /\ m + 1 = 3 * k - 2 /\ m + 2 = 3 * k - 1 /\ m + 3 = 3 * k
  BY <1>1, <1>2, SMTT(30)
<1>6. rest = SubSeq(names, m + 1, Len(names))
  OBVIOUS
<1> HIDE DEF rest, m, S
<1>7. rest \in Seq(S) /\ Len(rest) >= 3
      /\ rest[1] = table[k] /\ rest[2] = "/" /\ rest[3] = "\n"
  <2>1. rest \in Seq(S) /\ Len(rest) = Len(names) - m
        /\ \A i \in 1..(Len(names) - m) : rest[i] = names[m + i]
    BY <1>2, <1>5, <1>6, RestShape, ZenonT(30)
  <2>2. Len(rest) >= 3
    BY <1>2, <1>5, <2>1
  <2>3. 1 \in 1..(Len(names) - m) /\ 2 \in 1..(Len(names) - m) /\ 3 \in 1..(Len(names) - m)
    BY <1>2, <1>5
  <2>4. rest[1] = names[m + 1] /\ rest[2] = names[m + 2] /\ rest[3] = names[m + 3]
    BY <2>1, <2>3
  <2>5. QED  BY <1>2, <1>5, <2>1, <2>2, <2>4
<1>8. LongName(3 * (k - 1)) = RightStrip(FirstLine(rest), "/")
  BY DEF LongName, rest
<1>9. FirstLine(rest) = <<table[k], "/">>
  BY <1>3, <1>7, FirstLineOfTwo
<1>10. QED  BY <1>3, <1>4, <1>8, <1>9, StrippedOfOne

-----------------------------------------------------------------------------
\* What ar makes of a member is made of cells.
LEMMA MemberCells ==
  ASSUME NEW style, NEW longs \in Seq(Long), NEW m \in Member
  PROVE  /\ m.object \in Seq(Cell)
         /\ BytesOf(style, m) \in Seq(Cell)
         /\ HeadersOf(style, longs, m) \subseteq Cell
<1>1. m.object \in Seq(Cell)
  <2>1. m.object \in Seq(Byte) /\ Byte \subseteq Cell
    BY ArchiveAssumption DEF Member, Cell
  <2>2. QED  BY <2>1
<1>2. m.name \in Short \cup Long /\ m.name \in Cell
  BY DEF Member, Cell
<1>3. BytesOf(style, m) \in Seq(Cell)
  <2>1. <<m.name, "zero">> \in Seq(Cell)
    BY <1>2 DEF Cell
  <2>2. <<m.name, "zero">> \o m.object \in Seq(Cell)
    BY <1>1, <2>1, Joined
  <2>3. QED  BY <1>1, <2>2 DEF BytesOf
<1>4. ASSUME NEW h \in HeadersOf(style, longs, m) PROVE h \in Cell
  <2>1. CASE m.name \in Short
    BY <1>4, <2>1 DEF HeadersOf, Cell
  <2>2. CASE m.name \notin Short /\ style = "bsd"
    BY <1>4, <2>2 DEF HeadersOf, Cell
  <2>3. CASE m.name \notin Short /\ style # "bsd"
    <3>1. PICK k \in DOMAIN longs : h = <<"gnu", 3 * (k - 1)>>
      BY <1>4, <2>3 DEF HeadersOf
    <3>2. 3 * (k - 1) \in Nat
      OBVIOUS
    <3>3. QED  BY <3>1, <3>2 DEF Cell
  <2>4. QED  BY <2>1, <2>2, <2>3
<1>5. QED  BY <1>1, <1>3, <1>4

\* The name and the contents of a member come out of its block as they went
\* in, whichever way ar wrote its name.
LEMMA MemberRead ==
  ASSUME ArchiveTypeOK, NEW m \in Member, NEW h \in HeadersOf(flavor, table, m),
         Kind = h[1], Value = h[2], Payload = BytesOf(flavor, m),
         Size = Len(BytesOf(flavor, m)), names = Lines(table)
  PROVE  /\ Kind \notin {"table", "symbols"} /\ NameValid
         /\ MemberName = <<m.name>> /\ Contents = m.object
<1>1. m.name \in Short \cup Long /\ m.name \notin {"zero", "/", "\n"}
  BY ArchiveAssumption DEF Member
<1>2. CASE m.name \in Short
  <2>1. h = <<"plain", m.name>> /\ BytesOf(flavor, m) = m.object
    BY <1>2, ArchiveAssumption DEF HeadersOf, BytesOf
  <2>2. Kind = "plain" /\ Value = m.name /\ Payload = m.object
    BY <2>1
  <2>3. QED  BY <2>2 DEF NameValid, MemberName, Contents
<1>3. CASE m.name \notin Short /\ flavor = "bsd"
  <2> DEFINE name == <<m.name, "zero">>
  <2>1. h = <<"bsd", 2>> /\ Payload = name \o m.object /\ Size = Len(name \o m.object)
    BY <1>1, <1>3 DEF HeadersOf, BytesOf
  <2>2. name \in Seq(Cell) /\ Len(name) = 2 /\ name[1] = m.name /\ name[2] = "zero"
    BY <1>1 DEF Cell
  <2>3. m.object \in Seq(Cell) /\ Len(m.object) \in Nat
    <3>1. m.object \in Seq(Byte) /\ Byte \subseteq Cell
      BY ArchiveAssumption DEF Member, Cell
    <3>2. QED  BY <3>1
  <2> HIDE DEF name
  <2>4. /\ Payload \in Seq(Cell) /\ Len(Payload) = 2 + Len(m.object) /\ Size = 2 + Len(m.object)
        /\ \A i \in 1..2 : Payload[i] = name[i]
        /\ \A i \in 1..Len(m.object) : Payload[2 + i] = m.object[i]
    <3>1. /\ Payload \in Seq(Cell) /\ Len(Payload) = Len(name) + Len(m.object)
          /\ \A i \in 1..Len(name) : Payload[i] = name[i]
          /\ \A i \in 1..Len(m.object) : Payload[Len(name) + i] = m.object[i]
      <4>1. /\ name \o m.object \in Seq(Cell)
            /\ Len(name \o m.object) = Len(name) + Len(m.object)
            /\ \A i \in 1..Len(name) : (name \o m.object)[i] = name[i]
            /\ \A i \in 1..Len(m.object) : (name \o m.object)[Len(name) + i] = m.object[i]
        <5>1. name \in Seq(Cell) /\ m.object \in Seq(Cell)
          BY <2>2, <2>3
        <5>2. QED  BY <5>1, Joined
      <4>2. QED  BY <2>1, <4>1
    <3>2. QED  BY <2>1, <2>2, <3>1
  <2>5. SubSeq(Payload, 1, 2) = name
    <3>1. PICK s : s = SubSeq(Payload, 1, 2)
      OBVIOUS
    <3>2. s \in Seq(Cell) /\ Len(s) = 2
      BY <2>3, <2>4, <3>1
    <3>3. s[1] = name[1] /\ s[2] = name[2]
      BY <2>3, <2>4, <3>1
    <3>4. s = name
      BY <2>2, <3>2, <3>3
    <3>5. QED  BY <3>1, <3>4
  <2>6. SubSeq(Payload, 3, Size) = m.object
    <3>1. PICK s : s = SubSeq(Payload, 2 + 1, Len(Payload))
      OBVIOUS
    <3>2. /\ s \in Seq(Cell) /\ Len(s) = Len(m.object)
          /\ \A i \in 1..Len(m.object) : s[i] = Payload[2 + i]
      <4>1. 2 \in 0..Len(Payload) /\ Len(Payload) - 2 = Len(m.object)
        BY <2>3, <2>4
      <4>2. QED  BY <2>4, <3>1, <4>1, RestShape
    <3>3. s = m.object
      <4>1. \A i \in 1..Len(m.object) : s[i] = m.object[i]
        BY <2>4, <3>2
      <4>2. s \in Seq(Cell) /\ m.object \in Seq(Cell) /\ Len(s) = Len(m.object)
        BY <2>3, <3>2
      <4>3. QED  BY <4>1, <4>2
    <3>4. QED  BY <2>4, <3>1, <3>3
  <2>7. Kind = "bsd" /\ Value = 2
    BY <2>1
  <2>8. MemberName = RightStrip(<<m.name, "zero">>, "zero")
    BY <2>5, <2>7 DEF MemberName, name
  <2>9. MemberName = <<m.name>>
    BY <1>1, <2>8, StrippedOfOne
  <2>10. Contents = m.object
    BY <2>6, <2>7 DEF Contents
  <2>11. NameValid
    BY <2>3, <2>4, <2>7 DEF NameValid
  <2>12. QED  BY <2>7, <2>9, <2>10, <2>11
<1>4. CASE m.name \notin Short /\ flavor # "bsd"
  <2>1. PICK k \in DOMAIN table : table[k] = m.name /\ h = <<"gnu", 3 * (k - 1)>>
    BY <1>4 DEF HeadersOf
  <2>2. Kind = "gnu" /\ Value = 3 * (k - 1) /\ Payload = m.object
    BY <1>4, <2>1 DEF BytesOf
  <2>3. table \in Seq(Long)
    BY DEF ArchiveTypeOK
  <2>4. Value < Len(names) /\ LongName(Value) = <<m.name>>
    BY <2>1, <2>2, <2>3, LongNameRead
  <2>5. QED  BY <2>2, <2>4 DEF NameValid, MemberName, Contents
<1>5. QED  BY <1>2, <1>3, <1>4

\* The symbol table of BSD ar is known by its name.
LEMMA SymbolsRead ==
  ASSUME Kind = "bsd", Value = 2, Payload = <<"__.SYMDEF", "zero", "index">>, Size = 3
  PROVE  NameValid /\ MemberName = <<"__.SYMDEF">>
<1> DEFINE S == {"__.SYMDEF", "zero", "index"}
<1>1. Payload \in Seq(S) /\ Len(Payload) = 3 /\ Payload[1] = "__.SYMDEF" /\ Payload[2] = "zero"
  OBVIOUS
<1> HIDE DEF S
<1>2. SubSeq(Payload, 1, 2) = <<"__.SYMDEF", "zero">>
  <2>1. PICK s : s = SubSeq(Payload, 1, 2)
    OBVIOUS
  <2>2. s \in Seq(S) /\ Len(s) = 2
    BY <1>1, <2>1
  <2>3. s[1] = "__.SYMDEF" /\ s[2] = "zero"
    BY <1>1, <2>1
  <2>4. s = <<"__.SYMDEF", "zero">>
    BY <2>2, <2>3
  <2>5. QED  BY <2>1, <2>4
<1>3. MemberName = RightStrip(<<"__.SYMDEF", "zero">>, "zero")
  BY <1>2 DEF MemberName
<1>4. MemberName = <<"__.SYMDEF">>
  BY <1>3, StrippedOfOne
<1>5. QED  BY <1>4 DEF NameValid

-----------------------------------------------------------------------------
\* The cells written before the members.
LEMMA CellsOfPreamble ==
  /\ <<"symbols", 0>> \in Cell /\ <<"table", 0>> \in Cell /\ <<"bsd", 2>> \in Cell
  /\ <<"magic">> \in Seq(Cell) /\ Len(<<"magic">>) = 1
  /\ <<"index">> \in Seq(Cell) /\ Len(<<"index">>) = 1
  /\ <<"__.SYMDEF", "zero", "index">> \in Seq(Cell) /\ Len(<<"__.SYMDEF", "zero", "index">>) = 3
<1>1. "magic" \in Cell /\ "index" \in Cell /\ "zero" \in Cell /\ "__.SYMDEF" \in Cell
  BY DEF Cell
<1>2. <<"symbols", 0>> \in Cell /\ <<"table", 0>> \in Cell /\ <<"bsd", 2>> \in Cell
  BY DEF Cell
<1>3. <<"__.SYMDEF", "zero", "index">> \in Seq(Cell)
  BY <1>1
<1>4. QED  BY <1>1, <1>2, <1>3

LEMMA ArchiveInvInit == ArchiveInit => ArchiveInv
<1> SUFFICES ASSUME ArchiveInit PROVE ArchiveInv
  OBVIOUS
<1> DEFINE index == <<"index">>
           symdef == <<"__.SYMDEF", "zero", "index">>
           magic == <<"magic">>
           symbols == <<"symbols", 0>>
           longs == <<"table", 0>>
           bsd == <<"bsd", 2>>
<1>1. table \in Seq(Long)
  <2>1. CASE flavor = "gnu"
    <3>1. PICK n \in 0..MaxMembers : table \in [1..n -> Long]
      BY <2>1 DEF ArchiveInit
    <3>2. n \in Nat
      BY ArchiveAssumption
    <3>3. QED  BY <3>1, <3>2
  <2>2. CASE flavor # "gnu"
    BY <2>2 DEF ArchiveInit
  <2>3. QED  BY <2>1, <2>2
<1>2. Lines(table) \in Seq(Cell)
  BY <1>1, LinesShape
<1>3. /\ magic \in Seq(Cell) /\ Len(magic) = 1
      /\ index \in Seq(Cell) /\ Len(index) = 1
      /\ symdef \in Seq(Cell) /\ Len(symdef) = 3
      /\ symbols \in Cell /\ longs \in Cell /\ bsd \in Cell
  BY CellsOfPreamble
<1>4. flavor \in {"gnu", "bsd"} /\ packed = <<>> /\ ends = <<Len(data)>> /\ offset = 1
      /\ names = <<>> /\ found = <<>> /\ verdict = "packing" /\ object \in Objects \cup {NoObject}
  BY DEF ArchiveInit
<1>5. flavor = "bsd" => table = <<>>
  BY DEF ArchiveInit
<1>6. CASE flavor = "gnu"
  <2>1. PICK first : first = magic \o Block(symbols, index)
    OBVIOUS
  <2>2. data = first \o Block(longs, Lines(table))
    BY <1>6, <2>1 DEF ArchiveInit, Preamble
  <2> HIDE DEF magic, index, symdef, symbols, longs, bsd
  <2>3. /\ first \in Seq(Cell) /\ Len(first) = After(1, index)
        /\ Stands(first, 1, symbols, index)
    <3>1. magic \in Seq(Cell) /\ symbols \in Cell /\ index \in Seq(Cell)
      BY <1>3
    <3>2. /\ magic \o Block(symbols, index) \in Seq(Cell)
          /\ Len(magic \o Block(symbols, index)) = After(Len(magic), index)
          /\ Stands(magic \o Block(symbols, index), Len(magic), symbols, index)
      BY <3>1, BlockWritten
    <3>3. Len(magic) = 1
      BY <1>3
    <3>4. QED  BY <2>1, <3>2, <3>3
  <2>4. After(1, index) = 5
    BY <1>3 DEF After
  <2>5. /\ data \in Seq(Cell) /\ Len(data) = After(5, Lines(table))
        /\ \A i \in 1..Len(first) : data[i] = first[i]
        /\ Stands(data, 5, longs, Lines(table))
    BY <1>2, <1>3, <2>2, <2>3, <2>4, BlockWritten
  <2>6. Stands(data, 1, symbols, index)
    BY <1>3, <2>3, <2>4, <2>5, StandsInLonger
  <2>7. ends[1] = After(5, Lines(table)) /\ Len(data) >= 1
    <3>1. Len(Lines(table)) \in Nat /\ Len(Lines(table)) % 2 \in Nat
      BY <1>2
    <3>2. QED  BY <1>4, <2>5, <3>1 DEF After
  <2>8. PreambleStands
    BY <1>6, <2>5, <2>6, <2>7 DEF PreambleStands, index, symbols, longs
  <2>9. QED  BY <1>1, <1>4, <2>5, <2>7, <2>8
    DEF ArchiveInv, ArchiveTypeOK, Extent, MembersStand, EndsGrow, Packing, Position, Judgement
<1>7. CASE flavor = "bsd"
  <2>1. data = magic \o Block(bsd, symdef)
    BY <1>7 DEF ArchiveInit, Preamble
  <2> HIDE DEF magic, index, symdef, symbols, longs, bsd
  <2>2. /\ data \in Seq(Cell) /\ Len(data) = After(1, symdef)
        /\ Stands(data, 1, bsd, symdef)
    <3>1. magic \in Seq(Cell) /\ bsd \in Cell /\ symdef \in Seq(Cell)
      BY <1>3
    <3>2. /\ magic \o Block(bsd, symdef) \in Seq(Cell)
          /\ Len(magic \o Block(bsd, symdef)) = After(Len(magic), symdef)
          /\ Stands(magic \o Block(bsd, symdef), Len(magic), bsd, symdef)
      BY <3>1, BlockWritten
    <3>3. Len(magic) = 1
      BY <1>3
    <3>4. QED  BY <2>1, <3>2, <3>3
  <2>3. After(1, symdef) = 7
    BY <1>3 DEF After
  <2>4. PreambleStands
    BY <1>4, <1>5, <1>7, <2>2, <2>3 DEF PreambleStands, symdef, bsd
  <2>5. QED  BY <1>1, <1>4, <2>2, <2>3, <2>4
    DEF ArchiveInv, ArchiveTypeOK, Extent, MembersStand, EndsGrow, Packing, Position, Judgement
<1>8. QED  BY <1>4, <1>6, <1>7

-----------------------------------------------------------------------------
\* ar adds a member.
LEMMA WriteMemberKeeps ==
  ASSUME ArchiveInv, NEW m \in Member, WriteMember(m) PROVE ArchiveInv'
<1> DEFINE bytes == BytesOf(flavor, m)
<1>1. /\ ArchiveTypeOK /\ data \in Seq(Cell) /\ Extent /\ PreambleStands /\ MembersStand
      /\ EndsGrow /\ Packing
  BY DEF ArchiveInv
<1>2. /\ packed \in Seq(Member) /\ ends \in Seq(Nat) /\ Len(ends) = Len(packed) + 1
      /\ Len(packed) \in Nat /\ flavor \in {"gnu", "bsd"} /\ table \in Seq(Long)
  BY <1>1 DEF ArchiveTypeOK
<1>3. /\ verdict = "packing" /\ offset = 1 /\ names = <<>> /\ found = <<>>
      /\ Len(data) = ends[Len(ends)]
  BY <1>1 DEF WriteMember, Packing
<1>4. /\ packed' = Append(packed, m) /\ ends' = Append(ends, Len(data'))
      /\ UNCHANGED <<flavor, table, object, offset, names, found, verdict>>
  BY DEF WriteMember, reading
<1>5. PICK h \in HeadersOf(flavor, table, m) : data' = data \o Block(h, bytes)
  <2>1. m.name \in Short \cup Long
    BY DEF Member
  <2>2. CASE m.name \in Short /\ data' = data \o Block(<<"plain", m.name>>, m.object)
    <3>1. bytes = m.object /\ <<"plain", m.name>> \in HeadersOf(flavor, table, m)
      BY <2>2, ArchiveAssumption DEF BytesOf, HeadersOf
    <3>2. QED  BY <2>2, <3>1
  <2>3. CASE /\ flavor = "gnu"
             /\ \E k \in DOMAIN table :
                  table[k] = m.name /\ data' = data \o Block(<<"gnu", 3 * (k - 1)>>, m.object)
    <3>1. PICK k \in DOMAIN table :
            table[k] = m.name /\ data' = data \o Block(<<"gnu", 3 * (k - 1)>>, m.object)
      BY <2>3
    <3>2. m.name \in Long
      BY <1>2, <3>1
    <3>3. bytes = m.object /\ <<"gnu", 3 * (k - 1)>> \in HeadersOf(flavor, table, m)
      BY <2>3, <3>1, <3>2, ArchiveAssumption DEF BytesOf, HeadersOf
    <3>4. QED  BY <3>1, <3>3
  <2>4. CASE /\ flavor = "bsd" /\ m.name \in Long
             /\ data' = data \o Block(<<"bsd", 2>>, <<m.name, "zero">> \o m.object)
    <3>1. bytes = <<m.name, "zero">> \o m.object /\ <<"bsd", 2>> \in HeadersOf(flavor, table, m)
      BY <2>4, ArchiveAssumption DEF BytesOf, HeadersOf
    <3>2. QED  BY <2>4, <3>1
  <2>5. QED  BY <2>2, <2>3, <2>4 DEF WriteMember
<1>6. bytes \in Seq(Cell) /\ h \in Cell
  BY <1>2, MemberCells
<1> HIDE DEF bytes
<1>7. /\ data' \in Seq(Cell) /\ Len(data') = After(Len(data), bytes)
      /\ \A i \in 1..Len(data) : data'[i] = data[i]
      /\ Stands(data', Len(data), h, bytes)
  BY <1>1, <1>5, <1>6, BlockWritten
<1>8. Len(data') > Len(data) /\ Len(data') \in Nat
  <2>1. Len(bytes) \in Nat /\ Len(bytes) % 2 \in Nat /\ Len(data) \in Nat
    BY <1>1, <1>6
  <2>2. QED  BY <1>7, <2>1 DEF After
<1>9. /\ packed' \in Seq(Member) /\ Len(packed') = Len(packed) + 1
      /\ ends' \in Seq(Nat) /\ Len(ends') = Len(ends) + 1
  BY <1>2, <1>4, <1>8
<1>10. /\ packed'[Len(packed) + 1] = m /\ \A i \in 1..Len(packed) : packed'[i] = packed[i]
       /\ ends'[Len(ends) + 1] = Len(data') /\ \A i \in 1..Len(ends) : ends'[i] = ends[i]
  BY <1>2, <1>4
<1>11. ArchiveTypeOK'
  <2>1. offset' \in 0..Len(data')
    BY <1>3, <1>4, <1>8, <1>1
  <2>2. QED  BY <1>1, <1>4, <1>9, <2>1, <1>2 DEF ArchiveTypeOK
<1>12. \A i \in 1..Len(ends) : ends[i] <= Len(data) /\ ends[i] \in Nat
  <2> SUFFICES ASSUME NEW i \in 1..Len(ends) PROVE ends[i] <= Len(data) /\ ends[i] \in Nat
    OBVIOUS
  <2>1. Len(ends) \in 1..Len(ends) /\ ends[i] \in Nat
    BY <1>2
  <2>2. i = Len(ends) \/ i < Len(ends)
    BY <1>2
  <2>3. i < Len(ends) => ends[i] < Len(data)
    <3>1. i < Len(ends) => ends[i] < ends[Len(ends)]
      BY <1>1, <2>1 DEF EndsGrow
    <3>2. Len(data) = ends[Len(ends)]
      BY <1>3
    <3>3. QED  BY <3>1, <3>2
  <2>4. Len(data) \in Nat
    BY <1>1
  <2>5. i = Len(ends) => ends[i] = Len(data)
    BY <1>3
  <2>6. QED  BY <2>1, <2>2, <2>3, <2>4, <2>5
<1>13. EndsGrow'
  <2> SUFFICES ASSUME NEW i \in 1..(Len(ends) + 1), NEW j \in 1..(Len(ends) + 1), i < j
               PROVE  ends'[i] < ends'[j]
    BY <1>9 DEF EndsGrow
  <2>1. Len(ends) \in Nat /\ Len(data) \in Nat
    BY <1>1, <1>2
  <2>2. i \in 1..Len(ends) /\ ends'[i] = ends[i]
    BY <1>10, <2>1
  <2>3. CASE j = Len(ends) + 1
    <3>1. ends'[j] = Len(data')
      BY <1>10, <2>3
    <3>2. ends[i] <= Len(data) /\ ends[i] \in Nat
      BY <1>12, <2>2
    <3>3. QED  BY <1>8, <2>1, <2>2, <3>1, <3>2
  <2>4. CASE j \in 1..Len(ends)
    <3>1. ends'[j] = ends[j]
      BY <1>10, <2>4
    <3>2. ends[i] < ends[j]
      BY <1>1, <1>2, <2>2, <2>4 DEF EndsGrow
    <3>3. QED  BY <2>2, <3>1, <3>2
  <2>5. QED  BY <2>1, <2>3, <2>4
<1>14. PreambleStands'
  <2>1. ends'[1] = ends[1] /\ ends[1] <= Len(data) /\ flavor' = flavor /\ table' = table
    BY <1>2, <1>4, <1>10, <1>12
  <2>2. Lines(table) \in Seq(Cell) /\ <<"index">> \in Seq(Cell)
        /\ <<"__.SYMDEF", "zero", "index">> \in Seq(Cell)
        /\ Len(<<"index">>) = 1 /\ Len(<<"__.SYMDEF", "zero", "index">>) = 3
    BY <1>2, LinesShape, CellsOfPreamble
  <2>3. CASE flavor = "gnu"
    <3>1. After(5, Lines(table)) <= Len(data) /\ Stands(data, 5, <<"table", 0>>, Lines(table))
      BY <1>1, <2>1, <2>3 DEF PreambleStands
    <3>2. Stands(data', 5, <<"table", 0>>, Lines(table))
      BY <1>1, <1>7, <2>2, <3>1, StandsInLonger
    <3>3. After(1, <<"index">>) <= Len(data) /\ Stands(data, 1, <<"symbols", 0>>, <<"index">>)
      <4>1. After(1, <<"index">>) = 5
        BY <2>2 DEF After
      <4>2. After(5, Lines(table)) >= 5
        <5>1. Len(Lines(table)) \in Nat /\ Len(Lines(table)) % 2 \in Nat
          BY <2>2
        <5>2. QED  BY <5>1 DEF After
      <4>3. After(5, Lines(table)) \in Int /\ Len(data) \in Int
        <5>1. Len(Lines(table)) \in Nat /\ Len(Lines(table)) % 2 \in Nat
          BY <2>2
        <5>2. QED  BY <1>1, <5>1 DEF After
      <4>4. QED  BY <1>1, <2>3, <3>1, <4>1, <4>2, <4>3 DEF PreambleStands
    <3>4. Stands(data', 1, <<"symbols", 0>>, <<"index">>)
      BY <1>1, <1>7, <2>2, <3>3, StandsInLonger
    <3>5. QED  BY <1>1, <2>1, <2>3, <3>2, <3>4 DEF PreambleStands
  <2>4. CASE flavor = "bsd"
    <3>1. After(1, <<"__.SYMDEF", "zero", "index">>) = 7
      BY <2>2 DEF After
    <3>2. Stands(data', 1, <<"bsd", 2>>, <<"__.SYMDEF", "zero", "index">>)
      <4>1. /\ Stands(data, 1, <<"bsd", 2>>, <<"__.SYMDEF", "zero", "index">>)
            /\ After(1, <<"__.SYMDEF", "zero", "index">>) <= Len(data)
        BY <1>1, <2>1, <2>4, <3>1 DEF PreambleStands
      <4>2. QED  BY <1>1, <1>7, <2>2, <4>1, StandsInLonger
    <3>3. QED  BY <1>1, <2>1, <2>4, <3>2 DEF PreambleStands
  <2>5. QED  BY <1>2, <2>3, <2>4
<1>15. MembersStand'
  <2> SUFFICES ASSUME NEW i \in 1..(Len(packed) + 1)
               PROVE  /\ \E g \in HeadersOf(flavor, table, packed'[i]) :
                           Stands(data', ends'[i], g, BytesOf(flavor, packed'[i]))
                      /\ ends'[i + 1] = After(ends'[i], BytesOf(flavor, packed'[i]))
    BY <1>4, <1>9 DEF MembersStand
  <2>1. CASE i = Len(packed) + 1
    <3>1. packed'[i] = m /\ ends'[i] = Len(data) /\ ends'[i + 1] = Len(data')
      BY <1>2, <1>3, <1>10, <2>1
    <3>2. QED  BY <1>5, <1>7, <3>1 DEF bytes
  <2>2. CASE i \in 1..Len(packed)
    <3> DEFINE b == BytesOf(flavor, packed[i])
    <3>1. packed'[i] = packed[i] /\ ends'[i] = ends[i] /\ ends'[i + 1] = ends[i + 1]
          /\ ends[i + 1] <= Len(data) /\ packed[i] \in Member /\ ends[i] \in Nat
      <4>1. i \in 1..Len(ends) /\ i + 1 \in 1..Len(ends)
        BY <1>2, <2>2
      <4>2. packed'[i] = packed[i] /\ packed[i] \in Member
        BY <1>2, <1>10, <2>2
      <4>3. ends'[i] = ends[i] /\ ends'[i + 1] = ends[i + 1]
        BY <1>10, <4>1
      <4>4. ends[i + 1] <= Len(data) /\ ends[i] \in Nat
        BY <1>12, <4>1
      <4>5. QED  BY <4>2, <4>3, <4>4
    <3>2. b \in Seq(Cell)
      BY <1>2, <3>1, MemberCells
    <3>3. ends[i + 1] = After(ends[i], b)
      BY <1>1, <2>2 DEF MembersStand
    <3>4. PICK g \in HeadersOf(flavor, table, packed[i]) : Stands(data, ends[i], g, b)
      BY <1>1, <2>2 DEF MembersStand
    <3> HIDE DEF b
    <3>5. Stands(data', ends[i], g, b)
      BY <1>1, <1>7, <3>1, <3>2, <3>3, <3>4, StandsInLonger
    <3>6. QED  BY <3>1, <3>3, <3>4, <3>5 DEF b
  <2>3. QED  BY <1>2, <2>1, <2>2
<1>16. Extent'
  <2>1. Len(data) >= 1 /\ Len(data) \in Nat
    BY <1>1 DEF Extent
  <2>2. QED  BY <1>8, <1>9, <1>10, <2>1 DEF Extent
<1>17. Packing'
  BY <1>3, <1>4, <1>9, <1>10 DEF Packing
<1>18. Position'
  BY <1>2, <1>3, <1>4, <1>9 DEF Position
<1>19. Judgement'
  BY <1>3, <1>4 DEF Judgement
<1>20. QED
  BY <1>7, <1>11, <1>13, <1>14, <1>15, <1>16, <1>17, <1>18, <1>19 DEF ArchiveInv

-----------------------------------------------------------------------------
\* The file handed over may end anywhere; what it keeps stands where it stood.
LEMMA HandOverKeeps ==
  ASSUME ArchiveInv, HandOver PROVE ArchiveInv'
<1>1. /\ ArchiveTypeOK /\ data \in Seq(Cell) /\ Extent /\ PreambleStands /\ MembersStand
      /\ EndsGrow /\ Packing
  BY DEF ArchiveInv
<1>2. /\ packed \in Seq(Member) /\ ends \in Seq(Nat) /\ Len(ends) = Len(packed) + 1
      /\ Len(packed) \in Nat /\ flavor \in {"gnu", "bsd"} /\ table \in Seq(Long)
      /\ offset = 1 /\ names = <<>> /\ found = <<>>
  BY <1>1 DEF ArchiveTypeOK, HandOver, Packing
<1>3. /\ UNCHANGED <<packed, flavor, table, ends, object, offset, names, found>>
      /\ verdict' = "reading"
  BY DEF HandOver, reading
<1>4. PICK cut \in 1..Len(data) : data' = SubSeq(data, 1, cut)
  BY DEF HandOver
<1>5. data' \in Seq(Cell) /\ Len(data') = cut
  BY <1>1, <1>4
<1>6. ASSUME NEW base \in Nat, NEW header, NEW bytes \in Seq(Cell), Stands(data, base, header, bytes)
      PROVE  Stands(data', base, header, bytes)
  BY <1>1, <1>4, <1>6, StandsInShorter
<1>7. ArchiveTypeOK'
  <2>1. offset' \in 0..Len(data')
    BY <1>2, <1>3, <1>5
  <2>2. QED  BY <1>1, <1>3, <2>1 DEF ArchiveTypeOK
<1>8. Extent'
  <2>1. Len(data) <= ends[Len(ends)] /\ Len(data) \in Nat /\ ends[Len(ends)] \in Nat
    BY <1>1, <1>2 DEF Extent
  <2>2. QED  BY <1>3, <1>5, <2>1 DEF Extent
<1>9. PreambleStands'
  <2>1. Lines(table) \in Seq(Cell) /\ <<"index">> \in Seq(Cell)
        /\ <<"__.SYMDEF", "zero", "index">> \in Seq(Cell)
    BY <1>2, LinesShape, CellsOfPreamble
  <2>2. CASE flavor = "gnu"
    <3>1. Stands(data, 1, <<"symbols", 0>>, <<"index">>)
          /\ Stands(data, 5, <<"table", 0>>, Lines(table))
      BY <1>1, <2>2 DEF PreambleStands
    <3>2. Stands(data', 1, <<"symbols", 0>>, <<"index">>)
      BY <1>6, <2>1, <3>1
    <3>3. Stands(data', 5, <<"table", 0>>, Lines(table))
      BY <1>6, <2>1, <3>1
    <3>4. QED  BY <1>1, <1>3, <2>2, <3>2, <3>3 DEF PreambleStands
  <2>3. CASE flavor = "bsd"
    <3>1. Stands(data, 1, <<"bsd", 2>>, <<"__.SYMDEF", "zero", "index">>)
      BY <1>1, <2>3 DEF PreambleStands
    <3>2. Stands(data', 1, <<"bsd", 2>>, <<"__.SYMDEF", "zero", "index">>)
      BY <1>6, <2>1, <3>1
    <3>3. QED  BY <1>1, <1>3, <2>3, <3>2 DEF PreambleStands
  <2>4. QED  BY <1>2, <2>2, <2>3
<1>10. MembersStand'
  <2> SUFFICES ASSUME NEW i \in 1..Len(packed)
               PROVE  /\ \E g \in HeadersOf(flavor, table, packed[i]) :
                           Stands(data', ends[i], g, BytesOf(flavor, packed[i]))
                      /\ ends[i + 1] = After(ends[i], BytesOf(flavor, packed[i]))
    BY <1>3 DEF MembersStand
  <2>1. packed[i] \in Member /\ ends[i] \in Nat
    BY <1>2
  <2>2. BytesOf(flavor, packed[i]) \in Seq(Cell)
    BY <1>2, <2>1, MemberCells
  <2>3. PICK g \in HeadersOf(flavor, table, packed[i]) :
          Stands(data, ends[i], g, BytesOf(flavor, packed[i]))
    BY <1>1 DEF MembersStand
  <2>4. Stands(data', ends[i], g, BytesOf(flavor, packed[i]))
    BY <1>6, <2>1, <2>2, <2>3
  <2>5. QED  BY <1>1, <2>4 DEF MembersStand
<1>11. EndsGrow'
  BY <1>1, <1>3 DEF EndsGrow
<1>12. Packing' /\ Judgement'
  BY <1>3 DEF Packing, Judgement
<1>13. Position'
  BY <1>2, <1>3 DEF Position
<1>14. QED  BY <1>5, <1>7, <1>8, <1>9, <1>10, <1>11, <1>12, <1>13 DEF ArchiveInv

-----------------------------------------------------------------------------
\* The turns of the loop that give up, and those that go on, leave the
\* archive alone.
LEMMA RefuseKeeps ==
  ASSUME ArchiveInv, verdict = "reading", Refuse, ~Acceptable PROVE ArchiveInv'
<1>1. UNCHANGED <<packed, flavor, table, data, ends, object, offset, names, found>>
      /\ verdict' = "refused"
  BY DEF Refuse, archive
<1>2. ArchiveTypeOK' /\ Extent' /\ PreambleStands' /\ MembersStand' /\ EndsGrow' /\ Packing'
  BY <1>1 DEF ArchiveInv, ArchiveTypeOK, Extent, PreambleStands, MembersStand, EndsGrow, Packing
<1>3. Position'
  BY <1>1 DEF ArchiveInv, Position
<1>4. Judgement'
  BY <1>1 DEF Judgement, Acceptable, Kept
<1>5. QED  BY <1>1, <1>2, <1>3, <1>4 DEF ArchiveInv

LEMMA AdvanceKeeps ==
  ASSUME ArchiveInv, verdict = "reading", UNCHANGED <<archive, verdict>>, Position',
         offset' \in 0..Len(data), names' \in Seq(Long \cup {"/", "\n"}), found' \in Seq(Member)
  PROVE  ArchiveInv'
<1>1. UNCHANGED <<packed, flavor, table, data, ends, object, verdict>>
  BY DEF archive
<1>2. ArchiveTypeOK'
  BY <1>1 DEF ArchiveInv, ArchiveTypeOK
<1>3. Extent' /\ PreambleStands' /\ MembersStand' /\ EndsGrow' /\ Packing' /\ Judgement'
  BY <1>1 DEF ArchiveInv, Extent, PreambleStands, MembersStand, EndsGrow, Packing, Judgement
<1>4. QED  BY <1>1, <1>2, <1>3 DEF ArchiveInv

\* A file that ends within the block at hand keeps no whole number of members.
LEMMA CutIsNotAcceptable ==
  ASSUME data \in Seq(Cell), offset \in Nat, NEW header, NEW bytes \in Seq(Cell),
         Stands(data, offset, header, bytes), ~HeaderWhole \/ Truncated,
         \A k \in Kept : After(offset, bytes) <= ends[k + 1]
  PROVE  ~Acceptable
<1> SUFFICES ASSUME Acceptable PROVE FALSE
  OBVIOUS
<1>1. PICK k \in Kept : TRUE
  BY DEF Acceptable
<1>2. After(offset, bytes) <= Len(data)
  BY <1>1 DEF Kept
<1>3. QED  BY <1>2, WholeBlock

\* Ends are in the order of the members.
LEMMA EndsInOrder ==
  ASSUME ends \in Seq(Nat), EndsGrow, NEW i \in 1..Len(ends), NEW j \in 1..Len(ends)
  PROVE  /\ ends[i] \in Nat /\ ends[j] \in Nat
         /\ i <= j => ends[i] <= ends[j]
         /\ ends[i] < ends[j] => i < j
<1>1. ends[i] \in Nat /\ ends[j] \in Nat /\ i \in Nat /\ j \in Nat
  OBVIOUS
<1>2. i < j => ends[i] < ends[j]
  BY DEF EndsGrow
<1>3. j < i => ends[j] < ends[i]
  BY DEF EndsGrow
<1>4. i = j => ends[i] = ends[j]
  OBVIOUS
<1>5. i < j \/ i = j \/ j < i
  BY <1>1
<1>6. QED  BY <1>1, <1>2, <1>3, <1>4, <1>5

-----------------------------------------------------------------------------
\* A turn of the loop where a member begins.
LEMMA ReadMemberKeeps ==
  ASSUME ArchiveInv, ReadMember, offset = ends[Len(found) + 1], names = Lines(table)
  PROVE  ArchiveInv'
<1> DEFINE n == Len(found) + 1
           m == packed[n]
           bytes == BytesOf(flavor, m)
<1>1. /\ ArchiveTypeOK /\ data \in Seq(Cell) /\ Extent /\ MembersStand /\ EndsGrow /\ Position
      /\ verdict = "reading" /\ offset < Len(data)
  BY DEF ArchiveInv, ReadMember
<1>2. /\ packed \in Seq(Member) /\ ends \in Seq(Nat) /\ Len(ends) = Len(packed) + 1
      /\ Len(packed) \in Nat /\ table \in Seq(Long) /\ found \in Seq(Member)
      /\ offset \in Nat /\ Len(data) \in Nat
  BY <1>1 DEF ArchiveTypeOK
<1>3. Len(found) \in Nat /\ Len(found) <= Len(packed) /\ n \in 1..Len(ends)
  <2>1. Len(found) \in Nat /\ Len(found) <= Len(packed)
    BY <1>1, <1>2 DEF Position
  <2>2. QED  BY <1>2, <2>1
\* There is another member: the file is not longer than what was packed.
<1>4. n \in 1..Len(packed)
  <2>1. Len(ends) \in 1..Len(ends)
    BY <1>2
  <2>2. offset < ends[Len(ends)]
    <3>1. Len(data) <= ends[Len(ends)] /\ ends[Len(ends)] \in Nat
      BY <1>1, <1>2, <2>1 DEF Extent
    <3>2. QED  BY <1>1, <1>2, <3>1
  <2>3. n < Len(ends)
    BY <1>1, <1>2, <1>3, <2>1, <2>2, EndsInOrder
  <2>4. QED  BY <1>2, <1>3, <2>3
<1>5. m \in Member
  BY <1>2, <1>4
<1>6. bytes \in Seq(Cell)
  BY <1>2, <1>5, MemberCells
<1>7. PICK h \in HeadersOf(flavor, table, m) : Stands(data, offset, h, bytes)
  BY <1>1, <1>4 DEF MembersStand
<1>8. ends[n + 1] = After(offset, bytes)
  BY <1>1, <1>4 DEF MembersStand
\* What the file keeps goes beyond this member.
<1>9. ASSUME NEW k \in Kept PROVE k >= n /\ ends[n + 1] <= ends[k + 1]
  <2>1. k \in 0..Len(packed) /\ Len(data) = ends[k + 1] /\ k + 1 \in 1..Len(ends)
    BY <1>2 DEF Kept
  <2>2. n < k + 1
    BY <1>1, <1>2, <1>3, <2>1, EndsInOrder
  <2>3. n + 1 \in 1..Len(ends) /\ n + 1 <= k + 1 /\ k >= n
    BY <1>2, <1>3, <1>4, <2>1, <2>2, SMTT(30)
  <2>4. QED  BY <1>1, <1>2, <2>1, <2>3, EndsInOrder
<1> HIDE DEF bytes, m, n
<1>10. CASE ~HeaderWhole \/ Truncated
  <2>1. ~Acceptable
    BY <1>1, <1>2, <1>6, <1>7, <1>8, <1>9, <1>10, CutIsNotAcceptable
  <2>2. QED  BY <1>1, <1>10, <2>1, RefuseKeeps DEF ReadMember
<1>11. CASE HeaderWhole /\ ~Truncated
  <2>1. /\ Kind = h[1] /\ Value = h[2] /\ Size = Len(bytes) /\ Payload = bytes
        /\ Following = ends[n + 1] /\ Following <= Len(data)
    BY <1>1, <1>2, <1>6, <1>7, <1>8, <1>11, BlockRead
  <2>2. /\ Kind \notin {"table", "symbols"} /\ NameValid
        /\ MemberName = <<m.name>> /\ Contents = m.object
    BY <1>1, <1>5, <1>7, <2>1, MemberRead DEF bytes, m
  <2>3. MemberName # <<"__.SYMDEF">>
    <3>1. m.name # "__.SYMDEF"
      BY <1>5, ArchiveAssumption DEF Member
    <3>2. QED  BY <2>2, <3>1
  <2>4. [name |-> MemberName[1], object |-> Contents] = m
    BY <1>5, <2>2 DEF Member
  <2>5. CASE ~IsForTarget(m.object)
    <3>1. Refuse
      BY <1>11, <2>2, <2>3, <2>5 DEF ReadMember
    <3>2. ~Acceptable
      <4> SUFFICES ASSUME NEW k \in Kept, \A i \in 1..k : IsForTarget(packed[i].object)
                   PROVE  FALSE
        BY DEF Acceptable
      <4>1. n \in 1..k
        <5>1. k \in Nat
          BY <1>2 DEF Kept
        <5>2. QED  BY <1>2, <1>4, <1>9, <5>1
      <4>2. QED  BY <2>5, <4>1 DEF m
    <3>3. QED  BY <1>1, <3>1, <3>2, RefuseKeeps
  <2>6. CASE IsForTarget(m.object)
    <3>1. offset' = ends[n + 1] /\ names' = names /\ found' = Append(found, m)
          /\ UNCHANGED <<archive, verdict>>
      BY <1>11, <2>1, <2>2, <2>3, <2>4, <2>6 DEF ReadMember, Advance
    <3>2. /\ found' \in Seq(Member) /\ Len(found') = n /\ found'[n] = m
          /\ \A i \in 1..Len(found) : found'[i] = found[i]
      BY <1>2, <1>3, <1>5, <3>1 DEF n
    <3>3. UNCHANGED <<packed, flavor, table, data, ends, object>>
      BY <3>1 DEF archive
    <3>4. Position'
      <4>1. Len(found') <= Len(packed')
        BY <1>4, <1>2, <3>2, <3>3
      <4>2. ASSUME NEW i \in 1..Len(found')
            PROVE  found'[i] = packed'[i] /\ IsForTarget(packed'[i].object)
        <5>1. CASE i = n
          BY <2>6, <3>2, <3>3, <5>1 DEF m
        <5>2. CASE i \in 1..Len(found)
          BY <1>1, <3>2, <3>3, <5>2 DEF Position
        <5>3. QED  BY <1>3, <3>2, <5>1, <5>2 DEF n
      <4>3. offset' = ends'[Len(found') + 1] /\ names' = Lines(table')
        BY <3>1, <3>2, <3>3
      <4>4. QED  BY <4>1, <4>2, <4>3 DEF Position
    <3>5. offset' \in 0..Len(data)
      <4>1. n + 1 \in 1..Len(ends)
        BY <1>2, <1>4
      <4>2. ends[n + 1] \in Nat
        BY <1>2, <4>1
      <4>3. QED  BY <1>2, <2>1, <3>1, <4>2
    <3>6. names' \in Seq(Long \cup {"/", "\n"})
      BY <1>1, <3>1 DEF ArchiveTypeOK
    <3>7. QED  BY <1>1, <3>1, <3>2, <3>4, <3>5, <3>6, AdvanceKeeps
  <2>7. QED  BY <2>5, <2>6
<1>12. QED  BY <1>10, <1>11

\* The file keeps members only if it keeps all that is before them.
LEMMA KeptGoBeyond ==
  ASSUME ArchiveTypeOK, EndsGrow, NEW k \in Kept
  PROVE  ends[1] \in Nat /\ ends[k + 1] \in Nat /\ ends[1] <= ends[k + 1]
<1>1. /\ ends \in Seq(Nat) /\ Len(ends) = Len(packed) + 1 /\ Len(packed) \in Nat
      /\ k \in 0..Len(packed)
  BY DEF ArchiveTypeOK, Kept
<1>2. 1 \in 1..Len(ends) /\ k + 1 \in 1..Len(ends) /\ 1 <= k + 1
  BY <1>1
<1>3. QED  BY <1>1, <1>2, EndsInOrder

\* A turn of the loop at the symbol table.
LEMMA ReadSymbolsKeeps ==
  ASSUME ArchiveInv, ReadMember, offset = 1, found = <<>>, names = <<>>
  PROVE  ArchiveInv'
<1>1. /\ ArchiveTypeOK /\ data \in Seq(Cell) /\ PreambleStands /\ EndsGrow /\ Position
      /\ verdict = "reading"
  BY DEF ArchiveInv, ReadMember
<1>2. /\ table \in Seq(Long) /\ ends \in Seq(Nat) /\ Len(data) \in Nat /\ offset \in Nat
      /\ flavor \in {"gnu", "bsd"} /\ Len(packed) \in Nat
  BY <1>1 DEF ArchiveTypeOK
<1> DEFINE index == <<"index">>
           symdef == <<"__.SYMDEF", "zero", "index">>
<1>3. /\ index \in Seq(Cell) /\ Len(index) = 1 /\ After(1, index) = 5
      /\ symdef \in Seq(Cell) /\ Len(symdef) = 3 /\ After(1, symdef) = 7
  BY CellsOfPreamble DEF After
<1> HIDE DEF index
<1>4. CASE flavor = "gnu"
  <2>1. Stands(data, offset, <<"symbols", 0>>, index) /\ ends[1] >= 5
    <3>1. ends[1] = After(5, Lines(table)) /\ Stands(data, 1, <<"symbols", 0>>, <<"index">>)
      BY <1>1, <1>4 DEF PreambleStands
    <3>2. Len(Lines(table)) \in Nat /\ Len(Lines(table)) % 2 \in Nat
      BY <1>2, LinesShape
    <3>3. QED  BY <3>1, <3>2 DEF After, index
  <2>2. ASSUME NEW k \in Kept PROVE After(offset, index) <= ends[k + 1]
    BY <1>1, <1>3, <2>1, KeptGoBeyond
  <2>3. CASE ~HeaderWhole \/ Truncated
    <3>1. ~Acceptable
      BY <1>1, <1>2, <1>3, <2>1, <2>2, <2>3, CutIsNotAcceptable
    <3>2. QED  BY <1>1, <2>3, <3>1, RefuseKeeps DEF ReadMember
  <2>4. CASE HeaderWhole /\ ~Truncated
    <3>1. Kind = "symbols" /\ Following = 5 /\ Following <= Len(data)
      <4>1. Kind = <<"symbols", 0>>[1] /\ Following = After(offset, index) /\ Following <= Len(data)
        BY <1>1, <1>2, <1>3, <2>1, <2>4, BlockRead
      <4>2. QED  BY <1>3, <4>1
    <3>2. offset' = 5 /\ names' = names /\ found' = found /\ UNCHANGED <<archive, verdict>>
      BY <2>4, <3>1 DEF ReadMember, Advance
    <3>3. Position'
      BY <1>2, <1>4, <3>2 DEF Position, archive
    <3>4. QED  BY <1>1, <1>2, <3>1, <3>2, <3>3, AdvanceKeeps DEF ArchiveTypeOK
  <2>5. QED  BY <2>3, <2>4
<1>5. CASE flavor = "bsd"
  <2>1. Stands(data, offset, <<"bsd", 2>>, symdef) /\ ends[1] = 7 /\ table = <<>>
    BY <1>1, <1>5 DEF PreambleStands
  <2>2. ASSUME NEW k \in Kept PROVE After(offset, symdef) <= ends[k + 1]
    BY <1>1, <1>3, <2>1, KeptGoBeyond
  <2>3. CASE ~HeaderWhole \/ Truncated
    <3>1. ~Acceptable
      BY <1>1, <1>2, <1>3, <2>1, <2>2, <2>3, CutIsNotAcceptable
    <3>2. QED  BY <1>1, <2>3, <3>1, RefuseKeeps DEF ReadMember
  <2>4. CASE HeaderWhole /\ ~Truncated
    <3>1. /\ Kind = "bsd" /\ Value = 2 /\ Payload = symdef /\ Size = 3
          /\ Following = 7 /\ Following <= Len(data)
      <4>1. /\ Kind = <<"bsd", 2>>[1] /\ Value = <<"bsd", 2>>[2] /\ Payload = symdef
            /\ Size = Len(symdef) /\ Following = After(offset, symdef) /\ Following <= Len(data)
        BY <1>1, <1>2, <1>3, <2>1, <2>4, BlockRead
      <4>2. QED  BY <1>3, <4>1
    <3>2. NameValid /\ MemberName = <<"__.SYMDEF">>
      BY <3>1, SymbolsRead
    <3>3. offset' = 7 /\ names' = names /\ found' = found /\ UNCHANGED <<archive, verdict>>
      BY <2>4, <3>1, <3>2 DEF ReadMember, Advance
    <3>4. Lines(table) = <<>>
      <4>1. Lines(table) \in Seq(Cell) /\ Len(Lines(table)) = 0
        <5>1. Len(table) = 0
          BY <2>1
        <5>2. Lines(table) \in Seq(Cell) /\ Len(Lines(table)) = 3 * Len(table)
          BY <1>2, LinesShape
        <5>3. QED  BY <5>1, <5>2
      <4>2. QED  BY <4>1
    <3>5. Position'
      <4>1. offset' = ends'[Len(found') + 1] /\ names' = Lines(table')
        BY <2>1, <3>3, <3>4 DEF archive
      <4>2. QED  BY <1>2, <3>3, <4>1 DEF Position, archive
    <3>6. QED  BY <1>1, <1>2, <3>1, <3>3, <3>5, AdvanceKeeps DEF ArchiveTypeOK
  <2>5. QED  BY <2>3, <2>4
<1>6. QED  BY <1>2, <1>4, <1>5

\* And one at the table of long names.
LEMMA ReadTableKeeps ==
  ASSUME ArchiveInv, ReadMember, offset = 5, found = <<>>, names = <<>>, flavor = "gnu"
  PROVE  ArchiveInv'
<1>1. /\ ArchiveTypeOK /\ data \in Seq(Cell) /\ PreambleStands /\ EndsGrow /\ Position
      /\ verdict = "reading"
  BY DEF ArchiveInv, ReadMember
<1>2. /\ table \in Seq(Long) /\ ends \in Seq(Nat) /\ Len(data) \in Nat /\ offset \in Nat
      /\ Len(packed) \in Nat
  BY <1>1 DEF ArchiveTypeOK
<1>3. Lines(table) \in Seq(Cell) /\ Lines(table) \in Seq(Long \cup {"/", "\n"})
  BY <1>2, LinesShape
<1>4. Stands(data, offset, <<"table", 0>>, Lines(table)) /\ ends[1] = After(offset, Lines(table))
  BY <1>1 DEF PreambleStands
<1>5. ASSUME NEW k \in Kept PROVE After(offset, Lines(table)) <= ends[k + 1]
  BY <1>1, <1>4, KeptGoBeyond
<1>6. CASE ~HeaderWhole \/ Truncated
  <2>1. ~Acceptable
    BY <1>1, <1>2, <1>3, <1>4, <1>5, <1>6, CutIsNotAcceptable
  <2>2. QED  BY <1>1, <1>6, <2>1, RefuseKeeps DEF ReadMember
<1>7. CASE HeaderWhole /\ ~Truncated
  <2>1. /\ Kind = "table" /\ Payload = Lines(table)
        /\ Following = ends[1] /\ Following <= Len(data)
    <3>1. /\ Kind = <<"table", 0>>[1] /\ Payload = Lines(table)
          /\ Following = After(offset, Lines(table)) /\ Following <= Len(data)
      BY <1>1, <1>2, <1>3, <1>4, <1>7, BlockRead
    <3>2. QED  BY <1>4, <3>1
  <2>2. offset' = ends[1] /\ names' = Lines(table) /\ found' = found /\ UNCHANGED <<archive, verdict>>
    BY <1>7, <2>1 DEF ReadMember, Advance
  <2>3. Position'
    <3>1. offset' = ends'[Len(found') + 1] /\ names' = Lines(table')
      BY <2>2 DEF archive
    <3>2. QED  BY <1>2, <2>2, <3>1 DEF Position, archive
  <2>4. ends[1] \in Nat
    <3>1. 1 \in 1..Len(ends)
      BY <1>1, <1>2 DEF ArchiveTypeOK
    <3>2. QED  BY <1>2, <3>1
  <2>5. offset' \in 0..Len(data) /\ found' \in Seq(Member)
    BY <1>2, <2>1, <2>2, <2>4
  <2>6. QED  BY <1>1, <1>3, <2>2, <2>3, <2>5, AdvanceKeeps
<1>8. QED  BY <1>6, <1>7

\* At the end of the file the loop has seen exactly what it keeps.
LEMMA ConcludeKeeps ==
  ASSUME ArchiveInv, Conclude PROVE ArchiveInv'
<1>1. /\ ArchiveTypeOK /\ data \in Seq(Cell) /\ Extent /\ PreambleStands /\ MembersStand
      /\ EndsGrow /\ Packing /\ Position /\ verdict = "reading" /\ offset = Len(data)
  BY DEF ArchiveInv, Conclude
<1>2. /\ packed \in Seq(Member) /\ ends \in Seq(Nat) /\ Len(ends) = Len(packed) + 1
      /\ Len(packed) \in Nat /\ found \in Seq(Member) /\ Len(found) \in Nat
      /\ flavor \in {"gnu", "bsd"} /\ table \in Seq(Long)
  BY <1>1 DEF ArchiveTypeOK
<1>3. UNCHANGED <<packed, flavor, table, data, ends, object, offset, names, found>>
      /\ verdict' = IF found # <<>> /\ ObjectPresent THEN "passed" ELSE "refused"
  BY DEF Conclude, archive
<1>4. ASSUME NEW k \in Kept PROVE k = Len(found)
  <2>1. k \in 0..Len(packed) /\ Len(data) = ends[k + 1] /\ k + 1 \in 1..Len(ends)
    BY <1>2 DEF Kept
  <2>2. ends[1] <= Len(data) /\ ends[1] \in Nat
    BY <1>1, <2>1, KeptGoBeyond
  <2>3. ends[1] > 5
    <3>1. CASE flavor = "gnu"
      <4>1. Len(Lines(table)) \in Nat /\ Len(Lines(table)) % 2 \in Nat
        BY <1>2, LinesShape
      <4>2. QED  BY <1>1, <3>1, <4>1 DEF PreambleStands, After
    <3>2. CASE flavor = "bsd"
      BY <1>1, <3>2 DEF PreambleStands
    <3>3. QED  BY <1>2, <3>1, <3>2
  <2>4. offset = ends[Len(found) + 1]
    BY <1>1, <2>2, <2>3 DEF Position
  <2>5. Len(found) + 1 \in 1..Len(ends)
    BY <1>1, <1>2 DEF Position
  <2>6. ~(k + 1 < Len(found) + 1) /\ ~(Len(found) + 1 < k + 1)
    <3>1. ends[k + 1] = ends[Len(found) + 1] /\ ends[k + 1] \in Nat
      BY <1>1, <1>2, <2>1, <2>4
    <3>2. QED  BY <1>1, <2>1, <2>5, <3>1 DEF EndsGrow
  <2>7. QED  BY <1>2, <2>1, <2>6
<1>5. CASE found # <<>> /\ ObjectPresent
  <2>1. offset = ends[Len(found) + 1]
    BY <1>1, <1>5 DEF Position
  <2>2. Len(found) \in Kept
    BY <1>1, <1>2, <2>1 DEF Kept, Position
  <2>3. \A i \in 1..Len(found) : found[i] = packed[i] /\ IsForTarget(packed[i].object)
    BY <1>1 DEF Position
  <2>4. object # NoObject => \E i \in 1..Len(found) : found[i].object = object
    BY <1>2, <1>5 DEF ObjectPresent
  <2>5. Acceptable
    <3>1. Len(found) > 0
      BY <1>1, <1>5 DEF ArchiveTypeOK
    <3>2. object # NoObject => \E i \in 1..Len(found) : packed[i].object = object
      BY <2>3, <2>4
    <3>3. QED  BY <2>2, <2>3, <3>1, <3>2 DEF Acceptable
  <2>6. Acceptable'
    BY <1>3, <2>5 DEF Acceptable, Kept
  <2>7. QED
    <3>1. Judgement'
      BY <1>3, <1>5, <2>6 DEF Judgement
    <3>2. ArchiveTypeOK' /\ Extent' /\ PreambleStands' /\ MembersStand' /\ EndsGrow' /\ Packing'
          /\ Position'
      BY <1>1, <1>3 DEF ArchiveTypeOK, Extent, PreambleStands, MembersStand, EndsGrow, Packing, Position
    <3>3. QED  BY <1>1, <1>3, <3>1, <3>2 DEF ArchiveInv
<1>6. CASE ~(found # <<>> /\ ObjectPresent)
  <2>1. ~Acceptable
    <3> SUFFICES ASSUME NEW k \in Kept, k > 0,
                        object # NoObject => \E i \in 1..k : packed[i].object = object
                 PROVE  FALSE
      BY DEF Acceptable
    <3>1. k = Len(found)
      BY <1>4
    <3>2. found # <<>>
      BY <1>1, <3>1 DEF ArchiveTypeOK
    <3>3. \A i \in 1..k : found[i] = packed[i]
      BY <1>1, <3>1 DEF Position
    <3>4. ObjectPresent
      <4> SUFFICES ASSUME object # NoObject PROVE \E i \in DOMAIN found : found[i].object = object
        BY DEF ObjectPresent
      <4>1. PICK i \in 1..k : packed[i].object = object
        OBVIOUS
      <4>2. i \in DOMAIN found /\ found[i].object = object
        BY <1>2, <3>1, <3>3, <4>1
      <4>3. QED  BY <4>2
    <3>5. QED  BY <1>6, <3>2, <3>4
  <2>2. ~Acceptable'
    BY <1>3, <2>1 DEF Acceptable, Kept
  <2>3. QED
    <3>1. Judgement'
      BY <1>3, <1>6, <2>2 DEF Judgement
    <3>2. ArchiveTypeOK' /\ Extent' /\ PreambleStands' /\ MembersStand' /\ EndsGrow' /\ Packing'
          /\ Position'
      BY <1>1, <1>3 DEF ArchiveTypeOK, Extent, PreambleStands, MembersStand, EndsGrow, Packing, Position
    <3>3. QED  BY <1>1, <1>3, <3>1, <3>2 DEF ArchiveInv
<1>7. QED  BY <1>5, <1>6

LEMMA ArchiveInvNext == ArchiveInv /\ [ArchiveNext]_archiveVars => ArchiveInv'
<1> SUFFICES ASSUME ArchiveInv, [ArchiveNext]_archiveVars PROVE ArchiveInv'
  OBVIOUS
<1>1. ASSUME NEW m \in Member, WriteMember(m) PROVE ArchiveInv'
  BY <1>1, WriteMemberKeeps
<1>2. CASE HandOver
  BY <1>2, HandOverKeeps
<1>3. CASE ReadMember
  <2>1. CASE offset = ends[Len(found) + 1] /\ names = Lines(table)
    BY <1>3, <2>1, ReadMemberKeeps
  <2>2. CASE offset = 1 /\ found = <<>> /\ names = <<>>
    BY <1>3, <2>2, ReadSymbolsKeeps
  <2>3. CASE offset = 5 /\ found = <<>> /\ names = <<>> /\ flavor = "gnu"
    BY <1>3, <2>3, ReadTableKeeps
  <2>4. QED  BY <2>1, <2>2, <2>3 DEF ArchiveInv, Position
<1>4. CASE Conclude
  BY <1>4, ConcludeKeeps
<1>5. CASE UNCHANGED archiveVars
  <2>1. UNCHANGED <<packed, flavor, table, data, ends, object, offset, names, found, verdict>>
    BY <1>5 DEF archiveVars, archive
  <2>2. ArchiveTypeOK' /\ Extent' /\ PreambleStands' /\ MembersStand' /\ EndsGrow' /\ Packing'
        /\ Position' /\ Judgement'
    BY <2>1 DEF ArchiveInv, ArchiveTypeOK, Extent, PreambleStands, MembersStand, EndsGrow,
                Packing, Position, Judgement, Acceptable, Kept
  <2>3. QED  BY <2>1, <2>2 DEF ArchiveInv
<1>6. QED  BY <1>1, <1>2, <1>3, <1>4, <1>5 DEF ArchiveNext

LEMMA ArchiveInvHolds == ArchiveSpec => []ArchiveInv
<1>1. QED  BY ArchiveInvInit, ArchiveInvNext, PTL DEF ArchiveSpec

\* What the archive and the loop over it hold has its type; in particular the
\* loop never stands beyond the end of the file
\* (verify_native_archive.py:26-37).
THEOREM ArchiveTypeCorrect == ArchiveSpec => []ArchiveTypeOK
<1>1. ArchiveInv => ArchiveTypeOK
  BY DEF ArchiveInv
<1>2. QED  BY <1>1, ArchiveInvHolds, PTL

\* The members come out of the archive as ar put them in, long names and odd
\* sizes included, for any number of members and names of either flavor
\* (verify_native_archive.py:26-58).
THEOREM MembersCorrect == ArchiveSpec => []FoundAsPacked
<1>1. ArchiveInv => FoundAsPacked
  <2> SUFFICES ASSUME ArchiveInv PROVE FoundAsPacked
    OBVIOUS
  <2>1. /\ packed \in Seq(Member) /\ found \in Seq(Member) /\ Len(found) <= Len(packed)
        /\ \A i \in 1..Len(found) : found[i] = packed[i]
        /\ Len(found) \in Nat /\ Len(packed) \in Nat
    BY DEF ArchiveInv, ArchiveTypeOK, Position
  <2>2. PICK s : s = SubSeq(found, 1, Len(found))
    OBVIOUS
  <2>3. PICK t : t = SubSeq(packed, 1, Len(found))
    OBVIOUS
  <2>4. /\ s \in Seq(Member) /\ Len(s) = Len(found)
        /\ \A i \in 1..Len(found) : s[i] = found[i]
    BY <2>1, <2>2
  <2>5. /\ t \in Seq(Member) /\ Len(t) = Len(found)
        /\ \A i \in 1..Len(found) : t[i] = packed[i]
    BY <2>1, <2>3
  <2>6. s = t
    BY <2>1, <2>4, <2>5
  <2>7. QED  BY <2>1, <2>2, <2>3, <2>6 DEF FoundAsPacked, IsPrefix
<1>2. QED  BY <1>1, ArchiveInvHolds, PTL

\* The verdict is right wherever the file was cut: it is accepted exactly if
\* it ends where a member does, has members, all of them are objects for the
\* target and the one just compiled, if given, is among them
\* (verify_native_archive.py:21-73).
THEOREM VerdictCorrect == ArchiveSpec => []VerdictExact
<1>1. ArchiveInv => VerdictExact
  <2> SUFFICES ASSUME ArchiveInv, verdict \in {"passed", "refused"}
               PROVE  (verdict = "passed") = Acceptable
    BY DEF VerdictExact, Acceptable
  <2>1. CASE verdict = "passed"
    BY <2>1 DEF ArchiveInv, Judgement, Acceptable
  <2>2. CASE verdict = "refused"
    BY <2>2 DEF ArchiveInv, Judgement, Acceptable
  <2>3. QED  BY <2>1, <2>2
<1>2. QED  BY <1>1, ArchiveInvHolds, PTL
=============================================================================
