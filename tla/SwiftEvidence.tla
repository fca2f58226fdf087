--------------------------- MODULE SwiftEvidence ---------------------------
(***************************************************************************)
(* The acceptance part of scan_swift.py: receipts and logs that jobs left  *)
(* behind are put together into evidence, and scan() decides whether they  *)
(* show that this source, as exported now, compiled strictly and passed    *)
(* its tests.                                                              *)
(*                                                                         *)
(* A job has a run id and works on one checkout: it exports, compiles the  *)
(* generated modules and the consumer, and runs the tests. Source and      *)
(* generated files may be edited, and put back, before, after and during   *)
(* it. The jobs are external; every log has one path, which the next job   *)
(* writes again.                                                           *)
(*                                                                         *)
(* A hash stands for the content it is made from.                          *)
(***************************************************************************)
EXTENDS Integers, FiniteSets

CONSTANTS
  Sources,    \* contents of the source tree
  ModulesOf,  \* ModulesOf[s]: the Swift modules exported from s
  consumer,   \* the module of the tests
  MaxRun,     \* bound: number of jobs
  MaxChanges  \* bound: number of edits

ASSUME ModulesAssumption ==
  /\ consumer \notin {"export", "tests"}
  /\ \A s \in Sources :
       ModulesOf[s] # {} /\ ModulesOf[s] \cap {consumer, "export", "tests"} = {}

ASSUME MaxRunAssumption == MaxRun \in Nat /\ MaxChanges \in Nat

VARIABLES
  source,    \* the source tree now
  emitted,   \* the generated Swift and bridge files now
  run,       \* id of the last job
  busy,      \* it has not ended
  logs,      \* logs[p]: content of the log at p now
  receipts,  \* what was recorded of every command
  changes,   \* history: how often something was edited
  disturbed, \* history: the jobs that something was edited during
  status     \* of the last scan

evidenceVars == <<source, emitted, run, busy, logs, receipts, changes, disturbed, status>>

\* What an export leaves: all modules of a source, or some file missing or
\* written by hand.
Emitted == [from : Sources, intact : BOOLEAN]

NoFiles == <<>>

Compiled == (UNION {ModulesOf[s] : s \in Sources}) \cup {consumer}

Logs == Compiled \cup {"export", "tests"}

\* strict: the command line in a compiler log has the flags of Swift 6, or
\* the tests in the XML passed.
LogContent == [run : 1..MaxRun, of : Logs, strict : BOOLEAN]

\* source and emitted are recorded by an export, and ghosts otherwise: what
\* the command worked on.
Receipt ==
  [of : Logs, run_id : 1..MaxRun, exit_code : {0, 1}, sha256 : LogContent,
   source : Sources, emitted : Emitted]

EvidenceTypeOK ==
  /\ source \in Sources
  /\ emitted \in Emitted \cup {NoFiles}
  /\ run \in 0..MaxRun
  /\ busy \in BOOLEAN
  /\ \A p \in DOMAIN logs : p \in Logs /\ logs[p] \in LogContent
  /\ receipts \subseteq Receipt
  /\ changes \in 0..MaxChanges
  /\ disturbed \subseteq 1..MaxRun
  /\ status \in {"none", "unverified", "evidence-consistent-scoped-consumer"}

-----------------------------------------------------------------------------
\* The jobs.

Record(p, code, strict, files) ==
  LET content == [run |-> run', of |-> p, strict |-> strict] IN
  /\ logs' = [q \in DOMAIN logs \cup {p} |-> IF q = p THEN content ELSE logs[q]]
  /\ receipts' = receipts \cup
       {[of |-> p, run_id |-> run', exit_code |-> code, sha256 |-> content,
         source |-> source, emitted |-> files]}

\* A job begins with the export; one that fails leaves files behind.
Export(code) ==
  /\ run < MaxRun
  /\ run' = run + 1
  /\ busy' = (code = 0)
  /\ emitted' = [from |-> source, intact |-> code = 0]
  /\ Record("export", code, TRUE, emitted')
  /\ status' = "none"
  /\ UNCHANGED <<source, changes, disturbed>>

\* What a command of the job needs to be done before it.
Needs(p) ==
  CASE p = "tests"  -> {consumer}
    [] p = consumer -> ModulesOf[emitted.from]
    [] OTHER        -> {}

Done == {r.of : r \in {q \in receipts : q.run_id = run}}

\* A compiler runs on a module, with whatever flags; a build that finds it up
\* to date logs no command. The tests, or a command that fails, end the job.
Command(p, code, strict) ==
  /\ busy
  /\ p \in (ModulesOf[emitted.from] \cup {consumer, "tests"}) \ Done
  /\ Needs(p) \subseteq Done
  /\ run' = run
  /\ busy' = (code = 0 /\ p # "tests")
  /\ Record(p, code, strict, emitted)
  /\ status' = "none"
  /\ UNCHANGED <<source, emitted, changes, disturbed>>

\* Nothing keeps anybody from editing while a job is on.
Disturb ==
  /\ changes < MaxChanges
  /\ changes' = changes + 1
  /\ disturbed' = IF busy THEN disturbed \cup {run} ELSE disturbed

\* A later change, or going back to an earlier revision.
EditSource(s) ==
  /\ s # source
  /\ source' = s
  /\ Disturb
  /\ status' = "none"
  /\ UNCHANGED <<emitted, run, busy, logs, receipts>>

\* A generated file is changed, or put back.
EditEmitted ==
  /\ emitted # NoFiles
  /\ emitted' = [from |-> emitted.from, intact |-> ~emitted.intact]
  /\ Disturb
  /\ status' = "none"
  /\ UNCHANGED <<source, run, busy, logs, receipts>>

-----------------------------------------------------------------------------
\* The scan. Evidence is a generation receipt, receipts of commands, and the
\* files of the toolchain with their hashes; its own inventories of source and
\* generated files are those of the receipt or the evidence is refused.

Commands == {r \in receipts : r.of # "export"}

\* How the files of the toolchain compare with their hashes.
Toolchains == {"none", "changed", "unchanged"}

\* Modules found among the generated files.
Modules == IF emitted = NoFiles THEN {} ELSE ModulesOf[emitted.from]

Fresh(r) == logs[r.of] = r.sha256

\* Mutant: the sources of the export are not compared with those of now.
AnySource(g) == g.exit_code = 0 /\ g.emitted = emitted /\ Fresh(g)

GenerationValid(g) ==
  g.exit_code = 0 /\ g.source = source /\ g.emitted = emitted /\ Fresh(g)

\* Mutant: records of any job are taken together.
AnyRun(g, r) == r.exit_code = 0 /\ Fresh(r)

Belongs(g, r) == r.run_id = g.run_id /\ r.exit_code = 0 /\ Fresh(r)

Accepted(g, evidence, tools) ==
  /\ GenerationValid(g)
  /\ tools = "unchanged"
  /\ \A r \in evidence : Belongs(g, r)
  /\ Modules # {}
  /\ Modules \cup {consumer} \subseteq {r.of : r \in {q \in evidence : q.sha256.strict}}
  /\ \A r \in evidence : r.of = "tests" => r.sha256.strict
  /\ \E r \in evidence : r.of = "tests"

\* Mutant: an error raised while reading evidence is not caught.
RaisingStatus(g, evidence, tools) ==
  IF Accepted(g, evidence, tools) THEN "evidence-consistent-scoped-consumer" ELSE "raised"

StatusOf(g, evidence, tools) ==
  IF Accepted(g, evidence, tools) THEN "evidence-consistent-scoped-consumer" ELSE "unverified"

Scan ==
  /\ status = "none"
  /\ status' \in {StatusOf(g, evidence, tools) :
                   g \in receipts \ Commands, evidence \in SUBSET Commands, tools \in Toolchains}
  /\ UNCHANGED <<source, emitted, run, busy, logs, receipts, changes, disturbed>>

-----------------------------------------------------------------------------
EvidenceInit ==
  /\ source \in Sources
  /\ emitted = NoFiles
  /\ run = 0
  /\ busy = FALSE
  /\ logs = [p \in {} |-> <<>>]
  /\ receipts = {}
  /\ changes = 0
  /\ disturbed = {}
  /\ status = "none"

EvidenceNext ==
  \/ \E code \in {0, 1} : Export(code)
  \/ \E p \in Logs, code \in {0, 1}, strict \in BOOLEAN : Command(p, code, strict)
  \/ \E s \in Sources : EditSource(s)
  \/ EditEmitted
  \/ Scan

EvidenceSpec == EvidenceInit /\ [][EvidenceNext]_evidenceVars

-----------------------------------------------------------------------------
\* Properties.

\* Evidence is accepted only if one job exported exactly the source and the
\* generated files that are there now, and compiled all of the modules and the
\* consumer strictly and passed the tests, whatever is left from other jobs.
\* If nothing was edited while that job was on, it did all of this on just
\* those files; an edit that was put back during it leaves no trace in the
\* evidence (scan_swift.py:102-158).
AcceptedIsCurrent ==
  status = "evidence-consistent-scoped-consumer" =>
    \E n \in 1..run :
      LET good     == {r \in receipts : r.run_id = n /\ r.exit_code = 0 /\ r.sha256.strict}
          OnNow(r) == r.source = source /\ r.emitted = emitted
      IN  /\ emitted = [from |-> source, intact |-> TRUE]
          /\ ModulesOf[source] \cup {consumer, "export", "tests"} \subseteq {r.of : r \in good}
          /\ \E g \in good : g.of = "export" /\ OnNow(g)
          /\ n \notin disturbed => \A r \in good : OnNow(r)
=============================================================================
