--------------------------- MODULE SyncPublication ---------------------------
(***************************************************************************)
(* verification/sync_android_publication.py: a plan for one checkout is    *)
(* saved, reviewed and applied, file by file, while people edit and commit *)
(* in the same checkout and the tool may be killed.                        *)
(*                                                                         *)
(* The content of a file is the set of hunks it consists of.  The build    *)
(* file is transformed; the other files are copied from the template.      *)
(* The template, the catalog and the workflows do not change meanwhile,    *)
(* and the owner's grant is for the head of the saved plan.                *)
(***************************************************************************)
EXTENDS Naturals, Sequences

CONSTANTS
  Order,       \* the files of a plan, in the order of saved['changes']
  build,       \* the one that is transformed, build.gradle.kts
  Edits,       \* the hunks people add, each once
  MaxCrashes   \* bound: how often the tool is killed

Files == {Order[i] : i \in DOMAIN Order}

ASSUME OrderAssumption == Order \in Seq(Files) /\ Len(Order) > 0
ASSUME BuildAssumption == build \in Files
ASSUME EditsAssumption ==
  Edits \cap {"absent", "partial", "project", "fragment", "template"} = {}
ASSUME CrashesAssumption == MaxCrashes \in Nat

VARIABLES
  file,        \* file[f]: the content in the working tree
  committed,   \* committed[f]: the content at HEAD
  saved,       \* the saved plan: the head and the contents it was made for
  pc,          \* where apply is
  next,        \* Order[next] is the file it is at
  crashes,     \* kills so far
  edits,       \* history: the edits made, as <<file, hunk>>
  raced        \* history: those made to a file between its check and its write

vars == <<file, committed, saved, pc, next, crashes, edits, raced>>

Absent == {"absent"}
Empty == {}
Partial == {"partial"}

Hunks(f) == {"absent", "partial"} \cup Edits
              \cup (IF f = build THEN {"project", "fragment"} ELSE {"template"})

SyncTypeOK ==
  /\ file \in [Files -> SUBSET UNION {Hunks(f) : f \in Files}]
  /\ \A f \in Files : file[f] \subseteq Hunks(f) /\ committed[f] \subseteq Hunks(f)
  /\ committed \in [Files -> SUBSET UNION {Hunks(f) : f \in Files}]
  /\ DOMAIN saved.before = Files
  /\ pc \in {"idle", "recheck", "status", "file", "create", "truncate", "write"}
  /\ next \in 1..Len(Order)
  /\ crashes \in 0..MaxCrashes
  /\ edits \subseteq Files \X Edits
  /\ raced \subseteq edits

-----------------------------------------------------------------------------
\* before = path.read_text() if path.exists() else ''
Text(c) == IF c = Absent THEN Empty ELSE c

\* Mutant: every file is given what the build file is.
SharedAfter(f, c) == c \cup {"fragment"}

\* The content a plan proposes for a file that now has content c.
After(f, c) == IF f = build THEN c \cup {"fragment"} ELSE {"template"}

\* Mutant: a file that exists is an override, even the template's own.
StrictPlannable ==
  /\ "project" \in file[build]
  /\ \A f \in Files \ {build} : file[f] = Absent

\* plan() refuses a build file it cannot parse, and a file that is neither
\* empty nor the template's.
Plannable ==
  /\ "project" \in file[build]
  /\ \A f \in Files \ {build} : Text(file[f]) \in {Empty, {"template"}}

\* A commit is told from others by what it contains.
Planned == [head |-> committed, before |-> [f \in Files |-> Text(file[f])]]

Clean == file = committed

\* A file that a killed write left behind.
Torn(f) ==
  \/ Text(file[f]) \in {Empty, Partial} /\ file[f] # Absent
  \/ f = build /\ "project" \notin file[f]

\* Files are read and HEAD is asked for at one moment.
Plan ==
  /\ pc = "idle"
  /\ Plannable
  /\ saved # Planned
  /\ saved' = Planned
  /\ UNCHANGED <<file, committed, pc, next, crashes, edits, raced>>

StartApply ==
  /\ pc = "idle"
  /\ pc' = "recheck"
  /\ UNCHANGED <<file, committed, saved, next, crashes, edits, raced>>

\* fresh = plan(...); require(fresh == saved, ...)
Recheck ==
  /\ pc = "recheck"
  /\ pc' = IF Plannable /\ Planned = saved THEN "status" ELSE "idle"
  /\ UNCHANGED <<file, committed, saved, next, crashes, edits, raced>>

\* require(not git(repo, 'status', '--porcelain'), ...)
Status ==
  /\ pc = "status"
  /\ pc' = IF Clean THEN "file" ELSE "idle"
  /\ next' = 1
  /\ UNCHANGED <<file, committed, saved, crashes, edits, raced>>

-----------------------------------------------------------------------------
\* The loop over the files.

Here == Order[next]

Reviewed == After(Here, saved.before[Here])

\* Go on with the next file, or end after the last one.
Advance ==
  IF next < Len(Order) THEN pc' = "file" /\ next' = next + 1
                       ELSE pc' = "idle" /\ UNCHANGED next

Skip ==
  /\ pc = "file"
  /\ saved.before[Here] = Reviewed
  /\ Advance
  /\ UNCHANGED <<file, committed, saved, crashes, edits, raced>>

\* Mutant: the file is not compared with what was reviewed.
UncheckedLook ==
  /\ pc = "file"
  /\ saved.before[Here] # Reviewed
  /\ pc' = IF file[Here] = Absent THEN "create" ELSE "truncate"
  /\ UNCHANGED <<file, committed, saved, next, crashes, edits, raced>>

\* path.exists(), and the hash of what is there.
Look ==
  /\ pc = "file"
  /\ saved.before[Here] # Reviewed
  /\ pc' = IF file[Here] = Absent THEN "create"
           ELSE IF file[Here] = saved.before[Here] THEN "truncate"
           ELSE "idle"
  /\ UNCHANGED <<file, committed, saved, next, crashes, edits, raced>>

\* path.open('x'): fails when the file has appeared meanwhile.
Create ==
  /\ pc = "create"
  /\ IF file[Here] = Absent
       THEN /\ file' = [file EXCEPT ![Here] = Empty]
            /\ pc' = "write"
       ELSE /\ pc' = "idle"
            /\ UNCHANGED file
  /\ UNCHANGED <<committed, saved, next, crashes, edits, raced>>

\* path.write_text(...) opens the file, which empties it, and then writes.
Truncate ==
  /\ pc = "truncate"
  /\ file' = [file EXCEPT ![Here] = Empty]
  /\ pc' = "write"
  /\ UNCHANGED <<committed, saved, next, crashes, edits, raced>>

Write ==
  /\ pc = "write"
  /\ file' = [file EXCEPT ![Here] = Reviewed]
  /\ Advance
  /\ UNCHANGED <<committed, saved, crashes, edits, raced>>

\* The tool is killed, a write half done.
Crash ==
  /\ pc # "idle"
  /\ crashes < MaxCrashes
  /\ crashes' = crashes + 1
  /\ pc' = "idle"
  /\ \/ UNCHANGED file
     \/ pc = "write" /\ file' = [file EXCEPT ![Here] = Partial]
  /\ UNCHANGED <<committed, saved, next, edits, raced>>

-----------------------------------------------------------------------------
\* The people who work in the checkout.

\* Between the check of a file and the end of its write.
Racing(f) == pc \in {"truncate", "write"} /\ f = Here

\* Nobody edits a file that is torn, unless it only is for a moment.
Edit(f, e) ==
  /\ \A g \in Files : <<g, e>> \notin edits
  /\ Torn(f) => Racing(f)
  /\ file' = [file EXCEPT ![f] = Text(@) \cup {e}]
  /\ edits' = edits \cup {<<f, e>>}
  /\ raced' = IF Racing(f) THEN raced \cup {<<f, e>>} ELSE raced
  /\ UNCHANGED <<committed, saved, pc, next, crashes>>

\* Nobody commits a torn file.
Commit ==
  /\ ~Clean
  /\ \A f \in Files : ~Torn(f)
  /\ committed' = file
  /\ UNCHANGED <<file, saved, pc, next, crashes, edits, raced>>

\* After a killed run a torn file is restored from HEAD.
Restore(f) ==
  /\ pc = "idle"
  /\ Torn(f)
  /\ file' = [file EXCEPT ![f] = committed[f]]
  /\ UNCHANGED <<committed, saved, pc, next, crashes, edits, raced>>

-----------------------------------------------------------------------------
\* A checkout without the template's files, and a plan for it.
Init ==
  /\ file = [f \in Files |-> IF f = build THEN {"project"} ELSE Absent]
  /\ committed = file
  /\ saved = Planned
  /\ pc = "idle"
  /\ next = 1
  /\ crashes = 0
  /\ edits = {}
  /\ raced = {}

Tool ==
  \/ Recheck \/ Status
  \/ Skip \/ Look \/ Create \/ Truncate \/ Write

Next ==
  \/ Plan \/ StartApply \/ Tool \/ Crash
  \/ \E f \in Files, e \in Edits : Edit(f, e)
  \/ Commit
  \/ \E f \in Files : Restore(f)

Spec == Init /\ [][Next]_vars

\* A run of the tool goes on until it ends, and the owner goes on too: what a
\* run left is restored or committed, and planned and applied again.
FairSpec ==
  /\ Spec
  /\ WF_vars(Tool) /\ WF_vars(StartApply) /\ SF_vars(Plan) /\ SF_vars(Commit)
  /\ \A f \in Files : SF_vars(Restore(f))

-----------------------------------------------------------------------------
\* Properties.

Kept(f, e) == e \in file[f] \/ e \in committed[f]

\* Whatever people edit while a plan is applied, and wherever the tool is
\* killed, is still in the working tree or at HEAD, unless the edit falls
\* between the check of that very file and its write
\* (sync_android_publication.py:222-242).
EditsKept == \A p \in edits \ raced : Kept(p[1], p[2])

\* 'Dirty checkout; preserve concurrent work'
\* (sync_android_publication.py:225), without exception.
ConcurrentWorkPreserved == \A p \in edits : Kept(p[1], p[2])

\* Every file has what the template wants of it.
Synced ==
  /\ {"project", "fragment"} \subseteq file[build]
  /\ \A f \in Files \ {build} : "template" \in file[f]

\* Somebody has a version of their own of a template's file, which plan()
\* leaves to a manual review.
Overridden ==
  \E f \in Files \ {build} : file[f] \cap Edits # {}

\* A run that was killed or refused halfway never leaves a checkout in which
\* planning and applying again cannot finish the work
\* (sync_android_publication.py:200-207, 229-242).
EventuallySynced == <>[](Synced \/ Overridden)
=============================================================================
